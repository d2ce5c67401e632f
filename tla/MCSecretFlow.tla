---------------------------- MODULE MCSecretFlow ----------------------------
(***************************************************************************)
(* The programs SecretSoundness is checked on: a credential is copied once *)
(* or twice, by every kind of statement that moves bytes, then sent by     *)
(* every kind of statement that sends them.                                *)
(***************************************************************************)
EXTENDS SecretSoundness

CONSTANTS key, a, b, remote, token, unknown, secret, file, untrusted

MCPaths   == {key, a, b, remote}
MCVars    == {"x"}
MCTargets == MCPaths \cup MCVars \cup {token}
MCLabels  == {secret, file, untrusted}

Of(c) == Subst(<< S(c) >>)

\* Statements that put credential material somewhere.
Sources ==
  { S(Cp(key, a)), S(Mv(key, a)), Background(Cp(key, a)), With(Cat(key), << OutTo(a) >>),
    S(Pipe(<< S(Cat(key)), S(Tee(a)) >>)),
    S(Group(<< S(Cp(key, b)), S(Cp(b, a)) >>)),
    S(Assign("x", Of(Cat(key)))),
    S(Assign("x", Subst(<< S(Cat(key)), S(Printf(Lit)) >>))),
    S(Assign("x", Subst(<< S(Pipe(<< S(Cat(key)), S(Pass) >>)) >>))),
    S(Subshell(<< S(Assign("x", Of(Cat(key)))), With(Printf(Var("x")), << OutTo(a) >>) >>)),
    S(Assign("x", EnvToken)) }

\* Statements that move it on, or overwrite it.
Moves ==
  { S(Cp(a, b)), S(Mv(a, b)), S(Cp(b, a)), With(Pass, << InFrom(a), OutTo(b) >>),
    S(Pipe(<< S(Cat(a)), With(Pass, << OutTo(b) >>) >>)),
    With(Printf(Var("x")), << OutTo(a) >>),
    S(Pipe(<< S(Printf(Var("x"))), S(Tee(b)) >>)),
    S(Assign("x", Var("x"))), S(Assign("x", Of(Printf(Var("x"))))),
    S(Subshell(<< S(Assign("x", Lit)) >>)), S(Assign("x", Lit)), S(Get) }

\* Statements that send it.
Sinks ==
  { S(Get), S(Put(key)), S(Put(a)), S(Put(b)), S(Form(a)),
    S(Post(Var("x"))), S(Post(EnvToken)), S(Post(Of(Cat(key)))), S(Post(Of(Cat(a)))),
    S(Post(Of(Printf(EnvToken)))), S(Pipe(<< S(Printf(EnvToken)), S(PostIn) >>)),
    With(PostIn, << InFrom(a) >>), With(PostIn, << Here(Var("x")) >>),
    S(Pipe(<< S(Cat(a)), S(PostIn) >>)),
    S(Pipe(<< S(Cat(key)), S(Pass), S(PostIn) >>)),
    S(Pipe(<< S(Printf(Var("x"))), S(PostIn) >>)),
    S(Pipe(<< S(Group(<< S(Cat(b)), S(Printf(Lit)) >>)), S(PostIn) >>)),
    With(Cat(a), << OutNet >>), With(Printf(Var("x")), << OutNet >>),
    S(Group(<< S(Assign("x", Of(Cat(key)))), S(Post(Var("x"))) >>)),
    S(Cp(b, remote)), S(Cp(key, remote)) }

MCPrograms ==
  { << k >> : k \in Sinks } \cup { << s, k >> : s \in Sources \cup Moves, k \in Sinks }
    \cup { << s, m, k >> : s \in Sources, m \in Moves, k \in Sinks }

\* The statements that make up a statement, and those of all the programs.
PartsOf(s) ==
  CASE s.c.op \in {"pipe", "group", "sub"} -> {s.c.ss[i] : i \in DOMAIN s.c.ss}
    [] s.c.op \in Simple /\ s.c.word.w = "subst" -> {s.c.word.ss[i] : i \in DOMAIN s.c.word.ss}
    [] OTHER -> {}

WithParts(T) == T \cup UNION {PartsOf(s) : s \in T}

MCStatements == WithParts(WithParts(WithParts(Sources \cup Moves \cup Sinks)))
=============================================================================
