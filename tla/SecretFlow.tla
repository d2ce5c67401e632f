----------------------------- MODULE SecretFlow -----------------------------
(***************************************************************************)
(* How flowsh follows a credential to the network: the provenance threaded *)
(* by the bash frontend through pipelines, redirections, substitutions and *)
(* variables (front/bash/exec.go), the staging of credential material in   *)
(* files (ApplySecretStaging, engine/taint.go), and what the composition   *)
(* makes of the effects: remote writes, exfiltration pairs, their severity *)
(* (internal/analysis, DetectExfil, exfilSeverity).                        *)
(*                                                                         *)
(* The Go call stack is the variable stack, as in BashExec.                *)
(***************************************************************************)
EXTENDS SecretProgram

VARIABLES
  stack,     \* the calls in progress, innermost first
  effs,      \* it.effs
  cells,     \* the taint of each variable of it.state
  stdin,     \* it.stdinTaint
  stdout,    \* it.stdoutTaint
  staged,    \* it.staged
  pending,   \* it.pendingEgress
  word,      \* the taint of the last command substitution
  report,    \* rep.Effects, as a set of rows
  mode,      \* "analyse" or "done"
  spans      \* history: where the effects of each top-level statement start

flowVars ==
  <<stack, effs, cells, stdin, stdout, staged, pending, word, report, mode, spans>>

-----------------------------------------------------------------------------
\* Effects, with the fields the flow depends on

Eff(k, t, l) == [kind |-> k, target |-> t, taint |-> l]

Scope(p) == IF p = Unknown THEN FlatTop ELSE FlatOf({p})
NoTarget == FlatOf({})

\* The effect carries the labels l besides its own.
Carrying(e, l) == Eff(e.kind, e.target, e.taint \cup l)

\* The effects at the positions I carry the labels l.
Relabel(es, I, l) == [i \in DOMAIN es |-> IF i \in I THEN Carrying(es[i], l) ELSE es[i]]

OfKind(es, K) == {i \in DOMAIN es : es[i].kind \in K}
Egresses(es)  == OfKind(es, {"NetEgress"})
Writes(es)    == OfKind(es, {"FSWrite"})

SecretPath(p) == p = Key

\* anySecretTarget: a scope that holds every path names none.
SecretTarget(t) == \E p \in t.elems : SecretPath(p)

IsSecretRead(e) ==
  \/ e.kind \in {"FSRead", "FSMeta"} /\ (Secret \in e.taint \/ SecretTarget(e.target))
  \/ e.kind = "EnvRead" /\ (Secret \in e.taint \/ Token \in e.target.elems \/ e.target.elems = {})

SecretReads(es) == {i \in DOMAIN es : IsSecretRead(es[i])}

IsEgressSink(e) == e.kind = "NetEgress" /\ e.taint # {}

-----------------------------------------------------------------------------
\* ApplySecretStaging

StagedReads(es) ==
  {i \in OfKind(es, {"FSRead", "FSMeta"}) : es[i].target.elems \cap staged # {}}

\* Read-back: a read of what an earlier statement staged is a secret read, and
\* the statement's egress carries it.
ReadBack(es) ==
  IF StagedReads(es) # {} THEN Relabel(es, StagedReads(es) \cup Egresses(es), {Secret}) ELSE es

HandlesSecret(es) ==
  \E i \in DOMAIN es :
    IsSecretRead(es[i]) \/ Secret \in es[i].taint \/ SecretTarget(es[i].target)

Staging(es) == IF HandlesSecret(es) THEN Relabel(es, Writes(es), {Secret}) ELSE es

Named(es, I) == UNION {es[i].target.elems : i \in I}

\* Mutants: every write is staged; whatever a statement touches is.
StagedAlways(es) == Named(es, Writes(es))
StagedAny(es) == IF HandlesSecret(es) THEN Named(es, DOMAIN es) ELSE {}

StagedBy(es) == IF HandlesSecret(es) THEN Named(es, Writes(es)) ELSE {}

Unlabelled(es) == {i \in Egresses(es) : es[i].taint = {}}

\* Mutant: the label replaces what the sink carries.
EgressOverwritten(es, payload) ==
  IF Secret \in payload \/ SecretReads(es) # {}
  THEN [i \in DOMAIN es |-> IF i \in Egresses(es) THEN Eff(es[i].kind, es[i].target, {Secret})
                             ELSE es[i]]
  ELSE es

\* taintEgressWithSecret: a sink that carries a label is left alone.
EgressWithSecret(es, payload) ==
  IF Secret \in payload \/ SecretReads(es) # {} THEN Relabel(es, Unlabelled(es), {Secret}) ELSE es

\* The effects from position n + 1 on, and the list with these replaced.
From(n)       == SubSeq(effs, n + 1, Len(effs))
Replaced(n, es) == SubSeq(effs, 1, n) \o es

-----------------------------------------------------------------------------
\* The binding of one command

\* The operands of a client are the address of its request.
Request == Eff("NetEgress", NoTarget, {})

\* What an operand of the form @file carries.
FilePayload(p) == {File} \cup IF SecretPath(p) THEN {Secret} ELSE {}

\* A client declares its option and its address.  The value of an option is
\* kept as a destination: its text is not known when it holds a credential.
Declared(c, l) ==
  CASE c.op = "cat"    -> << Eff("FSRead", Scope(c.src), {}) >>
    [] c.op = "cp"     -> << Eff("FSRead", Scope(c.src), {}), Eff("FSWrite", Scope(c.dst), {}) >>
    [] c.op = "mv"     -> << Eff("FSMeta", Scope(c.src), {}), Eff("FSWrite", Scope(c.dst), {}) >>
    [] c.op = "tee"    -> << Eff("FSWrite", Scope(c.dst), {}) >>
    [] c.op = "printf" -> << Eff("Stdio", NoTarget, l) >>
    [] c.op = "put"    -> << Eff("FSRead", Scope(c.src), {}), Request >>
    [] c.op = "form"   -> << Eff("FSRead", Scope(c.src), FilePayload(c.src)),
                             Eff("NetEgress", NoTarget, FilePayload(c.src)), Request >>
    [] c.op = "post"   -> << Eff("NetEgress", NoTarget, l), Request >>
    [] c.op = "postIn" -> << Eff("NetEgress", NoTarget, stdin), Request >>
    [] c.op = "get"    -> << Request >>
    [] OTHER           -> << >>

\* What a list of effects reads: the taint of its reads, and the secret label
\* if one names a credential.
TaintRead(es, kinds) ==
  UNION {es[i].taint \cup (IF IsSecretRead(es[i]) THEN {Secret} ELSE {})
           : i \in OfKind(es, kinds)}

\* taintEgress: a command's egress carries its standard input and its reads.
TaintEgress(es) == Relabel(es, Egresses(es), stdin \cup TaintRead(es, {"FSRead"}))

Bound(c, l) == TaintEgress(Declared(c, l))

\* outTaintOf
OutTaint(es) == stdin \cup TaintRead(es, {"FSRead", "EnvRead"})

\* credentialEnvReads
EnvReads(v) ==
  IF v.w = "env" THEN << Eff("EnvRead", Scope(Token), {Secret}) >> ELSE << >>

WordTaint(v) ==
  CASE v.w = "var" /\ v.x \in Vars -> cells[v.x]
    [] v.w = "subst"               -> word \cup {Untrusted}
    [] OTHER                       -> {}

-----------------------------------------------------------------------------
\* The machine

Frame   == Head(stack)
In(k)   == mode = "analyse" /\ stack # << >> /\ Frame.k = k
Return  == stack' = Tail(stack)
Become(fs) == stack' = fs \o Tail(stack)

ListFrame(ss) == [k |-> "list", ss |-> ss]
StmtFrame(s)  == [k |-> "stmt", s |-> s]
LeaveFrame    == [k |-> "leave", cells |-> cells]
EndFrame      == [k |-> "end", start |-> Len(effs), stdin |-> stdin, pending |-> pending]

FlowInit ==
  /\ prog \in Programs
  /\ stack = << ListFrame(prog) >>
  /\ effs = << >>
  /\ cells = [x \in Vars |-> {}]
  /\ stdin = {}
  /\ stdout = {}
  /\ staged = {}
  /\ pending = {}
  /\ word = {}
  /\ report = {}
  /\ mode = "analyse"
  /\ spans = << >>

Result == <<report, mode>>
Flow   == <<stdin, stdout, word>>

\* execStmts.  The last frame of the stack is the program's list.
List ==
  /\ In("list")
  /\ IF Frame.ss = << >> THEN Return
     ELSE Become(<< StmtFrame(Head(Frame.ss)), ListFrame(Tail(Frame.ss)) >>)
  /\ spans' = IF Len(stack) = 1 /\ Frame.ss # << >> THEN Append(spans, Len(effs)) ELSE spans
  /\ UNCHANGED <<effs, cells, Flow, staged, pending, Result>>

\* Mutant: a statement's effects are those of the whole program so far.
ProgramEnd == [EndFrame EXCEPT !.start = 0]

StatementEnd == EndFrame

\* execStmt, up to the first redirection.
Statement ==
  /\ In("stmt")
  /\ Become(<< [k |-> "redirs", rs |-> Frame.s.redirs], [k |-> "run", s |-> Frame.s],
               StatementEnd >>)
  /\ pending' = {}
  /\ UNCHANGED <<effs, cells, Flow, staged, Result, spans>>

\* redir, for one redirection.
Redirect(r) ==
  \/ /\ r.r = "in"
     /\ effs' = Append(effs, Eff("FSRead", Scope(r.p), {}))
     /\ stdin' = stdin \cup (IF SecretPath(r.p) THEN {Secret} ELSE {})
     /\ pending' = pending
  \/ /\ r.r = "out"
     /\ effs' = Append(effs, Eff("FSWrite", Scope(r.p), {}))
     /\ UNCHANGED <<stdin, pending>>
  \/ /\ r.r = "net"        \* queueEgress: what it carries is not known yet
     /\ effs' = Append(effs, Eff("NetEgress", NoTarget, {}))
     /\ pending' = pending \cup {Len(effs) + 1}
     /\ stdin' = stdin
  \/ /\ r.r = "here"
     /\ effs' = Append(effs, Eff("Stdio", NoTarget, {}))
     /\ stdin' = stdin \cup WordTaint(r.word)
     /\ pending' = pending

\* The redirections of a statement, before its command.
Redirections ==
  /\ In("redirs")
  /\ \/ /\ Frame.rs = << >>
        /\ Return
        /\ UNCHANGED <<effs, stdin, pending>>
     \/ /\ Frame.rs # << >>
        /\ Redirect(Head(Frame.rs))
        /\ Become(<< [k |-> "redirs", rs |-> Tail(Frame.rs)] >>)
  /\ UNCHANGED <<cells, stdout, word, staged, Result, spans>>

\* execCommand.  A background job and a subshell run on a copy of the state; a
\* block runs on the state itself.
Command ==
  /\ In("run")
  /\ LET c == Frame.s.c
         body == CASE c.op \in {"group", "sub"} -> << ListFrame(c.ss) >>
                   [] c.op = "pipe" -> << [k |-> "pipe", ss |-> c.ss, first |-> TRUE,
                                           stdin |-> stdin, cells |-> cells] >>
                   [] OTHER -> << [k |-> "call", c |-> c] >>
         copied == Frame.s.bg \/ c.op = "sub"
     IN  Become(body \o IF copied THEN << LeaveFrame >> ELSE << >>)
  /\ UNCHANGED <<effs, cells, Flow, staged, pending, Result, spans>>

Leave ==
  /\ In("leave")
  /\ cells' = Frame.cells
  /\ Return
  /\ UNCHANGED <<effs, Flow, staged, pending, Result, spans>>

\* execPipeline: each stage on a copy of the state, fed by what the one before
\* it wrote.
Stage ==
  /\ In("pipe")
  /\ cells' = Frame.cells
  /\ IF Frame.ss = << >>
     THEN Return /\ stdin' = Frame.stdin /\ stdout' = stdout
     ELSE /\ Become(<< StmtFrame(Head(Frame.ss)),
                       [k |-> "pipe", ss |-> Tail(Frame.ss), first |-> FALSE,
                        stdin |-> Frame.stdin, cells |-> Frame.cells] >>)
          /\ stdin' = IF Frame.first THEN Frame.stdin ELSE stdout
          /\ stdout' = {}
  /\ UNCHANGED <<effs, word, staged, pending, Result, spans>>

\* execCall, up to the expansion of its word.
Call ==
  /\ In("call")
  /\ Become((IF Frame.c.word.w = "subst"
             THEN << [k |-> "subst", ss |-> Frame.c.word.ss, ran |-> FALSE, taint |-> {},
                      cells |-> cells] >>
             ELSE << >>) \o << [k |-> "bind", c |-> Frame.c, start |-> Len(effs)] >>)
  /\ stdout' = {}
  /\ UNCHANGED <<effs, cells, stdin, word, staged, pending, Result, spans>>

\* Mutant: only the last statement of the body is folded.
LastOutput(f) == stdout

FoldedOutput(f) == IF f.ran THEN f.taint \cup stdout ELSE {}

\* captureSubst: the output of the body is that of all its statements.
Substitution ==
  /\ In("subst")
  /\ LET t == FoldedOutput(Frame) IN
     IF Frame.ss = << >>
     THEN /\ Return
          /\ word' = t
          /\ cells' = Frame.cells
          /\ stdout' = {}
     ELSE /\ Become(<< StmtFrame(Head(Frame.ss)),
                       [k |-> "subst", ss |-> Tail(Frame.ss), ran |-> TRUE, taint |-> t,
                        cells |-> Frame.cells] >>)
          /\ stdout' = {}
          /\ UNCHANGED <<word, cells>>
  /\ UNCHANGED <<effs, stdin, staged, pending, Result, spans>>

\* The rest of execCall: a bare assignment, or a command that is bound.
Bind ==
  /\ In("bind")
  /\ LET c == Frame.c
         l == WordTaint(c.word)
         kept == l \cup IF c.word.w = "env" THEN {Secret} ELSE {}
         es == From(Frame.start) \o EnvReads(c.word)
     IN  IF c.op = "assign"
         THEN /\ effs' = effs \o << Eff("EnvWrite", Scope(c.x), kept) >> \o EnvReads(c.word)
              /\ cells' = [cells EXCEPT ![c.x] = kept]
              /\ stdout' = stdout
         ELSE /\ effs' = Replaced(Frame.start, EgressWithSecret(es \o Bound(c, l), l))
              /\ stdout' = OutTaint(es \o Bound(c, l)) \cup l
              /\ cells' = cells
  /\ Return
  /\ UNCHANGED <<stdin, word, staged, pending, Result, spans>>

\* The end of execStmt: applyEgressTaint, then the deferred calls.
EndOfStatement ==
  /\ In("end")
  /\ LET payload == stdout \cup stdin
         fed == Relabel(effs, pending, payload)
         es == ReadBack(SubSeq(fed, Frame.start + 1, Len(fed)))
     IN  /\ effs' = Replaced(Frame.start, EgressWithSecret(Staging(es), {}))
         /\ staged' = staged \cup StagedBy(es)
  /\ stdin' = Frame.stdin
  /\ pending' = Frame.pending
  /\ Return
  /\ UNCHANGED <<cells, stdout, word, Result, spans>>

-----------------------------------------------------------------------------
\* The composition

Kinds(es) == {es[i].kind : i \in DOMAIN es}

ScopeOfAll(E) ==
  IF \E e \in E : e.target.arbitrary THEN FlatTop ELSE FlatOf(UNION {e.target.elems : e \in E})

\* Mutant: the label of one of the effects.
JoinOfOne(k, E) == Eff(k, ScopeOfAll(E), (CHOOSE e \in E : TRUE).taint)

JoinOf(k, E) == Eff(k, ScopeOfAll(E), UNION {e.taint : e \in E})

\* Report.Normalize, for effects of one mode and no flow role: a row per kind.
Rows(es) == {JoinOf(k, {es[i] : i \in OfKind(es, {k})}) : k \in Kinds(es)}

\* remoteSinkPayload
RemotePayload(R) ==
  UNION {e.taint \cup (IF IsSecretRead(e) THEN {Secret} ELSE {})
           : e \in {f \in R : f.kind \in {"FSRead", "FSMeta"}}}

\* applyRemoteWriteSinks
WithRemoteSinks(R) ==
  IF \E e \in R : e.kind \in {"FSWrite", "FSMeta"} /\ Remote \in e.target.elems
  THEN {e \in R : e.kind # "NetEgress"}
         \cup {JoinOf("NetEgress", {e \in R : e.kind = "NetEgress"}
                                     \cup {Eff("NetEgress", NoTarget, RemotePayload(R))})}
  ELSE R

\* DetectExfil
ExfilPairs(R) == {e \in R : IsSecretRead(e)} \X {e \in R : IsEgressSink(e)}

\* exfilSeverity
ExfilSeverity(R) ==
  IF ExfilPairs(R) = {} THEN 0
  ELSE IF \E p \in ExfilPairs(R) : Secret \in p[2].taint THEN 4 ELSE 3

\* analyzeBash, once the frontend has returned.
Compose ==
  /\ mode = "analyse"
  /\ stack = << >>
  /\ report' = WithRemoteSinks(Rows(effs))
  /\ mode' = "done"
  /\ UNCHANGED <<stack, effs, cells, Flow, staged, pending, spans>>

Analyse ==
  /\ \/ List \/ Statement \/ Redirections \/ Command \/ Leave \/ Stage
     \/ Call \/ Substitution \/ Bind \/ EndOfStatement \/ Compose
  /\ prog' = prog
=============================================================================
