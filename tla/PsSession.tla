----------------------------- MODULE PsSession -----------------------------
(***************************************************************************)
(* PowerShell running the program (external): the set of what may happen.  *)
(*                                                                         *)
(* Written independently of the lowering, on the statements of the source. *)
(* A variable nothing assigned holds outer, whatever the caller left in it;*)
(* a computed value is "o"; a cmdlet inside a try may throw.  Cmdlets that *)
(* change the session (Set-Location, New-PSDrive, Set-Variable) succeed.   *)
(*                                                                         *)
(* An outcome is [k, c]: how the piece completed and the session after it. *)
(***************************************************************************)
EXTENDS PsProgram

CONSTANT Outers  \* what variables nothing assigned may hold

VARIABLE run   \* an outcome of the whole program

-----------------------------------------------------------------------------
\* A value's text, whether it holds a secret, and its entries if it is a table.
Value(text, secret) == [text |-> text, secret |-> secret, hash |-> << >>]
Some(secret)        == Value(<< "o" >>, secret)

\* passed: what a stage hands on, [fetched over the network, secret].
Quiet == [net |-> FALSE, secret |-> FALSE]
Fresh(outer) == [vars |-> << >>, drives |-> << >>, outer |-> outer, trace |-> {}, secretFiles |-> {},
                 passed |-> Quiet, guarded |-> FALSE]

Done(k, c)    == {[k |-> k, c |-> c]}
Ok(c)         == Done("normal", c)
Then(S, F(_)) == UNION {IF o.k = "normal" THEN F(o.c) ELSE {o} : o \in S}

\* secret: a secret goes with it; spelled: it is a part of the target itself.
Deed(kind, target, secret) == [kind |-> kind, target |-> target, secret |-> secret, spelled |-> FALSE]
Doing(c, deeds)            == [c EXCEPT !.trace = @ \cup deeds]

Lookup(c, x) ==
  CASE x = "true"          -> Value(<< "True" >>, FALSE)
    [] x = "false"         -> Value(<< "False" >>, FALSE)
    [] x = "null"          -> Value(<< >>, FALSE)
    [] x \in DOMAIN c.vars -> c.vars[x]
    [] OTHER               -> Value(c.outer, FALSE)
EnvValue(c, x) == IF "env:" \o x \in DOMAIN c.vars THEN c.vars["env:" \o x] ELSE Value(<< "e" >>, x \in Tokens)

PartValue(c, p) ==
  CASE p.k = "lit" -> Value(<< p.t >>, FALSE)
    [] p.k = "var" -> Lookup(c, p.t)
    [] p.k = "env" -> EnvValue(c, p.t)
    [] OTHER       -> Some(FALSE)

ValueOf(w, c) ==
  CASE w.form = "expression" -> Some(c.passed.secret)
    [] OTHER -> LET vs == [i \in DOMAIN w.parts |-> PartValue(c, w.parts[i])]
                IN  Value(FlattenSeq([i \in DOMAIN vs |-> vs[i].text]), \E i \in DOMAIN vs : vs[i].secret)

\* The environment variables evaluating the words reads.
EnvDeeds(c, ws) ==
  {Deed("EnvRead", << ws[i].parts[j].t >>, FALSE) : <<i, j>> \in
     {p \in (DOMAIN ws) \X (1..3) : /\ p[2] \in DOMAIN ws[p[1]].parts
                                    /\ ws[p[1]].parts[p[2]].k = "env"
                                    /\ "env:" \o ws[p[1]].parts[p[2]].t \notin DOMAIN c.vars}}

Assign(c, x, v) == [c EXCEPT !.vars = (x :> v) @@ @]

-----------------------------------------------------------------------------
\* Where a path leads: a mounted drive to its root, a missing drive nowhere.
IsDrive(text) == text # << >> /\ \E n \in DOMAIN Letters : Letters[n] = Head(text)
Located(c, text) ==
  CASE text = << >>                                          -> << >>
    [] IsDrive(text) /\ Head(text) \in DOMAIN c.drives       -> << c.drives[Head(text)] \o Tail(text) >>
    [] IsDrive(text)                                         -> << >>
    [] OTHER                                                 -> << text >>

HoldsSecret(c, text) == text \in c.secretFiles \/ \E i \in DOMAIN text : text[i] \in Secrets

\* What reading or writing a path is, by the provider it is on.
Access(c, kind, v) ==
  LET at == Located(c, v.text)
      provider == IF at = << >> \/ Head(at[1]) \notin DOMAIN Providers THEN "FileSystem" ELSE Providers[Head(at[1])]
  IN  CASE at = << >>             -> {}
        [] provider = "Env"       -> {Deed(IF kind = "FSRead" THEN "EnvRead" ELSE "EnvWrite", Tail(at[1]), FALSE)}
        [] provider = "Variable"  -> {}
        [] provider = "Registry"  -> {Deed("Persist", at[1], FALSE)}
        [] OTHER                  -> {Deed(kind, at[1], FALSE)}

Named(cmd, names) == LET some == SelectSeq(cmd.bindings, LAMBDA b : b[1] \in names)
                     IN  [i \in DOMAIN some |-> some[i][2]]
Operands(cmd, names) == Named(cmd, names) \o cmd.args
First(ws)            == IF ws = << >> THEN << >> ELSE << ws[1] >>

\* The command with the entries of its splatted tables as parameters.
Spread(cmd, c) ==
  LET Table(w) == IF w.form = "splat" THEN Lookup(c, w.name).hash ELSE << >>
      tables == FlattenSeq([i \in DOMAIN cmd.args |-> Table(cmd.args[i])])
      values == SelectSeq(tables, LAMBDA kv : kv[1] \notin Switches)
  IN  [cmd EXCEPT !.args = SelectSeq(@, LAMBDA w : w.form # "splat"),
                  !.bindings = @ \o [i \in DOMAIN values |-> << values[i][1], Lit(values[i][2]) >>],
                  !.params = @ \cup {tables[i][1] : i \in {j \in DOMAIN tables :
                                       tables[j][1] \in Switches /\ tables[j][2] = << "True" >>}}]

-----------------------------------------------------------------------------
\* Cmdlets

Reads(cmd, c) ==
  LET vs == [i \in DOMAIN Operands(cmd, PathNames) |-> ValueOf(Operands(cmd, PathNames)[i], c)]
      secret == \E i \in DOMAIN vs : \E p \in ToSet(Located(c, vs[i].text)) : HoldsSecret(c, p)
  IN  [Doing(c, UNION {Access(c, "FSRead", vs[i]) : i \in DOMAIN vs}) EXCEPT !.passed = [net |-> FALSE, secret |-> secret]]

\* Set-Content, Remove-Item, Out-File: every path, and Variable: items.
Writes(cmd, c) ==
  LET ws == Operands(cmd, PathNames)
      vs == [i \in DOMAIN ws |-> ValueOf(ws[i], c)]
      given == Named(cmd, {"value"})
      Item(acc, i) ==
        LET t == vs[i].text IN
        IF Len(t) = 2 /\ t[1] \in DOMAIN Providers /\ Providers[t[1]] = "Variable"
        THEN CASE cmd.name = "Set-Item" -> Assign(acc, t[2], IF given = << >> THEN Value(<< >>, FALSE) ELSE ValueOf(given[1], acc))
               [] OTHER -> [acc EXCEPT !.vars = (t[2] :> Value(acc.outer, FALSE)) @@ @]
        ELSE acc
      kept == {p \in UNION {ToSet(Located(c, vs[i].text)) : i \in DOMAIN vs} :
                 c.passed.secret \/ \E i \in DOMAIN given : ValueOf(given[i], c).secret}
      wiped == IF cmd.name \in {"Remove-Item", "rm"} /\ cmd.params \cap {"recurse", "force"} # {}
                  /\ \E i \in DOMAIN vs : Access(c, "FSWrite", vs[i]) # {}
               THEN {Deed("Wipe", << >>, FALSE)} ELSE {}
  IN  FoldLeft(Item, [Doing(c, UNION {Access(c, "FSWrite", vs[i]) : i \in DOMAIN vs} \cup wiped)
                        EXCEPT !.secretFiles = @ \cup kept], [i \in DOMAIN ws |-> i])

Copies(cmd, c) ==
  LET ws == Operands(cmd, PathNames)
      from == ValueOf(ws[1], c)
      to   == ValueOf(ws[2], c)
      secret == \E p \in ToSet(Located(c, from.text)) : HoldsSecret(c, p)
      sent == IF cmd.params \cap {"tosession"} # {} THEN {Deed("NetEgress", << "session" >>, secret)} ELSE {}
  IN  IF Len(ws) < 2 THEN c
      ELSE [Doing(c, Access(c, "FSRead", from) \cup Access(c, "FSWrite", to) \cup sent)
         EXCEPT !.secretFiles = IF secret THEN @ \cup ToSet(Located(c, to.text)) ELSE @]

IsAddress(text) == text # << >> /\ Head(text) \in Hosts

Fetches(cmd, c) ==
  LET urls == [i \in DOMAIN Named(cmd, UrlNames) |-> ValueOf(Named(cmd, UrlNames)[i], c)]
                \o (IF Named(cmd, UrlNames) = << >> THEN [i \in 1..Len(First(cmd.args)) |-> ValueOf(cmd.args[i], c)] ELSE << >>)
      file == [i \in DOMAIN Named(cmd, {"infile"}) |-> ValueOf(Named(cmd, {"infile"})[i], c)]
      out  == [i \in DOMAIN Named(cmd, {"outfile"}) |-> ValueOf(Named(cmd, {"outfile"})[i], c)]
      body == Named(cmd, {"body"})
      secret == \/ \E i \in DOMAIN urls : urls[i].secret
                \/ \E i \in DOMAIN body : ValueOf(body[i], c).secret
                \/ \E i \in DOMAIN file : \E p \in ToSet(Located(c, file[i].text)) : HoldsSecret(c, p)
      sent == {[Deed("NetEgress", urls[i].text, secret) EXCEPT !.spelled = urls[i].secret] : i \in {j \in DOMAIN urls : IsAddress(urls[j].text)}}
  IN  IF sent = {} THEN [c EXCEPT !.passed = Quiet]
      ELSE [Doing(c, sent \cup UNION {Access(c, "FSRead", file[i]) : i \in DOMAIN file}
                          \cup UNION {Access(c, "FSWrite", out[i]) : i \in DOMAIN out})
              EXCEPT !.passed = [net |-> TRUE, secret |-> FALSE]]

Mounts(cmd, c) ==
  LET name == ValueOf((Named(cmd, {"name"}) \o cmd.args)[1], c).text
      root == ValueOf((Named(cmd, {"root"}) \o cmd.args)[1], c).text
      met  == CASE root # << >> /\ Head(root) \in DOMAIN Shares -> {Deed("NetEgress", << Shares[Head(root)] >>, FALSE)}
                [] root # << >> /\ Head(root) \in Ambiguous     -> {Deed("NetEgress", root, FALSE)}
                [] OTHER -> {}
  IN  IF /\ Len(name) = 1 /\ name[1] \in DOMAIN Letters /\ root # << >>
         /\ Letters[name[1]] \notin DOMAIN c.drives
      THEN [Doing(c, met) EXCEPT !.drives = (Letters[name[1]] :> root) @@ @] ELSE c

Unmounts(cmd, c) ==
  LET name == ValueOf(Operands(cmd, {"name"})[1], c).text
  IN  [c EXCEPT !.drives = IF Len(name) = 1 /\ name[1] \in DOMAIN Letters
                           THEN [d \in DOMAIN @ \ {Letters[name[1]]} |-> @[d]] ELSE @]

\* Start-Process and Invoke-Item run a program; what it does is its own affair
\* unless its arguments are code.
Launches(cmd, c) ==
  LET ws == Named(cmd, {"filepath", "path"}) \o cmd.args
      v  == ValueOf(ws[1], c)
      code == v.text # << >> /\ (Last(v.text) \in ScriptFiles \/ (Last(v.text) \in Interpreters /\ (Len(ws) > 1 \/ Named(cmd, {"argumentlist"}) # << >>)))
  IN  Doing(c, (IF v.text = << >> THEN {} ELSE {Deed("ProcSpawn", v.text, FALSE)})
               \cup (IF code THEN {Deed("CodeExec", << "*" >>, FALSE)} ELSE {})
               \cup (IF Named(cmd, {"verb"}) # << >> THEN {Deed("PrivEsc", << "*" >>, FALSE)} ELSE {}))

Anything(c) == Doing(c, {Deed("CodeExec", << "*" >>, FALSE)}
                        \cup (IF c.passed.net THEN {Deed("Sunk", << "*" >>, FALSE)} ELSE {}))

NameOf(ws) == ws[1].parts[1].t

Performs(cmd, name, c) ==
  CASE name \in {"Get-Content", "Test-Path"} -> Reads(cmd, c)
    [] name \in {"Set-Content", "Set-Item", "Remove-Item", "Out-File"} -> Writes(cmd, c)
    [] name = "Copy-Item"         -> Copies(cmd, c)
    [] name = "Invoke-WebRequest" -> Fetches(cmd, c)
    [] name = "New-PSDrive"       -> Mounts(cmd, c)
    [] name = "Remove-PSDrive"    -> Unmounts(cmd, c)
    [] name = "Set-Location"      -> Assign(Doing(c, {Deed("FSMeta", << "." >>, FALSE)}), "pwd", ValueOf(Operands(cmd, PathNames)[1], c))
    [] name = "Pop-Location"      -> Assign(Doing(c, {Deed("FSMeta", << "." >>, FALSE)}), "pwd", Some(FALSE))
    [] name = "Set-Variable"      ->
         LET x == Operands(cmd, {"name"}) v == Operands(cmd, {"value"})
         IN  Assign(c, NameOf(x), ValueOf(Last(v), c))
    [] name = "Clear-Variable"    -> Assign(c, NameOf(Operands(cmd, {"name"})), Value(<< >>, FALSE))
    [] name = "Write-Output"      ->
         [c EXCEPT !.passed = IF cmd.args = << >> THEN @
                              ELSE [net |-> FALSE, secret |-> \E i \in DOMAIN cmd.args : ValueOf(cmd.args[i], c).secret],
                   !.trace = @ \cup (IF cmd.redirs = << >> THEN {Deed("Stdio", << >>, FALSE)} ELSE {})]
    [] name \in {"Start-Process", "Invoke-Item"} -> Launches(cmd, c)
    [] name \in {"Get-Command", "Get-Module"} /\ Operands(cmd, NameNames) # << >> ->
         Doing(c, IF name = "Get-Command" \/ "listavailable" \in cmd.params
                  THEN {Deed("FSRead", ValueOf(Operands(cmd, NameNames)[1], c).text, FALSE)} ELSE {})
    [] name \in {"Get-Command", "Get-Module", "Get-Date"} -> [c EXCEPT !.passed = Quiet]
    [] OTHER -> Anything(c)

Redirects(rs, c) ==
  LET One(acc, r) ==
        LET v == ValueOf(r[2], acc) IN
        CASE r[1] = "<"            -> Doing(acc, Access(acc, "FSRead", v))
          [] r[1] \in {">", ">>"}  -> [Doing(acc, Access(acc, "FSWrite", v))
                                        EXCEPT !.secretFiles = IF acc.passed.secret THEN @ \cup ToSet(Located(acc, v.text)) ELSE @]
          [] OTHER                 -> acc
  IN  FoldLeft(One, Doing(c, EnvDeeds(c, [i \in DOMAIN rs |-> rs[i][2]])), rs)

-----------------------------------------------------------------------------
\* Statements

RECURSIVE Does(_, _), DoesAll(_, _), Iterates(_, _, _), Turns(_, _, _)

Keyword(name) == CASE name = "break" -> "breaking" [] name = "continue" -> "continuing"
                   [] name = "throw" -> "throwing" [] OTHER -> "returning"

\* Its arguments are computed first, then the command runs or throws.
Invokes(written, c0) ==
  LET before == c0.passed
      name == IF written.name \in DOMAIN Aliases THEN Aliases[written.name] ELSE written.name
      After(c) ==
        LET cmd == Spread(written, c)
            words == cmd.args \o [i \in DOMAIN cmd.bindings |-> cmd.bindings[i][2]]
            at == [Doing(c, EnvDeeds(c, words)) EXCEPT !.passed = IF written.inner = << >> THEN before ELSE @]
        IN  CASE name \in {"break", "continue", "return", "exit", "throw"} -> Done(Keyword(name), at)
              [] OTHER -> Ok(Redirects(cmd.redirs, Performs(cmd, name, at)))
                            \cup (IF c.guarded THEN Done("throwing", at) ELSE {})
  IN  Then(DoesAll(written.inner, c0), After)

RECURSIVE Stages(_, _)
Stages(cmds, c) == IF cmds = << >> THEN Ok(c) ELSE Then(Invokes(cmds[1], c), LAMBDA d : Stages(Tail(cmds), d))

\* $true, $false and constants are what they say; anything else may be either.
Truths(cond) ==
  CASE cond.c \in {"$true", "number"} -> {TRUE}
    [] cond.c \in {"$false", "0"}     -> {FALSE}
    [] cond.c = "quoted" /\ \A i \in DOMAIN cond.w.parts : cond.w.parts[i].k = "lit" -> {cond.w.parts # << >>}
    [] OTHER                          -> BOOLEAN
Tests(cond, c) == {[v |-> b, c |-> Doing(c, EnvDeeds(c, << cond.w >>))] : b \in Truths(cond)}

RECURSIVE Branches(_, _, _)
Branches(arms, otherwise, c) ==
  IF arms = << >> THEN DoesAll(otherwise, c)
  ELSE Then(DoesAll(arms[1].head, c),
            LAMBDA d : UNION {IF t.v THEN DoesAll(arms[1].body, t.c) ELSE Branches(Tail(arms), otherwise, t.c)
                                : t \in Tests(arms[1].cond, d)})

\* What a loop makes of the way its body ended.
Leaves(S, Again(_)) ==
  UNION {CASE o.k \in {"normal", "continuing"} -> Again(o.c)
           [] o.k = "breaking"                 -> Ok(o.c)
           [] OTHER                            -> {o} : o \in S}

Iterates(s, values, c) ==
  IF values = << >> THEN Ok(c)
  ELSE Leaves(DoesAll(s.body, Assign(c, s.var, values[1])), LAMBDA d : Iterates(s, Tail(values), d))

Counted(lo, hi) == [i \in 1 .. (IF lo <= hi THEN hi - lo ELSE lo - hi) + 1 |->
                      Value(<< ToString(IF lo <= hi THEN lo + i - 1 ELSE lo - i + 1) >>, FALSE)]

\* The values a foreach may go through.
Elements(s, c) ==
  CASE s.range # << >> -> {Counted(s.range[1], s.range[2])}
    [] s.head # << >>  -> {<< >>, << Some(c.passed.secret) >>, << Some(c.passed.secret), Some(c.passed.secret) >>}
    [] Len(s.iter) = 1 /\ ValueOf(s.iter[1], c).text = << >> -> {<< >>}
    [] OTHER           -> {[i \in DOMAIN s.iter |-> ValueOf(s.iter[i], c)]}

\* At most n more iterations: TRUE stays TRUE, a run that never ends is left out.
Turns(s, n, c) ==
  UNION {IF ~t.v THEN Ok(t.c)
         ELSE IF n = 0 THEN {}
         ELSE Leaves(DoesAll(s.body, t.c), LAMBDA d : Turns(s, n - 1, d)) : t \in Tests(s.cond, c)}

Loops(s, c) ==
  CASE s.text = "foreach" ->
         UNION {Iterates(s, vs, Doing(c, EnvDeeds(c, s.iter))) : vs \in Elements(s, c)}
    [] s.text = "do" -> Leaves(DoesAll(s.body, c), LAMBDA d : Turns(s, 1, d))
    [] OTHER         -> Turns(s, 2, c)

Tries(s, c) ==
  LET Rest(S) == UNION {Then(DoesAll(s.finally, [o.c EXCEPT !.guarded = c.guarded]),
                             LAMBDA d : Done(o.k, d)) : o \in S}
  IN  Rest(UNION {IF o.k # "throwing" THEN {o}
                  ELSE DoesAll(s.catch, [o.c EXCEPT !.guarded = c.guarded]) : o \in DoesAll(s.body, [c EXCEPT !.guarded = TRUE])})

\* The value of an assignment to target i.
Given(a, i, c) ==
  CASE a.rhs # << >>  -> Some(c.passed.secret)
    [] a.hash # << >> -> [Some(FALSE) EXCEPT !.hash = [j \in DOMAIN a.hash |-> << a.hash[j][1], ValueOf(a.hash[j][2], c).text >>]]
    [] Len(a.targets) = 1 /\ Len(a.value) > 1 -> Some(FALSE)
    [] OTHER          -> ValueOf(a.value[i], c)

IsNumeral(text) == \E n \in 0..9 : text = << ToString(n) >>
Sum(a, b) ==
  IF IsNumeral(a) /\ IsNumeral(b)
  THEN << ToString((CHOOSE n \in 0..9 : a = << ToString(n) >>) + (CHOOSE n \in 0..9 : b = << ToString(n) >>)) >>
  ELSE a \o b

Stores(a, c0) ==
  LET words == a.value \o [i \in DOMAIN a.hash |-> a.hash[i][2]]
      c == Doing(c0, EnvDeeds(c0, words))
      One(acc, i) ==
        LET env == a.targets[i][1] = "Env"
            x == IF env THEN "env:" \o a.targets[i][2] ELSE a.targets[i][2]
            v == Given(a, i, c)
            old == IF env THEN EnvValue(acc, a.targets[i][2]) ELSE Lookup(acc, x)
            new == CASE a.op = "="  -> v
                     [] a.op = "+=" -> Value(Sum(old.text, v.text), old.secret \/ v.secret)
                     [] OTHER       -> Some(old.secret \/ v.secret)
        IN  Assign(IF env THEN Doing(acc, {Deed("EnvWrite", << a.targets[i][2] >>, FALSE)}) ELSE acc, x, new)
      given == \E i \in DOMAIN a.value : ValueOf(a.value[i], c).secret
      touched == FoldLeft(LAMBDA acc, x : Assign(acc, x, Some(given \/ Lookup(acc, x).secret)), c, a.stale)
  IN  FoldLeft(One, touched, [i \in DOMAIN a.targets |-> i])

Does(s, c) ==
  CASE s.kind = "pipeline"   -> Then(Stages(s.stages, [c EXCEPT !.passed = Quiet]), LAMBDA d : Ok(Redirects(s.redirs, d)))
    [] s.kind = "expr"       ->
         Ok(Redirects(s.redirs, CASE s.what = "opaque" -> Anything([c EXCEPT !.passed = Quiet])
                                  [] s.what = "string" /\ s.redirs = << >> -> Doing(c, {Deed("Stdio", << >>, FALSE)})
                                  [] OTHER -> c))
           \cup (IF c.guarded THEN Done("throwing", c) ELSE {})
    [] s.kind = "opaque"     -> Ok(Anything([c EXCEPT !.passed = Quiet]))
    [] s.kind = "assignment" -> Then(DoesAll(s.rhs, c), LAMBDA d : Ok(Stores(s, d)))
    [] s.kind = "if"         -> Branches(s.arms, s.else, c)
    [] s.kind = "loop"       -> Then(DoesAll(s.head, c), LAMBDA d : Loops(s, d))
    [] s.kind = "try"        -> Tries(s, c)

DoesAll(ss, c) == IF ss = << >> THEN Ok(c) ELSE Then(Does(ss[1], c), LAMBDA d : DoesAll(Tail(ss), d))

-----------------------------------------------------------------------------
Outcomes == UNION {DoesAll(Main, Fresh(outer)) : outer \in Outers}

NotRun  == [k |-> "waiting", c |-> Fresh(<< >>)]
RunInit == run = NotRun
RunSession ==
  /\ run.k = "waiting"
  /\ run' \in Outcomes
  /\ UNCHANGED prog
=============================================================================
