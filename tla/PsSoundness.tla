---------------------------- MODULE PsSoundness ----------------------------
(***************************************************************************)
(* The lowering and PowerShell on the same program: LowerWith returns, then*)
(* the program runs.                                                       *)
(***************************************************************************)
EXTENDS PsLower, PsSession

vars == <<prog, result, run>>

Init == AnalyzeInit /\ RunInit

Over == result.done /\ run.k # "waiting" /\ UNCHANGED vars

Next ==
  \/ Analyze /\ UNCHANGED run
  \/ result.done /\ RunSession /\ UNCHANGED result
  \/ Over

Spec == Init /\ [][Next]_vars /\ WF_vars(Next)

-----------------------------------------------------------------------------
Ran == result.done /\ run.k # "waiting"

\* An effect e says that d happened: the target itself, the host of the
\* address, or a target that could be anything.
Says(e, d) ==
  /\ e.kind = d.kind
  /\ \/ e.target \in {d.target, Anywhere}
     \/ d.kind = "NetEgress" /\ d.target # << >> /\ e.target = << Head(d.target) >>

\* TypeOK: the lowering ends within its budget, an analysis cut short says so,
\* and the session ends in one of the completions.
TypeOK ==
  /\ result.left \in 0..LowerBudget
  /\ result.panicked => result.conservative /\ TopEffect \in result.ders
  /\ result.state.driveUnknown \cap DOMAIN result.state.drives = {}
  /\ run.k \in {"waiting", "normal", "throwing", "breaking", "continuing", "returning"}

\* Unless the report is conservative, each file, item, network, environment and
\* registry access the program makes, on whichever path and with whatever its
\* variables hold, is an effect of the report, and a forced delete raised the
\* destructiveness (lower.go, with Σ of state.go deciding each target).
PsNoSilentMiss ==
  Ran /\ ~result.conservative =>
    \A d \in run.c.trace :
      CASE d.kind = "Wipe"                 -> result.bump
        [] d.kind \in {"CodeExec", "Sunk"} -> FALSE
        [] OTHER                           -> \E e \in result.ders : Says(e, d)

\* What Σ knows at the end of the program is so: each variable it knows has that
\* text, each drive it knows is mounted there (JoinStates, Unset, UnsetDrive).
KnowledgeIsTrue ==
  Ran /\ run.k = "normal" /\ ~result.conservative =>
    /\ \A x \in DOMAIN result.state.vars : result.state.vars[x].known =>
         /\ x \in DOMAIN run.c.vars
         /\ IF result.state.vars[x].hash # << >> THEN run.c.vars[x].hash = result.state.vars[x].hash
            ELSE run.c.vars[x].text = result.state.vars[x].value
    /\ \A d \in DOMAIN result.state.drives :
         d \in DOMAIN run.c.drives /\ run.c.drives[d] = result.state.drives[d]

\* A row of the report says that d happened.
Covers(r, d) ==
  /\ r.kind = d.kind
  /\ r.any \/ d.target \in r.targets \/ (d.target # << >> /\ << Head(d.target) >> \in r.targets)

\* A read of a file that is not known, joined into the row of reads, leaves no
\* name in it.
Absorbed == \E r \in result.effs : r.kind = "FSRead" /\ r.any /\ ~IsSecretRead(r)

\* What leaves the host with a secret in it is a row of egress labelled secret:
\* whatever file, copy of one, variable or part of the environment the secret
\* came from if the report knows what is read, and even if it does not when the
\* address spells the secret (argumentEnvReads, dataFiles, ApplySecretStaging,
\* rhsTaintOf, JoinStates and markEgressTaint, after Normalize).  A conservative
\* report may lack the row, as the request is then a part of its CodeExec.
LeakIsLabelled ==
  Ran /\ ~result.panicked =>
    \A d \in run.c.trace : d.kind = "NetEgress" /\ d.secret =>
      \/ Absorbed /\ ~d.spelled
      \/ result.conservative /\ ~\E r \in result.effs : Covers(r, d)
      \/ \E r \in result.effs : Covers(r, d) /\ "secret" \in r.taint

\* What some run of the program does.
Touched == UNION {o.c.trace : o \in Outcomes}

Agrees(marked, piped, guessed) == (piped => marked) /\ (marked => piped \/ guessed)

\* A download is reported as piped into code when some run pipes one, and only
\* then if each address of the report is known: not when the two are in one
\* program but not in one pipeline (pipeNet).
CradleIsThePipe ==
  result.done /\ run.k = "waiting" /\ ~result.panicked =>
    Agrees(\E e \in result.ders : e.flow = "cradle",
           \E d \in Touched : d.kind = "Sunk",
           \E e \in result.ders : e.kind = "NetEgress" /\ e.target = Anywhere)

Literal(e) == ~(\/ e.target \in {Anywhere, NoTarget, << "." >>} \/ IsDrive(e.target)
                \/ e.kind \in {"ProcSpawn", "FSMeta"})
AllTouched(effs, touched) ==
  \A e \in effs : Literal(e) =>
    \E d \in touched : \/ d.target = e.target
                       \/ d.kind = "NetEgress" /\ d.target # << >> /\ e.target = << Head(d.target) >>

\* No literal target is made up: each one the report names is the target of
\* something some run does, a path on an unmounted drive excepted (ADR-0003).
TargetsAreReal ==
  result.done /\ run.k = "waiting" /\ ~result.conservative => AllTouched(result.ders, Touched)
=============================================================================
