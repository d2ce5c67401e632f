-------------------------- MODULE AnalysisSoundness --------------------------
(***************************************************************************)
(* The report and the decision on a program, on the program changed, and   *)
(* the program run.                                                        *)
(***************************************************************************)
EXTENDS AnalysisReport, AnalysisShell

vars == << prog, report, before, phase, run >>

CONSTANT StagingNames   \* the names a retry may stage its output under
ASSUME StagingAssumption == StagingNames \subseteq Targets

Init == AnalyzeInit /\ RunInit

Over == (run.at > Len(prog) \/ phase \in {"extended", "retried"}) /\ UNCHANGED vars

Next ==
  \/ Analyze /\ UNCHANGED run
  \/ run.at = 0 /\ (\E c \in Extensions : Extend(c)) /\ UNCHANGED run
  \/ run.at = 0 /\ (\E i \in DOMAIN prog, tmp \in StagingNames : Retry(i, tmp)) /\ UNCHANGED run
  \/ phase = "analyzed" /\ RunShell /\ UNCHANGED << report, before, phase >>
  \/ Over

Spec == Init /\ [][Next]_vars

-----------------------------------------------------------------------------
Row(r, kind)     == {e \in r.effects : e.kind = kind}
Bounded(r, kind) == \A e \in Row(r, kind) : ~e.target.arbitrary

\* TypeOK: the effects are valid and one for each kind, mode and flow, the
\* canonical ones too; every dimension of the score is below its grade.
TypeOK ==
  /\ \A S \in {report.effects, report.canonical} :
       \A e, o \in S : ValidEffect(e) /\ (SameRow(e, o) => e = o)
  /\ report.destructiveness \in 0 .. report.grade /\ report.breadth \in 0 .. report.grade
  /\ report.confidence \in 0 .. 100
  /\ phase \in {"loaded", "analyzed", "extended", "retried"}

\* When the bytes of a credential reach a remote share, by whatever copies and
\* moves, the default policy denies the program: unless what it reads or writes
\* is not known (remote_sink.go, DetectExfil, policy.New).
LeakIsDenied ==
  run.leaked /\ Bounded(report, "FSRead") /\ Bounded(report, "FSWrite") /\ Bounded(report, "FSMeta") =>
    Evaluate(DefaultPolicy, report) = "deny"

\* One more call never makes the decision milder, under any policy whose grades
\* rise: the call's effects join the program's (Evaluate, ScoreEffects).
DecisionNeverSoftens ==
  phase = "extended" /\ (\A k \in {"FSRead", "FSWrite", "FSMeta"} : Bounded(report, k)) /\ Covered(before) =>
    \A c \in Policies : Rank(Evaluate(c, before)) <= Rank(Evaluate(c, report))

\* A program whose output is staged in a file and moved has the key of the
\* program that writes it in place (canonical.go:74).
RetryKeepsKey == phase = "retried" => report.key = before.key

\* The retries that keep the key whatever the program: the call is not a sink of
\* a pipeline, which the canonical form does not see, nor a move the program
\* makes again; the name is neither a share nor a host, nor what cat's absence
\* of operands is read as.
Stageable(p, i) == p[i].op # "sh" /\ (p[i].op = "mv" => \A j \in DOMAIN p : p[j] = p[i] => j = i)
PlainName(tmp)  == tmp \notin DOMAIN Shares \cup Ambiguous \cup {"cat"} \cup {Shares[t] : t \in DOMAIN Shares}
OrdinaryRetries ==
  /\ \A tmp \in StagingNames : PlainName(tmp)
  /\ \A S \in Programs : \A p \in S : \A i \in DOMAIN p :
       Len(p[i].redirs) = 1 /\ p[i].redirs[1].op = ">" => Stageable(p, i)

\* Some redirection writes t, a later call moves it away, a later one writes it.
Rewritten(t) ==
  \E h, i, j \in DOMAIN prog :
    /\ h < i /\ i < j
    /\ t \in WrittenBy(prog[h]) /\ prog[i].op = "mv" /\ prog[i].ops[1] = t
    /\ t \in WrittenBy(prog[j]) \cup ToSet(prog[j].ops)

\* Each file the program leaves that it wrote is a write of its canonical form,
\* however it was staged: unless a command failed, or the staging file was
\* written again after it was moved.
CanonicalIsDurable ==
  run.at > Len(prog) /\ ~run.failed =>
    \A t \in run.new :
      CanShape(t) /\ ~Rewritten(t) =>
        \E e \in report.canonical : e.kind = "FSWrite" /\ (e.target.arbitrary \/ t \in e.target.elems)

\* Whatever the program does, at any moment, a why-trace of an effect of that
\* kind cites the command or redirection that did it, wherever its row was
\* merged (buildWhy).
EveryDeedIsExplained ==
  \A d \in run.deeds : \E e \in report.effects : e.kind = d.kind /\ d.atom \in report.why[EffectKey(e)]
=============================================================================
