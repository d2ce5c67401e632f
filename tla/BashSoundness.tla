---------------------------- MODULE BashSoundness ----------------------------
(***************************************************************************)
(* The bash frontend against bash.  The interpreter analyses a program;    *)
(* when its result is not conservative, bash runs the same program.        *)
(*                                                                         *)
(* A conservative result claims nothing beyond "anything may happen", so   *)
(* nothing is compared with it.                                            *)
(***************************************************************************)
EXTENDS BashExec, BashShell

vars == <<prog, execVars, shVars>>

Init == ExecInit /\ ShInit

Analyse == Exec /\ UNCHANGED shVars

RunShell ==
  /\ mode = "done"
  /\ ~Conservative
  /\ ShStep
  /\ UNCHANGED <<prog, execVars>>

\* Nothing is left to do: no other state may be without a successor.
Over ==
  /\ mode = "done"
  /\ Conservative \/ shStack = << >>
  /\ UNCHANGED vars

Next == Analyse \/ RunShell \/ Over

\* The interpreter is one goroutine: it takes its next step.
Spec == Init /\ [][Next]_vars /\ WF_vars(Analyse)

-----------------------------------------------------------------------------
\* The abstract effect e stands for the concrete effect h.
Covers(e, h) ==
  \/ e = TopEffect
  \/ /\ e.cmd = h.cmd
     /\ FlatLeq(FlatOf({h.target}), e.target)
     /\ FlatLeq(FlatOf(h.labels), e.taint)

\* "The analyser must never under-report": whatever bash does with a program
\* whose analysis is not conservative, each effect that happens is in the
\* report, with its target and with every label its data carries.
NoSilentMiss ==
  mode = "done" /\ ~Conservative =>
    \A h \in shEffs : \E e \in effs : Covers(e, h)

\* Where the interpreter decided every branch it invents nothing: when bash has
\* run the program, each effect of the report is one that happened.
DecidedIsExact ==
  mode = "done" /\ ~Conservative /\ ~guessed /\ shStack = << >> =>
    \A e \in effs : \E h \in shEffs : Covers(e, h)

\* The step budget makes the interpreter total: it answers on every program,
\* loops without an end and unbounded recursion included.
AlwaysAnswers == <>(mode = "done")
=============================================================================
