---------------------------- MODULE ParseRequest ----------------------------
(***************************************************************************)
(* What a call of ParseTimeout promises its caller, whatever goroutines,   *)
(* clocks and flags it takes: one answer, the one the source decides or,   *)
(* under a budget, the top element of the budget.                          *)
(***************************************************************************)
EXTENDS ParseSource

VARIABLES source, timeout,
          answer,   \* a sequence of at most one: what the call returned
          gone      \* TRUE once the process has ended

vars == << source, timeout, answer, gone >>

Open == answer = << >> /\ ~gone

Init ==
  /\ source \in Sources /\ timeout \in Timeouts
  /\ answer = << >> /\ gone = FALSE

Decide ==
  /\ Open
  /\ answer' = << AnswerOf(source) >>
  /\ UNCHANGED << source, timeout, gone >>

\* The budget is spent.
GiveUp ==
  /\ Open /\ timeout # 0
  /\ source.shape = "ok"
  /\ answer' = << "top_budget" >>
  /\ UNCHANGED << source, timeout, gone >>

\* A panic nobody recovers: not when the parse runs on the caller's goroutine.
Crash ==
  /\ ~gone /\ timeout # 0
  /\ source.shape = "ok" /\ source.ending = "panic" /\ ~source.stalls
  /\ gone' = TRUE
  /\ UNCHANGED << source, timeout, answer >>

Next == Decide \/ GiveUp \/ Crash

\* With a budget the call ends whatever the source does to the parser; without
\* one it ends unless the parse stalls.
Ends == Open /\ (timeout # 0 \/ source.shape # "ok" \/ ~source.stalls) /\ Next

Spec     == Init /\ [][Next]_vars
FairSpec == Spec /\ WF_vars(Ends)
=============================================================================
