------------------------ MODULE PsParseBudget_proofs ------------------------
(***************************************************************************)
(* Proofs about PsParseBudget, for every bound on the parse and every set  *)
(* of budgets: the only answer host load can produce is the budget's own   *)
(* top element.                                                            *)
(***************************************************************************)
EXTENDS PsParseBudget, TLAPS

-----------------------------------------------------------------------------
\* A call that has not returned has no answer, and its source passed the
\* deterministic bounds once the parse has begun.
CallOpen ==
  /\ caller \in {"start", "inline", "waiting", "examine"} => answer = << >> /\ ~cancel
  /\ caller \in {"inline", "waiting", "examine"} => source.shape = "ok"
  /\ caller = "start" => parser = "off"
  /\ parser # "off" => source.shape = "ok"
  /\ parser = "looping" /\ caller # "inline" => timeout # 0
  /\ caller = "waiting" => timeout # 0
  /\ caller = "examine" => tree # << >>

\* What the parser has built, and why it stopped.
ParseExplained ==
  /\ parser \in {"off", "looping"} => tree = << >>
  /\ parser = "sending" => tree # << >>
  /\ done # << >> => tree # << >>
  /\ clock => timeout # 0
  /\ cancel => answer = <<"top_budget">>
  /\ \A i \in 1 .. Len(tree) :
       /\ tree[i].stop = "none" => tree[i].ending = source.ending /\ source.ending # "panic"
       /\ tree[i].stop # "none" => tree[i].ending = "tree"
       /\ tree[i].stop = "timeout" => timeout # 0
       /\ tree[i].stop = "cancelled" => cancel

\* The inductive invariant.
IInv == TypeOK /\ CallOpen /\ ParseExplained /\ SourceDecidesOrBudget

-----------------------------------------------------------------------------
\* The cascade over a parse that nothing cut short decides as the source does;
\* over one that the parser's clock cut short it answers with the budget.
LEMMA JudgeSound ==
  ASSUME source \in Sources, source.shape = "ok", NEW t \in Trees,
         t.stop = "none" => t.ending = source.ending /\ source.ending # "panic",
         t.stop # "none" => t.ending = "tree",
         t.stop = "timeout" => timeout # 0,
         t.stop # "cancelled"
  PROVE  /\ Judge(t) \in Answers
         /\ Judge(t) = AnswerOf(source) \/ (Judge(t) = "top_budget" /\ timeout # 0)
<1>1. CASE t.stop = "timeout"
  BY <1>1 DEF Judge, Built, StoppedEarly, Trees, Answers
<1>2. CASE t.stop = "none" /\ t.ending # "tree"
  BY <1>2 DEF Judge, Built, StoppedEarly, AnswerOf, Trees, Endings, Answers
<1>3. CASE t.stop = "none" /\ t.ending = "tree"
  BY <1>3 DEF Judge, Built, StoppedEarly, Lower, AnswerOf, Sources, Lowered, Answers
<1> QED
  BY <1>1, <1>2, <1>3 DEF Trees

\* The deterministic bounds answer as the source decides.
LEMMA RejectSound ==
  ASSUME source \in Sources
  PROVE  /\ source.shape = "complex" => AnswerOf(source) = "top_shape"
         /\ source.shape = "nogrammar" => AnswerOf(source) = "top_nogrammar"
         /\ source.shape = "ok" /\ source.ending = "panic" => AnswerOf(source) = "top_panic"
BY DEF AnswerOf, Sources, Shapes

-----------------------------------------------------------------------------
\* Every step of the parser, the clocks and the caller preserves IInv.
LEMMA Inductive == Spec => []IInv
<1>1. Init => IInv
  <2> SUFFICES ASSUME Init PROVE IInv
    OBVIOUS
  <2>1. source.work \in 0 .. MaxWork
    BY DEF Init, Sources
  <2>2. TypeOK
    <3>1. work \in 0 .. source.work
      BY <2>1, WorkAssumption DEF Init
    <3>2. /\ source \in Sources /\ timeout \in Timeouts /\ caller = "start"
          /\ parser = "off" /\ timer = "off" /\ cancel = FALSE /\ clock = FALSE
          /\ tree = << >> /\ done = << >> /\ answer = << >>
      BY DEF Init
    <3> QED
      BY <3>1, <3>2, Zenon DEF TypeOK
  <2>3. CallOpen /\ ParseExplained /\ SourceDecidesOrBudget
    BY DEF Init, CallOpen, ParseExplained, SourceDecidesOrBudget
  <2> QED
    BY <2>2, <2>3 DEF IInv
<1>2. IInv /\ [Next]_vars => IInv'
  <2> SUFFICES ASSUME IInv, [Next]_vars PROVE IInv'
    OBVIOUS
  <2> USE DEF IInv, TypeOK, CallOpen, ParseExplained, SourceDecidesOrBudget
  <2>1. CASE RejectSource
    <3>1. PICK a \in {"top_shape", "top_nogrammar"} : Return(a) /\ AnswerOf(source) = a
      BY <2>1, RejectSound DEF RejectSource
    <3> QED
      BY <2>1, <3>1 DEF RejectSource, Return, Answers
  <2>2. CASE ParseInline
    BY <2>2 DEF ParseInline
  <2>3. CASE ParseAside
    BY <2>3 DEF ParseAside
  <2>4. CASE ParserLoops
    BY <2>4 DEF ParserLoops, Sources
  <2>5. ASSUME NEW t \in Trees, Leave(t), parser = "looping",
               t.stop = "none" => t.ending = source.ending /\ source.ending # "panic",
               t.stop # "none" => t.ending = "tree",
               t.stop = "timeout" => timeout # 0,
               t.stop = "cancelled" => cancel,
               UNCHANGED <<source, timeout, work, done, cancel, clock>>
        PROVE  IInv'
    BY <2>5 DEF Leave
  <2>6. CASE ParserPolls
    <3>1. CASE cancel /\ Leave([ending |-> "tree", stop |-> "cancelled"])
      BY <2>5, <2>6, <3>1 DEF ParserPolls, Trees, Endings
    <3>2. CASE clock /\ Leave([ending |-> "tree", stop |-> "timeout"])
      BY <2>5, <2>6, <3>2 DEF ParserPolls, Trees, Endings
    <3> QED
      BY <2>6, <3>1, <3>2 DEF ParserPolls
  <2>7. CASE ParserEnds
    <3>1. CASE source.ending = "panic"
      BY <2>7, <3>1, RejectSound DEF ParserEnds, Panic, Return, Answers
    <3>2. CASE source.ending # "panic"
      BY <2>5, <2>7, <3>2 DEF ParserEnds, Trees, Sources
    <3> QED
      BY <3>1, <3>2
  <2>8. CASE GoroutineSends
    BY <2>8 DEF GoroutineSends
  <2>9. CASE ClockPasses
    BY <2>9 DEF ClockPasses
  <2>10. CASE TimerFires
    BY <2>10 DEF TimerFires
  <2>11. CASE TakeResult
    BY <2>11 DEF TakeResult
  <2>12. CASE Abandon
    BY <2>12 DEF Abandon, Return, Answers
  <2>13. CASE Examine
    <3>1. tree[1] \in Trees /\ 1 \in 1 .. Len(tree) /\ source.shape = "ok" /\ ~cancel
      BY <2>13 DEF Examine
    <3>2. /\ Judge(tree[1]) \in Answers
          /\ Judge(tree[1]) = AnswerOf(source)
               \/ (Judge(tree[1]) = "top_budget" /\ timeout # 0)
      BY <3>1, JudgeSound
    <3> QED
      BY <2>13, <3>1, <3>2 DEF Examine, Return
  <2>14. CASE UNCHANGED vars
    BY <2>14 DEF vars
  <2> QED
    BY <2>1, <2>2, <2>3, <2>4, <2>6, <2>7, <2>8, <2>9, <2>10, <2>11, <2>12, <2>13, <2>14
    DEF Next, CallerStep, ParserStep
<1> QED
  BY <1>1, <1>2, PTL DEF Spec

\* The states of a call are well-formed.
THEOREM TypeCorrect == Spec => []TypeOK
<1>1. IInv => TypeOK
  BY DEF IInv
<1> QED
  BY <1>1, Inductive, PTL

\* Host load shows in one answer only, the budget's own: a tree cut short by
\* either clock is never lowered to a program.
THEOREM LoadShowsAsBudgetOnly == Spec => []SourceDecidesOrBudget
<1>1. IInv => SourceDecidesOrBudget
  BY DEF IInv
<1> QED
  BY <1>1, Inductive, PTL

\* A parse is cancelled only once the call has answered with the budget.
THEOREM CancelledIsAbandoned == Spec => []OnlyAbandonedIsCancelled
<1>1. IInv => OnlyAbandonedIsCancelled
  <2> SUFFICES ASSUME IInv PROVE OnlyAbandonedIsCancelled
    OBVIOUS
  <2>1. cancel => answer = <<"top_budget">> /\ answer # << >>
    BY DEF IInv, ParseExplained
  <2> QED
    BY <2>1 DEF IInv, ParseExplained, OnlyAbandonedIsCancelled
<1> QED
  BY <1>1, Inductive, PTL

\* The request speaks of the same sources and of the same answers.
LEMMA SameSources ==
  /\ Request!Sources = Sources
  /\ Request!AnswerOf(source) = AnswerOf(source)
BY DEF Request!Sources, Request!Shapes, Request!Endings, Request!Lowered, Request!AnswerOf,
       Sources, Shapes, Endings, Lowered, AnswerOf

\* Every step of the goroutine, the parser, the clocks and the caller is a step
\* of the request or changes nothing the caller can see.
THEOREM ImplementsRequestSteps == Spec => Request!Spec
<1>1. Init => Request!Init
  BY SameSources DEF Init, Request!Init
<1>2. IInv /\ [Next]_vars => [Request!Next]_Request!vars
  <2> SUFFICES ASSUME IInv, [Next]_vars PROVE [Request!Next]_Request!vars
    OBVIOUS
  <2> USE SameSources DEF IInv, TypeOK, CallOpen, ParseExplained
  <2>1. CASE RejectSource
    <3>1. answer' = << AnswerOf(source) >> /\ caller' = "returned"
      BY <2>1, RejectSound DEF RejectSource, Return
    <3> QED
      BY <2>1, <3>1 DEF RejectSource, Request!Next, Request!Decide, Request!Open
  <2>2. CASE ParseInline
    BY <2>2 DEF ParseInline, Request!vars
  <2>3. CASE ParseAside
    BY <2>3 DEF ParseAside, Request!vars
  <2>4. CASE ParserLoops
    BY <2>4 DEF ParserLoops, Request!vars
  <2>5. CASE ParserPolls
    BY <2>5 DEF ParserPolls, Leave, Request!vars
  <2>6. CASE ParserEnds
    <3>1. CASE source.ending # "panic"
      BY <2>6, <3>1 DEF ParserEnds, Leave, Request!vars
    <3>2. CASE source.ending = "panic" /\ caller = "inline"
      <4>1. /\ answer = << >> /\ answer' = << "top_panic" >> /\ caller' = "returned"
            /\ AnswerOf(source) = "top_panic" /\ UNCHANGED << source, timeout >>
        BY <2>6, <3>2, RejectSound DEF ParserEnds, Panic, Return
      <4> QED
        BY <4>1, <3>2 DEF Request!Next, Request!Decide, Request!Open
    <3>3. CASE source.ending = "panic" /\ caller # "inline"
      BY <2>6, <3>3 DEF ParserEnds, Panic, Request!Next, Request!Crash, Request!vars
    <3> QED
      BY <3>1, <3>2, <3>3
  <2>7. CASE GoroutineSends
    BY <2>7 DEF GoroutineSends, Request!vars
  <2>8. CASE ClockPasses
    BY <2>8 DEF ClockPasses, Request!vars
  <2>9. CASE TimerFires
    BY <2>9 DEF TimerFires, Request!vars
  <2>10. CASE TakeResult
    BY <2>10 DEF TakeResult, Request!vars
  <2>11. CASE Abandon
    BY <2>11 DEF Abandon, Return, Request!Next, Request!GiveUp, Request!Open
  <2>12. CASE Examine
    <3>1. /\ tree[1] \in Trees /\ 1 \in 1 .. Len(tree) /\ source.shape = "ok" /\ ~cancel
          /\ answer = << >> /\ caller' = "returned" /\ answer' = << Judge(tree[1]) >>
      BY <2>12 DEF Examine, Return
    <3>2. Judge(tree[1]) = AnswerOf(source) \/ (Judge(tree[1]) = "top_budget" /\ timeout # 0)
      BY <3>1, JudgeSound
    <3> QED
      BY <2>12, <3>1, <3>2 DEF Examine, Request!Next, Request!Decide, Request!GiveUp, Request!Open
  <2>13. CASE UNCHANGED vars
    BY <2>13 DEF vars, Request!vars
  <2> QED
    BY <2>1, <2>2, <2>3, <2>4, <2>5, <2>6, <2>7, <2>8, <2>9, <2>10, <2>11, <2>12, <2>13
    DEF Next, CallerStep, ParserStep
<1> QED
  BY <1>1, <1>2, Inductive, PTL DEF Spec, Request!Spec
=============================================================================
