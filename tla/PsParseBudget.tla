---------------------------- MODULE PsParseBudget ----------------------------
(***************************************************************************)
(* One call of ParseTimeout (front/ps/parse.go): the PowerShell frontend   *)
(* parses a source under a deadline it enforces itself.  The parse runs on *)
(* a goroutine of its own; the caller waits for the result or for a timer, *)
(* and on the timer raises the cancellation flag, answers the top element  *)
(* and abandons the parse.                                                 *)
(*                                                                         *)
(* The tree-sitter parser is external.  It loops, polls the cancellation   *)
(* flag and its own deadline between iterations, and then materialises the *)
(* tree as the source decides.  Materialising polls nothing; for a source  *)
(* that "stalls" nobody waits long enough to see it end.                   *)
(***************************************************************************)
EXTENDS ParseSource, Sequences

\* What parser.Parse returned: how it ended, and whether a deadline or the
\* cancellation flag stopped it.
Trees == [ending : Endings, stop : {"none", "timeout", "cancelled"}]

VARIABLES
  source,    \* what the source will turn out to be
  timeout,   \* timeoutMicros
  caller,    \* "start", "inline", "waiting", "examine", "returned", or "crashed"
             \* when the whole process is gone
  parser,    \* "off", "looping", "sending" or "over"
  work,      \* iterations the parser has done
  tree,      \* a sequence of at most one: what the parser has built
  done,      \* the channel the goroutine sends its result on
  cancel,    \* the cancellation flag the parser polls
  timer,     \* "off", "armed", "fired" or "stopped"
  clock,     \* TRUE once the parser's own deadline has passed
  answer     \* a sequence of at most one: what the call returned

vars == <<source, timeout, caller, parser, work, tree, done, cancel, timer, clock,
          answer>>

-----------------------------------------------------------------------------
\* Mutant: make(chan parseResult)
Unbuffered == 0

\* make(chan parseResult, 1)
ChanCap == 1

Init ==
  /\ source \in Sources
  /\ timeout \in Timeouts
  /\ caller = "start"
  /\ parser = "off"
  /\ work = 0
  /\ tree = << >>
  /\ done = << >>
  /\ cancel = FALSE
  /\ timer = "off"
  /\ clock = FALSE
  /\ answer = << >>

Return(a) == caller' = "returned" /\ answer' = <<a>>

\* The deterministic bounds on the source come before the parse.
RejectSource ==
  /\ caller = "start"
  /\ \/ source.shape = "complex" /\ Return("top_shape")
     \/ source.shape = "nogrammar" /\ Return("top_nogrammar")
  /\ UNCHANGED <<source, timeout, parser, work, tree, done, cancel, timer, clock>>

\* timeoutMicros = 0: the parse is called in-line.
ParseInline ==
  /\ caller = "start"
  /\ source.shape = "ok"
  /\ timeout = 0
  /\ caller' = "inline"
  /\ parser' = "looping"
  /\ UNCHANGED <<source, timeout, work, tree, done, cancel, timer, clock, answer>>

\* Mutant: the timer is made and never started.
ParseAsideNoTimer ==
  /\ caller = "start"
  /\ source.shape = "ok"
  /\ timeout # 0
  /\ caller' = "waiting"
  /\ parser' = "looping"
  /\ UNCHANGED <<source, timeout, work, tree, done, cancel, timer, clock, answer>>

\* The goroutine and the timer are started.
ParseAside ==
  /\ caller = "start"
  /\ source.shape = "ok"
  /\ timeout # 0
  /\ caller' = "waiting"
  /\ parser' = "looping"
  /\ timer' = "armed"
  /\ UNCHANGED <<source, timeout, work, tree, done, cancel, clock, answer>>

-----------------------------------------------------------------------------
\* The parser

\* The parser leaves its loop with t: the in-line caller takes it, the
\* goroutine has it to send.
Leave(t) ==
  /\ tree' = <<t>>
  /\ IF caller = "inline"
       THEN parser' = "over" /\ caller' = "examine"
       ELSE parser' = "sending" /\ UNCHANGED caller
  /\ UNCHANGED <<answer, timer>>

\* A panic unwinds into the recover of ParseTimeout only when the parser runs
\* on the caller's goroutine.
Panic ==
  /\ parser' = "over"
  /\ IF caller = "inline"
       THEN Return("top_panic") /\ UNCHANGED timer
       ELSE caller' = "crashed" /\ timer' = "stopped" /\ UNCHANGED answer
  /\ UNCHANGED tree

ParserLoops ==
  /\ parser = "looping"
  /\ work < source.work
  /\ work' = work + 1
  /\ UNCHANGED <<source, timeout, caller, parser, tree, done, cancel, timer, clock,
                 answer>>

\* A poll finds the flag raised or the parser's own deadline passed.
ParserPolls ==
  /\ parser = "looping"
  /\ work < source.work
  /\ \/ cancel /\ Leave([ending |-> "tree", stop |-> "cancelled"])
     \/ clock /\ Leave([ending |-> "tree", stop |-> "timeout"])
  /\ UNCHANGED <<source, timeout, work, done, cancel, clock>>

ParserEnds ==
  /\ parser = "looping"
  /\ work = source.work
  /\ ~source.stalls
  /\ IF source.ending = "panic" THEN Panic
     ELSE Leave([ending |-> source.ending, stop |-> "none"])
  /\ UNCHANGED <<source, timeout, work, done, cancel, clock>>

\* done <- parseResult: with room in the buffer, or into the waiting select.
GoroutineSends ==
  /\ parser = "sending"
  /\ Len(done) < ChanCap \/ caller = "waiting"
  /\ done' = tree
  /\ parser' = "over"
  /\ UNCHANGED <<source, timeout, caller, work, tree, cancel, timer, clock, answer>>

ClockPasses ==
  /\ timeout # 0
  /\ parser = "looping"
  /\ ~clock
  /\ clock' = TRUE
  /\ UNCHANGED <<source, timeout, caller, parser, work, tree, done, cancel, timer,
                 answer>>

TimerFires ==
  /\ timer = "armed"
  /\ timer' = "fired"
  /\ UNCHANGED <<source, timeout, caller, parser, work, tree, done, cancel, clock,
                 answer>>

-----------------------------------------------------------------------------
\* The caller's select; both branches may be ready.

\* Mutant: the flag is raised on both branches of the select.
TakeResultCancels ==
  /\ caller = "waiting"
  /\ done # << >>
  /\ done' = << >>
  /\ cancel' = TRUE
  /\ caller' = "examine"
  /\ timer' = "stopped"
  /\ UNCHANGED <<source, timeout, parser, work, tree, clock, answer>>

TakeResult ==
  /\ caller = "waiting"
  /\ done # << >>
  /\ done' = << >>
  /\ caller' = "examine"
  /\ timer' = "stopped"
  /\ UNCHANGED <<source, timeout, parser, work, tree, cancel, clock, answer>>

Abandon ==
  /\ caller = "waiting"
  /\ timer = "fired"
  /\ timer' = "stopped"
  /\ cancel' = TRUE
  /\ Return("top_budget")
  /\ UNCHANGED <<source, timeout, parser, work, tree, done, clock>>

\* The cascade of ParseTimeout over what the parser returned, then the walk
\* over the tree.
Built(t) == t.ending \notin {"error", "notree"}

\* Mutant: a tree cut short by a clock counts as whole.
StoppedByLimit(t) == t.ending = "limit"

StoppedEarly(t) == t.stop # "none" \/ t.ending = "limit"

\* Mutant: a panic of the walk is not recovered.
LowerUnrecovered == IF source.lowered = "panic" THEN "panic" ELSE "program"

Lower == CASE source.lowered = "clean" -> "program"
           [] source.lowered = "stray" -> "top_fragment"
           [] source.lowered = "panic" -> "top_panic"

Judge(t) ==
  CASE t.ending = "error"                                     -> "top_error"
    [] t.ending = "notree"                                    -> "top_notree"
    [] Built(t) /\ StoppedEarly(t) /\ t.stop = "timeout"      -> "top_budget"
    [] Built(t) /\ StoppedEarly(t) /\ t.stop # "timeout"      -> "top_stopped"
    [] Built(t) /\ ~StoppedEarly(t)                           -> Lower

Examine ==
  /\ caller = "examine"
  /\ Return(Judge(tree[1]))
  /\ UNCHANGED <<source, timeout, parser, work, tree, done, cancel, timer, clock>>

-----------------------------------------------------------------------------
CallerStep ==
  RejectSource \/ ParseInline \/ ParseAside \/ TakeResult \/ Abandon \/ Examine

ParserStep == ParserLoops \/ ParserPolls \/ ParserEnds \/ GoroutineSends

Next == CallerStep \/ ParserStep \/ ClockPasses \/ TimerFires

Spec == Init /\ [][Next]_vars

\* Caller, timer and parser are scheduled; a stalled parse takes no step.
SpecFair ==
  Spec /\ WF_vars(CallerStep) /\ WF_vars(TimerFires) /\ WF_vars(ParserStep)

-----------------------------------------------------------------------------
\* Type correctness.
TypeOK ==
  /\ source \in Sources
  /\ timeout \in Timeouts
  /\ caller \in {"start", "inline", "waiting", "examine", "returned", "crashed"}
  /\ parser \in {"off", "looping", "sending", "over"}
  /\ work \in 0 .. source.work
  /\ tree \in {<< >>} \cup {<<t>> : t \in Trees}
  /\ done \in {<< >>} \cup {<<t>> : t \in Trees}
  /\ cancel \in BOOLEAN
  /\ timer \in {"off", "armed", "fired", "stopped"}
  /\ clock \in BOOLEAN
  /\ answer \in {<< >>} \cup {<<a>> : a \in Answers}

\* Host load shows in one answer only: whatever the interleaving of parser,
\* timer and caller, the call returns what the source decides or the top
\* element that carries the budget wording the embedding gate recognises, and
\* without a budget it returns what the source decides.  A tree that either
\* clock cut short is therefore never lowered to a narrower program.
SourceDecidesOrBudget ==
  answer # << >> =>
    \/ answer[1] = AnswerOf(source)
    \/ answer[1] = "top_budget" /\ timeout # 0

\* The flag is raised for an abandoned parse only, so no parse whose result is
\* still wanted is cancelled.
OnlyAbandonedIsCancelled ==
  /\ cancel => answer = <<"top_budget">>
  /\ \A i \in 1 .. Len(tree) : tree[i].stop = "cancelled" => answer # << >>

\* The call keeps the promise of a request: one answer, decided by the source or
\* by the budget, and under a budget it ends however long the parse stalls; a
\* parse without one ends unless it stalls (ParseTimeout, parseWithBudget).
Request == INSTANCE ParseRequest WITH gone <- caller = "crashed"
ImplementsRequest == Request!FairSpec

\* A started parse ends, abandoned or not: its goroutine never blocks on the
\* channel and never leaks.
ParseEnds == (parser # "off" /\ ~source.stalls) ~> (parser = "over")

\* "Parse never panics ... an unrecoverable failure is represented as the top
\* element."  (front/ps/parse.go, the comment on Parse.)
NeverPanics == caller # "crashed"
=============================================================================
