----------------------------- MODULE ParseSource -----------------------------
(***************************************************************************)
(* How a source handed to ParseTimeout (front/ps/parse.go) may turn out,   *)
(* and what the call answers when it has all the time it needs.            *)
(***************************************************************************)
EXTENDS Integers

CONSTANTS
  MaxWork,   \* the longest parse, in loop iterations between two polls
  Timeouts   \* the budgets a call may be given; 0 disables the deadline

ASSUME WorkAssumption == MaxWork \in Nat
ASSUME TimeoutsAssumption == Timeouts \subseteq Nat

\* How a source may turn out.  "limit" is a deterministic bound of the parser
\* (nodes, iterations, stack depth), "stray" an ERROR outside every command.
Shapes   == {"ok", "complex", "nogrammar"}
Endings  == {"tree", "limit", "error", "notree", "panic"}
Lowered  == {"clean", "stray", "panic"}
Sources  ==
  [shape : Shapes, work : 0 .. MaxWork, stalls : BOOLEAN, ending : Endings,
   lowered : Lowered]

Answers ==
  {"program", "top_shape", "top_nogrammar", "top_error", "top_notree", "top_stopped",
   "top_fragment", "top_panic", "top_budget"}

\* The answer the source alone decides.
AnswerOf(s) ==
  CASE s.shape = "complex"                            -> "top_shape"
    [] s.shape = "nogrammar"                          -> "top_nogrammar"
    [] s.shape = "ok" /\ s.ending = "panic"           -> "top_panic"
    [] s.shape = "ok" /\ s.ending = "error"           -> "top_error"
    [] s.shape = "ok" /\ s.ending = "notree"          -> "top_notree"
    [] s.shape = "ok" /\ s.ending = "limit"           -> "top_stopped"
    [] s.shape = "ok" /\ s.ending = "tree"            ->
         CASE s.lowered = "clean" -> "program"
           [] s.lowered = "stray" -> "top_fragment"
           [] s.lowered = "panic" -> "top_panic"
=============================================================================
