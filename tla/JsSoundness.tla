---------------------------- MODULE JsSoundness ----------------------------
(***************************************************************************)
(* The evaluator and Node.js on the same program: AnalyzeWith returns, then*)
(* the program runs.                                                       *)
(***************************************************************************)
EXTENDS JsEval, JsNode, Integers

vars == <<prog, result, run>>

Init == AnalyzeInit /\ RunInit

Over == result.done /\ run.k # "waiting" /\ UNCHANGED vars

Next ==
  \/ Analyze /\ UNCHANGED run
  \/ result.done /\ RunNode /\ UNCHANGED result
  \/ Over

Spec == Init /\ [][Next]_vars /\ WF_vars(Next)

-----------------------------------------------------------------------------
Ran == result.done /\ run.k # "waiting"

\* The labels a value holding the bytes of these files must carry.
LabelsOf(paths) ==
  (IF paths = {} THEN {} ELSE {"file"}) \cup (IF SecretFile \in paths THEN {"secret"} ELSE {})

\* a, a value of the evaluator, stands for b, a value of the process c.
RECURSIVE Covers(_, _, _)
Covers(a, b, c) ==
  CASE a.kind = ""                -> TRUE
    [] a.kind = "boolean-unknown" -> b.kind = "boolean"
    [] a.kind = "object" ->
         /\ b.kind = "ref"
         /\ \A key \in DOMAIN a.obj.fields :
              /\ key \in DOMAIN c.heap[b.ref].fields
              /\ Covers(a.obj.fields[key], c.heap[b.ref].fields[key], c)
    [] a.kind = "promise"         -> b.kind = "promise" /\ Covers(a.settled[1], b.inner[1], c)
    [] a.symbolic                 -> b.kind \in {"home", "string", "host"}
    [] OTHER                      -> b.kind = a.kind /\ b.data = a.data

StateCovers(s, c) ==
  \A x \in DOMAIN s.scopes[1] :
    LET a == s.scopes[1][x] IN
    a.initialized =>
      /\ x \in DOMAIN c.scopes[1]
      /\ c.scopes[1][x].live
      /\ Covers(a.value, c.scopes[1][x].v, c)

\* TypeOK: the evaluator ends within its budget, with flows one scope deep and
\* effects of the expected shape; Node's outcome has one of five completions.
TypeOK ==
  /\ result.done => /\ result.left \in -1..WorkBudget
                    /\ DOMAIN result.out = Kinds
                    /\ \A k \in DOMAIN result.out : Len(result.out[k].state.scopes) <= 1
                    /\ \A e \in result.effs : e.taint \subseteq Labels
  /\ run.k \in {"waiting", "stuck", "normal", "throwing", "breaking", "continuing", "returning"}

\* Unless the report is conservative, each thing the program does to the disk,
\* whatever fails and whatever the disk holds, is an effect of the report, with
\* the labels of the bytes written (exec.go, expr.go and bind/js.go together).
JsNoSilentMiss ==
  Ran /\ ~result.conservative =>
    \A d \in run.c.trace : \E e \in result.effs :
      e.kind = d.kind /\ e.target = d.target /\ LabelsOf(d.labels) \subseteq e.taint

\* However the program ends, the evaluator foresaw that ending, and every
\* binding it still claims to know has the value the process has: unknown code
\* and local functions included, which is what havoc and joinStates are for.
OutcomeForeseen ==
  Ran /\ ~result.top /\ run.k # "stuck" =>
    Live(result.out[run.k]) /\ StateCovers(result.out[run.k].state, run.c)
=============================================================================
