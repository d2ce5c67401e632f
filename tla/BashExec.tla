------------------------------ MODULE BashExec ------------------------------
(***************************************************************************)
(* The abstract interpreter of the bash frontend (front/bash/exec.go) over *)
(* its abstract state (front/bash/expand.go), one step per call.           *)
(*                                                                         *)
(* The Go call stack is the variable stack: a frame is a call in progress, *)
(* with what it restores or decides when its callee returns.  The head is  *)
(* the innermost call.  The knowledge base is external: a program invoked  *)
(* on a word has one effect, on that word.                                 *)
(*                                                                         *)
(* Aliases belong to the state, so a clone has its own; the function       *)
(* bodies, the command-hash table and the two flags that say a table is no *)
(* longer known belong to the interpreter (names), and no clone copies     *)
(* them.                                                                   *)
(***************************************************************************)
EXTENDS BashProgram

CONSTANTS
  StepBudget,    \* defaultBudget
  MaxFuncDepth,  \* maxFuncDepth
  MaxAliasDepth  \* maxAliasDepth

ASSUME BoundsAssumption ==
  /\ StepBudget \in Nat \ {0} /\ MaxFuncDepth \in Nat
  /\ MaxAliasDepth \in Nat /\ Cardinality(Names) <= MaxAliasDepth

VARIABLES
  stack,      \* the calls in progress, innermost first
  sigma,      \* it.state: [vars : Vars -> Cells, arg : a position in heap, or 0,
              \*            aliases : Names -> Names or Nothing]
  heap,       \* the *Var cells "$1" has been bound to; frames may share one
  names,      \* it.funcRaw, it.hashTable, it.hashOpaque and it.aliasOpaque
  effs,       \* it.effs, as a set
  top,        \* it.top
  ctl,        \* it.ctl, the pending control-flow signal
  status,     \* it.status and it.statusKnown: "ok", "fail" or "unknown"
  loopDepth,  \* it.loopDepth
  depth,      \* it.depth, the function calls in progress
  budget,     \* it.budget
  guessed,    \* TRUE once a branch was taken on an unknown status
  mode        \* "analyse" or "done"

execVars ==
  <<stack, sigma, heap, names, effs, top, ctl, status, loopDepth, depth, budget, guessed, mode>>

-----------------------------------------------------------------------------
\* The abstract state

Cells == [set : BOOLEAN, known : BOOLEAN, value : Targets, taint : FlatSet(Labels)]

Absent         == [set |-> FALSE, known |-> FALSE, value |-> Empty, taint |-> FlatOf({})]
KnownCell(v, t) == [set |-> TRUE, known |-> TRUE, value |-> v, taint |-> t]
UnknownCell(t) == [set |-> TRUE, known |-> FALSE, value |-> Empty, taint |-> t]

ArgCell(s) == IF s.arg = 0 THEN Absent ELSE heap[s.arg]
CellOf(x)  == IF x = Arg THEN ArgCell(sigma) ELSE sigma.vars[x]

\* Mutant: the then branch's value wins.
ThenWins(a, b) == a

\* joinStates: a variable absent on one path is absent; one that is unknown on
\* a path or differs is unknown; taint is joined.
JoinCells(a, b) ==
  IF ~a.set \/ ~b.set THEN Absent
  ELSE IF ~a.known \/ ~b.known \/ a.value # b.value
       THEN UnknownCell(FlatJoin(a.taint, b.taint))
       ELSE KnownCell(a.value, FlatJoin(a.taint, b.taint))

JoinVars(a, b) == [x \in Vars |-> JoinCells(a.vars[x], b.vars[x])]

\* Clone copies the cells; CloneOf(s) goes with HeapWith(ArgCell(s)).
HeapWith(c) == IF c.set THEN Append(heap, c) ELSE heap
CellFor(c)  == IF c.set THEN Len(heap) + 1 ELSE 0
\* Mutant: a clone that shares the cells of its base.
SharedOf(s) == s

CloneOf(s)  == [s EXCEPT !.arg = CellFor(ArgCell(s))]

\* What a word expands to, and the labels its value carries.  A variable that
\* is set but not known is not replaced by a default; one that is absent is.
Expand(w) ==
  LET c == CellOf(w.name) IN
  CASE w.form = "lit"   -> KnownCell(w.value, FlatOf({}))
    [] w.form = "subst" -> UnknownCell(FlatOf(w.labels))
    [] w.form = "ref"   -> IF c.known THEN KnownCell(c.value, c.taint)
                           ELSE UnknownCell(c.taint)
    [] w.form = "refOr" -> IF c.known /\ c.value # Empty THEN KnownCell(c.value, c.taint)
                           ELSE IF c.set /\ ~c.known THEN UnknownCell(c.taint)
                           ELSE KnownCell(w.value, c.taint)

-----------------------------------------------------------------------------
\* Effects

\* topEffect: anything may be executed.
TopEffect == [cmd |-> "any", target |-> FlatTop, taint |-> FlatOf({})]

EffectOf(c, w) ==
  [cmd    |-> c,
   target |-> IF Expand(w).known THEN FlatOf({Expand(w).value}) ELSE FlatTop,
   taint  |-> Expand(w).taint]

\* markTop
MarkTop == top' = TRUE /\ effs' = effs \cup {TopEffect}

\* ExecResult.Conservative
Conservative == top \/ TopEffect \in effs

-----------------------------------------------------------------------------
\* The machine

Frame == Head(stack)
In(k) == mode = "analyse" /\ stack # << >> /\ Frame.k = k

\* The innermost call returns, or calls on.
Return       == stack' = Tail(stack)
Become(fs)   == stack' = fs \o Tail(stack)

ListFrame(ss)         == [k |-> "list", ss |-> ss]
StmtFrame(s)          == [k |-> "stmt", s |-> s]
CommandFrame(c)       == [k |-> "cmd", c |-> c]
LeaveFrame(st)        == [k |-> "leave", sigma |-> sigma, ctl |-> ctl, status |-> st]
BranchFrames(arms)    == << ListFrame(arms[1].cond), [k |-> "branch", arms |-> arms] >>
ElseFrames(arms) ==
  IF arms = << >> THEN << >>
  ELSE IF arms[1].cond = << >> THEN << ListFrame(arms[1].then) >>
  ELSE BranchFrames(arms)

ExecInit ==
  /\ prog \in Programs
  /\ stack = << ListFrame(prog.body) >>
  /\ sigma = [vars |-> [x \in Vars |-> Absent], arg |-> 0,
              aliases |-> [n \in Names |-> Nothing]]
  /\ heap = << >>
  /\ names = [funcs |-> prog.funcs, hash |-> [n \in Names |-> Nothing],
              hashOpaque |-> FALSE, aliasOpaque |-> FALSE]
  /\ effs = {}
  /\ top = FALSE
  /\ ctl = "none"
  /\ status = "ok"
  /\ loopDepth = 0
  /\ depth = 0
  /\ budget = StepBudget
  /\ guessed = FALSE
  /\ mode = "analyse"

State  == <<sigma, heap>>
Result == <<effs, top>>
Depths == <<loopDepth, depth>>

\* What the innermost call charges: a statement and an iteration one unit, a
\* command one for each word it expands (chargeExpansion).
WordCost(c) ==
  CASE c.op = "run"              -> IF c.how = "external" THEN 3 ELSE 2
    [] c.op \in {"known", "ctl", "shift"} -> 1
    [] c.op \in {"alias", "unalias", "unset"} -> 2
    [] c.op \in {"unhash", "args"} -> 3
    [] c.op = "hash"             -> 4
    [] c.op = "for"              -> Len(c.words)
    [] OTHER                     -> 0

Cost ==
  CASE Frame.k \in {"stmt", "loop"} -> 1
    [] Frame.k = "for"              -> IF Frame.vals = << >> THEN 0 ELSE 1
    [] Frame.k = "cmd"              -> WordCost(Frame.c)
    [] OTHER                        -> 0

\* Mutants: nothing is charged; the budget is not compared with zero.
ChargeNothing == budget > Cost /\ UNCHANGED budget
ChargeUnchecked == budget' = budget - Cost

\* it.step
Charge == budget > Cost /\ budget' = budget - Cost

\* budgetError unwinds every call; finish marks the result.
BudgetExhausted ==
  /\ mode = "analyse" /\ stack # << >>
  /\ budget <= Cost
  /\ budget' = 0
  /\ MarkTop
  /\ stack' = << >>
  /\ mode' = "done"
  /\ UNCHANGED <<prog, names, State, ctl, status, Depths, guessed>>

Finish ==
  /\ mode = "analyse"
  /\ stack = << >>
  /\ mode' = "done"
  /\ UNCHANGED <<prog, names, stack, State, Result, ctl, status, Depths, budget, guessed>>

-----------------------------------------------------------------------------
\* execStmts

EndOfList ==
  /\ In("list")
  /\ Frame.ss = << >>
  /\ Return
  /\ UNCHANGED <<prog, names, State, Result, ctl, status, Depths, budget, guessed, mode>>

\* A signal no enclosing construct can consume is reset.
Stray ==
  \/ ctl = "return" /\ depth = 0
  \/ ctl \in {"break", "continue"} /\ loopDepth = 0

ResetStraySignal ==
  /\ In("list")
  /\ Frame.ss # << >>
  /\ Stray
  /\ ctl' = "none"
  /\ UNCHANGED <<prog, names, stack, State, Result, status, Depths, budget, guessed, mode>>

StopList ==
  /\ In("list")
  /\ Frame.ss # << >>
  /\ ctl # "none" /\ ~Stray
  /\ Return
  /\ UNCHANGED <<prog, names, State, Result, ctl, status, Depths, budget, guessed, mode>>

NextStmt ==
  /\ In("list")
  /\ Frame.ss # << >>
  /\ ctl = "none"
  /\ Become(<< StmtFrame(Head(Frame.ss)), ListFrame(Tail(Frame.ss)) >>)
  /\ UNCHANGED <<prog, names, State, Result, ctl, status, Depths, budget, guessed, mode>>

\* execStmt: the status is reset, so a statement that computes none leaves it
\* unknown.  A background job runs on a clone of the state.
ExecStmt ==
  /\ In("stmt")
  /\ Charge
  /\ status' = "unknown"
  /\ IF Frame.s.bg
       THEN /\ Become(<< CommandFrame(Frame.s.cmd), LeaveFrame("ok") >>)
            /\ sigma' = CloneOf(sigma)
            /\ heap' = HeapWith(ArgCell(sigma))
            /\ ctl' = "none"
       ELSE /\ Become(<< CommandFrame(Frame.s.cmd) >>
                        \o IF Frame.s.neg THEN << [k |-> "negate"] >> ELSE << >>)
            /\ UNCHANGED <<State, ctl>>
  /\ UNCHANGED <<prog, names, Result, Depths, guessed, mode>>

Negate ==
  /\ In("negate")
  /\ status' = CASE status = "ok" -> "fail" [] status = "fail" -> "ok"
                 [] status = "unknown" -> "unknown"
  /\ Return
  /\ UNCHANGED <<prog, names, State, Result, ctl, Depths, budget, guessed, mode>>

\* A subshell, a background job or a pipeline stage is over: the caller's state
\* and signal are restored.
Leave ==
  /\ In("leave")
  /\ sigma' = Frame.sigma
  /\ ctl' = Frame.ctl
  /\ status' = IF Frame.status = "kept" THEN status ELSE Frame.status
  /\ Return
  /\ UNCHANGED <<prog, names, heap, Result, Depths, budget, guessed, mode>>

-----------------------------------------------------------------------------
\* execCall and dispatch: simple commands

Command(op) == In("cmd") /\ Frame.c.op = op

\* A bare assignment computes no status.
Assign ==
  /\ Command("set")
  /\ LET e == Expand(Frame.c.word) IN
     sigma' = [sigma EXCEPT !.vars[Frame.c.var] =
                 IF e.known THEN KnownCell(e.value, e.taint) ELSE UnknownCell(e.taint)]
  /\ Return
  /\ UNCHANGED <<prog, names, heap, Result, ctl, status, Depths, budget, guessed, mode>>

\* true and false
KnownStatus ==
  /\ Command("known")
  /\ Charge
  /\ status' = Frame.c.status
  /\ Return
  /\ UNCHANGED <<prog, names, State, Result, ctl, Depths, guessed, mode>>

\* break, continue, return, exit
RaiseSignal ==
  /\ Command("ctl")
  /\ Charge
  /\ ctl' = Frame.c.sig
  /\ status' = "unknown"
  /\ Return
  /\ UNCHANGED <<prog, names, State, Result, Depths, guessed, mode>>

\* The name a plain command word stands for once aliases are expanded, a
\* bounded number of times.
Expansion(n) ==
  LET of[m \in Names, times \in 0 .. MaxAliasDepth] ==
        IF times = 0 \/ sigma.aliases[m] = Nothing THEN m ELSE of[sigma.aliases[m], times - 1]
  IN of[n, MaxAliasDepth]

Aliased(c)  == c.how = "plain" /\ sigma.aliases[c.name] # Nothing
Called(c)   == IF c.how = "plain" THEN Expansion(c.name) ELSE c.name
Internal(c) == c.how # "external"

Anything     == [kind |-> "anything", name |-> Nothing]
Function(n)  == [kind |-> "function", name |-> n]
\* resolve in bind/resolve.go: a name the knowledge base does not describe, and
\* a chain of aliases without an end, may run anything.
Bound(n)     == IF n \in Tools THEN [kind |-> "program", name |-> n] ELSE Anything
BoundCall(c) == IF Aliased(c) /\ sigma.aliases[Called(c)] # Nothing THEN Anything
                ELSE Bound(Called(c))

\* Mutant: a table that is no longer known is trusted.
TrustTables(c) ==
  IF Internal(c) /\ Called(c) \in DOMAIN names.funcs THEN Function(Called(c))
  ELSE IF Internal(c) /\ names.hash[Called(c)] # Nothing THEN Bound(names.hash[Called(c)])
  ELSE BoundCall(c)

\* dispatch: the chain that resolves the name of a command.
Dispatch(c) ==
  IF Aliased(c) /\ names.aliasOpaque THEN Anything
  ELSE IF Internal(c) /\ Called(c) \in DOMAIN names.funcs THEN Function(Called(c))
  ELSE IF Internal(c) /\ names.hashOpaque THEN Anything
  ELSE IF Internal(c) /\ names.hash[Called(c)] # Nothing THEN Bound(names.hash[Called(c)])
  ELSE BoundCall(c)

Resolves(kind) == Command("run") /\ Dispatch(Frame.c).kind = kind

\* The effects the knowledge base declares; the exit status is unknown.
RunProgram ==
  /\ Resolves("program")
  /\ Charge
  /\ effs' = effs \cup {EffectOf(Dispatch(Frame.c).name, Frame.c.word)}
  /\ status' = "unknown"
  /\ Return
  /\ UNCHANGED <<prog, names, State, top, ctl, Depths, guessed, mode>>

RunAnything ==
  /\ Resolves("anything")
  /\ Charge
  /\ effs' = effs \cup {TopEffect}
  /\ status' = "unknown"
  /\ Return
  /\ UNCHANGED <<prog, names, State, top, ctl, Depths, guessed, mode>>

\* execFuncDecl
Declare ==
  /\ Command("decl")
  /\ names' = [names EXCEPT !.funcs[Frame.c.name] = Frame.c.body]
  /\ Return
  /\ UNCHANGED <<prog, State, Result, ctl, status, Depths, budget, guessed, mode>>

\* callFunc: the argument is written into the cell "$1" is bound to, if any,
\* as a known value whether or not the word was; the binding is restored after.
\* A body that may rebind its arguments starts with none.
ArgumentCell(w) == KnownCell(Expand(w).value, Expand(w).taint)

CallFunction ==
  /\ Resolves("function")
  /\ Charge
  /\ depth < MaxFuncDepth
  /\ depth' = depth + 1
  /\ LET f == names.funcs[Dispatch(Frame.c).name] IN
     /\ IF sigma.arg = 0
          THEN heap' = Append(heap, ArgumentCell(Frame.c.word))
          ELSE heap' = [heap EXCEPT ![sigma.arg] = ArgumentCell(Frame.c.word)]
     /\ sigma' = [sigma EXCEPT !.arg = IF f.rebinds THEN 0
                                       ELSE IF sigma.arg = 0 THEN Len(heap) + 1 ELSE sigma.arg]
     /\ Become(<< StmtFrame(f), [k |-> "return", arg |-> sigma.arg] >>)
  /\ UNCHANGED <<prog, names, Result, ctl, status, loopDepth, guessed, mode>>

RecursionLimit ==
  /\ Resolves("function")
  /\ Charge
  /\ depth >= MaxFuncDepth
  /\ effs' = effs \cup {TopEffect}
  /\ Return
  /\ UNCHANGED <<prog, names, State, top, ctl, status, Depths, guessed, mode>>

ReturnFromFunction ==
  /\ In("return")
  /\ depth' = depth - 1
  /\ sigma' = [sigma EXCEPT !.arg = Frame.arg]
  /\ ctl' = IF ctl = "return" THEN "none" ELSE ctl
  /\ Return
  /\ UNCHANGED <<prog, names, heap, Result, status, loopDepth, budget, guessed, mode>>

-----------------------------------------------------------------------------
\* builtinState, resolutionState and positionalState: the builtins that change
\* what a later word stands for

\* An operand that is not known declares nothing.
DeclareAlias ==
  /\ Command("alias")
  /\ Charge
  /\ sigma' = IF Frame.c.name = Unresolved THEN sigma
              ELSE [sigma EXCEPT !.aliases[Frame.c.name] = Frame.c.to]
  /\ status' = "unknown"
  /\ Return
  /\ UNCHANGED <<prog, names, heap, Result, ctl, Depths, guessed, mode>>

\* Clears one entry of a table, or all of them.
Without(table, n) == [m \in Names |-> IF n \in {m, All} THEN Nothing ELSE table[m]]

RemoveAlias ==
  /\ Command("unalias")
  /\ Charge
  /\ sigma' = [sigma EXCEPT !.aliases = Without(sigma.aliases, Frame.c.name)]
  /\ names' = [names EXCEPT !.aliasOpaque = @ \/ Frame.c.name = Unresolved]
  /\ status' = "unknown"
  /\ Return
  /\ UNCHANGED <<prog, heap, Result, ctl, Depths, guessed, mode>>

\* A builtin the knowledge base describes is looked up like a program, after it
\* has changed the tables.
BindBuiltin == effs' = IF names'.hashOpaque THEN effs \cup {TopEffect} ELSE effs

BindHash ==
  /\ Command("hash")
  /\ Charge
  /\ names' = IF Frame.c.name = Unresolved THEN [names EXCEPT !.hashOpaque = TRUE]
              ELSE [names EXCEPT !.hash[Frame.c.name] = Frame.c.to]
  /\ BindBuiltin
  /\ status' = "unknown"
  /\ Return
  /\ UNCHANGED <<prog, State, top, ctl, Depths, guessed, mode>>

ForgetHash ==
  /\ Command("unhash")
  /\ Charge
  /\ names' = [names EXCEPT !.hash = Without(names.hash, Frame.c.name),
                            !.hashOpaque = @ \/ Frame.c.name = Unresolved]
  /\ BindBuiltin
  /\ status' = "unknown"
  /\ Return
  /\ UNCHANGED <<prog, State, top, ctl, Depths, guessed, mode>>

\* resolutionAssign
AssignPath ==
  /\ Command("path")
  /\ names' = [names EXCEPT !.hashOpaque = @ \/ ~Frame.c.keeps]
  /\ Return
  /\ UNCHANGED <<prog, State, Result, ctl, status, Depths, budget, guessed, mode>>

\* "$1" is unset and bound anew: no other state shares its cell.
BindArgument(c) == heap' = HeapWith(c) /\ sigma' = [sigma EXCEPT !.arg = CellFor(c)]

SetArguments ==
  /\ Command("args")
  /\ Charge
  /\ BindArgument(ArgumentCell(Frame.c.word))
  /\ UNCHANGED names /\ BindBuiltin
  /\ status' = "unknown"
  /\ Return
  /\ UNCHANGED <<prog, top, ctl, Depths, guessed, mode>>

ShiftArguments ==
  /\ Command("shift")
  /\ Charge
  /\ BindArgument(UnknownCell(FlatOf({})))
  /\ status' = "unknown"
  /\ Return
  /\ UNCHANGED <<prog, names, Result, ctl, Depths, guessed, mode>>

UnsetVariable ==
  /\ Command("unset")
  /\ Charge
  /\ sigma' = [sigma EXCEPT !.vars[Frame.c.var] = Absent]
  /\ UNCHANGED names /\ BindBuiltin
  /\ status' = "unknown"
  /\ Return
  /\ UNCHANGED <<prog, heap, top, ctl, Depths, guessed, mode>>

-----------------------------------------------------------------------------
\* execCommand: groups

ExecBlock ==
  /\ Command("block")
  /\ Become(<< ListFrame(Frame.c.body) >>)
  /\ UNCHANGED <<prog, names, State, Result, ctl, status, Depths, budget, guessed, mode>>

\* A subshell runs on a clone of the state; its signals stay inside.
ExecSubshell ==
  /\ Command("sub")
  /\ Become(<< ListFrame(Frame.c.body), LeaveFrame("kept") >>)
  /\ sigma' = CloneOf(sigma)
  /\ heap' = HeapWith(ArgCell(sigma))
  /\ ctl' = "none"
  /\ UNCHANGED <<prog, names, Result, status, Depths, budget, guessed, mode>>

\* execPipeline: every stage is a statement on a clone of the state.
PipeFrame(ss) == [k |-> "pipe", ss |-> ss]

ExecPipeline ==
  /\ Command("pipe")
  /\ Become(<< PipeFrame(Frame.c.stages) >>)
  /\ UNCHANGED <<prog, names, State, Result, ctl, status, Depths, budget, guessed, mode>>

PipeStage ==
  /\ In("pipe")
  /\ Frame.ss # << >>
  /\ Become(<< StmtFrame(Head(Frame.ss)), LeaveFrame("kept"), PipeFrame(Tail(Frame.ss)) >>)
  /\ sigma' = CloneOf(sigma)
  /\ heap' = HeapWith(ArgCell(sigma))
  /\ ctl' = "none"
  /\ UNCHANGED <<prog, names, Result, status, Depths, budget, guessed, mode>>

PipeEnd ==
  /\ In("pipe")
  /\ Frame.ss = << >>
  /\ status' = "unknown"
  /\ Return
  /\ UNCHANGED <<prog, names, State, Result, ctl, Depths, budget, guessed, mode>>

-----------------------------------------------------------------------------
\* execAndOr

ExecAndOr ==
  /\ Command("and") \/ Command("or")
  /\ Become(<< StmtFrame(Frame.c.left),
               [k |-> "right", op |-> Frame.c.op, s |-> Frame.c.right] >>)
  /\ UNCHANGED <<prog, names, State, Result, ctl, status, Depths, budget, guessed, mode>>

RightReached == status = IF Frame.op = "and" THEN "ok" ELSE "fail"

RunRight ==
  /\ In("right")
  /\ RightReached
  /\ Become(<< StmtFrame(Frame.s) >>)
  /\ UNCHANGED <<prog, names, State, Result, ctl, status, Depths, budget, guessed, mode>>

SkipRight ==
  /\ In("right")
  /\ status # "unknown" /\ ~RightReached
  /\ Return
  /\ UNCHANGED <<prog, names, State, Result, ctl, status, Depths, budget, guessed, mode>>

\* The right-hand side runs speculatively, on the same state: only its signal
\* is confined.
SpeculateRight ==
  /\ In("right")
  /\ status = "unknown"
  /\ Become(<< StmtFrame(Frame.s), [k |-> "speculated", ctl |-> ctl] >>)
  /\ ctl' = "none"
  /\ guessed' = TRUE
  /\ UNCHANGED <<prog, names, State, Result, status, Depths, budget, mode>>

Speculated ==
  /\ In("speculated")
  /\ ctl' = Frame.ctl
  /\ status' = "unknown"
  /\ Return
  /\ UNCHANGED <<prog, names, State, Result, Depths, budget, guessed, mode>>

-----------------------------------------------------------------------------
\* execIf and execElse

ExecIf ==
  /\ Command("if")
  /\ Become(BranchFrames(Frame.c.arms))
  /\ UNCHANGED <<prog, names, State, Result, ctl, status, Depths, budget, guessed, mode>>

TakeThen ==
  /\ In("branch")
  /\ status = "ok"
  /\ Become(<< ListFrame(Frame.arms[1].then) >>)
  /\ UNCHANGED <<prog, names, State, Result, ctl, status, Depths, budget, guessed, mode>>

\* An if that runs no branch exits 0.
TakeElse ==
  /\ In("branch")
  /\ status = "fail"
  /\ Become(ElseFrames(Tail(Frame.arms)))
  /\ status' = IF Len(Frame.arms) = 1 THEN "ok" ELSE status
  /\ UNCHANGED <<prog, names, State, Result, ctl, Depths, budget, guessed, mode>>

\* Undecidable: the then branch runs on the state, the else branch on a clone
\* of it taken before, and the two states are joined.
SpeculateThen ==
  /\ In("branch")
  /\ status = "unknown"
  /\ Become(<< ListFrame(Frame.arms[1].then),
               [k |-> "else", arms |-> Tail(Frame.arms), base |-> CloneOf(sigma),
                ctl |-> ctl] >>)
  /\ heap' = HeapWith(ArgCell(sigma))
  /\ ctl' = "none"
  /\ guessed' = TRUE
  /\ UNCHANGED <<prog, names, sigma, Result, status, Depths, budget, mode>>

SpeculateElse ==
  /\ In("else")
  /\ Become(ElseFrames(Frame.arms)
              \o << [k |-> "join", then |-> sigma, ctl |-> Frame.ctl] >>)
  /\ sigma' = Frame.base
  /\ ctl' = "none"
  /\ UNCHANGED <<prog, names, heap, Result, status, Depths, budget, guessed, mode>>

Join ==
  /\ In("join")
  /\ LET c == JoinCells(ArgCell(Frame.then), ArgCell(sigma)) IN
       /\ sigma' = [vars |-> JoinVars(Frame.then, sigma), arg |-> CellFor(c),
                    aliases |-> Frame.then.aliases]
       /\ heap' = HeapWith(c)
  /\ ctl' = Frame.ctl
  /\ status' = "unknown"
  /\ Return
  /\ UNCHANGED <<prog, names, Result, Depths, budget, guessed, mode>>

-----------------------------------------------------------------------------
\* execWhile, execFor and handleLoopCtl

LoopFrame(c, ran) == [k |-> "loop", c |-> c, ran |-> ran]

ExecWhile ==
  /\ Command("while")
  /\ loopDepth' = loopDepth + 1
  /\ Become(<< LoopFrame(Frame.c, FALSE) >>)
  /\ UNCHANGED <<prog, names, State, Result, ctl, status, depth, budget, guessed, mode>>

TestLoop ==
  /\ In("loop")
  /\ Charge
  /\ Become(<< ListFrame(Frame.c.cond), [Frame EXCEPT !.k = "test"] >>)
  /\ UNCHANGED <<prog, names, State, Result, ctl, status, Depths, guessed, mode>>

Holds(c) == status = IF c.until THEN "fail" ELSE "ok"

Iterate ==
  /\ In("test")
  /\ Holds(Frame.c)
  /\ Become(<< ListFrame(Frame.c.body), [k |-> "iterated", next |-> LoopFrame(Frame.c, TRUE)] >>)
  /\ UNCHANGED <<prog, names, State, Result, ctl, status, Depths, budget, guessed, mode>>

\* A loop that never ran exits 0.
LoopOver ==
  /\ In("test")
  /\ status # "unknown" /\ ~Holds(Frame.c)
  /\ status' = IF Frame.ran THEN "unknown" ELSE "ok"
  /\ loopDepth' = loopDepth - 1
  /\ Return
  /\ UNCHANGED <<prog, names, State, Result, ctl, depth, budget, guessed, mode>>

\* Undecidable: the body runs once and the result is widened.
WidenLoop ==
  /\ In("test")
  /\ status = "unknown"
  /\ Become(<< ListFrame(Frame.c.body), [k |-> "widen"] >>)
  /\ guessed' = TRUE
  /\ UNCHANGED <<prog, names, State, Result, ctl, status, Depths, budget, mode>>

\* Mutant: every signal is consumed by the loop.
ConsumesAll == "none"

\* What handleLoopCtl leaves of a signal, and whether the loop goes on.
AfterBody == IF ctl \in {"break", "continue"} THEN "none" ELSE ctl
GoesOn    == ctl \in {"none", "continue"}

Widened ==
  /\ In("widen")
  /\ MarkTop
  /\ ctl' = AfterBody
  /\ loopDepth' = loopDepth - 1
  /\ Return
  /\ UNCHANGED <<prog, names, State, status, depth, budget, guessed, mode>>

NextIteration ==
  /\ In("iterated")
  /\ GoesOn
  /\ ctl' = AfterBody
  /\ Become(<< Frame.next >>)
  /\ UNCHANGED <<prog, names, State, Result, status, Depths, budget, guessed, mode>>

LeaveLoop ==
  /\ In("iterated")
  /\ ~GoesOn
  /\ ctl' = AfterBody
  /\ loopDepth' = loopDepth - 1
  /\ Return
  /\ UNCHANGED <<prog, names, State, Result, status, depth, budget, guessed, mode>>

\* A for loop over words that are all known runs its body once per value.
ForFrame(c, vals) == [k |-> "for", c |-> c, vals |-> vals]

ExecFor ==
  /\ Command("for")
  /\ Charge
  /\ \A i \in DOMAIN Frame.c.words : Expand(Frame.c.words[i]).known
  /\ loopDepth' = loopDepth + 1
  /\ Become(<< ForFrame(Frame.c, [i \in DOMAIN Frame.c.words |->
                                    Expand(Frame.c.words[i]).value]) >>)
  /\ status' = IF Frame.c.words = << >> THEN "ok" ELSE status
  /\ UNCHANGED <<prog, names, State, Result, ctl, depth, guessed, mode>>

ForNext ==
  /\ In("for")
  /\ Frame.vals # << >>
  /\ Charge
  /\ sigma' = [sigma EXCEPT !.vars[Frame.c.var] = KnownCell(Head(Frame.vals), FlatOf({}))]
  /\ Become(<< ListFrame(Frame.c.body),
               [k |-> "iterated", next |-> ForFrame(Frame.c, Tail(Frame.vals))] >>)
  /\ UNCHANGED <<prog, names, heap, Result, ctl, status, Depths, guessed, mode>>

ForOver ==
  /\ In("for")
  /\ Frame.vals = << >>
  /\ loopDepth' = loopDepth - 1
  /\ Return
  /\ UNCHANGED <<prog, names, State, Result, ctl, status, depth, budget, guessed, mode>>

WidenFor ==
  /\ Command("for")
  /\ Charge
  /\ \E i \in DOMAIN Frame.c.words : ~Expand(Frame.c.words[i]).known
  /\ loopDepth' = loopDepth + 1
  /\ sigma' = [sigma EXCEPT !.vars[Frame.c.var] = UnknownCell(FlatOf({}))]
  /\ Become(<< ListFrame(Frame.c.body), [k |-> "widen"] >>)
  /\ UNCHANGED <<prog, names, heap, Result, ctl, status, depth, guessed, mode>>

-----------------------------------------------------------------------------
\* execCase, with literal patterns and arms ended by ";;"

Matching(c) == { i \in DOMAIN c.items : Expand(c.word).value \in c.items[i].pats }

TakeArm ==
  /\ Command("case")
  /\ Expand(Frame.c.word).known
  /\ \E i \in Matching(Frame.c) :
       /\ \A j \in Matching(Frame.c) : i <= j
       /\ Become(<< ListFrame(Frame.c.items[i].body) >>)
  /\ UNCHANGED <<prog, names, State, Result, ctl, status, Depths, budget, guessed, mode>>

NoArm ==
  /\ Command("case")
  /\ Expand(Frame.c.word).known
  /\ Matching(Frame.c) = {}
  /\ status' = "ok"
  /\ Return
  /\ UNCHANGED <<prog, names, State, Result, ctl, Depths, budget, guessed, mode>>

EveryArm ==
  /\ Command("case")
  /\ ~Expand(Frame.c.word).known
  /\ Become([i \in DOMAIN Frame.c.items |-> ListFrame(Frame.c.items[i].body)]
              \o << [k |-> "marktop"] >>)
  /\ UNCHANGED <<prog, names, State, Result, ctl, status, Depths, budget, guessed, mode>>

MarkCase ==
  /\ In("marktop")
  /\ MarkTop
  /\ Return
  /\ UNCHANGED <<prog, names, State, ctl, status, Depths, budget, guessed, mode>>

-----------------------------------------------------------------------------
\* The calls that end an execution, the statements, and the commands.

Ends == BudgetExhausted \/ Finish

Lists == EndOfList \/ ResetStraySignal \/ StopList \/ NextStmt

Statements == ExecStmt \/ Negate \/ Leave

Simple == Assign \/ KnownStatus \/ RaiseSignal \/ RunProgram \/ RunAnything \/ Declare

Tables ==
  \/ DeclareAlias \/ RemoveAlias \/ BindHash \/ ForgetHash \/ AssignPath
  \/ SetArguments \/ ShiftArguments \/ UnsetVariable

Calls == CallFunction \/ RecursionLimit \/ ReturnFromFunction

Groups == ExecBlock \/ ExecSubshell \/ ExecPipeline \/ PipeStage \/ PipeEnd

AndOrs == ExecAndOr \/ RunRight \/ SkipRight \/ SpeculateRight \/ Speculated

Ifs == ExecIf \/ TakeThen \/ TakeElse \/ SpeculateThen \/ SpeculateElse \/ Join

Loops ==
  \/ ExecWhile \/ TestLoop \/ Iterate \/ LoopOver \/ WidenLoop \/ Widened
  \/ NextIteration \/ LeaveLoop
  \/ ExecFor \/ ForNext \/ ForOver \/ WidenFor

Cases == TakeArm \/ NoArm \/ EveryArm \/ MarkCase

Exec ==
  \/ Ends \/ Lists \/ Statements \/ Simple \/ Tables \/ Calls
  \/ Groups \/ AndOrs \/ Ifs \/ Loops \/ Cases

ExecSpec == ExecInit /\ [][Exec]_<<prog, execVars>>

-----------------------------------------------------------------------------
\* Invariants

FrameKinds ==
  { "list", "stmt", "negate", "cmd", "leave", "return", "pipe", "right",
    "speculated", "branch", "else", "join", "loop", "test", "iterated", "widen",
    "for", "marktop" }

\* The states a call keeps to put back or to join when its callee returns.
SavedStates(f) ==
  CASE f.k = "leave" -> {f.sigma}
    [] f.k = "else"  -> {f.base}
    [] f.k = "join"  -> {f.then}
    [] OTHER         -> {}

IsState(s) ==
  /\ s.vars \in [Vars -> Cells] /\ s.arg \in 0 .. Len(heap)
  /\ \A n \in Names : s.aliases[n] \in Names \cup {Nothing}

\* Every variable of the interpreter has its type.
TypeOK ==
  /\ \A i \in DOMAIN stack :
       /\ stack[i].k \in FrameKinds
       /\ \A s \in SavedStates(stack[i]) : IsState(s)
  /\ heap \in Seq(Cells)
  /\ IsState(sigma)
  /\ DOMAIN names.funcs = DOMAIN prog.funcs
  /\ \A n \in Names : names.hash[n] \in Names \cup {Nothing, Unresolved}
  /\ names.hashOpaque \in BOOLEAN /\ names.aliasOpaque \in BOOLEAN
  /\ \A e \in effs : e.target \in FlatSet(Targets) /\ e.taint \in FlatSet(Labels)
  /\ top \in BOOLEAN /\ guessed \in BOOLEAN
  /\ ctl \in Signals
  /\ status \in {"ok", "fail", "unknown"}
  /\ loopDepth \in Nat /\ depth \in 0 .. MaxFuncDepth
  /\ budget \in 0 .. StepBudget
  /\ mode \in {"analyse", "done"}

\* While a subshell, a background job, a pipeline stage or a speculated branch
\* runs, no "$1" cell of a state kept for later is the cell the running state
\* writes: Clone copies the cells, and callFunc updates its cell in place.
Isolated ==
  \A i \in DOMAIN stack : \A s \in SavedStates(stack[i]) :
    s.arg # 0 => s.arg # sigma.arg
=============================================================================
