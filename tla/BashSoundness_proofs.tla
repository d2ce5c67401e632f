------------------------ MODULE BashSoundness_proofs ------------------------
(***************************************************************************)
(* Proofs about the abstract interpreter of the bash frontend: its         *)
(* variables keep their types, and the state a subshell, a background job, *)
(* a pipeline stage or a speculated branch keeps for later never shares    *)
(* its "$1" cell with the state that runs.                                 *)
(***************************************************************************)
EXTENDS BashSoundness, FoldLemmas

-----------------------------------------------------------------------------
\* The syntax

\* Nested is the function its equation says.
LEMMA NestedLevels ==
  /\ Nested[0] = {}
  /\ \A d \in 1 .. MaxNesting : Nested[d] = StatementsOf(Nested[d - 1])
<1> DEFINE Upto(n, g) == g = [d \in 0 .. n |-> IF d = 0 THEN {} ELSE StatementsOf(g[d - 1])]
           T == {n \in Nat : \E g : Upto(n, g)}
<1>1. 0 \in T
  <2>1. Upto(0, [d \in 0 .. 0 |-> {}])
    OBVIOUS
  <2> QED
    BY <2>1
<1>2. ASSUME NEW n \in Nat, n \in T PROVE n + 1 \in T
  <2>1. PICK g : Upto(n, g)
    BY <1>2
  <2> DEFINE h == [d \in 0 .. n + 1 |-> IF d = n + 1 THEN StatementsOf(g[n]) ELSE g[d]]
  <2>2. \A d \in 0 .. n : h[d] = g[d]
    OBVIOUS
  <2>3. \A d \in 0 .. n : g[d] = IF d = 0 THEN {} ELSE StatementsOf(g[d - 1])
    BY <2>1
  <2>4. ASSUME NEW d \in 0 .. n + 1 PROVE h[d] = IF d = 0 THEN {} ELSE StatementsOf(h[d - 1])
    <3>1. CASE d = n + 1
      <4>1. h[n + 1] = StatementsOf(g[n]) /\ h[n] = g[n] /\ d # 0 /\ d - 1 = n
        BY <3>1
      <4> HIDE DEF h
      <4> QED
        BY <3>1, <4>1
    <3>2. CASE d # n + 1
      <4>1. d \in 0 .. n /\ (d # 0 => d - 1 \in 0 .. n)
        BY <3>2
      <4> HIDE DEF h
      <4> QED
        BY <2>2, <2>3, <4>1
    <3> QED
      BY <3>1, <3>2
  <2>5. h = [d \in 0 .. n + 1 |-> h[d]]
    OBVIOUS
  <2>6. Upto(n + 1, h)
    <3> HIDE DEF h
    <3> QED
      BY <2>4, <2>5
  <2>7. \E g0 : Upto(n + 1, g0)
    <3> HIDE DEF h, Upto
    <3> QED
      BY <2>6
  <2> QED
    BY <2>7
<1>3. Nat \subseteq T
  <2> HIDE DEF T
  <2> QED
    BY <1>1, <1>2, SetInduction
<1>4. \E g : Upto(MaxNesting, g)
  BY <1>3, SyntaxAssumption
<1>5. Upto(MaxNesting, Nested)
  BY <1>4 DEF Nested
<1>6. \A d \in 0 .. MaxNesting : Nested[d] = IF d = 0 THEN {} ELSE StatementsOf(Nested[d - 1])
  BY <1>5
<1>7. 0 \in 0 .. MaxNesting /\ \A d \in 1 .. MaxNesting : d \in 0 .. MaxNesting /\ d # 0
  BY SyntaxAssumption
<1> HIDE DEF Upto, T
<1> QED
  BY <1>6, <1>7

\* The statements of programs, at any depth.
Syntax    == UNION { Nested[d] : d \in 0 .. MaxNesting }
StmtLists == Seq(Syntax)

LEMMA SeqGrows ==
  ASSUME NEW A, NEW B, A \subseteq B
  PROVE  Seq(A) \subseteq Seq(B)
OBVIOUS

\* Commands of fewer parts are commands.
LEMMA StatementsGrow ==
  ASSUME NEW A, NEW B, A \subseteq B
  PROVE  StatementsOf(A) \subseteq StatementsOf(B)
<1>1. Seq(A) \subseteq Seq(B)
  BY SeqGrows
<1>2. Arms(A) \subseteq Arms(B)
  BY <1>1 DEF Arms
<1>3. Seq(Arms(A)) \subseteq Seq(Arms(B))
  BY <1>2, SeqGrows
<1>4. Seq([pats : SUBSET Targets, body : Seq(A)]) \subseteq Seq([pats : SUBSET Targets, body : Seq(B)])
  <2>1. [pats : SUBSET Targets, body : Seq(A)] \subseteq [pats : SUBSET Targets, body : Seq(B)]
    BY <1>1
  <2> QED
    BY <2>1, SeqGrows
<1>5. Whiles(A) \subseteq Whiles(B) /\ Fors(A) \subseteq Fors(B)
  BY <1>1 DEF Whiles, Fors
<1>6. /\ [op : {"decl"}, name : Names, body : A] \subseteq [op : {"decl"}, name : Names, body : B]
      /\ [op : {"block", "sub"}, body : Seq(A)] \subseteq [op : {"block", "sub"}, body : Seq(B)]
      /\ [op : {"if"}, arms : Seq(Arms(A)) \ {<< >>}] \subseteq [op : {"if"}, arms : Seq(Arms(B)) \ {<< >>}]
      /\ [op : {"pipe"}, stages : Seq(A)] \subseteq [op : {"pipe"}, stages : Seq(B)]
      /\ [op : {"and", "or"}, left : A, right : A] \subseteq [op : {"and", "or"}, left : B, right : B]
  BY <1>1, <1>3
<1>7. [op : {"case"}, word : ShellWords, items : Seq([pats : SUBSET Targets, body : Seq(A)])]
        \subseteq [op : {"case"}, word : ShellWords, items : Seq([pats : SUBSET Targets, body : Seq(B)])]
  BY <1>4
<1>8. CompoundCommands(A) \subseteq CompoundCommands(B)
  BY <1>5, <1>6, <1>7, Zenon DEF CompoundCommands
<1>9. Commands(A) \subseteq Commands(B)
  BY <1>8 DEF Commands
<1> QED
  BY <1>9 DEF StatementsOf

\* The parts of a statement are statements.
LEMMA SyntaxParts == \A s \in Syntax : s \in StatementsOf(Syntax)
<1> SUFFICES ASSUME NEW s \in Syntax PROVE s \in StatementsOf(Syntax)
  OBVIOUS
<1>1. PICK d \in 0 .. MaxNesting : s \in Nested[d]
  BY DEF Syntax
<1>2. d \in 1 .. MaxNesting /\ d - 1 \in 0 .. MaxNesting
  BY <1>1, NestedLevels, SyntaxAssumption
<1>3. s \in StatementsOf(Nested[d - 1])
  BY <1>1, <1>2, NestedLevels
<1>4. Nested[d - 1] \subseteq Syntax
  BY <1>2 DEF Syntax
<1> QED
  BY <1>3, <1>4, StatementsGrow

\* What a program consists of.
LEMMA ProgramParts ==
  ASSUME NEW p \in Programs
  PROVE  p.body \in StmtLists /\ p.funcs \in [DOMAIN p.funcs -> Syntax]
<1>1. Nested[MaxNesting] \subseteq Syntax
  BY SyntaxAssumption DEF Syntax
<1>2. p.body \in Seq(Nested[MaxNesting]) /\ p.funcs \in [DOMAIN p.funcs -> Nested[MaxNesting]]
  BY SyntaxAssumption
<1>3. p.body \in StmtLists
  BY <1>1, <1>2, SeqGrows DEF StmtLists
<1> QED
  BY <1>1, <1>2, <1>3

ArmLists == Seq([cond : StmtLists, then : StmtLists])

\* What the fields of a command hold.
LEMMA CommandFields ==
  ASSUME NEW c \in Commands(Syntax)
  PROVE  /\ c.op \in {"run", "set", "args"} => c.word \in ShellWords
         /\ c.op \in {"set", "unset"} => c.var \in Vars
         /\ c.op = "known" => c.status \in {"ok", "fail"}
         /\ c.op = "ctl" => c.sig \in Signals
         /\ c.op = "alias" => c.name \in Names \cup {Unresolved} /\ c.to \in Names
         /\ c.op = "hash" => c.name \in Names \cup {Unresolved} /\ c.to \in Names \cup {Unresolved}
         /\ c.op = "path" => c.keeps \in BOOLEAN
         /\ c.op = "decl" => c.body \in Syntax
         /\ c.op \in {"block", "sub"} => c.body \in StmtLists
         /\ c.op = "if" => c.arms \in ArmLists /\ c.arms # << >>
         /\ c.op = "case" => c.word \in ShellWords
                             /\ c.items \in Seq([pats : SUBSET Targets, body : StmtLists])
         /\ c.op = "pipe" => c.stages \in StmtLists
         /\ c.op \in {"and", "or"} => c.left \in Syntax /\ c.right \in Syntax
         /\ c.op = "while" => c \in Whiles(Syntax)
         /\ c.op = "for" => c \in Fors(Syntax)
<1>1. CASE c \in SimpleCommands
  BY <1>1 DEF SimpleCommands
<1>2. CASE c \in CompoundCommands(Syntax)
  BY <1>2 DEF CompoundCommands, Whiles, Fors, Arms, ArmLists, StmtLists
<1> QED
  BY <1>1, <1>2 DEF Commands

-----------------------------------------------------------------------------
\* The state and the frames

States == [vars : [Vars -> Cells], arg : Nat, aliases : [Names -> Names \cup {Nothing}]]

LoopFrames == [k : {"loop"}, c : Whiles(Syntax), ran : BOOLEAN]
ForFrames  == [k : {"for"}, c : Fors(Syntax), vals : Seq(Targets)]

Frames ==
       [k : {"list"}, ss : StmtLists]
  \cup [k : {"stmt"}, s : Syntax]
  \cup [k : {"cmd"}, c : Commands(Syntax)]
  \cup [k : {"negate", "widen", "marktop"}]
  \cup [k : {"leave"}, sigma : States, ctl : Signals, status : {"ok", "kept"}]
  \cup [k : {"return"}, arg : Nat]
  \cup [k : {"pipe"}, ss : StmtLists]
  \cup [k : {"right"}, op : {"and", "or"}, s : Syntax]
  \cup [k : {"speculated"}, ctl : Signals]
  \cup [k : {"branch"}, arms : ArmLists \ {<< >>}]
  \cup [k : {"else"}, arms : ArmLists, base : States, ctl : Signals]
  \cup [k : {"join"}, then : States, ctl : Signals]
  \cup LoopFrames
  \cup [k : {"test"}, c : Whiles(Syntax), ran : BOOLEAN]
  \cup [k : {"iterated"}, next : LoopFrames \cup ForFrames]
  \cup ForFrames

\* What the fields of a frame hold.
LEMMA FrameFields ==
  ASSUME NEW f \in Frames
  PROVE  /\ f.k \in FrameKinds
         /\ f.k \in {"list", "pipe"} => f.ss \in StmtLists
         /\ f.k \in {"stmt", "right"} => f.s \in Syntax
         /\ f.k = "cmd" => f.c \in Commands(Syntax)
         /\ f.k = "leave" => f.sigma \in States /\ f.ctl \in Signals /\ f.status \in {"ok", "kept"}
         /\ f.k = "return" => f.arg \in Nat
         /\ f.k = "speculated" => f.ctl \in Signals
         /\ f.k = "branch" => f.arms \in ArmLists /\ f.arms # << >>
         /\ f.k = "else" => f.arms \in ArmLists /\ f.base \in States /\ f.ctl \in Signals
         /\ f.k = "join" => f.then \in States /\ f.ctl \in Signals
         /\ f.k \in {"loop", "test"} => f.c \in Whiles(Syntax) /\ f.ran \in BOOLEAN
         /\ f.k = "loop" => f \in LoopFrames
         /\ f.k = "iterated" => f.next \in LoopFrames \cup ForFrames
         /\ f.k = "for" => f.c \in Fors(Syntax) /\ f.vals \in Seq(Targets)
BY DEF Frames, FrameKinds, LoopFrames, ForFrames

\* The frames the actions push.
LEMMA FrameBuilders ==
  /\ \A ss \in StmtLists : ListFrame(ss) \in Frames /\ PipeFrame(ss) \in Frames
  /\ \A s \in Syntax : StmtFrame(s) \in Frames
  /\ \A c \in Commands(Syntax) : CommandFrame(c) \in Frames
  /\ \A k \in {"negate", "widen", "marktop"} : [k |-> k] \in Frames
  /\ \A s \in States, g \in Signals, st \in {"ok", "kept"} :
       [k |-> "leave", sigma |-> s, ctl |-> g, status |-> st] \in Frames
  /\ \A a \in Nat : [k |-> "return", arg |-> a] \in Frames
  /\ \A o \in {"and", "or"}, s \in Syntax : [k |-> "right", op |-> o, s |-> s] \in Frames
  /\ \A g \in Signals : [k |-> "speculated", ctl |-> g] \in Frames
  /\ \A arms \in ArmLists : arms # << >> => [k |-> "branch", arms |-> arms] \in Frames
  /\ \A arms \in ArmLists, s \in States, g \in Signals :
       [k |-> "else", arms |-> arms, base |-> s, ctl |-> g] \in Frames
  /\ \A s \in States, g \in Signals : [k |-> "join", then |-> s, ctl |-> g] \in Frames
  /\ \A c \in Whiles(Syntax), r \in BOOLEAN :
       LoopFrame(c, r) \in LoopFrames /\ LoopFrame(c, r) \in Frames
  /\ \A f \in LoopFrames : [f EXCEPT !.k = "test"] \in Frames
  /\ \A c \in Fors(Syntax), v \in Seq(Targets) : ForFrame(c, v) \in ForFrames /\ ForFrame(c, v) \in Frames
  /\ \A f \in LoopFrames \cup ForFrames : [k |-> "iterated", next |-> f] \in Frames /\ f \in Frames
<1> USE DEF Frames
<1>1. \A ss \in StmtLists : ListFrame(ss) \in Frames /\ PipeFrame(ss) \in Frames
  BY DEF ListFrame, PipeFrame
<1>2. \A s \in Syntax : StmtFrame(s) \in Frames
  BY DEF StmtFrame
<1>3. \A c \in Commands(Syntax) : CommandFrame(c) \in Frames
  BY DEF CommandFrame
<1>4. \A k \in {"negate", "widen", "marktop"} : [k |-> k] \in Frames
  OBVIOUS
<1>5. \A s \in States, g \in Signals, st \in {"ok", "kept"} :
       [k |-> "leave", sigma |-> s, ctl |-> g, status |-> st] \in Frames
  OBVIOUS
<1>6. \A a \in Nat : [k |-> "return", arg |-> a] \in Frames
  OBVIOUS
<1>7. \A o \in {"and", "or"}, s \in Syntax : [k |-> "right", op |-> o, s |-> s] \in Frames
  OBVIOUS
<1>8. \A g \in Signals : [k |-> "speculated", ctl |-> g] \in Frames
  OBVIOUS
<1>9. \A arms \in ArmLists : arms # << >> => [k |-> "branch", arms |-> arms] \in Frames
  OBVIOUS
<1>10. \A arms \in ArmLists, s \in States, g \in Signals :
       [k |-> "else", arms |-> arms, base |-> s, ctl |-> g] \in Frames
  OBVIOUS
<1>11. \A s \in States, g \in Signals : [k |-> "join", then |-> s, ctl |-> g] \in Frames
  OBVIOUS
<1>12. \A c \in Whiles(Syntax), r \in BOOLEAN :
       LoopFrame(c, r) \in LoopFrames /\ LoopFrame(c, r) \in Frames
  BY DEF LoopFrame, LoopFrames
<1>13. \A f \in LoopFrames : [f EXCEPT !.k = "test"] \in Frames
  BY DEF LoopFrames
<1>14. \A c \in Fors(Syntax), v \in Seq(Targets) : ForFrame(c, v) \in ForFrames /\ ForFrame(c, v) \in Frames
  BY DEF ForFrame, ForFrames
<1>15. \A f \in LoopFrames \cup ForFrames : [k |-> "iterated", next |-> f] \in Frames /\ f \in Frames
  OBVIOUS
<1> HIDE DEF Frames
<1> QED
  BY <1>1, <1>2, <1>3, <1>4, <1>5, <1>6, <1>7, <1>8, <1>9, <1>10, <1>11, <1>12, <1>13, <1>14, <1>15

-----------------------------------------------------------------------------
\* Cells, words and clones

LEMMA CellBuilders ==
  /\ Absent \in Cells
  /\ \A v \in Targets, t \in FlatSet(Labels) : KnownCell(v, t) \in Cells
  /\ \A t \in FlatSet(Labels) : UnknownCell(t) \in Cells
  /\ \A ls \in SUBSET Labels : FlatOf(ls) \in FlatSet(Labels)
  /\ \A v \in Targets : FlatOf({v}) \in FlatSet(Targets)
  /\ FlatTop \in FlatSet(Targets)
BY ProgramAssumption DEF Absent, KnownCell, UnknownCell, Cells, FlatOf, FlatTop, FlatSet

LEMMA JoinedCells ==
  ASSUME NEW a \in Cells, NEW b \in Cells
  PROVE  JoinCells(a, b) \in Cells
<1>1. FlatJoin(a.taint, b.taint) \in FlatSet(Labels)
  BY DEF Cells, FlatJoin, FlatSet, FlatTop, FlatOf
<1>2. a.value \in Targets
  BY DEF Cells
<1> QED
  BY <1>1, <1>2, CellBuilders DEF JoinCells

\* s is a state whose "$1" is in the heap.
Held(s) == s \in States /\ s.arg \in 0 .. Len(heap)

LEMMA ArgCellTyped ==
  ASSUME NEW s, Held(s), heap \in Seq(Cells)
  PROVE  ArgCell(s) \in Cells
BY CellBuilders DEF ArgCell, Held

LEMMA ExpandTyped ==
  ASSUME NEW w \in ShellWords, Held(sigma), heap \in Seq(Cells)
  PROVE  /\ Expand(w) \in Cells
         /\ Expand(w).value \in Targets /\ Expand(w).taint \in FlatSet(Labels)
<1>1. CellOf(w.name) \in Cells
  BY ArgCellTyped DEF CellOf, Held, States, ShellWords
<1> DEFINE c == CellOf(w.name)
<1>2. c.value \in Targets /\ c.taint \in FlatSet(Labels) /\ c.set \in BOOLEAN /\ c.known \in BOOLEAN
  BY <1>1 DEF Cells
<1>3. w.value \in Targets /\ FlatOf(w.labels) \in FlatSet(Labels) /\ FlatOf({}) \in FlatSet(Labels)
  BY CellBuilders DEF ShellWords
<1>4. w.form \in {"lit", "subst", "ref", "refOr"}
  BY DEF ShellWords
<1> HIDE DEF c
<1>5. Expand(w) \in Cells
  <2>1. Expand(w) = CASE w.form = "lit"   -> KnownCell(w.value, FlatOf({}))
                      [] w.form = "subst" -> UnknownCell(FlatOf(w.labels))
                      [] w.form = "ref"   -> IF c.known THEN KnownCell(c.value, c.taint)
                                             ELSE UnknownCell(c.taint)
                      [] w.form = "refOr" -> IF c.known /\ c.value # Empty THEN KnownCell(c.value, c.taint)
                                             ELSE IF c.set /\ ~c.known THEN UnknownCell(c.taint)
                                             ELSE KnownCell(w.value, c.taint)
    BY DEF Expand, c
  <2> QED
    BY <2>1, <1>2, <1>3, <1>4, CellBuilders
<1> QED
  BY <1>5 DEF Cells

LEMMA EffectTyped ==
  ASSUME NEW n, NEW w \in ShellWords, Held(sigma), heap \in Seq(Cells)
  PROVE  /\ EffectOf(n, w).target \in FlatSet(Targets)
         /\ EffectOf(n, w).taint \in FlatSet(Labels)
BY ExpandTyped, CellBuilders DEF EffectOf

LEMMA TopTyped == TopEffect.target \in FlatSet(Targets) /\ TopEffect.taint \in FlatSet(Labels)
BY CellBuilders DEF TopEffect

\* A clone keeps the types; its "$1" is a new cell, or none.
LEMMA BindTyped ==
  ASSUME NEW s \in States, NEW c \in Cells, heap \in Seq(Cells)
  PROVE  /\ HeapWith(c) \in Seq(Cells)
         /\ Len(HeapWith(c)) \in Nat /\ Len(HeapWith(c)) >= Len(heap)
         /\ CellFor(c) \in 0 .. Len(HeapWith(c))
         /\ CellFor(c) = 0 \/ CellFor(c) = Len(heap) + 1
         /\ [s EXCEPT !.arg = CellFor(c)] \in States
         /\ [s EXCEPT !.arg = CellFor(c)].arg = CellFor(c)
<1>1. c.set \in BOOLEAN
  BY DEF Cells
<1>2. /\ HeapWith(c) \in Seq(Cells)
      /\ Len(HeapWith(c)) \in Nat /\ Len(HeapWith(c)) >= Len(heap)
      /\ CellFor(c) \in 0 .. Len(HeapWith(c))
      /\ CellFor(c) = 0 \/ CellFor(c) = Len(heap) + 1
  BY <1>1 DEF HeapWith, CellFor
<1>3. CellFor(c) \in Nat
  BY <1>2
<1> QED
  BY <1>2, <1>3 DEF States

LEMMA SetVariable ==
  ASSUME NEW s \in States, NEW x \in Vars, NEW c \in Cells
  PROVE  /\ [s EXCEPT !.vars[x] = c] \in States
         /\ [s EXCEPT !.vars[x] = c].arg = s.arg
BY DEF States

LEMMA SetArg ==
  ASSUME NEW s \in States, NEW a \in Nat
  PROVE  /\ [s EXCEPT !.arg = a] \in States
         /\ [s EXCEPT !.arg = a].arg = a
BY DEF States

-----------------------------------------------------------------------------
\* Whose cell is whose

\* The cells of "$1" a frame puts back or joins.
Kept(f) ==
  { s.arg : s \in SavedStates(f) } \cup IF f.k = "return" THEN {f.arg} ELSE {}

\* No state kept in st has its "$1" in the cell a.
Free(a, st) == \A i \in DOMAIN st : \A s \in SavedStates(st[i]) : s.arg # 0 => s.arg # a

\* Of a kept state, the running state and the calls inside it have no cell: a is
\* the running state's, and n the last one in use.
Apart(a, st, n) ==
  /\ a \in 0 .. n
  /\ \A i \in DOMAIN st : Kept(st[i]) \subseteq 0 .. n
  /\ Free(a, st)
  /\ \A i \in DOMAIN st : \A s \in SavedStates(st[i]) :
       s.arg # 0 => \A j \in 1 .. i - 1 : s.arg \notin Kept(st[j])

LEMMA SavedIsKept ==
  ASSUME NEW f, NEW s \in SavedStates(f)
  PROVE  s.arg \in Kept(f)
BY DEF Kept

\* A call that returns may put back its cell.
LEMMA ApartAfterReturn ==
  ASSUME NEW a, NEW st \in Seq(Frames), NEW n \in Nat, Apart(a, st, n), st # << >>,
         NEW b \in {a} \cup Kept(Head(st))
  PROVE  Apart(b, Tail(st), n)
<1>1. /\ Tail(st) \in Seq(Frames)
      /\ \A i \in DOMAIN Tail(st) : i + 1 \in DOMAIN st /\ Tail(st)[i] = st[i + 1] /\ 1 \in 1 .. (i + 1) - 1
      /\ 1 \in DOMAIN st /\ Head(st) = st[1]
  OBVIOUS
<1>2. b \in 0 .. n
  BY <1>1 DEF Apart
<1>3. \A i \in DOMAIN Tail(st) : Kept(Tail(st)[i]) \subseteq 0 .. n
  BY <1>1 DEF Apart
<1>4. Free(b, Tail(st))
  <2> SUFFICES ASSUME NEW i \in DOMAIN Tail(st), NEW s \in SavedStates(Tail(st)[i]), s.arg # 0
               PROVE  s.arg # b
    BY DEF Free
  <2>1. s \in SavedStates(st[i + 1]) /\ i + 1 \in DOMAIN st
    BY <1>1
  <2>2. s.arg # a
    BY <2>1 DEF Apart, Free
  <2>3. s.arg \notin Kept(st[1])
    BY <2>1, <1>1 DEF Apart
  <2> QED
    BY <2>2, <2>3, <1>1
<1>5. ASSUME NEW i \in DOMAIN Tail(st), NEW s \in SavedStates(Tail(st)[i]), s.arg # 0,
             NEW j \in 1 .. i - 1
      PROVE  s.arg \notin Kept(Tail(st)[j])
  <2>1. j \in DOMAIN Tail(st) /\ j + 1 \in 1 .. (i + 1) - 1
    BY <1>1
  <2> QED
    BY <1>1, <1>5, <2>1 DEF Apart
<1> QED
  BY <1>2, <1>3, <1>4, <1>5 DEF Apart

\* Frames whose cells no kept state has may be pushed.
LEMMA ApartAfterPush ==
  ASSUME NEW a, NEW st \in Seq(Frames), NEW n \in Nat, Apart(a, st, n),
         NEW fs \in Seq(Frames), NEW b, NEW m \in Nat, m >= n, b \in 0 .. m, Free(b, st),
         \A i \in DOMAIN fs : Kept(fs[i]) \subseteq 0 .. m /\ \A y \in Kept(fs[i]) : Free(y, st),
         Free(b, fs),
         \A i \in DOMAIN fs : \A s \in SavedStates(fs[i]) :
           s.arg # 0 => \A j \in 1 .. i - 1 : s.arg \notin Kept(fs[j])
  PROVE  Apart(b, fs \o st, m)
<1> DEFINE t == fs \o st
           k == Len(fs)
<1>1. k \in Nat /\ Len(st) \in Nat /\ DOMAIN st = 1 .. Len(st) /\ DOMAIN fs = 1 .. k
  OBVIOUS
<1>2. t \in Seq(Frames) /\ DOMAIN t = 1 .. (k + Len(st))
  BY ConcatElements
<1>3. \A i \in DOMAIN t : IF i <= k THEN i \in DOMAIN fs /\ t[i] = fs[i]
                          ELSE i - k \in DOMAIN st /\ t[i] = st[i - k]
  <2> SUFFICES ASSUME NEW i \in DOMAIN t
               PROVE  IF i <= k THEN i \in DOMAIN fs /\ t[i] = fs[i]
                      ELSE i - k \in DOMAIN st /\ t[i] = st[i - k]
    OBVIOUS
  <2>1. CASE i <= k
    <3>1. i \in 1 .. Len(fs)
      BY <1>2, <2>1
    <3> QED
      BY <3>1, <2>1, ConcatElements
  <2>2. CASE ~(i <= k)
    <3>1. i - k \in 1 .. Len(st) /\ k + (i - k) = i
      BY <1>2, <2>2, <1>1
    <3>2. t[k + (i - k)] = st[i - k]
      BY <3>1, ConcatElements
    <3> QED
      BY <3>1, <3>2, <2>2, <1>1
  <2> QED
    BY <2>1, <2>2
<1> HIDE DEF t, k
<1>4. ASSUME NEW i \in DOMAIN t PROVE Kept(t[i]) \subseteq 0 .. m
  <2>1. CASE i <= k
    BY <2>1, <1>3
  <2>2. CASE ~(i <= k)
    <3>1. Kept(st[i - k]) \subseteq 0 .. n
      BY <2>2, <1>3 DEF Apart
    <3> QED
      BY <3>1, <2>2, <1>3
  <2> QED
    BY <2>1, <2>2
<1>5. Free(b, t)
  <2> SUFFICES ASSUME NEW i \in DOMAIN t, NEW s \in SavedStates(t[i]), s.arg # 0
               PROVE  s.arg # b
    BY DEF Free
  <2> QED
    BY <1>3 DEF Free
<1>6. ASSUME NEW i \in DOMAIN t, NEW s \in SavedStates(t[i]), s.arg # 0, NEW j \in 1 .. i - 1
      PROVE  s.arg \notin Kept(t[j])
  <2>1. j \in DOMAIN t
    BY <1>1, <1>2
  <2>2. CASE i <= k
    <3>1. j <= k /\ t[i] = fs[i] /\ t[j] = fs[j] /\ i \in DOMAIN fs
      BY <2>1, <2>2, <1>1, <1>2, <1>3
    <3> QED
      BY <3>1, <1>6
  <2>3. CASE ~(i <= k) /\ j <= k
    <3>1. t[i] = st[i - k] /\ i - k \in DOMAIN st /\ t[j] = fs[j] /\ j \in DOMAIN fs
      BY <2>1, <2>3, <1>3
    <3>2. \A y \in Kept(fs[j]) : s.arg # y
      BY <3>1, <1>6 DEF Free
    <3> QED
      BY <3>1, <3>2
  <2>4. CASE ~(i <= k) /\ ~(j <= k)
    <3>1. t[i] = st[i - k] /\ i - k \in DOMAIN st /\ t[j] = st[j - k]
      BY <2>1, <2>4, <1>3
    <3>2. j - k \in 1 .. (i - k) - 1
      BY <2>4, <1>1, <1>2
    <3> QED
      BY <3>1, <3>2, <1>6 DEF Apart
  <2> QED
    BY <2>2, <2>3, <2>4
<1> QED
  BY <1>4, <1>5, <1>6, t \in Seq(Frames) DEF Apart, t

\* Cells that no kept state has: the running state's, none, and a new one.
LEMMA FreeCells ==
  ASSUME NEW a, NEW st \in Seq(Frames), NEW n \in Nat, Apart(a, st, n)
  PROVE  Free(a, st) /\ Free(0, st) /\ Free(n + 1, st)
<1>1. Free(a, st) /\ Free(0, st)
  BY DEF Apart, Free
<1>2. Free(n + 1, st)
  <2> SUFFICES ASSUME NEW i \in DOMAIN st, NEW s \in SavedStates(st[i]), s.arg # 0
               PROVE  s.arg # n + 1
    BY DEF Free
  <2>1. s.arg \in 0 .. n
    BY SavedIsKept DEF Apart
  <2> QED
    BY <2>1
<1> QED
  BY <1>1, <1>2

-----------------------------------------------------------------------------
\* How many calls of a kind are in progress

\* n frames of st are of a kind in K: c[i] counts those from i on.
Counts(st, K, n) ==
  \E c \in [1 .. Len(st) + 1 -> Nat] :
    /\ c[1] = n /\ c[Len(st) + 1] = 0
    /\ \A i \in 1 .. Len(st) : c[i] = c[i + 1] + IF st[i].k \in K THEN 1 ELSE 0

LEMMA CountAfterReturn ==
  ASSUME NEW K, NEW st \in Seq(Frames), NEW n, Counts(st, K, n), st # << >>
  PROVE  LET w == IF Head(st).k \in K THEN 1 ELSE 0 IN
         n \in Nat /\ n - w \in Nat /\ Counts(Tail(st), K, n - w)
<1> DEFINE w == IF Head(st).k \in K THEN 1 ELSE 0
           N == Len(st)
<1>1. PICK c \in [1 .. N + 1 -> Nat] :
        /\ c[1] = n /\ c[N + 1] = 0
        /\ \A i \in 1 .. N : c[i] = c[i + 1] + IF st[i].k \in K THEN 1 ELSE 0
  BY DEF Counts
<1>2. N \in Nat /\ N >= 1 /\ Len(Tail(st)) = N - 1 /\ Head(st) = st[1]
      /\ \A i \in 1 .. N - 1 : Tail(st)[i] = st[i + 1]
  OBVIOUS
<1> DEFINE d == [i \in 1 .. Len(Tail(st)) + 1 |-> c[i + 1]]
<1>3. d \in [1 .. Len(Tail(st)) + 1 -> Nat]
  BY <1>1, <1>2
<1>4. n \in Nat /\ c[2] \in Nat /\ n = c[2] + w /\ c[1] = n
  BY <1>1, <1>2
<1>5. d[1] = n - w /\ d[Len(Tail(st)) + 1] = 0
  <2>1. d[1] = c[2] /\ d[Len(Tail(st)) + 1] = c[N + 1]
    BY <1>2
  <2> HIDE DEF d
  <2> QED
    BY <2>1, <1>1, <1>4
<1>6. \A i \in 1 .. Len(Tail(st)) : d[i] = d[i + 1] + IF Tail(st)[i].k \in K THEN 1 ELSE 0
  <2> SUFFICES ASSUME NEW i \in 1 .. Len(Tail(st))
               PROVE  d[i] = d[i + 1] + IF Tail(st)[i].k \in K THEN 1 ELSE 0
    OBVIOUS
  <2>1. i \in 1 .. N - 1 /\ i + 1 \in 1 .. N
    BY <1>2
  <2>2. d[i] = c[i + 1] /\ d[i + 1] = c[(i + 1) + 1] /\ Tail(st)[i] = st[i + 1]
    BY <2>1, <1>2
  <2> HIDE DEF d
  <2> QED
    BY <2>1, <2>2, <1>1
<1> HIDE DEF d
<1>7. Counts(Tail(st), K, n - w)
  BY <1>3, <1>5, <1>6 DEF Counts
<1>8. w \in {0, 1}
  OBVIOUS
<1>9. n - w \in Nat
  <2> HIDE DEF w
  <2> QED
    BY <1>4, <1>8
<1> QED
  BY <1>4, <1>7, <1>9

\* Only the last of the frames pushed may be of the kind counted.
LEMMA CountAfterPush ==
  ASSUME NEW K, NEW st \in Seq(Frames), NEW n \in Nat, Counts(st, K, n),
         NEW fs \in Seq(Frames), fs # << >>,
         \A i \in 1 .. Len(fs) - 1 : fs[i].k \notin K
  PROVE  Counts(fs \o st, K, n + IF fs[Len(fs)].k \in K THEN 1 ELSE 0)
<1> DEFINE w == IF fs[Len(fs)].k \in K THEN 1 ELSE 0
           m == Len(fs)
           N == Len(st)
           t == fs \o st
<1>1. PICK c \in [1 .. N + 1 -> Nat] :
        /\ c[1] = n /\ c[N + 1] = 0
        /\ \A i \in 1 .. N : c[i] = c[i + 1] + IF st[i].k \in K THEN 1 ELSE 0
  BY DEF Counts
<1>2. m \in Nat /\ m >= 1 /\ N \in Nat /\ Len(t) = m + N
  BY ConcatElements
<1>3. /\ \A i \in 1 .. m : t[i] = fs[i]
      /\ \A i \in 1 .. N : t[m + i] = st[i]
  BY ConcatElements
<1> DEFINE d == [i \in 1 .. Len(t) + 1 |-> IF i <= m THEN n + w ELSE c[i - m]]
<1> HIDE DEF m, N, t
<1>4. d \in [1 .. Len(t) + 1 -> Nat]
  BY <1>1, <1>2
<1>5. d[1] = n + w /\ d[Len(t) + 1] = 0
  <2>1. d[1] = n + w /\ d[Len(t) + 1] = c[N + 1]
    BY <1>2
  <2> HIDE DEF d
  <2> QED
    BY <2>1, <1>1
<1>6. ASSUME NEW i \in 1 .. Len(t)
      PROVE  d[i] = d[i + 1] + IF t[i].k \in K THEN 1 ELSE 0
  <2>0. m + 1 - m = 1 /\ 1 \in 1 .. N + 1
    BY <1>2
  <2>1. CASE i < m
    <3>1. d[i] = n + w /\ d[i + 1] = n + w /\ t[i] = fs[i] /\ i \in 1 .. Len(fs) - 1
      BY <2>1, <1>2, <1>3 DEF m
    <3> HIDE DEF d
    <3> QED
      BY <3>1
  <2>2. CASE i = m
    <3>1. d[m] = n + w /\ d[m + 1] = c[1] /\ t[m] = fs[m]
      BY <1>2, <1>3, <2>0
    <3> HIDE DEF d
    <3> QED
      BY <3>1, <2>2, <1>1 DEF m
  <2>3. CASE i > m
    <3>1. i - m \in 1 .. N /\ (i + 1) - m = (i - m) + 1 /\ i = m + (i - m)
      BY <2>3, <1>2
    <3>2. d[i] = c[i - m] /\ d[i + 1] = c[(i - m) + 1]
      BY <2>3, <3>1, <1>2
    <3>3. t[i] = st[i - m]
      BY <3>1, <1>3
    <3> HIDE DEF d
    <3> QED
      BY <3>1, <3>2, <3>3, <1>1
  <2> QED
    BY <1>2, <2>1, <2>2, <2>3
<1> HIDE DEF d
<1>7. Counts(t, K, n + w)
  BY <1>4, <1>5, <1>6 DEF Counts
<1> QED
  BY <1>7 DEF t

-----------------------------------------------------------------------------
\* The inductive invariant

LoopKinds == {"loop", "test", "iterated", "widen", "for"}
Keepers   == {"leave", "else", "join", "return"}

\* The tables of names.
NamesTyped ==
  names \in [ funcs : [DOMAIN prog.funcs -> Syntax],
              hash : [Names -> Names \cup {Nothing, Unresolved}],
              hashOpaque : BOOLEAN, aliasOpaque : BOOLEAN ]

EffectsTyped == \A e \in effs : e.target \in FlatSet(Targets) /\ e.taint \in FlatSet(Labels)

\* The variables that hold neither a state nor a table.
Flags ==
  /\ EffectsTyped
  /\ top \in BOOLEAN /\ guessed \in BOOLEAN
  /\ ctl \in Signals
  /\ status \in {"ok", "fail", "unknown"}
  /\ budget \in 0 .. StepBudget
  /\ mode \in {"analyse", "done"}

Typed ==
  /\ prog \in Programs
  /\ stack \in Seq(Frames)
  /\ sigma \in States
  /\ heap \in Seq(Cells)
  /\ NamesTyped
  /\ Flags

\* The loops and the function calls in progress are those the stack holds, until
\* an exhausted budget abandons them.
Counted ==
  /\ loopDepth \in Nat /\ depth \in 0 .. MaxFuncDepth
  /\ mode = "analyse" => Counts(stack, LoopKinds, loopDepth) /\ Counts(stack, {"return"}, depth)

IInv == Typed /\ Apart(sigma.arg, stack, Len(heap)) /\ Counted

LEMMA CountsAreNumbers ==
  ASSUME NEW K, NEW st \in Seq(Frames), NEW n, Counts(st, K, n)
  PROVE  n \in Nat
<1>1. PICK c \in [1 .. Len(st) + 1 -> Nat] : c[1] = n
  BY DEF Counts
<1> QED
  BY <1>1

LEMMA CountStep ==
  ASSUME NEW K, NEW st \in Seq(Frames), NEW n, Counts(st, K, n), st # << >>,
         NEW fs \in Seq(Frames), \A i \in 1 .. Len(fs) - 1 : fs[i].k \notin K
  PROVE  Counts(fs \o Tail(st), K,
                (n - IF Head(st).k \in K THEN 1 ELSE 0)
                  + IF fs # << >> /\ fs[Len(fs)].k \in K THEN 1 ELSE 0)
<1> DEFINE m == n - IF Head(st).k \in K THEN 1 ELSE 0
<1>1. m \in Nat /\ Counts(Tail(st), K, m) /\ Tail(st) \in Seq(Frames)
  BY CountAfterReturn
<1> HIDE DEF m
<1>2. CASE fs = << >>
  <2>1. fs \o Tail(st) = Tail(st) /\ m + 0 = m
    BY <1>1, <1>2
  <2> QED
    BY <2>1, <1>1, <1>2 DEF m
<1>3. CASE fs # << >>
  <2>1. Counts(fs \o Tail(st), K, m + IF fs[Len(fs)].k \in K THEN 1 ELSE 0)
    BY <1>1, <1>3, CountAfterPush
  <2> QED
    BY <2>1, <1>3 DEF m
<1> QED
  BY <1>2, <1>3

\* Frames that keep no state.
LEMMA KeepsNothing ==
  ASSUME NEW f, f.k \notin Keepers
  PROVE  SavedStates(f) = {} /\ Kept(f) = {}
BY DEF Keepers, SavedStates, Kept

LEMMA WhatIsKept ==
  ASSUME NEW f
  PROVE  /\ f.k = "leave" => SavedStates(f) = {f.sigma} /\ Kept(f) = {f.sigma.arg}
         /\ f.k = "else" => SavedStates(f) = {f.base} /\ Kept(f) = {f.base.arg}
         /\ f.k = "join" => SavedStates(f) = {f.then} /\ Kept(f) = {f.then.arg}
         /\ f.k = "return" => SavedStates(f) = {} /\ Kept(f) = {f.arg}
BY DEF SavedStates, Kept

LEMMA HeadFrame ==
  ASSUME stack \in Seq(Frames), stack # << >>
  PROVE  /\ Frame = Head(stack) /\ Frame \in Frames /\ Frame.k \in FrameKinds
         /\ Tail(stack) \in Seq(Frames)
         /\ << >> \in Seq(Frames) /\ << >> \o Tail(stack) = Tail(stack)
<1>1. Head(stack) \in Frames
  OBVIOUS
<1> QED
  BY <1>1, FrameFields DEF Frame

\* A step that pushes frames in place of the innermost one, which neither keep a
\* state nor belong to a loop or a call.
LEMMA QuietStep ==
  ASSUME IInv, mode = "analyse", stack # << >>, Frame.k \notin Keepers \cup LoopKinds,
         NEW fs \in Seq(Frames),
         \A i \in DOMAIN fs : fs[i].k \notin Keepers \cup LoopKinds,
         stack' = fs \o Tail(stack),
         sigma' \in States, sigma'.arg = sigma.arg,
         UNCHANGED << prog, heap, loopDepth, depth >>,
         NamesTyped', Flags'
  PROVE  IInv'
<1>1. stack \in Seq(Frames) /\ heap \in Seq(Cells) /\ Frame = Head(stack)
      /\ Tail(stack) \in Seq(Frames) /\ Len(heap) \in Nat
  BY HeadFrame DEF IInv, Typed
<1>2. stack' \in Seq(Frames)
  BY <1>1, ConcatElements
<1>3. Typed'
  BY <1>2 DEF IInv, Typed
<1>4. Apart(sigma.arg, Tail(stack), Len(heap))
  BY <1>1, ApartAfterReturn DEF IInv
<1>5. Apart(sigma.arg, fs \o Tail(stack), Len(heap))
  <2>1. \A i \in DOMAIN fs : SavedStates(fs[i]) = {} /\ Kept(fs[i]) = {}
    BY KeepsNothing
  <2>2. Free(sigma.arg, Tail(stack)) /\ sigma.arg \in 0 .. Len(heap) /\ Free(sigma.arg, fs)
    BY <1>4, <2>1 DEF Apart, Free
  <2>3. /\ \A i \in DOMAIN fs : Kept(fs[i]) \subseteq 0 .. Len(heap)
                               /\ \A y \in Kept(fs[i]) : Free(y, Tail(stack))
        /\ \A i \in DOMAIN fs : \A s \in SavedStates(fs[i]) :
             s.arg # 0 => \A j \in 1 .. i - 1 : s.arg \notin Kept(fs[j])
        /\ Len(heap) >= Len(heap)
    BY <1>1, <2>1
  <2> QED
    BY <1>1, <1>4, <2>2, <2>3, ApartAfterPush
<1>6. Counts(fs \o Tail(stack), LoopKinds, loopDepth) /\ Counts(fs \o Tail(stack), {"return"}, depth)
  <2>1. Frame.k \notin LoopKinds /\ Frame.k # "return"
        /\ \A i \in DOMAIN fs : fs[i].k \notin LoopKinds /\ fs[i].k # "return"
    BY DEF Keepers
  <2>2. \A i \in 1 .. Len(fs) - 1 : i \in DOMAIN fs
    OBVIOUS
  <2>3. fs # << >> => Len(fs) \in DOMAIN fs
    OBVIOUS
  <2>4. Counts(stack, LoopKinds, loopDepth) /\ Counts(stack, {"return"}, depth)
    BY DEF IInv, Counted
  <2>5. loopDepth \in Nat /\ depth \in Nat
    BY <1>1, <2>4, CountsAreNumbers
  <2>6. Counts(fs \o Tail(stack), LoopKinds, (loopDepth - 0) + 0)
    BY <1>1, <2>1, <2>2, <2>3, <2>4, CountStep
  <2>7. Counts(fs \o Tail(stack), {"return"}, (depth - 0) + 0)
    BY <1>1, <2>1, <2>2, <2>3, <2>4, CountStep
  <2> QED
    BY <2>5, <2>6, <2>7
<1>7. Counted'
  BY <1>6 DEF IInv, Counted
<1> QED
  BY <1>3, <1>5, <1>7 DEF IInv

-----------------------------------------------------------------------------
\* The steps

\* What the invariant says of the call in progress.
LEMMA Running ==
  ASSUME IInv, NEW k, In(k)
  PROVE  /\ mode = "analyse" /\ stack # << >> /\ Frame.k = k /\ Frame \in Frames
         /\ stack \in Seq(Frames) /\ Tail(stack) \in Seq(Frames)
         /\ sigma \in States /\ heap \in Seq(Cells) /\ Held(sigma)
         /\ NamesTyped /\ Flags
         /\ loopDepth \in Nat /\ depth \in Nat
<1>1. stack # << >> /\ mode = "analyse" /\ Frame.k = k
  BY DEF In
<1>2. stack \in Seq(Frames) /\ sigma \in States /\ heap \in Seq(Cells) /\ NamesTyped /\ Flags
  BY DEF IInv, Typed
<1>3. sigma.arg \in 0 .. Len(heap)
  BY DEF IInv, Apart
<1>4. loopDepth \in Nat /\ depth \in Nat
  BY DEF IInv, Counted
<1> QED
  BY <1>1, <1>2, <1>3, <1>4, HeadFrame DEF Held

LEMMA Charged ==
  ASSUME IInv, NEW k, In(k), Charge
  PROVE  budget' \in 0 .. StepBudget /\ budget' > 0
<1>1. Frame \in Frames /\ Flags
  BY Running
<1>2. Cost \in Nat
  <2>1. Frame.k = "cmd" => WordCost(Frame.c) \in Nat
    <3>1. SUFFICES ASSUME Frame.k = "cmd" PROVE WordCost(Frame.c) \in Nat
      OBVIOUS
    <3>2. Frame.c \in Commands(Syntax)
      BY <1>1, <3>1, FrameFields
    <3>3. Frame.c.op = "for" => Len(Frame.c.words) \in Nat
      BY <3>2, CommandFields DEF Fors
    <3> QED
      BY <3>3 DEF WordCost
  <2> QED
    BY <2>1 DEF Cost
<1>3. budget \in Nat /\ budget <= StepBudget /\ StepBudget \in Nat
  BY <1>1, BoundsAssumption DEF Flags
<1> QED
  BY <1>2, <1>3 DEF Charge

LEMMA QuietReturn ==
  ASSUME IInv, NEW k, In(k), k \notin Keepers \cup LoopKinds, Return,
         sigma' \in States, sigma'.arg = sigma.arg,
         UNCHANGED << prog, heap, loopDepth, depth >>, NamesTyped', Flags'
  PROVE  IInv'
<1>1. /\ stack # << >> /\ Frame.k = k /\ mode = "analyse"
      /\ << >> \in Seq(Frames) /\ stack' = << >> \o Tail(stack)
  BY Running, HeadFrame DEF Return
<1>2. \A i \in DOMAIN << >> : FALSE
  OBVIOUS
<1> QED
  BY <1>1, <1>2, QuietStep

LEMMA QuietBecome ==
  ASSUME IInv, NEW k, In(k), k \notin Keepers \cup LoopKinds,
         NEW fs \in Seq(Frames), \A i \in DOMAIN fs : fs[i].k \notin Keepers \cup LoopKinds,
         Become(fs), UNCHANGED << prog, names, State, Depths >>, Flags'
  PROVE  IInv'
<1>1. stack # << >> /\ Frame.k = k /\ mode = "analyse" /\ sigma \in States /\ NamesTyped
  BY Running
<1>2. /\ sigma' \in States /\ sigma'.arg = sigma.arg
      /\ UNCHANGED << prog, heap, loopDepth, depth >> /\ stack' = fs \o Tail(stack)
  BY <1>1 DEF Become, State, Depths
<1>3. NamesTyped'
  BY <1>1 DEF NamesTyped
<1> QED
  BY <1>1, <1>2, <1>3, QuietStep

LEMMA ListSteps ==
  ASSUME IInv, Lists
  PROVE  IInv'
<1> DEFINE Quiet(k) == k \notin Keepers \cup LoopKinds
<1>1. Quiet("list") /\ Quiet("stmt")
  BY DEF Keepers, LoopKinds
<1>2. CASE EndOfList \/ StopList
  <2>1. /\ In("list") /\ Return /\ UNCHANGED << prog, names, sigma, heap, loopDepth, depth >>
        /\ UNCHANGED << effs, top, ctl, status, budget, guessed, mode >>
    BY <1>2 DEF EndOfList, StopList, State, Result, Depths
  <2>2. sigma \in States /\ NamesTyped /\ Flags
    BY <2>1, Running
  <2>3. sigma' \in States /\ sigma'.arg = sigma.arg /\ NamesTyped' /\ Flags'
    BY <2>1, <2>2 DEF NamesTyped, Flags, EffectsTyped
  <2> QED
    BY <2>1, <2>3, <1>1, QuietReturn
<1>3. CASE ResetStraySignal
  <2>1. /\ In("list") /\ ctl' = "none"
        /\ UNCHANGED << prog, names, stack, sigma, heap, loopDepth, depth >>
        /\ UNCHANGED << effs, top, status, budget, guessed, mode >>
    BY <1>3 DEF ResetStraySignal, State, Result, Depths
  <2>2. Typed'
    BY <2>1 DEF IInv, Typed, NamesTyped, Flags, EffectsTyped, Signals
  <2> QED
    BY <2>1, <2>2 DEF IInv, Counted
<1>4. CASE NextStmt
  <2> DEFINE fs == << StmtFrame(Head(Frame.ss)), ListFrame(Tail(Frame.ss)) >>
  <2>1. /\ In("list") /\ Frame.ss # << >> /\ Become(fs)
        /\ UNCHANGED << prog, names, State, Depths >>
        /\ UNCHANGED << effs, top, ctl, status, budget, guessed, mode >>
    BY <1>4 DEF NextStmt, Result
  <2>2. Frame \in Frames /\ Frame.k = "list" /\ Flags
    BY <2>1, Running
  <2>3. Frame.ss \in StmtLists
    BY <2>2, FrameFields
  <2>4. Head(Frame.ss) \in Syntax /\ Tail(Frame.ss) \in StmtLists
    BY <2>1, <2>3 DEF StmtLists
  <2>5. fs \in Seq(Frames)
    BY <2>4, FrameBuilders
  <2>6. \A i \in DOMAIN fs : fs[i].k \notin Keepers \cup LoopKinds
    BY <1>1 DEF StmtFrame, ListFrame
  <2>7. Flags'
    BY <2>1, <2>2 DEF Flags, EffectsTyped
  <2> HIDE DEF fs
  <2> QED
    BY <2>1, <2>5, <2>6, <2>7, <1>1, QuietBecome
<1> QED
  BY <1>2, <1>3, <1>4 DEF Lists

LEMMA CommandRunning ==
  ASSUME IInv, NEW op, Command(op)
  PROVE  /\ In("cmd") /\ Frame.c \in Commands(Syntax) /\ Frame.c.op = op
         /\ sigma \in States /\ heap \in Seq(Cells) /\ Held(sigma) /\ NamesTyped /\ Flags
<1>1. In("cmd") /\ Frame.c.op = op
  BY DEF Command
<1> QED
  BY <1>1, Running, FrameFields

LEMMA QuietCommand ==
  ASSUME IInv, NEW op, Command(op), Return,
         sigma' \in States, sigma'.arg = sigma.arg,
         UNCHANGED << prog, heap, Depths >>, NamesTyped', Flags'
  PROVE  IInv'
BY CommandRunning, QuietReturn DEF Keepers, LoopKinds, Depths

LEMMA SimpleSteps ==
  ASSUME IInv, Simple
  PROVE  IInv'
<1>1. CASE Assign
  <2>1. Command("set") /\ Return /\ UNCHANGED << prog, names, heap, Depths >>
        /\ UNCHANGED << effs, top, ctl, status, budget, guessed, mode >>
    BY <1>1 DEF Assign, Result
  <2>2. Frame.c.word \in ShellWords /\ Frame.c.var \in Vars
    BY <2>1, CommandRunning, CommandFields
  <2> DEFINE e == Expand(Frame.c.word)
             cell == IF e.known THEN KnownCell(e.value, e.taint) ELSE UnknownCell(e.taint)
  <2>3. sigma' = [sigma EXCEPT !.vars[Frame.c.var] = cell]
    BY <1>1 DEF Assign
  <2>4. cell \in Cells
    BY <2>1, <2>2, CommandRunning, ExpandTyped, CellBuilders
  <2> HIDE DEF cell
  <2>5. sigma' \in States /\ sigma'.arg = sigma.arg
    BY <2>1, <2>2, <2>3, <2>4, CommandRunning, SetVariable
  <2>6. NamesTyped' /\ Flags'
    BY <2>1, CommandRunning DEF NamesTyped, Flags, EffectsTyped
  <2> QED
    BY <2>1, <2>5, <2>6, QuietCommand
<1>2. CASE KnownStatus
  <2>1. /\ Command("known") /\ Charge /\ Return /\ status' = Frame.c.status
        /\ UNCHANGED << prog, names, sigma, heap, Depths >>
        /\ UNCHANGED << effs, top, ctl, guessed, mode >>
    BY <1>2 DEF KnownStatus, State, Result
  <2>2. status' \in {"ok", "fail"} /\ budget' \in 0 .. StepBudget
    BY <2>1, CommandRunning, CommandFields, Charged
  <2>3. sigma' \in States /\ sigma'.arg = sigma.arg /\ NamesTyped' /\ Flags'
    BY <2>1, <2>2, CommandRunning DEF NamesTyped, Flags, EffectsTyped
  <2> QED
    BY <2>1, <2>3, QuietCommand
<1>3. CASE RaiseSignal
  <2>1. /\ Command("ctl") /\ Charge /\ Return /\ ctl' = Frame.c.sig /\ status' = "unknown"
        /\ UNCHANGED << prog, names, sigma, heap, Depths >>
        /\ UNCHANGED << effs, top, guessed, mode >>
    BY <1>3 DEF RaiseSignal, State, Result
  <2>2. ctl' \in Signals /\ budget' \in 0 .. StepBudget
    BY <2>1, CommandRunning, CommandFields, Charged
  <2>3. sigma' \in States /\ sigma'.arg = sigma.arg /\ NamesTyped' /\ Flags'
    BY <2>1, <2>2, CommandRunning DEF NamesTyped, Flags, EffectsTyped
  <2> QED
    BY <2>1, <2>3, QuietCommand
<1>4. CASE RunProgram
  <2> DEFINE e == EffectOf(Dispatch(Frame.c).name, Frame.c.word)
  <2>1. /\ Command("run") /\ Charge /\ Return /\ effs' = effs \cup {e} /\ status' = "unknown"
        /\ UNCHANGED << prog, names, sigma, heap, Depths >>
        /\ UNCHANGED << top, ctl, guessed, mode >>
    BY <1>4 DEF RunProgram, Resolves, State
  <2>2. Frame.c.word \in ShellWords /\ budget' \in 0 .. StepBudget
    BY <2>1, CommandRunning, CommandFields, Charged
  <2>3. e.target \in FlatSet(Targets) /\ e.taint \in FlatSet(Labels)
    BY <2>1, <2>2, CommandRunning, EffectTyped
  <2> HIDE DEF e
  <2>4. sigma' \in States /\ sigma'.arg = sigma.arg /\ NamesTyped' /\ Flags'
    BY <2>1, <2>2, <2>3, CommandRunning DEF NamesTyped, Flags, EffectsTyped
  <2> QED
    BY <2>1, <2>4, QuietCommand
<1>5. CASE RunAnything
  <2>1. /\ Command("run") /\ Charge /\ Return /\ effs' = effs \cup {TopEffect} /\ status' = "unknown"
        /\ UNCHANGED << prog, names, sigma, heap, Depths >>
        /\ UNCHANGED << top, ctl, guessed, mode >>
    BY <1>5 DEF RunAnything, Resolves, State
  <2>2. budget' \in 0 .. StepBudget
    BY <2>1, CommandRunning, Charged
  <2>3. sigma' \in States /\ sigma'.arg = sigma.arg /\ NamesTyped' /\ Flags'
    BY <2>1, <2>2, CommandRunning, TopTyped DEF NamesTyped, Flags, EffectsTyped
  <2> QED
    BY <2>1, <2>3, QuietCommand
<1>6. CASE Declare
  <2>1. /\ Command("decl") /\ Return
        /\ names' = [names EXCEPT !.funcs[Frame.c.name] = Frame.c.body]
        /\ UNCHANGED << prog, sigma, heap, Depths >>
        /\ UNCHANGED << effs, top, ctl, status, budget, guessed, mode >>
    BY <1>6 DEF Declare, State, Result
  <2>2. Frame.c.body \in Syntax
    BY <2>1, CommandRunning, CommandFields
  <2>3. sigma' \in States /\ sigma'.arg = sigma.arg /\ NamesTyped' /\ Flags'
    BY <2>1, <2>2, CommandRunning DEF NamesTyped, Flags, EffectsTyped
  <2> QED
    BY <2>1, <2>3, QuietCommand
<1> QED
  BY <1>1, <1>2, <1>3, <1>4, <1>5, <1>6 DEF Simple

\* Any step that puts frames in the place of the innermost one.
LEMMA AnyStep ==
  ASSUME IInv, NEW k, In(k), NEW fs \in Seq(Frames), stack' = fs \o Tail(stack),
         \A i \in 1 .. Len(fs) - 1 : fs[i].k \notin LoopKinds \cup {"return"},
         loopDepth' = (loopDepth - IF k \in LoopKinds THEN 1 ELSE 0)
                        + IF fs # << >> /\ fs[Len(fs)].k \in LoopKinds THEN 1 ELSE 0,
         depth' = (depth - IF k \in {"return"} THEN 1 ELSE 0)
                    + IF fs # << >> /\ fs[Len(fs)].k \in {"return"} THEN 1 ELSE 0,
         depth' <= MaxFuncDepth,
         Apart(sigma'.arg, fs \o Tail(stack), Len(heap')),
         prog' = prog, sigma' \in States, heap' \in Seq(Cells), NamesTyped', Flags'
  PROVE  IInv'
<1>1. stack \in Seq(Frames) /\ stack # << >> /\ Head(stack).k = k /\ Tail(stack) \in Seq(Frames)
  BY Running DEF Frame
<1>2. stack' \in Seq(Frames)
  BY <1>1, ConcatElements
<1>3. Typed'
  BY <1>2 DEF IInv, Typed
<1>4. Counts(stack, LoopKinds, loopDepth) /\ Counts(stack, {"return"}, depth)
  BY Running DEF IInv, Counted
<1>5. Counts(fs \o Tail(stack), LoopKinds, loopDepth')
  <2>1. \A i \in 1 .. Len(fs) - 1 : fs[i].k \notin LoopKinds
    OBVIOUS
  <2> QED
    BY <1>1, <1>4, <2>1, CountStep
<1>6. Counts(fs \o Tail(stack), {"return"}, depth')
  <2>1. \A i \in 1 .. Len(fs) - 1 : fs[i].k \notin {"return"}
    OBVIOUS
  <2> QED
    BY <1>1, <1>4, <2>1, CountStep
<1>7. Counted'
  <2>1. loopDepth' \in Nat /\ depth' \in Nat
    BY <1>2, <1>5, <1>6, CountsAreNumbers
  <2> QED
    BY <1>5, <1>6, <2>1, BoundsAssumption DEF Counted
<1> QED
  BY <1>3, <1>7 DEF IInv

\* The cells no state kept further out has.
LEMMA OuterFree ==
  ASSUME IInv, NEW k, In(k)
  PROVE  /\ Len(heap) \in Nat /\ sigma.arg \in 0 .. Len(heap)
         /\ Apart(sigma.arg, Tail(stack), Len(heap))
         /\ Free(sigma.arg, Tail(stack)) /\ Free(0, Tail(stack)) /\ Free(Len(heap) + 1, Tail(stack))
         /\ \A y \in Kept(Frame) : y \in 0 .. Len(heap) /\ Free(y, Tail(stack))
                                    /\ Apart(y, Tail(stack), Len(heap))
<1>1. /\ stack \in Seq(Frames) /\ stack # << >> /\ Frame = Head(stack) /\ Tail(stack) \in Seq(Frames)
      /\ Len(heap) \in Nat
  BY Running DEF Frame
<1>2. Apart(sigma.arg, stack, Len(heap))
  BY DEF IInv
<1>3. \A y \in {sigma.arg} \cup Kept(Frame) : Apart(y, Tail(stack), Len(heap))
  BY <1>1, <1>2, ApartAfterReturn
<1>4. \A y \in {sigma.arg} \cup Kept(Frame) :
        Free(y, Tail(stack)) /\ Free(0, Tail(stack)) /\ Free(Len(heap) + 1, Tail(stack))
  BY <1>1, <1>3, FreeCells
<1>5. \A y \in {sigma.arg} \cup Kept(Frame) : y \in 0 .. Len(heap)
  BY <1>3 DEF Apart
<1> QED
  BY <1>1, <1>3, <1>4, <1>5

\* One of the frames pushed keeps the state s.
LEMMA KeepStep ==
  ASSUME IInv, NEW k, In(k), k \notin LoopKinds \cup {"return"},
         NEW fs \in Seq(Frames), Become(fs), NEW p \in DOMAIN fs, NEW s \in States,
         \A i \in DOMAIN fs : fs[i].k \notin LoopKinds \cup {"return"},
         \A i \in DOMAIN fs : i # p => fs[i].k \notin Keepers,
         SavedStates(fs[p]) = {s}, Kept(fs[p]) = {s.arg},
         s.arg \in 0 .. Len(heap'), Free(s.arg, Tail(stack)), s.arg # 0 => s.arg # sigma'.arg,
         sigma' \in States, sigma'.arg \in 0 .. Len(heap'), Free(sigma'.arg, Tail(stack)),
         heap' \in Seq(Cells), Len(heap') >= Len(heap),
         UNCHANGED << prog, names, Depths >>, Flags'
  PROVE  IInv'
<1>1. /\ stack' = fs \o Tail(stack) /\ Tail(stack) \in Seq(Frames) /\ NamesTyped
      /\ loopDepth \in Nat /\ depth \in Nat /\ UNCHANGED << loopDepth, depth >>
      /\ Len(heap') \in Nat /\ Len(heap) \in Nat
  BY Running DEF Become, Depths
<1>2. \A i \in DOMAIN fs : i # p => SavedStates(fs[i]) = {} /\ Kept(fs[i]) = {}
  BY KeepsNothing
<1>3. /\ \A i \in DOMAIN fs : Kept(fs[i]) \subseteq 0 .. Len(heap')
                             /\ \A y \in Kept(fs[i]) : Free(y, Tail(stack))
      /\ Free(sigma'.arg, fs)
      /\ \A i \in DOMAIN fs : \A r \in SavedStates(fs[i]) :
           r.arg # 0 => \A j \in 1 .. i - 1 : r.arg \notin Kept(fs[j])
  <2>1. \A i \in DOMAIN fs : Kept(fs[i]) \subseteq 0 .. Len(heap')
                             /\ \A y \in Kept(fs[i]) : Free(y, Tail(stack))
    BY <1>2
  <2>2. Free(sigma'.arg, fs)
    BY <1>2 DEF Free
  <2>3. ASSUME NEW i \in DOMAIN fs, NEW r \in SavedStates(fs[i]), NEW j \in 1 .. i - 1
        PROVE  r.arg \notin Kept(fs[j])
    <3>1. i = p
      BY <1>2, <2>3
    <3>2. j \in DOMAIN fs /\ j # p
      BY <3>1
    <3> QED
      BY <3>2, <1>2
  <2> QED
    BY <2>1, <2>2, <2>3
<1>4. Apart(sigma'.arg, fs \o Tail(stack), Len(heap'))
  BY <1>1, <1>3, OuterFree, ApartAfterPush
<1>5. NamesTyped'
  BY <1>1 DEF NamesTyped
<1>6. /\ fs # << >> /\ Len(fs) \in DOMAIN fs
      /\ \A i \in 1 .. Len(fs) - 1 : i \in DOMAIN fs
  OBVIOUS
<1>7. depth <= MaxFuncDepth
  BY DEF IInv, Counted
<1>8. /\ \A i \in 1 .. Len(fs) - 1 : fs[i].k \notin LoopKinds \cup {"return"}
      /\ fs[Len(fs)].k \notin LoopKinds /\ fs[Len(fs)].k \notin {"return"}
      /\ k \notin LoopKinds /\ k \notin {"return"}
  BY <1>6
<1>9. loopDepth' = (loopDepth - 0) + 0 /\ depth' = (depth - 0) + 0 /\ depth' <= MaxFuncDepth
  BY <1>1, <1>7
<1> QED
  BY <1>1, <1>4, <1>5, <1>8, <1>9, AnyStep

\* A call returns, and the running state is replaced.
LEMMA RestoreStep ==
  ASSUME IInv, NEW k, In(k), k \notin LoopKinds \cup {"return"}, Return,
         sigma' \in States, sigma'.arg \in 0 .. Len(heap'), Free(sigma'.arg, Tail(stack)),
         heap' \in Seq(Cells), Len(heap') >= Len(heap),
         UNCHANGED << prog, Depths >>, NamesTyped', Flags'
  PROVE  IInv'
<1> DEFINE fs == << >>
<1>1. fs \in Seq(Frames) /\ DOMAIN fs = {} /\ fs = << >> /\ Len(fs) = 0
  OBVIOUS
<1>2. /\ stack' = fs \o Tail(stack) /\ Tail(stack) \in Seq(Frames)
      /\ loopDepth \in Nat /\ depth \in Nat /\ UNCHANGED << loopDepth, depth >>
      /\ Len(heap') \in Nat /\ Len(heap) \in Nat
  BY Running, HeadFrame DEF Return, Depths
<1> HIDE DEF fs
<1>3. /\ \A i \in DOMAIN fs : Kept(fs[i]) \subseteq 0 .. Len(heap')
                             /\ \A y \in Kept(fs[i]) : Free(y, Tail(stack))
      /\ Free(sigma'.arg, fs)
      /\ \A i \in DOMAIN fs : \A r \in SavedStates(fs[i]) :
           r.arg # 0 => \A j \in 1 .. i - 1 : r.arg \notin Kept(fs[j])
  BY <1>1 DEF Free
<1>4. Apart(sigma'.arg, fs \o Tail(stack), Len(heap'))
  BY <1>1, <1>2, <1>3, OuterFree, ApartAfterPush
<1>5. depth <= MaxFuncDepth /\ k \notin LoopKinds /\ k \notin {"return"}
      /\ \A i \in 1 .. Len(fs) - 1 : FALSE
  BY <1>1 DEF IInv, Counted
<1>6. loopDepth' = (loopDepth - 0) + 0 /\ depth' = (depth - 0) + 0 /\ depth' <= MaxFuncDepth
  BY <1>2, <1>5
<1>7. /\ loopDepth' = (loopDepth - IF k \in LoopKinds THEN 1 ELSE 0)
                        + IF fs # << >> /\ fs[Len(fs)].k \in LoopKinds THEN 1 ELSE 0
      /\ depth' = (depth - IF k \in {"return"} THEN 1 ELSE 0)
                    + IF fs # << >> /\ fs[Len(fs)].k \in {"return"} THEN 1 ELSE 0
      /\ \A i \in 1 .. Len(fs) - 1 : fs[i].k \notin LoopKinds \cup {"return"}
  BY <1>1, <1>5, <1>6
<1> QED
  BY <1>1, <1>2, <1>4, <1>6, <1>7, AnyStep

\* "$1" is bound anew.
LEMMA BindStep ==
  ASSUME IInv, NEW op, Command(op), Return, NEW c \in Cells, BindArgument(c),
         UNCHANGED << prog, Depths >>, NamesTyped', Flags'
  PROVE  IInv'
<1>1. In("cmd") /\ sigma \in States /\ heap \in Seq(Cells)
  BY CommandRunning
<1>2. heap' = HeapWith(c) /\ sigma' = [sigma EXCEPT !.arg = CellFor(c)]
  BY DEF BindArgument
<1>3. /\ heap' \in Seq(Cells) /\ Len(heap') >= Len(heap) /\ sigma' \in States
      /\ sigma'.arg \in 0 .. Len(heap')
      /\ sigma'.arg = 0 \/ sigma'.arg = Len(heap) + 1
  BY <1>1, <1>2, BindTyped
<1>4. Free(sigma'.arg, Tail(stack))
  BY <1>1, <1>3, OuterFree
<1> QED
  BY <1>1, <1>3, <1>4, RestoreStep DEF LoopKinds

LEMMA ArgumentTyped ==
  ASSUME NEW w \in ShellWords, Held(sigma), heap \in Seq(Cells)
  PROVE  ArgumentCell(w) \in Cells
BY ExpandTyped, CellBuilders DEF ArgumentCell

LEMMA BuiltinTyped ==
  ASSUME EffectsTyped, BindBuiltin
  PROVE  EffectsTyped'
BY TopTyped DEF BindBuiltin, EffectsTyped

LEMMA TablesSteps ==
  ASSUME IInv, Tables
  PROVE  IInv'
<1>1. CASE DeclareAlias
  <2>1. /\ Command("alias") /\ Charge /\ Return /\ status' = "unknown"
        /\ sigma' = IF Frame.c.name = Unresolved THEN sigma
                    ELSE [sigma EXCEPT !.aliases[Frame.c.name] = Frame.c.to]
        /\ UNCHANGED << prog, names, heap, Depths >>
        /\ UNCHANGED << effs, top, ctl, guessed, mode >>
    BY <1>1 DEF DeclareAlias, Result
  <2>2. /\ Frame.c.name \in Names \cup {Unresolved} /\ Frame.c.to \in Names
        /\ budget' \in 0 .. StepBudget /\ sigma \in States
    BY <2>1, CommandRunning, CommandFields, Charged
  <2>3. sigma' \in States /\ sigma'.arg = sigma.arg
    BY <2>1, <2>2 DEF States
  <2>4. NamesTyped' /\ Flags'
    BY <2>1, <2>2, CommandRunning DEF NamesTyped, Flags, EffectsTyped
  <2> QED
    BY <2>1, <2>3, <2>4, QuietCommand
<1>2. CASE RemoveAlias
  <2>1. /\ Command("unalias") /\ Charge /\ Return /\ status' = "unknown"
        /\ sigma' = [sigma EXCEPT !.aliases = Without(sigma.aliases, Frame.c.name)]
        /\ names' = [names EXCEPT !.aliasOpaque = names.aliasOpaque \/ Frame.c.name = Unresolved]
        /\ UNCHANGED << prog, heap, Depths >>
        /\ UNCHANGED << effs, top, ctl, guessed, mode >>
    BY <1>2 DEF RemoveAlias, Result
  <2>2. budget' \in 0 .. StepBudget /\ sigma \in States
    BY <2>1, CommandRunning, Charged
  <2>3. sigma' \in States /\ sigma'.arg = sigma.arg
    BY <2>1, <2>2 DEF States, Without
  <2>4. NamesTyped'
    BY <2>1, CommandRunning DEF NamesTyped
  <2>5. Flags'
    BY <2>1, <2>2, CommandRunning DEF Flags, EffectsTyped
  <2> QED
    BY <2>1, <2>3, <2>4, <2>5, QuietCommand
<1>3. CASE BindHash
  <2>1. /\ Command("hash") /\ Charge /\ Return /\ status' = "unknown" /\ BindBuiltin
        /\ names' = IF Frame.c.name = Unresolved THEN [names EXCEPT !.hashOpaque = TRUE]
                    ELSE [names EXCEPT !.hash[Frame.c.name] = Frame.c.to]
        /\ UNCHANGED << prog, sigma, heap, Depths >>
        /\ UNCHANGED << top, ctl, guessed, mode >>
    BY <1>3 DEF BindHash, State
  <2>2. /\ Frame.c.name \in Names \cup {Unresolved} /\ Frame.c.to \in Names \cup {Unresolved}
        /\ budget' \in 0 .. StepBudget
    BY <2>1, CommandRunning, CommandFields, Charged
  <2>3. NamesTyped'
    BY <2>1, <2>2, CommandRunning DEF NamesTyped
  <2>4. EffectsTyped'
    BY <2>1, CommandRunning, BuiltinTyped DEF Flags
  <2>5. sigma' \in States /\ sigma'.arg = sigma.arg /\ Flags'
    BY <2>1, <2>2, <2>4, CommandRunning DEF Flags
  <2> QED
    BY <2>1, <2>3, <2>5, QuietCommand
<1>4. CASE ForgetHash
  <2>1. /\ Command("unhash") /\ Charge /\ Return /\ status' = "unknown" /\ BindBuiltin
        /\ names' = [names EXCEPT !.hash = Without(names.hash, Frame.c.name),
                                  !.hashOpaque = names.hashOpaque \/ Frame.c.name = Unresolved]
        /\ UNCHANGED << prog, sigma, heap, Depths >>
        /\ UNCHANGED << top, ctl, guessed, mode >>
    BY <1>4 DEF ForgetHash, State
  <2>2. budget' \in 0 .. StepBudget
    BY <2>1, CommandRunning, Charged
  <2>3. NamesTyped'
    BY <2>1, CommandRunning DEF NamesTyped, Without
  <2>4. EffectsTyped'
    BY <2>1, CommandRunning, BuiltinTyped DEF Flags
  <2>5. sigma' \in States /\ sigma'.arg = sigma.arg /\ Flags'
    BY <2>1, <2>2, <2>4, CommandRunning DEF Flags
  <2> QED
    BY <2>1, <2>3, <2>5, QuietCommand
<1>5. CASE AssignPath
  <2>1. /\ Command("path") /\ Return
        /\ names' = [names EXCEPT !.hashOpaque = names.hashOpaque \/ ~Frame.c.keeps]
        /\ UNCHANGED << prog, sigma, heap, Depths >>
        /\ UNCHANGED << effs, top, ctl, status, budget, guessed, mode >>
    BY <1>5 DEF AssignPath, State, Result
  <2>2. NamesTyped'
    BY <2>1, CommandRunning DEF NamesTyped
  <2>3. sigma' \in States /\ sigma'.arg = sigma.arg /\ Flags'
    BY <2>1, CommandRunning DEF Flags, EffectsTyped
  <2> QED
    BY <2>1, <2>2, <2>3, QuietCommand
<1>6. CASE SetArguments
  <2>1. /\ Command("args") /\ Charge /\ Return /\ status' = "unknown" /\ BindBuiltin
        /\ BindArgument(ArgumentCell(Frame.c.word))
        /\ UNCHANGED << prog, names, Depths >>
        /\ UNCHANGED << top, ctl, guessed, mode >>
    BY <1>6 DEF SetArguments
  <2>2. ArgumentCell(Frame.c.word) \in Cells /\ budget' \in 0 .. StepBudget
    BY <2>1, CommandRunning, CommandFields, ArgumentTyped, Charged
  <2>3. EffectsTyped'
    BY <2>1, CommandRunning, BuiltinTyped DEF Flags
  <2>4. NamesTyped' /\ Flags'
    BY <2>1, <2>2, <2>3, CommandRunning DEF NamesTyped, Flags
  <2> QED
    BY <2>1, <2>2, <2>4, BindStep
<1>7. CASE ShiftArguments
  <2>1. /\ Command("shift") /\ Charge /\ Return /\ status' = "unknown"
        /\ BindArgument(UnknownCell(FlatOf({})))
        /\ UNCHANGED << prog, names, Depths >>
        /\ UNCHANGED << effs, top, ctl, guessed, mode >>
    BY <1>7 DEF ShiftArguments, Result
  <2>2. UnknownCell(FlatOf({})) \in Cells /\ budget' \in 0 .. StepBudget
    BY <2>1, CommandRunning, CellBuilders, Charged
  <2>3. NamesTyped' /\ Flags'
    BY <2>1, <2>2, CommandRunning DEF NamesTyped, Flags, EffectsTyped
  <2> QED
    BY <2>1, <2>2, <2>3, BindStep
<1>8. CASE UnsetVariable
  <2>1. /\ Command("unset") /\ Charge /\ Return /\ status' = "unknown" /\ BindBuiltin
        /\ sigma' = [sigma EXCEPT !.vars[Frame.c.var] = Absent]
        /\ UNCHANGED << prog, names, heap, Depths >>
        /\ UNCHANGED << top, ctl, guessed, mode >>
    BY <1>8 DEF UnsetVariable
  <2>2. Frame.c.var \in Vars /\ budget' \in 0 .. StepBudget /\ sigma \in States
    BY <2>1, CommandRunning, CommandFields, Charged
  <2>3. sigma' \in States /\ sigma'.arg = sigma.arg
    BY <2>1, <2>2, SetVariable, CellBuilders
  <2>4. EffectsTyped'
    BY <2>1, CommandRunning, BuiltinTyped DEF Flags
  <2>5. NamesTyped' /\ Flags'
    BY <2>1, <2>2, <2>4, CommandRunning DEF NamesTyped, Flags
  <2> QED
    BY <2>1, <2>3, <2>5, QuietCommand
<1> QED
  BY <1>1, <1>2, <1>3, <1>4, <1>5, <1>6, <1>7, <1>8 DEF Tables

\* A clone and its heap.
LEMMA CloneTyped ==
  ASSUME IInv, NEW k, In(k)
  PROVE  LET c == CloneOf(sigma)  h == HeapWith(ArgCell(sigma)) IN
         /\ c \in States /\ c.arg \in 0 .. Len(h) /\ Free(c.arg, Tail(stack))
         /\ h \in Seq(Cells) /\ Len(h) >= Len(heap)
         /\ sigma.arg # 0 => sigma.arg # c.arg
         /\ sigma.arg \in 0 .. Len(h)
<1>1. Held(sigma) /\ sigma \in States /\ heap \in Seq(Cells) /\ sigma.arg \in 0 .. Len(heap)
      /\ Len(heap) \in Nat
  BY Running, OuterFree
<1> DEFINE a == ArgCell(sigma)
<1>2. a \in Cells
  BY <1>1, ArgCellTyped
<1> HIDE DEF a
<1>3. /\ HeapWith(a) \in Seq(Cells) /\ Len(HeapWith(a)) \in Nat /\ Len(HeapWith(a)) >= Len(heap)
      /\ CellFor(a) \in 0 .. Len(HeapWith(a))
      /\ CellFor(a) = 0 \/ CellFor(a) = Len(heap) + 1
      /\ [sigma EXCEPT !.arg = CellFor(a)] \in States
      /\ [sigma EXCEPT !.arg = CellFor(a)].arg = CellFor(a)
  BY <1>1, <1>2, BindTyped
<1>4. CloneOf(sigma) = [sigma EXCEPT !.arg = CellFor(a)]
  BY DEF CloneOf, a
<1>5. Free(CellFor(a), Tail(stack))
  BY <1>3, OuterFree
<1>6. sigma.arg # 0 => sigma.arg # CellFor(a)
  BY <1>1, <1>3
<1> QED
  BY <1>1, <1>3, <1>4, <1>5, <1>6 DEF a

LEMMA FrameKindsOf ==
  /\ \A ss : ListFrame(ss).k = "list" /\ PipeFrame(ss).k = "pipe"
  /\ \A s : StmtFrame(s).k = "stmt"
  /\ \A c : CommandFrame(c).k = "cmd"
  /\ \A st : LeaveFrame(st).k = "leave"
  /\ \A c, r : LoopFrame(c, r).k = "loop" /\ LoopFrame(c, r).c = c
  /\ \A c, v : ForFrame(c, v).k = "for"
BY DEF ListFrame, PipeFrame, StmtFrame, CommandFrame, LeaveFrame, LoopFrame, ForFrame

\* A subshell, a background job or a pipeline stage starts on a clone.
LEMMA ForkStep ==
  ASSUME IInv, NEW k, In(k), k \notin LoopKinds \cup {"return"},
         NEW fs \in Seq(Frames), Become(fs), NEW p \in DOMAIN fs, NEW st, fs[p] = LeaveFrame(st),
         \A i \in DOMAIN fs : i # p => fs[i].k \notin Keepers \cup LoopKinds,
         sigma' = CloneOf(sigma), heap' = HeapWith(ArgCell(sigma)),
         UNCHANGED << prog, names, Depths >>, Flags'
  PROVE  IInv'
<1>1. /\ sigma' \in States /\ sigma'.arg \in 0 .. Len(heap') /\ Free(sigma'.arg, Tail(stack))
      /\ heap' \in Seq(Cells) /\ Len(heap') >= Len(heap)
      /\ sigma.arg # 0 => sigma.arg # sigma'.arg
      /\ sigma.arg \in 0 .. Len(heap')
  BY CloneTyped
<1>2. sigma \in States /\ Free(sigma.arg, Tail(stack))
  BY Running, OuterFree
<1>3. fs[p].k = "leave" /\ fs[p].sigma = sigma
  BY DEF LeaveFrame
<1>4. SavedStates(fs[p]) = {sigma} /\ Kept(fs[p]) = {sigma.arg}
  BY <1>3, WhatIsKept
<1>5. /\ \A i \in DOMAIN fs : fs[i].k \notin LoopKinds \cup {"return"}
      /\ \A i \in DOMAIN fs : i # p => fs[i].k \notin Keepers
  BY <1>3 DEF Keepers, LoopKinds
<1> QED
  BY <1>1, <1>2, <1>4, <1>5, KeepStep

LEMMA StatementsSteps ==
  ASSUME IInv, Statements
  PROVE  IInv'
<1>1. ASSUME ExecStmt, Frame.s.bg PROVE IInv'
  <2> DEFINE fs == << CommandFrame(Frame.s.cmd), LeaveFrame("ok") >>
  <2>1. /\ In("stmt") /\ Charge /\ status' = "unknown" /\ ctl' = "none" /\ Become(fs)
        /\ sigma' = CloneOf(sigma) /\ heap' = HeapWith(ArgCell(sigma))
        /\ UNCHANGED << prog, names, Depths >> /\ UNCHANGED << effs, top, guessed, mode >>
    BY <1>1 DEF ExecStmt, Result
  <2>2. Frame.s \in Syntax /\ Frame.s \in StatementsOf(Syntax) /\ budget' \in 0 .. StepBudget
        /\ Flags /\ sigma \in States /\ ctl \in Signals
    BY <2>1, Running, FrameFields, SyntaxParts, Charged DEF Flags
  <2>3. CommandFrame(Frame.s.cmd) \in Frames /\ LeaveFrame("ok") \in Frames
    BY <2>2, FrameBuilders DEF StatementsOf, LeaveFrame
  <2>4. /\ fs \in Seq(Frames) /\ 2 \in DOMAIN fs /\ fs[2] = LeaveFrame("ok")
        /\ \A i \in DOMAIN fs : i # 2 => fs[i] = CommandFrame(Frame.s.cmd)
    BY <2>3
  <2>5. \A i \in DOMAIN fs : i # 2 => fs[i].k \notin Keepers \cup LoopKinds
    BY <2>4, FrameKindsOf DEF Keepers, LoopKinds
  <2>6. Flags'
    BY <2>1, <2>2 DEF Flags, EffectsTyped, Signals
  <2>7. "stmt" \notin LoopKinds \cup {"return"}
    BY DEF LoopKinds
  <2> HIDE DEF fs
  <2> QED
    BY <2>1, <2>4, <2>5, <2>6, <2>7, ForkStep
<1>2. ASSUME ExecStmt, ~Frame.s.bg PROVE IInv'
  <2> DEFINE fs == << CommandFrame(Frame.s.cmd) >> \o IF Frame.s.neg THEN << [k |-> "negate"] >> ELSE << >>
  <2>1. /\ In("stmt") /\ Charge /\ status' = "unknown" /\ Become(fs)
        /\ UNCHANGED << prog, names, State, Depths >> /\ UNCHANGED << effs, top, ctl, guessed, mode >>
    BY <1>2 DEF ExecStmt, Result
  <2>2. Frame.s \in Syntax /\ Frame.s \in StatementsOf(Syntax) /\ budget' \in 0 .. StepBudget /\ Flags
    BY <2>1, Running, FrameFields, SyntaxParts, Charged
  <2>3. CommandFrame(Frame.s.cmd) \in Frames /\ [k |-> "negate"] \in Frames
    BY <2>2, FrameBuilders DEF StatementsOf
  <2>4. /\ fs \in Seq(Frames)
        /\ \A i \in DOMAIN fs : fs[i] \in {CommandFrame(Frame.s.cmd), [k |-> "negate"]}
    BY <2>3
  <2>5. \A i \in DOMAIN fs : fs[i].k \notin Keepers \cup LoopKinds
    BY <2>4, FrameKindsOf DEF Keepers, LoopKinds
  <2>6. Flags' /\ "stmt" \notin Keepers \cup LoopKinds
    BY <2>1, <2>2 DEF Flags, EffectsTyped, Keepers, LoopKinds
  <2> HIDE DEF fs
  <2> QED
    BY <2>1, <2>4, <2>5, <2>6, QuietBecome
<1>3. CASE Negate
  <2>1. /\ In("negate") /\ Return /\ UNCHANGED << prog, names, sigma, heap, loopDepth, depth >>
        /\ UNCHANGED << effs, top, ctl, budget, guessed, mode >>
        /\ status' = CASE status = "ok" -> "fail" [] status = "fail" -> "ok"
                       [] status = "unknown" -> "unknown"
    BY <1>3 DEF Negate, State, Result, Depths
  <2>2. sigma \in States /\ NamesTyped /\ Flags
    BY <2>1, Running
  <2>3. sigma' \in States /\ sigma'.arg = sigma.arg /\ NamesTyped' /\ Flags'
    BY <2>1, <2>2 DEF NamesTyped, Flags, EffectsTyped
  <2> QED
    BY <2>1, <2>3, QuietReturn DEF Keepers, LoopKinds
<1>4. CASE Leave
  <2>1. /\ In("leave") /\ Return /\ UNCHANGED << prog, names, heap, Depths >>
        /\ UNCHANGED << effs, top, budget, guessed, mode >>
        /\ sigma' = Frame.sigma /\ ctl' = Frame.ctl
        /\ status' = IF Frame.status = "kept" THEN status ELSE Frame.status
    BY <1>4 DEF Leave, Result
  <2>2. /\ Frame.k = "leave" /\ Frame.sigma \in States /\ Frame.ctl \in Signals
        /\ Frame.status \in {"ok", "kept"}
        /\ NamesTyped /\ Flags /\ heap \in Seq(Cells) /\ Len(heap) \in Nat
    BY <2>1, Running, FrameFields
  <2>3. Frame.sigma.arg \in Kept(Frame)
    BY <2>2, WhatIsKept
  <2>4. sigma' \in States /\ sigma'.arg \in 0 .. Len(heap') /\ Free(sigma'.arg, Tail(stack))
        /\ heap' \in Seq(Cells) /\ Len(heap') >= Len(heap)
    BY <2>1, <2>2, <2>3, OuterFree
  <2>5. NamesTyped' /\ Flags'
    BY <2>1, <2>2 DEF NamesTyped, Flags, EffectsTyped
  <2> QED
    BY <2>1, <2>4, <2>5, RestoreStep DEF LoopKinds
<1> QED
  BY <1>1, <1>2, <1>3, <1>4 DEF Statements

LEMMA CallsSteps ==
  ASSUME IInv, Calls
  PROVE  IInv'
<1>1. CASE CallFunction
  <2> DEFINE f == names.funcs[Dispatch(Frame.c).name]
             r == [k |-> "return", arg |-> sigma.arg]
             fs == << StmtFrame(f), r >>
  <2>1. /\ Resolves("function") /\ Command("run") /\ Charge /\ depth < MaxFuncDepth /\ depth' = depth + 1
        /\ heap' = IF sigma.arg = 0 THEN Append(heap, ArgumentCell(Frame.c.word))
                   ELSE [heap EXCEPT ![sigma.arg] = ArgumentCell(Frame.c.word)]
        /\ sigma' = [sigma EXCEPT !.arg = IF f.rebinds THEN 0
                                          ELSE IF sigma.arg = 0 THEN Len(heap) + 1 ELSE sigma.arg]
        /\ Become(fs) /\ UNCHANGED << prog, names, loopDepth >>
        /\ UNCHANGED << effs, top, ctl, status, guessed, mode >>
    BY <1>1 DEF CallFunction, Resolves, Result
  <2>2. /\ In("cmd") /\ Frame.c.word \in ShellWords /\ budget' \in 0 .. StepBudget
        /\ Flags /\ NamesTyped /\ sigma \in States /\ heap \in Seq(Cells) /\ Held(sigma)
        /\ loopDepth \in Nat /\ depth \in Nat
    BY <2>1, CommandRunning, CommandFields, Charged, Running
  <2>3. ArgumentCell(Frame.c.word) \in Cells
    BY <2>2, ArgumentTyped
  <2>4. f \in Syntax
    <3>1. Dispatch(Frame.c).kind = "function"
      BY <2>1 DEF Resolves
    <3>2. Dispatch(Frame.c).name \in DOMAIN names.funcs
      BY <3>1 DEF Dispatch, Function, Anything, Bound, BoundCall
    <3> QED
      BY <3>2, <2>2 DEF NamesTyped
  <2>5. StmtFrame(f) \in Frames /\ r \in Frames /\ StmtFrame(f).k = "stmt"
    BY <2>2, <2>4, FrameBuilders, FrameKindsOf DEF States
  <2> HIDE DEF f, r
  <2>6. /\ fs \in Seq(Frames) /\ Len(fs) = 2 /\ DOMAIN fs = {1, 2} /\ fs[1] = StmtFrame(f) /\ fs[2] = r
        /\ fs # << >>
    BY <2>5
  <2> HIDE DEF fs
  <2>7. /\ heap' \in Seq(Cells) /\ Len(heap') \in Nat /\ Len(heap') >= Len(heap) /\ Len(heap) \in Nat
        /\ sigma.arg \in 0 .. Len(heap)
        /\ sigma.arg = 0 => Len(heap') = Len(heap) + 1
    BY <2>1, <2>2, <2>3 DEF Held
  <2> DEFINE a == IF f.rebinds THEN 0 ELSE IF sigma.arg = 0 THEN Len(heap) + 1 ELSE sigma.arg
  <2>8. a \in Nat /\ a \in 0 .. Len(heap')
    BY <2>7
  <2>9. Free(a, Tail(stack)) /\ Free(sigma.arg, Tail(stack)) /\ Apart(sigma.arg, Tail(stack), Len(heap))
    BY <2>2, OuterFree
  <2> HIDE DEF a
  <2>10. sigma' = [sigma EXCEPT !.arg = a]
    BY <2>1 DEF a
  <2>11. sigma' \in States /\ sigma'.arg = a
    BY <2>2, <2>8, <2>10, SetArg
  <2>12. r.k = "return" /\ r.arg = sigma.arg
    BY DEF r
  <2>13. /\ SavedStates(fs[1]) = {} /\ Kept(fs[1]) = {}
         /\ SavedStates(fs[2]) = {} /\ Kept(fs[2]) = {sigma.arg}
    BY <2>5, <2>6, <2>12, KeepsNothing, WhatIsKept DEF Keepers
  <2>14. /\ \A i \in DOMAIN fs : Kept(fs[i]) \subseteq 0 .. Len(heap')
                                 /\ \A y \in Kept(fs[i]) : Free(y, Tail(stack))
         /\ Free(a, fs)
         /\ \A i \in DOMAIN fs : \A s \in SavedStates(fs[i]) :
              s.arg # 0 => \A j \in 1 .. i - 1 : s.arg \notin Kept(fs[j])
    BY <2>6, <2>7, <2>9, <2>13 DEF Free
  <2>15. Apart(a, fs \o Tail(stack), Len(heap'))
    BY <2>2, <2>6, <2>7, <2>8, <2>9, <2>14, Running, ApartAfterPush
  <2>16. NamesTyped' /\ Flags'
    BY <2>1, <2>2 DEF NamesTyped, Flags, EffectsTyped
  <2>17. \A i \in 1 .. Len(fs) - 1 : fs[i].k \notin LoopKinds \cup {"return"}
    BY <2>5, <2>6 DEF LoopKinds
  <2>18. /\ loopDepth' = (loopDepth - IF "cmd" \in LoopKinds THEN 1 ELSE 0)
                        + IF fs # << >> /\ fs[Len(fs)].k \in LoopKinds THEN 1 ELSE 0
         /\ depth' = (depth - IF "cmd" \in {"return"} THEN 1 ELSE 0)
                    + IF fs # << >> /\ fs[Len(fs)].k \in {"return"} THEN 1 ELSE 0
         /\ depth' <= MaxFuncDepth
    <3>1. fs # << >> /\ fs[Len(fs)].k = "return" /\ "return" \notin LoopKinds /\ "cmd" \notin LoopKinds
          /\ MaxFuncDepth \in Nat
      BY <2>6, <2>12, BoundsAssumption DEF LoopKinds
    <3> QED
      BY <3>1, <2>1, <2>2
  <2> QED
    BY <2>1, <2>2, <2>6, <2>7, <2>11, <2>15, <2>16, <2>17, <2>18, AnyStep DEF Become
<1>2. CASE RecursionLimit
  <2>1. /\ Command("run") /\ Charge /\ Return /\ effs' = effs \cup {TopEffect}
        /\ UNCHANGED << prog, names, sigma, heap, Depths >>
        /\ UNCHANGED << top, ctl, status, guessed, mode >>
    BY <1>2 DEF RecursionLimit, Resolves, State
  <2>2. budget' \in 0 .. StepBudget
    BY <2>1, CommandRunning, Charged
  <2>3. sigma' \in States /\ sigma'.arg = sigma.arg /\ NamesTyped' /\ Flags'
    BY <2>1, <2>2, CommandRunning, TopTyped DEF NamesTyped, Flags, EffectsTyped
  <2> QED
    BY <2>1, <2>3, QuietCommand
<1>3. CASE ReturnFromFunction
  <2> DEFINE fs == << >>
  <2>1. /\ In("return") /\ depth' = depth - 1 /\ sigma' = [sigma EXCEPT !.arg = Frame.arg] /\ Return
        /\ ctl' = IF ctl = "return" THEN "none" ELSE ctl
        /\ UNCHANGED << prog, names, heap, loopDepth >>
        /\ UNCHANGED << effs, top, status, budget, guessed, mode >>
    BY <1>3 DEF ReturnFromFunction, Result
  <2>2. /\ Frame.k = "return" /\ Frame.arg \in Nat /\ NamesTyped /\ Flags
        /\ sigma \in States /\ heap \in Seq(Cells) /\ loopDepth \in Nat /\ depth \in Nat
        /\ fs \in Seq(Frames) /\ stack' = fs \o Tail(stack) /\ fs = << >> /\ Len(fs) = 0
        /\ fs \o Tail(stack) = Tail(stack)
    BY <2>1, Running, FrameFields, HeadFrame DEF Return
  <2>3. Frame.arg \in Kept(Frame)
    BY <2>2, WhatIsKept
  <2>4. sigma' \in States /\ sigma'.arg = Frame.arg
    BY <2>1, <2>2, SetArg
  <2> HIDE DEF fs
  <2>5. Apart(sigma'.arg, fs \o Tail(stack), Len(heap'))
    BY <2>1, <2>2, <2>3, <2>4, OuterFree
  <2>6. NamesTyped' /\ Flags'
    BY <2>1, <2>2 DEF NamesTyped, Flags, EffectsTyped, Signals
  <2>7. depth <= MaxFuncDepth /\ MaxFuncDepth \in Nat
    BY BoundsAssumption DEF IInv, Counted
  <2>8. /\ loopDepth' = (loopDepth - IF "return" \in LoopKinds THEN 1 ELSE 0)
                        + IF fs # << >> /\ fs[Len(fs)].k \in LoopKinds THEN 1 ELSE 0
        /\ depth' = (depth - IF "return" \in {"return"} THEN 1 ELSE 0)
                    + IF fs # << >> /\ fs[Len(fs)].k \in {"return"} THEN 1 ELSE 0
        /\ depth' <= MaxFuncDepth
        /\ \A i \in 1 .. Len(fs) - 1 : fs[i].k \notin LoopKinds \cup {"return"}
    BY <2>1, <2>2, <2>7 DEF LoopKinds
  <2> QED
    BY <2>1, <2>2, <2>4, <2>5, <2>6, <2>8, AnyStep
<1> QED
  BY <1>1, <1>2, <1>3 DEF Calls

LEMMA GroupsSteps ==
  ASSUME IInv, Groups
  PROVE  IInv'
<1>1. CASE ExecBlock
  <2> DEFINE fs == << ListFrame(Frame.c.body) >>
  <2>1. /\ Command("block") /\ Become(fs) /\ UNCHANGED << prog, names, State, Depths >>
        /\ UNCHANGED << effs, top, ctl, status, budget, guessed, mode >>
    BY <1>1 DEF ExecBlock, Result
  <2>2. In("cmd") /\ ListFrame(Frame.c.body) \in Frames /\ Flags
    BY <2>1, CommandRunning, CommandFields, FrameBuilders
  <2>3. fs \in Seq(Frames) /\ \A i \in DOMAIN fs : fs[i] = ListFrame(Frame.c.body)
    BY <2>2
  <2>4. \A i \in DOMAIN fs : fs[i].k \notin Keepers \cup LoopKinds
    BY <2>3, FrameKindsOf DEF Keepers, LoopKinds
  <2>5. Flags' /\ "cmd" \notin Keepers \cup LoopKinds
    BY <2>1, <2>2 DEF Flags, EffectsTyped, Keepers, LoopKinds
  <2> HIDE DEF fs
  <2> QED
    BY <2>1, <2>2, <2>3, <2>4, <2>5, QuietBecome
<1>2. CASE ExecSubshell
  <2> DEFINE fs == << ListFrame(Frame.c.body), LeaveFrame("kept") >>
  <2>1. /\ Command("sub") /\ ctl' = "none" /\ Become(fs)
        /\ sigma' = CloneOf(sigma) /\ heap' = HeapWith(ArgCell(sigma))
        /\ UNCHANGED << prog, names, Depths >>
        /\ UNCHANGED << effs, top, status, budget, guessed, mode >>
    BY <1>2 DEF ExecSubshell, Result
  <2>2. In("cmd") /\ ListFrame(Frame.c.body) \in Frames /\ Flags /\ sigma \in States /\ ctl \in Signals
    BY <2>1, CommandRunning, CommandFields, FrameBuilders DEF Flags
  <2>3. LeaveFrame("kept") \in Frames
    BY <2>2, FrameBuilders DEF LeaveFrame
  <2>4. /\ fs \in Seq(Frames) /\ 2 \in DOMAIN fs /\ fs[2] = LeaveFrame("kept")
        /\ \A i \in DOMAIN fs : i # 2 => fs[i] = ListFrame(Frame.c.body)
    BY <2>2, <2>3
  <2>5. \A i \in DOMAIN fs : i # 2 => fs[i].k \notin Keepers \cup LoopKinds
    BY <2>4, FrameKindsOf DEF Keepers, LoopKinds
  <2>6. Flags' /\ "cmd" \notin LoopKinds \cup {"return"}
    BY <2>1, <2>2 DEF Flags, EffectsTyped, Signals, LoopKinds
  <2> HIDE DEF fs
  <2> QED
    BY <2>1, <2>2, <2>4, <2>5, <2>6, ForkStep
<1>3. CASE ExecPipeline
  <2> DEFINE fs == << PipeFrame(Frame.c.stages) >>
  <2>1. /\ Command("pipe") /\ Become(fs) /\ UNCHANGED << prog, names, State, Depths >>
        /\ UNCHANGED << effs, top, ctl, status, budget, guessed, mode >>
    BY <1>3 DEF ExecPipeline, Result
  <2>2. In("cmd") /\ PipeFrame(Frame.c.stages) \in Frames /\ Flags
    BY <2>1, CommandRunning, CommandFields, FrameBuilders
  <2>3. fs \in Seq(Frames) /\ \A i \in DOMAIN fs : fs[i] = PipeFrame(Frame.c.stages)
    BY <2>2
  <2>4. \A i \in DOMAIN fs : fs[i].k \notin Keepers \cup LoopKinds
    BY <2>3, FrameKindsOf DEF Keepers, LoopKinds
  <2>5. Flags' /\ "cmd" \notin Keepers \cup LoopKinds
    BY <2>1, <2>2 DEF Flags, EffectsTyped, Keepers, LoopKinds
  <2> HIDE DEF fs
  <2> QED
    BY <2>1, <2>2, <2>3, <2>4, <2>5, QuietBecome
<1>4. CASE PipeStage
  <2> DEFINE fs == << StmtFrame(Head(Frame.ss)), LeaveFrame("kept"), PipeFrame(Tail(Frame.ss)) >>
  <2>1. /\ In("pipe") /\ Frame.ss # << >> /\ ctl' = "none" /\ Become(fs)
        /\ sigma' = CloneOf(sigma) /\ heap' = HeapWith(ArgCell(sigma))
        /\ UNCHANGED << prog, names, Depths >>
        /\ UNCHANGED << effs, top, status, budget, guessed, mode >>
    BY <1>4 DEF PipeStage, Result
  <2>2. Frame.ss \in StmtLists /\ Flags /\ sigma \in States /\ ctl \in Signals
    BY <2>1, Running, FrameFields DEF Flags
  <2>3. Head(Frame.ss) \in Syntax /\ Tail(Frame.ss) \in StmtLists
    BY <2>1, <2>2 DEF StmtLists
  <2>4. /\ StmtFrame(Head(Frame.ss)) \in Frames /\ PipeFrame(Tail(Frame.ss)) \in Frames
        /\ LeaveFrame("kept") \in Frames
    BY <2>2, <2>3, FrameBuilders DEF LeaveFrame
  <2>5. /\ fs \in Seq(Frames) /\ 2 \in DOMAIN fs /\ fs[2] = LeaveFrame("kept")
        /\ \A i \in DOMAIN fs :
             i # 2 => fs[i] \in {StmtFrame(Head(Frame.ss)), PipeFrame(Tail(Frame.ss))}
    BY <2>4
  <2>6. \A i \in DOMAIN fs : i # 2 => fs[i].k \notin Keepers \cup LoopKinds
    BY <2>5, FrameKindsOf DEF Keepers, LoopKinds
  <2>7. Flags' /\ "pipe" \notin LoopKinds \cup {"return"}
    BY <2>1, <2>2 DEF Flags, EffectsTyped, Signals, LoopKinds
  <2> HIDE DEF fs
  <2> QED
    BY <2>1, <2>5, <2>6, <2>7, ForkStep
<1>5. CASE PipeEnd
  <2>1. /\ In("pipe") /\ Return /\ status' = "unknown"
        /\ UNCHANGED << prog, names, sigma, heap, loopDepth, depth >>
        /\ UNCHANGED << effs, top, ctl, budget, guessed, mode >>
    BY <1>5 DEF PipeEnd, State, Result, Depths
  <2>2. sigma \in States /\ NamesTyped /\ Flags
    BY <2>1, Running
  <2>3. sigma' \in States /\ sigma'.arg = sigma.arg /\ NamesTyped' /\ Flags'
    BY <2>1, <2>2 DEF NamesTyped, Flags, EffectsTyped
  <2> QED
    BY <2>1, <2>3, QuietReturn DEF Keepers, LoopKinds
<1> QED
  BY <1>1, <1>2, <1>3, <1>4, <1>5 DEF Groups

LEMMA AndOrsSteps ==
  ASSUME IInv, AndOrs
  PROVE  IInv'
<1>1. CASE ExecAndOr
  <2> DEFINE r == [k |-> "right", op |-> Frame.c.op, s |-> Frame.c.right]
             fs == << StmtFrame(Frame.c.left), r >>
  <2>1. /\ Command("and") \/ Command("or")
        /\ Become(fs) /\ UNCHANGED << prog, names, State, Depths >>
        /\ UNCHANGED << effs, top, ctl, status, budget, guessed, mode >>
    BY <1>1 DEF ExecAndOr, Result
  <2>2. /\ In("cmd") /\ Frame.c \in Commands(Syntax) /\ Frame.c.op \in {"and", "or"} /\ Flags
    BY <2>1, CommandRunning
  <2>3. StmtFrame(Frame.c.left) \in Frames /\ r \in Frames /\ r.k = "right"
    BY <2>2, CommandFields, FrameBuilders
  <2> HIDE DEF r
  <2>4. fs \in Seq(Frames) /\ \A i \in DOMAIN fs : fs[i] \in {StmtFrame(Frame.c.left), r}
    BY <2>3
  <2>5. \A i \in DOMAIN fs : fs[i].k \notin Keepers \cup LoopKinds
    BY <2>3, <2>4, FrameKindsOf DEF Keepers, LoopKinds
  <2>6. Flags' /\ "cmd" \notin Keepers \cup LoopKinds
    BY <2>1, <2>2 DEF Flags, EffectsTyped, Keepers, LoopKinds
  <2> HIDE DEF fs
  <2> QED
    BY <2>1, <2>2, <2>4, <2>5, <2>6, QuietBecome
<1>2. CASE RunRight
  <2> DEFINE fs == << StmtFrame(Frame.s) >>
  <2>1. /\ In("right") /\ Become(fs) /\ UNCHANGED << prog, names, State, Depths >>
        /\ UNCHANGED << effs, top, ctl, status, budget, guessed, mode >>
    BY <1>2 DEF RunRight, Result
  <2>2. StmtFrame(Frame.s) \in Frames /\ Flags
    BY <2>1, Running, FrameFields, FrameBuilders
  <2>3. fs \in Seq(Frames) /\ \A i \in DOMAIN fs : fs[i] = StmtFrame(Frame.s)
    BY <2>2
  <2>4. \A i \in DOMAIN fs : fs[i].k \notin Keepers \cup LoopKinds
    BY <2>3, FrameKindsOf DEF Keepers, LoopKinds
  <2>5. Flags' /\ "right" \notin Keepers \cup LoopKinds
    BY <2>1, <2>2 DEF Flags, EffectsTyped, Keepers, LoopKinds
  <2> HIDE DEF fs
  <2> QED
    BY <2>1, <2>3, <2>4, <2>5, QuietBecome
<1>3. CASE SkipRight
  <2>1. /\ In("right") /\ Return /\ UNCHANGED << prog, names, sigma, heap, loopDepth, depth >>
        /\ UNCHANGED << effs, top, ctl, status, budget, guessed, mode >>
    BY <1>3 DEF SkipRight, State, Result, Depths
  <2>2. sigma \in States /\ NamesTyped /\ Flags
    BY <2>1, Running
  <2>3. sigma' \in States /\ sigma'.arg = sigma.arg /\ NamesTyped' /\ Flags'
    BY <2>1, <2>2 DEF NamesTyped, Flags, EffectsTyped
  <2> QED
    BY <2>1, <2>3, QuietReturn DEF Keepers, LoopKinds
<1>4. CASE SpeculateRight
  <2> DEFINE r == [k |-> "speculated", ctl |-> ctl]
             fs == << StmtFrame(Frame.s), r >>
  <2>1. /\ In("right") /\ Become(fs) /\ ctl' = "none" /\ guessed' = TRUE
        /\ UNCHANGED << prog, names, State, Depths >>
        /\ UNCHANGED << effs, top, status, budget, mode >>
    BY <1>4 DEF SpeculateRight, Result
  <2>2. StmtFrame(Frame.s) \in Frames /\ Flags /\ ctl \in Signals
    BY <2>1, Running, FrameFields, FrameBuilders DEF Flags
  <2>3. r \in Frames /\ r.k = "speculated"
    BY <2>2, FrameBuilders
  <2> HIDE DEF r
  <2>4. fs \in Seq(Frames) /\ \A i \in DOMAIN fs : fs[i] \in {StmtFrame(Frame.s), r}
    BY <2>2, <2>3
  <2>5. \A i \in DOMAIN fs : fs[i].k \notin Keepers \cup LoopKinds
    BY <2>3, <2>4, FrameKindsOf DEF Keepers, LoopKinds
  <2>6. Flags' /\ "right" \notin Keepers \cup LoopKinds
    BY <2>1, <2>2 DEF Flags, EffectsTyped, Signals, Keepers, LoopKinds
  <2> HIDE DEF fs
  <2> QED
    BY <2>1, <2>4, <2>5, <2>6, QuietBecome
<1>5. CASE Speculated
  <2>1. /\ In("speculated") /\ Return /\ ctl' = Frame.ctl /\ status' = "unknown"
        /\ UNCHANGED << prog, names, sigma, heap, loopDepth, depth >>
        /\ UNCHANGED << effs, top, budget, guessed, mode >>
    BY <1>5 DEF Speculated, State, Result, Depths
  <2>2. sigma \in States /\ NamesTyped /\ Flags /\ Frame.ctl \in Signals
    BY <2>1, Running, FrameFields
  <2>3. sigma' \in States /\ sigma'.arg = sigma.arg /\ NamesTyped' /\ Flags'
    BY <2>1, <2>2 DEF NamesTyped, Flags, EffectsTyped
  <2> QED
    BY <2>1, <2>3, QuietReturn DEF Keepers, LoopKinds
<1> QED
  BY <1>1, <1>2, <1>3, <1>4, <1>5 DEF AndOrs

LEMMA ElementsTyped ==
  ASSUME NEW A, NEW s \in Seq(A)
  PROVE  \A i \in DOMAIN s : s[i] \in A
OBVIOUS

LEMMA CasesSteps ==
  ASSUME IInv, Cases
  PROVE  IInv'
<1>1. CASE TakeArm
  <2>1. PICK i \in Matching(Frame.c) : Become(<< ListFrame(Frame.c.items[i].body) >>)
    BY <1>1 DEF TakeArm
  <2> DEFINE fs == << ListFrame(Frame.c.items[i].body) >>
  <2>2. /\ Command("case") /\ UNCHANGED << prog, names, State, Depths >>
        /\ UNCHANGED << effs, top, ctl, status, budget, guessed, mode >>
    BY <1>1 DEF TakeArm, Result
  <2>3. /\ In("cmd") /\ Flags /\ Frame.c.items \in Seq([pats : SUBSET Targets, body : StmtLists])
        /\ i \in DOMAIN Frame.c.items
    BY <2>2, CommandRunning, CommandFields DEF Matching
  <2>4. Frame.c.items[i].body \in StmtLists
    <3>1. Frame.c.items[i] \in [pats : SUBSET Targets, body : StmtLists]
      BY <2>3, ElementsTyped
    <3> QED
      BY <3>1
  <2>5. ListFrame(Frame.c.items[i].body) \in Frames
    BY <2>4, FrameBuilders
  <2>6. fs \in Seq(Frames) /\ \A j \in DOMAIN fs : fs[j] = ListFrame(Frame.c.items[i].body)
    BY <2>5
  <2>7. \A j \in DOMAIN fs : fs[j].k \notin Keepers \cup LoopKinds
    BY <2>6, FrameKindsOf DEF Keepers, LoopKinds
  <2>8. Flags' /\ "cmd" \notin Keepers \cup LoopKinds
    BY <2>2, <2>3 DEF Flags, EffectsTyped, Keepers, LoopKinds
  <2>9. Become(fs)
    BY <2>1
  <2> HIDE DEF fs
  <2> QED
    BY <2>2, <2>3, <2>6, <2>7, <2>8, <2>9, QuietBecome
<1>2. CASE NoArm
  <2>1. /\ Command("case") /\ Return /\ status' = "ok"
        /\ UNCHANGED << prog, names, sigma, heap, Depths >>
        /\ UNCHANGED << effs, top, ctl, budget, guessed, mode >>
    BY <1>2 DEF NoArm, State, Result
  <2>2. sigma' \in States /\ sigma'.arg = sigma.arg /\ NamesTyped' /\ Flags'
    BY <2>1, CommandRunning DEF NamesTyped, Flags, EffectsTyped
  <2> QED
    BY <2>1, <2>2, QuietCommand
<1>3. CASE EveryArm
  <2> DEFINE ls == [i \in DOMAIN Frame.c.items |-> ListFrame(Frame.c.items[i].body)]
             m == << [k |-> "marktop"] >>
             fs == ls \o m
  <2>1. /\ Command("case") /\ Become(fs) /\ UNCHANGED << prog, names, State, Depths >>
        /\ UNCHANGED << effs, top, ctl, status, budget, guessed, mode >>
    BY <1>3 DEF EveryArm, Result
  <2>2. In("cmd") /\ Flags /\ Frame.c.items \in Seq([pats : SUBSET Targets, body : StmtLists])
    BY <2>1, CommandRunning, CommandFields
  <2>3. \A i \in DOMAIN Frame.c.items :
          ListFrame(Frame.c.items[i].body) \in Frames /\ ListFrame(Frame.c.items[i].body).k = "list"
    <3>1. \A i \in DOMAIN Frame.c.items :
            Frame.c.items[i] \in [pats : SUBSET Targets, body : StmtLists]
      BY <2>2, ElementsTyped
    <3>2. \A i \in DOMAIN Frame.c.items : Frame.c.items[i].body \in StmtLists
      BY <3>1
    <3> QED
      BY <3>2, FrameBuilders, FrameKindsOf
  <2> DEFINE Light == {f \in Frames : f.k \notin Keepers \cup LoopKinds}
  <2>4. ls \in Seq(Light)
    <3>1. \A i \in DOMAIN Frame.c.items : ListFrame(Frame.c.items[i].body) \in Light
      BY <2>3 DEF Keepers, LoopKinds
    <3>2. DOMAIN Frame.c.items = 1 .. Len(Frame.c.items) /\ Len(Frame.c.items) \in Nat
      BY <2>2
    <3> HIDE DEF Light
    <3> QED
      BY <3>1, <3>2
  <2>5. m \in Seq(Light)
    <3>1. [k |-> "marktop"] \in Light
      BY FrameBuilders DEF Keepers, LoopKinds
    <3> HIDE DEF Light
    <3> QED
      BY <3>1
  <2> HIDE DEF ls, m
  <2>6. fs \in Seq(Light)
    <3> HIDE DEF Light
    <3> QED
      BY <2>4, <2>5, ConcatElements
  <2> HIDE DEF fs
  <2>7. \A i \in DOMAIN fs : fs[i] \in Light
    <3> HIDE DEF Light
    <3> QED
      BY <2>6
  <2>8. fs \in Seq(Frames)
    <3>1. Light \subseteq Frames
      OBVIOUS
    <3> HIDE DEF Light
    <3> QED
      BY <3>1, <2>6, SeqGrows
  <2>9. Flags' /\ "cmd" \notin Keepers \cup LoopKinds
    BY <2>1, <2>2 DEF Flags, EffectsTyped, Keepers, LoopKinds
  <2> QED
    BY <2>1, <2>2, <2>7, <2>8, <2>9, QuietBecome
<1>4. CASE MarkCase
  <2>1. /\ In("marktop") /\ Return /\ top' = TRUE /\ effs' = effs \cup {TopEffect}
        /\ UNCHANGED << prog, names, sigma, heap, loopDepth, depth >>
        /\ UNCHANGED << ctl, status, budget, guessed, mode >>
    BY <1>4 DEF MarkCase, MarkTop, State, Depths
  <2>2. sigma \in States /\ NamesTyped /\ Flags
    BY <2>1, Running
  <2>3. sigma' \in States /\ sigma'.arg = sigma.arg /\ NamesTyped' /\ Flags'
    BY <2>1, <2>2, TopTyped DEF NamesTyped, Flags, EffectsTyped
  <2> QED
    BY <2>1, <2>3, QuietReturn DEF Keepers, LoopKinds
<1> QED
  BY <1>1, <1>2, <1>3, <1>4 DEF Cases

\* The frames of an if clause and of what an else leaves to try.
LEMMA ArmFrames ==
  ASSUME NEW arms \in ArmLists
  PROVE  /\ arms # << >> => /\ arms[1].cond \in StmtLists /\ arms[1].then \in StmtLists
                            /\ Tail(arms) \in ArmLists
                            /\ BranchFrames(arms) \in Seq(Frames)
                            /\ \A i \in DOMAIN BranchFrames(arms) :
                                 BranchFrames(arms)[i].k \notin Keepers \cup LoopKinds
         /\ ElseFrames(arms) \in Seq(Frames)
         /\ \A i \in DOMAIN ElseFrames(arms) : ElseFrames(arms)[i].k \notin Keepers \cup LoopKinds
<1>1. ASSUME arms # << >>
      PROVE  /\ arms[1].cond \in StmtLists /\ arms[1].then \in StmtLists
             /\ Tail(arms) \in ArmLists
  <2>1. 1 \in DOMAIN arms /\ Tail(arms) \in ArmLists
    BY <1>1 DEF ArmLists
  <2>2. arms[1] \in [cond : StmtLists, then : StmtLists]
    BY <2>1, ElementsTyped DEF ArmLists
  <2> QED
    BY <2>1, <2>2
<1>2. ASSUME arms # << >>
      PROVE  /\ BranchFrames(arms) \in Seq(Frames)
             /\ \A i \in DOMAIN BranchFrames(arms) :
                  BranchFrames(arms)[i].k \notin Keepers \cup LoopKinds
  <2> DEFINE f == ListFrame(arms[1].cond)
             g == [k |-> "branch", arms |-> arms]
  <2>1. f \in Frames /\ g \in Frames /\ f.k = "list" /\ g.k = "branch"
    BY <1>1, <1>2, FrameBuilders, FrameKindsOf
  <2>2. BranchFrames(arms) = << f, g >>
    BY DEF BranchFrames
  <2> HIDE DEF f, g
  <2> QED
    BY <2>1, <2>2 DEF Keepers, LoopKinds
<1>3. CASE arms = << >>
  <2>1. ElseFrames(arms) = << >> /\ << >> \in Seq(Frames) /\ DOMAIN << >> = {}
    BY <1>3 DEF ElseFrames
  <2> QED
    BY <2>1, <1>3
<1>4. CASE arms # << >> /\ arms[1].cond = << >>
  <2> DEFINE f == ListFrame(arms[1].then)
  <2>1. f \in Frames /\ f.k = "list"
    BY <1>1, <1>4, FrameBuilders, FrameKindsOf
  <2>2. ElseFrames(arms) = << f >>
    BY <1>4 DEF ElseFrames
  <2> HIDE DEF f
  <2>3. ElseFrames(arms) \in Seq(Frames)
        /\ \A i \in DOMAIN ElseFrames(arms) : ElseFrames(arms)[i].k \notin Keepers \cup LoopKinds
    BY <2>1, <2>2 DEF Keepers, LoopKinds
  <2> QED
    BY <2>3, <1>1, <1>2, <1>4
<1>5. CASE arms # << >> /\ arms[1].cond # << >>
  <2>1. ElseFrames(arms) = BranchFrames(arms)
    BY <1>5 DEF ElseFrames
  <2> QED
    BY <2>1, <1>1, <1>2, <1>5
<1> QED
  BY <1>3, <1>4, <1>5

LEMMA IfsSteps ==
  ASSUME IInv, Ifs
  PROVE  IInv'
<1>1. CASE ExecIf
  <2> DEFINE fs == BranchFrames(Frame.c.arms)
  <2>1. /\ Command("if") /\ Become(fs) /\ UNCHANGED << prog, names, State, Depths >>
        /\ UNCHANGED << effs, top, ctl, status, budget, guessed, mode >>
    BY <1>1 DEF ExecIf, Result
  <2>2. In("cmd") /\ Flags /\ Frame.c.arms \in ArmLists /\ Frame.c.arms # << >>
    BY <2>1, CommandRunning, CommandFields
  <2>3. fs \in Seq(Frames) /\ \A i \in DOMAIN fs : fs[i].k \notin Keepers \cup LoopKinds
    BY <2>2, ArmFrames
  <2>4. Flags' /\ "cmd" \notin Keepers \cup LoopKinds
    BY <2>1, <2>2 DEF Flags, EffectsTyped, Keepers, LoopKinds
  <2> HIDE DEF fs
  <2> QED
    BY <2>1, <2>2, <2>3, <2>4, QuietBecome
<1>2. CASE TakeThen
  <2> DEFINE fs == << ListFrame(Frame.arms[1].then) >>
  <2>1. /\ In("branch") /\ Become(fs) /\ UNCHANGED << prog, names, State, Depths >>
        /\ UNCHANGED << effs, top, ctl, status, budget, guessed, mode >>
    BY <1>2 DEF TakeThen, Result
  <2>2. Flags /\ Frame.arms \in ArmLists /\ Frame.arms # << >>
    BY <2>1, Running, FrameFields
  <2>3. ListFrame(Frame.arms[1].then) \in Frames
    BY <2>2, ArmFrames, FrameBuilders
  <2>4. fs \in Seq(Frames) /\ \A i \in DOMAIN fs : fs[i] = ListFrame(Frame.arms[1].then)
    BY <2>3
  <2>5. \A i \in DOMAIN fs : fs[i].k \notin Keepers \cup LoopKinds
    BY <2>4, FrameKindsOf DEF Keepers, LoopKinds
  <2>6. Flags' /\ "branch" \notin Keepers \cup LoopKinds
    BY <2>1, <2>2 DEF Flags, EffectsTyped, Keepers, LoopKinds
  <2> HIDE DEF fs
  <2> QED
    BY <2>1, <2>4, <2>5, <2>6, QuietBecome
<1>3. CASE TakeElse
  <2> DEFINE fs == ElseFrames(Tail(Frame.arms))
  <2>1. /\ In("branch") /\ Become(fs) /\ UNCHANGED << prog, names, State, Depths >>
        /\ status' = IF Len(Frame.arms) = 1 THEN "ok" ELSE status
        /\ UNCHANGED << effs, top, ctl, budget, guessed, mode >>
    BY <1>3 DEF TakeElse, Result
  <2>2. Flags /\ Frame.arms \in ArmLists /\ Frame.arms # << >>
    BY <2>1, Running, FrameFields
  <2>3. Tail(Frame.arms) \in ArmLists
    BY <2>2, ArmFrames
  <2>4. fs \in Seq(Frames) /\ \A i \in DOMAIN fs : fs[i].k \notin Keepers \cup LoopKinds
    BY <2>3, ArmFrames
  <2>5. Flags' /\ "branch" \notin Keepers \cup LoopKinds
    BY <2>1, <2>2 DEF Flags, EffectsTyped, Keepers, LoopKinds
  <2> HIDE DEF fs
  <2> QED
    BY <2>1, <2>4, <2>5, QuietBecome
<1>4. CASE SpeculateThen
  <2> DEFINE e == [k |-> "else", arms |-> Tail(Frame.arms), base |-> CloneOf(sigma), ctl |-> ctl]
             fs == << ListFrame(Frame.arms[1].then), e >>
  <2>1. /\ In("branch") /\ Become(fs) /\ heap' = HeapWith(ArgCell(sigma)) /\ ctl' = "none"
        /\ guessed' = TRUE /\ UNCHANGED << prog, names, Depths >>
        /\ UNCHANGED << sigma, effs, top, status, budget, mode >>
    BY <1>4 DEF SpeculateThen, Result
  <2>2. Flags /\ ctl \in Signals /\ Frame.arms \in ArmLists /\ Frame.arms # << >> /\ sigma \in States
    BY <2>1, Running, FrameFields DEF Flags
  <2> DEFINE c == CloneOf(sigma)
  <2>3. /\ c \in States /\ c.arg \in 0 .. Len(heap') /\ Free(c.arg, Tail(stack))
        /\ heap' \in Seq(Cells) /\ Len(heap') >= Len(heap)
        /\ sigma.arg # 0 => sigma.arg # c.arg
        /\ sigma.arg \in 0 .. Len(heap')
    BY <2>1, CloneTyped
  <2>4. Free(sigma.arg, Tail(stack))
    BY <2>1, OuterFree
  <2>5. ListFrame(Frame.arms[1].then) \in Frames /\ e \in Frames /\ e.k = "else" /\ e.base = c
    BY <2>2, <2>3, ArmFrames, FrameBuilders
  <2> HIDE DEF e, c
  <2>6. /\ fs \in Seq(Frames) /\ 2 \in DOMAIN fs /\ fs[2] = e
        /\ \A i \in DOMAIN fs : fs[i] \in {ListFrame(Frame.arms[1].then), e}
        /\ \A i \in DOMAIN fs : i # 2 => fs[i] = ListFrame(Frame.arms[1].then)
    BY <2>5
  <2>7. /\ \A i \in DOMAIN fs : fs[i].k \notin LoopKinds \cup {"return"}
        /\ \A i \in DOMAIN fs : i # 2 => fs[i].k \notin Keepers
        /\ "branch" \notin LoopKinds \cup {"return"}
    BY <2>5, <2>6, FrameKindsOf DEF Keepers, LoopKinds
  <2>8. SavedStates(e) = {c} /\ Kept(e) = {c.arg}
    BY <2>5, WhatIsKept
  <2>9. Flags'
    BY <2>1, <2>2 DEF Flags, EffectsTyped, Signals
  <2>10. /\ sigma' \in States /\ sigma'.arg \in 0 .. Len(heap') /\ Free(sigma'.arg, Tail(stack))
         /\ c.arg # 0 => c.arg # sigma'.arg
    BY <2>1, <2>2, <2>3, <2>4
  <2> HIDE DEF fs
  <2>11. SavedStates(fs[2]) = {c} /\ Kept(fs[2]) = {c.arg}
    BY <2>6, <2>8
  <2> QED
    BY <2>1, <2>3, <2>6, <2>7, <2>9, <2>10, <2>11, KeepStep
<1>5. CASE SpeculateElse
  <2> DEFINE es == ElseFrames(Frame.arms)
             j == [k |-> "join", then |-> sigma, ctl |-> Frame.ctl]
             fs == es \o << j >>
             p == Len(es) + 1
  <2>1. /\ In("else") /\ Become(fs) /\ sigma' = Frame.base /\ ctl' = "none"
        /\ UNCHANGED << prog, names, heap, Depths >>
        /\ UNCHANGED << effs, top, status, budget, guessed, mode >>
    BY <1>5 DEF SpeculateElse, Result
  <2>2. /\ Flags /\ Frame.arms \in ArmLists /\ Frame.base \in States /\ Frame.ctl \in Signals
        /\ sigma \in States /\ Frame.k = "else" /\ heap \in Seq(Cells) /\ Len(heap) \in Nat
        /\ stack # << >> /\ stack \in Seq(Frames) /\ Frame = Head(stack)
    BY <2>1, Running, FrameFields DEF Frame
  <2>3. SavedStates(Frame) = {Frame.base} /\ Kept(Frame) = {Frame.base.arg}
    BY <2>2, WhatIsKept
  <2>4. /\ sigma.arg \in 0 .. Len(heap) /\ Free(sigma.arg, Tail(stack))
        /\ Frame.base.arg \in 0 .. Len(heap) /\ Free(Frame.base.arg, Tail(stack))
    BY <2>1, <2>3, OuterFree
  <2>5. sigma.arg # 0 => sigma.arg # Frame.base.arg
    <3>1. 1 \in DOMAIN stack /\ stack[1] = Frame
      BY <2>2
    <3> QED
      BY <3>1, <2>3 DEF IInv, Apart, Free
  <2>6. j \in Frames /\ j.k = "join" /\ j.then = sigma
    BY <2>2, FrameBuilders
  <2>7. es \in Seq(Frames) /\ \A i \in DOMAIN es : es[i].k \notin Keepers \cup LoopKinds
    BY <2>2, ArmFrames
  <2> HIDE DEF j, es
  <2>8. /\ fs \in Seq(Frames) /\ p \in DOMAIN fs /\ fs[p] = j
        /\ \A i \in DOMAIN fs : i # p => i \in DOMAIN es /\ fs[i] = es[i]
    <3>1. << j >> \in Seq(Frames) /\ Len(<< j >>) = 1 /\ << j >>[1] = j
      BY <2>6
    <3>2. fs \in Seq(Frames) /\ Len(fs) = Len(es) + 1 /\ fs[Len(es) + 1] = j
          /\ \A i \in 1 .. Len(es) : fs[i] = es[i]
      BY <2>7, <3>1, ConcatElements
    <3>3. Len(es) \in Nat /\ DOMAIN es = 1 .. Len(es) /\ DOMAIN fs = 1 .. Len(fs)
      BY <2>7, <3>2
    <3> HIDE DEF fs
    <3> QED
      BY <3>2, <3>3
  <2> HIDE DEF fs, p
  <2>9. /\ \A i \in DOMAIN fs : i # p => fs[i].k \notin Keepers \cup LoopKinds
        /\ fs[p].k = "join"
    BY <2>6, <2>7, <2>8
  <2>10. /\ \A i \in DOMAIN fs : fs[i].k \notin LoopKinds \cup {"return"}
         /\ \A i \in DOMAIN fs : i # p => fs[i].k \notin Keepers
         /\ "else" \notin LoopKinds \cup {"return"}
    BY <2>9 DEF Keepers, LoopKinds
  <2>11. SavedStates(fs[p]) = {sigma} /\ Kept(fs[p]) = {sigma.arg}
    BY <2>6, <2>8, WhatIsKept
  <2>12. Flags'
    BY <2>1, <2>2 DEF Flags, EffectsTyped, Signals
  <2>13. /\ sigma' \in States /\ sigma'.arg \in 0 .. Len(heap') /\ Free(sigma'.arg, Tail(stack))
         /\ sigma.arg # 0 => sigma.arg # sigma'.arg
         /\ sigma.arg \in 0 .. Len(heap')
         /\ heap' \in Seq(Cells) /\ Len(heap') >= Len(heap)
    BY <2>1, <2>2, <2>4, <2>5
  <2> QED
    BY <2>1, <2>2, <2>4, <2>8, <2>10, <2>11, <2>12, <2>13, KeepStep
<1>6. CASE Join
  <2> DEFINE c == JoinCells(ArgCell(Frame.then), ArgCell(sigma))
  <2>1. /\ In("join") /\ Return /\ ctl' = Frame.ctl /\ status' = "unknown"
        /\ sigma' = [vars |-> JoinVars(Frame.then, sigma), arg |-> CellFor(c),
                     aliases |-> Frame.then.aliases]
        /\ heap' = HeapWith(c)
        /\ UNCHANGED << prog, names, Depths >> /\ UNCHANGED << effs, top, budget, guessed, mode >>
    BY <1>6 DEF Join, Result
  <2>2. /\ Flags /\ NamesTyped /\ Frame.then \in States /\ Frame.ctl \in Signals /\ Frame.k = "join"
        /\ sigma \in States /\ Held(sigma) /\ heap \in Seq(Cells) /\ Len(heap) \in Nat
    BY <2>1, Running, FrameFields
  <2>3. Held(Frame.then)
    <3>1. Frame.then.arg \in Kept(Frame)
      BY <2>2, WhatIsKept
    <3> QED
      BY <3>1, <2>1, <2>2, OuterFree DEF Held
  <2>4. c \in Cells
    BY <2>2, <2>3, ArgCellTyped, JoinedCells
  <2>5. JoinVars(Frame.then, sigma) \in [Vars -> Cells]
    <3>1. \A x \in Vars : JoinCells(Frame.then.vars[x], sigma.vars[x]) \in Cells
      BY <2>2, JoinedCells DEF States
    <3> QED
      BY <3>1 DEF JoinVars
  <2> HIDE DEF c
  <2>6. /\ HeapWith(c) \in Seq(Cells) /\ Len(HeapWith(c)) \in Nat /\ Len(HeapWith(c)) >= Len(heap)
        /\ CellFor(c) \in 0 .. Len(HeapWith(c))
        /\ CellFor(c) = 0 \/ CellFor(c) = Len(heap) + 1
    BY <2>2, <2>4, BindTyped
  <2>7. Free(CellFor(c), Tail(stack))
    BY <2>1, <2>6, OuterFree
  <2>8. CellFor(c) \in Nat /\ Frame.then.aliases \in [Names -> Names \cup {Nothing}]
    BY <2>2, <2>6 DEF States
  <2>9. sigma' \in States /\ sigma'.arg = CellFor(c)
    BY <2>1, <2>5, <2>8 DEF States
  <2>10. sigma'.arg \in 0 .. Len(heap') /\ Free(sigma'.arg, Tail(stack))
         /\ heap' \in Seq(Cells) /\ Len(heap') >= Len(heap)
    BY <2>1, <2>6, <2>7, <2>9
  <2>11. NamesTyped' /\ Flags'
    BY <2>1, <2>2 DEF NamesTyped, Flags, EffectsTyped
  <2> QED
    BY <2>1, <2>9, <2>10, <2>11, RestoreStep DEF LoopKinds
<1> QED
  BY <1>1, <1>2, <1>3, <1>4, <1>5, <1>6 DEF Ifs

\* A step of a loop, which keeps no state.
LEMMA LoopStep ==
  ASSUME IInv, NEW k, In(k), k \notin Keepers, NEW fs \in Seq(Frames), stack' = fs \o Tail(stack),
         \A i \in DOMAIN fs : fs[i].k \notin Keepers,
         \A i \in 1 .. Len(fs) - 1 : fs[i].k \notin LoopKinds,
         loopDepth' = (loopDepth - IF k \in LoopKinds THEN 1 ELSE 0)
                        + IF fs # << >> /\ fs[Len(fs)].k \in LoopKinds THEN 1 ELSE 0,
         sigma' \in States, sigma'.arg = sigma.arg,
         UNCHANGED << prog, names, heap, depth >>, Flags'
  PROVE  IInv'
<1>1. /\ Tail(stack) \in Seq(Frames) /\ NamesTyped /\ depth \in Nat /\ heap \in Seq(Cells)
      /\ Len(heap) \in Nat
  BY Running
<1>2. Apart(sigma.arg, Tail(stack), Len(heap)) /\ sigma.arg \in 0 .. Len(heap)
      /\ Free(sigma.arg, Tail(stack))
  BY OuterFree
<1>3. \A i \in DOMAIN fs : SavedStates(fs[i]) = {} /\ Kept(fs[i]) = {}
  BY KeepsNothing
<1>4. /\ \A i \in DOMAIN fs : Kept(fs[i]) \subseteq 0 .. Len(heap)
                             /\ \A y \in Kept(fs[i]) : Free(y, Tail(stack))
      /\ Free(sigma.arg, fs)
      /\ \A i \in DOMAIN fs : \A s \in SavedStates(fs[i]) :
           s.arg # 0 => \A j \in 1 .. i - 1 : s.arg \notin Kept(fs[j])
      /\ Len(heap) >= Len(heap)
  BY <1>1, <1>3 DEF Free
<1>5. Apart(sigma.arg, fs \o Tail(stack), Len(heap))
  BY <1>1, <1>2, <1>4, ApartAfterPush
<1>6. Apart(sigma'.arg, fs \o Tail(stack), Len(heap'))
  BY <1>5
<1>7. NamesTyped'
  BY <1>1 DEF NamesTyped
<1>8. /\ \A i \in DOMAIN fs : fs[i].k # "return"
      /\ k # "return" /\ depth <= MaxFuncDepth
  BY DEF Keepers, IInv, Counted
<1>9. /\ \A i \in 1 .. Len(fs) - 1 : i \in DOMAIN fs
      /\ fs # << >> => Len(fs) \in DOMAIN fs
  OBVIOUS
<1>10. /\ \A i \in 1 .. Len(fs) - 1 : fs[i].k \notin LoopKinds \cup {"return"}
       /\ depth' = (depth - IF k \in {"return"} THEN 1 ELSE 0)
                     + IF fs # << >> /\ fs[Len(fs)].k \in {"return"} THEN 1 ELSE 0
       /\ depth' <= MaxFuncDepth
  BY <1>1, <1>8, <1>9
<1>11. prog' = prog /\ heap' \in Seq(Cells)
  BY <1>1
<1> QED
  BY <1>6, <1>7, <1>10, <1>11, AnyStep

\* A loop starts, or goes on: its frame is the last one pushed.
LEMMA LoopGoesOn ==
  ASSUME IInv, NEW k, In(k), k \notin Keepers, NEW f \in Frames, f.k \in LoopKinds,
         NEW ss \in StmtLists, Become(<< f >>) \/ Become(<< ListFrame(ss), f >>),
         loopDepth' = IF k \in LoopKinds THEN loopDepth ELSE loopDepth + 1,
         sigma' \in States, sigma'.arg = sigma.arg,
         UNCHANGED << prog, names, heap, depth >>, Flags'
  PROVE  IInv'
<1>1. f.k \notin Keepers /\ ListFrame(ss) \in Frames /\ ListFrame(ss).k = "list"
      /\ "list" \notin Keepers \cup LoopKinds
  BY FrameBuilders, FrameKindsOf DEF Keepers, LoopKinds
<1>2. PICK fs \in {<< f >>, << ListFrame(ss), f >>} : Become(fs)
  OBVIOUS
<1> DEFINE g == ListFrame(ss)
<1>3. g \in Frames /\ g.k = "list"
  BY <1>1
<1> HIDE DEF g
<1>4. /\ fs \in Seq(Frames) /\ fs # << >> /\ fs[Len(fs)] = f
      /\ \A i \in DOMAIN fs : fs[i] \in {f, g}
      /\ \A i \in 1 .. Len(fs) - 1 : fs[i] = g
  <2>1. CASE fs = << f >>
    BY <2>1
  <2>2. CASE fs = << g, f >>
    BY <1>3, <2>2
  <2> QED
    BY <2>1, <2>2 DEF g
<1>5. /\ \A i \in DOMAIN fs : fs[i].k \notin Keepers
      /\ \A i \in 1 .. Len(fs) - 1 : fs[i].k \notin LoopKinds
  BY <1>1, <1>3, <1>4
<1>6. loopDepth \in Nat /\ stack' = fs \o Tail(stack)
  BY <1>2, Running DEF Become
<1>7. loopDepth' = (loopDepth - IF k \in LoopKinds THEN 1 ELSE 0)
                     + IF fs # << >> /\ fs[Len(fs)].k \in LoopKinds THEN 1 ELSE 0
  BY <1>4, <1>6
<1> QED
  BY <1>4, <1>5, <1>6, <1>7, LoopStep

LEMMA LoopEnds ==
  ASSUME IInv, NEW k \in LoopKinds, In(k), Return, loopDepth' = loopDepth - 1,
         UNCHANGED << prog, names, State, depth >>, Flags'
  PROVE  IInv'
<1> DEFINE fs == << >>
<1>1. fs \in Seq(Frames) /\ DOMAIN fs = {} /\ fs = << >> /\ Len(fs) = 0
  OBVIOUS
<1>2. stack' = fs \o Tail(stack) /\ loopDepth \in Nat /\ sigma \in States
  BY Running, HeadFrame DEF Return
<1>3. sigma' \in States /\ sigma'.arg = sigma.arg /\ heap' = heap /\ k \notin Keepers
  BY <1>2 DEF State, LoopKinds, Keepers
<1> HIDE DEF fs
<1>4. /\ \A i \in DOMAIN fs : fs[i].k \notin Keepers
      /\ \A i \in 1 .. Len(fs) - 1 : fs[i].k \notin LoopKinds
      /\ loopDepth' = (loopDepth - IF k \in LoopKinds THEN 1 ELSE 0)
                        + IF fs # << >> /\ fs[Len(fs)].k \in LoopKinds THEN 1 ELSE 0
  BY <1>1, <1>2
<1> QED
  BY <1>1, <1>2, <1>3, <1>4, LoopStep

\* The fields of the loops.
LEMMA LoopFields ==
  /\ \A c \in Whiles(Syntax) : c.cond \in StmtLists /\ c.body \in StmtLists
  /\ \A c \in Fors(Syntax) : c.body \in StmtLists /\ c.var \in Vars /\ c.words \in Seq(ShellWords)
BY DEF Whiles, Fors, StmtLists

LEMMA LoopsSteps ==
  ASSUME IInv, Loops
  PROVE  IInv'
<1>0. << >> \in StmtLists /\ "cmd" \notin Keepers /\ "cmd" \notin LoopKinds
  BY DEF StmtLists, Keepers, LoopKinds
<1>1. CASE ExecWhile
  <2> DEFINE f == LoopFrame(Frame.c, FALSE)
  <2>1. /\ Command("while") /\ Become(<< f >>) /\ loopDepth' = loopDepth + 1
        /\ UNCHANGED << prog, names, sigma, heap, depth >>
        /\ UNCHANGED << effs, top, ctl, status, budget, guessed, mode >>
    BY <1>1 DEF ExecWhile, State, Result
  <2>2. In("cmd") /\ Frame.c \in Whiles(Syntax) /\ Flags /\ sigma \in States
    BY <2>1, CommandRunning, CommandFields
  <2>3. f \in Frames /\ f.k \in LoopKinds
    BY <2>2, FrameBuilders, FrameKindsOf DEF LoopKinds
  <2>4. Flags' /\ sigma' \in States /\ sigma'.arg = sigma.arg
    BY <2>1, <2>2 DEF Flags, EffectsTyped
  <2> HIDE DEF f
  <2> QED
    BY <2>1, <2>2, <2>3, <2>4, <1>0, LoopGoesOn
<1>2. CASE TestLoop
  <2> DEFINE f == [Frame EXCEPT !.k = "test"]
             ss == Frame.c.cond
  <2>1. /\ In("loop") /\ Charge /\ Become(<< ListFrame(ss), f >>)
        /\ UNCHANGED << prog, names, sigma, heap, loopDepth, depth >>
        /\ UNCHANGED << effs, top, ctl, status, guessed, mode >>
    BY <1>2 DEF TestLoop, State, Result, Depths
  <2>2. /\ Frame \in LoopFrames /\ Frame.c \in Whiles(Syntax) /\ Flags /\ sigma \in States
        /\ budget' \in 0 .. StepBudget
    BY <2>1, Running, FrameFields, Charged
  <2>3. f \in Frames /\ f.k \in LoopKinds /\ ss \in StmtLists
    <3>1. f.k = "test"
      BY <2>2 DEF LoopFrames
    <3> QED
      BY <3>1, <2>2, FrameBuilders, LoopFields DEF LoopKinds
  <2>4. Flags' /\ sigma' \in States /\ sigma'.arg = sigma.arg
    BY <2>1, <2>2 DEF Flags, EffectsTyped
  <2>5. "loop" \in LoopKinds /\ "loop" \notin Keepers
    BY DEF LoopKinds, Keepers
  <2> HIDE DEF f, ss
  <2> QED
    BY <2>1, <2>3, <2>4, <2>5, LoopGoesOn
<1>3. CASE Iterate
  <2> DEFINE f == [k |-> "iterated", next |-> LoopFrame(Frame.c, TRUE)]
             ss == Frame.c.body
  <2>1. /\ In("test") /\ Become(<< ListFrame(ss), f >>)
        /\ UNCHANGED << prog, names, sigma, heap, loopDepth, depth >>
        /\ UNCHANGED << effs, top, ctl, status, budget, guessed, mode >>
    BY <1>3 DEF Iterate, State, Result, Depths
  <2>2. Frame.c \in Whiles(Syntax) /\ Flags /\ sigma \in States
    BY <2>1, Running, FrameFields
  <2>3. f \in Frames /\ f.k \in LoopKinds /\ ss \in StmtLists
    <3>1. LoopFrame(Frame.c, TRUE) \in LoopFrames
      BY <2>2, FrameBuilders
    <3>2. f.k = "iterated"
      OBVIOUS
    <3> QED
      BY <3>1, <3>2, <2>2, FrameBuilders, LoopFields DEF LoopKinds
  <2>4. Flags' /\ sigma' \in States /\ sigma'.arg = sigma.arg
    BY <2>1, <2>2 DEF Flags, EffectsTyped
  <2>5. "test" \in LoopKinds /\ "test" \notin Keepers
    BY DEF LoopKinds, Keepers
  <2> HIDE DEF f, ss
  <2> QED
    BY <2>1, <2>3, <2>4, <2>5, LoopGoesOn
<1>4. CASE LoopOver
  <2>1. /\ In("test") /\ Return /\ loopDepth' = loopDepth - 1
        /\ status' = IF Frame.ran THEN "unknown" ELSE "ok"
        /\ UNCHANGED << prog, names, State, depth >>
        /\ UNCHANGED << effs, top, ctl, budget, guessed, mode >>
    BY <1>4 DEF LoopOver, Result
  <2>2. Flags
    BY <2>1, Running
  <2>3. Flags' /\ "test" \in LoopKinds
    BY <2>1, <2>2 DEF Flags, EffectsTyped, LoopKinds
  <2> QED
    BY <2>1, <2>3, LoopEnds
<1>5. CASE WidenLoop
  <2> DEFINE f == [k |-> "widen"]
             ss == Frame.c.body
  <2>1. /\ In("test") /\ Become(<< ListFrame(ss), f >>) /\ guessed' = TRUE
        /\ UNCHANGED << prog, names, sigma, heap, loopDepth, depth >>
        /\ UNCHANGED << effs, top, ctl, status, budget, mode >>
    BY <1>5 DEF WidenLoop, State, Result, Depths
  <2>2. Frame.c \in Whiles(Syntax) /\ Flags /\ sigma \in States
    BY <2>1, Running, FrameFields
  <2>3. f \in Frames /\ f.k \in LoopKinds /\ ss \in StmtLists
    BY <2>2, FrameBuilders, LoopFields DEF LoopKinds
  <2>4. Flags' /\ sigma' \in States /\ sigma'.arg = sigma.arg
    BY <2>1, <2>2 DEF Flags, EffectsTyped
  <2>5. "test" \in LoopKinds /\ "test" \notin Keepers
    BY DEF LoopKinds, Keepers
  <2> HIDE DEF f, ss
  <2> QED
    BY <2>1, <2>3, <2>4, <2>5, LoopGoesOn
<1>6. CASE Widened
  <2>1. /\ In("widen") /\ Return /\ loopDepth' = loopDepth - 1
        /\ top' = TRUE /\ effs' = effs \cup {TopEffect} /\ ctl' = AfterBody
        /\ UNCHANGED << prog, names, State, depth >>
        /\ UNCHANGED << status, budget, guessed, mode >>
    BY <1>6 DEF Widened, MarkTop
  <2>2. Flags
    BY <2>1, Running
  <2>3. Flags' /\ "widen" \in LoopKinds
    BY <2>1, <2>2, TopTyped DEF Flags, EffectsTyped, LoopKinds, AfterBody, Signals
  <2> QED
    BY <2>1, <2>3, LoopEnds
<1>7. CASE NextIteration
  <2> DEFINE f == Frame.next
  <2>1. /\ In("iterated") /\ Become(<< f >>) /\ ctl' = AfterBody
        /\ UNCHANGED << prog, names, sigma, heap, loopDepth, depth >>
        /\ UNCHANGED << effs, top, status, budget, guessed, mode >>
    BY <1>7 DEF NextIteration, State, Result, Depths
  <2>2. f \in LoopFrames \cup ForFrames /\ Flags /\ sigma \in States
    BY <2>1, Running, FrameFields
  <2>3. f \in Frames /\ f.k \in LoopKinds
    <3>1. f.k \in LoopKinds
      BY <2>2 DEF LoopFrames, ForFrames, LoopKinds
    <3> QED
      BY <3>1, <2>2, FrameBuilders
  <2>4. Flags' /\ sigma' \in States /\ sigma'.arg = sigma.arg
    BY <2>1, <2>2 DEF Flags, EffectsTyped, AfterBody, Signals
  <2>5. "iterated" \in LoopKinds /\ "iterated" \notin Keepers
    BY DEF LoopKinds, Keepers
  <2> HIDE DEF f
  <2> QED
    BY <2>1, <2>3, <2>4, <2>5, <1>0, LoopGoesOn
<1>8. CASE LeaveLoop
  <2>1. /\ In("iterated") /\ Return /\ loopDepth' = loopDepth - 1 /\ ctl' = AfterBody
        /\ UNCHANGED << prog, names, State, depth >>
        /\ UNCHANGED << effs, top, status, budget, guessed, mode >>
    BY <1>8 DEF LeaveLoop, Result
  <2>2. Flags
    BY <2>1, Running
  <2>3. Flags' /\ "iterated" \in LoopKinds
    BY <2>1, <2>2 DEF Flags, EffectsTyped, LoopKinds, AfterBody, Signals
  <2> QED
    BY <2>1, <2>3, LoopEnds
<1>9. CASE ExecFor
  <2> DEFINE vs == [i \in DOMAIN Frame.c.words |-> Expand(Frame.c.words[i]).value]
             f == ForFrame(Frame.c, vs)
  <2>1. /\ Command("for") /\ Charge /\ Become(<< f >>) /\ loopDepth' = loopDepth + 1
        /\ status' = IF Frame.c.words = << >> THEN "ok" ELSE status
        /\ UNCHANGED << prog, names, sigma, heap, depth >>
        /\ UNCHANGED << effs, top, ctl, guessed, mode >>
    BY <1>9 DEF ExecFor, State, Result
  <2>2. /\ In("cmd") /\ Frame.c \in Fors(Syntax) /\ Flags /\ sigma \in States
        /\ Held(sigma) /\ heap \in Seq(Cells)
    BY <2>1, CommandRunning, CommandFields
  <2>3. budget' \in 0 .. StepBudget
    BY <2>1, <2>2, Charged
  <2>4. vs \in Seq(Targets)
    <3>1. Frame.c.words \in Seq(ShellWords)
      BY <2>2, LoopFields
    <3>2. \A i \in DOMAIN Frame.c.words : Frame.c.words[i] \in ShellWords
      BY <3>1, ElementsTyped
    <3>3. \A i \in DOMAIN Frame.c.words : Expand(Frame.c.words[i]).value \in Targets
      BY <3>2, <2>2, ExpandTyped
    <3>4. DOMAIN Frame.c.words = 1 .. Len(Frame.c.words) /\ Len(Frame.c.words) \in Nat
      BY <3>1
    <3> QED
      BY <3>3, <3>4
  <2> HIDE DEF vs
  <2>5. f \in Frames /\ f.k \in LoopKinds
    BY <2>2, <2>4, FrameBuilders, FrameKindsOf DEF LoopKinds
  <2>6. Flags' /\ sigma' \in States /\ sigma'.arg = sigma.arg
    BY <2>1, <2>2, <2>3 DEF Flags, EffectsTyped
  <2> HIDE DEF f
  <2> QED
    BY <2>1, <2>2, <2>5, <2>6, <1>0, LoopGoesOn
<1>10. CASE ForNext
  <2> DEFINE c == KnownCell(Head(Frame.vals), FlatOf({}))
             f == [k |-> "iterated", next |-> ForFrame(Frame.c, Tail(Frame.vals))]
             ss == Frame.c.body
  <2>1. /\ In("for") /\ Charge /\ Become(<< ListFrame(ss), f >>) /\ Frame.vals # << >>
        /\ sigma' = [sigma EXCEPT !.vars[Frame.c.var] = c]
        /\ UNCHANGED << prog, names, heap, loopDepth, depth >>
        /\ UNCHANGED << effs, top, ctl, status, guessed, mode >>
    BY <1>10 DEF ForNext, Result, Depths
  <2>2. /\ Frame.c \in Fors(Syntax) /\ Frame.vals \in Seq(Targets) /\ Flags /\ sigma \in States
        /\ budget' \in 0 .. StepBudget
    BY <2>1, Running, FrameFields, Charged
  <2>3. f \in Frames /\ f.k \in LoopKinds /\ ss \in StmtLists
    <3>1. Tail(Frame.vals) \in Seq(Targets)
      BY <2>1, <2>2
    <3>2. ForFrame(Frame.c, Tail(Frame.vals)) \in ForFrames
      BY <3>1, <2>2, FrameBuilders
    <3>3. f.k = "iterated"
      OBVIOUS
    <3> QED
      BY <3>2, <3>3, <2>2, FrameBuilders, LoopFields DEF LoopKinds
  <2>4. c \in Cells
    <3>1. Head(Frame.vals) \in Targets
      BY <2>1, <2>2
    <3> QED
      BY <3>1, CellBuilders
  <2> HIDE DEF c
  <2>5. Frame.c.var \in Vars
    BY <2>2, LoopFields
  <2>6. sigma' \in States /\ sigma'.arg = sigma.arg
    BY <2>1, <2>2, <2>4, <2>5, SetVariable
  <2>7. Flags'
    BY <2>1, <2>2 DEF Flags, EffectsTyped
  <2>8. "for" \in LoopKinds /\ "for" \notin Keepers
    BY DEF LoopKinds, Keepers
  <2> HIDE DEF f, ss
  <2> QED
    BY <2>1, <2>3, <2>6, <2>7, <2>8, LoopGoesOn
<1>11. CASE ForOver
  <2>1. /\ In("for") /\ Return /\ loopDepth' = loopDepth - 1
        /\ UNCHANGED << prog, names, State, depth >>
        /\ UNCHANGED << effs, top, ctl, status, budget, guessed, mode >>
    BY <1>11 DEF ForOver, Result
  <2>2. Flags
    BY <2>1, Running
  <2>3. Flags' /\ "for" \in LoopKinds
    BY <2>1, <2>2 DEF Flags, EffectsTyped, LoopKinds
  <2> QED
    BY <2>1, <2>3, LoopEnds
<1>12. CASE WidenFor
  <2> DEFINE c == UnknownCell(FlatOf({}))
             f == [k |-> "widen"]
             ss == Frame.c.body
  <2>1. /\ Command("for") /\ Charge /\ Become(<< ListFrame(ss), f >>) /\ loopDepth' = loopDepth + 1
        /\ sigma' = [sigma EXCEPT !.vars[Frame.c.var] = c]
        /\ UNCHANGED << prog, names, heap, depth >>
        /\ UNCHANGED << effs, top, ctl, status, guessed, mode >>
    BY <1>12 DEF WidenFor, Result
  <2>2. In("cmd") /\ Frame.c \in Fors(Syntax) /\ Flags /\ sigma \in States
    BY <2>1, CommandRunning, CommandFields
  <2>3. budget' \in 0 .. StepBudget
    BY <2>1, <2>2, Charged
  <2>4. f \in Frames /\ f.k \in LoopKinds /\ ss \in StmtLists
    BY <2>2, FrameBuilders, LoopFields DEF LoopKinds
  <2>5. c \in Cells /\ Frame.c.var \in Vars
    BY <2>2, LoopFields, CellBuilders
  <2> HIDE DEF c
  <2>6. sigma' \in States /\ sigma'.arg = sigma.arg
    BY <2>1, <2>2, <2>5, SetVariable
  <2>7. Flags'
    BY <2>1, <2>2, <2>3 DEF Flags, EffectsTyped
  <2> HIDE DEF f, ss
  <2> QED
    BY <2>1, <2>2, <2>4, <2>6, <2>7, <1>0, LoopGoesOn
<1> QED
  BY <1>1, <1>2, <1>3, <1>4, <1>5, <1>6, <1>7, <1>8, <1>9, <1>10, <1>11, <1>12 DEF Loops

LEMMA EndsSteps ==
  ASSUME IInv, Ends
  PROVE  IInv'
<1>1. CASE BudgetExhausted
  <2>1. /\ mode' = "done" /\ stack' = << >> /\ budget' = 0
        /\ top' = TRUE /\ effs' = effs \cup {TopEffect}
        /\ UNCHANGED << prog, names, sigma, heap, loopDepth, depth >>
        /\ UNCHANGED << ctl, status, guessed >>
    BY <1>1 DEF BudgetExhausted, MarkTop, State, Depths
  <2>2. Typed'
    <3>1. Flags'
      BY <2>1, TopTyped, BoundsAssumption DEF IInv, Typed, Flags, EffectsTyped
    <3>2. << >> \in Seq(Frames)
      OBVIOUS
    <3> QED
      BY <2>1, <3>1, <3>2 DEF IInv, Typed, NamesTyped
  <2>3. Apart(sigma'.arg, << >>, Len(heap'))
    <3>1. sigma.arg \in 0 .. Len(heap) /\ DOMAIN << >> = {}
      BY DEF IInv, Apart
    <3> QED
      BY <2>1, <3>1 DEF Apart, Free
  <2>4. Counted'
    BY <2>1 DEF IInv, Counted
  <2> QED
    BY <2>1, <2>2, <2>3, <2>4 DEF IInv
<1>2. CASE Finish
  <2>1. /\ mode' = "done"
        /\ UNCHANGED << prog, names, stack, sigma, heap, loopDepth, depth >>
        /\ UNCHANGED << effs, top, ctl, status, budget, guessed >>
    BY <1>2 DEF Finish, State, Result, Depths
  <2>2. Typed'
    BY <2>1 DEF IInv, Typed, NamesTyped, Flags, EffectsTyped
  <2>3. Counted'
    BY <2>1 DEF IInv, Counted
  <2> QED
    BY <2>1, <2>2, <2>3 DEF IInv
<1> QED
  BY <1>1, <1>2 DEF Ends

LEMMA InitIInv ==
  ASSUME ExecInit
  PROVE  IInv
<1> DEFINE f == ListFrame(prog.body)
<1>1. /\ prog \in Programs /\ stack = << f >> /\ heap = << >> /\ effs = {} /\ top = FALSE
      /\ ctl = "none" /\ status = "ok" /\ loopDepth = 0 /\ depth = 0 /\ budget = StepBudget
      /\ guessed = FALSE /\ mode = "analyse"
      /\ sigma = [vars |-> [x \in Vars |-> Absent], arg |-> 0,
                  aliases |-> [n \in Names |-> Nothing]]
      /\ names = [funcs |-> prog.funcs, hash |-> [n \in Names |-> Nothing],
                  hashOpaque |-> FALSE, aliasOpaque |-> FALSE]
  BY DEF ExecInit
<1>2. prog.body \in StmtLists /\ prog.funcs \in [DOMAIN prog.funcs -> Syntax]
  BY <1>1, ProgramParts
<1>3. f \in Frames /\ f.k = "list"
  BY <1>2, FrameBuilders, FrameKindsOf
<1> HIDE DEF f
<1>4. stack \in Seq(Frames) /\ Len(stack) = 1 /\ stack[1] = f /\ DOMAIN stack = {1}
  BY <1>1, <1>3
<1>5. sigma \in States /\ sigma.arg = 0
  BY <1>1, CellBuilders DEF States
<1>6. heap \in Seq(Cells) /\ Len(heap) = 0
  BY <1>1
<1>7. NamesTyped
  BY <1>1, <1>2 DEF NamesTyped
<1>8. Flags
  <2>1. budget \in 0 .. StepBudget
    BY <1>1, BoundsAssumption
  <2>2. EffectsTyped
    BY <1>1 DEF EffectsTyped
  <2>3. /\ top \in BOOLEAN /\ guessed \in BOOLEAN /\ ctl \in Signals
        /\ status \in {"ok", "fail", "unknown"} /\ mode \in {"analyse", "done"}
    BY <1>1 DEF Signals
  <2> QED
    BY <2>1, <2>2, <2>3 DEF Flags
<1>9. SavedStates(f) = {} /\ Kept(f) = {}
  BY <1>3, KeepsNothing DEF Keepers
<1>10. Apart(sigma.arg, stack, Len(heap))
  BY <1>4, <1>5, <1>6, <1>9 DEF Apart, Free
<1>11. \A K : f.k \notin K => Counts(stack, K, 0)
  <2> SUFFICES ASSUME NEW K, f.k \notin K PROVE Counts(stack, K, 0)
    OBVIOUS
  <2> DEFINE c == [i \in 1 .. Len(stack) + 1 |-> 0]
  <2>1. /\ c \in [1 .. Len(stack) + 1 -> Nat] /\ c[1] = 0 /\ c[Len(stack) + 1] = 0
        /\ \A i \in 1 .. Len(stack) : c[i] = c[i + 1] + IF stack[i].k \in K THEN 1 ELSE 0
    BY <1>4
  <2> HIDE DEF c
  <2> QED
    BY <2>1 DEF Counts
<1>12. f.k \notin LoopKinds /\ f.k \notin {"return"}
  BY <1>3 DEF LoopKinds
<1>13. Counted
  BY <1>1, <1>11, <1>12, BoundsAssumption DEF Counted
<1> QED
  BY <1>1, <1>4, <1>5, <1>6, <1>7, <1>8, <1>10, <1>13 DEF IInv, Typed

LEMMA NextIInv ==
  ASSUME IInv, [Exec]_<<prog, execVars>>
  PROVE  IInv'
<1>1. CASE Exec
  BY <1>1, EndsSteps, ListSteps, StatementsSteps, SimpleSteps, TablesSteps, CallsSteps,
     GroupsSteps, AndOrsSteps, IfsSteps, LoopsSteps, CasesSteps DEF Exec
<1>2. CASE UNCHANGED <<prog, execVars>>
  BY <1>2 DEF execVars, IInv, Typed, NamesTyped, Flags, EffectsTyped, Counted
<1> QED
  BY <1>1, <1>2

\* The invariant gives the types and the isolation.
LEMMA IInvGives ==
  ASSUME IInv
  PROVE  TypeOK /\ Isolated
<1>1. /\ stack \in Seq(Frames) /\ sigma \in States /\ heap \in Seq(Cells) /\ NamesTyped /\ Flags
      /\ Apart(sigma.arg, stack, Len(heap))
  BY DEF IInv, Typed
<1>2. ASSUME NEW s \in States, s.arg \in 0 .. Len(heap) PROVE IsState(s)
  BY <1>2 DEF States, IsState
<1>3. ASSUME NEW i \in DOMAIN stack
      PROVE  stack[i].k \in FrameKinds /\ \A s \in SavedStates(stack[i]) : IsState(s)
  <2>1. stack[i] \in Frames
    BY <1>1, ElementsTyped
  <2>2. stack[i].k \in FrameKinds
    BY <2>1, FrameFields
  <2>3. \A s \in SavedStates(stack[i]) : s \in States
    BY <2>1, FrameFields DEF SavedStates
  <2>4. \A s \in SavedStates(stack[i]) : s.arg \in 0 .. Len(heap)
    BY <1>1, SavedIsKept DEF Apart
  <2> QED
    BY <2>2, <2>3, <2>4, <1>2
<1>4. IsState(sigma)
  BY <1>1, <1>2 DEF Apart
<1>5. /\ DOMAIN names.funcs = DOMAIN prog.funcs
      /\ \A n \in Names : names.hash[n] \in Names \cup {Nothing, Unresolved}
      /\ names.hashOpaque \in BOOLEAN /\ names.aliasOpaque \in BOOLEAN
  BY <1>1 DEF NamesTyped
<1>6. loopDepth \in Nat /\ depth \in 0 .. MaxFuncDepth
  BY DEF IInv, Counted
<1>7. TypeOK
  BY <1>1, <1>3, <1>4, <1>5, <1>6 DEF TypeOK, Flags, EffectsTyped
<1>8. Isolated
  BY <1>1 DEF Isolated, Apart, Free
<1> QED
  BY <1>7, <1>8

-----------------------------------------------------------------------------
\* What a silent result stands for

\* While the interpreter runs it has budget left; a run that does not say that
\* anything may happen has come to the end of the program.
Complete ==
  /\ mode = "analyse" => budget > 0
  /\ mode = "done" /\ ~top => budget > 0 /\ stack = << >> /\ loopDepth = 0 /\ depth = 0

\* A step either ends the run, or leaves the budget alone or charges it.
LEMMA BudgetSteps ==
  ASSUME Exec
  PROVE  \/ Ends
         \/ mode' = mode /\ (budget' = budget \/ \E k : In(k) /\ Charge)
<1>1. CASE Lists
  BY <1>1 DEF Lists, EndOfList, ResetStraySignal, StopList, NextStmt
<1>2. CASE Statements
  BY <1>2 DEF Statements, ExecStmt, Negate, Leave
<1>3. CASE Simple
  BY <1>3 DEF Simple, Assign, KnownStatus, RaiseSignal, RunProgram, RunAnything, Declare,
              Command, Resolves
<1>4. CASE Tables
  BY <1>4 DEF Tables, DeclareAlias, RemoveAlias, BindHash, ForgetHash, AssignPath,
              SetArguments, ShiftArguments, UnsetVariable, Command
<1>5. CASE Calls
  BY <1>5 DEF Calls, CallFunction, RecursionLimit, ReturnFromFunction, Command, Resolves
<1>6. CASE Groups
  BY <1>6 DEF Groups, ExecBlock, ExecSubshell, ExecPipeline, PipeStage, PipeEnd
<1>7. CASE AndOrs
  BY <1>7 DEF AndOrs, ExecAndOr, RunRight, SkipRight, SpeculateRight, Speculated
<1>8. CASE Ifs
  BY <1>8 DEF Ifs, ExecIf, TakeThen, TakeElse, SpeculateThen, SpeculateElse, Join
<1>9. CASE Loops
  BY <1>9 DEF Loops, ExecWhile, TestLoop, Iterate, LoopOver, WidenLoop, Widened,
              NextIteration, LeaveLoop, ExecFor, ForNext, ForOver, WidenFor, Command
<1>10. CASE Cases
  BY <1>10 DEF Cases, TakeArm, NoArm, EveryArm, MarkCase
<1> QED
  BY <1>1, <1>2, <1>3, <1>4, <1>5, <1>6, <1>7, <1>8, <1>9, <1>10 DEF Exec

\* The steps happen before the run is over.
LEMMA OnlyWhileAnalysing ==
  ASSUME Exec
  PROVE  mode = "analyse"
<1> USE DEF In, Command, Resolves
<1>1. CASE Ends
  BY <1>1 DEF Ends, BudgetExhausted, Finish
<1>2. CASE Lists
  BY <1>2 DEF Lists, EndOfList, ResetStraySignal, StopList, NextStmt
<1>3. CASE Statements
  BY <1>3 DEF Statements, ExecStmt, Negate, Leave
<1>4. CASE Simple
  BY <1>4 DEF Simple, Assign, KnownStatus, RaiseSignal, RunProgram, RunAnything, Declare
<1>5. CASE Tables
  BY <1>5 DEF Tables, DeclareAlias, RemoveAlias, BindHash, ForgetHash, AssignPath,
              SetArguments, ShiftArguments, UnsetVariable
<1>6. CASE Calls
  BY <1>6 DEF Calls, CallFunction, RecursionLimit, ReturnFromFunction
<1>7. CASE Groups
  BY <1>7 DEF Groups, ExecBlock, ExecSubshell, ExecPipeline, PipeStage, PipeEnd
<1>8. CASE AndOrs
  BY <1>8 DEF AndOrs, ExecAndOr, RunRight, SkipRight, SpeculateRight, Speculated
<1>9. CASE Ifs
  BY <1>9 DEF Ifs, ExecIf, TakeThen, TakeElse, SpeculateThen, SpeculateElse, Join
<1>10. CASE Loops
  BY <1>10 DEF Loops, ExecWhile, TestLoop, Iterate, LoopOver, WidenLoop, Widened,
               NextIteration, LeaveLoop, ExecFor, ForNext, ForOver, WidenFor
<1>11. CASE Cases
  BY <1>11 DEF Cases, TakeArm, NoArm, EveryArm, MarkCase
<1> QED
  BY <1>1, <1>2, <1>3, <1>4, <1>5, <1>6, <1>7, <1>8, <1>9, <1>10, <1>11 DEF Exec

\* Nothing is counted on an empty stack.
LEMMA EmptyCounts ==
  ASSUME NEW K, NEW n, Counts(<< >>, K, n)
  PROVE  n = 0
<1>1. PICK c \in [1 .. Len(<< >>) + 1 -> Nat] : c[1] = n /\ c[Len(<< >>) + 1] = 0
  BY DEF Counts
<1>2. Len(<< >>) + 1 = 1
  OBVIOUS
<1> QED
  BY <1>1, <1>2

LEMMA NextComplete ==
  ASSUME IInv, Complete, [Exec]_<<prog, execVars>>
  PROVE  Complete'
<1>1. CASE UNCHANGED <<prog, execVars>>
  BY <1>1 DEF execVars, Complete
<1>2. CASE BudgetExhausted
  BY <1>2 DEF BudgetExhausted, MarkTop, Complete
<1>3. CASE Finish
  <2>1. /\ mode = "analyse" /\ mode' = "done" /\ stack = << >>
        /\ UNCHANGED << stack, budget, loopDepth, depth >>
    BY <1>3 DEF Finish, Depths
  <2>2. Counts(<< >>, LoopKinds, loopDepth) /\ Counts(<< >>, {"return"}, depth)
    BY <2>1 DEF IInv, Counted
  <2>3. loopDepth = 0 /\ depth = 0
    BY <2>2, EmptyCounts
  <2> QED
    BY <2>1, <2>3 DEF Complete
<1>4. CASE Exec /\ ~Ends
  <2>1. mode = "analyse" /\ mode' = "analyse"
    BY <1>4, BudgetSteps, OnlyWhileAnalysing
  <2>2. budget' > 0
    BY <1>4, <2>1, BudgetSteps, Charged DEF Complete
  <2> QED
    BY <2>1, <2>2 DEF Complete
<1> QED
  BY <1>1, <1>2, <1>3, <1>4 DEF Ends

-----------------------------------------------------------------------------
\* What the report keeps

\* No step takes an effect, or the mark that anything may happen, back.
LEMMA ReportSteps ==
  ASSUME Exec
  PROVE  effs \subseteq effs' /\ (top => top')
<1> USE DEF Result
<1>1. CASE Ends
  BY <1>1 DEF Ends, BudgetExhausted, Finish, MarkTop
<1>2. CASE Lists
  BY <1>2 DEF Lists, EndOfList, ResetStraySignal, StopList, NextStmt
<1>3. CASE Statements
  BY <1>3 DEF Statements, ExecStmt, Negate, Leave
<1>4. CASE Simple
  BY <1>4 DEF Simple, Assign, KnownStatus, RaiseSignal, RunProgram, RunAnything, Declare
<1>5. CASE Tables
  BY <1>5 DEF Tables, DeclareAlias, RemoveAlias, BindHash, ForgetHash, AssignPath,
              SetArguments, ShiftArguments, UnsetVariable, BindBuiltin
<1>6. CASE Calls
  BY <1>6 DEF Calls, CallFunction, RecursionLimit, ReturnFromFunction
<1>7. CASE Groups
  BY <1>7 DEF Groups, ExecBlock, ExecSubshell, ExecPipeline, PipeStage, PipeEnd
<1>8. CASE AndOrs
  BY <1>8 DEF AndOrs, ExecAndOr, RunRight, SkipRight, SpeculateRight, Speculated
<1>9. CASE Ifs
  BY <1>9 DEF Ifs, ExecIf, TakeThen, TakeElse, SpeculateThen, SpeculateElse, Join
<1>10. CASE Loops
  BY <1>10 DEF Loops, ExecWhile, TestLoop, Iterate, LoopOver, WidenLoop, Widened,
               NextIteration, LeaveLoop, ExecFor, ForNext, ForOver, WidenFor, MarkTop
<1>11. CASE Cases
  BY <1>11 DEF Cases, TakeArm, NoArm, EveryArm, MarkCase, MarkTop
<1> QED
  BY <1>1, <1>2, <1>3, <1>4, <1>5, <1>6, <1>7, <1>8, <1>9, <1>10, <1>11 DEF Exec

-----------------------------------------------------------------------------
\* The theorems

\* While bash runs the program the analysis stands still.
LEMMA NextIsExec ==
  ASSUME [Next]_vars
  PROVE  [Exec]_<<prog, execVars>>
BY DEF Next, Analyse, RunShell, Over, vars

LEMMA Invariant == Spec => []IInv
<1>1. Init => IInv
  BY InitIInv DEF Init
<1>2. IInv /\ [Next]_vars => IInv'
  BY NextIsExec, NextIInv
<1> QED
  BY <1>1, <1>2, PTL DEF Spec

\* Whatever the program, the interpreter's variables keep their types: a frame
\* is one of the calls of exec.go with what that call holds, a state that is put
\* back has a cell of the heap or none for "$1", the budget stays in its range and
\* the call depth under its limit.
THEOREM TypeCorrect == Spec => []TypeOK
<1>1. IInv => TypeOK
  BY IInvGives
<1> QED
  BY <1>1, Invariant, PTL

\* Whatever the program, and however subshells, background jobs, pipeline
\* stages, speculated branches and calls nest, callFunc never writes the "$1" of
\* a state that is put back or joined later: Clone gives each its own cell.
THEOREM SavedStatesAreIsolated == Spec => []Isolated
<1>1. IInv => Isolated
  BY IInvGives
<1> QED
  BY <1>1, Invariant, PTL

\* A result that is not conservative comes from a run that walked the program to
\* its end: the budget did not run out, no call was abandoned, and each loop and
\* each function call that it entered it has left.
SilenceIsComplete ==
  mode = "done" /\ ~Conservative => budget > 0 /\ stack = << >> /\ loopDepth = 0 /\ depth = 0

\* Whatever the program, an exhausted budget is never silent, and the counters of
\* the loops and the calls in progress, which decide whether break, continue and
\* return are stray signals, end where they began.
THEOREM SilentRunsAreComplete == Spec => []SilenceIsComplete
<1>1. Init => IInv /\ Complete
  <2> SUFFICES ASSUME Init PROVE IInv /\ Complete
    OBVIOUS
  <2>1. ExecInit /\ mode = "analyse" /\ budget = StepBudget
    BY DEF Init, ExecInit
  <2>2. budget > 0
    BY <2>1, BoundsAssumption
  <2> QED
    BY <2>1, <2>2, InitIInv DEF Complete
<1>2. IInv /\ Complete /\ [Next]_vars => IInv' /\ Complete'
  BY NextIsExec, NextIInv, NextComplete
<1>3. Complete => SilenceIsComplete
  BY DEF Complete, SilenceIsComplete, Conservative
<1> QED
  BY <1>1, <1>2, <1>3, PTL DEF Spec

\* The states are cloned, put back and joined; the report is not: no step of the
\* interpreter takes an effect back, nor makes a conservative result silent.
ReportGrows == effs \subseteq effs' /\ (Conservative => Conservative')

THEOREM ReportsOnlyGrow == Spec => [][ReportGrows]_<<effs, top>>
<1>1. [Next]_vars => [ReportGrows]_<<effs, top>>
  <2> SUFFICES ASSUME [Next]_vars PROVE [ReportGrows]_<<effs, top>>
    OBVIOUS
  <2>1. CASE Exec
    BY <2>1, ReportSteps DEF ReportGrows, Conservative
  <2>2. CASE UNCHANGED <<prog, execVars>>
    BY <2>2 DEF execVars
  <2> QED
    BY <2>1, <2>2, NextIsExec
<1> QED
  BY <1>1, PTL DEF Spec
=============================================================================
