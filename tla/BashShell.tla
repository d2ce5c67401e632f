------------------------------ MODULE BashShell ------------------------------
(***************************************************************************)
(* What bash does with a program: the reference the abstract interpreter   *)
(* is judged against.  It is not part of the repository; it is the shell   *)
(* that front/bash/exec.go describes in its comments and approximates.     *)
(*                                                                         *)
(* A program invoked succeeds or fails, and a command substitution yields  *)
(* any value.  Frames and statements are those of BashProgram.  Aliases    *)
(* are on, as in the shells whose commands are analysed, and each          *)
(* statement of the program is a line: bash reads a whole line, and        *)
(* expands its aliases, before it executes it.                             *)
(***************************************************************************)
EXTENDS BashProgram

VARIABLES
  shStack,    \* the constructs in progress, innermost first
  shEnv,      \* the shell's state: variables, "$1", aliases, functions, the
              \* hash table, whether PATH still starts with the system's
              \* directories, and the aliases the current line was read with
  shEffs,     \* the effects that happened
  shStatus,   \* "ok" or "fail"
  shSig       \* the pending control-flow signal

shVars == <<shStack, shEnv, shEffs, shStatus, shSig>>

ShCell(set, v, ls) == [set |-> set, value |-> v, labels |-> ls]
Unset == ShCell(FALSE, Empty, {})

ShList(ss) == [k |-> "list", ss |-> ss]
ShStmt(s)  == [k |-> "stmt", s |-> s]
ShCmd(c)   == [k |-> "cmd", c |-> c]

NoName == [n \in Names |-> Nothing]

ShInit ==
  /\ shStack = << ShList(prog.body) >>
  /\ shEnv = [vars |-> [x \in Vars |-> Unset], arg |-> Unset,
              aliases |-> NoName, read |-> NoName, hash |-> NoName, host |-> TRUE,
              funcs |-> << >>]
  /\ shEffs = {}
  /\ shStatus = "ok"
  /\ shSig = "none"

-----------------------------------------------------------------------------
\* What a word may expand to.
ShValues(w) ==
  LET c == IF w.name = Arg THEN shEnv.arg ELSE shEnv.vars[w.name] IN
  CASE w.form = "lit"   -> { ShCell(TRUE, w.value, {}) }
    [] w.form = "subst" -> { ShCell(TRUE, v, w.labels) : v \in Targets }
    [] w.form = "ref"   -> { ShCell(TRUE, c.value, c.labels) }
    [] w.form = "refOr" -> { IF c.set /\ c.value # Empty THEN c
                             ELSE ShCell(TRUE, w.value, {}) }

ShTop       == Head(shStack)
ShIn(k)     == shStack # << >> /\ ShTop.k = k
ShCommand(op) == ShIn("cmd") /\ ShTop.c.op = op
ShBecome(fs) == shStack' = fs \o Tail(shStack)
ShReturn    == ShBecome(<< >>)

\* break and continue act on a loop of the function, or the subshell, they are in.
ShInLoop ==
  \E i \in DOMAIN shStack :
    /\ shStack[i].k = "iterate"
    /\ \A j \in 1 .. i : shStack[j].k \notin {"call", "subshell"}

ShInFunction == \E i \in DOMAIN shStack : shStack[i].k = "call"

Raises(sig) ==
  CASE sig = "exit"                  -> TRUE
    [] sig = "return"                -> ShInFunction
    [] sig \in {"break", "continue"} -> ShInLoop

-----------------------------------------------------------------------------
\* Lists and statements

ShNextStmt ==
  /\ ShIn("list")
  /\ ShTop.ss # << >> /\ shSig = "none"
  /\ ShBecome(<< ShStmt(Head(ShTop.ss)), ShList(Tail(ShTop.ss)) >>)
  /\ shEnv' = IF Len(shStack) = 1 THEN [shEnv EXCEPT !.read = shEnv.aliases] ELSE shEnv
  /\ UNCHANGED <<shEffs, shStatus, shSig>>

ShEndOfList ==
  /\ ShIn("list")
  /\ ShTop.ss = << >> \/ shSig # "none"
  /\ ShReturn
  /\ UNCHANGED <<shEnv, shEffs, shStatus, shSig>>

ShSubshell(st) == [k |-> "subshell", env |-> shEnv, status |-> st]

ShExecStmt ==
  /\ ShIn("stmt")
  /\ ShBecome(<< ShCmd(ShTop.s.cmd) >>
                \o (IF ShTop.s.neg THEN << [k |-> "negate"] >> ELSE << >>)
                \o (IF ShTop.s.bg THEN << ShSubshell("ok") >> ELSE << >>))
  /\ UNCHANGED <<shEnv, shEffs, shStatus, shSig>>

ShNegate ==
  /\ ShIn("negate")
  /\ shStatus' = IF shStatus = "ok" THEN "fail" ELSE "ok"
  /\ ShReturn
  /\ UNCHANGED <<shEnv, shEffs, shSig>>

ShLeaveSubshell ==
  /\ ShIn("subshell")
  /\ shEnv' = ShTop.env
  /\ shSig' = "none"
  /\ shStatus' = IF ShTop.status = "kept" THEN shStatus ELSE ShTop.status
  /\ ShReturn
  /\ UNCHANGED shEffs

-----------------------------------------------------------------------------
\* Simple commands

ShAssign ==
  /\ ShCommand("set")
  /\ \E c \in ShValues(ShTop.c.word) : shEnv' = [shEnv EXCEPT !.vars[ShTop.c.var] = c]
  /\ shStatus' \in IF ShTop.c.word.form = "subst" THEN {"ok", "fail"} ELSE {"ok"}
  /\ ShReturn
  /\ UNCHANGED <<shEffs, shSig>>

ShKnownStatus ==
  /\ ShCommand("known")
  /\ shStatus' = ShTop.c.status
  /\ ShReturn
  /\ UNCHANGED <<shEnv, shEffs, shSig>>

\* A signal that nothing can take is an error message, and the script goes on.
ShRaiseSignal ==
  /\ ShCommand("ctl")
  /\ shSig' = IF Raises(ShTop.c.sig) THEN ShTop.c.sig ELSE "none"
  /\ shStatus' \in {"ok", "fail"}
  /\ ShReturn
  /\ UNCHANGED <<shEnv, shEffs>>

\* An alias is not expanded again inside its own expansion.
ShExpansion(n) ==
  LET of[m \in Names, seen \in SUBSET Names] ==
        IF m \in seen \/ shEnv.read[m] = Nothing THEN m
        ELSE of[shEnv.read[m], seen \cup {m}]
  IN of[n, {}]

ShCalled(c) == IF c.how = "plain" THEN ShExpansion(c.name) ELSE c.name

\* A wrapper that executes a new process knows no function and no hashed name.
ShIsFunction(c) == c.how # "external" /\ ShCalled(c) \in DOMAIN shEnv.funcs

\* With another PATH a name may be any program.
ShProgram(c) ==
  IF c.how # "external" /\ shEnv.hash[ShCalled(c)] # Nothing THEN shEnv.hash[ShCalled(c)]
  ELSE IF shEnv.host THEN ShCalled(c) ELSE Unresolved

ShRunProgram ==
  /\ ShCommand("run")
  /\ ~ShIsFunction(ShTop.c)
  /\ \E c \in ShValues(ShTop.c.word) :
       shEffs' = shEffs \cup {[cmd |-> ShProgram(ShTop.c), target |-> c.value, labels |-> c.labels]}
  /\ shStatus' \in {"ok", "fail"}
  /\ ShReturn
  /\ UNCHANGED <<shEnv, shSig>>

\* A body is read with the line that declares it.
ShDeclare ==
  /\ ShCommand("decl")
  /\ shEnv' = [shEnv EXCEPT !.funcs =
                 [n \in DOMAIN shEnv.funcs \cup {ShTop.c.name} |->
                    IF n = ShTop.c.name THEN [body |-> ShTop.c.body, read |-> shEnv.read]
                    ELSE shEnv.funcs[n]]]
  /\ shStatus' = "ok"
  /\ ShReturn
  /\ UNCHANGED <<shEffs, shSig>>

\* A function has positional parameters of its own.
ShCall ==
  /\ ShCommand("run")
  /\ ShIsFunction(ShTop.c)
  /\ LET f == shEnv.funcs[ShCalled(ShTop.c)] IN
     /\ \E c \in ShValues(ShTop.c.word) : shEnv' = [shEnv EXCEPT !.arg = c, !.read = f.read]
     /\ ShBecome(<< ShStmt(f.body), [k |-> "call", arg |-> shEnv.arg, read |-> shEnv.read] >>)
  /\ UNCHANGED <<shEffs, shStatus, shSig>>

ShReturnFromCall ==
  /\ ShIn("call")
  /\ shEnv' = [shEnv EXCEPT !.arg = ShTop.arg, !.read = ShTop.read]
  /\ shSig' = IF shSig = "return" THEN "none" ELSE shSig
  /\ ShReturn
  /\ UNCHANGED <<shEffs, shStatus>>

-----------------------------------------------------------------------------
\* Builtins that change the tables

\* What an operand may be.
ShOperands(n) == IF n = Unresolved THEN Names \cup {All} ELSE {n}

ShEntry(table, n, m) == [k \in Names |-> IF n \in {k, All} THEN m ELSE table[k]]

ShAlias ==
  /\ ShCommand("alias")
  /\ \E n \in ShOperands(ShTop.c.name) :
       shEnv' = [shEnv EXCEPT !.aliases = ShEntry(@, n, ShTop.c.to)]
  /\ shStatus' \in {"ok", "fail"}
  /\ ShReturn
  /\ UNCHANGED <<shEffs, shSig>>

ShUnalias ==
  /\ ShCommand("unalias")
  /\ \E n \in ShOperands(ShTop.c.name) :
       shEnv' = [shEnv EXCEPT !.aliases = ShEntry(@, n, Nothing)]
  /\ shStatus' \in {"ok", "fail"}
  /\ ShReturn
  /\ UNCHANGED <<shEffs, shSig>>

ShHash ==
  /\ ShCommand("hash") \/ ShCommand("unhash")
  /\ \E n \in ShOperands(ShTop.c.name) :
       shEnv' = [shEnv EXCEPT !.hash =
                   ShEntry(@, n, IF ShTop.c.op = "hash" THEN ShTop.c.to ELSE Nothing)]
  /\ shStatus' \in {"ok", "fail"}
  /\ ShReturn
  /\ UNCHANGED <<shEffs, shSig>>

\* An assignment to PATH also forgets every hashed name.
ShPath ==
  /\ ShCommand("path")
  /\ \E host \in IF ShTop.c.keeps THEN {TRUE, shEnv.host} ELSE {FALSE} :
       shEnv' = [shEnv EXCEPT !.host = host, !.hash = NoName]
  /\ shStatus' = "ok"
  /\ ShReturn
  /\ UNCHANGED <<shEffs, shSig>>

ShSetArguments ==
  /\ ShCommand("args")
  /\ \E c \in ShValues(ShTop.c.word) : shEnv' = [shEnv EXCEPT !.arg = c]
  /\ shStatus' = "ok"
  /\ ShReturn
  /\ UNCHANGED <<shEffs, shSig>>

\* There was one argument.
ShShift ==
  /\ ShCommand("shift")
  /\ shEnv' = [shEnv EXCEPT !.arg = Unset]
  /\ shStatus' \in {"ok", "fail"}
  /\ ShReturn
  /\ UNCHANGED <<shEffs, shSig>>

ShUnset ==
  /\ ShCommand("unset")
  /\ shEnv' = [shEnv EXCEPT !.vars[ShTop.c.var] = Unset]
  /\ shStatus' = "ok"
  /\ ShReturn
  /\ UNCHANGED <<shEffs, shSig>>

-----------------------------------------------------------------------------
\* Compound commands

ShGroup ==
  /\ ShCommand("block") \/ ShCommand("sub")
  /\ ShBecome(<< ShList(ShTop.c.body) >>
                \o IF ShTop.c.op = "sub" THEN << ShSubshell("kept") >> ELSE << >>)
  /\ UNCHANGED <<shEnv, shEffs, shStatus, shSig>>

\* Every stage of a pipeline is a subshell; the last one gives the status.
ShPipe ==
  /\ ShCommand("pipe")
  /\ ShBecome([i \in 1 .. 2 * Len(ShTop.c.stages) |->
                 IF i % 2 = 1 THEN ShStmt(ShTop.c.stages[(i + 1) \div 2])
                 ELSE ShSubshell("kept")])
  /\ UNCHANGED <<shEnv, shEffs, shStatus, shSig>>

ShAndOr ==
  /\ ShCommand("and") \/ ShCommand("or")
  /\ ShBecome(<< ShStmt(ShTop.c.left),
                 [k |-> "right", on |-> IF ShTop.c.op = "and" THEN "ok" ELSE "fail",
                  s |-> ShTop.c.right] >>)
  /\ UNCHANGED <<shEnv, shEffs, shStatus, shSig>>

ShRight ==
  /\ ShIn("right")
  /\ ShBecome(IF shSig = "none" /\ shStatus = ShTop.on THEN << ShStmt(ShTop.s) >> ELSE << >>)
  /\ UNCHANGED <<shEnv, shEffs, shStatus, shSig>>

\* The arms of an if that are still to be tried.
ShArms(arms) ==
  IF arms = << >> THEN << >>
  ELSE IF arms[1].cond = << >> THEN << ShList(arms[1].then) >>
  ELSE << ShList(arms[1].cond), [k |-> "branch", arms |-> arms] >>

ShIf ==
  /\ ShCommand("if")
  /\ ShBecome(ShArms(ShTop.c.arms))
  /\ UNCHANGED <<shEnv, shEffs, shStatus, shSig>>

ShBranch ==
  /\ ShIn("branch")
  /\ ShBecome(IF shSig # "none" THEN << >>
              ELSE IF shStatus = "ok" THEN << ShList(ShTop.arms[1].then) >>
              ELSE ShArms(Tail(ShTop.arms)))
  /\ shStatus' = IF shSig = "none" /\ shStatus = "fail" /\ Len(ShTop.arms) = 1 THEN "ok"
                 ELSE shStatus
  /\ UNCHANGED <<shEnv, shEffs, shSig>>

\* A loop is a frame "iterate" with what is left to do: test a condition, or
\* take the next word.  The status of the last body is kept in the frame.
ShLoop ==
  /\ ShCommand("while")
  /\ ShBecome(<< ShList(ShTop.c.cond),
                 [k |-> "iterate", c |-> ShTop.c, testing |-> TRUE, vals |-> << >>,
                  last |-> "ok"] >>)
  /\ UNCHANGED <<shEnv, shEffs, shStatus, shSig>>

ShFor ==
  /\ ShCommand("for")
  /\ \E vs \in [DOMAIN ShTop.c.words -> UNION {ShValues(w) : w \in { ShTop.c.words[i] : i \in DOMAIN ShTop.c.words }}] :
       /\ \A i \in DOMAIN vs : vs[i] \in ShValues(ShTop.c.words[i])
       /\ ShBecome(<< [k |-> "iterate", c |-> ShTop.c, testing |-> FALSE, vals |-> vs,
                       last |-> "ok"] >>)
  /\ shStatus' = "ok"
  /\ UNCHANGED <<shEnv, shEffs, shSig>>

\* break ends the loop, continue its iteration; return and exit pass through.
ShSignalInLoop ==
  /\ ShIn("iterate")
  /\ shSig # "none"
  /\ ShBecome(IF shSig # "continue" THEN << >>
              ELSE IF ShTop.c.op = "for" THEN << ShTop >>
              ELSE << ShList(ShTop.c.cond), [ShTop EXCEPT !.testing = TRUE, !.last = shStatus] >>)
  /\ shSig' = IF shSig \in {"break", "continue"} THEN "none" ELSE shSig
  /\ UNCHANGED <<shEnv, shEffs, shStatus>>

ShWhile ==
  /\ ShIn("iterate") /\ ShTop.c.op = "while"
  /\ shSig = "none"
  /\ LET holds == shStatus = IF ShTop.c.until THEN "fail" ELSE "ok" IN
     /\ ShBecome(IF ~ShTop.testing
                 THEN << ShList(ShTop.c.cond), [ShTop EXCEPT !.testing = TRUE, !.last = shStatus] >>
                 ELSE IF holds
                 THEN << ShList(ShTop.c.body), [ShTop EXCEPT !.testing = FALSE] >>
                 ELSE << >>)
     /\ shStatus' = IF ShTop.testing /\ ~holds THEN ShTop.last ELSE shStatus
  /\ UNCHANGED <<shEnv, shEffs, shSig>>

ShForNext ==
  /\ ShIn("iterate") /\ ShTop.c.op = "for"
  /\ shSig = "none" /\ ShTop.vals # << >>
  /\ shEnv' = [shEnv EXCEPT !.vars[ShTop.c.var] = Head(ShTop.vals)]
  /\ ShBecome(<< ShList(ShTop.c.body), [ShTop EXCEPT !.vals = Tail(ShTop.vals)] >>)
  /\ UNCHANGED <<shEffs, shStatus, shSig>>

ShForOver ==
  /\ ShIn("iterate") /\ ShTop.c.op = "for"
  /\ shSig = "none" /\ ShTop.vals = << >>
  /\ ShReturn
  /\ UNCHANGED <<shEnv, shEffs, shStatus, shSig>>

ShCase ==
  /\ ShCommand("case")
  /\ \E v \in ShValues(ShTop.c.word) :
       LET hit == { i \in DOMAIN ShTop.c.items : v.value \in ShTop.c.items[i].pats } IN
       ShBecome(IF hit = {} THEN << >>
                ELSE << ShList(ShTop.c.items[CHOOSE i \in hit : \A j \in hit : i <= j].body) >>)
  /\ shStatus' = "ok"
  /\ UNCHANGED <<shEnv, shEffs, shSig>>

-----------------------------------------------------------------------------
ShStep ==
  \/ ShNextStmt \/ ShEndOfList \/ ShExecStmt \/ ShNegate \/ ShLeaveSubshell
  \/ ShAssign \/ ShKnownStatus \/ ShRaiseSignal \/ ShRunProgram \/ ShDeclare
  \/ ShCall \/ ShReturnFromCall
  \/ ShAlias \/ ShUnalias \/ ShHash \/ ShPath \/ ShSetArguments \/ ShShift \/ ShUnset
  \/ ShGroup \/ ShPipe \/ ShAndOr \/ ShRight \/ ShIf \/ ShBranch
  \/ ShLoop \/ ShFor \/ ShSignalInLoop \/ ShWhile \/ ShForNext \/ ShForOver \/ ShCase
=============================================================================
