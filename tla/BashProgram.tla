----------------------------- MODULE BashProgram -----------------------------
(***************************************************************************)
(* The shell programs the bash frontend executes, as syntax trees: the     *)
(* part of mvdan.cc/sh's syntax package that front/bash/exec.go walks.     *)
(*                                                                         *)
(* A command is a record with a field op; a statement wraps one and may    *)
(* negate it or put it in the background.  Programs is a constant: a model *)
(* names the programs it explores.                                         *)
(***************************************************************************)
EXTENDS EffectIR, Sequences, FiniteSets

CONSTANTS
  Programs,   \* the programs explored: [body : Seq(Stmt), funcs : name -> Stmt]
  MaxNesting, \* how deep their statements nest
  Vars,       \* the shell variables programs assign
  Empty,      \* the empty string, a member of Targets
  Names,      \* the names a command word may spell
  Tools       \* those of a program the knowledge base describes

ASSUME ProgramAssumption == Empty \in Targets /\ Tools \subseteq Names

Nothing    == "none"   \* no entry in a table of names
Unresolved == "?"      \* an operand the program text does not determine
All        == "-a"     \* unalias -a, hash -r

\* The first positional parameter; the others behave alike.
Arg == "1"

-----------------------------------------------------------------------------
\* Words: a literal, "$x", "${x:-v}", or a command substitution whose output
\* is not known but carries labels.  Words are quoted: one word, one field.
Word(form, x, v, ls) == [form |-> form, name |-> x, value |-> v, labels |-> ls]

Lit(v)      == Word("lit", Arg, v, {})
Ref(x)      == Word("ref", x, Empty, {})
RefOr(x, v) == Word("refOr", x, v, {})
Subst(ls)   == Word("subst", Arg, Empty, ls)

\* The statements a command is made of.
Elems(ss) == { ss[i] : i \in DOMAIN ss }
Parts(c) ==
  CASE c.op \in {"block", "sub", "for"} -> Elems(c.body)
    [] c.op = "while"        -> Elems(c.cond) \cup Elems(c.body)
    [] c.op = "if"           -> UNION { Elems(arm.cond) \cup Elems(arm.then) : arm \in Elems(c.arms) }
    [] c.op = "case"         -> UNION { Elems(item.body) : item \in Elems(c.items) }
    [] c.op = "pipe"         -> Elems(c.stages)
    [] c.op \in {"and", "or"} -> {c.left, c.right}
    [] c.op = "decl"         -> {c.body}
    [] OTHER                 -> {}

\* Statements.  One that contains set -- or shift rebinds "$1".
Stmt(c) == [cmd |-> c, neg |-> FALSE, bg |-> FALSE,
            rebinds |-> c.op \in {"args", "shift"} \/ \E t \in Parts(c) : t.rebinds]
Not(s)  == [s EXCEPT !.neg = TRUE]
Bg(s)   == [s EXCEPT !.bg = TRUE]

\* Simple commands: a program or function invoked on one word, by its name, by
\* a quoted name, or through a wrapper that executes it in a new process (env);
\* an assignment, true and false, break/continue/return/exit, a declaration.
RunAs(how, c, w) == Stmt([op |-> "run", how |-> how, name |-> c, word |-> w])
Run(c, w)  == RunAs("plain", c, w)
Set(x, w)  == Stmt([op |-> "set", var |-> x, word |-> w])
Known(st)  == Stmt([op |-> "known", status |-> st])
Ctl(sig)   == Stmt([op |-> "ctl", sig |-> sig])
Decl(f, s) == Stmt([op |-> "decl", name |-> f, body |-> s])

\* The builtins that change what a later word stands for: alias n=m; unalias;
\* hash -p m n; hash -d n; an assignment to PATH or BASH_CMDS, which keeps the
\* system directories first or not; set -- w; shift; unset x.
Alias(n, m)   == Stmt([op |-> "alias", name |-> n, to |-> m])
Unalias(n)    == Stmt([op |-> "unalias", name |-> n])
HashTo(n, m)  == Stmt([op |-> "hash", name |-> n, to |-> m])
HashForget(n) == Stmt([op |-> "unhash", name |-> n])
SetPath(keeps) == Stmt([op |-> "path", keeps |-> keeps])
SetArgs(w)    == Stmt([op |-> "args", word |-> w])
Shift         == Stmt([op |-> "shift"])
UnsetVar(x)   == Stmt([op |-> "unset", var |-> x])

\* Compound commands.  An if clause is a list of arms tried in order; an arm
\* with no condition is the else.
Block(ss)         == Stmt([op |-> "block", body |-> ss])
Sub(ss)           == Stmt([op |-> "sub", body |-> ss])
If(arms)          == Stmt([op |-> "if", arms |-> arms])
Arm(cond, then)   == [cond |-> cond, then |-> then]
While(cond, ss)   == Stmt([op |-> "while", until |-> FALSE, cond |-> cond, body |-> ss])
Until(cond, ss)   == Stmt([op |-> "while", until |-> TRUE, cond |-> cond, body |-> ss])
For(x, ws, ss)    == Stmt([op |-> "for", var |-> x, words |-> ws, body |-> ss])
Case(w, items)    == Stmt([op |-> "case", word |-> w, items |-> items])
Item(pats, ss)    == [pats |-> pats, body |-> ss]
Pipe(ss)          == Stmt([op |-> "pipe", stages |-> ss])
And(s, t)         == Stmt([op |-> "and", left |-> s, right |-> t])
Or(s, t)          == Stmt([op |-> "or", left |-> s, right |-> t])

Signals == {"none", "break", "continue", "return", "exit"}

-----------------------------------------------------------------------------
\* The syntax trees: the words, the commands whose parts are in S, and the
\* statements that nest at most d deep.
ShellWords ==
  [form : {"lit", "ref", "refOr", "subst"}, name : Vars \cup {Arg}, value : Targets,
   labels : SUBSET Labels]

SimpleCommands ==
       [op : {"run"}, how : {"plain", "quoted", "external"}, name : Names, word : ShellWords]
  \cup [op : {"set"}, var : Vars, word : ShellWords]
  \cup [op : {"known"}, status : {"ok", "fail"}]
  \cup [op : {"ctl"}, sig : Signals]
  \cup [op : {"alias"}, name : Names \cup {Unresolved}, to : Names]
  \cup [op : {"hash"}, name : Names \cup {Unresolved}, to : Names \cup {Unresolved}]
  \cup [op : {"unalias", "unhash"}, name : Names \cup {Unresolved, All}]
  \cup [op : {"path"}, keeps : BOOLEAN]
  \cup [op : {"args"}, word : ShellWords]
  \cup [op : {"shift"}]
  \cup [op : {"unset"}, var : Vars]

Arms(S)   == [cond : Seq(S), then : Seq(S)]
Whiles(S) == [op : {"while"}, until : BOOLEAN, cond : Seq(S), body : Seq(S)]
Fors(S)   == [op : {"for"}, var : Vars, words : Seq(ShellWords), body : Seq(S)]

CompoundCommands(S) ==
       [op : {"decl"}, name : Names, body : S]
  \cup [op : {"block", "sub"}, body : Seq(S)]
  \cup [op : {"if"}, arms : Seq(Arms(S)) \ {<< >>}]
  \cup [op : {"case"}, word : ShellWords, items : Seq([pats : SUBSET Targets, body : Seq(S)])]
  \cup [op : {"pipe"}, stages : Seq(S)]
  \cup [op : {"and", "or"}, left : S, right : S]
  \cup Whiles(S) \cup Fors(S)

Commands(S)     == SimpleCommands \cup CompoundCommands(S)
StatementsOf(S) == [cmd : Commands(S), neg : BOOLEAN, bg : BOOLEAN, rebinds : BOOLEAN]

Nested[d \in 0 .. MaxNesting] == IF d = 0 THEN {} ELSE StatementsOf(Nested[d - 1])

ASSUME SyntaxAssumption ==
  /\ MaxNesting \in Nat
  /\ \A p \in Programs :
       /\ p.body \in Seq(Nested[MaxNesting])
       /\ p.funcs \in [DOMAIN p.funcs -> Nested[MaxNesting]]

VARIABLE prog   \* the program under analysis
=============================================================================
