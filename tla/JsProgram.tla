----------------------------- MODULE JsProgram -----------------------------
(***************************************************************************)
(* The syntax trees front/js evaluates (tree-sitter, normalised by         *)
(* front/js/parse.go) and the builtin functions bind.BindJS looks up.      *)
(*                                                                         *)
(* A string is a sequence of atoms: concatenation is all that is done with *)
(* it.  Numbers are left out.  The body of a function is found by the      *)
(* function's name.                                                        *)
(***************************************************************************)
EXTENDS Naturals, Sequences, SequencesExt, TLC

CONSTANTS
  Programs,   \* sets of sequences of statements; a program is one of these between
  Prelude,    \* what every program does first and
  Finish,     \* what it does last;
  Functions,  \* the bodies of the functions it declares, by name
  Api,        \* builtin functions, see ApiRecord
  Modules,    \* module name -> the exports it has (a set of names in DOMAIN Api)
  SecretFile  \* the path of a credential

VARIABLE prog

Main == Prelude \o prog \o Finish

\* One row of the knowledge base: how the function is called, what it returns,
\* its effects in order, and which argument is written as data (0: none).
ApiRecord ==
  [style : {"sync", "promise", "callback", "pure"}, ret : {"content", "boolean", "undefined", "home"},
   args : Nat, data : Nat, effects : Seq([kind : {"FSRead", "FSWrite", "FSMeta"}, arg : Nat])]

ASSUME ApiAssumption ==
  /\ \A f \in DOMAIN Api : Api[f].style \in {"sync", "promise", "callback", "pure"}
  /\ \A f \in DOMAIN Api : \A i \in DOMAIN Api[f].effects : Api[f].effects[i].arg \in 1..Api[f].args
  /\ \A mod \in DOMAIN Modules : Modules[mod] \subseteq DOMAIN Api

-----------------------------------------------------------------------------
\* Statements

Nil              == [kind |-> "nil"]
Block(ss)        == [kind |-> "statement_block", body |-> ss]
Decl(dk, p, e)   == [kind |-> "declaration", dk |-> dk, pat |-> p, init |-> e]
Expr(e)          == [kind |-> "expression_statement", e |-> e]
IfElse(c, t, f)  == [kind |-> "if_statement", c |-> c, t |-> t, f |-> f]
While(c, b)      == [kind |-> "loop", do |-> FALSE, c |-> c, inc |-> Nil, b |-> b]
DoWhile(b, c)    == [kind |-> "loop", do |-> TRUE, c |-> c, inc |-> Nil, b |-> b]
ForOf(dk, p, e, b) == [kind |-> "for_in_statement", dk |-> dk, pat |-> p, e |-> e, b |-> b]
\* cases: a sequence of [test, body]; the default has test Nil.
Switch(e, cs)    == [kind |-> "switch_statement", e |-> e, cases |-> cs]
Case(e, ss)      == [test |-> e, body |-> ss]
Try(b, p, h, f)  == [kind |-> "try_statement", b |-> b, pat |-> p, h |-> h, f |-> f]
Jump(k)          == [kind |-> "jump", k |-> k]
Return(e)        == [kind |-> "return_statement", e |-> e]
Throw(e)         == [kind |-> "throw_statement", e |-> e]
Func(f)          == [kind |-> "function_declaration", name |-> f]
Import(x, mod)   == [kind |-> "import_statement", name |-> x, mod |-> mod]
Program(ss)      == [kind |-> "program", body |-> ss]

\* Patterns
Id(x)            == [kind |-> "identifier", name |-> x]
Default(p, e)    == [kind |-> "assignment_pattern", left |-> p, right |-> e]
\* props: a sequence of [key, target]; an array pattern has keys "0", "1".
Destruct(props, arr) == [kind |-> "destructuring_pattern", props |-> props, array |-> arr]
Prop(key, p)     == [key |-> key, target |-> p]

\* Expressions
Str(s)           == [kind |-> "string", text |-> s]
Bool(b)          == [kind |-> "boolean", text |-> << b >>]
Undef            == [kind |-> "undefined"]
Name(x)          == [kind |-> "name", name |-> x]
Assign(p, e)     == [kind |-> "assignment_expression", pat |-> p, e |-> e]
SetMember(o, key, e) == [kind |-> "member_assignment", o |-> o, key |-> key, e |-> e]
Member(o, key)   == [kind |-> "member_expression", o |-> o, key |-> key]
Ternary(c, t, f) == [kind |-> "ternary_expression", c |-> c, t |-> t, f |-> f]
Logic(op, l, r)  == [kind |-> "logical", op |-> op, l |-> l, r |-> r]
Not(e)           == [kind |-> "not", e |-> e]
TypeOf(e)        == [kind |-> "typeof", e |-> e]
Binary(op, l, r) == [kind |-> "binary_expression", op |-> op, l |-> l, r |-> r]
\* props: a sequence of [key, e]
Container(props, arr) == [kind |-> "container", props |-> props, array |-> arr]
Field(key, e)    == [key |-> key, e |-> e]
Call(f, args)    == [kind |-> "call_expression", f |-> f, args |-> args]
Await(e)         == [kind |-> "await_expression", e |-> e]
Arrow(f)         == [kind |-> "arrow_function", name |-> f]

-----------------------------------------------------------------------------
\* A sequence given as a function, made a tuple: TLC's SubSeq and Append miss
\* what EXCEPT changed in a function.
AsTuple(f) == SubSeq(f, 1, Len(f))

\* patternNames, in order.
RECURSIVE PatternNames(_)
PatternNames(p) ==
  CASE p.kind = "identifier"            -> << p.name >>
    [] p.kind = "assignment_pattern"    -> PatternNames(p.left)
    [] p.kind = "destructuring_pattern" ->
         FlattenSeq([i \in DOMAIN p.props |-> PatternNames(p.props[i].target)])

\* The statements directly inside a statement, function bodies left out.
SubStatements(n) ==
  CASE n.kind \in {"program", "statement_block"} -> n.body
    [] n.kind = "if_statement"                   -> << n.t, n.f >>
    [] n.kind \in {"loop", "for_in_statement"}   -> << n.b >>
    [] n.kind = "switch_statement" ->
         FlattenSeq([i \in DOMAIN n.cases |-> n.cases[i].body])
    [] n.kind = "try_statement"                  -> << n.b, n.h, n.f >>
    [] OTHER                                     -> << >>

\* The names declared with var by the statements of these kinds in n.
RECURSIVE DeclaredIn(_, _)
DeclaredIn(n, kinds) ==
  (IF n.kind \in kinds /\ n.dk = "var" THEN Range(PatternNames(n.pat)) ELSE {})
    \cup UNION {DeclaredIn(SubStatements(n)[i], kinds) : i \in DOMAIN SubStatements(n)}
=============================================================================
