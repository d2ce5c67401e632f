--------------------------- MODULE MCJsSoundness ---------------------------
(***************************************************************************)
(* The programs of the run: a prelude, one or two statements in up to two  *)
(* constructs, and a write of what is left in x.                           *)
(***************************************************************************)
EXTENDS JsSoundness

S(a) == << a >>
FSx(f, args) == Call(Member(Name("fs"), f), args)

MCApi ==
  ("read"   :> [style |-> "sync", ret |-> "content", args |-> 1, data |-> 0,
                effects |-> << [kind |-> "FSRead", arg |-> 1] >>]) @@
  ("pread"  :> [style |-> "promise", ret |-> "content", args |-> 1, data |-> 0,
                effects |-> << [kind |-> "FSRead", arg |-> 1] >>]) @@
  ("cread"  :> [style |-> "callback", ret |-> "content", args |-> 1, data |-> 0,
                effects |-> << [kind |-> "FSRead", arg |-> 1] >>]) @@
  ("exists" :> [style |-> "sync", ret |-> "boolean", args |-> 1, data |-> 0,
                effects |-> << [kind |-> "FSRead", arg |-> 1] >>]) @@
  ("write"  :> [style |-> "sync", ret |-> "undefined", args |-> 2, data |-> 2,
                effects |-> << [kind |-> "FSWrite", arg |-> 1] >>]) @@
  ("copy"   :> [style |-> "sync", ret |-> "undefined", args |-> 2, data |-> 0,
                effects |-> << [kind |-> "FSRead", arg |-> 1], [kind |-> "FSWrite", arg |-> 2] >>]) @@
  ("home"   :> [style |-> "pure", ret |-> "home", args |-> 0, data |-> 0, effects |-> << >>])
MCModules == ("fs" :> {"read", "pread", "cread", "exists", "write", "copy", "home"})
MCSecret  == S("key")

A == Str(S("a"))
B == Str(S("b"))
X == Name("x")
SetX(e) == Expr(Assign(Id("x"), e))
Maybe   == FSx("exists", << A >>)
Done    == Name("once")

MCPrelude == <<
  Decl("const", Id("fs"), Call(Name("require"), << Str(S("fs")) >>)),
  Decl("let", Id("x"), A),
  Decl("let", Id("once"), Bool("true")),
  Decl("const", Id("o"), Container(<< Field("k", A) >>, FALSE)),
  Func("setX"), Func("setO"), Func("fails") >>
MCFinish == << Expr(FSx("write", << Str(S("d")), X >>)) >>

MCFunctions ==
  ("setX" :> << SetX(B) >>) @@ ("setO" :> << Expr(SetMember(Name("o"), "k", B)) >>) @@
  ("fails" :> << IfElse(Name("world"), Throw(B), Nil), Return(A) >>)

Values == {B, Undef, FSx("read", << Str(S("key")) >>), FSx("read", << A >>),
  Await(FSx("pread", << Str(S("key")) >>)), Member(Name("o"), "k"), FSx("home", << >>),
  Ternary(Maybe, B, X), Logic("&&", Maybe, B), Logic("||", X, B), Logic("??", X, B),
  Ternary(Maybe, Assign(Id("x"), B), A), Logic("||", Maybe, Assign(Id("x"), B)),
  Not(X), TypeOf(X), Binary("+", X, B), Binary("===", X, A), Maybe, Arrow("setX"), Name("y"),
  Ternary(X, Bool("true"), Bool("false"))}

Simple == {SetX(v) : v \in Values} \cup
  { Expr(FSx("write", << X, B >>)), Expr(FSx("write", << Str(S("c")), X >>)),
    Expr(FSx("copy", << Str(S("key")), X >>)),
    Expr(Call(Name("setX"), << >>)), Expr(Call(Name("setO"), << >>)), Expr(Call(Name("fails"), << >>)),
    Expr(Call(Name("world"), << Name("o") >>)), Expr(FSx("cread", << A >>)),
    Expr(SetMember(Name("fs"), "read", X)),
    Decl("let", Id("x"), B), Decl("var", Id("y"), B), Decl("const", Id("y"), X),
    Expr(Assign(Id("o"), B)),
    Decl("const", Destruct(<< Prop("k", Id("y")) >>, FALSE), Name("o")),
    Expr(Assign(Destruct(<< Prop("k", Default(Id("x"), B)) >>, FALSE),
                Container(<< Field("k", Ternary(Maybe, Undef, A)) >>, FALSE))),
    Expr(Assign(Destruct(<< Prop("0", Id("x")) >>, TRUE), Container(<< Field("0", B) >>, TRUE))),
    Expr(Ternary(Maybe, Logic("&&", Assign(Id("x"), B), Maybe), A)),
    Import("m", "other"), Throw(X), Throw(B) }
Jumps == {Jump("breaking"), Jump("continuing")}

\* Constructs around a statement, with a second statement where there is room.
Around(s, t) ==
  << IfElse(Maybe, s, Nil), IfElse(Maybe, s, t), IfElse(Binary("===", X, A), s, t),
    IfElse(X, s, t), Block(<< s, t >>),
    Try(s, Id("e"), t, Nil), Try(s, Id("x"), Block(<< t, SetX(B) >>), Nil), Try(s, Nil, Nil, t),
    Try(Block(<< s, SetX(B) >>), Id("e"), Nil, t) >>
Loops(s, t) ==
  << While(Done, Block(<< Expr(Assign(Id("once"), Bool("false"))), s, t >>)),
    While(Maybe, Block(<< s, t >>)), DoWhile(Block(<< s, t >>), Maybe),
    DoWhile(Block(<< s, SetX(B) >>), Bool("false")),
    ForOf("const", Id("z"), Container(<< Field("0", A), Field("1", B) >>, TRUE), Block(<< s, t, SetX(Name("z")) >>)),
    ForOf("", Id("x"), Container(<< Field("0", A), Field("1", B) >>, TRUE), Block(<< s, t >>)),
    ForOf("var", Id("v"), Name("world"), Block(<< s, t >>)) >>
Switched(s, t) ==
  << Switch(FSx("read", << A >>), << Case(A, << s >>), Case(B, << t >>) >>),
    Switch(X, << Case(A, << s, Jump("breaking") >>), Case(Nil, << t >>), Case(B, << SetX(Undef) >>) >>),
    Switch(Maybe, << Case(Bool("true"), << s >>), Case(Nil, << t, Jump("breaking") >>) >>) >>
Constructs(s, t) == Around(s, t) \o Loops(s, t) \o Switched(s, t)

Few == {SetX(B), SetX(FSx("read", << Str(S("key")) >>)), Expr(Call(Name("setX"), << >>)), Throw(B)}
Forms == 1..19

MCPrograms == {
  Simple \X Simple,
  {<< Constructs(s, t)[i] >> : i \in Forms, s \in Simple, t \in Few},
  {<< Constructs(Around(j, s)[a], t)[i] >> : i \in 10..19, a \in 1..9, j \in Jumps, s \in Few, t \in Few},
  {<< Constructs(Constructs(s, t)[a], SetX(B))[i] >> : i \in Forms, a \in Forms, s \in Few, t \in Few} }
=============================================================================
