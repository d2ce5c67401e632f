--------------------------- MODULE MCBashSoundness ---------------------------
(***************************************************************************)
(* The programs BashSoundness is checked on.  Control programs put every   *)
(* construct inside every construct, around a command or a signal; call    *)
(* programs put one around a function body and one around its call; data   *)
(* programs set a variable, set it again inside constructs, and use it;    *)
(* name programs change the tables that say what a name stands for, at     *)
(* once, in a construct or in a subshell, and then use a name.             *)
(*                                                                         *)
(* Four things are kept out, and have runs of their own: break and         *)
(* continue in a subshell or a function called from a loop; an assignment  *)
(* on the right of an undecided && or ||; a variable set only in a branch  *)
(* that may not run; an unknown argument, or an argument read after a      *)
(* nested call in the same shell.                                          *)
(***************************************************************************)
EXTENDS BashSoundness

CONSTANTS empty, a, b, secret

MCTargets == {empty, a, b}
MCLabels  == {secret}
MCVars    == {"x"}
MCTools   == {"p", "q", "r", "t"}
MCNames   == MCTools \cup {"f", "g", "h"}

Prog(ss)     == [body |-> ss, funcs |-> << >>]
WithF(f, ss) == [body |-> << Decl("f", f) >> \o ss, funcs |-> [n \in {"f"} |-> f]]
WithFG(f, g, ss) ==
  [body |-> << Decl("f", f), Decl("g", g) >> \o ss,
   funcs |-> [n \in {"f", "g"} |-> IF n = "f" THEN f ELSE g]]

T == Known("ok")
F == Known("fail")

\* The constructs around a statement s; p and q are commands on the word v.
Decided(s, v) ==
  LET p == Run("p", v)  q == Run("q", v) IN
  { s, Block(<< s, q >>), Not(s), And(T, s), And(F, s), Or(F, s), And(s, q), Or(s, q),
    If(<< Arm(<< s >>, << q >>), Arm(<< >>, << p >>) >>),
    If(<< Arm(<< F >>, << q >>), Arm(<< T >>, << s >>), Arm(<< >>, << p >>) >>),
    If(<< Arm(<< F >>, << s >>) >>),
    Case(Lit(a), << Item({b}, << q >>), Item({a, b}, << s >>) >>),
    Case(Lit(empty), << Item({a}, << s >>) >>) }

Guarded(s, v) ==   \* on a status that is not known
  LET p == Run("p", v)  q == Run("q", v) IN
  { If(<< Arm(<< p >>, << s >>), Arm(<< >>, << q >>) >>),
    If(<< Arm(<< p >>, << q >>), Arm(<< p >>, << s >>) >>) }

Optional(s, v) == { And(Run("p", v), s), Or(Run("p", v), s) }

Forked(s, v) ==
  LET q == Run("q", v) IN { Sub(<< s, q >>), Bg(s), Pipe(<< s, q >>) }

Looped(s, v) ==
  LET p == Run("p", v)  q == Run("q", v) IN
  { While(<< p >>, << s >>), While(<< T >>, << s, q >>), Until(<< T >>, << s >>),
    Until(<< s >>, << q >>),
    For("x", << Lit(a), Lit(b) >>, << s, q >>), For("x", << Subst({}) >>, << s >>),
    For("x", << >>, << s >>), Case(Subst({}), << Item({a}, << s >>), Item({b}, << q >>) >>) }

InShell(s, v) == Decided(s, v) \cup Guarded(s, v) \cup Looped(s, v)
Around(s, v)  == InShell(s, v) \cup Optional(s, v) \cup Forked(s, v)
NoLoop(s, v)  == Decided(s, v) \cup Guarded(s, v) \cup Optional(s, v) \cup Forked(s, v)

Nest(A(_, _), B(_, _), Leaves) ==
  UNION { UNION { B(s, Lit(b)) : s \in A(l, Lit(a)) } : l \in Leaves }

Rest == Run("r", Lit(a))

ControlPrograms ==
  { Prog(<< s, Rest >>) :
      s \in Nest(Around, Around, { Run("p", Lit(empty)), Ctl("return"), Ctl("exit") })
              \cup Nest(InShell, Around, { Ctl("break"), Ctl("continue") })
              \cup Nest(Forked, NoLoop, { Ctl("break"), Ctl("continue") }) }

\* f's body, and the call of f.
CallPrograms ==
  { WithF(f, << s, Rest >>) :
      f \in UNION { Around(l, Ref(Arg)) : l \in { Ctl("return"), Ctl("exit") } },
      s \in Around(Run("f", Lit(b)), Lit(a)) }

\* f calls g, or itself, before it reads its argument.
NestedPrograms ==
  { WithFG(Block(<< s, Run("r", Ref(Arg)) >>), Run("p", Ref(Arg)), << Run("f", Lit(a)) >>) :
      s \in Forked(Run("g", Lit(b)), Lit(a)) \cup Guarded(Run("g", Lit(b)), Lit(a)) }
  \cup
  { WithF(Block(<< Run("r", Ref(Arg)), s >>), << Run("f", Lit(a)) >>) :
      s \in Around(Run("f", Lit(b)), Lit(a)) }

Settings == { Set("x", Lit(b)), Set("x", Subst({secret})), Set("x", RefOr("x", b)) }
Changed(s, v) == InShell(s, v) \cup Forked(s, v)

DataPrograms ==
  { Prog(<< Set("x", w), s, use >>) :
      w \in { Lit(a), Lit(empty), Subst({secret}) },
      s \in UNION { Changed(s, Ref("x")) : s \in Settings },
      use \in { Run("r", Ref("x")), Run("r", RefOr("x", a)),
                Case(Ref("x"), << Item({b}, << Rest >>) >>) } }
  \cup { Prog(<< Set("x", Lit(a)), s, Run("r", Ref("x")) >>) : s \in Nest(Changed, Changed, Settings \ { Set("x", RefOr("x", b)) }) }
  \cup { Prog(<< s, Run("r", RefOr("x", a)) >>) :
           s \in UNION { Decided(s, Ref("x")) : s \in Settings } }

\* Lines that carry out s once, or not at all, and use no other name.
Once(s) ==
  { Block(<< s >>), And(T, s), And(F, s), Or(F, s), If(<< Arm(<< T >>, << s >>) >>),
    For("x", << Lit(a) >>, << s >>), Case(Lit(a), << Item({a}, << s >>) >>) }
Apart(s) == { Sub(<< s >>), Bg(s), Pipe(<< s, T >>), Pipe(<< T, s >>) }

Uses == { Run("p", Lit(b)), RunAs("quoted", "p", Lit(b)), RunAs("external", "p", Lit(b)),
          Run("h", Lit(b)), Run("f", Lit(b)) }

\* f runs a program that no table names, or is declared again.
Helper     == Run("t", Ref(Arg))
Redeclared == Decl("f", Run("r", Ref(Arg)))
WithHelper(ss) ==
  [body |-> << Decl("f", Helper) >> \o ss \o << Rest >>,
   funcs |-> [n \in {"f"} |-> IF Redeclared \in Elems(ss) THEN Redeclared.cmd.body ELSE Helper]]

AliasSteps ==
  { Alias("p", "q"), Alias("q", "r"), Alias("p", "p"), Alias("p", "f"), Alias("h", "p"),
    Unalias("p"), Unalias(All), Unalias(Unresolved) }
HashSteps ==
  { HashTo("p", "q"), HashTo("p", Unresolved), HashTo("f", "r"), HashTo(Unresolved, "q"),
    HashForget("p"), HashForget(All), HashForget(Unresolved) }

\* The last change a use of a name may see, and the one before it.  A hashed name
\* is not followed by an assignment to PATH, nor that by a wrapper.
NamePrograms ==
  { WithHelper(<< s, t, use >>) : s \in AliasSteps, t \in AliasSteps, use \in Uses }
  \cup
  { WithHelper(<< Alias("p", n), s, use >>) :
      n \in {"q", "f"}, use \in Uses,
      s \in UNION { Once(s) \cup Apart(s) : s \in { Alias("p", "r"), Alias("h", "p"),
                                                     Unalias("p"), Unalias(Unresolved) } } }
  \cup
  { WithHelper(<< Alias("p", "q"), Alias("q", "r"), Alias("r", "p"), use >>) : use \in Uses }
  \cup
  { WithHelper(<< s, t, use >>) :
      s \in { Redeclared } \cup { Alias("p", "q"), Alias("h", "p"), Alias("p", "f") } \cup HashSteps,
      t \in HashSteps \cup { Redeclared }, use \in Uses }
  \cup
  { WithHelper(<< HashTo("p", "q"), s, use >>) :
      s \in UNION { Decided(s, Lit(a)) : s \in { HashTo("p", "r"), HashForget("p") } },
      use \in Uses }
  \cup
  { WithHelper(<< s, use >>) :
      s \in UNION { Decided(s, Lit(a)) \cup Guarded(s, Lit(a)) \cup Apart(s) :
                      s \in { SetPath(TRUE), SetPath(FALSE) } },
      use \in { u \in Uses : u.cmd.how # "external" } }
  \cup
  { WithHelper(<< Alias("p", "q"), s >>) : s \in Around(Run("p", Lit(b)), Lit(a)) }

ArgumentPrograms ==
  { Prog(<< SetArgs(Lit(a)), s, Run("r", w) >>) :
      s \in UNION { Changed(s, Ref(Arg)) : s \in { SetArgs(Lit(b)), Shift } },
      w \in { Ref(Arg), RefOr(Arg, b) } }
  \cup
  { WithF(Block(<< SetArgs(w), Run("p", Ref(Arg)) >>), << SetArgs(Lit(a)), s, Run("r", Ref(Arg)) >>) :
      w \in { Lit(b), Lit(empty) },
      s \in { Sub(<< Run("f", Lit(b)) >>), Run("f", Lit(a)) } }
  \cup
  { Prog(<< Set("x", Lit(a)), s, Run("r", RefOr("x", b)) >>) :
      s \in Decided(UnsetVar("x"), Lit(a)) \cup Forked(UnsetVar("x"), Lit(a)) }

MCPrograms ==
  ControlPrograms \cup CallPrograms \cup NestedPrograms \cup DataPrograms
    \cup NamePrograms \cup ArgumentPrograms
=============================================================================
