-------------------------- MODULE MCBashDivergence ---------------------------
(***************************************************************************)
(* Programs kept out of MCBashSoundness, on which the interpreter misses   *)
(* an effect.                                                              *)
(***************************************************************************)
EXTENDS MCBashSoundness

\* x is set on one branch only.
OneSided ==
  { Prog(<< s, Run("r", w) >>) :
      s \in UNION { Guarded(d, Lit(a)) :
                      d \in UNION { Decided(t, Lit(a)) :
                                      t \in { Set("x", Lit(b)), Set("x", Subst({secret})) } } },
      w \in { Ref("x"), RefOr("x", a) } }
=============================================================================
