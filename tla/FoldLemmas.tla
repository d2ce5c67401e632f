--------------------------- MODULE FoldLemmas ---------------------------
(***************************************************************************)
(* What the proofs need of numbers, greatest members and sequences, and of *)
(* folds written as recursive functions.                                   *)
(***************************************************************************)
EXTENDS Integers, Sequences, FiniteSetsExt, TLAPS, WellFoundedInduction

-----------------------------------------------------------------------------
\* Induction over the numbers, and the folds written as recursive functions.

\* A set of numbers that holds 0, and with each number the next, holds them all.
LEMMA SetInduction ==
  ASSUME NEW T, 0 \in T, \A n \in Nat : n \in T => n + 1 \in T
  PROVE  Nat \subseteq T
<1>1. SUFFICES ASSUME Nat \ T # {} PROVE FALSE
  OBVIOUS
<1>2. PICK x \in Nat \ T : \A y \in Nat \ T : ~(y < x)
  <2>1. PICK x \in Nat \ T : \A y \in Nat \ T : ~(<< y, x >> \in OpToRel(<, Nat))
    BY <1>1, NatLessThanWellFounded, WFMin
  <2> QED
    BY <2>1 DEF OpToRel
<1>3. x # 0 /\ x - 1 \in Nat /\ x - 1 < x /\ x = (x - 1) + 1
  OBVIOUS
<1>4. x - 1 \in T
  BY <1>2, <1>3
<1> QED
  BY <1>3, <1>4

\* g folds step over the elements of seq, from base.
Folds(g, S, step, seq, base) ==
  /\ g \in [0 .. Len(seq) -> S]
  /\ g[0] = base
  /\ \A i \in 1 .. Len(seq) : g[i] = step[<< g[i - 1], seq[i] >>]

\* There is such a function.
LEMMA FoldExists ==
  ASSUME NEW S, NEW D, NEW step \in [S \X D -> S], NEW seq \in Seq(D), NEW base \in S
  PROVE  \E g : Folds(g, S, step, seq, base)
<1> DEFINE N == Len(seq)
           Upto(n, g) == g[0] = base /\ \A i \in 1 .. n : g[i] = step[<< g[i - 1], seq[i] >>]
           T == {n \in Nat : n <= N => \E g \in [0 .. n -> S] : Upto(n, g)}
<1>1. N \in Nat
  OBVIOUS
<1>2. 0 \in T
  <2>1. Upto(0, [i \in 0 .. 0 |-> base]) /\ [i \in 0 .. 0 |-> base] \in [0 .. 0 -> S]
    OBVIOUS
  <2> QED
    BY <2>1
<1>3. ASSUME NEW n \in Nat, n \in T PROVE n + 1 \in T
  <2>1. SUFFICES ASSUME n + 1 <= N PROVE \E g \in [0 .. n + 1 -> S] : Upto(n + 1, g)
    OBVIOUS
  <2>2. PICK g \in [0 .. n -> S] : Upto(n, g)
    BY <1>3, <2>1, <1>1
  <2> DEFINE h == [i \in 0 .. n + 1 |-> IF i = n + 1 THEN step[<< g[n], seq[n + 1] >>] ELSE g[i]]
  <2>3. seq[n + 1] \in D /\ g[n] \in S /\ step[<< g[n], seq[n + 1] >>] \in S
    BY <2>1, <2>2, <1>1
  <2>4. h \in [0 .. n + 1 -> S]
    BY <2>2, <2>3
  <2>5. ASSUME NEW i \in 1 .. n + 1 PROVE h[i] = step[<< h[i - 1], seq[i] >>]
    <3>1. CASE i = n + 1
      <4>1. h[n + 1] = step[<< g[n], seq[n + 1] >>] /\ h[n] = g[n] /\ i - 1 = n
        BY <3>1
      <4> QED
        BY <3>1, <4>1
    <3>2. CASE i # n + 1
      BY <3>2, <2>2
    <3> QED
      BY <3>1, <3>2
  <2>6. h[0] = base
    BY <2>2
  <2> QED
    BY <2>4, <2>5, <2>6
<1>4. Nat \subseteq T
  <2> HIDE DEF T
  <2> QED
    BY <1>2, <1>3, SetInduction
<1>5. PICK g \in [0 .. N -> S] : Upto(N, g)
  BY <1>1, <1>4
<1>6. Folds(g, S, step, seq, base)
  BY <1>5 DEF Folds
<1> QED
  BY <1>6

-----------------------------------------------------------------------------
\* Largest and smallest members

LEMMA LeastMember ==
  ASSUME NEW S, S \subseteq Nat, S # {}
  PROVE  Min(S) \in S /\ \A x \in S : Min(S) <= x
<1>1. PICK x \in S : \A y \in S : ~(<< y, x >> \in OpToRel(<, Nat))
  BY NatLessThanWellFounded, WFMin
<1>2. \A y \in S : ~(y < x)
  BY <1>1 DEF OpToRel
<1>3. \A y \in S : x <= y
  BY <1>2
<1> QED
  BY <1>3 DEF Min

LEMMA GreatestMember ==
  ASSUME NEW n \in Nat, NEW S, S \subseteq 0 .. n, S # {}
  PROVE  Max(S) \in S /\ \A x \in S : x <= Max(S)
<1> DEFINE T == {n - x : x \in S}
<1>1. T \subseteq Nat /\ T # {}
  <2>1. \A x \in S : n - x \in Nat
    OBVIOUS
  <2> QED
    BY <2>1
<1>2. Min(T) \in T /\ \A y \in T : Min(T) <= y
  <2> HIDE DEF T
  <2> QED
    BY <1>1, LeastMember
<1>3. PICK x \in S : Min(T) = n - x
  BY <1>2
<1>4. \A y \in S : y <= x
  <2>1. ASSUME NEW y \in S PROVE y <= x
    <3>1. n - y \in T
      OBVIOUS
    <3>2. n - x <= n - y
      BY <1>2, <1>3, <3>1
    <3> QED
      BY <3>2
  <2> QED
    BY <2>1
<1>5. \A y \in S : x >= y
  BY <1>4
<1> QED
  BY <1>5 DEF Max

\* A set below another has a smaller greatest member.
LEMMA GreatestGrows ==
  ASSUME NEW n \in Nat, NEW S, NEW T, S \subseteq 0 .. n, T \subseteq 0 .. n, S # {},
         \A x \in S : \E y \in T : x <= y
  PROVE  Max(S) <= Max(T)
<1>1. T # {}
  OBVIOUS
<1>2. Max(S) \in S
  BY GreatestMember
<1>3. Max(T) \in T /\ \A y \in T : y <= Max(T)
  BY <1>1, GreatestMember
<1>4. PICK y \in T : Max(S) <= y
  BY <1>2
<1>5. y \in 0 .. n /\ Max(S) \in 0 .. n /\ Max(T) \in 0 .. n
  BY <1>2, <1>3
<1>6. y <= Max(T)
  BY <1>3
<1> QED
  BY <1>4, <1>5, <1>6

-----------------------------------------------------------------------------
\* Sequences

\* A concatenation has the elements of the one, then those of the other.
LEMMA ConcatElements ==
  ASSUME NEW T, NEW s \in Seq(T), NEW t \in Seq(T)
  PROVE  /\ s \o t \in Seq(T)
         /\ Len(s \o t) = Len(s) + Len(t)
         /\ DOMAIN (s \o t) = 1 .. (Len(s) + Len(t))
         /\ \A i \in 1 .. Len(s) : (s \o t)[i] = s[i]
         /\ \A i \in 1 .. Len(t) : (s \o t)[Len(s) + i] = t[i]
OBVIOUS
=============================================================================
