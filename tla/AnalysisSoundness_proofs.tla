---------------------- MODULE AnalysisSoundness_proofs ----------------------
(***************************************************************************)
(* Proofs about the report and the decision, for every set of programs,    *)
(* every extension and every policy a caller may have built.               *)
(***************************************************************************)
EXTENDS AnalysisSoundness, FoldLemmas

-----------------------------------------------------------------------------
\* The policy: the strongest of the rules decides.

LEMMA StrongerIsMax ==
  ASSUME NEW a \in Actions, NEW b \in Actions
  PROVE  /\ Stronger(a, b) \in {a, b} /\ Stronger(a, b) \in Actions
         /\ Rank(a) <= Rank(Stronger(a, b)) /\ Rank(b) <= Rank(Stronger(a, b))
BY DEF Actions, Stronger, Rank

LEMMA RankOrders ==
  ASSUME NEW a \in Actions, NEW b \in Actions
  PROVE  /\ Rank(a) \in 0 .. 2 /\ Rank("allow") = 0
         /\ Rank(a) = Rank(b) => a = b
         /\ a # "deny" => Rank(a) < Rank("deny")
         /\ Rank(b) <= Rank("deny")
BY DEF Actions, Rank

\* What the rules decide is one of them, or "allow", and none is stronger.
LEMMA StrongestIsMax ==
  ASSUME NEW rules \in Seq(Actions)
  PROVE  /\ Strongest(rules) \in Actions
         /\ \A i \in DOMAIN rules : Rank(rules[i]) <= Rank(Strongest(rules))
         /\ Strongest(rules) = "allow" \/ \E i \in DOMAIN rules : rules[i] = Strongest(rules)
<1> DEFINE N == Len(rules)
           Sofar(f) == f = [i \in 0 .. N |-> IF i = 0 THEN "allow" ELSE Stronger(f[i - 1], rules[i])]
           sofar == CHOOSE f : Sofar(f)
           step == [x \in Actions \X Actions |-> Stronger(x[1], x[2])]
<1>1. N \in Nat /\ DOMAIN rules = 1 .. N /\ "allow" \in Actions
  BY DEF Actions
<1>2. Sofar(sofar)
  <2>1. step \in [Actions \X Actions -> Actions]
    BY StrongerIsMax
  <2>2. PICK g : Folds(g, Actions, step, rules, "allow")
    <3> HIDE DEF step
    <3> QED
      BY <1>1, <2>1, FoldExists
  <2>3. ASSUME NEW i \in 1 .. N PROVE g[i] = Stronger(g[i - 1], rules[i])
    <3>1. i - 1 \in 0 .. N /\ g[i - 1] \in Actions /\ rules[i] \in Actions
      BY <2>2, <1>1 DEF Folds
    <3> QED
      BY <2>2, <3>1 DEF Folds
  <2>4. Sofar(g)
    BY <2>2, <2>3, <1>1 DEF Folds
  <2> QED
    BY <2>4
<1> HIDE DEF sofar
<1> DEFINE Top(n) == /\ sofar[n] \in Actions
                     /\ \A i \in 1 .. n : Rank(rules[i]) <= Rank(sofar[n])
                     /\ sofar[n] = "allow" \/ \E i \in 1 .. n : rules[i] = sofar[n]
           T == {n \in Nat : n <= N => Top(n)}
<1>3. 0 \in T
  BY <1>1, <1>2
<1>4. ASSUME NEW n \in Nat, n \in T PROVE n + 1 \in T
  <2>1. SUFFICES ASSUME n + 1 <= N PROVE Top(n + 1)
    OBVIOUS
  <2>2. Top(n) /\ rules[n + 1] \in Actions
    BY <1>4, <2>1, <1>1
  <2>3. sofar[n + 1] = Stronger(sofar[n], rules[n + 1])
    BY <1>2, <2>1, <1>1
  <2>4. /\ sofar[n + 1] \in {sofar[n], rules[n + 1]} /\ sofar[n + 1] \in Actions
        /\ Rank(sofar[n]) <= Rank(sofar[n + 1]) /\ Rank(rules[n + 1]) <= Rank(sofar[n + 1])
    BY <2>2, <2>3, StrongerIsMax
  <2>5. ASSUME NEW i \in 1 .. n + 1 PROVE Rank(rules[i]) <= Rank(sofar[n + 1])
    <3>1. CASE i = n + 1
      BY <3>1, <2>4
    <3>2. CASE i \in 1 .. n
      <4>1. Rank(rules[i]) <= Rank(sofar[n]) /\ rules[i] \in Actions
        BY <3>2, <2>1, <2>2, <1>1
      <4>2. Rank(rules[i]) \in Int /\ Rank(sofar[n]) \in Int /\ Rank(sofar[n + 1]) \in Int
        BY <4>1, <2>2, <2>4, RankOrders
      <4> QED
        BY <4>1, <4>2, <2>4
    <3> QED
      BY <3>1, <3>2
  <2> QED
    BY <2>2, <2>4, <2>5
<1>5. Top(N)
  <2>1. Nat \subseteq T
    <3> HIDE DEF T
    <3> QED
      BY <1>3, <1>4, SetInduction
  <2> QED
    BY <2>1, <1>1
<1>6. Strongest(rules) = sofar[N]
  BY DEF Strongest, sofar
<1> QED
  BY <1>1, <1>5, <1>6

-----------------------------------------------------------------------------
\* The rows of the report

\* An effect whose provenance is known, as every one of this frontend.
Labelled(e) == ValidEffect(e) /\ ~e.taint.arbitrary

\* The effects of a row: what normalisation joins to e.
Class(e, S) == {o \in S : SameRow(e, o)}

LEMMA JoinAllIsJoin ==
  ASSUME NEW U, NEW X, X \subseteq FlatSet(U)
  PROVE  /\ JoinAll(X) \in FlatSet(U)
         /\ JoinAll(X).arbitrary <=> \E s \in X : s.arbitrary
         /\ ~JoinAll(X).arbitrary => JoinAll(X).elems = UNION {s.elems : s \in X}
         /\ \A s \in X : FlatLeq(s, JoinAll(X))
BY DEF JoinAll, FlatSet, FlatTop, FlatOf, FlatLeq

\* What a row says: the join of its effects, above each of them.
LEMMA JoinRowIsJoin ==
  ASSUME NEW S, \A x \in S : Labelled(x), NEW e \in S
  PROVE  /\ Labelled(JoinRow(e, Class(e, S)))
         /\ SameRow(e, JoinRow(e, Class(e, S)))
         /\ \A x \in Class(e, S) : EffectLeq(x, JoinRow(e, Class(e, S)))
         /\ JoinRow(e, Class(e, S)).target.arbitrary <=> \E x \in Class(e, S) : x.target.arbitrary
         /\ ~JoinRow(e, Class(e, S)).target.arbitrary =>
              JoinRow(e, Class(e, S)).target.elems = UNION {x.target.elems : x \in Class(e, S)}
         /\ JoinRow(e, Class(e, S)).taint.elems = UNION {x.taint.elems : x \in Class(e, S)}
         /\ JoinRow(e, Class(e, S)).certainty \in {x.certainty : x \in Class(e, S)}
         /\ JoinRow(e, Class(e, S)).reversible <=> \A x \in Class(e, S) : x.reversible
<1> DEFINE C == Class(e, S)
           r == JoinRow(e, C)
<1>1. e \in C /\ \A x \in C : x \in S /\ Labelled(x) /\ x \in Effects /\ SameRow(e, x)
  BY DEF Class, SameRow, Labelled, ValidEffect
<1> HIDE DEF C
<1>2. /\ r.target \in FlatSet(Targets)
      /\ r.target.arbitrary <=> \E x \in C : x.target.arbitrary
      /\ ~r.target.arbitrary => r.target.elems = UNION {x.target.elems : x \in C}
      /\ \A x \in C : FlatLeq(x.target, r.target)
  <2> DEFINE X == {x.target : x \in C}
  <2>1. X \subseteq FlatSet(Targets)
    BY <1>1 DEF Effects
  <2>2. r.target = JoinAll(X)
    BY DEF JoinRow
  <2>3. /\ JoinAll(X) \in FlatSet(Targets)
        /\ JoinAll(X).arbitrary <=> \E s \in X : s.arbitrary
        /\ ~JoinAll(X).arbitrary => JoinAll(X).elems = UNION {s.elems : s \in X}
        /\ \A s \in X : FlatLeq(s, JoinAll(X))
    BY <2>1, JoinAllIsJoin
  <2>4. UNION {s.elems : s \in X} = UNION {x.target.elems : x \in C}
    OBVIOUS
  <2> QED
    BY <2>2, <2>3, <2>4
<1>3. /\ r.taint \in FlatSet(Labels)
      /\ ~r.taint.arbitrary
      /\ r.taint.elems = UNION {x.taint.elems : x \in C}
      /\ \A x \in C : FlatLeq(x.taint, r.taint)
  <2> DEFINE X == {x.taint : x \in C}
  <2>1. X \subseteq FlatSet(Labels) /\ \A s \in X : ~s.arbitrary
    BY <1>1 DEF Effects, Labelled
  <2>2. r.taint = JoinAll(X)
    BY DEF JoinRow
  <2>3. /\ JoinAll(X) \in FlatSet(Labels)
        /\ JoinAll(X).arbitrary <=> \E s \in X : s.arbitrary
        /\ ~JoinAll(X).arbitrary => JoinAll(X).elems = UNION {s.elems : s \in X}
        /\ \A s \in X : FlatLeq(s, JoinAll(X))
    BY <2>1, JoinAllIsJoin
  <2>4. UNION {s.elems : s \in X} = UNION {x.taint.elems : x \in C}
    OBVIOUS
  <2> QED
    BY <2>1, <2>2, <2>3, <2>4
<1>4. r.certainty \in {x.certainty : x \in C} /\ r.certainty \in 0 .. 4 /\ \A x \in C : x.certainty <= r.certainty
  <2> DEFINE X == {x.certainty : x \in C}
  <2>1. X \subseteq 0 .. 4 /\ X # {} /\ 4 \in Nat
    BY <1>1 DEF Effects, Certainties
  <2>2. Max(X) \in X /\ \A x \in X : x <= Max(X)
    <3> HIDE DEF X
    <3> QED
      BY <2>1, GreatestMember
  <2>3. r.certainty = Max(X)
    BY DEF JoinRow
  <2> QED
    BY <2>1, <2>2, <2>3
<1>5. r.reversible \in BOOLEAN /\ (r.reversible <=> \A x \in C : x.reversible)
  BY DEF JoinRow
<1>6. r.kind = e.kind /\ r.mode = e.mode /\ r.netFlow = e.netFlow /\ SameRow(e, r)
  BY DEF JoinRow, SameRow
<1>7. r \in Effects
  <2>1. e.kind \in EffectKinds /\ e.mode \in EffectModes /\ e.netFlow \in FlowRoles
    BY <1>1 DEF Effects
  <2>2. r = [kind |-> r.kind, mode |-> r.mode, netFlow |-> r.netFlow, target |-> r.target,
             certainty |-> r.certainty, taint |-> r.taint, reversible |-> r.reversible]
    BY DEF JoinRow
  <2> HIDE DEF r
  <2> QED
    BY <1>2, <1>3, <1>4, <1>5, <1>6, <2>1, <2>2 DEF Effects, Certainties
<1>8. Labelled(r)
  <2> HIDE DEF r
  <2> QED
    BY <1>1, <1>3, <1>6, <1>7 DEF Labelled, ValidEffect
<1>9. \A x \in C : EffectLeq(x, r)
  <2> HIDE DEF r
  <2> QED
    BY <1>1, <1>2, <1>3, <1>4, <1>5, <1>6 DEF EffectLeq, SameRow
<1> QED
  BY <1>2, <1>3, <1>4, <1>5, <1>6, <1>8, <1>9 DEF C

\* Every effect of S is below one of T.
Below(S, T) == \A e \in S : \E f \in T : EffectLeq(e, f)

LEMMA JoinRowIsLeast ==
  ASSUME NEW S, \A x \in S : Labelled(x), NEW e \in S, NEW t, Labelled(t),
         \A x \in Class(e, S) : EffectLeq(x, t)
  PROVE  EffectLeq(JoinRow(e, Class(e, S)), t)
<1> DEFINE C == Class(e, S)
           r == JoinRow(e, C)
<1>1. e \in C /\ \A x \in C : x \in S
  BY DEF Class, SameRow
<1>2. \A x \in C : EffectLeq(x, t) /\ SameRow(x, t) /\ ~x.taint.arbitrary
  BY <1>1 DEF EffectLeq, SameRow, Labelled
<1>3. /\ Labelled(r) /\ SameRow(e, r)
      /\ r.target.arbitrary <=> \E x \in C : x.target.arbitrary
      /\ ~r.target.arbitrary => r.target.elems = UNION {x.target.elems : x \in C}
      /\ r.taint.elems = UNION {x.taint.elems : x \in C}
      /\ r.certainty \in {x.certainty : x \in C}
      /\ r.reversible <=> \A x \in C : x.reversible
  BY JoinRowIsJoin
<1> HIDE DEF C, r
<1>4. r.kind = t.kind /\ r.mode = t.mode /\ r.netFlow = t.netFlow
  BY <1>1, <1>2, <1>3 DEF SameRow
<1>5. FlatLeq(r.target, t.target)
  BY <1>2, <1>3 DEF FlatLeq, EffectLeq
<1>6. FlatLeq(r.taint, t.taint)
  BY <1>2, <1>3 DEF FlatLeq, EffectLeq, Labelled
<1>7. r.certainty <= t.certainty
  BY <1>2, <1>3 DEF EffectLeq
<1>8. t.reversible => r.reversible
  BY <1>2, <1>3 DEF EffectLeq
<1>9. EffectLeq(r, t)
  BY <1>4, <1>5, <1>6, <1>7, <1>8 DEF EffectLeq
<1> QED
  BY <1>9 DEF r, C

\* Normalised rows are effects, one for each kind, mode and flow, above the
\* effects they join.
LEMMA NormalizedRows ==
  ASSUME NEW S, \A x \in S : Labelled(x)
  PROVE  /\ \A r \in NormalizeEffects(S) : Labelled(r)
         /\ \A r, t \in NormalizeEffects(S) : SameRow(r, t) => r = t
         /\ Below(S, NormalizeEffects(S))
         /\ \A r \in NormalizeEffects(S) : \E e \in S : r = JoinRow(e, Class(e, S))
         /\ \A e \in S : JoinRow(e, Class(e, S)) \in NormalizeEffects(S)
<1>1. NormalizeEffects(S) = {JoinRow(e, Class(e, S)) : e \in S}
  BY DEF NormalizeEffects, Class
<1>2. \A e \in S : /\ Labelled(JoinRow(e, Class(e, S))) /\ SameRow(e, JoinRow(e, Class(e, S)))
                   /\ EffectLeq(e, JoinRow(e, Class(e, S)))
  <2>1. SUFFICES ASSUME NEW e \in S
                 PROVE  /\ Labelled(JoinRow(e, Class(e, S))) /\ SameRow(e, JoinRow(e, Class(e, S)))
                        /\ EffectLeq(e, JoinRow(e, Class(e, S)))
    OBVIOUS
  <2>2. e \in Class(e, S)
    BY DEF Class, SameRow
  <2> QED
    BY <2>2, JoinRowIsJoin
<1>3. ASSUME NEW e \in S, NEW f \in S, SameRow(JoinRow(e, Class(e, S)), JoinRow(f, Class(f, S)))
      PROVE  JoinRow(e, Class(e, S)) = JoinRow(f, Class(f, S))
  <2>1. SameRow(e, f)
    BY <1>2, <1>3 DEF SameRow
  <2>2. Class(e, S) = Class(f, S)
    BY <2>1 DEF Class, SameRow
  <2> QED
    BY <2>1, <2>2 DEF JoinRow, SameRow
<1>4. Below(S, NormalizeEffects(S))
  BY <1>1, <1>2 DEF Below
<1> QED
  BY <1>1, <1>2, <1>3, <1>4

\* Normalisation is monotone.
LEMMA NormalizeIsMonotone ==
  ASSUME NEW S, NEW T, \A x \in S : Labelled(x), \A x \in T : Labelled(x), Below(S, T)
  PROVE  Below(NormalizeEffects(S), NormalizeEffects(T))
<1>1. SUFFICES ASSUME NEW e \in S
               PROVE  \E t \in NormalizeEffects(T) : EffectLeq(JoinRow(e, Class(e, S)), t)
  BY NormalizedRows DEF Below
<1>2. PICK f \in T : EffectLeq(e, f)
  BY DEF Below
<1> DEFINE t == JoinRow(f, Class(f, T))
<1>3. t \in NormalizeEffects(T) /\ Labelled(t) /\ \A y \in Class(f, T) : EffectLeq(y, t)
  BY NormalizedRows, JoinRowIsJoin
<1>4. ASSUME NEW x \in Class(e, S) PROVE EffectLeq(x, t)
  <2>1. x \in S /\ SameRow(e, x) /\ Labelled(x)
    BY DEF Class
  <2>2. PICK y \in T : EffectLeq(x, y)
    BY <2>1 DEF Below
  <2>3. y \in Class(f, T) /\ Labelled(y)
    BY <1>2, <2>1, <2>2 DEF Class, SameRow, EffectLeq
  <2>4. EffectLeq(y, t)
    BY <1>3, <2>3
  <2> HIDE DEF t
  <2>5. x.certainty \in Int /\ y.certainty \in Int /\ t.certainty \in Int
    BY <1>3, <2>1, <2>3 DEF Labelled, ValidEffect, Effects, Certainties
  <2> QED
    BY <2>2, <2>4, <2>5 DEF EffectLeq, FlatLeq
<1>5. EffectLeq(JoinRow(e, Class(e, S)), t)
  <2> HIDE DEF t
  <2> QED
    BY <1>3, <1>4, JoinRowIsLeast
<1> QED
  BY <1>3, <1>5

-----------------------------------------------------------------------------
\* The effects of a program

LEMMA ScopeType ==
  ASSUME NEW words, ToSet(words) \subseteq Words
  PROVE  /\ ScopeOf(words) \in FlatSet(Targets)
         /\ \A t \in ToSet(words) : ScopeOf(words).arbitrary \/ t \in ScopeOf(words).elems
BY PathsAssumption DEF ScopeOf, Words, FlatSet, FlatTop, FlatOf

\* A flow role fixes the kind of the effect that carries it.
FlowFits(kind, flow) ==
  flow \in FlowRoles /\ (flow = FlowCradle => kind = "CodeExec") /\ (flow = FlowIngest => kind = "FSWrite")

LEMMA EffectLabelled ==
  ASSUME NEW kind \in EffectKinds, NEW target \in FlatSet(Targets), NEW taint \in SUBSET Labels, NEW flow, FlowFits(kind, flow)
  PROVE  /\ Labelled(Effect(kind, target, taint, flow))
         /\ Effect(kind, target, taint, flow).kind = kind
         /\ Effect(kind, target, taint, flow).mode = "Direct"
         /\ Effect(kind, target, taint, flow).target = target
         /\ Effect(kind, target, taint, flow).taint = FlatOf(taint)
         /\ Effect(kind, target, taint, flow).netFlow = flow
<1> DEFINE e == Effect(kind, target, taint, flow)
<1>1. /\ e.kind = kind /\ e.mode = "Direct" /\ e.target = target /\ e.certainty = 4 /\ e.taint = FlatOf(taint)
      /\ e.reversible = DefaultReversible(kind) /\ e.netFlow = flow
  BY DEF Effect
<1>2. /\ FlatOf(taint) \in FlatSet(Labels) /\ ~FlatOf(taint).arbitrary
  BY DEF FlatSet, FlatOf
<1>3. e \in Effects
  <2>1. "Direct" \in EffectModes /\ DefaultReversible(kind) \in BOOLEAN /\ 4 \in Certainties
    BY DEF EffectModes, DefaultReversible, Certainties
  <2>2. FlatOf(taint) \in FlatSet(Labels)
    BY <1>2
  <2> HIDE DEF e
  <2>3. e = [kind |-> kind, mode |-> "Direct", target |-> target, certainty |-> 4, taint |-> FlatOf(taint),
             reversible |-> DefaultReversible(kind), netFlow |-> flow]
    BY DEF Effect, e
  <2> QED
    BY <2>1, <2>2, <2>3 DEF Effects, FlowFits
<1>4. Labelled(e)
  <2> HIDE DEF e
  <2> QED
    BY <1>1, <1>2, <1>3 DEF Labelled, ValidEffect, FlowFits
<1> QED
  BY <1>1, <1>4 DEF e

LEMMA PlainLabelled ==
  ASSUME NEW kind \in EffectKinds, NEW words, ToSet(words) \subseteq Words
  PROVE  /\ Labelled(Plain(kind, words)) /\ Plain(kind, words).kind = kind /\ Plain(kind, words).target = ScopeOf(words)
         /\ Plain(kind, words).mode = "Direct"
<1>1. ScopeOf(words) \in FlatSet(Targets) /\ {} \in SUBSET Labels
  BY ScopeType
<1>2. FlowFits(kind, FlowNone)
  BY DEF FlowFits, FlowRoles, FlowNone, FlowCradle, FlowIngest
<1>3. Plain(kind, words) = Effect(kind, ScopeOf(words), {}, FlowNone)
  BY DEF Plain
<1>4. /\ Labelled(Effect(kind, ScopeOf(words), {}, FlowNone))
      /\ Effect(kind, ScopeOf(words), {}, FlowNone).kind = kind
      /\ Effect(kind, ScopeOf(words), {}, FlowNone).mode = "Direct"
      /\ Effect(kind, ScopeOf(words), {}, FlowNone).target = ScopeOf(words)
  BY <1>1, <1>2, EffectLabelled
<1> QED
  BY <1>3, <1>4

\* The words of a call.
LEMMA CallWords ==
  ASSUME NEW c, WellFormed(c)
  PROVE  /\ ToSet(c.ops) \subseteq Words /\ Len(c.ops) \in Nat /\ DOMAIN c.ops = 1 .. Len(c.ops)
         /\ \A i \in DOMAIN c.ops : c.ops[i] \in Words /\ c.ops[i] \in ToSet(c.ops)
         /\ c.op \in {"cp", "mv"} => Len(c.ops) = 2 /\ ToSet(Tail(c.ops)) = {c.ops[2]}
         /\ c.op = "curl" => c.ops # << >> /\ Last(c.ops) \in Words /\ c.ops[1] \in Words
         /\ \A r \in ToSet(c.redirs) : r.op \in WriteOps \cup {"<"} => r.target \in Words
         /\ Len(c.redirs) \in Nat /\ DOMAIN c.redirs = 1 .. Len(c.redirs)
         /\ \A i \in DOMAIN c.redirs : c.redirs[i] \in ToSet(c.redirs) /\ c.redirs[i].op \in WriteOps \cup {"<", "2>&1"}
<1>1. c.ops \in Seq(Words)
  BY DEF WellFormed
<1>2. /\ ToSet(c.ops) \subseteq Words /\ Len(c.ops) \in Nat /\ DOMAIN c.ops = 1 .. Len(c.ops)
      /\ \A i \in DOMAIN c.ops : c.ops[i] \in Words /\ c.ops[i] \in ToSet(c.ops)
  BY <1>1 DEF ToSet
<1>3. ASSUME c.op \in {"cp", "mv"} PROVE Len(c.ops) = 2 /\ ToSet(Tail(c.ops)) = {c.ops[2]}
  <2>1. Len(c.ops) = 2
    BY <1>3 DEF WellFormed
  <2>2. Len(Tail(c.ops)) = 1 /\ Tail(c.ops) \in Seq(Words) /\ Tail(c.ops)[1] = c.ops[2]
    BY <2>1, <1>1
  <2>4. DOMAIN Tail(c.ops) = 1 .. 1
    <3> DEFINE t == Tail(c.ops)
    <3>1. t \in Seq(Words) /\ Len(t) = 1
      BY <2>2
    <3> HIDE DEF t
    <3>2. DOMAIN t = 1 .. 1
      BY <3>1
    <3> QED
      BY <3>2 DEF t
  <2>3. 1 .. 1 = {1}
    OBVIOUS
  <2> QED
    BY <2>1, <2>2, <2>3, <2>4 DEF ToSet
<1>4. ASSUME c.op = "curl" PROVE c.ops # << >> /\ Last(c.ops) \in Words /\ c.ops[1] \in Words
  <2>1. Len(c.ops) \in {1, 2}
    BY <1>4 DEF WellFormed
  <2> QED
    BY <2>1, <1>1, <1>2 DEF Last
<1> DEFINE R == [op : WriteOps \cup {"<"}, target : Words] \cup [op : {"2>&1"}, target : {"1"}]
<1>5. c.redirs \in Seq(R)
  BY DEF WellFormed
<1>6. Len(c.redirs) \in Nat /\ DOMAIN c.redirs = 1 .. Len(c.redirs) /\ ToSet(c.redirs) \subseteq R
      /\ \A i \in DOMAIN c.redirs : c.redirs[i] \in ToSet(c.redirs)
  <2> HIDE DEF R
  <2> QED
    BY <1>5 DEF ToSet
<1>7. \A r \in R : /\ r.op \in WriteOps \cup {"<"} => r.target \in Words
                   /\ r.op \in WriteOps \cup {"<", "2>&1"}
  BY DEF WriteOps
<1> QED
  BY <1>2, <1>3, <1>4, <1>6, <1>7

LEMMA PairWords ==
  ASSUME NEW w, NEW S, w \in S
  PROVE  ToSet(<< w >>) = {w}
BY DEF ToSet

\* The effects of a call are effects, and say what the call reads and writes.
LEMMA BoundCommand ==
  ASSUME NEW c, WellFormed(c)
  PROVE  \A e \in BindCommand(c, c.ops) : Labelled(e) /\ e.mode = "Direct"
<1>1. {"FSRead", "FSMeta", "FSWrite", "ProcSpawn", "NetEgress", "Stdio", "CodeExec"} \subseteq EffectKinds
  BY DEF EffectKinds
<1>2. ToSet(c.ops) \subseteq Words
  BY CallWords
<1>3. ToSet(<< "cat" >>) \subseteq Words
  BY PathsAssumption DEF ToSet, Words
<1>4. /\ FlatTop \in FlatSet(Targets) /\ {} \in SUBSET Labels
      /\ FlowFits("FSWrite", FlowIngest) /\ FlowFits("CodeExec", FlowNone)
  BY DEF FlatTop, FlatSet, FlowFits, FlowRoles, FlowNone, FlowIngest, FlowCradle
<1>5. CASE c.op = "cat"
  <2>1. BindCommand(c, c.ops) = {IF c.ops = << >> THEN Plain("ProcSpawn", << "cat" >>) ELSE Plain("FSRead", c.ops)}
    BY <1>5 DEF BindCommand
  <2>2. Labelled(Plain("ProcSpawn", << "cat" >>)) /\ Labelled(Plain("FSRead", c.ops))
        /\ Plain("ProcSpawn", << "cat" >>).mode = "Direct" /\ Plain("FSRead", c.ops).mode = "Direct"
    BY <1>1, <1>2, <1>3, PlainLabelled
  <2> QED
    BY <2>1, <2>2
<1>6. CASE c.op \in {"cp", "mv"}
  <2>1. ToSet(<< c.ops[1] >>) \subseteq Words /\ ToSet(Tail(c.ops)) \subseteq Words
    <3>1. Len(c.ops) = 2 /\ ToSet(Tail(c.ops)) = {c.ops[2]} /\ DOMAIN c.ops = 1 .. Len(c.ops)
      BY <1>6, CallWords
    <3>2. 1 \in DOMAIN c.ops /\ 2 \in DOMAIN c.ops
      BY <3>1
    <3>3. c.ops[1] \in Words /\ c.ops[2] \in Words
      BY <3>2, CallWords
    <3> QED
      BY <3>1, <3>3, PairWords
  <2>2. \A k \in {"FSRead", "FSMeta"} : Labelled(Plain(k, << c.ops[1] >>)) /\ Plain(k, << c.ops[1] >>).mode = "Direct"
    BY <2>1, <1>1, PlainLabelled
  <2>3. /\ Labelled(Plain("FSWrite", Tail(c.ops))) /\ Plain("FSWrite", Tail(c.ops)).mode = "Direct"
        /\ Labelled(Plain("FSWrite", c.ops)) /\ Plain("FSWrite", c.ops).mode = "Direct"
    BY <2>1, <1>1, <1>2, PlainLabelled
  <2>4. BindCommand(c, c.ops) =
          {Plain(IF c.op = "cp" THEN "FSRead" ELSE "FSMeta", << c.ops[1] >>), Plain("FSWrite", Tail(c.ops))}
             \cup {Plain("FSWrite", c.ops) : f \in {"-f"} \cap c.flags}
    BY <1>6 DEF BindCommand
  <2> QED
    BY <2>2, <2>3, <2>4
<1>7. CASE c.op = "rm"
  BY <1>1, <1>2, <1>7, PlainLabelled DEF BindCommand
<1>8. CASE c.op = "curl"
  <2>1. ToSet(<< Last(c.ops) >>) \subseteq Words /\ ToSet(<< c.ops[1] >>) \subseteq Words
    BY <1>8, CallWords, PairWords
  <2>2. Labelled(Plain("NetEgress", << Last(c.ops) >>)) /\ Plain("NetEgress", << Last(c.ops) >>).mode = "Direct"
    BY <2>1, <1>1, PlainLabelled
  <2>3. ScopeOf(<< c.ops[1] >>) \in FlatSet(Targets)
    BY <2>1, ScopeType
  <2>4. /\ Labelled(Effect("FSWrite", ScopeOf(<< c.ops[1] >>), {}, FlowIngest))
        /\ Effect("FSWrite", ScopeOf(<< c.ops[1] >>), {}, FlowIngest).mode = "Direct"
    <3>1. "FSWrite" \in EffectKinds
      BY <1>1
    <3> QED
      BY <2>3, <3>1, <1>4, EffectLabelled
  <2>5. BindCommand(c, c.ops) =
          {Plain("NetEgress", << Last(c.ops) >>)}
             \cup {Effect("FSWrite", ScopeOf(<< c.ops[1] >>), {}, FlowIngest) : f \in {"-o"} \cap c.flags}
    BY <1>8 DEF BindCommand
  <2> QED
    BY <2>2, <2>4, <2>5
<1>9. CASE c.op = "echo"
  BY <1>1, <1>2, <1>9, PlainLabelled DEF BindCommand
<1>10. CASE c.op \notin {"cat", "cp", "mv", "rm", "curl", "echo"}
  <2>1. BindCommand(c, c.ops) = {Effect("CodeExec", FlatTop, {}, FlowNone)}
    BY <1>10 DEF BindCommand
  <2> QED
    <3>1. "CodeExec" \in EffectKinds
      BY <1>1
    <3>2. Labelled(Effect("CodeExec", FlatTop, {}, FlowNone)) /\ Effect("CodeExec", FlatTop, {}, FlowNone).mode = "Direct"
      BY <3>1, <1>4, EffectLabelled
    <3> QED
      BY <2>1, <3>2
<1> QED
  BY <1>5, <1>6, <1>7, <1>8, <1>9, <1>10

LEMMA RedirLabelled ==
  ASSUME NEW c, WellFormed(c), NEW r \in ToSet(c.redirs)
  PROVE  Labelled(RedirEffect(r)) /\ RedirEffect(r).mode = "Direct"
<1>1. r.op \in WriteOps \cup {"<"} => r.target \in Words
  BY CallWords
<1>2. ToSet(<< >>) \subseteq Words /\ {"FSWrite", "FSRead", "Stdio"} \subseteq EffectKinds
  BY DEF ToSet, EffectKinds
<1>3. CASE r.op \in WriteOps
  BY <1>1, <1>2, <1>3, PairWords, PlainLabelled DEF RedirEffect
<1>4. CASE r.op \notin WriteOps /\ r.op = "<"
  BY <1>1, <1>2, <1>4, PairWords, PlainLabelled DEF RedirEffect
<1>5. CASE r.op \notin WriteOps /\ r.op # "<"
  BY <1>2, <1>5, PlainLabelled DEF RedirEffect
<1> QED
  BY <1>3, <1>4, <1>5

\* Every derivation of a program is of an effect.
LEMMA DerivedLabelled ==
  ASSUME NEW p, WellFormedProgram(p)
  PROVE  \A d \in Derivations(p) : Labelled(d.effect) /\ d.effect.mode = "Direct"
<1>1. SUFFICES ASSUME NEW i \in DOMAIN p, NEW d \in CallDerivations(p, i)
               PROVE  Labelled(d.effect) /\ d.effect.mode = "Direct"
  BY DEF Derivations
<1>2. WellFormed(p[i])
  BY DEF WellFormedProgram, ToSet
<1>3. ASSUME NEW e \in CallEffects(p, i) PROVE Labelled(e) /\ e.mode = "Direct"
  <2>1. CASE p[i].op = "sh"
    <3>1. e = Effect("CodeExec", FlatTop, {}, SinkFlowRole(p, i))
      BY <2>1 DEF CallEffects
    <3>2. /\ "CodeExec" \in EffectKinds /\ FlatTop \in FlatSet(Targets) /\ {} \in SUBSET Labels
          /\ FlowFits("CodeExec", SinkFlowRole(p, i))
      BY DEF EffectKinds, FlatTop, FlatSet, FlowFits, SinkFlowRole, FlowRoles, FlowNone, FlowCradle, FlowIngest
    <3>3. /\ Labelled(Effect("CodeExec", FlatTop, {}, SinkFlowRole(p, i)))
          /\ Effect("CodeExec", FlatTop, {}, SinkFlowRole(p, i)).mode = "Direct"
      BY <3>2, EffectLabelled
    <3> QED
      BY <3>1, <3>3
  <2>2. CASE p[i].op # "sh"
    BY <1>2, <2>2, BoundCommand DEF CallEffects
  <2> QED
    BY <2>1, <2>2
<1>4. CASE \E e \in CallEffects(p, i) : d = [effect |-> e, atom |-> << "command", p[i].op >>]
  BY <1>3, <1>4
<1>5. CASE \E r \in ToSet(p[i].redirs) : d = [effect |-> RedirEffect(r), atom |-> << "redirect", r.op >>]
  BY <1>2, <1>5, RedirLabelled
<1> QED
  BY <1>4, <1>5 DEF CallDerivations

LEMMA EffectLeqTransitive ==
  ASSUME NEW x, NEW y, NEW z, Labelled(x), Labelled(y), Labelled(z), EffectLeq(x, y), EffectLeq(y, z)
  PROVE  EffectLeq(x, z)
<1>1. x.certainty \in Int /\ y.certainty \in Int /\ z.certainty \in Int
  BY DEF Labelled, ValidEffect, Effects, Certainties
<1> QED
  BY <1>1 DEF EffectLeq, FlatLeq

LEMMA EffectLeqReflexive ==
  ASSUME NEW x, Labelled(x)
  PROVE  EffectLeq(x, x)
BY DEF EffectLeq, FlatLeq, Labelled, ValidEffect, Effects, Certainties

LEMMA BelowTransitive ==
  ASSUME NEW S, NEW T, NEW V, \A x \in S : Labelled(x), \A x \in T : Labelled(x), \A x \in V : Labelled(x),
         Below(S, T), Below(T, V)
  PROVE  Below(S, V)
BY EffectLeqTransitive DEF Below

\* The network effects of writes to a share are effects.
SinkEffect(h, S) == Effect("NetEgress", h, RemoteSinkPayload(S), FlowNone)

LEMMA SinkLabelled ==
  ASSUME NEW S, \A x \in S : Labelled(x), NEW W, NEW h \in RemoteSinks(W)
  PROVE  /\ Labelled(SinkEffect(h, S)) /\ SinkEffect(h, S).kind = "NetEgress" /\ SinkEffect(h, S).target = h
         /\ SinkEffect(h, S).mode = "Direct" /\ SinkEffect(h, S).taint = FlatOf(RemoteSinkPayload(S))
         /\ SinkEffect(h, S).netFlow = FlowNone
<1>1. h \in FlatSet(Targets)
  <2>1. FlatTop \in FlatSet(Targets) /\ \A t \in Targets : FlatOf({t}) \in FlatSet(Targets)
    BY DEF FlatSet, FlatOf, FlatTop
  <2>2. CASE h = FlatTop
    BY <2>1, <2>2
  <2>3. CASE \E t \in DOMAIN Shares : h = FlatOf({Shares[t]})
    BY <2>1, <2>3, PathsAssumption
  <2> QED
    BY <2>2, <2>3 DEF RemoteSinks
<1>2. RemoteSinkPayload(S) \in SUBSET Labels
  <2>1. \A x \in S : x.taint.elems \subseteq Labels
    BY DEF Labelled, ValidEffect, Effects, FlatSet
  <2> QED
    BY <2>1, PathsAssumption DEF RemoteSinkPayload
<1>3. "NetEgress" \in EffectKinds /\ FlowFits("NetEgress", FlowNone)
  BY DEF EffectKinds, FlowFits, FlowRoles, FlowNone, FlowIngest, FlowCradle
<1>4. /\ Labelled(Effect("NetEgress", h, RemoteSinkPayload(S), FlowNone))
      /\ Effect("NetEgress", h, RemoteSinkPayload(S), FlowNone).kind = "NetEgress"
      /\ Effect("NetEgress", h, RemoteSinkPayload(S), FlowNone).mode = "Direct"
      /\ Effect("NetEgress", h, RemoteSinkPayload(S), FlowNone).target = h
      /\ Effect("NetEgress", h, RemoteSinkPayload(S), FlowNone).taint = FlatOf(RemoteSinkPayload(S))
      /\ Effect("NetEgress", h, RemoteSinkPayload(S), FlowNone).netFlow = FlowNone
  BY <1>1, <1>2, <1>3, EffectLabelled
<1> QED
  BY <1>4 DEF SinkEffect

\* The rows with the network effects of their writes, before these are merged.
WithSinks(S) == S \cup {SinkEffect(h, S) : h \in RemoteSinks(WrittenTargets(S))}

LEMMA WithSinksLabelled ==
  ASSUME NEW S, \A x \in S : Labelled(x)
  PROVE  /\ \A x \in WithSinks(S) : Labelled(x)
         /\ ApplyRemoteWriteSinks(S) = NormalizeEffects(WithSinks(S))
BY SinkLabelled DEF WithSinks, ApplyRemoteWriteSinks, SinkEffect

\* The effects of a program as bound, and normalised for the first time.
BoundEffects(p) == {d.effect : d \in Derivations(p)}
BoundRows(p)    == NormalizeEffects(BoundEffects(p))

\* The rows of a report are effects, one for each kind, mode and flow, and above
\* the effects of the program.
LEMMA ReportRows ==
  ASSUME NEW p, WellFormedProgram(p)
  PROVE  /\ \A x \in BoundEffects(p) : Labelled(x)
         /\ \A r \in BoundRows(p) : Labelled(r)
         /\ \A r \in WithSinks(BoundRows(p)) : Labelled(r)
         /\ ReportEffects(p) = NormalizeEffects(WithSinks(BoundRows(p)))
         /\ \A r \in ReportEffects(p) : Labelled(r)
         /\ \A r, t \in ReportEffects(p) : SameRow(r, t) => r = t
         /\ Below(BoundEffects(p), BoundRows(p))
         /\ Below(WithSinks(BoundRows(p)), ReportEffects(p))
         /\ Below(BoundRows(p), ReportEffects(p))
         /\ Below(BoundEffects(p), ReportEffects(p))
<1>1. \A x \in BoundEffects(p) : Labelled(x)
  BY DerivedLabelled DEF BoundEffects
<1>2. (\A r \in BoundRows(p) : Labelled(r)) /\ Below(BoundEffects(p), BoundRows(p))
  BY <1>1, NormalizedRows DEF BoundRows
<1>3. /\ \A r \in WithSinks(BoundRows(p)) : Labelled(r)
      /\ ReportEffects(p) = NormalizeEffects(WithSinks(BoundRows(p)))
  BY <1>2, WithSinksLabelled DEF ReportEffects, BoundRows, BoundEffects
<1>4. /\ \A r \in ReportEffects(p) : Labelled(r)
      /\ \A r, t \in ReportEffects(p) : SameRow(r, t) => r = t
      /\ Below(WithSinks(BoundRows(p)), ReportEffects(p))
  BY <1>3, NormalizedRows
<1>5. Below(BoundRows(p), ReportEffects(p))
  BY <1>4 DEF Below, WithSinks
<1>6. Below(BoundEffects(p), ReportEffects(p))
  BY <1>1, <1>2, <1>4, <1>5, BelowTransitive
<1> QED
  BY <1>1, <1>2, <1>3, <1>4, <1>5, <1>6

-----------------------------------------------------------------------------
\* The score

LEMMA KindDestructivenessType ==
  ASSUME NEW k \in EffectKinds
  PROVE  KindDestructiveness(k) \in 0 .. 4
BY DEF EffectKinds, KindDestructiveness

LEMMA ScopeReach ==
  ASSUME NEW S, \A x \in S : Labelled(x)
  PROVE  /\ Reach(S).arbitrary <=> \E e \in S : e.target.arbitrary
         /\ Reach(S).arbitrary => Reach(S).elems = {}
         /\ ~Reach(S).arbitrary => Reach(S).elems = UNION {e.target.elems : e \in S}
BY DEF Reach, FlatTop, FlatOf

\* How wide a scope is.
Breadths(s) == {0} \cup {BreadthOfTarget(t) : t \in s.elems}

LEMMA BreadthType ==
  ASSUME NEW s
  PROVE  /\ Breadths(s) \subseteq 0 .. 4 /\ Breadths(s) # {}
         /\ BreadthOf(s) \in 0 .. 4 /\ BreadthSeverity(s) \in 0 .. 4
         /\ BreadthSeverity(s) = IF s.elems \cap Credentials # {} /\ BreadthOf(s) < 4 THEN BreadthOf(s) + 1 ELSE BreadthOf(s)
<1>1. \A t : BreadthOfTarget(t) \in 0 .. 4
  BY PathsAssumption DEF BreadthOfTarget, Severities
<1>2. Breadths(s) \subseteq 0 .. 4 /\ Breadths(s) # {}
  BY <1>1 DEF Breadths
<1>3. Max(Breadths(s)) \in 0 .. 4
  BY <1>2, GreatestMember
<1>4. BreadthOf(s) \in 0 .. 4
  BY <1>3 DEF BreadthOf, Breadths
<1>5. ASSUME NEW d \in 0 .. 4 PROVE Escalate(d) = IF d < 4 THEN d + 1 ELSE d
  <2>1. {d + 1, 4} \subseteq Nat /\ {d + 1, 4} # {}
    OBVIOUS
  <2>2. Min({d + 1, 4}) \in {d + 1, 4} /\ \A x \in {d + 1, 4} : Min({d + 1, 4}) <= x
    BY <2>1, LeastMember
  <2> QED
    BY <2>2 DEF Escalate
<1> QED
  BY <1>2, <1>4, <1>5 DEF BreadthSeverity

LEMMA IrreversibilityType ==
  ASSUME NEW S, NEW p, NEW b \in 0 .. 4
  PROVE  /\ IrreversibilityOf(S, p) \in {0, 2}
         /\ IrreversibilitySeverity(IrreversibilityOf(S, p), b) \in 0 .. 4
BY DEF IrreversibilityOf, IrreversibilitySeverity

LEMMA InfluenceType ==
  ASSUME NEW e
  PROVE  InfluenceOf(e) \in 0 .. 4
BY DEF InfluenceOf

\* What a greatest member is taken of, and what it then is.
Destructions(S)   == {0} \cup {KindDestructiveness(e.kind) : e \in S}
Severity(x)       == IF "secret" \in x[2].taint.elems THEN 4 ELSE 3
Exfiltrations(S)  == {0} \cup {Severity(x) : x \in DetectExfil(S)}

LEMMA DestructivenessType ==
  ASSUME NEW S, \A x \in S : Labelled(x)
  PROVE  Destructions(S) \subseteq 0 .. 4 /\ Destructions(S) # {} /\ ComputeDestructiveness(S) \in 0 .. 4
<1>1. \A e \in S : KindDestructiveness(e.kind) \in 0 .. 4
  BY KindDestructivenessType DEF Labelled, ValidEffect, Effects
<1>2. Destructions(S) \subseteq 0 .. 4 /\ Destructions(S) # {}
  BY <1>1 DEF Destructions
<1>3. Max(Destructions(S)) \in 0 .. 4
  BY <1>2, GreatestMember
<1> QED
  BY <1>2, <1>3 DEF ComputeDestructiveness, Destructions

LEMMA ExfilType ==
  ASSUME NEW S
  PROVE  Exfiltrations(S) \subseteq 0 .. 4 /\ Exfiltrations(S) # {} /\ ExfilSeverity(DetectExfil(S)) = Max(Exfiltrations(S))
         /\ ExfilSeverity(DetectExfil(S)) \in 0 .. 4
<1>1. \A x : Severity(x) \in 0 .. 4
  BY DEF Severity
<1>2. Exfiltrations(S) \subseteq 0 .. 4 /\ Exfiltrations(S) # {}
  BY <1>1 DEF Exfiltrations
<1>3. Max(Exfiltrations(S)) \in 0 .. 4
  BY <1>2, GreatestMember
<1>4. ExfilSeverity(DetectExfil(S)) = Max(Exfiltrations(S))
  BY DEF ExfilSeverity, Exfiltrations, Severity
<1> QED
  BY <1>2, <1>3, <1>4

\* The dimensions of the score: the grade is the greatest.
Dimensions(S, p, b) ==
  {ComputeDestructiveness(S), KbDestruct(p), b, ExfilSeverity(DetectExfil(S)),
   IrreversibilitySeverity(IrreversibilityOf(S, p), b)} \cup {InfluenceOf(e) : e \in S}

LEMMA GradeType ==
  ASSUME NEW S, \A x \in S : Labelled(x), NEW p, NEW b \in 0 .. 4
  PROVE  /\ Dimensions(S, p, b) \subseteq 0 .. 4 /\ Dimensions(S, p, b) # {}
         /\ GradeOf(S, p, b) = Max(Dimensions(S, p, b))
         /\ GradeOf(S, p, b) \in 0 .. 4
         /\ \A d \in Dimensions(S, p, b) : d <= GradeOf(S, p, b)
<1>1. KbDestruct(p) \in 0 .. 4
  BY DEF KbDestruct
<1>2. Dimensions(S, p, b) \subseteq 0 .. 4 /\ Dimensions(S, p, b) # {}
  BY <1>1, DestructivenessType, ExfilType, IrreversibilityType, InfluenceType DEF Dimensions
<1>3. GradeOf(S, p, b) = Max(Dimensions(S, p, b))
  BY DEF GradeOf, Dimensions
<1>4. Max(Dimensions(S, p, b)) \in Dimensions(S, p, b) /\ \A d \in Dimensions(S, p, b) : d <= Max(Dimensions(S, p, b))
  BY <1>2, GreatestMember
<1> QED
  BY <1>2, <1>3, <1>4

-----------------------------------------------------------------------------
\* The canonical form

Moves == UNION {[D -> Words] : D \in SUBSET Words}

LEMMA WrittenWords ==
  ASSUME NEW c, WellFormed(c)
  PROVE  WrittenBy(c) \subseteq Words
BY CallWords DEF WrittenBy, WriteOps

LEMMA VisitType ==
  ASSUME NEW acc \in [moves : Moves, written : SUBSET Words], NEW c, WellFormed(c)
  PROVE  Visit(acc, c) \in [moves : Moves, written : SUBSET Words]
<1> DEFINE A == [moves : Moves, written : SUBSET Words]
           ops == MvOperands(c)
<1>1. WrittenBy(c) \subseteq Words
  BY WrittenWords
<1>2. Staging(acc, ops) \in A
  <2>1. CASE ops # << >> /\ ops[1] # ops[2] /\ ops[1] \in acc.written \ DOMAIN acc.moves
    <3>1. ops = << c.ops[1], Last(c.ops) >> /\ Len(c.ops) >= 2
      BY <2>1, CallWords DEF MvOperands
    <3>2. Last(c.ops) \in Words /\ c.ops[1] \in Words /\ ops[1] = c.ops[1] /\ ops[2] = Last(c.ops)
      BY <3>1, CallWords DEF Last
    <3> HIDE DEF ops
    <3> DEFINE m == [t \in DOMAIN acc.moves \cup {ops[1]} |-> IF t = ops[1] THEN ops[2] ELSE acc.moves[t]]
    <3>3. PICK D \in SUBSET Words : acc.moves \in [D -> Words]
      BY DEF Moves
    <3>4. m \in [D \cup {ops[1]} -> Words] /\ D \cup {ops[1]} \in SUBSET Words
      BY <3>2, <3>3
    <3>5. m \in Moves
      <4> HIDE DEF m
      <4> QED
        BY <3>4 DEF Moves
    <3>6. Staging(acc, ops) = [acc EXCEPT !.moves = m]
      BY <2>1 DEF Staging
    <3> HIDE DEF m
    <3> QED
      BY <3>5, <3>6
  <2>2. CASE ~(ops # << >> /\ ops[1] # ops[2] /\ ops[1] \in acc.written \ DOMAIN acc.moves)
    BY <2>2 DEF Staging
  <2> QED
    BY <2>1, <2>2
<1>3. PICK a \in A : Visit(acc, c) = [a EXCEPT !.written = @ \cup WrittenBy(c)]
  <2> HIDE DEF A, ops
  <2>1. acc \in A
    BY DEF A
  <2>2. CASE c.op = "mv"
    BY <1>2, <2>2 DEF Visit, ops
  <2>3. CASE c.op # "mv"
    BY <2>1, <2>3 DEF Visit
  <2> QED
    BY <2>2, <2>3
<1> QED
  BY <1>1, <1>3

\* What a visited call adds is the source of a move that some redirection wrote.
LEMMA VisitMoves ==
  ASSUME NEW acc \in [moves : Moves, written : SUBSET Words], NEW c, WellFormed(c)
  PROVE  /\ Visit(acc, c).written = acc.written \cup WrittenBy(c)
         /\ \A t \in DOMAIN Visit(acc, c).moves :
              t \in DOMAIN acc.moves \/ (c.op = "mv" /\ c.ops[1] = t /\ t \in acc.written)
<1> DEFINE ops == MvOperands(c)
           m == [t \in DOMAIN acc.moves \cup {ops[1]} |-> IF t = ops[1] THEN ops[2] ELSE acc.moves[t]]
<1>1. \A a : "written" \in DOMAIN a /\ "moves" \in DOMAIN a =>
               /\ [a EXCEPT !.written = @ \cup WrittenBy(c)].written = a.written \cup WrittenBy(c)
               /\ [a EXCEPT !.written = @ \cup WrittenBy(c)].moves = a.moves
  OBVIOUS
<1>2. "written" \in DOMAIN acc /\ "moves" \in DOMAIN acc
  OBVIOUS
<1>3. CASE c.op = "mv" /\ ops # << >> /\ ops[1] # ops[2] /\ ops[1] \in acc.written \ DOMAIN acc.moves
  <2>1. ops[1] = c.ops[1]
    BY <1>3 DEF MvOperands
  <2> HIDE DEF ops
  <2> DEFINE a == [acc EXCEPT !.moves = m]
  <2>2. Visit(acc, c) = [a EXCEPT !.written = @ \cup WrittenBy(c)]
    BY <1>3 DEF Visit, Staging, ops
  <2>3. DOMAIN m = DOMAIN acc.moves \cup {ops[1]}
    OBVIOUS
  <2> HIDE DEF m
  <2>4. a.written = acc.written /\ a.moves = m /\ "written" \in DOMAIN a /\ "moves" \in DOMAIN a
    BY <1>2
  <2> HIDE DEF a
  <2>5. Visit(acc, c).written = acc.written \cup WrittenBy(c) /\ Visit(acc, c).moves = m
    BY <1>1, <2>2, <2>4
  <2> QED
    BY <1>3, <2>1, <2>3, <2>5
<1>4. CASE ~(c.op = "mv" /\ ops # << >> /\ ops[1] # ops[2] /\ ops[1] \in acc.written \ DOMAIN acc.moves)
  <2>1. Visit(acc, c) = [acc EXCEPT !.written = @ \cup WrittenBy(c)]
    BY <1>4 DEF Visit, Staging
  <2> QED
    BY <1>1, <1>2, <2>1
<1> QED
  BY <1>3, <1>4

\* The moves of a program are found call by call.
LEMMA StagedFold ==
  ASSUME NEW p, WellFormedProgram(p), NEW written \in SUBSET Words
  PROVE  \E acc \in [0 .. Len(p) -> [moves : Moves, written : SUBSET Words]] :
           /\ acc[0] = [moves |-> [t \in {} |-> t], written |-> written]
           /\ \A i \in 1 .. Len(p) : acc[i] = IF Recorded(p, i) THEN Visit(acc[i - 1], p[i]) ELSE acc[i - 1]
           /\ StagedIn(p, written) = acc[Len(p)].moves
<1> DEFINE N == Len(p)
           A == [moves : Moves, written : SUBSET Words]
           first == [moves |-> [t \in {} |-> t], written |-> written]
           Next2(a, i) == IF Recorded(p, i) THEN Visit(a, p[i]) ELSE a
           Acc(f) == f = [i \in 0 .. N |-> IF i = 0 THEN first ELSE Next2(f[i - 1], i)]
           acc == CHOOSE f : Acc(f)
           step == [x \in A \X (1 .. N) |-> Next2(x[1], x[2])]
           seq == [i \in 1 .. N |-> i]
<1>1. p \in Seq(ToSet(p)) /\ N \in Nat /\ DOMAIN p = 1 .. N /\ \A i \in 1 .. N : WellFormed(p[i])
  BY DEF WellFormedProgram, ToSet
<1>2. first \in A
  <2>1. [t \in {} |-> t] \in [{} -> Words]
    OBVIOUS
  <2>2. [t \in {} |-> t] \in Moves
    BY <2>1 DEF Moves
  <2> QED
    BY <2>2
<1>3. \A a \in A, i \in 1 .. N : Next2(a, i) \in A
  BY <1>1, VisitType
<1> HIDE DEF first, A, Next2
<1>4. step \in [A \X (1 .. N) -> A]
  BY <1>3
<1>5. seq \in Seq(1 .. N) /\ Len(seq) = N
  BY <1>1
<1>6. PICK g : Folds(g, A, step, seq, first)
  <2> HIDE DEF step, seq
  <2> QED
    BY <1>2, <1>4, <1>5, FoldExists
<1>7. g \in [0 .. N -> A] /\ Acc(g)
  <2>1. g \in [0 .. N -> A] /\ g[0] = first /\ \A i \in 1 .. N : g[i] = step[<< g[i - 1], seq[i] >>]
    BY <1>5, <1>6 DEF Folds
  <2>2. ASSUME NEW i \in 1 .. N PROVE g[i] = Next2(g[i - 1], i)
    <3>1. g[i - 1] \in A /\ seq[i] = i
      BY <2>1, <1>1
    <3> QED
      BY <2>1, <3>1
  <2> QED
    BY <2>1, <2>2, <1>1
<1>8. Acc(acc)
  BY <1>7
<1> HIDE DEF acc
<1> DEFINE T == {n \in Nat : n <= N => acc[n] \in A}
<1>9. 0 \in T
  BY <1>1, <1>2, <1>8
<1>10. ASSUME NEW n \in Nat, n \in T PROVE n + 1 \in T
  <2>1. SUFFICES ASSUME n + 1 <= N PROVE acc[n + 1] \in A
    OBVIOUS
  <2>2. acc[n] \in A /\ acc[n + 1] = Next2(acc[n], n + 1) /\ n + 1 \in 1 .. N
    BY <1>1, <1>8, <1>10, <2>1
  <2> QED
    BY <1>3, <2>2
<1>11. \A n \in 0 .. N : acc[n] \in A
  <2>1. Nat \subseteq T
    <3> HIDE DEF T
    <3> QED
      BY <1>9, <1>10, SetInduction
  <2> QED
    BY <1>1, <2>1
<1>12. StagedIn(p, written) = acc[N].moves
  BY DEF StagedIn, acc, Acc, Next2, first
<1>13. acc \in [0 .. N -> A]
  <2>1. acc = [i \in 0 .. N |-> IF i = 0 THEN first ELSE Next2(acc[i - 1], i)]
    BY <1>8
  <2>2. acc = [i \in 0 .. N |-> acc[i]]
    BY <2>1
  <2> QED
    BY <1>11, <2>2
<1>14. acc[0] = first /\ \A i \in 1 .. N : acc[i] = Next2(acc[i - 1], i)
  BY <1>1, <1>8
<1> HIDE DEF T
<1> QED
  BY <1>12, <1>13, <1>14 DEF A, first, Next2

\* Where the moves of a program put what its redirections wrote.
LEMMA StagedType ==
  ASSUME NEW p, WellFormedProgram(p), NEW written \in SUBSET Words
  PROVE  StagedIn(p, written) \in Moves
<1>1. Len(p) \in Nat
  BY DEF WellFormedProgram
<1>2. Len(p) \in 0 .. Len(p)
  BY <1>1
<1>3. PICK acc \in [0 .. Len(p) -> [moves : Moves, written : SUBSET Words]] :
        /\ acc[0] = [moves |-> [t \in {} |-> t], written |-> written]
        /\ \A i \in 1 .. Len(p) : acc[i] = IF Recorded(p, i) THEN Visit(acc[i - 1], p[i]) ELSE acc[i - 1]
        /\ StagedIn(p, written) = acc[Len(p)].moves
  BY StagedFold
<1>4. acc[Len(p)] \in [moves : Moves, written : SUBSET Words]
  BY <1>2
<1> QED
  BY <1>3, <1>4

LEMMA CanonicalLabelled ==
  ASSUME NEW S, \A x \in S : Labelled(x), NEW staged \in Moves
  PROVE  \A r \in CanonicalRows(S, staged) : Labelled(r)
<1>1. ASSUME NEW t \in Targets, NEW kind PROVE CanonicalTarget(t, kind, staged) \subseteq Targets
  <2>1. t \in DOMAIN staged => staged[t] \in Words
    BY DEF Moves
  <2>2. \A x \in Words : CanShape(x) => x \in Targets
    BY DEF CanShape, Words
  <2> QED
    BY <2>1, <2>2 DEF CanonicalTarget
<1>2. ASSUME NEW e \in S PROVE CanonicalScope(e, staged) \subseteq Targets
  <2>1. e.target.elems \subseteq Targets
    BY DEF Labelled, ValidEffect, Effects, FlatSet
  <2> QED
    BY <1>1, <2>1 DEF CanonicalScope
<1>3. ASSUME NEW e \in S PROVE Labelled([e EXCEPT !.target = FlatOf(CanonicalScope(e, staged))])
  <2> DEFINE s == FlatOf(CanonicalScope(e, staged))
  <2>1. s \in FlatSet(Targets)
    BY <1>2 DEF FlatOf, FlatSet
  <2> HIDE DEF s
  <2>2. [e EXCEPT !.target = s] \in Effects
    BY <2>1 DEF Labelled, ValidEffect, Effects
  <2>3. /\ [e EXCEPT !.target = s].kind = e.kind /\ [e EXCEPT !.target = s].netFlow = e.netFlow
        /\ [e EXCEPT !.target = s].taint = e.taint
    BY DEF Labelled, ValidEffect, Effects
  <2>4. Labelled([e EXCEPT !.target = s])
    BY <2>2, <2>3 DEF Labelled, ValidEffect
  <2> QED
    BY <2>4 DEF s
<1> QED
  BY <1>3 DEF CanonicalRows

LEMMA CanonicalRowsAreRows ==
  ASSUME NEW S, \A x \in S : Labelled(x), NEW p, WellFormedProgram(p)
  PROVE  /\ \A r \in BuildCanonical(S, p) : Labelled(r)
         /\ \A r, t \in BuildCanonical(S, p) : SameRow(r, t) => r = t
<1>1. StagingDestinations(p) \in Moves
  BY StagedType DEF StagingDestinations
<1> QED
  BY <1>1, CanonicalLabelled, NormalizedRows DEF BuildCanonical

-----------------------------------------------------------------------------
\* Reports: the type invariant

LEMMA ProgramOf ==
  ASSUME NEW W, \A c \in W : WellFormed(c), NEW p \in Seq(W)
  PROVE  WellFormedProgram(p)
<1>1. \A i \in DOMAIN p : p[i] \in W
  OBVIOUS
<1>2. p \in Seq(ToSet(p))
  <2>1. Len(p) \in Nat /\ DOMAIN p = 1 .. Len(p) /\ p = [i \in 1 .. Len(p) |-> p[i]]
    OBVIOUS
  <2>2. \A i \in 1 .. Len(p) : p[i] \in ToSet(p)
    BY <2>1 DEF ToSet
  <2> HIDE DEF ToSet
  <2> QED
    BY <2>1, <2>2
<1> QED
  BY <1>1, <1>2 DEF WellFormedProgram, ToSet

LEMMA EmptyProgram == WellFormedProgram(<< >>)
<1>1. << >> \in Seq({})
  OBVIOUS
<1> QED
  BY <1>1, ProgramOf

LEMMA LongerProgram ==
  ASSUME NEW p, WellFormedProgram(p), NEW c, WellFormed(c)
  PROVE  WellFormedProgram(Append(p, c))
<1> DEFINE W == ToSet(p) \cup {c}
<1>1. \A d \in W : WellFormed(d)
  BY DEF WellFormedProgram
<1>2. p \in Seq(W)
  BY DEF WellFormedProgram
<1>3. Append(p, c) \in Seq(W)
  BY <1>2
<1> HIDE DEF W
<1> QED
  BY <1>1, <1>3, ProgramOf

\* The program whose output is staged.
LEMMA StagedProgram ==
  ASSUME WellFormedProgram(prog), NEW i \in DOMAIN prog, NEW tmp \in StagingNames,
         Len(prog[i].redirs) = 1, prog[i].redirs[1].op = ">", prog[i].redirs[1].target # Unknown
  PROVE  WellFormedProgram(Staged(i, tmp))
<1> DEFINE first == [prog[i] EXCEPT !.redirs = << To(tmp) >>]
           second == Call("mv", {}, << tmp, prog[i].redirs[1].target >>, << >>)
           W == ToSet(prog) \cup {first, second}
           R == [op : WriteOps \cup {"<"}, target : Words] \cup [op : {"2>&1"}, target : {"1"}]
<1>1. WellFormed(prog[i]) /\ prog \in Seq(ToSet(prog)) /\ \A c \in ToSet(prog) : WellFormed(c)
  BY DEF WellFormedProgram, ToSet
<1>2. tmp \in Words
  BY StagingAssumption DEF Words
<1>3. prog[i].redirs[1].target \in Words
  <2>1. 1 \in DOMAIN prog[i].redirs
    BY <1>1, CallWords
  <2> QED
    BY <1>1, <2>1, CallWords DEF WriteOps
<1>4. << To(tmp) >> \in Seq(R)
  <2>1. To(tmp) \in R
    BY <1>2 DEF To, WriteOps
  <2> HIDE DEF R
  <2> QED
    BY <2>1
<1>5. WellFormed(first)
  <2>1. prog[i] = Call(prog[i].op, prog[i].flags, prog[i].ops, prog[i].redirs)
    BY <1>1 DEF WellFormed
  <2>2. first = Call(prog[i].op, prog[i].flags, prog[i].ops, << To(tmp) >>)
    BY <2>1 DEF Call
  <2>3. first.op = prog[i].op /\ first.flags = prog[i].flags /\ first.ops = prog[i].ops /\ first.redirs = << To(tmp) >>
    BY <2>2 DEF Call
  <2> HIDE DEF first
  <2> QED
    BY <1>1, <1>4, <2>2, <2>3 DEF WellFormed
<1>6. WellFormed(second)
  <2>1. second.op = "mv" /\ second.flags = {} /\ second.ops = << tmp, prog[i].redirs[1].target >> /\ second.redirs = << >>
        /\ second = Call(second.op, second.flags, second.ops, second.redirs)
    BY DEF Call
  <2> HIDE DEF second
  <2>2. second.ops \in Seq(Words) /\ Len(second.ops) = 2 /\ second.redirs \in Seq(R)
    BY <1>2, <1>3, <2>1
  <2> QED
    BY <2>1, <2>2 DEF WellFormed
<1>7. \A c \in W : WellFormed(c)
  BY <1>1, <1>5, <1>6
<1>8. Staged(i, tmp) \in Seq(W)
  <2>1. prog \in Seq(W) /\ first \in W /\ second \in W /\ i \in 1 .. Len(prog) /\ Len(prog) \in Nat
    BY <1>1
  <2> HIDE DEF W, first, second
  <2>2. SubSeq(prog, 1, i - 1) \in Seq(W) /\ SubSeq(prog, i + 1, Len(prog)) \in Seq(W) /\ << first, second >> \in Seq(W)
    BY <2>1
  <2>3. SubSeq(prog, 1, i - 1) \o << first, second >> \o SubSeq(prog, i + 1, Len(prog)) \in Seq(W)
    BY <2>2
  <2> QED
    BY <2>3 DEF Staged, first, second
<1> HIDE DEF W
<1> QED
  BY <1>7, <1>8, ProgramOf

\* What TypeOK says of a report.
ReportOK(r) ==
  /\ \A S \in {r.effects, r.canonical} :
       \A e, o \in S : ValidEffect(e) /\ (SameRow(e, o) => e = o)
  /\ r.destructiveness \in 0 .. r.grade /\ r.breadth \in 0 .. r.grade
  /\ r.confidence \in 0 .. 100

LEMMA ConfidenceType ==
  ASSUME NEW e, Labelled(e)
  PROVE  Confidence(e) \in 0 .. 100
BY DEF Confidence, Labelled, ValidEffect, Effects, Certainties

\* Every well-formed program has such a report.
LEMMA ReportType ==
  ASSUME NEW p, WellFormedProgram(p)
  PROVE  ReportOK(AnalyzeBash(p))
<1> DEFINE S == ReportEffects(p)
           b == BreadthSeverity(Reach(S))
           r == AnalyzeBash(p)
<1>1. \A x \in S : Labelled(x)
  BY ReportRows
<1>2. \A e, o \in S : ValidEffect(e) /\ (SameRow(e, o) => e = o)
  BY ReportRows DEF Labelled
<1>3. \A e, o \in BuildCanonical(S, p) : ValidEffect(e) /\ (SameRow(e, o) => e = o)
  <2> HIDE DEF S
  <2> QED
    BY <1>1, CanonicalRowsAreRows DEF Labelled
<1>4. /\ r.effects = S /\ r.canonical = BuildCanonical(S, p) /\ r.breadth = b /\ r.grade = GradeOf(S, p, b)
      /\ r.destructiveness = Max({ComputeDestructiveness(S), KbDestruct(p)})
      /\ r.confidence = IF S = {} THEN 0 ELSE Min({Confidence(e) : e \in S})
  BY DEF AnalyzeBash, WithRows, Assemble
<1> HIDE DEF S, r
<1>5. b \in 0 .. 4
  BY BreadthType
<1> HIDE DEF b
<1>6. /\ Dimensions(S, p, b) \subseteq 0 .. 4 /\ r.grade \in 0 .. 4
      /\ \A d \in Dimensions(S, p, b) : d <= r.grade
  <2>1. /\ Dimensions(S, p, b) \subseteq 0 .. 4 /\ GradeOf(S, p, b) \in 0 .. 4
        /\ \A d \in Dimensions(S, p, b) : d <= GradeOf(S, p, b)
    BY <1>1, <1>5, GradeType
  <2> QED
    BY <2>1, <1>4
<1>7. r.breadth \in 0 .. r.grade
  BY <1>4, <1>5, <1>6 DEF Dimensions
<1>8. r.destructiveness \in 0 .. r.grade
  <2> DEFINE X == {ComputeDestructiveness(S), KbDestruct(p)}
  <2>1. X \subseteq Dimensions(S, p, b) /\ X # {}
    BY DEF Dimensions
  <2>2. X \subseteq 0 .. 4
    BY <1>6, <2>1
  <2>3. Max(X) \in X
    <3> HIDE DEF X
    <3> QED
      BY <2>1, <2>2, GreatestMember
  <2>4. Max(X) <= r.grade /\ Max(X) \in 0 .. 4
    <3> HIDE DEF X
    <3> QED
      BY <1>6, <2>1, <2>2, <2>3
  <2> QED
    BY <1>4, <1>6, <2>4
<1>9. r.confidence \in 0 .. 100
  <2>1. CASE S = {}
    BY <1>4, <2>1
  <2>2. CASE S # {}
    <3> DEFINE X == {Confidence(e) : e \in S}
    <3>1. X \subseteq 0 .. 100 /\ X # {}
      BY <1>1, <2>2, ConfidenceType
    <3>2. Min(X) \in X
      <4> HIDE DEF X
      <4>1. X \subseteq Nat
        BY <3>1
      <4> QED
        BY <3>1, <4>1, LeastMember
    <3> QED
      BY <1>4, <2>2, <3>1, <3>2
  <2> QED
    BY <2>1, <2>2
<1> QED
  BY <1>2, <1>3, <1>4, <1>7, <1>8, <1>9 DEF ReportOK, r

-----------------------------------------------------------------------------
\* The run of a program

\* Some effect of these kinds may be on one of the paths S.
Touches(p, kinds, S) ==
  \E x \in Derivations(p) :
    x.effect.kind \in kinds /\ (x.effect.target.arbitrary \/ x.effect.target.elems \cap S # {})
ReadsCredential(p) == Touches(p, {"FSRead", "FSMeta"}, Credentials)
WritesRemote(p)    == Touches(p, {"FSWrite"}, DOMAIN Shares \cup Ambiguous)
Derived(p, kind, atom) == \E x \in Derivations(p) : x.effect.kind = kind /\ x.atom = atom

Shaped(w) ==
  DOMAIN w = {"at", "opened", "in", "out", "outer", "files", "new", "secret", "failed", "leaked", "deeds"}

\* What the run did is what the effects of the program foresee: the bytes of a
\* credential are elsewhere only if the program may read one, and reached a
\* share only if it may write one.
Honest(w) ==
  /\ Shaped(w) /\ w.leaked \in BOOLEAN /\ w.opened \in Nat
  /\ (\E t \in w.secret : t \notin Credentials) => ReadsCredential(prog)
  /\ w.leaked => ReadsCredential(prog) /\ WritesRemote(prog)
  /\ (\E t \in w.out : IsRemote(t)) => WritesRemote(prog)
  /\ w.in \cap Credentials # {} => ReadsCredential(prog)
  /\ \A d \in w.deeds : Derived(prog, d.kind, d.atom)

\* v is at the same call as w, with the same redirections.
SameCall(w, v) == v.at = w.at /\ v.opened = w.opened /\ v.outer = w.outer /\ v.in = w.in /\ v.out = w.out

LEMMA DeedHonest ==
  ASSUME NEW w, Honest(w), NEW kind, NEW atom, Derived(prog, kind, atom)
  PROVE  /\ Honest(Deed(w, kind, atom)) /\ SameCall(w, Deed(w, kind, atom))
         /\ Deed(w, kind, atom).secret = w.secret /\ Deed(w, kind, atom).files = w.files
<1> DEFINE v == Deed(w, kind, atom)
<1>1. /\ Shaped(v)
      /\ v.at = w.at /\ v.opened = w.opened /\ v.in = w.in /\ v.out = w.out /\ v.outer = w.outer
      /\ v.files = w.files /\ v.new = w.new /\ v.secret = w.secret /\ v.failed = w.failed /\ v.leaked = w.leaked
      /\ v.deeds = w.deeds \cup {[kind |-> kind, atom |-> atom]}
  BY DEF Honest, Shaped, Deed
<1> HIDE DEF v
<1> QED
  BY <1>1 DEF Honest, Shaped, SameCall, v

LEMMA RemovingHonest ==
  ASSUME NEW w, Honest(w), NEW S
  PROVE  Honest(Removing(w, S)) /\ SameCall(w, Removing(w, S))
<1> DEFINE v == Removing(w, S)
<1>1. /\ Shaped(v)
      /\ v.at = w.at /\ v.opened = w.opened /\ v.in = w.in /\ v.out = w.out /\ v.outer = w.outer
      /\ v.failed = w.failed /\ v.leaked = w.leaked /\ v.deeds = w.deeds
      /\ v.files = w.files \ S
      /\ v.new = w.new \ S
      /\ v.secret = w.secret \ S
  BY DEF Honest, Shaped, Removing
<1> HIDE DEF v
<1> QED
  BY <1>1 DEF Honest, Shaped, SameCall, v

LEMMA TruncatingHonest ==
  ASSUME NEW w, Honest(w), NEW S
  PROVE  Honest(Truncating(w, S)) /\ SameCall(w, Truncating(w, S))
<1> DEFINE v == Truncating(w, S)
<1>1. /\ Shaped(v)
      /\ v.at = w.at /\ v.opened = w.opened /\ v.in = w.in /\ v.out = w.out /\ v.outer = w.outer
      /\ v.failed = w.failed /\ v.leaked = w.leaked /\ v.deeds = w.deeds
      /\ v.files = w.files \cup S
      /\ v.new = w.new \cup S
      /\ v.secret = w.secret \ S
  BY DEF Honest, Shaped, Truncating
<1> HIDE DEF v
<1> QED
  BY <1>1 DEF Honest, Shaped, SameCall, v

\* Bytes of a credential are written only where the effects foresee it.
LEMMA AppendingHonest ==
  ASSUME NEW w, Honest(w), NEW S, NEW secret \in BOOLEAN, secret => ReadsCredential(prog),
         (\E t \in S : IsRemote(t)) => WritesRemote(prog)
  PROVE  Honest(Appending(w, S, secret)) /\ SameCall(w, Appending(w, S, secret))
<1> DEFINE v == Appending(w, S, secret)
<1>1. /\ Shaped(v)
      /\ v.at = w.at /\ v.opened = w.opened /\ v.in = w.in /\ v.out = w.out /\ v.outer = w.outer
      /\ v.failed = w.failed /\ v.deeds = w.deeds
      /\ v.files = w.files \cup S
      /\ v.new = w.new \cup S
      /\ v.secret = IF secret THEN w.secret \cup S ELSE w.secret
      /\ v.leaked = (w.leaked \/ (secret /\ \E t \in S : IsRemote(t)))
  BY DEF Honest, Shaped, Appending
<1> HIDE DEF v
<1>2. Shaped(v) /\ v.leaked \in BOOLEAN /\ SameCall(w, v)
  BY <1>1 DEF Shaped, SameCall, Honest
<1>3. (\E t \in v.secret : t \notin Credentials) => ReadsCredential(prog)
  BY <1>1 DEF Honest
<1>4. v.leaked => ReadsCredential(prog) /\ WritesRemote(prog)
  BY <1>1 DEF Honest
<1>5. v.deeds = w.deeds /\ v.out = w.out /\ v.in = w.in /\ v.opened = w.opened
  BY <1>1
<1>6. Honest(v)
  BY <1>2, <1>3, <1>4, <1>5 DEF Honest
<1> QED
  BY <1>2, <1>6 DEF v

LEMMA ReplacingHonest ==
  ASSUME NEW w, Honest(w), NEW t, NEW secret \in BOOLEAN, secret => ReadsCredential(prog), IsRemote(t) => WritesRemote(prog)
  PROVE  Honest(Replacing(w, t, secret)) /\ SameCall(w, Replacing(w, t, secret))
<1>1. Honest(Truncating(w, {t})) /\ SameCall(w, Truncating(w, {t}))
  BY TruncatingHonest
<1>2. (\E x \in {t} : IsRemote(x)) => WritesRemote(prog)
  OBVIOUS
<1>3. /\ Honest(Appending(Truncating(w, {t}), {t}, secret))
      /\ SameCall(Truncating(w, {t}), Appending(Truncating(w, {t}), {t}, secret))
  BY <1>1, <1>2, AppendingHonest
<1> QED
  BY <1>1, <1>3 DEF Replacing, SameCall

LEMMA PrintingHonest ==
  ASSUME NEW w, Honest(w), NEW secret \in BOOLEAN, secret => ReadsCredential(prog)
  PROVE  Honest(Printing(w, secret)) /\ SameCall(w, Printing(w, secret))
<1>1. (\E t \in w.out : IsRemote(t)) => WritesRemote(prog)
  BY DEF Honest
<1> QED
  BY <1>1, AppendingHonest DEF Printing

LEMMA NextCallHonest ==
  ASSUME NEW w, Honest(w), w.at \in Nat
  PROVE  Honest(NextCall(w)) /\ NextCall(w).at = w.at + 1
<1> DEFINE v == NextCall(w)
<1>1. /\ Shaped(v)
      /\ v.outer = w.outer /\ v.files = w.files /\ v.new = w.new /\ v.secret = w.secret /\ v.failed = w.failed
      /\ v.leaked = w.leaked /\ v.deeds = w.deeds
      /\ v.at = w.at + 1
      /\ v.opened = 0
      /\ v.in = {}
      /\ v.out = {}
  BY DEF Honest, Shaped, NextCall
<1> HIDE DEF v
<1> QED
  BY <1>1 DEF Honest, Shaped, v

-----------------------------------------------------------------------------
\* The effects of a call, seen from the shell

\* A word stands in the scope of its call, whatever it expands to.
LEMMA TextInScope ==
  ASSUME NEW words, NEW word \in ToSet(words), NEW outer
  PROVE  ScopeOf(words).arbitrary \/ Text(word, outer) \in ScopeOf(words).elems
BY DEF ScopeOf, Text, FlatTop, FlatOf

LEMMA CommandDerived ==
  ASSUME NEW i \in DOMAIN prog, NEW e \in CallEffects(prog, i)
  PROVE  /\ Derived(prog, e.kind, << "command", prog[i].op >>)
         /\ \E x \in Derivations(prog) : x.effect = e
<1>1. [effect |-> e, atom |-> << "command", prog[i].op >>] \in CallDerivations(prog, i)
  BY DEF CallDerivations
<1>2. [effect |-> e, atom |-> << "command", prog[i].op >>] \in Derivations(prog)
  BY <1>1 DEF Derivations
<1> QED
  BY <1>2 DEF Derived

LEMMA RedirDerived ==
  ASSUME NEW i \in DOMAIN prog, NEW r \in ToSet(prog[i].redirs)
  PROVE  /\ Derived(prog, RedirEffect(r).kind, << "redirect", r.op >>)
         /\ \E x \in Derivations(prog) : x.effect = RedirEffect(r)
<1>1. [effect |-> RedirEffect(r), atom |-> << "redirect", r.op >>] \in CallDerivations(prog, i)
  BY DEF CallDerivations
<1>2. [effect |-> RedirEffect(r), atom |-> << "redirect", r.op >>] \in Derivations(prog)
  BY <1>1 DEF Derivations
<1> QED
  BY <1>2 DEF Derived

\* A plain effect on words, one of which is written out as a path of S.
LEMMA PlainTouches ==
  ASSUME NEW kind \in EffectKinds, NEW words, ToSet(words) \subseteq Words, NEW word \in ToSet(words), NEW outer,
         \E x \in Derivations(prog) : x.effect = Plain(kind, words),
         NEW S, Text(word, outer) \in S, NEW kinds, kind \in kinds
  PROVE  Touches(prog, kinds, S)
<1>1. ScopeOf(words).arbitrary \/ Text(word, outer) \in ScopeOf(words).elems
  BY TextInScope
<1>2. Plain(kind, words).kind = kind /\ Plain(kind, words).target = ScopeOf(words)
  BY PlainLabelled
<1> QED
  BY <1>1, <1>2 DEF Touches

\* What a call does is what its effects say.
LEMMA RunsHonest ==
  ASSUME WellFormedProgram(prog), NEW i \in DOMAIN prog, NEW w, Honest(w),
         NEW ws, ws = [k \in DOMAIN prog[i].ops |-> Text(prog[i].ops[k], w.outer)]
  PROVE  Honest(Runs(prog[i], ws, w)) /\ SameCall(w, Runs(prog[i], ws, w))
<1> DEFINE c == prog[i]
           cmd == << "command", c.op >>
<1>1. WellFormed(c)
  BY DEF WellFormedProgram, ToSet
<1>2. {"FSRead", "FSMeta", "FSWrite", "NetEgress", "Stdio", "CodeExec"} \subseteq EffectKinds
  BY DEF EffectKinds
<1>3. c.op # "sh" => CallEffects(prog, i) = BindCommand(c, c.ops)
  BY DEF CallEffects
<1>4. \A e \in CallEffects(prog, i) : Derived(prog, e.kind, cmd) /\ \E x \in Derivations(prog) : x.effect = e
  BY CommandDerived
<1>5. ASSUME NEW t \in w.secret, t \in Credentials => ReadsCredential(prog) PROVE ReadsCredential(prog)
  BY <1>5 DEF Honest
<1>6. CASE c.op = "echo"
  <2>1. Plain("Stdio", c.ops) \in CallEffects(prog, i)
    BY <1>3, <1>6 DEF BindCommand
  <2>2. Derived(prog, "Stdio", << "command", "echo" >>)
    BY <1>1, <1>2, <1>4, <1>6, <2>1, CallWords, PlainLabelled
  <2>3. /\ Honest(Deed(w, "Stdio", << "command", "echo" >>))
        /\ SameCall(w, Deed(w, "Stdio", << "command", "echo" >>))
    BY <2>2, DeedHonest
  <2>4. Runs(c, ws, w) = Printing(Deed(w, "Stdio", << "command", "echo" >>), FALSE)
    BY <1>6 DEF Runs
  <2> HIDE DEF c
  <2>5. /\ Honest(Printing(Deed(w, "Stdio", << "command", "echo" >>), FALSE))
        /\ SameCall(Deed(w, "Stdio", << "command", "echo" >>), Printing(Deed(w, "Stdio", << "command", "echo" >>), FALSE))
    BY <2>3, PrintingHonest
  <2> QED
    BY <2>3, <2>4, <2>5 DEF SameCall, c
<1>7. CASE c.op = "cat" /\ c.ops = << >>
  <2>1. Runs(c, ws, w) = Printing(w, w.in \cap w.secret # {})
    BY <1>7 DEF Runs
  <2>2. w.in \cap w.secret # {} => ReadsCredential(prog)
    BY DEF Honest
  <2>3. Honest(Printing(w, w.in \cap w.secret # {})) /\ SameCall(w, Printing(w, w.in \cap w.secret # {}))
    BY <2>2, PrintingHonest
  <2> QED
    BY <2>1, <2>3
<1>8. CASE c.op = "cat" /\ c.ops # << >>
  <2> DEFINE v == Deed(w, "FSRead", << "command", "cat" >>)
             some == ToSet(ws) \cap w.secret # {}
  <2>1. Plain("FSRead", c.ops) \in CallEffects(prog, i)
    BY <1>3, <1>8 DEF BindCommand
  <2>2. Derived(prog, "FSRead", << "command", "cat" >>)
    BY <1>1, <1>2, <1>4, <1>8, <2>1, CallWords, PlainLabelled
  <2>3. Honest(v) /\ SameCall(w, v)
    BY <2>2, DeedHonest
  <2>4. some => ReadsCredential(prog)
    <3>1. SUFFICES ASSUME NEW k \in DOMAIN c.ops, Text(c.ops[k], w.outer) \in w.secret PROVE ReadsCredential(prog)
      BY DEF ToSet
    <3>2. ASSUME Text(c.ops[k], w.outer) \in Credentials PROVE ReadsCredential(prog)
      <4>1. ToSet(c.ops) \subseteq Words /\ c.ops[k] \in ToSet(c.ops)
        BY <1>1, CallWords
      <4>2. \E x \in Derivations(prog) : x.effect = Plain("FSRead", c.ops)
        BY <1>4, <2>1
      <4> HIDE DEF c
      <4>3. Touches(prog, {"FSRead", "FSMeta"}, Credentials)
        BY <1>2, <3>2, <4>1, <4>2, PlainTouches
      <4> QED
        BY <4>3 DEF ReadsCredential
    <3> QED
      BY <3>1, <3>2, <1>5
  <2>5. Runs(c, ws, w) = Printing(v, some)
    BY <1>8 DEF Runs
  <2> HIDE DEF c, v, some
  <2>6. some \in BOOLEAN
    BY DEF some
  <2>7. Honest(Printing(v, some)) /\ SameCall(v, Printing(v, some))
    BY <2>3, <2>4, <2>6, PrintingHonest
  <2> QED
    BY <2>3, <2>5, <2>7 DEF SameCall, c
<1>9. CASE c.op \in {"cp", "mv"}
  <2> DEFINE kind == IF c.op = "cp" THEN "FSRead" ELSE "FSMeta"
             some == ws[1] \in w.secret
             v == Deed(Deed(w, kind, cmd), "FSWrite", cmd)
  <2>1. /\ Plain(kind, << c.ops[1] >>) \in CallEffects(prog, i)
        /\ Plain("FSWrite", Tail(c.ops)) \in CallEffects(prog, i)
    BY <1>3, <1>9 DEF BindCommand
  <2>2. Len(c.ops) = 2 /\ ToSet(Tail(c.ops)) = {c.ops[2]} /\ 1 \in DOMAIN c.ops /\ 2 \in DOMAIN c.ops
        /\ c.ops[1] \in Words /\ c.ops[2] \in Words
    <3>1. Len(c.ops) = 2 /\ ToSet(Tail(c.ops)) = {c.ops[2]} /\ DOMAIN c.ops = 1 .. Len(c.ops)
      BY <1>1, <1>9, CallWords
    <3>2. 1 \in DOMAIN c.ops /\ 2 \in DOMAIN c.ops
      BY <3>1
    <3> QED
      BY <1>1, <3>1, <3>2, CallWords
  <2>3. kind \in {"FSRead", "FSMeta"} /\ kind \in EffectKinds
    BY <1>2
  <2>4. ToSet(<< c.ops[1] >>) = {c.ops[1]}
    BY PairWords
  <2>5. ws[1] = Text(c.ops[1], w.outer) /\ ws[2] = Text(c.ops[2], w.outer)
    BY <2>2
  <2> HIDE DEF kind, some, v, c
  <2>6. Derived(prog, kind, cmd)
    <3>1. Plain(kind, << c.ops[1] >>).kind = kind
      BY <2>2, <2>3, <2>4, PlainLabelled
    <3> QED
      BY <2>1, <3>1, <1>4
  <2>7. Derived(prog, "FSWrite", cmd)
    <3>1. Plain("FSWrite", Tail(c.ops)).kind = "FSWrite"
      BY <1>2, <2>2, PlainLabelled
    <3> QED
      BY <2>1, <3>1, <1>4
  <2>8. Honest(v) /\ SameCall(w, v)
    <3>1. Honest(Deed(w, kind, cmd)) /\ SameCall(w, Deed(w, kind, cmd))
      BY <2>6, DeedHonest
    <3>2. Honest(v) /\ SameCall(Deed(w, kind, cmd), v)
      BY <2>7, <3>1, DeedHonest DEF v
    <3> QED
      BY <3>1, <3>2 DEF SameCall
  <2>9. some => ReadsCredential(prog)
    <3>1. SUFFICES ASSUME ws[1] \in w.secret PROVE ReadsCredential(prog)
      BY DEF some
    <3>2. ASSUME ws[1] \in Credentials PROVE ReadsCredential(prog)
      <4>1. ToSet(<< c.ops[1] >>) \subseteq Words /\ c.ops[1] \in ToSet(<< c.ops[1] >>)
        BY <2>2, <2>4
      <4>2. \E x \in Derivations(prog) : x.effect = Plain(kind, << c.ops[1] >>)
        BY <1>4, <2>1
      <4>3. Text(c.ops[1], w.outer) \in Credentials
        BY <2>5, <3>2
      <4>4. Touches(prog, {"FSRead", "FSMeta"}, Credentials)
        BY <2>3, <4>1, <4>2, <4>3, PlainTouches
      <4> QED
        BY <4>4 DEF ReadsCredential
    <3> QED
      BY <3>1, <3>2, <1>5
  <2>10. IsRemote(ws[2]) => WritesRemote(prog)
    <3>1. SUFFICES ASSUME ws[2] \in DOMAIN Shares \cup Ambiguous PROVE WritesRemote(prog)
      BY DEF IsRemote
    <3>2. ToSet(Tail(c.ops)) \subseteq Words /\ c.ops[2] \in ToSet(Tail(c.ops)) /\ "FSWrite" \in EffectKinds /\ "FSWrite" \in {"FSWrite"}
      BY <1>2, <2>2
    <3>3. \E x \in Derivations(prog) : x.effect = Plain("FSWrite", Tail(c.ops))
      BY <1>4, <2>1
    <3>4. Text(c.ops[2], w.outer) \in DOMAIN Shares \cup Ambiguous
      BY <2>5, <3>1
    <3>5. Touches(prog, {"FSWrite"}, DOMAIN Shares \cup Ambiguous)
      BY <3>2, <3>3, <3>4, PlainTouches
    <3> QED
      BY <3>5 DEF WritesRemote
  <2>11. Honest(Replacing(v, ws[2], some)) /\ SameCall(v, Replacing(v, ws[2], some))
    <3>1. some \in BOOLEAN
      BY DEF some
    <3> QED
      BY <2>8, <2>9, <2>10, <3>1, ReplacingHonest
  <2>12. Copying(w, c, kind, ws) = Replacing(v, ws[2], some)
    BY DEF Copying, v, some
  <2>13. CASE c.op = "cp"
    <3>1. Runs(c, ws, w) = Copying(w, c, kind, ws)
      BY <2>13 DEF Runs, kind
    <3> QED
      BY <2>8, <2>11, <2>12, <3>1 DEF SameCall, c
  <2>14. CASE c.op = "mv"
    <3>1. Runs(c, ws, w) = Removing(Copying(w, c, kind, ws), {ws[1]})
      BY <2>14 DEF Runs, kind
    <3>2. /\ Honest(Removing(Replacing(v, ws[2], some), {ws[1]}))
          /\ SameCall(Replacing(v, ws[2], some), Removing(Replacing(v, ws[2], some), {ws[1]}))
      BY <2>11, RemovingHonest
    <3> QED
      BY <2>8, <2>11, <2>12, <3>1, <3>2 DEF SameCall, c
  <2> QED
    BY <1>9, <2>13, <2>14
<1>10. CASE c.op = "rm"
  <2> DEFINE v == Deed(w, "FSWrite", << "command", "rm" >>)
  <2>1. Plain("FSWrite", c.ops) \in CallEffects(prog, i)
    BY <1>3, <1>10 DEF BindCommand
  <2>2. Derived(prog, "FSWrite", << "command", "rm" >>)
    BY <1>1, <1>2, <1>4, <1>10, <2>1, CallWords, PlainLabelled
  <2>3. Honest(v) /\ SameCall(w, v)
    BY <2>2, DeedHonest
  <2>4. Runs(c, ws, w) = Removing(v, ToSet(ws))
    BY <1>10 DEF Runs
  <2> HIDE DEF c, v
  <2>5. Honest(Removing(v, ToSet(ws))) /\ SameCall(v, Removing(v, ToSet(ws)))
    BY <2>3, RemovingHonest
  <2> QED
    BY <2>3, <2>4, <2>5 DEF SameCall, c
<1>11. CASE c.op = "curl"
  <2> DEFINE net == Deed(w, "NetEgress", << "command", "curl" >>)
             v == Deed(net, "FSWrite", << "command", "curl" >>)
  <2>1. Plain("NetEgress", << Last(c.ops) >>) \in CallEffects(prog, i)
    BY <1>3, <1>11 DEF BindCommand
  <2>2. Derived(prog, "NetEgress", << "command", "curl" >>)
    <3>1. ToSet(<< Last(c.ops) >>) \subseteq Words
      BY <1>1, <1>11, CallWords, PairWords
    <3>2. Plain("NetEgress", << Last(c.ops) >>).kind = "NetEgress"
      BY <1>2, <3>1, PlainLabelled
    <3> QED
      BY <1>4, <1>11, <2>1, <3>2
  <2>3. Honest(net) /\ SameCall(w, net)
    BY <2>2, DeedHonest
  <2>4. CASE "-o" \in c.flags
    <3>1. Effect("FSWrite", ScopeOf(<< c.ops[1] >>), {}, FlowIngest) \in CallEffects(prog, i)
      BY <1>3, <1>11, <2>4 DEF BindCommand
    <3>2. Effect("FSWrite", ScopeOf(<< c.ops[1] >>), {}, FlowIngest).kind = "FSWrite"
          /\ Effect("FSWrite", ScopeOf(<< c.ops[1] >>), {}, FlowIngest).target = ScopeOf(<< c.ops[1] >>)
      BY DEF Effect
    <3>3. Derived(prog, "FSWrite", << "command", "curl" >>)
      BY <1>4, <1>11, <3>1, <3>2
    <3>4. Honest(v) /\ SameCall(net, v)
      BY <2>3, <3>3, DeedHonest
    <3>5. ws[1] = Text(c.ops[1], w.outer)
      <4>1. 1 \in DOMAIN c.ops
        <5>1. Len(c.ops) \in {1, 2} /\ DOMAIN c.ops = 1 .. Len(c.ops)
          BY <1>1, <1>11, CallWords DEF WellFormed
        <5> QED
          BY <5>1
      <4> QED
        BY <4>1
    <3>6. IsRemote(ws[1]) => WritesRemote(prog)
      <4>1. SUFFICES ASSUME ws[1] \in DOMAIN Shares \cup Ambiguous PROVE WritesRemote(prog)
        BY DEF IsRemote
      <4>2. c.ops[1] \in ToSet(<< c.ops[1] >>)
        BY PairWords
      <4>3. ScopeOf(<< c.ops[1] >>).arbitrary \/ ws[1] \in ScopeOf(<< c.ops[1] >>).elems
        BY <3>5, <4>2, TextInScope
      <4>4. \E x \in Derivations(prog) : x.effect = Effect("FSWrite", ScopeOf(<< c.ops[1] >>), {}, FlowIngest)
        BY <1>4, <3>1
      <4> QED
        BY <3>2, <4>1, <4>3, <4>4 DEF WritesRemote, Touches
    <3>7. Runs(c, ws, w) = Replacing(v, ws[1], FALSE)
      BY <1>11, <2>4 DEF Runs
    <3> HIDE DEF c, v, net
    <3>8. Honest(Replacing(v, ws[1], FALSE)) /\ SameCall(v, Replacing(v, ws[1], FALSE))
      BY <3>4, <3>6, ReplacingHonest
    <3> QED
      BY <2>3, <3>4, <3>7, <3>8 DEF SameCall, c
  <2>5. CASE "-o" \notin c.flags
    <3>1. Runs(c, ws, w) = Printing(net, FALSE)
      BY <1>11, <2>5 DEF Runs
    <3> HIDE DEF c, net
    <3>2. Honest(Printing(net, FALSE)) /\ SameCall(net, Printing(net, FALSE))
      BY <2>3, PrintingHonest
    <3> QED
      BY <2>3, <3>1, <3>2 DEF SameCall, c
  <2> QED
    BY <2>4, <2>5
<1>12. CASE c.op \notin {"cat", "cp", "mv", "rm", "curl", "echo"}
  <2>1. \E e \in CallEffects(prog, i) : e.kind = "CodeExec"
    <3>1. CASE c.op = "sh"
      BY <3>1 DEF CallEffects, Effect
    <3>2. CASE c.op # "sh"
      <4>1. BindCommand(c, c.ops) = {Effect("CodeExec", FlatTop, {}, FlowNone)}
        BY <1>12 DEF BindCommand
      <4>2. Effect("CodeExec", FlatTop, {}, FlowNone).kind = "CodeExec"
        BY DEF Effect
      <4> QED
        BY <1>3, <3>2, <4>1, <4>2
    <3> QED
      BY <3>1, <3>2
  <2>2. Derived(prog, "CodeExec", cmd)
    BY <1>4, <2>1
  <2>3. Runs(c, ws, w) = Deed(w, "CodeExec", cmd)
    BY <1>12 DEF Runs
  <2> QED
    BY <2>2, <2>3, DeedHonest
<1> QED
  BY <1>6, <1>7, <1>8, <1>9, <1>10, <1>11, <1>12

\* Nor does an opened redirection do what no effect says.
LEMMA OpeningHonest ==
  ASSUME WellFormedProgram(prog), NEW i \in DOMAIN prog, NEW w, Honest(w), NEW r \in ToSet(prog[i].redirs)
  PROVE  LET v == Opening(w, r, Text(r.target, w.outer))
         IN Honest(v) /\ v.at = w.at /\ v.opened = w.opened
<1> DEFINE t == Text(r.target, w.outer)
           atom == << "redirect", r.op >>
<1>1. /\ r.op \in WriteOps \cup {"<"} => r.target \in Words
      /\ r.op \in WriteOps \cup {"<", "2>&1"}
  <2>1. WellFormed(prog[i])
    BY DEF WellFormedProgram, ToSet
  <2>2. PICK k \in DOMAIN prog[i].redirs : r = prog[i].redirs[k]
    BY DEF ToSet
  <2> QED
    BY <2>1, <2>2, CallWords
<1>2. Derived(prog, RedirEffect(r).kind, atom) /\ \E x \in Derivations(prog) : x.effect = RedirEffect(r)
  BY RedirDerived
<1>3. {"FSRead", "FSWrite", "Stdio"} \subseteq EffectKinds /\ ToSet(<< r.target >>) = {r.target}
  BY PairWords DEF EffectKinds
<1>4. ASSUME r.op \in WriteOps
      PROVE  /\ Honest(Deed(w, "FSWrite", atom)) /\ SameCall(w, Deed(w, "FSWrite", atom))
             /\ IsRemote(t) => WritesRemote(prog)
  <2>1. RedirEffect(r) = Plain("FSWrite", << r.target >>)
    BY <1>4 DEF RedirEffect, WriteOps
  <2>2. RedirEffect(r).kind = "FSWrite"
    BY <1>1, <1>3, <1>4, <2>1, PlainLabelled
  <2>3. Honest(Deed(w, "FSWrite", atom)) /\ SameCall(w, Deed(w, "FSWrite", atom))
    BY <1>2, <2>2, DeedHonest
  <2>4. ASSUME IsRemote(t) PROVE WritesRemote(prog)
    <3>1. ToSet(<< r.target >>) \subseteq Words /\ r.target \in ToSet(<< r.target >>) /\ "FSWrite" \in EffectKinds
          /\ "FSWrite" \in {"FSWrite"} /\ Text(r.target, w.outer) \in DOMAIN Shares \cup Ambiguous
      BY <1>1, <1>3, <1>4, <2>4 DEF IsRemote
    <3>2. \E x \in Derivations(prog) : x.effect = Plain("FSWrite", << r.target >>)
      BY <1>2, <2>1
    <3>3. Touches(prog, {"FSWrite"}, DOMAIN Shares \cup Ambiguous)
      BY <3>1, <3>2, PlainTouches
    <3> QED
      BY <3>3 DEF WritesRemote
  <2> QED
    BY <2>3, <2>4
<1>5. ASSUME NEW v, Honest(v), IsRemote(t) => WritesRemote(prog)
      PROVE  Honest([v EXCEPT !.out = {t}]) /\ [v EXCEPT !.out = {t}].at = v.at /\ [v EXCEPT !.out = {t}].opened = v.opened
  <2> DEFINE o == [v EXCEPT !.out = {t}]
  <2>1. /\ Shaped(o) /\ o.at = v.at /\ o.opened = v.opened /\ o.in = v.in /\ o.out = {t}
        /\ o.secret = v.secret /\ o.leaked = v.leaked /\ o.deeds = v.deeds
    BY <1>5 DEF Honest, Shaped
  <2> HIDE DEF o, t
  <2>2. Honest(o)
    BY <1>5, <2>1 DEF Honest
  <2> QED
    BY <2>1, <2>2 DEF o
<1>6. CASE r.op = "<"
  <2> DEFINE v == Deed(w, "FSRead", << "redirect", "<" >>)
             o == [v EXCEPT !.in = {t}]
  <2>1. RedirEffect(r) = Plain("FSRead", << r.target >>)
    BY <1>6 DEF RedirEffect, WriteOps
  <2>2. RedirEffect(r).kind = "FSRead"
    BY <1>1, <1>3, <1>6, <2>1, PlainLabelled
  <2>3. Honest(v) /\ SameCall(w, v)
    BY <1>2, <1>6, <2>2, DeedHonest
  <2>4. ASSUME t \in Credentials PROVE ReadsCredential(prog)
    <3>1. ToSet(<< r.target >>) \subseteq Words /\ r.target \in ToSet(<< r.target >>) /\ "FSRead" \in EffectKinds
          /\ "FSRead" \in {"FSRead", "FSMeta"} /\ Text(r.target, w.outer) \in Credentials
      BY <1>1, <1>3, <1>6, <2>4
    <3>2. \E x \in Derivations(prog) : x.effect = Plain("FSRead", << r.target >>)
      BY <1>2, <2>1
    <3>3. Touches(prog, {"FSRead", "FSMeta"}, Credentials)
      BY <3>1, <3>2, PlainTouches
    <3> QED
      BY <3>3 DEF ReadsCredential
  <2>5. Opening(w, r, t) = o
    BY <1>6 DEF Opening
  <2> HIDE DEF v
  <2>6. /\ Shaped(o) /\ o.at = v.at /\ o.opened = v.opened /\ o.in = {t} /\ o.out = v.out
        /\ o.secret = v.secret /\ o.leaked = v.leaked /\ o.deeds = v.deeds
    BY <2>3 DEF Honest, Shaped
  <2> HIDE DEF o, t
  <2>7. Honest(o) /\ o.at = w.at /\ o.opened = w.opened
    BY <2>3, <2>4, <2>6 DEF Honest, SameCall
  <2> QED
    BY <2>5, <2>7 DEF t
<1>7. CASE r.op = ">"
  <2> DEFINE v == Deed(w, "FSWrite", << "redirect", ">" >>)
  <2>1. Honest(v) /\ SameCall(w, v) /\ (IsRemote(t) => WritesRemote(prog))
    BY <1>4, <1>7 DEF WriteOps
  <2>2. Opening(w, r, t) = [Truncating(v, {t}) EXCEPT !.out = {t}]
    BY <1>7 DEF Opening
  <2> HIDE DEF v, t
  <2>3. Honest(Truncating(v, {t})) /\ SameCall(v, Truncating(v, {t}))
    BY <2>1, TruncatingHonest
  <2> QED
    BY <1>5, <2>1, <2>2, <2>3 DEF SameCall, t
<1>8. CASE r.op = ">>"
  <2> DEFINE v == Deed(w, "FSWrite", << "redirect", ">>" >>)
  <2>1. Honest(v) /\ SameCall(w, v) /\ (IsRemote(t) => WritesRemote(prog))
    BY <1>4, <1>8 DEF WriteOps
  <2>2. Opening(w, r, t) = [Appending(v, {t}, FALSE) EXCEPT !.out = {t}]
    BY <1>8 DEF Opening
  <2> HIDE DEF v, t
  <2>3. (\E x \in {t} : IsRemote(x)) => WritesRemote(prog)
    BY <2>1
  <2>4. Honest(Appending(v, {t}, FALSE)) /\ SameCall(v, Appending(v, {t}, FALSE))
    BY <2>1, <2>3, AppendingHonest
  <2> QED
    BY <1>5, <2>1, <2>2, <2>4 DEF SameCall, t
<1>9. CASE r.op = "2>"
  <2> DEFINE v == Deed(w, "FSWrite", << "redirect", "2>" >>)
  <2>1. Honest(v) /\ SameCall(w, v)
    BY <1>4, <1>9 DEF WriteOps
  <2>2. Opening(w, r, t) = Truncating(v, {t})
    BY <1>9 DEF Opening
  <2> HIDE DEF v, t
  <2>3. Honest(Truncating(v, {t})) /\ SameCall(v, Truncating(v, {t}))
    BY <2>1, TruncatingHonest
  <2> QED
    BY <2>1, <2>2, <2>3 DEF SameCall, t
<1>10. CASE r.op = "2>&1"
  <2>1. RedirEffect(r).kind = "Stdio"
    BY <1>10 DEF RedirEffect, WriteOps, Plain, Effect
  <2>2. Honest(Deed(w, "Stdio", atom)) /\ SameCall(w, Deed(w, "Stdio", atom))
    BY <1>2, <2>1, DeedHonest
  <2>3. Opening(w, r, t) = Deed(w, "Stdio", atom)
    BY <1>10 DEF Opening
  <2> QED
    BY <2>2, <2>3 DEF SameCall
<1> QED
  BY <1>1, <1>6, <1>7, <1>8, <1>9, <1>10 DEF WriteOps

-----------------------------------------------------------------------------
\* The specification

\* The report is that of the program, once there is one; nothing runs before,
\* and what runs is honest.
IInv ==
  /\ WellFormedProgram(prog)
  /\ phase \in {"loaded", "analyzed", "extended", "retried"}
  /\ report = IF phase = "loaded" THEN AnalyzeBash(<< >>) ELSE AnalyzeBash(prog)
  /\ phase # "analyzed" => run.at = 0
  /\ run.at \in Nat
  /\ run.at = 0 => run = NotRun
  /\ Honest(run)

LEMMA InvInit == Init => IInv
<1>1. SUFFICES ASSUME Init PROVE IInv
  OBVIOUS
<1>2. WellFormedProgram(prog)
  BY <1>1, CallsAssumption DEF Init, AnalyzeInit
<1>3. run = NotRun /\ NotRun.at = 0 /\ phase = "loaded" /\ report = AnalyzeBash(<< >>)
  BY <1>1 DEF Init, RunInit, AnalyzeInit, NotRun
<1>4. Honest(run)
  BY <1>3 DEF Honest, Shaped, NotRun
<1> QED
  BY <1>2, <1>3, <1>4 DEF IInv

\* Each step of the shell is honest, and leaves a run that has started.
LEMMA RunShellHonest ==
  ASSUME IInv, RunShell
  PROVE  Honest(run)' /\ run'.at \in Nat /\ run'.at # 0
<1>1. prog' = prog /\ WellFormedProgram(prog)
  BY DEF RunShell, Start, OpenNext, RunCall, FailCall, IInv
<1>2. SUFFICES ASSUME TRUE PROVE Honest(run') /\ run'.at \in Nat /\ run'.at # 0
  BY <1>1 DEF Honest, ReadsCredential, WritesRemote, Touches, Derived
<1>3. Honest(run) /\ run.at \in Nat
  BY DEF IInv
<1>4. CASE Start
  <2>1. PICK outer \in Outers :
          run' = [NotRun EXCEPT !.at = 1, !.outer = outer, !.files = Credentials \cup Present \cup {outer}, !.secret = Credentials]
    BY <1>4 DEF Start
  <2>2. /\ Shaped(run') /\ run'.at = 1 /\ run'.secret = Credentials /\ ~run'.leaked /\ run'.leaked \in BOOLEAN
        /\ run'.out = {} /\ run'.in = {} /\ run'.deeds = {} /\ run'.opened = 0
    BY <2>1 DEF Shaped, NotRun
  <2> QED
    BY <2>2 DEF Honest
<1>5. CASE OpenNext
  <2> DEFINE r == ThisCall.redirs[run.opened + 1]
             v == Opening(run, r, Text(r.target, run.outer))
  <2>1. run' = [v EXCEPT !.opened = @ + 1] /\ run.at \in DOMAIN prog
    BY <1>5 DEF OpenNext, InCall
  <2>2. WellFormed(ThisCall) /\ ThisCall = prog[run.at]
    BY <1>1, <2>1 DEF WellFormedProgram, ToSet, ThisCall
  <2>3. r \in ToSet(ThisCall.redirs)
    <3>1. run.opened \in Nat /\ run.opened < Len(ThisCall.redirs)
      BY <1>3, <1>5 DEF OpenNext, MoreToOpen, Honest
    <3>2. Len(ThisCall.redirs) \in Nat /\ DOMAIN ThisCall.redirs = 1 .. Len(ThisCall.redirs)
      BY <2>2, CallWords
    <3> QED
      BY <3>1, <3>2 DEF ToSet
  <2>4. Honest(v) /\ v.at = run.at
    <3> HIDE DEF r
    <3> QED
      BY <1>1, <1>3, <2>1, <2>2, <2>3, OpeningHonest
  <2> HIDE DEF v
  <2>5. /\ Shaped(run') /\ run'.at = v.at /\ run'.in = v.in /\ run'.out = v.out /\ run'.opened = v.opened + 1
        /\ run'.secret = v.secret /\ run'.leaked = v.leaked /\ run'.deeds = v.deeds
    BY <2>1, <2>4 DEF Honest, Shaped
  <2>6. run.at # 0
    BY <1>1, <2>1 DEF WellFormedProgram
  <2> QED
    BY <1>3, <2>4, <2>5, <2>6 DEF Honest
<1>6. CASE RunCall
  <2> DEFINE v == Runs(ThisCall, TheseWords, run)
  <2>1. run' = NextCall(v) /\ run.at \in DOMAIN prog
    BY <1>6 DEF RunCall, InCall
  <2>2. /\ ThisCall = prog[run.at]
        /\ TheseWords = [k \in DOMAIN prog[run.at].ops |-> Text(prog[run.at].ops[k], run.outer)]
    BY DEF ThisCall, TheseWords
  <2>3. Honest(v) /\ SameCall(run, v)
    <3>1. Honest(Runs(prog[run.at], TheseWords, run)) /\ SameCall(run, Runs(prog[run.at], TheseWords, run))
      BY <1>1, <1>3, <2>1, <2>2, RunsHonest
    <3> QED
      BY <2>2, <3>1
  <2> HIDE DEF v
  <2>4. Honest(NextCall(v)) /\ NextCall(v).at = run.at + 1
    BY <1>3, <2>3, NextCallHonest DEF SameCall
  <2> QED
    BY <1>3, <2>1, <2>4
<1>7. CASE FailCall
  <2> DEFINE v == [run EXCEPT !.failed = TRUE]
  <2>1. run' = NextCall(v)
    BY <1>7 DEF FailCall
  <2>2. /\ Shaped(v) /\ v.at = run.at /\ v.in = run.in /\ v.out = run.out /\ v.opened = run.opened
        /\ v.secret = run.secret /\ v.leaked = run.leaked /\ v.deeds = run.deeds
    BY <1>3 DEF Honest, Shaped
  <2> HIDE DEF v
  <2>3. Honest(v)
    BY <1>3, <2>2 DEF Honest
  <2>4. Honest(NextCall(v)) /\ NextCall(v).at = run.at + 1
    BY <1>3, <2>2, <2>3, NextCallHonest
  <2> QED
    BY <1>3, <2>1, <2>4
<1> QED
  BY <1>4, <1>5, <1>6, <1>7 DEF RunShell

LEMMA NotRunHonest ==
  ASSUME run' = NotRun
  PROVE  Honest(run)' /\ run'.at = 0
BY DEF Honest, Shaped, NotRun

LEMMA InvStep == IInv /\ [Next]_vars => IInv'
<1>1. SUFFICES ASSUME IInv, [Next]_vars PROVE IInv'
  OBVIOUS
<1>2. CASE Analyze /\ UNCHANGED run
  <2>1. /\ prog' = prog /\ phase = "loaded" /\ phase' = "analyzed" /\ report' = AnalyzeBash(prog) /\ run' = run
    BY <1>2 DEF Analyze
  <2>2. run' = NotRun
    BY <1>1, <2>1 DEF IInv
  <2> QED
    BY <1>1, <2>1, <2>2, NotRunHonest DEF IInv
<1>3. CASE run.at = 0 /\ (\E c \in Extensions : Extend(c)) /\ UNCHANGED run
  <2>1. PICK c \in Extensions : Extend(c)
    BY <1>3
  <2>2. prog' = Append(prog, c) /\ phase' = "extended" /\ report' = AnalyzeBash(prog') /\ run' = NotRun
    BY <1>1, <1>3, <2>1 DEF Extend, IInv
  <2>3. WellFormedProgram(prog')
    BY <1>1, <2>2, LongerProgram, CallsAssumption DEF IInv
  <2> QED
    BY <2>2, <2>3, NotRunHonest DEF IInv
<1>4. CASE run.at = 0 /\ (\E i \in DOMAIN prog, tmp \in StagingNames : Retry(i, tmp)) /\ UNCHANGED run
  <2>1. PICK i \in DOMAIN prog, tmp \in StagingNames : Retry(i, tmp)
    BY <1>4
  <2>2. prog' = Staged(i, tmp) /\ phase' = "retried" /\ report' = AnalyzeBash(prog') /\ run' = NotRun
    BY <1>1, <1>4, <2>1 DEF Retry, IInv
  <2>3. WellFormedProgram(prog')
    <3>1. Len(prog[i].redirs) = 1 /\ prog[i].redirs[1].op = ">" /\ prog[i].redirs[1].target # Unknown
      BY <2>1 DEF Retry
    <3>2. WellFormedProgram(Staged(i, tmp))
      BY <1>1, <3>1, StagedProgram DEF IInv
    <3> QED
      BY <2>2, <3>2
  <2> QED
    BY <2>2, <2>3, NotRunHonest DEF IInv
<1>5. CASE phase = "analyzed" /\ RunShell /\ UNCHANGED << report, before, phase >>
  <2>1. Honest(run)' /\ run'.at \in Nat /\ run'.at # 0
    BY <1>1, <1>5, RunShellHonest
  <2>2. prog' = prog
    BY <1>5 DEF RunShell, Start, OpenNext, RunCall, FailCall
  <2> QED
    BY <1>1, <1>5, <2>1, <2>2 DEF IInv
<1>6. CASE UNCHANGED vars
  BY <1>1, <1>6 DEF IInv, vars, Honest, ReadsCredential, WritesRemote, Touches, Derived
<1> QED
  BY <1>1, <1>2, <1>3, <1>4, <1>5, <1>6 DEF Next, Over

LEMMA Invariance == Spec => []IInv
  BY InvInit, InvStep, PTL DEF Spec

\* The effects of a report are valid and one for each kind, mode and flow, its
\* canonical ones too, and its grade is above its other dimensions: whatever the
\* program (normalizeEffects, ScoreEffects).
THEOREM TypeCorrect == Spec => []TypeOK
<1>1. IInv => TypeOK
  <2>1. SUFFICES ASSUME IInv PROVE TypeOK
    OBVIOUS
  <2>2. ReportOK(report)
    BY <2>1, ReportType, EmptyProgram DEF IInv
  <2> QED
    BY <2>1, <2>2 DEF TypeOK, ReportOK, IInv
<1> QED
  BY <1>1, Invariance, PTL

-----------------------------------------------------------------------------
\* Every deed is explained

\* A derivation of the program is cited by the why-trace of its row.
LEMMA DerivationCited ==
  ASSUME NEW p, WellFormedProgram(p), NEW x \in Derivations(p)
  PROVE  \E e \in AnalyzeBash(p).effects : e.kind = x.effect.kind /\ x.atom \in AnalyzeBash(p).why[EffectKey(e)]
<1> DEFINE S == ReportEffects(p)
           ders == Derivations(p)
           why == BuildWhy(S, p, ders)
<1>1. AnalyzeBash(p).effects = S /\ AnalyzeBash(p).why = why
  BY DEF AnalyzeBash, WithRows, Assemble
<1>2. PICK e \in S : EffectLeq(x.effect, e)
  <2>1. x.effect \in BoundEffects(p)
    BY DEF BoundEffects
  <2>2. Below(BoundEffects(p), S)
    BY ReportRows
  <2> QED
    BY <2>1, <2>2 DEF Below
<1>3. e.kind = x.effect.kind /\ e.mode = x.effect.mode
  BY <1>2 DEF EffectLeq
<1> HIDE DEF S, ders
<1>4. x.atom \in AtomsFor(e, ders)
  BY <1>3 DEF AtomsFor, ders
<1>5. x.atom \in Explained(e, p, ders)
  BY <1>4 DEF Explained, OrFallback
<1>6. x.atom \in why[EffectKey(e)]
  <2>1. EffectKey(e) \in {EffectKey(o) : o \in S} /\ e \in {o \in S : EffectKey(o) = EffectKey(e)}
    BY <1>2
  <2>2. why[EffectKey(e)] = UNION {Explained(d, p, ders) : d \in {o \in S : EffectKey(o) = EffectKey(e)}}
    BY <2>1 DEF BuildWhy
  <2> QED
    BY <1>5, <2>1, <2>2
<1> QED
  BY <1>1, <1>2, <1>3, <1>6

\* Whatever a program does when it runs, a why-trace of its report cites the
\* command or redirection that does it: for every program and every report.
THEOREM DeedsAreExplained == Spec => []EveryDeedIsExplained
<1>1. IInv => EveryDeedIsExplained
  <2>1. SUFFICES ASSUME IInv, NEW d \in run.deeds
                 PROVE  \E e \in report.effects : e.kind = d.kind /\ d.atom \in report.why[EffectKey(e)]
    BY DEF EveryDeedIsExplained
  <2>2. run # NotRun
    <3>1. NotRun.deeds = {}
      BY DEF NotRun
    <3> QED
      BY <2>1, <3>1
  <2>3. report = AnalyzeBash(prog) /\ WellFormedProgram(prog)
    BY <2>1, <2>2 DEF IInv
  <2>4. PICK x \in Derivations(prog) : x.effect.kind = d.kind /\ x.atom = d.atom
    BY <2>1 DEF IInv, Honest, Derived
  <2> QED
    BY <2>3, <2>4, DerivationCited
<1> QED
  BY <1>1, Invariance, PTL

-----------------------------------------------------------------------------
\* A leak is denied

\* What the policies configure.
Configured(c) ==
  /\ c.unknown \in Actions /\ c.conservative \in Actions /\ c.exfiltration \in Actions
  /\ c.cradle \in Actions /\ c.ingest \in Actions
  /\ c.effects \in [EffectKinds -> Actions] /\ c.grades \in [Severities -> Actions]

CodeOf == {"conservative", "cradle", "exfiltration", "grade", "ingest", "unknown"} \cup EffectKinds

LEMMA CodesAre == DOMAIN Codes = 1 .. 21 /\ Codes[18] = "exfiltration" /\ \A i \in 1 .. 21 : Codes[i] \in CodeOf
<1>1. DOMAIN Codes = 1 .. 21 /\ Codes[18] = "exfiltration"
  BY DEF Codes
<1>2. \A i \in 1 .. 5 : Codes[i] \in CodeOf
  BY DEF Codes, CodeOf, EffectKinds
<1>3. \A i \in 6 .. 10 : Codes[i] \in CodeOf
  BY DEF Codes, CodeOf, EffectKinds
<1>4. \A i \in 11 .. 15 : Codes[i] \in CodeOf
  BY DEF Codes, CodeOf, EffectKinds
<1>5. \A i \in 16 .. 21 : Codes[i] \in CodeOf
  BY DEF Codes, CodeOf, EffectKinds
<1> QED
  BY <1>1, <1>2, <1>3, <1>4, <1>5

LEMMA RuleType ==
  ASSUME NEW c, Configured(c), NEW r, r.grade \in Severities, NEW code \in CodeOf
  PROVE  Rule(code, c, r) \in Actions
<1>1. CASE code = "grade"
  <2>1. c.grades[r.grade] \in Actions
    BY DEF Configured
  <2>2. ActionFor(code, c, r) = c.grades[r.grade]
    BY <1>1 DEF ActionFor, EffectKinds
  <2> QED
    BY <2>1, <2>2 DEF Rule, Actions
<1>2. CASE code \in EffectKinds
  <2>1. c.effects[code] \in Actions
    BY <1>2 DEF Configured
  <2>2. ActionFor(code, c, r) = c.effects[code]
    BY <1>2 DEF ActionFor, EffectKinds
  <2> QED
    BY <2>1, <2>2 DEF Rule, Actions
<1>3. CASE code \in {"conservative", "cradle", "exfiltration", "ingest", "unknown"}
  <2>1. ActionFor(code, c, r) = c[code]
    BY <1>3 DEF ActionFor, EffectKinds
  <2>2. c[code] \in Actions
    BY <1>3 DEF Configured
  <2> QED
    BY <2>1, <2>2 DEF Rule, Actions
<1> QED
  BY <1>1, <1>2, <1>3 DEF CodeOf

LEMMA RulesAre ==
  ASSUME NEW c, Configured(c), NEW r, r.grade \in Severities
  PROVE  /\ Rules(c, r) \in Seq(Actions) /\ DOMAIN Rules(c, r) = 1 .. 21
         /\ \A i \in 1 .. 21 : Rules(c, r)[i] = Rule(Codes[i], c, r)
         /\ Rules(c, r)[18] = IF r.exfilPairs # {} THEN c.exfiltration ELSE "allow"
<1>1. \A i \in 1 .. 21 : Rule(Codes[i], c, r) \in Actions
  BY CodesAre, RuleType
<1>2. Rules(c, r) = [i \in 1 .. 21 |-> Rule(Codes[i], c, r)]
  BY CodesAre DEF Rules
<1>3. Rule("exfiltration", c, r) = IF r.exfilPairs # {} THEN c.exfiltration ELSE "allow"
  BY DEF Rule, Applies, ActionFor, EffectKinds
<1> QED
  BY <1>1, <1>2, <1>3, CodesAre

LEMMA ReportGrade ==
  ASSUME NEW p, WellFormedProgram(p)
  PROVE  /\ AnalyzeBash(p).effects = ReportEffects(p)
         /\ AnalyzeBash(p).exfilPairs = DetectExfil(ReportEffects(p))
         /\ AnalyzeBash(p).cradleFlows = DetectCradleFlows(ReportEffects(p))
         /\ AnalyzeBash(p).ingestFlows = DetectIngestFlows(ReportEffects(p))
         /\ AnalyzeBash(p).grade = GradeOf(ReportEffects(p), p, BreadthSeverity(Reach(ReportEffects(p))))
         /\ AnalyzeBash(p).grade \in Severities
<1> DEFINE S == ReportEffects(p)
           b == BreadthSeverity(Reach(S))
<1>1. \A x \in S : Labelled(x)
  BY ReportRows
<1>2. b \in 0 .. 4
  BY BreadthType
<1>3. GradeOf(S, p, b) \in 0 .. 4
  <2> HIDE DEF S, b
  <2> QED
    BY <1>1, <1>2, GradeType
<1> QED
  BY <1>3 DEF AnalyzeBash, WithRows, Assemble, Severities

\* A derived effect is below a row it is merged into, before the writes to a
\* share are looked for, and that one below a row of the report: when the rows
\* of its kind are bounded, so is what it was merged into.
LEMMA MergedInto ==
  ASSUME NEW p, WellFormedProgram(p), NEW x \in Derivations(p),
         Bounded(AnalyzeBash(p), x.effect.kind)
  PROVE  \E b \in BoundRows(p) : \E f \in ReportEffects(p) :
           /\ EffectLeq(b, f) /\ b.kind = x.effect.kind /\ f.kind = x.effect.kind
           /\ ~x.effect.target.arbitrary /\ ~b.target.arbitrary /\ ~f.target.arbitrary
           /\ x.effect.target.elems \subseteq b.target.elems /\ b.target.elems \subseteq f.target.elems
<1>1. x.effect \in BoundEffects(p)
  BY DEF BoundEffects
<1>2. PICK b \in BoundRows(p) : EffectLeq(x.effect, b)
  BY <1>1, ReportRows DEF Below
<1>3. PICK f \in ReportEffects(p) : EffectLeq(b, f)
  BY <1>2, ReportRows DEF Below
<1>4. b.kind = x.effect.kind /\ f.kind = x.effect.kind
  BY <1>2, <1>3 DEF EffectLeq
<1>5. ~f.target.arbitrary
  BY <1>3, <1>4, ReportGrade DEF Bounded, Row
<1> QED
  BY <1>2, <1>3, <1>4, <1>5 DEF EffectLeq, FlatLeq

\* A program that may read a credential and may write to a share has a pair of a
\* secret read and a sink it flows to.
LEMMA LeakIsPaired ==
  ASSUME NEW p, WellFormedProgram(p), ReadsCredential(p), WritesRemote(p),
         \A k \in {"FSRead", "FSWrite", "FSMeta"} : Bounded(AnalyzeBash(p), k)
  PROVE  DetectExfil(ReportEffects(p)) # {}
<1> DEFINE S == ReportEffects(p)
           R == BoundRows(p)
<1>1. PICK x \in Derivations(p) :
        /\ x.effect.kind \in {"FSRead", "FSMeta"}
        /\ x.effect.target.arbitrary \/ x.effect.target.elems \cap Credentials # {}
  BY DEF ReadsCredential, Touches
<1>2. PICK b \in R, f \in S :
        /\ b.kind \in {"FSRead", "FSMeta"} /\ f.kind \in {"FSRead", "FSMeta"}
        /\ b.target.elems \cap Credentials # {} /\ f.target.elems \cap Credentials # {}
  <2>1. Bounded(AnalyzeBash(p), x.effect.kind)
    BY <1>1
  <2>2. PICK b \in R : \E f \in S :
           /\ EffectLeq(b, f) /\ b.kind = x.effect.kind /\ f.kind = x.effect.kind
           /\ ~x.effect.target.arbitrary /\ ~b.target.arbitrary /\ ~f.target.arbitrary
           /\ x.effect.target.elems \subseteq b.target.elems /\ b.target.elems \subseteq f.target.elems
    BY <2>1, MergedInto
  <2> HIDE DEF S, R
  <2> QED
    BY <1>1, <2>2
<1>3. "secret" \in RemoteSinkPayload(R)
  <2>1. IsSecretRead(b)
    BY <1>2 DEF IsSecretRead
  <2> QED
    BY <1>2, <2>1 DEF RemoteSinkPayload
<1>4. PICK y \in Derivations(p) :
        /\ y.effect.kind = "FSWrite"
        /\ y.effect.target.arbitrary \/ y.effect.target.elems \cap (DOMAIN Shares \cup Ambiguous) # {}
  BY DEF WritesRemote, Touches
<1>5. PICK w \in R : w.kind = "FSWrite" /\ w.target.elems \cap (DOMAIN Shares \cup Ambiguous) # {}
  BY <1>4, MergedInto
<1>6. PICK h : h \in RemoteSinks(WrittenTargets(R))
  <2>1. PICK t \in w.target.elems : t \in DOMAIN Shares \cup Ambiguous
    BY <1>5
  <2>2. t \in WrittenTargets(R)
    BY <1>5, <2>1 DEF WrittenTargets
  <2> QED
    BY <2>1, <2>2 DEF RemoteSinks
<1>7. SinkEffect(h, R) \in WithSinks(R)
  BY <1>6 DEF WithSinks
<1>8. PICK g \in S : EffectLeq(SinkEffect(h, R), g)
  BY <1>7, ReportRows DEF Below
<1>9. IsEgressSink(g)
  <2>1. Labelled(g)
    BY <1>8, ReportRows
  <2>2. SinkEffect(h, R).kind = "NetEgress" /\ SinkEffect(h, R).taint = FlatOf(RemoteSinkPayload(R))
    BY <1>6, SinkLabelled, ReportRows
  <2>3. g.kind = "NetEgress" /\ FlatLeq(FlatOf(RemoteSinkPayload(R)), g.taint)
    BY <1>8, <2>2 DEF EffectLeq
  <2>4. "secret" \in g.taint.elems
    BY <1>3, <2>1, <2>3 DEF FlatLeq, FlatOf, Labelled
  <2> QED
    BY <2>3, <2>4 DEF IsEgressSink, FlatOf
<1>10. IsSecretRead(f)
  BY <1>2 DEF IsSecretRead
<1>11. << f, g >> \in DetectExfil(S)
  BY <1>2, <1>8, <1>9, <1>10 DEF DetectExfil
<1> QED
  BY <1>11

LEMMA DefaultConfigured == Configured(DefaultPolicy)
BY DEF Configured, DefaultPolicy, Permissive, Actions, Severities

\* When the bytes of a credential reach a share, by whatever copies and moves
\* and at whatever moment, the default policy denies the program, unless what it
\* reads or writes is not known: for every program (remote_sink.go, DetectExfil).
THEOREM LeaksAreDenied == Spec => []LeakIsDenied
<1>1. IInv => LeakIsDenied
  <2>1. SUFFICES ASSUME IInv, run.leaked, \A k \in {"FSRead", "FSWrite", "FSMeta"} : Bounded(report, k)
                 PROVE  Evaluate(DefaultPolicy, report) = "deny"
    BY DEF LeakIsDenied
  <2>2. run # NotRun
    <3>1. ~NotRun.leaked
      BY DEF NotRun
    <3> QED
      BY <2>1, <3>1
  <2>3. report = AnalyzeBash(prog) /\ WellFormedProgram(prog)
    BY <2>1, <2>2 DEF IInv
  <2>4. ReadsCredential(prog) /\ WritesRemote(prog)
    BY <2>1 DEF IInv, Honest
  <2>5. DetectExfil(ReportEffects(prog)) # {}
    BY <2>1, <2>3, <2>4, LeakIsPaired
  <2>6. report.exfilPairs # {} /\ Covered(report) /\ report.grade \in Severities
    BY <2>3, <2>5, ReportGrade DEF Covered, DetectExfil
  <2> DEFINE rules == Rules(DefaultPolicy, report)
  <2>7. rules \in Seq(Actions) /\ DOMAIN rules = 1 .. 21 /\ rules[18] = "deny"
    <3>1. DefaultPolicy.exfiltration = "deny"
      BY DEF DefaultPolicy
    <3> QED
      BY <2>6, <3>1, DefaultConfigured, RulesAre
  <2> HIDE DEF rules
  <2>8. Strongest(rules) \in Actions /\ Rank("deny") <= Rank(Strongest(rules))
    BY <2>7, StrongestIsMax
  <2>9. Strongest(rules) = "deny"
    BY <2>8, RankOrders DEF Actions, Rank
  <2> QED
    BY <2>6, <2>9 DEF Evaluate, rules
<1> QED
  BY <1>1, Invariance, PTL

-----------------------------------------------------------------------------
\* One more call never softens the decision

BoundedRows(S) == \A e \in S : e.kind \in {"FSRead", "FSWrite", "FSMeta"} => ~e.target.arbitrary

\* What was below a bounded row was bounded too.
LEMMA BelowBounded ==
  ASSUME NEW S, NEW T, Below(S, T), BoundedRows(T)
  PROVE  BoundedRows(S)
BY DEF Below, BoundedRows, EffectLeq, FlatLeq

LEMMA DerivationsGrow ==
  ASSUME NEW p, WellFormedProgram(p), NEW c
  PROVE  /\ BoundEffects(p) \subseteq BoundEffects(Append(p, c))
         /\ ToSet(p) \subseteq ToSet(Append(p, c))
<1> DEFINE q == Append(p, c)
<1>1. Len(p) \in Nat /\ DOMAIN p = 1 .. Len(p) /\ DOMAIN q = 1 .. Len(p) + 1 /\ \A i \in 1 .. Len(p) : q[i] = p[i]
  BY DEF WellFormedProgram
<1> HIDE DEF q
<1>2. ASSUME NEW i \in DOMAIN p PROVE i \in DOMAIN q /\ CallDerivations(q, i) = CallDerivations(p, i)
  <2>1. i \in DOMAIN q /\ q[i] = p[i] /\ (i > 1 => q[i - 1] = p[i - 1])
    BY <1>1
  <2>2. SinkFlowRole(q, i) = SinkFlowRole(p, i)
    BY <2>1 DEF SinkFlowRole
  <2>3. CallEffects(q, i) = CallEffects(p, i)
    BY <2>1, <2>2 DEF CallEffects
  <2> QED
    BY <2>1, <2>3 DEF CallDerivations
<1>3. Derivations(p) \subseteq Derivations(q)
  BY <1>2 DEF Derivations
<1>4. ToSet(p) \subseteq ToSet(q)
  BY <1>1 DEF ToSet
<1> QED
  BY <1>3, <1>4 DEF BoundEffects, q

LEMMA SecretReadGrows ==
  ASSUME NEW e, NEW f, Labelled(e), Labelled(f), EffectLeq(e, f), IsSecretRead(e),
         f.kind \in {"FSRead", "FSWrite", "FSMeta"} => ~f.target.arbitrary
  PROVE  IsSecretRead(f)
BY DEF Labelled, EffectLeq, FlatLeq, IsSecretRead

LEMMA PayloadGrows ==
  ASSUME NEW S, NEW T, \A x \in S : Labelled(x), \A x \in T : Labelled(x), Below(S, T), BoundedRows(T)
  PROVE  /\ RemoteSinkPayload(S) \subseteq RemoteSinkPayload(T)
         /\ RemoteSinks(WrittenTargets(S)) \subseteq RemoteSinks(WrittenTargets(T))
<1>1. ASSUME NEW l \in RemoteSinkPayload(S) PROVE l \in RemoteSinkPayload(T)
  <2>1. PICK e \in S : /\ e.kind \in {"FSRead", "FSMeta", "CredAccess"}
                       /\ l \in e.taint.elems \/ (l = "secret" /\ IsSecretRead(e))
    BY <1>1 DEF RemoteSinkPayload
  <2>2. PICK f \in T : EffectLeq(e, f)
    BY DEF Below
  <2>3. f.kind = e.kind /\ e.taint.elems \subseteq f.taint.elems
    BY <2>2 DEF EffectLeq, FlatLeq, Labelled
  <2>4. IsSecretRead(e) => IsSecretRead(f)
    BY <2>2, SecretReadGrows DEF BoundedRows
  <2> QED
    BY <2>1, <2>3, <2>4 DEF RemoteSinkPayload
<1>2. WrittenTargets(S) \subseteq WrittenTargets(T)
  <2>1. SUFFICES ASSUME NEW e \in S, e.kind \in {"FSWrite", "FSMeta"}, NEW t \in e.target.elems
                 PROVE  t \in WrittenTargets(T)
    BY DEF WrittenTargets
  <2>2. PICK f \in T : EffectLeq(e, f)
    BY <2>1 DEF Below
  <2>3. f.kind \in {"FSWrite", "FSMeta"} /\ t \in f.target.elems
    BY <2>1, <2>2 DEF EffectLeq, FlatLeq, BoundedRows
  <2> QED
    BY <2>3 DEF WrittenTargets
<1> QED
  BY <1>1, <1>2 DEF RemoteSinks

\* The rows of a report grow with the program.
LEMMA RowsGrow ==
  ASSUME NEW p, WellFormedProgram(p), NEW c, WellFormed(c), BoundedRows(ReportEffects(Append(p, c)))
  PROVE  Below(ReportEffects(p), ReportEffects(Append(p, c)))
<1> DEFINE q == Append(p, c)
<1>1. WellFormedProgram(q) /\ BoundEffects(p) \subseteq BoundEffects(q)
  BY LongerProgram, DerivationsGrow
<1> HIDE DEF q
<1>2. (\A x \in BoundEffects(p) : Labelled(x)) /\ (\A x \in BoundEffects(q) : Labelled(x))
  BY <1>1, ReportRows
<1>3. Below(BoundEffects(p), BoundEffects(q))
  BY <1>1, <1>2, EffectLeqReflexive DEF Below
<1> DEFINE R == BoundRows(p)
           T == BoundRows(q)
<1>4. Below(R, T)
  BY <1>2, <1>3, NormalizeIsMonotone DEF BoundRows
<1>5. (\A x \in R : Labelled(x)) /\ (\A x \in T : Labelled(x))
  BY <1>1, ReportRows
<1>6. BoundedRows(T)
  <2>1. Below(T, ReportEffects(q)) /\ BoundedRows(ReportEffects(q))
    BY <1>1, ReportRows DEF q
  <2> QED
    BY <2>1, BelowBounded
<1> HIDE DEF R, T
<1>7. Below(WithSinks(R), WithSinks(T))
  <2>1. SUFFICES ASSUME NEW x \in WithSinks(R) PROVE \E y \in WithSinks(T) : EffectLeq(x, y)
    BY DEF Below
  <2>2. CASE x \in R
    BY <1>4, <2>2 DEF Below, WithSinks
  <2>3. CASE \E h \in RemoteSinks(WrittenTargets(R)) : x = SinkEffect(h, R)
    <3>1. PICK h \in RemoteSinks(WrittenTargets(R)) : x = SinkEffect(h, R)
      BY <2>3
    <3>2. h \in RemoteSinks(WrittenTargets(T)) /\ RemoteSinkPayload(R) \subseteq RemoteSinkPayload(T)
      BY <1>4, <1>5, <1>6, PayloadGrows
    <3>3. EffectLeq(SinkEffect(h, R), SinkEffect(h, T))
      BY <3>2 DEF SinkEffect, Effect, EffectLeq, FlatLeq, FlatOf
    <3> QED
      BY <3>1, <3>2, <3>3 DEF WithSinks
  <2> QED
    BY <2>2, <2>3 DEF WithSinks
<1>8. (\A x \in WithSinks(R) : Labelled(x)) /\ (\A x \in WithSinks(T) : Labelled(x))
  BY <1>5, WithSinksLabelled
<1>9. Below(NormalizeEffects(WithSinks(R)), NormalizeEffects(WithSinks(T)))
  BY <1>7, <1>8, NormalizeIsMonotone
<1> QED
  BY <1>1, <1>9, ReportRows DEF q, R, T

\* The score and the flows of rows that grow.
LEMMA PairsGrow ==
  ASSUME NEW S, NEW T, \A x \in S : Labelled(x), \A x \in T : Labelled(x), Below(S, T), BoundedRows(T)
  PROVE  /\ \A x \in DetectExfil(S) : \E y \in DetectExfil(T) : Severity(x) <= Severity(y)
         /\ DetectCradleFlows(S) # {} => DetectCradleFlows(T) # {}
         /\ DetectIngestFlows(S) # {} => DetectIngestFlows(T) # {}
<1>1. ASSUME NEW x \in DetectExfil(S) PROVE \E y \in DetectExfil(T) : Severity(x) <= Severity(y)
  <2>1. PICK e \in S, g \in S : x = << e, g >> /\ IsSecretRead(e) /\ IsEgressSink(g)
    BY DEF DetectExfil
  <2>2. PICK f \in T : EffectLeq(e, f)
    BY DEF Below
  <2>3. IsSecretRead(f)
    BY <2>1, <2>2, SecretReadGrows DEF BoundedRows
  <2>4. PICK h \in T : EffectLeq(g, h)
    BY DEF Below
  <2>5. h.kind = "NetEgress" /\ g.taint.elems \subseteq h.taint.elems
    BY <2>1, <2>4 DEF EffectLeq, FlatLeq, Labelled, IsEgressSink
  <2>6. g.taint.elems # {}
    <3>1. g.taint \in FlatSet(Labels) /\ ~g.taint.arbitrary /\ g.taint # FlatOf({})
      BY <2>1 DEF Labelled, ValidEffect, Effects, IsEgressSink
    <3> QED
      BY <3>1 DEF FlatSet, FlatOf
  <2>7. IsEgressSink(h)
    BY <2>5, <2>6 DEF IsEgressSink, FlatOf
  <2>8. << f, h >> \in DetectExfil(T)
    BY <2>2, <2>3, <2>4, <2>7 DEF DetectExfil
  <2>9. Severity(x) <= Severity(<< f, h >>)
    BY <2>1, <2>5 DEF Severity
  <2> QED
    BY <2>8, <2>9
<1>2. \A e \in S : \E f \in T : e.kind = f.kind /\ e.netFlow = f.netFlow
  BY DEF Below, EffectLeq
<1>3. ASSUME DetectCradleFlows(S) # {} PROVE DetectCradleFlows(T) # {}
  <2>1. PICK e \in S, g \in S : e.kind = "NetEgress" /\ g.kind = "CodeExec" /\ g.netFlow = FlowCradle
    BY <1>3 DEF DetectCradleFlows, Egresses
  <2>2. PICK f \in T, h \in T : f.kind = "NetEgress" /\ h.kind = "CodeExec" /\ h.netFlow = FlowCradle
    BY <1>2, <2>1
  <2>3. << f, h >> \in DetectCradleFlows(T)
    BY <2>2 DEF DetectCradleFlows, Egresses
  <2> QED
    BY <2>3
<1>4. ASSUME DetectIngestFlows(S) # {} PROVE DetectIngestFlows(T) # {}
  <2>1. PICK e \in S, g \in S : e.kind = "NetEgress" /\ g.kind = "FSWrite" /\ g.netFlow = FlowIngest
    BY <1>4 DEF DetectIngestFlows, Egresses
  <2>2. PICK f \in T, h \in T : f.kind = "NetEgress" /\ h.kind = "FSWrite" /\ h.netFlow = FlowIngest
    BY <1>2, <2>1
  <2>3. << f, h >> \in DetectIngestFlows(T)
    BY <2>2 DEF DetectIngestFlows, Egresses
  <2> QED
    BY <2>3
<1> QED
  BY <1>1, <1>3, <1>4

LEMMA BreadthGrows ==
  ASSUME NEW S, NEW T, \A x \in S : Labelled(x), \A x \in T : Labelled(x), Below(S, T)
  PROVE  BreadthSeverity(Reach(S)) <= BreadthSeverity(Reach(T))
<1> DEFINE s == Reach(S)
           t == Reach(T)
<1>1. /\ s.arbitrary => s.elems = {}
      /\ t.arbitrary => t.elems = {}
      /\ s.arbitrary => t.arbitrary
      /\ ~t.arbitrary => s.elems \subseteq t.elems
  <2>1. s.arbitrary => t.arbitrary
    BY ScopeReach DEF Below, EffectLeq, FlatLeq
  <2>2. ASSUME ~t.arbitrary, NEW x \in s.elems PROVE x \in t.elems
    <3>1. ~s.arbitrary
      BY <2>1, <2>2
    <3>2. PICK e \in S : x \in e.target.elems
      BY <2>2, <3>1, ScopeReach
    <3>3. PICK f \in T : EffectLeq(e, f)
      BY DEF Below
    <3>4. ~f.target.arbitrary
      BY <2>2, ScopeReach
    <3> QED
      BY <2>2, <3>2, <3>3, <3>4, ScopeReach DEF EffectLeq, FlatLeq
  <2> QED
    BY <2>1, <2>2, ScopeReach
<1> HIDE DEF s, t
<1>2. /\ BreadthOf(s) \in 0 .. 4 /\ BreadthOf(t) \in 0 .. 4
      /\ BreadthSeverity(s) = IF s.elems \cap Credentials # {} /\ BreadthOf(s) < 4 THEN BreadthOf(s) + 1 ELSE BreadthOf(s)
      /\ BreadthSeverity(t) = IF t.elems \cap Credentials # {} /\ BreadthOf(t) < 4 THEN BreadthOf(t) + 1 ELSE BreadthOf(t)
  BY BreadthType
<1>3. CASE t.arbitrary
  <2>1. BreadthSeverity(t) = 4
    BY <1>1, <1>2, <1>3 DEF BreadthOf
  <2> QED
    BY <2>1, BreadthType DEF s, t
<1>4. CASE ~t.arbitrary
  <2>1. ~s.arbitrary /\ s.elems \subseteq t.elems
    BY <1>1, <1>4
  <2>2. /\ Breadths(s) \subseteq 0 .. 4 /\ Breadths(t) \subseteq 0 .. 4 /\ Breadths(s) # {}
        /\ \A x \in Breadths(s) : \E y \in Breadths(t) : x <= y
    <3>1. Breadths(s) \subseteq Breadths(t)
      BY <2>1 DEF Breadths
    <3>2. /\ Breadths(s) \subseteq 0 .. 4 /\ Breadths(t) \subseteq 0 .. 4 /\ Breadths(s) # {}
      BY BreadthType
    <3> QED
      BY <3>1, <3>2
  <2>3. Max(Breadths(s)) <= Max(Breadths(t))
    BY <2>2, GreatestGrows
  <2>4. BreadthOf(s) <= BreadthOf(t)
    BY <1>4, <2>1, <2>3 DEF BreadthOf, Breadths
  <2>5. s.elems \cap Credentials # {} => t.elems \cap Credentials # {}
    BY <2>1
  <2>6. BreadthSeverity(s) <= BreadthSeverity(t)
    BY <1>2, <2>4, <2>5
  <2> QED
    BY <2>6 DEF s, t
<1> QED
  BY <1>3, <1>4

LEMMA IrreversibilityGrows ==
  ASSUME NEW S, NEW T, Below(S, T), NEW p, NEW q, ToSet(p) \subseteq ToSet(q), NEW b \in 0 .. 4, NEW d \in 0 .. 4, b <= d
  PROVE  /\ IrreversibilitySeverity(IrreversibilityOf(S, p), b) <= IrreversibilitySeverity(IrreversibilityOf(T, q), d)
         /\ KbDestruct(p) <= KbDestruct(q)
<1>1. S # {} => T # {}
  BY DEF Below
<1>2. \A e \in S : \E f \in T : e.kind = f.kind /\ (f.reversible => e.reversible)
  BY DEF Below, EffectLeq
<1>3. IrreversibilityOf(S, p) = 2 => IrreversibilityOf(T, q) = 2
  BY <1>1, <1>2 DEF IrreversibilityOf
<1>4. IrreversibilityOf(S, p) \in {0, 2} /\ IrreversibilityOf(T, q) \in {0, 2}
  BY IrreversibilityType
<1>5. IrreversibilitySeverity(IrreversibilityOf(S, p), b) <= IrreversibilitySeverity(IrreversibilityOf(T, q), d)
  BY <1>3, <1>4 DEF IrreversibilitySeverity
<1>6. KbDestruct(p) <= KbDestruct(q)
  BY DEF KbDestruct
<1> QED
  BY <1>5, <1>6

LEMMA GradeGrows ==
  ASSUME NEW S, NEW T, \A x \in S : Labelled(x), \A x \in T : Labelled(x), Below(S, T), BoundedRows(T),
         NEW p, NEW q, ToSet(p) \subseteq ToSet(q), NEW b \in 0 .. 4, NEW d \in 0 .. 4, b <= d
  PROVE  GradeOf(S, p, b) <= GradeOf(T, q, d)
<1> DEFINE D == Dimensions(S, p, b)
           E == Dimensions(T, q, d)
<1>1. /\ D \subseteq 0 .. 4 /\ D # {} /\ E \subseteq 0 .. 4
      /\ GradeOf(S, p, b) = Max(D) /\ GradeOf(T, q, d) = Max(E)
  BY GradeType
<1>2. ComputeDestructiveness(S) <= ComputeDestructiveness(T)
  <2>1. \A e \in S : \E f \in T : e.kind = f.kind
    BY DEF Below, EffectLeq
  <2>2. Destructions(S) \subseteq Destructions(T)
    BY <2>1 DEF Destructions
  <2>3. Destructions(S) \subseteq 0 .. 4 /\ Destructions(S) # {} /\ Destructions(T) \subseteq 0 .. 4
    BY DestructivenessType
  <2>4. \A x \in Destructions(S) : \E y \in Destructions(T) : x <= y
    BY <2>2, <2>3
  <2>5. Max(Destructions(S)) <= Max(Destructions(T))
    BY <2>3, <2>4, GreatestGrows
  <2> QED
    BY <2>5 DEF ComputeDestructiveness, Destructions
<1>3. ExfilSeverity(DetectExfil(S)) <= ExfilSeverity(DetectExfil(T))
  <2>1. /\ Exfiltrations(S) \subseteq 0 .. 4 /\ Exfiltrations(S) # {} /\ ExfilSeverity(DetectExfil(S)) = Max(Exfiltrations(S))
        /\ Exfiltrations(T) \subseteq 0 .. 4 /\ ExfilSeverity(DetectExfil(T)) = Max(Exfiltrations(T))
    BY ExfilType
  <2>2. \A x \in DetectExfil(S) : \E y \in DetectExfil(T) : Severity(x) <= Severity(y)
    BY PairsGrow
  <2>3. \A x \in Exfiltrations(S) : \E y \in Exfiltrations(T) : x <= y
    BY <2>2 DEF Exfiltrations
  <2>4. Max(Exfiltrations(S)) <= Max(Exfiltrations(T))
    BY <2>1, <2>3, GreatestGrows
  <2> QED
    BY <2>1, <2>4
<1>4. /\ IrreversibilitySeverity(IrreversibilityOf(S, p), b) <= IrreversibilitySeverity(IrreversibilityOf(T, q), d)
      /\ KbDestruct(p) <= KbDestruct(q)
  BY IrreversibilityGrows
<1>5. \A e \in S : \E f \in T : InfluenceOf(e) <= InfluenceOf(f)
  <2>1. ASSUME NEW e \in S PROVE \E f \in T : InfluenceOf(e) <= InfluenceOf(f)
    <3>1. PICK f \in T : EffectLeq(e, f)
      BY DEF Below
    <3>2. e.taint.elems \subseteq f.taint.elems
      BY <3>1 DEF EffectLeq, FlatLeq, Labelled
    <3>3. InfluenceOf(e) <= InfluenceOf(f)
      BY <3>2 DEF InfluenceOf
    <3> QED
      BY <3>3
  <2> QED
    BY <2>1
<1>6. ASSUME NEW x \in D PROVE \E y \in E : x <= y
  <2>1. CASE x = ComputeDestructiveness(S)
    BY <1>2, <2>1 DEF Dimensions
  <2>2. CASE x = KbDestruct(p)
    BY <1>4, <2>2 DEF Dimensions
  <2>3. CASE x = b
    BY <2>3 DEF Dimensions
  <2>4. CASE x = ExfilSeverity(DetectExfil(S))
    BY <1>3, <2>4 DEF Dimensions
  <2>5. CASE x = IrreversibilitySeverity(IrreversibilityOf(S, p), b)
    BY <1>4, <2>5 DEF Dimensions
  <2>6. CASE \E e \in S : x = InfluenceOf(e)
    BY <1>5, <2>6 DEF Dimensions
  <2> QED
    BY <2>1, <2>2, <2>3, <2>4, <2>5, <2>6 DEF Dimensions
<1> HIDE DEF D, E
<1>7. Max(D) <= Max(E)
  BY <1>1, <1>6, GreatestGrows
<1> QED
  BY <1>1, <1>7

\* Each rule is as strong or stronger.
LEMMA RulesGrow ==
  ASSUME NEW p, WellFormedProgram(p), NEW call, WellFormed(call), BoundedRows(ReportEffects(Append(p, call))),
         NEW c \in Policies, NEW code \in CodeOf
  PROVE  Rank(Rule(code, c, AnalyzeBash(p))) <= Rank(Rule(code, c, AnalyzeBash(Append(p, call))))
<1> DEFINE q == Append(p, call)
           r == AnalyzeBash(p)
           o == AnalyzeBash(q)
           S == ReportEffects(p)
           T == ReportEffects(q)
<1>1. WellFormedProgram(q) /\ ToSet(p) \subseteq ToSet(q)
  BY LongerProgram, DerivationsGrow
<1>2. Below(S, T) /\ BoundedRows(T)
  BY RowsGrow
<1> HIDE DEF q
<1>3. (\A x \in S : Labelled(x)) /\ (\A x \in T : Labelled(x))
  BY <1>1, ReportRows
<1>4. /\ r.effects = S /\ r.exfilPairs = DetectExfil(S) /\ r.cradleFlows = DetectCradleFlows(S) /\ r.ingestFlows = DetectIngestFlows(S)
      /\ r.grade = GradeOf(S, p, BreadthSeverity(Reach(S))) /\ r.grade \in Severities
  BY ReportGrade
<1>5. /\ o.effects = T /\ o.exfilPairs = DetectExfil(T) /\ o.cradleFlows = DetectCradleFlows(T) /\ o.ingestFlows = DetectIngestFlows(T)
      /\ o.grade = GradeOf(T, q, BreadthSeverity(Reach(T))) /\ o.grade \in Severities
  BY <1>1, ReportGrade
<1> HIDE DEF r, o, S, T
<1>6. r.grade <= o.grade
  <2>1. BreadthSeverity(Reach(S)) <= BreadthSeverity(Reach(T))
    BY <1>2, <1>3, BreadthGrows
  <2>2. BreadthSeverity(Reach(S)) \in 0 .. 4 /\ BreadthSeverity(Reach(T)) \in 0 .. 4
    BY BreadthType
  <2>3. GradeOf(S, p, BreadthSeverity(Reach(S))) <= GradeOf(T, q, BreadthSeverity(Reach(T)))
    BY <1>1, <1>2, <1>3, <2>1, <2>2, GradeGrows
  <2> QED
    BY <1>4, <1>5, <2>3
<1>7. Configured(c)
  BY PolicyAssumption DEF Configured
<1>8. Applies(code, r) => Applies(code, o)
  <2>1. HasTop(r) => HasTop(o)
    BY <1>2, <1>4, <1>5 DEF HasTop, Below, EffectLeq, FlatLeq
  <2>2. r.exfilPairs # {} => o.exfilPairs # {}
    BY <1>2, <1>3, <1>4, <1>5, PairsGrow
  <2>3. (r.cradleFlows # {} => o.cradleFlows # {}) /\ (r.ingestFlows # {} => o.ingestFlows # {})
    BY <1>2, <1>3, <1>4, <1>5, PairsGrow
  <2>4. \A e \in r.effects : \E f \in o.effects : e.kind = f.kind
    BY <1>2, <1>4, <1>5 DEF Below, EffectLeq
  <2>5. CASE code \in {"conservative", "unknown"}
    BY <2>1, <2>5 DEF Applies, EffectKinds
  <2>6. CASE code = "cradle"
    BY <2>3, <2>6 DEF Applies, EffectKinds
  <2>7. CASE code = "exfiltration"
    BY <2>2, <2>7 DEF Applies, EffectKinds
  <2>8. CASE code = "ingest"
    BY <2>3, <2>8 DEF Applies, EffectKinds
  <2>9. CASE code = "grade"
    BY <2>9 DEF Applies, EffectKinds
  <2>10. CASE code \in EffectKinds
    <3>1. code \notin {"conservative", "unknown", "cradle", "exfiltration", "ingest", "grade"}
      BY <2>10 DEF EffectKinds
    <3>2. Applies(code, r) = \E e \in r.effects : e.kind = code
      BY <2>10, <3>1 DEF Applies
    <3>3. Applies(code, o) = \E e \in o.effects : e.kind = code
      BY <2>10, <3>1 DEF Applies
    <3> QED
      BY <2>4, <3>2, <3>3
  <2> QED
    BY <2>5, <2>6, <2>7, <2>8, <2>9, <2>10 DEF CodeOf
<1>9. Rule(code, c, r) \in Actions /\ Rule(code, c, o) \in Actions
  BY <1>4, <1>5, <1>7, RuleType
<1>10. Rank(ActionFor(code, c, r)) <= Rank(ActionFor(code, c, o)) \/ ~Applies(code, o)
  <2>1. CASE code = "grade"
    <3>1. ActionFor(code, c, r) = c.grades[r.grade] /\ ActionFor(code, c, o) = c.grades[o.grade]
      BY <2>1 DEF ActionFor, EffectKinds
    <3> QED
      BY <1>4, <1>5, <1>6, <3>1, PolicyAssumption
  <2>2. CASE code # "grade"
    <3>1. ActionFor(code, c, r) = ActionFor(code, c, o)
      BY <2>2 DEF ActionFor
    <3>2. Applies(code, o) => ActionFor(code, c, o) \in Actions
      BY <1>9 DEF Rule
    <3> QED
      BY <3>1, <3>2, RankOrders DEF Actions, Rank
  <2> QED
    BY <2>1, <2>2
<1>11. Rank(Rule(code, c, r)) <= Rank(Rule(code, c, o))
  <2>1. CASE Applies(code, r)
    BY <1>8, <1>10, <2>1 DEF Rule
  <2>2. CASE ~Applies(code, r)
    <3>1. Rule(code, c, r) = "allow"
      BY <2>2 DEF Rule
    <3> QED
      BY <1>9, <3>1, RankOrders
  <2> QED
    BY <2>1, <2>2
<1> QED
  BY <1>11 DEF r, o, q

LEMMA DecisionGrows ==
  ASSUME NEW p, WellFormedProgram(p), NEW call, WellFormed(call), BoundedRows(ReportEffects(Append(p, call))),
         NEW c \in Policies, Covered(AnalyzeBash(p))
  PROVE  Rank(Evaluate(c, AnalyzeBash(p))) <= Rank(Evaluate(c, AnalyzeBash(Append(p, call))))
<1> DEFINE r == AnalyzeBash(p)
           o == AnalyzeBash(Append(p, call))
           R == Rules(c, r)
           O == Rules(c, o)
<1>1. Configured(c)
  BY PolicyAssumption DEF Configured
<1>2. WellFormedProgram(Append(p, call))
  BY LongerProgram
<1>3. r.grade \in Severities /\ o.grade \in Severities
  BY <1>2, ReportGrade
<1>4. Covered(o)
  <2>1. Below(ReportEffects(p), ReportEffects(Append(p, call)))
    BY RowsGrow
  <2>2. r.effects = ReportEffects(p) /\ o.effects = ReportEffects(Append(p, call))
    BY <1>2, ReportGrade
  <2> QED
    BY <2>1, <2>2 DEF Covered, Below
<1>5. \A i \in 1 .. 21 : Rank(Rule(Codes[i], c, r)) <= Rank(Rule(Codes[i], c, o))
  BY CodesAre, RulesGrow
<1> HIDE DEF r, o
<1>6. /\ R \in Seq(Actions) /\ DOMAIN R = 1 .. 21 /\ \A i \in 1 .. 21 : R[i] = Rule(Codes[i], c, r)
      /\ O \in Seq(Actions) /\ DOMAIN O = 1 .. 21 /\ \A i \in 1 .. 21 : O[i] = Rule(Codes[i], c, o)
  BY <1>1, <1>3, RulesAre
<1> HIDE DEF R, O
<1>7. /\ Strongest(R) \in Actions /\ Strongest(O) \in Actions
      /\ \A i \in DOMAIN O : Rank(O[i]) <= Rank(Strongest(O))
      /\ Strongest(R) = "allow" \/ \E i \in DOMAIN R : R[i] = Strongest(R)
  BY <1>6, StrongestIsMax
<1>8. Rank(Strongest(R)) <= Rank(Strongest(O))
  <2>1. CASE Strongest(R) = "allow"
    BY <1>7, <2>1, RankOrders
  <2>2. CASE \E i \in DOMAIN R : R[i] = Strongest(R)
    <3>1. PICK i \in DOMAIN R : R[i] = Strongest(R)
      BY <2>2
    <3>2. Rank(R[i]) <= Rank(O[i]) /\ Rank(O[i]) <= Rank(Strongest(O))
      BY <1>5, <1>6, <1>7
    <3>3. R[i] \in Actions /\ O[i] \in Actions
      <4>1. \A s \in Seq(Actions) : \A j \in DOMAIN s : s[j] \in Actions
        OBVIOUS
      <4> QED
        BY <1>6, <4>1
    <3>4. Rank(R[i]) \in 0 .. 2 /\ Rank(O[i]) \in 0 .. 2 /\ Rank(Strongest(O)) \in 0 .. 2
      BY <1>7, <3>3, RankOrders
    <3> QED
      BY <3>1, <3>2, <3>4
  <2> QED
    BY <1>7, <2>1, <2>2
<1>9. Evaluate(c, r) = Strongest(R) /\ Evaluate(c, o) = Strongest(O)
  BY <1>4 DEF Evaluate, R, O, r
<1> QED
  BY <1>8, <1>9 DEF r, o

\* The report before an extension is that of the program without its last call.
Extended ==
  phase = "extended" =>
    \E p, c : WellFormedProgram(p) /\ WellFormed(c) /\ prog = Append(p, c) /\ before = AnalyzeBash(p)

LEMMA ExtendedStep == IInv /\ Extended /\ [Next]_vars => Extended'
<1>1. SUFFICES ASSUME IInv, Extended, [Next]_vars, phase' = "extended"
               PROVE  \E p, c : WellFormedProgram(p) /\ WellFormed(c) /\ prog' = Append(p, c) /\ before' = AnalyzeBash(p)
  BY DEF Extended
<1>2. CASE \E c \in Extensions : Extend(c)
  <2>1. PICK c \in Extensions : Extend(c)
    BY <1>2
  <2>2. prog' = Append(prog, c) /\ before' = AnalyzeBash(prog) /\ WellFormedProgram(prog)
    BY <1>1, <2>1 DEF Extend, IInv
  <2>3. WellFormed(c)
    BY CallsAssumption
  <2> QED
    BY <2>2, <2>3
<1>3. CASE UNCHANGED vars
  BY <1>1, <1>3 DEF Extended, vars
<1>4. CASE Analyze \/ (\E i \in DOMAIN prog, tmp \in StagingNames : Retry(i, tmp)) \/ (phase = "analyzed" /\ UNCHANGED phase)
  BY <1>1, <1>4 DEF Analyze, Retry
<1> QED
  BY <1>1, <1>2, <1>3, <1>4 DEF Next, Over

\* One more call never makes the decision milder, under any policy a caller may
\* build, whatever the program and the call: unless a path it reads or writes is
\* not known (Evaluate, ScoreEffects).
THEOREM DecisionsNeverSoften == Spec => []DecisionNeverSoftens
<1>1. Init => Extended
  BY DEF Init, AnalyzeInit, Extended
<1>2. IInv /\ Extended => DecisionNeverSoftens
  <2>1. SUFFICES ASSUME IInv, Extended, phase = "extended", \A k \in {"FSRead", "FSWrite", "FSMeta"} : Bounded(report, k),
                        Covered(before), NEW c \in Policies
                 PROVE  Rank(Evaluate(c, before)) <= Rank(Evaluate(c, report))
    BY DEF DecisionNeverSoftens
  <2>2. PICK p, call : WellFormedProgram(p) /\ WellFormed(call) /\ prog = Append(p, call) /\ before = AnalyzeBash(p)
    BY <2>1 DEF Extended
  <2>3. report = AnalyzeBash(Append(p, call))
    BY <2>1, <2>2 DEF IInv
  <2>4. BoundedRows(ReportEffects(Append(p, call)))
    <3>1. report.effects = ReportEffects(Append(p, call))
      BY <2>2, <2>3, LongerProgram, ReportGrade
    <3> QED
      BY <2>1, <3>1 DEF BoundedRows, Bounded, Row
  <2> QED
    BY <2>1, <2>2, <2>3, <2>4, DecisionGrows
<1>3. Spec => [](IInv /\ Extended)
  <2>1. IInv /\ Extended /\ [Next]_vars => (IInv /\ Extended)'
    BY InvStep, ExtendedStep
  <2> QED
    BY <1>1, <2>1, InvInit, PTL DEF Spec
<1> QED
  BY <1>2, <1>3, PTL

-----------------------------------------------------------------------------
\* What the program leaves

\* The words a call writes, one of them t; a call that moves t away.
Writes(c) ==
  WrittenBy(c) \cup (IF c.op \in {"cp", "mv"} THEN {c.ops[2]} ELSE {})
               \cup (IF c.op = "curl" /\ "-o" \in c.flags THEN {c.ops[1]} ELSE {})
Wrote(c, t, outer) == \E x \in Writes(c) : Text(x, outer) = t
Away(c, t)         == c.op = "mv" /\ c.ops[1] = t /\ t # Unknown

\* Each file the program wrote was written last by some call, and has not been
\* moved since; the output of the call in progress leads where it says.
LastWritten(w) ==
  /\ \A t \in w.out : w.at \in DOMAIN prog /\ Wrote(prog[w.at], t, w.outer)
  /\ ~w.failed =>
       \A t \in w.new : \E j \in DOMAIN prog :
         j <= w.at /\ Wrote(prog[j], t, w.outer) /\ \A i \in j .. w.at - 1 : ~Away(prog[i], t)

\* v is a state of the same call as w, no more failed.
Continues(w, v) == Shaped(v) /\ SameCall(w, v) /\ v.failed = w.failed

LEMMA ChangesContinue ==
  ASSUME NEW w, Shaped(w), NEW kind, NEW atom, NEW S, NEW secret
  PROVE  /\ Continues(w, Deed(w, kind, atom)) /\ Deed(w, kind, atom).new = w.new
         /\ Continues(w, Removing(w, S)) /\ Removing(w, S).new = w.new \ S
         /\ Continues(w, Truncating(w, S)) /\ Truncating(w, S).new = w.new \cup S
         /\ Continues(w, Appending(w, S, secret)) /\ Appending(w, S, secret).new = w.new \cup S
<1>1. Continues(w, Deed(w, kind, atom)) /\ Deed(w, kind, atom).new = w.new
  BY DEF Continues, SameCall, Shaped, Deed
<1>2. Continues(w, Removing(w, S)) /\ Removing(w, S).new = w.new \ S
  BY DEF Continues, SameCall, Shaped, Removing
<1>3. Continues(w, Truncating(w, S)) /\ Truncating(w, S).new = w.new \cup S
  BY DEF Continues, SameCall, Shaped, Truncating
<1>4. Continues(w, Appending(w, S, secret)) /\ Appending(w, S, secret).new = w.new \cup S
  BY DEF Continues, SameCall, Shaped, Appending
<1> QED
  BY <1>1, <1>2, <1>3, <1>4

LEMMA ReplacingContinues ==
  ASSUME NEW w, Shaped(w), NEW t, NEW secret
  PROVE  Continues(w, Replacing(w, t, secret)) /\ Replacing(w, t, secret).new = w.new \cup {t}
<1> DEFINE v == Truncating(w, {t})
<1>1. Continues(w, v) /\ v.new = w.new \cup {t}
  BY ChangesContinue
<1> HIDE DEF v
<1>2. Continues(v, Appending(v, {t}, secret)) /\ Appending(v, {t}, secret).new = v.new \cup {t}
  BY <1>1, ChangesContinue DEF Continues
<1>3. Continues(w, Appending(v, {t}, secret)) /\ Appending(v, {t}, secret).new = w.new \cup {t}
  BY <1>1, <1>2 DEF Continues, SameCall
<1> QED
  BY <1>3 DEF Replacing, v

\* What a call leaves it found, printed or wrote; what it moves away is gone.
LEMMA RunsLeave ==
  ASSUME NEW c, WellFormed(c), NEW w, Shaped(w), NEW ws, ws = [k \in DOMAIN c.ops |-> Text(c.ops[k], w.outer)],
         CanRun(c, ws, w)
  PROVE  /\ Continues(w, Runs(c, ws, w))
         /\ \A t \in Runs(c, ws, w).new : /\ t \in w.new \/ t \in w.out \/ Wrote(c, t, w.outer)
                                          /\ ~Away(c, t)
<1> DEFINE Leaves(v) == /\ Continues(w, v)
                        /\ \A t \in v.new : (t \in w.new \/ t \in w.out \/ Wrote(c, t, w.outer)) /\ ~Away(c, t)
<1>1. ASSUME NEW v, Continues(w, v), v.new \subseteq w.new \cup w.out, c.op # "mv" PROVE Leaves(v)
  BY <1>1 DEF Away
<1>2. \A v, secret : Shaped(v) => Continues(v, Printing(v, secret)) /\ Printing(v, secret).new = v.new \cup v.out
  BY ChangesContinue DEF Printing
<1>3. ASSUME NEW v, Continues(w, v), v.new = w.new, NEW secret, c.op # "mv" PROVE Leaves(Printing(v, secret))
  <2>1. Continues(v, Printing(v, secret)) /\ Printing(v, secret).new = v.new \cup v.out
    BY <1>2, <1>3 DEF Continues
  <2>2. Continues(w, Printing(v, secret)) /\ Printing(v, secret).new \subseteq w.new \cup w.out
    BY <1>3, <2>1 DEF Continues, SameCall
  <2> HIDE DEF Leaves
  <2> QED
    BY <1>1, <1>3, <2>2
<1>4. \A kind, atom : Continues(w, Deed(w, kind, atom)) /\ Deed(w, kind, atom).new = w.new
  BY ChangesContinue
<1>5. \A k1, k2, atom : /\ Continues(w, Deed(Deed(w, k1, atom), k2, atom))
                        /\ Deed(Deed(w, k1, atom), k2, atom).new = w.new
  <2>1. SUFFICES ASSUME NEW k1, NEW k2, NEW atom
                 PROVE  /\ Continues(w, Deed(Deed(w, k1, atom), k2, atom))
                        /\ Deed(Deed(w, k1, atom), k2, atom).new = w.new
    OBVIOUS
  <2> DEFINE v == Deed(w, k1, atom)
  <2>2. Continues(w, v) /\ v.new = w.new
    BY <1>4
  <2> HIDE DEF v
  <2>3. Continues(v, Deed(v, k2, atom)) /\ Deed(v, k2, atom).new = v.new
    BY <2>2, ChangesContinue DEF Continues
  <2> QED
    BY <2>2, <2>3 DEF Continues, SameCall, v
<1>6. Shaped(w) /\ Continues(w, w)
  BY DEF Continues, SameCall
<1>7. CASE c.op = "echo"
  <2>1. Runs(c, ws, w) = Printing(Deed(w, "Stdio", << "command", "echo" >>), FALSE)
    BY <1>7 DEF Runs
  <2>2. Leaves(Printing(Deed(w, "Stdio", << "command", "echo" >>), FALSE))
    <3> HIDE DEF Leaves
    <3> QED
      BY <1>3, <1>4, <1>7
  <2> QED
    BY <2>1, <2>2
<1>8. CASE c.op = "cat" /\ c.ops = << >>
  <2>1. Runs(c, ws, w) = Printing(w, w.in \cap w.secret # {})
    BY <1>8 DEF Runs
  <2>2. Leaves(Printing(w, w.in \cap w.secret # {}))
    <3> HIDE DEF Leaves
    <3> QED
      BY <1>3, <1>6, <1>8
  <2> QED
    BY <2>1, <2>2
<1>9. CASE c.op = "cat" /\ c.ops # << >>
  <2>1. Runs(c, ws, w) = Printing(Deed(w, "FSRead", << "command", "cat" >>), ToSet(ws) \cap w.secret # {})
    BY <1>9 DEF Runs
  <2>2. Leaves(Printing(Deed(w, "FSRead", << "command", "cat" >>), ToSet(ws) \cap w.secret # {}))
    <3> HIDE DEF Leaves
    <3> QED
      BY <1>3, <1>4, <1>9
  <2> QED
    BY <2>1, <2>2
<1>10. CASE c.op \in {"cp", "mv"}
  <2> DEFINE kind == IF c.op = "cp" THEN "FSRead" ELSE "FSMeta"
             v == Deed(Deed(w, kind, << "command", c.op >>), "FSWrite", << "command", c.op >>)
             u == Replacing(v, ws[2], ws[1] \in w.secret)
  <2>1. Copying(w, c, kind, ws) = u
    BY DEF Copying
  <2>2. Continues(w, v) /\ v.new = w.new
    BY <1>5
  <2>3. /\ 1 \in DOMAIN c.ops /\ 2 \in DOMAIN c.ops
        /\ ws[1] = Text(c.ops[1], w.outer) /\ ws[2] = Text(c.ops[2], w.outer) /\ ws[1] # ws[2]
    <3>1. Len(c.ops) = 2 /\ DOMAIN c.ops = 1 .. Len(c.ops)
      BY <1>10, CallWords
    <3>2. 1 \in DOMAIN c.ops /\ 2 \in DOMAIN c.ops
      BY <3>1
    <3> QED
      BY <1>10, <3>2 DEF CanRun
  <2>4. Wrote(c, ws[2], w.outer)
    <3>1. c.ops[2] \in Writes(c)
      BY <1>10 DEF Writes
    <3> QED
      BY <2>3, <3>1 DEF Wrote
  <2> HIDE DEF v
  <2>5. Continues(v, u) /\ u.new = v.new \cup {ws[2]}
    BY <2>2, ReplacingContinues DEF Continues
  <2> HIDE DEF u
  <2>6. Continues(w, u) /\ u.new = w.new \cup {ws[2]}
    BY <2>2, <2>5 DEF Continues, SameCall
  <2>7. CASE c.op = "cp"
    <3>1. Runs(c, ws, w) = u
      BY <2>1, <2>7 DEF Runs
    <3> QED
      BY <2>4, <2>6, <2>7, <3>1 DEF Away
  <2>8. CASE c.op = "mv"
    <3>1. Runs(c, ws, w) = Removing(u, {ws[1]})
      BY <2>1, <2>8 DEF Runs
    <3>2. Continues(u, Removing(u, {ws[1]})) /\ Removing(u, {ws[1]}).new = u.new \ {ws[1]}
      <4>1. Shaped(u)
        BY <2>6 DEF Continues
      <4> QED
        BY <4>1, ChangesContinue
    <3>3. Continues(w, Removing(u, {ws[1]})) /\ Removing(u, {ws[1]}).new = (w.new \cup {ws[2]}) \ {ws[1]}
      BY <2>6, <3>2 DEF Continues, SameCall
    <3>4. \A t : Away(c, t) => t = ws[1]
      BY <2>3 DEF Away, Text
    <3> QED
      BY <2>4, <3>1, <3>3, <3>4
  <2> QED
    BY <1>10, <2>7, <2>8
<1>11. CASE c.op = "rm"
  <2> DEFINE v == Deed(w, "FSWrite", << "command", "rm" >>)
  <2>1. Runs(c, ws, w) = Removing(v, ToSet(ws))
    BY <1>11 DEF Runs
  <2>2. Continues(w, v) /\ v.new = w.new
    BY <1>4
  <2> HIDE DEF v
  <2>3. Continues(v, Removing(v, ToSet(ws))) /\ Removing(v, ToSet(ws)).new = v.new \ ToSet(ws)
    <3>1. Shaped(v)
      BY <2>2 DEF Continues
    <3> QED
      BY <3>1, ChangesContinue
  <2>4. Continues(w, Removing(v, ToSet(ws))) /\ Removing(v, ToSet(ws)).new \subseteq w.new \cup w.out
    BY <2>2, <2>3 DEF Continues, SameCall
  <2>5. Leaves(Removing(v, ToSet(ws)))
    <3> HIDE DEF Leaves
    <3> QED
      BY <1>1, <1>11, <2>4
  <2> QED
    BY <2>1, <2>5
<1>12. CASE c.op = "curl" /\ "-o" \in c.flags
  <2> DEFINE v == Deed(Deed(w, "NetEgress", << "command", "curl" >>), "FSWrite", << "command", "curl" >>)
             u == Replacing(v, ws[1], FALSE)
  <2>1. Runs(c, ws, w) = u
    BY <1>12 DEF Runs
  <2>2. Continues(w, v) /\ v.new = w.new
    BY <1>5
  <2>3. Wrote(c, ws[1], w.outer)
    <3>1. Len(c.ops) = 2 /\ DOMAIN c.ops = 1 .. Len(c.ops)
      BY <1>12, CallWords DEF WellFormed
    <3>2. ws[1] = Text(c.ops[1], w.outer)
      BY <3>1
    <3>3. c.ops[1] \in Writes(c)
      BY <1>12 DEF Writes
    <3> QED
      BY <3>2, <3>3 DEF Wrote
  <2> HIDE DEF v
  <2>4. Continues(v, u) /\ u.new = v.new \cup {ws[1]}
    <3>1. Shaped(v)
      BY <2>2 DEF Continues
    <3> QED
      BY <3>1, ReplacingContinues
  <2> HIDE DEF u
  <2>5. Continues(w, u) /\ u.new = w.new \cup {ws[1]}
    BY <2>2, <2>4 DEF Continues, SameCall
  <2> QED
    BY <1>12, <2>1, <2>3, <2>5 DEF Away
<1>13. CASE c.op = "curl" /\ "-o" \notin c.flags
  <2>1. Runs(c, ws, w) = Printing(Deed(w, "NetEgress", << "command", "curl" >>), FALSE)
    BY <1>13 DEF Runs
  <2>2. Leaves(Printing(Deed(w, "NetEgress", << "command", "curl" >>), FALSE))
    <3> HIDE DEF Leaves
    <3> QED
      BY <1>3, <1>4, <1>13
  <2> QED
    BY <2>1, <2>2
<1>14. CASE c.op \notin {"cat", "cp", "mv", "rm", "curl", "echo"}
  <2>1. Runs(c, ws, w) = Deed(w, "CodeExec", << "command", c.op >>)
    BY <1>14 DEF Runs
  <2>2. Leaves(Deed(w, "CodeExec", << "command", c.op >>))
    <3>1. Deed(w, "CodeExec", << "command", c.op >>).new \subseteq w.new \cup w.out
      BY <1>4
    <3> HIDE DEF Leaves
    <3> QED
      BY <1>1, <1>4, <1>14, <3>1
  <2> QED
    BY <2>1, <2>2
<1> QED
  BY <1>7, <1>8, <1>9, <1>10, <1>11, <1>12, <1>13, <1>14

\* An opened redirection creates no file but its own.
LEMMA OpeningLeaves ==
  ASSUME NEW c, NEW w, Shaped(w), NEW r \in ToSet(c.redirs)
  PROVE  LET v == Opening(w, r, Text(r.target, w.outer))
         IN /\ Shaped(v) /\ v.at = w.at /\ v.outer = w.outer /\ v.failed = w.failed
            /\ \A t \in v.new : t \in w.new \/ Wrote(c, t, w.outer)
            /\ \A t \in v.out : t \in w.out \/ Wrote(c, t, w.outer)
<1> DEFINE t == Text(r.target, w.outer)
           Fits(v) == /\ Shaped(v) /\ v.at = w.at /\ v.outer = w.outer /\ v.failed = w.failed
                      /\ \A x \in v.new : x \in w.new \/ Wrote(c, x, w.outer)
                      /\ \A x \in v.out : x \in w.out \/ Wrote(c, x, w.outer)
<1>1. ASSUME r.op \in WriteOps PROVE Wrote(c, t, w.outer)
  BY <1>1 DEF Wrote, Writes, WrittenBy
<1> HIDE DEF t
<1>2. \A kind, atom : Continues(w, Deed(w, kind, atom)) /\ Deed(w, kind, atom).new = w.new
  BY ChangesContinue
<1>3. ASSUME NEW v, Continues(w, v), v.new \subseteq w.new \cup {t}, Wrote(c, t, w.outer)
      PROVE  Fits([v EXCEPT !.out = {t}]) /\ Fits(v)
  <2> DEFINE o == [v EXCEPT !.out = {t}]
  <2>1. Shaped(o) /\ o.at = v.at /\ o.outer = v.outer /\ o.failed = v.failed /\ o.new = v.new /\ o.out = {t}
    BY <1>3 DEF Continues, Shaped
  <2> HIDE DEF o
  <2>2. Fits(o)
    BY <1>3, <2>1 DEF Continues, SameCall
  <2>3. Fits(v)
    BY <1>3 DEF Continues, SameCall
  <2> QED
    BY <2>2, <2>3 DEF o
<1>4. ASSUME NEW kind, NEW atom PROVE Fits([Deed(w, kind, atom) EXCEPT !.in = {t}]) /\ Fits(Deed(w, kind, atom))
  <2> DEFINE v == Deed(w, kind, atom)
             o == [v EXCEPT !.in = {t}]
  <2>1. Continues(w, v) /\ v.new = w.new
    BY <1>2
  <2> HIDE DEF v
  <2>2. Shaped(o) /\ o.at = v.at /\ o.outer = v.outer /\ o.failed = v.failed /\ o.new = v.new /\ o.out = v.out
    BY <2>1 DEF Continues, Shaped
  <2> HIDE DEF o
  <2>3. Fits(o) /\ Fits(v)
    BY <2>1, <2>2 DEF Continues, SameCall
  <2> QED
    BY <2>3 DEF o, v
<1>5. ASSUME NEW kind, NEW atom
      PROVE  /\ Continues(w, Truncating(Deed(w, kind, atom), {t}))
             /\ Truncating(Deed(w, kind, atom), {t}).new = w.new \cup {t}
             /\ Continues(w, Appending(Deed(w, kind, atom), {t}, FALSE))
             /\ Appending(Deed(w, kind, atom), {t}, FALSE).new = w.new \cup {t}
  <2> DEFINE v == Deed(w, kind, atom)
  <2>1. Continues(w, v) /\ v.new = w.new
    BY <1>2
  <2> HIDE DEF v
  <2>2. Shaped(v)
    BY <2>1 DEF Continues
  <2>3. /\ Continues(v, Truncating(v, {t})) /\ Truncating(v, {t}).new = v.new \cup {t}
        /\ Continues(v, Appending(v, {t}, FALSE)) /\ Appending(v, {t}, FALSE).new = v.new \cup {t}
    <3>1. Continues(v, Truncating(v, {t})) /\ Truncating(v, {t}).new = v.new \cup {t}
      BY <2>2, ChangesContinue
    <3>2. \A secret : Continues(v, Appending(v, {t}, secret)) /\ Appending(v, {t}, secret).new = v.new \cup {t}
      BY <2>2, ChangesContinue
    <3>3. Continues(v, Appending(v, {t}, FALSE)) /\ Appending(v, {t}, FALSE).new = v.new \cup {t}
      BY <3>2
    <3> QED
      BY <3>1, <3>3
  <2> QED
    BY <2>1, <2>3 DEF Continues, SameCall, v
<1>6. Fits(Opening(w, r, t))
  <2>1. CASE r.op = "<"
    <3>1. Opening(w, r, t) = [Deed(w, "FSRead", << "redirect", "<" >>) EXCEPT !.in = {t}]
      BY <2>1 DEF Opening
    <3> HIDE DEF Fits
    <3> QED
      BY <1>4, <3>1
  <2>2. CASE r.op = ">"
    <3>1. Opening(w, r, t) = [Truncating(Deed(w, "FSWrite", << "redirect", ">" >>), {t}) EXCEPT !.out = {t}]
      BY <2>2 DEF Opening
    <3>2. Wrote(c, t, w.outer)
      BY <1>1, <2>2 DEF WriteOps
    <3> HIDE DEF Fits
    <3> QED
      BY <1>3, <1>5, <3>1, <3>2
  <2>3. CASE r.op = ">>"
    <3>1. Opening(w, r, t) = [Appending(Deed(w, "FSWrite", << "redirect", ">>" >>), {t}, FALSE) EXCEPT !.out = {t}]
      BY <2>3 DEF Opening
    <3>2. Wrote(c, t, w.outer)
      BY <1>1, <2>3 DEF WriteOps
    <3> HIDE DEF Fits
    <3> QED
      BY <1>3, <1>5, <3>1, <3>2
  <2>4. CASE r.op = "2>"
    <3>1. Opening(w, r, t) = Truncating(Deed(w, "FSWrite", << "redirect", "2>" >>), {t})
      BY <2>4 DEF Opening
    <3>2. Wrote(c, t, w.outer)
      BY <1>1, <2>4 DEF WriteOps
    <3> HIDE DEF Fits
    <3> QED
      BY <1>3, <1>5, <3>1, <3>2
  <2>5. CASE r.op \notin {"<", ">", ">>", "2>"}
    <3>1. Opening(w, r, t) = Deed(w, "Stdio", << "redirect", r.op >>)
      BY <2>5 DEF Opening
    <3> HIDE DEF Fits
    <3> QED
      BY <1>4, <3>1
  <2> QED
    BY <2>1, <2>2, <2>3, <2>4, <2>5
<1> QED
  BY <1>6 DEF t

\* No step of the shell forgets when a file was written.
LEMMA RunShellLeaves ==
  ASSUME IInv, LastWritten(run), RunShell
  PROVE  LastWritten(run)'
<1>1. prog' = prog /\ WellFormedProgram(prog)
  BY DEF RunShell, Start, OpenNext, RunCall, FailCall, IInv
<1>2. SUFFICES ASSUME TRUE PROVE LastWritten(run')
  BY <1>1 DEF LastWritten
<1>3. Shaped(run) /\ run.at \in Nat
  BY DEF IInv, Honest
<1>4. CASE Start
  <2>1. PICK outer \in Outers :
          run' = [NotRun EXCEPT !.at = 1, !.outer = outer, !.files = Credentials \cup Present \cup {outer}, !.secret = Credentials]
    BY <1>4 DEF Start
  <2>2. run'.out = {} /\ run'.new = {}
    BY <2>1 DEF NotRun
  <2> QED
    BY <2>2 DEF LastWritten
<1>5. CASE OpenNext
  <2> DEFINE r == ThisCall.redirs[run.opened + 1]
             v == Opening(run, r, Text(r.target, run.outer))
  <2>1. run' = [v EXCEPT !.opened = @ + 1] /\ run.at \in DOMAIN prog
    BY <1>5 DEF OpenNext, InCall
  <2>2. WellFormed(ThisCall) /\ ThisCall = prog[run.at]
    BY <1>1, <2>1 DEF WellFormedProgram, ToSet, ThisCall
  <2>3. r \in ToSet(ThisCall.redirs)
    <3>1. run.opened \in Nat /\ run.opened < Len(ThisCall.redirs)
      BY <1>3, <1>5 DEF OpenNext, MoreToOpen, Honest, IInv
    <3>2. Len(ThisCall.redirs) \in Nat /\ DOMAIN ThisCall.redirs = 1 .. Len(ThisCall.redirs)
      BY <2>2, CallWords
    <3> QED
      BY <3>1, <3>2 DEF ToSet
  <2>4. /\ Shaped(v) /\ v.at = run.at /\ v.outer = run.outer /\ v.failed = run.failed
        /\ \A t \in v.new : t \in run.new \/ Wrote(ThisCall, t, run.outer)
        /\ \A t \in v.out : t \in run.out \/ Wrote(ThisCall, t, run.outer)
    <3> HIDE DEF r
    <3> QED
      BY <1>3, <2>3, OpeningLeaves
  <2> HIDE DEF v, r
  <2>5. /\ run'.at = run.at /\ run'.outer = run.outer /\ run'.failed = run.failed
        /\ run'.new = v.new /\ run'.out = v.out
    BY <2>1, <2>4 DEF Shaped
  <2>6. \A t \in run'.out : run'.at \in DOMAIN prog /\ Wrote(prog[run'.at], t, run'.outer)
    BY <2>1, <2>2, <2>4, <2>5 DEF LastWritten
  <2>7. ASSUME ~run'.failed, NEW t \in run'.new
        PROVE  \E j \in DOMAIN prog :
                 j <= run'.at /\ Wrote(prog[j], t, run'.outer) /\ \A i \in j .. run'.at - 1 : ~Away(prog[i], t)
    <3>1. CASE t \in run.new
      BY <2>5, <2>7, <3>1 DEF LastWritten
    <3>2. CASE Wrote(ThisCall, t, run.outer)
      <4>1. run.at <= run.at /\ run.at .. run.at - 1 = {}
        BY <1>3
      <4> QED
        BY <2>1, <2>2, <2>5, <3>2, <4>1
    <3> QED
      BY <2>4, <2>5, <2>7, <3>1, <3>2
  <2> QED
    BY <2>6, <2>7 DEF LastWritten
<1>6. CASE RunCall
  <2> DEFINE v == Runs(ThisCall, TheseWords, run)
  <2>1. run' = NextCall(v) /\ run.at \in DOMAIN prog /\ CanRun(ThisCall, TheseWords, run)
    BY <1>6 DEF RunCall, InCall
  <2>2. /\ ThisCall = prog[run.at] /\ WellFormed(ThisCall)
        /\ TheseWords = [k \in DOMAIN ThisCall.ops |-> Text(ThisCall.ops[k], run.outer)]
    BY <1>1, <2>1 DEF ThisCall, TheseWords, WellFormedProgram, ToSet
  <2>3. /\ Continues(run, v)
        /\ \A t \in v.new : (t \in run.new \/ t \in run.out \/ Wrote(ThisCall, t, run.outer)) /\ ~Away(ThisCall, t)
    BY <1>3, <2>1, <2>2, RunsLeave
  <2> HIDE DEF v
  <2>4. /\ run'.at = run.at + 1 /\ run'.out = {} /\ run'.new = v.new /\ run'.failed = run.failed /\ run'.outer = run.outer
    BY <2>1, <2>3 DEF Continues, Shaped, SameCall, NextCall
  <2>5. ASSUME ~run'.failed, NEW t \in run'.new
        PROVE  \E j \in DOMAIN prog :
                 j <= run'.at /\ Wrote(prog[j], t, run'.outer) /\ \A i \in j .. run'.at - 1 : ~Away(prog[i], t)
    <3>1. ~Away(prog[run.at], t) /\ (t \in run.new \/ Wrote(prog[run.at], t, run.outer))
      BY <2>2, <2>3, <2>4, <2>5 DEF LastWritten
    <3>2. \E j \in DOMAIN prog :
            j <= run.at /\ Wrote(prog[j], t, run.outer) /\ \A i \in j .. run.at - 1 : ~Away(prog[i], t)
      <4>1. CASE t \in run.new
        BY <2>4, <2>5, <4>1 DEF LastWritten
      <4>2. CASE Wrote(prog[run.at], t, run.outer)
        <5>1. run.at <= run.at /\ run.at .. run.at - 1 = {}
          BY <1>3
        <5> QED
          BY <2>1, <4>2, <5>1
      <4> QED
        BY <3>1, <4>1, <4>2
    <3>3. PICK j \in DOMAIN prog :
            j <= run.at /\ Wrote(prog[j], t, run.outer) /\ \A i \in j .. run.at - 1 : ~Away(prog[i], t)
      BY <3>2
    <3>4. j \in Nat
      BY <1>1 DEF WellFormedProgram
    <3>5. j <= run'.at /\ \A i \in j .. run'.at - 1 : i = run.at \/ i \in j .. run.at - 1
      BY <1>3, <2>4, <3>3, <3>4
    <3> QED
      BY <2>4, <3>1, <3>3, <3>5
  <2> QED
    BY <2>4, <2>5 DEF LastWritten
<1>7. CASE FailCall
  <2> DEFINE v == [run EXCEPT !.failed = TRUE]
  <2>1. run' = NextCall(v)
    BY <1>7 DEF FailCall
  <2>2. Shaped(v) /\ v.failed
    BY <1>3 DEF Shaped
  <2> HIDE DEF v
  <2>3. run'.failed = TRUE /\ run'.out = {}
    BY <2>1, <2>2 DEF Shaped, NextCall
  <2> QED
    BY <2>3 DEF LastWritten
<1> QED
  BY <1>4, <1>5, <1>6, <1>7 DEF RunShell

LEMMA LastWrittenHolds == Spec => []LastWritten(run)
<1>1. ASSUME run = NotRun PROVE LastWritten(run)
  <2>1. run.out = {} /\ run.new = {}
    BY <1>1 DEF NotRun
  <2> QED
    BY <2>1 DEF LastWritten
<1>2. Init => LastWritten(run)
  BY <1>1 DEF Init, RunInit
<1>3. IInv /\ LastWritten(run) /\ [Next]_vars => LastWritten(run)'
  <2>1. SUFFICES ASSUME IInv, LastWritten(run), [Next]_vars PROVE LastWritten(run)'
    OBVIOUS
  <2>2. CASE phase = "analyzed" /\ RunShell /\ UNCHANGED << report, before, phase >>
    BY <2>1, <2>2, RunShellLeaves
  <2>3. ASSUME run' = run, run.at = 0 PROVE LastWritten(run)'
    <3>1. run' = NotRun
      BY <2>1, <2>3 DEF IInv
    <3> QED
      BY <3>1 DEF LastWritten, NotRun
  <2>4. CASE Analyze /\ UNCHANGED run
    <3>1. run.at = 0 /\ run' = run
      BY <2>1, <2>4 DEF Analyze, IInv
    <3> QED
      BY <2>3, <3>1
  <2>5. CASE UNCHANGED vars
    BY <2>1, <2>5 DEF vars, LastWritten
  <2> QED
    BY <2>1, <2>2, <2>3, <2>4, <2>5 DEF Next, Over
<1> QED
  BY <1>2, <1>3, Invariance, PTL DEF Spec

-----------------------------------------------------------------------------
\* The canonical form of what was written

\* A file the canonical form takes for staged was written by a redirection and
\* moved by a later call.
LEMMA StagedWasMoved ==
  ASSUME NEW p, WellFormedProgram(p), NEW t \in DOMAIN StagingDestinations(p)
  PROVE  \E h, i \in DOMAIN p : h < i /\ t \in WrittenBy(p[h]) /\ p[i].op = "mv" /\ p[i].ops[1] = t
<1> DEFINE N == Len(p)
           A == [moves : Moves, written : SUBSET Words]
           Seen(n, x)  == \E h \in 1 .. n : x \in WrittenBy(p[h])
           Moved(n, x) == \E h, i \in 1 .. n : h < i /\ x \in WrittenBy(p[h]) /\ p[i].op = "mv" /\ p[i].ops[1] = x
<1>1. N \in Nat /\ DOMAIN p = 1 .. N /\ \A i \in 1 .. N : WellFormed(p[i])
  BY DEF WellFormedProgram, ToSet
<1>2. PICK acc \in [0 .. N -> A] :
        /\ acc[0] = [moves |-> [x \in {} |-> x], written |-> {}]
        /\ \A i \in 1 .. N : acc[i] = IF Recorded(p, i) THEN Visit(acc[i - 1], p[i]) ELSE acc[i - 1]
        /\ StagedIn(p, {}) = acc[N].moves
  BY StagedFold
<1> HIDE DEF A
<1> DEFINE T == {n \in Nat : n <= N => /\ \A x \in acc[n].written : Seen(n, x)
                                       /\ \A x \in DOMAIN acc[n].moves : Moved(n, x)}
<1>3. 0 \in T
  <2>1. acc[0].written = {} /\ DOMAIN acc[0].moves = {}
    BY <1>2
  <2> QED
    BY <2>1
<1>4. ASSUME NEW n \in Nat, n \in T PROVE n + 1 \in T
  <2>1. SUFFICES ASSUME n + 1 <= N
                 PROVE  /\ \A x \in acc[n + 1].written : Seen(n + 1, x)
                        /\ \A x \in DOMAIN acc[n + 1].moves : Moved(n + 1, x)
    OBVIOUS
  <2>2. /\ n + 1 \in 1 .. N /\ n \in 0 .. N /\ acc[n] \in A
        /\ acc[n + 1] = IF Recorded(p, n + 1) THEN Visit(acc[n], p[n + 1]) ELSE acc[n]
    BY <1>1, <1>2, <2>1
  <2>3. (\A x \in acc[n].written : Seen(n, x)) /\ (\A x \in DOMAIN acc[n].moves : Moved(n, x))
    BY <1>1, <1>4, <2>1
  <2>4. \A x : (Seen(n, x) => Seen(n + 1, x)) /\ (Moved(n, x) => Moved(n + 1, x))
    <3>1. 1 .. n \subseteq 1 .. n + 1
      BY <1>1
    <3> QED
      BY <3>1
  <2>5. \A x : /\ x \in WrittenBy(p[n + 1]) => Seen(n + 1, x)
               /\ Seen(n, x) /\ p[n + 1].op = "mv" /\ p[n + 1].ops[1] = x => Moved(n + 1, x)
    <3>1. n + 1 \in 1 .. n + 1 /\ \A h \in 1 .. n : h < n + 1 /\ h \in 1 .. n + 1
      BY <1>1
    <3> QED
      BY <3>1
  <2>6. CASE Recorded(p, n + 1)
    <3>1. /\ Visit(acc[n], p[n + 1]).written = acc[n].written \cup WrittenBy(p[n + 1])
          /\ \A x \in DOMAIN Visit(acc[n], p[n + 1]).moves :
               x \in DOMAIN acc[n].moves \/ (p[n + 1].op = "mv" /\ p[n + 1].ops[1] = x /\ x \in acc[n].written)
      <4>1. WellFormed(p[n + 1])
        BY <1>1, <2>2
      <4> HIDE DEF T
      <4> QED
        BY <2>2, <4>1, VisitMoves DEF A
    <3> HIDE DEF Seen, Moved, T
    <3> QED
      BY <2>2, <2>3, <2>4, <2>5, <2>6, <3>1
  <2>7. CASE ~Recorded(p, n + 1)
    <3> HIDE DEF Seen, Moved, T
    <3> QED
      BY <2>2, <2>3, <2>4, <2>7
  <2> QED
    BY <2>6, <2>7
<1>5. N \in T
  <2>1. Nat \subseteq T
    <3> HIDE DEF T
    <3> QED
      BY <1>3, <1>4, SetInduction
  <2> QED
    BY <1>1, <2>1
<1>6. t \in DOMAIN acc[N].moves
  BY <1>2 DEF StagingDestinations
<1>7. Moved(N, t)
  BY <1>1, <1>5, <1>6
<1> QED
  BY <1>1, <1>7

\* A call that writes a file has an effect that says so.
LEMMA WritesAreEffects ==
  ASSUME WellFormedProgram(prog), NEW j \in DOMAIN prog, NEW x \in Writes(prog[j])
  PROVE  /\ x \in WrittenBy(prog[j]) \cup ToSet(prog[j].ops)
         /\ \E e \in BoundEffects(prog) :
              e.kind = "FSWrite" /\ (e.target.arbitrary \/ (x # Unknown /\ x \in e.target.elems))
<1> DEFINE c == prog[j]
<1>1. WellFormed(c) /\ "FSWrite" \in EffectKinds
  BY DEF WellFormedProgram, ToSet, EffectKinds
<1>2. ASSUME NEW words, x \in ToSet(words)
      PROVE  ScopeOf(words).arbitrary \/ (x # Unknown /\ x \in ScopeOf(words).elems)
  BY <1>2 DEF ScopeOf, FlatTop, FlatOf
<1>3. \A e \in CallEffects(prog, j) : e \in BoundEffects(prog)
  BY CommandDerived DEF BoundEffects
<1>4. CASE x \in WrittenBy(c)
  <2>1. PICK r \in ToSet(c.redirs) : r.op \in WriteOps /\ r.target = x
    BY <1>4 DEF WrittenBy
  <2>2. RedirEffect(r) = Plain("FSWrite", << x >>) /\ RedirEffect(r) \in BoundEffects(prog)
    <3>1. RedirEffect(r) = Plain("FSWrite", << x >>)
      BY <2>1 DEF RedirEffect, WriteOps
    <3>2. \E y \in Derivations(prog) : y.effect = RedirEffect(r)
      BY RedirDerived
    <3> QED
      BY <3>1, <3>2 DEF BoundEffects
  <2>3. x \in Words
    BY <1>1, <2>1, CallWords
  <2>4. x \in ToSet(<< x >>) /\ ToSet(<< x >>) \subseteq Words
    BY <2>3, PairWords
  <2>5. Plain("FSWrite", << x >>).kind = "FSWrite" /\ Plain("FSWrite", << x >>).target = ScopeOf(<< x >>)
    BY <1>1, <2>4, PlainLabelled
  <2>6. ScopeOf(<< x >>).arbitrary \/ (x # Unknown /\ x \in ScopeOf(<< x >>).elems)
    BY <1>2, <2>4
  <2> QED
    BY <1>4, <2>2, <2>5, <2>6
<1>5. CASE c.op \in {"cp", "mv"} /\ x = c.ops[2]
  <2>1. Plain("FSWrite", Tail(c.ops)) \in BoundEffects(prog)
    <3>1. Plain("FSWrite", Tail(c.ops)) \in CallEffects(prog, j)
      BY <1>5 DEF CallEffects, BindCommand
    <3> QED
      BY <1>3, <3>1
  <2>2. ToSet(Tail(c.ops)) = {x} /\ x \in Words /\ x \in ToSet(c.ops)
    <3>1. Len(c.ops) = 2 /\ ToSet(Tail(c.ops)) = {c.ops[2]} /\ DOMAIN c.ops = 1 .. Len(c.ops)
      BY <1>1, <1>5, CallWords
    <3>2. 2 \in DOMAIN c.ops
      BY <3>1
    <3> QED
      BY <1>1, <1>5, <3>1, <3>2, CallWords
  <2>3. Plain("FSWrite", Tail(c.ops)).kind = "FSWrite" /\ Plain("FSWrite", Tail(c.ops)).target = ScopeOf(Tail(c.ops))
    BY <1>1, <2>2, PlainLabelled
  <2>4. ScopeOf(Tail(c.ops)).arbitrary \/ (x # Unknown /\ x \in ScopeOf(Tail(c.ops)).elems)
    BY <1>2, <2>2
  <2> QED
    BY <2>1, <2>2, <2>3, <2>4
<1>6. CASE c.op = "curl" /\ "-o" \in c.flags /\ x = c.ops[1]
  <2> DEFINE e == Effect("FSWrite", ScopeOf(<< c.ops[1] >>), {}, FlowIngest)
  <2>1. e \in BoundEffects(prog)
    <3>1. e \in CallEffects(prog, j)
      BY <1>6 DEF CallEffects, BindCommand
    <3> QED
      BY <1>3, <3>1
  <2>2. e.kind = "FSWrite" /\ e.target = ScopeOf(<< x >>)
    BY <1>6 DEF Effect
  <2>3. x \in ToSet(<< x >>)
    BY PairWords
  <2>4. ScopeOf(<< x >>).arbitrary \/ (x # Unknown /\ x \in ScopeOf(<< x >>).elems)
    BY <1>2, <2>3
  <2>5. x \in ToSet(c.ops)
    <3>1. 1 \in DOMAIN c.ops
      <4>1. Len(c.ops) = 2 /\ DOMAIN c.ops = 1 .. Len(c.ops)
        BY <1>1, <1>6, CallWords DEF WellFormed
      <4> QED
        BY <4>1
    <3> QED
      BY <1>6, <3>1 DEF ToSet
  <2> HIDE DEF e
  <2> QED
    BY <2>1, <2>2, <2>4, <2>5
<1> QED
  <2>1. \/ x \in WrittenBy(c)
        \/ c.op \in {"cp", "mv"} /\ x = c.ops[2]
        \/ c.op = "curl" /\ "-o" \in c.flags /\ x = c.ops[1]
    BY DEF Writes
  <2> HIDE DEF c
  <2> QED
    BY <1>4, <1>5, <1>6, <2>1 DEF c

\* The canonical form keeps a write it does not take for a staged one.
LEMMA CanonicalKeeps ==
  ASSUME NEW p, WellFormedProgram(p), NEW t, CanShape(t), NEW e \in BoundEffects(p), e.kind = "FSWrite",
         e.target.arbitrary \/ (t \in e.target.elems /\ t \notin DOMAIN StagingDestinations(p))
  PROVE  \E r \in BuildCanonical(ReportEffects(p), p) : r.kind = "FSWrite" /\ (r.target.arbitrary \/ t \in r.target.elems)
<1> DEFINE staged == StagingDestinations(p)
           C == CanonicalRows(ReportEffects(p), staged)
<1>1. \A r \in ReportEffects(p) : Labelled(r)
  BY ReportRows
<1>2. PICK f \in ReportEffects(p) : EffectLeq(e, f)
  BY ReportRows DEF Below
<1>3. f.kind = "FSWrite" /\ (f.target.arbitrary \/ (t \in f.target.elems /\ t \notin DOMAIN staged))
  BY <1>2 DEF EffectLeq, FlatLeq
<1>4. staged \in Moves /\ \A r \in C : Labelled(r)
  <2>1. staged \in Moves
    BY StagedType DEF StagingDestinations
  <2> HIDE DEF staged
  <2> QED
    BY <1>1, <2>1, CanonicalLabelled
<1>5. \E r \in C : r.kind = "FSWrite" /\ (r.target.arbitrary \/ t \in r.target.elems)
  <2>1. CASE f.target.arbitrary
    BY <1>3, <2>1 DEF CanonicalRows
  <2>2. CASE t \in f.target.elems /\ t \notin DOMAIN staged
    <3> DEFINE scope == CanonicalScope(f, staged)
               r == [f EXCEPT !.target = FlatOf(scope)]
    <3>1. t \in scope
      <4>1. CanonicalTarget(t, f.kind, staged) = {x \in {t} : f.kind \in {"NetEgress", "NetIngress"} \/ CanShape(x)}
        BY <2>2 DEF CanonicalTarget
      <4>2. t \in CanonicalTarget(t, f.kind, staged)
        BY <4>1
      <4> QED
        BY <2>2, <4>2 DEF CanonicalScope
    <3>2. r \in C
      BY <2>2, <3>1 DEF CanonicalRows
    <3>3. r.kind = f.kind /\ r.target = FlatOf(scope)
      <4> HIDE DEF scope
      <4> QED
        BY <1>1 DEF Labelled, ValidEffect, Effects
    <3>4. FlatOf(scope).elems = scope
      BY DEF FlatOf
    <3> HIDE DEF r, scope, C
    <3> QED
      BY <1>3, <3>1, <3>2, <3>3, <3>4
  <2> QED
    BY <1>3, <2>1, <2>2
<1> HIDE DEF C
<1>6. PICK r \in C : r.kind = "FSWrite" /\ (r.target.arbitrary \/ t \in r.target.elems)
  BY <1>5
<1>7. PICK n \in NormalizeEffects(C) : EffectLeq(r, n)
  BY <1>4, NormalizedRows DEF Below
<1>8. n.kind = "FSWrite" /\ (n.target.arbitrary \/ t \in n.target.elems)
  BY <1>6, <1>7 DEF EffectLeq, FlatLeq
<1>9. BuildCanonical(ReportEffects(p), p) = NormalizeEffects(C)
  BY DEF BuildCanonical, C
<1> QED
  BY <1>8, <1>9

\* Each file a program leaves that it wrote is a write of its canonical form,
\* whatever the program and however it was staged (canonicalRow,
\* stagingDestinations).
THEOREM CanonicalFormIsDurable == Spec => []CanonicalIsDurable
<1>1. IInv /\ LastWritten(run) => CanonicalIsDurable
  <2>1. SUFFICES ASSUME IInv, LastWritten(run), run.at > Len(prog), ~run.failed,
                        NEW t \in run.new, CanShape(t), ~Rewritten(t)
                 PROVE  \E e \in report.canonical : e.kind = "FSWrite" /\ (e.target.arbitrary \/ t \in e.target.elems)
    BY DEF CanonicalIsDurable
  <2>2. WellFormedProgram(prog) /\ Len(prog) \in Nat /\ DOMAIN prog = 1 .. Len(prog) /\ run.at \in Nat
    BY <2>1 DEF IInv, WellFormedProgram
  <2>3. report.canonical = BuildCanonical(ReportEffects(prog), prog)
    <3>1. phase = "analyzed" /\ report = AnalyzeBash(prog)
      BY <2>1, <2>2 DEF IInv
    <3> QED
      BY <3>1 DEF AnalyzeBash, WithRows, Assemble
  <2>4. PICK j \in DOMAIN prog : /\ Wrote(prog[j], t, run.outer)
                                 /\ \A i \in j .. run.at - 1 : ~Away(prog[i], t)
    BY <2>1 DEF LastWritten
  <2>5. \A i \in DOMAIN prog : j <= i => i \in j .. run.at - 1
    BY <2>1, <2>2
  <2>6. PICK x \in Writes(prog[j]) : Text(x, run.outer) = t
    BY <2>4 DEF Wrote
  <2>7. /\ x \in WrittenBy(prog[j]) \cup ToSet(prog[j].ops)
        /\ \E e \in BoundEffects(prog) :
             e.kind = "FSWrite" /\ (e.target.arbitrary \/ (x # Unknown /\ x \in e.target.elems))
    BY <2>2, WritesAreEffects
  <2>8. PICK e \in BoundEffects(prog) :
          e.kind = "FSWrite" /\ (e.target.arbitrary \/ (x # Unknown /\ x \in e.target.elems))
    BY <2>7
  <2>9. x # Unknown => x = t /\ t \notin DOMAIN StagingDestinations(prog)
    <3>1. SUFFICES ASSUME x # Unknown, t \in DOMAIN StagingDestinations(prog) PROVE FALSE
      BY <2>6 DEF Text
    <3>2. t \in WrittenBy(prog[j]) \cup ToSet(prog[j].ops)
      BY <2>6, <2>7, <3>1 DEF Text
    <3>3. PICK h, i \in DOMAIN prog : h < i /\ t \in WrittenBy(prog[h]) /\ prog[i].op = "mv" /\ prog[i].ops[1] = t
      BY <2>2, <3>1, StagedWasMoved
    <3>4. Away(prog[i], t)
      BY <2>1, <3>3 DEF Away, CanShape
    <3>5. i < j
      BY <2>2, <2>4, <2>5, <3>4
    <3> QED
      BY <2>1, <3>2, <3>3, <3>5 DEF Rewritten
  <2>10. e.target.arbitrary \/ (t \in e.target.elems /\ t \notin DOMAIN StagingDestinations(prog))
    BY <2>8, <2>9
  <2> QED
    BY <2>1, <2>2, <2>3, <2>8, <2>10, CanonicalKeeps
<1> QED
  BY <1>1, Invariance, LastWrittenHolds, PTL

-----------------------------------------------------------------------------
\* Code that is not known is not allowed

\* Whatever the program, and whatever was added to it or staged: when some code
\* it runs is not known, no policy New accepts allows it, whatever the caller
\* configured of the other rules and of the grades (New, Evaluate, HasTop).
THEOREM UnknownCodeIsNotAllowed ==
  Spec => [](HasTop(report) => \A c \in Policies : Evaluate(c, report) # "allow")
<1>1. IInv => (HasTop(report) => \A c \in Policies : Evaluate(c, report) # "allow")
  <2>1. SUFFICES ASSUME IInv, HasTop(report), NEW c \in Policies
                 PROVE  Evaluate(c, report) # "allow"
    OBVIOUS
  <2>2. Configured(c) /\ c.unknown # "allow"
    BY PolicyAssumption DEF Configured
  <2>3. PICK p : WellFormedProgram(p) /\ report = AnalyzeBash(p)
    <3>1. WellFormedProgram(<< >>)
      BY EmptyProgram
    <3>2. CASE phase = "loaded"
      BY <2>1, <3>1, <3>2 DEF IInv
    <3>3. CASE phase # "loaded"
      BY <2>1, <3>3 DEF IInv
    <3> QED
      BY <3>2, <3>3
  <2>4. report.grade \in Severities /\ Covered(report)
    BY <2>1, <2>3, ReportGrade DEF Covered, HasTop
  <2> DEFINE rules == Rules(c, report)
  <2>5. Codes[21] = "unknown"
    BY DEF Codes
  <2>6. Rule("unknown", c, report) = c.unknown
    BY <2>1 DEF Rule, Applies, ActionFor, EffectKinds
  <2>7. rules \in Seq(Actions) /\ DOMAIN rules = 1 .. 21 /\ rules[21] = c.unknown
    <3>1. rules \in Seq(Actions) /\ DOMAIN rules = 1 .. 21
      BY <2>2, <2>4, RulesAre
    <3>2. \A i \in 1 .. 21 : Rules(c, report)[i] = Rule(Codes[i], c, report)
      BY <2>2, <2>4, RulesAre
    <3>3. Rules(c, report)[21] = Rule(Codes[21], c, report)
      BY <3>2
    <3> QED
      BY <2>5, <2>6, <3>1, <3>3
  <2> HIDE DEF rules
  <2>8. Strongest(rules) \in Actions /\ Rank(c.unknown) <= Rank(Strongest(rules))
    BY <2>7, StrongestIsMax
  <2>9. Strongest(rules) # "allow"
    BY <2>2, <2>8 DEF Configured, Actions, Rank
  <2> QED
    BY <2>4, <2>9 DEF Evaluate, rules
<1> QED
  BY <1>1, Invariance, PTL
=============================================================================
