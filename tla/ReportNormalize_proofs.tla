----------------------- MODULE ReportNormalize_proofs -----------------------
(***************************************************************************)
(* Proofs about ReportNormalize, for every pool of targets and labels,     *)
(* every set of batches and every key order: type correctness, one row per *)
(* (kind, mode, flow role), that the merge loses and invents nothing, that *)
(* its result does not depend on the order of the batch and is its own     *)
(* normal form, and that a reason never names an effect it lost.           *)
(***************************************************************************)
EXTENDS ReportNormalize, TLAPS, FiniteSetTheorems

-----------------------------------------------------------------------------
\* The lattices

\* A flat join stays in the lattice (flatSet.join).
LEMMA FlatJoinType ==
  ASSUME NEW U, NEW s \in FlatSet(U), NEW o \in FlatSet(U)
  PROVE  FlatJoin(s, o) \in FlatSet(U)
BY DEF FlatSet, FlatJoin, FlatTop, FlatOf

\* A flat join is an upper bound of both its arguments.
LEMMA FlatJoinUpper ==
  ASSUME NEW U, NEW s \in FlatSet(U), NEW o \in FlatSet(U)
  PROVE  FlatLeq(s, FlatJoin(s, o)) /\ FlatLeq(o, FlatJoin(s, o))
BY DEF FlatSet, FlatJoin, FlatLeq, FlatTop, FlatOf

\* A flat join is the least of them.
LEMMA FlatJoinLeast ==
  ASSUME NEW U, NEW s \in FlatSet(U), NEW o \in FlatSet(U), NEW b \in FlatSet(U),
         FlatLeq(s, b), FlatLeq(o, b)
  PROVE  FlatLeq(FlatJoin(s, o), b)
BY DEF FlatSet, FlatJoin, FlatLeq, FlatTop, FlatOf

\* The order of flat sets is transitive.
LEMMA FlatLeqTransitive ==
  ASSUME NEW U, NEW s \in FlatSet(U), NEW m \in FlatSet(U), NEW o \in FlatSet(U),
         FlatLeq(s, m), FlatLeq(m, o)
  PROVE  FlatLeq(s, o)
BY DEF FlatSet, FlatLeq

\* Effect.Join yields an effect.
LEMMA EffectJoinType ==
  ASSUME NEW e \in Effects, NEW o \in Effects
  PROVE  EffectJoin(e, o) \in Effects
<1>1. FlatJoin(e.target, o.target) \in FlatSet(Targets)
  BY FlatJoinType DEF Effects
<1>2. FlatJoin(e.taint, o.taint) \in FlatSet(Labels)
  BY FlatJoinType DEF Effects
<1>3. ChainJoin(e.certainty, o.certainty) \in Certainties
  BY DEF Effects, ChainJoin, Certainties
<1>4. JoinFlow(e.netFlow, o.netFlow) \in FlowRoles
  BY DEF Effects, JoinFlow
<1>5. (e.reversible /\ o.reversible) \in BOOLEAN
  OBVIOUS
<1> QED
  BY <1>1, <1>2, <1>3, <1>4, <1>5 DEF Effects, EffectJoin

\* Effect.Join of two effects of one row is an upper bound of both.
LEMMA EffectJoinUpper ==
  ASSUME NEW e \in Effects, NEW o \in Effects, SameRow(e, o)
  PROVE  EffectLeq(e, EffectJoin(e, o)) /\ EffectLeq(o, EffectJoin(e, o))
<1> DEFINE j == EffectJoin(e, o)
<1>1. /\ FlatLeq(e.target, FlatJoin(e.target, o.target))
      /\ FlatLeq(o.target, FlatJoin(e.target, o.target))
  BY FlatJoinUpper DEF Effects
<1>2. /\ FlatLeq(e.taint, FlatJoin(e.taint, o.taint))
      /\ FlatLeq(o.taint, FlatJoin(e.taint, o.taint))
  BY FlatJoinUpper DEF Effects
<1>3. /\ e.certainty <= ChainJoin(e.certainty, o.certainty)
      /\ o.certainty <= ChainJoin(e.certainty, o.certainty)
  BY DEF Effects, ChainJoin, Certainties
<1>4. JoinFlow(e.netFlow, o.netFlow) = e.netFlow
  BY DEF SameRow, JoinFlow
<1>5. /\ j.kind = e.kind /\ j.mode = e.mode
      /\ j.target = FlatJoin(e.target, o.target)
      /\ j.taint = FlatJoin(e.taint, o.taint)
      /\ j.certainty = ChainJoin(e.certainty, o.certainty)
      /\ j.reversible = (e.reversible /\ o.reversible)
      /\ j.netFlow = JoinFlow(e.netFlow, o.netFlow)
  BY DEF EffectJoin
<1> HIDE DEF j
<1>6. EffectLeq(e, j)
  BY <1>1, <1>2, <1>3, <1>4, <1>5, ZenonT(30) DEF EffectLeq, SameRow
<1>7. EffectLeq(o, j)
  BY <1>1, <1>2, <1>3, <1>4, <1>5, ZenonT(30) DEF EffectLeq, SameRow
<1> QED
  BY <1>6, <1>7 DEF j

\* The order of effects is reflexive and transitive.
LEMMA EffectLeqReflexive ==
  ASSUME NEW e \in Effects
  PROVE  EffectLeq(e, e)
<1>1. FlatLeq(e.target, e.target) /\ FlatLeq(e.taint, e.taint)
  BY DEF Effects, FlatLeq, FlatSet
<1> QED
  BY <1>1 DEF Effects, EffectLeq, Certainties

LEMMA EffectLeqTransitive ==
  ASSUME NEW e \in Effects, NEW m \in Effects, NEW o \in Effects,
         EffectLeq(e, m), EffectLeq(m, o)
  PROVE  EffectLeq(e, o)
<1>1. FlatLeq(e.target, o.target)
  <2> e.target \in FlatSet(Targets) /\ m.target \in FlatSet(Targets)
        /\ o.target \in FlatSet(Targets)
    BY DEF Effects
  <2> QED  BY FlatLeqTransitive DEF EffectLeq
<1>2. FlatLeq(e.taint, o.taint)
  <2> e.taint \in FlatSet(Labels) /\ m.taint \in FlatSet(Labels)
        /\ o.taint \in FlatSet(Labels)
    BY DEF Effects
  <2> QED  BY FlatLeqTransitive DEF EffectLeq
<1>3. e.certainty <= o.certainty
  BY DEF Effects, EffectLeq, Certainties
<1> QED
  BY <1>1, <1>2, <1>3 DEF EffectLeq

-----------------------------------------------------------------------------
\* Severities and permutations

\* KindDestructiveness is total on the kinds.
LEMMA KindDestructivenessType ==
  ASSUME NEW k \in EffectKinds
  PROVE  KindDestructiveness(k) \in 1 .. 4
BY DEF EffectKinds, KindDestructiveness

\* ComputeDestructiveness has a value: some effect reaches the worst level.
LEMMA DestructivenessBound ==
  ASSUME NEW effs \in Seq(Effects)
  PROVE  LET d == Destructiveness(effs)
         IN  /\ d \in Severities
             /\ d = 0 \/ \E i \in DOMAIN effs : d = KindDestructiveness(effs[i].kind)
             /\ \A i \in DOMAIN effs : KindDestructiveness(effs[i].kind) <= d
<1> DEFINE K(i) == KindDestructiveness(effs[i].kind)
           Worst(d) == /\ d = 0 \/ \E i \in DOMAIN effs : d = K(i)
                       /\ \A i \in DOMAIN effs : K(i) <= d
<1>1. \A i \in DOMAIN effs : K(i) \in 1 .. 4
  <2> SUFFICES ASSUME NEW i \in DOMAIN effs PROVE K(i) \in 1 .. 4
    OBVIOUS
  <2>1. effs[i] \in Effects
    OBVIOUS
  <2>2. effs[i].kind \in EffectKinds
    BY <2>1 DEF Effects
  <2> QED  BY <2>2, KindDestructivenessType
<1> HIDE DEF K
<1>2. \E d \in 0 .. 4 : Worst(d)
  <2>1. CASE \E i \in DOMAIN effs : K(i) = 4
    BY <1>1, <2>1
  <2>2. CASE (\A i \in DOMAIN effs : K(i) <= 3) /\ \E i \in DOMAIN effs : K(i) = 3
    BY <1>1, <2>2
  <2>3. CASE (\A i \in DOMAIN effs : K(i) <= 2) /\ \E i \in DOMAIN effs : K(i) = 2
    BY <1>1, <2>3
  <2>4. CASE (\A i \in DOMAIN effs : K(i) <= 1) /\ \E i \in DOMAIN effs : K(i) = 1
    BY <1>1, <2>4
  <2>5. CASE DOMAIN effs = {}
    BY <2>5
  <2> QED
    BY <1>1, <2>1, <2>2, <2>3, <2>4, <2>5
<1>3. Destructiveness(effs) = CHOOSE d \in 0 .. 4 : Worst(d)
  BY DEF Destructiveness, Severities, K
<1>4. Destructiveness(effs) \in 0 .. 4 /\ Worst(Destructiveness(effs))
  <2> HIDE DEF Worst
  <2> QED  BY <1>2, <1>3
<1> QED
  BY <1>4 DEF Severities, K

\* Permuting a sequence of effects yields one of the same length.
LEMMA PermutedType ==
  ASSUME NEW s \in Seq(Effects), NEW p \in Orders(Len(s))
  PROVE  Permuted(s, p) \in Seq(Effects) /\ Len(Permuted(s, p)) = Len(s)
BY DEF Permuted, Orders

-----------------------------------------------------------------------------
\* Report.Normalize never builds a malformed report.
THEOREM TypeCorrect == Spec => []TypeOK
<1>1. Init => TypeOK
  BY BatchesAssumption DEF Init, TypeOK, Severities, Passes
<1>2. TypeOK /\ [Next]_vars => TypeOK'
  <2> SUFFICES ASSUME TypeOK, [Next]_vars PROVE TypeOK'
    OBVIOUS
  <2> USE DEF TypeOK
  <2>1. CASE JoinRow
    <3>1. PICK j \in RowsFor(input[next]) :
            /\ merged' = [merged EXCEPT ![j] = EffectJoin(@, input[next])]
            /\ group' = Append(group, j)
      BY <2>1 DEF JoinRow
    <3>2. j \in 1 .. Len(merged) /\ input[next] \in Effects /\ merged[j] \in Effects
      BY <2>1 DEF JoinRow, RowsFor
    <3>3. EffectJoin(merged[j], input[next]) \in Effects
      BY <3>2, EffectJoinType
    <3>4. merged' \in Seq(Effects) /\ Len(merged') = Len(merged)
      BY <3>1, <3>2, <3>3
    <3>5. group' \in Seq(1 .. Len(merged')) /\ Len(group') = next' - 1
      <4>1. Append(group, j) \in Seq(1 .. Len(merged))
        BY <3>2
      <4>2. Len(Append(group, j)) = Len(group) + 1
        BY <3>2
      <4> QED  BY <3>1, <3>4, <4>1, <4>2, <2>1 DEF JoinRow
    <3> QED
      BY <3>4, <3>5, <2>1 DEF JoinRow
  <2>2. CASE OpenRow
    <3>1. merged' \in Seq(Effects) /\ Len(merged') = Len(merged) + 1
      BY <2>2 DEF OpenRow
    <3>2. group' \in Seq(1 .. Len(merged')) /\ Len(group') = next' - 1
      BY <3>1, <2>2 DEF OpenRow
    <3> QED
      BY <3>1, <3>2, <2>2 DEF OpenRow
  <2>3. CASE Finish
    <3>1. output' \in Seq(Effects)
      BY <2>3, PermutedType DEF Finish
    <3>2. severity' \in Severities
      BY <2>3, DestructivenessBound DEF Finish
    <3> QED
      BY <3>1, <3>2, <2>3 DEF Finish
  <2>4. ASSUME NEW effs \in Seq(Effects), NEW kind \in Passes, Restart(effs, kind)
        PROVE  TypeOK'
    BY <2>4 DEF Restart, Severities
  <2>5. CASE NormalizeAgain
    BY <2>4, <2>5 DEF NormalizeAgain, Passes
  <2>6. CASE NormalizeReordered
    BY <2>4, <2>6, PermutedType DEF NormalizeReordered, Passes
  <2>7. CASE UNCHANGED vars
    BY <2>7 DEF vars
  <2> QED
    BY <2>1, <2>2, <2>3, <2>5, <2>6, <2>7 DEF Next
<1> QED
  BY <1>1, <1>2, PTL DEF Spec

-----------------------------------------------------------------------------
\* The report holds one effect per (kind, mode, flow role).
THEOREM RowsAreUnique == Spec => []OneRowPerKey
<1>1. Init => OneRowPerKey
  BY DEF Init, OneRowPerKey
<1>2. TypeOK /\ OneRowPerKey /\ [Next]_vars => OneRowPerKey'
  <2> SUFFICES ASSUME TypeOK, OneRowPerKey, [Next]_vars PROVE OneRowPerKey'
    OBVIOUS
  <2>1. CASE JoinRow
    <3>1. PICK j \in RowsFor(input[next]) :
            merged' = [merged EXCEPT ![j] = EffectJoin(@, input[next])]
      BY <2>1 DEF JoinRow
    <3>2. /\ EffectJoin(merged[j], input[next]).kind = merged[j].kind
          /\ EffectJoin(merged[j], input[next]).mode = merged[j].mode
          /\ EffectJoin(merged[j], input[next]).netFlow = merged[j].netFlow
      BY <3>1 DEF EffectJoin, JoinFlow, RowsFor, SameRow
    <3>3. \A i \in 1 .. Len(merged) :
            /\ merged'[i].kind = merged[i].kind
            /\ merged'[i].mode = merged[i].mode
            /\ merged'[i].netFlow = merged[i].netFlow
      BY <3>1, <3>2 DEF TypeOK, RowsFor
    <3>4. Len(merged') = Len(merged)
      BY <3>1 DEF TypeOK
    <3> QED
      BY <3>3, <3>4 DEF OneRowPerKey, SameRow
  <2>2. CASE OpenRow
    <3>1. merged' = Append(merged, input[next])
      BY <2>2 DEF OpenRow
    <3>2. \A i \in 1 .. Len(merged) : ~SameRow(merged[i], input[next])
      BY <2>2 DEF OpenRow, RowsFor
    <3> QED
      BY <3>1, <3>2 DEF OneRowPerKey, SameRow, TypeOK
  <2>3. CASE Finish
    BY <2>3 DEF Finish, OneRowPerKey
  <2>4. ASSUME NEW effs, NEW kind, Restart(effs, kind)
        PROVE  OneRowPerKey'
    BY <2>4 DEF Restart, OneRowPerKey
  <2>5. CASE NormalizeAgain
    BY <2>4, <2>5 DEF NormalizeAgain
  <2>6. CASE NormalizeReordered
    BY <2>4, <2>6 DEF NormalizeReordered
  <2>7. CASE UNCHANGED vars
    BY <2>7 DEF vars, OneRowPerKey
  <2> QED
    BY <2>1, <2>2, <2>3, <2>5, <2>6, <2>7 DEF Next
<1> QED
  BY <1>1, <1>2, TypeCorrect, PTL DEF Spec

-----------------------------------------------------------------------------
\* The merge under-reports nothing: every effect is below the row it went into.
THEOREM MergeLosesNothing == Spec => []NothingLost
<1>1. Init => NothingLost
  BY DEF Init, NothingLost
<1>2. TypeOK /\ NothingLost /\ [Next]_vars => NothingLost'
  <2> SUFFICES ASSUME TypeOK, NothingLost, [Next]_vars PROVE NothingLost'
    OBVIOUS
  <2> USE DEF TypeOK
  <2>1. CASE JoinRow
    <3> DEFINE e == input[next]
    <3>1. PICK j \in RowsFor(e) :
            /\ merged' = [merged EXCEPT ![j] = EffectJoin(@, e)]
            /\ group' = Append(group, j)
      BY <2>1 DEF JoinRow
    <3>2. /\ j \in 1 .. Len(merged) /\ e \in Effects /\ merged[j] \in Effects
          /\ SameRow(merged[j], e) /\ next' = next + 1 /\ input' = input
      BY <2>1 DEF JoinRow, RowsFor
    <3>3. /\ EffectJoin(merged[j], e) \in Effects
          /\ EffectLeq(merged[j], EffectJoin(merged[j], e))
          /\ EffectLeq(e, EffectJoin(merged[j], e))
      BY <3>2, EffectJoinType, EffectJoinUpper
    <3>4. merged'[j] = EffectJoin(merged[j], e)
      BY <3>1, <3>2
    <3>5. ASSUME NEW i \in 1 .. next' - 1
          PROVE  EffectLeq(input'[i], merged'[group'[i]])
      <4>1. CASE i = next
        <5> group'[i] = j  BY <4>1, <3>1
        <5> QED  BY <4>1, <3>2, <3>3, <3>4
      <4>2. CASE i < next
        <5>1. i \in 1 .. next - 1 /\ group'[i] = group[i] /\ group[i] \in 1 .. Len(merged)
          BY <4>2, <3>1, <3>5
        <5>2. EffectLeq(input[i], merged[group[i]])
          BY <5>1 DEF NothingLost
        <5>3. CASE group[i] = j
          <6> input[i] \in Effects  BY <5>1
          <6> EffectLeq(input[i], EffectJoin(merged[j], e))
            BY <5>2, <5>3, <3>2, <3>3, EffectLeqTransitive
          <6> QED  BY <5>1, <5>3, <3>2, <3>4
        <5>4. CASE group[i] # j
          <6> merged'[group[i]] = merged[group[i]]  BY <5>1, <5>4, <3>1
          <6> QED  BY <5>1, <5>2, <3>2
        <5> QED  BY <5>3, <5>4
      <4> QED  BY <4>1, <4>2, <3>2
    <3> QED
      BY <3>5 DEF NothingLost
  <2>2. CASE OpenRow
    <3>1. /\ merged' = Append(merged, input[next])
          /\ group' = Append(group, Len(merged) + 1)
          /\ next' = next + 1 /\ input' = input
          /\ input[next] \in Effects
      BY <2>2 DEF OpenRow
    <3>2. ASSUME NEW i \in 1 .. next' - 1
          PROVE  EffectLeq(input'[i], merged'[group'[i]])
      <4>1. CASE i = next
        <5> merged'[group'[i]] = input[next]  BY <4>1, <3>1
        <5> QED  BY <4>1, <3>1, EffectLeqReflexive
      <4>2. CASE i < next
        <5> i \in 1 .. next - 1 /\ group'[i] = group[i]
              /\ merged'[group[i]] = merged[group[i]]
          BY <4>2, <3>1, <3>2
        <5> QED  BY <3>1 DEF NothingLost
      <4> QED  BY <4>1, <4>2, <3>1
    <3> QED
      BY <3>2 DEF NothingLost
  <2>3. CASE Finish
    BY <2>3 DEF Finish, NothingLost
  <2>4. ASSUME NEW effs, NEW kind, Restart(effs, kind)
        PROVE  NothingLost'
    BY <2>4 DEF Restart, NothingLost
  <2>5. CASE NormalizeAgain
    BY <2>4, <2>5 DEF NormalizeAgain
  <2>6. CASE NormalizeReordered
    BY <2>4, <2>6 DEF NormalizeReordered
  <2>7. CASE UNCHANGED vars
    BY <2>7 DEF vars, NothingLost
  <2> QED
    BY <2>1, <2>2, <2>3, <2>5, <2>6, <2>7 DEF Next
<1> QED
  BY <1>1, <1>2, TypeCorrect, PTL DEF Spec

-----------------------------------------------------------------------------
\* The merge over-reports nothing: every claim of a row is made by an effect
\* of its group that carries the row's own kind, mode and flow role.
THEOREM MergeInventsNothing == Spec => []NothingInvented
<1>1. Init => NothingInvented
  BY DEF Init, NothingInvented
<1>2. TypeOK /\ NothingInvented /\ [Next]_vars => NothingInvented'
  <2> SUFFICES ASSUME TypeOK, NothingInvented, [Next]_vars PROVE NothingInvented'
    OBVIOUS
  <2>1. CASE JoinRow
    <3>0. PICK k \in Nat, e \in Effects : k = next /\ e = input[next]
      BY <2>1 DEF JoinRow, TypeOK
    <3>1. PICK j \in RowsFor(e) :
            /\ merged' = [merged EXCEPT ![j] = EffectJoin(@, e)]
            /\ group' = Append(group, j)
      BY <3>0, <2>1 DEF JoinRow
    <3>2. /\ j \in 1 .. Len(merged) /\ merged[j] \in Effects
          /\ SameRow(merged[j], e) /\ next' = k + 1 /\ input' = input
          /\ Len(merged') = Len(merged)
          /\ merged'[j] = EffectJoin(merged[j], e)
      BY <3>0, <3>1, <2>1 DEF JoinRow, RowsFor, TypeOK
    <3>3. \A r \in 1 .. Len(merged) :
            /\ merged'[r].kind = merged[r].kind
            /\ merged'[r].mode = merged[r].mode
            /\ merged'[r].netFlow = merged[r].netFlow
            /\ r # j => merged'[r] = merged[r]
      BY <3>1, <3>2 DEF TypeOK, EffectJoin, JoinFlow, SameRow
    <3>4. group'[k] = j /\ \A i \in 1 .. k - 1 : group'[i] = group[i]
      BY <3>0, <3>1, <3>2 DEF TypeOK
    <3>5. \A r \in 1 .. Len(merged) : Contributors(r) \subseteq Contributors(r)'
      <4> SUFFICES ASSUME NEW r \in 1 .. Len(merged), NEW i \in Contributors(r)
                   PROVE  i \in Contributors(r)'
        OBVIOUS
      <4>1. i \in 1 .. k - 1 /\ group[i] = r /\ SameRow(input[i], merged[r])
        BY <3>0 DEF Contributors
      <4>2. i \in 1 .. next' - 1 /\ group'[i] = r /\ input'[i] = input[i]
        BY <4>1, <3>0, <3>2, <3>4
      <4> QED
        BY <4>1, <4>2, <3>3 DEF Contributors, SameRow
    <3>6. k \in Contributors(j)' /\ input'[k] = e
      <4>1. k \in 1 .. next' - 1 /\ input'[k] = e
        BY <3>0, <3>2 DEF TypeOK
      <4>2. SameRow(e, merged'[j])
        BY <3>2, <3>3 DEF SameRow
      <4> QED
        BY <4>1, <4>2, <3>4 DEF Contributors
    <3>7. ASSUME NEW r \in 1 .. Len(merged)
          PROVE  (TargetsGrounded(r) /\ TaintGrounded(r) /\ ClaimsGrounded(r))'
      <4>1. TargetsGrounded(r) /\ TaintGrounded(r) /\ ClaimsGrounded(r)
        BY <3>7 DEF NothingInvented
      <4>2. CASE r # j
        <5> merged'[r] = merged[r]  BY <4>2, <3>3
        <5> QED
          BY <4>1, <3>2, <3>5 DEF TargetsGrounded, TaintGrounded, ClaimsGrounded
      <4>3. CASE r = j
        <5>1. TargetsGrounded(j)'
          <6>1. merged'[j].target = FlatJoin(merged[j].target, e.target)
            BY <3>2 DEF EffectJoin
          <6>2. /\ merged'[j].target.arbitrary <=> merged[j].target.arbitrary \/ e.target.arbitrary
                /\ merged'[j].target.elems \subseteq merged[j].target.elems \cup e.target.elems
            BY <6>1, <3>2 DEF FlatJoin, FlatTop, FlatOf, Effects, FlatSet
          <6> QED  BY <4>1, <4>3, <6>2, <3>2, <3>5, <3>6 DEF TargetsGrounded
        <5>2. TaintGrounded(j)'
          <6>1. merged'[j].taint = FlatJoin(merged[j].taint, e.taint)
            BY <3>2 DEF EffectJoin
          <6>2. /\ merged'[j].taint.arbitrary <=> merged[j].taint.arbitrary \/ e.taint.arbitrary
                /\ merged'[j].taint.elems \subseteq merged[j].taint.elems \cup e.taint.elems
            BY <6>1, <3>2 DEF FlatJoin, FlatTop, FlatOf, Effects, FlatSet
          <6> QED  BY <4>1, <4>3, <6>2, <3>2, <3>5, <3>6 DEF TaintGrounded
        <5>3. ClaimsGrounded(j)'
          <6>1. /\ merged'[j].certainty \in {merged[j].certainty, e.certainty}
                /\ merged'[j].reversible = (merged[j].reversible /\ e.reversible)
            BY <3>2 DEF EffectJoin, ChainJoin
          <6>2. /\ merged[j].reversible \in BOOLEAN /\ e.reversible \in BOOLEAN
            BY <3>2 DEF Effects
          <6> QED  BY <4>1, <4>3, <6>1, <6>2, <3>2, <3>5, <3>6 DEF ClaimsGrounded
        <5> QED  BY <4>3, <5>1, <5>2, <5>3
      <4> QED  BY <4>2, <4>3
    <3> QED
      BY <3>2, <3>7 DEF NothingInvented
  <2>2. CASE OpenRow
    <3>0. PICK k \in Nat, e \in Effects, n \in Nat :
            k = next /\ e = input[next] /\ n = Len(merged) + 1
      <4>1. next \in Nat /\ input[next] \in Effects /\ Len(merged) + 1 \in Nat
        BY <2>2 DEF OpenRow, TypeOK
      <4> QED  BY <4>1, Zenon
    <3>1. /\ merged' = Append(merged, e) /\ group' = Append(group, n)
          /\ next' = k + 1 /\ input' = input /\ k \in 1 .. next' - 1
      BY <3>0, <2>2 DEF OpenRow, TypeOK
    <3>2. /\ Len(merged') = n /\ merged'[n] = e
          /\ \A r \in 1 .. Len(merged) : merged'[r] = merged[r]
          /\ group'[k] = n /\ \A i \in 1 .. k - 1 : group'[i] = group[i]
      BY <3>0, <3>1 DEF TypeOK
    <3>3. ASSUME NEW r \in 1 .. Len(merged)
          PROVE  (TargetsGrounded(r) /\ TaintGrounded(r) /\ ClaimsGrounded(r))'
      <4>1. TargetsGrounded(r) /\ TaintGrounded(r) /\ ClaimsGrounded(r)
        BY <3>3 DEF NothingInvented
      <4>2. merged'[r] = merged[r]
        BY <3>2
      <4>3. Contributors(r) \subseteq Contributors(r)'
        <5> SUFFICES ASSUME NEW i \in Contributors(r) PROVE i \in Contributors(r)'
          OBVIOUS
        <5>1. i \in 1 .. k - 1 /\ group[i] = r /\ SameRow(input[i], merged[r])
          BY <3>0 DEF Contributors
        <5>2. group'[i] = r
          BY <5>1, <3>2
        <5>3. next' - 1 = k /\ input' = input
          BY <3>0, <3>1
        <5>4. i \in 1 .. next' - 1
          BY <5>1, <5>3, <3>0
        <5> QED
          BY <5>1, <5>2, <5>3, <5>4, <4>2 DEF Contributors
      <4> QED
        BY <4>1, <4>2, <4>3, <3>1 DEF TargetsGrounded, TaintGrounded, ClaimsGrounded
    <3>4. (TargetsGrounded(n) /\ TaintGrounded(n) /\ ClaimsGrounded(n))'
      <4>1. merged'[n] = e /\ input'[k] = e /\ k \in 1 .. next' - 1
        BY <3>0, <3>1, <3>2
      <4>2. k \in Contributors(n)'
        BY <4>1, <3>2 DEF Contributors, SameRow
      <4> QED
        BY <4>1, <4>2 DEF TargetsGrounded, TaintGrounded, ClaimsGrounded
    <3> QED
      BY <3>0, <3>2, <3>3, <3>4 DEF NothingInvented
  <2>0. ASSUME UNCHANGED <<input, next, merged, group>>
        PROVE  NothingInvented'
    <3> \A j : Contributors(j)' = Contributors(j)
      BY <2>0 DEF Contributors
    <3> QED
      BY <2>0 DEF NothingInvented, TargetsGrounded, TaintGrounded, ClaimsGrounded
  <2>3. CASE Finish
    BY <2>3, <2>0 DEF Finish
  <2>4. ASSUME NEW effs, NEW kind, Restart(effs, kind)
        PROVE  NothingInvented'
    BY <2>4 DEF Restart, NothingInvented
  <2>5. CASE NormalizeAgain
    BY <2>4, <2>5 DEF NormalizeAgain
  <2>6. CASE NormalizeReordered
    BY <2>4, <2>6 DEF NormalizeReordered
  <2>7. CASE UNCHANGED vars
    BY <2>7, <2>0 DEF vars
  <2> QED
    BY <2>1, <2>2, <2>3, <2>5, <2>6, <2>7 DEF Next
<1> QED
  BY <1>1, <1>2, TypeCorrect, PTL DEF Spec
-----------------------------------------------------------------------------
\* Orders of rows.

\* An order of n rows has each of them somewhere.
LEMMA OrderIsOnto ==
  ASSUME NEW n \in Nat, NEW p \in Orders(n), NEW k \in 1 .. n
  PROVE  \E i \in 1 .. n : p[i] = k
<1>1. IsFiniteSet(1 .. n)
  BY FS_Interval
<1>2. p \in Injection(1 .. n, 1 .. n)
  BY DEF Orders, Injection, IsInjective
<1>3. p \in Surjection(1 .. n, 1 .. n)
  BY <1>1, <1>2, FS_Injection
<1> QED
  BY <1>3 DEF Surjection

\* So the rows are the same ones in any order.
LEMMA PermutedRows ==
  ASSUME NEW s \in Seq(Effects), NEW p \in Orders(Len(s))
  PROVE  Rows(Permuted(s, p)) = Rows(s)
<1>1. Len(s) \in Nat /\ Len(Permuted(s, p)) = Len(s)
  BY PermutedType
<1>2. \A i \in 1 .. Len(s) : Permuted(s, p)[i] = s[p[i]] /\ p[i] \in 1 .. Len(s)
  BY DEF Permuted, Orders
<1>3. \A k \in 1 .. Len(s) : \E i \in 1 .. Len(s) : p[i] = k
  BY <1>1, OrderIsOnto
<1> DEFINE t == Permuted(s, p)
<1> HIDE DEF t
<1>4. \A i \in 1 .. Len(s) : t[i] \in Rows(s) /\ s[p[i]] \in Rows(t)
  BY <1>1, <1>2 DEF Rows, t
<1>5. \A k \in 1 .. Len(s) : s[k] \in Rows(t)
  BY <1>3, <1>4
<1> QED
  BY <1>1, <1>4, <1>5 DEF Rows, t

\* An order that never goes back is no change.
LEMMA IncreasingIsIdentity ==
  ASSUME NEW n \in Nat, NEW p \in Orders(n), \A i, j \in 1 .. n : i < j => p[i] < p[j],
         NEW i \in 1 .. n
  PROVE  p[i] = i
<1>1. /\ p \in [1 .. n -> 1 .. n] /\ p[i] \in 1 .. n
      /\ \A j, k \in 1 .. n : p[j] = p[k] => j = k
  BY DEF Orders
<1>2. p[i] <= i
  <2> DEFINE f == [k \in i .. n |-> p[k]]
             T == p[i] .. n
  <2>1. \A k \in i .. n : k \in 1 .. n /\ p[k] \in T
    <3> SUFFICES ASSUME NEW k \in i .. n PROVE k \in 1 .. n /\ p[k] \in T
      OBVIOUS
    <3>1. k \in 1 .. n /\ p[k] \in 1 .. n
      BY <1>1
    <3>2. p[i] <= p[k]
      <4>1. CASE k = i
        BY <4>1, <1>1
      <4>2. CASE k # i
        <5>1. i < k
          BY <4>2
        <5>2. p[i] < p[k]
          BY <5>1, <3>1
        <5> QED
          BY <5>2, <3>1, <1>1
      <4> QED
        BY <4>1, <4>2
    <3> QED
      BY <1>1, <3>1, <3>2
  <2>2. f \in Injection(i .. n, T)
    BY <1>1, <2>1 DEF Injection, IsInjective
  <2>3. IsFiniteSet(T) /\ Cardinality(T) = n - p[i] + 1 /\ Cardinality(i .. n) = n - i + 1
    BY <1>1, FS_Interval
  <2> HIDE DEF f, T
  <2>4. Cardinality(i .. n) <= Cardinality(T)
    BY <2>2, <2>3, FS_Injection
  <2> QED
    BY <1>1, <2>3, <2>4
<1>3. i <= p[i]
  <2> DEFINE f == [k \in 1 .. i |-> p[k]]
             T == 1 .. p[i]
  <2>1. \A k \in 1 .. i : k \in 1 .. n /\ p[k] \in T
    <3> SUFFICES ASSUME NEW k \in 1 .. i PROVE k \in 1 .. n /\ p[k] \in T
      OBVIOUS
    <3>1. k \in 1 .. n /\ p[k] \in 1 .. n
      BY <1>1
    <3>2. p[k] <= p[i]
      <4>1. CASE k = i
        BY <4>1, <1>1
      <4>2. CASE k # i
        <5>1. k < i
          BY <4>2
        <5>2. p[k] < p[i]
          BY <5>1, <3>1
        <5> QED
          BY <5>2, <3>1, <1>1
      <4> QED
        BY <4>1, <4>2
    <3> QED
      BY <1>1, <3>1, <3>2
  <2>2. f \in Injection(1 .. i, T)
    BY <1>1, <2>1 DEF Injection, IsInjective
  <2>3. IsFiniteSet(T) /\ Cardinality(T) = p[i] /\ Cardinality(1 .. i) = i
    BY <1>1, FS_Interval
  <2> HIDE DEF f, T
  <2>4. Cardinality(1 .. i) <= Cardinality(T)
    BY <2>2, <2>3, FS_Injection
  <2> QED
    BY <1>1, <2>3, <2>4
<1> QED
  BY <1>1, <1>2, <1>3

\* The place of a row's key in the order of keys.
Rank(e) == KeyRank[EffectKey(e)]

Sorted(s)   == \A i, j \in 1 .. Len(s) : i < j => Rank(s[i]) <= Rank(s[j])
Distinct(s) == \A i, j \in 1 .. Len(s) : SameRow(s[i], s[j]) => i = j

LEMMA RankType == ASSUME NEW e \in Effects PROVE Rank(e) \in Nat
<1>1. EffectKey(e) \in Keys
  BY DEF EffectKey, Keys, Effects
<1> QED
  BY <1>1, KeyRankAssumption DEF Rank

\* Sorting sorts, and leaves what is sorted as it is.
LEMMA StableSorts ==
  ASSUME NEW s \in Seq(Effects), NEW p \in Orders(Len(s)), StableByKey(s, p)
  PROVE  /\ Sorted(Permuted(s, p))
         /\ Distinct(s) => Distinct(Permuted(s, p))
         /\ Sorted(s) => Permuted(s, p) = s
<1> DEFINE t == Permuted(s, p)
<1>1. /\ Len(s) \in Nat /\ Len(t) = Len(s) /\ t \in Seq(Effects)
      /\ \A i \in 1 .. Len(s) : /\ t[i] = s[p[i]] /\ p[i] \in 1 .. Len(s)
                               /\ Rank(s[i]) \in Nat /\ Rank(s[p[i]]) \in Nat
  <2>1. \A i \in 1 .. Len(s) : t[i] = s[p[i]] /\ p[i] \in 1 .. Len(s)
    BY DEF Permuted, Orders
  <2>2. \A i \in 1 .. Len(s) : s[i] \in Effects
    OBVIOUS
  <2> QED
    BY <2>1, <2>2, PermutedType, RankType
<1>2. \A i, j \in 1 .. Len(s) :
        i < j => \/ Rank(s[p[i]]) < Rank(s[p[j]])
                 \/ Rank(s[p[i]]) = Rank(s[p[j]]) /\ p[i] < p[j]
  BY DEF StableByKey, Rank
<1> HIDE DEF t
<1>3. Sorted(t)
  <2> SUFFICES ASSUME NEW i \in 1 .. Len(s), NEW j \in 1 .. Len(s), i < j
               PROVE  Rank(t[i]) <= Rank(t[j])
    BY <1>1 DEF Sorted
  <2>1. /\ Rank(t[i]) = Rank(s[p[i]]) /\ Rank(t[j]) = Rank(s[p[j]])
        /\ Rank(s[p[i]]) \in Nat /\ Rank(s[p[j]]) \in Nat
    BY <1>1
  <2>2. Rank(s[p[i]]) < Rank(s[p[j]]) \/ Rank(s[p[i]]) = Rank(s[p[j]])
    BY <1>2
  <2> QED
    BY <2>1, <2>2
<1>4. Distinct(s) => Distinct(t)
  BY <1>1 DEF Distinct, Orders
<1>5. ASSUME Sorted(s) PROVE t = s
  <2>1. ASSUME NEW i \in 1 .. Len(s), NEW j \in 1 .. Len(s), i < j
        PROVE  p[i] < p[j]
    <3>1. p[i] # p[j]
      BY <2>1 DEF Orders
    <3>2. CASE p[j] < p[i]
      <4>1. Rank(s[p[j]]) <= Rank(s[p[i]])
        BY <1>1, <1>5, <3>2 DEF Sorted
      <4>2. \/ Rank(s[p[i]]) < Rank(s[p[j]])
            \/ Rank(s[p[i]]) = Rank(s[p[j]]) /\ p[i] < p[j]
        BY <1>2, <2>1
      <4>3. /\ Rank(s[p[i]]) \in Nat /\ Rank(s[p[j]]) \in Nat
            /\ p[i] \in Nat /\ p[j] \in Nat
        BY <1>1
      <4> QED
        BY <4>1, <4>2, <4>3
    <3> QED
      BY <1>1, <3>1, <3>2
  <2>2. \A i \in 1 .. Len(s) : p[i] = i
    BY <1>1, <2>1, IncreasingIsIdentity
  <2>3. \A i \in 1 .. Len(s) : t[i] = s[i]
    BY <1>1, <2>2
  <2> QED
    BY <1>1, <2>3
<1> QED
  BY <1>3, <1>4, <1>5 DEF t

-----------------------------------------------------------------------------
\* The rows of a set of effects.

\* Each claim of the row r is one of an effect of its kind, mode and role in E.
Grounded(r, E) ==
  /\ \A t \in r.target.elems : \E e \in E : SameRow(e, r) /\ t \in e.target.elems
  /\ r.target.arbitrary => \E e \in E : SameRow(e, r) /\ e.target.arbitrary
  /\ \A l \in r.taint.elems : \E e \in E : SameRow(e, r) /\ l \in e.taint.elems
  /\ r.taint.arbitrary => \E e \in E : SameRow(e, r) /\ e.taint.arbitrary
  /\ \E e \in E : SameRow(e, r) /\ e.certainty = r.certainty
  /\ ~r.reversible => \E e \in E : SameRow(e, r) /\ ~e.reversible

\* R is what the effects E are merged into, in any order.
Folded(R, E) ==
  /\ R \subseteq Effects /\ E \subseteq Effects
  /\ \A e \in E : \E r \in R : EffectLeq(e, r)
  /\ \A r \in R : Grounded(r, E)
  /\ \A r, q \in R : SameRow(r, q) => r = q

LEMMA FlatLeqAntisymmetric ==
  ASSUME NEW U, NEW s \in FlatSet(U), NEW o \in FlatSet(U), FlatLeq(s, o), FlatLeq(o, s)
  PROVE  s = o
<1>1. s = [arbitrary |-> s.arbitrary, elems |-> s.elems]
  BY DEF FlatSet
<1>2. o = [arbitrary |-> o.arbitrary, elems |-> o.elems]
  BY DEF FlatSet
<1>3. s.arbitrary = o.arbitrary
  <2>1. s.arbitrary \in BOOLEAN /\ o.arbitrary \in BOOLEAN
    BY DEF FlatSet
  <2>2. s.arbitrary <=> o.arbitrary
    BY DEF FlatLeq
  <2> QED
    BY <2>1, <2>2
<1>4. s.elems = o.elems
  BY DEF FlatLeq, FlatSet
<1> QED
  BY <1>1, <1>2, <1>3, <1>4

LEMMA EffectLeqAntisymmetric ==
  ASSUME NEW r \in Effects, NEW q \in Effects, EffectLeq(r, q), EffectLeq(q, r)
  PROVE  r = q
<1>1. r.target = q.target
  <2>1. r.target \in FlatSet(Targets) /\ q.target \in FlatSet(Targets)
    BY DEF Effects
  <2> QED
    BY <2>1, FlatLeqAntisymmetric DEF EffectLeq
<1>2. r.taint = q.taint
  <2>1. r.taint \in FlatSet(Labels) /\ q.taint \in FlatSet(Labels)
    BY DEF Effects
  <2> QED
    BY <2>1, FlatLeqAntisymmetric DEF EffectLeq
<1>3. r.certainty = q.certainty
  BY DEF EffectLeq, Effects, Certainties
<1>4. r.reversible = q.reversible
  BY DEF EffectLeq, Effects
<1>5. r.kind = q.kind /\ r.mode = q.mode /\ r.netFlow = q.netFlow
  BY DEF EffectLeq
<1> QED
  BY <1>1, <1>2, <1>3, <1>4, <1>5 DEF Effects

\* Two merges of the same effects say the same.
LEMMA FoldedBelow ==
  ASSUME NEW R, NEW Q, NEW E, Folded(R, E), Folded(Q, E), NEW r \in R, NEW q \in Q, SameRow(r, q)
  PROVE  EffectLeq(r, q)
<1>1. r \in Effects /\ q \in Effects /\ E \subseteq Effects
  BY DEF Folded
<1>2. ASSUME NEW e \in E, SameRow(e, r)
      PROVE  /\ FlatLeq(e.target, q.target) /\ FlatLeq(e.taint, q.taint)
             /\ e.certainty <= q.certainty /\ (q.reversible => e.reversible)
  <2>1. PICK o \in Q : EffectLeq(e, o)
    BY DEF Folded
  <2>2. SameRow(o, q)
    BY <1>2, <2>1 DEF SameRow, EffectLeq
  <2>3. o = q
    BY <2>2 DEF Folded
  <2> QED
    BY <2>1, <2>3 DEF EffectLeq
<1>3. Grounded(r, E)
  BY DEF Folded
<1>4. FlatLeq(r.target, q.target)
  BY <1>2, <1>3 DEF Grounded, FlatLeq
<1>5. FlatLeq(r.taint, q.taint)
  BY <1>2, <1>3 DEF Grounded, FlatLeq
<1>6. r.certainty <= q.certainty
  BY <1>2, <1>3 DEF Grounded
<1>7. q.reversible => r.reversible
  BY <1>2, <1>3 DEF Grounded
<1> QED
  BY <1>4, <1>5, <1>6, <1>7 DEF EffectLeq, SameRow

LEMMA FoldedOnce ==
  ASSUME NEW R, NEW Q, NEW E, Folded(R, E), Folded(Q, E)
  PROVE  R = Q
<1>1. ASSUME NEW A, NEW B, Folded(A, E), Folded(B, E), NEW r \in A
      PROVE  r \in B
  <2>1. PICK e \in E : SameRow(e, r)
    BY <1>1 DEF Folded, Grounded
  <2>2. PICK q \in B : EffectLeq(e, q)
    BY <1>1 DEF Folded
  <2>3. SameRow(r, q) /\ SameRow(q, r)
    BY <2>1, <2>2 DEF SameRow, EffectLeq
  <2>4. EffectLeq(r, q) /\ EffectLeq(q, r)
    BY <1>1, <2>3, FoldedBelow
  <2>5. r \in Effects /\ q \in Effects
    BY <1>1 DEF Folded
  <2> QED
    BY <2>4, <2>5, EffectLeqAntisymmetric
<1> QED
  BY <1>1

\* The merge of all the effects of a pass.
LEMMA MergedIsFolded ==
  ASSUME TypeOK, OneRowPerKey, NothingLost, NothingInvented, next > Len(input)
  PROVE  Folded(Rows(merged), Rows(input))
<1>1. /\ input \in Seq(Effects) /\ merged \in Seq(Effects) /\ next - 1 = Len(input)
      /\ Len(input) \in Nat /\ Len(merged) \in Nat
      /\ \A i \in 1 .. Len(input) : group[i] \in 1 .. Len(merged)
  BY DEF TypeOK
<1>2. Rows(merged) \subseteq Effects /\ Rows(input) \subseteq Effects
  BY <1>1 DEF Rows
<1>3. \A e \in Rows(input) : \E r \in Rows(merged) : EffectLeq(e, r)
  BY <1>1 DEF Rows, NothingLost
<1>4. ASSUME NEW j \in 1 .. Len(merged) PROVE Grounded(merged[j], Rows(input))
  <2>1. \A i \in Contributors(j) : input[i] \in Rows(input) /\ SameRow(input[i], merged[j])
    BY <1>1 DEF Contributors, Rows
  <2>2. TargetsGrounded(j) /\ TaintGrounded(j) /\ ClaimsGrounded(j)
    BY DEF NothingInvented
  <2> QED
    BY <2>1, <2>2 DEF Grounded, TargetsGrounded, TaintGrounded, ClaimsGrounded
<1>5. \A r, q \in Rows(merged) : SameRow(r, q) => r = q
  BY DEF OneRowPerKey, Rows
<1> QED
  BY <1>2, <1>3, <1>4, <1>5 DEF Folded, Rows

-----------------------------------------------------------------------------
\* What a pass started from, and what the first one left.

\* The rows of this pass are those of its effects.
Normal ==
  phase = "done" =>
    /\ next > Len(input)
    /\ Sorted(output) /\ Distinct(output) /\ Folded(Rows(output), Rows(input))
    /\ pass = "first" => first = output

\* The first pass ended with the rows of the batch, in order.
Kept ==
  /\ pass = "first" => input = batch
  /\ pass # "first" => Sorted(first) /\ Distinct(first) /\ Folded(Rows(first), Rows(batch))
  /\ pass = "reordered" => Rows(input) = Rows(batch)

\* A pass over rows opens each of them again.
Reopened ==
  pass = "again" =>
    /\ input = first
    /\ merged = SubSeq(first, 1, next - 1)
    /\ phase = "done" => output = first

Merging == TypeOK /\ OneRowPerKey /\ NothingLost /\ NothingInvented
Stable  == Normal /\ Kept /\ Reopened

LEMMA FinishStable ==
  ASSUME Merging, Stable, Finish
  PROVE  Stable'
<1>1. PICK p \in Orders(Len(merged)) :
        StableByKey(merged, p) /\ output' = Permuted(merged, p)
  BY DEF Finish
<1>2. /\ UNCHANGED <<batch, input, next, merged, pass>> /\ next > Len(input) /\ phase' = "done"
      /\ first' = IF pass = "first" THEN output' ELSE first
      /\ merged \in Seq(Effects)
  BY DEF Finish, Merging, TypeOK
<1>3. Rows(output') = Rows(merged)
  BY <1>1, <1>2, PermutedRows
<1>4. Distinct(merged)
  BY DEF Merging, OneRowPerKey, Distinct
<1>5. /\ Sorted(output') /\ Distinct(output')
      /\ Sorted(merged) => output' = merged
  BY <1>1, <1>2, <1>4, StableSorts
<1>6. Folded(Rows(output'), Rows(input))
  BY <1>2, <1>3, MergedIsFolded DEF Merging
<1>7. Normal'
  BY <1>2, <1>5, <1>6 DEF Normal
<1>8. Kept'
  BY <1>2 DEF Stable, Kept
<1>9. ASSUME pass = "again" PROVE output' = first /\ merged = first
  <2>1. input = first /\ merged = SubSeq(first, 1, next - 1) /\ Sorted(first)
    BY <1>9 DEF Stable, Reopened, Kept
  <2>2. next - 1 = Len(first) /\ first \in Seq(Effects)
    BY <1>2, <2>1 DEF Merging, TypeOK
  <2>3. merged = first
    BY <2>1, <2>2
  <2> QED
    BY <1>5, <2>1, <2>3
<1>10. Reopened'
  <2>1. pass = "again" => input = first /\ merged = SubSeq(first, 1, next - 1)
    BY DEF Stable, Reopened
  <2>2. pass = "again" => first' = first
    BY <1>2
  <2> QED
    BY <1>2, <1>9, <2>1, <2>2 DEF Reopened
<1> QED
  BY <1>7, <1>8, <1>10 DEF Stable

LEMMA RestartStable ==
  ASSUME Merging, Stable, NEW s, NEW k, Restart(s, k),
         \/ k = "again" /\ s = output
         \/ k = "reordered" /\ Rows(s) = Rows(batch)
  PROVE  Stable'
<1>1. /\ phase = "done" /\ pass = "first" /\ phase' = "merge" /\ pass' = k /\ input' = s
      /\ next' = 1 /\ merged' = << >> /\ UNCHANGED <<batch, first>>
  BY DEF Restart
<1>2. Sorted(first) /\ Distinct(first) /\ Folded(Rows(first), Rows(batch)) /\ first = output
  BY <1>1 DEF Stable, Normal, Kept
<1>3. Normal'
  BY <1>1 DEF Normal
<1>4. Kept'
  BY <1>1, <1>2 DEF Kept
<1>5. Reopened'
  <2>1. SubSeq(first, 1, 0) = << >>
    BY <1>2 DEF Merging, TypeOK
  <2> QED
    BY <1>1, <1>2, <2>1 DEF Reopened
<1> QED
  BY <1>3, <1>4, <1>5 DEF Stable

\* Among distinct rows, no row is there for the next one.
LEMMA JoinedFirst ==
  ASSUME Merging, Stable, pass = "again", next <= Len(input)
  PROVE  RowsFor(input[next]) = {} /\ Append(merged, input[next]) = SubSeq(first, 1, next)
<1>1. /\ input = first /\ merged = SubSeq(first, 1, next - 1) /\ first \in Seq(Effects)
      /\ next \in 1 .. Len(first) /\ Distinct(first)
  BY DEF Merging, TypeOK, Stable, Reopened, Kept
<1>2. Len(merged) = next - 1 /\ \A j \in 1 .. Len(merged) : merged[j] = first[j] /\ j \in 1 .. Len(first) /\ j # next
  BY <1>1
<1>3. RowsFor(input[next]) = {}
  BY <1>1, <1>2 DEF RowsFor, Distinct
<1>4. Append(merged, input[next]) = SubSeq(first, 1, next)
  BY <1>1
<1> QED
  BY <1>3, <1>4

LEMMA MergeStable ==
  ASSUME Merging, Stable, JoinRow \/ OpenRow
  PROVE  Stable'
<1>1. /\ phase = "merge" /\ UNCHANGED <<batch, input, phase, pass, first>> /\ next <= Len(input)
      /\ next' = next + 1
  BY DEF JoinRow, OpenRow
<1>2. Normal' /\ Kept'
  BY <1>1 DEF Normal, Kept, Stable
<1>3. ASSUME pass = "again" PROVE merged' = SubSeq(first, 1, next)
  <2>1. OpenRow
    BY <1>1, <1>3, JoinedFirst DEF JoinRow
  <2> QED
    BY <1>1, <1>3, <2>1, JoinedFirst DEF OpenRow
<1>4. Reopened'
  <2>1. (next + 1) - 1 = next
    BY DEF Merging, TypeOK
  <2> QED
    BY <1>1, <1>3, <2>1 DEF Reopened, Stable
<1> QED
  BY <1>2, <1>4 DEF Stable

\* All of it, in every state.
LEMMA StableForm == Spec => [](Merging /\ Stable)
<1>1. Init => Stable
  <2> SUFFICES ASSUME Init PROVE Stable
    OBVIOUS
  <2> QED
    BY DEF Init, Stable, Normal, Kept, Reopened
<1>2. Merging /\ Stable /\ [Next]_vars => Stable'
  <2> SUFFICES ASSUME Merging, Stable, [Next]_vars PROVE Stable'
    OBVIOUS
  <2>1. CASE JoinRow \/ OpenRow
    BY <2>1, MergeStable
  <2>2. CASE Finish
    BY <2>2, FinishStable
  <2>3. CASE NormalizeAgain
    BY <2>3, RestartStable DEF NormalizeAgain
  <2>4. CASE NormalizeReordered
    <3>1. PICK p \in Orders(Len(batch)) : Restart(Permuted(batch, p), "reordered")
      BY <2>4 DEF NormalizeReordered
    <3>2. Rows(Permuted(batch, p)) = Rows(batch)
      BY PermutedRows DEF Merging, TypeOK
    <3> QED
      BY <3>1, <3>2, RestartStable
  <2>5. CASE UNCHANGED vars
    BY <2>5 DEF vars, Stable, Normal, Kept, Reopened
  <2> QED
    BY <2>1, <2>2, <2>3, <2>4, <2>5 DEF Next
<1>3. Spec => []Merging
  BY TypeCorrect, RowsAreUnique, MergeLosesNothing, MergeInventsNothing, PTL DEF Merging
<1> QED
  BY <1>1, <1>2, <1>3, PTL DEF Spec

\* What the composition relies on when it normalises a report again: a second
\* pass over the rows of the first one changes nothing, and the order in which
\* the effects arrive does not matter.
THEOREM NormalFormsAreStable == Spec => []NormalFormIsStable
<1>1. Stable => NormalFormIsStable
  <2> SUFFICES ASSUME Stable, phase = "done", pass = "reordered" PROVE Rows(output) = Rows(first)
    BY DEF NormalFormIsStable, Stable, Reopened
  <2>1. Folded(Rows(output), Rows(batch)) /\ Folded(Rows(first), Rows(batch))
    BY DEF Stable, Normal, Kept
  <2> QED
    BY <2>1, FoldedOnce
<1> QED
  BY <1>1, StableForm, PTL

-----------------------------------------------------------------------------
\* A why-trace whose key is that of one row only ends up with that row's key.
THEOREM TracesFollowTheirEffects == Spec => []TracesFollowEffects
<1>1. Merging /\ Stable => TracesFollowEffects
  <2> SUFFICES ASSUME Merging, Stable, phase = "done", NEW i \in DOMAIN input,
                      \A j \in DOMAIN input :
                        EffectKey(input[j]) = EffectKey(input[i]) => input[j].netFlow = input[i].netFlow
               PROVE  Resolve(EffectKey(input[i])) = EffectKey(merged[group[i]])
    BY DEF TracesFollowEffects
  <2>1. /\ next > Len(input) /\ input \in Seq(Effects) /\ next - 1 = Len(input)
        /\ DOMAIN input = 1 .. Len(input)
        /\ \A j \in DOMAIN input : group[j] \in 1 .. Len(merged)
    BY DEF Stable, Normal, Merging, TypeOK
  <2>2. ASSUME NEW j \in DOMAIN input, EffectKey(input[j]) = EffectKey(input[i])
        PROVE  group[j] = group[i]
    <3>1. SameRow(input[j], input[i])
      BY <2>2 DEF EffectKey, SameRow
    <3>2. EffectLeq(input[j], merged[group[j]]) /\ EffectLeq(input[i], merged[group[i]])
      BY <2>1 DEF Merging, NothingLost
    <3>3. SameRow(merged[group[j]], merged[group[i]])
      BY <3>1, <3>2 DEF SameRow, EffectLeq
    <3> QED
      BY <2>1, <3>3 DEF Merging, OneRowPerKey
  <2> DEFINE key == EffectKey(merged[group[i]])
  <2>3. RowKeys(EffectKey(input[i])) = {key}
    BY <2>2 DEF RowKeys
  <2> HIDE DEF key
  <2>4. Cardinality({key}) = 1 /\ (CHOOSE k \in {key} : TRUE) = key
    BY FS_Singleton
  <2> QED
    BY <2>3, <2>4 DEF Resolve, key
<1> QED
  BY <1>1, StableForm, PTL

-----------------------------------------------------------------------------
\* The laws of the joins

\* A join of flat sets does not depend on the order or the grouping of the
\* operands, and joining a set again adds nothing (flatSet.join).
LEMMA FlatJoinLaws ==
  ASSUME NEW U, NEW s \in FlatSet(U), NEW m \in FlatSet(U), NEW o \in FlatSet(U)
  PROVE  /\ FlatJoin(s, o) = FlatJoin(o, s)
         /\ FlatJoin(FlatJoin(s, m), o) = FlatJoin(s, FlatJoin(m, o))
         /\ FlatJoin(s, s) = s
<1>1. FlatJoin(s, o) = FlatJoin(o, s)
  BY DEF FlatJoin, FlatTop, FlatOf
<1>2. FlatJoin(FlatJoin(s, m), o) = FlatJoin(s, FlatJoin(m, o))
  BY DEF FlatJoin, FlatTop, FlatOf
<1>3. FlatJoin(s, s) = s
  BY DEF FlatSet, FlatJoin, FlatTop, FlatOf
<1> QED
  BY <1>1, <1>2, <1>3

\* Effect.Join of the effects of one row does not depend on the order in which
\* they are merged or on how they are grouped, and merging one again changes
\* nothing: for every pool of targets and labels (Effect.Join).
THEOREM EffectJoinLaws ==
  ASSUME NEW e \in Effects, NEW m \in Effects, NEW o \in Effects, SameRow(e, m), SameRow(m, o)
  PROVE  /\ EffectJoin(e, o) = EffectJoin(o, e)
         /\ EffectJoin(EffectJoin(e, m), o) = EffectJoin(e, EffectJoin(m, o))
         /\ EffectJoin(e, e) = e
<1>1. SameRow(e, o) /\ SameRow(o, e)
  BY DEF SameRow
<1>2. \A a, b \in Effects : SameRow(a, b) => EffectJoin(a, b) = EffectJoin(b, a)
  <2>1. SUFFICES ASSUME NEW a \in Effects, NEW b \in Effects, SameRow(a, b)
                 PROVE  EffectJoin(a, b) = EffectJoin(b, a)
    OBVIOUS
  <2>2. FlatJoin(a.target, b.target) = FlatJoin(b.target, a.target)
    BY FlatJoinLaws DEF Effects
  <2>3. FlatJoin(a.taint, b.taint) = FlatJoin(b.taint, a.taint)
    BY FlatJoinLaws DEF Effects
  <2>4. ChainJoin(a.certainty, b.certainty) = ChainJoin(b.certainty, a.certainty)
    BY DEF ChainJoin, Effects, Certainties
  <2>5. JoinFlow(a.netFlow, b.netFlow) = JoinFlow(b.netFlow, a.netFlow)
    BY <2>1 DEF JoinFlow, SameRow
  <2>6. (a.reversible /\ b.reversible) = (b.reversible /\ a.reversible)
    BY DEF Effects
  <2>7. a.kind = b.kind /\ a.mode = b.mode
    BY <2>1 DEF SameRow
  <2> QED
    BY <2>2, <2>3, <2>4, <2>5, <2>6, <2>7 DEF EffectJoin
<1>3. EffectJoin(EffectJoin(e, m), o) = EffectJoin(e, EffectJoin(m, o))
  <2>1. FlatJoin(FlatJoin(e.target, m.target), o.target) = FlatJoin(e.target, FlatJoin(m.target, o.target))
    BY FlatJoinLaws DEF Effects
  <2>2. FlatJoin(FlatJoin(e.taint, m.taint), o.taint) = FlatJoin(e.taint, FlatJoin(m.taint, o.taint))
    BY FlatJoinLaws DEF Effects
  <2>3. ChainJoin(ChainJoin(e.certainty, m.certainty), o.certainty) = ChainJoin(e.certainty, ChainJoin(m.certainty, o.certainty))
    BY DEF ChainJoin, Effects, Certainties
  <2>4. JoinFlow(JoinFlow(e.netFlow, m.netFlow), o.netFlow) = JoinFlow(e.netFlow, JoinFlow(m.netFlow, o.netFlow))
    BY DEF JoinFlow
  <2>5. ((e.reversible /\ m.reversible) /\ o.reversible) = (e.reversible /\ (m.reversible /\ o.reversible))
    BY DEF Effects
  <2> QED
    BY <2>1, <2>2, <2>3, <2>4, <2>5 DEF EffectJoin
<1>4. EffectJoin(e, e) = e
  <2>1. FlatJoin(e.target, e.target) = e.target /\ FlatJoin(e.taint, e.taint) = e.taint
    BY FlatJoinLaws DEF Effects
  <2>2. ChainJoin(e.certainty, e.certainty) = e.certainty /\ JoinFlow(e.netFlow, e.netFlow) = e.netFlow
    BY DEF ChainJoin, JoinFlow
  <2>3. (e.reversible /\ e.reversible) = e.reversible
    BY DEF Effects
  <2> QED
    BY <2>1, <2>2, <2>3 DEF EffectJoin, Effects
<1> QED
  BY <1>1, <1>2, <1>3, <1>4

\* EffectLeq is the order of Effect.Join: the join of two effects of one row says
\* all that each says, nothing that says both says less, and two effects that
\* say as much as each other are one (Effect.Join).
THEOREM EffectJoinIsLeast ==
  ASSUME NEW e \in Effects, NEW o \in Effects, SameRow(e, o)
  PROVE  /\ EffectLeq(e, EffectJoin(e, o)) /\ EffectLeq(o, EffectJoin(e, o))
         /\ \A b \in Effects : EffectLeq(e, b) /\ EffectLeq(o, b) => EffectLeq(EffectJoin(e, o), b)
         /\ EffectLeq(e, o) <=> EffectJoin(e, o) = o
<1>1. \A b \in Effects : EffectLeq(e, b) /\ EffectLeq(o, b) => EffectLeq(EffectJoin(e, o), b)
  <2>1. SUFFICES ASSUME NEW b \in Effects, EffectLeq(e, b), EffectLeq(o, b)
                 PROVE  EffectLeq(EffectJoin(e, o), b)
    OBVIOUS
  <2>2. FlatLeq(FlatJoin(e.target, o.target), b.target)
    <3>1. FlatLeq(e.target, b.target) /\ FlatLeq(o.target, b.target)
      BY <2>1 DEF EffectLeq
    <3> QED
      BY <3>1, FlatJoinLeast DEF Effects
  <2>3. FlatLeq(FlatJoin(e.taint, o.taint), b.taint)
    <3>1. FlatLeq(e.taint, b.taint) /\ FlatLeq(o.taint, b.taint)
      BY <2>1 DEF EffectLeq
    <3> QED
      BY <3>1, FlatJoinLeast DEF Effects
  <2>4. ChainJoin(e.certainty, o.certainty) <= b.certainty
    BY <2>1 DEF ChainJoin, EffectLeq
  <2>5. JoinFlow(e.netFlow, o.netFlow) = b.netFlow /\ e.kind = b.kind /\ e.mode = b.mode
    BY <2>1 DEF JoinFlow, EffectLeq
  <2>6. b.reversible => (e.reversible /\ o.reversible)
    BY <2>1 DEF EffectLeq
  <2>7. /\ EffectJoin(e, o).kind = e.kind /\ EffectJoin(e, o).mode = e.mode
        /\ EffectJoin(e, o).target = FlatJoin(e.target, o.target)
        /\ EffectJoin(e, o).taint = FlatJoin(e.taint, o.taint)
        /\ EffectJoin(e, o).certainty = ChainJoin(e.certainty, o.certainty)
        /\ EffectJoin(e, o).reversible = (e.reversible /\ o.reversible)
        /\ EffectJoin(e, o).netFlow = JoinFlow(e.netFlow, o.netFlow)
    BY DEF EffectJoin
  <2> QED
    BY <2>2, <2>3, <2>4, <2>5, <2>6, <2>7, ZenonT(30) DEF EffectLeq
<1>2. EffectLeq(e, EffectJoin(e, o)) /\ EffectLeq(o, EffectJoin(e, o))
  BY EffectJoinUpper
<1>3. EffectJoin(e, o) \in Effects
  BY EffectJoinType
<1>4. EffectLeq(e, o) => EffectJoin(e, o) = o
  <2>1. SUFFICES ASSUME EffectLeq(e, o) PROVE EffectJoin(e, o) = o
    OBVIOUS
  <2>2. EffectLeq(EffectJoin(e, o), o)
    BY <1>1, <2>1, EffectLeqReflexive
  <2> QED
    BY <1>2, <1>3, <2>2, EffectLeqAntisymmetric
<1>5. EffectJoin(e, o) = o => EffectLeq(e, o)
  BY <1>2
<1> QED
  BY <1>1, <1>2, <1>4, <1>5
=============================================================================
