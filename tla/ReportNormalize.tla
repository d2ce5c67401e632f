--------------------------- MODULE ReportNormalize ---------------------------
(***************************************************************************)
(* Report.Normalize (engine/report.go): the merge that folds the effects   *)
(* of a report into one row per (kind, mode, flow role), recomputes the    *)
(* severity summary and sorts the rows by Effect.Key.                      *)
(*                                                                         *)
(* The analysis normalises one program's effects more than once: the shell *)
(* frontend folds what it accumulated (front/bash/exec.go, result), and    *)
(* the composition folds that result again (internal/analysis/analyze.go,  *)
(* normalizeEffects).  A behaviour here is one pass over a batch, then     *)
(* either a second pass over the rows just produced, or a pass over the    *)
(* same batch in another order.                                            *)
(***************************************************************************)
EXTENDS EffectIR, Sequences, FiniteSets

CONSTANTS
  Batches,   \* the sequences of effects a report may hold before Normalize
  KeyRank    \* the position of an effect key in the string order of Key()

Keys == EffectKinds \X EffectModes \X FlatSet(Targets)

ASSUME BatchesAssumption ==
  \A s \in Batches : s \in Seq(Effects) /\ \A i \in 1 .. Len(s) : ValidEffect(s[i])

\* Distinct keys are distinct strings, and strings are totally ordered.
ASSUME KeyRankAssumption ==
  /\ KeyRank \in [Keys -> Nat]
  /\ \A k, l \in Keys : KeyRank[k] = KeyRank[l] => k = l

VARIABLES
  batch,      \* the effects of the first pass, as the frontend emitted them
  input,      \* orig: the effects this pass merges
  next,       \* the position in input of the effect to merge next
  merged,     \* the rows opened so far, in order of first appearance
  group,      \* group[i]: the row the i-th input effect went into
  output,     \* r.Effects once the pass has ended
  severity,   \* r.Destructiveness
  phase,      \* "merge" or "done"
  pass,       \* "first", "again" or "reordered"
  first       \* the rows of the first pass

vars == <<batch, input, next, merged, group, output, severity, phase, pass, first>>

-----------------------------------------------------------------------------
\* normalizeKey: rows join when kind, mode and flow role agree.
SameRow(e, o) == e.kind = o.kind /\ e.mode = o.mode /\ e.netFlow = o.netFlow

\* Mutant: the index forgets the flow role.
RowsForAnyFlow(e) ==
  {j \in 1 .. Len(merged) : merged[j].kind = e.kind /\ merged[j].mode = e.mode}

\* index[k]: the row that already carries the effect's normalizeKey, if any
RowsFor(e) == {j \in 1 .. Len(merged) : SameRow(merged[j], e)}

\* ComputeDestructiveness: the join of the worst cases of the kinds.
Destructiveness(effs) ==
  CHOOSE d \in Severities :
    /\ d = 0 \/ \E i \in DOMAIN effs : d = KindDestructiveness(effs[i].kind)
    /\ \A i \in DOMAIN effs : KindDestructiveness(effs[i].kind) <= d

Orders(n) ==
  {p \in [1 .. n -> 1 .. n] : \A i, j \in 1 .. n : p[i] = p[j] => i = j}

Permuted(s, p) == [i \in 1 .. Len(s) |-> s[p[i]]]

\* sort.SliceStable by Key: p lists the rows in key order, and rows with one
\* key in the order they had.
StableByKey(s, p) ==
  \A i, j \in 1 .. Len(s) :
    i < j => LET ki == KeyRank[EffectKey(s[p[i]])]
                 kj == KeyRank[EffectKey(s[p[j]])]
             IN  ki < kj \/ (ki = kj /\ p[i] < p[j])

-----------------------------------------------------------------------------
\* whyRemap: the key a why-trace carries is resolved onto the key of the row its
\* effect went into.  A key two effects of different rows share is ambiguous;
\* it, or a key no effect has, names the only row of its kind and mode, if any.

\* exact[k], with every candidate
RowKeys(k) ==
  {EffectKey(merged[group[i]]) : i \in {j \in DOMAIN input : EffectKey(input[j]) = k}}

\* byKindMode, with every candidate
KindModeRows(k) == {j \in DOMAIN merged : merged[j].kind = k[1] /\ merged[j].mode = k[2]}

\* Mutant: the kind/mode table alone, which the first row of a pair enters.
ResolveByKindMode(k) ==
  EffectKey(merged[CHOOSE j \in KindModeRows(k) : \A l \in KindModeRows(k) : j <= l])

Resolve(k) ==
  IF Cardinality(RowKeys(k)) = 1 THEN CHOOSE key \in RowKeys(k) : TRUE
  ELSE IF Cardinality(KindModeRows(k)) = 1
       THEN EffectKey(merged[CHOOSE j \in KindModeRows(k) : TRUE])
       ELSE k

-----------------------------------------------------------------------------
Init ==
  /\ batch \in Batches
  /\ input = batch
  /\ next = 1
  /\ merged = << >>
  /\ group = << >>
  /\ output = << >>
  /\ severity = 0
  /\ phase = "merge"
  /\ pass = "first"
  /\ first = << >>

\* The effect joins the row that carries its key.
JoinRow ==
  /\ phase = "merge"
  /\ next <= Len(input)
  /\ \E j \in RowsFor(input[next]) :
       /\ merged' = [merged EXCEPT ![j] = EffectJoin(@, input[next])]
       /\ group' = Append(group, j)
  /\ next' = next + 1
  /\ UNCHANGED <<batch, input, output, severity, phase, pass, first>>

\* No row carries the effect's key yet: it opens one.
OpenRow ==
  /\ phase = "merge"
  /\ next <= Len(input)
  /\ RowsFor(input[next]) = {}
  /\ merged' = Append(merged, input[next])
  /\ group' = Append(group, Len(merged) + 1)
  /\ next' = next + 1
  /\ UNCHANGED <<batch, input, output, severity, phase, pass, first>>

\* Every effect is merged: the severity is recomputed and the rows sorted.
Finish ==
  /\ phase = "merge"
  /\ next > Len(input)
  /\ \E p \in Orders(Len(merged)) :
       /\ StableByKey(merged, p)
       /\ output' = Permuted(merged, p)
  /\ severity' = Destructiveness(merged)
  /\ phase' = "done"
  /\ first' = IF pass = "first" THEN output' ELSE first
  /\ UNCHANGED <<batch, input, next, merged, group, pass>>

Restart(effs, kind) ==
  /\ phase = "done"
  /\ pass = "first"
  /\ input' = effs
  /\ next' = 1
  /\ merged' = << >>
  /\ group' = << >>
  /\ output' = << >>
  /\ severity' = 0
  /\ phase' = "merge"
  /\ pass' = kind
  /\ UNCHANGED <<batch, first>>

\* The composition normalises the rows the frontend already normalised.
NormalizeAgain == Restart(output, "again")

\* The same effects arrive in another order.
NormalizeReordered ==
  \E p \in Orders(Len(batch)) : Restart(Permuted(batch, p), "reordered")

Next ==
  \/ JoinRow
  \/ OpenRow
  \/ Finish
  \/ NormalizeAgain
  \/ NormalizeReordered

Spec == Init /\ [][Next]_vars

-----------------------------------------------------------------------------
Passes == {"first", "again", "reordered"}

\* Type correctness.
TypeOK ==
  /\ batch \in Seq(Effects)
  /\ input \in Seq(Effects)
  /\ next \in 1 .. Len(input) + 1
  /\ merged \in Seq(Effects)
  /\ group \in Seq(1 .. Len(merged)) /\ Len(group) = next - 1
  /\ output \in Seq(Effects)
  /\ severity \in Severities
  /\ phase \in {"merge", "done"}
  /\ pass \in Passes
  /\ first \in Seq(Effects)

\* No effect is under-reported by the merge: the row an effect went into says
\* at least as much as the effect, about the same kind, mode and flow role.
NothingLost ==
  \A i \in 1 .. next - 1 : EffectLeq(input[i], merged[group[i]])

\* No row claims what no effect of its group said: a target, a label, an
\* "arbitrary", a certainty or an irreversibility is contributed by an effect
\* with the row's own flow role, so a download's role never spreads over the
\* targets of an unrelated write.
Contributors(j) ==
  {i \in 1 .. next - 1 : group[i] = j /\ SameRow(input[i], merged[j])}

TargetsGrounded(j) ==
  /\ \A t \in merged[j].target.elems :
       \E i \in Contributors(j) : t \in input[i].target.elems
  /\ merged[j].target.arbitrary =>
       \E i \in Contributors(j) : input[i].target.arbitrary

TaintGrounded(j) ==
  /\ \A l \in merged[j].taint.elems :
       \E i \in Contributors(j) : l \in input[i].taint.elems
  /\ merged[j].taint.arbitrary =>
       \E i \in Contributors(j) : input[i].taint.arbitrary

ClaimsGrounded(j) ==
  /\ \E i \in Contributors(j) : input[i].certainty = merged[j].certainty
  /\ ~merged[j].reversible =>
       \E i \in Contributors(j) : ~input[i].reversible

NothingInvented ==
  \A j \in 1 .. Len(merged) : TargetsGrounded(j) /\ TaintGrounded(j) /\ ClaimsGrounded(j)

\* The report holds one effect per (kind, mode, flow role).
OneRowPerKey ==
  \A i, j \in 1 .. Len(merged) : SameRow(merged[i], merged[j]) => i = j

Rows(s) == {s[i] : i \in 1 .. Len(s)}

\* The normal form of a report is one: a second pass over it changes nothing,
\* not even the order of two rows with one key, and a pass over the same effects
\* in another order yields the same rows (Report.Sort, EffectJoin).
NormalFormIsStable ==
  phase = "done" =>
    /\ pass = "again" => output = first
    /\ pass = "reordered" => Rows(output) = Rows(first)

\* A why-trace follows its effect through the merge, so a row all of whose
\* effects were explained is no gap.  Two effects that differ in flow role only
\* share one trace, which cannot be attributed.
TracesFollowEffects ==
  phase = "done" =>
    \A i \in DOMAIN input :
      \/ Resolve(EffectKey(input[i])) = EffectKey(merged[group[i]])
      \/ \E j \in DOMAIN input :
           EffectKey(input[j]) = EffectKey(input[i]) /\ input[j].netFlow # input[i].netFlow
=============================================================================
