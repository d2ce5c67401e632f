------------------------ MODULE AnalysisRetry_proofs ------------------------
(***************************************************************************)
(* A program whose output is staged has the canonical key of the program   *)
(* that writes it in place, whatever the program: when the retry is one    *)
(* the canonical form was made for.                                        *)
(***************************************************************************)
EXTENDS AnalysisSoundness_proofs, FiniteSetTheorems

-----------------------------------------------------------------------------
\* Keys

\* No two rows of one kind, mode and flow.
OneEach(S) == \A e, o \in S : SameRow(e, o) => e = o

\* The rows of S and those of T agree on what a key is made of.
Matches(S, T) == \A e \in S : \E o \in T : SameRow(e, o) /\ e.target = o.target

LEMMA FlowsAreFinite == IsFiniteSet(FlowRoles)
<1>1. IsFiniteSet({FlowNone}) /\ IsFiniteSet({FlowCradle}) /\ IsFiniteSet({FlowIngest})
  BY FS_Singleton
<1>2. IsFiniteSet({FlowNone} \cup {FlowCradle})
  BY <1>1, FS_Union
<1>3. IsFiniteSet(({FlowNone} \cup {FlowCradle}) \cup {FlowIngest})
  BY <1>1, <1>2, FS_Union
<1>4. FlowRoles = ({FlowNone} \cup {FlowCradle}) \cup {FlowIngest}
  BY DEF FlowRoles
<1> QED
  BY <1>3, <1>4

\* The rows that have a key, and those that have it in another report.
LEMMA SameOccurrences ==
  ASSUME NEW S, NEW T, OneEach(S), OneEach(T), Matches(S, T), Matches(T, S),
         \A e \in S \cup T : Labelled(e), NEW k
  PROVE  Cardinality({e \in S : EffectKey(e) = k}) = Cardinality({e \in T : EffectKey(e) = k})
<1> DEFINE A == {e \in S : EffectKey(e) = k}
           B == {e \in T : EffectKey(e) = k}
           f == [e \in A |-> CHOOSE o \in T : SameRow(e, o) /\ e.target = o.target]
           g == [e \in A |-> e.netFlow]
<1>1. \A e, o : SameRow(e, o) /\ e.target = o.target => EffectKey(e) = EffectKey(o)
  BY DEF SameRow, EffectKey
<1>2. \A e, o : EffectKey(e) = EffectKey(o) /\ e.netFlow = o.netFlow => SameRow(e, o) /\ e.target = o.target
  BY DEF SameRow, EffectKey
<1>3. ASSUME NEW e \in A PROVE f[e] \in B /\ SameRow(e, f[e]) /\ e.target = f[e].target
  <2>1. \E o \in T : SameRow(e, o) /\ e.target = o.target
    BY DEF Matches
  <2>2. f[e] \in T /\ SameRow(e, f[e]) /\ e.target = f[e].target
    BY <2>1
  <2> QED
    BY <1>1, <2>2
<1>4. \A e, o \in A : f[e] = f[o] => e = o
  <2>1. SUFFICES ASSUME NEW e \in A, NEW o \in A, f[e] = f[o] PROVE e = o
    OBVIOUS
  <2>2. SameRow(e, f[e]) /\ SameRow(o, f[e])
    BY <1>3, <2>1
  <2>3. SameRow(e, o)
    BY <2>2 DEF SameRow
  <2> QED
    BY <2>3 DEF OneEach
<1>5. \A o \in B : \E e \in A : f[e] = o
  <2>1. SUFFICES ASSUME NEW o \in B PROVE \E e \in A : f[e] = o
    OBVIOUS
  <2>2. PICK e \in S : SameRow(o, e) /\ o.target = e.target
    BY DEF Matches
  <2>3. e \in A
    BY <1>1, <2>2
  <2>4. SameRow(o, f[e]) /\ f[e] \in T
    BY <1>3, <2>2, <2>3 DEF SameRow
  <2>5. f[e] = o
    BY <2>4 DEF OneEach
  <2> QED
    BY <2>3, <2>5
<1>6. f \in Bijection(A, B)
  <2>1. f \in [A -> B]
    BY <1>3
  <2> HIDE DEF f, A, B
  <2> QED
    BY <1>4, <1>5, <2>1 DEF Bijection, Injection, Surjection, IsInjective
<1>7. g \in Injection(A, FlowRoles)
  <2>1. \A e \in A : e.netFlow \in FlowRoles
    BY DEF Labelled, ValidEffect, Effects
  <2>2. g \in [A -> FlowRoles]
    BY <2>1
  <2>3. \A e, o \in A : g[e] = g[o] => e = o
    BY <1>2 DEF OneEach
  <2> HIDE DEF g, A
  <2> QED
    BY <2>2, <2>3 DEF Injection, IsInjective
<1>8. IsFiniteSet(A)
  <2> HIDE DEF A, g
  <2> QED
    BY <1>7, FlowsAreFinite, FS_Injection
<1>9. ExistsBijection(A, B)
  BY <1>6 DEF ExistsBijection
<1>10. Cardinality(B) = Cardinality(A)
  <2> HIDE DEF A, B
  <2> QED
    BY <1>8, <1>9, FS_Bijection
<1> QED
  BY <1>10

\* Rows that match have one key.
LEMMA KeyOfRows ==
  ASSUME NEW S, NEW T, OneEach(S), OneEach(T), Matches(S, T), Matches(T, S),
         \A e \in S \cup T : Labelled(e)
  PROVE  CanonicalKey(S) = CanonicalKey(T)
<1>1. \A e, o : SameRow(e, o) /\ e.target = o.target => EffectKey(e) = EffectKey(o)
  BY DEF SameRow, EffectKey
<1>2. {EffectKey(e) : e \in S} = {EffectKey(e) : e \in T}
  BY <1>1 DEF Matches
<1>3. \A k : Cardinality({e \in S : EffectKey(e) = k}) = Cardinality({e \in T : EffectKey(e) = k})
  BY SameOccurrences
<1> QED
  BY <1>2, <1>3 DEF CanonicalKey

\* A flat set is its names, or arbitrary.
LEMMA FlatSetsEqual ==
  \A U : \A s, t \in FlatSet(U) : (s.arbitrary <=> t.arbitrary) /\ (~s.arbitrary => s.elems = t.elems) => s = t
<1>1. SUFFICES ASSUME NEW U, NEW s \in FlatSet(U), NEW t \in FlatSet(U),
                      s.arbitrary <=> t.arbitrary, ~s.arbitrary => s.elems = t.elems
               PROVE  s = t
  OBVIOUS
<1>2. /\ s = [arbitrary |-> s.arbitrary, elems |-> s.elems] /\ s.arbitrary \in {TRUE, FALSE}
      /\ s.arbitrary => s.elems = {}
  BY DEF FlatSet
<1>3. /\ t = [arbitrary |-> t.arbitrary, elems |-> t.elems] /\ t.arbitrary \in {TRUE, FALSE}
      /\ t.arbitrary => t.elems = {}
  BY DEF FlatSet
<1>4. CASE s.arbitrary = TRUE
  <2>1. t.arbitrary = TRUE /\ s.elems = {} /\ t.elems = {}
    BY <1>1, <1>2, <1>3, <1>4
  <2> QED
    BY <1>2, <1>3, <1>4, <2>1
<1>5. CASE s.arbitrary = FALSE
  <2>1. t.arbitrary = FALSE /\ s.elems = t.elems
    BY <1>1, <1>3, <1>5
  <2> QED
    BY <1>2, <1>3, <1>5, <2>1
<1> QED
  BY <1>2, <1>4, <1>5

\* Merging rows of which there is one of each leaves what their key is made of.
LEMMA SinglesMatch ==
  ASSUME NEW S, \A e \in S : Labelled(e), OneEach(S)
  PROVE  /\ Matches(S, NormalizeEffects(S)) /\ Matches(NormalizeEffects(S), S)
         /\ OneEach(NormalizeEffects(S)) /\ \A e \in NormalizeEffects(S) : Labelled(e)
<1>1. /\ \A r \in NormalizeEffects(S) : Labelled(r)
      /\ \A r, t \in NormalizeEffects(S) : SameRow(r, t) => r = t
      /\ \A r \in NormalizeEffects(S) : \E e \in S : r = JoinRow(e, Class(e, S))
      /\ \A e \in S : JoinRow(e, Class(e, S)) \in NormalizeEffects(S)
  BY NormalizedRows
<1>2. ASSUME NEW e \in S
      PROVE  /\ SameRow(e, JoinRow(e, Class(e, S))) /\ SameRow(JoinRow(e, Class(e, S)), e)
             /\ e.target = JoinRow(e, Class(e, S)).target
  <2> DEFINE r == JoinRow(e, Class(e, S))
  <2>1. Class(e, S) = {e}
    BY DEF Class, OneEach, SameRow
  <2>2. /\ Labelled(r) /\ SameRow(e, r)
        /\ r.target.arbitrary <=> \E x \in Class(e, S) : x.target.arbitrary
        /\ ~r.target.arbitrary => r.target.elems = UNION {x.target.elems : x \in Class(e, S)}
    BY JoinRowIsJoin
  <2> HIDE DEF r
  <2>3. r.target.arbitrary <=> e.target.arbitrary
    BY <2>1, <2>2
  <2>4. ~r.target.arbitrary => r.target.elems = e.target.elems
    BY <2>1, <2>2
  <2>5. r.target \in FlatSet(Targets) /\ e.target \in FlatSet(Targets)
    BY <2>2 DEF Labelled, ValidEffect, Effects
  <2>6. r.target = e.target
    <3>1. \A s, t \in FlatSet(Targets) :
            (s.arbitrary <=> t.arbitrary) /\ (~s.arbitrary => s.elems = t.elems) => s = t
      BY FlatSetsEqual
    <3> QED
      BY <2>3, <2>4, <2>5, <3>1
  <2> QED
    BY <2>2, <2>6 DEF r, SameRow
<1> QED
  BY <1>1, <1>2 DEF Matches, OneEach

LEMMA MatchesTransitive ==
  ASSUME NEW S, NEW T, NEW U, Matches(S, T), Matches(T, U)
  PROVE  Matches(S, U)
BY DEF Matches, SameRow

-----------------------------------------------------------------------------
\* What staging adds to the effects of a program

\* T says that x is a target of the kind, mode and flow of e.
Says(T, e, x) == \E o \in T : SameRow(e, o) /\ (o.target.arbitrary \/ x \in o.target.elems)

\* U says what T says, and besides that tmp is moved, and written in the place
\* of d.
Restages(T, U, tmp, d) ==
  /\ \A e \in T : \E u \in U : SameRow(e, u)
  /\ \A u \in U : u.kind = "FSMeta" \/ \E e \in T : SameRow(u, e)
  /\ \A u \in U : u.target.arbitrary => \E e \in T : SameRow(u, e) /\ e.target.arbitrary
  /\ \A e \in T : e.target.arbitrary => \E u \in U : SameRow(e, u) /\ u.target.arbitrary
  /\ \A e \in T : \A x \in e.target.elems : Says(U, e, x)
  /\ \A u \in U : \A x \in u.target.elems :
       Says(T, u, x) \/ (x = tmp /\ (u.kind = "FSMeta" \/ (u.kind = "FSWrite" /\ Says(T, u, d))))

\* What is moved has a name, unless it is not known.
Named(T) == \A e \in T : e.kind = "FSMeta" => e.target.arbitrary \/ e.target.elems # {}

\* No effect has the name.
Fresh(T, tmp) == \A e \in T : tmp \notin e.target.elems

\* What a normalised set says is what its effects say.
LEMMA NormalizedSays ==
  ASSUME NEW T, \A e \in T : Labelled(e)
  PROVE  /\ \A e \in T : \E r \in NormalizeEffects(T) : SameRow(e, r)
         /\ \A r \in NormalizeEffects(T) : \E e \in T : SameRow(r, e)
         /\ \A r \in NormalizeEffects(T) : r.target.arbitrary => \E e \in T : SameRow(r, e) /\ e.target.arbitrary
         /\ \A e \in T : e.target.arbitrary => \E r \in NormalizeEffects(T) : SameRow(e, r) /\ r.target.arbitrary
         /\ \A r \in NormalizeEffects(T) : \A x \in r.target.elems : \E e \in T : SameRow(r, e) /\ x \in e.target.elems
         /\ \A e, x : Says(T, e, x) => Says(NormalizeEffects(T), e, x)
<1> DEFINE N == NormalizeEffects(T)
<1>1. /\ \A r \in N : Labelled(r)
      /\ \A r \in N : \E e \in T : r = JoinRow(e, Class(e, T))
      /\ \A e \in T : JoinRow(e, Class(e, T)) \in N
  BY NormalizedRows
<1>2. \A e, r : SameRow(e, r) => SameRow(r, e)
  BY DEF SameRow
<1>3. \A e, o, r : SameRow(e, o) /\ SameRow(o, r) => SameRow(e, r)
  BY DEF SameRow
<1>4. ASSUME NEW e \in T
      PROVE  \E r \in N :
               /\ r = JoinRow(e, Class(e, T)) /\ SameRow(e, r)
               /\ e.target.arbitrary => r.target.arbitrary
               /\ \A x \in e.target.elems : r.target.arbitrary \/ x \in r.target.elems
               /\ r.target.arbitrary => \E o \in T : SameRow(e, o) /\ o.target.arbitrary
               /\ \A x \in r.target.elems : \E o \in T : SameRow(e, o) /\ x \in o.target.elems
  <2> DEFINE r == JoinRow(e, Class(e, T))
  <2>1. /\ Labelled(r) /\ SameRow(e, r)
        /\ r.target.arbitrary <=> \E x \in Class(e, T) : x.target.arbitrary
        /\ ~r.target.arbitrary => r.target.elems = UNION {x.target.elems : x \in Class(e, T)}
    BY JoinRowIsJoin
  <2>2. r \in N
    BY <1>1
  <2> HIDE DEF r, N
  <2>3. e \in Class(e, T) /\ \A o \in Class(e, T) : o \in T /\ SameRow(e, o)
    BY DEF Class, SameRow
  <2>4. r.target.arbitrary => r.target.elems = {}
    BY <2>1 DEF Labelled, ValidEffect, Effects, FlatSet
  <2>5. \A x \in r.target.elems : \E o \in Class(e, T) : x \in o.target.elems
    BY <2>1, <2>4
  <2> QED
    BY <2>1, <2>2, <2>3, <2>5 DEF r
<1> HIDE DEF N
<1>5. ASSUME NEW r \in N
      PROVE  /\ \E e \in T : SameRow(r, e)
             /\ r.target.arbitrary => \E e \in T : SameRow(r, e) /\ e.target.arbitrary
             /\ \A x \in r.target.elems : \E e \in T : SameRow(r, e) /\ x \in e.target.elems
  <2>1. PICK e \in T : r = JoinRow(e, Class(e, T))
    BY <1>1
  <2>2. /\ SameRow(e, r)
        /\ r.target.arbitrary => \E o \in T : SameRow(e, o) /\ o.target.arbitrary
        /\ \A x \in r.target.elems : \E o \in T : SameRow(e, o) /\ x \in o.target.elems
    BY <1>4, <2>1
  <2> QED
    BY <1>2, <1>3, <2>2
<1>6. ASSUME NEW e, NEW x, Says(T, e, x) PROVE Says(N, e, x)
  <2>1. PICK o \in T : SameRow(e, o) /\ (o.target.arbitrary \/ x \in o.target.elems)
    BY <1>6 DEF Says
  <2>2. PICK r \in N : SameRow(o, r) /\ (r.target.arbitrary \/ x \in r.target.elems)
    BY <1>4, <2>1
  <2> QED
    BY <1>3, <2>1, <2>2 DEF Says
<1>7. /\ \A e \in T : \E r \in N : SameRow(e, r)
      /\ \A e \in T : e.target.arbitrary => \E r \in N : SameRow(e, r) /\ r.target.arbitrary
  BY <1>4
<1> QED
  BY <1>5, <1>6, <1>7 DEF N

\* Normalising keeps what staging added.
LEMMA NormalizeRestages ==
  ASSUME NEW T, NEW U, \A e \in T : Labelled(e), \A e \in U : Labelled(e), NEW tmp, NEW d, Restages(T, U, tmp, d)
  PROVE  Restages(NormalizeEffects(T), NormalizeEffects(U), tmp, d)
<1> DEFINE M == NormalizeEffects(T)
           N == NormalizeEffects(U)
<1>1. \A e, r : SameRow(e, r) => SameRow(r, e) /\ e.kind = r.kind
  BY DEF SameRow
<1>2. \A e, o, r : SameRow(e, o) /\ SameRow(o, r) => SameRow(e, r)
  BY DEF SameRow
<1>3. /\ \A e \in T : \E r \in M : SameRow(e, r)
      /\ \A r \in M : \E e \in T : SameRow(r, e)
      /\ \A r \in M : r.target.arbitrary => \E e \in T : SameRow(r, e) /\ e.target.arbitrary
      /\ \A e \in T : e.target.arbitrary => \E r \in M : SameRow(e, r) /\ r.target.arbitrary
      /\ \A r \in M : \A x \in r.target.elems : \E e \in T : SameRow(r, e) /\ x \in e.target.elems
      /\ \A e, x : Says(T, e, x) => Says(M, e, x)
  BY NormalizedSays
<1>4. /\ \A e \in U : \E r \in N : SameRow(e, r)
      /\ \A r \in N : \E e \in U : SameRow(r, e)
      /\ \A r \in N : r.target.arbitrary => \E e \in U : SameRow(r, e) /\ e.target.arbitrary
      /\ \A e \in U : e.target.arbitrary => \E r \in N : SameRow(e, r) /\ r.target.arbitrary
      /\ \A r \in N : \A x \in r.target.elems : \E e \in U : SameRow(r, e) /\ x \in e.target.elems
      /\ \A e, x : Says(U, e, x) => Says(N, e, x)
  BY NormalizedSays
<1>5. \A S, e, r, x : SameRow(e, r) /\ Says(S, r, x) => Says(S, e, x)
  BY <1>2 DEF Says
<1> HIDE DEF M, N
<1>6. \A e \in M : \E u \in N : SameRow(e, u)
  BY <1>2, <1>3, <1>4 DEF Restages
<1>7. ASSUME NEW u \in N PROVE u.kind = "FSMeta" \/ \E e \in M : SameRow(u, e)
  <2>1. PICK v \in U : SameRow(u, v)
    BY <1>4
  <2>2. v.kind = "FSMeta" \/ \E e \in T : SameRow(v, e)
    BY DEF Restages
  <2> QED
    BY <1>1, <1>2, <1>3, <2>1, <2>2
<1>8. ASSUME NEW u \in N, u.target.arbitrary PROVE \E e \in M : SameRow(u, e) /\ e.target.arbitrary
  <2>1. PICK v \in U : SameRow(u, v) /\ v.target.arbitrary
    BY <1>4, <1>8
  <2>2. PICK e \in T : SameRow(v, e) /\ e.target.arbitrary
    BY <2>1 DEF Restages
  <2>3. PICK r \in M : SameRow(e, r) /\ r.target.arbitrary
    BY <1>3, <2>2
  <2> QED
    BY <1>2, <2>1, <2>2, <2>3
<1>9. ASSUME NEW e \in M, e.target.arbitrary PROVE \E u \in N : SameRow(e, u) /\ u.target.arbitrary
  <2>1. PICK o \in T : SameRow(e, o) /\ o.target.arbitrary
    BY <1>3, <1>9
  <2>2. PICK v \in U : SameRow(o, v) /\ v.target.arbitrary
    BY <2>1 DEF Restages
  <2>3. PICK r \in N : SameRow(v, r) /\ r.target.arbitrary
    BY <1>4, <2>2
  <2> QED
    BY <1>2, <2>1, <2>2, <2>3
<1>10. ASSUME NEW e \in M, NEW x \in e.target.elems PROVE Says(N, e, x)
  <2>1. PICK o \in T : SameRow(e, o) /\ x \in o.target.elems
    BY <1>3
  <2>2. Says(N, o, x)
    BY <1>4, <2>1 DEF Restages
  <2> QED
    BY <1>5, <2>1, <2>2
<1>11. ASSUME NEW u \in N, NEW x \in u.target.elems
       PROVE  Says(M, u, x) \/ (x = tmp /\ (u.kind = "FSMeta" \/ (u.kind = "FSWrite" /\ Says(M, u, d))))
  <2>1. PICK v \in U : SameRow(u, v) /\ x \in v.target.elems
    BY <1>4
  <2>2. Says(T, v, x) \/ (x = tmp /\ (v.kind = "FSMeta" \/ (v.kind = "FSWrite" /\ Says(T, v, d))))
    BY <2>1 DEF Restages
  <2>3. \A y : Says(T, v, y) => Says(M, u, y)
    BY <1>3, <1>5, <2>1
  <2> QED
    BY <1>1, <2>1, <2>2, <2>3
<1> QED
  BY <1>6, <1>7, <1>8, <1>9, <1>10, <1>11 DEF Restages, M, N

LEMMA NormalizeNames ==
  ASSUME NEW T, \A e \in T : Labelled(e), NEW tmp
  PROVE  /\ Named(T) => Named(NormalizeEffects(T))
         /\ Fresh(T, tmp) => Fresh(NormalizeEffects(T), tmp)
<1>1. /\ \A r \in NormalizeEffects(T) : \E e \in T : SameRow(r, e)
      /\ \A r \in NormalizeEffects(T) : \A x \in r.target.elems : \E e \in T : SameRow(r, e) /\ x \in e.target.elems
  BY NormalizedSays
<1>2. Fresh(T, tmp) => Fresh(NormalizeEffects(T), tmp)
  BY <1>1 DEF Fresh
<1>3. ASSUME Named(T), NEW r \in NormalizeEffects(T), r.kind = "FSMeta"
      PROVE  r.target.arbitrary \/ r.target.elems # {}
  <2>1. PICK e \in T : r = JoinRow(e, Class(e, T))
    BY NormalizedRows
  <2>2. /\ SameRow(e, r)
        /\ \A x \in Class(e, T) : EffectLeq(x, r)
    BY <2>1, JoinRowIsJoin
  <2>3. e \in Class(e, T) /\ e.kind = "FSMeta"
    BY <1>3, <2>2 DEF Class, SameRow
  <2>4. FlatLeq(e.target, r.target)
    BY <2>2, <2>3 DEF EffectLeq
  <2>5. e.target.arbitrary \/ e.target.elems # {}
    BY <1>3, <2>3 DEF Named
  <2> QED
    BY <2>4, <2>5 DEF FlatLeq
<1> QED
  BY <1>2, <1>3 DEF Named

\* The rows of T and U that write name the same files, but for tmp.
LEMMA RestagedWrites ==
  ASSUME NEW T, NEW U, \A e \in T : Labelled(e), \A e \in U : Labelled(e), OneEach(T), OneEach(U),
         NEW tmp, NEW d, Restages(T, U, tmp, d)
  PROVE  WrittenTargets(T) \subseteq WrittenTargets(U) /\ WrittenTargets(U) \subseteq WrittenTargets(T) \cup {tmp}
<1>1. \A e, r : SameRow(e, r) => SameRow(r, e) /\ e.kind = r.kind
  BY DEF SameRow
<1>2. \A e, o, r : SameRow(e, o) /\ SameRow(o, r) => SameRow(e, r)
  BY DEF SameRow
<1>3. \A e \in T \cup U : e.target.arbitrary => e.target.elems = {}
  BY DEF Labelled, ValidEffect, Effects, FlatSet
<1>4. ASSUME NEW e \in T, e.kind \in {"FSWrite", "FSMeta"}, NEW x \in e.target.elems
      PROVE  x \in WrittenTargets(U)
  <2>1. PICK u \in U : SameRow(e, u) /\ (u.target.arbitrary \/ x \in u.target.elems)
    BY DEF Restages, Says
  <2>2. ~u.target.arbitrary
    <3>1. SUFFICES ASSUME u.target.arbitrary PROVE FALSE
      OBVIOUS
    <3>2. PICK o \in T : SameRow(u, o) /\ o.target.arbitrary
      BY <3>1 DEF Restages
    <3>3. o = e
      BY <1>2, <2>1, <3>2 DEF OneEach
    <3> QED
      BY <1>3, <3>2, <3>3
  <2> QED
    BY <1>1, <1>4, <2>1, <2>2 DEF WrittenTargets
<1>5. ASSUME NEW u \in U, u.kind \in {"FSWrite", "FSMeta"}, NEW x \in u.target.elems, x # tmp
      PROVE  x \in WrittenTargets(T)
  <2>1. PICK e \in T : SameRow(u, e) /\ (e.target.arbitrary \/ x \in e.target.elems)
    BY <1>5 DEF Restages, Says
  <2>2. ~e.target.arbitrary
    <3>1. SUFFICES ASSUME e.target.arbitrary PROVE FALSE
      OBVIOUS
    <3>2. PICK o \in U : SameRow(e, o) /\ o.target.arbitrary
      BY <3>1 DEF Restages
    <3>3. o = u
      BY <1>2, <2>1, <3>2 DEF OneEach
    <3> QED
      BY <1>3, <3>2, <3>3
  <2> QED
    BY <1>1, <1>5, <2>1, <2>2 DEF WrittenTargets
<1> QED
  BY <1>4, <1>5 DEF WrittenTargets

\* The network effects of writes to a share are the same, a share not being
\* what the output is staged under.
LEMMA SinksRestage ==
  ASSUME NEW T, NEW U, \A e \in T : Labelled(e), \A e \in U : Labelled(e), OneEach(T), OneEach(U),
         NEW tmp, NEW d, Restages(T, U, tmp, d), tmp \notin DOMAIN Shares \cup Ambiguous
  PROVE  Restages(WithSinks(T), WithSinks(U), tmp, d)
<1> DEFINE H == RemoteSinks(WrittenTargets(T))
           V == WithSinks(T)
           W == WithSinks(U)
<1>1. RemoteSinks(WrittenTargets(U)) = H
  <2>1. WrittenTargets(T) \subseteq WrittenTargets(U) /\ WrittenTargets(U) \subseteq WrittenTargets(T) \cup {tmp}
    BY RestagedWrites
  <2> QED
    BY <2>1 DEF RemoteSinks
<1>2. \A h \in H : /\ SinkEffect(h, T).target = h /\ SinkEffect(h, U).target = h
                   /\ SameRow(SinkEffect(h, T), SinkEffect(h, U)) /\ SameRow(SinkEffect(h, U), SinkEffect(h, T))
  <2>1. ASSUME NEW h \in H
        PROVE  /\ SinkEffect(h, T).target = h /\ SinkEffect(h, T).kind = "NetEgress"
               /\ SinkEffect(h, T).mode = "Direct" /\ SinkEffect(h, T).netFlow = FlowNone
    BY SinkLabelled
  <2>2. ASSUME NEW h \in H
        PROVE  /\ SinkEffect(h, U).target = h /\ SinkEffect(h, U).kind = "NetEgress"
               /\ SinkEffect(h, U).mode = "Direct" /\ SinkEffect(h, U).netFlow = FlowNone
    <3>1. h \in RemoteSinks(WrittenTargets(U))
      BY <1>1
    <3> HIDE DEF H
    <3> QED
      BY <3>1, SinkLabelled
  <2> QED
    BY <2>1, <2>2 DEF SameRow
<1>3. /\ V = T \cup {SinkEffect(h, T) : h \in H}
      /\ W = U \cup {SinkEffect(h, U) : h \in H}
  BY <1>1 DEF WithSinks
<1> HIDE DEF H, V, W
<1>4. \A e, x : (Says(T, e, x) => Says(V, e, x)) /\ (Says(U, e, x) => Says(W, e, x))
  BY <1>3 DEF Says
<1>5. \A e \in V : \E u \in W : SameRow(e, u)
  BY <1>2, <1>3 DEF Restages
<1>6. \A u \in W : u.kind = "FSMeta" \/ \E e \in V : SameRow(u, e)
  BY <1>2, <1>3 DEF Restages
<1>7. \A u \in W : u.target.arbitrary => \E e \in V : SameRow(u, e) /\ e.target.arbitrary
  BY <1>2, <1>3 DEF Restages
<1>8. \A e \in V : e.target.arbitrary => \E u \in W : SameRow(e, u) /\ u.target.arbitrary
  BY <1>2, <1>3 DEF Restages
<1>9. ASSUME NEW e \in V, NEW x \in e.target.elems PROVE Says(W, e, x)
  <2>1. CASE e \in T
    BY <1>4, <2>1 DEF Restages
  <2>2. CASE \E h \in H : e = SinkEffect(h, T)
    BY <1>2, <1>3, <2>2 DEF Says
  <2> QED
    BY <1>3, <2>1, <2>2
<1>10. ASSUME NEW u \in W, NEW x \in u.target.elems
       PROVE  Says(V, u, x) \/ (x = tmp /\ (u.kind = "FSMeta" \/ (u.kind = "FSWrite" /\ Says(V, u, d))))
  <2>1. CASE u \in U
    BY <1>4, <2>1 DEF Restages
  <2>2. CASE \E h \in H : u = SinkEffect(h, U)
    BY <1>2, <1>3, <2>2 DEF Says
  <2> QED
    BY <1>3, <2>1, <2>2
<1> QED
  BY <1>5, <1>6, <1>7, <1>8, <1>9, <1>10 DEF Restages, V, W

LEMMA SinksNamed ==
  ASSUME NEW T, \A e \in T : Labelled(e), NEW tmp, \A t \in DOMAIN Shares : Shares[t] # tmp
  PROVE  /\ Named(T) => Named(WithSinks(T))
         /\ Fresh(T, tmp) => Fresh(WithSinks(T), tmp)
<1>1. \A h \in RemoteSinks(WrittenTargets(T)) : tmp \notin h.elems
  BY DEF RemoteSinks, FlatOf, FlatTop
<1>2. \A h \in RemoteSinks(WrittenTargets(T)) : SinkEffect(h, T).kind = "NetEgress" /\ SinkEffect(h, T).target = h
  BY SinkLabelled
<1> QED
  BY <1>1, <1>2 DEF WithSinks, Named, Fresh

-----------------------------------------------------------------------------
\* The canonical rows

\* The moves m, and that of tmp to d.
Moving(m, tmp, d) == [t \in DOMAIN m \cup {tmp} |-> IF t = tmp THEN d ELSE m[t]]

\* The same row, before and after: its targets but for tmp, which it writes in
\* the place of d, or moves.
LEMMA RestagedRow ==
  ASSUME NEW T, NEW U, \A e \in T : Labelled(e), \A e \in U : Labelled(e), OneEach(T), OneEach(U),
         NEW tmp, NEW d, Restages(T, U, tmp, d), Named(T), NEW e \in T, NEW u \in U, SameRow(e, u)
  PROVE  /\ e.target.arbitrary <=> u.target.arbitrary
         /\ e.target.elems \subseteq u.target.elems /\ u.target.elems \subseteq e.target.elems \cup {tmp}
         /\ tmp \in u.target.elems \ e.target.elems => u.kind = "FSMeta" \/ (u.kind = "FSWrite" /\ d \in e.target.elems)
         /\ e.target.elems = {} <=> u.target.elems = {}
<1>1. \A x, r : SameRow(x, r) => SameRow(r, x) /\ x.kind = r.kind
  BY DEF SameRow
<1>2. \A x, o, r : SameRow(x, o) /\ SameRow(o, r) => SameRow(x, r)
  BY DEF SameRow
<1>3. e.target.arbitrary => e.target.elems = {}
  BY DEF Labelled, ValidEffect, Effects, FlatSet
<1>4. u.target.arbitrary => u.target.elems = {}
  BY DEF Labelled, ValidEffect, Effects, FlatSet
<1>5. \A o \in T : SameRow(u, o) => o = e
  BY <1>2 DEF OneEach
<1>6. \A o \in U : SameRow(e, o) => o = u
  BY <1>1, <1>2 DEF OneEach
<1>7. e.target.arbitrary <=> u.target.arbitrary
  BY <1>5, <1>6 DEF Restages
<1>8. \A x : Says(T, u, x) => e.target.arbitrary \/ x \in e.target.elems
  BY <1>5 DEF Says
<1>9. \A x : Says(U, e, x) => u.target.arbitrary \/ x \in u.target.elems
  BY <1>6 DEF Says
<1>10. e.target.elems \subseteq u.target.elems
  BY <1>3, <1>7, <1>9 DEF Restages
<1>11. ASSUME NEW x \in u.target.elems, x \notin e.target.elems
       PROVE  x = tmp /\ (u.kind = "FSMeta" \/ (u.kind = "FSWrite" /\ d \in e.target.elems))
  <2>1. ~e.target.arbitrary
    BY <1>4, <1>7, <1>11
  <2>2. Says(T, u, x) \/ (x = tmp /\ (u.kind = "FSMeta" \/ (u.kind = "FSWrite" /\ Says(T, u, d))))
    BY DEF Restages
  <2> QED
    BY <1>8, <1>11, <2>1, <2>2
<1>12. e.target.elems = {} => u.target.elems = {}
  <2>1. SUFFICES ASSUME e.target.elems = {}, NEW x \in u.target.elems PROVE FALSE
    OBVIOUS
  <2>2. u.kind = "FSMeta" /\ ~e.target.arbitrary
    BY <1>4, <1>7, <1>11, <2>1
  <2> QED
    BY <1>1, <2>1, <2>2 DEF Named
<1> QED
  BY <1>7, <1>10, <1>11, <1>12

\* The canonical scope of a row is the same, the destination standing for tmp.
LEMMA RestagedScope ==
  ASSUME NEW T, NEW U, \A e \in T : Labelled(e), \A e \in U : Labelled(e), OneEach(T), OneEach(U),
         NEW tmp, NEW d, Restages(T, U, tmp, d), Named(T), Fresh(T, tmp),
         NEW m, tmp \notin DOMAIN m, d \notin DOMAIN m,
         NEW e \in T, NEW u \in U, SameRow(e, u)
  PROVE  CanonicalScope(u, Moving(m, tmp, d)) = CanonicalScope(e, m)
<1> DEFINE n == Moving(m, tmp, d)
<1>1. /\ DOMAIN n = DOMAIN m \cup {tmp} /\ n[tmp] = d
      /\ \A t \in DOMAIN m : n[t] = m[t]
  BY DEF Moving
<1>2. /\ e.target.elems \subseteq u.target.elems /\ u.target.elems \subseteq e.target.elems \cup {tmp}
      /\ tmp \in u.target.elems \ e.target.elems => u.kind = "FSMeta" \/ (u.kind = "FSWrite" /\ d \in e.target.elems)
  BY RestagedRow
<1>3. e.kind = u.kind /\ tmp \notin e.target.elems
  BY DEF SameRow, Fresh
<1> HIDE DEF n
<1>4. \A t, kind : t # tmp => CanonicalTarget(t, kind, n) = CanonicalTarget(t, kind, m)
  BY <1>1 DEF CanonicalTarget
<1>5. CanonicalTarget(tmp, "FSMeta", n) = {}
  BY <1>1 DEF CanonicalTarget
<1>6. CanonicalTarget(tmp, "FSWrite", n) = CanonicalTarget(d, "FSWrite", m)
  BY <1>1 DEF CanonicalTarget
<1>7. CASE tmp \notin u.target.elems
  <2>1. u.target.elems = e.target.elems
    BY <1>2, <1>7
  <2>2. \A t \in e.target.elems : CanonicalTarget(t, u.kind, n) = CanonicalTarget(t, e.kind, m)
    BY <1>3, <1>4
  <2> QED
    BY <2>1, <2>2 DEF CanonicalScope, n
<1>8. CASE tmp \in u.target.elems
  <2>1. u.target.elems = e.target.elems \cup {tmp}
    BY <1>2, <1>8
  <2>2. \A t \in e.target.elems : CanonicalTarget(t, u.kind, n) = CanonicalTarget(t, e.kind, m)
    BY <1>3, <1>4
  <2>3. CanonicalTarget(tmp, u.kind, n) \subseteq UNION {CanonicalTarget(t, e.kind, m) : t \in e.target.elems}
    <3>1. CASE u.kind = "FSMeta"
      BY <1>5, <3>1
    <3>2. CASE u.kind = "FSWrite" /\ d \in e.target.elems
      BY <1>3, <1>6, <3>2
    <3> QED
      BY <1>2, <1>3, <1>8, <3>1, <3>2
  <2>4. UNION {CanonicalTarget(t, u.kind, n) : t \in u.target.elems} =
          (UNION {CanonicalTarget(t, u.kind, n) : t \in e.target.elems}) \cup CanonicalTarget(tmp, u.kind, n)
    BY <2>1
  <2>5. UNION {CanonicalTarget(t, u.kind, n) : t \in e.target.elems} =
          UNION {CanonicalTarget(t, e.kind, m) : t \in e.target.elems}
    BY <2>2
  <2> QED
    BY <2>3, <2>4, <2>5 DEF CanonicalScope, n
<1> QED
  BY <1>7, <1>8

\* A row the canonical form keeps, as it keeps it.
CanonicalRow(e, m) ==
  IF e.target.arbitrary \/ e.target.elems = {} THEN e ELSE [e EXCEPT !.target = FlatOf(CanonicalScope(e, m))]

LEMMA CanonicalForms ==
  ASSUME NEW S, \A e \in S : Labelled(e), OneEach(S), NEW m
  PROVE  /\ CanonicalRows(S, m) =
              {CanonicalRow(e, m) : e \in {o \in S : o.target.arbitrary \/ o.target.elems = {} \/ CanonicalScope(o, m) # {}}}
         /\ \A e \in S : SameRow(e, CanonicalRow(e, m)) /\ SameRow(CanonicalRow(e, m), e)
         /\ OneEach(CanonicalRows(S, m))
<1>1. \A e \in S : e.target.arbitrary => e.target.elems = {}
  BY DEF Labelled, ValidEffect, Effects, FlatSet
<1>2. CanonicalRows(S, m) =
        {CanonicalRow(e, m) : e \in {o \in S : o.target.arbitrary \/ o.target.elems = {} \/ CanonicalScope(o, m) # {}}}
  BY <1>1 DEF CanonicalRows, CanonicalRow
<1>3. ASSUME NEW e \in S PROVE SameRow(e, CanonicalRow(e, m)) /\ SameRow(CanonicalRow(e, m), e)
  <2>1. /\ [e EXCEPT !.target = FlatOf(CanonicalScope(e, m))].kind = e.kind
        /\ [e EXCEPT !.target = FlatOf(CanonicalScope(e, m))].mode = e.mode
        /\ [e EXCEPT !.target = FlatOf(CanonicalScope(e, m))].netFlow = e.netFlow
    BY DEF Labelled, ValidEffect, Effects
  <2> QED
    BY <2>1 DEF CanonicalRow, SameRow
<1>4. \A e, o \in S : SameRow(CanonicalRow(e, m), CanonicalRow(o, m)) => e = o
  <2>1. SUFFICES ASSUME NEW e \in S, NEW o \in S, SameRow(CanonicalRow(e, m), CanonicalRow(o, m)) PROVE e = o
    OBVIOUS
  <2>2. SameRow(e, o)
    BY <1>3, <2>1 DEF SameRow
  <2> QED
    BY <2>2 DEF OneEach
<1>5. OneEach(CanonicalRows(S, m))
  BY <1>2, <1>4 DEF OneEach
<1> QED
  BY <1>2, <1>3, <1>5

\* The canonical rows of the program that stages match those of the one that
\* writes in place.
LEMMA RestagedRowsMatch ==
  ASSUME NEW T, NEW U, \A e \in T : Labelled(e), \A e \in U : Labelled(e), OneEach(T), OneEach(U),
         NEW tmp, NEW d, Restages(T, U, tmp, d), Named(T), Named(U), Fresh(T, tmp),
         NEW m, tmp \notin DOMAIN m, d \notin DOMAIN m
  PROVE  /\ Matches(CanonicalRows(T, m), CanonicalRows(U, Moving(m, tmp, d)))
         /\ Matches(CanonicalRows(U, Moving(m, tmp, d)), CanonicalRows(T, m))
<1> DEFINE n == Moving(m, tmp, d)
           Keeps(o, w) == o.target.arbitrary \/ o.target.elems = {} \/ CanonicalScope(o, w) # {}
<1>1. /\ CanonicalRows(T, m) = {CanonicalRow(e, m) : e \in {o \in T : Keeps(o, m)}}
      /\ \A e \in T : SameRow(e, CanonicalRow(e, m)) /\ SameRow(CanonicalRow(e, m), e)
  BY CanonicalForms
<1>2. /\ CanonicalRows(U, n) = {CanonicalRow(e, n) : e \in {o \in U : Keeps(o, n)}}
      /\ \A e \in U : SameRow(e, CanonicalRow(e, n)) /\ SameRow(CanonicalRow(e, n), e)
  BY CanonicalForms
<1>3. ASSUME NEW e \in T, NEW u \in U, SameRow(e, u)
      PROVE  /\ Keeps(e, m) <=> Keeps(u, n)
             /\ SameRow(CanonicalRow(e, m), CanonicalRow(u, n)) /\ SameRow(CanonicalRow(u, n), CanonicalRow(e, m))
             /\ CanonicalRow(e, m).target = CanonicalRow(u, n).target
  <2>1. /\ e.target.arbitrary <=> u.target.arbitrary
        /\ e.target.elems = {} <=> u.target.elems = {}
    BY <1>3, RestagedRow
  <2>2. CanonicalScope(u, n) = CanonicalScope(e, m)
    BY <1>3, RestagedScope
  <2> HIDE DEF n
  <2>3. Keeps(e, m) <=> Keeps(u, n)
    BY <2>1, <2>2
  <2>4. SameRow(CanonicalRow(e, m), CanonicalRow(u, n)) /\ SameRow(CanonicalRow(u, n), CanonicalRow(e, m))
    BY <1>1, <1>2, <1>3 DEF SameRow
  <2>5. CASE e.target.arbitrary \/ e.target.elems = {}
    <3>1. CanonicalRow(e, m) = e /\ CanonicalRow(u, n) = u
      BY <2>1, <2>5 DEF CanonicalRow
    <3>2. e.target \in FlatSet(Targets) /\ u.target \in FlatSet(Targets)
      BY DEF Labelled, ValidEffect, Effects
    <3>3. e.target.elems = u.target.elems
      BY <2>1, <2>5, <3>2 DEF FlatSet
    <3>4. e.target = u.target
      BY <2>1, <3>2, <3>3, FlatSetsEqual
    <3> QED
      BY <2>3, <2>4, <3>1, <3>4
  <2>6. CASE ~(e.target.arbitrary \/ e.target.elems = {})
    <3>1. /\ CanonicalRow(e, m) = [e EXCEPT !.target = FlatOf(CanonicalScope(e, m))]
          /\ CanonicalRow(u, n) = [u EXCEPT !.target = FlatOf(CanonicalScope(e, m))]
      BY <2>1, <2>2, <2>6 DEF CanonicalRow
    <3>2. CanonicalRow(e, m).target = FlatOf(CanonicalScope(e, m)) /\ CanonicalRow(u, n).target = FlatOf(CanonicalScope(e, m))
      BY <3>1 DEF Labelled, ValidEffect, Effects
    <3> QED
      BY <2>3, <2>4, <3>2
  <2> QED
    BY <2>5, <2>6
<1>4. ASSUME NEW u \in U, ~\E e \in T : SameRow(e, u)
      PROVE  ~Keeps(u, n)
  <2>1. \A e \in T : ~SameRow(u, e)
    BY <1>4 DEF SameRow
  <2>2. u.kind = "FSMeta" /\ ~u.target.arbitrary /\ \A x \in u.target.elems : x = tmp
    BY <2>1 DEF Restages, Says
  <2>3. u.target.elems # {}
    BY <2>2 DEF Named
  <2>4. u.target.elems = {tmp}
    BY <2>2, <2>3
  <2>5. CanonicalTarget(tmp, "FSMeta", n) = {}
    BY DEF CanonicalTarget, Moving
  <2>6. CanonicalScope(u, n) = {}
    <3> HIDE DEF n
    <3> QED
      BY <2>2, <2>4, <2>5 DEF CanonicalScope
  <2> QED
    BY <2>2, <2>3, <2>6
<1>5. \A e \in T : \E u \in U : SameRow(e, u)
  BY DEF Restages
<1> HIDE DEF n, Keeps
<1>6. Matches(CanonicalRows(T, m), CanonicalRows(U, n))
  <2>1. SUFFICES ASSUME NEW e \in T, Keeps(e, m)
                 PROVE  \E o \in CanonicalRows(U, n) : SameRow(CanonicalRow(e, m), o) /\ CanonicalRow(e, m).target = o.target
    BY <1>1 DEF Matches
  <2>2. PICK u \in U : SameRow(e, u)
    BY <1>5
  <2>3. /\ Keeps(u, n) /\ SameRow(CanonicalRow(e, m), CanonicalRow(u, n)) /\ CanonicalRow(e, m).target = CanonicalRow(u, n).target
    BY <1>3, <2>1, <2>2
  <2> QED
    BY <1>2, <2>3
<1>7. Matches(CanonicalRows(U, n), CanonicalRows(T, m))
  <2>1. SUFFICES ASSUME NEW u \in U, Keeps(u, n)
                 PROVE  \E o \in CanonicalRows(T, m) : SameRow(CanonicalRow(u, n), o) /\ CanonicalRow(u, n).target = o.target
    BY <1>2 DEF Matches
  <2>2. PICK e \in T : SameRow(e, u)
    BY <1>4, <2>1
  <2>3. /\ Keeps(e, m) /\ SameRow(CanonicalRow(u, n), CanonicalRow(e, m)) /\ CanonicalRow(e, m).target = CanonicalRow(u, n).target
    BY <1>3, <2>1, <2>2
  <2> QED
    BY <1>1, <2>3
<1> QED
  BY <1>6, <1>7 DEF n

-----------------------------------------------------------------------------
\* The effects of the program that stages

\* The guards of a retry.
Retriable(i, tmp) ==
  /\ i \in DOMAIN prog /\ tmp \in StagingNames
  /\ Len(prog[i].redirs) = 1 /\ prog[i].redirs[1].op = ">" /\ prog[i].redirs[1].target # Unknown
  /\ \A c \in ToSet(prog) : tmp \notin ToSet(c.ops) \cup {r.target : r \in ToSet(c.redirs)}
  /\ \A c \in ToSet(prog) : c.op = "mv" => prog[i].redirs[1].target # c.ops[1]
  /\ i < Len(prog) => prog[i + 1].op # "sh"

Destination(i)    == prog[i].redirs[1].target
Redirected(i, tmp) == [prog[i] EXCEPT !.redirs = << To(tmp) >>]
Mover(i, tmp)     == Call("mv", {}, << tmp, Destination(i) >>, << >>)

\* The elements of a part of a sequence.
LEMMA PartElements ==
  ASSUME NEW T, NEW s \in Seq(T), NEW m \in 1 .. Len(s) + 1, NEW n \in 0 .. Len(s), m <= n + 1
  PROVE  /\ SubSeq(s, m, n) \in Seq(T)
         /\ Len(SubSeq(s, m, n)) = n - m + 1
         /\ \A i \in 1 .. n - m + 1 : SubSeq(s, m, n)[i] = s[m + i - 1]
<1>1. \A i \in m .. n : s[i] \in T
  OBVIOUS
<1>2. SubSeq(s, m, n) = [i \in 1 .. n - m + 1 |-> s[m + i - 1]]
  OBVIOUS
<1>3. \A i \in 1 .. n - m + 1 : m + i - 1 \in m .. n
  OBVIOUS
<1>4. n - m + 1 \in Nat
  OBVIOUS
<1> DEFINE t == [i \in 1 .. n - m + 1 |-> s[m + i - 1]]
<1>5. \A i \in 1 .. n - m + 1 : t[i] \in T /\ t[i] = s[m + i - 1]
  BY <1>1, <1>3
<1>6. t \in [1 .. n - m + 1 -> T]
  BY <1>5
<1> HIDE DEF t
<1>7. t \in Seq(T) /\ Len(t) = n - m + 1
  BY <1>4, <1>6
<1> QED
  BY <1>2, <1>5, <1>7 DEF t

\* The calls of the program that stages: those before i, the two, and the others.
LEMMA StagedCalls ==
  ASSUME WellFormedProgram(prog), NEW i, NEW tmp, Retriable(i, tmp)
  PROVE  /\ Len(Staged(i, tmp)) = Len(prog) + 1 /\ DOMAIN Staged(i, tmp) = 1 .. Len(prog) + 1
         /\ \A j \in 1 .. i - 1 : Staged(i, tmp)[j] = prog[j]
         /\ Staged(i, tmp)[i] = Redirected(i, tmp) /\ Staged(i, tmp)[i + 1] = Mover(i, tmp)
         /\ \A j \in i + 1 .. Len(prog) : Staged(i, tmp)[j + 1] = prog[j]
<1> DEFINE N == Len(prog)
           two == << Redirected(i, tmp), Mover(i, tmp) >>
           W == ToSet(prog) \cup {Redirected(i, tmp), Mover(i, tmp)}
           a == SubSeq(prog, 1, i - 1)
           b == SubSeq(prog, i + 1, N)
           c == a \o two
           q == c \o b
<1>1. N \in Nat /\ DOMAIN prog = 1 .. N /\ prog \in Seq(W) /\ i \in 1 .. N
  BY DEF WellFormedProgram, Retriable
<1>2. Staged(i, tmp) = q
  BY DEF Staged, Redirected, Mover, Destination
<1>3. two \in Seq(W) /\ Len(two) = 2 /\ two[1] = Redirected(i, tmp) /\ two[2] = Mover(i, tmp)
  OBVIOUS
<1> HIDE DEF two, W
<1>4. a \in Seq(W) /\ Len(a) = i - 1 /\ \A j \in 1 .. i - 1 : a[j] = prog[j]
  <2>1. /\ a \in Seq(W) /\ Len(a) = (i - 1) - 1 + 1
        /\ \A j \in 1 .. (i - 1) - 1 + 1 : a[j] = prog[1 + j - 1]
    <3>1. 1 \in 1 .. N + 1 /\ i - 1 \in 0 .. N /\ 1 <= (i - 1) + 1
      BY <1>1
    <3> QED
      BY <1>1, <3>1, PartElements
  <2> HIDE DEF a, N
  <2>2. (i - 1) - 1 + 1 = i - 1 /\ \A j \in 1 .. i - 1 : 1 + j - 1 = j
    BY <1>1
  <2> QED
    BY <2>1, <2>2
<1>5. b \in Seq(W) /\ Len(b) = N - i /\ \A j \in 1 .. N - i : b[j] = prog[i + j]
  <2>1. /\ b \in Seq(W) /\ Len(b) = N - (i + 1) + 1
        /\ \A j \in 1 .. N - (i + 1) + 1 : b[j] = prog[(i + 1) + j - 1]
    <3>1. i + 1 \in 1 .. N + 1 /\ N \in 0 .. N /\ i + 1 <= N + 1
      BY <1>1
    <3> QED
      BY <1>1, <3>1, PartElements
  <2> HIDE DEF b, N
  <2>2. N - (i + 1) + 1 = N - i /\ \A j \in 1 .. N - i : (i + 1) + j - 1 = i + j
    BY <1>1
  <2> QED
    BY <2>1, <2>2
<1> HIDE DEF a, b
<1>6. /\ c \in Seq(W) /\ Len(c) = Len(a) + Len(two)
      /\ \A j \in 1 .. Len(a) : c[j] = a[j]
      /\ \A j \in 1 .. Len(two) : c[Len(a) + j] = two[j]
  <2>1. a \in Seq(W) /\ two \in Seq(W)
    BY <1>3, <1>4
  <2> HIDE DEF N, q
  <2> QED
    BY <2>1, ConcatElements
<1> HIDE DEF c
<1>7. /\ Len(q) = Len(c) + Len(b) /\ DOMAIN q = 1 .. (Len(c) + Len(b))
      /\ \A j \in 1 .. Len(c) : q[j] = c[j]
      /\ \A j \in 1 .. Len(b) : q[Len(c) + j] = b[j]
  <2>1. c \in Seq(W) /\ b \in Seq(W)
    BY <1>5, <1>6
  <2> HIDE DEF N
  <2> QED
    BY <2>1, ConcatElements
<1> HIDE DEF q, N
<1>8. Len(c) = i + 1
  BY <1>1, <1>3, <1>4, <1>6
<1>9. /\ \A j \in 1 .. i - 1 : c[j] = prog[j]
      /\ c[i] = two[1] /\ c[i + 1] = two[2]
  <2>1. i - 1 + 1 = i /\ i - 1 + 2 = i + 1 /\ 1 \in 1 .. 2 /\ 2 \in 1 .. 2
    BY <1>1
  <2>2. c[i - 1 + 1] = two[1] /\ c[i - 1 + 2] = two[2]
    BY <1>3, <1>4, <1>6, <2>1
  <2>3. \A j \in 1 .. i - 1 : c[j] = prog[j]
    BY <1>4, <1>6
  <2> QED
    BY <2>1, <2>2, <2>3
<1>10. Len(q) = N + 1 /\ DOMAIN q = 1 .. N + 1
  <2>1. (i + 1) + (N - i) = N + 1
    BY <1>1
  <2> QED
    BY <1>5, <1>7, <1>8, <2>1
<1>11. /\ \A j \in 1 .. i - 1 : q[j] = prog[j]
       /\ q[i] = two[1] /\ q[i + 1] = two[2]
  <2>1. \A j \in 1 .. i + 1 : q[j] = c[j]
    BY <1>7, <1>8
  <2>2. i \in 1 .. i + 1 /\ i + 1 \in 1 .. i + 1 /\ \A j \in 1 .. i - 1 : j \in 1 .. i + 1
    BY <1>1
  <2> QED
    BY <1>9, <2>1, <2>2
<1>12. ASSUME NEW j \in i + 1 .. N PROVE q[j + 1] = prog[j]
  <2>1. j - i \in 1 .. N - i /\ (i + 1) + (j - i) = j + 1 /\ i + (j - i) = j
    BY <1>1
  <2>2. q[(i + 1) + (j - i)] = b[j - i]
    BY <1>5, <1>7, <1>8, <2>1
  <2>3. b[j - i] = prog[i + (j - i)]
    BY <1>5, <2>1
  <2> QED
    BY <2>1, <2>2, <2>3
<1> QED
  BY <1>2, <1>3, <1>10, <1>11, <1>12 DEF N

\* What the call at j does, with its redirections.
EffectsOf(p, j) == CallEffects(p, j) \cup {RedirEffect(r) : r \in ToSet(p[j].redirs)}

LEMMA EffectsByCall ==
  ASSUME NEW p
  PROVE  BoundEffects(p) = UNION {EffectsOf(p, j) : j \in DOMAIN p}
<1>1. ASSUME NEW j PROVE {x.effect : x \in CallDerivations(p, j)} = EffectsOf(p, j)
  <2>1. \A x \in CallDerivations(p, j) : x.effect \in EffectsOf(p, j)
    BY DEF CallDerivations, EffectsOf
  <2>2. ASSUME NEW e \in CallEffects(p, j) PROVE \E x \in CallDerivations(p, j) : x.effect = e
    <3>1. [effect |-> e, atom |-> << "command", p[j].op >>] \in CallDerivations(p, j)
      BY DEF CallDerivations
    <3> QED
      BY <3>1
  <2>3. ASSUME NEW r \in ToSet(p[j].redirs) PROVE \E x \in CallDerivations(p, j) : x.effect = RedirEffect(r)
    <3>1. [effect |-> RedirEffect(r), atom |-> << "redirect", r.op >>] \in CallDerivations(p, j)
      BY DEF CallDerivations
    <3> QED
      BY <3>1
  <2>4. \A e \in EffectsOf(p, j) : \E x \in CallDerivations(p, j) : x.effect = e
    BY <2>2, <2>3 DEF EffectsOf
  <2> QED
    BY <2>1, <2>4
<1>2. BoundEffects(p) = UNION {{x.effect : x \in CallDerivations(p, j)} : j \in DOMAIN p}
  BY DEF BoundEffects, Derivations
<1> QED
  BY <1>1, <1>2

\* The effects of the two calls.
LEMMA StagedPair ==
  ASSUME WellFormedProgram(prog), NEW i, NEW tmp, Retriable(i, tmp)
  PROVE  /\ Redirected(i, tmp).op = prog[i].op /\ Redirected(i, tmp).flags = prog[i].flags
         /\ Redirected(i, tmp).ops = prog[i].ops /\ Redirected(i, tmp).redirs = << To(tmp) >>
         /\ \A c : c.op = prog[i].op /\ c.flags = prog[i].flags =>
              BindCommand(c, prog[i].ops) = BindCommand(prog[i], prog[i].ops)
         /\ ToSet(prog[i].redirs) = {To(Destination(i))} /\ Destination(i) \in Targets
         /\ BindCommand(Mover(i, tmp), Mover(i, tmp).ops) = {Plain("FSMeta", << tmp >>), Plain("FSWrite", << Destination(i) >>)}
<1>1. i \in DOMAIN prog /\ WellFormed(prog[i])
  BY DEF Retriable, WellFormedProgram, ToSet
<1>2. prog[i] = Call(prog[i].op, prog[i].flags, prog[i].ops, prog[i].redirs)
  BY <1>1 DEF WellFormed
<1>3. /\ Redirected(i, tmp).op = prog[i].op /\ Redirected(i, tmp).flags = prog[i].flags
      /\ Redirected(i, tmp).ops = prog[i].ops /\ Redirected(i, tmp).redirs = << To(tmp) >>
  BY <1>2 DEF Redirected, Call
<1>4. \A c : c.op = prog[i].op /\ c.flags = prog[i].flags =>
        BindCommand(c, prog[i].ops) = BindCommand(prog[i], prog[i].ops)
  BY DEF BindCommand
<1>5. ToSet(prog[i].redirs) = {prog[i].redirs[1]} /\ prog[i].redirs[1] = To(Destination(i)) /\ Destination(i) \in Targets
  <2>1. prog[i].redirs \in Seq([op : WriteOps \cup {"<"}, target : Words] \cup [op : {"2>&1"}, target : {"1"}])
    BY <1>1 DEF WellFormed
  <2>2. Len(prog[i].redirs) = 1 /\ prog[i].redirs[1].op = ">" /\ prog[i].redirs[1].target # Unknown
    BY DEF Retriable
  <2>3. prog[i].redirs[1] \in [op : WriteOps \cup {"<"}, target : Words] \cup [op : {"2>&1"}, target : {"1"}]
    BY <2>1, <2>2
  <2>4. prog[i].redirs[1] \in [op : WriteOps \cup {"<"}, target : Words]
    BY <2>2, <2>3
  <2>5. prog[i].redirs[1] = To(Destination(i)) /\ Destination(i) \in Targets
    BY <2>2, <2>4 DEF To, Destination, Words
  <2>6. DOMAIN prog[i].redirs = {1}
    BY <2>1, <2>2
  <2> QED
    BY <2>5, <2>6 DEF ToSet
<1>6. BindCommand(Mover(i, tmp), Mover(i, tmp).ops) = {Plain("FSMeta", << tmp >>), Plain("FSWrite", << Destination(i) >>)}
  <2> DEFINE c == Mover(i, tmp)
  <2>1. c.op = "mv" /\ c.flags = {} /\ c.ops = << tmp, Destination(i) >>
    BY DEF Mover, Call
  <2>2. Tail(<< tmp, Destination(i) >>) = << Destination(i) >> /\ << tmp, Destination(i) >>[1] = tmp
    OBVIOUS
  <2> HIDE DEF c
  <2>3. BindCommand(c, c.ops) = {Plain("FSMeta", << tmp >>), Plain("FSWrite", << Destination(i) >>)}
    BY <2>1, <2>2 DEF BindCommand
  <2> QED
    BY <2>3 DEF c
<1> QED
  BY <1>3, <1>4, <1>5, <1>6

\* The effects of the calls of the program that stages.
LEMMA StagedCallEffects ==
  ASSUME WellFormedProgram(prog), NEW i, NEW tmp, Retriable(i, tmp), NEW q, q = Staged(i, tmp)
  PROVE  /\ \A j \in 1 .. i - 1 : EffectsOf(q, j) = EffectsOf(prog, j)
         /\ EffectsOf(prog, i) = CallEffects(prog, i) \cup {Plain("FSWrite", << Destination(i) >>)}
         /\ EffectsOf(q, i) = CallEffects(prog, i) \cup {Plain("FSWrite", << tmp >>)}
         /\ EffectsOf(q, i + 1) = {Plain("FSMeta", << tmp >>), Plain("FSWrite", << Destination(i) >>)}
         /\ \A j \in i + 1 .. Len(prog) : EffectsOf(q, j + 1) = EffectsOf(prog, j)
<1>1. i \in 1 .. Len(prog) /\ Len(prog) \in Nat /\ (i < Len(prog) => prog[i + 1].op # "sh")
  BY DEF Retriable, WellFormedProgram
<1>2. /\ \A j \in 1 .. i - 1 : q[j] = prog[j]
      /\ q[i] = Redirected(i, tmp) /\ q[i + 1] = Mover(i, tmp)
      /\ \A j \in i + 1 .. Len(prog) : q[j + 1] = prog[j]
  BY StagedCalls
<1>3. /\ Redirected(i, tmp).op = prog[i].op /\ Redirected(i, tmp).flags = prog[i].flags
      /\ Redirected(i, tmp).ops = prog[i].ops /\ Redirected(i, tmp).redirs = << To(tmp) >>
      /\ \A c : c.op = prog[i].op /\ c.flags = prog[i].flags =>
           BindCommand(c, prog[i].ops) = BindCommand(prog[i], prog[i].ops)
      /\ ToSet(prog[i].redirs) = {To(Destination(i))}
      /\ BindCommand(Mover(i, tmp), Mover(i, tmp).ops) = {Plain("FSMeta", << tmp >>), Plain("FSWrite", << Destination(i) >>)}
  BY StagedPair
<1>4. \A t : RedirEffect(To(t)) = Plain("FSWrite", << t >>)
  BY DEF RedirEffect, To, WriteOps
<1>5. ASSUME NEW j \in 1 .. i - 1 PROVE EffectsOf(q, j) = EffectsOf(prog, j)
  <2>1. q[j] = prog[j] /\ (j > 1 => q[j - 1] = prog[j - 1])
    <3>1. j > 1 => j - 1 \in 1 .. i - 1
      BY <1>1
    <3> QED
      BY <1>2, <3>1
  <2>2. SinkFlowRole(q, j) = SinkFlowRole(prog, j)
    BY <2>1 DEF SinkFlowRole
  <2> QED
    BY <2>1, <2>2 DEF EffectsOf, CallEffects
<1>6. EffectsOf(prog, i) = CallEffects(prog, i) \cup {Plain("FSWrite", << Destination(i) >>)}
  BY <1>3, <1>4 DEF EffectsOf
<1>7. EffectsOf(q, i) = CallEffects(prog, i) \cup {Plain("FSWrite", << tmp >>)}
  <2>1. i > 1 => q[i - 1] = prog[i - 1]
    <3>1. i > 1 => i - 1 \in 1 .. i - 1
      BY <1>1
    <3> QED
      BY <1>2, <3>1
  <2>2. SinkFlowRole(q, i) = SinkFlowRole(prog, i)
    BY <2>1 DEF SinkFlowRole
  <2>3. q[i].op = prog[i].op /\ q[i].flags = prog[i].flags /\ q[i].ops = prog[i].ops /\ q[i].redirs = << To(tmp) >>
    BY <1>2, <1>3
  <2>4. CallEffects(q, i) = CallEffects(prog, i)
    BY <1>3, <2>2, <2>3 DEF CallEffects
  <2>5. ToSet(q[i].redirs) = {To(tmp)}
    BY <2>3 DEF ToSet
  <2> QED
    BY <1>4, <2>4, <2>5 DEF EffectsOf
<1>8. EffectsOf(q, i + 1) = {Plain("FSMeta", << tmp >>), Plain("FSWrite", << Destination(i) >>)}
  <2>1. Mover(i, tmp).op = "mv" /\ ToSet(Mover(i, tmp).redirs) = {}
    BY DEF Mover, Call, ToSet
  <2>2. CallEffects(q, i + 1) = BindCommand(Mover(i, tmp), Mover(i, tmp).ops)
    BY <1>2, <2>1 DEF CallEffects
  <2> QED
    BY <1>2, <1>3, <2>1, <2>2 DEF EffectsOf
<1>9. ASSUME NEW j \in i + 1 .. Len(prog) PROVE EffectsOf(q, j + 1) = EffectsOf(prog, j)
  <2>1. q[j + 1] = prog[j]
    BY <1>2
  <2>2. prog[j].op = "sh" => SinkFlowRole(q, j + 1) = SinkFlowRole(prog, j)
    <3>1. SUFFICES ASSUME prog[j].op = "sh" PROVE SinkFlowRole(q, j + 1) = SinkFlowRole(prog, j)
      OBVIOUS
    <3>2. j # i + 1
      BY <1>1, <3>1
    <3>3. j - 1 \in i + 1 .. Len(prog) /\ j > 1 /\ j + 1 > 1 /\ (j + 1) - 1 = j /\ (j - 1) + 1 = j
      BY <1>1, <3>2
    <3>4. q[(j - 1) + 1] = prog[j - 1]
      BY <1>2, <3>3
    <3>5. q[(j + 1) - 1] = prog[j - 1]
      BY <3>3, <3>4
    <3> QED
      BY <3>3, <3>5 DEF SinkFlowRole
  <2>3. CallEffects(q, j + 1) = CallEffects(prog, j)
    BY <2>1, <2>2 DEF CallEffects
  <2> QED
    BY <2>1, <2>3 DEF EffectsOf
<1> QED
  BY <1>5, <1>6, <1>7, <1>8, <1>9

\* The program that stages has the effects of the other, and two more: a write of
\* the name its output is staged under, and the move of that name.
LEMMA StagedEffects ==
  ASSUME WellFormedProgram(prog), NEW i, NEW tmp, Retriable(i, tmp)
  PROVE  /\ BoundEffects(Staged(i, tmp)) =
              BoundEffects(prog) \cup {Plain("FSWrite", << tmp >>), Plain("FSMeta", << tmp >>)}
         /\ Plain("FSWrite", << Destination(i) >>) \in BoundEffects(prog)
<1> DEFINE N == Len(prog)
           q == Staged(i, tmp)
<1>1. i \in 1 .. N /\ N \in Nat /\ DOMAIN prog = 1 .. N
  BY DEF Retriable, WellFormedProgram
<1>2. DOMAIN q = 1 .. N + 1
  BY StagedCalls
<1>3. /\ \A j \in 1 .. i - 1 : EffectsOf(q, j) = EffectsOf(prog, j)
      /\ EffectsOf(prog, i) = CallEffects(prog, i) \cup {Plain("FSWrite", << Destination(i) >>)}
      /\ EffectsOf(q, i) = CallEffects(prog, i) \cup {Plain("FSWrite", << tmp >>)}
      /\ EffectsOf(q, i + 1) = {Plain("FSMeta", << tmp >>), Plain("FSWrite", << Destination(i) >>)}
      /\ \A j \in i + 1 .. N : EffectsOf(q, j + 1) = EffectsOf(prog, j)
  BY StagedCallEffects
<1>4. /\ BoundEffects(prog) = UNION {EffectsOf(prog, j) : j \in 1 .. N}
      /\ BoundEffects(q) = UNION {EffectsOf(q, j) : j \in 1 .. N + 1}
  BY <1>1, <1>2, EffectsByCall
<1> HIDE DEF N, q
<1>5. i \in 1 .. N + 1 /\ i + 1 \in 1 .. N + 1 /\ (\A j \in 1 .. i - 1 : j \in 1 .. N + 1 /\ j \in 1 .. N)
      /\ \A j \in i + 1 .. N : j + 1 \in 1 .. N + 1 /\ j \in 1 .. N
  BY <1>1
<1>6. \A j \in 1 .. N : j \in 1 .. i - 1 \/ j = i \/ j \in i + 1 .. N
  BY <1>1
<1>7. \A j \in 1 .. N + 1 : j \in 1 .. i - 1 \/ j = i \/ j = i + 1 \/ \E k \in i + 1 .. N : j = k + 1
  <2>1. SUFFICES ASSUME NEW j \in 1 .. N + 1, j > i + 1 PROVE \E k \in i + 1 .. N : j = k + 1
    BY <1>1
  <2>2. j - 1 \in i + 1 .. N /\ j = (j - 1) + 1
    BY <1>1, <2>1
  <2> QED
    BY <2>2
<1>8. Plain("FSWrite", << Destination(i) >>) \in BoundEffects(prog)
  BY <1>1, <1>3, <1>4
<1>9. /\ Plain("FSWrite", << tmp >>) \in BoundEffects(q) /\ Plain("FSMeta", << tmp >>) \in BoundEffects(q)
      /\ Plain("FSWrite", << Destination(i) >>) \in BoundEffects(q)
  BY <1>3, <1>4, <1>5
<1>10. BoundEffects(prog) \subseteq BoundEffects(q)
  <2>1. \A j \in 1 .. N : EffectsOf(prog, j) \subseteq BoundEffects(q)
    BY <1>3, <1>4, <1>5, <1>6, <1>9
  <2> QED
    BY <1>4, <2>1
<1>11. BoundEffects(q) \subseteq BoundEffects(prog) \cup {Plain("FSWrite", << tmp >>), Plain("FSMeta", << tmp >>)}
  <2>1. \A j \in 1 .. N + 1 :
          EffectsOf(q, j) \subseteq BoundEffects(prog) \cup {Plain("FSWrite", << tmp >>), Plain("FSMeta", << tmp >>)}
    <3>1. \A j \in 1 .. N : EffectsOf(prog, j) \subseteq BoundEffects(prog)
      BY <1>4
    <3>2. CallEffects(prog, i) \subseteq BoundEffects(prog)
      BY <1>1, <1>3, <3>1
    <3> QED
      BY <1>3, <1>5, <1>7, <1>8, <3>1, <3>2
  <2> QED
    BY <1>4, <2>1
<1> QED
  BY <1>8, <1>9, <1>10, <1>11 DEF q

\* The effects of a call name its words; what a call moves has a name.
LEMMA CallTargets ==
  ASSUME NEW c, WellFormed(c), NEW e \in BindCommand(c, c.ops)
  PROVE  /\ e.target.elems \subseteq ToSet(c.ops) \cup {"cat"}
         /\ e.kind = "FSMeta" => e.target.arbitrary \/ e.target.elems # {}
<1>1. \A kind, words : /\ Plain(kind, words).kind = kind /\ Plain(kind, words).target = ScopeOf(words)
  BY DEF Plain, Effect
<1>2. \A words : ScopeOf(words).elems \subseteq ToSet(words)
  BY DEF ScopeOf, FlatTop, FlatOf
<1>3. \A word : ToSet(<< word >>) = {word} /\ (ScopeOf(<< word >>).arbitrary \/ ScopeOf(<< word >>).elems = {word})
  BY DEF ToSet, ScopeOf, FlatTop, FlatOf
<1>4. \A kind, words : ToSet(words) \subseteq ToSet(c.ops) \cup {"cat"} =>
        Plain(kind, words).target.elems \subseteq ToSet(c.ops) \cup {"cat"}
  BY <1>1, <1>2
<1>5. CASE c.op = "cat"
  <2>1. e = Plain("ProcSpawn", << "cat" >>) \/ e = Plain("FSRead", c.ops)
    BY <1>5 DEF BindCommand
  <2> QED
    BY <1>1, <1>3, <1>4, <2>1
<1>6. CASE c.op \in {"cp", "mv"}
  <2>1. c.ops[1] \in ToSet(c.ops) /\ ToSet(Tail(c.ops)) \subseteq ToSet(c.ops)
    <3>1. Len(c.ops) = 2 /\ ToSet(Tail(c.ops)) = {c.ops[2]} /\ DOMAIN c.ops = 1 .. Len(c.ops)
          /\ \A k \in DOMAIN c.ops : c.ops[k] \in ToSet(c.ops)
      BY <1>6, CallWords
    <3>2. 1 \in DOMAIN c.ops /\ 2 \in DOMAIN c.ops
      BY <3>1
    <3> QED
      BY <3>1, <3>2
  <2>2. \/ e = Plain(IF c.op = "cp" THEN "FSRead" ELSE "FSMeta", << c.ops[1] >>)
        \/ e = Plain("FSWrite", Tail(c.ops)) \/ e = Plain("FSWrite", c.ops)
    BY <1>6 DEF BindCommand
  <2> QED
    BY <1>1, <1>3, <1>4, <2>1, <2>2
<1>7. CASE c.op = "rm"
  <2>1. e = Plain("FSWrite", c.ops)
    BY <1>7 DEF BindCommand
  <2> QED
    BY <1>1, <1>4, <2>1
<1>8. CASE c.op = "curl"
  <2>1. Last(c.ops) \in ToSet(c.ops) /\ c.ops[1] \in ToSet(c.ops)
    <3>1. c.ops # << >> /\ Len(c.ops) \in Nat /\ DOMAIN c.ops = 1 .. Len(c.ops)
          /\ \A k \in DOMAIN c.ops : c.ops[k] \in ToSet(c.ops)
      BY <1>8, CallWords
    <3>2. Len(c.ops) # 0
      BY <1>8 DEF WellFormed
    <3>3. 1 \in DOMAIN c.ops /\ Len(c.ops) \in DOMAIN c.ops
      BY <3>1, <3>2
    <3> QED
      BY <3>1, <3>3 DEF Last
  <2>2. e = Plain("NetEgress", << Last(c.ops) >>) \/ e = Effect("FSWrite", ScopeOf(<< c.ops[1] >>), {}, FlowIngest)
    BY <1>8 DEF BindCommand
  <2>3. /\ Effect("FSWrite", ScopeOf(<< c.ops[1] >>), {}, FlowIngest).kind = "FSWrite"
        /\ Effect("FSWrite", ScopeOf(<< c.ops[1] >>), {}, FlowIngest).target = ScopeOf(<< c.ops[1] >>)
    BY DEF Effect
  <2> QED
    BY <1>1, <1>2, <1>3, <1>4, <2>1, <2>2, <2>3
<1>9. CASE c.op = "echo"
  <2>1. e = Plain("Stdio", c.ops)
    BY <1>9 DEF BindCommand
  <2> QED
    BY <1>1, <1>4, <2>1
<1>10. CASE c.op \notin {"cat", "cp", "mv", "rm", "curl", "echo"}
  BY <1>10 DEF BindCommand, Effect, FlatTop
<1> QED
  BY <1>5, <1>6, <1>7, <1>8, <1>9, <1>10

\* The effects of a program name its words and "cat"; what it moves has a name.
LEMMA BoundTargets ==
  ASSUME NEW p, WellFormedProgram(p)
  PROVE  /\ Named(BoundEffects(p))
         /\ \A t : t # "cat" /\ (\A c \in ToSet(p) : t \notin ToSet(c.ops) \cup {r.target : r \in ToSet(c.redirs)}) =>
              Fresh(BoundEffects(p), t)
<1>1. ASSUME NEW j \in DOMAIN p, NEW e \in EffectsOf(p, j)
      PROVE  /\ e.target.elems \subseteq ToSet(p[j].ops) \cup {r.target : r \in ToSet(p[j].redirs)} \cup {"cat"}
             /\ e.kind = "FSMeta" => e.target.arbitrary \/ e.target.elems # {}
  <2>1. WellFormed(p[j])
    BY DEF WellFormedProgram, ToSet
  <2>2. CASE e \in CallEffects(p, j) /\ p[j].op # "sh"
    BY <2>1, <2>2, CallTargets DEF CallEffects
  <2>3. CASE e \in CallEffects(p, j) /\ p[j].op = "sh"
    BY <2>3 DEF CallEffects, Effect, FlatTop
  <2>4. CASE \E r \in ToSet(p[j].redirs) : e = RedirEffect(r)
    <3>1. PICK r \in ToSet(p[j].redirs) : e = RedirEffect(r)
      BY <2>4
    <3>2. /\ RedirEffect(r).kind \in {"FSWrite", "FSRead", "Stdio"}
          /\ RedirEffect(r).target \in {ScopeOf(<< r.target >>), ScopeOf(<< >>)}
      BY DEF RedirEffect, Plain, Effect
    <3>3. ScopeOf(<< r.target >>).elems \subseteq {r.target} /\ ScopeOf(<< >>).elems = {}
      BY DEF ScopeOf, FlatTop, FlatOf, ToSet
    <3> QED
      BY <3>1, <3>2, <3>3
  <2> QED
    BY <2>2, <2>3, <2>4 DEF EffectsOf
<1>2. \A e \in BoundEffects(p) : \E j \in DOMAIN p : e \in EffectsOf(p, j)
  BY EffectsByCall
<1>3. \A j \in DOMAIN p : p[j] \in ToSet(p)
  BY DEF ToSet
<1>4. Named(BoundEffects(p))
  BY <1>1, <1>2 DEF Named
<1>5. ASSUME NEW t, t # "cat", \A c \in ToSet(p) : t \notin ToSet(c.ops) \cup {r.target : r \in ToSet(c.redirs)},
             NEW e \in BoundEffects(p)
      PROVE  t \notin e.target.elems
  <2>1. PICK j \in DOMAIN p : e \in EffectsOf(p, j)
    BY <1>2
  <2> QED
    BY <1>1, <1>3, <1>5, <2>1
<1> QED
  BY <1>4, <1>5 DEF Fresh

\* What staging adds to the effects as bound.
LEMMA BoundRestages ==
  ASSUME WellFormedProgram(prog), NEW i, NEW tmp, Retriable(i, tmp), tmp # "cat"
  PROVE  /\ Restages(BoundEffects(prog), BoundEffects(Staged(i, tmp)), tmp, Destination(i))
         /\ Fresh(BoundEffects(prog), tmp)
<1> DEFINE T == BoundEffects(prog)
           U == BoundEffects(Staged(i, tmp))
           d == Destination(i)
           W(t) == Plain("FSWrite", << t >>)
           M == Plain("FSMeta", << tmp >>)
<1>1. U = T \cup {W(tmp), M} /\ W(d) \in T
  BY StagedEffects
<1>2. tmp \in Targets /\ d \in Targets /\ Unknown \notin Targets
  BY StagedPair, StagingAssumption, PathsAssumption DEF Retriable
<1>3. \A t \in Targets : /\ W(t).kind = "FSWrite" /\ W(t).target.elems = {t} /\ ~W(t).target.arbitrary
                         /\ SameRow(W(t), W(d))
  BY <1>2 DEF Plain, Effect, ScopeOf, FlatOf, ToSet, SameRow
<1>4. M.kind = "FSMeta" /\ M.target.elems = {tmp} /\ ~M.target.arbitrary
  BY <1>2 DEF Plain, Effect, ScopeOf, FlatOf, ToSet
<1>5. \A e : SameRow(e, e)
  BY DEF SameRow
<1>6. Fresh(T, tmp)
  <2>1. \A c \in ToSet(prog) : tmp \notin ToSet(c.ops) \cup {r.target : r \in ToSet(c.redirs)}
    BY DEF Retriable
  <2> QED
    BY <2>1, BoundTargets
<1> HIDE DEF T, U, W, M, d
<1>7. \A e \in T : \E u \in U : SameRow(e, u)
  BY <1>1, <1>5
<1>8. \A u \in U : u.kind = "FSMeta" \/ \E e \in T : SameRow(u, e)
  BY <1>1, <1>2, <1>3, <1>4, <1>5
<1>9. \A u \in U : u.target.arbitrary => \E e \in T : SameRow(u, e) /\ e.target.arbitrary
  BY <1>1, <1>2, <1>3, <1>4, <1>5
<1>10. \A e \in T : e.target.arbitrary => \E u \in U : SameRow(e, u) /\ u.target.arbitrary
  BY <1>1, <1>5
<1>11. \A e \in T : \A x \in e.target.elems : Says(U, e, x)
  BY <1>1, <1>5 DEF Says
<1>12. ASSUME NEW u \in U, NEW x \in u.target.elems
       PROVE  Says(T, u, x) \/ (x = tmp /\ (u.kind = "FSMeta" \/ (u.kind = "FSWrite" /\ Says(T, u, d))))
  <2>1. CASE u \in T
    BY <1>5, <2>1 DEF Says
  <2>2. CASE u = W(tmp)
    <3>1. x = tmp /\ u.kind = "FSWrite" /\ SameRow(u, W(d)) /\ d \in W(d).target.elems
      BY <1>2, <1>3, <2>2
    <3> QED
      BY <1>1, <3>1 DEF Says
  <2>3. CASE u = M
    BY <1>4, <2>3
  <2> QED
    BY <1>1, <2>1, <2>2, <2>3
<1>13. Restages(T, U, tmp, d)
  BY <1>7, <1>8, <1>9, <1>10, <1>11, <1>12 DEF Restages
<1> QED
  BY <1>6, <1>13 DEF T, U, d

-----------------------------------------------------------------------------
\* What may be retried without a change of key

Ordinary(i, tmp) == Stageable(prog, i) /\ PlainName(tmp)

\* What staging adds to the rows of the report.
LEMMA ReportRestages ==
  ASSUME WellFormedProgram(prog), NEW i, NEW tmp, Retriable(i, tmp), Ordinary(i, tmp)
  PROVE  /\ Restages(ReportEffects(prog), ReportEffects(Staged(i, tmp)), tmp, Destination(i))
         /\ Fresh(ReportEffects(prog), tmp) /\ Named(ReportEffects(prog)) /\ Named(ReportEffects(Staged(i, tmp)))
<1> DEFINE q == Staged(i, tmp)
           d == Destination(i)
<1>1. tmp # "cat" /\ tmp \notin DOMAIN Shares \cup Ambiguous /\ \A t \in DOMAIN Shares : Shares[t] # tmp
  BY DEF Ordinary, Stageable, PlainName
<1>2. WellFormedProgram(q)
  BY StagedProgram DEF Retriable
<1>3. Restages(BoundEffects(prog), BoundEffects(q), tmp, d) /\ Fresh(BoundEffects(prog), tmp)
  BY <1>1, BoundRestages
<1>4. Named(BoundEffects(prog)) /\ Named(BoundEffects(q))
  BY <1>2, BoundTargets
<1> HIDE DEF q, d
<1>5. \A p : WellFormedProgram(p) =>
        /\ \A x \in BoundEffects(p) : Labelled(x)
        /\ \A r \in BoundRows(p) : Labelled(r)
        /\ \A r \in WithSinks(BoundRows(p)) : Labelled(r)
        /\ BoundRows(p) = NormalizeEffects(BoundEffects(p))
        /\ ReportEffects(p) = NormalizeEffects(WithSinks(BoundRows(p)))
  BY ReportRows DEF BoundRows
<1>6. \A p : WellFormedProgram(p) => OneEach(BoundRows(p))
  <2>1. SUFFICES ASSUME NEW p, WellFormedProgram(p) PROVE OneEach(NormalizeEffects(BoundEffects(p)))
    BY <1>5
  <2>2. \A x \in BoundEffects(p) : Labelled(x)
    BY <1>5, <2>1
  <2> QED
    BY <2>2, NormalizedRows DEF OneEach
<1>7. Restages(BoundRows(prog), BoundRows(q), tmp, d)
  BY <1>2, <1>3, <1>5, NormalizeRestages
<1>8. Named(BoundRows(prog)) /\ Named(BoundRows(q)) /\ Fresh(BoundRows(prog), tmp)
  BY <1>2, <1>3, <1>4, <1>5, NormalizeNames
<1>9. Restages(WithSinks(BoundRows(prog)), WithSinks(BoundRows(q)), tmp, d)
  BY <1>1, <1>2, <1>5, <1>6, <1>7, SinksRestage
<1>10. Named(WithSinks(BoundRows(prog))) /\ Named(WithSinks(BoundRows(q))) /\ Fresh(WithSinks(BoundRows(prog)), tmp)
  BY <1>1, <1>2, <1>5, <1>8, SinksNamed
<1>11. Restages(ReportEffects(prog), ReportEffects(q), tmp, d)
  BY <1>2, <1>5, <1>9, NormalizeRestages
<1>12. Named(ReportEffects(prog)) /\ Named(ReportEffects(q)) /\ Fresh(ReportEffects(prog), tmp)
  BY <1>2, <1>5, <1>10, NormalizeNames
<1> QED
  BY <1>11, <1>12 DEF q, d

-----------------------------------------------------------------------------
\* The moves of the program that stages

Found == [moves : Moves, written : SUBSET Words]

\* c moves what some redirection wrote, for the first time.
Takes(acc, c) == c.op = "mv" /\ c.ops[1] # c.ops[2] /\ c.ops[1] \in acc.written \ DOMAIN acc.moves

LEMMA VisitForms ==
  ASSUME NEW acc \in Found, NEW c, WellFormed(c)
  PROVE  /\ Visit(acc, c) \in Found
         /\ Visit(acc, c).written = acc.written \cup WrittenBy(c)
         /\ Takes(acc, c) => Visit(acc, c).moves = Moving(acc.moves, c.ops[1], c.ops[2])
         /\ ~Takes(acc, c) => Visit(acc, c).moves = acc.moves
<1>1. Visit(acc, c) \in Found
  BY VisitType DEF Found
<1>2. Visit(acc, c).written = acc.written \cup WrittenBy(c)
  BY VisitMoves DEF Found
<1>3. "written" \in DOMAIN acc /\ "moves" \in DOMAIN acc
  BY DEF Found
<1>4. c.op = "mv" => MvOperands(c) = << c.ops[1], c.ops[2] >>
  BY CallWords DEF MvOperands, Last
<1>5. CASE Takes(acc, c)
  <2> DEFINE ops == << c.ops[1], c.ops[2] >>
             m == Moving(acc.moves, c.ops[1], c.ops[2])
             a == [acc EXCEPT !.moves = m]
  <2>1. c.op = "mv" /\ ops # << >> /\ ops[1] = c.ops[1] /\ ops[2] = c.ops[2]
    BY <1>5 DEF Takes
  <2>2. m = [t \in DOMAIN acc.moves \cup {ops[1]} |-> IF t = ops[1] THEN ops[2] ELSE acc.moves[t]]
    BY <2>1 DEF Moving
  <2> HIDE DEF ops, m
  <2>3. Staging(acc, ops) = a
    BY <1>5, <2>1, <2>2 DEF Staging, Takes
  <2>4. Visit(acc, c) = [a EXCEPT !.written = @ \cup WrittenBy(c)]
    BY <1>4, <2>1, <2>3 DEF Visit, ops
  <2>5. Visit(acc, c).moves = m
    BY <1>3, <2>4
  <2> QED
    BY <1>1, <1>2, <1>5, <2>5 DEF m
<1>6. CASE ~Takes(acc, c)
  <2>1. c.op = "mv" => Staging(acc, MvOperands(c)) = acc
    BY <1>4, <1>6 DEF Staging, Takes
  <2>2. Visit(acc, c) = [acc EXCEPT !.written = @ \cup WrittenBy(c)]
    BY <2>1 DEF Visit
  <2>3. Visit(acc, c).moves = acc.moves
    BY <1>3, <2>2
  <2> QED
    BY <1>1, <1>2, <1>6, <2>3
<1> QED
  BY <1>5, <1>6

\* y knows what x knows, and the move of tmp to d besides.
Beside(x, y, tmp, d) ==
  /\ y.moves = Moving(x.moves, tmp, d)
  /\ \A t : t \notin {tmp, d} => (t \in y.written <=> t \in x.written)

LEMMA MovingTwice ==
  ASSUME NEW m, NEW s, NEW t, NEW tmp, NEW d, s # tmp
  PROVE  Moving(Moving(m, tmp, d), s, t) = Moving(Moving(m, s, t), tmp, d)
<1> DEFINE D == (DOMAIN m \cup {tmp}) \cup {s}
           E == (DOMAIN m \cup {s}) \cup {tmp}
           v(x) == IF x = tmp THEN d ELSE IF x = s THEN t ELSE m[x]
<1>1. DOMAIN Moving(m, tmp, d) = DOMAIN m \cup {tmp} /\ DOMAIN Moving(m, s, t) = DOMAIN m \cup {s}
  BY DEF Moving
<1>2. Moving(Moving(m, tmp, d), s, t) = [x \in D |-> v(x)]
  BY <1>1 DEF Moving
<1>3. Moving(Moving(m, s, t), tmp, d) = [x \in E |-> v(x)]
  BY <1>1 DEF Moving
<1>4. D = E
  OBVIOUS
<1> QED
  BY <1>2, <1>3, <1>4

\* A call adds the same to both.
LEMMA BesideVisit ==
  ASSUME NEW tmp, NEW d, NEW x \in Found, NEW y \in Found, Beside(x, y, tmp, d),
         NEW c, WellFormed(c), c.op = "mv" => c.ops[1] \notin {tmp, d}
  PROVE  Beside(Visit(x, c), Visit(y, c), tmp, d)
<1>1. /\ Visit(x, c).written = x.written \cup WrittenBy(c)
      /\ Takes(x, c) => Visit(x, c).moves = Moving(x.moves, c.ops[1], c.ops[2])
      /\ ~Takes(x, c) => Visit(x, c).moves = x.moves
  BY VisitForms
<1>2. /\ Visit(y, c).written = y.written \cup WrittenBy(c)
      /\ Takes(y, c) => Visit(y, c).moves = Moving(y.moves, c.ops[1], c.ops[2])
      /\ ~Takes(y, c) => Visit(y, c).moves = y.moves
  BY VisitForms
<1>3. DOMAIN y.moves = DOMAIN x.moves \cup {tmp}
  BY DEF Beside, Moving
<1>4. Takes(x, c) <=> Takes(y, c)
  BY <1>3 DEF Takes, Beside
<1>5. Takes(x, c) => Visit(y, c).moves = Moving(Visit(x, c).moves, tmp, d)
  <2>1. SUFFICES ASSUME Takes(x, c) PROVE Visit(y, c).moves = Moving(Visit(x, c).moves, tmp, d)
    OBVIOUS
  <2>2. c.ops[1] # tmp
    BY <2>1 DEF Takes
  <2>3. Visit(y, c).moves = Moving(Moving(x.moves, tmp, d), c.ops[1], c.ops[2])
    BY <1>2, <1>4, <2>1 DEF Beside
  <2>4. Visit(x, c).moves = Moving(x.moves, c.ops[1], c.ops[2])
    BY <1>1, <2>1
  <2> QED
    BY <2>2, <2>3, <2>4, MovingTwice
<1>6. ~Takes(x, c) => Visit(y, c).moves = Moving(Visit(x, c).moves, tmp, d)
  BY <1>1, <1>2, <1>4 DEF Beside
<1>7. \A t : t \notin {tmp, d} => (t \in Visit(y, c).written <=> t \in Visit(x, c).written)
  BY <1>1, <1>2 DEF Beside
<1> QED
  BY <1>5, <1>6, <1>7 DEF Beside

\* The calls either program records.
LEMMA StagedRecorded ==
  ASSUME WellFormedProgram(prog), NEW i, NEW tmp, Retriable(i, tmp), Ordinary(i, tmp), NEW q, q = Staged(i, tmp)
  PROVE  /\ \A j \in 1 .. i - 1 : Recorded(q, j) <=> Recorded(prog, j)
         /\ Recorded(q, i) /\ Recorded(q, i + 1)
         /\ Recorded(prog, i) \/ prog[i].op # "mv"
         /\ \A j \in i + 1 .. Len(prog) :
              /\ Recorded(prog, j) => Recorded(q, j + 1)
              /\ Recorded(q, j + 1) => Recorded(prog, j) \/ (prog[j] = prog[i] /\ prog[i].op # "mv")
<1>1. i \in 1 .. Len(prog) /\ Len(prog) \in Nat /\ DOMAIN prog = 1 .. Len(prog)
  BY DEF Retriable, WellFormedProgram
<1>2. /\ \A j \in 1 .. i - 1 : q[j] = prog[j]
      /\ q[i] = Redirected(i, tmp) /\ q[i + 1] = Mover(i, tmp)
      /\ \A j \in i + 1 .. Len(prog) : q[j + 1] = prog[j]
  BY StagedCalls
<1>3. /\ Redirected(i, tmp).op = prog[i].op /\ Redirected(i, tmp).ops = prog[i].ops
      /\ Redirected(i, tmp).redirs = << To(tmp) >>
  BY StagedPair
<1>4. Mover(i, tmp).op = "mv" /\ Mover(i, tmp).ops = << tmp, Destination(i) >>
  BY DEF Mover, Call
<1>5. \A c \in ToSet(prog) : tmp \notin ToSet(c.ops) /\ tmp \notin {r.target : r \in ToSet(c.redirs)}
  BY DEF Retriable
<1>6. \A j \in 1 .. Len(prog) : prog[j] \in ToSet(prog)
  BY <1>1 DEF ToSet
<1>7. tmp \in {r.target : r \in ToSet(<< To(tmp) >>)} /\ tmp \in ToSet(<< tmp, Destination(i) >>)
  <2>1. ToSet(<< To(tmp) >>) = {To(tmp)} /\ To(tmp).target = tmp
    BY DEF ToSet, To
  <2>2. << tmp, Destination(i) >>[1] = tmp /\ 1 \in DOMAIN << tmp, Destination(i) >>
    OBVIOUS
  <2> QED
    BY <2>1, <2>2 DEF ToSet
<1>8. /\ \A c \in ToSet(prog) : c # Redirected(i, tmp) /\ c # Mover(i, tmp)
      /\ Redirected(i, tmp) # Mover(i, tmp)
  BY <1>1, <1>3, <1>4, <1>5, <1>6, <1>7
<1>9. prog[i].op # "sh" /\ (prog[i].op = "mv" => \A j \in DOMAIN prog : prog[j] = prog[i] => j = i)
  BY DEF Ordinary, Stageable, PlainName
<1>10. \A k \in 1 .. i - 1 : k \in 1 .. Len(prog) /\ q[k] = prog[k]
  BY <1>1, <1>2
<1>11. ASSUME NEW j \in 1 .. i - 1 PROVE Recorded(q, j) <=> Recorded(prog, j)
  <2>1. q[j] = prog[j] /\ \A k \in 1 .. j - 1 : q[k] = prog[k]
    <3>1. \A k \in 1 .. j - 1 : k \in 1 .. i - 1
      BY <1>1
    <3> QED
      BY <1>2, <3>1
  <2> QED
    BY <2>1 DEF Recorded
<1>12. Recorded(q, i)
  <2>1. \A k \in 1 .. i - 1 : q[k] # q[i]
    BY <1>2, <1>6, <1>8, <1>10
  <2> QED
    BY <1>2, <1>3, <1>9, <2>1 DEF Recorded
<1>13. Recorded(q, i + 1)
  <2>1. \A k \in 1 .. (i + 1) - 1 : k \in 1 .. i - 1 \/ k = i
    BY <1>1
  <2>2. \A k \in 1 .. (i + 1) - 1 : q[k] # q[i + 1]
    BY <1>2, <1>6, <1>8, <1>10, <2>1
  <2> QED
    BY <1>2, <1>4, <2>2 DEF Recorded
<1>14. Recorded(prog, i) \/ prog[i].op # "mv"
  <2>1. SUFFICES ASSUME prog[i].op = "mv" PROVE \A k \in 1 .. i - 1 : prog[k] # prog[i]
    BY <1>9 DEF Recorded
  <2>2. \A k \in 1 .. i - 1 : k \in DOMAIN prog /\ k # i
    BY <1>1
  <2> QED
    BY <1>9, <2>1, <2>2
<1>15. ASSUME NEW j \in i + 1 .. Len(prog)
       PROVE  /\ Recorded(prog, j) => Recorded(q, j + 1)
              /\ Recorded(q, j + 1) => Recorded(prog, j) \/ (prog[j] = prog[i] /\ prog[i].op # "mv")
  <2>1. q[j + 1] = prog[j] /\ j \in 1 .. Len(prog) /\ j # i
    BY <1>1, <1>2
  <2>2. \A k \in 1 .. (j + 1) - 1 : k \in 1 .. i - 1 \/ k = i \/ k = i + 1 \/ k - 1 \in i + 1 .. j - 1
    BY <1>1
  <2>3. \A k \in i + 1 .. j - 1 : k \in i + 1 .. Len(prog) /\ k + 1 \in 1 .. (j + 1) - 1 /\ q[k + 1] = prog[k]
    BY <1>1, <1>2
  <2>4. Recorded(prog, j) => Recorded(q, j + 1)
    <3>1. SUFFICES ASSUME Recorded(prog, j), NEW k \in 1 .. (j + 1) - 1 PROVE q[k] # prog[j]
      BY <2>1 DEF Recorded
    <3>2. CASE k \in 1 .. i - 1
      <4>1. k \in 1 .. j - 1 /\ q[k] = prog[k]
        BY <1>1, <1>2, <3>2
      <4> QED
        BY <3>1, <4>1 DEF Recorded
    <3>3. CASE k = i \/ k = i + 1
      BY <1>2, <1>6, <1>8, <2>1, <3>3
    <3>4. CASE k - 1 \in i + 1 .. j - 1
      <4>1. (k - 1) + 1 = k /\ k - 1 \in 1 .. j - 1
        BY <1>1, <3>4
      <4>2. q[k] = prog[k - 1]
        BY <2>3, <3>4, <4>1
      <4> QED
        BY <3>1, <4>1, <4>2 DEF Recorded
    <3> QED
      BY <2>2, <3>2, <3>3, <3>4
  <2>5. Recorded(q, j + 1) => Recorded(prog, j) \/ (prog[j] = prog[i] /\ prog[i].op # "mv")
    <3>1. SUFFICES ASSUME Recorded(q, j + 1), prog[j] # prog[i], NEW k \in 1 .. j - 1 PROVE prog[k] # prog[j]
      <4>1. prog[j] = prog[i] => prog[i].op # "mv"
        BY <1>1, <1>9, <2>1
      <4>2. Recorded(q, j + 1) => prog[j].op # "sh"
        BY <2>1 DEF Recorded
      <4> QED
        BY <4>1, <4>2 DEF Recorded
    <3>2. CASE k \in 1 .. i - 1
      <4>1. k \in 1 .. (j + 1) - 1 /\ q[k] = prog[k]
        BY <1>1, <1>2, <3>2
      <4> QED
        BY <2>1, <3>1, <4>1 DEF Recorded
    <3>3. CASE k = i
      BY <3>1, <3>3
    <3>4. CASE k \in i + 1 .. j - 1
      BY <2>1, <2>3, <3>1, <3>4 DEF Recorded
    <3>5. k \in 1 .. i - 1 \/ k = i \/ k \in i + 1 .. j - 1
      BY <1>1
    <3> QED
      BY <3>2, <3>3, <3>4, <3>5
  <2> QED
    BY <2>4, <2>5
<1> QED
  BY <1>11, <1>12, <1>13, <1>14, <1>15

\* The two calls add the move of tmp to what is known before them.
LEMMA PairVisited ==
  ASSUME WellFormedProgram(prog), NEW i, NEW tmp, Retriable(i, tmp), Ordinary(i, tmp),
         NEW x \in Found, tmp \notin DOMAIN x.moves
  PROVE  Beside(IF Recorded(prog, i) THEN Visit(x, prog[i]) ELSE x,
                Visit(Visit(x, Redirected(i, tmp)), Mover(i, tmp)), tmp, Destination(i))
<1> DEFINE c == prog[i]
           r == Redirected(i, tmp)
           m == Mover(i, tmp)
           d == Destination(i)
           y == Visit(x, r)
           z == Visit(y, m)
<1>1. i \in 1 .. Len(prog) /\ Len(prog) \in Nat /\ DOMAIN Staged(i, tmp) = 1 .. Len(prog) + 1
  BY StagedCalls DEF Retriable, WellFormedProgram
<1>2. WellFormed(c) /\ WellFormed(r) /\ WellFormed(m)
  <2>1. WellFormedProgram(Staged(i, tmp))
    BY StagedProgram DEF Retriable
  <2>2. Staged(i, tmp)[i] = r /\ Staged(i, tmp)[i + 1] = m
    BY StagedCalls
  <2>3. i \in DOMAIN Staged(i, tmp) /\ i + 1 \in DOMAIN Staged(i, tmp) /\ i \in DOMAIN prog
    BY <1>1 DEF Retriable
  <2>4. r \in ToSet(Staged(i, tmp)) /\ m \in ToSet(Staged(i, tmp)) /\ c \in ToSet(prog)
    BY <2>2, <2>3 DEF ToSet
  <2> HIDE DEF r, m, c
  <2> QED
    BY <2>1, <2>4 DEF WellFormedProgram
<1>3. /\ r.op = c.op /\ r.ops = c.ops /\ r.redirs = << To(tmp) >> /\ ToSet(c.redirs) = {To(d)} /\ d \in Targets
  BY StagedPair
<1>4. m.op = "mv" /\ m.ops[1] = tmp /\ m.ops[2] = d /\ m.redirs = << >>
  BY DEF Mover, Call
<1>5. /\ c \in ToSet(prog) /\ tmp \notin ToSet(c.ops)
      /\ tmp \notin {w.target : w \in ToSet(c.redirs)}
  BY <1>1 DEF Retriable, ToSet
<1>6. d # tmp
  <2>1. To(d).target = d
    BY DEF To
  <2> QED
    BY <1>3, <1>5, <2>1
<1>7. WrittenBy(r) = {tmp} /\ WrittenBy(c) = {d} /\ WrittenBy(m) = {}
  <2>1. \A t : To(t).op \in WriteOps /\ To(t).target = t
    BY DEF To, WriteOps
  <2>2. ToSet(r.redirs) = {To(tmp)} /\ ToSet(m.redirs) = {}
    BY <1>3, <1>4 DEF ToSet
  <2> HIDE DEF r, m, c
  <2> QED
    BY <1>3, <2>1, <2>2 DEF WrittenBy
<1>8. Recorded(prog, i) \/ c.op # "mv"
  BY StagedRecorded
<1>9. c.op = "mv" => c.ops[1] # tmp
  <2>1. c.op = "mv" => 1 \in DOMAIN c.ops
    BY <1>2, CallWords
  <2> QED
    BY <1>5, <2>1 DEF ToSet
<1> HIDE DEF c, r, m, d
<1>10. /\ y \in Found /\ y.written = x.written \cup {tmp}
       /\ Takes(x, r) => y.moves = Moving(x.moves, r.ops[1], r.ops[2])
       /\ ~Takes(x, r) => y.moves = x.moves
  BY <1>2, <1>7, VisitForms
<1> HIDE DEF y
<1>11. /\ z.written = y.written \cup {}
       /\ Takes(y, m) => z.moves = Moving(y.moves, m.ops[1], m.ops[2])
  BY <1>2, <1>7, <1>10, VisitForms
<1> HIDE DEF z
<1>12. tmp \notin DOMAIN y.moves
  <2>1. Takes(x, r) => r.ops[1] # tmp
    BY <1>3, <1>9 DEF Takes
  <2> QED
    BY <1>10, <2>1 DEF Moving
<1>13. Takes(y, m)
  BY <1>4, <1>6, <1>10, <1>12 DEF Takes
<1>14. z.moves = Moving(y.moves, tmp, d) /\ z.written = x.written \cup {tmp}
  BY <1>4, <1>10, <1>11, <1>13
<1>15. Takes(x, c) <=> Takes(x, r)
  BY <1>3 DEF Takes
<1>16. CASE Recorded(prog, i)
  <2>1. /\ Visit(x, c).written = x.written \cup {d}
        /\ Takes(x, c) => Visit(x, c).moves = Moving(x.moves, c.ops[1], c.ops[2])
        /\ ~Takes(x, c) => Visit(x, c).moves = x.moves
    BY <1>2, <1>7, VisitForms
  <2>2. Visit(x, c).moves = y.moves
    BY <1>3, <1>10, <1>15, <2>1
  <2>3. Beside(Visit(x, c), z, tmp, d)
    BY <1>14, <2>1, <2>2 DEF Beside
  <2> QED
    BY <1>16, <2>3 DEF z, y, c, r, m, d
<1>17. CASE ~Recorded(prog, i)
  <2>1. x.moves = y.moves
    BY <1>8, <1>10, <1>15, <1>17 DEF Takes
  <2>2. Beside(x, z, tmp, d)
    BY <1>14, <2>1 DEF Beside
  <2> QED
    BY <1>17, <2>2 DEF z, y, r, m, d
<1> QED
  BY <1>16, <1>17

\* The moves of the program that stages are those of the other, and that of tmp.
LEMMA StagedMoves ==
  ASSUME WellFormedProgram(prog), NEW i, NEW tmp, Retriable(i, tmp), Ordinary(i, tmp)
  PROVE  /\ StagingDestinations(Staged(i, tmp)) = Moving(StagingDestinations(prog), tmp, Destination(i))
         /\ tmp \notin DOMAIN StagingDestinations(prog) /\ Destination(i) \notin DOMAIN StagingDestinations(prog)
<1> DEFINE N == Len(prog)
           q == Staged(i, tmp)
           d == Destination(i)
<1>1. i \in 1 .. N /\ N \in Nat /\ DOMAIN prog = 1 .. N /\ \A j \in 1 .. N : WellFormed(prog[j]) /\ prog[j] \in ToSet(prog)
  BY DEF Retriable, WellFormedProgram, ToSet
<1>2. /\ Len(q) = N + 1
      /\ \A j \in 1 .. i - 1 : q[j] = prog[j]
      /\ q[i] = Redirected(i, tmp) /\ q[i + 1] = Mover(i, tmp)
      /\ \A j \in i + 1 .. N : q[j + 1] = prog[j]
  BY StagedCalls
<1>3. /\ \A j \in 1 .. i - 1 : Recorded(q, j) <=> Recorded(prog, j)
      /\ Recorded(q, i) /\ Recorded(q, i + 1)
      /\ \A j \in i + 1 .. N :
           /\ Recorded(prog, j) => Recorded(q, j + 1)
           /\ Recorded(q, j + 1) => Recorded(prog, j) \/ (prog[j] = prog[i] /\ prog[i].op # "mv")
  BY StagedRecorded
<1>4. WellFormedProgram(q)
  BY StagedProgram DEF Retriable
<1>5. \A j \in 1 .. N : prog[j].op = "mv" => prog[j].ops[1] # tmp /\ prog[j].ops[1] # d
  <2>1. SUFFICES ASSUME NEW j \in 1 .. N, prog[j].op = "mv" PROVE prog[j].ops[1] # tmp /\ prog[j].ops[1] # d
    OBVIOUS
  <2>2. prog[j] \in ToSet(prog) /\ WellFormed(prog[j])
    BY <1>1
  <2>3. prog[j].ops[1] \in ToSet(prog[j].ops)
    <3>1. Len(prog[j].ops) = 2 /\ DOMAIN prog[j].ops = 1 .. Len(prog[j].ops)
      BY <2>1, <2>2, CallWords
    <3>2. 1 \in DOMAIN prog[j].ops
      BY <3>1
    <3> QED
      BY <3>2 DEF ToSet
  <2> QED
    BY <2>1, <2>2, <2>3 DEF Retriable, Destination
<1>6. PICK a \in [0 .. N -> Found] :
        /\ a[0] = [moves |-> [t \in {} |-> t], written |-> {}]
        /\ \A j \in 1 .. N : a[j] = IF Recorded(prog, j) THEN Visit(a[j - 1], prog[j]) ELSE a[j - 1]
        /\ StagedIn(prog, {}) = a[N].moves
  BY StagedFold DEF Found
<1>7. PICK b \in [0 .. N + 1 -> Found] :
        /\ b[0] = [moves |-> [t \in {} |-> t], written |-> {}]
        /\ \A j \in 1 .. N + 1 : b[j] = IF Recorded(q, j) THEN Visit(b[j - 1], q[j]) ELSE b[j - 1]
        /\ StagedIn(q, {}) = b[N + 1].moves
  <2>1. PICK b \in [0 .. Len(q) -> Found] :
          /\ b[0] = [moves |-> [t \in {} |-> t], written |-> {}]
          /\ \A j \in 1 .. Len(q) : b[j] = IF Recorded(q, j) THEN Visit(b[j - 1], q[j]) ELSE b[j - 1]
          /\ StagedIn(q, {}) = b[Len(q)].moves
    <3> HIDE DEF q
    <3> QED
      BY <1>4, StagedFold DEF Found
  <2> HIDE DEF q, N
  <2> QED
    BY <1>2, <2>1
<1> HIDE DEF N, q, d
\* tmp is not yet moved.
<1> DEFINE A == {n \in Nat : n <= N => tmp \notin DOMAIN a[n].moves /\ d \notin DOMAIN a[n].moves}
<1>8. 0 \in A
  BY <1>6
<1>9. ASSUME NEW n \in Nat, n \in A PROVE n + 1 \in A
  <2>1. SUFFICES ASSUME n + 1 <= N PROVE tmp \notin DOMAIN a[n + 1].moves /\ d \notin DOMAIN a[n + 1].moves
    OBVIOUS
  <2>2. n + 1 \in 1 .. N /\ n \in 0 .. N /\ (n + 1) - 1 = n /\ tmp \notin DOMAIN a[n].moves /\ d \notin DOMAIN a[n].moves
    BY <1>1, <1>9, <2>1
  <2>3. a[n] \in Found /\ a[n + 1] = IF Recorded(prog, n + 1) THEN Visit(a[n], prog[n + 1]) ELSE a[n]
    BY <1>6, <2>2
  <2>4. /\ Takes(a[n], prog[n + 1]) =>
             Visit(a[n], prog[n + 1]).moves = Moving(a[n].moves, prog[n + 1].ops[1], prog[n + 1].ops[2])
        /\ ~Takes(a[n], prog[n + 1]) => Visit(a[n], prog[n + 1]).moves = a[n].moves
    BY <1>1, <2>2, <2>3, VisitForms
  <2>5. Takes(a[n], prog[n + 1]) => prog[n + 1].ops[1] # tmp /\ prog[n + 1].ops[1] # d
    BY <1>5, <2>2 DEF Takes
  <2> HIDE DEF A
  <2> QED
    BY <2>2, <2>3, <2>4, <2>5 DEF Moving
<1>10. \A n \in 0 .. N : tmp \notin DOMAIN a[n].moves /\ d \notin DOMAIN a[n].moves
  <2>1. Nat \subseteq A
    <3> HIDE DEF A
    <3> QED
      BY <1>8, <1>9, SetInduction
  <2> QED
    BY <1>1, <2>1
\* Before the two calls the programs are one.
<1> DEFINE B == {n \in Nat : n <= i - 1 => b[n] = a[n]}
<1>11. 0 \in B
  BY <1>6, <1>7
<1>12. ASSUME NEW n \in Nat, n \in B PROVE n + 1 \in B
  <2>1. SUFFICES ASSUME n + 1 <= i - 1 PROVE b[n + 1] = a[n + 1]
    OBVIOUS
  <2>2. /\ n + 1 \in 1 .. N /\ n + 1 \in 1 .. N + 1 /\ n + 1 \in 1 .. i - 1 /\ (n + 1) - 1 = n
        /\ b[n] = a[n]
    BY <1>1, <1>12, <2>1
  <2> HIDE DEF B
  <2>3. /\ a[n + 1] = IF Recorded(prog, n + 1) THEN Visit(a[n], prog[n + 1]) ELSE a[n]
        /\ b[n + 1] = IF Recorded(q, n + 1) THEN Visit(b[n], q[n + 1]) ELSE b[n]
    BY <1>6, <1>7, <2>2
  <2> QED
    BY <1>2, <1>3, <2>2, <2>3
<1>13. b[i - 1] = a[i - 1]
  <2>1. Nat \subseteq B
    <3> HIDE DEF B
    <3> QED
      BY <1>11, <1>12, SetInduction
  <2>2. i - 1 \in Nat /\ i - 1 <= i - 1
    BY <1>1
  <2> QED
    BY <2>1, <2>2
\* After them, the program that stages knows the move of tmp besides.
<1>14. Beside(a[i], b[i + 1], tmp, d)
  <2>1. /\ i \in 1 .. N /\ i \in 1 .. N + 1 /\ i + 1 \in 1 .. N + 1 /\ (i + 1) - 1 = i /\ i - 1 \in 0 .. N
    BY <1>1
  <2>2. a[i] = IF Recorded(prog, i) THEN Visit(a[i - 1], prog[i]) ELSE a[i - 1]
    BY <1>6, <2>1
  <2>3. b[i] = Visit(a[i - 1], Redirected(i, tmp))
    BY <1>2, <1>3, <1>7, <1>13, <2>1
  <2>4. b[i + 1] = Visit(b[i], Mover(i, tmp))
    BY <1>2, <1>3, <1>7, <2>1
  <2>5. a[i - 1] \in Found /\ tmp \notin DOMAIN a[i - 1].moves
    BY <1>6, <1>10, <2>1
  <2>6. Beside(IF Recorded(prog, i) THEN Visit(a[i - 1], prog[i]) ELSE a[i - 1],
               Visit(Visit(a[i - 1], Redirected(i, tmp)), Mover(i, tmp)), tmp, Destination(i))
    BY <2>5, PairVisited
  <2> QED
    BY <2>2, <2>3, <2>4, <2>6 DEF d
<1> DEFINE C == {n \in Nat : i + n <= N => Beside(a[i + n], b[(i + n) + 1], tmp, d)}
<1>15. 0 \in C
  BY <1>1, <1>14
<1>16. ASSUME NEW n \in Nat, n \in C PROVE n + 1 \in C
  <2> DEFINE j == i + (n + 1)
  <2>1. SUFFICES ASSUME j <= N PROVE Beside(a[j], b[j + 1], tmp, d)
    OBVIOUS
  <2>2. /\ j \in 1 .. N /\ j + 1 \in 1 .. N + 1 /\ j \in i + 1 .. N /\ j - 1 = i + n /\ (j + 1) - 1 = j
        /\ j - 1 \in 0 .. N /\ j \in 0 .. N + 1 /\ (i + n) + 1 = j
    BY <1>1, <2>1
  <2>3. Beside(a[j - 1], b[j], tmp, d)
    BY <1>16, <2>1, <2>2
  <2> HIDE DEF C, j
  <2>4. a[j] = IF Recorded(prog, j) THEN Visit(a[j - 1], prog[j]) ELSE a[j - 1]
    BY <1>6, <2>2
  <2>5. b[j + 1] = IF Recorded(q, j + 1) THEN Visit(b[j], prog[j]) ELSE b[j]
    BY <1>2, <1>7, <2>2
  <2>6. a[j - 1] \in Found /\ b[j] \in Found /\ WellFormed(prog[j])
    BY <1>1, <1>6, <1>7, <2>2
  <2>7. /\ Recorded(prog, j) => Recorded(q, j + 1)
        /\ Recorded(q, j + 1) => Recorded(prog, j) \/ (prog[j] = prog[i] /\ prog[i].op # "mv")
    BY <1>3, <2>2
  <2>8. prog[j].op = "mv" => prog[j].ops[1] \notin {tmp, d}
    BY <1>5, <2>2
  <2>9. CASE Recorded(prog, j)
    <3>1. Beside(Visit(a[j - 1], prog[j]), Visit(b[j], prog[j]), tmp, d)
      BY <2>3, <2>6, <2>8, BesideVisit
    <3> QED
      BY <2>4, <2>5, <2>7, <2>9, <3>1
  <2>10. CASE ~Recorded(prog, j) /\ Recorded(q, j + 1)
    <3>1. prog[j] = prog[i] /\ prog[i].op # "mv"
      BY <2>7, <2>10
    <3>2. WrittenBy(prog[i]) \subseteq {d}
      <4>1. ToSet(prog[i].redirs) = {To(d)} /\ To(d).target = d
        BY StagedPair DEF d, To
      <4> QED
        BY <4>1 DEF WrittenBy
    <3>3. Visit(b[j], prog[j]).moves = b[j].moves /\ Visit(b[j], prog[j]).written = b[j].written \cup WrittenBy(prog[j])
      BY <2>6, <3>1, VisitForms DEF Takes
    <3>4. Beside(a[j - 1], Visit(b[j], prog[j]), tmp, d)
      BY <2>3, <3>1, <3>2, <3>3 DEF Beside
    <3> QED
      BY <2>4, <2>5, <2>10, <3>4
  <2>11. CASE ~Recorded(prog, j) /\ ~Recorded(q, j + 1)
    BY <2>3, <2>4, <2>5, <2>11
  <2> QED
    BY <2>9, <2>10, <2>11
<1>17. Beside(a[N], b[N + 1], tmp, d)
  <2>1. Nat \subseteq C
    <3> HIDE DEF C
    <3> QED
      BY <1>15, <1>16, SetInduction
  <2>2. N - i \in Nat /\ i + (N - i) = N /\ N <= N
    BY <1>1
  <2>3. i + (N - i) <= N => Beside(a[i + (N - i)], b[(i + (N - i)) + 1], tmp, d)
    BY <2>1, <2>2
  <2> HIDE DEF C
  <2> QED
    BY <2>2, <2>3
<1>18. N \in 0 .. N
  BY <1>1
<1>19. StagedIn(q, {}) = Moving(StagedIn(prog, {}), tmp, d)
  BY <1>6, <1>7, <1>17 DEF Beside
<1>20. tmp \notin DOMAIN StagedIn(prog, {}) /\ d \notin DOMAIN StagedIn(prog, {})
  BY <1>6, <1>10, <1>18
<1> QED
  BY <1>19, <1>20 DEF StagingDestinations, q, d

-----------------------------------------------------------------------------
\* The key

LEMMA RetryKey ==
  ASSUME WellFormedProgram(prog), NEW i, NEW tmp, Retriable(i, tmp), Ordinary(i, tmp)
  PROVE  AnalyzeBash(Staged(i, tmp)).key = AnalyzeBash(prog).key
<1> DEFINE q == Staged(i, tmp)
           d == Destination(i)
           S == ReportEffects(prog)
           T == ReportEffects(q)
           m == StagingDestinations(prog)
           n == StagingDestinations(q)
           V == CanonicalRows(S, m)
           W == CanonicalRows(T, n)
<1>1. WellFormedProgram(q)
  BY StagedProgram DEF Retriable
<1>2. n = Moving(m, tmp, d) /\ tmp \notin DOMAIN m /\ d \notin DOMAIN m
  BY StagedMoves
<1>3. /\ Restages(S, T, tmp, d) /\ Fresh(S, tmp) /\ Named(S) /\ Named(T)
  BY ReportRestages
<1>4. (\A e \in S : Labelled(e)) /\ OneEach(S)
  BY ReportRows DEF OneEach
<1>5. (\A e \in T : Labelled(e)) /\ OneEach(T)
  <2> HIDE DEF q
  <2> QED
    BY <1>1, ReportRows DEF OneEach
<1>6. m \in Moves /\ n \in Moves
  BY <1>1, StagedType DEF StagingDestinations
<1> HIDE DEF q, d, S, T, m, n
<1>7. Matches(V, W) /\ Matches(W, V)
  BY <1>2, <1>3, <1>4, <1>5, RestagedRowsMatch
<1>8. OneEach(V) /\ \A e \in V : Labelled(e)
  BY <1>4, <1>6, CanonicalForms, CanonicalLabelled
<1>9. OneEach(W) /\ \A e \in W : Labelled(e)
  BY <1>5, <1>6, CanonicalForms, CanonicalLabelled
<1> HIDE DEF V, W
<1>10. /\ Matches(V, NormalizeEffects(V)) /\ Matches(NormalizeEffects(V), V)
       /\ OneEach(NormalizeEffects(V)) /\ \A e \in NormalizeEffects(V) : Labelled(e)
  BY <1>8, SinglesMatch
<1>11. /\ Matches(W, NormalizeEffects(W)) /\ Matches(NormalizeEffects(W), W)
       /\ OneEach(NormalizeEffects(W)) /\ \A e \in NormalizeEffects(W) : Labelled(e)
  BY <1>9, SinglesMatch
<1>12. Matches(NormalizeEffects(V), NormalizeEffects(W)) /\ Matches(NormalizeEffects(W), NormalizeEffects(V))
  BY <1>7, <1>10, <1>11, MatchesTransitive
<1>13. CanonicalKey(NormalizeEffects(V)) = CanonicalKey(NormalizeEffects(W))
  BY <1>10, <1>11, <1>12, KeyOfRows
<1>14. AnalyzeBash(prog).key = CanonicalKey(NormalizeEffects(V))
  BY DEF AnalyzeBash, WithRows, Assemble, BuildCanonical, V, S, m
<1>15. AnalyzeBash(q).key = CanonicalKey(NormalizeEffects(W))
  BY DEF AnalyzeBash, WithRows, Assemble, BuildCanonical, W, T, n
<1> QED
  BY <1>13, <1>14, <1>15 DEF q

\* A retry stages the redirection of one call.
LEMMA RetryIsRetriable ==
  ASSUME NEW i \in DOMAIN prog, NEW tmp \in StagingNames, Retry(i, tmp)
  PROVE  Retriable(i, tmp)
BY DEF Retry, Retriable

\* The step that stages keeps the key.
LEMMA RetryStep ==
  ASSUME IInv, NEW i \in DOMAIN prog, NEW tmp \in StagingNames, Retry(i, tmp), Ordinary(i, tmp)
  PROVE  report'.key = before'.key
<1>1. WellFormedProgram(prog) /\ report = AnalyzeBash(prog)
  BY DEF IInv, Retry
<1>2. prog' = Staged(i, tmp) /\ report' = AnalyzeBash(prog') /\ before' = report
  BY DEF Retry
<1>3. AnalyzeBash(Staged(i, tmp)).key = AnalyzeBash(prog).key
  BY <1>1, RetryIsRetriable, RetryKey
<1> QED
  BY <1>1, <1>2, <1>3

\* Whatever the program, the command whose output is staged and the name it is
\* staged under: the retry has the key of the program that writes in place,
\* unless the command is a sink of a pipeline or a move made twice, or the name
\* is a share or a host (canonical.go, stagingDestinations, canonicalTarget).
THEOREM OrdinaryRetryKeepsKey ==
  Spec => [][\A i \in DOMAIN prog, tmp \in StagingNames :
               Retry(i, tmp) /\ Stageable(prog, i) /\ PlainName(tmp) => RetryKeepsKey']_vars
<1>1. IInv /\ [Next]_vars =>
        [\A i \in DOMAIN prog, tmp \in StagingNames :
           Retry(i, tmp) /\ Stageable(prog, i) /\ PlainName(tmp) => RetryKeepsKey']_vars
  BY RetryStep DEF RetryKeepsKey, Ordinary
<1> QED
  BY <1>1, Invariance, PTL DEF Spec

\* A program that has not been changed is one of those there are.
Original == phase \in {"loaded", "analyzed"} => \E S \in Programs : prog \in S

LEMMA OriginalStep == Original /\ [Next]_vars => Original'
<1>1. SUFFICES ASSUME Original, [Next]_vars, phase' \in {"loaded", "analyzed"}
               PROVE  phase \in {"loaded", "analyzed"} /\ prog' = prog
  BY DEF Original
<1>2. CASE Analyze
  BY <1>2 DEF Analyze
<1>3. CASE \E c \in Extensions : Extend(c)
  BY <1>1, <1>3 DEF Extend
<1>4. CASE \E i \in DOMAIN prog, tmp \in StagingNames : Retry(i, tmp)
  BY <1>1, <1>4 DEF Retry
<1>5. CASE phase = "analyzed" /\ RunShell /\ UNCHANGED << report, before, phase >>
  <2>1. UNCHANGED prog
    BY <1>5 DEF RunShell, Start, OpenNext, RunCall, FailCall
  <2> QED
    BY <1>1, <1>5, <2>1
<1>6. CASE UNCHANGED vars
  BY <1>1, <1>6 DEF vars
<1> QED
  BY <1>1, <1>2, <1>3, <1>4, <1>5, <1>6 DEF Next, Over

\* A program whose output is staged in a file and moved has the key of the
\* program that writes it in place, whatever the programs, when those that may
\* be retried are ordinary (canonical.go:74).
THEOREM RetriesKeepTheKey ==
  ASSUME OrdinaryRetries
  PROVE  Spec => []RetryKeepsKey
<1>1. Init => Original /\ RetryKeepsKey
  BY DEF Init, AnalyzeInit, Original, RetryKeepsKey
<1>2. IInv /\ Original /\ RetryKeepsKey /\ [Next]_vars => RetryKeepsKey'
  <2>1. SUFFICES ASSUME IInv, Original, RetryKeepsKey, [Next]_vars, phase' = "retried"
                 PROVE  report'.key = before'.key
    BY DEF RetryKeepsKey
  <2>2. CASE \E i \in DOMAIN prog, tmp \in StagingNames : Retry(i, tmp)
    <3>1. PICK i \in DOMAIN prog, tmp \in StagingNames : Retry(i, tmp)
      BY <2>2
    <3>2. PICK S \in Programs : prog \in S
      BY <2>1, <3>1 DEF Original, Retry
    <3>3. Len(prog[i].redirs) = 1 /\ prog[i].redirs[1].op = ">"
      BY <3>1 DEF Retry
    <3>4. Ordinary(i, tmp)
      BY <3>2, <3>3 DEF OrdinaryRetries, Ordinary
    <3> QED
      BY <2>1, <3>1, <3>4, RetryStep
  <2>3. CASE UNCHANGED vars
    BY <2>1, <2>3 DEF RetryKeepsKey, vars
  <2>4. CASE Analyze \/ (\E c \in Extensions : Extend(c)) \/ (phase = "analyzed" /\ UNCHANGED phase)
    BY <2>1, <2>4 DEF Analyze, Extend
  <2> QED
    BY <2>1, <2>2, <2>3, <2>4 DEF Next, Over
<1>3. IInv /\ Original /\ RetryKeepsKey /\ [Next]_vars => (IInv /\ Original /\ RetryKeepsKey)'
  BY <1>2, InvStep, OriginalStep
<1> QED
  BY <1>1, <1>3, InvInit, PTL DEF Spec
=============================================================================
