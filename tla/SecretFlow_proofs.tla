-------------------------- MODULE SecretFlow_proofs --------------------------
(***************************************************************************)
(* Proofs about the flow of credentials, for every set of programs.        *)
(***************************************************************************)
EXTENDS SecretSoundness, TLAPS

-----------------------------------------------------------------------------
\* Sequences, of whatever their elements are.

IsSeq(s) == \E T : s \in Seq(T)

\* A concatenation has the elements of the one, then those of the other.
LEMMA ConcatIsSeq ==
  ASSUME NEW s, NEW t, IsSeq(s), IsSeq(t)
  PROVE  /\ IsSeq(s \o t)
         /\ Len(s \o t) = Len(s) + Len(t)
         /\ Len(s) \in Nat /\ Len(t) \in Nat
         /\ DOMAIN (s \o t) = 1 .. (Len(s) + Len(t))
         /\ \A i \in 1 .. Len(s) : (s \o t)[i] = s[i]
         /\ \A i \in 1 .. Len(t) : (s \o t)[Len(s) + i] = t[i]
         /\ \A i \in (Len(s) + 1) .. (Len(s) + Len(t)) : (s \o t)[i] = t[i - Len(s)]
<1>1. PICK T : s \in Seq(T)
  BY DEF IsSeq
<1>2. PICK U : t \in Seq(U)
  BY DEF IsSeq
<1>3. s \in Seq(T \cup U) /\ t \in Seq(T \cup U)
  BY <1>1, <1>2
<1> QED
  BY <1>3 DEF IsSeq

\* The rest of a sequence.
LEMMA TailIsSeq ==
  ASSUME NEW s, IsSeq(s), s # << >>
  PROVE  /\ IsSeq(Tail(s))
         /\ Len(Tail(s)) = Len(s) - 1
         /\ Len(s) \in Nat /\ Len(s) > 0
         /\ DOMAIN Tail(s) = 1 .. (Len(s) - 1)
         /\ \A i \in 1 .. (Len(s) - 1) : Tail(s)[i] = s[i + 1]
         /\ Head(s) = s[1]
<1>1. PICK T : s \in Seq(T)
  BY DEF IsSeq
<1> QED
  BY <1>1 DEF IsSeq

\* A subsequence.
LEMMA SubSeqIsSeq ==
  ASSUME NEW T, NEW s, NEW m \in Int, NEW n \in Int, \A i \in m .. n : s[i] \in T
  PROVE  /\ SubSeq(s, m, n) \in Seq(T)
         /\ Len(SubSeq(s, m, n)) = IF m <= n THEN n - m + 1 ELSE 0
         /\ \A i \in 1 .. n - m + 1 : SubSeq(s, m, n)[i] = s[m + i - 1]
OBVIOUS

\* The first n elements and the others.
LEMMA SplitIsSeq ==
  ASSUME NEW s, IsSeq(s), NEW n \in 0 .. Len(s)
  PROVE  /\ IsSeq(SubSeq(s, 1, n)) /\ IsSeq(SubSeq(s, n + 1, Len(s)))
         /\ Len(s) \in Nat /\ DOMAIN s = 1 .. Len(s)
         /\ Len(SubSeq(s, 1, n)) = n
         /\ Len(SubSeq(s, n + 1, Len(s))) = Len(s) - n
         /\ DOMAIN SubSeq(s, n + 1, Len(s)) = 1 .. (Len(s) - n)
         /\ \A i \in 1 .. n : SubSeq(s, 1, n)[i] = s[i]
         /\ \A i \in 1 .. (Len(s) - n) : SubSeq(s, n + 1, Len(s))[i] = s[n + i]
<1>1. PICK T : s \in Seq(T)
  BY DEF IsSeq
<1>2. Len(s) \in Nat /\ DOMAIN s = 1 .. Len(s) /\ n \in Nat /\ n <= Len(s)
  BY <1>1
<1>3. \A i \in 1 .. n : s[i] \in T
  BY <1>1, <1>2
<1>4. /\ SubSeq(s, 1, n) \in Seq(T)
      /\ Len(SubSeq(s, 1, n)) = n
      /\ \A i \in 1 .. n : SubSeq(s, 1, n)[i] = s[i]
  <2>1. 1 \in Int /\ n \in Int /\ \A i \in 1 .. n : s[i] \in T
    BY <1>2, <1>3
  <2>2. /\ SubSeq(s, 1, n) \in Seq(T)
        /\ Len(SubSeq(s, 1, n)) = IF 1 <= n THEN n - 1 + 1 ELSE 0
        /\ \A i \in 1 .. n - 1 + 1 : SubSeq(s, 1, n)[i] = s[1 + i - 1]
    BY <2>1, SubSeqIsSeq
  <2> QED
    BY <1>2, <2>2
<1>5. /\ SubSeq(s, n + 1, Len(s)) \in Seq(T)
      /\ Len(SubSeq(s, n + 1, Len(s))) = Len(s) - n
      /\ \A i \in 1 .. (Len(s) - n) : SubSeq(s, n + 1, Len(s))[i] = s[n + i]
  <2>1. n + 1 \in Int /\ Len(s) \in Int /\ \A i \in (n + 1) .. Len(s) : s[i] \in T
    BY <1>1, <1>2
  <2>2. /\ SubSeq(s, n + 1, Len(s)) \in Seq(T)
        /\ Len(SubSeq(s, n + 1, Len(s))) = IF n + 1 <= Len(s) THEN Len(s) - (n + 1) + 1 ELSE 0
        /\ \A i \in 1 .. Len(s) - (n + 1) + 1 : SubSeq(s, n + 1, Len(s))[i] = s[n + 1 + i - 1]
    BY <2>1, SubSeqIsSeq
  <2>3. Len(SubSeq(s, n + 1, Len(s))) = Len(s) - n
    <3> DEFINE l == Len(s)
               r == Len(SubSeq(s, n + 1, l))
    <3>1. r = IF n + 1 <= l THEN l - (n + 1) + 1 ELSE 0
      BY <2>2
    <3>2. l \in Nat /\ n \in Nat /\ n <= l
      BY <1>2
    <3> HIDE DEF l, r
    <3>3. r = l - n
      BY <3>1, <3>2
    <3> QED
      BY <3>3 DEF r, l
  <2>4. ASSUME NEW i \in 1 .. (Len(s) - n)
        PROVE  SubSeq(s, n + 1, Len(s))[i] = s[n + i]
    <3>1. i \in 1 .. Len(s) - (n + 1) + 1 /\ n + 1 + i - 1 = n + i
      BY <1>2
    <3> QED
      BY <3>1, <2>2, Zenon
  <2> QED
    BY <2>2, <2>3, <2>4
<1>6. DOMAIN SubSeq(s, n + 1, Len(s)) = 1 .. (Len(s) - n)
  BY <1>5
<1> QED
  BY <1>2, <1>4, <1>5, <1>6 DEF IsSeq

\* The elements of a sequence.
Elems(s) == {s[i] : i \in 1 .. Len(s)}

LEMMA ElemsOfConcat ==
  ASSUME NEW s, NEW t, IsSeq(s), IsSeq(t)
  PROVE  Elems(s \o t) = Elems(s) \cup Elems(t)
<1>1. ASSUME NEW i \in 1 .. Len(s \o t)
      PROVE  (s \o t)[i] \in Elems(s) \cup Elems(t)
  <2>1. CASE i <= Len(s)
    BY <2>1, ConcatIsSeq DEF Elems
  <2>2. CASE i > Len(s)
    <3>1. i \in (Len(s) + 1) .. (Len(s) + Len(t)) /\ i - Len(s) \in 1 .. Len(t)
      BY <2>2, ConcatIsSeq
    <3> QED
      BY <3>1, ConcatIsSeq DEF Elems
  <2> QED
    BY <2>1, <2>2, ConcatIsSeq
<1>2. ASSUME NEW i \in 1 .. Len(s)
      PROVE  s[i] \in Elems(s \o t)
  <2>1. i \in 1 .. Len(s \o t) /\ (s \o t)[i] = s[i]
    BY ConcatIsSeq
  <2> QED
    BY <2>1 DEF Elems
<1>3. ASSUME NEW i \in 1 .. Len(t)
      PROVE  t[i] \in Elems(s \o t)
  <2>1. Len(s) + i \in 1 .. Len(s \o t) /\ (s \o t)[Len(s) + i] = t[i]
    BY ConcatIsSeq
  <2> QED
    BY <2>1 DEF Elems
<1> QED
  BY <1>1, <1>2, <1>3 DEF Elems

\* Tuples.
LEMMA Tuples ==
  /\ IsSeq(<< >>) /\ Elems(<< >>) = {}
  /\ \A a : IsSeq(<<a>>) /\ Elems(<<a>>) = {a}
  /\ \A a, b : IsSeq(<<a, b>>) /\ Elems(<<a, b>>) = {a, b}
  /\ \A a, b, c : IsSeq(<<a, b, c>>) /\ Elems(<<a, b, c>>) = {a, b, c}
<1>1. IsSeq(<< >>) /\ Elems(<< >>) = {}
  BY DEF IsSeq, Elems
<1>2. ASSUME NEW a PROVE IsSeq(<<a>>) /\ Elems(<<a>>) = {a}
  <2> DEFINE t == <<a>>
  <2>1. t \in Seq({a}) /\ Len(t) = 1 /\ t[1] = a
    OBVIOUS
  <2>2. 1 .. 1 = {1}
    OBVIOUS
  <2> HIDE DEF t
  <2>3. IsSeq(t) /\ Elems(t) = {a}
    BY <2>1, <2>2 DEF IsSeq, Elems
  <2> QED
    BY <2>3 DEF t
<1>3. ASSUME NEW a, NEW b PROVE IsSeq(<<a, b>>) /\ Elems(<<a, b>>) = {a, b}
  <2> DEFINE t == <<a, b>>
  <2>1. t \in Seq({a, b}) /\ Len(t) = 2 /\ t[1] = a /\ t[2] = b
    OBVIOUS
  <2>2. 1 .. 2 = {1, 2}
    OBVIOUS
  <2> HIDE DEF t
  <2>3. IsSeq(t) /\ Elems(t) = {a, b}
    BY <2>1, <2>2 DEF IsSeq, Elems
  <2> QED
    BY <2>3 DEF t
<1>4. ASSUME NEW a, NEW b, NEW c PROVE IsSeq(<<a, b, c>>) /\ Elems(<<a, b, c>>) = {a, b, c}
  <2> DEFINE t == <<a, b, c>>
  <2>1. t \in Seq({a, b, c}) /\ Len(t) = 3 /\ t[1] = a /\ t[2] = b /\ t[3] = c
    OBVIOUS
  <2>2. 1 .. 3 = {1, 2, 3}
    OBVIOUS
  <2> HIDE DEF t
  <2>3. IsSeq(t) /\ Elems(t) = {a, b, c}
    BY <2>1, <2>2 DEF IsSeq, Elems
  <2> QED
    BY <2>3 DEF t
<1> QED
  BY <1>1, <1>2, <1>3, <1>4

\* The calls that remain after a return, or after a call is replaced by others.
LEMMA ElemsOfTail ==
  ASSUME NEW s, IsSeq(s), s # << >>
  PROVE  IsSeq(Tail(s)) /\ Elems(Tail(s)) \subseteq Elems(s) /\ Head(s) \in Elems(s)
BY TailIsSeq DEF Elems

LEMMA ElemsOfBecome ==
  ASSUME NEW s, IsSeq(s), s # << >>, NEW fs, IsSeq(fs)
  PROVE  IsSeq(fs \o Tail(s)) /\ Elems(fs \o Tail(s)) \subseteq Elems(fs) \cup Elems(s)
BY ElemsOfTail, ConcatIsSeq, ElemsOfConcat

-----------------------------------------------------------------------------
\* Lists of effects.

\* The list new has the effects of old in their places, with their labels and
\* perhaps others, and perhaps more effects.
Extends(old, new) ==
  /\ IsSeq(old) /\ IsSeq(new)
  /\ Len(old) <= Len(new)
  /\ \A i \in 1 .. Len(old) :
       /\ new[i].kind = old[i].kind
       /\ new[i].target = old[i].target
       /\ old[i].taint \subseteq new[i].taint

LEMMA ExtendsItself == ASSUME NEW es, IsSeq(es) PROVE Extends(es, es)
<1>1. PICK T : es \in Seq(T)
  BY DEF IsSeq
<1> QED
  BY <1>1 DEF Extends

LEMMA ExtendsTwice ==
  ASSUME NEW a, NEW b, NEW c, Extends(a, b), Extends(b, c)
  PROVE  Extends(a, c)
<1>1. Len(a) \in Nat /\ Len(b) \in Nat /\ Len(c) \in Nat
  BY ConcatIsSeq DEF Extends
<1>2. IsSeq(a) /\ IsSeq(c) /\ Len(a) <= Len(c)
  BY <1>1 DEF Extends
<1>3. ASSUME NEW i \in 1 .. Len(a)
      PROVE  /\ c[i].kind = a[i].kind
             /\ c[i].target = a[i].target
             /\ a[i].taint \subseteq c[i].taint
  <2>1. i \in 1 .. Len(b)
    BY <1>1 DEF Extends
  <2> QED
    BY <2>1 DEF Extends
<1> QED
  BY <1>2, <1>3 DEF Extends

\* Effects that are appended.
LEMMA ConcatExtends ==
  ASSUME NEW es, NEW fs, IsSeq(es), IsSeq(fs)
  PROVE  Extends(es, es \o fs)
BY ConcatIsSeq DEF Extends

LEMMA AppendIsConcat ==
  ASSUME NEW es, IsSeq(es), NEW e
  PROVE  Append(es, e) = es \o <<e>>
<1>1. PICK T : es \in Seq(T)
  BY DEF IsSeq
<1>2. es \in Seq(T \cup {e}) /\ <<e>> \in Seq(T \cup {e})
  BY <1>1
<1> QED
  BY <1>2

\* Relabelling keeps every effect in its place.
LEMMA RelabelExtends ==
  ASSUME NEW es, IsSeq(es), NEW I, NEW l
  PROVE  /\ Extends(es, Relabel(es, I, l))
         /\ Len(Relabel(es, I, l)) = Len(es)
         /\ DOMAIN Relabel(es, I, l) = 1 .. Len(es)
         /\ \A i \in 1 .. Len(es) : Relabel(es, I, l)[i] \in {es[i], Carrying(es[i], l)}
<1> DEFINE r == Relabel(es, I, l)
           U == {r[i] : i \in 1 .. Len(es)}
<1>1. Len(es) \in Nat /\ DOMAIN es = 1 .. Len(es)
  <2>1. PICK T : es \in Seq(T)
    BY DEF IsSeq
  <2> QED
    BY <2>1
<1>2. r = [i \in 1 .. Len(es) |-> IF i \in I THEN Carrying(es[i], l) ELSE es[i]]
  BY <1>1 DEF Relabel
<1>3. r \in [1 .. Len(es) -> U]
  BY <1>2
<1>4. r \in Seq(U) /\ Len(r) = Len(es)
  BY <1>1, <1>3
<1>5. ASSUME NEW i \in 1 .. Len(es)
      PROVE  /\ r[i] \in {es[i], Carrying(es[i], l)}
             /\ r[i].kind = es[i].kind
             /\ r[i].target = es[i].target
             /\ es[i].taint \subseteq r[i].taint
  <2>1. r[i] = IF i \in I THEN Carrying(es[i], l) ELSE es[i]
    BY <1>2
  <2> QED
    BY <2>1 DEF Carrying, Eff
<1>6. DOMAIN r = 1 .. Len(es) /\ IsSeq(r)
  BY <1>2, <1>4 DEF IsSeq
<1> HIDE DEF r
<1>7. Extends(es, r)
  BY <1>1, <1>4, <1>5, <1>6 DEF Extends
<1> QED
  BY <1>4, <1>5, <1>6, <1>7 DEF r

\* A statement, or a command, that replaces its own effects by others which
\* extend them extends the whole list.
LEMMA ReplacedExtends ==
  ASSUME IsSeq(effs), NEW n \in 0 .. Len(effs), NEW es, Extends(From(n), es)
  PROVE  Extends(effs, Replaced(n, es))
<1> DEFINE before == SubSeq(effs, 1, n)
           after == From(n)
           new == before \o es
           len == Len(effs)
<1>1. /\ IsSeq(before) /\ IsSeq(es)
      /\ len \in Nat /\ Len(before) = n /\ Len(after) = len - n
      /\ \A i \in 1 .. n : before[i] = effs[i]
      /\ \A i \in 1 .. (len - n) : after[i] = effs[n + i]
  BY SplitIsSeq DEF From, Extends
<1>2. /\ IsSeq(new) /\ Len(new) = n + Len(es) /\ Len(es) \in Nat
      /\ \A i \in 1 .. n : new[i] = before[i]
      /\ \A i \in 1 .. Len(es) : new[n + i] = es[i]
  BY <1>1, ConcatIsSeq
<1>3. /\ len - n <= Len(es)
      /\ \A i \in 1 .. (len - n) : /\ es[i].kind = after[i].kind
                                   /\ es[i].target = after[i].target
                                   /\ after[i].taint \subseteq es[i].taint
  BY <1>1 DEF Extends
<1> HIDE DEF new, before, after
<1>4. ASSUME NEW i \in 1 .. len
      PROVE  /\ new[i].kind = effs[i].kind
             /\ new[i].target = effs[i].target
             /\ effs[i].taint \subseteq new[i].taint
  <2>1. CASE i <= n
    <3>1. i \in 1 .. n
      BY <2>1, <1>1
    <3>2. new[i] = effs[i]
      BY <3>1, <1>1, <1>2
    <3> QED
      BY <3>2
  <2>2. CASE i > n
    <3>1. PICK j \in 1 .. (len - n) : i = n + j
      <4>1. i - n \in 1 .. (len - n) /\ i = n + (i - n)
        BY <2>2, <1>1
      <4> QED
        BY <4>1
    <3>2. j \in 1 .. Len(es)
      BY <1>1, <1>2, <1>3
    <3>3. new[i] = es[j] /\ after[j] = effs[i]
      BY <3>1, <3>2, <1>1, <1>2
    <3> QED
      BY <3>3, <1>3
  <2> QED
    BY <2>1, <2>2, <1>1
<1>5. len <= Len(new)
  BY <1>1, <1>2, <1>3
<1>6. Replaced(n, es) = new
  BY DEF Replaced, new, before
<1> QED
  BY <1>2, <1>4, <1>5, <1>6 DEF Extends

-----------------------------------------------------------------------------
\* The calls in progress.

\* A call that will replace the effects from a position on has it inside the
\* list, and one that will restore the variables has a value for each.
FrameOK(f, n) ==
  /\ f.k \in {"end", "bind"} => f.start \in 0 .. n
  /\ f.k \in {"leave", "pipe", "subst"} => DOMAIN f.cells = Vars

StackOK ==
  /\ IsSeq(stack)
  /\ IsSeq(effs)
  /\ DOMAIN cells = Vars
  /\ \A f \in Elems(stack) : FrameOK(f, Len(effs))

\* More effects leave the calls as they are.
LEMMA FramesStayOK ==
  ASSUME NEW E, NEW n \in Nat, NEW m \in Nat, n <= m, \A f \in E : FrameOK(f, n)
  PROVE  \A f \in E : FrameOK(f, m)
<1>1. 0 .. n \subseteq 0 .. m
  OBVIOUS
<1> QED
  BY <1>1 DEF FrameOK

\* What a return and a replacement of the innermost call leave.
LEMMA ReturnOK ==
  ASSUME StackOK, stack # << >>, Return, Extends(effs, effs'), DOMAIN cells' = Vars
  PROVE  StackOK'
<1>1. IsSeq(effs') /\ Len(effs) \in Nat /\ Len(effs') \in Nat /\ Len(effs) <= Len(effs')
  BY ConcatIsSeq DEF Extends
<1>2. \A f \in Elems(stack) : FrameOK(f, Len(effs'))
  BY <1>1, FramesStayOK DEF StackOK
<1>3. IsSeq(stack') /\ Elems(stack') \subseteq Elems(stack)
  BY ElemsOfTail DEF StackOK, Return
<1> QED
  BY <1>1, <1>2, <1>3 DEF StackOK

LEMMA BecomeOK ==
  ASSUME StackOK, stack # << >>, NEW fs, IsSeq(fs), Become(fs),
         \A f \in Elems(fs) : FrameOK(f, Len(effs)),
         Extends(effs, effs'), DOMAIN cells' = Vars
  PROVE  StackOK'
<1>1. IsSeq(effs') /\ Len(effs) \in Nat /\ Len(effs') \in Nat /\ Len(effs) <= Len(effs')
  BY ConcatIsSeq DEF Extends
<1>2. IsSeq(stack') /\ Elems(stack') \subseteq Elems(fs) \cup Elems(stack)
  BY ElemsOfBecome DEF StackOK, Become
<1>3. \A f \in Elems(fs) \cup Elems(stack) : FrameOK(f, Len(effs'))
  <2>1. \A f \in Elems(fs) \cup Elems(stack) : FrameOK(f, Len(effs))
    BY DEF StackOK
  <2> QED
    BY <1>1, <2>1, FramesStayOK
<1> QED
  BY <1>1, <1>2, <1>3 DEF StackOK

\* The innermost call.
LEMMA FrameIsOK ==
  ASSUME StackOK, stack # << >>
  PROVE  FrameOK(Frame, Len(effs)) /\ Frame \in Elems(stack)
BY ElemsOfTail DEF StackOK, Frame

\* Kinds of call that hold no position and no variables.
LEMMA PlainFrames ==
  /\ \A ss, n : FrameOK(ListFrame(ss), n)
  /\ \A s, n : FrameOK(StmtFrame(s), n)
  /\ \A rs, n : FrameOK([k |-> "redirs", rs |-> rs], n)
  /\ \A s, n : FrameOK([k |-> "run", s |-> s], n)
  /\ \A c, n : FrameOK([k |-> "call", c |-> c], n)
BY DEF FrameOK, ListFrame, StmtFrame

\* What each step of the frontend leaves in place: the calls, every effect and
\* every staged file.
Kept == StackOK' /\ Extends(effs, effs') /\ staged \subseteq staged'

LEMMA ListKeeps == ASSUME StackOK, List PROVE Kept
<1>1. stack # << >> /\ Extends(effs, effs') /\ DOMAIN cells' = Vars /\ staged' = staged
  BY ExtendsItself DEF List, In, StackOK
<1>2. CASE Frame.ss = << >>
  BY <1>1, <1>2, ReturnOK DEF List, Kept
<1>3. CASE Frame.ss # << >>
  <2> DEFINE fs == << StmtFrame(Head(Frame.ss)), ListFrame(Tail(Frame.ss)) >>
  <2>1. IsSeq(fs) /\ Elems(fs) = {StmtFrame(Head(Frame.ss)), ListFrame(Tail(Frame.ss))}
    BY Tuples
  <2>2. \A f \in Elems(fs) : FrameOK(f, Len(effs))
    BY <2>1, PlainFrames
  <2>3. Become(fs)
    BY <1>3 DEF List
  <2> QED
    BY <1>1, <2>1, <2>2, <2>3, BecomeOK DEF Kept
<1> QED
  BY <1>2, <1>3

LEMMA StatementKeeps == ASSUME StackOK, Statement PROVE Kept
<1> DEFINE a == [k |-> "redirs", rs |-> Frame.s.redirs]
           b == [k |-> "run", s |-> Frame.s]
           fs == << a, b, StatementEnd >>
<1>1. stack # << >> /\ Extends(effs, effs') /\ DOMAIN cells' = Vars /\ staged' = staged
  BY ExtendsItself DEF Statement, In, StackOK
<1>2. IsSeq(fs) /\ Elems(fs) = {a, b, StatementEnd}
  BY Tuples
<1>3. Len(effs) \in 0 .. Len(effs)
  BY ConcatIsSeq DEF StackOK
<1>4. FrameOK(StatementEnd, Len(effs))
  BY <1>3 DEF FrameOK, StatementEnd, EndFrame
<1>5. \A f \in Elems(fs) : FrameOK(f, Len(effs))
  BY <1>2, <1>4, PlainFrames
<1>6. Become(fs)
  BY DEF Statement
<1> QED
  BY <1>1, <1>2, <1>5, <1>6, BecomeOK DEF Kept

LEMMA RedirectionsKeeps == ASSUME StackOK, Redirections PROVE Kept
<1>1. stack # << >> /\ DOMAIN cells' = Vars /\ staged' = staged
  BY DEF Redirections, In, StackOK
<1>2. CASE Return /\ effs' = effs
  BY <1>1, <1>2, ExtendsItself, ReturnOK DEF Kept, StackOK
<1>3. CASE Redirect(Head(Frame.rs)) /\ Become(<< [k |-> "redirs", rs |-> Tail(Frame.rs)] >>)
  <2>1. PICK e : effs' = Append(effs, e)
    BY <1>3 DEF Redirect
  <2>2. Extends(effs, effs')
    <3>1. effs' = effs \o <<e>>
      BY <2>1, AppendIsConcat DEF StackOK
    <3> QED
      BY <3>1, ConcatExtends, Tuples DEF StackOK
  <2> DEFINE fs == << [k |-> "redirs", rs |-> Tail(Frame.rs)] >>
  <2>3. IsSeq(fs) /\ \A f \in Elems(fs) : FrameOK(f, Len(effs))
    BY Tuples, PlainFrames
  <2> HIDE DEF fs
  <2>4. Become(fs)
    BY <1>3 DEF fs
  <2> QED
    BY <1>1, <2>2, <2>3, <2>4, BecomeOK DEF Kept
<1> QED
  BY <1>2, <1>3 DEF Redirections

LEMMA CommandKeeps == ASSUME StackOK, Command PROVE Kept
<1> DEFINE c == Frame.s.c
           body == CASE c.op \in {"group", "sub"} -> << ListFrame(c.ss) >>
                     [] c.op = "pipe" -> << [k |-> "pipe", ss |-> c.ss, first |-> TRUE,
                                             stdin |-> stdin, cells |-> cells] >>
                     [] OTHER -> << [k |-> "call", c |-> c] >>
           copied == Frame.s.bg \/ c.op = "sub"
           left == IF copied THEN << LeaveFrame >> ELSE << >>
<1>1. stack # << >> /\ Extends(effs, effs') /\ DOMAIN cells' = Vars /\ staged' = staged
  BY ExtendsItself DEF Command, In, StackOK
<1>2. IsSeq(body) /\ \A f \in Elems(body) : FrameOK(f, Len(effs))
  <2>1. CASE c.op \in {"group", "sub"}
    <3>1. body = << ListFrame(c.ss) >>
      BY <2>1
    <3> QED
      BY <3>1, Tuples, PlainFrames
  <2>2. CASE c.op = "pipe"
    <3> DEFINE f == [k |-> "pipe", ss |-> c.ss, first |-> TRUE, stdin |-> stdin, cells |-> cells]
    <3>1. body = << f >>
      BY <2>2
    <3>2. FrameOK(f, Len(effs))
      BY DEF FrameOK, StackOK
    <3> QED
      BY <3>1, <3>2, Tuples
  <2>3. CASE c.op \notin {"group", "sub", "pipe"}
    <3>1. body = << [k |-> "call", c |-> c] >>
      BY <2>3
    <3> QED
      BY <3>1, Tuples, PlainFrames
  <2> QED
    BY <2>1, <2>2, <2>3
<1>3. IsSeq(left) /\ \A f \in Elems(left) : FrameOK(f, Len(effs))
  <2>1. FrameOK(LeaveFrame, Len(effs))
    BY DEF FrameOK, LeaveFrame, StackOK
  <2> QED
    BY <2>1, Tuples
<1>4. Become(body \o left)
  BY DEF Command
<1> HIDE DEF body, left
<1>5. IsSeq(body \o left) /\ \A f \in Elems(body \o left) : FrameOK(f, Len(effs))
  BY <1>2, <1>3, ConcatIsSeq, ElemsOfConcat
<1> QED
  BY <1>1, <1>4, <1>5, BecomeOK DEF Kept

LEMMA LeaveKeeps == ASSUME StackOK, Leave PROVE Kept
<1>1. stack # << >> /\ Extends(effs, effs') /\ staged' = staged /\ Return
  BY ExtendsItself DEF Leave, In, StackOK
<1>2. DOMAIN cells' = Vars
  BY <1>1, FrameIsOK DEF Leave, In, FrameOK
<1> QED
  BY <1>1, <1>2, ReturnOK DEF Kept

LEMMA StageKeeps == ASSUME StackOK, Stage PROVE Kept
<1>1. stack # << >> /\ Extends(effs, effs') /\ staged' = staged
  BY ExtendsItself DEF Stage, In, StackOK
<1>2. DOMAIN Frame.cells = Vars /\ DOMAIN cells' = Vars
  BY <1>1, FrameIsOK DEF Stage, In, FrameOK
<1>3. CASE Return
  BY <1>1, <1>2, <1>3, ReturnOK DEF Kept
<1>4. CASE Frame.ss # << >>
  <2> DEFINE a == StmtFrame(Head(Frame.ss))
             b == [k |-> "pipe", ss |-> Tail(Frame.ss), first |-> FALSE,
                   stdin |-> Frame.stdin, cells |-> Frame.cells]
             fs == << a, b >>
  <2>1. FrameOK(a, Len(effs)) /\ FrameOK(b, Len(effs))
    BY <1>2, PlainFrames DEF FrameOK
  <2>2. IsSeq(fs) /\ Elems(fs) = {a, b}
    BY Tuples
  <2>3. Become(fs)
    BY <1>4 DEF Stage
  <2> QED
    BY <1>1, <1>2, <2>1, <2>2, <2>3, BecomeOK DEF Kept
<1> QED
  BY <1>3, <1>4 DEF Stage

LEMMA CallKeeps == ASSUME StackOK, Call PROVE Kept
<1> DEFINE c == Frame.c
           sub == [k |-> "subst", ss |-> c.word.ss, ran |-> FALSE, taint |-> {}, cells |-> cells]
           bind == [k |-> "bind", c |-> c, start |-> Len(effs)]
           first == IF c.word.w = "subst" THEN << sub >> ELSE << >>
<1>1. stack # << >> /\ Extends(effs, effs') /\ DOMAIN cells' = Vars /\ staged' = staged
  BY ExtendsItself DEF Call, In, StackOK
<1>2. Len(effs) \in 0 .. Len(effs)
  BY ConcatIsSeq DEF StackOK
<1>3. FrameOK(sub, Len(effs)) /\ FrameOK(bind, Len(effs))
  BY <1>2 DEF FrameOK, StackOK
<1>4. Become(first \o << bind >>)
  BY DEF Call
<1> HIDE DEF sub, bind
<1>5. IsSeq(first) /\ Elems(first) \subseteq {sub} /\ IsSeq(<< bind >>) /\ Elems(<< bind >>) = {bind}
  BY Tuples
<1> HIDE DEF first
<1>6. IsSeq(first \o << bind >>) /\ \A f \in Elems(first \o << bind >>) : FrameOK(f, Len(effs))
  BY <1>3, <1>5, ConcatIsSeq, ElemsOfConcat
<1> QED
  BY <1>1, <1>4, <1>6, BecomeOK DEF Kept

LEMMA SubstitutionKeeps == ASSUME StackOK, Substitution PROVE Kept
<1>1. stack # << >> /\ Extends(effs, effs') /\ staged' = staged
  BY ExtendsItself DEF Substitution, In, StackOK
<1>2. DOMAIN Frame.cells = Vars /\ DOMAIN cells' = Vars
  <2>1. DOMAIN Frame.cells = Vars
    BY <1>1, FrameIsOK DEF Substitution, In, FrameOK
  <2> QED
    BY <2>1 DEF Substitution, StackOK
<1>3. CASE Frame.ss = << >>
  BY <1>1, <1>2, <1>3, ReturnOK DEF Substitution, Kept
<1>4. CASE Frame.ss # << >>
  <2> DEFINE a == StmtFrame(Head(Frame.ss))
             b == [k |-> "subst", ss |-> Tail(Frame.ss), ran |-> TRUE,
                   taint |-> FoldedOutput(Frame), cells |-> Frame.cells]
             fs == << a, b >>
  <2>1. FrameOK(a, Len(effs)) /\ FrameOK(b, Len(effs))
    BY <1>2, PlainFrames DEF FrameOK
  <2>2. IsSeq(fs) /\ Elems(fs) = {a, b}
    BY Tuples
  <2>3. Become(fs)
    BY <1>4 DEF Substitution
  <2> QED
    BY <1>1, <1>2, <2>1, <2>2, <2>3, BecomeOK DEF Kept
<1> QED
  BY <1>3, <1>4

\* The passes over a list of effects that only relabel it.
LEMMA PassesExtend ==
  ASSUME NEW es, IsSeq(es)
  PROVE  /\ \A l : Extends(es, EgressWithSecret(es, l))
         /\ Extends(es, ReadBack(es))
         /\ Extends(es, Staging(es))
BY RelabelExtends, ExtendsItself DEF EgressWithSecret, ReadBack, Staging

\* The effects a command declares.
LEMMA BoundIsSeq == ASSUME NEW c, NEW l PROVE IsSeq(Declared(c, l)) /\ IsSeq(Bound(c, l))
<1>1. IsSeq(Declared(c, l))
  <2>1. CASE c.op = "cat"
    BY <2>1, Tuples DEF Declared
  <2>2. CASE c.op = "cp"
    BY <2>2, Tuples DEF Declared
  <2>3. CASE c.op = "mv"
    BY <2>3, Tuples DEF Declared
  <2>4. CASE c.op = "tee"
    BY <2>4, Tuples DEF Declared
  <2>5. CASE c.op = "printf"
    BY <2>5, Tuples DEF Declared
  <2>6. CASE c.op = "put"
    BY <2>6, Tuples DEF Declared
  <2>7. CASE c.op = "form"
    BY <2>7, Tuples DEF Declared
  <2>8. CASE c.op = "post"
    BY <2>8, Tuples DEF Declared
  <2>9. CASE c.op = "get"
    BY <2>9, Tuples DEF Declared
  <2>11. CASE c.op = "postIn"
    BY <2>11, Tuples DEF Declared
  <2>10. CASE c.op \notin {"cat", "cp", "mv", "tee", "printf", "put", "form", "post", "get", "postIn"}
    BY <2>10, Tuples DEF Declared
  <2> QED
    BY <2>1, <2>2, <2>3, <2>4, <2>5, <2>6, <2>7, <2>8, <2>9, <2>10, <2>11
<1> QED
  BY <1>1, RelabelExtends DEF Bound, TaintEgress, Extends

LEMMA EnvReadsIsSeq == ASSUME NEW v PROVE IsSeq(EnvReads(v))
BY Tuples DEF EnvReads

\* The effects of the command being bound: those of its substitutions, of its
\* operands, and its own.
LEMMA BindExtends ==
  ASSUME StackOK, NEW n \in 0 .. Len(effs), NEW c, NEW l
  PROVE  LET es == From(n) \o EnvReads(c.word)
         IN  Extends(From(n), EgressWithSecret(es \o Bound(c, l), l))
<1> DEFINE es == From(n) \o EnvReads(c.word)
           all == es \o Bound(c, l)
<1>1. IsSeq(From(n))
  BY SplitIsSeq DEF StackOK, From
<1>2. Extends(From(n), es)
  BY <1>1, EnvReadsIsSeq, ConcatExtends
<1>3. IsSeq(es)
  BY <1>2 DEF Extends
<1> HIDE DEF es
<1>4. Extends(es, all)
  BY <1>3, BoundIsSeq, ConcatExtends
<1>5. IsSeq(all)
  BY <1>4 DEF Extends
<1> HIDE DEF all
<1>6. Extends(all, EgressWithSecret(all, l))
  BY <1>5, PassesExtend
<1>7. Extends(From(n), EgressWithSecret(all, l))
  BY <1>2, <1>4, <1>6, ExtendsTwice
<1> QED
  BY <1>7 DEF all, es

LEMMA BindKeeps == ASSUME StackOK, Bind PROVE Kept
<1> DEFINE c == Frame.c
           l == WordTaint(c.word)
           es == From(Frame.start) \o EnvReads(c.word)
<1>1. stack # << >> /\ staged' = staged /\ Return
  BY DEF Bind, In
<1>2. Frame.start \in 0 .. Len(effs)
  BY <1>1, FrameIsOK DEF Bind, In, FrameOK
<1>3. DOMAIN cells' = Vars
  BY DEF Bind, StackOK
<1>4. CASE c.op = "assign"
  <2> DEFINE e == Eff("EnvWrite", Scope(c.x), l \cup (IF c.word.w = "env" THEN {Secret} ELSE {}))
  <2>1. effs' = (effs \o << e >>) \o EnvReads(c.word)
    BY <1>4 DEF Bind
  <2> HIDE DEF e
  <2>2. Extends(effs, effs \o << e >>)
    BY ConcatExtends, Tuples DEF StackOK
  <2>3. Extends(effs \o << e >>, effs')
    BY <2>1, <2>2, ConcatExtends, EnvReadsIsSeq DEF Extends
  <2> QED
    BY <1>1, <1>3, <2>2, <2>3, ExtendsTwice, ReturnOK DEF Kept
<1>5. CASE c.op # "assign"
  <2>1. effs' = Replaced(Frame.start, EgressWithSecret(es \o Bound(c, l), l))
    BY <1>5 DEF Bind
  <2>2. Extends(From(Frame.start), EgressWithSecret(es \o Bound(c, l), l))
    BY <1>2, BindExtends
  <2>3. Extends(effs, effs')
    BY <1>2, <2>1, <2>2, ReplacedExtends DEF StackOK
  <2> QED
    BY <1>1, <1>3, <2>3, ReturnOK DEF Kept
<1> QED
  BY <1>4, <1>5

\* The effects of the statement, once it is fed, read back and staged.
LEMMA EndExtends ==
  ASSUME StackOK, NEW n \in 0 .. Len(effs), NEW I, NEW l
  PROVE  LET fed == Relabel(effs, I, l)
             es == ReadBack(SubSeq(fed, n + 1, Len(fed)))
         IN  Extends(From(n), EgressWithSecret(Staging(es), {}))
<1> DEFINE fed == Relabel(effs, I, l)
           own == SubSeq(fed, n + 1, Len(fed))
           es == ReadBack(own)
           new == EgressWithSecret(Staging(es), {})
           len == Len(effs)
<1>1. Extends(effs, fed) /\ Len(fed) = len /\ IsSeq(fed)
  BY RelabelExtends DEF StackOK, Extends
<1> HIDE DEF fed
<1>2. /\ len \in Nat /\ IsSeq(From(n)) /\ Len(From(n)) = len - n
      /\ \A i \in 1 .. (len - n) : From(n)[i] = effs[n + i]
  BY SplitIsSeq DEF StackOK, From
<1>3. /\ IsSeq(own) /\ Len(own) = len - n
      /\ \A i \in 1 .. (len - n) : own[i] = fed[n + i]
  BY <1>1, SplitIsSeq
<1> HIDE DEF own
<1>4. Extends(From(n), own)
  <2>1. ASSUME NEW i \in 1 .. (len - n)
        PROVE  /\ own[i].kind = From(n)[i].kind
               /\ own[i].target = From(n)[i].target
               /\ From(n)[i].taint \subseteq own[i].taint
    <3>1. n + i \in 1 .. len
      BY <1>2
    <3>2. /\ fed[n + i].kind = effs[n + i].kind
          /\ fed[n + i].target = effs[n + i].target
          /\ effs[n + i].taint \subseteq fed[n + i].taint
      BY <1>1, <3>1 DEF Extends
    <3> QED
      BY <3>2, <1>2, <1>3
  <2> QED
    BY <2>1, <1>2, <1>3 DEF Extends
<1>5. Extends(own, es)
  BY <1>3, PassesExtend
<1>6. IsSeq(es)
  BY <1>5 DEF Extends
<1> HIDE DEF es
<1>7. Extends(es, Staging(es))
  BY <1>6, PassesExtend
<1>8. Extends(Staging(es), new)
  BY <1>7, PassesExtend DEF Extends
<1> HIDE DEF new
<1>9. Extends(From(n), new)
  BY <1>4, <1>5, <1>7, <1>8, ExtendsTwice
<1> QED
  BY <1>9 DEF new, es, own, fed

LEMMA EndKeeps == ASSUME StackOK, EndOfStatement PROVE Kept
<1> DEFINE fed == Relabel(effs, pending, stdout \cup stdin)
           es == ReadBack(SubSeq(fed, Frame.start + 1, Len(fed)))
<1>1. /\ stack # << >> /\ Return /\ DOMAIN cells' = Vars /\ staged \subseteq staged'
      /\ effs' = Replaced(Frame.start, EgressWithSecret(Staging(es), {}))
  BY DEF EndOfStatement, In, StackOK
<1>2. Frame.start \in 0 .. Len(effs)
  BY <1>1, FrameIsOK DEF EndOfStatement, In, FrameOK
<1>3. Extends(From(Frame.start), EgressWithSecret(Staging(es), {}))
  BY <1>2, EndExtends
<1> HIDE DEF es
<1>4. Extends(effs, effs')
  BY <1>1, <1>2, <1>3, ReplacedExtends DEF StackOK
<1> QED
  BY <1>1, <1>4, ReturnOK DEF Kept

\* Every step of the analysis keeps the effects, and so does a step of bash.
LEMMA StepKeeps == ASSUME StackOK, [Next]_vars PROVE Kept
<1>1. CASE UNCHANGED flowVars
  BY <1>1, ExtendsItself DEF flowVars, StackOK, Kept, FrameOK
<1>2. CASE Compose
  BY <1>2, ExtendsItself DEF Compose, StackOK, Kept, FrameOK
<1>3. CASE Analyse
  BY <1>2, <1>3, ListKeeps, StatementKeeps, RedirectionsKeeps, CommandKeeps, LeaveKeeps,
     StageKeeps, CallKeeps, SubstitutionKeeps, BindKeeps, EndKeeps DEF Analyse
<1> QED
  BY <1>1, <1>3 DEF Next, RunFlow, RunShell, Finished, vars

\* At the start there is one call, and nothing else.
LEMMA InitOK == Init => StackOK
<1> SUFFICES ASSUME Init PROVE StackOK
  OBVIOUS
<1>1. IsSeq(stack) /\ Elems(stack) = {ListFrame(prog)} /\ IsSeq(effs) /\ DOMAIN cells = Vars
  BY Tuples DEF Init, FlowInit
<1> QED
  BY <1>1, PlainFrames DEF StackOK

\* No step of the analysis drops an effect, takes a label from one or forgets a
\* staged file: the claim of ApplySecretStaging's comment, for every program.
THEOREM LabelsNeverShrink == Spec => LabelsOnlyGrow
<1>1. ASSUME StackOK, [Next]_vars PROVE [OnlyGrows]_flowVars
  <2>1. Extends(effs, effs') /\ staged \subseteq staged'
    BY <1>1, StepKeeps DEF Kept
  <2>2. DOMAIN effs = 1 .. Len(effs) /\ DOMAIN effs' = 1 .. Len(effs')
    <3>1. 0 \in 0 .. Len(effs) /\ 0 \in 0 .. Len(effs')
      BY <2>1, ConcatIsSeq DEF Extends
    <3> QED
      BY <2>1, <3>1, SplitIsSeq DEF Extends
  <2>3. 1 .. Len(effs) \subseteq 1 .. Len(effs')
    BY <2>1, ConcatIsSeq DEF Extends
  <2> QED
    BY <2>1, <2>2, <2>3 DEF Extends, OnlyGrows
<1>2. StackOK /\ [Next]_vars => StackOK'
  BY StepKeeps DEF Kept
<1> QED
  BY <1>1, <1>2, InitOK, PTL DEF Spec, LabelsOnlyGrow

-----------------------------------------------------------------------------
\* No source is fabricated.

\* The effects of es name no credential, and carry none.
NamesNone(es) == \A e \in Elems(es) : ~SecretTarget(e.target) /\ Token \notin e.target.elems
Unmarked(es)  == \A e \in Elems(es) : Secret \notin e.taint /\ e.kind # "EnvRead"

CleanFrame(f) ==
  /\ f.k \in {"leave", "pipe", "subst"} => \A x \in Vars : Secret \notin f.cells[x]
  /\ f.k \in {"end", "pipe"} => Secret \notin f.stdin
  /\ f.k = "subst" => Secret \notin f.taint

Clean ==
  /\ staged = {}
  /\ Unmarked(effs)
  /\ \A x \in Vars : Secret \notin cells[x]
  /\ Secret \notin stdin /\ Secret \notin stdout /\ Secret \notin word
  /\ \A f \in Elems(stack) : CleanFrame(f)

CleanUnlessNamed == NamesNone(effs) => Clean

LEMMA NamesNoneBefore ==
  ASSUME NEW a, NEW b, Extends(a, b), NamesNone(b)
  PROVE  NamesNone(a)
<1> SUFFICES ASSUME NEW i \in 1 .. Len(a)
             PROVE  ~SecretTarget(a[i].target) /\ Token \notin a[i].target.elems
  BY DEF NamesNone, Elems
<1>1. i \in 1 .. Len(b) /\ b[i].target = a[i].target
  <2>1. Len(a) \in Nat /\ Len(b) \in Nat
    BY ConcatIsSeq DEF Extends
  <2> QED
    BY <2>1 DEF Extends
<1> QED
  BY <1>1 DEF NamesNone, Elems

LEMMA Concatenated ==
  ASSUME NEW a, NEW b, IsSeq(a), IsSeq(b)
  PROVE  /\ NamesNone(a \o b) <=> NamesNone(a) /\ NamesNone(b)
         /\ Unmarked(a \o b) <=> Unmarked(a) /\ Unmarked(b)
BY ElemsOfConcat DEF NamesNone, Unmarked

LEMMA RelabelUnmarked ==
  ASSUME NEW es, IsSeq(es), Unmarked(es), NEW I, NEW l, Secret \notin l
  PROVE  Unmarked(Relabel(es, I, l))
<1> DEFINE r == Relabel(es, I, l)
<1>1. Len(r) = Len(es) /\ \A i \in 1 .. Len(es) : r[i] \in {es[i], Carrying(es[i], l)}
  BY RelabelExtends
<1> HIDE DEF r
<1>2. ASSUME NEW i \in 1 .. Len(es) PROVE Secret \notin r[i].taint /\ r[i].kind # "EnvRead"
  <2>1. Secret \notin es[i].taint /\ es[i].kind # "EnvRead"
    BY DEF Unmarked, Elems
  <2> QED
    BY <1>1, <2>1 DEF Carrying, Eff
<1>3. Unmarked(r)
  BY <1>1, <1>2 DEF Unmarked, Elems
<1> QED
  BY <1>3 DEF r

\* A part of a list.
LEMMA PartUnmarked ==
  ASSUME NEW es, IsSeq(es), NEW n \in 0 .. Len(es)
  PROVE  /\ Elems(SubSeq(es, 1, n)) \subseteq Elems(es)
         /\ Elems(SubSeq(es, n + 1, Len(es))) \subseteq Elems(es)
<1>0. Len(es) \in Nat /\ n \in Nat /\ n <= Len(es)
  <2>1. Len(es) \in Nat
    BY SplitIsSeq
  <2> QED
    BY <2>1
<1>1. /\ Len(SubSeq(es, 1, n)) = n /\ Len(SubSeq(es, n + 1, Len(es))) = Len(es) - n
      /\ \A i \in 1 .. n : SubSeq(es, 1, n)[i] = es[i]
      /\ \A i \in 1 .. (Len(es) - n) : SubSeq(es, n + 1, Len(es))[i] = es[n + i]
  BY SplitIsSeq
<1>2. 1 .. n \subseteq 1 .. Len(es) /\ \A i \in 1 .. (Len(es) - n) : n + i \in 1 .. Len(es)
  BY <1>0
<1> QED
  BY <1>1, <1>2 DEF Elems

\* Where nothing is named or marked, there is no secret read, so no pass marks
\* anything and nothing is staged.
LEMMA NothingRead ==
  ASSUME NEW es, IsSeq(es), Unmarked(es), NamesNone(es)
  PROVE  /\ ~HandlesSecret(es)
         /\ SecretReads(es) = {}
         /\ \A K : Secret \notin TaintRead(es, K)
<1>1. DOMAIN es = 1 .. Len(es)
  <2>1. PICK T : es \in Seq(T)
    BY DEF IsSeq
  <2> QED
    BY <2>1
<1>2. ASSUME NEW i \in DOMAIN es
      PROVE  ~IsSecretRead(es[i]) /\ Secret \notin es[i].taint /\ ~SecretTarget(es[i].target)
  <2>1. es[i] \in Elems(es)
    BY <1>1 DEF Elems
  <2> QED
    BY <2>1 DEF Unmarked, NamesNone, IsSecretRead
<1>3. ~HandlesSecret(es) /\ SecretReads(es) = {}
  BY <1>2 DEF HandlesSecret, SecretReads
<1>4. ASSUME NEW K PROVE Secret \notin TaintRead(es, K)
  <2>1. \A i \in OfKind(es, K) : i \in DOMAIN es
    BY DEF OfKind
  <2> QED
    BY <1>2, <2>1 DEF TaintRead
<1> QED
  BY <1>3, <1>4

LEMMA PassesUnmarked ==
  ASSUME NEW es, IsSeq(es), Unmarked(es), NamesNone(es), NEW l, Secret \notin l
  PROVE  EgressWithSecret(es, l) = es /\ Staging(es) = es /\ StagedBy(es) = {}
BY NothingRead DEF EgressWithSecret, Staging, StagedBy

\* A command that names no credential and is given none.
LEMMA ScopeOfKey == ASSUME NEW p PROVE p = Key => SecretTarget(Scope(p))
BY NamesAssumption DEF SecretTarget, SecretPath, Scope, FlatOf

LEMMA DeclaredUnmarked ==
  ASSUME NEW c, NEW l, Secret \notin l, Secret \notin stdin, NamesNone(Declared(c, l))
  PROVE  Unmarked(Declared(c, l))
<1> DEFINE es == Declared(c, l)
<1>1. CASE c.op = "cat"
  BY <1>1, Tuples DEF Declared, Unmarked, Eff
<1>2. CASE c.op = "cp"
  BY <1>2, Tuples DEF Declared, Unmarked, Eff
<1>3. CASE c.op = "mv"
  BY <1>3, Tuples DEF Declared, Unmarked, Eff
<1>4. CASE c.op = "tee"
  BY <1>4, Tuples DEF Declared, Unmarked, Eff
<1>5. CASE c.op = "printf"
  BY <1>5, Tuples DEF Declared, Unmarked, Eff
<1>6. CASE c.op = "put"
  BY <1>6, Tuples DEF Declared, Unmarked, Request, Eff
<1>7. CASE c.op = "form"
  <2> DEFINE r == Eff("FSRead", Scope(c.src), FilePayload(c.src))
             w == Eff("NetEgress", NoTarget, FilePayload(c.src))
  <2>1. es = << r, w, Request >>
    BY <1>7 DEF Declared
  <2>2. Elems(es) = {r, w, Request}
    BY <2>1, Tuples
  <2>3. ~SecretTarget(Scope(c.src))
    BY <2>2 DEF NamesNone, Eff
  <2>4. Secret \notin FilePayload(c.src)
    BY <2>3, ScopeOfKey, NamesAssumption DEF FilePayload, SecretPath
  <2>5. /\ Secret \notin r.taint /\ r.kind # "EnvRead" /\ Secret \notin w.taint /\ w.kind # "EnvRead"
        /\ Secret \notin Request.taint /\ Request.kind # "EnvRead"
    BY <2>4 DEF Eff, Request
  <2> QED
    BY <2>2, <2>5 DEF Unmarked
<1>8. CASE c.op = "post"
  BY <1>8, Tuples DEF Declared, Unmarked, Request, Eff
<1>9. CASE c.op = "get"
  BY <1>9, Tuples DEF Declared, Unmarked, Request, Eff
<1>11. CASE c.op = "postIn"
  BY <1>11, Tuples DEF Declared, Unmarked, Request, Eff
<1>10. CASE c.op \notin {"cat", "cp", "mv", "tee", "printf", "put", "form", "post", "get", "postIn"}
  BY <1>10, Tuples DEF Declared, Unmarked
<1> QED
  BY <1>1, <1>2, <1>3, <1>4, <1>5, <1>6, <1>7, <1>8, <1>9, <1>10, <1>11

LEMMA BoundUnmarked ==
  ASSUME NEW c, NEW l, Secret \notin l, Secret \notin stdin, NamesNone(Bound(c, l))
  PROVE  Unmarked(Bound(c, l))
<1> DEFINE es == Declared(c, l)
<1>1. IsSeq(es)
  BY BoundIsSeq
<1>2. Extends(es, Bound(c, l))
  BY <1>1, RelabelExtends DEF Bound, TaintEgress
<1>3. NamesNone(es)
  BY <1>2, NamesNoneBefore
<1>4. Unmarked(es)
  BY <1>3, DeclaredUnmarked
<1>5. Secret \notin stdin \cup TaintRead(es, {"FSRead"})
  BY <1>1, <1>3, <1>4, NothingRead
<1> QED
  BY <1>1, <1>4, <1>5, RelabelUnmarked DEF Bound, TaintEgress

\* A word is clean while nothing is marked, unless it names the credential.
LEMMA WordIsClean == ASSUME Clean, NEW v PROVE Secret \notin WordTaint(v)
BY NamesAssumption DEF Clean, WordTaint

LEMMA TokenIsNamed ==
  ASSUME NEW v, NamesNone(EnvReads(v))
  PROVE  v.w # "env" /\ EnvReads(v) = << >>
<1>1. ASSUME v.w = "env" PROVE FALSE
  <2> DEFINE e == Eff("EnvRead", Scope(Token), {Secret})
  <2>1. Elems(EnvReads(v)) = {e}
    BY <1>1, Tuples DEF EnvReads
  <2>2. Token \in e.target.elems
    BY NamesAssumption DEF Eff, Scope, FlatOf
  <2> QED
    BY <2>1, <2>2 DEF NamesNone
<1> QED
  BY <1>1 DEF EnvReads

\* Calls that hold no variables, input or output.
LEMMA PlainFramesClean ==
  /\ \A ss : CleanFrame(ListFrame(ss))
  /\ \A s : CleanFrame(StmtFrame(s))
  /\ \A rs : CleanFrame([k |-> "redirs", rs |-> rs])
  /\ \A s : CleanFrame([k |-> "run", s |-> s])
  /\ \A c : CleanFrame([k |-> "call", c |-> c])
BY DEF CleanFrame, ListFrame, StmtFrame

LEMMA FrameIsClean ==
  ASSUME StackOK, Clean, stack # << >>
  PROVE  CleanFrame(Frame)
BY FrameIsOK DEF Clean

LEMMA ReturnClean ==
  ASSUME StackOK, Clean, stack # << >>, Return
  PROVE  \A f \in Elems(stack') : CleanFrame(f)
BY ElemsOfTail DEF StackOK, Clean, Return

LEMMA BecomeClean ==
  ASSUME StackOK, Clean, stack # << >>, NEW fs, IsSeq(fs), Become(fs),
         \A f \in Elems(fs) : CleanFrame(f)
  PROVE  \A f \in Elems(stack') : CleanFrame(f)
BY ElemsOfBecome DEF StackOK, Clean, Become

LEMMA ListClean == ASSUME StackOK, Clean, List PROVE Clean'
<1>1. stack # << >> /\ UNCHANGED <<effs, cells, stdin, stdout, word, staged>>
  BY DEF List, In, Flow
<1>2. CASE Frame.ss = << >>
  BY <1>1, <1>2, ReturnClean DEF List, Clean, Unmarked
<1>3. CASE Frame.ss # << >>
  <2> DEFINE fs == << StmtFrame(Head(Frame.ss)), ListFrame(Tail(Frame.ss)) >>
  <2>1. IsSeq(fs) /\ \A f \in Elems(fs) : CleanFrame(f)
    BY Tuples, PlainFramesClean
  <2>2. Become(fs)
    BY <1>3 DEF List
  <2> QED
    BY <1>1, <2>1, <2>2, BecomeClean DEF Clean, Unmarked
<1> QED
  BY <1>2, <1>3

LEMMA StatementClean == ASSUME StackOK, Clean, Statement PROVE Clean'
<1> DEFINE a == [k |-> "redirs", rs |-> Frame.s.redirs]
           b == [k |-> "run", s |-> Frame.s]
           fs == << a, b, StatementEnd >>
<1>1. stack # << >> /\ UNCHANGED <<effs, cells, stdin, stdout, word, staged>> /\ Become(fs)
  BY DEF Statement, In, Flow
<1>2. CleanFrame(StatementEnd)
  BY DEF CleanFrame, StatementEnd, EndFrame, Clean
<1>3. IsSeq(fs) /\ \A f \in Elems(fs) : CleanFrame(f)
  BY <1>2, Tuples, PlainFramesClean
<1> QED
  BY <1>1, <1>3, BecomeClean DEF Clean, Unmarked

LEMMA RedirectionsClean ==
  ASSUME StackOK, Clean, Redirections, NamesNone(effs') PROVE Clean'
<1>1. stack # << >> /\ UNCHANGED <<cells, stdout, word, staged>>
  BY DEF Redirections, In
<1>2. CASE Return /\ UNCHANGED <<effs, stdin>>
  BY <1>1, <1>2, ReturnClean DEF Clean, Unmarked
<1>3. CASE Redirect(Head(Frame.rs)) /\ Become(<< [k |-> "redirs", rs |-> Tail(Frame.rs)] >>)
  <2> DEFINE r == Head(Frame.rs)
             fs == << [k |-> "redirs", rs |-> Tail(Frame.rs)] >>
  <2>1. IsSeq(fs) /\ \A f \in Elems(fs) : CleanFrame(f)
    BY Tuples, PlainFramesClean
  <2>2. \A f \in Elems(stack') : CleanFrame(f)
    BY <1>1, <1>3, <2>1, BecomeClean
  <2>3. PICK k, t : /\ effs' = Append(effs, Eff(k, t, {}))
                    /\ k # "EnvRead"
                    /\ \/ r.r = "in" /\ t = Scope(r.p)
                       \/ r.r # "in"
    BY <1>3 DEF Redirect
  <2> DEFINE e == Eff(k, t, {})
  <2>4. effs' = effs \o << e >> /\ IsSeq(<< e >>) /\ Elems(<< e >>) = {e}
    BY <2>3, AppendIsConcat, Tuples DEF StackOK
  <2>e. e.kind = k /\ e.target = t /\ e.taint = {}
    BY DEF Eff
  <2> HIDE DEF e, fs
  <2>5. Unmarked(<< e >>)
    BY <2>3, <2>4, <2>e DEF Unmarked
  <2>6. Unmarked(effs') /\ NamesNone(<< e >>)
    BY <2>4, <2>5, Concatenated DEF StackOK, Clean
  <2>7. r.r = "in" => r.p # Key
    BY <2>3, <2>4, <2>e, <2>6, ScopeOfKey DEF NamesNone
  <2>8. Secret \notin stdin'
    <3>1. CASE r.r = "in"
      BY <1>3, <2>7, <3>1 DEF Redirect, SecretPath, Clean
    <3>2. CASE r.r = "here"
      BY <1>3, <3>2, WordIsClean DEF Redirect, Clean
    <3>3. CASE r.r \notin {"in", "here"}
      BY <1>3, <3>3 DEF Redirect, Clean
    <3> QED
      BY <3>1, <3>2, <3>3
  <2> QED
    BY <1>1, <2>2, <2>6, <2>8 DEF Clean
<1> QED
  BY <1>2, <1>3 DEF Redirections

LEMMA CommandClean == ASSUME StackOK, Clean, Command PROVE Clean'
<1> DEFINE c == Frame.s.c
           pipe == [k |-> "pipe", ss |-> c.ss, first |-> TRUE, stdin |-> stdin, cells |-> cells]
           body == CASE c.op \in {"group", "sub"} -> << ListFrame(c.ss) >>
                     [] c.op = "pipe" -> << pipe >>
                     [] OTHER -> << [k |-> "call", c |-> c] >>
           copied == Frame.s.bg \/ c.op = "sub"
           left == IF copied THEN << LeaveFrame >> ELSE << >>
<1>1. stack # << >> /\ UNCHANGED <<effs, cells, stdin, stdout, word, staged>> /\ Become(body \o left)
  BY DEF Command, In, Flow
<1>2. IsSeq(body) /\ \A f \in Elems(body) : CleanFrame(f)
  <2>1. CASE c.op \in {"group", "sub"}
    <3>1. body = << ListFrame(c.ss) >>
      BY <2>1
    <3> QED
      BY <3>1, Tuples, PlainFramesClean
  <2>2. CASE c.op = "pipe"
    <3>1. body = << pipe >>
      BY <2>2
    <3>2. CleanFrame(pipe)
      BY DEF CleanFrame, Clean
    <3> HIDE DEF pipe, body
    <3> QED
      BY <3>1, <3>2, Tuples
  <2>3. CASE c.op \notin {"group", "sub", "pipe"}
    <3>1. body = << [k |-> "call", c |-> c] >>
      BY <2>3
    <3> QED
      BY <3>1, Tuples, PlainFramesClean
  <2> QED
    BY <2>1, <2>2, <2>3
<1>3. IsSeq(left) /\ \A f \in Elems(left) : CleanFrame(f)
  <2>1. CleanFrame(LeaveFrame)
    BY DEF CleanFrame, LeaveFrame, Clean
  <2> QED
    BY <2>1, Tuples
<1> HIDE DEF body, left
<1>4. IsSeq(body \o left) /\ \A f \in Elems(body \o left) : CleanFrame(f)
  BY <1>2, <1>3, ConcatIsSeq, ElemsOfConcat
<1> QED
  BY <1>1, <1>4, BecomeClean DEF Clean, Unmarked

LEMMA LeaveClean == ASSUME StackOK, Clean, Leave PROVE Clean'
<1>1. stack # << >> /\ UNCHANGED <<effs, stdin, stdout, word, staged>> /\ Return
  BY DEF Leave, In, Flow
<1>2. \A x \in Vars : Secret \notin cells'[x]
  BY <1>1, FrameIsClean DEF Leave, In, CleanFrame
<1> QED
  BY <1>1, <1>2, ReturnClean DEF Clean, Unmarked

LEMMA StageClean == ASSUME StackOK, Clean, Stage PROVE Clean'
<1>1. stack # << >> /\ Frame.k = "pipe" /\ UNCHANGED <<effs, word, staged>> /\ cells' = Frame.cells
  BY DEF Stage, In
<1>2. Secret \notin Frame.stdin /\ \A x \in Vars : Secret \notin Frame.cells[x]
  BY <1>1, FrameIsClean DEF CleanFrame
<1>3. Secret \notin stdin' /\ Secret \notin stdout'
  BY <1>2 DEF Stage, Clean
<1>4. CASE Return
  BY <1>1, <1>2, <1>3, <1>4, ReturnClean DEF Clean, Unmarked
<1>5. CASE Frame.ss # << >>
  <2> DEFINE a == StmtFrame(Head(Frame.ss))
             b == [k |-> "pipe", ss |-> Tail(Frame.ss), first |-> FALSE,
                   stdin |-> Frame.stdin, cells |-> Frame.cells]
             fs == << a, b >>
  <2>1. CleanFrame(b)
    BY <1>2 DEF CleanFrame
  <2>2. Become(fs)
    BY <1>5 DEF Stage
  <2> HIDE DEF b
  <2>3. IsSeq(fs) /\ \A f \in Elems(fs) : CleanFrame(f)
    BY <2>1, Tuples, PlainFramesClean
  <2> QED
    BY <1>1, <1>2, <1>3, <2>2, <2>3, BecomeClean DEF Clean, Unmarked
<1> QED
  BY <1>4, <1>5 DEF Stage

LEMMA CallClean == ASSUME StackOK, Clean, Call PROVE Clean'
<1> DEFINE c == Frame.c
           sub == [k |-> "subst", ss |-> c.word.ss, ran |-> FALSE, taint |-> {}, cells |-> cells]
           bind == [k |-> "bind", c |-> c, start |-> Len(effs)]
           first == IF c.word.w = "subst" THEN << sub >> ELSE << >>
<1>1. /\ stack # << >> /\ UNCHANGED <<effs, cells, stdin, word, staged>> /\ stdout' = {}
      /\ Become(first \o << bind >>)
  BY DEF Call, In
<1>2. CleanFrame(sub) /\ CleanFrame(bind)
  BY DEF CleanFrame, Clean
<1> HIDE DEF sub, bind
<1>3. IsSeq(first) /\ Elems(first) \subseteq {sub} /\ IsSeq(<< bind >>) /\ Elems(<< bind >>) = {bind}
  BY Tuples
<1> HIDE DEF first
<1>4. IsSeq(first \o << bind >>) /\ \A f \in Elems(first \o << bind >>) : CleanFrame(f)
  BY <1>2, <1>3, ConcatIsSeq, ElemsOfConcat
<1> QED
  BY <1>1, <1>4, BecomeClean DEF Clean, Unmarked

LEMMA SubstitutionClean == ASSUME StackOK, Clean, Substitution PROVE Clean'
<1> DEFINE t == FoldedOutput(Frame)
<1>1. stack # << >> /\ Frame.k = "subst" /\ UNCHANGED <<effs, stdin, staged>> /\ stdout' = {}
  BY DEF Substitution, In
<1>2. Secret \notin Frame.taint /\ \A x \in Vars : Secret \notin Frame.cells[x]
  BY <1>1, FrameIsClean DEF CleanFrame
<1>3. Secret \notin t
  BY <1>2 DEF FoldedOutput, Clean
<1>4. Secret \notin word' /\ \A x \in Vars : Secret \notin cells'[x]
  BY <1>2, <1>3 DEF Substitution, Clean
<1> HIDE DEF t
<1>5. CASE Frame.ss = << >>
  BY <1>1, <1>4, <1>5, ReturnClean DEF Substitution, Clean, Unmarked
<1>6. CASE Frame.ss # << >>
  <2> DEFINE a == StmtFrame(Head(Frame.ss))
             b == [k |-> "subst", ss |-> Tail(Frame.ss), ran |-> TRUE, taint |-> t,
                   cells |-> Frame.cells]
             fs == << a, b >>
  <2>1. CleanFrame(b)
    BY <1>2, <1>3 DEF CleanFrame
  <2>2. Become(fs)
    BY <1>6 DEF Substitution, t
  <2> HIDE DEF b
  <2>3. IsSeq(fs) /\ \A f \in Elems(fs) : CleanFrame(f)
    BY <2>1, Tuples, PlainFramesClean
  <2> QED
    BY <1>1, <1>4, <2>2, <2>3, BecomeClean DEF Clean, Unmarked
<1> QED
  BY <1>5, <1>6

\* A list put in the place of its end.
LEMMA ReplacedUnmarked ==
  ASSUME StackOK, Clean, NEW n \in 0 .. Len(effs), NEW es, IsSeq(es)
  PROVE  /\ NamesNone(Replaced(n, es)) => NamesNone(es)
         /\ Unmarked(es) => Unmarked(Replaced(n, es))
         /\ IsSeq(From(n)) /\ Unmarked(From(n))
<1>1. IsSeq(SubSeq(effs, 1, n)) /\ IsSeq(From(n))
  BY SplitIsSeq DEF StackOK, From
<1>2. Unmarked(SubSeq(effs, 1, n)) /\ Unmarked(From(n))
  BY PartUnmarked DEF StackOK, Clean, Unmarked, From
<1> QED
  BY <1>1, <1>2, Concatenated DEF Replaced

LEMMA BindClean == ASSUME StackOK, Clean, Bind, NamesNone(effs') PROVE Clean'
<1> DEFINE c == Frame.c
           l == WordTaint(c.word)
           kept == l \cup (IF c.word.w = "env" THEN {Secret} ELSE {})
           es == From(Frame.start) \o EnvReads(c.word)
           all == es \o Bound(c, l)
           new == EgressWithSecret(all, l)
<1>1. stack # << >> /\ UNCHANGED <<stdin, word, staged>> /\ Return
  BY DEF Bind, In
<1>2. Frame.start \in 0 .. Len(effs)
  BY <1>1, FrameIsOK DEF Bind, In, FrameOK
<1>3. Secret \notin l /\ IsSeq(EnvReads(c.word)) /\ IsSeq(Bound(c, l))
  BY WordIsClean, EnvReadsIsSeq, BoundIsSeq
<1>4. CASE c.op = "assign"
  <2> DEFINE e == Eff("EnvWrite", Scope(c.x), kept)
  <2>1. /\ effs' = (effs \o << e >>) \o EnvReads(c.word)
        /\ cells' = [cells EXCEPT ![c.x] = kept] /\ stdout' = stdout
    BY <1>4 DEF Bind
  <2>2. IsSeq(<< e >>) /\ IsSeq(effs \o << e >>) /\ Elems(<< e >>) = {e}
    BY Tuples, ConcatIsSeq DEF StackOK
  <2>3. e.taint = kept /\ e.kind = "EnvWrite"
    BY DEF Eff
  <2> HIDE DEF e, kept
  <2>4. NamesNone(EnvReads(c.word))
    BY <1>3, <2>1, <2>2, Concatenated
  <2>5. Secret \notin kept /\ EnvReads(c.word) = << >>
    BY <1>3, <2>4, TokenIsNamed DEF kept
  <2>6. Unmarked(<< e >>) /\ Unmarked(EnvReads(c.word))
    BY <2>2, <2>3, <2>5, Tuples DEF Unmarked
  <2>7. Unmarked(effs')
    <3>1. Unmarked(effs \o << e >>)
      BY <2>2, <2>6, Concatenated DEF StackOK, Clean
    <3> QED
      BY <1>3, <2>1, <2>2, <2>6, <3>1, Concatenated
  <2>8. \A x \in Vars : Secret \notin cells'[x]
    BY <2>1, <2>5 DEF StackOK, Clean
  <2> QED
    BY <1>1, <2>1, <2>7, <2>8, ReturnClean DEF Clean
<1>5. CASE c.op # "assign"
  <2>1. effs' = Replaced(Frame.start, new) /\ cells' = cells /\ stdout' = OutTaint(all) \cup l
    BY <1>5 DEF Bind
  <2>2. IsSeq(From(Frame.start)) /\ Unmarked(From(Frame.start))
    BY <1>2, Tuples, ReplacedUnmarked
  <2>3. IsSeq(es) /\ IsSeq(all)
    BY <1>3, <2>2, ConcatIsSeq
  <2>4. Extends(all, new)
    BY <2>3, PassesExtend
  <2> HIDE DEF new, all, es
  <2>5. NamesNone(new)
    BY <1>2, <2>1, <2>4, ReplacedUnmarked DEF Extends
  <2>6. NamesNone(all)
    BY <2>4, <2>5, NamesNoneBefore
  <2>7. NamesNone(es) /\ NamesNone(Bound(c, l))
    BY <1>3, <2>3, <2>6, Concatenated DEF all
  <2>8. NamesNone(EnvReads(c.word))
    BY <1>3, <2>2, <2>7, Concatenated DEF es
  <2>9. Unmarked(EnvReads(c.word))
    BY <2>8, TokenIsNamed, Tuples DEF Unmarked
  <2>10. Unmarked(Bound(c, l))
    BY <1>3, <2>7, BoundUnmarked DEF Clean
  <2>11. Unmarked(all)
    <3>1. Unmarked(es)
      BY <1>3, <2>2, <2>9, Concatenated DEF es
    <3> QED
      BY <1>3, <2>3, <2>10, <3>1, Concatenated DEF all
  <2>12. new = all
    BY <1>3, <2>3, <2>6, <2>11, PassesUnmarked DEF new
  <2>13. Secret \notin OutTaint(all)
    BY <2>3, <2>6, <2>11, NothingRead DEF OutTaint, Clean
  <2>14. Unmarked(effs')
    BY <1>2, <2>1, <2>3, <2>11, <2>12, ReplacedUnmarked
  <2> QED
    BY <1>1, <1>3, <2>1, <2>13, <2>14, ReturnClean DEF Clean
<1> QED
  BY <1>4, <1>5

LEMMA EndClean == ASSUME StackOK, Clean, EndOfStatement, NamesNone(effs') PROVE Clean'
<1> DEFINE fed == Relabel(effs, pending, stdout \cup stdin)
           own == SubSeq(fed, Frame.start + 1, Len(fed))
           es == ReadBack(own)
           new == EgressWithSecret(Staging(es), {})
<1>1. /\ stack # << >> /\ Return /\ UNCHANGED <<cells, stdout, word>> /\ stdin' = Frame.stdin
      /\ effs' = Replaced(Frame.start, new)
      /\ staged' = staged \cup StagedBy(es)
  BY DEF EndOfStatement, In
<1>2. Frame.start \in 0 .. Len(effs) /\ Secret \notin Frame.stdin
  BY <1>1, FrameIsOK, FrameIsClean DEF EndOfStatement, In, FrameOK, CleanFrame
<1>3. IsSeq(fed) /\ Len(fed) = Len(effs) /\ Unmarked(fed)
  BY RelabelExtends, RelabelUnmarked DEF StackOK, Clean, Extends
<1> HIDE DEF fed
<1>4. IsSeq(own)
  BY <1>2, <1>3, SplitIsSeq
<1>5. Unmarked(own)
  BY <1>2, <1>3, PartUnmarked DEF Unmarked
<1> HIDE DEF own
<1>6. es = own
  BY DEF ReadBack, StagedReads, Clean
<1> HIDE DEF es
<1>7. Extends(own, Staging(es)) /\ Extends(Staging(es), new)
  BY <1>4, <1>6, PassesExtend DEF Extends
<1> HIDE DEF new
<1>8. NamesNone(own)
  <2>1. NamesNone(new)
    BY <1>1, <1>2, <1>7, ReplacedUnmarked DEF Extends
  <2> QED
    BY <1>7, <2>1, NamesNoneBefore
<1>9. new = own /\ StagedBy(es) = {}
  BY <1>4, <1>5, <1>6, <1>8, PassesUnmarked DEF new
<1>10. Unmarked(effs')
  BY <1>1, <1>2, <1>4, <1>5, <1>9, ReplacedUnmarked
<1> QED
  BY <1>1, <1>2, <1>9, <1>10, ReturnClean DEF Clean

LEMMA StepClean ==
  ASSUME StackOK, Clean, [Next]_vars, NamesNone(effs')
  PROVE  Clean'
<1>1. CASE UNCHANGED flowVars
  BY <1>1 DEF flowVars, Clean, Unmarked, CleanFrame
<1>2. CASE Compose
  BY <1>2 DEF Compose, Flow, Clean, Unmarked, CleanFrame
<1>3. CASE Analyse
  BY <1>2, <1>3, ListClean, StatementClean, RedirectionsClean, CommandClean, LeaveClean,
     StageClean, CallClean, SubstitutionClean, BindClean, EndClean DEF Analyse
<1> QED
  BY <1>1, <1>3 DEF Next, RunFlow, RunShell, Finished, vars

\* While no effect names a credential, no file is staged and nothing carries
\* the secret label: "the rule never fabricates a source", for every program.
THEOREM NeverFabricates == Spec => []NothingFabricated
<1>1. Init => CleanUnlessNamed
  <2> SUFFICES ASSUME Init PROVE Clean
    BY DEF CleanUnlessNamed
  <2>1. Elems(effs) = {} /\ Elems(stack) = {ListFrame(prog)}
    BY Tuples DEF Init, FlowInit
  <2> QED
    BY <2>1, PlainFramesClean DEF Init, FlowInit, Clean, Unmarked
<1>2. StackOK /\ CleanUnlessNamed /\ [Next]_vars => StackOK' /\ CleanUnlessNamed'
  <2> SUFFICES ASSUME StackOK, CleanUnlessNamed, [Next]_vars, NamesNone(effs')
               PROVE  Clean' /\ StackOK'
    BY StepKeeps DEF Kept, CleanUnlessNamed, NamesNone
  <2>1. StackOK' /\ Extends(effs, effs')
    BY StepKeeps DEF Kept
  <2>2. Clean
    BY <2>1, NamesNoneBefore DEF CleanUnlessNamed
  <2> QED
    BY <2>1, <2>2, StepClean
<1>3. StackOK /\ CleanUnlessNamed => NothingFabricated
  <2> SUFFICES ASSUME StackOK, CleanUnlessNamed,
                      \A i \in DOMAIN effs : /\ ~SecretTarget(effs[i].target)
                                             /\ Token \notin effs[i].target.elems
               PROVE  /\ staged = {}
                      /\ \A i \in DOMAIN effs : Secret \notin effs[i].taint
                      /\ \A x \in Vars : Secret \notin cells[x]
                      /\ Secret \notin stdin \cup stdout
    BY DEF NothingFabricated
  <2>1. DOMAIN effs = 1 .. Len(effs)
    <3>1. PICK T : effs \in Seq(T)
      BY DEF StackOK, IsSeq
    <3> QED
      BY <3>1
  <2>2. NamesNone(effs)
    BY <2>1 DEF NamesNone, Elems
  <2>3. Clean
    BY <2>2 DEF CleanUnlessNamed
  <2> QED
    BY <2>1, <2>3 DEF Clean, Unmarked, Elems
<1> QED
  BY <1>1, <1>2, <1>3, InitOK, PTL DEF Spec

-----------------------------------------------------------------------------
\* Types.

StmtLists == Seq(Statements)
Cells     == [Vars -> SUBSET Labels]
Calls     == {c \in CommandsOf(Statements) : c.op \in Simple}

\* What the fields of a statement, a command, a word and a redirection hold.
LEMMA StatementFields ==
  ASSUME NEW s \in Statements
  PROVE  s.c \in CommandsOf(Statements) /\ s.redirs \in Seq(Redirects) /\ s.bg \in BOOLEAN
<1>1. s \in StatementsOf(Statements)
  BY SyntaxAssumption
<1> QED
  BY <1>1 DEF StatementsOf

LEMMA CommandFields ==
  ASSUME NEW c \in CommandsOf(Statements)
  PROVE  /\ c.op \in Simple \cup {"pipe", "group", "sub"}
         /\ c.op \in {"pipe", "group", "sub"} => c.ss \in StmtLists
         /\ c.op \in {"cat", "put", "form", "cp", "mv"} => c.src \in Operands
         /\ c.op \in {"cp", "mv", "tee"} => c.dst \in Operands
         /\ c.op = "assign" => c.x \in Vars
         /\ c.op \in Simple => c.word \in Words(Statements)
<1> DEFINE W == Words(Statements)
<1>0. Lit \in W
  BY DEF Words, PlainWords, Lit
<1> HIDE DEF W
<1>1. CASE c \in [op : {"cat", "put", "form"}, src : Operands, word : {Lit}]
  BY <1>0, <1>1 DEF Simple, W
<1>2. CASE c \in [op : {"cp", "mv"}, src : Operands, dst : Operands, word : {Lit}]
  BY <1>0, <1>2 DEF Simple, W
<1>3. CASE c \in [op : {"tee"}, dst : Operands, word : {Lit}]
  BY <1>0, <1>3 DEF Simple, W
<1>4. CASE c \in [op : {"pass", "get", "postIn"}, word : {Lit}]
  BY <1>0, <1>4 DEF Simple, W
<1>5. CASE c \in [op : {"printf", "post"}, word : W]
  BY <1>5 DEF Simple, W
<1>6. CASE c \in [op : {"assign"}, x : Vars, word : W]
  BY <1>6 DEF Simple, W
<1>7. CASE c \in [op : {"pipe", "group", "sub"}, ss : StmtLists]
  BY <1>7 DEF Simple
<1> QED
  BY <1>1, <1>2, <1>3, <1>4, <1>5, <1>6, <1>7, Zenon DEF CommandsOf, W, StmtLists

LEMMA WordFields ==
  ASSUME NEW v \in Words(Statements)
  PROVE  /\ v.w = "var" => v.x \in Vars
         /\ v.w = "subst" => v.ss \in StmtLists
<1>1. CASE v \in [w : {"lit", "env"}]
  BY <1>1
<1>2. CASE v \in [w : {"var"}, x : Vars]
  BY <1>2
<1>3. CASE v \in [w : {"subst"}, ss : StmtLists]
  BY <1>3
<1> QED
  BY <1>1, <1>2, <1>3 DEF Words, PlainWords, StmtLists

LEMMA RedirectFields ==
  ASSUME NEW r \in Redirects
  PROVE  /\ r.r \in {"in", "out", "net", "here"}
         /\ r.r \in {"in", "out"} => r.p \in Operands
         /\ r.r = "here" => r.word \in Words(Statements)
<1>1. CASE r \in [r : {"in", "out"}, p : Operands]
  BY <1>1
<1>2. CASE r \in [r : {"net"}]
  BY <1>2
<1>3. CASE r \in [r : {"here"}, word : PlainWords]
  BY <1>3 DEF Words
<1> QED
  BY <1>1, <1>2, <1>3 DEF Redirects

\* The first of a list of statements, and the others.
LEMMA ListParts ==
  ASSUME NEW T, NEW ss \in Seq(T), ss # << >>
  PROVE  Head(ss) \in T /\ Tail(ss) \in Seq(T)
OBVIOUS

-----------------------------------------------------------------------------
\* An effect, and a list of them.  What a program writes are files.
EffectOK(e) ==
  /\ e \in [kind : EffectKinds, target : FlatSet(Targets), taint : SUBSET Labels]
  /\ e.kind = "FSWrite" => e.target.elems \subseteq Paths

LEMMA EffIsOK ==
  ASSUME NEW k \in EffectKinds, NEW t \in FlatSet(Targets), NEW l \in SUBSET Labels,
         k = "FSWrite" => t.elems \subseteq Paths
  PROVE  EffectOK(Eff(k, t, l))
BY DEF EffectOK, Eff

LEMMA ScopesAreFlat ==
  /\ \A p \in Operands : Scope(p) \in FlatSet(Targets) /\ Scope(p).elems \subseteq Paths
  /\ \A x \in Vars \cup {Token} : Scope(x) \in FlatSet(Targets)
  /\ NoTarget \in FlatSet(Targets)
<1>1. ASSUME NEW p \in Paths \cup Vars \cup {Token} \cup {Unknown}
      PROVE  Scope(p) \in FlatSet(Targets) /\ (p \in Operands => Scope(p).elems \subseteq Paths)
  <2>1. CASE p = Unknown
    BY <2>1 DEF Scope, FlatTop, FlatSet
  <2>2. CASE p # Unknown
    <3>1. Scope(p) = FlatOf({p}) /\ {p} \subseteq Targets /\ (p \in Operands => p \in Paths)
      BY <2>2, NamesAssumption DEF Scope, Operands
    <3> QED
      BY <3>1 DEF FlatOf, FlatSet
  <2> QED
    BY <2>1, <2>2
<1>2. NoTarget \in FlatSet(Targets)
  BY DEF NoTarget, FlatOf, FlatSet
<1> QED
  BY <1>1, <1>2 DEF Operands

EffectsOK(es) == IsSeq(es) /\ \A e \in Elems(es) : EffectOK(e)

LEMMA ConcatEffects ==
  ASSUME NEW a, NEW b, EffectsOK(a), EffectsOK(b)
  PROVE  EffectsOK(a \o b)
BY ConcatIsSeq, ElemsOfConcat DEF EffectsOK

LEMMA RelabelEffects ==
  ASSUME NEW es, EffectsOK(es), NEW I, NEW l \in SUBSET Labels
  PROVE  EffectsOK(Relabel(es, I, l))
<1> DEFINE r == Relabel(es, I, l)
<1>1. /\ Len(r) = Len(es) /\ IsSeq(r)
      /\ \A i \in 1 .. Len(es) : r[i] \in {es[i], Carrying(es[i], l)}
  BY RelabelExtends DEF EffectsOK, Extends
<1> HIDE DEF r
<1>2. ASSUME NEW i \in 1 .. Len(es) PROVE EffectOK(r[i])
  <2>1. EffectOK(es[i])
    BY DEF EffectsOK, Elems
  <2>2. EffectOK(Carrying(es[i], l))
    BY <2>1 DEF Carrying, Eff, EffectOK
  <2> QED
    BY <1>1, <2>1, <2>2
<1>3. EffectsOK(r)
  BY <1>1, <1>2 DEF EffectsOK, Elems
<1> QED
  BY <1>3 DEF r

LEMMA PartEffects ==
  ASSUME NEW es, EffectsOK(es), NEW n \in 0 .. Len(es)
  PROVE  EffectsOK(SubSeq(es, 1, n)) /\ EffectsOK(SubSeq(es, n + 1, Len(es)))
BY PartUnmarked, SplitIsSeq DEF EffectsOK

LEMMA SecretIsLabel == {Secret} \in SUBSET Labels /\ {File} \in SUBSET Labels /\ {Untrusted} \in SUBSET Labels
BY NamesAssumption

LEMMA PassesEffects ==
  ASSUME NEW es, EffectsOK(es)
  PROVE  /\ \A l : EffectsOK(EgressWithSecret(es, l))
         /\ EffectsOK(ReadBack(es))
         /\ EffectsOK(Staging(es))
         /\ StagedBy(es) \subseteq Paths
<1>1. /\ \A l : EffectsOK(EgressWithSecret(es, l))
      /\ EffectsOK(ReadBack(es))
      /\ EffectsOK(Staging(es))
  BY RelabelEffects, SecretIsLabel DEF EgressWithSecret, ReadBack, Staging
<1>2. DOMAIN es = 1 .. Len(es)
  <2>1. PICK T : es \in Seq(T)
    BY DEF EffectsOK, IsSeq
  <2> QED
    BY <2>1
<1>3. \A i \in Writes(es) : es[i].target.elems \subseteq Paths
  <2>1. ASSUME NEW i \in DOMAIN es, es[i].kind = "FSWrite" PROVE es[i].target.elems \subseteq Paths
    <3>1. EffectOK(es[i])
      BY <1>2 DEF EffectsOK, Elems
    <3> QED
      BY <2>1, <3>1 DEF EffectOK
  <2> QED
    BY <2>1 DEF Writes, OfKind
<1>4. StagedBy(es) \subseteq Paths
  BY <1>3 DEF StagedBy, Named
<1> QED
  BY <1>1, <1>4

\* What a list of effects reads.
LEMMA TaintReadIsTaint ==
  ASSUME NEW es, EffectsOK(es), NEW K
  PROVE  TaintRead(es, K) \in SUBSET Labels
<1>1. DOMAIN es = 1 .. Len(es)
  <2>1. PICK T : es \in Seq(T)
    BY DEF EffectsOK, IsSeq
  <2> QED
    BY <2>1
<1>2. \A i \in OfKind(es, K) : es[i].taint \subseteq Labels
  <2>1. ASSUME NEW i \in DOMAIN es PROVE es[i].taint \subseteq Labels
    <3>1. EffectOK(es[i])
      BY <1>1 DEF EffectsOK, Elems
    <3> QED
      BY <3>1 DEF EffectOK
  <2> QED
    BY <2>1 DEF OfKind
<1> QED
  BY <1>2, SecretIsLabel DEF TaintRead

\* The effects a command declares, and those bound to it.
LEMMA DeclaredEffects ==
  ASSUME NEW c \in Calls, NEW l \in SUBSET Labels, stdin \in SUBSET Labels
  PROVE  EffectsOK(Declared(c, l)) /\ EffectsOK(Bound(c, l))
<1>0. /\ \A k \in {"FSRead", "FSMeta", "FSWrite"}, p \in Operands : EffectOK(Eff(k, Scope(p), {}))
      /\ \A k \in {"NetEgress", "Stdio"}, m \in SUBSET Labels : EffectOK(Eff(k, NoTarget, m))
      /\ \A p \in Operands, m \in SUBSET Labels : EffectOK(Eff("FSRead", Scope(p), m))
      /\ \A p \in Operands : FilePayload(p) \in SUBSET Labels
      /\ EffectOK(Request)
  <2>1. {"FSRead", "FSMeta", "FSWrite", "NetEgress", "Stdio"} \subseteq EffectKinds
    BY DEF EffectKinds
  <2>2. \A p \in Operands : FilePayload(p) \in SUBSET Labels
    BY SecretIsLabel DEF FilePayload
  <2>3. \A k \in {"FSRead", "FSMeta", "FSWrite"}, p \in Operands : EffectOK(Eff(k, Scope(p), {}))
    BY <2>1, ScopesAreFlat, EffIsOK
  <2>4. \A k \in {"NetEgress", "Stdio"}, m \in SUBSET Labels : EffectOK(Eff(k, NoTarget, m))
    BY <2>1, ScopesAreFlat, EffIsOK
  <2>5. \A p \in Operands, m \in SUBSET Labels : EffectOK(Eff("FSRead", Scope(p), m))
    BY <2>1, ScopesAreFlat, EffIsOK
  <2> QED
    BY <2>2, <2>3, <2>4, <2>5 DEF Request
<1>1. /\ c.op \in {"cat", "put", "form", "cp", "mv"} => c.src \in Operands
      /\ c.op \in {"cp", "mv", "tee"} => c.dst \in Operands
  BY CommandFields DEF Calls
<1>2. EffectsOK(Declared(c, l))
  <2>1. CASE c.op = "cat"
    BY <2>1, <1>0, <1>1, Tuples DEF Declared, EffectsOK
  <2>2. CASE c.op = "cp"
    BY <2>2, <1>0, <1>1, Tuples DEF Declared, EffectsOK
  <2>3. CASE c.op = "mv"
    BY <2>3, <1>0, <1>1, Tuples DEF Declared, EffectsOK
  <2>4. CASE c.op = "tee"
    BY <2>4, <1>0, <1>1, Tuples DEF Declared, EffectsOK
  <2>5. CASE c.op = "printf"
    BY <2>5, <1>0, <1>1, Tuples DEF Declared, EffectsOK
  <2>6. CASE c.op = "put"
    BY <2>6, <1>0, <1>1, Tuples DEF Declared, EffectsOK
  <2>7. CASE c.op = "form"
    BY <2>7, <1>0, <1>1, Tuples DEF Declared, EffectsOK
  <2>8. CASE c.op = "post"
    BY <2>8, <1>0, <1>1, Tuples DEF Declared, EffectsOK
  <2>9. CASE c.op = "get"
    BY <2>9, <1>0, <1>1, Tuples DEF Declared, EffectsOK
  <2>11. CASE c.op = "postIn"
    BY <2>11, <1>0, <1>1, Tuples DEF Declared, EffectsOK
  <2>10. CASE c.op \notin {"cat", "cp", "mv", "tee", "printf", "put", "form", "post", "get", "postIn"}
    BY <2>10, Tuples DEF Declared, EffectsOK
  <2> QED
    BY <2>1, <2>2, <2>3, <2>4, <2>5, <2>6, <2>7, <2>8, <2>9, <2>10, <2>11
<1>3. stdin \cup TaintRead(Declared(c, l), {"FSRead"}) \in SUBSET Labels
  BY <1>2, TaintReadIsTaint
<1> QED
  BY <1>2, <1>3, RelabelEffects DEF Bound, TaintEgress

LEMMA EnvReadEffects == ASSUME NEW v PROVE EffectsOK(EnvReads(v))
<1>1. EffectOK(Eff("EnvRead", Scope(Token), {Secret}))
  BY ScopesAreFlat, EffIsOK, SecretIsLabel DEF EffectKinds
<1> QED
  BY <1>1, Tuples DEF EnvReads, EffectsOK

-----------------------------------------------------------------------------
\* The types of the calls in progress and of the state.  A call that is to
\* restore the queued egress names effects that exist.
FrameTyped(f, n) ==
  /\ f.k \in {"list", "pipe", "subst"} => f.ss \in StmtLists
  /\ f.k \in {"stmt", "run"} => f.s \in Statements
  /\ f.k = "redirs" => f.rs \in Seq(Redirects)
  /\ f.k \in {"call", "bind"} => f.c \in Calls
  /\ f.k \in {"leave", "pipe", "subst"} => f.cells \in Cells
  /\ f.k \in {"end", "pipe"} => f.stdin \in SUBSET Labels
  /\ f.k = "subst" => f.taint \in SUBSET Labels
  /\ f.k = "end" => f.pending \subseteq 1 .. n

Typed ==
  /\ EffectsOK(effs)
  /\ cells \in Cells
  /\ stdin \in SUBSET Labels /\ stdout \in SUBSET Labels /\ word \in SUBSET Labels
  /\ staged \subseteq Paths
  /\ pending \subseteq 1 .. Len(effs)
  /\ mode \in {"analyse", "done"}
  /\ \A f \in Elems(stack) : FrameTyped(f, Len(effs))

\* What a step that keeps the effects leaves to show of the calls.
LEMMA FramesStayTyped ==
  ASSUME StackOK, Extends(effs, effs')
  PROVE  /\ Len(effs) \in Nat /\ Len(effs') \in Nat /\ 1 .. Len(effs) \subseteq 1 .. Len(effs')
         /\ \A f : FrameTyped(f, Len(effs)) => FrameTyped(f, Len(effs'))
<1>1. Len(effs) \in Nat /\ Len(effs') \in Nat /\ Len(effs) <= Len(effs')
  BY ConcatIsSeq DEF Extends
<1>2. 1 .. Len(effs) \subseteq 1 .. Len(effs')
  BY <1>1
<1> QED
  BY <1>1, <1>2 DEF FrameTyped

LEMMA ReturnTyped ==
  ASSUME StackOK, Typed, stack # << >>, Return, Extends(effs, effs')
  PROVE  \A f \in Elems(stack') : FrameTyped(f, Len(effs'))
BY ElemsOfTail, FramesStayTyped DEF StackOK, Typed, Return

LEMMA BecomeTyped ==
  ASSUME StackOK, Typed, stack # << >>, NEW fs, IsSeq(fs), Become(fs), Extends(effs, effs'),
         \A f \in Elems(fs) : FrameTyped(f, Len(effs))
  PROVE  \A f \in Elems(stack') : FrameTyped(f, Len(effs'))
BY ElemsOfBecome, FramesStayTyped DEF StackOK, Typed, Become

LEMMA FrameIsTyped ==
  ASSUME StackOK, Typed, stack # << >>
  PROVE  FrameTyped(Frame, Len(effs))
BY FrameIsOK DEF Typed

LEMMA PlainFramesTyped ==
  /\ \A ss \in StmtLists : \A n : FrameTyped(ListFrame(ss), n)
  /\ \A s \in Statements : \A n : FrameTyped(StmtFrame(s), n)
  /\ \A rs \in Seq(Redirects) : \A n : FrameTyped([k |-> "redirs", rs |-> rs], n)
  /\ \A s \in Statements : \A n : FrameTyped([k |-> "run", s |-> s], n)
  /\ \A c \in Calls : \A n : FrameTyped([k |-> "call", c |-> c], n)
BY DEF FrameTyped, ListFrame, StmtFrame

LEMMA ListTyped == ASSUME StackOK, Typed, List PROVE Typed'
<1>1. /\ stack # << >> /\ UNCHANGED <<effs, cells, stdin, stdout, word, staged, pending, mode>>
      /\ Extends(effs, effs')
  BY ExtendsItself DEF List, In, Flow, Result, StackOK
<1>2. Frame.ss \in StmtLists
  BY <1>1, FrameIsTyped DEF List, In, FrameTyped
<1>3. \A f \in Elems(stack') : FrameTyped(f, Len(effs'))
  <2>1. CASE Frame.ss = << >>
    BY <1>1, <2>1, ReturnTyped DEF List
  <2>2. CASE Frame.ss # << >>
    <3> DEFINE fs == << StmtFrame(Head(Frame.ss)), ListFrame(Tail(Frame.ss)) >>
    <3>0. Head(Frame.ss) \in Statements /\ Tail(Frame.ss) \in StmtLists
      BY <1>2, <2>2, ListParts DEF StmtLists
    <3>1. IsSeq(fs) /\ \A f \in Elems(fs) : FrameTyped(f, Len(effs))
      BY <3>0, Tuples, PlainFramesTyped
    <3>2. Become(fs)
      BY <2>2 DEF List
    <3> HIDE DEF fs
    <3> QED
      BY <1>1, <3>1, <3>2, BecomeTyped
  <2> QED
    BY <2>1, <2>2
<1> QED
  BY <1>1, <1>3 DEF Typed, EffectsOK

LEMMA StatementTyped == ASSUME StackOK, Typed, Statement PROVE Typed'
<1> DEFINE a == [k |-> "redirs", rs |-> Frame.s.redirs]
           b == [k |-> "run", s |-> Frame.s]
           fs == << a, b, StatementEnd >>
<1>1. /\ stack # << >> /\ UNCHANGED <<effs, cells, stdin, stdout, word, staged, mode>>
      /\ pending' = {} /\ Become(fs) /\ Extends(effs, effs')
  BY ExtendsItself DEF Statement, In, Flow, Result, StackOK
<1>2. Frame.s \in Statements /\ Frame.s.redirs \in Seq(Redirects)
  BY <1>1, FrameIsTyped, StatementFields DEF Statement, In, FrameTyped
<1>3. FrameTyped(StatementEnd, Len(effs))
  BY DEF FrameTyped, StatementEnd, EndFrame, Typed
<1>4. IsSeq(fs) /\ \A f \in Elems(fs) : FrameTyped(f, Len(effs))
  BY <1>2, <1>3, Tuples, PlainFramesTyped
<1> HIDE DEF fs
<1>5. \A f \in Elems(stack') : FrameTyped(f, Len(effs'))
  BY <1>1, <1>4, BecomeTyped
<1> QED
  BY <1>1, <1>5 DEF Typed, EffectsOK

\* The taint of a word.
LEMMA WordTaintIsTaint ==
  ASSUME Typed, NEW v \in Words(Statements)
  PROVE  WordTaint(v) \in SUBSET Labels
BY SecretIsLabel DEF WordTaint, Typed, Cells

LEMMA RedirectionsTyped == ASSUME StackOK, Typed, Redirections PROVE Typed'
<1>1. stack # << >> /\ UNCHANGED <<cells, stdout, word, staged, mode>>
  BY DEF Redirections, In, Result
<1>2. Frame.rs \in Seq(Redirects)
  BY <1>1, FrameIsTyped DEF Redirections, In, FrameTyped
<1>3. CASE Return /\ UNCHANGED <<effs, stdin, pending>>
  <2>1. \A f \in Elems(stack') : FrameTyped(f, Len(effs'))
    BY <1>1, <1>3, ReturnTyped, ExtendsItself DEF StackOK
  <2> QED
    BY <1>1, <1>3, <2>1 DEF Typed, EffectsOK
<1>4. CASE /\ Frame.rs # << >>
           /\ Redirect(Head(Frame.rs))
           /\ Become(<< [k |-> "redirs", rs |-> Tail(Frame.rs)] >>)
  <2> DEFINE r == Head(Frame.rs)
             fs == << [k |-> "redirs", rs |-> Tail(Frame.rs)] >>
  <2>1. r \in Redirects /\ Tail(Frame.rs) \in Seq(Redirects)
    BY <1>2, <1>4, ListParts
  <2>2. /\ r.r \in {"in", "out"} => r.p \in Operands
        /\ r.r = "here" => r.word \in Words(Statements)
        /\ r.r \in {"in", "out", "net", "here"}
    BY <2>1, RedirectFields
  <2>3. \E e : effs' = Append(effs, e) /\ EffectOK(e)
    <3>0. {} \in SUBSET Labels /\ {"FSRead", "FSWrite", "NetEgress", "Stdio"} \subseteq EffectKinds
      BY DEF EffectKinds
    <3>1. CASE r.r = "in"
      <4>1. EffectOK(Eff("FSRead", Scope(r.p), {}))
        BY <2>2, <3>0, <3>1, ScopesAreFlat, EffIsOK
      <4> QED
        BY <1>4, <3>1, <4>1 DEF Redirect
    <3>2. CASE r.r = "out"
      <4>1. EffectOK(Eff("FSWrite", Scope(r.p), {}))
        BY <2>2, <3>0, <3>2, ScopesAreFlat, EffIsOK
      <4> QED
        BY <1>4, <3>2, <4>1 DEF Redirect
    <3>3. CASE r.r = "net"
      <4>1. EffectOK(Eff("NetEgress", NoTarget, {}))
        BY <3>0, ScopesAreFlat, EffIsOK
      <4> QED
        BY <1>4, <3>3, <4>1 DEF Redirect
    <3>4. CASE r.r = "here"
      <4>1. EffectOK(Eff("Stdio", NoTarget, {}))
        BY <3>0, ScopesAreFlat, EffIsOK
      <4> QED
        BY <1>4, <3>4, <4>1 DEF Redirect
    <3> QED
      BY <2>2, <3>1, <3>2, <3>3, <3>4
  <2>4. PICK e : effs' = Append(effs, e) /\ EffectOK(e)
    BY <2>3
  <2>5. effs' = effs \o <<e>> /\ EffectsOK(<<e>>)
    BY <2>4, AppendIsConcat, Tuples DEF StackOK, EffectsOK
  <2>6. EffectsOK(effs') /\ Extends(effs, effs') /\ Len(effs') = Len(effs) + 1 /\ Len(effs) \in Nat
    <3>1. EffectsOK(effs') /\ Extends(effs, effs')
      BY <2>5, ConcatEffects, ConcatExtends DEF Typed, EffectsOK
    <3>2. Len(effs') = Len(effs) + Len(<<e>>) /\ Len(effs) \in Nat
      BY <2>5, ConcatIsSeq DEF Typed, EffectsOK
    <3> QED
      BY <3>1, <3>2
  <2>7. pending' \subseteq 1 .. Len(effs')
    <3>1. pending' \subseteq pending \cup {Len(effs) + 1}
      BY <1>4 DEF Redirect
    <3>2. pending \subseteq 1 .. Len(effs)
      BY DEF Typed
    <3> QED
      BY <2>6, <3>1, <3>2
  <2>8. stdin' \in SUBSET Labels
    <3>1. CASE r.r = "here"
      <4>1. WordTaint(r.word) \in SUBSET Labels /\ stdin' = stdin \cup WordTaint(r.word)
        BY <1>4, <2>2, <3>1, WordTaintIsTaint DEF Redirect
      <4> QED
        BY <4>1 DEF Typed
    <3>2. CASE r.r # "here"
      BY <1>4, <3>2, SecretIsLabel DEF Redirect, Typed
    <3> QED
      BY <3>1, <3>2
  <2>9. IsSeq(fs) /\ \A f \in Elems(fs) : FrameTyped(f, Len(effs))
    <3> DEFINE g == [k |-> "redirs", rs |-> Tail(Frame.rs)]
    <3>1. FrameTyped(g, Len(effs))
      BY <2>1, PlainFramesTyped
    <3> HIDE DEF g
    <3>2. fs = << g >>
      BY DEF g
    <3> HIDE DEF fs
    <3> QED
      BY <3>1, <3>2, Tuples
  <2>10. Become(fs)
    BY <1>4
  <2> HIDE DEF fs
  <2>11. \A f \in Elems(stack') : FrameTyped(f, Len(effs'))
    BY <1>1, <2>6, <2>9, <2>10, BecomeTyped
  <2> QED
    BY <1>1, <2>6, <2>7, <2>8, <2>11 DEF Typed
<1> QED
  BY <1>3, <1>4 DEF Redirections

LEMMA CommandTyped == ASSUME StackOK, Typed, Command PROVE Typed'
<1> DEFINE c == Frame.s.c
           pipe == [k |-> "pipe", ss |-> c.ss, first |-> TRUE, stdin |-> stdin, cells |-> cells]
           body == CASE c.op \in {"group", "sub"} -> << ListFrame(c.ss) >>
                     [] c.op = "pipe" -> << pipe >>
                     [] OTHER -> << [k |-> "call", c |-> c] >>
           copied == Frame.s.bg \/ c.op = "sub"
           left == IF copied THEN << LeaveFrame >> ELSE << >>
<1>1. /\ stack # << >> /\ UNCHANGED <<effs, cells, stdin, stdout, word, staged, pending, mode>>
      /\ Become(body \o left) /\ Extends(effs, effs')
  BY ExtendsItself DEF Command, In, Flow, Result, StackOK
<1>c. c \in CommandsOf(Statements)
  BY <1>1, FrameIsTyped, StatementFields DEF Command, In, FrameTyped
<1>p. /\ c.op \in Simple \cup {"pipe", "group", "sub"}
      /\ c.op \in {"pipe", "group", "sub"} => c.ss \in StmtLists
  BY <1>c, CommandFields
<1>2. IsSeq(body) /\ \A f \in Elems(body) : FrameTyped(f, Len(effs))
  <2>1. CASE c.op \in {"group", "sub"}
    <3>1. body = << ListFrame(c.ss) >>
      BY <2>1
    <3> QED
      BY <1>p, <2>1, <3>1, Tuples, PlainFramesTyped
  <2>2. CASE c.op = "pipe"
    <3>1. body = << pipe >>
      BY <2>2
    <3>2. FrameTyped(pipe, Len(effs))
      BY <1>p, <2>2 DEF FrameTyped, Typed
    <3> HIDE DEF pipe, body
    <3> QED
      BY <3>1, <3>2, Tuples
  <2>3. CASE c.op \notin {"group", "sub", "pipe"}
    <3>1. body = << [k |-> "call", c |-> c] >>
      BY <2>3
    <3>2. c \in Calls
      BY <1>c, <1>p, <2>3 DEF Calls
    <3> QED
      BY <3>1, <3>2, Tuples, PlainFramesTyped
  <2> QED
    BY <2>1, <2>2, <2>3
<1>3. IsSeq(left) /\ \A f \in Elems(left) : FrameTyped(f, Len(effs))
  <2>1. FrameTyped(LeaveFrame, Len(effs))
    BY DEF FrameTyped, LeaveFrame, Typed
  <2> QED
    BY <2>1, Tuples
<1> HIDE DEF body, left
<1>4. IsSeq(body \o left) /\ \A f \in Elems(body \o left) : FrameTyped(f, Len(effs))
  BY <1>2, <1>3, ConcatIsSeq, ElemsOfConcat
<1>5. \A f \in Elems(stack') : FrameTyped(f, Len(effs'))
  BY <1>1, <1>4, BecomeTyped
<1> QED
  BY <1>1, <1>5 DEF Typed, EffectsOK

LEMMA LeaveTyped == ASSUME StackOK, Typed, Leave PROVE Typed'
<1>1. /\ stack # << >> /\ UNCHANGED <<effs, stdin, stdout, word, staged, pending, mode>>
      /\ Return /\ Extends(effs, effs')
  BY ExtendsItself DEF Leave, In, Flow, Result, StackOK
<1>2. cells' \in Cells
  BY <1>1, FrameIsTyped DEF Leave, In, FrameTyped
<1>3. \A f \in Elems(stack') : FrameTyped(f, Len(effs'))
  BY <1>1, ReturnTyped
<1> QED
  BY <1>1, <1>2, <1>3 DEF Typed, EffectsOK

LEMMA StageTyped == ASSUME StackOK, Typed, Stage PROVE Typed'
<1>1. /\ stack # << >> /\ Frame.k = "pipe" /\ UNCHANGED <<effs, word, staged, pending, mode>>
      /\ cells' = Frame.cells /\ Extends(effs, effs')
  BY ExtendsItself DEF Stage, In, Result, StackOK
<1>2. Frame.stdin \in SUBSET Labels /\ Frame.cells \in Cells /\ Frame.ss \in StmtLists
  BY <1>1, FrameIsTyped DEF FrameTyped
<1>3. stdin' \in SUBSET Labels /\ stdout' \in SUBSET Labels
  BY <1>2 DEF Stage, Typed
<1>4. \A f \in Elems(stack') : FrameTyped(f, Len(effs'))
  <2>1. CASE Return
    BY <1>1, <2>1, ReturnTyped
  <2>2. CASE Frame.ss # << >>
    <3> DEFINE a == StmtFrame(Head(Frame.ss))
               b == [k |-> "pipe", ss |-> Tail(Frame.ss), first |-> FALSE,
                     stdin |-> Frame.stdin, cells |-> Frame.cells]
               fs == << a, b >>
    <3>1. Head(Frame.ss) \in Statements /\ Tail(Frame.ss) \in StmtLists
      BY <1>2, <2>2, ListParts DEF StmtLists
    <3>2. FrameTyped(a, Len(effs))
      BY <3>1, PlainFramesTyped
    <3>3. FrameTyped(b, Len(effs))
      BY <1>2, <3>1 DEF FrameTyped
    <3>4. Become(fs)
      BY <2>2 DEF Stage
    <3> HIDE DEF a, b
    <3>5. IsSeq(fs) /\ \A f \in Elems(fs) : FrameTyped(f, Len(effs))
      BY <3>2, <3>3, Tuples
    <3> QED
      BY <1>1, <3>4, <3>5, BecomeTyped
  <2> QED
    BY <2>1, <2>2 DEF Stage
<1> QED
  BY <1>1, <1>2, <1>3, <1>4 DEF Typed, EffectsOK

LEMMA CallTyped == ASSUME StackOK, Typed, Call PROVE Typed'
<1> DEFINE c == Frame.c
           sub == [k |-> "subst", ss |-> c.word.ss, ran |-> FALSE, taint |-> {}, cells |-> cells]
           bind == [k |-> "bind", c |-> c, start |-> Len(effs)]
           first == IF c.word.w = "subst" THEN << sub >> ELSE << >>
<1>1. /\ stack # << >> /\ UNCHANGED <<effs, cells, stdin, word, staged, pending, mode>>
      /\ stdout' = {} /\ Become(first \o << bind >>) /\ Extends(effs, effs')
  BY ExtendsItself DEF Call, In, Result, StackOK
<1>2. c \in Calls
  BY <1>1, FrameIsTyped DEF Call, In, FrameTyped
<1>3. FrameTyped(bind, Len(effs))
  BY <1>2 DEF FrameTyped
<1>4. IsSeq(first) /\ \A f \in Elems(first) : FrameTyped(f, Len(effs))
  <2>1. CASE c.word.w = "subst"
    <3>1. c.word.ss \in StmtLists
      BY <1>2, <2>1, CommandFields, WordFields DEF Calls
    <3>2. FrameTyped(sub, Len(effs))
      BY <3>1 DEF FrameTyped, Typed
    <3>3. first = << sub >>
      BY <2>1
    <3> HIDE DEF sub, first
    <3> QED
      BY <3>2, <3>3, Tuples
  <2>2. CASE c.word.w # "subst"
    BY <2>2, Tuples
  <2> QED
    BY <2>1, <2>2
<1> HIDE DEF bind, first
<1>5. IsSeq(<< bind >>) /\ Elems(<< bind >>) = {bind}
  BY Tuples
<1>6. IsSeq(first \o << bind >>) /\ \A f \in Elems(first \o << bind >>) : FrameTyped(f, Len(effs))
  BY <1>3, <1>4, <1>5, ConcatIsSeq, ElemsOfConcat
<1>7. \A f \in Elems(stack') : FrameTyped(f, Len(effs'))
  BY <1>1, <1>6, BecomeTyped
<1> QED
  BY <1>1, <1>7 DEF Typed, EffectsOK

LEMMA SubstitutionTyped == ASSUME StackOK, Typed, Substitution PROVE Typed'
<1> DEFINE t == FoldedOutput(Frame)
<1>1. /\ stack # << >> /\ Frame.k = "subst" /\ UNCHANGED <<effs, stdin, staged, pending, mode>>
      /\ stdout' = {} /\ Extends(effs, effs')
  BY ExtendsItself DEF Substitution, In, Result, StackOK
<1>2. Frame.taint \in SUBSET Labels /\ Frame.cells \in Cells /\ Frame.ss \in StmtLists
  BY <1>1, FrameIsTyped DEF FrameTyped
<1>3. t \in SUBSET Labels
  BY <1>2 DEF FoldedOutput, Typed
<1>4. word' \in SUBSET Labels /\ cells' \in Cells
  BY <1>2, <1>3 DEF Substitution, Typed
<1>5. \A f \in Elems(stack') : FrameTyped(f, Len(effs'))
  <2>1. CASE Frame.ss = << >>
    BY <1>1, <2>1, ReturnTyped DEF Substitution
  <2>2. CASE Frame.ss # << >>
    <3> DEFINE a == StmtFrame(Head(Frame.ss))
               b == [k |-> "subst", ss |-> Tail(Frame.ss), ran |-> TRUE, taint |-> t,
                     cells |-> Frame.cells]
               fs == << a, b >>
    <3>1. Head(Frame.ss) \in Statements /\ Tail(Frame.ss) \in StmtLists
      BY <1>2, <2>2, ListParts DEF StmtLists
    <3>2. FrameTyped(a, Len(effs))
      BY <3>1, PlainFramesTyped
    <3>3. FrameTyped(b, Len(effs))
      BY <1>2, <1>3, <3>1 DEF FrameTyped
    <3>4. Become(fs)
      BY <2>2 DEF Substitution
    <3> HIDE DEF a, b
    <3>5. IsSeq(fs) /\ \A f \in Elems(fs) : FrameTyped(f, Len(effs))
      BY <3>2, <3>3, Tuples
    <3> QED
      BY <1>1, <3>4, <3>5, BecomeTyped
  <2> QED
    BY <2>1, <2>2
<1> QED
  BY <1>1, <1>4, <1>5 DEF Typed, EffectsOK

\* A list whose effects from position n on are replaced.
LEMMA ReplacedEffects ==
  ASSUME Typed, NEW n \in 0 .. Len(effs), NEW es, EffectsOK(es)
  PROVE  EffectsOK(Replaced(n, es)) /\ EffectsOK(From(n))
BY PartEffects, ConcatEffects DEF Replaced, From, Typed

LEMMA BindTyped == ASSUME StackOK, Typed, Bind PROVE Typed'
<1> DEFINE c == Frame.c
           l == WordTaint(c.word)
           kept == l \cup (IF c.word.w = "env" THEN {Secret} ELSE {})
           es == From(Frame.start) \o EnvReads(c.word)
           all == es \o Bound(c, l)
<1>1. stack # << >> /\ UNCHANGED <<stdin, word, staged, pending, mode>> /\ Return
  BY DEF Bind, In, Result
<1>2. Frame.start \in 0 .. Len(effs) /\ c \in Calls
  BY <1>1, FrameIsOK, FrameIsTyped DEF Bind, In, FrameOK, FrameTyped
<1>3. c.word \in Words(Statements) /\ (c.op = "assign" => c.x \in Vars)
  BY <1>2, CommandFields DEF Calls
<1>4. l \in SUBSET Labels /\ kept \in SUBSET Labels
  BY <1>3, WordTaintIsTaint, SecretIsLabel
<1>5. Extends(effs, effs')
  BY BindKeeps DEF Kept
<1>6. /\ \A f \in Elems(stack') : FrameTyped(f, Len(effs'))
      /\ pending' \subseteq 1 .. Len(effs')
  BY <1>1, <1>5, ReturnTyped, FramesStayTyped DEF Typed
<1> HIDE DEF l
<1>7. CASE c.op = "assign"
  <2> DEFINE e == Eff("EnvWrite", Scope(c.x), kept)
  <2>1. /\ effs' = (effs \o << e >>) \o EnvReads(c.word)
        /\ cells' = [cells EXCEPT ![c.x] = kept] /\ stdout' = stdout
    BY <1>7 DEF Bind, l
  <2>2. EffectOK(e)
    <3>1. Scope(c.x) \in FlatSet(Targets)
      BY <1>3, <1>7, ScopesAreFlat
    <3>2. "EnvWrite" \in EffectKinds
      BY DEF EffectKinds
    <3> HIDE DEF kept
    <3> QED
      BY <1>4, <3>1, <3>2, EffIsOK
  <2> HIDE DEF e, kept
  <2>3. EffectsOK(<< e >>)
    BY <2>2, Tuples DEF EffectsOK
  <2>4. EffectsOK(effs')
    <3>1. EffectsOK(effs \o << e >>)
      BY <2>3, ConcatEffects DEF Typed
    <3> QED
      BY <2>1, <3>1, EnvReadEffects, ConcatEffects
  <2>5. cells' \in Cells
    BY <1>4, <2>1 DEF Typed, Cells
  <2> QED
    BY <1>1, <1>6, <2>1, <2>4, <2>5 DEF Typed
<1>8. CASE c.op # "assign"
  <2>1. /\ effs' = Replaced(Frame.start, EgressWithSecret(all, l)) /\ cells' = cells
        /\ stdout' = OutTaint(all) \cup l
    BY <1>8 DEF Bind, l
  <2>2. EffectsOK(From(Frame.start))
    BY <1>2, ReplacedEffects DEF Typed
  <2>3. EffectsOK(Bound(c, l))
    BY <1>2, <1>4, DeclaredEffects DEF Typed
  <2>4. EffectsOK(es)
    BY <2>2, EnvReadEffects, ConcatEffects
  <2> HIDE DEF es
  <2>5. EffectsOK(all)
    BY <2>3, <2>4, ConcatEffects
  <2> HIDE DEF all
  <2>6. EffectsOK(EgressWithSecret(all, l))
    BY <2>5, PassesEffects
  <2>7. EffectsOK(effs')
    BY <1>2, <2>1, <2>6, ReplacedEffects
  <2>8. stdout' \in SUBSET Labels
    BY <1>4, <2>1, <2>5, TaintReadIsTaint DEF OutTaint, Typed
  <2> QED
    BY <1>1, <1>6, <2>1, <2>7, <2>8 DEF Typed
<1> QED
  BY <1>7, <1>8

LEMMA EndTyped == ASSUME StackOK, Typed, EndOfStatement PROVE Typed'
<1> DEFINE fed == Relabel(effs, pending, stdout \cup stdin)
           own == SubSeq(fed, Frame.start + 1, Len(fed))
           es == ReadBack(own)
           new == EgressWithSecret(Staging(es), {})
<1>1. /\ stack # << >> /\ Return /\ UNCHANGED <<cells, stdout, word, mode>>
      /\ stdin' = Frame.stdin /\ pending' = Frame.pending
      /\ effs' = Replaced(Frame.start, new)
      /\ staged' = staged \cup StagedBy(es)
  BY DEF EndOfStatement, In, Result
<1>2. /\ Frame.start \in 0 .. Len(effs) /\ Frame.stdin \in SUBSET Labels
      /\ Frame.pending \subseteq 1 .. Len(effs)
  BY <1>1, FrameIsOK, FrameIsTyped DEF EndOfStatement, In, FrameOK, FrameTyped
<1>3. EffectsOK(fed) /\ Len(fed) = Len(effs)
  <2>1. stdout \cup stdin \in SUBSET Labels
    BY DEF Typed
  <2> QED
    BY <2>1, RelabelEffects, RelabelExtends DEF Typed, EffectsOK
<1> HIDE DEF fed
<1>4. EffectsOK(own)
  BY <1>2, <1>3, PartEffects
<1> HIDE DEF own
<1>5. EffectsOK(es)
  BY <1>4, PassesEffects
<1> HIDE DEF es
<1>6. EffectsOK(Staging(es)) /\ StagedBy(es) \subseteq Paths
  BY <1>5, PassesEffects
<1>7. EffectsOK(new)
  BY <1>6, PassesEffects
<1> HIDE DEF new
<1>8. EffectsOK(effs')
  BY <1>1, <1>2, <1>7, ReplacedEffects
<1>9. Extends(effs, effs')
  BY EndKeeps DEF Kept
<1>10. /\ \A f \in Elems(stack') : FrameTyped(f, Len(effs'))
       /\ pending' \subseteq 1 .. Len(effs')
  BY <1>1, <1>2, <1>9, ReturnTyped, FramesStayTyped
<1> QED
  BY <1>1, <1>2, <1>6, <1>8, <1>10 DEF Typed

LEMMA StepTyped == ASSUME StackOK, Typed, [Next]_vars PROVE Typed'
<1>1. CASE UNCHANGED flowVars
  BY <1>1 DEF flowVars, Typed, EffectsOK, FrameTyped
<1>2. CASE Compose
  BY <1>2 DEF Compose, Flow, Typed, EffectsOK, FrameTyped
<1>3. CASE Analyse
  BY <1>2, <1>3, ListTyped, StatementTyped, RedirectionsTyped, CommandTyped, LeaveTyped,
     StageTyped, CallTyped, SubstitutionTyped, BindTyped, EndTyped DEF Analyse
<1> QED
  BY <1>1, <1>3 DEF Next, RunFlow, RunShell, Finished, vars

\* What bash does: a file holds credential material or not, and so does what
\* has left the host.
ShellTyped == files \in [Paths -> BOOLEAN] /\ leaked \in BOOLEAN

LEMMA ShellStepTyped == ASSUME ShellTyped, [Next]_vars PROVE ShellTyped'
<1>1. CASE UNCHANGED shVars
  BY <1>1 DEF shVars, ShellTyped
<1>2. ASSUME NEW i, Write(i) PROVE ShellTyped'
  <2> DEFINE t == threads[i]
             s == Current(i)
             h == t.held
  <2>1. files' = [p \in Paths |-> FileAfter(s, h, p)]
    BY <1>2 DEF Write
  <2>2. \A p \in Paths : FileAfter(s, h, p) \in BOOLEAN
    BY DEF FileAfter, ShellTyped
  <2>3. leaked' = (\/ leaked
                   \/ h /\ s.c.op \in Uploads
                   \/ h /\ Prints(s.c) /\ \E r \in Redirs(s) : r.r = "net"
                   \/ Remote \in Written(s) /\ FileAfter(s, h, Remote))
    BY <1>2, Zenon DEF Write
  <2>4. leaked' \in BOOLEAN
    BY <2>3
  <2> QED
    BY <2>1, <2>2, <2>4 DEF ShellTyped
<1>3. ASSUME NEW i, Enter(i) \/ Join(i) \/ Read(i) \/ Fail(i) PROVE ShellTyped'
  <2>1. UNCHANGED <<files, leaked>>
    BY <1>3 DEF Enter, Join, Read, Fail, Spawn
  <2> QED
    BY <2>1 DEF ShellTyped
<1>4. CASE ShStep
  BY <1>2, <1>3, <1>4 DEF ShStep
<1> QED
  BY <1>1, <1>4 DEF Next, RunFlow, RunShell, Finished, vars

LEMMA InitTyped == Init => Typed /\ ShellTyped
<1> SUFFICES ASSUME Init PROVE Typed /\ ShellTyped
  OBVIOUS
<1>1. Elems(stack) = {ListFrame(prog)} /\ Elems(effs) = {} /\ IsSeq(effs) /\ prog \in StmtLists
  BY Tuples, SyntaxAssumption DEF Init, FlowInit, StmtLists
<1>2. Typed
  BY <1>1, PlainFramesTyped DEF Init, FlowInit, Typed, EffectsOK, Cells
<1>3. ShellTyped
  BY DEF Init, ShInit, ShellTyped
<1> QED
  BY <1>2, <1>3

\* Type correctness, for every program: no scope or label out of nothing, only
\* files are staged, and every queued egress names an effect that exists.
THEOREM TypeCorrect == Spec => []TypeOK
<1>1. Typed /\ ShellTyped => TypeOK
  <2> SUFFICES ASSUME Typed, ShellTyped PROVE TypeOK
    OBVIOUS
  <2> DEFINE E == [kind : EffectKinds, target : FlatSet(Targets), taint : SUBSET Labels]
  <2>1. effs \in Seq(E)
    <3>1. \A i \in 1 .. Len(effs) : effs[i] \in E
      <4>1. \A i \in 1 .. Len(effs) : EffectOK(effs[i])
        BY DEF Typed, EffectsOK, Elems
      <4> QED
        BY <4>1 DEF EffectOK
    <3>2. PICK T : effs \in Seq(T)
      BY DEF Typed, EffectsOK, IsSeq
    <3> HIDE DEF E
    <3> QED
      BY <3>1, <3>2
  <2> QED
    BY <2>1 DEF Typed, ShellTyped, TypeOK, Cells
<1>2. StackOK /\ Typed /\ ShellTyped /\ [Next]_vars => StackOK' /\ Typed' /\ ShellTyped'
  BY StepKeeps, StepTyped, ShellStepTyped DEF Kept
<1> QED
  BY <1>1, <1>2, InitOK, InitTyped, PTL DEF Spec

-----------------------------------------------------------------------------
\* Merging effects into rows.

\* An effect that reads the environment reads the credential it names.
EnvReadsMarked(es) == \A e \in Elems(es) : e.kind = "EnvRead" => Secret \in e.taint

Reported == mode = "done" => report = WithRemoteSinks(Rows(effs))

LEMMA ConcatMarked ==
  ASSUME NEW a, NEW b, IsSeq(a), IsSeq(b), EnvReadsMarked(a), EnvReadsMarked(b)
  PROVE  EnvReadsMarked(a \o b)
BY ElemsOfConcat DEF EnvReadsMarked

LEMMA ExtendsMarked ==
  ASSUME NEW a, NEW b, Extends(a, b), Len(a) = Len(b), EnvReadsMarked(a)
  PROVE  EnvReadsMarked(b)
BY DEF Extends, EnvReadsMarked, Elems

LEMMA PartMarked ==
  ASSUME NEW es, IsSeq(es), EnvReadsMarked(es), NEW n \in 0 .. Len(es)
  PROVE  /\ EnvReadsMarked(SubSeq(es, 1, n))
         /\ EnvReadsMarked(SubSeq(es, n + 1, Len(es)))
BY PartUnmarked DEF EnvReadsMarked

LEMMA RelabelMarked ==
  ASSUME NEW es, IsSeq(es), EnvReadsMarked(es), NEW I, NEW l
  PROVE  IsSeq(Relabel(es, I, l)) /\ EnvReadsMarked(Relabel(es, I, l))
BY RelabelExtends, ExtendsMarked DEF Extends

LEMMA PassesMarked ==
  ASSUME NEW es, IsSeq(es), EnvReadsMarked(es)
  PROVE  /\ \A l : IsSeq(EgressWithSecret(es, l)) /\ EnvReadsMarked(EgressWithSecret(es, l))
         /\ IsSeq(ReadBack(es)) /\ EnvReadsMarked(ReadBack(es))
         /\ IsSeq(Staging(es)) /\ EnvReadsMarked(Staging(es))
BY RelabelMarked DEF EgressWithSecret, ReadBack, Staging

\* A command declares no read of the environment.
LEMMA DeclaredMarked == ASSUME NEW c, NEW l PROVE EnvReadsMarked(Declared(c, l))
<1> DEFINE es == Declared(c, l)
           Other(e) == e.kind # "EnvRead"
<1>0. Other(Request) /\ \A k, t, m : k # "EnvRead" => Other(Eff(k, t, m))
  BY DEF Request, Eff
<1> HIDE DEF Other
<1>1. CASE c.op = "cat"
  BY <1>0, <1>1, Tuples DEF Declared, EnvReadsMarked, Other
<1>2. CASE c.op = "cp"
  BY <1>0, <1>2, Tuples DEF Declared, EnvReadsMarked, Other
<1>3. CASE c.op = "mv"
  BY <1>0, <1>3, Tuples DEF Declared, EnvReadsMarked, Other
<1>4. CASE c.op = "tee"
  BY <1>0, <1>4, Tuples DEF Declared, EnvReadsMarked, Other
<1>5. CASE c.op = "printf"
  BY <1>0, <1>5, Tuples DEF Declared, EnvReadsMarked, Other
<1>6. CASE c.op = "put"
  BY <1>0, <1>6, Tuples DEF Declared, EnvReadsMarked, Other
<1>7. CASE c.op = "form"
  BY <1>0, <1>7, Tuples DEF Declared, EnvReadsMarked, Other
<1>8. CASE c.op = "post"
  BY <1>0, <1>8, Tuples DEF Declared, EnvReadsMarked, Other
<1>9. CASE c.op = "get"
  BY <1>0, <1>9, Tuples DEF Declared, EnvReadsMarked, Other
<1>11. CASE c.op = "postIn"
  BY <1>0, <1>11, Tuples DEF Declared, EnvReadsMarked, Other
<1>10. CASE c.op \notin {"cat", "cp", "mv", "tee", "printf", "put", "form", "post", "get", "postIn"}
  BY <1>10, Tuples DEF Declared, EnvReadsMarked
<1> QED
  BY <1>1, <1>2, <1>3, <1>4, <1>5, <1>6, <1>7, <1>8, <1>9, <1>10, <1>11

LEMMA BoundMarked == ASSUME NEW c, NEW l PROVE EnvReadsMarked(Bound(c, l)) /\ EnvReadsMarked(EnvReads(c.word))
<1>1. EnvReadsMarked(Bound(c, l))
  BY BoundIsSeq, DeclaredMarked, RelabelMarked DEF Bound, TaintEgress
<1>2. EnvReadsMarked(EnvReads(c.word))
  <2>1. CASE c.word.w = "env"
    <3> DEFINE e == Eff("EnvRead", Scope(Token), {Secret})
    <3>1. Elems(EnvReads(c.word)) = {e} /\ Secret \in e.taint
      BY <2>1, Tuples DEF EnvReads, Eff
    <3> QED
      BY <3>1 DEF EnvReadsMarked
  <2>2. CASE c.word.w # "env"
    BY <2>2, Tuples DEF EnvReads, EnvReadsMarked
  <2> QED
    BY <2>1, <2>2
<1> QED
  BY <1>1, <1>2

LEMMA ReplacedMarked ==
  ASSUME StackOK, EnvReadsMarked(effs), NEW n \in 0 .. Len(effs), NEW es, IsSeq(es), EnvReadsMarked(es)
  PROVE  EnvReadsMarked(Replaced(n, es)) /\ EnvReadsMarked(From(n)) /\ IsSeq(From(n))
BY PartMarked, SplitIsSeq, ConcatMarked DEF Replaced, From, StackOK

LEMMA BindMarked == ASSUME StackOK, EnvReadsMarked(effs), Bind PROVE EnvReadsMarked(effs')
<1> DEFINE c == Frame.c
           l == WordTaint(c.word)
           es == From(Frame.start) \o EnvReads(c.word)
           all == es \o Bound(c, l)
<1>1. Frame.start \in 0 .. Len(effs)
  BY FrameIsOK DEF Bind, In, FrameOK
<1>2. IsSeq(EnvReads(c.word)) /\ IsSeq(Bound(c, l))
  BY EnvReadsIsSeq, BoundIsSeq
<1>3. CASE c.op = "assign"
  <2> DEFINE e == Eff("EnvWrite", Scope(c.x), l \cup (IF c.word.w = "env" THEN {Secret} ELSE {}))
  <2>0. effs' = (effs \o << e >>) \o EnvReads(c.word)
    BY <1>3 DEF Bind
  <2>1. effs' = (effs \o << e >>) \o EnvReads(c.word) /\ e.kind = "EnvWrite"
    BY <2>0 DEF Eff
  <2> HIDE DEF e
  <2>2. EnvReadsMarked(<< e >>) /\ IsSeq(<< e >>)
    BY <2>1, Tuples DEF EnvReadsMarked
  <2>3. EnvReadsMarked(effs \o << e >>) /\ IsSeq(effs \o << e >>)
    BY <2>2, ConcatMarked, ConcatIsSeq DEF StackOK
  <2> QED
    BY <1>2, <2>1, <2>3, ConcatMarked, BoundMarked
<1>4. CASE c.op # "assign"
  <2>1. effs' = Replaced(Frame.start, EgressWithSecret(all, l))
    BY <1>4 DEF Bind
  <2>2. EnvReadsMarked(From(Frame.start)) /\ IsSeq(From(Frame.start))
    BY <1>1, ReplacedMarked, Tuples DEF StackOK
  <2>3. EnvReadsMarked(es) /\ IsSeq(es)
    BY <1>2, <2>2, ConcatMarked, ConcatIsSeq, BoundMarked
  <2> HIDE DEF es
  <2>4. EnvReadsMarked(all) /\ IsSeq(all)
    BY <1>2, <2>3, ConcatMarked, ConcatIsSeq, BoundMarked
  <2> HIDE DEF all
  <2>5. IsSeq(EgressWithSecret(all, l)) /\ EnvReadsMarked(EgressWithSecret(all, l))
    BY <2>4, PassesMarked
  <2> QED
    BY <1>1, <2>1, <2>5, ReplacedMarked
<1> QED
  BY <1>3, <1>4

LEMMA EndMarked == ASSUME StackOK, EnvReadsMarked(effs), EndOfStatement PROVE EnvReadsMarked(effs')
<1> DEFINE fed == Relabel(effs, pending, stdout \cup stdin)
           own == SubSeq(fed, Frame.start + 1, Len(fed))
           es == ReadBack(own)
           new == EgressWithSecret(Staging(es), {})
<1>1. effs' = Replaced(Frame.start, new)
  BY DEF EndOfStatement
<1>2. Frame.start \in 0 .. Len(effs)
  BY FrameIsOK DEF EndOfStatement, In, FrameOK
<1>3. EnvReadsMarked(fed) /\ IsSeq(fed) /\ Len(fed) = Len(effs)
  BY RelabelMarked, RelabelExtends DEF StackOK
<1> HIDE DEF fed
<1>4. EnvReadsMarked(own) /\ IsSeq(own)
  BY <1>2, <1>3, PartMarked, SplitIsSeq
<1> HIDE DEF own
<1>5. EnvReadsMarked(es) /\ IsSeq(es)
  BY <1>4, PassesMarked
<1> HIDE DEF es
<1>6. EnvReadsMarked(Staging(es)) /\ IsSeq(Staging(es))
  BY <1>5, PassesMarked
<1>7. EnvReadsMarked(new) /\ IsSeq(new)
  BY <1>6, PassesMarked
<1> HIDE DEF new
<1> QED
  BY <1>1, <1>2, <1>7, ReplacedMarked

LEMMA StepMarked ==
  ASSUME StackOK, EnvReadsMarked(effs), Reported, [Next]_vars
  PROVE  EnvReadsMarked(effs') /\ Reported'
<1>1. CASE UNCHANGED flowVars
  BY <1>1 DEF flowVars, Reported
<1>2. CASE Compose
  BY <1>2 DEF Compose, Reported
<1>3. CASE Analyse /\ ~Compose
  <2>1. mode' = "analyse"
    BY <1>3 DEF Analyse, List, Statement, Redirections, Command, Leave, Stage, Call, Substitution,
       Bind, EndOfStatement, Result, In
  <2>2. CASE effs' = effs
    BY <2>1, <2>2 DEF Reported
  <2>3. CASE Redirections /\ effs' # effs
    <3>1. PICK k, t : effs' = Append(effs, Eff(k, t, {})) /\ k # "EnvRead"
      BY <2>3 DEF Redirections, Redirect
    <3> DEFINE e == Eff(k, t, {})
    <3>2. effs' = effs \o << e >> /\ e.kind # "EnvRead"
      BY <3>1, AppendIsConcat DEF StackOK, Eff
    <3> HIDE DEF e
    <3>3. EnvReadsMarked(<< e >>) /\ IsSeq(<< e >>)
      BY <3>2, Tuples DEF EnvReadsMarked
    <3> QED
      BY <2>1, <3>2, <3>3, ConcatMarked DEF StackOK, Reported
  <2>4. CASE Bind
    BY <2>1, <2>4, BindMarked DEF Reported
  <2>5. CASE EndOfStatement
    BY <2>1, <2>5, EndMarked DEF Reported
  <2> QED
    BY <1>3, <2>2, <2>3, <2>4, <2>5 DEF Analyse, List, Statement, Command, Leave, Stage, Call,
       Substitution
<1> QED
  BY <1>1, <1>2, <1>3 DEF Next, RunFlow, RunShell, Finished, vars

\* No effect's scope is every path.
NamedScopes == \A i \in DOMAIN effs : ~effs[i].target.arbitrary

\* A row says of its kind what each of its effects says.
LEMMA RowSaysAll ==
  ASSUME NEW es, NEW i \in DOMAIN es, \A j \in DOMAIN es : ~es[j].target.arbitrary
  PROVE  LET r == JoinOf(es[i].kind, {es[j] : j \in OfKind(es, {es[i].kind})})
         IN  /\ r \in Rows(es)
             /\ r.kind = es[i].kind
             /\ es[i].taint \subseteq r.taint
             /\ es[i].target.elems \subseteq r.target.elems
<1> DEFINE k == es[i].kind
           E == {es[j] : j \in OfKind(es, {k})}
           r == JoinOf(k, E)
<1>1. es[i] \in E /\ k \in Kinds(es)
  BY DEF OfKind, Kinds
<1>2. r \in Rows(es)
  BY <1>1 DEF Rows
<1>3. \A e \in E : ~e.target.arbitrary
  BY DEF OfKind
<1>4. ScopeOfAll(E) = FlatOf(UNION {e.target.elems : e \in E})
  BY <1>3 DEF ScopeOfAll
<1>5. r.kind = k /\ r.taint = UNION {e.taint : e \in E} /\ r.target = ScopeOfAll(E)
  BY DEF JoinOf, Eff
<1> HIDE DEF r, E
<1>6. es[i].taint \subseteq r.taint /\ es[i].target.elems \subseteq r.target.elems
  BY <1>1, <1>4, <1>5 DEF FlatOf
<1> QED
  BY <1>2, <1>5, <1>6 DEF r, E

\* The remote sinks take no row away but that of the egress, which they extend.
LEMMA SinksKeepRows ==
  ASSUME NEW R, NEW r \in R
  PROVE  \E q \in WithRemoteSinks(R) :
           /\ q.kind = r.kind /\ r.taint \subseteq q.taint
           /\ r.kind # "NetEgress" => q = r
<1> DEFINE E == {e \in R : e.kind = "NetEgress"} \cup {Eff("NetEgress", NoTarget, RemotePayload(R))}
           q == JoinOf("NetEgress", E)
<1>1. CASE \E e \in R : e.kind \in {"FSWrite", "FSMeta"} /\ Remote \in e.target.elems
  <2>1. WithRemoteSinks(R) = {e \in R : e.kind # "NetEgress"} \cup {q}
    BY <1>1 DEF WithRemoteSinks
  <2>2. q.kind = "NetEgress" /\ q.taint = UNION {e.taint : e \in E}
    BY DEF JoinOf, Eff
  <2>3. r.kind = "NetEgress" => r \in E
    OBVIOUS
  <2> HIDE DEF q, E
  <2> QED
    BY <2>1, <2>2, <2>3
<1>2. CASE ~\E e \in R : e.kind \in {"FSWrite", "FSMeta"} /\ Remote \in e.target.elems
  BY <1>2 DEF WithRemoteSinks
<1> QED
  BY <1>1, <1>2

\* What the severity of a report rests on.
LEMMA SeverityGrows ==
  ASSUME NEW A, NEW B,
         \A e \in A : IsSecretRead(e) => \E f \in B : IsSecretRead(f),
         \A e \in A : e.kind = "NetEgress" =>
           \E f \in B : f.kind = "NetEgress" /\ e.taint \subseteq f.taint
  PROVE  ExfilSeverity(A) <= ExfilSeverity(B)
<1>1. ExfilSeverity(A) \in {0, 3, 4} /\ ExfilSeverity(B) \in {0, 3, 4}
  BY DEF ExfilSeverity
<1>2. ASSUME NEW p \in ExfilPairs(A)
      PROVE  \E q \in ExfilPairs(B) : p[2].taint \subseteq q[2].taint
  <2>1. PICK e \in A, f \in A : p = << e, f >> /\ IsSecretRead(e) /\ IsEgressSink(f)
    BY DEF ExfilPairs
  <2>2. PICK g \in B : IsSecretRead(g)
    BY <2>1
  <2>3. PICK h \in B : h.kind = "NetEgress" /\ f.taint \subseteq h.taint
    BY <2>1 DEF IsEgressSink
  <2>4. IsEgressSink(h)
    BY <2>1, <2>3 DEF IsEgressSink
  <2>5. << g, h >> \in ExfilPairs(B) /\ << g, h >>[2] = h
    BY <2>2, <2>3, <2>4 DEF ExfilPairs
  <2> QED
    BY <2>1, <2>3, <2>5
<1>3. CASE ExfilPairs(A) = {}
  BY <1>1, <1>3 DEF ExfilSeverity
<1>4. CASE ExfilPairs(A) # {} /\ ~\E p \in ExfilPairs(A) : Secret \in p[2].taint
  <2>1. ExfilSeverity(A) = 3 /\ ExfilPairs(B) # {}
    BY <1>2, <1>4 DEF ExfilSeverity
  <2> QED
    BY <1>1, <2>1 DEF ExfilSeverity
<1>5. CASE \E p \in ExfilPairs(A) : Secret \in p[2].taint
  <2>1. \E q \in ExfilPairs(B) : Secret \in q[2].taint
    BY <1>2, <1>5
  <2>2. ExfilSeverity(B) = 4
    BY <2>1 DEF ExfilSeverity
  <2> QED
    BY <1>1, <2>2
<1> QED
  BY <1>3, <1>4, <1>5

\* The report of effects whose scopes are named grades their flow no lower than
\* the effects themselves, for every program: merging them into rows, and the
\* rows of remote writes, lose no finding.
THEOREM MergingLosesNothing == Spec => [](NamedScopes => MergeKeepsFindings)
<1>1. ASSUME StackOK, EnvReadsMarked(effs), Reported, NamedScopes, mode = "done"
      PROVE  ExfilSeverity({effs[i] : i \in DOMAIN effs}) <= ExfilSeverity(report)
  <2> DEFINE A == {effs[i] : i \in DOMAIN effs}
  <2>1. DOMAIN effs = 1 .. Len(effs)
    <3>1. PICK T : effs \in Seq(T)
      BY <1>1 DEF StackOK, IsSeq
    <3> QED
      BY <3>1
  <2>2. ASSUME NEW i \in DOMAIN effs
        PROVE  \E f \in report : /\ f.kind = effs[i].kind /\ effs[i].taint \subseteq f.taint
                                 /\ f.kind # "NetEgress" => effs[i].target.elems \subseteq f.target.elems
    <3>1. PICK r \in Rows(effs) : /\ r.kind = effs[i].kind
                                  /\ effs[i].taint \subseteq r.taint
                                  /\ effs[i].target.elems \subseteq r.target.elems
      BY <1>1, RowSaysAll DEF NamedScopes
    <3>2. PICK q \in WithRemoteSinks(Rows(effs)) :
            /\ q.kind = r.kind /\ r.taint \subseteq q.taint
            /\ r.kind # "NetEgress" => q = r
      BY SinksKeepRows
    <3> QED
      BY <1>1, <3>1, <3>2 DEF Reported
  <2>3. ASSUME NEW e \in A, IsSecretRead(e) PROVE \E f \in report : IsSecretRead(f)
    <3>1. PICK i \in DOMAIN effs : e = effs[i]
      OBVIOUS
    <3>2. PICK f \in report : /\ f.kind = e.kind /\ e.taint \subseteq f.taint
                              /\ f.kind # "NetEgress" => e.target.elems \subseteq f.target.elems
      BY <2>2, <3>1
    <3>3. e.kind = "EnvRead" => Secret \in e.taint
      BY <1>1, <2>1, <3>1 DEF EnvReadsMarked, Elems
    <3> QED
      BY <2>3, <3>2, <3>3 DEF IsSecretRead, SecretTarget
  <2>4. ASSUME NEW e \in A, e.kind = "NetEgress"
        PROVE  \E f \in report : f.kind = "NetEgress" /\ e.taint \subseteq f.taint
    BY <2>2, <2>4
  <2> HIDE DEF A
  <2>5. ExfilSeverity(A) <= ExfilSeverity(report)
    BY <2>3, <2>4, SeverityGrows
  <2> QED
    BY <2>5 DEF A
<1>2. StackOK /\ EnvReadsMarked(effs) /\ Reported => (NamedScopes => MergeKeepsFindings)
  BY <1>1 DEF MergeKeepsFindings
<1>3. ASSUME StackOK, EnvReadsMarked(effs), Reported, [Next]_vars
      PROVE  StackOK' /\ EnvReadsMarked(effs)' /\ Reported'
  <2>1. EnvReadsMarked(effs)' <=> EnvReadsMarked(effs')
    BY DEF EnvReadsMarked
  <2> QED
    BY <1>3, <2>1, StepKeeps, StepMarked DEF Kept
<1>4. Init => EnvReadsMarked(effs) /\ Reported
  <2> SUFFICES ASSUME Init PROVE EnvReadsMarked(effs) /\ Reported
    OBVIOUS
  <2>1. Elems(effs) = {}
    BY Tuples DEF Init, FlowInit
  <2> QED
    BY <2>1 DEF EnvReadsMarked, Reported, Init, FlowInit
<1> QED
  BY <1>2, <1>3, <1>4, InitOK, PTL DEF Spec

LEMMA AnalyseKeeps == ASSUME StackOK, Analyse PROVE Kept
<1>1. CASE Compose
  BY <1>1, ExtendsItself DEF Compose, StackOK, Kept, FrameOK
<1> QED
  BY <1>1, ListKeeps, StatementKeeps, RedirectionsKeeps, CommandKeeps, LeaveKeeps,
     StageKeeps, CallKeeps, SubstitutionKeeps, BindKeeps, EndKeeps DEF Analyse

-----------------------------------------------------------------------------
\* Unrelated requests.

\* Where the effects of the top-level statement in progress start.
Base == spans[Len(spans)]

\* A step puts the calls fs in the place of the innermost one.
Into(fs) ==
  /\ IsSeq(fs)
  /\ stack' = fs \o Tail(stack)
  /\ \A f \in Elems(fs) : f.k \in {"end", "bind"} => f.start = Len(effs)

LEMMA PlainInto ==
  /\ \A ss : ListFrame(ss).k \notin {"end", "bind"}
  /\ \A s : StmtFrame(s).k \notin {"end", "bind"}
BY DEF ListFrame, StmtFrame

LEMMA ReturnInto == ASSUME StackOK, stack # << >>, Return PROVE Into(<< >>)
<1>1. PICK T : stack \in Seq(T)
  BY DEF StackOK, IsSeq
<1>2. stack' = << >> \o Tail(stack)
  BY <1>1 DEF Return
<1> QED
  BY <1>2, Tuples DEF Into

LEMMA StepInto ==
  ASSUME StackOK, Analyse, stack # << >>
  PROVE  \E fs : Into(fs)
<1>1. CASE List
  <2>1. CASE Return
    BY <2>1, ReturnInto
  <2>2. CASE Become(<< StmtFrame(Head(Frame.ss)), ListFrame(Tail(Frame.ss)) >>)
    <3> DEFINE fs == << StmtFrame(Head(Frame.ss)), ListFrame(Tail(Frame.ss)) >>
    <3>1. stack' = fs \o Tail(stack)
      BY <2>2 DEF Become
    <3>2. IsSeq(fs) /\ \A f \in Elems(fs) : f.k \notin {"end", "bind"}
      BY Tuples, PlainInto
    <3> HIDE DEF fs
    <3> QED
      BY <3>1, <3>2 DEF Into
  <2> QED
    BY <1>1, <2>1, <2>2 DEF List
<1>2. CASE Statement
  <2> DEFINE a == [k |-> "redirs", rs |-> Frame.s.redirs]
             b == [k |-> "run", s |-> Frame.s]
             fs == << a, b, StatementEnd >>
  <2>1. IsSeq(fs) /\ Elems(fs) = {a, b, StatementEnd}
    BY Tuples
  <2>2. stack' = fs \o Tail(stack)
    BY <1>2 DEF Statement, Become
  <2>3. StatementEnd.start = Len(effs)
    BY DEF StatementEnd, EndFrame
  <2> HIDE DEF fs
  <2>4. Into(fs)
    BY <2>1, <2>2, <2>3 DEF Into
  <2> QED
    BY <2>4
<1>3. CASE Redirections
  <2>1. CASE Return
    BY <2>1, ReturnInto
  <2>2. CASE Become(<< [k |-> "redirs", rs |-> Tail(Frame.rs)] >>)
    <3> DEFINE f == [k |-> "redirs", rs |-> Tail(Frame.rs)]
    <3>1. stack' = << f >> \o Tail(stack) /\ f.k \notin {"end", "bind"}
      BY <2>2 DEF Become
    <3> HIDE DEF f
    <3>2. Into(<< f >>)
      BY <3>1, Tuples DEF Into
    <3> QED
      BY <3>2
  <2> QED
    BY <1>3, <2>1, <2>2 DEF Redirections
<1>4. CASE Command
  <2> DEFINE c == Frame.s.c
             pipe == [k |-> "pipe", ss |-> c.ss, first |-> TRUE, stdin |-> stdin, cells |-> cells]
             body == CASE c.op \in {"group", "sub"} -> << ListFrame(c.ss) >>
                       [] c.op = "pipe" -> << pipe >>
                       [] OTHER -> << [k |-> "call", c |-> c] >>
             copied == Frame.s.bg \/ c.op = "sub"
             left == IF copied THEN << LeaveFrame >> ELSE << >>
  <2>1. \E f : body = << f >> /\ f.k \notin {"end", "bind"}
    <3>1. CASE c.op \in {"group", "sub"}
      BY <3>1, PlainInto
    <3>2. CASE c.op = "pipe"
      BY <3>2
    <3>3. CASE c.op \notin {"group", "sub", "pipe"}
      BY <3>3
    <3> QED
      BY <3>1, <3>2, <3>3
  <2>2. stack' = (body \o left) \o Tail(stack)
    BY <1>4 DEF Command, Become
  <2> HIDE DEF body
  <2>3. LeaveFrame.k \notin {"end", "bind"}
    BY DEF LeaveFrame
  <2>4. IsSeq(body) /\ IsSeq(left)
    BY <2>1, Tuples
  <2>5. \A f \in Elems(body) \cup Elems(left) : f.k \notin {"end", "bind"}
    BY <2>1, <2>3, Tuples
  <2> HIDE DEF left
  <2>6. Into(body \o left)
    BY <2>2, <2>4, <2>5, ConcatIsSeq, ElemsOfConcat DEF Into
  <2> QED
    BY <2>6
<1>5. CASE Stage
  <2>1. CASE Return
    BY <2>1, ReturnInto
  <2>2. CASE Frame.ss # << >>
    <3> DEFINE b == [k |-> "pipe", ss |-> Tail(Frame.ss), first |-> FALSE,
                     stdin |-> Frame.stdin, cells |-> Frame.cells]
               fs == << StmtFrame(Head(Frame.ss)), b >>
    <3>1. stack' = fs \o Tail(stack)
      BY <1>5, <2>2 DEF Stage, Become
    <3>2. IsSeq(fs) /\ \A f \in Elems(fs) : f.k \notin {"end", "bind"}
      BY Tuples, PlainInto
    <3> HIDE DEF fs
    <3> QED
      BY <3>1, <3>2 DEF Into
  <2> QED
    BY <1>5, <2>1, <2>2 DEF Stage
<1>6. CASE Call
  <2> DEFINE c == Frame.c
             sub == [k |-> "subst", ss |-> c.word.ss, ran |-> FALSE, taint |-> {}, cells |-> cells]
             bind == [k |-> "bind", c |-> c, start |-> Len(effs)]
             first == IF c.word.w = "subst" THEN << sub >> ELSE << >>
  <2>1. stack' = (first \o << bind >>) \o Tail(stack)
    BY <1>6 DEF Call, Become
  <2>2. sub.k \notin {"end", "bind"} /\ bind.start = Len(effs)
    OBVIOUS
  <2> HIDE DEF sub, bind
  <2>3. IsSeq(first) /\ Elems(first) \subseteq {sub} /\ IsSeq(<< bind >>) /\ Elems(<< bind >>) = {bind}
    BY Tuples
  <2> HIDE DEF first
  <2>4. Into(first \o << bind >>)
    BY <2>1, <2>2, <2>3, ConcatIsSeq, ElemsOfConcat DEF Into
  <2> QED
    BY <2>4
<1>7. CASE Substitution
  <2>1. CASE Frame.ss = << >>
    <3>1. Return
      BY <1>7, <2>1 DEF Substitution
    <3> QED
      BY <3>1, ReturnInto
  <2>2. CASE Frame.ss # << >>
    <3> DEFINE b == [k |-> "subst", ss |-> Tail(Frame.ss), ran |-> TRUE,
                     taint |-> FoldedOutput(Frame), cells |-> Frame.cells]
               fs == << StmtFrame(Head(Frame.ss)), b >>
    <3>1. stack' = fs \o Tail(stack)
      BY <1>7, <2>2 DEF Substitution, Become
    <3>2. IsSeq(fs) /\ \A f \in Elems(fs) : f.k \notin {"end", "bind"}
      BY Tuples, PlainInto
    <3> HIDE DEF fs
    <3> QED
      BY <3>1, <3>2 DEF Into
  <2> QED
    BY <2>1, <2>2
<1>8. CASE Leave \/ Bind \/ EndOfStatement
  <2>1. Return
    BY <1>8 DEF Leave, Bind, EndOfStatement
  <2> QED
    BY <2>1, ReturnInto
<1> QED
  BY <1>1, <1>2, <1>3, <1>4, <1>5, <1>6, <1>7, <1>8 DEF Analyse, Compose

\* The calls below the innermost one keep their place from the end.
LEMMA Below ==
  ASSUME StackOK, stack # << >>, NEW fs, Into(fs)
  PROVE  /\ Len(stack) \in Nat /\ Len(stack') \in Nat /\ Len(fs) \in Nat
         /\ Len(stack') = Len(fs) + Len(stack) - 1
         /\ Len(stack) >= 2 => stack'[Len(stack')] = stack[Len(stack)]
         /\ Len(stack) >= 3 => stack'[Len(stack') - 1] = stack[Len(stack) - 1]
<1> DEFINE t == Tail(stack)
<1>1. /\ IsSeq(t) /\ Len(t) = Len(stack) - 1 /\ Len(stack) \in Nat /\ Len(stack) > 0
      /\ \A i \in 1 .. (Len(stack) - 1) : t[i] = stack[i + 1]
  BY TailIsSeq DEF StackOK
<1> HIDE DEF t
<1>2. /\ Len(stack') = Len(fs) + Len(t) /\ Len(fs) \in Nat /\ Len(t) \in Nat
      /\ \A i \in 1 .. Len(t) : stack'[Len(fs) + i] = t[i]
  BY <1>1, ConcatIsSeq DEF Into, t
<1>3. ASSUME Len(stack) >= 2 PROVE stack'[Len(stack')] = stack[Len(stack)]
  <2>1. Len(t) \in 1 .. Len(t) /\ Len(t) \in 1 .. (Len(stack) - 1) /\ Len(t) + 1 = Len(stack)
    BY <1>1, <1>2, <1>3
  <2> QED
    BY <1>1, <1>2, <2>1
<1>4. ASSUME Len(stack) >= 3 PROVE stack'[Len(stack') - 1] = stack[Len(stack) - 1]
  <2>1. /\ Len(t) - 1 \in 1 .. Len(t) /\ Len(t) - 1 \in 1 .. (Len(stack) - 1)
        /\ (Len(t) - 1) + 1 = Len(stack) - 1 /\ Len(fs) + (Len(t) - 1) = Len(stack') - 1
    BY <1>1, <1>2, <1>4
  <2> QED
    BY <1>1, <1>2, <2>1
<1> QED
  BY <1>1, <1>2, <1>3, <1>4

-----------------------------------------------------------------------------
\* The top level: its list, the statement in progress above it, and the input
\* that is to be restored; the effects of the statements before it are kept.
SpansOK ==
  /\ prog \in StmtLists
  /\ spans \in Seq(Nat) /\ Len(spans) <= Len(prog)
  /\ \A n \in 1 .. Len(spans) : spans[n] <= Len(effs) /\ spans[n] <= Base
  /\ Len(stack) >= 2 => spans # << >>

TopOK ==
  stack # << >> =>
    /\ stack[Len(stack)].k = "list"
    /\ stack[Len(stack)].ss = SubSeq(prog, Len(spans) + 1, Len(prog))

InputOK ==
  /\ Len(stack) = 1 => stdin = {}
  /\ Len(stack) = 2 => \/ stack[1].k = "stmt" /\ stdin = {}
                       \/ stack[1].k = "end" /\ stack[1].stdin = {}
  /\ Len(stack) >= 3 => stack[Len(stack) - 1].k = "end" /\ stack[Len(stack) - 1].stdin = {}

StartsOK ==
  spans # << >> => \A f \in Elems(stack) : f.k \in {"end", "bind"} => Base <= f.start

Floor == SpansOK /\ TopOK /\ InputOK /\ StartsOK

\* The innermost call decides the step.
LEMMA Chosen ==
  ASSUME Analyse, stack # << >>
  PROVE  /\ mode = "analyse" /\ prog' = prog
         /\ Frame.k = "list" => List
         /\ Frame.k = "stmt" => Statement
         /\ Frame.k = "redirs" => Redirections
         /\ Frame.k = "run" => Command
         /\ Frame.k = "call" => Call
         /\ Frame.k = "bind" => Bind
         /\ Frame.k = "end" => EndOfStatement
BY DEF Analyse, List, Statement, Redirections, Command, Leave, Stage, Call, Substitution, Bind,
   EndOfStatement, Compose, In

\* A top-level statement is started.
LEMMA StatementStarts ==
  ASSUME StackOK, Floor, List, prog' = prog, Len(stack) = 1
  PROVE  /\ effs' = effs /\ stdin' = stdin /\ pending' = pending
         /\ \/ stack' = << >> /\ spans' = spans
            \/ /\ Len(spans) + 1 <= Len(prog)
               /\ spans' = Append(spans, Len(effs))
               /\ stack' = << StmtFrame(prog[Len(spans) + 1]),
                              ListFrame(SubSeq(prog, Len(spans) + 2, Len(prog))) >>
<1>1. PICK T : stack \in Seq(T)
  BY DEF StackOK, IsSeq
<1>2. Tail(stack) = << >> /\ Frame = stack[1] /\ stack # << >>
  <2>1. stack # << >> /\ Frame = stack[1]
    BY <1>1 DEF Frame
  <2>2. Tail(stack) = << >>
    <3> DEFINE t == Tail(stack)
    <3>1. IsSeq(t) /\ Len(t) = 0
      BY <2>1, TailIsSeq DEF StackOK
    <3> HIDE DEF t
    <3>2. t = << >>
      BY <3>1, TailIsSeq
    <3> QED
      BY <3>2 DEF t
  <2> QED
    BY <2>1, <2>2
<1>3. /\ Frame.ss = SubSeq(prog, Len(spans) + 1, Len(prog))
      /\ prog \in Seq(Statements) /\ Len(spans) \in Nat /\ Len(prog) \in Nat
  BY <1>2 DEF Floor, SpansOK, TopOK, StmtLists
<1>4. effs' = effs /\ stdin' = stdin /\ pending' = pending
  BY DEF List, Flow
<1>5. CASE Frame.ss = << >>
  BY <1>2, <1>4, <1>5 DEF List, Return
<1>6. CASE Frame.ss # << >>
  <2>1. Len(spans) + 1 <= Len(prog)
    BY <1>3, <1>6
  <2>2. /\ Head(Frame.ss) = prog[Len(spans) + 1]
        /\ Tail(Frame.ss) = SubSeq(prog, Len(spans) + 2, Len(prog))
    BY <1>3, <2>1
  <2>3. stack' = << StmtFrame(Head(Frame.ss)), ListFrame(Tail(Frame.ss)) >> \o << >>
    BY <1>2, <1>6 DEF List, Become
  <2>4. stack' = << StmtFrame(Head(Frame.ss)), ListFrame(Tail(Frame.ss)) >>
    BY <2>3
  <2>5. spans' = Append(spans, Len(effs))
    BY <1>6 DEF List
  <2> QED
    BY <1>4, <2>1, <2>2, <2>4, <2>5
<1> QED
  BY <1>5, <1>6

\* The effects of the earlier statements are not touched, and none is lost.
Before == Len(effs) <= Len(effs') /\ \A i \in 1 .. Base : effs'[i] = effs[i]

LEMMA ReplacedBefore ==
  ASSUME IsSeq(effs), NEW n \in 0 .. Len(effs), NEW es, IsSeq(es), NEW m, m \in Nat, m <= n,
         effs' = Replaced(n, es)
  PROVE  \A i \in 1 .. m : effs'[i] = effs[i]
<1> DEFINE a == SubSeq(effs, 1, n)
<1>1. IsSeq(a) /\ Len(a) = n /\ \A i \in 1 .. n : a[i] = effs[i]
  BY SplitIsSeq
<1>2. effs' = a \o es
  BY DEF Replaced
<1> HIDE DEF a
<1>3. \A i \in 1 .. n : effs'[i] = a[i]
  BY <1>1, <1>2, ConcatIsSeq
<1>4. n \in Nat /\ 1 .. m \subseteq 1 .. n
  <2>1. Len(effs) \in Nat
    BY ConcatIsSeq
  <2> QED
    BY <2>1
<1> QED
  BY <1>1, <1>3, <1>4

LEMMA AppendedBefore ==
  ASSUME IsSeq(effs), NEW es, IsSeq(es), effs' = effs \o es
  PROVE  \A i \in 1 .. Len(effs) : effs'[i] = effs[i]
BY ConcatIsSeq

LEMMA StepBefore ==
  ASSUME StackOK, Floor, Analyse, Len(stack) >= 2
  PROVE  Before
<1>0. Len(effs) \in Nat /\ Len(effs') \in Nat /\ Len(effs) <= Len(effs')
  <2>1. Extends(effs, effs')
    BY AnalyseKeeps DEF Kept
  <2> QED
    BY <2>1, ConcatIsSeq DEF Extends
<1>1. spans # << >> /\ stack # << >>
  BY Tuples DEF Floor, SpansOK
<1>2. Base \in Nat /\ Base <= Len(effs) /\ 1 .. Base \subseteq 1 .. Len(effs)
  <2>1. Len(spans) \in 1 .. Len(spans) /\ spans[Len(spans)] \in Nat
    BY <1>1 DEF Floor, SpansOK
  <2> QED
    BY <1>0, <2>1 DEF Floor, SpansOK, Base
<1>3. CASE effs' = effs
  BY <1>0, <1>3 DEF Before
<1>4. CASE Redirections /\ effs' # effs
  <2>1. PICK e : effs' = Append(effs, e)
    BY <1>4 DEF Redirections, Redirect
  <2>2. effs' = effs \o << e >> /\ IsSeq(<< e >>)
    BY <2>1, AppendIsConcat, Tuples DEF StackOK
  <2> QED
    BY <1>0, <1>2, <2>2, AppendedBefore DEF StackOK, Before
<1>5. CASE Bind
  <2> DEFINE c == Frame.c
             l == WordTaint(c.word)
             es == From(Frame.start) \o EnvReads(c.word)
             new == EgressWithSecret(es \o Bound(c, l), l)
  <2>1. Frame \in Elems(stack) /\ Frame.k = "bind" /\ Frame.start \in 0 .. Len(effs)
    BY <1>1, <1>5, FrameIsOK DEF Bind, In, FrameOK
  <2>2. CASE c.op = "assign"
    <3>1. PICK e : effs' = (effs \o << e >>) \o EnvReads(c.word)
      BY <1>5, <2>2 DEF Bind
    <3>2. IsSeq(<< e >>) /\ IsSeq(EnvReads(c.word)) /\ IsSeq(effs)
      BY Tuples, EnvReadsIsSeq DEF StackOK
    <3>3. /\ IsSeq(effs \o << e >>) /\ Len(effs \o << e >>) = Len(effs) + Len(<< e >>)
          /\ Len(<< e >>) \in Nat
          /\ \A i \in 1 .. Len(effs) : (effs \o << e >>)[i] = effs[i]
      BY <3>2, ConcatIsSeq
    <3>4. \A i \in 1 .. Len(effs \o << e >>) : effs'[i] = (effs \o << e >>)[i]
      BY <3>1, <3>2, <3>3, ConcatIsSeq
    <3>5. 1 .. Len(effs) \subseteq 1 .. Len(effs \o << e >>)
      BY <1>0, <3>3
    <3> QED
      BY <1>0, <1>2, <3>3, <3>4, <3>5 DEF Before
  <2>3. CASE c.op # "assign"
    <3>1. effs' = Replaced(Frame.start, new)
      BY <1>5, <2>3 DEF Bind
    <3>2. IsSeq(new)
      BY <2>1, BindExtends DEF Extends
    <3>3. Base <= Frame.start
      BY <1>1, <2>1 DEF Floor, StartsOK
    <3> HIDE DEF new
    <3> QED
      BY <1>0, <1>2, <2>1, <3>1, <3>2, <3>3, ReplacedBefore DEF StackOK, Before
  <2> QED
    BY <2>2, <2>3
<1>6. CASE EndOfStatement
  <2> DEFINE fed == Relabel(effs, pending, stdout \cup stdin)
             es == ReadBack(SubSeq(fed, Frame.start + 1, Len(fed)))
             new == EgressWithSecret(Staging(es), {})
  <2>1. Frame \in Elems(stack) /\ Frame.k = "end" /\ Frame.start \in 0 .. Len(effs)
    BY <1>1, <1>6, FrameIsOK DEF EndOfStatement, In, FrameOK
  <2>2. effs' = Replaced(Frame.start, new)
    BY <1>6 DEF EndOfStatement
  <2>3. IsSeq(new)
    BY <2>1, EndExtends DEF Extends
  <2>4. Base <= Frame.start
    BY <1>1, <2>1 DEF Floor, StartsOK
  <2> HIDE DEF new
  <2> QED
    BY <1>0, <1>2, <2>1, <2>2, <2>3, <2>4, ReplacedBefore DEF StackOK, Before
<1> QED
  BY <1>1, <1>3, <1>4, <1>5, <1>6 DEF Analyse, List, Statement, Command, Leave, Stage, Call,
     Substitution, Compose

\* The top level stays as it is below the statement in progress.
LEMMA StepFloor == ASSUME StackOK, Floor, Analyse PROVE Floor'
<1>0. Len(effs) \in Nat /\ Len(effs') \in Nat /\ Len(effs) <= Len(effs')
  <2>1. Extends(effs, effs')
    BY AnalyseKeeps DEF Kept
  <2> QED
    BY <2>1, ConcatIsSeq DEF Extends
<1>p. /\ prog' = prog /\ prog \in StmtLists /\ Len(prog) \in Nat
      /\ spans \in Seq(Nat) /\ Len(spans) \in Nat
  BY DEF Analyse, Floor, SpansOK, StmtLists
<1>1. CASE stack = << >>
  <2>1. Compose
    BY <1>1 DEF Analyse, List, Statement, Redirections, Command, Leave, Stage, Call,
       Substitution, Bind, EndOfStatement, In
  <2>2. UNCHANGED <<prog, stack, effs, spans, stdin>>
    BY <1>p, <2>1 DEF Compose, Flow
  <2> QED
    BY <2>2 DEF Floor, SpansOK, TopOK, InputOK, StartsOK, Base
<1>2. CASE stack # << >> /\ Len(stack) = 1
  <2>1. Frame.k = "list"
    BY <1>2, TailIsSeq DEF Floor, TopOK, Frame, StackOK
  <2>2. List
    BY <1>2, <2>1, Chosen
  <2>3. effs' = effs /\ stdin' = stdin /\ stdin = {}
    BY <1>2, <1>p, <2>2, StatementStarts DEF Floor, InputOK
  <2>4. CASE stack' = << >> /\ spans' = spans
    <3>1. Base' = Base /\ Len(stack') = 0
      BY <2>4 DEF Base
    <3>2. SpansOK' /\ TopOK' /\ InputOK'
      BY <1>p, <2>3, <2>4, <3>1 DEF Floor, SpansOK, TopOK, InputOK
    <3>3. StartsOK'
      BY <2>4, Tuples DEF StartsOK
    <3> QED
      BY <3>2, <3>3 DEF Floor
  <2>5. CASE /\ Len(spans) + 1 <= Len(prog)
             /\ spans' = Append(spans, Len(effs))
             /\ stack' = << StmtFrame(prog[Len(spans) + 1]),
                            ListFrame(SubSeq(prog, Len(spans) + 2, Len(prog))) >>
    <3> DEFINE a == StmtFrame(prog[Len(spans) + 1])
               b == ListFrame(SubSeq(prog, Len(spans) + 2, Len(prog)))
    <3>1. /\ spans' \in Seq(Nat) /\ Len(spans') = Len(spans) + 1 /\ spans' # << >>
          /\ Base' = Len(effs)
          /\ \A n \in 1 .. Len(spans) : spans'[n] = spans[n]
          /\ spans'[Len(spans) + 1] = Len(effs)
      BY <1>0, <1>p, <2>5 DEF Base
    <3>2. \A n \in 1 .. Len(spans') : spans'[n] <= Len(effs') /\ spans'[n] <= Base'
      <4>1. ASSUME NEW n \in 1 .. Len(spans) PROVE spans'[n] <= Len(effs') /\ spans'[n] <= Base'
        BY <2>3, <3>1 DEF Floor, SpansOK
      <4>2. \A n \in 1 .. Len(spans') : n \in 1 .. Len(spans) \/ n = Len(spans) + 1
        BY <1>p, <3>1
      <4> QED
        BY <1>0, <2>3, <3>1, <4>1, <4>2
    <3>3. a.k = "stmt" /\ b.k = "list" /\ b.ss = SubSeq(prog, Len(spans) + 2, Len(prog))
      BY DEF ListFrame, StmtFrame
    <3> HIDE DEF a, b
    <3>4. stack' = << a, b >>
      BY <2>5 DEF a, b
    <3>5. Len(stack') = 2 /\ stack'[1] = a /\ stack'[2] = b /\ Elems(stack') = {a, b}
      BY <3>4, Tuples
    <3>6. Len(spans') + 1 = Len(spans) + 2
      BY <1>p, <3>1
    <3> QED
      <4>1. SpansOK'
        BY <1>p, <2>5, <3>1, <3>2, <3>5 DEF SpansOK
      <4>2. TopOK'
        BY <1>p, <3>1, <3>3, <3>5, <3>6 DEF TopOK
      <4>3. InputOK'
        BY <2>3, <3>3, <3>5 DEF InputOK
      <4>4. StartsOK'
        BY <3>3, <3>5 DEF StartsOK
      <4> QED
        BY <4>1, <4>2, <4>3, <4>4 DEF Floor
  <2> QED
    BY <1>2, <1>p, <2>2, <2>4, <2>5, StatementStarts
<1>3. CASE stack # << >> /\ Len(stack) # 1
  <2>0. Len(stack) \in Nat /\ Len(stack) >= 2
    <3>1. Len(stack) \in Nat /\ Len(stack) > 0
      BY <1>3, TailIsSeq DEF StackOK
    <3>2. \A n \in Nat : n > 0 /\ n # 1 => n >= 2
      OBVIOUS
    <3> QED
      BY <1>3, <3>1, <3>2
  <2>1. PICK fs : Into(fs)
    BY <1>3, StepInto
  <2>2. spans' = spans /\ Base' = Base
    <3>1. spans' = spans
      BY <2>0, <1>3 DEF Analyse, List, Statement, Redirections, Command, Leave, Stage, Call,
         Substitution, Bind, EndOfStatement, Compose
    <3> QED
      BY <3>1 DEF Base
  <2>3. /\ Len(stack') \in Nat /\ Len(fs) \in Nat /\ Len(stack') = Len(fs) + Len(stack) - 1
        /\ stack'[Len(stack')] = stack[Len(stack)]
        /\ Len(stack) >= 3 => stack'[Len(stack') - 1] = stack[Len(stack) - 1]
    BY <1>3, <2>0, <2>1, Below
  <2>4. /\ \A n \in 1 .. Len(spans) : spans[n] <= Len(effs') /\ spans[n] <= Base
        /\ spans # << >>
    <3>1. \A n \in 1 .. Len(spans) : spans[n] \in Nat
      BY <1>p
    <3> QED
      BY <1>0, <1>p, <2>0, <3>1 DEF Floor, SpansOK
  <2>5. \A f \in Elems(stack') : f.k \in {"end", "bind"} => Base <= f.start
    <3>1. Elems(stack') \subseteq Elems(fs) \cup Elems(stack)
      BY <1>3, <2>1, ElemsOfBecome DEF StackOK, Into
    <3>2. Base <= Len(effs)
      <4>1. Len(spans) \in 1 .. Len(spans)
        BY <1>p, <2>4
      <4> QED
        BY <4>1 DEF Floor, SpansOK, Base
    <3> QED
      BY <2>1, <2>4, <3>1, <3>2 DEF Floor, StartsOK, Into
  <2>s. SpansOK'
    BY <1>p, <2>2, <2>4 DEF Floor, SpansOK
  <2>t. TopOK'
    BY <1>3, <1>p, <2>2, <2>3 DEF Floor, TopOK
  <2>u. StartsOK'
    BY <2>2, <2>5 DEF StartsOK
  <2>6. CASE Len(stack) >= 3
    <3>1. /\ stack'[Len(stack') - 1].k = "end" /\ stack'[Len(stack') - 1].stdin = {}
          /\ Len(stack') >= 2
      BY <2>0, <2>3, <2>6 DEF Floor, InputOK
    <3>2. Len(stack') = 2 => Len(stack') - 1 = 1
      OBVIOUS
    <3>3. InputOK'
      BY <2>3, <3>1, <3>2 DEF InputOK
    <3> QED
      BY <2>s, <2>t, <2>u, <3>3 DEF Floor
  <2>7. CASE Len(stack) = 2 /\ Frame.k = "stmt"
    <3>0. stdin = {} /\ Statement
      <4>1. Frame = stack[1]
        BY <1>3, TailIsSeq DEF StackOK, Frame
      <4> QED
        BY <1>3, <2>7, <4>1, Chosen DEF Floor, InputOK
    <3> DEFINE a == [k |-> "redirs", rs |-> Frame.s.redirs]
               b == [k |-> "run", s |-> Frame.s]
    <3>1. stack' = << a, b, StatementEnd >> \o Tail(stack)
      BY <3>0 DEF Statement, Become
    <3>2. StatementEnd.k = "end" /\ StatementEnd.stdin = {}
      BY <3>0 DEF StatementEnd, EndFrame
    <3> HIDE DEF a, b
    <3>3. IsSeq(Tail(stack)) /\ Len(Tail(stack)) = 1 /\ Tail(stack)[1] = stack[2]
      BY <1>3, <2>7, TailIsSeq DEF StackOK
    <3>4. Len(stack') = 4 /\ stack'[3] = StatementEnd
      <4>1. /\ IsSeq(<< a, b, StatementEnd >>) /\ Len(<< a, b, StatementEnd >>) = 3
            /\ << a, b, StatementEnd >>[3] = StatementEnd
        BY Tuples
      <4> QED
        BY <3>1, <3>3, <4>1, ConcatIsSeq
    <3> QED
      BY <2>s, <2>t, <2>u, <3>2, <3>4 DEF Floor, InputOK
  <2>8. CASE Len(stack) = 2 /\ Frame.k = "end"
    <3>0. stdin' = {} /\ Return
      <4>1. Frame = stack[1]
        BY <1>3, TailIsSeq DEF StackOK, Frame
      <4>2. Frame.stdin = {}
        BY <2>8, <4>1 DEF Floor, InputOK
      <4> QED
        BY <1>3, <2>8, <4>2, Chosen DEF EndOfStatement
    <3>1. Len(stack') = 1
      BY <1>3, <2>8, <3>0, TailIsSeq DEF StackOK, Return
    <3> QED
      BY <2>s, <2>t, <2>u, <3>0, <3>1 DEF Floor, InputOK
  <2> QED
    <3>1. Frame = stack[1]
      BY <1>3, TailIsSeq DEF StackOK, Frame
    <3> QED
      <4>1. \A n \in Nat : n >= 2 => n = 2 \/ n >= 3
        OBVIOUS
      <4>2. Len(stack) = 2 => Frame.k = "stmt" \/ Frame.k = "end"
        BY <3>1 DEF Floor, InputOK
      <4> QED
        BY <2>0, <2>6, <2>7, <2>8, <4>1, <4>2
<1> QED
  BY <1>1, <1>2, <1>3

-----------------------------------------------------------------------------
\* A request, and nothing else.

\* Nothing has been bound or queued for the statement in progress.
Idle == Len(effs) = Base /\ stdin = {} /\ pending = {}

\* How far a request is: e is to restore its input, r is the list it is of.
Sending ==
  \E e, r :
    /\ e.k = "end" /\ e.start = Base
    /\ \/ stack = << StmtFrame(S(Get)), r >> /\ Len(effs) = Base /\ stdin = {}
       \/ /\ stack = << [k |-> "redirs", rs |-> << >>], [k |-> "run", s |-> S(Get)], e, r >>
          /\ Idle
       \/ stack = << [k |-> "run", s |-> S(Get)], e, r >> /\ Idle
       \/ stack = << [k |-> "call", c |-> Get], e, r >> /\ Idle
       \/ stack = << [k |-> "bind", c |-> Get, start |-> Base], e, r >> /\ Idle
       \/ stack = << e, r >> /\ pending = {}

\* The effects of the n-th statement are requests.
Asks(n) ==
  \A i \in (spans[n] + 1) .. (IF n = Len(spans) THEN Len(effs) ELSE spans[n + 1]) : effs[i] = Request

Quiet ==
  /\ \A n \in 1 .. Len(spans) : prog[n] = S(Get) => Asks(n)
  /\ Len(stack) >= 2 /\ prog[Len(spans)] = S(Get) => Sending

\* The passes over a list of requests that carry nothing leave it as it is.
LEMMA PassesAsk ==
  ASSUME NEW es, IsSeq(es), \A i \in 1 .. Len(es) : es[i] = Request
  PROVE  /\ ReadBack(es) = es
         /\ Staging(es) = es
         /\ EgressWithSecret(es, {}) = es
<1>1. DOMAIN es = 1 .. Len(es)
  <2>1. PICK T : es \in Seq(T)
    BY DEF IsSeq
  <2> QED
    BY <2>1
<1>2. Request.kind = "NetEgress" /\ Request.taint = {} /\ Request.target.elems = {}
  BY DEF Request, Eff, NoTarget, FlatOf
<1>3. StagedReads(es) = {}
  BY <1>1, <1>2 DEF StagedReads, OfKind
<1>4. ~HandlesSecret(es) /\ SecretReads(es) = {}
  BY <1>1, <1>2 DEF HandlesSecret, SecretReads, IsSecretRead, SecretTarget
<1> QED
  BY <1>3, <1>4 DEF ReadBack, Staging, EgressWithSecret

LEMMA RelabelNone ==
  ASSUME NEW es, IsSeq(es), NEW l
  PROVE  Relabel(es, {}, l) = es
<1>1. PICK T : es \in Seq(T)
  BY DEF IsSeq
<1>2. Relabel(es, {}, l) = [i \in DOMAIN es |-> es[i]]
  BY DEF Relabel
<1> QED
  BY <1>1, <1>2

\* Binding a request with no input.
LEMMA BoundGet ==
  ASSUME stdin = {}
  PROVE  Bound(Get, {}) = << Request >>
<1> DEFINE es == << Request >>
<1>1. Declared(Get, {}) = es
  BY DEF Declared, Get
<1>2. DOMAIN es = {1} /\ es[1] = Request /\ IsSeq(es) /\ Len(es) = 1
  BY Tuples
<1>3. Request.kind = "NetEgress" /\ Carrying(Request, {}) = Request
  BY DEF Request, Eff, Carrying
<1> HIDE DEF es
<1>4. OfKind(es, {"FSRead"}) = {}
  BY <1>2, <1>3 DEF OfKind
<1>5. TaintRead(es, {"FSRead"}) = {}
  BY <1>4 DEF TaintRead
<1>6. Bound(Get, {}) = Relabel(es, Egresses(es), {})
  BY <1>1, <1>5 DEF Bound, TaintEgress
<1>7. Relabel(es, Egresses(es), {}) = [i \in {1} |-> Request]
  BY <1>2, <1>3 DEF Relabel
<1>8. es = [i \in {1} |-> Request]
  BY DEF es
<1> QED
  BY <1>6, <1>7, <1>8 DEF es

\* The list after the binding of a request, and after the end of its statement.
LEMMA ReplacedAsks ==
  ASSUME IsSeq(effs), NEW n \in 0 .. Len(effs), NEW es, IsSeq(es),
         \A i \in 1 .. Len(es) : es[i] = Request, effs' = Replaced(n, es)
  PROVE  \A i \in (n + 1) .. Len(effs') : effs'[i] = Request
<1> DEFINE a == SubSeq(effs, 1, n)
<1>1. IsSeq(a) /\ Len(a) = n /\ Len(effs) \in Nat
  BY SplitIsSeq
<1>2. effs' = a \o es
  BY DEF Replaced
<1> HIDE DEF a
<1>3. /\ Len(effs') = n + Len(es) /\ Len(es) \in Nat /\ n \in Nat
      /\ \A i \in (n + 1) .. (n + Len(es)) : effs'[i] = es[i - n]
  BY <1>1, <1>2, ConcatIsSeq
<1>4. \A i \in (n + 1) .. (n + Len(es)) : i - n \in 1 .. Len(es)
  BY <1>3
<1> QED
  BY <1>3, <1>4

LEMMA SameSeq ==
  ASSUME NEW s, NEW t, IsSeq(s), IsSeq(t), Len(s) = Len(t), \A i \in 1 .. Len(s) : s[i] = t[i]
  PROVE  s = t
<1>1. PICK T : s \in Seq(T)
  BY DEF IsSeq
<1>2. PICK U : t \in Seq(U)
  BY DEF IsSeq
<1>3. s \in Seq(T \cup U) /\ t \in Seq(T \cup U)
  BY <1>1, <1>2
<1> QED
  BY <1>3

LEMMA TailsOf ==
  /\ \A a, b : Tail(<< a, b >>) = << b >>
  /\ \A a, b, c : Tail(<< a, b, c >>) = << b, c >>
  /\ \A a, b, c, d : Tail(<< a, b, c, d >>) = << b, c, d >>
  /\ \A a : << a >> \o << >> = << a >> /\ << >> \o << a >> = << a >>
<1>1. \A a, b : Tail(<< a, b >>) = << b >>
  OBVIOUS
<1>2. \A a, b, c : Tail(<< a, b, c >>) = << b, c >>
  OBVIOUS
<1>3. \A a, b, c, d : Tail(<< a, b, c, d >>) = << b, c, d >>
  OBVIOUS
<1>4. \A a : << a >> \o << >> = << a >> /\ << >> \o << a >> = << a >>
  OBVIOUS
<1> QED
  BY <1>1, <1>2, <1>3, <1>4

LEMMA OneOnTwo ==
  ASSUME NEW a, NEW b, NEW c
  PROVE  << a >> \o << b, c >> = << a, b, c >>
<1> DEFINE s == << a >>
           t == << b, c >>
           u == << a, b, c >>
           U == {a, b, c}
<1>1. /\ s \in Seq(U) /\ Len(s) = 1 /\ t \in Seq(U) /\ Len(t) = 2
      /\ u \in Seq(U) /\ Len(u) = 3
      /\ s[1] = a /\ t[1] = b /\ t[2] = c
      /\ u[1] = a /\ u[2] = b /\ u[3] = c
  OBVIOUS
<1> HIDE DEF s, t, u, U
<1>2. IsSeq(s) /\ IsSeq(t) /\ IsSeq(u)
  BY <1>1 DEF IsSeq
<1>3. /\ IsSeq(s \o t) /\ Len(s \o t) = 3
      /\ (s \o t)[1] = s[1] /\ (s \o t)[2] = t[1] /\ (s \o t)[3] = t[2]
  <2>1. /\ IsSeq(s \o t) /\ Len(s \o t) = Len(s) + Len(t)
        /\ \A i \in 1 .. Len(s) : (s \o t)[i] = s[i]
        /\ \A i \in 1 .. Len(t) : (s \o t)[Len(s) + i] = t[i]
    BY <1>2, ConcatIsSeq
  <2>2. 1 \in 1 .. Len(s) /\ 1 \in 1 .. Len(t) /\ 2 \in 1 .. Len(t)
    BY <1>1
  <2>3. Len(s) + 1 = 2 /\ Len(s) + 2 = 3 /\ Len(s) + Len(t) = 3
    BY <1>1
  <2> QED
    BY <2>1, <2>2, <2>3
<1>4. \A i \in 1 .. 3 : i \in {1, 2, 3}
  OBVIOUS
<1>5. s \o t = u
  BY <1>1, <1>2, <1>3, <1>4, SameSeq
<1> QED
  BY <1>5 DEF s, t, u

LEMMA ThreeOnOne ==
  ASSUME NEW a, NEW b, NEW c, NEW d
  PROVE  << a, b, c >> \o << d >> = << a, b, c, d >>
<1> DEFINE s == << a, b, c >>
           t == << d >>
           u == << a, b, c, d >>
           U == {a, b, c, d}
<1>1. /\ s \in Seq(U) /\ Len(s) = 3 /\ t \in Seq(U) /\ Len(t) = 1
      /\ u \in Seq(U) /\ Len(u) = 4
      /\ s[1] = a /\ s[2] = b /\ s[3] = c /\ t[1] = d
      /\ u[1] = a /\ u[2] = b /\ u[3] = c /\ u[4] = d
  OBVIOUS
<1> HIDE DEF s, t, u, U
<1>2. IsSeq(s) /\ IsSeq(t) /\ IsSeq(u)
  BY <1>1 DEF IsSeq
<1>3. /\ IsSeq(s \o t) /\ Len(s \o t) = 4
      /\ (s \o t)[1] = s[1] /\ (s \o t)[2] = s[2] /\ (s \o t)[3] = s[3] /\ (s \o t)[4] = t[1]
  <2>1. /\ IsSeq(s \o t) /\ Len(s \o t) = Len(s) + Len(t)
        /\ \A i \in 1 .. Len(s) : (s \o t)[i] = s[i]
        /\ \A i \in 1 .. Len(t) : (s \o t)[Len(s) + i] = t[i]
    BY <1>2, ConcatIsSeq
  <2>2. 1 \in 1 .. Len(s) /\ 2 \in 1 .. Len(s) /\ 3 \in 1 .. Len(s) /\ 1 \in 1 .. Len(t)
    BY <1>1
  <2>3. Len(s) + 1 = 4 /\ Len(s) + Len(t) = 4
    BY <1>1
  <2> QED
    BY <2>1, <2>2, <2>3
<1>4. \A i \in 1 .. 4 : i \in {1, 2, 3, 4}
  OBVIOUS
<1>5. s \o t = u
  BY <1>1, <1>2, <1>3, <1>4, SameSeq
<1> QED
  BY <1>5 DEF s, t, u

LEMMA SendingStep ==
  ASSUME StackOK, Floor, Analyse, Len(stack) >= 2, Sending, Asks(Len(spans)), stack # << >>
  PROVE  /\ \A i \in (Base + 1) .. Len(effs') : effs'[i] = Request
         /\ Len(stack') >= 2 => Sending'
<1>0. /\ spans' = spans /\ Base' = Base
      /\ \A i \in (Base + 1) .. Len(effs) : effs[i] = Request
      /\ Base \in 0 .. Len(effs) /\ IsSeq(effs) /\ Len(effs) \in Nat
  <2>1. spans' = spans
    <3>1. Len(stack) # 1
      <4>1. Len(stack) \in Nat
        BY TailIsSeq DEF StackOK
      <4>2. \A n \in Nat : n >= 2 => n # 1
        OBVIOUS
      <4> QED
        BY <4>1, <4>2
    <3> QED
      BY <3>1 DEF Analyse, List, Statement, Redirections, Command, Leave, Stage, Call,
         Substitution, Bind, EndOfStatement, Compose
  <2>2. IsSeq(effs) /\ Len(effs) \in Nat
    BY ConcatIsSeq DEF StackOK
  <2>3. Len(spans) \in 1 .. Len(spans) /\ spans[Len(spans)] \in Nat
    BY DEF Floor, SpansOK
  <2>4. Base \in 0 .. Len(effs)
    BY <2>2, <2>3 DEF Base, Floor, SpansOK
  <2> QED
    BY <2>1, <2>2, <2>4 DEF Asks, Base
<1>1. PICK e, r :
    /\ e.k = "end" /\ e.start = Base
    /\ \/ stack = << StmtFrame(S(Get)), r >> /\ Len(effs) = Base /\ stdin = {}
       \/ /\ stack = << [k |-> "redirs", rs |-> << >>], [k |-> "run", s |-> S(Get)], e, r >>
          /\ Idle
       \/ stack = << [k |-> "run", s |-> S(Get)], e, r >> /\ Idle
       \/ stack = << [k |-> "call", c |-> Get], e, r >> /\ Idle
       \/ stack = << [k |-> "bind", c |-> Get, start |-> Base], e, r >> /\ Idle
       \/ stack = << e, r >> /\ pending = {}
  BY DEF Sending
<1>g. S(Get).redirs = << >> /\ S(Get).c = Get /\ ~S(Get).bg /\ Get.op = "get" /\ Get.word = Lit /\ Lit.w = "lit"
  BY DEF S, Get, Lit
<1>2. CASE stack = << StmtFrame(S(Get)), r >> /\ Len(effs) = Base /\ stdin = {}
  <2>1. Frame = StmtFrame(S(Get)) /\ Tail(stack) = << r >>
    BY <1>2 DEF Frame
  <2>2. Frame.k = "stmt" /\ Frame.s = S(Get)
    BY <2>1 DEF StmtFrame
  <2>3. Statement
    BY <2>2, Chosen
  <2>4. stack' = << [k |-> "redirs", rs |-> << >>], [k |-> "run", s |-> S(Get)], StatementEnd >> \o << r >>
    BY <1>g, <2>1, <2>2, <2>3 DEF Statement, Become
  <2>5. stack' = << [k |-> "redirs", rs |-> << >>], [k |-> "run", s |-> S(Get)], StatementEnd, r >>
    <3> DEFINE a == [k |-> "redirs", rs |-> << >>]
               b == [k |-> "run", s |-> S(Get)]
    <3>1. stack' = << a, b, StatementEnd >> \o << r >>
      BY <2>4
    <3> HIDE DEF a, b
    <3>2. stack' = << a, b, StatementEnd, r >>
      BY <3>1, ThreeOnOne
    <3> QED
      BY <3>2 DEF a, b
  <2>6. StatementEnd.k = "end" /\ StatementEnd.start = Base
    BY <1>2 DEF StatementEnd, EndFrame
  <2>7. effs' = effs /\ Idle'
    BY <1>0, <1>2, <2>3 DEF Statement, Flow, Idle
  <2>8. Sending'
    BY <1>0, <2>5, <2>6, <2>7 DEF Sending
  <2> QED
    BY <1>0, <2>7, <2>8
<1>3. CASE /\ stack = << [k |-> "redirs", rs |-> << >>], [k |-> "run", s |-> S(Get)], e, r >>
           /\ Idle
  <2>1. /\ Frame = [k |-> "redirs", rs |-> << >>]
        /\ Tail(stack) = << [k |-> "run", s |-> S(Get)], e, r >>
    BY <1>3, TailsOf DEF Frame
  <2>2. Redirections
    BY <2>1, Chosen
  <2>3. Return /\ UNCHANGED <<effs, stdin, pending>>
    BY <2>1, <2>2 DEF Redirections
  <2>4. stack' = << [k |-> "run", s |-> S(Get)], e, r >> /\ Idle'
    BY <1>0, <1>3, <2>1, <2>3 DEF Return, Idle
  <2>5. Sending'
    BY <1>0, <1>1, <2>4 DEF Sending
  <2> QED
    BY <1>0, <2>3, <2>5
<1>4. CASE stack = << [k |-> "run", s |-> S(Get)], e, r >> /\ Idle
  <2>1. Frame = [k |-> "run", s |-> S(Get)] /\ Tail(stack) = << e, r >>
    BY <1>4, TailsOf DEF Frame
  <2>2. Command
    BY <2>1, Chosen
  <2>3. stack' = (<< [k |-> "call", c |-> Get] >> \o << >>) \o << e, r >>
    BY <1>g, <2>1, <2>2 DEF Command, Become
  <2>4. stack' = << [k |-> "call", c |-> Get], e, r >>
    <3> DEFINE f == [k |-> "call", c |-> Get]
    <3>1. stack' = (<< f >> \o << >>) \o << e, r >>
      BY <2>3
    <3> HIDE DEF f
    <3>2. stack' = << f >> \o << e, r >>
      BY <3>1, TailsOf
    <3>3. stack' = << f, e, r >>
      BY <3>2, OneOnTwo
    <3> QED
      BY <3>3 DEF f
  <2>5. effs' = effs /\ Idle'
    BY <1>0, <1>4, <2>2 DEF Command, Flow, Idle
  <2>6. Sending'
    BY <1>0, <1>1, <2>4, <2>5 DEF Sending
  <2> QED
    BY <1>0, <2>5, <2>6
<1>5. CASE stack = << [k |-> "call", c |-> Get], e, r >> /\ Idle
  <2>1. Frame = [k |-> "call", c |-> Get] /\ Tail(stack) = << e, r >>
    BY <1>5, TailsOf DEF Frame
  <2>2. Call
    BY <2>1, Chosen
  <2>3. stack' = (<< >> \o << [k |-> "bind", c |-> Get, start |-> Base] >>) \o << e, r >>
    BY <1>g, <1>5, <2>1, <2>2 DEF Call, Become, Idle
  <2>4. stack' = << [k |-> "bind", c |-> Get, start |-> Base], e, r >>
    <3> DEFINE f == [k |-> "bind", c |-> Get, start |-> Base]
    <3>1. stack' = (<< >> \o << f >>) \o << e, r >>
      BY <2>3
    <3> HIDE DEF f
    <3>2. stack' = << f >> \o << e, r >>
      BY <3>1, TailsOf
    <3>3. stack' = << f, e, r >>
      BY <3>2, OneOnTwo
    <3> QED
      BY <3>3 DEF f
  <2>5. effs' = effs /\ Idle'
    BY <1>0, <1>5, <2>2 DEF Call, Idle
  <2>6. Sending'
    BY <1>0, <1>1, <2>4, <2>5 DEF Sending
  <2> QED
    BY <1>0, <2>5, <2>6
<1>6. CASE stack = << [k |-> "bind", c |-> Get, start |-> Base], e, r >> /\ Idle
  <2>1. Frame = [k |-> "bind", c |-> Get, start |-> Base] /\ Tail(stack) = << e, r >>
    BY <1>6, TailsOf DEF Frame
  <2>2. Bind
    BY <2>1, Chosen
  <2>3. WordTaint(Get.word) = {} /\ EnvReads(Get.word) = << >>
    BY <1>g DEF WordTaint, EnvReads
  <2>4. From(Base) = << >>
    <3>1. SubSeq(effs, Base + 1, Base) = << >>
      BY <1>0
    <3> QED
      BY <1>6, <3>1 DEF From, Idle
  <2>5. (From(Base) \o EnvReads(Get.word)) \o Bound(Get, WordTaint(Get.word)) = << Request >>
    <3>1. Bound(Get, {}) = << Request >>
      BY <1>6, BoundGet DEF Idle
    <3>2. (<< >> \o << >>) \o << Request >> = << Request >>
      OBVIOUS
    <3> QED
      BY <2>3, <2>4, <3>1, <3>2
  <2>6. /\ effs' = Replaced(Base, EgressWithSecret(<< Request >>, {}))
        /\ Return /\ UNCHANGED <<stdin, pending>>
    BY <1>g, <2>1, <2>2, <2>3, <2>5 DEF Bind
  <2>7. IsSeq(<< Request >>) /\ \A i \in 1 .. Len(<< Request >>) : << Request >>[i] = Request
    BY Tuples
  <2>8. EgressWithSecret(<< Request >>, {}) = << Request >>
    BY <2>7, PassesAsk
  <2>9. \A i \in (Base + 1) .. Len(effs') : effs'[i] = Request
    BY <1>0, <2>6, <2>7, <2>8, ReplacedAsks
  <2>10. stack' = << e, r >> /\ pending' = {}
    BY <1>6, <2>1, <2>6 DEF Return, Idle
  <2>11. Sending'
    BY <1>0, <1>1, <2>10 DEF Sending
  <2> QED
    BY <2>9, <2>11
<1>7. CASE stack = << e, r >> /\ pending = {}
  <2>1. Frame = e /\ Tail(stack) = << r >>
    BY <1>7, TailsOf DEF Frame
  <2>2. EndOfStatement
    BY <1>1, <2>1, Chosen
  <2> DEFINE own == SubSeq(effs, Base + 1, Len(effs))
  <2>3. /\ effs' = Replaced(Base, EgressWithSecret(Staging(ReadBack(own)), {}))
        /\ Return
    <3>1. Relabel(effs, pending, stdout \cup stdin) = effs
      BY <1>0, <1>7, RelabelNone
    <3> QED
      BY <1>1, <2>1, <2>2, <3>1 DEF EndOfStatement
  <2>4. IsSeq(own) /\ \A i \in 1 .. Len(own) : own[i] = Request
    <3>1. /\ IsSeq(own) /\ Len(own) = Len(effs) - Base
          /\ \A i \in 1 .. (Len(effs) - Base) : own[i] = effs[Base + i]
      BY <1>0, SplitIsSeq
    <3>2. \A i \in 1 .. (Len(effs) - Base) : Base + i \in (Base + 1) .. Len(effs)
      BY <1>0
    <3> HIDE DEF own
    <3> QED
      BY <1>0, <3>1, <3>2
  <2> HIDE DEF own
  <2>5. EgressWithSecret(Staging(ReadBack(own)), {}) = own
    BY <2>4, PassesAsk
  <2>6. \A i \in (Base + 1) .. Len(effs') : effs'[i] = Request
    BY <1>0, <2>3, <2>4, <2>5, ReplacedAsks
  <2>7. Len(stack') = 1
    BY <2>1, <2>3 DEF Return
  <2> QED
    BY <2>6, <2>7
<1> QED
  BY <1>1, <1>2, <1>3, <1>4, <1>5, <1>6, <1>7

\* The effects of a statement that is over are those it ended with.
LEMMA StepQuiet == ASSUME StackOK, Floor, Quiet, Analyse PROVE Quiet'
<1>0. /\ prog' = prog /\ Len(effs) \in Nat
      /\ spans \in Seq(Nat) /\ Len(spans) \in Nat /\ \A n \in 1 .. Len(spans) : spans[n] \in Nat
  BY ConcatIsSeq DEF Analyse, StackOK, Floor, SpansOK
<1>1. CASE stack = << >>
  <2>1. Compose
    BY <1>1 DEF Analyse, List, Statement, Redirections, Command, Leave, Stage, Call,
       Substitution, Bind, EndOfStatement, In
  <2>2. UNCHANGED <<prog, stack, effs, spans>> /\ Len(stack') = 0
    BY <1>0, <1>1, <2>1 DEF Compose
  <2>3. \A n : Asks(n)' = Asks(n)
    BY <2>2 DEF Asks
  <2> QED
    BY <2>2, <2>3 DEF Quiet
<1>2. CASE stack # << >> /\ Len(stack) = 1
  <2>1. Frame.k = "list"
    BY <1>2, TailIsSeq DEF Floor, TopOK, Frame, StackOK
  <2>2. List
    BY <1>2, <2>1, Chosen
  <2>3. effs' = effs /\ stdin' = {}
    BY <1>0, <1>2, <2>2, StatementStarts DEF Floor, InputOK
  <2>4. CASE stack' = << >> /\ spans' = spans
    <3>1. \A n : Asks(n)' = Asks(n)
      BY <2>3, <2>4 DEF Asks
    <3>2. Len(stack') = 0
      BY <2>4
    <3> QED
      BY <1>0, <2>4, <3>1, <3>2 DEF Quiet
  <2>5. CASE /\ spans' = Append(spans, Len(effs))
             /\ stack' = << StmtFrame(prog[Len(spans) + 1]),
                            ListFrame(SubSeq(prog, Len(spans) + 2, Len(prog))) >>
    <3>1. /\ Len(spans') = Len(spans) + 1 /\ Base' = Len(effs)
          /\ \A n \in 1 .. Len(spans) : spans'[n] = spans[n]
          /\ spans'[Len(spans) + 1] = Len(effs)
      BY <1>0, <2>5 DEF Base
    <3>2. ASSUME NEW n \in 1 .. Len(spans), Asks(n) PROVE Asks(n)'
      <4>1. n # Len(spans') /\ spans'[n] = spans[n]
        BY <1>0, <3>1
      <4>2. spans'[n + 1] = IF n = Len(spans) THEN Len(effs) ELSE spans[n + 1]
        <5>1. n # Len(spans) => n + 1 \in 1 .. Len(spans)
          BY <1>0
        <5> QED
          BY <3>1, <5>1
      <4> QED
        BY <2>3, <3>2, <4>1, <4>2 DEF Asks
    <3>3. ASSUME NEW n, n = Len(spans) + 1 PROVE Asks(n)'
      <4>1. \A i \in (Len(effs) + 1) .. Len(effs) : FALSE
        BY <1>0
      <4> QED
        BY <1>0, <2>3, <3>1, <3>3, <4>1 DEF Asks
    <3>4. ASSUME prog[Len(spans) + 1] = S(Get) PROVE Sending'
      <4> DEFINE e == [k |-> "end", start |-> Len(effs)]
                 r == ListFrame(SubSeq(prog, Len(spans) + 2, Len(prog)))
      <4>1. e.k = "end" /\ e.start = Base'
        BY <3>1
      <4>2. stack' = << StmtFrame(S(Get)), r >> /\ Len(effs') = Base' /\ stdin' = {}
        BY <2>3, <2>5, <3>1, <3>4
      <4> HIDE DEF e, r
      <4> QED
        BY <4>1, <4>2 DEF Sending
    <3>5. \A n \in 1 .. Len(spans') : n \in 1 .. Len(spans) \/ n = Len(spans) + 1
      BY <1>0, <3>1
    <3>6. \A n \in 1 .. Len(spans') : prog'[n] = S(Get) => Asks(n)'
      BY <1>0, <3>2, <3>3, <3>5 DEF Quiet
    <3> QED
      BY <1>0, <3>1, <3>4, <3>6 DEF Quiet
  <2> QED
    BY <1>0, <1>2, <2>2, <2>4, <2>5, StatementStarts
<1>3. CASE stack # << >> /\ Len(stack) # 1
  <2>1. Len(stack) >= 2
    <3>1. Len(stack) \in Nat /\ Len(stack) > 0
      BY <1>3, TailIsSeq DEF StackOK
    <3>2. \A n \in Nat : n > 0 /\ n # 1 => n >= 2
      OBVIOUS
    <3> QED
      BY <1>3, <3>1, <3>2
  <2>2. spans' = spans /\ Base' = Base /\ spans # << >> /\ Len(spans) \in 1 .. Len(spans)
    <3>1. spans' = spans
      BY <1>3 DEF Analyse, List, Statement, Redirections, Command, Leave, Stage, Call,
         Substitution, Bind, EndOfStatement, Compose
    <3>2. spans # << >> /\ Len(spans) \in 1 .. Len(spans)
      BY <1>0, <2>1 DEF Floor, SpansOK
    <3> QED
      BY <3>1, <3>2 DEF Base
  <2>3. Before
    BY <2>1, StepBefore
  <2>4. ASSUME NEW n \in 1 .. Len(spans), n # Len(spans), Asks(n) PROVE Asks(n)'
    <3>1. n + 1 \in 1 .. Len(spans) /\ spans[n] \in Nat /\ spans[n + 1] \in Nat /\ spans[n + 1] <= Base /\ Base \in Nat
      <4>1. n + 1 \in 1 .. Len(spans)
        BY <1>0, <2>4
      <4> QED
        BY <1>0, <2>2, <4>1 DEF Floor, SpansOK, Base
    <3>2. \A i \in (spans[n] + 1) .. spans[n + 1] : i \in 1 .. Base
      BY <3>1
    <3> QED
      BY <2>2, <2>3, <2>4, <3>2 DEF Asks, Before
  <2>5. ASSUME prog[Len(spans)] = S(Get)
        PROVE  Asks(Len(spans))' /\ (Len(stack') >= 2 => Sending')
    <3>1. Asks(Len(spans)) /\ Sending
      BY <2>1, <2>2, <2>5 DEF Quiet
    <3>2. /\ \A i \in (Base + 1) .. Len(effs') : effs'[i] = Request
          /\ Len(stack') >= 2 => Sending'
      BY <1>3, <2>1, <3>1, SendingStep
    <3>3. Asks(Len(spans))'
      BY <2>2, <3>2 DEF Asks, Base
    <3> QED
      BY <3>2, <3>3
  <2>6. ASSUME NEW n \in 1 .. Len(spans), prog[n] = S(Get) PROVE Asks(n)'
    <3>1. CASE n = Len(spans)
      BY <2>2, <2>5, <2>6, <3>1
    <3>2. CASE n # Len(spans)
      BY <2>4, <2>6, <3>2 DEF Quiet
    <3> QED
      BY <3>1, <3>2
  <2> QED
    BY <1>0, <2>2, <2>5, <2>6 DEF Quiet
<1> QED
  BY <1>1, <1>2, <1>3

\* "An unrelated request isn't tainted": the effects of a request that sends
\* nothing carry no label, whatever the rest of the program does.
THEOREM RequestsStayClean == Spec => []NoSpread
<1> DEFINE IInv == StackOK /\ Floor /\ Quiet
<1>1. Init => IInv
  <2> SUFFICES ASSUME Init PROVE IInv
    OBVIOUS
  <2>1. /\ prog \in StmtLists /\ spans = << >> /\ effs = << >> /\ stdin = {}
        /\ stack = << ListFrame(prog) >>
    BY SyntaxAssumption DEF Init, FlowInit, StmtLists
  <2>2. /\ Len(spans) = 0 /\ Len(stack) = 1 /\ stack[1] = ListFrame(prog)
        /\ Elems(stack) = {ListFrame(prog)} /\ Len(prog) \in Nat
    BY <2>1, Tuples DEF StmtLists
  <2>3. StackOK
    BY InitOK
  <2>4. SpansOK
    BY <2>1, <2>2 DEF SpansOK
  <2>5. TopOK
    <3>1. SubSeq(prog, 1, Len(prog)) = prog
      BY <2>1 DEF StmtLists
    <3> QED
      BY <2>2, <3>1 DEF TopOK, ListFrame
  <2>6. InputOK /\ StartsOK
    BY <2>1, <2>2 DEF InputOK, StartsOK
  <2>7. Quiet
    BY <2>2 DEF Quiet
  <2> QED
    BY <2>3, <2>4, <2>5, <2>6, <2>7 DEF Floor
<1>2. IInv /\ [Next]_vars => IInv'
  <2> SUFFICES ASSUME IInv, [Next]_vars PROVE IInv'
    OBVIOUS
  <2>1. CASE Analyse
    BY <2>1, AnalyseKeeps, StepFloor, StepQuiet DEF Kept
  <2>2. CASE UNCHANGED <<prog, flowVars>>
    <3>1. UNCHANGED <<prog, stack, effs, cells, stdin, pending, spans>>
      BY <2>2 DEF flowVars
    <3>2. StackOK'
      BY <3>1 DEF StackOK
    <3>3. Base' = Base /\ Floor'
      BY <3>1 DEF Floor, SpansOK, TopOK, InputOK, StartsOK, Base
    <3>4. (Sending' <=> Sending) /\ \A n : Asks(n)' = Asks(n)
      <4>1. Idle' = Idle
        BY <3>1, <3>3 DEF Idle
      <4> QED
        BY <3>1, <3>3, <4>1 DEF Sending, Asks
    <3>5. Quiet'
      BY <3>1, <3>4 DEF Quiet
    <3> QED
      BY <3>2, <3>3, <3>5
  <2> QED
    BY <2>1, <2>2 DEF Next, RunFlow, RunShell, Finished, vars
<1>3. IInv => NoSpread
  <2> SUFFICES ASSUME IInv, NEW n \in DOMAIN spans, prog[n] = S(Get), NEW i \in Span(n)
               PROVE  effs[i].taint = {}
    BY DEF NoSpread
  <2>1. n \in 1 .. Len(spans)
    BY DEF Floor, SpansOK
  <2>2. effs[i] = Request
    BY <2>1 DEF Quiet, Asks, Span
  <2> QED
    BY <2>2 DEF Request, Eff
<1> QED
  BY <1>1, <1>2, <1>3, PTL DEF Spec
=============================================================================
