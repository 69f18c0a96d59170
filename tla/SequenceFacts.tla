---------------------------- MODULE SequenceFacts ----------------------------
(***************************************************************************)
(* Sequences without repetitions and the sets of their elements: the       *)
(* queues and backlogs that the proofs about this system reason about.     *)
(***************************************************************************)
EXTENDS Naturals, Sequences, SequencesExt, SequenceTheorems, WellFoundedInduction, TLAPS

LEMMA Least == ASSUME NEW S \in SUBSET Nat, S # {} PROVE \E m \in S : \A i \in S : m <= i
<1> DEFINE R == OpToRel(<, Nat)
<1>1. IsWellFoundedOn(R, Nat)
  BY NatLessThanWellFounded
<1>2. \A x, y \in Nat : <<y, x>> \in R <=> y < x
  BY DEF OpToRel
<1> HIDE DEF R
<1>3. PICK m \in S : \A i \in S : ~ (<<i, m>> \in R)
  BY <1>1, WFMin
<1>4. ASSUME NEW i \in S PROVE m <= i
  <2>1. i \in Nat /\ m \in Nat
    OBVIOUS
  <2>2. ~ (i < m)
    BY <1>2, <1>3, <2>1
  <2> QED
    BY <2>1, <2>2
<1> QED
  BY <1>4

LEMMA FunctionSeq ==
    ASSUME NEW S, NEW n \in Nat, NEW f \in [1..n -> S]
    PROVE  f \in Seq(S) /\ Len(f) = n
<1>1. f \in Seq(S)
  BY SeqDef
<1>2. Len(f) \in Nat /\ 1..Len(f) = 1..n
  BY <1>1, LenProperties
<1>3. n > 0 => n \in 1..Len(f)
  BY <1>2
<1>4. Len(f) > 0 => Len(f) \in 1..n
  BY <1>2
<1> QED
  BY <1>1, <1>2, <1>3, <1>4

LEMMA AppendSet ==
    ASSUME NEW S, NEW seq \in Seq(S), NEW e \in S
    PROVE  /\ Append(seq, e) \in Seq(S) /\ Len(Append(seq, e)) = Len(seq) + 1
           /\ ToSet(Append(seq, e)) = ToSet(seq) \cup {e}
           /\ IsInjective(seq) /\ e \notin ToSet(seq) => IsInjective(Append(seq, e))
<1> DEFINE app == Append(seq, e)
<1>1. /\ app \in Seq(S) /\ Len(app) = Len(seq) + 1 /\ app[Len(seq) + 1] = e
      /\ \A i \in 1..Len(seq) : app[i] = seq[i]
  BY AppendProperties
<1>2. Len(seq) \in Nat /\ DOMAIN seq = 1..Len(seq) /\ DOMAIN app = 1..(Len(seq) + 1)
  BY <1>1, LenProperties
<1> HIDE DEF app
<1>3. ToSet(app) = ToSet(seq) \cup {e}
  BY <1>1, <1>2 DEF ToSet
<1>4. IsInjective(seq) /\ e \notin ToSet(seq) => IsInjective(app)
  BY <1>1, <1>2 DEF ToSet, IsInjective
<1> QED
  BY <1>1, <1>3, <1>4 DEF app

LEMMA TailSet ==
    ASSUME NEW S, NEW seq \in Seq(S), seq # <<>>, IsInjective(seq)
    PROVE  /\ Head(seq) \in S /\ Head(seq) \in ToSet(seq)
           /\ Tail(seq) \in Seq(S) /\ Len(Tail(seq)) = Len(seq) - 1
           /\ ToSet(Tail(seq)) = ToSet(seq) \ {Head(seq)}
           /\ IsInjective(Tail(seq))
<1> DEFINE tail == Tail(seq)
<1>1. /\ tail \in Seq(S) /\ Len(tail) = Len(seq) - 1 /\ Head(seq) \in S
      /\ \A i \in 1..Len(tail) : tail[i] = seq[i + 1]
  BY HeadTailProperties
<1>2. Len(seq) \in Nat \ {0} /\ DOMAIN seq = 1..Len(seq) /\ DOMAIN tail = 1..(Len(seq) - 1)
  BY <1>1, LenProperties, EmptySeq
<1>3. Head(seq) = seq[1]
  OBVIOUS
<1> HIDE DEF tail
<1>4. ToSet(tail) \subseteq ToSet(seq) \ {Head(seq)}
  <2> SUFFICES ASSUME NEW i \in 1..(Len(seq) - 1)
               PROVE  tail[i] \in ToSet(seq) /\ tail[i] # Head(seq)
    BY <1>2 DEF ToSet
  <2>1. i \in 1..Len(tail) /\ i + 1 \in DOMAIN seq /\ 1 \in DOMAIN seq /\ i + 1 # 1
    BY <1>1, <1>2
  <2>2. tail[i] = seq[i + 1]
    BY <1>1, <2>1
  <2> QED
    BY <2>1, <2>2, <1>3 DEF ToSet, IsInjective
<1>5. ToSet(seq) \ {Head(seq)} \subseteq ToSet(tail)
  <2> SUFFICES ASSUME NEW i \in 1..Len(seq), i # 1 PROVE seq[i] \in ToSet(tail)
    BY <1>2, <1>3 DEF ToSet
  <2>1. i - 1 \in 1..Len(tail) /\ tail[i - 1] = seq[i]
    BY <1>1, <1>2
  <2> QED
    BY <2>1, <1>1, <1>2 DEF ToSet
<1>6. IsInjective(tail)
  <2> SUFFICES ASSUME NEW i \in 1..(Len(seq) - 1), NEW j \in 1..(Len(seq) - 1), tail[i] = tail[j]
               PROVE  i = j
    BY <1>2 DEF IsInjective
  <2>1. tail[i] = seq[i + 1] /\ tail[j] = seq[j + 1] /\ i + 1 \in DOMAIN seq /\ j + 1 \in DOMAIN seq
    BY <1>1, <1>2
  <2>2. i + 1 = j + 1
    BY <2>1 DEF IsInjective
  <2> QED
    BY <1>2, <2>2
<1>7. Head(seq) \in ToSet(seq)
  BY <1>2, <1>3 DEF ToSet
<1> QED
  BY <1>1, <1>4, <1>5, <1>6, <1>7 DEF tail

\* An element is taken out of the middle.
LEMMA RemoveAtSet ==
    ASSUME NEW S, NEW seq \in Seq(S), NEW k \in DOMAIN seq, IsInjective(seq)
    PROVE  /\ RemoveAt(seq, k) \in Seq(S) /\ seq[k] \in S
           /\ ToSet(RemoveAt(seq, k)) = ToSet(seq) \ {seq[k]}
           /\ IsInjective(RemoveAt(seq, k))
<1> DEFINE rest == RemoveAt(seq, k)
           n    == Len(seq)
           one  == SubSeq(seq, 1, k - 1)
           two  == SubSeq(seq, k + 1, n)
<1>1. n \in Nat /\ DOMAIN seq = 1..n /\ k \in 1..n /\ \A i \in 1..n : seq[i] \in S
  BY LenProperties
<1>2. one \in Seq(S) /\ Len(one) = k - 1 /\ \A i \in 1..(k - 1) : one[i] = seq[i]
  BY <1>1, SubSeqProperties
<1>3. two \in Seq(S) /\ Len(two) = n - k /\ \A i \in 1..(n - k) : two[i] = seq[k + i]
  BY <1>1, SubSeqProperties
<1>4. rest = one \o two
  BY DEF RemoveAt
<1> HIDE DEF n, one, two
<1>5. /\ rest \in Seq(S) /\ Len(rest) = n - 1 /\ DOMAIN rest = 1..(n - 1)
      /\ \A i \in 1..(n - 1) : rest[i] = seq[IF i < k THEN i ELSE i + 1]
  <2> HIDE DEF rest
  <2>1. /\ rest \in Seq(S) /\ Len(rest) = n - 1
        /\ \A i \in 1..(n - 1) : rest[i] = IF i <= k - 1 THEN one[i] ELSE two[i - (k - 1)]
    <3>1. /\ rest \in Seq(S) /\ Len(rest) = Len(one) + Len(two)
          /\ \A i \in 1..(Len(one) + Len(two)) :
                rest[i] = IF i <= Len(one) THEN one[i] ELSE two[i - Len(one)]
      BY <1>2, <1>3, <1>4, ConcatProperties
    <3>2. Len(one) + Len(two) = n - 1
      BY <1>1, <1>2, <1>3
    <3> QED
      BY <1>2, <3>1, <3>2
  <2>2. DOMAIN rest = 1..(n - 1)
    BY <2>1, LenProperties
  <2>3. ASSUME NEW i \in 1..(n - 1) PROVE rest[i] = seq[IF i < k THEN i ELSE i + 1]
    <3>1. CASE i < k
      BY <1>1, <1>2, <2>1, <3>1
    <3>2. CASE ~(i < k)
      <4>1. i - (k - 1) \in 1..(n - k) /\ k + (i - (k - 1)) = i + 1 /\ ~(i <= k - 1)
        BY <1>1, <3>2
      <4> QED
        BY <1>3, <2>1, <3>2, <4>1
    <3> QED
      BY <3>1, <3>2
  <2> QED
    BY <2>1, <2>2, <2>3
<1> HIDE DEF rest
<1>6. ASSUME NEW i \in 1..(n - 1)
      PROVE  rest[i] \in ToSet(seq) /\ rest[i] # seq[k]
  <2> DEFINE m == IF i < k THEN i ELSE i + 1
  <2>1. m \in 1..n /\ m # k
    BY <1>1
  <2> QED
    BY <1>1, <1>5, <2>1 DEF ToSet, IsInjective
<1>7. ASSUME NEW i \in 1..n, i # k PROVE seq[i] \in ToSet(rest)
  <2> DEFINE m == IF i < k THEN i ELSE i - 1
  <2>1. m \in 1..(n - 1) /\ (IF m < k THEN m ELSE m + 1) = i
    BY <1>1, <1>7
  <2>2. rest[m] = seq[i]
    BY <1>5, <2>1
  <2> QED
    BY <1>5, <2>1, <2>2 DEF ToSet
<1>8. ToSet(rest) = ToSet(seq) \ {seq[k]}
  BY <1>1, <1>5, <1>6, <1>7 DEF ToSet
<1>9. IsInjective(rest)
  <2> SUFFICES ASSUME NEW i \in 1..(n - 1), NEW j \in 1..(n - 1), rest[i] = rest[j] PROVE i = j
    BY <1>5 DEF IsInjective
  <2> DEFINE m(x) == IF x < k THEN x ELSE x + 1
  <2>1. m(i) \in 1..n /\ m(j) \in 1..n
    BY <1>1
  <2>2. seq[m(i)] = seq[m(j)]
    BY <1>5
  <2>3. m(i) = m(j)
    BY <1>1, <2>1, <2>2 DEF IsInjective
  <2> QED
    BY <1>1, <2>3
<1> QED
  BY <1>1, <1>5, <1>8, <1>9 DEF rest

\* A stretch of a sequence: what is left of it when the front or the end is lost.
Stretch(t, s) ==
    /\ t \in Seq(Range(t)) /\ Len(t) <= Len(s)
    /\ \E d \in Nat : \A k \in DOMAIN t : k + d \in DOMAIN s /\ t[k] = s[k + d]

LEMMA SelfSeq ==
    ASSUME NEW S, NEW seq \in Seq(S)
    PROVE  seq \in Seq(Range(seq)) /\ \A k \in DOMAIN seq : seq[k] \in Range(seq)
<1>1. Len(seq) \in Nat /\ DOMAIN seq = 1..Len(seq) /\ seq \in [1..Len(seq) -> S]
  BY LenProperties
<1>2. \A k \in DOMAIN seq : seq[k] \in Range(seq)
  BY DEF Range
<1>3. seq \in [1..Len(seq) -> Range(seq)]
  BY <1>1, <1>2
<1> QED
  BY <1>1, <1>2, <1>3, FunctionSeq

LEMMA Stretches ==
    ASSUME NEW S, NEW seq \in Seq(S)
    PROVE  /\ Stretch(seq, seq) /\ Stretch(<<>>, seq)
           /\ seq # <<>> => /\ Stretch(Tail(seq), seq) /\ Len(Tail(seq)) = Len(seq) - 1
                            /\ 1 \in DOMAIN seq /\ Head(seq) = seq[1]
                            /\ \A k \in DOMAIN Tail(seq) : k + 1 \in DOMAIN seq /\ Tail(seq)[k] = seq[k + 1]
           /\ \A n \in 0..Len(seq) : Stretch(SubSeq(seq, 1, n), seq)
<1>1. Len(seq) \in Nat /\ DOMAIN seq = 1..Len(seq) /\ \A i \in 1..Len(seq) : seq[i] \in S
  BY LenProperties
<1>2. Stretch(seq, seq)
  <2>1. \A k \in DOMAIN seq : k + 0 \in DOMAIN seq /\ seq[k] = seq[k + 0]
    BY <1>1
  <2> QED
    BY <1>1, <2>1, SelfSeq DEF Stretch
<1>3. Stretch(<<>>, seq)
  <2>1. <<>> \in Seq(Range(<<>>)) /\ Len(<<>>) = 0 /\ DOMAIN <<>> = {}
    BY EmptySeq
  <2>2. \A k \in DOMAIN <<>> : k + 0 \in DOMAIN seq /\ <<>>[k] = seq[k + 0]
    BY <2>1
  <2> QED
    BY <1>1, <2>1, <2>2 DEF Stretch
<1>4. ASSUME seq # <<>>
      PROVE  /\ Stretch(Tail(seq), seq) /\ Len(Tail(seq)) = Len(seq) - 1
             /\ 1 \in DOMAIN seq /\ Head(seq) = seq[1]
             /\ \A k \in DOMAIN Tail(seq) : k + 1 \in DOMAIN seq /\ Tail(seq)[k] = seq[k + 1]
  <2> DEFINE tail == Tail(seq)
  <2>1. /\ tail \in Seq(S) /\ Len(tail) = Len(seq) - 1
        /\ \A i \in 1..Len(tail) : tail[i] = seq[i + 1]
    BY <1>4, HeadTailProperties
  <2>2. Len(seq) \in Nat \ {0} /\ Head(seq) = seq[1]
    BY <1>1, <1>4, EmptySeq
  <2> HIDE DEF tail
  <2>3. \A k \in DOMAIN tail : k + 1 \in DOMAIN seq /\ tail[k] = seq[k + 1]
    BY <1>1, <2>1, <2>2, LenProperties
  <2>4. Stretch(tail, seq)
    BY <1>1, <2>1, <2>3, SelfSeq DEF Stretch
  <2> QED
    BY <1>1, <2>1, <2>2, <2>3, <2>4 DEF tail
<1>5. ASSUME NEW n \in 0..Len(seq) PROVE Stretch(SubSeq(seq, 1, n), seq)
  <2> DEFINE sub == SubSeq(seq, 1, n)
  <2>1. n \in Nat /\ 1..n \subseteq 1..Len(seq)
    BY <1>1
  <2>2. sub \in Seq(S) /\ Len(sub) = n /\ \A i \in 1..n : sub[i] = seq[i]
    BY <1>1, <2>1, SubSeqProperties
  <2> HIDE DEF sub
  <2>3. \A k \in DOMAIN sub : k + 0 \in DOMAIN seq /\ sub[k] = seq[k + 0]
    BY <1>1, <2>1, <2>2, LenProperties
  <2>4. Stretch(sub, seq)
    BY <1>1, <2>1, <2>2, <2>3, SelfSeq DEF Stretch
  <2> QED
    BY <2>4 DEF sub
<1> QED
  BY <1>2, <1>3, <1>4, <1>5

\* What an element that is added changes.
LEMMA AppendAt ==
    ASSUME NEW S, NEW seq \in Seq(S), NEW e \in S, NEW app, app = Append(seq, e)
    PROVE  /\ app \in Seq(S) /\ Len(app) = Len(seq) + 1 /\ Len(seq) \in Nat
           /\ DOMAIN app = DOMAIN seq \cup {Len(seq) + 1} /\ Len(seq) + 1 \notin DOMAIN seq
           /\ app[Len(seq) + 1] = e /\ \A k \in DOMAIN seq : app[k] = seq[k]
<1> DEFINE n == Len(seq)
<1>1. /\ app \in Seq(S) /\ Len(app) = n + 1 /\ app[n + 1] = e
      /\ \A k \in 1..n : app[k] = seq[k]
  BY AppendProperties
<1>2. n \in Nat /\ DOMAIN seq = 1..n /\ DOMAIN app = 1..(n + 1)
  BY <1>1, LenProperties
<1> HIDE DEF n
<1>3. 1..(n + 1) = 1..n \cup {n + 1} /\ n + 1 \notin 1..n
  BY <1>2
<1> QED
  BY <1>1, <1>2, <1>3 DEF n
=============================================================================
