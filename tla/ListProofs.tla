------------------------------ MODULE ListProofs ------------------------------
(***************************************************************************)
(* Lemmas about lists that several proofs use: the least number of a set,  *)
(* by which inductions over the length of a list are written, and          *)
(* list_remove_element, which is RemoveFirst of SequencesExt.              *)
(***************************************************************************)
EXTENDS SequencesExt, SequenceTheorems, WellFoundedInduction, TLAPS

\* A set of natural numbers that is not empty has a least element.
LEMMA LeastNat ==
    ASSUME NEW S \in SUBSET Nat, S # {}
    PROVE  \E x \in S : \A y \in S : x <= y
<1>1. IsWellFoundedOn(OpToRel(<, Nat), Nat)
  BY NatLessThanWellFounded
<1>2. PICK x \in S : \A y \in S : ~(<<y, x>> \in OpToRel(<, Nat))
  BY <1>1, WFMin
<1>3. \A y \in S : ~(y < x)
  BY <1>2 DEF OpToRel
<1> QED
  BY <1>3

\* Removing the k-th element moves those behind it up.
LEMMA RemoveAtIs ==
    ASSUME NEW S, NEW s \in Seq(S), NEW k \in 1..Len(s)
    PROVE  /\ RemoveAt(s, k) \in Seq(S)
           /\ Len(RemoveAt(s, k)) = Len(s) - 1
           /\ \A i \in 1..(Len(s) - 1) :
                 RemoveAt(s, k)[i] = IF i < k THEN s[i] ELSE s[i + 1]
<1> DEFINE a == SubSeq(s, 1, k - 1)
           b == SubSeq(s, k + 1, Len(s))
<1>1. RemoveAt(s, k) = a \o b
  BY DEF RemoveAt
<1>2. a \in Seq(S) /\ Len(a) = k - 1 /\ \A i \in 1..(k - 1) : a[i] = s[i]
  OBVIOUS
<1>3. b \in Seq(S) /\ Len(b) = Len(s) - k /\ \A i \in 1..(Len(s) - k) : b[i] = s[k + i]
  OBVIOUS
<1> HIDE DEF a, b
<1>4. /\ a \o b \in Seq(S) /\ Len(a \o b) = Len(a) + Len(b)
      /\ \A i \in 1..(Len(a) + Len(b)) :
            (a \o b)[i] = IF i <= Len(a) THEN a[i] ELSE b[i - Len(a)]
  BY <1>2, <1>3, ConcatProperties
<1>5. Len(s) \in Nat /\ k \in Nat
  OBVIOUS
<1> QED BY <1>1, <1>2, <1>3, <1>4, <1>5

\* list_remove_element drops one element and moves those behind it up.
LEMMA RemoveFirstPresent ==
    ASSUME NEW S, NEW s \in Seq(S), NEW e, \E i \in 1..Len(s) : s[i] = e
    PROVE  \E k \in 1..Len(s) :
              /\ s[k] = e
              /\ RemoveFirst(s, e) \in Seq(S)
              /\ Len(RemoveFirst(s, e)) = Len(s) - 1
              /\ \A i \in 1..(Len(s) - 1) :
                    RemoveFirst(s, e)[i] = IF i < k THEN s[i] ELSE s[i + 1]
<1> DEFINE I == {i \in 1..Len(s) : s[i] = e}
           k == CHOOSE x \in I : \A y \in I : x <= y
<1>1. I \in SUBSET Nat /\ I # {}
  OBVIOUS
<1>2. \E x \in I : \A y \in I : x <= y
  BY <1>1, LeastNat
<1>3. k \in I
  BY <1>2
<1>4. RemoveFirst(s, e) = RemoveAt(s, k)
  BY <1>1 DEF RemoveFirst, SelectInSeq, Min
<1> HIDE DEF k
<1>5. k \in 1..Len(s) /\ s[k] = e
  BY <1>3
<1> QED
  BY <1>4, <1>5, RemoveAtIs

\* Removing what is not in the list changes nothing.
LEMMA RemoveFirstAbsent ==
    ASSUME NEW s, NEW e, ~ \E i \in 1..Len(s) : s[i] = e
    PROVE  RemoveFirst(s, e) = s
  BY DEF RemoveFirst

\* ... so it takes out nothing but the element.
LEMMA RemoveFirstOthers ==
    ASSUME NEW S, NEW s \in Seq(S), NEW e
    PROVE  /\ RemoveFirst(s, e) \in Seq(S)
           /\ \A x \in Range(s) : x # e => x \in Range(RemoveFirst(s, e))
<1>1. CASE ~ \E i \in 1..Len(s) : s[i] = e
  BY <1>1, RemoveFirstAbsent
<1>2. CASE \E i \in 1..Len(s) : s[i] = e
  <2>1. PICK k \in 1..Len(s) :
           /\ s[k] = e
           /\ RemoveFirst(s, e) \in Seq(S)
           /\ Len(RemoveFirst(s, e)) = Len(s) - 1
           /\ \A i \in 1..(Len(s) - 1) :
                 RemoveFirst(s, e)[i] = IF i < k THEN s[i] ELSE s[i + 1]
    BY <1>2, RemoveFirstPresent
  <2> DEFINE r == RemoveFirst(s, e)
  <2> HIDE DEF r
  <2>2. /\ r \in Seq(S) /\ Len(r) = Len(s) - 1 /\ DOMAIN r = 1..(Len(s) - 1)
        /\ \A i \in 1..(Len(s) - 1) : r[i] = IF i < k THEN s[i] ELSE s[i + 1]
    BY <2>1 DEF r
  <2>3. ASSUME NEW x \in Range(s), x # e
        PROVE  x \in Range(r)
    <3>1. PICK i \in 1..Len(s) : s[i] = x
      BY DEF Range
    <3>2. i # k
      BY <2>1, <2>3, <3>1
    <3>3. CASE i < k
      <4>1. i \in 1..(Len(s) - 1) /\ r[i] = x
        BY <2>2, <3>1, <3>3
      <4> QED BY <2>2, <4>1 DEF Range
    <3>4. CASE i > k
      <4>1. i - 1 \in 1..(Len(s) - 1) /\ r[i - 1] = x
        BY <2>2, <3>1, <3>4
      <4> QED BY <2>2, <4>1 DEF Range
    <3> QED BY <3>2, <3>3, <3>4
  <2> QED BY <2>2, <2>3 DEF r
<1> QED BY <1>1, <1>2

\* A part of a list.
LEMMA SubSeqPart ==
    ASSUME NEW S, NEW s \in Seq(S), NEW d \in Nat, NEW n \in Nat, d + n <= Len(s)
    PROVE  /\ SubSeq(s, d + 1, d + n) \in Seq(S) /\ Len(SubSeq(s, d + 1, d + n)) = n
           /\ \A k \in 1..n : SubSeq(s, d + 1, d + n)[k] = s[d + k]
<1>1. SubSeq(s, d + 1, d + n) = [k \in 1..((d + n) - (d + 1) + 1) |-> s[(d + 1) + k - 1]]
  BY DEF SubSeq
<1>2. (d + n) - (d + 1) + 1 = n /\ \A k \in 1..n : (d + 1) + k - 1 = d + k /\ d + k \in 1..Len(s)
  OBVIOUS
<1>3. SubSeq(s, d + 1, d + n) = [k \in 1..n |-> s[d + k]]
  BY <1>1, <1>2
<1> DEFINE r == [k \in 1..n |-> s[d + k]]
<1>4. r \in [1..n -> S]
  BY <1>2
<1>5. r \in Seq(S) /\ Len(r) = n
  <2> HIDE DEF r
  <2> QED BY <1>4
<1> QED BY <1>3, <1>5
==============================================================================
