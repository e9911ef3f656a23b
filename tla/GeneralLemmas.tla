--------------------------- MODULE GeneralLemmas ---------------------------
(***************************************************************************)
(* Facts about numbers and sequences that the proofs share.                *)
(*                                                                         *)
(* Induction is over a set instead of a predicate: the theorems of         *)
(* NaturalsInduction take the predicate as a parameter, which no           *)
(* first-order prover can instantiate; a set it can.                       *)
(***************************************************************************)
EXTENDS Integers, Sequences, SequencesExt, TLAPS, SequenceTheorems, WellFoundedInduction

-----------------------------------------------------------------------------
(* Induction                                                               *)

\* a set of numbers has a least one
LEMMA LeastOf ==
  ASSUME NEW T, T \subseteq Nat, T # {}
  PROVE  \E x \in T : \A y \in T : x <= y
<1> DEFINE R == OpToRel(<, Nat)
<1>1. IsWellFoundedOn(R, Nat)
  BY NatLessThanWellFounded
<1>2. \A y, z \in Nat : y < z => <<y, z>> \in R
  BY DEF OpToRel
<1> HIDE DEF R
<1>3. PICK x \in T : \A y \in T : ~(<<y, x>> \in R)
  BY <1>1, WFMin
<1>4. ASSUME NEW y \in T PROVE x <= y
  <2>1. x \in Nat /\ y \in Nat /\ ~(y < x)
    BY <1>2, <1>3
  <2> QED
    BY <2>1
<1> QED
  BY <1>4

LEMMA NatSetInduction ==
  ASSUME NEW S, 0 \in S, \A n \in Nat : n \in S => n + 1 \in S
  PROVE  Nat \subseteq S
<1>1. SUFFICES ASSUME Nat \ S # {} PROVE FALSE
  OBVIOUS
<1>2. PICK x \in Nat \ S : \A y \in Nat \ S : x <= y
  <2>1. Nat \ S \subseteq Nat
    OBVIOUS
  <2> QED
    BY <1>1, <2>1, LeastOf
<1>3. x # 0 /\ x - 1 \in Nat /\ ~(x <= x - 1) /\ (x - 1) + 1 = x
  OBVIOUS
<1>4. x - 1 \in S
  BY <1>2, <1>3
<1> QED
  BY <1>3, <1>4

\* the same up to a bound
LEMMA IntervalInduction ==
  ASSUME NEW n \in Nat, NEW S, 0 \in S, \A i \in 0..n - 1 : i \in S => i + 1 \in S
  PROVE  0..n \subseteq S
<1> DEFINE T == S \cup {i \in Nat : i > n}
<1>1. 0 \in T
  OBVIOUS
<1>2. ASSUME NEW i \in Nat, i \in T PROVE i + 1 \in T
  <2>1. CASE i < n
    BY <1>2, <2>1
  <2>2. CASE i >= n
    BY <2>2
  <2> QED
    BY <2>1, <2>2
<1> HIDE DEF T
<1>3. Nat \subseteq T
  BY <1>1, <1>2, NatSetInduction
<1> QED
  BY <1>3 DEF T

\* from one on
LEMMA PlaceInduction ==
  ASSUME NEW n \in Nat, NEW S, 1 \in S, \A i \in 1..n - 1 : i \in S => i + 1 \in S
  PROVE  1..n \subseteq S
<1> DEFINE T == S \cup {0}
<1>1. ASSUME NEW i \in 0..n - 1, i \in T PROVE i + 1 \in T
  <2>1. CASE i = 0
    BY <2>1
  <2>2. CASE i # 0
    BY <1>1, <2>2
  <2> QED
    BY <2>1, <2>2
<1>2. 0 \in T
  OBVIOUS
<1> HIDE DEF T
<1>3. 0..n \subseteq T
  BY <1>1, <1>2, IntervalInduction
<1> QED
  BY <1>3 DEF T

-----------------------------------------------------------------------------
(* Sequences                                                               *)

LEMMA ElementOf == ASSUME NEW S, NEW s \in Seq(S), NEW i \in 1..Len(s) PROVE s[i] \in S
OBVIOUS

LEMMA NotEmpty ==
  ASSUME NEW S, NEW s \in Seq(S), s # <<>> PROVE Len(s) \in Nat /\ Len(s) >= 1
OBVIOUS

LEMMA SeqWider == ASSUME NEW S, NEW T, S \subseteq T, NEW s \in Seq(S) PROVE s \in Seq(T)
OBVIOUS

LEMMA ToSetOf == ASSUME NEW s PROVE ToSet(s) = {s[i] : i \in DOMAIN s}
BY DEF ToSet

LEMMA Appended ==
  ASSUME NEW s, s \in Seq(ToSet(s)), NEW e
  PROVE  /\ Append(s, e) \in Seq(ToSet(Append(s, e)))
         /\ Len(s) \in Nat /\ Len(Append(s, e)) = Len(s) + 1
         /\ DOMAIN s = 1..Len(s) /\ DOMAIN Append(s, e) = 1..Len(s) + 1
         /\ \A i \in 1..Len(s) : Append(s, e)[i] = s[i]
         /\ Append(s, e)[Len(s) + 1] = e
<1> DEFINE T == ToSet(s) \cup {e}
           r == Append(s, e)
<1>1. s \in Seq(T)
  OBVIOUS
<1> HIDE DEF T
<1>2. e \in T
  BY DEF T
<1>3. /\ Len(s) \in Nat /\ Len(r) = Len(s) + 1
      /\ DOMAIN s = 1..Len(s) /\ DOMAIN r = 1..Len(s) + 1
      /\ \A i \in 1..Len(s) : r[i] = s[i]
      /\ r[Len(s) + 1] = e /\ r \in Seq(T)
  BY <1>1, <1>2
<1> HIDE DEF r
<1>4. r \in Seq(ToSet(r))
  BY <1>3, ToSetOf
<1> QED
  BY <1>3, <1>4 DEF r

LEMMA Concatenated ==
  ASSUME NEW S, NEW T, NEW s \in Seq(S), NEW r \in Seq(T)
  PROVE  /\ Len(s \o r) = Len(s) + Len(r)
         /\ \A i \in 1..Len(s) : (s \o r)[i] = s[i]
         /\ \A i \in 1..Len(r) : (s \o r)[Len(s) + i] = r[i]
OBVIOUS

\* tuples put together
LEMMA Joined ==
  ASSUME NEW a, NEW b
  PROVE  /\ <<>> \o <<a>> = <<a>> /\ <<>> \o <<a, b>> = <<a, b>>
         /\ <<a>> \o <<b>> = <<a, b>> /\ <<a, b>> \o <<>> = <<a, b>>
<1>1. <<a>> \in Seq({a, b}) /\ <<a, b>> \in Seq({a, b})
  OBVIOUS
<1>2. <<>> \o <<a>> = <<a>> /\ <<>> \o <<a, b>> = <<a, b>> /\ <<a, b>> \o <<>> = <<a, b>>
  BY <1>1, ConcatEmptySeq
<1> DEFINE l == <<a>> \o <<b>>
           r == <<a, b>>
<1>3. l \in Seq({a, b}) /\ Len(l) = 2 /\ l[1] = a /\ l[2] = b
  BY <1>1
<1>4. r \in Seq({a, b}) /\ Len(r) = 2 /\ r[1] = a /\ r[2] = b
  BY <1>1
<1> HIDE DEF l, r
<1>5. \A i \in 1..Len(l) : l[i] = r[i]
  BY <1>3, <1>4
<1>6. l = r
  BY <1>3, <1>4, <1>5, SeqEqual
<1> QED
  BY <1>2, <1>6 DEF l, r

LEMMA EmptyJoined == ASSUME NEW a PROVE <<>> \o <<a>> = <<a>>
BY Joined, Zenon

LEMMA JoinedOne == ASSUME NEW a, NEW b, NEW c PROVE <<a, b, c>> = <<a, b>> \o <<c>>
OBVIOUS

LEMMA JoinedTwo ==
  ASSUME NEW a, NEW b, NEW c, NEW d PROVE <<a, b, c, d>> = <<a, b>> \o <<c, d>>
OBVIOUS

LEMMA JoinedEleven ==
  ASSUME NEW a, NEW b, NEW c, NEW d, NEW e, NEW f, NEW g, NEW h, NEW i, NEW j, NEW k
  PROVE  <<a, b, c, d, e, f, g, h, i, j, k>> = <<a, b, c, d, e, f, g, h, i, j>> \o <<k>>
OBVIOUS

LEMMA EmptyBefore == ASSUME NEW S, NEW s \in Seq(S) PROVE <<>> \o s = s
BY ConcatEmptySeq

LEMMA OneBefore == ASSUME NEW a, NEW b, NEW c PROVE <<a>> \o <<b, c>> = <<a, b, c>>
<1> DEFINE l == <<a>> \o <<b, c>>
           r == <<a, b, c>>
           T == {a, b, c}
<1>1. l \in Seq(T) /\ Len(l) = 3 /\ l[1] = a /\ l[2] = b /\ l[3] = c
  <2>1. <<a>> \in Seq(T) /\ <<b, c>> \in Seq(T)
    OBVIOUS
  <2> QED
    BY <2>1
<1>2. r \in Seq(T) /\ Len(r) = 3 /\ r[1] = a /\ r[2] = b /\ r[3] = c
  OBVIOUS
<1> HIDE DEF l, r
<1>3. \A i \in 1..Len(l) : l[i] = r[i]
  BY <1>1, <1>2
<1>4. l = r
  BY <1>1, <1>2, <1>3, SeqEqual
<1> QED
  BY <1>4 DEF l, r

LEMMA FourBefore ==
  ASSUME NEW a, NEW b, NEW c, NEW d, NEW e
  PROVE  <<a, b, c, d>> \o <<e>> = <<a, b, c, d, e>>
<1> DEFINE l == <<a, b, c, d>> \o <<e>>
           r == <<a, b, c, d, e>>
           T == {a, b, c, d, e}
<1>1. l \in Seq(T) /\ Len(l) = 5 /\ l[1] = a /\ l[2] = b /\ l[3] = c /\ l[4] = d /\ l[5] = e
  <2>1. <<a, b, c, d>> \in Seq(T) /\ <<e>> \in Seq(T)
    OBVIOUS
  <2> QED
    BY <2>1
<1>2. r \in Seq(T) /\ Len(r) = 5 /\ r[1] = a /\ r[2] = b /\ r[3] = c /\ r[4] = d /\ r[5] = e
  OBVIOUS
<1> HIDE DEF l, r
<1>3. \A i \in 1..Len(l) : l[i] = r[i]
  BY <1>1, <1>2
<1>4. l = r
  BY <1>1, <1>2, <1>3, SeqEqual
<1> QED
  BY <1>4 DEF l, r

LEMMA ThreeBefore ==
  ASSUME NEW a, NEW b, NEW c, NEW d, NEW e
  PROVE  <<a, b, c>> \o <<d, e>> = <<a, b, c, d, e>>
<1> DEFINE l == <<a, b, c>> \o <<d, e>>
           r == <<a, b, c, d, e>>
           T == {a, b, c, d, e}
<1>1. l \in Seq(T) /\ Len(l) = 5 /\ l[1] = a /\ l[2] = b /\ l[3] = c /\ l[4] = d /\ l[5] = e
  <2>1. <<a, b, c>> \in Seq(T) /\ <<d, e>> \in Seq(T)
    OBVIOUS
  <2> QED
    BY <2>1
<1>2. r \in Seq(T) /\ Len(r) = 5 /\ r[1] = a /\ r[2] = b /\ r[3] = c /\ r[4] = d /\ r[5] = e
  OBVIOUS
<1> HIDE DEF l, r
<1>3. \A i \in 1..Len(l) : l[i] = r[i]
  BY <1>1, <1>2
<1>4. l = r
  BY <1>1, <1>2, <1>3, SeqEqual
<1> QED
  BY <1>4 DEF l, r

LEMMA Shortened ==
  ASSUME NEW S, NEW s \in Seq(S), NEW n \in Nat, n <= Len(s)
  PROVE  /\ SubSeq(s, 1, n) \in Seq(S) /\ Len(SubSeq(s, 1, n)) = n
         /\ \A i \in 1..n : SubSeq(s, 1, n)[i] = s[i]
OBVIOUS

LEMMA Updated ==
  ASSUME NEW s, s \in Seq(ToSet(s)), NEW i, NEW e
  PROVE  LET r == [s EXCEPT ![i] = e] IN
         /\ r \in Seq(ToSet(r))
         /\ Len(s) \in Nat /\ Len(r) = Len(s) /\ DOMAIN s = 1..Len(s) /\ DOMAIN r = 1..Len(s)
         /\ \A j \in 1..Len(s) : j # i => r[j] = s[j]
         /\ i \in 1..Len(s) => r[i] = e
<1> DEFINE T == ToSet(s) \cup {e}
           r == [s EXCEPT ![i] = e]
<1>1. s \in Seq(T)
  OBVIOUS
<1> HIDE DEF T
<1>2. e \in T
  BY DEF T
<1>5. Len(s) \in Nat /\ s \in [1..Len(s) -> T]
  BY <1>1
<1>6. r \in [1..Len(s) -> T]
  BY <1>2, <1>5
<1>7. r \in Seq(T) /\ Len(r) = Len(s)
  <2> HIDE DEF r
  <2> QED
    BY <1>5, <1>6
<1>3. /\ Len(s) \in Nat /\ Len(r) = Len(s)
      /\ DOMAIN s = 1..Len(s) /\ DOMAIN r = 1..Len(s)
      /\ \A j \in 1..Len(s) : j # i => r[j] = s[j]
      /\ i \in 1..Len(s) => r[i] = e
      /\ r \in Seq(T)
  BY <1>5, <1>6, <1>7
<1> HIDE DEF r
<1>4. r \in Seq(ToSet(r))
  BY <1>3, ToSetOf
<1> QED
  BY <1>3, <1>4 DEF r
=============================================================================
