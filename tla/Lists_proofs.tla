----------------------------- MODULE Lists_proofs -----------------------------
(***************************************************************************)
(* What is dropped from the front of a list, as windows and histories of   *)
(* any kind do with what has become too old.                               *)
(***************************************************************************)
EXTENDS Integers, Sequences, FiniteSets, FiniteSetTheorems, SequenceTheorems,
        WellFoundedInduction, TLAPS

(* Oldest first, and the j-th entry from the end. *)
OldestFirst(s) == \A i, j \in DOMAIN s : i <= j => s[i] >= s[j]
Latest(s, j) == s[Len(s) - j + 1]

(* t is s without its first k entries. *)
AllBut(t, s, k) ==
    /\ k \in 0..Len(s)
    /\ Len(t) = Len(s) - k
    /\ \A i \in 1..Len(t) : t[i] = s[i + k]

(* Every non-empty set of numbers has a least one. *)
LEMMA SomeLeast ==
    ASSUME NEW X, X \subseteq Nat, X # {}
    PROVE  \E u \in X : \A w \in X : u <= w
<1>1. \E R : IsWellFoundedOn(R, Nat) /\ \A a, b \in Nat : a < b => <<a, b>> \in R
  BY NatLessThanWellFounded DEF OpToRel
<1>2. PICK R : IsWellFoundedOn(R, Nat) /\ \A a, b \in Nat : a < b => <<a, b>> \in R
  BY <1>1
<1>3. X \subseteq Nat /\ IsWellFoundedOn(R, Nat)
  BY <1>2
<1>6. \E u \in X : \A w \in X : ~(<<w, u>> \in R)
  BY <1>3, WFMin, Zenon
<1>4. PICK u \in X : \A w \in X : ~(<<w, u>> \in R)
  BY <1>6
<1>5. \A w \in X : ~(w < u)
  BY <1>2, <1>4
<1> QED BY <1>5

(* A set of positions that contains with every position the ones before it  *)
(* is a prefix, as long as the set is large.                                *)
LEMMA Prefix ==
    ASSUME NEW n \in Nat, NEW O \in SUBSET (1..n),
           \A i \in O : \A j \in 1..i : j \in O
    PROVE  Cardinality(O) \in 0..n /\ O = 1..Cardinality(O)
<1>1. CASE O = 1..n
  <2>1. Cardinality(O) = n
    BY <1>1, FS_Interval
  <2> QED BY <1>1, <2>1
<1>2. CASE O # 1..n
  <2> DEFINE X == (1..n) \ O
  <2>1. X \subseteq Nat /\ X # {}
    <3>1. PICK i \in 1..n : i \notin O
      BY <1>2
    <3> QED BY <3>1
  <2>2. PICK u \in X : \A w \in X : u <= w
    BY <2>1, SomeLeast
  <2>3. u \in 1..n /\ u \notin O
    BY <2>2
  <2>4. \A j \in 1..(u - 1) : j \in O
    BY <2>2, <2>3
  <2>5. \A j \in O : j \in 1..(u - 1)
    <3> SUFFICES ASSUME NEW j \in O, j >= u PROVE FALSE
      BY <2>3
    <3> QED BY <2>3
  <2>6. O = 1..(u - 1)
    BY <2>4, <2>5
  <2>7. Cardinality(O) = u - 1
    BY <2>3, <2>6, FS_Interval
  <2> QED BY <2>3, <2>6, <2>7
<1> QED BY <1>1, <1>2

(* The end of a sequence. *)
LEMMA EndOf ==
    ASSUME NEW S, NEW s \in Seq(S), NEW k \in 0..Len(s)
    PROVE  /\ SubSeq(s, k + 1, Len(s)) \in Seq(S)
           /\ AllBut(SubSeq(s, k + 1, Len(s)), s, k)
<1>1. PICK n \in Nat : n = Len(s)
  OBVIOUS
<1>2. \A i \in (k + 1)..n : s[i] \in S
  BY <1>1
<1>3. /\ SubSeq(s, k + 1, n) \in Seq(S)
      /\ Len(SubSeq(s, k + 1, n)) = (IF k + 1 <= n THEN n - (k + 1) + 1 ELSE 0)
      /\ \A i \in 1..(n - (k + 1) + 1) : SubSeq(s, k + 1, n)[i] = s[(k + 1) + i - 1]
  BY <1>1, <1>2, SubSeqProperties
<1>4. Len(SubSeq(s, k + 1, n)) = n - k
  BY <1>1, <1>3
<1>5. \A i \in 1..(n - k) : SubSeq(s, k + 1, n)[i] = s[i + k]
  <2> TAKE i \in 1..(n - k)
  <2>1. i \in 1..(n - (k + 1) + 1) /\ (k + 1) + i - 1 = i + k
    BY <1>1
  <2> QED BY <1>3, <2>1
<1> QED BY <1>1, <1>3, <1>4, <1>5 DEF AllBut

(* Without the first entries, and with one more, a sequence stays in order.*)
LEMMA EndOrdered ==
    ASSUME NEW S, NEW s \in Seq(S), NEW t \in Seq(S), NEW k \in Nat, AllBut(t, s, k), OldestFirst(s)
    PROVE  OldestFirst(t)
<1>1. PICK n \in Nat, m \in Nat :
          n = Len(s) /\ DOMAIN s = 1..n /\ m = Len(t) /\ DOMAIN t = 1..m
  OBVIOUS
<1>2. n = m + k /\ \A i \in 1..m : t[i] = s[i + k]
  BY <1>1 DEF AllBut
<1>3. \A i, j \in 1..m : i <= j => s[i + k] >= s[j + k]
  <2> SUFFICES ASSUME NEW i \in 1..m, NEW j \in 1..m, i <= j PROVE s[i + k] >= s[j + k]
    OBVIOUS
  <2>1. i + k \in 1..n /\ j + k \in 1..n /\ i + k <= j + k
    BY <1>2
  <2> QED BY <1>1, <2>1 DEF OldestFirst
<1> QED BY <1>1, <1>2, <1>3 DEF OldestFirst

LEMMA AppendOrdered ==
    ASSUME NEW S \in SUBSET Nat, 0 \in S, NEW s \in Seq(S), OldestFirst(s)
    PROVE  Append(s, 0) \in Seq(S) /\ OldestFirst(Append(s, 0))
<1>1. PICK n \in Nat : n = Len(s) /\ DOMAIN s = 1..n
  OBVIOUS
<1>2. \A i \in 1..n : s[i] \in S /\ s[i] \in Nat
  <2>1. s \in [1..n -> S]
    BY <1>1, LenProperties
  <2> QED BY <2>1
<1> DEFINE t == Append(s, 0)
<1>3. /\ t \in Seq(S) /\ DOMAIN t = 1..(n + 1)
      /\ (\A i \in 1..n : t[i] = s[i]) /\ t[n + 1] = 0
  BY <1>1, <1>2, AppendProperties
<1> HIDE DEF t
<1>4. \A i, j \in 1..(n + 1) : i <= j => t[i] >= t[j]
  <2> SUFFICES ASSUME NEW i \in 1..(n + 1), NEW j \in 1..(n + 1), i <= j PROVE t[i] >= t[j]
    OBVIOUS
  <2>1. CASE j = n + 1
    <3>1. i \in 1..n \/ i = n + 1
      OBVIOUS
    <3> QED BY <1>2, <1>3, <2>1, <3>1
  <2>2. CASE j # n + 1
    <3>1. i \in 1..n /\ j \in 1..n
      BY <2>2
    <3> QED BY <1>1, <1>3, <3>1 DEF OldestFirst
  <2> QED BY <2>1, <2>2
<1> QED BY <1>3, <1>4 DEF t, OldestFirst

===============================================================================
