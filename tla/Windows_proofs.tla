---------------------------- MODULE Windows_proofs ----------------------------
(***************************************************************************)
(* Proofs about what is counted over time: RateLimits, for any windows,    *)
(* limits and requests, and KeyAccess, for any keys, users, workers,       *)
(* thresholds and spans.                                                   *)
(***************************************************************************)
EXTENDS Lists_proofs, RateLimits, KeyAccess

-------------------------------------------------------------------------------
(* The sliding windows. *)

(* Of any n + 1 entries in a row the first is at least span older than now. *)
Spaced(s, n, span) == Len(s) > n => s[Len(s) - n] >= span

(* What a window remembers suffices to keep its limits: whatever it has let *)
(* pass within its span is counted in it by an entry at least as young, and *)
(* the last so many that passed already reach back beyond the span.         *)
WindowFits(b) ==
    /\ OldestFirst(hits[b]) /\ OldestFirst(admitted[b])
    /\ \A i \in DOMAIN hits[b] : hits[b][i] >= quiet[b]
    /\ \A j \in 1..Len(admitted[b]) : Latest(admitted[b], j) < Span(b) =>
          j <= Len(hits[b]) /\ Latest(hits[b], j) <= Latest(admitted[b], j)
    /\ Spaced(admitted[b], PerMinute[b], Minute)
    /\ b \notin Coarse => Spaced(admitted[b], PerDay[b], Day)

LimitsInv == LimitsTypeOK /\ \A b \in Buckets : WindowFits(b)

-------------------------------------------------------------------------------
(* The windows' numbers. *)
LEMMA Spans ==
    /\ Minute \in Nat \ {0} /\ Day \in Nat \ {0} /\ Minute < Day
    /\ \A b \in Buckets : /\ Span(b) \in {Minute, Day} /\ Minute <= Span(b)
                          /\ Span(b) \in Nat
                          /\ b \notin Coarse => Span(b) = Day
                          /\ PerMinute[b] \in Nat \ {0} /\ PerDay[b] \in Nat \ {0}
BY SpansAssumption, LimitsAssumption DEF Span

(* Recent drops the entries that have left the window and no other. *)
LEMMA RecentEnds ==
    ASSUME LimitsTypeOK, NEW b \in Buckets, OldestFirst(hits[b])
    PROVE  /\ Recent(b) \in Seq(Ages)
           /\ \E k \in 0..Len(hits[b]) :
                 /\ AllBut(Recent(b), hits[b], k)
                 /\ \A i \in 1..k : ~Within(hits[b][i], Span(b))
<1>1. hits[b] \in Seq(Ages) /\ backend \in {"memory", "redis"}
  BY DEF LimitsTypeOK
<1>2. PICK n \in Nat : n = Len(hits[b]) /\ DOMAIN hits[b] = 1..n
  BY <1>1
<1>3. \A i \in 1..n : hits[b][i] \in Ages
  BY <1>1, <1>2
<1> DEFINE O == Outdated(b)
<1>4. O \in SUBSET (1..n)
  BY <1>2 DEF Outdated
<1>5. \A i \in O : \A j \in 1..i : j \in O
  <2> SUFFICES ASSUME NEW i \in O, NEW j \in 1..i PROVE j \in O
    OBVIOUS
  <2>1. i \in 1..n /\ j \in 1..n /\ ~Within(hits[b][i], Span(b))
    BY <1>2, <1>4 DEF Outdated
  <2>2. hits[b][j] >= hits[b][i]
    BY <1>2, <2>1 DEF OldestFirst
  <2>3. hits[b][i] \in Nat /\ hits[b][j] \in Nat /\ Span(b) \in Nat
    BY <1>3, <2>1, Spans DEF Ages
  <2>4. ~Within(hits[b][j], Span(b))
    BY <2>1, <2>2, <2>3 DEF Within
  <2> QED BY <1>2, <2>1, <2>4 DEF Outdated
<1>6. Cardinality(O) \in 0..n /\ O = 1..Cardinality(O)
  BY <1>4, <1>5, Prefix
<1>7. PICK k \in 0..n : k = Cardinality(O) /\ O = 1..k
  BY <1>6
<1>8. Recent(b) = SubSeq(hits[b], k + 1, Len(hits[b]))
  BY <1>7 DEF Recent
<1>9. Recent(b) \in Seq(Ages) /\ AllBut(Recent(b), hits[b], k)
  BY <1>1, <1>2, <1>8, EndOf
<1>10. \A i \in 1..k : ~Within(hits[b][i], Span(b))
  BY <1>7 DEF Outdated
<1> QED BY <1>2, <1>9, <1>10

(* Aging drops the entries that are a day old, and the others age. *)
LEMMA AgingEnds ==
    ASSUME NEW s \in Seq(Ages), OldestFirst(s)
    PROVE  /\ Aging(s) \in Seq(Ages)
           /\ \E k \in 0..Len(s) :
                 /\ Len(Aging(s)) = Len(s) - k
                 /\ \A i \in 1..(Len(s) - k) : Aging(s)[i] = s[i + k] + 1
                 /\ \A i \in 1..k : s[i] = Day
<1>2. PICK n \in Nat : n = Len(s) /\ DOMAIN s = 1..n
  OBVIOUS
<1>3. \A i \in 1..n : s[i] \in Ages
  BY <1>2
<1> DEFINE O == {i \in DOMAIN s : s[i] = Day}
<1>4. O \in SUBSET (1..n)
  BY <1>2
<1>5. \A i \in O : \A j \in 1..i : j \in O
  <2> SUFFICES ASSUME NEW i \in O, NEW j \in 1..i PROVE j \in O
    OBVIOUS
  <2>1. i \in 1..n /\ j \in 1..n /\ s[i] = Day
    BY <1>2, <1>4
  <2>2. s[j] >= s[i]
    BY <1>2, <2>1 DEF OldestFirst
  <2> QED BY <1>2, <1>3, <2>1, <2>2, Spans DEF Ages
<1>6. Cardinality(O) \in 0..n /\ O = 1..Cardinality(O)
  BY <1>4, <1>5, Prefix
<1>7. PICK k \in 0..n : k = Cardinality(O) /\ O = 1..k
  BY <1>6
<1> DEFINE rest == SubSeq(s, k + 1, Len(s))
<1>8. Aging(s) = [i \in DOMAIN rest |-> rest[i] + 1]
  BY <1>7 DEF Aging
<1>9. rest \in Seq(Ages) /\ AllBut(rest, s, k)
  BY <1>2, EndOf
<1>10. DOMAIN rest = 1..(n - k) /\ \A i \in 1..(n - k) : rest[i] = s[i + k]
  BY <1>2, <1>9 DEF AllBut
<1>11. \A i \in 1..(n - k) : s[i + k] \in Ages /\ s[i + k] # Day
  <2> SUFFICES ASSUME NEW i \in 1..(n - k) PROVE s[i + k] \in Ages /\ s[i + k] # Day
    OBVIOUS
  <2>1. i + k \in 1..n /\ i + k \notin 1..k
    BY <1>7
  <2>2. i + k \notin O
    BY <1>7, <2>1
  <2> QED BY <1>2, <1>3, <2>1, <2>2
<1>12. \A i \in 1..(n - k) : s[i + k] + 1 \in Ages
  BY <1>11, Spans DEF Ages
<1>13. Aging(s) = [i \in 1..(n - k) |-> s[i + k] + 1]
  BY <1>8, <1>10
<1>14. n - k \in Nat
  BY <1>7
<1>15. Aging(s) \in Seq(Ages) /\ Len(Aging(s)) = n - k
  BY <1>12, <1>13, <1>14
<1>16. \A i \in 1..(n - k) : Aging(s)[i] = s[i + k] + 1
  BY <1>13
<1>17. \A i \in 1..k : s[i] = Day
  BY <1>7
<1> QED BY <1>2, <1>15, <1>16, <1>17

(* If the n-th entry from the end is younger than a span, n are counted. *)
LEMMA ManyCounted ==
    ASSUME LimitsTypeOK, NEW b \in Buckets, OldestFirst(hits[b]), NEW span \in Nat,
           NEW n \in Nat \ {0}, n <= Len(hits[b]), Latest(hits[b], n) < span
    PROVE  Counted(b, span) >= n
<1>1. hits[b] \in Seq(Ages) /\ backend \in {"memory", "redis"}
  BY DEF LimitsTypeOK
<1>2. PICK m \in Nat : m = Len(hits[b]) /\ DOMAIN hits[b] = 1..m
  BY <1>1
<1>3. \A i \in 1..m : hits[b][i] \in Nat
  <2>1. \A i \in 1..m : hits[b][i] \in Ages
    BY <1>1, <1>2
  <2> QED BY <2>1, Spans DEF Ages
<1> DEFINE C == {i \in DOMAIN hits[b] : Within(hits[b][i], span)}
<1> DEFINE I == (m - n + 1)..m
<1>4. hits[b][m - n + 1] < span /\ m - n + 1 \in 1..m
  BY <1>2 DEF Latest
<1>5. I \subseteq C
  <2> SUFFICES ASSUME NEW i \in I PROVE i \in C
    OBVIOUS
  <2>1. i \in 1..m /\ m - n + 1 <= i
    BY <1>4
  <2>2. hits[b][m - n + 1] >= hits[b][i]
    BY <1>2, <1>4, <2>1 DEF OldestFirst
  <2>3. hits[b][i] < span
    BY <1>3, <1>4, <2>1, <2>2
  <2> QED BY <1>2, <1>3, <2>1, <2>3 DEF Within
<1>6. IsFiniteSet(I) /\ Cardinality(I) = n
  BY <1>4, FS_Interval
<1>7. IsFiniteSet(C)
  <2>1. IsFiniteSet(1..m) /\ C \in SUBSET (1..m)
    BY <1>2, FS_Interval
  <2> QED BY <2>1, FS_Subset
<1>8. Cardinality(I) <= Cardinality(C)
  BY <1>5, <1>7, FS_Subset
<1> QED BY <1>6, <1>8 DEF Counted

(* A window nobody's entry lies in counts none. *)
LEMMA NoneCounted ==
    ASSUME NEW b, NEW span, \A i \in DOMAIN hits[b] : ~Within(hits[b][i], span)
    PROVE  Counted(b, span) = 0
<1>1. {i \in DOMAIN hits[b] : Within(hits[b][i], span)} = {}
  OBVIOUS
<1> QED BY <1>1, FS_EmptySet DEF Counted
-------------------------------------------------------------------------------
LEMMA InitLimits == LimitsInit => LimitsInv
<1> SUFFICES ASSUME LimitsInit PROVE LimitsInv
  OBVIOUS
<1>1. <<>> \in Seq(Ages) /\ Day + 1 \in 0..(Day + 1)
  BY Spans
<1>2. LimitsTypeOK
  BY <1>1 DEF LimitsInit, LimitsTypeOK
<1>3. ASSUME NEW b \in Buckets PROVE WindowFits(b)
  <2>1. /\ hits[b] = <<>> /\ admitted[b] = <<>> /\ PerMinute[b] \in Nat /\ PerDay[b] \in Nat
        /\ DOMAIN hits[b] = {} /\ DOMAIN admitted[b] = {} /\ Len(admitted[b]) = 0
    BY <1>3, Spans DEF LimitsInit
  <2>2. OldestFirst(hits[b]) /\ OldestFirst(admitted[b])
    BY <2>1 DEF OldestFirst
  <2>3. Spaced(admitted[b], PerMinute[b], Minute) /\ Spaced(admitted[b], PerDay[b], Day)
    BY <2>1 DEF Spaced
  <2> QED BY <2>1, <2>2, <2>3 DEF WindowFits
<1> QED BY <1>2, <1>3 DEF LimitsInv

(* A bucket that is not full has room: n entries from the end lies outside. *)
LEMMA RoomLeft ==
    ASSUME LimitsInv, NEW b \in Buckets, ~Full(b)
    PROVE  /\ Spaced(Append(admitted[b], 0), PerMinute[b], Minute)
           /\ b \notin Coarse => Spaced(Append(admitted[b], 0), PerDay[b], Day)
<1>1. LimitsTypeOK /\ WindowFits(b)
  BY DEF LimitsInv
<1>2. /\ admitted[b] \in Seq(Ages) /\ hits[b] \in Seq(Ages)
      /\ \A span \in Nat : Counted(b, span) \in Nat
  <2>1. admitted[b] \in Seq(Ages) /\ hits[b] \in Seq(Ages)
    BY <1>1 DEF LimitsTypeOK
  <2>2. ASSUME NEW span \in Nat PROVE Counted(b, span) \in Nat
    <3> DEFINE C == {i \in DOMAIN hits[b] : Within(hits[b][i], span)}
    <3>1. PICK m \in Nat : DOMAIN hits[b] = 1..m
      BY <2>1
    <3>2. IsFiniteSet(1..m) /\ C \in SUBSET (1..m)
      BY <3>1, FS_Interval
    <3>3. IsFiniteSet(C)
      BY <3>2, FS_Subset
    <3> QED BY <3>3, FS_CardinalityType DEF Counted
  <2> QED BY <2>1, <2>2
<1>3. ASSUME NEW n \in Nat \ {0}, NEW span \in Nat, span <= Span(b), Counted(b, span) < n
      PROVE  Spaced(Append(admitted[b], 0), n, span)
  <2>1. PICK m \in Nat : m = Len(admitted[b]) /\ DOMAIN admitted[b] = 1..m
    BY <1>2
  <2>2. 0 \in Ages
    BY Spans DEF Ages
  <2> DEFINE t == Append(admitted[b], 0)
  <2>3. Len(t) = m + 1 /\ \A i \in 1..m : t[i] = admitted[b][i]
    BY <1>2, <2>1, <2>2, AppendProperties
  <2> HIDE DEF t
  <2>4. SUFFICES ASSUME m + 1 > n PROVE t[m + 1 - n] >= span
    BY <2>3 DEF Spaced, t
  <2>5. n \in 1..m /\ m + 1 - n \in 1..m /\ m + 1 - n = m - n + 1
    BY <2>4
  <2>6. t[m + 1 - n] = Latest(admitted[b], n)
    BY <2>1, <2>3, <2>5 DEF Latest
  <2>7. admitted[b][m - n + 1] \in Ages
    BY <1>2, <2>1, <2>5
  <2>8. Latest(admitted[b], n) \in Nat
    BY <2>1, <2>7, Spans DEF Latest, Ages
  <2>9. CASE Latest(admitted[b], n) < span
    <3>1. Latest(admitted[b], n) < Span(b)
      BY <1>3, <2>8, <2>9, Spans
    <3>2. n <= Len(hits[b]) /\ Latest(hits[b], n) <= Latest(admitted[b], n)
      BY <1>1, <2>1, <2>5, <3>1 DEF WindowFits
    <3>3. Latest(hits[b], n) \in Nat
      <4>1. PICK h \in Nat : h = Len(hits[b]) /\ DOMAIN hits[b] = 1..h
        BY <1>2
      <4>2. h - n + 1 \in 1..h
        BY <3>2, <4>1
      <4>3. hits[b][h - n + 1] \in Ages
        BY <1>2, <4>1, <4>2
      <4> QED BY <4>1, <4>3, Spans DEF Latest, Ages
    <3>4. Latest(hits[b], n) < span
      BY <2>8, <2>9, <3>2, <3>3
    <3>5. Counted(b, span) >= n
      <4>1. OldestFirst(hits[b])
        BY <1>1 DEF WindowFits
      <4> QED BY <1>1, <3>2, <3>4, <4>1, ManyCounted
    <3> QED BY <1>2, <1>3, <3>5
  <2> QED BY <2>6, <2>8, <2>9
<1>4. /\ Counted(b, Minute) < PerMinute[b]
      /\ b \notin Coarse => Counted(b, Day) < PerDay[b]
  <2>1. Counted(b, Minute) \in Nat /\ Counted(b, Day) \in Nat
    BY <1>2, Spans
  <2>2. PerMinute[b] \in Nat /\ PerDay[b] \in Nat
    BY Spans
  <2> QED BY <2>1, <2>2 DEF Full
<1>5. Spaced(Append(admitted[b], 0), PerMinute[b], Minute)
  BY <1>3, <1>4, Spans
<1>6. b \notin Coarse => Spaced(Append(admitted[b], 0), PerDay[b], Day)
  BY <1>3, <1>4, Spans
<1> QED BY <1>5, <1>6

LEMMA FromTheEnd ==
    ASSUME NEW m \in Nat, NEW j \in Nat \ {0}, j <= m
    PROVE  m - j + 1 \in 1..m
OBVIOUS

LEMMA BelowSpan ==
    ASSUME NEW x \in Nat, NEW y \in Nat, NEW span \in Nat, x <= y, y < span
    PROVE  x < span /\ Within(x, span)
BY DEF Within

(* One bucket is asked. *)
LEMMA CheckWindow ==
    ASSUME LimitsInv, NEW b \in Buckets,
           NEW h, NEW a,
           \/ ~Full(b) /\ h = Append(Recent(b), 0) /\ a = Append(admitted[b], 0)
           \/ a = admitted[b] /\ h \in {Recent(b), Append(Recent(b), 0)}
    PROVE  /\ h \in Seq(Ages) /\ a \in Seq(Ages)
           /\ OldestFirst(h) /\ OldestFirst(a)
           /\ \A j \in 1..Len(a) : Latest(a, j) < Span(b) =>
                 j <= Len(h) /\ Latest(h, j) <= Latest(a, j)
           /\ Spaced(a, PerMinute[b], Minute)
           /\ b \notin Coarse => Spaced(a, PerDay[b], Day)
<1>1. LimitsTypeOK /\ WindowFits(b) /\ OldestFirst(hits[b]) /\ OldestFirst(admitted[b])
  BY DEF LimitsInv, WindowFits
<1>2. hits[b] \in Seq(Ages) /\ admitted[b] \in Seq(Ages) /\ backend \in {"memory", "redis"}
  BY <1>1 DEF LimitsTypeOK
<1>3. Recent(b) \in Seq(Ages)
  BY <1>1, RecentEnds
<1>4. PICK k \in 0..Len(hits[b]) :
          /\ AllBut(Recent(b), hits[b], k)
          /\ \A i \in 1..k : ~Within(hits[b][i], Span(b))
  BY <1>1, RecentEnds
<1>5. PICK n \in Nat, m \in Nat, c \in Nat :
          /\ n = Len(hits[b]) /\ m = Len(Recent(b)) /\ c = Len(admitted[b])
          /\ DOMAIN hits[b] = 1..n /\ DOMAIN Recent(b) = 1..m /\ DOMAIN admitted[b] = 1..c
  <2>1. \A s \in Seq(Ages) : Len(s) \in Nat /\ DOMAIN s = 1..Len(s)
    OBVIOUS
  <2> QED BY <1>2, <1>3, <2>1, Zenon
<1>6. n = m + k /\ k \in Nat /\ \A i \in 1..m : Recent(b)[i] = hits[b][i + k]
  BY <1>4, <1>5 DEF AllBut
<1>7. OldestFirst(Recent(b))
  BY <1>1, <1>2, <1>3, <1>4, <1>6, EndOrdered
<1>9. 0 \in Ages /\ Ages \in SUBSET Nat
  BY Spans DEF Ages
<1>8. /\ Append(Recent(b), 0) \in Seq(Ages) /\ OldestFirst(Append(Recent(b), 0))
      /\ Append(admitted[b], 0) \in Seq(Ages) /\ OldestFirst(Append(admitted[b], 0))
  BY <1>1, <1>2, <1>3, <1>7, <1>9, AppendOrdered
<1>10. /\ \A i \in 1..n : hits[b][i] \in Nat
       /\ \A i \in 1..m : Recent(b)[i] \in Nat
       /\ \A i \in 1..c : admitted[b][i] \in Nat
  <2>1. /\ \A i \in 1..n : hits[b][i] \in Ages
        /\ \A i \in 1..m : Recent(b)[i] \in Ages
        /\ \A i \in 1..c : admitted[b][i] \in Ages
    BY <1>2, <1>3, <1>5
  <2> QED BY <2>1, Spans DEF Ages
(* What passed and lies within the span is still counted. *)
<1>11. ASSUME NEW j \in 1..c, admitted[b][c - j + 1] < Span(b)
       PROVE  /\ j <= m
              /\ Recent(b)[m - j + 1] <= admitted[b][c - j + 1]
  <2>1. c - j + 1 \in 1..c
    OBVIOUS
  <2>2. j <= n /\ hits[b][n - j + 1] <= admitted[b][c - j + 1]
    BY <1>1, <1>5, <1>11 DEF WindowFits, Latest
  <2>3. n - j + 1 \in 1..n
    BY <2>2
  <2>4. /\ hits[b][n - j + 1] \in Nat /\ admitted[b][c - j + 1] \in Nat
        /\ Span(b) \in Nat
    BY <1>10, <2>1, <2>3, Spans, Zenon
  <2>5. Within(hits[b][n - j + 1], Span(b))
    BY <1>11, <2>2, <2>4, BelowSpan
  <2>6. n - j + 1 \notin 1..k
    BY <1>4, <2>5
  <2>7. j <= m /\ m - j + 1 \in 1..m /\ m - j + 1 + k = n - j + 1
    BY <1>6, <2>3, <2>6
  <2> QED BY <1>6, <2>2, <2>7
<1>12. /\ Len(Append(Recent(b), 0)) = m + 1 /\ Append(Recent(b), 0)[m + 1] = 0
       /\ \A i \in 1..m : Append(Recent(b), 0)[i] = Recent(b)[i]
  BY <1>3, <1>5, <1>9, AppendProperties
<1>13. /\ Len(Append(admitted[b], 0)) = c + 1 /\ Append(admitted[b], 0)[c + 1] = 0
       /\ \A i \in 1..c : Append(admitted[b], 0)[i] = admitted[b][i]
  BY <1>2, <1>5, <1>9, AppendProperties
<1>14. CASE ~Full(b) /\ h = Append(Recent(b), 0) /\ a = Append(admitted[b], 0)
  <2>1. h = Append(Recent(b), 0) /\ a = Append(admitted[b], 0)
    BY <1>14
  <2>2. ASSUME NEW j \in 1..(c + 1), a[(c + 1) - j + 1] < Span(b)
        PROVE  j <= m + 1 /\ h[(m + 1) - j + 1] <= a[(c + 1) - j + 1]
    <3>1. CASE j = 1
      <4>1. (m + 1) - j + 1 = m + 1 /\ (c + 1) - j + 1 = c + 1 /\ j <= m + 1
        BY <3>1
      <4>2. h[m + 1] = 0 /\ a[c + 1] = 0
        BY <1>12, <1>13, <2>1
      <4>3. h[(m + 1) - j + 1] = 0 /\ a[(c + 1) - j + 1] = 0
        BY <4>1, <4>2, Zenon
      <4>4. 0 <= 0
        OBVIOUS
      <4> QED BY <4>1, <4>3, <4>4, Zenon
    <3>2. CASE j # 1
      <4>1. PICK i \in 1..c : j = i + 1
        <5>1. j - 1 \in 1..c /\ j = (j - 1) + 1
          BY <3>2
        <5> QED BY <5>1
      <4>2. c - i + 1 \in 1..c /\ (c + 1) - j + 1 = c - i + 1 /\ (m + 1) - j + 1 = m - i + 1
        BY <4>1
      <4>3. a[(c + 1) - j + 1] = admitted[b][c - i + 1]
        BY <1>13, <2>1, <4>2
      <4>4. i <= m /\ Recent(b)[m - i + 1] <= admitted[b][c - i + 1]
        BY <1>11, <2>2, <4>3
      <4>5. m - i + 1 \in 1..m
        <5>1. i \in Nat \ {0}
          OBVIOUS
        <5> QED BY <1>5, <4>4, <5>1, FromTheEnd
      <4>6. h[(m + 1) - j + 1] = Recent(b)[m - i + 1]
        BY <1>12, <2>1, <4>2, <4>5
      <4>7. h[(m + 1) - j + 1] <= a[(c + 1) - j + 1]
        BY <4>3, <4>4, <4>6, Zenon
      <4>8. j <= m + 1
        BY <4>1, <4>4
      <4> QED BY <4>7, <4>8
    <3> QED BY <3>1, <3>2
  <2>3. Len(a) = c + 1 /\ Len(h) = m + 1
    BY <1>12, <1>13, <2>1
  <2>4. \A j \in 1..Len(a) : Latest(a, j) < Span(b) =>
            j <= Len(h) /\ Latest(h, j) <= Latest(a, j)
    BY <2>2, <2>3 DEF Latest
  <2>5. Spaced(a, PerMinute[b], Minute) /\ (b \notin Coarse => Spaced(a, PerDay[b], Day))
    BY <1>14, <2>1, RoomLeft
  <2> QED BY <1>8, <2>1, <2>4, <2>5
<1>15. CASE a = admitted[b] /\ h \in {Recent(b), Append(Recent(b), 0)}
  <2>1. a = admitted[b] /\ (h = Append(Recent(b), 0) \/ h = Recent(b))
    BY <1>15
  <2>2. h \in Seq(Ages) /\ a \in Seq(Ages) /\ OldestFirst(h) /\ OldestFirst(a)
    BY <1>1, <1>2, <1>3, <1>7, <1>8, <2>1
  <2>3. ASSUME NEW j \in 1..c, a[c - j + 1] < Span(b)
        PROVE  j <= Len(h) /\ h[Len(h) - j + 1] <= a[c - j + 1]
    <3>1. j <= m /\ Recent(b)[m - j + 1] <= a[c - j + 1]
      BY <1>11, <2>1, <2>3
    <3>2. CASE h = Recent(b)
      BY <1>5, <3>1, <3>2
    <3>3. CASE h = Append(Recent(b), 0)
      <4>1. Len(h) = m + 1 /\ (m + 1) - j + 1 = m - j + 2 /\ m - j + 1 \in 1..m
        BY <1>12, <3>1, <3>3
      <4>2. c - j + 1 \in 1..c
        OBVIOUS
      <4>3. a[c - j + 1] \in Nat /\ Recent(b)[m - j + 1] \in Nat
        BY <1>10, <2>1, <4>1, <4>2
      <4>4. h[m - j + 2] <= Recent(b)[m - j + 1] /\ h[m - j + 2] \in Nat
        <5>1. CASE j = 1
          <6>1. m - j + 2 = m + 1
            BY <5>1
          <6>2. h[m + 1] = 0
            BY <1>12, <3>3
          <6>3. h[m - j + 2] = 0
            BY <6>1, <6>2, Zenon
          <6>4. 0 \in Nat /\ \A x \in Nat : 0 <= x
            OBVIOUS
          <6> QED BY <4>3, <6>3, <6>4, Zenon
        <5>2. CASE j # 1
          <6>1. m - j + 2 \in 1..m /\ m - j + 1 <= m - j + 2
            BY <4>1, <5>2
          <6>2. h[m - j + 2] = Recent(b)[m - j + 2]
            BY <1>12, <3>3, <6>1
          <6>3. Recent(b)[m - j + 1] >= Recent(b)[m - j + 2]
            BY <1>5, <1>7, <4>1, <6>1 DEF OldestFirst
          <6> QED BY <1>10, <4>3, <6>1, <6>2, <6>3
        <5> QED BY <5>1, <5>2
      <4>5. h[m - j + 2] <= a[c - j + 1]
        <5>1. \A x, y, z \in Nat : x <= y /\ y <= z => x <= z
          OBVIOUS
        <5> QED BY <3>1, <4>3, <4>4, <5>1, Zenon
      <4>6. h[Len(h) - j + 1] = h[m - j + 2]
        BY <4>1, Zenon
      <4>7. j <= m + 1
        BY <3>1
      <4>8. j <= Len(h)
        BY <4>1, <4>7, Zenon
      <4>9. h[Len(h) - j + 1] <= a[c - j + 1]
        BY <4>5, <4>6, Zenon
      <4> QED BY <4>8, <4>9
    <3> QED BY <2>1, <3>2, <3>3
  <2>4. \A j \in 1..Len(a) : Latest(a, j) < Span(b) =>
            j <= Len(h) /\ Latest(h, j) <= Latest(a, j)
    BY <1>5, <2>1, <2>3 DEF Latest
  <2>5. Spaced(a, PerMinute[b], Minute) /\ (b \notin Coarse => Spaced(a, PerDay[b], Day))
    BY <1>1, <2>1 DEF WindowFits
  <2> QED BY <2>2, <2>4, <2>5
<1> QED BY <1>14, <1>15

(* A tick ages a window and drops what no window looks back at. *)
LEMMA TickWindow ==
    ASSUME LimitsInv, NEW b \in Buckets,
           NEW h, h = Aging(hits[b]), NEW a, a = Aging(admitted[b]),
           NEW q, q = IF quiet[b] <= Day THEN quiet[b] + 1 ELSE quiet[b]
    PROVE  /\ h \in Seq(Ages) /\ a \in Seq(Ages) /\ q \in 1..(Day + 1)
           /\ OldestFirst(h) /\ OldestFirst(a)
           /\ \A i \in DOMAIN h : h[i] >= q
           /\ \A j \in 1..Len(a) : Latest(a, j) < Span(b) =>
                 j <= Len(h) /\ Latest(h, j) <= Latest(a, j)
           /\ Spaced(a, PerMinute[b], Minute)
           /\ b \notin Coarse => Spaced(a, PerDay[b], Day)
<1>1. LimitsTypeOK /\ WindowFits(b) /\ OldestFirst(hits[b]) /\ OldestFirst(admitted[b])
  BY DEF LimitsInv, WindowFits
<1>2. hits[b] \in Seq(Ages) /\ admitted[b] \in Seq(Ages) /\ quiet[b] \in 0..(Day + 1)
  BY <1>1 DEF LimitsTypeOK
<1>3. h \in Seq(Ages) /\ a \in Seq(Ages)
  BY <1>1, <1>2, AgingEnds
<1>4. q \in 1..(Day + 1)
  BY <1>2, Spans
<1>5. PICK n \in Nat, c \in Nat :
          /\ n = Len(hits[b]) /\ c = Len(admitted[b])
          /\ DOMAIN hits[b] = 1..n /\ DOMAIN admitted[b] = 1..c
  BY <1>2
<1>6. PICK k \in 0..n :
          /\ Len(h) = n - k
          /\ \A i \in 1..(n - k) : h[i] = hits[b][i + k] + 1
          /\ \A i \in 1..k : hits[b][i] = Day
  BY <1>1, <1>2, <1>5, AgingEnds
<1>7. PICK l \in 0..c :
          /\ Len(a) = c - l
          /\ \A i \in 1..(c - l) : a[i] = admitted[b][i + l] + 1
          /\ \A i \in 1..l : admitted[b][i] = Day
  BY <1>1, <1>2, <1>5, AgingEnds
<1>8. PICK m \in Nat, d \in Nat : m = n - k /\ d = c - l
  <2>1. n - k \in Nat /\ c - l \in Nat
    OBVIOUS
  <2> QED BY <2>1
<1>9. DOMAIN h = 1..m /\ DOMAIN a = 1..d /\ Len(h) = m /\ Len(a) = d
  <2>1. Len(h) = m /\ Len(a) = d
    BY <1>6, <1>7, <1>8
  <2>2. DOMAIN h = 1..Len(h) /\ DOMAIN a = 1..Len(a)
    BY <1>3
  <2> QED BY <2>1, <2>2
<1>10. /\ \A i \in 1..m : i + k \in 1..n /\ h[i] = hits[b][i + k] + 1
       /\ \A i \in 1..d : i + l \in 1..c /\ a[i] = admitted[b][i + l] + 1
  BY <1>6, <1>7, <1>8
<1>11. /\ \A i \in 1..n : hits[b][i] \in 0..Day
       /\ \A i \in 1..c : admitted[b][i] \in 0..Day
  <2>1. /\ \A i \in 1..n : hits[b][i] \in Ages
        /\ \A i \in 1..c : admitted[b][i] \in Ages
    BY <1>2, <1>5
  <2> QED BY <2>1 DEF Ages
<1>12. OldestFirst(h)
  <2> SUFFICES ASSUME NEW i \in 1..m, NEW j \in 1..m, i <= j PROVE h[i] >= h[j]
    BY <1>9 DEF OldestFirst
  <2>1. i + k \in 1..n /\ j + k \in 1..n /\ i + k <= j + k
    BY <1>10
  <2>2. hits[b][i + k] >= hits[b][j + k]
    BY <1>1, <1>5, <2>1 DEF OldestFirst
  <2>3. h[i] = hits[b][i + k] + 1 /\ h[j] = hits[b][j + k] + 1
    BY <1>10
  <2>4. hits[b][i + k] \in Nat /\ hits[b][j + k] \in Nat
    BY <1>11, <2>1, Spans
  <2> QED BY <2>2, <2>3, <2>4
<1>13. OldestFirst(a)
  <2> SUFFICES ASSUME NEW i \in 1..d, NEW j \in 1..d, i <= j PROVE a[i] >= a[j]
    BY <1>9 DEF OldestFirst
  <2>1. i + l \in 1..c /\ j + l \in 1..c /\ i + l <= j + l
    BY <1>10
  <2>2. admitted[b][i + l] >= admitted[b][j + l]
    BY <1>1, <1>5, <2>1 DEF OldestFirst
  <2>3. a[i] = admitted[b][i + l] + 1 /\ a[j] = admitted[b][j + l] + 1
    BY <1>10
  <2>4. admitted[b][i + l] \in Nat /\ admitted[b][j + l] \in Nat
    BY <1>11, <2>1, Spans
  <2> QED BY <2>2, <2>3, <2>4
<1>14. \A i \in DOMAIN h : h[i] >= q
  <2> SUFFICES ASSUME NEW i \in 1..m PROVE h[i] >= q
    BY <1>9
  <2>1. i + k \in 1..n /\ h[i] = hits[b][i + k] + 1
    BY <1>10
  <2>2. hits[b][i + k] >= quiet[b] /\ hits[b][i + k] \in 0..Day
    BY <1>1, <1>5, <1>11, <2>1 DEF WindowFits
  <2>3. PICK x \in 0..Day : x = hits[b][i + k]
    BY <2>2
  <2>4. quiet[b] <= Day /\ q = quiet[b] + 1
    BY <1>2, <2>2, <2>3, Spans
  <2>5. x + 1 >= quiet[b] + 1
    BY <1>2, <2>2, <2>3, Spans
  <2> QED BY <2>1, <2>3, <2>4, <2>5, Zenon
<1>15. ASSUME NEW j \in 1..d, a[d - j + 1] < Span(b)
       PROVE  j <= m /\ h[m - j + 1] <= a[d - j + 1]
  <2>1. d - j + 1 \in 1..d /\ (d - j + 1) + l = c - j + 1 /\ j \in 1..c
    BY <1>8
  <2>2. c - j + 1 \in 1..c /\ a[d - j + 1] = admitted[b][c - j + 1] + 1
    BY <1>10, <2>1
  <2>3. admitted[b][c - j + 1] \in Nat
    BY <1>11, <2>2, Spans
  <2>4. admitted[b][c - j + 1] < Span(b)
    BY <1>15, <2>2, <2>3, Spans
  <2>5. j <= n /\ hits[b][n - j + 1] <= admitted[b][c - j + 1]
    BY <1>1, <1>5, <2>1, <2>4 DEF WindowFits, Latest
  <2>6. n - j + 1 \in 1..n
    BY <2>5
  <2>7. hits[b][n - j + 1] \in Nat
    BY <1>11, <2>6, Spans
  <2>8. hits[b][n - j + 1] # Day
    <3>1. admitted[b][c - j + 1] + 1 < Span(b) /\ Span(b) <= Day /\ Span(b) \in Nat
      BY <1>15, <2>2, Spans
    <3> QED BY <2>3, <2>5, <2>7, <3>1, Spans
  <2>9. n - j + 1 \notin 1..k
    BY <1>6, <2>8
  <2>10. j <= m /\ m - j + 1 \in 1..m /\ (m - j + 1) + k = n - j + 1
    BY <1>8, <2>6, <2>9
  <2>11. h[m - j + 1] = hits[b][n - j + 1] + 1
    BY <1>10, <2>10
  <2>12. \A x, y \in Nat : x <= y => x + 1 <= y + 1
    OBVIOUS
  <2> QED BY <2>2, <2>3, <2>5, <2>7, <2>10, <2>11, <2>12, Zenon
<1>16. \A j \in 1..Len(a) : Latest(a, j) < Span(b) =>
          j <= Len(h) /\ Latest(h, j) <= Latest(a, j)
  BY <1>9, <1>15 DEF Latest
<1>17. ASSUME NEW p \in Nat \ {0}, NEW span \in Nat, Spaced(admitted[b], p, span)
       PROVE  Spaced(a, p, span)
  <2> SUFFICES ASSUME d > p PROVE a[d - p] >= span
    BY <1>9 DEF Spaced
  <2>1. d - p \in 1..d /\ (d - p) + l = c - p /\ c > p /\ c - p \in 1..c
    BY <1>8
  <2>2. a[d - p] = admitted[b][c - p] + 1 /\ admitted[b][c - p] \in Nat
    BY <1>10, <1>11, <2>1, Spans
  <2>3. admitted[b][c - p] >= span
    BY <1>5, <1>17, <2>1 DEF Spaced
  <2>4. \A x \in Nat : x >= span => x + 1 >= span
    OBVIOUS
  <2> QED BY <2>2, <2>3, <2>4, Zenon
<1>18. Spaced(a, PerMinute[b], Minute) /\ (b \notin Coarse => Spaced(a, PerDay[b], Day))
  BY <1>1, <1>17, Spans DEF WindowFits
<1> QED BY <1>3, <1>4, <1>12, <1>13, <1>14, <1>16, <1>18

-------------------------------------------------------------------------------
LEMMA StartKeeps ==
    ASSUME LimitsInv, NEW r \in Asks, NEW chain \in Chains, StartAsk(r, chain)
    PROVE  LimitsInv'
<1>1. LimitsTypeOK /\ UNCHANGED <<backend, hits, admitted, quiet, told>>
  BY DEF LimitsInv, StartAsk
<1>2. [phase |-> "asking", rest |-> chain]
          \in {NoAsk} \cup [phase : {"asking"}, rest : Seq(Buckets) \ {<<>>}]
  BY ChainsAssumption
<1>3. LimitsTypeOK'
  BY <1>1, <1>2 DEF LimitsTypeOK, StartAsk
<1>4. \A b \in Buckets : WindowFits(b)'
  BY <1>1 DEF LimitsInv, WindowFits, Span
<1> QED BY <1>3, <1>4 DEF LimitsInv

LEMMA CheckKeeps ==
    ASSUME LimitsInv, NEW r \in Asks, Check(r)
    PROVE  LimitsInv'
<1> DEFINE b == Head(ask[r].rest)
           rest == Tail(ask[r].rest)
<1>1. LimitsTypeOK
  BY DEF LimitsInv
<1>16. PICK twin \in BOOLEAN :
          /\ hits' = [hits EXCEPT ![b] = IF Counts(b) /\ ~twin THEN Append(Recent(b), 0)
                                         ELSE Recent(b)]
          /\ admitted' = IF Full(b) \/ twin THEN admitted
                         ELSE [admitted EXCEPT ![b] = Append(@, 0)]
  BY Zenon DEF Check
<1> DEFINE h == IF Counts(b) /\ ~twin THEN Append(Recent(b), 0) ELSE Recent(b)
           a == IF Full(b) \/ twin THEN admitted[b] ELSE Append(admitted[b], 0)
<1>2. /\ ask[r].phase = "asking"
      /\ hits' = [hits EXCEPT ![b] = h]
      /\ admitted' = IF Full(b) \/ twin THEN admitted
                     ELSE [admitted EXCEPT ![b] = Append(@, 0)]
      /\ quiet' = [quiet EXCEPT ![b] = 0]
      /\ told' = [told EXCEPT ![b] = IF Full(b) THEN RetryAfter(b) ELSE 0]
      /\ ask' = [ask EXCEPT ![r] = IF Full(b) \/ rest = <<>> THEN NoAsk
                                   ELSE [@ EXCEPT !.rest = rest]]
      /\ UNCHANGED backend
  BY <1>16, Zenon DEF Check
<1>3. PICK old \in [phase : {"asking"}, rest : Seq(Buckets) \ {<<>>}] : old = ask[r]
  BY <1>1, <1>2 DEF LimitsTypeOK, NoAsk
<1>4. b \in Buckets /\ rest \in Seq(Buckets)
  <2>1. old.rest \in Seq(Buckets) /\ old.rest # <<>>
    OBVIOUS
  <2>2. Head(old.rest) \in Buckets /\ Tail(old.rest) \in Seq(Buckets)
    BY <2>1
  <2> QED BY <1>3, <2>2
<1>5. (IF Full(b) \/ rest = <<>> THEN NoAsk ELSE [ask[r] EXCEPT !.rest = rest])
          \in {NoAsk} \cup [phase : {"asking"}, rest : Seq(Buckets) \ {<<>>}]
  <2>1. CASE Full(b) \/ rest = <<>>
    BY <2>1
  <2>2. CASE ~(Full(b) \/ rest = <<>>)
    <3> HIDE DEF b, rest
    <3>1. [old EXCEPT !.rest = rest] \in [phase : {"asking"}, rest : Seq(Buckets) \ {<<>>}]
      BY <1>4, <2>2
    <3> QED BY <1>3, <2>2, <3>1
  <2> QED BY <2>1, <2>2
<1>6. /\ hits \in [Buckets -> Seq(Ages)] /\ admitted \in [Buckets -> Seq(Ages)]
      /\ quiet \in [Buckets -> 0..(Day + 1)] /\ backend \in {"memory", "redis"}
      /\ told \in [Buckets -> {0, Minute, Day}]
      /\ ask \in [Asks -> {NoAsk} \cup [phase : {"asking"}, rest : Seq(Buckets) \ {<<>>}]]
  BY <1>1 DEF LimitsTypeOK
<1>7. \E x, y : x = h /\ y = a
  OBVIOUS
<1>8. PICK x, y : x = h /\ y = a
  BY <1>7
<1> HIDE DEF b, rest
<1>9. /\ x \in Seq(Ages) /\ y \in Seq(Ages)
      /\ OldestFirst(x) /\ OldestFirst(y)
      /\ \A j \in 1..Len(y) : Latest(y, j) < Span(b) =>
            j <= Len(x) /\ Latest(x, j) <= Latest(y, j)
      /\ Spaced(y, PerMinute[b], Minute)
      /\ b \notin Coarse => Spaced(y, PerDay[b], Day)
  <2>1. \/ ~Full(b) /\ x = Append(Recent(b), 0) /\ y = Append(admitted[b], 0)
        \/ y = admitted[b] /\ x \in {Recent(b), Append(Recent(b), 0)}
    BY <1>8 DEF Counts
  <2> QED BY <1>4, <2>1, CheckWindow
<1> HIDE DEF h, a
<1>10. /\ hits' = [hits EXCEPT ![b] = x] /\ admitted' = [admitted EXCEPT ![b] = y]
  <2>1. hits' = [hits EXCEPT ![b] = x]
    BY <1>2, <1>8
  <2>2. CASE Full(b) \/ twin
    BY <1>2, <1>4, <1>6, <1>8, <2>2 DEF a
  <2>3. CASE ~(Full(b) \/ twin)
    BY <1>2, <1>4, <1>6, <1>8, <2>3 DEF a
  <2> QED BY <2>1, <2>2, <2>3
<1>11. 0 \in 0..(Day + 1)
  BY Spans
<1>12. LimitsTypeOK'
  <2>1. hits' \in [Buckets -> Seq(Ages)] /\ admitted' \in [Buckets -> Seq(Ages)]
    BY <1>4, <1>6, <1>9, <1>10
  <2>2. quiet' \in [Buckets -> 0..(Day + 1)]
    BY <1>2, <1>6, <1>11
  <2>3. ask' \in [Asks -> {NoAsk} \cup [phase : {"asking"}, rest : Seq(Buckets) \ {<<>>}]]
    BY <1>2, <1>5, <1>6
  <2>4. told' \in [Buckets -> {0, Minute, Day}]
    BY <1>2, <1>6 DEF RetryAfter
  <2> QED BY <1>2, <1>6, <2>1, <2>2, <2>3, <2>4 DEF LimitsTypeOK
<1>13. ASSUME NEW d \in Buckets PROVE WindowFits(d)'
  <2>1. CASE d = b
    <3>1. hits'[d] = x /\ admitted'[d] = y /\ quiet'[d] = 0
      BY <1>2, <1>4, <1>6, <1>10, <2>1
    <3>2. \A i \in DOMAIN x : x[i] >= 0
      <4>1. \A i \in DOMAIN x : x[i] \in Ages
        BY <1>9
      <4> QED BY <4>1, Spans DEF Ages
    <3> QED BY <1>9, <2>1, <3>1, <3>2 DEF WindowFits, Span
  <2>2. CASE d # b
    <3>1. hits'[d] = hits[d] /\ admitted'[d] = admitted[d] /\ quiet'[d] = quiet[d]
      BY <1>2, <1>6, <1>10, <2>2
    <3>2. WindowFits(d)
      BY DEF LimitsInv
    <3> QED BY <3>1, <3>2 DEF WindowFits, Span
  <2> QED BY <2>1, <2>2
<1> QED BY <1>12, <1>13 DEF LimitsInv

LEMMA TickKeeps ==
    ASSUME LimitsInv, LimitsTick
    PROVE  LimitsInv'
<1>1. /\ hits \in [Buckets -> Seq(Ages)] /\ admitted \in [Buckets -> Seq(Ages)]
      /\ quiet \in [Buckets -> 0..(Day + 1)] /\ backend \in {"memory", "redis"}
      /\ told \in [Buckets -> {0, Minute, Day}]
      /\ ask \in [Asks -> {NoAsk} \cup [phase : {"asking"}, rest : Seq(Buckets) \ {<<>>}]]
  BY DEF LimitsInv, LimitsTypeOK
<1>2. /\ hits' = [b \in Buckets |-> Aging(hits[b])]
      /\ admitted' = [b \in Buckets |-> Aging(admitted[b])]
      /\ quiet' = [b \in Buckets |-> IF quiet[b] <= Day THEN quiet[b] + 1 ELSE quiet[b]]
      /\ UNCHANGED <<backend, ask, told>>
  BY DEF LimitsTick
<1>3. ASSUME NEW b \in Buckets
      PROVE  /\ hits'[b] \in Seq(Ages) /\ admitted'[b] \in Seq(Ages)
             /\ quiet'[b] \in 0..(Day + 1)
             /\ WindowFits(b)'
  <2>1. /\ hits'[b] = Aging(hits[b]) /\ admitted'[b] = Aging(admitted[b])
        /\ quiet'[b] = IF quiet[b] <= Day THEN quiet[b] + 1 ELSE quiet[b]
    BY <1>2
  <2>2. PICK h, a, q : h = hits'[b] /\ a = admitted'[b] /\ q = quiet'[b]
    OBVIOUS
  <2>3. /\ h \in Seq(Ages) /\ a \in Seq(Ages) /\ q \in 1..(Day + 1)
        /\ OldestFirst(h) /\ OldestFirst(a)
        /\ \A i \in DOMAIN h : h[i] >= q
        /\ \A j \in 1..Len(a) : Latest(a, j) < Span(b) =>
              j <= Len(h) /\ Latest(h, j) <= Latest(a, j)
        /\ Spaced(a, PerMinute[b], Minute)
        /\ b \notin Coarse => Spaced(a, PerDay[b], Day)
    BY <2>1, <2>2, TickWindow
  <2>4. q \in 0..(Day + 1)
    BY <2>3, Spans
  <2>5. WindowFits(b)'
    BY <2>2, <2>3 DEF WindowFits, Span
  <2> QED BY <2>2, <2>3, <2>4, <2>5
<1>4. LimitsTypeOK'
  BY <1>1, <1>2, <1>3 DEF LimitsTypeOK
<1> QED BY <1>3, <1>4 DEF LimitsInv

(* The windows' inductive invariant: in every reachable state every window  *)
(* remembers all it needs to keep its limits.                               *)
THEOREM LimitsInvHolds == LimitsSpec => []LimitsInv
<1>1. LimitsInv /\ [LimitsNext]_limitVars => LimitsInv'
  <2> SUFFICES ASSUME LimitsInv, [LimitsNext]_limitVars PROVE LimitsInv'
    OBVIOUS
  <2>1. CASE \E r \in Asks, chain \in Chains : StartAsk(r, chain)
    BY <2>1, StartKeeps
  <2>2. CASE \E r \in Asks : Check(r)
    BY <2>2, CheckKeeps
  <2>3. CASE LimitsTick
    BY <2>3, TickKeeps
  <2>4. CASE UNCHANGED limitVars
    BY <2>4 DEF limitVars, LimitsInv, LimitsTypeOK, WindowFits, Span
  <2> QED BY <2>1, <2>2, <2>3, <2>4 DEF LimitsNext
<1> QED BY <1>1, InitLimits, PTL DEF LimitsSpec

(* Well-typed windows, in every reachable state. *)
THEOREM LimitsTypesCorrect == LimitsSpec => []LimitsTypeOK
<1>1. LimitsInv => LimitsTypeOK
  BY DEF LimitsInv
<1> QED BY <1>1, LimitsInvHolds, PTL

LEMMA InvKeepsLimits == LimitsInv => LimitsHold
<1> SUFFICES ASSUME LimitsInv, NEW b \in Buckets
             PROVE  /\ Passed(b, Minute) <= PerMinute[b]
                    /\ b \notin Coarse => Passed(b, Day) <= PerDay[b]
  BY DEF LimitsHold
<1>1. /\ admitted[b] \in Seq(Ages) /\ OldestFirst(admitted[b])
      /\ Spaced(admitted[b], PerMinute[b], Minute)
      /\ b \notin Coarse => Spaced(admitted[b], PerDay[b], Day)
  BY DEF LimitsInv, LimitsTypeOK, WindowFits
<1>2. PICK c \in Nat : c = Len(admitted[b]) /\ DOMAIN admitted[b] = 1..c
  BY <1>1
<1>3. \A i \in 1..c : admitted[b][i] \in Nat
  <2>1. \A i \in 1..c : admitted[b][i] \in Ages
    BY <1>1, <1>2
  <2> QED BY <2>1, Spans DEF Ages
<1>4. ASSUME NEW n \in Nat \ {0}, NEW span \in Nat, Spaced(admitted[b], n, span)
      PROVE  Passed(b, span) <= n
  <2> DEFINE P == {i \in DOMAIN admitted[b] : admitted[b][i] < span}
             I == (c - n + 1)..c
  <2>1. P \subseteq I
    <3> SUFFICES ASSUME NEW i \in 1..c, admitted[b][i] < span, i <= c - n PROVE FALSE
      BY <1>2
    <3>1. c > n /\ c - n \in 1..c
      OBVIOUS
    <3>2. admitted[b][c - n] >= span
      BY <1>2, <1>4, <3>1 DEF Spaced
    <3>3. admitted[b][i] >= admitted[b][c - n]
      BY <1>1, <1>2, <3>1 DEF OldestFirst
    <3> QED BY <1>3, <3>1, <3>2, <3>3
  <2>2. IsFiniteSet(I) /\ Cardinality(I) = n
    BY FS_Interval
  <2>3. Cardinality(P) <= Cardinality(I)
    BY <2>1, <2>2, FS_Subset
  <2> QED BY <2>2, <2>3 DEF Passed
<1> QED BY <1>1, <1>4, Spans

(* A bucket left alone for longer than it asked for has a full day at most, *)
(* and not if it asked for a day.                                           *)
LEMMA PatienceHelps ==
    ASSUME LimitsInv, NEW b \in Buckets, told[b] # 0, quiet[b] > told[b], Full(b)
    PROVE  told[b] = Minute /\ RetryAfter(b) = Day /\ b \notin Coarse
<1>1. /\ hits[b] \in Seq(Ages) /\ quiet[b] \in 0..(Day + 1) /\ backend \in {"memory", "redis"}
      /\ \A i \in DOMAIN hits[b] : hits[b][i] >= quiet[b]
      /\ told[b] \in {Minute, Day}
  BY DEF LimitsInv, LimitsTypeOK, WindowFits
<1>2. PICK n \in Nat : DOMAIN hits[b] = 1..n
  BY <1>1
<1>3. \A i \in 1..n : hits[b][i] \in 0..Day
  <2>1. \A i \in 1..n : hits[b][i] \in Ages
    BY <1>1, <1>2
  <2> QED BY <2>1 DEF Ages
<1>4. ASSUME NEW span \in {Minute, Day}, quiet[b] > span
      PROVE  Counted(b, span) = 0
  <2>1. ASSUME NEW i \in 1..n PROVE ~Within(hits[b][i], span)
    <3>1. PICK x \in 0..Day : x = hits[b][i]
      BY <1>3
    <3>2. PICK q \in Nat : q = quiet[b] /\ q > span
      BY <1>1, <1>4, Spans
    <3>3. x >= q /\ span \in Nat
      BY <1>1, <1>2, <3>1, <3>2, Spans
    <3>4. x > span
      BY <3>2, <3>3
    <3> QED BY <3>1, <3>4, Spans DEF Within
  <2> QED BY <1>2, <2>1, NoneCounted
<1>5. quiet[b] > Minute
  BY <1>1, Spans
<1>6. Counted(b, Minute) = 0
  BY <1>4, <1>5
<1>7. PerMinute[b] \in Nat \ {0} /\ PerDay[b] \in Nat \ {0}
  BY Spans
<1>8. b \notin Coarse /\ Counted(b, Day) >= PerDay[b] /\ ~(Counted(b, Minute) >= PerMinute[b])
  BY <1>6, <1>7 DEF Full
<1>9. told[b] # Day
  <2> SUFFICES ASSUME quiet[b] > Day PROVE FALSE
    OBVIOUS
  <2>1. Counted(b, Day) = 0
    BY <1>4
  <2> QED BY <1>7, <1>8, <2>1
<1> QED BY <1>1, <1>8, <1>9 DEF RetryAfter

LEMMA StepIsPatient ==
    ASSUME LimitsInv, [LimitsNext]_limitVars, NEW b \in Buckets,
           told[b] # 0, quiet[b] > told[b], quiet'[b] = 0
    PROVE  \/ told'[b] = 0
           \/ told[b] = Minute /\ told'[b] = Day /\ b \notin Coarse
<1>1. /\ quiet \in [Buckets -> 0..(Day + 1)] /\ told \in [Buckets -> {0, Minute, Day}]
      /\ ask \in [Asks -> {NoAsk} \cup [phase : {"asking"}, rest : Seq(Buckets) \ {<<>>}]]
  BY DEF LimitsInv, LimitsTypeOK
<1>2. quiet[b] \in Nat /\ quiet[b] # 0
  BY <1>1, Spans
<1>3. quiet'[b] # quiet[b]
  BY <1>2
<1>4. ~LimitsTick
  <2> SUFFICES ASSUME LimitsTick PROVE FALSE
    OBVIOUS
  <2>1. quiet'[b] = IF quiet[b] <= Day THEN quiet[b] + 1 ELSE quiet[b]
    BY DEF LimitsTick
  <2> QED BY <1>2, <2>1
<1>5. PICK r \in Asks : Check(r)
  BY <1>3, <1>4 DEF LimitsNext, limitVars, StartAsk
<1> DEFINE d == Head(ask[r].rest)
<1>6. /\ quiet' = [quiet EXCEPT ![d] = 0]
      /\ told' = [told EXCEPT ![d] = IF Full(d) THEN RetryAfter(d) ELSE 0]
  BY <1>5, Zenon DEF Check
<1>7. d = b
  BY <1>1, <1>3, <1>6
<1>8. told'[b] = IF Full(b) THEN RetryAfter(b) ELSE 0
  BY <1>1, <1>6, <1>7
<1> QED BY <1>8, PatienceHelps

(* "Retry-After" and the limits, for every number of windows, requests and  *)
(* ticks: neither store lets requests pass at more instants of any minute   *)
(* or any day than its limits say, and it lets in whoever has waited as     *)
(* long as it told him, unless it told him a minute and the day is used up. *)
THEOREM WindowsAreExact == LimitsSpec => WindowsExact
<1>1. LimitsInv => LimitsHold
  BY InvKeepsLimits
<1>2. LimitsInv /\ [LimitsNext]_limitVars =>
          [\A b \in Buckets :
              told[b] # 0 /\ quiet[b] > told[b] /\ quiet'[b] = 0
                  => \/ told'[b] = 0
                     \/ told[b] = Minute /\ told'[b] = Day /\ b \notin Coarse]_limitVars
  BY StepIsPatient
<1> QED BY <1>1, <1>2, LimitsInvHolds, PTL DEF LimitsSpec, WindowsExact, PatientAdmitted

-------------------------------------------------------------------------------
(* Sums of sequences of numbers. *)

(* f sums up a from its first entry on. *)
Sums(f, a) == f = [i \in 0..Len(a) |-> IF i = 0 THEN 0 ELSE f[i - 1] + a[i]]

LEMMA SumsExist ==
    ASSUME NEW a \in Seq(Nat)
    PROVE  \E f : Sums(f, a)
<1>1. PICK n \in Nat : n = Len(a)
  OBVIOUS
<1> DEFINE Upto(f, m) == f = [i \in 0..m |-> IF i = 0 THEN 0 ELSE f[i - 1] + a[i]]
           X == {m \in Nat : ~\E f : Upto(f, m)}
<1>2. X = {}
  <2> SUFFICES ASSUME X # {} PROVE FALSE
    OBVIOUS
  <2>1. PICK u \in X : \A x \in X : u <= x
    <3>1. X \subseteq Nat
      OBVIOUS
    <3> QED BY <3>1, SomeLeast
  <2>2. u # 0
    <3> SUFFICES \E f : Upto(f, 0)
      OBVIOUS
    <3>1. Upto([i \in 0..0 |-> 0], 0)
      OBVIOUS
    <3> QED BY <3>1
  <2>3. u - 1 \in Nat /\ u \in Nat
    BY <2>2
  <2>9. u - 1 \notin X
    <3> HIDE DEF X
    <3> QED BY <2>1, <2>3
  <2>4. PICK f : Upto(f, u - 1)
    BY <2>3, <2>9
  <2> DEFINE g == [i \in 0..u |-> IF i = 0 THEN 0 ELSE f[i - 1] + a[i]]
  <2>5. \A i \in 0..(u - 1) : g[i] = f[i]
    BY <2>3, <2>4
  <2>6. \A i \in 0..u : g[i] = IF i = 0 THEN 0 ELSE g[i - 1] + a[i]
    <3> SUFFICES ASSUME NEW i \in 0..u, i # 0 PROVE g[i] = g[i - 1] + a[i]
      BY <2>3
    <3>1. i - 1 \in 0..(u - 1)
      BY <2>3
    <3>2. g[i] = f[i - 1] + a[i]
      OBVIOUS
    <3> HIDE DEF g
    <3> QED BY <2>5, <3>1, <3>2
  <2>7. g = [i \in 0..u |-> g[i]]
    OBVIOUS
  <2> HIDE DEF g
  <2>8. Upto(g, u)
    BY <2>6, <2>7
  <2> QED BY <2>1, <2>8
<1>3. PICK f : Upto(f, n)
  BY <1>1, <1>2
<1>4. Sums(f, a)
  BY <1>1, <1>3 DEF Sums
<1> QED BY <1>4

(* Total is what such a function has summed up at the end. *)
LEMMA TotalSums ==
    ASSUME NEW a \in Seq(Nat)
    PROVE  \E f : Sums(f, a) /\ Total(a) = f[Len(a)]
<1> DEFINE g == CHOOSE f : Sums(f, a)
<1>1. Sums(g, a)
  BY SumsExist
<1>2. Total(a) = g[Len(a)]
  BY DEF Total, Sums
<1> QED BY <1>1, <1>2

(* f, from d on, and g start with the same number and add the same ones.    *)
Alike(f, d, g, n, a) ==
    /\ f[d] = g[0]
    /\ \A i \in 1..n : f[i + d] = f[(i + d) - 1] + a[i] /\ g[i] = g[i - 1] + a[i]

LEMMA SameSums ==
    ASSUME NEW f, NEW g, NEW n \in Nat, NEW d \in Nat, NEW a, Alike(f, d, g, n, a)
    PROVE  \A i \in 0..n : f[i + d] = g[i]
<1> DEFINE X == {i \in 0..n : f[i + d] # g[i]}
<1> SUFFICES ASSUME X # {} PROVE FALSE
  OBVIOUS
<1>1. PICK u \in X : \A x \in X : u <= x
  <2>1. X \subseteq Nat
    OBVIOUS
  <2> QED BY <2>1, SomeLeast
<1>2. u \in 0..n /\ f[u + d] # g[u]
  OBVIOUS
<1>3. u # 0
  <2> SUFFICES ASSUME u = 0 PROVE FALSE
    OBVIOUS
  <2>1. u + d = d
    OBVIOUS
  <2>2. f[u + d] = f[d] /\ g[u] = g[0]
    BY <2>1
  <2> QED BY <1>2, <2>2 DEF Alike
<1>4. u \in 1..n /\ u - 1 \in 0..n /\ ~(u <= u - 1) /\ (u + d) - 1 = (u - 1) + d
  BY <1>2, <1>3
<1>5. u - 1 \notin X
  <2> HIDE DEF X
  <2> QED BY <1>1, <1>4
<1>6. f[(u - 1) + d] = g[u - 1]
  BY <1>4, <1>5
<1>7. f[(u + d) - 1] = g[u - 1]
  BY <1>4, <1>6
<1>8. f[u + d] = f[(u + d) - 1] + a[u] /\ g[u] = g[u - 1] + a[u]
  BY <1>4 DEF Alike
<1> QED BY <1>2, <1>7, <1>8

(* What has been summed up before anything was added is nothing. *)
LEMMA SumsStart ==
    ASSUME NEW f, NEW d \in Nat, f[0] = 0, \A i \in 1..d : f[i] = f[i - 1] + 0
    PROVE  f[d] = 0
<1> DEFINE g == [i \in 0..d |-> 0]
           a == [i \in 1..d |-> 0]
<1>1. f[0] = g[0]
  OBVIOUS
<1>2. \A i \in 1..d : f[i + 0] = f[(i + 0) - 1] + a[i] /\ g[i] = g[i - 1] + a[i]
  <2> SUFFICES ASSUME NEW i \in 1..d
               PROVE  f[i + 0] = f[(i + 0) - 1] + a[i] /\ g[i] = g[i - 1] + a[i]
    OBVIOUS
  <2>1. i + 0 = i /\ (i + 0) - 1 = i - 1 /\ i - 1 \in 0..d /\ i \in 0..d
    OBVIOUS
  <2>2. g[i] = 0 /\ g[i - 1] = 0 /\ a[i] = 0 /\ 0 + 0 = 0
    BY <2>1
  <2> HIDE DEF g, a
  <2>3. f[i + 0] = f[i] /\ f[(i + 0) - 1] = f[i - 1]
    BY <2>1
  <2> QED BY <2>2, <2>3
<1>3. g[d] = 0 /\ d + 0 = d /\ d \in 0..d /\ 0 \in Nat
  OBVIOUS
<1> HIDE DEF g, a
<1>4. \A i \in 0..d : f[i + 0] = g[i]
  <2>1. Alike(f, 0, g, d, a)
    BY <1>1, <1>2 DEF Alike
  <2> QED BY <1>3, <2>1, SameSums
<1>5. f[d + 0] = g[d]
  BY <1>3, <1>4
<1> QED BY <1>3, <1>5

(* One number more. *)
LEMMA TotalAppend ==
    ASSUME NEW a \in Seq(Nat), NEW x \in Nat
    PROVE  Total(Append(a, x)) = Total(a) + x
<1>1. PICK n \in Nat : n = Len(a) /\ DOMAIN a = 1..n
  OBVIOUS
<1> DEFINE b == Append(a, x)
<1>2. /\ b \in Seq(Nat) /\ Len(b) = n + 1
      /\ (\A i \in 1..n : b[i] = a[i]) /\ b[n + 1] = x
  BY <1>1, AppendProperties
<1> HIDE DEF b
<1>3. PICK f : Sums(f, a) /\ Total(a) = f[n]
  BY <1>1, TotalSums
<1>4. PICK g : Sums(g, b) /\ Total(b) = g[n + 1]
  BY <1>2, TotalSums
<1>5. f[0] = 0 /\ \A i \in 1..n : f[i] = f[i - 1] + a[i]
  <2>1. f = [i \in 0..n |-> IF i = 0 THEN 0 ELSE f[i - 1] + a[i]]
    BY <1>1, <1>3 DEF Sums
  <2> QED BY <2>1
<1>6. g[0] = 0 /\ \A i \in 1..(n + 1) : g[i] = g[i - 1] + b[i]
  <2>1. g = [i \in 0..(n + 1) |-> IF i = 0 THEN 0 ELSE g[i - 1] + b[i]]
    BY <1>2, <1>4 DEF Sums
  <2> QED BY <2>1
<1>7. \A i \in 1..n : g[i + 0] = g[(i + 0) - 1] + a[i] /\ f[i] = f[i - 1] + a[i]
  <2> SUFFICES ASSUME NEW i \in 1..n
               PROVE  g[i + 0] = g[(i + 0) - 1] + a[i] /\ f[i] = f[i - 1] + a[i]
    OBVIOUS
  <2>1. i + 0 = i /\ (i + 0) - 1 = i - 1 /\ i \in 1..(n + 1)
    OBVIOUS
  <2>2. g[i] = g[i - 1] + a[i]
    BY <1>2, <1>6, <2>1
  <2> QED BY <1>5, <2>1, <2>2
<1>8. g[0] = f[0] /\ 0 \in Nat
  BY <1>5, <1>6
<1>9. \A i \in 0..n : g[i + 0] = f[i]
  <2>1. Alike(g, 0, f, n, a)
    BY <1>7, <1>8 DEF Alike
  <2> QED BY <1>8, <2>1, SameSums
<1>10. n \in 0..n /\ n + 0 = n /\ n + 1 \in 1..(n + 1) /\ (n + 1) - 1 = n
  OBVIOUS
<1>11. g[n] = f[n]
  BY <1>9, <1>10
<1>12. g[n + 1] = g[n] + x
  <2>1. g[n + 1] = g[(n + 1) - 1] + b[n + 1]
    BY <1>6, <1>10
  <2> QED BY <1>2, <1>10, <2>1
<1> QED BY <1>3, <1>4, <1>11, <1>12 DEF b

(* Without leading noughts. *)
LEMMA TotalDropped ==
    ASSUME NEW a \in Seq(Nat), NEW b \in Seq(Nat), NEW d \in Nat, AllBut(b, a, d),
           \A i \in 1..d : a[i] = 0
    PROVE  Total(b) = Total(a)
<1>1. PICK n \in Nat, m \in Nat : n = Len(a) /\ m = Len(b)
  OBVIOUS
<1>2. n = m + d /\ \A i \in 1..m : b[i] = a[i + d]
  BY <1>1 DEF AllBut
<1>3. PICK f : Sums(f, a) /\ Total(a) = f[n]
  BY <1>1, TotalSums
<1>4. PICK g : Sums(g, b) /\ Total(b) = g[m]
  BY <1>1, TotalSums
<1>5. f[0] = 0 /\ \A i \in 1..n : f[i] = f[i - 1] + a[i]
  <2>1. f = [i \in 0..n |-> IF i = 0 THEN 0 ELSE f[i - 1] + a[i]]
    BY <1>1, <1>3 DEF Sums
  <2> QED BY <2>1
<1>6. g[0] = 0 /\ \A i \in 1..m : g[i] = g[i - 1] + b[i]
  <2>1. g = [i \in 0..m |-> IF i = 0 THEN 0 ELSE g[i - 1] + b[i]]
    BY <1>1, <1>4 DEF Sums
  <2> QED BY <2>1
<1>7. \A i \in 1..d : f[i] = f[i - 1] + 0
  <2> TAKE i \in 1..d
  <2>1. i \in 1..n
    BY <1>2
  <2>2. f[i] = f[i - 1] + a[i] /\ a[i] = 0
    BY <1>5, <2>1
  <2> QED BY <2>2
<1>8. f[d] = 0
  BY <1>5, <1>7, SumsStart
<1>9. \A i \in 1..m : f[i + d] = f[(i + d) - 1] + b[i] /\ g[i] = g[i - 1] + b[i]
  <2> SUFFICES ASSUME NEW i \in 1..m
               PROVE  f[i + d] = f[(i + d) - 1] + b[i] /\ g[i] = g[i - 1] + b[i]
    OBVIOUS
  <2>1. i + d \in 1..n
    BY <1>2
  <2>2. f[i + d] = f[(i + d) - 1] + a[i + d] /\ b[i] = a[i + d]
    BY <1>2, <1>5, <2>1
  <2> QED BY <1>6, <2>2
<1>10. \A i \in 0..m : f[i + d] = g[i]
  <2>1. Alike(f, d, g, m, b)
    BY <1>6, <1>8, <1>9 DEF Alike
  <2> QED BY <2>1, SameSums
<1>11. m \in 0..m /\ m + d = n
  BY <1>2
<1>12. f[m + d] = g[m]
  BY <1>10, <1>11
<1> QED BY <1>3, <1>4, <1>11, <1>12

LEMMA TotalTyped == ASSUME NEW a \in Seq(Nat) PROVE Total(a) \in Nat
<1>1. PICK n \in Nat : n = Len(a) /\ DOMAIN a = 1..n
  OBVIOUS
<1>2. PICK f : Sums(f, a) /\ Total(a) = f[n]
  BY <1>1, TotalSums
<1>3. f[0] = 0 /\ \A i \in 1..n : f[i] = f[i - 1] + a[i]
  <2>1. f = [i \in 0..n |-> IF i = 0 THEN 0 ELSE f[i - 1] + a[i]]
    BY <1>1, <1>2 DEF Sums
  <2> QED BY <2>1
<1> DEFINE X == {i \in 0..n : f[i] \notin Nat}
<1>4. X = {}
  <2> SUFFICES ASSUME X # {} PROVE FALSE
    OBVIOUS
  <2>1. PICK u \in X : \A x \in X : u <= x
    <3>1. X \subseteq Nat
      OBVIOUS
    <3> QED BY <3>1, SomeLeast
  <2>2. u \in 1..n /\ u - 1 \in 0..n /\ ~(u <= u - 1) /\ f[u] \notin Nat
    BY <1>3
  <2>3. u - 1 \notin X
    <3> HIDE DEF X
    <3> QED BY <2>1, <2>2
  <2>4. f[u - 1] \in Nat
    BY <2>2, <2>3
  <2>5. a[u] \in Nat
    BY <1>1, <2>2
  <2>6. f[u] = f[u - 1] + a[u]
    BY <1>3, <2>2
  <2> QED BY <2>2, <2>4, <2>5, <2>6
<1>5. n \in 0..n
  OBVIOUS
<1> QED BY <1>2, <1>4, <1>5
-------------------------------------------------------------------------------
(* What the windows of a key hold of everything its worker has seen. *)
RequestEntries == [age : Nat]
TokenEntries == [age : Nat, n : Nat]
IpEntries == [age : Nat, ip : Ips]
PromptEntries == [age : Nat, prompt : Prompts]

AsRequest == [e \in Events |-> [age |-> e.age]]
AsCost == [e \in Events |-> [age |-> e.age, n |-> e.tokens]]
AsIp == [e \in Events |-> [age |-> e.age, ip |-> e.ip]]
AsPrompt == [e \in Events |-> [age |-> e.age, prompt |-> e.prompt]]
Through(f, all) == [i \in DOMAIN all |-> f[all[i]]]

InOrder(entries) == \A i, j \in DOMAIN entries : i <= j => entries[i].age >= entries[j].age

(* The entries are the last ones of a list, whose others are too old. *)
Trails(entries, list, span) ==
    \E d \in 0..Len(list) : AllBut(entries, list, d) /\ \A i \in 1..d : list[i].age > span

(* What the entries no older than c amount to. *)
Newer(entries, c) == [i \in DOMAIN entries |-> IF entries[i].age <= c THEN entries[i].n ELSE 0]

(* The verdicts are the last of all, as many as the window has room for. *)
LastVerdicts(verdicts, all) ==
    /\ verdicts \in Seq(BOOLEAN)
    /\ Len(verdicts) = IF Len(all) <= BlockedWindow THEN Len(all) ELSE BlockedWindow
    /\ \A i \in 1..Len(verdicts) : verdicts[i] = all[i + (Len(all) - Len(verdicts))].blocked

(* A token window has no entries for what cost nothing, so that its entries *)
(* are no end of what was seen, but amount to as much up to every age.      *)
TokensFollow(tokens, all) ==
    /\ tokens \in Seq(TokenEntries) /\ InOrder(tokens)
    /\ \A c \in -1..FiveMinutes : Total(Newer(tokens, c)) = Total(Newer(Through(AsCost, all), c))

WindowsFollow(win, all) ==
    /\ all \in Seq(Events) /\ InOrder(all)
    /\ win.requests \in Seq(RequestEntries) /\ Trails(win.requests, Through(AsRequest, all), RpmWindow)
    /\ win.ips \in Seq(IpEntries) /\ Trails(win.ips, Through(AsIp, all), IpWindow)
    /\ win.prompts \in Seq(PromptEntries) /\ Trails(win.prompts, Through(AsPrompt, all), FiveMinutes)
    /\ TokensFollow(win.tokens, all)
    /\ LastVerdicts(win.verdicts, all)

-------------------------------------------------------------------------------
(* Ages. *)
Oldest == Max({RpmWindow, FiveMinutes, IpWindow})
Aged(e) == [e EXCEPT !.age = IF @ > Oldest THEN @ ELSE @ + 1]

(* The entries of a kind have an age, which grows without touching the rest. *)
AgeWell(S) ==
    \A e \in S : /\ e.age \in Nat /\ Aged(e) \in S
                 /\ Aged(e).age = IF e.age > Oldest THEN e.age ELSE e.age + 1

LEMMA SpansTyped ==
    /\ RpmWindow \in Nat /\ FiveMinutes \in Nat /\ IpWindow \in Nat /\ Oldest \in Nat
    /\ RpmWindow <= Oldest /\ FiveMinutes <= Oldest /\ IpWindow <= Oldest
<1>1. RpmWindow \in Nat /\ FiveMinutes \in Nat /\ IpWindow \in Nat
  BY WindowsAssumption
<1>2. \A a, b, c \in Nat : \E x \in {a, b, c} : \A y \in {a, b, c} : x >= y
  <2> TAKE a, b, c \in Nat
  <2>1. (a >= b /\ a >= c) \/ (b >= a /\ b >= c) \/ (c >= a /\ c >= b)
    OBVIOUS
  <2> QED BY <2>1
<1> DEFINE S == {RpmWindow, FiveMinutes, IpWindow}
<1>3. \E x \in S : \A y \in S : x >= y
  BY <1>1, <1>2
<1>4. Oldest \in S /\ \A y \in S : Oldest >= y
  BY <1>3 DEF Oldest, Max
<1> QED BY <1>1, <1>4

LEMMA KindsAge ==
    AgeWell(Events) /\ AgeWell(RequestEntries) /\ AgeWell(TokenEntries) /\ AgeWell(IpEntries) /\ AgeWell(PromptEntries)
<1>1. \A n \in Nat : (IF n > Oldest THEN n ELSE n + 1) \in Nat
  BY SpansTyped
<1>2. AgeWell(Events)
  BY <1>1 DEF AgeWell, Aged, Events
<1>3. AgeWell(RequestEntries)
  BY <1>1 DEF AgeWell, Aged, RequestEntries
<1>4. AgeWell(TokenEntries)
  BY <1>1 DEF AgeWell, Aged, TokenEntries
<1>5. AgeWell(IpEntries)
  BY <1>1 DEF AgeWell, Aged, IpEntries
<1>6. AgeWell(PromptEntries)
  BY <1>1 DEF AgeWell, Aged, PromptEntries
<1> QED BY <1>2, <1>3, <1>4, <1>5, <1>6

(* What an event is to a window: entries of kind S that age as it does. *)
Shows(f, S) == \A e \in Events : f[e] \in S /\ f[e].age = e.age /\ f[Aged(e)] = Aged(f[e])

LEMMA KindsShow ==
    /\ Shows(AsRequest, RequestEntries) /\ Shows(AsCost, TokenEntries)
    /\ Shows(AsIp, IpEntries) /\ Shows(AsPrompt, PromptEntries)
<1> SUFFICES ASSUME NEW e \in Events
             PROVE  /\ AsRequest[e] \in RequestEntries /\ AsRequest[e].age = e.age
                    /\ AsRequest[Aged(e)] = Aged(AsRequest[e])
                    /\ AsCost[e] \in TokenEntries /\ AsCost[e].age = e.age
                    /\ AsCost[Aged(e)] = Aged(AsCost[e])
                    /\ AsIp[e] \in IpEntries /\ AsIp[e].age = e.age
                    /\ AsIp[Aged(e)] = Aged(AsIp[e])
                    /\ AsPrompt[e] \in PromptEntries /\ AsPrompt[e].age = e.age
                    /\ AsPrompt[Aged(e)] = Aged(AsPrompt[e])
  BY DEF Shows
<1>1. PICK x : x = IF e.age > Oldest THEN e.age ELSE e.age + 1
  OBVIOUS
<1>2. /\ Aged(e) = [e EXCEPT !.age = x] /\ Aged(e) \in Events
      /\ e.age \in Nat /\ e.tokens \in Nat /\ e.ip \in Ips /\ e.prompt \in Prompts
  BY <1>1, KindsAge DEF Aged, AgeWell, Events
<1>3. /\ Aged(e).age = x /\ Aged(e).tokens = e.tokens
      /\ Aged(e).ip = e.ip /\ Aged(e).prompt = e.prompt
  BY <1>2 DEF Events
<1>4. /\ AsRequest[e] = [age |-> e.age] /\ AsRequest[Aged(e)] = [age |-> x]
      /\ AsCost[e] = [age |-> e.age, n |-> e.tokens] /\ AsCost[Aged(e)] = [age |-> x, n |-> e.tokens]
      /\ AsIp[e] = [age |-> e.age, ip |-> e.ip] /\ AsIp[Aged(e)] = [age |-> x, ip |-> e.ip]
      /\ AsPrompt[e] = [age |-> e.age, prompt |-> e.prompt]
      /\ AsPrompt[Aged(e)] = [age |-> x, prompt |-> e.prompt]
  BY <1>2, <1>3 DEF AsRequest, AsCost, AsIp, AsPrompt
<1>5. Aged(AsRequest[e]) = [age |-> x]
  BY <1>1, <1>4 DEF Aged
<1>6. Aged(AsCost[e]) = [age |-> x, n |-> e.tokens]
  BY <1>1, <1>4 DEF Aged
<1>7. Aged(AsIp[e]) = [age |-> x, ip |-> e.ip]
  BY <1>1, <1>4 DEF Aged
<1>8. Aged(AsPrompt[e]) = [age |-> x, prompt |-> e.prompt]
  BY <1>1, <1>4 DEF Aged
<1>9. /\ AsRequest[e] \in RequestEntries /\ AsCost[e] \in TokenEntries
      /\ AsIp[e] \in IpEntries /\ AsPrompt[e] \in PromptEntries
  BY <1>2, <1>4 DEF RequestEntries, TokenEntries, IpEntries, PromptEntries
<1> QED BY <1>4, <1>5, <1>6, <1>7, <1>8, <1>9

(* Older ages every entry. *)
LEMMA OlderAges ==
    ASSUME NEW S, AgeWell(S), NEW s \in Seq(S)
    PROVE  /\ Older(s) \in Seq(S) /\ Len(Older(s)) = Len(s)
           /\ \A i \in 1..Len(s) : Older(s)[i] = Aged(s[i])
<1>1. PICK n \in Nat : n = Len(s) /\ DOMAIN s = 1..n
  OBVIOUS
<1>2. Older(s) = [i \in 1..n |-> Aged(s[i])]
  BY <1>1 DEF Older, Aged, Oldest
<1>3. \A i \in 1..n : Aged(s[i]) \in S
  <2>1. s \in [1..n -> S]
    BY <1>1, LenProperties
  <2> QED BY <2>1 DEF AgeWell
<1> QED BY <1>1, <1>2, <1>3

LEMMA OlderInOrder ==
    ASSUME NEW S, AgeWell(S), NEW s \in Seq(S), InOrder(s)
    PROVE  InOrder(Older(s))
<1>1. PICK n \in Nat : n = Len(s) /\ DOMAIN s = 1..n
  OBVIOUS
<1>2. /\ Older(s) \in Seq(S) /\ Len(Older(s)) = n
      /\ \A i \in 1..n : Older(s)[i] = Aged(s[i])
  BY <1>1, OlderAges
<1>3. DOMAIN Older(s) = 1..n
  BY <1>2
<1>4. \A i \in 1..n : s[i].age \in Nat /\ Older(s)[i].age = IF s[i].age > Oldest THEN s[i].age ELSE s[i].age + 1
  <2>1. s \in [1..n -> S]
    BY <1>1, LenProperties
  <2> QED BY <1>2, <2>1 DEF AgeWell
<1>5. \A x, y \in Nat : x >= y => (IF x > Oldest THEN x ELSE x + 1) >= (IF y > Oldest THEN y ELSE y + 1)
  BY SpansTyped
<1> SUFFICES ASSUME NEW i \in 1..n, NEW j \in 1..n, i <= j PROVE Older(s)[i].age >= Older(s)[j].age
  BY <1>3 DEF InOrder
<1>6. s[i].age >= s[j].age
  BY <1>1 DEF InOrder
<1> QED BY <1>4, <1>5, <1>6

LEMMA AppendInOrder ==
    ASSUME NEW S, AgeWell(S), NEW s \in Seq(S), InOrder(s), NEW e \in S, e.age = 0
    PROVE  Append(s, e) \in Seq(S) /\ InOrder(Append(s, e))
<1>1. PICK n \in Nat : n = Len(s) /\ DOMAIN s = 1..n
  OBVIOUS
<1>2. \A i \in 1..n : s[i].age \in Nat
  <2>1. s \in [1..n -> S]
    BY <1>1, LenProperties
  <2> QED BY <2>1 DEF AgeWell
<1> DEFINE t == Append(s, e)
<1>3. /\ t \in Seq(S) /\ DOMAIN t = 1..(n + 1)
      /\ (\A i \in 1..n : t[i] = s[i]) /\ t[n + 1] = e
  BY <1>1, AppendProperties
<1> HIDE DEF t
<1>4. \A i, j \in 1..(n + 1) : i <= j => t[i].age >= t[j].age
  <2> SUFFICES ASSUME NEW i \in 1..(n + 1), NEW j \in 1..(n + 1), i <= j
               PROVE  t[i].age >= t[j].age
    OBVIOUS
  <2>1. CASE j = n + 1
    <3>1. t[j].age = 0
      BY <1>3, <2>1
    <3>2. i \in 1..n \/ i = n + 1
      OBVIOUS
    <3>3. t[i].age \in Nat
      BY <1>2, <1>3, <3>2
    <3> QED BY <3>1, <3>3
  <2>2. CASE j # n + 1
    <3>1. i \in 1..n /\ j \in 1..n
      BY <2>2
    <3>2. s[i].age >= s[j].age
      BY <1>1, <3>1 DEF InOrder
    <3> QED BY <1>3, <3>1, <3>2
  <2> QED BY <2>1, <2>2
<1> QED BY <1>3, <1>4 DEF t, InOrder

(* Fresh drops the entries that are too old, and no other. *)
LEMMA FreshEnds ==
    ASSUME NEW S, AgeWell(S), NEW s \in Seq(S), NEW span \in Nat
    PROVE  /\ Fresh(s, span) \in Seq(S)
           /\ \E d \in 0..Len(s) : /\ AllBut(Fresh(s, span), s, d)
                                   /\ \A i \in 1..d : s[i].age > span
                                   /\ d < Len(s) => s[d + 1].age <= span
<1>1. PICK n \in Nat : n = Len(s) /\ DOMAIN s = 1..n
  OBVIOUS
<1>2. \A i \in 1..n : s[i].age \in Nat
  <2>1. s \in [1..n -> S]
    BY <1>1, LenProperties
  <2> QED BY <2>1 DEF AgeWell
<1> DEFINE O == Outworn(s, span)
<1>3. O = {i \in 1..n : \A j \in 1..i : s[j].age > span}
  BY <1>1 DEF Outworn
<1>4. O \in SUBSET (1..n) /\ \A i \in O : \A j \in 1..i : j \in O
  <2> SUFFICES ASSUME NEW i \in O, NEW j \in 1..i PROVE j \in O
    BY <1>3
  <2>1. i \in 1..n /\ j \in 1..n /\ \A k \in 1..j : k \in 1..i
    BY <1>3
  <2> QED BY <1>3, <2>1
<1>5. PICK d \in 0..n : d = Cardinality(O) /\ O = 1..d
  <2> HIDE DEF O
  <2> QED BY <1>4, Prefix
<1>6. Fresh(s, span) = SubSeq(s, d + 1, Len(s))
  BY <1>5 DEF Fresh
<1>7. Fresh(s, span) \in Seq(S) /\ AllBut(Fresh(s, span), s, d)
  BY <1>1, <1>6, EndOf
<1>8. \A i \in 1..d : s[i].age > span
  <2> TAKE i \in 1..d
  <2>1. i \in O
    BY <1>5, Zenon
  <2>2. i \in 1..i
    OBVIOUS
  <2> HIDE DEF O
  <2> QED BY <1>3, <2>1, <2>2
<1>9. ASSUME d < n PROVE s[d + 1].age <= span
  <2>1. d + 1 \in 1..n /\ d + 1 \notin 1..d
    BY <1>9
  <2>2. d + 1 \notin O
    BY <1>5, <2>1
  <2>3. PICK j \in 1..(d + 1) : ~(s[j].age > span)
    BY <1>3, <2>1, <2>2
  <2>4. j \notin 1..d
    BY <1>8, <2>3
  <2>5. j = d + 1
    BY <2>4
  <2> QED BY <1>2, <2>1, <2>3, <2>5
<1> QED BY <1>1, <1>7, <1>8, <1>9

(* With the oldest in front nothing too old is left. *)
LEMMA FreshIsFresh ==
    ASSUME NEW S, AgeWell(S), NEW s \in Seq(S), NEW span \in Nat, InOrder(s)
    PROVE  InOrder(Fresh(s, span)) /\ \A i \in 1..Len(Fresh(s, span)) : Fresh(s, span)[i].age <= span
<1>1. PICK n \in Nat : n = Len(s) /\ DOMAIN s = 1..n
  OBVIOUS
<1>2. \A i \in 1..n : s[i].age \in Nat
  <2>1. s \in [1..n -> S]
    BY <1>1, LenProperties
  <2> QED BY <2>1 DEF AgeWell
<1>3. PICK t : t = Fresh(s, span)
  OBVIOUS
<1>4. t \in Seq(S)
  BY <1>3, FreshEnds
<1>5. PICK d \in 0..n : AllBut(t, s, d) /\ (d < n => s[d + 1].age <= span)
  BY <1>1, <1>3, FreshEnds
<1>6. PICK m \in Nat : m = Len(t) /\ DOMAIN t = 1..m
  BY <1>4
<1>7. n = m + d /\ \A i \in 1..m : t[i] = s[i + d]
  BY <1>1, <1>5, <1>6 DEF AllBut
<1>8. \A i, j \in 1..n : i <= j => s[i].age >= s[j].age
  BY <1>1 DEF InOrder
<1>9. \A i, j \in 1..m : i <= j => t[i].age >= t[j].age
  <2> SUFFICES ASSUME NEW i \in 1..m, NEW j \in 1..m, i <= j PROVE t[i].age >= t[j].age
    OBVIOUS
  <2>1. i + d \in 1..n /\ j + d \in 1..n /\ i + d <= j + d
    BY <1>7
  <2>2. s[i + d].age >= s[j + d].age
    BY <1>8, <2>1
  <2> QED BY <1>7, <2>2
<1>10. \A i \in 1..m : t[i].age <= span
  <2> SUFFICES ASSUME NEW i \in 1..m PROVE t[i].age <= span
    OBVIOUS
  <2>1. i + d \in 1..n /\ d + 1 \in 1..n /\ d + 1 <= i + d /\ d < n
    BY <1>7
  <2>2. s[d + 1].age >= s[i + d].age /\ s[d + 1].age <= span
    BY <1>5, <1>8, <2>1
  <2>3. s[i + d].age <= span
    BY <1>2, <2>1, <2>2
  <2> QED BY <1>7, <2>3
<1>11. InOrder(t)
  BY <1>6, <1>9 DEF InOrder
<1> QED BY <1>3, <1>6, <1>10, <1>11

LEMMA TrailsAppend ==
    ASSUME NEW S, NEW s \in Seq(S), NEW list \in Seq(S), NEW span, Trails(s, list, span), NEW e \in S
    PROVE  Trails(Append(s, e), Append(list, e), span)
<1>1. PICK d \in 0..Len(list) : AllBut(s, list, d) /\ \A i \in 1..d : list[i].age > span
  BY DEF Trails
<1>2. PICK n \in Nat, m \in Nat : n = Len(list) /\ m = Len(s)
  OBVIOUS
<1>3. n = m + d /\ \A i \in 1..m : s[i] = list[i + d]
  BY <1>1, <1>2 DEF AllBut
<1> DEFINE t == Append(s, e)
           all == Append(list, e)
<1>4. /\ Len(t) = m + 1 /\ (\A i \in 1..m : t[i] = s[i]) /\ t[m + 1] = e
      /\ Len(all) = n + 1 /\ (\A i \in 1..n : all[i] = list[i]) /\ all[n + 1] = e
  BY <1>2, AppendProperties
<1> HIDE DEF t, all
<1>5. \A i \in 1..(m + 1) : t[i] = all[i + d]
  <2> TAKE i \in 1..(m + 1)
  <2>1. CASE i = m + 1
    <3>1. i + d = n + 1
      BY <1>3, <2>1
    <3> QED BY <1>4, <2>1, <3>1
  <2>2. CASE i # m + 1
    <3>1. i \in 1..m /\ i + d \in 1..n
      BY <1>3, <2>2
    <3> QED BY <1>3, <1>4, <3>1
  <2> QED BY <2>1, <2>2
<1>6. \A i \in 1..d : all[i].age > span
  <2> TAKE i \in 1..d
  <2>1. i \in 1..n
    BY <1>3
  <2> QED BY <1>1, <1>4, <2>1
<1>7. d \in 0..Len(all) /\ AllBut(t, all, d)
  BY <1>3, <1>4, <1>5 DEF AllBut
<1>8. Trails(t, all, span)
  BY <1>6, <1>7 DEF Trails
<1> QED BY <1>8 DEF t, all

LEMMA TrailsFresh ==
    ASSUME NEW S, AgeWell(S), NEW s \in Seq(S), NEW list \in Seq(S), NEW span \in Nat, Trails(s, list, span)
    PROVE  Trails(Fresh(s, span), list, span)
<1>1. PICK d \in 0..Len(list) : AllBut(s, list, d) /\ \A i \in 1..d : list[i].age > span
  BY DEF Trails
<1>2. PICK n \in Nat, m \in Nat : n = Len(list) /\ m = Len(s)
  OBVIOUS
<1>3. n = m + d /\ \A i \in 1..m : s[i] = list[i + d]
  BY <1>1, <1>2 DEF AllBut
<1>4. PICK t : t = Fresh(s, span)
  OBVIOUS
<1>5. t \in Seq(S)
  BY <1>4, FreshEnds
<1>6. PICK c \in 0..m : AllBut(t, s, c) /\ \A i \in 1..c : s[i].age > span
  BY <1>2, <1>4, FreshEnds
<1>7. PICK l \in Nat : l = Len(t)
  BY <1>5
<1>8. m = l + c /\ \A i \in 1..l : t[i] = s[i + c]
  BY <1>2, <1>6, <1>7 DEF AllBut
<1>9. c + d \in 0..n /\ n = l + (c + d)
  BY <1>3, <1>8
<1>10. \A i \in 1..l : t[i] = list[i + (c + d)]
  <2> TAKE i \in 1..l
  <2>1. i + c \in 1..m /\ (i + c) + d = i + (c + d)
    BY <1>8
  <2>2. t[i] = s[i + c] /\ s[i + c] = list[(i + c) + d]
    BY <1>3, <1>8, <2>1
  <2> QED BY <2>1, <2>2
<1>11. \A i \in 1..(c + d) : list[i].age > span
  <2> TAKE i \in 1..(c + d)
  <2>1. CASE i \in 1..d
    BY <1>1, <2>1
  <2>2. CASE i \notin 1..d
    <3>1. i - d \in 1..c /\ i - d \in 1..m /\ (i - d) + d = i
      BY <1>8, <2>2
    <3>2. s[i - d].age > span /\ s[i - d] = list[(i - d) + d]
      BY <1>3, <1>6, <3>1
    <3> QED BY <3>1, <3>2
  <2> QED BY <2>1, <2>2
<1>12. AllBut(t, list, c + d)
  <2>1. n - (c + d) = l
    BY <1>9
  <2> QED BY <1>2, <1>7, <1>9, <1>10, <2>1 DEF AllBut
<1> QED BY <1>2, <1>4, <1>9, <1>11, <1>12 DEF Trails

LEMMA TrailsOlder ==
    ASSUME NEW S, AgeWell(S), NEW s \in Seq(S), NEW list \in Seq(S), NEW span \in Nat, Trails(s, list, span)
    PROVE  Trails(Older(s), Older(list), span)
<1>1. PICK d \in 0..Len(list) : AllBut(s, list, d) /\ \A i \in 1..d : list[i].age > span
  BY DEF Trails
<1>2. PICK n \in Nat, m \in Nat : n = Len(list) /\ m = Len(s)
  OBVIOUS
<1>3. n = m + d /\ \A i \in 1..m : s[i] = list[i + d]
  BY <1>1, <1>2 DEF AllBut
<1>4. /\ Len(Older(s)) = m /\ (\A i \in 1..m : Older(s)[i] = Aged(s[i]))
      /\ Len(Older(list)) = n /\ (\A i \in 1..n : Older(list)[i] = Aged(list[i]))
  BY <1>2, OlderAges
<1>5. \A i \in 1..m : Older(s)[i] = Older(list)[i + d]
  <2> TAKE i \in 1..m
  <2>1. i + d \in 1..n
    BY <1>3
  <2> QED BY <1>3, <1>4, <2>1
<1>6. \A i \in 1..d : Older(list)[i].age > span
  <2> TAKE i \in 1..d
  <2>1. i \in 1..n
    BY <1>3
  <2>2. list \in [1..n -> S]
    BY <1>2, LenProperties
  <2>3. /\ list[i].age \in Nat /\ list[i].age > span
        /\ Older(list)[i].age = IF list[i].age > Oldest THEN list[i].age ELSE list[i].age + 1
    BY <1>1, <1>4, <2>1, <2>2 DEF AgeWell
  <2> QED BY <2>3
<1>7. AllBut(Older(s), Older(list), d)
  BY <1>3, <1>4, <1>5 DEF AllBut
<1> QED BY <1>2, <1>3, <1>4, <1>6, <1>7 DEF Trails

(* What a window shows of a longer list of events, and of an older one. *)
LEMMA ThroughSteps ==
    ASSUME NEW S, NEW f, Shows(f, S), NEW all \in Seq(Events)
    PROVE  /\ Through(f, all) \in Seq(S) /\ Len(Through(f, all)) = Len(all)
           /\ \A i \in 1..Len(all) : Through(f, all)[i] = f[all[i]]
           /\ \A e \in Events : Through(f, Append(all, e)) = Append(Through(f, all), f[e])
           /\ AgeWell(S) => Through(f, Older(all)) = Older(Through(f, all))
<1>1. PICK n \in Nat : n = Len(all) /\ DOMAIN all = 1..n
  OBVIOUS
<1>2. all \in [1..n -> Events]
  BY <1>1, LenProperties
<1>3. Through(f, all) = [i \in 1..n |-> f[all[i]]]
  BY <1>1 DEF Through
<1>4. \A i \in 1..n : f[all[i]] \in S
  BY <1>2 DEF Shows
<1>5. Through(f, all) \in Seq(S) /\ Len(Through(f, all)) = n /\ DOMAIN Through(f, all) = 1..n
  BY <1>3, <1>4
<1>6. ASSUME NEW e \in Events
      PROVE  Through(f, Append(all, e)) = Append(Through(f, all), f[e])
  <2> DEFINE s == Append(all, e)
             t == Append(Through(f, all), f[e])
  <2>1. f[e] \in S
    BY DEF Shows
  <2>2. /\ DOMAIN s = 1..(n + 1) /\ (\A i \in 1..n : s[i] = all[i]) /\ s[n + 1] = e
    BY <1>1, AppendProperties
  <2>3. /\ t \in Seq(S) /\ DOMAIN t = 1..(n + 1)
        /\ (\A i \in 1..n : t[i] = Through(f, all)[i]) /\ t[n + 1] = f[e]
    BY <1>5, <2>1, AppendProperties
  <2>4. t = [i \in 1..(n + 1) |-> t[i]]
    BY <2>3
  <2> HIDE DEF s, t
  <2>5. \A i \in 1..(n + 1) : t[i] = f[s[i]]
    <3> TAKE i \in 1..(n + 1)
    <3>1. i \in 1..n \/ i = n + 1
      OBVIOUS
    <3> QED BY <1>3, <2>2, <2>3, <3>1
  <2>6. Through(f, s) = [i \in 1..(n + 1) |-> f[s[i]]]
    BY <2>2 DEF Through
  <2> QED BY <2>4, <2>5, <2>6 DEF s, t
<1>7. ASSUME AgeWell(S) PROVE Through(f, Older(all)) = Older(Through(f, all))
  <2> DEFINE s == Older(all)
             t == Older(Through(f, all))
  <2>1. /\ s \in Seq(Events) /\ Len(s) = n /\ \A i \in 1..n : s[i] = Aged(all[i])
    BY <1>1, KindsAge, OlderAges
  <2>2. /\ t \in Seq(S) /\ Len(t) = n /\ \A i \in 1..n : t[i] = Aged(Through(f, all)[i])
    BY <1>5, <1>7, OlderAges
  <2> HIDE DEF s, t
  <2>3. DOMAIN s = 1..n /\ t = [i \in 1..n |-> t[i]]
    BY <2>1, <2>2
  <2>4. \A i \in 1..n : t[i] = f[s[i]]
    BY <1>2, <1>3, <2>1, <2>2 DEF Shows
  <2>5. Through(f, s) = [i \in 1..n |-> f[s[i]]]
    BY <2>3 DEF Through
  <2> QED BY <2>3, <2>4, <2>5 DEF s, t
<1> QED BY <1>1, <1>3, <1>5, <1>6, <1>7

-------------------------------------------------------------------------------
(* The token window. *)

(* Two lists weighed alike, up to every age the window is asked about. *)
Cuts == -1..FiveMinutes
Weighs(s, c) == Total(Newer(s, c))

LEMMA NewerNumbers ==
    ASSUME NEW s \in Seq(TokenEntries), NEW c \in Cuts
    PROVE  /\ Newer(s, c) \in Seq(Nat) /\ Len(Newer(s, c)) = Len(s)
           /\ \A i \in 1..Len(s) : Newer(s, c)[i] = IF s[i].age <= c THEN s[i].n ELSE 0
<1>1. PICK n \in Nat : n = Len(s) /\ DOMAIN s = 1..n
  OBVIOUS
<1>2. \A i \in 1..n : s[i].n \in Nat
  <2>1. s \in [1..n -> TokenEntries]
    BY <1>1, LenProperties
  <2> QED BY <2>1 DEF TokenEntries
<1>3. Newer(s, c) = [i \in 1..n |-> IF s[i].age <= c THEN s[i].n ELSE 0]
  BY <1>1 DEF Newer
<1> QED BY <1>1, <1>2, <1>3

(* A new entry counts at every age. *)
LEMMA AppendWeighs ==
    ASSUME NEW s \in Seq(TokenEntries), NEW c \in Cuts, NEW e \in TokenEntries, e.age = 0
    PROVE  Weighs(Append(s, e), c) = Weighs(s, c) + (IF 0 <= c THEN e.n ELSE 0)
<1>1. PICK n \in Nat : n = Len(s)
  OBVIOUS
<1>2. PICK x \in Nat : x = IF 0 <= c THEN e.n ELSE 0
  BY DEF TokenEntries
<1> DEFINE t == Append(s, e)
           a == Newer(s, c)
           b == Newer(t, c)
           b2 == Append(a, x)
<1>3. /\ t \in Seq(TokenEntries) /\ Len(t) = n + 1
      /\ (\A i \in 1..n : t[i] = s[i]) /\ t[n + 1] = e
  BY <1>1, AppendProperties
<1>4. /\ a \in Seq(Nat) /\ Len(a) = n
      /\ \A i \in 1..n : a[i] = IF s[i].age <= c THEN s[i].n ELSE 0
  BY <1>1, NewerNumbers
<1> HIDE DEF t, a
<1>5. /\ b \in Seq(Nat) /\ Len(b) = n + 1
      /\ \A i \in 1..(n + 1) : b[i] = IF t[i].age <= c THEN t[i].n ELSE 0
  BY <1>3, NewerNumbers
<1>6. /\ b2 \in Seq(Nat) /\ Len(b2) = n + 1
      /\ (\A i \in 1..n : b2[i] = a[i]) /\ b2[n + 1] = x
  BY <1>4, AppendProperties
<1> HIDE DEF b, b2
<1>7. \A i \in 1..(n + 1) : b[i] = b2[i]
  <2> TAKE i \in 1..(n + 1)
  <2>1. CASE i = n + 1
    BY <1>2, <1>3, <1>5, <1>6, <2>1
  <2>2. CASE i # n + 1
    <3>1. i \in 1..n
      BY <2>2
    <3>2. b[i] = IF s[i].age <= c THEN s[i].n ELSE 0
      BY <1>3, <1>5, <3>1
    <3> QED BY <1>4, <1>6, <3>1, <3>2
  <2> QED BY <2>1, <2>2
<1>8. b = b2
  <2>1. b = [i \in 1..(n + 1) |-> b[i]] /\ b2 = [i \in 1..(n + 1) |-> b2[i]]
    BY <1>5, <1>6
  <2> QED BY <1>7, <2>1
<1>9. Total(b2) = Total(a) + x
  BY <1>4, TotalAppend DEF b2
<1>10. Weighs(t, c) = Weighs(s, c) + x
  BY <1>8, <1>9 DEF Weighs, a, b
<1> QED BY <1>2, <1>10 DEF t

(* What Fresh drops has no weight any more. *)
LEMMA FreshWeighs ==
    ASSUME NEW s \in Seq(TokenEntries), NEW c \in Cuts
    PROVE  Weighs(Fresh(s, FiveMinutes), c) = Weighs(s, c)
<1>1. PICK t : t = Fresh(s, FiveMinutes)
  OBVIOUS
<1>2. t \in Seq(TokenEntries)
  BY <1>1, FreshEnds, KindsAge, SpansTyped
<1>3. PICK n \in Nat, m \in Nat : n = Len(s) /\ m = Len(t)
  BY <1>2
<1>4. PICK d \in 0..n : AllBut(t, s, d) /\ \A i \in 1..d : s[i].age > FiveMinutes
  BY <1>1, <1>3, FreshEnds, KindsAge, SpansTyped
<1>5. n = m + d /\ \A i \in 1..m : t[i] = s[i + d]
  BY <1>3, <1>4 DEF AllBut
<1> DEFINE a == Newer(s, c)
           b == Newer(t, c)
<1>6. /\ a \in Seq(Nat) /\ Len(a) = n
      /\ \A i \in 1..n : a[i] = IF s[i].age <= c THEN s[i].n ELSE 0
  BY <1>3, NewerNumbers
<1>7. /\ b \in Seq(Nat) /\ Len(b) = m
      /\ \A i \in 1..m : b[i] = IF t[i].age <= c THEN t[i].n ELSE 0
  BY <1>2, <1>3, NewerNumbers
<1> HIDE DEF a, b
<1>8. \A i \in 1..m : b[i] = a[i + d]
  <2> TAKE i \in 1..m
  <2>1. i + d \in 1..n
    BY <1>5
  <2> QED BY <1>5, <1>6, <1>7, <2>1
<1>9. \A i \in 1..d : a[i] = 0
  <2> TAKE i \in 1..d
  <2>1. i \in 1..n
    BY <1>5
  <2>2. s[i].age \in Nat /\ s[i].age > FiveMinutes
    <3>1. s \in [1..n -> TokenEntries]
      BY <1>3, LenProperties
    <3> QED BY <1>4, <2>1, <3>1 DEF TokenEntries
  <2>3. ~(s[i].age <= c)
    BY <2>2, SpansTyped DEF Cuts
  <2> QED BY <1>6, <2>1, <2>3
<1>10. AllBut(b, a, d)
  <2>1. d \in 0..n /\ m = n - d
    BY <1>5
  <2> QED BY <1>6, <1>7, <1>8, <2>1 DEF AllBut
<1>11. Total(b) = Total(a)
  BY <1>6, <1>7, <1>9, <1>10, TotalDropped
<1> QED BY <1>1, <1>11 DEF Weighs, a, b

(* An older list weighs up to an age what it weighed up to the one before. *)
Before(c) == IF c = -1 THEN -1 ELSE c - 1

LEMMA OlderWeighs ==
    ASSUME NEW s \in Seq(TokenEntries), NEW c \in Cuts
    PROVE  Before(c) \in Cuts /\ Weighs(Older(s), c) = Weighs(s, Before(c))
<1>1. PICK n \in Nat : n = Len(s)
  OBVIOUS
<1>2. PICK t : t = Older(s)
  OBVIOUS
<1>3. t \in Seq(TokenEntries) /\ Len(t) = n /\ \A i \in 1..n : t[i] = Aged(s[i])
  BY <1>1, <1>2, KindsAge, OlderAges
<1>4. Before(c) \in Cuts
  BY SpansTyped DEF Before, Cuts
<1> DEFINE a == Newer(s, Before(c))
           b == Newer(t, c)
<1>5. /\ a \in Seq(Nat) /\ Len(a) = n
      /\ \A i \in 1..n : a[i] = IF s[i].age <= Before(c) THEN s[i].n ELSE 0
  BY <1>1, <1>4, NewerNumbers
<1>6. /\ b \in Seq(Nat) /\ Len(b) = n
      /\ \A i \in 1..n : b[i] = IF t[i].age <= c THEN t[i].n ELSE 0
  BY <1>3, NewerNumbers
<1> HIDE DEF a, b
<1>7. \A i \in 1..n : b[i] = a[i]
  <2> TAKE i \in 1..n
  <2>1. s[i] \in TokenEntries
    <3>1. s \in [1..n -> TokenEntries]
      BY <1>1, LenProperties
    <3> QED BY <3>1
  <2>2. t[i].n = s[i].n
    BY <1>3, <2>1 DEF Aged, TokenEntries
  <2>3. s[i].age \in Nat /\ t[i].age = IF s[i].age > Oldest THEN s[i].age ELSE s[i].age + 1
    BY <1>3, <2>1, KindsAge DEF AgeWell
  <2>4. t[i].age <= c <=> s[i].age <= Before(c)
    BY <2>3, SpansTyped DEF Before, Cuts
  <2> QED BY <1>5, <1>6, <2>2, <2>4
<1>8. a = b
  <2>1. a = [i \in 1..n |-> a[i]] /\ b = [i \in 1..n |-> b[i]]
    BY <1>5, <1>6
  <2> QED BY <1>7, <2>1
<1> QED BY <1>2, <1>4, <1>8 DEF Weighs, a, b

-------------------------------------------------------------------------------
(* The verdicts. *)
LEMMA VerdictsFollow ==
    ASSUME NEW verdicts, NEW all \in Seq(Events), LastVerdicts(verdicts, all), NEW e \in Events
    PROVE  LastVerdicts(LastOf(Append(verdicts, e.blocked), BlockedWindow), Append(all, e))
<1>1. BlockedWindow \in Nat \ {0}
  BY ThresholdsAssumption
<1>2. PICK n \in Nat, m \in Nat : n = Len(all) /\ m = Len(verdicts) /\ verdicts \in Seq(BOOLEAN)
  BY DEF LastVerdicts
<1>3. /\ m = IF n <= BlockedWindow THEN n ELSE BlockedWindow
      /\ \A i \in 1..m : verdicts[i] = all[i + (n - m)].blocked
  BY <1>2 DEF LastVerdicts
<1>4. PICK v, a : v = Append(verdicts, e.blocked) /\ a = Append(all, e)
  OBVIOUS
<1>5. /\ v \in Seq(BOOLEAN) /\ Len(v) = m + 1
      /\ (\A i \in 1..m : v[i] = verdicts[i]) /\ v[m + 1] = e.blocked
  <2>1. e.blocked \in BOOLEAN
    BY DEF Events
  <2> QED BY <1>2, <1>4, <2>1, AppendProperties
<1>6. Len(a) = n + 1 /\ (\A i \in 1..n : a[i] = all[i]) /\ a[n + 1] = e
  BY <1>2, <1>4, AppendProperties
<1>7. \A i \in 1..(m + 1) : v[i] = a[i + (n - m)].blocked
  <2> TAKE i \in 1..(m + 1)
  <2>1. CASE i = m + 1
    <3>1. i + (n - m) = n + 1
      BY <2>1
    <3> QED BY <1>5, <1>6, <2>1, <3>1
  <2>2. CASE i # m + 1
    <3>1. i \in 1..m /\ i + (n - m) \in 1..n
      BY <1>1, <1>3, <2>2
    <3> QED BY <1>2, <1>3, <1>5, <1>6, <3>1
  <2> QED BY <2>1, <2>2
<1>8. PICK l : l = LastOf(v, BlockedWindow)
  OBVIOUS
<1>9. CASE m + 1 <= BlockedWindow
  <2>1. m = n /\ n + 1 <= BlockedWindow
    BY <1>1, <1>3, <1>9
  <2>2. l = v
    BY <1>5, <1>8, <1>9 DEF LastOf
  <2>3. Len(a) - Len(v) = n - m
    BY <1>5, <1>6
  <2>4. LastVerdicts(v, a)
    BY <1>5, <1>6, <1>7, <2>1, <2>3 DEF LastVerdicts
  <2> QED BY <1>4, <1>8, <2>2, <2>4
<1>10. CASE ~(m + 1 <= BlockedWindow)
  <2>1. m = BlockedWindow /\ n >= BlockedWindow /\ ~(n + 1 <= BlockedWindow)
    BY <1>1, <1>3, <1>10
  <2>2. l = SubSeq(v, 1 + 1, Len(v))
    <3>1. Len(v) - BlockedWindow + 1 = 1 + 1
      BY <1>5, <2>1
    <3>2. ~(Len(v) <= BlockedWindow)
      BY <1>5, <1>10
    <3>3. l = SubSeq(v, Len(v) - BlockedWindow + 1, Len(v))
      BY <1>8, <3>2 DEF LastOf
    <3> QED BY <3>1, <3>3
  <2>3. 1 \in 0..Len(v)
    BY <1>5
  <2>4. l \in Seq(BOOLEAN) /\ AllBut(l, v, 1)
    BY <1>5, <2>2, <2>3, EndOf
  <2>5. Len(l) = BlockedWindow
    BY <1>5, <2>1, <2>4 DEF AllBut
  <2>6. \A i \in 1..BlockedWindow : l[i] = a[i + ((n + 1) - BlockedWindow)].blocked
    <3> TAKE i \in 1..BlockedWindow
    <3>1. l[i] = v[i + 1]
      BY <2>4, <2>5 DEF AllBut
    <3>2. i + 1 \in 1..(m + 1) /\ (i + 1) + (n - m) = i + ((n + 1) - BlockedWindow)
      BY <1>1, <2>1
    <3>3. v[i + 1] = a[(i + 1) + (n - m)].blocked
      BY <1>7, <3>2
    <3> QED BY <3>1, <3>2, <3>3
  <2>7. LastVerdicts(l, a)
    BY <1>6, <2>1, <2>4, <2>5, <2>6 DEF LastVerdicts
  <2> QED BY <1>4, <1>8, <2>7
<1> QED BY <1>9, <1>10

LEMMA OlderVerdicts ==
    ASSUME NEW verdicts, NEW all \in Seq(Events), LastVerdicts(verdicts, all)
    PROVE  LastVerdicts(verdicts, Older(all))
<1>1. PICK n \in Nat, m \in Nat : n = Len(all) /\ m = Len(verdicts) /\ verdicts \in Seq(BOOLEAN)
  BY DEF LastVerdicts
<1>2. BlockedWindow \in Nat
  BY ThresholdsAssumption
<1>3. Len(Older(all)) = n /\ \A i \in 1..n : Older(all)[i] = Aged(all[i])
  BY <1>1, KindsAge, OlderAges
<1>4. \A i \in 1..m : i + (n - m) \in 1..n
  BY <1>1, <1>2 DEF LastVerdicts
<1>5. \A i \in 1..n : Older(all)[i].blocked = all[i].blocked
  <2>1. all \in [1..n -> Events]
    BY <1>1, LenProperties
  <2> QED BY <1>3, <2>1 DEF Aged, Events
<1> QED BY <1>1, <1>3, <1>4, <1>5 DEF LastVerdicts

-------------------------------------------------------------------------------
(* The five windows of a key. *)
(* Nothing in a window is too old, as it is right after it has been pruned. *)
Young(entries, span) == \A i \in 1..Len(entries) : entries[i].age <= span
Pruned(win) ==
    /\ Young(win.requests, RpmWindow) /\ Young(win.ips, IpWindow)
    /\ Young(win.tokens, FiveMinutes) /\ Young(win.prompts, FiveMinutes)

(* Entries that trail an ordered list are in its order. *)
LEMMA TrailsInOrder ==
    ASSUME NEW S, NEW s \in Seq(S), NEW list \in Seq(S), NEW span, Trails(s, list, span), InOrder(list)
    PROVE  InOrder(s)
<1>1. PICK d \in 0..Len(list) : AllBut(s, list, d)
  BY DEF Trails
<1>2. PICK n \in Nat, m \in Nat : n = Len(list) /\ m = Len(s) /\ DOMAIN list = 1..n /\ DOMAIN s = 1..m
  OBVIOUS
<1>3. n = m + d /\ \A i \in 1..m : s[i] = list[i + d]
  BY <1>1, <1>2 DEF AllBut
<1> SUFFICES ASSUME NEW i \in 1..m, NEW j \in 1..m, i <= j PROVE s[i].age >= s[j].age
  BY <1>2 DEF InOrder
<1>4. i + d \in 1..n /\ j + d \in 1..n /\ i + d <= j + d
  BY <1>3
<1>5. list[i + d].age >= list[j + d].age
  BY <1>2, <1>4 DEF InOrder
<1> QED BY <1>3, <1>5

LEMMA ThroughInOrder ==
    ASSUME NEW S, NEW f, Shows(f, S), NEW all \in Seq(Events), InOrder(all)
    PROVE  InOrder(Through(f, all))
<1>1. PICK n \in Nat : n = Len(all) /\ DOMAIN all = 1..n
  OBVIOUS
<1>2. /\ Through(f, all) \in Seq(S) /\ Len(Through(f, all)) = n
      /\ \A i \in 1..n : Through(f, all)[i] = f[all[i]]
  BY <1>1, ThroughSteps
<1>3. DOMAIN Through(f, all) = 1..n
  BY <1>2
<1>4. \A i \in 1..n : Through(f, all)[i].age = all[i].age
  <2>1. all \in [1..n -> Events]
    BY <1>1, LenProperties
  <2> QED BY <1>2, <2>1 DEF Shows
<1> QED BY <1>1, <1>3, <1>4 DEF InOrder

(* A window that takes an entry of every event, and is pruned. *)
LEMMA WindowTakes ==
    ASSUME NEW S, AgeWell(S), NEW f, Shows(f, S), NEW s \in Seq(S), NEW all \in Seq(Events), InOrder(all),
           NEW span \in Nat, Trails(s, Through(f, all), span), NEW e \in Events, e.age = 0
    PROVE  /\ Fresh(Append(s, f[e]), span) \in Seq(S)
           /\ Trails(Fresh(Append(s, f[e]), span), Through(f, Append(all, e)), span)
           /\ Young(Fresh(Append(s, f[e]), span), span)
<1>1. PICK t : t = Append(s, f[e])
  OBVIOUS
<1>2. f[e] \in S
  BY DEF Shows
<1>3. t \in Seq(S)
  BY <1>1, <1>2, AppendProperties
<1>4. Through(f, all) \in Seq(S) /\ Through(f, Append(all, e)) = Append(Through(f, all), f[e])
  BY ThroughSteps
<1>5. Trails(t, Through(f, Append(all, e)), span)
  BY <1>1, <1>2, <1>4, TrailsAppend
<1>6. Append(all, e) \in Seq(Events) /\ InOrder(Append(all, e))
  BY KindsAge, AppendInOrder
<1>7. Through(f, Append(all, e)) \in Seq(S) /\ InOrder(Through(f, Append(all, e)))
  BY <1>6, ThroughSteps, ThroughInOrder
<1>8. InOrder(t)
  BY <1>3, <1>5, <1>7, TrailsInOrder
<1>9. Fresh(t, span) \in Seq(S)
  BY <1>3, FreshEnds
<1>10. Trails(Fresh(t, span), Through(f, Append(all, e)), span)
  BY <1>3, <1>5, <1>7, TrailsFresh
<1>11. Young(Fresh(t, span), span)
  BY <1>3, <1>8, FreshIsFresh DEF Young
<1> QED BY <1>1, <1>9, <1>10, <1>11

(* The token window, which takes only what cost something. *)
TokensAfter(s, tokens) ==
    Fresh(IF tokens = 0 THEN s ELSE Append(s, [age |-> 0, n |-> tokens]), FiveMinutes)

LEMMA TokensTake ==
    ASSUME NEW s, NEW all \in Seq(Events), TokensFollow(s, all), NEW e \in Events, e.age = 0
    PROVE  /\ TokensFollow(TokensAfter(s, e.tokens), Append(all, e))
           /\ Young(TokensAfter(s, e.tokens), FiveMinutes)
<1>1. /\ s \in Seq(TokenEntries) /\ InOrder(s)
      /\ \A c \in Cuts : Weighs(s, c) = Weighs(Through(AsCost, all), c)
  BY DEF TokensFollow, Weighs, Cuts
<1>2. PICK x : x = [age |-> 0, n |-> e.tokens]
  OBVIOUS
<1>3. e.tokens \in Nat /\ x \in TokenEntries /\ x.age = 0 /\ x.n = e.tokens /\ AsCost[e] = x
  BY <1>2 DEF Events, TokenEntries, AsCost
<1>4. PICK u : u = IF e.tokens = 0 THEN s ELSE Append(s, x)
  OBVIOUS
<1>5. u \in Seq(TokenEntries) /\ InOrder(u)
  <2>1. CASE e.tokens = 0
    BY <1>1, <1>4, <2>1
  <2>2. CASE e.tokens # 0
    BY <1>1, <1>3, <1>4, <2>2, KindsAge, AppendInOrder
  <2> QED BY <2>1, <2>2
<1>6. PICK t : t = Fresh(u, FiveMinutes)
  OBVIOUS
<1>7. t \in Seq(TokenEntries) /\ InOrder(t) /\ Young(t, FiveMinutes)
  BY <1>5, <1>6, FreshEnds, FreshIsFresh, KindsAge, SpansTyped DEF Young
<1>8. ASSUME NEW c \in Cuts PROVE Weighs(t, c) = Weighs(Through(AsCost, Append(all, e)), c)
  <2>1. /\ Through(AsCost, all) \in Seq(TokenEntries)
        /\ Through(AsCost, Append(all, e)) = Append(Through(AsCost, all), x)
    BY <1>3, KindsShow, ThroughSteps
  <2>2. Weighs(t, c) = Weighs(u, c)
    BY <1>5, <1>6, FreshWeighs
  <2>3. Weighs(Append(Through(AsCost, all), x), c)
            = Weighs(Through(AsCost, all), c) + (IF 0 <= c THEN x.n ELSE 0)
    BY <1>3, <2>1, AppendWeighs
  <2>4. Weighs(s, c) = Weighs(Through(AsCost, all), c)
    BY <1>1
  <2>5. CASE e.tokens = 0
    <3>1. (IF 0 <= c THEN x.n ELSE 0) = 0
      BY <1>3, <2>5
    <3>2. Weighs(Through(AsCost, all), c) \in Nat
      <4>1. Newer(Through(AsCost, all), c) \in Seq(Nat)
        BY <2>1, NewerNumbers
      <4> QED BY <4>1, TotalTyped DEF Weighs
    <3>3. Weighs(Through(AsCost, all), c) + 0 = Weighs(Through(AsCost, all), c)
      BY <3>2
    <3>4. u = s
      BY <1>4, <2>5
    <3> QED BY <2>1, <2>2, <2>3, <2>4, <3>1, <3>3, <3>4
  <2>6. CASE e.tokens # 0
    <3>1. u = Append(s, x)
      BY <1>4, <2>6
    <3>2. Weighs(u, c) = Weighs(s, c) + (IF 0 <= c THEN x.n ELSE 0)
      BY <1>1, <1>3, <3>1, AppendWeighs
    <3> QED BY <2>1, <2>2, <2>3, <2>4, <3>2
  <2> QED BY <2>5, <2>6
<1>9. TokensFollow(t, Append(all, e))
  BY <1>7, <1>8 DEF TokensFollow, Weighs, Cuts
<1> QED BY <1>2, <1>4, <1>6, <1>7, <1>9 DEF TokensAfter

(* An event is recorded: the windows follow, and are pruned. *)
LEMMA RecordedFollows ==
    ASSUME NEW win, NEW all, WindowsFollow(win, all), NEW e \in Events, e.age = 0
    PROVE  /\ WindowsFollow(Recorded(win, e.ip, e.tokens, e.blocked, e.prompt), Append(all, e))
           /\ Pruned(Recorded(win, e.ip, e.tokens, e.blocked, e.prompt))
<1>1. /\ all \in Seq(Events) /\ InOrder(all)
      /\ win.requests \in Seq(RequestEntries) /\ Trails(win.requests, Through(AsRequest, all), RpmWindow)
      /\ win.ips \in Seq(IpEntries) /\ Trails(win.ips, Through(AsIp, all), IpWindow)
      /\ win.prompts \in Seq(PromptEntries) /\ Trails(win.prompts, Through(AsPrompt, all), FiveMinutes)
      /\ TokensFollow(win.tokens, all) /\ LastVerdicts(win.verdicts, all)
  BY DEF WindowsFollow
<1>2. PICK r, t, i, v, p :
         /\ r = Fresh(Append(win.requests, AsRequest[e]), RpmWindow)
         /\ t = TokensAfter(win.tokens, e.tokens)
         /\ i = Fresh(Append(win.ips, AsIp[e]), IpWindow)
         /\ v = LastOf(Append(win.verdicts, e.blocked), BlockedWindow)
         /\ p = Fresh(Append(win.prompts, AsPrompt[e]), FiveMinutes)
  OBVIOUS
<1>3. AsRequest[e] = [age |-> 0] /\ AsIp[e] = [age |-> 0, ip |-> e.ip] /\ AsPrompt[e] = [age |-> 0, prompt |-> e.prompt]
  BY DEF AsRequest, AsIp, AsPrompt
<1>4. Recorded(win, e.ip, e.tokens, e.blocked, e.prompt)
          = [requests |-> r, tokens |-> t, ips |-> i, verdicts |-> v, prompts |-> p]
  BY <1>2, <1>3 DEF Recorded, TokensAfter
<1>5. PICK new : new = [requests |-> r, tokens |-> t, ips |-> i, verdicts |-> v, prompts |-> p]
  OBVIOUS
<1>6. new.requests = r /\ new.tokens = t /\ new.ips = i /\ new.verdicts = v /\ new.prompts = p
  BY <1>5
<1>7. PICK list : list = Append(all, e)
  OBVIOUS
<1>8. list \in Seq(Events) /\ InOrder(list)
  BY <1>1, <1>7, KindsAge, AppendInOrder
<1>9. r \in Seq(RequestEntries) /\ Trails(r, Through(AsRequest, list), RpmWindow) /\ Young(r, RpmWindow)
  BY <1>1, <1>2, <1>7, KindsAge, KindsShow, SpansTyped, WindowTakes
<1>10. i \in Seq(IpEntries) /\ Trails(i, Through(AsIp, list), IpWindow) /\ Young(i, IpWindow)
  BY <1>1, <1>2, <1>7, KindsAge, KindsShow, SpansTyped, WindowTakes
<1>11. p \in Seq(PromptEntries) /\ Trails(p, Through(AsPrompt, list), FiveMinutes) /\ Young(p, FiveMinutes)
  BY <1>1, <1>2, <1>7, KindsAge, KindsShow, SpansTyped, WindowTakes
<1>12. TokensFollow(t, list) /\ Young(t, FiveMinutes)
  BY <1>1, <1>2, <1>7, TokensTake
<1>13. LastVerdicts(v, list)
  BY <1>1, <1>2, <1>7, VerdictsFollow
<1>14. WindowsFollow(new, list)
  BY <1>6, <1>8, <1>9, <1>10, <1>11, <1>12, <1>13 DEF WindowsFollow
<1>15. Pruned(new)
  BY <1>6, <1>9, <1>10, <1>11, <1>12 DEF Pruned
<1> QED BY <1>4, <1>5, <1>7, <1>14, <1>15

(* A tick: every entry and every event is older. *)
OlderWindows(win) ==
    [win EXCEPT !.requests = Older(@), !.tokens = Older(@), !.ips = Older(@), !.prompts = Older(@)]

LEMMA WindowAges ==
    ASSUME NEW S, AgeWell(S), NEW f, Shows(f, S), NEW s \in Seq(S), NEW all \in Seq(Events),
           NEW span \in Nat, Trails(s, Through(f, all), span)
    PROVE  Older(s) \in Seq(S) /\ Trails(Older(s), Through(f, Older(all)), span)
<1>1. Through(f, all) \in Seq(S) /\ Through(f, Older(all)) = Older(Through(f, all))
  BY ThroughSteps
<1>2. Trails(Older(s), Older(Through(f, all)), span)
  BY <1>1, TrailsOlder
<1> QED BY <1>1, <1>2, OlderAges

LEMMA TokensAge ==
    ASSUME NEW s, NEW all \in Seq(Events), TokensFollow(s, all)
    PROVE  TokensFollow(Older(s), Older(all))
<1>1. /\ s \in Seq(TokenEntries) /\ InOrder(s)
      /\ \A c \in Cuts : Weighs(s, c) = Weighs(Through(AsCost, all), c)
  BY DEF TokensFollow, Weighs, Cuts
<1>2. Older(s) \in Seq(TokenEntries) /\ InOrder(Older(s))
  BY <1>1, KindsAge, OlderAges, OlderInOrder
<1>3. /\ Through(AsCost, all) \in Seq(TokenEntries)
      /\ Through(AsCost, Older(all)) = Older(Through(AsCost, all))
  BY KindsAge, KindsShow, ThroughSteps
<1>4. ASSUME NEW c \in Cuts PROVE Weighs(Older(s), c) = Weighs(Through(AsCost, Older(all)), c)
  <2>1. Before(c) \in Cuts /\ Weighs(Older(s), c) = Weighs(s, Before(c))
    BY <1>1, OlderWeighs
  <2>2. Weighs(Older(Through(AsCost, all)), c) = Weighs(Through(AsCost, all), Before(c))
    BY <1>3, OlderWeighs
  <2>3. Weighs(s, Before(c)) = Weighs(Through(AsCost, all), Before(c))
    BY <1>1, <2>1
  <2> QED BY <1>3, <2>1, <2>2, <2>3
<1> QED BY <1>2, <1>4 DEF TokensFollow, Weighs, Cuts

LEMMA OlderFollows ==
    ASSUME NEW win \in Windows, NEW all, WindowsFollow(win, all)
    PROVE  WindowsFollow(OlderWindows(win), Older(all))
<1>1. /\ all \in Seq(Events) /\ InOrder(all)
      /\ win.requests \in Seq(RequestEntries) /\ Trails(win.requests, Through(AsRequest, all), RpmWindow)
      /\ win.ips \in Seq(IpEntries) /\ Trails(win.ips, Through(AsIp, all), IpWindow)
      /\ win.prompts \in Seq(PromptEntries) /\ Trails(win.prompts, Through(AsPrompt, all), FiveMinutes)
      /\ TokensFollow(win.tokens, all) /\ LastVerdicts(win.verdicts, all)
  BY DEF WindowsFollow
<1>2. PICK r, t, i, p : r = Older(win.requests) /\ t = Older(win.tokens)
                        /\ i = Older(win.ips) /\ p = Older(win.prompts)
  OBVIOUS
<1>3. OlderWindows(win) = [win EXCEPT !.requests = r, !.tokens = t, !.ips = i, !.prompts = p]
  BY <1>2 DEF OlderWindows, Windows
<1>4. PICK new : new = [win EXCEPT !.requests = r, !.tokens = t, !.ips = i, !.prompts = p]
  OBVIOUS
<1>5. /\ new.requests = r /\ new.tokens = t /\ new.ips = i /\ new.prompts = p
      /\ new.verdicts = win.verdicts
  BY <1>4 DEF Windows
<1>6. PICK list : list = Older(all)
  OBVIOUS
<1>7. list \in Seq(Events) /\ InOrder(list)
  BY <1>1, <1>6, KindsAge, OlderAges, OlderInOrder
<1>8. r \in Seq(RequestEntries) /\ Trails(r, Through(AsRequest, list), RpmWindow)
  BY <1>1, <1>2, <1>6, KindsAge, KindsShow, SpansTyped, WindowAges
<1>9. i \in Seq(IpEntries) /\ Trails(i, Through(AsIp, list), IpWindow)
  BY <1>1, <1>2, <1>6, KindsAge, KindsShow, SpansTyped, WindowAges
<1>10. p \in Seq(PromptEntries) /\ Trails(p, Through(AsPrompt, list), FiveMinutes)
  BY <1>1, <1>2, <1>6, KindsAge, KindsShow, SpansTyped, WindowAges
<1>11. TokensFollow(t, list)
  BY <1>1, <1>2, <1>6, TokensAge
<1>12. LastVerdicts(new.verdicts, list)
  BY <1>1, <1>5, <1>6, OlderVerdicts
<1>13. WindowsFollow(new, list)
  BY <1>5, <1>7, <1>8, <1>9, <1>10, <1>11, <1>12 DEF WindowsFollow
<1> QED BY <1>3, <1>4, <1>6, <1>13

(* Nothing has been seen. *)
LEMMA NothingFollows == NoWindows \in Windows /\ WindowsFollow(NoWindows, <<>>)
<1>1. /\ NoWindows.requests = <<>> /\ NoWindows.tokens = <<>> /\ NoWindows.ips = <<>>
      /\ NoWindows.verdicts = <<>> /\ NoWindows.prompts = <<>>
  BY DEF NoWindows
<1>2. \A S : <<>> \in Seq(S) /\ Len(<<>>) = 0 /\ DOMAIN <<>> = {}
  OBVIOUS
<1>3. InOrder(<<>>)
  BY <1>2 DEF InOrder
<1>4. Through(AsRequest, <<>>) = <<>> /\ Through(AsIp, <<>>) = <<>> /\ Through(AsPrompt, <<>>) = <<>>
      /\ Through(AsCost, <<>>) = <<>>
  BY DEF Through
<1>5. \A span : Trails(<<>>, <<>>, span)
  BY <1>2 DEF Trails, AllBut
<1>6. TokensFollow(<<>>, <<>>)
  BY <1>2, <1>3, <1>4 DEF TokensFollow
<1>7. LastVerdicts(<<>>, <<>>)
  <2>1. 0 <= BlockedWindow
    BY ThresholdsAssumption
  <2> QED BY <1>2, <2>1 DEF LastVerdicts
<1>8. WindowsFollow(NoWindows, <<>>)
  BY <1>1, <1>2, <1>3, <1>4, <1>5, <1>6, <1>7 DEF WindowsFollow
<1>9. NoWindows \in Windows
  BY <1>2 DEF NoWindows, Windows
<1> QED BY <1>8, <1>9

-------------------------------------------------------------------------------
(* What the pruned windows say is what everything that was seen says. *)

(* Shifted positions are as many. *)
LEMMA ShiftedPositions ==
    ASSUME NEW n \in Nat, NEW P \in SUBSET (1..n), NEW Q, NEW d \in Nat,
           \A i \in P : i + d \in Q, \A j \in Q : j \in Nat /\ j - d \in P
    PROVE  Cardinality(Q) = Cardinality(P)
<1>1. IsFiniteSet(P)
  <2>1. IsFiniteSet(1..n)
    BY FS_Interval
  <2> QED BY <2>1, FS_Subset
<1> DEFINE f == [i \in P |-> i + d]
<1>2. f \in [P -> Q]
  OBVIOUS
<1>3. \A a, b \in P : f[a] = f[b] => a = b
  OBVIOUS
<1>4. \A j \in Q : \E i \in P : f[i] = j
  <2> TAKE j \in Q
  <2>1. j - d \in P /\ (j - d) + d = j
    OBVIOUS
  <2>2. f[j - d] = j
    BY <2>1
  <2> QED BY <2>1, <2>2
<1>5. f \in Bijection(P, Q)
  BY <1>2, <1>3, <1>4 DEF Bijection, Injection, Surjection, IsInjective
<1>6. ExistsBijection(P, Q)
  BY <1>5 DEF ExistsBijection
<1> QED BY <1>1, <1>6, FS_Bijection

(* A pruned window holds exactly what is recent. *)
NotOlder(all, span) == {i \in DOMAIN all : all[i].age <= span}
Holds(f, s, all, span, d) ==
    /\ Len(all) = Len(s) + d
    /\ NotOlder(all, span) = (d + 1)..Len(all)
    /\ \A i \in 1..Len(s) : s[i] = f[all[i + d]]

LEMMA YoungTrails ==
    ASSUME NEW S, NEW f, Shows(f, S), NEW s \in Seq(S), NEW all \in Seq(Events), NEW span \in Nat,
           Trails(s, Through(f, all), span), Young(s, span)
    PROVE  \E d \in 0..Len(all) : Holds(f, s, all, span, d)
<1>1. PICK n \in Nat, m \in Nat : n = Len(all) /\ m = Len(s) /\ DOMAIN all = 1..n
  OBVIOUS
<1>2. /\ Len(Through(f, all)) = n /\ \A i \in 1..n : Through(f, all)[i] = f[all[i]]
  BY <1>1, ThroughSteps
<1>3. PICK d \in 0..n : AllBut(s, Through(f, all), d) /\ \A i \in 1..d : Through(f, all)[i].age > span
  BY <1>2 DEF Trails
<1>4. n = m + d /\ \A i \in 1..m : s[i] = f[all[i + d]]
  <2>1. n = m + d /\ \A i \in 1..m : s[i] = Through(f, all)[i + d]
    BY <1>1, <1>2, <1>3 DEF AllBut
  <2>2. \A i \in 1..m : i + d \in 1..n
    BY <2>1
  <2> QED BY <1>2, <2>1, <2>2
<1>5. \A i \in 1..n : all[i].age \in Nat /\ f[all[i]].age = all[i].age
  <2>1. all \in [1..n -> Events]
    BY <1>1, LenProperties
  <2> QED BY <2>1 DEF Shows, Events
<1>6. \A i \in 1..d : ~(all[i].age <= span)
  <2> TAKE i \in 1..d
  <2>1. i \in 1..n
    BY <1>4
  <2> QED BY <1>2, <1>3, <1>5, <2>1
<1>7. \A i \in (d + 1)..n : all[i].age <= span
  <2> TAKE i \in (d + 1)..n
  <2>1. i - d \in 1..m /\ (i - d) + d = i /\ i \in 1..n
    BY <1>4
  <2>2. s[i - d].age <= span /\ s[i - d] = f[all[(i - d) + d]]
    BY <1>1, <1>4, <2>1 DEF Young
  <2> QED BY <1>5, <2>1, <2>2
<1>8. {i \in 1..n : all[i].age <= span} = (d + 1)..n
  <2>1. \A i \in 1..n : i \in 1..d \/ i \in (d + 1)..n
    OBVIOUS
  <2>2. \A i \in (d + 1)..n : i \in 1..n
    OBVIOUS
  <2> QED BY <1>6, <1>7, <2>1, <2>2
<1>9. Holds(f, s, all, span, d)
  BY <1>1, <1>4, <1>8 DEF Holds, NotOlder
<1> QED BY <1>1, <1>9

LEMMA RequestsAgree ==
    ASSUME NEW win, NEW all, WindowsFollow(win, all), Pruned(win)
    PROVE  Len(win.requests) = Cardinality(NotOlder(all, RpmWindow))
<1>1. /\ all \in Seq(Events) /\ win.requests \in Seq(RequestEntries)
      /\ Trails(win.requests, Through(AsRequest, all), RpmWindow) /\ Young(win.requests, RpmWindow)
  BY DEF WindowsFollow, Pruned
<1>2. PICK d \in 0..Len(all) : Holds(AsRequest, win.requests, all, RpmWindow, d)
  BY <1>1, KindsShow, SpansTyped, YoungTrails
<1>3. PICK n \in Nat, m \in Nat : n = Len(all) /\ m = Len(win.requests)
  BY <1>1
<1>4. Cardinality((d + 1)..n) = n - d
  <2>1. d + 1 \in Int /\ n \in Int /\ d \in 0..n
    BY <1>3
  <2>2. Cardinality((d + 1)..n) = IF d + 1 > n THEN 0 ELSE n - (d + 1) + 1
    BY <2>1, FS_Interval
  <2> QED BY <2>1, <2>2
<1> QED BY <1>2, <1>3, <1>4 DEF Holds

IpsAt(list, P) == {list[i].ip : i \in P}
AskedAt(list, P, prompt) == {i \in P : list[i].prompt = prompt}

LEMMA IpsAgree ==
    ASSUME NEW win, NEW all, WindowsFollow(win, all), Pruned(win)
    PROVE  IpsAt(win.ips, DOMAIN win.ips) = IpsAt(all, NotOlder(all, IpWindow))
<1>1. /\ all \in Seq(Events) /\ win.ips \in Seq(IpEntries)
      /\ Trails(win.ips, Through(AsIp, all), IpWindow) /\ Young(win.ips, IpWindow)
  BY DEF WindowsFollow, Pruned
<1>2. PICK n \in Nat, m \in Nat :
          n = Len(all) /\ m = Len(win.ips) /\ DOMAIN win.ips = 1..m /\ DOMAIN all = 1..n
  BY <1>1
<1>6. PICK d \in 0..n : Holds(AsIp, win.ips, all, IpWindow, d)
  <2>1. \E d \in 0..Len(all) : Holds(AsIp, win.ips, all, IpWindow, d)
    BY <1>1, KindsShow, SpansTyped, YoungTrails
  <2> QED BY <1>2, <2>1
<1>3. /\ n = m + d /\ NotOlder(all, IpWindow) = (d + 1)..n
      /\ \A i \in 1..m : win.ips[i] = AsIp[all[i + d]]
  BY <1>2, <1>6 DEF Holds
<1>4. \A i \in 1..m : i + d \in (d + 1)..n /\ win.ips[i].ip = all[i + d].ip
  <2> TAKE i \in 1..m
  <2>1. i + d \in 1..n /\ i + d \in (d + 1)..n
    BY <1>3
  <2>2. all[i + d] \in Events
    <3>1. all \in [1..n -> Events]
      BY <1>1, <1>2, LenProperties
    <3> QED BY <2>1, <3>1
  <2>3. AsIp[all[i + d]].ip = all[i + d].ip
    BY <2>2 DEF AsIp
  <2> QED BY <1>3, <2>1, <2>3
<1>5. \A j \in (d + 1)..n : j - d \in 1..m /\ all[j].ip = win.ips[j - d].ip
  <2> TAKE j \in (d + 1)..n
  <2>1. j - d \in 1..m /\ (j - d) + d = j
    BY <1>3
  <2> QED BY <1>4, <2>1
<1>7. \A i \in DOMAIN win.ips : \E j \in NotOlder(all, IpWindow) : all[j].ip = win.ips[i].ip
  <2> TAKE i \in DOMAIN win.ips
  <2>1. i + d \in NotOlder(all, IpWindow) /\ all[i + d].ip = win.ips[i].ip
    BY <1>2, <1>3, <1>4
  <2> QED BY <2>1
<1>8. \A j \in NotOlder(all, IpWindow) : \E i \in DOMAIN win.ips : win.ips[i].ip = all[j].ip
  <2> TAKE j \in NotOlder(all, IpWindow)
  <2>1. j - d \in DOMAIN win.ips /\ win.ips[j - d].ip = all[j].ip
    BY <1>2, <1>3, <1>5
  <2> QED BY <2>1
<1>9. PICK A, B : A = IpsAt(win.ips, DOMAIN win.ips) /\ B = IpsAt(all, NotOlder(all, IpWindow))
  OBVIOUS
<1>10. \A x \in A : x \in B
  BY <1>7, <1>9 DEF IpsAt
<1>11. \A x \in B : x \in A
  BY <1>8, <1>9 DEF IpsAt
<1>12. A = B
  BY <1>10, <1>11
<1> QED BY <1>9, <1>12

LEMMA PromptsAgree ==
    ASSUME NEW win, NEW all, WindowsFollow(win, all), Pruned(win), NEW prompt
    PROVE  Cardinality(AskedAt(win.prompts, DOMAIN win.prompts, prompt))
               = Cardinality(AskedAt(all, NotOlder(all, FiveMinutes), prompt))
<1>1. /\ all \in Seq(Events) /\ win.prompts \in Seq(PromptEntries)
      /\ Trails(win.prompts, Through(AsPrompt, all), FiveMinutes) /\ Young(win.prompts, FiveMinutes)
  BY DEF WindowsFollow, Pruned
<1>2. PICK n \in Nat, m \in Nat :
          n = Len(all) /\ m = Len(win.prompts) /\ DOMAIN win.prompts = 1..m /\ DOMAIN all = 1..n
  BY <1>1
<1>9. PICK d \in 0..n : Holds(AsPrompt, win.prompts, all, FiveMinutes, d)
  <2>1. \E d \in 0..Len(all) : Holds(AsPrompt, win.prompts, all, FiveMinutes, d)
    BY <1>1, KindsShow, SpansTyped, YoungTrails
  <2> QED BY <1>2, <2>1
<1>3. /\ n = m + d /\ NotOlder(all, FiveMinutes) = (d + 1)..n
      /\ \A i \in 1..m : win.prompts[i] = AsPrompt[all[i + d]]
  BY <1>2, <1>9 DEF Holds
<1>4. \A i \in 1..m : i + d \in (d + 1)..n /\ win.prompts[i].prompt = all[i + d].prompt
  <2> TAKE i \in 1..m
  <2>1. i + d \in 1..n /\ i + d \in (d + 1)..n
    BY <1>3
  <2>2. all[i + d] \in Events
    <3>1. all \in [1..n -> Events]
      BY <1>1, <1>2, LenProperties
    <3> QED BY <2>1, <3>1
  <2>3. AsPrompt[all[i + d]].prompt = all[i + d].prompt
    BY <2>2 DEF AsPrompt
  <2> QED BY <1>3, <2>1, <2>3
<1> DEFINE P == {i \in 1..m : win.prompts[i].prompt = prompt}
           Q == {i \in (d + 1)..n : all[i].prompt = prompt}
<1>5. P \in SUBSET (1..m) /\ d \in Nat
  OBVIOUS
<1>6. \A i \in P : i + d \in Q
  BY <1>4
<1>7. \A j \in Q : j \in Nat /\ j - d \in P
  <2> TAKE j \in Q
  <2>1. j \in Nat /\ j - d \in 1..m /\ (j - d) + d = j
    BY <1>3
  <2>2. win.prompts[j - d].prompt = all[j].prompt
    BY <1>4, <2>1
  <2> QED BY <2>1, <2>2
<1>8. Cardinality(Q) = Cardinality(P)
  <2> HIDE DEF P, Q
  <2> QED BY <1>5, <1>6, <1>7, ShiftedPositions
<1> QED BY <1>2, <1>3, <1>8 DEF AskedAt

LEMMA VerdictsAgree ==
    ASSUME NEW win, NEW all, WindowsFollow(win, all)
    PROVE  /\ Len(win.verdicts) >= BlockedWindow
                  <=> Cardinality({i \in DOMAIN all : i > Len(all) - BlockedWindow}) = BlockedWindow
           /\ Len(win.verdicts) >= BlockedWindow =>
                  Cardinality({i \in DOMAIN win.verdicts : win.verdicts[i]})
                      = Cardinality({i \in {j \in DOMAIN all : j > Len(all) - BlockedWindow} : all[i].blocked})
<1>1. /\ all \in Seq(Events) /\ win.verdicts \in Seq(BOOLEAN) /\ BlockedWindow \in Nat \ {0}
      /\ LastVerdicts(win.verdicts, all)
  BY ThresholdsAssumption DEF WindowsFollow, LastVerdicts
<1>2. PICK n \in Nat, m \in Nat :
          n = Len(all) /\ m = Len(win.verdicts) /\ DOMAIN win.verdicts = 1..m /\ DOMAIN all = 1..n
  BY <1>1
<1>3. /\ m = IF n <= BlockedWindow THEN n ELSE BlockedWindow
      /\ \A i \in 1..m : win.verdicts[i] = all[i + (n - m)].blocked
  BY <1>1, <1>2 DEF LastVerdicts
<1>12. n - m \in Nat
  BY <1>1, <1>3
<1>4. PICK d \in Nat : d = n - m
  BY <1>12
<1>5. {i \in 1..n : i > n - BlockedWindow} = (d + 1)..n
  BY <1>1, <1>3, <1>4
<1>6. Cardinality((d + 1)..n) = m
  <2>1. d + 1 \in Int /\ n \in Int /\ n - d = m
    BY <1>3, <1>4
  <2>2. Cardinality((d + 1)..n) = IF d + 1 > n THEN 0 ELSE n - (d + 1) + 1
    BY <2>1, FS_Interval
  <2> QED BY <1>3, <1>4, <2>1, <2>2
<1>7. m >= BlockedWindow <=> m = BlockedWindow
  BY <1>1, <1>3
<1> DEFINE P == {i \in 1..m : win.verdicts[i]}
           Q == {i \in (d + 1)..n : all[i].blocked}
<1>8. P \in SUBSET (1..m)
  OBVIOUS
<1>9. \A i \in P : i + d \in Q
  <2> TAKE i \in P
  <2>1. i + d \in (d + 1)..n /\ i \in 1..m /\ i + (n - m) = i + d
    BY <1>3, <1>4
  <2>2. win.verdicts[i] = all[i + d].blocked /\ win.verdicts[i]
    BY <1>3, <2>1
  <2> QED BY <2>1, <2>2
<1>10. \A j \in Q : j \in Nat /\ j - d \in P
  <2> TAKE j \in Q
  <2>1. j \in Nat /\ j - d \in 1..m /\ (j - d) + (n - m) = j
    BY <1>3, <1>4
  <2>2. win.verdicts[j - d] = all[j].blocked /\ all[j].blocked
    BY <1>3, <2>1
  <2> QED BY <2>1, <2>2
<1>11. Cardinality(Q) = Cardinality(P)
  <2> HIDE DEF P, Q
  <2> QED BY <1>8, <1>9, <1>10, ShiftedPositions
<1> QED BY <1>2, <1>5, <1>6, <1>7, <1>11

LEMMA TokensAgree ==
    ASSUME NEW win, NEW all, WindowsFollow(win, all), Pruned(win)
    PROVE  Burnt(win.tokens)
               = Total([i \in DOMAIN all |-> IF i \in NotOlder(all, FiveMinutes)
                                             THEN all[i].tokens ELSE 0])
<1>1. /\ all \in Seq(Events) /\ win.tokens \in Seq(TokenEntries) /\ Young(win.tokens, FiveMinutes)
      /\ FiveMinutes \in Cuts
      /\ \A c \in Cuts : Weighs(win.tokens, c) = Weighs(Through(AsCost, all), c)
  BY SpansTyped DEF WindowsFollow, Pruned, TokensFollow, Weighs, Cuts
<1>2. PICK n \in Nat, m \in Nat :
          n = Len(all) /\ m = Len(win.tokens) /\ DOMAIN win.tokens = 1..m /\ DOMAIN all = 1..n
  BY <1>1
<1>3. Newer(win.tokens, FiveMinutes) = [i \in 1..m |-> win.tokens[i].n]
  BY <1>1, <1>2 DEF Newer, Young
<1>4. Burnt(win.tokens) = Weighs(win.tokens, FiveMinutes)
  BY <1>2, <1>3 DEF Burnt, Weighs
<1> DEFINE costs == Through(AsCost, all)
<1>5. /\ costs \in Seq(TokenEntries) /\ Len(costs) = n
      /\ \A i \in 1..n : costs[i] = AsCost[all[i]]
  BY <1>1, <1>2, KindsShow, ThroughSteps
<1>6. \A i \in 1..n : costs[i].age = all[i].age /\ costs[i].n = all[i].tokens
  <2>1. all \in [1..n -> Events]
    BY <1>1, <1>2, LenProperties
  <2> QED BY <1>5, <2>1 DEF AsCost
<1> HIDE DEF costs
<1>7. DOMAIN costs = 1..n
  BY <1>5
<1>8. Newer(costs, FiveMinutes)
          = [i \in 1..n |-> IF i \in NotOlder(all, FiveMinutes) THEN all[i].tokens ELSE 0]
  BY <1>2, <1>6, <1>7 DEF Newer, NotOlder
<1>9. Weighs(win.tokens, FiveMinutes) = Total(Newer(costs, FiveMinutes))
  BY <1>1 DEF Weighs, costs
<1> QED BY <1>2, <1>4, <1>8, <1>9

LEMMA SignalsAgree ==
    ASSUME NEW win, NEW all, WindowsFollow(win, all), Pruned(win)
    PROVE  Signal(win, all[Len(all)].prompt) <=> Suspicious(all)
<1> DEFINE last == all[Len(all)]
           latest == {i \in DOMAIN all : i > Len(all) - BlockedWindow}
<1>1. Suspicious(all) <=>
          \/ Cardinality(NotOlder(all, RpmWindow)) > MaxRpm
          \/ Total([i \in DOMAIN all |-> IF i \in NotOlder(all, FiveMinutes)
                                         THEN all[i].tokens ELSE 0]) > MaxBurn
          \/ Cardinality(IpsAt(all, NotOlder(all, IpWindow))) >= IpDiversity
          \/ /\ Cardinality(latest) = BlockedWindow
             /\ Cardinality({i \in latest : all[i].blocked}) >= BlockedShare
          \/ Cardinality(AskedAt(all, NotOlder(all, FiveMinutes), last.prompt)) >= Repeats
  BY Zenon DEF Suspicious, NotOlder, IpsAt, AskedAt
<1>2. Signal(win, last.prompt) <=>
          \/ Len(win.requests) > MaxRpm
          \/ Burnt(win.tokens) > MaxBurn
          \/ Cardinality(IpsAt(win.ips, DOMAIN win.ips)) >= IpDiversity
          \/ /\ Len(win.verdicts) >= BlockedWindow
             /\ Cardinality({i \in DOMAIN win.verdicts : win.verdicts[i]}) >= BlockedShare
          \/ Cardinality(AskedAt(win.prompts, DOMAIN win.prompts, last.prompt)) >= Repeats
  BY Zenon DEF Signal, IpsAt, AskedAt
<1>3. Len(win.requests) = Cardinality(NotOlder(all, RpmWindow))
  BY RequestsAgree
<1>4. Burnt(win.tokens) = Total([i \in DOMAIN all |-> IF i \in NotOlder(all, FiveMinutes)
                                                      THEN all[i].tokens ELSE 0])
  BY TokensAgree
<1>5. IpsAt(win.ips, DOMAIN win.ips) = IpsAt(all, NotOlder(all, IpWindow))
  BY IpsAgree
<1>6. Cardinality(AskedAt(win.prompts, DOMAIN win.prompts, last.prompt))
          = Cardinality(AskedAt(all, NotOlder(all, FiveMinutes), last.prompt))
  BY PromptsAgree
<1>7. /\ Len(win.verdicts) >= BlockedWindow <=> Cardinality(latest) = BlockedWindow
      /\ Len(win.verdicts) >= BlockedWindow =>
             Cardinality({i \in DOMAIN win.verdicts : win.verdicts[i]})
                 = Cardinality({i \in latest : all[i].blocked})
  BY VerdictsAgree
<1> HIDE DEF latest, last
<1>8. Signal(win, last.prompt) <=> Suspicious(all)
  BY <1>1, <1>2, <1>3, <1>4, <1>5, <1>6, <1>7, Zenon
<1> QED BY <1>8 DEF last

-------------------------------------------------------------------------------
(* Types of what is recorded and of what a tick leaves. *)
LEMMA RecordedTyped ==
    ASSUME NEW win \in Windows, NEW e \in Events, e.age = 0
    PROVE  Recorded(win, e.ip, e.tokens, e.blocked, e.prompt) \in Windows
<1>1. /\ win.requests \in Seq(RequestEntries) /\ win.tokens \in Seq(TokenEntries)
      /\ win.ips \in Seq(IpEntries) /\ win.prompts \in Seq(PromptEntries)
      /\ win.verdicts \in Seq(BOOLEAN)
  BY DEF Windows, RequestEntries, TokenEntries, IpEntries, PromptEntries
<1>2. /\ [age |-> 0] \in RequestEntries /\ [age |-> 0, n |-> e.tokens] \in TokenEntries
      /\ [age |-> 0, ip |-> e.ip] \in IpEntries /\ [age |-> 0, prompt |-> e.prompt] \in PromptEntries
      /\ e.blocked \in BOOLEAN
  BY DEF Events, RequestEntries, TokenEntries, IpEntries, PromptEntries
<1>3. PICK r, t, i, v, p :
         /\ r = Fresh(Append(win.requests, [age |-> 0]), RpmWindow)
         /\ t = TokensAfter(win.tokens, e.tokens)
         /\ i = Fresh(Append(win.ips, [age |-> 0, ip |-> e.ip]), IpWindow)
         /\ v = LastOf(Append(win.verdicts, e.blocked), BlockedWindow)
         /\ p = Fresh(Append(win.prompts, [age |-> 0, prompt |-> e.prompt]), FiveMinutes)
  OBVIOUS
<1>4. r \in Seq(RequestEntries)
  <2>1. Append(win.requests, [age |-> 0]) \in Seq(RequestEntries)
    BY <1>1, <1>2, AppendProperties
  <2> QED BY <1>3, <2>1, FreshEnds, KindsAge, SpansTyped
<1>5. t \in Seq(TokenEntries)
  <2>1. Append(win.tokens, [age |-> 0, n |-> e.tokens]) \in Seq(TokenEntries)
    BY <1>1, <1>2, AppendProperties
  <2>2. (IF e.tokens = 0 THEN win.tokens ELSE Append(win.tokens, [age |-> 0, n |-> e.tokens]))
            \in Seq(TokenEntries)
    BY <1>1, <2>1
  <2> QED BY <1>3, <2>2, FreshEnds, KindsAge, SpansTyped DEF TokensAfter
<1>6. i \in Seq(IpEntries)
  <2>1. Append(win.ips, [age |-> 0, ip |-> e.ip]) \in Seq(IpEntries)
    BY <1>1, <1>2, AppendProperties
  <2> QED BY <1>3, <2>1, FreshEnds, KindsAge, SpansTyped
<1>7. p \in Seq(PromptEntries)
  <2>1. Append(win.prompts, [age |-> 0, prompt |-> e.prompt]) \in Seq(PromptEntries)
    BY <1>1, <1>2, AppendProperties
  <2> QED BY <1>3, <2>1, FreshEnds, KindsAge, SpansTyped
<1>8. v \in Seq(BOOLEAN)
  <2>1. Append(win.verdicts, e.blocked) \in Seq(BOOLEAN)
    BY <1>1, <1>2, AppendProperties
  <2>2. PICK w \in Seq(BOOLEAN) : w = Append(win.verdicts, e.blocked)
    BY <2>1
  <2>3. BlockedWindow \in Nat \ {0}
    BY ThresholdsAssumption
  <2>4. CASE Len(w) <= BlockedWindow
    BY <1>3, <2>2, <2>4 DEF LastOf
  <2>5. CASE ~(Len(w) <= BlockedWindow)
    <3>1. v = SubSeq(w, Len(w) - BlockedWindow + 1, Len(w))
      BY <1>3, <2>2, <2>5 DEF LastOf
    <3>2. Len(w) - BlockedWindow \in 0..Len(w)
      BY <2>3, <2>5
    <3> QED BY <3>1, <3>2, EndOf
  <2> QED BY <2>4, <2>5
<1>9. Recorded(win, e.ip, e.tokens, e.blocked, e.prompt)
          = [requests |-> r, tokens |-> t, ips |-> i, verdicts |-> v, prompts |-> p]
  BY <1>3 DEF Recorded, TokensAfter
<1>10. [requests |-> r, tokens |-> t, ips |-> i, verdicts |-> v, prompts |-> p] \in Windows
  BY <1>4, <1>5, <1>6, <1>7, <1>8 DEF Windows, RequestEntries, TokenEntries, IpEntries, PromptEntries
<1> QED BY <1>9, <1>10

LEMMA OlderTyped ==
    ASSUME NEW win \in Windows, NEW all \in Seq(Events)
    PROVE  OlderWindows(win) \in Windows /\ Older(all) \in Seq(Events)
<1>1. /\ win.requests \in Seq(RequestEntries) /\ win.tokens \in Seq(TokenEntries)
      /\ win.ips \in Seq(IpEntries) /\ win.prompts \in Seq(PromptEntries)
  BY DEF Windows, RequestEntries, TokenEntries, IpEntries, PromptEntries
<1>2. PICK r, t, i, p : r = Older(win.requests) /\ t = Older(win.tokens)
                        /\ i = Older(win.ips) /\ p = Older(win.prompts)
  OBVIOUS
<1>3. /\ r \in Seq(RequestEntries) /\ t \in Seq(TokenEntries)
      /\ i \in Seq(IpEntries) /\ p \in Seq(PromptEntries) /\ Older(all) \in Seq(Events)
  BY <1>1, <1>2, KindsAge, OlderAges
<1>4. OlderWindows(win) = [win EXCEPT !.requests = r, !.tokens = t, !.ips = i, !.prompts = p]
  BY <1>2 DEF OlderWindows, Windows
<1>5. [win EXCEPT !.requests = r, !.tokens = t, !.ips = i, !.prompts = p] \in Windows
  BY <1>3 DEF Windows, RequestEntries, TokenEntries, IpEntries, PromptEntries
<1> QED BY <1>3, <1>4, <1>5

-------------------------------------------------------------------------------
(* API keys. *)

(* The powers of two are the sizes of sets of sets. *)
LEMMA PowersGrow ==
    /\ \A n \in Nat : 2^n \in Nat \ {0}
    /\ \A m, n \in Nat : m <= n => 2^m <= 2^n
<1> DEFINE Sets(n) == SUBSET (1..n)
<1>1. \A n \in Nat : IsFiniteSet(1..n) /\ Cardinality(1..n) = n
  BY FS_Interval
<1>2. \A n \in Nat : IsFiniteSet(Sets(n)) /\ Cardinality(Sets(n)) = 2^Cardinality(1..n)
  BY <1>1, FS_SUBSET
<1>3. \A n \in Nat : Cardinality(Sets(n)) = 2^n
  BY <1>1, <1>2, Zenon
<1>4. ASSUME NEW n \in Nat PROVE 2^n \in Nat \ {0}
  <2>1. IsFiniteSet(Sets(n)) /\ Sets(n) # {}
    BY <1>2
  <2>2. Cardinality(Sets(n)) \in Nat /\ Cardinality(Sets(n)) # 0
    BY <2>1, FS_CardinalityType, FS_EmptySet
  <2> QED BY <2>2, <1>3
<1>5. ASSUME NEW m \in Nat, NEW n \in Nat, m <= n PROVE 2^m <= 2^n
  <2>1. Sets(m) \subseteq Sets(n)
    BY <1>5
  <2>2. Cardinality(Sets(m)) <= Cardinality(Sets(n))
    BY <1>2, <2>1, FS_Subset
  <2> QED BY <2>2, <1>3
<1> QED BY <1>4, <1>5

(* A ban lasts, no longer than the cap, and a later one no shorter.         *)
LEMMA DurationsGrow ==
    /\ \A n \in Nat \ {0} : Duration(n) \in 1..MaxBan
    /\ \A m, n \in Nat \ {0} : m <= n => Duration(m) <= Duration(n)
<1>1. BaseBan \in Nat \ {0} /\ MaxBan \in Nat \ {0}
  BY ThresholdsAssumption
<1>2. ASSUME NEW n \in Nat \ {0} PROVE BaseBan * 2^(n - 1) \in Nat \ {0}
  <2>1. n - 1 \in Nat
    OBVIOUS
  <2>2. 2^(n - 1) \in Nat \ {0}
    BY <2>1, PowersGrow
  <2>3. \A p \in Nat \ {0} : BaseBan * p \in Nat \ {0}
    BY <1>1
  <2> QED BY <2>2, <2>3
<1>3. ASSUME NEW m \in Nat \ {0}, NEW n \in Nat \ {0}, m <= n
      PROVE  BaseBan * 2^(m - 1) <= BaseBan * 2^(n - 1)
  <2>1. m - 1 \in Nat /\ n - 1 \in Nat /\ m - 1 <= n - 1
    BY <1>3
  <2>2. 2^(m - 1) \in Nat /\ 2^(n - 1) \in Nat /\ 2^(m - 1) <= 2^(n - 1)
    BY <2>1, PowersGrow
  <2>3. \A p, q \in Nat : p <= q => BaseBan * p <= BaseBan * q
    BY <1>1
  <2> QED BY <2>2, <2>3
<1>4. ASSUME NEW n \in Nat \ {0} PROVE Duration(n) \in 1..MaxBan
  BY <1>1, <1>2 DEF Duration
<1>5. ASSUME NEW m \in Nat \ {0}, NEW n \in Nat \ {0}, m <= n PROVE Duration(m) <= Duration(n)
  <2>1. BaseBan * 2^(m - 1) <= BaseBan * 2^(n - 1)
    BY <1>3, <1>5
  <2>2. BaseBan * 2^(m - 1) \in Nat /\ BaseBan * 2^(n - 1) \in Nat
    BY <1>2
  <2> QED BY <1>1, <2>1, <2>2 DEF Duration
<1> QED BY <1>4, <1>5

(* What the members of the types are. *)
LEMMA BansTyped ==
    ASSUME NEW bans \in Bans
    PROVE  /\ bans = [key |-> bans.key, user |-> bans.user]
           /\ \A k \in Keys : bans.key[k] \in 0..MaxBan
           /\ \A k \in Keys, n \in 0..MaxBan :
                 /\ [bans EXCEPT !.key[k] = n] \in Bans
                 /\ [bans EXCEPT !.key[k] = n].key = [bans.key EXCEPT ![k] = n]
           /\ \A u \in Users, n \in 0..MaxBan :
                 /\ [bans EXCEPT !.user[u] = n] \in Bans
                 /\ [bans EXCEPT !.user[u] = n].key = bans.key
BY DEF Bans

LEMMA NothingYet ==
    /\ NoKey \in KeyRows /\ NoBans \in Bans /\ 0 \in 0..MaxBan
    /\ NoRequest \in [phase : {"idle"} \cup Workers, key : Keys \cup {1}, used : Nat]
    /\ NoRequest.phase = "idle" /\ "idle" \notin Workers /\ "redis" \notin Workers
    /\ Stores = Workers \cup {"redis"}
<1>1. MaxBan \in Nat \ {0} /\ BudgetPeriod \in Nat
  BY ThresholdsAssumption, BudgetAssumption
<1>2. NoKey \in KeyRows
  BY <1>1 DEF NoKey, KeyRows, Places
<1>3. NoBans \in Bans
  BY <1>1 DEF NoBans, Bans
<1>4. /\ NoRequest \in [phase : {"idle"} \cup Workers, key : Keys \cup {1}, used : Nat]
      /\ NoRequest.phase = "idle"
  BY DEF NoRequest
<1>5. "idle" \notin Workers /\ "redis" \notin Workers
  BY WorkersAssumption
<1> QED BY <1>1, <1>2, <1>3, <1>4, <1>5 DEF Stores

(* Keys come, go and move, and a budget's period ends. *)
LEMMA RowsTyped ==
    ASSUME NEW row \in KeyRows
    PROVE  /\ row.used \in Nat /\ Refreshed(row) \in KeyRows /\ Refreshed(row).used \in Nat
           /\ \A place \in Places : [row EXCEPT !.place = place] \in KeyRows
           /\ \A n \in Nat : [row EXCEPT !.used = n] \in KeyRows
           /\ ~(row.reset <= 0) => [row EXCEPT !.reset = @ - 1] \in KeyRows
<1>1. BudgetPeriod \in Nat
  BY BudgetAssumption
<1>2. /\ row.state \in {"none", "active", "over"} /\ row.place \in Places
      /\ row.used \in Nat /\ row.reset \in -1..BudgetPeriod
      /\ row = [state |-> row.state, place |-> row.place, used |-> row.used, reset |-> row.reset]
  BY DEF KeyRows
<1>3. /\ \A place \in Places : [row EXCEPT !.place = place] \in KeyRows
      /\ \A n \in Nat : [row EXCEPT !.used = n] \in KeyRows
  BY DEF KeyRows
<1>4. [row EXCEPT !.used = 0, !.reset = -1] \in KeyRows
  <2>1. \A n \in Nat, z \in -1..BudgetPeriod : [row EXCEPT !.used = n, !.reset = z] \in KeyRows
    BY DEF KeyRows
  <2>2. 0 \in Nat /\ -1 \in -1..BudgetPeriod
    BY <1>1
  <2> QED BY <2>1, <2>2, Zenon
<1>5. ASSUME ~(row.reset <= 0) PROVE [row EXCEPT !.reset = @ - 1] \in KeyRows
  <2>1. row.reset - 1 \in -1..BudgetPeriod
    BY <1>1, <1>2, <1>5
  <2> QED BY <1>2, <2>1 DEF KeyRows
<1>6. Refreshed(row) \in KeyRows
  BY <1>4 DEF Refreshed
<1>7. Refreshed(row).used \in Nat
  BY <1>6 DEF KeyRows
<1> QED BY <1>2, <1>3, <1>5, <1>6, <1>7

LEMMA MakesKeys ==
    /\ \A reset \in {BudgetPeriod, -1} : [NoKey EXCEPT !.state = "active", !.reset = reset] \in KeyRows
    /\ [NoKey EXCEPT !.state = "over"] \in KeyRows
<1>1. \A reset \in {BudgetPeriod, -1} : reset \in -1..BudgetPeriod
  BY BudgetAssumption
<1>2. ASSUME NEW row \in KeyRows, NEW reset \in -1..BudgetPeriod
      PROVE  [row EXCEPT !.state = "active", !.reset = reset] \in KeyRows
  BY DEF KeyRows
<1>3. \A row \in KeyRows : [row EXCEPT !.state = "over"] \in KeyRows
  BY DEF KeyRows
<1> QED BY <1>1, <1>2, <1>3, NothingYet, Zenon

(* Every request that is running has a key of the table. *)
KeysInv == KeysTypeOK /\ \A r \in Requests : request[r].phase # "idle" => request[r].key \in Keys

LEMMA GreaterOf == \A a, b \in Nat : Max({a, b}) = IF a >= b THEN a ELSE b
<1> SUFFICES ASSUME NEW a \in Nat, NEW b \in Nat PROVE Max({a, b}) = IF a >= b THEN a ELSE b
  OBVIOUS
<1> DEFINE top == IF a >= b THEN a ELSE b
<1>1. top \in {a, b} /\ \A y \in {a, b} : top >= y
  OBVIOUS
<1>2. \A x \in {a, b} : (\A y \in {a, b} : x >= y) => x = top
  OBVIOUS
<1>3. Max({a, b}) \in {a, b} /\ \A y \in {a, b} : Max({a, b}) >= y
  BY <1>1, Zenon DEF Max
<1> QED BY <1>2, <1>3

(* A strike, the key's nth: the worker has the ban in any case, and Redis if *)
(* it took it.                                                              *)
BannedFor(w, k, taken, n) ==
    LET longer == IF sentence[k] >= Duration(n) THEN sentence[k] ELSE Duration(n)
    IN  /\ n \in Nat \ {0} /\ Duration(n) \in 1..MaxBan
        /\ strikes' = [strikes EXCEPT ![w][k] = n]
        /\ banned' \in [Stores -> Bans]
        /\ banned'[w].key = [banned[w].key EXCEPT ![k] = Duration(n)]
        /\ IF taken = "nothing" THEN banned'["redis"] = banned["redis"]
           ELSE banned'["redis"].key = [banned["redis"].key EXCEPT ![k] = Duration(n)]
        /\ sentence' = [sentence EXCEPT ![k] = longer]
        /\ sentence' \in [Keys -> 0..MaxBan]

LEMMA BanStep ==
    ASSUME KeysInv, NEW w \in Workers, NEW k \in Keys, NEW taken \in {"nothing", "key", "both"},
           Ban(w, k, taken)
    PROVE  BannedFor(w, k, taken, strikes[w][k] + 1)
<1> DEFINE n == strikes[w][k] + 1
           d == Duration(n)
           withKey(bans) == [bans EXCEPT !.key[k] = d]
           withUser(bans) == [bans EXCEPT !.user[Owner[k]] = d]
           inWorker == withUser(withKey(banned[w]))
           inRedis == CASE taken = "nothing" -> banned["redis"]
                        [] taken = "key" -> withKey(banned["redis"])
                        [] taken = "both" -> withUser(withKey(banned["redis"]))
<1>1. /\ strikes[w][k] \in Nat /\ n \in Nat \ {0}
      /\ banned \in [Stores -> Bans] /\ sentence \in [Keys -> 0..MaxBan]
  BY DEF KeysInv, KeysTypeOK
<1>2. d \in 1..MaxBan /\ MaxBan \in Nat \ {0} /\ d \in 0..MaxBan
  <2>1. d \in 1..MaxBan
    BY <1>1, DurationsGrow
  <2> QED BY <2>1, ThresholdsAssumption
<1>3. w \in Stores /\ "redis" \in Stores /\ w # "redis" /\ Owner[k] \in Users
  BY NothingYet, OwnerAssumption
<1>4. banned[w] \in Bans /\ banned["redis"] \in Bans
  BY <1>1, <1>3
<1> HIDE DEF d, n
<1>5. \A bans \in Bans : /\ withKey(bans) \in Bans /\ withUser(bans) \in Bans
                         /\ withKey(bans).key = [bans.key EXCEPT ![k] = d]
                         /\ withUser(bans).key = bans.key
  BY <1>2, <1>3, BansTyped
<1> HIDE DEF withKey, withUser
<1>6. inWorker \in Bans /\ inWorker.key = [banned[w].key EXCEPT ![k] = d]
  BY <1>4, <1>5
<1>7. /\ inRedis \in Bans
      /\ taken # "nothing" => inRedis.key = [banned["redis"].key EXCEPT ![k] = d]
      /\ taken = "nothing" => inRedis = banned["redis"]
  BY <1>4, <1>5
<1>8. banned' = [banned EXCEPT ![w] = inWorker, !["redis"] = inRedis]
  BY <1>1, <1>3 DEF Ban, n, d, withKey, withUser
<1> HIDE DEF inWorker, inRedis
<1>9. /\ banned'[w] = inWorker /\ banned'["redis"] = inRedis
      /\ banned' \in [Stores -> Bans]
  BY <1>1, <1>3, <1>6, <1>7, <1>8, NothingYet
<1>10. strikes' = [strikes EXCEPT ![w][k] = n]
  BY DEF Ban, n
<1>11. sentence[k] \in 0..MaxBan /\ sentence[k] \in Nat /\ d \in Nat
  BY <1>1, <1>2
<1>12. Max({sentence[k], d}) = IF sentence[k] >= d THEN sentence[k] ELSE d
  BY <1>11, GreaterOf
<1>13. sentence' = [sentence EXCEPT ![k] = Max({sentence[k], d})]
  BY DEF Ban, n, d
<1>14. sentence' = [sentence EXCEPT ![k] = IF sentence[k] >= d THEN sentence[k] ELSE d]
  BY <1>12, <1>13, Zenon
<1>15. sentence' \in [Keys -> 0..MaxBan]
  BY <1>1, <1>2, <1>11, <1>14
<1> QED BY <1>1, <1>2, <1>6, <1>7, <1>9, <1>10, <1>14, <1>15 DEF BannedFor, n, d

(* An event is recorded of a key, in its windows and in what has been seen. *)
RecordedOf(w, k, e) ==
    /\ e \in Events /\ e.age = 0
    /\ windows' = [windows EXCEPT ![w][k] = Recorded(@, e.ip, e.tokens, e.blocked, e.prompt)]
    /\ seen' = [seen EXCEPT ![w][k] = Append(@, e)]

LEMMA RecordEvent ==
    ASSUME KeysInv, NEW w \in Workers, NEW k \in Keys, NEW taken,
           NEW ip \in Ips, NEW tokens \in Nat, NEW blocked \in BOOLEAN, NEW prompt \in Prompts,
           Record(w, k, ip, tokens, blocked, prompt, taken)
    PROVE  \E e \in Events : RecordedOf(w, k, e) /\ e.prompt = prompt
<1>1. PICK e : e = [age |-> 0, ip |-> ip, tokens |-> tokens, blocked |-> blocked, prompt |-> prompt]
  OBVIOUS
<1>2. e \in Events /\ e.age = 0 /\ e.ip = ip /\ e.tokens = tokens /\ e.blocked = blocked /\ e.prompt = prompt
  BY <1>1 DEF Events
<1>3. seen' = [seen EXCEPT ![w][k] = Append(@, e)]
  BY <1>1 DEF Record
<1>4. windows' = [windows EXCEPT ![w][k] = Recorded(windows[w][k], e.ip, e.tokens, e.blocked, e.prompt)]
  BY <1>2 DEF Record
<1>5. windows' = [windows EXCEPT ![w][k] = Recorded(@, e.ip, e.tokens, e.blocked, e.prompt)]
  BY <1>4, Zenon DEF KeysInv, KeysTypeOK
<1> QED BY <1>2, <1>3, <1>5 DEF RecordedOf

(* What is recorded of a key moves the bans only by a strike. *)
LEMMA RecordStep ==
    ASSUME KeysInv, NEW w \in Workers, NEW k \in Keys, NEW taken \in {"nothing", "key", "both"},
           NEW ip \in Ips, NEW tokens \in Nat, NEW blocked \in BOOLEAN, NEW prompt \in Prompts,
           Record(w, k, ip, tokens, blocked, prompt, taken)
    PROVE  /\ windows' \in [Workers -> [Keys -> Windows]] /\ seen' \in [Workers -> [Keys -> Seq(Events)]]
           /\ strikes' \in [Workers -> [Keys -> Nat]] /\ banned' \in [Stores -> Bans]
           /\ sentence' \in [Keys -> 0..MaxBan] /\ kept' \subseteq Keys
           /\ \/ Ban(w, k, taken)
              \/ UNCHANGED <<strikes, banned, sentence, kept>>
<1>1. windows' \in [Workers -> [Keys -> Windows]] /\ seen' \in [Workers -> [Keys -> Seq(Events)]]
  <2>1. PICK e \in Events : RecordedOf(w, k, e)
    BY RecordEvent
  <2>2. /\ windows \in [Workers -> [Keys -> Windows]] /\ seen \in [Workers -> [Keys -> Seq(Events)]]
        /\ windows[w][k] \in Windows /\ seen[w][k] \in Seq(Events)
    BY DEF KeysInv, KeysTypeOK
  <2>3. PICK new : new = Recorded(windows[w][k], e.ip, e.tokens, e.blocked, e.prompt)
    OBVIOUS
  <2>4. new \in Windows
    BY <2>1, <2>2, <2>3, RecordedTyped DEF RecordedOf
  <2>5. windows' = [windows EXCEPT ![w][k] = new]
    BY <2>1, <2>3, Zenon DEF RecordedOf
  <2>6. PICK list : list = Append(seen[w][k], e)
    OBVIOUS
  <2>7. list \in Seq(Events)
    BY <2>2, <2>6, AppendProperties
  <2>8. seen' = [seen EXCEPT ![w][k] = list]
    BY <2>1, <2>6, Zenon DEF RecordedOf
  <2> QED BY <2>2, <2>4, <2>5, <2>7, <2>8
<1>2. Ban(w, k, taken) \/ UNCHANGED <<strikes, banned, sentence, kept>>
  BY DEF Record
<1>3. CASE Ban(w, k, taken)
  <2>1. BannedFor(w, k, taken, strikes[w][k] + 1)
    BY <1>3, BanStep
  <2>2. strikes' \in [Workers -> [Keys -> Nat]]
    BY <2>1 DEF BannedFor, KeysInv, KeysTypeOK
  <2>3. kept' \subseteq Keys
    BY <1>3 DEF Ban, KeysInv, KeysTypeOK
  <2> QED BY <1>1, <1>3, <2>1, <2>2, <2>3 DEF BannedFor
<1>4. CASE UNCHANGED <<strikes, banned, sentence, kept>>
  BY <1>1, <1>4 DEF KeysInv, KeysTypeOK
<1> QED BY <1>2, <1>3, <1>4

LEMMA InitKeys == KeysInit => KeysInv
<1> SUFFICES ASSUME KeysInit PROVE KeysInv
  OBVIOUS
<1>1. key \in [Keys -> KeyRows] /\ banned \in [Stores -> Bans] /\ sentence \in [Keys -> 0..MaxBan]
  BY NothingYet DEF KeysInit
<1>2. /\ request \in [Requests -> [phase : {"idle"} \cup Workers, key : Keys \cup {1}, used : Nat]]
      /\ \A r \in Requests : request[r].phase = "idle"
  BY NothingYet DEF KeysInit
<1>3. windows \in [Workers -> [Keys -> Windows]] /\ seen \in [Workers -> [Keys -> Seq(Events)]]
  BY NothingFollows DEF KeysInit
<1> QED BY <1>1, <1>2, <1>3 DEF KeysInit, KeysInv, KeysTypeOK

(* What happens to keys, and what lets a request in, touches no ban. *)
LEMMA KeyStepsTyped ==
    ASSUME KeysInv, NEW k \in Keys,
           \/ CreateKey(k) \/ EndKey(k) \/ (\E place \in Places : Move(k, place))
    PROVE  KeysInv'
<1>1. key \in [Keys -> KeyRows] /\ key[k] \in KeyRows
  BY DEF KeysInv, KeysTypeOK
<1>2. key' \in [Keys -> KeyRows]
  <2>1. CASE CreateKey(k)
    <3>1. (IF k \in Budgeted THEN BudgetPeriod ELSE -1) \in {BudgetPeriod, -1}
      OBVIOUS
    <3> QED BY <1>1, <2>1, <3>1, MakesKeys DEF CreateKey
  <2>2. CASE EndKey(k)
    BY <1>1, <2>2, MakesKeys DEF EndKey
  <2>3. CASE \E place \in Places : Move(k, place)
    BY <1>1, <2>3, RowsTyped DEF Move
  <2> QED BY <2>1, <2>2, <2>3
<1>3. UNCHANGED <<redis, windows, strikes, banned, request, sentence, kept, seen>>
  BY DEF CreateKey, EndKey, Move
<1> QED BY <1>2, <1>3 DEF KeysInv, KeysTypeOK

LEMMA AcceptTyped ==
    ASSUME KeysInv, NEW w \in Workers, NEW r \in Requests, NEW k \in Keys, NEW how, Accept(w, r, k, how)
    PROVE  KeysInv'
<1>1. key \in [Keys -> KeyRows] /\ key[k] \in KeyRows /\ sentence \in [Keys -> 0..MaxBan]
  BY DEF KeysInv, KeysTypeOK
<1>2. Refreshed(key[k]) \in KeyRows /\ Refreshed(key[k]).used \in Nat
  BY <1>1, RowsTyped
<1>3. key' \in [Keys -> KeyRows]
  BY <1>1, <1>2 DEF Accept
<1>4. sentence' \in [Keys -> 0..MaxBan]
  BY <1>1, NothingYet DEF Accept
<1> DEFINE entered == [phase |-> w, key |-> k, used |-> Refreshed(key[k]).used]
<1>5. /\ entered \in [phase : {"idle"} \cup Workers, key : Keys \cup {1}, used : Nat]
      /\ entered.key \in Keys
  BY <1>2
<1>6. request' = [request EXCEPT ![r] = entered]
  BY DEF Accept
<1> HIDE DEF entered
<1>7. /\ request' \in [Requests -> [phase : {"idle"} \cup Workers, key : Keys \cup {1}, used : Nat]]
      /\ \A q \in Requests : request'[q].phase # "idle" => request'[q].key \in Keys
  BY <1>5, <1>6 DEF KeysInv, KeysTypeOK
<1>8. UNCHANGED <<redis, windows, strikes, banned, kept, seen>>
  BY DEF Accept
<1> QED BY <1>3, <1>4, <1>7, <1>8 DEF KeysInv, KeysTypeOK

(* The end of a request. *)
LEMMA ReleasedTyped ==
    ASSUME KeysInv, NEW r \in Requests, request' = [request EXCEPT ![r] = NoRequest]
    PROVE  /\ request' \in [Requests -> [phase : {"idle"} \cup Workers, key : Keys \cup {1}, used : Nat]]
           /\ \A q \in Requests : request'[q].phase # "idle" => request'[q].key \in Keys
BY NothingYet DEF KeysInv, KeysTypeOK

LEMMA EndsTyped ==
    ASSUME KeysInv, NEW r \in Requests, NEW ip \in Ips, NEW prompt \in Prompts, NEW taken \in {"nothing", "key", "both"},
           \/ Refuse(r, ip, prompt, taken)
           \/ (\E tokens \in Uses, delivered \in BOOLEAN : Answer(r, ip, tokens, delivered, prompt, taken))
    PROVE  KeysInv'
<1> DEFINE w == request[r].phase
           k == request[r].key
<1>1. w \in Workers /\ request' = [request EXCEPT ![r] = NoRequest] /\ redis' = redis
  BY DEF Refuse, Answer
<1>2. k \in Keys /\ request[r].used \in Nat /\ key \in [Keys -> KeyRows]
  BY <1>1, NothingYet DEF KeysInv, KeysTypeOK
<1>3. PICK tokens \in Nat, blocked \in BOOLEAN : Record(w, k, ip, tokens, blocked, prompt, taken)
  BY BudgetAssumption DEF Refuse, Answer
<1>4. key' \in [Keys -> KeyRows]
  <2>1. CASE Refuse(r, ip, prompt, taken)
    BY <1>2, <2>1 DEF Refuse
  <2>2. ASSUME NEW n \in Uses, NEW delivered \in BOOLEAN, Answer(r, ip, n, delivered, prompt, taken)
        PROVE  key' \in [Keys -> KeyRows]
    <3>1. request[r].used + n \in Nat
      BY <1>2, BudgetAssumption
    <3>2. \/ key' = key
          \/ key' = [key EXCEPT ![k].used = request[r].used + n]
      BY <2>2 DEF Answer
    <3>3. key[k] \in KeyRows
      BY <1>2
    <3>4. [key[k] EXCEPT !.used = request[r].used + n] \in KeyRows
      BY <3>1, <3>3, RowsTyped
    <3> QED BY <1>2, <3>2, <3>4
  <2> QED BY <2>1, <2>2
<1> HIDE DEF w, k
<1>5. /\ windows' \in [Workers -> [Keys -> Windows]] /\ seen' \in [Workers -> [Keys -> Seq(Events)]]
      /\ strikes' \in [Workers -> [Keys -> Nat]] /\ banned' \in [Stores -> Bans]
      /\ sentence' \in [Keys -> 0..MaxBan] /\ kept' \subseteq Keys
  BY <1>1, <1>2, <1>3, RecordStep
<1>6. /\ request' \in [Requests -> [phase : {"idle"} \cup Workers, key : Keys \cup {1}, used : Nat]]
      /\ \A q \in Requests : request'[q].phase # "idle" => request'[q].key \in Keys
  BY <1>1, ReleasedTyped
<1>7. redis' \in {"none", "up", "down"}
  BY <1>1 DEF KeysInv, KeysTypeOK
<1> QED BY <1>4, <1>5, <1>6, <1>7 DEF KeysInv, KeysTypeOK

LEMMA UnbanTyped ==
    ASSUME KeysInv, NEW w \in Workers, NEW keys \in SUBSET Keys, NEW u \in Users, Unban(w, keys, u)
    PROVE  KeysInv'
<1> DEFINE lifted(bans) == [key  |-> [k \in Keys |-> IF k \in keys THEN 0 ELSE bans.key[k]],
                            user |-> [bans.user EXCEPT ![u] = 0]]
<1>1. \A bans \in Bans : lifted(bans) \in Bans
  BY NothingYet DEF Bans
<1>2. banned' \in [Stores -> Bans]
  BY <1>1 DEF Unban, KeysInv, KeysTypeOK
<1>3. strikes' \in [Workers -> [Keys -> Nat]]
  BY DEF Unban, KeysInv, KeysTypeOK
<1>4. sentence' \in [Keys -> 0..MaxBan]
  BY NothingYet DEF Unban, KeysInv, KeysTypeOK
<1>5. UNCHANGED <<key, redis, windows, request, kept, seen>>
  BY DEF Unban
<1> QED BY <1>2, <1>3, <1>4, <1>5 DEF KeysInv, KeysTypeOK

LEMMA RestartTyped ==
    ASSUME KeysInv, NEW w \in Workers, RestartWorker(w)
    PROVE  KeysInv'
<1>1. banned' \in [Stores -> Bans] /\ strikes' \in [Workers -> [Keys -> Nat]]
  BY NothingYet DEF RestartWorker, KeysInv, KeysTypeOK
<1>2. sentence' \in [Keys -> 0..MaxBan]
  BY NothingYet DEF RestartWorker, KeysInv, KeysTypeOK
<1>3. /\ request' \in [Requests -> [phase : {"idle"} \cup Workers, key : Keys \cup {1}, used : Nat]]
      /\ \A r \in Requests : request'[r].phase # "idle" => request'[r].key \in Keys
  BY NothingYet DEF RestartWorker, KeysInv, KeysTypeOK
<1>4. /\ windows' \in [Workers -> [Keys -> Windows]] /\ seen' \in [Workers -> [Keys -> Seq(Events)]]
      /\ UNCHANGED <<key, redis, kept>>
  BY NothingFollows DEF RestartWorker, KeysInv, KeysTypeOK
<1> QED BY <1>1, <1>2, <1>3, <1>4 DEF KeysInv, KeysTypeOK

LEMMA LessTyped ==
    /\ \A n \in 0..MaxBan : Less(n) \in 0..MaxBan /\ Less(n) <= n
    /\ \A m, n \in 0..MaxBan : m <= n => Less(m) <= Less(n)
    /\ \A bans \in Bans :
          [key |-> [k \in Keys |-> Less(bans.key[k])], user |-> [u \in Users |-> Less(bans.user[u])]] \in Bans
<1>1. MaxBan \in Nat
  BY ThresholdsAssumption
<1>2. /\ \A n \in 0..MaxBan : Less(n) \in 0..MaxBan /\ Less(n) <= n
      /\ \A m, n \in 0..MaxBan : m <= n => Less(m) <= Less(n)
  BY <1>1 DEF Less
<1> QED BY <1>2 DEF Bans

LEMMA TickTyped == ASSUME KeysInv, KeysTick PROVE KeysInv'
<1>1. banned' \in [Stores -> Bans]
  BY LessTyped DEF KeysTick, KeysInv, KeysTypeOK
<1>2. sentence' \in [Keys -> 0..MaxBan]
  BY LessTyped DEF KeysTick, KeysInv, KeysTypeOK
<1>3. key' \in [Keys -> KeyRows]
  BY RowsTyped DEF KeysTick, KeysInv, KeysTypeOK
<1>4. windows' \in [Workers -> [Keys -> Windows]] /\ seen' \in [Workers -> [Keys -> Seq(Events)]]
  BY OlderTyped DEF OlderWindows, KeysTick, KeysInv, KeysTypeOK
<1>5. UNCHANGED <<redis, strikes, request, kept>>
  BY DEF KeysTick
<1> QED BY <1>1, <1>2, <1>3, <1>4, <1>5 DEF KeysInv, KeysTypeOK

LEMMA NextKeys == KeysInv /\ [KeysNext]_keyVars => KeysInv'
<1> SUFFICES ASSUME KeysInv, [KeysNext]_keyVars PROVE KeysInv'
  OBVIOUS
<1>1. ASSUME NEW k \in Keys, CreateKey(k) \/ EndKey(k) PROVE KeysInv'
  BY <1>1, KeyStepsTyped
<1>2. ASSUME NEW k \in Keys, NEW place \in Places, Move(k, place) PROVE KeysInv'
  BY <1>2, KeyStepsTyped
<1>3. ASSUME NEW w \in Workers, NEW r \in Requests, NEW k \in Keys, NEW how \in {"key", "session"},
             Accept(w, r, k, how)
      PROVE  KeysInv'
  BY <1>3, AcceptTyped
<1>4. ASSUME NEW r \in Requests, NEW ip \in Ips, NEW prompt \in Prompts,
             NEW taken \in {"nothing", "key", "both"},
             \/ Refuse(r, ip, prompt, taken)
             \/ (\E tokens \in Uses, delivered \in BOOLEAN : Answer(r, ip, tokens, delivered, prompt, taken))
      PROVE  KeysInv'
  BY <1>4, EndsTyped
<1>5. ASSUME NEW r \in Requests, EndSilently(r) PROVE KeysInv'
  <2>1. /\ request' \in [Requests -> [phase : {"idle"} \cup Workers, key : Keys \cup {1}, used : Nat]]
        /\ \A q \in Requests : request'[q].phase # "idle" => request'[q].key \in Keys
    BY <1>5, ReleasedTyped DEF EndSilently
  <2>2. UNCHANGED <<key, redis, windows, strikes, banned, sentence, kept, seen>>
    BY <1>5 DEF EndSilently
  <2> QED BY <2>1, <2>2 DEF KeysInv, KeysTypeOK
<1>6. ASSUME NEW w \in Workers, NEW keys \in SUBSET Keys, NEW u \in Users, Unban(w, keys, u)
      PROVE  KeysInv'
  BY <1>6, UnbanTyped
<1>7. ASSUME NEW w \in Workers, RestartWorker(w) PROVE KeysInv'
  BY <1>7, RestartTyped
<1>8. ASSUME RedisFails \/ RedisReturns PROVE KeysInv'
  BY <1>8 DEF RedisFails, RedisReturns, KeysInv, KeysTypeOK
<1>9. CASE KeysTick
  BY <1>9, TickTyped
<1>10. CASE UNCHANGED keyVars
  BY <1>10 DEF keyVars, KeysInv, KeysTypeOK
<1> QED BY <1>1, <1>2, <1>3, <1>4, <1>5, <1>6, <1>7, <1>8, <1>9, <1>10 DEF KeysNext

(* What is recorded of a key, and what befalls it, leaves well-typed rows,  *)
(* and every running request has a key of the table (app/deps.py).          *)
THEOREM KeysInvHolds == KeysSpec => []KeysInv
BY InitKeys, NextKeys, PTL DEF KeysSpec

(* Every variable of the keys keeps its type, the doubled bans within their *)
(* cap included, for any number of workers (record_usage, maybe_auto_ban).  *)
THEOREM KeysTypesCorrect == KeysSpec => []KeysTypeOK
BY KeysInvHolds, PTL DEF KeysInv

(* A key that is still to be kept out is banned for as long in Redis, if    *)
(* Redis has taken its last ban, and else in its worker w.                  *)
SentencesServed(w) ==
    \A k \in Keys : sentence[k] <= banned[IF k \in kept THEN "redis" ELSE w].key[k]

(* While a request of a key is running its sentence is by a strike that is  *)
(* counted still, so that the next one is no shorter.                       *)
SentencesOfStrikes(w) ==
    \A r \in Requests : request[r].phase # "idle" =>
        LET k == request[r].key
        IN  sentence[k] = 0 \/ (strikes[w][k] # 0 /\ sentence[k] <= Duration(strikes[w][k]))

BansInv(w) ==
    /\ KeysInv /\ SentencesServed(w) /\ SentencesOfStrikes(w)
    /\ redis = "none" => kept = {}

LEMMA InitBans == ASSUME NEW w, Workers = {w}, KeysInit PROVE BansInv(w)
<1>1. KeysInv
  BY InitKeys
<1>2. SentencesServed(w)
  BY NothingYet DEF KeysInit, SentencesServed, NoBans
<1>3. SentencesOfStrikes(w)
  BY NothingYet DEF KeysInit, SentencesOfStrikes
<1> QED BY <1>1, <1>2, <1>3 DEF KeysInit, BansInv

(* A step that lets requests go at most and lightens no ban. *)
LEMMA QuietBans ==
    ASSUME NEW w, Workers = {w}, BansInv(w), KeysInv',
           UNCHANGED <<strikes, banned, kept>>, redis' = "none" => redis = "none",
           \A k \in Keys : sentence'[k] \in {0, sentence[k]},
           \A r \in Requests : \/ request'[r].phase = "idle"
                               \/ sentence'[request'[r].key] = 0
                               \/ request'[r] = request[r]
    PROVE  BansInv(w)'
<1>1. \A k \in Keys : /\ sentence[k] \in 0..MaxBan /\ sentence'[k] \in 0..MaxBan /\ strikes[w][k] \in Nat
                      /\ \A s \in Stores : banned[s].key[k] \in 0..MaxBan
                      /\ sentence'[k] <= sentence[k]
  <2>1. \A k \in Keys : sentence[k] \in 0..MaxBan /\ sentence'[k] \in 0..MaxBan /\ strikes[w][k] \in Nat
    BY DEF BansInv, KeysInv, KeysTypeOK
  <2>2. \A k \in Keys, s \in Stores : banned[s].key[k] \in 0..MaxBan
    BY BansTyped DEF BansInv, KeysInv, KeysTypeOK
  <2>3. \A k \in Keys : sentence'[k] <= sentence[k]
    BY <2>1
  <2> QED BY <2>1, <2>2, <2>3
<1>2. \A a, b, c \in 0..MaxBan : a <= b /\ b <= c => a <= c
  BY ThresholdsAssumption
<1>3. SentencesServed(w)'
  <2> SUFFICES ASSUME NEW k \in Keys
               PROVE  sentence'[k] <= banned[IF k \in kept THEN "redis" ELSE w].key[k]
    BY DEF SentencesServed
  <2>1. sentence[k] <= banned[IF k \in kept THEN "redis" ELSE w].key[k]
    BY DEF BansInv, SentencesServed
  <2>2. (IF k \in kept THEN "redis" ELSE w) \in Stores
    BY NothingYet
  <2> QED BY <1>1, <1>2, <2>1, <2>2
<1>4. SentencesOfStrikes(w)'
  <2> SUFFICES ASSUME NEW r \in Requests, NEW k, k = request'[r].key, request'[r].phase # "idle",
                      sentence'[k] # 0
               PROVE  strikes[w][k] # 0 /\ sentence'[k] <= Duration(strikes[w][k])
    BY DEF SentencesOfStrikes
  <2>1. k \in Keys /\ request[r].phase # "idle" /\ k = request[r].key
    BY DEF KeysInv
  <2>2. sentence'[k] = sentence[k]
    BY <2>1
  <2>3. sentence[k] # 0
    BY <2>2
  <2>4. strikes[w][k] # 0 /\ sentence[k] <= Duration(strikes[w][k])
    BY <2>1, <2>3 DEF BansInv, SentencesOfStrikes
  <2> QED BY <2>2, <2>4
<1> QED BY <1>3, <1>4 DEF BansInv

LEMMA EndsKeepBans ==
    ASSUME NEW w, Workers = {w}, BansInv(w), KeysInv',
           NEW r \in Requests, NEW ip, NEW prompt, NEW taken \in {"nothing", "key", "both"},
           \/ Refuse(r, ip, prompt, taken)
           \/ (\E tokens \in Uses, delivered \in BOOLEAN : Answer(r, ip, tokens, delivered, prompt, taken))
    PROVE  BansInv(w)'
<1>1. /\ request[r].phase = w /\ request' = [request EXCEPT ![r] = NoRequest] /\ redis' = redis
      /\ request \in [Requests -> [phase : {"idle"} \cup Workers, key : Keys \cup {1}, used : Nat]]
      /\ w \in Workers
  BY DEF Refuse, Answer, BansInv, KeysInv, KeysTypeOK
<1>2. PICK k : k = request[r].key
  OBVIOUS
<1>3. k \in Keys /\ request[r].phase # "idle"
  BY <1>1, <1>2, NothingYet DEF BansInv, KeysInv
<1>4. \E tokens, blocked : Record(w, k, ip, tokens, blocked, prompt, taken)
  BY <1>1, <1>2 DEF Refuse, Answer
<1>5. (redis # "up" => taken = "nothing") \/ UNCHANGED <<strikes, banned, sentence, kept>>
  BY <1>4 DEF Record, Ban
<1>6. Ban(w, k, taken) \/ UNCHANGED <<strikes, banned, sentence, kept>>
  BY <1>4 DEF Record
<1>7. \A q \in Requests : request'[q].phase = "idle" \/ request'[q] = request[q]
  BY <1>1, NothingYet
<1>8. CASE UNCHANGED <<strikes, banned, sentence, kept>>
  BY <1>1, <1>7, <1>8, QuietBans
<1>9. CASE Ban(w, k, taken)
  <2>1. PICK n : n = strikes[w][k] + 1
    OBVIOUS
  <2>2. BannedFor(w, k, taken, n)
    BY <1>1, <1>3, <1>9, <2>1, BanStep DEF BansInv
  <2>3. n \in Nat \ {0} /\ Duration(n) \in 1..MaxBan /\ MaxBan \in Nat
    BY <2>2, ThresholdsAssumption DEF BannedFor
  <2>4. strikes[w][k] \in Nat /\ sentence[k] \in 0..MaxBan
    BY <1>1, <1>3 DEF BansInv, KeysInv, KeysTypeOK
  <2>5. sentence[k] <= Duration(n)
    <3>1. CASE sentence[k] = 0
      BY <2>3, <3>1
    <3>2. CASE sentence[k] # 0
      <4>1. strikes[w][k] # 0 /\ sentence[k] <= Duration(strikes[w][k])
        BY <1>2, <1>3, <3>2 DEF BansInv, SentencesOfStrikes
      <4>2. Duration(strikes[w][k]) <= Duration(n) /\ Duration(strikes[w][k]) \in 1..MaxBan
        BY <2>1, <2>3, <2>4, <4>1, DurationsGrow
      <4> QED BY <2>3, <2>4, <4>1, <4>2
    <3> QED BY <3>1, <3>2
  <2>6. /\ strikes' = [strikes EXCEPT ![w][k] = n]
        /\ sentence' = [sentence EXCEPT ![k] = Duration(n)]
        /\ banned'[w].key = [banned[w].key EXCEPT ![k] = Duration(n)]
        /\ taken = "nothing" => banned'["redis"] = banned["redis"]
        /\ taken # "nothing" => banned'["redis"].key = [banned["redis"].key EXCEPT ![k] = Duration(n)]
    <3>1. (IF sentence[k] >= Duration(n) THEN sentence[k] ELSE Duration(n)) = Duration(n)
      BY <2>3, <2>4, <2>5
    <3>2. sentence' = [sentence EXCEPT ![k] = IF sentence[k] >= Duration(n) THEN sentence[k] ELSE Duration(n)]
      BY <2>2 DEF BannedFor
    <3>3. sentence' = [sentence EXCEPT ![k] = Duration(n)]
      BY <3>1, <3>2, Zenon
    <3> QED BY <2>2, <3>3 DEF BannedFor
  <2>7. kept' = IF taken = "nothing" THEN kept \ {k} ELSE kept \cup {k}
    BY <1>9 DEF Ban
  <2>8. /\ strikes \in [Workers -> [Keys -> Nat]] /\ sentence \in [Keys -> 0..MaxBan]
        /\ DOMAIN banned[w].key = Keys /\ DOMAIN banned["redis"].key = Keys
    BY <1>1, NothingYet DEF BansInv, KeysInv, KeysTypeOK, Bans
  <2>9. SentencesServed(w)'
    <3> SUFFICES ASSUME NEW j \in Keys
                 PROVE  sentence'[j] <= banned'[IF j \in kept' THEN "redis" ELSE w].key[j]
      BY DEF SentencesServed
    <3>1. CASE j = k
      <4>1. sentence'[j] = Duration(n) /\ banned'[w].key[j] = Duration(n)
        BY <1>3, <2>6, <2>8, <3>1
      <4>2. j \in kept' => banned'["redis"].key[j] = Duration(n)
        BY <1>3, <2>6, <2>7, <2>8, <3>1
      <4> QED BY <2>3, <4>1, <4>2
    <3>2. CASE j # k
      <4>1. sentence'[j] = sentence[j] /\ (j \in kept' <=> j \in kept)
        BY <2>6, <2>7, <2>8, <3>2
      <4>2. banned'[w].key[j] = banned[w].key[j] /\ banned'["redis"].key[j] = banned["redis"].key[j]
        BY <2>6, <2>8, <3>2
      <4>3. sentence[j] <= banned[IF j \in kept THEN "redis" ELSE w].key[j]
        BY DEF BansInv, SentencesServed
      <4> QED BY <4>1, <4>2, <4>3
    <3> QED BY <3>1, <3>2
  <2>10. SentencesOfStrikes(w)'
    <3> SUFFICES ASSUME NEW q \in Requests, NEW j, j = request'[q].key, request'[q].phase # "idle",
                        sentence'[j] # 0
                 PROVE  strikes'[w][j] # 0 /\ sentence'[j] <= Duration(strikes'[w][j])
      BY DEF SentencesOfStrikes
    <3>1. j \in Keys /\ request'[q] = request[q] /\ request[q].phase # "idle" /\ j = request[q].key
      BY <1>7 DEF KeysInv
    <3>2. CASE j = k
      <4>1. sentence'[j] = Duration(n) /\ strikes'[w][j] = n
        BY <1>1, <1>3, <2>6, <2>8, <3>2
      <4> QED BY <2>3, <4>1
    <3>3. CASE j # k
      <4>1. sentence'[j] = sentence[j] /\ strikes'[w][j] = strikes[w][j]
        BY <1>1, <2>6, <2>8, <3>3
      <4>2. strikes[w][j] # 0 /\ sentence[j] <= Duration(strikes[w][j])
        BY <3>1, <4>1 DEF BansInv, SentencesOfStrikes
      <4> QED BY <4>1, <4>2
    <3> QED BY <3>2, <3>3
  <2>11. redis = "none" => kept' = {}
    BY <1>5, <1>9, <2>3, <2>6, <2>7, <2>4, <2>8 DEF BansInv, Ban
  <2> QED BY <1>1, <2>9, <2>10, <2>11 DEF BansInv
<1> QED BY <1>6, <1>8, <1>9

LEMMA UnbanKeepsBans ==
    ASSUME NEW w, Workers = {w}, BansInv(w), KeysInv', NEW keys \in SUBSET Keys, NEW u \in Users,
           Unban(w, keys, u)
    PROVE  BansInv(w)'
<1>1. /\ banned \in [Stores -> Bans] /\ strikes \in [Workers -> [Keys -> Nat]]
      /\ w \in Stores /\ "redis" \in Stores /\ w \in Workers
      /\ \A s \in Stores, k \in Keys : banned[s].key[k] \in 0..MaxBan
  BY NothingYet, BansTyped DEF BansInv, KeysInv, KeysTypeOK
<1>2. /\ sentence' = [k \in Keys |-> IF k \in keys THEN 0 ELSE sentence[k]]
      /\ strikes' = [strikes EXCEPT ![w] = [k \in Keys |-> IF k \in keys THEN 0 ELSE @[k]]]
      /\ UNCHANGED <<key, redis, windows, request, kept, seen>>
  BY DEF Unban
<1>3. \A s \in {w, "redis"}, k \in Keys : banned'[s].key[k] \in {0, banned[s].key[k]}
                                      /\ (k \notin keys => banned'[s].key[k] = banned[s].key[k])
  BY <1>1 DEF Unban
<1>4. SentencesServed(w)'
  <2> SUFFICES ASSUME NEW k \in Keys
               PROVE  sentence'[k] <= banned'[IF k \in kept THEN "redis" ELSE w].key[k]
    BY <1>2 DEF SentencesServed
  <2>1. PICK s \in {w, "redis"} : s = IF k \in kept THEN "redis" ELSE w
    OBVIOUS
  <2>2. sentence[k] <= banned[s].key[k] /\ banned[s].key[k] \in 0..MaxBan
    BY <1>1, <2>1 DEF BansInv, SentencesServed
  <2>3. CASE k \in keys
    BY <1>2, <1>3, <2>1, <2>2, <2>3
  <2>4. CASE k \notin keys
    BY <1>2, <1>3, <2>1, <2>2, <2>4
  <2> QED BY <2>3, <2>4
<1>5. SentencesOfStrikes(w)'
  <2> SUFFICES ASSUME NEW r \in Requests, NEW k, k = request[r].key, request[r].phase # "idle",
                      sentence'[k] # 0
               PROVE  strikes'[w][k] # 0 /\ sentence'[k] <= Duration(strikes'[w][k])
    BY <1>2 DEF SentencesOfStrikes
  <2>1. k \in Keys
    BY DEF BansInv, KeysInv
  <2>2. k \notin keys /\ sentence'[k] = sentence[k]
    BY <1>2, <2>1
  <2>3. strikes'[w][k] = strikes[w][k]
    BY <1>1, <1>2, <2>1, <2>2
  <2>4. strikes[w][k] # 0 /\ sentence[k] <= Duration(strikes[w][k])
    BY <2>2 DEF BansInv, SentencesOfStrikes
  <2> QED BY <2>2, <2>3, <2>4
<1> QED BY <1>2, <1>4, <1>5 DEF BansInv

(* With its worker all requests are gone: what Redis has not taken is       *)
(* forgiven.                                                                *)
LEMMA RestartKeepsBans ==
    ASSUME NEW w, Workers = {w}, BansInv(w), KeysInv', RestartWorker(w)
    PROVE  BansInv(w)'
<1>1. /\ banned \in [Stores -> Bans] /\ w \in Stores /\ "redis" \in Stores /\ w # "redis"
      /\ request \in [Requests -> [phase : {"idle"} \cup Workers, key : Keys \cup {1}, used : Nat]]
  BY NothingYet DEF BansInv, KeysInv, KeysTypeOK
<1>2. \A r \in Requests : request'[r].phase = "idle"
  BY <1>1, NothingYet DEF RestartWorker
<1>3. /\ banned'["redis"] = banned["redis"] /\ banned'[w] = NoBans
      /\ sentence' = [k \in Keys |-> IF k \in kept THEN sentence[k] ELSE 0]
      /\ UNCHANGED <<redis, kept>>
  BY <1>1 DEF RestartWorker
<1>4. SentencesServed(w)'
  <2> SUFFICES ASSUME NEW k \in Keys
               PROVE  sentence'[k] <= banned'[IF k \in kept THEN "redis" ELSE w].key[k]
    BY <1>3 DEF SentencesServed
  <2>1. CASE k \in kept
    <3>1. sentence[k] <= banned["redis"].key[k]
      BY <2>1 DEF BansInv, SentencesServed
    <3> QED BY <1>3, <2>1, <3>1
  <2>2. CASE k \notin kept
    BY <1>3, <2>2 DEF NoBans
  <2> QED BY <2>1, <2>2
<1>5. SentencesOfStrikes(w)'
  BY <1>2 DEF SentencesOfStrikes
<1> QED BY <1>3, <1>4, <1>5 DEF BansInv

LEMMA TickKeepsBans ==
    ASSUME NEW w, Workers = {w}, BansInv(w), KeysInv', KeysTick
    PROVE  BansInv(w)'
<1>1. /\ banned \in [Stores -> Bans] /\ sentence \in [Keys -> 0..MaxBan]
      /\ w \in Stores /\ "redis" \in Stores /\ w \in Workers
      /\ strikes \in [Workers -> [Keys -> Nat]]
      /\ \A s \in Stores, k \in Keys : banned[s].key[k] \in 0..MaxBan
  BY NothingYet, BansTyped DEF BansInv, KeysInv, KeysTypeOK
<1>2. /\ \A k \in Keys : sentence'[k] = Less(sentence[k])
      /\ UNCHANGED <<redis, strikes, request, kept>>
  BY DEF KeysTick
<1>3. \A s \in Stores, k \in Keys : banned'[s].key[k] = Less(banned[s].key[k])
  BY DEF KeysTick
<1>4. SentencesServed(w)'
  <2> SUFFICES ASSUME NEW k \in Keys
               PROVE  sentence'[k] <= banned'[IF k \in kept THEN "redis" ELSE w].key[k]
    BY <1>2 DEF SentencesServed
  <2>1. PICK s \in Stores : s = IF k \in kept THEN "redis" ELSE w
    BY <1>1
  <2>2. sentence[k] <= banned[s].key[k]
    BY <2>1 DEF BansInv, SentencesServed
  <2>3. Less(sentence[k]) <= Less(banned[s].key[k])
    BY <1>1, <2>2, LessTyped
  <2> QED BY <1>2, <1>3, <2>1, <2>3
<1>5. SentencesOfStrikes(w)'
  <2> SUFFICES ASSUME NEW r \in Requests, NEW k, k = request[r].key, request[r].phase # "idle",
                      sentence'[k] # 0
               PROVE  strikes[w][k] # 0 /\ sentence'[k] <= Duration(strikes[w][k])
    BY <1>2 DEF SentencesOfStrikes
  <2>1. k \in Keys
    BY DEF BansInv, KeysInv
  <2>2. sentence[k] \in 0..MaxBan /\ sentence'[k] \in 0..MaxBan /\ sentence'[k] <= sentence[k]
    BY <1>1, <1>2, <2>1, LessTyped
  <2>3. sentence[k] # 0
    BY <2>2
  <2>4. strikes[w][k] # 0 /\ sentence[k] <= Duration(strikes[w][k])
    BY <2>3 DEF BansInv, SentencesOfStrikes
  <2>5. Duration(strikes[w][k]) \in 1..MaxBan
    BY <1>1, <2>1, <2>4, DurationsGrow
  <2>6. \A a, b, c \in 0..MaxBan : a <= b /\ b <= c => a <= c
    BY ThresholdsAssumption
  <2>7. Duration(strikes[w][k]) \in 0..MaxBan
    BY <2>5, ThresholdsAssumption
  <2> QED BY <2>2, <2>4, <2>6, <2>7
<1> QED BY <1>2, <1>4, <1>5 DEF BansInv

LEMMA NextBans ==
    ASSUME NEW w, Workers = {w}, BansInv(w), [KeysNext]_keyVars
    PROVE  BansInv(w)'
<1>1. KeysInv'
  BY NextKeys DEF BansInv
<1>2. sentence \in [Keys -> 0..MaxBan]
      /\ request \in [Requests -> [phase : {"idle"} \cup Workers, key : Keys \cup {1}, used : Nat]]
  BY DEF BansInv, KeysInv, KeysTypeOK
<1>3. ASSUME UNCHANGED <<strikes, banned, request, sentence, kept>>, redis' = "none" => redis = "none"
      PROVE  BansInv(w)'
  BY <1>1, <1>2, <1>3, QuietBans
<1>4. ASSUME NEW k \in Keys, CreateKey(k) \/ EndKey(k) PROVE BansInv(w)'
  BY <1>3, <1>4 DEF CreateKey, EndKey
<1>5. ASSUME NEW k \in Keys, NEW place \in Places, Move(k, place) PROVE BansInv(w)'
  BY <1>3, <1>5 DEF Move
<1>6. ASSUME NEW v \in Workers, NEW r \in Requests, NEW k \in Keys, NEW how \in {"key", "session"},
             Accept(v, r, k, how)
      PROVE  BansInv(w)'
  <2>1. /\ sentence' = [sentence EXCEPT ![k] = 0]
        /\ UNCHANGED <<redis, strikes, banned, kept>>
    BY <1>6 DEF Accept
  <2>2. request'[r].key = k /\ \A q \in Requests \ {r} : request'[q] = request[q]
    BY <1>2, <1>6 DEF Accept
  <2>3. \A j \in Keys : sentence'[j] \in {0, sentence[j]}
    BY <1>2, <2>1
  <2>4. sentence'[k] = 0
    BY <1>2, <2>1
  <2> QED BY <1>1, <2>1, <2>2, <2>3, <2>4, QuietBans
<1>7. ASSUME NEW r \in Requests, NEW ip \in Ips, NEW prompt \in Prompts,
             NEW taken \in {"nothing", "key", "both"},
             \/ Refuse(r, ip, prompt, taken)
             \/ (\E tokens \in Uses, delivered \in BOOLEAN : Answer(r, ip, tokens, delivered, prompt, taken))
      PROVE  BansInv(w)'
  BY <1>1, <1>7, EndsKeepBans
<1>8. ASSUME NEW r \in Requests, EndSilently(r) PROVE BansInv(w)'
  <2>1. \A q \in Requests : request'[q].phase = "idle" \/ request'[q] = request[q]
    BY <1>2, <1>8, NothingYet DEF EndSilently
  <2>2. UNCHANGED <<redis, strikes, banned, sentence, kept>>
    BY <1>8 DEF EndSilently
  <2> QED BY <1>1, <2>1, <2>2, QuietBans
<1>9. ASSUME NEW v \in Workers, NEW keys \in SUBSET Keys, NEW u \in Users, Unban(v, keys, u)
      PROVE  BansInv(w)'
  BY <1>1, <1>9, UnbanKeepsBans
<1>10. ASSUME NEW v \in Workers, RestartWorker(v) PROVE BansInv(w)'
  BY <1>1, <1>10, RestartKeepsBans
<1>11. ASSUME RedisFails \/ RedisReturns PROVE BansInv(w)'
  BY <1>3, <1>11 DEF RedisFails, RedisReturns
<1>12. CASE KeysTick
  BY <1>1, <1>12, TickKeepsBans
<1>13. CASE UNCHANGED keyVars
  BY <1>3, <1>13 DEF keyVars
<1> QED BY <1>4, <1>5, <1>6, <1>7, <1>8, <1>9, <1>10, <1>11, <1>12, <1>13 DEF KeysNext

(* Who is let in while Redis can be asked has no ban left where it is kept. *)
LEMMA OnlyFreeKeysEnter ==
    ASSUME NEW w, Workers = {w}, BansInv(w), [KeysNext]_keyVars, NEW r \in Requests,
           request[r].phase = "idle", request'[r].phase # "idle", redis # "down"
    PROVE  sentence[request'[r].key] = 0
<1>1. /\ request \in [Requests -> [phase : {"idle"} \cup Workers, key : Keys \cup {1}, used : Nat]]
      /\ redis \in {"none", "up", "down"} /\ sentence \in [Keys -> 0..MaxBan]
  BY DEF BansInv, KeysInv, KeysTypeOK
<1>2. ASSUME NEW q \in Requests, request' = [request EXCEPT ![q] = NoRequest]
      PROVE  FALSE
  BY <1>1, <1>2, NothingYet
<1>3. ASSUME NEW v \in Workers, RestartWorker(v) PROVE FALSE
  BY <1>1, <1>3, NothingYet DEF RestartWorker
<1>4. request' # request
  OBVIOUS
<1>5. PICK v \in Workers, q \in Requests, k \in Keys, how \in {"key", "session"} : Accept(v, q, k, how)
  BY <1>2, <1>3, <1>4 DEF KeysNext, keyVars, CreateKey, EndKey, Move, Refuse, Answer, EndSilently,
     Unban, RedisFails, RedisReturns, KeysTick
<1>6. q = r /\ request'[r].key = k
  BY <1>1, <1>4, <1>5 DEF Accept
<1>7. v = w /\ ~IsBanned(w, k)
  BY <1>5 DEF Accept, Valid
<1>8. \A s \in Stores : banned[s].key[k] \in 0..MaxBan
  BY BansTyped DEF BansInv, KeysInv, KeysTypeOK
<1>9. ~(banned[w].key[k] > 0) /\ (redis = "up" => ~(banned["redis"].key[k] > 0))
  BY <1>7 DEF IsBanned, InForce
<1>10. k \in kept => redis = "up"
  BY <1>1 DEF BansInv
<1>11. sentence[k] <= banned[IF k \in kept THEN "redis" ELSE w].key[k]
  BY DEF BansInv, SentencesServed
<1>12. banned[IF k \in kept THEN "redis" ELSE w].key[k] \in 0..MaxBan
  BY <1>8, NothingYet
<1>13. ~(banned[IF k \in kept THEN "redis" ELSE w].key[k] > 0)
  BY <1>9, <1>10
<1>14. sentence[k] \in 0..MaxBan
  BY <1>1
<1> QED BY <1>6, <1>11, <1>12, <1>13, <1>14

(* Where one worker serves, no key is let in before its sentence is over    *)
(* (is_banned, ban_api_key), whatever requests of it overlap, however often *)
(* the worker is restarted, and whenever Redis comes and goes.              *)
THEOREM BansAreServed ==
    ASSUME NEW w, Workers = {w}
    PROVE  KeysSpec => BansServed
<1>1. KeysInit => BansInv(w)
  BY InitBans
<1>2. BansInv(w) /\ [KeysNext]_keyVars => BansInv(w)'
  BY NextBans
<1>3. BansInv(w) /\ [KeysNext]_keyVars =>
          [\A r \in Requests :
              request[r].phase = "idle" /\ request'[r].phase # "idle" /\ redis # "down"
                  => sentence[request'[r].key] = 0]_keyVars
  BY OnlyFreeKeysEnter
<1> QED BY <1>1, <1>2, <1>3, PTL DEF KeysSpec, BansServed

(* The windows of every worker and key follow what it has seen of the key.  *)
WindowsInv ==
    /\ KeysInv
    /\ \A w \in Workers, k \in Keys : WindowsFollow(windows[w][k], seen[w][k])

LEMMA InitWindows == KeysInit => WindowsInv
<1> SUFFICES ASSUME KeysInit PROVE WindowsInv
  OBVIOUS
<1>1. KeysInv
  BY InitKeys
<1>2. \A w \in Workers, k \in Keys : windows[w][k] = NoWindows /\ seen[w][k] = <<>>
  BY DEF KeysInit
<1> QED BY <1>1, <1>2, NothingFollows DEF WindowsInv

(* Where an event of a key has been recorded, the windows still follow, and *)
(* those of the key are pruned.                                             *)
LEMMA EventFollows ==
    ASSUME WindowsInv, NEW w \in Workers, NEW k \in Keys, NEW e, RecordedOf(w, k, e)
    PROVE  /\ \A v \in Workers, j \in Keys : WindowsFollow(windows'[v][j], seen'[v][j])
           /\ Pruned(windows'[w][k])
           /\ seen'[w][k] = Append(seen[w][k], e)
           /\ windows'[w][k] = Recorded(windows[w][k], e.ip, e.tokens, e.blocked, e.prompt)
<1>1. /\ windows \in [Workers -> [Keys -> Windows]] /\ seen \in [Workers -> [Keys -> Seq(Events)]]
      /\ WindowsFollow(windows[w][k], seen[w][k])
      /\ e \in Events /\ e.age = 0
  BY DEF WindowsInv, KeysInv, KeysTypeOK, RecordedOf
<1>2. PICK new, list : /\ new = Recorded(windows[w][k], e.ip, e.tokens, e.blocked, e.prompt)
                       /\ list = Append(seen[w][k], e)
  OBVIOUS
<1>3. WindowsFollow(new, list) /\ Pruned(new)
  BY <1>1, <1>2, RecordedFollows
<1>4. windows' = [windows EXCEPT ![w][k] = new]
  BY <1>2, Zenon DEF RecordedOf
<1>5. seen' = [seen EXCEPT ![w][k] = list]
  BY <1>2, Zenon DEF RecordedOf
<1>6. windows'[w][k] = new /\ seen'[w][k] = list
  BY <1>1, <1>4, <1>5
<1>7. ASSUME NEW v \in Workers, NEW j \in Keys, ~(v = w /\ j = k)
      PROVE  windows'[v][j] = windows[v][j] /\ seen'[v][j] = seen[v][j]
  BY <1>1, <1>4, <1>5, <1>7
<1>8. ASSUME NEW v \in Workers, NEW j \in Keys
      PROVE  WindowsFollow(windows'[v][j], seen'[v][j])
  <2>1. CASE v = w /\ j = k
    BY <1>3, <1>6, <2>1
  <2>2. CASE ~(v = w /\ j = k)
    <3>1. WindowsFollow(windows[v][j], seen[v][j])
      BY DEF WindowsInv
    <3> QED BY <1>7, <2>2, <3>1
  <2> QED BY <2>1, <2>2
<1> QED BY <1>2, <1>3, <1>6, <1>8

(* The steps that see something of a key are those that record an event.    *)
LEMMA SeenSteps ==
    ASSUME KeysInv, [KeysNext]_keyVars
    PROVE  \/ \E w \in Workers, k \in Keys, e \in Events, taken \in {"nothing", "key", "both"} :
                 /\ RecordedOf(w, k, e)
                 /\ IF Signal(windows'[w][k], e.prompt) THEN Ban(w, k, taken)
                    ELSE UNCHANGED <<strikes, banned, sentence, kept>>
           \/ \E w \in Workers : RestartWorker(w)
           \/ KeysTick
           \/ UNCHANGED <<windows, seen>>
<1>1. ASSUME NEW r \in Requests, NEW ip \in Ips, NEW prompt \in Prompts,
             NEW taken \in {"nothing", "key", "both"},
             \/ Refuse(r, ip, prompt, taken)
             \/ (\E tokens \in Uses, delivered \in BOOLEAN : Answer(r, ip, tokens, delivered, prompt, taken))
      PROVE  \E w \in Workers, k \in Keys, e \in Events :
                 /\ RecordedOf(w, k, e)
                 /\ IF Signal(windows'[w][k], e.prompt) THEN Ban(w, k, taken)
                    ELSE UNCHANGED <<strikes, banned, sentence, kept>>
  <2>1. PICK w, k : w = request[r].phase /\ k = request[r].key
    OBVIOUS
  <2>2. w \in Workers
    BY <1>1, <2>1 DEF Refuse, Answer
  <2>3. k \in Keys
    BY <2>1, <2>2, NothingYet DEF KeysInv
  <2>4. PICK tokens \in Nat, blocked \in BOOLEAN : Record(w, k, ip, tokens, blocked, prompt, taken)
    BY <1>1, <2>1, BudgetAssumption DEF Refuse, Answer
  <2>5. PICK e \in Events : RecordedOf(w, k, e) /\ e.prompt = prompt
    BY <2>2, <2>3, <2>4, RecordEvent
  <2>6. PICK win : win = Recorded(windows[w][k], ip, tokens, blocked, prompt)
    OBVIOUS
  <2>7. windows' = [windows EXCEPT ![w][k] = win]
    BY <2>4, <2>6 DEF Record
  <2>8. windows'[w][k] = win
    BY <2>2, <2>3, <2>7 DEF KeysInv, KeysTypeOK
  <2>9. IF Signal(win, prompt) THEN Ban(w, k, taken) ELSE UNCHANGED <<strikes, banned, sentence, kept>>
    BY <2>4, <2>6 DEF Record
  <2> QED BY <2>2, <2>3, <2>5, <2>8, <2>9
<1>2. ASSUME KeysNext PROVE
          \/ \E r \in Requests, ip \in Ips, prompt \in Prompts, taken \in {"nothing", "key", "both"} :
                \/ Refuse(r, ip, prompt, taken)
                \/ \E tokens \in Uses, delivered \in BOOLEAN : Answer(r, ip, tokens, delivered, prompt, taken)
          \/ \E w \in Workers : RestartWorker(w)
          \/ KeysTick
          \/ UNCHANGED <<windows, seen>>
  BY <1>2 DEF KeysNext, CreateKey, EndKey, Move, Accept, EndSilently, Unban, RedisFails, RedisReturns
<1>3. CASE UNCHANGED keyVars
  BY <1>3 DEF keyVars
<1> QED BY <1>1, <1>2, <1>3

LEMMA NextWindows == WindowsInv /\ [KeysNext]_keyVars => WindowsInv'
<1> SUFFICES ASSUME WindowsInv, [KeysNext]_keyVars PROVE WindowsInv'
  OBVIOUS
<1>1. KeysInv /\ KeysInv'
  BY NextKeys DEF WindowsInv
<1>2. ASSUME NEW w \in Workers, NEW k \in Keys, NEW e, RecordedOf(w, k, e) PROVE WindowsInv'
  <2>1. \A v \in Workers, j \in Keys : WindowsFollow(windows'[v][j], seen'[v][j])
    BY <1>2, EventFollows
  <2> QED BY <1>1, <2>1 DEF WindowsInv
<1>3. ASSUME NEW w \in Workers, RestartWorker(w) PROVE WindowsInv'
  <2>1. \A v \in Workers, k \in Keys :
            \/ windows'[v][k] = NoWindows /\ seen'[v][k] = <<>>
            \/ windows'[v][k] = windows[v][k] /\ seen'[v][k] = seen[v][k]
    BY <1>1, <1>3 DEF RestartWorker, KeysInv, KeysTypeOK
  <2>2. ASSUME NEW v \in Workers, NEW k \in Keys PROVE WindowsFollow(windows'[v][k], seen'[v][k])
    <3>1. WindowsFollow(windows[v][k], seen[v][k])
      BY DEF WindowsInv
    <3> QED BY <2>1, <3>1, NothingFollows
  <2> QED BY <1>1, <2>2 DEF WindowsInv
<1>4. CASE KeysTick
  <2>1. \A v \in Workers, k \in Keys :
            windows'[v][k] = OlderWindows(windows[v][k]) /\ seen'[v][k] = Older(seen[v][k])
    BY <1>4 DEF KeysTick, OlderWindows
  <2>2. ASSUME NEW v \in Workers, NEW k \in Keys PROVE WindowsFollow(windows'[v][k], seen'[v][k])
    <3>1. WindowsFollow(windows[v][k], seen[v][k]) /\ windows[v][k] \in Windows
      BY <1>1 DEF WindowsInv, KeysInv, KeysTypeOK
    <3>2. WindowsFollow(OlderWindows(windows[v][k]), Older(seen[v][k]))
      BY <3>1, OlderFollows
    <3> QED BY <2>1, <3>2
  <2> QED BY <1>1, <2>2 DEF WindowsInv
<1>5. CASE UNCHANGED <<windows, seen>>
  BY <1>1, <1>5 DEF WindowsInv
<1> QED BY <1>1, <1>2, <1>3, <1>4, <1>5, SeenSteps

(* However often a key's windows are pruned, shared by requests that end in *)
(* any order, and aged, each still ends what the worker has seen of the key *)
(* with nothing missing that counts (record_usage, _prune_windows).         *)
THEOREM WindowsInvHolds == KeysSpec => []WindowsInv
BY InitWindows, NextWindows, PTL DEF KeysSpec

(* What brings a key a strike. *)
LEMMA StrikesMatch ==
    ASSUME WindowsInv, [KeysNext]_keyVars, NEW w \in Workers, NEW k \in Keys,
           Len(seen'[w][k]) > Len(seen[w][k])
    PROVE  strikes'[w][k] > strikes[w][k] <=> Suspicious(seen'[w][k])
<1>1. KeysInv /\ seen \in [Workers -> [Keys -> Seq(Events)]] /\ strikes \in [Workers -> [Keys -> Nat]]
  BY DEF WindowsInv, KeysInv, KeysTypeOK
<1>2. PICK n \in Nat : n = Len(seen[w][k])
  BY <1>1
<1>3. ASSUME NEW v \in Workers, RestartWorker(v) PROVE FALSE
  <2>1. seen'[w][k] = <<>> \/ seen'[w][k] = seen[w][k]
    BY <1>1, <1>3 DEF RestartWorker
  <2>2. Len(<<>>) = 0
    OBVIOUS
  <2> QED BY <1>2, <2>1, <2>2
<1>4. ~KeysTick
  <2>1. SUFFICES ASSUME KeysTick PROVE FALSE
    OBVIOUS
  <2>2. seen'[w][k] = Older(seen[w][k])
    BY <2>1 DEF KeysTick
  <2>3. Len(Older(seen[w][k])) = Len(seen[w][k])
    BY <1>1, KindsAge, OlderAges
  <2> QED BY <1>2, <2>2, <2>3
<1>5. ~UNCHANGED <<windows, seen>>
  BY <1>2
<1>6. PICK v \in Workers, j \in Keys, e \in Events, taken \in {"nothing", "key", "both"} :
          /\ RecordedOf(v, j, e)
          /\ IF Signal(windows'[v][j], e.prompt) THEN Ban(v, j, taken)
             ELSE UNCHANGED <<strikes, banned, sentence, kept>>
  BY <1>1, <1>3, <1>4, <1>5, SeenSteps
<1>7. v = w /\ j = k
  <2>1. PICK list : list = Append(seen[v][j], e)
    OBVIOUS
  <2>2. seen' = [seen EXCEPT ![v][j] = list]
    BY <1>6, <2>1, Zenon DEF RecordedOf
  <2>3. ASSUME ~(v = w /\ j = k) PROVE seen'[w][k] = seen[w][k]
    BY <1>1, <2>2, <2>3
  <2> QED BY <1>2, <2>3
<1>8. PICK win, all : win = windows'[w][k] /\ all = seen'[w][k]
  OBVIOUS
<1>9. WindowsFollow(win, all) /\ Pruned(win) /\ all = Append(seen[w][k], e)
  BY <1>6, <1>7, <1>8, EventFollows
<1>10. all[Len(all)] = e
  BY <1>1, <1>9, AppendProperties
<1>11. Signal(win, e.prompt) <=> Suspicious(all)
  BY <1>9, <1>10, SignalsAgree
<1>12. CASE Signal(win, e.prompt)
  <2>1. strikes' = [strikes EXCEPT ![w][k] = strikes[w][k] + 1]
    BY <1>6, <1>7, <1>8, <1>12 DEF Ban
  <2>2. strikes'[w][k] > strikes[w][k]
    BY <1>1, <2>1
  <2> QED BY <1>8, <1>11, <1>12, <2>2
<1>13. CASE ~Signal(win, e.prompt)
  <2>1. strikes'[w][k] = strikes[w][k] /\ strikes[w][k] \in Nat
    BY <1>1, <1>6, <1>7, <1>8, <1>13
  <2>2. ~(strikes'[w][k] > strikes[w][k])
    BY <2>1
  <2> QED BY <1>8, <1>11, <1>13, <2>2
<1> QED BY <1>12, <1>13

(* An event brings a key a strike exactly if all its worker has seen of the *)
(* key calls for one (the five signals of record_usage), for any number of  *)
(* workers, keys and requests and any thresholds and spans.                 *)
THEOREM BansMatch == KeysSpec => BansMatchSignals
<1>1. WindowsInv /\ [KeysNext]_keyVars =>
          [\A w \in Workers, k \in Keys :
              Len(seen'[w][k]) > Len(seen[w][k]) =>
                  (strikes'[w][k] > strikes[w][k] <=> Suspicious(seen'[w][k]))]_keyVars
  BY StrikesMatch
<1> QED BY <1>1, WindowsInvHolds, PTL DEF KeysSpec, BansMatchSignals

(* Where one worker serves, who has earned a ban serves it and who is given *)
(* one has earned it (record_usage, maybe_auto_ban, is_banned).             *)
THEOREM BansAreFair ==
    ASSUME NEW w, Workers = {w}
    PROVE  KeysSpec => BansFair
<1>1. KeysSpec => BansServed
  BY BansAreServed
<1> QED BY <1>1, BansMatch, PTL DEF BansFair

===============================================================================
