--------------------------- MODULE Failover_proofs ---------------------------
(***************************************************************************)
(* Proofs about LlmFailover with its circuit breakers, for every number of *)
(* requests and backends and every threshold, cooldown and window.         *)
(***************************************************************************)
EXTENDS Lists_proofs, LlmFailover

-------------------------------------------------------------------------------
(* What every breaker is between two steps: well typed, with a failure     *)
(* list that has not reached the threshold.                                *)
SoundBreakers == {br \in Breakers : Len(br.failures) < Threshold}

-------------------------------------------------------------------------------
(* The operators of CircuitBreaker. *)

(* _prune drops a prefix: it keeps the type and never lengthens the list. *)
LEMMA PruneShortens ==
    ASSUME NEW f \in Seq(0..Window)
    PROVE  /\ Prune(f) \in Seq(0..Window)
           /\ Len(Prune(f)) <= Len(f)
<1> DEFINE k == Cardinality(Expired(f))
<1>1. k \in Nat
  <2>1. IsFiniteSet(1..Len(f))
    BY FS_Interval
  <2>2. Expired(f) \in SUBSET (1..Len(f))
    BY DEF Expired
  <2>3. IsFiniteSet(Expired(f))
    BY <2>1, <2>2, FS_Subset
  <2> QED
    BY <2>3, FS_CardinalityType
<1> HIDE DEF k
<1>2. \A i \in (k + 1)..Len(f) : f[i] \in 0..Window
  <2>1. Len(f) \in Nat /\ f \in [1..Len(f) -> 0..Window]
    BY LenProperties
  <2> QED
    BY <1>1, <2>1
<1>3. /\ SubSeq(f, k + 1, Len(f)) \in Seq(0..Window)
      /\ Len(SubSeq(f, k + 1, Len(f))) = IF k + 1 <= Len(f) THEN Len(f) - (k + 1) + 1 ELSE 0
  BY <1>1, <1>2, SubSeqProperties
<1> QED
  BY <1>1, <1>3 DEF Prune, k

(* What stays is the end of the list, and young enough. *)
LEMMA PruneEnds ==
    ASSUME NEW f \in Seq(0..Window), OldestFirst(f)
    PROVE  /\ \E k \in 0..Len(f) : AllBut(Prune(f), f, k)
           /\ \A i \in 1..Len(Prune(f)) : Prune(f)[i] < Window
<1>1. PICK n \in Nat : n = Len(f) /\ DOMAIN f = 1..n
  OBVIOUS
<1>2. \A i \in 1..n : f[i] \in 0..Window
  <2>1. f \in [1..n -> 0..Window]
    BY <1>1, LenProperties
  <2> QED BY <2>1
<1> DEFINE O == Expired(f)
<1>3. O \in SUBSET (1..n)
  BY <1>1 DEF Expired
<1>4. \A i \in O : \A j \in 1..i : j \in O
  <2> SUFFICES ASSUME NEW i \in O, NEW j \in 1..i PROVE j \in O
    OBVIOUS
  <2>1. i \in 1..n /\ j \in 1..n /\ f[i] >= Window
    BY <1>1, <1>3 DEF Expired
  <2>2. f[j] >= f[i]
    BY <1>1, <2>1 DEF OldestFirst
  <2> QED BY <1>1, <1>2, <2>1, <2>2, WindowAssumption DEF Expired
<1>5. Cardinality(O) \in 0..n /\ O = 1..Cardinality(O)
  BY <1>3, <1>4, Prefix
<1>6. PICK k \in 0..n : k = Cardinality(O) /\ O = 1..k
  BY <1>5
<1>7. Prune(f) = SubSeq(f, k + 1, Len(f))
  BY <1>6 DEF Prune
<1>8. AllBut(Prune(f), f, k)
  BY <1>1, <1>7, EndOf
<1>9. ASSUME NEW i \in 1..Len(Prune(f)) PROVE Prune(f)[i] < Window
  <2>1. Len(Prune(f)) = n - k /\ Prune(f)[i] = f[i + k]
    BY <1>1, <1>8 DEF AllBut
  <2>2. i + k \in 1..n /\ i + k \notin O
    <3>1. i \in 1..(n - k)
      BY <2>1
    <3>2. i + k \in 1..n /\ i + k \notin 1..k
      BY <3>1
    <3> QED BY <1>6, <3>2
  <2>3. f[i + k] \in 0..Window /\ ~(f[i + k] >= Window)
    BY <1>1, <1>2, <2>2 DEF Expired
  <2> QED BY <2>1, <2>3, WindowAssumption
<1> QED BY <1>1, <1>8, <1>9

LEMMA FreshIsSound == FreshBreaker \in SoundBreakers
  BY ThresholdAssumption, CooldownAssumption
     DEF FreshBreaker, SoundBreakers, Breakers, BreakerStates

(* Emptying the failure list keeps a breaker sound, whatever becomes of    *)
(* its other fields.                                                       *)
LEMMA ClearedIsSound ==
    ASSUME NEW br \in SoundBreakers,
           NEW s \in BreakerStates, NEW age \in 0..Cooldown, NEW probe \in BOOLEAN
    PROVE  /\ [br EXCEPT !.state = s, !.failures = <<>>, !.probe = probe] \in SoundBreakers
           /\ [br EXCEPT !.state = s, !.openedAge = age, !.failures = <<>>] \in SoundBreakers
<1> DEFINE none == <<>>
           x == [br EXCEPT !.state = s, !.failures = none, !.probe = probe]
           y == [br EXCEPT !.state = s, !.openedAge = age, !.failures = none]
<1>1. none \in Seq(0..Window) /\ Len(none) = 0
  OBVIOUS
<1> HIDE DEF none
<1>2. x \in Breakers /\ y \in Breakers
  BY <1>1 DEF SoundBreakers, Breakers
<1>3. x.failures = none /\ y.failures = none
  BY DEF SoundBreakers, Breakers
<1> HIDE DEF x, y
<1>4. Len(x.failures) < Threshold /\ Len(y.failures) < Threshold
  BY <1>1, <1>3, ThresholdAssumption
<1>5. x \in SoundBreakers /\ y \in SoundBreakers
  BY <1>2, <1>4 DEF SoundBreakers
<1> QED
  BY <1>5 DEF none, x, y

LEMMA ObservedIsSound ==
    ASSUME NEW br \in SoundBreakers
    PROVE  Observed(br) \in SoundBreakers
  BY DEF Observed, SoundBreakers, Breakers, BreakerStates

LEMMA BeforeCallIsSound ==
    ASSUME NEW br \in SoundBreakers
    PROVE  BeforeCall(br) \in SoundBreakers
<1>1. Observed(br) \in SoundBreakers
  BY ObservedIsSound
<1> QED
  BY <1>1 DEF BeforeCall, SoundBreakers, Breakers, BreakerStates

LEMMA OnSuccessIsSound ==
    ASSUME NEW br \in SoundBreakers
    PROVE  OnSuccess(br) \in SoundBreakers
<1>1. /\ Prune(br.failures) \in Seq(0..Window)
      /\ Len(Prune(br.failures)) <= Len(br.failures)
  BY PruneShortens DEF SoundBreakers, Breakers
<1>2. /\ Len(br.failures) \in Nat
      /\ Len(Prune(br.failures)) \in Nat
  BY <1>1, LenProperties DEF SoundBreakers, Breakers
<1>3. [br EXCEPT !.failures = Prune(br.failures)] \in SoundBreakers
  BY <1>1, <1>2, ThresholdAssumption DEF SoundBreakers, Breakers
<1>4. OnSuccess(br) = IF br.state = "half_open"
          THEN [br EXCEPT !.state = "closed", !.failures = <<>>, !.probe = FALSE]
          ELSE [br EXCEPT !.failures = Prune(br.failures)]
  BY DEF OnSuccess, SoundBreakers, Breakers
<1>5. "closed" \in BreakerStates /\ br.openedAge \in 0..Cooldown /\ FALSE \in BOOLEAN
  BY DEF BreakerStates, SoundBreakers, Breakers
<1>6. [br EXCEPT !.state = "closed", !.failures = <<>>, !.probe = FALSE] \in SoundBreakers
  BY <1>5, ClearedIsSound
<1> QED
  BY <1>3, <1>4, <1>6

LEMMA OnFailureIsSound ==
    ASSUME NEW br \in SoundBreakers
    PROVE  OnFailure(br) \in SoundBreakers
<1> DEFINE recent == Append(Prune(br.failures), 0)
<1>1. /\ Prune(br.failures) \in Seq(0..Window)
      /\ Len(Prune(br.failures)) <= Len(br.failures)
  BY PruneShortens DEF SoundBreakers, Breakers
<1>2. 0 \in 0..Window
  BY WindowAssumption
<1>3. /\ recent \in Seq(0..Window)
      /\ Len(recent) \in Nat
  BY <1>1, <1>2, AppendProperties
<1> HIDE DEF recent
<1>4. OnFailure(br) = IF br.state = "half_open"
          THEN [br EXCEPT !.state = "open", !.openedAge = 0, !.probe = FALSE]
          ELSE IF Len(recent) >= Threshold
          THEN [br EXCEPT !.state = "open", !.openedAge = 0, !.failures = <<>>]
          ELSE [br EXCEPT !.failures = recent]
  BY DEF OnFailure, recent
<1>5. 0 \in 0..Cooldown
  BY CooldownAssumption
<1>6. [br EXCEPT !.state = "open", !.openedAge = 0, !.probe = FALSE] \in SoundBreakers
  BY <1>5 DEF SoundBreakers, Breakers, BreakerStates
<1>7. [br EXCEPT !.state = "open", !.openedAge = 0, !.failures = <<>>] \in SoundBreakers
  BY <1>5, ClearedIsSound DEF BreakerStates
<1>8. ASSUME ~(Len(recent) >= Threshold)
      PROVE  [br EXCEPT !.failures = recent] \in SoundBreakers
  BY <1>3, <1>8, ThresholdAssumption DEF SoundBreakers, Breakers
<1> QED
  BY <1>4, <1>6, <1>7, <1>8

LEMMA AgedIsSound ==
    ASSUME NEW br \in SoundBreakers
    PROVE  Aged(br) \in SoundBreakers
<1> DEFINE f == br.failures
           g == [i \in DOMAIN f |-> Older(f[i], Window)]
<1>1. f \in Seq(0..Window) /\ DOMAIN f = 1..Len(f) /\ Len(f) \in Nat
  BY DEF SoundBreakers, Breakers
<1>2. \A i \in 1..Len(f) : Older(f[i], Window) \in 0..Window
  BY <1>1, WindowAssumption DEF Older
<1>3. g \in Seq(0..Window) /\ Len(g) = Len(f)
  BY <1>1, <1>2, IsASeq
<1>4. Older(br.openedAge, Cooldown) \in 0..Cooldown
  BY CooldownAssumption DEF Older, SoundBreakers, Breakers
<1> HIDE DEF g
<1>5. Aged(br) = [br EXCEPT !.failures = g, !.openedAge = Older(br.openedAge, Cooldown)]
  BY DEF Aged, g, SoundBreakers, Breakers
<1> QED
  BY <1>3, <1>4, <1>5 DEF SoundBreakers, Breakers

-------------------------------------------------------------------------------
(* The inductive invariant. *)

(* A request in flight stands at a candidate of its route; while it waits  *)
(* it has sent nothing and every earlier candidate has failed it; once it  *)
(* streams, what it has sent comes from where it stands.                   *)
SoundCalls ==
    {c \in Calls :
        /\ c.phase # "idle" => /\ c.route \in Routes
                               /\ c.at \in Candidates(c.route)
                               /\ c.outcome = "none"
        /\ c.phase = "waiting" =>
               /\ c.sent = {}
               /\ \A j \in Candidates(c.route) : j < c.at => c.route[j] \in c.failed
        /\ c.phase = "streaming" => c.sent = {c.route[c.at]}
        /\ \A a, b \in c.sent : a = b
        /\ c.outcome = "failed" /\ c.sent = {} =>
               \A i \in Candidates(c.route) : c.route[i] \in c.failed}

(* A half-open period admits a call only while no probe is out. *)
Slot(br) == IF br.state = "half_open" /\ br.probe THEN 1 ELSE 0

BreakersSound == breaker \in [Backends -> SoundBreakers]
CallsSound == call \in [Requests -> SoundCalls]
HistoryOK == /\ probes \in [Backends -> Nat]
             /\ burst \in [Backends -> [1..Threshold -> 0..Window]]
ProbeSlot == \A b \in Backends : probes[b] <= Slot(breaker[b])

FailoverInv == BreakersSound /\ CallsSound /\ HistoryOK /\ ProbeSlot

-------------------------------------------------------------------------------
(* One request's walk along its chain. *)

LEMMA CandidateFacts ==
    ASSUME NEW route \in Routes
    PROVE  /\ 1 \in Candidates(route)
           /\ \A i \in Candidates(route) : i \in Nat \ {0} /\ route[i] \in Backends
  BY RoutesAssumption DEF Candidates

(* What the loop leaves after breaker_before on candidate i. *)
LEMMA TriedIsSound ==
    ASSUME NEW c \in Calls, c.route \in Routes, c.sent = {},
           NEW i \in Candidates(c.route),
           \A j \in Candidates(c.route) : j < i => c.route[j] \in c.failed,
           NEW entered \in BOOLEAN, NEW probing \in BOOLEAN
    PROVE  [c EXCEPT !.at = i,
                     !.phase = IF entered THEN "waiting" ELSE "idle",
                     !.outcome = IF entered THEN "none" ELSE "rejected",
                     !.probing = probing] \in SoundCalls
<1> DEFINE phase == IF entered THEN "waiting" ELSE "idle"
           outcome == IF entered THEN "none" ELSE "rejected"
           tried == [c EXCEPT !.at = i, !.phase = phase, !.outcome = outcome,
                              !.probing = probing]
<1>1. i \in Nat
  BY CandidateFacts
<1>2. phase \in Phases /\ outcome \in {"none", "rejected"}
  BY DEF Phases
<1>3. phase # "streaming" /\ (phase # "idle" => outcome = "none")
  OBVIOUS
<1> HIDE DEF phase, outcome
<1>4. tried \in Calls
  BY <1>1, <1>2 DEF Calls, Outcomes
<1>5. /\ tried.at = i /\ tried.phase = phase /\ tried.outcome = outcome
      /\ tried.route = c.route /\ tried.failed = c.failed /\ tried.sent = c.sent
  BY DEF Calls
<1> HIDE DEF tried
<1>6. tried \in SoundCalls
  BY <1>2, <1>3, <1>4, <1>5 DEF SoundCalls
<1> QED BY <1>6 DEF phase, outcome, tried

(* Every way out of the loop. *)
LEMMA FinishedIsSound ==
    ASSUME NEW c \in Calls, NEW outcome \in Outcomes,
           \A a, b \in c.sent : a = b,
           outcome = "failed" /\ c.sent = {} =>
               \A i \in Candidates(c.route) : c.route[i] \in c.failed
    PROVE  [c EXCEPT !.phase = "idle", !.outcome = outcome, !.probing = FALSE]
               \in SoundCalls
  BY DEF SoundCalls, Calls, Phases

LEMMA NoCallIsSound == NoCall \in SoundCalls
  BY DEF NoCall, SoundCalls, Calls, Phases, Outcomes

-------------------------------------------------------------------------------
(* The steps the actions are built from. *)

(* CountProbes keeps the slot as long as every backend that is half-open   *)
(* after the step either was so before with no more probe than now, or is  *)
(* admitted its first.                                                     *)
LEMMA CountKeepsSlot ==
    ASSUME HistoryOK, NEW entered \in SUBSET Backends, CountProbes(entered),
           \A b \in Backends : breaker'[b].state = "half_open" =>
               IF b \in entered
               THEN /\ breaker'[b].probe
                    /\ breaker[b].state = "half_open" => probes[b] = 0
               ELSE breaker[b].state = "half_open" => probes[b] <= Slot(breaker'[b])
    PROVE  ProbeSlot' /\ probes' \in [Backends -> Nat]
<1>1. probes' \in [Backends -> Nat]
  BY DEF CountProbes, HistoryOK
<1>2. ASSUME NEW b \in Backends PROVE probes'[b] <= Slot(breaker'[b])
  <2>1. CASE breaker'[b].state # "half_open"
    BY <2>1 DEF CountProbes, Slot
  <2>2. CASE breaker'[b].state = "half_open" /\ b \in entered
    BY <2>2 DEF CountProbes, Slot, HistoryOK
  <2>3. CASE breaker'[b].state = "half_open" /\ b \notin entered
    BY <2>3 DEF CountProbes, Slot, HistoryOK
  <2> QED
    BY <2>1, <2>2, <2>3
<1> QED
  BY <1>1, <1>2 DEF ProbeSlot

(* The loop tries a candidate.  brs differs from breaker only where a      *)
(* failure has just been recorded.                                         *)
LEMMA TryStep ==
    ASSUME FailoverInv, NEW r \in Requests, NEW c \in Calls, c.route \in Routes, c.sent = {},
           NEW i \in Candidates(c.route),
           \A j \in Candidates(c.route) : j < i => c.route[j] \in c.failed,
           NEW brs \in [Backends -> SoundBreakers],
           \A b \in Backends : Observed(brs[b]).state = "half_open" =>
               brs[b] = breaker[b] \/ breaker[b].state # "half_open",
           TryCandidate(r, c, i, brs),
           burst' \in [Backends -> [1..Threshold -> 0..Window]]
    PROVE  FailoverInv'
<1> DEFINE b == c.route[i]
<1>1. b \in Backends
  BY CandidateFacts
<1>2. breaker' = [brs EXCEPT ![b] = BeforeCall(brs[b])]
  BY DEF TryCandidate
<1>3. BreakersSound'
  BY <1>1, <1>2, BeforeCallIsSound DEF BreakersSound
<1>4. CallsSound'
  <2>1. /\ Admits(brs[b]) \in BOOLEAN
        /\ (Admits(brs[b]) /\ BeforeCall(brs[b]).probe) \in BOOLEAN
    BY <1>1, BeforeCallIsSound DEF Admits, SoundBreakers, Breakers
  <2> DEFINE d == [c EXCEPT !.at = i,
                     !.phase = IF Admits(brs[b]) THEN "waiting" ELSE "idle",
                     !.outcome = IF Admits(brs[b]) THEN "none" ELSE "rejected",
                     !.probing = Admits(brs[b]) /\ BeforeCall(brs[b]).probe]
  <2>2. d \in SoundCalls
    BY <2>1, TriedIsSound
  <2>3. call' = [call EXCEPT ![r] = d]
    BY DEF TryCandidate
  <2> HIDE DEF d
  <2> QED
    BY <2>2, <2>3 DEF FailoverInv, CallsSound
<1>5. ProbeSlot' /\ probes' \in [Backends -> Nat]
  <2> DEFINE entered == IF Admits(brs[b]) THEN {b} ELSE {}
  <2>1. CountProbes(entered) /\ entered \in SUBSET Backends
    BY <1>1 DEF TryCandidate
  <2>2. ASSUME NEW a \in Backends, breaker'[a].state = "half_open"
        PROVE  IF a \in entered
               THEN /\ breaker'[a].probe
                    /\ breaker[a].state = "half_open" => probes[a] = 0
               ELSE breaker[a].state = "half_open" => probes[a] <= Slot(breaker'[a])
    <3>0. /\ probes[a] \in Nat /\ probes[a] <= Slot(breaker[a])
          /\ brs[a] \in SoundBreakers /\ breaker[a] \in SoundBreakers
      BY DEF FailoverInv, HistoryOK, ProbeSlot, BreakersSound
    <3>1. CASE a # b
      <4>1. breaker'[a] = brs[a] /\ a \notin entered
        BY <1>2, <3>1
      <4>2. Observed(brs[a]).state = "half_open"
        BY <4>1, <2>2 DEF Observed
      <4> QED
        BY <4>1, <4>2, <3>0
    <3>2. CASE a = b
      <4>1. breaker'[a] = BeforeCall(brs[a])
        BY <1>1, <1>2, <3>2
      <4>2. Observed(brs[a]).state = "half_open" /\ BeforeCall(brs[a]).probe
        BY <4>1, <2>2, <3>0, ObservedIsSound DEF BeforeCall, SoundBreakers, Breakers
      <4>3. breaker[a].state = "half_open" => brs[a] = breaker[a]
        BY <4>2
      <4>4. a \in entered /\ breaker[a].state = "half_open" => ~breaker[a].probe
        BY <4>2, <4>3, <3>0, <3>2 DEF Admits, Observed
      <4>5. a \in entered /\ breaker[a].state = "half_open" => probes[a] = 0
        BY <4>4, <3>0 DEF Slot
      <4>6. probes[a] <= Slot(breaker'[a])
        BY <4>1, <4>2, <2>2, <3>0 DEF Slot
      <4> QED
        BY <4>1, <4>2, <4>5, <4>6
    <3> QED
      BY <3>1, <3>2
  <2> HIDE DEF entered
  <2> QED
    BY <2>1, <2>2, CountKeepsSlot DEF FailoverInv
<1> QED
  BY <1>3, <1>4, <1>5 DEF FailoverInv, HistoryOK

(* A step that leaves every breaker sound and admits no call. *)
LEMMA QuietStep ==
    ASSUME FailoverInv, BreakersSound', CallsSound', CountProbes({}),
           burst' \in [Backends -> [1..Threshold -> 0..Window]],
           \A b \in Backends : breaker'[b].state = "half_open" /\ breaker[b].state = "half_open"
               => breaker'[b].probe = breaker[b].probe
    PROVE  FailoverInv'
<1>1. ASSUME NEW b \in Backends, breaker'[b].state = "half_open"
      PROVE  breaker[b].state = "half_open" => probes[b] <= Slot(breaker'[b])
  BY <1>1 DEF FailoverInv, ProbeSlot, Slot
<1>2. ProbeSlot' /\ probes' \in [Backends -> Nat]
  BY <1>1, CountKeepsSlot DEF FailoverInv
<1> QED
  BY <1>2 DEF FailoverInv, HistoryOK

-------------------------------------------------------------------------------
(* The actions. *)

LEMMA InitIsSound == Init => FailoverInv
<1> SUFFICES ASSUME Init PROVE FailoverInv
  OBVIOUS
<1>1. BreakersSound
  BY FreshIsSound DEF Init, BreakersSound
<1>2. CallsSound
  BY NoCallIsSound DEF Init, CallsSound
<1>3. HistoryOK
  BY WindowAssumption DEF Init, HistoryOK
<1>4. ProbeSlot
  BY DEF Init, ProbeSlot, Slot
<1> QED
  BY <1>1, <1>2, <1>3, <1>4 DEF FailoverInv

(* What the invariant says of a request in flight. *)
LEMMA InFlightFacts ==
    ASSUME FailoverInv, NEW r \in Requests, InFlight(r)
    PROVE  /\ call[r] \in Calls /\ call[r].route \in Routes
           /\ call[r].at \in Candidates(call[r].route)
           /\ Backend(r) \in Backends
           /\ call[r].outcome = "none"
           /\ call[r].phase \in {"waiting", "streaming"}
<1>1. call[r] \in SoundCalls
  BY DEF FailoverInv, CallsSound
<1> QED
  BY <1>1, CandidateFacts DEF SoundCalls, Calls, Phases, InFlight, Backend

LEMMA StartCallStep ==
    ASSUME FailoverInv, NEW r \in Requests, NEW kind \in Kinds, NEW route \in Routes,
           StartCall(r, kind, route)
    PROVE  FailoverInv'
<1> DEFINE c == [NoCall EXCEPT !.kind = kind, !.route = route]
<1>1. /\ c \in Calls /\ c.route = route /\ c.sent = {}
  BY KindsAssumption DEF NoCall, Calls, Phases, Outcomes
<1>2. /\ 1 \in Candidates(c.route)
      /\ \A j \in Candidates(c.route) : j < 1 => c.route[j] \in c.failed
  BY <1>1, CandidateFacts
<1>3. breaker \in [Backends -> SoundBreakers]
  BY DEF FailoverInv, BreakersSound
<1>4. /\ TryCandidate(r, c, 1, breaker)
      /\ burst' \in [Backends -> [1..Threshold -> 0..Window]]
  BY DEF StartCall, FailoverInv, HistoryOK
<1> HIDE DEF c
<1> QED
  BY <1>1, <1>2, <1>3, <1>4, TryStep

LEMMA CallSucceedsStep ==
    ASSUME FailoverInv, NEW r \in Requests, CallSucceeds(r)
    PROVE  FailoverInv'
<1> DEFINE b == Backend(r)
           c == [call[r] EXCEPT !.sent = @ \cup {b}]
<1>1. /\ call[r] \in SoundCalls /\ call[r] \in Calls /\ b \in Backends
      /\ call[r].phase \in {"waiting", "streaming"}
  BY InFlightFacts DEF CallSucceeds, FailoverInv, CallsSound
<1>2. call[r].sent \subseteq {b}
  BY <1>1 DEF SoundCalls, Backend
<1>3. c \in Calls /\ c.sent = {b}
  BY <1>1, <1>2 DEF Calls
<1>4. CallsSound'
  <2>1. call' = [call EXCEPT ![r] =
            [c EXCEPT !.phase = "idle", !.outcome = "ok", !.probing = FALSE]]
    BY DEF CallSucceeds, Finish
  <2>2. "ok" \in Outcomes /\ (\A x, y \in c.sent : x = y) /\ "ok" # "failed"
    BY <1>3 DEF Outcomes
  <2> HIDE DEF c
  <2>3. [c EXCEPT !.phase = "idle", !.outcome = "ok", !.probing = FALSE] \in SoundCalls
    BY <1>3, <2>2, FinishedIsSound
  <2> QED
    BY <2>1, <2>3 DEF FailoverInv, CallsSound
<1>5. breaker' = [breaker EXCEPT ![b] = OnSuccess(breaker[b])]
  BY DEF CallSucceeds
<1>6. BreakersSound'
  BY <1>1, <1>5, OnSuccessIsSound DEF FailoverInv, BreakersSound
<1>7. ASSUME NEW a \in Backends,
             breaker'[a].state = "half_open", breaker[a].state = "half_open"
      PROVE  breaker'[a].probe = breaker[a].probe
  <2>1. breaker \in [Backends -> SoundBreakers]
    BY DEF FailoverInv, BreakersSound
  <2>2. a # b
    BY <1>5, <1>7, <2>1 DEF OnSuccess, SoundBreakers, Breakers
  <2> QED
    BY <1>5, <2>1, <2>2
<1>8. /\ CountProbes({})
      /\ burst' \in [Backends -> [1..Threshold -> 0..Window]]
  BY DEF CallSucceeds, FailoverInv, HistoryOK
<1> QED
  BY <1>4, <1>6, <1>7, <1>8, QuietStep

LEMMA FirstChunkStep ==
    ASSUME FailoverInv, NEW r \in Requests, FirstChunk(r)
    PROVE  FailoverInv'
<1>1. InFlight(r)
  BY DEF FirstChunk, InFlight
<1>2. /\ call[r] \in SoundCalls /\ call[r] \in Calls /\ Backend(r) \in Backends
      /\ call[r].phase = "waiting"
  BY <1>1, InFlightFacts DEF FirstChunk, FailoverInv, CallsSound
<1>3. [call[r] EXCEPT !.phase = "streaming", !.sent = @ \cup {Backend(r)}] \in SoundCalls
  BY <1>2 DEF SoundCalls, Calls, Phases, Backend
<1>4. CallsSound'
  BY <1>3 DEF FirstChunk, FailoverInv, CallsSound
<1> QED
  BY <1>4 DEF FirstChunk, FailoverInv, BreakersSound, HistoryOK, ProbeSlot

(* The breakers after a failure at b: whichever the loop would find        *)
(* half-open next is one the failure did not touch, or was not half-open.  *)
LEMMA FailedBreakers ==
    ASSUME FailoverInv, NEW b \in Backends,
           NEW brs, brs = [breaker EXCEPT ![b] = OnFailure(breaker[b])]
    PROVE  /\ brs \in [Backends -> SoundBreakers]
           /\ \A a \in Backends : Observed(brs[a]).state = "half_open" =>
                  brs[a] = breaker[a] \/ breaker[a].state # "half_open"
<1>1. breaker \in [Backends -> SoundBreakers]
  BY DEF FailoverInv, BreakersSound
<1>2. brs \in [Backends -> SoundBreakers]
  BY <1>1, OnFailureIsSound
<1>3. ASSUME breaker[b].state = "half_open"
      PROVE  Observed(brs[b]).state # "half_open"
  <2>1. brs[b] = [breaker[b] EXCEPT !.state = "open", !.openedAge = 0, !.probe = FALSE]
    BY <1>1, <1>3 DEF OnFailure
  <2>2. brs[b].state = "open" /\ brs[b].openedAge = 0
    BY <2>1, <1>1 DEF SoundBreakers, Breakers
  <2> QED
    BY <2>2, CooldownAssumption DEF Observed
<1> QED
  BY <1>1, <1>2, <1>3

LEMMA CallFailsStep ==
    ASSUME FailoverInv, NEW r \in Requests, CallFails(r)
    PROVE  FailoverInv'
<1> DEFINE b == Backend(r)
           brs == [breaker EXCEPT ![b] = OnFailure(breaker[b])]
           c == [call[r] EXCEPT !.failed = @ \cup {b}]
<1>1. /\ call[r] \in SoundCalls /\ call[r] \in Calls /\ b \in Backends
      /\ call[r].phase \in {"waiting", "streaming"}
      /\ call[r].route \in Routes /\ call[r].at \in Candidates(call[r].route)
  BY InFlightFacts DEF CallFails, FailoverInv, CallsSound
<1>2. /\ c \in Calls /\ c.route = call[r].route /\ c.at = call[r].at
      /\ c.phase = call[r].phase /\ c.sent = call[r].sent
      /\ c.failed = call[r].failed \cup {c.route[c.at]}
  BY <1>1 DEF Calls, Backend
<1>3. /\ brs \in [Backends -> SoundBreakers]
      /\ \A a \in Backends : Observed(brs[a]).state = "half_open" =>
             brs[a] = breaker[a] \/ breaker[a].state # "half_open"
  BY <1>1, FailedBreakers
<1>4. burst' \in [Backends -> [1..Threshold -> 0..Window]]
  <2> DEFINE row == [i \in 1..Threshold |-> IF i = Threshold THEN 0 ELSE burst[b][i + 1]]
  <2>1. burst \in [Backends -> [1..Threshold -> 0..Window]]
    BY DEF FailoverInv, HistoryOK
  <2>2. row \in [1..Threshold -> 0..Window]
    <3> SUFFICES ASSUME NEW i \in 1..Threshold
                 PROVE  (IF i = Threshold THEN 0 ELSE burst[b][i + 1]) \in 0..Window
      OBVIOUS
    <3>1. CASE i = Threshold
      BY <3>1, WindowAssumption
    <3>2. CASE i # Threshold
      <4>1. i + 1 \in 1..Threshold /\ burst[b] \in [1..Threshold -> 0..Window]
        BY <1>1, <2>1, <3>2, ThresholdAssumption
      <4> QED
        BY <3>2, <4>1
    <3> QED
      BY <3>1, <3>2
  <2>3. burst' = [burst EXCEPT ![b] = row]
    BY DEF CallFails, RecordFailure
  <2> HIDE DEF row
  <2> QED
    BY <2>1, <2>2, <2>3
<1>5. c.phase = "waiting" =>
          /\ c.sent = {}
          /\ \A j \in Candidates(c.route) : j <= c.at => c.route[j] \in c.failed
  <2>1. \A j \in Candidates(c.route) : j \in Nat
    BY <1>1, <1>2, CandidateFacts
  <2>2. c.at \in Nat
    BY <1>1, <1>2, <2>1
  <2>3. call[r].phase = "waiting" =>
            /\ call[r].sent = {}
            /\ \A j \in Candidates(call[r].route) :
                   j < call[r].at => call[r].route[j] \in call[r].failed
    BY <1>1 DEF SoundCalls
  <2> HIDE DEF c
  <2>4. c.phase = "waiting" => c.sent = {}
    BY <1>2, <2>3
  <2>5. ASSUME c.phase = "waiting", NEW j \in Candidates(c.route), j <= c.at
        PROVE  c.route[j] \in c.failed
    <3>1. CASE j = c.at
      BY <1>2, <3>1
    <3>2. CASE j < c.at
      BY <1>2, <2>3, <2>5, <3>2
    <3> QED
      BY <2>1, <2>2, <2>5, <3>1, <3>2
  <2> QED
    BY <2>4, <2>5
<1>6. CASE \E j \in Following(c.route, c.at) :
               c.phase = "waiting" /\ TryCandidate(r, c, j, brs)
  <2>1. PICK j \in Following(c.route, c.at) :
            c.phase = "waiting" /\ TryCandidate(r, c, j, brs)
    BY <1>6
  <2>2. j \in Candidates(c.route) /\ \A k \in Candidates(c.route) : k > c.at => j <= k
    BY DEF Following, Later
  <2>3. /\ \A k \in Candidates(c.route) : k \in Nat
        /\ c.route \in Routes /\ c.at \in Candidates(c.route)
    BY <1>1, <1>2, CandidateFacts
  <2> HIDE DEF c
  <2>4. \A k \in Candidates(c.route) : k < j => c.route[k] \in c.failed
    BY <1>5, <2>1, <2>2, <2>3
  <2> HIDE DEF brs
  <2> QED
    BY <1>2, <1>3, <1>4, <1>5, <2>1, <2>2, <2>3, <2>4, TryStep
<1>7. CASE /\ c.phase = "streaming" \/ Later(c.route, c.at) = {}
           /\ breaker' = brs
           /\ Finish(r, c, "failed")
           /\ CountProbes({})
  <2>1. \A x, y \in c.sent : x = y
    BY <1>1, <1>2 DEF SoundCalls
  <2>2. ASSUME c.sent = {}
        PROVE  \A i \in Candidates(c.route) : c.route[i] \in c.failed
    <3>1. c.phase = "waiting"
      BY <1>1, <1>2, <2>2 DEF SoundCalls
    <3>2. /\ \A i \in Candidates(c.route) : i \in Nat
          /\ c.at \in Candidates(c.route)
      BY <1>1, <1>2, CandidateFacts
    <3>3. \A i \in Candidates(c.route) : ~(i > c.at)
      BY <1>7, <3>1 DEF Later
    <3> HIDE DEF c
    <3> QED
      BY <1>5, <3>1, <3>2, <3>3
  <2>3. [c EXCEPT !.phase = "idle", !.outcome = "failed", !.probing = FALSE] \in SoundCalls
    <3>1. "failed" \in Outcomes
      BY DEF Outcomes
    <3> HIDE DEF c
    <3> QED
      BY <1>2, <2>1, <2>2, <3>1, FinishedIsSound
  <2>4. CallsSound'
    BY <1>7, <2>3 DEF Finish, FailoverInv, CallsSound
  <2>5. BreakersSound'
    BY <1>3, <1>7 DEF BreakersSound
  <2>6. ASSUME NEW a \in Backends,
               breaker'[a].state = "half_open", breaker[a].state = "half_open"
        PROVE  breaker'[a].probe = breaker[a].probe
    <3>1. Observed(brs[a]).state = "half_open"
      BY <1>7, <2>6 DEF Observed
    <3> QED
      BY <1>3, <1>7, <2>6, <3>1
  <2> QED
    BY <1>4, <1>7, <2>4, <2>5, <2>6, QuietStep
<1> QED
  BY <1>6, <1>7 DEF CallFails

LEMMA CallUpsetStep ==
    ASSUME FailoverInv, NEW r \in Requests, NEW upset \in Upsets, CallUpset(r, upset)
    PROVE  FailoverInv'
<1>1. call[r] \in SoundCalls /\ call[r] \in Calls
  BY InFlightFacts DEF CallUpset, FailoverInv, CallsSound
<1>2. "raised" \in Outcomes /\ (\A x, y \in call[r].sent : x = y)
  BY <1>1 DEF Outcomes, SoundCalls
<1>3. [call[r] EXCEPT !.phase = "idle", !.outcome = "raised", !.probing = FALSE] \in SoundCalls
  BY <1>1, <1>2, FinishedIsSound
<1>4. CallsSound'
  BY <1>3 DEF CallUpset, Finish, FailoverInv, CallsSound
<1> QED
  BY <1>4 DEF CallUpset, FailoverInv, BreakersSound, HistoryOK, ProbeSlot

LEMMA ReadHealthStep ==
    ASSUME FailoverInv, ReadHealth
    PROVE  FailoverInv'
<1>1. breaker \in [Backends -> SoundBreakers]
  BY DEF FailoverInv, BreakersSound
<1>2. BreakersSound'
  BY <1>1, ObservedIsSound DEF ReadHealth, BreakersSound
<1>3. ASSUME NEW a \in Backends, breaker[a].state = "half_open"
      PROVE  breaker'[a] = breaker[a]
  BY <1>1, <1>3 DEF ReadHealth, Observed
<1>4. /\ CallsSound' /\ CountProbes({})
      /\ burst' \in [Backends -> [1..Threshold -> 0..Window]]
  BY DEF ReadHealth, FailoverInv, CallsSound, HistoryOK
<1> QED
  BY <1>2, <1>3, <1>4, QuietStep

LEMMA ResetBreakerStep ==
    ASSUME FailoverInv, NEW b \in Backends, ResetBreaker(b)
    PROVE  FailoverInv'
<1>1. breaker \in [Backends -> SoundBreakers]
  BY DEF FailoverInv, BreakersSound
<1>2. BreakersSound'
  BY <1>1, FreshIsSound DEF ResetBreaker, BreakersSound
<1>3. ASSUME NEW a \in Backends,
             breaker'[a].state = "half_open", breaker[a].state = "half_open"
      PROVE  breaker'[a].probe = breaker[a].probe
  BY <1>1, <1>3 DEF ResetBreaker, FreshBreaker
<1>4. /\ CallsSound' /\ CountProbes({})
      /\ burst' \in [Backends -> [1..Threshold -> 0..Window]]
  BY DEF ResetBreaker, FailoverInv, CallsSound, HistoryOK
<1> QED
  BY <1>2, <1>3, <1>4, QuietStep

LEMMA TickStep ==
    ASSUME FailoverInv, Tick
    PROVE  FailoverInv'
<1>1. breaker \in [Backends -> SoundBreakers]
  BY DEF FailoverInv, BreakersSound
<1>2. BreakersSound'
  BY <1>1, AgedIsSound DEF Tick, BreakersSound
<1>3. \A a \in Backends : /\ breaker'[a].state = breaker[a].state
                          /\ breaker'[a].probe = breaker[a].probe
  BY <1>1 DEF Tick, Aged, SoundBreakers, Breakers
<1>4. ProbeSlot'
  BY <1>3 DEF Tick, FailoverInv, ProbeSlot, Slot
<1>5. burst' \in [Backends -> [1..Threshold -> 0..Window]]
  <2>1. ASSUME NEW b \in Backends
        PROVE  [i \in 1..Threshold |-> Older(burst[b][i], Window)]
                   \in [1..Threshold -> 0..Window]
    <3>1. burst[b] \in [1..Threshold -> 0..Window]
      BY DEF FailoverInv, HistoryOK
    <3>2. \A i \in 1..Threshold : burst[b][i] \in 0..Window
      BY <3>1
    <3>3. \A age \in 0..Window : Older(age, Window) \in 0..Window
      BY WindowAssumption DEF Older
    <3> QED
      BY <3>2, <3>3
  <2> QED
    BY <2>1 DEF Tick
<1> QED
  BY <1>2, <1>4, <1>5 DEF Tick, FailoverInv, CallsSound, HistoryOK

-------------------------------------------------------------------------------
(* The theorems. *)

(* The invariant holds in every state of call_llm and stream_llm, however  *)
(* many requests interleave.                                               *)
THEOREM FailoverInvHolds == Spec => []FailoverInv
<1>1. FailoverInv /\ [Next]_vars => FailoverInv'
  <2> SUFFICES ASSUME FailoverInv, [Next]_vars PROVE FailoverInv'
    OBVIOUS
  <2>1. CASE \E r \in Requests, kind \in Kinds, route \in Routes : StartCall(r, kind, route)
    BY <2>1, StartCallStep
  <2>2. CASE \E r \in Requests : CallSucceeds(r) \/ FirstChunk(r) \/ CallFails(r)
    BY <2>2, CallSucceedsStep, FirstChunkStep, CallFailsStep
  <2>3. CASE \E r \in Requests, upset \in Upsets : CallUpset(r, upset)
    BY <2>3, CallUpsetStep
  <2>4. CASE ReadHealth
    BY <2>4, ReadHealthStep
  <2>5. CASE \E b \in Backends : ResetBreaker(b)
    BY <2>5, ResetBreakerStep
  <2>6. CASE Tick
    BY <2>6, TickStep
  <2>7. CASE UNCHANGED vars
    BY <2>7 DEF vars, FailoverInv, BreakersSound, CallsSound, HistoryOK, ProbeSlot
  <2> QED
    BY <2>1, <2>2, <2>3, <2>4, <2>5, <2>6, <2>7 DEF Next
<1> QED
  BY <1>1, InitIsSound, PTL DEF Spec

(* Every variable keeps its type. *)
THEOREM FailoverTypesCorrect == Spec => []TypeOK
<1>1. FailoverInv => TypeOK
  BY DEF FailoverInv, BreakersSound, CallsSound, HistoryOK, TypeOK, SoundBreakers, SoundCalls
<1> QED
  BY <1>1, FailoverInvHolds, PTL

(* A half-open period of a breaker admits at most one call, for any number *)
(* of concurrent requests (before_call and _probe_in_flight).              *)
THEOREM SingleProbe == Spec => []OneProbePerHalfOpen
<1>1. FailoverInv => OneProbePerHalfOpen
  BY DEF FailoverInv, HistoryOK, ProbeSlot, Slot, OneProbePerHalfOpen
<1> QED
  BY <1>1, FailoverInvHolds, PTL

(* The failure list of a breaker stays below the threshold (on_failure). *)
THEOREM BoundedFailures == Spec => []FailuresBelowThreshold
<1>1. FailoverInv => FailuresBelowThreshold
  BY DEF FailoverInv, BreakersSound, SoundBreakers, FailuresBelowThreshold
<1> QED
  BY <1>1, FailoverInvHolds, PTL

(* call_llm reports failure only when the whole chain has failed. *)
THEOREM FailoverIsComplete == Spec => []FailedOnlyAfterAll
<1>1. FailoverInv => FailedOnlyAfterAll
  BY DEF FailoverInv, CallsSound, SoundCalls, FailedOnlyAfterAll
<1> QED
  BY <1>1, FailoverInvHolds, PTL

(* One request's output never mixes two backends (stream_llm). *)
THEOREM NoMixedOutput == Spec => []OneSource
<1>1. FailoverInv => OneSource
  BY DEF FailoverInv, CallsSound, SoundCalls, OneSource
<1> QED
  BY <1>1, FailoverInvHolds, PTL

(* A caller sees an error only when the whole chain is down, and never     *)
(* text of two backends.                                                   *)
THEOREM FailoverIsSound == Spec => []FailoverSound
<1>1. FailedOnlyAfterAll /\ OneSource => FailoverSound
  BY DEF FailoverSound
<1> QED
  BY <1>1, FailoverIsComplete, NoMixedOutput, PTL

-------------------------------------------------------------------------------
(* Failures and the history of failures. *)

(* Of a backend's last failures none is older than the one the list has in  *)
(* its place, counted from the end.                                         *)
BurstFits(f, ages) ==
    /\ OldestFirst(f)
    /\ \A j \in 1..Len(f) : ages[Threshold - j + 1] <= Latest(f, j)

BurstInv == \A b \in Backends : BurstFits(breaker[b].failures, burst[b])

Pushed(ages) == [i \in 1..Threshold |-> IF i = Threshold THEN 0 ELSE ages[i + 1]]

(* Nothing is left of the list, or what a prune leaves. *)
LEMMA QuietFits ==
    ASSUME NEW f \in Seq(0..Window), NEW ages, BurstFits(f, ages),
           NEW g, g = f \/ g = <<>> \/ g = Prune(f)
    PROVE  BurstFits(g, ages)
<1>1. CASE g = f
  BY <1>1
<1>2. CASE g = <<>>
  <2>1. DOMAIN g = {} /\ 1..Len(g) = {}
    BY <1>2
  <2> QED BY <2>1 DEF BurstFits, OldestFirst
<1>3. CASE g = Prune(f)
  <2>1. OldestFirst(f)
    BY DEF BurstFits
  <2>2. g \in Seq(0..Window)
    BY <1>3, PruneShortens
  <2>3. PICK k \in 0..Len(f) : AllBut(g, f, k)
    BY <1>3, <2>1, PruneEnds
  <2>4. PICK n \in Nat, m \in Nat : n = Len(f) /\ m = Len(g)
    BY <2>2
  <2>5. OldestFirst(g)
    BY <2>1, <2>2, <2>3, EndOrdered
  <2>6. ASSUME NEW j \in 1..m PROVE ages[Threshold - j + 1] <= Latest(g, j)
    <3>1. n = m + k /\ m - j + 1 \in 1..m /\ (m - j + 1) + k = n - j + 1 /\ j \in 1..n
      BY <2>3, <2>4 DEF AllBut
    <3>2. g[m - j + 1] = f[(m - j + 1) + k]
      BY <2>3, <2>4, <3>1 DEF AllBut
    <3>3. Latest(g, j) = Latest(f, j)
      BY <2>4, <3>1, <3>2 DEF Latest
    <3> QED BY <2>4, <3>1, <3>3 DEF BurstFits
  <2> QED BY <2>4, <2>5, <2>6 DEF BurstFits
<1> QED BY <1>1, <1>2, <1>3

(* One failure more in the history, and in the list or not. *)
LEMMA FailureFits ==
    ASSUME NEW f \in Seq(0..Window), Len(f) < Threshold,
           NEW ages \in [1..Threshold -> 0..Window], BurstFits(f, ages),
           NEW g, g = f \/ g = <<>> \/ g = Append(Prune(f), 0)
    PROVE  /\ Len(g) < Threshold => BurstFits(g, Pushed(ages))
           /\ Len(g) >= Threshold => \A i \in 1..Threshold : Pushed(ages)[i] < Window
<1>1. PICK T \in Nat, n \in Nat : T = Threshold /\ n = Len(f) /\ n < T
  <2>1. Threshold \in Nat /\ Len(f) \in Nat
    BY ThresholdAssumption
  <2> QED BY <2>1
<1>2. /\ Pushed(ages)[T] = 0
      /\ \A i \in 1..(T - 1) : Pushed(ages)[i] = ages[i + 1]
  BY <1>1 DEF Pushed
<1>3. \A i \in 1..T : ages[i] \in Nat
  BY <1>1, WindowAssumption
<1>4. OldestFirst(f) /\ \A i \in 1..n : f[i] \in Nat
  <2>1. f \in [1..n -> 0..Window]
    BY <1>1, LenProperties
  <2> QED BY <2>1, WindowAssumption DEF BurstFits
<1>5. DOMAIN f = 1..n
  BY <1>1
<1>6. CASE g = f
  <2>1. ASSUME NEW j \in 1..n PROVE Pushed(ages)[T - j + 1] <= f[n - j + 1]
    <3>1. n - j + 1 \in 1..n
      OBVIOUS
    <3>2. CASE j = 1
      <4>1. T - j + 1 = T
        BY <3>2
      <4>2. Pushed(ages)[T - j + 1] = 0
        BY <1>2, <4>1, Zenon
      <4>3. \A x \in Nat : 0 <= x
        OBVIOUS
      <4> QED BY <1>4, <3>1, <4>2, <4>3, Zenon
    <3>3. CASE j # 1
      <4>1. PICK i \in 1..n : j = i + 1
        <5>1. j - 1 \in 1..n /\ j = (j - 1) + 1
          BY <3>3
        <5> QED BY <5>1
      <4>2. /\ T - j + 1 \in 1..(T - 1) /\ (T - j + 1) + 1 = T - i + 1
            /\ n - i + 1 \in 1..n /\ n - j + 1 <= n - i + 1 /\ T - i + 1 \in 1..T
        BY <1>1, <4>1
      <4>3. Pushed(ages)[T - j + 1] = ages[T - i + 1]
        BY <1>2, <4>2
      <4>4. ages[T - i + 1] <= f[n - i + 1]
        BY <1>1 DEF BurstFits, Latest
      <4>5. f[n - i + 1] <= f[n - j + 1]
        BY <1>4, <1>5, <3>1, <4>2 DEF OldestFirst
      <4>6. \A x, y, z \in Nat : x <= y /\ y <= z => x <= z
        OBVIOUS
      <4> QED BY <1>3, <1>4, <3>1, <4>2, <4>3, <4>4, <4>5, <4>6, Zenon
    <3> QED BY <3>2, <3>3
  <2>2. BurstFits(f, Pushed(ages))
    BY <1>1, <1>4, <2>1 DEF BurstFits, Latest
  <2> QED BY <1>1, <1>6, <2>2
<1>7. CASE g = <<>>
  <2>1. DOMAIN g = {} /\ Len(g) = 0 /\ 1..Len(g) = {}
    BY <1>7
  <2> QED BY <1>1, <2>1 DEF BurstFits, OldestFirst
<1>8. CASE g = Append(Prune(f), 0)
  <2>1. Prune(f) \in Seq(0..Window) /\ 0 \in 0..Window /\ 0..Window \in SUBSET Nat
    BY PruneShortens, WindowAssumption
  <2>2. PICK k \in 0..n :
            /\ AllBut(Prune(f), f, k)
            /\ \A i \in 1..Len(Prune(f)) : Prune(f)[i] < Window
    BY <1>1, <1>4, PruneEnds
  <2>3. PICK m \in Nat : m = Len(Prune(f)) /\ DOMAIN Prune(f) = 1..m
    BY <2>1
  <2>4. n = m + k /\ \A i \in 1..m : Prune(f)[i] = f[i + k] /\ i + k \in 1..n
    BY <1>1, <2>2, <2>3 DEF AllBut
  <2>5. OldestFirst(Prune(f))
    BY <1>4, <2>1, <2>2, EndOrdered
  <2>6. g \in Seq(0..Window) /\ OldestFirst(g)
    BY <1>8, <2>1, <2>5, AppendOrdered
  <2>7. /\ Len(g) = m + 1 /\ g[m + 1] = 0
        /\ \A i \in 1..m : g[i] = Prune(f)[i]
    BY <1>8, <2>1, <2>3, AppendProperties
  <2>8. ASSUME NEW j \in 1..(m + 1), j <= T
        PROVE  /\ Pushed(ages)[T - j + 1] <= g[(m + 1) - j + 1]
               /\ Pushed(ages)[T - j + 1] < Window
    <3>1. CASE j = 1
      <4>1. T - j + 1 = T /\ (m + 1) - j + 1 = m + 1
        BY <3>1
      <4>2. Pushed(ages)[T - j + 1] = 0 /\ g[(m + 1) - j + 1] = 0
        BY <1>2, <2>7, <4>1, Zenon
      <4>3. 0 <= 0 /\ 0 < Window
        BY WindowAssumption
      <4> QED BY <4>2, <4>3, Zenon
    <3>2. CASE j # 1
      <4>1. PICK i \in 1..m : j = i + 1
        <5>1. j - 1 \in 1..m /\ j = (j - 1) + 1
          BY <3>2
        <5> QED BY <5>1
      <4>2. /\ T - j + 1 \in 1..(T - 1) /\ (T - j + 1) + 1 = T - i + 1 /\ T - i + 1 \in 1..T
            /\ (m + 1) - j + 1 = m - i + 1 /\ m - i + 1 \in 1..m
            /\ (m - i + 1) + k = n - i + 1 /\ i \in 1..n
        BY <1>1, <2>4, <2>8, <4>1
      <4>3. Pushed(ages)[T - j + 1] = ages[T - i + 1]
        BY <1>2, <4>2
      <4>4. ages[T - i + 1] <= f[n - i + 1]
        BY <1>1, <4>2 DEF BurstFits, Latest
      <4>5. Prune(f)[m - i + 1] = f[n - i + 1] /\ n - i + 1 \in 1..n
        BY <2>4, <4>2
      <4>6. g[(m + 1) - j + 1] = f[n - i + 1]
        BY <2>7, <4>2, <4>5
      <4>7. f[n - i + 1] < Window
        BY <2>2, <2>3, <4>2, <4>5
      <4>8. \A x, y \in Nat : x <= y /\ y < Window => x < Window
        BY WindowAssumption
      <4> QED BY <1>3, <1>4, <4>2, <4>3, <4>4, <4>5, <4>6, <4>7, <4>8, Zenon
    <3> QED BY <3>1, <3>2
  <2>9. ASSUME m + 1 < T PROVE BurstFits(g, Pushed(ages))
    <3>1. \A j \in 1..(m + 1) : j <= T
      BY <2>9
    <3> QED BY <1>1, <2>6, <2>7, <2>8, <3>1 DEF BurstFits, Latest
  <2>10. ASSUME m + 1 >= T, NEW i \in 1..T PROVE Pushed(ages)[i] < Window
    <3>1. PICK j \in 1..T : j = T - i + 1
      OBVIOUS
    <3>2. j \in 1..(m + 1) /\ i = T - j + 1
      BY <2>10, <3>1
    <3>3. Pushed(ages)[T - j + 1] < Window
      <4>1. j <= T
        BY <3>1
      <4> QED BY <2>8, <3>2, <4>1, Zenon
    <3> QED BY <3>2, <3>3, Zenon
  <2>11. CASE m + 1 < T
    BY <1>1, <2>7, <2>9, <2>11
  <2>12. CASE m + 1 >= T
    <3>1. ~(Len(g) < Threshold)
      BY <1>1, <2>7, <2>12
    <3> QED BY <1>1, <2>10, <2>12, <3>1
  <2> QED BY <2>11, <2>12
<1> QED BY <1>6, <1>7, <1>8

(* A tick ages both alike. *)
LEMMA TickFits ==
    ASSUME NEW f \in Seq(0..Window), Len(f) < Threshold,
           NEW ages \in [1..Threshold -> 0..Window], BurstFits(f, ages),
           NEW g, g = [i \in DOMAIN f |-> Older(f[i], Window)],
           NEW old, old = [i \in 1..Threshold |-> Older(ages[i], Window)]
    PROVE  BurstFits(g, old)
<1>1. PICK T \in Nat, n \in Nat : T = Threshold /\ n = Len(f) /\ n < T
  <2>1. Threshold \in Nat /\ Len(f) \in Nat
    BY ThresholdAssumption
  <2> QED BY <2>1
<1>2. \A x, y \in 0..Window : x <= y => Older(x, Window) <= Older(y, Window)
  BY WindowAssumption DEF Older
<1>3. f \in [1..n -> 0..Window] /\ DOMAIN f = 1..n
  BY <1>1, LenProperties
<1>4. g = [i \in 1..n |-> Older(f[i], Window)] /\ DOMAIN g = 1..n
  BY <1>3
<1>5. Len(g) = n
  BY <1>4
<1>6. OldestFirst(g)
  <2> SUFFICES ASSUME NEW i \in 1..n, NEW j \in 1..n, i <= j PROVE g[i] >= g[j]
    BY <1>4 DEF OldestFirst
  <2>1. f[i] >= f[j] /\ f[i] \in 0..Window /\ f[j] \in 0..Window
    BY <1>3 DEF BurstFits, OldestFirst
  <2>2. f[j] <= f[i]
    BY <2>1, WindowAssumption
  <2>3. Older(f[j], Window) <= Older(f[i], Window)
    BY <1>2, <2>1, <2>2
  <2>4. Older(f[j], Window) \in Nat /\ Older(f[i], Window) \in Nat
    BY <2>1, WindowAssumption DEF Older
  <2> QED BY <1>4, <2>3, <2>4
<1>7. ASSUME NEW j \in 1..n PROVE old[T - j + 1] <= g[n - j + 1]
  <2>1. T - j + 1 \in 1..T /\ n - j + 1 \in 1..n
    BY <1>1
  <2>2. ages[T - j + 1] <= f[n - j + 1]
    BY <1>1 DEF BurstFits, Latest
  <2>3. ages[T - j + 1] \in 0..Window /\ f[n - j + 1] \in 0..Window
    BY <1>1, <1>3, <2>1
  <2>4. Older(ages[T - j + 1], Window) <= Older(f[n - j + 1], Window)
    BY <1>2, <2>2, <2>3
  <2>5. old[T - j + 1] = Older(ages[T - j + 1], Window) /\ g[n - j + 1] = Older(f[n - j + 1], Window)
    BY <1>1, <1>4, <2>1
  <2> QED BY <2>4, <2>5, Zenon
<1> QED BY <1>1, <1>5, <1>6, <1>7 DEF BurstFits, Latest

(* What the methods make of state and list. *)
LEMMA MethodsAtFailures ==
    ASSUME NEW br \in SoundBreakers
    PROVE  /\ Observed(br).failures = br.failures
           /\ Observed(br).state = "open" => br.state = "open"
           /\ BeforeCall(br).failures = br.failures
           /\ BeforeCall(br).state = "open" => br.state = "open"
           /\ OnSuccess(br).failures = <<>> \/ OnSuccess(br).failures = Prune(br.failures)
           /\ OnSuccess(br).state = "open" => br.state = "open"
           /\ \/ OnFailure(br).failures = br.failures
              \/ OnFailure(br).failures = <<>>
              \/ OnFailure(br).failures = Append(Prune(br.failures), 0)
           /\ br.state = "closed" /\ OnFailure(br).state = "open" =>
                 Len(Append(Prune(br.failures), 0)) >= Threshold
           /\ Aged(br).failures = [i \in DOMAIN br.failures |-> Older(br.failures[i], Window)]
           /\ Aged(br).state = br.state
<1>1. br \in Breakers
  BY DEF SoundBreakers
<1>2. /\ Observed(br).failures = br.failures
      /\ Observed(br).state = "open" => br.state = "open"
  BY <1>1 DEF Observed, Breakers
<1>3. /\ BeforeCall(br).failures = br.failures
      /\ BeforeCall(br).state = "open" => br.state = "open"
  <2>1. Observed(br) \in Breakers
    BY ObservedIsSound DEF SoundBreakers
  <2>2. BeforeCall(br).failures = Observed(br).failures /\ BeforeCall(br).state = Observed(br).state
    BY <2>1 DEF BeforeCall, Breakers
  <2> QED BY <1>2, <2>2
<1>4. /\ OnSuccess(br).failures = <<>> \/ OnSuccess(br).failures = Prune(br.failures)
      /\ OnSuccess(br).state = "open" => br.state = "open"
  BY <1>1 DEF OnSuccess, Breakers
<1>5. /\ \/ OnFailure(br).failures = br.failures
         \/ OnFailure(br).failures = <<>>
         \/ OnFailure(br).failures = Append(Prune(br.failures), 0)
      /\ br.state = "closed" /\ OnFailure(br).state = "open" =>
             Len(Append(Prune(br.failures), 0)) >= Threshold
  BY <1>1 DEF OnFailure, Breakers
<1>6. /\ Aged(br).failures = [i \in DOMAIN br.failures |-> Older(br.failures[i], Window)]
      /\ Aged(br).state = br.state
  BY <1>1 DEF Aged, Breakers
<1> QED BY <1>2, <1>3, <1>4, <1>5, <1>6

(* What one step may do to a backend's list and history: leave the history  *)
(* and shorten the list, which trips nothing; record a failure; or let time *)
(* pass.                                                                    *)
Untouched(b) ==
    /\ burst'[b] = burst[b]
    /\ \/ breaker'[b].failures = breaker[b].failures
       \/ breaker'[b].failures = <<>>
       \/ breaker'[b].failures = Prune(breaker[b].failures)
    /\ breaker'[b].state = "open" => breaker[b].state = "open"
Struck(b) ==
    /\ burst'[b] = Pushed(burst[b])
    /\ \/ breaker'[b].failures = breaker[b].failures
       \/ breaker'[b].failures = <<>>
       \/ breaker'[b].failures = Append(Prune(breaker[b].failures), 0)
    /\ breaker[b].state = "closed" /\ breaker'[b].state = "open" =>
           Len(Append(Prune(breaker[b].failures), 0)) >= Threshold
Ageing(b) ==
    /\ burst'[b] = [i \in 1..Threshold |-> Older(burst[b][i], Window)]
    /\ breaker'[b].failures =
           [i \in DOMAIN breaker[b].failures |-> Older(breaker[b].failures[i], Window)]
    /\ breaker'[b].state = breaker[b].state

LEMMA MovesFit ==
    ASSUME FailoverInv, FailoverInv', NEW b \in Backends,
           BurstFits(breaker[b].failures, burst[b]),
           Untouched(b) \/ Struck(b) \/ Ageing(b)
    PROVE  /\ BurstFits(breaker'[b].failures, burst'[b])
           /\ breaker[b].state = "closed" /\ breaker'[b].state = "open" =>
                 \A i \in 1..Threshold : burst'[b][i] < Window
<1>1. /\ breaker[b] \in SoundBreakers /\ burst[b] \in [1..Threshold -> 0..Window]
      /\ breaker'[b] \in SoundBreakers
  BY DEF FailoverInv, BreakersSound, HistoryOK
<1>2. PICK f \in Seq(0..Window), ages \in [1..Threshold -> 0..Window] :
          f = breaker[b].failures /\ ages = burst[b]
  BY <1>1 DEF SoundBreakers, Breakers
<1>3. PICK g, old : g = breaker'[b].failures /\ old = burst'[b]
  OBVIOUS
<1>4. Len(f) < Threshold /\ Len(g) < Threshold /\ BurstFits(f, ages)
  BY <1>1, <1>2, <1>3 DEF SoundBreakers
<1>5. CASE Untouched(b)
  <2>1. old = ages /\ (g = f \/ g = <<>> \/ g = Prune(f))
    BY <1>2, <1>3, <1>5 DEF Untouched
  <2>2. BurstFits(g, old)
    BY <1>4, <2>1, QuietFits
  <2> QED BY <1>3, <1>5, <2>2 DEF Untouched
<1>6. CASE Struck(b)
  <2>1. old = Pushed(ages) /\ (g = f \/ g = <<>> \/ g = Append(Prune(f), 0))
    BY <1>2, <1>3, <1>6 DEF Struck
  <2>2. BurstFits(g, old)
    BY <1>4, <2>1, FailureFits
  <2>3. breaker[b].state = "closed" /\ breaker'[b].state = "open" =>
            Len(Append(Prune(f), 0)) >= Threshold
    BY <1>2, <1>6 DEF Struck
  <2>4. Len(Append(Prune(f), 0)) >= Threshold => \A i \in 1..Threshold : old[i] < Window
    BY <1>4, <2>1, FailureFits
  <2> QED BY <1>3, <2>2, <2>3, <2>4
<1>7. CASE Ageing(b)
  <2>1. /\ g = [i \in DOMAIN f |-> Older(f[i], Window)]
        /\ old = [i \in 1..Threshold |-> Older(ages[i], Window)]
    BY <1>2, <1>3, <1>7 DEF Ageing
  <2>2. BurstFits(g, old)
    BY <1>4, <2>1, TickFits
  <2> QED BY <1>3, <1>7, <2>2 DEF Ageing
<1> QED BY <1>5, <1>6, <1>7

(* A candidate is tried with breakers the loop has left. *)
LEMMA TryMoves ==
    ASSUME NEW r, NEW c, NEW i, NEW brs \in [Backends -> SoundBreakers], TryCandidate(r, c, i, brs),
           NEW a \in Backends
    PROVE  /\ breaker'[a].failures = brs[a].failures
           /\ breaker'[a].state = "open" => brs[a].state = "open"
<1>1. breaker' = [brs EXCEPT ![c.route[i]] = BeforeCall(@)]
  BY DEF TryCandidate
<1>2. breaker'[a] = brs[a] \/ breaker'[a] = BeforeCall(brs[a])
  BY <1>1
<1> QED BY <1>2, MethodsAtFailures

(* Every step moves every backend in one of these ways. *)
LEMMA EveryStepMoves ==
    ASSUME FailoverInv, [Next]_vars, NEW a \in Backends
    PROVE  Untouched(a) \/ Struck(a) \/ Ageing(a)
<1>1. breaker \in [Backends -> SoundBreakers] /\ burst \in [Backends -> [1..Threshold -> 0..Window]]
  BY DEF FailoverInv, BreakersSound, HistoryOK
<1>2. ASSUME NEW r \in Requests, NEW kind \in Kinds, NEW route \in Routes, StartCall(r, kind, route)
      PROVE  Untouched(a)
  <2>1. TryCandidate(r, [NoCall EXCEPT !.kind = kind, !.route = route], 1, breaker) /\ burst' = burst
    BY <1>2 DEF StartCall
  <2> QED BY <1>1, <2>1, TryMoves DEF Untouched
<1>3. ASSUME NEW r \in Requests, CallSucceeds(r)
      PROVE  Untouched(a)
  <2>1. breaker' = [breaker EXCEPT ![Backend(r)] = OnSuccess(@)] /\ burst' = burst
    BY <1>3 DEF CallSucceeds
  <2>2. breaker'[a] = breaker[a] \/ breaker'[a] = OnSuccess(breaker[a])
    BY <1>1, <2>1
  <2> QED BY <1>1, <2>1, <2>2, MethodsAtFailures DEF Untouched
<1>4. ASSUME NEW r \in Requests, FirstChunk(r) \/ \E upset \in Upsets : CallUpset(r, upset)
      PROVE  Untouched(a)
  BY <1>4 DEF FirstChunk, CallUpset, Untouched
<1>5. ASSUME NEW r \in Requests, CallFails(r)
      PROVE  Untouched(a) \/ Struck(a)
  <2> DEFINE b == Backend(r)
             brs == [breaker EXCEPT ![b] = OnFailure(breaker[b])]
             c == [call[r] EXCEPT !.failed = @ \cup {b}]
  <2>1. b \in Backends
    BY <1>5, InFlightFacts DEF CallFails, FailoverInv, CallsSound
  <2>2. brs \in [Backends -> SoundBreakers]
    BY <2>1, FailedBreakers
  <2>3. burst' = [burst EXCEPT ![b] = Pushed(burst[b])]
    BY <1>5 DEF CallFails, RecordFailure, Pushed
  <2>4. (\E j \in Following(c.route, c.at) : TryCandidate(r, c, j, brs)) \/ breaker' = brs
    BY <1>5 DEF CallFails
  <2> HIDE DEF c
  <2>5. /\ breaker'[a].failures = brs[a].failures
        /\ breaker'[a].state = "open" => brs[a].state = "open"
    <3>1. CASE breaker' = brs
      BY <3>1
    <3>2. CASE \E j \in Following(c.route, c.at) : TryCandidate(r, c, j, brs)
      <4>1. PICK j : TryCandidate(r, c, j, brs)
        BY <3>2
      <4> HIDE DEF brs
      <4> QED BY <2>2, <4>1, TryMoves
    <3> QED BY <2>4, <3>1, <3>2
  <2>6. CASE a = b
    <3>1. brs[a] = OnFailure(breaker[a]) /\ burst'[a] = Pushed(burst[a])
      BY <1>1, <2>1, <2>3, <2>6
    <3> HIDE DEF brs
    <3>2. breaker[a] \in SoundBreakers
      BY <1>1
    <3> QED BY <2>5, <3>1, <3>2, MethodsAtFailures DEF Struck
  <2>7. CASE a # b
    <3>1. brs[a] = breaker[a] /\ burst'[a] = burst[a]
      BY <1>1, <2>3, <2>7
    <3> HIDE DEF brs
    <3> QED BY <2>5, <3>1 DEF Untouched
  <2> QED BY <2>6, <2>7
<1>6. ASSUME ReadHealth PROVE Untouched(a)
  <2>1. breaker'[a] = Observed(breaker[a]) /\ burst' = burst
    BY <1>6 DEF ReadHealth
  <2> QED BY <1>1, <2>1, MethodsAtFailures DEF Untouched
<1>7. ASSUME NEW b \in Backends, ResetBreaker(b) PROVE Untouched(a)
  <2>1. burst' = burst /\ (breaker'[a] = breaker[a] \/ breaker'[a] = FreshBreaker)
    BY <1>1, <1>7 DEF ResetBreaker
  <2> QED BY <2>1 DEF Untouched, FreshBreaker
<1>8. ASSUME Tick PROVE Ageing(a)
  <2>1. breaker'[a] = Aged(breaker[a]) /\ burst'[a] = [i \in 1..Threshold |-> Older(burst[a][i], Window)]
    BY <1>8 DEF Tick
  <2>2. PICK br \in SoundBreakers : br = breaker[a]
    BY <1>1
  <2>3. /\ Aged(br).failures = [i \in DOMAIN br.failures |-> Older(br.failures[i], Window)]
        /\ Aged(br).state = br.state
    BY MethodsAtFailures
  <2>4. breaker'[a] = Aged(br)
    BY <2>1, <2>2
  <2>5. /\ breaker'[a].failures = [i \in DOMAIN breaker[a].failures |-> Older(breaker[a].failures[i], Window)]
        /\ breaker'[a].state = breaker[a].state
    BY <2>2, <2>3, <2>4, Zenon
  <2> QED BY <2>1, <2>5 DEF Ageing
<1>9. ASSUME UNCHANGED vars PROVE Untouched(a)
  BY <1>9 DEF vars, Untouched
<1> QED BY <1>2, <1>3, <1>4, <1>5, <1>6, <1>7, <1>8, <1>9 DEF Next

(* A breaker trips only on a burst of its own backend's failures, all of    *)
(* them inside the window, for every threshold and any number of requests   *)
(* (on_failure and _prune).                                                 *)
THEOREM TripsAreEarned == Spec => TripsOnBurst
<1>1. Init => BurstInv
  <2> SUFFICES ASSUME Init, NEW b \in Backends PROVE BurstFits(breaker[b].failures, burst[b])
    BY DEF BurstInv
  <2>1. PICK f : f = breaker[b].failures
    OBVIOUS
  <2>2. f = <<>>
    BY <2>1 DEF Init, FreshBreaker
  <2>3. DOMAIN f = {} /\ 1..Len(f) = {}
    BY <2>2
  <2>4. BurstFits(f, burst[b])
    BY <2>3 DEF BurstFits, OldestFirst
  <2> QED BY <2>1, <2>4
<1>2. ASSUME FailoverInv, FailoverInv', BurstInv, [Next]_vars
      PROVE  /\ BurstInv'
             /\ \A b \in Backends :
                   breaker[b].state = "closed" /\ breaker'[b].state = "open" =>
                       \A i \in 1..Threshold : burst'[b][i] < Window
  BY <1>2, EveryStepMoves, MovesFit DEF BurstInv
<1>3. FailoverInv /\ FailoverInv' /\ BurstInv /\ [Next]_vars =>
          [\A b \in Backends :
              breaker[b].state = "closed" /\ breaker'[b].state = "open" =>
                  \A i \in 1..Threshold : burst'[b][i] < Window]_vars
  BY <1>2
<1>4. FailoverInv /\ FailoverInv' /\ BurstInv /\ [Next]_vars => BurstInv'
  BY <1>2
<1> QED BY <1>1, <1>3, <1>4, FailoverInvHolds, PTL DEF Spec, TripsOnBurst
===============================================================================
