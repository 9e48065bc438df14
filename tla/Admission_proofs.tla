--------------------------- MODULE Admission_proofs ---------------------------
(***************************************************************************)
(* Proofs about what stands between a caller and the chat handlers:        *)
(* AddressGate, for any number of addresses and visits, with and without   *)
(* Redis; ContentGuards, for any texts, policies, custom rules and requests; *)
(* McpServer, for any number of keys, streams and messages and any limits; *)
(* and, with those of Windows_proofs, all of MCAdmission.                  *)
(***************************************************************************)
EXTENDS Windows_proofs, MCAdmission

-------------------------------------------------------------------------------
(* The address gate. *)

(* In memory an address's counter is the number of its visits inside: none, *)
(* or the one there is.                                                     *)
MemoryCounts ==
    store = "memory" =>
        /\ \A v \in Visits : visit[v].phase \in {"idle", "tarpit", "inside"}
        /\ \A a \in Addresses :
              \/ inFlight[a] = NoCounter /\ Inside(a) = {}
              \/ /\ inFlight[a] = [n |-> 1, left |-> Forever]
                 /\ \E v \in Visits : Inside(a) = {v}

(* In Redis a counter that keeps somebody out and does not run out has a    *)
(* visit on its way to EXPIRE.                                              *)
Arming(a) == \E v \in Visits : visit[v].addr = a /\ visit[v].phase = "arm"
CountersArmed ==
    store = "redis" => \A a \in Addresses \ orphaned :
        inFlight[a].n <= 0 \/ inFlight[a].left # Forever \/ Arming(a)

GateInv == GateTypeOK /\ MemoryCounts /\ CountersArmed

(* What the commands make of a counter. *)
LEMMA CounterSteps ==
    ASSUME NEW c \in Counters
    PROVE  /\ {NoCounter, Incremented(c), Decremented(c), Expiring(c), Dropped(c), Lived(c)} \subseteq Counters
           /\ Incremented(c).left = (IF c.left = 0 THEN Forever ELSE c.left)
           /\ Incremented(c).n = (IF c.left = 0 THEN 1 ELSE c.n + 1)
           /\ Decremented(c).left = (IF c.left = 0 THEN Forever ELSE c.left)
           /\ Decremented(c).n = (IF c.left = 0 THEN -1 ELSE c.n - 1)
           /\ Expiring(c).left # Forever
           /\ Lived(c).left = Forever <=> c.left = Forever
           /\ c.left = Forever => Lived(c) = c
           /\ Lived(NoCounter) = NoCounter
           /\ Incremented(NoCounter) = [n |-> 1, left |-> Forever]
           /\ Dropped(Decremented([n |-> 1, left |-> Forever])) = NoCounter
<1>1. Lifetime \in Nat \ {0} /\ Forever = Lifetime + 1
  BY LifetimeAssumption DEF Forever
<1> QED BY <1>1 DEF Counters, NoCounter, Incremented, Decremented, Expiring, Dropped, Lived

LEMMA InitGate == GateInit => GateInv
<1> SUFFICES ASSUME GateInit PROVE GateInv
  OBVIOUS
<1>1. /\ MinGap \in Nat \ {0} /\ Lifetime \in Nat \ {0} /\ MaxViolations \in Nat \ {0}
      /\ NoVisit \in GateVisits /\ NoVisit.phase = "idle" /\ NoCounter \in Counters
      /\ NoCounter.n = 0
  BY MinGapAssumption, LifetimeAssumption, MaxViolationsAssumption, AddressesAssumption
     DEF NoVisit, GateVisits, VisitPhases, NoCounter, Counters, Forever
<1>2. GateTypeOK
  BY <1>1 DEF GateInit, GateTypeOK
<1>3. MemoryCounts
  BY <1>1 DEF GateInit, MemoryCounts, Inside
<1>4. CountersArmed
  BY <1>1 DEF GateInit, CountersArmed
<1> QED BY <1>2, <1>3, <1>4 DEF GateInv

(* A step of one visit, seen by the invariant: it may change its place, the *)
(* counter of its address and what nobody asks about.                       *)
VisitMove(v) ==
    \E row \in GateVisits, c \in Counters :
        /\ store' = store
        /\ lastSeen' \in [Addresses -> 0..MinGap]
        /\ violations' \in [Addresses -> 0..MaxViolations]
        /\ visit' = [visit EXCEPT ![v] = row]
        /\ inFlight' = [inFlight EXCEPT ![row.addr] = c]
        /\ row.addr # visit[v].addr => visit[v].phase \in {"idle"}
        /\ orphaned' \subseteq Addresses /\ orphaned \subseteq orphaned'
        /\ store = "memory" =>
              LET old == inFlight[row.addr] IN
              \/ c = old /\ visit[v].phase # "inside" /\ row.phase \in {"idle", "tarpit"}
              \/ /\ old.n <= 0 /\ visit[v].phase # "inside"
                 /\ row.phase = "inside" /\ c = Incremented(old)
              \/ visit[v].phase = "inside" /\ row.phase = "idle" /\ c = Dropped(Decremented(old))
        /\ store = "redis" =>
              LET old == inFlight[row.addr] IN
              /\ visit[v].phase = "arm" => c.left # Forever \/ row.addr \in orphaned'
              /\ c.left = Forever /\ c.n > 0 =>
                    \/ row.phase = "arm"
                    \/ old.left = Forever /\ old.n > 0

LEMMA VisitMoves == ASSUME GateInv, NEW v \in Visits, VisitMove(v) PROVE GateInv'
<1> USE DEF GateInv
<1>1. PICK row \in GateVisits, c \in Counters : VisitMove(v)!(row, c)
  BY DEF VisitMove
<1> DEFINE a == row.addr
<1>2. a \in Addresses /\ row.phase \in VisitPhases
  BY DEF GateVisits
<1>3. GateTypeOK'
  BY <1>1, <1>2 DEF GateTypeOK
<1>4. \A w \in Visits : visit'[w] = IF w = v THEN row ELSE visit[w]
  BY <1>1 DEF GateTypeOK
<1>5. \A b \in Addresses : inFlight'[b] = IF b = a THEN c ELSE inFlight[b]
  BY <1>1 DEF GateTypeOK
<1>6. \A b \in Addresses \ {a} : Inside(b)' = Inside(b)
  BY <1>1, <1>4 DEF Inside
<1>7. MemoryCounts'
  <2> SUFFICES ASSUME store = "memory" PROVE MemoryCounts'
    BY <1>1 DEF MemoryCounts
  <2>1. \A w \in Visits : visit'[w].phase \in {"idle", "tarpit", "inside"}
    BY <1>1, <1>4 DEF MemoryCounts
  <2>2. Inside(a)' = IF row.phase = "inside" THEN Inside(a) \cup {v} ELSE Inside(a) \ {v}
    BY <1>4 DEF Inside
  <2>3. visit[v].phase # "inside" => v \notin Inside(a)
    BY DEF Inside
  <2>4. visit[v].phase = "inside" => v \in Inside(a)
    BY <1>1 DEF Inside
  <2>5. \/ inFlight[a] = NoCounter /\ Inside(a) = {}
        \/ /\ inFlight[a] = [n |-> 1, left |-> Forever]
           /\ \E w \in Visits : Inside(a) = {w}
    BY <1>2 DEF MemoryCounts
  <2>6. \/ c = NoCounter /\ Inside(a)' = {}
        \/ c = [n |-> 1, left |-> Forever] /\ \E w \in Visits : Inside(a)' = {w}
    <3>1. CASE c = inFlight[a] /\ visit[v].phase # "inside" /\ row.phase \in {"idle", "tarpit"}
      BY <2>2, <2>3, <2>5, <3>1
    <3>2. CASE /\ inFlight[a].n <= 0 /\ visit[v].phase # "inside"
               /\ row.phase = "inside" /\ c = Incremented(inFlight[a])
      <4>1. inFlight[a] = NoCounter /\ Inside(a) = {}
        BY <2>5, <3>2
      <4> QED BY <2>2, <3>2, <4>1, CounterSteps DEF GateTypeOK
    <3>3. CASE visit[v].phase = "inside" /\ row.phase = "idle" /\ c = Dropped(Decremented(inFlight[a]))
      <4>1. inFlight[a] = [n |-> 1, left |-> Forever] /\ Inside(a) = {v}
        BY <2>4, <2>5, <3>3
      <4> QED BY <1>1, <2>2, <3>3, <4>1, CounterSteps DEF GateTypeOK
    <3> QED BY <1>1, <3>1, <3>2, <3>3
  <2>7. \A b \in Addresses :
              \/ inFlight'[b] = NoCounter /\ Inside(b)' = {}
              \/ /\ inFlight'[b] = [n |-> 1, left |-> Forever]
                 /\ \E w \in Visits : Inside(b)' = {w}
    BY <1>2, <1>5, <1>6, <2>6 DEF MemoryCounts
  <2> QED BY <2>1, <2>7 DEF MemoryCounts
<1>8. CountersArmed'
  <2> SUFFICES ASSUME store = "redis", NEW b \in Addresses, b \notin orphaned',
                      inFlight'[b].n > 0, inFlight'[b].left = Forever
               PROVE  Arming(b)'
    <3>1. \A b \in Addresses : inFlight'[b].n \in Int
      BY <1>3 DEF GateTypeOK, Counters
    <3> QED BY <1>1, <3>1 DEF CountersArmed
  <2>1. CASE row.phase = "arm" /\ b = a
    BY <1>4, <2>1 DEF Arming
  <2>2. CASE ~(row.phase = "arm" /\ b = a)
    <3>1. inFlight[b].left = Forever /\ inFlight[b].n > 0 /\ b \notin orphaned
      BY <1>1, <1>5, <2>2
    <3>2. inFlight[b].n \in Int
      BY DEF GateTypeOK, Counters
    <3>3. PICK w \in Visits : visit[w].addr = b /\ visit[w].phase = "arm"
      BY <3>1, <3>2 DEF CountersArmed, Arming
    <3>4. w # v
      BY <1>1, <1>5, <3>3
    <3> QED BY <1>4, <3>3, <3>4 DEF Arming
  <2> QED BY <2>1, <2>2
<1> QED BY <1>3, <1>7, <1>8

(* The next place of a visit. *)
Placed(v, phase, a) == visit' = [visit EXCEPT ![v].phase = phase, ![v].addr = a]

LEMMA Row ==
    ASSUME GateInv, NEW v \in Visits, NEW phase \in VisitPhases, NEW a \in Addresses,
           Placed(v, phase, a)
    PROVE  \E row \in GateVisits :
              /\ row.phase = phase /\ row.addr = a
              /\ visit' = [visit EXCEPT ![v] = row]
<1> DEFINE row == [visit[v] EXCEPT !.phase = phase, !.addr = a]
<1>1. row \in GateVisits /\ row.phase = phase /\ row.addr = a
  BY DEF GateInv, GateTypeOK, GateVisits
<1>2. visit' = [visit EXCEPT ![v] = row]
  BY DEF Placed, GateInv, GateTypeOK
<1> QED BY <1>1, <1>2

LEMMA RowOfStep ==
    ASSUME GateInv, NEW v \in Visits, NEW phase \in VisitPhases, Step(v, phase)
    PROVE  \E row \in GateVisits :
              /\ row.phase = phase /\ row.addr = visit[v].addr
              /\ visit' = [visit EXCEPT ![v] = row]
<1> DEFINE row == [visit[v] EXCEPT !.phase = phase]
<1>1. row \in GateVisits /\ row.phase = phase /\ row.addr = visit[v].addr
  BY DEF GateInv, GateTypeOK, GateVisits
<1>2. visit' = [visit EXCEPT ![v] = row]
  BY DEF Step, GateInv, GateTypeOK
<1> QED BY <1>1, <1>2

LEMMA Unmoved ==
    ASSUME GateInv, NEW a \in Addresses, UNCHANGED inFlight
    PROVE  inFlight' = [inFlight EXCEPT ![a] = inFlight[a]] /\ inFlight[a] \in Counters
BY DEF GateInv, GateTypeOK

(* A visit that waits changes no counter. *)
LEMMA Waited ==
    ASSUME GateInv, NEW v \in Visits, NEW row \in GateVisits,
           visit' = [visit EXCEPT ![v] = row], UNCHANGED <<store, inFlight, orphaned>>,
           lastSeen' \in [Addresses -> 0..MinGap],
           violations' \in [Addresses -> 0..MaxViolations],
           visit[v].phase \in {"idle", "tarpit"},
           row.addr # visit[v].addr => visit[v].phase = "idle",
           store = "memory" => row.phase = "tarpit"
    PROVE  VisitMove(v)
<1>1. row.addr \in Addresses /\ orphaned \subseteq Addresses
  BY DEF GateVisits, GateInv, GateTypeOK
<1>2. inFlight[row.addr] \in Counters /\ inFlight' = [inFlight EXCEPT ![row.addr] = inFlight[row.addr]]
  BY <1>1, Unmoved
<1> QED BY <1>1, <1>2 DEF VisitMove

LEMMA MemoryEntered ==
    ASSUME GateInv, NEW v \in Visits, NEW a \in Addresses,
           NEW known \in [Addresses -> 0..MaxViolations], store = "memory",
           \/ visit[v].phase = "idle"
           \/ visit[v].phase = "tarpit" /\ visit[v].addr = a,
           EnterMemory(v, a, known), UNCHANGED <<store, orphaned>>
    PROVE  GateInv'
<1> DEFINE refused == TooSoon(a) \/ inFlight[a].n > 0
           phase == IF refused THEN "idle" ELSE "inside"
           c == IF refused THEN inFlight[a] ELSE Incremented(inFlight[a])
<1>1. inFlight[a] \in Counters /\ c \in Counters /\ inFlight[a].n \in Int
  BY CounterSteps DEF GateInv, GateTypeOK, Counters
<1>2. PICK row \in GateVisits :
         row.phase = phase /\ row.addr = a /\ visit' = [visit EXCEPT ![v] = row]
  <2>1. phase \in VisitPhases
    BY DEF VisitPhases
  <2>2. Placed(v, phase, a)
    BY DEF EnterMemory, Placed
  <2> HIDE DEF phase
  <2> QED BY <2>1, <2>2, Row
<1>3. /\ MinGap \in Nat /\ MaxViolations \in Nat /\ orphaned \subseteq Addresses
      /\ lastSeen \in [Addresses -> 0..MinGap]
  BY MinGapAssumption, MaxViolationsAssumption DEF GateInv, GateTypeOK
<1>4. lastSeen' \in [Addresses -> 0..MinGap]
  BY <1>3 DEF EnterMemory
<1>5. violations' \in [Addresses -> 0..MaxViolations]
  BY <1>3 DEF EnterMemory, Punished
<1>6. inFlight' = [inFlight EXCEPT ![a] = c]
  BY DEF EnterMemory, GateInv, GateTypeOK
<1>7. \/ c = inFlight[a] /\ visit[v].phase # "inside" /\ row.phase \in {"idle", "tarpit"}
      \/ /\ inFlight[a].n <= 0 /\ visit[v].phase # "inside"
         /\ row.phase = "inside" /\ c = Incremented(inFlight[a])
  BY <1>1, <1>2
<1>8. row.addr # visit[v].addr => visit[v].phase = "idle"
  BY <1>2
<1> HIDE DEF c, phase, refused
<1>9. VisitMove(v)
  BY <1>1, <1>2, <1>3, <1>4, <1>5, <1>6, <1>7, <1>8 DEF VisitMove
<1> QED BY <1>9, VisitMoves

LEMMA Arrived ==
    ASSUME GateInv, NEW v \in Visits, NEW a \in Addresses, NEW hour \in BOOLEAN, Arrive(v, a, hour)
    PROVE  GateInv'
<1> DEFINE known == IF hour /\ store = "memory" THEN [b \in Addresses |-> 0] ELSE violations
<1>1. /\ known \in [Addresses -> 0..MaxViolations] /\ orphaned \subseteq Addresses
      /\ lastSeen \in [Addresses -> 0..MinGap] /\ 0 \in 0..MinGap
  BY MaxViolationsAssumption, MinGapAssumption DEF GateInv, GateTypeOK
<1>2. CASE /\ visit' = [visit EXCEPT ![v].phase = "tarpit", ![v].addr = a]
           /\ violations' = known /\ UNCHANGED <<lastSeen, inFlight>>
  <2>1. PICK row \in GateVisits :
           row.phase = "tarpit" /\ row.addr = a /\ visit' = [visit EXCEPT ![v] = row]
    <3>1. "tarpit" \in VisitPhases /\ Placed(v, "tarpit", a)
      BY <1>2 DEF VisitPhases, Placed
    <3> QED BY <3>1, Row
  <2>2. visit[v].phase = "idle" /\ UNCHANGED <<store, orphaned>>
    BY DEF Arrive
  <2> HIDE DEF known
  <2>3. VisitMove(v)
    BY <1>1, <1>2, <2>1, <2>2, Waited
  <2> QED BY <2>3, VisitMoves
<1>3. CASE store = "memory" /\ EnterMemory(v, a, known)
  <2>1. visit[v].phase = "idle" /\ UNCHANGED <<store, orphaned>>
    BY DEF Arrive
  <2> HIDE DEF known
  <2> QED BY <1>1, <1>3, <2>1, MemoryEntered
<1>4. CASE /\ store = "redis" /\ visit' = [visit EXCEPT ![v] = [phase |-> "gap", addr |-> a, asked |-> 0]]
           /\ UNCHANGED <<lastSeen, inFlight, violations>>
  <2>1. [phase |-> "gap", addr |-> a, asked |-> 0] \in GateVisits
    BY <1>1 DEF GateVisits, VisitPhases
  <2>2. VisitMove(v)
    BY <1>1, <1>4, <2>1, Unmoved DEF Arrive, VisitMove, GateInv, GateTypeOK
  <2> QED BY <2>2, VisitMoves
<1> QED BY <1>2, <1>3, <1>4 DEF Arrive

LEMMA Woken == ASSUME GateInv, NEW v \in Visits, Wake(v) PROVE GateInv'
<1>1. visit[v].addr \in Addresses /\ violations \in [Addresses -> 0..MaxViolations]
  BY DEF GateInv, GateTypeOK, GateVisits
<1>2. CASE store = "memory" /\ EnterMemory(v, visit[v].addr, violations)
  BY <1>1, <1>2, MemoryEntered DEF Wake
<1>3. CASE /\ store = "redis" /\ visit' = [visit EXCEPT ![v].phase = "gap", ![v].asked = 0]
           /\ UNCHANGED <<lastSeen, inFlight, violations>>
  <2> DEFINE row == [visit[v] EXCEPT !.phase = "gap", !.asked = 0]
  <2>1. row \in GateVisits /\ row.phase = "gap" /\ row.addr = visit[v].addr
    <3>1. visit[v] \in GateVisits /\ "gap" \in VisitPhases /\ 0 \in 0..MinGap
      BY MinGapAssumption DEF GateInv, GateTypeOK, VisitPhases
    <3> QED BY <3>1 DEF GateVisits
  <2>2. visit' = [visit EXCEPT ![v] = row]
    BY <1>3 DEF GateInv, GateTypeOK
  <2> HIDE DEF row
  <2>3. VisitMove(v)
    <3>1. /\ lastSeen \in [Addresses -> 0..MinGap] /\ orphaned \subseteq Addresses
          /\ visit[v].phase = "tarpit" /\ UNCHANGED <<store, orphaned>>
      BY DEF Wake, GateInv, GateTypeOK
    <3> QED BY <1>1, <1>3, <2>1, <2>2, <3>1, Waited
  <2> QED BY <2>3, VisitMoves
<1> QED BY <1>2, <1>3 DEF Wake

(* A Redis command of a visit: its next phase and what becomes of the       *)
(* counter of its address.                                                  *)
LEMMA Commanded ==
    ASSUME GateInv, NEW v \in Visits, NEW phase \in VisitPhases, NEW c \in Counters,
           Step(v, phase), store = "redis", UNCHANGED store,
           inFlight' = [inFlight EXCEPT ![visit[v].addr] = c],
           lastSeen' \in [Addresses -> 0..MinGap],
           violations' \in [Addresses -> 0..MaxViolations],
           orphaned' \subseteq Addresses, orphaned \subseteq orphaned',
           visit[v].phase = "arm" => c.left # Forever \/ visit[v].addr \in orphaned',
           c.left = Forever /\ c.n > 0 =>
              \/ phase = "arm"
              \/ inFlight[visit[v].addr].left = Forever /\ inFlight[visit[v].addr].n > 0
    PROVE  GateInv'
<1>1. PICK row \in GateVisits :
         row.phase = phase /\ row.addr = visit[v].addr /\ visit' = [visit EXCEPT ![v] = row]
  BY RowOfStep
<1>2. VisitMove(v)
  BY <1>1 DEF VisitMove
<1> QED BY <1>2, VisitMoves

(* In memory nobody waits for Redis. *)
LEMMA OnlyRedis ==
    ASSUME GateInv, NEW v \in Visits, visit[v].phase \in {"gap", "mark", "count", "uncount", "arm", "punish", "clear"}
    PROVE  store = "redis"
BY DEF GateInv, GateTypeOK, MemoryCounts

LEMMA Responded == ASSUME GateInv, NEW v \in Visits, Respond(v) PROVE GateInv'
<1> DEFINE a == visit[v].addr
           c == Dropped(Decremented(inFlight[a]))
           d == Decremented(inFlight[a])
<1>1. /\ a \in Addresses /\ inFlight[a] \in Counters /\ orphaned \subseteq Addresses
      /\ lastSeen \in [Addresses -> 0..MinGap] /\ violations \in [Addresses -> 0..MaxViolations]
  BY DEF GateInv, GateTypeOK, GateVisits
<1>2. c \in Counters /\ d \in Counters
  BY <1>1, CounterSteps
<1>3. CASE /\ store = "memory" /\ inFlight' = [inFlight EXCEPT ![a] = c] /\ Step(v, "idle")
  <2>1. PICK row \in GateVisits :
           row.phase = "idle" /\ row.addr = a /\ visit' = [visit EXCEPT ![v] = row]
    BY <1>3, RowOfStep DEF VisitPhases
  <2>2. VisitMove(v)
    BY <1>1, <1>2, <1>3, <2>1 DEF Respond, VisitMove
  <2> QED BY <2>2, VisitMoves
<1>4. CASE /\ store = "redis" /\ inFlight' = [inFlight EXCEPT ![a] = d]
           /\ Step(v, IF inFlight'[a].n <= 0 THEN "clear" ELSE "idle")
  <2> DEFINE phase == IF inFlight'[a].n <= 0 THEN "clear" ELSE "idle"
  <2>1. phase \in VisitPhases
    BY DEF VisitPhases
  <2>2. inFlight[a].n \in Int /\ d.n \in Int
    BY <1>1, <1>2 DEF Counters
  <2>3. d.left = Forever /\ d.n > 0 => inFlight[a].left = Forever /\ inFlight[a].n > 0
    BY <1>1, <2>2, CounterSteps
  <2> HIDE DEF phase, d
  <2> QED BY <1>1, <1>2, <1>4, <2>1, <2>3, Commanded DEF Respond, phase
<1> QED BY <1>3, <1>4 DEF Respond

LEMMA NextGate == GateInv /\ [GateNext]_gateVars => GateInv'
<1> SUFFICES ASSUME GateInv, [GateNext]_gateVars PROVE GateInv'
  OBVIOUS
<1>1. /\ MinGap \in Nat \ {0} /\ MaxViolations \in Nat \ {0} /\ orphaned \subseteq Addresses
      /\ lastSeen \in [Addresses -> 0..MinGap] /\ violations \in [Addresses -> 0..MaxViolations]
      /\ inFlight \in [Addresses -> Counters] /\ visit \in [Visits -> GateVisits]
      /\ store \in {"memory", "redis"}
  BY MinGapAssumption, MaxViolationsAssumption DEF GateInv, GateTypeOK
<1>2. \A v \in Visits : visit[v].addr \in Addresses /\ visit[v].phase \in VisitPhases
                            /\ visit[v].asked \in 0..MinGap
  BY <1>1 DEF GateVisits
<1>3. \A a \in Addresses : inFlight[a].n \in Int /\ inFlight[a].left \in 0..Forever
  BY <1>1 DEF Counters
<1>4. NoCounter \in Counters /\ NoCounter.n = 0
  BY LifetimeAssumption DEF NoCounter, Counters, Forever
<1>5. ASSUME NEW v \in Visits, ReadGap(v) PROVE GateInv'
  <2>1. store = "redis" /\ {"punish", "mark"} \subseteq VisitPhases
    BY <1>5, OnlyRedis DEF ReadGap, VisitPhases
  <2> QED BY <1>1, <1>2, <1>5, <2>1, Unmoved, Commanded DEF ReadGap
<1>6. ASSUME NEW v \in Visits, MarkGap(v) PROVE GateInv'
  <2>1. store = "redis" /\ "count" \in VisitPhases
    BY <1>6, OnlyRedis DEF MarkGap, VisitPhases
  <2>2. lastSeen' \in [Addresses -> 0..MinGap]
    BY <1>1, <1>2, <1>6 DEF MarkGap
  <2> QED BY <1>1, <1>2, <1>6, <2>1, <2>2, Unmoved, Commanded DEF MarkGap
<1>7. ASSUME NEW v \in Visits, Count(v) PROVE GateInv'
  <2> DEFINE a == visit[v].addr
             c == Incremented(inFlight[a])
             phase == IF c.n > 1 THEN "uncount" ELSE "arm"
  <2>1. store = "redis" /\ phase \in VisitPhases /\ c \in Counters
    BY <1>1, <1>2, <1>7, OnlyRedis, CounterSteps DEF Count, VisitPhases
  <2>2. c.left = Forever /\ c.n > 0 =>
           phase = "arm" \/ (inFlight[a].left = Forever /\ inFlight[a].n > 0)
    BY <1>1, <1>2, <1>3, CounterSteps
  <2>3. inFlight' = [inFlight EXCEPT ![a] = c] /\ Step(v, phase)
    BY <1>7 DEF Count
  <2> HIDE DEF c, phase
  <2> QED BY <1>1, <1>7, <2>1, <2>2, <2>3, Commanded DEF Count
<1>8. ASSUME NEW v \in Visits, Uncount(v) PROVE GateInv'
  <2> DEFINE a == visit[v].addr
             c == Decremented(inFlight[a])
  <2>1. store = "redis" /\ "punish" \in VisitPhases /\ c \in Counters
    BY <1>1, <1>2, <1>8, OnlyRedis, CounterSteps DEF Uncount, VisitPhases
  <2>2. c.left = Forever /\ c.n > 0 => inFlight[a].left = Forever /\ inFlight[a].n > 0
    BY <1>1, <1>2, <1>3, CounterSteps
  <2>3. inFlight' = [inFlight EXCEPT ![a] = c]
    BY <1>8 DEF Uncount
  <2> HIDE DEF c
  <2> QED BY <1>1, <1>8, <2>1, <2>2, <2>3, Commanded DEF Uncount
<1>9. ASSUME NEW v \in Visits, Arm(v) PROVE GateInv'
  <2> DEFINE a == visit[v].addr
             c == Expiring(inFlight[a])
  <2>1. store = "redis" /\ "inside" \in VisitPhases /\ c \in Counters /\ c.left # Forever
    BY <1>1, <1>2, <1>9, OnlyRedis, CounterSteps DEF Arm, VisitPhases
  <2>2. inFlight' = [inFlight EXCEPT ![a] = c]
    BY <1>9 DEF Arm
  <2> HIDE DEF c
  <2> QED BY <1>1, <1>9, <2>1, <2>2, Commanded DEF Arm
<1>10. ASSUME NEW v \in Visits, Punish(v) PROVE GateInv'
  <2>1. store = "redis" /\ "idle" \in VisitPhases
    BY <1>10, OnlyRedis DEF Punish, VisitPhases
  <2>2. violations' \in [Addresses -> 0..MaxViolations]
    <3>1. \A n \in 0..MaxViolations : Punished(n) \in 0..MaxViolations
      BY <1>1 DEF Punished
    <3> HIDE DEF Punished
    <3> QED BY <1>1, <1>2, <1>10, <3>1 DEF Punish
  <2> QED BY <1>1, <1>2, <1>10, <2>1, <2>2, Unmoved, Commanded DEF Punish
<1>11. ASSUME NEW v \in Visits, Clear(v) PROVE GateInv'
  <2>1. store = "redis" /\ "idle" \in VisitPhases
    BY <1>11, OnlyRedis DEF Clear, VisitPhases
  <2>2. visit[v].phase # "arm" /\ ~(NoCounter.n > 0)
    BY <1>4, <1>11 DEF Clear
  <2> QED BY <1>1, <1>4, <1>11, <2>1, <2>2, Commanded DEF Clear
<1>12. ASSUME NEW v \in Visits, Lose(v) PROVE GateInv'
  <2>1. "idle" \in VisitPhases /\ orphaned' \subseteq Addresses /\ orphaned \subseteq orphaned'
    BY <1>1, <1>2, <1>12 DEF Lose, VisitPhases
  <2>2. visit[v].phase = "arm" => visit[v].addr \in orphaned'
    BY <1>12 DEF Lose
  <2> QED BY <1>1, <1>2, <1>12, <2>1, <2>2, Unmoved, Commanded DEF Lose
<1>13. CASE Restart
  <2>1. \A v \in Visits : [visit[v] EXCEPT !.phase = "idle"] \in GateVisits
                            /\ [visit[v] EXCEPT !.phase = "idle"].phase = "idle"
    BY <1>1 DEF GateVisits, VisitPhases
  <2>2. GateTypeOK'
    BY <1>1, <1>4, <1>13, <2>1 DEF Restart, GateTypeOK
  <2>3. MemoryCounts' /\ CountersArmed'
    BY <1>4, <1>13, <2>1 DEF Restart, MemoryCounts, CountersArmed, Inside
  <2> QED BY <2>2, <2>3 DEF GateInv
<1>14. ASSUME NEW a \in Addresses, Forgive(a) PROVE GateInv'
  BY <1>1, <1>14 DEF Forgive, GateInv, GateTypeOK, MemoryCounts, CountersArmed, Inside, Arming
<1>15. CASE GateTick
  <2>1. \A v \in Visits : /\ visit'[v] \in GateVisits
                           /\ visit'[v].phase = visit[v].phase /\ visit'[v].addr = visit[v].addr
    BY <1>1, <1>2, <1>15 DEF GateTick, Capped, GateVisits
  <2>2. \A a \in Addresses : /\ inFlight'[a] \in Counters
                             /\ inFlight'[a].left = Forever <=> inFlight[a].left = Forever
                             /\ inFlight[a].left = Forever => inFlight'[a] = inFlight[a]
                             /\ inFlight[a] = NoCounter => inFlight'[a] = NoCounter
    BY <1>1, <1>15, CounterSteps DEF GateTick
  <2>3. GateTypeOK'
    <3>1. inFlight' \in [Addresses -> Counters] /\ visit' \in [Visits -> GateVisits]
      BY <1>15, <2>1, <2>2 DEF GateTick
    <3>2. lastSeen' \in [Addresses -> 0..MinGap]
      BY <1>1, <1>15 DEF GateTick, Capped
    <3> QED BY <1>1, <1>15, <3>1, <3>2 DEF GateTick, GateTypeOK
  <2>4. \A a \in Addresses : Inside(a)' = Inside(a) /\ (Arming(a)' <=> Arming(a))
    BY <2>1 DEF Inside, Arming
  <2>5. MemoryCounts'
    <3>1. [n |-> 1, left |-> Forever].left = Forever
      OBVIOUS
    <3>2. store' = store
      BY <1>15 DEF GateTick
    <3> QED BY <2>1, <2>2, <2>4, <3>1, <3>2 DEF MemoryCounts, GateInv
  <2>6. CountersArmed'
    BY <1>15, <2>2, <2>4 DEF GateTick, CountersArmed, GateInv
  <2> QED BY <2>3, <2>5, <2>6 DEF GateInv
<1>16. CASE UNCHANGED gateVars
  BY <1>16 DEF gateVars, GateInv, GateTypeOK, MemoryCounts, CountersArmed, Inside, Arming
<1> QED BY <1>5, <1>6, <1>7, <1>8, <1>9, <1>10, <1>11, <1>12, <1>13, <1>14, <1>15, <1>16,
           Arrived, Woken, Responded DEF GateNext

LEMMA GateInvHolds == GateSpec => []GateInv
BY InitGate, NextGate, PTL DEF GateSpec

(* "Limits concurrent in-flight requests per IP" within a worker, and no    *)
(* address that nobody serves is kept out for good by what the commands of  *)
(* several workers leave behind, for any number of visits and addresses and *)
(* any lifetime of the counter.                                             *)
THEOREM GateIsSound == GateSpec => []GateSound
<1>1. ASSUME GateInv PROVE OneInFlight
  <2> SUFFICES ASSUME store = "memory", NEW a \in Addresses PROVE Cardinality(Inside(a)) <= 1
    BY DEF OneInFlight
  <2>1. Inside(a) = {} \/ \E v \in Visits : Inside(a) = {v}
    BY <1>1 DEF GateInv, MemoryCounts
  <2> QED BY <2>1, FS_EmptySet, FS_Singleton
<1>2. ASSUME GateInv PROVE NoLockout
  <2> SUFFICES ASSUME NEW a \in Addresses, Absent(a), a \notin orphaned
               PROVE  inFlight[a].n <= 0 \/ inFlight[a].left # Forever
    BY DEF NoLockout
  <2>1. CASE store = "memory"
    <3>1. Inside(a) = {}
      BY DEF Absent, Inside
    <3>2. ~\E v \in Visits : Inside(a) = {v}
      BY <3>1
    <3> QED BY <1>2, <2>1, <3>2 DEF GateInv, MemoryCounts, NoCounter
  <2>2. CASE store = "redis"
    BY <1>2, <2>2 DEF GateInv, CountersArmed, Absent, Arming
  <2> QED BY <1>2, <2>1, <2>2 DEF GateInv, GateTypeOK
<1> QED BY <1>1, <1>2, GateInvHolds, PTL DEF GateSound

-------------------------------------------------------------------------------
(* The rules for prompts and answers: what the properties need to be        *)
(* inductive.                                                               *)

(* What holds of one request: only with a custom rule does it ask the       *)
(* sidecar, only an answer that is out has been inspected; and its part of  *)
(* the properties.                                                          *)
CallFits(r) ==
    /\ r \in CallRecords
    /\ r.phase \in {"query", "upload", "requery"} => r.rego # NoRego
    /\ r.phase \notin {"delivered", "withheld"} => r.checked = "none"
    /\ r.phase \in {"provider", "delivered", "withheld"} /\ r.rego # NoRego =>
          r.ruledBy # NoRego \/ (r.rules.open /\ r.verdict = "warned")
    /\ r.phase = "provider" /\ r.rego = NoRego /\ r.verdict = "allowed" =>
          \A check \in r.text \ {"ml", "semantic"} :
              Enabled(r.rules, check) => check = "pii" /\ check \in r.rules.soft
    /\ r.phase = "delivered" /\ r.checked \in {"allowed", "warned"} =>
          /\ "secrets" \notin r.reply
          /\ r.checked = "allowed" => /\ r.reply \cap r.rules.outOn = {}
                                     /\ ~("validators" \in r.rules.outOn /\ r.rules.unknownValidator)
          /\ r.logged

CallsFit == call \in [Calls -> CallRecords] /\ \A c \in Calls : CallFits(call[c])

PolicyFits ==
    /\ policy \in [rules : RuleSets, rego : Regos \cup {NoRego}, version : 1..(MaxVersions + 1)]
    /\ versions \subseteq [version : 2..(MaxVersions + 1), rules : RuleSets]
    /\ opa \in [up : BOOLEAN, loaded : Regos \cup {NoRego}]
    /\ held \subseteq RuleSets
    /\ EveryPolicyKept

GuardsInv == CallsFit /\ PolicyFits

-------------------------------------------------------------------------------
(* The checks. *)

(* A text that the standard checks let through unmarked is hit by none that *)
(* is on, whatever is out of order.                                         *)
LEMMA AllowedIsUnhit ==
    ASSUME NEW rules, NEW text, NEW faults, Standard(rules, text, faults) = "allowed",
           NEW check \in InputChecks
    PROVE  ~Hit(rules, check, text, faults)
<1> DEFINE stops == {i \in DOMAIN InputOrder :
                       \/ Hit(rules, InputOrder[i], text, faults)
                       \/ Forwarded(rules, InputOrder[i], text, faults)}
<1>1. PICK i \in DOMAIN InputOrder : check = InputOrder[i]
  BY DEF InputChecks
<1>2. stops = {}
  BY DEF Standard
<1> QED BY <1>1, <1>2

(* In redact mode no pattern of personal data is left in a prompt.          *)
LEMMA RedactedHasNoPii ==
    ASSUME NEW text, NEW faults PROVE "pii" \notin Redacted(text, faults)
BY DEF Redacted

(* What the standard checks let through unmarked is clean by the policy the *)
(* request has read.                                                        *)
LEMMA AllowedIsClean ==
    ASSUME NEW route \in Routes, NEW text \in Texts, NEW faults \in SUBSET Faults,
           policy.rules \in Rules,
           NEW input, input = Submitted(route, text, faults),
           Standard(Applied(route, policy.rules), input, faults) = "allowed",
           NEW check \in input \ {"ml", "semantic"}, Enabled(policy.rules, check)
    PROVE  check = "pii" /\ check \in policy.rules.soft
<1> DEFINE rules == Applied(route, policy.rules)
<1>1. check \in InputChecks \ {"ml", "semantic"}
  <2>1. input \subseteq InputChecks \cup {"name"}
    BY TextsAssumption DEF Submitted, Redacted
  <2>2. "name" \notin InputChecks /\ "name" # "env"
    BY DEF InputChecks, InputOrder
  <2>3. check # "name"
    BY <2>2 DEF Enabled, Rules
  <2> QED BY <2>1, <2>3
<1>2. ~Hit(rules, check, input, faults)
  BY <1>1, AllowedIsUnhit
<1>3. check \in {"secrets", "env", "pii", "injection", "jailbreak"}
  BY <1>1 DEF InputChecks, InputOrder
<1>4. Found(rules, check, input, faults)
  BY <1>3 DEF Found, SecretFound, EnvProbeFound, PiiFound, InjectionFound, JailbreakFound
<1>5. rules.soft = policy.rules.soft
  BY DEF Applied, Rules
<1>6. CASE check # "pii"
  <2>1. Enabled(rules, check)
    BY <1>6 DEF Applied, Enabled, Rules
  <2> QED BY <1>2, <1>3, <1>4, <1>6, <2>1 DEF Hit, SelfSoftened
<1>7. CASE check = "pii"
  <2>1. ~(route = "chat" /\ policy.rules.redact)
    BY <1>7, RedactedHasNoPii DEF Submitted
  <2>2. Enabled(rules, check)
    BY <2>1 DEF Applied
  <2> QED BY <1>2, <1>4, <1>5, <1>7, <2>2 DEF Hit
<1> QED BY <1>6, <1>7

(* An answer that is delivered unmarked breaks no output rule, and a marked *)
(* one leaks no credential: the check for those comes first and is never    *)
(* softened.                                                                *)
LEMMA InspectedIsClean ==
    ASSUME NEW rules \in Rules, NEW reply \in SUBSET OutputChecks, NEW faults,
           Inspect(rules, reply, faults) \in {"allowed", "warned"}
    PROVE  /\ "secrets" \notin reply
           /\ Inspect(rules, reply, faults) = "allowed" =>
                 /\ reply \cap rules.outOn = {}
                 /\ ~("validators" \in rules.outOn /\ rules.unknownValidator)
<1> DEFINE found == {i \in DOMAIN OutputOrder : OutputHit(rules, OutputOrder[i], reply)}
           first == OutputOrder[CHOOSE i \in found : \A j \in found : i <= j]
<1>1. DOMAIN OutputOrder = 1..7 /\ OutputOrder[1] = "secrets" /\ OutputOrder[7] = "validators"
  BY DEF OutputOrder
<1>2. ~Sampled(rules, faults)
  BY DEF Inspect
<1>3. \/ found = {}
      \/ found # {} /\ Inspect(rules, reply, faults) = "warned" /\ first # "secrets"
  BY <1>2 DEF Inspect
<1>4. "secrets" \notin reply
  <2>1. SUFFICES ASSUME "secrets" \in reply PROVE FALSE
    OBVIOUS
  <2>2. 1 \in found
    BY <1>1, <2>1 DEF OutputHit, SecretLeaked
  <2>3. \A j \in found : 1 <= j
    BY <1>1
  <2>4. (CHOOSE i \in found : \A j \in found : i <= j) = 1
    <3>1. \A i \in found : (\A j \in found : i <= j) => i = 1
      BY <1>1, <2>2, <2>3
    <3> HIDE DEF found
    <3> QED BY <2>2, <2>3, <3>1
  <2> QED BY <1>1, <1>3, <2>2, <2>4
<1>5. ASSUME found = {} PROVE reply \cap rules.outOn = {}
  <2>1. SUFFICES ASSUME NEW check \in reply \cap rules.outOn PROVE FALSE
    OBVIOUS
  <2>2. PICK i \in DOMAIN OutputOrder : check = OutputOrder[i]
    BY <2>1 DEF OutputChecks
  <2>3. OutputHit(rules, check, reply)
    BY <1>4, <2>1 DEF OutputHit, ValidatorFails
  <2> QED BY <1>5, <2>2, <2>3
<1>6. ASSUME found = {} PROVE ~("validators" \in rules.outOn /\ rules.unknownValidator)
  BY <1>1, <1>6 DEF OutputHit, ValidatorFails
<1> HIDE DEF found, first
<1> QED BY <1>3, <1>4, <1>5, <1>6

-------------------------------------------------------------------------------
(* The steps of a request. *)

(* A step that gives one request another record that fits.                  *)
Replaced(c) == \E r : CallFits(r) /\ call' = [call EXCEPT ![c] = r]

LEMMA ReplacedFits == ASSUME CallsFit, NEW c \in Calls, Replaced(c) PROVE CallsFit'
BY DEF CallsFit, Replaced, CallFits

(* The end of the input gate: somebody's rule has decided, or the failure   *)
(* has been judged by the request's own rules.                              *)
LEMMA Concluded ==
    ASSUME CallsFit, NEW c \in Calls, call[c].phase \in {"query", "upload", "requery"},
           NEW verdict \in {"allowed", "warned", "blocked"}, NEW source \in Regos \cup {NoRego},
           \/ source # NoRego
           \/ verdict = "blocked"
           \/ verdict = "warned" /\ call[c].rules.open,
           Conclude(c, verdict, source)
    PROVE  Replaced(c)
<1> DEFINE r == [call[c] EXCEPT !.phase = Settled(verdict), !.verdict = verdict,
                                !.ruledBy = source, !.logged = (verdict = "blocked")]
<1>1. call[c] \in CallRecords /\ call[c].rego # NoRego /\ call[c].checked = "none"
  BY DEF CallsFit, CallFits
<1>2. Settled(verdict) \in {"refused", "provider"} /\ (Settled(verdict) = "provider" => verdict # "blocked")
  BY DEF Settled
<1>3. r \in CallRecords
  BY <1>1, <1>2 DEF CallRecords, Phases
<1>4. /\ r.phase = Settled(verdict) /\ r.verdict = verdict /\ r.ruledBy = source
      /\ r.rego = call[c].rego /\ r.checked = call[c].checked /\ r.rules = call[c].rules
  BY <1>1 DEF CallRecords
<1>5. call' = [call EXCEPT ![c] = r]
  BY DEF Conclude, CallsFit
<1> HIDE DEF r
<1>6. CallFits(r)
  BY <1>1, <1>2, <1>3, <1>4 DEF CallFits
<1> QED BY <1>5, <1>6 DEF Replaced

LEMMA FailureConcluded ==
    ASSUME CallsFit, NEW c \in Calls, call[c].phase \in {"query", "upload", "requery"}, Fails(c)
    PROVE  Replaced(c)
<1>1. /\ OnFailure(call[c].rules) \in {"allowed", "warned", "blocked"}
      /\ \/ OnFailure(call[c].rules) = "blocked"
         \/ OnFailure(call[c].rules) = "warned" /\ call[c].rules.open
  BY DEF OnFailure
<1> QED BY <1>1, Concluded DEF Fails

LEMMA ConsultConcluded ==
    ASSUME CallsFit, PolicyFits, NEW c \in Calls, call[c].phase \in {"query", "requery"},
           opa.loaded # NoRego, Consult(c)
    PROVE  Replaced(c)
<1>1. opa.loaded \in Regos
  BY DEF PolicyFits
<1>2. Decision(opa.loaded, call[c].findings) \in {"allowed", "warned", "blocked"}
  BY DEF Decision
<1> QED BY <1>1, <1>2, Concluded, FailureConcluded DEF Consult

LEMMA IdleTyped == IdleCall \in CallRecords /\ IdleCall.checked = "none"
BY RulesAssumption DEF IdleCall, CallRecords, Phases, Routes

LEMMA ReceiveReplaces ==
    ASSUME GuardsInv, NEW c \in Calls, NEW route \in Routes, NEW text \in Texts,
           NEW faults \in SUBSET Faults, Receive(c, route, text, faults)
    PROVE  Replaced(c)
<1> DEFINE input == Submitted(route, text, faults)
           rules == Applied(route, policy.rules)
           verdict == Standard(rules, input, faults)
           ruled == policy.rego # NoRego
           found == Findings(rules, input, faults)
           phase == IF ruled THEN "query" ELSE Settled(verdict)
           said == IF ruled THEN "none" ELSE verdict
           logged == ~ruled /\ verdict = "blocked"
           r == [IdleCall EXCEPT !.phase = phase, !.route = route, !.text = input, !.rules = policy.rules,
                                 !.rego = policy.rego, !.findings = found, !.verdict = said,
                                 !.logged = logged]
<1>1. call' = [call EXCEPT ![c] = r]
  BY DEF Receive
<1>2. policy.rules \in RuleSets /\ policy.rules \in Rules /\ policy.rego \in Regos \cup {NoRego}
  BY RulesAssumption DEF GuardsInv, PolicyFits
<1>3. input \subseteq InputChecks \cup {"name"}
  BY TextsAssumption DEF Submitted, Redacted
<1>4. found \in SUBSET InputChecks
  BY DEF Findings
<1>5. verdict \in {"allowed", "warned", "blocked"}
  BY DEF Standard
<1>6. Settled(verdict) \in {"refused", "provider"}
  BY DEF Settled
<1>7. verdict = "allowed" =>
         \A check \in input \ {"ml", "semantic"} :
             Enabled(policy.rules, check) => check = "pii" /\ check \in policy.rules.soft
  BY <1>2, AllowedIsClean
<1> HIDE DEF input, rules, verdict, found
<1>8. phase \in Phases /\ said \in {"none", "allowed", "warned", "blocked"} /\ logged \in BOOLEAN
  BY <1>5, <1>6 DEF Phases
<1>9. /\ r \in CallRecords
      /\ r.phase = phase /\ r.text = input /\ r.rules = policy.rules /\ r.rego = policy.rego
      /\ r.verdict = said /\ r.checked = "none"
  <2> HIDE DEF phase, said, logged
  <2>1. r = [IdleCall EXCEPT !.phase = phase, !.route = route, !.text = input, !.rules = policy.rules,
                             !.rego = policy.rego, !.findings = found, !.verdict = said,
                             !.logged = logged]
    OBVIOUS
  <2> HIDE DEF r
  <2>2. input \in SUBSET (InputChecks \cup {"name"})
    BY <1>3
  <2> HIDE DEF Phases, Routes, InputChecks
  <2> QED BY <1>2, <1>4, <1>8, <2>1, <2>2, IdleTyped DEF CallRecords
<1> HIDE DEF r
<1>10. CallFits(r)
  BY <1>6, <1>7, <1>9 DEF CallFits
<1> QED BY <1>1, <1>10 DEF Replaced

LEMMA AnswerReplaces ==
    ASSUME CallsFit, NEW c \in Calls, NEW reply \in Replies, NEW faults,
           AnswerCall(c, reply, faults)
    PROVE  Replaced(c)
<1> DEFINE checked == Inspect(call[c].rules, reply, faults)
           r == [call[c] EXCEPT !.phase = IF checked = "blocked" THEN "withheld" ELSE "delivered",
                                !.reply = reply, !.checked = checked, !.logged = TRUE]
<1>1. call' = [call EXCEPT ![c] = r] /\ call[c].phase = "provider"
  BY DEF AnswerCall, CallsFit
<1>2. CallFits(call[c]) /\ call[c] \in CallRecords /\ call[c].rules \in Rules /\ reply \in SUBSET OutputChecks
  BY RulesAssumption, RepliesAssumption DEF CallsFit, CallFits, CallRecords
<1>3. checked \in {"sampled", "allowed", "warned", "blocked"}
  BY DEF Inspect
<1>4. checked \in {"allowed", "warned"} =>
         /\ "secrets" \notin reply
         /\ checked = "allowed" => /\ reply \cap call[c].rules.outOn = {}
                                  /\ ~("validators" \in call[c].rules.outOn /\ call[c].rules.unknownValidator)
  BY <1>2, InspectedIsClean
<1> HIDE DEF checked
<1>5. r \in CallRecords
  BY <1>2, <1>3 DEF CallRecords, Phases
<1>6. /\ r.phase \in {"withheld", "delivered"} /\ r.reply = reply /\ r.checked = checked /\ r.logged
      /\ r.rego = call[c].rego /\ r.ruledBy = call[c].ruledBy /\ r.rules = call[c].rules
      /\ r.verdict = call[c].verdict
  BY <1>2 DEF CallRecords
<1> HIDE DEF r
<1>7. CallFits(r)
  BY <1>1, <1>2, <1>4, <1>5, <1>6 DEF CallFits
<1> QED BY <1>1, <1>7 DEF Replaced

LEMMA ServeReplaces == ASSUME GuardsInv, NEW c \in Calls, Serve(c) PROVE Replaced(c)
<1> USE DEF GuardsInv
<1>1. call[c] \in CallRecords /\ CallFits(call[c]) /\ call \in [Calls -> CallRecords]
  BY DEF CallsFit
<1>2. CASE \E route \in Routes, text \in Texts, faults \in SUBSET Faults : Receive(c, route, text, faults)
  BY <1>2, ReceiveReplaces
<1>3. CASE Query(c)
  <2>1. CASE opa.up /\ opa.loaded = NoRego /\ call' = [call EXCEPT ![c].phase = "upload"]
    <3> DEFINE r == [call[c] EXCEPT !.phase = "upload"]
    <3>1. call' = [call EXCEPT ![c] = r]
      BY <2>1
    <3>2. r \in CallRecords /\ r.phase = "upload" /\ r.rego = call[c].rego /\ r.checked = call[c].checked
      BY <1>1 DEF CallRecords, Phases
    <3> HIDE DEF r
    <3>3. CallFits(r)
      BY <1>1, <1>3, <3>2 DEF Query, CallFits
    <3> QED BY <3>1, <3>3 DEF Replaced
  <2>2. CASE Fails(c)
    BY <1>3, <2>2, FailureConcluded DEF Query
  <2>3. CASE opa.loaded # NoRego /\ Consult(c)
    BY <1>3, <2>3, ConsultConcluded DEF Query
  <2> QED BY <1>3, <2>1, <2>2, <2>3 DEF Query
<1>4. CASE Upload(c)
  <2>1. CASE call' = [call EXCEPT ![c].phase = "requery"]
    <3> DEFINE r == [call[c] EXCEPT !.phase = "requery"]
    <3>1. call' = [call EXCEPT ![c] = r]
      BY <2>1
    <3>2. r \in CallRecords /\ r.phase = "requery" /\ r.rego = call[c].rego /\ r.checked = call[c].checked
      BY <1>1 DEF CallRecords, Phases
    <3> HIDE DEF r
    <3>3. CallFits(r)
      BY <1>1, <1>4, <3>2 DEF Upload, CallFits
    <3> QED BY <3>1, <3>3 DEF Replaced
  <2>2. CASE Fails(c)
    BY <1>4, <2>2, FailureConcluded DEF Upload
  <2> QED BY <1>4, <2>1, <2>2 DEF Upload
<1>5. CASE Requery(c)
  BY <1>5, FailureConcluded, ConsultConcluded DEF Requery
<1>6. CASE \E reply \in Replies, faults \in SUBSET {"sampled"} : AnswerCall(c, reply, faults)
  BY <1>6, AnswerReplaces
<1>7. CASE \E reply \in Replies : StreamAnswer(c, reply)
  <2>1. PICK reply \in Replies : StreamAnswer(c, reply)
    BY <1>7
  <2> DEFINE r == [call[c] EXCEPT !.phase = "delivered", !.reply = reply]
  <2>2. call' = [call EXCEPT ![c] = r] /\ call[c].phase = "provider"
    BY <2>1 DEF StreamAnswer
  <2>3. r \in CallRecords
    BY <1>1, RepliesAssumption DEF CallRecords, Phases
  <2>4. /\ r.phase = "delivered" /\ r.rego = call[c].rego /\ r.checked = call[c].checked
        /\ r.ruledBy = call[c].ruledBy /\ r.rules = call[c].rules /\ r.verdict = call[c].verdict
    BY <1>1 DEF CallRecords
  <2> HIDE DEF r
  <2>5. CallFits(r)
    BY <1>1, <2>2, <2>3, <2>4 DEF CallFits
  <2> QED BY <2>2, <2>5 DEF Replaced
<1>8. CASE ProviderFails(c)
  <2> DEFINE r == [call[c] EXCEPT !.phase = "refused", !.logged = (call[c].route = "openai")]
  <2>1. call' = [call EXCEPT ![c] = r] /\ call[c].phase = "provider"
    BY <1>8 DEF ProviderFails
  <2>2. r \in CallRecords /\ r.phase = "refused" /\ r.checked = call[c].checked
    BY <1>1 DEF CallRecords, Phases
  <2> HIDE DEF r
  <2>3. CallFits(r)
    BY <1>1, <2>1, <2>2 DEF CallFits
  <2> QED BY <2>1, <2>3 DEF Replaced
<1> QED BY <1>2, <1>3, <1>4, <1>5, <1>6, <1>7, <1>8 DEF Serve

(* Serving requests touches the policy in nothing but what the sidecar      *)
(* holds of it.                                                             *)
LEMMA ServeKeepsPolicy ==
    ASSUME GuardsInv, NEW c \in Calls, Serve(c) PROVE PolicyFits'
<1>1. call[c].rego \in Regos \cup {NoRego}
  BY DEF GuardsInv, CallsFit, CallRecords
<1>2. UNCHANGED <<policy, versions, held>> /\ opa' \in [up : BOOLEAN, loaded : Regos \cup {NoRego}]
  BY <1>1 DEF GuardsInv, PolicyFits, Serve, Receive, Query, Upload, Requery, AnswerCall, StreamAnswer, ProviderFails
<1> QED BY <1>2 DEF GuardsInv, PolicyFits, EveryPolicyKept

-------------------------------------------------------------------------------
(* The steps of administrators. *)

LEMMA BecomeKeepsPolicy ==
    ASSUME PolicyFits, NEW rules \in RuleSets, NEW rego \in Regos \cup {NoRego}, Become(rules, rego)
    PROVE  PolicyFits' /\ UNCHANGED call
<1>1. /\ policy.rules \in RuleSets /\ policy.version \in 1..(MaxVersions + 1)
      /\ policy.version <= MaxVersions
  BY DEF PolicyFits, Become
<1>2. policy.version + 1 \in 2..(MaxVersions + 1)
  BY <1>1, VersionsAssumption
<1> DEFINE stored == [version |-> policy.version + 1, rules |-> policy.rules]
<1>3. versions' = versions \cup {stored}
  BY DEF Become, Snapshot
<1>4. versions' \subseteq [version : 2..(MaxVersions + 1), rules : RuleSets]
  BY <1>1, <1>2, <1>3 DEF PolicyFits
<1>5. policy' \in [rules : RuleSets, rego : Regos \cup {NoRego}, version : 1..(MaxVersions + 1)]
  BY <1>2, VersionsAssumption DEF Become
<1>6. policy'.rules = rules /\ held' = held \cup {rules}
  BY DEF Become
<1>7. policy.rules \in {v.rules : v \in versions'} /\ {v.rules : v \in versions} \subseteq {v.rules : v \in versions'}
  <2>1. stored.rules = policy.rules /\ stored \in versions'
    BY <1>3
  <2> QED BY <1>3, <2>1
<1>8. EveryPolicyKept'
  BY <1>6, <1>7 DEF EveryPolicyKept, PolicyFits
<1> QED BY <1>4, <1>5, <1>6, <1>8 DEF PolicyFits, Become

LEMMA AdministerKeepsPolicy == ASSUME PolicyFits, Administer PROVE PolicyFits' /\ UNCHANGED call
<1>1. CASE \E rules \in RuleSets, rego \in Regos \cup {NoRego} : UpdatePolicy(rules, rego)
  BY <1>1, BecomeKeepsPolicy DEF UpdatePolicy
<1>2. CASE ResetPolicy
  BY <1>2, BecomeKeepsPolicy, RulesAssumption DEF ResetPolicy
<1>3. CASE \E v \in versions : RollbackPolicy(v)
  <2>1. PICK v \in versions : Become(v.rules, policy.rego)
    BY <1>3 DEF RollbackPolicy
  <2>2. v.rules \in RuleSets /\ policy.rego \in Regos \cup {NoRego}
    BY DEF PolicyFits
  <2> QED BY <2>1, <2>2, BecomeKeepsPolicy
<1> QED BY <1>1, <1>2, <1>3 DEF Administer

-------------------------------------------------------------------------------
LEMMA InitGuards == GuardsInit => GuardsInv
<1> SUFFICES ASSUME GuardsInit PROVE GuardsInv
  OBVIOUS
<1>1. CallFits(IdleCall)
  BY IdleTyped DEF CallFits, IdleCall
<1>2. CallsFit
  BY <1>1, IdleTyped DEF GuardsInit, CallsFit
<1>3. PolicyFits
  BY RulesAssumption, VersionsAssumption DEF GuardsInit, PolicyFits, EveryPolicyKept
<1> QED BY <1>2, <1>3 DEF GuardsInv

LEMMA NextGuards == GuardsInv /\ [GuardsNext]_guardVars => GuardsInv'
<1> SUFFICES ASSUME GuardsInv, [GuardsNext]_guardVars PROVE GuardsInv'
  OBVIOUS
<1>1. CASE \E c \in Calls : Serve(c)
  BY <1>1, ServeReplaces, ServeKeepsPolicy, ReplacedFits DEF GuardsInv
<1>2. CASE Administer
  BY <1>2, AdministerKeepsPolicy DEF GuardsInv, CallsFit
<1>3. CASE OpaStops \/ OpaStarts
  <2>1. opa' \in [up : BOOLEAN, loaded : Regos \cup {NoRego}]
    <3>1. opa \in [up : BOOLEAN, loaded : Regos \cup {NoRego}]
      BY DEF GuardsInv, PolicyFits
    <3>2. CASE OpaStops
      BY <3>2 DEF OpaStops
    <3>3. CASE OpaStarts
      BY <3>1, <3>3 DEF OpaStarts
    <3> QED BY <1>3, <3>2, <3>3
  <2> QED BY <1>3, <2>1 DEF GuardsInv, CallsFit, PolicyFits, EveryPolicyKept, OpaStops, OpaStarts
<1>4. CASE UNCHANGED guardVars
  BY <1>4 DEF GuardsInv, CallsFit, PolicyFits, EveryPolicyKept, guardVars
<1> QED BY <1>1, <1>2, <1>3, <1>4 DEF GuardsNext

LEMMA GuardsInvHolds == GuardsSpec => []GuardsInv
BY InitGuards, NextGuards, PTL DEF GuardsSpec

(* Every variable of the guards has its type.                               *)
THEOREM GuardsTypesCorrect == GuardsSpec => []GuardsTypeOK
<1>1. GuardsInv => GuardsTypeOK
  BY DEF GuardsInv, CallsFit, PolicyFits, GuardsTypeOK
<1> QED BY <1>1, GuardsInvHolds, PTL

(* "A broken rule must never silently skip": with a custom rule a request   *)
(* reaches the provider only by a rule's decision or by the explicit choice *)
(* to fail open, whatever the sidecar loses and whoever replaces the rule   *)
(* between the queries.                                                     *)
THEOREM BrokenRulesNeverSkip == GuardsSpec => []BrokenRuleNeverSkips
<1>1. GuardsInv => BrokenRuleNeverSkips
  BY DEF GuardsInv, CallsFit, CallFits, BrokenRuleNeverSkips
<1> QED BY <1>1, GuardsInvHolds, PTL

(* What passes unmarked, in or out, is clean by the policy that was read,   *)
(* whatever engine is out of order and whatever the policy says.            *)
THEOREM CleanBothWays == GuardsSpec => []BothWaysClean
<1>1. GuardsInv => BothWaysClean
  BY DEF GuardsInv, CallsFit, CallFits, BothWaysClean, UnmarkedIsClean, DeliveredIsClean
<1> QED BY <1>1, GuardsInvHolds, PTL

(* "Versioned store: snapshot before mutating": any set of rules the        *)
(* workspace ever had can be had again, after any updates, resets and       *)
(* rollbacks.                                                               *)
THEOREM PoliciesKept == GuardsSpec => []EveryPolicyKept
<1>1. GuardsInv => EveryPolicyKept
  BY DEF GuardsInv, PolicyFits
<1> QED BY <1>1, GuardsInvHolds, PTL

-------------------------------------------------------------------------------
(* What the properties need to be inductive.                                *)

Queued(r) == {r.queue[i] : i \in DOMAIN r.queue}

(* A stream nobody has opened yet is not listed and holds nothing; what a   *)
(* queue holds is over and was meant for it; and a message keeps to the     *)
(* stream it was let in to, which keeps to the one who opened it.           *)
Homes ==
    /\ \A s \in Streams :
          /\ stream[s].reader = "unused" => ~stream[s].listed /\ Queued(stream[s]) = {}
          /\ \A p \in Queued(stream[s]) : p \in Posts /\ post[p].phase = "over" /\ post[p].to = s
    /\ \A p \in Posts : post[p].to # NoStream =>
          /\ stream[post[p].to].reader # "unused"
          /\ post[p].from = stream[post[p].to].for

(* The reads of a chat's lookup, and what is known to be there when the     *)
(* chat has got to one of them, or begins.                                  *)
Reading == {"row", "owner", "member", "bans", "again"}

Seen(phase) == CASE phase = "row"    -> {}
                 [] phase = "owner"  -> {"row", "workspace"}
                 [] phase = "member" -> {"row", "workspace", "owner"}
                 [] OTHER            -> Facts \cup {"workspace"}

FiledRight(rows, status) ==
    Last(rows) \in {status, "lost"} \/ (status = "invalid" /\ Last(rows) = "ok")

(* What the log holds of a message that has got so far, and what let it get *)
(* there.                                                                   *)
PostFits(q, rows) ==
    /\ q \in PostStates /\ rows \in Seq(McpRowStatuses)
    /\ q.phase \in {"idle", "body", "chat"} \cup Reading => rows = <<>>
    /\ q.phase \in {"idle", "body"} => q.missing = {}
    /\ q.phase \in {"chat"} \cup Reading =>
          /\ q.tool = "chat" /\ "chat" \in McpTools
          /\ "chat" \in Scopes[q.from.key] /\ "chat" \notin Poisoned
          /\ q.missing \cap Seen(q.phase) = {}
    /\ q.phase = "audit" =>
          /\ q.tool \in McpTools /\ q.status # "none"
          /\ rows = <<>> \/ (Len(rows) = 1 /\ q.tool = "chat" /\ q.status = "error")
    /\ q.phase \in {"put", "over"} /\ q.tool \in McpTools /\ q.status # "none" =>
          /\ rows # <<>>
          /\ FiledRight(rows, q.status)
          /\ Len(rows) > 1 => q.tool = "chat" /\ q.status = "error"

PostsFit == \A p \in Posts : PostFits(post[p], mcpRows[p])

(* What a message is said to lack its key lacks now; and a key once without *)
(* a workspace stays without.                                               *)
Tracks(q, now) ==
    /\ \A fact \in Facts : fact \in q.missing => fact \notin now.fit
    /\ "member" \in q.missing => q.from.bound
    /\ "workspace" \in q.missing => q.from.bound /\ ~now.bound
    /\ q.from.bound \/ ~now.bound

Tracked == \A p \in Posts : Tracks(post[p], mcpKey[post[p].from.key])

McpInv == McpTypeOK /\ Homes /\ PostsFit /\ Tracked

-------------------------------------------------------------------------------
(* Numbers and sequences. *)

LEMMA MinOfTwo == ASSUME NEW a \in Int, NEW b \in Int
                  PROVE  Min({a, b}) = IF a <= b THEN a ELSE b
<1> DEFINE m == IF a <= b THEN a ELSE b
<1>1. m \in {a, b} /\ \A y \in {a, b} : m <= y
  OBVIOUS
<1>2. \A x \in {a, b} : (\A y \in {a, b} : x <= y) => x = m
  OBVIOUS
<1> HIDE DEF m
<1>3. (CHOOSE x \in {a, b} : \A y \in {a, b} : x <= y) = m
  BY <1>1, <1>2
<1> QED BY <1>3 DEF Min, m

LEMMA MaxOfTwo == ASSUME NEW a \in Int, NEW b \in Int
                  PROVE  Max({a, b}) = IF a >= b THEN a ELSE b
<1> DEFINE m == IF a >= b THEN a ELSE b
<1>1. m \in {a, b} /\ \A y \in {a, b} : m >= y
  OBVIOUS
<1>2. \A x \in {a, b} : (\A y \in {a, b} : x >= y) => x = m
  OBVIOUS
<1> HIDE DEF m
<1>3. (CHOOSE x \in {a, b} : \A y \in {a, b} : x >= y) = m
  BY <1>1, <1>2
<1> QED BY <1>3 DEF Max, m

LEMMA NoStreamIsNone == NoStream \notin Streams
BY OrderAssumption, FS_CardinalityType DEF NoStream

LEMMA NobodyTyped == Nobody \in Identities
BY ScopesAssumption DEF Nobody, Identities

LEMMA UnusedTyped == UnusedStream \in StreamStates /\ NoPost \in PostStates
<1>1. 0 \in 0..StreamTimeout
  BY StreamLimitsAssumption
<1>2. UnusedStream \in StreamStates
  BY <1>1, NobodyTyped DEF UnusedStream, StreamStates
<1>3. NoPost \in PostStates
  BY NobodyTyped DEF NoPost, PostStates
<1> QED BY <1>2, <1>3

LEMMA IdentityTyped == ASSUME McpTypeOK, NEW k \in McpKeys PROVE Identity(k) \in Identities
BY DEF McpTypeOK, McpKeyRows, Identity, Identities

-------------------------------------------------------------------------------
(* Streams. *)

(* What any step may do to a stream: open it once, empty its queue, or, if  *)
(* new names a message, add that.                                           *)
Kept(r, q, new) ==
    /\ r.reader # "unused" => q.reader # "unused" /\ q.for = r.for
    /\ q.reader = "unused" => r.reader = "unused" /\ ~q.listed
    /\ Queued(q) \subseteq Queued(r) \cup new

LEMMA StreamsKeptHome ==
    ASSUME McpInv, \A s \in Streams : Kept(stream[s], stream'[s], {}), UNCHANGED post
    PROVE  Homes'
<1> USE DEF McpInv
<1>1. ASSUME NEW s \in Streams
      PROVE  /\ stream'[s].reader = "unused" => ~stream'[s].listed /\ Queued(stream'[s]) = {}
             /\ \A d \in Queued(stream'[s]) : d \in Posts /\ post'[d].phase = "over" /\ post'[d].to = s
  BY DEF Homes, Kept
<1>2. \A d \in Posts : post[d].to # NoStream => post[d].to \in Streams
  BY DEF McpTypeOK, PostStates
<1>3. ASSUME NEW d \in Posts, post'[d].to # NoStream
      PROVE  /\ stream'[post'[d].to].reader # "unused"
             /\ post'[d].from = stream'[post'[d].to].for
  BY <1>2, <1>3 DEF Homes, Kept
<1> QED BY <1>1, <1>3 DEF Homes

(* A message goes on, may join the queue of its stream when it is over, and *)
(* keeps to its stream and identity, or gets those of a stream in use.      *)
Joins(p, q) ==
    \A s \in Streams : \/ Kept(stream[s], stream'[s], {})
                       \/ Kept(stream[s], stream'[s], {p}) /\ q.phase = "over" /\ q.to = s

Belongs(p, q) ==
    \/ q.to = NoStream
    \/ q.to = post[p].to /\ q.from = post[p].from
    \/ stream[q.to].reader # "unused" /\ q.from = stream[q.to].for

LEMMA PostKeptHome ==
    ASSUME McpInv, NEW p \in Posts, NEW q \in PostStates, post' = [post EXCEPT ![p] = q],
           post[p].phase # "over", Joins(p, q), Belongs(p, q)
    PROVE  Homes'
<1> USE DEF McpInv, Joins, Belongs
<1>1. post \in [Posts -> PostStates] /\ \A d \in Posts \ {p} : post'[d] = post[d]
  BY DEF McpTypeOK
<1>2. post'[p] = q
  BY <1>1
<1>3. ASSUME NEW s \in Streams
      PROVE  /\ stream'[s].reader = "unused" => ~stream'[s].listed /\ Queued(stream'[s]) = {}
             /\ \A d \in Queued(stream'[s]) : d \in Posts /\ post'[d].phase = "over" /\ post'[d].to = s
  <2>1. \A d \in Queued(stream[s]) : d \in Posts \ {p} /\ post'[d].phase = "over" /\ post'[d].to = s
    BY <1>1 DEF Homes
  <2>2. CASE Kept(stream[s], stream'[s], {})
    BY <2>1, <2>2 DEF Homes, Kept
  <2>3. CASE Kept(stream[s], stream'[s], {p}) /\ q.phase = "over" /\ q.to = s
    <3>1. stream[s].reader # "unused"
      BY <1>1, <2>3, NoStreamIsNone DEF Homes
    <3> QED BY <1>2, <2>1, <2>3, <3>1 DEF Kept
  <2> QED BY <2>2, <2>3
<1>4. ASSUME NEW d \in Posts, post'[d].to # NoStream
      PROVE  /\ stream'[post'[d].to].reader # "unused"
             /\ post'[d].from = stream'[post'[d].to].for
  <2>1. post'[d] \in PostStates
    BY <1>1, <1>2
  <2>2. post'[d].to \in Streams
    BY <1>4, <2>1 DEF PostStates
  <2>3. stream[post'[d].to].reader # "unused" /\ post'[d].from = stream[post'[d].to].for
    BY <1>1, <1>2, <1>4 DEF Homes
  <2> QED BY <2>2, <2>3 DEF Kept
<1> QED BY <1>3, <1>4 DEF Homes

LEMMA PurgedTyped ==
    ASSUME McpTypeOK
    PROVE  /\ Purged \in [Streams -> StreamStates]
           /\ \A s \in Streams : /\ Purged[s].reader = stream[s].reader /\ Purged[s].for = stream[s].for
                                 /\ Purged[s].queue = stream[s].queue
                                 /\ Purged[s].listed => stream[s].listed
BY DEF McpTypeOK, Purged, StreamStates

LEMMA PurgeKeeps ==
    ASSUME McpInv, stream' = Purged PROVE \A s \in Streams : Kept(stream[s], stream'[s], {})
BY PurgedTyped DEF McpInv, Homes, Kept, Queued

LEMMA TailQueued ==
    ASSUME NEW q \in Seq(Posts), q # <<>>
    PROVE  {Tail(q)[i] : i \in DOMAIN Tail(q)} \subseteq {q[i] : i \in DOMAIN q}
<1>1. \A i \in DOMAIN Tail(q) : i + 1 \in DOMAIN q /\ Tail(q)[i] = q[i + 1]
  OBVIOUS
<1> QED BY <1>1

LEMMA AppendQueued ==
    ASSUME NEW q \in Seq(Posts), NEW p \in Posts
    PROVE  {Append(q, p)[i] : i \in DOMAIN Append(q, p)} \subseteq {q[i] : i \in DOMAIN q} \cup {p}
<1>1. \A i \in DOMAIN Append(q, p) : (i \in DOMAIN q /\ Append(q, p)[i] = q[i]) \/ Append(q, p)[i] = p
  OBVIOUS
<1> QED BY <1>1

(* A step of a stream alone. *)
StreamMove ==
    /\ stream' \in [Streams -> StreamStates]
    /\ \A s \in Streams : Kept(stream[s], stream'[s], {})
    /\ UNCHANGED <<post, mcpRows>>

LEMMA OneStreamMoves ==
    ASSUME McpInv, NEW s \in Streams, NEW r \in StreamStates, stream' = [stream EXCEPT ![s] = r],
           r.reader # "unused", stream[s].reader # "unused", r.for = stream[s].for,
           {r.queue[i] : i \in DOMAIN r.queue} \subseteq Queued(stream[s]), UNCHANGED <<post, mcpRows>>
    PROVE  StreamMove
<1>1. stream \in [Streams -> StreamStates]
  BY DEF McpInv, McpTypeOK
<1>2. stream' \in [Streams -> StreamStates] /\ stream'[s] = r /\ \A u \in Streams \ {s} : stream'[u] = stream[u]
  BY <1>1
<1>3. ASSUME NEW u \in Streams PROVE Kept(stream[u], stream'[u], {})
  BY <1>2 DEF Kept, Queued, McpInv, Homes
<1> QED BY <1>2, <1>3 DEF StreamMove

LEMMA ClosedTyped ==
    ASSUME NEW r \in StreamStates
    PROVE  Closed(r) \in StreamStates /\ Closed(r).reader = "over" /\ Closed(r).for = r.for
           /\ Closed(r).queue = r.queue
<1>1. 0 \in 0..StreamTimeout
  BY StreamLimitsAssumption
<1> QED BY <1>1 DEF Closed, StreamStates

LEMMA ServeStreamMoves ==
    ASSUME McpInv, NEW s \in Streams, ServeStream(s) PROVE StreamMove
<1> DEFINE r == stream[s]
<1>1. r \in StreamStates /\ r.queue \in Seq(Posts)
  BY DEF McpInv, McpTypeOK, StreamStates
<1>2. {r.queue[i] : i \in DOMAIN r.queue} = Queued(stream[s])
  BY DEF Queued
<1>3. CASE SendEndpoint(s)
  <2> DEFINE q == [r EXCEPT !.reader = "sending"]
  <2>1. q \in StreamStates /\ q.reader = "sending" /\ q.for = r.for /\ q.queue = r.queue
    BY <1>1 DEF StreamStates
  <2>2. stream' = [stream EXCEPT ![s] = q] /\ r.reader # "unused" /\ UNCHANGED <<post, mcpRows>>
    BY <1>3 DEF SendEndpoint
  <2> HIDE DEF q
  <2> QED BY <1>2, <2>1, <2>2, OneStreamMoves
<1>4. CASE AwaitAnswer(s)
  <2> DEFINE waiting == [r EXCEPT !.reader = "waiting", !.left = StreamTimeout - r.idle]
             q == IF Expired(s) THEN Closed(r) ELSE waiting
  <2>1. StreamTimeout - r.idle \in 0..StreamTimeout
    BY <1>1, StreamLimitsAssumption DEF StreamStates
  <2>2. waiting \in StreamStates /\ waiting.reader = "waiting" /\ waiting.for = r.for
        /\ waiting.queue = r.queue
    BY <1>1, <2>1 DEF StreamStates
  <2>3. stream' = [stream EXCEPT ![s] = q] /\ r.reader # "unused" /\ UNCHANGED <<post, mcpRows>>
    BY <1>4 DEF AwaitAnswer
  <2> HIDE DEF waiting
  <2>4. q \in StreamStates /\ q.reader # "unused" /\ q.for = r.for /\ q.queue = r.queue
    BY <1>1, <2>2, ClosedTyped
  <2> HIDE DEF q
  <2> QED BY <1>2, <2>3, <2>4, OneStreamMoves
<1>5. CASE Deliver(s)
  <2> DEFINE q == [r EXCEPT !.reader = "sending", !.queue = Tail(r.queue), !.left = 0]
  <2>1. Tail(r.queue) \in Seq(Posts)
    BY <1>1, <1>5 DEF Deliver
  <2>2. 0 \in 0..StreamTimeout
    BY StreamLimitsAssumption
  <2>3. q \in StreamStates /\ q.reader = "sending" /\ q.for = r.for /\ q.queue = Tail(r.queue)
    BY <1>1, <2>1, <2>2 DEF StreamStates
  <2>4. stream' = [stream EXCEPT ![s] = q] /\ r.reader # "unused" /\ r.queue # <<>>
        /\ UNCHANGED <<post, mcpRows>>
    BY <1>5 DEF Deliver
  <2> HIDE DEF q
  <2>5. {q.queue[i] : i \in DOMAIN q.queue} \subseteq Queued(stream[s])
    BY <1>1, <1>2, <2>3, <2>4, TailQueued
  <2> QED BY <2>3, <2>4, <2>5, OneStreamMoves
<1>6. CASE TimeOut(s)
  <2> DEFINE q == Closed(r)
  <2>1. stream' = [stream EXCEPT ![s] = q] /\ r.reader # "unused" /\ UNCHANGED <<post, mcpRows>>
    BY <1>6 DEF TimeOut
  <2>2. q \in StreamStates /\ q.reader = "over" /\ q.for = r.for /\ q.queue = r.queue
    BY <1>1, ClosedTyped
  <2> HIDE DEF q
  <2> QED BY <1>2, <2>1, <2>2, OneStreamMoves
<1>7. CASE Leave(s)
  <2> DEFINE q == IF r.reader = "starting" THEN [r EXCEPT !.reader = "over"] ELSE Closed(r)
  <2>1. q \in StreamStates /\ q.reader = "over" /\ q.for = r.for /\ q.queue = r.queue
    <3>1. CASE r.reader = "starting"
      BY <1>1, <3>1 DEF StreamStates
    <3>2. CASE r.reader # "starting"
      BY <1>1, <3>2, ClosedTyped
    <3> QED BY <3>1, <3>2
  <2>2. stream' = [stream EXCEPT ![s] = q] /\ r.reader # "unused" /\ UNCHANGED <<post, mcpRows>>
    BY <1>7 DEF Leave
  <2> HIDE DEF q
  <2> QED BY <1>2, <2>1, <2>2, OneStreamMoves
<1> QED BY <1>3, <1>4, <1>5, <1>6, <1>7 DEF ServeStream

LEMMA OpenStreamMoves ==
    ASSUME McpInv, NEW k \in McpKeys, NEW s \in Streams, OpenStream(k, s) PROVE StreamMove
<1>1. /\ Purged \in [Streams -> StreamStates]
      /\ stream[s].reader = "unused"
      /\ UNCHANGED <<post, mcpRows>>
  BY PurgedTyped DEF McpInv, OpenStream
<1>2. CASE stream' = Purged
  BY <1>1, <1>2, PurgeKeeps DEF StreamMove
<1>3. CASE stream' # Purged
  <2> DEFINE q == [UnusedStream EXCEPT !.reader = "starting", !.listed = TRUE, !.for = Identity(k)]
  <2>1. q \in StreamStates /\ q.reader = "starting" /\ q.queue = <<>>
    BY IdentityTyped, UnusedTyped DEF McpInv, StreamStates, UnusedStream
  <2>2. stream' = [Purged EXCEPT ![s] = q]
    BY <1>3 DEF OpenStream
  <2> HIDE DEF q
  <2>3. stream' \in [Streams -> StreamStates] /\ stream'[s] = q
        /\ \A u \in Streams \ {s} : stream'[u] = Purged[u]
    BY <1>1, <2>1, <2>2
  <2>4. Kept(stream[s], stream'[s], {})
    BY <1>1, <2>1, <2>3 DEF Kept, Queued
  <2>5. ASSUME NEW u \in Streams \ {s} PROVE Kept(stream[u], stream'[u], {})
    BY <2>3, <2>5, PurgedTyped DEF McpInv, Homes, Kept, Queued
  <2> QED BY <1>1, <2>3, <2>4, <2>5 DEF StreamMove
<1> QED BY <1>2, <1>3

LEMMA TickMoves ==
    ASSUME McpInv, McpTick PROVE StreamMove /\ allowance' \in [McpKeys -> Allowances]
<1>1. StreamTimeout \in Nat /\ \A w \in {"rpm", "rpd"} : McpWindow[w] \in Nat /\ McpLimit[w] \in Nat
  BY StreamLimitsAssumption, McpWindowAssumption DEF McpLimit
<1>2. stream \in [Streams -> StreamStates] /\ allowance \in [McpKeys -> Allowances]
  BY DEF McpInv, McpTypeOK
<1>3. ASSUME NEW s \in Streams
      PROVE  /\ stream'[s] \in StreamStates /\ stream'[s].reader = stream[s].reader
             /\ stream'[s].for = stream[s].for /\ stream'[s].queue = stream[s].queue
             /\ stream'[s].listed = stream[s].listed
  <2> DEFINE r == stream[s]
             idle == Min({r.idle + 1, StreamTimeout})
             left == Max({r.left - 1, 0})
  <2>1. r \in StreamStates /\ r.idle \in 0..StreamTimeout /\ r.left \in 0..StreamTimeout
    BY <1>2 DEF StreamStates
  <2>2. idle \in 0..StreamTimeout /\ left \in 0..StreamTimeout
    <3>1. idle = IF r.idle + 1 <= StreamTimeout THEN r.idle + 1 ELSE StreamTimeout
      BY <1>1, <2>1, MinOfTwo
    <3>2. left = IF r.left - 1 >= 0 THEN r.left - 1 ELSE 0
      BY <1>1, <2>1, MaxOfTwo
    <3> HIDE DEF idle, left
    <3> QED BY <1>1, <2>1, <3>1, <3>2
  <2>3. stream'[s] = r \/ stream'[s] = [r EXCEPT !.idle = idle, !.left = left]
    BY DEF McpTick
  <2> HIDE DEF idle, left
  <2> QED BY <2>1, <2>2, <2>3 DEF StreamStates
<1>4. stream' \in [Streams -> StreamStates]
  <2>1. stream' = [s \in Streams |-> stream'[s]]
    BY DEF McpTick
  <2> QED BY <1>3, <2>1
<1>5. \A s \in Streams : Kept(stream[s], stream'[s], {})
  BY <1>3 DEF McpInv, Homes, Kept, Queued
<1>6. ASSUME NEW k \in McpKeys PROVE allowance'[k] \in Allowances
  <2>1. allowance[k] \in Allowances
    BY <1>2
  <2>2. ASSUME NEW w \in {"rpm", "rpd"}
        PROVE  [allowance[k][w] EXCEPT !.reset = Max({@ - 1, 0})] \in [left : -1..McpLimit[w], reset : 0..McpWindow[w]]
    <3> DEFINE now == allowance[k][w]
    <3>1. now \in [left : Int, reset : Nat] /\ now.left \in -1..McpLimit[w] /\ now.reset \in 0..McpWindow[w]
      BY <2>1 DEF Allowances
    <3>2. Max({now.reset - 1, 0}) = IF now.reset - 1 >= 0 THEN now.reset - 1 ELSE 0
      BY <3>1, MaxOfTwo
    <3>3. Max({now.reset - 1, 0}) \in 0..McpWindow[w]
      BY <1>1, <3>1, <3>2
    <3> QED BY <3>1, <3>3
  <2>3. allowance'[k] = [w \in {"rpm", "rpd"} |-> [allowance[k][w] EXCEPT !.reset = Max({@ - 1, 0})]]
    BY DEF McpTick
  <2> QED BY <1>1, <2>2, <2>3 DEF Allowances
<1>7. allowance' \in [McpKeys -> Allowances]
  <2>1. allowance' = [k \in McpKeys |-> allowance'[k]]
    BY DEF McpTick
  <2> QED BY <1>6, <2>1
<1> QED BY <1>4, <1>5, <1>7 DEF StreamMove, McpTick

-------------------------------------------------------------------------------
(* Messages. *)

(* What a message lacks is what it lacked, or has just been looked up.      *)
Carries(p, q) ==
    \/ q.missing = post[p].missing /\ q.from = post[p].from
    \/ Tracks(q, mcpKey[q.from.key])

(* A step of one message: it goes on to q.                                  *)
PostMove(p) ==
    /\ stream' \in [Streams -> StreamStates]
    /\ mcpRows' \in [Posts -> Seq(McpRowStatuses)]
    /\ \A d \in Posts \ {p} : mcpRows'[d] = mcpRows[d]
    /\ \E q : post' = [post EXCEPT ![p] = q] /\ PostFits(q, mcpRows'[p]) /\ Carries(p, q)
    /\ Homes'

(* A step that leaves streams and log alone. *)
LEMMA QuietMove ==
    ASSUME McpInv, NEW p \in Posts, NEW q, PostFits(q, mcpRows[p]), post' = [post EXCEPT ![p] = q],
           post[p].phase # "over", Carries(p, q),
           q.to = NoStream \/ (q.to = post[p].to /\ q.from = post[p].from),
           UNCHANGED <<stream, mcpRows>>
    PROVE  PostMove(p)
<1>1. Joins(p, q) /\ Belongs(p, q)
  <2>1. \A s \in Streams : Kept(stream[s], stream'[s], {})
    BY DEF McpInv, Homes, Kept, Queued
  <2> QED BY <2>1 DEF Joins, Belongs, Kept
<1>2. q \in PostStates
  BY DEF PostFits
<1>3. Homes'
  BY <1>1, <1>2, PostKeptHome
<1> QED BY <1>3 DEF PostMove, McpInv, McpTypeOK

(* An answer is handed over: the message waits for the queue or is over,    *)
(* and at most it joins the queue of the stream it names.                   *)
LEMMA HandOverMoves ==
    ASSUME McpInv, NEW p \in Posts, NEW answered \in PostStates, HandOver(p, answered),
           answered.to = post[p].to, answered.from = post[p].from,
           answered.missing = post[p].missing, post[p].phase # "over",
           mcpRows' \in [Posts -> Seq(McpRowStatuses)],
           \A d \in Posts \ {p} : mcpRows'[d] = mcpRows[d],
           PostFits([answered EXCEPT !.phase = "over"], mcpRows'[p]),
           PostFits([answered EXCEPT !.phase = "put"], mcpRows'[p])
    PROVE  PostMove(p)
<1> DEFINE s == answered.to
           queued == s # NoStream /\ answered.tool # "notification"
           full == Len(stream[s].queue) >= QueueSize
           q == [answered EXCEPT !.phase = IF queued /\ full THEN "put" ELSE "over"]
           into == IF queued /\ ~full THEN Append(stream[s].queue, p) ELSE stream[s].queue
           r == [stream[s] EXCEPT !.idle = 0, !.queue = into]
<1>1. q \in PostStates /\ q.to = s /\ q.from = post[p].from /\ PostFits(q, mcpRows'[p]) /\ Belongs(p, q)
      /\ Carries(p, q)
  BY DEF PostStates, Belongs, Carries
<1>2. post' = [post EXCEPT ![p] = q]
  BY DEF HandOver
<1>3. stream \in [Streams -> StreamStates]
  BY DEF McpInv, McpTypeOK
<1>4. CASE s = NoStream
  <2>1. stream' = stream
    BY <1>4 DEF HandOver
  <2>2. Joins(p, q)
    <3>1. \A u \in Streams : Kept(stream[u], stream'[u], {})
      BY <2>1 DEF McpInv, Homes, Kept, Queued
    <3> HIDE DEF q
    <3> QED BY <3>1 DEF Joins, Kept
  <2> HIDE DEF q
  <2>3. Homes'
    BY <1>1, <1>2, <2>2, PostKeptHome
  <2> QED BY <1>1, <1>2, <1>3, <2>1, <2>3 DEF PostMove
<1>5. CASE s # NoStream
  <2>1. s \in Streams /\ stream[s] \in StreamStates /\ stream[s].queue \in Seq(Posts)
        /\ stream[s].reader # "unused"
    BY <1>3, <1>5 DEF PostStates, StreamStates, McpInv, Homes
  <2>2. into \in Seq(Posts) /\ 0 \in 0..StreamTimeout
    BY <2>1, StreamLimitsAssumption
  <2>3. stream' = [stream EXCEPT ![s] = r]
    BY <1>5 DEF HandOver
  <2>4. {into[i] : i \in DOMAIN into} \subseteq Queued(stream[s]) \cup (IF queued /\ ~full THEN {p} ELSE {})
    BY <2>1, AppendQueued DEF Queued
  <2>5. queued /\ ~full => q.phase = "over"
    BY DEF PostStates
  <2> HIDE DEF queued, full, q, into
  <2>6. r \in StreamStates /\ r.reader = stream[s].reader /\ r.for = stream[s].for /\ r.queue = into
    BY <2>1, <2>2 DEF StreamStates
  <2> HIDE DEF r
  <2>7. stream' \in [Streams -> StreamStates] /\ stream'[s] = r
        /\ \A u \in Streams \ {s} : stream'[u] = stream[u]
    BY <1>3, <2>1, <2>3, <2>6
  <2>8. Queued(stream'[s]) = {into[i] : i \in DOMAIN into}
    BY <2>6, <2>7 DEF Queued
  <2>9. \/ Kept(stream[s], stream'[s], {})
        \/ Kept(stream[s], stream'[s], {p}) /\ q.phase = "over" /\ q.to = s
    <3>1. CASE queued /\ ~full
      BY <1>1, <2>1, <2>4, <2>5, <2>6, <2>7, <2>8, <3>1 DEF Kept
    <3>2. CASE ~(queued /\ ~full)
      BY <2>1, <2>4, <2>6, <2>7, <2>8, <3>2 DEF Kept
    <3> QED BY <3>1, <3>2
  <2>10. \A u \in Streams \ {s} : Kept(stream[u], stream'[u], {})
    BY <2>7 DEF McpInv, Homes, Kept, Queued
  <2>11. Homes'
    <3>1. Joins(p, q)
      <4>1. ASSUME NEW u \in Streams
            PROVE  Kept(stream[u], stream'[u], {}) \/ (Kept(stream[u], stream'[u], {p}) /\ q.phase = "over" /\ q.to = u)
        <5>1. CASE u = s
          BY <2>9, <5>1
        <5>2. CASE u # s
          BY <2>10, <5>2
        <5> QED BY <5>1, <5>2
      <4> QED BY <4>1 DEF Joins, Kept
    <3> QED BY <1>1, <1>2, <3>1, PostKeptHome
  <2> QED BY <1>1, <1>2, <2>7, <2>11 DEF PostMove
<1> QED BY <1>4, <1>5

-------------------------------------------------------------------------------
(* The steps of a message. *)

LEMMA OverFits ==
    ASSUME NEW a \in PostStates, NEW rows \in Seq(McpRowStatuses),
           a.tool \in McpTools /\ a.status # "none" =>
              /\ rows # <<>>
              /\ FiledRight(rows, a.status)
              /\ Len(rows) > 1 => a.tool = "chat" /\ a.status = "error",
           NEW phase \in {"put", "over"}
    PROVE  PostFits([a EXCEPT !.phase = phase], rows)
<1> DEFINE q == [a EXCEPT !.phase = phase]
<1>1. q \in PostStates /\ q.phase = phase /\ q.tool = a.tool /\ q.status = a.status
  BY DEF PostStates
<1> HIDE DEF q
<1>2. PostFits(q, rows)
  BY <1>1 DEF PostFits, Reading
<1> QED BY <1>2 DEF q

(* One more row in the log. *)
LEMMA AppendLast ==
    ASSUME NEW rows \in Seq(McpRowStatuses), NEW row \in McpRowStatuses
    PROVE  /\ Append(rows, row) \in Seq(McpRowStatuses) /\ Append(rows, row) # <<>>
           /\ Last(Append(rows, row)) = row
           /\ Len(Append(rows, row)) = Len(rows) + 1 /\ Len(rows) \in Nat
           /\ rows = <<>> => Len(rows) = 0
BY DEF Last

LEMMA PostTyped ==
    ASSUME McpInv, NEW p \in Posts
    PROVE  /\ post \in [Posts -> PostStates] /\ post[p] \in PostStates
           /\ mcpRows \in [Posts -> Seq(McpRowStatuses)] /\ mcpRows[p] \in Seq(McpRowStatuses)
           /\ stream \in [Streams -> StreamStates]
           /\ PostFits(post[p], mcpRows[p])
           /\ post[p].from.key \in McpKeys
BY DEF McpInv, McpTypeOK, PostsFit, PostStates, Identities

LEMMA NoPostFits == PostFits(NoPost, <<>>) /\ NoPost.to = NoStream /\ \A now : Tracks(NoPost, now)
BY UnusedTyped DEF PostFits, NoPost, Nobody, Tracks, Reading

LEMMA CallToolMoves ==
    ASSUME McpInv, NEW p \in Posts, NEW tool \in McpTools, CallTool(p, tool) PROVE PostMove(p)
<1> DEFINE k == post[p].from.key
           called == [post[p] EXCEPT !.tool = tool]
           chatting == [called EXCEPT !.phase = "row", !.missing = Missing(p)]
           answered(status) == [called EXCEPT !.phase = "audit", !.status = status]
<1>1. post[p].phase = "body" /\ mcpRows[p] = <<>> /\ UNCHANGED <<stream, mcpRows>>
  BY PostTyped DEF CallTool, PostFits
<1>2. CASE post' = [post EXCEPT ![p] = NoPost]
  BY <1>1, <1>2, NoPostFits, QuietMove DEF Carries
<1>3. CASE Permitted(k, tool) /\ tool = "chat" /\ post' = [post EXCEPT ![p] = chatting]
  <2> DEFINE lacking == Missing(p)
  <2>4. lacking \in SUBSET (Facts \cup {"workspace"})
    BY DEF Missing, Lacks, Facts
  <2>5. /\ \A fact \in Facts : fact \in lacking => fact \notin mcpKey[k].fit
        /\ "member" \in lacking => post[p].from.bound
        /\ "workspace" \in lacking =>
              (post[p].from.bound /\ ~mcpKey[k].bound) \/ (~post[p].from.bound /\ mcpKey[k].bound)
    <3>1. post[p].from.bound \in BOOLEAN /\ mcpKey[k].bound \in BOOLEAN
      BY PostTyped DEF McpInv, McpTypeOK, McpKeyRows, PostStates, Identities
    <3> QED BY <3>1 DEF Missing, Lacks, Facts
  <2> HIDE DEF lacking
  <2>1. chatting \in PostStates /\ chatting.phase = "row" /\ chatting.tool = "chat"
        /\ chatting.to = post[p].to /\ chatting.from = post[p].from /\ chatting.missing = lacking
    BY <1>3, <2>4, PostTyped DEF PostStates, lacking
  <2>2. "chat" \in Scopes[k] /\ "chat" \notin Poisoned
    BY <1>3 DEF Permitted, ScopeOf
  <2> HIDE DEF chatting
  <2>3. PostFits(chatting, mcpRows[p])
    BY <1>1, <1>3, <2>1, <2>2, PostTyped DEF PostFits, Seen
  <2>6. Tracks(post[p], mcpKey[k]) /\ mcpKey[k].bound \in BOOLEAN
    BY PostTyped DEF McpInv, Tracked, McpTypeOK, McpKeyRows
  <2>7. Tracks(chatting, mcpKey[k])
    BY <2>1, <2>5, <2>6 DEF Tracks
  <2>8. Carries(p, chatting)
    BY <2>1, <2>7 DEF Carries
  <2> QED BY <1>1, <1>3, <2>1, <2>3, <2>8, QuietMove
<1>4. ASSUME NEW status \in {"ok", "input_blocked", "output_blocked", "error", "invalid"},
             post' = [post EXCEPT ![p] = answered(status)]
      PROVE  PostMove(p)
  <2> DEFINE q == answered(status)
  <2>1. q \in PostStates /\ q.phase = "audit" /\ q.tool = tool /\ q.status = status
        /\ q.to = post[p].to /\ q.from = post[p].from /\ q.missing = post[p].missing
    BY PostTyped DEF PostStates
  <2>2. post' = [post EXCEPT ![p] = q]
    BY <1>4
  <2> HIDE DEF q
  <2>3. PostFits(q, mcpRows[p]) /\ Carries(p, q)
    BY <1>1, <2>1, PostTyped DEF PostFits, Carries, Reading
  <2> QED BY <1>1, <2>1, <2>2, <2>3, QuietMove
<1>5. \A verdict \in Verdicts(tool) : Filed(tool, verdict) \in {"ok", "input_blocked", "output_blocked"}
  BY DEF Filed
<1>6. \/ post' = [post EXCEPT ![p] = NoPost]
      \/ \E status \in {"error", "invalid"} : post' = [post EXCEPT ![p] = answered(status)]
      \/ Permitted(k, tool) /\ tool = "chat" /\ post' = [post EXCEPT ![p] = chatting]
      \/ \E verdict \in Verdicts(tool) : post' = [post EXCEPT ![p] = answered(Filed(tool, verdict))]
  BY DEF CallTool
<1> HIDE DEF answered, chatting
<1> QED BY <1>2, <1>3, <1>4, <1>5, <1>6

LEMMA EndChatMoves ==
    ASSUME McpInv, NEW p \in Posts, EndChat(p) PROVE PostMove(p)
<1>1. PICK outcome \in {"delivered", "input_blocked", "output_blocked", "error"},
           row \in {"none", "rate_limited", "delivered", "input_blocked", "output_blocked"} :
          /\ outcome # "error" => row = outcome
          /\ mcpRows' = IF row = "none" THEN mcpRows ELSE [mcpRows EXCEPT ![p] = Append(@, row)]
          /\ LET answered == [post[p] EXCEPT !.status = outcome] IN
             IF AuditedByGateway(outcome) THEN HandOver(p, answered)
             ELSE /\ post' = [post EXCEPT ![p] = [answered EXCEPT !.phase = "audit"]]
                  /\ UNCHANGED stream
  BY DEF EndChat
<1> DEFINE answered == [post[p] EXCEPT !.status = outcome]
           rows == IF row = "none" THEN <<>> ELSE <<row>>
<1>2. post[p].phase = "chat" /\ post[p].tool = "chat" /\ "chat" \in McpTools /\ mcpRows[p] = <<>>
  BY PostTyped DEF EndChat, PostFits
<1>3. answered \in PostStates /\ answered.tool = "chat" /\ answered.status = outcome
      /\ answered.to = post[p].to /\ answered.from = post[p].from
      /\ answered.missing = post[p].missing
  BY <1>2, PostTyped DEF PostStates
<1>4. rows \in Seq(McpRowStatuses) /\ Len(rows) <= 1
      /\ (row # "none" => rows # <<>> /\ Last(rows) = row)
      /\ (rows # <<>> => Len(rows) = 1)
  <2>1. row # "none" => row \in McpRowStatuses
    BY DEF McpRowStatuses
  <2>2. CASE row = "none"
    BY <2>2
  <2>3. CASE row # "none"
    <3>1. rows = <<row>> /\ rows \in Seq(McpRowStatuses) /\ Len(rows) = 1 /\ rows[1] = row
      BY <2>1, <2>3
    <3>2. rows # <<>> /\ Last(rows) = row
      BY <3>1 DEF Last
    <3> QED BY <3>1, <3>2
  <2> QED BY <2>2, <2>3
<1>5. /\ mcpRows' \in [Posts -> Seq(McpRowStatuses)] /\ mcpRows'[p] = rows
      /\ \A d \in Posts \ {p} : mcpRows'[d] = mcpRows[d]
  <2>1. CASE row = "none"
    BY <1>1, <1>2, <2>1, PostTyped
  <2>2. CASE row # "none"
    <3>1. Append(mcpRows[p], row) = rows
      BY <1>2, <2>2
    <3>2. mcpRows' = [mcpRows EXCEPT ![p] = rows]
      BY <1>1, <2>2, <3>1
    <3> HIDE DEF rows
    <3> QED BY <1>4, <3>2, PostTyped
  <2> QED BY <2>1, <2>2
<1> HIDE DEF rows
<1>6. CASE outcome # "error"
  <2>1. HandOver(p, answered) /\ row = outcome /\ row # "none"
    BY <1>1, <1>6 DEF AuditedByGateway
  <2> HIDE DEF answered
  <2>2. /\ PostFits([answered EXCEPT !.phase = "over"], rows)
        /\ PostFits([answered EXCEPT !.phase = "put"], rows)
    <3>1. rows # <<>> /\ Last(rows) = answered.status /\ ~(Len(rows) > 1)
      BY <1>3, <1>4, <2>1
    <3> QED BY <1>3, <1>4, <3>1, OverFits DEF FiledRight
  <2>3. post[p].phase # "over"
    BY <1>2
  <2> QED BY <1>3, <1>5, <2>1, <2>2, <2>3, HandOverMoves
<1>7. CASE outcome = "error"
  <2> DEFINE q == [answered EXCEPT !.phase = "audit"]
  <2>1. post' = [post EXCEPT ![p] = q] /\ stream' = stream
    BY <1>1, <1>7 DEF AuditedByGateway
  <2> HIDE DEF answered
  <2>2. q \in PostStates /\ q.phase = "audit" /\ q.tool = "chat" /\ q.status = "error"
        /\ q.to = post[p].to /\ q.from = post[p].from /\ q.missing = post[p].missing
    BY <1>3, <1>7 DEF PostStates
  <2> HIDE DEF q
  <2>3. PostFits(q, rows) /\ Carries(p, q)
    BY <1>2, <1>4, <2>2 DEF PostFits, Carries, Reading
  <2>4. Joins(p, q)
    <3>1. \A s \in Streams : Kept(stream[s], stream'[s], {})
      BY <2>1 DEF McpInv, Homes, Kept, Queued
    <3> QED BY <3>1 DEF Joins, Kept
  <2>5. Homes'
    BY <1>2, <2>1, <2>2, <2>4, PostKeptHome DEF Belongs
  <2> QED BY <1>5, <2>1, <2>3, <2>5, PostTyped DEF PostMove
<1> QED BY <1>6, <1>7

LEMMA AuditMoves ==
    ASSUME McpInv, NEW p \in Posts, Audit(p) PROVE PostMove(p)
<1>1. PICK row \in {FiledAs(post[p].status), "lost"} : mcpRows' = [mcpRows EXCEPT ![p] = Append(@, row)]
  BY DEF Audit
<1> DEFINE a == post[p]
           rows == Append(mcpRows[p], row)
<1>2. /\ a.phase = "audit" /\ a.tool \in McpTools /\ a.status # "none" /\ a \in PostStates
      /\ mcpRows[p] = <<>> \/ (Len(mcpRows[p]) = 1 /\ a.tool = "chat" /\ a.status = "error")
      /\ mcpRows[p] \in Seq(McpRowStatuses)
  BY PostTyped DEF Audit, PostFits
<1>3. row \in McpRowStatuses /\ (row \in {a.status, "lost"} \/ (a.status = "invalid" /\ row = "ok"))
  BY <1>2 DEF PostStates, McpRowStatuses, FiledAs
<1>4. /\ rows \in Seq(McpRowStatuses) /\ rows # <<>> /\ FiledRight(rows, a.status)
      /\ Len(rows) > 1 => a.tool = "chat" /\ a.status = "error"
  <2>1. Last(rows) = row /\ rows \in Seq(McpRowStatuses) /\ rows # <<>>
    BY <1>2, <1>3, AppendLast
  <2>2. Len(rows) > 1 => a.tool = "chat" /\ a.status = "error"
    BY <1>2, <1>3, AppendLast
  <2> QED BY <1>3, <2>1, <2>2 DEF FiledRight
<1>5. mcpRows' = [mcpRows EXCEPT ![p] = rows]
  BY <1>1
<1> HIDE DEF rows
<1>6. /\ mcpRows' \in [Posts -> Seq(McpRowStatuses)] /\ mcpRows'[p] = rows
      /\ \A d \in Posts \ {p} : mcpRows'[d] = mcpRows[d]
  BY <1>4, <1>5, PostTyped
<1>7. HandOver(p, a) /\ a.to = post[p].to /\ a.from = post[p].from /\ a.missing = post[p].missing
      /\ post[p].phase # "over"
  BY <1>2 DEF Audit
<1> HIDE DEF a
<1>8. PostFits([a EXCEPT !.phase = "over"], rows) /\ PostFits([a EXCEPT !.phase = "put"], rows)
  BY <1>2, <1>4, OverFits
<1> QED BY <1>2, <1>6, <1>7, <1>8, HandOverMoves

LEMMA HandshakeMoves ==
    ASSUME McpInv, NEW p \in Posts, NEW method \in {"list", "notification"}, Handshake(p, method)
    PROVE  PostMove(p)
<1> DEFINE a == [post[p] EXCEPT !.tool = method, !.status = "ok"]
<1>1. post[p].phase = "body" /\ HandOver(p, a) /\ mcpRows' = mcpRows
  BY DEF Handshake
<1>2. a \in PostStates /\ a.tool = method /\ a.to = post[p].to /\ a.from = post[p].from
      /\ a.missing = post[p].missing
  BY PostTyped DEF PostStates
<1>3. method \notin McpTools
  BY ToolsAssumption DEF AllTools
<1> HIDE DEF a
<1>4. PostFits([a EXCEPT !.phase = "over"], mcpRows[p]) /\ PostFits([a EXCEPT !.phase = "put"], mcpRows[p])
  BY <1>2, <1>3, PostTyped, OverFits
<1> QED BY <1>1, <1>2, <1>4, PostTyped, HandOverMoves

(* A read finds what it looks for, or the call is over.                     *)
LEMMA ReadMoves ==
    ASSUME McpInv, NEW p \in Posts, NEW q \in PostStates, post[p].phase \in Reading,
           post' = [post EXCEPT ![p] = q], UNCHANGED <<stream, mcpRows>>,
           q.tool = post[p].tool, q.to = post[p].to, q.from = post[p].from, q.missing = post[p].missing,
           \/ q.phase = "audit" /\ q.status = "error"
           \/ q.phase \in {"owner", "member", "bans", "again", "chat"} /\ q.missing \cap Seen(q.phase) = {}
    PROVE  /\ PostMove(p)
           /\ post'[p].phase = "chat" =>
                 post[p].missing = {} /\ "chat" \in Scopes[post[p].from.key] /\ "chat" \notin Poisoned
<1>1. /\ post[p].tool = "chat" /\ "chat" \in McpTools /\ mcpRows[p] = <<>>
      /\ "chat" \in Scopes[post[p].from.key] /\ "chat" \notin Poisoned
  BY PostTyped DEF PostFits
<1>2. PostFits(q, mcpRows[p])
  BY <1>1, PostTyped DEF PostFits, Reading
<1>3. Carries(p, q) /\ post[p].phase # "over"
  BY DEF Carries, Reading
<1>4. PostMove(p)
  BY <1>2, <1>3, QuietMove
<1>5. post'[p] = q
  BY PostTyped
<1>6. q.phase = "chat" => q.missing = {}
  BY DEF Seen, PostStates
<1> QED BY <1>1, <1>4, <1>5, <1>6

LEMMA LookUpMoves ==
    ASSUME McpInv, NEW p \in Posts, LookUp(p)
    PROVE  /\ PostMove(p)
           /\ post'[p].phase = "chat" =>
                 post[p].missing = {} /\ "chat" \in Scopes[post[p].from.key] /\ "chat" \notin Poisoned
<1> DEFINE r == post[p]
           now == mcpKey[r.from.key]
           at(phase) == [r EXCEPT !.phase = phase]
           failed == [r EXCEPT !.phase = "audit", !.status = "error"]
           Done == /\ PostMove(p)
                   /\ post'[p].phase = "chat" =>
                         r.missing = {} /\ "chat" \in Scopes[r.from.key] /\ "chat" \notin Poisoned
<1>1. /\ r \in PostStates /\ Tracks(r, now)
      /\ r.phase \in Reading => r.missing \cap Seen(r.phase) = {}
      /\ r.missing \subseteq {"row", "owner", "member", "workspace"} /\ Facts = {"row", "owner", "member"}
  BY PostTyped DEF McpInv, Tracked, PostFits, PostStates, Facts
<1>2. UNCHANGED <<stream, mcpRows>> /\ r.phase \in Reading
  BY DEF LookUp, FindKey, FindOwner, FindMembership, CheckBans, FindMembershipAgain, Looked, Reading
<1>3. ASSUME post' = [post EXCEPT ![p] = failed] PROVE Done
  <2>1. failed \in PostStates /\ failed.phase = "audit" /\ failed.status = "error" /\ failed.tool = r.tool
        /\ failed.to = r.to /\ failed.from = r.from /\ failed.missing = r.missing
    BY <1>1 DEF PostStates
  <2> HIDE DEF failed
  <2> QED BY <1>2, <1>3, <2>1, ReadMoves
<1>4. ASSUME NEW phase \in {"owner", "member", "bans", "again", "chat"}, post' = [post EXCEPT ![p] = at(phase)],
             r.missing \cap Seen(phase) = {}
      PROVE  Done
  <2> DEFINE q == at(phase)
  <2>1. q \in PostStates /\ q.phase = phase /\ q.tool = r.tool
        /\ q.to = r.to /\ q.from = r.from /\ q.missing = r.missing
    BY <1>1 DEF PostStates
  <2>2. post' = [post EXCEPT ![p] = q]
    BY <1>4
  <2> HIDE DEF q
  <2> QED BY <1>2, <1>4, <2>1, <2>2, ReadMoves
<1>5. ASSUME r.phase = "owner", Has(p, "owner"), post' = [post EXCEPT ![p].phase = "member", ![p].guest = TRUE]
      PROVE  Done
  <2> DEFINE q == [r EXCEPT !.phase = "member", !.guest = TRUE]
  <2>1. q \in PostStates /\ q.phase = "member" /\ q.tool = r.tool
        /\ q.to = r.to /\ q.from = r.from /\ q.missing = r.missing
    BY <1>1 DEF PostStates
  <2>2. post' = [post EXCEPT ![p] = q]
    BY <1>5
  <2>3. r.missing \cap Seen("member") = {}
    BY <1>1, <1>2, <1>5 DEF Seen, Tracks, Has, Facts
  <2> HIDE DEF q
  <2> QED BY <1>2, <2>1, <2>2, <2>3, ReadMoves
<1>6. CASE FindKey(p)
  <2>1. CASE FoundKey(p) /\ post' = [post EXCEPT ![p] = at("owner")]
    <3>1. r.missing \cap Seen("owner") = {}
      BY <1>1, <2>1 DEF Seen, Tracks, FoundKey, Facts
    <3> QED BY <1>4, <2>1, <3>1
  <2> QED BY <1>3, <1>6, <2>1 DEF FindKey, Looked
<1>7. CASE FindOwner(p)
  <2>1. CASE Has(p, "owner") /\ (r.from.bound => Has(p, "member")) /\ r.phase = "owner"
             /\ post' = [post EXCEPT ![p] = at("bans")]
    <3>1. r.missing \cap Seen("bans") = {}
      BY <1>1, <1>2, <2>1 DEF Seen, Tracks, Has, Facts
    <3> QED BY <1>4, <2>1, <3>1
  <2> QED BY <1>3, <1>5, <1>7, <2>1 DEF FindOwner, Looked
<1>8. CASE FindMembership(p)
  <2>1. CASE Has(p, "member") /\ r.phase = "member" /\ post' = [post EXCEPT ![p] = at("bans")]
    <3>1. r.missing \cap Seen("bans") = {}
      BY <1>1, <1>2, <2>1 DEF Seen, Tracks, Has, Facts
    <3> QED BY <1>4, <2>1, <3>1
  <2> QED BY <1>3, <1>8, <2>1 DEF FindMembership, Looked
<1>9. CASE CheckBans(p)
  <2>1. CASE r.phase = "bans" /\ \E phase \in {"again", "chat"} : post' = [post EXCEPT ![p] = at(phase)]
    <3>1. \A phase \in {"again", "chat"} : r.missing \cap Seen(phase) = {}
      BY <1>1, <1>2, <2>1 DEF Seen
    <3> QED BY <1>4, <2>1, <3>1
  <2> QED BY <1>3, <1>9, <2>1 DEF CheckBans, Looked
<1>10. CASE FindMembershipAgain(p)
  <2>1. CASE r.phase = "again" /\ post' = [post EXCEPT ![p] = at("chat")]
    <3>1. r.missing \cap Seen("chat") = {}
      BY <1>1, <1>2, <2>1 DEF Seen
    <3> QED BY <1>4, <2>1, <3>1
  <2> QED BY <1>3, <1>10, <2>1 DEF FindMembershipAgain, Looked
<1> QED BY <1>6, <1>7, <1>8, <1>9, <1>10 DEF LookUp

LEMMA PutMoves ==
    ASSUME McpInv, NEW p \in Posts, Put(p) PROVE PostMove(p)
<1> DEFINE s == post[p].to
           q == [post[p] EXCEPT !.phase = "over"]
           into == Append(stream[s].queue, p)
           r == [stream[s] EXCEPT !.queue = into]
<1>1. post[p].phase = "put" /\ post' = [post EXCEPT ![p] = q] /\ stream' = [stream EXCEPT ![s] = r]
      /\ mcpRows' = mcpRows
  BY DEF Put
<1>2. q \in PostStates /\ q.phase = "over" /\ q.tool = post[p].tool /\ q.status = post[p].status
      /\ q.to = s /\ q.from = post[p].from /\ q.missing = post[p].missing
  BY PostTyped DEF PostStates
<1> HIDE DEF q
<1>3. PostFits(q, mcpRows[p]) /\ Belongs(p, q) /\ Carries(p, q)
  BY <1>1, <1>2, PostTyped DEF PostFits, Belongs, Carries, Reading
<1>4. ASSUME NEW u \in Streams
      PROVE  /\ stream'[u] \in StreamStates
             /\ \/ Kept(stream[u], stream'[u], {})
                \/ Kept(stream[u], stream'[u], {p}) /\ u = s
  <2>1. CASE u # s
    <3>1. stream'[u] = stream[u] /\ stream[u] \in StreamStates
      BY <1>1, <2>1, PostTyped
    <3> QED BY <3>1 DEF Kept, McpInv, Homes
  <2>2. CASE u = s
    <3>1. stream[s] \in StreamStates /\ stream[s].queue \in Seq(Posts) /\ stream[s].reader # "unused"
      BY <2>2, PostTyped, NoStreamIsNone DEF StreamStates, McpInv, Homes
    <3>2. r \in StreamStates /\ r.reader = stream[s].reader /\ r.for = stream[s].for
          /\ r.queue = into
      <4>1. into \in Seq(Posts)
        BY <3>1
      <4> HIDE DEF into
      <4> QED BY <3>1, <4>1 DEF StreamStates
    <3>3. stream'[s] = r
      BY <1>1, <2>2, PostTyped
    <3> HIDE DEF r
    <3>4. Queued(r) \subseteq Queued(stream[s]) \cup {p}
      BY <3>1, <3>2, AppendQueued DEF Queued
    <3> QED BY <2>2, <3>1, <3>2, <3>3, <3>4 DEF Kept
  <2> QED BY <2>1, <2>2
<1>5. stream' \in [Streams -> StreamStates]
  BY <1>1, <1>4, PostTyped
<1>6. Joins(p, q)
  BY <1>2, <1>4 DEF Joins, Kept
<1>7. Homes'
  BY <1>1, <1>2, <1>3, <1>6, PostKeptHome
<1> QED BY <1>1, <1>3, <1>5, <1>7, PostTyped DEF PostMove

LEMMA ServePostMoves == ASSUME McpInv, NEW p \in Posts, ServePost(p) PROVE PostMove(p)
<1>1. CASE Malformed(p)
  <2>1. post[p].phase = "body" /\ mcpRows[p] = <<>>
    BY <1>1, PostTyped DEF Malformed, PostFits
  <2> QED BY <1>1, <2>1, NoPostFits, QuietMove DEF Malformed, Carries
<1> QED BY <1>1, LookUpMoves, EndChatMoves, AuditMoves, PutMoves, HandshakeMoves, CallToolMoves DEF ServePost

LEMMA PostMessageMoves ==
    ASSUME McpInv, NEW k \in McpKeys, NEW p \in Posts, NEW to \in Streams \cup {NoStream},
           PostMessage(k, p, to)
    PROVE  PostMove(p)
<1>1. stream' = Purged /\ post[p].phase = "idle" /\ mcpRows[p] = <<>> /\ mcpRows' = mcpRows
  BY PostTyped DEF PostMessage, PostFits
<1>2. \A s \in Streams : Kept(stream[s], stream'[s], {})
  BY <1>1, PurgeKeeps
<1> DEFINE q == [post[p] EXCEPT !.phase = "body", !.from = Identity(k), !.to = to]
<1>3. CASE post' = [post EXCEPT ![p] = q] /\ (to # NoStream => Answers(to, k))
  <2>1. q \in PostStates /\ q.phase = "body" /\ q.from = Identity(k) /\ q.to = to
        /\ q.missing = post[p].missing
    BY IdentityTyped, PostTyped DEF McpInv, PostStates
  <2> HIDE DEF q
  <2>2. Belongs(p, q)
    BY <1>3, <2>1 DEF Belongs, Answers, McpInv, Homes
  <2>3. Joins(p, q)
    BY <1>2 DEF Joins, Kept
  <2>4. Homes'
    BY <1>1, <1>3, <2>1, <2>2, <2>3, PostKeptHome
  <2>5. PostFits(q, mcpRows[p]) /\ q.missing = {}
    BY <1>1, <2>1, PostTyped DEF PostFits, Reading
  <2>6. Carries(p, q)
    BY <2>1, <2>5 DEF Carries, Tracks, Identity
  <2> QED BY <1>1, <1>3, <2>4, <2>5, <2>6, PostTyped, PurgedTyped DEF McpInv, PostMove
<1>4. CASE post' = post
  <2>1. Homes'
    BY <1>2, <1>4, StreamsKeptHome
  <2>2. post' = [post EXCEPT ![p] = post[p]]
    BY <1>4, PostTyped
  <2> QED BY <1>1, <2>1, <2>2, PostTyped, PurgedTyped DEF McpInv, PostMove, Carries
<1> QED BY <1>3, <1>4 DEF PostMessage

(* What is counted against a key's allowance stays within its bounds. *)
LEMMA SpentTyped ==
    ASSUME McpInv, NEW k \in McpKeys PROVE [allowance EXCEPT ![k] = Spent(k)] \in [McpKeys -> Allowances]
<1>1. /\ \A w \in {"rpm", "rpd"} : McpWindow[w] \in Nat /\ McpLimit[w] \in Nat \ {0}
      /\ allowance \in [McpKeys -> Allowances]
  BY StreamLimitsAssumption, McpWindowAssumption DEF McpLimit, McpInv, McpTypeOK
<1>2. ASSUME NEW w \in {"rpm", "rpd"}
      PROVE  Spent(k)[w] \in [left : -1..McpLimit[w], reset : 0..McpWindow[w]]
  <2> DEFINE now == allowance[k][w]
  <2>1. now \in [left : Int, reset : Nat] /\ now.left \in -1..McpLimit[w] /\ now.reset \in 0..McpWindow[w]
    BY <1>1 DEF Allowances
  <2>2. CASE now.reset = 0
    <3>1. Spent(k)[w] = [left |-> McpLimit[w] - 1, reset |-> McpWindow[w]]
      BY <2>2 DEF Spent
    <3> QED BY <1>1, <3>1
  <2>3. CASE now.reset # 0
    <3>1. Spent(k)[w] = [now EXCEPT !.left = Max({now.left - 1, -1})]
      BY <2>3 DEF Spent
    <3>2. Max({now.left - 1, -1}) = IF now.left - 1 >= -1 THEN now.left - 1 ELSE -1
      BY <2>1, MaxOfTwo
    <3>3. Max({now.left - 1, -1}) \in -1..McpLimit[w]
      BY <1>1, <2>1, <3>2
    <3> QED BY <2>1, <3>1, <3>3
  <2> QED BY <2>2, <2>3
<1>3. Spent(k) \in Allowances
  <2>1. Spent(k) = [w \in {"rpm", "rpd"} |-> Spent(k)[w]]
    BY DEF Spent
  <2>2. \A w \in {"rpm", "rpd"} : /\ Spent(k)[w] \in [left : Int, reset : Nat]
                                  /\ Spent(k)[w].left \in -1..McpLimit[w]
                                  /\ Spent(k)[w].reset \in 0..McpWindow[w]
    BY <1>1, <1>2
  <2> HIDE DEF Spent
  <2>3. Spent(k) \in [{"rpm", "rpd"} -> [left : Int, reset : Nat]]
    BY <2>1, <2>2
  <2> QED BY <2>2, <2>3 DEF Allowances
<1> QED BY <1>1, <1>3

-------------------------------------------------------------------------------
LEMMA InitMcp == McpInit => McpInv
<1> SUFFICES ASSUME McpInit PROVE McpInv
  OBVIOUS
<1>1. ASSUME NEW w \in {"rpm", "rpd"}
      PROVE  McpLimit[w] \in Nat /\ McpWindow[w] \in Nat
  BY StreamLimitsAssumption, McpWindowAssumption DEF McpLimit
<1>2. [w \in {"rpm", "rpd"} |-> [left |-> McpLimit[w], reset |-> 0]] \in Allowances
  BY <1>1 DEF Allowances
<1>3. McpTypeOK
  <2>1. mcpRows \in [Posts -> Seq(McpRowStatuses)]
    BY DEF McpInit
  <2>2. mcpKey \in [McpKeys -> McpKeyRows]
    BY DEF McpInit, McpKeyRows
  <2> QED BY <1>2, <2>1, <2>2, UnusedTyped DEF McpInit, McpTypeOK
<1>4. Homes
  <2>1. UnusedStream.reader = "unused" /\ ~UnusedStream.listed /\ Queued(UnusedStream) = {}
    BY DEF UnusedStream, Queued
  <2> QED BY <2>1, NoPostFits DEF McpInit, Homes
<1>5. PostsFit
  BY NoPostFits DEF McpInit, PostsFit
<1>6. Tracked
  BY NoPostFits DEF McpInit, Tracked
<1> QED BY <1>3, <1>4, <1>5, <1>6 DEF McpInv

(* A step of a stream or of a message that leaves the keys alone and the    *)
(* allowances typed preserves the invariant.                                *)
LEMMA MovePreserves ==
    ASSUME McpInv, UNCHANGED mcpKey, allowance' \in [McpKeys -> Allowances],
           StreamMove \/ \E p \in Posts : PostMove(p)
    PROVE  McpInv'
<1>1. CASE StreamMove
  <2>1. Homes'
    BY <1>1, StreamsKeptHome DEF StreamMove
  <2>2. McpTypeOK' /\ PostsFit' /\ Tracked'
    BY <1>1 DEF StreamMove, McpInv, McpTypeOK, PostsFit, Tracked
  <2> QED BY <2>1, <2>2 DEF McpInv
<1>2. CASE \E p \in Posts : PostMove(p)
  <2>1. PICK p \in Posts : PostMove(p)
    BY <1>2
  <2>2. PICK q : post' = [post EXCEPT ![p] = q] /\ PostFits(q, mcpRows'[p]) /\ Carries(p, q)
    BY <2>1 DEF PostMove
  <2>3. q \in PostStates
    BY <2>2 DEF PostFits
  <2>4. post' \in [Posts -> PostStates] /\ post'[p] = q /\ \A d \in Posts \ {p} : post'[d] = post[d]
    BY <2>2, <2>3, PostTyped
  <2>5. ASSUME NEW d \in Posts PROVE PostFits(post'[d], mcpRows'[d])
    <3>1. CASE d = p
      BY <2>2, <2>4, <3>1
    <3>2. CASE d # p
      <4>1. post'[d] = post[d] /\ mcpRows'[d] = mcpRows[d]
        BY <2>1, <2>4, <3>2 DEF PostMove
      <4> QED BY <4>1, PostTyped
    <3> QED BY <3>1, <3>2
  <2>6. McpTypeOK'
    BY <2>1, <2>4 DEF PostMove, McpInv, McpTypeOK
  <2>7. ASSUME NEW d \in Posts PROVE Tracks(post'[d], mcpKey'[post'[d].from.key])
    <3>1. \A b \in Posts : Tracks(post[b], mcpKey[post[b].from.key])
      BY DEF McpInv, Tracked
    <3>2. CASE d # p
      <4>1. post'[d] = post[d]
        BY <2>4, <3>2
      <4> QED BY <3>1, <4>1
    <3>3. Tracks(q, mcpKey[q.from.key])
      BY <2>2, <3>1 DEF Carries, Tracks
    <3> QED BY <2>4, <3>2, <3>3
  <2> QED BY <2>1, <2>5, <2>6, <2>7 DEF McpInv, PostsFit, PostMove, Tracked
<1> QED BY <1>1, <1>2

(* A key or its owner loses something or gets it back, or the key loses its *)
(* workspace: messages keep all but what they are said to lack.             *)
LEMMA KeyStepsPreserve ==
    ASSUME McpInv, NEW k \in McpKeys,
           WorkspaceGoes(k) \/ \E fact \in Facts : McpKeyStops(k, fact) \/ McpKeyReturns(k, fact)
    PROVE  McpInv'
<1>1. /\ mcpKey \in [McpKeys -> McpKeyRows] /\ post \in [Posts -> PostStates]
      /\ \A p \in Posts : post[p].from.key \in McpKeys /\ Tracks(post[p], mcpKey[post[p].from.key])
      /\ UNCHANGED <<stream, allowance, mcpRows>>
  BY PostTyped DEF McpInv, McpTypeOK, Tracked, WorkspaceGoes, McpKeyStops, McpKeyReturns
<1>2. CASE WorkspaceGoes(k) \/ \E fact \in Facts : McpKeyStops(k, fact)
  <2>1. post' = post
    BY <1>2 DEF WorkspaceGoes, McpKeyStops
  <2>2. /\ mcpKey' \in [McpKeys -> McpKeyRows]
        /\ \A h \in McpKeys : mcpKey'[h].fit \subseteq mcpKey[h].fit /\ (mcpKey'[h].bound => mcpKey[h].bound)
    <3>1. CASE WorkspaceGoes(k)
      BY <1>1, <3>1 DEF WorkspaceGoes, McpKeyRows
    <3>2. CASE \E fact \in Facts : McpKeyStops(k, fact)
      <4>1. PICK fact \in Facts : mcpKey' = [mcpKey EXCEPT ![k].fit = @ \ {fact}]
        BY <3>2 DEF McpKeyStops
      <4> QED BY <1>1, <4>1 DEF McpKeyRows
    <3> QED BY <1>2, <3>1, <3>2
  <2>3. ASSUME NEW p \in Posts PROVE Tracks(post[p], mcpKey'[post[p].from.key])
    BY <1>1, <2>2 DEF Tracks
  <2> QED BY <1>1, <2>1, <2>2, <2>3 DEF McpInv, McpTypeOK, Homes, PostsFit, Tracked
<1>3. ASSUME NEW fact \in Facts, McpKeyReturns(k, fact) PROVE McpInv'
  <2>1. /\ mcpKey' \in [McpKeys -> McpKeyRows]
        /\ \A h \in McpKeys : mcpKey'[h].bound = mcpKey[h].bound
        /\ \A h \in McpKeys \ {k} : mcpKey'[h] = mcpKey[h]
        /\ mcpKey'[k].fit = mcpKey[k].fit \cup {fact}
    BY <1>1, <1>3 DEF McpKeyReturns, McpKeyRows
  <2>2. ASSUME NEW p \in Posts
        PROVE  /\ post'[p] \in PostStates /\ post'[p].phase = post[p].phase /\ post'[p].from = post[p].from
               /\ post'[p].to = post[p].to /\ post'[p].tool = post[p].tool
               /\ post'[p].status = post[p].status
               /\ post'[p].missing = IF post[p].from.key = k THEN post[p].missing \ {fact} ELSE post[p].missing
    <3>1. post'[p] = IF post[p].from.key = k THEN [post[p] EXCEPT !.missing = @ \ {fact}] ELSE post[p]
      BY <1>3 DEF McpKeyReturns
    <3>2. post[p] \in PostStates
      BY <1>1
    <3> QED BY <3>1, <3>2 DEF PostStates
  <2>3. post' \in [Posts -> PostStates]
    <3>1. post' = [p \in Posts |-> post'[p]]
      BY <1>3 DEF McpKeyReturns
    <3> QED BY <2>2, <3>1
  <2>4. McpTypeOK' /\ Homes'
    <3>1. McpTypeOK'
      BY <1>1, <2>1, <2>3 DEF McpInv, McpTypeOK
    <3>2. ASSUME NEW s \in Streams
          PROVE  /\ stream'[s].reader = "unused" => ~stream'[s].listed /\ Queued(stream'[s]) = {}
                 /\ \A p \in Queued(stream'[s]) : p \in Posts /\ post'[p].phase = "over" /\ post'[p].to = s
      BY <1>1, <2>2 DEF McpInv, Homes
    <3>3. ASSUME NEW p \in Posts, post'[p].to # NoStream
          PROVE  /\ stream'[post'[p].to].reader # "unused"
                 /\ post'[p].from = stream'[post'[p].to].for
      BY <1>1, <2>2, <3>3 DEF McpInv, Homes
    <3> QED BY <3>1, <3>2, <3>3 DEF Homes
  <2>5. ASSUME NEW p \in Posts PROVE PostFits(post'[p], mcpRows'[p])
    <3>1. PostFits(post[p], mcpRows[p]) /\ mcpRows' = mcpRows
      BY <1>1, PostTyped
    <3>2. post'[p].missing \subseteq post[p].missing
      BY <2>2
    <3> QED BY <2>2, <3>1, <3>2 DEF PostFits
  <2>6. ASSUME NEW p \in Posts PROVE Tracks(post'[p], mcpKey'[post'[p].from.key])
    <3>1. Tracks(post[p], mcpKey[post[p].from.key]) /\ post[p].from.key \in McpKeys
      BY <1>1
    <3>2. CASE post[p].from.key = k
      BY <2>1, <2>2, <3>1, <3>2 DEF Tracks
    <3>3. CASE post[p].from.key # k
      BY <2>1, <2>2, <3>1, <3>3 DEF Tracks
    <3> QED BY <3>2, <3>3
  <2> QED BY <2>4, <2>5, <2>6 DEF McpInv, PostsFit, Tracked
<1> QED BY <1>2, <1>3

LEMMA NextMcp == McpInv /\ [McpNext]_mcpVars => McpInv'
<1> SUFFICES ASSUME McpInv, [McpNext]_mcpVars PROVE McpInv'
  OBVIOUS
<1>1. mcpKey \in [McpKeys -> McpKeyRows] /\ allowance \in [McpKeys -> Allowances]
  BY DEF McpInv, McpTypeOK
<1>2. CASE UNCHANGED mcpVars
  BY <1>2 DEF mcpVars, McpInv, McpTypeOK, Homes, PostsFit, Tracked
<1>3. CASE \E k \in McpKeys : WorkspaceGoes(k) \/ \E fact \in Facts : McpKeyStops(k, fact) \/ McpKeyReturns(k, fact)
  BY <1>3, KeyStepsPreserve
<1>4. CASE \E k \in McpKeys, s \in Streams : OpenStream(k, s)
  BY <1>1, <1>4, OpenStreamMoves, MovePreserves DEF OpenStream
<1>5. CASE \E k \in McpKeys, p \in Posts, to \in Streams \cup {NoStream} : PostMessage(k, p, to)
  BY <1>1, <1>5, PostMessageMoves, MovePreserves DEF PostMessage
<1>6. CASE \E s \in Streams : ServeStream(s)
  BY <1>1, <1>6, ServeStreamMoves, MovePreserves
     DEF ServeStream, SendEndpoint, AwaitAnswer, Deliver, TimeOut, Leave
<1>7. CASE \E p \in Posts : ServePost(p)
  <2>1. PICK p \in Posts : ServePost(p)
    BY <1>7
  <2>2. mcpKey' = mcpKey
    BY <2>1 DEF ServePost, Malformed, LookUp, FindKey, FindOwner, FindMembership, CheckBans,
              FindMembershipAgain, Looked, EndChat, Audit, Put, Handshake, CallTool
  <2>3. allowance' = allowance \/ allowance' = [allowance EXCEPT ![post[p].from.key] = Spent(post[p].from.key)]
    BY <2>1 DEF ServePost, Malformed, LookUp, FindKey, FindOwner, FindMembership, CheckBans,
              FindMembershipAgain, Looked, EndChat, Audit, Put, Handshake, CallTool
  <2>4. allowance' \in [McpKeys -> Allowances]
    BY <1>1, <2>3, PostTyped, SpentTyped
  <2> QED BY <1>1, <2>1, <2>2, <2>4, ServePostMoves, MovePreserves
<1>8. CASE McpTick
  BY <1>1, <1>8, TickMoves, MovePreserves DEF McpTick
<1> QED BY <1>2, <1>3, <1>4, <1>5, <1>6, <1>7, <1>8 DEF McpNext

LEMMA McpInvHolds == McpSpec => []McpInv
BY InitMcp, NextMcp, PTL DEF McpSpec

(* Every variable of the server has its type. *)
THEOREM McpTypesCorrect == McpSpec => []McpTypeOK
<1>1. McpInv => McpTypeOK
  BY DEF McpInv
<1> QED BY <1>1, McpInvHolds, PTL

(* An answer in a stream's queue was computed for the identity the stream   *)
(* was opened with ("binds sessions to keys"), for any number of streams    *)
(* opened, forgotten and purged while messages are on their way.            *)
THEOREM AnswersAtHome == McpSpec => []AnswersStayHome
<1>1. McpInv => AnswersStayHome
  <2> SUFFICES ASSUME McpInv, NEW s \in Streams, NEW i \in DOMAIN stream[s].queue
               PROVE  post[stream[s].queue[i]].from = stream[s].for
    BY DEF AnswersStayHome
  <2>1. stream[s].queue[i] \in Queued(stream[s])
    BY DEF Queued
  <2> QED BY <2>1, NoStreamIsNone DEF McpInv, Homes
<1> QED BY <1>1, McpInvHolds, PTL

(* An answered call has left its trace, under the outcome the client was    *)
(* told unless that was an invalid id, which is filed as a success; and two *)
(* traces only where a chat raised after the gateway's own.                 *)
THEOREM EveryCallAudited == McpSpec => []CallsAudited
<1>1. McpInv => CallsAudited
  BY DEF McpInv, PostsFit, PostFits, FiledRight, CallsAudited
<1> QED BY <1>1, McpInvHolds, PTL

(* Only the lookup begins a chat. *)
LEMMA ChatBeginsWithLookUp ==
    ASSUME McpInv, [McpNext]_mcpVars, NEW p \in Posts, post[p].phase # "chat", post'[p].phase = "chat"
    PROVE  LookUp(p)
<1>1. post \in [Posts -> PostStates] /\ post' # post
  BY PostTyped
<1>2. CASE \E k \in McpKeys, d \in Posts, to \in Streams \cup {NoStream} : PostMessage(k, d, to)
  <2>1. PICK k \in McpKeys, d \in Posts, to \in Streams \cup {NoStream} : PostMessage(k, d, to)
    BY <1>2
  <2> DEFINE q == [post[d] EXCEPT !.phase = "body", !.from = Identity(k), !.to = to]
  <2>2. post' = [post EXCEPT ![d] = q]
    BY <1>1, <2>1 DEF PostMessage
  <2>3. q.phase = "body"
    BY <1>1 DEF PostStates
  <2> HIDE DEF q
  <2> QED BY <1>1, <2>2, <2>3
<1>3. CASE \E d \in Posts : ServePost(d)
  <2>1. PICK d \in Posts : ServePost(d)
    BY <1>3
  <2>2. PICK q : post' = [post EXCEPT ![d] = q]
    BY <2>1, ServePostMoves DEF PostMove
  <2>3. d = p /\ post'[p] = q /\ q.phase = "chat"
    BY <1>1, <2>2
  <2>4. ~Malformed(p)
    BY <1>1, <2>3 DEF Malformed, NoPost
  <2>5. ~EndChat(p)
    BY DEF EndChat
  <2>6. ~Put(p)
    BY <1>1, <2>3 DEF Put, PostStates
  <2>7. ASSUME NEW a \in PostStates, HandOver(p, a) PROVE FALSE
    <3> DEFINE phase == IF (a.to # NoStream /\ a.tool # "notification") /\ Len(stream[a.to].queue) >= QueueSize
                        THEN "put" ELSE "over"
               r == [a EXCEPT !.phase = phase]
    <3>1. post' = [post EXCEPT ![p] = r]
      BY <2>7 DEF HandOver
    <3>2. r.phase = phase /\ phase # "chat"
      BY DEF PostStates
    <3> HIDE DEF r
    <3> QED BY <1>1, <2>3, <3>1, <3>2
  <2>8. ~Audit(p)
    BY <2>7, PostTyped DEF Audit
  <2>9. ASSUME NEW method \in {"list", "notification"}, Handshake(p, method) PROVE FALSE
    <3>1. [post[p] EXCEPT !.tool = method, !.status = "ok"] \in PostStates
      BY PostTyped DEF PostStates
    <3> QED BY <2>7, <2>9, <3>1 DEF Handshake
  <2>10. ASSUME NEW tool \in McpTools, CallTool(p, tool) PROVE FALSE
    <3> DEFINE called == [post[p] EXCEPT !.tool = tool]
               chatting == [called EXCEPT !.phase = "row", !.missing = Missing(p)]
               answered(status) == [called EXCEPT !.phase = "audit", !.status = status]
    <3>1. \/ post' = [post EXCEPT ![p] = NoPost]
          \/ post' = [post EXCEPT ![p] = chatting]
          \/ \E status : post' = [post EXCEPT ![p] = answered(status)]
      BY <2>10 DEF CallTool
    <3>2. called \in PostStates
      BY PostTyped DEF PostStates
    <3> HIDE DEF called
    <3>3. chatting.phase = "row" /\ NoPost.phase = "idle"
      BY <3>2 DEF PostStates, NoPost
    <3>4. \A status : answered(status).phase = "audit"
      BY <3>2 DEF PostStates
    <3> HIDE DEF chatting, answered
    <3> QED BY <1>1, <2>3, <3>1, <3>3, <3>4
  <2> QED BY <2>1, <2>3, <2>4, <2>5, <2>6, <2>8, <2>9, <2>10 DEF ServePost
<1>4. CASE \E k \in McpKeys, fact \in Facts : McpKeyReturns(k, fact)
  <2>1. PICK k \in McpKeys, fact \in Facts : McpKeyReturns(k, fact)
    BY <1>4
  <2>2. post'[p] = IF post[p].from.key = k THEN [post[p] EXCEPT !.missing = @ \ {fact}] ELSE post[p]
    BY <2>1 DEF McpKeyReturns
  <2>3. post'[p].phase = post[p].phase
    BY <1>1, <2>2 DEF PostStates
  <2> QED BY <2>3
<1> QED BY <1>1, <1>2, <1>3, <1>4 DEF McpNext, mcpVars, McpKeyStops, WorkspaceGoes, OpenStream, ServeStream,
        SendEndpoint, AwaitAnswer, Deliver, TimeOut, Leave, McpTick

(* No chat begins for a key that has lacked its row, its owner, its         *)
(* membership or its workspace ever since the call was let in, nor without  *)
(* the scope, whatever comes and goes between the reads of the lookup.      *)
THEOREM ChatsForCurrentKeys == McpSpec => NoChatForStaleKey
<1>1. ASSUME McpInv, [McpNext]_mcpVars, NEW p \in Posts, post[p].phase # "chat", post'[p].phase = "chat"
      PROVE  /\ post[p].missing = {}
             /\ "chat" \in Scopes[post[p].from.key] /\ "chat" \notin Poisoned
  BY <1>1, ChatBeginsWithLookUp, LookUpMoves
<1>2. McpInv /\ [McpNext]_mcpVars =>
         [\A p \in Posts :
             post[p].phase # "chat" /\ post'[p].phase = "chat" =>
                 /\ post[p].missing = {}
                 /\ "chat" \in Scopes[post[p].from.key] /\ "chat" \notin Poisoned]_mcpVars
  BY <1>1
<1> QED BY <1>2, McpInvHolds, PTL DEF McpSpec, NoChatForStaleKey

-------------------------------------------------------------------------------
(* All of MCAdmission.  Its instances of the guards and of the MCP server   *)
(* name a text and the first key, stream and message; where those exist,    *)
(* a behaviour of it is one of every part, which either takes a step of its *)
(* own or is left as it is.                                                 *)
LEMMA GuardedSteps == ASSUME {"env"} \in Texts, Guarded PROVE GuardsNext
<1>1. CASE focus = "sidecar"
  <2>1. ASSUME NEW rego \in Regos \cup {NoRego}, UpdatePolicy(DefaultRules, rego) PROVE GuardsNext
    BY <2>1, RulesAssumption DEF GuardsNext, Administer
  <2>2. ASSUME NEW c \in Calls, Receive(c, "chat", {"env"}, {}) PROVE GuardsNext
    <3>1. "chat" \in Routes /\ {} \in SUBSET Faults
      BY DEF Routes
    <3> QED BY <2>2, <3>1 DEF GuardsNext, Serve
  <2> QED BY <1>1, <2>1, <2>2 DEF Guarded, GuardsNext, Serve
<1>2. CASE focus # "sidecar"
  BY <1>2 DEF Guarded, GuardsNext
<1> QED BY <1>1, <1>2

LEMMA HostedSteps == ASSUME 1 \in McpKeys, 1 \in Streams, 1 \in Posts, Hosted PROVE McpNext
<1>1. ASSUME NEW ks \in SUBSET McpKeys, NEW ss \in SUBSET Streams, Transported(ks, ss) PROVE McpNext
  BY <1>1 DEF Transported, McpNext, ServePost, Facts
<1>2. {1} \in SUBSET McpKeys /\ {1} \in SUBSET Streams
      /\ McpKeys \in SUBSET McpKeys /\ Streams \in SUBSET Streams
  OBVIOUS
<1>3. ASSUME NEW p \in Posts, NEW method \in {"list", "notification"}, Handshake(p, method) PROVE McpNext
  BY <1>3 DEF McpNext, ServePost
<1>4. ASSUME ServePost(1) PROVE McpNext
  BY <1>4 DEF McpNext
<1>5. ASSUME NEW fact \in Facts, McpKeyStops(1, fact) \/ McpKeyReturns(1, fact) PROVE McpNext
  BY <1>5 DEF McpNext
<1> QED BY <1>1, <1>2, <1>3, <1>4, <1>5 DEF Hosted

LEMMA AdmissionImplements ==
    ASSUME {"env"} \in Texts, 1 \in McpKeys, 1 \in Streams, 1 \in Posts
    PROVE  AdmissionSpec => GateSpec /\ LimitsSpec /\ KeysSpec /\ GuardsSpec /\ McpSpec
<1>1. AdmissionInit => GateInit /\ LimitsInit /\ KeysInit /\ GuardsInit /\ McpInit
  BY DEF AdmissionInit
<1>2. [AdmissionNext]_focusVars =>
          /\ [GateNext]_gateVars /\ [LimitsNext]_limitVars /\ [KeysNext]_keyVars
          /\ [GuardsNext]_guardVars /\ [McpNext]_mcpVars
  <2>1. AdmissionNext =>
            \/ GateNext /\ UNCHANGED <<limitVars, keyVars, guardVars, mcpVars>>
            \/ LimitsNext /\ UNCHANGED <<gateVars, keyVars, guardVars, mcpVars>>
            \/ KeysNext /\ UNCHANGED <<gateVars, limitVars, guardVars, mcpVars>>
            \/ GuardsNext /\ UNCHANGED <<gateVars, limitVars, keyVars, mcpVars>>
            \/ McpNext /\ UNCHANGED <<gateVars, limitVars, keyVars, guardVars>>
    BY GuardedSteps, HostedSteps DEF AdmissionNext
  <2>2. UNCHANGED focusVars => UNCHANGED <<gateVars, limitVars, keyVars, guardVars, mcpVars>>
    BY DEF focusVars
  <2> QED BY <2>1, <2>2
<1> QED BY <1>1, <1>2, PTL DEF AdmissionSpec, GateSpec, LimitsSpec, KeysSpec, GuardsSpec, McpSpec

(* Every variable of the gate of addresses, the sliding windows, the keys,  *)
(* the guards and the MCP server has its type.                              *)
THEOREM AdmissionTypesCorrect ==
    ASSUME {"env"} \in Texts, 1 \in McpKeys, 1 \in Streams, 1 \in Posts
    PROVE  AdmissionSpec => []AdmissionTypeOK
<1>1. GateInv => GateTypeOK
  BY DEF GateInv
<1>2. GateSpec /\ LimitsSpec /\ KeysSpec /\ GuardsSpec /\ McpSpec =>
          []GateTypeOK /\ []LimitsTypeOK /\ []KeysTypeOK /\ []GuardsTypeOK /\ []McpTypeOK
  BY <1>1, GateInvHolds, LimitsTypesCorrect, KeysTypesCorrect, GuardsTypesCorrect, McpTypesCorrect, PTL
<1> QED BY <1>2, AdmissionImplements, PTL DEF AdmissionTypeOK

===============================================================================
