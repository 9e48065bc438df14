------------------------------ MODULE AddressGate ------------------------------
(***************************************************************************)
(* AbuseProtectionMiddleware of app/middleware/abuse_protection.py: what   *)
(* stands between an address and /chat.  A visit is delayed if its address *)
(* has been refused before (the tarpit), refused if the address asked less *)
(* than _MIN_GAP_S ago or has a request in flight, and else let in.        *)
(*                                                                         *)
(* Without Redis the state is three dictionaries of the one worker and     *)
(* nothing awaits between the gap and the counter: one step.  With Redis   *)
(* the workers share it and every command is a step of its own.            *)
(***************************************************************************)
EXTENDS Integers, FiniteSets

CONSTANTS Visits,        \* request slots; a slot serves one visit at a time
          Addresses,     \* client addresses
          MinGap,        \* _MIN_GAP_S, in ticks
          Lifetime,      \* _INFLIGHT_TTL_S, in ticks
          MaxViolations, \* where the doubling delay reaches _TARPIT_MAX_S
          MaxCount       \* bound of the model: lost refusals leave the shared
                         \* counter higher and higher, up to here

ASSUME AddressesAssumption == Addresses # {}
ASSUME MinGapAssumption == MinGap \in Nat \ {0}
ASSUME LifetimeAssumption == Lifetime \in Nat \ {0}
ASSUME MaxViolationsAssumption == MaxViolations \in Nat \ {0}
ASSUME MaxCountAssumption == MaxCount \in Nat \ {0}

VARIABLES store,       \* "redis" if RATE_LIMIT_REDIS_URL is set, else "memory"
          lastSeen,    \* _last_request, abuse:last: age of the last accepted gap
          inFlight,    \* _in_flight, abuse:inflight: the counter of an address
          violations,  \* _violations, abuse:violations
          visit,       \* slot -> where the visit stands in dispatch
          orphaned     \* history: addresses whose counter lost its EXPIRE

gateVars == <<store, lastSeen, inFlight, violations, visit, orphaned>>

(* A counter and the ticks it has to live: none when it is absent, one more *)
(* than Lifetime when nothing makes it expire.                              *)
Forever == Lifetime + 1
Counters == [n : Int, left : 0..Forever]
NoCounter == [n |-> 0, left |-> 0]

(* The next await of a visit.  "asked" is the age of its clock reading.     *)
VisitPhases == {"idle", "tarpit", "gap", "mark", "count", "uncount", "arm",
                "punish", "inside", "clear"}
GateVisits == [phase : VisitPhases, addr : Addresses, asked : 0..MinGap]
NoVisit == [phase |-> "idle", addr |-> CHOOSE a \in Addresses : TRUE, asked |-> 0]

GateTypeOK ==
    /\ store \in {"memory", "redis"}
    /\ lastSeen \in [Addresses -> 0..MinGap]
    /\ inFlight \in [Addresses -> Counters]
    /\ violations \in [Addresses -> 0..MaxViolations]
    /\ visit \in [Visits -> GateVisits]
    /\ orphaned \subseteq Addresses

GateInit ==
    /\ store \in {"memory", "redis"}
    /\ lastSeen = [a \in Addresses |-> MinGap]
    /\ inFlight = [a \in Addresses |-> NoCounter]
    /\ violations = [a \in Addresses |-> 0]
    /\ visit = [v \in Visits |-> NoVisit]
    /\ orphaned = {}

-------------------------------------------------------------------------------
(* Redis commands on the counter; the memory branch is the same arithmetic *)
(* on a key that never expires.                                            *)
Incremented(c) ==
    IF c.left = 0 THEN [n |-> 1, left |-> Forever] ELSE [c EXCEPT !.n = @ + 1]

Decremented(c) ==
    IF c.left = 0 THEN [n |-> -1, left |-> Forever] ELSE [c EXCEPT !.n = @ - 1]

(* Mutant of Expiring: only a fresh counter is given a lifetime. *)
ExpiringOnce(c) == IF c.left = Forever /\ c.n = 0 THEN [c EXCEPT !.left = Lifetime] ELSE c

Expiring(c) == IF c.left = 0 THEN c ELSE [c EXCEPT !.left = Lifetime]

(* _end_inflight drops a counter that is back at zero. *)
Dropped(c) == IF c.n <= 0 THEN NoCounter ELSE c

Punished(count) == IF count < MaxViolations THEN count + 1 ELSE count

TooSoon(a) == lastSeen[a] < MinGap

Step(v, phase) == visit' = [visit EXCEPT ![v].phase = phase]

-------------------------------------------------------------------------------
(* Mutant of EnterMemory: the finally of dispatch covers refusals too. *)
EnterMemoryReleasing(v, a, known) ==
    LET refused == TooSoon(a) \/ inFlight[a].n > 0
    IN  /\ lastSeen' = IF TooSoon(a) THEN lastSeen ELSE [lastSeen EXCEPT ![a] = 0]
        /\ inFlight' = [inFlight EXCEPT ![a] = IF refused THEN Dropped(Decremented(@)) ELSE Incremented(@)]
        /\ violations' = IF refused THEN [known EXCEPT ![a] = Punished(@)] ELSE known
        /\ visit' = [visit EXCEPT ![v].phase = IF refused THEN "idle" ELSE "inside", ![v].addr = a]

(* Steps 3 and 4 of dispatch in memory.  The gap is noted before the       *)
(* counter is looked at, so a visit refused for the other in flight has    *)
(* still moved the clock of its address.                                   *)
EnterMemory(v, a, known) ==
    LET busy == inFlight[a].n > 0
        refused == TooSoon(a) \/ busy
    IN  /\ lastSeen' = IF TooSoon(a) THEN lastSeen ELSE [lastSeen EXCEPT ![a] = 0]
        /\ inFlight' = IF refused THEN inFlight
                       ELSE [inFlight EXCEPT ![a] = Incremented(@)]
        /\ violations' = IF refused THEN [known EXCEPT ![a] = Punished(@)] ELSE known
        /\ visit' = [visit EXCEPT ![v].phase = IF refused THEN "idle" ELSE "inside",
                                  ![v].addr = a]

(* A request arrives, and the tarpit reads how often its address was       *)
(* refused.  In memory the hourly reset, if it is due, clears everybody's  *)
(* count first.  (Crawlers are turned away before this, and other paths    *)
(* pass by: neither leaves a trace.)                                       *)
Arrive(v, a, hour) ==
    LET known == IF hour /\ store = "memory" THEN [b \in Addresses |-> 0] ELSE violations
    IN  /\ visit[v].phase = "idle"
        /\ hour => store = "memory"
        /\ \/ /\ known[a] > 0
              /\ visit' = [visit EXCEPT ![v].phase = "tarpit", ![v].addr = a]
              /\ violations' = known
              /\ UNCHANGED <<lastSeen, inFlight>>
           \/ /\ known[a] = 0
              /\ store = "memory"
              /\ EnterMemory(v, a, known)
           \/ /\ known[a] = 0
              /\ store = "redis"
              /\ visit' = [visit EXCEPT ![v] = [phase |-> "gap", addr |-> a, asked |-> 0]]
              /\ UNCHANGED <<lastSeen, inFlight, violations>>
        /\ UNCHANGED <<store, orphaned>>

(* The tarpit's sleep is over: it delays, it does not refuse. *)
Wake(v) ==
    /\ visit[v].phase = "tarpit"
    /\ \/ /\ store = "memory"
          /\ EnterMemory(v, visit[v].addr, violations)
       \/ /\ store = "redis"
          /\ visit' = [visit EXCEPT ![v].phase = "gap", ![v].asked = 0]
          /\ UNCHANGED <<lastSeen, inFlight, violations>>
    /\ UNCHANGED <<store, orphaned>>

(* _check_gap: GET, and unless that is too recent SET to the time read     *)
(* before the GET.                                                         *)
ReadGap(v) ==
    /\ visit[v].phase = "gap"
    /\ Step(v, IF TooSoon(visit[v].addr) THEN "punish" ELSE "mark")
    /\ UNCHANGED <<store, lastSeen, inFlight, violations, orphaned>>

MarkGap(v) ==
    /\ visit[v].phase = "mark"
    /\ lastSeen' = [lastSeen EXCEPT ![visit[v].addr] = visit[v].asked]
    /\ Step(v, "count")
    /\ UNCHANGED <<store, inFlight, violations, orphaned>>

(* _begin_inflight: INCR, then DECR and a refusal, or EXPIRE. *)
Count(v) ==
    LET counted == Incremented(inFlight[visit[v].addr])
    IN  /\ visit[v].phase = "count"
        /\ counted.n <= MaxCount
        /\ inFlight' = [inFlight EXCEPT ![visit[v].addr] = counted]
        /\ Step(v, IF counted.n > 1 THEN "uncount" ELSE "arm")
        /\ UNCHANGED <<store, lastSeen, violations, orphaned>>

Uncount(v) ==
    /\ visit[v].phase = "uncount"
    /\ inFlight' = [inFlight EXCEPT ![visit[v].addr] = Decremented(@)]
    /\ Step(v, "punish")
    /\ UNCHANGED <<store, lastSeen, violations, orphaned>>

Arm(v) ==
    /\ visit[v].phase = "arm"
    /\ inFlight' = [inFlight EXCEPT ![visit[v].addr] = Expiring(@)]
    /\ Step(v, "inside")
    /\ UNCHANGED <<store, lastSeen, violations, orphaned>>

(* _record_violation and the 429. *)
Punish(v) ==
    /\ visit[v].phase = "punish"
    /\ violations' = [violations EXCEPT ![visit[v].addr] = Punished(@)]
    /\ Step(v, "idle")
    /\ UNCHANGED <<store, lastSeen, inFlight, orphaned>>

(* call_next has returned the head of the response, or raised: the finally *)
(* runs _end_inflight.  With Redis that is DECR, and DEL once the result   *)
(* is not positive.                                                        *)
Respond(v) ==
    /\ visit[v].phase = "inside"
    /\ \/ /\ store = "memory"
          /\ inFlight' = [inFlight EXCEPT ![visit[v].addr] = Dropped(Decremented(@))]
          /\ Step(v, "idle")
       \/ /\ store = "redis"
          /\ inFlight' = [inFlight EXCEPT ![visit[v].addr] = Decremented(@)]
          /\ Step(v, IF inFlight'[visit[v].addr].n <= 0 THEN "clear" ELSE "idle")
    /\ UNCHANGED <<store, lastSeen, violations, orphaned>>

Clear(v) ==
    /\ visit[v].phase = "clear"
    /\ inFlight' = [inFlight EXCEPT ![visit[v].addr] = NoCounter]
    /\ Step(v, "idle")
    /\ UNCHANGED <<store, lastSeen, violations, orphaned>>

(* A Redis command raises, or the visit's worker dies: the visit is over   *)
(* and nothing is undone.                                                  *)
Lose(v) ==
    /\ store = "redis"
    /\ visit[v].phase # "idle"
    /\ Step(v, "idle")
    /\ orphaned' = IF visit[v].phase = "arm" THEN orphaned \cup {visit[v].addr} ELSE orphaned
    /\ UNCHANGED <<store, lastSeen, inFlight, violations>>

(* close_abuse_protection, or the end of the process: memory is empty, and *)
(* every visit of the one worker is gone with it.                          *)
Restart ==
    /\ store = "memory"
    /\ lastSeen' = [a \in Addresses |-> MinGap]
    /\ inFlight' = [a \in Addresses |-> NoCounter]
    /\ violations' = [a \in Addresses |-> 0]
    /\ visit' = [v \in Visits |-> [visit[v] EXCEPT !.phase = "idle"]]
    /\ UNCHANGED <<store, orphaned>>

(* abuse:violations of an address reaches its hour. *)
Forgive(a) ==
    /\ store = "redis"
    /\ violations' = [violations EXCEPT ![a] = 0]
    /\ UNCHANGED <<store, lastSeen, inFlight, visit, orphaned>>

Capped(age) == IF age < MinGap THEN age + 1 ELSE age

Lived(c) ==
    IF c.left \in {0, Forever} THEN c
    ELSE IF c.left = 1 THEN NoCounter ELSE [c EXCEPT !.left = @ - 1]

GateTick ==
    /\ lastSeen' = [a \in Addresses |-> Capped(lastSeen[a])]
    /\ inFlight' = [a \in Addresses |-> Lived(inFlight[a])]
    /\ visit' = [v \in Visits |->
                    IF visit[v].phase \in {"gap", "mark"}
                    THEN [visit[v] EXCEPT !.asked = Capped(@)] ELSE visit[v]]
    /\ UNCHANGED <<store, violations, orphaned>>

GateNext ==
    \/ \E v \in Visits, a \in Addresses, hour \in BOOLEAN : Arrive(v, a, hour)
    \/ \E v \in Visits :
          \/ Wake(v) \/ ReadGap(v) \/ MarkGap(v) \/ Count(v) \/ Uncount(v) \/ Arm(v)
          \/ Punish(v) \/ Respond(v) \/ Clear(v) \/ Lose(v)
    \/ Restart
    \/ \E a \in Addresses : Forgive(a)
    \/ GateTick

GateSpec == GateInit /\ [][GateNext]_gateVars

-------------------------------------------------------------------------------
Inside(a) == {v \in Visits : visit[v].addr = a /\ visit[v].phase = "inside"}
Absent(a) == \A v \in Visits : visit[v].addr = a => visit[v].phase = "idle"

(* "Limits concurrent in-flight requests per IP": within one worker, never *)
(* two requests of an address behind the gate, across refusals, failures   *)
(* of the handler, the tarpit's sleep and restarts (_begin_inflight and    *)
(* the finally of dispatch).                                               *)
OneInFlight ==
    store = "memory" => \A a \in Addresses : Cardinality(Inside(a)) <= 1

(* An address nobody serves is not locked out for good: its counter is at  *)
(* zero or runs out by itself, however the increments, decrements and      *)
(* deletions of several workers interleave and wherever their counter      *)
(* expires.  The exception is what INCR without its EXPIRE leaves behind.  *)
NoLockout ==
    \A a \in Addresses :
        Absent(a) /\ a \notin orphaned =>
            inFlight[a].n <= 0 \/ inFlight[a].left # Forever

(* The gate as a whole: it never holds two requests of an address, and it   *)
(* never keeps an address out that nobody serves.                           *)
GateSound == OneInFlight /\ NoLockout
===============================================================================
