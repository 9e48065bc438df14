------------------------------ MODULE LlmFailover -----------------------------
(***************************************************************************)
(* call_llm and stream_llm of app/services/llm/__init__.py: concurrent     *)
(* requests walk a chain of backends, each guarded by its CircuitBreaker.  *)
(*                                                                         *)
(* The gateway is one asyncio event loop.  A request gives way only where  *)
(* it awaits the adapter (or yields a chunk); everything between two       *)
(* awaits is one action here, so the failure of one candidate and the      *)
(* before_call of the next are a single step.                              *)
(***************************************************************************)
EXTENDS CircuitBreaker

CONSTANTS Requests,    \* request slots; a slot serves one request at a time
          Backends,    \* the keys of _ADAPTERS
          Routes,      \* sequences of backend names: the primary, then the
                       \* policy's fallbacks, then LLM_FAILOVER_BACKENDS
          Kinds,       \* subset of {"complete", "stream"}
          Upsets,      \* ways a call ends that is_failure rejects: "error" a
                       \* 4xx, a refused connection or a bad configuration,
                       \* "cancel" the client went away
          PrivateMode  \* settings.PRIVATE_MODE

ASSUME KindsAssumption == Kinds \subseteq {"complete", "stream"}
ASSUME UpsetsAssumption == Upsets \subseteq {"error", "cancel"}
ASSUME RoutesAssumption ==
    \A route \in Routes :
        /\ DOMAIN route = 1..Len(route)
        /\ Len(route) \in Nat \ {0}
        /\ route[1] \in Backends

VARIABLES breaker,     \* _breakers: backend -> breaker
          call,        \* request -> where it is in its loop over the chain
          \* history, read by properties only
          probes,      \* backend -> calls admitted in this half-open period
          burst        \* backend -> ages of its last Threshold failures

vars == <<breaker, call, probes, burst>>

Phases == {"idle", "waiting", "streaming"}
Outcomes == {"none", "ok", "failed", "rejected", "raised"}

(* failed and sent are history: the backends that failed this request and  *)
(* those whose output it received.                                         *)
Calls == [phase : Phases, kind : {"complete", "stream"},
          route : Routes \cup {<<>>}, at : Nat, outcome : Outcomes,
          probing : BOOLEAN, failed : SUBSET Backends, sent : SUBSET Backends]

NoCall == [phase |-> "idle", kind |-> "complete", route |-> <<>>, at |-> 0,
           outcome |-> "none", probing |-> FALSE, failed |-> {}, sent |-> {}]

(* _candidate_chain: positions of the route that name a known backend not  *)
(* named before.  A private deployment never leaves the primary.           *)
Candidates(route) ==
    IF PrivateMode THEN {1}
    ELSE {i \in DOMAIN route : /\ route[i] \in Backends
                               /\ \A j \in 1..(i - 1) : route[j] # route[i]}

Later(route, i) == {j \in Candidates(route) : j > i}

(* The position the loop turns to after i: at most one. *)
Following(route, i) ==
    {j \in Later(route, i) : \A k \in Later(route, i) : j <= k}

InFlight(r) == call[r].phase # "idle"
Backend(r) == call[r].route[call[r].at]

TypeOK ==
    /\ breaker \in [Backends -> Breakers]
    /\ call \in [Requests -> Calls]
    /\ probes \in [Backends -> Nat]
    /\ burst \in [Backends -> [1..Threshold -> 0..Window]]

Init ==
    /\ breaker = [b \in Backends |-> FreshBreaker]
    /\ call = [r \in Requests |-> NoCall]
    /\ probes = [b \in Backends |-> 0]
    /\ burst = [b \in Backends |-> [i \in 1..Threshold |-> Window]]

-------------------------------------------------------------------------------
(* History. *)

(* Counts the calls admitted to a backend since it became half-open; "admitted" *)
(* is the set of backends this step admits a call to.                           *)
CountProbes(admitted) ==
    probes' = [b \in Backends |->
        IF breaker'[b].state # "half_open" THEN 0
        ELSE (IF breaker[b].state = "half_open" THEN probes[b] ELSE 0)
             + (IF b \in admitted THEN 1 ELSE 0)]

RecordFailure(b) ==
    burst' = [burst EXCEPT ![b] =
        [i \in 1..Threshold |-> IF i = Threshold THEN 0 ELSE @[i + 1]]]

-------------------------------------------------------------------------------
(* The loop body up to the adapter's await: breaker_before on candidate i  *)
(* of c's route, given the breakers as the loop has left them.  An open    *)
(* breaker raises out of the loop.                                         *)
TryCandidate(r, c, i, brs) ==
    LET b == c.route[i]
        admitted == Admits(brs[b])
    IN  /\ breaker' = [brs EXCEPT ![b] = BeforeCall(@)]
        /\ call' = [call EXCEPT ![r] =
               [c EXCEPT !.at = i,
                         !.phase = IF admitted THEN "waiting" ELSE "idle",
                         !.outcome = IF admitted THEN "none" ELSE "rejected",
                         !.probing = admitted /\ BeforeCall(brs[b]).probe]]
        /\ CountProbes(IF admitted THEN {b} ELSE {})

(* call_llm or stream_llm begins: resolve_adapter, _candidate_chain and    *)
(* the first candidate.                                                    *)
StartCall(r, kind, route) ==
    /\ ~InFlight(r)
    /\ TryCandidate(r, [NoCall EXCEPT !.kind = kind, !.route = route], 1, breaker)
    /\ UNCHANGED burst

(* The request leaves the loop with an outcome. *)
Finish(r, c, outcome) ==
    call' = [call EXCEPT ![r] = [c EXCEPT !.phase = "idle", !.outcome = outcome,
                                          !.probing = FALSE]]

(* The adapter answers: complete returns, or the stream is exhausted. *)
CallSucceeds(r) ==
    LET b == Backend(r)
    IN  /\ InFlight(r)
        /\ breaker' = [breaker EXCEPT ![b] = OnSuccess(@)]
        /\ Finish(r, [call[r] EXCEPT !.sent = @ \cup {b}], "ok")
        /\ CountProbes({})
        /\ UNCHANGED burst

(* A stream yields its first chunk: from here on it cannot fail over. *)
FirstChunk(r) ==
    /\ call[r].phase = "waiting"
    /\ call[r].kind = "stream"
    /\ call' = [call EXCEPT ![r].phase = "streaming",
                            ![r].sent = @ \cup {Backend(r)}]
    /\ UNCHANGED <<breaker, probes, burst>>

(* Mutant of CallFails: fails over in the middle of a stream. *)
CallFailsMidStream(r) ==
    LET b == Backend(r)
        brs == [breaker EXCEPT ![b] = OnFailure(@)]
        c == [call[r] EXCEPT !.failed = @ \cup {b}]
    IN  /\ InFlight(r)
        /\ RecordFailure(b)
        /\ \/ \E j \in Following(c.route, c.at) : TryCandidate(r, c, j, brs)
           \/ /\ Later(c.route, c.at) = {}
              /\ breaker' = brs
              /\ Finish(r, c, "failed")
              /\ CountProbes({})

(* A timeout or a 5xx: the breaker counts it, and a call that has sent     *)
(* nothing tries the next candidate; at the end of the chain, or in the    *)
(* middle of a stream, the exception goes to the caller.                   *)
CallFails(r) ==
    LET b == Backend(r)
        brs == [breaker EXCEPT ![b] = OnFailure(@)]
        c == [call[r] EXCEPT !.failed = @ \cup {b}]
    IN  /\ InFlight(r)
        /\ RecordFailure(b)
        /\ \/ /\ c.phase = "waiting"
              /\ \E j \in Following(c.route, c.at) : TryCandidate(r, c, j, brs)
           \/ /\ c.phase = "streaming" \/ Later(c.route, c.at) = {}
              /\ breaker' = brs
              /\ Finish(r, c, "failed")
              /\ CountProbes({})

(* Any other end of the call: an exception is_failure does not count, or   *)
(* the cancellation of the request.  The breaker is told nothing.          *)
CallUpset(r, upset) ==
    /\ InFlight(r)
    /\ upset \in Upsets
    /\ Finish(r, call[r], "raised")
    /\ UNCHANGED <<breaker, probes, burst>>

(* GET /health/breakers reads every breaker's state property. *)
ReadHealth ==
    /\ breaker' = [b \in Backends |-> Observed(breaker[b])]
    /\ CountProbes({})
    /\ UNCHANGED <<call, burst>>

(* reset_breaker, the operator's tool. *)
ResetBreaker(b) ==
    /\ breaker' = [breaker EXCEPT ![b] = FreshBreaker]
    /\ CountProbes({})
    /\ UNCHANGED <<call, burst>>

Tick ==
    /\ breaker' = [b \in Backends |-> Aged(breaker[b])]
    /\ burst' = [b \in Backends |->
                    [i \in 1..Threshold |-> Older(burst[b][i], Window)]]
    /\ UNCHANGED <<call, probes>>

Next ==
    \/ \E r \in Requests, kind \in Kinds, route \in Routes : StartCall(r, kind, route)
    \/ \E r \in Requests : CallSucceeds(r) \/ FirstChunk(r) \/ CallFails(r)
    \/ \E r \in Requests, upset \in Upsets : CallUpset(r, upset)
    \/ ReadHealth
    \/ \E b \in Backends : ResetBreaker(b)
    \/ Tick

Spec == Init /\ [][Next]_vars

(* The client's 120 s timeout ends every call, requests keep arriving and  *)
(* the clock runs.  How a call ends is not up to the gateway.              *)
EndCall(r) ==
    CallSucceeds(r) \/ CallFails(r) \/ \E upset \in Upsets : CallUpset(r, upset)

Arrive(r) == \E kind \in Kinds, route \in Routes : StartCall(r, kind, route)

FairSpec ==
    /\ Spec
    /\ WF_vars(Tick)
    /\ \A r \in Requests : WF_vars(EndCall(r)) /\ WF_vars(Arrive(r))

-------------------------------------------------------------------------------
(* Safety. *)

(* "After the cooldown, a single probe call is allowed": however calls     *)
(* interleave, no half-open period admits a second call (before_call and   *)
(* the _probe_in_flight flag).                                             *)
OneProbePerHalfOpen == \A b \in Backends : probes[b] <= 1

(* The failure list never reaches the threshold between two steps, so a    *)
(* closed breaker is never one that should have tripped, and an open one   *)
(* collects the late failures of older calls without growing.              *)
FailuresBelowThreshold ==
    \A b \in Backends : Len(breaker[b].failures) < Threshold

(* A caller is told that every candidate failed only when every candidate  *)
(* of its chain was called and failed; or its stream had begun.            *)
FailedOnlyAfterAll ==
    \A r \in Requests :
        call[r].outcome = "failed" /\ call[r].sent = {} =>
            \A i \in Candidates(call[r].route) : call[r].route[i] \in call[r].failed

(* stream_llm never duplicates tokens: one request's output comes from one *)
(* backend, whatever fails in the middle.                                  *)
OneSource ==
    \A r \in Requests : \A a, b \in call[r].sent : a = b

(* Failing over is complete and invisible: a caller sees an error only     *)
(* when the whole chain is down, and never text of two backends.           *)
FailoverSound == FailedOnlyAfterAll /\ OneSource

(* A closed breaker opens only after Threshold breaker-worthy failures of  *)
(* that very backend, all inside the window: no other backend's failures   *)
(* and no client error can take it offline.                                *)
TripsOnBurst ==
    [][\A b \in Backends :
          breaker[b].state = "closed" /\ breaker'[b].state = "open" =>
              \A i \in 1..Threshold : burst'[b][i] < Window]_vars

-------------------------------------------------------------------------------
(* Liveness. *)

(* A probe in flight resolves the half-open state: success recloses the    *)
(* breaker, failure reopens it.                                            *)
ProbeResolves ==
    \A b \in Backends :
        (breaker[b].state = "half_open" /\ breaker[b].probe)
            ~> (breaker[b].state # "half_open")

===============================================================================
