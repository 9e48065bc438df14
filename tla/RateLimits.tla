------------------------------- MODULE RateLimits ------------------------------
(***************************************************************************)
(* The sliding windows of app/middleware/rate_limit_middleware.py (per     *)
(* address) and app/middleware/rate_limit.py (per key, per user and, in    *)
(* demo mode, again per key and per address), in memory and in Redis.      *)
(*                                                                         *)
(* A request asks one bucket after the other and is refused by the first   *)
(* that is full; what the buckets before it have counted stays counted.    *)
(* One bucket's prune, count and record never give way to another request  *)
(* (a coroutine without an await, or a Lua script), so each is one step.   *)
(***************************************************************************)
EXTENDS Integers, Sequences, FiniteSets

CONSTANTS Asks,       \* request slots
          Buckets,    \* names of windows
          Coarse,     \* buckets of the middleware: a minute's window only, and
                      \* a refusal is not counted in either store
          Chains,     \* sequences of buckets a request may have to pass, at
                      \* least one
          PerMinute,  \* bucket -> requests a minute
          PerDay,     \* bucket -> requests a day
          Minute,     \* the minute's window, in ticks
          Day,        \* the day's window, in ticks
          MaxHits     \* bound of the model: requests counted in one window

ASSUME CoarseAssumption == Coarse \subseteq Buckets
ASSUME LimitsAssumption == /\ PerMinute \in [Buckets -> Nat \ {0}]
                           /\ PerDay \in [Buckets -> Nat \ {0}]
ASSUME SpansAssumption == Minute \in Nat \ {0} /\ Day \in Nat /\ Minute < Day
ASSUME ChainsAssumption == Chains \subseteq Seq(Buckets) \ {<<>>}

VARIABLES backend,    \* "redis" or "memory"
          hits,       \* bucket -> ages of the requests counted, oldest first
          ask,        \* request -> the buckets it still has to pass
          \* history, read by properties only
          admitted,   \* bucket -> ages of the instants at which it let pass
          quiet,      \* bucket -> ticks since it was last asked
          told        \* bucket -> wait its last answer announced, 0 if it let in

limitVars == <<backend, hits, ask, admitted, quiet, told>>

Ages == 0..Day
NoAsk == [phase |-> "idle", rest |-> <<>>]

LimitsTypeOK ==
    /\ backend \in {"memory", "redis"}
    /\ hits \in [Buckets -> Seq(Ages)]
    /\ ask \in [Asks -> {NoAsk} \cup [phase : {"asking"}, rest : Seq(Buckets) \ {<<>>}]]
    /\ admitted \in [Buckets -> Seq(Ages)]
    /\ quiet \in [Buckets -> 0..(Day + 1)]
    /\ told \in [Buckets -> {0, Minute, Day}]

LimitsInit ==
    /\ backend \in {"memory", "redis"}
    /\ hits = [b \in Buckets |-> <<>>]
    /\ ask = [r \in Asks |-> NoAsk]
    /\ admitted = [b \in Buckets |-> <<>>]
    /\ quiet = [b \in Buckets |-> Day + 1]
    /\ told = [b \in Buckets |-> 0]

-------------------------------------------------------------------------------
(* Mutant of Within: the shared window keeps everything it has seen. *)
WithinAlways(age, span) == IF backend = "memory" THEN age <= span ELSE age <= Day

(* What is still in a window: the deques drop what is older than the span, *)
(* ZREMRANGEBYSCORE also what is exactly as old.                           *)
Within(age, span) == IF backend = "memory" THEN age <= span ELSE age < span

Counted(b, span) == Cardinality({i \in DOMAIN hits[b] : Within(hits[b][i], span)})

(* Mutant of Full: one request too many. *)
FullBeyond(b) ==
    \/ Counted(b, Minute) > PerMinute[b]
    \/ b \notin Coarse /\ Counted(b, Day) > PerDay[b]

(* _raise_if_limited, and the count of the middleware. *)
Full(b) ==
    \/ Counted(b, Minute) >= PerMinute[b]
    \/ b \notin Coarse /\ Counted(b, Day) >= PerDay[b]

(* The longest span a bucket's window has; older hits have been dropped. *)
Span(b) == IF b \in Coarse THEN Minute ELSE Day

(* The deques lose their first entries, the sorted sets their lowest       *)
(* scores: with the oldest in front, what leaves is a prefix.              *)
Outdated(b) == {i \in DOMAIN hits[b] : ~Within(hits[b][i], Span(b))}
Recent(b) == SubSeq(hits[b], Cardinality(Outdated(b)) + 1, Len(hits[b]))

(* The script of rate_limit.py adds the request before anybody compares,   *)
(* the deques and the middleware's script only one that passes.            *)
Counts(b) == Full(b) => backend = "redis" /\ b \notin Coarse

StartAsk(r, chain) ==
    /\ ask[r].phase = "idle"
    /\ ask' = [ask EXCEPT ![r] = [phase |-> "asking", rest |-> chain]]
    /\ UNCHANGED <<backend, hits, admitted, quiet, told>>

(* Mutant of RetryAfter: every refusal announces the minute's wait. *)
RetryAfterMinute(b) == IF b \in Buckets THEN Minute ELSE Day

(* The wait a full bucket announces: the minute's, if that is used up,     *)
(* whether the day is used up as well or not.                              *)
RetryAfter(b) == IF Counted(b, Minute) >= PerMinute[b] THEN Minute ELSE Day

(* rate_limit.py names a request in Redis after the time it came, so that  *)
(* one that comes at the very instant of another takes the other's place.  *)
Simultaneous(b) ==
    backend = "redis" /\ b \notin Coarse /\ \E i \in DOMAIN Recent(b) : Recent(b)[i] = 0

(* _check_memory, _check_redis, _check_memory_rate_limit and               *)
(* _check_redis_rate_limit: the next bucket of the request.                *)
Check(r) ==
    LET b == Head(ask[r].rest)
        rest == Tail(ask[r].rest)
    IN  /\ ask[r].phase = "asking"
        /\ Len(Recent(b)) < MaxHits
        /\ \E twin \in BOOLEAN :
              /\ twin => Simultaneous(b)
              /\ hits' = [hits EXCEPT ![b] = IF Counts(b) /\ ~twin THEN Append(Recent(b), 0)
                                             ELSE Recent(b)]
              /\ admitted' = IF Full(b) \/ twin THEN admitted
                             ELSE [admitted EXCEPT ![b] = Append(@, 0)]
        /\ quiet' = [quiet EXCEPT ![b] = 0]
        /\ told' = [told EXCEPT ![b] = IF Full(b) THEN RetryAfter(b) ELSE 0]
        /\ ask' = [ask EXCEPT ![r] = IF Full(b) \/ rest = <<>> THEN NoAsk
                                     ELSE [@ EXCEPT !.rest = rest]]
        /\ UNCHANGED backend

(* No window looks back further than a day. *)
Aging(ages) ==
    LET last == {i \in DOMAIN ages : ages[i] = Day}
        kept == SubSeq(ages, Cardinality(last) + 1, Len(ages))
    IN  [i \in DOMAIN kept |-> kept[i] + 1]

LimitsTick ==
    /\ hits' = [b \in Buckets |-> Aging(hits[b])]
    /\ admitted' = [b \in Buckets |-> Aging(admitted[b])]
    /\ quiet' = [b \in Buckets |-> IF quiet[b] <= Day THEN quiet[b] + 1 ELSE quiet[b]]
    /\ UNCHANGED <<backend, ask, told>>

LimitsNext ==
    \/ \E r \in Asks, chain \in Chains : StartAsk(r, chain)
    \/ \E r \in Asks : Check(r)
    \/ LimitsTick

LimitsSpec == LimitsInit /\ [][LimitsNext]_limitVars

-------------------------------------------------------------------------------
(* Let through within the last span ticks. *)
Passed(b, span) ==
    Cardinality({i \in DOMAIN admitted[b] : admitted[b][i] < span})

(* Whatever store counts, whatever a later bucket of the same request      *)
(* decides and however requests overlap, no bucket lets requests pass at   *)
(* more instants of any minute or any day than its limits say.  (In memory *)
(* and in the middleware that is one request each; a key's bucket in Redis *)
(* takes requests with one timestamp for one.)                             *)
LimitsHold ==
    \A b \in Buckets : /\ Passed(b, Minute) <= PerMinute[b]
                       /\ b \notin Coarse => Passed(b, Day) <= PerDay[b]

(* "Retry-After": a caller who was refused, and leaves the bucket alone    *)
(* for longer than the wait he was told, is let in, unless he was told a   *)
(* minute: then the day may be used up as well, and he is told a day.      *)
(* After that day he is let in; no refusal and no counter of another       *)
(* bucket is held against him longer.                                      *)
PatientAdmitted ==
    [][\A b \in Buckets :
          told[b] # 0 /\ quiet[b] > told[b] /\ quiet'[b] = 0
              => \/ told'[b] = 0
                 \/ told[b] = Minute /\ told'[b] = Day /\ b \notin Coarse]_limitVars

(* The windows keep their limits and their word: no bucket passes requests *)
(* at more instants than it may, and nobody waits as he was told more than *)
(* twice, or, at a bucket of minutes only, more than once.                 *)
WindowsExact == []LimitsHold /\ PatientAdmitted
===============================================================================
