------------------------------ MODULE ChatGateway ------------------------------
(***************************************************************************)
(* Requests of one user to POST /chat and POST /chat/stream                *)
(* (app/routers/chat.py): the gates, the provider, the output verdict, and *)
(* the transaction that holds the audit row together with the debit.       *)
(* A handler's awaits divide it into steps; what others decide (the        *)
(* balance, the rate limits, the guardrails' verdicts, which of the        *)
(* providers answers) is a choice here.  The period is one between two     *)
(* resets of the daily counter.  Left out: the budget and the ban of the   *)
(* API key, memory recall, webhooks.                                       *)
(***************************************************************************)
EXTENDS Integers, FiniteSetsExt

CONSTANTS Requests, Prompts,
          Unsafe,        \* prompts the input policy blocks
          Estimate,      \* estimate_request_tokens
          Uses,          \* tokens a request may turn out to use
          DailyBudget,   \* settings.DAILY_TOKEN_BUDGET, 0 for none
          MaxChunks      \* bound: chunks of one stream

ASSUME PromptsAssumption == Unsafe \subseteq Prompts
ASSUME AmountsAssumption == Uses \subseteq Nat /\ 0 \in Uses /\ Estimate \in Nat
                            /\ DailyBudget \in Nat /\ MaxChunks \in Nat

VARIABLES private,       \* settings.PRIVATE_MODE of the process
          recent,        \* _recent_prompts of the user
          recorded,      \* requests whose tokens _daily_spend has counted
          request,
          log,           \* request_logs, as committed
          charged        \* requests whose debit is committed

vars == <<private, recent, recorded, request, log, charged>>

Answers == {"delivered", "output_blocked"}
Statuses == Answers \cup {"rate_limited", "input_blocked", "error"}

RequestStates ==
    [kind     : {"chat", "stream"},
     prompt   : Prompts,
     phase    : {"idle", "balance", "limits", "guard", "provider", "verdict",
                 "metering", "commit", "ending", "over"},
     iterator : {"none", "open", "cancelled", "closed"},
     pending  : BOOLEAN,                        \* the shielded anext() task
     finish   : {"none", "marker", "early"},    \* how the provider ended its answer
     received : 0 .. MaxChunks,
     sent     : 0 .. MaxChunks,                 \* shown to the client
     used     : Uses,
     staged   : Statuses \cup {"none"},         \* flushed, not committed
     metered  : BOOLEAN,                        \* the debit is flushed too
     told     : Statuses \cup {"none", "refused", "gone"}]

NoRequest(prompt) ==
    [kind |-> "chat", prompt |-> prompt, phase |-> "idle", iterator |-> "none",
     pending |-> FALSE, finish |-> "none", received |-> 0, sent |-> 0, used |-> 0,
     staged |-> "none", metered |-> FALSE, told |-> "none"]

TypeOK ==
    /\ private \in BOOLEAN
    /\ recent \in SUBSET Prompts
    /\ recorded \in SUBSET Requests
    /\ request \in [Requests -> RequestStates]
    /\ log \in [Requests -> Statuses \cup {"none"}]
    /\ charged \in SUBSET Requests

Init ==
    /\ private \in BOOLEAN
    /\ recent = {} /\ recorded = {} /\ charged = {}
    /\ request \in [Requests -> {NoRequest(p) : p \in Prompts}]
    /\ log = [r \in Requests |-> "none"]

DailySpend == MapThenSumSet(LAMBDA r : request[r].used, recorded)

At(r, phase) == request[r].phase = phase

Streams(r) == request[r].kind = "stream"

Update(r, row) == request' = [request EXCEPT ![r] = row]

(* A refusal before anything is written; the session is rolled back. *)
Refused(row) == [row EXCEPT !.phase = "over", !.told = "refused"]

-------------------------------------------------------------------------------
(* Scope, policy, blocklist and payload limits may refuse; deduplication    *)
(* and the daily budget follow without an await in between.  The prompt is  *)
(* remembered although the budget, or any later gate, refuses it.           *)
Enter(r, kind) ==
    /\ At(r, "idle")
    /\ LET row == [request[r] EXCEPT !.kind = kind]
           new == row.prompt \notin recent
           affordable == DailyBudget = 0 \/ DailySpend + Estimate <= DailyBudget
           first == IF kind = "chat" THEN "balance" ELSE "limits" IN
       \/ Update(r, Refused(row)) /\ UNCHANGED recent
       \/ /\ new
          /\ recent' = recent \cup {row.prompt}
          /\ Update(r, IF affordable THEN [row EXCEPT !.phase = first] ELSE Refused(row))
    /\ UNCHANGED <<private, recorded, log, charged>>

(* _DEDUP_WINDOW_S *)
Forget(prompt) ==
    /\ prompt \in recent
    /\ recent' = recent \ {prompt}
    /\ UNCHANGED <<private, recorded, request, log, charged>>

(* require_balance: before the rate limits in chat, after them in a stream. *)
CheckBalance(r) ==
    /\ At(r, "balance")
    /\ \/ Update(r, Refused(request[r]))
       \/ Update(r, [request[r] EXCEPT !.phase = IF Streams(r) THEN "guard" ELSE "limits"])
    /\ UNCHANGED <<private, recent, recorded, log, charged>>

(* A row in the request log, flushed but not committed. *)
Staged(row, status) == [row EXCEPT !.staged = status, !.phase = "commit"]

(* Only chat logs that it was rate limited. *)
CheckLimits(r) ==
    /\ At(r, "limits")
    /\ \/ Update(r, [request[r] EXCEPT !.phase = IF Streams(r) THEN "balance" ELSE "guard"])
       \/ Update(r, IF Streams(r) THEN Refused(request[r])
                    ELSE Staged(request[r], "rate_limited"))
    /\ UNCHANGED <<private, recent, recorded, log, charged>>

(* The input guardrail, and for a stream the opening of its own session. *)
Guard(r) ==
    /\ At(r, "guard")
    /\ Update(r, IF request[r].prompt \in Unsafe
                 THEN Staged(request[r], "input_blocked")
                 ELSE [request[r] EXCEPT !.phase = "provider",
                           !.iterator = IF Streams(r) THEN "open" ELSE "none"])
    /\ UNCHANGED <<private, recent, recorded, log, charged>>

-------------------------------------------------------------------------------
(* chat: call_llm or the response cache. *)
Answer(r, used) ==
    /\ At(r, "provider") /\ ~Streams(r)
    /\ Update(r, [request[r] EXCEPT !.phase = "verdict", !.used = used, !.finish = "marker"])
    /\ UNCHANGED <<private, recent, recorded, log, charged>>

(* The "error" row that chat adds goes with the rollback its raise causes. *)
ChatFails(r) ==
    /\ At(r, "provider") /\ ~Streams(r)
    /\ Update(r, [request[r] EXCEPT !.phase = "over", !.told = "error"])
    /\ UNCHANGED <<private, recent, recorded, log, charged>>

(* chat_stream: private streams wait for the next chunk in a task of its    *)
(* own, the others in the handler.                                          *)
Ask(r) ==
    /\ At(r, "provider") /\ Streams(r) /\ private /\ ~request[r].pending
    /\ Update(r, [request[r] EXCEPT !.pending = TRUE])
    /\ UNCHANGED <<private, recent, recorded, log, charged>>

Waiting(r) == At(r, "provider") /\ Streams(r) /\ (private => request[r].pending)

(* Mutant of Shown: private tokens leave at once, too. *)
ShownAlways(row) == row.sent + 1

Shown(row) == IF private THEN row.sent ELSE row.sent + 1

Chunk(r) ==
    /\ Waiting(r) /\ request[r].iterator = "open" /\ request[r].finish = "none"
    /\ request[r].received < MaxChunks
    /\ Update(r, [request[r] EXCEPT !.pending = FALSE, !.received = @ + 1,
                                    !.sent = Shown(request[r])])
    /\ UNCHANGED <<private, recent, recorded, log, charged>>

Done(r, used) ==
    /\ Waiting(r) /\ request[r].iterator = "open" /\ request[r].finish = "none"
    /\ Update(r, [request[r] EXCEPT !.pending = FALSE, !.finish = "marker", !.used = used])
    /\ UNCHANGED <<private, recent, recorded, log, charged>>

(* wait_for cancels what it waits for when its time is up; private streams  *)
(* shield the task.                                                         *)
AfterPing(iterator) == IF private THEN iterator ELSE "cancelled"

Ping(r) ==
    /\ Waiting(r) /\ request[r].iterator = "open"
    /\ Update(r, [request[r] EXCEPT !.iterator = AfterPing(@)])
    /\ UNCHANGED <<private, recent, recorded, log, charged>>

(* Mutant of Released: the pending task is left alone. *)
ReleasedIterator(row) == [row EXCEPT !.iterator = "closed"]

(* The finally of the streaming loop. *)
Released(row) == [row EXCEPT !.iterator = IF @ = "none" THEN @ ELSE "closed",
                             !.pending = FALSE]

(* An open iterator that ends without the done marker has ended early, a    *)
(* cancelled one says nothing of the provider.                              *)
Finish(row) ==
    IF row.iterator = "open" /\ row.finish = "none" THEN "early" ELSE row.finish

(* Mutant of Stop: an iterator that ended without the marker is asked again. *)
StopAtMarker(r) ==
    /\ Waiting(r) /\ request[r].finish = "marker"
    /\ Update(r, [Released(request[r]) EXCEPT !.phase = "verdict"])
    /\ UNCHANGED <<private, recent, recorded, log, charged>>

(* StopAsyncIteration: a private stream without the done marker has failed. *)
Stop(r) ==
    /\ Waiting(r)
    /\ LET row == [Released(request[r]) EXCEPT !.finish = Finish(request[r])] IN
       Update(r, IF private /\ row.finish # "marker" THEN Staged(row, "error")
                 ELSE [row EXCEPT !.phase = "verdict"])
    /\ UNCHANGED <<private, recent, recorded, log, charged>>

StreamFails(r) ==
    /\ Waiting(r) /\ request[r].iterator = "open"
    /\ Update(r, Staged(Released(request[r]), "error"))
    /\ UNCHANGED <<private, recent, recorded, log, charged>>

-------------------------------------------------------------------------------
(* The output guardrail; the audit row is flushed. *)

(* Mutant of Verdict: the audit row is committed at once. *)
VerdictCommitted(r) ==
    /\ At(r, "verdict")
    /\ \E status \in Answers :
          /\ Update(r, [request[r] EXCEPT !.staged = status, !.phase = "metering"])
          /\ log' = [log EXCEPT ![r] = status]
    /\ UNCHANGED <<private, recent, recorded, charged>>

Verdict(r) ==
    /\ At(r, "verdict")
    /\ \E status \in Answers :
          Update(r, [request[r] EXCEPT !.staged = status, !.phase = "metering"])
    /\ UNCHANGED <<private, recent, recorded, log, charged>>

(* deduct_tokens, then record_daily_spend, which no rollback undoes. *)
Meter(r) ==
    /\ At(r, "metering")
    /\ Update(r, [request[r] EXCEPT !.metered = TRUE, !.phase = "commit"])
    /\ recorded' = recorded \cup {r}
    /\ UNCHANGED <<private, recent, log, charged>>

(* Mutant of Persisted: the blocked path of a stream forgets its commit. *)
PersistedAnswers(r) ==
    IF Streams(r) /\ request[r].staged = "input_blocked" THEN "none" ELSE request[r].staged

Persisted(r) == request[r].staged

Commit(r) ==
    /\ At(r, "commit")
    /\ log' = [log EXCEPT ![r] = Persisted(r)]
    /\ charged' = IF request[r].metered THEN charged \cup {r} ELSE charged
    /\ Update(r, [request[r] EXCEPT !.phase = "ending"])
    /\ UNCHANGED <<private, recent, recorded>>

(* A private stream shows its chunks once they have passed the output       *)
(* policy and are accounted for.                                            *)
HeldBack(r) == /\ private /\ Streams(r) /\ request[r].staged = "delivered"
               /\ request[r].sent < request[r].received

SendHeld(r) ==
    /\ At(r, "ending") /\ HeldBack(r)
    /\ Update(r, [request[r] EXCEPT !.sent = @ + 1])
    /\ UNCHANGED <<private, recent, recorded, log, charged>>

(* The response, or the last event of the stream. *)
End(r) ==
    /\ At(r, "ending") /\ ~HeldBack(r)
    /\ Update(r, [request[r] EXCEPT !.phase = "over", !.told = request[r].staged])
    /\ UNCHANGED <<private, recent, recorded, log, charged>>

(* The client leaves, the handler is cancelled or its database fails: the   *)
(* session is rolled back.                                                  *)
Leave(r) ==
    /\ ~At(r, "idle") /\ ~At(r, "over")
    /\ Update(r, [Released(request[r]) EXCEPT !.phase = "over", !.told = "gone"])
    /\ UNCHANGED <<private, recent, recorded, log, charged>>

Proceed(r) ==
    \/ CheckBalance(r) \/ CheckLimits(r) \/ Guard(r)
    \/ ChatFails(r) \/ \E used \in Uses : Answer(r, used) \/ Done(r, used)
    \/ Ask(r) \/ Chunk(r) \/ Stop(r) \/ StreamFails(r)
    \/ Verdict(r) \/ Meter(r) \/ Commit(r) \/ SendHeld(r) \/ End(r)

Next ==
    \/ \E r \in Requests : \/ \E kind \in {"chat", "stream"} : Enter(r, kind)
                           \/ Proceed(r) \/ Ping(r) \/ Leave(r)
    \/ \E prompt \in Prompts : Forget(prompt)

Spec == Init /\ [][Next]_vars

(* The event loop runs every handler that can go on, and the provider's     *)
(* client gives up after its own timeout, so that no wait for it is endless *)
(* (a ping does not end it).                                                *)
Fairness == \A r \in Requests : WF_vars(Proceed(r))

FairSpec == Spec /\ Fairness

-------------------------------------------------------------------------------
(* What a client is told about the outcome of a request is what the audit   *)
(* log says of it, whatever happens between the decision and the answer.    *)
AnswersAreAudited ==
    \A r \in Requests :
        request[r].told \in Statuses /\ (request[r].told = "error" => Streams(r)) =>
            log[r] = request[r].told

(* The debit and the audit row of an answered request are stored together:  *)
(* neither is without the other after a rollback.                           *)
ChargedWithAudit == charged = {r \in Requests : log[r] \in Answers}

(* Every stored debit has been counted against the daily budget. *)
SpendCoversCharges == charged \subseteq recorded

(* "Private streaming holds model output until the complete output policy   *)
(* passes": no token is shown before, and none without an audit row.        *)
HeldUntilVerdict ==
    \A r \in Requests : private /\ Streams(r) /\ request[r].sent > 0 => log[r] = "delivered"

(* However a stream ends, it leaves neither a running task nor an open      *)
(* connection to the provider behind.                                       *)
StreamsReleased ==
    \A r \in Requests : request[r].phase \notin {"idle", "provider"} =>
        ~request[r].pending /\ request[r].iterator \in {"none", "closed"}

(* A private stream reported as delivered is the model's whole answer,      *)
(* however many keepalives were due while it was computed.                  *)
PrivateStreamsComplete ==
    \A r \in Requests :
        private /\ request[r].told = "delivered" => request[r].finish = "marker"

(* Every request that was accepted comes to an end. *)
RequestsEnd == \A r \in Requests : ~At(r, "idle") ~> At(r, "over")

-------------------------------------------------------------------------------
(* What the code's comments say, and public streams do not do. *)

(* app/routers/chat.py: "keep the SSE connection alive during long          *)
(* generations".  A stream is reported as delivered when the provider has   *)
(* ended it, not when a keepalive was due.                                  *)
KeepalivesKeepStreams ==
    \A r \in Requests : request[r].told = "delivered" => request[r].finish # "none"
===============================================================================
