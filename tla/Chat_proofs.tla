----------------------------- MODULE Chat_proofs -----------------------------
(***************************************************************************)
(* Proofs about ChatGateway, for any number of requests and prompts and    *)
(* every budget.                                                           *)
(***************************************************************************)
EXTENDS ChatGateway, FiniteSetTheorems, SequenceTheorems, TLAPS

-------------------------------------------------------------------------------
(* How a request's row fits the audit log, the debits and the daily count.  *)
(* Requests do not interfere in what they store, so that the invariant is   *)
(* one of each request by itself.                                           *)
Gates == {"idle", "balance", "limits", "guard"}

(* Nothing is opened before the gates are passed, and what was opened is    *)
(* released once the provider is through; chat opens nothing.  Nothing is   *)
(* shown that was not received.                                             *)
HandsClean(row) ==
    /\ row.sent <= row.received
    /\ row.phase \in Gates => row.sent = 0 /\ row.finish = "none"
    /\ row.phase # "provider" => ~row.pending /\ row.iterator \in {"none", "closed"}
    /\ row.kind = "chat" => ~row.pending /\ row.iterator \in {"none", "closed"}

(* The audit row is flushed with the verdict, the debit after it, and both  *)
(* are stored by the commit.                                                *)
StagedInOrder(r, row, logged, counted) ==
    /\ row.phase \in Gates \cup {"provider", "verdict"} => row.staged = "none"
    /\ row.phase = "metering" => row.staged \in Answers
    /\ row.phase = "commit" => row.staged # "none"
    /\ row.phase \in Gates \cup {"provider", "verdict", "metering"} => ~row.metered
    /\ row.phase = "commit" => (row.metered <=> row.staged \in Answers)
    /\ row.phase = "commit" /\ row.metered => r \in counted
    /\ row.phase \notin {"ending", "over"} => logged = "none"
    /\ row.phase = "ending" => logged = row.staged /\ logged # "none"

ToldAsLogged(row, logged) ==
    /\ row.phase # "over" => row.told = "none"
    /\ row.told \in Statuses /\ (row.told = "error" => row.kind = "stream") => logged = row.told

ChargedAsLogged(r, logged, paid, counted) ==
    /\ r \in paid <=> logged \in Answers
    /\ r \in paid => r \in counted

(* A private answer is complete before it is judged, and hidden before it   *)
(* is logged.                                                               *)
PrivateWhole(row, logged) ==
    private => /\ row.kind = "stream" /\ row.sent > 0 => logged = "delivered"
               /\ row.phase = "verdict" \/ row.staged \in Answers => row.finish = "marker"
               /\ row.told = "delivered" => row.finish = "marker"

Fits(r, row, logged, paid, counted) ==
    /\ HandsClean(row)
    /\ StagedInOrder(r, row, logged, counted)
    /\ ToldAsLogged(row, logged)
    /\ ChargedAsLogged(r, logged, paid, counted)
    /\ PrivateWhole(row, logged)

IInv == TypeOK /\ \A r \in Requests : Fits(r, request[r], log[r], charged, recorded)

-------------------------------------------------------------------------------
(* A step writes one request's row and, of what is shared, only that        *)
(* request's part.                                                          *)
LEMMA StepPreserves ==
    ASSUME IInv, NEW r \in Requests, NEW row \in RequestStates, Update(r, row),
           private' = private, recent' \in SUBSET Prompts,
           NEW status \in Statuses \cup {"none"}, log' = [log EXCEPT ![r] = status],
           charged' \in SUBSET Requests, \A q \in Requests \ {r} : q \in charged' <=> q \in charged,
           recorded' \in SUBSET Requests, \A q \in Requests \ {r} : q \in recorded' <=> q \in recorded,
           Fits(r, row, status, charged', recorded')
    PROVE  IInv'
<1> USE DEF IInv, Update
<1>1. TypeOK'
  BY DEF TypeOK
<1>2. request'[r] = row /\ log'[r] = status
  BY DEF TypeOK
<1>3. ASSUME NEW q \in Requests \ {r} PROVE request'[q] = request[q] /\ log'[q] = log[q]
  BY <1>3 DEF TypeOK
<1>4. Fits(r, request[r], log[r], charged, recorded)'
  BY <1>2 DEF Fits, HandsClean, StagedInOrder, ToldAsLogged, ChargedAsLogged, PrivateWhole
<1>5. ASSUME NEW q \in Requests \ {r}
      PROVE  Fits(q, request[q], log[q], charged, recorded)'
  BY <1>3, <1>5 DEF Fits, HandsClean, StagedInOrder, ToldAsLogged, ChargedAsLogged, PrivateWhole
<1> QED BY <1>1, <1>4, <1>5

(* Most steps write the request's row alone. *)
LEMMA RowPreserves ==
    ASSUME IInv, NEW r \in Requests, NEW row \in RequestStates, Update(r, row),
           recent' \in SUBSET Prompts, UNCHANGED <<private, recorded, log, charged>>,
           Fits(r, row, log[r], charged, recorded)
    PROVE  IInv'
<1>1. log[r] \in Statuses \cup {"none"} /\ log' = [log EXCEPT ![r] = log[r]]
  BY DEF IInv, TypeOK
<1>2. charged' \in SUBSET Requests /\ recorded' \in SUBSET Requests
  BY DEF IInv, TypeOK
<1> QED BY <1>1, <1>2, StepPreserves

-------------------------------------------------------------------------------
(* What the handlers' helpers make of a row is a row.                       *)
LEMMA RefusedTyped == ASSUME NEW row \in RequestStates PROVE Refused(row) \in RequestStates
BY DEF RequestStates, Refused

LEMMA StagedTyped ==
    ASSUME NEW row \in RequestStates, NEW status \in Statuses
    PROVE  Staged(row, status) \in RequestStates
BY DEF RequestStates, Staged

LEMMA ReleasedTyped == ASSUME NEW row \in RequestStates PROVE Released(row) \in RequestStates
<1> DEFINE iterator == IF row.iterator = "none" THEN row.iterator ELSE "closed"
<1>1. iterator \in {"none", "open", "cancelled", "closed"}
  OBVIOUS
<1>2. Released(row) = [row EXCEPT !.iterator = iterator, !.pending = FALSE]
  BY DEF Released
<1> HIDE DEF iterator
<1>3. [row EXCEPT !.iterator = iterator, !.pending = FALSE] \in RequestStates
  BY <1>1 DEF RequestStates
<1> QED BY <1>2, <1>3

LEMMA OverTyped ==
    ASSUME NEW row \in RequestStates, NEW told \in Statuses \cup {"none", "refused", "gone"}
    PROVE  [row EXCEPT !.phase = "over", !.told = told] \in RequestStates
BY DEF RequestStates

LEMMA JudgedTyped ==
    ASSUME NEW row \in RequestStates, NEW status \in Statuses
    PROVE  [row EXCEPT !.staged = status, !.phase = "metering"] \in RequestStates
BY DEF RequestStates

LEMMA PhaseTyped ==
    ASSUME NEW row \in RequestStates, NEW phase \in {"balance", "limits", "guard", "over"}
    PROVE  [row EXCEPT !.phase = phase] \in RequestStates
BY DEF RequestStates

-------------------------------------------------------------------------------
(* The steps of a request.                                                  *)
LEMMA RefusedPreserves ==
    ASSUME IInv, NEW r \in Requests, NEW kind \in {"chat", "stream"}, At(r, "idle"),
           NEW row, row = [request[r] EXCEPT !.kind = kind]
    PROVE  /\ row \in RequestStates /\ Fits(r, row, log[r], charged, recorded)
           /\ Refused(row) \in RequestStates
           /\ Fits(r, Refused(row), log[r], charged, recorded)
<1> DEFINE old == request[r]
<1>1. old \in RequestStates /\ Fits(r, old, log[r], charged, recorded) /\ old.phase = "idle"
  BY DEF IInv, TypeOK, At
<1>2. row = [old EXCEPT !.kind = kind]
  OBVIOUS
<1> HIDE DEF old
<1>3. row \in RequestStates /\ Refused(row) \in RequestStates
  <2>1. row \in RequestStates
    BY <1>1, <1>2 DEF RequestStates
  <2> QED BY <2>1, RefusedTyped
<1>4. Fits(r, row, log[r], charged, recorded)
  BY <1>1, <1>2 DEF RequestStates, Fits, HandsClean, StagedInOrder, ToldAsLogged,
         ChargedAsLogged, PrivateWhole, Gates, Answers, Statuses
<1>5. Fits(r, Refused(row), log[r], charged, recorded)
  BY <1>1, <1>2, <1>3, <1>4 DEF RequestStates, Refused, Fits, HandsClean, StagedInOrder, ToldAsLogged,
         ChargedAsLogged, PrivateWhole, Gates, Answers, Statuses
<1> QED BY <1>3, <1>4, <1>5

(* Enter either refuses or lets the request through to the next gate. *)
LEMMA EnterPreserves ==
    ASSUME IInv, NEW r \in Requests, NEW kind \in {"chat", "stream"}, Enter(r, kind)
    PROVE  IInv'
<1> DEFINE row == [request[r] EXCEPT !.kind = kind]
           first == IF kind = "chat" THEN "balance" ELSE "limits"
           passed == [row EXCEPT !.phase = first]
<1>1. At(r, "idle") /\ UNCHANGED <<private, recorded, log, charged>>
  BY DEF Enter
<1>2. /\ recent' = recent \/ recent' = recent \cup {row.prompt}
      /\ Update(r, Refused(row)) \/ Update(r, passed)
  BY DEF Enter
<1>3. /\ row \in RequestStates /\ Fits(r, row, log[r], charged, recorded)
      /\ Refused(row) \in RequestStates
      /\ Fits(r, Refused(row), log[r], charged, recorded)
  BY <1>1, RefusedPreserves
<1>4. recent' \in SUBSET Prompts
  BY <1>2, <1>3 DEF IInv, TypeOK, RequestStates
<1>5. row.phase = "idle"
  BY <1>1 DEF IInv, TypeOK, RequestStates, At
<1>6. first \in {"balance", "limits"}
  OBVIOUS
<1> HIDE DEF row, first
<1>7. passed \in RequestStates /\ Fits(r, passed, log[r], charged, recorded)
  BY <1>3, <1>5, <1>6 DEF RequestStates, Fits, HandsClean, StagedInOrder, ToldAsLogged,
         ChargedAsLogged, PrivateWhole, Gates, Answers, Statuses
<1> HIDE DEF passed
<1>8. CASE Update(r, Refused(row))
  BY <1>1, <1>3, <1>4, <1>8, RowPreserves
<1>9. CASE Update(r, passed)
  BY <1>1, <1>4, <1>7, <1>9, RowPreserves
<1> QED BY <1>2, <1>8, <1>9

LEMMA ForgetPreserves ==
    ASSUME IInv, NEW prompt \in Prompts, Forget(prompt) PROVE IInv'
<1>1. TypeOK'
  BY DEF IInv, TypeOK, Forget
<1>2. ASSUME NEW r \in Requests PROVE Fits(r, request[r], log[r], charged, recorded)'
  BY DEF IInv, Forget, Fits, HandsClean, StagedInOrder, ToldAsLogged, ChargedAsLogged,
         PrivateWhole
<1> QED BY <1>1, <1>2 DEF IInv

LEMMA CheckBalancePreserves ==
    ASSUME IInv, NEW r \in Requests, CheckBalance(r) PROVE IInv'
<1> DEFINE old == request[r]
           row1 == Refused(old)
           next == IF old.kind = "stream" THEN "guard" ELSE "limits"
           row2 == [old EXCEPT !.phase = next]
<1>1. old \in RequestStates /\ Fits(r, old, log[r], charged, recorded)
  BY DEF IInv, TypeOK
<1>2. UNCHANGED <<private, recent, recorded, log, charged>> /\ recent' \in SUBSET Prompts
  BY DEF CheckBalance, IInv, TypeOK
<1>3. old.phase = "balance"
  BY DEF CheckBalance, At, Streams
<1>4. Update(r, row1) \/ Update(r, row2)
  BY DEF CheckBalance, Streams
<1> HIDE DEF old
<1>5. row1 \in RequestStates
  BY <1>1, RefusedTyped
<1>6. Fits(r, row1, log[r], charged, recorded)
  BY <1>1, <1>3 DEF RequestStates, Refused, Fits, HandsClean, StagedInOrder, ToldAsLogged,
         ChargedAsLogged, PrivateWhole, Gates, Answers, Statuses
<1>7. row2 \in RequestStates
  <2>1. next \in {"balance", "limits", "guard", "over"}
    OBVIOUS
  <2> HIDE DEF next
  <2> QED BY <1>1, <2>1, PhaseTyped
<1>8. Fits(r, row2, log[r], charged, recorded)
  BY <1>1, <1>3 DEF RequestStates, Fits, HandsClean, StagedInOrder, ToldAsLogged,
         ChargedAsLogged, PrivateWhole, Gates, Answers, Statuses
<1> HIDE DEF row1, row2
<1> QED BY <1>1, <1>2, <1>4, <1>5, <1>6, <1>7, <1>8, RowPreserves

LEMMA CheckLimitsPreserves ==
    ASSUME IInv, NEW r \in Requests, CheckLimits(r) PROVE IInv'
<1> DEFINE old == request[r]
           next == IF old.kind = "stream" THEN "balance" ELSE "guard"
           row1 == [old EXCEPT !.phase = next]
           row2 == Refused(old)
           row3 == Staged(old, "rate_limited")
<1>1. old \in RequestStates /\ Fits(r, old, log[r], charged, recorded)
  BY DEF IInv, TypeOK
<1>2. UNCHANGED <<private, recent, recorded, log, charged>> /\ recent' \in SUBSET Prompts
  BY DEF CheckLimits, IInv, TypeOK
<1>3. old.phase = "limits"
  BY DEF CheckLimits, At, Streams
<1>4. Update(r, row1) \/ Update(r, row2) \/ Update(r, row3)
  BY DEF CheckLimits, Streams
<1> HIDE DEF old
<1>5. row1 \in RequestStates
  <2>1. next \in {"balance", "limits", "guard", "over"}
    OBVIOUS
  <2> HIDE DEF next
  <2> QED BY <1>1, <2>1, PhaseTyped
<1>6. Fits(r, row1, log[r], charged, recorded)
  BY <1>1, <1>3 DEF RequestStates, Fits, HandsClean, StagedInOrder, ToldAsLogged,
         ChargedAsLogged, PrivateWhole, Gates, Answers, Statuses
<1>7. row2 \in RequestStates
  BY <1>1, RefusedTyped
<1>8. Fits(r, row2, log[r], charged, recorded)
  BY <1>1, <1>3 DEF RequestStates, Refused, Fits, HandsClean, StagedInOrder, ToldAsLogged,
         ChargedAsLogged, PrivateWhole, Gates, Answers, Statuses
<1>9. row3 \in RequestStates
  BY <1>1, StagedTyped DEF Statuses
<1>10. Fits(r, row3, log[r], charged, recorded)
  BY <1>1, <1>3 DEF RequestStates, Staged, Fits, HandsClean, StagedInOrder, ToldAsLogged,
         ChargedAsLogged, PrivateWhole, Gates, Answers, Statuses
<1> HIDE DEF row1, row2, row3
<1> QED BY <1>1, <1>2, <1>4, <1>5, <1>6, <1>7, <1>8, <1>9, <1>10, RowPreserves

LEMMA GuardPreserves ==
    ASSUME IInv, NEW r \in Requests, Guard(r) PROVE IInv'
<1> DEFINE old == request[r]
           row1 == Staged(old, "input_blocked")
           iterator == IF old.kind = "stream" THEN "open" ELSE "none"
           row2 == [old EXCEPT !.phase = "provider", !.iterator = iterator]
<1>1. old \in RequestStates /\ Fits(r, old, log[r], charged, recorded)
  BY DEF IInv, TypeOK
<1>2. UNCHANGED <<private, recent, recorded, log, charged>> /\ recent' \in SUBSET Prompts
  BY DEF Guard, IInv, TypeOK
<1>3. old.phase = "guard"
  BY DEF Guard, At, Streams
<1>4. Update(r, row1) \/ Update(r, row2)
  BY DEF Guard, Streams
<1> HIDE DEF old
<1>5. row1 \in RequestStates
  BY <1>1, StagedTyped DEF Statuses
<1>6. Fits(r, row1, log[r], charged, recorded)
  BY <1>1, <1>3 DEF RequestStates, Staged, Fits, HandsClean, StagedInOrder, ToldAsLogged,
         ChargedAsLogged, PrivateWhole, Gates, Answers, Statuses
<1>7. row2 \in RequestStates
  <2>1. iterator \in {"open", "none"}
    OBVIOUS
  <2> HIDE DEF iterator
  <2> QED BY <1>1, <2>1 DEF RequestStates
<1>8. Fits(r, row2, log[r], charged, recorded)
  BY <1>1, <1>3 DEF RequestStates, Fits, HandsClean, StagedInOrder, ToldAsLogged,
         ChargedAsLogged, PrivateWhole, Gates, Answers, Statuses
<1> HIDE DEF row1, row2
<1> QED BY <1>1, <1>2, <1>4, <1>5, <1>6, <1>7, <1>8, RowPreserves

LEMMA AnswerPreserves ==
    ASSUME IInv, NEW r \in Requests, NEW used \in Uses, Answer(r, used) PROVE IInv'
<1> DEFINE old == request[r]
           row == [old EXCEPT !.phase = "verdict", !.used = used, !.finish = "marker"]
<1>1. old \in RequestStates /\ Fits(r, old, log[r], charged, recorded)
  BY DEF IInv, TypeOK
<1>2. UNCHANGED <<private, recent, recorded, log, charged>> /\ recent' \in SUBSET Prompts
  BY DEF Answer, IInv, TypeOK
<1>3. old.phase = "provider" /\ old.kind # "stream"
  BY DEF Answer, At, Streams
<1>4. Update(r, row)
  BY DEF Answer, Streams
<1> HIDE DEF old
<1>5. row \in RequestStates
  BY <1>1 DEF RequestStates, Statuses
<1>6. Fits(r, row, log[r], charged, recorded)
  BY <1>1, <1>3 DEF RequestStates, Fits, HandsClean, StagedInOrder, ToldAsLogged,
         ChargedAsLogged, PrivateWhole, Gates, Answers, Statuses
<1> HIDE DEF row
<1> QED BY <1>1, <1>2, <1>4, <1>5, <1>6, RowPreserves

LEMMA ChatFailsPreserves ==
    ASSUME IInv, NEW r \in Requests, ChatFails(r) PROVE IInv'
<1> DEFINE old == request[r]
           row == [old EXCEPT !.phase = "over", !.told = "error"]
<1>1. old \in RequestStates /\ Fits(r, old, log[r], charged, recorded)
  BY DEF IInv, TypeOK
<1>2. UNCHANGED <<private, recent, recorded, log, charged>> /\ recent' \in SUBSET Prompts
  BY DEF ChatFails, IInv, TypeOK
<1>3. old.phase = "provider" /\ old.kind # "stream"
  BY DEF ChatFails, At, Streams
<1>4. Update(r, row)
  BY DEF ChatFails, Streams
<1> HIDE DEF old
<1>5. row \in RequestStates
  <2>1. "error" \in Statuses
    BY DEF Statuses
  <2> QED BY <1>1, <2>1, OverTyped
<1>6. Fits(r, row, log[r], charged, recorded)
  BY <1>1, <1>3 DEF RequestStates, Fits, HandsClean, StagedInOrder, ToldAsLogged,
         ChargedAsLogged, PrivateWhole, Gates, Answers, Statuses
<1> HIDE DEF row
<1> QED BY <1>1, <1>2, <1>4, <1>5, <1>6, RowPreserves

LEMMA AskPreserves ==
    ASSUME IInv, NEW r \in Requests, Ask(r) PROVE IInv'
<1> DEFINE old == request[r]
           row == [old EXCEPT !.pending = TRUE]
<1>1. old \in RequestStates /\ Fits(r, old, log[r], charged, recorded)
  BY DEF IInv, TypeOK
<1>2. UNCHANGED <<private, recent, recorded, log, charged>> /\ recent' \in SUBSET Prompts
  BY DEF Ask, IInv, TypeOK
<1>3. old.phase = "provider" /\ old.kind = "stream"
  BY DEF Ask, At, Streams
<1>4. Update(r, row)
  BY DEF Ask, Streams
<1> HIDE DEF old
<1>5. row \in RequestStates
  BY <1>1 DEF RequestStates, Statuses
<1>6. Fits(r, row, log[r], charged, recorded)
  BY <1>1, <1>3 DEF RequestStates, Fits, HandsClean, StagedInOrder, ToldAsLogged,
         ChargedAsLogged, PrivateWhole, Gates, Answers, Statuses
<1> HIDE DEF row
<1> QED BY <1>1, <1>2, <1>4, <1>5, <1>6, RowPreserves

LEMMA ChunkPreserves ==
    ASSUME IInv, NEW r \in Requests, Chunk(r) PROVE IInv'
<1> DEFINE old == request[r]
           row == [old EXCEPT !.pending = FALSE, !.received = @ + 1, !.sent = Shown(old)]
<1>1. old \in RequestStates /\ Fits(r, old, log[r], charged, recorded)
  BY DEF IInv, TypeOK
<1>2. UNCHANGED <<private, recent, recorded, log, charged>> /\ recent' \in SUBSET Prompts
  BY DEF Chunk, IInv, TypeOK
<1>3. old.phase = "provider" /\ old.kind = "stream" /\ old.received < MaxChunks
      /\ old.finish = "none"
  BY DEF Chunk, At, Streams, Waiting
<1>4. Update(r, row)
  BY DEF Chunk, Streams
<1> HIDE DEF old
<1>5. row \in RequestStates
  <2>1. old.received + 1 \in 0 .. MaxChunks
    <3>1. old.received \in 0 .. MaxChunks /\ old.received < MaxChunks
      BY <1>1, <1>3 DEF RequestStates
    <3> QED BY <3>1, AmountsAssumption
  <2>2. old.sent <= old.received
    BY <1>1 DEF Fits, HandsClean
  <2>3. Shown(old) \in 0 .. MaxChunks
    <3>1. old.sent \in 0 .. MaxChunks /\ old.received \in 0 .. MaxChunks
      BY <1>1 DEF RequestStates
    <3>2. old.sent + 1 \in 0 .. MaxChunks
      BY <2>1, <2>2, <3>1, AmountsAssumption
    <3> QED BY <3>1, <3>2 DEF Shown
  <2> QED BY <1>1, <2>1, <2>3 DEF RequestStates
<1>6. Fits(r, row, log[r], charged, recorded)
  BY <1>1, <1>3 DEF RequestStates, Shown, Fits, HandsClean, StagedInOrder, ToldAsLogged,
         ChargedAsLogged, PrivateWhole, Gates, Answers, Statuses
<1> HIDE DEF row
<1> QED BY <1>1, <1>2, <1>4, <1>5, <1>6, RowPreserves

LEMMA DonePreserves ==
    ASSUME IInv, NEW r \in Requests, NEW used \in Uses, Done(r, used) PROVE IInv'
<1> DEFINE old == request[r]
           row == [old EXCEPT !.pending = FALSE, !.finish = "marker", !.used = used]
<1>1. old \in RequestStates /\ Fits(r, old, log[r], charged, recorded)
  BY DEF IInv, TypeOK
<1>2. UNCHANGED <<private, recent, recorded, log, charged>> /\ recent' \in SUBSET Prompts
  BY DEF Done, IInv, TypeOK
<1>3. old.phase = "provider" /\ old.kind = "stream"
  BY DEF Done, At, Streams, Waiting
<1>4. Update(r, row)
  BY DEF Done, Streams
<1> HIDE DEF old
<1>5. row \in RequestStates
  BY <1>1 DEF RequestStates, Statuses
<1>6. Fits(r, row, log[r], charged, recorded)
  BY <1>1, <1>3 DEF RequestStates, Fits, HandsClean, StagedInOrder, ToldAsLogged,
         ChargedAsLogged, PrivateWhole, Gates, Answers, Statuses
<1> HIDE DEF row
<1> QED BY <1>1, <1>2, <1>4, <1>5, <1>6, RowPreserves

LEMMA PingPreserves ==
    ASSUME IInv, NEW r \in Requests, Ping(r) PROVE IInv'
<1> DEFINE old == request[r]
           row == [old EXCEPT !.iterator = AfterPing(@)]
<1>1. old \in RequestStates /\ Fits(r, old, log[r], charged, recorded)
  BY DEF IInv, TypeOK
<1>2. UNCHANGED <<private, recent, recorded, log, charged>> /\ recent' \in SUBSET Prompts
  BY DEF Ping, IInv, TypeOK
<1>3. old.phase = "provider" /\ old.kind = "stream"
  BY DEF Ping, At, Streams, Waiting
<1>4. Update(r, row)
  BY DEF Ping, Streams
<1> HIDE DEF old
<1>5. row \in RequestStates
  BY <1>1, <1>3 DEF RequestStates, AfterPing, Answers, Statuses
<1>6. Fits(r, row, log[r], charged, recorded)
  BY <1>1, <1>3 DEF RequestStates, AfterPing, Fits, HandsClean, StagedInOrder, ToldAsLogged,
         ChargedAsLogged, PrivateWhole, Gates, Answers, Statuses
<1> HIDE DEF row
<1> QED BY <1>1, <1>2, <1>4, <1>5, <1>6, RowPreserves

LEMMA StreamFailsPreserves ==
    ASSUME IInv, NEW r \in Requests, StreamFails(r) PROVE IInv'
<1> DEFINE old == request[r]
           mid == Released(old)
           row == Staged(mid, "error")
<1>1. old \in RequestStates /\ Fits(r, old, log[r], charged, recorded)
  BY DEF IInv, TypeOK
<1>2. UNCHANGED <<private, recent, recorded, log, charged>> /\ recent' \in SUBSET Prompts
  BY DEF StreamFails, IInv, TypeOK
<1>3. old.phase = "provider" /\ old.kind = "stream"
  BY DEF StreamFails, At, Streams, Waiting
<1>4. Update(r, row)
  BY DEF StreamFails, Streams
<1> HIDE DEF old
<1>5. row \in RequestStates
  <2>1. mid \in RequestStates
    BY <1>1, ReleasedTyped
  <2> HIDE DEF mid
  <2> QED BY <2>1, StagedTyped DEF Statuses
<1>6. Fits(r, row, log[r], charged, recorded)
  BY <1>1, <1>3 DEF RequestStates, Staged, Released, Fits, HandsClean, StagedInOrder, ToldAsLogged,
         ChargedAsLogged, PrivateWhole, Gates, Answers, Statuses
<1> HIDE DEF row
<1> QED BY <1>1, <1>2, <1>4, <1>5, <1>6, RowPreserves

LEMMA SendHeldPreserves ==
    ASSUME IInv, NEW r \in Requests, SendHeld(r) PROVE IInv'
<1> DEFINE old == request[r]
           row == [old EXCEPT !.sent = @ + 1]
<1>1. old \in RequestStates /\ Fits(r, old, log[r], charged, recorded)
  BY DEF IInv, TypeOK
<1>2. UNCHANGED <<private, recent, recorded, log, charged>> /\ recent' \in SUBSET Prompts
  BY DEF SendHeld, IInv, TypeOK
<1>3. old.phase = "ending" /\ old.staged = "delivered" /\ old.sent < old.received
  BY DEF SendHeld, At, Streams, HeldBack
<1>4. Update(r, row)
  BY DEF SendHeld, Streams
<1> HIDE DEF old
<1>5. row \in RequestStates
  BY <1>1, <1>3, AmountsAssumption DEF RequestStates, Answers, Statuses
<1>6. Fits(r, row, log[r], charged, recorded)
  BY <1>1, <1>3 DEF RequestStates, Fits, HandsClean, StagedInOrder, ToldAsLogged,
         ChargedAsLogged, PrivateWhole, Gates, Answers, Statuses
<1> HIDE DEF row
<1> QED BY <1>1, <1>2, <1>4, <1>5, <1>6, RowPreserves

LEMMA EndPreserves ==
    ASSUME IInv, NEW r \in Requests, End(r) PROVE IInv'
<1> DEFINE old == request[r]
           row == [old EXCEPT !.phase = "over", !.told = old.staged]
<1>1. old \in RequestStates /\ Fits(r, old, log[r], charged, recorded)
  BY DEF IInv, TypeOK
<1>2. UNCHANGED <<private, recent, recorded, log, charged>> /\ recent' \in SUBSET Prompts
  BY DEF End, IInv, TypeOK
<1>3. old.phase = "ending"
  BY DEF End, At, Streams
<1>4. Update(r, row)
  BY DEF End, Streams
<1> HIDE DEF old
<1>5. row \in RequestStates
  <2>1. old.staged \in Statuses \cup {"none", "refused", "gone"}
    BY <1>1 DEF RequestStates
  <2> QED BY <1>1, <2>1, OverTyped
<1>6. Fits(r, row, log[r], charged, recorded)
  BY <1>1, <1>3 DEF RequestStates, Fits, HandsClean, StagedInOrder, ToldAsLogged,
         ChargedAsLogged, PrivateWhole, Gates, Answers, Statuses
<1> HIDE DEF row
<1> QED BY <1>1, <1>2, <1>4, <1>5, <1>6, RowPreserves

LEMMA LeavePreserves ==
    ASSUME IInv, NEW r \in Requests, Leave(r) PROVE IInv'
<1> DEFINE old == request[r]
           mid == Released(old)
           row == [mid EXCEPT !.phase = "over", !.told = "gone"]
<1>1. old \in RequestStates /\ Fits(r, old, log[r], charged, recorded)
  BY DEF IInv, TypeOK
<1>2. UNCHANGED <<private, recent, recorded, log, charged>> /\ recent' \in SUBSET Prompts
  BY DEF Leave, IInv, TypeOK
<1>3. old.phase # "idle" /\ old.phase # "over"
  BY DEF Leave, At, Streams
<1>4. Update(r, row)
  BY DEF Leave, Streams
<1> HIDE DEF old
<1>5. mid \in RequestStates
  BY <1>1, ReleasedTyped
<1>6. row \in RequestStates
  <2> HIDE DEF mid
  <2> QED BY <1>5 DEF RequestStates
<1>7. Fits(r, row, log[r], charged, recorded)
  BY <1>1, <1>3 DEF RequestStates, Released, Fits, HandsClean, StagedInOrder, ToldAsLogged,
         ChargedAsLogged, PrivateWhole, Gates, Answers, Statuses
<1> HIDE DEF row
<1> QED BY <1>1, <1>2, <1>4, <1>6, <1>7, RowPreserves

LEMMA StopPreserves ==
    ASSUME IInv, NEW r \in Requests, Stop(r) PROVE IInv'
<1> DEFINE old == request[r]
           mid == Released(old)
           row == [mid EXCEPT !.finish = Finish(old)]
           failed == Staged(row, "error")
           ended == [row EXCEPT !.phase = "verdict"]
<1>1. old \in RequestStates /\ Fits(r, old, log[r], charged, recorded)
  BY DEF IInv, TypeOK
<1>2. UNCHANGED <<private, recent, recorded, log, charged>> /\ recent' \in SUBSET Prompts
  BY DEF Stop, IInv, TypeOK
<1>3. old.phase = "provider" /\ old.kind = "stream"
  BY DEF Stop, At, Streams, Waiting
<1>4. \/ private /\ row.finish # "marker" /\ Update(r, failed)
      \/ ~(private /\ row.finish # "marker") /\ Update(r, ended)
  BY DEF Stop
<1> HIDE DEF old
<1>5. mid \in RequestStates
  BY <1>1, ReleasedTyped
<1>6. row \in RequestStates
  <2>1. Finish(old) \in {"none", "marker", "early"}
    BY <1>1 DEF RequestStates, Finish
  <2> HIDE DEF mid
  <2> QED BY <1>5, <2>1 DEF RequestStates
<1>7. /\ row.phase = "provider" /\ row.kind = "stream" /\ ~row.pending
      /\ row.iterator \in {"none", "closed"} /\ row.sent = old.sent
      /\ row.received = old.received /\ row.staged = old.staged
      /\ row.metered = old.metered /\ row.told = old.told
  BY <1>1, <1>3 DEF RequestStates, Released
<1> HIDE DEF row
<1>8. failed \in RequestStates
  <2>1. "error" \in Statuses
    BY DEF Statuses
  <2> QED BY <1>6, <2>1, StagedTyped
<1>9. Fits(r, failed, log[r], charged, recorded)
  BY <1>1, <1>3, <1>6, <1>7 DEF RequestStates, Staged, Fits, HandsClean, StagedInOrder,
     ToldAsLogged, ChargedAsLogged, PrivateWhole, Gates, Answers, Statuses
<1>10. ASSUME ~(private /\ row.finish # "marker")
      PROVE  ended \in RequestStates /\ Fits(r, ended, log[r], charged, recorded)
  BY <1>1, <1>3, <1>6, <1>7, <1>10 DEF RequestStates, Fits, HandsClean, StagedInOrder,
     ToldAsLogged, ChargedAsLogged, PrivateWhole, Gates, Answers, Statuses
<1> HIDE DEF failed, ended
<1> QED BY <1>1, <1>2, <1>4, <1>8, <1>9, <1>10, RowPreserves

LEMMA VerdictPreserves ==
    ASSUME IInv, NEW r \in Requests, Verdict(r) PROVE IInv'
<1> DEFINE old == request[r]
           judged(status) == [old EXCEPT !.staged = status, !.phase = "metering"]
<1>1. old \in RequestStates /\ Fits(r, old, log[r], charged, recorded)
  BY DEF IInv, TypeOK
<1>2. UNCHANGED <<private, recent, recorded, log, charged>> /\ recent' \in SUBSET Prompts
  BY DEF Verdict, IInv, TypeOK
<1>3. old.phase = "verdict"
  BY DEF Verdict, At
<1>4. PICK status \in Answers : Update(r, judged(status))
  BY DEF Verdict
<1> HIDE DEF old
<1>5. judged(status) \in RequestStates
  <2>1. status \in Statuses
    BY DEF Statuses
  <2> QED BY <1>1, <2>1, JudgedTyped
<1>6. Fits(r, judged(status), log[r], charged, recorded)
  BY <1>1, <1>3 DEF RequestStates, Fits, HandsClean, StagedInOrder, ToldAsLogged,
         ChargedAsLogged, PrivateWhole, Gates, Answers, Statuses
<1> HIDE DEF judged
<1> QED BY <1>1, <1>2, <1>4, <1>5, <1>6, RowPreserves

(* The debit is counted before it is stored. *)
LEMMA MeterPreserves ==
    ASSUME IInv, NEW r \in Requests, Meter(r) PROVE IInv'
<1> DEFINE old == request[r]
           row == [old EXCEPT !.metered = TRUE, !.phase = "commit"]
<1>1. old \in RequestStates /\ Fits(r, old, log[r], charged, recorded)
  BY DEF IInv, TypeOK
<1>2. UNCHANGED <<private, recent, log, charged>> /\ recorded' = recorded \cup {r}
  BY DEF Meter
<1>3. old.phase = "metering"
  BY DEF Meter, At
<1>4. Update(r, row)
  BY DEF Meter
<1>5. /\ recent' \in SUBSET Prompts /\ recorded' \in SUBSET Requests
      /\ charged' \in SUBSET Requests /\ log' = [log EXCEPT ![r] = log[r]]
      /\ log[r] \in Statuses \cup {"none"}
  BY <1>2 DEF IInv, TypeOK
<1> HIDE DEF old
<1>6. row \in RequestStates
  BY <1>1 DEF RequestStates
<1>7. Fits(r, row, log[r], charged', recorded')
  BY <1>1, <1>2, <1>3 DEF RequestStates, Fits, HandsClean, StagedInOrder, ToldAsLogged,
         ChargedAsLogged, PrivateWhole, Gates, Answers, Statuses
<1> HIDE DEF row
<1> QED BY <1>2, <1>4, <1>5, <1>6, <1>7, StepPreserves

(* The commit stores the audit row and the debit at once. *)
LEMMA CommitPreserves ==
    ASSUME IInv, NEW r \in Requests, Commit(r) PROVE IInv'
<1> DEFINE old == request[r]
           row == [old EXCEPT !.phase = "ending"]
           status == old.staged
<1>1. old \in RequestStates /\ Fits(r, old, log[r], charged, recorded)
  BY DEF IInv, TypeOK
<1>2. /\ UNCHANGED <<private, recent, recorded>> /\ log' = [log EXCEPT ![r] = status]
      /\ charged' = IF old.metered THEN charged \cup {r} ELSE charged
  BY DEF Commit, Persisted
<1>3. old.phase = "commit"
  BY DEF Commit, At
<1>4. Update(r, row)
  BY DEF Commit
<1>5. /\ recent' \in SUBSET Prompts /\ recorded' \in SUBSET Requests
      /\ charged' \in SUBSET Requests
  BY <1>2 DEF IInv, TypeOK
<1> HIDE DEF old
<1>6. row \in RequestStates /\ status \in Statuses \cup {"none"}
  BY <1>1 DEF RequestStates
<1>7. Fits(r, row, status, charged', recorded')
  BY <1>1, <1>2, <1>3 DEF RequestStates, Fits, HandsClean, StagedInOrder, ToldAsLogged,
         ChargedAsLogged, PrivateWhole, Gates, Answers, Statuses
<1> HIDE DEF row, status
<1>8. \A q \in Requests \ {r} : q \in charged' <=> q \in charged
  BY <1>2
<1> QED BY <1>2, <1>4, <1>5, <1>6, <1>7, <1>8, StepPreserves

-------------------------------------------------------------------------------
LEMMA InitEstablishes == ASSUME Init PROVE IInv
<1>1. ASSUME NEW r \in Requests
      PROVE  /\ request[r] \in RequestStates
             /\ Fits(r, request[r], log[r], charged, recorded)
  <2>1. PICK p \in Prompts : request[r] = NoRequest(p)
    BY DEF Init
  <2>2. NoRequest(p) \in RequestStates
    BY AmountsAssumption DEF NoRequest, RequestStates
  <2> QED BY <2>1, <2>2 DEF Init, NoRequest, Fits, HandsClean, StagedInOrder, ToldAsLogged,
             ChargedAsLogged, PrivateWhole, Gates, Answers, Statuses
<1>2. request = [r \in Requests |-> request[r]]
  BY DEF Init
<1>3. TypeOK
  BY <1>1, <1>2 DEF Init, TypeOK
<1> QED BY <1>1, <1>3 DEF IInv

LEMMA ProceedPreserves ==
    ASSUME IInv, NEW r \in Requests, Proceed(r) PROVE IInv'
BY CheckBalancePreserves, CheckLimitsPreserves, GuardPreserves, ChatFailsPreserves,
   AnswerPreserves, DonePreserves, AskPreserves, ChunkPreserves, StopPreserves,
   StreamFailsPreserves, VerdictPreserves, MeterPreserves, CommitPreserves,
   SendHeldPreserves, EndPreserves DEF Proceed

LEMMA StutterPreserves == ASSUME IInv, UNCHANGED vars PROVE IInv'
BY DEF IInv, TypeOK, vars, Fits, HandsClean, StagedInOrder, ToldAsLogged, ChargedAsLogged,
       PrivateWhole

(* Rows, audit log, debits and count fit together (chat, chat_stream of     *)
(* app/routers/chat.py).                                                    *)
THEOREM Inductive == Spec => []IInv
<1>1. IInv /\ [Next]_vars => IInv'
  BY EnterPreserves, ProceedPreserves, PingPreserves, LeavePreserves, ForgetPreserves,
     StutterPreserves DEF Next
<1> QED BY <1>1, InitEstablishes, PTL DEF Spec

-------------------------------------------------------------------------------
(* The state is always one of the declared types. *)
THEOREM GatewayTypeCorrect == Spec => []TypeOK
BY Inductive, PTL DEF IInv

(* The audit log tells what clients were told. *)
THEOREM AnswersAudited == Spec => []AnswersAreAudited
<1>1. IInv => AnswersAreAudited
  BY DEF IInv, Fits, ToldAsLogged, AnswersAreAudited, Streams
<1> QED BY <1>1, Inductive, PTL

(* Audit row and debit are stored together, and every stored debit has been *)
(* counted against the daily budget.                                        *)
THEOREM ChargesAudited == Spec => [](ChargedWithAudit /\ SpendCoversCharges)
<1>1. IInv => ChargedWithAudit /\ SpendCoversCharges
  BY DEF IInv, TypeOK, Fits, ChargedAsLogged, ChargedWithAudit, SpendCoversCharges
<1> QED BY <1>1, Inductive, PTL

(* A private stream shows nothing before its verdict is stored, and what it *)
(* reports as delivered is the whole answer.                                *)
THEOREM PrivateStreamsHeld == Spec => [](HeldUntilVerdict /\ PrivateStreamsComplete)
<1>1. IInv => HeldUntilVerdict
  BY DEF IInv, TypeOK, RequestStates, Fits, PrivateWhole, HeldUntilVerdict, Streams
<1>2. IInv => PrivateStreamsComplete
  BY DEF IInv, Fits, PrivateWhole, PrivateStreamsComplete
<1> QED BY <1>1, <1>2, Inductive, PTL

(* No stream leaves a running task or an open connection behind. *)
THEOREM NothingLeaks == Spec => []StreamsReleased
<1>1. IInv => StreamsReleased
  BY DEF IInv, Fits, HandsClean, StreamsReleased
<1> QED BY <1>1, Inductive, PTL

===============================================================================
