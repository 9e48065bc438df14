------------------------------- MODULE McpServer -------------------------------
(***************************************************************************)
(* The hosted MCP server (app/mcp_server.py): event streams a client opens *)
(* with its API key, and messages posted with a key whose answers go into  *)
(* the queue of a stream, or back to the poster when he names none.        *)
(*                                                                         *)
(* A message suspends while its body is read, at every read with which a   *)
(* chat looks its key up again, while the gateway answers and while the    *)
(* audit row is written; between those points it runs alone.  The          *)
(* generator of a stream and the dictionary of streams live apart: a       *)
(* stream may be forgotten while its generator runs, and listed although   *)
(* its generator never will.  The reads that authenticate a request before *)
(* anything else happens are one step.  Left out: the standalone server on *)
(* standard input, which has no keys.                                      *)
(***************************************************************************)
EXTENDS Integers, FiniteSetsExt, SequencesExt

CONSTANTS McpKeys,
          Scopes,       \* key -> the scopes it was created with
          Streams,      \* 1..n, in the order they are opened in the server's life
          Posts,        \* 1..n, in the order they are posted; refused ones do not count
          McpTools,     \* the tools clients call
          Poisoned,     \* tools whose description the scan takes for an injection
          TotalStreams, StreamsPerKey,  \* 200 and 5
          QueueSize,    \* 100
          StreamTimeout, \* SSE_SESSION_TIMEOUT, in ticks
          Rpm, Rpd,     \* RATE_LIMIT_RPM_DEFAULT and RATE_LIMIT_RPD_DEFAULT
          McpWindow     \* length in ticks of the windows "rpm" and "rpd"

AllTools == {"chat", "scan_skill", "scan_repo", "check_input", "check_output",
             "redact_pii", "get_default_policy", "explain_policy"}
AllScopes == {"chat", "chat:stream", "skills:read"}

ASSUME OrderAssumption == /\ IsFiniteSet(Streams) /\ Streams = 1..Cardinality(Streams)
                          /\ IsFiniteSet(Posts) /\ Posts = 1..Cardinality(Posts)
ASSUME ScopesAssumption == McpKeys # {} /\ Scopes \in [McpKeys -> SUBSET AllScopes]
ASSUME ToolsAssumption == McpTools \subseteq AllTools /\ Poisoned \subseteq McpTools
ASSUME StreamLimitsAssumption ==
    \A limit \in {TotalStreams, StreamsPerKey, QueueSize, StreamTimeout, Rpm, Rpd} : limit \in Nat \ {0}
ASSUME McpWindowAssumption == McpWindow \in [{"rpm", "rpd"} -> Nat \ {0}]

VARIABLES mcpKey,      \* what resolve_api_key and the owner's row say of each key
          stream,
          post,
          allowance,   \* key -> _rate_limits
          mcpRows      \* post -> statuses of its rows in request_logs, "lost" for
                       \* one whose write failed

mcpVars == <<mcpKey, stream, post, allowance, mcpRows>>

(* What a key needs: its row is active, not expired and within its budget; *)
(* its owner exists and is active; he belongs to the key's workspace.      *)
Facts == {"row", "owner", "member"}

(* "org" is bound or, once the workspace was deleted, not. *)
McpKeyRows == [fit : SUBSET Facts, bound : BOOLEAN]
Identities == [key : McpKeys, bound : BOOLEAN]
Identity(k) == [key |-> k, bound |-> mcpKey[k].bound]

NoStream == 0
StreamStates ==
    [reader : {"unused", "starting", "sending", "waiting", "over"},
     listed : BOOLEAN,                \* in sessions
     for    : Identities,
     queue  : Seq(Posts),
     idle   : 0..StreamTimeout,       \* ticks since last_activity
     left   : 0..StreamTimeout]       \* ticks to the end of queue.get()

PostStates ==
    [phase  : {"idle", "body", "row", "owner", "member", "bans", "again", "chat", "audit", "put", "over"},
     from   : Identities,
     to     : Streams \cup {NoStream},
     tool   : McpTools \cup {"list", "notification"},
     guest  : BOOLEAN,   \* the owner, as read, works in another workspace than his key
     status : {"none", "ok", "delivered", "input_blocked", "output_blocked", "error", "invalid"},
     \* history, read by properties only: what the key has lacked ever since
     \* the call was let in
     missing : SUBSET (Facts \cup {"workspace"})]

Nobody == [key |-> CHOOSE k \in McpKeys : TRUE, bound |-> TRUE]
UnusedStream == [reader |-> "unused", listed |-> FALSE, for |-> Nobody, queue |-> <<>>,
                 idle |-> 0, left |-> 0]
NoPost == [phase |-> "idle", from |-> Nobody, to |-> NoStream, tool |-> "list", guest |-> FALSE,
           status |-> "none", missing |-> {}]

McpLimit == [w \in {"rpm", "rpd"} |-> IF w = "rpm" THEN Rpm ELSE Rpd]

Allowances ==
    {now \in [{"rpm", "rpd"} -> [left : Int, reset : Nat]] :
        \A w \in {"rpm", "rpd"} : now[w].left \in -1..McpLimit[w] /\ now[w].reset \in 0..McpWindow[w]}

McpRowStatuses == {"ok", "delivered", "input_blocked", "output_blocked", "error", "rate_limited", "lost"}

McpTypeOK ==
    /\ mcpKey \in [McpKeys -> McpKeyRows]
    /\ stream \in [Streams -> StreamStates]
    /\ post \in [Posts -> PostStates]
    /\ allowance \in [McpKeys -> Allowances]
    /\ mcpRows \in [Posts -> Seq(McpRowStatuses)]

McpInit ==
    /\ mcpKey = [k \in McpKeys |-> [fit |-> Facts, bound |-> TRUE]]
    /\ stream = [s \in Streams |-> UnusedStream]
    /\ post = [p \in Posts |-> NoPost]
    /\ allowance = [k \in McpKeys |-> [w \in {"rpm", "rpd"} |-> [left |-> McpLimit[w], reset |-> 0]]]
    /\ mcpRows = [p \in Posts |-> <<>>]

-------------------------------------------------------------------------------
(* A key is revoked, expires or is spent, its owner is disabled or leaves,  *)
(* and some of that is undone; a key whose workspace is deleted goes on     *)
(* without one.                                                             *)
McpKeyStops(k, fact) ==
    /\ fact \in mcpKey[k].fit
    /\ mcpKey' = [mcpKey EXCEPT ![k].fit = @ \ {fact}]
    /\ UNCHANGED <<stream, post, allowance, mcpRows>>

McpKeyReturns(k, fact) ==
    /\ fact \notin mcpKey[k].fit
    /\ mcpKey' = [mcpKey EXCEPT ![k].fit = @ \cup {fact}]
    /\ post' = [p \in Posts |-> IF post[p].from.key = k
                                THEN [post[p] EXCEPT !.missing = @ \ {fact}] ELSE post[p]]
    /\ UNCHANGED <<stream, allowance, mcpRows>>

WorkspaceGoes(k) ==
    /\ mcpKey[k].bound
    /\ mcpKey' = [mcpKey EXCEPT ![k].bound = FALSE]
    /\ UNCHANGED <<stream, post, allowance, mcpRows>>

-------------------------------------------------------------------------------
(* What k lacks of what a key bound or not bound to a workspace needs. *)
Lacks(k, bound) ==
    (IF bound THEN Facts ELSE Facts \ {"member"}) \ mcpKey[k].fit

(* _resolve_sse_auth. *)
Authentic(k) == Lacks(k, mcpKey[k].bound) = {}

Expired(s) == stream[s].idle >= StreamTimeout

(* purge_expired_sessions: only the listing goes. *)
Purged == [s \in Streams |-> [stream[s] EXCEPT !.listed = @ /\ ~Expired(s)]]

Listed(sessions) == {s \in Streams : sessions[s].listed}

HasRoom(k) ==
    LET listed == Listed(Purged) IN
    /\ Cardinality(listed) < TotalStreams
    /\ Cardinality({s \in listed : stream[s].for.key = k}) < StreamsPerKey

(* GET /mcp/sse. *)
OpenStream(k, s) ==
    /\ Authentic(k)
    /\ stream[s].reader = "unused"
    /\ \A older \in 1..(s - 1) : stream[older].reader # "unused"
    /\ stream' = IF HasRoom(k)
                 THEN [Purged EXCEPT ![s] = [UnusedStream EXCEPT !.reader = "starting", !.listed = TRUE,
                                                                 !.for = Identity(k)]]
                 ELSE Purged
    /\ UNCHANGED <<mcpKey, post, allowance, mcpRows>>

Closed(session) == [session EXCEPT !.reader = "over", !.listed = FALSE, !.idle = 0, !.left = 0]

(* event_generator: the endpoint event, then one round of its loop after    *)
(* another, the time of a round counted from the last activity at its start.*)
SendEndpoint(s) ==
    /\ stream[s].reader = "starting"
    /\ stream' = [stream EXCEPT ![s].reader = "sending"]
    /\ UNCHANGED <<mcpKey, post, allowance, mcpRows>>

AwaitAnswer(s) ==
    /\ stream[s].reader = "sending"
    /\ stream' = [stream EXCEPT ![s] =
                     IF Expired(s) THEN Closed(@)
                     ELSE [@ EXCEPT !.reader = "waiting", !.left = StreamTimeout - stream[s].idle]]
    /\ UNCHANGED <<mcpKey, post, allowance, mcpRows>>

Deliver(s) ==
    /\ stream[s].reader = "waiting" /\ stream[s].queue # <<>>
    /\ stream' = [stream EXCEPT ![s].reader = "sending", ![s].queue = Tail(@), ![s].left = 0]
    /\ UNCHANGED <<mcpKey, post, allowance, mcpRows>>

TimeOut(s) ==
    /\ stream[s].reader = "waiting" /\ stream[s].left = 0
    /\ stream' = [stream EXCEPT ![s] = Closed(@)]
    /\ UNCHANGED <<mcpKey, post, allowance, mcpRows>>

(* The client goes away.  A generator that has not begun runs no "finally". *)
Leave(s) ==
    /\ stream[s].reader \in {"starting", "sending", "waiting"}
    /\ stream' = [stream EXCEPT ![s] = IF @.reader = "starting" THEN [@ EXCEPT !.reader = "over"]
                                       ELSE Closed(@)]
    /\ UNCHANGED <<mcpKey, post, allowance, mcpRows>>

-------------------------------------------------------------------------------
(* POST /mcp/message up to the reading of its body.  A stream is named by   *)
(* whoever knows its id, and answers only the key that opened it.           *)
(* Mutant of Answers: the key is compared, its workspace is not.            *)
AnswersKey(s, k) ==
    /\ stream[s].listed /\ ~Expired(s) /\ stream[s].for.key = k
    /\ Len(stream[s].queue) < QueueSize

Answers(s, k) ==
    /\ stream[s].listed /\ ~Expired(s) /\ stream[s].for = Identity(k)
    /\ Len(stream[s].queue) < QueueSize

PostMessage(k, p, to) ==
    /\ Authentic(k) /\ post[p].phase = "idle"
    /\ \A older \in 1..(p - 1) : post[older].phase # "idle"
    /\ stream' = Purged
    /\ IF to # NoStream => Answers(to, k)
       THEN post' = [post EXCEPT ![p] = [@ EXCEPT !.phase = "body", !.from = Identity(k), !.to = to]]
       ELSE UNCHANGED post
    /\ UNCHANGED <<mcpKey, allowance, mcpRows>>

(* An answer (a notification has none) goes to the poster or into the queue *)
(* of the stream he named, whatever has become of it; the poster waits      *)
(* while the queue is full.                                                 *)
HandOver(p, answered) ==
    LET s == answered.to
        queued == s # NoStream /\ answered.tool # "notification"
        full == Len(stream[s].queue) >= QueueSize
        into == IF queued /\ ~full THEN Append(stream[s].queue, p) ELSE stream[s].queue IN
    /\ post' = [post EXCEPT ![p] = [answered EXCEPT !.phase = IF queued /\ full THEN "put" ELSE "over"]]
    /\ stream' = IF s = NoStream THEN stream
                 ELSE [stream EXCEPT ![s] = [@ EXCEPT !.idle = 0, !.queue = into]]

Put(p) ==
    LET s == post[p].to IN
    /\ post[p].phase = "put" /\ Len(stream[s].queue) < QueueSize
    /\ stream' = [stream EXCEPT ![s].queue = Append(@, p)]
    /\ post' = [post EXCEPT ![p].phase = "over"]
    /\ UNCHANGED <<mcpKey, allowance, mcpRows>>

(* A body that is too large, no JSON, no object, or a call without an id.   *)
Malformed(p) ==
    /\ post[p].phase = "body"
    /\ post' = [post EXCEPT ![p] = NoPost]
    /\ UNCHANGED <<mcpKey, stream, allowance, mcpRows>>

(* tools/list, initialize, ping and the notifications. *)
Handshake(p, method) ==
    /\ post[p].phase = "body"
    /\ HandOver(p, [post[p] EXCEPT !.tool = method, !.status = "ok"])
    /\ UNCHANGED <<mcpKey, allowance, mcpRows>>

(* _check_rate_limit_local: a refused call is counted like any other, and   *)
(* any number below zero is as good as -1.                                  *)
Spent(k) ==
    [w \in {"rpm", "rpd"} |->
        LET now == allowance[k][w] IN
        IF now.reset = 0 THEN [left |-> McpLimit[w] - 1, reset |-> McpWindow[w]]
        ELSE [now EXCEPT !.left = Max({@ - 1, -1})]]

ScopeOf(tool) == CASE tool = "chat" -> {"chat"}
                   [] tool \in {"scan_skill", "scan_repo"} -> {"skills:read"}
                   [] OTHER -> {}

(* The poisoning gate and the scope of _call_tool. *)
Permitted(k, tool) == tool \notin Poisoned /\ ScopeOf(tool) \subseteq Scopes[k]

(* What the tools of this process say of the text they are given.           *)
Verdicts(tool) ==
    CASE tool \in {"scan_skill", "scan_repo"} -> {"clean", "findings"}
      [] tool \in {"check_input", "check_output"} -> {"allowed", "refused"}
      [] OTHER -> {"text"}

(* _result_status, corrected for check_output. *)
Filed(tool, verdict) ==
    IF verdict \in {"clean", "allowed", "text"} THEN "ok"
    ELSE IF tool = "check_output" THEN "output_blocked" ELSE "input_blocked"

(* What the key lacks of what it had when the message came. *)
Missing(p) ==
    LET from == post[p].from IN
    Lacks(from.key, from.bound)
        \cup (IF mcpKey[from.key].bound = from.bound THEN {} ELSE {"workspace"})

(* A tool call.  Every tool but chat ends here; a gate that does not answer,*)
(* and arguments that do not fit, make an error of any, and an id that is   *)
(* neither a string nor a number makes no tool run at all.                  *)
CallTool(p, tool) ==
    LET k == post[p].from.key
        called == [post[p] EXCEPT !.tool = tool]
        within == \A w \in {"rpm", "rpd"} : Spent(k)[w].left >= 0 IN
    /\ post[p].phase = "body"
    /\ allowance' = [allowance EXCEPT ![k] = Spent(k)]
    /\ \/ ~within /\ post' = [post EXCEPT ![p] = NoPost]
       \/ /\ within
          /\ \/ \E status \in {"error", "invalid"} :
                    post' = [post EXCEPT ![p] = [called EXCEPT !.phase = "audit", !.status = status]]
             \/ /\ Permitted(k, tool) /\ tool = "chat"
                /\ post' = [post EXCEPT ![p] = [called EXCEPT !.phase = "row", !.missing = Missing(p)]]
             \/ /\ Permitted(k, tool) /\ tool # "chat"
                /\ \E verdict \in Verdicts(tool) :
                      post' = [post EXCEPT ![p] = [called EXCEPT !.phase = "audit", !.status = Filed(tool, verdict)]]
    /\ UNCHANGED <<mcpKey, stream, mcpRows>>

(* Mutant of FoundKey: the key that came with the message is taken as read. *)
FoundKeyUnchecked(p) == post[p].from.key \in McpKeys

(* The row of the key, of the same workspace as when the message came.  (The *)
(* workspaces are compared at the end; no read before that changes anything.)*)
FoundKey(p) ==
    LET now == mcpKey[post[p].from.key] IN "row" \in now.fit /\ now.bound = post[p].from.bound

Has(p, fact) == fact \in mcpKey[post[p].from.key].fit

(* One read of _gateway_chat, or of resolve_api_key for it, that finds what *)
(* it looks for.  Any of them may also end in an error: the database does  *)
(* not answer, the key is banned.                                           *)
Looked(p, from, found, next) ==
    /\ post[p].phase = from
    /\ \/ found /\ post' = [post EXCEPT ![p].phase = next]
       \/ post' = [post EXCEPT ![p].phase = "audit", ![p].status = "error"]
    /\ UNCHANGED <<mcpKey, stream, allowance, mcpRows>>

FindKey(p) == Looked(p, "row", FoundKey(p), "owner")

(* An owner at work in the key's workspace needs no membership besides.     *)
FindOwner(p) ==
    \/ Looked(p, "owner", Has(p, "owner") /\ (post[p].from.bound => Has(p, "member")), "bans")
    \/ /\ post[p].phase = "owner" /\ Has(p, "owner") /\ post[p].from.bound
       /\ post' = [post EXCEPT ![p].phase = "member", ![p].guest = TRUE]
       /\ UNCHANGED <<mcpKey, stream, allowance, mcpRows>>

FindMembership(p) == Looked(p, "member", Has(p, "member"), "bans")

CheckBans(p) == Looked(p, "bans", TRUE, IF post[p].guest THEN "again" ELSE "chat")

FindMembershipAgain(p) == Looked(p, "again", Has(p, "member"), "chat")

LookUp(p) ==
    FindKey(p) \/ FindOwner(p) \/ FindMembership(p) \/ CheckBans(p) \/ FindMembershipAgain(p)

(* Mutant of AuditedByGateway: chat is left to the gateway's own log.       *)
AuditedByGatewayAlways(outcome) == TRUE

(* Only an answer that carries the gateway's request_id counts as audited;  *)
(* an exception carries none, whether or not a row was committed before it. *)
AuditedByGateway(outcome) == outcome # "error"

(* The gateway answers, and has committed its row; or it raises: before any *)
(* row, or after the row of a request that was rate-limited, blocked or     *)
(* answered.                                                                *)
EndChat(p) ==
    /\ post[p].phase = "chat"
    /\ \E outcome \in {"delivered", "input_blocked", "output_blocked", "error"},
          row \in {"none", "rate_limited", "delivered", "input_blocked", "output_blocked"} :
          /\ outcome # "error" => row = outcome
          /\ mcpRows' = IF row = "none" THEN mcpRows ELSE [mcpRows EXCEPT ![p] = Append(@, row)]
          /\ LET answered == [post[p] EXCEPT !.status = outcome] IN
             IF AuditedByGateway(outcome) THEN HandOver(p, answered)
             ELSE /\ post' = [post EXCEPT ![p] = [answered EXCEPT !.phase = "audit"]]
                  /\ UNCHANGED stream
    /\ UNCHANGED <<mcpKey, allowance>>

(* _result_status of what the client is told: a refused id is no result.    *)
FiledAs(status) == IF status = "invalid" THEN "ok" ELSE status

(* _audit_log, best effort. *)
Audit(p) ==
    /\ post[p].phase = "audit"
    /\ \E row \in {FiledAs(post[p].status), "lost"} : mcpRows' = [mcpRows EXCEPT ![p] = Append(@, row)]
    /\ HandOver(p, post[p])
    /\ UNCHANGED <<mcpKey, allowance>>

-------------------------------------------------------------------------------
McpTick ==
    /\ stream' = [s \in Streams |->
                     IF stream[s].reader \in {"unused", "over"} /\ ~stream[s].listed THEN stream[s]
                     ELSE [stream[s] EXCEPT !.idle = Min({@ + 1, StreamTimeout}), !.left = Max({@ - 1, 0})]]
    /\ allowance' = [k \in McpKeys |->
                        [w \in {"rpm", "rpd"} |-> [allowance[k][w] EXCEPT !.reset = Max({@ - 1, 0})]]]
    /\ UNCHANGED <<mcpKey, post, mcpRows>>

ServeStream(s) == SendEndpoint(s) \/ AwaitAnswer(s) \/ Deliver(s) \/ TimeOut(s) \/ Leave(s)

ServePost(p) ==
    \/ Malformed(p) \/ LookUp(p) \/ EndChat(p) \/ Audit(p) \/ Put(p)
    \/ \E method \in {"list", "notification"} : Handshake(p, method)
    \/ \E tool \in McpTools : CallTool(p, tool)

McpNext ==
    \/ \E k \in McpKeys : WorkspaceGoes(k)
    \/ \E k \in McpKeys, fact \in Facts : McpKeyStops(k, fact) \/ McpKeyReturns(k, fact)
    \/ \E k \in McpKeys, s \in Streams : OpenStream(k, s)
    \/ \E k \in McpKeys, p \in Posts, to \in Streams \cup {NoStream} : PostMessage(k, p, to)
    \/ \E s \in Streams : ServeStream(s)
    \/ \E p \in Posts : ServePost(p)
    \/ McpTick

McpSpec == McpInit /\ [][McpNext]_mcpVars

-------------------------------------------------------------------------------
(* An answer in a stream's queue was computed for the very identity, key    *)
(* and workspace, the stream was opened with, although the key may lose its *)
(* workspace, the stream be forgotten and its place be taken while the      *)
(* message is on its way ("binds sessions to keys", test_mcp_security.py).  *)
AnswersStayHome ==
    \A s \in Streams : \A i \in DOMAIN stream[s].queue :
        post[stream[s].queue[i]].from = stream[s].for

(* A call that is answered has left its trace in the request log, filed     *)
(* under the outcome the client was told, unless that write failed; a call  *)
(* that was told its id is invalid is filed as if it had succeeded.  It has *)
(* left two only where a chat raised after the gateway had committed its    *)
(* own ("hosted chat already writes the gateway log", _result_status).      *)
CallsAudited ==
    \A p \in Posts :
        post[p].phase \in {"put", "over"} /\ post[p].tool \in McpTools /\ post[p].status # "none" =>
            /\ mcpRows[p] # <<>>
            /\ \/ Last(mcpRows[p]) \in {post[p].status, "lost"}
               \/ post[p].status = "invalid" /\ Last(mcpRows[p]) = "ok"
            /\ Len(mcpRows[p]) > 1 => post[p].tool = "chat" /\ post[p].status = "error"

(* A chat reads its key, owner and membership one after the other, each at  *)
(* a moment of its own, and none begins for a key that has lacked one of    *)
(* them, or the workspace the message came with, ever since the call was    *)
(* let in.  (What is lost during the lookup, after its read, is not seen.)  *)
NoChatForStaleKey ==
    [][\A p \in Posts :
          post[p].phase # "chat" /\ post'[p].phase = "chat" =>
              /\ post[p].missing = {}
              /\ "chat" \in Scopes[post[p].from.key] /\ "chat" \notin Poisoned]_mcpVars
===============================================================================
