------------------------------ MODULE MCAdmission -------------------------------
(***************************************************************************)
(* What stands between a caller and the chat handlers, each part on a      *)
(* small instance of its own: the gate of an address, the sliding windows, *)
(* the key with its budget and its bans, the rules for prompts and answers *)
(* (once with one call at a time and everything that may go wrong, once    *)
(* with two calls around the sidecar, and once with their administrators   *)
(* only), and the MCP server (once with two streams of a key, once with a  *)
(* stream and two keys, once with a message that calls tools).  A          *)
(* behaviour follows one of them, chosen at the start, and leaves the      *)
(* others as they are; the parts share no variable.                        *)
(***************************************************************************)
EXTENDS AddressGate, RateLimits, KeyAccess, ContentGuards, McpServer, TLC

CONSTANTS v1, v2, q1, q2, r1, r2, i1, i2

TwoVisits == {v1, v2}
TwoAsks == {q1, q2}
TwoRequests == {r1, r2}
TwoIps == {i1, i2}
Symmetry == UNION {Permutations(s) : s \in {TwoRequests, TwoIps}}

VARIABLE focus

focusVars == <<focus, gateVars, limitVars, keyVars, guardVars, mcpVars>>

ThreeBuckets == {"ip", "key", "user"}
TwoChains == {<<"ip">>, <<"key", "user">>}
PerMinuteOf == [b \in ThreeBuckets |-> IF b = "key" THEN 2 ELSE 1]
PerDayOf == [b \in ThreeBuckets |-> 2]

OneKey == 1..1
OwnedByU == [k \in OneKey |-> "u"]

(* A strict policy, one that warns where it may, is sampled and takes a     *)
(* failing sidecar for permission, and one that redacts.                    *)
Strict == [on |-> InputChecks \ {"env"}, soft |-> {}, outOn |-> {"toxic", "topic"}, outSoft |-> {},
           redact |-> FALSE, open |-> FALSE, sampling |-> FALSE, unknownValidator |-> FALSE]
Lenient == [Strict EXCEPT !.soft = {"pii", "injection", "ml"}, !.outSoft = {"toxic"},
                          !.open = TRUE, !.sampling = TRUE]
Redacting == [Strict EXCEPT !.on = {"pii", "jailbreak"}, !.redact = TRUE,
                            !.outOn = {"validators"}, !.unknownValidator = TRUE]
ThreeRuleSets == {Strict, Lenient, Redacting}
SevenTexts == {{}, {"env"}, {"pii"}, {"name"}, {"injection", "jailbreak"}, {"ml"}, {"semantic"}}
ThreeReplies == {{}, {"secrets"}, {"toxic", "topic"}}
Blocking == [name |-> "blocking", compiles |-> TRUE, decides |-> TRUE, blocks |-> {"env"}, warns |-> {"pii"}]
Silent == [Blocking EXCEPT !.name = "silent", !.decides = FALSE]
Broken == [Blocking EXCEPT !.name = "broken", !.compiles = FALSE]
ThreeRegos == {Blocking, Silent, Broken}

TwoSlots == 1..2
WindowsOfMcp == [w \in {"rpm", "rpd"} |-> IF w = "rpm" THEN 1 ELSE 2]
FirstMayChat == [k \in TwoSlots |-> IF k = 1 THEN {"chat", "skills:read"} ELSE {}]

Quiet(c) == call[c].phase = "idle"

AdmissionInit ==
    /\ focus \in {"gate", "limits", "keys", "call", "sidecar", "policy", "streams", "owners", "tools"}
    /\ GateInit /\ LimitsInit /\ KeysInit /\ GuardsInit /\ McpInit
    /\ focus # "gate" => store = "memory"
    /\ focus # "limits" => backend = "memory"
    /\ focus # "keys" => redis = "none"

Guarded ==
    \/ /\ focus = "call"
       /\ \/ policy.version = 1 /\ (\A c \in Calls : Quiet(c)) /\ Administer
          \/ OpaStops \/ OpaStarts
          \/ \E c \in Calls : (\A d \in Calls \ {c} : Quiet(d)) /\ Serve(c)
    \/ /\ focus = "sidecar"
       /\ \/ \E rego \in Regos \cup {NoRego} : policy.version <= 2 /\ UpdatePolicy(DefaultRules, rego)
          \/ OpaStops \/ OpaStarts
          \/ \E c \in Calls : Query(c) \/ Upload(c) \/ Requery(c) \/ Receive(c, "chat", {"env"}, {})
    \/ focus = "policy" /\ (Administer \/ OpaStops \/ OpaStarts)

(* Bound of this instance: two requests overlap only without Redis. *)
FewOverlap == redis = "none" \/ Cardinality({r \in Requests : request[r].phase # "idle"}) <= 1

Transported(ks, ss) ==
    \/ \E k \in ks : McpKeyStops(k, "row") \/ WorkspaceGoes(k)
    \/ \E k \in ks, s \in ss : OpenStream(k, s)
    \/ \E k \in ks, p \in Posts, to \in ss \cup {NoStream} : PostMessage(k, p, to)
    \/ \E s \in ss : ServeStream(s)
    \/ \E p \in Posts : Put(p)
    \/ McpTick

Hosted ==
    \/ /\ focus \in {"streams", "owners"}
       /\ IF focus = "streams" THEN Transported({1}, Streams) ELSE Transported(McpKeys, {1})
    \/ /\ focus \in {"streams", "owners"}
       /\ \E p \in Posts, method \in {"list", "notification"} : Handshake(p, method)
    \/ focus = "tools" /\ Transported({1}, {1}) /\ post'[2] = NoPost
    \/ focus = "tools" /\ \E fact \in Facts : McpKeyStops(1, fact) \/ McpKeyReturns(1, fact)
    \/ focus = "tools" /\ ServePost(1)

AdmissionNext ==
    \/ focus = "gate" /\ GateNext /\ UNCHANGED <<focus, limitVars, keyVars, guardVars, mcpVars>>
    \/ focus = "limits" /\ LimitsNext /\ UNCHANGED <<focus, gateVars, keyVars, guardVars, mcpVars>>
    \/ /\ focus = "keys" /\ KeysNext /\ FewOverlap'
       /\ UNCHANGED <<focus, gateVars, limitVars, guardVars, mcpVars>>
    \/ Guarded /\ UNCHANGED <<focus, gateVars, limitVars, keyVars, mcpVars>>
    \/ Hosted /\ UNCHANGED <<focus, gateVars, limitVars, keyVars, guardVars>>

AdmissionSpec == AdmissionInit /\ [][AdmissionNext]_focusVars

(* Every variable of the five parts has its type. *)
AdmissionTypeOK == GateTypeOK /\ LimitsTypeOK /\ KeysTypeOK /\ GuardsTypeOK /\ McpTypeOK
===============================================================================
