----------------------------- MODULE MandateGateway -----------------------------
(***************************************************************************)
(* Delegated tool calls of one organization: mandates, the runs that carry *)
(* a short-lived capability, provenance references, and the gateway that   *)
(* decides each call (app/routers/mandate.py, mandate_service.py,          *)
(* mandate_fixtures.py).  The Go sidecar it asks first has an empty table   *)
(* of capabilities: it refuses in plain text, which counts as no answer.    *)
(***************************************************************************)
EXTENDS Integers, FiniteSets

CONSTANTS Mandates, Runs, Refs,
          Calls,        \* bound: each call is made once
          Tools, Fixtures,
          Crm,          \* the tool "crm.resolve_customer"
          Grantable     \* the scope lists mandates and runs are asked for

ASSUME ToolsAssumption == Crm \in Fixtures /\ Fixtures \subseteq Tools
ASSUME GrantableAssumption == Grantable \subseteq SUBSET (Tools \cup {"*"})
ASSUME CallsAssumption == IsFiniteSet(Calls)

VARIABLES mandate, run, ref,
          counter,      \* fixture_counters; 0 where there is no row yet
          call,
          late          \* history: calls that began after the revocation

vars == <<mandate, run, ref, counter, call, late>>

AnyTool == "*"
Scopes == SUBSET (Tools \cup {AnyTool})
Aggregate == "PAYMENT_AGGREGATE_ONLY"
Provenances == {"SUPPORT_DERIVED", Aggregate}

MandateRows == [status : {"none", "active", "revoked"}, scopes : Scopes,
                expired : BOOLEAN]

(* A run is created together with its capability, whose scopes and expiry  *)
(* it has here.                                                            *)
RunRows == [made : BOOLEAN, under : SUBSET Mandates, scopes : Scopes,
            expired : BOOLEAN]

RefRows == [made : BOOLEAN, provenance : Provenances, parent : SUBSET Refs]

CallStates == [phase : {"idle", "verify", "decide", "inserting", "done"},
               run : SUBSET Runs, tool : Tools, handle : SUBSET Refs,
               receipt : {"none", "ALLOW", "DENY"}]

-------------------------------------------------------------------------------
(* attenuate: nothing requested means everything the parent has, and a     *)
(* parent with no scopes restricts nothing.                                *)

(* Mutant of Attenuated: what the parent lacks is granted all the same. *)
AttenuatedToRequest(parent, requested) ==
    IF requested = {} THEN parent ELSE requested

Attenuated(parent, requested) ==
    IF requested = {} THEN parent
    ELSE IF parent = {} THEN requested
    ELSE parent \cap requested

(* The check of the gateway: an empty scope list allows every tool. *)
InScope(scopes, tool) == scopes = {} \/ tool \in scopes \/ AnyTool \in scopes

(* mint_reference: the child of an aggregate reference is one. *)

(* Mutant of Inherited: the label asked for is taken. *)
InheritedNever(provenance, parent) == provenance

Inherited(provenance, parent) ==
    IF \E p \in parent : ref[p].provenance = Aggregate THEN Aggregate ELSE provenance

(* h and the references it descends from. *)
Ancestry(h) ==
    {a \in Refs : \A S \in SUBSET Refs :
        h \in S /\ (\A x \in S : ref[x].parent \subseteq S) => a \in S}

(* resolve_provenance_ancestry *)
Resolved(h) ==
    IF \E a \in Ancestry(h) : ref[a].provenance = Aggregate
    THEN Aggregate ELSE ref[h].provenance

(* evaluate_pinned_policy *)
Pinned(tool, handle) == tool = Crm /\ \E h \in handle : Resolved(h) = Aggregate

-------------------------------------------------------------------------------
NoRun == [made |-> FALSE, under |-> {}, scopes |-> {}, expired |-> FALSE]

NoCall == [phase |-> "idle", run |-> {}, tool |-> Crm, handle |-> {},
           receipt |-> "none"]

TypeOK ==
    /\ mandate \in [Mandates -> MandateRows]
    /\ run \in [Runs -> RunRows]
    /\ ref \in [Refs -> RefRows]
    /\ counter \in [Fixtures -> Nat]
    /\ call \in [Calls -> CallStates]
    /\ late \in SUBSET Calls

Init ==
    /\ mandate = [m \in Mandates |-> [status |-> "none", scopes |-> {}, expired |-> FALSE]]
    /\ run = [r \in Runs |-> NoRun]
    /\ ref = [h \in Refs |-> [made |-> FALSE, provenance |-> "SUPPORT_DERIVED", parent |-> {}]]
    /\ counter = [t \in Fixtures |-> 0]
    /\ call = [c \in Calls |-> NoCall]
    /\ late = {}

CreateMandate(m, scopes) ==
    /\ mandate[m].status = "none"
    /\ mandate' = [mandate EXCEPT ![m] =
           [status |-> "active", scopes |-> scopes, expired |-> FALSE]]
    /\ UNCHANGED <<run, ref, counter, call, late>>

(* revoke_mandate and its commit, which also a revoked mandate gets. *)
Revoke(m) ==
    /\ mandate[m].status # "none"
    /\ mandate' = [mandate EXCEPT ![m].status = "revoked"]
    /\ UNCHANGED <<run, ref, counter, call, late>>

(* Time passes: MANDATE_TTL_SECONDS and CAP_TTL_SECONDS. *)
MandateExpires(m) ==
    /\ mandate[m].status # "none" /\ ~mandate[m].expired
    /\ mandate' = [mandate EXCEPT ![m].expired = TRUE]
    /\ UNCHANGED <<run, ref, counter, call, late>>

CapabilityExpires(r) ==
    /\ run[r].made /\ ~run[r].expired
    /\ run' = [run EXCEPT ![r].expired = TRUE]
    /\ UNCHANGED <<mandate, ref, counter, call, late>>

(* create_run and mint_capability in one transaction, which locks the      *)
(* mandate's row until its commit.                                         *)
Mint(r, m, requested) ==
    /\ ~run[r].made
    /\ mandate[m].status = "active" /\ ~mandate[m].expired
    /\ run' = [run EXCEPT ![r] =
           [made |-> TRUE, under |-> {m}, expired |-> FALSE,
            scopes |-> Attenuated(mandate[m].scopes, requested)]]
    /\ UNCHANGED <<mandate, ref, counter, call, late>>

CreateRun(r, m) == \E requested \in Grantable : Mint(r, m, requested)

RetryRun(r, previous) ==
    /\ run[previous].made
    /\ \E m \in run[previous].under : Mint(r, m, run[previous].scopes)

MintReference(h, provenance, parent) ==
    /\ ~ref[h].made
    /\ \A p \in parent : ref[p].made
    /\ ref' = [ref EXCEPT ![h] =
           [made |-> TRUE, provenance |-> Inherited(provenance, parent), parent |-> parent]]
    /\ UNCHANGED <<mandate, run, counter, call, late>>

-------------------------------------------------------------------------------
(* POST /gateway/call. *)
Begin(c, r, tool, handle) ==
    /\ call[c].phase = "idle"
    /\ run[r].made
    /\ \A h \in handle : ref[h].made
    /\ call' = [call EXCEPT ![c] =
           [phase |-> "verify", run |-> {r}, tool |-> tool, handle |-> handle, receipt |-> "none"]]
    /\ late' = IF \E m \in run[r].under : mandate[m].status = "revoked"
               THEN late \cup {c} ELSE late
    /\ UNCHANGED <<mandate, run, ref, counter>>

Advance(c, phase, receipt) ==
    call' = [call EXCEPT ![c] = [@ EXCEPT !.phase = phase, !.receipt = receipt]]

(* The call ends and leaves no row behind. *)
Drop(c) == call' = [call EXCEPT ![c] = [NoCall EXCEPT !.phase = "done"]]

(* Mutant of Valid: the mandate's status is not looked at. *)
ValidCapability(c) == \A r \in call[c].run : ~run[r].expired

Valid(c) ==
    \A r \in call[c].run :
        ~run[r].expired /\ \A m \in run[r].under : mandate[m].status = "active"

(* verify_capability and the audience, which is bound if it verifies, or   *)
(* is left out and not required.  The later check of the mandate looks at  *)
(* the object this one has loaded.                                         *)
Verify(c, bound) ==
    /\ call[c].phase = "verify"
    /\ IF bound /\ Valid(c) THEN Advance(c, "decide", "none") ELSE Drop(c)
    /\ UNCHANGED <<mandate, run, ref, counter, late>>

(* Mutant of FailureReceipt: a fixture that fails leaves the decision. *)
FailureReceiptStays(c) == "ALLOW"

FailureReceipt(c) == "DENY"

Denied(c) ==
    \/ Pinned(call[c].tool, call[c].handle)
    \/ \E r \in call[c].run : ~InScope(run[r].scopes, call[c].tool)

(* The receipt is committed with the decision, and with the counter: a row *)
(* that exists is locked, read and incremented.                            *)
Decide(c) ==
    /\ call[c].phase = "decide"
    /\ \/ /\ Denied(c)
          /\ Advance(c, "done", "DENY")
          /\ UNCHANGED counter
       \/ /\ ~Denied(c) /\ call[c].tool \notin Fixtures
          /\ Advance(c, "done", FailureReceipt(c))
          /\ UNCHANGED counter
       \/ /\ ~Denied(c) /\ call[c].tool \in Fixtures
          /\ IF counter[call[c].tool] = 0
             THEN Advance(c, "inserting", "none") /\ UNCHANGED counter
             ELSE /\ counter' = [counter EXCEPT ![call[c].tool] = @ + 1]
                  /\ Advance(c, "done", "ALLOW")
    /\ UNCHANGED <<mandate, run, ref, late>>

(* The first call of a fixture inserts the row; when another one has been  *)
(* faster, the primary key fails the flush, and with it the commit of the  *)
(* failure receipt: nothing is stored.                                     *)
Insert(c) ==
    /\ call[c].phase = "inserting"
    /\ IF counter[call[c].tool] = 0
       THEN /\ counter' = [counter EXCEPT ![call[c].tool] = 1]
            /\ Advance(c, "done", "ALLOW")
       ELSE Drop(c) /\ UNCHANGED counter
    /\ UNCHANGED <<mandate, run, ref, late>>

(* The gateway's process dies, or the client goes away. *)
Abandon(c) ==
    /\ call[c].phase \notin {"idle", "done"}
    /\ Drop(c)
    /\ UNCHANGED <<mandate, run, ref, counter, late>>

CallStep(c) ==
    \/ \E bound \in BOOLEAN : Verify(c, bound)
    \/ Decide(c) \/ Insert(c) \/ Abandon(c)

AtMostOne(S) == {{}} \cup {{x} : x \in S}

Next ==
    \/ \E m \in Mandates :
          \/ \E scopes \in Grantable : CreateMandate(m, scopes)
          \/ Revoke(m) \/ MandateExpires(m)
    \/ \E r \in Runs :
          \/ \E m \in Mandates : CreateRun(r, m)
          \/ \E previous \in Runs : RetryRun(r, previous)
          \/ CapabilityExpires(r)
    \/ \E h \in Refs, provenance \in Provenances, parent \in AtMostOne(Refs) :
          MintReference(h, provenance, parent)
    \/ \E c \in Calls :
          \/ \E r \in Runs, tool \in Tools, handle \in AtMostOne(Refs) :
                Begin(c, r, tool, handle)
          \/ CallStep(c)

Spec == Init /\ [][Next]_vars

-------------------------------------------------------------------------------
(* A reference with an aggregate ancestor is aggregate-only itself, however *)
(* long the chain it was minted through and whatever label was asked for.   *)
TaintInherited ==
    \A h \in Refs : \A p \in ref[h].parent :
        ref[p].provenance = Aggregate => ref[h].provenance = Aggregate

(* The pinned rule survives retries, new runs and derived references: the   *)
(* CRM is never reached with a reference that descends from payment data.   *)
PaymentsNeverResolved ==
    \A c \in Calls : call[c].receipt = "ALLOW" /\ call[c].tool = Crm =>
        \A h \in call[c].handle, a \in Refs :
            a \in Ancestry(h) => ref[a].provenance # Aggregate

(* A call that begins after the revocation was committed runs no tool,      *)
(* whichever capability, retry or gateway it comes through.                 *)
RevokedRunsNothing ==
    \A c \in late : call[c].receipt = "none" /\ call[c].phase # "inserting"

(* "child = parent \cap requested": no capability, and none of its retries, *)
(* lists a scope its mandate lacks.                                         *)
CapabilitiesNarrow ==
    \A r \in Runs : \A m \in run[r].under :
        run[r].scopes \subseteq mandate[m].scopes \/ mandate[m].scopes = {}

(* "Provable deny": a fixture's counter counts exactly the calls that have  *)
(* an ALLOW receipt for it, and no other tool has such a receipt.           *)
CountersMatchReceipts ==
    /\ \A c \in Calls : call[c].receipt = "ALLOW" => call[c].tool \in Fixtures
    /\ \A t \in Fixtures :
          counter[t] = Cardinality({c \in Calls : call[c].receipt = "ALLOW"
                                                   /\ call[c].tool = t})

-------------------------------------------------------------------------------
(* What the documents say, and the code does not do. *)

(* app/services/mandate_service.py: "child = parent \cap requested".  A     *)
(* tool outside the mandate's scopes is not run.                            *)
WithinMandate ==
    \A c \in Calls : call[c].receipt = "ALLOW" =>
        \A r \in call[c].run : \A m \in run[r].under :
            InScope(mandate[m].scopes, call[c].tool)
===============================================================================
