-------------------------- MODULE MandateGateway_proofs --------------------------
(***************************************************************************)
(* Proofs about MandateGateway, for any number of mandates, runs,          *)
(* references and calls.                                                   *)
(***************************************************************************)
EXTENDS MandateGateway, FiniteSetTheorems, TLAPS

-------------------------------------------------------------------------------
(* What the properties need to be inductive.                                *)

(* Rows refer to rows that exist, and a row that does not refers to none.   *)
RowsExist ==
    /\ \A h \in Refs : (~ref[h].made => ref[h].parent = {})
                       /\ \A p \in ref[h].parent : ref[p].made
    /\ \A r \in Runs : \A m \in run[r].under : mandate[m].status # "none"
    /\ \A c \in Calls : /\ \A r \in call[c].run : run[r].made
                        /\ \A h \in call[c].handle : ref[h].made

(* Only a call that has ended has a receipt, and only one of a fixture      *)
(* inserts a counter.                                                       *)
PhasesFit ==
    \A c \in Calls : /\ call[c].receipt # "none" => call[c].phase = "done"
                     /\ call[c].phase = "inserting" => call[c].tool \in Fixtures

(* What is about to run or has run passed the pinned rule. *)
PastPolicy ==
    \A c \in Calls :
        (call[c].phase = "inserting" \/ call[c].receipt = "ALLOW") /\ call[c].tool = Crm =>
            \A h \in call[c].handle : ref[h].provenance # Aggregate

(* A late call does not get past the verification. *)
LateStops ==
    \A c \in late :
        /\ call[c].receipt = "none"
        /\ \/ call[c].phase = "done"
           \/ /\ call[c].phase = "verify"
              /\ \E r \in call[c].run : \E m \in run[r].under : mandate[m].status = "revoked"

IInv == /\ TypeOK /\ TaintInherited /\ RowsExist /\ PhasesFit /\ PastPolicy
        /\ LateStops /\ CapabilitiesNarrow /\ CountersMatchReceipts

-------------------------------------------------------------------------------
(* Walking the parents of a reference that carries no taint finds none.     *)
LEMMA AncestryClean ==
    ASSUME TaintInherited, NEW h \in Refs, NEW a \in Ancestry(h),
           ref[h].provenance # Aggregate, ref \in [Refs -> RefRows]
    PROVE  ref[a].provenance # Aggregate
<1> DEFINE S == {x \in Refs : ref[x].provenance # Aggregate}
<1>1. S \in SUBSET Refs /\ h \in S
  OBVIOUS
<1>2. ASSUME NEW x \in S PROVE ref[x].parent \subseteq S
  <2>1. ref[x].parent \in SUBSET Refs
    BY DEF RefRows
  <2>2. \A p \in ref[x].parent : ref[p].provenance = Aggregate => ref[x].provenance = Aggregate
    BY DEF TaintInherited
  <2> QED BY <2>1, <2>2
<1> HIDE DEF S
<1>3. a \in S
  BY <1>1, <1>2 DEF Ancestry
<1> QED BY <1>3 DEF S

(* A handle the pinned rule lets through carries no taint. *)
LEMMA UnpinnedClean ==
    ASSUME NEW handle \in SUBSET Refs, ~Pinned(Crm, handle), NEW h \in handle
    PROVE  ref[h].provenance # Aggregate
<1>1. h \in Ancestry(h)
  BY DEF Ancestry
<1>2. Resolved(h) # Aggregate
  BY DEF Pinned
<1> QED BY <1>1, <1>2 DEF Resolved

(* attenuate returns scopes of the parent, unless the parent has none. *)
LEMMA AttenuatedNarrows ==
    ASSUME NEW parent \in Scopes, NEW requested \in Scopes
    PROVE  /\ Attenuated(parent, requested) \in Scopes
           /\ Attenuated(parent, requested) \subseteq parent \/ parent = {}
BY DEF Attenuated, Scopes

-------------------------------------------------------------------------------
(* The four kinds of step, as what they may change.                         *)
MandateMove ==
    /\ mandate' \in [Mandates -> MandateRows]
    /\ \A m \in Mandates : mandate[m].status # "none" =>
          mandate'[m].status # "none" /\ mandate'[m].scopes = mandate[m].scopes
    /\ \A m \in Mandates : mandate[m].status = "revoked" => mandate'[m].status = "revoked"
    /\ UNCHANGED <<run, ref, counter, call, late>>

RunMove ==
    /\ run' \in [Runs -> RunRows]
    /\ \A r \in Runs :
          \/ /\ run[r].made => run'[r].made
             /\ run'[r].under = run[r].under /\ run'[r].scopes = run[r].scopes
          \/ /\ ~run[r].made
             /\ \A m \in run'[r].under :
                   /\ mandate[m].status # "none"
                   /\ run'[r].scopes \subseteq mandate[m].scopes \/ mandate[m].scopes = {}
    /\ UNCHANGED <<mandate, ref, counter, call, late>>

CallMove(c) ==
    /\ call' \in [Calls -> CallStates]
    /\ \A d \in Calls \ {c} : call'[d] = call[d]
    /\ UNCHANGED <<mandate, run, ref>>

LEMMA MandateMovePreserves == ASSUME IInv, MandateMove PROVE IInv'
<1> USE DEF IInv, MandateMove
<1>1. TypeOK' /\ TaintInherited' /\ PhasesFit' /\ PastPolicy' /\ CountersMatchReceipts'
  BY DEF TypeOK, TaintInherited, PhasesFit, PastPolicy, CountersMatchReceipts
<1>2. \A r \in Runs : run[r].under \in SUBSET Mandates
  BY DEF TypeOK, RunRows
<1>3. RowsExist'
  BY <1>2 DEF RowsExist
<1>4. CapabilitiesNarrow'
  BY <1>2 DEF RowsExist, CapabilitiesNarrow
<1>5. LateStops'
  <2>1. \A c \in Calls : call[c].run \in SUBSET Runs
    BY DEF TypeOK, CallStates
  <2>2. late \in SUBSET Calls
    BY DEF TypeOK
  <2> QED BY <1>2, <2>1, <2>2 DEF LateStops
<1> QED BY <1>1, <1>3, <1>4, <1>5

LEMMA RunMovePreserves == ASSUME IInv, RunMove PROVE IInv'
<1> USE DEF IInv, RunMove
<1>1. TypeOK' /\ TaintInherited' /\ PhasesFit' /\ PastPolicy' /\ CountersMatchReceipts'
  BY DEF TypeOK, TaintInherited, PhasesFit, PastPolicy, CountersMatchReceipts
<1>2. \A c \in Calls : call[c].run \in SUBSET Runs
  BY DEF TypeOK, CallStates
<1>3. RowsExist'
  BY <1>2 DEF RowsExist
<1>4. CapabilitiesNarrow'
  BY DEF CapabilitiesNarrow
<1>5. LateStops'
  <2>1. late \in SUBSET Calls
    BY DEF TypeOK
  <2>2. \A c \in Calls : \A r \in call[c].run : run'[r].under = run[r].under
    BY <1>2 DEF RowsExist
  <2> QED BY <1>2, <2>1, <2>2 DEF LateStops
<1> QED BY <1>1, <1>3, <1>4, <1>5

-------------------------------------------------------------------------------
(* The steps of mandates and runs.                                          *)
LEMMA CreateMandateMoves ==
    ASSUME TypeOK, NEW m \in Mandates, NEW scopes \in Grantable, CreateMandate(m, scopes)
    PROVE  MandateMove
<1>1. [status |-> "active", scopes |-> scopes, expired |-> FALSE] \in MandateRows
  BY GrantableAssumption DEF MandateRows, Scopes, AnyTool
<1> QED BY <1>1 DEF CreateMandate, MandateMove, TypeOK

LEMMA RevokeMoves ==
    ASSUME TypeOK, NEW m \in Mandates, Revoke(m) PROVE MandateMove
BY DEF Revoke, MandateMove, TypeOK, MandateRows

LEMMA MandateExpiresMoves ==
    ASSUME TypeOK, NEW m \in Mandates, MandateExpires(m) PROVE MandateMove
BY DEF MandateExpires, MandateMove, TypeOK, MandateRows

LEMMA CapabilityExpiresMoves ==
    ASSUME TypeOK, NEW r \in Runs, CapabilityExpires(r) PROVE RunMove
BY DEF CapabilityExpires, RunMove, TypeOK, RunRows

LEMMA MintMoves ==
    ASSUME TypeOK, NEW r \in Runs, NEW m \in Mandates, NEW requested \in Scopes,
           Mint(r, m, requested)
    PROVE  RunMove
<1> DEFINE granted == Attenuated(mandate[m].scopes, requested)
           row == [made |-> TRUE, under |-> {m}, expired |-> FALSE, scopes |-> granted]
<1>1. mandate[m].scopes \in Scopes
  BY DEF TypeOK, MandateRows
<1>2. granted \in Scopes /\ (granted \subseteq mandate[m].scopes \/ mandate[m].scopes = {})
  BY <1>1, AttenuatedNarrows
<1>3. row \in RunRows /\ row.under = {m} /\ row.scopes = granted
  BY <1>2 DEF RunRows
<1>4. /\ ~run[r].made /\ mandate[m].status = "active"
      /\ run' = [run EXCEPT ![r] = row]
      /\ UNCHANGED <<mandate, ref, counter, call, late>>
  BY DEF Mint
<1> HIDE DEF row, granted
<1>5. run' \in [Runs -> RunRows] /\ run'[r] = row /\ \A q \in Runs \ {r} : run'[q] = run[q]
  BY <1>3, <1>4 DEF TypeOK
<1> QED BY <1>2, <1>3, <1>4, <1>5 DEF RunMove

LEMMA CreateRunMoves ==
    ASSUME TypeOK, NEW r \in Runs, NEW m \in Mandates, CreateRun(r, m) PROVE RunMove
<1>1. PICK requested \in Grantable : Mint(r, m, requested)
  BY DEF CreateRun
<1>2. requested \in Scopes
  BY GrantableAssumption DEF Scopes, AnyTool
<1> QED BY <1>1, <1>2, MintMoves

LEMMA RetryRunMoves ==
    ASSUME TypeOK, NEW r \in Runs, NEW previous \in Runs, RetryRun(r, previous)
    PROVE  RunMove
<1>1. run[previous].under \in SUBSET Mandates /\ run[previous].scopes \in Scopes
  BY DEF TypeOK, RunRows
<1>2. PICK m \in run[previous].under : Mint(r, m, run[previous].scopes)
  BY DEF RetryRun
<1> QED BY <1>1, <1>2, MintMoves

(* A new reference: its label is aggregate-only when its parent's is, and   *)
(* nothing refers to it yet.                                                *)
LEMMA MintReferencePreserves ==
    ASSUME IInv, NEW h \in Refs, NEW provenance \in Provenances,
           NEW parent \in AtMostOne(Refs), MintReference(h, provenance, parent)
    PROVE  IInv'
<1> USE DEF IInv
<1> DEFINE row == [made |-> TRUE, provenance |-> Inherited(provenance, parent),
                   parent |-> parent]
<1>1. parent \in SUBSET Refs
  BY DEF AtMostOne
<1>2. /\ Inherited(provenance, parent) \in Provenances
      /\ (\E p \in parent : ref[p].provenance = Aggregate) => row.provenance = Aggregate
  BY DEF Inherited, Provenances
<1>3. row \in RefRows /\ row.made /\ row.parent = parent
  BY <1>1, <1>2 DEF RefRows
<1>4. /\ ~ref[h].made /\ \A p \in parent : ref[p].made
      /\ ref' = [ref EXCEPT ![h] = row]
      /\ UNCHANGED <<mandate, run, counter, call, late>>
  BY DEF MintReference
<1> HIDE DEF row
<1>5. ref' \in [Refs -> RefRows] /\ ref'[h] = row /\ \A x \in Refs \ {h} : ref'[x] = ref[x]
  BY <1>3, <1>4 DEF TypeOK
<1>6. \A x \in Refs : ref[x].parent \in SUBSET Refs
  BY DEF TypeOK, RefRows
<1>7. TypeOK' /\ PhasesFit' /\ LateStops' /\ CapabilitiesNarrow' /\ CountersMatchReceipts'
  BY <1>4, <1>5 DEF TypeOK, PhasesFit, LateStops, CapabilitiesNarrow,
                    CountersMatchReceipts
<1>8. \A x \in Refs : ref[x].made => ref'[x] = ref[x] /\ x # h
  BY <1>4, <1>5
<1>9. TaintInherited'
  <2> SUFFICES ASSUME NEW x \in Refs, NEW p \in ref'[x].parent, ref'[p].provenance = Aggregate
               PROVE  ref'[x].provenance = Aggregate
    BY DEF TaintInherited
  <2>1. CASE x = h
    BY <2>1, <1>1, <1>2, <1>3, <1>4, <1>5, <1>8
  <2>2. CASE x # h
    BY <2>2, <1>5, <1>6, <1>8 DEF RowsExist, TaintInherited
  <2> QED BY <2>1, <2>2
<1>10. \A c \in Calls : call[c].handle \in SUBSET Refs
  BY DEF TypeOK, CallStates
<1>11. RowsExist'
  <2>1. \A x \in Refs : (~ref'[x].made => ref'[x].parent = {})
                        /\ \A p \in ref'[x].parent : ref'[p].made
    BY <1>1, <1>3, <1>4, <1>5, <1>6, <1>8 DEF RowsExist
  <2> QED BY <2>1, <1>4, <1>8, <1>10 DEF RowsExist
<1>12. PastPolicy'
  BY <1>4, <1>8, <1>10 DEF RowsExist, PastPolicy
<1> QED BY <1>7, <1>9, <1>11, <1>12

-------------------------------------------------------------------------------
(* The steps of a call.  First what they share: all but the counters.       *)
NoCounters ==
    /\ TypeOK /\ TaintInherited /\ RowsExist /\ PhasesFit /\ PastPolicy
    /\ LateStops /\ CapabilitiesNarrow

LEMMA CallMovePreserves ==
    ASSUME IInv, NEW c \in Calls, CallMove(c),
           counter' \in [Fixtures -> Nat],
           late' \in SUBSET Calls, \A d \in late' : d = c \/ d \in late,
           \A r \in call'[c].run : run[r].made,
           \A h \in call'[c].handle : ref[h].made,
           call'[c].receipt # "none" => call'[c].phase = "done",
           call'[c].phase = "inserting" => call'[c].tool \in Fixtures,
           (call'[c].phase = "inserting" \/ call'[c].receipt = "ALLOW") /\ call'[c].tool = Crm =>
               \A h \in call'[c].handle : ref[h].provenance # Aggregate,
           c \in late' =>
               /\ call'[c].receipt = "none"
               /\ \/ call'[c].phase = "done"
                  \/ /\ call'[c].phase = "verify"
                     /\ \E r \in call'[c].run : \E m \in run[r].under :
                           mandate[m].status = "revoked"
    PROVE  NoCounters'
<1> USE DEF IInv, CallMove
<1>1. TypeOK' /\ TaintInherited' /\ CapabilitiesNarrow'
  BY DEF TypeOK, TaintInherited, CapabilitiesNarrow
<1>2. RowsExist'
  BY DEF RowsExist
<1>3. PhasesFit'
  BY DEF PhasesFit
<1>4. PastPolicy'
  BY DEF PastPolicy
<1>5. LateStops'
  BY DEF LateStops
<1> QED BY <1>1, <1>2, <1>3, <1>4, <1>5 DEF NoCounters

(* Without a new ALLOW receipt the counters stay right. *)
LEMMA SilentKeepsCounters ==
    ASSUME IInv, NEW c \in Calls, CallMove(c), UNCHANGED counter,
           call[c].receipt # "ALLOW", call'[c].receipt # "ALLOW"
    PROVE  CountersMatchReceipts'
<1>1. \A d \in Calls : call'[d].receipt = "ALLOW" <=> call[d].receipt = "ALLOW"
  BY DEF CallMove
<1>2. \A d \in Calls : call'[d].receipt = "ALLOW" => call'[d] = call[d]
  BY DEF CallMove
<1>3. \A t \in Fixtures :
         {d \in Calls : call'[d].receipt = "ALLOW" /\ call'[d].tool = t}
             = {d \in Calls : call[d].receipt = "ALLOW" /\ call[d].tool = t}
  BY <1>1, <1>2
<1> QED BY <1>1, <1>2, <1>3 DEF IInv, CountersMatchReceipts

(* A new ALLOW receipt comes with one more on the counter. *)
LEMMA AllowKeepsCounters ==
    ASSUME IInv, NEW c \in Calls, CallMove(c), NEW t \in Fixtures,
           call[c].receipt # "ALLOW", call'[c].receipt = "ALLOW", call'[c].tool = t,
           counter' = [counter EXCEPT ![t] = counter[t] + 1]
    PROVE  CountersMatchReceipts'
<1> DEFINE Of(u) == {d \in Calls : call[d].receipt = "ALLOW" /\ call[d].tool = u}
           After(u) == {d \in Calls : call'[d].receipt = "ALLOW" /\ call'[d].tool = u}
<1>1. \A d \in Calls \ {c} : call'[d] = call[d]
  BY DEF CallMove
<1>2. After(t) = Of(t) \cup {c} /\ c \notin Of(t)
  BY <1>1
<1>3. \A u \in Fixtures \ {t} : After(u) = Of(u)
  BY <1>1
<1>4. IsFiniteSet(Of(t))
  BY CallsAssumption, FS_Subset
<1>5. Cardinality(After(t)) = Cardinality(Of(t)) + 1
  BY <1>2, <1>4, FS_AddElement
<1>6. \A u \in Fixtures : counter[u] = Cardinality(Of(u))
  BY DEF IInv, CountersMatchReceipts
<1>7. counter'[t] = counter[t] + 1 /\ \A u \in Fixtures \ {t} : counter'[u] = counter[u]
  BY DEF IInv, TypeOK
<1>8. \A u \in Fixtures : counter'[u] = Cardinality(After(u))
  <2>1. counter'[t] = Cardinality(After(t))
    BY <1>5, <1>6, <1>7
  <2>2. ASSUME NEW u \in Fixtures \ {t} PROVE counter'[u] = Cardinality(After(u))
    <3>1. After(u) = Of(u)
      BY <1>3
    <3> HIDE DEF After, Of
    <3> QED BY <1>6, <1>7, <3>1
  <2> QED BY <2>1, <2>2
<1>9. \A d \in Calls : call'[d].receipt = "ALLOW" => call'[d].tool \in Fixtures
  BY <1>1 DEF IInv, CountersMatchReceipts
<1> QED BY <1>8, <1>9 DEF CountersMatchReceipts

(* A call that is dropped refers to nothing and has no receipt. *)
LEMMA DropPreserves ==
    ASSUME IInv, NEW c \in Calls, call[c].receipt = "none", Drop(c),
           UNCHANGED <<mandate, run, ref, counter, late>>
    PROVE  IInv'
<1> DEFINE row == [NoCall EXCEPT !.phase = "done"]
<1>1. /\ row \in CallStates /\ row.receipt = "none" /\ row.phase = "done"
      /\ row.run = {} /\ row.handle = {}
  BY ToolsAssumption DEF NoCall, CallStates
<1>2. call' = [call EXCEPT ![c] = row]
  BY DEF Drop
<1> HIDE DEF row
<1>3. call'[c] = row /\ CallMove(c)
  BY <1>1, <1>2 DEF IInv, TypeOK, CallMove
<1>4. counter' \in [Fixtures -> Nat] /\ late' = late /\ late \in SUBSET Calls
  BY DEF IInv, TypeOK
<1>5. NoCounters'
  BY <1>1, <1>3, <1>4, CallMovePreserves
<1>6. CountersMatchReceipts'
  BY <1>1, <1>3, SilentKeepsCounters
<1> QED BY <1>5, <1>6 DEF IInv, NoCounters

(* What a call becomes when it advances. *)
LEMMA AdvanceMoves ==
    ASSUME IInv, NEW c \in Calls,
           NEW phase \in {"verify", "decide", "inserting", "done"},
           NEW receipt \in {"none", "ALLOW", "DENY"},
           Advance(c, phase, receipt), UNCHANGED <<mandate, run, ref>>
    PROVE  /\ CallMove(c)
           /\ call'[c].phase = phase /\ call'[c].receipt = receipt
           /\ call'[c].run = call[c].run /\ call'[c].tool = call[c].tool
           /\ call'[c].handle = call[c].handle
<1>1. call[c] \in CallStates /\ call \in [Calls -> CallStates]
  BY DEF IInv, TypeOK
<1> DEFINE row == [call[c] EXCEPT !.phase = phase, !.receipt = receipt]
<1>2. /\ row \in CallStates /\ row.phase = phase /\ row.receipt = receipt
      /\ row.run = call[c].run /\ row.tool = call[c].tool /\ row.handle = call[c].handle
  BY <1>1 DEF CallStates
<1>3. call' = [call EXCEPT ![c] = row]
  BY DEF Advance
<1> HIDE DEF row
<1>4. call'[c] = row /\ call' \in [Calls -> CallStates]
      /\ \A d \in Calls \ {c} : call'[d] = call[d]
  BY <1>1, <1>2, <1>3
<1> QED BY <1>2, <1>4 DEF CallMove

(* A call gets a receipt other than ALLOW, or goes on to the next phase.    *)
LEMMA AdvancePreserves ==
    ASSUME IInv, NEW c \in Calls, call[c].receipt = "none", c \notin late,
           NEW phase \in {"decide", "inserting", "done"}, NEW receipt \in {"none", "DENY"},
           Advance(c, phase, receipt), receipt = "none" \/ phase = "done",
           phase = "inserting" => call[c].tool \in Fixtures,
           phase = "inserting" /\ call[c].tool = Crm =>
               \A h \in call[c].handle : ref[h].provenance # Aggregate,
           UNCHANGED <<mandate, run, ref, counter, late>>
    PROVE  IInv'
<1>1. /\ CallMove(c)
      /\ call'[c].phase = phase /\ call'[c].receipt = receipt
      /\ call'[c].run = call[c].run /\ call'[c].tool = call[c].tool
      /\ call'[c].handle = call[c].handle
  BY AdvanceMoves
<1>2. counter' \in [Fixtures -> Nat] /\ late' = late /\ late \in SUBSET Calls
  BY DEF IInv, TypeOK
<1>3. (\A r \in call[c].run : run[r].made) /\ (\A h \in call[c].handle : ref[h].made)
  BY DEF IInv, RowsExist
<1>4. NoCounters'
  BY <1>1, <1>2, <1>3, CallMovePreserves
<1>5. CountersMatchReceipts'
  BY <1>1, SilentKeepsCounters
<1> QED BY <1>4, <1>5 DEF IInv, NoCounters

(* A call is allowed: the fixture counts it. *)
LEMMA AllowPreserves ==
    ASSUME IInv, NEW c \in Calls, call[c].receipt = "none", c \notin late,
           call[c].tool \in Fixtures, Advance(c, "done", "ALLOW"),
           call[c].tool = Crm => \A h \in call[c].handle : ref[h].provenance # Aggregate,
           counter' = [counter EXCEPT ![call[c].tool] = counter[call[c].tool] + 1],
           UNCHANGED <<mandate, run, ref, late>>
    PROVE  IInv'
<1>1. /\ CallMove(c)
      /\ call'[c].phase = "done" /\ call'[c].receipt = "ALLOW"
      /\ call'[c].run = call[c].run /\ call'[c].tool = call[c].tool
      /\ call'[c].handle = call[c].handle
  BY AdvanceMoves
<1>2. counter' \in [Fixtures -> Nat] /\ late' = late /\ late \in SUBSET Calls
  BY DEF IInv, TypeOK
<1>3. (\A r \in call[c].run : run[r].made) /\ (\A h \in call[c].handle : ref[h].made)
  BY DEF IInv, RowsExist
<1>4. NoCounters'
  BY <1>1, <1>2, <1>3, CallMovePreserves
<1>5. CountersMatchReceipts'
  BY <1>1, AllowKeepsCounters
<1> QED BY <1>4, <1>5 DEF IInv, NoCounters

LEMMA BeginPreserves ==
    ASSUME IInv, NEW c \in Calls, NEW r \in Runs, NEW tool \in Tools,
           NEW handle \in AtMostOne(Refs), Begin(c, r, tool, handle)
    PROVE  IInv'
<1> DEFINE row == [phase |-> "verify", run |-> {r}, tool |-> tool, handle |-> handle,
                   receipt |-> "none"]
<1>1. handle \in SUBSET Refs
  BY DEF AtMostOne
<1>2. /\ row \in CallStates /\ row.phase = "verify" /\ row.receipt = "none"
      /\ row.run = {r} /\ row.handle = handle
  BY <1>1 DEF CallStates
<1>3. /\ call[c].phase = "idle" /\ run[r].made /\ \A h \in handle : ref[h].made
      /\ call' = [call EXCEPT ![c] = row]
      /\ UNCHANGED <<mandate, run, ref, counter>>
  BY DEF Begin
<1>4. /\ late' \in SUBSET Calls /\ \A d \in late' : d = c \/ d \in late
      /\ c \in late' => c \in late \/ \E m \in run[r].under : mandate[m].status = "revoked"
  BY DEF Begin, IInv, TypeOK
<1>5. c \notin late
  BY <1>3 DEF IInv, LateStops
<1>6. call[c].receipt # "ALLOW"
  BY <1>3 DEF IInv, PhasesFit
<1> HIDE DEF row
<1>7. call'[c] = row /\ CallMove(c)
  BY <1>2, <1>3 DEF IInv, TypeOK, CallMove
<1>8. counter' \in [Fixtures -> Nat]
  BY <1>3 DEF IInv, TypeOK
<1>9. NoCounters'
  BY <1>2, <1>3, <1>4, <1>5, <1>7, <1>8, CallMovePreserves
<1>10. CountersMatchReceipts'
  BY <1>2, <1>3, <1>6, <1>7, SilentKeepsCounters
<1> QED BY <1>9, <1>10 DEF IInv, NoCounters

LEMMA UnfinishedHasNoReceipt ==
    ASSUME IInv, NEW c \in Calls, call[c].phase # "done"
    PROVE  call[c].receipt = "none"
BY DEF IInv, PhasesFit

(* A capability under a revoked mandate is refused. *)
LEMMA VerifyPreserves ==
    ASSUME IInv, NEW c \in Calls, NEW bound \in BOOLEAN, Verify(c, bound)
    PROVE  IInv'
<1>1. call[c].phase = "verify" /\ UNCHANGED <<mandate, run, ref, counter, late>>
  BY DEF Verify
<1>2. call[c].receipt = "none"
  BY <1>1, UnfinishedHasNoReceipt
<1>3. CASE Drop(c)
  BY <1>1, <1>2, <1>3, DropPreserves
<1>4. CASE Valid(c) /\ Advance(c, "decide", "none")
  <2>1. c \notin late
    BY <1>1, <1>4 DEF Valid, IInv, LateStops
  <2> QED BY <1>1, <1>2, <1>4, <2>1, AdvancePreserves
<1> QED BY <1>3, <1>4 DEF Verify

LEMMA DecidePreserves ==
    ASSUME IInv, NEW c \in Calls, Decide(c) PROVE IInv'
<1>1. call[c].phase = "decide" /\ UNCHANGED <<mandate, run, ref, late>>
  BY DEF Decide
<1>2. call[c].receipt = "none"
  BY <1>1, UnfinishedHasNoReceipt
<1>3. c \notin late
  BY <1>1 DEF IInv, LateStops
<1>4. CASE Advance(c, "done", "DENY") /\ UNCHANGED counter
  BY <1>1, <1>2, <1>3, <1>4, AdvancePreserves
<1>5. CASE ~Denied(c) /\ call[c].tool \in Fixtures
  <2>1. call[c].tool = Crm => \A h \in call[c].handle : ref[h].provenance # Aggregate
    <3>1. call[c].handle \in SUBSET Refs
      BY DEF IInv, TypeOK, CallStates
    <3>2. ~Pinned(call[c].tool, call[c].handle)
      BY <1>5 DEF Denied
    <3> QED BY <3>1, <3>2, UnpinnedClean
  <2>2. CASE Advance(c, "inserting", "none") /\ UNCHANGED counter
    BY <1>1, <1>2, <1>3, <1>5, <2>1, <2>2, AdvancePreserves
  <2>3. CASE /\ counter' = [counter EXCEPT ![call[c].tool] = counter[call[c].tool] + 1]
             /\ Advance(c, "done", "ALLOW")
    BY <1>1, <1>2, <1>3, <1>5, <2>1, <2>3, AllowPreserves
  <2>4. ~(call[c].tool \notin Fixtures)
    BY <1>5
  <2> QED BY <1>5, <2>2, <2>3 DEF Decide
<1>6. CASE ~(~Denied(c) /\ call[c].tool \in Fixtures)
  BY <1>4, <1>6 DEF Decide, FailureReceipt
<1> QED BY <1>5, <1>6

LEMMA InsertPreserves ==
    ASSUME IInv, NEW c \in Calls, Insert(c) PROVE IInv'
<1>1. call[c].phase = "inserting" /\ UNCHANGED <<mandate, run, ref, late>>
  BY DEF Insert
<1>2. call[c].receipt = "none"
  BY <1>1, UnfinishedHasNoReceipt
<1>3. c \notin late
  BY <1>1 DEF IInv, LateStops
<1>4. call[c].tool = Crm => \A h \in call[c].handle : ref[h].provenance # Aggregate
  BY <1>1 DEF IInv, PastPolicy
<1>5. CASE counter[call[c].tool] = 0
  <2>0. call[c].tool \in Fixtures
    BY <1>1 DEF IInv, PhasesFit
  <2>1. counter' = [counter EXCEPT ![call[c].tool] = counter[call[c].tool] + 1]
        /\ Advance(c, "done", "ALLOW")
    BY <1>5 DEF Insert
  <2> QED BY <1>1, <1>2, <1>3, <1>4, <2>0, <2>1, AllowPreserves
<1>6. CASE Drop(c) /\ UNCHANGED counter
  BY <1>1, <1>2, <1>6, DropPreserves
<1> QED BY <1>5, <1>6 DEF Insert

LEMMA AbandonPreserves ==
    ASSUME IInv, NEW c \in Calls, Abandon(c) PROVE IInv'
<1>1. call[c].receipt = "none"
  BY UnfinishedHasNoReceipt DEF Abandon
<1> QED BY <1>1, DropPreserves DEF Abandon

-------------------------------------------------------------------------------
LEMMA InitIInv == ASSUME Init PROVE IInv
<1> USE DEF Init
<1>1. NoCall \in CallStates /\ NoRun \in RunRows
  BY ToolsAssumption DEF NoCall, CallStates, NoRun, RunRows, Scopes
<1>2. TypeOK
  BY <1>1 DEF TypeOK, MandateRows, RefRows, Scopes, Provenances
<1>3. \A c \in Calls : call[c] = NoCall
  OBVIOUS
<1>4. TaintInherited /\ RowsExist /\ PhasesFit /\ PastPolicy /\ LateStops /\ CapabilitiesNarrow
  BY <1>3 DEF TaintInherited, RowsExist, PhasesFit, PastPolicy, LateStops,
             CapabilitiesNarrow, NoCall, NoRun
<1>5. \A t \in Fixtures : {c \in Calls : call[c].receipt = "ALLOW" /\ call[c].tool = t} = {}
  BY <1>3 DEF NoCall
<1>6. CountersMatchReceipts
  BY <1>3, <1>5, FS_EmptySet DEF CountersMatchReceipts, NoCall
<1> QED BY <1>2, <1>4, <1>6 DEF IInv

LEMMA NextIInv == ASSUME IInv, [Next]_vars PROVE IInv'
<1>1. TypeOK
  BY DEF IInv
<1>2. CASE UNCHANGED vars
  BY <1>2 DEF vars, IInv, TypeOK, TaintInherited, RowsExist, PhasesFit, PastPolicy,
              LateStops, CapabilitiesNarrow, CountersMatchReceipts
<1>3. ASSUME NEW m \in Mandates, NEW scopes \in Grantable, CreateMandate(m, scopes)
      PROVE  IInv'
  BY <1>1, <1>3, CreateMandateMoves, MandateMovePreserves
<1>4. ASSUME NEW m \in Mandates, Revoke(m) PROVE IInv'
  BY <1>1, <1>4, RevokeMoves, MandateMovePreserves
<1>5. ASSUME NEW m \in Mandates, MandateExpires(m) PROVE IInv'
  BY <1>1, <1>5, MandateExpiresMoves, MandateMovePreserves
<1>6. ASSUME NEW r \in Runs, NEW m \in Mandates, CreateRun(r, m) PROVE IInv'
  BY <1>1, <1>6, CreateRunMoves, RunMovePreserves
<1>7. ASSUME NEW r \in Runs, NEW previous \in Runs, RetryRun(r, previous) PROVE IInv'
  BY <1>1, <1>7, RetryRunMoves, RunMovePreserves
<1>8. ASSUME NEW r \in Runs, CapabilityExpires(r) PROVE IInv'
  BY <1>1, <1>8, CapabilityExpiresMoves, RunMovePreserves
<1>9. ASSUME NEW h \in Refs, NEW provenance \in Provenances,
             NEW parent \in AtMostOne(Refs), MintReference(h, provenance, parent)
      PROVE  IInv'
  BY <1>9, MintReferencePreserves
<1>10. ASSUME NEW c \in Calls, NEW r \in Runs, NEW tool \in Tools,
              NEW handle \in AtMostOne(Refs), Begin(c, r, tool, handle)
       PROVE  IInv'
  BY <1>10, BeginPreserves
<1>11. ASSUME NEW c \in Calls, CallStep(c) PROVE IInv'
  BY <1>11, VerifyPreserves, DecidePreserves, InsertPreserves, AbandonPreserves DEF CallStep
<1> QED BY <1>2, <1>3, <1>4, <1>5, <1>6, <1>7, <1>8, <1>9, <1>10, <1>11 DEF Next

(* The strengthened invariant holds in every reachable state. *)
THEOREM Inductive == Spec => []IInv
<1>1. Init => IInv
  BY InitIInv
<1>2. IInv /\ [Next]_vars => IInv'
  BY NextIInv
<1> QED BY <1>1, <1>2, PTL DEF Spec

(* Every variable keeps its type. *)
THEOREM GatewayTypeCorrect == Spec => []TypeOK
BY Inductive, PTL DEF IInv

(* The label of a payment reference reaches all that is derived from it.    *)
THEOREM TaintReachesDescendants == Spec => []TaintInherited
BY Inductive, PTL DEF IInv

(* The CRM never runs on a reference that descends from payment data, over  *)
(* chains of any length.                                                    *)
THEOREM NoPaymentReachesCrm == Spec => []PaymentsNeverResolved
<1>1. IInv => PaymentsNeverResolved
  <2> SUFFICES ASSUME IInv, NEW c \in Calls, call[c].receipt = "ALLOW", call[c].tool = Crm,
                      NEW h \in call[c].handle, NEW a \in Refs, a \in Ancestry(h)
               PROVE  ref[a].provenance # Aggregate
    BY DEF PaymentsNeverResolved
  <2>1. ref \in [Refs -> RefRows] /\ h \in Refs
    BY DEF IInv, TypeOK, CallStates
  <2>2. ref[h].provenance # Aggregate
    BY DEF IInv, PastPolicy
  <2> QED BY <2>1, <2>2, AncestryClean DEF IInv
<1> QED BY Inductive, <1>1, PTL

(* No call that begins after a revocation runs a tool under that mandate.   *)
THEOREM RevocationStopsCalls == Spec => []RevokedRunsNothing
<1>1. IInv => RevokedRunsNothing
  BY DEF IInv, LateStops, RevokedRunsNothing
<1> QED BY Inductive, <1>1, PTL

(* No capability lists a scope its mandate lacks.                           *)
THEOREM DelegationNarrows == Spec => []CapabilitiesNarrow
BY Inductive, PTL DEF IInv

(* A fixture's counter is the number of its ALLOW receipts.                 *)
THEOREM ReceiptsProveCounters == Spec => []CountersMatchReceipts
BY Inductive, PTL DEF IInv
===============================================================================
