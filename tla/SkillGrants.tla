------------------------------- MODULE SkillGrants ------------------------------
(***************************************************************************)
(* Approvals of flagged skill content, for one user: what                  *)
(* app/services/skill_user_overrides.py and skill_rejections.py do to the  *)
(* user's override row and review cases.  Here every request is one step;  *)
(* SkillReview has the sessions, the lock and the workspace switches, and  *)
(* implements this module.                                                 *)
(***************************************************************************)
EXTENDS Integers, FiniteSets

CONSTANTS Scopes,      \* workspaces, and "__personal__"
          Findings,    \* approval identities: filename, content digest and
                       \* finding (approval_key)
          Documents,   \* the findings a scan may come up with
          CaseIds      \* ids of review cases

ASSUME DocumentsAssumption == Documents \subseteq SUBSET Findings
ASSUME CaseIdsAssumption == IsFiniteSet(CaseIds)
ASSUME ScopesAssumption == "nowhere" \notin Scopes

VARIABLES store,       \* scope -> grants of UserSkillGuardOverrides
          case,        \* id -> SkillAccessRejection
          \* history, read by properties only
          used         \* scope -> finding -> times an attempt passed it
                       \* without an always grant

vars == <<store, case, used>>

Grants == [once : [Findings -> Nat], always : SUBSET Findings]

NoGrant == [once |-> [f \in Findings |-> 0], always |-> {}]

Open == {"none", "pending"}
Resolved == {"unblocked_once", "unblocked_always", "kept_rejected"}

(* bound is the workspace written into the findings (approval_org_id),     *)
(* scope the one the row was filed under (org_id).                         *)
Cases == [status : Open \cup Resolved,
          scope : Scopes \cup {"nowhere"}, bound : Scopes \cup {"nowhere"},
          findings : SUBSET Findings]

NoCase == [status |-> "none", scope |-> "nowhere", bound |-> "nowhere", findings |-> {}]

Actions == {"allow_once", "allow_always", "keep_rejected"}

StatusAfter(action) ==
    CASE action = "allow_once" -> "unblocked_once"
      [] action = "allow_always" -> "unblocked_always"
      [] action = "keep_rejected" -> "kept_rejected"

-------------------------------------------------------------------------------
(* load_user_overrides: what a scan with these findings is allowed, and    *)
(* the grants it leaves; an always grant is not consumed.                  *)
Approved(grant, doc) == {f \in doc : f \in grant.always \/ grant.once[f] > 0}

(* Mutant of Spent: an allowance used is not taken away. *)
SpentNever(grant, doc) == grant

(* Mutant of Spent: the allowance is not looked at. *)
SpentBlindly(grant, doc) ==
    [once |-> [f \in Findings |->
        IF f \in doc \ grant.always THEN grant.once[f] - 1 ELSE grant.once[f]],
     always |-> grant.always]

Spent(grant, doc) ==
    [once |-> [f \in Findings |->
        IF f \in doc \ grant.always /\ grant.once[f] > 0
        THEN grant.once[f] - 1 ELSE grant.once[f]],
     always |-> grant.always]

(* save_user_overrides and revoke_user_overrides. *)
Allowed(grant, fs, action) ==
    IF action = "allow_once"
    THEN [once |-> [f \in Findings |-> grant.once[f] + (IF f \in fs THEN 1 ELSE 0)],
          always |-> grant.always]
    ELSE [once |-> grant.once, always |-> grant.always \cup fs]

Revoked(grant, fs) ==
    [once |-> [f \in Findings |-> IF f \in fs THEN 0 ELSE grant.once[f]],
     always |-> grant.always \ fs]

(* record_rejection: a pending case with the same findings in the same     *)
(* workspace is reused.                                                    *)
SameEvidence(cs, scope, fs) ==
    {c \in CaseIds : cs[c].status = "pending" /\ cs[c].scope = scope
                                              /\ cs[c].findings = fs}

FiledCase(scope, bound, fs) ==
    [status |-> "pending", scope |-> scope, bound |-> bound, findings |-> fs]

(* What the cases cs may become when fs is rejected. *)
FiledCases(cs, scope, bound, fs) ==
    IF fs = {} \/ SameEvidence(cs, scope, fs) # {} THEN {cs}
    ELSE {[cs EXCEPT ![c] = FiledCase(scope, bound, fs)] :
              c \in {d \in CaseIds : cs[d].status = "none"}}

(* Mutant of Resolvable: the workspace the findings are bound to is not    *)
(* compared.                                                               *)
ResolvableUnbound(c, action) == c.status = "pending"

(* resolve_rejection goes through once; afterwards the same action returns *)
(* the recorded result and another one is refused.  A case whose findings  *)
(* are bound to another workspace than its own cannot be approved, and     *)
(* keeping it revokes nothing.                                             *)
Resolvable(c, action) ==
    /\ c.status = "pending"
    /\ action = "keep_rejected" \/ c.bound = c.scope

GrantAfter(grant, c, action) ==
    IF action # "keep_rejected" THEN Allowed(grant, c.findings, action)
    ELSE IF c.bound = c.scope THEN Revoked(grant, c.findings)
    ELSE grant

-------------------------------------------------------------------------------
TypeOK ==
    /\ store \in [Scopes -> Grants]
    /\ case \in [CaseIds -> Cases]
    /\ used \in [Scopes -> [Findings -> Nat]]

Init ==
    /\ store = [s \in Scopes |-> NoGrant]
    /\ case = [c \in CaseIds |-> NoCase]
    /\ used = [s \in Scopes |-> [f \in Findings |-> 0]]

CountUse(scope, grant, doc) ==
    used' = [used EXCEPT ![scope] = [f \in Findings |->
        IF f \in Approved(grant, doc) \ grant.always THEN @[f] + 1 ELSE @[f]]]

(* A scan or delivery attempt in scope, its rejection filed under filed.   *)
Attempt(scope, filed, doc) ==
    /\ store' = [store EXCEPT ![scope] = Spent(@, doc)]
    /\ case' \in FiledCases(case, filed, filed, doc \ Approved(store[scope], doc))
    /\ CountUse(scope, store[scope], doc)

(* A rejection reported from outside. *)
Report(filed, bound, doc) ==
    /\ case' \in FiledCases(case, filed, bound, doc)
    /\ UNCHANGED <<store, used>>

Resolve(c, action) ==
    /\ Resolvable(case[c], action)
    /\ case' = [case EXCEPT ![c] = [@ EXCEPT !.status = StatusAfter(action)]]
    /\ store' = [store EXCEPT ![case[c].scope] = GrantAfter(@, case[c], action)]
    /\ UNCHANGED used

Next ==
    \/ \E scope, filed \in Scopes, doc \in Documents :
          Attempt(scope, filed, doc) \/ Report(filed, scope, doc)
    \/ \E c \in CaseIds, action \in Actions : Resolve(c, action)

Spec == Init /\ [][Next]_vars

-------------------------------------------------------------------------------
(* A grant appears or grows only because the user resolved a pending case  *)
(* of that workspace which lists that very finding, with the matching      *)
(* action: nothing consumed or revoked comes back.                         *)
Reviewed(scope, f, action) ==
    \E c \in CaseIds :
        /\ case[c].status = "pending" /\ case'[c].status = StatusAfter(action)
        /\ case[c].scope = scope /\ case[c].bound = scope
        /\ f \in case[c].findings

GrantStep ==
    \A scope \in Scopes, f \in Findings :
        /\ store'[scope].once[f] > store[scope].once[f]
               => /\ store'[scope].once[f] = store[scope].once[f] + 1
                  /\ Reviewed(scope, f, "allow_once")
        /\ f \in store'[scope].always \ store[scope].always
               => Reviewed(scope, f, "allow_always")

OnlyReviewsGrant == [][GrantStep]_vars

(* Every passage of a finding without an always grant, and every grant      *)
(* still open, is backed by an allow-once review of its own.                *)
Reviews(scope, f) ==
    {c \in CaseIds : /\ case[c].status = "unblocked_once"
                     /\ case[c].scope = scope
                     /\ f \in case[c].findings}

OnceMeansOnce ==
    \A scope \in Scopes, f \in Findings :
        used[scope][f] + store[scope].once[f] <= Cardinality(Reviews(scope, f))

(* A resolved case never changes again, and a pending one only by being    *)
(* resolved.                                                               *)
CaseStep ==
    \A c \in CaseIds :
        case'[c] # case[c] =>
            \/ case[c].status = "none"
            \/ /\ case[c].status = "pending"
               /\ case'[c].status \in Resolved
               /\ [case'[c] EXCEPT !.status = "pending"] = case[c]

CasesImmutable == [][CaseStep]_vars

(* docs/SKILL_LOGIC.md: keeping a case blocked revokes prior grants for the *)
(* exact identities in that case.                                           *)
KeepStep ==
    \A c \in CaseIds :
        case[c].status = "pending" /\ case'[c].status = "kept_rejected" =>
            \A f \in case[c].findings :
                /\ store'[case[c].scope].once[f] = 0
                /\ f \notin store'[case[c].scope].always

KeepRevokes == [][KeepStep]_vars

(* Repeated attempts share their pending case.                             *)
NoDuplicatePending ==
    \A c, d \in CaseIds :
        /\ case[c].status = "pending" /\ case[d].status = "pending"
        /\ case[c].scope = case[d].scope /\ case[c].findings = case[d].findings
        => c = d
===============================================================================
