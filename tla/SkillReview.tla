------------------------------- MODULE SkillReview ------------------------------
(***************************************************************************)
(* The review of flagged skill content by one user, as the server runs it: *)
(* overlapping scans, deliveries, reports and resolutions, each in a       *)
(* database session that locks the user's row (lock_approval_owner) before *)
(* it reads grants and cases and keeps the lock until its commit, while    *)
(* the user is moved between workspaces.                                   *)
(***************************************************************************)
EXTENDS SkillGrants

CONSTANTS Sessions,    \* requests that may run at the same time
          Personal,    \* the scope "__personal__" of a user without workspace
          Changes      \* bound: membership changes that may happen

ASSUME PersonalAssumption == Personal \in Scopes
ASSUME ChangesAssumption == Changes \in Nat

VARIABLES account,     \* the user: home workspace (org_id), memberships, is_active
          holder,      \* the session that holds the lock on the user's row
          session,     \* request -> what it is doing
          changes      \* membership changes so far

reviewVars == <<store, case, used, account, holder, session, changes>>

Workspaces == Scopes \ {Personal}
Accounts == [home : Scopes, member : SUBSET Workspaces, active : BOOLEAN]

(* scope: the workspace the request was authenticated for.  org: org_id of *)
(* its user object, which the locking SELECT refreshes, unless the actor   *)
(* is an API key.  grants and cases: the rows as read under the lock.      *)
SessionStates ==
    [phase : {"idle", "waiting", "deciding"},
     op : {"scan", "report", "resolve"}, byKey : BOOLEAN,
     scope : Scopes, org : Scopes, doc : SUBSET Findings,
     target : SUBSET CaseIds, action : Actions,
     grants : [Scopes -> Grants], cases : [CaseIds -> Cases]]

NoGrants == [s \in Scopes |-> NoGrant]
NoCases == [c \in CaseIds |-> NoCase]

NoSession == [phase |-> "idle", op |-> "scan", byKey |-> FALSE,
              scope |-> Personal, org |-> Personal, doc |-> {},
              target |-> {}, action |-> "keep_rejected",
              grants |-> NoGrants, cases |-> NoCases]

ReviewTypeOK ==
    /\ TypeOK
    /\ account \in Accounts
    /\ holder \in SUBSET Sessions
    /\ session \in [Sessions -> SessionStates]
    /\ changes \in 0..Changes

ReviewInit ==
    /\ Init
    /\ account \in {a \in Accounts :
           a.active /\ a.home \in Workspaces /\ a.member = {a.home}}
    /\ holder = {}
    /\ session = [s \in Sessions |-> NoSession]
    /\ changes = 0

Become(s, state) == session' = [session EXCEPT ![s] = state]

-------------------------------------------------------------------------------
(* Requests begin with authentication, which reads the account.            *)

(* POST /skills/scan, GET /skills/{slug}/download, GET /skills/live/{slug} *)
(* of content with findings; an API key acts for the workspace it belongs  *)
(* to (_live_actor), a signed-in user for the current one.                 *)
BeginScan(s, byKey, scope, doc) ==
    /\ session[s].phase = "idle"
    /\ account.active
    /\ IF byKey THEN scope \in Workspaces /\ (account.home = scope \/ scope \in account.member)
       ELSE scope = account.home
    /\ Become(s, [NoSession EXCEPT !.phase = "waiting", !.byKey = byKey,
                                   !.scope = scope, !.org = scope, !.doc = doc])
    /\ UNCHANGED <<store, case, used, account, holder, changes>>

(* POST /skills/rejections/report and /create, and a private draft refused. *)
BeginReport(s, doc) ==
    /\ session[s].phase = "idle"
    /\ account.active
    /\ Become(s, [NoSession EXCEPT !.phase = "waiting", !.op = "report",
                                   !.scope = account.home, !.org = account.home,
                                   !.doc = doc])
    /\ UNCHANGED <<store, case, used, account, holder, changes>>

(* POST /skills/rejections/{id}/resolve. *)
BeginResolve(s, c, action) ==
    /\ session[s].phase = "idle"
    /\ account.active
    /\ case[c].status # "none"
    /\ Become(s, [NoSession EXCEPT !.phase = "waiting", !.op = "resolve",
                                   !.scope = account.home, !.org = account.home,
                                   !.target = {c}, !.action = action])
    /\ UNCHANGED <<store, case, used, account, holder, changes>>

-------------------------------------------------------------------------------
(* lock_approval_owner. *)

(* Mutant of LockFree: the row is read without FOR UPDATE. *)
LockFreeAlways == TRUE

LockFree == holder = {}

(* A resolution insists on the current workspace; the others accept any    *)
(* the user is a member of.                                                *)
Admissible(state) ==
    /\ account.active
    /\ \/ account.home = state.scope
       \/ /\ state.op # "resolve"
          /\ state.scope # Personal
          /\ state.scope \in account.member

(* The lock, the refreshed user, and the rows read under the lock.         *)
Acquire(s) ==
    /\ session[s].phase = "waiting"
    /\ LockFree
    /\ Admissible(session[s])
    /\ holder' = holder \cup {s}
    /\ Become(s, [session[s] EXCEPT !.phase = "deciding",
                     !.org = IF session[s].byKey THEN @ ELSE account.home,
                     !.grants = store, !.cases = case])
    /\ UNCHANGED <<store, case, used, account, changes>>

(* 403, or the process dies, or the client goes away: a rollback.          *)
Abandon(s) ==
    /\ session[s].phase # "idle"
    /\ Become(s, NoSession)
    /\ holder' = holder \ {s}
    /\ UNCHANGED <<store, case, used, account, changes>>

Commit(s) ==
    /\ Become(s, NoSession)
    /\ holder' = holder \ {s}
    /\ UNCHANGED <<account, changes>>

(* A column of JSON is written as a whole: the row the session read, with  *)
(* its change; the row is left alone when nothing was consumed.            *)
WriteGrants(state, scope, grant) ==
    store' = IF grant = state.grants[scope] THEN store
             ELSE [state.grants EXCEPT ![scope] = grant]

(* Only the case the session files or resolves is written.                 *)
WriteCases(state, cs2) ==
    case' = [c \in CaseIds |-> IF cs2[c] # state.cases[c] THEN cs2[c] ELSE case[c]]

(* Consumption, and the rejection of what still blocks, in one commit.     *)
DecideScan(s) ==
    LET state == session[s]
        grant == state.grants[state.scope]
    IN  /\ state.phase = "deciding" /\ state.op = "scan"
        /\ WriteGrants(state, state.scope, Spent(grant, state.doc))
        /\ \E cs2 \in FiledCases(state.cases, state.org, state.org,
                                 state.doc \ Approved(grant, state.doc)) :
              WriteCases(state, cs2)
        /\ CountUse(state.scope, grant, state.doc)
        /\ Commit(s)

(* Reports bind the findings to the workspace known before the lock. *)
DecideReport(s) ==
    LET state == session[s]
    IN  /\ state.phase = "deciding" /\ state.op = "report"
        /\ \E cs2 \in FiledCases(state.cases, state.org, state.scope, state.doc) :
              WriteCases(state, cs2)
        /\ UNCHANGED <<store, used>>
        /\ Commit(s)

(* A case of another workspace is not found, one already resolved is       *)
(* returned or refused: nothing changes, as in Abandon.                    *)
DecideResolve(s, c) ==
    LET state == session[s]
        row == state.cases[c]
    IN  /\ state.phase = "deciding" /\ state.op = "resolve" /\ c \in state.target
        /\ row.scope = state.org
        /\ Resolvable(row, state.action)
        /\ WriteGrants(state, row.scope,
                       GrantAfter(state.grants[row.scope], row, state.action))
        /\ WriteCases(state, [state.cases EXCEPT ![c] =
                                 [@ EXCEPT !.status = StatusAfter(state.action)]])
        /\ UNCHANGED used
        /\ Commit(s)

-------------------------------------------------------------------------------
(* Membership changes by other requests.  Those that write the user's row  *)
(* wait for its lock; the lock does not cover membership rows.             *)
Change(new) ==
    /\ changes < Changes
    /\ changes' = changes + 1
    /\ account' = new
    /\ (new.home = account.home /\ new.active = account.active) \/ LockFree
    /\ UNCHANGED <<store, case, used, holder, session>>

(* switch_org *)
Switch(w) == w \in account.member /\ Change([account EXCEPT !.home = w])

(* add_existing_to_team *)
Join(w) ==
    /\ w \in Workspaces \ (account.member \cup {account.home})
    /\ Change([home |-> IF account.home = Personal THEN w ELSE account.home,
               member |-> account.member \cup {w}, active |-> TRUE])

(* leave_current_team, remove_org_user *)
Leave(w) ==
    /\ w \in account.member
    /\ LET left == account.member \ {w}
       IN  \E home \in (IF account.home # w THEN {account.home}
                        ELSE IF left = {} THEN {Personal} ELSE left) :
              Change([account EXCEPT !.home = home, !.member = left])

Deactivate == Change([account EXCEPT !.active = FALSE])

SessionStep(s) ==
    \/ \E byKey \in BOOLEAN, scope \in Scopes, doc \in Documents :
          BeginScan(s, byKey, scope, doc)
    \/ \E doc \in Documents : BeginReport(s, doc)
    \/ \E c \in CaseIds, action \in Actions : BeginResolve(s, c, action)
    \/ Acquire(s) \/ Abandon(s)
    \/ DecideScan(s) \/ DecideReport(s)
    \/ \E c \in CaseIds : DecideResolve(s, c)

AccountStep ==
    \/ \E w \in Workspaces : Switch(w) \/ Join(w) \/ Leave(w)
    \/ Deactivate

ReviewNext == (\E s \in Sessions : SessionStep(s)) \/ AccountStep

ReviewSpec == ReviewInit /\ [][ReviewNext]_reviewVars

-------------------------------------------------------------------------------
(* "Database row locks serialize grant updates and consumption across      *)
(* workers": every commit is one atomic step of SkillGrants.               *)
Serialized == Spec

(* The lock excludes: two sessions are never between their reading of the  *)
(* rows and their commit, so what a session decides on is what is stored.  *)
DecidesOnCurrentRows ==
    \A s \in Sessions : session[s].phase = "deciding" =>
        /\ holder = {s}
        /\ session[s].grants = store
        /\ session[s].cases = case
===============================================================================
