------------------------------ MODULE Workspaces -------------------------------
(***************************************************************************)
(* Workspaces ("organizations", "teams"), who belongs to them and who      *)
(* leads them: app/routers/org.py and the user part of                     *)
(* app/routers/admin.py, over the rows of Organization, User and           *)
(* OrgMembership.                                                          *)
(*                                                                         *)
(* Membership is stored twice: a user's current workspace is a column of   *)
(* his row, with a flag whether he leads it, and there is a row with a     *)
(* role for every workspace he has joined.                                 *)
(*                                                                         *)
(* A request is one step.  Two that overlap would each decide on what they *)
(* have read: no row is locked here.  Signup (app/routers/auth.py) opens a *)
(* workspace too: the one that nobody leads.                               *)
(***************************************************************************)
EXTENDS Integers, FiniteSets

CONSTANTS Users, Orgs,
          Founders,   \* users with an account, Clerk's, and no workspace from the start
          Selections, \* the users a bulk action may name together
          Names,      \* 1..n: what "Team 1", "Team 2", ... and others are called
          MaxMembers, \* TEAM_MEMBER_CAP
          MaxTeams,   \* the cap of create_org
          NoOrg, NoName

ASSUME WorkspacesAssumption == /\ Founders \subseteq Users /\ Selections \subseteq SUBSET Users
                               /\ NoOrg \notin Orgs /\ NoName \notin Names
                               /\ IsFiniteSet(Names) /\ Names = 1..Cardinality(Names)
ASSUME CapsAssumption == MaxMembers \in Nat /\ MaxTeams \in Nat

VARIABLES rows,      \* the three tables
          \* history, read by properties only
          removed    \* <<user, org>>: put out or gone, and not let in since

workVars == <<rows, removed>>

Roles == {"none", "member", "admin"}
Tables == [exists : SUBSET Orgs,
           name   : [Orgs -> Names \cup {NoName}],
           known  : SUBSET Users,
           org    : [Users -> Orgs \cup {NoOrg}],       \* User.org_id
           admin  : [Users -> BOOLEAN],                 \* User.is_admin
           active : [Users -> BOOLEAN],                 \* User.is_active
           role   : [Users -> [Orgs -> Roles]]]         \* OrgMembership

WorkspacesTypeOK ==
    /\ rows \in Tables
    /\ removed \subseteq Users \X Orgs

NewRows == [exists |-> {}, name |-> [o \in Orgs |-> NoName], known |-> Founders,
            org |-> [u \in Users |-> NoOrg], admin |-> [u \in Users |-> FALSE],
            active |-> [u \in Users |-> TRUE],
            role |-> [u \in Users |-> [o \in Orgs |-> "none"]]]

WorkspacesInit ==
    /\ rows = NewRows
    /\ removed = {}

-------------------------------------------------------------------------------
(* What the handlers ask of the tables t. *)
Member(t, u, o) == t.role[u][o] # "none"
Belongs(t, u, o) == t.org[u] = o \/ Member(t, u, o)

Leaders(t, o) == {u \in Users : t.role[u][o] = "admin" \/ (t.org[u] = o /\ t.admin[u])}

OrgAdmin(t, u) == t.admin[u] /\ t.org[u] # NoOrg
Leads(t, u, o) == u \in Leaders(t, o)

Below(t, o) == Cardinality({u \in Users : Belongs(t, u, o)}) < MaxMembers

(* The tables in which u works in another workspace of his, or in none:     *)
(* his oldest membership or the first the database finds, here any.         *)
Rehomed(t, u) ==
    IF \E o \in Orgs : Member(t, u, o)
    THEN {[t EXCEPT !.org[u] = o, !.admin[u] = t.role[u][o] = "admin"] :
             o \in {o \in Orgs : Member(t, u, o)}}
    ELSE {[t EXCEPT !.org[u] = NoOrg, !.admin[u] = FALSE]}

(* A workspace without a leader gets one: a member, else a user who works   *)
(* there.                                                                   *)
Promoted(t, o) ==
    LET members == {u \in Users : Member(t, u, o)}
        workers == {u \in Users : t.org[u] = o}
    IN  IF members # {}
        THEN {[t EXCEPT !.role[u][o] = "admin", !.admin[u] = @ \/ t.org[u] = o] : u \in members}
        ELSE IF workers # {}
        THEN {[t EXCEPT !.role[u][o] = "admin", !.admin[u] = TRUE] : u \in workers}
        ELSE {t}

(* The one who adds somebody gets a membership row, if he has none. *)
Enrolled(t, u, o) ==
    IF Member(t, u, o) THEN t
    ELSE [t EXCEPT !.role[u][o] = IF t.admin[u] THEN "admin" ELSE "member"]

WasLeader(t, u, o) ==
    IF Member(t, u, o) THEN t.role[u][o] = "admin" ELSE t.org[u] = o /\ t.admin[u]

-------------------------------------------------------------------------------
(* The handlers: the tables each may leave behind, none if it refuses.      *)

(* _next_team_name: one more than the highest number among the names of the *)
(* workspaces u belongs to.                                                 *)
NextName(t, u) ==
    LET own == {t.name[o] : o \in {p \in t.exists : Belongs(t, u, p)}}
        higher == {n \in Names : \A m \in own : m < n}
    IN  IF higher = {} THEN NoName ELSE CHOOSE n \in higher : \A m \in higher : n <= m

(* A name somebody else's workspace has breaks organizations.name, which is *)
(* unique: the commit fails.                                                *)
NameFree(t, n) == n # NoName /\ \A o \in t.exists : t.name[o] # n

CreateOrg(t, u, o, n) ==
    IF /\ Cardinality({p \in t.exists : Belongs(t, u, p)}) < MaxTeams
       /\ t.name[o] = NoName /\ NameFree(t, n)
    THEN {[t EXCEPT !.exists = @ \cup {o}, !.name[o] = n, !.role[u][o] = "admin",
                    !.org[u] = o, !.admin[u] = TRUE]}
    ELSE {}

RenameOrg(t, u, o, n) ==
    IF o \in t.exists /\ Leads(t, u, o) /\ NameFree(t, n)
    THEN {[t EXCEPT !.name[o] = n]} ELSE {}

(* Mutant of SwitchOrg: the flag is carried over to the other workspace. *)
SwitchOrgKeepingRole(t, u, o) ==
    IF o \in t.exists /\ Belongs(t, u, o) THEN {[t EXCEPT !.org[u] = o]} ELSE {}

SwitchOrg(t, u, o) ==
    IF o \in t.exists /\ Belongs(t, u, o)
    THEN {[t EXCEPT !.org[u] = o,
                    !.admin[u] = IF Member(t, u, o) THEN t.role[u][o] = "admin" ELSE @]}
    ELSE {}

(* The memberships go first; then everyone who works there moves on. *)
DeleteOrg(t, u, o) ==
    LET without == [t EXCEPT !.role = [v \in Users |-> [t.role[v] EXCEPT ![o] = "none"]],
                             !.exists = @ \ {o}]
        moves == [Users -> Orgs \cup {NoOrg}]
        fits(next) == \A v \in Users :
            IF t.org[v] # o THEN next[v] = t.org[v]
            ELSE IF \E p \in Orgs : Member(without, v, p) THEN next[v] # NoOrg /\ Member(without, v, next[v])
            ELSE next[v] = NoOrg
    IN  IF o \in t.exists /\ Leads(t, u, o)
        THEN {[without EXCEPT !.org = next,
                              !.admin = [v \in Users |->
                                  IF t.org[v] # o THEN t.admin[v]
                                  ELSE next[v] # NoOrg /\ t.role[v][next[v]] = "admin"]] :
                 next \in {n \in moves : fits(n)}}
        ELSE {}

(* Mutant of LeaveOrg: the last leader may leave. *)
LeaveOrgAlways(t, u) ==
    LET o == t.org[u] IN
    IF o = NoOrg THEN {} ELSE Rehomed([t EXCEPT !.role[u][o] = "none"], u)

(* leave_current_team.  When it counts the leaders that remain, the leaver  *)
(* still works there.                                                       *)
LeaveOrg(t, u) ==
    LET o == t.org[u]
        gone == [t EXCEPT !.role[u][o] = "none"]
        settled == IF WasLeader(t, u, o) /\ Leaders(gone, o) = {} THEN Promoted(gone, o) ELSE {gone}
    IN  IF o = NoOrg \/ Leaders(t, o) = {u} THEN {}
        ELSE UNION {Rehomed(s, u) : s \in settled}

InviteUser(t, by, u, lead) ==
    LET o == t.org[by] IN
    IF OrgAdmin(t, by) /\ Below(t, o) /\ u \notin t.known
    THEN {Enrolled([t EXCEPT !.known = @ \cup {u}, !.org[u] = o, !.admin[u] = lead,
                             !.role[u][o] = IF lead THEN "admin" ELSE "member"], by, o)}
    ELSE {}

AddExisting(t, by, u) ==
    LET o == t.org[by] IN
    IF OrgAdmin(t, by) /\ Below(t, o) /\ u \in t.known /\ ~Belongs(t, u, o)
    THEN {Enrolled([t EXCEPT !.org[u] = IF @ = NoOrg THEN o ELSE @, !.active[u] = TRUE,
                             !.role[u][o] = "member"], by, o)}
    ELSE {}

(* update_org_user with is_admin; a user's role follows it everywhere, his  *)
(* flag only if he works here.                                              *)
SetLeader(t, by, u, lead) ==
    LET o == t.org[by] IN
    IF /\ OrgAdmin(t, by) /\ u \in t.known /\ Belongs(t, u, o)
       /\ ~lead => Leaders(t, o) # {u}
    THEN {[t EXCEPT !.role[u][o] = IF lead THEN "admin" ELSE IF @ = "none" THEN "none" ELSE "member",
                    !.admin[u] = IF t.org[u] = o THEN lead ELSE @]}
    ELSE {}

(* update_org_user with is_active; nobody disables himself. *)
SetActive(t, by, u, value) ==
    IF OrgAdmin(t, by) /\ u \in t.known /\ Belongs(t, u, t.org[by]) /\ (u = by => value)
    THEN {[t EXCEPT !.active[u] = value]} ELSE {}

(* Mutant of RemoveUser: his role stays behind. *)
RemoveUserFromHome(t, by, u) ==
    IF OrgAdmin(t, by) /\ u # by /\ u \in t.known /\ t.org[u] = t.org[by]
    THEN {[t EXCEPT !.org[u] = NoOrg, !.admin[u] = FALSE]} ELSE {}

RemoveUser(t, by, u) ==
    LET o == t.org[by]
        gone == [t EXCEPT !.role[u][o] = "none"]
        moved == IF t.org[u] = o THEN Rehomed(gone, u) ELSE {gone}
    IN  IF OrgAdmin(t, by) /\ u # by /\ u \in t.known /\ Belongs(t, u, o)
        THEN UNION {IF WasLeader(t, u, o) /\ Leaders(m, o) = {} THEN Promoted(m, o) ELSE {m} : m \in moved}
        ELSE {}

(* bulk_user_action: those who work here, and their membership rows stay. *)
BulkAction(t, by, us, action) ==
    LET chosen == {u \in us \ {by} : u \in t.known /\ t.org[u] = t.org[by]} IN
    IF ~OrgAdmin(t, by) THEN {}
    ELSE IF action = "remove"
    THEN {[t EXCEPT !.org = [u \in Users |-> IF u \in chosen THEN NoOrg ELSE @[u]],
                    !.admin = [u \in Users |-> @[u] /\ u \notin chosen]]}
    ELSE {[t EXCEPT !.active = [u \in Users |-> IF u \in chosen THEN action = "enable" ELSE @[u]]]}

Effect(q, t) ==
    CASE q[1] = "create"   -> CreateOrg(t, q[2], q[3], q[4])
      [] q[1] = "default"  -> CreateOrg(t, q[2], q[3], NextName(t, q[2]))
      [] q[1] = "rename"   -> RenameOrg(t, q[2], q[3], q[4])
      [] q[1] = "switch"   -> SwitchOrg(t, q[2], q[3])
      [] q[1] = "delete"   -> DeleteOrg(t, q[2], q[3])
      [] q[1] = "leave"    -> LeaveOrg(t, q[2])
      [] q[1] = "invite"   -> InviteUser(t, q[2], q[3], q[4])
      [] q[1] = "add"      -> AddExisting(t, q[2], q[3])
      [] q[1] = "lead"     -> SetLeader(t, q[2], q[3], q[4])
      [] q[1] = "active"   -> SetActive(t, q[2], q[3], q[4])
      [] q[1] = "remove"   -> RemoveUser(t, q[2], q[3])
      [] q[1] = "bulk"     -> BulkAction(t, q[2], q[3], q[4])

-------------------------------------------------------------------------------
PutOut(q, t) ==
    CASE q[1] = "leave"  -> {<<q[2], t.org[q[2]]>>}
      [] q[1] = "remove" -> {<<q[3], t.org[q[2]]>>}
      [] q[1] = "delete" -> Users \X {q[3]}
      [] OTHER -> {}

LetIn(q, t) == IF q[1] \in {"invite", "add"} THEN {<<q[3], t.org[q[2]]>>} ELSE {}

(* One of a user who is active, unless the handler refuses it. *)
Serve(q) ==
    /\ q[2] \in rows.known /\ rows.active[q[2]]
    /\ rows' \in Effect(q, rows)
    /\ removed' = (removed \cup PutOut(q, rows)) \ LetIn(q, rows)

(* signup: its user works in the workspace it opens, but is_admin is False   *)
(* and no OrgMembership says that he belongs there.                         *)
RegisterAlone(u, o, n) ==
    /\ u \notin rows.known
    /\ rows.name[o] = NoName /\ NameFree(rows, n)
    /\ rows' = [rows EXCEPT !.known = @ \cup {u}, !.exists = @ \cup {o}, !.name[o] = n,
                            !.org[u] = o]
    /\ UNCHANGED removed

Asked ==
    {<<k, u, o>> : k \in {"default", "switch", "delete"}, u \in Users, o \in Orgs}
    \cup {<<k, u, o, n>> : k \in {"create", "rename"}, u \in Users, o \in Orgs, n \in Names}
    \cup {<<"leave", u>> : u \in Users}
    \cup {<<k, u, v>> : k \in {"add", "remove"}, u \in Users, v \in Users}
    \cup {<<k, u, v, b>> : k \in {"invite", "lead", "active"}, u \in Users, v \in Users, b \in BOOLEAN}
    \cup {<<"bulk", u, us, a>> : u \in Users, us \in Selections, a \in {"enable", "disable", "remove"}}

WorkspacesNext ==
    \/ \E q \in Asked : Serve(q)
    \/ \E u \in Users, o \in Orgs, n \in Names : RegisterAlone(u, o, n)

WorkspacesSpec == WorkspacesInit /\ [][WorkspacesNext]_workVars

-------------------------------------------------------------------------------
(* "Cannot demote: team must have at least 1 leader": through any sequence  *)
(* of leaving, demoting, removing, switching and deleting elsewhere, a      *)
(* workspace that is led is led until it is deleted.  (Said of requests     *)
(* that follow one another.  A leader whose account is disabled counts, as  *)
(* the code counts him; the workspace of a signup is never led at all.)     *)
LeaderStays ==
    [][\A o \in rows'.exists : Leaders(rows, o) # {} => Leaders(rows, o)' # {}]_workVars

(* The two places that say who leads where agree, when handlers follow one  *)
(* another: whoever works in a workspace has the rights his membership      *)
(* gives him there and takes none along from another (switch_org,           *)
(* delete_org, leave_current_team, remove_org_user).                        *)
RolesAgree ==
    \A u \in Users : rows.org[u] # NoOrg =>
        (rows.admin[u] <=> rows.role[u][rows.org[u]] = "admin")

(* Who was removed from a workspace, left it or saw it deleted cannot go    *)
(* back to it until a leader lets him in again, whichever other workspaces  *)
(* and switches he goes through.  (The bulk removal promises less: it       *)
(* leaves the membership, and with it the way back.)                        *)
RemovedStaysOut == \A pair \in removed : ~Belongs(rows, pair[1], pair[2])

(* Who works in a workspace has the rights he was given there, and nobody   *)
(* works in one he was put out of.                                          *)
MembershipSound == RolesAgree /\ RemovedStaysOut
===============================================================================
