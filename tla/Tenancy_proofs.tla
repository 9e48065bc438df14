---------------------------- MODULE Tenancy_proofs ----------------------------
(***************************************************************************)
(* Proofs about users and what belongs to them: Workspaces, for any number *)
(* of users and workspaces; Accounts, for any accounts, links, addresses   *)
(* and notifications; Sessions, for any tokens and signing keys; Billing,  *)
(* for any number of sessions and purchases and any amounts; Conversations, *)
(* for any people, words, memories and requests; and all of MCTenancy.     *)
(***************************************************************************)
EXTENDS Lists_proofs, MCTenancy

-------------------------------------------------------------------------------
(* Workspaces.                                                              *)

(* A user's row and his memberships agree, and name workspaces that exist.  *)
Placed(t, u) ==
    /\ t.org[u] # NoOrg =>
          /\ t.org[u] \in t.exists
          /\ t.admin[u] <=> t.role[u][t.org[u]] = "admin"
    /\ t.org[u] = NoOrg => ~t.admin[u]
    /\ \A o \in Orgs : Member(t, u, o) => o \in t.exists
    /\ u \notin t.known => t.org[u] = NoOrg /\ \A o \in Orgs : ~Member(t, u, o)

(* Tables as handlers leave them. *)
RowsSound(t) ==
    /\ t \in Tables
    /\ \A u \in Users : Placed(t, u)
    /\ \A o \in t.exists : t.name[o] # NoName

Led(t, o) == \E u \in Users : t.role[u][o] = "admin"

(* What a handler may do to tables t, when it puts out and lets in: no      *)
(* workspace that remains loses its last leader, and nobody else comes to   *)
(* belong to a workspace that ever had a name.                              *)
Handled(t, s, out, in) ==
    /\ RowsSound(s)
    /\ \A o \in s.exists : Led(t, o) => Led(s, o)
    /\ \A o \in Orgs : t.name[o] # NoName => s.name[o] # NoName
    /\ \A v \in Users, o \in Orgs :
          Belongs(s, v, o) =>
              \/ Belongs(t, v, o) /\ <<v, o>> \notin out
              \/ <<v, o>> \in in
              \/ t.name[o] = NoName
    /\ out \subseteq Users \X t.exists

WorkspacesInv ==
    /\ RowsSound(rows)
    /\ removed \subseteq Users \X Orgs
    /\ \A pair \in removed : rows.name[pair[2]] # NoName /\ ~Belongs(rows, pair[1], pair[2])

LEMMA SoundFields ==
    ASSUME NEW t, RowsSound(t)
    PROVE  /\ t.exists \subseteq Orgs /\ t.known \subseteq Users
           /\ t.name \in [Orgs -> Names \cup {NoName}] /\ t.org \in [Users -> Orgs \cup {NoOrg}]
           /\ t.admin \in [Users -> BOOLEAN] /\ t.active \in [Users -> BOOLEAN]
           /\ t.role \in [Users -> [Orgs -> Roles]]
           /\ \A u \in Users, o \in Orgs : t.role[u][o] \in Roles
BY DEF RowsSound, Tables

(* Leading a workspace is the membership's role: the flag says nothing else. *)
LEMMA LeadersByRole ==
    ASSUME NEW t, RowsSound(t), NEW o \in Orgs
    PROVE  Leaders(t, o) = {u \in Users : t.role[u][o] = "admin"}
<1>1. o # NoOrg
  BY WorkspacesAssumption
<1> QED BY <1>1 DEF Leaders, RowsSound, Placed

LEMMA OrgAdminByRole ==
    ASSUME NEW t, RowsSound(t), NEW u \in Users, OrgAdmin(t, u)
    PROVE  /\ t.org[u] \in Orgs /\ t.org[u] \in t.exists /\ t.role[u][t.org[u]] = "admin"
           /\ t.admin[u] /\ u \in t.known
BY SoundFields DEF OrgAdmin, RowsSound, Placed

LEMMA RoleGiven ==
    ASSUME NEW role \in [Users -> [Orgs -> Roles]], NEW u \in Users, NEW o \in Orgs, NEW r \in Roles
    PROVE  /\ [role EXCEPT ![u][o] = r] \in [Users -> [Orgs -> Roles]]
           /\ \A v \in Users, p \in Orgs :
                 [role EXCEPT ![u][o] = r][v][p] = IF v = u /\ p = o THEN r ELSE role[v][p]
OBVIOUS

LEMMA InitWorkspaces == WorkspacesInit => WorkspacesInv
<1> SUFFICES ASSUME WorkspacesInit PROVE WorkspacesInv
  OBVIOUS
<1>1. NewRows \in Tables
  BY WorkspacesAssumption DEF NewRows, Tables, Roles
<1>2. \A u \in Users : Placed(NewRows, u)
  BY DEF Placed, NewRows, Member
<1>3. RowsSound(NewRows)
  BY <1>1, <1>2 DEF RowsSound, NewRows
<1> QED BY <1>3 DEF WorkspacesInit, WorkspacesInv

-------------------------------------------------------------------------------
LEMMA NextNameTyped == ASSUME NEW t, NEW u PROVE NextName(t, u) \in Names \cup {NoName}
<1> DEFINE own == {t.name[o] : o \in {p \in t.exists : Belongs(t, u, p)}}
           higher == {n \in Names : \A m \in own : m < n}
<1>1. Names \subseteq Nat
  <2>1. Cardinality(Names) \in Nat
    BY WorkspacesAssumption, FS_CardinalityType
  <2> QED BY <2>1, WorkspacesAssumption
<1>2. higher \in SUBSET Nat /\ higher \subseteq Names
  BY <1>1
<1>3. NextName(t, u) = IF higher = {} THEN NoName ELSE CHOOSE n \in higher : \A m \in higher : n <= m
  BY DEF NextName
<1> HIDE DEF higher
<1>4. higher # {} => \E n \in higher : \A m \in higher : n <= m
  BY <1>2, SomeLeast
<1> QED BY <1>2, <1>3, <1>4

LEMMA CreateHandled ==
    ASSUME NEW t, RowsSound(t), NEW u \in t.known, NEW o \in Orgs, NEW n \in Names \cup {NoName},
           NEW s \in CreateOrg(t, u, o, n)
    PROVE  Handled(t, s, {}, {})
<1> USE SoundFields
<1>1. u \in Users /\ t.name[o] = NoName /\ n # NoName
  BY DEF CreateOrg, NameFree
<1>2. s = [t EXCEPT !.exists = @ \cup {o}, !.name[o] = n, !.role[u][o] = "admin",
                    !.org[u] = o, !.admin[u] = TRUE]
  BY DEF CreateOrg
<1> DEFINE role == [t.role EXCEPT ![u][o] = "admin"]
<1>3. role \in [Users -> [Orgs -> Roles]]
      /\ \A v \in Users, p \in Orgs : role[v][p] = IF v = u /\ p = o THEN "admin" ELSE t.role[v][p]
  BY <1>1, RoleGiven DEF Roles
<1>4. /\ s.exists = t.exists \cup {o} /\ s.name = [t.name EXCEPT ![o] = n] /\ s.role = role
      /\ s.org = [t.org EXCEPT ![u] = o] /\ s.admin = [t.admin EXCEPT ![u] = TRUE]
      /\ s.known = t.known
  BY <1>2 DEF RowsSound, Tables
<1>5. s \in Tables
  BY <1>1, <1>2, <1>3 DEF RowsSound, Tables
<1> HIDE DEF role
<1>6. \A v \in Users : v # u => Placed(s, v)
  BY <1>1, <1>3, <1>4 DEF RowsSound, Placed, Member
<1>7. Placed(s, u)
  BY <1>1, <1>3, <1>4, WorkspacesAssumption DEF RowsSound, Placed, Member
<1>8. /\ \A p \in s.exists : s.name[p] # NoName
      /\ \A p \in s.exists : Led(t, p) => Led(s, p)
  BY <1>1, <1>3, <1>4 DEF RowsSound, Led
<1>9. RowsSound(s)
  BY <1>5, <1>6, <1>7, <1>8 DEF RowsSound
<1>10. \A v \in Users, p \in Orgs : Belongs(s, v, p) => Belongs(t, v, p) \/ p = o
  BY <1>1, <1>3, <1>4 DEF Belongs, Member
<1> QED BY <1>1, <1>4, <1>8, <1>9, <1>10 DEF Handled

LEMMA RenameHandled ==
    ASSUME NEW t, RowsSound(t), NEW u \in t.known, NEW o \in Orgs, NEW n \in Names,
           NEW s \in RenameOrg(t, u, o, n)
    PROVE  Handled(t, s, {}, {})
<1> USE SoundFields
<1>1. s = [t EXCEPT !.name[o] = n] /\ n # NoName
  BY WorkspacesAssumption DEF RenameOrg
<1>2. /\ s.exists = t.exists /\ s.name = [t.name EXCEPT ![o] = n] /\ s.role = t.role
      /\ s.org = t.org /\ s.admin = t.admin /\ s.known = t.known /\ s \in Tables
  BY <1>1 DEF RowsSound, Tables
<1>3. RowsSound(s)
  BY <1>1, <1>2 DEF RowsSound, Placed, Member
<1> QED BY <1>1, <1>2, <1>3 DEF Handled, Belongs, Member, Led

(* Where a user works changes, to one of his memberships. *)
LEMMA SwitchHandled ==
    ASSUME NEW t, RowsSound(t), NEW u \in t.known, NEW o \in Orgs, NEW s \in SwitchOrg(t, u, o)
    PROVE  Handled(t, s, {}, {})
<1> USE SoundFields
<1> DEFINE flag == IF Member(t, u, o) THEN t.role[u][o] = "admin" ELSE t.admin[u]
<1>1. u \in Users /\ o \in t.exists /\ Belongs(t, u, o) /\ flag \in BOOLEAN
      /\ s = [t EXCEPT !.org[u] = o, !.admin[u] = flag]
  BY DEF SwitchOrg
<1>2. /\ s.exists = t.exists /\ s.name = t.name /\ s.role = t.role /\ s.known = t.known
      /\ s.org = [t.org EXCEPT ![u] = o] /\ s.admin = [t.admin EXCEPT ![u] = flag]
      /\ s \in Tables
  BY <1>1 DEF RowsSound, Tables
<1>3. \A v \in Users : v # u => Placed(s, v)
  BY <1>2 DEF RowsSound, Placed, Member
<1>4. Placed(s, u)
  BY <1>1, <1>2, WorkspacesAssumption DEF RowsSound, Placed, Member, Belongs
<1>5. RowsSound(s)
  BY <1>2, <1>3, <1>4 DEF RowsSound
<1>6. \A v \in Users, p \in Orgs : Belongs(s, v, p) => Belongs(t, v, p)
  BY <1>1, <1>2 DEF Belongs, Member
<1> QED BY <1>2, <1>5, <1>6 DEF Handled, Led

LEMMA DeleteHandled ==
    ASSUME NEW t, RowsSound(t), NEW u \in t.known, NEW o \in Orgs, NEW s \in DeleteOrg(t, u, o)
    PROVE  Handled(t, s, Users \X {o}, {})
<1> USE SoundFields
<1> DEFINE role == [v \in Users |-> [t.role[v] EXCEPT ![o] = "none"]]
           without == [t EXCEPT !.role = role, !.exists = @ \ {o}]
           flag(next) == [v \in Users |-> IF t.org[v] # o THEN t.admin[v]
                                          ELSE next[v] # NoOrg /\ t.role[v][next[v]] = "admin"]
           fits(next) == \A v \in Users :
               IF t.org[v] # o THEN next[v] = t.org[v]
               ELSE IF \E p \in Orgs : Member(without, v, p)
                    THEN next[v] # NoOrg /\ Member(without, v, next[v])
                    ELSE next[v] = NoOrg
<1>1. o \in t.exists
  BY DEF DeleteOrg
<1>2. PICK next \in [Users -> Orgs \cup {NoOrg}] :
        fits(next) /\ s = [without EXCEPT !.org = next, !.admin = flag(next)]
  <2>1. s \in {[without EXCEPT !.org = next, !.admin = flag(next)] :
                 next \in {n \in [Users -> Orgs \cup {NoOrg}] : fits(n)}}
    BY <1>1, Zenon DEF DeleteOrg
  <2> HIDE DEF fits, flag, without
  <2> QED BY <2>1
<1>3. role \in [Users -> [Orgs -> Roles]]
      /\ \A v \in Users, p \in Orgs : role[v][p] = IF p = o THEN "none" ELSE t.role[v][p]
  BY DEF Roles
<1>4. \A v \in Users, p \in Orgs : Member(without, v, p) <=> (p # o /\ Member(t, v, p))
  BY <1>3 DEF Member, RowsSound, Tables
<1>5. \A v \in Users :
        /\ t.org[v] # o => next[v] = t.org[v]
        /\ t.org[v] = o /\ next[v] # NoOrg => (next[v] # o /\ next[v] \in Orgs /\ Member(t, v, next[v]))
  BY <1>2, <1>4
<1>6. flag(next) \in [Users -> BOOLEAN]
  BY DEF RowsSound, Tables
<1>7. /\ s.exists = t.exists \ {o} /\ s.name = t.name /\ s.role = role /\ s.known = t.known
      /\ s.org = next /\ s.admin = flag(next) /\ s \in Tables
  BY <1>2, <1>3, <1>6 DEF RowsSound, Tables
<1>8. ASSUME NEW v \in Users PROVE Placed(s, v)
  <2>1. Placed(t, v) /\ next[v] \in Orgs \cup {NoOrg}
    BY DEF RowsSound
  <2>2. \A p \in Orgs : s.role[v][p] = IF p = o THEN "none" ELSE t.role[v][p]
    BY <1>3, <1>7
  <2>3. s.admin[v] = IF t.org[v] # o THEN t.admin[v] ELSE next[v] # NoOrg /\ t.role[v][next[v]] = "admin"
    BY <1>7
  <2> HIDE DEF flag, role
  <2>4. \A p \in Orgs : Member(s, v, p) => p \in s.exists
    BY <1>7, <2>1, <2>2 DEF Placed, Member
  <2>5. CASE t.org[v] # o
    BY <1>1, <1>5, <1>7, <2>1, <2>2, <2>3, <2>4, <2>5 DEF Placed, Member
  <2>6. CASE t.org[v] = o
    <3>1. t.org[v] # NoOrg /\ v \in t.known
      BY <1>1, <2>1, <2>6, WorkspacesAssumption DEF Placed
    <3>2. CASE next[v] = NoOrg
      BY <1>7, <2>1, <2>2, <2>3, <2>4, <2>6, <3>1, <3>2 DEF Placed, Member
    <3>3. CASE next[v] # NoOrg
      <4>1. next[v] # o /\ next[v] \in Orgs /\ Member(t, v, next[v])
        BY <1>5, <2>6, <3>3
      <4>2. s.org[v] = next[v] /\ s.role[v][next[v]] = t.role[v][next[v]]
            /\ next[v] \in s.exists
        BY <1>7, <2>1, <2>2, <4>1 DEF Placed
      <4> QED BY <1>7, <2>3, <2>4, <2>6, <3>1, <3>3, <4>2 DEF Placed
    <3> QED BY <3>2, <3>3
  <2> QED BY <2>5, <2>6
<1>9. RowsSound(s)
  BY <1>3, <1>7, <1>8 DEF RowsSound
<1>10. \A v \in Users, p \in Orgs : Belongs(s, v, p) => Belongs(t, v, p) /\ p # o
  BY <1>3, <1>5, <1>7, WorkspacesAssumption DEF Belongs, Member
<1>11. \A p \in s.exists : Led(t, p) => Led(s, p)
  BY <1>3, <1>7 DEF Led
<1> QED BY <1>1, <1>7, <1>9, <1>10, <1>11 DEF Handled

LEMMA RehomedForm ==
    ASSUME NEW g \in Tables, NEW u \in Users, NEW s \in Rehomed(g, u)
    PROVE  \E home \in Orgs \cup {NoOrg}, flag \in BOOLEAN :
              /\ s \in Tables /\ s.exists = g.exists /\ s.name = g.name /\ s.known = g.known
              /\ s.role = g.role /\ s.org = [g.org EXCEPT ![u] = home]
              /\ s.admin = [g.admin EXCEPT ![u] = flag]
              /\ \/ home = NoOrg /\ ~flag
                 \/ home \in Orgs /\ Member(g, u, home) /\ (flag <=> g.role[u][home] = "admin")
<1> DEFINE at(home) == [g EXCEPT !.org[u] = home, !.admin[u] = g.role[u][home] = "admin"]
           out == [g EXCEPT !.org[u] = NoOrg, !.admin[u] = FALSE]
<1>1. s \in IF \E o \in Orgs : Member(g, u, o) THEN {at(o) : o \in {o \in Orgs : Member(g, u, o)}}
           ELSE {out}
  BY Zenon DEF Rehomed
<1>2. (\E home \in Orgs : Member(g, u, home) /\ s = at(home)) \/ s = out
  <2> HIDE DEF at, out
  <2> QED BY <1>1
<1>3. CASE s = out
  <2>1. /\ s \in Tables /\ s.exists = g.exists /\ s.name = g.name /\ s.known = g.known
        /\ s.role = g.role /\ s.org = [g.org EXCEPT ![u] = NoOrg]
        /\ s.admin = [g.admin EXCEPT ![u] = FALSE]
    BY <1>3 DEF Tables
  <2> QED BY <2>1
<1>4. ASSUME NEW home \in Orgs, Member(g, u, home), s = at(home)
      PROVE  \E flag \in BOOLEAN :
              /\ s \in Tables /\ s.exists = g.exists /\ s.name = g.name /\ s.known = g.known
              /\ s.role = g.role /\ s.org = [g.org EXCEPT ![u] = home]
              /\ s.admin = [g.admin EXCEPT ![u] = flag] /\ (flag <=> g.role[u][home] = "admin")
  <2>1. PICK flag \in BOOLEAN : flag = (g.role[u][home] = "admin")
    OBVIOUS
  <2>2. /\ s \in Tables /\ s.exists = g.exists /\ s.name = g.name /\ s.known = g.known
        /\ s.role = g.role /\ s.org = [g.org EXCEPT ![u] = home]
        /\ s.admin = [g.admin EXCEPT ![u] = flag]
    BY <1>4, <2>1 DEF Tables
  <2> QED BY <2>1, <2>2
<1> HIDE DEF at, out
<1> QED BY <1>2, <1>3, <1>4

(* A membership goes whose holder works elsewhere, or moves on with it, and *)
(* whose workspace keeps another leader if it was a leader's.               *)
LEMMA RehomedHandled ==
    ASSUME NEW t, RowsSound(t), NEW u \in Users, NEW o \in Orgs, o \in t.exists,
           t.role[u][o] = "admin" => \E w \in Users : w # u /\ t.role[w][o] = "admin",
           NEW s, t.org[u] # o => s = [t EXCEPT !.role[u][o] = "none"],
                  t.org[u] = o => s \in Rehomed([t EXCEPT !.role[u][o] = "none"], u)
    PROVE  Handled(t, s, {<<u, o>>}, {})
<1> USE SoundFields
<1> DEFINE role == [t.role EXCEPT ![u][o] = "none"]
           gone == [t EXCEPT !.role[u][o] = "none"]
<1>1. role \in [Users -> [Orgs -> Roles]]
      /\ \A v \in Users, p \in Orgs : role[v][p] = IF v = u /\ p = o THEN "none" ELSE t.role[v][p]
  BY RoleGiven DEF Roles
<1>2. /\ gone \in Tables /\ gone.role = role /\ gone.exists = t.exists /\ gone.name = t.name
      /\ gone.known = t.known /\ gone.org = t.org /\ gone.admin = t.admin
  BY <1>1 DEF RowsSound, Tables
<1>3. /\ \A p \in t.exists : t.name[p] # NoName
      /\ \A p \in t.exists : Led(t, p) => \E v \in Users : role[v][p] = "admin"
  BY <1>1 DEF RowsSound, Led
<1>4. Placed(t, u) /\ \A v \in Users : v # u => Placed(gone, v)
  BY <1>1, <1>2 DEF RowsSound, Placed, Member
<1>5. \A p \in Orgs : Member(gone, u, p) <=> Member(t, u, p) /\ p # o
  BY <1>1, <1>2 DEF Member
<1> HIDE DEF role, gone
<1>6. CASE t.org[u] # o
  <2>1. s = gone
    BY <1>6 DEF gone
  <2>2. Placed(s, u)
    BY <1>1, <1>2, <1>4, <1>5, <1>6, <2>1 DEF Placed
  <2>3. RowsSound(s)
    BY <1>2, <1>3, <1>4, <2>1, <2>2 DEF RowsSound
  <2> QED BY <1>1, <1>2, <1>3, <1>6, <2>1, <2>3 DEF Handled, Belongs, Member, Led
<1>7. CASE t.org[u] = o
  <2>1. s \in Rehomed(gone, u)
    BY <1>7 DEF gone
  <2>2. PICK home \in Orgs \cup {NoOrg}, flag \in BOOLEAN :
          /\ s \in Tables /\ s.exists = gone.exists /\ s.name = gone.name /\ s.known = gone.known
          /\ s.role = gone.role /\ s.org = [gone.org EXCEPT ![u] = home]
          /\ s.admin = [gone.admin EXCEPT ![u] = flag]
          /\ \/ home = NoOrg /\ ~flag
             \/ home \in Orgs /\ Member(gone, u, home) /\ (flag <=> gone.role[u][home] = "admin")
    <3>1. gone \in Tables
      BY <1>2
    <3> QED BY <2>1, <3>1, RehomedForm, Zenon
  <2>3. /\ s.exists = t.exists /\ s.name = t.name /\ s.known = t.known /\ s.role = role
        /\ s.org = [t.org EXCEPT ![u] = home] /\ s.admin = [t.admin EXCEPT ![u] = flag]
        /\ s \in Tables
    BY <1>2, <2>2
  <2>4. home # o /\ (home # NoOrg => home \in t.exists /\ role[u][home] = t.role[u][home])
    BY <1>1, <1>4, <1>5, <2>2, WorkspacesAssumption DEF Placed
  <2>5. \A v \in Users : v # u => Placed(s, v)
    BY <1>2, <1>4, <2>3 DEF Placed, Member
  <2>6. u \in t.known
    BY <1>4, <1>7, WorkspacesAssumption DEF Placed
  <2>7. \A p \in Orgs : Member(s, u, p) <=> Member(t, u, p) /\ p # o
    BY <1>1, <2>3 DEF Member
  <2>8. Placed(s, u)
    BY <1>1, <1>4, <2>2, <2>3, <2>4, <2>6, <2>7, WorkspacesAssumption DEF Placed
  <2>9. RowsSound(s)
    BY <1>3, <2>3, <2>5, <2>8 DEF RowsSound
  <2>10. \A v \in Users, p \in Orgs : Belongs(s, v, p) => Belongs(t, v, p) /\ <<v, p>> \notin {<<u, o>>}
    <3>1. \A v \in Users, p \in Orgs : v # u => (Belongs(s, v, p) <=> Belongs(t, v, p))
      BY <1>1, <2>3 DEF Belongs, Member
    <3>2. \A p \in Orgs : Belongs(s, u, p) => Belongs(t, u, p) /\ p # o
      BY <1>5, <2>2, <2>3, <2>4, <2>7, WorkspacesAssumption DEF Belongs
    <3> QED BY <3>1, <3>2
  <2> QED BY <1>3, <2>3, <2>9, <2>10 DEF Handled, Led
<1> QED BY <1>6, <1>7

(* A leader who leaves is not the last one, so none has to be chosen. *)
LEMMA LeaveHandled ==
    ASSUME NEW t, RowsSound(t), NEW u \in t.known, NEW s \in LeaveOrg(t, u)
    PROVE  Handled(t, s, {<<u, t.org[u]>>}, {})
<1> USE SoundFields
<1> DEFINE o == t.org[u]
           gone == [t EXCEPT !.role[u][o] = "none"]
           settled == IF WasLeader(t, u, o) /\ Leaders(gone, o) = {} THEN Promoted(gone, o) ELSE {gone}
<1>1. u \in Users /\ o # NoOrg /\ Leaders(t, o) # {u} /\ s \in UNION {Rehomed(g, u) : g \in settled}
  BY DEF LeaveOrg
<1>2. o \in Orgs /\ o \in t.exists
  BY <1>1 DEF RowsSound, Placed
<1>3. t.role[u][o] = "admin" => \E w \in Users : w # u /\ t.role[w][o] = "admin"
  BY <1>1, <1>2, LeadersByRole
<1>4. WasLeader(t, u, o) => t.role[u][o] = "admin"
  BY <1>1 DEF WasLeader, RowsSound, Placed, Member
<1>a. \A w \in Users : w # u => gone.role[w][o] = t.role[w][o]
  BY <1>1, <1>2 DEF RowsSound, Tables
<1>5. settled = {gone}
  <2> HIDE DEF gone
  <2>1. WasLeader(t, u, o) => Leaders(gone, o) # {}
    BY <1>3, <1>4, <1>a DEF Leaders
  <2> QED BY <2>1
<1>6. s \in Rehomed(gone, u)
  BY <1>1, <1>5
<1> QED BY <1>1, <1>2, <1>3, <1>6, RehomedHandled

LEMMA RemoveHandled ==
    ASSUME NEW t, RowsSound(t), NEW by \in t.known, NEW u \in Users, NEW s \in RemoveUser(t, by, u)
    PROVE  Handled(t, s, {<<u, t.org[by]>>}, {})
<1> USE SoundFields
<1> DEFINE o == t.org[by]
           gone == [t EXCEPT !.role[u][o] = "none"]
           moved == IF t.org[u] = o THEN Rehomed(gone, u) ELSE {gone}
<1>1. /\ by \in Users /\ OrgAdmin(t, by) /\ u # by
      /\ s \in UNION {IF WasLeader(t, u, o) /\ Leaders(m, o) = {} THEN Promoted(m, o) ELSE {m} : m \in moved}
  BY DEF RemoveUser
<1>2. o \in Orgs /\ o \in t.exists /\ t.role[by][o] = "admin"
  BY <1>1, OrgAdminByRole
<1>3. ASSUME NEW m \in moved PROVE Handled(t, m, {<<u, o>>}, {}) /\ m.role[by][o] = "admin"
  <2>1. Handled(t, m, {<<u, o>>}, {})
    BY <1>1, <1>2, RehomedHandled
  <2>2. gone.role[by][o] = "admin"
    BY <1>1, <1>2 DEF RowsSound, Tables
  <2>3. m.role = gone.role
    <3>0. gone \in Tables
      BY <1>2, RoleGiven DEF RowsSound, Tables, Roles
    <3> HIDE DEF gone
    <3>1. CASE m = gone
      BY <3>1
    <3>2. CASE m \in Rehomed(gone, u)
      <4>1. PICK home \in Orgs \cup {NoOrg}, flag \in BOOLEAN :
              /\ m \in Tables /\ m.exists = gone.exists /\ m.name = gone.name /\ m.known = gone.known
              /\ m.role = gone.role /\ m.org = [gone.org EXCEPT ![u] = home]
              /\ m.admin = [gone.admin EXCEPT ![u] = flag]
              /\ \/ home = NoOrg /\ ~flag
                 \/ home \in Orgs /\ Member(gone, u, home) /\ (flag <=> gone.role[u][home] = "admin")
        BY <3>0, <3>2, RehomedForm, Zenon
      <4> QED BY <4>1
    <3> QED BY <3>1, <3>2
  <2> QED BY <2>1, <2>2, <2>3
<1>4. ASSUME NEW m \in moved PROVE Leaders(m, o) # {}
  BY <1>1, <1>3 DEF Leaders
<1>5. s \in moved
  <2> HIDE DEF moved
  <2> QED BY <1>1, <1>4
<1> QED BY <1>3, <1>5

(* Whoever lets somebody in has a membership himself. *)
LEMMA EnrolledAlready ==
    ASSUME NEW t, NEW u, NEW o, t.role[u][o] # "none" PROVE Enrolled(t, u, o) = t
BY DEF Enrolled, Member

LEMMA InviteHandled ==
    ASSUME NEW t, RowsSound(t), NEW by \in t.known, NEW u \in Users, NEW lead \in BOOLEAN,
           NEW s \in InviteUser(t, by, u, lead)
    PROVE  Handled(t, s, {}, {<<u, t.org[by]>>})
<1> USE SoundFields
<1> DEFINE o == t.org[by]
           given == IF lead THEN "admin" ELSE "member"
           role == [t.role EXCEPT ![u][o] = given]
           new == [t EXCEPT !.known = @ \cup {u}, !.org[u] = o, !.admin[u] = lead, !.role[u][o] = given]
<1>1. OrgAdmin(t, by) /\ u \notin t.known /\ s = Enrolled(new, by, o)
  BY DEF InviteUser
<1>2. by \in Users /\ o \in Orgs /\ o \in t.exists /\ t.role[by][o] = "admin" /\ u # by
  BY <1>1, OrgAdminByRole
<1>3. given \in Roles /\ given # "none" /\ (given = "admin" <=> lead)
  BY DEF Roles
<1>4. role \in [Users -> [Orgs -> Roles]]
      /\ \A v \in Users, p \in Orgs : role[v][p] = IF v = u /\ p = o THEN given ELSE t.role[v][p]
  BY <1>2, <1>3, RoleGiven
<1>5. /\ new.exists = t.exists /\ new.name = t.name /\ new.role = role /\ new.known = t.known \cup {u}
      /\ new.org = [t.org EXCEPT ![u] = o] /\ new.admin = [t.admin EXCEPT ![u] = lead]
      /\ new \in Tables
  BY <1>2, <1>4 DEF RowsSound, Tables
<1> HIDE DEF role, new, given
<1>6. s = new
  BY <1>1, <1>2, <1>4, <1>5, EnrolledAlready
<1>a. /\ s.exists = t.exists /\ s.name = t.name /\ s.role = role /\ s.known = t.known \cup {u}
      /\ s.org = [t.org EXCEPT ![u] = o] /\ s.admin = [t.admin EXCEPT ![u] = lead] /\ s \in Tables
  BY <1>5, <1>6
<1>7. ASSUME NEW v \in Users, v # u PROVE Placed(s, v)
  <2>1. Placed(t, v)
    BY DEF RowsSound
  <2>2. /\ s.org[v] = t.org[v] /\ s.admin[v] = t.admin[v] /\ (v \notin s.known => v \notin t.known)
        /\ \A p \in Orgs : s.role[v][p] = t.role[v][p]
    BY <1>2, <1>4, <1>7, <1>a
  <2> QED BY <1>a, <2>1, <2>2 DEF Placed, Member
<1>b. Placed(t, u) /\ u \in Users
  BY DEF RowsSound
<1>8. Placed(t, u) /\ Placed(s, u)
  <2>1. \A p \in Orgs : Member(s, u, p) => p = o
    BY <1>1, <1>2, <1>4, <1>a, <1>b DEF Placed, Member
  <2>2. s.org[u] = o /\ s.admin[u] = lead /\ s.role[u][o] = given /\ u \in s.known
    BY <1>2, <1>4, <1>a
  <2> QED BY <1>2, <1>3, <1>a, <1>b, <2>1, <2>2, WorkspacesAssumption DEF Placed
<1>9. RowsSound(s)
  <2>1. \A p \in t.exists : t.name[p] # NoName
    BY DEF RowsSound
  <2> QED BY <1>a, <1>7, <1>8, <2>1 DEF RowsSound
<1>c. \A p \in s.exists : Led(t, p) => Led(s, p)
  <2> SUFFICES ASSUME NEW p \in t.exists, NEW v \in Users, t.role[v][p] = "admin" PROVE Led(s, p)
    BY <1>a DEF Led
  <2>1. v # u /\ p \in Orgs
    BY <1>1, <1>8 DEF Placed, Member
  <2> QED BY <1>4, <1>a, <2>1 DEF Led
<1>10. \A v \in Users, p \in Orgs : Belongs(s, v, p) => Belongs(t, v, p) \/ <<v, p>> = <<u, o>>
  BY <1>2, <1>4, <1>a DEF Belongs, Member
<1> QED BY <1>a, <1>9, <1>10, <1>c DEF Handled

LEMMA AddHandled ==
    ASSUME NEW t, RowsSound(t), NEW by \in t.known, NEW u \in Users, NEW s \in AddExisting(t, by, u)
    PROVE  Handled(t, s, {}, {<<u, t.org[by]>>})
<1> USE SoundFields
<1> DEFINE o == t.org[by]
           home == IF t.org[u] = NoOrg THEN o ELSE t.org[u]
           role == [t.role EXCEPT ![u][o] = "member"]
           new == [t EXCEPT !.org[u] = IF @ = NoOrg THEN o ELSE @, !.active[u] = TRUE, !.role[u][o] = "member"]
<1>1. OrgAdmin(t, by) /\ u \in t.known /\ ~Belongs(t, u, o) /\ s = Enrolled(new, by, o)
  BY DEF AddExisting
<1>2. by \in Users /\ o \in Orgs /\ o \in t.exists /\ t.role[by][o] = "admin" /\ u # by
  BY <1>1, OrgAdminByRole DEF Belongs
<1>3. role \in [Users -> [Orgs -> Roles]]
      /\ \A v \in Users, p \in Orgs : role[v][p] = IF v = u /\ p = o THEN "member" ELSE t.role[v][p]
  BY <1>2, RoleGiven DEF Roles
<1>4. /\ new.exists = t.exists /\ new.name = t.name /\ new.role = role /\ new.known = t.known
      /\ new.org = [t.org EXCEPT ![u] = home] /\ new.admin = t.admin /\ new \in Tables
  BY <1>2, <1>3 DEF RowsSound, Tables
<1> HIDE DEF role, new
<1>5. s = new
  BY <1>1, <1>2, <1>3, <1>4, EnrolledAlready
<1>6. \A v \in Users : v # u => Placed(s, v)
  BY <1>2, <1>3, <1>4, <1>5 DEF RowsSound, Placed, Member
<1>7. Placed(t, u) /\ ~Member(t, u, o) /\ t.org[u] # o
  BY <1>1 DEF RowsSound, Belongs
<1>8. Placed(s, u)
  BY <1>1, <1>2, <1>3, <1>4, <1>5, <1>7, WorkspacesAssumption DEF Placed, Member
<1>9. \A p \in t.exists : Led(t, p) => Led(s, p)
  <2> SUFFICES ASSUME NEW p \in t.exists, NEW v \in Users, t.role[v][p] = "admin" PROVE Led(s, p)
    BY DEF Led
  <2>1. role[v][p] = "admin"
    BY <1>3, <1>7 DEF Member
  <2> QED BY <1>4, <1>5, <2>1 DEF Led
<1>10. RowsSound(s)
  BY <1>4, <1>5, <1>6, <1>8 DEF RowsSound
<1>11. \A v \in Users, p \in Orgs : Belongs(s, v, p) => Belongs(t, v, p) \/ <<v, p>> = <<u, o>>
  BY <1>2, <1>3, <1>4, <1>5 DEF Belongs, Member
<1> QED BY <1>4, <1>5, <1>9, <1>10, <1>11 DEF Handled

(* A leader is demoted only beside another. *)
LEMMA LeadHandled ==
    ASSUME NEW t, RowsSound(t), NEW by \in t.known, NEW u \in Users, NEW lead \in BOOLEAN,
           NEW s \in SetLeader(t, by, u, lead)
    PROVE  Handled(t, s, {}, {})
<1> USE SoundFields
<1> DEFINE o == t.org[by]
           given == IF lead THEN "admin" ELSE IF t.role[u][o] = "none" THEN "none" ELSE "member"
           flag == IF t.org[u] = o THEN lead ELSE t.admin[u]
           role == [t.role EXCEPT ![u][o] = given]
<1>1. /\ OrgAdmin(t, by) /\ Belongs(t, u, o) /\ u \in t.known /\ (~lead => Leaders(t, o) # {u})
      /\ s = [t EXCEPT !.role[u][o] = given, !.admin[u] = flag]
  BY DEF SetLeader
<1>2. by \in Users /\ o \in Orgs /\ o \in t.exists /\ t.role[by][o] = "admin"
  BY <1>1, OrgAdminByRole
<1>3. given \in Roles /\ (given = "admin" <=> lead) /\ flag \in BOOLEAN
  BY DEF Roles
<1>4. role \in [Users -> [Orgs -> Roles]]
      /\ \A v \in Users, p \in Orgs : role[v][p] = IF v = u /\ p = o THEN given ELSE t.role[v][p]
  BY <1>2, <1>3, RoleGiven
<1>5. /\ s.exists = t.exists /\ s.name = t.name /\ s.role = role /\ s.known = t.known
      /\ s.org = t.org /\ s.admin = [t.admin EXCEPT ![u] = flag] /\ s \in Tables
  BY <1>1, <1>3, <1>4 DEF RowsSound, Tables
<1> HIDE DEF role
<1>6. \A v \in Users : v # u => Placed(s, v)
  BY <1>2, <1>4, <1>5 DEF RowsSound, Placed, Member
<1>7. Placed(t, u)
  BY DEF RowsSound
<1> HIDE DEF given
<1>8. Placed(s, u)
  BY <1>1, <1>2, <1>3, <1>4, <1>5, <1>7, WorkspacesAssumption DEF Placed, Member
<1>9. \E v \in Users : role[v][o] = "admin"
  <2>1. CASE lead
    BY <1>2, <1>3, <1>4, <2>1
  <2>2. CASE ~lead
    <3>1. \E v \in Users : t.role[v][o] = "admin"
      BY <1>2
    <3>2. PICK v \in Users : v # u /\ t.role[v][o] = "admin"
      BY <1>1, <1>2, <2>2, <3>1, LeadersByRole
    <3> QED BY <1>2, <1>4, <3>2
  <2> QED BY <2>1, <2>2
<1>10. \A p \in t.exists : Led(t, p) => Led(s, p)
  BY <1>4, <1>5, <1>9 DEF Led
<1>11. RowsSound(s)
  BY <1>5, <1>6, <1>8 DEF RowsSound
<1>12. \A v \in Users, p \in Orgs : Belongs(s, v, p) => Belongs(t, v, p)
  BY <1>1, <1>2, <1>4, <1>5 DEF Belongs, Member
<1> QED BY <1>5, <1>10, <1>11, <1>12 DEF Handled

LEMMA ActiveHandled ==
    ASSUME NEW t, RowsSound(t), NEW by \in t.known, NEW u \in Users, NEW value \in BOOLEAN,
           NEW s \in SetActive(t, by, u, value)
    PROVE  Handled(t, s, {}, {})
<1> USE SoundFields
<1>1. s = [t EXCEPT !.active[u] = value]
  BY DEF SetActive
<1>2. /\ s.exists = t.exists /\ s.name = t.name /\ s.role = t.role /\ s.known = t.known
      /\ s.org = t.org /\ s.admin = t.admin /\ s \in Tables
  BY <1>1 DEF RowsSound, Tables
<1>3. RowsSound(s)
  BY <1>2 DEF RowsSound, Placed, Member
<1> QED BY <1>2, <1>3 DEF Handled, Belongs, Member, Led

(* Those who are put out in bulk work nowhere; their memberships stay. *)
LEMMA BulkHandled ==
    ASSUME NEW t, RowsSound(t), NEW by \in t.known, NEW us, NEW action, NEW s \in BulkAction(t, by, us, action)
    PROVE  Handled(t, s, {}, {})
<1> USE SoundFields
<1> DEFINE chosen == {u \in us \ {by} : u \in t.known /\ t.org[u] = t.org[by]}
           org == [u \in Users |-> IF u \in chosen THEN NoOrg ELSE t.org[u]]
           admin == [u \in Users |-> t.admin[u] /\ u \notin chosen]
           active == [u \in Users |-> IF u \in chosen THEN action = "enable" ELSE t.active[u]]
<1>1. s = [t EXCEPT !.org = org, !.admin = admin] \/ s = [t EXCEPT !.active = active]
  BY DEF BulkAction
<1>2. org \in [Users -> Orgs \cup {NoOrg}] /\ admin \in [Users -> BOOLEAN] /\ active \in [Users -> BOOLEAN]
  BY DEF RowsSound, Tables
<1>3. CASE s = [t EXCEPT !.org = org, !.admin = admin]
  <2>1. /\ s.exists = t.exists /\ s.name = t.name /\ s.role = t.role /\ s.known = t.known
        /\ s.org = org /\ s.admin = admin /\ s \in Tables
    BY <1>2, <1>3 DEF RowsSound, Tables
  <2>2. ASSUME NEW u \in Users PROVE Placed(s, u)
    <3>1. Placed(t, u)
      BY DEF RowsSound
    <3> QED BY <2>1, <3>1 DEF Placed, Member
  <2>3. RowsSound(s)
    BY <2>1, <2>2 DEF RowsSound
  <2>4. \A v \in Users, p \in Orgs : Belongs(s, v, p) => Belongs(t, v, p)
    BY <2>1, WorkspacesAssumption DEF Belongs, Member
  <2> QED BY <2>1, <2>3, <2>4 DEF Handled, Led
<1>4. CASE s = [t EXCEPT !.active = active]
  <2>1. /\ s.exists = t.exists /\ s.name = t.name /\ s.role = t.role /\ s.known = t.known
        /\ s.org = t.org /\ s.admin = t.admin /\ s \in Tables
    BY <1>2, <1>4 DEF RowsSound, Tables
  <2>2. RowsSound(s)
    BY <2>1 DEF RowsSound, Placed, Member
  <2> QED BY <2>1, <2>2 DEF Handled, Belongs, Member, Led
<1> QED BY <1>1, <1>3, <1>4

-------------------------------------------------------------------------------
LEMMA ServedHandled ==
    ASSUME NEW t, RowsSound(t), NEW q \in Asked, q[2] \in t.known, NEW s \in Effect(q, t)
    PROVE  Handled(t, s, PutOut(q, t), LetIn(q, t))
<1>1. ASSUME NEW k \in {"default", "switch", "delete"}, NEW u \in Users, NEW o \in Orgs, q = <<k, u, o>>
      PROVE  Handled(t, s, PutOut(q, t), LetIn(q, t))
  <2>1. CASE k = "default"
    <3>1. s \in CreateOrg(t, u, o, NextName(t, u)) /\ PutOut(q, t) = {} /\ LetIn(q, t) = {}
      BY <1>1, <2>1 DEF Effect, PutOut, LetIn
    <3>2. NextName(t, u) \in Names \cup {NoName} /\ u \in t.known
      BY <1>1, NextNameTyped
    <3> QED BY <3>1, <3>2, CreateHandled
  <2>2. CASE k = "switch"
    <3>1. s \in SwitchOrg(t, u, o) /\ PutOut(q, t) = {} /\ LetIn(q, t) = {} /\ u \in t.known
      BY <1>1, <2>2 DEF Effect, PutOut, LetIn
    <3> QED BY <3>1, SwitchHandled
  <2>3. CASE k = "delete"
    <3>1. s \in DeleteOrg(t, u, o) /\ PutOut(q, t) = Users \X {o} /\ LetIn(q, t) = {} /\ u \in t.known
      BY <1>1, <2>3 DEF Effect, PutOut, LetIn
    <3> QED BY <3>1, DeleteHandled
  <2> QED BY <1>1, <2>1, <2>2, <2>3
<1>2. ASSUME NEW k \in {"create", "rename"}, NEW u \in Users, NEW o \in Orgs, NEW n \in Names,
             q = <<k, u, o, n>>
      PROVE  Handled(t, s, PutOut(q, t), LetIn(q, t))
  <2>1. PutOut(q, t) = {} /\ LetIn(q, t) = {} /\ u \in t.known
    BY <1>2 DEF PutOut, LetIn
  <2>2. CASE k = "create"
    <3>1. s \in CreateOrg(t, u, o, n)
      BY <1>2, <2>2 DEF Effect
    <3> QED BY <2>1, <3>1, CreateHandled
  <2>3. CASE k = "rename"
    <3>1. s \in RenameOrg(t, u, o, n)
      BY <1>2, <2>3 DEF Effect
    <3> QED BY <2>1, <3>1, RenameHandled
  <2> QED BY <1>2, <2>2, <2>3
<1>3. ASSUME NEW u \in Users, q = <<"leave", u>> PROVE Handled(t, s, PutOut(q, t), LetIn(q, t))
  <2>1. s \in LeaveOrg(t, u) /\ PutOut(q, t) = {<<u, t.org[u]>>} /\ LetIn(q, t) = {} /\ u \in t.known
    BY <1>3 DEF Effect, PutOut, LetIn
  <2> QED BY <2>1, LeaveHandled
<1>4. ASSUME NEW k \in {"add", "remove"}, NEW u \in Users, NEW v \in Users, q = <<k, u, v>>
      PROVE  Handled(t, s, PutOut(q, t), LetIn(q, t))
  <2>1. CASE k = "add"
    <3>1. s \in AddExisting(t, u, v) /\ PutOut(q, t) = {} /\ LetIn(q, t) = {<<v, t.org[u]>>} /\ u \in t.known
      BY <1>4, <2>1 DEF Effect, PutOut, LetIn
    <3> QED BY <3>1, AddHandled
  <2>2. CASE k = "remove"
    <3>1. s \in RemoveUser(t, u, v) /\ PutOut(q, t) = {<<v, t.org[u]>>} /\ LetIn(q, t) = {} /\ u \in t.known
      BY <1>4, <2>2 DEF Effect, PutOut, LetIn
    <3> QED BY <3>1, RemoveHandled
  <2> QED BY <1>4, <2>1, <2>2
<1>5. ASSUME NEW k \in {"invite", "lead", "active"}, NEW u \in Users, NEW v \in Users, NEW b \in BOOLEAN,
             q = <<k, u, v, b>>
      PROVE  Handled(t, s, PutOut(q, t), LetIn(q, t))
  <2>1. CASE k = "invite"
    <3>1. s \in InviteUser(t, u, v, b) /\ PutOut(q, t) = {} /\ LetIn(q, t) = {<<v, t.org[u]>>} /\ u \in t.known
      BY <1>5, <2>1 DEF Effect, PutOut, LetIn
    <3> QED BY <3>1, InviteHandled
  <2>2. CASE k = "lead"
    <3>1. s \in SetLeader(t, u, v, b) /\ PutOut(q, t) = {} /\ LetIn(q, t) = {} /\ u \in t.known
      BY <1>5, <2>2 DEF Effect, PutOut, LetIn
    <3> QED BY <3>1, LeadHandled
  <2>3. CASE k = "active"
    <3>1. s \in SetActive(t, u, v, b) /\ PutOut(q, t) = {} /\ LetIn(q, t) = {} /\ u \in t.known
      BY <1>5, <2>3 DEF Effect, PutOut, LetIn
    <3> QED BY <3>1, ActiveHandled
  <2> QED BY <1>5, <2>1, <2>2, <2>3
<1>6. ASSUME NEW u \in Users, NEW us \in Selections, NEW a \in {"enable", "disable", "remove"},
             q = <<"bulk", u, us, a>>
      PROVE  Handled(t, s, PutOut(q, t), LetIn(q, t))
  <2>1. s \in BulkAction(t, u, us, a) /\ PutOut(q, t) = {} /\ LetIn(q, t) = {} /\ u \in t.known
    BY <1>6 DEF Effect, PutOut, LetIn
  <2> QED BY <2>1, BulkHandled
<1> QED BY <1>1, <1>2, <1>3, <1>4, <1>5, <1>6 DEF Asked

(* The workspace of a signup has a new user in it, and no membership.       *)
LEMMA RegisterHandled ==
    ASSUME NEW u \in Users, NEW o \in Orgs, NEW n \in Names, RowsSound(rows), RegisterAlone(u, o, n),
           NEW t, t = rows, NEW s, s = rows'
    PROVE  Handled(t, s, {}, {})
<1>1. /\ u \notin t.known /\ t.name[o] = NoName /\ n # NoName
      /\ s = [t EXCEPT !.known = @ \cup {u}, !.exists = @ \cup {o}, !.name[o] = n, !.org[u] = o]
  BY DEF RegisterAlone, NameFree
<1>a. RowsSound(t)
  BY DEF RowsSound, Tables, Placed, Member
<1> HIDE DEF RegisterAlone
<1> DEFINE name == [t.name EXCEPT ![o] = n]
           org == [t.org EXCEPT ![u] = o]
<1>b. /\ name \in [Orgs -> Names \cup {NoName}] /\ org \in [Users -> Orgs \cup {NoOrg}]
      /\ t.exists \cup {o} \in SUBSET Orgs /\ t.known \cup {u} \in SUBSET Users
  BY <1>a, SoundFields
<1>c. s = [t EXCEPT !.known = t.known \cup {u}, !.exists = t.exists \cup {o}, !.name = name, !.org = org]
  BY <1>1, <1>a DEF RowsSound, Tables
<1> HIDE DEF name, org
<1>d. /\ s.exists = t.exists \cup {o} /\ s.name = name /\ s.role = t.role
      /\ s.org = org /\ s.admin = t.admin /\ s.known = t.known \cup {u} /\ s \in Tables
  BY <1>a, <1>b, <1>c DEF RowsSound, Tables
<1>2. /\ s.exists = t.exists \cup {o} /\ s.name = [t.name EXCEPT ![o] = n] /\ s.role = t.role
      /\ s.org = [t.org EXCEPT ![u] = o] /\ s.admin = t.admin /\ s.known = t.known \cup {u}
      /\ s \in Tables
  BY <1>d DEF name, org
<1> USE <1>1, <1>a, SoundFields
<1>3. \A v \in Users : v # u => Placed(s, v)
  BY <1>2 DEF RowsSound, Placed, Member
<1>4. o \notin t.exists /\ ~t.admin[u] /\ \A p \in Orgs : ~Member(t, u, p)
  BY DEF RowsSound, Placed
<1>5. Placed(s, u)
  BY <1>2, <1>4, WorkspacesAssumption DEF Placed, Member
<1>6. RowsSound(s)
  BY <1>2, <1>3, <1>5 DEF RowsSound
<1>7. \A v \in Users, p \in Orgs : Belongs(s, v, p) => Belongs(t, v, p) \/ p = o
  BY <1>2 DEF Belongs, Member
<1> QED BY <1>2, <1>6, <1>7 DEF Handled, Led

(* Every step follows the requests' rules: what WorkspacesInv and the       *)
(* leaders need of it.                                                      *)
LEMMA StepHandled ==
    ASSUME RowsSound(rows), [WorkspacesNext]_workVars
    PROVE  \E out, in : Handled(rows, rows', out, in) /\ removed' = (removed \cup out) \ in
<1>1. PICK t : t = rows
  OBVIOUS
<1>2. PICK s : s = rows'
  OBVIOUS
<1>3. RowsSound(t)
  BY <1>1 DEF RowsSound, Tables, Placed, Member
<1>4. ASSUME NEW q \in Asked, Serve(q)
      PROVE  \E out, in : Handled(t, s, out, in) /\ removed' = (removed \cup out) \ in
  <2>1. q[2] \in t.known /\ s \in Effect(q, t) /\ removed' = (removed \cup PutOut(q, t)) \ LetIn(q, t)
    BY <1>1, <1>2, <1>4 DEF Serve
  <2>2. Handled(t, s, PutOut(q, t), LetIn(q, t))
    BY <1>3, <2>1, ServedHandled
  <2> QED BY <2>1, <2>2
<1>5. ASSUME NEW u \in Users, NEW o \in Orgs, NEW n \in Names, RegisterAlone(u, o, n)
      PROVE  \E out, in : Handled(t, s, out, in) /\ removed' = (removed \cup out) \ in
  <2>1. Handled(t, s, {}, {})
    BY <1>1, <1>2, <1>5, RegisterHandled
  <2>2. removed' = (removed \cup {}) \ {}
    BY <1>5 DEF RegisterAlone
  <2> QED BY <2>1, <2>2
<1>6. ASSUME UNCHANGED workVars
      PROVE  \E out, in : Handled(t, s, out, in) /\ removed' = (removed \cup out) \ in
  <2>1. s = t /\ removed' = (removed \cup {}) \ {}
    BY <1>1, <1>2, <1>6 DEF workVars
  <2>2. Handled(t, s, {}, {})
    BY <1>3, <2>1 DEF Handled
  <2> QED BY <2>1, <2>2
<1> QED BY <1>1, <1>2, <1>4, <1>5, <1>6 DEF WorkspacesNext

LEMMA NextWorkspacesInv == WorkspacesInv /\ [WorkspacesNext]_workVars => WorkspacesInv'
<1> SUFFICES ASSUME WorkspacesInv, [WorkspacesNext]_workVars PROVE WorkspacesInv'
  OBVIOUS
<1>1. PICK t : t = rows
  OBVIOUS
<1>2. PICK s : s = rows'
  OBVIOUS
<1>3. PICK out, in : Handled(t, s, out, in) /\ removed' = (removed \cup out) \ in
  BY <1>1, <1>2, StepHandled DEF WorkspacesInv
<1>4. RowsSound(t)
  BY <1>1 DEF WorkspacesInv, RowsSound, Tables, Placed, Member
<1>5. removed \subseteq Users \X Orgs
      /\ \A pair \in removed : t.name[pair[2]] # NoName /\ ~Belongs(t, pair[1], pair[2])
  BY <1>1 DEF WorkspacesInv
<1>6. out \subseteq Users \X Orgs /\ \A pair \in out : t.name[pair[2]] # NoName
  BY <1>3, <1>4, SoundFields DEF Handled, RowsSound
<1>7. \A pair \in removed' : s.name[pair[2]] # NoName /\ ~Belongs(s, pair[1], pair[2])
  <2> SUFFICES ASSUME NEW v \in Users, NEW o \in Orgs, <<v, o>> \in removed'
               PROVE  s.name[o] # NoName /\ ~Belongs(s, v, o)
    BY <1>3, <1>5, <1>6
  <2>1. t.name[o] # NoName /\ <<v, o>> \notin in
    BY <1>3, <1>5, <1>6
  <2>2. ~Belongs(t, v, o) \/ <<v, o>> \in out
    BY <1>3, <1>5
  <2> QED BY <1>3, <2>1, <2>2 DEF Handled
<1>8. RowsSound(s) /\ removed' \subseteq Users \X Orgs
  BY <1>3, <1>5, <1>6 DEF Handled
<1>9. RowsSound(rows)' /\ \A pair \in removed' : rows'.name[pair[2]] # NoName /\ ~Belongs(rows, pair[1], pair[2])'
  BY <1>2, <1>7, <1>8 DEF RowsSound, Tables, Placed, Member, Belongs
<1> QED BY <1>8, <1>9 DEF WorkspacesInv

(* Every table keeps its type, and membership and the columns of a user's  *)
(* row are two accounts of the same facts.                                 *)
THEOREM WorkspacesInvHolds == WorkspacesSpec => []WorkspacesInv
<1> QED BY InitWorkspaces, NextWorkspacesInv, PTL DEF WorkspacesSpec

(* The three tables keep their types (app/routers/org.py, admin.py).        *)
THEOREM WorkspacesTypesCorrect == WorkspacesSpec => []WorkspacesTypeOK
<1>1. WorkspacesInv => WorkspacesTypeOK
  BY DEF WorkspacesInv, WorkspacesTypeOK, RowsSound
<1> QED BY <1>1, WorkspacesInvHolds, PTL

(* "Cannot demote: team must have at least 1 leader" (app/routers/admin.py, *)
(* org.py): whatever its members and leaders do to each other, one request  *)
(* after the other, a workspace that is led is led until it is deleted; the *)
(* one a signup opens never is (app/routers/auth.py).                       *)
THEOREM LeadersStay == WorkspacesSpec => LeaderStays
<1>1. WorkspacesInv /\ [WorkspacesNext]_workVars
        => [\A o \in rows'.exists : Leaders(rows, o) # {} => Leaders(rows, o)' # {}]_workVars
  <2> SUFFICES ASSUME WorkspacesInv, [WorkspacesNext]_workVars, NEW o \in rows'.exists, Leaders(rows, o) # {}
               PROVE  Leaders(rows, o)' # {}
    OBVIOUS
  <2>1. PICK out, in : Handled(rows, rows', out, in)
    BY StepHandled DEF WorkspacesInv
  <2>2. RowsSound(rows) /\ o \in Orgs
    BY <2>1, SoundFields DEF WorkspacesInv, Handled
  <2>3. Led(rows, o)
    BY <2>2, LeadersByRole DEF Led
  <2>4. \E u \in Users : rows'.role[u][o] = "admin"
    BY <2>1, <2>3 DEF Handled, Led
  <2> QED BY <2>4 DEF Leaders
<1> QED BY <1>1, WorkspacesInvHolds, PTL DEF WorkspacesSpec, LeaderStays

(* Whoever works in a workspace has the rights he was given there, and      *)
(* nobody works in one he was put out of (switch_org, delete_org,           *)
(* leave_current_team, remove_org_user).                                    *)
THEOREM MembershipIsSound == WorkspacesSpec => []MembershipSound
<1>1. WorkspacesInv => MembershipSound
  BY DEF WorkspacesInv, MembershipSound, RolesAgree, RemovedStaysOut, RowsSound, Placed
<1> QED BY <1>1, WorkspacesInvHolds, PTL

-------------------------------------------------------------------------------
(* Accounts and the links mailed to them.                                   *)

TableStates == [user : [Accounts -> UserRows], link : [Links -> LinkRows]]

(* What a handler may be asked: by people, and by Clerk's messages.         *)
Notices == {<<kind, id, e, a>> : kind \in {"created", "updated", "deleted"}, id \in ClerkIds,
                                 e \in Emails, a \in Accounts}
Calls == Asks \cup Notices

(* A link was mailed to the address its account has, or had: the account's  *)
(* address changes to one whose owner is known only.                        *)
LinkFits(t, l) ==
    IF t.link[l].state = "none" THEN t.link[l].account = NoAccount
    ELSE /\ t.link[l].account \in Accounts /\ t.link[l].to \in Emails
         /\ t.user[t.link[l].account].email \in {t.link[l].to} \cup confirmed

Sound(t) ==
    /\ t \in TableStates
    /\ \A a, b \in Accounts : a # b /\ t.user[a].email = t.user[b].email => t.user[a].email = NoEmail
    /\ \A a \in Accounts : t.user[a].email = NoEmail => t.user[a].clerk = NoClerk
    /\ MailConfigured => \A a \in Accounts : t.user[a].verified => t.user[a].email \in confirmed
    /\ \A l \in Links : LinkFits(t, l)

(* What has become of the rows a handler has read.                          *)
Moved(read, now) ==
    /\ \A a \in Accounts : read.user[a].email # NoEmail =>
          now.user[a].email \in {read.user[a].email} \cup confirmed
    /\ \A l \in Links : read.link[l].state # "none" =>
          /\ now.link[l].state # "none" /\ now.link[l].account = read.link[l].account
          /\ now.link[l].to = read.link[l].to /\ now.link[l].purpose = read.link[l].purpose
          /\ read.link[l].state = "gone" => now.link[l].state = "gone"

Unadded(q, t) ==
    /\ \A a \in Accounts \cap Adds(q) : t.user[a].email = NoEmail
    /\ \A l \in Links \cap Adds(q) : t.link[l].state = "none"

Backed(q) == q[1] \in {"created", "updated"} => q[3] \in confirmed

ClientFits(c) ==
    /\ c.request \in Calls /\ ~c.late /\ Backed(c.request)
    /\ Sound(c.read) /\ Moved(c.read, tables)
    /\ Unadded(c.request, tables) /\ Unadded(c.request, c.read)

AccountsInv ==
    /\ AccountsTypeOK /\ Sound(tables)
    /\ \A h \in Clients : client[h] = NoClient \/ ClientFits(client[h])
    /\ \A g, h \in Clients : g # h /\ client[g] # NoClient /\ client[h] # NoClient
           => Adds(client[g].request) \cap Adds(client[h].request) = {}
    /\ \A i \in DOMAIN sent : sent[i][3] \in confirmed
    /\ \A l \in spent : tables.link[l].state \in {"used", "gone"}
    /\ \A l \in replaced : tables.link[l].state = "gone"

-------------------------------------------------------------------------------
LEMMA Nothing ==
    /\ NoEmail \notin Emails /\ NoAccount \notin Accounts /\ NoClerk \notin ClerkIds
    /\ NoUser \in UserRows /\ NoUser.email = NoEmail /\ NoUser.clerk = NoClerk /\ ~NoUser.verified
    /\ NoLink \in LinkRows /\ NoLink.state = "none" /\ NoLink.account = NoAccount
BY NothingAssumption DEF NoUser, NoLink, UserRows, LinkRows, Purposes

LEMMA InitAccounts == AccountsInit => AccountsInv
<1> SUFFICES ASSUME AccountsInit PROVE AccountsInv
  OBVIOUS
<1>1. tables \in TableStates /\ \A a \in Accounts : tables.user[a] = NoUser
  BY Nothing DEF AccountsInit, TableStates
<1>2. \A l \in Links : tables.link[l] = NoLink
  BY DEF AccountsInit
<1>3. Sound(tables)
  BY <1>1, <1>2, Nothing DEF Sound, LinkFits
<1>4. processed \in Seq(1..MaxMessages) /\ Len(processed) <= CacheSize /\ sent \in Seq(Messages) /\ DOMAIN sent = {}
  BY MessagesAssumption DEF AccountsInit
<1>5. AccountsTypeOK
  BY <1>1, <1>4 DEF AccountsInit, AccountsTypeOK, TableStates
<1> QED BY <1>3, <1>4, <1>5 DEF AccountsInit, AccountsInv

-------------------------------------------------------------------------------
(* What a handler makes of the tables it has read.                          *)

(* The address whose owner a request proves to be known.                    *)
Shown(q, t) == IF q[1] = "verify" THEN {t.link[q[2]].to} ELSE {}

RowChange(q, t, new) ==
    \A a \in Accounts :
        /\ \/ new.user[a].email = t.user[a].email
           \/ t.user[a].email # NoEmail /\ new.user[a].email \in confirmed
           \/ a \in Adds(q) /\ new.user[a].email \in Emails
        /\ new.user[a].email = NoEmail => new.user[a].clerk = NoClerk
        /\ MailConfigured /\ new.user[a].verified /\ ~t.user[a].verified
              => new.user[a].email \in confirmed \cup Shown(q, t)

LinkChange(q, t, new) ==
    \A l \in Links :
        \/ new.link[l] = t.link[l]
        \/ t.link[l].state # "none" /\ new.link[l] = [t.link[l] EXCEPT !.state = "gone"]
        \/ /\ t.link[l].state = "fresh" /\ new.link[l] = [t.link[l] EXCEPT !.state = "used"]
        \/ /\ l \in Adds(q) /\ new.link[l].state = "fresh" /\ new.link[l].account \in Accounts
           /\ new.link[l].to = new.user[new.link[l].account].email /\ new.link[l].to \in Emails

Changes(q, t, new) ==
    /\ new \in TableStates
    /\ RowChange(q, t, new) /\ LinkChange(q, t, new)
    /\ \A l \in Uses(q) : l \in Links /\ t.link[l].state = "fresh" /\ new.link[l].state = "used"
    /\ \A l \in Replaces(q, t) : new.link[l].state = "gone"

LEMMA CreateLinkType ==
    ASSUME NEW t \in TableStates, \A l \in Links : t.link[l].state = "none" => t.link[l].account = NoAccount,
           NEW a \in Accounts, t.user[a].email \in Emails, NEW purpose \in Purposes, NEW l \in Links
    PROVE  LET new == CreateLink(t, a, purpose, l)
           IN  /\ new \in TableStates /\ new.user = t.user
               /\ new.link[l].state = "fresh" /\ new.link[l].account = a /\ new.link[l].to = t.user[a].email
               /\ \A k \in Links : k # l =>
                     IF t.link[k].account = a /\ t.link[k].purpose = purpose
                     THEN t.link[k].state # "none" /\ new.link[k] = [t.link[k] EXCEPT !.state = "gone"]
                     ELSE new.link[k] = t.link[k]
<1> DEFINE fresh == [state |-> "fresh", purpose |-> purpose, account |-> a, to |-> t.user[a].email]
           moved == [k \in Links |-> IF k = l THEN fresh
                       ELSE IF t.link[k].account = a /\ t.link[k].purpose = purpose
                       THEN [t.link[k] EXCEPT !.state = "gone"] ELSE t.link[k]]
<1>1. fresh \in LinkRows /\ fresh.state = "fresh" /\ fresh.account = a /\ fresh.to = t.user[a].email
  BY DEF LinkRows
<1>2. \A row \in LinkRows : [row EXCEPT !.state = "gone"] \in LinkRows
  BY DEF LinkRows
<1>3. t.link \in [Links -> LinkRows] /\ t.user \in [Accounts -> UserRows]
  BY DEF TableStates
<1> HIDE DEF fresh
<1>4. moved \in [Links -> LinkRows]
  BY <1>1, <1>2, <1>3
<1>5. CreateLink(t, a, purpose, l) = [t EXCEPT !.link = moved]
  BY DEF CreateLink, fresh
<1>6. \A k \in Links : moved[k] = IF k = l THEN fresh
                       ELSE IF t.link[k].account = a /\ t.link[k].purpose = purpose
                       THEN [t.link[k] EXCEPT !.state = "gone"] ELSE t.link[k]
  OBVIOUS
<1> HIDE DEF moved
<1>7. [t EXCEPT !.link = moved] \in TableStates /\ [t EXCEPT !.link = moved].user = t.user
      /\ [t EXCEPT !.link = moved].link = moved
  BY <1>4 DEF TableStates
<1>8. \A k \in Links : t.link[k].account = a => t.link[k].state # "none"
  BY Nothing
<1> DEFINE new == CreateLink(t, a, purpose, l)
<1>9. new \in TableStates /\ new.user = t.user /\ new.link = moved
  BY <1>5, <1>7
<1> HIDE DEF new
<1>10. /\ new.link[l].state = "fresh" /\ new.link[l].account = a /\ new.link[l].to = t.user[a].email
       /\ \A k \in Links : k # l =>
             IF t.link[k].account = a /\ t.link[k].purpose = purpose
             THEN t.link[k].state # "none" /\ new.link[k] = [t.link[k] EXCEPT !.state = "gone"]
             ELSE new.link[k] = t.link[k]
  BY <1>1, <1>6, <1>8, <1>9
<1> QED BY <1>9, <1>10 DEF new

(* A handler whose mail replaces the links of one account. *)
LEMMA CreateLinkShape ==
    ASSUME NEW t, Sound(t), NEW a \in Accounts, t.user[a].email \in Emails,
           NEW purpose \in Purposes, NEW l \in Links, NEW q, l \in Adds(q), t.link[l].state = "none",
           q[1] # "verify", Uses(q) = {},
           \A k \in Replaces(q, t) : k # l /\ t.link[k].account = a /\ t.link[k].purpose = purpose
    PROVE  Changes(q, t, CreateLink(t, a, purpose, l))
<1> DEFINE new == CreateLink(t, a, purpose, l)
<1>1. t \in TableStates /\ \A k \in Links : t.link[k].state = "none" => t.link[k].account = NoAccount
  BY DEF Sound, LinkFits
<1>2. /\ new \in TableStates /\ new.user = t.user
      /\ new.link[l].state = "fresh" /\ new.link[l].account = a /\ new.link[l].to = t.user[a].email
      /\ \A k \in Links : k # l =>
            IF t.link[k].account = a /\ t.link[k].purpose = purpose
            THEN t.link[k].state # "none" /\ new.link[k] = [t.link[k] EXCEPT !.state = "gone"]
            ELSE new.link[k] = t.link[k]
  BY <1>1, CreateLinkType
<1> HIDE DEF new
<1>3. RowChange(q, t, new)
  BY <1>2 DEF RowChange, Sound
<1>4. LinkChange(q, t, new)
  BY <1>2 DEF LinkChange
<1>5. \A k \in Links : t.link[k] \in LinkRows
  BY <1>1 DEF TableStates
<1>6. \A k \in Replaces(q, t) : k \in Links /\ new.link[k].state = "gone"
  BY <1>2, <1>5 DEF Replaces, LinkRows
<1>7. \A k \in Uses(q) : k \in Links /\ t.link[k].state = "fresh" /\ new.link[k].state = "used"
  OBVIOUS
<1> QED BY <1>2, <1>3, <1>4, <1>6, <1>7 DEF Changes, new

LEMMA SignupShape ==
    ASSUME NEW t, Sound(t), NEW a \in Accounts, NEW e \in Emails, NEW p \in Passwords, NEW l \in Links,
           NEW w \in WorkNames, Unadded(<<"signup", a, e, p, l, w>>, t), NEW new \in Signup(t, a, e, p, l, w)
    PROVE  Changes(<<"signup", a, e, p, l, w>>, t, new)
<1> DEFINE q == <<"signup", a, e, p, l, w>>
           row == [NoUser EXCEPT !.email = e, !.password = p, !.active = TRUE,
                                 !.verified = ~MailConfigured, !.wallet = TRUE, !.workspace = w]
           added == [t EXCEPT !.user[a] = row]
<1>1. /\ q[1] = "signup" /\ Adds(q) = {a, l} /\ Uses(q) = {} /\ Replaces(q, t) = {} /\ Replaces(q, added) = {}
  BY DEF Adds, Uses, Replaces
<1>2. /\ t.user[a].email = NoEmail /\ t.link[l].state = "none" /\ t \in TableStates
  BY <1>1 DEF Unadded, Sound
<1>3. row \in UserRows /\ row.email = e /\ (MailConfigured => ~row.verified)
  BY MailAssumption, Nothing DEF UserRows
<1>4. new = IF MailConfigured THEN CreateLink(added, a, "verify", l) ELSE added
  BY DEF Signup
<1> HIDE DEF row, q
<1>5. /\ added \in TableStates /\ added.link = t.link
      /\ \A b \in Accounts : added.user[b] = IF b = a THEN row ELSE t.user[b]
  BY <1>2, <1>3 DEF TableStates
<1> HIDE DEF added
<1>6. RowChange(q, t, added)
  BY <1>1, <1>3, <1>5, Nothing DEF RowChange, Sound
<1>7. CASE ~MailConfigured
  BY <1>1, <1>4, <1>5, <1>6, <1>7 DEF Changes, LinkChange, q
<1>8. CASE MailConfigured
  <2>1. \A k \in Links : added.link[k].state = "none" => added.link[k].account = NoAccount
    BY <1>5 DEF Sound, LinkFits
  <2>2. "verify" \in Purposes /\ added.user[a].email = e
    BY <1>3, <1>5 DEF Purposes
  <2>3. new = CreateLink(added, a, "verify", l)
    BY <1>4, <1>8
  <2>4. /\ new \in TableStates /\ new.user = added.user
        /\ new.link[l].state = "fresh" /\ new.link[l].account = a /\ new.link[l].to = e
        /\ \A k \in Links : k # l =>
              IF added.link[k].account = a /\ added.link[k].purpose = "verify"
              THEN added.link[k].state # "none" /\ new.link[k] = [added.link[k] EXCEPT !.state = "gone"]
              ELSE new.link[k] = added.link[k]
    BY <1>5, <2>1, <2>2, <2>3, CreateLinkType
  <2>5. LinkChange(q, t, new)
    BY <1>1, <1>5, <2>2, <2>4 DEF LinkChange
  <2>6. RowChange(q, t, new)
    BY <1>6, <2>4 DEF RowChange
  <2> QED BY <1>1, <2>4, <2>5, <2>6 DEF Changes, q
<1> QED BY <1>7, <1>8

LEMMA ForgotShape ==
    ASSUME NEW t, Sound(t), NEW e \in Emails, NEW l \in Links,
           Unadded(<<"forgot", e, l>>, t), NEW new \in Forgot(t, e, l)
    PROVE  Changes(<<"forgot", e, l>>, t, new)
<1> DEFINE q == <<"forgot", e, l>>
<1>1. q[1] = "forgot" /\ q[2] = e /\ Adds(q) = {l} /\ Uses(q) = {}
  BY DEF Adds, Uses
<1>2. PICK a \in Holders(t, e) : new = CreateLink(t, a, "reset", l)
  BY DEF Forgot
<1> HIDE DEF q
<1>3. a \in Accounts /\ t.user[a].email = e /\ "reset" \in Purposes /\ t.link[l].state = "none"
  BY <1>1 DEF Holders, Purposes, Unadded, q
<1>4. Holders(t, e) = {a}
  BY <1>3, Nothing DEF Holders, Sound
<1>5. \A k \in Replaces(q, t) : k # l /\ t.link[k].account = a /\ t.link[k].purpose = "reset"
  BY <1>1, <1>3, <1>4 DEF Replaces
<1> QED BY <1>1, <1>2, <1>3, <1>5, CreateLinkShape DEF q

LEMMA ResendShape ==
    ASSUME NEW t, Sound(t), NEW e \in Emails, NEW l \in Links,
           Unadded(<<"resend", e, l>>, t), NEW new \in Resend(t, e, l)
    PROVE  Changes(<<"resend", e, l>>, t, new)
<1> DEFINE q == <<"resend", e, l>>
<1>1. q[1] = "resend" /\ q[2] = e /\ Adds(q) = {l} /\ Uses(q) = {}
  BY DEF Adds, Uses
<1>2. PICK a \in Holders(t, e) : new = CreateLink(t, a, "verify", l)
  BY DEF Resend
<1> HIDE DEF q
<1>3. a \in Accounts /\ t.user[a].email = e /\ "verify" \in Purposes /\ t.link[l].state = "none"
  BY <1>1 DEF Holders, Purposes, Unadded, q
<1>4. Holders(t, e) = {a}
  BY <1>3, Nothing DEF Holders, Sound
<1>5. \A k \in Replaces(q, t) : k # l /\ t.link[k].account = a /\ t.link[k].purpose = "verify"
  BY <1>1, <1>3, <1>4 DEF Replaces
<1> QED BY <1>1, <1>2, <1>3, <1>5, CreateLinkShape DEF q

(* A link is used once, for the account it was mailed for. *)
LEMMA ConsumedType ==
    ASSUME NEW t, Sound(t), NEW l \in Links, NEW purpose, Consumable(t, l, purpose)
    PROVE  /\ Consumed(t, l) \in TableStates /\ Consumed(t, l).user = t.user
           /\ Consumed(t, l).link[l] = [t.link[l] EXCEPT !.state = "used"]
           /\ Consumed(t, l).link[l].state = "used" /\ t.link[l].state = "fresh"
           /\ \A k \in Links : k # l => Consumed(t, l).link[k] = t.link[k]
           /\ t.link[l].account \in Accounts
           /\ t.user[t.link[l].account].email \in {t.link[l].to} \cup confirmed
<1>1. t \in TableStates /\ t.link[l].state = "fresh" /\ LinkFits(t, l)
  BY DEF Sound, Consumable
<1>2. PICK row \in LinkRows : row = t.link[l]
  BY <1>1 DEF TableStates
<1> DEFINE used == [row EXCEPT !.state = "used"]
<1>3. used \in LinkRows /\ used.state = "used"
  BY DEF LinkRows
<1>4. Consumed(t, l) = [t EXCEPT !.link[l] = used]
  BY <1>1, <1>2 DEF Consumed, TableStates
<1>5. t.link[l].account \in Accounts /\ t.user[t.link[l].account].email \in {t.link[l].to} \cup confirmed
  BY <1>1 DEF LinkFits
<1>6. used = [t.link[l] EXCEPT !.state = "used"]
  BY <1>2
<1> HIDE DEF used
<1>7. /\ [t EXCEPT !.link[l] = used] \in TableStates /\ [t EXCEPT !.link[l] = used].user = t.user
      /\ \A k \in Links : [t EXCEPT !.link[l] = used].link[k] = IF k = l THEN used ELSE t.link[k]
  BY <1>1, <1>3 DEF TableStates
<1> QED BY <1>1, <1>3, <1>4, <1>5, <1>6, <1>7

(* One row of the users changes. *)
LEMMA UserStep ==
    ASSUME NEW t \in TableStates, NEW a \in Accounts, NEW row \in UserRows
    PROVE  LET new == [t EXCEPT !.user[a] = row]
           IN  /\ new \in TableStates /\ new.link = t.link
               /\ \A b \in Accounts : new.user[b] = IF b = a THEN row ELSE t.user[b]
BY DEF TableStates

LEMMA VerifyShape ==
    ASSUME NEW t, Sound(t), NEW l \in Links, NEW new \in Verify(t, l)
    PROVE  Changes(<<"verify", l>>, t, new)
<1> DEFINE q == <<"verify", l>>
           a == t.link[l].account
           used == Consumed(t, l)
<1>1. q[1] = "verify" /\ Adds(q) = {} /\ Uses(q) = {l} /\ Replaces(q, t) = {} /\ Shown(q, t) = {t.link[l].to}
  BY DEF Adds, Uses, Replaces, Shown
<1> HIDE DEF q
<1>2. Consumable(t, l, "verify")
  BY DEF Verify
<1>3. /\ used \in TableStates /\ used.user = t.user /\ t.link[l].state = "fresh"
      /\ used.link[l] = [t.link[l] EXCEPT !.state = "used"] /\ used.link[l].state = "used"
      /\ \A k \in Links : k # l => used.link[k] = t.link[k]
      /\ a \in Accounts /\ t.user[a].email \in {t.link[l].to} \cup confirmed
  BY <1>2, ConsumedType
<1>4. new = [used EXCEPT !.user[a].verified = TRUE]
  BY <1>2 DEF Verify
<1> HIDE DEF used, a
<1>5. PICK old \in UserRows : old = used.user[a]
  BY <1>3 DEF TableStates
<1> DEFINE row == [old EXCEPT !.verified = TRUE]
<1>6. row \in UserRows /\ row.email = old.email /\ row.clerk = old.clerk
  BY DEF UserRows
<1>7. new = [used EXCEPT !.user[a] = row]
  BY <1>4, <1>5
<1> HIDE DEF row
<1>8. /\ new \in TableStates /\ new.link = used.link
      /\ \A b \in Accounts : new.user[b] = IF b = a THEN row ELSE used.user[b]
  BY <1>3, <1>6, <1>7, UserStep
<1>9. RowChange(q, t, new)
  BY <1>1, <1>3, <1>5, <1>6, <1>8 DEF RowChange, Sound
<1>10. LinkChange(q, t, new)
  BY <1>3, <1>8 DEF LinkChange
<1> QED BY <1>1, <1>3, <1>8, <1>9, <1>10 DEF Changes, q

LEMMA ResetShape ==
    ASSUME NEW t, Sound(t), NEW l \in Links, NEW p \in Passwords, NEW new \in Reset(t, l, p)
    PROVE  Changes(<<"reset", l, p>>, t, new)
<1> DEFINE q == <<"reset", l, p>>
           a == t.link[l].account
           used == Consumed(t, l)
<1>1. q[1] = "reset" /\ Adds(q) = {} /\ Uses(q) = {l} /\ Replaces(q, t) = {}
  BY DEF Adds, Uses, Replaces
<1> HIDE DEF q
<1>2. Consumable(t, l, "reset")
  BY DEF Reset
<1>3. /\ used \in TableStates /\ used.user = t.user /\ t.link[l].state = "fresh"
      /\ used.link[l] = [t.link[l] EXCEPT !.state = "used"] /\ used.link[l].state = "used"
      /\ \A k \in Links : k # l => used.link[k] = t.link[k]
      /\ a \in Accounts
  BY <1>2, ConsumedType
<1>4. new = [used EXCEPT !.user[a].password = p]
  BY <1>2 DEF Reset
<1> HIDE DEF used, a
<1>5. PICK old \in UserRows : old = used.user[a]
  BY <1>3 DEF TableStates
<1> DEFINE row == [old EXCEPT !.password = p]
<1>6. row \in UserRows /\ row.email = old.email /\ row.clerk = old.clerk /\ row.verified = old.verified
  BY DEF UserRows
<1>7. new = [used EXCEPT !.user[a] = row]
  BY <1>4, <1>5
<1> HIDE DEF row
<1>8. /\ new \in TableStates /\ new.link = used.link
      /\ \A b \in Accounts : new.user[b] = IF b = a THEN row ELSE used.user[b]
  BY <1>3, <1>6, <1>7, UserStep
<1>9. RowChange(q, t, new)
  BY <1>1, <1>3, <1>5, <1>6, <1>8 DEF RowChange, Sound
<1>10. LinkChange(q, t, new)
  BY <1>3, <1>8 DEF LinkChange
<1> QED BY <1>1, <1>3, <1>8, <1>9, <1>10 DEF Changes, q

(* A request that changes one row and no link. *)
LEMMA RowShape ==
    ASSUME NEW t, Sound(t), NEW a \in Accounts, NEW row \in UserRows, NEW q, Uses(q) = {}, Replaces(q, t) = {},
           \/ row.email = t.user[a].email
           \/ t.user[a].email # NoEmail /\ row.email \in confirmed
           \/ a \in Adds(q) /\ row.email \in Emails,
           row.email = NoEmail => row.clerk = NoClerk,
           MailConfigured /\ row.verified /\ ~t.user[a].verified => row.email \in confirmed
    PROVE  Changes(q, t, [t EXCEPT !.user[a] = row])
<1> DEFINE new == [t EXCEPT !.user[a] = row]
<1>1. /\ new \in TableStates /\ new.link = t.link
      /\ \A b \in Accounts : new.user[b] = IF b = a THEN row ELSE t.user[b]
  BY UserStep DEF Sound
<1> HIDE DEF new
<1>2. RowChange(q, t, new) /\ LinkChange(q, t, new)
  BY <1>1 DEF RowChange, LinkChange, Sound
<1> QED BY <1>1, <1>2 DEF Changes, new

LEMMA NoShape ==
    ASSUME NEW t, Sound(t), NEW q, Uses(q) = {}, Replaces(q, t) = {}
    PROVE  Changes(q, t, t)
BY DEF Changes, RowChange, LinkChange, Sound

LEMMA ChangeShape ==
    ASSUME NEW t, Sound(t), NEW a \in Accounts, NEW p \in Passwords, NEW new \in ChangePassword(t, a, p)
    PROVE  Changes(<<"change", a, p>>, t, new)
<1> DEFINE q == <<"change", a, p>>
<1>1. Uses(q) = {} /\ Replaces(q, t) = {}
  BY DEF Uses, Replaces
<1> HIDE DEF q
<1>2. PICK old \in UserRows : old = t.user[a]
  BY DEF Sound, TableStates
<1> DEFINE row == [old EXCEPT !.password = p]
<1>3. /\ row \in UserRows /\ row.email = old.email /\ row.clerk = old.clerk
      /\ row.verified = old.verified
  BY DEF UserRows
<1>4. new = [t EXCEPT !.user[a] = row]
  BY <1>2 DEF ChangePassword
<1> HIDE DEF row
<1>5. row.email = NoEmail => row.clerk = NoClerk
  BY <1>2, <1>3 DEF Sound
<1> QED BY <1>1, <1>2, <1>3, <1>4, <1>5, RowShape DEF q

LEMMA CreatedShape ==
    ASSUME NEW t, Sound(t), NEW id \in ClerkIds, NEW e \in Emails, NEW a \in Accounts,
           e \in confirmed, NEW new \in Created(t, id, e, a)
    PROVE  Changes(<<"created", id, e, a>>, t, new)
<1> DEFINE q == <<"created", id, e, a>>
<1>1. Uses(q) = {} /\ Replaces(q, t) = {} /\ Adds(q) = {a}
  BY DEF Uses, Replaces, Adds
<1> HIDE DEF q
<1>2. CASE new = t
  BY <1>1, <1>2, NoShape DEF q
<1>3. ASSUME NEW b \in Holders(t, e), new = [t EXCEPT !.user[b].clerk = id, !.user[b].verified = TRUE]
      PROVE  Changes(q, t, new)
  <2>1. b \in Accounts /\ t.user[b].email = e
    BY DEF Holders
  <2>2. PICK old \in UserRows : old = t.user[b]
    BY <2>1 DEF Sound, TableStates
  <2> DEFINE row == [old EXCEPT !.clerk = id, !.verified = TRUE]
  <2>3. row \in UserRows /\ row.email = old.email
    BY DEF UserRows
  <2>4. new = [t EXCEPT !.user[b] = row]
    BY <1>3, <2>1, <2>2 DEF Sound, TableStates
  <2> HIDE DEF row
  <2> QED BY <1>1, <2>1, <2>2, <2>3, <2>4, RowShape, Nothing
<1>4. CASE new = [t EXCEPT !.user[a] = [NoUser EXCEPT !.email = e, !.clerk = id, !.active = TRUE,
                                                      !.verified = TRUE, !.wallet = TRUE]]
  <2> DEFINE row == [NoUser EXCEPT !.email = e, !.clerk = id, !.active = TRUE, !.verified = TRUE, !.wallet = TRUE]
  <2>1. row \in UserRows /\ row.email = e
    BY Nothing DEF UserRows
  <2>2. new = [t EXCEPT !.user[a] = row]
    BY <1>4
  <2> HIDE DEF row
  <2>3. Changes(q, t, [t EXCEPT !.user[a] = row])
    BY <1>1, <2>1, RowShape, Nothing
  <2> QED BY <2>2, <2>3 DEF q
<1> QED BY <1>2, <1>3, <1>4 DEF Created, q

LEMMA AddressShape ==
    ASSUME NEW t, Sound(t), NEW id \in ClerkIds, NEW e \in Emails, NEW b \in Accounts,
           e \in confirmed, NEW new \in AddressChanged(t, id, e)
    PROVE  Changes(<<"updated", id, e, b>>, t, new)
<1> DEFINE q == <<"updated", id, e, b>>
<1>1. Uses(q) = {} /\ Replaces(q, t) = {}
  BY DEF Uses, Replaces
<1> HIDE DEF q
<1>2. CASE new = t
  BY <1>1, <1>2, NoShape DEF q
<1>3. ASSUME NEW a \in Linked(t, id), new = [t EXCEPT !.user[a].email = e]
      PROVE  Changes(q, t, new)
  <2>0. a \in Accounts /\ t.user[a].email # NoEmail
    BY Nothing DEF Linked, Sound
  <2>1. PICK old \in UserRows : old = t.user[a]
    BY <2>0 DEF Sound, TableStates
  <2> DEFINE row == [old EXCEPT !.email = e]
  <2>2. row \in UserRows /\ row.email = e
    BY DEF UserRows
  <2>3. new = [t EXCEPT !.user[a] = row]
    BY <1>3, <2>1
  <2> HIDE DEF row
  <2> QED BY <1>1, <2>0, <2>2, <2>3, RowShape, Nothing
<1> QED BY <1>2, <1>3 DEF AddressChanged, q

LEMMA DeletedShape ==
    ASSUME NEW t, Sound(t), NEW id \in ClerkIds, NEW e \in Emails, NEW b \in Accounts,
           NEW new \in Deleted(t, id)
    PROVE  Changes(<<"deleted", id, e, b>>, t, new)
<1> DEFINE q == <<"deleted", id, e, b>>
<1>1. Uses(q) = {} /\ Replaces(q, t) = {}
  BY DEF Uses, Replaces
<1> HIDE DEF q
<1>2. CASE new = t
  BY <1>1, <1>2, NoShape DEF q
<1>3. ASSUME NEW a \in Accounts, new = [t EXCEPT !.user[a].active = FALSE]
      PROVE  Changes(q, t, new)
  <2>1. PICK old \in UserRows : old = t.user[a]
    BY DEF Sound, TableStates
  <2> DEFINE row == [old EXCEPT !.active = FALSE]
  <2>2. row \in UserRows /\ row.email = old.email /\ row.clerk = old.clerk /\ row.verified = old.verified
    BY DEF UserRows
  <2>3. new = [t EXCEPT !.user[a] = row]
    BY <1>3, <2>1
  <2> HIDE DEF row
  <2>4. row.email = NoEmail => row.clerk = NoClerk
    BY <2>1, <2>2 DEF Sound
  <2> QED BY <1>1, <2>1, <2>2, <2>3, <2>4, RowShape
<1> QED BY <1>2, <1>3 DEF Deleted, Linked, q

LEMMA OutcomeShape ==
    ASSUME NEW t, Sound(t), NEW q \in Calls, Backed(q), Unadded(q, t), NEW new \in Outcome(q, t)
    PROVE  Changes(q, t, new)
<1>1. ASSUME NEW a \in Accounts, NEW e \in Emails, NEW p \in Passwords, NEW l \in Links,
             NEW w \in WorkNames, q = <<"signup", a, e, p, l, w>>
      PROVE  Changes(q, t, new)
  BY <1>1, SignupShape DEF Outcome
<1>2. ASSUME NEW e \in Emails, NEW l \in Links, q = <<"forgot", e, l>> PROVE Changes(q, t, new)
  BY <1>2, ForgotShape DEF Outcome
<1>3. ASSUME NEW e \in Emails, NEW l \in Links, q = <<"resend", e, l>> PROVE Changes(q, t, new)
  BY <1>3, ResendShape DEF Outcome
<1>4. ASSUME NEW l \in Links, q = <<"verify", l>> PROVE Changes(q, t, new)
  BY <1>4, VerifyShape DEF Outcome
<1>5. ASSUME NEW l \in Links, NEW p \in Passwords, q = <<"reset", l, p>> PROVE Changes(q, t, new)
  BY <1>5, ResetShape DEF Outcome
<1>6. ASSUME NEW a \in Accounts, NEW p \in Passwords, q = <<"change", a, p>> PROVE Changes(q, t, new)
  BY <1>6, ChangeShape DEF Outcome
<1>7. ASSUME NEW id \in ClerkIds, NEW e \in Emails, NEW a \in Accounts, q = <<"created", id, e, a>>
      PROVE  Changes(q, t, new)
  BY <1>7, CreatedShape DEF Outcome, Backed
<1>8. ASSUME NEW id \in ClerkIds, NEW e \in Emails, NEW a \in Accounts, q = <<"updated", id, e, a>>
      PROVE  Changes(q, t, new)
  BY <1>8, AddressShape DEF Outcome, Backed
<1>9. ASSUME NEW id \in ClerkIds, NEW e \in Emails, NEW a \in Accounts, q = <<"deleted", id, e, a>>
      PROVE  Changes(q, t, new)
  BY <1>9, DeletedShape DEF Outcome
<1> QED BY <1>1, <1>2, <1>3, <1>4, <1>5, <1>6, <1>7, <1>8, <1>9 DEF Calls, Asks, Notices

-------------------------------------------------------------------------------
(* What is saved of it, the rows having moved on.                           *)

LEMMA SavedType ==
    ASSUME NEW now \in TableStates, NEW read \in TableStates, NEW new \in TableStates
    PROVE  LET saved == RowsSaved(now, read, new)
           IN  /\ saved \in TableStates
               /\ \A a \in Accounts :
                    /\ saved.user[a].email = IF new.user[a].email = read.user[a].email
                                             THEN now.user[a].email ELSE new.user[a].email
                    /\ saved.user[a].clerk \in {now.user[a].clerk, new.user[a].clerk}
                    /\ saved.user[a].verified = IF new.user[a].verified = read.user[a].verified
                                                THEN now.user[a].verified ELSE new.user[a].verified
               /\ \A l \in Links : saved.link[l] = IF new.link[l] = read.link[l] THEN now.link[l] ELSE new.link[l]
<1> DEFINE column(a, c) == IF new.user[a][c] = read.user[a][c] THEN now.user[a][c] ELSE new.user[a][c]
           row(a) == [c \in DOMAIN NoUser |-> column(a, c)]
           users == [a \in Accounts |-> row(a)]
           links == [l \in Links |-> IF new.link[l] = read.link[l] THEN now.link[l] ELSE new.link[l]]
           saved == RowsSaved(now, read, new)
<1>1. DOMAIN NoUser = {"email", "clerk", "password", "active", "verified", "wallet", "workspace"}
  BY DEF NoUser
<1>2. ASSUME NEW a \in Accounts
      PROVE  /\ row(a) \in UserRows /\ row(a).email = column(a, "email")
             /\ row(a).clerk = column(a, "clerk") /\ row(a).verified = column(a, "verified")
  <2>1. /\ now.user[a] \in UserRows /\ new.user[a] \in UserRows
    BY DEF TableStates
  <2>2. /\ column(a, "email") \in Emails \cup {NoEmail} /\ column(a, "clerk") \in ClerkIds \cup {NoClerk}
        /\ column(a, "password") \in Passwords \cup {NoPassword} /\ column(a, "active") \in BOOLEAN
        /\ column(a, "verified") \in BOOLEAN /\ column(a, "wallet") \in BOOLEAN
        /\ column(a, "workspace") \in WorkNames \cup {NoWork}
    BY <2>1 DEF UserRows
  <2> HIDE DEF column
  <2>3. row(a) = [email |-> column(a, "email"), clerk |-> column(a, "clerk"),
                  password |-> column(a, "password"), active |-> column(a, "active"),
                  verified |-> column(a, "verified"), wallet |-> column(a, "wallet"),
                  workspace |-> column(a, "workspace")]
    BY <1>1
  <2> HIDE DEF row
  <2> QED BY <2>2, <2>3 DEF UserRows
<1>3. \A l \in Links : now.link[l] \in LinkRows /\ new.link[l] \in LinkRows
  BY DEF TableStates
<1>4. links \in [Links -> LinkRows]
  BY <1>3
<1>5. users \in [Accounts -> UserRows] /\ \A a \in Accounts : users[a] = row(a)
  BY <1>2
<1>6. saved = [user |-> users, link |-> links]
  BY Zenon DEF RowsSaved
<1>7. \A l \in Links : links[l] = IF new.link[l] = read.link[l] THEN now.link[l] ELSE new.link[l]
  OBVIOUS
<1>8. \A a \in Accounts :
        /\ column(a, "email") = IF new.user[a].email = read.user[a].email
                                THEN now.user[a].email ELSE new.user[a].email
        /\ column(a, "clerk") \in {now.user[a].clerk, new.user[a].clerk}
        /\ column(a, "verified") = IF new.user[a].verified = read.user[a].verified
                                   THEN now.user[a].verified ELSE new.user[a].verified
  OBVIOUS
<1> HIDE DEF users, links, row, column, saved
<1>9. saved \in TableStates /\ saved.user = users /\ saved.link = links
  BY <1>4, <1>5, <1>6 DEF TableStates
<1>10. /\ \A a \in Accounts :
            /\ saved.user[a].email = IF new.user[a].email = read.user[a].email
                                     THEN now.user[a].email ELSE new.user[a].email
            /\ saved.user[a].clerk \in {now.user[a].clerk, new.user[a].clerk}
            /\ saved.user[a].verified = IF new.user[a].verified = read.user[a].verified
                                        THEN now.user[a].verified ELSE new.user[a].verified
       /\ \A l \in Links : saved.link[l] = IF new.link[l] = read.link[l] THEN now.link[l] ELSE new.link[l]
  BY <1>2, <1>5, <1>7, <1>8, <1>9
<1> QED BY <1>9, <1>10 DEF saved

(* What a commit may do to the tables: add rows that are there for nobody   *)
(* else, move addresses to ones whose owner is known, and end links.        *)
RowsMove(added, now, saved) ==
    \A a \in Accounts :
        \/ saved.user[a].email = now.user[a].email
        \/ now.user[a].email # NoEmail /\ saved.user[a].email \in confirmed
        \/ a \in added /\ now.user[a].email = NoEmail /\ saved.user[a].email \in Emails
LinksMove(added, now, saved) ==
    \A l \in Links :
        IF now.link[l].state = "none"
        THEN saved.link[l].state = "none" \/ l \in added
        ELSE /\ saved.link[l].account = now.link[l].account /\ saved.link[l].to = now.link[l].to
             /\ saved.link[l].purpose = now.link[l].purpose /\ saved.link[l].state # "none"
             /\ now.link[l].state = "gone" => saved.link[l].state = "gone"
             /\ now.link[l].state = "used" => saved.link[l].state \in {"used", "gone"}

(* The links a request has used or replaced. *)
Ended(q, read, saved) ==
    /\ \A l \in Uses(q) : saved.link[l].state = "used"
    /\ \A l \in Replaces(q, read) : saved.link[l].state = "gone"

LEMMA MovedRows ==
    ASSUME NEW now, NEW read, NEW new, NEW q, Sound(now), Sound(read), Moved(read, now), Unadded(q, now),
           confirmed \subseteq Emails, Changes(q, read, new), q # <<>>
    PROVE  /\ RowsMove(Adds(q), now, RowsSaved(now, read, new))
           /\ \A a \in Accounts : read.user[a].email # NoEmail => now.user[a].email # NoEmail
           /\ \A a \in Accounts : RowsSaved(now, read, new).user[a].email = NoEmail
                 => RowsSaved(now, read, new).user[a].clerk = NoClerk
           /\ MailConfigured => \A a \in Accounts : RowsSaved(now, read, new).user[a].verified
                 => RowsSaved(now, read, new).user[a].email \in confirmed \cup Shown(q, read)
<1> DEFINE saved == RowsSaved(now, read, new)
<1>1. now \in TableStates /\ read \in TableStates /\ new \in TableStates /\ RowChange(q, read, new)
  BY DEF Sound, Changes
<1>2. \A a \in Accounts :
        /\ saved.user[a].email = IF new.user[a].email = read.user[a].email
                                 THEN now.user[a].email ELSE new.user[a].email
        /\ saved.user[a].clerk \in {now.user[a].clerk, new.user[a].clerk}
        /\ saved.user[a].verified = IF new.user[a].verified = read.user[a].verified
                                    THEN now.user[a].verified ELSE new.user[a].verified
  BY <1>1, SavedType
<1> HIDE DEF saved
<1>3. \A a \in Accounts : read.user[a].email # NoEmail => now.user[a].email # NoEmail
  BY Nothing DEF Moved
<1>4. RowsMove(Adds(q), now, saved)
  BY <1>1, <1>2, <1>3 DEF RowsMove, RowChange, Unadded
<1>5. ASSUME NEW a \in Accounts, saved.user[a].email = NoEmail PROVE saved.user[a].clerk = NoClerk
  <2>1. now.user[a].email = NoEmail /\ new.user[a].email = NoEmail
    BY <1>1, <1>2, <1>3, <1>5, Nothing DEF RowChange
  <2> QED BY <1>1, <1>2, <2>1 DEF Sound, RowChange
<1>6. ASSUME MailConfigured, NEW a \in Accounts, saved.user[a].verified
      PROVE  saved.user[a].email \in confirmed \cup Shown(q, read)
  <2>0. /\ now.user[a].verified \in BOOLEAN /\ read.user[a].verified \in BOOLEAN
        /\ new.user[a].verified \in BOOLEAN
    BY <1>1 DEF TableStates, UserRows
  <2>1. CASE new.user[a].verified = read.user[a].verified
    <3>1. now.user[a].email \in confirmed
      BY <1>2, <1>6, <2>1 DEF Sound
    <3>2. now.user[a].email # NoEmail
      BY <3>1, Nothing
    <3> QED BY <1>4, <3>1, <3>2 DEF RowsMove
  <2>2. CASE new.user[a].verified # read.user[a].verified
    <3>1. new.user[a].verified /\ ~read.user[a].verified
      BY <1>2, <1>6, <2>0, <2>2
    <3>2. new.user[a].email \in confirmed \cup Shown(q, read)
      BY <1>1, <1>6, <3>1 DEF RowChange
    <3>3. CASE new.user[a].email = read.user[a].email
      <4>1. read.user[a].email # NoEmail \/ NoEmail \in Shown(q, read)
        BY <3>2, <3>3, Nothing
      <4>2. NoEmail \notin Shown(q, read)
        <5>1. \A l \in Uses(q) : read.link[l].to \in Emails
          BY DEF Changes, Sound, LinkFits
        <5>2. q[1] = "verify" /\ q # <<>> => q[2] \in Uses(q)
          BY DEF Uses
        <5> QED BY <5>1, <5>2, Nothing DEF Shown
      <4>3. now.user[a].email \in {read.user[a].email} \cup confirmed
        BY <4>1, <4>2 DEF Moved
      <4> QED BY <1>2, <3>2, <3>3, <4>3
    <3>4. CASE new.user[a].email # read.user[a].email
      BY <1>2, <3>2, <3>4
    <3> QED BY <3>3, <3>4
  <2> QED BY <2>1, <2>2
<1> QED BY <1>3, <1>4, <1>5, <1>6 DEF saved

LEMMA MovedLinks ==
    ASSUME NEW now, NEW read, NEW new, NEW q, Sound(now), Sound(read), Moved(read, now), Unadded(q, now),
           confirmed \subseteq Emails, Changes(q, read, new), q # <<>>, Accepted(now, read, new)
    PROVE  /\ LinksMove(Adds(q), now, RowsSaved(now, read, new))
           /\ \A l \in Links : LinkFits(RowsSaved(now, read, new), l)
           /\ Ended(q, read, RowsSaved(now, read, new))
<1> DEFINE saved == RowsSaved(now, read, new)
<1>1. /\ now \in TableStates /\ read \in TableStates /\ new \in TableStates
      /\ LinkChange(q, read, new)
  BY DEF Sound, Changes
<1>2. \A l \in Links : saved.link[l] = IF new.link[l] = read.link[l] THEN now.link[l] ELSE new.link[l]
  BY <1>1, SavedType
<1>3. \A a \in Accounts : saved.user[a].email = IF new.user[a].email = read.user[a].email
                                                THEN now.user[a].email ELSE new.user[a].email
  BY <1>1, SavedType
<1>4. RowsMove(Adds(q), now, saved)
  BY MovedRows
<1> HIDE DEF saved
<1>5. \A l \in Links : read.link[l] \in LinkRows /\ now.link[l] \in LinkRows
  BY <1>1 DEF TableStates
<1>6. \A l \in Links : new.link[l].state = "used" /\ read.link[l].state = "fresh" => now.link[l].state # "gone"
  BY DEF Accepted
(* The four things that may have become of a link. *)
<1>7. ASSUME NEW l \in Links
      PROVE  \/ saved.link[l] = now.link[l]
             \/ /\ saved.link[l].state = "gone" /\ now.link[l].state # "none"
                /\ saved.link[l].account = now.link[l].account /\ saved.link[l].to = now.link[l].to
                /\ saved.link[l].purpose = now.link[l].purpose
             \/ /\ saved.link[l].state = "used" /\ now.link[l].state \notin {"none", "gone"}
                /\ saved.link[l].account = now.link[l].account /\ saved.link[l].to = now.link[l].to
                /\ saved.link[l].purpose = now.link[l].purpose
             \/ /\ l \in Adds(q) /\ now.link[l].state = "none" /\ saved.link[l].state = "fresh"
                /\ saved.link[l].account \in Accounts /\ saved.link[l].to \in Emails
                /\ saved.link[l].to = new.user[saved.link[l].account].email
  <2>1. PICK old \in LinkRows : old = read.link[l]
    BY <1>5
  <2> DEFINE gone == [old EXCEPT !.state = "gone"]
             used == [old EXCEPT !.state = "used"]
  <2>2. /\ gone.state = "gone" /\ gone.account = old.account /\ gone.to = old.to /\ gone.purpose = old.purpose
        /\ used.state = "used" /\ used.account = old.account /\ used.to = old.to /\ used.purpose = old.purpose
    BY DEF LinkRows
  <2>3. CASE new.link[l] = read.link[l]
    BY <1>2, <2>3
  <2> HIDE DEF gone, used
  <2>a. read.link[l].state # "none" =>
          /\ now.link[l].state # "none" /\ now.link[l].account = old.account
          /\ now.link[l].to = old.to /\ now.link[l].purpose = old.purpose
    BY <2>1 DEF Moved
  <2>4. CASE new.link[l] # read.link[l] /\ read.link[l].state # "none" /\ new.link[l] = gone
    BY <1>2, <2>2, <2>4, <2>a
  <2>5. CASE new.link[l] # read.link[l] /\ read.link[l].state = "fresh" /\ new.link[l] = used
    BY <1>2, <1>6, <2>2, <2>5, <2>a
  <2>6. CASE /\ new.link[l] # read.link[l]
             /\ l \in Adds(q) /\ new.link[l].state = "fresh" /\ new.link[l].account \in Accounts
             /\ new.link[l].to = new.user[new.link[l].account].email /\ new.link[l].to \in Emails
    BY <1>2, <2>6 DEF Unadded
  <2> QED BY <1>1, <2>1, <2>3, <2>4, <2>5, <2>6 DEF LinkChange, gone, used
<1>8. LinksMove(Adds(q), now, saved)
  BY <1>7 DEF LinksMove
<1>9. ASSUME NEW l \in Links PROVE LinkFits(saved, l)
  <2>0. LinkFits(now, l)
    BY DEF Sound
  <2>1. CASE saved.link[l].state = "none"
    BY <1>7, <2>0, <2>1 DEF LinkFits
  <2>2. CASE saved.link[l].state # "none" /\ now.link[l].state # "none"
    <3>1. saved.link[l].account = now.link[l].account /\ saved.link[l].to = now.link[l].to
      BY <1>7, <2>2
    <3>2. /\ now.link[l].account \in Accounts /\ now.link[l].to \in Emails
          /\ now.user[now.link[l].account].email \in {now.link[l].to} \cup confirmed
      BY <2>0, <2>2 DEF LinkFits
    <3>3. now.user[now.link[l].account].email # NoEmail
      BY <3>2, Nothing
    <3>4. saved.user[now.link[l].account].email \in {now.link[l].to} \cup confirmed
      BY <1>4, <3>2, <3>3 DEF RowsMove
    <3> QED BY <2>2, <3>1, <3>2, <3>4 DEF LinkFits
  <2>3. CASE saved.link[l].state # "none" /\ now.link[l].state = "none"
    <3>1. /\ saved.link[l].account \in Accounts /\ saved.link[l].to \in Emails
          /\ saved.link[l].to = new.user[saved.link[l].account].email
      BY <1>7, <2>3
    <3>2. PICK a \in Accounts : a = saved.link[l].account
      BY <3>1
    <3>3. CASE new.user[a].email = read.user[a].email
      <4>1. now.user[a].email \in {read.user[a].email} \cup confirmed
        BY <3>1, <3>2, <3>3, Nothing DEF Moved
      <4> QED BY <1>3, <2>3, <3>1, <3>2, <3>3, <4>1 DEF LinkFits
    <3>4. CASE new.user[a].email # read.user[a].email
      BY <1>3, <2>3, <3>1, <3>2, <3>4 DEF LinkFits
    <3> QED BY <3>3, <3>4
  <2> QED BY <2>1, <2>2, <2>3
<1>10. \A l \in Uses(q) : saved.link[l].state = "used"
  BY <1>2 DEF Changes
<1>11. ASSUME NEW l \in Replaces(q, read) PROVE saved.link[l].state = "gone"
  <2>1. l \in Links /\ read.link[l].state # "none" /\ new.link[l].state = "gone"
    BY DEF Replaces, Changes
  <2> QED BY <1>2, <2>1 DEF Moved
<1> QED BY <1>8, <1>9, <1>10, <1>11 DEF saved, Ended

-------------------------------------------------------------------------------
(* The steps. *)

LEMMA SoundStays ==
    ASSUME NEW t, Sound(t), confirmed \subseteq confirmed' PROVE Sound(t)'
BY DEF Sound, LinkFits

(* What another handler holds stays true when a commit moves the tables on. *)
LEMMA ClientStays ==
    ASSUME NEW c, ClientFits(c), confirmed \subseteq Emails, confirmed \subseteq confirmed', NEW added,
           RowsMove(added, tables, tables'), LinksMove(added, tables, tables'),
           Adds(c.request) \cap added = {}
    PROVE  ClientFits(c)'
<1>1. Sound(c.read)'
  BY SoundStays DEF ClientFits
<1>2. Moved(c.read, tables)'
  <2>1. \A a \in Accounts : c.read.user[a].email # NoEmail =>
          /\ tables.user[a].email # NoEmail
          /\ tables'.user[a].email \in {c.read.user[a].email} \cup confirmed
    BY Nothing DEF ClientFits, Moved, RowsMove
  <2>2. \A l \in Links : c.read.link[l].state # "none" =>
          /\ tables'.link[l].state # "none" /\ tables'.link[l].account = c.read.link[l].account
          /\ tables'.link[l].to = c.read.link[l].to /\ tables'.link[l].purpose = c.read.link[l].purpose
          /\ c.read.link[l].state = "gone" => tables'.link[l].state = "gone"
    BY DEF ClientFits, Moved, LinksMove
  <2> QED BY <2>1, <2>2 DEF Moved
<1>3. Unadded(c.request, tables)' /\ Unadded(c.request, c.read)'
  BY DEF ClientFits, Unadded, RowsMove, LinksMove
<1>4. Backed(c.request)'
  BY DEF ClientFits, Backed
<1> QED BY <1>1, <1>2, <1>3, <1>4 DEF ClientFits

LEMMA ClientStill ==
    ASSUME NEW c, ClientFits(c), confirmed \subseteq Emails, confirmed \subseteq confirmed', UNCHANGED tables
    PROVE  ClientFits(c)'
<1>1. tables' = tables
  OBVIOUS
<1>2. RowsMove({}, tables, tables') /\ LinksMove({}, tables, tables')
  BY <1>1 DEF RowsMove, LinksMove
<1> QED BY <1>2, ClientStays

LEMMA Served ==
    ASSUME AccountsInv, NEW h \in Clients, client[h] # NoClient
    PROVE  ClientFits(client[h]) /\ client[h].request # <<>> /\ client[h].request \in Calls
<1>1. ClientFits(client[h]) /\ client[h].request \in Calls
  BY DEF AccountsInv, ClientFits
<1>2. \A q \in Calls : q # <<>>
  BY DEF Calls, Asks, Notices
<1> QED BY <1>1, <1>2

LEMMA ReceiveKeeps ==
    ASSUME AccountsInv, NEW h \in Clients, NEW q \in Calls, Backed(q), Receive(h, q),
           UNCHANGED <<tables, person, sent, confirmed, spent, replaced>>,
           processed' \in Seq(1..MaxMessages), Len(processed') <= CacheSize
    PROVE  AccountsInv'
<1> DEFINE c == [request |-> q, read |-> tables, late |-> Uses(q) \cap (spent \cup replaced) # {}]
<1>0. confirmed \subseteq Emails /\ confirmed \subseteq confirmed' /\ Sound(tables)
  BY DEF AccountsInv, AccountsTypeOK
<1>1. client' = [client EXCEPT ![h] = c] /\ client[h] = NoClient /\ Reserved(q) /\ Outcome(q, tables) # {}
  BY DEF Receive
<1>2. Unadded(q, tables)
  BY <1>1, Nothing DEF Reserved, Unadded
<1>3. ~c.late
  <2>1. PICK new \in Outcome(q, tables) : TRUE
    BY <1>1
  <2>2. Changes(q, tables, new)
    BY <1>0, <1>2, <2>1, OutcomeShape
  <2>3. \A l \in Uses(q) : tables.link[l].state = "fresh"
    BY <2>2 DEF Changes
  <2> QED BY <2>3 DEF AccountsInv
<1>4. Moved(tables, tables)
  BY DEF Moved
<1>5. c.request = q /\ c.read = tables
  OBVIOUS
<1> HIDE DEF c
<1>6. ClientFits(c)
  BY <1>0, <1>2, <1>3, <1>4, <1>5 DEF ClientFits
<1>7. \A g \in Clients : client'[g] = IF g = h THEN c ELSE client[g]
  BY <1>1 DEF AccountsInv, AccountsTypeOK
<1>8. ASSUME NEW g \in Clients PROVE (client[g] = NoClient \/ ClientFits(client[g]))'
  <2>1. PICK d : d = client'[g]
    OBVIOUS
  <2>2. d = NoClient \/ ClientFits(d)
    BY <1>6, <1>7, <2>1 DEF AccountsInv
  <2>3. d = NoClient \/ ClientFits(d)'
    BY <1>0, <2>2, ClientStill
  <2> QED BY <2>1, <2>3 DEF ClientFits, Moved, Sound, LinkFits, Unadded, Backed, NoClient
<1>9. ASSUME NEW f \in Clients, NEW g \in Clients, f # g, client'[f] # NoClient, client'[g] # NoClient
      PROVE  Adds(client'[f].request) \cap Adds(client'[g].request) = {}
  <2>1. \A k \in Clients : k # h /\ client[k] # NoClient => Adds(q) \cap Adds(client[k].request) = {}
    BY <1>1, Served DEF Reserved
  <2> QED BY <1>5, <1>7, <1>9, <2>1 DEF AccountsInv
<1>10. Sound(tables)'
  <2>1. PICK t : t = tables
    OBVIOUS
  <2>2. Sound(t)'
    BY <1>0, <2>1, SoundStays
  <2> QED BY <2>1, <2>2 DEF Sound, LinkFits
<1>11. AccountsTypeOK'
  BY <1>1 DEF AccountsInv, AccountsTypeOK
<1>12. (\A f, g \in Clients : f # g /\ client[f] # NoClient /\ client[g] # NoClient
           => Adds(client[f].request) \cap Adds(client[g].request) = {})'
  BY <1>9 DEF Adds
<1> QED BY <1>8, <1>10, <1>11, <1>12 DEF AccountsInv

LEMMA AskKeeps == ASSUME AccountsInv, NEW h \in Clients, NEW q \in Asks, Ask(h, q) PROVE AccountsInv'
<1>1. q \in Calls /\ Backed(q)
  BY DEF Calls, Asks, Backed
<1>2. processed \in Seq(1..MaxMessages) /\ Len(processed) <= CacheSize /\ processed' = processed
  BY DEF AccountsInv, AccountsTypeOK, Ask
<1> QED BY <1>1, <1>2, ReceiveKeeps DEF Ask

LEMMA FourInOne == ASSUME NEW w, NEW x, NEW y, NEW z PROVE <<w, x, y>> \o <<z>> = <<w, x, y, z>>
<1> DEFINE S == {w, x, y, z}
           s == <<w, x, y>>
           all == <<w, x, y, z>>
<1>1. /\ s \in Seq(S) /\ Len(s) = 3 /\ s[1] = w /\ s[2] = x /\ s[3] = y
      /\ <<z>> \in Seq(S) /\ Len(<<z>>) = 1 /\ <<z>>[1] = z
  OBVIOUS
<1>2. all \in Seq(S) /\ Len(all) = 4 /\ all[1] = w /\ all[2] = x /\ all[3] = y /\ all[4] = z
  OBVIOUS
<1> HIDE DEF S, s, all
<1>3. PICK r \in Seq(S) : r = <<z>> /\ Len(r) = 1 /\ r[1] = z
  BY <1>1
<1>4. /\ s \o r \in Seq(S) /\ Len(s \o r) = Len(s) + Len(r)
      /\ \A i \in 1..(Len(s) + Len(r)) : (s \o r)[i] = IF i <= Len(s) THEN s[i] ELSE r[i - Len(s)]
  BY <1>1, <1>3, ConcatProperties
<1> DEFINE u == s \o r
<1>9. u \in Seq(S) /\ Len(u) = 4 /\ \A i \in 1..4 : u[i] = IF i <= 3 THEN s[i] ELSE r[i - 3]
  BY <1>1, <1>3, <1>4
<1> HIDE DEF u
<1>5. u[1] = w /\ u[2] = x /\ u[3] = y /\ u[4] = z
  BY <1>1, <1>3, <1>9
<1>6. \A i \in 1..4 : i = 1 \/ i = 2 \/ i = 3 \/ i = 4
  OBVIOUS
<1>7. \A i \in 1..4 : u[i] = all[i]
  BY <1>2, <1>5, <1>6
<1>8. u = all
  BY <1>2, <1>7, <1>9, SeqEqual
<1> QED BY <1>3, <1>8 DEF s, all, u

LEMMA DeliverKeeps ==
    ASSUME AccountsInv, NEW h \in Clients, NEW i \in 1..MaxMessages, NEW a \in Accounts, Deliver(h, i, a)
    PROVE  AccountsInv'
<1>1. /\ i \in DOMAIN sent /\ sent \in Seq(Messages) /\ sent[i][3] \in confirmed
      /\ Receive(h, sent[i] \o <<a>>) /\ processed' = Noted(i)
      /\ UNCHANGED <<tables, person, sent, confirmed, spent, replaced>>
  BY DEF Deliver, AccountsInv, AccountsTypeOK
<1>2. sent[i] \in Messages
  BY <1>1
<1>3. PICK kind \in {"created", "updated", "deleted"}, id \in ClerkIds, e \in Emails : sent[i] = <<kind, id, e>>
  BY <1>2 DEF Messages
<1> DEFINE q == <<kind, id, e, a>>
<1>4. <<kind, id, e>> \o <<a>> = q
  BY FourInOne
<1>5. q \in Calls /\ Backed(q)
  BY <1>1, <1>3 DEF Calls, Notices, Backed
<1>6. processed' \in Seq(1..MaxMessages) /\ Len(processed') <= CacheSize
  <2>1. processed \in Seq(1..MaxMessages) /\ Len(processed) <= CacheSize /\ CacheSize \in Nat \ {0}
    BY MessagesAssumption DEF AccountsInv, AccountsTypeOK
  <2> DEFINE noted == Append(processed, i)
  <2>2. noted \in Seq(1..MaxMessages) /\ Len(noted) = Len(processed) + 1
    BY <2>1
  <2>3. processed' = IF Len(noted) > CacheSize THEN Tail(noted) ELSE noted
    BY <1>1 DEF Noted
  <2> HIDE DEF noted
  <2>4. Tail(noted) \in Seq(1..MaxMessages) /\ Len(Tail(noted)) = Len(noted) - 1
    BY <2>1, <2>2
  <2>5. PICK n \in Nat : n = Len(processed) /\ n <= CacheSize /\ Len(noted) = n + 1
    BY <2>1, <2>2
  <2>6. CASE Len(noted) > CacheSize
    <3>1. Len(Tail(noted)) = n
      BY <2>4, <2>5
    <3> QED BY <2>3, <2>4, <2>5, <2>6, <3>1
  <2>7. CASE ~(Len(noted) > CacheSize)
    <3>1. n + 1 <= CacheSize
      BY <2>1, <2>5, <2>7
    <3> QED BY <2>2, <2>3, <2>5, <2>7, <3>1
  <2> QED BY <2>6, <2>7
<1>7. Receive(h, q)
  BY <1>1, <1>3, <1>4
<1> HIDE DEF q
<1> QED BY <1>1, <1>5, <1>6, <1>7, ReceiveKeeps

LEMMA FinishKeeps == ASSUME AccountsInv, NEW h \in Clients, Finish(h) PROVE AccountsInv'
<1>0. /\ client[h].request # <<>> /\ client' = [client EXCEPT ![h] = NoClient]
      /\ UNCHANGED <<person, sent, processed>>
  BY DEF Finish
<1>1. client[h] # NoClient
  BY <1>0 DEF NoClient
<1>2. PICK q \in Calls : q = client[h].request /\ q # <<>>
  BY <1>1, Served
<1>3. PICK read : read = client[h].read
  OBVIOUS
<1>4. PICK now : now = tables
  OBVIOUS
<1>5. /\ Sound(now) /\ Sound(read) /\ Moved(read, now) /\ Unadded(q, now) /\ Unadded(q, read) /\ Backed(q)
      /\ confirmed \subseteq Emails
  BY <1>1, <1>2, <1>3, <1>4, Served DEF ClientFits, AccountsInv, AccountsTypeOK
<1>6. \A g \in Clients : client'[g] = IF g = h THEN NoClient ELSE client[g]
  BY <1>0 DEF AccountsInv, AccountsTypeOK
<1>7. DOMAIN client' = Clients
  BY <1>0 DEF AccountsInv, AccountsTypeOK
<1>8. (\A f, g \in Clients : f # g /\ client[f] # NoClient /\ client[g] # NoClient
           => Adds(client[f].request) \cap Adds(client[g].request) = {})'
  BY <1>6 DEF AccountsInv, Adds, NoClient
<1>9. PICK new \in Outcome(q, read) :
        IF Accepted(now, read, new)
        THEN /\ tables' = RowsSaved(now, read, new)
             /\ spent' = spent \cup Uses(q)
             /\ replaced' = replaced \cup Replaces(q, read)
             /\ confirmed' = confirmed \cup Shown(q, read)
        ELSE UNCHANGED <<tables, spent, replaced, confirmed>>
  BY <1>2, <1>3, <1>4 DEF Finish, Shown
<1>10. Changes(q, read, new)
  BY <1>5, OutcomeShape
<1>11. CASE ~Accepted(now, read, new)
  <2>1. UNCHANGED <<tables, spent, replaced, confirmed>>
    BY <1>9, <1>11
  <2>2. Sound(tables)'
    BY <1>4, <1>5, <2>1, SoundStays DEF Sound, LinkFits
  <2>3. ASSUME NEW g \in Clients PROVE (client[g] = NoClient \/ ClientFits(client[g]))'
    <3>1. PICK d : d = client'[g]
      OBVIOUS
    <3>2. d = NoClient \/ ClientFits(d)
      BY <1>6, <3>1 DEF AccountsInv
    <3>3. d = NoClient \/ ClientFits(d)'
      BY <1>5, <2>1, <3>2, ClientStill
    <3> QED BY <3>1, <3>3 DEF ClientFits, Moved, Sound, LinkFits, Unadded, Backed, NoClient
  <2> QED BY <1>0, <1>7, <1>8, <2>1, <2>2, <2>3 DEF AccountsInv, AccountsTypeOK
<1>12. CASE Accepted(now, read, new)
  <2> DEFINE saved == RowsSaved(now, read, new)
  <2>1. /\ RowsMove(Adds(q), now, saved)
        /\ \A a \in Accounts : saved.user[a].email = NoEmail => saved.user[a].clerk = NoClerk
        /\ MailConfigured => \A a \in Accounts :
              saved.user[a].verified => saved.user[a].email \in confirmed \cup Shown(q, read)
    BY <1>2, <1>5, <1>10, MovedRows
  <2>a. Accepted(now, read, new) /\ Changes(q, read, new) /\ q # <<>>
    BY <1>2, <1>10, <1>12
  <2>2. LinksMove(Adds(q), now, saved) /\ (\A l \in Links : LinkFits(saved, l)) /\ Ended(q, read, saved)
    BY <1>5, <2>a, MovedLinks
  <2>3. saved \in TableStates
    BY <1>5, <1>10, SavedType DEF Sound, Changes
  <2>4. \A a, b \in Accounts : a # b /\ saved.user[a].email = saved.user[b].email => saved.user[a].email = NoEmail
    BY <1>12 DEF Accepted
  <2>5. /\ tables' = saved /\ spent' = spent \cup Uses(q) /\ replaced' = replaced \cup Replaces(q, read)
        /\ confirmed' = confirmed \cup Shown(q, read)
    BY <1>9, <1>12
  <2>6. PICK after \in TableStates : after = saved
    BY <2>3
  <2> HIDE DEF saved
  <2>7. Uses(q) \subseteq Links /\ Replaces(q, read) \subseteq Links /\ Shown(q, read) \subseteq Emails
    <3>1. Uses(q) \subseteq Links /\ \A l \in Uses(q) : read.link[l].to \in Emails
      BY <1>5, <1>10 DEF Changes, Sound, LinkFits
    <3>2. Replaces(q, read) \subseteq Links
      BY DEF Replaces
    <3>3. q[1] = "verify" => q[2] \in Uses(q)
      BY <1>2 DEF Uses
    <3> QED BY <3>1, <3>2, <3>3 DEF Shown
  <2>8. confirmed \subseteq confirmed' /\ confirmed' \subseteq Emails
    BY <1>5, <2>5, <2>7
  <2>9. Sound(after)'
    <3>1. \A l \in Links : LinkFits(after, l)'
      BY <2>2, <2>6, <2>8 DEF LinkFits
    <3> QED BY <2>1, <2>4, <2>5, <2>6, <3>1 DEF Sound
  <2>10. ASSUME NEW g \in Clients PROVE (client[g] = NoClient \/ ClientFits(client[g]))'
    <3>1. PICK d : d = client'[g]
      OBVIOUS
    <3>2. d = NoClient \/ (ClientFits(d) /\ Adds(d.request) \cap Adds(q) = {})
      BY <1>1, <1>2, <1>6, <3>1 DEF AccountsInv
    <3>3. RowsMove(Adds(q), tables, tables') /\ LinksMove(Adds(q), tables, tables')
      BY <1>4, <2>1, <2>2, <2>5 DEF RowsMove, LinksMove
    <3>4. d = NoClient \/ ClientFits(d)'
      BY <1>5, <2>8, <3>2, <3>3, ClientStays
    <3> QED BY <3>1, <3>4 DEF ClientFits, Moved, Sound, LinkFits, Unadded, Backed, NoClient
  <2>11. \A l \in spent' : l \in Links /\ tables'.link[l].state \in {"used", "gone"}
    BY <1>4, <2>2, <2>5, <2>7 DEF AccountsInv, AccountsTypeOK, LinksMove, Ended
  <2>12. \A l \in replaced' : l \in Links /\ tables'.link[l].state = "gone"
    BY <1>4, <2>2, <2>5, <2>7 DEF AccountsInv, AccountsTypeOK, LinksMove, Ended
  <2>13. Sound(tables)'
    BY <2>5, <2>6, <2>9 DEF Sound, LinkFits
  <2>14. AccountsTypeOK'
    BY <1>0, <1>7, <2>5, <2>6, <2>8, <2>11, <2>12 DEF AccountsInv, AccountsTypeOK, TableStates
  <2>15. \A i \in DOMAIN sent' : sent'[i][3] \in confirmed'
    BY <1>0, <2>8 DEF AccountsInv
  <2> QED BY <1>8, <2>10, <2>11, <2>12, <2>13, <2>14, <2>15 DEF AccountsInv
<1> QED BY <1>11, <1>12

(* A step that leaves the tables, and all but some handlers, as they are. *)
LEMMA RestKeeps ==
    ASSUME AccountsInv, UNCHANGED <<tables, spent, replaced>>, AccountsTypeOK', confirmed \subseteq confirmed',
           \A g \in Clients : client'[g] = NoClient \/ client'[g] = client[g],
           \A i \in DOMAIN sent' : sent'[i][3] \in confirmed'
    PROVE  AccountsInv'
<1>0. confirmed \subseteq Emails
  BY DEF AccountsInv, AccountsTypeOK
<1>1. Sound(tables)'
  <2>1. PICK t : t = tables
    OBVIOUS
  <2>2. Sound(t)'
    BY <2>1, SoundStays DEF AccountsInv
  <2> QED BY <2>1, <2>2 DEF Sound, LinkFits
<1>2. ASSUME NEW g \in Clients PROVE (client[g] = NoClient \/ ClientFits(client[g]))'
  <2>1. PICK d : d = client'[g]
    OBVIOUS
  <2>2. d = NoClient \/ ClientFits(d)
    BY <2>1 DEF AccountsInv
  <2>3. d = NoClient \/ ClientFits(d)'
    BY <1>0, <2>2, ClientStill
  <2> QED BY <2>1, <2>3 DEF ClientFits, Moved, Sound, LinkFits, Unadded, Backed, NoClient
<1>3. (\A f, g \in Clients : f # g /\ client[f] # NoClient /\ client[g] # NoClient
           => Adds(client[f].request) \cap Adds(client[g].request) = {})'
  BY DEF AccountsInv, Adds
<1> QED BY <1>1, <1>2, <1>3 DEF AccountsInv

LEMMA ForgetKeeps == ASSUME AccountsInv, Forget PROVE AccountsInv'
<1>1. processed' = Tail(processed) /\ processed # <<>>
      /\ UNCHANGED <<tables, client, person, sent, confirmed, spent, replaced>>
  BY DEF Forget
<1>2. processed \in Seq(1..MaxMessages) /\ Len(processed) <= CacheSize /\ CacheSize \in Nat
  BY MessagesAssumption DEF AccountsInv, AccountsTypeOK
<1>3. Tail(processed) \in Seq(1..MaxMessages) /\ Len(Tail(processed)) = Len(processed) - 1
  BY <1>1, <1>2
<1>4. AccountsTypeOK'
  BY <1>1, <1>2, <1>3 DEF AccountsInv, AccountsTypeOK
<1> QED BY <1>1, <1>4, RestKeeps DEF AccountsInv

LEMMA FailKeeps ==
    ASSUME AccountsInv, NEW h \in Clients, NEW restart \in BOOLEAN, Fail(h, restart) PROVE AccountsInv'
<1>1. /\ client' = IF restart THEN [g \in Clients |-> NoClient] ELSE [client EXCEPT ![h] = NoClient]
      /\ processed' = IF restart THEN <<>> ELSE processed
      /\ UNCHANGED <<tables, person, sent, confirmed, spent, replaced>>
  BY DEF Fail
<1>2. DOMAIN client' = Clients /\ \A g \in Clients : client'[g] = NoClient \/ client'[g] = client[g]
  BY <1>1 DEF AccountsInv, AccountsTypeOK
<1>3. <<>> \in Seq(1..MaxMessages) /\ Len(<<>>) <= CacheSize
  BY MessagesAssumption
<1>4. AccountsTypeOK'
  BY <1>1, <1>2, <1>3 DEF AccountsInv, AccountsTypeOK
<1> QED BY <1>1, <1>2, <1>4, RestKeeps DEF AccountsInv

LEMMA ExpireKeeps == ASSUME AccountsInv, NEW l \in Links, Expire(l) PROVE AccountsInv'
<1>1. /\ tables.link[l].state = "fresh" /\ tables' = [tables EXCEPT !.link[l].state = "gone"]
      /\ UNCHANGED <<client, person, sent, processed, confirmed, spent, replaced>>
  BY DEF Expire
<1>2. PICK now \in TableStates : now = tables /\ Sound(now)
  BY DEF AccountsInv, Sound
<1>3. PICK old \in LinkRows : old = now.link[l]
  BY DEF TableStates
<1> DEFINE gone == [old EXCEPT !.state = "gone"]
           after == [now EXCEPT !.link[l] = gone]
<1>4. /\ gone \in LinkRows /\ gone.state = "gone" /\ gone.account = old.account /\ gone.to = old.to
      /\ gone.purpose = old.purpose
  BY DEF LinkRows
<1>5. tables' = after
  BY <1>1, <1>2, <1>3
<1> HIDE DEF gone
<1>6. /\ after \in TableStates /\ after.user = now.user
      /\ \A k \in Links : after.link[k] = IF k = l THEN gone ELSE now.link[k]
  BY <1>4 DEF TableStates
<1> HIDE DEF after
<1>7. RowsMove({}, tables, tables') /\ LinksMove({}, tables, tables')
  BY <1>1, <1>2, <1>3, <1>4, <1>5, <1>6 DEF RowsMove, LinksMove
<1>8. Sound(tables)'
  <2>1. \A k \in Links : LinkFits(after, k)
    BY <1>1, <1>2, <1>3, <1>4, <1>6 DEF Sound, LinkFits
  <2>2. Sound(after)
    BY <1>2, <1>6, <2>1 DEF Sound
  <2>3. PICK t : t = after /\ Sound(t)
    BY <2>2
  <2>4. Sound(t)'
    BY <1>1, <2>3, SoundStays
  <2> QED BY <1>5, <2>3, <2>4 DEF Sound, LinkFits
<1>9. confirmed \subseteq Emails /\ confirmed \subseteq confirmed'
  BY <1>1 DEF AccountsInv, AccountsTypeOK
<1>10. ASSUME NEW g \in Clients PROVE (client[g] = NoClient \/ ClientFits(client[g]))'
  <2>1. PICK d : d = client'[g]
    OBVIOUS
  <2>2. d = NoClient \/ ClientFits(d)
    BY <1>1, <2>1 DEF AccountsInv
  <2>3. d = NoClient \/ ClientFits(d)'
    BY <1>7, <1>9, <2>2, ClientStays
  <2> QED BY <2>1, <2>3 DEF ClientFits, Moved, Sound, LinkFits, Unadded, Backed, NoClient
<1>11. AccountsTypeOK'
  BY <1>1, <1>5, <1>6 DEF AccountsInv, AccountsTypeOK, TableStates
<1>12. (\A f, g \in Clients : f # g /\ client[f] # NoClient /\ client[g] # NoClient
           => Adds(client[f].request) \cap Adds(client[g].request) = {})'
  BY <1>1 DEF AccountsInv, Adds
<1>13. /\ \A k \in spent' : tables'.link[k].state \in {"used", "gone"}
       /\ \A k \in replaced' : tables'.link[k].state = "gone"
  BY <1>1, <1>2, <1>4, <1>5, <1>6 DEF AccountsInv, AccountsTypeOK
<1> QED BY <1>1, <1>8, <1>10, <1>11, <1>12, <1>13 DEF AccountsInv

LEMMA ClerkKeeps ==
    ASSUME AccountsInv, NEW kind \in {"created", "updated", "deleted"}, NEW id \in ClerkIds, NEW e \in Emails,
           ClerkSends(kind, id, e)
    PROVE  AccountsInv'
<1>1. /\ person' = [person EXCEPT ![id] = IF kind = "deleted" THEN NoEmail ELSE e]
      /\ sent' = Append(sent, <<kind, id, e>>) /\ confirmed' = confirmed \cup {e}
      /\ UNCHANGED <<tables, client, processed, spent, replaced>>
  BY DEF ClerkSends
<1>2. <<kind, id, e>> \in Messages /\ <<kind, id, e>>[3] = e
  BY DEF Messages
<1>3. sent \in Seq(Messages)
  BY DEF AccountsInv, AccountsTypeOK
<1>4. /\ sent' \in Seq(Messages) /\ Len(sent') = Len(sent) + 1 /\ sent'[Len(sent')] = <<kind, id, e>>
      /\ \A i \in 1..Len(sent) : sent'[i] = sent[i]
  BY <1>1, <1>2, <1>3
<1>5. \A i \in DOMAIN sent' : sent'[i][3] \in confirmed'
  BY <1>1, <1>2, <1>3, <1>4 DEF AccountsInv
<1>6. AccountsTypeOK'
  BY <1>1, <1>4 DEF AccountsInv, AccountsTypeOK
<1> QED BY <1>1, <1>5, <1>6, RestKeeps

-------------------------------------------------------------------------------
LEMMA NextAccounts == AccountsInv /\ [AccountsNext]_accountVars => AccountsInv'
<1> SUFFICES ASSUME AccountsInv, [AccountsNext]_accountVars PROVE AccountsInv'
  OBVIOUS
<1>1. CASE UNCHANGED accountVars
  BY <1>1, RestKeeps DEF accountVars, AccountsInv, AccountsTypeOK
<1> QED BY <1>1, AskKeeps, DeliverKeeps, FinishKeeps, FailKeeps, ExpireKeeps, ForgetKeeps, ClerkKeeps
        DEF AccountsNext

(* The invariant holds in every behaviour of the handlers of                *)
(* app/routers/auth.py and app/services/auth_tokens.py.                     *)
THEOREM AccountsInvHolds == AccountsSpec => []AccountsInv
BY InitAccounts, NextAccounts, PTL DEF AccountsSpec

(* The rows, links and notes of messages keep their types; the notes stay   *)
(* within the cache's limit.                                                *)
THEOREM AccountsTypesCorrect == AccountsSpec => []AccountsTypeOK
<1>1. AccountsInv => AccountsTypeOK
  BY DEF AccountsInv
<1> QED BY <1>1, AccountsInvHolds, PTL

(* With a mail server an address counts as verified only if its owner is    *)
(* known, and a link that was used or replaced does nothing again, of every *)
(* number of handlers, accounts, links and messages.                        *)
THEOREM LinksProve == AccountsSpec => LinksProveAddresses
<1>1. AccountsInv => VerifiedAddresses
  BY DEF AccountsInv, Sound, VerifiedAddresses
<1>2. AccountsInv /\ AccountsInv' /\ [AccountsNext]_accountVars =>
        [\A h \in Clients, l \in Links :
            Uses(client[h].request) = {l} /\ client'[h] = NoClient /\ tables'.link[l].state = "used"
                => ~client[h].late /\ l \notin replaced]_accountVars
  <2> SUFFICES ASSUME AccountsInv, AccountsInv', [AccountsNext]_accountVars,
                      NEW h \in Clients, NEW l \in Links, Uses(client[h].request) = {l},
                      tables'.link[l].state = "used"
               PROVE  ~client[h].late /\ l \notin replaced
    OBVIOUS
  <2>1. client[h] # NoClient
    BY DEF Uses, NoClient
  <2>2. ~client[h].late
    BY <2>1, Served DEF ClientFits
  <2>3. replaced \subseteq replaced'
    BY DEF AccountsNext, Ask, Deliver, Receive, Finish, Fail, Expire, Forget, ClerkSends, accountVars
  <2>4. l \notin replaced'
    BY DEF AccountsInv
  <2> QED BY <2>2, <2>3, <2>4
<1>3. AccountsSpec => []VerifiedAddresses
  BY <1>1, AccountsInvHolds, PTL
<1>4. AccountsSpec => DeadLinksStayDead
  BY <1>2, AccountsInvHolds, PTL DEF AccountsSpec, DeadLinksStayDead
<1> QED BY <1>3, <1>4 DEF LinksProveAddresses

-------------------------------------------------------------------------------
(* Tokens and signing keys.                                                 *)

(* What is counted from a withdrawal is no older than what is counted from  *)
(* the fetch that still saw the key.                                        *)
CacheFits ==
    /\ \A k \in SigningKeys : signing[k] # "withdrawn" => since[k] = 0
    /\ jwks.age < Hour => \A k \in jwks.keys :
          signing[k] = "live" \/ (signing[k] = "withdrawn" /\ since[k] <= jwks.age)

SessionsInv == SessionsTypeOK /\ CacheFits /\ WithdrawnKeysExpire

LEMMA InitSessions == SessionsInit => SessionsInv
<1> SUFFICES ASSUME SessionsInit PROVE SessionsInv
  OBVIOUS
<1>1. Hour \in Nat \ {0} /\ tokens \subseteq Tokens
  BY LivesAssumption DEF SessionsInit
<1>2. /\ signing \in [SigningKeys -> {"future", "live"}]
      /\ subject \in [Subjects -> [active : {TRUE}, linked : BOOLEAN]]
  BY DEF SessionsInit
<1>3. /\ signing \in [SigningKeys -> {"future", "live", "withdrawn"}]
      /\ subject \in [Subjects -> [active : BOOLEAN, linked : BOOLEAN]]
  BY <1>2
<1>4. since \in [SigningKeys -> 0..(Hour + 1)] /\ jwks \in [keys : SUBSET SigningKeys, age : 0..Hour]
  BY <1>1 DEF SessionsInit
<1>5. SessionsTypeOK
  BY <1>1, <1>3, <1>4 DEF SessionsInit, SessionsTypeOK
<1>6. CacheFits /\ WithdrawnKeysExpire
  BY <1>1, <1>2 DEF SessionsInit, CacheFits, WithdrawnKeysExpire
<1> QED BY <1>5, <1>6 DEF SessionsInv

(* The keys a token is checked with are as fresh as the cache must be.      *)
LEMMA KeysUsedFit ==
    ASSUME SessionsInv
    PROVE  /\ KeysUsed \in [keys : SUBSET SigningKeys, age : 0..Hour]
           /\ KeysUsed.age < Hour
           /\ \A k \in KeysUsed.keys :
                 signing[k] = "live" \/ (signing[k] = "withdrawn" /\ since[k] <= KeysUsed.age)
BY LivesAssumption DEF SessionsInv, SessionsTypeOK, CacheFits, KeysUsed, Live

LEMMA NextSessions == SessionsInv /\ [SessionsNext]_sessionVars => SessionsInv'
<1> SUFFICES ASSUME SessionsInv, [SessionsNext]_sessionVars PROVE SessionsInv'
  OBVIOUS
<1> USE DEF SessionsInv
<1>1. Hour \in Nat \ {0} /\ AccessLife \in Nat \ {0} /\ RefreshLife \in Nat \ {0}
  BY LivesAssumption
<1>2. ASSUME NEW k \in SigningKeys, Rotate(k) PROVE SessionsInv'
  BY <1>1, <1>2 DEF Rotate, SessionsTypeOK, CacheFits, WithdrawnKeysExpire
<1>3. ASSUME NEW k \in SigningKeys, NEW u \in Subjects, Present(k, u) PROVE SessionsInv'
  <2>1. jwks' \in [keys : SUBSET SigningKeys, age : 0..Hour] /\ admitted' \subseteq SigningKeys
    BY <1>3, KeysUsedFit DEF Present, SessionsTypeOK
  <2>2. SessionsTypeOK'
    BY <1>3, <2>1 DEF Present, SessionsTypeOK
  <2>3. CacheFits'
    <3>1. jwks' = jwks \/ jwks' = KeysUsed
      BY <1>3 DEF Present
    <3> QED BY <1>3, <3>1, KeysUsedFit DEF Present, CacheFits
  <2>4. WithdrawnKeysExpire'
    <3> SUFFICES ASSUME Pinned = {}, NEW j \in admitted' PROVE signing'[j] = "live" \/ since'[j] < Hour
      BY DEF WithdrawnKeysExpire
    <3>1. j = k /\ k \in jwks'.keys /\ jwks' = KeysUsed
      BY <1>3 DEF Present
    <3>2. since[k] \in 0..(Hour + 1) /\ KeysUsed.age \in 0..Hour
      BY KeysUsedFit DEF SessionsTypeOK
    <3> QED BY <1>1, <1>3, <3>1, <3>2, KeysUsedFit DEF Present
  <2> QED BY <2>2, <2>3, <2>4
<1>4. ASSUME NEW u \in Subjects, Login(u) PROVE SessionsInv'
  <2>1. tokens' \subseteq Tokens
    BY <1>1, <1>4 DEF Login, Issued, Tokens, SessionsTypeOK
  <2> QED BY <1>4, <2>1 DEF Login, SessionsTypeOK, CacheFits, WithdrawnKeysExpire
<1>5. ASSUME NEW u \in Subjects, SetActiveUser(u) PROVE SessionsInv'
  BY <1>5 DEF SetActiveUser, SessionsTypeOK, CacheFits, WithdrawnKeysExpire
<1>6. CASE SessionsTick
  <2>1. ASSUME NEW t \in tokens, t.left > 1 PROVE [t EXCEPT !.left = @ - 1] \in Tokens
    BY <1>1, <2>1 DEF SessionsTypeOK, Tokens
  <2>2. tokens' \subseteq Tokens
    BY <1>6, <2>1 DEF SessionsTick
  <2>3. since' \in [SigningKeys -> 0..(Hour + 1)] /\ jwks' \in [keys : SUBSET SigningKeys, age : 0..Hour]
    BY <1>1, <1>6 DEF SessionsTick, SessionsTypeOK
  <2>4. SessionsTypeOK'
    BY <1>6, <2>2, <2>3 DEF SessionsTick, SessionsTypeOK
  <2>5. CacheFits'
    <3>1. \A k \in SigningKeys : signing'[k] # "withdrawn" => since'[k] = 0
      BY <1>6 DEF SessionsTick, CacheFits, SessionsTypeOK
    <3>2. ASSUME jwks'.age < Hour, NEW k \in jwks'.keys
          PROVE  signing'[k] = "live" \/ (signing'[k] = "withdrawn" /\ since'[k] <= jwks'.age)
      <4>1. jwks.age < Hour /\ jwks'.age = jwks.age + 1 /\ jwks'.keys = jwks.keys
        BY <1>1, <1>6, <3>2 DEF SessionsTick, SessionsTypeOK
      <4>2. k \in SigningKeys /\ since[k] \in 0..(Hour + 1) /\ jwks.age \in 0..Hour
        BY <3>2, <4>1 DEF SessionsTypeOK
      <4>3. since'[k] <= since[k] + 1
        BY <1>6, <4>2 DEF SessionsTick
      <4>4. since'[k] \in 0..(Hour + 1)
        BY <2>3, <4>2
      <4> QED BY <1>6, <3>2, <4>1, <4>2, <4>3, <4>4 DEF SessionsTick, CacheFits
    <3> QED BY <3>1, <3>2 DEF CacheFits
  <2>6. WithdrawnKeysExpire'
    BY <1>6 DEF SessionsTick, WithdrawnKeysExpire
  <2> QED BY <2>4, <2>5, <2>6
<1>7. CASE UNCHANGED sessionVars
  BY <1>7 DEF sessionVars, SessionsTypeOK, CacheFits, WithdrawnKeysExpire
<1>8. ASSUME NEW token \in tokens, Refresh(token) PROVE SessionsInv'
  <2>1. token.user \in Subjects
    BY <1>8 DEF SessionsTypeOK, Tokens
  <2> QED BY <1>4, <1>8, <2>1 DEF Refresh
<1> QED BY <1>2, <1>3, <1>4, <1>5, <1>6, <1>7, <1>8 DEF SessionsNext

LEMMA SessionsInvHolds == SessionsSpec => []SessionsInv
BY InitSessions, NextSessions, PTL DEF SessionsSpec

(* "now - _jwks_cache_ts < 3600": a key that Clerk has withdrawn is         *)
(* accepted for less than an hour longer, however fetches, rotations and    *)
(* presented tokens alternate.                                              *)
THEOREM KeysExpire == SessionsSpec => []WithdrawnKeysExpire
<1>1. SessionsInv => WithdrawnKeysExpire
  BY DEF SessionsInv
<1> QED BY <1>1, SessionsInvHolds, PTL

-------------------------------------------------------------------------------
USE AmountsAssumption, DevelopmentAssumption

(* What a session has read is covered by what was metered and granted: the *)
(* strengthening NothingInvented needs, because commits are computed from  *)
(* these readings.                                                         *)
SeenCovered ==
    \A s \in Sessions :
        /\ session[s].seen.balance <= Free + granted
        /\ session[s].seen.bought <= granted
        /\ session[s].seen.used <= metered

WalletInv == TypeOK /\ NothingInvented /\ SeenCovered

(* The row an UPDATE leaves behind is well-formed, and covered if the row  *)
(* before it and the values written are.                                   *)
LEMMA UpdatedType ==
    ASSUME NEW seen \in Wallets, NEW new \in Wallets, wallet \in Wallets
    PROVE  /\ Updated(seen, new) \in Wallets
           /\ Updated(seen, new).balance \in {wallet.balance, new.balance}
           /\ Updated(seen, new).used \in {wallet.used, new.used}
           /\ Updated(seen, new).bought \in {wallet.bought, new.bought}
BY DEF Updated, Written, Wallets

LEMMA DeductedType ==
    ASSUME NEW row \in Wallets, NEW n \in Nat
    PROVE  /\ Deducted(row, n) \in Wallets
           /\ Deducted(row, n).balance <= row.balance
           /\ Deducted(row, n).used = row.used + n
           /\ Deducted(row, n).bought = row.bought
BY DEF Deducted, NotBelowZero, Wallets

LEMMA CreditedType ==
    ASSUME NEW row \in Wallets
    PROVE  /\ Credited(row) \in Wallets
           /\ Credited(row).balance = row.balance + Pack
           /\ Credited(row).used = row.used
           /\ Credited(row).bought = row.bought + Pack
BY DEF Credited, Wallets

LEMMA InitWalletInv == Init => WalletInv
BY DEF Init, WalletInv, TypeOK, NothingInvented, SeenCovered, NewWallet, NoHandler,
       Wallets, Statuses, Handlers, Phases

(* A step that writes nothing and leaves a session idle, or with a reading *)
(* taken in this step or earlier, preserves the invariant.                 *)
LEMMA ReadingStep ==
    ASSUME WalletInv, NEW s \in Sessions, NEW h \in Handlers,
           Become(s, h), Unwritten, UNCHANGED paid,
           h.seen \in {wallet, session[s].seen, NewWallet}
    PROVE  WalletInv'
<1> USE DEF WalletInv, Unwritten
<1>1. session' = [session EXCEPT ![s] = h]
  BY DEF Become
<1>2. TypeOK'
  BY <1>1 DEF TypeOK
<1>3. NothingInvented'
  BY DEF NothingInvented
<1>4. /\ h.seen.balance <= Free + granted
      /\ h.seen.bought <= granted
      /\ h.seen.used <= metered
  BY DEF NothingInvented, SeenCovered, NewWallet, TypeOK
<1>5. SeenCovered'
  BY <1>1, <1>4 DEF SeenCovered, TypeOK
<1> QED BY <1>2, <1>3, <1>5

LEMMA HandlerType ==
    ASSUME TypeOK, NEW s \in Sessions
    PROVE  /\ NoHandler \in Handlers /\ NewWallet \in Wallets
           /\ wallet \in Wallets /\ session[s] \in Handlers
           /\ session[s].seen \in Wallets
           /\ NoHandler.seen = NewWallet
BY DEF TypeOK, Handlers, NoHandler, NewWallet, Wallets, Phases

LEMMA StartChatStep ==
    ASSUME WalletInv, NEW s \in Sessions, StartChat(s) \/ OpenStream(s)
    PROVE  WalletInv'
<1> DEFINE h == [NoHandler EXCEPT !.phase = "calling", !.seen = wallet]
<1>1. h \in Handlers /\ h.seen = wallet
  BY HandlerType DEF WalletInv, Handlers, NoHandler, Phases
<1>2. Become(s, h) /\ Unwritten /\ UNCHANGED paid
  BY DEF StartChat, OpenStream
<1> HIDE DEF h
<1> QED BY <1>1, <1>2, ReadingStep

LEMMA StartStreamStep ==
    ASSUME WalletInv, NEW s \in Sessions, StartStream(s)
    PROVE  WalletInv'
<1> DEFINE h == [NoHandler EXCEPT !.phase = "admitted"]
<1>1. h \in Handlers /\ h.seen = NewWallet
  BY HandlerType DEF WalletInv, Handlers, NoHandler, Phases
<1>2. Become(s, h) /\ Unwritten /\ UNCHANGED paid
  BY DEF StartStream
<1> HIDE DEF h
<1> QED BY <1>1, <1>2, ReadingStep

LEMMA AbandonStep ==
    ASSUME WalletInv, NEW s \in Sessions, Abandon(s)
    PROVE  WalletInv'
<1>1. Become(s, NoHandler) /\ Unwritten /\ UNCHANGED paid
  BY DEF Abandon, End
<1>2. NoHandler \in Handlers /\ NoHandler.seen = NewWallet
  BY HandlerType DEF WalletInv
<1> QED BY <1>1, <1>2, ReadingStep

LEMMA WebhookStep ==
    ASSUME WalletInv, NEW s \in Sessions, NEW p \in Purchases, Webhook(s, p)
    PROVE  WalletInv'
<1> DEFINE h == [NoHandler EXCEPT !.phase = "found", !.buying = {p}]
<1>1. h \in Handlers /\ h.seen = NewWallet
  BY HandlerType DEF WalletInv, Handlers, NoHandler, Phases
<1>2. Become(s, h) /\ Unwritten /\ UNCHANGED paid
  BY DEF Webhook
<1> HIDE DEF h
<1> QED BY <1>1, <1>2, ReadingStep

LEMMA ReadForCreditStep ==
    ASSUME WalletInv, NEW s \in Sessions, ReadForCredit(s)
    PROVE  WalletInv'
<1> DEFINE h == [session[s] EXCEPT !.phase = "crediting", !.seen = wallet]
<1>1. h \in Handlers /\ h.seen = wallet
  BY HandlerType DEF WalletInv, Handlers, Phases
<1>2. Become(s, h) /\ Unwritten /\ UNCHANGED paid
  BY DEF ReadForCredit
<1> HIDE DEF h
<1> QED BY <1>1, <1>2, ReadingStep

LEMMA SimulateStep ==
    ASSUME WalletInv, NEW s \in Sessions, NEW p \in Purchases, Simulate(s, p)
    PROVE  WalletInv'
<1> DEFINE h == [NoHandler EXCEPT !.phase = "crediting", !.seen = wallet, !.buying = {p}]
<1>1. h \in Handlers /\ h.seen = wallet
  BY HandlerType DEF WalletInv, Handlers, NoHandler, Phases
<1>2. Become(s, h) /\ Unwritten /\ UNCHANGED paid
  BY DEF Simulate
<1> HIDE DEF h
<1> QED BY <1>1, <1>2, ReadingStep

LEMMA DeductStep ==
    ASSUME WalletInv, NEW s \in Sessions, NEW n \in Usages, Deduct(s, n)
    PROVE  WalletInv'
<1> DEFINE h == [session[s] EXCEPT !.phase = "flushed", !.owed = n]
<1> USE DEF WalletInv
<1>1. n \in Nat /\ session[s] \in Handlers
  BY HandlerType
<1>2. h \in Handlers /\ h.seen = session[s].seen
  BY <1>1 DEF Handlers, Phases
<1>3. alerts' \in Nat
  BY DEF Deduct, TypeOK
<1>4. /\ session' = [session EXCEPT ![s] = h]
      /\ UNCHANGED <<wallet, purchase, paid, metered, granted>>
  BY DEF Deduct, Become
<1> HIDE DEF h
<1>5. TypeOK'
  BY <1>2, <1>3, <1>4 DEF TypeOK
<1>6. NothingInvented' /\ SeenCovered'
  BY <1>2, <1>4 DEF NothingInvented, SeenCovered, TypeOK
<1> QED BY <1>5, <1>6

LEMMA CommitChatStep ==
    ASSUME WalletInv, NEW s \in Sessions, CommitChat(s)
    PROVE  WalletInv'
<1> DEFINE seen == session[s].seen
           n == session[s].owed
           new == Deducted(seen, n)
<1> USE DEF WalletInv
<1>1. seen \in Wallets /\ wallet \in Wallets /\ n \in Nat
  BY HandlerType DEF Handlers
<1>2. /\ seen.balance <= Free + granted
      /\ seen.bought <= granted
      /\ seen.used <= metered
  BY DEF SeenCovered
<1>3. /\ new \in Wallets
      /\ new.balance <= seen.balance
      /\ new.used = seen.used + n
      /\ new.bought = seen.bought
  BY <1>1, DeductedType
<1>4. wallet' = Updated(seen, new)
  BY DEF CommitChat
<1>5. /\ session' = [session EXCEPT ![s] = NoHandler]
      /\ metered' = metered + n
      /\ UNCHANGED <<purchase, paid, granted, alerts>>
  BY DEF CommitChat, End, Become
<1> HIDE DEF new, n, seen
<1>7. /\ wallet' \in Wallets
      /\ wallet'.balance <= Free + granted
      /\ wallet'.bought <= granted
      /\ wallet'.used <= metered + n
  BY <1>1, <1>2, <1>3, <1>4, UpdatedType DEF NothingInvented, TypeOK, Wallets
<1>8. TypeOK'
  BY <1>1, <1>5, <1>7, HandlerType DEF TypeOK
<1>9. NothingInvented'
  BY <1>5, <1>7 DEF NothingInvented
<1>10. SeenCovered'
  BY <1>1, <1>5, HandlerType DEF SeenCovered, TypeOK, NoHandler, NewWallet, Handlers, Wallets
<1> QED BY <1>8, <1>9, <1>10

LEMMA CreditStep ==
    ASSUME WalletInv, NEW s \in Sessions, Credit(s)
    PROVE  WalletInv'
<1> DEFINE seen == session[s].seen
           new == Credited(seen)
<1> USE DEF WalletInv
<1>1. seen \in Wallets /\ wallet \in Wallets
  BY HandlerType
<1>2. /\ seen.balance <= Free + granted
      /\ seen.bought <= granted
      /\ seen.used <= metered
  BY DEF SeenCovered
<1>3. /\ new \in Wallets
      /\ new.balance = seen.balance + Pack
      /\ new.used = seen.used
      /\ new.bought = seen.bought + Pack
  BY <1>1, CreditedType
<1>4. wallet' = Updated(seen, new)
  BY DEF Credit
<1>5. /\ session' = [session EXCEPT ![s] = NoHandler]
      /\ granted' = granted + Pack
      /\ UNCHANGED <<paid, metered, alerts>>
  BY DEF Credit, End, Become
<1>6. purchase' \in [Purchases -> Statuses]
  BY DEF Credit, TypeOK, Statuses
<1> HIDE DEF new
<1>7. /\ wallet' \in Wallets
      /\ wallet'.balance <= Free + granted + Pack
      /\ wallet'.bought <= granted + Pack
      /\ wallet'.used <= metered
  BY <1>1, <1>2, <1>3, <1>4, UpdatedType DEF NothingInvented, TypeOK, Wallets
<1>8. TypeOK'
  BY <1>1, <1>5, <1>6, <1>7, HandlerType DEF TypeOK
<1>9. NothingInvented'
  BY <1>5, <1>7 DEF NothingInvented, TypeOK, Wallets
<1>10. SeenCovered'
  BY <1>1, <1>5, HandlerType DEF SeenCovered, TypeOK, NoHandler, NewWallet, Handlers, Wallets
<1> QED BY <1>8, <1>9, <1>10

LEMMA NextWalletInv == WalletInv /\ [Next]_vars => WalletInv'
<1> SUFFICES ASSUME WalletInv, [Next]_vars PROVE WalletInv'
  OBVIOUS
<1>1. ASSUME NEW s \in Sessions, SessionStep(s) PROVE WalletInv'
  BY <1>1, StartChatStep, StartStreamStep, DeductStep, CommitChatStep, AbandonStep,
     WebhookStep, SimulateStep, ReadForCreditStep, CreditStep DEF SessionStep
<1>2. ASSUME NEW p \in Purchases, Checkout(p) \/ Pay(p) PROVE WalletInv'
  BY <1>2 DEF Checkout, Pay, Unwritten, WalletInv, TypeOK, NothingInvented, SeenCovered, Statuses
<1>3. CASE UNCHANGED vars
  BY <1>3 DEF vars, WalletInv, TypeOK, NothingInvented, SeenCovered
<1> QED BY <1>1, <1>2, <1>3 DEF Next

LEMMA WalletInvHolds == Spec => []WalletInv
BY InitWalletInv, NextWalletInv, PTL DEF Spec

(* Every variable keeps its type; in particular no column of the wallet    *)
(* ever becomes negative.                                                  *)
THEOREM WalletTypesCorrect == Spec => []TypeOK
BY WalletInvHolds, PTL DEF WalletInv

(* However many sessions overwrite one another's wallet, it never shows    *)
(* more tokens than were granted nor more usage than was metered.          *)
THEOREM NoTokensFromRaces == Spec => []NothingInvented
BY WalletInvHolds, PTL DEF WalletInv

(***************************************************************************)
(* Columns.                                                                *)
(***************************************************************************)
LEMMA QuietColumns ==
    ASSUME UNCHANGED wallet
    PROVE  OwnColumns
BY DEF OwnColumns

LEMMA NextColumns ==
    ASSUME WalletInv, [Next]_vars
    PROVE  OwnColumns
<1>1. ASSUME NEW s \in Sessions, CommitChat(s) PROVE OwnColumns
  <2> DEFINE seen == session[s].seen
             n == session[s].owed
             new == Deducted(seen, n)
  <2>1. n \in Nat /\ wallet \in Wallets /\ seen \in Wallets /\ metered \in Nat
    BY HandlerType DEF WalletInv, TypeOK, Handlers
  <2>2. new.used = seen.used + n /\ new.bought = seen.bought
    BY <2>1, DeductedType
  <2>3. metered' = metered + n /\ granted' = granted /\ wallet' = Updated(seen, new)
    BY <1>1 DEF CommitChat
  <2> HIDE DEF new
  <2>4. wallet'.bought = wallet.bought /\ (n = 0 => wallet'.used = wallet.used)
    BY <2>1, <2>2, <2>3 DEF Updated, Written, Wallets
  <2> QED BY <2>1, <2>3, <2>4 DEF OwnColumns
<1>2. ASSUME NEW s \in Sessions, Credit(s) PROVE OwnColumns
  <2> DEFINE seen == session[s].seen
             new == Credited(seen)
  <2>1. wallet \in Wallets /\ seen \in Wallets /\ granted \in Nat
    BY HandlerType DEF WalletInv, TypeOK
  <2>2. new.used = seen.used
    BY <2>1, CreditedType
  <2>3. wallet' = Updated(seen, new) /\ granted' = granted + Pack
    BY <1>2 DEF Credit
  <2> HIDE DEF new
  <2>4. wallet'.used = wallet.used
    BY <2>2, <2>3 DEF Updated, Written
  <2> QED BY <2>1, <2>3, <2>4 DEF OwnColumns
<1>3. ASSUME NEW s \in Sessions,
             \/ StartChat(s) \/ StartStream(s) \/ OpenStream(s) \/ Abandon(s)
             \/ \E p \in Purchases : Webhook(s, p) \/ Simulate(s, p)
             \/ ReadForCredit(s)
      PROVE OwnColumns
  <2>1. Unwritten
    BY <1>3, Zenon DEF StartChat, StartStream, OpenStream, Abandon, Webhook, Simulate,
                       ReadForCredit
  <2> QED BY <2>1, QuietColumns DEF Unwritten
<1>4. ASSUME NEW p \in Purchases, Checkout(p) \/ Pay(p) PROVE OwnColumns
  BY <1>4, QuietColumns DEF Checkout, Pay, Unwritten
<1>5. ASSUME NEW s \in Sessions, NEW n \in Usages, Deduct(s, n) PROVE OwnColumns
  BY <1>5, QuietColumns DEF Deduct
<1>6. CASE UNCHANGED vars
  BY <1>6, QuietColumns DEF vars
<1> QED BY <1>1, <1>2, <1>3, <1>4, <1>5, <1>6 DEF Next, SessionStep

(* Stale rows never carry a column into a commit that did not mean it: the *)
(* usage counter moves only with a chat, the purchase counter only with a  *)
(* purchase.                                                               *)
THEOREM ColumnsStayApart == Spec => ColumnsApart
<1>1. WalletInv /\ [Next]_vars => [OwnColumns]_vars
  BY NextColumns
<1> QED BY <1>1, WalletInvHolds, PTL DEF Spec, ColumnsApart

(***************************************************************************)
(* One session at a time implements the ledger.                            *)
(***************************************************************************)
OneAtATime == \A s, t \in Sessions : s = t

(* The only session works on the committed row, on the usage of an LLM     *)
(* call and on a purchase that is not completed.                           *)
FreshReading(s) ==
    /\ session[s].phase \in {"calling", "flushed", "crediting"} => session[s].seen = wallet
    /\ session[s].phase = "flushed" => session[s].owed \in Usages
OpenPurchase(s) ==
    session[s].phase \in {"found", "crediting"} =>
        \E p \in Purchases : session[s].buying = {p} /\ purchase[p] # "completed"

SerialInv == WalletInv /\ \A s \in Sessions : FreshReading(s) /\ OpenPurchase(s)

(* A session that begins or goes on without writing keeps SerialInv. *)
LEMMA SerialReading ==
    ASSUME OneAtATime, SerialInv, WalletInv', NEW s \in Sessions, NEW h,
           Become(s, h), UNCHANGED <<wallet, purchase>>,
           h.phase \in {"calling", "flushed", "crediting"} => h.seen = wallet,
           h.phase = "flushed" => h.owed \in Usages,
           h.phase \in {"found", "crediting"} =>
               \E p \in Purchases : h.buying = {p} /\ purchase[p] # "completed"
    PROVE  SerialInv'
<1>1. session'[s] = h /\ purchase' = purchase /\ wallet' = wallet
  BY DEF Become, SerialInv, WalletInv, TypeOK
<1>2. ASSUME NEW t \in Sessions PROVE FreshReading(t)' /\ OpenPurchase(t)'
  <2>1. t = s
    BY DEF OneAtATime
  <2> QED BY <1>1, <2>1 DEF FreshReading, OpenPurchase
<1> QED BY <1>2 DEF SerialInv

LEMMA SerialEnd ==
    ASSUME OneAtATime, SerialInv, WalletInv', NEW s \in Sessions, End(s)
    PROVE  SerialInv'
<1>1. session'[s].phase = "idle"
  BY DEF End, Become, SerialInv, WalletInv, TypeOK, NoHandler
<1>2. ASSUME NEW t \in Sessions PROVE FreshReading(t)' /\ OpenPurchase(t)'
  <2>1. t = s
    BY DEF OneAtATime
  <2> QED BY <1>1, <2>1 DEF FreshReading, OpenPurchase
<1> QED BY <1>2 DEF SerialInv

LEMMA SerialInit == Init => SerialInv
BY InitWalletInv DEF Init, SerialInv, FreshReading, OpenPurchase, NoHandler

LEMMA SerialNext ==
    ASSUME OneAtATime, SerialInv, [Next]_vars
    PROVE  SerialInv'
<1>1. WalletInv'
  BY NextWalletInv DEF SerialInv
<1>2. ASSUME NEW s \in Sessions, SessionStep(s) PROVE SerialInv'
  <2>1. CASE StartChat(s) \/ OpenStream(s)
    <3> DEFINE h == [NoHandler EXCEPT !.phase = "calling", !.seen = wallet]
    <3>1. Become(s, h) /\ UNCHANGED <<wallet, purchase>>
      BY <2>1 DEF StartChat, OpenStream, Unwritten
    <3>2. h.phase = "calling" /\ h.seen = wallet
      BY DEF NoHandler
    <3> HIDE DEF h
    <3> QED BY <1>1, <3>1, <3>2, SerialReading
  <2>2. CASE StartStream(s)
    <3> DEFINE h == [NoHandler EXCEPT !.phase = "admitted"]
    <3>1. Become(s, h) /\ UNCHANGED <<wallet, purchase>>
      BY <2>2 DEF StartStream, Unwritten
    <3>2. h.phase = "admitted"
      BY DEF NoHandler
    <3> HIDE DEF h
    <3> QED BY <1>1, <3>1, <3>2, SerialReading
  <2>3. CASE Abandon(s) \/ Credit(s) \/ CommitChat(s)
    <3>1. End(s)
      BY <2>3 DEF Abandon, Credit, CommitChat
    <3> QED BY <1>1, <3>1, SerialEnd
  <2>4. ASSUME NEW p \in Purchases, Webhook(s, p) PROVE SerialInv'
    <3> DEFINE h == [NoHandler EXCEPT !.phase = "found", !.buying = {p}]
    <3>1. Become(s, h) /\ UNCHANGED <<wallet, purchase>> /\ purchase[p] # "completed"
      BY <2>4 DEF Webhook, Unfinished, Unwritten
    <3>2. h.phase = "found" /\ h.buying = {p}
      BY DEF NoHandler
    <3> HIDE DEF h
    <3> QED BY <1>1, <3>1, <3>2, SerialReading
  <2>5. ASSUME NEW p \in Purchases, Simulate(s, p) PROVE SerialInv'
    <3> DEFINE h == [NoHandler EXCEPT !.phase = "crediting", !.seen = wallet, !.buying = {p}]
    <3>1. Become(s, h) /\ UNCHANGED <<wallet, purchase>> /\ purchase[p] # "completed"
      BY <2>5 DEF Simulate, Unused, Unwritten
    <3>2. h.phase = "crediting" /\ h.seen = wallet /\ h.buying = {p}
      BY DEF NoHandler
    <3> HIDE DEF h
    <3> QED BY <1>1, <3>1, <3>2, SerialReading
  <2>6. CASE ReadForCredit(s)
    <3> DEFINE h == [session[s] EXCEPT !.phase = "crediting", !.seen = wallet]
    <3>1. Become(s, h) /\ UNCHANGED <<wallet, purchase>> /\ session[s].phase = "found"
      BY <2>6 DEF ReadForCredit, Unwritten
    <3>2. h.phase = "crediting" /\ h.seen = wallet /\ h.buying = session[s].buying
      BY HandlerType DEF SerialInv, WalletInv, Handlers
    <3>3. \E p \in Purchases : h.buying = {p} /\ purchase[p] # "completed"
      BY <3>1, <3>2 DEF SerialInv, OpenPurchase
    <3> HIDE DEF h
    <3> QED BY <1>1, <3>1, <3>2, <3>3, SerialReading
  <2>7. ASSUME NEW n \in Usages, Deduct(s, n) PROVE SerialInv'
    <3> DEFINE h == [session[s] EXCEPT !.phase = "flushed", !.owed = n]
    <3>1. Become(s, h) /\ UNCHANGED <<wallet, purchase>> /\ session[s].phase = "calling"
      BY <2>7 DEF Deduct
    <3>2. h.phase = "flushed" /\ h.seen = session[s].seen /\ h.owed = n
      BY HandlerType DEF SerialInv, WalletInv, Handlers
    <3>3. h.seen = wallet
      BY <3>1, <3>2 DEF SerialInv, FreshReading
    <3> HIDE DEF h
    <3> QED BY <1>1, <3>1, <3>2, <3>3, SerialReading
  <2> QED BY <1>2, <2>1, <2>2, <2>3, <2>4, <2>5, <2>6, <2>7 DEF SessionStep
<1>3. ASSUME NEW p \in Purchases, Checkout(p) \/ Pay(p) PROVE SerialInv'
  <2>1. wallet' = wallet /\ session' = session
    BY <1>3 DEF Checkout, Pay, Unwritten
  <2>2. ASSUME NEW q \in Purchases, purchase[q] # "completed"
        PROVE  purchase'[q] # "completed"
    BY <1>3, <2>2 DEF Checkout, Pay, Unwritten, SerialInv, WalletInv, TypeOK
  <2> QED BY <1>1, <2>1, <2>2 DEF SerialInv, FreshReading, OpenPurchase
<1>4. CASE UNCHANGED vars
  BY <1>1, <1>4 DEF vars, SerialInv, FreshReading, OpenPurchase
<1> QED BY <1>2, <1>3, <1>4 DEF Next

LEMMA SerialInvariant ==
    ASSUME OneAtATime
    PROVE  Spec => []SerialInv
BY SerialInit, SerialNext, PTL DEF Spec

(* Whether a mail is on its way for usage that is not settled yet. *)
Warned == \E s \in Sessions : Alarming(session[s])

LEMMA OnlyWarned ==
    ASSUME OneAtATime, NEW s \in Sessions
    PROVE  /\ Warned <=> Alarming(session[s])
           /\ Warned' <=> Alarming(session'[s])
BY DEF OneAtATime, Warned, Alarming

(* A step that leaves the wallet, the completed purchases, the mails and   *)
(* whether one is due alone is a stutter of the ledger.                    *)
LEMMA QuietLedger ==
    ASSUME UNCHANGED <<wallet, Completed, alerts>>, Warned' <=> Warned
    PROVE  UNCHANGED TheLedger!vars
<1>1. UNCHANGED (\E s \in Sessions : Alarming(session[s]))
  BY Zenon DEF Warned
<1> QED BY <1>1 DEF TheLedger!vars

LEMMA Crossing ==
    ASSUME NEW row \in Wallets, NEW n \in Nat
    PROVE  /\ AlertDue(row.balance, Deducted(row, n).balance)
                 <=> (row.balance > LowBalance /\ TheLedger!NotBelowZero(row.balance - n) <= LowBalance)
           /\ Deducted(row, n).balance = TheLedger!NotBelowZero(row.balance - n)
           /\ Deducted(row, n).used = row.used + n
BY DEF AlertDue, Deducted, NotBelowZero, TheLedger!NotBelowZero, Wallets

LEMMA CreditImplements ==
    ASSUME OneAtATime, SerialInv, NEW s \in Sessions, Credit(s)
    PROVE  TheLedger!Next
<1>1. PICK p \in Purchases : session[s].buying = {p} /\ purchase[p] # "completed"
  BY DEF Credit, SerialInv, OpenPurchase
<1>2. session[s].seen = wallet
  BY DEF Credit, SerialInv, FreshReading
<1>3. wallet \in Wallets
  BY DEF SerialInv, WalletInv, TypeOK
<1>4. wallet' = Updated(wallet, Credited(wallet))
  BY <1>2 DEF Credit
<1>5. wallet'.balance = wallet.balance + Pack /\ wallet'.used = wallet.used
  BY <1>3, <1>4, CreditedType DEF Updated, Written
<1>6. Completed' = Completed \cup {p} /\ p \notin Completed /\ alerts' = alerts
  BY <1>1 DEF Credit, Completed
<1>7. session'[s].phase = "idle" /\ session[s].phase = "crediting"
  BY DEF Credit, End, Become, NoHandler, SerialInv, WalletInv, TypeOK
<1>8. ~Warned /\ ~Warned'
  BY <1>7, OnlyWarned DEF Alarming
<1>9. TheLedger!Credit(p)
  BY <1>5, <1>6, <1>8 DEF TheLedger!Credit, Warned
<1> QED BY <1>9 DEF TheLedger!Next

LEMMA DeductImplements ==
    ASSUME OneAtATime, SerialInv, NEW s \in Sessions, NEW n \in Usages, Deduct(s, n)
    PROVE  [TheLedger!Next]_(TheLedger!vars)
<1> DEFINE h == [session[s] EXCEPT !.phase = "flushed", !.owed = n]
<1>1. Completed' = Completed /\ UNCHANGED wallet
  BY DEF Deduct, Completed
<1>2. session[s].seen = wallet /\ wallet \in Wallets /\ n \in Nat /\ session[s] \in Handlers
  BY DEF Deduct, SerialInv, FreshReading, WalletInv, TypeOK
<1>3. /\ session[s].phase = "calling" /\ session'[s] = h
      /\ alerts' = IF Alarming(h) THEN alerts + 1 ELSE alerts
  BY DEF Deduct, Become, SerialInv, WalletInv, TypeOK
<1>4. h.phase = "flushed" /\ h.seen = wallet /\ h.owed = n
  BY <1>2 DEF Handlers
<1> HIDE DEF h
<1>5. ~Warned /\ (Warned' <=> Alarming(h))
  BY <1>3, OnlyWarned DEF Alarming
<1>6. Alarming(h) <=> TheLedger!Crosses(n)
  BY <1>2, <1>4, Crossing DEF Alarming, TheLedger!Crosses
<1>7. CASE ~Alarming(h)
  BY <1>1, <1>3, <1>5, <1>7, QuietLedger
<1>8. CASE Alarming(h)
  <2>1. TheLedger!Warn(n)
    BY <1>1, <1>3, <1>5, <1>6, <1>8 DEF TheLedger!Warn, Warned
  <2> QED BY <2>1 DEF TheLedger!Next
<1> QED BY <1>7, <1>8

LEMMA CommitImplements ==
    ASSUME OneAtATime, SerialInv, NEW s \in Sessions, CommitChat(s)
    PROVE  TheLedger!Next
<1> DEFINE n == session[s].owed
<1>1. Completed' = Completed /\ alerts' = alerts
  BY DEF CommitChat, Completed
<1>2. /\ session[s].phase = "flushed" /\ session[s].seen = wallet
      /\ wallet \in Wallets /\ n \in Usages /\ n \in Nat
  BY DEF CommitChat, SerialInv, FreshReading, WalletInv, TypeOK
<1>3. wallet' = Updated(wallet, Deducted(wallet, n))
  BY <1>2 DEF CommitChat
<1>4. /\ wallet'.balance = TheLedger!NotBelowZero(wallet.balance - n)
      /\ wallet'.used = wallet.used + n
  BY <1>2, <1>3, Crossing DEF Updated, Written
<1>5. session'[s].phase = "idle"
  BY DEF CommitChat, End, Become, NoHandler, SerialInv, WalletInv, TypeOK
<1>6. ~Warned' /\ (Warned <=> TheLedger!Crosses(n))
  BY <1>2, <1>5, Crossing, OnlyWarned DEF Alarming, TheLedger!Crosses
<1> HIDE DEF n
<1>7. TheLedger!Use(n)
  BY <1>1, <1>4, <1>6 DEF TheLedger!Use, Warned
<1> QED BY <1>2, <1>7 DEF TheLedger!Next

(* A rollback gives up a deduction, which may have been announced. *)
LEMMA AbandonImplements ==
    ASSUME OneAtATime, SerialInv, NEW s \in Sessions, Abandon(s)
    PROVE  [TheLedger!Next]_(TheLedger!vars)
<1>1. UNCHANGED <<wallet, Completed, alerts>>
  BY DEF Abandon, Unwritten, Completed
<1>2. session'[s].phase = "idle"
  BY DEF Abandon, End, Become, NoHandler, SerialInv, WalletInv, TypeOK
<1>3. ~Warned'
  BY <1>2, OnlyWarned DEF Alarming
<1>4. CASE Warned
  <2>1. TheLedger!GiveUp
    BY <1>1, <1>3, <1>4 DEF TheLedger!GiveUp, Warned
  <2> QED BY <2>1 DEF TheLedger!Next
<1>5. CASE ~Warned
  BY <1>1, <1>3, <1>5, QuietLedger
<1> QED BY <1>4, <1>5

(* A session that works without flushing anything is not announced. *)
LEMMA QuietSession ==
    ASSUME OneAtATime, SerialInv, NEW s \in Sessions,
           \/ StartChat(s) \/ StartStream(s) \/ OpenStream(s)
           \/ \E p \in Purchases : Webhook(s, p) \/ Simulate(s, p)
           \/ ReadForCredit(s)
    PROVE  UNCHANGED TheLedger!vars
<1> DEFINE Quiet == Unwritten /\ session[s].phase # "flushed" /\ session'[s].phase # "flushed"
<1>1. session[s] \in Handlers /\ \A h : Become(s, h) => session'[s] = h
  BY DEF SerialInv, WalletInv, TypeOK, Become
<1>2. ASSUME StartChat(s) \/ StartStream(s) \/ OpenStream(s) PROVE Quiet
  BY <1>1, <1>2 DEF StartChat, StartStream, OpenStream, NoHandler
<1>3. ASSUME NEW p \in Purchases, Webhook(s, p) \/ Simulate(s, p) PROVE Quiet
  <2> DEFINE found == [NoHandler EXCEPT !.phase = "found", !.buying = {p}]
             bought == [NoHandler EXCEPT !.phase = "crediting", !.seen = wallet, !.buying = {p}]
  <2>1. found.phase # "flushed" /\ bought.phase # "flushed"
    BY DEF NoHandler
  <2>2. Unwritten /\ session[s].phase = "idle" /\ (Become(s, found) \/ Become(s, bought))
    BY <1>3 DEF Webhook, Simulate
  <2> HIDE DEF found, bought
  <2> QED BY <1>1, <2>1, <2>2
<1>4. ASSUME ReadForCredit(s) PROVE Quiet
  BY <1>1, <1>4 DEF ReadForCredit, Handlers
<1>5. Quiet
  BY <1>2, <1>3, <1>4
<1>6. ~Warned /\ ~Warned'
  BY <1>5, OnlyWarned DEF Alarming
<1> QED BY <1>5, <1>6, QuietLedger DEF Unwritten, Completed

(* With one request at a time the account implements the ledger: no usage  *)
(* and no purchase is lost, none counts twice, and no usage takes the      *)
(* balance to the threshold without a mail of its own on the way.          *)
THEOREM SerialImplementsLedger ==
    ASSUME OneAtATime
    PROVE  Spec => LedgerSpec
<1>1. Init => TheLedger!Init
  BY DEF Init, TheLedger!Init, NewWallet, Completed, NoHandler, Alarming
<1>2. ASSUME SerialInv, [Next]_vars PROVE [TheLedger!Next]_(TheLedger!vars)
  <2>1. ASSUME NEW s \in Sessions, SessionStep(s) PROVE [TheLedger!Next]_(TheLedger!vars)
    <3>1. CASE Credit(s)
      BY <1>2, <3>1, CreditImplements
    <3>2. ASSUME NEW n \in Usages, Deduct(s, n) PROVE [TheLedger!Next]_(TheLedger!vars)
      BY <1>2, <3>2, DeductImplements
    <3>3. CASE CommitChat(s)
      BY <1>2, <3>3, CommitImplements
    <3>4. CASE Abandon(s)
      BY <1>2, <3>4, AbandonImplements
    <3>5. CASE \/ StartChat(s) \/ StartStream(s) \/ OpenStream(s)
               \/ \E p \in Purchases : Webhook(s, p) \/ Simulate(s, p)
               \/ ReadForCredit(s)
      BY <1>2, <3>5, QuietSession
    <3> QED BY <2>1, <3>1, <3>2, <3>3, <3>4, <3>5 DEF SessionStep
  <2>2. ASSUME NEW p \in Purchases, Checkout(p) \/ Pay(p)
        PROVE  UNCHANGED TheLedger!vars
    <3>1. wallet' = wallet /\ alerts' = alerts /\ session' = session
      BY <2>2 DEF Checkout, Pay, Unwritten
    <3>2. purchase \in [Purchases -> Statuses]
      BY <1>2 DEF SerialInv, WalletInv, TypeOK
    <3>3. \A q \in Purchases : (purchase'[q] = "completed") <=> (purchase[q] = "completed")
      BY <2>2, <3>2 DEF Checkout, Pay, Unwritten, Unused
    <3>4. Completed' = Completed
      BY <3>3 DEF Completed
    <3>5. Warned' <=> Warned
      BY <3>1 DEF Warned, Alarming
    <3> QED BY <3>1, <3>4, <3>5, QuietLedger
  <2>3. CASE UNCHANGED vars
    <3>1. Warned' <=> Warned
      BY <2>3 DEF vars, Warned, Alarming
    <3> QED BY <2>3, <3>1, QuietLedger DEF vars, Completed
  <2> QED BY <1>2, <2>1, <2>2, <2>3 DEF Next
<1>3. Spec => []SerialInv
  BY SerialInvariant
<1> QED BY <1>1, <1>2, <1>3, PTL DEF Spec, LedgerSpec, TheLedger!Spec

-------------------------------------------------------------------------------
(* What becomes of the words of a prompt.                                   *)

(* A vector carries the user of the row it was written for. *)
VectorsFit ==
    \A i \in MemoryIds : memory[i] # NoMemory /\ vector[i] # Nobody => memory[i].user = vector[i]

(* What a handler holds is its user's: hits, context, answer and new rows.  *)
HitsFit(r) == \A i \in r.hits : vector[i] = r.user /\ r.user \in People
ContextFits(r) == r.phase \in {"send", "call"} => \A s \in r.context : Values(s) \subseteq r.own
AnswerFits(r) ==
    r.phase \in {"extract", "picking"} =>
        /\ ~(mode.redact /\ mode.cache) => Values(r.answer) \subseteq Values(r.prompt) \cup r.own
        /\ mode.redact /\ (r.kind = "chat" \/ mode.private) =>
              {r.answer[i] : i \in DOMAIN r.answer} \cap Slots(r.prompt) = {}
StagedFits(r) ==
    \A i \in MemoryIds : r.staged[i] # NoMemory =>
        memory[i] = NoMemory /\ r.staged[i].user = r.user /\ vector[i] \in {Nobody, r.user}
TalkFits(r) ==
    /\ r \in TalkStates /\ (r.phase # "idle" => r.user \in People)
    /\ HitsFit(r) /\ ContextFits(r) /\ AnswerFits(r) /\ StagedFits(r)

StagedOnce ==
    \A s, t \in Talks : \A i \in MemoryIds :
        s # t /\ talk[s].staged[i] # NoMemory => talk[t].staged[i] = NoMemory

(* Without redaction a cached answer says what its key says. *)
Said(key) == Values(key.prompt) \cup UNION {Values(s) : s \in key.context}
AnswersFit ==
    mode.cache /\ ~mode.redact =>
        \A i \in DOMAIN cache : Values(cache[i].text) \subseteq Said(cache[i].key)

TalksInv ==
    /\ TalksTypeOK /\ VectorsFit /\ StagedOnce /\ AnswersFit
    /\ \A t \in Talks : TalkFits(talk[t])

-------------------------------------------------------------------------------
(* Texts. *)

LEMMA PieceTypes ==
    ASSUME NEW text \in Texts
    PROVE  /\ DOMAIN text = 1..Len(text) /\ Len(text) \in Nat
           /\ \A i \in DOMAIN text : text[i] \in Pieces
           /\ Values(text) \subseteq Pieces
BY DEF Texts, Values

LEMMA PlaceholderType ==
    ASSUME NEW text \in Texts, NEW i \in DOMAIN text, Personal(text[i])
    PROVE  Placeholder(text, i) \in Pieces /\ Placeholder(text, i).held
<1> DEFINE before == {j \in DOMAIN text : /\ Personal(text[j])
                                          /\ \/ Earlier(text[j].kind, text[i].kind)
                                             \/ text[j].kind = text[i].kind /\ j <= i}
<1>1. IsFiniteSet(DOMAIN text)
  BY PieceTypes, FS_Interval
<1>2. Cardinality(before) \in Nat
  BY <1>1, FS_Subset, FS_CardinalityType
<1>3. Number(text, i) \in Nat
  BY <1>2 DEF Number
<1> QED BY <1>3 DEF Placeholder, Pieces, Personal

(* A redacted text holds no personal data, and still is a text. *)
LEMMA RedactedType ==
    ASSUME NEW text \in Texts
    PROVE  Redacted(text) \in Texts /\ Values(Redacted(text)) = {}
<1>1. \A i \in DOMAIN text :
        /\ Redacted(text)[i] \in Pieces
        /\ ~Personal(Redacted(text)[i])
  BY PieceTypes, PlaceholderType DEF Redacted, Personal
<1>2. DOMAIN Redacted(text) = DOMAIN text
  BY DEF Redacted
<1>3. Redacted(text) \in [1..Len(text) -> Pieces]
  BY <1>1, PieceTypes DEF Redacted
<1>4. Redacted(text) \in Texts
  BY <1>3, PieceTypes DEF Texts
<1> QED BY <1>1, <1>2, <1>4 DEF Values

LEMMA FilledType ==
    ASSUME NEW text \in Texts, NEW p \in Slots(text)
    PROVE  Filled(text, p) \in Values(text) /\ Filled(text, p) \in Pieces /\ ~Filled(text, p).held
<1>1. PICK i \in DOMAIN text : Personal(text[i]) /\ Placeholder(text, i) = p
  BY DEF Slots
<1>2. \E k \in DOMAIN text : Personal(text[k]) /\ Placeholder(text, k) = p
  BY <1>1
<1>3. PICK k \in DOMAIN text : Personal(text[k]) /\ Filled(text, p) = text[k]
  BY <1>2, Zenon DEF Filled
<1> QED BY <1>3, PieceTypes DEF Values, Personal

(* Restoring adds the prompt's own values, and leaves none of its           *)
(* placeholders.                                                            *)
LEMMA RestoredType ==
    ASSUME NEW answer \in Texts, NEW text \in Texts
    PROVE  /\ Restored(answer, text) \in Texts
           /\ Values(Restored(answer, text)) \subseteq Values(answer) \cup Values(text)
           /\ {Restored(answer, text)[i] : i \in DOMAIN Restored(answer, text)} \cap Slots(text) = {}
<1> DEFINE full == Restored(answer, text)
<1>1. DOMAIN full = DOMAIN answer
  BY DEF Restored
<1>2. \A i \in DOMAIN answer : full[i] = IF answer[i] \in Slots(text) THEN Filled(text, answer[i]) ELSE answer[i]
  BY DEF Restored
<1> HIDE DEF full
<1>3. \A i \in DOMAIN answer : full[i] \in Pieces
  BY <1>2, FilledType, PieceTypes
<1>4. full \in Texts
  <2>1. full = [i \in 1..Len(answer) |-> full[i]]
    BY <1>1, PieceTypes DEF full, Restored
  <2>2. Len(answer) \in Nat /\ \A i \in 1..Len(answer) : full[i] \in Pieces
    BY <1>3, PieceTypes
  <2>3. full \in [1..Len(answer) -> Pieces]
    BY <2>1, <2>2
  <2> QED BY <2>2, <2>3 DEF Texts
<1>5. \A p \in Slots(text) : p.held
  BY PlaceholderType DEF Slots
<1>6. \A i \in DOMAIN answer : full[i] \notin Slots(text)
  BY <1>2, <1>5, FilledType
<1>7. \A i \in DOMAIN answer : Personal(full[i]) => full[i] \in Values(answer) \cup Values(text)
  BY <1>2, FilledType DEF Values
<1>8. Values(full) \subseteq Values(answer) \cup Values(text)
  BY <1>1, <1>7 DEF Values
<1> QED BY <1>1, <1>4, <1>6, <1>8 DEF full

LEMMA EmptyText == <<>> \in Texts /\ Values(<<>>) = {} /\ DOMAIN <<>> = {}
BY DEF Texts, Values

-------------------------------------------------------------------------------
LEMMA NoTalkFits == TalkFits(NoTalk)
<1>1. NoTalk \in TalkStates
  BY EmptyText DEF NoTalk, TalkStates, TalkPhases
<1> QED BY <1>1 DEF TalkFits, HitsFit, ContextFits, AnswerFits, StagedFits, NoTalk

LEMMA InitTalks == ConversationsInit => TalksInv
<1> SUFFICES ASSUME ConversationsInit PROVE TalksInv
  OBVIOUS
<1>1. \A t \in Talks : talk[t] = NoTalk
  BY DEF ConversationsInit
<1>2. NoTalk \in TalkStates /\ \A t \in Talks : TalkFits(talk[t])
  BY <1>1, NoTalkFits DEF TalkFits
<1>3. cache \in Seq(Entries) /\ Len(cache) = 0 /\ MaxEntries \in Nat /\ DOMAIN cache = {}
  BY ConversationBounds DEF ConversationsInit
<1>4. TalksTypeOK
  BY <1>2, <1>3 DEF ConversationsInit, TalksTypeOK
<1> QED BY <1>1, <1>2, <1>3, <1>4 DEF ConversationsInit, TalksInv, VectorsFit, StagedOnce, AnswersFit, NoTalk

(* What the parts of the invariant say, for the steps below. *)
LEMMA Kept ==
    ASSUME TalksInv
    PROVE  /\ mode \in Modes /\ mode.redact \in BOOLEAN /\ mode.cache \in BOOLEAN
           /\ mode.index \in BOOLEAN /\ mode.private \in BOOLEAN
           /\ memory \in [MemoryIds -> MemoryRows \cup {NoMemory}]
           /\ vector \in [MemoryIds -> People \cup {Nobody}]
           /\ talk \in [Talks -> TalkStates]
           /\ cache \in Seq(Entries) /\ Len(cache) <= MaxEntries
           /\ \A t \in Talks : TalkFits(talk[t]) /\ talk[t] \in TalkStates
BY ModesAssumption DEF TalksInv, TalksTypeOK

(* A handler goes on with what is its user's. *)
LEMMA TalkStep ==
    ASSUME TalksInv, NEW t \in Talks, NEW r, TalkFits(r), Now(t, r), UNCHANGED <<mode, memory, vector>>,
           \A i \in MemoryIds : r.staged[i] # NoMemory => r.staged[i] = talk[t].staged[i],
           cache' \in Seq(Entries), Len(cache') <= MaxEntries, AnswersFit'
    PROVE  TalksInv'
<1> USE Kept
<1>1. r \in TalkStates /\ talk' = [talk EXCEPT ![t] = r]
  BY DEF TalkFits, Now
<1>2. TalksTypeOK' /\ VectorsFit'
  BY <1>1 DEF TalksInv, TalksTypeOK, VectorsFit
<1>3. \A s \in Talks : talk'[s] = IF s = t THEN r ELSE talk[s]
  BY <1>1
<1>4. StagedOnce'
  BY <1>3 DEF TalksInv, StagedOnce
<1>5. \A s \in Talks : TalkFits(talk'[s])
  BY <1>3 DEF TalksInv
<1>6. \A s \in Talks : TalkFits(talk[s])'
  BY <1>5 DEF TalkFits, HitsFit, ContextFits, AnswerFits, StagedFits
<1> QED BY <1>2, <1>4, <1>6 DEF TalksInv

LEMMA CacheStays == ASSUME TalksInv, UNCHANGED <<mode, cache>>
                    PROVE  cache' \in Seq(Entries) /\ Len(cache') <= MaxEntries /\ AnswersFit'
<1>1. \A k : Said(k)' = Said(k) /\ \A x : Values(x)' = Values(x)
  BY DEF Said, Values, Personal
<1> QED BY <1>1 DEF TalksInv, TalksTypeOK, AnswersFit

LEMMA RestStep ==
    ASSUME TalksInv, NEW t \in Talks, Rest(t), UNCHANGED <<mode, memory, vector, cache>>
    PROVE  TalksInv'
<1>1. \A i \in MemoryIds : NoTalk.staged[i] = NoMemory
  BY DEF NoTalk
<1> QED BY <1>1, NoTalkFits, TalkStep, CacheStays DEF Rest

LEMMA BeginKeeps ==
    ASSUME TalksInv, NEW t \in Talks, NEW u \in People, NEW kind \in {"chat", "stream"}, NEW p \in Told,
           Begin(t, u, kind, p)
    PROVE  TalksInv'
<1> DEFINE r == [NoTalk EXCEPT !.phase = "recall", !.user = u, !.kind = kind, !.prompt = p]
<1>1. /\ r.phase = "recall" /\ r.user = u /\ r.hits = {} /\ r.staged = [i \in MemoryIds |-> NoMemory]
      /\ r \in TalkStates
  BY NoTalkFits, ToldAssumption DEF TalkFits, NoTalk, TalkStates, TalkPhases, Texts
<1>2. Now(t, r) /\ UNCHANGED <<mode, memory, vector, cache>>
  BY DEF Begin
<1> HIDE DEF r
<1>3. TalkFits(r)
  BY <1>1 DEF TalkFits, HitsFit, ContextFits, AnswerFits, StagedFits
<1> QED BY <1>1, <1>2, <1>3, TalkStep, CacheStays

LEMMA QueryKeeps ==
    ASSUME TalksInv, NEW t \in Talks, QueryIndex(t) PROVE TalksInv'
<1> USE Kept
<1>1. PICK hits \in SUBSET Known(talk[t].user) : Now(t, [talk[t] EXCEPT !.phase = "read", !.hits = hits])
  BY DEF QueryIndex, Few
<1>a. PICK old \in TalkStates : old = talk[t]
  OBVIOUS
<1> DEFINE r == [old EXCEPT !.phase = "read", !.hits = hits]
<1>2. talk[t].phase = "recall" /\ UNCHANGED <<mode, memory, vector, cache>>
  BY DEF QueryIndex
<1>b. hits \in SUBSET MemoryIds
  BY DEF Known
<1>3. /\ r.phase = "read" /\ r.user = talk[t].user /\ r.hits = hits /\ r.staged = talk[t].staged
      /\ r \in TalkStates
  <2>1. "read" \in TalkPhases
    BY DEF TalkPhases
  <2>2. /\ r.phase = "read" /\ r.user = old.user /\ r.hits = hits /\ r.staged = old.staged
        /\ r \in TalkStates
    BY <1>b, <2>1 DEF TalkStates
  <2> QED BY <1>a, <2>2
<1>4. Now(t, r)
  BY <1>1, <1>a
<1> HIDE DEF r
<1>5. TalkFits(r)
  BY <1>2, <1>3 DEF TalkFits, HitsFit, ContextFits, AnswerFits, StagedFits, Known
<1> QED BY <1>2, <1>3, <1>4, <1>5, TalkStep, CacheStays

(* A hit whose row is there is a row of the user's own. *)
LEMMA FoundAreOwn ==
    ASSUME TalksInv, NEW t \in Talks, talk[t].user # Nobody
    PROVE  Found(t) \subseteq OwnActive(memory, talk[t].user)
<1> USE Kept
<1> SUFFICES ASSUME NEW i \in Found(t) PROVE i \in OwnActive(memory, talk[t].user)
  OBVIOUS
<1>1. i \in MemoryIds /\ ~memory[i].archived /\ vector[i] = talk[t].user
  BY DEF Found, TalkFits, HitsFit, TalkStates
<1>2. memory[i] # NoMemory
  BY <1>1 DEF NoMemory
<1>3. memory[i].user = talk[t].user
  BY <1>1, <1>2 DEF TalksInv, VectorsFit
<1> QED BY <1>1, <1>3 DEF OwnActive, Active

LEMMA ReadKeeps ==
    ASSUME TalksInv, NEW t \in Talks, ReadMemories(t) PROVE TalksInv'
<1> USE Kept
<1> DEFINE mine == OwnActive(memory, talk[t].user)
           said(S) == {memory[i].text : i \in S}
           own == UNION {Values(s) : s \in said(mine)}
<1>1. talk[t].phase = "read" /\ UNCHANGED <<mode, memory, vector, cache>>
  BY DEF ReadMemories
<1>2. talk[t].user \in People /\ talk[t].user # Nobody
  BY <1>1, TeamAssumption DEF TalkFits
<1>3. Found(t) \subseteq mine
  BY <1>2, FoundAreOwn
<1>4. PICK used \in SUBSET mine :
        Now(t, [talk[t] EXCEPT !.phase = "send", !.hits = {}, !.context = said(used), !.own = own])
  BY <1>3 DEF ReadMemories, Few
<1>5. \A i \in mine : memory[i].text \in Texts
  BY EmptyText DEF OwnActive, Active, MemoryRows, NoMemory
<1>6. said(used) \subseteq said(mine) /\ said(mine) \subseteq Texts
  BY <1>5
<1>7. own \subseteq Pieces
  BY <1>6, PieceTypes
<1>8. \A s \in said(used) : Values(s) \subseteq own
  BY <1>6
<1> HIDE DEF own, said
<1>a. PICK old \in TalkStates : old = talk[t]
  OBVIOUS
<1> DEFINE r == [old EXCEPT !.phase = "send", !.hits = {}, !.context = said(used), !.own = own]
<1>9. /\ r.phase = "send" /\ r.user = talk[t].user /\ r.hits = {} /\ r.staged = talk[t].staged
      /\ r.context = said(used) /\ r.own = own /\ r \in TalkStates
  <2>1. said(used) \in SUBSET Texts /\ own \in SUBSET Pieces
    BY <1>6, <1>7
  <2>2. /\ r.phase = "send" /\ r.user = old.user /\ r.hits = {} /\ r.staged = old.staged
        /\ r.context = said(used) /\ r.own = own /\ r \in TalkStates
    BY <2>1 DEF TalkStates, TalkPhases
  <2> QED BY <1>a, <2>2
<1>10. Now(t, r)
  BY <1>4, <1>a
<1> HIDE DEF r
<1>11. TalkFits(r)
  BY <1>1, <1>2, <1>8, <1>9 DEF TalkFits, HitsFit, ContextFits, AnswerFits, StagedFits
<1> QED BY <1>1, <1>9, <1>10, <1>11, TalkStep, CacheStays

-------------------------------------------------------------------------------
(* The cache. *)

LEMMA WithoutType ==
    ASSUME cache \in Seq(Entries), NEW i \in DOMAIN cache
    PROVE  /\ Without(i) \in Seq(Entries) /\ Len(Without(i)) = Len(cache) - 1
           /\ \A j \in DOMAIN Without(i) : \E k \in DOMAIN cache : Without(i)[j] = cache[k]
<1> DEFINE a == SubSeq(cache, 1, i - 1)
           b == SubSeq(cache, i + 1, Len(cache))
<1>1. i \in 1..Len(cache) /\ Len(cache) \in Nat
  OBVIOUS
<1>2. a \in Seq(Entries) /\ Len(a) = i - 1 /\ \A j \in 1..(i - 1) : a[j] = cache[j]
  BY <1>1
<1>3. b \in Seq(Entries) /\ Len(b) = Len(cache) - i /\ \A j \in 1..(Len(cache) - i) : b[j] = cache[i + j]
  BY <1>1
<1>4. Without(i) = a \o b
  BY DEF Without
<1> HIDE DEF a, b
<1>5. a \o b \in Seq(Entries) /\ Len(a \o b) = Len(cache) - 1
  BY <1>1, <1>2, <1>3, ConcatProperties
<1>6. \A j \in 1..(Len(cache) - 1) : (a \o b)[j] = IF j <= i - 1 THEN a[j] ELSE b[j - (i - 1)]
  BY <1>1, <1>2, <1>3, ConcatProperties
<1>7. ASSUME NEW j \in 1..(Len(cache) - 1) PROVE \E k \in DOMAIN cache : (a \o b)[j] = cache[k]
  <2>1. CASE j <= i - 1
    <3>1. j \in DOMAIN cache /\ (a \o b)[j] = cache[j]
      BY <1>1, <1>2, <1>6, <2>1
    <3> QED BY <3>1
  <2>2. CASE ~(j <= i - 1)
    <3>0. j > i - 1 /\ j \in Int /\ i \in Int /\ Len(cache) \in Int /\ j < Len(cache)
      BY <1>1, <2>2
    <3>1. j - (i - 1) \in 1..(Len(cache) - i) /\ i + (j - (i - 1)) = j + 1 /\ j + 1 \in 1..Len(cache)
      BY <3>0
    <3>2. b[j - (i - 1)] = cache[j + 1] /\ (a \o b)[j] = b[j - (i - 1)]
      BY <1>1, <1>3, <1>6, <2>2, <3>1
    <3>3. j + 1 \in DOMAIN cache /\ (a \o b)[j] = cache[j + 1]
      BY <1>1, <3>1, <3>2
    <3> QED BY <3>3
  <2> QED BY <2>1, <2>2
<1>8. DOMAIN (a \o b) = 1..(Len(cache) - 1)
  BY <1>5
<1> QED BY <1>4, <1>5, <1>7, <1>8

LEMMA StoreType ==
    ASSUME cache \in Seq(Entries), Len(cache) <= MaxEntries, NEW e \in Entries
    PROVE  /\ Store(e) \in Seq(Entries) /\ Len(Store(e)) <= MaxEntries
           /\ \A j \in DOMAIN Store(e) : Store(e)[j] = e \/ \E k \in DOMAIN cache : Store(e)[j] = cache[k]
<1> DEFINE older == {i \in DOMAIN cache : cache[i].key = e.key}
           others == IF older = {} THEN cache ELSE Without(CHOOSE i \in older : TRUE)
           all == Append(others, e)
<1>1. /\ others \in Seq(Entries) /\ Len(others) <= MaxEntries
      /\ \A j \in DOMAIN others : \E k \in DOMAIN cache : others[j] = cache[k]
  <2>1. CASE older = {}
    BY <2>1
  <2>2. CASE older # {}
    <3>1. PICK i \in DOMAIN cache : others = Without(i)
      BY <2>2
    <3> HIDE DEF others, older
    <3>2. /\ Without(i) \in Seq(Entries) /\ Len(Without(i)) = Len(cache) - 1
          /\ \A j \in DOMAIN Without(i) : \E k \in DOMAIN cache : Without(i)[j] = cache[k]
      BY WithoutType
    <3>3. Len(cache) \in Nat
      OBVIOUS
    <3> QED BY <3>1, <3>2, <3>3, ConversationBounds
  <2> QED BY <2>1, <2>2
<1>2. Store(e) = IF Len(all) > MaxEntries THEN Tail(all) ELSE all
  BY DEF Store
<1> HIDE DEF others
<1>3. /\ all \in Seq(Entries) /\ Len(all) = Len(others) + 1 /\ all[Len(all)] = e
      /\ \A j \in 1..Len(others) : all[j] = others[j]
  BY <1>1
<1>4. \A j \in DOMAIN all : all[j] = e \/ \E k \in DOMAIN cache : all[j] = cache[k]
  BY <1>1, <1>3
<1> HIDE DEF all
<1>5. CASE Len(all) <= MaxEntries
  BY <1>2, <1>3, <1>4, <1>5, ConversationBounds
<1>6. CASE Len(all) > MaxEntries
  <2>1. Tail(all) \in Seq(Entries) /\ Len(Tail(all)) = Len(all) - 1
        /\ \A j \in DOMAIN Tail(all) : j + 1 \in DOMAIN all /\ Tail(all)[j] = all[j + 1]
    BY <1>3, <1>6, ConversationBounds
  <2> QED BY <1>1, <1>2, <1>3, <1>4, <1>6, <2>1, ConversationBounds
<1> QED BY <1>1, <1>3, <1>5, <1>6, ConversationBounds

LEMMA WordsForgotten == ASSUME TalksInv, ForgetAnswer PROVE TalksInv'
<1> USE Kept
<1>1. PICK i \in DOMAIN cache : cache' = Without(i)
  BY DEF ForgetAnswer
<1>2. /\ cache' \in Seq(Entries) /\ Len(cache') = Len(cache) - 1
      /\ \A j \in DOMAIN cache' : \E k \in DOMAIN cache : cache'[j] = cache[k]
  BY <1>1, WithoutType
<1>3. UNCHANGED <<mode, memory, vector, talk>>
  BY DEF ForgetAnswer
<1>4. Len(cache') <= MaxEntries
  BY <1>2, ConversationBounds
<1>5. AnswersFit'
  <2> SUFFICES ASSUME mode.cache, ~mode.redact, NEW j \in DOMAIN cache'
               PROVE  Values(cache'[j].text) \subseteq Said(cache'[j].key)
    BY <1>3 DEF AnswersFit, Said, Values, Personal
  <2>1. PICK k \in DOMAIN cache : cache'[j] = cache[k]
    BY <1>2
  <2> QED BY <2>1 DEF TalksInv, AnswersFit
<1>6. \A s \in Talks : TalkFits(talk[s])'
  <2>1. \A s \in Talks : TalkFits(talk'[s])
    BY <1>3
  <2> QED BY <1>3, <2>1 DEF TalkFits, HitsFit, ContextFits, AnswerFits, StagedFits
<1> QED BY <1>2, <1>3, <1>4, <1>5, <1>6 DEF TalksInv, TalksTypeOK, VectorsFit, StagedOnce

-------------------------------------------------------------------------------
(* Answers. *)

LEMMA ForProviderType ==
    ASSUME TalksInv, NEW prompt \in Texts
    PROVE  /\ ForProvider(prompt) \in Texts /\ Values(ForProvider(prompt)) \subseteq Values(prompt)
           /\ ~mode.redact => ForProvider(prompt) = prompt
BY RedactedType DEF ForProvider

LEMMA ForClientType ==
    ASSUME TalksInv, NEW prompt \in Texts, NEW raw \in Texts
    PROVE  /\ ForClient(raw, prompt) \in Texts
           /\ Values(ForClient(raw, prompt)) \subseteq Values(raw) \cup Values(prompt)
           /\ ~mode.redact => ForClient(raw, prompt) = raw
           /\ mode.redact => {ForClient(raw, prompt)[i] : i \in DOMAIN ForClient(raw, prompt)} \cap Slots(prompt) = {}
BY RestoredType DEF ForClient

LEMMA ConcludeKeeps ==
    ASSUME TalksInv, NEW t \in Talks, talk[t].phase \in {"send", "call"}, NEW raw \in Texts,
           ~(mode.redact /\ mode.cache) => Values(raw) \subseteq Values(talk[t].prompt) \cup talk[t].own,
           mode.cache /\ ~mode.redact => Values(raw) \subseteq Said(Key(t)),
           Conclude(t, raw), UNCHANGED <<mode, memory, vector>>
    PROVE  TalksInv'
<1>1. PICK old \in TalkStates : old = talk[t]
  BY Kept
<1> DEFINE filled == ForClient(raw, old.prompt)
           public == old.kind = "stream" /\ ~mode.private
           said(allowed) == IF public THEN raw ELSE IF allowed THEN filled ELSE <<>>
           r(allowed) == [old EXCEPT !.phase = "extract", !.context = {}, !.answer = said(allowed)]
           entry == [key |-> Key(t), text |-> filled]
<1>2. PICK allowed \in BOOLEAN :
        /\ Now(t, r(allowed))
        /\ cache' = IF UsesCache(t) /\ allowed THEN Store(entry) ELSE cache
  BY <1>1 DEF Conclude
<1>3. /\ old.prompt \in Texts /\ old.context \in SUBSET Texts /\ old.own \in SUBSET Pieces
      /\ old.user \in People
  BY <1>1, Kept DEF TalkStates, TalkFits
<1>4. /\ filled \in Texts /\ Values(filled) \subseteq Values(raw) \cup Values(old.prompt)
      /\ ~mode.redact => filled = raw
      /\ mode.redact => {filled[i] : i \in DOMAIN filled} \cap Slots(old.prompt) = {}
  BY <1>3, ForClientType
<1>5. said(allowed) \in Texts
  BY <1>4, EmptyText
<1> HIDE DEF filled
<1>6. /\ ~(mode.redact /\ mode.cache) => Values(said(allowed)) \subseteq Values(old.prompt) \cup old.own
      /\ mode.redact /\ ~public => {said(allowed)[i] : i \in DOMAIN said(allowed)} \cap Slots(old.prompt) = {}
  BY <1>1, <1>4, EmptyText
<1> HIDE DEF said
<1>7. /\ r(allowed) \in TalkStates /\ r(allowed).phase = "extract" /\ r(allowed).user = old.user
      /\ r(allowed).hits = old.hits /\ r(allowed).staged = old.staged /\ r(allowed).kind = old.kind
      /\ r(allowed).answer = said(allowed) /\ r(allowed).prompt = old.prompt /\ r(allowed).own = old.own
  BY <1>5 DEF TalkStates, TalkPhases
<1> HIDE DEF r
<1>8. TalkFits(r(allowed))
  <2>1. TalkFits(old)
    BY <1>1, Kept
  <2>2. HitsFit(r(allowed)) /\ StagedFits(r(allowed)) /\ ContextFits(r(allowed))
    BY <1>7, <2>1 DEF TalkFits, HitsFit, StagedFits, ContextFits
  <2>3. AnswerFits(r(allowed))
    <3>1. mode.redact /\ (old.kind = "chat" \/ mode.private) => ~public
      OBVIOUS
    <3> HIDE DEF public
    <3> QED BY <1>6, <1>7, <3>1 DEF AnswerFits
  <2> QED BY <1>3, <1>7, <2>2, <2>3 DEF TalkFits
<1>9. Key(t) \in Sent
  BY <1>1, <1>3, ForProviderType DEF Key, KeyOf, Sent
<1>10. entry \in Entries
  BY <1>4, <1>9 DEF Entries
<1>11. cache' \in Seq(Entries) /\ Len(cache') <= MaxEntries
       /\ \A j \in DOMAIN cache' : (cache'[j] = entry /\ UsesCache(t)) \/ \E k \in DOMAIN cache : cache'[j] = cache[k]
  BY <1>2, <1>10, Kept, StoreType
<1>12. AnswersFit'
  <2> SUFFICES ASSUME mode.cache, ~mode.redact, NEW j \in DOMAIN cache'
               PROVE  Values(cache'[j].text) \subseteq Said(cache'[j].key)
    BY DEF AnswersFit, Said, Values, Personal
  <2>1. CASE cache'[j] = entry
    BY <1>4, <2>1
  <2>2. CASE \E k \in DOMAIN cache : cache'[j] = cache[k]
    BY <2>2 DEF TalksInv, AnswersFit
  <2> QED BY <1>11, <2>1, <2>2
<1>13. \A i \in MemoryIds : r(allowed).staged[i] = talk[t].staged[i]
  BY <1>1, <1>7
<1> QED BY <1>2, <1>8, <1>11, <1>12, <1>13, TalkStep

LEMMA TakeKeeps ==
    ASSUME TalksInv, NEW t \in Talks, TakeCached(t) PROVE TalksInv'
<1>1. /\ talk[t].phase = "send" /\ mode.cache /\ UNCHANGED <<mode, memory, vector>>
  BY DEF TakeCached, UsesCache
<1>2. PICK k \in DOMAIN cache : cache[k].key = Key(t) /\ Conclude(t, cache[k].text)
  BY DEF TakeCached, Cached
<1>3. cache[k] \in Entries
  BY Kept
<1>4. cache[k].text \in Texts
  BY <1>3 DEF Entries
<1>5. ~mode.redact => Values(cache[k].text) \subseteq Said(Key(t))
  BY <1>1, <1>2 DEF TalksInv, AnswersFit
<1>6. ~mode.redact => Said(Key(t)) \subseteq Values(talk[t].prompt) \cup talk[t].own
  <2> SUFFICES ASSUME ~mode.redact PROVE Said(Key(t)) \subseteq Values(talk[t].prompt) \cup talk[t].own
    OBVIOUS
  <2>1. Key(t).prompt = talk[t].prompt /\ Key(t).context = talk[t].context
    BY DEF Key, KeyOf, ForProvider
  <2>2. \A s \in talk[t].context : Values(s) \subseteq talk[t].own
    BY <1>1, Kept DEF TalkFits, ContextFits
  <2> QED BY <2>1, <2>2 DEF Said
<1> QED BY <1>1, <1>2, <1>4, <1>5, <1>6, ConcludeKeeps

LEMMA CallKeeps == ASSUME TalksInv, NEW t \in Talks, CallProvider(t) PROVE TalksInv'
<1>1. PICK old \in TalkStates : old = talk[t]
  BY Kept
<1> DEFINE r == [old EXCEPT !.phase = "call"]
<1>2. talk[t].phase = "send" /\ Now(t, r) /\ UNCHANGED <<mode, memory, vector, cache>>
  BY <1>1 DEF CallProvider
<1>3. /\ r \in TalkStates /\ r.phase = "call" /\ r.user = old.user /\ r.hits = old.hits
      /\ r.staged = old.staged /\ r.context = old.context /\ r.own = old.own
  BY DEF TalkStates, TalkPhases
<1> HIDE DEF r
<1>4. TalkFits(old)
  BY <1>1, Kept
<1>5. TalkFits(r)
  BY <1>1, <1>2, <1>3, <1>4 DEF TalkFits, HitsFit, ContextFits, AnswerFits, StagedFits
<1> QED BY <1>1, <1>2, <1>3, <1>5, TalkStep, CacheStays

LEMMA AnswerKeeps == ASSUME TalksInv, NEW t \in Talks, ProviderAnswers(t) PROVE TalksInv'
<1>1. talk[t].phase = "call" /\ UNCHANGED <<mode, memory, vector>>
  BY DEF ProviderAnswers
<1>2. PICK raw \in talk[t].context \cup {ForProvider(talk[t].prompt)} : Conclude(t, raw)
  BY <1>1 DEF ProviderAnswers, InFlight
<1>3. talk[t].prompt \in Texts /\ talk[t].context \subseteq Texts
  BY Kept DEF TalkStates
<1>4. \A s \in talk[t].context : Values(s) \subseteq talk[t].own
  BY <1>1, Kept DEF TalkFits, ContextFits
<1>5. raw \in Texts /\ Values(raw) \subseteq Values(talk[t].prompt) \cup talk[t].own
  BY <1>3, <1>4, ForProviderType
<1>6. Values(raw) \subseteq Said(Key(t))
  BY DEF Said, Key, KeyOf
<1> QED BY <1>1, <1>2, <1>5, <1>6, ConcludeKeeps

LEMMA WordsAsked == ASSUME TalksInv, NEW t \in Talks, AskForMemories(t) PROVE TalksInv'
<1>1. PICK old \in TalkStates : old = talk[t]
  BY Kept
<1> DEFINE r == [old EXCEPT !.phase = "picking"]
<1>2. talk[t].phase = "extract" /\ Now(t, r) /\ UNCHANGED <<mode, memory, vector, cache>>
  BY <1>1 DEF AskForMemories
<1>3. /\ r \in TalkStates /\ r.phase = "picking" /\ r.user = old.user /\ r.hits = old.hits
      /\ r.staged = old.staged /\ r.answer = old.answer /\ r.own = old.own
      /\ r.prompt = old.prompt /\ r.kind = old.kind
  BY DEF TalkStates, TalkPhases
<1> HIDE DEF r
<1>4. TalkFits(old)
  BY <1>1, Kept
<1>5. TalkFits(r)
  BY <1>1, <1>2, <1>3, <1>4 DEF TalkFits, HitsFit, ContextFits, AnswerFits, StagedFits
<1> QED BY <1>1, <1>2, <1>3, <1>5, TalkStep, CacheStays

(* What is to be stored begins with nothing staged. *)
LEMMA StoreBegins ==
    ASSUME TalksInv, NEW t \in Talks, NEW u \in People, NEW wanted \in SUBSET Wishes,
           Now(t, [NoTalk EXCEPT !.phase = "store", !.user = u, !.wanted = wanted]),
           UNCHANGED <<mode, memory, vector, cache>>
    PROVE  TalksInv'
<1> DEFINE r == [NoTalk EXCEPT !.phase = "store", !.user = u, !.wanted = wanted]
<1>1. NoTalk \in TalkStates
  BY NoTalkFits DEF TalkFits
<1>2. /\ r \in TalkStates /\ r.phase = "store" /\ r.user = u
  BY <1>1 DEF TalkStates, TalkPhases
<1>3. r.hits = {} /\ r.staged = [i \in MemoryIds |-> NoMemory]
  BY DEF NoTalk
<1>4. Now(t, r)
  OBVIOUS
<1> HIDE DEF r
<1>5. TalkFits(r)
  BY <1>2, <1>3 DEF TalkFits, HitsFit, ContextFits, AnswerFits, StagedFits
<1> QED BY <1>3, <1>4, <1>5, TalkStep, CacheStays

LEMMA PickKeeps == ASSUME TalksInv, NEW t \in Talks, PickMemories(t) PROVE TalksInv'
<1>1. talk[t].phase # "idle" /\ UNCHANGED <<mode, memory, vector, cache>>
  BY DEF PickMemories
<1>2. PICK picked \in SUBSET {talk[t].prompt, talk[t].answer} :
         Now(t, [NoTalk EXCEPT !.phase = "store", !.user = talk[t].user,
                               !.wanted = [text : picked, pinned : {FALSE}, low : {FALSE}]])
  BY DEF PickMemories
<1>3. talk[t].user \in People /\ picked \subseteq Texts
  BY <1>1, Kept DEF TalkFits, TalkStates
<1>4. [text : picked, pinned : {FALSE}, low : {FALSE}] \in SUBSET Wishes
  BY <1>3 DEF Wishes
<1> QED BY <1>1, <1>2, <1>3, <1>4, StoreBegins

LEMMA CreateKeeps ==
    ASSUME TalksInv, NEW t \in Talks, NEW u \in People, NEW texts \in SUBSET Told,
           NEW pinned \in BOOLEAN, NEW low \in BOOLEAN, CreateMemories(t, u, texts, pinned, low)
    PROVE  TalksInv'
<1>1. [text : texts, pinned : {pinned}, low : {low}] \in SUBSET Wishes
  BY ToldAssumption DEF Wishes, Texts
<1> QED BY <1>1, StoreBegins DEF CreateMemories

-------------------------------------------------------------------------------
(* Memories. *)

LEMMA SeenRows ==
    ASSUME TalksInv, NEW t \in Talks
    PROVE  /\ DOMAIN Seen(t) = MemoryIds
           /\ \A i \in MemoryIds : talk[t].staged[i] # NoMemory =>
                 Seen(t)[i] \in MemoryRows /\ Seen(t)[i].user = talk[t].user
<1>1. DOMAIN Seen(t) = MemoryIds
  BY DEF Seen
<1>2. ASSUME NEW i \in MemoryIds, talk[t].staged[i] # NoMemory
      PROVE  Seen(t)[i] \in MemoryRows /\ Seen(t)[i].user = talk[t].user
  <2>1. PICK row \in MemoryRows : row = talk[t].staged[i]
    BY <1>2, Kept DEF TalkStates
  <2>2. row.user = talk[t].user
    BY <1>2, <2>1, Kept DEF TalkFits, StagedFits
  <2>3. Seen(t)[i] = IF i \in talk[t].archived THEN [row EXCEPT !.archived = TRUE] ELSE row
    BY <1>2, <2>1 DEF Seen
  <2>4. [row EXCEPT !.archived = TRUE] \in MemoryRows /\ [row EXCEPT !.archived = TRUE].user = row.user
    BY DEF MemoryRows
  <2> QED BY <2>2, <2>3, <2>4
<1> QED BY <1>1, <1>2

LEMMA StoreKeeps == ASSUME TalksInv, NEW t \in Talks, StoreOne(t) PROVE TalksInv'
<1>0. talk[t].phase = "store" /\ UNCHANGED <<mode, memory, cache>>
  BY DEF StoreOne
<1>1. PICK old \in TalkStates : old = talk[t]
  BY Kept
<1>2. TalkFits(old) /\ old.user \in People /\ old.phase = "store"
  BY <1>0, <1>1, Kept DEF TalkFits
<1> DEFINE rest(w) == [old EXCEPT !.wanted = old.wanted \ {w}]
           row(w) == [user |-> old.user, text |-> w.text, pinned |-> w.pinned, low |-> w.low,
                      archived |-> FALSE]
<1>3. PICK w \in talk[t].wanted :
        \/ Now(t, [talk[t] EXCEPT !.wanted = talk[t].wanted \ {w}]) /\ UNCHANGED vector
        \/ \E aged \in SUBSET Expirable(Seen(t), Team[talk[t].user]), id \in FreshIds, written \in BOOLEAN :
           \E pruned \in Pruned([i \in MemoryIds |-> [Seen(t)[i] EXCEPT !.archived = @ \/ i \in aged]],
                               Team[talk[t].user]) :
             /\ Now(t, [talk[t] EXCEPT !.wanted = talk[t].wanted \ {w}, !.archived = @ \cup aged \cup pruned,
                          !.staged[id] = [user |-> talk[t].user, text |-> w.text,
                                          pinned |-> w.pinned, low |-> w.low, archived |-> FALSE]])
             /\ written => mode.index
             /\ vector' = [vector EXCEPT ![id] = IF written THEN talk[t].user ELSE @]
  BY Zenon DEF StoreOne
<1>4. w \in old.wanted /\ w \in Wishes
  BY <1>1 DEF TalkStates
<1>5. CASE Now(t, [talk[t] EXCEPT !.wanted = talk[t].wanted \ {w}]) /\ UNCHANGED vector
  <2> DEFINE r == rest(w)
  <2>1. /\ r \in TalkStates /\ r.phase = "store" /\ r.user = old.user /\ r.hits = old.hits
        /\ r.staged = old.staged
    BY <1>2 DEF TalkStates
  <2>2. Now(t, r)
    BY <1>1, <1>5
  <2> HIDE DEF r
  <2>3. TalkFits(r)
    BY <1>2, <2>1 DEF TalkFits, HitsFit, ContextFits, AnswerFits, StagedFits
  <2> QED BY <1>0, <1>1, <1>5, <2>1, <2>2, <2>3, TalkStep, CacheStays
<1>6. CASE \E aged \in SUBSET Expirable(Seen(t), Team[talk[t].user]), id \in FreshIds, written \in BOOLEAN :
           \E pruned \in Pruned([i \in MemoryIds |-> [Seen(t)[i] EXCEPT !.archived = @ \/ i \in aged]],
                               Team[talk[t].user]) :
             /\ Now(t, [talk[t] EXCEPT !.wanted = talk[t].wanted \ {w}, !.archived = @ \cup aged \cup pruned,
                          !.staged[id] = [user |-> talk[t].user, text |-> w.text,
                                          pinned |-> w.pinned, low |-> w.low, archived |-> FALSE]])
             /\ written => mode.index
             /\ vector' = [vector EXCEPT ![id] = IF written THEN talk[t].user ELSE @]
  <2>1. PICK aged \in SUBSET Expirable(Seen(t), Team[talk[t].user]), id \in FreshIds, written \in BOOLEAN :
           \E pruned \in Pruned([i \in MemoryIds |-> [Seen(t)[i] EXCEPT !.archived = @ \/ i \in aged]],
                               Team[talk[t].user]) :
             /\ Now(t, [talk[t] EXCEPT !.wanted = talk[t].wanted \ {w}, !.archived = @ \cup aged \cup pruned,
                          !.staged[id] = [user |-> talk[t].user, text |-> w.text,
                                          pinned |-> w.pinned, low |-> w.low, archived |-> FALSE]])
             /\ written => mode.index
             /\ vector' = [vector EXCEPT ![id] = IF written THEN talk[t].user ELSE @]
    BY <1>6
  <2>2. PICK pruned \in SUBSET MemoryIds :
             /\ Now(t, [old EXCEPT !.wanted = old.wanted \ {w}, !.archived = @ \cup aged \cup pruned,
                                   !.staged[id] = row(w)])
             /\ vector' = [vector EXCEPT ![id] = IF written THEN old.user ELSE @]
    BY <1>1, <2>1 DEF Pruned, OfTeam, Active
  <2>3. aged \in SUBSET MemoryIds
    BY DEF Expirable, OfTeam, Active
  <2>4. /\ id \in MemoryIds /\ memory[id] = NoMemory /\ vector[id] = Nobody
        /\ \A s \in Talks : talk[s].staged[id] = NoMemory
    BY DEF FreshIds
  <2>5. row(w) \in MemoryRows /\ row(w).user = old.user
    BY <1>2, <1>4 DEF MemoryRows, Wishes
  <2>6. PICK new \in MemoryRows : new = row(w) /\ new.user = old.user
    BY <2>5
  <2> DEFINE r == [old EXCEPT !.wanted = old.wanted \ {w}, !.archived = @ \cup aged \cup pruned,
                              !.staged[id] = new]
  <2>7. /\ r.phase = "store" /\ r.user = old.user /\ r.hits = old.hits
        /\ r.staged = [old.staged EXCEPT ![id] = new]
        /\ r \in TalkStates
    <3>1. /\ old.wanted \ {w} \in SUBSET Wishes /\ old.archived \cup aged \cup pruned \in SUBSET MemoryIds
          /\ [old.staged EXCEPT ![id] = new] \in [MemoryIds -> MemoryRows \cup {NoMemory}]
      BY <2>3, <2>4 DEF TalkStates
    <3> QED BY <1>2, <3>1 DEF TalkStates
  <2>8. Now(t, r)
    BY <2>2, <2>6
  <2> HIDE DEF r, row
  <2>9. PICK owner \in People \cup {Nobody} : owner \in {Nobody, old.user} /\ vector' = [vector EXCEPT ![id] = owner]
    BY <1>2, <2>2, <2>4
  <2>10. \A s \in Talks : talk'[s] = IF s = t THEN r ELSE talk[s]
    BY <2>8, Kept DEF Now
  <2>11. \A i \in MemoryIds : vector'[i] = IF i = id THEN owner ELSE vector[i]
    BY <2>4, <2>9, Kept
  <2>12. \A i \in MemoryIds : r.staged[i] = IF i = id THEN new ELSE old.staged[i]
    BY <2>4, <2>7 DEF TalkStates
  <2>13. TalksTypeOK'
    BY <1>0, <2>4, <2>7, <2>8, <2>9, Kept DEF TalksTypeOK, Now
  <2>14. VectorsFit'
    BY <1>0, <2>4, <2>11 DEF TalksInv, VectorsFit
  <2>15. StagedOnce'
    BY <1>1, <2>4, <2>10, <2>12 DEF TalksInv, StagedOnce
  <2>16. AnswersFit'
    BY <1>0, CacheStays
  <2>17. ASSUME NEW s \in Talks PROVE TalkFits(talk[s])'
    <3>1. PICK now \in TalkStates : now = talk'[s]
      BY <2>7, <2>10, Kept
    <3>2. (\A i \in now.hits : i \in MemoryIds) /\ (now.phase # "idle" => now.user \in People)
      BY <1>2, <2>7, <2>10, <3>1, Kept DEF TalkStates, TalkFits
    <3>3. HitsFit(talk[s])'
      <4>1. \A i \in now.hits : vector[i] = now.user /\ now.user \in People
        BY <1>2, <2>7, <2>10, <3>1, Kept DEF TalkFits, HitsFit
      <4> QED BY <2>4, <2>11, <3>1, <3>2, <4>1, TeamAssumption DEF HitsFit
    <3>4. ContextFits(talk[s])' /\ AnswerFits(talk[s])'
      <4>1. ContextFits(now) /\ AnswerFits(now)
        <5>1. CASE s = t
          BY <2>7, <2>10, <3>1, <5>1 DEF ContextFits, AnswerFits
        <5>2. CASE s # t
          BY <2>10, <3>1, <5>2, Kept DEF TalkFits
        <5> QED BY <5>1, <5>2
      <4> QED BY <1>0, <3>1, <4>1 DEF ContextFits, AnswerFits
    <3>5. StagedFits(talk[s])'
      <4>1. CASE s = t
        <5>1. now = r
          BY <2>10, <3>1, <4>1
        <5>2. StagedFits(old)
          BY <1>2 DEF TalkFits
        <5>3. \A i \in MemoryIds : r.staged[i] # NoMemory =>
                memory'[i] = NoMemory /\ r.staged[i].user = r.user /\ vector'[i] \in {Nobody, r.user}
          BY <1>0, <2>4, <2>6, <2>7, <2>9, <2>11, <2>12, <5>2 DEF StagedFits
        <5> QED BY <3>1, <5>1, <5>3 DEF StagedFits
      <4>2. CASE s # t
        <5>1. now = talk[s]
          BY <2>10, <3>1, <4>2
        <5>2. StagedFits(now) /\ now.staged[id] = NoMemory
          BY <2>4, <5>1, Kept DEF TalkFits
        <5>3. \A i \in MemoryIds : now.staged[i] # NoMemory =>
                memory'[i] = NoMemory /\ now.staged[i].user = now.user /\ vector'[i] \in {Nobody, now.user}
          BY <1>0, <2>11, <5>2 DEF StagedFits
        <5> QED BY <3>1, <5>3 DEF StagedFits
      <4> QED BY <4>1, <4>2
    <3> QED BY <3>1, <3>2, <3>3, <3>4, <3>5 DEF TalkFits
  <2> QED BY <2>13, <2>14, <2>15, <2>16, <2>17 DEF TalksInv
<1> QED BY <1>3, <1>5, <1>6

(* A transaction of memories commits. *)
LEMMA CommitKeeps == ASSUME TalksInv, NEW t \in Talks, CommitMemories(t) PROVE TalksInv'
<1>1. UNCHANGED <<mode, vector, cache>> /\ Rest(t)
  BY DEF CommitMemories
<1>2. PICK old \in TalkStates : old = talk[t]
  BY Kept
<1>3. TalkFits(old) /\ old.user \in People /\ old.phase = "store"
  BY <1>2, Kept DEF TalkFits, CommitMemories
<1>4. DOMAIN memory' = MemoryIds /\ \A i \in MemoryIds :
        memory'[i] = IF old.staged[i] # NoMemory THEN Seen(t)[i]
                     ELSE [memory[i] EXCEPT !.archived = @ \/ i \in old.archived]
  BY <1>2 DEF CommitMemories
<1>5. \A i \in MemoryIds : old.staged[i] # NoMemory =>
        memory'[i] \in MemoryRows /\ memory'[i].user = old.user /\ vector[i] \in {Nobody, old.user}
  BY <1>2, <1>3, <1>4, SeenRows DEF TalkFits, StagedFits
<1>6. ASSUME NEW i \in MemoryIds, old.staged[i] = NoMemory
      PROVE  /\ memory'[i] \in MemoryRows \cup {NoMemory} /\ memory'[i].user = memory[i].user
             /\ memory[i] = NoMemory <=> memory'[i] = NoMemory
  <2>1. memory[i] \in MemoryRows \cup {NoMemory}
    BY Kept
  <2>2. memory'[i] = [memory[i] EXCEPT !.archived = @ \/ i \in old.archived]
    BY <1>4, <1>6
  <2>3. CASE memory[i] = NoMemory
    <3>0. NoMemory.archived = TRUE
      BY DEF NoMemory
    <3> DEFINE none == [user : {Nobody}, text : {<<>>}, pinned : {FALSE}, low : {FALSE}, archived : {TRUE}]
    <3>d. NoMemory \in none
      BY DEF NoMemory
    <3>e. ASSUME NEW row \in none PROVE row = NoMemory
      <4>1. /\ row = [user |-> row.user, text |-> row.text, pinned |-> row.pinned, low |-> row.low,
                      archived |-> row.archived]
        OBVIOUS
      <4>2. /\ row.user = Nobody /\ row.text = <<>> /\ row.pinned = FALSE /\ row.low = FALSE
            /\ row.archived = TRUE
        OBVIOUS
      <4> HIDE DEF none
      <4> QED BY <4>1, <4>2 DEF NoMemory
    <3>b. NoMemory \in none /\ \A row \in none : row = NoMemory
      BY <3>d, <3>e
    <3>c. \A row \in none : [row EXCEPT !.archived = TRUE] \in none
      OBVIOUS
    <3> HIDE DEF none
    <3>a. [NoMemory EXCEPT !.archived = TRUE] = NoMemory
      BY <3>b, <3>c
    <3>1. NoMemory.archived = TRUE /\ [NoMemory EXCEPT !.archived = TRUE] = NoMemory
      BY <3>0, <3>a
    <3>2. (NoMemory.archived \/ i \in old.archived) = TRUE
      BY <3>1
    <3>3. memory'[i] = [NoMemory EXCEPT !.archived = (NoMemory.archived \/ i \in old.archived)]
      BY <2>2, <2>3
    <3>4. memory'[i] = NoMemory
      BY <3>1, <3>2, <3>3
    <3> QED BY <2>3, <3>4
  <2>4. CASE memory[i] \in MemoryRows
    <3>1. PICK row \in MemoryRows : row = memory[i]
      BY <2>4
    <3>2. row.user \in People /\ memory'[i] \in MemoryRows /\ memory'[i].user = row.user
      BY <2>2, <3>1 DEF MemoryRows
    <3>3. NoMemory.user \notin People
      BY TeamAssumption DEF NoMemory
    <3> QED BY <3>1, <3>2, <3>3
  <2> QED BY <2>1, <2>3, <2>4
<1>7. memory' \in [MemoryIds -> MemoryRows \cup {NoMemory}]
  <2>1. \A i \in MemoryIds : memory'[i] \in MemoryRows \cup {NoMemory}
    BY <1>5, <1>6
  <2>2. memory' = [i \in MemoryIds |-> memory'[i]]
    BY <1>4 DEF CommitMemories
  <2> QED BY <2>1, <2>2
<1>8. \A s \in Talks : talk'[s] = IF s = t THEN NoTalk ELSE talk[s]
  BY <1>1, Kept DEF Rest, Now
<1>9. NoTalk \in TalkStates /\ \A i \in MemoryIds : NoTalk.staged[i] = NoMemory
  BY NoTalkFits DEF TalkFits, NoTalk
<1>10. TalksTypeOK'
  BY <1>1, <1>7, <1>9, Kept DEF TalksTypeOK, Rest, Now
<1>11. VectorsFit'
  <2> SUFFICES ASSUME NEW i \in MemoryIds, memory'[i] # NoMemory, vector[i] # Nobody
               PROVE  memory'[i].user = vector[i]
    BY <1>1 DEF VectorsFit
  <2>1. CASE old.staged[i] # NoMemory
    BY <1>5, <2>1
  <2>2. CASE old.staged[i] = NoMemory
    BY <1>6, <2>2 DEF TalksInv, VectorsFit
  <2> QED BY <2>1, <2>2
<1>12. StagedOnce'
  BY <1>8, <1>9 DEF TalksInv, StagedOnce
<1>13. AnswersFit'
  BY <1>1, CacheStays
<1>14. ASSUME NEW s \in Talks PROVE TalkFits(talk[s])'
  <2>1. CASE s = t
    <3>1. TalkFits(NoTalk)'
      BY <1>9 DEF TalkFits, HitsFit, ContextFits, AnswerFits, StagedFits, NoTalk
    <3> QED BY <1>8, <2>1, <3>1 DEF TalkFits, HitsFit, ContextFits, AnswerFits, StagedFits
  <2>2. CASE s # t
    <3>1. PICK now \in TalkStates : now = talk[s] /\ now = talk'[s]
      BY <1>8, <2>2, Kept
    <3>2. TalkFits(now)
      BY <3>1, Kept
    <3>3. \A i \in MemoryIds : now.staged[i] # NoMemory => old.staged[i] = NoMemory
      <4>1. \A i \in MemoryIds : talk[s].staged[i] # NoMemory => talk[t].staged[i] = NoMemory
        BY <2>2 DEF TalksInv, StagedOnce
      <4>2. old = talk[t] /\ now = talk[s]
        BY <1>2, <3>1
      <4> QED BY <4>1, <4>2, Zenon
    <3>4. HitsFit(now)' /\ ContextFits(now)' /\ AnswerFits(now)'
      BY <1>1, <3>2 DEF TalkFits, HitsFit, ContextFits, AnswerFits
    <3>5. StagedFits(now)'
      BY <1>1, <1>6, <3>2, <3>3 DEF TalkFits, StagedFits
    <3>6. TalkFits(now)'
      BY <3>2, <3>4, <3>5 DEF TalkFits
    <3> QED BY <3>1, <3>6 DEF TalkFits, HitsFit, ContextFits, AnswerFits, StagedFits
  <2> QED BY <2>1, <2>2
<1> QED BY <1>10, <1>11, <1>12, <1>13, <1>14 DEF TalksInv

(* A member changes a row of one's own. *)
LEMMA RowStep ==
    ASSUME TalksInv, NEW i \in MemoryIds, NEW row \in MemoryRows, memory[i] # NoMemory,
           row.user = memory[i].user, memory' = [memory EXCEPT ![i] = row],
           UNCHANGED <<mode, vector, cache, talk>>
    PROVE  TalksInv'
<1> USE Kept
<1>1. TalksTypeOK' /\ VectorsFit' /\ StagedOnce'
  BY DEF TalksInv, TalksTypeOK, VectorsFit, StagedOnce
<1>2. AnswersFit'
  BY CacheStays
<1>3. ASSUME NEW s \in Talks PROVE TalkFits(talk[s])'
  <2>1. PICK now \in TalkStates : now = talk[s] /\ now = talk'[s] /\ TalkFits(now)
    OBVIOUS
  <2>2. HitsFit(now)' /\ ContextFits(now)' /\ AnswerFits(now)'
    BY <2>1 DEF TalkFits, HitsFit, ContextFits, AnswerFits
  <2>3. StagedFits(now)'
    BY <2>1 DEF TalkFits, StagedFits
  <2>4. TalkFits(now)'
    BY <2>1, <2>2, <2>3 DEF TalkFits
  <2> QED BY <2>1, <2>4 DEF TalkFits, HitsFit, ContextFits, AnswerFits, StagedFits
<1> QED BY <1>1, <1>2, <1>3 DEF TalksInv

LEMMA OwnRow ==
    ASSUME TalksInv, NEW u \in People, NEW i \in MemoryIds, memory[i].user = u
    PROVE  memory[i] \in MemoryRows /\ memory[i] # NoMemory
BY Kept, TeamAssumption DEF NoMemory

LEMMA PatchKeeps ==
    ASSUME TalksInv, NEW u \in People, NEW i \in MemoryIds, PatchMemory(u, i) PROVE TalksInv'
<1>1. memory[i] # NoMemory /\ memory[i] \in MemoryRows
  BY OwnRow DEF PatchMemory
<1>2. PICK old \in MemoryRows : old = memory[i]
  BY <1>1
<1>3. PICK row \in {[old EXCEPT !.pinned = b] : b \in BOOLEAN} \cup {[old EXCEPT !.low = b] : b \in BOOLEAN}
                    \cup {[old EXCEPT !.archived = b] : b \in BOOLEAN} \cup {[old EXCEPT !.text = s] : s \in Told} :
        memory' = [memory EXCEPT ![i] = row]
  BY <1>2 DEF PatchMemory
<1>4. row \in MemoryRows /\ row.user = old.user
  BY ToldAssumption DEF MemoryRows, Texts
<1>5. UNCHANGED <<mode, vector, cache, talk>>
  BY DEF PatchMemory
<1> QED BY <1>1, <1>2, <1>3, <1>4, <1>5, RowStep

LEMMA DeleteKeeps ==
    ASSUME TalksInv, NEW u \in People, NEW i \in MemoryIds, DeleteMemory(u, i) PROVE TalksInv'
<1>1. memory[i] # NoMemory /\ memory[i] \in MemoryRows
  BY OwnRow DEF DeleteMemory
<1>2. PICK old \in MemoryRows : old = memory[i]
  BY <1>1
<1> DEFINE row == [old EXCEPT !.archived = TRUE]
<1>3. row \in MemoryRows /\ row.user = old.user
  BY DEF MemoryRows
<1>4. memory' = [memory EXCEPT ![i] = row] /\ UNCHANGED <<mode, vector, cache, talk>>
  BY <1>2, Kept DEF DeleteMemory
<1> HIDE DEF row
<1> QED BY <1>1, <1>2, <1>3, <1>4, RowStep

-------------------------------------------------------------------------------
LEMMA NextTalks == TalksInv /\ [ConversationsNext]_talkVars => TalksInv'
<1> SUFFICES ASSUME TalksInv, [ConversationsNext]_talkVars PROVE TalksInv'
  OBVIOUS
<1>1. ASSUME NEW t \in Talks, Converse(t) PROVE TalksInv'
  <2>1. CASE \E u \in People, kind \in {"chat", "stream"}, p \in Told : Begin(t, u, kind, p)
    BY <2>1, BeginKeeps
  <2>2. CASE QueryIndex(t) \/ ReadMemories(t) \/ TakeCached(t) \/ CallProvider(t) \/ ProviderAnswers(t)
    BY <2>2, QueryKeeps, ReadKeeps, TakeKeeps, CallKeeps, AnswerKeeps
  <2>3. CASE ProviderFails(t) \/ EndTalk(t) \/ Drop(t)
    BY <2>3, RestStep DEF ProviderFails, EndTalk, Drop
  <2>4. CASE AskForMemories(t) \/ PickMemories(t) \/ StoreOne(t) \/ CommitMemories(t)
    BY <2>4, WordsAsked, PickKeeps, StoreKeeps, CommitKeeps
  <2> QED BY <1>1, <2>1, <2>2, <2>3, <2>4 DEF Converse
<1>2. CASE Manage
  BY <1>2, CreateKeeps, PatchKeeps, DeleteKeeps DEF Manage
<1>3. CASE ForgetAnswer
  BY <1>3, WordsForgotten
<1>4. CASE UNCHANGED talkVars
  <2>1. UNCHANGED <<mode, memory, vector, cache, talk>>
    BY <1>4 DEF talkVars
  <2>2. TalksTypeOK' /\ VectorsFit' /\ StagedOnce'
    BY <2>1 DEF TalksInv, TalksTypeOK, VectorsFit, StagedOnce
  <2>3. \A s \in Talks : TalkFits(talk[s])'
    <3>1. \A s \in Talks : TalkFits(talk'[s])
      BY <2>1, Kept
    <3> QED BY <2>1, <3>1 DEF TalkFits, HitsFit, ContextFits, AnswerFits, StagedFits
  <2> QED BY <2>1, <2>2, <2>3, CacheStays DEF TalksInv
<1> QED BY <1>1, <1>2, <1>3, <1>4 DEF ConversationsNext

(* The invariant holds in every behaviour of the handlers of               *)
(* app/routers/chat.py and memories.py.                                     *)
THEOREM TalksInvHolds == ConversationsSpec => []TalksInv
BY InitTalks, NextTalks, PTL DEF ConversationsSpec

(* What the handlers hold, the rows, the vectors' metadata and the cached   *)
(* answers keep their types; the cache keeps its bound                      *)
(* (response_cache.py:69, "while len(_memory) > _MAX_ENTRIES").    *)
THEOREM TalksTypesCorrect == ConversationsSpec => []TalksTypeOK
<1>1. TalksInv => TalksTypeOK
  BY DEF TalksInv
<1> QED BY <1>1, TalksInvHolds, PTL

(* Personal data in an answer is the asker's own, and no placeholder of the *)
(* prompt is left in it: of every number of requests, users, memories and   *)
(* texts, though vectors outlive their rows and answers are reused.         *)
THEOREM ValuesStayHome == ConversationsSpec => []ValuesComeHome
<1>1. TalksInv => ValuesComeHome
  <2> SUFFICES ASSUME TalksInv PROVE ValuesComeHome
    OBVIOUS
  <2>1. \A t \in Talks : AnswerFits(talk[t])
    BY Kept DEF TalkFits
  <2> QED BY <2>1 DEF AnswerFits, ValuesComeHome
<1> QED BY <1>1, TalksInvHolds, PTL

-------------------------------------------------------------------------------
(* All of MCTenancy: whatever a behaviour follows, it is one of every part, *)
(* which either takes a step of its own or is left as it is.                *)
LEMMA TenancyImplements ==
    TenancySpec => WorkspacesSpec /\ AccountsSpec /\ SessionsSpec /\ Spec /\ ConversationsSpec
<1>1. TenancyInit => WorkspacesInit /\ AccountsInit /\ SessionsInit /\ Init /\ ConversationsInit
  BY DEF TenancyInit
<1>2. [TenancyNext]_tenancyVars =>
          /\ [WorkspacesNext]_workVars /\ [AccountsNext]_accountVars /\ [SessionsNext]_sessionVars
          /\ [Next]_vars /\ [ConversationsNext]_talkVars
  <2>1. TenancyNext =>
            \/ WorkspacesNext /\ UNCHANGED <<accountVars, sessionVars, vars, talkVars>>
            \/ AccountsNext /\ UNCHANGED <<workVars, sessionVars, vars, talkVars>>
            \/ SessionsNext /\ UNCHANGED <<workVars, accountVars, vars, talkVars>>
            \/ Next /\ UNCHANGED <<workVars, accountVars, sessionVars, talkVars>>
            \/ ConversationsNext /\ UNCHANGED <<workVars, accountVars, sessionVars, vars>>
    BY DEF TenancyNext
  <2>2. UNCHANGED tenancyVars => UNCHANGED <<workVars, accountVars, sessionVars, vars, talkVars>>
    BY DEF tenancyVars
  <2> QED BY <2>1, <2>2
<1> QED BY <1>1, <1>2, PTL DEF TenancySpec, WorkspacesSpec, AccountsSpec, SessionsSpec, Spec, ConversationsSpec

(* Every variable of the workspaces, accounts, tokens, wallets and          *)
(* conversations has its type.                                              *)
THEOREM TenancyTypesCorrect == TenancySpec => []TenancyTypeOK
<1>1. SessionsInv => SessionsTypeOK
  BY DEF SessionsInv
<1>2. WorkspacesSpec /\ AccountsSpec /\ SessionsSpec /\ Spec /\ ConversationsSpec =>
          []WorkspacesTypeOK /\ []AccountsTypeOK /\ []SessionsTypeOK /\ []TypeOK /\ []TalksTypeOK
  BY <1>1, WorkspacesTypesCorrect, AccountsTypesCorrect, SessionsInvHolds, WalletTypesCorrect,
     TalksTypesCorrect, PTL
<1> QED BY <1>2, TenancyImplements, PTL DEF TenancyTypeOK

===============================================================================
