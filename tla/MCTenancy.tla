------------------------------- MODULE MCTenancy --------------------------------
(***************************************************************************)
(* A team around the gateway, each part on a small instance of its own:    *)
(* the workspaces and their leaders, the accounts and their links, the     *)
(* tokens, a wallet with overlapping sessions, and what becomes of what is *)
(* said in chats.  A behaviour follows one of them, chosen at the start;   *)
(* they share no variable.                                                 *)
(***************************************************************************)
EXTENDS Workspaces, Accounts, Sessions, Billing, MCConversations

CONSTANTS a1, a2, b1, b2, c1, c2,   \* exchangeable; every part takes its share of them
          u3, o1, o2, k1, k2

TwoAs == {a1, a2}   \* founders, clients, sessions, people
TwoBs == {b1, b2}   \* accounts, purchases, memories
TwoCs == {c1, c2}   \* links, names of workspaces
Symmetry == UNION {Permutations(s) : s \in {TwoAs, TwoBs, TwoCs}}

ThreeUsers == {a1, a2, u3}
OneOrAll == {{u3}, ThreeUsers}
TwoOrgs == {o1, o2}
TwoNames == 1..2
NameNothing == 0
TwoKeys == {k1, k2}
NoKeys == {}

VARIABLE focus

tenancyVars == <<focus, workVars, accountVars, sessionVars, vars, talkVars>>

TenancyInit ==
    /\ focus \in {"workspaces", "accounts", "sessions", "wallet", "talks"}
    /\ WorkspacesInit /\ AccountsInit /\ Init /\ ConversationsInit
    /\ IF focus = "sessions" THEN SessionsInit
       ELSE SessionsInit /\ Live = {} /\ \A s \in Subjects : subject[s].linked
    /\ focus # "talks" => mode = Closed

(* Bounds of this instance: one user is disabled at a time, and Clerk sends *)
(* a second message only where no second link was mailed.                   *)
FewDisabled == Cardinality({u \in rows.known : ~rows.active[u]}) <= 1
MessagesOrLinks == Len(sent) <= 1 \/ Cardinality({l \in Links : tables.link[l] # NoLink}) <= 1

TenancyNext ==
    /\ UNCHANGED focus
    /\ \/ /\ focus = "workspaces" /\ WorkspacesNext /\ FewDisabled'
          /\ UNCHANGED <<accountVars, sessionVars, vars, talkVars>>
       \/ /\ focus = "accounts" /\ AccountsNext /\ MessagesOrLinks'
          /\ UNCHANGED <<workVars, sessionVars, vars, talkVars>>
       \/ /\ focus = "sessions" /\ SessionsNext
          /\ UNCHANGED <<workVars, accountVars, vars, talkVars>>
       \/ /\ focus = "wallet" /\ Next
          /\ UNCHANGED <<workVars, accountVars, sessionVars, talkVars>>
       \/ /\ focus = "talks" /\ ConversationsNext /\ FewMemories'
          /\ UNCHANGED <<workVars, accountVars, sessionVars, vars>>

TenancySpec == TenancyInit /\ [][TenancyNext]_tenancyVars

(* Every variable of the five parts has its type. *)
TenancyTypeOK == WorkspacesTypeOK /\ AccountsTypeOK /\ SessionsTypeOK /\ TypeOK /\ TalksTypeOK
===============================================================================
