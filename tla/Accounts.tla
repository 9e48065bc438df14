-------------------------------- MODULE Accounts --------------------------------
(***************************************************************************)
(* Accounts: signup, the links mailed to verify an address or to reset a   *)
(* password (app/services/auth_tokens.py), and what Clerk's notifications  *)
(* do to them (app/routers/auth.py).                                       *)
(*                                                                         *)
(* A handler reads the rows it decides on, and commits what it has changed *)
(* of them later.  Clerk's messages come in any order and, until they are  *)
(* answered, again; a worker notes a message before it has processed it.   *)
(***************************************************************************)
EXTENDS Integers, FiniteSets, SequencesExt

CONSTANTS Clients,       \* requests served at the same time
          Accounts,      \* rows the table of users may come to hold
          Links,         \* rows of auth_tokens
          Emails,
          ClerkIds,      \* users of Clerk
          Passwords,
          WorkNames,     \* what somebody may call the workspace he signs up with
          MailConfigured, \* settings.email_configured
          MaxMessages,   \* bound of the model: messages Clerk sends
          CacheSize,     \* _MAX_WEBHOOK_CACHE
          NoEmail, NoClerk, NoPassword, NoAccount, NoWork

ASSUME NothingAssumption == /\ NoEmail \notin Emails /\ NoClerk \notin ClerkIds
                            /\ NoPassword \notin Passwords /\ NoAccount \notin Accounts
                            /\ NoWork \notin WorkNames
ASSUME MailAssumption == MailConfigured \in BOOLEAN
ASSUME MessagesAssumption == MaxMessages \in Nat /\ CacheSize \in Nat \ {0}

VARIABLES tables,     \* users with their wallets, and auth_tokens
          client,     \* the request a handler serves and what it has read
          person,     \* Clerk: the address of each of its users
          sent,       \* Clerk: its messages, the i-th with id i
          processed,  \* _processed_webhooks
          \* history, read by properties only
          confirmed,  \* addresses whose owner is known
          spent,      \* links some request has used
          replaced    \* links that were there when a later one was asked for

accountVars == <<tables, client, person, sent, processed, confirmed, spent, replaced>>

Purposes == {"verify", "reset"}
UserRows == [email    : Emails \cup {NoEmail},       \* NoEmail: there is no such row
          clerk    : ClerkIds \cup {NoClerk},
          password : Passwords \cup {NoPassword},
          active   : BOOLEAN,
          verified : BOOLEAN,
          wallet   : BOOLEAN,
          workspace : WorkNames \cup {NoWork}]       \* the name of the organization with his policy
NoUser == [email |-> NoEmail, clerk |-> NoClerk, password |-> NoPassword,
           active |-> FALSE, verified |-> FALSE, wallet |-> FALSE, workspace |-> NoWork]

(* "gone" is a row deleted or expired; "to" where the link was mailed. *)
LinkRows == [state : {"none", "fresh", "used", "gone"}, purpose : Purposes,
             account : Accounts \cup {NoAccount}, to : Emails \cup {NoEmail}]
NoLink == [state |-> "none", purpose |-> "verify", account |-> NoAccount, to |-> NoEmail]

NoClient == [request |-> <<>>, read |-> <<>>, late |-> FALSE]
Messages == {<<kind, id, e>> : kind \in {"created", "updated", "deleted"}, id \in ClerkIds,
                               e \in Emails}

AccountsTypeOK ==
    /\ tables.user \in [Accounts -> UserRows]
    /\ tables.link \in [Links -> LinkRows]
    /\ DOMAIN client = Clients
    /\ person \in [ClerkIds -> Emails \cup {NoEmail}]
    /\ sent \in Seq(Messages)
    /\ processed \in Seq(1..MaxMessages) /\ Len(processed) <= CacheSize
    /\ confirmed \subseteq Emails
    /\ spent \subseteq Links /\ replaced \subseteq Links

AccountsInit ==
    /\ tables = [user |-> [a \in Accounts |-> NoUser], link |-> [l \in Links |-> NoLink]]
    /\ client = [h \in Clients |-> NoClient]
    /\ person = [id \in ClerkIds |-> NoEmail]
    /\ sent = <<>>
    /\ processed = <<>>
    /\ confirmed = {}
    /\ spent = {} /\ replaced = {}

-------------------------------------------------------------------------------
(* What the handlers make of the tables t; none if they refuse. *)
Holders(t, e) == {a \in Accounts : t.user[a].email = e}
Linked(t, id) == {a \in Accounts : t.user[a].clerk = id}

(* Mutant of CreateLink: the earlier links stay. *)
CreateLinkBeside(t, a, purpose, l) ==
    [t EXCEPT !.link[l] = [state |-> "fresh", purpose |-> purpose, account |-> a, to |-> t.user[a].email]]

(* create_auth_token, and the mail. *)
CreateLink(t, a, purpose, l) ==
    [t EXCEPT !.link = [k \in Links |->
        IF k = l THEN [state |-> "fresh", purpose |-> purpose, account |-> a, to |-> t.user[a].email]
        ELSE IF @[k].account = a /\ @[k].purpose = purpose THEN [@[k] EXCEPT !.state = "gone"]
        ELSE @[k]]]

(* A workspace of its own comes with the account, unless somebody's has its *)
(* name: then the flush fails.                                              *)
Signup(t, a, e, p, l, w) ==
    IF Holders(t, e) # {} \/ \E b \in Accounts : t.user[b].workspace = w THEN {}
    ELSE LET added == [t EXCEPT !.user[a] = [NoUser EXCEPT !.email = e, !.password = p,
                                !.active = TRUE, !.verified = ~MailConfigured, !.wallet = TRUE,
                                !.workspace = w]]
         IN  {IF MailConfigured THEN CreateLink(added, a, "verify", l) ELSE added}

(* forgot-password and resend-verification. *)
Forgot(t, e, l) ==
    IF MailConfigured THEN {CreateLink(t, a, "reset", l) : a \in Holders(t, e)} ELSE {}
Resend(t, e, l) ==
    IF MailConfigured
    THEN {CreateLink(t, a, "verify", l) : a \in {b \in Holders(t, e) : ~t.user[b].verified}} ELSE {}

(* consume_auth_token. *)
Consumable(t, l, purpose) == t.link[l].state = "fresh" /\ t.link[l].purpose = purpose
Consumed(t, l) == [t EXCEPT !.link[l].state = "used"]

Verify(t, l) ==
    IF Consumable(t, l, "verify")
    THEN {[Consumed(t, l) EXCEPT !.user[t.link[l].account].verified = TRUE]} ELSE {}
Reset(t, l, p) ==
    IF Consumable(t, l, "reset")
    THEN {[Consumed(t, l) EXCEPT !.user[t.link[l].account].password = p]} ELSE {}

(* Asked for with the password the row has. *)
ChangePassword(t, a, p) ==
    IF t.user[a].active /\ t.user[a].password \notin {NoPassword, p}
    THEN {[t EXCEPT !.user[a].password = p]} ELSE {}

(* user.created: a known Clerk user is left alone, a known address linked,  *)
(* anybody else added.                                                      *)
Created(t, id, e, a) ==
    IF Linked(t, id) # {} THEN {t}
    ELSE IF Holders(t, e) # {}
    THEN {[t EXCEPT !.user[b].clerk = id, !.user[b].verified = TRUE] : b \in Holders(t, e)}
    ELSE {[t EXCEPT !.user[a] = [NoUser EXCEPT !.email = e, !.clerk = id, !.active = TRUE,
                                               !.verified = TRUE, !.wallet = TRUE]]}

AddressChanged(t, id, e) ==
    IF Linked(t, id) = {} THEN {t} ELSE {[t EXCEPT !.user[a].email = e] : a \in Linked(t, id)}

Deleted(t, id) ==
    IF Linked(t, id) = {} THEN {t} ELSE {[t EXCEPT !.user[a].active = FALSE] : a \in Linked(t, id)}

Outcome(q, t) ==
    CASE q[1] = "signup"  -> Signup(t, q[2], q[3], q[4], q[5], q[6])
      [] q[1] = "forgot"  -> Forgot(t, q[2], q[3])
      [] q[1] = "resend"  -> Resend(t, q[2], q[3])
      [] q[1] = "verify"  -> Verify(t, q[2])
      [] q[1] = "reset"   -> Reset(t, q[2], q[3])
      [] q[1] = "change"  -> ChangePassword(t, q[2], q[3])
      [] q[1] = "created" -> Created(t, q[2], q[3], q[4])
      [] q[1] = "updated" -> AddressChanged(t, q[2], q[3])
      [] q[1] = "deleted" -> Deleted(t, q[2])

-------------------------------------------------------------------------------
(* The rows as they are, with the columns that new has changed of read. *)
RowsSaved(now, read, new) ==
    [user |-> [a \in Accounts |-> [c \in DOMAIN NoUser |->
                  IF new.user[a][c] = read.user[a][c] THEN now.user[a][c] ELSE new.user[a][c]]],
     link |-> [l \in Links |-> IF new.link[l] = read.link[l] THEN now.link[l] ELSE new.link[l]]]

(* A commit that would break a unique column fails, and so does one that    *)
(* updates a link somebody has deleted.                                     *)
Accepted(now, read, new) ==
    LET t == RowsSaved(now, read, new)
    IN  /\ \A a, b \in Accounts : a # b =>
              /\ t.user[a].email = t.user[b].email => t.user[a].email = NoEmail
              /\ t.user[a].clerk = t.user[b].clerk => t.user[a].clerk = NoClerk
              /\ t.user[a].workspace = t.user[b].workspace => t.user[a].workspace = NoWork
        /\ \A l \in Links : new.link[l].state = "used" /\ read.link[l].state = "fresh"
                               => now.link[l].state # "gone"

(* A row a request would add is nobody else's. *)
Adds(q) == CASE q[1] = "signup" -> {q[2], q[5]}
             [] q[1] \in {"forgot", "resend"} -> {q[3]}
             [] q[1] = "created" -> {q[4]}
             [] OTHER -> {}
Reserved(q) ==
    /\ \A h \in Clients : client[h].request # <<>> => Adds(q) \cap Adds(client[h].request) = {}
    /\ \A a \in Accounts \cap Adds(q) : tables.user[a] = NoUser
    /\ \A l \in Links \cap Adds(q) : tables.link[l].state = "none"

Uses(q) == IF q # <<>> /\ q[1] \in {"verify", "reset"} THEN {q[2]} ELSE {}

Receive(h, q) ==
    /\ client[h] = NoClient
    /\ Reserved(q)
    /\ Outcome(q, tables) # {}
    /\ client' = [client EXCEPT ![h] = [request |-> q, read |-> tables,
                                        late |-> Uses(q) \cap (spent \cup replaced) # {}]]

Ask(h, q) == Receive(h, q) /\ UNCHANGED <<tables, person, sent, processed, confirmed, spent, replaced>>

(* Mutant of Noted: the cache has no limit. *)
NotedAll(i) == Append(processed, i)

(* The oldest message is forgotten when there are too many. *)
Noted(i) ==
    LET noted == Append(processed, i)
    IN  IF Len(noted) > CacheSize THEN Tail(noted) ELSE noted

(* clerk_webhook: a message whose id is known is a duplicate; any other is  *)
(* noted first.                                                             *)
Deliver(h, i, a) ==
    /\ i \in DOMAIN sent /\ i \notin Range(processed)
    /\ Receive(h, sent[i] \o <<a>>)
    /\ processed' = Noted(i)
    /\ UNCHANGED <<tables, person, sent, confirmed, spent, replaced>>

(* An hour has passed since the oldest was noted. *)
Forget ==
    /\ processed # <<>>
    /\ processed' = Tail(processed)
    /\ UNCHANGED <<tables, client, person, sent, confirmed, spent, replaced>>

(* The links a new link is to replace. *)
Replaces(q, t) ==
    {l \in Links : /\ q[1] \in {"forgot", "resend"}
                   /\ t.link[l].state # "none" /\ t.link[l].account \in Holders(t, q[2])
                   /\ t.link[l].purpose = IF q[1] = "forgot" THEN "reset" ELSE "verify"}

Finish(h) ==
    LET q == client[h].request
        read == client[h].read
    IN  /\ q # <<>>
        /\ client' = [client EXCEPT ![h] = NoClient]
        /\ \E new \in Outcome(q, read) :
              IF Accepted(tables, read, new)
              THEN /\ tables' = RowsSaved(tables, read, new)
                   /\ spent' = spent \cup Uses(q)
                   /\ replaced' = replaced \cup Replaces(q, read)
                   /\ confirmed' = confirmed \cup
                          (IF q[1] = "verify" THEN {read.link[q[2]].to} ELSE {})
              ELSE UNCHANGED <<tables, spent, replaced, confirmed>>
        /\ UNCHANGED <<person, sent, processed>>

(* The handler fails, or its worker is restarted and forgets all messages. *)
Fail(h, restart) ==
    /\ client[h] # NoClient
    /\ client' = IF restart THEN [g \in Clients |-> NoClient] ELSE [client EXCEPT ![h] = NoClient]
    /\ processed' = IF restart THEN <<>> ELSE processed
    /\ UNCHANGED <<tables, person, sent, confirmed, spent, replaced>>

(* expires_at of a link. *)
Expire(l) ==
    /\ tables.link[l].state = "fresh"
    /\ tables' = [tables EXCEPT !.link[l].state = "gone"]
    /\ UNCHANGED <<client, person, sent, processed, confirmed, spent, replaced>>

(* Clerk: a user registers, takes another address or goes, and his         *)
(* addresses are his.                                                       *)
ClerkSends(kind, id, e) ==
    /\ Len(sent) < MaxMessages
    /\ IF kind = "created" THEN person[id] = NoEmail ELSE person[id] # NoEmail
    /\ kind = "created" => \A i \in DOMAIN sent : sent[i][2] # id
    /\ kind = "deleted" => e = person[id]
    /\ kind # "deleted" => e \notin Range(person)
    /\ person' = [person EXCEPT ![id] = IF kind = "deleted" THEN NoEmail ELSE e]
    /\ sent' = Append(sent, <<kind, id, e>>)
    /\ confirmed' = confirmed \cup {e}
    /\ UNCHANGED <<tables, client, processed, spent, replaced>>

Asks ==
    {<<"signup", a, e, p, l, w>> : a \in Accounts, e \in Emails, p \in Passwords, l \in Links,
                                   w \in WorkNames}
    \cup {<<k, e, l>> : k \in {"forgot", "resend"}, e \in Emails, l \in Links}
    \cup {<<"verify", l>> : l \in Links}
    \cup {<<"reset", l, p>> : l \in Links, p \in Passwords}
    \cup {<<"change", a, p>> : a \in Accounts, p \in Passwords}

AccountsNext ==
    \/ \E h \in Clients, q \in Asks : Ask(h, q)
    \/ \E h \in Clients, i \in 1..MaxMessages, a \in Accounts : Deliver(h, i, a)
    \/ \E h \in Clients : Finish(h) \/ \E restart \in BOOLEAN : Fail(h, restart)
    \/ \E l \in Links : Expire(l)
    \/ Forget
    \/ \E kind \in {"created", "updated", "deleted"}, id \in ClerkIds, e \in Emails : ClerkSends(kind, id, e)

AccountsSpec == AccountsInit /\ [][AccountsNext]_accountVars

-------------------------------------------------------------------------------
(* "Invalidate prior tokens for this purpose": a link works neither for a   *)
(* request that comes after it was used or replaced, nor, whenever the      *)
(* request came, once its replacement has been stored (create_auth_token,   *)
(* consume_auth_token).  Two requests that overlap may both use a link.     *)
DeadLinksStayDead ==
    [][\A h \in Clients, l \in Links :
          Uses(client[h].request) = {l} /\ client'[h] = NoClient /\ tables'.link[l].state = "used"
              => ~client[h].late /\ l \notin replaced]_accountVars

(* With a mail server configured, an address counts as verified only if     *)
(* its owner followed a link mailed to it or Clerk vouches for it, whatever *)
(* order signups, links, linking and changes of address come in.            *)
VerifiedAddresses ==
    MailConfigured => \A a \in Accounts :
        tables.user[a].verified => tables.user[a].email \in confirmed

(* Both together: what the mailed links are for, and what they cannot do.   *)
LinksProveAddresses == []VerifiedAddresses /\ DeadLinksStayDead

===============================================================================
