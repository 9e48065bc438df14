-------------------------------- MODULE Billing --------------------------------
(***************************************************************************)
(* The prepaid token account of one user: app/services/token_wallet.py,    *)
(* its callers in app/routers/chat.py and the purchase endpoints of        *)
(* app/routers/billing.py.  Wallets of different users share nothing.      *)
(*                                                                         *)
(* Every request has an SQLAlchemy session of its own on PostgreSQL at     *)
(* READ COMMITTED.  A session keeps the row as it first read it            *)
(* (expire_on_commit is off) and an UPDATE sets the columns that differ    *)
(* from that reading to absolute values.  The row lock an UPDATE takes     *)
(* lasts until the commit or the rollback.  A deduction is flushed, its    *)
(* low-balance mail started, and committed later; a credit has no effect   *)
(* before its commit but the lock, so that flush and commit are one step.  *)
(*                                                                         *)
(* The account is a registered one, so its wallet row exists, and metered: *)
(* BILLING_ENABLED, e-mail not in BILLING_UNLIMITED_EMAILS.                *)
(***************************************************************************)
EXTENDS Integers

CONSTANTS Sessions,     \* request handlers that may run at the same time
          Purchases,    \* ids of TokenPurchase rows
          Free,         \* FREE_SIGNUP_TOKENS
          Pack,         \* tokens of the plan
          Estimate,     \* estimate_request_tokens of a chat request
          Usages,       \* tokens an LLM call may turn out to have used
          LowBalance,   \* threshold of the low-balance e-mail
          Development,  \* APP_ENV = "development"
          MaxMetered,   \* bound: no chat starts once this much was used
          MaxMails      \* bound: nor once so many low-balance e-mails went out

ASSUME AmountsAssumption ==
    /\ Free \in Nat /\ Estimate \in Nat /\ LowBalance \in Nat
    /\ Pack \in Nat \ {0}
    /\ Usages \subseteq Nat
    /\ MaxMetered \in Nat /\ MaxMails \in Nat
ASSUME DevelopmentAssumption == Development \in BOOLEAN

VARIABLES wallet,     \* the committed TokenWallet row
          purchase,   \* id -> committed status of its TokenPurchase row
          paid,       \* purchases Stripe has been paid for
          session,    \* handler -> what it is doing and the row as it read it
          \* history, read by properties only
          metered,    \* tokens of all committed chats
          granted,    \* tokens credited by all commits
          alerts      \* low-balance e-mails started

vars == <<wallet, purchase, paid, session, metered, granted, alerts>>

Wallets == [balance : Nat, used : Nat, bought : Nat]
Statuses == {"none", "pending", "completed"}

(* "admitted": a stream that has passed require_balance; "calling": the    *)
(* LLM is at work; "flushed": deduct_tokens has sent its UPDATE, of which  *)
(* owed is the amount; "found": a webhook whose purchase was not           *)
(* completed; "crediting": credit_tokens has read the wallet.              *)
Phases == {"idle", "admitted", "calling", "flushed", "found", "crediting"}
Handlers == [phase : Phases, seen : Wallets, buying : SUBSET Purchases, owed : Nat]

NewWallet == [balance |-> Free, used |-> 0, bought |-> 0]
NoHandler == [phase |-> "idle", seen |-> NewWallet, buying |-> {}, owed |-> 0]

NotBelowZero(n) == IF n < 0 THEN 0 ELSE n

(* A column after the UPDATE of a session that read seen and assigned new. *)
Written(committed, seen, new) == IF new # seen THEN new ELSE committed

(* Mutant of Updated: the UPDATE sets every column. *)
UpdatedRow(seen, new) == new

Updated(seen, new) ==
    [balance |-> Written(wallet.balance, seen.balance, new.balance),
     used |-> Written(wallet.used, seen.used, new.used),
     bought |-> Written(wallet.bought, seen.bought, new.bought)]

TypeOK ==
    /\ wallet \in Wallets
    /\ purchase \in [Purchases -> Statuses]
    /\ paid \in SUBSET Purchases
    /\ session \in [Sessions -> Handlers]
    /\ metered \in Nat
    /\ granted \in Nat
    /\ alerts \in Nat

Init ==
    /\ wallet = NewWallet
    /\ purchase = [p \in Purchases |-> "none"]
    /\ paid = {}
    /\ session = [s \in Sessions |-> NoHandler]
    /\ metered = 0
    /\ granted = 0
    /\ alerts = 0

-------------------------------------------------------------------------------
Become(s, handler) == session' = [session EXCEPT ![s] = handler]
End(s) == Become(s, NoHandler)

Unwritten == UNCHANGED <<wallet, purchase, metered, granted, alerts>>

(* The bounds of the model: when no more chats begin. *)
ChatsEnd == metered >= MaxMetered \/ alerts >= MaxMails

(* No session has an UPDATE of the wallet that is not committed. *)
RowFree == \A s \in Sessions : session[s].phase = "flushed" => session[s].owed = 0

(* require_balance of POST /chat, which keeps the row for deduct_tokens.   *)
StartChat(s) ==
    /\ session[s].phase = "idle"
    /\ ~ChatsEnd
    /\ wallet.balance >= Estimate
    /\ Become(s, [NoHandler EXCEPT !.phase = "calling", !.seen = wallet])
    /\ Unwritten /\ UNCHANGED paid

(* require_balance of POST /chat/stream ...                                *)
StartStream(s) ==
    /\ session[s].phase = "idle"
    /\ ~ChatsEnd
    /\ wallet.balance >= Estimate
    /\ Become(s, [NoHandler EXCEPT !.phase = "admitted"])
    /\ Unwritten /\ UNCHANGED paid

(* ... whose generator reads the wallet again in a session of its own.     *)
OpenStream(s) ==
    /\ session[s].phase = "admitted"
    /\ Become(s, [NoHandler EXCEPT !.phase = "calling", !.seen = wallet])
    /\ Unwritten /\ UNCHANGED paid

(* Mutant of Deducted: the estimate is charged. *)
DeductedEstimate(row, n) ==
    [balance |-> NotBelowZero(row.balance - Estimate),
     used |-> row.used + Estimate, bought |-> row.bought]

Deducted(row, n) ==
    [balance |-> NotBelowZero(row.balance - n),
     used |-> row.used + n, bought |-> row.bought]

(* Mutant of AlertDue: a balance at the threshold is not low. *)
AlertDueBelow(before, after) == before > LowBalance /\ LowBalance > after

AlertDue(before, after) == before > LowBalance /\ LowBalance >= after

(* A deduction that would take the session's balance to the threshold. *)
Alarming(handler) ==
    /\ handler.phase = "flushed"
    /\ AlertDue(handler.seen.balance, Deducted(handler.seen, handler.owed).balance)

(* deduct_tokens after the LLM has answered: the UPDATE is sent, and the   *)
(* mail is on its way whether it will be committed or not.                 *)
Deduct(s, n) ==
    LET flushed == [session[s] EXCEPT !.phase = "flushed", !.owed = n] IN
    /\ session[s].phase = "calling"
    /\ n = 0 \/ RowFree
    /\ alerts' = IF Alarming(flushed) THEN alerts + 1 ELSE alerts
    /\ Become(s, flushed)
    /\ UNCHANGED <<wallet, purchase, paid, metered, granted>>

(* ... and the commit of /chat or of the stream's generator.               *)
CommitChat(s) ==
    LET handler == session[s] IN
    /\ handler.phase = "flushed"
    /\ wallet' = Updated(handler.seen, Deducted(handler.seen, handler.owed))
    /\ metered' = metered + handler.owed
    /\ End(s)
    /\ UNCHANGED <<purchase, paid, granted, alerts>>

(* The request raises before its commit and is rolled back: the LLM        *)
(* failed, the guard refused, the audit row, the key's budget or the       *)
(* commit failed, the client or the process went away.                     *)
Abandon(s) ==
    /\ session[s].phase # "idle"
    /\ End(s)
    /\ Unwritten /\ UNCHANGED paid

-------------------------------------------------------------------------------
(* Not the id of any purchase row, committed or about to be. *)
Unused(p) == purchase[p] = "none" /\ \A s \in Sessions : p \notin session[s].buying

(* POST /billing/checkout.  The user learns the payment page's URL only    *)
(* after the commit.                                                       *)
Checkout(p) ==
    /\ Unused(p)
    /\ purchase' = [purchase EXCEPT ![p] = "pending"]
    /\ UNCHANGED <<wallet, paid, session, metered, granted, alerts>>

(* Stripe: the user pays.                                                  *)
Pay(p) ==
    /\ purchase[p] = "pending"
    /\ paid' = paid \cup {p}
    /\ Unwritten /\ UNCHANGED session

(* Mutant of Unfinished: the status check is left out. *)
UnfinishedAlways(p) == TRUE

(* Mutant of Unfinished: only a purchase whose checkout has no row is.     *)
UnfinishedNew(p) == purchase[p] = "none"

Unfinished(p) == purchase[p] # "completed"

(* Stripe delivers checkout.session.completed, as often as it likes, and   *)
(* stripe_webhook reads the purchase.                                      *)
Webhook(s, p) ==
    /\ session[s].phase = "idle"
    /\ p \in paid
    /\ Unfinished(p)
    /\ Become(s, [NoHandler EXCEPT !.phase = "found", !.buying = {p}])
    /\ Unwritten /\ UNCHANGED paid

(* credit_tokens reads the wallet.                                         *)
ReadForCredit(s) ==
    /\ session[s].phase = "found"
    /\ Become(s, [session[s] EXCEPT !.phase = "crediting", !.seen = wallet])
    /\ Unwritten /\ UNCHANGED paid

(* simulate_purchase, and checkout where Stripe is not configured: the     *)
(* pending row is not committed before it is completed.                    *)
Simulate(s, p) ==
    /\ Development
    /\ session[s].phase = "idle"
    /\ Unused(p)
    /\ Become(s, [NoHandler EXCEPT !.phase = "crediting", !.seen = wallet, !.buying = {p}])
    /\ Unwritten /\ UNCHANGED paid

Credited(row) ==
    [balance |-> row.balance + Pack, used |-> row.used, bought |-> row.bought + Pack]

(* The wallet and the purchase are written by one flush and one commit.    *)
Credit(s) ==
    /\ session[s].phase = "crediting"
    /\ RowFree
    /\ wallet' = Updated(session[s].seen, Credited(session[s].seen))
    /\ purchase' = [p \in Purchases |->
           IF p \in session[s].buying THEN "completed" ELSE purchase[p]]
    /\ granted' = granted + Pack
    /\ End(s)
    /\ UNCHANGED <<paid, metered, alerts>>

-------------------------------------------------------------------------------
SessionStep(s) ==
    \/ StartChat(s) \/ StartStream(s) \/ OpenStream(s)
    \/ \E n \in Usages : Deduct(s, n)
    \/ CommitChat(s) \/ Abandon(s)
    \/ \E p \in Purchases : Webhook(s, p) \/ Simulate(s, p)
    \/ ReadForCredit(s) \/ Credit(s)

Next ==
    \/ \E s \in Sessions : SessionStep(s)
    \/ \E p \in Purchases : Checkout(p) \/ Pay(p)

Spec == Init /\ [][Next]_vars

(* Stripe repeats a notification until it is answered, the event loop      *)
(* resumes a handler whose database answers, an LLM call ends: it has a    *)
(* timeout, and so does a flushed deduction.  A webhook that crashes is    *)
(* delivered again.                                                        *)
Fairness ==
    /\ \A p \in Purchases : SF_vars(\E s \in Sessions : Webhook(s, p))
    /\ \A s \in Sessions :
          /\ SF_vars(ReadForCredit(s))
          /\ SF_vars(Credit(s))
          /\ WF_vars(OpenStream(s) \/ Abandon(s))
          /\ WF_vars(Abandon(s) \/ CommitChat(s) \/ \E n \in Usages : Deduct(s, n))

FairSpec == Spec /\ Fairness

-------------------------------------------------------------------------------
(* Sessions that overwrite one another may lose usage and lose purchases,  *)
(* but what the wallet shows is always covered by what was metered and     *)
(* granted: no interleaving of stale readings creates tokens.              *)
NothingInvented ==
    /\ wallet.balance <= Free + granted
    /\ wallet.bought <= granted
    /\ wallet.used <= metered

(* A commit changes the usage counter only for a chat and the purchase     *)
(* counter only for a purchase, however old the row it was computed from.  *)
OwnColumns ==
    /\ wallet'.used # wallet.used => metered' > metered
    /\ wallet'.bought # wallet.bought => granted' > granted

ColumnsApart == [][OwnColumns]_vars

Completed == {p \in Purchases : purchase[p] = "completed"}

(* With one request at a time the wallet is the ledger: deductions and     *)
(* credits take effect in turn, a purchase is credited once however often  *)
(* Stripe reports it, and no deduction takes the balance to the threshold  *)
(* unannounced: its low-balance e-mail is started before the commit, once  *)
(* for each deduction that is tried.  (One that is rolled back has been    *)
(* announced all the same, and is announced again when it is tried again.) *)
TheLedger == INSTANCE Ledger
    WITH balance <- wallet.balance, used <- wallet.used, credited <- Completed,
         mails <- alerts, warned <- \E s \in Sessions : Alarming(session[s])
LedgerSpec == TheLedger!Spec

(* A purchase that was paid for is credited, whatever becomes of single     *)
(* deliveries of Stripe's notification.                                     *)
PaidIsCredited == \A p \in Purchases : p \in paid ~> purchase[p] = "completed"

===============================================================================
