--------------------------------- MODULE Ledger --------------------------------
(***************************************************************************)
(* What a prepaid account promises: usage and purchases take effect one    *)
(* after the other, each exactly once, and usage takes the balance down to *)
(* the warning threshold only when its owner is being warned of it.  A     *)
(* warning may be of usage that is given up.                               *)
(***************************************************************************)
EXTENDS Integers

CONSTANTS Free,       \* tokens an account starts with
          Pack,       \* tokens one purchase buys
          Purchases,
          Usages,     \* tokens an LLM call may use
          LowBalance  \* the warning threshold

VARIABLES balance, used, credited,
          mails,      \* warnings on their way to the owner
          warned      \* whether one of them is of usage not yet settled

vars == <<balance, used, credited, mails, warned>>

NotBelowZero(n) == IF n < 0 THEN 0 ELSE n

Init == balance = Free /\ used = 0 /\ credited = {} /\ mails = 0 /\ ~warned

Crosses(n) == balance > LowBalance /\ NotBelowZero(balance - n) <= LowBalance

Warn(n) ==
    /\ ~warned /\ Crosses(n)
    /\ warned' = TRUE
    /\ mails' = mails + 1
    /\ UNCHANGED <<balance, used, credited>>

Use(n) ==
    /\ warned <=> Crosses(n)
    /\ balance' = NotBelowZero(balance - n)
    /\ used' = used + n
    /\ warned' = FALSE
    /\ UNCHANGED <<credited, mails>>

GiveUp ==
    /\ warned
    /\ warned' = FALSE
    /\ UNCHANGED <<balance, used, credited, mails>>

Credit(p) ==
    /\ ~warned /\ p \notin credited
    /\ credited' = credited \cup {p}
    /\ balance' = balance + Pack
    /\ UNCHANGED <<used, mails, warned>>

Next == \/ \E n \in Usages : Warn(n) \/ Use(n)
        \/ GiveUp
        \/ \E p \in Purchases : Credit(p)

Spec == Init /\ [][Next]_vars
===============================================================================
