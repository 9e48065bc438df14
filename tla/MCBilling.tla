------------------------------- MODULE MCBilling --------------------------------
(* A small instance of Billing: one session at a time, two purchases. *)
EXTENDS Billing, TLC

CONSTANTS s1, p1, p2

OneSession == {s1}
TwoPurchases == {p1, p2}
===============================================================================
