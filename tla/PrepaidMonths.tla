---------------------------- MODULE PrepaidMonths ----------------------------
(***************************************************************************)
(* What the billing of a salon promises, without reports, invoices or      *)
(* webhooks: a trial of fixed length, and payments that each buy one       *)
(* month, once, chained to the end of what the salon already has.          *)
(* SubscriptionPayments is shown to implement it.                          *)
(***************************************************************************)
EXTENDS Naturals

CONSTANTS
  Payment,       \* the payments that may ever be verified
  Month,         \* what one of them buys
  TrialLength    \* the length of the trial

VARIABLES
  now,           \* the clock
  trialUntil,    \* end of the trial, 0 before it starts
  paidUntil,     \* end of the paid period, 0 before the first payment
  bought         \* the payments that have bought their month

vars == <<now, trialUntil, paidUntil, bought>>

Latest(a, b, c) == CHOOSE d \in {a, b, c} : \A e \in {a, b, c} : e <= d

Init == now = 1 /\ trialUntil = 0 /\ paidUntil = 0 /\ bought = {}

StartTrial ==
  /\ trialUntil = 0
  /\ trialUntil' = now + TrialLength
  /\ UNCHANGED <<now, paidUntil, bought>>

BuyMonth(payment) ==
  /\ trialUntil # 0
  /\ payment \notin bought
  /\ bought' = bought \cup {payment}
  /\ paidUntil' = Latest(now, paidUntil, trialUntil) + Month
  /\ UNCHANGED <<now, trialUntil>>

Tick == now' = now + 1 /\ UNCHANGED <<trialUntil, paidUntil, bought>>

Next == StartTrial \/ (\E payment \in Payment : BuyMonth(payment)) \/ Tick

Spec == Init /\ [][Next]_vars

=============================================================================
