----------------------------- MODULE OrderBook -----------------------------
(***************************************************************************)
(* What the payment system promises about an order, whatever webhooks,     *)
(* retries, caches and jobs are behind it: it is open until it is settled  *)
(* or lapses, for good either way; it is settled only when the customer    *)
(* was charged, and booked to the wallet once, after that.  Payments is    *)
(* shown to implement it.                                                  *)
(***************************************************************************)
CONSTANT Order

VARIABLES
    phase,  \* Order -> "none", "open", "paid" or "expired"
    bought, \* orders the customer was charged for
    booked  \* orders that reached the wallet

bookVars == <<phase, bought, booked>>

BookTypeOK ==
    /\ phase \in [Order -> {"none", "open", "paid", "expired"}]
    /\ bought \subseteq Order /\ booked \subseteq Order

BookInit ==
    /\ phase = [o \in Order |-> "none"]
    /\ bought = {} /\ booked = {}

Place(o) ==
    /\ phase[o] = "none"
    /\ phase' = [phase EXCEPT ![o] = "open"]
    /\ UNCHANGED <<bought, booked>>

\* A customer may be charged for an order that has lapsed.
Buy(o) ==
    /\ phase[o] # "none" /\ o \notin bought
    /\ bought' = bought \union {o}
    /\ UNCHANGED <<phase, booked>>

Settle(o) ==
    /\ phase[o] = "open" /\ o \in bought
    /\ phase' = [phase EXCEPT ![o] = "paid"]
    /\ UNCHANGED <<bought, booked>>

Book(o) ==
    /\ phase[o] = "paid" /\ o \notin booked
    /\ booked' = booked \union {o}
    /\ UNCHANGED <<phase, bought>>

Lapse(old) ==
    /\ \A o \in old : phase[o] = "open"
    /\ phase' = [o \in Order |-> IF o \in old THEN "expired" ELSE phase[o]]
    /\ UNCHANGED <<bought, booked>>

BookNext ==
    \/ \E o \in Order : Place(o) \/ Buy(o) \/ Settle(o) \/ Book(o)
    \/ \E old \in SUBSET Order : Lapse(old)

BookSpec == BookInit /\ [][BookNext]_bookVars
=============================================================================
