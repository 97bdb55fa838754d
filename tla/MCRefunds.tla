------------------------------ MODULE MCRefunds ------------------------------
(* A subscription order of alice's; any other order would be a topup of bob's. *)
(* Two refund numbers and two reviews at a time.                               *)
EXTENDS Refunds, TLC

CONSTANTS alice, bob, sub1

MCOrderAccount == [o \in Order |-> IF o = sub1 THEN alice ELSE bob]
MCOrderType == [o \in Order |-> IF o = sub1 THEN "subscription" ELSE "topup"]
MCAmountCNY == [o \in Order |-> IF o = sub1 THEN 100 ELSE 200]
MCNone == [c \in {} |-> 0]
MCMaxEntries == [a \in Account |-> 3]
=============================================================================
