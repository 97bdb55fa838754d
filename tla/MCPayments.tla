----------------------------- MODULE MCPayments -----------------------------
(* A topup order and a subscription order of one account, two webhook        *)
(* requests at a time.                                                       *)
EXTENDS Payments, TLC

CONSTANTS alice, topup1, sub1

MCOrder == {topup1, sub1}
MCOrderAccount == [o \in MCOrder |-> alice]
MCOrderType == topup1 :> "topup" @@ sub1 :> "subscription"
MCAmountCNY == [o \in MCOrder |-> 200]
MCNone == [c \in {} |-> 0]
MCMaxEntries == [a \in Account |-> 2]

=============================================================================
