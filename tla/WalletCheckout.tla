--------------------------- MODULE WalletCheckout ---------------------------
(***************************************************************************)
(* The checkout of a subscription that is paid from the wallet             *)
(* (SubscriptionHandler.Checkout): read the plan, debit, activate, and     *)
(* credit the price back when the activation failed, each a call of its    *)
(* own.  Debit and credit are the atomic ones of WalletLedger, without the *)
(* ledger; Activate is that of Subscriptions, without the entitlements,    *)
(* with the index that allows one live row per account and product.        *)
(***************************************************************************)
EXTENDS Integers, Sums

CONSTANTS
    Shoppers, \* requests served at a time, all of one account and product
    Prices,  \* prices of the plans on offer
    Funds,   \* balance at the start
    MaxSold, \* bound of the model: subscriptions rows
    MaxShopFaults \* bound of the model: failing calls and dying processes

ASSUME CheckoutAssumption ==
    /\ Shoppers \in Nat
    /\ Prices \subseteq Nat /\ Funds \in Nat /\ MaxSold \in Nat /\ MaxShopFaults \in Nat

Shopper == 1 .. Shoppers

VARIABLES
    purse,    \* wallets.balance
    sold,     \* subscriptions rows; the ids are 1 .. sold
    live,     \* the id of the live one, or 0
    takings,  \* what was paid for the rows
    shopper,  \* Shopper -> the request it is at
    lost,     \* debited, and neither paid for a row nor given back
    shopFaults

checkoutVars == <<purse, sold, live, takings, shopper, lost, shopFaults>>

FreeShopper == [pc |-> "free", price |-> 0, old |-> 0]

CheckoutTypeOK ==
    /\ purse \in 0 .. Funds /\ takings \in Nat /\ lost \in Nat
    /\ sold \in 0 .. MaxSold /\ live \in 0 .. sold
    /\ shopper \in [Shopper -> [pc : {"free", "debit", "live", "expire", "create", "compensate"},
                                price : Prices \union {0}, old : 0 .. sold]]
    /\ shopFaults \in 0 .. MaxShopFaults

CheckoutInit ==
    /\ purse = Funds /\ sold = 0 /\ live = 0 /\ takings = 0 /\ lost = 0
    /\ shopper = [q \in Shopper |-> FreeShopper] /\ shopFaults = 0

ShopperAt(q, pc) == shopper' = [shopper EXCEPT ![q].pc = pc]
ShopperDone(q) == shopper' = [shopper EXCEPT ![q] = FreeShopper]

\* A plan without a price is activated without a debit.
ChoosePlan(q, price) ==
    /\ shopper[q].pc = "free"
    /\ shopper' = [shopper EXCEPT ![q] = [pc |-> IF price > 0 THEN "debit" ELSE "live",
                                          price |-> price, old |-> 0]]
    /\ UNCHANGED <<purse, sold, live, takings, lost, shopFaults>>

DebitPrice(q) ==
    /\ shopper[q].pc = "debit"
    /\ \/ /\ shopper[q].price <= purse
          /\ purse' = purse - shopper[q].price /\ ShopperAt(q, "live")
       \/ /\ shopper[q].price > purse
          /\ ShopperDone(q) /\ UNCHANGED purse
    /\ UNCHANGED <<sold, live, takings, lost, shopFaults>>

\* Activate: read the live row, save it as expired, insert a new one.
ReadLiveRow(q) ==
    /\ shopper[q].pc = "live"
    /\ shopper' = [shopper EXCEPT ![q].old = live,
                                  ![q].pc = IF live = 0 THEN "create" ELSE "expire"]
    /\ UNCHANGED <<purse, sold, live, takings, lost, shopFaults>>

ExpireLiveRow(q) ==
    /\ shopper[q].pc = "expire"
    /\ live' = IF live = shopper[q].old THEN 0 ELSE live
    /\ ShopperAt(q, "create")
    /\ UNCHANGED <<purse, sold, takings, lost, shopFaults>>

\* The unique index refuses a second live row; what was paid is given back.
ActivationFailed(q) == IF shopper[q].price > 0 THEN ShopperAt(q, "compensate") ELSE ShopperDone(q)

CreateLiveRow(q) ==
    /\ shopper[q].pc = "create" /\ sold < MaxSold
    /\ \/ /\ live = 0
          /\ sold' = sold + 1 /\ live' = sold + 1
          /\ takings' = takings + shopper[q].price
          /\ ShopperDone(q)
       \/ /\ live # 0
          /\ ActivationFailed(q)
          /\ UNCHANGED <<sold, live, takings>>
    /\ UNCHANGED <<purse, lost, shopFaults>>

ActivateCallFails(q) ==
    /\ shopper[q].pc \in {"live", "expire", "create"}
    /\ shopFaults < MaxShopFaults /\ shopFaults' = shopFaults + 1
    /\ ActivationFailed(q)
    /\ UNCHANGED <<purse, sold, live, takings, lost>>

\* Mutant: the error of Activate is answered without the credit.
GiveBack_Forgotten(q) ==
    /\ shopper[q].pc = "compensate"
    /\ ShopperDone(q)
    /\ UNCHANGED <<purse, sold, live, takings, lost, shopFaults>>

GiveBack(q) ==
    /\ shopper[q].pc = "compensate"
    /\ purse' = purse + shopper[q].price
    /\ ShopperDone(q)
    /\ UNCHANGED <<sold, live, takings, lost, shopFaults>>

\* The credit fails, which is logged as CRITICAL, or the process dies after the
\* debit.
MoneyIsLost(q) ==
    /\ shopper[q].pc \in {"live", "expire", "create", "compensate"}
    /\ shopFaults < MaxShopFaults /\ shopFaults' = shopFaults + 1
    /\ lost' = lost + shopper[q].price
    /\ ShopperDone(q)
    /\ UNCHANGED <<purse, sold, live, takings>>

CheckoutNext ==
    \E q \in Shopper :
        \/ \E price \in Prices : ChoosePlan(q, price)
        \/ DebitPrice(q) \/ ReadLiveRow(q) \/ ExpireLiveRow(q) \/ CreateLiveRow(q)
        \/ ActivateCallFails(q) \/ GiveBack(q) \/ MoneyIsLost(q)

CheckoutSpec == CheckoutInit /\ [][CheckoutNext]_checkoutVars

-----------------------------------------------------------------------------
(* Properties *)

\* What the requests between their debit and their end have been charged.
Pending ==
    SumTo([q \in Shopper |-> IF shopper[q].pc \in {"free", "debit"}
                             THEN 0 ELSE shopper[q].price], Shoppers)

\* The customer's money is in the wallet, in a subscription bought or in a
\* request under way, and only a failure loses any: not two checkouts at once of
\* which the index lets one win.  Nor do these leave the account without its
\* subscription.
CheckoutSettles ==
    /\ CheckoutTypeOK
    /\ purse + takings + Pending + lost = Funds
    /\ shopFaults = 0 => lost = 0
    /\ shopFaults = 0 /\ sold > 0 /\ (\A q \in Shopper : shopper[q].pc = "free") => live # 0
=============================================================================
