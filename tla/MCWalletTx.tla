----------------------------- MODULE MCWalletTx -----------------------------
(* Two sessions on two wallets, alice's with room for a credit and the two   *)
(* debits that race for it; a single-use credits code and a code of the type *)
(* BulkGenerateCodes writes.                                                 *)
EXTENDS WalletTx, TLC

CONSTANTS alice, bob, promo, trial

MCAccount == {alice, bob}
MCCode == {promo, trial}
MCRewardType == promo :> "credits" @@ trial :> "subscription_trial"
MCRewardValue == promo :> 200 @@ trial :> 30
MCMaxEntries == alice :> 3 @@ bob :> 1
MCMaxUses == promo :> 1 @@ trial :> 1

\* Story 5.1: lifetime_spend is what was spent (WalletRepo.Debit adds each debit
\* to it).
SpendIsTotal == \A a \in Account : lifetimeSpend[a] = -TotalOf(ledger[a], {"debit"})
=============================================================================
