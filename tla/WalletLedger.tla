---------------------------- MODULE WalletLedger ----------------------------
(***************************************************************************)
(* The wallet of each account as the rest of the system sees it: every     *)
(* operation of WalletRepo that changes money is one database transaction  *)
(* under a row lock, so here it is one atomic step.  WalletTx models the   *)
(* statements and the locks inside those transactions and is checked to    *)
(* implement this module.                                                  *)
(*                                                                         *)
(* Amounts are counted in units of 0.0001, the scale of balance, amount    *)
(* and balance_after; the lifetime columns keep whole cents only.          *)
(***************************************************************************)
EXTENDS Integers, Sequences, FiniteSets, Sums

CONSTANTS
    Account,      \* identity.accounts.id
    Amount,       \* amounts a caller may credit or debit
    Ref,          \* reference_id of a caller: an order, a refund
    Code,         \* billing.redemption_codes.code
    RewardType,   \* Code -> redemption_codes.reward_type
    RewardValue,  \* Code -> redemption_codes.reward_value
    MaxUses,      \* Code -> redemption_codes.max_uses
    MaxEntries    \* bound of the model: Account -> its ledger entries

NoRef == "noRef"

ASSUME WalletAssumption ==
    /\ Amount \subseteq Nat \ {0}
    /\ NoRef \notin Ref
    /\ Code \cap (Ref \union {NoRef}) = {}
    /\ RewardType \in [Code -> {"credits", "subscription_trial", "quota_grant"}]
    /\ RewardValue \in [Code -> Nat]
    /\ MaxUses \in [Code -> Nat]
    /\ MaxEntries \in [Account -> Nat]

VARIABLES
    walletRows,     \* the accounts that have a row in billing.wallets
    balance,        \* wallets.balance
    lifetimeTopup,  \* wallets.lifetime_topup
    lifetimeSpend,  \* wallets.lifetime_spend
    ledger,         \* billing.wallet_transactions of an account, in id order
    usedCount       \* redemption_codes.used_count

walletVars == <<walletRows, balance, lifetimeTopup, lifetimeSpend, ledger,
                usedCount>>

\* The types told apart: Credit treats "topup" specially, refunds are looked up,
\* a debit writes a negative amount; all other types only name the reason.
CreditType == {"topup", "refund", "credit"}
TxType == CreditType \union {"debit", "redemption"}

Entry == [type : TxType, amount : Int, balanceAfter : Int,
          ref : Ref \union Code \union {NoRef}]

NewEntry(a, t, amt, ref) ==
    [type |-> t, amount |-> amt, balanceAfter |-> balance[a] + amt, ref |-> ref]

WalletTypeOK ==
    /\ walletRows \subseteq Account
    /\ balance \in [Account -> Int]
    /\ lifetimeTopup \in [Account -> Nat]
    /\ lifetimeSpend \in [Account -> Nat]
    /\ ledger \in [Account -> Seq(Entry)]
    /\ usedCount \in [Code -> Nat]

WalletInit ==
    /\ walletRows = {}
    /\ balance = [a \in Account |-> 0]
    /\ lifetimeTopup = [a \in Account |-> 0]
    /\ lifetimeSpend = [a \in Account |-> 0]
    /\ ledger = [a \in Account |-> <<>>]
    /\ usedCount = [c \in Code |-> 0]

-----------------------------------------------------------------------------
(* The operations *)

\* WalletRepo.GetOrCreate: the first call inserts a row of zeros.
GetOrCreate(a) ==
    /\ a \notin walletRows
    /\ walletRows' = walletRows \union {a}
    /\ UNCHANGED <<balance, lifetimeTopup, lifetimeSpend, ledger, usedCount>>

\* lifetime_topup and lifetime_spend are DECIMAL(12,2): what is assigned to them
\* is rounded to cents, half of one up.
Cents(x) == ((x + 50) \div 100) * 100

\* WalletRepo.Credit; it fails, changing nothing, when there is no row.
Credit(a, t, amt, ref) ==
    /\ a \in walletRows
    /\ Len(ledger[a]) < MaxEntries[a]
    /\ balance' = [balance EXCEPT ![a] = @ + amt]
    /\ lifetimeTopup' = IF t = "topup"
                        THEN [lifetimeTopup EXCEPT ![a] = Cents(@ + amt)]
                        ELSE lifetimeTopup
    /\ ledger' = [ledger EXCEPT ![a] = Append(@, NewEntry(a, t, amt, ref))]
    /\ UNCHANGED <<walletRows, lifetimeSpend, usedCount>>

\* The check of WalletRepo.Debit, before the UPDATE and again in its WHERE.
Sufficient(bal, amt) == bal >= amt

\* WalletRepo.Debit; it fails, changing nothing, when funds are short.
Debit(a, amt, ref) ==
    /\ a \in walletRows
    /\ Len(ledger[a]) < MaxEntries[a]
    /\ Sufficient(balance[a], amt)
    /\ balance' = [balance EXCEPT ![a] = @ - amt]
    /\ lifetimeSpend' = [lifetimeSpend EXCEPT ![a] = Cents(@ + amt)]
    /\ ledger' = [ledger EXCEPT ![a] = Append(@, NewEntry(a, "debit", -amt, ref))]
    /\ UNCHANGED <<walletRows, lifetimeTopup, usedCount>>

\* What WalletRepo.RedeemCode requires of a code used n times.
Redeemable(c, n) ==
    /\ n < MaxUses[c]
    /\ RewardType[c] = "credits"

\* WalletRepo.RedeemCode.  The code must also not have expired when the
\* transaction validates it; it may expire before the commit, so expiry is
\* no guard of the atomic step and is modelled in WalletTx.
RedeemCode(a, c) ==
    /\ Redeemable(c, usedCount[c])
    /\ a \in walletRows
    /\ Len(ledger[a]) < MaxEntries[a]
    /\ balance' = [balance EXCEPT ![a] = @ + RewardValue[c]]
    /\ ledger' = [ledger EXCEPT ![a] =
                    Append(@, NewEntry(a, "redemption", RewardValue[c], c))]
    /\ usedCount' = [usedCount EXCEPT ![c] = @ + 1]
    /\ UNCHANGED <<walletRows, lifetimeTopup, lifetimeSpend>>

WalletNext ==
    \E a \in Account :
        \/ GetOrCreate(a)
        \/ \E amt \in Amount, ref \in Ref \union {NoRef} :
            \/ \E t \in CreditType : Credit(a, t, amt, ref)
            \/ Debit(a, amt, ref)
        \/ \E c \in Code : RedeemCode(a, c)

WalletSpec == WalletInit /\ [][WalletNext]_walletVars

-----------------------------------------------------------------------------
(* Properties *)

\* The ledger explains the balance: each entry's balance_after is its
\* predecessor's plus its own amount, from zero up to the wallet's balance.
BalanceBefore(a, i) == IF i = 1 THEN 0 ELSE ledger[a][i - 1].balanceAfter

LedgerExplainsBalance ==
    \A a \in Account :
        /\ \A i \in DOMAIN ledger[a] :
            ledger[a][i].balanceAfter = BalanceBefore(a, i) + ledger[a][i].amount
        /\ balance[a] = BalanceBefore(a, Len(ledger[a]) + 1)

\* Entries of account a that carry type t and reference ref.
EntriesOf(a, t, ref) ==
    {i \in DOMAIN ledger[a] : ledger[a][i].type = t /\ ledger[a][i].ref = ref}

Redemptions(c) ==
    UNION {{<<a, i>> : i \in EntriesOf(a, "redemption", c)} : a \in Account}

\* used_count counts the credits a code really gave, over all accounts, and
\* they never exceed max_uses ("to prevent TOCTOU double-use",
\* WalletRepo.RedeemCode).
RedemptionsCounted ==
    \A c \in Code : /\ Cardinality(Redemptions(c)) = usedCount[c]
                    /\ usedCount[c] <= MaxUses[c]

\* The entries of a ledger l with a type in Type, what they add up to, and half
\* a cent for each of them.
EntriesWith(l, Type) == {i \in DOMAIN l : l[i].type \in Type}

TotalOf(l, Type) ==
    SumTo([i \in DOMAIN l |-> IF l[i].type \in Type THEN l[i].amount ELSE 0], Len(l))

Drift(l, Type) == 50 * Cardinality(EntriesWith(l, Type))

\* No sequence of credits, debits and redemptions overdraws a wallet
\* ("double-spend protection", WalletRepo.Debit): its balance is not negative,
\* and what was debited is covered by what was credited, though two debits that
\* race for the same funds may both find enough of them.
BalanceNeverNegative ==
    \A a \in Account : balance[a] >= 0 /\ TotalOf(ledger[a], TxType) >= 0

\* The balance is the total of all entries; lifetime_topup, which decides the
\* VIP level, and lifetime_spend are the totals of the topups and the debits, up
\* to the rounding of their columns.
LifetimeTotals ==
    \A a \in Account :
        /\ balance[a] = TotalOf(ledger[a], TxType)
        /\ lifetimeTopup[a] - TotalOf(ledger[a], {"topup"}) \in
              -Drift(ledger[a], {"topup"}) .. Drift(ledger[a], {"topup"})
        /\ lifetimeSpend[a] + TotalOf(ledger[a], {"debit"}) \in
              -Drift(ledger[a], {"debit"}) .. Drift(ledger[a], {"debit"})

\* The counters that are kept beside the ledger agree with it: used_count of a
\* code with the redemptions (RedeemCode), the wallet's totals with its entries.
TotalsAgree == RedemptionsCounted /\ LifetimeTotals
=============================================================================
