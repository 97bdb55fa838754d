------------------------- MODULE WalletLedgerProofs -------------------------
(* What WalletLedger promises, for every set of accounts, codes and amounts. *)
EXTENDS WalletLedger, FiniteSetTheorems, NaturalsInduction, WellFoundedInduction,
        TLAPS

-----------------------------------------------------------------------------
(* Sums *)

\* A set of numbers that is not empty has a member that is zero or whose predecessor is
\* outside: induction without an operator as parameter.
LEMMA LeastNumber ==
    ASSUME NEW T, T \subseteq Nat, T # {}
    PROVE  \E n \in T : n = 0 \/ n - 1 \notin T
<1>1. PICK n \in T : \A m \in T : ~ (<<m, n>> \in OpToRel(<, Nat))
  BY NatLessThanWellFounded, WFMin
<1>2. n # 0 => n - 1 \in Nat /\ n - 1 < n
  OBVIOUS
<1>3. n # 0 /\ n - 1 \in T => <<n - 1, n>> \in OpToRel(<, Nat)
  BY <1>2 DEF OpToRel
<1> QED
  BY <1>1, <1>3

\* The sums of f up to each number until n.
PartialSums(f, p, n) == p = [i \in 0 .. n |-> IF i = 0 THEN 0 ELSE p[i - 1] + f[i]]

\* There are partial sums up to every number, each longer list carries the shorter
\* ones on, and so SumTo is what its recursion says.
LEMMA SumsExist ==
    ASSUME NEW f, NEW n \in Nat
    PROVE  \E p : PartialSums(f, p, n)
<1> DEFINE T == {k \in Nat : ~ \E p : PartialSums(f, p, k)}
<1> SUFFICES ASSUME T # {}
             PROVE  FALSE
  OBVIOUS
<1>1. PICK k \in T : k = 0 \/ k - 1 \notin T
  <2> HIDE DEF T
  <2>1. T \subseteq Nat
    BY DEF T
  <2> QED
    BY <2>1, LeastNumber
<1>2. CASE k = 0
  <2>1. PartialSums(f, [i \in 0 .. 0 |-> 0], 0)
    BY DEF PartialSums
  <2> QED
    BY <1>1, <1>2, <2>1
<1>3. CASE k # 0
  <2>1. k \in Nat /\ k - 1 \in Nat
    BY <1>1, <1>3
  <2>2. PICK p : PartialSums(f, p, k - 1)
    BY <1>1, <1>3, <2>1
  <2> DEFINE q == [i \in 0 .. k |-> IF i = k THEN p[k - 1] + f[k] ELSE p[i]]
  <2>3. q[k] = q[k - 1] + f[k]
    BY <2>1
  <2>4. \A i \in 0 .. k - 1 : q[i] = p[i] /\ p[i] = IF i = 0 THEN 0 ELSE p[i - 1] + f[i]
    BY <2>1, <2>2 DEF PartialSums
  <2>5. \A i \in 0 .. k : q[i] = IF i = 0 THEN 0 ELSE q[i - 1] + f[i]
    <3> HIDE DEF q
    <3>1. \A i \in 0 .. k : i = k \/ (i \in 0 .. k - 1 /\ (i # 0 => i - 1 \in 0 .. k - 1))
      BY <2>1
    <3> QED
      BY <1>3, <2>1, <2>3, <2>4, <3>1
  <2>6. PartialSums(f, q, k)
    <3>1. q = [i \in 0 .. k |-> q[i]]
      OBVIOUS
    <3> HIDE DEF q
    <3> QED
      BY <2>5, <3>1 DEF PartialSums
  <2> QED
    BY <1>1, <2>6
<1> QED
  BY <1>2, <1>3

LEMMA SumsAgree ==
    ASSUME NEW f, NEW n \in Nat, NEW m \in Nat, NEW p, NEW q,
           PartialSums(f, p, n), PartialSums(f, q, m), n <= m
    PROVE  \A i \in 0 .. n : p[i] = q[i]
<1> DEFINE T == {i \in 0 .. n : p[i] # q[i]}
<1> SUFFICES ASSUME T # {}
             PROVE  FALSE
  OBVIOUS
<1>1. PICK k \in T : k = 0 \/ k - 1 \notin T
  <2> HIDE DEF T
  <2>1. T \subseteq Nat
    BY DEF T
  <2> QED
    BY <2>1, LeastNumber
<1>2. k \in 0 .. n /\ k \in 0 .. m /\ p[k] # q[k]
  BY <1>1
<1>3. /\ p[k] = IF k = 0 THEN 0 ELSE p[k - 1] + f[k]
      /\ q[k] = IF k = 0 THEN 0 ELSE q[k - 1] + f[k]
  BY <1>2 DEF PartialSums
<1>4. k # 0 => k - 1 \in 0 .. n
  BY <1>2
<1> QED
  BY <1>1, <1>2, <1>3, <1>4

LEMMA SumSteps ==
    ASSUME NEW f
    PROVE  /\ SumTo(f, 0) = 0
           /\ \A n \in Nat : SumTo(f, n + 1) = SumTo(f, n) + f[n + 1]
<1> DEFINE Rec(s) == s = [i \in Nat |-> IF i = 0 THEN 0 ELSE s[i - 1] + f[i]]
<1>1. \E s : Rec(s)
  <2> DEFINE part(n) == CHOOSE p : PartialSums(f, p, n)
             s == [n \in Nat |-> part(n)[n]]
  <2>1. \A n \in Nat : PartialSums(f, part(n), n)
    BY SumsExist
  <2>2. s[0] = 0
    <3>1. part(0)[0] = 0
      <4> HIDE DEF part
      <4>1. 0 \in Nat
        OBVIOUS
      <4> QED
        BY <2>1, <4>1 DEF PartialSums
    <3> QED
      BY <3>1
  <2>3. ASSUME NEW n \in Nat, n # 0
        PROVE  s[n] = s[n - 1] + f[n]
    <3> HIDE DEF part
    <3>1. PartialSums(f, part(n), n) /\ PartialSums(f, part(n - 1), n - 1) /\ n - 1 \in Nat /\ n - 1 <= n
      BY <2>1, <2>3
    <3>2. part(n)[n] = part(n)[n - 1] + f[n]
      BY <2>3, <3>1 DEF PartialSums
    <3>3. part(n - 1)[n - 1] = part(n)[n - 1]
      BY <3>1, SumsAgree
    <3> QED
      BY <3>1, <3>2, <3>3
  <2>4. s = [n \in Nat |-> s[n]]
    OBVIOUS
  <2> HIDE DEF s
  <2> QED
    BY <2>2, <2>3, <2>4
<1>2. PICK s : Rec(s) /\ \A n : SumTo(f, n) = s[n]
  <2> DEFINE c == CHOOSE s : Rec(s)
  <2>1. Rec(c)
    BY <1>1
  <2>2. \A n : SumTo(f, n) = c[n]
    BY DEF SumTo
  <2> HIDE DEF c
  <2> QED
    BY <2>1, <2>2
<1> HIDE DEF Rec
<1>3. \A i \in Nat : s[i] = IF i = 0 THEN 0 ELSE s[i - 1] + f[i]
  BY <1>2 DEF Rec
<1> QED
  <2>1. SumTo(f, 0) = 0
    BY <1>2, <1>3
  <2>2. ASSUME NEW n \in Nat
        PROVE  SumTo(f, n + 1) = SumTo(f, n) + f[n + 1]
    <3>1. n + 1 \in Nat /\ n + 1 # 0 /\ (n + 1) - 1 = n
      OBVIOUS
    <3> QED
      BY <1>2, <1>3, <3>1
  <2> QED
    BY <2>1, <2>2

\* A sum depends on its terms only, and is a number when they are.
LEMMA SumsOfEquals ==
    ASSUME NEW f, NEW g, NEW n \in Nat, \A i \in 1 .. n : f[i] = g[i]
    PROVE  SumTo(f, n) = SumTo(g, n)
<1> DEFINE T == {k \in 0 .. n : SumTo(f, k) # SumTo(g, k)}
<1> SUFFICES ASSUME T # {}
             PROVE  FALSE
  OBVIOUS
<1>1. PICK k \in T : k = 0 \/ k - 1 \notin T
  <2> HIDE DEF T
  <2>1. T \subseteq Nat
    BY DEF T
  <2> QED
    BY <2>1, LeastNumber
<1>2. k \in 0 .. n /\ SumTo(f, k) # SumTo(g, k)
  BY <1>1
<1>3. k # 0
  BY <1>2, SumSteps
<1>4. k - 1 \in Nat /\ k - 1 \in 0 .. n /\ (k - 1) + 1 = k /\ k \in 1 .. n
  BY <1>2, <1>3
<1>5. /\ SumTo(f, k) = SumTo(f, k - 1) + f[k]
      /\ SumTo(g, k) = SumTo(g, k - 1) + g[k]
  BY <1>4, SumSteps
<1>6. SumTo(f, k - 1) = SumTo(g, k - 1)
  BY <1>1, <1>3, <1>4
<1> QED
  BY <1>2, <1>4, <1>5, <1>6

LEMMA SumsOfNumbers ==
    ASSUME NEW f, NEW n \in Nat, \A i \in 1 .. n : f[i] \in Int
    PROVE  SumTo(f, n) \in Int
<1> DEFINE T == {k \in 0 .. n : SumTo(f, k) \notin Int}
<1> SUFFICES ASSUME T # {}
             PROVE  FALSE
  OBVIOUS
<1>1. PICK k \in T : k = 0 \/ k - 1 \notin T
  <2> HIDE DEF T
  <2>1. T \subseteq Nat
    BY DEF T
  <2> QED
    BY <2>1, LeastNumber
<1>2. k \in 0 .. n /\ SumTo(f, k) \notin Int
  BY <1>1
<1>3. k # 0
  BY <1>2, SumSteps
<1>4. k - 1 \in Nat /\ k - 1 \in 0 .. n /\ (k - 1) + 1 = k /\ k \in 1 .. n
  BY <1>2, <1>3
<1>5. SumTo(f, k) = SumTo(f, k - 1) + f[k]
  BY <1>4, SumSteps
<1>6. SumTo(f, k - 1) \in Int
  BY <1>1, <1>3, <1>4
<1> QED
  BY <1>2, <1>4, <1>5, <1>6

LEMMA SumsOfNaturals ==
    ASSUME NEW f, NEW n \in Nat, \A i \in 1 .. n : f[i] \in Nat
    PROVE  SumTo(f, n) \in Nat
<1> DEFINE T == {k \in 0 .. n : SumTo(f, k) \notin Nat}
<1> SUFFICES ASSUME T # {}
             PROVE  FALSE
  OBVIOUS
<1>1. PICK k \in T : k = 0 \/ k - 1 \notin T
  <2> HIDE DEF T
  <2>1. T \subseteq Nat
    BY DEF T
  <2> QED
    BY <2>1, LeastNumber
<1>2. k \in 0 .. n /\ SumTo(f, k) \notin Nat
  BY <1>1
<1>3. k # 0
  BY <1>2, SumSteps
<1>4. k - 1 \in Nat /\ k - 1 \in 0 .. n /\ (k - 1) + 1 = k /\ k \in 1 .. n
  BY <1>2, <1>3
<1>5. SumTo(f, k) = SumTo(f, k - 1) + f[k]
  BY <1>4, SumSteps
<1>6. SumTo(f, k - 1) \in Nat
  BY <1>1, <1>3, <1>4
<1> QED
  BY <1>2, <1>4, <1>5, <1>6

LEMMA SumOfZeros ==
    ASSUME NEW f, NEW n \in Nat, \A i \in 1 .. n : f[i] = 0
    PROVE  SumTo(f, n) = 0
<1> DEFINE T == {k \in 0 .. n : SumTo(f, k) # 0}
<1> SUFFICES ASSUME T # {}
             PROVE  FALSE
  OBVIOUS
<1>1. PICK k \in T : k = 0 \/ k - 1 \notin T
  <2> HIDE DEF T
  <2>1. T \subseteq Nat
    BY DEF T
  <2> QED
    BY <2>1, LeastNumber
<1>2. k \in 0 .. n /\ SumTo(f, k) # 0
  BY <1>1
<1>3. k # 0
  BY <1>2, SumSteps
<1>4. k - 1 \in Nat /\ k - 1 \in 0 .. n /\ (k - 1) + 1 = k /\ k \in 1 .. n
  BY <1>2, <1>3
<1>5. SumTo(f, k) = SumTo(f, k - 1) + f[k]
  BY <1>4, SumSteps
<1>6. SumTo(f, k - 1) = 0
  BY <1>1, <1>3, <1>4
<1> QED
  BY <1>2, <1>4, <1>5, <1>6

\* When one term changes the sum changes by as much.
LEMMA SumChanges ==
    ASSUME NEW f, NEW g, NEW n \in Nat, NEW j \in 1 .. n,
           \A i \in 1 .. n : f[i] \in Int /\ g[i] \in Int,
           \A i \in 1 .. n : i # j => f[i] = g[i]
    PROVE  SumTo(g, n) = SumTo(f, n) + (g[j] - f[j])
<1> DEFINE T == {k \in j .. n : SumTo(g, k) # SumTo(f, k) + (g[j] - f[j])}
<1>0. j - 1 \in Nat /\ (j - 1) + 1 = j /\ n \in j .. n /\ j \in Nat
  OBVIOUS
<1> SUFFICES ASSUME T # {}
             PROVE  FALSE
  BY <1>0
<1>1. PICK k \in T : k = 0 \/ k - 1 \notin T
  <2> HIDE DEF T
  <2>1. T \subseteq Nat
    BY DEF T
  <2> QED
    BY <2>1, LeastNumber
<1>2. k \in j .. n /\ SumTo(g, k) # SumTo(f, k) + (g[j] - f[j])
  BY <1>1
<1>3. k - 1 \in Nat /\ (k - 1) + 1 = k /\ k \in 1 .. n
  BY <1>2
<1>4. /\ SumTo(f, k) = SumTo(f, k - 1) + f[k]
      /\ SumTo(g, k) = SumTo(g, k - 1) + g[k]
  BY <1>3, SumSteps
<1>5. SumTo(f, k - 1) \in Int
  <2>1. \A i \in 1 .. k - 1 : f[i] \in Int
    BY <1>2, <1>3
  <2> QED
    BY <1>3, <2>1, SumsOfNumbers
<1>6. CASE k = j
  <2>1. \A i \in 1 .. j - 1 : f[i] = g[i]
    BY <1>0
  <2>2. SumTo(g, j - 1) = SumTo(f, j - 1)
    BY <1>0, <2>1, SumsOfEquals
  <2> QED
    BY <1>2, <1>3, <1>4, <1>5, <1>6, <2>2
<1>7. CASE k # j
  <2>1. k - 1 \in j .. n
    BY <1>2, <1>7
  <2>2. SumTo(g, k - 1) = SumTo(f, k - 1) + (g[j] - f[j])
    BY <1>1, <1>3, <2>1
  <2> QED
    BY <1>2, <1>3, <1>4, <1>5, <1>7, <2>2
<1> QED
  BY <1>6, <1>7

-----------------------------------------------------------------------------
(* The balance and its ledger *)

\* Credits, debits and redemptions append an entry to one account's ledger and
\* set its balance to that entry's balance_after; Moved names that shared shape.
Moved(a, e) ==
    /\ ledger' = [ledger EXCEPT ![a] = Append(@, e)]
    /\ balance' = [balance EXCEPT ![a] = e.balanceAfter]

LEMMA CallValues == Amount \subseteq Nat /\ RewardValue \in [Code -> Nat]
BY WalletAssumption

\* The entry that Credit, Debit and RedeemCode append is a ledger entry.
LEMMA NewEntryType ==
    ASSUME WalletTypeOK, NEW a \in Account, NEW t \in TxType, NEW amt \in Int,
           NEW ref \in Ref \union Code \union {NoRef}
    PROVE  /\ NewEntry(a, t, amt, ref) \in Entry
           /\ NewEntry(a, t, amt, ref).amount = amt
           /\ NewEntry(a, t, amt, ref).balanceAfter = balance[a] + amt
BY DEF WalletTypeOK, NewEntry, Entry

LEMMA CreditMoves ==
    ASSUME WalletTypeOK, NEW a \in Account, NEW t \in CreditType, NEW amt \in Amount,
           NEW ref \in Ref \union {NoRef}, Credit(a, t, amt, ref)
    PROVE  Moved(a, NewEntry(a, t, amt, ref))
BY DEF Credit, Moved, NewEntry, WalletTypeOK

LEMMA DebitMoves ==
    ASSUME WalletTypeOK, NEW a \in Account, NEW amt \in Amount,
           NEW ref \in Ref \union {NoRef}, Debit(a, amt, ref)
    PROVE  Moved(a, NewEntry(a, "debit", -amt, ref))
<1>1. balance[a] - amt = balance[a] + (-amt)
  BY WalletAssumption DEF WalletTypeOK
<1> QED
  BY <1>1 DEF Debit, Moved, NewEntry, WalletTypeOK

LEMMA RedeemMoves ==
    ASSUME WalletTypeOK, NEW a \in Account, NEW c \in Code, RedeemCode(a, c)
    PROVE  Moved(a, NewEntry(a, "redemption", RewardValue[c], c))
BY DEF RedeemCode, Moved, NewEntry, WalletTypeOK

\* Rounding an amount to cents leaves a natural number.
LEMMA CentsNat == \A x \in Nat : Cents(x) \in Nat
BY DEF Cents

LEMMA WalletTypeStep == WalletTypeOK /\ [WalletNext]_walletVars => WalletTypeOK'
<1> SUFFICES ASSUME WalletTypeOK, [WalletNext]_walletVars
             PROVE  WalletTypeOK'
  OBVIOUS
<1> USE CallValues
<1>1. ASSUME NEW a \in Account, GetOrCreate(a)
      PROVE  WalletTypeOK'
  BY <1>1 DEF GetOrCreate, WalletTypeOK
<1>2. ASSUME NEW a \in Account, NEW t \in CreditType, NEW amt \in Amount,
             NEW ref \in Ref \union {NoRef}, Credit(a, t, amt, ref)
      PROVE  WalletTypeOK'
  <2>1. NewEntry(a, t, amt, ref) \in Entry
    BY NewEntryType DEF TxType
  <2>2. ledger' \in [Account -> Seq(Entry)]
    BY <1>2, <2>1 DEF Credit, WalletTypeOK
  <2>3. lifetimeTopup[a] + amt \in Nat
    BY DEF WalletTypeOK
  <2>4. lifetimeTopup' \in [Account -> Nat]
    BY <1>2, <2>3, CentsNat DEF Credit, WalletTypeOK
  <2> QED
    BY <1>2, <2>2, <2>4 DEF Credit, WalletTypeOK
<1>3. ASSUME NEW a \in Account, NEW amt \in Amount,
             NEW ref \in Ref \union {NoRef}, Debit(a, amt, ref)
      PROVE  WalletTypeOK'
  <2>1. NewEntry(a, "debit", -amt, ref) \in Entry
    BY NewEntryType DEF TxType
  <2>2. ledger' \in [Account -> Seq(Entry)]
    BY <1>3, <2>1 DEF Debit, WalletTypeOK
  <2>3. lifetimeSpend[a] + amt \in Nat
    BY DEF WalletTypeOK
  <2>4. lifetimeSpend' \in [Account -> Nat]
    BY <1>3, <2>3, CentsNat DEF Debit, WalletTypeOK
  <2> QED
    BY <1>3, <2>2, <2>4 DEF Debit, WalletTypeOK
<1>4. ASSUME NEW a \in Account, NEW c \in Code, RedeemCode(a, c)
      PROVE  WalletTypeOK'
  <2>1. NewEntry(a, "redemption", RewardValue[c], c) \in Entry
    BY NewEntryType DEF TxType
  <2>2. ledger' \in [Account -> Seq(Entry)]
    BY <1>4, <2>1 DEF RedeemCode, WalletTypeOK
  <2> QED
    BY SMTT(30), <1>4, <2>2 DEF RedeemCode, WalletTypeOK
<1>5. CASE UNCHANGED walletVars
  BY <1>5 DEF walletVars, WalletTypeOK
<1> QED
  BY <1>1, <1>2, <1>3, <1>4, <1>5 DEF WalletNext

\* Type correctness of the wallet, its ledger and the codes.
THEOREM WalletTypeCorrect == WalletSpec => []WalletTypeOK
<1>1. WalletInit => WalletTypeOK
  BY DEF WalletInit, WalletTypeOK
<1> QED
  BY <1>1, WalletTypeStep, PTL DEF WalletSpec

\* The first half of BalanceNeverNegative, which is inductive by itself.
NoneBelowZero == \A a \in Account : balance[a] >= 0

LEMMA BalancesStay == WalletSpec => []NoneBelowZero
<1>1. WalletInit => NoneBelowZero
  BY DEF WalletInit, NoneBelowZero
<1>2. /\ WalletTypeOK
      /\ NoneBelowZero
      /\ [WalletNext]_walletVars
      => NoneBelowZero'
  <2> SUFFICES ASSUME WalletTypeOK, NoneBelowZero, [WalletNext]_walletVars
               PROVE  NoneBelowZero'
    OBVIOUS
  <2> USE CallValues DEF WalletTypeOK, NoneBelowZero
  <2>1. ASSUME NEW a \in Account, GetOrCreate(a)
        PROVE  NoneBelowZero'
    BY <2>1 DEF GetOrCreate
  <2>2. ASSUME NEW a \in Account, NEW t \in CreditType, NEW amt \in Amount,
               NEW ref \in Ref \union {NoRef}, Credit(a, t, amt, ref)
        PROVE  NoneBelowZero'
    BY <2>2 DEF Credit
  <2>3. ASSUME NEW a \in Account, NEW amt \in Amount,
               NEW ref \in Ref \union {NoRef}, Debit(a, amt, ref)
        PROVE  NoneBelowZero'
    BY <2>3 DEF Debit, Sufficient
  <2>4. ASSUME NEW a \in Account, NEW c \in Code, RedeemCode(a, c)
        PROVE  NoneBelowZero'
    BY <2>4 DEF RedeemCode
  <2>5. CASE UNCHANGED walletVars
    BY <2>5 DEF walletVars
  <2> QED
    BY <2>1, <2>2, <2>3, <2>4, <2>5 DEF WalletNext
<1> QED
  BY <1>1, <1>2, WalletTypeCorrect, PTL DEF WalletSpec

\* An append extends the chain of balance_after values when the new entry
\* carries on from the wallet's balance.
LEMMA ChainExtends ==
    ASSUME WalletTypeOK, LedgerExplainsBalance,
           NEW a \in Account, NEW e \in Entry,
           e.balanceAfter = balance[a] + e.amount,
           Moved(a, e)
    PROVE  LedgerExplainsBalance'
<1>0. PICK n \in Nat : n = Len(ledger[a])
  BY DEF WalletTypeOK
<1> SUFFICES ASSUME NEW b \in Account
             PROVE  /\ \A i \in DOMAIN ledger'[b] :
                         ledger'[b][i].balanceAfter
                           = BalanceBefore(b, i)' + ledger'[b][i].amount
                    /\ balance'[b] = BalanceBefore(b, Len(ledger[b]) + 1)'
  BY DEF LedgerExplainsBalance
<1>1. CASE b # a
  <2>1. ledger'[b] = ledger[b] /\ balance'[b] = balance[b]
    BY <1>1 DEF Moved, WalletTypeOK
  <2> QED
    BY <2>1 DEF LedgerExplainsBalance, BalanceBefore
<1>2. CASE b = a
  <2>1. /\ n \in Nat
        /\ DOMAIN ledger[a] = 1 .. n
    BY <1>0 DEF WalletTypeOK
  <2>2. /\ ledger'[a] = Append(ledger[a], e)
        /\ balance'[a] = e.balanceAfter
    BY DEF Moved, WalletTypeOK
  <2>3. /\ Len(ledger'[a]) = n + 1
        /\ DOMAIN ledger'[a] = 1 .. n + 1
        /\ ledger'[a][n + 1] = e
        /\ \A i \in 1 .. n : ledger'[a][i] = ledger[a][i]
    BY <1>0, <2>1, <2>2 DEF WalletTypeOK
  <2>4. \A i \in 1 .. n + 1 : BalanceBefore(a, i)' = BalanceBefore(a, i)
    <3>1. \A i \in 1 .. n + 1 : i # 1 => i - 1 \in 1 .. n
      BY <2>1
    <3>2. \A i \in 1 .. n + 1 : i # 1 => ledger'[a][i - 1] = ledger[a][i - 1]
      BY <3>1, <2>3
    <3> QED
      BY <3>2 DEF BalanceBefore
  <2>5. BalanceBefore(a, n + 1) = balance[a]
    BY <1>0 DEF LedgerExplainsBalance
  <2>6. BalanceBefore(a, n + 2)' = e.balanceAfter
    BY <2>1, <2>3 DEF BalanceBefore
  <2>7. \A i \in 1 .. n + 1 :
          ledger'[a][i].balanceAfter = BalanceBefore(a, i)' + ledger'[a][i].amount
    BY <2>1, <2>3, <2>4, <2>5 DEF LedgerExplainsBalance
  <2> QED
    BY <1>2, <2>1, <2>2, <2>3, <2>6, <2>7
<1> QED
  BY <1>1, <1>2

\* The ledger explains every balance at all times, whatever the interleaving of
\* credits, debits and redemptions.
THEOREM LedgerCorrect == WalletSpec => []LedgerExplainsBalance
<1>1. WalletInit => LedgerExplainsBalance
  BY DEF WalletInit, LedgerExplainsBalance, BalanceBefore
<1>2. /\ WalletTypeOK
      /\ LedgerExplainsBalance
      /\ [WalletNext]_walletVars
      => LedgerExplainsBalance'
  <2> SUFFICES ASSUME WalletTypeOK, LedgerExplainsBalance, [WalletNext]_walletVars
               PROVE  LedgerExplainsBalance'
    OBVIOUS
  <2> USE CallValues
  <2>1. ASSUME NEW a \in Account, GetOrCreate(a)
        PROVE  LedgerExplainsBalance'
    BY <2>1 DEF GetOrCreate, LedgerExplainsBalance, BalanceBefore
  <2>2. ASSUME NEW a \in Account, NEW t \in CreditType, NEW amt \in Amount,
               NEW ref \in Ref \union {NoRef}, Credit(a, t, amt, ref)
        PROVE  LedgerExplainsBalance'
    BY <2>2, CreditMoves, NewEntryType, ChainExtends DEF TxType
  <2>3. ASSUME NEW a \in Account, NEW amt \in Amount,
               NEW ref \in Ref \union {NoRef}, Debit(a, amt, ref)
        PROVE  LedgerExplainsBalance'
    <3> DEFINE e == NewEntry(a, "debit", -amt, ref)
    <3>1. e \in Entry /\ e.amount = -amt /\ e.balanceAfter = balance[a] + (-amt)
      BY NewEntryType DEF TxType
    <3>2. Moved(a, e)
      BY <2>3, DebitMoves
    <3> HIDE DEF e
    <3> QED
      BY <3>1, <3>2, ChainExtends
  <2>4. ASSUME NEW a \in Account, NEW c \in Code, RedeemCode(a, c)
        PROVE  LedgerExplainsBalance'
    <3> DEFINE e == NewEntry(a, "redemption", RewardValue[c], c)
    <3>1. e \in Entry /\ e.amount = RewardValue[c] /\ e.balanceAfter = balance[a] + RewardValue[c]
      BY NewEntryType DEF TxType
    <3>2. Moved(a, e)
      BY <2>4, RedeemMoves
    <3> HIDE DEF e
    <3> QED
      BY <3>1, <3>2, ChainExtends
  <2>5. CASE UNCHANGED walletVars
    BY <2>5 DEF walletVars, LedgerExplainsBalance, BalanceBefore
  <2> QED
    BY <2>1, <2>2, <2>3, <2>4, <2>5 DEF WalletNext
<1> QED
  BY <1>1, <1>2, WalletTypeCorrect, PTL DEF WalletSpec

\* After an append, the entries of a given type and reference are the old ones,
\* unchanged, and the appended one if it carries both.
LEMMA AppendedEntries ==
    ASSUME WalletTypeOK, NEW a \in Account, NEW e \in Entry,
           ledger' = [ledger EXCEPT ![a] = Append(@, e)],
           NEW b \in Account, NEW t, NEW r
    PROVE  /\ b # a \/ e.type # t \/ e.ref # r => EntriesOf(b, t, r)' = EntriesOf(b, t, r)
           /\ b = a /\ e.type = t /\ e.ref = r =>
                /\ EntriesOf(b, t, r)' = EntriesOf(b, t, r) \union {Len(ledger[a]) + 1}
                /\ ledger'[b][Len(ledger[a]) + 1] = e
           /\ \A i \in EntriesOf(b, t, r) : ledger'[b][i] = ledger[b][i]
<1>1. CASE b # a
  BY <1>1 DEF EntriesOf, WalletTypeOK
<1>2. CASE b = a
  <2>1. PICK n \in Nat : n = Len(ledger[a])
    BY DEF WalletTypeOK
  <2>2. /\ ledger'[a] = Append(ledger[a], e)
        /\ ledger[a] \in Seq(Entry)
    BY DEF WalletTypeOK
  <2>3. /\ DOMAIN ledger[a] = 1 .. n
        /\ DOMAIN ledger'[a] = 1 .. n + 1
        /\ ledger'[a][n + 1] = e
        /\ \A j \in 1 .. n : ledger'[a][j] = ledger[a][j]
    BY <2>1, <2>2
  <2>4. \A j : j \in 1 .. n + 1 <=> j \in 1 .. n \/ j = n + 1
    BY <2>1
  <2>5. \A j \in 1 .. n : j # n + 1
    BY <2>1
  <2>6. \A j : j \in EntriesOf(b, t, r)' <=>
            j \in EntriesOf(b, t, r) \/ (j = n + 1 /\ e.type = t /\ e.ref = r)
    BY <1>2, <2>3, <2>4, <2>5 DEF EntriesOf
  <2> QED
    BY <1>2, <2>1, <2>3, <2>6 DEF EntriesOf
<1> QED
  BY <1>1, <1>2

\* The first entry of its type and reference in its account.
LEMMA FirstEntry ==
    ASSUME WalletTypeOK, NEW a \in Account, NEW e \in Entry,
           ledger' = [ledger EXCEPT ![a] = Append(@, e)],
           EntriesOf(a, e.type, e.ref) = {}
    PROVE  \E n \in Int : EntriesOf(a, e.type, e.ref)' = {n} /\ ledger'[a][n] = e
<1>1. ledger'[a] = Append(ledger[a], e) /\ ledger[a] \in Seq(Entry)
  BY DEF WalletTypeOK
<1>2. PICK n \in Nat : n = Len(ledger[a])
  BY <1>1
<1>3. /\ DOMAIN ledger[a] = 1 .. n
      /\ DOMAIN ledger'[a] = 1 .. n + 1
      /\ ledger'[a][n + 1] = e
      /\ \A j \in 1 .. n : ledger'[a][j] = ledger[a][j]
  BY <1>1, <1>2
<1>4. \A j : j \in EntriesOf(a, e.type, e.ref)' <=> j = n + 1
  <2>1. \A j : j \in 1 .. n + 1 <=> j \in 1 .. n \/ j = n + 1
    BY <1>2
  <2>2. \A j \in 1 .. n : ~ (ledger[a][j].type = e.type /\ ledger[a][j].ref = e.ref)
    BY <1>3 DEF EntriesOf
  <2> QED
    BY <1>3, <2>1, <2>2 DEF EntriesOf
<1> QED
  BY <1>3, <1>4

-----------------------------------------------------------------------------
(* The totals beside the ledger *)

\* The terms of a ledger's total.
AmountsWith(l, Type) == [i \in DOMAIN l |-> IF l[i].type \in Type THEN l[i].amount ELSE 0]

\* What an entry adds to the totals of its type.
LEMMA AppendedTotal ==
    ASSUME NEW l \in Seq(Entry), NEW e \in Entry, NEW Type
    PROVE  /\ TotalOf(l, Type) \in Int
           /\ TotalOf(Append(l, e), Type)
                = TotalOf(l, Type) + IF e.type \in Type THEN e.amount ELSE 0
           /\ Drift(l, Type) \in Nat
           /\ Drift(Append(l, e), Type)
                = Drift(l, Type) + IF e.type \in Type THEN 50 ELSE 0
<1> DEFINE f == AmountsWith(l, Type)
           g == AmountsWith(Append(l, e), Type)
<1>1. PICK n \in Nat : n = Len(l)
  OBVIOUS
<1>2. /\ DOMAIN l = 1 .. n
      /\ Len(Append(l, e)) = n + 1
      /\ DOMAIN Append(l, e) = 1 .. n + 1
      /\ Append(l, e)[n + 1] = e
      /\ \A i \in 1 .. n : Append(l, e)[i] = l[i] /\ l[i] \in Entry
  BY <1>1
<1>3. /\ \A i \in 1 .. n : f[i] \in Int /\ i \in 1 .. n + 1 /\ g[i] = f[i]
      /\ g[n + 1] = IF e.type \in Type THEN e.amount ELSE 0
  <2>1. n + 1 \in 1 .. n + 1 /\ \A i \in 1 .. n : i \in 1 .. n + 1
    BY <1>1
  <2>2. \A i \in 1 .. n : l[i].amount \in Int
    BY <1>2 DEF Entry
  <2> QED
    BY <1>2, <2>1, <2>2 DEF AmountsWith
<1>4. /\ TotalOf(l, Type) = SumTo(f, n)
      /\ TotalOf(Append(l, e), Type) = SumTo(g, n + 1)
  BY <1>1, <1>2 DEF TotalOf, AmountsWith
<1> HIDE DEF f, g
<1>5. SumTo(g, n + 1) = SumTo(g, n) + g[n + 1]
  BY <1>1, SumSteps
<1>6. SumTo(f, n) = SumTo(g, n) /\ SumTo(f, n) \in Int
  BY <1>1, <1>3, SumsOfEquals, SumsOfNumbers
<1>7. EntriesWith(l, Type) \subseteq 1 .. n /\ IsFiniteSet(EntriesWith(l, Type))
  <2>1. EntriesWith(l, Type) \subseteq 1 .. n
    BY <1>2 DEF EntriesWith
  <2>2. IsFiniteSet(1 .. n)
    BY <1>1, FS_Interval
  <2> QED
    BY <2>1, <2>2, FS_Subset
<1>8. EntriesWith(Append(l, e), Type)
        = EntriesWith(l, Type) \union IF e.type \in Type THEN {n + 1} ELSE {}
  <2>1. \A i : i \in 1 .. n + 1 <=> i \in 1 .. n \/ i = n + 1
    BY <1>1
  <2>2. \A i \in 1 .. n : i # n + 1
    BY <1>1
  <2>3. \A i : i \in EntriesWith(Append(l, e), Type) <=>
                 \/ i \in EntriesWith(l, Type)
                 \/ i = n + 1 /\ e.type \in Type
    BY <1>2, <2>1, <2>2 DEF EntriesWith
  <2> QED
    BY <2>3
<1>9. n + 1 \notin EntriesWith(l, Type)
  BY <1>1, <1>7
<1>10. /\ Cardinality(EntriesWith(l, Type)) \in Nat
       /\ Cardinality(EntriesWith(l, Type) \union {n + 1})
            = Cardinality(EntriesWith(l, Type)) + 1
  BY <1>7, <1>9, FS_CardinalityType, FS_AddElement
<1>11. /\ Drift(l, Type) \in Nat
       /\ Drift(Append(l, e), Type) = Drift(l, Type) + IF e.type \in Type THEN 50 ELSE 0
  <2>1. CASE e.type \in Type
    BY <1>8, <1>10, <2>1 DEF Drift
  <2>2. CASE e.type \notin Type
    <3>1. EntriesWith(Append(l, e), Type) = EntriesWith(l, Type)
      BY <1>8, <2>2
    <3> QED
      BY <1>10, <2>2, <3>1 DEF Drift
  <2> QED
    BY <2>1, <2>2
<1> QED
  BY <1>3, <1>4, <1>5, <1>6, <1>11

\* Rounding moves an amount by no more than half a cent.
LEMMA CentsNear == \A x \in Int : Cents(x) - x \in -50 .. 50
BY DEF Cents

\* A total that has drifted by half a cent per entry so far has done so after one
\* more entry and one more rounding.
LEMMA DriftGrows ==
    \A x, y, amt \in Int : \A d \in Nat :
        x - y \in -d .. d => Cents(x + amt) - (y + amt) \in -(d + 50) .. (d + 50)
<1> SUFFICES ASSUME NEW x \in Int, NEW y \in Int, NEW amt \in Int, NEW d \in Nat,
                    x - y \in -d .. d
             PROVE  Cents(x + amt) - (y + amt) \in -(d + 50) .. (d + 50)
  OBVIOUS
<1>1. Cents(x + amt) - (x + amt) \in -50 .. 50
  BY CentsNear
<1>2. Cents(x + amt) \in Int
  BY DEF Cents
<1> QED
  BY <1>1, <1>2

\* The same of a sum that is booked with the opposite sign.
LEMMA SpendDriftGrows ==
    \A x, y, amt \in Int : \A d \in Nat :
        x + y \in -d .. d => Cents(x + (-amt)) + (y + amt) \in -(d + 50) .. (d + 50)
<1> SUFFICES ASSUME NEW x \in Int, NEW y \in Int, NEW amt \in Int, NEW d \in Nat,
                    x + y \in -d .. d
             PROVE  Cents(x + (-amt)) + (y + amt) \in -(d + 50) .. (d + 50)
  OBVIOUS
<1>1. /\ -y \in Int /\ -amt \in Int
      /\ x - (-y) \in -d .. d
  OBVIOUS
<1>2. Cents(x + (-amt)) - (-y + (-amt)) \in -(d + 50) .. (d + 50)
  BY <1>1, DriftGrows
<1>3. Cents(x + (-amt)) \in Int
  BY DEF Cents
<1> QED
  BY <1>2, <1>3

\* The entry e, appended to the ledger of account a, with the totals it calls for.
Totalled(a, e) ==
    /\ Moved(a, e)
    /\ e.balanceAfter = balance[a] + e.amount
    /\ lifetimeTopup' = IF e.type = "topup"
                        THEN [lifetimeTopup EXCEPT ![a] = Cents(@ + e.amount)]
                        ELSE lifetimeTopup
    /\ lifetimeSpend' = IF e.type = "debit"
                        THEN [lifetimeSpend EXCEPT ![a] = Cents(@ + (-e.amount))]
                        ELSE lifetimeSpend

LEMMA TotalsExtend ==
    ASSUME WalletTypeOK, LifetimeTotals, NEW a \in Account, NEW e \in Entry, Totalled(a, e)
    PROVE  LifetimeTotals'
<1> SUFFICES ASSUME NEW b \in Account
             PROVE  /\ balance'[b] = TotalOf(ledger'[b], TxType)
                    /\ lifetimeTopup'[b] - TotalOf(ledger'[b], {"topup"}) \in
                          -Drift(ledger'[b], {"topup"}) .. Drift(ledger'[b], {"topup"})
                    /\ lifetimeSpend'[b] + TotalOf(ledger'[b], {"debit"}) \in
                          -Drift(ledger'[b], {"debit"}) .. Drift(ledger'[b], {"debit"})
  BY DEF LifetimeTotals
<1>1. CASE b # a
  <2>1. /\ ledger'[b] = ledger[b] /\ balance'[b] = balance[b]
        /\ lifetimeTopup'[b] = lifetimeTopup[b] /\ lifetimeSpend'[b] = lifetimeSpend[b]
    BY <1>1 DEF Totalled, Moved, WalletTypeOK
  <2> QED
    BY <2>1 DEF LifetimeTotals
<1>2. CASE b = a
  <2>1. PICK l \in Seq(Entry), top \in Nat, spent \in Nat, bal \in Int :
            /\ l = ledger[a] /\ top = lifetimeTopup[a] /\ spent = lifetimeSpend[a]
            /\ bal = balance[a]
    BY DEF WalletTypeOK
  <2>2. /\ ledger'[a] = Append(l, e)
        /\ balance'[a] = bal + e.amount
        /\ lifetimeTopup'[a] = IF e.type = "topup" THEN Cents(top + e.amount) ELSE top
        /\ lifetimeSpend'[a] = IF e.type = "debit" THEN Cents(spent + (-e.amount)) ELSE spent
    BY <2>1 DEF Totalled, Moved, WalletTypeOK
  <2>3. /\ bal = TotalOf(l, TxType)
        /\ top - TotalOf(l, {"topup"}) \in -Drift(l, {"topup"}) .. Drift(l, {"topup"})
        /\ spent + TotalOf(l, {"debit"}) \in -Drift(l, {"debit"}) .. Drift(l, {"debit"})
    BY <2>1 DEF LifetimeTotals
  <2>4. e.type \in TxType /\ e.amount \in Int
    BY DEF Entry
  <2>5. balance'[a] = TotalOf(Append(l, e), TxType)
    BY <2>2, <2>3, <2>4, AppendedTotal
  <2>6. lifetimeTopup'[a] - TotalOf(Append(l, e), {"topup"}) \in
          -Drift(Append(l, e), {"topup"}) .. Drift(Append(l, e), {"topup"})
    <3>1. PICK t \in Int, d \in Nat : t = TotalOf(l, {"topup"}) /\ d = Drift(l, {"topup"})
      BY AppendedTotal
    <3>2. CASE e.type = "topup"
      <4>1. /\ TotalOf(Append(l, e), {"topup"}) = t + e.amount
            /\ Drift(Append(l, e), {"topup"}) = d + 50
        BY <3>1, <3>2, AppendedTotal
      <4>2. Cents(top + e.amount) - (t + e.amount) \in -(d + 50) .. (d + 50)
        <5>1. top - t \in -d .. d /\ top \in Int
          BY <2>3, <3>1
        <5> QED
          BY <2>4, <5>1, DriftGrows
      <4> QED
        BY <2>2, <3>2, <4>1, <4>2
    <3>3. CASE e.type # "topup"
      <4>1. /\ TotalOf(Append(l, e), {"topup"}) = t
            /\ Drift(Append(l, e), {"topup"}) = d
        BY <3>1, <3>3, AppendedTotal
      <4> QED
        BY <2>2, <2>3, <3>1, <3>3, <4>1
    <3> QED
      BY <3>2, <3>3
  <2>7. lifetimeSpend'[a] + TotalOf(Append(l, e), {"debit"}) \in
          -Drift(Append(l, e), {"debit"}) .. Drift(Append(l, e), {"debit"})
    <3>1. PICK t \in Int, d \in Nat : t = TotalOf(l, {"debit"}) /\ d = Drift(l, {"debit"})
      BY AppendedTotal
    <3>2. CASE e.type = "debit"
      <4>1. /\ TotalOf(Append(l, e), {"debit"}) = t + e.amount
            /\ Drift(Append(l, e), {"debit"}) = d + 50
        BY <3>1, <3>2, AppendedTotal
      <4>2. PICK p \in Int, c \in Int : p = e.amount /\ c = Cents(spent + (-p))
        BY <2>4 DEF Cents
      <4>3. spent \in Int /\ spent + t \in -d .. d
        BY <2>3, <3>1
      <4>4. c + (t + p) \in -(d + 50) .. (d + 50)
        BY <4>2, <4>3, SpendDriftGrows
      <4>5. lifetimeSpend'[a] = c
        BY <2>2, <3>2, <4>2
      <4> QED
        BY <4>1, <4>2, <4>4, <4>5
    <3>3. CASE e.type # "debit"
      <4>1. /\ TotalOf(Append(l, e), {"debit"}) = t
            /\ Drift(Append(l, e), {"debit"}) = d
        BY <3>1, <3>3, AppendedTotal
      <4> QED
        BY <2>2, <2>3, <3>1, <3>3, <4>1
    <3> QED
      BY <3>2, <3>3
  <2> QED
    BY <1>2, <2>2, <2>5, <2>6, <2>7
<1> QED
  BY <1>1, <1>2

\* What an entry adds to the redemptions of a code.
LEMMA AppendedRedemption ==
    ASSUME WalletTypeOK, NEW a \in Account, NEW e \in Entry,
           ledger' = [ledger EXCEPT ![a] = Append(@, e)], NEW c \in Code
    PROVE  /\ e.type # "redemption" \/ e.ref # c => Redemptions(c)' = Redemptions(c)
           /\ e.type = "redemption" /\ e.ref = c =>
                \E r : r \notin Redemptions(c) /\ Redemptions(c)' = Redemptions(c) \union {r}
<1>1. PICK n \in Nat : n = Len(ledger[a]) /\ DOMAIN ledger[a] = 1 .. n
  BY DEF WalletTypeOK
<1>2. \A x : x \in Redemptions(c) <=>
        \E b \in Account : \E i \in EntriesOf(b, "redemption", c) : x = <<b, i>>
  BY DEF Redemptions
<1>3. \A x : x \in Redemptions(c)' <=>
        \E b \in Account : \E i \in EntriesOf(b, "redemption", c)' : x = <<b, i>>
  BY DEF Redemptions
<1>4. ASSUME NEW b \in Account
      PROVE  /\ b # a \/ e.type # "redemption" \/ e.ref # c =>
                    EntriesOf(b, "redemption", c)' = EntriesOf(b, "redemption", c)
             /\ b = a /\ e.type = "redemption" /\ e.ref = c =>
                    EntriesOf(b, "redemption", c)'
                      = EntriesOf(b, "redemption", c) \union {Len(ledger[a]) + 1}
  <2>1. b # a \/ e.type # "redemption" \/ e.ref # c =>
          EntriesOf(b, "redemption", c)' = EntriesOf(b, "redemption", c)
    BY AppendedEntries DEF EntriesOf
  <2>2. b = a /\ e.type = "redemption" /\ e.ref = c =>
          EntriesOf(b, "redemption", c)'
            = EntriesOf(b, "redemption", c) \union {Len(ledger[a]) + 1}
    <3> SUFFICES ASSUME b = a, e.type = "redemption", e.ref = c
                 PROVE  EntriesOf(a, "redemption", c)'
                          = EntriesOf(a, "redemption", c) \union {n + 1}
      BY <1>1
    <3>1. ledger'[a] = Append(ledger[a], e) /\ ledger[a] \in Seq(Entry)
      BY DEF WalletTypeOK
    <3>2. /\ DOMAIN ledger'[a] = 1 .. n + 1
          /\ ledger'[a][n + 1] = e
          /\ \A j \in 1 .. n : ledger'[a][j] = ledger[a][j]
      BY <1>1, <3>1
    <3>3. \A j : j \in 1 .. n + 1 <=> j \in 1 .. n \/ j = n + 1
      OBVIOUS
    <3>4. \A j : j \in EntriesOf(a, "redemption", c)' <=>
                j \in EntriesOf(a, "redemption", c) \/ j = n + 1
      BY <1>1, <3>2, <3>3 DEF EntriesOf
    <3> QED
      BY <3>4
  <2> QED
    BY <2>1, <2>2
<1>5. CASE e.type # "redemption" \/ e.ref # c
  <2>1. \A b \in Account : EntriesOf(b, "redemption", c)' = EntriesOf(b, "redemption", c)
    BY <1>4, <1>5
  <2> QED
    BY <1>2, <1>3, <1>5, <2>1
<1>6. CASE e.type = "redemption" /\ e.ref = c
  <2>1. \A b \in Account :
          EntriesOf(b, "redemption", c)'
            = EntriesOf(b, "redemption", c) \union IF b = a THEN {n + 1} ELSE {}
    <3> SUFFICES ASSUME NEW b \in Account
                 PROVE  EntriesOf(b, "redemption", c)'
                          = EntriesOf(b, "redemption", c) \union IF b = a THEN {n + 1} ELSE {}
      OBVIOUS
    <3>1. CASE b = a
      BY <1>1, <1>4, <1>6, <3>1
    <3>2. CASE b # a
      BY <1>4, <3>2
    <3> QED
      BY <3>1, <3>2
  <2>2. <<a, n + 1>> \notin Redemptions(c)
    <3>1. n + 1 \notin EntriesOf(a, "redemption", c)
      BY <1>1 DEF EntriesOf
    <3> QED
      BY <1>2, <3>1
  <2>3. \A x : x \in Redemptions(c)' <=> x \in Redemptions(c) \/ x = <<a, n + 1>>
    BY <1>2, <1>3, <2>1
  <2>4. Redemptions(c)' = Redemptions(c) \union {<<a, n + 1>>}
    BY <2>3
  <2> QED
    BY <1>6, <2>2, <2>4
<1> QED
  BY <1>5, <1>6

RedemptionsIInv ==
    /\ \A c \in Code : IsFiniteSet(Redemptions(c))
    /\ RedemptionsCounted

LEMMA RedemptionsStep ==
    WalletTypeOK /\ RedemptionsIInv /\ [WalletNext]_walletVars => RedemptionsIInv'
<1> SUFFICES ASSUME WalletTypeOK, RedemptionsIInv, [WalletNext]_walletVars
             PROVE  RedemptionsIInv'
  OBVIOUS
<1> USE WalletAssumption
<1>1. ASSUME UNCHANGED <<ledger, usedCount>>
      PROVE  RedemptionsIInv'
  <2>1. \A c \in Code : Redemptions(c)' = Redemptions(c)
    BY <1>1 DEF Redemptions, EntriesOf
  <2> QED
    BY <1>1, <2>1 DEF RedemptionsIInv, RedemptionsCounted
<1>2. ASSUME NEW a \in Account, NEW e \in Entry, e.type # "redemption", Moved(a, e),
             UNCHANGED usedCount
      PROVE  RedemptionsIInv'
  <2>1. \A c \in Code : Redemptions(c)' = Redemptions(c)
    BY <1>2, AppendedRedemption DEF Moved
  <2> QED
    BY <1>2, <2>1 DEF RedemptionsIInv, RedemptionsCounted
<1>3. ASSUME NEW a \in Account, NEW amt \in Amount, NEW ref \in Ref \union {NoRef},
             NEW t \in CreditType, Credit(a, t, amt, ref)
      PROVE  RedemptionsIInv'
  <2>1. NewEntry(a, t, amt, ref) \in Entry /\ NewEntry(a, t, amt, ref).type # "redemption"
    BY NewEntryType DEF TxType, NewEntry, CreditType
  <2> QED
    BY <1>2, <1>3, <2>1, CreditMoves DEF Credit
<1>4. ASSUME NEW a \in Account, NEW amt \in Amount, NEW ref \in Ref \union {NoRef},
             Debit(a, amt, ref)
      PROVE  RedemptionsIInv'
  <2>1. /\ NewEntry(a, "debit", -amt, ref) \in Entry
        /\ NewEntry(a, "debit", -amt, ref).type # "redemption"
    BY NewEntryType DEF TxType, NewEntry
  <2> QED
    BY <1>2, <1>4, <2>1, DebitMoves DEF Debit
<1>5. ASSUME NEW a \in Account, NEW c \in Code, RedeemCode(a, c)
      PROVE  RedemptionsIInv'
  <2> DEFINE e == NewEntry(a, "redemption", RewardValue[c], c)
  <2>1. e \in Entry /\ e.type = "redemption" /\ e.ref = c
    BY NewEntryType DEF TxType, NewEntry
  <2>2. ledger' = [ledger EXCEPT ![a] = Append(@, e)]
    BY <1>5 DEF RedeemCode
  <2> HIDE DEF e
  <2>3. \A d \in Code \ {c} : Redemptions(d)' = Redemptions(d) /\ usedCount'[d] = usedCount[d]
    BY <1>5, <2>1, <2>2, AppendedRedemption DEF RedeemCode, WalletTypeOK
  <2>4. PICK r : r \notin Redemptions(c) /\ Redemptions(c)' = Redemptions(c) \union {r}
    BY <2>1, <2>2, AppendedRedemption
  <2>5. /\ IsFiniteSet(Redemptions(c)')
        /\ Cardinality(Redemptions(c)') = Cardinality(Redemptions(c)) + 1
    BY <2>4, FS_AddElement DEF RedemptionsIInv
  <2>6. usedCount'[c] = usedCount[c] + 1 /\ usedCount[c] < MaxUses[c]
    BY <1>5 DEF RedeemCode, Redeemable, WalletTypeOK
  <2>7. Cardinality(Redemptions(c)') = usedCount'[c] /\ usedCount'[c] <= MaxUses[c]
    BY <2>5, <2>6 DEF RedemptionsIInv, RedemptionsCounted, WalletTypeOK
  <2> QED
    BY <2>3, <2>5, <2>7 DEF RedemptionsIInv, RedemptionsCounted
<1> QED
  BY <1>1, <1>3, <1>4, <1>5 DEF WalletNext, GetOrCreate, walletVars

LEMMA TotalsStep == WalletTypeOK /\ LifetimeTotals /\ [WalletNext]_walletVars => LifetimeTotals'
<1> SUFFICES ASSUME WalletTypeOK, LifetimeTotals, [WalletNext]_walletVars
             PROVE  LifetimeTotals'
  OBVIOUS
<1> USE WalletAssumption
<1>1. ASSUME UNCHANGED <<balance, lifetimeTopup, lifetimeSpend, ledger>>
      PROVE  LifetimeTotals'
  BY <1>1 DEF LifetimeTotals
<1>2. ASSUME NEW a \in Account, NEW amt \in Amount, NEW ref \in Ref \union {NoRef},
             NEW t \in CreditType, Credit(a, t, amt, ref)
      PROVE  LifetimeTotals'
  <2>1. /\ NewEntry(a, t, amt, ref) \in Entry
        /\ NewEntry(a, t, amt, ref).type = t /\ t # "debit"
        /\ NewEntry(a, t, amt, ref).amount = amt
        /\ NewEntry(a, t, amt, ref).balanceAfter = balance[a] + amt
    BY NewEntryType DEF TxType, NewEntry, CreditType
  <2>2. Totalled(a, NewEntry(a, t, amt, ref))
    BY <1>2, <2>1, CreditMoves DEF Credit, Totalled
  <2> QED
    BY <2>1, <2>2, TotalsExtend
<1>3. ASSUME NEW a \in Account, NEW amt \in Amount, NEW ref \in Ref \union {NoRef},
             Debit(a, amt, ref)
      PROVE  LifetimeTotals'
  <2>1. /\ NewEntry(a, "debit", -amt, ref) \in Entry
        /\ NewEntry(a, "debit", -amt, ref).type = "debit"
        /\ NewEntry(a, "debit", -amt, ref).amount = -amt
        /\ NewEntry(a, "debit", -amt, ref).balanceAfter = balance[a] + (-amt)
        /\ -(-amt) = amt
    BY NewEntryType DEF TxType, NewEntry
  <2>2. Totalled(a, NewEntry(a, "debit", -amt, ref))
    BY <1>3, <2>1, DebitMoves DEF Debit, Totalled
  <2> QED
    BY <2>1, <2>2, TotalsExtend
<1>4. ASSUME NEW a \in Account, NEW c \in Code, RedeemCode(a, c)
      PROVE  LifetimeTotals'
  <2> DEFINE e == NewEntry(a, "redemption", RewardValue[c], c)
  <2>1. e \in Entry /\ e.type = "redemption" /\ e.balanceAfter = balance[a] + e.amount
    BY NewEntryType DEF TxType, NewEntry
  <2>2. Totalled(a, e)
    BY <1>4, <2>1, RedeemMoves DEF RedeemCode, Totalled
  <2> QED
    BY <2>1, <2>2, TotalsExtend
<1> QED
  BY <1>1, <1>2, <1>3, <1>4 DEF WalletNext, GetOrCreate, walletVars

\* used_count never leaves the number of redemptions and never passes max_uses, and
\* balance and lifetime columns follow the entries of the ledger to within the
\* rounding of each, for any number of them.
THEOREM TotalsCorrect == WalletSpec => []TotalsAgree
<1>1. WalletInit => WalletTypeOK
  BY DEF WalletInit, WalletTypeOK
<1>2. WalletInit => RedemptionsIInv
  <2> SUFFICES ASSUME WalletInit
               PROVE  RedemptionsIInv
    OBVIOUS
  <2>1. \A c \in Code : Redemptions(c) = {}
    BY DEF WalletInit, Redemptions, EntriesOf
  <2>2. IsFiniteSet({}) /\ Cardinality({}) = 0
    BY FS_EmptySet
  <2>3. \A c \in Code : usedCount[c] = 0 /\ 0 <= MaxUses[c]
    BY WalletAssumption DEF WalletInit
  <2> QED
    BY <2>1, <2>2, <2>3 DEF WalletInit, RedemptionsIInv, RedemptionsCounted
<1>3. WalletInit => LifetimeTotals
  <2> SUFFICES ASSUME WalletInit
               PROVE  LifetimeTotals
    OBVIOUS
  <2>1. \A Type : TotalOf(<<>>, Type) = 0
    <3>1. Len(<<>>) = 0
      OBVIOUS
    <3> QED
      BY <3>1, SumSteps DEF TotalOf
  <2>2. \A Type : Drift(<<>>, Type) = 0
    <3>1. \A Type : EntriesWith(<<>>, Type) = {}
      BY DEF EntriesWith
    <3>2. Cardinality({}) = 0
      BY FS_EmptySet
    <3>3. 50 * 0 = 0
      OBVIOUS
    <3>4. ASSUME NEW Type
          PROVE  Drift(<<>>, Type) = 0
      <4>1. Cardinality(EntriesWith(<<>>, Type)) = 0
        BY <3>1, <3>2
      <4> QED
        BY <3>3, <4>1 DEF Drift
    <3> QED
      BY <3>4
  <2>3. /\ \A a \in Account : ledger[a] = <<>> /\ balance[a] = 0
        /\ \A a \in Account : lifetimeTopup[a] = 0 /\ lifetimeSpend[a] = 0
    BY DEF WalletInit
  <2>4. 0 - 0 \in -0 .. 0 /\ 0 + 0 \in -0 .. 0
    OBVIOUS
  <2> QED
    BY <2>1, <2>2, <2>3, <2>4 DEF LifetimeTotals
<1>4. RedemptionsIInv /\ LifetimeTotals => TotalsAgree
  BY DEF RedemptionsIInv, TotalsAgree
<1> QED
  BY <1>1, <1>2, <1>3, <1>4, WalletTypeStep, RedemptionsStep, TotalsStep, PTL DEF WalletSpec

\* "Double-spend protection" (WalletRepo.Debit): no balance is ever negative, and what
\* was debited from a wallet is covered by what was credited to it.
THEOREM BalanceSafe == WalletSpec => []BalanceNeverNegative
<1>1. NoneBelowZero /\ TotalsAgree => BalanceNeverNegative
  BY DEF NoneBelowZero, TotalsAgree, LifetimeTotals, BalanceNeverNegative
<1> QED
  BY <1>1, BalancesStay, TotalsCorrect, PTL
=============================================================================
