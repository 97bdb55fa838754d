--------------------------- MODULE WalletTxProofs ---------------------------
(***************************************************************************)
(* Proofs about the database transactions of the wallet: row locks and the *)
(* re-check in the UPDATE make each of them one atomic step of             *)
(* WalletLedger, for any number of sessions.                               *)
(***************************************************************************)
EXTENDS WalletTx, WalletLedgerProofs

-----------------------------------------------------------------------------
(* The invariant *)

\* What a session has locked, read and computed in its transaction holds until
\* it ends it.
Pending(s) ==
    LET t == tx[s]
        call == t.call
    IN /\ t.pc = "lockCode" => call.op = "redeem"
       /\ t.pc \in {"update", "commit"} =>
            call.acct \in walletRows /\ lockedBy[call.acct] = s
       /\ t.pc \in {"lockWallet", "update", "commit"} /\ call.op = "redeem" =>
            /\ lockedBy[call.ref] = s
            /\ t.seenUsed = usedCount[call.ref]
            /\ Redeemable(call.ref, usedCount[call.ref])
       /\ t.pc = "commit" =>
            /\ t.after = balance[call.acct] + Change(call)
            /\ call.op = "debit" => Sufficient(balance[call.acct], call.amount)

\* The ledgers have room for the transactions that were begun.
RoomLeft ==
    \A a \in Account : Len(ledger[a]) + Cardinality(InFlight(a)) <= MaxEntries[a]

TxIInv ==
    /\ TxTypeOK
    /\ \A s \in Session : Pending(s)
    /\ RoomLeft

LEMMA CallFields ==
    ASSUME NEW call \in Call
    PROVE  /\ call.acct \in Account /\ call.amount \in Nat
           /\ call.op = "credit" =>
                call.amount \in Amount /\ call.type \in CreditType /\ call.ref \in Ref \union {NoRef}
           /\ call.op = "debit" =>
                call.amount \in Amount /\ call.type = "debit" /\ call.ref \in Ref \union {NoRef}
           /\ call.op = "redeem" =>
                /\ call.ref \in Code /\ call.type = "redemption"
                /\ call.amount = RewardValue[call.ref]
           /\ call.op \in {"credit", "debit", "redeem"}
<1>1. CASE call \in CreditCall
  BY <1>1, WalletAssumption DEF CreditCall
<1>2. CASE call \in DebitCall
  BY <1>2, WalletAssumption DEF DebitCall
<1>3. CASE call \in RedeemCall
  BY <1>3, WalletAssumption DEF RedeemCall
<1> QED
  BY <1>1, <1>2, <1>3 DEF Call

LEMMA RunningTx ==
    ASSUME TxTypeOK, NEW s \in Session, tx[s] # Idle
    PROVE  /\ tx[s] \in [pc : {"lockCode", "lockWallet", "update", "commit"}, call : Call,
                         seenUsed : Nat, seen : Int, after : Int]
           /\ tx[s].call \in Call
BY DEF TxTypeOK, Tx

\* A step of session s leaves the others' transactions as they are when it
\* respects their locks.
LEMMA OthersPending ==
    ASSUME TxIInv, NEW s \in Session,
           \A u \in Session \ {s} : tx'[u] = tx[u],
           walletRows \subseteq walletRows',
           \A r \in Row : lockedBy[r] \in Session \ {s} => lockedBy'[r] = lockedBy[r],
           \A a \in Account : lockedBy[a] \in Session \ {s} => balance'[a] = balance[a],
           \A c \in Code : lockedBy[c] \in Session \ {s} => usedCount'[c] = usedCount[c]
    PROVE  \A u \in Session \ {s} : Pending(u)'
<1> SUFFICES ASSUME NEW u \in Session \ {s}
             PROVE  Pending(u)'
  OBVIOUS
<1>1. Pending(u) /\ tx'[u] = tx[u]
  BY DEF TxIInv
<1>2. CASE tx[u] = Idle
  BY <1>1, <1>2 DEF Pending, Idle
<1>3. CASE tx[u] # Idle
  <2>1. PICK call \in Call : call = tx[u].call
    BY <1>3, RunningTx DEF TxIInv
  <2>2. /\ call.acct \in Account /\ call.acct \in Row
        /\ call.op = "redeem" => call.ref \in Code /\ call.ref \in Row
    BY <2>1, CallFields DEF Row
  <2>3. tx[u].pc \in {"update", "commit"} =>
          /\ call.acct \in walletRows' /\ lockedBy'[call.acct] = u
          /\ balance'[call.acct] = balance[call.acct]
    BY <1>1, <2>1, <2>2 DEF Pending
  <2>4. tx[u].pc \in {"lockWallet", "update", "commit"} /\ call.op = "redeem" =>
          lockedBy'[call.ref] = u /\ usedCount'[call.ref] = usedCount[call.ref]
    BY <1>1, <2>1, <2>2 DEF Pending
  <2> QED
    BY <1>1, <2>1, <2>3, <2>4 DEF Pending, Change, Redeemable, Sufficient
<1> QED
  BY <1>2, <1>3

-----------------------------------------------------------------------------
(* A transaction is one step of the wallet *)

LEMMA CommitIsAtomic ==
    ASSUME TxIInv, NEW s \in Session, Commit(s)
    PROVE  WalletNext
<1>1. tx[s] # Idle /\ tx[s].pc = "commit"
  BY DEF Commit, Idle
<1>2. PICK call \in Call : call = tx[s].call
  BY <1>1, RunningTx DEF TxIInv
<1>3. PICK a \in Account : a = call.acct
  BY CallFields
<1>4. /\ a \in walletRows
      /\ tx[s].after = balance[a] + Change(call)
      /\ call.op = "debit" => Sufficient(balance[a], call.amount)
      /\ call.op = "redeem" =>
           tx[s].seenUsed = usedCount[call.ref] /\ Redeemable(call.ref, usedCount[call.ref])
  BY <1>1, <1>2, <1>3 DEF TxIInv, Pending
<1>5. Len(ledger[a]) < MaxEntries[a]
  <2>1. s \in InFlight(a) /\ InFlight(a) \in SUBSET Session
    BY <1>1, <1>2, <1>3 DEF InFlight
  <2>2. IsFiniteSet(InFlight(a)) /\ Cardinality(InFlight(a)) \in Nat
    BY <2>1, SessionAssumption, FS_Subset, FS_CardinalityType
  <2>3. Cardinality(InFlight(a)) # 0
    BY <2>1, <2>2, FS_EmptySet
  <2>4. Len(ledger[a]) \in Nat
    BY DEF TxIInv, TxTypeOK, WalletTypeOK
  <2> QED
    BY <2>2, <2>3, <2>4, WalletAssumption DEF TxIInv, RoomLeft
<1>6. /\ balance' = [balance EXCEPT ![a] = balance[a] + Change(call)]
      /\ lifetimeTopup' = TopupAfter(call)
      /\ lifetimeSpend' = SpendAfter(call)
      /\ ledger' = [ledger EXCEPT ![a] = Append(@, NewEntry(a, call.type, Change(call), call.ref))]
      /\ usedCount' = UsedAfter(s)
      /\ walletRows' = walletRows
  BY <1>2, <1>3, <1>4 DEF Commit, NewEntry
<1>7. balance[a] \in Int /\ call.amount \in Int
  BY CallFields DEF TxIInv, TxTypeOK, WalletTypeOK
<1>8. CASE call.op = "credit"
  <2>1. Change(call) = call.amount /\ SpendAfter(call) = lifetimeSpend /\ UsedAfter(s) = usedCount
    BY <1>2, <1>8 DEF Change, SpendAfter, UsedAfter
  <2>2. Credit(a, call.type, call.amount, call.ref)
    BY <1>3, <1>4, <1>5, <1>6, <1>8, <2>1 DEF Credit, TopupAfter
  <2> QED
    BY <1>8, <2>2, CallFields DEF WalletNext
<1>9. CASE call.op = "debit"
  <2>1. /\ Change(call) = -call.amount /\ TopupAfter(call) = lifetimeTopup
        /\ UsedAfter(s) = usedCount /\ call.type = "debit"
        /\ balance[a] + Change(call) = balance[a] - call.amount
    BY <1>2, <1>7, <1>9, CallFields DEF Change, TopupAfter, UsedAfter
  <2>2. Debit(a, call.amount, call.ref)
    BY <1>3, <1>4, <1>5, <1>6, <1>9, <2>1 DEF Debit, SpendAfter
  <2> QED
    BY <1>9, <2>2, CallFields DEF WalletNext
<1>10. CASE call.op = "redeem"
  <2>1. /\ Change(call) = RewardValue[call.ref] /\ call.type = "redemption" /\ call.ref \in Code
        /\ TopupAfter(call) = lifetimeTopup /\ SpendAfter(call) = lifetimeSpend
        /\ UsedAfter(s) = [usedCount EXCEPT ![call.ref] = usedCount[call.ref] + 1]
    BY <1>2, <1>4, <1>10, CallFields DEF Change, TopupAfter, SpendAfter, UsedAfter
  <2>2. RedeemCode(a, call.ref)
    BY <1>4, <1>5, <1>6, <1>10, <2>1 DEF RedeemCode
  <2> QED
    BY <2>1, <2>2 DEF WalletNext
<1> QED
  BY <1>8, <1>9, <1>10, CallFields

LEMMA NextIsWalletStep ==
    ASSUME TxIInv, [TxNext]_allVars
    PROVE  [WalletNext]_walletVars
<1>1. ASSUME NEW s \in Session, Commit(s)
      PROVE  WalletNext
  BY <1>1, CommitIsAtomic
<1>2. ASSUME NEW s \in Session,
             \/ \E call \in Call : Begin(s, call)
             \/ LockCode(s) \/ LockWallet(s) \/ Update(s) \/ Rollback(s)
      PROVE  UNCHANGED walletVars
  BY <1>2 DEF Begin, LockCode, LockWallet, Update, Rollback
<1>3. ASSUME NEW c \in Code, CodeExpires(c)
      PROVE  UNCHANGED walletVars
  BY <1>3 DEF CodeExpires
<1>4. ASSUME NEW a \in Account, CreateWallet(a)
      PROVE  WalletNext
  BY <1>4 DEF CreateWallet, WalletNext
<1>5. CASE UNCHANGED allVars
  BY <1>5 DEF allVars
<1> QED
  BY <1>1, <1>2, <1>3, <1>4, <1>5 DEF TxNext, TxStep

-----------------------------------------------------------------------------
(* The invariant is kept *)

LEMMA TxTypeStep ==
    ASSUME TxIInv, [TxNext]_allVars
    PROVE  TxTypeOK'
<1> USE DEF TxIInv
<1>1. WalletTypeOK'
  BY NextIsWalletStep, WalletTypeStep DEF TxTypeOK
<1>2. ASSUME NEW s \in Session, EndTx(s)
      PROVE  tx' \in [Session -> Tx] /\ lockedBy' \in [Row -> Session \union {NoSession}]
  BY <1>2 DEF EndTx, TxTypeOK, Tx
<1>3. ASSUME NEW s \in Session, NEW call \in Call, Begin(s, call)
      PROVE  tx' \in [Session -> Tx] /\ lockedBy' \in [Row -> Session \union {NoSession}]
  BY <1>3 DEF Begin, TxTypeOK, Tx
<1>4. ASSUME NEW s \in Session, LockCode(s)
      PROVE  tx' \in [Session -> Tx] /\ lockedBy' \in [Row -> Session \union {NoSession}]
  <2>1. PICK call \in Call : call = tx[s].call /\ call.op = "redeem" /\ call.ref \in Code
    <3>1. tx[s] # Idle /\ tx[s].pc = "lockCode"
      BY <1>4 DEF LockCode, Idle
    <3> QED
      BY <3>1, RunningTx, CallFields DEF Pending
  <2>2. usedCount[call.ref] \in Nat
    BY <2>1 DEF TxTypeOK, WalletTypeOK
  <2>3. tx[s] \in [pc : {"lockCode", "lockWallet", "update", "commit"}, call : Call,
                    seenUsed : Nat, seen : Int, after : Int]
    BY <1>4, RunningTx DEF LockCode, Idle
  <2>4. CASE tx' = [tx EXCEPT ![s].pc = "lockWallet", ![s].seenUsed = usedCount[call.ref]]
             /\ lockedBy' = [lockedBy EXCEPT ![call.ref] = s]
    BY <2>1, <2>2, <2>3, <2>4 DEF TxTypeOK, Tx, Row
  <2> QED
    BY <1>2, <1>4, <2>1, <2>4 DEF LockCode
<1>5. ASSUME NEW s \in Session, LockWallet(s)
      PROVE  tx' \in [Session -> Tx] /\ lockedBy' \in [Row -> Session \union {NoSession}]
  <2>1. tx[s] \in [pc : {"lockCode", "lockWallet", "update", "commit"}, call : Call,
                    seenUsed : Nat, seen : Int, after : Int]
    BY <1>5, RunningTx DEF LockWallet, Idle
  <2>2. tx[s].call.acct \in Account /\ balance[tx[s].call.acct] \in Int
    BY <2>1, CallFields DEF TxTypeOK, WalletTypeOK
  <2>3. CASE tx' = [tx EXCEPT ![s].pc = "update", ![s].seen = balance[tx[s].call.acct]]
             /\ lockedBy' = [lockedBy EXCEPT ![tx[s].call.acct] = s]
    BY <2>1, <2>2, <2>3 DEF TxTypeOK, Tx, Row
  <2> QED
    BY <1>2, <1>5, <2>3 DEF LockWallet
<1>6. ASSUME NEW s \in Session, Update(s)
      PROVE  tx' \in [Session -> Tx] /\ lockedBy' \in [Row -> Session \union {NoSession}]
  <2>1. tx[s] \in [pc : {"lockCode", "lockWallet", "update", "commit"}, call : Call,
                    seenUsed : Nat, seen : Int, after : Int]
    BY <1>6, RunningTx DEF Update, Idle
  <2>2. balance[tx[s].call.acct] + Change(tx[s].call) \in Int
    BY <2>1, CallFields DEF TxTypeOK, WalletTypeOK, Change
  <2>3. CASE tx' = [tx EXCEPT ![s].pc = "commit",
                              ![s].after = balance[tx[s].call.acct] + Change(tx[s].call)]
             /\ UNCHANGED lockedBy
    BY <2>1, <2>2, <2>3 DEF TxTypeOK, Tx
  <2> QED
    BY <1>2, <1>6, <2>3 DEF Update
<1>7. ASSUME NEW s \in Session, Commit(s) \/ Rollback(s)
      PROVE  tx' \in [Session -> Tx] /\ lockedBy' \in [Row -> Session \union {NoSession}]
  BY <1>2, <1>7 DEF Commit, Rollback
<1>8. tx' \in [Session -> Tx] /\ lockedBy' \in [Row -> Session \union {NoSession}]
  <2>1. CASE UNCHANGED <<tx, lockedBy>>
    BY <2>1 DEF TxTypeOK
  <2> QED
    BY <1>3, <1>4, <1>5, <1>6, <1>7, <2>1
    DEF TxNext, TxStep, CodeExpires, CreateWallet, txVars, allVars
<1>9. expiredCodes' \subseteq Code
  BY DEF TxNext, TxStep, Begin, LockCode, LockWallet, Update, Commit, Rollback, CodeExpires,
         CreateWallet, txVars, allVars, TxTypeOK
<1> QED
  BY <1>1, <1>8, <1>9 DEF TxTypeOK

\* Every step keeps what a session relies on, its own and the others'.
LEMMA PendingStep ==
    ASSUME TxIInv, [TxNext]_allVars
    PROVE  \A s \in Session : Pending(s)'
<1> USE SessionAssumption DEF TxIInv
<1>1. ASSUME NEW s \in Session, EndTx(s), UNCHANGED walletVars
      PROVE  \A u \in Session : Pending(u)'
  <2>1. /\ tx'[s] = Idle
        /\ \A u \in Session \ {s} : tx'[u] = tx[u]
        /\ \A r \in Row : lockedBy[r] \in Session \ {s} => lockedBy'[r] = lockedBy[r]
    BY <1>1 DEF EndTx, TxTypeOK
  <2>2. Pending(s)'
    BY <2>1 DEF Pending, Idle
  <2> QED
    BY <1>1, <2>1, <2>2, OthersPending DEF walletVars
<1>2. ASSUME NEW s \in Session, NEW call \in Call, Begin(s, call)
      PROVE  \A u \in Session : Pending(u)'
  <2>1. /\ tx'[s].pc = (IF call.op = "redeem" THEN "lockCode" ELSE "lockWallet")
        /\ tx'[s].call = call
        /\ \A u \in Session \ {s} : tx'[u] = tx[u]
        /\ UNCHANGED <<walletVars, lockedBy>>
    BY <1>2 DEF Begin, TxTypeOK
  <2>2. Pending(s)'
    BY <2>1 DEF Pending
  <2> QED
    BY <2>1, <2>2, OthersPending DEF walletVars
<1>3. ASSUME NEW s \in Session, LockCode(s)
      PROVE  \A u \in Session : Pending(u)'
  <2>1. /\ tx[s].pc = "lockCode" /\ tx[s].call \in Call /\ tx[s].call.op = "redeem"
        /\ tx[s] \in [pc : {"lockCode", "lockWallet", "update", "commit"}, call : Call,
                       seenUsed : Nat, seen : Int, after : Int]
    BY <1>3, RunningTx DEF LockCode, Idle, Pending
  <2>2. PICK c \in Code : c = tx[s].call.ref
    BY <2>1, CallFields
  <2>3. CASE EndTx(s)
    BY <1>1, <1>3, <2>3 DEF LockCode
  <2>4. CASE ~ EndTx(s)
    <3>1. /\ MayLock(s, c) /\ Redeemable(c, usedCount[c])
          /\ tx' = [tx EXCEPT ![s].pc = "lockWallet", ![s].seenUsed = usedCount[c]]
          /\ lockedBy' = [lockedBy EXCEPT ![c] = s]
          /\ UNCHANGED walletVars
      BY <1>3, <2>2, <2>4 DEF LockCode
    <3>2. /\ tx'[s].pc = "lockWallet" /\ tx'[s].seenUsed = usedCount[c]
          /\ tx'[s].call = tx[s].call
          /\ \A u \in Session \ {s} : tx'[u] = tx[u]
      BY <2>1, <3>1 DEF TxTypeOK
    <3>3. lockedBy'[c] = s /\ \A r \in Row : r # c => lockedBy'[r] = lockedBy[r]
      BY <3>1 DEF TxTypeOK, Row
    <3>4. Pending(s)'
      BY <2>2, <3>1, <3>2, <3>3 DEF Pending, walletVars, Redeemable
    <3>5. \A r \in Row : lockedBy[r] \in Session \ {s} => lockedBy'[r] = lockedBy[r]
      BY <3>1, <3>3 DEF MayLock
    <3> QED
      BY <3>1, <3>2, <3>4, <3>5, OthersPending DEF walletVars
  <2> QED
    BY <2>3, <2>4
<1>4. ASSUME NEW s \in Session, LockWallet(s)
      PROVE  \A u \in Session : Pending(u)'
  <2>1. /\ tx[s].pc = "lockWallet" /\ tx[s].call \in Call
        /\ tx[s] \in [pc : {"lockCode", "lockWallet", "update", "commit"}, call : Call,
                       seenUsed : Nat, seen : Int, after : Int]
    BY <1>4, RunningTx DEF LockWallet, Idle
  <2>2. PICK a \in Account : a = tx[s].call.acct
    BY <2>1, CallFields
  <2>3. CASE EndTx(s)
    BY <1>1, <1>4, <2>3 DEF LockWallet
  <2>4. CASE ~ EndTx(s)
    <3>1. /\ MayLock(s, a) /\ a \in walletRows
          /\ tx' = [tx EXCEPT ![s].pc = "update", ![s].seen = balance[a]]
          /\ lockedBy' = [lockedBy EXCEPT ![a] = s]
          /\ UNCHANGED walletVars
      BY <1>4, <2>2, <2>4 DEF LockWallet
    <3>2. /\ tx'[s].pc = "update" /\ tx'[s].seenUsed = tx[s].seenUsed
          /\ tx'[s].call = tx[s].call
          /\ \A u \in Session \ {s} : tx'[u] = tx[u]
      BY <2>1, <3>1 DEF TxTypeOK
    <3>3. lockedBy'[a] = s /\ \A r \in Row : r # a => lockedBy'[r] = lockedBy[r]
      BY <3>1 DEF TxTypeOK, Row
    <3>4. Pending(s)'
      <4>1. tx[s].call.op = "redeem" =>
              /\ lockedBy[tx[s].call.ref] = s /\ tx[s].call.ref \in Row
              /\ tx[s].seenUsed = usedCount[tx[s].call.ref]
              /\ Redeemable(tx[s].call.ref, usedCount[tx[s].call.ref])
        BY <2>1, CallFields DEF Pending, Row
      <4> QED
        BY <2>2, <3>1, <3>2, <3>3, <4>1 DEF Pending, walletVars, Redeemable
    <3>5. \A r \in Row : lockedBy[r] \in Session \ {s} => lockedBy'[r] = lockedBy[r]
      BY <3>1, <3>3 DEF MayLock
    <3> QED
      BY <3>1, <3>2, <3>4, <3>5, OthersPending DEF walletVars
  <2> QED
    BY <2>3, <2>4
<1>5. ASSUME NEW s \in Session, Update(s)
      PROVE  \A u \in Session : Pending(u)'
  <2>1. /\ tx[s].pc = "update" /\ tx[s].call \in Call
        /\ tx[s] \in [pc : {"lockCode", "lockWallet", "update", "commit"}, call : Call,
                       seenUsed : Nat, seen : Int, after : Int]
    BY <1>5, RunningTx DEF Update, Idle
  <2>2. PICK a \in Account : a = tx[s].call.acct
    BY <2>1, CallFields
  <2>3. CASE EndTx(s)
    BY <1>1, <1>5, <2>3 DEF Update
  <2>4. CASE ~ EndTx(s)
    <3>1. /\ tx[s].call.op = "debit" => Sufficient(balance[a], tx[s].call.amount)
          /\ tx' = [tx EXCEPT ![s].pc = "commit", ![s].after = balance[a] + Change(tx[s].call)]
          /\ UNCHANGED <<walletVars, lockedBy>>
      BY <1>5, <2>2, <2>4 DEF Update
    <3>2. /\ tx'[s].pc = "commit" /\ tx'[s].seenUsed = tx[s].seenUsed
          /\ tx'[s].call = tx[s].call /\ tx'[s].after = balance[a] + Change(tx[s].call)
          /\ \A u \in Session \ {s} : tx'[u] = tx[u]
      BY <2>1, <3>1 DEF TxTypeOK
    <3>3. Pending(s)
      OBVIOUS
    <3>4. Pending(s)'
      BY <2>1, <2>2, <3>1, <3>2, <3>3 DEF Pending, walletVars, Redeemable, Change, Sufficient
    <3> QED
      BY <3>1, <3>2, <3>4, OthersPending DEF walletVars
  <2> QED
    BY <2>3, <2>4
<1>6. ASSUME NEW s \in Session, Commit(s)
      PROVE  \A u \in Session : Pending(u)'
  <2>1. /\ tx[s].pc = "commit" /\ tx[s].call \in Call
    BY <1>6, RunningTx DEF Commit, Idle
  <2>2. PICK a \in Account : a = tx[s].call.acct
    BY <2>1, CallFields
  <2>3. lockedBy[a] = s /\ (tx[s].call.op = "redeem" => lockedBy[tx[s].call.ref] = s)
    BY <2>1, <2>2 DEF Pending
  <2>4. /\ walletRows' = walletRows
        /\ \A b \in Account : b # a => balance'[b] = balance[b]
        /\ \A c \in Code : (tx[s].call.op = "redeem" => c # tx[s].call.ref) =>
             usedCount'[c] = usedCount[c]
    BY <1>6, <2>2 DEF Commit, UsedAfter, TxTypeOK, WalletTypeOK
  <2>5. /\ tx'[s] = Idle
        /\ \A u \in Session \ {s} : tx'[u] = tx[u]
        /\ \A r \in Row : lockedBy[r] \in Session \ {s} => lockedBy'[r] = lockedBy[r]
    BY <1>6 DEF Commit, EndTx, TxTypeOK
  <2>6. Pending(s)'
    BY <2>5 DEF Pending, Idle
  <2>7. \A u \in Session \ {s} : Pending(u)'
    BY <2>3, <2>4, <2>5, OthersPending
  <2> QED
    BY <2>6, <2>7
<1>7. ASSUME NEW s \in Session, Rollback(s)
      PROVE  \A u \in Session : Pending(u)'
  BY <1>1, <1>7 DEF Rollback
<1>8. ASSUME walletRows \subseteq walletRows', UNCHANGED <<balance, usedCount, tx, lockedBy>>
      PROVE  \A u \in Session : Pending(u)'
  BY <1>8 DEF Pending, Change, Sufficient, Redeemable
<1>9. CASE \/ \E c \in Code : CodeExpires(c)
           \/ \E a \in Account : CreateWallet(a)
           \/ UNCHANGED allVars
  BY <1>8, <1>9 DEF CodeExpires, CreateWallet, GetOrCreate, allVars, txVars, walletVars
<1> QED
  BY <1>2, <1>3, <1>4, <1>5, <1>6, <1>7, <1>9 DEF TxNext, TxStep

LEMMA InFlightFinite ==
    ASSUME NEW S \in SUBSET Session
    PROVE  IsFiniteSet(S) /\ Cardinality(S) \in Nat
BY SessionAssumption, FS_Subset, FS_CardinalityType

\* MaxEntries bounds what has been written and what may still be.
LEMMA RoomStep ==
    ASSUME TxIInv, [TxNext]_allVars
    PROVE  RoomLeft'
<1> USE DEF TxIInv
<1>0. \A a \in Account : InFlight(a) \in SUBSET Session /\ Len(ledger[a]) \in Nat
  BY DEF InFlight, TxTypeOK, WalletTypeOK
<1>1. ASSUME NEW a \in Account, ledger'[a] = ledger[a], InFlight(a)' \subseteq InFlight(a)
      PROVE  Len(ledger'[a]) + Cardinality(InFlight(a)') <= MaxEntries[a]
  <2>1. /\ Cardinality(InFlight(a)) \in Nat /\ Cardinality(InFlight(a)') \in Nat
        /\ Cardinality(InFlight(a)') <= Cardinality(InFlight(a))
    BY <1>0, <1>1, InFlightFinite, FS_Subset
  <2> QED
    BY <1>0, <1>1, <2>1, WalletAssumption DEF RoomLeft
<1>2. ASSUME NEW s \in Session, NEW call \in Call, Begin(s, call), NEW a \in Account
      PROVE  Len(ledger'[a]) + Cardinality(InFlight(a)') <= MaxEntries[a]
  <2>1. /\ tx[s] = Idle /\ tx'[s] # Idle /\ tx'[s].call = call
        /\ \A u \in Session \ {s} : tx'[u] = tx[u]
        /\ ledger' = ledger
    BY <1>2 DEF Begin, TxTypeOK, Idle, walletVars
  <2>2. CASE a = call.acct
    <3>1. InFlight(a)' = InFlight(a) \union {s} /\ s \notin InFlight(a)
      BY <2>1, <2>2 DEF InFlight
    <3>2. Cardinality(InFlight(a)') = Cardinality(InFlight(a)) + 1
      BY <1>0, <3>1, InFlightFinite, FS_AddElement
    <3>3. Len(ledger[a]) + Cardinality(InFlight(a)) < MaxEntries[a]
      BY <1>2, <2>2 DEF Begin
    <3>4. Cardinality(InFlight(a)) \in Nat
      BY <1>0, InFlightFinite
    <3> QED
      BY <1>0, <2>1, <3>2, <3>3, <3>4, WalletAssumption
  <2>3. CASE a # call.acct
    <3>1. InFlight(a)' \subseteq InFlight(a)
      BY <2>1, <2>3 DEF InFlight
    <3> QED
      BY <1>1, <2>1, <3>1
  <2> QED
    BY <2>2, <2>3
<1>3. ASSUME NEW s \in Session, tx[s] # Idle, tx'[s] = Idle \/ tx'[s].call = tx[s].call,
             \A u \in Session \ {s} : tx'[u] = tx[u], NEW a \in Account
      PROVE  InFlight(a)' \subseteq InFlight(a)
  BY <1>3 DEF InFlight
<1>4. ASSUME NEW s \in Session, LockCode(s) \/ LockWallet(s) \/ Update(s) \/ Rollback(s),
             NEW a \in Account
      PROVE  Len(ledger'[a]) + Cardinality(InFlight(a)') <= MaxEntries[a]
  <2>1. tx[s] # Idle /\ ledger' = ledger
    BY <1>4 DEF LockCode, LockWallet, Update, Rollback, Idle, walletVars
  <2>2. tx[s] \in [pc : {"lockCode", "lockWallet", "update", "commit"}, call : Call,
                    seenUsed : Nat, seen : Int, after : Int]
    BY <2>1, RunningTx
  <2>3. /\ tx'[s] = Idle \/ tx'[s].call = tx[s].call
        /\ \A u \in Session \ {s} : tx'[u] = tx[u]
    <3>1. CASE EndTx(s)
      BY <3>1 DEF EndTx, TxTypeOK
    <3>2. CASE LockCode(s) /\ ~ EndTx(s)
      BY <2>2, <3>2 DEF LockCode, TxTypeOK
    <3>3. CASE LockWallet(s) /\ ~ EndTx(s)
      BY <2>2, <3>3 DEF LockWallet, TxTypeOK
    <3>4. CASE Update(s) /\ ~ EndTx(s)
      BY <2>2, <3>4 DEF Update, TxTypeOK
    <3> QED
      BY <1>4, <3>1, <3>2, <3>3, <3>4 DEF Rollback
  <2> QED
    BY <1>1, <1>3, <2>1, <2>3
<1>5. ASSUME NEW s \in Session, Commit(s), NEW a \in Account
      PROVE  Len(ledger'[a]) + Cardinality(InFlight(a)') <= MaxEntries[a]
  <2>1. /\ tx[s] # Idle /\ tx'[s] = Idle
        /\ \A u \in Session \ {s} : tx'[u] = tx[u]
    BY <1>5 DEF Commit, EndTx, Idle, TxTypeOK
  <2>2. PICK b \in Account : b = tx[s].call.acct
    BY <2>1, RunningTx, CallFields
  <2>3. CASE a = b
    <3>1. InFlight(a)' = InFlight(a) \ {s} /\ s \in InFlight(a)
      BY <2>1, <2>2, <2>3 DEF InFlight
    <3>2. Cardinality(InFlight(a)') = Cardinality(InFlight(a)) - 1
      BY <1>0, <3>1, InFlightFinite, FS_RemoveElement
    <3>3. Len(ledger'[a]) = Len(ledger[a]) + 1
      <4>1. \E e : ledger' = [ledger EXCEPT ![a] = Append(ledger[a], e)]
        BY <1>5, <2>2, <2>3 DEF Commit
      <4>2. ledger[a] \in Seq(Entry) /\ \E e : ledger'[a] = Append(ledger[a], e)
        BY <4>1 DEF TxTypeOK, WalletTypeOK
      <4> QED
        BY <4>2
    <3>4. Cardinality(InFlight(a)) \in Nat
      BY <1>0, InFlightFinite
    <3> QED
      BY <1>0, <3>2, <3>3, <3>4, WalletAssumption DEF RoomLeft
  <2>4. CASE a # b
    <3>1. ledger'[a] = ledger[a]
      BY <1>5, <2>2, <2>4 DEF Commit, TxTypeOK, WalletTypeOK
    <3> QED
      BY <1>1, <1>3, <2>1, <3>1
  <2> QED
    BY <2>3, <2>4
<1>6. ASSUME \/ \E c \in Code : CodeExpires(c)
             \/ \E b \in Account : CreateWallet(b)
             \/ UNCHANGED allVars,
             NEW a \in Account
      PROVE  Len(ledger'[a]) + Cardinality(InFlight(a)') <= MaxEntries[a]
  <2>1. UNCHANGED <<tx, ledger>>
    BY <1>6 DEF CodeExpires, CreateWallet, GetOrCreate, allVars, txVars, walletVars
  <2>2. InFlight(a)' \subseteq InFlight(a)
    BY <2>1 DEF InFlight
  <2> QED
    BY <1>1, <2>1, <2>2
<1> QED
  BY <1>2, <1>4, <1>5, <1>6 DEF TxNext, TxStep, RoomLeft

LEMMA TxInitially == TxInit => TxIInv
<1> SUFFICES ASSUME TxInit
             PROVE  TxIInv
  OBVIOUS
<1>1. TxTypeOK
  BY SessionAssumption DEF TxInit, WalletInit, TxTypeOK, WalletTypeOK, Tx
<1>2. \A s \in Session : Pending(s)
  BY DEF TxInit, Pending, Idle
<1>3. RoomLeft
  <2>1. \A a \in Account : InFlight(a) = {} /\ ledger[a] = <<>>
    BY DEF TxInit, WalletInit, InFlight
  <2>2. \A a \in Account : Cardinality(InFlight(a)) = 0 /\ Len(ledger[a]) = 0
    <3>1. Cardinality({}) = 0
      BY FS_EmptySet
    <3> SUFFICES ASSUME NEW a \in Account
                 PROVE  Cardinality(InFlight(a)) = 0 /\ Len(ledger[a]) = 0
      OBVIOUS
    <3>2. InFlight(a) = {} /\ ledger[a] = <<>>
      BY <2>1
    <3>3. Cardinality(InFlight(a)) = Cardinality({})
      BY <3>2, Zenon
    <3>4. Len(ledger[a]) = 0
      BY <3>2
    <3> QED
      BY <3>1, <3>3, <3>4, Zenon
  <2>3. \A a \in Account : 0 + 0 <= MaxEntries[a]
    BY WalletAssumption
  <2> QED
    BY <2>2, <2>3 DEF RoomLeft
<1> QED
  BY <1>1, <1>2, <1>3 DEF TxIInv

LEMMA TxIInvStep == TxIInv /\ [TxNext]_allVars => TxIInv'
BY TxTypeStep, PendingStep, RoomStep DEF TxIInv

-----------------------------------------------------------------------------
(* The row locks *)

\* A locked row is one the transaction of its holder has read: a wallet row stays
\* locked from the read to the end, a code row through the wait for the wallet row.
LocksHeld ==
    \A s \in Session, r \in Row : lockedBy[r] = s =>
        /\ r \in Account => tx[s].pc \in {"update", "commit"} /\ tx[s].call.acct = r
        /\ r \in Code => /\ tx[s].pc \in {"lockWallet", "update", "commit"}
                         /\ tx[s].call.op = "redeem" /\ tx[s].call.ref = r

\* A step of session s that keeps the others' transactions disturbs no lock of theirs.
LEMMA OthersLocks ==
    ASSUME LocksHeld, NEW s \in Session,
           \A u \in Session \ {s} : tx'[u] = tx[u],
           \A r \in Row : lockedBy'[r] \in Session \ {s} => lockedBy'[r] = lockedBy[r],
           \A r \in Row : lockedBy'[r] = s =>
               /\ r \in Account => tx'[s].pc \in {"update", "commit"} /\ tx'[s].call.acct = r
               /\ r \in Code => /\ tx'[s].pc \in {"lockWallet", "update", "commit"}
                                /\ tx'[s].call.op = "redeem" /\ tx'[s].call.ref = r
    PROVE  LocksHeld'
<1> SUFFICES ASSUME NEW u \in Session, NEW r \in Row, lockedBy'[r] = u
             PROVE  /\ r \in Account => tx'[u].pc \in {"update", "commit"} /\ tx'[u].call.acct = r
                    /\ r \in Code => /\ tx'[u].pc \in {"lockWallet", "update", "commit"}
                                     /\ tx'[u].call.op = "redeem" /\ tx'[u].call.ref = r
  BY DEF LocksHeld, Row
<1>1. CASE u = s
  BY <1>1
<1>2. CASE u # s
  <2>1. tx'[u] = tx[u] /\ lockedBy[r] = u
    BY <1>2
  <2> QED
    BY <2>1 DEF LocksHeld
<1> QED
  BY <1>1, <1>2

LEMMA LocksStep ==
    ASSUME TxIInv, LocksHeld, [TxNext]_allVars
    PROVE  LocksHeld'
<1> USE SessionAssumption DEF TxIInv
<1>1. ASSUME NEW s \in Session, EndTx(s)
      PROVE  LocksHeld'
  <2>1. /\ \A u \in Session \ {s} : tx'[u] = tx[u]
        /\ \A r \in Row : lockedBy'[r] = IF lockedBy[r] = s THEN NoSession ELSE lockedBy[r]
    BY <1>1 DEF EndTx, TxTypeOK
  <2> QED
    BY <2>1, OthersLocks
<1>2. ASSUME NEW s \in Session, NEW call \in Call, Begin(s, call)
      PROVE  LocksHeld'
  <2>1. /\ tx[s].pc = "idle" /\ lockedBy' = lockedBy
        /\ \A u \in Session \ {s} : tx'[u] = tx[u]
    BY <1>2 DEF Begin, TxTypeOK, Idle
  <2>2. \A r \in Row : lockedBy[r] # s
    BY <2>1 DEF LocksHeld, Row
  <2> QED
    BY <2>1, <2>2, OthersLocks
<1>3. ASSUME NEW s \in Session, LockCode(s)
      PROVE  LocksHeld'
  <2>1. /\ tx[s].pc = "lockCode" /\ tx[s].call \in Call /\ tx[s].call.op = "redeem"
        /\ tx[s] \in [pc : {"lockCode", "lockWallet", "update", "commit"}, call : Call,
                       seenUsed : Nat, seen : Int, after : Int]
    BY <1>3, RunningTx DEF LockCode, Idle, Pending
  <2>2. PICK c \in Code : c = tx[s].call.ref
    BY <2>1, CallFields
  <2>3. CASE ~ EndTx(s)
    <3>1. /\ tx' = [tx EXCEPT ![s].pc = "lockWallet", ![s].seenUsed = usedCount[c]]
          /\ lockedBy' = [lockedBy EXCEPT ![c] = s]
      BY <1>3, <2>2, <2>3 DEF LockCode
    <3>2. /\ tx'[s].pc = "lockWallet" /\ tx'[s].call = tx[s].call
          /\ \A u \in Session \ {s} : tx'[u] = tx[u]
      BY <2>1, <3>1 DEF TxTypeOK
    <3>3. lockedBy'[c] = s /\ \A r \in Row : r # c => lockedBy'[r] = lockedBy[r]
      BY <3>1 DEF TxTypeOK, Row
    <3>4. c \notin Account /\ \A r \in Row : lockedBy[r] # s
      BY <2>1, <2>2 DEF LocksHeld, Row
    <3> QED
      BY <2>1, <2>2, <3>2, <3>3, <3>4, OthersLocks
  <2> QED
    BY <1>1, <2>3
<1>4. ASSUME NEW s \in Session, LockWallet(s)
      PROVE  LocksHeld'
  <2>1. /\ tx[s].pc = "lockWallet" /\ tx[s].call \in Call
        /\ tx[s] \in [pc : {"lockCode", "lockWallet", "update", "commit"}, call : Call,
                       seenUsed : Nat, seen : Int, after : Int]
    BY <1>4, RunningTx DEF LockWallet, Idle
  <2>2. PICK a \in Account : a = tx[s].call.acct
    BY <2>1, CallFields
  <2>3. CASE ~ EndTx(s)
    <3>1. /\ tx' = [tx EXCEPT ![s].pc = "update", ![s].seen = balance[a]]
          /\ lockedBy' = [lockedBy EXCEPT ![a] = s]
      BY <1>4, <2>2, <2>3 DEF LockWallet
    <3>2. /\ tx'[s].pc = "update" /\ tx'[s].call = tx[s].call
          /\ \A u \in Session \ {s} : tx'[u] = tx[u]
      BY <2>1, <3>1 DEF TxTypeOK
    <3>3. lockedBy'[a] = s /\ \A r \in Row : r # a => lockedBy'[r] = lockedBy[r]
      BY <3>1 DEF TxTypeOK, Row
    <3>4. /\ a \notin Code
          /\ \A r \in Row : lockedBy[r] = s =>
               r \notin Account /\ tx[s].call.op = "redeem" /\ tx[s].call.ref = r
      BY <2>1, <2>2 DEF LocksHeld, Row
    <3> QED
      BY <2>2, <3>2, <3>3, <3>4, OthersLocks
  <2> QED
    BY <1>1, <2>3
<1>5. ASSUME NEW s \in Session, Update(s)
      PROVE  LocksHeld'
  <2>1. /\ tx[s].pc = "update"
        /\ tx[s] \in [pc : {"lockCode", "lockWallet", "update", "commit"}, call : Call,
                       seenUsed : Nat, seen : Int, after : Int]
    BY <1>5, RunningTx DEF Update, Idle
  <2>2. CASE ~ EndTx(s)
    <3>1. /\ tx'[s].pc = "commit" /\ tx'[s].call = tx[s].call /\ lockedBy' = lockedBy
          /\ \A u \in Session \ {s} : tx'[u] = tx[u]
      BY <1>5, <2>1, <2>2 DEF Update, TxTypeOK
    <3>2. \A r \in Row : lockedBy[r] = s =>
            /\ r \in Account => tx[s].call.acct = r
            /\ r \in Code => tx[s].call.op = "redeem" /\ tx[s].call.ref = r
      BY DEF LocksHeld
    <3> QED
      BY <3>1, <3>2, OthersLocks
  <2> QED
    BY <1>1, <2>2
<1>6. ASSUME NEW s \in Session, Commit(s) \/ Rollback(s)
      PROVE  LocksHeld'
  BY <1>1, <1>6 DEF Commit, Rollback
<1>7. ASSUME UNCHANGED <<tx, lockedBy>>
      PROVE  LocksHeld'
  BY <1>7 DEF LocksHeld
<1>8. CASE \/ \E c \in Code : CodeExpires(c)
           \/ \E a \in Account : CreateWallet(a)
           \/ UNCHANGED allVars
  BY <1>7, <1>8 DEF CodeExpires, CreateWallet, allVars, txVars
<1> QED
  BY ZenonT(60), <1>2, <1>3, <1>4, <1>5, <1>6, <1>8 DEF TxNext, TxStep

\* The order of the locks: who waits for a code row holds no lock, who waits for a
\* wallet row holds at most a code row.
LEMMA LocksAreOrdered ==
    ASSUME TxIInv, LocksHeld
    PROVE  WaitsEnd
<1> SUFFICES ASSUME NEW s \in Session, NEW t \in Session, Waits(s, t)
             PROVE  /\ tx[t] # Idle
                    /\ \A u \in Session : Waits(t, u) => tx[u].pc \in {"update", "commit"}
  BY DEF WaitsEnd
<1>0. \A u \in Session : tx[u].pc = "lockWallet" => tx[u].call.acct \in Account
  BY RunningTx, CallFields DEF TxIInv, Idle
<1>1. \A u \in Session : tx[u].pc = "lockCode" => tx[u].call.ref \in Code
  BY RunningTx, CallFields DEF TxIInv, Pending, Idle
<1>2. tx[t].pc \in {"lockWallet", "update", "commit"}
  BY <1>0, <1>1 DEF Waits, LocksHeld, Row
<1>3. ASSUME NEW u \in Session, Waits(t, u)
      PROVE  tx[u].pc \in {"update", "commit"}
  BY <1>0, <1>2, <1>3 DEF Waits, LocksHeld, Row
<1> QED
  BY <1>2, <1>3 DEF Idle

-----------------------------------------------------------------------------
(* The results *)

\* No update is lost: what a session computed from the rows it locked still
\* agrees with them when it commits, and used_count counts every redemption.
THEOREM NoUpdateLost == TxSpec => [](TxTypeOK /\ NoLostUpdate)
<1>1. TxIInv => TxTypeOK /\ NoLostUpdate
  BY DEF TxIInv, Pending, NoLostUpdate
<1> QED
  BY <1>1, TxInitially, TxIInvStep, PTL DEF TxSpec

\* No circle of waiters: whoever a session waits for has a transaction under way, and
\* waits itself, if at all, for one that holds all its locks and goes on to its end.
THEOREM WaitsAreOrdered == TxSpec => []WaitsEnd
<1>1. TxInit => LocksHeld
  BY SessionAssumption DEF TxInit, LocksHeld
<1>2. TxIInv /\ LocksHeld /\ [TxNext]_allVars => LocksHeld'
  BY LocksStep
<1>3. TxIInv /\ LocksHeld => WaitsEnd
  BY LocksAreOrdered
<1> QED
  BY <1>1, <1>2, <1>3, TxInitially, TxIInvStep, PTL DEF TxSpec

\* The two together, the invariant of the runs.
THEOREM TransactionsCorrect == TxSpec => []TxInv
BY NoUpdateLost, WaitsAreOrdered, PTL DEF TxInv

\* Credit, Debit and RedeemCode are atomic: the transactions, with their locks,
\* failures and rollbacks, do nothing that WalletLedger does not.
THEOREM TransactionsAreAtomic == TxSpec => WalletSpec
<1>1. TxInit => WalletInit
  BY DEF TxInit
<1>2. TxIInv /\ [TxNext]_allVars => [WalletNext]_walletVars
  BY NextIsWalletStep
<1> QED
  BY <1>1, <1>2, TxInitially, TxIInvStep, PTL DEF TxSpec, WalletSpec

\* So no interleaving of them overdraws a wallet, the ledger explains every balance, and
\* the totals and used_count agree with it.
COROLLARY TransactionsAreSound ==
    TxSpec => [](BalanceNeverNegative /\ LedgerExplainsBalance /\ TotalsAgree)
BY TransactionsAreAtomic, BalanceSafe, LedgerCorrect, TotalsCorrect, PTL
=============================================================================
