------------------------------ MODULE WalletTx ------------------------------
(***************************************************************************)
(* The database transactions inside WalletRepo.Credit, Debit and           *)
(* RedeemCode, run by concurrent sessions of PostgreSQL at READ COMMITTED. *)
(* The variables of WalletLedger hold the committed rows; a transaction    *)
(* locks its rows (SELECT ... FOR UPDATE), works on what it read, and      *)
(* commits everything at once or nothing.  Any statement may fail and the  *)
(* process may die: both roll the transaction back and drop its locks.     *)
(***************************************************************************)
EXTENDS WalletLedger

CONSTANTS
    Session,   \* database sessions serving wallet operations
    NoSession

\* The lock of an account is that of its wallet row, a row of another table than
\* the codes.
ASSUME SessionAssumption ==
    /\ NoSession \notin Session
    /\ IsFiniteSet(Session)
    /\ Account \cap Code = {}

VARIABLES
    tx,           \* Session -> the transaction it runs
    lockedBy,     \* Account or Code (a row) -> the session holding its lock
    expiredCodes  \* the codes whose expires_at has passed

txVars == <<tx, lockedBy, expiredCodes>>
allVars == <<walletVars, txVars>>

Row == Account \union Code

\* The calls a session can be given.
CreditCall == [op : {"credit"}, acct : Account, amount : Amount,
               type : CreditType, ref : Ref \union {NoRef}]
DebitCall  == [op : {"debit"}, acct : Account, amount : Amount,
               type : {"debit"}, ref : Ref \union {NoRef}]
RedeemCall == {[op |-> "redeem", acct |-> a, amount |-> RewardValue[c],
                type |-> "redemption", ref |-> c] : a \in Account, c \in Code}
Call == CreditCall \union DebitCall \union RedeemCall

\* A transaction: its call, the statement it is at, and the values it has read
\* (seen) or computed (after) and not yet committed.
Idle == [pc |-> "idle"]
Tx == {Idle} \union
      [pc : {"lockCode", "lockWallet", "update", "commit"}, call : Call,
       seenUsed : Nat, seen : Int, after : Int]

TxTypeOK ==
    /\ WalletTypeOK
    /\ tx \in [Session -> Tx]
    /\ lockedBy \in [Row -> Session \union {NoSession}]
    /\ expiredCodes \subseteq Code

TxInit ==
    /\ WalletInit
    /\ tx = [s \in Session |-> Idle]
    /\ lockedBy = [r \in Row |-> NoSession]
    /\ expiredCodes = {}

-----------------------------------------------------------------------------

\* Mutant: SELECT without FOR UPDATE waits for nobody.
MayLock_Always(s, r) == TRUE

\* A row lock is granted when nobody holds it.
MayLock(s, r) == lockedBy[r] \in {NoSession, s}

\* Mutant: the row locks outlive the transaction.
EndTx_KeepsLocks(s) ==
    /\ tx' = [tx EXCEPT ![s] = Idle]
    /\ UNCHANGED lockedBy

\* COMMIT and ROLLBACK end the transaction and release its row locks.
EndTx(s) ==
    /\ tx' = [tx EXCEPT ![s] = Idle]
    /\ lockedBy' = [r \in Row |-> IF lockedBy[r] = s THEN NoSession ELSE lockedBy[r]]

\* The transactions that may still add an entry to account a (for the bound).
InFlight(a) == {s \in Session : tx[s] # Idle /\ tx[s].call.acct = a}

Begin(s, call) ==
    /\ tx[s] = Idle
    /\ Len(ledger[call.acct]) + Cardinality(InFlight(call.acct)) < MaxEntries[call.acct]
    /\ tx' = [tx EXCEPT ![s] =
                [pc |-> IF call.op = "redeem" THEN "lockCode" ELSE "lockWallet",
                 call |-> call, seenUsed |-> 0, seen |-> 0, after |-> 0]]
    /\ UNCHANGED <<walletVars, lockedBy, expiredCodes>>

\* Mutant: the code row is read without FOR UPDATE.
LockCode_ReadsOnly(s) ==
    /\ tx[s].pc = "lockCode"
    /\ LET c == tx[s].call.ref
       IN IF c \notin expiredCodes /\ Redeemable(c, usedCount[c])
          THEN /\ tx' = [tx EXCEPT ![s].pc = "lockWallet", ![s].seenUsed = usedCount[c]]
               /\ UNCHANGED lockedBy
          ELSE EndTx(s)
    /\ UNCHANGED <<walletVars, expiredCodes>>

\* RedeemCode steps 1 and 2: lock the code row and validate it; a code that
\* fails the validation ends the transaction.
LockCode(s) ==
    /\ tx[s].pc = "lockCode"
    /\ LET c == tx[s].call.ref
       IN /\ MayLock(s, c)
          /\ IF c \notin expiredCodes /\ Redeemable(c, usedCount[c])
             THEN /\ tx' = [tx EXCEPT ![s].pc = "lockWallet",
                                      ![s].seenUsed = usedCount[c]]
                  /\ lockedBy' = [lockedBy EXCEPT ![c] = s]
             ELSE EndTx(s)
    /\ UNCHANGED <<walletVars, expiredCodes>>

\* Mutant: the wallet row is read without FOR UPDATE.
LockWallet_ReadsOnly(s) ==
    /\ tx[s].pc = "lockWallet"
    /\ LET call == tx[s].call
       IN IF /\ call.acct \in walletRows
             /\ call.op = "debit" => Sufficient(balance[call.acct], call.amount)
          THEN /\ tx' = [tx EXCEPT ![s].pc = "update", ![s].seen = balance[call.acct]]
               /\ UNCHANGED lockedBy
          ELSE EndTx(s)
    /\ UNCHANGED <<walletVars, expiredCodes>>

\* Lock the wallet row and read it; no row, or too little for a debit, ends
\* the transaction.
LockWallet(s) ==
    /\ tx[s].pc = "lockWallet"
    /\ LET call == tx[s].call
           a == call.acct
       IN /\ MayLock(s, a)
          /\ IF /\ a \in walletRows
                /\ call.op = "debit" => Sufficient(balance[a], call.amount)
             THEN /\ tx' = [tx EXCEPT ![s].pc = "update", ![s].seen = balance[a]]
                  /\ lockedBy' = [lockedBy EXCEPT ![a] = s]
             ELSE EndTx(s)
    /\ UNCHANGED <<walletVars, expiredCodes>>

\* The signed change a call makes to the balance.
Change(call) == IF call.op = "debit" THEN -call.amount ELSE call.amount

\* UPDATE balance = balance +/- amount on the row as it is now (a debit also
\* re-checks it), then the re-read that fills balance_after.
Update(s) ==
    /\ tx[s].pc = "update"
    /\ LET call == tx[s].call
           a == call.acct
       IN IF call.op = "debit" => Sufficient(balance[a], call.amount)
          THEN /\ tx' = [tx EXCEPT ![s].pc = "commit",
                                   ![s].after = balance[a] + Change(call)]
               /\ UNCHANGED lockedBy
          ELSE EndTx(s)
    /\ UNCHANGED <<walletVars, expiredCodes>>

\* lifetime_topup, lifetime_spend and used_count after the call of session s.
\* Mutants: every credit counts as a topup; no used_count++.
TopupAfter_AnyCredit(call) ==
    IF call.op = "credit"
    THEN [lifetimeTopup EXCEPT ![call.acct] = Cents(@ + call.amount)] ELSE lifetimeTopup

TopupAfter(call) ==
    IF call.op = "credit" /\ call.type = "topup"
    THEN [lifetimeTopup EXCEPT ![call.acct] = Cents(@ + call.amount)] ELSE lifetimeTopup

SpendAfter(call) ==
    IF call.op = "debit"
    THEN [lifetimeSpend EXCEPT ![call.acct] = Cents(@ + call.amount)] ELSE lifetimeSpend

UsedAfter_Forgotten(s) == usedCount

UsedAfter(s) ==
    IF tx[s].call.op = "redeem"
    THEN [usedCount EXCEPT ![tx[s].call.ref] = tx[s].seenUsed + 1] ELSE usedCount

\* INSERT of the ledger row, for a redemption the save of the code row with the
\* count read at the lock plus one, and COMMIT.
Commit(s) ==
    /\ tx[s].pc = "commit"
    /\ LET call == tx[s].call
           a == call.acct
       IN /\ balance' = [balance EXCEPT ![a] = tx[s].after]
          /\ lifetimeTopup' = TopupAfter(call)
          /\ lifetimeSpend' = SpendAfter(call)
          /\ ledger' = [ledger EXCEPT ![a] = Append(@,
                          [type |-> call.type, amount |-> Change(call),
                           balanceAfter |-> tx[s].after, ref |-> call.ref])]
          /\ usedCount' = UsedAfter(s)
    /\ EndTx(s)
    /\ UNCHANGED <<walletRows, expiredCodes>>

\* A statement fails, the context is cancelled or the process dies.
Rollback(s) ==
    /\ tx[s] # Idle
    /\ EndTx(s)
    /\ UNCHANGED <<walletVars, expiredCodes>>

\* The clock passes the expires_at of a code.
CodeExpires(c) ==
    /\ c \notin expiredCodes
    /\ expiredCodes' = expiredCodes \union {c}
    /\ UNCHANGED <<walletVars, tx, lockedBy>>

\* GetOrCreate reads the row and, when there is none, inserts it; no transaction
\* spans the two.  The unique index admits one INSERT, which is the step here,
\* and fails the call of a second.
CreateWallet(a) == GetOrCreate(a) /\ UNCHANGED txVars

TxStep(s) == LockCode(s) \/ LockWallet(s) \/ Update(s) \/ Commit(s)

TxNext ==
    \/ \E s \in Session :
        \/ \E call \in Call : Begin(s, call)
        \/ TxStep(s)
        \/ Rollback(s)
    \/ \E c \in Code : CodeExpires(c)
    \/ \E a \in Account : CreateWallet(a)

\* PostgreSQL queues the waiters of a row lock in order and the driver runs the
\* statements of a transaction one after the other, so a transaction that can
\* go on again and again does go on.  Nothing obliges callers to begin one.
TxSpec == TxInit /\ [][TxNext]_allVars /\ \A s \in Session : SF_allVars(TxStep(s))

-----------------------------------------------------------------------------
(* Properties *)

\* What a transaction computed is still current when it commits: no update is
\* lost between its read and its commit.
NoLostUpdate ==
    \A s \in Session :
        tx[s].pc = "commit" =>
            LET call == tx[s].call
            IN /\ tx[s].after = balance[call.acct] + Change(call)
               /\ call.op = "redeem" => tx[s].seenUsed = usedCount[call.ref]

\* Session s waits for the row lock that t holds.
Waits(s, t) ==
    /\ s # t
    /\ \/ tx[s].pc = "lockCode" /\ lockedBy[tx[s].call.ref] = t
       \/ tx[s].pc = "lockWallet" /\ lockedBy[tx[s].call.acct] = t

\* Nobody waits in a circle (RedeemCode locks the code row, then the wallet row,
\* the others only a wallet row): a session that is waited for has a transaction
\* under way, and if it waits itself, then for one that has all its locks.
WaitsEnd ==
    \A s, t \in Session : Waits(s, t) =>
        /\ tx[t] # Idle
        /\ \A u \in Session : Waits(t, u) => tx[u].pc \in {"update", "commit"}

\* The invariant of the transactions.
TxInv ==
    /\ TxTypeOK
    /\ NoLostUpdate
    /\ WaitsEnd

\* Every transaction ends: the order code row, then wallet row, cannot deadlock.
EveryTxEnds == \A s \in Session : tx[s] # Idle ~> tx[s] = Idle
=============================================================================
