---------------------------- MODULE CreditsProofs ----------------------------
(***************************************************************************)
(* Proofs about what else moves the money of a wallet: refunds, for every  *)
(* set of orders, refunds and admins, the check-in and referral rewards,   *)
(* for every set of accounts and days, and the checkout that is paid from  *)
(* the wallet, for any number of requests and any prices.                  *)
(***************************************************************************)
EXTENDS Refunds, Rewards, WalletCheckout, WalletLedgerProofs

-----------------------------------------------------------------------------
(* Refunds: what steps do to the wallets *)

\* The admin of a review holds a refund that was requested for an order.
LEMMA ReviewHoldsRefund ==
    ASSUME RefundsTypeOK, ReviewsExclusive, NEW a \in Admin, admin[a] # Free
    PROVE  /\ admin[a].refund \in Refund
           /\ refundStatus[admin[a].refund] # "none"
           /\ refundOrder[admin[a].refund] \in Order
BY DEF RefundsTypeOK, ReviewsExclusive, Review

\* Entries that pay a refund neither come nor change.
RefundEntriesKept ==
    \A a \in Account, r \in Refund :
        /\ EntriesOf(a, "refund", r)' = EntriesOf(a, "refund", r)
        /\ \A i \in EntriesOf(a, "refund", r) : ledger'[a][i] = ledger[a][i]

LEMMA OtherCallsKeepRefundEntries ==
    ASSUME RefundsTypeOK, OtherWalletCall
    PROVE  RefundEntriesKept
<1>1. WalletTypeOK
  BY DEF RefundsTypeOK
<1>2. ASSUME NEW a \in Account, NEW e \in Entry, e.ref = NoRef,
             ledger' = [ledger EXCEPT ![a] = Append(@, e)]
      PROVE  RefundEntriesKept
  <2> SUFFICES ASSUME NEW b \in Account, NEW r \in Refund
               PROVE  /\ EntriesOf(b, "refund", r)' = EntriesOf(b, "refund", r)
                      /\ \A i \in EntriesOf(b, "refund", r) : ledger'[b][i] = ledger[b][i]
    BY DEF RefundEntriesKept
  <2>1. e.ref # r
    BY <1>2, RefundAssumption, WalletAssumption
  <2>2. ledger' = [ledger EXCEPT ![a] = Append(@, e)]
    BY <1>2
  <2>3. /\ b # a \/ e.type # "refund" \/ e.ref # r =>
              EntriesOf(b, "refund", r)' = EntriesOf(b, "refund", r)
        /\ \A i \in EntriesOf(b, "refund", r) : ledger'[b][i] = ledger[b][i]
    BY <1>1, <2>2, AppendedEntries DEF EntriesOf
  <2> QED
    BY <2>1, <2>3
<1> USE RefundAssumption, WalletAssumption
<1>3. ASSUME NEW a \in Account, GetOrCreate(a)
      PROVE  RefundEntriesKept
  BY <1>3 DEF GetOrCreate, RefundEntriesKept, EntriesOf
<1>4. ASSUME NEW a \in Account, NEW amt \in Amount, Credit(a, "credit", amt, NoRef)
      PROVE  RefundEntriesKept
  <2>1. NewEntry(a, "credit", amt, NoRef) \in Entry
    BY <1>1, NewEntryType DEF TxType, CreditType
  <2>2. NewEntry(a, "credit", amt, NoRef).ref = NoRef
    BY DEF NewEntry
  <2> QED
    BY <1>2, <1>4, <2>1, <2>2 DEF Credit
<1>5. ASSUME NEW a \in Account, NEW amt \in Amount, Debit(a, amt, NoRef)
      PROVE  RefundEntriesKept
  <2>1. -amt \in Int /\ "debit" \in TxType
    BY DEF TxType
  <2>2. NewEntry(a, "debit", -amt, NoRef) \in Entry
    BY <1>1, <2>1, NewEntryType
  <2>3. NewEntry(a, "debit", -amt, NoRef).ref = NoRef
    BY DEF NewEntry
  <2> QED
    BY <1>2, <1>5, <2>2, <2>3 DEF Debit
<1> QED
  BY <1>3, <1>4, <1>5 DEF OtherWalletCall

LEMMA NextMovesWallet ==
    RefundsTypeOK /\ ReviewsExclusive /\ [Next]_vars => [WalletNext]_walletVars
<1> SUFFICES ASSUME RefundsTypeOK, ReviewsExclusive, [Next]_vars
             PROVE  [WalletNext]_walletVars
  OBVIOUS
<1> USE RefundAssumption
<1>1. ASSUME NEW a \in Admin, CreditRefund(a)
      PROVE  WalletNext
  <2> DEFINE r == admin[a].refund
  <2>1. admin[a] # Free
    BY <1>1 DEF CreditRefund, Free
  <2>2. r \in Refund /\ RefundAccount(r) \in Account /\ RefundAmount(r) \in Amount
    BY <2>1, ReviewHoldsRefund DEF RefundAccount, RefundAmount
  <2>3. Credit(RefundAccount(r), "refund", RefundAmount(r), r)
    BY <1>1 DEF CreditRefund
  <2>4. r \in Ref \union {NoRef} /\ "refund" \in CreditType
    BY <2>2 DEF CreditType
  <2> QED
    BY <2>2, <2>3, <2>4 DEF WalletNext
<1>2. ASSUME OtherWalletCall
      PROVE  WalletNext
  BY <1>2 DEF OtherWalletCall, WalletNext, CreditType
<1>3. ASSUME NEW c \in Customer,
             \/ \E o \in Order : CheckRequest(c, o)
             \/ \E r \in Refund : CreateRefund(c, r)
             \/ RequestFails(c)
      PROVE  UNCHANGED walletVars
  BY <1>3 DEF CheckRequest, CreateRefund, RequestFails
<1>4. ASSUME NEW o \in Order, OrderTurnsWeekOld(o)
      PROVE  UNCHANGED walletVars
  BY <1>4 DEF OrderTurnsWeekOld
<1>5. ASSUME NEW a \in Admin,
             \/ \E r \in Refund : ReadRefund(a, r)
             \/ DecideApprove(a) \/ DecideReject(a) \/ CreditWithoutWallet(a)
             \/ MarkCompleted(a) \/ CancelSubscription(a) \/ PublishCompleted(a)
             \/ ReviewFails(a)
      PROVE  UNCHANGED walletVars
  BY <1>5 DEF ReadRefund, DecideApprove, DecideReject, CreditWithoutWallet, MarkCompleted,
              CancelSubscription, PublishCompleted, ReviewFails
<1>6. CASE UNCHANGED vars
  BY <1>6 DEF vars
<1> QED
  BY <1>1, <1>2, <1>3, <1>4, <1>5, <1>6 DEF Next, ReviewStep

-----------------------------------------------------------------------------
(* Types *)

LEMMA RefundsTypeStep ==
    RefundsTypeOK /\ ReviewsExclusive /\ [Next]_vars => RefundsTypeOK'
<1> SUFFICES ASSUME RefundsTypeOK, ReviewsExclusive, [Next]_vars
             PROVE  RefundsTypeOK'
  OBVIOUS
<1> USE RefundAssumption
<1>1. WalletTypeOK'
  BY NextMovesWallet, WalletTypeStep DEF RefundsTypeOK
<1>2. ASSUME NEW c \in Customer, NEW o \in Order, CheckRequest(c, o)
      PROVE  RefundsTypeOK'
  BY <1>1, <1>2 DEF RefundsTypeOK, CheckRequest, reviewVars
<1>3. ASSUME NEW c \in Customer, NEW r \in Refund, CreateRefund(c, r)
      PROVE  RefundsTypeOK'
  BY <1>1, <1>3 DEF RefundsTypeOK, CreateRefund, reviewVars
<1>4. ASSUME NEW c \in Customer, RequestFails(c)
      PROVE  RefundsTypeOK'
  BY <1>1, <1>4 DEF RefundsTypeOK, RequestFails, reviewVars
<1>5. ASSUME NEW o \in Order, OrderTurnsWeekOld(o)
      PROVE  RefundsTypeOK'
  BY <1>1, <1>5 DEF RefundsTypeOK, OrderTurnsWeekOld, reviewVars
<1>6. ASSUME NEW a \in Admin, NEW r \in Refund, ReadRefund(a, r)
      PROVE  RefundsTypeOK'
  BY <1>1, <1>6 DEF RefundsTypeOK, ReadRefund, requestVars, Review
<1>7. ASSUME NEW a \in Admin, DecideApprove(a) \/ DecideReject(a) \/ MarkCompleted(a)
      PROVE  RefundsTypeOK'
  <2>1. admin[a] \in Review
    BY <1>7 DEF RefundsTypeOK, DecideApprove, DecideReject, MarkCompleted, Free
  <2> QED
    BY <1>1, <1>7, <2>1 DEF RefundsTypeOK, DecideApprove, DecideReject, MarkCompleted,
                            requestVars, Review
<1>8. ASSUME NEW a \in Admin, CreditRefund(a) \/ CreditWithoutWallet(a)
      PROVE  RefundsTypeOK'
  <2>1. admin[a] \in Review
    BY <1>8 DEF RefundsTypeOK, CreditRefund, CreditWithoutWallet, Free
  <2> QED
    BY <1>1, <1>8, <2>1 DEF RefundsTypeOK, CreditRefund, CreditWithoutWallet,
                            AfterFailedCredit, requestVars, Review
<1>9. ASSUME NEW a \in Admin, CancelSubscription(a) \/ PublishCompleted(a)
      PROVE  RefundsTypeOK'
  <2>1. admin[a] # Free
    BY <1>9 DEF CancelSubscription, PublishCompleted, Free
  <2>2. admin[a] \in Review /\ refundOrder[admin[a].refund] \in Order
    BY <2>1, ReviewHoldsRefund DEF RefundsTypeOK
  <2> QED
    BY <1>1, <1>9, <2>2 DEF RefundsTypeOK, CancelSubscription, PublishCompleted,
                            requestVars, Review
<1>10. ASSUME NEW a \in Admin, ReviewFails(a)
       PROVE  RefundsTypeOK'
  BY <1>1, <1>10 DEF RefundsTypeOK, ReviewFails, requestVars
<1>11. ASSUME OtherWalletCall \/ UNCHANGED vars
       PROVE  RefundsTypeOK'
  BY <1>1, <1>11 DEF RefundsTypeOK, OtherWalletCall, vars, refundVars, requestVars, reviewVars
<1> QED
  BY <1>2, <1>3, <1>4, <1>5, <1>6, <1>7, <1>8, <1>9, <1>10, <1>11 DEF Next, ReviewStep

-----------------------------------------------------------------------------
(* One credit per refund *)

Paying == ReviewsExclusive /\ RefundCreditedOnce /\ CompletedIsCredited

\* The parts of ReviewsExclusive: a review's own claim on its refund, and that
\* no other review makes the same claim.
OwnClaim(a) ==
    /\ admin[a] # Free => refundStatus[admin[a].refund] # "none"
    /\ admin[a].pc = "credit" =>
         /\ refundStatus[admin[a].refund] = "approved"
         /\ \A x \in Account : EntriesOf(x, "refund", admin[a].refund) = {}
    /\ admin[a].pc = "complete" =>
         refundStatus[admin[a].refund] = "approved" /\ RefundCredited(admin[a].refund)

Claims == {"credit", "complete"}

ClaimsDiffer ==
    \A a, b \in Admin :
        admin[a].pc \in Claims /\ admin[b].pc \in Claims /\ admin[a].refund = admin[b].refund
        => a = b

CreatedWithOrder == \A r \in Refund : (refundStatus[r] = "none") = (refundOrder[r] = NoOrder)

LEMMA ClaimParts ==
    /\ ReviewsExclusive <=> (\A a \in Admin : OwnClaim(a)) /\ ClaimsDiffer /\ CreatedWithOrder
    /\ ReviewsExclusive' <=>
         (\A a \in Admin : OwnClaim(a)') /\ ClaimsDiffer' /\ CreatedWithOrder'
<1>1. ReviewsExclusive <=> (\A a \in Admin : OwnClaim(a)) /\ ClaimsDiffer /\ CreatedWithOrder
  BY DEF ReviewsExclusive, OwnClaim, ClaimsDiffer, Claims, CreatedWithOrder
<1>2. ReviewsExclusive' <=>
        (\A a \in Admin : OwnClaim(a)') /\ ClaimsDiffer' /\ CreatedWithOrder'
  BY DEF ReviewsExclusive, OwnClaim, ClaimsDiffer, Claims, CreatedWithOrder
<1> QED
  BY <1>1, <1>2

LEMMA KeepsClaim ==
    ASSUME NEW b \in Admin, OwnClaim(b), admin'[b] = admin[b],
           NEW q, q = admin[b].refund,
           admin[b] # Free => refundStatus'[q] # "none",
           admin[b].pc \in Claims =>
             /\ refundStatus'[q] = refundStatus[q]
             /\ \A x \in Account : EntriesOf(x, "refund", q)' = EntriesOf(x, "refund", q)
             /\ RefundCredited(q)' <=> RefundCredited(q)
    PROVE  OwnClaim(b)'
<1>1. admin[b] # Free => refundStatus'[admin'[b].refund] # "none"
  OBVIOUS
<1>2. admin[b].pc = "credit" =>
        /\ refundStatus'[q] = "approved"
        /\ \A x \in Account : EntriesOf(x, "refund", q)' = {}
  BY DEF OwnClaim, Claims
<1>3. admin[b].pc = "complete" => refundStatus'[q] = "approved" /\ RefundCredited(q)'
  BY DEF OwnClaim, Claims
<1> QED
  BY <1>1, <1>2, <1>3 DEF OwnClaim

\* Steps that touch neither refunds, reviews nor the entries that pay refunds.
LEMMA QuietStep ==
    ASSUME RefundsTypeOK, Paying, RefundEntriesKept,
           UNCHANGED <<refundStatus, refundOrder, admin>>
    PROVE  Paying'
<1>1. \A a \in Account, r \in Refund : EntriesOf(a, "refund", r)' = EntriesOf(a, "refund", r)
  BY DEF RefundEntriesKept
<1>2. \A r \in Refund : RefundCredited(r)' <=> RefundCredited(r)
  BY <1>1 DEF RefundCredited
<1>3. ReviewsExclusive'
  <2>1. \A a \in Admin : admin[a].pc = "credit" => admin[a].refund \in Refund
    BY ReviewHoldsRefund DEF Free, Paying
  <2>2. \A a \in Admin : admin[a].pc = "complete" => admin[a].refund \in Refund
    BY ReviewHoldsRefund DEF Free, Paying
  <2> QED
    BY <1>1, <1>2, <2>1, <2>2 DEF ReviewsExclusive, Paying
<1>4. RefundCreditedOnce'
  BY <1>1 DEF RefundCreditedOnce, RefundEntriesKept, Paying, RefundAccount, RefundAmount
<1>5. CompletedIsCredited'
  BY <1>2 DEF CompletedIsCredited, Paying
<1> QED
  BY <1>3, <1>4, <1>5 DEF Paying

\* Steps of a review after which it owes no credit and no completion.
LEMMA ReviewLetsGo ==
    ASSUME RefundsTypeOK, Paying, NEW a \in Admin, NEW x \in {Free} \union Review,
           admin' = [admin EXCEPT ![a] = x],
           x # Free => refundStatus[x.refund] # "none",
           x.pc \notin {"credit", "complete"},
           UNCHANGED <<refundStatus, refundOrder, ledger>>
    PROVE  Paying'
<1>1. \A b \in Account, r \in Refund : EntriesOf(b, "refund", r)' = EntriesOf(b, "refund", r)
  BY DEF EntriesOf
<1>2. \A r \in Refund : RefundCredited(r)' <=> RefundCredited(r)
  BY <1>1 DEF RefundCredited
<1>3. ReviewsExclusive'
  <2>1. \A b \in Admin : admin'[b] = (IF b = a THEN x ELSE admin[b])
    BY DEF RefundsTypeOK
  <2>2. \A b \in Admin : admin[b].pc \in {"credit", "complete"} => admin[b].refund \in Refund
    BY ReviewHoldsRefund DEF Free, Paying
  <2> QED
    BY <1>1, <1>2, <2>1, <2>2 DEF ReviewsExclusive, Paying
<1>4. RefundCreditedOnce'
  BY <1>1 DEF RefundCreditedOnce, Paying, RefundAccount, RefundAmount
<1>5. CompletedIsCredited'
  BY <1>2 DEF CompletedIsCredited, Paying
<1> QED
  BY <1>3, <1>4, <1>5 DEF Paying

\* The part of RefundsInv that is inductive by itself: all but RefundsWithinRequests.
RefundsIInv ==
    /\ RefundsTypeOK
    /\ ReviewsExclusive
    /\ RefundCreditedOnce
    /\ CompletedIsCredited

LEMMA RefundsInvStep == RefundsIInv /\ [Next]_vars => RefundsIInv'
<1> SUFFICES ASSUME RefundsTypeOK, Paying, [Next]_vars
             PROVE  Paying'
  BY RefundsTypeStep DEF RefundsIInv, Paying
<1> USE RefundAssumption
<1>0. ReviewsExclusive /\ RefundCreditedOnce /\ CompletedIsCredited
  BY DEF Paying
<1>1. ASSUME NEW c \in Customer,
             RequestFails(c) \/ \E o \in Order : CheckRequest(c, o)
      PROVE  Paying'
  BY <1>1, QuietStep DEF RequestFails, CheckRequest, reviewVars, RefundEntriesKept,
                         EntriesOf, walletVars
<1>2. ASSUME NEW o \in Order, OrderTurnsWeekOld(o)
      PROVE  Paying'
  BY <1>2, QuietStep DEF OrderTurnsWeekOld, reviewVars, RefundEntriesKept, EntriesOf, walletVars
<1>3. ASSUME OtherWalletCall
      PROVE  Paying'
  BY <1>3, QuietStep, OtherCallsKeepRefundEntries
  DEF OtherWalletCall, refundVars, requestVars, reviewVars
<1>4. CASE UNCHANGED vars
  BY <1>4, QuietStep DEF vars, refundVars, requestVars, reviewVars, RefundEntriesKept,
                         EntriesOf, walletVars
<1>5. ASSUME NEW c \in Customer, NEW r \in Refund, CreateRefund(c, r)
      PROVE  Paying'
  <2>1. /\ refundStatus[r] = "none" /\ customer[c] \in Order
        /\ refundStatus' = [refundStatus EXCEPT ![r] = "pending"]
        /\ refundOrder' = [refundOrder EXCEPT ![r] = customer[c]]
        /\ UNCHANGED <<admin, ledger>>
    BY <1>5 DEF CreateRefund, reviewVars, walletVars, RefundsTypeOK
  <2>2. \A b \in Account, q \in Refund : EntriesOf(b, "refund", q)' = EntriesOf(b, "refund", q)
    BY <2>1 DEF EntriesOf
  <2>3. \A q \in Refund : RefundCredited(q)' <=> RefundCredited(q)
    BY <2>2 DEF RefundCredited
  <2>4. \A b \in Account : EntriesOf(b, "refund", r) = {}
    BY <2>1, <1>0 DEF RefundCreditedOnce
  <2>5. \A b \in Admin : admin[b] # Free => admin[b].refund \in Refund \ {r}
    BY <2>1, <1>0, ReviewHoldsRefund
  <2>6. \A b \in Admin : admin[b].pc \in {"credit", "complete"} => admin[b] # Free
    BY DEF Free
  <2>7. ReviewsExclusive'
    <3>1. \A q \in Refund \ {r} : refundStatus'[q] = refundStatus[q] /\ refundOrder'[q] = refundOrder[q]
      BY <2>1 DEF RefundsTypeOK
    <3>2. refundStatus'[r] = "pending" /\ refundOrder'[r] \in Order
      BY <2>1 DEF RefundsTypeOK
    <3> QED
      <4>1. ASSUME NEW b \in Admin
            PROVE  OwnClaim(b)'
        <5>1. OwnClaim(b) /\ admin'[b] = admin[b]
          BY <1>0, <2>1, ClaimParts
        <5>2. admin[b] # Free => refundStatus'[admin[b].refund] # "none"
          BY <2>5, <3>1, <5>1 DEF OwnClaim
        <5>3. admin[b].pc \in Claims => admin[b].refund \in Refund \ {r}
          BY <2>5, <2>6 DEF Claims
        <5> QED
          BY <2>2, <2>3, <3>1, <5>1, <5>2, <5>3, KeepsClaim
      <4>2. ClaimsDiffer'
        BY <1>0, <2>1, ClaimParts DEF ClaimsDiffer
      <4>3. CreatedWithOrder'
        BY <1>0, <3>1, <3>2, ClaimParts DEF CreatedWithOrder
      <4> QED
        BY <4>1, <4>2, <4>3, ClaimParts
  <2>8. RefundCreditedOnce'
    BY <1>0, <2>1, <2>2, <2>4 DEF RefundCreditedOnce, RefundsTypeOK, RefundAccount, RefundAmount
  <2>9. CompletedIsCredited'
    BY <1>0, <2>1, <2>3 DEF CompletedIsCredited, RefundsTypeOK
  <2> QED
    BY <2>7, <2>8, <2>9 DEF Paying
<1>6. ASSUME NEW a \in Admin, NEW r \in Refund, ReadRefund(a, r)
      PROVE  Paying'
  <2>1. PICK decision \in {"approve", "reject"} :
          admin' = [admin EXCEPT ![a] = [pc |-> decision, refund |-> r]]
    BY <1>6 DEF ReadRefund
  <2>2. [pc |-> decision, refund |-> r] \in Review
    BY DEF Review
  <2> QED
    BY <1>6, <2>1, <2>2, ReviewLetsGo DEF ReadRefund, requestVars, walletVars
<1>7. ASSUME NEW a \in Admin, CreditWithoutWallet(a) \/ PublishCompleted(a) \/ ReviewFails(a)
      PROVE  Paying'
  BY <1>7, ReviewLetsGo DEF CreditWithoutWallet, PublishCompleted, ReviewFails,
                            AfterFailedCredit, requestVars, walletVars, Free
<1>8. ASSUME NEW a \in Admin, CancelSubscription(a)
      PROVE  Paying'
  <2>1. admin[a] # Free /\ admin[a] \in Review
    BY <1>8 DEF CancelSubscription, Free, RefundsTypeOK
  <2>2. refundStatus[admin[a].refund] # "none"
    BY <1>0, <2>1, ReviewHoldsRefund
  <2>3. admin' = [admin EXCEPT ![a] = [pc |-> "publish", refund |-> admin[a].refund]]
    <3>1. admin' = [admin EXCEPT ![a] = [admin[a] EXCEPT !.pc = "publish"]]
      BY <1>8 DEF CancelSubscription
    <3>2. [admin[a] EXCEPT !.pc = "publish"] = [pc |-> "publish", refund |-> admin[a].refund]
      BY <2>1 DEF Review
    <3> QED
      BY <3>1, <3>2
  <2>4. [pc |-> "publish", refund |-> admin[a].refund] \in Review
    BY <2>1 DEF Review
  <2> QED
    BY <1>8, <2>2, <2>3, <2>4, ReviewLetsGo DEF CancelSubscription, requestVars, walletVars
<1>9. ASSUME NEW a \in Admin, DecideApprove(a) \/ DecideReject(a) \/ MarkCompleted(a)
      PROVE  Paying'
  <2> DEFINE r == admin[a].refund
  <2>1. admin[a] # Free
    BY <1>9 DEF DecideApprove, DecideReject, MarkCompleted, Free
  <2>2. r \in Refund /\ refundStatus[r] # "none" /\ admin[a] \in Review
    BY <1>0, <2>1, ReviewHoldsRefund DEF RefundsTypeOK
  <2>3. UNCHANGED <<refundOrder, ledger>>
    BY <1>9 DEF DecideApprove, DecideReject, MarkCompleted, requestVars, walletVars
  <2>4. \A b \in Account, q \in Refund : EntriesOf(b, "refund", q)' = EntriesOf(b, "refund", q)
    BY <2>3 DEF EntriesOf
  <2>5. \A q \in Refund : RefundCredited(q)' <=> RefundCredited(q)
    BY <2>4 DEF RefundCredited
  <2>6. \A b \in Admin : admin[b].pc \in {"credit", "complete"} => admin[b].refund \in Refund
    BY <1>0, ReviewHoldsRefund DEF Free
  <2>7. CASE refundStatus' = refundStatus
    <3>1. admin' = [admin EXCEPT ![a] = Free] \/ UNCHANGED admin
      BY <1>9, <2>2, <2>7 DEF DecideApprove, DecideReject, MarkCompleted, Reviewable,
                              RefundsTypeOK, ReviewsExclusive, Paying
    <3> QED
      BY <2>3, <2>4, <2>7, <3>1, ReviewLetsGo, QuietStep DEF RefundEntriesKept, Free
  <2>8. CASE DecideApprove(a) /\ refundStatus[r] = "pending"
    <3>1. /\ refundStatus' = [refundStatus EXCEPT ![r] = "approved"]
          /\ admin' = [admin EXCEPT ![a].pc = "credit"]
      BY <2>8 DEF DecideApprove, Reviewable
    <3>2. \A b \in Account : EntriesOf(b, "refund", r) = {}
      BY <1>0, <2>2, <2>8 DEF RefundCreditedOnce
    <3>3. \A b \in Admin \ {a} : admin[b].pc \in {"credit", "complete"} => admin[b].refund # r
      BY <1>0, <2>8 DEF ReviewsExclusive
    <3>4. /\ admin'[a].pc = "credit" /\ admin'[a].refund = r
          /\ \A b \in Admin \ {a} : admin'[b] = admin[b]
          /\ refundStatus'[r] = "approved"
          /\ \A q \in Refund \ {r} : refundStatus'[q] = refundStatus[q]
      BY <2>2, <3>1 DEF RefundsTypeOK, Review
    <3>5. \A b \in Admin : admin[b] # Free => admin[b].refund \in Refund
      BY <1>0, ReviewHoldsRefund
    <3>6. ReviewsExclusive'
      <4>1. OwnClaim(a)'
        <5>1. PICK q \in Refund : q = r
          BY <2>2
        <5>2. \A x \in Account : EntriesOf(x, "refund", q)' = {}
          BY <2>4, <3>2, <5>1
        <5>3. refundStatus'[q] = "approved" /\ admin'[a].refund = q /\ admin'[a].pc = "credit"
          BY <3>4, <5>1
        <5> QED
          BY <5>2, <5>3 DEF OwnClaim
      <4>4. ASSUME NEW b \in Admin \ {a}
            PROVE  OwnClaim(b)'
        <5>1. OwnClaim(b) /\ admin'[b] = admin[b]
          BY <1>0, <3>4, ClaimParts
        <5>2. admin[b] # Free => refundStatus'[admin[b].refund] # "none"
          BY <3>4, <3>5, <5>1 DEF OwnClaim
        <5>3. admin[b].pc \in Claims => admin[b].refund \in Refund \ {r}
          BY <2>6, <3>3 DEF Claims
        <5> QED
          BY <2>4, <2>5, <3>4, <5>1, <5>2, <5>3, KeepsClaim
      <4>2. ClaimsDiffer'
        BY <1>0, <3>3, <3>4, ClaimParts DEF ClaimsDiffer, Claims
      <4>3. CreatedWithOrder'
        BY <1>0, <2>2, <2>3, <3>4, ClaimParts DEF CreatedWithOrder
      <4> QED
        BY <4>1, <4>2, <4>3, <4>4, ClaimParts
    <3>7. RefundCreditedOnce'
      BY <1>0, <2>3, <2>4, <3>2, <3>4 DEF RefundCreditedOnce, RefundAccount, RefundAmount
    <3>8. CompletedIsCredited'
      BY <1>0, <2>5, <3>4 DEF CompletedIsCredited
    <3> QED
      BY <3>6, <3>7, <3>8 DEF Paying
  <2>9. CASE DecideReject(a) /\ refundStatus[r] = "pending"
    <3>1. /\ refundStatus' = [refundStatus EXCEPT ![r] = "rejected"]
          /\ admin' = [admin EXCEPT ![a] = Free]
      BY <2>9 DEF DecideReject, Reviewable
    <3>2. \A b \in Account : EntriesOf(b, "refund", r) = {}
      BY <1>0, <2>2, <2>9 DEF RefundCreditedOnce
    <3>3. \A b \in Admin : admin[b].pc \in {"credit", "complete"} => admin[b].refund # r
      BY <1>0, <2>9 DEF ReviewsExclusive
    <3>4. /\ admin'[a] = Free
          /\ \A b \in Admin \ {a} : admin'[b] = admin[b]
          /\ refundStatus'[r] = "rejected"
          /\ \A q \in Refund \ {r} : refundStatus'[q] = refundStatus[q]
      BY <2>2, <3>1 DEF RefundsTypeOK
    <3>5. \A b \in Admin : admin[b] # Free => admin[b].refund \in Refund
      BY <1>0, ReviewHoldsRefund
    <3>6. ReviewsExclusive'
      <4>1. OwnClaim(a)'
        BY <3>4 DEF OwnClaim, Free
      <4>4. ASSUME NEW b \in Admin \ {a}
            PROVE  OwnClaim(b)'
        <5>1. OwnClaim(b) /\ admin'[b] = admin[b]
          BY <1>0, <3>4, ClaimParts
        <5>2. admin[b] # Free => refundStatus'[admin[b].refund] # "none"
          BY <3>4, <3>5, <5>1 DEF OwnClaim
        <5>3. admin[b].pc \in Claims => admin[b].refund \in Refund \ {r}
          BY <2>6, <3>3 DEF Claims
        <5> QED
          BY <2>4, <2>5, <3>4, <5>1, <5>2, <5>3, KeepsClaim
      <4>2. ClaimsDiffer'
        BY <1>0, <3>3, <3>4, ClaimParts DEF ClaimsDiffer, Claims, Free
      <4>3. CreatedWithOrder'
        BY <1>0, <2>2, <2>3, <3>4, ClaimParts DEF CreatedWithOrder
      <4> QED
        BY <4>1, <4>2, <4>3, <4>4, ClaimParts
    <3>7. RefundCreditedOnce'
      BY <1>0, <2>3, <2>4, <3>2, <3>4 DEF RefundCreditedOnce, RefundAccount, RefundAmount
    <3>8. CompletedIsCredited'
      BY <1>0, <2>5, <3>4 DEF CompletedIsCredited
    <3> QED
      BY <3>6, <3>7, <3>8 DEF Paying
  <2>10. CASE MarkCompleted(a)
    <3>1. /\ refundStatus' = [refundStatus EXCEPT ![r] = "completed"]
          /\ admin' = [admin EXCEPT ![a].pc = "cancel"]
          /\ admin[a].pc = "complete"
      BY <2>10 DEF MarkCompleted
    <3>2. refundStatus[r] = "approved" /\ RefundCredited(r)
      BY <1>0, <3>1 DEF ReviewsExclusive
    <3>3. \A b \in Admin \ {a} : admin[b].pc \in {"credit", "complete"} => admin[b].refund # r
      BY <1>0, <3>1 DEF ReviewsExclusive
    <3>4. /\ admin'[a].pc = "cancel" /\ admin'[a].refund = r
          /\ \A b \in Admin \ {a} : admin'[b] = admin[b]
          /\ refundStatus'[r] = "completed"
          /\ \A q \in Refund \ {r} : refundStatus'[q] = refundStatus[q]
      BY <2>2, <3>1 DEF RefundsTypeOK, Review
    <3>5. \A b \in Admin : admin[b] # Free => admin[b].refund \in Refund
      BY <1>0, ReviewHoldsRefund
    <3>6. ReviewsExclusive'
      <4>1. OwnClaim(a)'
        BY <2>4, <2>5, <3>2, <3>4 DEF OwnClaim
      <4>4. ASSUME NEW b \in Admin \ {a}
            PROVE  OwnClaim(b)'
        <5>1. OwnClaim(b) /\ admin'[b] = admin[b]
          BY <1>0, <3>4, ClaimParts
        <5>2. admin[b] # Free => refundStatus'[admin[b].refund] # "none"
          BY <3>4, <3>5, <5>1 DEF OwnClaim
        <5>3. admin[b].pc \in Claims => admin[b].refund \in Refund \ {r}
          BY <2>6, <3>3 DEF Claims
        <5> QED
          BY <2>4, <2>5, <3>4, <5>1, <5>2, <5>3, KeepsClaim
      <4>2. ClaimsDiffer'
        BY <1>0, <3>3, <3>4, ClaimParts DEF ClaimsDiffer, Claims
      <4>3. CreatedWithOrder'
        BY <1>0, <2>2, <2>3, <3>4, ClaimParts DEF CreatedWithOrder
      <4> QED
        BY <4>1, <4>2, <4>3, <4>4, ClaimParts
    <3>7. RefundCreditedOnce'
      BY <1>0, <2>3, <2>4, <3>2, <3>4 DEF RefundCreditedOnce, RefundAccount, RefundAmount
    <3>8. CompletedIsCredited'
      BY <1>0, <2>5, <3>2, <3>4 DEF CompletedIsCredited
    <3> QED
      BY <3>6, <3>7, <3>8 DEF Paying
  <2> QED
    BY <1>9, <2>7, <2>8, <2>9, <2>10 DEF DecideApprove, DecideReject, Reviewable
<1>10. ASSUME NEW a \in Admin, CreditRefund(a)
       PROVE  Paying'
  <2>1. admin[a] # Free /\ admin[a].pc = "credit"
    BY <1>10 DEF CreditRefund, Free
  <2>2. PICK r \in Refund : r = admin[a].refund
    BY <2>1, ReviewHoldsRefund, <1>0
  <2>3. refundOrder[r] \in Order /\ admin[a] \in Review
    BY <1>0, <2>1, <2>2, ReviewHoldsRefund DEF RefundsTypeOK
  <2>4. PICK x \in Account : x = RefundAccount(r)
    BY <2>3 DEF RefundAccount
  <2>5. PICK amt \in Amount : amt = RefundAmount(r)
    BY <2>3 DEF RefundAmount
  <2>6. PICK e \in Entry : e = NewEntry(x, "refund", amt, r)
    <3>1. amt \in Int /\ r \in Ref \union Code \union {NoRef} /\ "refund" \in TxType
      BY WalletAssumption DEF TxType, CreditType
    <3> QED
      BY <3>1, NewEntryType DEF RefundsTypeOK
  <2>7. e.type = "refund" /\ e.ref = r /\ e.amount = amt
    BY <2>6 DEF NewEntry
  <2>8. /\ ledger' = [ledger EXCEPT ![x] = Append(@, e)]
        /\ admin' = [admin EXCEPT ![a].pc = "complete"]
        /\ UNCHANGED <<refundStatus, refundOrder>>
    BY <1>10, <2>2, <2>4, <2>5, <2>6 DEF CreditRefund, Credit, requestVars
  <2>9. refundStatus[r] = "approved" /\ \A b \in Account : EntriesOf(b, "refund", r) = {}
    BY <1>0, <2>1, <2>2 DEF ReviewsExclusive
  <2>10. \A b \in Account, q \in Refund :
          /\ b # x \/ q # r => EntriesOf(b, "refund", q)' = EntriesOf(b, "refund", q)
          /\ \A i \in EntriesOf(b, "refund", q) : ledger'[b][i] = ledger[b][i]
    BY <2>7, <2>8, AppendedEntries DEF RefundsTypeOK, EntriesOf
  <2>11. PICK n \in Int : EntriesOf(x, "refund", r)' = {n} /\ ledger'[x][n] = e
    <3>1. WalletTypeOK /\ EntriesOf(x, e.type, e.ref) = {}
      BY <2>7, <2>9 DEF RefundsTypeOK
    <3>2. \E n \in Int : EntriesOf(x, e.type, e.ref)' = {n} /\ ledger'[x][n] = e
      BY <2>8, <3>1, FirstEntry
    <3> QED
      BY <2>7, <3>2 DEF EntriesOf
  <2>12. RefundCredited(r)' /\ \A q \in Refund \ {r} : RefundCredited(q)' <=> RefundCredited(q)
    <3>1. RefundCredited(r)'
      BY <2>11 DEF RefundCredited
    <3>2. \A q \in Refund \ {r} : RefundCredited(q)' <=> RefundCredited(q)
      BY <2>10 DEF RefundCredited
    <3> QED
      BY <3>1, <3>2
  <2>13. /\ admin'[a].pc = "complete" /\ admin'[a].refund = r
         /\ \A b \in Admin \ {a} : admin'[b] = admin[b]
    BY <2>2, <2>3, <2>8 DEF RefundsTypeOK, Review
  <2>14. \A b \in Admin \ {a} : admin[b].pc \in Claims => admin[b].refund # r
    BY <1>0, <2>1, <2>2, ClaimParts DEF ClaimsDiffer, Claims
  <2>15. \A b \in Admin :
            /\ admin[b].pc \in Claims => admin[b].refund \in Refund
            /\ admin[b] # Free => admin[b].refund \in Refund
    BY <1>0, ReviewHoldsRefund DEF Free, Claims
  <2>16. ReviewsExclusive'
    <3>1. OwnClaim(a)'
      BY <2>8, <2>9, <2>12, <2>13 DEF OwnClaim
    <3>2. ASSUME NEW b \in Admin \ {a}
          PROVE  OwnClaim(b)'
      <4>1. OwnClaim(b) /\ admin'[b] = admin[b] /\ refundStatus' = refundStatus
        BY <1>0, <2>8, <2>13, ClaimParts
      <4>2. admin[b].pc \in Claims => admin[b].refund \in Refund \ {r}
        BY <2>14, <2>15
      <4>3. admin[b] # Free => refundStatus'[admin[b].refund] # "none"
        BY <4>1 DEF OwnClaim
      <4> QED
        BY <2>10, <2>12, <4>1, <4>2, <4>3, KeepsClaim
    <3>3. ClaimsDiffer'
      BY <1>0, <2>13, <2>14, ClaimParts DEF ClaimsDiffer
    <3>4. CreatedWithOrder'
      BY <1>0, <2>8, ClaimParts DEF CreatedWithOrder
    <3> QED
      BY <3>1, <3>2, <3>3, <3>4, ClaimParts
  <2>17. RefundCreditedOnce'
    <3> SUFFICES ASSUME NEW b \in Account, NEW q \in Refund
                 PROVE  /\ \A i, j \in EntriesOf(b, "refund", q)' : i = j
                        /\ \A i \in EntriesOf(b, "refund", q)' :
                            /\ refundStatus'[q] \in {"approved", "completed"}
                            /\ b = RefundAccount(q)'
                            /\ ledger'[b][i].amount = RefundAmount(q)'
      BY DEF RefundCreditedOnce
    <3>1. RefundAccount(q)' = RefundAccount(q) /\ RefundAmount(q)' = RefundAmount(q)
      BY <2>8 DEF RefundAccount, RefundAmount
    <3>2. CASE b = x /\ q = r
      BY <2>4, <2>5, <2>7, <2>8, <2>9, <2>11, <3>1, <3>2
    <3>3. CASE b # x \/ q # r
      <4>1. /\ EntriesOf(b, "refund", q)' = EntriesOf(b, "refund", q)
            /\ \A i \in EntriesOf(b, "refund", q) : ledger'[b][i] = ledger[b][i]
        BY <2>10, <3>3
      <4>2. /\ \A i, j \in EntriesOf(b, "refund", q) : i = j
            /\ \A i \in EntriesOf(b, "refund", q) :
                /\ refundStatus[q] \in {"approved", "completed"}
                /\ b = RefundAccount(q)
                /\ ledger[b][i].amount = RefundAmount(q)
        BY <1>0 DEF RefundCreditedOnce
      <4> QED
        BY <2>8, <3>1, <4>1, <4>2
    <3> QED
      BY <3>2, <3>3
  <2>18. CompletedIsCredited'
    BY <1>0, <2>8, <2>12 DEF CompletedIsCredited
  <2> QED
    BY <2>16, <2>17, <2>18 DEF Paying
<1> QED
  BY <1>1, <1>2, <1>3, <1>4, <1>5, <1>6, <1>7, <1>8, <1>9, <1>10 DEF Next, ReviewStep

\* "Prevents double-refund on concurrent admin approvals" (Approve): a refund is
\* paid at most once, to the owner of its order and with its amount, and a
\* completed one has been paid, however reviews interleave and fail.
THEOREM RefundedOnce == Spec => []RefundsIInv
<1>1. Init => RefundsIInv
  <2> SUFFICES ASSUME Init
               PROVE  RefundsIInv
    OBVIOUS
  <2>1. RefundsTypeOK
    BY RefundAssumption DEF Init, RefundsTypeOK, WalletInit, WalletTypeOK
  <2>2. \A a \in Account, r \in Refund : EntriesOf(a, "refund", r) = {}
    BY DEF Init, WalletInit, EntriesOf
  <2> QED
    BY <2>1, <2>2 DEF Init, RefundsIInv, ReviewsExclusive, RefundCreditedOnce,
                      CompletedIsCredited, Free
<1> QED
  BY <1>1, RefundsInvStep, PTL DEF Spec

\* A refund goes from pending to rejected, or over approved to completed, and
\* never back, although MarkCompleted overwrites whatever status it finds.
THEOREM RefundsGoForward == Spec => RefundLifecycle
<1> DEFINE Forward ==
        \A r \in Refund :
            refundStatus'[r] # refundStatus[r] =>
                <<refundStatus[r], refundStatus'[r]>> \in
                    {<<"none", "pending">>, <<"pending", "approved">>,
                     <<"pending", "rejected">>, <<"approved", "completed">>}
<1>1. RefundsIInv /\ [Next]_vars => [Forward]_refundStatus
  <2> SUFFICES ASSUME RefundsTypeOK, ReviewsExclusive, [Next]_vars, refundStatus' # refundStatus
               PROVE  Forward
    BY DEF RefundsIInv
  <2>1. ASSUME NEW c \in Customer, NEW r \in Refund, CreateRefund(c, r)
        PROVE  Forward
    BY <2>1 DEF CreateRefund, RefundsTypeOK
  <2>2. ASSUME NEW a \in Admin, DecideApprove(a) \/ DecideReject(a)
        PROVE  Forward
    BY <2>2 DEF DecideApprove, DecideReject, Reviewable, RefundsTypeOK
  <2>3. ASSUME NEW a \in Admin, MarkCompleted(a)
        PROVE  Forward
    <3>1. refundStatus[admin[a].refund] = "approved"
      BY <2>3 DEF MarkCompleted, ReviewsExclusive
    <3> QED
      BY <2>3, <3>1 DEF MarkCompleted, RefundsTypeOK
  <2>4. \/ \E c \in Customer, r \in Refund : CreateRefund(c, r)
        \/ \E a \in Admin : DecideApprove(a) \/ DecideReject(a) \/ MarkCompleted(a)
    BY DEF Next, ReviewStep, vars, refundVars, reviewVars, CheckRequest, RequestFails,
           OrderTurnsWeekOld, ReadRefund, CreditRefund, CreditWithoutWallet,
           CancelSubscription, PublishCompleted, ReviewFails, OtherWalletCall
  <2> QED
    BY <2>1, <2>2, <2>3, <2>4
<1> QED
  BY <1>1, RefundedOnce, PTL DEF Spec, RefundLifecycle

\* Refunds move money only as WalletLedger does: no wallet is overdrawn by them
\* and the ledgers explain the balances.
THEOREM RefundsImplementWallet == Spec => WalletSpec
<1>1. Init => WalletInit
  BY DEF Init
<1>2. RefundsIInv /\ [Next]_vars => [WalletNext]_walletVars
  BY NextMovesWallet DEF RefundsIInv
<1> QED
  BY <1>1, <1>2, RefundedOnce, PTL DEF Spec, WalletSpec

-----------------------------------------------------------------------------
(* Refunds: how many are open *)

OpenIsFinite == \A o \in Order : IsFiniteSet(InFlight(o))

LEMMA AskingFinite ==
    ASSUME NEW S \in SUBSET Customer
    PROVE  IsFiniteSet(S) /\ Cardinality(S) \in Nat /\ Cardinality(S) <= Cardinality(Customer)
BY RefundAssumption, FS_Subset, FS_CardinalityType

\* What keeps or shrinks both sets of an order keeps their bound.
LEMMA RequestsShrink ==
    ASSUME OpenIsFinite, RefundsWithinRequests, NEW o \in Order,
           InFlight(o)' \subseteq InFlight(o), Asking(o)' \subseteq Asking(o)
    PROVE  /\ IsFiniteSet(InFlight(o)')
           /\ Cardinality(InFlight(o)') + Cardinality(Asking(o)') <= Cardinality(Customer)
<1>1. /\ IsFiniteSet(InFlight(o)')
      /\ Cardinality(InFlight(o)') \in Nat /\ Cardinality(InFlight(o)) \in Nat
      /\ Cardinality(InFlight(o)') <= Cardinality(InFlight(o))
  BY FS_Subset, FS_CardinalityType DEF OpenIsFinite
<1>2. Asking(o) \in SUBSET Customer
  BY DEF Asking
<1>3. /\ Cardinality(Asking(o)') \in Nat /\ Cardinality(Asking(o)) \in Nat
      /\ Cardinality(Asking(o)') <= Cardinality(Asking(o))
      /\ Cardinality(Customer) \in Nat
  BY <1>2, AskingFinite, FS_Subset
<1> QED
  BY <1>1, <1>3 DEF RefundsWithinRequests

LEMMA RequestsStep ==
    ASSUME RefundsTypeOK, OpenIsFinite, RefundsWithinRequests, [Next]_vars
    PROVE  OpenIsFinite' /\ RefundsWithinRequests'
<1> USE RefundAssumption
<1> SUFFICES ASSUME NEW o \in Order
             PROVE  /\ IsFiniteSet(InFlight(o)')
                    /\ Cardinality(InFlight(o)') + Cardinality(Asking(o)') <= Cardinality(Customer)
  BY DEF OpenIsFinite, RefundsWithinRequests
<1>1. ASSUME NEW c \in Customer, NEW q \in Order, CheckRequest(c, q)
      PROVE  /\ IsFiniteSet(InFlight(o)')
             /\ Cardinality(InFlight(o)') + Cardinality(Asking(o)') <= Cardinality(Customer)
  <2>1. /\ InFlight(o)' = InFlight(o)
        /\ q # o => Asking(o)' = Asking(o)
        /\ q = o => InFlight(o) = {}
    BY <1>1 DEF CheckRequest, InFlight, Asking, RefundsTypeOK
  <2>2. CASE q # o
    BY <2>1, <2>2, RequestsShrink
  <2>3. CASE q = o
    <3>1. InFlight(o)' = {}
      BY <2>1, <2>3
    <3>2. IsFiniteSet(InFlight(o)') /\ Cardinality(InFlight(o)') = 0
      BY <3>1, FS_EmptySet
    <3>3. Asking(o)' \in SUBSET Customer
      BY DEF Asking
    <3>4. Cardinality(Asking(o)') \in Nat /\ Cardinality(Asking(o)') <= Cardinality(Customer)
      BY <3>3, AskingFinite
    <3> QED
      BY <3>2, <3>4, AskingFinite
  <2> QED
    BY <2>2, <2>3
<1>2. ASSUME NEW c \in Customer, NEW r \in Refund, CreateRefund(c, r)
      PROVE  /\ IsFiniteSet(InFlight(o)')
             /\ Cardinality(InFlight(o)') + Cardinality(Asking(o)') <= Cardinality(Customer)
  <2>1. PICK q \in Order : q = customer[c]
    BY <1>2 DEF CreateRefund, RefundsTypeOK
  <2>2. /\ refundStatus[r] = "none" /\ refundStatus'[r] = "pending" /\ refundOrder'[r] = q
        /\ \A p \in Refund \ {r} :
             refundStatus'[p] = refundStatus[p] /\ refundOrder'[p] = refundOrder[p]
        /\ customer' = [customer EXCEPT ![c] = NoOrder]
    BY <1>2, <2>1 DEF CreateRefund, RefundsTypeOK
  <2>3. CASE q # o
    <3>1. InFlight(o)' \subseteq InFlight(o)
      BY <2>2, <2>3 DEF InFlight
    <3>2. Asking(o)' \subseteq Asking(o)
      BY <2>2 DEF Asking, RefundsTypeOK
    <3> QED
      BY <3>1, <3>2, RequestsShrink
  <2>4. CASE q = o
    <3>1. InFlight(o)' = InFlight(o) \union {r} /\ r \notin InFlight(o)
      BY <2>2, <2>4 DEF InFlight
    <3>2. Asking(o)' = Asking(o) \ {c} /\ c \in Asking(o) /\ Asking(o) \in SUBSET Customer
      BY <2>1, <2>2, <2>4 DEF Asking, RefundsTypeOK
    <3>3. /\ IsFiniteSet(InFlight(o)') /\ Cardinality(InFlight(o)) \in Nat
          /\ Cardinality(InFlight(o)') = Cardinality(InFlight(o)) + 1
      BY <3>1, FS_AddElement, FS_CardinalityType DEF OpenIsFinite
    <3>4. /\ Cardinality(Asking(o)) \in Nat
          /\ Cardinality(Asking(o)') = Cardinality(Asking(o)) - 1
      BY <3>2, AskingFinite, FS_RemoveElement
    <3>5. Cardinality(Customer) \in Nat
      BY AskingFinite
    <3> QED
      BY <3>3, <3>4, <3>5 DEF RefundsWithinRequests
  <2> QED
    BY <2>3, <2>4
<1>3. ASSUME NEW c \in Customer, RequestFails(c)
      PROVE  /\ IsFiniteSet(InFlight(o)')
             /\ Cardinality(InFlight(o)') + Cardinality(Asking(o)') <= Cardinality(Customer)
  <2>1. InFlight(o)' = InFlight(o) /\ Asking(o)' \subseteq Asking(o)
    BY <1>3 DEF RequestFails, InFlight, Asking, RefundsTypeOK
  <2> QED
    BY <2>1, RequestsShrink
<1>4. ASSUME NEW a \in Admin, DecideApprove(a) \/ DecideReject(a) \/ MarkCompleted(a)
      PROVE  /\ IsFiniteSet(InFlight(o)')
             /\ Cardinality(InFlight(o)') + Cardinality(Asking(o)') <= Cardinality(Customer)
  <2>1. UNCHANGED <<refundOrder, customer>>
    BY <1>4 DEF DecideApprove, DecideReject, MarkCompleted, requestVars
  <2>2. \A r \in Refund : refundStatus'[r] \in {"pending", "approved"} =>
          refundStatus[r] \in {"pending", "approved"}
    <3>1. CASE MarkCompleted(a)
      BY <3>1 DEF MarkCompleted, RefundsTypeOK
    <3>2. CASE DecideReject(a)
      BY <3>2 DEF DecideReject, RefundsTypeOK
    <3>3. CASE DecideApprove(a)
      BY <3>3 DEF DecideApprove, Reviewable, RefundsTypeOK
    <3> QED
      BY <1>4, <3>1, <3>2, <3>3
  <2>3. InFlight(o)' \subseteq InFlight(o) /\ Asking(o)' \subseteq Asking(o)
    BY <2>1, <2>2 DEF InFlight, Asking
  <2> QED
    BY <2>3, RequestsShrink
<1>5. ASSUME UNCHANGED <<refundStatus, refundOrder, customer>>
      PROVE  /\ IsFiniteSet(InFlight(o)')
             /\ Cardinality(InFlight(o)') + Cardinality(Asking(o)') <= Cardinality(Customer)
  <2>1. InFlight(o)' \subseteq InFlight(o) /\ Asking(o)' \subseteq Asking(o)
    BY <1>5 DEF InFlight, Asking
  <2> QED
    BY <2>1, RequestsShrink
<1>6. ASSUME NEW a \in Admin,
             \/ \E r \in Refund : ReadRefund(a, r)
             \/ CreditRefund(a) \/ CreditWithoutWallet(a) \/ CancelSubscription(a)
             \/ PublishCompleted(a) \/ ReviewFails(a)
      PROVE  UNCHANGED <<refundStatus, refundOrder, customer>>
  BY <1>6 DEF ReadRefund, CreditRefund, CreditWithoutWallet, CancelSubscription,
              PublishCompleted, ReviewFails, requestVars
<1>7. CASE (\E q \in Order : OrderTurnsWeekOld(q)) \/ OtherWalletCall \/ UNCHANGED vars
  BY <1>5, <1>7 DEF OrderTurnsWeekOld, OtherWalletCall, refundVars, requestVars, vars
<1> QED
  BY ZenonT(60), <1>1, <1>2, <1>3, <1>4, <1>5, <1>6, <1>7 DEF Next, ReviewStep

\* Nothing makes the check and the INSERT of RequestRefund one step, yet an order
\* never has more open refunds than there are requests served at a time: one that
\* checks while a refund is open is turned away.
THEOREM RefundsStayWithinRequests == Spec => []RefundsWithinRequests
<1>1. Init => OpenIsFinite /\ RefundsWithinRequests
  <2> SUFFICES ASSUME Init, NEW o \in Order
               PROVE  /\ IsFiniteSet(InFlight(o))
                      /\ Cardinality(InFlight(o)) + Cardinality(Asking(o)) <= Cardinality(Customer)
    BY DEF OpenIsFinite, RefundsWithinRequests
  <2>1. InFlight(o) = {}
    BY DEF Init, InFlight
  <2>2. IsFiniteSet(InFlight(o)) /\ Cardinality(InFlight(o)) = 0
    BY <2>1, FS_EmptySet
  <2>3. Asking(o) \in SUBSET Customer
    BY DEF Asking
  <2>4. Cardinality(Asking(o)) \in Nat /\ Cardinality(Asking(o)) <= Cardinality(Customer)
    BY <2>3, AskingFinite
  <2> QED
    BY <2>2, <2>4, AskingFinite
<1>2. RefundsIInv => RefundsTypeOK
  BY DEF RefundsIInv
<1> QED
  BY <1>1, <1>2, RefundedOnce, RequestsStep, PTL DEF Spec

\* The two together, the invariant of the run.
THEOREM RefundsCorrect == Spec => []RefundsInv
BY RefundedOnce, RefundsStayWithinRequests, PTL DEF RefundsInv, RefundsIInv

-----------------------------------------------------------------------------
(* Rewards: the inductive invariant *)

CheckinPaid(a, d) == EntriesOf(a, "credit", CheckinRef[<<a, d>>])
SignupPaid(r, a) == EntriesOf(r, "credit", RefereeRef[a])

CheckingIn == {"lookup", "count", "insert", "creditCheckin"}
Linking == {"link", "claim", "wallet", "creditReferrer"}
Claiming == {"wallet", "creditReferrer"}

\* What a call has done and still has to do: one about to credit has made its
\* row, and nobody has paid for it.
CallOK(c) ==
    /\ c.pc \in CheckingIn => c.day \in Day
    /\ c.pc \in {"insert", "creditCheckin"} => c.streak \in 1 .. LookBack + 1
    /\ c.pc = "creditCheckin" =>
        /\ [acct |-> c.acct, day |-> c.day, reward |-> CheckinReward(c.streak)] \in checkins
        /\ CheckinPaid(c.acct, c.day) = {}
    /\ c.pc \in Linking => c.other \in Account
    /\ c.pc \in Claiming => <<c.other, c.acct>> \in events /\ SignupPaid(c.other, c.acct) = {}

\* Two calls never credit for the same row.
PayApart(c, d) ==
    /\ c.pc = "creditCheckin" /\ d.pc = "creditCheckin" =>
        <<c.acct, c.day>> # <<d.acct, d.day>>
    /\ c.pc \in Claiming /\ d.pc \in Claiming => <<c.other, c.acct>> # <<d.other, d.acct>>

\* What a row or an event has been paid with: nothing yet, or one entry.
PaidOnce(a, d) ==
    \/ CheckinPaid(a, d) = {}
    \/ \E n \in Int, row \in checkins :
        /\ CheckinPaid(a, d) = {n}
        /\ row.acct = a /\ row.day = d /\ ledger[a][n].amount = row.reward

SignedUpOnce(r, a) ==
    \/ SignupPaid(r, a) = {}
    \/ <<r, a>> \in events /\ \E n \in Int : SignupPaid(r, a) = {n}

OneRowADay ==
    \A p, q \in checkins : p.acct = q.acct /\ p.day = q.day => p = q

RewardsIInv ==
    /\ RewardsTypeOK
    /\ OneRowADay
    /\ \A s \in Session : CallOK(request[s])
    /\ \A s, t \in Session : s # t => PayApart(request[s], request[t])
    /\ \A a \in Account, d \in Day : PaidOnce(a, d)
    /\ \A r, a \in Account : SignedUpOnce(r, a)

LEMMA RewardsInitially == RewardsInit => RewardsIInv
<1> SUFFICES ASSUME RewardsInit
             PROVE  RewardsIInv
  OBVIOUS
<1>1. \A s \in Session : request[s] = FreeSession
  BY DEF RewardsInit
<1>2. \A a \in Account : \A t, ref : EntriesOf(a, t, ref) = {}
  BY DEF RewardsInit, WalletInit, EntriesOf
<1>3. RewardsTypeOK
  <2>1. WalletTypeOK
    BY DEF RewardsInit, WalletInit, WalletTypeOK
  <2> QED
    BY <2>1, RewardAssumption DEF RewardsInit, RewardsTypeOK, Day
<1> QED
  BY <1>1, <1>2, <1>3
  DEF RewardsIInv, RewardsInit, OneRowADay, CallOK, PayApart, PaidOnce, SignedUpOnce, CheckinPaid,
      SignupPaid, FreeSession, CheckingIn, Linking, Claiming

-----------------------------------------------------------------------------
(* Rewards: what every step needs *)

LEMMA StreakIsBounded ==
    ASSUME NEW a \in Account, NEW d
    PROVE  CountConsecutive(a, d) + 1 \in 1 .. LookBack + 1
<1> DEFINE run == {k \in 0 .. LookBack - 1 : \A j \in 0 .. k : CheckedIn(a, d - j)}
<1>1. IsFiniteSet(0 .. LookBack - 1) /\ Cardinality(0 .. LookBack - 1) = LookBack
  <2>1. 0 \in Int /\ LookBack - 1 \in Int /\ ~ 0 > LookBack - 1 /\ LookBack - 1 - 0 + 1 = LookBack
    BY RewardAssumption
  <2> QED
    BY <2>1, FS_Interval
<1>2. run \subseteq 0 .. LookBack - 1
  OBVIOUS
<1> HIDE DEF run
<1>3. IsFiniteSet(run) /\ Cardinality(run) <= LookBack
  BY <1>1, <1>2, FS_Subset
<1>4. Cardinality(run) \in Nat
  BY <1>3, FS_CardinalityType
<1> QED
  BY <1>3, <1>4, RewardAssumption DEF CountConsecutive, run

\* A call's step that pays nothing.
RewardsMove(s, c) == request' = [request EXCEPT ![s] = c]

LEMMA NothingPaid ==
    ASSUME RewardsIInv, WalletTypeOK', ledger' = ledger,
           NEW s \in Session, NEW c \in Call \union {FreeSession}, RewardsMove(s, c),
           today' \in Day, referrer' \in [Account -> Account \union {NoAccount}],
           failures' \in 0 .. MaxFailures,
           checkins' \subseteq Row, checkins \subseteq checkins', OneRowADay',
           events' \subseteq Account \X Account, events \subseteq events',
           CallOK(c)', \A t \in Session \ {s} : PayApart(c, request[t])
    PROVE  RewardsIInv'
<1>1. /\ request'[s] = c
      /\ \A t \in Session \ {s} : request'[t] = request[t]
      /\ request' \in [Session -> Call \union {FreeSession}]
  BY DEF RewardsIInv, RewardsTypeOK, RewardsMove
<1>2. RewardsTypeOK'
  BY <1>1 DEF RewardsTypeOK
<1>3. /\ \A a, d : CheckinPaid(a, d)' = CheckinPaid(a, d)
      /\ \A r, a : SignupPaid(r, a)' = SignupPaid(r, a)
  BY DEF CheckinPaid, SignupPaid, EntriesOf
<1>4. ASSUME NEW t \in Session
      PROVE  CallOK(request[t])'
  <2>1. CASE t = s
    BY <1>1, <1>3, <2>1 DEF CallOK
  <2>2. CASE t # s
    <3>1. PICK d : d = request[t]
      OBVIOUS
    <3>2. CallOK(d)
      BY <3>1 DEF RewardsIInv
    <3>3. CallOK(d)'
      BY <1>3, <3>2 DEF CallOK
    <3> QED
      BY <1>1, <2>2, <3>1, <3>3 DEF CallOK, CheckinPaid, SignupPaid, EntriesOf
  <2> QED
    BY <2>1, <2>2
<1>5. \A t, u \in Session : t # u => PayApart(request[t], request[u])'
  BY <1>1 DEF RewardsIInv, PayApart
<1>6. \A a \in Account, d \in Day : PaidOnce(a, d)'
  BY <1>3 DEF RewardsIInv, PaidOnce
<1>7. \A r, a \in Account : SignedUpOnce(r, a)'
  BY <1>3 DEF RewardsIInv, SignedUpOnce
<1> QED
  BY <1>2, <1>5, <1>6, <1>7, <1>4 DEF RewardsIInv

\* A call moves on to another pc.
LEMMA GotoMoves ==
    ASSUME RewardsTypeOK, NEW s \in Session, request[s].pc # "free",
           NEW pc \in CheckingIn \union Linking, Goto(s, pc)
    PROVE  \E c \in Call :
              /\ RewardsMove(s, c) /\ c.pc = pc
              /\ c.acct = request[s].acct /\ c.other = request[s].other
              /\ c.day = request[s].day /\ c.streak = request[s].streak
<1>1. request[s] \in Call
  BY DEF RewardsTypeOK, FreeSession
<1> DEFINE c == [request[s] EXCEPT !.pc = pc]
<1>2. RewardsMove(s, c)
  BY DEF Goto, RewardsMove, RewardsTypeOK
<1>3. /\ c \in Call /\ c.pc = pc
      /\ c.acct = request[s].acct /\ c.other = request[s].other
      /\ c.day = request[s].day /\ c.streak = request[s].streak
  BY <1>1 DEF Call, CheckingIn, Linking
<1> QED
  BY <1>2, <1>3

LEMMA FinishIsQuiet ==
    ASSUME RewardsIInv, NEW s \in Session, Finish(s),
           UNCHANGED <<walletVars, today, checkins, referrer, events>>,
           failures' \in 0 .. MaxFailures
    PROVE  RewardsIInv'
<1>1. RewardsMove(s, FreeSession)
  BY DEF Finish, RewardsMove
<1>2. WalletTypeOK' /\ ledger' = ledger
  BY DEF RewardsIInv, RewardsTypeOK, WalletTypeOK, walletVars
<1>3. CallOK(FreeSession)' /\ \A t \in Session : PayApart(FreeSession, request[t])
  BY DEF CallOK, PayApart, FreeSession, CheckingIn, Linking, Claiming
<1> QED
  BY <1>1, <1>2, <1>3, NothingPaid DEF RewardsIInv, RewardsTypeOK, OneRowADay

\* The call a session serves.
LEMMA CallOf ==
    ASSUME RewardsIInv, NEW s \in Session, request[s].pc # "free"
    PROVE  /\ request[s] \in Call /\ CallOK(request[s])
           /\ request[s].acct \in Account
           /\ request[s].pc \in Linking => request[s].other \in Account
BY SMTT(30) DEF RewardsIInv, RewardsTypeOK, Call, CallOK, FreeSession

LEMMA WalletStays ==
    ASSUME RewardsIInv, UNCHANGED walletVars
    PROVE  WalletTypeOK' /\ ledger' = ledger
BY DEF RewardsIInv, RewardsTypeOK, WalletTypeOK, walletVars

LEMMA WalletIsMade ==
    ASSUME RewardsIInv, NEW a \in Account, GetOrCreate(a)
    PROVE  WalletTypeOK' /\ ledger' = ledger
BY DEF RewardsIInv, RewardsTypeOK, WalletTypeOK, GetOrCreate

-----------------------------------------------------------------------------
(* Rewards: the steps *)

LEMMA RewardCredited ==
    ASSUME WalletTypeOK, NEW a \in Account, NEW amt \in Amount, NEW ref \in Ref,
           Credit(a, "credit", amt, ref)
    PROVE  /\ WalletTypeOK'
           /\ \A b \in Account, r \in Ref :
                /\ b # a \/ r # ref => EntriesOf(b, "credit", r)' = EntriesOf(b, "credit", r)
                /\ \A i \in EntriesOf(b, "credit", r) : ledger'[b][i] = ledger[b][i]
           /\ EntriesOf(a, "credit", ref) = {} =>
                \E n \in Int : EntriesOf(a, "credit", ref)' = {n} /\ ledger'[a][n].amount = amt
<1>1. PICK e : e = NewEntry(a, "credit", amt, ref)
  OBVIOUS
<1>2. e \in Entry /\ e.type = "credit" /\ e.ref = ref /\ e.amount = amt
  <2>1. NewEntry(a, "credit", amt, ref) \in Entry
    BY NewEntryType, WalletAssumption DEF TxType, CreditType
  <2> QED
    BY <1>1, <2>1 DEF NewEntry
<1>3. ledger' = [ledger EXCEPT ![a] = Append(@, e)]
  BY <1>1 DEF Credit
<1>4. WalletTypeOK'
  <2>1. WalletNext
    BY DEF WalletNext, CreditType
  <2> QED
    BY <2>1, WalletTypeStep
<1>5. ASSUME NEW b \in Account, NEW r \in Ref
      PROVE  /\ b # a \/ r # ref => EntriesOf(b, "credit", r)' = EntriesOf(b, "credit", r)
             /\ \A i \in EntriesOf(b, "credit", r) : ledger'[b][i] = ledger[b][i]
  <2>1. /\ b # a \/ e.type # "credit" \/ e.ref # r =>
              EntriesOf(b, "credit", r)' = EntriesOf(b, "credit", r)
        /\ \A i \in EntriesOf(b, "credit", r) : ledger'[b][i] = ledger[b][i]
    BY <1>2, <1>3, AppendedEntries DEF EntriesOf
  <2> QED
    BY <1>2, <2>1
<1>6. ASSUME EntriesOf(a, "credit", ref) = {}
      PROVE  \E n \in Int : EntriesOf(a, "credit", ref)' = {n} /\ ledger'[a][n].amount = amt
  <2>1. EntriesOf(a, e.type, e.ref) = {}
    BY <1>2, <1>6
  <2>2. PICK n \in Int : EntriesOf(a, e.type, e.ref)' = {n} /\ ledger'[a][n] = e
    BY <1>2, <1>3, <2>1, FirstEntry
  <2> QED
    BY <1>2, <2>2
<1> QED
  BY <1>4, <1>5, <1>6

LEMMA RewardRefs ==
    /\ \A a \in Account, d \in Day : CheckinRef[<<a, d>>] \in Ref
    /\ \A a \in Account : RefereeRef[a] \in Ref
    /\ \A a, b \in Account, d, f \in Day :
        CheckinRef[<<a, d>>] = CheckinRef[<<b, f>>] => a = b /\ d = f
    /\ \A a, b \in Account : RefereeRef[a] = RefereeRef[b] => a = b
    /\ \A a, b \in Account, d \in Day : CheckinRef[<<a, d>>] # RefereeRef[b]
<1>1. \A a \in Account, d \in Day : <<a, d>> \in Account \X Day
  OBVIOUS
<1>2. \A a, b \in Account, d, f \in Day : <<a, d>> = <<b, f>> => a = b /\ d = f
  OBVIOUS
<1> QED
  BY <1>1, <1>2, RewardAssumption

\* A credit ends its call.
LEMMA CreditEnds ==
    ASSUME RewardsIInv, NEW s \in Session, Finish(s), WalletTypeOK',
           UNCHANGED <<today, checkins, referrer, events, failures>>,
           \A t \in Session \ {s} : CallOK(request[t])',
           \A a \in Account, d \in Day : PaidOnce(a, d)',
           \A r, a \in Account : SignedUpOnce(r, a)'
    PROVE  RewardsIInv'
<1>1. /\ request'[s] = FreeSession
      /\ \A t \in Session \ {s} : request'[t] = request[t]
      /\ request' \in [Session -> Call \union {FreeSession}]
  BY DEF RewardsIInv, RewardsTypeOK, Finish
<1>2. CallOK(request[s])'
  BY <1>1 DEF CallOK, FreeSession, CheckingIn, Linking, Claiming
<1>3. \A t, u \in Session : t # u => PayApart(request[t], request[u])'
  BY <1>1 DEF RewardsIInv, PayApart, FreeSession, Claiming
<1>4. RewardsTypeOK' /\ OneRowADay'
  BY <1>1 DEF RewardsIInv, RewardsTypeOK, OneRowADay
<1> QED
  BY <1>2, <1>3, <1>4 DEF RewardsIInv

LEMMA CreditCheckinStep ==
    ASSUME RewardsIInv, NEW s \in Session, CreditCheckin(s)
    PROVE  RewardsIInv'
<1>1. /\ request[s].pc = "creditCheckin" /\ request[s].pc \in CheckingIn
      /\ Credit(request[s].acct, "credit", CheckinReward(request[s].streak),
                CheckinRef[<<request[s].acct, request[s].day>>])
      /\ Finish(s) /\ UNCHANGED <<today, checkins, referrer, events, failures>>
  BY DEF CreditCheckin, CheckingIn
<1>2. PICK a \in Account, d \in Day, amt \in Amount, ref \in Ref :
        /\ a = request[s].acct /\ d = request[s].day
        /\ amt = CheckinReward(request[s].streak) /\ ref = CheckinRef[<<a, d>>]
  <2>1. /\ request[s].acct \in Account /\ request[s].day \in Day
        /\ request[s].streak \in 1 .. LookBack + 1
    BY <1>1, CallOf DEF CallOK
  <2>2. CheckinReward(request[s].streak) \in Amount
    BY <2>1, RewardAssumption
  <2>3. CheckinRef[<<request[s].acct, request[s].day>>] \in Ref
    BY <2>1, RewardRefs
  <2> QED
    BY <2>1, <2>2, <2>3
<1>3. /\ [acct |-> a, day |-> d, reward |-> amt] \in checkins
      /\ EntriesOf(a, "credit", ref) = {}
      /\ WalletTypeOK
  BY <1>1, <1>2, CallOf DEF CallOK, CheckinPaid, RewardsIInv, RewardsTypeOK
<1>4. /\ WalletTypeOK'
      /\ \A b \in Account, r \in Ref :
            /\ b # a \/ r # ref => EntriesOf(b, "credit", r)' = EntriesOf(b, "credit", r)
            /\ \A i \in EntriesOf(b, "credit", r) : ledger'[b][i] = ledger[b][i]
      /\ \E n \in Int : EntriesOf(a, "credit", ref)' = {n} /\ ledger'[a][n].amount = amt
  <2>1. Credit(a, "credit", amt, ref)
    BY <1>1, <1>2
  <2> QED
    BY <1>3, <2>1, RewardCredited
<1>5. ASSUME NEW b \in Account, NEW f \in Day, b # a \/ f # d
      PROVE  CheckinPaid(b, f)' = CheckinPaid(b, f)
  <2>1. CheckinRef[<<b, f>>] \in Ref /\ CheckinRef[<<b, f>>] # ref
    BY <1>2, <1>5, RewardRefs
  <2> QED
    BY <1>4, <2>1 DEF CheckinPaid
<1>6. ASSUME NEW r \in Account, NEW b \in Account
      PROVE  SignupPaid(r, b)' = SignupPaid(r, b)
  <2>1. RefereeRef[b] \in Ref /\ RefereeRef[b] # ref
    BY <1>2, RewardRefs
  <2> QED
    BY <1>4, <2>1 DEF SignupPaid
<1>7. PaidOnce(a, d)'
  BY <1>1, <1>2, <1>3, <1>4 DEF PaidOnce, CheckinPaid
<1>8. ASSUME NEW b \in Account, NEW f \in Day, b # a \/ f # d
      PROVE  PaidOnce(b, f)'
  <2>1. PaidOnce(b, f) /\ CheckinPaid(b, f)' = CheckinPaid(b, f) /\ CheckinRef[<<b, f>>] \in Ref
    BY <1>5, <1>8, RewardRefs DEF RewardsIInv
  <2>2. \A i \in CheckinPaid(b, f) : ledger'[b][i] = ledger[b][i]
    BY <1>4, <2>1 DEF CheckinPaid
  <2> QED
    BY <1>1, <2>1, <2>2 DEF PaidOnce
<1>9. ASSUME NEW t \in Session \ {s}
      PROVE  CallOK(request[t])'
  <2>1. PICK c : c = request[t]
    OBVIOUS
  <2>2. CallOK(c) /\ PayApart(request[s], c) /\ c \in Call \union {FreeSession}
    BY <2>1 DEF RewardsIInv, RewardsTypeOK
  <2>3. c.pc = "creditCheckin" => CheckinPaid(c.acct, c.day)' = {}
    BY <1>1, <1>2, <1>5, <2>2 DEF PayApart, CallOK, Call, FreeSession, CheckingIn
  <2>4. c.pc \in Claiming => SignupPaid(c.other, c.acct)' = {}
    BY <1>6, <2>2 DEF CallOK, Call, FreeSession, Claiming, Linking
  <2>5. CallOK(c)'
    BY <1>1, <2>2, <2>3, <2>4 DEF CallOK
  <2>6. request'[t] = c
    BY <1>1, <2>1 DEF Finish, RewardsIInv, RewardsTypeOK
  <2> QED
    BY <2>5, <2>6 DEF CallOK, CheckinPaid, SignupPaid, EntriesOf
<1>10. ASSUME NEW r \in Account, NEW b \in Account
       PROVE  SignedUpOnce(r, b)'
  <2>1. SignedUpOnce(r, b) /\ SignupPaid(r, b)' = SignupPaid(r, b)
    BY <1>6 DEF RewardsIInv
  <2> QED
    BY <1>1, <2>1 DEF SignedUpOnce
<1>11. \A b \in Account, f \in Day : PaidOnce(b, f)'
  BY <1>7, <1>8
<1> QED
  BY <1>1, <1>4, <1>9, <1>10, <1>11, CreditEnds

LEMMA CreditReferrerStep ==
    ASSUME RewardsIInv, NEW s \in Session, CreditReferrer(s)
    PROVE  RewardsIInv'
<1>1. /\ request[s].pc = "creditReferrer" /\ request[s].pc \in Claiming /\ request[s].pc \in Linking
      /\ Credit(request[s].other, "credit", RewardSignup, RefereeRef[request[s].acct])
      /\ Finish(s) /\ UNCHANGED <<today, checkins, referrer, events, failures>>
  BY DEF CreditReferrer, Claiming, Linking
<1>2. PICK r \in Account, a \in Account, ref \in Ref :
        r = request[s].other /\ a = request[s].acct /\ ref = RefereeRef[a]
  BY <1>1, CallOf, RewardRefs
<1>3. <<r, a>> \in events /\ EntriesOf(r, "credit", ref) = {} /\ WalletTypeOK
  BY <1>1, <1>2, CallOf DEF CallOK, SignupPaid, RewardsIInv, RewardsTypeOK
<1>4. /\ WalletTypeOK'
      /\ \A b \in Account, x \in Ref :
            /\ b # r \/ x # ref => EntriesOf(b, "credit", x)' = EntriesOf(b, "credit", x)
            /\ \A i \in EntriesOf(b, "credit", x) : ledger'[b][i] = ledger[b][i]
      /\ \E n \in Int : EntriesOf(r, "credit", ref)' = {n} /\ ledger'[r][n].amount = RewardSignup
  <2>1. Credit(r, "credit", RewardSignup, ref) /\ RewardSignup \in Amount
    BY <1>1, <1>2, RewardAssumption
  <2> QED
    BY <1>3, <2>1, RewardCredited
<1>5. ASSUME NEW q \in Account, NEW b \in Account, q # r \/ b # a
      PROVE  SignupPaid(q, b)' = SignupPaid(q, b)
  <2>1. RefereeRef[b] \in Ref /\ (q # r \/ RefereeRef[b] # ref)
    BY <1>2, <1>5, RewardRefs
  <2> QED
    BY <1>4, <2>1 DEF SignupPaid
<1>6. ASSUME NEW b \in Account, NEW f \in Day
      PROVE  /\ CheckinPaid(b, f)' = CheckinPaid(b, f)
             /\ \A i \in CheckinPaid(b, f) : ledger'[b][i] = ledger[b][i]
  <2>1. CheckinRef[<<b, f>>] \in Ref /\ CheckinRef[<<b, f>>] # ref
    BY <1>2, RewardRefs
  <2> QED
    BY <1>4, <2>1 DEF CheckinPaid
<1>7. SignedUpOnce(r, a)'
  BY <1>1, <1>2, <1>3, <1>4 DEF SignedUpOnce, SignupPaid
<1>8. ASSUME NEW q \in Account, NEW b \in Account
      PROVE  SignedUpOnce(q, b)'
  <2>1. CASE q = r /\ b = a
    BY <1>7, <2>1 DEF SignedUpOnce, SignupPaid, EntriesOf
  <2>2. CASE q # r \/ b # a
    <3>1. SignedUpOnce(q, b) /\ SignupPaid(q, b)' = SignupPaid(q, b)
      BY <1>5, <2>2 DEF RewardsIInv
    <3> QED
      BY <1>1, <3>1 DEF SignedUpOnce
  <2> QED
    BY <2>1, <2>2
<1>9. ASSUME NEW t \in Session \ {s}
      PROVE  CallOK(request[t])'
  <2>1. PICK c : c = request[t]
    OBVIOUS
  <2>2. CallOK(c) /\ PayApart(request[s], c) /\ c \in Call \union {FreeSession}
    BY <2>1 DEF RewardsIInv, RewardsTypeOK
  <2>3. c.pc = "creditCheckin" => CheckinPaid(c.acct, c.day)' = {}
    BY <1>6, <2>2 DEF CallOK, Call, FreeSession, CheckingIn
  <2>4. c.pc \in Claiming => SignupPaid(c.other, c.acct)' = {}
    BY <1>1, <1>2, <1>5, <2>2 DEF PayApart, CallOK, Call, FreeSession, Claiming, Linking
  <2>5. CallOK(c)'
    BY <1>1, <2>2, <2>3, <2>4 DEF CallOK
  <2>6. request'[t] = c
    BY <1>1, <2>1 DEF Finish, RewardsIInv, RewardsTypeOK
  <2> QED
    BY <2>5, <2>6 DEF CallOK, CheckinPaid, SignupPaid, EntriesOf
<1>10. ASSUME NEW b \in Account, NEW f \in Day
       PROVE  PaidOnce(b, f)'
  <2>1. PaidOnce(b, f)
    BY DEF RewardsIInv
  <2> QED
    BY <1>1, <1>6, <2>1 DEF PaidOnce
<1> QED
  BY <1>1, <1>4, <1>8, <1>9, <1>10, CreditEnds

\* The steps before a credit: what they insert is what makes the credit theirs.
LEMMA BeginStep ==
    ASSUME RewardsIInv, NEW s \in Session, NEW a \in Account,
           BeginCheckin(s, a) \/ \E r \in Account : BeginLink(s, a, r)
    PROVE  RewardsIInv'
<1>1. UNCHANGED <<walletVars, today, checkins, referrer, events, failures>>
  BY DEF BeginCheckin, BeginLink
<1>2. WalletTypeOK' /\ ledger' = ledger
  BY <1>1, WalletStays
<1>3. CASE BeginCheckin(s, a)
  <2>1. PICK c : c = [FreeSession EXCEPT !.pc = "lookup", !.acct = a, !.day = today]
    OBVIOUS
  <2>2. today \in 1 .. MaxDay /\ today \in 0 .. MaxDay /\ 0 \in 0 .. LookBack + 1
    BY RewardAssumption DEF RewardsIInv, RewardsTypeOK, Day
  <2>3. c \in Call /\ c.pc = "lookup" /\ c.day \in Day
    BY <2>1, <2>2 DEF Call, Day, FreeSession
  <2>4. RewardsMove(s, c)
    BY <1>3, <2>1 DEF BeginCheckin, RewardsMove
  <2>5. CallOK(c)' /\ \A t \in Session : PayApart(c, request[t])
    BY <2>3 DEF CallOK, PayApart, Linking, Claiming
  <2> QED
    BY <1>1, <1>2, <2>3, <2>4, <2>5, NothingPaid DEF RewardsIInv, RewardsTypeOK, OneRowADay
<1>4. ASSUME NEW r \in Account, BeginLink(s, a, r)
      PROVE  RewardsIInv'
  <2>1. PICK c : c = [FreeSession EXCEPT !.pc = "link", !.acct = a, !.other = r]
    OBVIOUS
  <2>2. 0 \in 0 .. MaxDay /\ 0 \in 0 .. LookBack + 1
    BY RewardAssumption
  <2>3. c \in Call /\ c.pc = "link" /\ c.other \in Account
    BY <2>1, <2>2 DEF Call, FreeSession
  <2>4. RewardsMove(s, c)
    BY <1>4, <2>1 DEF BeginLink, RewardsMove
  <2>5. CallOK(c)' /\ \A t \in Session : PayApart(c, request[t])
    BY <2>3 DEF CallOK, PayApart, CheckingIn, Claiming
  <2> QED
    BY <1>1, <1>2, <2>3, <2>4, <2>5, NothingPaid DEF RewardsIInv, RewardsTypeOK, OneRowADay
<1> QED
  BY <1>3, <1>4

LEMMA BeforeInsertStep ==
    ASSUME RewardsIInv, NEW s \in Session,
           LookUpToday(s) \/ CountStreak(s) \/ LinkReferrer(s)
    PROVE  RewardsIInv'
<1>1. /\ UNCHANGED <<walletVars, today, checkins, events, failures>>
      /\ request[s].pc \in {"lookup", "count", "link"} /\ request[s].pc # "free"
  BY DEF LookUpToday, CountStreak, LinkReferrer
<1>2. WalletTypeOK' /\ ledger' = ledger
  BY <1>1, WalletStays
<1>3. request[s] \in Call /\ CallOK(request[s]) /\ request[s].acct \in Account
  BY <1>1, CallOf
<1>4. referrer' \in [Account -> Account \union {NoAccount}]
  BY <1>1, <1>3
  DEF LookUpToday, CountStreak, LinkReferrer, RewardsIInv, RewardsTypeOK, CallOK, Linking
<1>5. CASE Finish(s)
  <2>1. UNCHANGED referrer
    BY <1>1, <1>5 DEF LookUpToday, CountStreak, LinkReferrer, Finish, Goto, RewardsIInv,
       RewardsTypeOK, FreeSession
  <2> QED
    BY <1>1, <1>5, <2>1, FinishIsQuiet DEF RewardsIInv, RewardsTypeOK
<1>6. ASSUME NEW c \in Call, RewardsMove(s, c), c.pc \in {"count", "insert", "claim"},
             c.day = request[s].day, c.other = request[s].other,
             c.pc = "claim" => request[s].pc = "link",
             c.pc # "claim" => request[s].pc # "link",
             c.pc = "insert" => c.streak \in 1 .. LookBack + 1
      PROVE  RewardsIInv'
  <2>1. CallOK(c)' /\ \A t \in Session : PayApart(c, request[t])
    BY <1>1, <1>3, <1>6 DEF CallOK, PayApart, CheckingIn, Linking, Claiming
  <2> QED
    BY <1>1, <1>2, <1>4, <1>6, <2>1, NothingPaid DEF RewardsIInv, RewardsTypeOK, OneRowADay
<1>7. CASE LookUpToday(s) /\ Goto(s, "count")
  BY <1>1, <1>6, <1>7, GotoMoves DEF LookUpToday, CheckingIn, RewardsIInv
<1>8. CASE LinkReferrer(s)
  BY <1>1, <1>6, <1>8, GotoMoves DEF LinkReferrer, Linking, RewardsIInv
<1>9. CASE CountStreak(s)
  <2> DEFINE n == CountConsecutive(request[s].acct, today - 1) + 1
             c == [request[s] EXCEPT !.pc = "insert", !.streak = n]
  <2>1. n \in 1 .. LookBack + 1
    BY <1>3, StreakIsBounded
  <2>2. n \in 0 .. LookBack + 1
    BY <2>1, RewardAssumption
  <2>3. request' = [request EXCEPT ![s].pc = "insert", ![s].streak = n]
    BY <1>9 DEF CountStreak
  <2> HIDE DEF n
  <2>4. /\ c \in Call /\ c.pc = "insert" /\ c.streak = n
        /\ c.day = request[s].day /\ c.other = request[s].other
    BY <1>3, <2>2 DEF Call
  <2>5. RewardsMove(s, c)
    BY <2>3 DEF RewardsMove, RewardsIInv, RewardsTypeOK
  <2>6. request[s].pc = "count"
    BY <1>9 DEF CountStreak
  <2> HIDE DEF c
  <2> QED
    BY <1>6, <2>1, <2>4, <2>5, <2>6
<1> QED
  BY <1>5, <1>7, <1>8, <1>9 DEF LookUpToday, CountStreak, LinkReferrer

LEMMA InsertCheckinStep ==
    ASSUME RewardsIInv, NEW s \in Session, InsertCheckin(s)
    PROVE  RewardsIInv'
<1>1. /\ request[s].pc = "insert" /\ request[s].pc \in CheckingIn
      /\ UNCHANGED <<walletVars, today, referrer, events, failures>>
  BY DEF InsertCheckin, CheckingIn
<1>2. WalletTypeOK' /\ ledger' = ledger
  BY <1>1, WalletStays
<1>3. /\ request[s] \in Call /\ CallOK(request[s])
      /\ request[s].acct \in Account /\ request[s].day \in Day
      /\ request[s].streak \in 1 .. LookBack + 1
  BY <1>1, CallOf DEF CallOK
<1>4. CASE Admits(request[s].acct, request[s].day)
  <2> DEFINE row == [acct |-> request[s].acct, day |-> request[s].day,
                     reward |-> CheckinReward(request[s].streak)]
  <2>1. checkins' = checkins \union {row} /\ Goto(s, "creditCheckin")
    BY <1>4 DEF InsertCheckin
  <2>2. row \in Row
    BY <1>3, RewardAssumption, WalletAssumption DEF Row
  <2>3. PICK c \in Call :
          /\ RewardsMove(s, c) /\ c.pc = "creditCheckin"
          /\ c.acct = request[s].acct /\ c.other = request[s].other
          /\ c.day = request[s].day /\ c.streak = request[s].streak
    BY <1>1, <2>1, GotoMoves DEF RewardsIInv, CheckingIn
  <2>4. [acct |-> c.acct, day |-> c.day, reward |-> CheckinReward(c.streak)] = row
    BY <2>3
  <2>5. row.acct = c.acct /\ row.day = c.day
    BY <2>3
  <2> HIDE DEF row
  <2>6. \A p \in checkins : p.acct = c.acct => p.day # c.day
    BY <1>4, <2>3 DEF Admits, CheckedIn
  <2>7. OneRowADay'
    BY <2>1, <2>5, <2>6 DEF OneRowADay, RewardsIInv
  <2>8. checkins' \subseteq Row /\ checkins \subseteq checkins'
    BY <2>1, <2>2 DEF RewardsIInv, RewardsTypeOK
  <2>9. CheckinPaid(c.acct, c.day) = {}
    BY <1>3, <2>3, <2>6 DEF RewardsIInv, PaidOnce
  <2>10. CheckinPaid(c.acct, c.day)' = {}
    BY <1>2, <2>9 DEF CheckinPaid, EntriesOf
  <2>11. CallOK(c)'
    BY <1>3, <2>1, <2>3, <2>4, <2>10 DEF CallOK, CheckingIn, Linking, Claiming
  <2>12. \A t \in Session \ {s} : PayApart(c, request[t])
    BY <2>3, <2>6 DEF PayApart, RewardsIInv, CallOK, Claiming
  <2> QED
    BY <1>1, <1>2, <2>3, <2>7, <2>8, <2>11, <2>12, NothingPaid DEF RewardsIInv, RewardsTypeOK
<1>5. CASE ~ Admits(request[s].acct, request[s].day)
  BY <1>1, <1>5, FinishIsQuiet DEF InsertCheckin, RewardsIInv, RewardsTypeOK
<1> QED
  BY <1>4, <1>5

LEMMA ClaimEventStep ==
    ASSUME RewardsIInv, NEW s \in Session, ClaimEvent(s)
    PROVE  RewardsIInv'
<1>1. /\ request[s].pc = "claim" /\ request[s].pc \in Linking
      /\ UNCHANGED <<walletVars, today, checkins, referrer, failures>>
  BY DEF ClaimEvent, Linking
<1>2. WalletTypeOK' /\ ledger' = ledger
  BY <1>1, WalletStays
<1>3. request[s].acct \in Account /\ request[s].other \in Account
  BY <1>1, CallOf
<1>4. CASE Claimed(request[s].other, request[s].acct)
  BY <1>1, <1>4, FinishIsQuiet DEF ClaimEvent, RewardsIInv, RewardsTypeOK
<1>5. CASE ~ Claimed(request[s].other, request[s].acct)
  <2>1. Goto(s, "wallet") /\ events' = events \union {<<request[s].other, request[s].acct>>}
    BY <1>5 DEF ClaimEvent
  <2>2. PICK c \in Call :
          /\ RewardsMove(s, c) /\ c.pc = "wallet"
          /\ c.acct = request[s].acct /\ c.other = request[s].other
    BY <1>1, <2>1, GotoMoves DEF RewardsIInv, Linking
  <2>3. <<c.other, c.acct>> \notin events
    BY <1>5, <2>2 DEF Claimed
  <2>4. SignupPaid(c.other, c.acct) = {}
    BY <1>3, <2>2, <2>3 DEF RewardsIInv, SignedUpOnce
  <2>5. SignupPaid(c.other, c.acct)' = {}
    BY <1>2, <2>4 DEF SignupPaid, EntriesOf
  <2>6. CallOK(c)'
    BY <1>3, <2>1, <2>2, <2>5 DEF CallOK, CheckingIn
  <2>7. \A t \in Session \ {s} : PayApart(c, request[t])
    BY <2>2, <2>3 DEF PayApart, RewardsIInv, CallOK
  <2>8. events' \subseteq Account \X Account /\ events \subseteq events'
    BY <1>3, <2>1 DEF RewardsIInv, RewardsTypeOK
  <2> QED
    BY <1>1, <1>2, <2>2, <2>6, <2>7, <2>8, NothingPaid DEF RewardsIInv, RewardsTypeOK, OneRowADay
<1> QED
  BY <1>4, <1>5

LEMMA ReferrerWalletStep ==
    ASSUME RewardsIInv, NEW s \in Session, ReferrerWallet(s)
    PROVE  RewardsIInv'
<1>1. /\ request[s].pc = "wallet" /\ request[s].pc \in Linking
      /\ EnsureWallet(request[s].other) /\ Goto(s, "creditReferrer")
      /\ UNCHANGED <<today, checkins, referrer, events, failures>>
  BY DEF ReferrerWallet, Linking
<1>2. request[s].other \in Account /\ CallOK(request[s])
  BY <1>1, CallOf
<1>3. WalletTypeOK' /\ ledger' = ledger
  BY <1>1, <1>2, WalletStays, WalletIsMade DEF EnsureWallet
<1>4. PICK c \in Call :
        /\ RewardsMove(s, c) /\ c.pc = "creditReferrer"
        /\ c.acct = request[s].acct /\ c.other = request[s].other
  BY <1>1, GotoMoves DEF RewardsIInv, Linking
<1>5. <<c.other, c.acct>> \in events /\ SignupPaid(c.other, c.acct) = {}
  BY <1>1, <1>2, <1>4 DEF CallOK, Claiming
<1>6. SignupPaid(c.other, c.acct)' = {}
  BY <1>3, <1>5 DEF SignupPaid, EntriesOf
<1>7. CallOK(c)'
  BY <1>1, <1>2, <1>4, <1>5, <1>6 DEF CallOK, CheckingIn
<1>8. \A t \in Session \ {s} : PayApart(c, request[t])
  BY <1>1, <1>4 DEF PayApart, RewardsIInv, Claiming
<1> QED
  BY <1>1, <1>3, <1>4, <1>7, <1>8, NothingPaid DEF RewardsIInv, RewardsTypeOK, OneRowADay

\* Steps that are no call's.
LEMMA OutsideStep ==
    ASSUME RewardsIInv, WalletTypeOK', ledger' = ledger, today' \in Day,
           UNCHANGED <<checkins, referrer, events, request, failures>>
    PROVE  RewardsIInv'
<1>1. /\ \A a, d : CheckinPaid(a, d)' = CheckinPaid(a, d)
      /\ \A r, a : SignupPaid(r, a)' = SignupPaid(r, a)
  BY DEF CheckinPaid, SignupPaid, EntriesOf
<1>2. \A s \in Session : CallOK(request[s])'
  <2> SUFFICES ASSUME NEW s \in Session
               PROVE  CallOK(request[s])'
    OBVIOUS
  <2>1. PICK c : c = request[s]
    OBVIOUS
  <2>2. CallOK(c)'
    BY <1>1, <2>1 DEF RewardsIInv, CallOK
  <2> QED
    BY <2>1, <2>2 DEF CallOK, CheckinPaid, SignupPaid, EntriesOf
<1>3. \A a \in Account, d \in Day : PaidOnce(a, d)'
  BY <1>1 DEF RewardsIInv, PaidOnce
<1>4. \A r, a \in Account : SignedUpOnce(r, a)'
  BY <1>1 DEF RewardsIInv, SignedUpOnce
<1> QED
  BY <1>2, <1>3, <1>4 DEF RewardsIInv, RewardsTypeOK, OneRowADay, PayApart

LEMMA RewardsStep == RewardsIInv /\ [RewardsNext]_walletRewardVars => RewardsIInv'
<1> SUFFICES ASSUME RewardsIInv, [RewardsNext]_walletRewardVars
             PROVE  RewardsIInv'
  OBVIOUS
<1>1. CASE UNCHANGED walletRewardVars
  <2>1. UNCHANGED <<walletVars, today, checkins, referrer, events, request, failures>>
    BY <1>1 DEF walletRewardVars, rewardVars
  <2> QED
    BY <2>1, WalletStays, OutsideStep DEF RewardsIInv, RewardsTypeOK
<1>2. ASSUME NEW a \in Account, CreateWallet(a)
      PROVE  RewardsIInv'
  BY <1>2, WalletIsMade, OutsideStep DEF CreateWallet, rewardVars, RewardsIInv, RewardsTypeOK
<1>3. CASE Midnight
  <2>1. today' \in Day
    BY <1>3, RewardAssumption DEF Midnight, RewardsIInv, RewardsTypeOK, Day
  <2> QED
    BY <1>3, <2>1, WalletStays, OutsideStep DEF Midnight
<1>4. ASSUME NEW s \in Session, CallFails(s)
      PROVE  RewardsIInv'
  <2>1. failures' \in 0 .. MaxFailures
    BY <1>4, RewardAssumption DEF CallFails, RewardsIInv, RewardsTypeOK
  <2> QED
    BY <1>4, <2>1, FinishIsQuiet DEF CallFails
<1> QED
  BY <1>1, <1>2, <1>3, <1>4, BeginStep, BeforeInsertStep, InsertCheckinStep, CreditCheckinStep,
     ClaimEventStep, ReferrerWalletStep, CreditReferrerStep
  DEF RewardsNext, RequestStep

-----------------------------------------------------------------------------
(* Rewards: what the invariant is for *)

LEMMA RewardsIInvImplies == RewardsIInv => RewardsInv
<1> SUFFICES ASSUME RewardsIInv
             PROVE  RewardsInv
  OBVIOUS
<1>1. ASSUME NEW a \in Account, NEW d \in Day
      PROVE  LET rows == {row \in checkins : row.acct = a /\ row.day = d}
                 paid == EntriesOf(a, "credit", CheckinRef[<<a, d>>])
             IN  /\ Cardinality(paid) <= Cardinality(rows)
                 /\ Cardinality(rows) <= 1
                 /\ \A i \in paid, row \in rows : ledger[a][i].amount = row.reward
  <2> DEFINE rows == {row \in checkins : row.acct = a /\ row.day = d}
             paid == CheckinPaid(a, d)
  <2>1. rows = {} \/ \E row : rows = {row}
    BY DEF RewardsIInv, OneRowADay
  <2>2. Cardinality(rows) \in {0, 1} /\ (rows # {} => Cardinality(rows) = 1)
    BY <2>1, FS_EmptySet, FS_Singleton
  <2>3. \/ paid = {}
        \/ \E n \in Int, row \in rows : paid = {n} /\ ledger[a][n].amount = row.reward
    BY DEF RewardsIInv, PaidOnce
  <2>4. \A p, q \in rows : p = q
    BY DEF RewardsIInv, OneRowADay
  <2> HIDE DEF rows
  <2>5. CASE paid = {}
    <3>1. Cardinality(paid) = 0
      BY <2>5, FS_EmptySet
    <3> QED
      BY <2>2, <2>5, <3>1 DEF CheckinPaid, rows
  <2>6. ASSUME NEW n \in Int, NEW row \in rows, paid = {n}, ledger[a][n].amount = row.reward
        PROVE  /\ Cardinality(paid) <= Cardinality(rows)
               /\ \A i \in paid, p \in rows : ledger[a][i].amount = p.reward
    <3>1. Cardinality(paid) = 1
      BY <2>6, FS_Singleton
    <3> QED
      BY <2>2, <2>4, <2>6, <3>1
  <2> QED
    BY <2>2, <2>3, <2>5, <2>6 DEF CheckinPaid, rows
<1>2. ASSUME NEW r \in Account, NEW a \in Account
      PROVE  Cardinality(EntriesOf(r, "credit", RefereeRef[a]))
                <= IF <<r, a>> \in events THEN 1 ELSE 0
  <2>1. CASE SignupPaid(r, a) = {}
    BY <2>1, FS_EmptySet DEF SignupPaid
  <2>2. ASSUME <<r, a>> \in events, NEW n \in Int, SignupPaid(r, a) = {n}
        PROVE  Cardinality(EntriesOf(r, "credit", RefereeRef[a])) = 1
    BY <2>2, FS_Singleton DEF SignupPaid
  <2> QED
    BY <2>1, <2>2 DEF RewardsIInv, SignedUpOnce
<1> QED
  BY <1>1, <1>2 DEF RewardsInv, RewardsIInv, CheckinsPaidOnce, ReferralsPaidOnce

\* No check-in and no referral is paid twice, and none without its row, for any
\* number of accounts, days and requests, however they race and fail.
THEOREM RewardsCorrect == RewardsSpec => []RewardsInv
BY RewardsInitially, RewardsStep, RewardsIInvImplies, PTL DEF RewardsSpec

\* The wallets of a system that only rewards keep the ledger's promises: every
\* step is a step of the wallets' specification, or none.
THEOREM RewardsImplementWallet == RewardsSpec => WalletSpec
<1>1. RewardsInit => WalletInit
  BY DEF RewardsInit
<1>2. RewardsIInv /\ [RewardsNext]_walletRewardVars => [WalletNext]_walletVars
  <2> SUFFICES ASSUME RewardsIInv, [RewardsNext]_walletRewardVars
               PROVE  [WalletNext]_walletVars
    OBVIOUS
  <2>1. ASSUME NEW s \in Session, CreditCheckin(s)
        PROVE  WalletNext
    <3>1. request[s].pc = "creditCheckin" /\ request[s].pc # "free"
      BY <2>1 DEF CreditCheckin
    <3>2. /\ request[s].acct \in Account /\ request[s].day \in Day
          /\ request[s].streak \in 1 .. LookBack + 1
      BY <3>1, CallOf DEF CallOK, CheckingIn
    <3>3. /\ CheckinReward(request[s].streak) \in Amount
          /\ CheckinRef[<<request[s].acct, request[s].day>>] \in Ref
      BY <3>2, RewardAssumption, RewardRefs
    <3> QED
      BY <2>1, <3>2, <3>3 DEF CreditCheckin, WalletNext, CreditType
  <2>2. ASSUME NEW s \in Session, CreditReferrer(s)
        PROVE  WalletNext
    <3>1. request[s].pc = "creditReferrer" /\ request[s].pc # "free"
      BY <2>2 DEF CreditReferrer
    <3>2. /\ request[s].acct \in Account /\ request[s].other \in Account
          /\ RefereeRef[request[s].acct] \in Ref /\ RewardSignup \in Amount
      BY <3>1, CallOf, RewardAssumption, RewardRefs DEF Linking
    <3> QED
      BY <2>2, <3>2 DEF CreditReferrer, WalletNext, CreditType
  <2>3. ASSUME NEW s \in Session, ReferrerWallet(s)
        PROVE  WalletNext \/ UNCHANGED walletVars
    <3>1. request[s].other \in Account
      BY <2>3, CallOf DEF ReferrerWallet, Linking
    <3> QED
      BY <2>3, <3>1 DEF ReferrerWallet, EnsureWallet, WalletNext
  <2>4. ASSUME NEW a \in Account, CreateWallet(a)
        PROVE  WalletNext
    BY <2>4 DEF CreateWallet, WalletNext
  <2>5. CASE UNCHANGED walletRewardVars
    BY <2>5 DEF walletRewardVars
  <2> QED
    BY <2>1, <2>2, <2>3, <2>4, <2>5
    DEF RewardsNext, RequestStep, BeginCheckin, BeginLink, LookUpToday, CountStreak, InsertCheckin,
        LinkReferrer, ClaimEvent, CallFails, Midnight
<1> QED
  BY <1>1, <1>2, RewardsInitially, RewardsStep, PTL DEF RewardsSpec, WalletSpec

-----------------------------------------------------------------------------
(* The checkout that is paid from the wallet *)

\* What a request has been charged and not yet been given for it.
Charged(r) == IF r.pc \in {"free", "debit"} THEN 0 ELSE r.price

\* Without a failure the account keeps a subscription once it has had one: while
\* there is none, the request that ended the last is about to insert its own.
SubscriptionKept ==
    shopFaults = 0 /\ sold > 0 => live # 0 \/ \E q \in Shopper : shopper[q].pc = "create"

CheckoutIInv ==
    /\ CheckoutTypeOK
    /\ purse + takings + Pending + lost = Funds
    /\ shopFaults = 0 => lost = 0
    /\ SubscriptionKept

Served == [pc : {"free", "debit", "live", "expire", "create", "compensate"},
           price : Prices \union {0}, old : Nat]

LEMMA PricesNat == \A price \in Prices \union {0} : price \in Nat
BY CheckoutAssumption

LEMMA ChargedNat == \A r \in Served : Charged(r) \in Nat
<1> SUFFICES ASSUME NEW r \in Served
             PROVE  r.price \in Nat
  BY DEF Charged
<1>1. r.price \in Prices \union {0}
  BY DEF Served
<1> QED
  BY <1>1, PricesNat

\* One request moves: what is under way changes by what it is charged.
LEMMA PendingMoves ==
    ASSUME CheckoutTypeOK, NEW q \in Shopper, NEW r \in Served,
           shopper' = [shopper EXCEPT ![q] = r]
    PROVE  /\ Pending' = Pending + (Charged(r) - Charged(shopper[q]))
           /\ Pending \in Nat /\ Pending' \in Nat
<1> USE CheckoutAssumption
<1> DEFINE f == [p \in Shopper |-> Charged(shopper[p])]
           g == [p \in Shopper |-> Charged(shopper'[p])]
<1>1. Pending = SumTo(f, Shoppers) /\ Pending' = SumTo(g, Shoppers)
  BY DEF Pending, Charged
<1>2. \A p \in Shopper : shopper[p] \in Served /\ shopper'[p] \in Served
  BY DEF CheckoutTypeOK, Served
<1>3. \A p \in Served : Charged(p) \in Nat
  BY ChargedNat
<1>4. /\ \A p \in 1 .. Shoppers : f[p] \in Nat /\ g[p] \in Nat
      /\ \A p \in 1 .. Shoppers : p # q => f[p] = g[p]
      /\ f[q] = Charged(shopper[q]) /\ g[q] = Charged(r)
  BY <1>2, <1>3 DEF Shopper, CheckoutTypeOK
<1> HIDE DEF f, g
<1>5. SumTo(g, Shoppers) = SumTo(f, Shoppers) + (g[q] - f[q])
  <2>1. \A p \in 1 .. Shoppers : f[p] \in Int /\ g[p] \in Int
    BY <1>4
  <2> QED
    BY <1>4, <2>1, SumChanges DEF Shopper
<1>6. SumTo(f, Shoppers) \in Nat /\ SumTo(g, Shoppers) \in Nat
  BY <1>4, SumsOfNaturals
<1> QED
  BY <1>1, <1>4, <1>5, <1>6

\* A step of one request that leaves it at r keeps types when the money does.
LEMMA RequestMoves ==
    ASSUME CheckoutTypeOK, NEW q \in Shopper, NEW r \in Served, r.old <= sold, sold <= sold', sold' \in Nat,
           shopper' = [shopper EXCEPT ![q] = r]
    PROVE  shopper' \in [Shopper -> [pc : {"free", "debit", "live", "expire", "create",
                                           "compensate"},
                                     price : Prices \union {0}, old : 0 .. sold']]
<1>1. /\ sold \in Nat /\ sold' \in Nat
      /\ shopper \in [Shopper -> [pc : {"free", "debit", "live", "expire", "create",
                                      "compensate"},
                                price : Prices \union {0}, old : 0 .. sold]]
  BY CheckoutAssumption DEF CheckoutTypeOK
<1>2. \A n \in 0 .. sold : n \in 0 .. sold'
  BY <1>1
<1>3. r.old \in 0 .. sold'
  BY <1>1 DEF Served
<1>4. \A p \in Shopper :
        shopper[p] \in [pc : {"free", "debit", "live", "expire", "create", "compensate"},
                       price : Prices \union {0}, old : 0 .. sold']
  BY <1>1, <1>2
<1>5. r \in [pc : {"free", "debit", "live", "expire", "create", "compensate"},
            price : Prices \union {0}, old : 0 .. sold']
  BY <1>3 DEF Served
<1> QED
  BY <1>1, <1>4, <1>5

CheckoutMoves(q, r) ==
    /\ r \in Served /\ r.old <= sold
    /\ shopper' = [shopper EXCEPT ![q] = r]
    /\ sold' \in {sold, sold + 1} /\ sold' <= MaxSold
    /\ live' \in 0 .. sold'
    /\ takings' \in Nat /\ lost' \in Nat /\ purse' \in Nat
    /\ shopFaults' \in {shopFaults, shopFaults + 1} /\ shopFaults' <= MaxShopFaults
    /\ purse' + takings' + lost' + Charged(r)
         = purse + takings + lost + Charged(shopper[q])
    /\ lost' = lost \/ shopFaults' # 0

LEMMA MoneyStep ==
    ASSUME CheckoutIInv, NEW q \in Shopper, NEW r, CheckoutMoves(q, r)
    PROVE  /\ CheckoutTypeOK'
           /\ purse' + takings' + Pending' + lost' = Funds
           /\ shopFaults' = 0 => lost' = 0
<1> USE CheckoutAssumption
<1>1. /\ Pending' = Pending + (Charged(r) - Charged(shopper[q]))
      /\ Pending \in Nat /\ Pending' \in Nat
  BY PendingMoves DEF CheckoutIInv, CheckoutMoves
<1>2. Charged(r) \in Nat /\ Charged(shopper[q]) \in Nat
  <2>1. shopper[q] \in Served
    BY DEF CheckoutIInv, CheckoutTypeOK, Served
  <2> QED
    BY <2>1, ChargedNat DEF CheckoutMoves
<1>3. purse \in Nat /\ takings \in Nat /\ lost \in Nat /\ sold \in Nat /\ shopFaults \in Nat
  BY DEF CheckoutIInv, CheckoutTypeOK
<1>4. purse' + takings' + Pending' + lost' = Funds
  BY <1>1, <1>2, <1>3 DEF CheckoutIInv, CheckoutMoves
<1>5. purse' \in 0 .. Funds
  BY <1>1, <1>4 DEF CheckoutMoves
<1>6. sold <= sold' /\ sold' \in 0 .. MaxSold /\ shopFaults' \in 0 .. MaxShopFaults
  BY <1>3 DEF CheckoutMoves
<1>7. CheckoutTypeOK'
  <2>1. shopper' \in [Shopper -> [pc : {"free", "debit", "live", "expire", "create",
                                      "compensate"},
                                price : Prices \union {0}, old : 0 .. sold']]
    <3>1. sold' \in Nat
      BY <1>6
    <3> QED
      BY <1>6, <3>1, RequestMoves DEF CheckoutIInv, CheckoutMoves
  <2> QED
    BY <1>5, <1>6, <2>1 DEF CheckoutTypeOK, CheckoutMoves
<1>8. shopFaults' = 0 => lost' = 0
  BY <1>3 DEF CheckoutIInv, CheckoutMoves
<1> QED
  BY <1>4, <1>7, <1>8

LEMMA CheckoutStep == CheckoutIInv /\ [CheckoutNext]_checkoutVars => CheckoutIInv'
<1> SUFFICES ASSUME CheckoutIInv, [CheckoutNext]_checkoutVars
             PROVE  CheckoutIInv'
  OBVIOUS
<1> USE CheckoutAssumption
<1>0. /\ purse \in 0 .. Funds /\ takings \in Nat /\ lost \in Nat
      /\ sold \in 0 .. MaxSold /\ live \in 0 .. sold /\ shopFaults \in 0 .. MaxShopFaults
      /\ \A p \in Shopper : shopper[p] \in Served /\ shopper[p].old <= sold
      /\ shopper = [p \in Shopper |-> shopper[p]]
  BY DEF CheckoutIInv, CheckoutTypeOK, Served
<1>1. FreeShopper \in Served /\ FreeShopper.pc = "free" /\ FreeShopper.old = 0
  BY DEF FreeShopper, Served
<1>2. \A p \in Served : p.price \in Nat /\ p.price \in Prices \union {0}
  <2> SUFFICES ASSUME NEW p \in Served
               PROVE  p.price \in Nat /\ p.price \in Prices \union {0}
    OBVIOUS
  <2>1. p.price \in Prices \union {0}
    BY DEF Served
  <2> QED
    BY <2>1, PricesNat
<1>3. ASSUME NEW q \in Shopper, NEW r, CheckoutMoves(q, r),
             \/ shopFaults' # 0
             \/ sold' = sold /\ live' = live /\ (shopper[q].pc = "create" => live # 0)
             \/ r.pc = "create"
             \/ live' # 0
      PROVE  CheckoutIInv'
  <2>1. SubscriptionKept'
    <3> SUFFICES ASSUME shopFaults' = 0, sold' > 0, live' = 0
                 PROVE  \E p \in Shopper : shopper'[p].pc = "create"
      BY DEF SubscriptionKept
    <3>1. shopper'[q] = r
      BY <1>0, <1>3 DEF CheckoutMoves
    <3>2. CASE r.pc = "create"
      BY <3>1, <3>2
    <3>3. CASE sold' = sold /\ live' = live /\ (shopper[q].pc = "create" => live # 0)
      <4>1. shopFaults = 0
        BY <1>0, <1>3 DEF CheckoutMoves
      <4>2. PICK p \in Shopper : shopper[p].pc = "create"
        BY <3>3, <4>1 DEF CheckoutIInv, SubscriptionKept
      <4>3. p # q
        BY <3>3, <4>2
      <4>4. shopper'[p] = shopper[p]
        BY <1>0, <1>3, <4>3 DEF CheckoutMoves
      <4> QED
        BY <4>2, <4>4
    <3> QED
      BY <1>3, <3>2, <3>3
  <2> QED
    BY <1>3, <2>1, MoneyStep DEF CheckoutIInv
<1>4. ASSUME NEW q \in Shopper, NEW price \in Prices, ChoosePlan(q, price)
      PROVE  CheckoutIInv'
  <2> DEFINE r == [pc |-> IF price > 0 THEN "debit" ELSE "live", price |-> price, old |-> 0]
  <2>1. CheckoutMoves(q, r)
    BY <1>0, <1>4 DEF ChoosePlan, CheckoutMoves, Charged, Served
  <2> QED
    BY <1>3, <1>4, <2>1 DEF ChoosePlan
<1>5. ASSUME NEW q \in Shopper, DebitPrice(q)
      PROVE  CheckoutIInv'
  <2>0. PICK s \in Served : s = shopper[q] /\ s.pc = "debit" /\ s.old <= sold
    BY <1>0, <1>5 DEF DebitPrice
  <2>1. CASE shopper[q].price <= purse
    <3> DEFINE r == [s EXCEPT !.pc = "live"]
    <3>1. CheckoutMoves(q, r)
      BY <1>0, <1>5, <2>0, <2>1 DEF DebitPrice, ShopperAt, CheckoutMoves, Charged, Served
    <3> QED
      BY <1>3, <1>5, <2>0, <3>1 DEF DebitPrice
  <2>2. CASE ~ shopper[q].price <= purse
    <3>1. CheckoutMoves(q, FreeShopper)
      BY <1>1, <1>2, <1>0, <1>5, <2>0, <2>2
         DEF DebitPrice, ShopperDone, CheckoutMoves, Charged
    <3> QED
      BY <1>3, <1>5, <2>0, <3>1 DEF DebitPrice
  <2> QED
    BY <2>1, <2>2
<1>6. ASSUME NEW q \in Shopper, ReadLiveRow(q)
      PROVE  CheckoutIInv'
  <2>0. PICK s \in Served : s = shopper[q] /\ s.pc = "live"
    BY <1>0, <1>6 DEF ReadLiveRow
  <2>1. PICK pc \in {"create", "expire"} :
            shopper' = [shopper EXCEPT ![q].old = live, ![q].pc = pc]
    BY <1>6 DEF ReadLiveRow
  <2> DEFINE r == [pc |-> pc, price |-> s.price, old |-> live]
  <2>2. r \in Served /\ r.pc = pc /\ r.price = s.price /\ r.old = live
    BY <1>0, <1>2 DEF Served
  <2>3. r = [s EXCEPT !.old = live, !.pc = pc]
    <3>1. s = [pc |-> s.pc, price |-> s.price, old |-> s.old]
      BY DEF Served
    <3>2. [s EXCEPT !.old = live] = [pc |-> s.pc, price |-> s.price, old |-> live]
      BY <3>1
    <3>3. [[pc |-> s.pc, price |-> s.price, old |-> live] EXCEPT !.pc = pc]
            = [pc |-> pc, price |-> s.price, old |-> live]
      OBVIOUS
    <3> QED
      BY <3>2, <3>3, Zenon
  <2> HIDE DEF r
  <2>4. shopper' = [shopper EXCEPT ![q] = r]
    BY <1>0, <2>0, <2>1, <2>3
  <2>5. UNCHANGED <<purse, sold, live, takings, lost, shopFaults>>
    BY <1>6 DEF ReadLiveRow
  <2>6. Charged(r) = s.price /\ Charged(shopper[q]) = s.price
    BY <2>0, <2>2 DEF Charged
  <2>7. CheckoutMoves(q, r)
    BY <1>0, <1>2, <2>0, <2>2, <2>4, <2>5, <2>6 DEF CheckoutMoves
  <2> QED
    BY <1>3, <2>0, <2>5, <2>7
<1>7. ASSUME NEW q \in Shopper, ExpireLiveRow(q)
      PROVE  CheckoutIInv'
  <2>0. PICK s \in Served : s = shopper[q] /\ s.pc = "expire" /\ s.old <= sold
    BY <1>0, <1>7 DEF ExpireLiveRow
  <2> DEFINE r == [s EXCEPT !.pc = "create"]
  <2>1. CheckoutMoves(q, r)
    BY <1>0, <1>7, <2>0 DEF ExpireLiveRow, ShopperAt, CheckoutMoves, Charged, Served
  <2>2. r.pc = "create"
    BY DEF Served
  <2> HIDE DEF r
  <2> QED
    BY <1>3, <2>1, <2>2
<1>8. ASSUME NEW q \in Shopper, NEW s \in Served, s = shopper[q], s.old <= sold,
             s.pc \in {"live", "expire", "create"},
             ActivationFailed(q), UNCHANGED <<purse, sold, live, takings, lost>>,
             \/ shopFaults' = shopFaults /\ live # 0
             \/ shopFaults' = shopFaults + 1 /\ shopFaults < MaxShopFaults
      PROVE  CheckoutIInv'
  <2>1. CASE s.price > 0
    <3> DEFINE r == [s EXCEPT !.pc = "compensate"]
    <3>1. CheckoutMoves(q, r)
      BY <1>0, <1>8, <2>1 DEF ActivationFailed, ShopperAt, CheckoutMoves, Charged, Served
    <3> QED
      BY <1>0, <1>3, <1>8, <3>1
  <2>2. CASE ~ s.price > 0
    <3>1. CheckoutMoves(q, FreeShopper)
      BY <1>1, <1>2, <1>0, <1>8, <2>2
         DEF ActivationFailed, ShopperDone, CheckoutMoves, Charged
    <3> QED
      BY <1>0, <1>3, <1>8, <3>1
  <2> QED
    BY <2>1, <2>2
<1>9. ASSUME NEW q \in Shopper, CreateLiveRow(q)
      PROVE  CheckoutIInv'
  <2>0. PICK s \in Served : s = shopper[q] /\ s.pc = "create" /\ s.old <= sold
    BY <1>0, <1>9 DEF CreateLiveRow
  <2>1. CASE live = 0
    <3>1. CheckoutMoves(q, FreeShopper) /\ live' # 0
      BY <1>1, <1>2, <1>0, <1>9, <2>0, <2>1
         DEF CreateLiveRow, ShopperDone, CheckoutMoves, Charged
    <3> QED
      BY <1>3, <3>1
  <2>2. CASE live # 0
    BY <1>8, <1>9, <2>0, <2>2 DEF CreateLiveRow
  <2> QED
    BY <2>1, <2>2
<1>10. ASSUME NEW q \in Shopper, ActivateCallFails(q)
      PROVE  CheckoutIInv'
  BY <1>0, <1>8, <1>10 DEF ActivateCallFails
<1>11. ASSUME NEW q \in Shopper, GiveBack(q)
      PROVE  CheckoutIInv'
  <2>0. PICK s \in Served : s = shopper[q] /\ s.pc = "compensate"
    BY <1>0, <1>11 DEF GiveBack
  <2>1. CheckoutMoves(q, FreeShopper)
    BY <1>1, <1>2, <1>0, <1>11, <2>0 DEF GiveBack, ShopperDone, CheckoutMoves, Charged
  <2> QED
    BY <1>3, <1>11, <2>0, <2>1 DEF GiveBack
<1>12. ASSUME NEW q \in Shopper, MoneyIsLost(q)
       PROVE  CheckoutIInv'
  <2>0. PICK s \in Served :
            s = shopper[q] /\ s.pc \in {"live", "expire", "create", "compensate"}
    BY <1>0, <1>12 DEF MoneyIsLost
  <2>1. CheckoutMoves(q, FreeShopper)
    BY <1>1, <1>2, <1>0, <1>12, <2>0
       DEF MoneyIsLost, ShopperDone, CheckoutMoves, Charged
  <2> QED
    BY <1>0, <1>3, <1>12, <2>1 DEF MoneyIsLost
<1>13. CASE UNCHANGED checkoutVars
  BY <1>13 DEF checkoutVars, CheckoutIInv, CheckoutTypeOK, SubscriptionKept, Pending
<1> QED
  BY <1>4, <1>5, <1>6, <1>7, <1>9, <1>10, <1>11, <1>12, <1>13 DEF CheckoutNext

\* However many checkouts overlap, of which the index lets one win, the customer's
\* money is in the wallet, in subscriptions or in requests under way, and without
\* a failure none is lost and the account ends with a subscription.
THEOREM CheckoutsSettle == CheckoutSpec => []CheckoutSettles
<1>1. CheckoutInit => CheckoutIInv
  <2> SUFFICES ASSUME CheckoutInit
               PROVE  CheckoutIInv
    OBVIOUS
  <2> USE CheckoutAssumption
  <2>1. Pending = 0
    <3> DEFINE f == [q \in Shopper |-> IF shopper[q].pc \in {"free", "debit"}
                                       THEN 0 ELSE shopper[q].price]
               z == [q \in Shopper |-> 0]
    <3>1. \A i \in 1 .. Shoppers : f[i] = 0
      BY DEF Shopper, CheckoutInit, FreeShopper
    <3>2. Pending = SumTo(f, Shoppers)
      BY DEF Pending
    <3> HIDE DEF f
    <3>3. SumTo(f, Shoppers) = 0
      BY <3>1, SumOfZeros
    <3> QED
      BY <3>2, <3>3
  <2>2. CheckoutTypeOK
    BY DEF CheckoutInit, CheckoutTypeOK, FreeShopper
  <2> QED
    BY <2>1, <2>2 DEF CheckoutInit, CheckoutIInv, SubscriptionKept
<1>2. CheckoutIInv => CheckoutSettles
  BY DEF CheckoutIInv, CheckoutSettles, SubscriptionKept
<1> QED
  BY <1>1, <1>2, CheckoutStep, PTL DEF CheckoutSpec
=============================================================================
