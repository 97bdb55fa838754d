------------------------------- MODULE Refunds -------------------------------
(***************************************************************************)
(* Refunds of paid orders: customers request them (RefundService.          *)
(* RequestRefund), admins approve or reject them (Approve, Reject).  Each  *)
(* database call is a step of its own and nothing ties the calls of one    *)
(* request into a transaction, so requests interleave between any two of   *)
(* them and a failure leaves the earlier ones in place.                    *)
(*                                                                         *)
(* An order here is one that has been paid; Payments shows that it stays   *)
(* paid, and a request for an unpaid one changes nothing.                  *)
(***************************************************************************)
EXTENDS WalletLedger

CONSTANTS
    Order,         \* order_no of the paid orders
    OrderAccount,  \* Order -> payment_orders.account_id
    OrderType,     \* Order -> payment_orders.order_type
    AmountCNY,     \* Order -> payment_orders.amount_cny
    Refund,        \* refund_no of the refunds that may be created
    Customer,      \* requests for a refund being served
    Admin,         \* reviews being served
    NoOrder, NoRefund,
    MaxFaults      \* bound of the model: failures of calls

ASSUME RefundAssumption ==
    /\ Refund \subseteq Ref
    /\ NoOrder \notin Order
    /\ NoRefund \notin Refund
    /\ OrderAccount \in [Order -> Account]
    /\ OrderType \in [Order -> {"topup", "subscription"}]
    /\ AmountCNY \in [Order -> Amount]
    /\ MaxFaults \in Nat
    /\ IsFiniteSet(Customer)

VARIABLES
    refundStatus,  \* Refund -> refunds.status, "none" before the INSERT
    refundOrder,   \* Refund -> refunds.order_no; account and amount follow
    weekOld,       \* orders created more than refundWindowDays (7) ago
    customer,      \* Customer -> the order whose refund it is about to insert
    admin,         \* Admin -> the review it serves
    outbox,        \* refunds with an identity.refund.completed outbox row
    published,     \* refunds whose event went to NATS directly
    cancelled,     \* subscription orders for whose product Cancel went through
    faults         \* failures so far

requestVars == <<refundOrder, weekOld, customer>>
reviewVars == <<admin, outbox, published, cancelled, faults>>
refundVars == <<refundStatus, requestVars, reviewVars>>
vars == <<walletVars, refundVars>>

Free == [pc |-> "free", refund |-> NoRefund]
Review == [pc : {"approve", "reject", "credit", "complete", "cancel", "publish"},
           refund : Refund]

RefundsTypeOK ==
    /\ WalletTypeOK
    /\ refundStatus \in
         [Refund -> {"none", "pending", "approved", "rejected", "completed"}]
    /\ refundOrder \in [Refund -> Order \union {NoOrder}]
    /\ weekOld \subseteq Order
    /\ customer \in [Customer -> Order \union {NoOrder}]
    /\ admin \in [Admin -> {Free} \union Review]
    /\ outbox \subseteq Refund
    /\ published \subseteq Refund
    /\ cancelled \subseteq Order
    /\ faults \in Nat

Init ==
    /\ WalletInit
    /\ refundStatus = [r \in Refund |-> "none"]
    /\ refundOrder = [r \in Refund |-> NoOrder]
    /\ weekOld = {}
    /\ customer = [c \in Customer |-> NoOrder]
    /\ admin = [a \in Admin |-> Free]
    /\ outbox = {}
    /\ published = {}
    /\ cancelled = {}
    /\ faults = 0

RefundAccount(r) == OrderAccount[refundOrder[r]]
RefundAmount(r) == AmountCNY[refundOrder[r]]

-----------------------------------------------------------------------------
(* A customer asks *)

\* GetPendingByOrderNo: the refunds of an order that are still open.
InFlight(o) ==
    {r \in Refund : refundOrder[r] = o /\ refundStatus[r] \in {"pending", "approved"}}

\* Mutant: an open refund of the order does not matter.
CheckRequest_Unchecked(c, o) ==
    /\ customer[c] = NoOrder
    /\ o \notin weekOld
    /\ customer' = [customer EXCEPT ![c] = o]
    /\ UNCHANGED <<walletVars, refundStatus, refundOrder, weekOld, reviewVars>>

\* The checks of RequestRefund: the order is in its window and has no open
\* refund.
CheckRequest(c, o) ==
    /\ customer[c] = NoOrder
    /\ o \notin weekOld
    /\ InFlight(o) = {}
    /\ customer' = [customer EXCEPT ![c] = o]
    /\ UNCHANGED <<walletVars, refundStatus, refundOrder, weekOld, reviewVars>>

\* The INSERT, a step later; nothing is checked again.
CreateRefund(c, r) ==
    /\ customer[c] # NoOrder
    /\ refundStatus[r] = "none"
    /\ refundStatus' = [refundStatus EXCEPT ![r] = "pending"]
    /\ refundOrder' = [refundOrder EXCEPT ![r] = customer[c]]
    /\ customer' = [customer EXCEPT ![c] = NoOrder]
    /\ UNCHANGED <<walletVars, weekOld, reviewVars>>

\* The INSERT fails or the request dies.
RequestFails(c) ==
    /\ customer[c] # NoOrder
    /\ customer' = [customer EXCEPT ![c] = NoOrder]
    /\ UNCHANGED <<walletVars, refundStatus, refundOrder, weekOld, reviewVars>>

OrderTurnsWeekOld(o) ==
    /\ o \notin weekOld
    /\ weekOld' = weekOld \union {o}
    /\ UNCHANGED <<walletVars, refundStatus, refundOrder, customer, reviewVars>>

-----------------------------------------------------------------------------
(* An admin reviews *)

\* Approve and Reject read the refund and go on when it is pending.
ReadRefund(a, r) ==
    /\ admin[a] = Free
    /\ refundStatus[r] = "pending"
    /\ \E decision \in {"approve", "reject"} :
        admin' = [admin EXCEPT ![a] = [pc |-> decision, refund |-> r]]
    /\ UNCHANGED <<walletVars, refundStatus, requestVars, outbox, published,
                   cancelled, faults>>

\* UpdateStatus matches the row only while it is still pending.  Mutant: its
\* WHERE names no status.
Reviewable_Always(r) == refundStatus[r] # "none"

Reviewable(r) == refundStatus[r] = "pending"

\* UpdateStatus(pending -> approved); when it matches no row Approve fails.
DecideApprove(a) ==
    LET r == admin[a].refund
    IN /\ admin[a].pc = "approve"
       /\ \/ /\ Reviewable(r)
             /\ refundStatus' = [refundStatus EXCEPT ![r] = "approved"]
             /\ admin' = [admin EXCEPT ![a].pc = "credit"]
          \/ /\ ~ Reviewable(r)
             /\ admin' = [admin EXCEPT ![a] = Free]
             /\ UNCHANGED refundStatus
       /\ UNCHANGED <<walletVars, requestVars, outbox, published, cancelled, faults>>

\* UpdateStatus(pending -> rejected), the end of Reject either way.
DecideReject(a) ==
    LET r == admin[a].refund
    IN /\ admin[a].pc = "reject"
       /\ refundStatus' = IF Reviewable(r)
                          THEN [refundStatus EXCEPT ![r] = "rejected"]
                          ELSE refundStatus
       /\ admin' = [admin EXCEPT ![a] = Free]
       /\ UNCHANGED <<walletVars, requestVars, outbox, published, cancelled, faults>>

\* WalletRepo.Credit, in a transaction of its own.
CreditRefund(a) ==
    LET r == admin[a].refund
    IN /\ admin[a].pc = "credit"
       /\ Credit(RefundAccount(r), "refund", RefundAmount(r), r)
       /\ admin' = [admin EXCEPT ![a].pc = "complete"]
       /\ UNCHANGED <<refundStatus, requestVars, outbox, published, cancelled, faults>>

\* What Approve does when the credit fails: it returns and leaves the refund
\* approved.  Mutant: it goes on.
AfterFailedCredit_GoesOn(review) == [review EXCEPT !.pc = "complete"]

AfterFailedCredit(review) == Free

\* Credit fails for an account without a wallet row.
CreditWithoutWallet(a) ==
    /\ admin[a].pc = "credit"
    /\ RefundAccount(admin[a].refund) \notin walletRows
    /\ admin' = [admin EXCEPT ![a] = AfterFailedCredit(admin[a])]
    /\ UNCHANGED <<walletVars, refundStatus, requestVars, outbox, published,
                   cancelled, faults>>

\* Mutant: no event is written.
MarkCompleted_Silent(a) ==
    /\ admin[a].pc = "complete"
    /\ refundStatus' = [refundStatus EXCEPT ![admin[a].refund] = "completed"]
    /\ admin' = [admin EXCEPT ![a] = Free]
    /\ UNCHANGED <<walletVars, requestVars, outbox, published, cancelled, faults>>

\* MarkCompleted has no condition on the status.
MarkCompleted(a) ==
    /\ admin[a].pc = "complete"
    /\ refundStatus' = [refundStatus EXCEPT ![admin[a].refund] = "completed"]
    /\ admin' = [admin EXCEPT ![a].pc = "cancel"]
    /\ UNCHANGED <<walletVars, requestVars, outbox, published, cancelled, faults>>

\* Cancel the account's live subscription of the order's product, whichever
\* order bought it; a failure is logged and ignored.
CancelSubscription(a) ==
    LET o == refundOrder[admin[a].refund]
    IN /\ admin[a].pc = "cancel"
       /\ \/ OrderType[o] = "subscription" /\ cancelled' = cancelled \union {o}
          \/ UNCHANGED cancelled
       /\ admin' = [admin EXCEPT ![a].pc = "publish"]
       /\ UNCHANGED <<walletVars, refundStatus, requestVars, outbox, published, faults>>

\* publishRefundCompleted: an outbox row; when that fails, one direct publish
\* that may fail too.
PublishCompleted(a) ==
    LET r == admin[a].refund
    IN /\ admin[a].pc = "publish"
       /\ \/ outbox' = outbox \union {r} /\ UNCHANGED <<published, faults>>
          \/ /\ faults < MaxFaults
             /\ faults' = faults + 1
             /\ published' \in {published, published \union {r}}
             /\ UNCHANGED outbox
       /\ admin' = [admin EXCEPT ![a] = Free]
       /\ UNCHANGED <<walletVars, refundStatus, requestVars, cancelled>>

\* A database call fails and the handler answers 400, or its process dies.
ReviewFails(a) ==
    /\ admin[a] # Free
    /\ faults < MaxFaults
    /\ faults' = faults + 1
    /\ admin' = [admin EXCEPT ![a] = Free]
    /\ UNCHANGED <<walletVars, refundStatus, requestVars, outbox, published, cancelled>>

-----------------------------------------------------------------------------

\* All other users of the wallets; a topup differs from a credit only in
\* lifetime_topup, which no refund reads.  (The bound leaves room for refunds.)
Unrefunded == {r \in Refund : \A a \in Account : EntriesOf(a, "refund", r) = {}}

OtherWalletCall ==
    /\ \E a \in Account :
        \/ GetOrCreate(a)
        \/ /\ Len(ledger[a]) + Cardinality(Unrefunded) < MaxEntries[a]
           /\ \E amt \in Amount :
                Credit(a, "credit", amt, NoRef) \/ Debit(a, amt, NoRef)
    /\ UNCHANGED refundVars

ReviewStep(a) ==
    \/ DecideApprove(a) \/ DecideReject(a) \/ CreditRefund(a) \/ CreditWithoutWallet(a)
    \/ MarkCompleted(a) \/ CancelSubscription(a) \/ PublishCompleted(a)

Next ==
    \/ \E c \in Customer :
        \/ \E o \in Order : CheckRequest(c, o)
        \/ \E r \in Refund : CreateRefund(c, r)
        \/ RequestFails(c)
    \/ \E o \in Order : OrderTurnsWeekOld(o)
    \/ \E a \in Admin :
        \/ \E r \in Refund : ReadRefund(a, r)
        \/ ReviewStep(a)
        \/ ReviewFails(a)
    \/ OtherWalletCall

Spec == Init /\ [][Next]_vars

\* A review that was begun goes on; nobody owes a request or a review.
FairSpec == Spec /\ \A a \in Admin : WF_vars(ReviewStep(a))

-----------------------------------------------------------------------------
(* Properties *)

\* However many admins approve, reject or fail at once, a refund is credited
\* at most once, to the owner of its order and with the amount of its order
\* ("prevents double-refund on concurrent admin approvals", Approve).
RefundCreditedOnce ==
    \A a \in Account, r \in Refund :
        /\ \A i, j \in EntriesOf(a, "refund", r) : i = j
        /\ \A i \in EntriesOf(a, "refund", r) :
            /\ refundStatus[r] \in {"approved", "completed"}
            /\ a = RefundAccount(r)
            /\ ledger[a][i].amount = RefundAmount(r)

RefundCredited(r) == \E a \in Account : EntriesOf(a, "refund", r) # {}

\* A completed refund has reached the wallet.
CompletedIsCredited ==
    \A r \in Refund : refundStatus[r] = "completed" => RefundCredited(r)

\* A refund goes from pending to rejected, or from pending over approved to
\* completed, and never back or sideways, although MarkCompleted overwrites
\* whatever status it finds.
RefundLifecycle ==
    [][\A r \in Refund :
        refundStatus'[r] # refundStatus[r] =>
            <<refundStatus[r], refundStatus'[r]>> \in
                {<<"none", "pending">>, <<"pending", "approved">>,
                 <<"pending", "rejected">>, <<"approved", "completed">>}]_refundStatus

\* The invariant behind them: an approval between its decision and its credit
\* is the only one of its refund and has not credited it; between its credit
\* and the completion the refund is still approved.
ReviewsExclusive ==
    /\ \A a \in Admin :
        LET r == admin[a].refund
        IN /\ admin[a] # Free => refundStatus[r] # "none"
           /\ admin[a].pc = "credit" =>
                /\ refundStatus[r] = "approved"
                /\ \A x \in Account : EntriesOf(x, "refund", r) = {}
           /\ admin[a].pc = "complete" => refundStatus[r] = "approved" /\ RefundCredited(r)
    /\ \A a, b \in Admin :
        /\ admin[a].pc \in {"credit", "complete"}
        /\ admin[b].pc \in {"credit", "complete"}
        /\ admin[a].refund = admin[b].refund
        => a = b
    /\ \A r \in Refund : (refundStatus[r] = "none") = (refundOrder[r] = NoOrder)

\* An approval that meets no fault ends with the money in the wallet and the
\* event in the outbox, when the account had a wallet before its refund.
NothingFails(r) ==
    /\ faults = 0
    /\ refundStatus[r] = "pending" => RefundAccount(r) \in walletRows

ApprovalEnds ==
    \A r \in Refund :
        []NothingFails(r) =>
            (refundStatus[r] = "approved" ~>
                refundStatus[r] = "completed" /\ RefundCredited(r) /\ r \in outbox)

\* Requests that have found no open refund of order o and will insert one.
Asking(o) == {c \in Customer : customer[c] = o}

\* The check and the INSERT of RequestRefund are two calls, so an order can have
\* several open refunds, but only those that requests at the same time opened:
\* with the ones on their way, never more than there are such requests.
RefundsWithinRequests ==
    \A o \in Order :
        Cardinality(InFlight(o)) + Cardinality(Asking(o)) <= Cardinality(Customer)

\* The invariant of the refunds.
RefundsInv ==
    /\ RefundsTypeOK
    /\ ReviewsExclusive
    /\ RefundCreditedOnce
    /\ CompletedIsCredited
    /\ RefundsWithinRequests

\* RequestRefund, "No pending or approved refund may exist for the same order".
OneInFlight ==
    \A q, r \in Refund :
        /\ refundOrder[q] = refundOrder[r]
        /\ {refundStatus[q], refundStatus[r]} \subseteq {"pending", "approved"}
        => q = r

\* Approve, "A background reconciliation job can retry the credit": an approved
\* refund does not stay without its credit for good.
ApprovedIsCredited ==
    \A r \in Refund :
        refundStatus[r] = "approved" ~> RefundCredited(r)
=============================================================================
