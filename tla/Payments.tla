------------------------------ MODULE Payments ------------------------------
(***************************************************************************)
(* A payment order from checkout to credit: the checkout handlers          *)
(* (WalletHandler.CreateTopup, SubscriptionHandler.Checkout), the payment  *)
(* provider, the webhook handlers with their Redis deduplication           *)
(* (WebhookHandler, WebhookDeduper), WalletService.MarkOrderPaid and the   *)
(* cron phase that expires stale orders.  Two pods serve webhooks, so      *)
(* several handlers run at once; each database or Redis call is a step.    *)
(*                                                                         *)
(* An order's owner, type and amount never change, so they are constants;  *)
(* the rest of the row is its status.                                      *)
(***************************************************************************)
EXTENDS WalletLedger

CONSTANTS
    Order,        \* order_no of the orders that may be created
    OrderAccount, \* Order -> payment_orders.account_id
    OrderType,    \* Order -> payment_orders.order_type
    AmountCNY,    \* Order -> payment_orders.amount_cny
    NoEventID,    \* orders whose provider sends events without an ID (Creem)
    EarlyNotice,  \* orders whose provider may send notices of no success (Epay)
    Handler,      \* webhook requests being served, over all pods
    NoOrder,
    MaxFaults,    \* bound of the model: failures of handlers
    MaxActivations \* bound of the model: Activate calls counted per order

ASSUME PaymentAssumption ==
    /\ Order \subseteq Ref
    /\ NoOrder \notin Order
    /\ OrderAccount \in [Order -> Account]
    /\ OrderType \in [Order -> {"topup", "subscription"}]
    /\ AmountCNY \in [Order -> Amount]
    /\ \A o \in Order : AmountCNY[o] % 100 = 0  \* payment_orders keeps cents
    /\ NoEventID \subseteq Order
    /\ EarlyNotice \subseteq Order \ NoEventID
    /\ MaxFaults \in Nat
    /\ MaxActivations \in Nat

VARIABLES
    status,      \* payment_orders.status, "none" before the INSERT
    checkout,    \* where the request that creates the order is
    stale,       \* orders created more than pendingOrderMaxAge (24h) ago
    charged,     \* orders the customer has paid at the provider
    handler,     \* Handler -> the webhook request it serves
    seen,        \* Redis: webhook:seen:<event> keys, one event per order
    refused,     \* orders whose event counted as seen for a notice that was refused
    acked,       \* orders whose event the provider got a 200 for
    activations, \* Order -> successful SubscriptionService.Activate calls
    faults       \* failures so far

orderVars == <<status, checkout, stale>>
webhookVars == <<handler, seen, refused, acked, activations, faults>>
payVars == <<orderVars, charged, webhookVars>>
vars == <<walletVars, payVars>>

Free == [pc |-> "free", order |-> NoOrder, didTransition |-> FALSE]
Request == [pc : {"mark", "read", "credit", "activate", "reply"},
            order : Order, didTransition : BOOLEAN]

PaymentsTypeOK ==
    /\ WalletTypeOK
    /\ status \in [Order -> {"none", "pending", "paid", "expired"}]
    /\ checkout \in [Order -> {"none", "provider", "save", "respond", "url", "failed"}]
    /\ stale \subseteq Order
    /\ charged \subseteq Order
    /\ handler \in [Handler -> {Free} \union Request]
    /\ seen \subseteq Order
    /\ refused \subseteq Order
    /\ acked \subseteq Order
    /\ activations \in [Order -> Nat]
    /\ faults \in Nat

Init ==
    /\ WalletInit
    /\ status = [o \in Order |-> "none"]
    /\ checkout = [o \in Order |-> "none"]
    /\ stale = {}
    /\ charged = {}
    /\ handler = [h \in Handler |-> Free]
    /\ seen = {}
    /\ refused = {}
    /\ acked = {}
    /\ activations = [o \in Order |-> 0]
    /\ faults = 0

-----------------------------------------------------------------------------
(* Checkout: INSERT the order, ask the provider for a payment page, save its *)
(* external ID, answer with the page's URL.                                  *)

\* CreateTopup and CreateSubscriptionOrder insert a pending order; a topup of
\* an account without a wallet is not refused.
CreateOrder(o) ==
    /\ status[o] = "none"
    /\ status' = [status EXCEPT ![o] = "pending"]
    /\ checkout' = [checkout EXCEPT ![o] = "provider"]
    /\ UNCHANGED <<walletVars, stale, charged, webhookVars>>

\* resolveCheckout returns; the external ID may be empty.
CheckoutResolved(o) ==
    /\ checkout[o] = "provider"
    /\ \E next \in {"save", "respond"} : checkout' = [checkout EXCEPT ![o] = next]
    /\ UNCHANGED <<walletVars, status, stale, charged, webhookVars>>

\* Mutant: the save may come after the response.
SaveExternalID_Late(o) ==
    /\ checkout[o] \in {"save", "url"}
    /\ status' = [status EXCEPT ![o] = "pending"]
    /\ checkout' = [checkout EXCEPT ![o] = IF @ = "save" THEN "respond" ELSE @]
    /\ UNCHANGED <<walletVars, stale, charged, webhookVars>>

\* UpdatePaymentOrder saves the whole row from the copy made at creation, so it
\* also writes the status back to pending; its error is ignored.
SaveExternalID(o) ==
    /\ checkout[o] = "save"
    /\ \/ status' = [status EXCEPT ![o] = "pending"]
       \/ UNCHANGED status
    /\ checkout' = [checkout EXCEPT ![o] = "respond"]
    /\ UNCHANGED <<walletVars, stale, charged, webhookVars>>

\* The response gives the customer the only copy of the payment page's URL.
RespondPayURL(o) ==
    /\ checkout[o] = "respond"
    /\ checkout' = [checkout EXCEPT ![o] = "url"]
    /\ UNCHANGED <<walletVars, status, stale, charged, webhookVars>>

\* The provider refuses, or the request dies: nobody ever gets a URL and the
\* order stays as it is until the cron job expires it.
CheckoutFails(o) ==
    /\ checkout[o] \in {"provider", "save", "respond"}
    /\ checkout' = [checkout EXCEPT ![o] = "failed"]
    /\ UNCHANGED <<walletVars, status, stale, charged, webhookVars>>

-----------------------------------------------------------------------------
(* The world outside *)

\* The customer pays on the provider's page, however late.
CustomerPays(o) ==
    /\ checkout[o] = "url"
    /\ o \notin charged
    /\ charged' = charged \union {o}
    /\ UNCHANGED <<walletVars, orderVars, webhookVars>>

\* An order turns 24 hours old.  A checkout request is over long before: its
\* provider clients time out within seconds.
OrderTurnsStale(o) ==
    /\ checkout[o] \in {"url", "failed"}
    /\ o \notin stale
    /\ stale' = stale \union {o}
    /\ UNCHANGED <<walletVars, status, checkout, charged, webhookVars>>

\* A dedup key reaches its TTL, or Redis loses it.
RedisForgets(o) ==
    /\ o \in seen
    /\ seen' = seen \ {o}
    /\ UNCHANGED <<walletVars, orderVars, charged, handler, refused, acked, activations, faults>>

-----------------------------------------------------------------------------
(* The webhook handler *)

\* WebhookDeduper.TryProcess answers ErrAlreadyProcessed.
AlreadyProcessed(o) == o \notin NoEventID /\ o \in seen

\* Mutant: the event's signature is not verified.
DeliverNew_Unverified(h, o) ==
    /\ handler[h] = Free
    /\ ~ AlreadyProcessed(o)
    /\ seen' = seen \union ({o} \ NoEventID)
    /\ handler' = [handler EXCEPT ![h] =
                     [pc |-> "mark", order |-> o, didTransition |-> FALSE]]
    /\ UNCHANGED <<walletVars, orderVars, charged, refused, acked, activations, faults>>

\* A verified payment event arrives (again); TryProcess marks it before it is
\* processed, except that an event without an ID is never marked and that a
\* Redis error lets the event through unmarked (fail-open).
DeliverNew(h, o) ==
    /\ handler[h] = Free
    /\ o \in charged
    /\ \/ /\ ~ AlreadyProcessed(o)
          /\ seen' = seen \union ({o} \ NoEventID)
       \/ /\ o \notin NoEventID
          /\ UNCHANGED seen
    /\ handler' = [handler EXCEPT ![h] =
                     [pc |-> "mark", order |-> o, didTransition |-> FALSE]]
    /\ UNCHANGED <<walletVars, orderVars, charged, refused, acked, activations, faults>>

\* An event seen before is answered with success at once.
DeliverDuplicate(o) ==
    /\ o \in charged
    /\ AlreadyProcessed(o)
    /\ o \notin acked
    /\ acked' = acked \union {o}
    /\ UNCHANGED <<walletVars, orderVars, charged, handler, seen, refused, activations, faults>>

\* EpayNotify marks trade_no before it verifies the callback: a notice that is
\* not TRADE_SUCCESS, or does not verify, is refused at any time, but its trade
\* number counts as seen.
EpayNoticeRefused(o) ==
    /\ o \in EarlyNotice
    /\ checkout[o] = "url"
    /\ o \notin seen
    /\ seen' = seen \union {o}
    /\ refused' = refused \union {o}
    /\ UNCHANGED <<walletVars, orderVars, charged, handler, acked, activations, faults>>

\* Mutant: UPDATE without "WHERE status = pending".
MarkPaid_Unconditional(h) ==
    /\ handler[h].pc = "mark"
    /\ status' = [status EXCEPT ![handler[h].order] = "paid"]
    /\ handler' = [handler EXCEPT ![h].pc = "read", ![h].didTransition = TRUE]
    /\ UNCHANGED <<walletVars, checkout, stale, charged, seen, refused, acked, activations, faults>>

\* The conditional UPDATE of MarkPaymentOrderPaid.
MarkPaid(h) ==
    LET o == handler[h].order
    IN /\ handler[h].pc = "mark"
       /\ \/ /\ status[o] = "pending"
             /\ status' = [status EXCEPT ![o] = "paid"]
             /\ handler' = [handler EXCEPT ![h].pc = "read", ![h].didTransition = TRUE]
          \/ /\ status[o] # "pending"
             /\ handler' = [handler EXCEPT ![h].pc = "read"]
             /\ UNCHANGED status
       /\ UNCHANGED <<walletVars, checkout, stale, charged, seen, refused, acked, activations, faults>>

\* Mutant: the branches of didTransition are swapped.
NextStep_Swapped(o, didTransition) ==
    IF OrderType[o] = "subscription" THEN "activate"
    ELSE IF didTransition THEN "reply" ELSE "credit"

\* The SELECT after it, and what MarkOrderPaid and processOrderPaid do next.
NextStep(o, didTransition) ==
    IF OrderType[o] = "subscription" THEN "activate"
    ELSE IF didTransition THEN "credit" ELSE "reply"

ReadOrder(h) ==
    /\ handler[h].pc = "read"
    /\ handler' = [handler EXCEPT
                     ![h].pc = NextStep(handler[h].order, handler[h].didTransition)]
    /\ UNCHANGED <<walletVars, orderVars, charged, seen, refused, acked, activations, faults>>

\* WalletService.Topup, in a transaction of its own.
Topup(h) ==
    LET o == handler[h].order
    IN /\ handler[h].pc = "credit"
       /\ Credit(OrderAccount[o], "topup", AmountCNY[o], o)
       /\ handler' = [handler EXCEPT ![h].pc = "reply"]
       /\ UNCHANGED <<orderVars, charged, seen, refused, acked, activations, faults>>

\* Topup fails when the account has no wallet row: 500.
TopupWithoutWallet(h) ==
    /\ handler[h].pc = "credit"
    /\ OrderAccount[handler[h].order] \notin walletRows
    /\ handler' = [handler EXCEPT ![h] = Free]
    /\ UNCHANGED <<walletVars, orderVars, charged, seen, refused, acked, activations, faults>>

\* SubscriptionService.Activate, whatever the order's status turned out to be
\* (the count of the calls saturates at its bound).
Activate(h) ==
    /\ handler[h].pc = "activate"
    /\ activations' = [activations EXCEPT ![handler[h].order] =
                          IF @ < MaxActivations THEN @ + 1 ELSE @]
    /\ handler' = [handler EXCEPT ![h].pc = "reply"]
    /\ UNCHANGED <<walletVars, orderVars, charged, seen, refused, acked, faults>>

Reply(h) ==
    /\ handler[h].pc = "reply"
    /\ acked' = acked \union {handler[h].order}
    /\ handler' = [handler EXCEPT ![h] = Free]
    /\ UNCHANGED <<walletVars, orderVars, charged, seen, refused, activations, faults>>

\* A call fails and the handler answers 500, or its process dies.
HandlerFails(h) ==
    /\ handler[h] # Free
    /\ faults < MaxFaults
    /\ faults' = faults + 1
    /\ handler' = [handler EXCEPT ![h] = Free]
    /\ UNCHANGED <<walletVars, orderVars, charged, seen, refused, acked, activations>>

-----------------------------------------------------------------------------
(* The rest of the system *)

\* Mutant: UPDATE without "status = pending".
ExpireStalePendingOrders_AnyStatus ==
    /\ stale # {}
    /\ status' = [o \in Order |-> IF o \in stale THEN "expired" ELSE status[o]]
    /\ UNCHANGED <<walletVars, checkout, stale, charged, webhookVars>>

\* ExpireStalePendingOrders, phase 3 of the expiry job: one UPDATE.
ExpireStalePendingOrders ==
    LET old == {o \in stale : status[o] = "pending"}
    IN /\ old # {}
       /\ status' = [o \in Order |-> IF o \in old THEN "expired" ELSE status[o]]
       /\ UNCHANGED <<walletVars, checkout, stale, charged, webhookVars>>

\* Everything else that moves money: the internal API and the admin's
\* adjustment credit or debit without naming an order, wallets are created and
\* codes redeemed.  (The bound on the ledger leaves room for the orders.)
Uncredited(a) ==
    {o \in Order : /\ OrderType[o] = "topup" /\ OrderAccount[o] = a
                   /\ EntriesOf(a, "topup", o) = {}}

OtherWalletCall ==
    /\ \E a \in Account :
        \/ GetOrCreate(a)
        \/ /\ Len(ledger[a]) + Cardinality(Uncredited(a)) < MaxEntries[a]
           /\ \/ \E amt \in Amount :
                    \/ \E t \in {"topup", "credit"} : Credit(a, t, amt, NoRef)
                    \/ Debit(a, amt, NoRef)
              \/ \E c \in Code : RedeemCode(a, c)
    /\ UNCHANGED payVars

HandlerStep(h) ==
    \/ MarkPaid(h) \/ ReadOrder(h) \/ Topup(h) \/ TopupWithoutWallet(h)
    \/ Activate(h) \/ Reply(h)

Deliver(o) == (\E h \in Handler : DeliverNew(h, o)) \/ DeliverDuplicate(o)

Next ==
    \/ \E o \in Order :
        \/ CreateOrder(o) \/ CheckoutResolved(o) \/ SaveExternalID(o)
        \/ RespondPayURL(o) \/ CheckoutFails(o)
        \/ CustomerPays(o) \/ OrderTurnsStale(o) \/ RedisForgets(o)
        \/ Deliver(o) \/ EpayNoticeRefused(o)
    \/ \E h \in Handler : HandlerStep(h) \/ HandlerFails(h)
    \/ ExpireStalePendingOrders
    \/ OtherWalletCall

Spec == Init /\ [][Next]_vars

\* Handlers run on, and a provider repeats an event until it gets a 200.
\* Customers, checkouts, the clock and the other callers owe nothing.
FairSpec ==
    /\ Spec
    /\ \A h \in Handler : WF_vars(HandlerStep(h))
    /\ \A o \in Order : SF_vars(o \notin acked /\ Deliver(o))

-----------------------------------------------------------------------------
(* Properties *)

Credited(o) == EntriesOf(OrderAccount[o], "topup", o) # {}

\* However often its event arrives and whatever fails in between, an order is
\* credited at most once, to its owner, with its amount, and only after the
\* customer paid it ("to prevent double-charge on concurrent webhook
\* delivery", MarkOrderPaid).
CreditedAtMostOnce ==
    \A a \in Account, o \in Order :
        \A i, j \in EntriesOf(a, "topup", o) : i = j

CreditsAreBacked ==
    \A a \in Account, o \in Order :
        \A i \in EntriesOf(a, "topup", o) :
            /\ o \in charged
            /\ status[o] = "paid"
            /\ a = OrderAccount[o]
            /\ ledger[a][i].amount = AmountCNY[o]

\* A paid order stays paid: neither the checkout's late whole-row save nor the
\* expiry job takes it back, which would let a repeated event credit it again.
PaidIsFinal ==
    [][\A o \in Order : status[o] = "paid" => status'[o] = "paid"]_status

\* processOrderPaid activates the subscription on every delivery, whatever
\* MarkOrderPaid did, but never for an order that can still be opened, paid or
\* lapse: one activated, or about to be, was charged and is settled for good.
Activated(o) ==
    \/ activations[o] > 0
    \/ \E h \in Handler : handler[h].order = o /\ handler[h].pc = "activate"

ActivationsAreBacked ==
    \A o \in Order :
        Activated(o) =>
            OrderType[o] = "subscription" /\ o \in charged /\ status[o] \in {"paid", "expired"}

\* Handler h turned its order to paid and still owes it the credit.
OwesCredit(h) ==
    handler[h].pc \in {"read", "credit"} /\ handler[h].didTransition

\* Why the two properties above hold.  The customer can pay only after the
\* checkout has written its stale copy; only events of paid orders are handled,
\* so "paid" implies "charged" and the copy never meets a paid order.  Of the
\* handlers of an order at most one made the transition, and until it credits
\* the order no entry names it.
CheckoutBeforeCharge ==
    \A o \in Order :
        /\ o \in charged => checkout[o] = "url"
        /\ status[o] = "paid" => o \in charged
        /\ status[o] = "none" => checkout[o] = "none"

OneOwesCredit ==
    /\ \A h \in Handler :
        LET o == handler[h].order
        IN /\ handler[h] # Free => o \in charged
           /\ handler[h].pc = "mark" => ~ handler[h].didTransition
           /\ handler[h].pc = "credit" => handler[h].didTransition
           /\ OwesCredit(h) => /\ status[o] = "paid"
                              /\ \A a \in Account : EntriesOf(a, "topup", o) = {}
    /\ \A g, h \in Handler :
        OwesCredit(g) /\ OwesCredit(h) /\ handler[g].order = handler[h].order => g = h

PaymentsInv ==
    /\ PaymentsTypeOK
    /\ CheckoutBeforeCharge
    /\ OneOwesCredit
    /\ CreditsAreBacked
    /\ CreditedAtMostOnce

\* A topup charged to a customer is credited in the end, unless the order
\* expired first.  It holds for an account that has had a wallet since before
\* the order, when no handler fails and no refused notice marks the event as
\* seen while the order waits for it, be it before or after the charge: each of
\* the three loses the money for good.
NothingLost(o) ==
    /\ faults = 0
    /\ o \in refused => status[o] # "pending"
    /\ status[o] # "none" => OrderAccount[o] \in walletRows

ChargeIsSettled ==
    \A o \in Order :
        OrderType[o] = "topup" /\ []NothingLost(o) =>
            (o \in charged ~> (Credited(o) \/ status[o] = "expired"))

\* WalletService.MarkOrderPaid, "atomically marks an order as paid and credits
\* the wallet": a paid topup is credited, or its handler is still at it.
PaidIsCredited ==
    \A o \in Order :
        OrderType[o] = "topup" /\ status[o] = "paid" =>
            \/ Credited(o)
            \/ \E h \in Handler : handler[h].order = o /\ handler[h].pc # "free"

\* The order as its owner sees it.
OrderPhase == [o \in Order |-> IF status[o] = "pending" THEN "open" ELSE status[o]]

Promise == INSTANCE OrderBook
    WITH phase <- OrderPhase, bought <- charged, booked <- {o \in Order : Credited(o)}

\* All of it implements the life of an order in OrderBook: paid and expired are
\* final, paid comes after a charge and the one credit after that.
ImplementsOrderBook == Promise!BookSpec

\* A payment event that arrives many times has the effect of one.
ActivatedAtMostOnce == \A o \in Order : activations[o] <= 1
=============================================================================
