--------------------------- MODULE PaymentsProofs ---------------------------
(* Payments, proved for every set of accounts, orders and webhook handlers.  *)
EXTENDS Payments, WalletLedgerProofs

-----------------------------------------------------------------------------
(* Payments moves money only through the operations of the wallet. *)

LEMMA NextMovesWallet == PaymentsTypeOK /\ [Next]_vars => [WalletNext]_walletVars
<1> SUFFICES ASSUME PaymentsTypeOK, [Next]_vars
             PROVE  [WalletNext]_walletVars
  OBVIOUS
<1> USE PaymentAssumption
<1>1. ASSUME NEW h \in Handler, Topup(h)
      PROVE  WalletNext
  <2> DEFINE o == handler[h].order
  <2>1. o \in Order
    BY <1>1 DEF Topup, PaymentsTypeOK, Free, Request
  <2>2. Credit(OrderAccount[o], "topup", AmountCNY[o], o)
    BY <1>1 DEF Topup
  <2> QED
    BY <2>1, <2>2 DEF WalletNext, CreditType
<1>2. ASSUME OtherWalletCall
      PROVE  WalletNext
  BY <1>2 DEF OtherWalletCall, WalletNext, CreditType
<1>3. ASSUME NEW o \in Order,
             \/ CreateOrder(o) \/ CheckoutResolved(o) \/ SaveExternalID(o)
             \/ RespondPayURL(o) \/ CheckoutFails(o)
             \/ CustomerPays(o) \/ OrderTurnsStale(o) \/ RedisForgets(o)
             \/ Deliver(o) \/ EpayNoticeRefused(o)
      PROVE  UNCHANGED walletVars
  BY <1>3 DEF CreateOrder, CheckoutResolved, SaveExternalID, RespondPayURL,
              CheckoutFails, CustomerPays, OrderTurnsStale, RedisForgets, Deliver,
              DeliverNew, DeliverDuplicate, EpayNoticeRefused
<1>4. ASSUME NEW h \in Handler,
             \/ MarkPaid(h) \/ ReadOrder(h) \/ TopupWithoutWallet(h)
             \/ Activate(h) \/ Reply(h) \/ HandlerFails(h)
      PROVE  UNCHANGED walletVars
  BY <1>4 DEF MarkPaid, ReadOrder, TopupWithoutWallet, Activate, Reply, HandlerFails
<1>5. ASSUME ExpireStalePendingOrders
      PROVE  UNCHANGED walletVars
  BY <1>5 DEF ExpireStalePendingOrders
<1>6. CASE UNCHANGED vars
  BY <1>6 DEF vars
<1> QED
  BY <1>1, <1>2, <1>3, <1>4, <1>5, <1>6 DEF Next, HandlerStep

LEMMA PaymentsTypeStep == PaymentsTypeOK /\ [Next]_vars => PaymentsTypeOK'
<1> SUFFICES ASSUME PaymentsTypeOK, [Next]_vars
             PROVE  PaymentsTypeOK'
  OBVIOUS
<1> USE PaymentAssumption
<1>1. WalletTypeOK'
  BY NextMovesWallet, WalletTypeStep DEF PaymentsTypeOK
<1>2. ASSUME NEW o \in Order,
             \/ CreateOrder(o) \/ CheckoutResolved(o) \/ SaveExternalID(o)
             \/ RespondPayURL(o) \/ CheckoutFails(o)
      PROVE  PaymentsTypeOK'
  BY <1>1, <1>2 DEF PaymentsTypeOK, CreateOrder, CheckoutResolved, SaveExternalID,
              RespondPayURL, CheckoutFails, webhookVars
<1>3. ASSUME NEW o \in Order,
             CustomerPays(o) \/ OrderTurnsStale(o) \/ RedisForgets(o)
             \/ EpayNoticeRefused(o) \/ DeliverDuplicate(o)
      PROVE  PaymentsTypeOK'
  BY <1>1, <1>3 DEF PaymentsTypeOK, CustomerPays, OrderTurnsStale, RedisForgets,
              EpayNoticeRefused, DeliverDuplicate, orderVars, webhookVars
<1>4. ASSUME NEW o \in Order, NEW h \in Handler, DeliverNew(h, o)
      PROVE  PaymentsTypeOK'
  BY <1>1, <1>4 DEF PaymentsTypeOK, DeliverNew, orderVars, Request
<1>5. ASSUME NEW h \in Handler, MarkPaid(h)
      PROVE  PaymentsTypeOK'
  BY <1>1, <1>5 DEF PaymentsTypeOK, MarkPaid, Free, Request
<1>6. ASSUME NEW h \in Handler, ReadOrder(h)
      PROVE  PaymentsTypeOK'
  BY <1>1, <1>6 DEF PaymentsTypeOK, ReadOrder, NextStep, orderVars, Free, Request
<1>7. ASSUME NEW h \in Handler, Topup(h)
      PROVE  PaymentsTypeOK'
  BY <1>1, <1>7 DEF PaymentsTypeOK, Topup, orderVars, Free, Request
<1>8. ASSUME NEW h \in Handler, Activate(h)
      PROVE  PaymentsTypeOK'
  BY <1>1, <1>8 DEF PaymentsTypeOK, Activate, orderVars, Free, Request
<1>9. ASSUME NEW h \in Handler, TopupWithoutWallet(h) \/ HandlerFails(h)
      PROVE  PaymentsTypeOK'
  BY <1>1, <1>9 DEF PaymentsTypeOK, TopupWithoutWallet, HandlerFails, orderVars
<1>10. ASSUME NEW h \in Handler, Reply(h)
       PROVE  PaymentsTypeOK'
  BY <1>1, <1>10 DEF PaymentsTypeOK, Reply, orderVars, Free, Request
<1>11. ASSUME ExpireStalePendingOrders
       PROVE  PaymentsTypeOK'
  BY <1>1, <1>11 DEF PaymentsTypeOK, ExpireStalePendingOrders, webhookVars
<1>12. ASSUME OtherWalletCall \/ UNCHANGED vars
       PROVE  PaymentsTypeOK'
  BY <1>1, <1>12 DEF PaymentsTypeOK, OtherWalletCall, vars, payVars, orderVars,
              webhookVars
<1> QED
  BY <1>2, <1>3, <1>4, <1>5, <1>6, <1>7, <1>8, <1>9, <1>10, <1>11, <1>12
  DEF Next, HandlerStep, Deliver

\* Type correctness of orders, handlers and the wallet they share.
THEOREM PaymentsTypeCorrect == Spec => []PaymentsTypeOK
<1>1. Init => PaymentsTypeOK
  BY PaymentAssumption DEF Init, PaymentsTypeOK, WalletInit, WalletTypeOK
<1> QED
  BY <1>1, PaymentsTypeStep, PTL DEF Spec

\* Seen from the wallet, the whole payment system is the atomic ledger of
\* WalletLedger: whatever is proved of WalletSpec holds here.
THEOREM PaymentsImplementWallet == Spec => WalletSpec
<1>1. Init => WalletInit
  BY DEF Init
<1> QED
  BY <1>1, NextMovesWallet, PaymentsTypeCorrect, PTL DEF Spec, WalletSpec

-----------------------------------------------------------------------------
(* At most one credit per order. *)

\* After an append, an entry of a given type and reference is an old one,
\* unchanged, or the appended one.
LEMMA EntriesAfterAppend ==
    ASSUME WalletTypeOK, NEW a \in Account, NEW e \in Entry,
           ledger' = [ledger EXCEPT ![a] = Append(@, e)],
           NEW b \in Account, NEW t, NEW r, NEW i \in EntriesOf(b, t, r)'
    PROVE  \/ i \in EntriesOf(b, t, r) /\ ledger'[b][i] = ledger[b][i]
           \/ /\ b = a /\ i = Len(ledger[a]) + 1 /\ ledger'[b][i] = e
              /\ e.type = t /\ e.ref = r
<1>1. CASE b # a
  BY <1>1 DEF EntriesOf, WalletTypeOK
<1>2. CASE b = a
  <2>1. PICK n \in Nat : n = Len(ledger[a])
    BY DEF WalletTypeOK
  <2>2. /\ ledger'[a] = Append(ledger[a], e)
        /\ ledger[a] \in Seq(Entry)
    BY DEF WalletTypeOK
  <2>3. /\ DOMAIN ledger[a] = 1 .. n
        /\ DOMAIN ledger'[a] = 1 .. n + 1
        /\ ledger'[a][n + 1] = e
        /\ \A j \in 1 .. n : ledger'[a][j] = ledger[a][j]
    BY <2>1, <2>2
  <2>4. i \in 1 .. n \/ i = n + 1
    BY <1>2, <2>3 DEF EntriesOf
  <2> QED
    BY <1>2, <2>1, <2>3, <2>4 DEF EntriesOf
<1> QED
  BY <1>1, <1>2

\* The handlers' and the orders' part of the invariant only looks at topups that
\* name an order: these change in no step but Topup.
OrderEntriesKept ==
    \A a \in Account, o \in Order : \A i \in EntriesOf(a, "topup", o)' :
        i \in EntriesOf(a, "topup", o) /\ ledger'[a][i] = ledger[a][i]

LEMMA OtherCallsKeepOrderEntries ==
    ASSUME PaymentsTypeOK, OtherWalletCall
    PROVE  OrderEntriesKept
<1> USE PaymentAssumption, WalletAssumption
<1>1. WalletTypeOK
  BY DEF PaymentsTypeOK
<1>2. ASSUME NEW a \in Account, NEW e \in Entry, e.type = "topup" => e.ref = NoRef,
             ledger' = [ledger EXCEPT ![a] = Append(@, e)]
      PROVE  OrderEntriesKept
  <2> SUFFICES ASSUME NEW b \in Account, NEW o \in Order,
                      NEW i \in EntriesOf(b, "topup", o)'
               PROVE  i \in EntriesOf(b, "topup", o) /\ ledger'[b][i] = ledger[b][i]
    BY DEF OrderEntriesKept
  <2>1. o # NoRef
    OBVIOUS
  <2>2. ledger' = [ledger EXCEPT ![a] = Append(@, e)]
    BY <1>2
  <2>3. \/ i \in EntriesOf(b, "topup", o) /\ ledger'[b][i] = ledger[b][i]
        \/ /\ b = a /\ i = Len(ledger[a]) + 1 /\ ledger'[b][i] = e
           /\ e.type = "topup" /\ e.ref = o
    BY <1>1, <2>2, EntriesAfterAppend DEF EntriesOf
  <2> QED
    BY <1>2, <2>1, <2>3
<1>3. ASSUME NEW a \in Account, GetOrCreate(a)
      PROVE  OrderEntriesKept
  BY <1>3 DEF GetOrCreate, OrderEntriesKept, EntriesOf
<1>4. ASSUME NEW a \in Account, NEW amt \in Amount, NEW t \in {"topup", "credit"},
             Credit(a, t, amt, NoRef)
      PROVE  OrderEntriesKept
  <2>1. NewEntry(a, t, amt, NoRef) \in Entry
    BY <1>1, NewEntryType DEF TxType, CreditType
  <2>2. NewEntry(a, t, amt, NoRef).ref = NoRef
    BY DEF NewEntry
  <2> QED
    BY <1>2, <1>4, <2>1, <2>2 DEF Credit
<1>5. ASSUME NEW a \in Account, NEW amt \in Amount, Debit(a, amt, NoRef)
      PROVE  OrderEntriesKept
  <2>0. -amt \in Int /\ "debit" \in TxType
    BY WalletAssumption DEF TxType
  <2>1. NewEntry(a, "debit", -amt, NoRef) \in Entry
    BY <1>1, <2>0, NewEntryType
  <2>2. NewEntry(a, "debit", -amt, NoRef).type = "debit"
    BY DEF NewEntry
  <2> QED
    BY <1>2, <1>5, <2>1, <2>2 DEF Debit
<1>6. ASSUME NEW a \in Account, NEW c \in Code, RedeemCode(a, c)
      PROVE  OrderEntriesKept
  <2>0. RewardValue[c] \in Int /\ "redemption" \in TxType
    BY DEF TxType
  <2>1. NewEntry(a, "redemption", RewardValue[c], c) \in Entry
    BY <1>1, <2>0, NewEntryType
  <2>2. NewEntry(a, "redemption", RewardValue[c], c).type = "redemption"
    BY DEF NewEntry
  <2> QED
    BY <1>2, <1>6, <2>1, <2>2 DEF RedeemCode
<1> QED
  BY <1>3, <1>4, <1>5, <1>6 DEF OtherWalletCall

\* The two ledger properties survive every step that keeps the order entries,
\* loses no charge and un-pays no order.
LEMMA KeptEntriesStaySafe ==
    ASSUME CreditsAreBacked, CreditedAtMostOnce, OrderEntriesKept,
           charged \subseteq charged',
           \A o \in Order : status[o] = "paid" => status'[o] = "paid"
    PROVE  CreditsAreBacked' /\ CreditedAtMostOnce'
BY DEF CreditsAreBacked, CreditedAtMostOnce, OrderEntriesKept

LEMMA UnchangedLedgerKeeps ==
    ASSUME UNCHANGED ledger
    PROVE  OrderEntriesKept
BY DEF OrderEntriesKept, EntriesOf

LEMMA KeptEntriesStayEmpty ==
    ASSUME OrderEntriesKept, NEW o \in Order,
           \A a \in Account : EntriesOf(a, "topup", o) = {}
    PROVE  \A a \in Account : EntriesOf(a, "topup", o)' = {}
BY DEF OrderEntriesKept

\* Steps that touch no handler leave the handlers' part of the invariant alone.
LEMMA IdleHandlersStaySafe ==
    ASSUME OneOwesCredit, OrderEntriesKept, PaymentsTypeOK, UNCHANGED handler,
           charged \subseteq charged',
           \A o \in Order : status[o] = "paid" => status'[o] = "paid"
    PROVE  OneOwesCredit'
<1>1. \A h \in Handler : OwesCredit(h) => handler[h].order \in Order
  BY DEF OwesCredit, PaymentsTypeOK, Request, Free
<1>2. \A h \in Handler : OwesCredit(h)' = OwesCredit(h)
  BY DEF OwesCredit
<1>3. \A h \in Handler : OwesCredit(h) =>
        \A a \in Account : EntriesOf(a, "topup", handler[h].order)' = {}
  BY <1>1, KeptEntriesStayEmpty DEF OneOwesCredit
<1> QED
  BY <1>1, <1>2, <1>3 DEF OneOwesCredit

\* The rest of the invariant, for the steps after which it must be shown again.
LEMMA QuietStepKeepsInv ==
    ASSUME PaymentsInv, PaymentsTypeOK', CheckoutBeforeCharge', UNCHANGED handler,
           OrderEntriesKept, charged \subseteq charged',
           \A o \in Order : status[o] = "paid" => status'[o] = "paid"
    PROVE  PaymentsInv'
BY IdleHandlersStaySafe, KeptEntriesStaySafe DEF PaymentsInv

\* What one handler must satisfy whatever the others do.
HandlerInv(h) ==
    /\ handler[h] # Free => handler[h].order \in charged
    /\ handler[h].pc = "mark" => ~ handler[h].didTransition
    /\ handler[h].pc = "credit" => handler[h].didTransition

\* Steps in which no handler begins to owe a credit.
LEMMA NoNewDebtStaysSafe ==
    ASSUME OneOwesCredit, UNCHANGED <<ledger, status>>,
           \A g \in Handler : HandlerInv(g)',
           \A g \in Handler : OwesCredit(g)' =>
               OwesCredit(g) /\ handler'[g].order = handler[g].order
    PROVE  OneOwesCredit'
<1>1. \A g \in Handler : OwesCredit(g)' =>
        /\ status'[handler'[g].order] = "paid"
        /\ \A a \in Account : EntriesOf(a, "topup", handler[g].order)' = {}
  BY DEF OneOwesCredit, EntriesOf
<1> QED
  BY <1>1 DEF OneOwesCredit, HandlerInv

-----------------------------------------------------------------------------
(* The invariant, one step per action. *)

LEMMA PaymentsInvStep == PaymentsInv /\ [Next]_vars => PaymentsInv'
<1> SUFFICES ASSUME PaymentsInv, [Next]_vars
             PROVE  PaymentsInv'
  OBVIOUS
<1> USE PaymentAssumption
<1>1. PaymentsTypeOK /\ PaymentsTypeOK'
  BY PaymentsTypeStep DEF PaymentsInv
<1>2. CheckoutBeforeCharge
  BY DEF PaymentsInv
<1>3. ASSUME NEW o \in Order, CreateOrder(o)
      PROVE  PaymentsInv'
  <2>1. CheckoutBeforeCharge'
    BY <1>1, <1>2, <1>3 DEF CheckoutBeforeCharge, CreateOrder, PaymentsTypeOK
  <2>2. \A p \in Order : status[p] = "paid" => status'[p] = "paid"
    BY <1>1, <1>3 DEF CreateOrder, PaymentsTypeOK
  <2> QED
    BY <1>1, <1>3, <2>1, <2>2, QuietStepKeepsInv, UnchangedLedgerKeeps
    DEF CreateOrder, walletVars, webhookVars
<1>4. ASSUME NEW o \in Order,
             CheckoutResolved(o) \/ RespondPayURL(o) \/ CheckoutFails(o)
      PROVE  PaymentsInv'
  <2>1. CheckoutBeforeCharge'
    BY <1>1, <1>2, <1>4
    DEF CheckoutBeforeCharge, CheckoutResolved, RespondPayURL, CheckoutFails,
        PaymentsTypeOK
  <2> QED
    BY <1>1, <1>4, <2>1, QuietStepKeepsInv, UnchangedLedgerKeeps
    DEF CheckoutResolved, RespondPayURL, CheckoutFails, walletVars, webhookVars
<1>5. ASSUME NEW o \in Order, SaveExternalID(o)
      PROVE  PaymentsInv'
  \* The stale copy cannot meet a paid order: its customer has no URL yet.
  <2>1. status[o] # "paid"
    BY <1>2, <1>5 DEF CheckoutBeforeCharge, SaveExternalID
  <2>2. \A p \in Order : status[p] = "paid" => status'[p] = "paid"
    BY <1>1, <1>5, <2>1 DEF SaveExternalID, PaymentsTypeOK
  <2>3. CheckoutBeforeCharge'
    BY <1>1, <1>2, <1>5, <2>1 DEF CheckoutBeforeCharge, SaveExternalID, PaymentsTypeOK
  <2> QED
    BY <1>1, <1>5, <2>2, <2>3, QuietStepKeepsInv, UnchangedLedgerKeeps
    DEF SaveExternalID, walletVars, webhookVars
<1>6. ASSUME NEW o \in Order, CustomerPays(o)
      PROVE  PaymentsInv'
  <2>1. CheckoutBeforeCharge'
    BY <1>2, <1>6 DEF CheckoutBeforeCharge, CustomerPays, orderVars
  <2> QED
    BY <1>1, <1>6, <2>1, QuietStepKeepsInv, UnchangedLedgerKeeps
    DEF CustomerPays, walletVars, orderVars, webhookVars
<1>7. ASSUME NEW o \in Order,
             \/ OrderTurnsStale(o) \/ RedisForgets(o)
             \/ EpayNoticeRefused(o) \/ DeliverDuplicate(o)
      PROVE  PaymentsInv'
  <2>1. UNCHANGED <<ledger, status, checkout, charged, handler>>
    BY <1>7 DEF OrderTurnsStale, RedisForgets, EpayNoticeRefused, DeliverDuplicate,
                walletVars, orderVars, webhookVars
  <2>2. CheckoutBeforeCharge'
    BY <1>2, <2>1 DEF CheckoutBeforeCharge
  <2> QED
    BY <1>1, <2>1, <2>2, QuietStepKeepsInv, UnchangedLedgerKeeps
<1>8. ASSUME ExpireStalePendingOrders
      PROVE  PaymentsInv'
  <2>1. \A p \in Order : status[p] = "paid" => status'[p] = "paid"
    BY <1>8 DEF ExpireStalePendingOrders
  <2>2. CheckoutBeforeCharge'
    BY <1>1, <1>2, <1>8 DEF CheckoutBeforeCharge, ExpireStalePendingOrders
  <2> QED
    BY <1>1, <1>8, <2>1, <2>2, QuietStepKeepsInv, UnchangedLedgerKeeps
    DEF ExpireStalePendingOrders, walletVars, webhookVars
<1>9. ASSUME OtherWalletCall
      PROVE  PaymentsInv'
  <2>1. UNCHANGED <<status, checkout, charged, handler>>
    BY <1>9 DEF OtherWalletCall, payVars, orderVars, webhookVars
  <2>2. CheckoutBeforeCharge'
    BY <1>2, <2>1 DEF CheckoutBeforeCharge
  <2> QED
    BY <1>1, <1>9, <2>1, <2>2, QuietStepKeepsInv, OtherCallsKeepOrderEntries
<1>10. ASSUME NEW h \in Handler, UNCHANGED <<ledger, status, checkout, charged>>,
              \A g \in Handler : HandlerInv(g)',
              \A g \in Handler : OwesCredit(g)' =>
                OwesCredit(g) /\ handler'[g].order = handler[g].order
       PROVE  PaymentsInv'
  <2>1. OneOwesCredit'
    BY <1>10, NoNewDebtStaysSafe DEF PaymentsInv
  <2>2. CreditsAreBacked' /\ CreditedAtMostOnce'
    BY <1>10, KeptEntriesStaySafe, UnchangedLedgerKeeps DEF PaymentsInv
  <2>3. CheckoutBeforeCharge'
    BY <1>2, <1>10 DEF CheckoutBeforeCharge
  <2> QED
    BY <1>1, <2>1, <2>2, <2>3 DEF PaymentsInv
<1>11. \A g \in Handler : HandlerInv(g)
  BY DEF PaymentsInv, OneOwesCredit, HandlerInv
<1>12. ASSUME NEW h \in Handler, NEW o \in Order, DeliverNew(h, o)
       PROVE  PaymentsInv'
  <2>1. UNCHANGED <<ledger, status, checkout, charged>> /\ o \in charged
    BY <1>12 DEF DeliverNew, walletVars, orderVars
  <2>2. \A g \in Handler : g # h => handler'[g] = handler[g]
    BY <1>1, <1>12 DEF DeliverNew, PaymentsTypeOK
  <2>3. handler'[h] = [pc |-> "mark", order |-> o, didTransition |-> FALSE]
    BY <1>1, <1>12 DEF DeliverNew, PaymentsTypeOK
  <2>4. \A g \in Handler : HandlerInv(g)'
    BY <1>11, <2>1, <2>2, <2>3 DEF HandlerInv
  <2>5. \A g \in Handler : OwesCredit(g)' =>
          OwesCredit(g) /\ handler'[g].order = handler[g].order
    BY <2>2, <2>3 DEF OwesCredit
  <2> QED
    BY <1>10, <2>1, <2>4, <2>5
<1>13. ASSUME NEW h \in Handler, ReadOrder(h)
       PROVE  PaymentsInv'
  <2>1. UNCHANGED <<ledger, status, checkout, charged>>
    BY <1>13 DEF ReadOrder, walletVars, orderVars
  <2>2. \A g \in Handler : g # h => handler'[g] = handler[g]
    BY <1>1, <1>13 DEF ReadOrder, PaymentsTypeOK
  <2>3. handler[h].pc = "read" /\ handler[h] \in Request
    BY <1>1, <1>13 DEF ReadOrder, PaymentsTypeOK, Free
  <2>4. /\ handler'[h].order = handler[h].order
        /\ handler'[h].didTransition = handler[h].didTransition
        /\ handler'[h].pc = NextStep(handler[h].order, handler[h].didTransition)
    BY <1>1, <1>13, <2>3 DEF ReadOrder, PaymentsTypeOK, Request
  <2>5. handler[h].order \in charged
    BY <1>11, <2>3 DEF HandlerInv, Free
  <2>6. HandlerInv(h)'
    BY <2>1, <2>4, <2>5 DEF HandlerInv, NextStep
  <2>7. \A g \in Handler : HandlerInv(g)'
    BY <1>11, <2>1, <2>2, <2>6 DEF HandlerInv
  <2>8. \A g \in Handler : OwesCredit(g)' =>
          OwesCredit(g) /\ handler'[g].order = handler[g].order
    BY <2>2, <2>3, <2>4 DEF OwesCredit
  <2> QED
    BY <1>10, <2>1, <2>7, <2>8
<1>14. ASSUME NEW h \in Handler,
              \/ TopupWithoutWallet(h) \/ Activate(h) \/ Reply(h) \/ HandlerFails(h)
       PROVE  PaymentsInv'
  <2>1. UNCHANGED <<ledger, status, checkout, charged>>
    BY <1>14 DEF TopupWithoutWallet, Activate, Reply, HandlerFails, walletVars, orderVars
  <2>2. \A g \in Handler : g # h => handler'[g] = handler[g]
    BY <1>1, <1>14 DEF TopupWithoutWallet, Activate, Reply, HandlerFails, PaymentsTypeOK
  <2>3. \/ handler'[h] = Free
        \/ /\ handler[h] # Free
           /\ handler'[h].order = handler[h].order
           /\ handler'[h].pc = "reply"
    BY <1>1, <1>14
    DEF TopupWithoutWallet, Activate, Reply, HandlerFails, PaymentsTypeOK, Free, Request
  <2>4. HandlerInv(h)' /\ ~ OwesCredit(h)'
    <3>1. handler[h] # Free => handler[h].order \in charged
      BY <1>11 DEF HandlerInv
    <3>2. handler'[h].pc \in {"free", "reply"}
      BY <2>3 DEF Free
    <3>3. ~ OwesCredit(h)'
      BY <3>2 DEF OwesCredit
    <3> QED
      BY <2>1, <2>3, <3>1, <3>2, <3>3 DEF HandlerInv
  <2>5. \A g \in Handler : HandlerInv(g)'
    BY <1>11, <2>1, <2>2, <2>4 DEF HandlerInv
  <2>6. \A g \in Handler : OwesCredit(g)' =>
          OwesCredit(g) /\ handler'[g].order = handler[g].order
    BY <2>2, <2>4 DEF OwesCredit
  <2> QED
    BY <1>10, <2>1, <2>5, <2>6
<1>15. ASSUME NEW h \in Handler, MarkPaid(h)
       PROVE  PaymentsInv'
  <2>1. UNCHANGED <<ledger, checkout, charged>>
    BY <1>15 DEF MarkPaid, walletVars
  <2>2. PICK o \in Order : o = handler[h].order /\ handler[h] # Free
    BY <1>1, <1>15 DEF MarkPaid, PaymentsTypeOK, Free, Request
  <2>3. o \in charged /\ ~ handler[h].didTransition
    BY <1>11, <1>15, <2>2 DEF HandlerInv, MarkPaid
  <2>4. \A p \in Order : status'[p] = status[p] \/ (p = o /\ status'[p] = "paid")
    <3>1. status' = status \/ status' = [status EXCEPT ![o] = "paid"]
      BY <1>15, <2>2 DEF MarkPaid
    <3> QED
      BY <1>1, <3>1 DEF PaymentsTypeOK
  <2>5. \A g \in Handler : g # h => handler'[g] = handler[g]
    BY <1>1, <1>15 DEF MarkPaid, PaymentsTypeOK
  <2>6. /\ handler'[h].pc = "read"
        /\ handler'[h].order = o
        /\ handler'[h].didTransition => status[o] = "pending" /\ status'[o] = "paid"
    BY <1>1, <1>15, <2>2, <2>3 DEF MarkPaid, PaymentsTypeOK, Request, Free
  <2>7. CheckoutBeforeCharge'
    BY <1>2, <2>1, <2>3, <2>4 DEF CheckoutBeforeCharge
  <2>8. CreditsAreBacked' /\ CreditedAtMostOnce'
    BY <2>1, <2>4, KeptEntriesStaySafe, UnchangedLedgerKeeps DEF PaymentsInv
  <2>9. \A g \in Handler : HandlerInv(g)'
    BY <1>11, <2>1, <2>3, <2>5, <2>6 DEF HandlerInv
  \* A pending order has no credit and nobody who owes it one.
  <2>10. status[o] = "pending" =>
           /\ \A a \in Account : EntriesOf(a, "topup", o) = {}
           /\ \A g \in Handler : OwesCredit(g) => handler[g].order # o
    BY DEF PaymentsInv, CreditsAreBacked, OneOwesCredit
  <2>11. \A g \in Handler : OwesCredit(g)' =>
           /\ status'[handler'[g].order] = "paid"
           /\ \A a \in Account : EntriesOf(a, "topup", handler'[g].order) = {}
    <3>1. ASSUME NEW g \in Handler, g # h, OwesCredit(g)'
          PROVE  /\ OwesCredit(g)
                 /\ handler'[g].order = handler[g].order
                 /\ handler[g].order \in Order
      BY <1>1, <2>5, <3>1 DEF OwesCredit, PaymentsTypeOK, Request, Free
    <3>2. ASSUME NEW g \in Handler, g # h, OwesCredit(g)'
          PROVE  /\ status'[handler'[g].order] = "paid"
                 /\ \A a \in Account : EntriesOf(a, "topup", handler'[g].order) = {}
      BY <2>4, <3>1, <3>2 DEF PaymentsInv, OneOwesCredit
    <3>3. OwesCredit(h)' =>
            /\ status'[handler'[h].order] = "paid"
            /\ \A a \in Account : EntriesOf(a, "topup", handler'[h].order) = {}
      BY <2>6, <2>10 DEF OwesCredit
    <3> QED
      BY <3>2, <3>3
  <2>12. \A f, g \in Handler :
           OwesCredit(f)' /\ OwesCredit(g)' /\ handler'[f].order = handler'[g].order
             => f = g
    BY <2>5, <2>6, <2>10 DEF PaymentsInv, OneOwesCredit, OwesCredit
  <2>13. OneOwesCredit'
    BY <2>1, <2>9, <2>11, <2>12 DEF OneOwesCredit, HandlerInv, EntriesOf
  <2> QED
    BY <1>1, <2>7, <2>8, <2>13 DEF PaymentsInv
<1>16. ASSUME NEW h \in Handler, Topup(h)
       PROVE  PaymentsInv'
  <2>1. UNCHANGED <<status, checkout, charged>>
    BY <1>16 DEF Topup, orderVars
  <2>2. PICK o \in Order : o = handler[h].order /\ handler[h] # Free
    BY <1>1, <1>16 DEF Topup, PaymentsTypeOK, Free, Request
  <2>3. OwesCredit(h) /\ o \in charged /\ status[o] = "paid"
    BY <1>11, <1>16, <2>2 DEF HandlerInv, Topup, OwesCredit, PaymentsInv, OneOwesCredit
  <2>4. \A a \in Account : EntriesOf(a, "topup", o) = {}
    BY <2>2, <2>3 DEF PaymentsInv, OneOwesCredit
  <2>5. \A g \in Handler : g # h => handler'[g] = handler[g]
    BY <1>1, <1>16 DEF Topup, PaymentsTypeOK
  <2>6. handler'[h].pc = "reply" /\ handler'[h].order = o
    BY <1>1, <1>16, <2>2 DEF Topup, PaymentsTypeOK, Request, Free
  <2> DEFINE owner == OrderAccount[o]
             entry == NewEntry(owner, "topup", AmountCNY[o], o)
  <2>7. /\ owner \in Account
        /\ entry \in Entry
        /\ entry.amount = AmountCNY[o]
        /\ entry.type = "topup"
        /\ entry.ref = o
    <3>1. AmountCNY[o] \in Amount /\ o \in Ref /\ owner \in Account
      OBVIOUS
    <3>2. \A amt \in Amount : amt \in Int
      BY ONLY WalletAssumption
    <3>3. WalletTypeOK
      BY <1>1 DEF PaymentsTypeOK
    <3> QED
      BY <3>1, <3>2, <3>3, NewEntryType DEF TxType, CreditType, NewEntry
  <2>8. ledger' = [ledger EXCEPT ![owner] = Append(@, entry)]
    BY <1>16, <2>2 DEF Topup, Credit
  <2> HIDE DEF owner, entry
  \* The entries of this order are the new one; those of the others are kept.
  <2>9. \A a \in Account, p \in Order : \A i \in EntriesOf(a, "topup", p)' :
          \/ p # o /\ i \in EntriesOf(a, "topup", p) /\ ledger'[a][i] = ledger[a][i]
          \/ p = o /\ a = owner /\ i = Len(ledger[owner]) + 1 /\ ledger'[a][i] = entry
    <3> SUFFICES ASSUME NEW a \in Account, NEW p \in Order,
                        NEW i \in EntriesOf(a, "topup", p)'
                 PROVE
          \/ p # o /\ i \in EntriesOf(a, "topup", p) /\ ledger'[a][i] = ledger[a][i]
          \/ p = o /\ a = owner /\ i = Len(ledger[owner]) + 1 /\ ledger'[a][i] = entry
      OBVIOUS
    <3>1. \/ i \in EntriesOf(a, "topup", p) /\ ledger'[a][i] = ledger[a][i]
          \/ /\ a = owner /\ i = Len(ledger[owner]) + 1 /\ ledger'[a][i] = entry
             /\ entry.type = "topup" /\ entry.ref = p
      BY <1>1, <2>7, <2>8, EntriesAfterAppend DEF EntriesOf, PaymentsTypeOK
    <3> QED
      BY <2>4, <2>7, <3>1
  <2>10. CreditsAreBacked'
    BY <2>1, <2>3, <2>7, <2>9 DEF PaymentsInv, CreditsAreBacked, owner
  <2>11. CreditedAtMostOnce'
    BY <2>9 DEF PaymentsInv, CreditedAtMostOnce
  <2>12. CheckoutBeforeCharge'
    BY <1>2, <2>1 DEF CheckoutBeforeCharge
  <2>13. \A g \in Handler : HandlerInv(g)'
    BY <1>11, <2>1, <2>3, <2>5, <2>6 DEF HandlerInv
  <2>14. \A g \in Handler : OwesCredit(g)' =>
           /\ g # h /\ OwesCredit(g)
           /\ handler'[g].order = handler[g].order
           /\ handler[g].order \in Order
           /\ handler[g].order # o
    BY <1>1, <2>2, <2>3, <2>5, <2>6
    DEF OwesCredit, PaymentsInv, OneOwesCredit, PaymentsTypeOK, Request, Free
  <2>15. \A g \in Handler : OwesCredit(g)' =>
           \A a \in Account : EntriesOf(a, "topup", handler[g].order)' = {}
    <3> SUFFICES ASSUME NEW g \in Handler, OwesCredit(g)', NEW a \in Account
                 PROVE  EntriesOf(a, "topup", handler[g].order)' = {}
      OBVIOUS
    <3>1. PICK p \in Order : p = handler[g].order /\ p # o /\ handler'[g].order = p
      BY <2>14
    <3>2. EntriesOf(a, "topup", p) = {}
      BY <2>14, <3>1 DEF PaymentsInv, OneOwesCredit
    <3>3. EntriesOf(a, "topup", p)' = {}
      BY <2>9, <3>1, <3>2
    <3> QED
      BY <3>1, <3>3 DEF EntriesOf
  <2>16. OneOwesCredit'
    BY <2>1, <2>13, <2>14, <2>15 DEF PaymentsInv, OneOwesCredit, HandlerInv
  <2> QED
    BY <1>1, <2>10, <2>11, <2>12, <2>16 DEF PaymentsInv
<1>17. CASE UNCHANGED vars
  <2>1. UNCHANGED <<ledger, status, checkout, charged, handler>>
    BY <1>17 DEF vars, walletVars, payVars, orderVars, webhookVars
  <2>2. CheckoutBeforeCharge'
    BY <1>2, <2>1 DEF CheckoutBeforeCharge
  <2> QED
    BY <1>1, <2>1, <2>2, QuietStepKeepsInv, UnchangedLedgerKeeps
<1> QED
  BY <1>3, <1>4, <1>5, <1>6, <1>7, <1>8, <1>9, <1>12, <1>13, <1>14,
     <1>15, <1>16, <1>17
  DEF Next, HandlerStep, Deliver

\* An order is credited at most once, and only when its customer paid, to its
\* owner, with its amount: the invariant, with the two ledger properties in it.
THEOREM PaymentsCorrect == Spec => []PaymentsInv
<1>1. Init => PaymentsInv
  <2> SUFFICES ASSUME Init
               PROVE  PaymentsInv
    OBVIOUS
  <2>1. PaymentsTypeOK
    BY PaymentAssumption DEF Init, PaymentsTypeOK, WalletInit, WalletTypeOK
  <2>2. \A a \in Account, o \in Order : EntriesOf(a, "topup", o) = {}
    BY DEF Init, WalletInit, EntriesOf
  <2>3. CheckoutBeforeCharge
    BY DEF Init, CheckoutBeforeCharge
  <2>4. OneOwesCredit
    BY DEF Init, OneOwesCredit, OwesCredit, Free
  <2> QED
    BY <2>1, <2>2, <2>3, <2>4 DEF PaymentsInv, CreditsAreBacked, CreditedAtMostOnce
<1> QED
  BY <1>1, PaymentsInvStep, PTL DEF Spec

\* "To prevent double-charge on concurrent webhook delivery" (MarkOrderPaid).
THEOREM NoDoubleCredit == Spec => []CreditedAtMostOnce
BY PaymentsCorrect, PTL DEF PaymentsInv

\* No money without a payment: every credit that names an order is one its
\* customer paid for.
THEOREM NoUnpaidCredit == Spec => []CreditsAreBacked
BY PaymentsCorrect, PTL DEF PaymentsInv

\* A paid order stays paid, in spite of the checkout's stale whole-row save and
\* of the expiry job.
THEOREM PaidStaysPaid == Spec => PaidIsFinal
<1>1. PaymentsInv /\ [Next]_vars
        => [\A o \in Order : status[o] = "paid" => status'[o] = "paid"]_status
  <2> SUFFICES ASSUME PaymentsInv, [Next]_vars,
                      NEW o \in Order, status[o] = "paid"
               PROVE  status'[o] = "paid"
    OBVIOUS
  <2>1. PaymentsTypeOK /\ CheckoutBeforeCharge
    BY DEF PaymentsInv
  <2>2. ASSUME NEW p \in Order, CreateOrder(p) \/ SaveExternalID(p)
        PROVE  status'[o] = "paid"
    BY <2>1, <2>2 DEF PaymentsTypeOK, CheckoutBeforeCharge, CreateOrder, SaveExternalID
  <2>3. ASSUME NEW h \in Handler, MarkPaid(h)
        PROVE  status'[o] = "paid"
    BY <2>1, <2>3 DEF PaymentsTypeOK, MarkPaid
  <2>4. ASSUME ExpireStalePendingOrders
        PROVE  status'[o] = "paid"
    BY <2>4 DEF ExpireStalePendingOrders
  <2>5. ASSUME NEW p \in Order,
               \/ CheckoutResolved(p) \/ RespondPayURL(p) \/ CheckoutFails(p)
               \/ CustomerPays(p) \/ OrderTurnsStale(p) \/ RedisForgets(p)
               \/ Deliver(p) \/ EpayNoticeRefused(p)
        PROVE  UNCHANGED status
    BY <2>5 DEF CheckoutResolved, RespondPayURL, CheckoutFails, CustomerPays,
                OrderTurnsStale, RedisForgets, Deliver, DeliverNew, DeliverDuplicate,
                EpayNoticeRefused, orderVars
  <2>6. ASSUME NEW h \in Handler,
               \/ ReadOrder(h) \/ Topup(h) \/ TopupWithoutWallet(h)
               \/ Activate(h) \/ Reply(h) \/ HandlerFails(h)
        PROVE  UNCHANGED status
    BY <2>6 DEF ReadOrder, Topup, TopupWithoutWallet, Activate, Reply, HandlerFails,
                orderVars
  <2>7. ASSUME OtherWalletCall \/ UNCHANGED vars
        PROVE  UNCHANGED status
    BY <2>7 DEF OtherWalletCall, vars, payVars, orderVars
  <2> QED
    BY <2>2, <2>3, <2>4, <2>5, <2>6, <2>7 DEF Next, HandlerStep
<1> QED
  BY <1>1, PaymentsCorrect, PTL DEF Spec, PaidIsFinal

\* No webhook, checkout or cron step can overdraw a wallet or leave the ledger
\* and the balance in disagreement.
THEOREM PaymentsKeepWalletSound ==
    Spec => [](BalanceNeverNegative /\ LedgerExplainsBalance /\ TotalsAgree)
BY PaymentsImplementWallet, BalanceSafe, LedgerCorrect, TotalsCorrect, PTL
-----------------------------------------------------------------------------
(* The life of an order, as OrderBook has it. *)

\* An order expires only when it is stale, long after its checkout: the stale
\* row that the checkout saves cannot meet an expired order either.
LapsedAreStale ==
    \A o \in Order :
        /\ status[o] = "expired" => o \in stale
        /\ o \in stale => checkout[o] \in {"url", "failed"}

LEMMA LapsedAreStaleStep ==
    ASSUME PaymentsTypeOK, CheckoutBeforeCharge, LapsedAreStale, [Next]_vars
    PROVE  LapsedAreStale'
<1> USE DEF LapsedAreStale, PaymentsTypeOK
<1>1. ASSUME NEW o \in Order, CreateOrder(o) \/ SaveExternalID(o)
      PROVE  LapsedAreStale'
  BY <1>1 DEF CreateOrder, SaveExternalID, CheckoutBeforeCharge
<1>2. ASSUME NEW o \in Order,
             CheckoutResolved(o) \/ RespondPayURL(o) \/ CheckoutFails(o) \/ OrderTurnsStale(o)
      PROVE  LapsedAreStale'
  BY <1>2 DEF CheckoutResolved, RespondPayURL, CheckoutFails, OrderTurnsStale
<1>3. ASSUME NEW h \in Handler, MarkPaid(h)
      PROVE  LapsedAreStale'
  <2>1. UNCHANGED <<checkout, stale>>
    BY <1>3 DEF MarkPaid
  <2>2. \A o \in Order : status'[o] = "expired" => status[o] = "expired"
    BY <1>3 DEF MarkPaid
  <2> QED
    BY <2>1, <2>2
<1>4. ASSUME ExpireStalePendingOrders
      PROVE  LapsedAreStale'
  BY <1>4 DEF ExpireStalePendingOrders
<1>5. ASSUME NEW o \in Order,
             CustomerPays(o) \/ RedisForgets(o) \/ Deliver(o) \/ EpayNoticeRefused(o)
      PROVE  UNCHANGED orderVars
  BY <1>5 DEF CustomerPays, RedisForgets, Deliver, DeliverNew, DeliverDuplicate,
              EpayNoticeRefused
<1>6. ASSUME NEW h \in Handler,
             \/ ReadOrder(h) \/ Topup(h) \/ TopupWithoutWallet(h)
             \/ Activate(h) \/ Reply(h) \/ HandlerFails(h)
      PROVE  UNCHANGED orderVars
  BY <1>6 DEF ReadOrder, Topup, TopupWithoutWallet, Activate, Reply, HandlerFails
<1>7. ASSUME OtherWalletCall \/ UNCHANGED vars
      PROVE  UNCHANGED orderVars
  BY <1>7 DEF OtherWalletCall, vars, payVars
<1>8. UNCHANGED orderVars => LapsedAreStale'
  BY DEF orderVars
<1> QED
  BY <1>1, <1>2, <1>3, <1>4, <1>5, <1>6, <1>7, <1>8 DEF Next, HandlerStep

\* No entry of a ledger is ever changed or removed.
LEMMA EntriesStay ==
    ASSUME WalletTypeOK, [WalletNext]_walletVars,
           NEW a \in Account, NEW t, NEW r, NEW i \in EntriesOf(a, t, r)
    PROVE  i \in EntriesOf(a, t, r)'
<1>1. ASSUME NEW b \in Account, NEW e,
             ledger' = [ledger EXCEPT ![b] = Append(@, e)]
      PROVE  i \in EntriesOf(a, t, r)'
  <2>1. CASE a # b
    BY <1>1, <2>1 DEF EntriesOf, WalletTypeOK
  <2>2. CASE a = b
    <3>1. ledger[a] \in Seq(Entry) /\ ledger'[a] = Append(ledger[a], e)
      BY <1>1, <2>2 DEF WalletTypeOK
    <3>2. /\ i \in 1 .. Len(ledger[a])
          /\ ledger[a][i].type = t /\ ledger[a][i].ref = r
      BY <3>1 DEF EntriesOf
    <3>3. /\ DOMAIN ledger'[a] = 1 .. Len(ledger[a]) + 1
          /\ ledger'[a][i] = ledger[a][i]
      BY <3>1, <3>2
    <3> QED
      BY <3>1, <3>2, <3>3 DEF EntriesOf
  <2> QED
    BY <2>1, <2>2
<1>2. ASSUME UNCHANGED ledger
      PROVE  i \in EntriesOf(a, t, r)'
  BY <1>2 DEF EntriesOf
<1>3. \/ UNCHANGED ledger
      \/ \E b \in Account : \E e : ledger' = [ledger EXCEPT ![b] = Append(@, e)]
  BY DEF WalletNext, GetOrCreate, Credit, Debit, RedeemCode, walletVars
<1> QED
  BY <1>1, <1>2, <1>3

LEMMA BookedStays ==
    ASSUME PaymentsTypeOK, [Next]_vars, NEW o \in Order, Credited(o)
    PROVE  Credited(o)'
<1>1. OrderAccount[o] \in Account
  BY PaymentAssumption
<1>2. PICK i : i \in EntriesOf(OrderAccount[o], "topup", o)
  BY DEF Credited
<1>3. WalletTypeOK /\ [WalletNext]_walletVars
  BY NextMovesWallet DEF PaymentsTypeOK
<1>4. i \in EntriesOf(OrderAccount[o], "topup", o)'
  BY <1>1, <1>2, <1>3, EntriesStay
<1> QED
  BY <1>4 DEF Credited

\* Steps that keep the entries of orders book nothing.
LEMMA KeptEntriesBookNothing ==
    ASSUME PaymentsTypeOK, [Next]_vars, OrderEntriesKept
    PROVE  {o \in Order : Credited(o)}' = {o \in Order : Credited(o)}
<1>1. ASSUME NEW o \in Order, Credited(o)'
      PROVE  Credited(o)
  <2>1. OrderAccount[o] \in Account
    BY PaymentAssumption
  <2> QED
    BY <1>1, <2>1 DEF Credited, OrderEntriesKept
<1>2. \A o \in Order : Credited(o) => Credited(o)'
  BY BookedStays
<1> QED
  BY <1>1, <1>2

LEMMA StepKeepsPromise ==
    ASSUME PaymentsInv, LapsedAreStale, [Next]_vars
    PROVE  [Promise!BookNext]_(Promise!bookVars)
<1> USE PaymentAssumption
<1> DEFINE booked == {o \in Order : Credited(o)}
<1>1. PaymentsTypeOK /\ CheckoutBeforeCharge /\ OneOwesCredit
  BY DEF PaymentsInv
<1>2. ASSUME OrderEntriesKept
      PROVE  UNCHANGED booked
  BY <1>1, <1>2, KeptEntriesBookNothing
<1>3. ASSUME UNCHANGED <<status, charged>>, OrderEntriesKept
      PROVE  UNCHANGED Promise!bookVars
  BY <1>2, <1>3 DEF Promise!bookVars, OrderPhase
<1>4. ASSUME NEW o \in Order, CreateOrder(o)
      PROVE  Promise!Place(o)
  <2>1. UNCHANGED <<ledger, charged>>
    BY <1>4 DEF CreateOrder, walletVars
  <2>2. OrderPhase[o] = "none" /\ OrderPhase' = [OrderPhase EXCEPT ![o] = "open"]
    BY <1>1, <1>4 DEF CreateOrder, OrderPhase, PaymentsTypeOK
  <2> QED
    BY <1>2, <2>1, <2>2, UnchangedLedgerKeeps DEF Promise!Place
<1>5. ASSUME NEW o \in Order, SaveExternalID(o)
      PROVE  UNCHANGED Promise!bookVars
  <2>1. UNCHANGED <<ledger, charged>>
    BY <1>5 DEF SaveExternalID, walletVars
  <2>2. status[o] = "pending"
    BY <1>1, <1>5 DEF SaveExternalID, CheckoutBeforeCharge, LapsedAreStale, PaymentsTypeOK
  <2>3. status' = status
    BY <1>1, <1>5, <2>2 DEF SaveExternalID, PaymentsTypeOK
  <2> QED
    BY <1>3, <2>1, <2>3, UnchangedLedgerKeeps
<1>6. ASSUME NEW o \in Order, CustomerPays(o)
      PROVE  Promise!Buy(o)
  <2>1. UNCHANGED <<ledger, status>> /\ o \notin charged /\ charged' = charged \union {o}
    BY <1>6 DEF CustomerPays, walletVars, orderVars
  <2>2. OrderPhase[o] # "none" /\ UNCHANGED OrderPhase
    BY <1>1, <1>6, <2>1 DEF CustomerPays, CheckoutBeforeCharge, OrderPhase
  <2> QED
    BY <1>2, <2>1, <2>2, UnchangedLedgerKeeps DEF Promise!Buy
<1>7. ASSUME NEW h \in Handler, MarkPaid(h)
      PROVE  Promise!BookNext \/ UNCHANGED Promise!bookVars
  <2>1. UNCHANGED <<ledger, charged>>
    BY <1>7 DEF MarkPaid, walletVars
  <2>2. PICK o \in Order : o = handler[h].order /\ o \in charged
    BY <1>1, <1>7 DEF MarkPaid, PaymentsTypeOK, Free, Request, OneOwesCredit
  <2>3. CASE status[o] = "pending"
    <3>1. status' = [status EXCEPT ![o] = "paid"]
      BY <1>7, <2>2, <2>3 DEF MarkPaid
    <3>2. OrderPhase[o] = "open" /\ OrderPhase' = [OrderPhase EXCEPT ![o] = "paid"]
      BY <1>1, <2>3, <3>1 DEF OrderPhase, PaymentsTypeOK
    <3>3. Promise!Settle(o)
      BY <1>2, <2>1, <2>2, <3>2, UnchangedLedgerKeeps DEF Promise!Settle
    <3> QED
      BY <3>3 DEF Promise!BookNext
  <2>4. CASE status[o] # "pending"
    <3>1. UNCHANGED status
      BY <1>7, <2>2, <2>4 DEF MarkPaid
    <3> QED
      BY <1>3, <2>1, <3>1, UnchangedLedgerKeeps
  <2> QED
    BY <2>3, <2>4
<1>8. ASSUME NEW h \in Handler, Topup(h)
      PROVE  \E o \in Order : Promise!Book(o)
  <2>1. UNCHANGED <<status, charged>>
    BY <1>8 DEF Topup, orderVars
  <2>2. PICK o \in Order : o = handler[h].order
    BY <1>1, <1>8 DEF Topup, PaymentsTypeOK, Free, Request
  <2>3. OwesCredit(h) /\ status[o] = "paid" /\ \A a \in Account : EntriesOf(a, "topup", o) = {}
    BY <1>1, <1>8, <2>2 DEF Topup, OwesCredit, OneOwesCredit
  <2> DEFINE owner == OrderAccount[o]
             entry == NewEntry(owner, "topup", AmountCNY[o], o)
  <2>4. /\ owner \in Account
        /\ entry \in Entry
        /\ entry.type = "topup"
        /\ entry.ref = o
    <3>1. AmountCNY[o] \in Amount /\ o \in Ref /\ owner \in Account
      OBVIOUS
    <3>2. \A amt \in Amount : amt \in Int
      BY ONLY WalletAssumption
    <3>3. WalletTypeOK
      BY <1>1 DEF PaymentsTypeOK
    <3> QED
      BY <3>1, <3>2, <3>3, NewEntryType DEF TxType, CreditType, NewEntry
  <2>5. ledger' = [ledger EXCEPT ![owner] = Append(@, entry)]
    BY <1>8, <2>2 DEF Topup, Credit
  <2> HIDE DEF owner, entry
  <2>6. WalletTypeOK
    BY <1>1 DEF PaymentsTypeOK
  <2>7. ~ Credited(o)
    BY <2>3, <2>4 DEF Credited, owner
  <2>8. Credited(o)'
    <3>1. ledger[owner] \in Seq(Entry) /\ ledger'[owner] = Append(ledger[owner], entry)
      BY <2>4, <2>5, <2>6 DEF WalletTypeOK
    <3>2. /\ Len(ledger[owner]) + 1 \in DOMAIN ledger'[owner]
          /\ ledger'[owner][Len(ledger[owner]) + 1] = entry
      BY <2>4, <3>1
    <3>3. Len(ledger[owner]) + 1 \in EntriesOf(owner, "topup", o)'
      BY <2>4, <3>2 DEF EntriesOf
    <3> QED
      BY <3>3 DEF Credited, owner
  <2>9. ASSUME NEW p \in Order, p # o, Credited(p)'
        PROVE  Credited(p)
    <3>1. PICK i : i \in EntriesOf(OrderAccount[p], "topup", p)'
      BY <2>9 DEF Credited
    <3>2. i \in EntriesOf(OrderAccount[p], "topup", p)
      BY <2>4, <2>5, <2>6, <2>9, <3>1, EntriesAfterAppend DEF EntriesOf
    <3> QED
      BY <3>2 DEF Credited
  <2>10. \A p \in Order : Credited(p) => Credited(p)'
    BY <1>1, BookedStays
  <2>11. booked' = booked \union {o} /\ o \notin booked
    BY <2>7, <2>8, <2>9, <2>10
  <2>12. OrderPhase[o] = "paid" /\ UNCHANGED OrderPhase
    BY <2>1, <2>3 DEF OrderPhase
  <2> QED
    BY <2>1, <2>11, <2>12 DEF Promise!Book
<1>9. ASSUME ExpireStalePendingOrders
      PROVE  Promise!BookNext
  <2>1. UNCHANGED <<ledger, charged>>
    BY <1>9 DEF ExpireStalePendingOrders, walletVars
  <2> DEFINE old == {o \in Order : o \in stale /\ status[o] = "pending"}
  <2>2. status' = [o \in Order |-> IF o \in old THEN "expired" ELSE status[o]]
    BY <1>1, <1>9 DEF ExpireStalePendingOrders, PaymentsTypeOK
  <2>3. /\ \A o \in old : OrderPhase[o] = "open"
        /\ OrderPhase' = [o \in Order |-> IF o \in old THEN "expired" ELSE OrderPhase[o]]
    BY <2>2 DEF OrderPhase
  <2>4. Promise!Lapse(old)
    BY <1>2, <2>1, <2>3, UnchangedLedgerKeeps DEF Promise!Lapse
  <2> QED
    BY <2>4 DEF Promise!BookNext
<1>10. ASSUME NEW o \in Order,
              \/ CheckoutResolved(o) \/ RespondPayURL(o) \/ CheckoutFails(o)
              \/ OrderTurnsStale(o) \/ RedisForgets(o)
              \/ Deliver(o) \/ EpayNoticeRefused(o)
       PROVE  UNCHANGED <<ledger, status, charged>>
  BY <1>10 DEF CheckoutResolved, RespondPayURL, CheckoutFails, OrderTurnsStale, RedisForgets,
               Deliver, DeliverNew, DeliverDuplicate, EpayNoticeRefused, walletVars, orderVars
<1>11. ASSUME NEW h \in Handler,
              \/ ReadOrder(h) \/ TopupWithoutWallet(h) \/ Activate(h) \/ Reply(h)
              \/ HandlerFails(h)
       PROVE  UNCHANGED <<ledger, status, charged>>
  BY <1>11 DEF ReadOrder, TopupWithoutWallet, Activate, Reply, HandlerFails, walletVars,
               orderVars
<1>12. ASSUME OtherWalletCall
       PROVE  UNCHANGED Promise!bookVars
  <2>1. UNCHANGED <<status, charged>>
    BY <1>12 DEF OtherWalletCall, payVars, orderVars
  <2> QED
    BY <1>1, <1>3, <1>12, <2>1, OtherCallsKeepOrderEntries
<1>13. UNCHANGED vars => UNCHANGED <<ledger, status, charged>>
  BY DEF vars, walletVars, payVars, orderVars
<1>14. UNCHANGED <<ledger, status, charged>> => UNCHANGED Promise!bookVars
  BY <1>3, UnchangedLedgerKeeps
<1> QED
  BY <1>4, <1>5, <1>6, <1>7, <1>8, <1>9, <1>10, <1>11, <1>12, <1>13, <1>14
  DEF Next, HandlerStep, Promise!BookNext

\* Orders, checkouts, webhooks, retries and jobs together implement the life of
\* an order: open, then paid or expired for good, paid only after a charge, and
\* booked to the wallet once, after that.
THEOREM PaymentsImplementOrderBook == Spec => ImplementsOrderBook
<1>1. Init => Promise!BookInit /\ LapsedAreStale
  BY PaymentAssumption
  DEF Init, Promise!BookInit, OrderPhase, LapsedAreStale, Credited, EntriesOf, WalletInit
<1>2. PaymentsInv /\ LapsedAreStale /\ [Next]_vars => LapsedAreStale'
  BY LapsedAreStaleStep DEF PaymentsInv
<1>3. PaymentsInv /\ LapsedAreStale /\ [Next]_vars
        => [Promise!BookNext]_(Promise!bookVars)
  BY StepKeepsPromise
<1> QED
  BY <1>1, <1>2, <1>3, PaymentsCorrect, PTL DEF Spec, ImplementsOrderBook, Promise!BookSpec

-----------------------------------------------------------------------------
(* Activations *)

\* Order o is charged and nothing changes what became of it any more.
Settled(o) == o \in charged /\ status[o] \in {"paid", "expired"}

\* The handlers that are past MarkPaymentOrderPaid have a settled order.
PastMark(h) == handler[h].pc \in {"read", "activate", "credit", "reply"}

SettledIInv ==
    /\ \A h \in Handler :
        /\ PastMark(h) => Settled(handler[h].order)
        /\ handler[h].pc = "activate" => OrderType[handler[h].order] = "subscription"
    /\ \A o \in Order : activations[o] > 0 => OrderType[o] = "subscription" /\ Settled(o)

\* A charged order is past its checkout, so the whole-row save does not reopen it.
LEMMA SettledStays ==
    ASSUME PaymentsInv, [Next]_vars, NEW o \in Order, Settled(o)
    PROVE  Settled(o)'
<1>1. PaymentsTypeOK /\ CheckoutBeforeCharge
  BY DEF PaymentsInv
<1>2. checkout[o] = "url" /\ status[o] \in {"paid", "expired"} /\ o \in charged
  BY <1>1 DEF Settled, CheckoutBeforeCharge
<1>3. ASSUME NEW p \in Order, CreateOrder(p) \/ SaveExternalID(p)
      PROVE  status'[o] = status[o] /\ charged' = charged
  BY <1>1, <1>2, <1>3 DEF CreateOrder, SaveExternalID, PaymentsTypeOK
<1>4. ASSUME NEW h \in Handler, MarkPaid(h)
      PROVE  status'[o] \in {"paid", "expired"} /\ charged' = charged
  BY <1>1, <1>2, <1>4 DEF MarkPaid, PaymentsTypeOK
<1>5. ExpireStalePendingOrders => status'[o] = status[o] /\ charged' = charged
  BY <1>1, <1>2 DEF ExpireStalePendingOrders
<1>6. ASSUME NEW p \in Order, CustomerPays(p)
      PROVE  status'[o] = status[o] /\ o \in charged'
  BY <1>2, <1>6 DEF CustomerPays, orderVars
<1>7. \/ \E p \in Order : CreateOrder(p) \/ SaveExternalID(p) \/ CustomerPays(p)
      \/ \E h \in Handler : MarkPaid(h)
      \/ ExpireStalePendingOrders
      \/ UNCHANGED <<status, charged>>
  BY ZenonT(60) DEF Next, HandlerStep, CheckoutResolved, RespondPayURL, CheckoutFails, OrderTurnsStale,
         RedisForgets, Deliver, DeliverNew, DeliverDuplicate, EpayNoticeRefused, ReadOrder, Topup,
         TopupWithoutWallet, Activate, Reply, HandlerFails, OtherWalletCall, vars, payVars, orderVars
<1> QED
  BY <1>2, <1>3, <1>4, <1>5, <1>6, <1>7 DEF Settled

\* A handler gets past the mark by MarkPaid alone, which finds its order pending and
\* makes it paid, or finds it settled.
LEMMA MarkSettles ==
    ASSUME PaymentsInv, NEW h \in Handler, MarkPaid(h)
    PROVE  Settled(handler[h].order)'
<1>1. PaymentsTypeOK /\ CheckoutBeforeCharge /\ OneOwesCredit
  BY DEF PaymentsInv
<1>2. PICK o \in Order : o = handler[h].order /\ o \in charged
  BY <1>1 DEF MarkPaid, PaymentsTypeOK, Free, Request, OneOwesCredit
<1>3. status[o] \in {"pending", "paid", "expired"}
  BY <1>1, <1>2 DEF CheckoutBeforeCharge, PaymentsTypeOK
<1>4. handler'[h].order = o
  BY <1>1, <1>2 DEF MarkPaid, PaymentsTypeOK, Free, Request
<1>5. charged' = charged /\ status'[o] \in {"paid", "expired"}
  BY <1>1, <1>2, <1>3 DEF MarkPaid, PaymentsTypeOK
<1> QED
  BY <1>2, <1>4, <1>5 DEF Settled

\* What the record of a handler past the mark comes from.
LEMMA HandlersAdvance ==
    ASSUME PaymentsTypeOK, [Next]_vars, NEW h \in Handler, PastMark(h)'
    PROVE  \/ MarkPaid(h) /\ handler'[h].pc = "read"
           \/ /\ PastMark(h) /\ handler'[h].order = handler[h].order
              /\ handler'[h].pc = "activate" =>
                    handler[h].pc = "activate" \/ OrderType[handler[h].order] = "subscription"
<1> DEFINE Goal == \/ MarkPaid(h) /\ handler'[h].pc = "read"
                   \/ /\ PastMark(h) /\ handler'[h].order = handler[h].order
                      /\ handler'[h].pc = "activate" =>
                            handler[h].pc = "activate" \/ OrderType[handler[h].order] = "subscription"
<1>1. CASE handler'[h] = handler[h]
  BY <1>1 DEF PastMark
<1>2. handler[h] \in {Free} \union Request /\ handler = [g \in Handler |-> handler[g]]
  BY DEF PaymentsTypeOK
<1>3. CASE MarkPaid(h)
  BY <1>2, <1>3 DEF MarkPaid, Free, Request
<1>4. CASE ReadOrder(h)
  BY <1>2, <1>4 DEF ReadOrder, NextStep, PastMark, Free, Request
<1>5. CASE Topup(h) \/ Activate(h)
  BY <1>2, <1>5 DEF Topup, Activate, PastMark, Free, Request
<1>6. CASE TopupWithoutWallet(h) \/ Reply(h) \/ HandlerFails(h)
  BY <1>2, <1>6 DEF TopupWithoutWallet, Reply, HandlerFails, PastMark, Free
<1>7. ASSUME NEW o \in Order, DeliverNew(h, o)
      PROVE  Goal
  BY <1>2, <1>7 DEF DeliverNew, PastMark
<1>8. ASSUME NEW g \in Handler \ {h}, HandlerStep(g) \/ HandlerFails(g) \/ \E o \in Order : DeliverNew(g, o)
      PROVE  handler'[h] = handler[h]
  BY <1>2, <1>8 DEF HandlerStep, MarkPaid, ReadOrder, Topup, TopupWithoutWallet, Activate, Reply,
                    HandlerFails, DeliverNew
<1>9. \/ \E g \in Handler : HandlerStep(g) \/ HandlerFails(g) \/ \E o \in Order : DeliverNew(g, o)
      \/ UNCHANGED handler
  BY ZenonT(60) DEF Next, CreateOrder, CheckoutResolved, SaveExternalID, RespondPayURL, CheckoutFails,
         CustomerPays, OrderTurnsStale, RedisForgets, Deliver, DeliverDuplicate, EpayNoticeRefused,
         ExpireStalePendingOrders, OtherWalletCall, vars, payVars, webhookVars
<1> QED
  BY <1>1, <1>3, <1>4, <1>5, <1>6, <1>7, <1>8, <1>9 DEF HandlerStep

LEMMA SettledStep ==
    ASSUME PaymentsInv, SettledIInv, [Next]_vars
    PROVE  SettledIInv'
<1>1. PaymentsTypeOK /\ OneOwesCredit
  BY DEF PaymentsInv
<1>2. \A h \in Handler : handler[h] # Free => handler[h].order \in Order
  BY <1>1 DEF PaymentsTypeOK, Request
<1>3. ASSUME NEW h \in Handler, PastMark(h)'
      PROVE  /\ Settled(handler[h].order)'
             /\ handler'[h].pc = "activate" => OrderType[handler'[h].order] = "subscription"
  <2>1. CASE MarkPaid(h) /\ handler'[h].pc = "read"
    BY <2>1, MarkSettles
  <2>2. CASE /\ PastMark(h) /\ handler'[h].order = handler[h].order
             /\ handler'[h].pc = "activate" =>
                   handler[h].pc = "activate" \/ OrderType[handler[h].order] = "subscription"
    <3>1. PICK o \in Order : o = handler[h].order
      BY <1>2, <2>2 DEF PastMark, Free
    <3>2. Settled(o)
      BY <2>2, <3>1 DEF SettledIInv
    <3>3. Settled(o)'
      BY <3>2, SettledStays
    <3>4. Settled(handler[h].order)'
      BY <2>2, <3>1, <3>3 DEF Settled
    <3> QED
      BY <2>2, <3>4 DEF SettledIInv
  <2> QED
    BY <1>1, <1>3, <2>1, <2>2, HandlersAdvance
<1>4. ASSUME NEW o \in Order, activations'[o] > 0
      PROVE  OrderType[o] = "subscription" /\ Settled(o)'
  <2>1. CASE activations'[o] = activations[o]
    BY <1>4, <2>1, SettledStays DEF SettledIInv
  <2>2. ASSUME NEW h \in Handler, Activate(h), activations'[o] # activations[o]
        PROVE  OrderType[o] = "subscription" /\ Settled(o)
    <3>1. handler[h].order = o
      BY <1>1, <2>2 DEF Activate, PaymentsTypeOK
    <3> QED
      BY <2>2, <3>1 DEF Activate, SettledIInv, PastMark
  <2>3. UNCHANGED activations \/ \E h \in Handler : Activate(h)
    BY ZenonT(60) DEF Next, HandlerStep, CreateOrder, CheckoutResolved, SaveExternalID, RespondPayURL,
           CheckoutFails, CustomerPays, OrderTurnsStale, RedisForgets, Deliver, DeliverNew,
           DeliverDuplicate, EpayNoticeRefused, MarkPaid, ReadOrder, Topup, TopupWithoutWallet, Reply,
           HandlerFails, ExpireStalePendingOrders, OtherWalletCall, vars, payVars, webhookVars
  <2> QED
    BY <2>1, <2>2, <2>3, SettledStays
<1> QED
  BY <1>3, <1>4 DEF SettledIInv, PastMark

\* Repeated deliveries activate a subscription again and again, but only one the customer
\* was charged for, and whose order neither its checkout nor the expiry job touches again.
THEOREM ActivationsBacked == Spec => []ActivationsAreBacked
<1>1. Init => SettledIInv
  BY DEF Init, SettledIInv, PastMark, Free
<1>2. SettledIInv => ActivationsAreBacked
  BY DEF SettledIInv, ActivationsAreBacked, Activated, PastMark, Settled
<1> QED
  BY <1>1, <1>2, PaymentsCorrect, SettledStep, PTL DEF Spec
=============================================================================
