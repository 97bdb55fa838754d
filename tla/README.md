# TLA+ verification of lurus-identity

`lurus-identity` is the account and billing service of a product family: it keeps accounts,
credit wallets, payment orders, subscriptions with their entitlements, refunds, organizations
and rewards. It runs as two identical pods (`deploy/k8s/deployment.yaml`) over one PostgreSQL
database, one Redis and one NATS JetStream. Almost none of its handlers is one transaction: a
handler is a chain of separate database, Redis and provider calls, any of which may fail, and
two requests interleave between any two of them. That is what these modules are about.

Paths below are relative to `src/`; `app/`, `repo/`, `handler/`, `cron/` and `pkg/` stand for
`internal/app/`, `internal/adapter/repo/`, `internal/adapter/handler/`, `internal/app/cron/` and
`internal/pkg/`.

## 1. Inventory

| Component | State | Operations | Talks to | What is hard | What makes it correct |
|---|---|---|---|---|---|
| Wallets (`repo/wallet.go`, `app/wallet_service.go`) | `billing.wallets`, `wallet_transactions`, `redemption_codes` | GetOrCreate, Credit, Topup, Debit, RedeemCode | called by everything that moves money | row locks, read-compute-write, two locks in one transaction, columns of different scale | never overdrawn; ledger, balance and totals agree; a code is used as often as it may be |
| Payments (`handler/webhook.go`, `handler/wallet.go`, `handler/subscription.go`, `pkg/idempotency`) | `payment_orders`, Redis keys `webhook:seen:*` | checkout, three webhooks, MarkOrderPaid, expiry | providers, wallets, subscriptions | repeated, early and late events, dedup before verification, stale whole-row save, crash between mark and credit | one credit per order, none without a charge, paid is final, a charge arrives |
| Refunds (`app/refund_service.go`) | `billing.refunds` | RequestRefund, Approve, Reject | wallets, subscriptions, outbox | two reviews at once, failure after each step | one credit per refund, statuses go forward, an approval ends |
| Subscriptions and entitlements (`app/subscription_service.go`, `app/entitlement_service.go`, `cron/expiry.go`, `pkg/cache/entitlement.go`) | `identity.subscriptions`, `account_entitlements`, a Redis cache | Activate, Cancel, Expire, EndGrace, Get | payments, renewal, refunds | no transaction anywhere, cron saves rows it read earlier, cache refill | at most one live row, entitlements follow the term, nothing lost |
| Renewal (`cron/renewal.go`) | renewal columns, a Redis lock | one run per hour and pod | wallets, subscriptions, outbox | lock TTL, unconditional release, debit/activate/compensate | paid or paid back, once; a due row is dealt with |
| Outbox (`cron/outbox_relay.go`, `repo/outbox.go`) | `billing.outbox_events` | Insert, poll, mark, count, cleanup | NATS | two relays without a lock, lost acknowledgements, dead letters | marked only when delivered, bounded attempts, every event settled |
| Accounts (`app/account_service.go`, `app/registration_service.go`) | `identity.accounts`, bindings, wallet and VIP rows | logins, WeChat login, registration, edits | Zitadel, wallets | concurrent first logins, unique empty strings, whole-row saves | one account per person for good, complete |
| Organizations (`app/organization_service.go`) | orgs, members, keys, org wallets | Create, Add/RemoveMember, keys | - | check then act on another row | an owner remains, revoked stays revoked |
| Rewards (`app/checkin_service.go`, `app/referral_service.go`) | `checkins`, `referral_reward_events`, `accounts.referrer_id` | DoCheckin, OnSignup | wallets | midnight, insert then credit | each paid once, and paid |
| Wallet-paid checkout (`handler/subscription.go`) | wallet, the live row | Checkout | wallets, subscriptions | debit, activate, credit back; two at once | money is in the wallet, in a subscription or on its way |
| VIP and overview (`app/vip_service.go`, `app/overview_service.go`, `nats/consumer.go`) | `account_vip`, a Redis cache | RecalculateFromWallet, Get | wallets, NATS | whole-row read-modify-write, redelivered events, a cache only its TTL ends | no level the topups do not justify; right in the end |
| Codes (`app/registration_service.go`) | Redis keys per address | ForgotPassword, ResetPassword, phone code and binding | Zitadel, SMS, mail | overlapping requests, two sources of codes | a bound phone is proven; no older code after a newer one |
| Tokens (`pkg/auth`) | JWKS cache, a shared refresh | Auth, AdminAuth, GetKey | Zitadel | rotation, stale sets, joined refreshes | only a published key lets a token in; keys never go back |
| Sign-in (`handler/zlogin_handler.go`, `handler/wechat_oauth.go`) | account rows, `wechat_oauth_*` keys | logins, the WeChat bridge | Zitadel, WeChat, accounts | names kept in two places; GET and DEL; reloads | the right identifier leads in; a scan arrives as who scanned |
| Invoices (`app/invoice_service.go`) | `billing.invoices` | Generate | payments | check then insert | one invoice per order |
| Reminders (`cron/notification.go`) | Redis lock and sent keys | daily run | mail | key set after the mail, overlapping pods | each reminder once, and one more per failure |
| Billing cycles (`app/subscription_service.go`) | - | calculateExpiry | subscriptions | ends of months, 29 February | a term as long as it may be |
| Rate limits (`pkg/ratelimit`) | a sorted set per key | allow | Redis | a pipeline is no transaction | the limit, up to the requests at the same time |
| Products, admin settings, transport, lifecycle, front end | reference data | CRUD, reads | - | - | - |

Who shares what: all money moves through the wallet calls; webhooks, the wallet-paid checkout and
the renewal job all call `SubscriptionService.Activate`; refunds cancel subscriptions; topups
decide VIP levels; every login ends in the accounts; refunds and the cron jobs write outbox rows; logins and rewards make wallets. Two pods run every handler and
every job.

`PROJECT.json` lists each component with its status, and 40 hazards at their lines.

## 2. Modules

```
WalletLedger  <--implements--  WalletTx              OrderBook  <--implements--  Payments
     ^                (row locks, statements)
     | EXTENDS
  Payments   Refunds   Renewal   Rewards        Subscriptions   OutboxRelay   Accounts   Organizations

MCBenefits EXTENDS Rewards, AccountViews
MCServices EXTENDS VerificationCodes, TokenKeys, SignIn, Reminders, Invoices, BillingCycle,
                   WalletCheckout, RateLimiter
```

* **WalletLedger** is the abstract specification of the wallets: each of `GetOrCreate`, `Credit`,
  `Debit` and `RedeemCode` is one step on rows and ledger. Payments, Refunds, Renewal and Rewards
  extend it, and their actions call its operators where the code calls the service; all other
  users of the wallets are one action, `OtherWalletCall`.
* **WalletTx** opens those steps up: a session begins a call, locks the code row, locks the wallet
  row, updates, commits or rolls back at any point. It is checked to implement WalletLedger
  (`WalletSpec` as a property; the mapping is the identity, since the ledger's variables are
  the committed rows).
* **Payments**: `CreateOrder`, `CheckoutResolved`, `SaveExternalID`, `RespondPayURL` are the checkout
  request, the provider's `CustomerPays` and `Deliver` its world, `MarkPaid`, `ReadOrder`, `Topup`,
  `Activate`, `Reply` a webhook request one database call at a time. `status`, `handler` and `seen`
  are the order row, the local variables of a request, and the Redis keys.
* **OrderBook** is what an owner may rely on: an order is open, then settled after a charge or lapsed, for
  good, and booked once. Payments implements it under the mapping that forgets handlers, deliveries,
  keys and ledger entries (`ImplementsOrderBook`).
* **Refunds**: `CheckRequest`/`CreateRefund` are `RequestRefund` before and after its check, then
  `ReadRefund`, `DecideApprove`/`DecideReject` (the conditional UPDATE), `CreditRefund`,
  `MarkCompleted`, `CancelSubscription`, `PublishCompleted`.
* **Subscriptions**: one account and product. `BeginActivate` (GetActive), `ExpireOld`, `Create`, then
  two steps per entitlement key (`ReadRow`, `SyncRow`: gorm's FirstOrCreate is a SELECT and then an
  INSERT or an UPDATE by id), then the cache. The cron actions (`ListLapsed`, `Expire`, ...) work on
  the ids they listed. Time is the sets of subscriptions whose term, or grace, has passed.
* **Renewal**: per pod `list`, `next` (the debit), `activate`, `expire`, `create`, `refund`, `reset`;
  `lock` remembers whose SETNX made the key, which the key itself does not.
* **OutboxRelay**: per relay a batch of rows as read (id and attempts), a publish, and the mark or the
  count that follows it.
* **Accounts**: rows with a column per unique index; a column holds the identity its value belongs to.
* **Organizations**, **Rewards**: one step per database call as above.
* **WalletCheckout**: `ChoosePlan`, `DebitPrice`, `ReadLiveRow`, `ExpireLiveRow`, `CreateLiveRow`, `GiveBack` are the
  calls of `Checkout` and of the `Activate` inside it, for requests of one account and product; `live` is the row the
  unique index allows, `lost` what no call will give back.
* **AccountViews**: a worker is a topup, a usage report or a NATS delivery that recalculates (`ReadWallet`,
  `ReadVIP`, `SaveVIP`), a viewer an overview being computed and stored.
* **VerificationCodes**: askers run `ForgotPassword` or `SendPhoneVerificationCode`, enterers `ResetPassword` or
  `VerifyAndBindPhone`; a code is the number of its issue, and `accepted` the one Zitadel would take. `typed` is the phone
  that `Register` stored unproven, `hadPhone` the phones that a copy of the row in some other request may hold, and
  `SaveOldCopy` the late save of such a copy.
* **TokenKeys**: a caller is a request in the middleware; `flight` is the refresh that singleflight shares, and a set
  of keys is represented by the number of its publication.
* **SignIn**: the rows of `identity.accounts` with the columns a login looks at. `Register` and `InsertRegistered` make a
  Zitadel user and then a row; `UpdateMe` and `BindPhoneOf` read a row, and `SaveEdit` saves all of it later, as the
  logins do. A login resolves what was typed (`ResolveEmail`, `ResolvePhone`), has Zitadel check it (`CheckPassword`)
  and upserts: `FindBySub`, `FindByMail` and `CreateAccount` are the statements of `UpsertByZitadelSub`, `SaveAndIssue`
  its last save. `due` is a ghost: whether what was typed led to the login name of whoever typed it, and nothing that
  excuses a refusal happened since. It is withdrawn by a failing call, by a write of the one row that had the identifier
  (or of the first to have it) after which it leads elsewhere, by another request for the own account while the upsert is under way, and where the
  INSERT of a first login is refused (a row without a `lurus_id` does that to anybody's).
  The bridge is `Authorize`, `Callback` in five steps, `Token` in two, `UserInfo`. The two halves share nothing and have
  a next-state relation each.
* **Reminders**: per pod the lock, one list per distance, key, mail, key, release. **Invoices**: `Generate` in three
  steps. **RateLimiter**: trim, count, add. **BillingCycle**: pure operators; its behaviour only walks
  through the calendar.
* **MCServices** and **MCBenefits** compose small modules as a sum: the initial state chooses a part, and only that part
  moves.

`Sums` has the one operator that ledgers and checkouts add up with.

`MC*.tla` give the constants values TLC can use; `*Proofs.tla` hold theorems:

| Module | About |
|---|---|
| `WalletLedgerProofs`, `WalletTxProofs`, `PaymentsProofs`, `RenewalProofs` | the module each is named for; `WalletLedgerProofs` also sums |
| `CreditsProofs` | Refunds, Rewards, WalletCheckout |
| `SubscriptionsProofs` | Subscriptions, BillingCycle |
| `AccountsProofs` | Accounts, VerificationCodes |
| `ServicesProofs` | Invoices, TokenKeys, AccountViews, Organizations, OutboxRelay, Reminders, RateLimiter, SignIn |

In every module a definition whose name is another's with a suffix (`MarkPaid_Unconditional`) is a *mutant*: what the
code would be with a plausible bug. No specification uses it; with it in place of the original
TLC finds a property violated, which shows that the property looks at that code. `PROJECT.json` names one for each
property; an invariant of several parts has a mutant for more than one of them.

What is abstracted everywhere: money is whole units of 0.0001 (amounts below that, which the
columns would round away, are left out); names, texts and payloads are model values; `refund_no`
and order numbers do not collide; signatures and tokens are valid; the calls to providers either return
or fail.

## 3. What the runs check

Sizes are distinct states with TLC on two workers; all runs finish in about four minutes or less.

| Run | States | Shows |
|---|---|---|
| MCWalletTx | 119,544 | `TxInv`: what a transaction computed is current when it commits (`NoLostUpdate`), and whoever is waited for runs, or waits for one that does (`WaitsEnd`). `LedgerExplainsBalance`, `BalanceNeverNegative`, `TotalsAgree` (redemptions with `used_count`; the lifetime totals up to half a cent for each entry), `WalletSpec` (refinement), `EveryTxEnds` (no deadlock of code and wallet rows). |
| MCPayments | 587,680 | `CreditedAtMostOnce`, `CreditsAreBacked` under repeated, early, late and failing deliveries, `ChargeIsSettled`: without a fault, and unless a refused notice had its event count as seen while the order waited, before or after the charge, a charged topup is credited or its order had expired. `ActivationsAreBacked`: a subscription is activated only for an order that was charged and stays settled. `ImplementsOrderBook` (refinement; it includes that paid is final). |
| MCRefunds | 531,920 | `RefundsInv` (one credit per refund, the invariant behind it, and `RefundsWithinRequests`: no more open refunds of an order than requests at a time), `RefundLifecycle`, `ApprovalEnds`. |
| MCSubscriptions | 706,743 | Scenario "job" (two activations, the expiry job, an endless plan, a fault): `SubscriptionsInv` (one live row, entitlements within their term) and `JobEndsLapsed`. Scenario "calls" (three activations, a cancellation, a reader, no job, no fault): `CallsKeepPromises` as long as only calls are at work, one activation at a time and without a failure (`CallsAlone`): what is paid is granted and kept (`CallsKeepTerms`), and unless a reader holds rows beside an activation (`FillsAlone`) the cache follows the rows (`CallsKeepCache`). `CallsEndForGood` is for every step beside which no expiry run is under way. Section 5 has what happens when the job intervenes. |
| MCServices | 1,085,487 | One invariant or two per part: `CodesInv`, `TokensAreJudged` with `KeysNeverGoBack`, `RemindersInv`, `InvoicesInv`, `TermsAreRight`, `CheckoutSettles`, `LimitHolds`, and `SignInInv` for logins beside registrations and edits, and for the WeChat bridge. |
| MCBenefits | 301,529 | `RewardsInv` (no check-in and no referee is paid twice), `RewardsArePaid`, `ViewsInv` (no level above the topups), `ViewsSettle`. |
| MCRenewal | 471,930 | `RenewalInv` (paid or paid back, if no pod dies; renewed once, if no run outlives its lock), `EndedIsNotListed` (what has ended is charged only by runs that had listed it, once for each), `DueIsHandled`. |
| MCOutboxRelay | 20,793 | `OutboxInv` (marked is delivered; attempts are bounded), `EventsAreSettled` with one poisoned event and a batch of two. |
| MCAccounts | 640,293 | `OneAccountForGood`, `AccountsInv` (what a call holds; complete accounts). |
| MCOrganizations | 1,623,672 | `RevokedForGood`, `OrganizationsInv`. |
| MCPaymentsCrash | - | violated: `PaidIsCredited`, the claim of `app/wallet_service.go:138`. |
| MCOrganizationsRace | - | violated: `LastOwnerNotRemoved`, the claim of `app/organization_service.go:90`. |

**Bounds.** Two concurrent requests (sessions, handlers, admins, pods, relays) everywhere: every
hazard listed is a race of two, and a third only repeats one of them. Two orders, one of each type,
because orders interact only through the wallet; two refunds, the least that can share an order;
up to three subscriptions of one product, so that a row can be replaced twice. One fault (crash,
failed call) per run: each property that speaks of faults speaks of the first one, and
a second can only stop what the first left. `MaxEntries` bounds the ledger of each account (in MCWalletTx three entries
for one wallet, so that two debits race for what one credit brought, and one for the other), `MaxActivations` counts
up to "more than once", `MaxAccounts`, `MaxDay`, `MaxOverruns`, `MaxCrashes`, `MaxFailures`, `MaxOthers` are
counters of the same kind; `Parallel`, `Activator` and `Visitor` say which people or calls may
run side by side, to keep a run within its time. The amounts are few: equal ones make debits fail, and
70 is no whole number of cents, so that rounding happens. The passing Accounts run has a Zitadel
client, as the deployment does.
In MCServices: three code issues, so that an older, a newer and a used code meet; a clock that
goes from 0 to 3 against a TTL and a timeout of 1 each, over two key sets, so that a set is fresh, stale and rotated away, and
the first is withdrawn more than TTL and timeout before a request that must not accept it; 2023, 2024, 2099 and
2100 have every kind of February beside each other; two attempts and two callbacks of the bridge, one
of which a reload repeats; for the logins two people, two rows, two logins and a registration or edit at a time, and
together at most four requests that begin or calls that fail (`MaxBegun`; `begun` counts them): a row, a copy of it in one
request, a change by another and a login that meets what the copy brings back. Funds of five against a price of two let two checkouts pass and a third fail.

**Symmetry** is used only in runs without liveness properties (MCAccounts, MCOrganizations).

**Fairness.** Weak fairness for the steps of a request that was begun, a cron run, a relay's poll and
the passing of grace periods, TTLs and backoffs: goroutines run on, tickers fire (`cron/*.go`), Redis keys expire.
In WalletTx strong fairness, since PostgreSQL queues the waiters of a row lock. In Payments strong
fairness of an unacknowledged delivery: Stripe, Creem and Epay repeat an event until they get a
success. In AccountViews weak fairness of the steps of recalculations and overviews that were begun and of the cache's TTL;
that usage is reported again and again is a premise of `ViewsSettle`.
In MCSubscriptions the expiry run is fair in the scenario that has one. Customers, admins and clocks owe nothing: no request is ever assumed to come.
Premises of liveness properties (`faults = 0`, a wallet that exists) are part of their statements, because
the code does not recover in the cases they leave out; section 5 shows those.

**Get-or-create.** Wallets, VIP rows and bindings are made by a SELECT and then an INSERT
under a unique index. There the model has one step, the INSERT: of two at once the index refuses the
second, whose call fails as any call may, and no such row is ever deleted. Entitlement and member rows
are deleted while others write them, so there the two statements are two steps: an INSERT may be refused,
an UPDATE may find nothing.

**Deadlock** checking is off in all runs: with nobody asking for anything and every bound used up the
models stop, as the service idles.

## 4. What is proved

Every safety property that a passing run checks, invariant or action property, is also proved, and so are the
refinements: for all accounts, orders, handlers, sessions, pods, relays, amounts, codes and bounds that
satisfy the named assumptions of the modules, which TLC evaluates in every run. The assumptions are of three
kinds.

* What the constants stand for: amounts are positive, references are not codes and those of check-ins and
  referrals differ, an order has an owner and an amount in whole cents, an owner one auto-renewing row, a mark
  like `NoPhone` or `NoAccountRow` is none of the values it stands beside, and neither is an account a
  redemption code (their rows are of two tables).
* What a count or a choice ranges over is finite and not empty: sessions, relays, pods, clients,
  refund requests, subscriptions, key sets; there is a highest VIP level, a last term to remind of and a day to remind on.
* Of Zitadel, that login names are unique, and of `DirectLogin`'s syntax, that nothing is both a mail address and a
  phone number. Whose address or phone somebody registers with is not assumed: nothing verifies it
  (`app/registration_service.go:124`).

**Wallets** (`WalletLedgerProofs`)

* `BalanceSafe`: `WalletSpec => []BalanceNeverNegative`, no balance below zero and no debits beyond the credits. The
  first half is inductive (`BalancesStay`), because a debit re-checks the balance it subtracts from; the second
  follows with `TotalsCorrect`, since the balance is the sum of the entries.
* `LedgerCorrect`: `WalletSpec => []LedgerExplainsBalance`; each operation appends the entry whose
  `balanceAfter` is the new balance (`NewEntryType`, `EntriesAfterAppend`, `AppendedEntries` are the lemmas on
  the append).
* `TotalsCorrect`: `WalletSpec => []TotalsAgree`, also about rounding. The totals are sums over ledgers of any
  length, and the induction they need is done without an operator for a parameter: a set of numbers that is
  not empty has a least one (`LeastNumber`, from the well-foundedness of `<`), so a function that were a sum
  below some length and none at it is none (`SumSteps`). From that come `SumsOfEquals` (equal terms, equal
  sums), `AppendedTotal` (what an entry adds to the total of each type), `DriftGrows` (each entry moves a
  column of cents by half a cent at most from the sum of what it rounds) and `RedemptionsStep` (an entry that
  redeems a code comes with its `used_count`).

**Transactions** (`WalletTxProofs`). `TransactionsAreAtomic`: `TxSpec => WalletSpec`, the commit being the
step and the rest stuttering. The invariant `Pending` says of each session what it has locked, and that what
it read or computed is still true of the rows it locked; `RoomLeft` that the ledgers' bound covers the
transactions under way. `NoUpdateLost` follows, and along the refinement `TransactionsAreSound`: no
interleaving of transactions overdraws a wallet, leaves a balance its ledger does not explain or totals that
do not agree with it. `WaitsAreOrdered` (`WaitsEnd`) is the safety half of "no deadlock": `LocksHeld` says at
which statement a session is that holds a lock, so the holder of a wallet row has all its locks, and only the
holder of a code row waits for another. `TransactionsCorrect` (`TxInv`) is both.

**Payments** (`PaymentsProofs`)

* `PaymentsImplementWallet`: `Spec => WalletSpec`. Every step of Payments is a step of WalletLedger or leaves
  the wallets alone (`NextMovesWallet`), so the three results about the wallets hold in Payments
  (`PaymentsKeepWalletSound`).
* `PaymentsCorrect`: `PaymentsInv` is inductive. Neither "credited at most once" nor "only when charged" is
  inductive by itself: between the conditional UPDATE and the credit the ledger does not yet show who is going
  to credit. `OneOwesCredit` says it: of the handlers of an order at most one has made the transition and not
  credited yet, and until it has, no entry names the order. That the stale save of the checkout cannot undo a
  payment is `CheckoutBeforeCharge`: a customer can pay only after the response with the URL, which comes
  after the save. `NoDoubleCredit`, `NoUnpaidCredit` and `PaidStaysPaid` follow.
* `PaymentsImplementOrderBook`: `Spec => ImplementsOrderBook`, step by step from the same invariant.
* `ActivationsBacked`: the code activates an order once per delivery, and what bounds it is `SettledIInv`: a handler
  past the conditional UPDATE works on an order that was charged and is paid or expired, and such an order is
  past its checkout, so nothing reopens it (`SettledStays`).

**Refunds** (`CreditsProofs`). `RefundsCorrect` (`RefundsInv`) has two parts. `RefundedOnce`: the refund is
credited at most once. The UPDATE that approves is conditional, so of the reviews of one refund at most one
has approved it and not completed it yet (`ReviewsExclusive`), and until that one credits, no entry names the
refund. `RefundsGoForward`: the UPDATE that completes a refund looks at no status, but only the review that
approved it reaches that UPDATE. `RefundsImplementWallet`: `Spec => WalletSpec`. `RefundsStayWithinRequests`:
the open refunds of an order and the requests that have found none are together never more than the requests
at a time: a request that finds one is turned away, and the INSERT moves one from the second set to the first.

**Rewards** (`CreditsProofs`). `RewardsCorrect`: no check-in and no referee is paid twice. A credit follows
the INSERT of the row that claims it, so between the two nothing in the ledger shows the claim: `PaidOnce` and
`SignedUpOnce` count the entries and the requests about to make one together, `PayApart` says that no two
requests owe the same credit (the row that one inserted refuses the other), `CallOK` that a request knows
which day or referrer it began with, also when midnight passes meanwhile. `RewardsImplementWallet`:
`RewardsSpec => WalletSpec`.

**Wallet-paid checkout** (`CreditsProofs`). `CheckoutsSettle`: at every moment what left the wallet is what
subscriptions were sold for, what is pending and what was lost, and only a failure loses any; nor is the
account left without its subscription. Each step moves an amount from one of these to another (`MoneyStep`,
with `PendingMoves` for the sum over the requests); that a row that was sold stays, or the request that ended
it is about to insert the next, is `SubscriptionKept`.

**Subscriptions** (`SubscriptionsProofs`). `SubscriptionsCorrect`: `SubsIInv` is inductive and gives
`SubscriptionsInv`. At most one row is live because both the INSERT and the expiry job's save meet the unique
index. That no entitlement outlives its term is `RowsEndWithTerm`: a row copied from a subscription with a
term carries the date of that one, whichever call or job wrote it last; it needs that a call saves or copies
only rows that exist (`RequestsHoldRows`, `RunsHoldRows`) and knows its plan (`PlansHeld`).
`CallsReviveNothing`: beside no expiry run, what has ended stays ended: a call saves `expired` or `cancelled`
or inserts a new row. `CallsKeepWhatIsPaid`: while only calls are at work, one activation at a time, nobody
loses a term or entitlements; `CallsIInv` says that each live row has its entitlements or an activation on its
way to write them (`RowsOrWork`), that this activation works on the live row (`WorksOnTheLive`), and that what
an activation ended has a successor, or will (`EndedHasSuccessor`). `CallsKeepTheCache`: under the premise of
that theorem, and if no reader holds rows while an activation is at work, the cache between calls follows the
rows. What a reader holds, and what is cached when no activation is before its invalidation, is what the rows
say (`CacheIInv`); the passing of a term can only take from what the rows grant (`SnapshotShrinks`). The two
are `CallsKeepWhatTheyPromise`.

**Billing cycles** (`SubscriptionsProofs`). `TermsCorrect`: for the four cycles that have an end, a term ends on a
day that exists, on the day of the month it should (for a year, 29 February gives 1 March; for months, the last day of a
shorter month), is as long as its cycle may be, and never ends before that of an earlier activation, in
every year and not only in those TLC walks through. `AddMonthsCorrect` says of `addMonthsClamped` alone, for every
number of months, that the date is that many months later, on the same day or the last of a shorter month. `YearStart` and `MonthStart` number the days of the
calendar; `YearLength`, `CarriedDays` (what `time.Date` does with a day its month does not have) and
`ClampedDay` say where a date lands.

**Renewal** (`RenewalProofs`)

* `RenewalsCorrect` (`RenewalInv`) is the next two together.
* `RenewalsPaid`: for each subscription the debits are as many as its renewals, its compensations and the
  runs at work on it together. Every step that moves one of these counts moves another (`EntryCounts`,
  `PendingChanges`), given that a run works on a row that renews (`RunHolds`) and that a row not inserted yet
  renews nothing (`RowsAgree`).
* `RenewedAtMostOnce`: while no run outlives its lock, only its holder runs (`LockStep`), and what it still
  has on its list nobody has renewed (`FreshStep`): the list holds active rows, each once, and a row that was
  renewed is not active any more.
* `EndedStaysOffTheLists`: the debits of an ended subscription and the lists it is still on never grow together. A
  debit takes it off the list of its run (`DebitCounts`, `ListingsShrink`), and lists are made of active rows.
* `RenewalsImplementWallet`: `Spec => WalletSpec`.

**Accounts** (`AccountsProofs`). `OneAccount`: an identity that has an account keeps it and gets no second
one; `AccountsCorrect`: what a call holds is the row it looked up, and accounts get complete. `AccountsIInv`
says whose a row is (`Owner`: its sub, or its email where there is no Zitadel), that rows differ wherever a
unique index looks (`RowsDiffer`), what a call has in hand at each of its statements (`SearchOK`, `HoldOK`),
and, for people whose calls do not overlap, which part of the account is there already and which the call that
makes it will still add (`Progress`, `RowsAreBuilt`). A save of a whole row may be one of an older copy;
`CopiesAreComplete` says that for these people it takes nothing away.

**Verification codes** (`AccountsProofs`). `CodesCorrect`: the account has the phone it registered with, which
nobody proved, or one on which a code arrived, whichever copy of the row is saved late; a mailed code sets one
password at most and none after a later one did; and after requests that did not overlap or fail the last code
mailed is the one in Redis and at Zitadel. It then works exactly if no code sent by SMS lies under the phone, for
`ResetPassword` asks for that one first. `CodesIInv` follows a code on its way: from the issue to the key
or the mail (`OnItsWay`), in the keys (`StoredRight`), and from the form through the comparison (`Entered`);
`Untangled` is the part about requests that do not overlap.

**Outbox** (`ServicesProofs`). `OutboxCorrect`: a row is marked only after its event was taken, and attempts
go beyond the limit by less than the number of relays. `HoldsItsBatch` says what a relay's batch is; the bound
counts the relays that are about to add an attempt, hence the finite set of them.

**Invoices** (`ServicesProofs`). `InvoicesCorrect`: one invoice per order, by the unique index and because a
request inserts for the order it read (`InsertsWhatItRead`).

**Tokens** (`ServicesProofs`). `KeysMoveOn`: the key set in the cache never gets older, because refreshes
share one flight, and its answer is at least as new as the cache (`RefreshAhead`). `TokensJudged`: a token
gets in only by the key that signed it, from a set published within the TTL before the request, or by the
session secret, not expired and with the role the route asks for; one whose key is not found was judged by a
set hardly older than the request. `TokensIInv` says for each request which set it judges by and that it was
current at some moment since the request came (`RequestHolds`), and the same of the flight it waits for
(`FlightHolds`).

**VIP levels and the overview** (`ServicesProofs`). `ViewsCorrect`: no level is stored, or shown beside its
topups, that they do not justify. Topups only grow, so a level that a worker decided by an older sum is still
justified when it saves it: each copy in hand, in the row and in the cache fits the topups of now
(`ViewerFits`, `RowFits`, `OverviewFits`).

**Organizations** (`ServicesProofs`). `OrganizationsCorrect` and `RevokedKeysStayRevoked`: a key can be used
and revoked at once, and the touch of a used key, which comes after, updates one column only. `CallsNameOrgs`
says that a request under way names the organization it inserted or looked up.

**Reminders** (`ServicesProofs`). `RemindersCorrect`: a reminder is marked only when it went out, goes out
once and once more for each failure at most, and without a failure it does. A mail that is not marked yet is a
mail too many if its pod dies or loses its lock, so `FailuresPay` counts the mails of a reminder against its
key, the pods about to mark it, and the failures; `RunsHoldReminders` says what a pod has on its list, and
`DayIsCovered` that a run without a failure leaves out nothing of its day.

**Rate limiter** (`ServicesProofs`). `LimitsHold`: no window lets through more than the limit and one for each
other request at work, and none is refused before the limit was tried. A request that counted below the limit
and has not added its hit yet is invisible to the next: `CountsAreCurrent` says that a count misses only hits
of requests now at work, `PassesAreBounded` adds up hits and passes for every window, with `HitsAreRequests`
for what the sorted set can hold.

**Signing in** (`ServicesProofs`). `SignInCorrect`: `LoginSpec /\ BridgeSpec => []SignInInv`. Of logins
(`LoginsCorrect`): no call changes an email, so whoever has to do with a row is the user it was inserted for (its
founder, the witness of `LoginIInv`) or came to it because its email is that user's login name; whatever copy a
request holds fits its row in this sense (`MaySave`), so late saves do not hand an account to somebody else. A login that is
due holds what leads to its login name (`LeadsTo`, `OnTheWayIn`): the unique indexes keep the rows apart
(`RowsApart`), so one identifier has one row, and `Write` withdraws `due` where that row stops leading home (`StaysDue`).
A last save that an index refuses was overtaken by another request for the same account. Of the bridge (`BridgeCorrect`): a code is of one attempt, and a key holds
who scanned for it (`KeysLeadHome`); without a failure, one callback serves an attempt and everything it and
the exchange will read is there until they have read it (`NothingIsLost`).

**Only model-checked**: the eight liveness properties (`EveryTxEnds`, `ChargeIsSettled`, `ApprovalEnds`,
`JobEndsLapsed`, `ViewsSettle`, `DueIsHandled`, `EventsAreSettled`, `RewardsArePaid`). They rest on fairness, and
TLAPS has no rule for ENABLED. What their safety halves say, such as that a due renewal is never paid twice, is among
the theorems.

## 5. What the code does not keep

Each configuration below checks one statement of the repository against the model, and TLC
finds it violated. For four of them a theorem says how far the code does go: MCPaymentsTwice (`ActivationsBacked`),
MCRefundsTwoInFlight (`RefundsStayWithinRequests`), MCSubscriptionsCache (`CallsKeepTheCache`) and
MCRenewalCancelled (`EndedStaysOffTheLists`). The first two are runs of the project, the others are kept for whoever
changes the code: run `tlc -config <name>.cfg <module>` (those of MCSubscriptions use `FreeSpec`, without the
scenarios).

| Configuration | Statement | What happens |
|---|---|---|
| MCPaymentsCrash | "MarkOrderPaid atomically marks an order as paid and credits the wallet" (`app/wallet_service.go:138`) | a crash between the two leaves a paid order nobody credits |
| MCOrganizationsRace | "the last owner cannot be removed" (`app/organization_service.go:90`) | two removals count two owners each |
| MCPaymentsTwice | an order is handled once (`epics.md:332`, `architecture.md:105`) | a redelivery activates the subscription again |
| MCRefundsTwoInFlight | "No pending or approved refund may exist for the same order" (`app/refund_service.go:60`) | two requests check, then both insert |
| MCSubscriptionsCache | the cache follows the rows (`architecture.md:640`) | a reader stores what it read before the invalidation |
| MCSubscriptionsJob | a live subscription has its entitlements (`entity/subscription.go:42`); entitlements last through the grace period (`epics.md:184`); "active → grace → expired lifecycle" (`cron/expiry.go:47`) | the expiry job resets the rows of a new activation; the rows end with `expires_at` (`GraceIsEntitled`); a save of a row listed earlier revives an ended one (`EndedStaysEnded`); run with `-continue` to see all three |
| MCRenewalCancelled | cancelling disables auto-renewal (`handler/subscription.go:161`) | a run that listed the row before still charges |
| MCOutboxRelayStuck | reliable delivery (`cron/outbox_relay.go:19`) | a batch full of dead letters blocks all later events |

Also refuted by TLC, in place of the invariants or properties of the module's configuration:
"guarantee at most one concurrent run" (`cron/renewal.go:20`; `OneRun` in Renewal: a run outlives the lock's TTL); "a
background reconciliation job can retry the credit" (`app/refund_service.go:156`; `ApprovedIsCredited` in Refunds: there
is no such job); activation replaces the old row as a whole (`prd.md:242`; `TermNotLost` in Subscriptions: a failed
INSERT leaves the customer without either row); entitlements end with the subscription (`epics.md:253`;
`RowsFollowSub` there: an endless plan inherits the date of the row it takes over); an account has a LurusID
(`epics.md:44`; `LurusIDStays` in Accounts: a whole-row save of an older copy erases it); `lifetime_spend` is what was
spent (`epics.md:299`; `SpendIsTotal` in MCWalletTx: the column rounds each debit to cents).

Met while reading: two referral links at once overwrite each other
(`handler/internal_api.go:88`, `adapter/grpc/server.go:116`); the streak is counted with a second
reading of the clock (`app/checkin_service.go:104`); a failed entitlement sync is not retried
although the comment says so (`app/subscription_service.go:67`); a backoff is lost when its UPDATE
fails (`cron/renewal.go:228`); a WeChat binding that fails is not repeated
(`app/account_service.go:172`); the first logins of two people meet at the unique index on an empty `lurus_id`
(`app/account_service.go:70`), an email that is left out is an empty string and only one account may have it
(`migrations/012_auth_simplify.sql:2` calls it optional), and a reward whose credit fails after its event row is
never made up (`app/referral_service.go:182`): `LoginNotRefused`, `EmailIsOptional` and `EventsAreCredited` in
Accounts and Rewards state these, and TLC refutes them; `AdminSet` and `GrantYearlySub` have no caller, and the next
recalculation would undo a level set by hand (`app/vip_service.go:66`); a reset code sent by SMS is made here, so Zitadel
refuses it and the password cannot be set (`app/registration_service.go:256`, `:367`), and until it expires it is asked
for first and hides a mailed code, older or newer (`:337`); registration stores a phone that nobody proved
(`:139`), and reset codes go to it; of two requests for one invoice
at once the second gets an error, not the invoice ("Idempotent", `app/invoice_service.go:26`); a run that is late sends
the reminders of several distances on one day (`cron/notification.go:108`); a phone of an account without a
username does not lead to a login, though `DirectLogin` takes "username/email/phone" (`handler/zlogin_handler.go:180`,
`:331`); after a change of the username at `PUT /me` the email, the phone and the new name resolve to a name
Zitadel does not know (`handler/account.go:52`, `handler/zlogin_handler.go:316`); a request that joins a refresh of the key
set shares its leader's context, and fails when the leader's client goes away (`pkg/auth/jwks.go:91`); `BulkGenerateCodes` makes codes of types `RedeemCode` refuses
(`app/referral_service.go:131`).

## 6. Not modelled, and the plan

Done, the money first: WalletLedger, WalletTx, Payments with its proofs, Refunds, Subscriptions, Renewal,
OutboxRelay, Accounts, Organizations, Rewards; then WalletCheckout, AccountViews, Invoices, Reminders, BillingCycle,
VerificationCodes, TokenKeys, RateLimiter, SignIn, and OrderBook above Payments.

Partly modelled: of accounts, organizations and rewards everything that a property depends on, but not the
status that `UpdateStatus` writes (nothing decides by it), code generation and statistics.

What could follow: WalletCheckout, Renewal and Subscriptions as one composition (each has the others' steps as a
few of its own today); SignIn over the rows of Accounts, which have more columns and the WeChat logins.

Left out for good: token and signature cryptography, HTTP and gRPC decoding and routing, reference data
(products, plans, settings: CRUD of rows that the modelled parts only read), `GetAuthInfo` and the other handlers
that only read, the proxy to newapi, start-up, configuration, tracing, metrics and audit logs, the React front
end. They keep no protocol state that the parts above depend on; where a modelled part
uses one (a valid token, a verified callback) the model assumes its answer.
