------------------------------- MODULE Renewal -------------------------------
(***************************************************************************)
(* The auto-renewal job (RenewalJob) on several pods: the Redis lock that  *)
(* keeps its runs apart, the wallet debit, SubscriptionService.Activate    *)
(* and the credit that compensates a failed activation.  Each database or  *)
(* Redis call is a step; the debit and the credit are the atomic ones of   *)
(* WalletLedger.                                                           *)
(*                                                                         *)
(* No code sets subscriptions.auto_renew, and the row a renewal inserts    *)
(* has it off, so the subscriptions that renew are those an operator has   *)
(* switched on: the constant AutoRenew.  Entitlements, and the expiry job  *)
(* that takes a row over when its term is past, are left to Subscriptions. *)
(***************************************************************************)
EXTENDS WalletLedger

CONSTANTS
    Sub,         \* ids of the subscriptions rows, all of one product
    AutoRenew,   \* rows that are active at the start, with auto_renew set
    Owner,       \* Sub -> subscriptions.account_id
    Price,       \* product_plans.price_cny of their plan
    Pod,
    NoSub, NoPod,
    MaxAttempts, \* renewal_attempts at which a row is no longer listed (3)
    MaxOthers,   \* bound of the model: ledger entries not from renewals
    MaxOverruns, \* bound of the model: locks that expire under a running job
    MaxCrashes,  \* bound of the model: pods that die in a run, lost credits
    MaxFailures  \* bound of the model: other calls that fail

ASSUME RenewalAssumption ==
    /\ Sub \subseteq Ref
    /\ AutoRenew \subseteq Sub
    /\ NoSub \notin Sub
    /\ NoPod \notin Pod
    /\ Owner \in [Sub -> Account]
    /\ \A s, t \in AutoRenew : Owner[s] = Owner[t] => s = t
    /\ Price \in Amount
    /\ MaxAttempts \in Nat \ {0}
    /\ {MaxOthers, MaxOverruns, MaxCrashes, MaxFailures} \subseteq Nat
    /\ IsFiniteSet(Sub) /\ IsFiniteSet(Pod)

VARIABLES
    status,     \* Sub -> subscriptions.status
    source,     \* Sub -> the subscription whose renewal inserted it
    window,     \* Sub -> the 24 hours before expires_at: ahead, open, closed
    attempts,   \* Sub -> renewal_attempts
    backoff,    \* subscriptions whose next_renewal_at is ahead
    lock,       \* whose SETNX made cron:lock:subscription_renewal, or NoPod;
                \* the key itself does not say
    pod,        \* Pod -> where its run is
    canceller,  \* the subscription a Cancel call has read, or NoSub
    overruns, crashes, failures

subVars == <<status, source, window, attempts, backoff>>
counters == <<overruns, crashes, failures>>
renewalVars == <<subVars, lock, pod, canceller, counters>>
vars == <<walletVars, renewalVars>>

Free == [pc |-> "free", todo |-> {}, sub |-> NoSub, old |-> NoSub]
Running == [pc : {"list", "next", "activate", "expire", "create", "refund", "reset"},
            todo : SUBSET (Sub \X (0 .. MaxAttempts)),
            sub : Sub \union {NoSub}, old : Sub \union {NoSub}]

RenewalTypeOK ==
    /\ WalletTypeOK
    /\ status \in [Sub -> {"none", "active", "expired", "cancelled"}]
    /\ source \in [Sub -> Sub \union {NoSub}]
    /\ window \in [Sub -> {"ahead", "open", "closed"}]
    /\ attempts \in [Sub -> 0 .. MaxAttempts]
    /\ backoff \subseteq Sub
    /\ lock \in Pod \union {NoPod}
    /\ pod \in [Pod -> Running \union {Free}]
    /\ canceller \in Sub \union {NoSub}
    /\ {overruns, crashes, failures} \subseteq Nat

Init ==
    /\ WalletInit
    /\ status = [s \in Sub |-> IF s \in AutoRenew THEN "active" ELSE "none"]
    /\ source = [s \in Sub |-> NoSub]
    /\ window = [s \in Sub |-> "ahead"]
    /\ attempts = [s \in Sub |-> 0]
    /\ backoff = {}
    /\ lock = NoPod
    /\ pod = [p \in Pod |-> Free]
    /\ canceller = NoSub
    /\ overruns = 0 /\ crashes = 0 /\ failures = 0

LiveOf(a) == {s \in Sub : Owner[s] = a /\ status[s] = "active"}

\* ListDueForRenewal.  Mutant: it does not ask for active rows.
Due_AnyStatus ==
    {s \in AutoRenew :
        /\ status[s] # "none" /\ window[s] = "open"
        /\ attempts[s] < MaxAttempts /\ s \notin backoff}

Due ==
    {s \in AutoRenew :
        /\ status[s] = "active" /\ window[s] = "open"
        /\ attempts[s] < MaxAttempts /\ s \notin backoff}

Goto(p, pc) == pod' = [pod EXCEPT ![p].pc = pc]

-----------------------------------------------------------------------------
(* The lock and the run *)

\* acquireLock: SETNX.  Mutant: the key is set whether it exists or not.
Acquirable_Always == TRUE

Acquirable == lock = NoPod

\* The tick of a pod.  When the lock is held the tick is skipped.
Tick(p) ==
    /\ pod[p] = Free
    /\ Acquirable
    /\ lock' = p
    /\ Goto(p, "list")
    /\ UNCHANGED <<walletVars, subVars, canceller, counters>>

List(p) ==
    /\ pod[p].pc = "list"
    /\ pod' = [pod EXCEPT ![p].pc = "next", ![p].todo = {<<s, attempts[s]>> : s \in Due}]
    /\ UNCHANGED <<walletVars, subVars, lock, canceller, counters>>

\* The debit of processOne; its reference is the same for every attempt.
DebitWallet(p, s, n) ==
    /\ pod[p].pc = "next"
    /\ <<s, n>> \in pod[p].todo
    /\ Debit(Owner[s], Price, s)
    /\ pod' = [pod EXCEPT ![p].pc = "activate", ![p].sub = s, ![p].todo = @ \ {<<s, n>>}]
    /\ UNCHANGED <<subVars, lock, canceller, counters>>

\* The list, or the plan of a listed row, cannot be read, or a failed debit
\* cannot be recorded (an ignored error): nothing is done.
ReadFails(p) ==
    /\ failures < MaxFailures
    /\ failures' = failures + 1
    /\ \/ pod[p].pc = "list" /\ Goto(p, "next")
       \/ /\ pod[p].pc = "next"
          /\ \E row \in pod[p].todo : pod' = [pod EXCEPT ![p].todo = @ \ {row}]
    /\ UNCHANGED <<walletVars, subVars, lock, canceller, overruns, crashes>>

\* The debit fails, for lack of funds or with an error: one attempt more than
\* the row had when it was listed, and a later next_renewal_at.
DebitFails(p, s, n) ==
    /\ pod[p].pc = "next"
    /\ <<s, n>> \in pod[p].todo
    /\ \/ /\ ~ (Owner[s] \in walletRows /\ Sufficient(balance[Owner[s]], Price))
          /\ UNCHANGED failures
       \/ failures < MaxFailures /\ failures' = failures + 1
    /\ attempts' = [attempts EXCEPT ![s] = n + 1]
    /\ backoff' = backoff \union {s}
    /\ pod' = [pod EXCEPT ![p].todo = @ \ {<<s, n>>}]
    /\ UNCHANGED <<walletVars, status, source, window, lock, canceller, overruns, crashes>>

\* Activate: read the live subscription, save it as expired, insert the new one.
ReadLive(p) ==
    /\ pod[p].pc = "activate"
    /\ \/ LiveOf(Owner[pod[p].sub]) = {} /\ Goto(p, "create")
       \/ \E s \in LiveOf(Owner[pod[p].sub]) :
            pod' = [pod EXCEPT ![p].pc = "expire", ![p].old = s]
    /\ UNCHANGED <<walletVars, subVars, lock, canceller, counters>>

ExpireOld(p) ==
    /\ pod[p].pc = "expire"
    /\ status' = [status EXCEPT ![pod[p].old] = "expired"]
    /\ pod' = [pod EXCEPT ![p].pc = "create", ![p].old = NoSub]
    /\ UNCHANGED <<walletVars, source, window, attempts, backoff, lock, canceller, counters>>

Create(p, t) ==
    LET s == pod[p].sub
    IN /\ pod[p].pc = "create"
       /\ status[t] = "none" /\ Owner[t] = Owner[s]
       /\ \/ /\ LiveOf(Owner[s]) = {}
             /\ status' = [status EXCEPT ![t] = "active"]
             /\ source' = [source EXCEPT ![t] = s]
             /\ Goto(p, "reset")
          \/ /\ LiveOf(Owner[s]) # {}
             /\ Goto(p, "refund")
             /\ UNCHANGED <<status, source>>
       /\ UNCHANGED <<walletVars, window, attempts, backoff, lock, canceller, counters>>

ActivateFails(p) ==
    /\ pod[p].pc \in {"activate", "expire", "create"}
    /\ failures < MaxFailures
    /\ failures' = failures + 1
    /\ Goto(p, "refund")
    /\ UNCHANGED <<walletVars, subVars, lock, canceller, overruns, crashes>>

\* Mutant: a failed activation is not compensated.
Compensate_Skipped(p) ==
    /\ pod[p].pc = "refund"
    /\ pod' = [pod EXCEPT ![p].pc = "next", ![p].sub = NoSub, ![p].old = NoSub]
    /\ UNCHANGED <<walletVars, subVars, lock, canceller, counters>>

\* The credit that gives the money back; processOne then returns an error, and
\* no attempt is recorded.
Compensate(p) ==
    /\ pod[p].pc = "refund"
    /\ Credit(Owner[pod[p].sub], "refund", Price, pod[p].sub)
    /\ pod' = [pod EXCEPT ![p].pc = "next", ![p].sub = NoSub, ![p].old = NoSub]
    /\ UNCHANGED <<subVars, lock, canceller, counters>>

\* The credit fails too: the money is gone, which is logged as CRITICAL.
CompensationFails(p) ==
    /\ pod[p].pc = "refund"
    /\ crashes < MaxCrashes
    /\ crashes' = crashes + 1
    /\ pod' = [pod EXCEPT ![p].pc = "next", ![p].sub = NoSub, ![p].old = NoSub]
    /\ UNCHANGED <<walletVars, subVars, lock, canceller, overruns, failures>>

\* UpdateRenewalState(0, nil) on the old row; its error is ignored.
ResetState(p) ==
    /\ pod[p].pc = "reset"
    /\ \/ /\ attempts' = [attempts EXCEPT ![pod[p].sub] = 0]
          /\ backoff' = backoff \ {pod[p].sub}
          /\ UNCHANGED failures
       \/ /\ failures < MaxFailures /\ failures' = failures + 1
          /\ UNCHANGED <<attempts, backoff>>
    /\ pod' = [pod EXCEPT ![p].pc = "next", ![p].sub = NoSub]
    /\ UNCHANGED <<walletVars, status, source, window, lock, canceller,
                   overruns, crashes>>

\* releaseLock deletes the key, whoever set it; a failed DEL is logged.
EndRun(p) ==
    /\ pod[p].pc = "next"
    /\ pod[p].todo = {}
    /\ pod' = [pod EXCEPT ![p] = Free]
    /\ \/ lock' = NoPod /\ UNCHANGED failures
       \/ failures < MaxFailures /\ failures' = failures + 1 /\ UNCHANGED lock
    /\ UNCHANGED <<walletVars, subVars, canceller, overruns, crashes>>

Crash(p) ==
    /\ pod[p] # Free
    /\ crashes < MaxCrashes
    /\ crashes' = crashes + 1
    /\ pod' = [pod EXCEPT ![p] = Free]
    /\ UNCHANGED <<walletVars, subVars, lock, canceller, overruns, failures>>

\* Mutant: the key has no TTL.
MayExpire_Never == FALSE

\* renewalLockTTL runs out, at the latest after the run it was taken for, or,
\* the bound allowing, before its end.
MayExpire == lock # NoPod /\ (pod[lock] = Free \/ overruns < MaxOverruns)

LockExpires ==
    /\ MayExpire
    /\ overruns' = IF pod[lock] = Free THEN overruns ELSE overruns + 1
    /\ lock' = NoPod
    /\ UNCHANGED <<walletVars, subVars, pod, canceller, crashes, failures>>

-----------------------------------------------------------------------------
(* Customers and time *)

BeginCancel ==
    /\ canceller = NoSub
    /\ \E s \in Sub : status[s] = "active" /\ canceller' = s
    /\ UNCHANGED <<walletVars, subVars, lock, pod, counters>>

SaveCancelled ==
    /\ canceller # NoSub
    /\ status' = [status EXCEPT ![canceller] = "cancelled"]
    /\ canceller' = NoSub
    /\ UNCHANGED <<walletVars, source, window, attempts, backoff, lock, pod, counters>>

\* The last day before expires_at begins, and ends.
WindowMoves(s) ==
    /\ s \in AutoRenew
    /\ \/ window[s] = "ahead" /\ window' = [window EXCEPT ![s] = "open"]
       \/ window[s] = "open" /\ window' = [window EXCEPT ![s] = "closed"]
    /\ UNCHANGED <<walletVars, status, source, attempts, backoff, lock, pod,
                   canceller, counters>>

BackoffEnds(s) ==
    /\ s \in backoff
    /\ backoff' = backoff \ {s}
    /\ UNCHANGED <<walletVars, status, source, window, attempts, lock, pod,
                   canceller, counters>>

\* Wallets are opened, topped up and spent by others.
Others(a) == {i \in DOMAIN ledger[a] : ledger[a][i].ref = NoRef}

OtherWalletCall ==
    /\ \E a \in Account :
        \/ GetOrCreate(a)
        \/ /\ Cardinality(Others(a)) < MaxOthers
           /\ Credit(a, "credit", Price, NoRef) \/ Debit(a, Price, NoRef)
    /\ UNCHANGED renewalVars

PodStep(p) ==
    \/ Tick(p) \/ List(p) \/ EndRun(p)
    \/ \E s \in Sub, n \in 0 .. MaxAttempts : DebitWallet(p, s, n) \/ DebitFails(p, s, n)
    \/ ReadLive(p) \/ ExpireOld(p) \/ \E t \in Sub : Create(p, t)
    \/ Compensate(p) \/ ResetState(p)

Next ==
    \/ \E p \in Pod :
        \/ PodStep(p)
        \/ ReadFails(p) \/ ActivateFails(p) \/ CompensationFails(p) \/ Crash(p)
    \/ LockExpires
    \/ BeginCancel \/ SaveCancelled
    \/ \E s \in Sub : WindowMoves(s) \/ BackoffEnds(s)
    \/ OtherWalletCall

Spec == Init /\ [][Next]_vars

\* Tickers fire and runs go on, keys and backoffs run out.
FairSpec ==
    /\ Spec
    /\ \A p \in Pod : WF_vars(PodStep(p))
    /\ WF_vars(LockExpires)
    /\ \A s \in AutoRenew : WF_vars(BackoffEnds(s))

-----------------------------------------------------------------------------
(* Properties *)

Renewals(s) == {t \in Sub : source[t] = s}
Debits(s) == EntriesOf(Owner[s], "debit", s)
Compensations(s) == EntriesOf(Owner[s], "refund", s)

\* Runs between the debit and what becomes of it.
Pending(s) ==
    {p \in Pod : /\ pod[p].pc \in {"activate", "expire", "create", "refund"}
                 /\ pod[p].sub = s}

\* Unless a pod dies or a compensation fails, no money is lost and none is
\* given (processOne): each debit for a renewal has bought a new subscription,
\* been paid back, or is still being worked on.
RenewalsArePaid ==
    crashes = 0 =>
        \A s \in Sub :
            Cardinality(Debits(s)) =
                Cardinality(Renewals(s)) + Cardinality(Compensations(s)) + Cardinality(Pending(s))

\* No subscription is renewed twice, whatever fails or dies, as long as no run
\* outlives its lock.
RenewedOnce ==
    overruns = 0 => \A s \in Sub : Cardinality(Renewals(s)) <= 1

\* Attempts, backoff and what runs hold stay what they may be, and a renewal is paid
\* for, once.
RenewalInv ==
    /\ RenewalTypeOK
    /\ RenewalsArePaid
    /\ RenewedOnce

\* renewalLockTTL: "guarantee at most one concurrent run".
OneRun ==
    \A p, q \in Pod : pod[p] # Free /\ pod[q] # Free => p = q

\* A subscription that is due ends, is renewed, or waits for its next attempt,
\* whichever pod does it and although pods die.
DueIsHandled ==
    \A s \in AutoRenew : s \in Due ~> s \notin Due

\* Where runs have subscription s on their lists.
Listings(s) ==
    {l \in Pod \X (0 .. MaxAttempts) : <<s, l[2]>> \in pod[l[1]].todo}

\* A run works on the list it read, so a subscription that ends or is cancelled
\* meanwhile is charged all the same, but by no other run: each charge uses up a
\* listing of before, and the subscription is neither listed nor active again.
EndedIsNotListed ==
    [][\A s \in Sub :
        status[s] \in {"expired", "cancelled"} =>
            /\ status'[s] \in {"expired", "cancelled"}
            /\ Cardinality(Debits(s)') + Cardinality(Listings(s)')
                 <= Cardinality(Debits(s)) + Cardinality(Listings(s))]_vars

\* Cancel "disables auto-renew": a cancelled subscription is not charged.
CancelledNotCharged ==
    [][\A s \in Sub : status[s] = "cancelled" => Debits(s)' = Debits(s)]_vars
=============================================================================
