---------------------------- MODULE Subscriptions ----------------------------
(***************************************************************************)
(* The subscriptions of one account to one product: SubscriptionService    *)
(* (Activate, Cancel, Expire, EndGrace), the cron run that ends what has   *)
(* lapsed (ExpiryJob.runExpiry), the account_entitlements rows and their   *)
(* Redis cache (EntitlementService).  Other pairs of account and product   *)
(* have rows and cache keys of their own.                                  *)
(*                                                                         *)
(* No call is part of a transaction, so each database or Redis call is a   *)
(* step.  Time is what has passed: the set of subscriptions whose          *)
(* expires_at is behind, and the set whose grace_until is.                 *)
(***************************************************************************)
EXTENDS Integers, FiniteSets

CONSTANTS
    Sub,       \* ids of the subscriptions rows that may be created
    Plan,      \* the product's plans
    Endless,   \* plans billed forever or one_time: no expires_at
    Key,       \* entitlement keys
    PlanCode,  \* the key every plan has
    Features,  \* Plan -> keys of product_plans.features
    Request,   \* Activate and Cancel calls being served
    Reader,    \* EntitlementService.Get calls being served
    Cron,      \* expiry runs at work
    NoSub, NoPlan, NoRow, NoCache,
    Activator, \* bound of the model: calls that may be Activate calls
    MaxFaults  \* bound of the model: failures of calls

ASSUME SubscriptionAssumption ==
    /\ NoSub \notin Sub
    /\ NoPlan \notin Plan
    /\ Endless \subseteq Plan
    /\ PlanCode \in Key
    /\ Activator \subseteq Request
    /\ Features \in [Plan -> SUBSET Key]
    /\ NoRow \notin [sub : Sub \union {NoSub}, until : Sub \union {NoSub}]
    /\ NoCache \notin [Key -> Sub \union {NoSub}]
    /\ MaxFaults \in Nat

VARIABLES
    status,    \* Sub -> subscriptions.status, "none" before the INSERT
    subPlan,   \* Sub -> subscriptions.plan_id
    past,      \* subscriptions whose expires_at has passed
    graceOver, \* subscriptions whose grace_until has passed
    rows,      \* Key -> account_entitlements row
    cache,     \* the Redis key identity:entitlements:<account>:<product>
    request,   \* Request -> the call it serves
    reader,    \* Reader -> rows read and not yet cached
    cron,      \* Cron -> where the run is
    faults     \* failures so far

dbVars == <<status, subPlan, past, graceOver, rows>>
vars == <<dbVars, cache, request, reader, cron, faults>>

\* A row's sub is the subscription its value comes from, NoSub for the free
\* plan; its until names the one whose expires_at it copied, NoSub for NULL.
Row == [sub : Sub \union {NoSub}, until : Sub \union {NoSub}]
FreeRow == [sub |-> NoSub, until |-> NoSub]

\* What Get answers, key by key: the subscription the value comes from.  NoSub
\* is a missing key; plan_code is then answered as free.
Answer == [Key -> Sub \union {NoSub}]

\* Where an upsert is between its two statements: it found no row, it found
\* one, or the one it found has been deleted since.
Writing == {"insert", "update", "miss"}

Idle == [pc |-> "free", plan |-> NoPlan, sub |-> NoSub, todo |-> {}, key |-> PlanCode]
Call == [pc : {"expire", "create", "sync", "invalidate", "cancel"} \union Writing,
         plan : Plan \union {NoPlan}, sub : Sub \union {NoSub},
         todo : SUBSET Key, key : Key]
NoRun == [pc |-> "free", todo |-> {}]
Run == [pc : {"expire", "end", "delete", "readFree", "invalidate"} \union Writing,
        todo : SUBSET Sub]

SubscriptionsTypeOK ==
    /\ status \in [Sub -> {"none", "active", "grace", "expired", "cancelled"}]
    /\ subPlan \in [Sub -> Plan \union {NoPlan}]
    /\ past \subseteq Sub
    /\ graceOver \subseteq Sub
    /\ rows \in [Key -> Row \union {NoRow}]
    /\ cache \in Answer \union {NoCache}
    /\ request \in [Request -> Call \union {Idle}]
    /\ reader \in [Reader -> Answer \union {NoCache}]
    /\ cron \in [Cron -> Run \union {NoRun}]
    /\ faults \in Nat

Init ==
    /\ status = [s \in Sub |-> "none"]
    /\ subPlan = [s \in Sub |-> NoPlan]
    /\ past = {}
    /\ graceOver = {}
    /\ rows = [k \in Key |-> NoRow]
    /\ cache = NoCache
    /\ request = [q \in Request |-> Idle]
    /\ reader = [r \in Reader |-> NoCache]
    /\ cron = [c \in Cron |-> NoRun]
    /\ faults = 0

\* IsLive; nothing ever sets the status trial.
Live == {s \in Sub : status[s] \in {"active", "grace"}}

\* idx_subs_active_unique: a row may not become live beside another live one.
\* Mutant: there is no such index.
Taken_Never(s) == FALSE

Taken(s) == Live \ {s} # {}

\* calculateExpiry, as the subscription that stands for the date.
ExpiresAt(s) == IF subPlan[s] \in Endless THEN NoSub ELSE s

\* GetEntitlements returns the rows whose expires_at has not passed.
Snapshot ==
    [k \in Key |-> IF rows[k] # NoRow /\ rows[k].until \notin past
                   THEN rows[k].sub ELSE NoSub]

\* UpsertEntitlement.  gorm's Assign leaves zero fields out, so a NULL
\* expires_at does not replace the one an existing row has.  Mutants: expires_at
\* is never assigned to an existing row; nothing is (no Assign).
Upsert_KeepsUntil(row, s, until) ==
    [sub |-> s, until |-> IF row = NoRow THEN until ELSE row.until]

Upsert_InsertsOnly(row, s, until) ==
    IF row = NoRow THEN [sub |-> s, until |-> until] ELSE row

Upsert(row, s, until) ==
    [sub |-> s, until |-> IF row = NoRow \/ until # NoSub THEN until ELSE row.until]

\* SyncFromSubscription writes plan_code and the features.
SyncKeys(p) == {PlanCode} \union Features[p]

-----------------------------------------------------------------------------
(* Activate and Cancel *)

\* Bound of the model: as many activations as there are rows left.
Unused == {s \in Sub : status[s] = "none"}
Creating == {q \in Request : request[q].pc \in {"expire", "create"}}

\* Activate reads the plan and the live subscription.
BeginActivate(q, p) ==
    /\ q \in Activator /\ request[q] = Idle
    /\ Cardinality(Creating) < Cardinality(Unused)
    /\ \/ /\ Live = {}
          /\ request' = [request EXCEPT ![q].pc = "create", ![q].plan = p]
       \/ \E s \in Live :
            request' = [request EXCEPT ![q].pc = "expire", ![q].plan = p, ![q].sub = s]
    /\ UNCHANGED <<dbVars, cache, reader, cron, faults>>

\* The old one is saved as expired, whatever it is by now.
ExpireOld(q) ==
    /\ request[q].pc = "expire"
    /\ status' = [status EXCEPT ![request[q].sub] = "expired"]
    /\ request' = [request EXCEPT ![q].pc = "create", ![q].sub = NoSub]
    /\ UNCHANGED <<subPlan, past, graceOver, rows, cache, reader, cron, faults>>

\* Mutant: an ended row is taken up again instead of inserting a new one.
Create_ReusesRow(q, s) ==
    /\ request[q].pc = "create"
    /\ status[s] \in {"none", "expired"}
    /\ ~ Taken(s)
    /\ status' = [status EXCEPT ![s] = "active"]
    /\ subPlan' = [subPlan EXCEPT ![s] = request[q].plan]
    /\ request' = [request EXCEPT ![q].pc = "sync", ![q].sub = s, ![q].plan = NoPlan,
                                  ![q].todo = SyncKeys(request[q].plan)]
    /\ UNCHANGED <<past, graceOver, rows, cache, reader, cron, faults>>

\* The new one is inserted, or the unique index refuses it and Activate fails.
Create(q, s) ==
    /\ request[q].pc = "create"
    /\ status[s] = "none"
    /\ \/ /\ ~ Taken(s)
          /\ status' = [status EXCEPT ![s] = "active"]
          /\ subPlan' = [subPlan EXCEPT ![s] = request[q].plan]
          /\ request' = [request EXCEPT ![q].pc = "sync", ![q].sub = s, ![q].plan = NoPlan,
                                        ![q].todo = SyncKeys(request[q].plan)]
       \/ /\ Taken(s)
          /\ request' = [request EXCEPT ![q] = Idle]
          /\ UNCHANGED <<status, subPlan>>
    /\ UNCHANGED <<past, graceOver, rows, cache, reader, cron, faults>>

\* UpsertEntitlement is gorm's FirstOrCreate: it reads the row, then inserts
\* it or updates the one it found by its id.
Found(k) == IF rows[k] = NoRow THEN "insert" ELSE "update"

\* The unique index on the key refuses a second row.
Refused(pc, k) == pc = "insert" /\ rows[k] # NoRow

\* The rows after a write that was not refused.
Written(pc, k, s, until) ==
    IF pc = "miss" THEN rows ELSE [rows EXCEPT ![k] = Upsert(@, s, until)]

\* A row of SyncFromSubscription; a Go map is ranged over in any order.
ReadRow(q, k) ==
    /\ request[q].pc = "sync"
    /\ k \in request[q].todo
    /\ request' = [request EXCEPT ![q].pc = Found(k), ![q].key = k]
    /\ UNCHANGED <<dbVars, cache, reader, cron, faults>>

\* A refused row ends the sync, and Activate ignores its error.
SyncRow(q) ==
    LET s == request[q].sub
        k == request[q].key
        left == request[q].todo \ {k}
    IN /\ request[q].pc \in Writing
       /\ \/ /\ Refused(request[q].pc, k)
             /\ request' = [request EXCEPT ![q] = Idle]
             /\ UNCHANGED rows
          \/ /\ ~ Refused(request[q].pc, k)
             /\ rows' = Written(request[q].pc, k, s, ExpiresAt(s))
             /\ request' = [request EXCEPT ![q].todo = left, ![q].key = PlanCode,
                                           ![q].pc = IF left = {} THEN "invalidate" ELSE "sync"]
       /\ UNCHANGED <<status, subPlan, past, graceOver, cache, reader, cron, faults>>

\* Mutant: the cached copy stays until its TTL.
InvalidateAfterSync_Never(q) ==
    /\ request[q].pc = "invalidate"
    /\ request' = [request EXCEPT ![q] = Idle]
    /\ UNCHANGED <<dbVars, cache, reader, cron, faults>>

InvalidateAfterSync(q) ==
    /\ request[q].pc = "invalidate"
    /\ cache' = NoCache
    /\ request' = [request EXCEPT ![q] = Idle]
    /\ UNCHANGED <<dbVars, reader, cron, faults>>

\* Cancel reads the live subscription and saves it as cancelled.
BeginCancel(q) ==
    /\ request[q] = Idle
    /\ \E s \in Live : request' = [request EXCEPT ![q].pc = "cancel", ![q].sub = s]
    /\ UNCHANGED <<dbVars, cache, reader, cron, faults>>

\* Mutant: it is saved as expired.
SaveCancelled_AsExpired(q) ==
    /\ request[q].pc = "cancel"
    /\ status' = [status EXCEPT ![request[q].sub] = "expired"]
    /\ request' = [request EXCEPT ![q] = Idle]
    /\ UNCHANGED <<subPlan, past, graceOver, rows, cache, reader, cron, faults>>

SaveCancelled(q) ==
    /\ request[q].pc = "cancel"
    /\ status' = [status EXCEPT ![request[q].sub] = "cancelled"]
    /\ request' = [request EXCEPT ![q] = Idle]
    /\ UNCHANGED <<subPlan, past, graceOver, rows, cache, reader, cron, faults>>

\* A call fails or the pod dies.  A failed sync is swallowed, a failed Redis DEL
\* too; what was done stays.
RequestFails(q) ==
    /\ request[q] # Idle
    /\ faults < MaxFaults
    /\ faults' = faults + 1
    /\ request' = [request EXCEPT ![q] = Idle]
    /\ UNCHANGED <<dbVars, cache, reader, cron>>

-----------------------------------------------------------------------------
(* The expiry run *)

\* ListActiveExpired.
Lapsed == {s \in Sub : status[s] = "active" /\ s \in past}

\* ListGraceExpired.  Mutant: it asks for the ones already expired.
GraceLapsed_Expired == {s \in Sub : status[s] = "expired" /\ s \in graceOver}

GraceLapsed == {s \in Sub : status[s] = "grace" /\ s \in graceOver}

ListLapsed(c) ==
    /\ cron[c] = NoRun
    /\ cron' = [cron EXCEPT ![c].pc = "expire", ![c].todo = Lapsed]
    /\ UNCHANGED <<dbVars, cache, request, reader, faults>>

\* Expire saves the listed row as grace with a new grace_until, whatever its
\* status is by now; the unique index may refuse it, then the run goes on.
Expire(c, s) ==
    /\ cron[c].pc = "expire"
    /\ s \in cron[c].todo
    /\ \/ /\ ~ Taken(s)
          /\ status' = [status EXCEPT ![s] = "grace"]
          /\ graceOver' = graceOver \ {s}
       \/ Taken(s) /\ UNCHANGED <<status, graceOver>>
    /\ cron' = [cron EXCEPT ![c].todo = @ \ {s}]
    /\ UNCHANGED <<subPlan, past, rows, cache, request, reader, faults>>

ListGraceLapsed(c) ==
    /\ cron[c].pc = "expire"
    /\ cron[c].todo = {}
    /\ cron' = [cron EXCEPT ![c].pc = "end", ![c].todo = GraceLapsed]
    /\ UNCHANGED <<dbVars, cache, request, reader, faults>>

\* EndGrace: the listed row is saved as expired, then ResetToFree.
EndGrace(c, s) ==
    /\ cron[c].pc = "end"
    /\ s \in cron[c].todo
    /\ status' = [status EXCEPT ![s] = "expired"]
    /\ cron' = [cron EXCEPT ![c] = [pc |-> "delete", todo |-> @.todo \ {s}]]
    /\ UNCHANGED <<subPlan, past, graceOver, rows, cache, request, reader, faults>>

\* DeleteEntitlements takes every row of the account and product, also those
\* an upsert has found and not updated yet.
Missing(calls) ==
    [x \in DOMAIN calls |->
        IF calls[x].pc = "update" THEN [calls[x] EXCEPT !.pc = "miss"] ELSE calls[x]]

DeleteRows(c) ==
    /\ cron[c].pc = "delete"
    /\ rows' = [k \in Key |-> NoRow]
    /\ request' = Missing(request)
    /\ cron' = [Missing(cron) EXCEPT ![c].pc = "readFree"]
    /\ UNCHANGED <<status, subPlan, past, graceOver, cache, reader, faults>>

ReadFree(c) ==
    /\ cron[c].pc = "readFree"
    /\ cron' = [cron EXCEPT ![c].pc = Found(PlanCode)]
    /\ UNCHANGED <<dbVars, cache, request, reader, faults>>

WriteFree(c) ==
    /\ cron[c].pc \in Writing
    /\ \/ /\ Refused(cron[c].pc, PlanCode)
          /\ cron' = [cron EXCEPT ![c].pc = "end"]
          /\ UNCHANGED rows
       \/ /\ ~ Refused(cron[c].pc, PlanCode)
          /\ rows' = Written(cron[c].pc, PlanCode, NoSub, NoSub)
          /\ cron' = [cron EXCEPT ![c].pc = "invalidate"]
    /\ UNCHANGED <<status, subPlan, past, graceOver, cache, request, reader, faults>>

InvalidateAfterReset(c) ==
    /\ cron[c].pc = "invalidate"
    /\ cache' = NoCache
    /\ cron' = [cron EXCEPT ![c].pc = "end"]
    /\ UNCHANGED <<dbVars, request, reader, faults>>

EndRun(c) ==
    /\ cron[c].pc = "end"
    /\ cron[c].todo = {}
    /\ cron' = [cron EXCEPT ![c] = NoRun]
    /\ UNCHANGED <<dbVars, cache, request, reader, faults>>

\* A call fails: it is logged and the run goes on with the next subscription,
\* unless it was a listing.  The pod may die too.
CallFails(c) ==
    /\ faults < MaxFaults
    /\ faults' = faults + 1
    /\ \/ /\ cron[c].pc \in {"expire", "end"}
          /\ \E s \in cron[c].todo : cron' = [cron EXCEPT ![c].todo = @ \ {s}]
       \/ /\ cron[c].pc \in {"delete", "readFree", "invalidate"} \union Writing
          /\ cron' = [cron EXCEPT ![c].pc = "end"]
       \/ cron[c] # NoRun /\ cron' = [cron EXCEPT ![c] = NoRun]
    /\ UNCHANGED <<dbVars, cache, request, reader>>

CronStep(c) ==
    \/ ListLapsed(c) \/ ListGraceLapsed(c) \/ EndRun(c)
    \/ \E s \in Sub : Expire(c, s) \/ EndGrace(c, s)
    \/ DeleteRows(c) \/ ReadFree(c) \/ WriteFree(c) \/ InvalidateAfterReset(c)

-----------------------------------------------------------------------------
(* Readers and time *)

\* Get reads the rows when the cache has nothing, or Redis does not answer.
ReadRows(r) ==
    /\ reader[r] = NoCache
    /\ \/ cache = NoCache /\ UNCHANGED faults
       \/ cache # NoCache /\ faults < MaxFaults /\ faults' = faults + 1
    /\ reader' = [reader EXCEPT ![r] = Snapshot]
    /\ UNCHANGED <<dbVars, cache, request, cron>>

\* Refresh caches what it read; an error of the SET is ignored.
FillCache(r) ==
    /\ reader[r] # NoCache
    /\ cache' \in {cache, reader[r]}
    /\ reader' = [reader EXCEPT ![r] = NoCache]
    /\ UNCHANGED <<dbVars, request, cron, faults>>

TermEnds(s) ==
    /\ status[s] # "none" /\ subPlan[s] \notin Endless /\ s \notin past
    /\ past' = past \union {s}
    /\ UNCHANGED <<status, subPlan, graceOver, rows, cache, request, reader, cron, faults>>

GraceRunsOut(s) ==
    /\ status[s] = "grace" /\ s \notin graceOver
    /\ graceOver' = graceOver \union {s}
    /\ UNCHANGED <<status, subPlan, past, rows, cache, request, reader, cron, faults>>

\* The TTL of the cached key.
CacheExpires ==
    /\ cache # NoCache
    /\ cache' = NoCache
    /\ UNCHANGED <<dbVars, request, reader, cron, faults>>

ActivateStep(q) ==
    \/ ExpireOld(q) \/ \E s \in Sub : Create(q, s)
    \/ \E k \in Key : ReadRow(q, k)
    \/ SyncRow(q)
    \/ InvalidateAfterSync(q)

Next ==
    \/ \E q \in Request :
        \/ \E p \in Plan : BeginActivate(q, p)
        \/ ActivateStep(q)
        \/ BeginCancel(q) \/ SaveCancelled(q)
        \/ RequestFails(q)
    \/ \E c \in Cron : CronStep(c) \/ CallFails(c)
    \/ \E r \in Reader : ReadRows(r) \/ FillCache(r)
    \/ \E s \in Sub : TermEnds(s) \/ GraceRunsOut(s)
    \/ CacheExpires

Spec == Init /\ [][Next]_vars

\* The ticker starts a run every hour and a run goes on; grace periods run out.
\* Nothing is assumed of the calls being served.
FairSpec ==
    /\ Spec
    /\ \A c \in Cron : WF_vars(CronStep(c))
    /\ \A s \in Sub : WF_vars(GraceRunsOut(s))

-----------------------------------------------------------------------------
(* Properties *)

\* What is served from the database never outlives the term that was paid for:
\* however activations, cancellations, expiry runs and failures interleave, a
\* visible entitlement comes from a subscription whose expires_at is ahead.
PaidWithinTerm == \A k \in Key : Snapshot[k] \notin past

\* At most one subscription is live, although Activate reads and inserts in
\* separate calls and expiry runs save rows they listed earlier.
OneLive == \A s, t \in Live : s = t

\* The invariant behind both: whoever is about to save or copy a subscription
\* holds one that exists, and a row copied from one with a term ends with it.
RequestsHoldRows ==
    \A q \in Request :
        /\ request[q].pc \in {"expire", "sync", "cancel"} \union Writing =>
              request[q].sub \in Sub \ Unused
        /\ request[q].pc = "update" => rows[request[q].key] # NoRow
        /\ request[q].pc = "create" => request[q].plan \in Plan

RunsHoldRows ==
    \A c \in Cron : cron[c].todo \subseteq Sub \ Unused

RowsEndWithTerm ==
    \A k \in Key :
        rows[k] # NoRow /\ rows[k].sub # NoSub =>
            /\ status[rows[k].sub] # "none"
            /\ ExpiresAt(rows[k].sub) # NoSub => rows[k].until = rows[k].sub

SubscriptionsInv ==
    /\ SubscriptionsTypeOK
    /\ PaidWithinTerm
    /\ OneLive
    /\ RequestsHoldRows
    /\ RunsHoldRows
    /\ RowsEndWithTerm
    /\ \A s \in Sub : (status[s] = "none") = (subPlan[s] = NoPlan)
    /\ past \subseteq {s \in Sub \ Unused : subPlan[s] \notin Endless}

\* ExpiryJob "transitions them through the active -> grace -> expired
\* lifecycle": a subscription that has ended or was cancelled is not live again.
StaysEnded == \A s \in Sub : status[s] \in {"expired", "cancelled"} => s \notin Live'

EndedStaysEnded == [][StaysEnded]_status

\* Calls of Activate and Cancel, however they overlap and fail, revive nothing:
\* a step beside which no expiry run is under way leaves what has ended ended.
CallsEndForGood == [][(\A c \in Cron : cron[c] = NoRun) => StaysEnded]_status

\* Subscription s does not stay live when it has lapsed: it leaves active for
\* grace, and grace for expired, whatever fails on the way.
LapseEnds(s) == s \in Live /\ s \in past ~> s \notin Live

Quiet == (\A q \in Request : request[q] = Idle) /\ (\A c \in Cron : cron[c] = NoRun)

\* The customer's subscription s is served with every key of its plan.
Entitled(s) ==
    \A k \in SyncKeys(subPlan[s]) :
        Snapshot[k] # NoSub /\ subPlan[Snapshot[k]] = subPlan[s]

\* Between calls, an active subscription in its term has its entitlements.
ActiveIsEntitled ==
    Quiet => \A s \in Sub : status[s] = "active" /\ s \notin past => Entitled(s)

\* An activation that replaces a subscription in its term does both or neither
\* (FR-SUB-001): between calls, one ended early has a successor, which may have
\* been cancelled since.
TermNotLost ==
    Quiet => \A s \in Sub :
        status[s] = "expired" /\ s \notin past =>
            \E t \in Sub \ {s} : status[t] # "none" /\ status[t] # "expired"

\* Nobody but calls is at work and none of them fails: activations one at a
\* time, of plans with a term, beside cancellations and readers.
Activating == {q \in Request : request[q].pc \notin {"free", "cancel"}}

CallsAlone ==
    /\ faults = 0
    /\ \A c \in Cron : cron[c] = NoRun
    /\ \A q, r \in Activating : q = r
    /\ \A q \in Request : request[q].plan \notin Endless

\* Such calls take nobody's term and nobody's entitlements, whatever is read,
\* cancelled and cached between the steps of an activation.
CallsKeepTerms == []CallsAlone => [](ActiveIsEntitled /\ TermNotLost)

\* Story 3.2: in the grace period the entitlements are as before.
GraceIsEntitled ==
    Quiet => \A s \in Sub : status[s] = "grace" /\ s \notin graceOver => Entitled(s)

\* SyncFromSubscription writes the rows and then deletes the cached copy, so
\* the next Get reads the latest (architecture 8.4): between calls a cached
\* answer has no key the rows have another plan for.
CacheFollowsRows ==
    Quiet /\ cache # NoCache => \A k \in Key : Snapshot[k] # NoSub => cache[k] = Snapshot[k]

\* No reader has rows in hand while an activation is at work.
FillsAlone == \A r \in Reader : reader[r] # NoCache => Activating = {}

\* Where nothing but calls is at work, a stale answer has one cause only: a reader
\* that read the rows before an activation was done with them and stored them
\* after.  As long as no reader does, between calls the cache follows the rows.
CallsKeepCache == [](CallsAlone /\ FillsAlone) => []CacheFollowsRows

\* What calls alone keep: what is paid, and the answers that are cached.
CallsKeepPromises == CallsKeepTerms /\ CallsKeepCache

\* Story 4.1: a row's expires_at is that of the subscription in source_ref.
RowsFollowSub ==
    \A k \in Key :
        rows[k] # NoRow /\ rows[k].sub # NoSub => rows[k].until = ExpiresAt(rows[k].sub)
=============================================================================
