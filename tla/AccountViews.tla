---------------------------- MODULE AccountViews ----------------------------
(***************************************************************************)
(* What is derived from the wallet of one account: its VIP row, which      *)
(* VIPService.RecalculateFromWallet recomputes after a topup, a usage      *)
(* report and a usage event from NATS (Consumer), and the overview that    *)
(* OverviewService aggregates and caches in Redis.                         *)
(*                                                                         *)
(* No call is part of a transaction and the VIP row is saved whole, so     *)
(* each database or Redis call is a step.  GrantYearlySub and AdminSet     *)
(* have no caller, so yearly_sub_grant stays 0 and level is spend_grant.   *)
(***************************************************************************)
EXTENDS Integers, FiniteSets

CONSTANTS
    Level,      \* vip_level_configs.level
    MinSpend,   \* Level -> min_spend_cny, in topups
    MaxTopups,  \* bound of the model: topups of the account
    Worker,     \* requests and NATS deliveries that recalculate
    UsageEvent, \* usage events the LLM_EVENTS stream holds
    MaxDeliver, \* natsgo.MaxDeliver
    Viewer,     \* OverviewService.Get calls being served
    NoRow, NoView, NoEvent,
    MaxViewFaults \* bound of the model: failing calls

ASSUME ViewsAssumption ==
    /\ Level \subseteq Nat /\ 0 \in Level
    /\ \E top \in Level : Level \subseteq 0 .. top
    /\ MinSpend \in [Level -> Nat]
    /\ MinSpend[0] = 0
    /\ \A k, l \in Level : k <= l => MinSpend[k] <= MinSpend[l]
    /\ MaxTopups \in Nat /\ MaxDeliver \in Nat /\ MaxViewFaults \in Nat
    /\ NoEvent \notin UsageEvent
    /\ NoRow \notin Level

VARIABLES
    topups,     \* wallets.lifetime_topup
    vipLevel,   \* account_vip.level (and spend_grant), or NoRow
    worker,     \* Worker -> the recalculation it is at
    event,      \* UsageEvent -> its deliveries and whether it is out or acknowledged
    overview,   \* the Redis key identity:overview:<account>:<product>
    viewer,     \* Viewer -> the overview it is putting together
    viewFaults  \* failures so far

viewsVars == <<topups, vipLevel, worker, event, overview, viewer, viewFaults>>

View == [level : Level, topups : 0 .. MaxTopups]
FreeWorker == [pc |-> "free", seen |-> 0, event |-> NoEvent]
FreeViewer == [pc |-> "free", level |-> 0, topups |-> 0]

ViewsTypeOK ==
    /\ topups \in 0 .. MaxTopups
    /\ vipLevel \in Level \union {NoRow}
    /\ worker \in [Worker -> [pc : {"free", "wallet", "vip", "insert", "save"},
                              seen : 0 .. MaxTopups, event : UsageEvent \union {NoEvent}]]
    /\ event \in [UsageEvent -> [at : {"none", "queued", "out", "done"},
                                 sent : 0 .. MaxDeliver, parses : BOOLEAN]]
    /\ overview \in View \union {NoView}
    /\ viewer \in [Viewer -> [pc : {"free", "vip", "insert", "wallet", "store"},
                              level : Level, topups : 0 .. MaxTopups]]
    /\ viewFaults \in 0 .. MaxViewFaults

ViewsInit ==
    /\ topups = 0
    /\ vipLevel = NoRow
    /\ worker = [w \in Worker |-> FreeWorker]
    /\ event = [e \in UsageEvent |-> [at |-> "none", sent |-> 0, parses |-> TRUE]]
    /\ overview = NoView
    /\ viewer = [v \in Viewer |-> FreeViewer]
    /\ viewFaults = 0

-----------------------------------------------------------------------------
(* Recalculation *)

\* The last level, in ascending order, whose min_spend_cny is reached.
LevelFor(spent) ==
    CHOOSE l \in Level :
        /\ MinSpend[l] <= spent
        /\ \A k \in Level : MinSpend[k] <= spent => k <= l

\* WalletService.Topup: the credit, and then the recalculation, whose error it
\* ignores.
TopUp(w) ==
    /\ worker[w].pc = "free"
    /\ topups < MaxTopups
    /\ topups' = topups + 1
    /\ worker' = [worker EXCEPT ![w].pc = "wallet"]
    /\ UNCHANGED <<vipLevel, event, overview, viewer, viewFaults>>

\* A usage report over HTTP or gRPC; it answers "accepted" whatever happens.
ReportUsage(w) ==
    /\ worker[w].pc = "free"
    /\ worker' = [worker EXCEPT ![w].pc = "wallet"]
    /\ UNCHANGED <<topups, vipLevel, event, overview, viewer, viewFaults>>

\* lurus-api publishes a usage event to the stream.
PublishUsage(e) ==
    /\ event[e].at = "none"
    /\ \E p \in BOOLEAN : event' = [event EXCEPT ![e].at = "queued", ![e].parses = p]
    /\ UNCHANGED <<topups, vipLevel, worker, overview, viewer, viewFaults>>

\* JetStream hands an event to one member of the queue group, at most
\* MaxDeliver times in all.  An event that does not parse is Nak'ed at once.
DeliverUsage(w, e) ==
    /\ worker[w].pc = "free"
    /\ event[e].at = "queued" /\ event[e].sent < MaxDeliver
    /\ event' = [event EXCEPT ![e].sent = @ + 1,
                              ![e].at = IF event[e].parses THEN "out" ELSE "queued"]
    /\ worker' = IF event[e].parses
                 THEN [worker EXCEPT ![w].pc = "wallet", ![w].event = e] ELSE worker
    /\ UNCHANGED <<topups, vipLevel, overview, viewer, viewFaults>>

\* The ack wait of an event runs out while its handler is still at it.
AckWaitEnds(e) ==
    /\ event[e].at = "out"
    /\ event' = [event EXCEPT ![e].at = "queued"]
    /\ UNCHANGED <<topups, vipLevel, worker, overview, viewer, viewFaults>>

\* The event of worker w after its handler returned: Ack or Nak.
Settled(w, outcome) ==
    LET e == worker[w].event
    IN IF e = NoEvent THEN event
       ELSE IF outcome = "done" THEN [event EXCEPT ![e].at = "done"]
       ELSE [event EXCEPT ![e].at = IF @ = "out" THEN "queued" ELSE @]

\* RecalculateFromWallet reads the wallet row.
ReadWallet(w) ==
    /\ worker[w].pc = "wallet"
    /\ worker' = [worker EXCEPT ![w].pc = "vip", ![w].seen = topups]
    /\ UNCHANGED <<topups, vipLevel, event, overview, viewer, viewFaults>>

\* Without a row (an account without topups may have none), or when the read
\* fails, the recalculation is skipped and counts as done.
SkipWithoutWallet(w) ==
    /\ worker[w].pc = "wallet"
    /\ \/ topups = 0 /\ UNCHANGED viewFaults
       \/ viewFaults < MaxViewFaults /\ viewFaults' = viewFaults + 1
    /\ event' = Settled(w, "done")
    /\ worker' = [worker EXCEPT ![w] = FreeWorker]
    /\ UNCHANGED <<topups, vipLevel, overview, viewer>>

\* GetOrCreate of the VIP row is a SELECT and, when there is none, an INSERT of
\* a row of zeros, which the primary key may refuse.
ReadVIP(w) ==
    /\ worker[w].pc = "vip"
    /\ worker' = [worker EXCEPT ![w].pc = IF vipLevel = NoRow THEN "insert" ELSE "save"]
    /\ UNCHANGED <<topups, vipLevel, event, overview, viewer, viewFaults>>

InsertVIP(w) ==
    /\ worker[w].pc = "insert"
    /\ \/ /\ vipLevel = NoRow
          /\ vipLevel' = 0
          /\ worker' = [worker EXCEPT ![w].pc = "save"]
          /\ UNCHANGED event
       \/ /\ vipLevel # NoRow
          /\ event' = Settled(w, "failed")
          /\ worker' = [worker EXCEPT ![w] = FreeWorker]
          /\ UNCHANGED vipLevel
    /\ UNCHANGED <<topups, overview, viewer, viewFaults>>

\* Mutant: ON CONFLICT DO NOTHING.
SaveVIP_DoNothing(w) ==
    /\ worker[w].pc = "save"
    /\ event' = Settled(w, "done")
    /\ worker' = [worker EXCEPT ![w] = FreeWorker]
    /\ UNCHANGED <<topups, vipLevel, overview, viewer, viewFaults>>

\* The upsert writes the level computed from the topups read at the start.
SaveVIP(w) ==
    /\ worker[w].pc = "save"
    /\ vipLevel' = LevelFor(worker[w].seen)
    /\ event' = Settled(w, "done")
    /\ worker' = [worker EXCEPT ![w] = FreeWorker]
    /\ UNCHANGED <<topups, overview, viewer, viewFaults>>

\* A call of the recalculation fails, or the pod dies with it.
RecalculationFails(w) ==
    /\ worker[w].pc \in {"vip", "insert", "save"}
    /\ viewFaults < MaxViewFaults
    /\ viewFaults' = viewFaults + 1
    /\ event' = Settled(w, "failed")
    /\ worker' = [worker EXCEPT ![w] = FreeWorker]
    /\ UNCHANGED <<topups, vipLevel, overview, viewer>>

-----------------------------------------------------------------------------
(* The overview *)

\* Get computes the overview when nothing is cached or Redis does not answer.
MissOverview(v) ==
    /\ viewer[v].pc = "free"
    /\ \/ overview = NoView /\ UNCHANGED viewFaults
       \/ overview # NoView /\ viewFaults < MaxViewFaults /\ viewFaults' = viewFaults + 1
    /\ viewer' = [viewer EXCEPT ![v].pc = "vip"]
    /\ UNCHANGED <<topups, vipLevel, worker, event, overview>>

\* compute reads the VIP row first, creating it when there is none ...
ViewVIP(v) ==
    /\ viewer[v].pc = "vip"
    /\ viewer' = [viewer EXCEPT ![v] =
                    IF vipLevel = NoRow THEN [@ EXCEPT !.pc = "insert"]
                    ELSE [@ EXCEPT !.pc = "wallet", !.level = vipLevel]]
    /\ UNCHANGED <<topups, vipLevel, worker, event, overview, viewFaults>>

ViewInsertsVIP(v) ==
    /\ viewer[v].pc = "insert"
    /\ \/ /\ vipLevel = NoRow
          /\ vipLevel' = 0
          /\ viewer' = [viewer EXCEPT ![v].pc = "wallet", ![v].level = 0]
       \/ /\ vipLevel # NoRow
          /\ viewer' = [viewer EXCEPT ![v] = FreeViewer]
          /\ UNCHANGED vipLevel
    /\ UNCHANGED <<topups, worker, event, overview, viewFaults>>

\* Mutant: the wallet is read before the VIP row.
ViewWallet_First(v) ==
    /\ viewer[v].pc = "wallet"
    /\ \E t \in 0 .. topups :
        viewer' = [viewer EXCEPT ![v].pc = "store", ![v].topups = t, ![v].level = vipLevel]
    /\ UNCHANGED <<topups, vipLevel, worker, event, overview, viewFaults>>

\* ... and the wallet after it, from which balance and discount are taken.
ViewWallet(v) ==
    /\ viewer[v].pc = "wallet"
    /\ viewer' = [viewer EXCEPT ![v].pc = "store", ![v].topups = topups]
    /\ UNCHANGED <<topups, vipLevel, worker, event, overview, viewFaults>>

\* The cached copy is written best effort; its TTL is two minutes.
StoreOverview(v) ==
    /\ viewer[v].pc = "store"
    /\ overview' \in {overview, [level |-> viewer[v].level, topups |-> viewer[v].topups]}
    /\ viewer' = [viewer EXCEPT ![v] = FreeViewer]
    /\ UNCHANGED <<topups, vipLevel, worker, event, viewFaults>>

\* Nothing in the system calls Invalidate: only the TTL ends a cached overview.
OverviewExpires ==
    /\ overview # NoView
    /\ overview' = NoView
    /\ UNCHANGED <<topups, vipLevel, worker, event, viewer, viewFaults>>

WorkerStep(w) ==
    \/ ReadWallet(w) \/ SkipWithoutWallet(w) \/ ReadVIP(w) \/ InsertVIP(w) \/ SaveVIP(w)

ViewerStep(v) ==
    \/ ViewVIP(v) \/ ViewInsertsVIP(v) \/ ViewWallet(v) \/ StoreOverview(v)

ViewsNext ==
    \/ \E w \in Worker :
        \/ TopUp(w) \/ ReportUsage(w)
        \/ \E e \in UsageEvent : DeliverUsage(w, e)
        \/ WorkerStep(w) \/ RecalculationFails(w)
    \/ \E e \in UsageEvent : PublishUsage(e) \/ AckWaitEnds(e)
    \/ \E v \in Viewer : MissOverview(v) \/ ViewerStep(v)
    \/ OverviewExpires

ViewsSpec == ViewsInit /\ [][ViewsNext]_viewsVars

\* Handlers run on, Redis drops a key at its TTL.  Callers owe nothing.
ViewsFairness ==
    /\ \A w \in Worker : WF_viewsVars(WorkerStep(w))
    /\ \A v \in Viewer : WF_viewsVars(ViewerStep(v))
    /\ WF_viewsVars(OverviewExpires)

-----------------------------------------------------------------------------
(* Properties *)

\* No level that the topups do not justify, neither in the row, however many
\* recalculations overlap, nor in an overview, which reads level and wallet at
\* different times: compute reads the level first, so what it shows beside it
\* is at least what the level was computed from.
ViewsInv ==
    /\ ViewsTypeOK
    /\ vipLevel # NoRow => MinSpend[vipLevel] <= topups
    /\ \A w \in Worker : worker[w].seen <= topups
    /\ overview # NoView => MinSpend[overview.level] <= overview.topups
    /\ \A v \in Viewer :
        LET t == IF viewer[v].pc = "store" THEN viewer[v].topups ELSE topups
        IN MinSpend[viewer[v].level] <= t /\ t <= topups

\* Level and overview as they should be.
Settling ==
    /\ vipLevel = LevelFor(topups) \/ (topups = 0 /\ vipLevel = NoRow)
    /\ overview = NoView \/ overview = [level |-> LevelFor(topups), topups |-> topups]

\* A recalculation that is slower than a later one saves the level of before
\* the topup over the new one, and a slow overview caches it.  Both are made up
\* for: as long as usage is reported again and again, the level, and with it
\* the overview, is right in the end and stays so.
ViewsSettle ==
    ([]<>(\E w \in Worker : worker[w].pc = "wallet")) => <>[]Settling
=============================================================================
