----------------------------- MODULE Reminders -----------------------------
(***************************************************************************)
(* The daily expiry reminders (NotificationJob) on several pods: the Redis *)
(* lock with its TTL and unconditional release, the scan once per reminder *)
(* distance, the mail and then the key that says it went out.              *)
(*                                                                         *)
(* Time passes in days: a pod ticks once a day and again when it starts;   *)
(* a run ends on its day; the lock outlives its pod by less than a day.    *)
(* A key lives two days longer than the subscription: it never lapses.     *)
(***************************************************************************)
EXTENDS Integers, Sequences, FiniteSets

CONSTANTS
    Expiring,     \* active subscriptions with an end
    DaysAtStart,  \* Expiring -> days until expires_at
    ReminderDays, \* reminderDays
    NotifPod, NoNotifPod,
    MaxNotifFaults \* bound of the model: failing calls, dying pods, lost locks

ASSUME RemindersAssumption ==
    /\ DaysAtStart \in [Expiring -> Nat]
    /\ \E last \in Expiring : \A s \in Expiring : DaysAtStart[s] <= DaysAtStart[last]
    /\ ReminderDays \in Seq(Nat \ {0}) /\ ReminderDays # <<>>
    /\ NotifPod # {} /\ IsFiniteSet(NotifPod)
    /\ NoNotifPod \notin NotifPod
    /\ MaxNotifFaults \in Nat

VARIABLES
    daysLeft,    \* Expiring -> days until expires_at, 0 once it is not active
    reminded,    \* the Redis keys email:remind:<sub>:<days>
    mails,       \* <<sub, days>> -> mails that went out
    notifLock,   \* who set cron:lock:subscription_notification
    lockOld,     \* the lock is from yesterday
    ticked,      \* pods that have ticked today
    today,       \* days passed
    notif,       \* NotifPod -> where its run is
    notifFaults  \* failures so far

remindersVars == <<daysLeft, reminded, mails, notifLock, lockOld, ticked, today, notif, notifFaults>>

Distance == {ReminderDays[i] : i \in DOMAIN ReminderDays}
Reminder == Expiring \X Distance
Horizon == CHOOSE n \in {DaysAtStart[s] : s \in Expiring} : \A s \in Expiring : DaysAtStart[s] <= n
IdleNotif == [pc |-> "idle", i |-> 1, todo |-> {}]

RemindersTypeOK ==
    /\ daysLeft \in [Expiring -> 0 .. Horizon]
    /\ reminded \subseteq Reminder
    /\ mails \in [Reminder -> 0 .. 1 + MaxNotifFaults]
    /\ notifLock \in NotifPod \union {NoNotifPod} /\ lockOld \in BOOLEAN
    /\ ticked \subseteq NotifPod /\ today \in 0 .. Horizon
    /\ notif \in [NotifPod -> [pc : {"idle", "list", "check", "mail", "mark", "release"},
                               i : DOMAIN ReminderDays, todo : SUBSET Expiring]]
    /\ notifFaults \in 0 .. MaxNotifFaults

RemindersInit ==
    /\ daysLeft = DaysAtStart /\ reminded = {} /\ mails = [r \in Reminder |-> 0]
    /\ notifLock = NoNotifPod /\ lockOld = FALSE /\ ticked = {} /\ today = 0
    /\ notif = [p \in NotifPod |-> IdleNotif] /\ notifFaults = 0

NotifAt(p, pc) == notif' = [notif EXCEPT ![p].pc = pc]

\* The reminder that pod p is at: the first of its list, in the order of Find.
AtReminder(p, s) == <<s, ReminderDays[notif[p].i]>>
AtSub(p) == CHOOSE s \in notif[p].todo : TRUE
Skip(p) == notif' = [notif EXCEPT ![p].pc = "check", ![p].todo = @ \ {AtSub(p)}]

\* Mutant: the lock is taken whether it is free or not.
TickNotif_Always(p) ==
    /\ notif[p].pc = "idle" /\ p \notin ticked
    /\ ticked' = ticked \union {p}
    /\ notifLock' = p /\ lockOld' = FALSE /\ NotifAt(p, "list")
    /\ UNCHANGED <<daysLeft, reminded, mails, today, notifFaults>>

\* tick: without the lock (SETNX) there is nothing to do.
TickNotif(p) ==
    /\ notif[p].pc = "idle" /\ p \notin ticked
    /\ ticked' = ticked \union {p}
    /\ \/ notifLock = NoNotifPod /\ notifLock' = p /\ lockOld' = FALSE /\ NotifAt(p, "list")
       \/ notifLock # NoNotifPod /\ UNCHANGED <<notifLock, lockOld, notif>>
    /\ UNCHANGED <<daysLeft, reminded, mails, today, notifFaults>>

\* ListExpiring: active rows that end within the distance.
ListReminders(p) ==
    /\ notif[p].pc = "list"
    /\ notif' = [notif EXCEPT ![p].pc = "check", ![p].todo =
            {s \in Expiring : daysLeft[s] > 0 /\ daysLeft[s] <= ReminderDays[notif[p].i]}]
    /\ UNCHANGED <<daysLeft, reminded, mails, notifLock, lockOld, ticked, today, notifFaults>>

CheckReminded(p) ==
    /\ notif[p].pc = "check" /\ notif[p].todo # {}
    /\ IF AtReminder(p, AtSub(p)) \in reminded THEN Skip(p) ELSE NotifAt(p, "mail")
    /\ UNCHANGED <<daysLeft, reminded, mails, notifLock, lockOld, ticked, today, notifFaults>>

SendReminder(p) ==
    /\ notif[p].pc = "mail"
    /\ mails' = [mails EXCEPT ![AtReminder(p, AtSub(p))] = @ + 1]
    /\ NotifAt(p, "mark")
    /\ UNCHANGED <<daysLeft, reminded, notifLock, lockOld, ticked, today, notifFaults>>

MarkReminded(p) ==
    /\ notif[p].pc = "mark"
    /\ reminded' = reminded \union {AtReminder(p, AtSub(p))}
    /\ Skip(p)
    /\ UNCHANGED <<daysLeft, mails, notifLock, lockOld, ticked, today, notifFaults>>

NextDistance(p) ==
    /\ notif[p].pc = "check" /\ notif[p].todo = {}
    /\ IF notif[p].i < Len(ReminderDays)
       THEN notif' = [notif EXCEPT ![p].pc = "list", ![p].i = @ + 1]
       ELSE NotifAt(p, "release")
    /\ UNCHANGED <<daysLeft, reminded, mails, notifLock, lockOld, ticked, today, notifFaults>>

\* DEL of the key, whoever set it.
ReleaseNotif(p) ==
    /\ notif[p].pc = "release"
    /\ notifLock' = NoNotifPod
    /\ notif' = [notif EXCEPT ![p] = IdleNotif]
    /\ UNCHANGED <<daysLeft, reminded, mails, lockOld, ticked, today, notifFaults>>

\* A failing call: the scan goes on with the next distance or subscription.  A
\* mail that failed may have gone out.
NotifFails(p) ==
    /\ notifFaults < MaxNotifFaults /\ notifFaults' = notifFaults + 1
    /\ \/ notif[p].pc = "list" /\ NotifAt(p, "check") /\ UNCHANGED mails
       \/ notif[p].pc = "check" /\ notif[p].todo # {} /\ Skip(p) /\ UNCHANGED mails
       \/ /\ notif[p].pc = "mail" /\ Skip(p)
          /\ mails' \in {mails, [mails EXCEPT ![AtReminder(p, AtSub(p))] = @ + 1]}
       \/ notif[p].pc = "mark" /\ Skip(p) /\ UNCHANGED mails
       \/ notif[p].pc = "release" /\ notif' = [notif EXCEPT ![p] = IdleNotif] /\ UNCHANGED mails
    /\ UNCHANGED <<daysLeft, reminded, notifLock, lockOld, ticked, today>>

\* A pod dies in its run, and ticks again when it is back.
NotifPodDies(p) ==
    /\ notif[p].pc # "idle"
    /\ notifFaults < MaxNotifFaults /\ notifFaults' = notifFaults + 1
    /\ notif' = [notif EXCEPT ![p] = IdleNotif]
    /\ ticked' = ticked \ {p}
    /\ UNCHANGED <<daysLeft, reminded, mails, notifLock, lockOld, today>>

\* The lock's TTL is over: its pod is gone, or it is at work still.
NotifLockLapses ==
    /\ notifLock # NoNotifPod
    /\ \/ notif[notifLock].pc = "idle" /\ UNCHANGED notifFaults
       \/ notifFaults < MaxNotifFaults /\ notifFaults' = notifFaults + 1
    /\ notifLock' = NoNotifPod
    /\ UNCHANGED <<daysLeft, reminded, mails, lockOld, ticked, today, notif>>

\* The next day.  Every pod ticked in the last one, and the TTL of 23 hours
\* lets no lock see two of them.
NextDay ==
    /\ today < Horizon
    /\ ticked = NotifPod /\ \A p \in NotifPod : notif[p].pc = "idle"
    /\ notifLock = NoNotifPod \/ ~lockOld
    /\ lockOld' = (notifLock # NoNotifPod)
    /\ today' = today + 1 /\ ticked' = {}
    /\ daysLeft' = [s \in Expiring |-> IF daysLeft[s] = 0 THEN 0 ELSE daysLeft[s] - 1]
    /\ UNCHANGED <<reminded, mails, notifLock, notif, notifFaults>>

\* A subscription is cancelled, or replaced by another row.
SubEnds(s) ==
    /\ daysLeft[s] > 0
    /\ daysLeft' = [daysLeft EXCEPT ![s] = 0]
    /\ UNCHANGED <<reminded, mails, notifLock, lockOld, ticked, today, notif, notifFaults>>

RemindersNext ==
    \/ \E p \in NotifPod :
        \/ TickNotif(p) \/ ListReminders(p) \/ CheckReminded(p) \/ SendReminder(p)
        \/ MarkReminded(p) \/ NextDistance(p) \/ ReleaseNotif(p)
        \/ NotifFails(p) \/ NotifPodDies(p)
    \/ NotifLockLapses \/ NextDay
    \/ \E s \in Expiring : SubEnds(s)

RemindersSpec == RemindersInit /\ [][RemindersNext]_remindersVars

-----------------------------------------------------------------------------
(* Properties *)

\* A reminder repeats at most once per failure, and is never marked without
\* having gone out; without a failure a live subscription has had every
\* reminder of the distances it was within yesterday, exactly once each, although
\* every pod runs the scan every day.
RemindersInv ==
    /\ RemindersTypeOK
    /\ \A r \in reminded : mails[r] > 0
    /\ \A r \in Reminder : mails[r] <= 1 + notifFaults
    /\ notifFaults = 0 =>
        \A r \in Reminder :
            daysLeft[r[1]] > 0 /\ today > 0 /\ daysLeft[r[1]] < r[2] => mails[r] = 1
=============================================================================
