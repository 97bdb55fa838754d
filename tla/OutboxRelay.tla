----------------------------- MODULE OutboxRelay -----------------------------
(***************************************************************************)
(* The outbox of domain events (OutboxRepo) and the relays that bring its  *)
(* rows to NATS (OutboxRelay), one per pod and without a lock.  Each       *)
(* database call and each publish is a step.                               *)
(***************************************************************************)
EXTENDS Integers, FiniteSets

CONSTANTS
    EventCount,  \* outbox ids are 1 .. EventCount, in the order of insertion
    Poison,      \* events NATS never takes
    Relay,       \* the relay loop of each pod
    BatchSize,   \* outboxBatchSize (50)
    MaxAttempts, \* outboxMaxAttempts (10)
    MaxFaults    \* bound of the model: failures of calls and crashes

Event == 1 .. EventCount

ASSUME OutboxAssumption ==
    /\ EventCount \in Nat /\ IsFiniteSet(Relay)
    /\ Poison \subseteq Event
    /\ {BatchSize, MaxAttempts} \subseteq Nat \ {0}
    /\ MaxFaults \in Nat

VARIABLES
    inserted,  \* how many rows have been inserted
    published, \* rows with published_at set
    old,       \* published rows older than outboxCleanupAge
    deleted,   \* rows that cleanup has removed
    attempts,  \* Event -> attempts
    delivered, \* events the stream has taken at least once
    relay,     \* Relay -> its poll
    faults     \* failures so far

vars == <<inserted, published, old, deleted, attempts, delivered, relay, faults>>

Waiting == [pc |-> "waiting", todo |-> {}]
Polling == [pc : {"next", "mark", "count"}, todo : SUBSET (Event \X Nat)]

OutboxTypeOK ==
    /\ inserted \in 0 .. EventCount
    /\ published \subseteq 1 .. inserted
    /\ old \subseteq published
    /\ deleted \subseteq old
    /\ attempts \in [Event -> Nat]
    /\ delivered \subseteq 1 .. inserted
    /\ relay \in [Relay -> Polling \union {Waiting}]
    /\ faults \in Nat

Init ==
    /\ inserted = 0
    /\ published = {}
    /\ old = {}
    /\ deleted = {}
    /\ attempts = [e \in Event |-> 0]
    /\ delivered = {}
    /\ relay = [r \in Relay |-> Waiting]
    /\ faults = 0

\* Insert.
Insert ==
    /\ inserted < EventCount
    /\ inserted' = inserted + 1
    /\ UNCHANGED <<published, old, deleted, attempts, delivered, relay, faults>>

\* ListUnpublished: the first BatchSize rows by id that are not published.
Unpublished == 1 .. inserted \ published

Batch == {e \in Unpublished : Cardinality({d \in Unpublished : d < e}) < BatchSize}

\* A poll that finds rows takes them with the attempts they have now.
Poll(r) ==
    /\ relay[r] = Waiting
    /\ Batch # {}
    /\ relay' = [relay EXCEPT ![r].pc = "next", ![r].todo = {<<e, attempts[e]>> : e \in Batch}]
    /\ UNCHANGED <<inserted, published, old, deleted, attempts, delivered, faults>>

\* The loop goes through the batch in id order; the row in hand stays in todo.
RowInHand(r) == CHOOSE row \in relay[r].todo : \A other \in relay[r].todo : row[1] <= other[1]
Current(r) == RowInHand(r)[1]

Done(r) == relay[r].todo \ {RowInHand(r)}

\* The limit is checked against the attempts read by the poll.  Mutant: no
\* event is given up.
Exhausted_Never(row) == FALSE

Exhausted(row) == row[2] >= MaxAttempts

\* A dead letter is skipped; its row stays as it is.
SkipDead(r) ==
    /\ relay[r].pc = "next" /\ relay[r].todo # {}
    /\ Exhausted(RowInHand(r))
    /\ relay' = [relay EXCEPT ![r].todo = Done(r)]
    /\ UNCHANGED <<inserted, published, old, deleted, attempts, delivered, faults>>

\* publishOne: the stream takes the event and acknowledges it; or it takes it
\* and the answer is lost; or it does not.
Publish(r) ==
    LET e == Current(r)
    IN /\ relay[r].pc = "next" /\ relay[r].todo # {}
       /\ ~ Exhausted(RowInHand(r))
       /\ \/ /\ e \notin Poison
             /\ delivered' = delivered \union {e}
             /\ relay' = [relay EXCEPT ![r].pc = "mark"]
             /\ UNCHANGED faults
          \/ /\ e \in Poison
             /\ relay' = [relay EXCEPT ![r].pc = "count"]
             /\ UNCHANGED <<delivered, faults>>
          \/ /\ e \notin Poison /\ faults < MaxFaults
             /\ faults' = faults + 1
             /\ delivered' \in {delivered, delivered \union {e}}
             /\ relay' = [relay EXCEPT ![r].pc = "count"]
       /\ UNCHANGED <<inserted, published, old, deleted, attempts>>

\* MarkPublished sets published_at to now, also on a row another relay has
\* marked before; when it fails the row is published again by a later poll.
MarkPublished(r) ==
    /\ relay[r].pc = "mark"
    /\ \/ /\ published' = published \union {Current(r)}
          /\ old' = old \ ({Current(r)} \ deleted)
          /\ UNCHANGED faults
       \/ faults < MaxFaults /\ faults' = faults + 1 /\ UNCHANGED <<published, old>>
    /\ relay' = [relay EXCEPT ![r].pc = "next", ![r].todo = Done(r)]
    /\ UNCHANGED <<inserted, deleted, attempts, delivered>>

\* Mutant: a failed publish is marked like a good one.
IncrementAttempts_Marks(r) ==
    /\ relay[r].pc = "count"
    /\ published' = published \union {Current(r)}
    /\ relay' = [relay EXCEPT ![r].pc = "next", ![r].todo = Done(r)]
    /\ UNCHANGED <<inserted, old, deleted, attempts, delivered, faults>>

\* IncrementAttempts: attempts + 1 in SQL; its error is ignored.
IncrementAttempts(r) ==
    /\ relay[r].pc = "count"
    /\ \/ /\ Current(r) \notin deleted
          /\ attempts' = [attempts EXCEPT ![Current(r)] = @ + 1]
          /\ UNCHANGED faults
       \/ faults < MaxFaults /\ faults' = faults + 1 /\ UNCHANGED attempts
       \/ Current(r) \in deleted /\ UNCHANGED <<attempts, faults>>
    /\ relay' = [relay EXCEPT ![r].pc = "next", ![r].todo = Done(r)]
    /\ UNCHANGED <<inserted, published, old, deleted, delivered>>

EndPoll(r) ==
    /\ relay[r].pc = "next" /\ relay[r].todo = {}
    /\ relay' = [relay EXCEPT ![r] = Waiting]
    /\ UNCHANGED <<inserted, published, old, deleted, attempts, delivered, faults>>

\* A pod dies in the middle of a poll and comes back.
Restart(r) ==
    /\ relay[r] # Waiting
    /\ faults < MaxFaults
    /\ faults' = faults + 1
    /\ relay' = [relay EXCEPT ![r] = Waiting]
    /\ UNCHANGED <<inserted, published, old, deleted, attempts, delivered>>

TurnsOld(e) ==
    /\ e \in published \ old
    /\ old' = old \union {e}
    /\ UNCHANGED <<inserted, published, deleted, attempts, delivered, relay, faults>>

\* Mutant: cleanup does not ask whether a row was published.
Cleanup_NoFilter(r) ==
    /\ relay[r] = Waiting
    /\ inserted > 0
    /\ deleted' = 1 .. inserted
    /\ UNCHANGED <<inserted, published, old, attempts, delivered, relay, faults>>

\* cleanup: DeletePublishedBefore, by the loop that also polls.
Cleanup(r) ==
    /\ relay[r] = Waiting
    /\ old \ deleted # {}
    /\ deleted' = old
    /\ UNCHANGED <<inserted, published, old, attempts, delivered, relay, faults>>

RelayStep(r) ==
    \/ Poll(r) \/ SkipDead(r) \/ Publish(r) \/ MarkPublished(r)
    \/ IncrementAttempts(r) \/ EndPoll(r)

Next ==
    \/ Insert
    \/ \E r \in Relay : RelayStep(r) \/ Cleanup(r) \/ Restart(r)
    \/ \E e \in Event : TurnsOld(e)

Spec == Init /\ [][Next]_vars

\* The poll ticker fires every two seconds in every pod.
FairSpec == Spec /\ \A r \in Relay : WF_vars(RelayStep(r))

-----------------------------------------------------------------------------
(* Properties *)

\* No event is lost: a row is marked, and later deleted, only after the stream
\* took its event, however relays overlap, fail and restart.
MarkedIsDelivered == published \subseteq delivered

\* The invariant behind it: a relay between a publish and its mark has delivered
\* what it will mark; and only marked rows are ever deleted.
MarksWhatItSent == \A r \in Relay : relay[r].pc = "mark" => Current(r) \in delivered

\* Relays count from attempts they read earlier, so together they may go over
\* the limit, but by less than one attempt each.
InHand(e) ==
    {r \in Relay : \E row \in relay[r].todo : row[1] = e /\ ~ Exhausted(row)}

AttemptsBounded ==
    \A e \in Event :
        \/ attempts[e] < MaxAttempts
        \/ attempts[e] + Cardinality(InHand(e)) <= MaxAttempts + Cardinality(Relay) - 1

\* What a relay run may rely on, with both.
OutboxInv ==
    /\ OutboxTypeOK
    /\ MarksWhatItSent
    /\ MarkedIsDelivered
    /\ AttemptsBounded

\* Every event the stream would take is delivered, or was tried as often as the
\* relay tries ("events exceeding this are skipped (dead letter)").
EventsAreSettled ==
    \A e \in Event : e <= inserted ~> e \in delivered \/ attempts[e] >= MaxAttempts
=============================================================================
