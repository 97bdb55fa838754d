----------------------------- MODULE RateLimiter -----------------------------
(***************************************************************************)
(* The sliding window of Limiter.allow for one key (a client address or an *)
(* account): a Redis sorted set of the times of its requests, trimmed,     *)
(* counted and added to by one pipeline.  A pipeline is no transaction:    *)
(* the commands of requests at the same time interleave.                   *)
(*                                                                         *)
(* The clock, that of all pods, does not move while a pipeline runs, which *)
(* takes far less than the window of a minute; two requests never have the *)
(* same nanosecond.  The key's own TTL is longer than the window.          *)
(***************************************************************************)
EXTENDS Integers, FiniteSets

CONSTANTS
    Limit,   \* Config.IPLimit or UserLimit
    Window,  \* Config.Window
    Client,  \* requests being served
    MaxSeconds, \* bound of the model: the clock
    MaxTries \* bound of the model: requests at one time

ASSUME LimiterAssumption ==
    /\ Limit \in Nat /\ Window \in Nat \ {0} /\ MaxSeconds \in Nat /\ MaxTries \in Nat
    /\ IsFiniteSet(Client) /\ Client # {}

VARIABLES
    second,  \* time.Now
    hits,    \* time -> members of the sorted set with that score
    client,  \* Client -> the command its pipeline is at, and what ZCARD said
    tried,   \* time -> requests that came
    admitted \* time -> requests that were let through with Redis up

limiterVars == <<second, hits, client, tried, admitted>>

Second == 0 .. MaxSeconds
FreeClient == [pc |-> "free", count |-> 0]

LimiterTypeOK ==
    /\ second \in Second
    /\ hits \in [Second -> 0 .. MaxTries] /\ tried \in [Second -> 0 .. MaxTries]
    /\ admitted \in [Second -> 0 .. MaxTries]
    /\ client \in [Client -> [pc : {"free", "trim", "count", "add", "limited"},
                              count : Nat]]

LimiterInit ==
    /\ second = 0
    /\ hits = [t \in Second |-> 0] /\ tried = [t \in Second |-> 0]
    /\ admitted = [t \in Second |-> 0]
    /\ client = [q \in Client |-> FreeClient]

\* How many of f, up to MaxTries at a time, lie at the times from .. to.
Members(f, from, to) ==
    {m \in Second \X (1 .. MaxTries) : m[1] \in from .. to /\ m[2] <= f[m[1]]}

Between(f, from, to) == Cardinality(Members(f, from, to))

\* PerIP or PerUser: a request without an account is not limited per user, and
\* none is when Redis is not configured.
Arrive(q) ==
    /\ client[q].pc = "free" /\ tried[second] < MaxTries
    /\ tried' = [tried EXCEPT ![second] = @ + 1]
    /\ client' = [client EXCEPT ![q].pc = "trim"]
    /\ UNCHANGED <<second, hits, admitted>>

\* Mutant: the bound is in seconds, the scores are in nanoseconds.
TrimWindow_Seconds(q) ==
    /\ client[q].pc = "trim"
    /\ client' = [client EXCEPT ![q].pc = "count"]
    /\ UNCHANGED <<second, hits, tried, admitted>>

\* ZREMRANGEBYSCORE up to and including now - window.
TrimWindow(q) ==
    /\ client[q].pc = "trim"
    /\ hits' = [t \in Second |-> IF t <= second - Window THEN 0 ELSE hits[t]]
    /\ client' = [client EXCEPT ![q].pc = "count"]
    /\ UNCHANGED <<second, tried, admitted>>

\* ZCARD.
CountWindow(q) ==
    /\ client[q].pc = "count"
    /\ client' = [client EXCEPT ![q] = [pc |-> "add", count |-> Between(hits, 0, MaxSeconds)]]
    /\ UNCHANGED <<second, hits, tried, admitted>>

\* ZADD, of a request that is refused too; then the count decides.
AddHit(q) ==
    /\ client[q].pc = "add"
    /\ hits' = [hits EXCEPT ![second] = @ + 1]
    /\ IF client[q].count < Limit
       THEN /\ admitted' = [admitted EXCEPT ![second] = @ + 1]
            /\ client' = [client EXCEPT ![q] = FreeClient]
       ELSE client' = [client EXCEPT ![q].pc = "limited"] /\ UNCHANGED admitted
    /\ UNCHANGED <<second, tried>>

\* 429.
Refuse(q) ==
    /\ client[q].pc = "limited"
    /\ client' = [client EXCEPT ![q] = FreeClient]
    /\ UNCHANGED <<second, hits, tried, admitted>>

\* Redis fails in the pipeline: the request is let through.
FailOpen(q) ==
    /\ client[q].pc \in {"trim", "count", "add"}
    /\ client' = [client EXCEPT ![q] = FreeClient]
    /\ UNCHANGED <<second, hits, tried, admitted>>

PassSecond ==
    /\ second < MaxSeconds
    /\ \A q \in Client : client[q].pc = "free"
    /\ second' = second + 1
    /\ UNCHANGED <<hits, client, tried, admitted>>

LimiterNext ==
    \/ \E q \in Client :
        \/ Arrive(q) \/ TrimWindow(q) \/ CountWindow(q) \/ AddHit(q) \/ Refuse(q) \/ FailOpen(q)
    \/ PassSecond

LimiterSpec == LimiterInit /\ [][LimiterNext]_limiterVars

-----------------------------------------------------------------------------
(* Properties *)

\* In any window at most Limit requests are let through, and one more for every
\* other request that may be at the same command at the same time, however the
\* pipelines interleave; and one is refused only after Limit others in its
\* window, the refused ones included: who keeps quiet for a window gets in.
LimitHolds ==
    /\ LimiterTypeOK
    /\ \A t \in Second : Between(admitted, t - Window + 1, t) <= Limit + Cardinality(Client) - 1
    /\ \A q \in Client : client[q].pc = "limited" =>
            Between(tried, second - Window + 1, second) > Limit
=============================================================================
