----------------------------- MODULE TokenKeys -----------------------------
(***************************************************************************)
(* How a request is authenticated: JWTMiddleware, the Validator and the    *)
(* JWKSCache, whose refreshes golang.org/x/sync/singleflight shares.       *)
(*                                                                         *)
(* Zitadel publishes one set of keys after another (external).  The cache  *)
(* and the answers on their way to it are represented by the number of the *)
(* set they hold, a key by its kid, a token by what is checked of it:      *)
(* cryptography is taken at its word.  Time is a clock, because the cache  *)
(* is trusted for TTL and an HTTP call ends within Timeout.                *)
(***************************************************************************)
EXTENDS Integers, FiniteSets

CONSTANTS
    Kid,
    Published,  \* number of a key set -> the kids in it
    TTL,        \* JWKSCache.ttl
    Timeout,    \* defaultHTTPTimeout
    Call,       \* what requests bring: a token, and the kind of route
    Caller,     \* requests being served
    Secret, Issuer, SessionIssuer,
    NoCall, NoCaller,
    MaxTime, MaxKeyFaults \* bounds of the model: the clock, failing refreshes

Version == DOMAIN Published

ASSUME KeysAssumption ==
    /\ IsFiniteSet(Version) /\ 0 \in Version /\ Version = 0 .. Cardinality(Version) - 1
    /\ Published \in [Version -> SUBSET Kid]
    /\ TTL \in Nat /\ Timeout \in Nat /\ MaxTime \in Nat /\ MaxKeyFaults \in Nat
    /\ Call \subseteq [key : Kid \union {Secret}, iss : {Issuer, SessionIssuer},
                       aud : BOOLEAN, exp : 0 .. MaxTime, role : BOOLEAN, admin : BOOLEAN]
    /\ NoCall \notin Call /\ NoCaller \notin Caller

VARIABLES
    clock,
    version,    \* the key set Zitadel publishes
    since,      \* Version -> when it was published
    cacheOf,    \* JWKSCache.keys as the version they came from, -1 for none
    fetchedAt,  \* JWKSCache.fetchedAt
    flight,     \* Caller -> the refresh it leads
    caller,     \* Caller -> the request it is at
    keyFaults   \* failures so far

keysVars == <<clock, version, since, cacheOf, fetchedAt, flight, caller, keyFaults>>

Time == 0 .. MaxTime
NoFlight == [at |-> "none", start |-> 0, doc |-> -1]
FreeCaller == [pc |-> "free", call |-> NoCall, at |-> 0, of |-> NoCaller, seen |-> -1]

KeysTypeOK ==
    /\ clock \in Time /\ version \in Version /\ since \in [Version -> Time]
    /\ cacheOf \in Version \union {-1} /\ fetchedAt \in Time \union {-TTL}
    /\ flight \in [Caller -> [at : {"none", "sent", "answered"}, start : Time,
                              doc : Version \union {-1}]]
    /\ caller \in [Caller -> [pc : {"free", "cached", "join", "wait", "reread", "lookup",
                                    "session", "unknown"},
                              call : Call \union {NoCall}, at : Time,
                              of : Caller \union {NoCaller}, seen : Version \union {-1}]]
    /\ keyFaults \in 0 .. MaxKeyFaults

KeysInit ==
    /\ clock = 0 /\ version = 0 /\ since = [v \in Version |-> 0]
    /\ cacheOf = -1 /\ fetchedAt = -TTL
    /\ flight = [q \in Caller |-> NoFlight]
    /\ caller = [q \in Caller |-> FreeCaller]
    /\ keyFaults = 0

\* The client ends a call at its timeout: no flight is older than that.
Tick ==
    /\ clock < MaxTime
    /\ \A q \in Caller : flight[q].at # "none" => clock - flight[q].start < Timeout
    /\ clock' = clock + 1
    /\ UNCHANGED <<version, since, cacheOf, fetchedAt, flight, caller, keyFaults>>

RotateKeys ==
    /\ version + 1 \in Version
    /\ version' = version + 1
    /\ since' = [since EXCEPT ![version + 1] = clock]
    /\ UNCHANGED <<clock, cacheOf, fetchedAt, flight, caller, keyFaults>>

-----------------------------------------------------------------------------
(* What is checked of a token *)

\* ValidateSessionToken: signed with the secret of this service.
SessionHolds(t) == t.key = Secret /\ t.iss = SessionIssuer /\ clock <= t.exp

\* validateStandardClaims: exp is there and not over, iss and aud are ours.
ClaimsHold(t) == t.exp # 0 /\ clock <= t.exp /\ t.iss = Issuer /\ t.aud

\* The keys of a version, none before the first refresh.
KeysOf(v) == IF v = -1 THEN {} ELSE Published[v]

\* The kid of the token names a key of that version and it verifies the signature.
SignatureHolds(t, v) == t.key \in KeysOf(v)

\* A request comes in.  Auth tries the session first, AdminAuth does not; then
\* Validate checks the claims before it asks for the key.
Authenticate(q, c) ==
    /\ caller[q].pc = "free"
    /\ LET session == ~c.admin /\ SessionHolds(c)
       IN /\ session \/ ClaimsHold(c)
          /\ caller' = [caller EXCEPT ![q] = [FreeCaller EXCEPT !.call = c, !.at = clock,
                            !.pc = IF session THEN "session" ELSE "cached"]]
    /\ UNCHANGED <<clock, version, since, cacheOf, fetchedAt, flight, keyFaults>>

\* Caller q has verified its token with the set cacheOf, or found no key in it.
\* On an admin route HasAdminRole decides, a refused request is over.
Verified(q) ==
    LET c == caller[q]
    IN IF c.call.admin /\ ~c.call.role THEN FreeCaller
       ELSE [c EXCEPT !.pc = "lookup", !.seen = cacheOf]

Unverified(q) == [caller[q] EXCEPT !.pc = "unknown", !.seen = cacheOf]

\* Mutant: what is cached never gets old.
ReadCache_Forever(q) ==
    /\ caller[q].pc = "cached"
    /\ caller' = [caller EXCEPT ![q] =
            IF SignatureHolds(@.call, cacheOf) THEN Verified(q) ELSE [@ EXCEPT !.pc = "join"]]
    /\ UNCHANGED <<clock, version, since, cacheOf, fetchedAt, flight, keyFaults>>

\* The fast path of GetKey.
ReadCache(q) ==
    /\ caller[q].pc = "cached"
    /\ caller' = [caller EXCEPT ![q] =
            IF clock - fetchedAt < TTL /\ SignatureHolds(@.call, cacheOf)
            THEN Verified(q) ELSE [@ EXCEPT !.pc = "join"]]
    /\ UNCHANGED <<clock, version, since, cacheOf, fetchedAt, flight, keyFaults>>

-----------------------------------------------------------------------------
(* The shared refresh *)

Open == {l \in Caller : flight[l].at # "none"}

\* Mutant: every caller refreshes on its own.
JoinRefresh_Alone(q) ==
    /\ caller[q].pc = "join"
    /\ flight' = [flight EXCEPT ![q] = [at |-> "sent", start |-> clock, doc |-> -1]]
    /\ caller' = [caller EXCEPT ![q].pc = "wait", ![q].of = q]
    /\ UNCHANGED <<clock, version, since, cacheOf, fetchedAt, keyFaults>>

\* sfGroup.Do: join the call that is under way, or make it.
JoinRefresh(q) ==
    /\ caller[q].pc = "join"
    /\ \/ /\ Open = {}
          /\ flight' = [flight EXCEPT ![q] = [at |-> "sent", start |-> clock, doc |-> -1]]
          /\ caller' = [caller EXCEPT ![q].pc = "wait", ![q].of = q]
       \/ /\ \E l \in Open : caller' = [caller EXCEPT ![q].pc = "wait", ![q].of = l]
          /\ UNCHANGED flight
    /\ UNCHANGED <<clock, version, since, cacheOf, fetchedAt, keyFaults>>

\* Zitadel answers with the keys of the moment.
AnswerKeys(l) ==
    /\ flight[l].at = "sent"
    /\ flight' = [flight EXCEPT ![l].at = "answered", ![l].doc = version]
    /\ UNCHANGED <<clock, version, since, cacheOf, fetchedAt, caller, keyFaults>>

\* All who wait on the refresh that l leads go on, or share its error.
Release(l, failed) ==
    /\ flight' = [flight EXCEPT ![l] = NoFlight]
    /\ caller' = [q \in Caller |->
        IF caller[q].of # l THEN caller[q]
        ELSE IF failed THEN FreeCaller
        ELSE [caller[q] EXCEPT !.pc = "reread", !.of = NoCaller]]

\* refresh replaces the whole map.
StoreKeys(l) ==
    /\ flight[l].at = "answered"
    /\ cacheOf' = flight[l].doc /\ fetchedAt' = clock
    /\ Release(l, FALSE)
    /\ UNCHANGED <<clock, version, since, keyFaults>>

\* The endpoint fails, or the context of the leader ends: all share the error.
RefreshFails(l) ==
    /\ flight[l].at # "none" /\ keyFaults < MaxKeyFaults
    /\ keyFaults' = keyFaults + 1
    /\ Release(l, TRUE)
    /\ UNCHANGED <<clock, version, since, cacheOf, fetchedAt>>

\* After the refresh the map is read again, whatever its age by now.
ReadAgain(q) ==
    /\ caller[q].pc = "reread"
    /\ caller' = [caller EXCEPT ![q] =
            IF SignatureHolds(@.call, cacheOf) THEN Verified(q) ELSE Unverified(q)]
    /\ UNCHANGED <<clock, version, since, cacheOf, fetchedAt, flight, keyFaults>>

\* The request is let in, or refused, when the AccountLookup after a verified
\* token (UpsertByZitadelSub, see Accounts) fails or the key was not found.
Reply(q) ==
    /\ caller[q].pc \in {"lookup", "session", "unknown"}
    /\ caller' = [caller EXCEPT ![q] = FreeCaller]
    /\ UNCHANGED <<clock, version, since, cacheOf, fetchedAt, flight, keyFaults>>

KeysNext ==
    \/ Tick \/ RotateKeys
    \/ \E q \in Caller :
        \/ \E c \in Call : Authenticate(q, c)
        \/ ReadCache(q) \/ JoinRefresh(q) \/ AnswerKeys(q) \/ StoreKeys(q) \/ RefreshFails(q)
        \/ ReadAgain(q) \/ Reply(q)

KeysSpec == KeysInit /\ [][KeysNext]_keysVars

-----------------------------------------------------------------------------
(* Properties *)

\* Version v was published at some moment not before t.
PublishedSince(v, t) == v = version \/ since[v + 1] >= t

\* A token goes through only with the key that signed it in a set that was
\* published within TTL and Timeout before the request, not expired when it came
\* in, and with the role where the route asks for it.  One whose key is not
\* found was judged by a set that is hardly older than the request, although it
\* may have waited on a refresh somebody else had begun.
TokensAreJudged ==
    /\ KeysTypeOK
    /\ \A q \in Caller :
        LET r == caller[q]
        IN /\ r.pc = "lookup" =>
                /\ SignatureHolds(r.call, r.seen) /\ PublishedSince(r.seen, r.at - TTL - Timeout)
                /\ r.call.iss = Issuer /\ r.at <= r.call.exp
                /\ r.call.admin => r.call.role
           /\ r.pc = "session" => r.call.key = Secret /\ r.at <= r.call.exp /\ ~r.call.admin
           /\ r.pc = "unknown" =>
                ~SignatureHolds(r.call, r.seen) /\ PublishedSince(r.seen, r.at - Timeout)

\* No refresh puts back keys that a later one had replaced: refreshes do not
\* overlap, though any request may start one.
KeysNeverGoBack == [][cacheOf' >= cacheOf]_keysVars
=============================================================================
