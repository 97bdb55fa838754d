--------------------------- MODULE ServicesProofs ---------------------------
(***************************************************************************)
(* Proofs about the components beside the money: the invoices of an order  *)
(* and the shared refresh of the key set with the tokens judged by it, the *)
(* VIP level and the overview, organizations and their keys, the outbox,   *)
(* whose relays of several pods count the attempts at an event together,   *)
(* the expiry reminders, where every mail too many is counted against a    *)
(* failure, the rate limiter, where every request too many is one of those *)
(* at work together, and signing in, by name or by a scanned code.         *)
(***************************************************************************)
EXTENDS AccountViews, Invoices, TokenKeys, Organizations, OutboxRelay, RateLimiter,
        Reminders, SignIn, FiniteSetTheorems, WellFoundedInduction, TLAPS

-----------------------------------------------------------------------------
(* Numbers *)

LEMMA LeastNat ==
    ASSUME NEW S \in SUBSET Nat, S # {}
    PROVE  \E m \in S : \A k \in S : m <= k
<1>1. PICK m \in S : \A k \in S : ~ (<<k, m>> \in OpToRel(<, Nat))
  BY WFMin, NatLessThanWellFounded
<1>2. \A k \in S : ~ (k < m)
  BY <1>1 DEF OpToRel
<1> QED
  BY <1>2

-----------------------------------------------------------------------------
(* Invoices *)

\* A request that is about to insert has read its order as the caller's and
\* paid; it inserts only what it has read.
InsertsWhatItRead ==
    \A q \in Biller :
        LET r == biller[q]
        IN /\ r.pc # "free" => r.account \in Customer /\ r.order \in Billed
           /\ r.pc = "insert" => r.order \in paid /\ r.account = Buyer[r.order]

InvoicesIInv == InvoicesInv /\ InsertsWhatItRead

LEMMA InvoicesInitially == InvoicesInit => InvoicesIInv
BY InvoicesAssumption
DEF InvoicesInit, InvoicesIInv, InvoicesInv, InvoicesTypeOK, InsertsWhatItRead, FreeBiller

LEMMA InvoicesStep == InvoicesIInv /\ [InvoicesNext]_invoicesVars => InvoicesIInv'
<1> SUFFICES ASSUME InvoicesInv, InsertsWhatItRead, [InvoicesNext]_invoicesVars
             PROVE  InvoicesInv' /\ InsertsWhatItRead'
  BY DEF InvoicesIInv
<1> USE InvoicesAssumption DEF InvoicesInv, InvoicesTypeOK, InsertsWhatItRead
<1>1. ASSUME NEW o \in Billed, PayOrder(o)
      PROVE  InvoicesInv' /\ InsertsWhatItRead'
  BY <1>1 DEF PayOrder
<1>2. ASSUME NEW q \in Biller, NEW a \in Customer, NEW o \in Billed, Generate(q, a, o)
      PROVE  InvoicesInv' /\ InsertsWhatItRead'
  BY <1>2 DEF Generate
<1>3. ASSUME NEW q \in Biller, ReadBilledOrder(q)
      PROVE  InvoicesInv' /\ InsertsWhatItRead'
  BY <1>3 DEF ReadBilledOrder, FreeBiller
<1>4. ASSUME NEW q \in Biller, BillingFails(q)
      PROVE  InvoicesInv' /\ InsertsWhatItRead'
  BY <1>4 DEF BillingFails, FreeBiller
<1>5. ASSUME NEW q \in Biller, NEW n \in InvoiceNo, InsertInvoice(q, n)
      PROVE  InvoicesInv' /\ InsertsWhatItRead'
  <2> DEFINE new == [order |-> biller[q].order, account |-> biller[q].account, no |-> n]
  <2>1. /\ new \in Row /\ new.order = biller[q].order /\ new.no = n
        /\ new.order \in paid /\ new.account = Buyer[new.order]
    BY <1>5 DEF InsertInvoice, Row
  <2>2. /\ biller' = [biller EXCEPT ![q] = FreeBiller] /\ paid' = paid
        /\ \/ /\ \A i \in invoices : i.order # new.order /\ i.no # new.no
              /\ invoices' = invoices \union {new} /\ handed' = handed \union {new}
           \/ UNCHANGED <<invoices, handed>>
    BY <1>5 DEF InsertInvoice
  <2> HIDE DEF new
  <2>3. InvoicesInv'
    BY <2>1, <2>2 DEF FreeBiller
  <2>4. InsertsWhatItRead'
    BY <2>2 DEF FreeBiller
  <2> QED
    BY <2>3, <2>4
<1>6. CASE UNCHANGED invoicesVars
  BY <1>6 DEF invoicesVars
<1> QED
  BY <1>1, <1>2, <1>3, <1>4, <1>5, <1>6 DEF InvoicesNext

\* "Generate creates an invoice for a paid order. Idempotent": an order has at
\* most one invoice, made out to its buyer once it is paid, and whoever asks is
\* handed that one, for any number of requests at once.
THEOREM InvoicesCorrect == InvoicesSpec => []InvoicesInv
<1>1. InvoicesIInv => InvoicesInv
  BY DEF InvoicesIInv
<1> QED
  BY <1>1, InvoicesInitially, InvoicesStep, PTL DEF InvoicesSpec

-----------------------------------------------------------------------------
(* The shared refresh *)

\* One refresh is under way at a time, and its answer is not older than what
\* the cache holds, nor newer than what Zitadel publishes.
RefreshType ==
    /\ version \in Version
    /\ cacheOf \in Version \union {-1}
    /\ flight \in [Caller -> [at : {"none", "sent", "answered"}, start : Int,
                              doc : Version \union {-1}]]
    /\ clock \in Int

RefreshAhead ==
    /\ cacheOf <= version
    /\ \A l, m \in Caller : flight[l].at # "none" /\ flight[m].at # "none" => l = m
    /\ \A l \in Caller : flight[l].at = "answered" => cacheOf <= flight[l].doc
    /\ \A l \in Caller : flight[l].doc <= version

LEMMA VersionsAreInts == Version \subseteq Int
BY KeysAssumption, FS_CardinalityType

LEMMA RefreshTypeStep == RefreshType /\ [KeysNext]_keysVars => RefreshType'
<1> SUFFICES ASSUME RefreshType, [KeysNext]_keysVars
             PROVE  RefreshType'
  OBVIOUS
<1> USE DEF RefreshType
<1>1. CASE Tick \/ RotateKeys \/ UNCHANGED keysVars
  BY <1>1 DEF Tick, RotateKeys, keysVars
<1>2. ASSUME NEW q \in Caller,
             \/ \E c \in Call : Authenticate(q, c)
             \/ ReadCache(q) \/ ReadAgain(q) \/ Reply(q)
      PROVE  RefreshType'
  BY <1>2 DEF Authenticate, ReadCache, ReadAgain, Reply
<1>3. ASSUME NEW q \in Caller, JoinRefresh(q) \/ AnswerKeys(q)
      PROVE  RefreshType'
  BY <1>3 DEF JoinRefresh, AnswerKeys
<1>4. ASSUME NEW l \in Caller, StoreKeys(l) \/ RefreshFails(l)
      PROVE  RefreshType'
  <2>1. /\ flight' = [flight EXCEPT ![l] = NoFlight] /\ UNCHANGED <<version, clock>>
        /\ cacheOf' \in {cacheOf, flight[l].doc}
    BY <1>4 DEF StoreKeys, RefreshFails, Release
  <2> HIDE <1>4
  <2> QED
    BY <2>1 DEF NoFlight
<1> QED
  BY <1>1, <1>2, <1>3, <1>4 DEF KeysNext

LEMMA RefreshStep ==
    RefreshType /\ RefreshAhead /\ [KeysNext]_keysVars => RefreshAhead' /\ cacheOf' >= cacheOf
<1> SUFFICES ASSUME RefreshType, RefreshAhead, [KeysNext]_keysVars
             PROVE  RefreshAhead' /\ cacheOf' >= cacheOf
  OBVIOUS
<1>1. /\ cacheOf \in Int /\ version \in Int
      /\ \A l \in Caller : flight[l].doc \in Int
  <2>1. \A v \in Version \union {-1} : v \in Int
    BY VersionsAreInts
  <2>2. \A l \in Caller : flight[l].doc \in Version \union {-1}
    BY DEF RefreshType
  <2> QED
    BY <2>1, <2>2 DEF RefreshType
<1>2. CASE UNCHANGED <<cacheOf, version, flight>>
  BY <1>1, <1>2 DEF RefreshAhead
<1>3. CASE RotateKeys
  BY <1>1, <1>3 DEF RotateKeys, RefreshAhead
<1>4. ASSUME NEW q \in Caller, JoinRefresh(q), flight' # flight
      PROVE  RefreshAhead' /\ cacheOf' >= cacheOf
  <2>1. /\ flight' = [flight EXCEPT ![q] = [at |-> "sent", start |-> clock, doc |-> -1]]
        /\ \A l \in Caller : flight[l].at = "none"
        /\ UNCHANGED <<cacheOf, version>>
    BY <1>4 DEF JoinRefresh, Open
  <2>2. /\ flight'[q].at = "sent" /\ flight'[q].doc = -1
        /\ \A l \in Caller \ {q} : flight'[l] = flight[l]
    BY <2>1 DEF RefreshType
  <2>3. version \in Nat
    BY KeysAssumption, FS_CardinalityType DEF RefreshType
  <2> QED
    BY <1>1, <2>1, <2>2, <2>3 DEF RefreshAhead
<1>5. ASSUME NEW l \in Caller, AnswerKeys(l)
      PROVE  RefreshAhead' /\ cacheOf' >= cacheOf
  <2>1. /\ flight[l].at = "sent" /\ UNCHANGED <<cacheOf, version>>
        /\ flight'[l].at = "answered" /\ flight'[l].doc = version
        /\ \A m \in Caller \ {l} : flight'[m] = flight[m]
    BY <1>5 DEF AnswerKeys, RefreshType
  <2> QED
    BY <1>1, <2>1 DEF RefreshAhead
<1>6. ASSUME NEW l \in Caller, StoreKeys(l) \/ RefreshFails(l)
      PROVE  RefreshAhead' /\ cacheOf' >= cacheOf
  <2>1. /\ flight[l].at # "none" /\ version' = version
        /\ \/ cacheOf' = cacheOf
           \/ flight[l].at = "answered" /\ cacheOf' = flight[l].doc
        /\ flight' = [flight EXCEPT ![l] = NoFlight]
    <3>1. CASE StoreKeys(l)
      BY <3>1 DEF StoreKeys, Release
    <3>2. CASE RefreshFails(l)
      BY <3>2 DEF RefreshFails, Release
    <3> QED
      BY <1>6, <3>1, <3>2
  <2>2. /\ flight'[l].at = "none" /\ flight'[l].doc = -1
        /\ \A m \in Caller \ {l} : flight'[m] = flight[m]
    BY <2>1 DEF NoFlight, RefreshType
  <2>3. version \in Nat
    BY KeysAssumption, FS_CardinalityType DEF RefreshType
  <2>4. cacheOf' \in Int /\ cacheOf' >= cacheOf /\ cacheOf' <= version
    BY <1>1, <2>1 DEF RefreshAhead
  <2>5. \A m \in Caller \ {l} : flight'[m].at = "none"
    BY <2>1, <2>2 DEF RefreshAhead
  <2> QED
    BY <1>1, <2>1, <2>2, <2>3, <2>4, <2>5 DEF RefreshAhead
<1> QED
  BY <1>2, <1>3, <1>4, <1>5, <1>6
  DEF KeysNext, Tick, Authenticate, ReadCache, ReadAgain, Reply, JoinRefresh, keysVars

\* A refresh never puts back a key set that a later one had replaced, however
\* many requests miss the cache at once and however refreshes fail.
THEOREM KeysMoveOn == KeysSpec => KeysNeverGoBack
<1>1. KeysInit => RefreshType /\ RefreshAhead
  BY KeysAssumption DEF KeysInit, RefreshAhead, RefreshType, NoFlight
<1>2. RefreshType /\ RefreshAhead /\ [KeysNext]_keysVars => [cacheOf' >= cacheOf]_keysVars
  BY RefreshStep
<1> QED
  BY <1>1, <1>2, RefreshTypeStep, RefreshStep, PTL DEF KeysSpec, KeysNeverGoBack

-----------------------------------------------------------------------------
(* Tokens: the inductive invariant *)

CallerRec == [pc : {"free", "cached", "join", "wait", "reread", "lookup", "session", "unknown"},
              call : Call \union {NoCall}, at : Time,
              of : Caller \union {NoCaller}, seen : Version \union {-1}]
FlightRec == [at : {"none", "sent", "answered"}, start : Time, doc : Version \union {-1}]

\* Version v was there, and was still published at t.
CurrentAt(v, t) == v \in Version /\ v <= version /\ t <= clock /\ PublishedSince(v, t)

\* What is known of a request: the claims that were checked when it came, and
\* how old the set is that its key was looked up in, or will be.
RequestHolds(c) ==
    /\ c.pc # "free" => c.call \in Call /\ c.at <= clock
    /\ c.of # NoCaller => c.pc = "wait"
    /\ c.pc \in {"cached", "join", "wait", "reread", "lookup"} =>
        c.call.iss = Issuer /\ c.at <= c.call.exp
    /\ c.pc = "reread" => CurrentAt(cacheOf, c.at - Timeout)
    /\ c.pc = "lookup" =>
        /\ SignatureHolds(c.call, c.seen) /\ CurrentAt(c.seen, c.at - TTL - Timeout)
        /\ c.call.admin => c.call.role
    /\ c.pc = "session" => c.call.key = Secret /\ c.at <= c.call.exp /\ ~c.call.admin
    /\ c.pc = "unknown" => ~SignatureHolds(c.call, c.seen) /\ CurrentAt(c.seen, c.at - Timeout)

\* A refresh ends within Timeout, and answers with what was published since it
\* began; so the cache holds what was published within Timeout before it came.
FlightHolds(f) ==
    /\ f.at # "none" => f.start <= clock /\ clock - f.start <= Timeout
    /\ f.at = "answered" => CurrentAt(f.doc, f.start)

TokensIInv ==
    /\ KeysTypeOK
    /\ fetchedAt <= clock
    /\ cacheOf # -1 => CurrentAt(cacheOf, fetchedAt - Timeout)
    /\ \A l \in Caller : FlightHolds(flight[l])
    /\ \A q \in Caller : RequestHolds(caller[q])

-----------------------------------------------------------------------------
(* Tokens: what a step leaves true *)

LEMMA KeyTypes ==
    ASSUME KeysTypeOK
    PROVE  /\ clock \in Int /\ version \in Int /\ version \in Version /\ cacheOf \in Int
           /\ fetchedAt \in Int /\ TTL \in Nat /\ Timeout \in Nat
           /\ flight \in [Caller -> FlightRec] /\ caller \in [Caller -> CallerRec]
           /\ since \in [Version -> Time] /\ Time \subseteq Int
           /\ \A f \in FlightRec : f.start \in Int /\ f.doc \in Int
           /\ \A c \in CallerRec : c.at \in Int /\ c.seen \in Int
           /\ \A c \in Call : c.exp \in Int
<1>1. Time \subseteq Int /\ TTL \in Nat /\ Timeout \in Nat
  BY KeysAssumption DEF Time
<1>2. \A v \in Version \union {-1} : v \in Int
  BY VersionsAreInts
<1>3. clock \in Int /\ version \in Int /\ version \in Version /\ cacheOf \in Int /\ fetchedAt \in Int
  BY <1>1, <1>2 DEF KeysTypeOK
<1>4. /\ flight \in [Caller -> FlightRec] /\ caller \in [Caller -> CallerRec]
      /\ since \in [Version -> Time]
  BY DEF KeysTypeOK, FlightRec, CallerRec
<1>5. /\ \A f \in FlightRec : f.start \in Int /\ f.doc \in Int
      /\ \A c \in CallerRec : c.at \in Int /\ c.seen \in Int
  BY <1>1, <1>2 DEF FlightRec, CallerRec
<1>6. \A c \in Call : c.exp \in Int
  BY <1>1, KeysAssumption DEF Time
<1> QED
  BY <1>1, <1>3, <1>4, <1>5, <1>6

\* Time passes and keys rotate: what was current at t was current at t.
LEMMA StaysCurrent ==
    ASSUME KeysTypeOK, KeysTypeOK', clock <= clock',
           UNCHANGED <<version, since>> \/ (RotateKeys /\ clock' = clock),
           NEW v, NEW t \in Int, CurrentAt(v, t)
    PROVE  CurrentAt(v, t)'
<1>1. /\ clock \in Int /\ clock' \in Int /\ version \in Int /\ v \in Int
      /\ since \in [Version -> Time] /\ Time \subseteq Int
  BY KeyTypes, VersionsAreInts DEF CurrentAt, KeysTypeOK, Time
<1>2. CASE UNCHANGED <<version, since>>
  BY <1>1, <1>2 DEF CurrentAt, PublishedSince
<1>3. CASE RotateKeys /\ clock' = clock
  <2>1. /\ version + 1 \in Version /\ version' = version + 1
        /\ since' = [since EXCEPT ![version + 1] = clock]
    BY <1>3 DEF RotateKeys
  <2>2. v <= version' /\ v # version'
    BY <1>1, <2>1 DEF CurrentAt
  <2>3. CASE v = version
    <3>1. since'[v + 1] = clock
      BY <1>1, <2>1, <2>3
    <3> QED
      BY <1>1, <1>3, <2>1, <2>2, <3>1 DEF CurrentAt, PublishedSince
  <2>4. CASE v # version
    <3>1. since[v + 1] >= t
      BY <2>4 DEF CurrentAt, PublishedSince
    <3>2. v + 1 # version + 1 /\ v + 1 <= version
      BY <1>1, <2>4 DEF CurrentAt
    <3>3. v + 1 \in Version
      <4>1. Version = 0 .. Cardinality(Version) - 1 /\ Cardinality(Version) \in Nat
        BY KeysAssumption, FS_CardinalityType
      <4>2. version \in Version /\ v \in Version
        BY KeyTypes DEF CurrentAt
      <4> QED
        BY <4>1, <4>2, <3>2, <1>1
    <3>4. since'[v + 1] = since[v + 1]
      BY <1>1, <2>1, <3>2, <3>3
    <3> QED
      BY <1>1, <1>3, <2>2, <3>1, <3>4 DEF CurrentAt, PublishedSince
  <2> QED
    BY <2>3, <2>4
<1> QED
  BY <1>2, <1>3

\* A request that stays where it is; the set it is about to be judged by is new
\* or the one that was there.
LEMMA RequestStaysTrue ==
    ASSUME KeysTypeOK, KeysTypeOK', clock <= clock',
           UNCHANGED <<version, since>> \/ (RotateKeys /\ clock' = clock),
           NEW c \in CallerRec, RequestHolds(c),
           c.pc = "reread" => CurrentAt(cacheOf, c.at - Timeout)'
    PROVE  RequestHolds(c)'
<1>1. /\ clock \in Int /\ clock' \in Int /\ c.at \in Int /\ TTL \in Nat /\ Timeout \in Nat
  BY KeyTypes DEF KeysTypeOK, Time
<1>2. c.pc # "free" => c.call \in Call /\ c.at <= clock'
  BY <1>1 DEF RequestHolds
<1>3. c.pc = "lookup" => CurrentAt(c.seen, c.at - TTL - Timeout)'
  BY <1>1, StaysCurrent DEF RequestHolds
<1>4. c.pc = "unknown" => CurrentAt(c.seen, c.at - Timeout)'
  BY <1>1, StaysCurrent DEF RequestHolds
<1> QED
  BY <1>2, <1>3, <1>4 DEF RequestHolds

LEMMA CacheStaysCurrent ==
    ASSUME KeysTypeOK, KeysTypeOK', clock <= clock',
           UNCHANGED <<version, since>> \/ (RotateKeys /\ clock' = clock),
           cacheOf' = cacheOf, NEW t \in Int, CurrentAt(cacheOf, t)
    PROVE  CurrentAt(cacheOf, t)'
<1>1. PICK v : v = cacheOf
  OBVIOUS
<1>2. CurrentAt(v, t)'
  BY <1>1, StaysCurrent
<1> QED
  BY <1>1, <1>2 DEF CurrentAt, PublishedSince

LEMMA FlightStaysTrue ==
    ASSUME KeysTypeOK, KeysTypeOK', clock <= clock',
           UNCHANGED <<version, since>> \/ (RotateKeys /\ clock' = clock),
           NEW f \in FlightRec, FlightHolds(f),
           f.at # "none" => clock' - f.start <= Timeout
    PROVE  FlightHolds(f)'
<1>1. clock \in Int /\ clock' \in Int /\ f.start \in Int
  BY KeyTypes DEF KeysTypeOK, Time
<1>2. f.at = "answered" => CurrentAt(f.doc, f.start)'
  BY <1>1, StaysCurrent DEF FlightHolds
<1> QED
  BY <1>1, <1>2 DEF FlightHolds

\* Steps of one request that leave clock, keys and cache alone.
RequestMoves(q, c) == caller' = [caller EXCEPT ![q] = c]

LEMMA RequestStep ==
    ASSUME TokensIInv, NEW q \in Caller, NEW c \in CallerRec, RequestMoves(q, c),
           UNCHANGED <<clock, version, since, cacheOf, fetchedAt, keyFaults>>,
           RequestHolds(c),
           \A l \in Caller : FlightHolds(flight[l])',
           flight' \in [Caller -> FlightRec]
    PROVE  TokensIInv'
<1>1. KeysTypeOK /\ caller \in [Caller -> CallerRec] /\ clock \in Int
  BY KeyTypes DEF TokensIInv
<1>2. caller' \in [Caller -> CallerRec]
  BY <1>1 DEF RequestMoves
<1>3. KeysTypeOK'
  BY <1>1, <1>2 DEF KeysTypeOK, FlightRec, CallerRec
<1>4. fetchedAt' <= clock'
  BY DEF TokensIInv
<1>5. fetchedAt - Timeout \in Int /\ clock <= clock' /\ Timeout \in Nat
  BY <1>1, KeyTypes
<1>6. cacheOf' # -1 => CurrentAt(cacheOf, fetchedAt - Timeout)'
  BY DEF TokensIInv, CurrentAt, PublishedSince
<1>7. ASSUME NEW p \in Caller
      PROVE  RequestHolds(caller[p])'
  <2>1. PICK d \in CallerRec : d = caller'[p]
    BY <1>2
  <2>2. RequestHolds(d)
    BY <2>1, <1>1 DEF RequestMoves, TokensIInv
  <2>3. RequestHolds(d)'
    BY <2>2 DEF RequestHolds, CurrentAt, PublishedSince, SignatureHolds
  <2> QED
    BY <2>1, <2>3 DEF RequestHolds, CurrentAt, PublishedSince, SignatureHolds
<1> QED
  BY <1>3, <1>4, <1>6, <1>7 DEF TokensIInv

\* A step of a request only, without the refreshes.
LEMMA RequestOnly ==
    ASSUME TokensIInv, NEW q \in Caller, NEW c \in CallerRec, RequestMoves(q, c),
           UNCHANGED <<clock, version, since, cacheOf, fetchedAt, flight, keyFaults>>,
           RequestHolds(c)
    PROVE  TokensIInv'
<1>1. \A l \in Caller : FlightHolds(flight[l])'
  BY DEF TokensIInv, FlightHolds, CurrentAt, PublishedSince
<1>2. flight' \in [Caller -> FlightRec]
  BY KeyTypes DEF TokensIInv
<1> QED
  BY <1>1, <1>2, RequestStep

-----------------------------------------------------------------------------
(* Tokens: every step keeps the invariant *)

LEMMA AuthenticateKeeps ==
    ASSUME TokensIInv, NEW q \in Caller, NEW t \in Call, Authenticate(q, t)
    PROVE  TokensIInv'
<1>1. PICK c : c = [FreeCaller EXCEPT !.call = t, !.at = clock,
                    !.pc = IF ~t.admin /\ SessionHolds(t) THEN "session" ELSE "cached"]
  OBVIOUS
<1>2. c.call = t /\ c.at = clock /\ c.of = NoCaller /\ c.pc = (IF ~t.admin /\ SessionHolds(t) THEN "session" ELSE "cached")
  BY <1>1 DEF FreeCaller
<1>3. c \in CallerRec
  <2>1. clock \in Time
    BY DEF TokensIInv, KeysTypeOK
  <2> QED
    BY <1>1, <2>1 DEF FreeCaller, CallerRec
<1>4. /\ RequestMoves(q, c)
      /\ UNCHANGED <<clock, version, since, cacheOf, fetchedAt, flight, keyFaults>>
      /\ (~t.admin /\ SessionHolds(t)) \/ ClaimsHold(t)
  BY <1>1 DEF Authenticate, RequestMoves
<1>5. clock <= clock
  BY KeyTypes DEF TokensIInv
<1>6. RequestHolds(c)
  BY <1>2, <1>4, <1>5 DEF RequestHolds, SessionHolds, ClaimsHold
<1> QED
  BY <1>3, <1>4, <1>6, RequestOnly

\* A request that had its claims checked and finds its key, or does not, in a set
\* that was current when the time limit began.
LEMMA JudgedHolds ==
    ASSUME TokensIInv, NEW q \in Caller, NEW c \in CallerRec, RequestMoves(q, c),
           UNCHANGED <<clock, version, since, cacheOf, fetchedAt, flight, keyFaults>>,
           caller[q].pc \in {"cached", "reread"},
           \/ /\ SignatureHolds(caller[q].call, cacheOf) /\ c = Verified(q)
              /\ CurrentAt(cacheOf, caller[q].at - TTL - Timeout)
           \/ /\ ~SignatureHolds(caller[q].call, cacheOf) /\ c = Unverified(q)
              /\ CurrentAt(cacheOf, caller[q].at - Timeout)
    PROVE  TokensIInv'
<1>1. PICK n \in CallerRec : n = caller[q]
  BY KeyTypes DEF TokensIInv
<1>2. RequestHolds(n)
  BY <1>1 DEF TokensIInv
<1>3. CASE SignatureHolds(n.call, cacheOf) /\ c = Verified(q) /\ n.call.admin /\ ~n.call.role
  <2>1. c = FreeCaller
    BY <1>1, <1>3 DEF Verified
  <2>2. RequestHolds(c)
    BY <2>1 DEF FreeCaller, RequestHolds
  <2> QED
    BY <2>2, RequestOnly
<1>4. CASE /\ SignatureHolds(n.call, cacheOf) /\ c = Verified(q) /\ ~(n.call.admin /\ ~n.call.role)
           /\ CurrentAt(cacheOf, n.at - TTL - Timeout)
  <2>1. c = [n EXCEPT !.pc = "lookup", !.seen = cacheOf]
    BY <1>1, <1>4 DEF Verified
  <2>2. c.pc = "lookup" /\ c.seen = cacheOf /\ c.call = n.call /\ c.at = n.at /\ c.of = n.of
    BY <2>1 DEF CallerRec
  <2>3. RequestHolds(c)
    BY <1>1, <1>2, <1>4, <2>2 DEF RequestHolds
  <2> QED
    BY <2>3, RequestOnly
<1>5. CASE /\ ~SignatureHolds(n.call, cacheOf) /\ c = Unverified(q)
           /\ CurrentAt(cacheOf, n.at - Timeout)
  <2>1. c = [n EXCEPT !.pc = "unknown", !.seen = cacheOf]
    BY <1>1, <1>5 DEF Unverified
  <2>2. c.pc = "unknown" /\ c.seen = cacheOf /\ c.call = n.call /\ c.at = n.at /\ c.of = n.of
    BY <2>1 DEF CallerRec
  <2>3. RequestHolds(c)
    BY <1>1, <1>2, <1>5, <2>2 DEF RequestHolds
  <2> QED
    BY <2>3, RequestOnly
<1> QED
  BY <1>1, <1>3, <1>4, <1>5

\* What was current at a time was current before it.
LEMMA CurrentBefore ==
    ASSUME KeysTypeOK, NEW v, NEW t \in Int, NEW u \in Int, u <= t, CurrentAt(v, t)
    PROVE  CurrentAt(v, u)
<1>1. clock \in Int
  BY KeyTypes
<1>2. CASE v = version
  BY <1>1, <1>2 DEF CurrentAt, PublishedSince
<1>3. CASE v # version
  <2>1. v + 1 \in Version
    <3>1. Version = 0 .. Cardinality(Version) - 1 /\ Cardinality(Version) \in Nat
      BY KeysAssumption, FS_CardinalityType
    <3>2. version \in Version /\ v \in Version /\ v <= version
      BY KeyTypes DEF CurrentAt
    <3> QED
      BY <1>3, <3>1, <3>2
  <2>2. since[v + 1] \in Int
    BY <2>1, KeyTypes
  <2> QED
    BY <1>1, <1>3, <2>2 DEF CurrentAt, PublishedSince
<1> QED
  BY <1>2, <1>3

LEMMA ReadCacheKeeps ==
    ASSUME TokensIInv, NEW q \in Caller, ReadCache(q)
    PROVE  TokensIInv'
<1>1. PICK n \in CallerRec : n = caller[q]
  BY KeyTypes DEF TokensIInv
<1>2. /\ RequestHolds(n) /\ KeysTypeOK /\ n.pc = "cached"
      /\ UNCHANGED <<clock, version, since, cacheOf, fetchedAt, flight, keyFaults>>
  BY <1>1 DEF TokensIInv, ReadCache
<1>3. /\ clock \in Int /\ fetchedAt \in Int /\ n.at \in Int /\ TTL \in Nat /\ Timeout \in Nat
      /\ cacheOf \in Version \union {-1}
  BY <1>2, KeyTypes DEF KeysTypeOK
<1>4. CASE clock - fetchedAt < TTL /\ SignatureHolds(n.call, cacheOf)
  <2>1. PICK c : c = Verified(q)
    OBVIOUS
  <2>2. RequestMoves(q, c)
    BY <1>1, <1>4, <2>1 DEF ReadCache, RequestMoves
  <2>3. c \in CallerRec
    <3>1. FreeCaller \in CallerRec
      <4>1. 0 \in Time
        BY KeysAssumption DEF Time
      <4> QED
        BY <4>1 DEF FreeCaller, CallerRec
    <3>2. [n EXCEPT !.pc = "lookup", !.seen = cacheOf] \in CallerRec
      BY <1>3 DEF CallerRec
    <3> QED
      BY <1>1, <2>1, <3>1, <3>2 DEF Verified
  <2>4. cacheOf # -1
    BY <1>4 DEF SignatureHolds, KeysOf
  <2>5. CurrentAt(cacheOf, n.at - TTL - Timeout)
    <3>1. CurrentAt(cacheOf, fetchedAt - Timeout)
      BY <2>4 DEF TokensIInv
    <3>2. n.at <= clock
      BY <1>2 DEF RequestHolds
    <3>3. n.at - TTL - Timeout <= fetchedAt - Timeout
      BY <1>3, <1>4, <3>2
    <3>4. n.at - TTL - Timeout \in Int /\ fetchedAt - Timeout \in Int
      BY <1>3
    <3> QED
      BY <1>2, <3>1, <3>3, <3>4, CurrentBefore
  <2> QED
    BY <1>1, <1>2, <1>4, <2>1, <2>2, <2>3, <2>5, JudgedHolds
<1>5. CASE ~(clock - fetchedAt < TTL /\ SignatureHolds(n.call, cacheOf))
  <2>1. PICK c : c = [n EXCEPT !.pc = "join"]
    OBVIOUS
  <2>2. RequestMoves(q, c)
    BY <1>1, <1>5, <2>1 DEF ReadCache, RequestMoves
  <2>3. c \in CallerRec /\ c.pc = "join" /\ c.call = n.call /\ c.at = n.at /\ c.of = n.of
    BY <2>1 DEF CallerRec
  <2>4. RequestHolds(c)
    BY <1>2, <2>3 DEF RequestHolds
  <2> QED
    BY <1>2, <2>2, <2>3, <2>4, RequestOnly
<1> QED
  BY <1>4, <1>5

LEMMA ReadAgainKeeps ==
    ASSUME TokensIInv, NEW q \in Caller, ReadAgain(q)
    PROVE  TokensIInv'
<1>1. PICK n \in CallerRec : n = caller[q]
  BY KeyTypes DEF TokensIInv
<1>2. /\ RequestHolds(n) /\ KeysTypeOK /\ n.pc = "reread"
      /\ UNCHANGED <<clock, version, since, cacheOf, fetchedAt, flight, keyFaults>>
  BY <1>1 DEF TokensIInv, ReadAgain
<1>3. n.at \in Int /\ TTL \in Nat /\ Timeout \in Nat /\ cacheOf \in Version \union {-1}
  BY <1>2, KeyTypes DEF KeysTypeOK
<1>4. CurrentAt(cacheOf, n.at - Timeout)
  BY <1>2 DEF RequestHolds
<1>5. CurrentAt(cacheOf, n.at - TTL - Timeout)
  BY <1>2, <1>3, <1>4, CurrentBefore
<1>6. PICK c : c = IF SignatureHolds(n.call, cacheOf) THEN Verified(q) ELSE Unverified(q)
  OBVIOUS
<1>7. RequestMoves(q, c)
  BY <1>1, <1>6 DEF ReadAgain, RequestMoves
<1>8. c \in CallerRec
  <2>1. FreeCaller \in CallerRec
    <3>1. 0 \in Time
      BY KeysAssumption DEF Time
    <3> QED
      BY <3>1 DEF FreeCaller, CallerRec
  <2>2. /\ [n EXCEPT !.pc = "lookup", !.seen = cacheOf] \in CallerRec
        /\ [n EXCEPT !.pc = "unknown", !.seen = cacheOf] \in CallerRec
    BY <1>3 DEF CallerRec
  <2> QED
    BY <1>1, <1>6, <2>1, <2>2 DEF Verified, Unverified
<1> QED
  BY <1>1, <1>2, <1>4, <1>5, <1>6, <1>7, <1>8, JudgedHolds

LEMMA ReplyKeeps ==
    ASSUME TokensIInv, NEW q \in Caller, Reply(q)
    PROVE  TokensIInv'
<1>1. FreeCaller \in CallerRec
  <2>1. 0 \in Time
    BY KeysAssumption DEF Time
  <2> QED
    BY <2>1 DEF FreeCaller, CallerRec
<1>2. RequestHolds(FreeCaller)
  BY DEF FreeCaller, RequestHolds
<1> QED
  BY <1>1, <1>2, RequestOnly DEF Reply, RequestMoves

\* A refresh moves to f, the requests as they are.
FlightMoves(l, f) == flight' = [flight EXCEPT ![l] = f]

LEMMA FlightsStayTrue ==
    ASSUME TokensIInv, NEW l \in Caller, NEW f \in FlightRec, FlightMoves(l, f), FlightHolds(f),
           UNCHANGED <<clock, version, since>>
    PROVE  flight' \in [Caller -> FlightRec] /\ \A m \in Caller : FlightHolds(flight[m])'
<1>1. flight \in [Caller -> FlightRec]
  BY KeyTypes DEF TokensIInv
<1>2. flight' \in [Caller -> FlightRec]
  BY <1>1 DEF FlightMoves
<1>3. ASSUME NEW m \in Caller
      PROVE  FlightHolds(flight[m])'
  <2>1. PICK g : g = flight'[m]
    OBVIOUS
  <2>2. FlightHolds(g)
    BY <2>1, <1>1 DEF FlightMoves, TokensIInv
  <2> QED
    BY <2>1, <2>2 DEF FlightHolds, CurrentAt, PublishedSince
<1> QED
  BY <1>2, <1>3

LEMMA JoinRefreshKeeps ==
    ASSUME TokensIInv, NEW q \in Caller, JoinRefresh(q)
    PROVE  TokensIInv'
<1>1. PICK n \in CallerRec : n = caller[q]
  BY KeyTypes DEF TokensIInv
<1>2. /\ RequestHolds(n) /\ KeysTypeOK /\ n.pc = "join" /\ clock \in Time
      /\ UNCHANGED <<clock, version, since, cacheOf, fetchedAt, keyFaults>>
  BY <1>1 DEF TokensIInv, JoinRefresh, KeysTypeOK
<1>3. ASSUME NEW l \in Caller, RequestMoves(q, [n EXCEPT !.pc = "wait", !.of = l]),
             flight' \in [Caller -> FlightRec], \A m \in Caller : FlightHolds(flight[m])'
      PROVE  TokensIInv'
  <2>1. PICK c : c = [n EXCEPT !.pc = "wait", !.of = l]
    OBVIOUS
  <2>2. c \in CallerRec /\ c.pc = "wait" /\ c.call = n.call /\ c.at = n.at
    BY <2>1 DEF CallerRec
  <2>3. RequestHolds(c)
    BY <1>2, <2>2 DEF RequestHolds
  <2>4. RequestMoves(q, c)
    BY <1>3, <2>1
  <2> QED
    BY <1>2, <1>3, <2>2, <2>3, <2>4, RequestStep
<1>4. CASE flight' = [flight EXCEPT ![q] = [at |-> "sent", start |-> clock, doc |-> -1]]
           /\ caller' = [caller EXCEPT ![q].pc = "wait", ![q].of = q]
  <2>1. PICK f : f = [at |-> "sent", start |-> clock, doc |-> -1]
    OBVIOUS
  <2>2. f \in FlightRec /\ f.at = "sent" /\ f.start = clock
    BY <1>2, <2>1 DEF FlightRec
  <2>3. FlightHolds(f) /\ FlightMoves(q, f)
    <3>1. clock \in Int /\ Timeout \in Nat
      BY <1>2, KeyTypes
    <3> QED
      BY <3>1, <1>4, <2>1, <2>2 DEF FlightHolds, FlightMoves
  <2>4. flight' \in [Caller -> FlightRec] /\ \A m \in Caller : FlightHolds(flight[m])'
    BY <1>2, <2>2, <2>3, FlightsStayTrue
  <2>5. RequestMoves(q, [n EXCEPT !.pc = "wait", !.of = q])
    BY <1>1, <1>4 DEF RequestMoves
  <2> QED
    BY <1>3, <2>4, <2>5
<1>5. ASSUME flight' = flight, NEW l \in Open, caller' = [caller EXCEPT ![q].pc = "wait", ![q].of = l]
      PROVE  TokensIInv'
  <2>1. l \in Caller /\ RequestMoves(q, [n EXCEPT !.pc = "wait", !.of = l])
    BY <1>1, <1>5 DEF Open, RequestMoves
  <2>2. \A m \in Caller : FlightHolds(flight[m])'
    BY <1>2, <1>5 DEF TokensIInv, FlightHolds, CurrentAt, PublishedSince
  <2>3. flight' \in [Caller -> FlightRec]
    BY <1>2, <1>5, KeyTypes
  <2> QED
    BY <1>3, <2>1, <2>2, <2>3
<1> QED
  BY <1>4, <1>5 DEF JoinRefresh

LEMMA AnswerKeysKeeps ==
    ASSUME TokensIInv, NEW l \in Caller, AnswerKeys(l)
    PROVE  TokensIInv'
<1>1. PICK f \in FlightRec : f = flight[l]
  BY KeyTypes DEF TokensIInv
<1>2. /\ FlightHolds(f) /\ KeysTypeOK /\ f.at = "sent"
      /\ UNCHANGED <<clock, version, since, cacheOf, fetchedAt, caller, keyFaults>>
  BY <1>1 DEF TokensIInv, AnswerKeys
<1>3. /\ clock \in Int /\ f.start \in Int /\ version \in Version /\ version \in Int
  BY <1>2, KeyTypes
<1>4. PICK g : g = [f EXCEPT !.at = "answered", !.doc = version]
  OBVIOUS
<1>5. g \in FlightRec /\ g.at = "answered" /\ g.start = f.start /\ g.doc = version
  BY <1>3, <1>4 DEF FlightRec
<1>6. FlightHolds(g) /\ FlightMoves(l, g)
  <2>1. f.start <= clock /\ clock - f.start <= Timeout
    BY <1>2 DEF FlightHolds
  <2>2. CurrentAt(version, f.start)
    BY <1>3, <2>1 DEF CurrentAt, PublishedSince
  <2>3. FlightHolds(g)
    BY <1>5, <2>1, <2>2 DEF FlightHolds
  <2>4. FlightMoves(l, g)
    BY <1>1, <1>4 DEF AnswerKeys, FlightMoves
  <2> QED
    BY <2>3, <2>4
<1>7. flight' \in [Caller -> FlightRec] /\ \A m \in Caller : FlightHolds(flight[m])'
  BY <1>2, <1>5, <1>6, FlightsStayTrue
<1>8. RequestMoves(l, caller[l]) /\ RequestHolds(caller[l]) /\ caller[l] \in CallerRec
  BY <1>2, KeyTypes DEF RequestMoves, TokensIInv
<1> QED
  BY <1>2, <1>7, <1>8, RequestStep

\* The end of a refresh: a request is let go or reads the cache again, which
\* holds what was current when the refresh began.
LEMMA ReleaseKeeps ==
    ASSUME TokensIInv, NEW l \in Caller, NEW failed \in BOOLEAN, Release(l, failed),
           UNCHANGED <<clock, version, since>>,
           KeysTypeOK', fetchedAt' <= clock',
           cacheOf' # -1 => CurrentAt(cacheOf, fetchedAt - Timeout)',
           ~failed => \A t \in Int : t <= clock - Timeout => CurrentAt(cacheOf, t)',
           failed => cacheOf' = cacheOf
    PROVE  TokensIInv'
<1>1. /\ KeysTypeOK /\ caller \in [Caller -> CallerRec] /\ Time \subseteq Int
      /\ clock \in Int /\ Timeout \in Nat
  BY KeyTypes DEF TokensIInv
<1>2. \A m \in Caller : FlightHolds(flight[m])'
  <2>1. NoFlight \in FlightRec /\ FlightHolds(NoFlight)
    <3>1. 0 \in Time
      BY KeysAssumption DEF Time
    <3> QED
      BY <3>1 DEF NoFlight, FlightRec, FlightHolds
  <2>2. FlightMoves(l, NoFlight)
    BY DEF Release, FlightMoves
  <2> QED
    BY <2>1, <2>2, FlightsStayTrue
<1>3. ASSUME NEW q \in Caller
      PROVE  RequestHolds(caller[q])'
  <2>1. PICK n \in CallerRec : n = caller[q]
    BY <1>1
  <2>2. RequestHolds(n)
    BY <2>1 DEF TokensIInv
  <2>3. PICK c : c = caller'[q]
    OBVIOUS
  <2>4. c = (IF n.of # l THEN n ELSE IF failed THEN FreeCaller
             ELSE [n EXCEPT !.pc = "reread", !.of = NoCaller])
    BY <2>1, <2>3 DEF Release
  <2>5. c.pc = "reread" => CurrentAt(cacheOf, c.at - Timeout)'
    <3>1. CASE c = n /\ failed
      <4>1. c.pc = "reread" => CurrentAt(cacheOf, c.at - Timeout)
        BY <3>1, <2>2 DEF RequestHolds
      <4> QED
        BY <4>1, <3>1 DEF CurrentAt, PublishedSince
    <3>2. CASE ~failed
      <4>1. ASSUME c.pc = "reread"
            PROVE  c.at \in Int /\ c.at <= clock
        <5>1. n.at \in Int /\ (n.pc # "free" => n.at <= clock)
          BY <2>2, <1>1 DEF RequestHolds, CallerRec
        <5>2. CASE n.of # l
          BY <2>4, <4>1, <5>1, <5>2
        <5>3. CASE n.of = l
          <6>1. c = [n EXCEPT !.pc = "reread", !.of = NoCaller]
            BY <2>4, <3>2, <5>3
          <6>2. c.at = n.at
            BY <6>1 DEF CallerRec
          <6>3. n.pc = "wait"
            BY <2>2, <5>3, KeysAssumption DEF RequestHolds
          <6> QED
            BY <6>2, <6>3, <5>1
        <5> QED
          BY <5>2, <5>3
      <4>2. c.pc = "reread" => c.at - Timeout \in Int /\ c.at - Timeout <= clock - Timeout
        BY <4>1, <1>1
      <4> QED
        BY <4>2, <3>2
    <3>3. failed => c = n \/ c = FreeCaller
      BY <2>4
    <3>4. FreeCaller.pc # "reread"
      BY DEF FreeCaller
    <3> QED
      BY <3>1, <3>2, <3>3, <3>4
  <2>6. /\ c.pc # "free" => c.call \in Call /\ c.at <= clock
        /\ c.of # NoCaller => c.pc = "wait"
        /\ c.pc \in {"cached", "join", "wait", "reread", "lookup"} =>
            c.call.iss = Issuer /\ c.at <= c.call.exp
        /\ c.pc \in {"lookup", "session", "unknown"} => c = n
    <3>1. CASE c = n
      BY <3>1, <2>2 DEF RequestHolds
    <3>2. CASE c = FreeCaller
      BY <3>2 DEF FreeCaller
    <3>3. CASE n.of = l /\ c = [n EXCEPT !.pc = "reread", !.of = NoCaller]
      <4>1. c.at = n.at /\ c.call = n.call /\ c.pc = "reread" /\ c.of = NoCaller
        BY <3>3 DEF CallerRec
      <4>2. n.pc = "wait"
        BY <2>2, <3>3, KeysAssumption DEF RequestHolds
      <4> QED
        BY <4>1, <4>2, <2>2 DEF RequestHolds
    <3> QED
      BY <2>4, <3>1, <3>2, <3>3
  <2>7. RequestHolds(c)'
    <3>1. c.pc = "lookup" => CurrentAt(c.seen, c.at - TTL - Timeout)'
      BY <2>2, <2>6 DEF RequestHolds, CurrentAt, PublishedSince
    <3>2. c.pc = "unknown" => CurrentAt(c.seen, c.at - Timeout)'
      BY <2>2, <2>6 DEF RequestHolds, CurrentAt, PublishedSince
    <3> QED
      BY <2>2, <2>5, <2>6, <3>1, <3>2 DEF RequestHolds
  <2> QED
    BY <2>3, <2>7 DEF RequestHolds, CurrentAt, PublishedSince
<1> QED
  BY <1>2, <1>3 DEF TokensIInv

LEMMA StoreKeysKeeps ==
    ASSUME TokensIInv, NEW l \in Caller, StoreKeys(l)
    PROVE  TokensIInv'
<1>1. PICK f \in FlightRec : f = flight[l]
  BY KeyTypes DEF TokensIInv
<1>2. /\ FlightHolds(f) /\ KeysTypeOK /\ f.at = "answered"
      /\ UNCHANGED <<clock, version, since, keyFaults>>
      /\ cacheOf' = f.doc /\ fetchedAt' = clock /\ Release(l, FALSE)
  BY <1>1 DEF TokensIInv, StoreKeys
<1>3. /\ clock \in Int /\ clock \in Time /\ f.start \in Int /\ Timeout \in Nat
      /\ flight \in [Caller -> FlightRec] /\ caller \in [Caller -> CallerRec]
  BY <1>2, KeyTypes DEF KeysTypeOK
<1>4. /\ f.start <= clock /\ clock - f.start <= Timeout /\ CurrentAt(f.doc, f.start)
      /\ f.doc \in Version
  BY <1>2 DEF FlightHolds, CurrentAt
<1>5. \A t \in Int : t <= clock - Timeout => CurrentAt(cacheOf, t)'
  <2>1. ASSUME NEW t \in Int, t <= clock - Timeout
        PROVE  CurrentAt(f.doc, t)
    <3>1. t <= f.start
      BY <1>3, <1>4, <2>1
    <3> QED
      BY <1>2, <1>3, <1>4, <3>1, CurrentBefore
  <2> QED
    BY <2>1, <1>2 DEF CurrentAt, PublishedSince
<1>6. CurrentAt(cacheOf, fetchedAt - Timeout)'
  <2>1. PICK t \in Int : t = clock - Timeout
    BY <1>3
  <2>2. CurrentAt(cacheOf, t)'
    BY <1>5, <2>1, <1>3
  <2>3. fetchedAt' - Timeout = t
    BY <1>2, <2>1
  <2> QED
    BY <2>2, <2>3 DEF CurrentAt, PublishedSince
<1>7. KeysTypeOK'
  <2>1. FreeCaller \in CallerRec /\ NoFlight \in FlightRec
    <3>1. 0 \in Time
      BY KeysAssumption DEF Time
    <3> QED
      BY <3>1 DEF FreeCaller, CallerRec, NoFlight, FlightRec
  <2>2. flight' \in [Caller -> FlightRec]
    BY <1>2, <1>3, <2>1 DEF Release
  <2>3. caller' \in [Caller -> CallerRec]
    <3>1. \A q \in Caller : [caller[q] EXCEPT !.pc = "reread", !.of = NoCaller] \in CallerRec
      BY <1>3 DEF CallerRec
    <3> QED
      BY <1>2, <1>3, <2>1, <3>1 DEF Release
  <2> QED
    BY <1>2, <1>3, <1>4, <2>2, <2>3 DEF KeysTypeOK, FlightRec, CallerRec
<1>8. fetchedAt' <= clock'
  BY <1>2, <1>3
<1> QED
  BY <1>2, <1>5, <1>6, <1>7, <1>8, ReleaseKeeps

LEMMA RefreshFailsKeeps ==
    ASSUME TokensIInv, NEW l \in Caller, RefreshFails(l)
    PROVE  TokensIInv'
<1>1. /\ KeysTypeOK /\ Release(l, TRUE)
      /\ UNCHANGED <<clock, version, since, cacheOf, fetchedAt>>
      /\ keyFaults' = keyFaults + 1 /\ keyFaults < MaxKeyFaults
  BY DEF TokensIInv, RefreshFails
<1>2. flight \in [Caller -> FlightRec] /\ caller \in [Caller -> CallerRec]
  BY <1>1, KeyTypes
<1>3. KeysTypeOK'
  <2>1. FreeCaller \in CallerRec /\ NoFlight \in FlightRec
    <3>1. 0 \in Time
      BY KeysAssumption DEF Time
    <3> QED
      BY <3>1 DEF FreeCaller, CallerRec, NoFlight, FlightRec
  <2>2. flight' \in [Caller -> FlightRec] /\ caller' \in [Caller -> CallerRec]
    BY <1>1, <1>2, <2>1 DEF Release
  <2>3. keyFaults' \in 0 .. MaxKeyFaults
    BY <1>1, KeysAssumption DEF KeysTypeOK
  <2> QED
    BY <1>1, <2>2, <2>3 DEF KeysTypeOK, FlightRec, CallerRec
<1>4. /\ cacheOf' # -1 => CurrentAt(cacheOf, fetchedAt - Timeout)'
      /\ fetchedAt' <= clock'
  BY <1>1 DEF TokensIInv, CurrentAt, PublishedSince
<1> QED
  BY <1>1, <1>3, <1>4, ReleaseKeeps

\* Time passes, or Zitadel rotates its keys.
LEMMA WorldMovesKeeps ==
    ASSUME TokensIInv, Tick \/ RotateKeys
    PROVE  TokensIInv'
<1>1. /\ KeysTypeOK /\ clock \in Int /\ clock \in Time /\ fetchedAt \in Int /\ Timeout \in Nat
      /\ flight \in [Caller -> FlightRec] /\ caller \in [Caller -> CallerRec]
      /\ \A f \in FlightRec : f.start \in Int
      /\ \A c \in CallerRec : c.at \in Int
  BY KeyTypes DEF TokensIInv, KeysTypeOK
<1>2. /\ UNCHANGED <<cacheOf, fetchedAt, flight, caller, keyFaults>>
      /\ UNCHANGED <<version, since>> \/ (RotateKeys /\ clock' = clock)
      /\ clock' \in Int /\ clock <= clock'
  BY <1>1 DEF Tick, RotateKeys
<1>3. KeysTypeOK'
  <2>1. CASE Tick
    <3>1. clock' \in Time
      BY <1>1, <2>1, KeysAssumption DEF Tick, Time
    <3> QED
      BY <1>1, <1>2, <2>1, <3>1 DEF KeysTypeOK, Tick
  <2>2. CASE RotateKeys
    <3>1. version' \in Version /\ since' \in [Version -> Time] /\ clock' = clock
      BY <1>1, <2>2 DEF RotateKeys, KeysTypeOK
    <3> QED
      BY <1>1, <1>2, <3>1 DEF KeysTypeOK
  <2> QED
    BY <2>1, <2>2
<1>4. cacheOf' # -1 => CurrentAt(cacheOf, fetchedAt - Timeout)'
  <2>1. PICK t \in Int : t = fetchedAt - Timeout
    BY <1>1
  <2>2. cacheOf # -1 => CurrentAt(cacheOf, t)'
    BY <1>1, <1>2, <1>3, <2>1, CacheStaysCurrent DEF TokensIInv
  <2> QED
    BY <1>2, <2>1, <2>2 DEF CurrentAt, PublishedSince
<1>5. ASSUME NEW l \in Caller
      PROVE  FlightHolds(flight[l])'
  <2>1. PICK f \in FlightRec : f = flight[l]
    BY <1>1
  <2>2. FlightHolds(f)
    BY <2>1 DEF TokensIInv
  <2>3. f.at # "none" => clock' - f.start <= Timeout
    <3>1. CASE Tick
      BY <1>1, <2>1, <3>1 DEF Tick
    <3>2. CASE RotateKeys
      BY <1>1, <2>2, <3>2 DEF RotateKeys, FlightHolds
    <3> QED
      BY <3>1, <3>2
  <2>4. FlightHolds(f)'
    BY <1>1, <1>2, <1>3, <2>2, <2>3, FlightStaysTrue
  <2> QED
    BY <1>2, <2>1, <2>4 DEF FlightHolds, CurrentAt, PublishedSince
<1>6. ASSUME NEW q \in Caller
      PROVE  RequestHolds(caller[q])'
  <2>1. PICK c \in CallerRec : c = caller[q]
    BY <1>1
  <2>2. RequestHolds(c)
    BY <2>1 DEF TokensIInv
  <2>3. c.pc = "reread" => CurrentAt(cacheOf, c.at - Timeout)'
    <3>1. c.at - Timeout \in Int
      BY <1>1
    <3> QED
      BY <1>1, <1>2, <1>3, <2>2, <3>1, CacheStaysCurrent DEF RequestHolds
  <2>4. RequestHolds(c)'
    BY <1>1, <1>2, <1>3, <2>2, <2>3, RequestStaysTrue
  <2> QED
    BY <1>2, <2>1, <2>4 DEF RequestHolds, CurrentAt, PublishedSince, SignatureHolds
<1>7. fetchedAt' <= clock'
  BY <1>1, <1>2 DEF TokensIInv
<1> QED
  BY <1>3, <1>4, <1>5, <1>6, <1>7 DEF TokensIInv

-----------------------------------------------------------------------------
(* Tokens: the theorem *)

LEMMA TokensInitially == KeysInit => TokensIInv
<1> SUFFICES ASSUME KeysInit
             PROVE  TokensIInv
  OBVIOUS
<1>1. 0 \in Time /\ 0 \in Version /\ 0 \in 0 .. MaxKeyFaults /\ TTL \in Nat
  BY KeysAssumption DEF Time
<1>2. FreeCaller \in CallerRec /\ NoFlight \in FlightRec
  BY <1>1 DEF FreeCaller, CallerRec, NoFlight, FlightRec
<1>3. KeysTypeOK
  BY <1>1, <1>2 DEF KeysInit, KeysTypeOK, CallerRec, FlightRec
<1>4. \A q \in Caller : FlightHolds(flight[q]) /\ RequestHolds(caller[q])
  BY DEF KeysInit, FlightHolds, RequestHolds, NoFlight, FreeCaller
<1>5. fetchedAt <= clock /\ cacheOf = -1
  BY <1>1 DEF KeysInit
<1> QED
  BY <1>3, <1>4, <1>5 DEF TokensIInv

LEMMA TokensStep == TokensIInv /\ [KeysNext]_keysVars => TokensIInv'
<1> SUFFICES ASSUME TokensIInv, [KeysNext]_keysVars
             PROVE  TokensIInv'
  OBVIOUS
<1>1. ASSUME NEW q \in Caller, NEW c \in Call, Authenticate(q, c)
      PROVE  TokensIInv'
  BY <1>1, AuthenticateKeeps
<1>2. ASSUME NEW q \in Caller,
             \/ ReadCache(q) \/ JoinRefresh(q) \/ AnswerKeys(q) \/ StoreKeys(q)
             \/ RefreshFails(q) \/ ReadAgain(q) \/ Reply(q)
      PROVE  TokensIInv'
  BY <1>2, ReadCacheKeeps, JoinRefreshKeeps, AnswerKeysKeeps, StoreKeysKeeps,
     RefreshFailsKeeps, ReadAgainKeeps, ReplyKeeps
<1>3. CASE Tick \/ RotateKeys
  BY <1>3, WorldMovesKeeps
<1>4. CASE UNCHANGED keysVars
  BY <1>4 DEF keysVars, TokensIInv, KeysTypeOK, FlightHolds, RequestHolds, CurrentAt,
     PublishedSince, SignatureHolds
<1> QED
  BY <1>1, <1>2, <1>3, <1>4 DEF KeysNext

\* For any keys, tokens, times and requests at once: a token goes through only
\* with the key that signed it in a set published within TTL and Timeout before
\* the request, and its key is called unknown only by a set that young.
THEOREM TokensJudged == KeysSpec => []TokensAreJudged
<1>1. TokensIInv => TokensAreJudged
  BY DEF TokensIInv, TokensAreJudged, RequestHolds, CurrentAt
<1> QED
  BY <1>1, TokensInitially, TokensStep, PTL DEF KeysSpec

-----------------------------------------------------------------------------
(* VIP levels and the overview *)

\* There is a last level that a sum reaches.
LEMMA LevelReached ==
    ASSUME NEW sum \in Nat
    PROVE  LevelFor(sum) \in Level /\ MinSpend[LevelFor(sum)] <= sum
<1>1. PICK top \in Level : top \in Nat /\ Level \subseteq 0 .. top
  BY ViewsAssumption
<1> DEFINE Steps == {n \in Nat : \E l \in Level : n = top - l /\ MinSpend[l] <= sum}
<1>2. Steps # {} /\ Steps \subseteq Nat
  <2>1. MinSpend[0] <= sum /\ top - 0 \in Nat
    BY ViewsAssumption
  <2> QED
    BY <2>1, ViewsAssumption
<1>3. PICK n \in Steps : \A m \in Steps : n <= m
  BY <1>2, LeastNat
<1>4. PICK l \in Level : n = top - l /\ MinSpend[l] <= sum
  BY <1>3
<1>5. ASSUME NEW k \in Level, MinSpend[k] <= sum
      PROVE  k <= l
  <2>1. k \in Nat /\ l \in Nat /\ k <= top /\ l <= top
    BY <1>1, ViewsAssumption
  <2>2. top - k \in Steps /\ top - k \in Nat
    BY <1>5, <2>1
  <2>3. n <= top - k
    BY <1>3, <2>2
  <2> QED
    BY <1>4, <2>1, <2>3
<1> QED
  BY <1>4, <1>5 DEF LevelFor

WorkerType == [pc : {"free", "wallet", "vip", "insert", "save"},
               seen : 0 .. MaxTopups, event : UsageEvent \union {NoEvent}]
ViewerType == [pc : {"free", "vip", "insert", "wallet", "store"},
               level : Level, topups : 0 .. MaxTopups]

\* What a recalculation or an overview under way has read.
ViewerFits(c) ==
    LET t == IF c.pc = "store" THEN c.topups ELSE topups
    IN MinSpend[c.level] <= t /\ t <= topups
RowFits(l) == l \in Level /\ MinSpend[l] <= topups
OverviewFits(o) ==
    o = NoView \/ (o \in View /\ MinSpend[o.level] <= o.topups)

EventType == [at : {"none", "queued", "out", "done"}, sent : 0 .. MaxDeliver, parses : BOOLEAN]

WorkerMoves(w, c) == worker' = [worker EXCEPT ![w] = c]
ViewerMoves(v, c) == viewer' = [viewer EXCEPT ![v] = c]

\* What a step has to show: the topups only grow, and what it writes fits them.
LEMMA ViewsMove ==
    ASSUME ViewsInv, topups' \in 0 .. MaxTopups, topups <= topups', viewFaults' \in 0 .. MaxViewFaults,
           vipLevel' = vipLevel \/ RowFits(vipLevel'), overview' = overview \/ OverviewFits(overview'),
           event' \in [UsageEvent -> EventType],
           \/ worker' = worker
           \/ \E w \in Worker, c \in WorkerType : c.seen <= topups' /\ WorkerMoves(w, c),
           \/ viewer' = viewer
           \/ \E v \in Viewer, c \in ViewerType : ViewerFits(c) /\ topups' = topups /\ ViewerMoves(v, c)
    PROVE  ViewsInv'
<1>1. topups \in Int /\ topups' \in Int
  BY DEF ViewsInv, ViewsTypeOK
<1>2. \A l \in Level : MinSpend[l] \in Int
  BY ViewsAssumption
<1>3. vipLevel' \in Level \union {NoRow} /\ (vipLevel' # NoRow => MinSpend[vipLevel'] <= topups')
  BY <1>1, <1>2 DEF ViewsInv, ViewsTypeOK, RowFits
<1>4. overview' \in View \union {NoView}
      /\ (overview' # NoView => MinSpend[overview'.level] <= overview'.topups)
  BY DEF ViewsInv, ViewsTypeOK, OverviewFits
<1>5. worker' \in [Worker -> WorkerType] /\ \A w \in Worker : worker'[w].seen <= topups'
  <2>1. \A w \in Worker : worker[w].seen \in Int
    BY DEF ViewsInv, ViewsTypeOK
  <2>2. CASE worker' = worker
    BY <1>1, <2>1, <2>2 DEF ViewsInv, ViewsTypeOK, WorkerType
  <2>3. ASSUME NEW w \in Worker, NEW c \in WorkerType, c.seen <= topups', WorkerMoves(w, c)
        PROVE  /\ worker' \in [Worker -> WorkerType]
               /\ \A u \in Worker : worker'[u].seen <= topups'
    BY <1>1, <2>1, <2>3 DEF ViewsInv, ViewsTypeOK, WorkerMoves, WorkerType
  <2> QED
    BY <2>2, <2>3
<1>6. viewer' \in [Viewer -> ViewerType] /\ \A v \in Viewer : ViewerFits(viewer[v])'
  <2>1. \A v \in Viewer : viewer[v].level \in Level /\ viewer[v].topups \in Int /\ ViewerFits(viewer[v])
    BY DEF ViewsInv, ViewsTypeOK, ViewerFits
  <2>2. CASE viewer' = viewer
    BY <1>1, <1>2, <2>1, <2>2 DEF ViewsInv, ViewsTypeOK, ViewerType, ViewerFits
  <2>3. ASSUME NEW v \in Viewer, NEW c \in ViewerType, ViewerFits(c), topups' = topups,
               ViewerMoves(v, c)
        PROVE  /\ viewer' \in [Viewer -> ViewerType]
               /\ \A u \in Viewer : ViewerFits(viewer[u])'
    BY <2>1, <2>3 DEF ViewsInv, ViewsTypeOK, ViewerMoves, ViewerType, ViewerFits
  <2> QED
    BY <2>2, <2>3
<1> QED
  BY <1>3, <1>4, <1>5, <1>6 DEF ViewsInv, ViewsTypeOK, WorkerType, ViewerType, ViewerFits, EventType

\* A worker's event is settled, or there is none.
LEMMA SettledIsEvent ==
    ASSUME ViewsInv, NEW w \in Worker, NEW outcome
    PROVE  Settled(w, outcome) \in [UsageEvent -> EventType]
<1>1. event \in [UsageEvent -> EventType] /\ worker[w].event \in UsageEvent \union {NoEvent}
  BY DEF ViewsInv, ViewsTypeOK, EventType
<1> QED
  BY <1>1 DEF Settled, EventType

LEMMA ViewsStep == ViewsInv /\ [ViewsNext]_viewsVars => ViewsInv'
<1> SUFFICES ASSUME ViewsInv, [ViewsNext]_viewsVars
             PROVE  ViewsInv'
  OBVIOUS
<1> USE ViewsAssumption
<1>1. /\ topups \in 0 .. MaxTopups /\ viewFaults \in 0 .. MaxViewFaults
      /\ topups \in Nat /\ 0 <= topups /\ topups <= topups
      /\ event \in [UsageEvent -> EventType]
      /\ \A w \in Worker : /\ worker[w] \in WorkerType /\ worker[w].seen \in Nat
                           /\ worker[w].seen <= topups
      /\ \A v \in Viewer : viewer[v] \in ViewerType /\ ViewerFits(viewer[v])
      /\ vipLevel # NoRow => RowFits(vipLevel)
  BY DEF ViewsInv, ViewsTypeOK, EventType, WorkerType, ViewerType, ViewerFits, RowFits
<1>2. viewFaults < MaxViewFaults => viewFaults + 1 \in 0 .. MaxViewFaults
  BY <1>1
<1>3. FreeWorker \in WorkerType /\ FreeWorker.seen <= topups
  BY <1>1 DEF FreeWorker, WorkerType
<1>4. FreeViewer \in ViewerType /\ ViewerFits(FreeViewer)
  BY <1>1 DEF FreeViewer, ViewerType, ViewerFits
<1>5. RowFits(0)
  BY <1>1 DEF RowFits
\* What a worker becomes that only moves on.
<1>6. ASSUME NEW w \in Worker, NEW pc \in {"free", "wallet", "vip", "insert", "save"}
      PROVE  LET c == [worker[w] EXCEPT !.pc = pc]
             IN  c \in WorkerType /\ c.seen = worker[w].seen
  BY <1>1 DEF WorkerType
<1>7. ASSUME NEW w \in Worker, NEW pc, worker' = [worker EXCEPT ![w].pc = pc]
      PROVE  WorkerMoves(w, [worker[w] EXCEPT !.pc = pc])
  BY <1>7 DEF WorkerMoves, ViewsInv, ViewsTypeOK
<1>8. ASSUME NEW w \in Worker, TopUp(w)
       PROVE  ViewsInv'
  <2>1. /\ topups' \in 0 .. MaxTopups /\ topups <= topups' /\ worker[w].seen <= topups'
        /\ worker' = [worker EXCEPT ![w].pc = "wallet"]
        /\ UNCHANGED <<vipLevel, event, overview, viewer, viewFaults>>
    BY <1>1, <1>8 DEF TopUp
  <2> QED
    BY <1>1, <1>6, <1>7, <2>1, ViewsMove
<1>9. ASSUME NEW w \in Worker, ReportUsage(w) \/ ReadVIP(w)
       PROVE  ViewsInv'
  <2>1. /\ UNCHANGED <<topups, vipLevel, event, overview, viewer, viewFaults>>
        /\ \E pc \in {"wallet", "insert", "save"} : worker' = [worker EXCEPT ![w].pc = pc]
    BY <1>9 DEF ReportUsage, ReadVIP
  <2>2. PICK pc \in {"wallet", "insert", "save"} : worker' = [worker EXCEPT ![w].pc = pc]
    BY <2>1
  <2>3. PICK c \in WorkerType : c.seen <= topups /\ WorkerMoves(w, c)
    BY <1>1, <1>6, <1>7, <2>2
  <2> QED
    BY <1>1, <2>1, <2>3, ViewsMove
<1>10. ASSUME NEW w \in Worker, ReadWallet(w)
       PROVE  ViewsInv'
  <2> DEFINE c == [worker[w] EXCEPT !.pc = "vip", !.seen = topups]
  <2>1. c \in WorkerType /\ c.seen <= topups
    BY <1>1 DEF WorkerType
  <2>2. WorkerMoves(w, c) /\ UNCHANGED <<topups, vipLevel, event, overview, viewer, viewFaults>>
    BY <1>10 DEF ReadWallet, WorkerMoves, ViewsInv, ViewsTypeOK
  <2> QED
    BY <1>1, <2>1, <2>2, ViewsMove
<1>11. ASSUME NEW w \in Worker, NEW e \in UsageEvent, DeliverUsage(w, e)
       PROVE  ViewsInv'
  <2>1. /\ event' \in [UsageEvent -> EventType]
        /\ UNCHANGED <<topups, vipLevel, overview, viewer, viewFaults>>
    <3>1. event[e] \in EventType
      BY <1>1
    <3>2. event[e].sent + 1 \in 0 .. MaxDeliver
      BY <1>11, <3>1 DEF DeliverUsage, EventType
    <3>3. PICK at \in {"out", "queued"} : event' = [event EXCEPT ![e].sent = @ + 1, ![e].at = at]
      BY <1>11 DEF DeliverUsage
    <3>4. [event[e] EXCEPT !.sent = event[e].sent + 1, !.at = at] \in EventType
      BY <3>1, <3>2 DEF EventType
    <3>5. event' = [event EXCEPT ![e] = [event[e] EXCEPT !.sent = event[e].sent + 1, !.at = at]]
      BY <3>3
    <3> QED
      BY ZenonT(60), <1>1, <1>11, <3>4, <3>5 DEF DeliverUsage
  <2>2. CASE worker' = worker
    BY <1>1, <2>1, <2>2, ViewsMove
  <2>3. CASE worker' = [worker EXCEPT ![w].pc = "wallet", ![w].event = e]
    <3> DEFINE c == [worker[w] EXCEPT !.pc = "wallet", !.event = e]
    <3>1. c \in WorkerType /\ c.seen <= topups
      BY <1>1 DEF WorkerType
    <3>2. WorkerMoves(w, c)
      BY <2>3 DEF WorkerMoves, ViewsInv, ViewsTypeOK
    <3> QED
      BY <1>1, <2>1, <3>1, <3>2, ViewsMove
  <2> QED
    BY <1>11, <2>2, <2>3 DEF DeliverUsage
<1>12. ASSUME NEW w \in Worker, SkipWithoutWallet(w) \/ RecalculationFails(w)
       PROVE  ViewsInv'
  <2>1. /\ viewFaults' \in 0 .. MaxViewFaults /\ event' \in [UsageEvent -> EventType]
        /\ WorkerMoves(w, FreeWorker)
        /\ UNCHANGED <<topups, vipLevel, overview, viewer>>
    BY <1>1, <1>2, <1>12, SettledIsEvent DEF SkipWithoutWallet, RecalculationFails, WorkerMoves
  <2> QED
    BY <1>1, <1>3, <2>1, ViewsMove
<1>13. ASSUME NEW w \in Worker, InsertVIP(w) \/ SaveVIP(w)
       PROVE  ViewsInv'
  <2>1. /\ event' \in [UsageEvent -> EventType]
        /\ UNCHANGED <<topups, overview, viewer, viewFaults>>
    <3>1. Settled(w, "failed") \in [UsageEvent -> EventType] /\ Settled(w, "done") \in [UsageEvent -> EventType]
      BY SettledIsEvent
    <3> QED
      BY <1>1, <1>13, <3>1 DEF InsertVIP, SaveVIP
  <2>2. vipLevel' = vipLevel \/ RowFits(vipLevel')
    <3>1. RowFits(LevelFor(worker[w].seen))
      <4>1. PICK l : l = LevelFor(worker[w].seen)
        OBVIOUS
      <4>2. l \in Level /\ MinSpend[l] <= worker[w].seen /\ MinSpend[l] \in Nat
        BY <1>1, <4>1, LevelReached
      <4> QED
        BY <1>1, <4>1, <4>2 DEF RowFits
    <3> QED
      BY <1>5, <1>13, <3>1 DEF InsertVIP, SaveVIP
  <2>3. CASE worker' = [worker EXCEPT ![w].pc = "save"]
    <3>1. PICK c \in WorkerType : c.seen <= topups /\ WorkerMoves(w, c)
      BY <1>1, <1>6, <1>7, <2>3
    <3> QED
      BY <1>1, <2>1, <2>2, <3>1, ViewsMove
  <2>4. CASE WorkerMoves(w, FreeWorker)
    BY <1>1, <1>3, <2>1, <2>2, <2>4, ViewsMove
  <2> QED
    BY <1>13, <2>3, <2>4 DEF InsertVIP, SaveVIP, WorkerMoves
<1>14. ASSUME NEW e \in UsageEvent, PublishUsage(e) \/ AckWaitEnds(e)
       PROVE  ViewsInv'
  <2>1. /\ event' \in [UsageEvent -> EventType]
        /\ UNCHANGED <<topups, vipLevel, worker, overview, viewer, viewFaults>>
    BY <1>1, <1>14 DEF PublishUsage, AckWaitEnds, EventType
  <2> QED
    BY <1>1, <2>1, ViewsMove
<1>15. ASSUME NEW v \in Viewer, MissOverview(v)
       PROVE  ViewsInv'
  <2> DEFINE c == [viewer[v] EXCEPT !.pc = "vip"]
  <2>1. /\ UNCHANGED <<topups, vipLevel, worker, event, overview>>
        /\ viewFaults' \in 0 .. MaxViewFaults /\ viewer[v].pc = "free"
        /\ ViewerMoves(v, c)
    BY <1>1, <1>2, <1>15 DEF MissOverview, ViewerMoves, ViewsInv, ViewsTypeOK
  <2>2. c \in ViewerType /\ ViewerFits(c)
    BY <1>1, <2>1 DEF ViewerType, ViewerFits
  <2> QED
    BY <1>1, <2>1, <2>2, ViewsMove
<1>16. ASSUME NEW v \in Viewer, NEW pc \in {"insert", "wallet"}, NEW l \in Level, RowFits(l),
              viewer[v].pc # "store", NEW c, c = [viewer[v] EXCEPT !.pc = pc, !.level = l]
       PROVE  c \in ViewerType /\ ViewerFits(c)
  BY <1>1, <1>16 DEF ViewerType, ViewerFits, RowFits
<1>17. ASSUME NEW v \in Viewer, ViewVIP(v)
       PROVE  ViewsInv'
  <2>1. /\ UNCHANGED <<topups, vipLevel, worker, event, overview, viewFaults>>
        /\ viewer[v].pc = "vip"
    BY <1>17 DEF ViewVIP
  <2>2. CASE vipLevel = NoRow
    <3> DEFINE c == [viewer[v] EXCEPT !.pc = "insert"]
    <3>1. ViewerMoves(v, c)
      BY <1>17, <2>2 DEF ViewVIP, ViewerMoves, ViewsInv, ViewsTypeOK
    <3>2. c \in ViewerType /\ ViewerFits(c)
      BY <1>1, <2>1 DEF ViewerType, ViewerFits
    <3> QED
      BY <1>1, <2>1, <3>1, <3>2, ViewsMove
  <2>3. CASE vipLevel # NoRow
    <3>1. PICK c : c = [viewer[v] EXCEPT !.pc = "wallet", !.level = vipLevel]
      OBVIOUS
    <3>2. ViewerMoves(v, c)
      BY <1>17, <2>3, <3>1 DEF ViewVIP, ViewerMoves, ViewsInv, ViewsTypeOK
    <3>3. c \in ViewerType /\ ViewerFits(c)
      BY <1>1, <1>16, <2>1, <2>3, <3>1 DEF RowFits
    <3> QED
      BY <1>1, <2>1, <3>2, <3>3, ViewsMove
  <2> QED
    BY <2>2, <2>3
<1>18. ASSUME NEW v \in Viewer, ViewInsertsVIP(v)
       PROVE  ViewsInv'
  <2>1. /\ UNCHANGED <<topups, worker, event, overview, viewFaults>>
        /\ viewer[v].pc = "insert" /\ (vipLevel' = vipLevel \/ RowFits(vipLevel'))
    BY <1>5, <1>18 DEF ViewInsertsVIP
  <2>2. CASE vipLevel = NoRow
    <3>1. PICK c : c = [viewer[v] EXCEPT !.pc = "wallet", !.level = 0]
      OBVIOUS
    <3>2. ViewerMoves(v, c)
      BY <1>18, <2>2, <3>1 DEF ViewInsertsVIP, ViewerMoves, ViewsInv, ViewsTypeOK
    <3>3. c \in ViewerType /\ ViewerFits(c)
      BY <1>1, <1>5, <1>16, <2>1, <3>1
    <3> QED
      BY <1>1, <2>1, <3>2, <3>3, ViewsMove
  <2>3. CASE vipLevel # NoRow
    <3>1. ViewerMoves(v, FreeViewer)
      BY <1>18, <2>3 DEF ViewInsertsVIP, ViewerMoves
    <3> QED
      BY <1>1, <1>4, <2>1, <3>1, ViewsMove
  <2> QED
    BY <2>2, <2>3
<1>19. ASSUME NEW v \in Viewer, ViewWallet(v)
       PROVE  ViewsInv'
  <2>1. PICK c : c = [viewer[v] EXCEPT !.pc = "store", !.topups = topups]
    OBVIOUS
  <2>2. /\ ViewerMoves(v, c) /\ viewer[v].pc # "store"
        /\ UNCHANGED <<topups, vipLevel, worker, event, overview, viewFaults>>
    BY <1>19, <2>1 DEF ViewWallet, ViewerMoves, ViewsInv, ViewsTypeOK
  <2>3. c \in ViewerType /\ ViewerFits(c)
    BY <1>1, <2>1, <2>2 DEF ViewerType, ViewerFits
  <2> QED
    BY <1>1, <2>2, <2>3, ViewsMove
<1>20. ASSUME NEW v \in Viewer, StoreOverview(v)
       PROVE  ViewsInv'
  <2>1. /\ ViewerMoves(v, FreeViewer) /\ viewer[v].pc = "store"
        /\ overview' \in {overview, [level |-> viewer[v].level, topups |-> viewer[v].topups]}
        /\ UNCHANGED <<topups, vipLevel, worker, event, viewFaults>>
    BY <1>20 DEF StoreOverview, ViewerMoves
  <2>2. OverviewFits([level |-> viewer[v].level, topups |-> viewer[v].topups])
    BY <1>1, <2>1 DEF OverviewFits, View, ViewerType, ViewerFits
  <2> QED
    BY <1>1, <1>4, <2>1, <2>2, ViewsMove
<1>21. CASE OverviewExpires
  BY <1>1, <1>21, ViewsMove DEF OverviewExpires, OverviewFits
<1>22. CASE UNCHANGED viewsVars
  BY <1>1, <1>22, ViewsMove DEF viewsVars
<1> QED
  BY <1>8, <1>9, <1>10, <1>11, <1>12, <1>13, <1>14, <1>15, <1>17, <1>18, <1>19, <1>20, <1>21, <1>22
  DEF ViewsNext, WorkerStep, ViewerStep

\* No level and no overview shows what the topups do not justify, however many
\* recalculations, deliveries and overviews overlap.
THEOREM ViewsCorrect == ViewsSpec => []ViewsInv
<1>1. ViewsInit => ViewsInv
  BY ViewsAssumption DEF ViewsInit, ViewsInv, ViewsTypeOK, FreeWorker, FreeViewer
<1> QED
  BY <1>1, ViewsStep, PTL DEF ViewsSpec

-----------------------------------------------------------------------------
(* Organizations *)

\* Every call in progress is about an organization that exists: nothing deletes
\* one, and only an existing organization has members.
NamesOrg(c) ==
    /\ c.pc \in {"addOwner", "wallet", "add", "insert", "update", "target",
                 "owners", "remove", "createKey"} => c.org \in orgs
    /\ c.pc \in {"addOwner", "add", "insert", "update", "target", "owners", "remove"}
        => c.who \in Account
    /\ c.pc \in {"add", "insert", "update"} => c.role \in Role
    /\ c.pc \in {"revoke", "touch"} => c.key \in Key

CallsNameOrgs ==
    /\ \A o \in Org, a \in Account : role[o][a] # "none" => o \in orgs
    /\ \A q \in Request : NamesOrg(request[q])

OrganizationsIInv == OrganizationsInv /\ CallsNameOrgs

LEMMA OrganizationsInitially == OrgsInit => OrganizationsIInv
BY OrganizationAssumption
DEF OrgsInit, OrganizationsIInv, OrganizationsInv, OrganizationsTypeOK, OrganizationsComplete,
    CallsNameOrgs, NamesOrg, Free

\* A call that moves on to c keeps its organization while it creates it, or has
\* failed, or has made the wallet.
Creating(q, o) == request[q].pc \in {"addOwner", "wallet"} /\ request[q].org = o

Moves(q, c) ==
    /\ c \in OrgCall \union {Free}
    /\ NamesOrg(c)
    /\ request' = [request EXCEPT ![q] = c]
    /\ orgFaults' \in Nat
    /\ orgFaults' = 0 =>
        /\ orgFaults = 0
        /\ \A o \in Org : Creating(q, o) => \/ c.pc \in {"addOwner", "wallet"} /\ c.org = o
                                            \/ o \in orgWallet'

\* What a step does: one call moves, and of the rows it changes at most those
\* of one organization, which exists.
Changes ==
    /\ orgs \subseteq orgs' /\ orgs' \subseteq Org
    /\ orgWallet \subseteq orgWallet' /\ orgWallet' \subseteq orgs'
    /\ role' \in [Org -> [Account -> Role \union {"none"}]]
    /\ \A o \in Org, a \in Account : role'[o][a] # "none" => o \in orgs'
    /\ keyOrg' \in [Key -> orgs' \union {NoOrg}]
    /\ keyStatus' \in [Key -> {"none", "active", "revoked"}]

LEMMA CallMovesOn ==
    ASSUME OrganizationsTypeOK, OrganizationsComplete, CallsNameOrgs,
           NEW q \in Request, NEW c, Moves(q, c), Changes, orgs' = orgs
    PROVE  OrganizationsTypeOK' /\ OrganizationsComplete' /\ CallsNameOrgs'
<1>1. OrganizationsTypeOK'
  BY DEF OrganizationsTypeOK, Moves, Changes
<1>2. /\ request'[q] = c
      /\ \A p \in Request \ {q} : request'[p] = request[p]
  BY DEF OrganizationsTypeOK, Moves
<1>3. CallsNameOrgs'
  <2>1. \A p \in Request : NamesOrg(request'[p])
    BY <1>2 DEF Moves, CallsNameOrgs
  <2> QED
    BY <2>1 DEF Changes, CallsNameOrgs, NamesOrg
<1>4. OrganizationsComplete'
  <2> SUFFICES ASSUME orgFaults' = 0, NEW o \in orgs', o \notin orgWallet'
               PROVE  \E p \in Request : request'[p].pc \in {"addOwner", "wallet"}
                                         /\ request'[p].org = o
    BY DEF OrganizationsComplete
  <2>1. /\ orgFaults = 0 /\ o \in orgs /\ o \notin orgWallet /\ o \in Org
    BY DEF Moves, Changes, OrganizationsTypeOK
  <2>2. PICK p \in Request : Creating(p, o)
    BY <2>1 DEF OrganizationsComplete, Creating
  <2>3. CASE p = q
    BY <2>1, <2>2, <2>3, <1>2 DEF Moves
  <2>4. CASE p # q
    BY <2>2, <2>4, <1>2 DEF Creating
  <2> QED
    BY <2>3, <2>4
<1> QED
  BY <1>1, <1>3, <1>4

LEMMA OrgCallTyped ==
    ASSUME NEW o \in Org \union {NoOrg}, NEW a \in Account \union {NoAccount},
           NEW r \in Role \union {"none"}, NEW k \in Key \union {NoKey},
           NEW pc \in {"addOwner", "wallet", "add", "insert", "update", "target", "owners",
                       "remove", "createKey", "revoke", "touch"}
    PROVE  [pc |-> pc, org |-> o, who |-> a, role |-> r, key |-> k] \in OrgCall
BY DEF OrgCall

\* A call that begins.
LEMMA Begins ==
    ASSUME OrganizationsTypeOK, OrganizationsComplete, CallsNameOrgs,
           NEW q \in Request, NEW o \in Org \union {NoOrg}, NEW a \in Account \union {NoAccount},
           NEW r \in Role \union {"none"}, NEW k \in Key \union {NoKey},
           NEW pc \in {"add", "target", "createKey", "revoke", "touch"},
           Begin(q, pc, o, a, r, k),
           NamesOrg([pc |-> pc, org |-> o, who |-> a, role |-> r, key |-> k])
    PROVE  OrganizationsTypeOK' /\ OrganizationsComplete' /\ CallsNameOrgs'
<1> DEFINE c == [pc |-> pc, org |-> o, who |-> a, role |-> r, key |-> k]
<1>1. /\ request' = [request EXCEPT ![q] = c] /\ orgFaults' = orgFaults
      /\ ~ \E b \in Org : Creating(q, b)
  BY DEF Begin, Free, Creating
<1>2. c \in OrgCall /\ NamesOrg(c)
  BY OrgCallTyped
<1>3. Changes /\ orgs' = orgs
  BY DEF Begin, Changes, OrganizationsTypeOK, CallsNameOrgs, keyVars
<1> HIDE DEF c
<1>4. Moves(q, c)
  BY <1>1, <1>2 DEF Moves, OrganizationsTypeOK
<1> QED
  BY <1>3, <1>4, CallMovesOn

\* A call that goes on, at pc, or is over.
LEMMA GoesOn ==
    ASSUME OrganizationsTypeOK, OrganizationsComplete, CallsNameOrgs, Changes, orgs' = orgs,
           NEW q \in Request, request[q] # Free,
           \/ \E pc \in {"wallet", "insert", "update", "owners", "remove"} :
                /\ Goto(q, pc) /\ orgFaults' = orgFaults
                /\ \/ pc = "wallet" /\ request[q].pc = "addOwner"
                   \/ pc \in {"insert", "update"} /\ request[q].pc = "add"
                   \/ pc \in {"owners", "remove"} /\ request[q].pc \in {"target", "owners"}
           \/ /\ Finish(q)
              /\ \/ orgFaults' \in Nat /\ orgFaults' # 0
                 \/ /\ orgFaults' = orgFaults
                    /\ request[q].pc # "addOwner"
                    /\ request[q].pc = "wallet" => request[q].org \in orgWallet'
    PROVE  OrganizationsTypeOK' /\ OrganizationsComplete' /\ CallsNameOrgs'
<1>1. request[q] \in OrgCall /\ NamesOrg(request[q]) /\ orgFaults \in Nat
  BY DEF OrganizationsTypeOK, CallsNameOrgs
<1>2. ASSUME NEW pc \in {"wallet", "insert", "update", "owners", "remove"},
             Goto(q, pc), orgFaults' = orgFaults,
             \/ pc = "wallet" /\ request[q].pc = "addOwner"
             \/ pc \in {"insert", "update"} /\ request[q].pc = "add"
             \/ pc \in {"owners", "remove"} /\ request[q].pc \in {"target", "owners"}
      PROVE  OrganizationsTypeOK' /\ OrganizationsComplete' /\ CallsNameOrgs'
  <2> DEFINE c == [request[q] EXCEPT !.pc = pc]
  <2>1. /\ c \in OrgCall /\ c.pc = pc /\ c.org = request[q].org
        /\ c.who = request[q].who /\ c.role = request[q].role /\ c.key = request[q].key
    BY <1>1 DEF OrgCall
  <2>2. request' = [request EXCEPT ![q] = c]
    BY <1>2 DEF Goto
  <2> HIDE DEF c
  <2>3. NamesOrg(c)
    BY <1>1, <1>2, <2>1 DEF NamesOrg
  <2>4. \A o \in Org : Creating(q, o) => c.pc \in {"addOwner", "wallet"} /\ c.org = o
    BY <1>2, <2>1 DEF Creating
  <2>5. Moves(q, c)
    BY <1>1, <1>2, <2>1, <2>2, <2>3, <2>4 DEF Moves
  <2> QED
    BY <2>5, CallMovesOn
<1>3. ASSUME Finish(q),
             \/ orgFaults' \in Nat /\ orgFaults' # 0
             \/ /\ orgFaults' = orgFaults
                /\ request[q].pc # "addOwner"
                /\ request[q].pc = "wallet" => request[q].org \in orgWallet'
      PROVE  OrganizationsTypeOK' /\ OrganizationsComplete' /\ CallsNameOrgs'
  <2>1. NamesOrg(Free)
    BY DEF NamesOrg, Free
  <2>2. Moves(q, Free)
    BY <1>1, <1>3, <2>1 DEF Moves, Finish, Creating
  <2> QED
    BY <2>2, CallMovesOn
<1> QED
  BY <1>2, <1>3

LEMMA OrganizationsStep ==
    OrganizationsIInv /\ [OrgsNext]_orgsVars => OrganizationsIInv'
<1> SUFFICES ASSUME OrganizationsTypeOK, OrganizationsComplete, CallsNameOrgs,
                    [OrgsNext]_orgsVars
             PROVE  OrganizationsTypeOK' /\ OrganizationsComplete' /\ CallsNameOrgs'
  BY DEF OrganizationsIInv, OrganizationsInv
<1>1. ASSUME NEW q \in Request, NEW o \in Org, NEW a \in Account, CreateOrg(q, o, a)
      PROVE  OrganizationsTypeOK' /\ OrganizationsComplete' /\ CallsNameOrgs'
  <2> DEFINE c == [Free EXCEPT !.pc = "addOwner", !.org = o, !.who = a]
  <2>1. c \in OrgCall /\ c.pc = "addOwner" /\ c.org = o /\ c.who = a
    BY DEF OrgCall, Free
  <2>2. request' = [request EXCEPT ![q] = c] /\ orgFaults' = orgFaults /\ request[q] = Free
    BY <1>1 DEF CreateOrg
  <2>3. Changes /\ orgs' = orgs \union {o}
    BY <1>1 DEF CreateOrg, Changes, OrganizationsTypeOK, CallsNameOrgs, keyVars
  <2> HIDE DEF c
  <2>4. OrganizationsTypeOK'
    BY <2>1, <2>2, <2>3 DEF OrganizationsTypeOK, Changes
  <2>5. CallsNameOrgs'
    BY <2>1, <2>2, <2>3 DEF CallsNameOrgs, NamesOrg, OrganizationsTypeOK, Changes
  <2>6. OrganizationsComplete'
    <3>1. /\ request'[q] = c
          /\ \A p \in Request \ {q} : request'[p] = request[p]
          /\ request[q].pc = "free"
      BY <2>2 DEF OrganizationsTypeOK, Free
    <3>2. orgWallet' = orgWallet
      BY <1>1 DEF CreateOrg
    <3> QED
      BY <2>1, <2>2, <2>3, <3>1, <3>2 DEF OrganizationsComplete
  <2> QED
    BY <2>4, <2>5, <2>6
<1>2. ASSUME NEW q \in Request, NEW o \in Org, NEW a \in Account, BeginCreateKey(q, o, a)
      PROVE  OrganizationsTypeOK' /\ OrganizationsComplete' /\ CallsNameOrgs'
  BY <1>2, Begins DEF BeginCreateKey, NamesOrg, CallsNameOrgs
<1>3. ASSUME NEW q \in Request, NEW o \in Org, NEW a \in Account, NEW t \in Account,
             \/ \E r \in Role : BeginAddMember(q, o, a, t, r)
             \/ BeginRemoveMember(q, o, a, t)
      PROVE  OrganizationsTypeOK' /\ OrganizationsComplete' /\ CallsNameOrgs'
  <2>1. o \in orgs
    BY <1>3 DEF BeginAddMember, BeginRemoveMember, IsManager, CallsNameOrgs
  <2> QED
    BY <1>3, <2>1, Begins DEF BeginAddMember, BeginRemoveMember, NamesOrg
<1>4. ASSUME NEW q \in Request, NEW k \in Key,
             ReadKey(q, k) \/ \E o \in Org, a \in Account : BeginRevoke(q, o, a, k)
      PROVE  OrganizationsTypeOK' /\ OrganizationsComplete' /\ CallsNameOrgs'
  BY <1>4, Begins DEF BeginRevoke, ReadKey, NamesOrg
<1>5. ASSUME NEW q \in Request, AddOwner(q) \/ CreateOrgWallet(q)
      PROVE  OrganizationsTypeOK' /\ OrganizationsComplete' /\ CallsNameOrgs'
  <2>1. /\ request[q] # Free /\ request[q].org \in orgs
        /\ request[q].pc = "addOwner" => request[q].who \in Account
    BY <1>5 DEF AddOwner, CreateOrgWallet, Free, CallsNameOrgs, NamesOrg
  <2>2. Changes /\ orgs' = orgs
    BY <1>5, <2>1 DEF AddOwner, CreateOrgWallet, Changes, OrganizationsTypeOK, CallsNameOrgs,
                      Role, keyVars
  <2> QED
    BY <1>5, <2>1, <2>2, GoesOn DEF AddOwner, CreateOrgWallet
<1>6. ASSUME NEW q \in Request,
             ReadMember(q) \/ ReadTarget(q) \/ CountOwners(q) \/ TouchKey(q) \/ CallFails(q)
      PROVE  OrganizationsTypeOK' /\ OrganizationsComplete' /\ CallsNameOrgs'
  <2>1. request[q] # Free /\ orgFaults \in Nat
    BY <1>6 DEF ReadMember, ReadTarget, CountOwners, TouchKey, CallFails, Free,
                OrganizationsTypeOK
  <2>2. Changes /\ orgs' = orgs
    BY <1>6 DEF ReadMember, ReadTarget, CountOwners, TouchKey, CallFails, Changes,
                OrganizationsTypeOK, CallsNameOrgs, keyVars
  <2>3. CASE ReadMember(q) \/ ReadTarget(q) \/ CountOwners(q)
    BY <2>1, <2>2, <2>3, GoesOn DEF ReadMember, ReadTarget, CountOwners
  <2>4. CASE TouchKey(q) \/ CallFails(q)
    BY <2>1, <2>2, <2>4, GoesOn DEF TouchKey, CallFails
  <2> QED
    BY <1>6, <2>3, <2>4
<1>7. ASSUME NEW q \in Request, AddMember(q) \/ RemoveMember(q)
      PROVE  OrganizationsTypeOK' /\ OrganizationsComplete' /\ CallsNameOrgs'
  <2>1. /\ request[q] # Free /\ request[q].org \in orgs /\ request[q].who \in Account
        /\ request[q].pc # "remove" => request[q].role \in Role
    BY <1>7 DEF AddMember, RemoveMember, Free, CallsNameOrgs, NamesOrg
  <2>2. Changes /\ orgs' = orgs
    BY <1>7, <2>1 DEF AddMember, RemoveMember, Changes, OrganizationsTypeOK, CallsNameOrgs,
                      keyVars
  <2> QED
    BY <1>7, <2>1, <2>2, GoesOn DEF AddMember, RemoveMember
<1>8. ASSUME NEW q \in Request, Revoke(q) \/ \E k \in Key : CreateKey(q, k)
      PROVE  OrganizationsTypeOK' /\ OrganizationsComplete' /\ CallsNameOrgs'
  <2>1. /\ request[q] # Free
        /\ request[q].pc = "createKey" => request[q].org \in orgs
    BY <1>8 DEF Revoke, CreateKey, Free, CallsNameOrgs, NamesOrg
  <2>2. Changes /\ orgs' = orgs
    BY <1>8, <2>1 DEF Revoke, CreateKey, Changes, OrganizationsTypeOK, CallsNameOrgs
  <2> QED
    BY <1>8, <2>1, <2>2, GoesOn DEF Revoke, CreateKey
<1>9. ASSUME NEW o \in Org, GetWallet(o)
      PROVE  OrganizationsTypeOK' /\ OrganizationsComplete' /\ CallsNameOrgs'
  BY <1>9 DEF GetWallet, keyVars, OrganizationsTypeOK, OrganizationsComplete, CallsNameOrgs,
               NamesOrg
<1>10. CASE UNCHANGED orgsVars
  BY <1>10 DEF orgsVars, keyVars, OrganizationsTypeOK, OrganizationsComplete, CallsNameOrgs,
               NamesOrg
<1> QED
  BY <1>1, <1>2, <1>3, <1>4, <1>5, <1>6, <1>7, <1>8, <1>9, <1>10 DEF OrgsNext

\* An organization nobody is creating has its wallet, as long as no call failed,
\* whatever calls race; and every key belongs to an organization that exists.
THEOREM OrganizationsCorrect == OrgsSpec => []OrganizationsInv
<1>1. OrganizationsIInv => OrganizationsInv
  BY DEF OrganizationsIInv
<1> QED
  BY <1>1, OrganizationsInitially, OrganizationsStep, PTL DEF OrgsSpec

\* A revoked API key is never active again, although a call that resolved it
\* before may still touch its row.
THEOREM RevokedKeysStayRevoked == OrgsSpec => RevokedForGood
<1>1. OrganizationsIInv /\ [OrgsNext]_orgsVars
        => [\A k \in Key : keyStatus[k] = "revoked" => keyStatus'[k] = "revoked"]_keyStatus
  <2> SUFFICES ASSUME OrganizationsTypeOK, [OrgsNext]_orgsVars, NEW k \in Key,
                      keyStatus[k] = "revoked"
               PROVE  keyStatus'[k] = "revoked"
    BY DEF OrganizationsIInv, OrganizationsInv
  <2>1. ASSUME NEW q \in Request, NEW m \in Key, CreateKey(q, m)
        PROVE  keyStatus'[k] = "revoked"
    BY <2>1 DEF CreateKey, OrganizationsTypeOK
  <2>2. ASSUME NEW q \in Request, Revoke(q)
        PROVE  keyStatus'[k] = "revoked"
    BY <2>2 DEF Revoke, OrganizationsTypeOK
  <2>3. CASE keyStatus' = keyStatus
    BY <2>3
  <2> QED
    BY ZenonT(60), <2>1, <2>2, <2>3 DEF OrgsNext, CreateOrg, BeginCreateKey, BeginAddMember,
       BeginRemoveMember, BeginRevoke, ReadKey, Begin, AddOwner, CreateOrgWallet, ReadMember,
       AddMember, ReadTarget, CountOwners, RemoveMember, TouchKey, CallFails, GetWallet,
       orgsVars, keyVars
<1> QED
  BY <1>1, OrganizationsInitially, OrganizationsStep, PTL DEF OrgsSpec, RevokedForGood

-----------------------------------------------------------------------------
(* The outbox: the row in hand *)

LEMMA RowInHandFound ==
    ASSUME OutboxTypeOK, NEW r \in Relay, relay[r].todo # {}
    PROVE  RowInHand(r) \in relay[r].todo
<1> DEFINE S == {held[1] : held \in relay[r].todo}
<1>1. relay[r].todo \in SUBSET (Event \X Nat)
  BY DEF OutboxTypeOK, Polling, Waiting
<1>2. S \in SUBSET Nat /\ S # {}
  BY <1>1 DEF Event
<1>3. PICK m \in S : \A k \in S : m <= k
  BY <1>2, LeastNat
<1>4. \E held \in relay[r].todo : \A other \in relay[r].todo : held[1] <= other[1]
  BY <1>3
<1> QED
  BY <1>4 DEF RowInHand

\* What a relay holds of its batch: rows that were inserted, one for each event;
\* and what it publishes, marks or counts was not exhausted when it was read.
HoldsItsBatch ==
    \A r \in Relay :
        /\ relay[r].todo \subseteq (1 .. inserted) \X Nat
        /\ \A x, y \in relay[r].todo : x[1] = y[1] => x = y
        /\ relay[r].pc \in {"mark", "count"} =>
             relay[r].todo # {} /\ ~ Exhausted(RowInHand(r))

OutboxIInv == OutboxInv /\ HoldsItsBatch

LEMMA CurrentInserted ==
    ASSUME OutboxTypeOK, HoldsItsBatch, NEW r \in Relay, relay[r].todo # {}
    PROVE  /\ RowInHand(r) \in relay[r].todo /\ RowInHand(r) = <<Current(r), RowInHand(r)[2]>>
           /\ Current(r) \in 1 .. inserted /\ Current(r) \in Event
<1>1. RowInHand(r) \in relay[r].todo
  BY RowInHandFound
<1>2. RowInHand(r) \in (1 .. inserted) \X Nat
  BY <1>1 DEF HoldsItsBatch
<1> QED
  BY <1>1, <1>2, OutboxAssumption DEF Current, Event, OutboxTypeOK

-----------------------------------------------------------------------------
(* Types and batches *)

LEMMA TypeStep ==
    ASSUME OutboxIInv, [Next]_vars
    PROVE  OutboxTypeOK'
<1> USE OutboxAssumption DEF OutboxIInv, OutboxInv
<1>1. CASE Insert
  BY <1>1 DEF Insert, OutboxTypeOK
<1>2. ASSUME NEW r \in Relay, Poll(r)
      PROVE  OutboxTypeOK'
  <2>1. Batch \subseteq Event
    BY DEF Batch, Unpublished, Event, OutboxTypeOK
  <2>2. {<<e, attempts[e]>> : e \in Batch} \in SUBSET (Event \X Nat)
    BY <2>1 DEF OutboxTypeOK
  <2>3. relay' = [relay EXCEPT ![r] =
                    [relay[r] EXCEPT !.pc = "next", !.todo = {<<e, attempts[e]>> : e \in Batch}]]
    BY <1>2 DEF Poll, OutboxTypeOK
  <2>4. [relay[r] EXCEPT !.pc = "next", !.todo = {<<e, attempts[e]>> : e \in Batch}] \in Polling
    BY <1>2, <2>2 DEF Poll, Waiting, Polling
  <2> QED
    BY <1>2, <2>3, <2>4 DEF Poll, OutboxTypeOK
<1>3. ASSUME NEW r \in Relay, relay[r] \in Polling, SkipDead(r) \/ MarkPublished(r) \/ IncrementAttempts(r)
      PROVE  relay' \in [Relay -> Polling \union {Waiting}]
  BY <1>3 DEF SkipDead, MarkPublished, IncrementAttempts, OutboxTypeOK, Polling, Done
<1>4. ASSUME NEW r \in Relay, relay[r].pc # "waiting"
      PROVE  relay[r] \in Polling
  BY <1>4 DEF OutboxTypeOK, Waiting
<1>5. ASSUME NEW r \in Relay, SkipDead(r)
      PROVE  OutboxTypeOK'
  BY <1>3, <1>4, <1>5 DEF SkipDead, OutboxTypeOK
<1>6. ASSUME NEW r \in Relay, Publish(r)
      PROVE  OutboxTypeOK'
  <2>1. relay[r] \in Polling /\ Current(r) \in 1 .. inserted
    BY <1>4, <1>6, CurrentInserted DEF Publish
  <2>2. relay' \in [Relay -> Polling \union {Waiting}]
    BY <1>6, <2>1 DEF Publish, OutboxTypeOK, Polling
  <2>3. delivered' \in {delivered, delivered \union {Current(r)}} /\ faults' \in Nat
    BY <1>6 DEF Publish, OutboxTypeOK
  <2> QED
    BY <1>6, <2>1, <2>2, <2>3 DEF Publish, OutboxTypeOK
<1>7. ASSUME NEW r \in Relay, MarkPublished(r)
      PROVE  OutboxTypeOK'
  <2>1. Current(r) \in delivered /\ relay[r] \in Polling
    BY <1>4, <1>7 DEF MarkPublished, MarksWhatItSent
  <2>2. relay' \in [Relay -> Polling \union {Waiting}]
    BY <1>3, <1>7, <2>1
  <2>3. /\ published' \subseteq 1 .. inserted /\ old' \subseteq published' /\ deleted \subseteq old'
        /\ faults' \in Nat
    BY <1>7, <2>1 DEF MarkPublished, OutboxTypeOK
  <2> QED
    BY <1>7, <2>2, <2>3 DEF MarkPublished, OutboxTypeOK
<1>8. ASSUME NEW r \in Relay, IncrementAttempts(r)
      PROVE  OutboxTypeOK'
  <2>1. relay' \in [Relay -> Polling \union {Waiting}]
    BY <1>3, <1>4, <1>8 DEF IncrementAttempts
  <2>2. attempts' \in [Event -> Nat] /\ faults' \in Nat
    BY <1>8 DEF IncrementAttempts, OutboxTypeOK
  <2> QED
    BY <1>8, <2>1, <2>2 DEF IncrementAttempts, OutboxTypeOK
<1>9. ASSUME NEW r \in Relay, EndPoll(r) \/ Restart(r)
      PROVE  OutboxTypeOK'
  <2>1. relay' \in [Relay -> Polling \union {Waiting}] /\ faults' \in Nat
    BY <1>9 DEF EndPoll, Restart, OutboxTypeOK
  <2> QED
    BY <1>9, <2>1 DEF EndPoll, Restart, OutboxTypeOK
<1>12. ASSUME NEW r \in Relay, Cleanup(r)
       PROVE  OutboxTypeOK'
  BY <1>12 DEF Cleanup, OutboxTypeOK
<1>10. ASSUME NEW e \in Event, TurnsOld(e)
       PROVE  OutboxTypeOK'
  BY <1>10 DEF TurnsOld, OutboxTypeOK
<1>11. CASE UNCHANGED vars
  BY <1>11 DEF vars, OutboxTypeOK
<1> QED
  BY <1>1, <1>2, <1>5, <1>6, <1>7, <1>8, <1>9, <1>10, <1>11, <1>12
  DEF Next, RelayStep

LEMMA BatchStep ==
    ASSUME OutboxIInv, [Next]_vars
    PROVE  HoldsItsBatch'
<1> USE OutboxAssumption DEF OutboxIInv, OutboxInv
<1>1. inserted' \in Nat /\ inserted \in Nat /\ inserted <= inserted'
  <2>1. inserted' = inserted + 1 \/ inserted' = inserted
    BY DEF Next, vars, Insert, RelayStep, Poll, SkipDead, Publish, MarkPublished,
           IncrementAttempts, EndPoll, Cleanup, Restart, TurnsOld
  <2>2. inserted \in Nat
    BY DEF OutboxTypeOK
  <2> QED
    BY <2>1, <2>2
<1>2. (1 .. inserted) \X Nat \subseteq (1 .. inserted') \X Nat
  BY <1>1
<1>3. ASSUME NEW r \in Relay,
             \A s \in Relay \ {r} : relay'[s] = relay[s],
             relay'[r].todo \subseteq (1 .. inserted) \X Nat,
             \A x, y \in relay'[r].todo : x[1] = y[1] => x = y,
             relay'[r].pc \in {"mark", "count"} =>
               relay'[r].todo = relay[r].todo /\ relay[r].todo # {} /\ ~ Exhausted(RowInHand(r))
      PROVE  HoldsItsBatch'
  <2> SUFFICES ASSUME NEW s \in Relay
               PROVE  /\ relay'[s].todo \subseteq (1 .. inserted') \X Nat
                      /\ \A x, y \in relay'[s].todo : x[1] = y[1] => x = y
                      /\ relay'[s].pc \in {"mark", "count"} =>
                           relay'[s].todo # {} /\ ~ Exhausted(RowInHand(s))'
    BY DEF HoldsItsBatch
  <2>1. CASE s = r
    <3>1. relay'[r].todo = relay[r].todo => RowInHand(r)' = RowInHand(r)
      BY DEF RowInHand
    <3> QED
      BY <1>2, <1>3, <2>1, <3>1 DEF Exhausted
  <2>2. CASE s # r
    <3>1. RowInHand(s)' = RowInHand(s)
      BY <1>3, <2>2 DEF RowInHand
    <3> QED
      BY <1>2, <1>3, <2>2, <3>1 DEF HoldsItsBatch, Exhausted
  <2> QED
    BY <2>1, <2>2
<1>4. ASSUME UNCHANGED relay
      PROVE  HoldsItsBatch'
  <2>1. \A r \in Relay : RowInHand(r)' = RowInHand(r)
    BY <1>4 DEF RowInHand
  <2> QED
    BY <1>2, <1>4, <2>1 DEF HoldsItsBatch, Exhausted
<1>5. ASSUME NEW r \in Relay, Poll(r)
      PROVE  HoldsItsBatch'
  <2>1. Batch \subseteq 1 .. inserted /\ Batch \subseteq Event
    BY DEF Batch, Unpublished, Event, OutboxTypeOK
  <2>2. /\ relay'[r].todo = {<<e, attempts[e]>> : e \in Batch} /\ relay'[r].pc = "next"
        /\ \A s \in Relay \ {r} : relay'[s] = relay[s]
    BY <1>5 DEF Poll, OutboxTypeOK, Waiting
  <2>3. relay'[r].todo \subseteq (1 .. inserted) \X Nat
    <3>1. \A e \in Batch : <<e, attempts[e]>> \in (1 .. inserted) \X Nat
      BY <2>1 DEF OutboxTypeOK
    <3> QED
      BY <2>2, <3>1
  <2>4. \A x, y \in relay'[r].todo : x[1] = y[1] => x = y
    BY <2>2
  <2> QED
    BY <1>3, <2>2, <2>3, <2>4
<1>6. ASSUME NEW r \in Relay, SkipDead(r) \/ MarkPublished(r) \/ IncrementAttempts(r)
      PROVE  HoldsItsBatch'
  <2>1. /\ relay'[r].todo \subseteq relay[r].todo /\ relay'[r].pc = "next"
        /\ \A s \in Relay \ {r} : relay'[s] = relay[s]
    BY <1>6 DEF SkipDead, MarkPublished, IncrementAttempts, Done, OutboxTypeOK, Polling, Waiting
  <2> QED
    BY <1>3, <2>1 DEF HoldsItsBatch
<1>7. ASSUME NEW r \in Relay, Publish(r)
      PROVE  HoldsItsBatch'
  <2>1. /\ relay'[r].todo = relay[r].todo /\ relay[r].todo # {} /\ ~ Exhausted(RowInHand(r))
        /\ \A s \in Relay \ {r} : relay'[s] = relay[s]
    BY <1>7 DEF Publish, OutboxTypeOK, Polling, Waiting
  <2> QED
    BY <1>3, <2>1 DEF HoldsItsBatch
<1>8. ASSUME NEW r \in Relay, EndPoll(r) \/ Restart(r)
      PROVE  HoldsItsBatch'
  <2>1. /\ relay'[r].todo = {} /\ relay'[r].pc = "waiting"
        /\ \A s \in Relay \ {r} : relay'[s] = relay[s]
    BY <1>8 DEF EndPoll, Restart, OutboxTypeOK, Waiting
  <2> QED
    BY <1>3, <2>1
<1>9. ASSUME Insert \/ (\E r \in Relay : Cleanup(r)) \/ (\E e \in Event : TurnsOld(e))
             \/ UNCHANGED vars
      PROVE  HoldsItsBatch'
  BY <1>4, <1>9 DEF Insert, Cleanup, TurnsOld, vars
<1> QED
  BY <1>5, <1>6, <1>7, <1>8, <1>9 DEF Next, RelayStep

-----------------------------------------------------------------------------
(* No event is lost *)

LEMMA DeliveryStep ==
    ASSUME OutboxIInv, [Next]_vars
    PROVE  MarkedIsDelivered' /\ MarksWhatItSent'
<1> USE DEF OutboxIInv, OutboxInv, MarkedIsDelivered
<1>1. ASSUME delivered \subseteq delivered',
             published' \subseteq delivered,
             \A r \in Relay : relay'[r].pc = "mark" =>
               relay'[r].todo = relay[r].todo /\ Current(r) \in delivered'
      PROVE  MarkedIsDelivered' /\ MarksWhatItSent'
  <2>1. \A r \in Relay : relay'[r].todo = relay[r].todo => Current(r)' = Current(r)
    BY DEF Current, RowInHand
  <2> QED
    BY <1>1, <2>1 DEF MarksWhatItSent
<1>2. ASSUME NEW r \in Relay, Publish(r)
      PROVE  MarkedIsDelivered' /\ MarksWhatItSent'
  <2>1. /\ delivered \subseteq delivered' /\ published' = published
        /\ relay'[r].todo = relay[r].todo
        /\ relay'[r].pc = "mark" => Current(r) \in delivered'
        /\ \A s \in Relay \ {r} : relay'[s] = relay[s]
    BY <1>2 DEF Publish, OutboxTypeOK, Polling, Waiting
  <2> QED
    BY <1>1, <2>1 DEF MarksWhatItSent
<1>3. ASSUME NEW r \in Relay,
             \/ Poll(r) \/ SkipDead(r) \/ MarkPublished(r)
             \/ IncrementAttempts(r) \/ EndPoll(r) \/ Restart(r)
      PROVE  MarkedIsDelivered' /\ MarksWhatItSent'
  <2>1. /\ delivered' = delivered /\ relay'[r].pc # "mark"
        /\ \A s \in Relay \ {r} : relay'[s] = relay[s]
    BY <1>3 DEF Poll, SkipDead, MarkPublished, IncrementAttempts, EndPoll, Restart,
                OutboxTypeOK, Polling, Waiting
  <2>2. published' \subseteq delivered
    BY <1>3 DEF Poll, SkipDead, MarkPublished, IncrementAttempts, EndPoll, Restart,
                MarksWhatItSent
  <2> QED
    BY <1>1, <2>1, <2>2 DEF MarksWhatItSent
<1>4. ASSUME Insert \/ (\E r \in Relay : Cleanup(r)) \/ (\E e \in Event : TurnsOld(e))
             \/ UNCHANGED vars
      PROVE  MarkedIsDelivered' /\ MarksWhatItSent'
  <2>1. UNCHANGED <<delivered, published, relay>>
    BY <1>4 DEF Insert, Cleanup, TurnsOld, vars
  <2> QED
    BY <1>1, <2>1 DEF MarksWhatItSent
<1> QED
  BY <1>2, <1>3, <1>4 DEF Next, RelayStep

-----------------------------------------------------------------------------
(* The attempts at an event *)

LEMMA InHandFinite ==
    ASSUME NEW S \in SUBSET Relay
    PROVE  IsFiniteSet(S) /\ Cardinality(S) \in Nat /\ Cardinality(S) <= Cardinality(Relay)
BY OutboxAssumption, FS_Subset, FS_CardinalityType

LEMMA AttemptsStep ==
    ASSUME OutboxIInv, [Next]_vars
    PROVE  AttemptsBounded'
<1> USE DEF OutboxIInv, OutboxInv
<1> DEFINE N == Cardinality(Relay)
           Bounded(n, S) == n < MaxAttempts \/ n + Cardinality(S) <= MaxAttempts + N - 1
<1>0. N \in Nat /\ MaxAttempts \in Nat /\ \A e \in Event : attempts[e] \in Nat
  BY OutboxAssumption, FS_CardinalityType DEF OutboxTypeOK
<1>1. ASSUME NEW e \in Event, attempts'[e] = attempts[e],
             attempts[e] >= MaxAttempts => InHand(e)' \subseteq InHand(e)
      PROVE  Bounded(attempts'[e], InHand(e)')
  <2>1. Bounded(attempts[e], InHand(e))
    BY DEF AttemptsBounded
  <2>2. CASE attempts[e] < MaxAttempts
    BY <1>1, <2>2
  <2>3. CASE attempts[e] >= MaxAttempts
    <3>1. InHand(e) \in SUBSET Relay /\ InHand(e)' \in SUBSET InHand(e)
      BY <1>1, <2>3 DEF InHand
    <3>2. /\ Cardinality(InHand(e)) \in Nat /\ Cardinality(InHand(e)') \in Nat
          /\ Cardinality(InHand(e)') <= Cardinality(InHand(e))
      BY <3>1, InHandFinite, FS_Subset, FS_CardinalityType
    <3> QED
      BY <1>0, <1>1, <2>1, <2>3, <3>2
  <2> QED
    BY <1>0, <2>2, <2>3
<1>2. ASSUME NEW r \in Relay, IncrementAttempts(r), NEW e \in Event, attempts'[e] # attempts[e]
      PROVE  Bounded(attempts'[e], InHand(e)')
  <2>1. /\ relay[r].pc = "count" /\ e = Current(r) /\ attempts'[e] = attempts[e] + 1
        /\ relay'[r].todo = relay[r].todo \ {RowInHand(r)}
        /\ \A s \in Relay \ {r} : relay'[s] = relay[s]
    BY <1>2 DEF IncrementAttempts, Done, OutboxTypeOK, Polling, Waiting
  <2>2. /\ RowInHand(r) \in relay[r].todo /\ RowInHand(r)[1] = e /\ ~ Exhausted(RowInHand(r))
        /\ \A held \in relay[r].todo : held[1] = e => held = RowInHand(r)
    BY <2>1, CurrentInserted DEF HoldsItsBatch, Current
  <2>3. r \in InHand(e) /\ InHand(e) \in SUBSET Relay
    BY <2>2 DEF InHand
  <2>4. InHand(e)' \in SUBSET (InHand(e) \ {r})
    BY <2>1, <2>2 DEF InHand, Exhausted
  <2>5. /\ Cardinality(InHand(e)) \in Nat /\ Cardinality(InHand(e)') \in Nat
        /\ Cardinality(InHand(e)) <= N
        /\ Cardinality(InHand(e)') <= Cardinality(InHand(e)) - 1
    <3>1. IsFiniteSet(InHand(e)) /\ Cardinality(InHand(e)) \in Nat /\ Cardinality(InHand(e)) <= N
      BY <2>3, InHandFinite
    <3>2. /\ IsFiniteSet(InHand(e) \ {r})
          /\ Cardinality(InHand(e) \ {r}) = Cardinality(InHand(e)) - 1
      BY <2>3, <3>1, FS_RemoveElement
    <3> QED
      BY <2>4, <3>1, <3>2, FS_Subset, FS_CardinalityType
  <2>6. Bounded(attempts[e], InHand(e))
    BY DEF AttemptsBounded
  <2> QED
    BY <1>0, <2>1, <2>5, <2>6
<1>3. ASSUME NEW r \in Relay, Poll(r), NEW e \in Event
      PROVE  Bounded(attempts'[e], InHand(e)')
  <2>1. /\ relay'[r].todo = {<<d, attempts[d]>> : d \in Batch} /\ attempts' = attempts
        /\ \A s \in Relay \ {r} : relay'[s] = relay[s]
    BY <1>3 DEF Poll, OutboxTypeOK, Waiting
  <2>2. ASSUME attempts[e] >= MaxAttempts
        PROVE  InHand(e)' \subseteq InHand(e)
    BY <2>1, <2>2 DEF InHand, Exhausted
  <2> QED
    BY <1>1, <2>1, <2>2
<1>4. ASSUME \A r \in Relay : relay'[r].todo \subseteq relay[r].todo, NEW e \in Event
      PROVE  InHand(e)' \subseteq InHand(e)
  BY <1>4 DEF InHand, Exhausted
<1>5. ASSUME NEW r \in Relay,
             \/ SkipDead(r) \/ Publish(r) \/ MarkPublished(r)
             \/ IncrementAttempts(r) \/ EndPoll(r) \/ Restart(r)
      PROVE  \A s \in Relay : relay'[s].todo \subseteq relay[s].todo
  BY <1>5 DEF SkipDead, Publish, MarkPublished, IncrementAttempts, EndPoll, Restart, Done,
              OutboxTypeOK, Polling, Waiting
<1>6. ASSUME NEW r \in Relay, NEW e \in Event,
             \/ SkipDead(r) \/ Publish(r) \/ MarkPublished(r)
             \/ IncrementAttempts(r) \/ EndPoll(r) \/ Restart(r)
      PROVE  Bounded(attempts'[e], InHand(e)')
  <2>1. InHand(e)' \subseteq InHand(e)
    BY <1>4, <1>5, <1>6
  <2>2. ~ IncrementAttempts(r) => attempts'[e] = attempts[e]
    BY <1>6 DEF SkipDead, Publish, MarkPublished, EndPoll, Restart
  <2> QED
    BY <1>1, <1>2, <2>1, <2>2
<1>7. ASSUME Insert \/ (\E r \in Relay : Cleanup(r)) \/ (\E d \in Event : TurnsOld(d))
             \/ UNCHANGED vars, NEW e \in Event
      PROVE  Bounded(attempts'[e], InHand(e)')
  <2>1. UNCHANGED <<attempts, relay>>
    BY <1>7 DEF Insert, Cleanup, TurnsOld, vars
  <2>2. InHand(e)' \subseteq InHand(e)
    BY <2>1 DEF InHand, Exhausted
  <2> QED
    BY <1>1, <2>1, <2>2
<1>8. \A e \in Event : Bounded(attempts'[e], InHand(e)')
  BY <1>3, <1>6, <1>7 DEF Next, RelayStep
<1> QED
  BY <1>8 DEF AttemptsBounded

\* A row is marked, and later deleted, only when the stream has taken its event;
\* and relays of several pods, which read the attempts of an event before they
\* add to them, go over outboxMaxAttempts by less than one attempt each.
THEOREM OutboxCorrect == Spec => []OutboxInv
<1>1. Init => OutboxIInv
  BY OutboxAssumption
  DEF Init, OutboxIInv, OutboxInv, OutboxTypeOK, MarksWhatItSent, MarkedIsDelivered,
      AttemptsBounded, HoldsItsBatch, Waiting
<1>2. OutboxIInv /\ [Next]_vars => OutboxIInv'
  BY TypeStep, BatchStep, DeliveryStep, AttemptsStep DEF OutboxIInv, OutboxInv
<1>3. OutboxIInv => OutboxInv
  BY DEF OutboxIInv
<1> QED
  BY <1>1, <1>2, <1>3, PTL DEF Spec

-----------------------------------------------------------------------------
(* Reminders: the inductive invariant *)

NotifRec == [pc : {"idle", "list", "check", "mail", "mark", "release"},
             i : DOMAIN ReminderDays, todo : SUBSET Expiring]

\* The reminder at which a run is, and what it is about to do with it.
Reminds(n) == <<CHOOSE s \in n.todo : TRUE, ReminderDays[n.i]>>
Mails(n, r) == n.pc = "mail" /\ Reminds(n) = r
Marks(n, r) == n.pc = "mark" /\ Reminds(n) = r

\* Reminder r comes up later in a run.
ComesTo(n, r) ==
    \E j \in DOMAIN ReminderDays :
        /\ ReminderDays[j] = r[2]
        /\ \/ n.pc = "list" /\ n.i <= j
           \/ n.pc \in {"check", "mail", "mark"} /\ (n.i < j \/ (n.i = j /\ r[1] \in n.todo))

Running == {p \in NotifPod : notif[p].pc # "idle"}
Unlocked == Running \ {notifLock}
Mailers(r) == {p \in NotifPod : Mails(notif[p], r)}
Markers(r) == {p \in NotifPod : Marks(notif[p], r)}

\* Every run without the lock and every mail that nobody is about to mark is due
\* to a failure; once a reminder is marked, the runs that checked before may
\* still mail it.
FailuresPay ==
    /\ Cardinality(Unlocked) <= notifFaults
    /\ \A r \in Reminder \ reminded :
        mails[r] + Cardinality(Unlocked) <= notifFaults + Cardinality(Markers(r))
    /\ \A r \in reminded : mails[r] + Cardinality(Mailers(r)) <= 1 + notifFaults

RunsHoldReminders ==
    \A p \in NotifPod :
        /\ notif[p].pc = "idle" => notif[p] = IdleNotif
        /\ notif[p].pc \in {"mail", "mark"} => notif[p].todo # {}
        /\ notif[p].pc = "mark" => mails[Reminds(notif[p])] > 0

\* Without a failure the lock is its run's, and from the first tick of a day on
\* every reminder of that day has gone out or is yet to come up.
DayIsCovered ==
    /\ notifLock # NoNotifPod => notif[notifLock].pc # "idle"
    /\ Running \subseteq ticked
    /\ \A r \in Reminder :
        daysLeft[r[1]] > 0 /\ today > 0 /\ daysLeft[r[1]] < r[2] => mails[r] > 0
    /\ ticked # {} =>
        \A r \in Reminder :
            daysLeft[r[1]] > 0 /\ daysLeft[r[1]] <= r[2] =>
                mails[r] > 0 \/ \E p \in NotifPod : ComesTo(notif[p], r)

RemindersIInv ==
    /\ RemindersTypeOK
    /\ \A r \in reminded : mails[r] > 0
    /\ RunsHoldReminders
    /\ FailuresPay
    /\ notifFaults = 0 => DayIsCovered

-----------------------------------------------------------------------------
(* Reminders: pods that mail, mark and run, counted *)

One(b) == IF b THEN 1 ELSE 0

\* A set that differs from another at one element differs by one in size.
LEMMA OneMember ==
    ASSUME NEW S, IsFiniteSet(S), NEW T, NEW p, \A q : q # p => (q \in T <=> q \in S)
    PROVE  /\ IsFiniteSet(T) /\ Cardinality(S) \in Nat /\ Cardinality(T) \in Nat
           /\ Cardinality(T) + One(p \in S) = Cardinality(S) + One(p \in T)
<1>1. Cardinality(S) \in Nat
  BY FS_CardinalityType
<1>2. CASE (p \in S) = (p \in T)
  <2>1. T = S
    BY <1>2
  <2> QED
    BY <2>1, <1>1 DEF One
<1>3. CASE p \in S /\ p \notin T
  <2>1. T = S \ {p}
    BY <1>3
  <2>2. IsFiniteSet(T) /\ Cardinality(T) = Cardinality(S) - 1 /\ Cardinality(T) \in Nat
    BY <2>1, <1>3, FS_RemoveElement, FS_CardinalityType
  <2> QED
    BY <2>2, <1>1, <1>3 DEF One
<1>4. CASE p \notin S /\ p \in T
  <2>1. T = S \union {p}
    BY <1>4
  <2>2. IsFiniteSet(T) /\ Cardinality(T) = Cardinality(S) + 1 /\ Cardinality(T) \in Nat
    BY <2>1, <1>4, FS_AddElement, FS_CardinalityType
  <2> QED
    BY <2>2, <1>1, <1>4 DEF One
<1> QED
  BY <1>2, <1>3, <1>4

\* Pod p goes on to c.
PodMoves(p, c) == notif' = [notif EXCEPT ![p] = c]

\* The sets of pods that FailuresPay counts are finite.
LEMMA PodsAreFinite ==
    ASSUME NEW S \in SUBSET NotifPod
    PROVE  IsFiniteSet(S) /\ Cardinality(S) \in Nat
BY RemindersAssumption, FS_Subset, FS_CardinalityType

\* When one pod moves, the counts change by what that pod does.
LEMMA CountsChange ==
    ASSUME notif \in [NotifPod -> NotifRec], NEW p \in NotifPod, NEW c, PodMoves(p, c),
           NEW r
    PROVE  /\ Cardinality(Markers(r)) \in Nat /\ Cardinality(Markers(r)') \in Nat
           /\ Cardinality(Mailers(r)) \in Nat /\ Cardinality(Mailers(r)') \in Nat
           /\ Cardinality(Markers(r)') + One(Marks(notif[p], r))
                = Cardinality(Markers(r)) + One(Marks(c, r))
           /\ Cardinality(Mailers(r)') + One(Mails(notif[p], r))
                = Cardinality(Mailers(r)) + One(Mails(c, r))
<1>1. notif'[p] = c /\ \A q \in NotifPod : q # p => notif'[q] = notif[q]
  BY DEF PodMoves
<1>2. /\ \A q : q # p => (q \in Markers(r)' <=> q \in Markers(r))
      /\ \A q : q # p => (q \in Mailers(r)' <=> q \in Mailers(r))
  BY <1>1 DEF Markers, Mailers, Marks, Mails
<1>3. /\ (p \in Markers(r)) <=> Marks(notif[p], r)
      /\ (p \in Markers(r)') <=> Marks(c, r)
      /\ (p \in Mailers(r)) <=> Mails(notif[p], r)
      /\ (p \in Mailers(r)') <=> Mails(c, r)
  BY <1>1 DEF Markers, Mailers, Marks, Mails
<1>4. IsFiniteSet(Markers(r)) /\ IsFiniteSet(Mailers(r))
  BY PodsAreFinite DEF Markers, Mailers
<1>5. Cardinality(Markers(r)') + One(p \in Markers(r)) = Cardinality(Markers(r)) + One(p \in Markers(r)')
      /\ Cardinality(Markers(r)) \in Nat /\ Cardinality(Markers(r)') \in Nat
  BY <1>2, <1>4, OneMember
<1>6. Cardinality(Mailers(r)') + One(p \in Mailers(r)) = Cardinality(Mailers(r)) + One(p \in Mailers(r)')
      /\ Cardinality(Mailers(r)) \in Nat /\ Cardinality(Mailers(r)') \in Nat
  BY <1>2, <1>4, OneMember
<1> QED
  BY <1>3, <1>5, <1>6 DEF One

\* A run is at one reminder at a time, and only one run has the lock.
LEMMA RunsCounted ==
    ASSUME NEW r
    PROVE  /\ Cardinality(Markers(r)) + Cardinality(Mailers(r)) <= Cardinality(Unlocked) + 1
           /\ Cardinality(Unlocked) \in Nat
           /\ Cardinality(Markers(r)) \in Nat /\ Cardinality(Mailers(r)) \in Nat
<1>1. IsFiniteSet(Running) /\ IsFiniteSet(Unlocked) /\ IsFiniteSet(Markers(r)) /\ IsFiniteSet(Mailers(r))
  BY PodsAreFinite DEF Running, Unlocked, Markers, Mailers
<1>2. /\ Cardinality(Unlocked) \in Nat /\ Cardinality(Running) \in Nat
      /\ Cardinality(Markers(r)) \in Nat /\ Cardinality(Mailers(r)) \in Nat
  BY <1>1, FS_CardinalityType
<1>3. Markers(r) \intersect Mailers(r) = {}
  BY DEF Markers, Mailers, Marks, Mails
<1>4. Cardinality(Markers(r) \union Mailers(r)) = Cardinality(Markers(r)) + Cardinality(Mailers(r))
  BY <1>1, <1>2, <1>3, FS_Union, FS_EmptySet
<1>5. Markers(r) \union Mailers(r) \subseteq Running
  BY DEF Markers, Mailers, Marks, Mails, Running
<1>6. Cardinality(Markers(r) \union Mailers(r)) <= Cardinality(Running)
  BY <1>1, <1>5, FS_Subset
<1>7. Cardinality(Running) <= Cardinality(Unlocked) + 1
  <2>1. Cardinality(Unlocked) + One(notifLock \in Running) = Cardinality(Running) + One(notifLock \in Unlocked)
    <3>1. \A q : q # notifLock => (q \in Unlocked <=> q \in Running)
      BY DEF Unlocked
    <3> QED
      BY <3>1, <1>1, OneMember
  <2>2. notifLock \notin Unlocked
    BY DEF Unlocked
  <2> QED
    BY <2>1, <2>2, <1>2 DEF One
<1> QED
  BY <1>2, <1>4, <1>6, <1>7

\* What FailuresPay says of every reminder: one mail, and one more per failure.
LEMMA MailsBounded ==
    ASSUME FailuresPay, notifFaults \in Nat, mails \in [Reminder -> Nat], NEW r \in Reminder
    PROVE  mails[r] <= 1 + notifFaults
<1>1. /\ Cardinality(Markers(r)) + Cardinality(Mailers(r)) <= Cardinality(Unlocked) + 1
      /\ Cardinality(Unlocked) \in Nat
      /\ Cardinality(Markers(r)) \in Nat /\ Cardinality(Mailers(r)) \in Nat
  BY RunsCounted
<1>2. mails[r] \in Nat
  OBVIOUS
<1>3. CASE r \in reminded
  BY <1>1, <1>2, <1>3 DEF FailuresPay
<1>4. CASE r \notin reminded
  BY <1>1, <1>2, <1>4 DEF FailuresPay
<1> QED
  BY <1>3, <1>4

\* One pod moves, with f failures: a mail is paid for by the mark to come, by a
\* mailer that is gone or by a failure.
LEMMA FailuresStillPay ==
    ASSUME FailuresPay, notif \in [NotifPod -> NotifRec], notifFaults \in Nat,
           mails \in [Reminder -> Nat], mails' \in [Reminder -> Nat],
           NEW p \in NotifPod, NEW c, PodMoves(p, c),
           NEW f \in {0, 1}, notifFaults' = notifFaults + f,
           Cardinality(Unlocked') \in Nat, Cardinality(Unlocked') <= Cardinality(Unlocked),
           reminded \subseteq reminded',
           \A r \in Reminder \ reminded' :
               mails'[r] + One(Marks(notif[p], r)) <= mails[r] + One(Marks(c, r)) + f,
           \A r \in reminded :
               mails'[r] + One(Mails(c, r)) <= mails[r] + One(Mails(notif[p], r)) + f,
           \A r \in reminded' \ reminded : mails'[r] = mails[r] /\ ~Mails(c, r),
           reminded' \subseteq Reminder
    PROVE  FailuresPay'
<1>1. Cardinality(Unlocked) \in Nat
  BY PodsAreFinite DEF Unlocked, Running
<1>2. Cardinality(Unlocked') <= notifFaults'
  BY <1>1 DEF FailuresPay
<1>3. ASSUME NEW r \in Reminder, r \notin reminded'
      PROVE  mails'[r] + Cardinality(Unlocked') <= notifFaults' + Cardinality(Markers(r)')
  <2>1. mails[r] + Cardinality(Unlocked) <= notifFaults + Cardinality(Markers(r))
    BY <1>3 DEF FailuresPay
  <2>2. /\ Cardinality(Markers(r)) \in Nat /\ Cardinality(Markers(r)') \in Nat
        /\ Cardinality(Markers(r)') + One(Marks(notif[p], r)) = Cardinality(Markers(r)) + One(Marks(c, r))
    BY CountsChange
  <2>3. mails'[r] + One(Marks(notif[p], r)) <= mails[r] + One(Marks(c, r)) + f
    BY <1>3
  <2>4. mails[r] \in Nat /\ mails'[r] \in Nat
    OBVIOUS
  <2>5. One(Marks(notif[p], r)) \in Nat /\ One(Marks(c, r)) \in Nat
    BY DEF One
  <2> QED
    BY <2>1, <2>2, <2>3, <2>4, <2>5, <1>1
<1>4. ASSUME NEW r \in reminded
      PROVE  mails'[r] + Cardinality(Mailers(r)') <= 1 + notifFaults'
  <2>1. mails[r] + Cardinality(Mailers(r)) <= 1 + notifFaults
    BY DEF FailuresPay
  <2>2. /\ Cardinality(Mailers(r)) \in Nat /\ Cardinality(Mailers(r)') \in Nat
        /\ Cardinality(Mailers(r)') + One(Mails(notif[p], r)) = Cardinality(Mailers(r)) + One(Mails(c, r))
    BY CountsChange
  <2>3. mails'[r] + One(Mails(c, r)) <= mails[r] + One(Mails(notif[p], r)) + f
    OBVIOUS
  <2>4. mails[r] \in Nat /\ mails'[r] \in Nat
    OBVIOUS
  <2>5. One(Mails(notif[p], r)) \in Nat /\ One(Mails(c, r)) \in Nat
    BY DEF One
  <2> QED
    BY <2>1, <2>2, <2>3, <2>4, <2>5
<1>5. ASSUME NEW r \in reminded', r \notin reminded
      PROVE  mails'[r] + Cardinality(Mailers(r)') <= 1 + notifFaults'
  <2>1. mails[r] + Cardinality(Unlocked) <= notifFaults + Cardinality(Markers(r))
    BY <1>5 DEF FailuresPay
  <2>2. /\ Cardinality(Markers(r)) + Cardinality(Mailers(r)) <= Cardinality(Unlocked) + 1
        /\ Cardinality(Markers(r)) \in Nat /\ Cardinality(Mailers(r)) \in Nat
    BY RunsCounted
  <2>3. /\ Cardinality(Mailers(r)') \in Nat
        /\ Cardinality(Mailers(r)') + One(Mails(notif[p], r)) = Cardinality(Mailers(r)) + One(Mails(c, r))
    BY CountsChange
  <2>4. mails'[r] = mails[r] /\ One(Mails(c, r)) = 0 /\ One(Mails(notif[p], r)) \in Nat
    BY <1>5 DEF One
  <2>5. mails[r] \in Nat
    BY <1>5
  <2> QED
    BY <2>1, <2>2, <2>3, <2>4, <2>5, <1>1
<1> QED
  BY <1>2, <1>3, <1>4, <1>5 DEF FailuresPay

\* A pod that goes on, or stops, leaves the lock where it is.
LEMMA NoMoreUnlocked ==
    ASSUME notif \in [NotifPod -> NotifRec], NEW p \in NotifPod, NEW c, PodMoves(p, c),
           notifLock' = notifLock, c.pc # "idle" => notif[p].pc # "idle"
    PROVE  Cardinality(Unlocked') \in Nat /\ Cardinality(Unlocked') <= Cardinality(Unlocked)
<1>1. Unlocked' \subseteq Unlocked
  BY DEF Unlocked, Running, PodMoves
<1>2. IsFiniteSet(Unlocked)
  BY PodsAreFinite DEF Unlocked, Running
<1> QED
  BY <1>1, <1>2, FS_Subset, FS_CardinalityType

\* The pods are where the model lets them be, and one that is to mail or to mark
\* knows what; a pod moves to c, and no mail is taken back.
LEMMA RunsStillHold ==
    ASSUME RunsHoldReminders, notif \in [NotifPod -> NotifRec],
           NEW p \in NotifPod, NEW c \in NotifRec, PodMoves(p, c),
           mails \in [Reminder -> Nat], mails' \in [Reminder -> Nat],
           \A r \in Reminder : mails[r] <= mails'[r],
           c.pc = "idle" => c = IdleNotif, c.pc \in {"mail", "mark"} => c.todo # {},
           c.pc = "mark" => mails'[Reminds(c)] > 0
    PROVE  notif' \in [NotifPod -> NotifRec] /\ RunsHoldReminders'
<1>1. notif'[p] = c /\ \A q \in NotifPod : q # p => notif'[q] = notif[q]
  BY DEF PodMoves
<1>2. notif' \in [NotifPod -> NotifRec]
  BY DEF PodMoves
<1>3. ASSUME NEW q \in NotifPod
      PROVE  /\ notif'[q].pc = "idle" => notif'[q] = IdleNotif
             /\ notif'[q].pc \in {"mail", "mark"} => notif'[q].todo # {}
             /\ notif'[q].pc = "mark" => mails'[Reminds(notif'[q])] > 0
  <2>1. CASE q = p
    BY <2>1, <1>1
  <2>2. CASE q # p
    <3>1. notif'[q] = notif[q]
      BY <2>2, <1>1
    <3>2. /\ notif[q].pc = "idle" => notif[q] = IdleNotif
          /\ notif[q].pc \in {"mail", "mark"} => notif[q].todo # {}
          /\ notif[q].pc = "mark" => mails[Reminds(notif[q])] > 0
      BY DEF RunsHoldReminders
    <3>3. notif[q].pc = "mark" => Reminds(notif[q]) \in Reminder
      <4>1. notif[q] \in NotifRec
        OBVIOUS
      <4> QED
        BY <3>2, <4>1 DEF Reminds, Reminder, Distance, NotifRec
    <3>4. notif[q].pc = "mark" => mails'[Reminds(notif[q])] > 0
      BY <3>2, <3>3
    <3> QED
      BY <3>1, <3>2, <3>4
  <2> QED
    BY <2>1, <2>2
<1>4. RunsHoldReminders'
  BY <1>3 DEF RunsHoldReminders, Reminds, IdleNotif
<1> QED
  BY <1>2, <1>4

\* Without a failure: a pod moves to c, the lock stays with a run, and what was
\* yet to come up has come up or is yet to.
LEMMA StillCovered ==
    ASSUME DayIsCovered, notif \in [NotifPod -> NotifRec],
           NEW p \in NotifPod, NEW c, PodMoves(p, c),
           UNCHANGED <<daysLeft, today>>,
           mails \in [Reminder -> Nat], mails' \in [Reminder -> Nat],
           \A r \in Reminder : mails[r] <= mails'[r],
           notifLock' # NoNotifPod => notif'[notifLock'].pc # "idle",
           ticked \subseteq ticked', c.pc # "idle" => p \in ticked',
           ticked' # {} => ticked # {} \/ \A r \in Reminder : ComesTo(c, r),
           \A r \in Reminder :
               daysLeft[r[1]] > 0 /\ daysLeft[r[1]] <= r[2] /\ ComesTo(notif[p], r) =>
                   mails'[r] > 0 \/ ComesTo(c, r)
    PROVE  DayIsCovered'
<1>1. notif'[p] = c /\ \A q \in NotifPod : q # p => notif'[q] = notif[q]
  BY DEF PodMoves
<1>2. Running' \subseteq ticked'
  BY <1>1 DEF DayIsCovered, Running
<1>3. ASSUME NEW r \in Reminder, daysLeft'[r[1]] > 0 /\ today' > 0 /\ daysLeft'[r[1]] < r[2]
      PROVE  mails'[r] > 0
  <2>1. mails[r] > 0
    BY <1>3 DEF DayIsCovered
  <2> QED
    BY <2>1
<1>4. ASSUME ticked' # {}, NEW r \in Reminder, daysLeft'[r[1]] > 0 /\ daysLeft'[r[1]] <= r[2]
      PROVE  mails'[r] > 0 \/ \E q \in NotifPod : ComesTo(notif'[q], r)
  <2>1. CASE ticked = {}
    BY <2>1, <1>1, <1>4
  <2>2. CASE ticked # {}
    <3>1. mails[r] > 0 \/ \E q \in NotifPod : ComesTo(notif[q], r)
      BY <2>2, <1>4 DEF DayIsCovered
    <3>2. CASE mails[r] > 0
      BY <3>2
    <3>3. ASSUME NEW q \in NotifPod, ComesTo(notif[q], r)
          PROVE  mails'[r] > 0 \/ \E q1 \in NotifPod : ComesTo(notif'[q1], r)
      <4>1. CASE q = p
        BY <4>1, <3>3, <1>1, <1>4
      <4>2. CASE q # p
        BY <4>2, <3>3, <1>1
      <4> QED
        BY <4>1, <4>2
    <3> QED
      BY <3>1, <3>2, <3>3
  <2> QED
    BY <2>1, <2>2
<1>5. \A r \in Reminder :
        daysLeft'[r[1]] > 0 /\ today' > 0 /\ daysLeft'[r[1]] < r[2] => mails'[r] > 0
  BY <1>3
<1>6. ticked' # {} =>
        \A r \in Reminder :
            daysLeft'[r[1]] > 0 /\ daysLeft'[r[1]] <= r[2] =>
                mails'[r] > 0 \/ \E q \in NotifPod : ComesTo(notif'[q], r)
  BY <1>4
<1> QED
  BY <1>2, <1>5, <1>6 DEF DayIsCovered, ComesTo

\* The bound on the mails, of the next state.
LEMMA MailsBoundedNext ==
    (FailuresPay /\ notifFaults \in Nat /\ mails \in [Reminder -> Nat] =>
        \A r \in Reminder : mails[r] <= 1 + notifFaults)'
<1>1. FailuresPay /\ notifFaults \in Nat /\ mails \in [Reminder -> Nat] =>
        \A r \in Reminder : mails[r] <= 1 + notifFaults
  BY MailsBounded
<1> QED
  BY <1>1, PTL

\* The horizon is the latest end of a subscription.
LEMMA HorizonIsLast == Horizon \in Nat /\ \A s \in Expiring : DaysAtStart[s] <= Horizon
<1>1. PICK last \in Expiring : \A s \in Expiring : DaysAtStart[s] <= DaysAtStart[last]
  BY RemindersAssumption
<1>2. \E n \in {DaysAtStart[s] : s \in Expiring} : \A s \in Expiring : DaysAtStart[s] <= n
  BY <1>1
<1>3. Horizon \in {DaysAtStart[s] : s \in Expiring} /\ \A s \in Expiring : DaysAtStart[s] <= Horizon
  BY <1>2 DEF Horizon
<1> QED
  BY <1>3, RemindersAssumption

\* The parts of the type invariant that the steps use.
LEMMA ReminderTypes ==
    ASSUME RemindersTypeOK
    PROVE  /\ notif \in [NotifPod -> NotifRec]
           /\ mails \in [Reminder -> Nat]
           /\ notifFaults \in Nat /\ notifFaults <= MaxNotifFaults
           /\ reminded \subseteq Reminder
           /\ daysLeft \in [Expiring -> Nat] /\ today \in Nat
           /\ ticked \subseteq NotifPod
<1>1. MaxNotifFaults \in Nat
  BY RemindersAssumption
<1>2. mails \in [Reminder -> 0 .. 1 + MaxNotifFaults]
  BY DEF RemindersTypeOK
<1>3. \A n \in 0 .. 1 + MaxNotifFaults : n \in Nat
  BY <1>1
<1>4. mails \in [Reminder -> Nat]
  BY <1>2, <1>3
<1>5. notifFaults \in Nat /\ notifFaults <= MaxNotifFaults
  BY <1>1 DEF RemindersTypeOK
<1>6. daysLeft \in [Expiring -> 0 .. Horizon] /\ today \in 0 .. Horizon
  BY DEF RemindersTypeOK
<1>7. \A n \in 0 .. Horizon : n \in Nat
  BY HorizonIsLast
<1>8. daysLeft \in [Expiring -> Nat] /\ today \in Nat
  BY <1>6, <1>7
<1> QED
  BY <1>4, <1>5, <1>8 DEF RemindersTypeOK, NotifRec

\* What the step of one pod has to show: f failures, the pod at c.
LEMMA PodStep ==
    ASSUME RemindersIInv, NEW p \in NotifPod, NEW c \in NotifRec, PodMoves(p, c),
           NEW f \in {0, 1}, notifFaults' = notifFaults + f, notifFaults' <= MaxNotifFaults,
           UNCHANGED <<daysLeft, today>>,
           notifLock' \in NotifPod \union {NoNotifPod}, lockOld' \in BOOLEAN,
           ticked' \subseteq NotifPod,
           reminded \subseteq reminded',
           mails' \in [Reminder -> Nat], \A r \in Reminder : mails[r] <= mails'[r],
           c.pc = "idle" => c = IdleNotif, c.pc \in {"mail", "mark"} => c.todo # {},
           c.pc = "mark" => mails'[Reminds(c)] > 0,
           Cardinality(Unlocked') \in Nat, Cardinality(Unlocked') <= Cardinality(Unlocked),
           \A r \in Reminder \ reminded' :
               mails'[r] + One(Marks(notif[p], r)) <= mails[r] + One(Marks(c, r)) + f,
           \A r \in reminded :
               mails'[r] + One(Mails(c, r)) <= mails[r] + One(Mails(notif[p], r)) + f,
           \A r \in reminded' \ reminded :
               r \in Reminder /\ Marks(notif[p], r) /\ mails'[r] = mails[r] /\ ~Mails(c, r),
           f = 0 =>
               /\ DayIsCovered /\ notifLock' # NoNotifPod => notif'[notifLock'].pc # "idle"
               /\ ticked \subseteq ticked' /\ (DayIsCovered /\ c.pc # "idle" => p \in ticked')
               /\ DayIsCovered /\ ticked' # {} => ticked # {} \/ \A r \in Reminder : ComesTo(c, r)
               /\ \A r \in Reminder :
                    daysLeft[r[1]] > 0 /\ daysLeft[r[1]] <= r[2] /\ ComesTo(notif[p], r) =>
                        mails'[r] > 0 \/ ComesTo(c, r)
    PROVE  RemindersIInv'
<1>1. /\ RemindersTypeOK /\ RunsHoldReminders /\ FailuresPay
      /\ \A r \in reminded : mails[r] > 0
      /\ notifFaults = 0 => DayIsCovered
  BY DEF RemindersIInv
<1>2. /\ notif \in [NotifPod -> NotifRec] /\ mails \in [Reminder -> Nat]
      /\ notifFaults \in Nat /\ reminded \subseteq Reminder
  BY <1>1, ReminderTypes
<1>3. notifFaults' \in Nat /\ notifFaults' \in 0 .. MaxNotifFaults
  BY <1>2, RemindersAssumption
<1>4. notif' \in [NotifPod -> NotifRec] /\ RunsHoldReminders'
  BY <1>1, <1>2, RunsStillHold
<1>5. reminded' \subseteq Reminder
  BY <1>2
<1>6. FailuresPay'
  BY <1>1, <1>2, <1>5, FailuresStillPay
<1>7. mails' \in [Reminder -> 0 .. 1 + MaxNotifFaults]
  <2>1. \A r \in Reminder : mails'[r] <= 1 + notifFaults'
    BY <1>6, <1>3, MailsBoundedNext
  <2>2. \A r \in Reminder : mails'[r] \in 0 .. 1 + MaxNotifFaults
    BY <2>1, <1>3, RemindersAssumption
  <2> QED
    BY <2>2
<1>8. RemindersTypeOK'
  BY <1>1, <1>3, <1>4, <1>5, <1>7 DEF RemindersTypeOK, NotifRec
<1>9. \A r \in reminded' : mails'[r] > 0
  <2>1. ASSUME NEW r \in reminded', r \notin reminded
        PROVE  mails'[r] > 0
    <3>1. r \in Reminder /\ Marks(notif[p], r) /\ mails'[r] = mails[r]
      BY <2>1
    <3>2. mails[r] > 0
      BY <3>1, <1>1 DEF RunsHoldReminders, Marks
    <3> QED
      BY <3>1, <3>2
  <2>2. ASSUME NEW r \in reminded
        PROVE  mails'[r] > 0
    <3>1. mails[r] > 0 /\ mails[r] \in Nat /\ mails'[r] \in Nat /\ mails[r] <= mails'[r]
      BY <1>1, <1>2
    <3> QED
      BY <3>1
  <2> QED
    BY <2>1, <2>2
<1>10. notifFaults' = 0 => DayIsCovered'
  <2>1. SUFFICES ASSUME notifFaults' = 0
                 PROVE  DayIsCovered'
    OBVIOUS
  <2>2. f = 0 /\ notifFaults = 0 /\ DayIsCovered
    BY <2>1, <1>1, <1>2
  <2> QED
    BY <2>2, <1>2, StillCovered
<1> QED
  BY <1>4, <1>6, <1>8, <1>9, <1>10 DEF RemindersIInv

\* A step that leaves mails, marks, lock and ticks alone shows where the pod goes.
LEMMA QuietStep ==
    ASSUME RemindersIInv, NEW p \in NotifPod, NEW c \in NotifRec, PodMoves(p, c),
           NEW f \in {0, 1}, notifFaults' = notifFaults + f, notifFaults' <= MaxNotifFaults,
           UNCHANGED <<daysLeft, today, mails, reminded, notifLock, lockOld, ticked>>,
           notif[p].pc # "idle",
           c.pc = "idle" => f = 1 /\ c = IdleNotif,
           c.pc = "mail" => c.todo # {},
           c.pc # "mark",
           f = 0 => notif[p].pc # "mark" /\ \A r \in reminded : ~Mails(c, r),
           f = 0 => \A r \in Reminder :
                daysLeft[r[1]] > 0 /\ daysLeft[r[1]] <= r[2] /\ ComesTo(notif[p], r) =>
                    mails[r] > 0 \/ ComesTo(c, r),
           c.pc = "mail" => f = 0
    PROVE  RemindersIInv'
<1>1. /\ notif \in [NotifPod -> NotifRec] /\ mails \in [Reminder -> Nat]
      /\ reminded \subseteq Reminder /\ ticked \subseteq NotifPod
      /\ notifLock \in NotifPod \union {NoNotifPod} /\ lockOld \in BOOLEAN
  BY ReminderTypes DEF RemindersIInv, RemindersTypeOK
<1>2. Cardinality(Unlocked') \in Nat /\ Cardinality(Unlocked') <= Cardinality(Unlocked)
  BY <1>1, NoMoreUnlocked
<1>3. \A r : ~Marks(c, r) /\ One(Marks(c, r)) = 0 /\ One(Marks(notif[p], r)) \in {0, 1}
  BY DEF Marks, One
<1>4. \A r \in Reminder : mails'[r] + One(Marks(notif[p], r)) <= mails[r] + One(Marks(c, r)) + f
  <2>1. ASSUME NEW r \in Reminder
        PROVE  mails[r] + One(Marks(notif[p], r)) <= mails[r] + f
    <3>1. CASE f = 0
      BY <3>1, <1>1 DEF Marks, One
    <3>2. CASE f = 1
      BY <3>2, <1>1, <1>3
    <3> QED
      BY <3>1, <3>2
  <2> QED
    BY <2>1, <1>3, <1>1
<1>5. \A r \in reminded : mails'[r] + One(Mails(c, r)) <= mails[r] + One(Mails(notif[p], r)) + f
  <2>1. ASSUME NEW r \in reminded
        PROVE  mails[r] + One(Mails(c, r)) <= mails[r] + One(Mails(notif[p], r)) + f
    <3>1. ~Mails(c, r)
      BY DEF Mails
    <3>2. One(Mails(c, r)) = 0 /\ One(Mails(notif[p], r)) \in Nat /\ mails[r] \in Nat
      BY <3>1, <1>1 DEF One
    <3> QED
      BY <3>2
  <2> QED
    BY <2>1
<1>6. f = 0 =>
        /\ DayIsCovered /\ notifLock' # NoNotifPod => notif'[notifLock'].pc # "idle"
        /\ DayIsCovered => p \in ticked
  <2>1. notif'[p] = c /\ \A q \in NotifPod : q # p => notif'[q] = notif[q]
    BY <1>1 DEF PodMoves
  <2>2. ASSUME f = 0, DayIsCovered, notifLock' # NoNotifPod
        PROVE  notif'[notifLock'].pc # "idle"
    <3>1. notifLock \in NotifPod /\ notif[notifLock].pc # "idle" /\ c.pc # "idle"
      BY <2>2, <1>1 DEF DayIsCovered
    <3>2. CASE notifLock = p
      BY <3>1, <3>2, <2>1
    <3>3. CASE notifLock # p
      BY <3>1, <3>3, <2>1
    <3> QED
      BY <3>2, <3>3
  <2>3. DayIsCovered => p \in ticked
    BY DEF DayIsCovered, Running
  <2> QED
    BY <2>2, <2>3
<1> QED
  BY <1>1, <1>2, <1>4, <1>5, <1>6, PodStep

-----------------------------------------------------------------------------
(* Reminders: every step keeps the invariant *)

\* A run that is at a reminder has one, and passes over no other when it skips it.
SkipOf(n) == [n EXCEPT !.pc = "check", !.todo = n.todo \ {CHOOSE s \in n.todo : TRUE}]

LEMMA SkipsOne ==
    ASSUME NEW n \in NotifRec, n.pc \in {"check", "mail", "mark"}, n.todo # {}
    PROVE  /\ Reminds(n) \in Reminder
           /\ SkipOf(n) \in NotifRec /\ SkipOf(n).pc = "check"
           /\ \A r \in Reminder : ComesTo(n, r) => r = Reminds(n) \/ ComesTo(SkipOf(n), r)
<1>1. PICK s : s = CHOOSE x \in n.todo : TRUE
  OBVIOUS
<1>2. s \in n.todo /\ s \in Expiring /\ n.i \in DOMAIN ReminderDays
  BY <1>1 DEF NotifRec
<1>3. PICK c : c = [n EXCEPT !.pc = "check", !.todo = n.todo \ {s}]
  OBVIOUS
<1>4. c = SkipOf(n) /\ Reminds(n) = <<s, ReminderDays[n.i]>>
  BY <1>1, <1>3 DEF SkipOf, Reminds
<1>5. c \in NotifRec /\ c.pc = "check" /\ c.i = n.i /\ c.todo = n.todo \ {s}
  BY <1>3 DEF NotifRec
<1>6. ASSUME NEW r \in Reminder, ComesTo(n, r), ~ComesTo(c, r)
      PROVE  r = Reminds(n)
  <2>1. PICK j \in DOMAIN ReminderDays :
          ReminderDays[j] = r[2] /\ (n.i < j \/ (n.i = j /\ r[1] \in n.todo))
    BY <1>6 DEF ComesTo
  <2>2. n.i = j /\ r[1] = s
    BY <2>1, <1>6, <1>5 DEF ComesTo
  <2> QED
    BY <2>1, <2>2, <1>4 DEF Reminder
<1>7. Reminds(n) \in Reminder
  BY <1>2, <1>4 DEF Reminder, Distance
<1> QED
  BY <1>4, <1>5, <1>6, <1>7

LEMMA ListRemindersKeeps ==
    ASSUME RemindersIInv, NEW p \in NotifPod, ListReminders(p)
    PROVE  RemindersIInv'
<1>1. PICK n \in NotifRec : n = notif[p]
  BY ReminderTypes DEF RemindersIInv
<1>2. PICK due \in SUBSET Expiring :
        due = {s \in Expiring : daysLeft[s] > 0 /\ daysLeft[s] <= ReminderDays[n.i]}
  OBVIOUS
<1>3. PICK c : c = [n EXCEPT !.pc = "check", !.todo = due]
  OBVIOUS
<1>4. n.pc = "list" /\ PodMoves(p, c)
  BY <1>1, <1>2, <1>3 DEF ListReminders, PodMoves
<1>5. c \in NotifRec /\ c.pc = "check" /\ c.i = n.i /\ c.todo = due
  BY <1>1, <1>3 DEF NotifRec
<1>6. \A r \in Reminder :
        daysLeft[r[1]] > 0 /\ daysLeft[r[1]] <= r[2] /\ ComesTo(n, r) => ComesTo(c, r)
  <2>1. ASSUME NEW r \in Reminder, daysLeft[r[1]] > 0, daysLeft[r[1]] <= r[2], ComesTo(n, r)
        PROVE  ComesTo(c, r)
    <3>1. PICK j \in DOMAIN ReminderDays : ReminderDays[j] = r[2] /\ n.i <= j
      BY <2>1, <1>4 DEF ComesTo
    <3>2. r[1] \in Expiring /\ j \in Nat /\ n.i \in Nat
      BY <1>1, <3>1, RemindersAssumption DEF Reminder, NotifRec
    <3>3. n.i < j \/ (n.i = j /\ r[1] \in due)
      BY <3>1, <3>2, <2>1, <1>2
    <3> QED
      BY <3>1, <3>3, <1>5 DEF ComesTo
  <2> QED
    BY <2>1
<1>7. /\ UNCHANGED <<daysLeft, today, mails, reminded, notifLock, lockOld, ticked>>
      /\ notifFaults' = notifFaults + 0 /\ notifFaults' <= MaxNotifFaults
  BY ReminderTypes DEF ListReminders, RemindersIInv
<1>8. \A r : ~Mails(c, r)
  BY <1>5 DEF Mails
<1> QED
  BY <1>1, <1>4, <1>5, <1>6, <1>7, <1>8, QuietStep

LEMMA CheckRemindedKeeps ==
    ASSUME RemindersIInv, NEW p \in NotifPod, CheckReminded(p)
    PROVE  RemindersIInv'
<1>1. PICK n \in NotifRec : n = notif[p]
  BY ReminderTypes DEF RemindersIInv
<1>2. /\ UNCHANGED <<daysLeft, today, mails, reminded, notifLock, lockOld, ticked>>
      /\ notifFaults' = notifFaults + 0 /\ notifFaults' <= MaxNotifFaults
      /\ n.pc = "check" /\ n.todo # {}
  BY <1>1, ReminderTypes DEF CheckReminded, RemindersIInv
<1>3. CASE Reminds(n) \in reminded
  <2>1. PICK c : c = SkipOf(n)
    OBVIOUS
  <2>2. PodMoves(p, c)
    BY <1>1, <1>3, <2>1 DEF CheckReminded, Skip, SkipOf, AtSub, AtReminder, Reminds, PodMoves
  <2>3. /\ c \in NotifRec /\ c.pc = "check"
        /\ \A r \in Reminder : ComesTo(n, r) => r = Reminds(n) \/ ComesTo(c, r)
    BY <1>2, <2>1, SkipsOne
  <2>4. mails[Reminds(n)] > 0
    BY <1>3 DEF RemindersIInv
  <2>5. \A r : ~Mails(c, r)
    BY <2>3 DEF Mails
  <2> QED
    BY <1>1, <1>2, <2>2, <2>3, <2>4, <2>5, QuietStep
<1>4. CASE Reminds(n) \notin reminded
  <2>1. PICK c : c = [n EXCEPT !.pc = "mail"]
    OBVIOUS
  <2>2. PodMoves(p, c)
    BY <1>1, <1>4, <2>1 DEF CheckReminded, NotifAt, AtSub, AtReminder, Reminds, PodMoves
  <2>3. c \in NotifRec /\ c.pc = "mail" /\ c.i = n.i /\ c.todo = n.todo
    BY <2>1 DEF NotifRec
  <2>4. \A r \in Reminder : ComesTo(n, r) => ComesTo(c, r)
    BY <1>2, <2>3 DEF ComesTo
  <2>5. \A r \in reminded : ~Mails(c, r)
    BY <1>4, <2>3 DEF Mails, Reminds
  <2> QED
    BY <1>1, <1>2, <2>2, <2>3, <2>4, <2>5, QuietStep
<1> QED
  BY <1>3, <1>4

LEMMA NextDistanceKeeps ==
    ASSUME RemindersIInv, NEW p \in NotifPod, NextDistance(p)
    PROVE  RemindersIInv'
<1>1. PICK n \in NotifRec : n = notif[p]
  BY ReminderTypes DEF RemindersIInv
<1>2. /\ UNCHANGED <<daysLeft, today, mails, reminded, notifLock, lockOld, ticked>>
      /\ notifFaults' = notifFaults + 0 /\ notifFaults' <= MaxNotifFaults
      /\ n.pc = "check" /\ n.todo = {}
  BY <1>1, ReminderTypes DEF NextDistance, RemindersIInv
<1>3. Len(ReminderDays) \in Nat /\ DOMAIN ReminderDays = 1 .. Len(ReminderDays)
  BY RemindersAssumption
<1>4. n.i \in 1 .. Len(ReminderDays)
  BY <1>3 DEF NotifRec
<1>5. CASE n.i < Len(ReminderDays)
  <2>1. PICK c : c = [n EXCEPT !.pc = "list", !.i = n.i + 1]
    OBVIOUS
  <2>2. PodMoves(p, c)
    BY <1>1, <1>5, <2>1 DEF NextDistance, PodMoves
  <2>3. c \in NotifRec /\ c.pc = "list" /\ c.i = n.i + 1
    <3>1. n.i + 1 \in DOMAIN ReminderDays
      BY <1>3, <1>4, <1>5
    <3> QED
      BY <2>1, <3>1 DEF NotifRec
  <2>4. \A r \in Reminder : ComesTo(n, r) => ComesTo(c, r)
    BY <1>2, <1>3, <1>4, <2>3 DEF ComesTo
  <2>5. \A r : ~Mails(c, r)
    BY <2>3 DEF Mails
  <2> QED
    BY <1>1, <1>2, <2>2, <2>3, <2>4, <2>5, QuietStep
<1>6. CASE ~(n.i < Len(ReminderDays))
  <2>1. PICK c : c = [n EXCEPT !.pc = "release"]
    OBVIOUS
  <2>2. PodMoves(p, c)
    BY <1>1, <1>6, <2>1 DEF NextDistance, NotifAt, PodMoves
  <2>3. c \in NotifRec /\ c.pc = "release"
    BY <2>1 DEF NotifRec
  <2>4. \A r \in Reminder : ~ComesTo(n, r)
    BY <1>2, <1>3, <1>4, <1>6 DEF ComesTo
  <2>5. \A r : ~Mails(c, r)
    BY <2>3 DEF Mails
  <2> QED
    BY <1>1, <1>2, <2>2, <2>3, <2>4, <2>5, QuietStep
<1> QED
  BY <1>5, <1>6

LEMMA SendReminderKeeps ==
    ASSUME RemindersIInv, NEW p \in NotifPod, SendReminder(p)
    PROVE  RemindersIInv'
<1>1. PICK n \in NotifRec : n = notif[p]
  BY ReminderTypes DEF RemindersIInv
<1>2. PICK c : c = [n EXCEPT !.pc = "mark"]
  OBVIOUS
<1>3. PICK at : at = Reminds(n)
  OBVIOUS
<1>4. /\ notif \in [NotifPod -> NotifRec] /\ mails \in [Reminder -> Nat]
      /\ reminded \subseteq Reminder /\ ticked \subseteq NotifPod
      /\ notifLock \in NotifPod \union {NoNotifPod} /\ lockOld \in BOOLEAN
      /\ notifFaults \in Nat /\ notifFaults <= MaxNotifFaults
  BY ReminderTypes DEF RemindersIInv, RemindersTypeOK
<1>5. n.pc = "mail" /\ PodMoves(p, c) /\ mails' = [mails EXCEPT ![at] = @ + 1]
  BY <1>1, <1>2, <1>3 DEF SendReminder, NotifAt, AtSub, AtReminder, Reminds, PodMoves
<1>6. /\ UNCHANGED <<daysLeft, today, reminded, notifLock, lockOld, ticked>>
      /\ notifFaults' = notifFaults + 0 /\ notifFaults' <= MaxNotifFaults
  BY <1>4 DEF SendReminder
<1>7. n.todo # {} /\ at \in Reminder
  BY <1>1, <1>3, <1>5, SkipsOne DEF RemindersIInv, RunsHoldReminders
<1>8. c \in NotifRec /\ c.pc = "mark" /\ c.i = n.i /\ c.todo = n.todo
  BY <1>2 DEF NotifRec
<1>9. Reminds(c) = at
  BY <1>3, <1>8 DEF Reminds
<1>10. /\ mails' \in [Reminder -> Nat] /\ mails'[at] = mails[at] + 1
       /\ \A r \in Reminder : r # at => mails'[r] = mails[r]
  BY <1>4, <1>5, <1>7
<1>11. /\ \A r : Marks(c, r) <=> r = at
       /\ \A r : ~Mails(c, r)
       /\ \A r : Mails(n, r) <=> r = at
       /\ \A r : ~Marks(n, r)
  BY <1>3, <1>5, <1>8, <1>9 DEF Marks, Mails
<1>12. \A r \in Reminder : mails'[r] + One(Marks(n, r)) <= mails[r] + One(Marks(c, r)) + 0
  BY <1>4, <1>10, <1>11 DEF One
<1>13. \A r \in reminded : mails'[r] + One(Mails(c, r)) <= mails[r] + One(Mails(n, r)) + 0
  BY <1>4, <1>10, <1>11 DEF One
<1>14. \A r \in Reminder : mails[r] <= mails'[r] /\ mails[at] + 1 > 0
  BY <1>4, <1>7, <1>10
<1>15. Cardinality(Unlocked') \in Nat /\ Cardinality(Unlocked') <= Cardinality(Unlocked)
  BY <1>1, <1>4, <1>5, <1>6, NoMoreUnlocked
<1>16. \A r \in Reminder : ComesTo(n, r) => ComesTo(c, r)
  BY <1>5, <1>8 DEF ComesTo
<1>17. DayIsCovered /\ notifLock' # NoNotifPod => notif'[notifLock'].pc # "idle"
  BY <1>4, <1>5, <1>6, <1>8 DEF DayIsCovered, PodMoves
<1>18. DayIsCovered => p \in ticked
  BY <1>1, <1>5 DEF DayIsCovered, Running
<1> QED
  BY <1>1, <1>4, <1>5, <1>6, <1>7, <1>8, <1>9, <1>10, <1>12, <1>13, <1>14, <1>15, <1>16, <1>17, <1>18, PodStep

LEMMA MarkRemindedKeeps ==
    ASSUME RemindersIInv, NEW p \in NotifPod, MarkReminded(p)
    PROVE  RemindersIInv'
<1>1. PICK n \in NotifRec : n = notif[p]
  BY ReminderTypes DEF RemindersIInv
<1>2. PICK c : c = SkipOf(n)
  OBVIOUS
<1>3. PICK at : at = Reminds(n)
  OBVIOUS
<1>4. /\ notif \in [NotifPod -> NotifRec] /\ mails \in [Reminder -> Nat]
      /\ reminded \subseteq Reminder /\ ticked \subseteq NotifPod
      /\ notifLock \in NotifPod \union {NoNotifPod} /\ lockOld \in BOOLEAN
      /\ notifFaults \in Nat /\ notifFaults <= MaxNotifFaults
  BY ReminderTypes DEF RemindersIInv, RemindersTypeOK
<1>5. n.pc = "mark" /\ PodMoves(p, c) /\ reminded' = reminded \union {at}
  BY <1>1, <1>2, <1>3 DEF MarkReminded, Skip, SkipOf, AtSub, AtReminder, Reminds, PodMoves
<1>6. /\ UNCHANGED <<daysLeft, today, mails, notifLock, lockOld, ticked>>
      /\ notifFaults' = notifFaults + 0 /\ notifFaults' <= MaxNotifFaults
  BY <1>4 DEF MarkReminded
<1>7. n.todo # {} /\ mails[at] > 0
  BY <1>1, <1>3, <1>5 DEF RemindersIInv, RunsHoldReminders
<1>8. /\ at \in Reminder /\ c \in NotifRec /\ c.pc = "check"
      /\ \A r \in Reminder : ComesTo(n, r) => r = at \/ ComesTo(c, r)
  BY <1>2, <1>3, <1>5, <1>7, SkipsOne
<1>9. /\ \A r : ~Marks(c, r) /\ ~Mails(c, r) /\ ~Mails(n, r)
      /\ \A r : Marks(n, r) <=> r = at
  BY <1>3, <1>5, <1>8 DEF Marks, Mails
<1>10. \A r \in Reminder \ reminded' :
         mails'[r] + One(Marks(n, r)) <= mails[r] + One(Marks(c, r)) + 0
  BY <1>4, <1>5, <1>6, <1>9 DEF One
<1>11. \A r \in reminded : mails'[r] + One(Mails(c, r)) <= mails[r] + One(Mails(n, r)) + 0
  BY <1>4, <1>6, <1>9 DEF One
<1>12. Cardinality(Unlocked') \in Nat /\ Cardinality(Unlocked') <= Cardinality(Unlocked)
  BY <1>1, <1>4, <1>5, <1>6, NoMoreUnlocked
<1>13. DayIsCovered /\ notifLock' # NoNotifPod => notif'[notifLock'].pc # "idle"
  BY <1>4, <1>5, <1>6, <1>8 DEF DayIsCovered, PodMoves
<1>14. DayIsCovered => p \in ticked
  BY <1>1, <1>5 DEF DayIsCovered, Running
<1>15. \A r \in Reminder : mails[r] <= mails'[r]
  BY <1>4, <1>6
<1> QED
  BY <1>1, <1>4, <1>5, <1>6, <1>7, <1>8, <1>9, <1>10, <1>11, <1>12, <1>13, <1>14, <1>15, PodStep

LEMMA TickNotifKeeps ==
    ASSUME RemindersIInv, NEW p \in NotifPod, TickNotif(p)
    PROVE  RemindersIInv'
<1>1. PICK n \in NotifRec : n = notif[p]
  BY ReminderTypes DEF RemindersIInv
<1>2. /\ notif \in [NotifPod -> NotifRec] /\ mails \in [Reminder -> Nat]
      /\ reminded \subseteq Reminder /\ ticked \subseteq NotifPod
      /\ notifLock \in NotifPod \union {NoNotifPod} /\ lockOld \in BOOLEAN
      /\ notifFaults \in Nat /\ notifFaults <= MaxNotifFaults
  BY ReminderTypes DEF RemindersIInv, RemindersTypeOK
<1>3. /\ UNCHANGED <<daysLeft, today, mails, reminded>> /\ n.pc = "idle"
      /\ ticked' = ticked \union {p}
      /\ notifFaults' = notifFaults + 0 /\ notifFaults' <= MaxNotifFaults
  BY <1>1, <1>2 DEF TickNotif
<1>4. n = IdleNotif
  BY <1>1, <1>3 DEF RemindersIInv, RunsHoldReminders
<1>5. ASSUME NEW c \in NotifRec, c.pc \in {"idle", "list"}
      PROVE  /\ \A r \in Reminder \ reminded' :
                 mails'[r] + One(Marks(n, r)) <= mails[r] + One(Marks(c, r)) + 0
             /\ \A r \in reminded : mails'[r] + One(Mails(c, r)) <= mails[r] + One(Mails(n, r)) + 0
             /\ \A r \in Reminder : mails[r] <= mails'[r] /\ ~ComesTo(n, r)
  BY <1>2, <1>3, <1>5 DEF One, Marks, Mails, ComesTo
<1>6. CASE notifLock = NoNotifPod
  <2>1. PICK c : c = [n EXCEPT !.pc = "list"]
    OBVIOUS
  <2>2. PodMoves(p, c) /\ notifLock' = p /\ lockOld' = FALSE
    BY <1>1, <1>6, <2>1 DEF TickNotif, NotifAt, PodMoves
  <2>3. c \in NotifRec /\ c.pc = "list" /\ c.i = 1
    BY <1>4, <2>1 DEF NotifRec, IdleNotif
  <2>4. \A r \in Reminder : ComesTo(c, r)
    <3>1. ASSUME NEW r \in Reminder
          PROVE  ComesTo(c, r)
      <4>1. r[2] \in {ReminderDays[i] : i \in DOMAIN ReminderDays}
        BY DEF Reminder, Distance
      <4>2. PICK j \in DOMAIN ReminderDays : ReminderDays[j] = r[2]
        BY <4>1
      <4>3. j \in Nat /\ 1 <= j
        BY RemindersAssumption
      <4> QED
        BY <4>2, <4>3, <2>3 DEF ComesTo
    <3> QED
      BY <3>1
  <2>5. notif'[p] = c /\ \A q \in NotifPod : q # p => notif'[q] = notif[q]
    BY <1>2, <2>2 DEF PodMoves
  <2>6. Cardinality(Unlocked') \in Nat /\ Cardinality(Unlocked') <= Cardinality(Unlocked)
    <3>1. Unlocked' \subseteq Unlocked
      BY <1>6, <2>2, <2>5, RemindersAssumption DEF Unlocked, Running
    <3>2. IsFiniteSet(Unlocked)
      BY PodsAreFinite DEF Unlocked, Running
    <3> QED
      BY <3>1, <3>2, FS_Subset, FS_CardinalityType
  <2> QED
    BY <1>1, <1>2, <1>3, <1>5, <2>2, <2>3, <2>4, <2>5, <2>6, PodStep
<1>7. CASE notifLock # NoNotifPod
  <2>1. PodMoves(p, n) /\ notifLock' = notifLock /\ lockOld' = lockOld /\ notif' = notif
    BY <1>1, <1>2, <1>7 DEF TickNotif, PodMoves
  <2>2. Cardinality(Unlocked') \in Nat /\ Cardinality(Unlocked') <= Cardinality(Unlocked)
    BY <1>1, <1>2, <1>3, <2>1, NoMoreUnlocked
  <2>3. DayIsCovered => notif[notifLock].pc # "idle" /\ ticked # {}
    BY <1>2, <1>7 DEF DayIsCovered, Running
  <2> QED
    BY <1>1, <1>2, <1>3, <1>4, <1>5, <2>1, <2>2, <2>3, PodStep
<1> QED
  BY <1>6, <1>7

LEMMA ReleaseNotifKeeps ==
    ASSUME RemindersIInv, NEW p \in NotifPod, ReleaseNotif(p)
    PROVE  RemindersIInv'
<1>1. PICK n \in NotifRec : n = notif[p]
  BY ReminderTypes DEF RemindersIInv
<1>2. /\ notif \in [NotifPod -> NotifRec] /\ mails \in [Reminder -> Nat]
      /\ reminded \subseteq Reminder /\ ticked \subseteq NotifPod
      /\ notifFaults \in Nat /\ notifFaults <= MaxNotifFaults /\ lockOld \in BOOLEAN
  BY ReminderTypes DEF RemindersIInv, RemindersTypeOK
<1>3. /\ UNCHANGED <<daysLeft, today, mails, reminded, lockOld, ticked>> /\ n.pc = "release"
      /\ notifLock' = NoNotifPod /\ PodMoves(p, IdleNotif)
      /\ notifFaults' = notifFaults + 0 /\ notifFaults' <= MaxNotifFaults
  BY <1>1, <1>2 DEF ReleaseNotif, PodMoves
<1>4. IdleNotif \in NotifRec /\ IdleNotif.pc = "idle"
  BY RemindersAssumption DEF IdleNotif, NotifRec
<1>5. /\ \A r \in Reminder \ reminded' :
           mails'[r] + One(Marks(n, r)) <= mails[r] + One(Marks(IdleNotif, r)) + 0
      /\ \A r \in reminded :
           mails'[r] + One(Mails(IdleNotif, r)) <= mails[r] + One(Mails(n, r)) + 0
      /\ \A r \in Reminder : mails[r] <= mails'[r] /\ ~ComesTo(n, r)
  BY <1>2, <1>3, <1>4 DEF One, Marks, Mails, ComesTo
<1>6. Cardinality(Unlocked') \in Nat /\ Cardinality(Unlocked') <= Cardinality(Unlocked)
  <2>1. notif'[p] = IdleNotif /\ \A q \in NotifPod : q # p => notif'[q] = notif[q]
    BY <1>2, <1>3 DEF PodMoves
  <2>2. p \in Running /\ Unlocked' = Running \ {p}
    BY <1>1, <1>3, <1>4, <2>1, RemindersAssumption DEF Unlocked, Running
  <2>3. IsFiniteSet(Running) /\ IsFiniteSet(Unlocked)
    BY PodsAreFinite DEF Running, Unlocked
  <2>4. /\ Cardinality(Running \ {p}) = Cardinality(Running) - 1
        /\ Cardinality(Running) \in Nat /\ Cardinality(Unlocked) \in Nat
        /\ Cardinality(Running \ {p}) \in Nat
    BY <2>2, <2>3, FS_RemoveElement, FS_CardinalityType
  <2>5. Cardinality(Running) <= Cardinality(Unlocked) + 1
    <3>1. \A q : q # notifLock => (q \in Unlocked <=> q \in Running)
      BY DEF Unlocked
    <3>2. notifLock \notin Unlocked
      BY DEF Unlocked
    <3>3. Cardinality(Unlocked) + One(notifLock \in Running) = Cardinality(Running) + One(notifLock \in Unlocked)
      BY <3>1, <2>3, OneMember
    <3> QED
      BY <3>2, <3>3, <2>4 DEF One
  <2> QED
    BY <2>2, <2>4, <2>5
<1> QED
  BY <1>1, <1>2, <1>3, <1>4, <1>5, <1>6, PodStep

LEMMA NotifPodDiesKeeps ==
    ASSUME RemindersIInv, NEW p \in NotifPod, NotifPodDies(p)
    PROVE  RemindersIInv'
<1>1. PICK n \in NotifRec : n = notif[p]
  BY ReminderTypes DEF RemindersIInv
<1>2. /\ notif \in [NotifPod -> NotifRec] /\ mails \in [Reminder -> Nat]
      /\ reminded \subseteq Reminder /\ ticked \subseteq NotifPod
      /\ notifLock \in NotifPod \union {NoNotifPod} /\ lockOld \in BOOLEAN
      /\ notifFaults \in Nat
  BY ReminderTypes DEF RemindersIInv, RemindersTypeOK
<1>3. /\ UNCHANGED <<daysLeft, today, mails, reminded, notifLock, lockOld>>
      /\ ticked' = ticked \ {p} /\ PodMoves(p, IdleNotif)
      /\ notifFaults' = notifFaults + 1 /\ notifFaults' <= MaxNotifFaults
  BY <1>2, RemindersAssumption DEF NotifPodDies, PodMoves
<1>4. IdleNotif \in NotifRec /\ IdleNotif.pc = "idle"
  BY RemindersAssumption DEF IdleNotif, NotifRec
<1>5. /\ \A r \in Reminder \ reminded' :
           mails'[r] + One(Marks(n, r)) <= mails[r] + One(Marks(IdleNotif, r)) + 1
      /\ \A r \in reminded :
           mails'[r] + One(Mails(IdleNotif, r)) <= mails[r] + One(Mails(n, r)) + 1
      /\ \A r \in Reminder : mails[r] <= mails'[r]
  BY <1>2, <1>3, <1>4 DEF One, Marks, Mails
<1>6. Cardinality(Unlocked') \in Nat /\ Cardinality(Unlocked') <= Cardinality(Unlocked)
  BY <1>2, <1>3, <1>4, NoMoreUnlocked
<1> QED
  BY <1>1, <1>2, <1>3, <1>4, <1>5, <1>6, PodStep

LEMMA NotifFailsKeeps ==
    ASSUME RemindersIInv, NEW p \in NotifPod, NotifFails(p)
    PROVE  RemindersIInv'
<1>1. PICK n \in NotifRec : n = notif[p]
  BY ReminderTypes DEF RemindersIInv
<1>2. /\ notif \in [NotifPod -> NotifRec] /\ mails \in [Reminder -> Nat]
      /\ reminded \subseteq Reminder /\ ticked \subseteq NotifPod
      /\ notifLock \in NotifPod \union {NoNotifPod} /\ lockOld \in BOOLEAN
      /\ notifFaults \in Nat
  BY ReminderTypes DEF RemindersIInv, RemindersTypeOK
<1>3. /\ UNCHANGED <<daysLeft, today, reminded, notifLock, lockOld, ticked>>
      /\ notifFaults' = notifFaults + 1 /\ notifFaults' <= MaxNotifFaults
  BY <1>2, RemindersAssumption DEF NotifFails
<1>4. \/ n.pc = "list" /\ PodMoves(p, [n EXCEPT !.pc = "check"]) /\ UNCHANGED mails
      \/ n.pc \in {"check", "mark"} /\ n.todo # {} /\ PodMoves(p, SkipOf(n)) /\ UNCHANGED mails
      \/ /\ n.pc = "mail" /\ PodMoves(p, SkipOf(n))
         /\ mails' \in {mails, [mails EXCEPT ![Reminds(n)] = @ + 1]}
      \/ n.pc = "release" /\ PodMoves(p, IdleNotif) /\ UNCHANGED mails
  <2>1. n.pc = "mark" => n.todo # {}
    BY <1>1 DEF RemindersIInv, RunsHoldReminders
  <2> QED
    BY <1>1, <2>1 DEF NotifFails, NotifAt, Skip, SkipOf, AtSub, AtReminder, Reminds, PodMoves
<1>5. CASE n.pc = "list" /\ PodMoves(p, [n EXCEPT !.pc = "check"]) /\ UNCHANGED mails
  <2>1. PICK c : c = [n EXCEPT !.pc = "check"]
    OBVIOUS
  <2>2. c \in NotifRec /\ c.pc = "check"
    BY <2>1 DEF NotifRec
  <2>3. n.pc = "list" /\ PodMoves(p, c) /\ UNCHANGED mails
    BY <1>5, <2>1
  <2> QED
    BY <1>1, <1>3, <2>2, <2>3, QuietStep
<1>6. CASE n.pc \in {"check", "mark"} /\ n.todo # {} /\ PodMoves(p, SkipOf(n)) /\ UNCHANGED mails
  <2>1. SkipOf(n) \in NotifRec /\ SkipOf(n).pc = "check"
    BY <1>6, SkipsOne
  <2> QED
    BY <1>1, <1>3, <1>6, <2>1, QuietStep
<1>7. CASE n.pc = "release" /\ PodMoves(p, IdleNotif) /\ UNCHANGED mails
  <2>1. IdleNotif \in NotifRec /\ IdleNotif.pc = "idle"
    BY RemindersAssumption DEF IdleNotif, NotifRec
  <2> QED
    BY <1>1, <1>3, <1>7, <2>1, QuietStep
<1>8. CASE /\ n.pc = "mail" /\ PodMoves(p, SkipOf(n))
           /\ mails' \in {mails, [mails EXCEPT ![Reminds(n)] = @ + 1]}
  <2>1. n.todo # {}
    BY <1>1, <1>8 DEF RemindersIInv, RunsHoldReminders
  <2>2. PICK c : c = SkipOf(n)
    OBVIOUS
  <2>3. PICK at : at = Reminds(n)
    OBVIOUS
  <2>4. at \in Reminder /\ c \in NotifRec /\ c.pc = "check"
    BY <1>8, <2>1, <2>2, <2>3, SkipsOne
  <2>5. /\ \A r : ~Marks(c, r) /\ ~Mails(c, r) /\ ~Marks(n, r)
        /\ \A r : Mails(n, r) <=> r = at
    BY <1>8, <2>3, <2>4 DEF Marks, Mails
  <2>6. /\ mails' \in [Reminder -> Nat] /\ mails'[at] \in {mails[at], mails[at] + 1}
        /\ \A r \in Reminder : r # at => mails'[r] = mails[r]
    BY <1>2, <1>8, <2>3, <2>4
  <2>7. /\ \A r \in Reminder \ reminded' :
             mails'[r] + One(Marks(n, r)) <= mails[r] + One(Marks(c, r)) + 1
        /\ \A r \in reminded : mails'[r] + One(Mails(c, r)) <= mails[r] + One(Mails(n, r)) + 1
        /\ \A r \in Reminder : mails[r] <= mails'[r]
    BY <1>2, <2>5, <2>6 DEF One
  <2>8. Cardinality(Unlocked') \in Nat /\ Cardinality(Unlocked') <= Cardinality(Unlocked)
    BY <1>1, <1>2, <1>3, <1>8, <2>2, NoMoreUnlocked
  <2> QED
    BY <1>1, <1>2, <1>3, <1>8, <2>2, <2>4, <2>6, <2>7, <2>8, PodStep
<1> QED
  BY <1>4, <1>5, <1>6, <1>7, <1>8

\* A lock that lapses under its run counts as a failure; without one it is gone
\* with its run.
LEMMA NotifLockLapsesKeeps ==
    ASSUME RemindersIInv, NotifLockLapses
    PROVE  RemindersIInv'
<1>1. /\ RemindersTypeOK /\ RunsHoldReminders /\ FailuresPay
      /\ \A r \in reminded : mails[r] > 0
      /\ notifFaults = 0 => DayIsCovered
  BY DEF RemindersIInv
<1>2. /\ notif \in [NotifPod -> NotifRec] /\ mails \in [Reminder -> Nat]
      /\ notifFaults \in Nat /\ notifFaults <= MaxNotifFaults
  BY <1>1, ReminderTypes
<1>3. /\ UNCHANGED <<daysLeft, reminded, mails, lockOld, ticked, today, notif>>
      /\ notifLock' = NoNotifPod /\ notifLock # NoNotifPod
      /\ notifFaults' \in {notifFaults, notifFaults + 1} /\ notifFaults' <= MaxNotifFaults
      /\ notifFaults' = notifFaults => notif[notifLock].pc = "idle"
  BY <1>2, RemindersAssumption DEF NotifLockLapses
<1>4. notifFaults' \in 0 .. MaxNotifFaults /\ notifFaults' \in Nat
  BY <1>2, <1>3, RemindersAssumption
<1>5. RemindersTypeOK'
  BY <1>1, <1>3, <1>4 DEF RemindersTypeOK
<1>6. RunsHoldReminders'
  BY <1>1, <1>3 DEF RunsHoldReminders, Reminds, IdleNotif
<1>7. /\ Cardinality(Unlocked) \in Nat /\ Cardinality(Unlocked') \in Nat
      /\ Cardinality(Unlocked') - Cardinality(Unlocked) <= notifFaults' - notifFaults
  <2>1. Running' = Running /\ notifLock \notin Unlocked
    BY <1>3 DEF Running, Unlocked
  <2>2. IsFiniteSet(Running) /\ IsFiniteSet(Unlocked) /\ IsFiniteSet(Unlocked')
    BY <2>1, PodsAreFinite DEF Running, Unlocked
  <2>3. Cardinality(Unlocked) \in Nat /\ Cardinality(Unlocked') \in Nat
    BY <2>2, FS_CardinalityType
  <2>4. CASE notifFaults' = notifFaults
    <3>1. Unlocked' \subseteq Unlocked
      BY <2>4, <2>1, <1>3 DEF Unlocked, Running
    <3>2. Cardinality(Unlocked') <= Cardinality(Unlocked)
      BY <3>1, <2>2, FS_Subset
    <3> QED
      BY <3>2, <2>3, <2>4, <1>2
  <2>5. CASE notifFaults' = notifFaults + 1
    <3>1. Unlocked' \subseteq Unlocked \union {notifLock}
      BY <2>1 DEF Unlocked
    <3>2. /\ IsFiniteSet(Unlocked \union {notifLock})
          /\ Cardinality(Unlocked \union {notifLock}) = Cardinality(Unlocked) + 1
      BY <2>1, <2>2, FS_AddElement
    <3>3. Cardinality(Unlocked') <= Cardinality(Unlocked) + 1
      BY <3>1, <3>2, FS_Subset
    <3> QED
      BY <3>3, <2>3, <2>5, <1>2
  <2> QED
    BY <1>3, <2>4, <2>5
<1>8. FailuresPay'
  <2>1. Cardinality(Unlocked') <= notifFaults'
    BY <1>1, <1>2, <1>4, <1>7 DEF FailuresPay
  <2>2. ASSUME NEW r \in Reminder, r \notin reminded
        PROVE  mails[r] + Cardinality(Unlocked') <= notifFaults' + Cardinality(Markers(r))
    <3>1. mails[r] + Cardinality(Unlocked) <= notifFaults + Cardinality(Markers(r))
      BY <2>2, <1>1 DEF FailuresPay
    <3>2. Cardinality(Markers(r)) \in Nat /\ mails[r] \in Nat
      BY <1>2, RunsCounted
    <3> QED
      BY <3>1, <3>2, <1>2, <1>4, <1>7
  <2>3. ASSUME NEW r \in reminded
        PROVE  mails[r] + Cardinality(Mailers(r)) <= 1 + notifFaults'
    <3>1. mails[r] + Cardinality(Mailers(r)) <= 1 + notifFaults
      BY <1>1 DEF FailuresPay
    <3>2. Cardinality(Mailers(r)) \in Nat /\ mails[r] \in Nat
      BY <1>1, <1>2, RunsCounted, ReminderTypes
    <3> QED
      BY <3>1, <3>2, <1>2, <1>3
  <2>4. \A r : Markers(r)' = Markers(r) /\ Mailers(r)' = Mailers(r)
    BY <1>3 DEF Markers, Mailers, Marks, Mails, Reminds
  <2> QED
    BY <2>1, <2>2, <2>3, <2>4, <1>3 DEF FailuresPay
<1>9. notifFaults' # 0
  BY <1>1, <1>2, <1>3 DEF DayIsCovered
<1> QED
  BY <1>1, <1>3, <1>5, <1>6, <1>8, <1>9 DEF RemindersIInv

\* What does not move a pod, mail or mark keeps what is not about days.
LEMMA DaysApart ==
    ASSUME RunsHoldReminders, FailuresPay, \A r \in reminded : mails[r] > 0,
           UNCHANGED <<reminded, mails, notifLock, notif, notifFaults>>
    PROVE  RunsHoldReminders' /\ FailuresPay' /\ \A r \in reminded' : mails'[r] > 0
<1>1. RunsHoldReminders'
  BY DEF RunsHoldReminders, Reminds, IdleNotif
<1>2. \A r : Markers(r)' = Markers(r) /\ Mailers(r)' = Mailers(r)
  BY DEF Markers, Mailers, Marks, Mails, Reminds
<1>3. Unlocked' = Unlocked
  BY DEF Unlocked, Running
<1> QED
  BY <1>1, <1>2, <1>3 DEF FailuresPay

LEMMA NextDayKeeps ==
    ASSUME RemindersIInv, NextDay
    PROVE  RemindersIInv'
<1>1. /\ RemindersTypeOK /\ RunsHoldReminders /\ FailuresPay
      /\ \A r \in reminded : mails[r] > 0
      /\ notifFaults = 0 => DayIsCovered
  BY DEF RemindersIInv
<1>2. daysLeft \in [Expiring -> 0 .. Horizon] /\ today \in 0 .. Horizon /\ Horizon \in Nat
  BY <1>1, HorizonIsLast DEF RemindersTypeOK
<1>3. /\ UNCHANGED <<reminded, mails, notifLock, notif, notifFaults>>
      /\ today < Horizon /\ today' = today + 1 /\ ticked = NotifPod /\ ticked' = {}
      /\ lockOld' \in BOOLEAN
      /\ \A p \in NotifPod : notif[p].pc = "idle"
  BY DEF NextDay
<1>4. /\ daysLeft' \in [Expiring -> 0 .. Horizon]
      /\ \A s \in Expiring : daysLeft'[s] > 0 => daysLeft[s] = daysLeft'[s] + 1
  <2>1. \A s \in Expiring : daysLeft[s] \in 0 .. Horizon
    BY <1>2
  <2>2. daysLeft' = [s \in Expiring |-> IF daysLeft[s] = 0 THEN 0 ELSE daysLeft[s] - 1]
    BY DEF NextDay
  <2> QED
    BY <2>1, <2>2, <1>2
<1>5. today' \in 0 .. Horizon
  BY <1>2, <1>3
<1>6. RemindersTypeOK'
  BY <1>1, <1>3, <1>4, <1>5 DEF RemindersTypeOK
<1>7. RunsHoldReminders' /\ FailuresPay' /\ \A r \in reminded' : mails'[r] > 0
  BY <1>1, <1>3, DaysApart
<1>8. notifFaults' = 0 => DayIsCovered'
  <2>1. SUFFICES ASSUME notifFaults' = 0
                 PROVE  DayIsCovered'
    OBVIOUS
  <2>2. DayIsCovered
    BY <2>1, <1>1, <1>3
  <2>3. notifLock = NoNotifPod
    BY <2>2, <1>1, <1>3 DEF DayIsCovered, RemindersTypeOK
  <2>4. Running' = {}
    BY <1>3 DEF Running
  <2>5. ASSUME NEW r \in Reminder, daysLeft'[r[1]] > 0, daysLeft'[r[1]] < r[2]
        PROVE  mails'[r] > 0
    <3>1. r[1] \in Expiring /\ r[2] \in Nat
      BY RemindersAssumption DEF Reminder, Distance
    <3>2. daysLeft[r[1]] > 0 /\ daysLeft[r[1]] <= r[2]
      BY <3>1, <2>5, <1>4, <1>2
    <3>3. mails[r] > 0 \/ \E p \in NotifPod : ComesTo(notif[p], r)
      BY <3>2, <2>2, <1>3, RemindersAssumption DEF DayIsCovered
    <3>4. \A p \in NotifPod : ~ComesTo(notif[p], r)
      BY <1>3 DEF ComesTo
    <3> QED
      BY <3>3, <3>4, <1>3
  <2> QED
    BY <2>3, <2>4, <2>5, <1>3 DEF DayIsCovered
<1> QED
  BY <1>6, <1>7, <1>8 DEF RemindersIInv

LEMMA SubEndsKeeps ==
    ASSUME RemindersIInv, NEW s \in Expiring, SubEnds(s)
    PROVE  RemindersIInv'
<1>1. /\ RemindersTypeOK /\ RunsHoldReminders /\ FailuresPay
      /\ \A r \in reminded : mails[r] > 0
      /\ notifFaults = 0 => DayIsCovered
  BY DEF RemindersIInv
<1>2. /\ daysLeft \in [Expiring -> 0 .. Horizon] /\ Horizon \in Nat
      /\ daysLeft' = [daysLeft EXCEPT ![s] = 0]
      /\ UNCHANGED <<reminded, mails, notifLock, lockOld, ticked, today, notif, notifFaults>>
  BY <1>1, HorizonIsLast DEF RemindersTypeOK, SubEnds
<1>3. /\ daysLeft' \in [Expiring -> 0 .. Horizon]
      /\ \A t \in Expiring : daysLeft'[t] > 0 => daysLeft[t] = daysLeft'[t]
  BY <1>2
<1>4. RemindersTypeOK'
  BY <1>1, <1>2, <1>3 DEF RemindersTypeOK
<1>5. RunsHoldReminders' /\ FailuresPay' /\ \A r \in reminded' : mails'[r] > 0
  BY <1>1, <1>2, DaysApart
<1>6. \A r \in Reminder : r[1] \in Expiring
  BY DEF Reminder
<1>7. notifFaults' = 0 => DayIsCovered'
  <2>1. SUFFICES ASSUME DayIsCovered
                 PROVE  DayIsCovered'
    BY <1>1, <1>2
  <2>2. \A r \in Reminder : daysLeft'[r[1]] > 0 => daysLeft[r[1]] = daysLeft'[r[1]]
    BY <1>3, <1>6
  <2>3. Running' = Running
    BY <1>2 DEF Running
  <2> QED
    BY <2>1, <2>2, <2>3, <1>2 DEF DayIsCovered, ComesTo
<1> QED
  BY <1>4, <1>5, <1>7 DEF RemindersIInv

-----------------------------------------------------------------------------
(* Reminders: the theorem *)

LEMMA RemindersInitially == RemindersInit => RemindersIInv
<1> SUFFICES ASSUME RemindersInit
             PROVE  RemindersIInv
  OBVIOUS
<1>1. IdleNotif \in NotifRec /\ IdleNotif.pc = "idle"
  BY RemindersAssumption DEF IdleNotif, NotifRec
<1>2. \A p \in NotifPod : notif[p] = IdleNotif
  BY DEF RemindersInit
<1>3. DaysAtStart \in [Expiring -> 0 .. Horizon]
  <2>1. \A s \in Expiring : DaysAtStart[s] \in 0 .. Horizon
    BY HorizonIsLast, RemindersAssumption
  <2> QED
    BY <2>1, RemindersAssumption
<1>4. /\ 0 \in 0 .. Horizon /\ 0 \in 0 .. MaxNotifFaults /\ 0 \in 0 .. 1 + MaxNotifFaults
  BY HorizonIsLast, RemindersAssumption
<1>5. RemindersTypeOK
  BY <1>1, <1>3, <1>4 DEF RemindersInit, RemindersTypeOK, NotifRec
<1>6. RunsHoldReminders
  BY <1>1, <1>2 DEF RunsHoldReminders
<1>7. FailuresPay
  <2>1. Unlocked = {} /\ \A r : Markers(r) = {}
    BY <1>1, <1>2 DEF Unlocked, Running, Markers, Marks
  <2>2. reminded = {} /\ notifFaults = 0 /\ \A r \in Reminder : mails[r] = 0
    BY DEF RemindersInit
  <2> QED
    BY <2>1, <2>2, FS_EmptySet DEF FailuresPay
<1>8. DayIsCovered
  BY <1>1, <1>2 DEF DayIsCovered, RemindersInit, Running
<1> QED
  BY <1>5, <1>6, <1>7, <1>8 DEF RemindersIInv, RemindersInit

LEMMA RemindersStep == RemindersIInv /\ [RemindersNext]_remindersVars => RemindersIInv'
<1> SUFFICES ASSUME RemindersIInv, [RemindersNext]_remindersVars
             PROVE  RemindersIInv'
  OBVIOUS
<1>1. ASSUME NEW p \in NotifPod,
             \/ TickNotif(p) \/ ListReminders(p) \/ CheckReminded(p) \/ SendReminder(p)
             \/ MarkReminded(p) \/ NextDistance(p) \/ ReleaseNotif(p)
             \/ NotifFails(p) \/ NotifPodDies(p)
      PROVE  RemindersIInv'
  BY <1>1, TickNotifKeeps, ListRemindersKeeps, CheckRemindedKeeps, SendReminderKeeps,
     MarkRemindedKeeps, NextDistanceKeeps, ReleaseNotifKeeps, NotifFailsKeeps, NotifPodDiesKeeps
<1>2. CASE NotifLockLapses
  BY <1>2, NotifLockLapsesKeeps
<1>3. CASE NextDay
  BY <1>3, NextDayKeeps
<1>4. ASSUME NEW s \in Expiring, SubEnds(s)
      PROVE  RemindersIInv'
  BY <1>4, SubEndsKeeps
<1>5. CASE UNCHANGED remindersVars
  <2>1. UNCHANGED <<daysLeft, reminded, mails, notifLock, lockOld, ticked, today, notif, notifFaults>>
    BY <1>5 DEF remindersVars
  <2>2. RemindersTypeOK'
    BY <2>1 DEF RemindersIInv, RemindersTypeOK
  <2>3. RunsHoldReminders' /\ FailuresPay' /\ \A r \in reminded' : mails'[r] > 0
    BY <2>1, DaysApart DEF RemindersIInv
  <2>4. (notifFaults = 0 => DayIsCovered)'
    BY <2>1 DEF RemindersIInv, DayIsCovered, Running, ComesTo
  <2> QED
    BY <2>2, <2>3, <2>4 DEF RemindersIInv
<1> QED
  BY <1>1, <1>2, <1>3, <1>4, <1>5 DEF RemindersNext

LEMMA RemindersImplied == RemindersIInv => RemindersInv
<1> SUFFICES ASSUME RemindersIInv
             PROVE  RemindersInv
  OBVIOUS
<1>1. RemindersTypeOK /\ FailuresPay /\ \A r \in reminded : mails[r] > 0
  BY DEF RemindersIInv
<1>2. notifFaults \in Nat /\ mails \in [Reminder -> Nat]
  BY <1>1, ReminderTypes
<1>3. \A r \in Reminder : mails[r] <= 1 + notifFaults
  BY <1>1, <1>2, MailsBounded
<1>4. ASSUME notifFaults = 0, NEW r \in Reminder,
             daysLeft[r[1]] > 0 /\ today > 0 /\ daysLeft[r[1]] < r[2]
      PROVE  mails[r] = 1
  <2>1. mails[r] > 0
    BY <1>4 DEF RemindersIInv, DayIsCovered
  <2> QED
    BY <2>1, <1>2, <1>3, <1>4
<1> QED
  BY <1>1, <1>3, <1>4 DEF RemindersInv

\* For any subscriptions, distances and pods: a reminder goes out at most once
\* more than calls failed, pods died and locks lapsed under their run, is marked
\* only when it has gone out, and without a failure goes out exactly once.
THEOREM RemindersCorrect == RemindersSpec => []RemindersInv
<1>1. RemindersSpec => []RemindersIInv
  BY RemindersInitially, RemindersStep, PTL DEF RemindersSpec
<1> QED
  BY <1>1, RemindersImplied, PTL

-----------------------------------------------------------------------------
(* The rate limiter: counting requests over a window *)

Times == [Second -> 0 .. MaxTries]

LEMMA MembersFinite ==
    ASSUME NEW f, NEW from, NEW to
    PROVE  IsFiniteSet(Members(f, from, to)) /\ Between(f, from, to) \in Nat
<1> USE LimiterAssumption
<1>1. IsFiniteSet(Second) /\ IsFiniteSet(1 .. MaxTries)
  BY FS_Interval DEF Second
<1>2. IsFiniteSet(Second \X (1 .. MaxTries))
  BY <1>1, FS_Product
<1>3. Members(f, from, to) \subseteq Second \X (1 .. MaxTries)
  BY DEF Members
<1>4. IsFiniteSet(Members(f, from, to))
  BY <1>2, <1>3, FS_Subset
<1> QED
  BY <1>4, FS_CardinalityType DEF Between

\* Fewer at each time that counts are fewer.
LEMMA BetweenOrdered ==
    ASSUME NEW f \in Times, NEW g \in Times, NEW a \in Int, NEW b \in Int,
           NEW c \in Int, NEW d \in Int,
           \A t \in Second : t \in a .. b /\ f[t] # 0 => t \in c .. d /\ f[t] <= g[t]
    PROVE  Between(f, a, b) <= Between(g, c, d)
<1> USE LimiterAssumption
<1>1. Members(f, a, b) \subseteq Members(g, c, d)
  <2> SUFFICES ASSUME NEW t \in Second, NEW i \in 1 .. MaxTries, t \in a .. b, i <= f[t]
               PROVE  t \in c .. d /\ i <= g[t]
    BY DEF Members
  <2>1. f[t] \in Nat /\ g[t] \in Nat
    BY DEF Times
  <2>2. f[t] # 0
    BY <2>1
  <2> QED
    BY <2>1, <2>2
<1> QED
  BY <1>1, MembersFinite, FS_Subset DEF Between

\* One more at a time that counts is one more.
LEMMA BetweenGrows ==
    ASSUME NEW f \in Times, NEW t \in Second, f[t] < MaxTries, NEW a \in Int, NEW b \in Int,
           t \in a .. b
    PROVE  Between([f EXCEPT ![t] = @ + 1], a, b) = Between(f, a, b) + 1
<1> USE LimiterAssumption
<1> DEFINE g == [f EXCEPT ![t] = @ + 1]
<1>1. f[t] \in Nat /\ g[t] = f[t] + 1 /\ f[t] + 1 \in 1 .. MaxTries
      /\ \A u \in Second : u # t => g[u] = f[u]
  BY DEF Times
<1> HIDE DEF g
<1>2. \A u \in Second, i \in 1 .. MaxTries :
        <<u, i>> \in Members(g, a, b) <=>
            <<u, i>> \in Members(f, a, b) \/ <<u, i>> = <<t, f[t] + 1>>
  <2> SUFFICES ASSUME NEW u \in Second, NEW i \in 1 .. MaxTries
               PROVE  (u \in a .. b /\ i <= g[u]) <=>
                          ((u \in a .. b /\ i <= f[u]) \/ (u = t /\ i = f[t] + 1))
    BY DEF Members
  <2>1. CASE u = t
    BY <1>1, <2>1
  <2>2. CASE u # t
    BY <1>1, <2>2
  <2> QED
    BY <2>1, <2>2
<1>3. Members(g, a, b) = Members(f, a, b) \union {<<t, f[t] + 1>>}
  <2>1. /\ Members(g, a, b) \subseteq Second \X (1 .. MaxTries)
        /\ Members(f, a, b) \subseteq Second \X (1 .. MaxTries)
        /\ <<t, f[t] + 1>> \in Second \X (1 .. MaxTries)
    BY <1>1 DEF Members
  <2>2. ASSUME NEW m \in Second \X (1 .. MaxTries)
        PROVE  m \in Members(g, a, b) <=>
                   m \in Members(f, a, b) \/ m = <<t, f[t] + 1>>
    <3>1. m[1] \in Second /\ m[2] \in 1 .. MaxTries /\ m = <<m[1], m[2]>>
      OBVIOUS
    <3>2. <<m[1], m[2]>> \in Members(g, a, b) <=>
            <<m[1], m[2]>> \in Members(f, a, b) \/ <<m[1], m[2]>> = <<t, f[t] + 1>>
      BY <1>2, <3>1
    <3> QED
      BY <3>1, <3>2
  <2> QED
    BY <2>1, <2>2
<1>4. <<t, f[t] + 1>> \notin Members(f, a, b)
  BY <1>1 DEF Members
<1> QED
  BY <1>3, <1>4, MembersFinite, FS_AddElement DEF Between, g

-----------------------------------------------------------------------------
(* The rate limiter: what the pipelines keep *)

\* The requests in a pipeline, and those that will be let through.
Piped == {q \in Client : client[q].pc \in {"trim", "count", "add"}}
Passing == {q \in Client : client[q].pc = "add" /\ client[q].count < Limit}

InWindow(f) == Between(f, second - Window + 1, second)

\* Nothing is known of the future; a time that is in the window keeps all hits, each
\* of a request that came, one hit less than that for each request in its pipeline.
HitsAreRequests ==
    /\ \A t \in Second : t > second => hits[t] = 0 /\ admitted[t] = 0
    /\ \A t \in Second : t > second - Window => admitted[t] <= hits[t]
    /\ \A t \in Second : hits[t] <= tried[t]
    /\ hits[second] + Cardinality(Piped) <= tried[second]

\* A request that has trimmed the set sees its window only, and what it has counted
\* is still there.
CountsAreCurrent ==
    \A q \in Client :
        /\ client[q].pc \in {"count", "add"} =>
                \A t \in Second : t <= second - Window => hits[t] = 0
        /\ client[q].pc = "add" => client[q].count <= InWindow(hits)
        /\ client[q].pc = "limited" => InWindow(tried) > Limit

\* Those that are let through were in the set, or will be, when the last of those
\* still to come counted it.
PassesAreBounded ==
    /\ InWindow(admitted) + Cardinality(Passing) <= Limit + Cardinality(Client) - 1
    /\ \A t \in Second : t < second =>
            Between(admitted, t - Window + 1, t) <= Limit + Cardinality(Client) - 1

LimiterIInv == LimiterTypeOK /\ HitsAreRequests /\ CountsAreCurrent /\ PassesAreBounded

LEMMA ClientsFinite ==
    /\ Cardinality(Client) \in Nat /\ Cardinality(Client) >= 1
    /\ IsFiniteSet(Piped) /\ Cardinality(Piped) \in Nat
    /\ IsFiniteSet(Passing) /\ Cardinality(Passing) \in Nat
    /\ Cardinality(Passing) <= Cardinality(Client)
<1>1. IsFiniteSet(Client) /\ Client # {}
  BY LimiterAssumption
<1>2. Cardinality(Client) \in Nat /\ Cardinality(Client) # 0
  BY <1>1, FS_CardinalityType, FS_EmptySet
<1>3. Piped \subseteq Client /\ Passing \subseteq Client
  BY DEF Piped, Passing
<1>4. IsFiniteSet(Piped) /\ IsFiniteSet(Passing) /\ Cardinality(Passing) <= Cardinality(Client)
  BY <1>1, <1>3, FS_Subset
<1> QED
  BY <1>2, <1>4, FS_CardinalityType

\* What a step of request q does to the two sets.
LEMMA PipedMoves ==
    ASSUME LimiterTypeOK, NEW q \in Client,
           \A p \in Client \ {q} : client'[p] = client[p]
    PROVE  /\ q \in Piped' /\ q \notin Piped => Cardinality(Piped') = Cardinality(Piped) + 1
           /\ q \notin Piped' /\ q \in Piped => Cardinality(Piped') = Cardinality(Piped) - 1
           /\ (q \in Piped' <=> q \in Piped) => Cardinality(Piped') = Cardinality(Piped)
<1>1. \A p \in Client \ {q} : p \in Piped' <=> p \in Piped
  BY DEF Piped
<1>2. Piped \subseteq Client /\ Piped' \subseteq Client
  BY DEF Piped
<1> DEFINE X == Piped
           Y == Piped'
<1>3. IsFiniteSet(X)
  BY ClientsFinite
<1> HIDE DEF X, Y
<1>4. CASE q \in Y /\ q \notin X
  <2>1. Y = X \union {q}
    BY <1>1, <1>2, <1>4 DEF X, Y
  <2> QED
    BY <1>3, <1>4, <2>1, FS_AddElement DEF X, Y
<1>5. CASE q \notin Y /\ q \in X
  <2>1. Y = X \ {q}
    BY <1>1, <1>2, <1>5 DEF X, Y
  <2> QED
    BY <1>3, <1>5, <2>1, FS_RemoveElement DEF X, Y
<1>6. CASE q \in Y <=> q \in X
  <2>1. Y = X
    BY <1>1, <1>2, <1>6 DEF X, Y
  <2> QED
    BY <1>6, <2>1 DEF X, Y
<1> QED
  BY <1>4, <1>5, <1>6 DEF X, Y

LEMMA PassingMoves ==
    ASSUME LimiterTypeOK, NEW q \in Client,
           \A p \in Client \ {q} : client'[p] = client[p]
    PROVE  /\ q \notin Passing' => Cardinality(Passing') <= Cardinality(Passing)
           /\ q \notin Passing' /\ q \in Passing =>
                 Cardinality(Passing') = Cardinality(Passing) - 1
<1>1. \A p \in Client \ {q} : p \in Passing' <=> p \in Passing
  BY DEF Passing
<1>2. Passing \subseteq Client /\ Passing' \subseteq Client
  BY DEF Passing
<1> DEFINE X == Passing
           Y == Passing'
<1>3. IsFiniteSet(X)
  BY ClientsFinite
<1> SUFFICES ASSUME q \notin Y
             PROVE  /\ Cardinality(Y) <= Cardinality(X)
                    /\ q \in X => Cardinality(Y) = Cardinality(X) - 1
  OBVIOUS
<1>4. Y = X \ {q}
  BY <1>1, <1>2
<1> HIDE DEF X, Y
<1>5. Y \subseteq X
  BY <1>4
<1> QED
  BY <1>3, <1>4, <1>5, FS_Subset, FS_RemoveElement

Pipeline == [pc : {"free", "trim", "count", "add", "limited"}, count : Nat]

LEMMA LimiterTypes ==
    ASSUME LimiterTypeOK
    PROVE  /\ second \in Second /\ second \in Nat /\ second - Window + 1 \in Int
           /\ Window \in Nat /\ Window > 0 /\ Second \subseteq Nat
           /\ second \in second - Window + 1 .. second
           /\ hits \in Times /\ tried \in Times /\ admitted \in Times
           /\ \A t \in Second : hits[t] \in Nat /\ tried[t] \in Nat /\ admitted[t] \in Nat
           /\ \A q \in Client : client[q] \in Pipeline
           /\ client = [q \in Client |-> client[q]]
BY LimiterAssumption DEF LimiterTypeOK, Times, Second, Pipeline

LEMMA PassingNext == Cardinality(Passing') \in Nat /\ Cardinality(Passing') <= Cardinality(Client)
<1>1. Passing' \subseteq Client
  BY DEF Passing
<1> DEFINE X == Passing'
<1> HIDE DEF X
<1>2. IsFiniteSet(X) /\ Cardinality(X) <= Cardinality(Client)
  BY <1>1, LimiterAssumption, FS_Subset DEF X
<1>3. Cardinality(X) \in Nat
  BY <1>2, FS_CardinalityType
<1> QED
  BY <1>2, <1>3 DEF X

\* What a window holds of the three counts.
LEMMA WindowCounts ==
    ASSUME LimiterTypeOK
    PROVE  InWindow(hits) \in Nat /\ InWindow(tried) \in Nat /\ InWindow(admitted) \in Nat
BY MembersFinite DEF InWindow

LEMMA WindowKeeps ==
    ASSUME LimiterTypeOK, NEW f \in Times, NEW g \in Times,
           \A t \in Second : t > second - Window => f[t] <= g[t]
    PROVE  Between(f, second - Window + 1, second) <= Between(g, second - Window + 1, second)
<1>1. PICK lo \in Int, hi \in Int : lo = second - Window + 1 /\ hi = second
  BY LimiterTypes
<1>2. \A t \in Second : t \in lo .. hi => f[t] <= g[t]
  BY <1>1, LimiterTypes
<1>3. Between(f, lo, hi) <= Between(g, lo, hi)
  BY <1>2, BetweenOrdered
<1> QED
  BY <1>1, <1>3

LEMMA WindowOrdered ==
    ASSUME LimiterTypeOK, NEW f \in Times, NEW g \in Times, NEW a \in Int, NEW b \in Int,
           \A t \in Second : t \in a .. b /\ f[t] # 0 =>
               t > second - Window /\ t <= second /\ f[t] <= g[t]
    PROVE  Between(f, a, b) <= InWindow(g)
<1>1. PICK lo \in Int, hi \in Int : lo = second - Window + 1 /\ hi = second
  BY LimiterTypes
<1>2. \A t \in Second : t \in a .. b /\ f[t] # 0 => t \in lo .. hi /\ f[t] <= g[t]
  BY <1>1, LimiterTypes
<1>3. Between(f, a, b) <= Between(g, lo, hi)
  BY <1>2, BetweenOrdered
<1> QED
  BY <1>1, <1>3 DEF InWindow

LEMMA WindowGrows ==
    ASSUME LimiterTypeOK, NEW f \in Times, f[second] < MaxTries
    PROVE  Between([f EXCEPT ![second] = @ + 1], second - Window + 1, second) = InWindow(f) + 1
<1>1. PICK lo \in Int, hi \in Int : lo = second - Window + 1 /\ hi = second
  BY LimiterTypes
<1>2. second \in Second /\ second \in lo .. hi
  BY <1>1, LimiterTypes
<1>3. Between([f EXCEPT ![second] = @ + 1], lo, hi) = Between(f, lo, hi) + 1
  BY <1>2, BetweenGrows
<1> QED
  BY <1>1, <1>3 DEF InWindow

LEMMA AdmittedAreHits ==
    ASSUME LimiterIInv
    PROVE  InWindow(admitted) <= InWindow(hits)
<1>1. LimiterTypeOK
  BY DEF LimiterIInv
<1>2. \A t \in Second : t \in second - Window + 1 .. second => admitted[t] <= hits[t]
  BY <1>1, LimiterTypes DEF LimiterIInv, HitsAreRequests
<1> QED
  BY <1>1, <1>2, LimiterTypes, BetweenOrdered DEF InWindow

\* A step of one pipeline that changes nothing else.
LEMMA QuietPipe ==
    ASSUME LimiterIInv, NEW q \in Client, NEW r \in Pipeline,
           client' = [client EXCEPT ![q] = r],
           UNCHANGED <<second, hits, tried, admitted>>,
           r.pc \in {"free", "add"},
           r.pc = "add" => client[q].pc = "count" /\ r.count = InWindow(hits)
    PROVE  LimiterIInv'
<1>0. LimiterTypeOK
  BY DEF LimiterIInv
<1>1. LimiterTypeOK'
  BY <1>0 DEF LimiterTypeOK, Pipeline
<1>2. client'[q] = r /\ \A p \in Client \ {q} : client'[p] = client[p]
  BY <1>0, LimiterTypes
<1>3. HitsAreRequests'
  <2>1. q \in Piped' => q \in Piped
    BY <1>2 DEF Piped
  <2>2. Cardinality(Piped') \in Int /\ Cardinality(Piped') <= Cardinality(Piped)
    BY <1>0, <1>2, <2>1, PipedMoves, ClientsFinite
  <2>3. hits[second] \in Nat /\ tried[second] \in Nat /\ Cardinality(Piped) \in Nat
    BY <1>0, LimiterTypes, ClientsFinite
  <2>4. hits[second] + Cardinality(Piped') <= tried[second]
    BY <2>2, <2>3 DEF LimiterIInv, HitsAreRequests
  <2> QED
    BY <2>4 DEF LimiterIInv, HitsAreRequests
<1>4. CountsAreCurrent'
  <2>1. InWindow(hits)' = InWindow(hits) /\ InWindow(tried)' = InWindow(tried)
    BY DEF InWindow
  <2>2. InWindow(hits) \in Nat
    BY <1>0, WindowCounts
  <2>3. \A p \in Client :
          /\ client'[p].pc \in {"count", "add"} =>
                \A t \in Second : t <= second - Window => hits[t] = 0
          /\ client'[p].pc = "add" => client'[p].count <= InWindow(hits)
          /\ client'[p].pc = "limited" => InWindow(tried) > Limit
    BY <1>2, <2>2 DEF LimiterIInv, CountsAreCurrent
  <2> QED
    BY <2>1, <2>3 DEF CountsAreCurrent
<1>5. PassesAreBounded'
  <2>1. InWindow(admitted)' = InWindow(admitted)
    BY DEF InWindow
  <2>2. InWindow(admitted) \in Nat /\ InWindow(hits) \in Nat
        /\ InWindow(admitted) <= InWindow(hits)
    BY <1>0, WindowCounts, AdmittedAreHits
  <2>3. InWindow(admitted) + Cardinality(Passing') <= Limit + Cardinality(Client) - 1
    <3>1. CASE q \in Passing'
      <4>1. InWindow(hits) < Limit
        BY <1>2, <3>1 DEF Passing
      <4> QED
        BY <2>2, <4>1, PassingNext, ClientsFinite, LimiterAssumption
    <3>2. CASE q \notin Passing'
      <4>1. Cardinality(Passing') <= Cardinality(Passing)
        BY <1>0, <1>2, <3>2, PassingMoves
      <4> QED
        BY <2>2, <4>1, PassingNext, ClientsFinite, LimiterAssumption
           DEF LimiterIInv, PassesAreBounded
    <3> QED
      BY <3>1, <3>2
  <2> QED
    BY <2>1, <2>3 DEF LimiterIInv, PassesAreBounded
<1> QED
  BY <1>1, <1>3, <1>4, <1>5 DEF LimiterIInv

LEMMA ArriveStep ==
    ASSUME LimiterIInv, NEW q \in Client, Arrive(q)
    PROVE  LimiterIInv'
<1> USE LimiterAssumption
<1>0. LimiterTypeOK
  BY DEF LimiterIInv
<1>1. PICK r \in Pipeline : r = [client[q] EXCEPT !.pc = "trim"] /\ r.pc = "trim"
  <2>1. client[q] \in Pipeline
    BY <1>0, LimiterTypes
  <2>2. [client[q] EXCEPT !.pc = "trim"] \in Pipeline
        /\ [client[q] EXCEPT !.pc = "trim"].pc = "trim"
    BY <2>1 DEF Pipeline
  <2> QED
    BY <2>2
<1>2. /\ client' = [client EXCEPT ![q] = r] /\ client[q].pc = "free"
      /\ tried[second] < MaxTries /\ tried' = [tried EXCEPT ![second] = @ + 1]
      /\ UNCHANGED <<second, hits, admitted>>
  BY <1>1 DEF Arrive
<1>3. client'[q] = r /\ \A p \in Client \ {q} : client'[p] = client[p]
  BY <1>0, <1>2, LimiterTypes
<1>4. /\ tried' \in Times /\ tried'[second] = tried[second] + 1
      /\ \A t \in Second : tried[t] <= tried'[t]
  BY <1>0, <1>2, LimiterTypes DEF Times
<1>5. LimiterTypeOK'
  BY <1>0, <1>2, <1>4 DEF LimiterTypeOK, Pipeline, Times
<1>6. HitsAreRequests'
  <2>1. q \in Piped' /\ q \notin Piped
    BY <1>1, <1>2, <1>3 DEF Piped
  <2>2. Cardinality(Piped') = Cardinality(Piped) + 1 /\ Cardinality(Piped) \in Nat
    BY <1>0, <1>3, <2>1, PipedMoves, ClientsFinite
  <2>3. hits[second] + Cardinality(Piped') <= tried'[second]
    BY <1>0, <1>4, <2>2, LimiterTypes DEF LimiterIInv, HitsAreRequests
  <2>4. \A t \in Second : hits[t] <= tried'[t]
    <3>1. \A t \in Second : tried'[t] \in Nat
      BY <1>4 DEF Times
    <3> QED
      BY <1>0, <1>4, <3>1, LimiterTypes DEF LimiterIInv, HitsAreRequests
  <2> QED
    BY <1>2, <2>3, <2>4 DEF LimiterIInv, HitsAreRequests
<1>7. CountsAreCurrent'
  <2>1. InWindow(hits)' = InWindow(hits)
    BY <1>2 DEF InWindow
  <2>2. PICK f \in Times : f = tried'
    BY <1>4
  <2>3. InWindow(tried)' = Between(f, second - Window + 1, second)
    BY <1>2, <2>2 DEF InWindow
  <2>4. InWindow(tried) <= Between(f, second - Window + 1, second)
    <3>1. tried \in Times /\ \A t \in Second : t > second - Window => tried[t] <= f[t]
      BY <1>0, <1>4, <2>2, LimiterTypes
    <3> QED
      BY <1>0, <3>1, WindowKeeps DEF InWindow
  <2>5. InWindow(tried) \in Nat /\ Between(f, second - Window + 1, second) \in Nat
    BY <1>0, WindowCounts, MembersFinite
  <2>6. ASSUME NEW p \in Client
        PROVE  /\ client'[p].pc \in {"count", "add"} =>
                      \A t \in Second : t <= second - Window => hits[t] = 0
               /\ client'[p].pc = "add" => client'[p].count <= InWindow(hits)
               /\ client'[p].pc = "limited" => Between(f, second - Window + 1, second) > Limit
    <3>1. CASE p = q
      BY <1>1, <1>3, <3>1
    <3>2. CASE p # q
      <4>1. client'[p] = client[p]
        BY <1>3, <3>2
      <4> QED
        BY <2>4, <2>5, <4>1, LimiterAssumption DEF LimiterIInv, CountsAreCurrent
    <3> QED
      BY <3>1, <3>2
  <2> QED
    BY <1>2, <2>1, <2>3, <2>6 DEF CountsAreCurrent
<1>8. PassesAreBounded'
  <2>1. InWindow(admitted)' = InWindow(admitted) /\ InWindow(admitted) \in Nat
    BY <1>0, <1>2, WindowCounts DEF InWindow
  <2>2. q \notin Passing'
    BY <1>1, <1>3 DEF Passing
  <2>3. Cardinality(Passing') <= Cardinality(Passing)
    BY <1>0, <1>3, <2>2, PassingMoves
  <2> QED
    BY <1>2, <2>1, <2>3, PassingNext, ClientsFinite DEF LimiterIInv, PassesAreBounded
<1> QED
  BY <1>5, <1>6, <1>7, <1>8 DEF LimiterIInv

LEMMA TrimStep ==
    ASSUME LimiterIInv, NEW q \in Client, TrimWindow(q)
    PROVE  LimiterIInv'
<1> USE LimiterAssumption
<1>0. LimiterTypeOK
  BY DEF LimiterIInv
<1>1. PICK r \in Pipeline : r = [client[q] EXCEPT !.pc = "count"] /\ r.pc = "count"
  <2>1. client[q] \in Pipeline
    BY <1>0, LimiterTypes
  <2>2. [client[q] EXCEPT !.pc = "count"] \in Pipeline
        /\ [client[q] EXCEPT !.pc = "count"].pc = "count"
    BY <2>1 DEF Pipeline
  <2> QED
    BY <2>2
<1>2. /\ client' = [client EXCEPT ![q] = r] /\ client[q].pc = "trim"
      /\ hits' = [t \in Second |-> IF t <= second - Window THEN 0 ELSE hits[t]]
      /\ UNCHANGED <<second, tried, admitted>>
  BY <1>1 DEF TrimWindow
<1>3. client'[q] = r /\ \A p \in Client \ {q} : client'[p] = client[p]
  BY <1>0, <1>2, LimiterTypes
<1>4. /\ hits' \in Times
      /\ \A t \in Second : t <= second - Window => hits'[t] = 0
      /\ \A t \in Second : t > second - Window => hits'[t] = hits[t]
      /\ hits'[second] = hits[second]
  <2>1. \A t \in Second : hits'[t] = IF t <= second - Window THEN 0 ELSE hits[t]
    BY <1>2
  <2>2. hits' \in Times
    BY <1>0, <1>2, LimiterTypes DEF Times
  <2> QED
    BY <1>0, <2>1, <2>2, LimiterTypes
<1>5. LimiterTypeOK'
  BY <1>0, <1>2, <1>4 DEF LimiterTypeOK, Pipeline, Times
<1>6. HitsAreRequests'
  <2>1. q \in Piped' /\ q \in Piped
    BY <1>1, <1>2, <1>3 DEF Piped
  <2>2. Cardinality(Piped') = Cardinality(Piped)
    BY <1>0, <1>3, <2>1, PipedMoves
  <2>3. \A t \in Second : hits'[t] <= tried[t] /\ (hits[t] = 0 => hits'[t] = 0)
    BY <1>0, <1>4, LimiterTypes DEF LimiterIInv, HitsAreRequests
  <2> QED
    BY <1>2, <1>4, <2>2, <2>3 DEF LimiterIInv, HitsAreRequests
<1>7. CountsAreCurrent'
  <2>1. InWindow(tried)' = InWindow(tried)
    BY <1>2 DEF InWindow
  <2>2. PICK f \in Times : f = hits'
    BY <1>4
  <2>3. InWindow(hits)' = Between(f, second - Window + 1, second)
    BY <1>2, <2>2 DEF InWindow
  <2>4. InWindow(hits) <= Between(f, second - Window + 1, second)
    <3>1. hits \in Times /\ \A t \in Second : t > second - Window => hits[t] <= f[t]
      BY <1>0, <1>4, <2>2, LimiterTypes
    <3> QED
      BY <1>0, <3>1, WindowKeeps DEF InWindow
  <2>5. InWindow(hits) \in Nat /\ Between(f, second - Window + 1, second) \in Nat
    BY <1>0, WindowCounts, MembersFinite
  <2>6. ASSUME NEW p \in Client
        PROVE  /\ client'[p].pc \in {"count", "add"} =>
                      \A t \in Second : t <= second - Window => hits'[t] = 0
               /\ client'[p].pc = "add" =>
                      client'[p].count <= Between(f, second - Window + 1, second)
               /\ client'[p].pc = "limited" => InWindow(tried) > Limit
    <3>1. client[p].count \in Nat
      BY <1>0, LimiterTypes DEF Pipeline
    <3>2. CASE p = q
      BY <1>1, <1>3, <1>4, <3>2
    <3>3. CASE p # q
      <4>1. client'[p] = client[p]
        BY <1>3, <3>3
      <4> QED
        BY <1>4, <2>4, <2>5, <3>1, <4>1 DEF LimiterIInv, CountsAreCurrent
    <3> QED
      BY <3>2, <3>3
  <2> QED
    BY <1>2, <2>1, <2>3, <2>6 DEF CountsAreCurrent
<1>8. PassesAreBounded'
  <2>1. InWindow(admitted)' = InWindow(admitted) /\ InWindow(admitted) \in Nat
    BY <1>0, <1>2, WindowCounts DEF InWindow
  <2>2. q \notin Passing'
    BY <1>1, <1>3 DEF Passing
  <2>3. Cardinality(Passing') <= Cardinality(Passing)
    BY <1>0, <1>3, <2>2, PassingMoves
  <2> QED
    BY <1>2, <2>1, <2>3, PassingNext, ClientsFinite DEF LimiterIInv, PassesAreBounded
<1> QED
  BY <1>5, <1>6, <1>7, <1>8 DEF LimiterIInv

\* After the trim the window is all there is to count.
LEMMA CountStep ==
    ASSUME LimiterIInv, NEW q \in Client, CountWindow(q)
    PROVE  LimiterIInv'
<1> USE LimiterAssumption
<1>0. LimiterTypeOK
  BY DEF LimiterIInv
<1>1. client[q].pc = "count" /\ \A t \in Second : t <= second - Window => hits[t] = 0
  BY DEF CountWindow, LimiterIInv, CountsAreCurrent
<1>2. Between(hits, 0, MaxSeconds) <= InWindow(hits)
  <2>1. \A t \in Second : t \in 0 .. MaxSeconds /\ hits[t] # 0 =>
            t > second - Window /\ t <= second /\ hits[t] <= hits[t]
    BY <1>0, <1>1, LimiterTypes DEF LimiterIInv, HitsAreRequests
  <2>2. hits \in Times /\ 0 \in Int /\ MaxSeconds \in Int
    BY <1>0, LimiterTypes
  <2> QED
    BY <1>0, <2>1, <2>2, WindowOrdered
<1>3. InWindow(hits) <= Between(hits, 0, MaxSeconds)
  <2>1. \A t \in Second : t \in 0 .. MaxSeconds /\ hits[t] <= hits[t]
    BY <1>0, LimiterTypes DEF Second
  <2>2. PICK lo \in Int, hi \in Int : lo = second - Window + 1 /\ hi = second
    BY <1>0, LimiterTypes
  <2>3. Between(hits, lo, hi) <= Between(hits, 0, MaxSeconds)
    <3>1. hits \in Times /\ 0 \in Int /\ MaxSeconds \in Int
      BY <1>0, LimiterTypes
    <3> QED
      BY <2>1, <3>1, BetweenOrdered
  <2> QED
    BY <2>2, <2>3 DEF InWindow
<1>4. Between(hits, 0, MaxSeconds) \in Nat /\ Between(hits, 0, MaxSeconds) = InWindow(hits)
  BY <1>0, <1>2, <1>3, MembersFinite, WindowCounts
<1> DEFINE r == [pc |-> "add", count |-> Between(hits, 0, MaxSeconds)]
<1>5. r \in Pipeline /\ r.pc = "add" /\ r.count = InWindow(hits)
  BY <1>4 DEF Pipeline
<1>6. client' = [client EXCEPT ![q] = r] /\ UNCHANGED <<second, hits, tried, admitted>>
  BY DEF CountWindow
<1> HIDE DEF r
<1> QED
  BY <1>1, <1>5, <1>6, QuietPipe

LEMMA AddStep ==
    ASSUME LimiterIInv, NEW q \in Client, AddHit(q)
    PROVE  LimiterIInv'
<1> USE LimiterAssumption
<1>0. LimiterTypeOK
  BY DEF LimiterIInv
<1>1. PICK n \in Nat : n = client[q].count
  BY <1>0, LimiterTypes DEF Pipeline
<1>2. client[q].pc = "add" /\ q \in Piped
  BY DEF AddHit, Piped
<1>3. PICK r \in Pipeline :
        /\ client' = [client EXCEPT ![q] = r]
        /\ n < Limit => r.pc = "free"
        /\ ~ n < Limit => r.pc = "limited"
  <2>1. FreeClient \in Pipeline /\ FreeClient.pc = "free"
    BY DEF FreeClient, Pipeline
  <2>2. [client[q] EXCEPT !.pc = "limited"] \in Pipeline
        /\ [client[q] EXCEPT !.pc = "limited"].pc = "limited"
    BY <1>0, LimiterTypes DEF Pipeline
  <2>3. client[q].count < Limit => client' = [client EXCEPT ![q] = FreeClient]
    BY DEF AddHit
  <2>4. ~ client[q].count < Limit => client' = [client EXCEPT ![q] = [@ EXCEPT !.pc = "limited"]]
    BY DEF AddHit
  <2> QED
    BY <1>1, <2>1, <2>2, <2>3, <2>4
<1>4. /\ hits' = [hits EXCEPT ![second] = @ + 1]
      /\ n < Limit => admitted' = [admitted EXCEPT ![second] = @ + 1]
      /\ ~ n < Limit => admitted' = admitted
      /\ UNCHANGED <<second, tried>>
  BY <1>1 DEF AddHit
<1>5. client'[q] = r /\ \A p \in Client \ {q} : client'[p] = client[p]
  BY <1>0, <1>3, LimiterTypes
<1>6. q \notin Piped' /\ q \notin Passing' /\ (n < Limit => q \in Passing)
  BY <1>1, <1>2, <1>3, <1>5 DEF Piped, Passing
<1>7. Cardinality(Piped') = Cardinality(Piped) - 1 /\ Cardinality(Piped) \in Nat
  BY <1>0, <1>2, <1>5, <1>6, PipedMoves, ClientsFinite
<1>8. Cardinality(Piped) >= 1
  <2>1. Cardinality(Piped) # 0
    BY <1>2, ClientsFinite, FS_EmptySet
  <2> QED
    BY <1>7, <2>1
<1>9. hits[second] < tried[second] /\ hits[second] < MaxTries /\ admitted[second] < MaxTries
  <2>1. hits[second] < tried[second]
    BY <1>0, <1>7, <1>8, LimiterTypes DEF LimiterIInv, HitsAreRequests
  <2>2. tried[second] <= MaxTries
    BY <1>0, LimiterTypes DEF Times
  <2>3. admitted[second] <= hits[second]
    BY <1>0, LimiterTypes DEF LimiterIInv, HitsAreRequests
  <2> QED
    BY <1>0, <2>1, <2>2, <2>3, LimiterTypes
<1>10. /\ hits' \in Times /\ hits'[second] = hits[second] + 1
       /\ \A t \in Second : t # second => hits'[t] = hits[t]
       /\ \A t \in Second : hits[t] <= hits'[t]
  BY <1>0, <1>4, <1>9, LimiterTypes DEF Times
<1>11. /\ admitted' \in Times
       /\ admitted'[second] \in {admitted[second], admitted[second] + 1}
       /\ \A t \in Second : t # second => admitted'[t] = admitted[t]
  BY <1>0, <1>4, <1>9, LimiterTypes DEF Times
<1>12. LimiterTypeOK'
  BY <1>0, <1>3, <1>4, <1>10, <1>11 DEF LimiterTypeOK, Pipeline, Times
<1>13. HitsAreRequests'
  <2>1. hits'[second] + Cardinality(Piped') <= tried[second]
    BY <1>0, <1>7, <1>10, LimiterTypes DEF LimiterIInv, HitsAreRequests
  <2>2. hits'[second] <= tried[second] /\ admitted'[second] <= hits'[second]
    BY <1>0, <1>9, <1>10, <1>11, LimiterTypes DEF LimiterIInv, HitsAreRequests
  <2>3. \A t \in Second : t > second => t # second
    BY <1>0, LimiterTypes
  <2>4. \A t \in Second :
          /\ t > second => hits'[t] = 0 /\ admitted'[t] = 0
          /\ t > second - Window => admitted'[t] <= hits'[t]
          /\ hits'[t] <= tried[t]
    BY <1>10, <1>11, <2>2, <2>3 DEF LimiterIInv, HitsAreRequests
  <2> QED
    BY <1>4, <2>1, <2>4 DEF HitsAreRequests
<1>14. PICK f \in Times : f = hits'
  BY <1>10
<1>15. /\ InWindow(hits)' = Between(f, second - Window + 1, second)
       /\ InWindow(tried)' = InWindow(tried)
  BY <1>4, <1>14 DEF InWindow
<1>16. /\ InWindow(hits) + 1 = Between(f, second - Window + 1, second)
       /\ InWindow(hits) \in Nat /\ InWindow(tried) \in Nat
  <2>1. hits \in Times
    BY <1>0, LimiterTypes
  <2> QED
    BY <1>0, <1>4, <1>9, <1>14, <2>1, WindowGrows, WindowCounts
<1>17. Between(f, second - Window + 1, second) <= InWindow(tried)
  <2>1. \A t \in Second : f[t] <= tried[t]
    BY <1>4, <1>13, <1>14 DEF HitsAreRequests
  <2>2. PICK lo \in Int, hi \in Int : lo = second - Window + 1 /\ hi = second
    BY <1>0, LimiterTypes
  <2>3. \A t \in Second : t \in lo .. hi /\ f[t] # 0 =>
            t > second - Window /\ t <= second /\ f[t] <= tried[t]
    BY <1>0, <2>1, <2>2, LimiterTypes
  <2>4. tried \in Times
    BY <1>0, LimiterTypes
  <2> QED
    BY <1>0, <2>2, <2>3, <2>4, WindowOrdered
<1>18. CountsAreCurrent'
  <2>1. n <= InWindow(hits) /\ \A t \in Second : t <= second - Window => hits[t] = 0
    BY <1>1, <1>2 DEF LimiterIInv, CountsAreCurrent
  <2>2. r.pc = "limited" => InWindow(tried) > Limit
    BY <1>3, <1>16, <1>17, <2>1
  <2>3. \A t \in Second : t <= second - Window => t # second
    BY <1>0, LimiterTypes
  <2>4. ASSUME NEW p \in Client
        PROVE  /\ client'[p].pc \in {"count", "add"} =>
                      \A t \in Second : t <= second - Window => hits'[t] = 0
               /\ client'[p].pc = "add" =>
                      client'[p].count <= Between(f, second - Window + 1, second)
               /\ client'[p].pc = "limited" => InWindow(tried) > Limit
    <3>1. client[p].count \in Nat
      BY <1>0, LimiterTypes DEF Pipeline
    <3>2. CASE p = q
      <4>1. r.pc \in {"free", "limited"}
        BY <1>3
      <4> QED
        BY <1>5, <2>2, <3>2, <4>1
    <3>3. CASE p # q
      BY <1>5, <1>10, <1>16, <2>1, <2>3, <3>1, <3>3 DEF LimiterIInv, CountsAreCurrent
    <3> QED
      BY <3>2, <3>3
  <2> QED
    BY <1>4, <1>15, <2>4 DEF CountsAreCurrent
<1>19. PassesAreBounded'
  <2>1. PICK g \in Times : g = admitted'
    BY <1>11
  <2>2. InWindow(admitted)' = Between(g, second - Window + 1, second)
    BY <1>4, <2>1 DEF InWindow
  <2>3. InWindow(admitted) \in Nat /\ Cardinality(Passing') \in Nat /\ Cardinality(Passing) \in Nat
        /\ Cardinality(Client) \in Nat
    BY <1>0, WindowCounts, PassingNext, ClientsFinite
  <2>4. Between(g, second - Window + 1, second) + Cardinality(Passing')
          <= Limit + Cardinality(Client) - 1
    <3>1. CASE n < Limit
      <4>1. Between(g, second - Window + 1, second) = InWindow(admitted) + 1
        <5>1. admitted \in Times
          BY <1>0, LimiterTypes
        <5> QED
          BY <1>0, <1>4, <1>9, <2>1, <3>1, <5>1, WindowGrows
      <4>2. Cardinality(Passing') = Cardinality(Passing) - 1
        BY <1>0, <1>5, <1>6, <3>1, PassingMoves
      <4> QED
        BY <2>3, <4>1, <4>2 DEF LimiterIInv, PassesAreBounded
    <3>2. CASE ~ n < Limit
      <4>1. Between(g, second - Window + 1, second) = InWindow(admitted)
        BY <1>4, <2>1, <3>2 DEF InWindow
      <4>2. Cardinality(Passing') <= Cardinality(Passing)
        BY <1>0, <1>5, <1>6, PassingMoves
      <4> QED
        BY <2>3, <4>1, <4>2 DEF LimiterIInv, PassesAreBounded
    <3> QED
      BY <3>1, <3>2
  <2>5. ASSUME NEW t \in Second, t < second
        PROVE  Between(g, t - Window + 1, t) <= Limit + Cardinality(Client) - 1
    <3>1. Between(g, t - Window + 1, t) <= Between(admitted, t - Window + 1, t)
      <4>1. t \in Nat /\ t - Window + 1 \in Int /\ admitted \in Times
        BY <1>0, LimiterTypes
      <4>2. \A u \in Second : u \in t - Window + 1 .. t => u # second
        BY <1>0, <2>5, LimiterTypes
      <4>3. \A u \in Second : u \in t - Window + 1 .. t => g[u] = admitted[u] /\ g[u] \in Nat
        BY <1>11, <2>1, <4>2 DEF Times
      <4>4. \A u \in Second : u \in t - Window + 1 .. t => g[u] <= admitted[u]
        BY <4>3
      <4> QED
        BY <4>1, <4>4, BetweenOrdered
    <3>2. /\ Between(g, t - Window + 1, t) \in Nat
          /\ Between(admitted, t - Window + 1, t) \in Nat
      BY MembersFinite
    <3> QED
      BY <2>3, <2>5, <3>1, <3>2 DEF LimiterIInv, PassesAreBounded
  <2> QED
    BY <1>4, <2>1, <2>2, <2>4, <2>5 DEF PassesAreBounded
<1> QED
  BY <1>12, <1>13, <1>18, <1>19 DEF LimiterIInv

LEMMA SecondStep ==
    ASSUME LimiterIInv, PassSecond
    PROVE  LimiterIInv'
<1> USE LimiterAssumption
<1>0. LimiterTypeOK
  BY DEF LimiterIInv
<1>1. /\ second < MaxSeconds /\ second' = second + 1 /\ second' \in Second
      /\ \A q \in Client : client[q].pc = "free"
      /\ UNCHANGED <<hits, client, tried, admitted>>
  BY <1>0, LimiterTypes DEF PassSecond, Second
<1>2. LimiterTypeOK'
  BY <1>0, <1>1 DEF LimiterTypeOK
<1>3. /\ \A t \in Second : t > second + 1 => t > second
      /\ \A t \in Second : t > second + 1 - Window => t > second - Window
      /\ \A t \in Second : t < second + 1 => t < second \/ t = second
      /\ second + 1 > second /\ second + 1 \in Second
  BY <1>0, <1>1, LimiterTypes
<1>4. Piped' = {} /\ Passing' = {} /\ Passing = {}
  BY <1>1 DEF Piped, Passing
<1>5. Cardinality(Piped') = 0 /\ Cardinality(Passing') = 0 /\ Cardinality(Passing) = 0
  BY <1>4, FS_EmptySet
<1>6. HitsAreRequests'
  <2>1. hits[second + 1] = 0 /\ tried[second + 1] \in Nat
    BY <1>0, <1>3, LimiterTypes DEF LimiterIInv, HitsAreRequests
  <2>2. hits[second + 1] + Cardinality(Piped') <= tried[second + 1]
    BY <1>5, <2>1
  <2>3. \A t \in Second :
          /\ t > second + 1 => hits[t] = 0 /\ admitted[t] = 0
          /\ t > second + 1 - Window => admitted[t] <= hits[t]
          /\ hits[t] <= tried[t]
    BY <1>3 DEF LimiterIInv, HitsAreRequests
  <2>4. PICK n \in Int : second \in Nat /\ n = second + 1
    BY <1>0, LimiterTypes
  <2>5. /\ \A t \in Second : t > n => hits[t] = 0 /\ admitted[t] = 0
        /\ \A t \in Second : t > n - Window => admitted[t] <= hits[t]
        /\ hits[n] + Cardinality(Piped') <= tried[n]
    BY <2>2, <2>3, <2>4
  <2>6. second' = n /\ hits' = hits /\ admitted' = admitted /\ tried' = tried
    BY <1>1, <2>4
  <2> QED
    BY <2>3, <2>5, <2>6 DEF HitsAreRequests
<1>7. CountsAreCurrent'
  BY <1>1 DEF CountsAreCurrent
<1>8. PassesAreBounded'
  <2> DEFINE bound == Limit + Cardinality(Client) - 1
  <2>1. InWindow(admitted) <= bound /\ InWindow(admitted) \in Nat /\ bound \in Int
    <3>1. InWindow(admitted) + Cardinality(Passing) <= bound
      BY DEF LimiterIInv, PassesAreBounded
    <3>2. InWindow(admitted) \in Nat /\ bound \in Int
      BY <1>0, WindowCounts, ClientsFinite
    <3> HIDE DEF bound
    <3> QED
      BY <1>5, <3>1, <3>2
  <2>2. InWindow(admitted)' = Between(admitted, second + 1 - Window + 1, second + 1)
    <3>1. PICK n \in Int : second \in Nat /\ n = second + 1
      BY <1>0, LimiterTypes
    <3>2. second' = n /\ admitted' = admitted
      BY <1>1, <3>1
    <3>3. InWindow(admitted)' = Between(admitted, n - Window + 1, n)
      BY <3>2 DEF InWindow
    <3>4. n - Window + 1 = second + 1 - Window + 1
      BY <3>1
    <3> QED
      BY <3>1, <3>3, <3>4
  <2>3. Between(admitted, second + 1 - Window + 1, second + 1) <= InWindow(admitted)
    <3>1. \A t \in Second : t \in second + 1 - Window + 1 .. second + 1 /\ admitted[t] # 0 =>
              t > second - Window /\ t <= second /\ admitted[t] <= admitted[t]
      BY <1>0, LimiterTypes DEF LimiterIInv, HitsAreRequests
    <3>2. second + 1 - Window + 1 \in Int /\ second + 1 \in Int /\ admitted \in Times
      BY <1>0, LimiterTypes
    <3> QED
      BY <1>0, <3>1, <3>2, WindowOrdered
  <2>4. Between(admitted, second + 1 - Window + 1, second + 1) \in Nat
    BY MembersFinite
  <2>5. InWindow(admitted)' + Cardinality(Passing') <= bound
    BY <1>5, <2>1, <2>2, <2>3, <2>4
  <2>6. \A t \in Second : t < second + 1 => Between(admitted, t - Window + 1, t) <= bound
    <3>1. Between(admitted, second - Window + 1, second) <= bound
      BY <2>1 DEF InWindow
    <3>2. \A t \in Second : t < second => Between(admitted, t - Window + 1, t) <= bound
      BY DEF LimiterIInv, PassesAreBounded
    <3> HIDE DEF bound
    <3> QED
      BY <1>3, <3>1, <3>2
  <2> QED
    BY <1>1, <2>5, <2>6 DEF PassesAreBounded
<1> QED
  BY <1>2, <1>6, <1>7, <1>8 DEF LimiterIInv

LEMMA LimiterStep == LimiterIInv /\ [LimiterNext]_limiterVars => LimiterIInv'
<1> SUFFICES ASSUME LimiterIInv, [LimiterNext]_limiterVars
             PROVE  LimiterIInv'
  OBVIOUS
<1>1. ASSUME NEW q \in Client, Refuse(q) \/ FailOpen(q)
      PROVE  LimiterIInv'
  <2>1. FreeClient \in Pipeline /\ FreeClient.pc = "free"
    BY DEF FreeClient, Pipeline
  <2> QED
    BY <1>1, <2>1, QuietPipe DEF Refuse, FailOpen
<1>2. CASE UNCHANGED limiterVars
  BY <1>2 DEF limiterVars, LimiterIInv, LimiterTypeOK, HitsAreRequests, CountsAreCurrent,
              PassesAreBounded, Piped, Passing, InWindow
<1> QED
  BY <1>1, <1>2, ArriveStep, TrimStep, CountStep, AddStep, SecondStep DEF LimiterNext

\* A window that is to come, or is not full yet, holds no more than the present one.
LEMMA LimiterIInvImplies == LimiterIInv => LimitHolds
<1> SUFFICES ASSUME LimiterIInv
             PROVE  LimitHolds
  OBVIOUS
<1> USE LimiterAssumption
<1>0. LimiterTypeOK
  BY DEF LimiterIInv
<1>1. ASSUME NEW t \in Second
      PROVE  Between(admitted, t - Window + 1, t) <= Limit + Cardinality(Client) - 1
  <2>1. CASE t < second
    BY <2>1 DEF LimiterIInv, PassesAreBounded
  <2>2. CASE ~ t < second
    <3>1. \A u \in Second : u \in t - Window + 1 .. t /\ admitted[u] # 0 =>
              u > second - Window /\ u <= second /\ admitted[u] <= admitted[u]
      BY <1>0, <2>2, LimiterTypes DEF LimiterIInv, HitsAreRequests
    <3>2. t - Window + 1 \in Int /\ t \in Int /\ admitted \in Times
      BY <1>0, LimiterTypes
    <3>3. Between(admitted, t - Window + 1, t) <= InWindow(admitted)
      BY <1>0, <3>1, <3>2, WindowOrdered
    <3>4. Between(admitted, t - Window + 1, t) \in Nat /\ InWindow(admitted) \in Nat
      BY <1>0, MembersFinite, WindowCounts
    <3> QED
      BY <3>3, <3>4, ClientsFinite DEF LimiterIInv, PassesAreBounded
  <2> QED
    BY <2>1, <2>2
<1> QED
  BY <1>0, <1>1 DEF LimitHolds, LimiterIInv, CountsAreCurrent, InWindow

\* However the pipelines of requests at the same time interleave, for every limit,
\* window and number of requests, no window lets through more than the limit and one
\* for each other request at work, and nobody is refused before the limit was reached.
THEOREM LimitsHold == LimiterSpec => []LimitHolds
<1>1. LimiterInit => LimiterIInv
  <2> SUFFICES ASSUME LimiterInit
               PROVE  LimiterIInv
    OBVIOUS
  <2> USE LimiterAssumption
  <2>1. LimiterTypeOK
    BY DEF LimiterInit, LimiterTypeOK, FreeClient, Second
  <2>2. \A q \in Client : client[q].pc = "free"
    BY DEF LimiterInit, FreeClient
  <2>3. Piped = {} /\ Passing = {}
    BY <2>2 DEF Piped, Passing
  <2>4. Cardinality(Piped) = 0 /\ Cardinality(Passing) = 0
    BY <2>3, FS_EmptySet
  <2>5. \A t \in Second : hits[t] = 0 /\ tried[t] = 0 /\ admitted[t] = 0
    BY DEF LimiterInit
  <2>6. HitsAreRequests
    BY <2>1, <2>4, <2>5, LimiterTypes DEF HitsAreRequests
  <2>7. CountsAreCurrent
    BY <2>2 DEF CountsAreCurrent
  <2>8. \A a, b \in Int : Between(admitted, a, b) = 0
    <3>1. \A a, b \in Int : Members(admitted, a, b) = {}
      BY <2>5 DEF Members
    <3> QED
      BY <3>1, FS_EmptySet DEF Between
  <2>9. PassesAreBounded
    <3>1. InWindow(admitted) = 0
      BY <2>1, <2>8, LimiterTypes DEF InWindow
    <3>2. \A t \in Second : ~ t < second
      BY DEF LimiterInit, Second
    <3> QED
      BY <2>4, <3>1, <3>2, ClientsFinite DEF PassesAreBounded
  <2> QED
    BY <2>1, <2>6, <2>7, <2>9 DEF LimiterIInv
<1> QED
  BY <1>1, LimiterStep, LimiterIInvImplies, PTL DEF LimiterSpec

-----------------------------------------------------------------------------
(* Logins *)

\* The founder f[i] of row i is the user it was inserted for.  Whoever else has to
\* do with it came by its email, which is the login name.
Fits(acc, f, i, s) == s = f[i] \/ acc[i].email = LoginName[s]

\* Copy a may be saved over row i: no request changes an email.
MaySave(acc, f, i, a) ==
    /\ i \in AccountID /\ acc[i] # NoAccountRow
    /\ a \in AccountRow /\ a.email = acc[i].email /\ Fits(acc, f, i, a.sub)

\* Identifier id leads to the login name of u, by a row or as it stands.
LeadsTo(acc, id, u) ==
    /\ id = LoginName[u] \/ \E i \in AccountID : acc[i] # NoAccountRow /\ Has(acc[i], id)
    /\ \A i \in AccountID :
        acc[i] # NoAccountRow /\ Has(acc[i], id) => Home(acc[i]) = LoginName[u]

\* Where a request that should let its user in has got to.
OnTheWayIn(acc, zit, l) ==
    /\ l.pc # "refused"
    /\ l.pc \in {"email", "phone", "session"} => l.user \in zit
    /\ l.pc \in {"email", "phone"} => LeadsTo(acc, l.name, l.user)
    /\ l.pc = "session" => l.name = LoginName[l.user]

LoginSound(acc, zit, f, l) ==
    /\ l.pc \in {"email", "phone", "session", "upsert", "link", "create", "save"} => l.user \in User
    /\ l.pc = "email" => l.name \in MailAddress
    /\ l.pc = "phone" => l.name \in PhoneNumber
    /\ l.pc = "save" => MaySave(acc, f, l.at, l.copy) /\ l.copy.sub = l.user
    /\ l.pc = "in" /\ l.direct =>
        /\ l.user \in User /\ l.at \in AccountID
        /\ acc[l.at] # NoAccountRow /\ Fits(acc, f, l.at, l.user)
    /\ l.due => OnTheWayIn(acc, zit, l)

EditSound(acc, f, d) ==
    /\ d.pc = "insert" => d.copy \in AccountRow
    /\ d.pc = "save" => MaySave(acc, f, d.at, d.copy)

\* What the indexes keep apart.
RowsApart(acc) ==
    \A i, j \in AccountID : i # j /\ acc[i] # NoAccountRow /\ acc[j] # NoAccountRow =>
        /\ acc[i].sub # acc[j].sub /\ acc[i].email # acc[j].email
        /\ acc[i].username = NoName \/ acc[i].username # acc[j].username
        /\ acc[i].phone = NoName \/ acc[i].phone # acc[j].phone
        /\ acc[i].lurus \/ acc[j].lurus

Founded(acc, f) ==
    /\ f \in [AccountID -> User \union {NoUser}]
    /\ \A i \in AccountID : acc[i] # NoAccountRow => Fits(acc, f, i, acc[i].sub)

LoginState ==
    [pc : {"free", "email", "phone", "account", "session", "upsert", "link", "create",
           "save", "callback", "in", "refused"},
     user : User \union {NoUser}, name : Identifier \union {NoName},
     direct : BOOLEAN, due : BOOLEAN, at : AccountID \union {0}, copy : MaybeRow]
EditState == [pc : {"free", "insert", "save"}, at : AccountID \union {0}, copy : MaybeRow]

SoundWith(f) ==
    /\ LoginTypeOK /\ RowsApart(accounts) /\ Founded(accounts, f)
    /\ \A e \in Edit : EditSound(accounts, f, edit[e])
    /\ \A q \in LoginRequest : LoginSound(accounts, zitadel, f, login[q])

LoginIInv == \E f : SoundWith(f)

LEMMA LoginTyped == LoginTypeOK <=> /\ accounts \in [AccountID -> MaybeRow]
                                    /\ zitadel \subseteq User
                                    /\ login \in [LoginRequest -> LoginState]
                                    /\ edit \in [Edit -> EditState]
                                    /\ loginFaults \in 0 .. MaxLoginFaults
BY DEF LoginTypeOK, LoginState, EditState

LEMMA RowsTyped ==
    ASSUME LoginTypeOK, NEW i \in AccountID, accounts[i] # NoAccountRow
    PROVE  /\ accounts[i] \in AccountRow /\ accounts[i].sub \in User
           /\ accounts[i].username \in Identifier \union {NoName}
           /\ accounts[i].email \in Identifier \union {NoName}
           /\ accounts[i].phone \in PhoneNumber \union {NoName}
BY LoginTyped DEF MaybeRow, AccountRow

\* An address or a number leads to one row.
LEMMA OneRow ==
    ASSUME RowsApart(accounts), NEW i \in AccountID, NEW j \in AccountID,
           accounts[i] # NoAccountRow, accounts[j] # NoAccountRow, NEW id \in Identifier,
           Has(accounts[i], id), Has(accounts[j], id)
    PROVE  i = j
BY SignInAssumption DEF RowsApart, Has, Identifier

\* A step of one request that leaves the rows alone.
LEMMA LoginMoves ==
    ASSUME NEW f, SoundWith(f), NEW q \in LoginRequest, NEW l \in LoginState,
           LoginSound(accounts, zitadel, f, l),
           login' = [login EXCEPT ![q] = l], UNCHANGED <<accounts, zitadel, edit>>,
           loginFaults' \in 0 .. MaxLoginFaults
    PROVE  SoundWith(f)'
<1>1. login \in [LoginRequest -> LoginState]
  BY LoginTyped DEF SoundWith
<1>2. login' \in [LoginRequest -> LoginState]
      /\ \A p \in LoginRequest : login'[p] = IF p = q THEN l ELSE login[p]
  BY <1>1
<1>3. LoginTypeOK'
  BY <1>2, LoginTyped DEF SoundWith, LoginTypeOK, LoginState
<1> QED
  BY <1>2, <1>3 DEF SoundWith

\* A step that only moves a request on.
LEMMA LoginGoesOn ==
    ASSUME NEW f, SoundWith(f), NEW q \in LoginRequest,
           NEW pc \in {"upsert", "link", "create", "callback"}, LoginAt(q, pc),
           pc # "callback" => login[q].user \in User, UNCHANGED othersVars
    PROVE  SoundWith(f)'
<1> DEFINE l == [login[q] EXCEPT !.pc = pc]
<1>1. login[q] \in LoginState /\ loginFaults \in 0 .. MaxLoginFaults
      /\ LoginSound(accounts, zitadel, f, login[q])
  BY LoginTyped DEF SoundWith
<1>2. l \in LoginState /\ l.pc = pc /\ l.user = login[q].user
  BY <1>1 DEF LoginState
<1>3. login' = [login EXCEPT ![q] = l]
  BY <1>1 DEF LoginAt
<1>4. LoginSound(accounts, zitadel, f, l)
  BY <1>2 DEF LoginSound, OnTheWayIn
<1> HIDE DEF l
<1> QED
  BY <1>1, <1>2, <1>3, <1>4, LoginMoves DEF othersVars

\* A step that refuses a request, or frees it.
LEMMA LoginEnds ==
    ASSUME NEW f, SoundWith(f), NEW q \in LoginRequest,
           LoginRefused(q, FALSE) \/ login' = [login EXCEPT ![q] = FreeLogin]
               \/ login' = [login EXCEPT ![q] = [FreeLogin EXCEPT !.pc = "in"]],
           UNCHANGED <<accounts, zitadel, edit>>, loginFaults' \in 0 .. MaxLoginFaults
    PROVE  SoundWith(f)'
<1>1. /\ FreeLogin \in LoginState
      /\ [FreeLogin EXCEPT !.pc = "in"] \in LoginState
      /\ [FreeLogin EXCEPT !.pc = "refused", !.due = FALSE] \in LoginState
  BY DEF FreeLogin, LoginState, MaybeRow
<1>2. /\ LoginSound(accounts, zitadel, f, FreeLogin)
      /\ LoginSound(accounts, zitadel, f, [FreeLogin EXCEPT !.pc = "in"])
      /\ LoginSound(accounts, zitadel, f, [FreeLogin EXCEPT !.pc = "refused", !.due = FALSE])
  BY DEF FreeLogin, LoginSound
<1> QED
  BY <1>1, <1>2, LoginMoves DEF LoginRefused

\* A step that has found the login name moves on to the session.
LEMMA LoginResolved ==
    ASSUME NEW f, SoundWith(f), NEW q \in LoginRequest, NEW name,
           login[q].pc \in {"email", "phone"}, Resolved(q, name), UNCHANGED othersVars,
           login[q].due => name = LoginName[login[q].user]
    PROVE  SoundWith(f)'
<1> DEFINE n == Asked(login[q].user, name)
           l == [login[q] EXCEPT !.pc = "session", !.name = n]
<1>1. login[q] \in LoginState /\ loginFaults \in 0 .. MaxLoginFaults
      /\ LoginSound(accounts, zitadel, f, login[q]) /\ login[q].user \in User
  BY LoginTyped DEF SoundWith, LoginSound
<1>2. n \in Identifier \union {NoName}
      /\ (name = LoginName[login[q].user] => n = LoginName[login[q].user])
  BY <1>1 DEF Asked, Identifier, Named
<1>3. login' = [login EXCEPT ![q] = l]
  BY <1>1 DEF Resolved, LoginState
<1> HIDE DEF n
<1>4. l \in LoginState /\ l.pc = "session" /\ l.user = login[q].user /\ l.name = n
      /\ l.due = login[q].due
  BY <1>1, <1>2 DEF LoginState
<1> HIDE DEF l
<1>5. LoginSound(accounts, zitadel, f, l)
  BY <1>1, <1>2, <1>4 DEF LoginSound, OnTheWayIn
<1> QED
  BY <1>1, <1>3, <1>4, <1>5, LoginMoves DEF othersVars

\* What the write of a row does to the rows and to whatever is held for them.
LEMMA RowWritten ==
    ASSUME NEW f, SoundWith(f), NEW i \in AccountID, NEW a \in AccountRow, Clashes(i, a) = {},
           accounts[i] # NoAccountRow => MaySave(accounts, f, i, a),
           accounts' = [accounts EXCEPT ![i] = a],
           NEW g, g = IF accounts[i] = NoAccountRow THEN [f EXCEPT ![i] = a.sub] ELSE f
    PROVE  /\ accounts' \in [AccountID -> MaybeRow]
           /\ RowsApart(accounts') /\ Founded(accounts', g) /\ MaySave(accounts', g, i, a)
           /\ \A j \in AccountID : \A b : MaySave(accounts, f, j, b) => MaySave(accounts', g, j, b)
           /\ \A j \in AccountID : \A s : accounts[j] # NoAccountRow /\ Fits(accounts, f, j, s) =>
                accounts'[j] # NoAccountRow /\ Fits(accounts', g, j, s)
<1>1. /\ accounts \in [AccountID -> MaybeRow] /\ f \in [AccountID -> User \union {NoUser}]
      /\ a.sub \in User /\ a # NoAccountRow
  BY LoginTyped, SignInAssumption DEF SoundWith, Founded, AccountRow
<1>2. /\ accounts' \in [AccountID -> MaybeRow] /\ accounts'[i] = a
      /\ \A j \in AccountID : j # i => accounts'[j] = accounts[j]
  BY <1>1 DEF MaybeRow
<1>3. g \in [AccountID -> User \union {NoUser}] /\ \A j \in AccountID : accounts[j] # NoAccountRow => g[j] = f[j]
  BY <1>1
<1>4. accounts[i] = NoAccountRow => g[i] = a.sub
  BY <1>1
<1>5. \A j \in AccountID : accounts[j] # NoAccountRow =>
        accounts'[j] # NoAccountRow /\ accounts'[j].email = accounts[j].email
  BY <1>1, <1>2 DEF MaySave
<1>6. RowsApart(accounts')
  BY <1>2 DEF SoundWith, RowsApart, Clashes
<1>7. \A j \in AccountID : \A s : accounts[j] # NoAccountRow /\ Fits(accounts, f, j, s) =>
        accounts'[j] # NoAccountRow /\ Fits(accounts', g, j, s)
  BY <1>3, <1>5 DEF Fits
<1>8. \A j \in AccountID : \A b : MaySave(accounts, f, j, b) => MaySave(accounts', g, j, b)
  BY <1>5, <1>7 DEF MaySave
<1>9. MaySave(accounts', g, i, a)
  BY <1>1, <1>2, <1>4, <1>8 DEF MaySave, Fits
<1>10. Founded(accounts', g)
  <2>1. ASSUME NEW j \in AccountID, accounts'[j] # NoAccountRow
        PROVE  Fits(accounts', g, j, accounts'[j].sub)
    <3>1. CASE j = i
      BY <1>2, <1>9, <3>1 DEF MaySave
    <3>2. CASE j # i
      BY <1>2, <1>7, <2>1, <3>2 DEF SoundWith, Founded
    <3> QED
      BY <3>1, <3>2
  <2> QED
    BY <1>3, <2>1 DEF Founded
<1> QED
  BY <1>2, <1>6, <1>7, <1>8, <1>9, <1>10

\* A login that stays due finds what leads home after the write.
LEMMA StaysDue ==
    ASSUME NEW f, SoundWith(f), NEW i \in AccountID, NEW a \in AccountRow, Clashes(i, a) = {},
           accounts' = [accounts EXCEPT ![i] = a], NEW u, NEW id \in MailAddress \union PhoneNumber,
           LeadsTo(accounts, id, u),
           ~ (/\ Found(id) \subseteq {i}
              /\ LoginName[u] # IF Has(a, id) THEN Home(a) ELSE id)
    PROVE  LeadsTo(accounts', id, u)
<1>1. /\ accounts'[i] = a /\ a # NoAccountRow
      /\ \A j \in AccountID : j # i => accounts'[j] = accounts[j]
  BY LoginTyped, SignInAssumption DEF SoundWith, LoginTypeOK
<1>2. CASE Found(id) \subseteq {i}
  <2>1. \A j \in AccountID : accounts'[j] # NoAccountRow /\ Has(accounts'[j], id) => j = i
    BY <1>1, <1>2 DEF Found
  <2>2. CASE Has(a, id)
    BY <1>1, <1>2, <2>1, <2>2 DEF LeadsTo
  <2>3. CASE ~Has(a, id)
    BY <1>1, <1>2, <2>1, <2>3 DEF LeadsTo
  <2> QED
    BY <2>2, <2>3
<1>3. CASE ~ Found(id) \subseteq {i}
  <2>1. PICK j \in AccountID : j # i /\ accounts[j] # NoAccountRow /\ Has(accounts[j], id)
    BY <1>3 DEF Found
  <2>2. ~Has(a, id)
    BY <2>1, SignInAssumption DEF Clashes, Has, Identifier
  <2> QED
    BY <1>1, <2>1, <2>2 DEF LeadsTo
<1> QED
  BY <1>2, <1>3

\* A step that writes a row: m and edit' say where the requests are then.
LEMMA WriteStep ==
    ASSUME NEW f, SoundWith(f), NEW i \in AccountID, NEW a \in AccountRow, Clashes(i, a) = {},
           accounts[i] # NoAccountRow => MaySave(accounts, f, i, a),
           NEW m \in [LoginRequest -> LoginState], Write(i, a, m),
           NEW g, g = IF accounts[i] = NoAccountRow THEN [f EXCEPT ![i] = a.sub] ELSE f,
           UNCHANGED <<zitadel, loginFaults>>, edit' \in [Edit -> EditState],
           \A p \in LoginRequest :
             m[p] = login[p] \/ /\ m[p].pc \notin {"email", "phone"}
                                /\ LoginSound(accounts', zitadel, g, m[p]),
           \A e \in Edit : edit'[e] = edit[e] \/ EditSound(accounts', g, edit'[e])
    PROVE  SoundWith(g)'
<1>1. accounts' = [accounts EXCEPT ![i] = a]
  BY DEF Write
<1>2. /\ accounts' \in [AccountID -> MaybeRow]
      /\ RowsApart(accounts') /\ Founded(accounts', g)
      /\ \A j \in AccountID : \A b : MaySave(accounts, f, j, b) => MaySave(accounts', g, j, b)
      /\ \A j \in AccountID : \A s : accounts[j] # NoAccountRow /\ Fits(accounts, f, j, s) =>
            accounts'[j] # NoAccountRow /\ Fits(accounts', g, j, s)
  BY <1>1, RowWritten, ZenonT(60)
<1>3. ASSUME NEW e \in Edit
      PROVE  EditSound(accounts', g, edit'[e])
  <2>1. EditSound(accounts, f, edit[e]) => EditSound(accounts', g, edit[e])
    BY <1>2 DEF EditSound, MaySave
  <2> QED
    BY <2>1 DEF SoundWith
<1>4. ASSUME NEW p \in LoginRequest
      PROVE  login'[p] \in LoginState /\ LoginSound(accounts', zitadel, g, login'[p])
  <2> DEFINE gone == /\ m[p].pc \in {"email", "phone"} /\ Found(m[p].name) \subseteq {i}
                     /\ LoginName[m[p].user] # IF Has(a, m[p].name) THEN Home(a) ELSE m[p].name
  <2>1. login'[p] = IF gone THEN [m[p] EXCEPT !.due = FALSE] ELSE m[p]
    BY DEF Write
  <2>2. m[p] \in LoginState
    OBVIOUS
  <2>3. CASE m[p] # login[p]
    BY <2>1, <2>2, <2>3
  <2>4. CASE m[p] = login[p]
    <3>1. LoginSound(accounts, zitadel, f, m[p])
      BY <2>4 DEF SoundWith
    <3>2. CASE gone
      <4>1. PICK l : l = [m[p] EXCEPT !.due = FALSE]
        OBVIOUS
      <4>2. l \in LoginState /\ ~l.due /\ l.pc = m[p].pc /\ l.user = m[p].user
            /\ l.name = m[p].name /\ l.direct = m[p].direct /\ l.at = m[p].at
            /\ l.copy = m[p].copy /\ l.pc \in {"email", "phone"}
        BY <2>2, <3>2, <4>1 DEF LoginState
      <4>3. LoginSound(accounts', zitadel, g, l)
        BY <3>1, <4>2 DEF LoginSound
      <4> QED
        BY <2>1, <3>2, <4>1, <4>2, <4>3
    <3>3. CASE ~gone
      <4>1. m[p].due => OnTheWayIn(accounts', zitadel, m[p])
        <5> SUFFICES ASSUME m[p].due
                     PROVE  OnTheWayIn(accounts', zitadel, m[p])
          OBVIOUS
        <5>1. OnTheWayIn(accounts, zitadel, m[p])
          BY <3>1 DEF LoginSound
        <5>2. CASE m[p].pc \in {"email", "phone"}
          <6>1. m[p].name \in MailAddress \union PhoneNumber
            BY <3>1, <5>2 DEF LoginSound
          <6>2. LeadsTo(accounts, m[p].name, m[p].user)
            BY <5>1, <5>2 DEF OnTheWayIn
          <6>3. LeadsTo(accounts', m[p].name, m[p].user)
            BY <1>1, <3>3, <5>2, <6>1, <6>2, StaysDue
          <6> QED
            BY <5>1, <6>3 DEF OnTheWayIn
        <5>3. CASE m[p].pc \notin {"email", "phone"}
          BY <5>1, <5>3 DEF OnTheWayIn
        <5> QED
          BY <5>2, <5>3
      <4>2. m[p].pc = "save" =>
                MaySave(accounts', g, m[p].at, m[p].copy) /\ m[p].copy.sub = m[p].user
        BY <1>2, <3>1 DEF LoginSound, MaySave
      <4>3. LoginSound(accounts', zitadel, g, m[p])
        BY <1>2, <3>1, <4>1, <4>2 DEF LoginSound
      <4> QED
        BY <2>1, <2>2, <3>3, <4>3
    <3> QED
      BY <3>2, <3>3
  <2> QED
    BY <2>3, <2>4
<1>5. LoginTypeOK'
  <2>1. login' = [p \in LoginRequest |-> login'[p]]
    BY DEF Write
  <2>2. login' \in [LoginRequest -> LoginState]
    BY <1>4, <2>1
  <2>3. /\ login' \in [LoginRequest -> LoginState] /\ edit' \in [Edit -> EditState]
        /\ accounts' \in [AccountID -> MaybeRow] /\ zitadel' \subseteq User
        /\ loginFaults' \in 0 .. MaxLoginFaults
    BY <1>2, <2>2 DEF SoundWith, LoginTypeOK
  <2> QED
    BY <2>3 DEF LoginTypeOK, LoginState, EditState
<1> QED
  BY <1>2, <1>3, <1>4, <1>5 DEF SoundWith

\* A step of one edit that leaves the rows and the logins alone.
LEMMA EditMoves ==
    ASSUME NEW f, SoundWith(f), NEW e \in Edit, NEW d \in EditState, EditSound(accounts, f, d),
           edit' = [edit EXCEPT ![e] = d], UNCHANGED <<accounts, login>>,
           zitadel \subseteq zitadel', zitadel' \subseteq User,
           loginFaults' \in 0 .. MaxLoginFaults
    PROVE  SoundWith(f)'
<1>1. edit' \in [Edit -> EditState]
      /\ \A c \in Edit : edit'[c] = IF c = e THEN d ELSE edit[c]
  BY LoginTyped DEF SoundWith
<1>2. LoginTypeOK'
  BY <1>1, LoginTyped DEF SoundWith, LoginTypeOK, EditState
<1>3. \A l : LoginSound(accounts, zitadel, f, l) => LoginSound(accounts, zitadel', f, l)
  BY DEF LoginSound, OnTheWayIn
<1> QED
  BY <1>1, <1>2, <1>3 DEF SoundWith

LEMMA EditFreed ==
    ASSUME NEW f, SoundWith(f), NEW e \in Edit, edit' = [edit EXCEPT ![e] = FreeEdit],
           UNCHANGED <<accounts, zitadel, login>>, loginFaults' \in 0 .. MaxLoginFaults
    PROVE  SoundWith(f)'
<1>1. FreeEdit \in EditState /\ EditSound(accounts, f, FreeEdit)
  BY DEF FreeEdit, EditState, EditSound, MaybeRow
<1>2. zitadel' \subseteq User
  BY LoginTyped DEF SoundWith
<1> QED
  BY <1>1, <1>2, EditMoves

LEMMA RegisterStep ==
    ASSUME NEW f, SoundWith(f), NEW e \in Edit, NEW u \in User,
           NEW m \in MailAddress \union {NoName}, NEW p \in PhoneNumber \union {NoName},
           Register(e, u, m, p)
    PROVE  SoundWith(f)'
<1> DEFINE a == [sub |-> u, username |-> LoginName[u], email |-> m, lurus |-> FALSE,
                 phone |-> IF p = NoName /\ LoginName[u] \in PhoneNumber THEN LoginName[u] ELSE p]
           d == [pc |-> "insert", at |-> 0, copy |-> a]
<1>1. a \in AccountRow
  BY DEF AccountRow, Identifier, Named
<1>2. edit' = [edit EXCEPT ![e] = d] /\ UNCHANGED <<accounts, login, loginFaults>>
      /\ zitadel' = zitadel \union {u}
  BY DEF Register
<1> HIDE DEF a
<1>3. d \in EditState /\ EditSound(accounts, f, d)
  BY <1>1 DEF EditState, EditSound, MaybeRow
<1> HIDE DEF d
<1>4. zitadel \subseteq User /\ loginFaults \in 0 .. MaxLoginFaults
  BY LoginTyped DEF SoundWith
<1> QED
  BY <1>2, <1>3, <1>4, EditMoves

LEMMA InsertRegisteredStep ==
    ASSUME NEW f, SoundWith(f), NEW e \in Edit, NEW i \in AccountID, InsertRegistered(e, i)
    PROVE  \E g : SoundWith(g)'
<1> DEFINE a == edit[e].copy
           b == [a EXCEPT !.lurus = TRUE]
           d == [pc |-> "save", at |-> i, copy |-> b]
<1>1. edit[e] \in EditState /\ edit[e].pc = "insert" /\ a \in AccountRow
      /\ accounts[i] = NoAccountRow /\ UNCHANGED <<zitadel, loginFaults>>
      /\ loginFaults \in 0 .. MaxLoginFaults
  BY LoginTyped DEF InsertRegistered, SoundWith, EditSound, FirstFree
<1>2. b \in AccountRow /\ b.sub = a.sub /\ b.email = a.email
  BY <1>1 DEF AccountRow
<1> HIDE DEF b
<1>3. CASE /\ Clashes(i, a) = {} /\ Write(i, a, login)
           /\ edit' = [edit EXCEPT ![e] = d]
  <2>1. edit \in [Edit -> EditState] /\ login \in [LoginRequest -> LoginState]
    BY LoginTyped DEF SoundWith
  <2>2. d \in EditState /\ d.pc = "save" /\ d.at = i /\ d.copy = b
    BY <1>2 DEF EditState, MaybeRow
  <2> HIDE DEF d
  <2>3. edit' \in [Edit -> EditState]
        /\ \A c \in Edit : edit'[c] = IF c = e THEN d ELSE edit[c]
    BY <1>3, <2>1, <2>2
  <2> HIDE DEF a
  <2>4. PICK g : g = IF accounts[i] = NoAccountRow THEN [f EXCEPT ![i] = a.sub] ELSE f
    OBVIOUS
  <2>5. MaySave(accounts', g, i, a)
    <3>1. accounts' = [accounts EXCEPT ![i] = a]
      BY <1>3 DEF Write
    <3> QED
      BY <1>1, <1>3, <2>4, <3>1, RowWritten
  <2>6. EditSound(accounts', g, d)
    BY <1>2, <2>2, <2>5 DEF EditSound, MaySave
  <2>7. SoundWith(g)'
    BY <1>1, <1>3, <2>1, <2>3, <2>4, <2>6, WriteStep
  <2> QED
    BY <2>7
<1>4. CASE edit' = [edit EXCEPT ![e] = FreeEdit] /\ UNCHANGED <<accounts, login>>
  BY <1>1, <1>4, EditFreed
<1> QED
  BY <1>3, <1>4 DEF InsertRegistered, b

\* A request reads row i and keeps a copy in which the username or the phone is new.
LEMMA ReadRowStep ==
    ASSUME NEW f, SoundWith(f), NEW e \in Edit, NEW i \in AccountID, NEW a \in AccountRow,
           ReadRow(e, i, a), a.sub = accounts[i].sub, a.email = accounts[i].email
    PROVE  SoundWith(f)'
<1> DEFINE d == [pc |-> "save", at |-> i, copy |-> a]
<1>1. edit' = [edit EXCEPT ![e] = d] /\ UNCHANGED <<accounts, zitadel, login, loginFaults>>
  BY DEF ReadRow
<1>2. d \in EditState
  BY DEF EditState, MaybeRow
<1>3. EditSound(accounts, f, d)
  BY DEF EditSound, MaySave, SoundWith, Founded, ReadRow
<1> HIDE DEF d
<1>4. zitadel' \subseteq User /\ loginFaults' \in 0 .. MaxLoginFaults
  BY <1>1, LoginTyped DEF SoundWith
<1> QED
  BY <1>1, <1>2, <1>3, <1>4, EditMoves

LEMMA UpdateMeStep ==
    ASSUME NEW f, SoundWith(f), NEW e \in Edit, NEW i \in AccountID,
           NEW n \in NewName \union {NoName}, UpdateMe(e, i, n)
    PROVE  SoundWith(f)'
<1>1. accounts[i] \in AccountRow
  BY RowsTyped DEF UpdateMe, ReadRow, SoundWith
<1> DEFINE a == [accounts[i] EXCEPT !.username = n]
<1>2. a \in AccountRow /\ a.sub = accounts[i].sub /\ a.email = accounts[i].email
  BY <1>1 DEF AccountRow, Identifier
<1> HIDE DEF a
<1>3. ReadRow(e, i, accounts[i]) \/ ReadRow(e, i, a)
  BY DEF UpdateMe, a
<1> QED
  BY <1>1, <1>2, <1>3, ReadRowStep

LEMMA BindPhoneStep ==
    ASSUME NEW f, SoundWith(f), NEW e \in Edit, NEW i \in AccountID, NEW p \in PhoneNumber,
           BindPhoneOf(e, i, p)
    PROVE  SoundWith(f)'
<1>1. accounts[i] \in AccountRow
  BY RowsTyped DEF BindPhoneOf, ReadRow, SoundWith
<1> DEFINE a == [accounts[i] EXCEPT !.phone = p]
<1>2. a \in AccountRow /\ a.sub = accounts[i].sub /\ a.email = accounts[i].email
  BY <1>1 DEF AccountRow
<1> HIDE DEF a
<1>3. ReadRow(e, i, a)
  BY DEF BindPhoneOf, a
<1> QED
  BY <1>2, <1>3, ReadRowStep

LEMMA SaveEditStep ==
    ASSUME NEW f, SoundWith(f), NEW e \in Edit, SaveEdit(e)
    PROVE  SoundWith(f)'
<1> DEFINE i == edit[e].at
           a == edit[e].copy
<1>1. MaySave(accounts, f, i, a) /\ UNCHANGED <<zitadel, loginFaults>>
      /\ loginFaults \in 0 .. MaxLoginFaults /\ edit' = [edit EXCEPT ![e] = FreeEdit]
  BY LoginTyped DEF SaveEdit, SoundWith, EditSound
<1> HIDE DEF i, a
<1>2. CASE Clashes(i, a) = {}
  <2>1. edit \in [Edit -> EditState] /\ login \in [LoginRequest -> LoginState]
    BY LoginTyped DEF SoundWith
  <2>2. FreeEdit \in EditState /\ EditSound(accounts', f, FreeEdit)
    BY DEF FreeEdit, EditState, EditSound, MaybeRow
  <2>3. edit' \in [Edit -> EditState]
        /\ \A c \in Edit : edit'[c] = IF c = e THEN FreeEdit ELSE edit[c]
    BY <1>1, <2>1, <2>2
  <2>4. i \in AccountID /\ a \in AccountRow /\ accounts[i] # NoAccountRow
    BY <1>1 DEF MaySave
  <2>5. Write(i, a, login)
    BY <1>2 DEF SaveEdit, i, a
  <2> QED
    BY <1>1, <1>2, <2>1, <2>2, <2>3, <2>4, <2>5, WriteStep
<1>3. CASE Clashes(i, a) # {}
  <2>1. UNCHANGED <<accounts, login>>
    BY <1>3 DEF SaveEdit, i, a
  <2> QED
    BY <1>1, <2>1, EditFreed
<1> QED
  BY <1>2, <1>3

LEMMA EditFailsStep ==
    ASSUME NEW f, SoundWith(f), NEW e \in Edit, EditFails(e)
    PROVE  SoundWith(f)'
<1>1. loginFaults' \in 0 .. MaxLoginFaults
  BY LoginTyped, SignInAssumption DEF EditFails, SoundWith
<1> QED
  BY <1>1, EditFreed DEF EditFails

LEMMA DirectLoginStep ==
    ASSUME NEW f, SoundWith(f), NEW q \in LoginRequest, NEW u \in User, NEW id \in Identifier,
           DirectLogin(q, u, id)
    PROVE  SoundWith(f)'
<1> DEFINE pc == IF id \in MailAddress THEN "email"
                 ELSE IF id \in PhoneNumber THEN "phone" ELSE "session"
           name == IF id \in MailAddress \union PhoneNumber THEN id ELSE Asked(u, id)
           due == Due(u, id)
           l == [FreeLogin EXCEPT !.pc = pc, !.user = u, !.direct = TRUE, !.due = due,
                                  !.name = name]
<1>1. due \in BOOLEAN /\ loginFaults \in 0 .. MaxLoginFaults
  BY LoginTyped DEF Due, SoundWith
<1>2. name \in Identifier \union {NoName}
  BY DEF Asked
<1>3. /\ pc \in {"email", "phone", "session"}
      /\ pc = "email" => id \in MailAddress
      /\ pc = "phone" => id \in PhoneNumber
      /\ pc \in {"email", "phone"} => name = id
      /\ pc = "session" => id \notin MailAddress \union PhoneNumber /\ name = Asked(u, id)
  OBVIOUS
<1>4. login' = [login EXCEPT ![q] = l] /\ UNCHANGED othersVars
  BY DEF DirectLogin
<1>5. due => u \in zitadel /\ LeadsTo(accounts, id, u)
  <2> SUFFICES ASSUME Due(u, id)
               PROVE  u \in zitadel /\ LeadsTo(accounts, id, u)
    OBVIOUS
  <2>1. CASE Found(id) = {} /\ id = LoginName[u]
    BY <2>1 DEF Due, LeadsTo, Found
  <2>2. CASE \E i \in Found(id) : Home(accounts[i]) = LoginName[u]
    BY <2>2, OneRow DEF Due, LeadsTo, Found, SoundWith
  <2> QED
    BY <2>1, <2>2 DEF Due
<1>6. due /\ pc = "session" => name = LoginName[u]
  <2>1. pc = "session" => \A i \in AccountID : ~Has(accounts[i], id)
    BY <1>3 DEF Has
  <2> QED
    BY <1>3, <1>5, <2>1 DEF LeadsTo, Asked
<1> HIDE DEF pc, name, due
<1>7. l \in LoginState /\ l.pc = pc /\ l.user = u /\ l.name = name /\ l.due = due
  BY <1>1, <1>2, <1>3 DEF LoginState, MaybeRow, FreeLogin
<1> HIDE DEF l
<1>8. LoginSound(accounts, zitadel, f, l)
  BY <1>3, <1>5, <1>6, <1>7 DEF LoginSound, OnTheWayIn
<1> QED
  BY <1>1, <1>4, <1>7, <1>8, LoginMoves DEF othersVars

LEMMA SubmitPasswordStep ==
    ASSUME NEW f, SoundWith(f), NEW q \in LoginRequest, NEW u \in User, NEW id \in Identifier,
           SubmitPassword(q, u, id)
    PROVE  SoundWith(f)'
<1> DEFINE due == u \in zitadel /\ id = LoginName[u]
           name == Asked(u, id)
           l == [FreeLogin EXCEPT !.pc = "session", !.user = u, !.name = name, !.due = due]
<1>1. loginFaults \in 0 .. MaxLoginFaults /\ due \in BOOLEAN
      /\ name \in Identifier \union {NoName} /\ (due => u \in zitadel /\ name = LoginName[u])
  BY LoginTyped DEF SoundWith, Asked
<1>2. login' = [login EXCEPT ![q] = l] /\ UNCHANGED othersVars
  BY DEF SubmitPassword
<1> HIDE DEF due, name
<1>3. l \in LoginState /\ l.pc = "session" /\ l.user = u /\ l.name = name /\ l.due = due
  BY <1>1 DEF LoginState, MaybeRow, FreeLogin
<1> HIDE DEF l
<1>4. LoginSound(accounts, zitadel, f, l)
  BY <1>1, <1>3 DEF LoginSound, OnTheWayIn
<1> QED
  BY <1>1, <1>2, <1>3, <1>4, LoginMoves DEF othersVars

LEMMA LinkWechatStep ==
    ASSUME NEW f, SoundWith(f), NEW q \in LoginRequest, NEW i \in AccountID,
           LinkWechatAndComplete(q, i)
    PROVE  SoundWith(f)'
<1> DEFINE l == [FreeLogin EXCEPT !.pc = "account", !.at = i]
<1>1. l \in LoginState /\ LoginSound(accounts, zitadel, f, l)
  BY DEF LoginState, MaybeRow, LoginSound, FreeLogin
<1>2. login' = [login EXCEPT ![q] = l] /\ UNCHANGED othersVars
      /\ loginFaults \in 0 .. MaxLoginFaults
  BY LoginTyped DEF LinkWechatAndComplete, SoundWith
<1> HIDE DEF l
<1> QED
  BY <1>1, <1>2, LoginMoves DEF othersVars

LEMMA ResolveEmailStep ==
    ASSUME NEW f, SoundWith(f), NEW q \in LoginRequest, ResolveEmail(q)
    PROVE  SoundWith(f)'
<1>1. login[q].due => LeadsTo(accounts, login[q].name, login[q].user)
  BY DEF ResolveEmail, SoundWith, LoginSound, OnTheWayIn
<1>2. CASE Found(login[q].name) = {} /\ Resolved(q, login[q].name)
  <2>1. login[q].due => login[q].name = LoginName[login[q].user]
    BY <1>1, <1>2 DEF LeadsTo, Found
  <2> QED
    BY <1>2, <2>1, LoginResolved DEF ResolveEmail
<1>3. ASSUME NEW i \in Found(login[q].name), Resolved(q, Home(accounts[i]))
      PROVE  SoundWith(f)'
  <2>1. login[q].due => Home(accounts[i]) = LoginName[login[q].user]
    BY <1>1, <1>3 DEF LeadsTo, Found
  <2> QED
    BY <1>3, <2>1, LoginResolved DEF ResolveEmail
<1> QED
  BY <1>2, <1>3 DEF ResolveEmail

LEMMA ResolvePhoneStep ==
    ASSUME NEW f, SoundWith(f), NEW q \in LoginRequest, ResolvePhone(q)
    PROVE  SoundWith(f)'
<1>1. login[q].due => LeadsTo(accounts, login[q].name, login[q].user)
  BY DEF ResolvePhone, SoundWith, LoginSound, OnTheWayIn
<1>2. CASE Found(login[q].name) = {} /\ Resolved(q, login[q].name)
  <2>1. login[q].due => login[q].name = LoginName[login[q].user]
    BY <1>1, <1>2 DEF LeadsTo, Found
  <2> QED
    BY <1>2, <2>1, LoginResolved DEF ResolvePhone
<1>3. ASSUME NEW i \in Found(login[q].name), Resolved(q, accounts[i].username)
      PROVE  SoundWith(f)'
  <2>1. login[q].name \in PhoneNumber
    BY DEF ResolvePhone, SoundWith, LoginSound
  <2>2. Home(accounts[i]) = accounts[i].username
    BY <1>3, <2>1, SignInAssumption DEF Home, Found, Has
  <2>3. login[q].due => accounts[i].username = LoginName[login[q].user]
    BY <1>1, <1>3, <2>2 DEF LeadsTo, Found
  <2> QED
    BY <1>3, <2>3, LoginResolved DEF ResolvePhone
<1> QED
  BY <1>2, <1>3 DEF ResolvePhone

LEMMA CheckPasswordStep ==
    ASSUME NEW f, SoundWith(f), NEW q \in LoginRequest, CheckPassword(q)
    PROVE  SoundWith(f)'
<1>1. LoginSound(accounts, zitadel, f, login[q]) /\ login[q] \in LoginState
      /\ login[q].pc = "session" /\ login[q].user \in User
      /\ loginFaults \in 0 .. MaxLoginFaults /\ UNCHANGED othersVars
  BY LoginTyped DEF SoundWith, LoginSound, CheckPassword
<1>2. CASE login[q].user \notin zitadel \/ login[q].name # LoginName[login[q].user]
  <2>1. ~login[q].due
    BY <1>1, <1>2 DEF LoginSound, OnTheWayIn
  <2>2. login[q].due = FALSE
    BY <1>1, <2>1 DEF LoginState
  <2> QED
    BY <1>1, <1>2, <2>2, LoginEnds DEF CheckPassword, othersVars
<1>3. CASE ~(login[q].user \notin zitadel \/ login[q].name # LoginName[login[q].user])
  BY <1>1, <1>3, LoginGoesOn DEF CheckPassword
<1> QED
  BY <1>2, <1>3

\* The login keeps a copy of row i to save: that of its user, or that with its mail.
LEMMA WillSaveStep ==
    ASSUME NEW f, SoundWith(f), NEW q \in LoginRequest, NEW i \in AccountID, NEW a \in AccountRow,
           login[q].pc \in {"upsert", "link"}, accounts[i] # NoAccountRow,
           a.sub = login[q].user, a.email = accounts[i].email,
           accounts[i].sub = a.sub \/ a.email = LoginName[a.sub],
           WillSave(q, i, a), UNCHANGED othersVars
    PROVE  SoundWith(f)'
<1> DEFINE l == [login[q] EXCEPT !.pc = "save", !.at = i, !.copy = a]
<1>1. login[q] \in LoginState /\ login[q].user \in User /\ loginFaults \in 0 .. MaxLoginFaults
      /\ login \in [LoginRequest -> LoginState]
  BY LoginTyped DEF SoundWith, LoginSound
<1>2. l \in LoginState /\ l.pc = "save" /\ l.user = login[q].user /\ l.at = i /\ l.copy = a
  BY <1>1 DEF LoginState, MaybeRow
<1>3. login' = [login EXCEPT ![q] = l]
  BY <1>1 DEF WillSave, LoginState
<1> HIDE DEF l
<1>4. MaySave(accounts, f, i, a)
  BY DEF MaySave, Fits, SoundWith, Founded
<1>5. LoginSound(accounts, zitadel, f, l)
  BY <1>1, <1>2, <1>4 DEF LoginSound, OnTheWayIn
<1> QED
  BY <1>1, <1>2, <1>3, <1>5, LoginMoves DEF othersVars

LEMMA FindStep ==
    ASSUME NEW f, SoundWith(f), NEW q \in LoginRequest, FindBySub(q) \/ FindByMail(q)
    PROVE  SoundWith(f)'
<1> DEFINE u == login[q].user
<1>1. u \in User /\ UNCHANGED othersVars /\ login[q].pc \in {"upsert", "link"}
  BY DEF FindBySub, FindByMail, SoundWith, LoginSound
<1>2. CASE LoginAt(q, "link") \/ LoginAt(q, "create")
  BY <1>1, <1>2, LoginGoesOn
<1>3. ASSUME NEW i \in Accounted("sub", u), WillSave(q, i, accounts[i])
      PROVE  SoundWith(f)'
  BY <1>1, <1>3, RowsTyped, WillSaveStep DEF Accounted, SoundWith
<1>4. ASSUME NEW i \in Accounted("email", LoginName[u]),
             WillSave(q, i, [accounts[i] EXCEPT !.sub = u])
      PROVE  SoundWith(f)'
  <2> DEFINE a == [accounts[i] EXCEPT !.sub = u]
  <2>1. i \in AccountID /\ accounts[i] # NoAccountRow /\ accounts[i] \in AccountRow
        /\ accounts[i].email = LoginName[u]
    BY <1>4, RowsTyped DEF Accounted, SoundWith
  <2>2. a \in AccountRow /\ a.sub = u /\ a.email = accounts[i].email
    BY <1>1, <2>1 DEF AccountRow
  <2> HIDE DEF a
  <2>3. WillSave(q, i, a)
    BY <1>4 DEF a
  <2> QED
    BY <1>1, <2>1, <2>2, <2>3, WillSaveStep
<1> QED
  BY <1>2, <1>3, <1>4 DEF FindBySub, FindByMail

LEMMA CreateAccountStep ==
    ASSUME NEW f, SoundWith(f), NEW q \in LoginRequest, NEW i \in AccountID, CreateAccount(q, i)
    PROVE  \E g : SoundWith(g)'
<1> DEFINE u == login[q].user
           a == [sub |-> u, username |-> NoName, email |-> LoginName[u], phone |-> NoName,
                 lurus |-> FALSE]
           b == [a EXCEPT !.lurus = TRUE]
           l == [login[q] EXCEPT !.pc = "save", !.at = i, !.copy = b]
           m == [login EXCEPT ![q].pc = "save", ![q].at = i, ![q].copy = b]
<1>1. login[q] \in LoginState /\ u \in User /\ UNCHANGED <<zitadel, edit, loginFaults>>
      /\ accounts[i] = NoAccountRow /\ loginFaults \in 0 .. MaxLoginFaults
      /\ login \in [LoginRequest -> LoginState] /\ edit \in [Edit -> EditState]
  BY LoginTyped DEF SoundWith, LoginSound, CreateAccount, FirstFree
<1>2. CASE Clashes(i, a) = {} /\ Write(i, a, m)
  <2>1. a \in AccountRow /\ a.sub = u /\ b \in AccountRow /\ b.sub = u /\ b.email = a.email
    BY <1>1 DEF AccountRow, Identifier, Named
  <2> HIDE DEF a, b, u
  <2>2. l \in LoginState /\ l.pc = "save" /\ l.user = u /\ l.at = i /\ l.copy = b
    BY <1>1, <2>1 DEF LoginState, MaybeRow, u
  <2>3. m = [login EXCEPT ![q] = l]
    BY <1>1 DEF LoginState
  <2> HIDE DEF l, m
  <2>4. m \in [LoginRequest -> LoginState]
        /\ \A p \in LoginRequest : m[p] = IF p = q THEN l ELSE login[p]
    BY <1>1, <2>2, <2>3
  <2>5. PICK g : g = IF accounts[i] = NoAccountRow THEN [f EXCEPT ![i] = a.sub] ELSE f
    OBVIOUS
  <2>6. MaySave(accounts', g, i, a)
    <3>1. accounts' = [accounts EXCEPT ![i] = a]
      BY <1>2 DEF Write
    <3> QED
      BY <1>1, <1>2, <2>1, <2>5, <3>1, RowWritten
  <2>7. LoginSound(accounts', zitadel, g, l)
    BY <1>1, <2>1, <2>2, <2>6 DEF LoginSound, OnTheWayIn, MaySave
  <2>8. \A p \in LoginRequest :
            m[p] = login[p] \/ /\ m[p].pc \notin {"email", "phone"}
                               /\ LoginSound(accounts', zitadel, g, m[p])
    BY <2>2, <2>4, <2>7
  <2>9. edit' \in [Edit -> EditState] /\ edit' = edit /\ m \in [LoginRequest -> LoginState]
    BY <1>1, <2>4
  <2>10. SoundWith(g)'
    BY <1>1, <1>2, <2>1, <2>5, <2>8, <2>9, WriteStep
  <2> QED
    BY <2>10
<1>3. CASE LoginRefused(q, FALSE) /\ UNCHANGED accounts
  BY <1>1, <1>3, LoginEnds
<1> QED
  BY <1>2, <1>3 DEF CreateAccount

LEMMA SaveAndIssueStep ==
    ASSUME NEW f, SoundWith(f), NEW q \in LoginRequest, SaveAndIssue(q)
    PROVE  SoundWith(f)'
<1> DEFINE i == login[q].at
           a == login[q].copy
           u == login[q].user
           l == [FreeLogin EXCEPT !.pc = "in", !.user = u, !.direct = TRUE, !.at = i]
           m == [login EXCEPT ![q] = l]
<1>1. /\ MaySave(accounts, f, i, a) /\ a.sub = u /\ u \in User
      /\ UNCHANGED <<zitadel, edit, loginFaults>> /\ loginFaults \in 0 .. MaxLoginFaults
      /\ login \in [LoginRequest -> LoginState] /\ edit \in [Edit -> EditState]
  BY LoginTyped DEF SoundWith, LoginSound, SaveAndIssue
<1>2. i \in AccountID /\ a \in AccountRow /\ accounts[i] # NoAccountRow
      /\ a.email = accounts[i].email /\ accounts[i] \in AccountRow
  BY <1>1, RowsTyped DEF MaySave, SoundWith
<1>3. CASE Clashes(i, a) = {} /\ Write(i, a, m)
  <2> HIDE DEF i, a, u
  <2>1. l \in LoginState /\ l.pc = "in" /\ l.user = u /\ l.at = i /\ ~l.due
    BY <1>1, <1>2 DEF LoginState, MaybeRow, FreeLogin
  <2> HIDE DEF l
  <2>2. m \in [LoginRequest -> LoginState]
        /\ \A p \in LoginRequest : m[p] = IF p = q THEN l ELSE login[p]
    BY <1>1, <2>1
  <2> HIDE DEF m
  <2>3. MaySave(accounts', f, i, a)
    <3>1. accounts' = [accounts EXCEPT ![i] = a]
      BY <1>3 DEF Write
    <3> QED
      BY <1>1, <1>2, <1>3, <3>1, RowWritten
  <2>4. LoginSound(accounts', zitadel, f, l)
    BY <1>1, <2>1, <2>3 DEF LoginSound, OnTheWayIn, MaySave
  <2> QED
    BY <1>1, <1>2, <1>3, <2>1, <2>2, <2>4, WriteStep
<1>4. CASE Clashes(i, a) # {} /\ LoginRefused(q, login[q].due /\ ~Overtaken(q)) /\ UNCHANGED accounts
  <2>1. Overtaken(q)
    <3> SUFFICES ASSUME ~Overtaken(q)
                 PROVE  FALSE
      OBVIOUS
    <3>1. /\ [accounts[i] EXCEPT !.sub = a.sub, !.lurus = a.lurus] = a
          /\ ~(accounts[i].lurus /\ ~a.lurus) /\ Accounted("sub", a.sub) \ {i} = {}
      BY DEF Overtaken
    <3>2. accounts[i].username = a.username /\ accounts[i].phone = a.phone
      BY <1>2, <3>1 DEF AccountRow
    <3>3. PICK j \in AccountID : j # i /\ j \in Clashes(i, a)
      BY <1>4 DEF Clashes
    <3> HIDE DEF i, a
    <3>4. accounts[j] # NoAccountRow /\ accounts[j].sub # a.sub
      BY <3>1, <3>3 DEF Accounted, Clashes
    <3> QED
      BY <1>2, <3>1, <3>2, <3>3, <3>4 DEF Clashes, SoundWith, RowsApart
  <2>2. LoginRefused(q, FALSE)
    BY <1>4, <2>1
  <2> QED
    BY <1>1, <1>4, <2>2, LoginEnds
<1> QED
  BY <1>3, <1>4 DEF SaveAndIssue

LEMMA LoginInitially == LoginInit => LoginIInv
<1> SUFFICES ASSUME LoginInit
             PROVE  LoginIInv
  OBVIOUS
<1>1. FreeLogin \in LoginState /\ FreeEdit \in EditState
      /\ FreeLogin.pc = "free" /\ ~FreeLogin.due /\ FreeEdit.pc = "free"
  BY DEF FreeLogin, FreeEdit, LoginState, EditState, MaybeRow
<1>2. LoginTypeOK
  BY <1>1, LoginTyped, SignInAssumption DEF LoginInit, MaybeRow
<1>3. RowsApart(accounts)
  BY DEF RowsApart, LoginInit
<1>4. Founded(accounts, [i \in AccountID |-> NoUser])
  BY DEF LoginInit, Founded
<1> QED
  BY <1>1, <1>2, <1>3, <1>4 DEF LoginInit, LoginIInv, SoundWith, EditSound, LoginSound

LEMMA LoginStep == LoginIInv /\ [LoginNext]_loginVars => LoginIInv'
<1> SUFFICES ASSUME NEW f, SoundWith(f), [LoginNext]_loginVars
             PROVE  \E g : SoundWith(g)'
  BY DEF LoginIInv
<1>1. CASE \E e \in Edit : \/ \E i \in AccountID : InsertRegistered(e, i)
                           \/ SaveEdit(e) \/ EditFails(e)
  BY <1>1, InsertRegisteredStep, SaveEditStep, EditFailsStep
<1>2. CASE \E e \in Edit, u \in User, m \in MailAddress \union {NoName},
              p \in PhoneNumber \union {NoName} : Register(e, u, m, p)
  BY <1>2, RegisterStep
<1>3. CASE \E e \in Edit, i \in AccountID : \/ \E n \in NewName \union {NoName} : UpdateMe(e, i, n)
                                           \/ \E p \in PhoneNumber : BindPhoneOf(e, i, p)
  BY <1>3, UpdateMeStep, BindPhoneStep
<1>4. CASE \E q \in LoginRequest, u \in User, id \in Identifier :
              DirectLogin(q, u, id) \/ SubmitPassword(q, u, id)
  BY <1>4, DirectLoginStep, SubmitPasswordStep
<1>5. CASE \E q \in LoginRequest, i \in AccountID :
              LinkWechatAndComplete(q, i) \/ CreateAccount(q, i)
  BY <1>5, LinkWechatStep, CreateAccountStep
<1>6. CASE \E q \in LoginRequest :
              \/ ResolveEmail(q) \/ ResolvePhone(q) \/ CheckPassword(q)
              \/ FindBySub(q) \/ FindByMail(q) \/ SaveAndIssue(q)
  BY <1>6, ResolveEmailStep, ResolvePhoneStep, CheckPasswordStep, FindStep, SaveAndIssueStep
<1>7. ASSUME NEW q \in LoginRequest, ReadLinkedAccount(q)
      PROVE  SoundWith(f)'
  <2>1. loginFaults \in 0 .. MaxLoginFaults
    BY LoginTyped DEF SoundWith
  <2>2. CASE LoginAt(q, "callback") /\ UNCHANGED othersVars
    BY <2>2, LoginGoesOn
  <2>3. CASE LoginRefused(q, FALSE) /\ UNCHANGED othersVars
    BY <2>1, <2>3, LoginEnds DEF othersVars
  <2> QED
    BY <1>7, <2>2, <2>3 DEF ReadLinkedAccount
<1>8. ASSUME NEW q \in LoginRequest, CreateCallback(q) \/ LoginFails(q) \/ LoginAnswered(q)
      PROVE  SoundWith(f)'
  <2>1. loginFaults' \in 0 .. MaxLoginFaults
    <3>1. loginFaults \in 0 .. MaxLoginFaults /\ MaxLoginFaults \in Nat
      BY LoginTyped, SignInAssumption DEF SoundWith
    <3>2. \/ loginFaults' = loginFaults
          \/ loginFaults < MaxLoginFaults /\ loginFaults' = loginFaults + 1
      BY <1>8 DEF CreateCallback, LoginFails, LoginAnswered, othersVars
    <3> QED
      BY <3>1, <3>2
  <2> QED
    BY <1>8, <2>1, LoginEnds DEF CreateCallback, LoginFails, LoginAnswered, othersVars
<1>9. CASE UNCHANGED loginVars
  BY <1>9 DEF loginVars, SoundWith, LoginTypeOK
<1> QED
  BY <1>1, <1>2, <1>3, <1>4, <1>5, <1>6, <1>7, <1>8, <1>9 DEF LoginNext

\* Whoever has the password and types an identifier that leads to its login name
\* is let in if no call fails and no other request spoils it for its own row (or
\* keeps a first one from being inserted), however the saves of whole rows by other
\* requests fall; the account a direct login is let into is its own, or one whose
\* email is the login name of the one or the other.
THEOREM LoginsCorrect == LoginSpec => [](LoginTypeOK /\ LoginsAnswer)
<1>1. LoginIInv => LoginTypeOK /\ LoginsAnswer
  <2> SUFFICES ASSUME NEW f, SoundWith(f)
               PROVE  LoginTypeOK /\ LoginsAnswer
    BY DEF LoginIInv
  <2>1. ASSUME NEW q \in LoginRequest, login[q].pc = "refused"
        PROVE  ~login[q].due
    BY <2>1 DEF SoundWith, LoginSound, OnTheWayIn
  <2>2. ASSUME NEW q \in LoginRequest, login[q].pc = "in", login[q].direct
        PROVE  /\ accounts[login[q].at] # NoAccountRow
               /\ \/ accounts[login[q].at].sub = login[q].user
                  \/ accounts[login[q].at].email \in
                        {LoginName[accounts[login[q].at].sub], LoginName[login[q].user]}
    BY <2>2 DEF SoundWith, LoginSound, Founded, Fits
  <2> QED
    BY <2>1, <2>2 DEF SoundWith, LoginsAnswer
<1> QED
  BY LoginInitially, LoginStep, <1>1, PTL DEF LoginSpec

-----------------------------------------------------------------------------
(* The WeChat bridge *)

\* What happens at an attempt happens after its scan, and a code is that of one
\* attempt: a key in Redis holds who scanned for the attempt whose code it is.
KeysLeadHome ==
    /\ \A k \in BridgeCall : callback[k].pc # "free" =>
        callback[k].at \in Attempt /\ scanned[callback[k].at] # NoUser
    /\ \A s \in spent : scanned[s] # NoUser
    /\ \A s \in Attempt :
        /\ exchange[s].pc # "none" => scanned[s] # NoUser
        /\ exchange[s].pc \in {"get", "drop"} => exchange[s].code \in AuthCode
        /\ exchange[s].code \in AuthCode => codeKey[exchange[s].code] \in {NoUser, scanned[s]}
        /\ exchange[s].openid \in {NoUser, scanned[s]}
    /\ \A s, t \in Attempt : exchange[s].code = exchange[t].code /\ s # t => exchange[s].code = 0

\* Without a failure one callback serves an attempt, its state is there until that
\* one deletes it, its WeChat code until that one uses it, and its own code until
\* the exchange has it: so a scan is never lost.
NothingIsLost ==
    /\ \A k, l \in BridgeCall :
        callback[k].pc # "free" /\ callback[l].pc # "free" /\ callback[k].at = callback[l].at => k = l
    /\ \A s \in opened : scanned[s] = NoUser => s \in stateKey
    /\ \A k \in BridgeCall :
        /\ callback[k].pc = "state" => callback[k].at \in stateKey
        /\ callback[k].pc \in {"state", "drop", "fetch"} => callback[k].at \notin spent
    /\ \A s \in Attempt :
        /\ scanned[s] # NoUser /\ exchange[s].pc = "none" =>
            \E k \in BridgeCall : callback[k].pc # "free" /\ callback[k].at = s
        /\ exchange[s].pc # "failed"
        /\ exchange[s].pc = "get" => codeKey[exchange[s].code] # NoUser

BridgeIInv == BridgeTypeOK /\ KeysLeadHome /\ (bridgeFaults = 0 => NothingIsLost)

LEMMA NoCodeZero == 0 \notin AuthCode
BY SignInAssumption, FS_CardinalityType DEF AuthCode

LEMMA BridgeInitially == BridgeInit => BridgeIInv
BY SignInAssumption, NoCodeZero
DEF BridgeInit, BridgeIInv, BridgeTypeOK, KeysLeadHome, NothingIsLost, FreeCall, NoExchange

\* The steps keep the types and lead nobody astray.
LEMMA KeysStep == BridgeIInv /\ [BridgeNext]_bridgeVars => BridgeTypeOK' /\ KeysLeadHome'
<1> SUFFICES ASSUME BridgeTypeOK, KeysLeadHome, [BridgeNext]_bridgeVars
             PROVE  BridgeTypeOK' /\ KeysLeadHome'
  BY DEF BridgeIInv
<1> USE SignInAssumption, NoCodeZero DEF BridgeTypeOK, KeysLeadHome
<1>1. ASSUME NEW s \in Attempt, Authorize(s)
      PROVE  BridgeTypeOK' /\ KeysLeadHome'
  BY <1>1 DEF Authorize
<1>2. ASSUME NEW s \in Attempt, ReadAuthCode(s)
      PROVE  BridgeTypeOK' /\ KeysLeadHome'
  <2>1. CASE codeKey[exchange[s].code] = NoUser
    BY <1>2, <2>1 DEF ReadAuthCode
  <2>2. CASE codeKey[exchange[s].code] # NoUser
    <3>1. exchange[s].code \in AuthCode /\ codeKey[exchange[s].code] = scanned[s]
          /\ scanned[s] \in User
      BY <1>2, <2>2 DEF ReadAuthCode
    <3>2. PICK x : x = exchange[s]
      OBVIOUS
    <3>3. x = [pc |-> x.pc, code |-> x.code, openid |-> x.openid]
      BY <3>2
    <3>4. [x EXCEPT !.pc = "drop", !.openid = scanned[s]]
          = [pc |-> "drop", code |-> x.code, openid |-> scanned[s]]
      <4>1. [x EXCEPT !.pc = "drop"] = [pc |-> "drop", code |-> x.code, openid |-> x.openid]
        BY <3>3
      <4>2. [[pc |-> "drop", code |-> x.code, openid |-> x.openid] EXCEPT !.openid = scanned[s]]
            = [pc |-> "drop", code |-> x.code, openid |-> scanned[s]]
        OBVIOUS
      <4> QED
        BY <4>1, <4>2, Zenon
    <3>5. exchange' = [exchange EXCEPT ![s] = [x EXCEPT !.pc = "drop", !.openid = scanned[s]]]
      BY <1>2, <2>2, <3>1, <3>2 DEF ReadAuthCode
    <3>6. exchange' = [exchange EXCEPT ![s] =
                        [pc |-> "drop", code |-> exchange[s].code, openid |-> scanned[s]]]
      BY <3>2, <3>4, <3>5
    <3>7. UNCHANGED <<opened, stateKey, scanned, spent, callback, codeKey, bridgeFaults>>
      BY <1>2 DEF ReadAuthCode
    <3>8. exchange[s].pc = "get"
      BY <1>2 DEF ReadAuthCode
    <3> QED
      BY <3>1, <3>6, <3>7, <3>8
  <2> QED
    BY <2>1, <2>2
<1>3. ASSUME NEW s \in Attempt, DropAuthCode(s)
      PROVE  BridgeTypeOK' /\ KeysLeadHome'
  BY SMTT(30), <1>3 DEF DropAuthCode, UnnoticedFault
<1>4. ASSUME NEW s \in Attempt, UserInfo(s)
      PROVE  BridgeTypeOK' /\ KeysLeadHome'
  BY <1>4 DEF UserInfo
<1>5. ASSUME NEW k \in BridgeCall, NEW s \in Attempt, Reload(k, s)
      PROVE  BridgeTypeOK' /\ KeysLeadHome'
  BY <1>5 DEF Reload
<1>6. ASSUME NEW k \in BridgeCall, NEW s \in Attempt, NEW u \in User, Scan(k, s, u)
      PROVE  BridgeTypeOK' /\ KeysLeadHome'
  BY <1>6 DEF Scan
<1>7. ASSUME NEW k \in BridgeCall, RecoverState(k)
      PROVE  BridgeTypeOK' /\ KeysLeadHome'
  BY <1>7 DEF RecoverState, FreeCall
<1>8. ASSUME NEW k \in BridgeCall, DropState(k)
      PROVE  BridgeTypeOK' /\ KeysLeadHome'
  BY <1>8 DEF DropState, UnnoticedFault
<1>9. ASSUME NEW k \in BridgeCall, FetchOpenID(k)
      PROVE  BridgeTypeOK' /\ KeysLeadHome'
  BY <1>9 DEF FetchOpenID, FreeCall
<1>10. ASSUME NEW k \in BridgeCall, IssueAuthCode(k)
       PROVE  BridgeTypeOK' /\ KeysLeadHome'
  <2>1. PICK c \in AuthCode \ Issued : StoreCode(k, c)
    BY <1>10 DEF IssueAuthCode
  <2>2. PICK s \in Attempt : s = callback[k].at /\ scanned[s] # NoUser
    BY <2>1 DEF StoreCode
  <2>3. /\ exchange' = [exchange EXCEPT ![s] = [pc |-> "get", code |-> c, openid |-> NoUser]]
        /\ codeKey' = [codeKey EXCEPT ![c] = scanned[s]]
        /\ callback' = [callback EXCEPT ![k] = FreeCall]
        /\ UNCHANGED <<opened, stateKey, scanned, spent, bridgeFaults>>
    <3>1. [NoExchange EXCEPT !.pc = "get", !.code = c]
          = [pc |-> "get", code |-> c, openid |-> NoUser]
      <4>1. [NoExchange EXCEPT !.pc = "get"] = [pc |-> "get", code |-> 0, openid |-> NoUser]
        BY DEF NoExchange
      <4>2. [[pc |-> "get", code |-> 0, openid |-> NoUser] EXCEPT !.code = c]
            = [pc |-> "get", code |-> c, openid |-> NoUser]
        OBVIOUS
      <4> QED
        BY <4>1, <4>2, Zenon
    <3> QED
      BY <2>1, <2>2, <3>1 DEF StoreCode
  <2>4. c # 0 /\ \A t \in Attempt : exchange[t].code # c
    BY DEF Issued
  <2>5. BridgeTypeOK'
    BY <2>2, <2>3 DEF FreeCall
  <2>6. KeysLeadHome'
    BY <2>2, <2>3, <2>4 DEF FreeCall
  <2> QED
    BY <2>5, <2>6
<1>11. CASE BridgeFails
  <2>1. bridgeFaults' \in 0 .. MaxBridgeFaults /\ UNCHANGED <<opened, scanned, spent>>
    BY <1>11 DEF BridgeFails
  <2>2. ASSUME NEW k \in BridgeCall, callback' = [callback EXCEPT ![k] = FreeCall],
               UNCHANGED <<stateKey, exchange, codeKey>>
        PROVE  BridgeTypeOK' /\ KeysLeadHome'
    BY <2>1, <2>2 DEF FreeCall
  <2>3. ASSUME NEW s \in Attempt, exchange[s].pc \in {"get", "drop", "info"},
               exchange' = [exchange EXCEPT ![s].pc = "failed"],
               UNCHANGED <<stateKey, callback, codeKey>>
        PROVE  BridgeTypeOK' /\ KeysLeadHome'
    BY <2>1, <2>3
  <2>4. ASSUME NEW s \in stateKey, stateKey' = stateKey \ {s},
               UNCHANGED <<callback, exchange, codeKey>>
        PROVE  BridgeTypeOK' /\ KeysLeadHome'
    BY <2>1, <2>4
  <2>5. ASSUME NEW c \in AuthCode, codeKey' = [codeKey EXCEPT ![c] = NoUser],
               UNCHANGED <<stateKey, callback, exchange>>
        PROVE  BridgeTypeOK' /\ KeysLeadHome'
    BY <2>1, <2>5
  <2> QED
    BY <1>11, <2>2, <2>3, <2>4, <2>5 DEF BridgeFails
<1>12. CASE UNCHANGED bridgeVars
  BY <1>12 DEF bridgeVars
<1> QED
  BY <1>1, <1>2, <1>3, <1>4, <1>5, <1>6, <1>7, <1>8, <1>9, <1>10, <1>11, <1>12 DEF BridgeNext

\* A step that is no failure loses no scan.
LEMMA NothingIsLostStep ==
    BridgeIInv /\ NothingIsLost /\ [BridgeNext]_bridgeVars /\ UNCHANGED bridgeFaults => NothingIsLost'
<1> SUFFICES ASSUME BridgeTypeOK, KeysLeadHome, NothingIsLost, [BridgeNext]_bridgeVars,
                    UNCHANGED bridgeFaults
             PROVE  NothingIsLost'
  BY DEF BridgeIInv
<1>0. bridgeFaults \in Nat
  BY DEF BridgeTypeOK
<1> USE SignInAssumption, NoCodeZero, <1>0 DEF BridgeTypeOK, KeysLeadHome, NothingIsLost
<1>1. ASSUME NEW s \in Attempt, Authorize(s)
      PROVE  NothingIsLost'
  BY <1>1 DEF Authorize
<1>2. ASSUME NEW s \in Attempt, ReadAuthCode(s)
      PROVE  NothingIsLost'
  BY <1>2 DEF ReadAuthCode
<1>3. ASSUME NEW s \in Attempt, DropAuthCode(s)
      PROVE  NothingIsLost'
  BY <1>3 DEF DropAuthCode, UnnoticedFault
<1>4. ASSUME NEW s \in Attempt, UserInfo(s)
      PROVE  NothingIsLost'
  BY <1>4 DEF UserInfo
<1>5. ASSUME NEW k \in BridgeCall, NEW s \in Attempt, Reload(k, s)
      PROVE  NothingIsLost'
  BY <1>5 DEF Reload
<1>6. ASSUME NEW k \in BridgeCall, NEW s \in Attempt, NEW u \in User, Scan(k, s, u)
      PROVE  NothingIsLost'
  BY <1>6 DEF Scan
<1>7. ASSUME NEW k \in BridgeCall, RecoverState(k)
      PROVE  NothingIsLost'
  BY <1>7 DEF RecoverState, FreeCall
<1>8. ASSUME NEW k \in BridgeCall, DropState(k)
      PROVE  NothingIsLost'
  BY <1>8 DEF DropState, UnnoticedFault
<1>9. ASSUME NEW k \in BridgeCall, FetchOpenID(k)
      PROVE  NothingIsLost'
  BY <1>9 DEF FetchOpenID, FreeCall
<1>10. ASSUME NEW k \in BridgeCall, IssueAuthCode(k)
       PROVE  NothingIsLost'
  BY <1>10 DEF IssueAuthCode, StoreCode, Issued, NoExchange, FreeCall
<1>11. CASE BridgeFails
  BY <1>11 DEF BridgeFails
<1>12. CASE UNCHANGED bridgeVars
  BY <1>12 DEF bridgeVars
<1> QED
  BY <1>1, <1>2, <1>3, <1>4, <1>5, <1>6, <1>7, <1>8, <1>9, <1>10, <1>11, <1>12 DEF BridgeNext

\* Failures only add up.
LEMMA FaultsStep ==
    ASSUME BridgeTypeOK, [BridgeNext]_bridgeVars
    PROVE  bridgeFaults' = bridgeFaults \/ bridgeFaults' # 0
<1>1. bridgeFaults' = bridgeFaults \/ bridgeFaults' = bridgeFaults + 1
  BY DEF BridgeNext, bridgeVars, Authorize, ReadAuthCode, DropAuthCode, UserInfo, Reload, Scan,
         RecoverState, DropState, FetchOpenID, IssueAuthCode, StoreCode, BridgeFails, UnnoticedFault
<1> QED
  BY <1>1 DEF BridgeTypeOK

LEMMA BridgeStep == BridgeIInv /\ [BridgeNext]_bridgeVars => BridgeIInv'
BY KeysStep, NothingIsLostStep, FaultsStep DEF BridgeIInv

\* An attempt ends as the person who scanned its QR code, and without a failure
\* every scan gets there: whatever the callbacks, reloads and exchanges do with
\* the keys they share, which they read and delete in two calls.
THEOREM BridgeCorrect == BridgeSpec => [](BridgeTypeOK /\ ScansArrive)
<1>1. BridgeIInv => BridgeTypeOK /\ ScansArrive
  BY DEF BridgeIInv, KeysLeadHome, NothingIsLost, ScansArrive
<1> QED
  BY BridgeInitially, BridgeStep, <1>1, PTL DEF BridgeSpec

\* Both halves of signing in, side by side: SignInInv, which the run checks.
THEOREM SignInCorrect == LoginSpec /\ BridgeSpec => []SignInInv
<1>1. LoginTypeOK /\ LoginsAnswer /\ BridgeTypeOK /\ ScansArrive <=> SignInInv
  BY DEF SignInInv
<1> QED
  BY <1>1, LoginsCorrect, BridgeCorrect, PTL
=============================================================================
