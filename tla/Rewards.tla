------------------------------- MODULE Rewards -------------------------------
(***************************************************************************)
(* The daily check-in (CheckinService.DoCheckin) and the signup reward of  *)
(* a referral (the referrer link of the two UpsertAccount handlers and     *)
(* ReferralService.reward).  Both insert a row that a UNIQUE constraint    *)
(* admits once and then credit a wallet, in separate transactions; each    *)
(* database call is a step, and midnight may fall between any two.         *)
(*                                                                         *)
(* Nothing calls OnFirstTopup, OnFirstSubscription or OnRenewal, so signup *)
(* is the only referral event there is.  The whole-row save that sets      *)
(* referrer_id is, for the other columns, in Accounts.                     *)
(***************************************************************************)
EXTENDS WalletLedger

CONSTANTS
    Session,      \* requests in progress
    NoAccount,
    Referee,      \* accounts another account's aff_code may come with
    CheckinRef,   \* Account \X Day -> the id of the checkins row
    RefereeRef,   \* Account -> "referee:<id>"
    BaseReward,   \* checkinBaseReward, 0.10 in the code
    StreakStep,   \* checkinStreakBonusStep, 7
    MaxReward,    \* checkinMaxReward, 1.0
    LookBack,     \* rows CountConsecutive reads, 30
    RewardSignup, \* 5.0
    Visitor,      \* bound of the model: accounts that check in
    MaxDay,       \* bound of the model: days
    MaxFailures   \* bound of the model: requests that fail or whose pod dies

Day == 1 .. MaxDay

VARIABLES
    today,     \* the date of the server's clock
    checkins,  \* identity.checkins, a set of rows
    referrer,  \* Account -> accounts.referrer_id
    events,    \* referral_reward_events: pairs of a referrer and a referee
    request,   \* Session -> the call it serves
    failures

rewardVars == <<today, checkins, referrer, events, request, failures>>
walletRewardVars == <<walletVars, rewardVars>>

Row == [acct : Account, day : Day, reward : Nat]

FreeSession == [pc |-> "free", acct |-> NoAccount, other |-> NoAccount, day |-> 0,
                streak |-> 0]
Call == [pc : {"lookup", "count", "insert", "creditCheckin",
               "link", "claim", "wallet", "creditReferrer"},
         acct : Account, other : Account \union {NoAccount}, day : 0 .. MaxDay,
         streak : 0 .. LookBack + 1]

\* calculateCheckinReward: half as much again for every full StreakStep days, in
\* the column's units of 0.0001, up to MaxReward.
CheckinReward(streak) ==
    LET tier == streak \div StreakStep
        reward == (BaseReward * 3 ^ tier * 2 + 2 ^ tier) \div (2 * 2 ^ tier)
    IN  IF reward > MaxReward THEN MaxReward ELSE reward

ASSUME RewardAssumption ==
    /\ NoAccount \notin Account
    /\ Referee \subseteq Account
    /\ Visitor \subseteq Account
    /\ {StreakStep, LookBack, MaxDay} \subseteq Nat \ {0}
    /\ {BaseReward, MaxReward, RewardSignup, MaxFailures} \subseteq Nat
    /\ CheckinRef \in [Account \X Day -> Ref]
    /\ RefereeRef \in [Account -> Ref]
    /\ \A p, q \in Account \X Day : CheckinRef[p] = CheckinRef[q] => p = q
    /\ \A a, b \in Account : RefereeRef[a] = RefereeRef[b] => a = b
    /\ \A p \in Account \X Day, a \in Account : CheckinRef[p] # RefereeRef[a]
    /\ \A k \in 1 .. LookBack + 1 : CheckinReward(k) \in Amount
    /\ RewardSignup \in Amount

RewardsTypeOK ==
    /\ WalletTypeOK
    /\ today \in Day
    /\ checkins \subseteq Row
    /\ referrer \in [Account -> Account \union {NoAccount}]
    /\ events \subseteq Account \X Account
    /\ request \in [Session -> Call \union {FreeSession}]
    /\ failures \in 0 .. MaxFailures

RewardsInit ==
    /\ WalletInit
    /\ today = 1
    /\ checkins = {}
    /\ referrer = [a \in Account |-> NoAccount]
    /\ events = {}
    /\ request = [s \in Session |-> FreeSession]
    /\ failures = 0

CheckedIn(a, d) == \E row \in checkins : row.acct = a /\ row.day = d

Goto(s, pc) == request' = [request EXCEPT ![s].pc = pc]
Finish(s) == request' = [request EXCEPT ![s] = FreeSession]

-----------------------------------------------------------------------------
(* The daily check-in *)

\* DoCheckin notes today's date.  The account has its wallet: creating it is
\* part of creating the account, and Accounts has the case where that fails.
BeginCheckin(s, a) ==
    /\ request[s] = FreeSession
    /\ a \in Visitor \intersect walletRows
    /\ request' = [request EXCEPT ![s] =
                     [FreeSession EXCEPT !.pc = "lookup", !.acct = a, !.day = today]]
    /\ UNCHANGED <<walletVars, today, checkins, referrer, events, failures>>

\* GetByAccountAndDate: a row of that date ends the request.
LookUpToday(s) ==
    /\ request[s].pc = "lookup"
    /\ IF CheckedIn(request[s].acct, request[s].day) THEN Finish(s) ELSE Goto(s, "count")
    /\ UNCHANGED <<walletVars, today, checkins, referrer, events, failures>>

\* CountConsecutive: the unbroken run of rows that ends at day d, of the LookBack
\* latest ones.
CountConsecutive(a, d) ==
    Cardinality({k \in 0 .. LookBack - 1 : \A j \in 0 .. k : CheckedIn(a, d - j)})

\* The run that ends yesterday, by a second look at the clock, and one.
CountStreak(s) ==
    /\ request[s].pc = "count"
    /\ request' = [request EXCEPT
            ![s].pc = "insert",
            ![s].streak = CountConsecutive(request[s].acct, today - 1) + 1]
    /\ UNCHANGED <<walletVars, today, checkins, referrer, events, failures>>

\* Mutant: the table has no uq_checkin_daily.
Admits_Always(a, d) == TRUE

\* uq_checkin_daily.
Admits(a, d) == ~ CheckedIn(a, d)

\* The INSERT; a duplicate is an error and ends the request.
InsertCheckin(s) ==
    LET call == request[s] IN
    /\ call.pc = "insert"
    /\ IF Admits(call.acct, call.day)
       THEN /\ checkins' = checkins \union
                    {[acct |-> call.acct, day |-> call.day,
                      reward |-> CheckinReward(call.streak)]}
            /\ Goto(s, "creditCheckin")
       ELSE Finish(s) /\ UNCHANGED checkins
    /\ UNCHANGED <<walletVars, today, referrer, events, failures>>

CreditCheckin(s) ==
    LET call == request[s] IN
    /\ call.pc = "creditCheckin"
    /\ Credit(call.acct, "credit", CheckinReward(call.streak),
              CheckinRef[<<call.acct, call.day>>])
    /\ Finish(s)
    /\ UNCHANGED <<today, checkins, referrer, events, failures>>

-----------------------------------------------------------------------------
(* The referrer link and the signup reward *)

\* An upsert of account a that brings the aff_code of account r has read a row
\* without a referrer.
BeginLink(s, a, r) ==
    /\ request[s] = FreeSession
    /\ a \in Referee
    /\ r # a
    /\ referrer[a] = NoAccount
    /\ request' = [request EXCEPT ![s] =
                     [FreeSession EXCEPT !.pc = "link", !.acct = a, !.other = r]]
    /\ UNCHANGED <<walletVars, today, checkins, referrer, events, failures>>

\* The row is saved with the referrer, whatever it holds by now.
LinkReferrer(s) ==
    /\ request[s].pc = "link"
    /\ referrer' = [referrer EXCEPT ![request[s].acct] = request[s].other]
    /\ Goto(s, "claim")
    /\ UNCHANGED <<walletVars, today, checkins, events, failures>>

\* Mutant: the event is recorded after the credit, so it stops nobody.
Claimed_Never(r, a) == FALSE

\* uq_referral_reward_event (one event type here).
Claimed(r, a) == <<r, a>> \in events

\* CreateRewardEvent: the event is inserted as "credited"; a duplicate ends the
\* request without an error.
ClaimEvent(s) ==
    LET call == request[s] IN
    /\ call.pc = "claim"
    /\ IF Claimed(call.other, call.acct)
       THEN Finish(s) /\ UNCHANGED events
       ELSE Goto(s, "wallet") /\ events' = events \union {<<call.other, call.acct>>}
    /\ UNCHANGED <<walletVars, today, checkins, referrer, failures>>

\* Mutant: the referrer's wallet is not created on demand.
EnsureWallet_Skips(r) == UNCHANGED walletVars

\* GetOrCreate of the referrer's wallet.
EnsureWallet(r) ==
    IF r \in walletRows THEN UNCHANGED walletVars ELSE GetOrCreate(r)

ReferrerWallet(s) ==
    /\ request[s].pc = "wallet"
    /\ EnsureWallet(request[s].other)
    /\ Goto(s, "creditReferrer")
    /\ UNCHANGED <<today, checkins, referrer, events, failures>>

CreditReferrer(s) ==
    /\ request[s].pc = "creditReferrer"
    /\ Credit(request[s].other, "credit", RewardSignup, RefereeRef[request[s].acct])
    /\ Finish(s)
    /\ UNCHANGED <<today, checkins, referrer, events, failures>>

\* A database error, or the pod dies: the request is over where it is.
CallFails(s) ==
    /\ request[s] # FreeSession
    /\ failures < MaxFailures
    /\ failures' = failures + 1
    /\ Finish(s)
    /\ UNCHANGED <<walletVars, today, checkins, referrer, events>>

\* An account's wallet is created with it.
CreateWallet(a) ==
    /\ GetOrCreate(a)
    /\ UNCHANGED rewardVars

Midnight ==
    /\ today < MaxDay
    /\ today' = today + 1
    /\ UNCHANGED <<walletVars, checkins, referrer, events, request, failures>>

RequestStep(s) ==
    \/ LookUpToday(s) \/ CountStreak(s) \/ InsertCheckin(s) \/ CreditCheckin(s)
    \/ LinkReferrer(s) \/ ClaimEvent(s) \/ ReferrerWallet(s) \/ CreditReferrer(s)

RewardsNext ==
    \/ \E s \in Session :
        \/ RequestStep(s) \/ CallFails(s)
        \/ \E a \in Account : BeginCheckin(s, a)
        \/ \E a, r \in Account : BeginLink(s, a, r)
    \/ \E a \in Account : CreateWallet(a)
    \/ Midnight

RewardsSpec == RewardsInit /\ [][RewardsNext]_walletRewardVars

\* The server runs every request it took to its end.
RewardsFairness == \A s \in Session : WF_walletRewardVars(RequestStep(s))
RewardsFairSpec == RewardsSpec /\ RewardsFairness

-----------------------------------------------------------------------------
(* Properties *)

CheckinEntries(row) ==
    EntriesOf(row.acct, "credit", CheckinRef[<<row.acct, row.day>>])

\* However many requests race, a check-in is paid at most once, with the reward
\* its row records, and nothing is paid without a row (DoCheckin's lookup, the
\* UNIQUE constraint and the credit that follows).
CheckinsPaidOnce ==
    \A a \in Account, d \in Day :
        LET rows == {row \in checkins : row.acct = a /\ row.day = d}
            paid == EntriesOf(a, "credit", CheckinRef[<<a, d>>])
        IN  /\ Cardinality(paid) <= Cardinality(rows)
            /\ Cardinality(rows) <= 1
            /\ \A i \in paid, row \in rows : ledger[a][i].amount = row.reward

\* A referrer is rewarded at most once for a referee, and only for a recorded
\* event ("insert event first, skip if duplicate", ReferralService.reward).
ReferralsPaidOnce ==
    \A r, a \in Account :
        Cardinality(EntriesOf(r, "credit", RefereeRef[a]))
            <= IF <<r, a>> \in events THEN 1 ELSE 0

\* The invariant of the rewards: nothing is paid twice or without its row.
RewardsInv ==
    /\ RewardsTypeOK
    /\ CheckinsPaidOnce
    /\ ReferralsPaidOnce

\* As long as no request fails, every check-in and every referral event comes to
\* be paid: the credit that follows the insert finds its wallet.
RewardsArePaid ==
    [](failures = 0) =>
        /\ \A a \in Visitor, d \in Day :
            CheckedIn(a, d) ~> EntriesOf(a, "credit", CheckinRef[<<a, d>>]) # {}
        /\ \A a \in Referee : \A r \in Account \ {a} :
            <<r, a>> \in events ~> EntriesOf(r, "credit", RefereeRef[a]) # {}

\* The PRD's "100% (none left out, none twice)" for referral rewards: an event
\* stored as "credited" is in the referrer's ledger or about to be.
EventsAreCredited ==
    \A r, a \in Account : <<r, a>> \in events =>
        \/ EntriesOf(r, "credit", RefereeRef[a]) # {}
        \/ \E s \in Session : /\ request[s].pc \in {"wallet", "creditReferrer"}
                              /\ request[s].other = r /\ request[s].acct = a
=============================================================================
