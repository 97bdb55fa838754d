--------------------------- MODULE MCSubscriptions ---------------------------
(***************************************************************************)
(* TLC: subscriptions of a monthly plan with a feature, one without and    *)
(* one without an end.  Two scenarios, chosen in the initial state:        *)
(*   "job"    two subscriptions, two activations at once, the expiry run   *)
(*            and failing calls;                                           *)
(*   "calls"  three subscriptions, one activation at a time beside a       *)
(*            cancellation and a reader, no expiry run and no failure.     *)
(***************************************************************************)
EXTENDS Subscriptions, TLC

CONSTANTS s1, s2, s3, q1, q2, pro, basic, ever, quota

VARIABLE scenario

MCFeatures == [p \in Plan |-> IF p = pro THEN {quota} ELSE {}]

\* Ids are given in order; the Subs are alike, so nothing is lost by it.
InOrder == \A p \in {<<s1, s2>>, <<s2, s3>>} :
    p \in Sub \X Sub /\ status[p[2]] # "none" => status[p[1]] # "none"

Bounds ==
    /\ InOrder
    /\ scenario = "job" =>
        /\ status[s3] = "none" /\ Cardinality(Creating) <= Cardinality(Unused \ {s3})
        /\ \A q \in Request : request[q].plan # basic
        /\ \A r \in Reader : reader[r] = NoCache
    /\ scenario = "calls" =>
        /\ CallsAlone
        /\ request[q2].pc \notin {"expire", "create"}

MCInit == Init /\ scenario \in {"job", "calls"}

MCSpec ==
    /\ MCInit
    /\ [][Next /\ UNCHANGED scenario /\ Bounds']_<<vars, scenario>>

\* FairSpec in the scenario that has the expiry run, and not the third row.
MCFairSpec ==
    /\ MCSpec
    /\ \A c \in Cron : WF_vars(scenario = "job" /\ CronStep(c))
    /\ \A s \in Sub \ {s3} : WF_vars(GraceRunsOut(s))

\* No bounds but those of the constants.
FreeSpec == Init /\ scenario = "free" /\ [][Next /\ UNCHANGED scenario]_<<vars, scenario>>

\* A subscription that lapsed does not stay live where the expiry run is at
\* work: it leaves active for grace, and grace for expired, whatever fails.
JobEndsLapsed == scenario = "job" => \A s \in Sub \ {s3} : LapseEnds(s)
=============================================================================
