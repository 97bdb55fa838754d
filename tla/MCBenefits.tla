----------------------------- MODULE MCBenefits -----------------------------
(***************************************************************************)
(* TLC: what an account gains by being used.  In "rewards" alice checks in *)
(* and is referred by bob; in "views" the topups of one account decide its *)
(* VIP level.  The initial state chooses one, the other stands still.      *)
(***************************************************************************)
EXTENDS Rewards, AccountViews, TLC

CONSTANTS alice, bob

VARIABLE part

MCCheckinRef == [p \in Account \X Day |-> ToString(p)]
MCRefereeRef == [a \in Account |-> ToString(a)]
MCRef == {MCCheckinRef[p] : p \in Account \X Day} \union {MCRefereeRef[a] : a \in Account}
MCNone == [c \in {} |-> 0]
MCMaxEntries == [a \in Account |-> 4]
MCMinSpend == [l \in Level |-> l]

Init == part \in {"rewards", "views"} /\ RewardsInit /\ ViewsInit

Next ==
    \/ part = "rewards" /\ RewardsNext /\ UNCHANGED <<part, viewsVars>>
    \/ part = "views" /\ ViewsNext /\ UNCHANGED <<part, walletRewardVars>>

\* The fairness of both: no request of a part is under way while the other runs.
Spec ==
    /\ Init /\ [][Next]_<<part, walletRewardVars, viewsVars>>
    /\ RewardsFairness /\ ViewsFairness
=============================================================================
