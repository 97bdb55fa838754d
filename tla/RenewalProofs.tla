---------------------------- MODULE RenewalProofs ----------------------------
(***************************************************************************)
(* What holds of the renewal job for any number of pods and subscriptions: *)
(* the money of a renewal buys something or comes back, and while no run   *)
(* outlives its lock no subscription is renewed twice.                     *)
(***************************************************************************)
EXTENDS Renewal, WalletLedgerProofs

AtWork == {"activate", "expire", "create", "refund"}

\* What a run holds.  A listed row has attempts left, so that one more attempt
\* is a number the column may hold.
RunHolds(p) ==
    /\ pod[p].pc \in AtWork \union {"reset"} => pod[p].sub \in AutoRenew
    /\ pod[p].pc = "expire" => pod[p].old \in Sub /\ status[pod[p].old] # "none"
    /\ \A row \in pod[p].todo : row[1] \in AutoRenew /\ row[2] < MaxAttempts

\* A row not inserted yet renews nothing, and what was renewed is not active:
\* its renewal was inserted when the customer had no active row.
RowsAgree ==
    /\ \A t \in Sub : status[t] = "none" => source[t] = NoSub
    /\ \A s \in AutoRenew : status[s] # "none"
    /\ \A t \in Sub : source[t] # NoSub => source[t] \in AutoRenew /\ status[source[t]] # "active"
    /\ canceller # NoSub => status[canceller] # "none"

RenewalIInv ==
    /\ RenewalTypeOK
    /\ \A p \in Pod : RunHolds(p)
    /\ RowsAgree

-----------------------------------------------------------------------------
(* The wallets *)

LEMMA PodFields ==
    ASSUME RenewalTypeOK, NEW p \in Pod
    PROVE  /\ pod[p] \in Running \union {Free}
           /\ pod[p] # Free => pod[p] \in Running
           /\ pod[p].pc # "free" => pod[p] # Free
           /\ pod[p].todo \subseteq Sub \X (0 .. MaxAttempts)
           /\ pod[p].sub \in Sub \union {NoSub} /\ pod[p].old \in Sub \union {NoSub}
<1>1. pod[p] \in Running \union {Free}
  BY DEF RenewalTypeOK
<1> QED
  BY <1>1 DEF Running, Free

LEMMA NextMovesWallet ==
    RenewalIInv /\ [Next]_vars => [WalletNext]_walletVars
<1> SUFFICES ASSUME RenewalIInv, [Next]_vars
             PROVE  [WalletNext]_walletVars
  OBVIOUS
<1> USE RenewalAssumption DEF RenewalIInv
<1>1. ASSUME NEW p \in Pod, NEW s \in Sub, NEW n \in 0 .. MaxAttempts, DebitWallet(p, s, n)
      PROVE  WalletNext
  <2>1. Debit(Owner[s], Price, s) /\ Owner[s] \in Account /\ s \in Ref \union {NoRef}
    BY <1>1 DEF DebitWallet
  <2> QED
    BY <2>1 DEF WalletNext
<1>2. ASSUME NEW p \in Pod, Compensate(p)
      PROVE  WalletNext
  <2>1. pod[p].sub \in Sub
    BY <1>2 DEF Compensate, RunHolds, AtWork
  <2>2. Credit(Owner[pod[p].sub], "refund", Price, pod[p].sub) /\ Owner[pod[p].sub] \in Account
        /\ pod[p].sub \in Ref \union {NoRef} /\ "refund" \in CreditType
    BY <1>2, <2>1 DEF Compensate, CreditType
  <2> QED
    BY <2>2 DEF WalletNext
<1>3. CASE OtherWalletCall
  BY <1>3 DEF OtherWalletCall, WalletNext, CreditType
<1>4. ASSUME NEW p \in Pod,
             \/ Tick(p) \/ List(p) \/ EndRun(p)
             \/ \E s \in Sub, n \in 0 .. MaxAttempts : DebitFails(p, s, n)
             \/ ReadLive(p) \/ ExpireOld(p) \/ (\E t \in Sub : Create(p, t)) \/ ResetState(p)
             \/ ReadFails(p) \/ ActivateFails(p) \/ CompensationFails(p) \/ Crash(p)
      PROVE  UNCHANGED walletVars
  BY <1>4 DEF Tick, List, EndRun, DebitFails, ReadLive, ExpireOld, Create, ResetState,
              ReadFails, ActivateFails, CompensationFails, Crash
<1>5. CASE LockExpires \/ BeginCancel \/ SaveCancelled \/ \E s \in Sub : WindowMoves(s) \/ BackoffEnds(s)
  BY <1>5 DEF LockExpires, BeginCancel, SaveCancelled, WindowMoves, BackoffEnds
<1>6. CASE UNCHANGED vars
  BY <1>6 DEF vars
<1> QED
  BY <1>1, <1>2, <1>3, <1>4, <1>5, <1>6 DEF Next, PodStep

-----------------------------------------------------------------------------
(* Types and what runs hold *)

LEMMA Initially == Init => RenewalIInv
<1> SUFFICES ASSUME Init
             PROVE  RenewalIInv
  OBVIOUS
<1> USE RenewalAssumption, WalletAssumption
<1>1. WalletTypeOK
  BY DEF Init, WalletInit, WalletTypeOK
<1>2. RenewalTypeOK
  BY <1>1 DEF Init, RenewalTypeOK, Free
<1>3. \A p \in Pod : RunHolds(p)
  BY DEF Init, RunHolds, Free, AtWork
<1>4. RowsAgree
  BY DEF Init, RowsAgree
<1> QED
  BY <1>2, <1>3, <1>4 DEF RenewalIInv

LEMMA TypeStep ==
    ASSUME RenewalIInv, [Next]_vars
    PROVE  RenewalTypeOK'
<1> USE RenewalAssumption DEF RenewalIInv
<1>0. RenewalTypeOK
  OBVIOUS
<1>1. WalletTypeOK'
  BY NextMovesWallet, WalletTypeStep DEF RenewalTypeOK
<1>2. ASSUME NEW p \in Pod, Tick(p) \/ EndRun(p) \/ Crash(p)
      PROVE  RenewalTypeOK'
  <2>1. pod' \in [Pod -> Running \union {Free}]
    <3>1. [Free EXCEPT !.pc = "list"] \in Running
      BY DEF Free, Running
    <3> QED
      BY <1>0, <1>2, <3>1 DEF Tick, EndRun, Crash, Goto, RenewalTypeOK
  <2> QED
    BY <1>0, <1>1, <1>2, <2>1 DEF Tick, EndRun, Crash, subVars, counters, RenewalTypeOK
<1>3. ASSUME NEW p \in Pod, List(p)
      PROVE  RenewalTypeOK'
  <2>1. pod[p] \in Running
    BY <1>0, <1>3, PodFields DEF List
  <2>2. {<<s, attempts[s]>> : s \in Due} \subseteq Sub \X (0 .. MaxAttempts)
    BY <1>0 DEF Due, RenewalTypeOK
  <2>3. pod' \in [Pod -> Running \union {Free}]
    BY <1>0, <1>3, <2>1, <2>2 DEF List, RenewalTypeOK, Running
  <2> QED
    BY <1>0, <1>1, <1>3, <2>3 DEF List, subVars, counters, RenewalTypeOK
<1>4. ASSUME NEW p \in Pod, NEW s \in Sub, NEW n \in 0 .. MaxAttempts, DebitWallet(p, s, n)
      PROVE  RenewalTypeOK'
  <2>1. pod[p] \in Running
    BY <1>0, <1>4, PodFields DEF DebitWallet
  <2>2. pod' \in [Pod -> Running \union {Free}]
    BY <1>0, <1>4, <2>1 DEF DebitWallet, RenewalTypeOK, Running
  <2> QED
    BY <1>0, <1>1, <1>4, <2>2 DEF DebitWallet, subVars, counters, RenewalTypeOK
<1>5. ASSUME NEW p \in Pod, NEW s \in Sub, NEW n \in 0 .. MaxAttempts, DebitFails(p, s, n)
      PROVE  RenewalTypeOK'
  <2>1. pod[p] \in Running /\ n < MaxAttempts
    <3>1. <<s, n>>[2] < MaxAttempts
      BY <1>5 DEF DebitFails, RunHolds
    <3> QED
      BY <1>0, <1>5, <3>1, PodFields DEF DebitFails
  <2>2. pod' \in [Pod -> Running \union {Free}]
    BY <1>0, <1>5, <2>1 DEF DebitFails, RenewalTypeOK, Running
  <2>3. attempts' \in [Sub -> 0 .. MaxAttempts]
    BY <1>0, <1>5, <2>1 DEF DebitFails, RenewalTypeOK
  <2>4. backoff' \subseteq Sub /\ failures' \in Nat
    BY <1>0, <1>5 DEF DebitFails, RenewalTypeOK
  <2> QED
    BY <1>0, <1>1, <1>5, <2>2, <2>3, <2>4 DEF DebitFails, RenewalTypeOK
<1>6. ASSUME NEW p \in Pod, ReadLive(p)
      PROVE  RenewalTypeOK'
  <2>1. pod[p] \in Running
    BY <1>0, <1>6, PodFields DEF ReadLive
  <2>2. pod' \in [Pod -> Running \union {Free}]
    BY <1>0, <1>6, <2>1 DEF ReadLive, Goto, LiveOf, RenewalTypeOK, Running
  <2> QED
    BY <1>0, <1>1, <1>6, <2>2 DEF ReadLive, subVars, counters, RenewalTypeOK
<1>7. ASSUME NEW p \in Pod, ExpireOld(p)
      PROVE  RenewalTypeOK'
  <2>1. pod[p] \in Running /\ pod[p].old \in Sub
    BY <1>0, <1>7, PodFields DEF ExpireOld, RunHolds
  <2>2. pod' \in [Pod -> Running \union {Free}]
    BY <1>0, <1>7, <2>1 DEF ExpireOld, RenewalTypeOK, Running
  <2>3. status' \in [Sub -> {"none", "active", "expired", "cancelled"}]
    BY <1>0, <1>7, <2>1 DEF ExpireOld, RenewalTypeOK
  <2> QED
    BY <1>0, <1>1, <1>7, <2>2, <2>3 DEF ExpireOld, counters, RenewalTypeOK
<1>8. ASSUME NEW p \in Pod, NEW t \in Sub, Create(p, t)
      PROVE  RenewalTypeOK'
  <2>1. pod[p] \in Running /\ pod[p].sub \in Sub
    BY <1>0, <1>8, PodFields DEF Create, RunHolds, AtWork
  <2>2. pod' \in [Pod -> Running \union {Free}]
    BY <1>0, <1>8, <2>1 DEF Create, Goto, RenewalTypeOK, Running
  <2>3. status' \in [Sub -> {"none", "active", "expired", "cancelled"}]
        /\ source' \in [Sub -> Sub \union {NoSub}]
    BY <1>0, <1>8, <2>1 DEF Create, RenewalTypeOK
  <2> QED
    BY <1>0, <1>1, <1>8, <2>2, <2>3 DEF Create, counters, RenewalTypeOK
<1>9. ASSUME NEW p \in Pod, ReadFails(p)
      PROVE  RenewalTypeOK'
  <2>1. pod[p] \in Running
    BY <1>0, <1>9, PodFields DEF ReadFails
  <2>2. pod' \in [Pod -> Running \union {Free}]
    BY <1>0, <1>9, <2>1 DEF ReadFails, Goto, RenewalTypeOK, Running
  <2> QED
    BY <1>0, <1>1, <1>9, <2>2 DEF ReadFails, subVars, counters, RenewalTypeOK
<1>10. ASSUME NEW p \in Pod, ActivateFails(p) \/ CompensationFails(p) \/ Compensate(p)
       PROVE  RenewalTypeOK'
  <2>1. pod[p] \in Running
    BY <1>0, <1>10, PodFields DEF ActivateFails, CompensationFails, Compensate
  <2>2. pod' \in [Pod -> Running \union {Free}]
    BY <1>0, <1>10, <2>1 DEF ActivateFails, CompensationFails, Compensate, Goto, RenewalTypeOK, Running
  <2> QED
    BY <1>0, <1>1, <1>10, <2>2
    DEF ActivateFails, CompensationFails, Compensate, subVars, counters, RenewalTypeOK
<1>11. ASSUME NEW p \in Pod, ResetState(p)
       PROVE  RenewalTypeOK'
  <2>1. pod[p] \in Running /\ pod[p].sub \in Sub
    BY <1>0, <1>11, PodFields DEF ResetState, RunHolds, AtWork
  <2>2. pod' \in [Pod -> Running \union {Free}]
    BY <1>0, <1>11, <2>1 DEF ResetState, RenewalTypeOK, Running
  <2>3. attempts' \in [Sub -> 0 .. MaxAttempts] /\ backoff' \subseteq Sub /\ failures' \in Nat
    BY <1>0, <1>11, <2>1 DEF ResetState, RenewalTypeOK
  <2> QED
    BY <1>0, <1>1, <1>11, <2>2, <2>3 DEF ResetState, RenewalTypeOK
<1>12. CASE LockExpires \/ BeginCancel
  BY <1>0, <1>1, <1>12 DEF LockExpires, BeginCancel, subVars, counters, RenewalTypeOK
<1>13. CASE SaveCancelled
  BY <1>0, <1>1, <1>13 DEF SaveCancelled, counters, RenewalTypeOK
<1>14. ASSUME NEW s \in Sub, WindowMoves(s) \/ BackoffEnds(s)
       PROVE  RenewalTypeOK'
  BY <1>0, <1>1, <1>14 DEF WindowMoves, BackoffEnds, counters, RenewalTypeOK
<1>15. CASE OtherWalletCall \/ UNCHANGED vars
  BY <1>0, <1>1, <1>15 DEF OtherWalletCall, vars, renewalVars, subVars, counters, RenewalTypeOK
<1> QED
  BY <1>2, <1>3, <1>4, <1>5, <1>6, <1>7, <1>8, <1>9, <1>10, <1>11, <1>12, <1>13, <1>14, <1>15
  DEF Next, PodStep

\* Which steps write the rows, and which the cancellation under way.
LEMMA Writers ==
    ASSUME [Next]_vars
    PROVE  /\ \/ \E p \in Pod : ExpireOld(p) \/ \E t \in Sub : Create(p, t)
              \/ SaveCancelled
              \/ UNCHANGED <<status, source>>
           /\ BeginCancel \/ SaveCancelled \/ UNCHANGED canceller
<1>1. ASSUME NEW p \in Pod, Tick(p) \/ List(p) \/ EndRun(p) \/ ReadLive(p)
      PROVE  UNCHANGED <<status, source, canceller>>
  BY <1>1 DEF Tick, List, EndRun, ReadLive, subVars
<1>2. ASSUME NEW p \in Pod, NEW s \in Sub, NEW n \in 0 .. MaxAttempts, DebitWallet(p, s, n) \/ DebitFails(p, s, n)
      PROVE  UNCHANGED <<status, source, canceller>>
  BY <1>2 DEF DebitWallet, DebitFails, subVars
<1>3. ASSUME NEW p \in Pod, Compensate(p) \/ ResetState(p) \/ ReadFails(p) \/ ActivateFails(p)
                             \/ CompensationFails(p) \/ Crash(p)
      PROVE  UNCHANGED <<status, source, canceller>>
  BY <1>3 DEF Compensate, ResetState, ReadFails, ActivateFails, CompensationFails, Crash, subVars
<1>4. ASSUME NEW p \in Pod, ExpireOld(p) \/ \E t \in Sub : Create(p, t)
      PROVE  UNCHANGED canceller
  BY <1>4 DEF ExpireOld, Create
<1>5. LockExpires => UNCHANGED <<status, source, canceller>>
  BY DEF LockExpires, subVars
<1>6. BeginCancel => UNCHANGED <<status, source>>
  BY DEF BeginCancel, subVars
<1>7. ASSUME NEW s \in Sub, WindowMoves(s) \/ BackoffEnds(s)
      PROVE  UNCHANGED <<status, source, canceller>>
  BY <1>7 DEF WindowMoves, BackoffEnds
<1>8. OtherWalletCall \/ UNCHANGED vars => UNCHANGED <<status, source, canceller>>
  BY DEF OtherWalletCall, vars, renewalVars, subVars
<1> QED
  BY <1>1, <1>2, <1>3, <1>4, <1>5, <1>6, <1>7, <1>8 DEF Next, PodStep

\* Rows that exist stay, keep their source, and none becomes active again.
LEMMA RowsStay ==
    ASSUME RenewalIInv, [Next]_vars
    PROVE  /\ \A s \in Sub : status[s] # "none" =>
                /\ status'[s] # "none" /\ source'[s] = source[s]
                /\ status'[s] = "active" => status[s] = "active"
           /\ \A t \in Sub : status'[t] = "none" => source'[t] = NoSub
<1> USE RenewalAssumption DEF RenewalIInv
<1>0. RenewalTypeOK /\ \A t \in Sub : status[t] = "none" => source[t] = NoSub
  BY DEF RowsAgree
<1>1. ASSUME NEW p \in Pod, ExpireOld(p)
      PROVE  /\ pod[p].old \in Sub /\ status[pod[p].old] # "none" /\ source' = source
             /\ status' = [status EXCEPT ![pod[p].old] = "expired"]
  BY <1>1 DEF ExpireOld, RunHolds
<1>2. ASSUME NEW p \in Pod, NEW t \in Sub, Create(p, t)
      PROVE  /\ status[t] = "none" /\ \A s \in Sub \ {t} : status'[s] = status[s] /\ source'[s] = source[s]
             /\ (status'[t] = "active" \/ (status'[t] = status[t] /\ source'[t] = source[t]))
  BY <1>0, <1>2 DEF Create, RenewalTypeOK
<1>3. CASE SaveCancelled
  <2>1. canceller \in Sub /\ status[canceller] # "none" /\ source' = source
        /\ status' = [status EXCEPT ![canceller] = "cancelled"]
    BY <1>0, <1>3 DEF SaveCancelled, RenewalTypeOK, RowsAgree
  <2> QED
    BY <1>0, <2>1 DEF RenewalTypeOK
<1>4. CASE UNCHANGED <<status, source>>
  BY <1>0, <1>4
<1>5. \/ \E p \in Pod : ExpireOld(p) \/ \E t \in Sub : Create(p, t)
      \/ SaveCancelled
      \/ UNCHANGED <<status, source>>
  BY Writers
<1>6. ASSUME NEW p \in Pod, ExpireOld(p)
      PROVE  /\ \A s \in Sub : status[s] # "none" =>
                  /\ status'[s] # "none" /\ source'[s] = source[s]
                  /\ status'[s] = "active" => status[s] = "active"
             /\ \A t \in Sub : status'[t] = "none" => source'[t] = NoSub
  BY <1>0, <1>1, <1>6 DEF RenewalTypeOK
<1>7. ASSUME NEW p \in Pod, NEW t \in Sub, Create(p, t)
      PROVE  /\ \A s \in Sub : status[s] # "none" =>
                  /\ status'[s] # "none" /\ source'[s] = source[s]
                  /\ status'[s] = "active" => status[s] = "active"
             /\ \A u \in Sub : status'[u] = "none" => source'[u] = NoSub
  BY <1>0, <1>2, <1>7
<1> QED
  BY <1>3, <1>4, <1>5, <1>6, <1>7

\* An activation that inserts a row for s finds no active row of its owner.
LEMMA CreateRenews ==
    ASSUME RenewalIInv, NEW p \in Pod, NEW t \in Sub, Create(p, t)
    PROVE  /\ pod[p].sub \in AutoRenew /\ pod[p].pc = "create" /\ pod[p] \in Running
           /\ status[t] = "none" /\ source[t] = NoSub
           /\ \/ /\ source' = [source EXCEPT ![t] = pod[p].sub]
                 /\ status' = [status EXCEPT ![t] = "active"]
                 /\ status[pod[p].sub] # "active" /\ status[pod[p].sub] # "none" /\ pod[p].sub # t
                 /\ pod' = [pod EXCEPT ![p].pc = "reset"]
              \/ source' = source /\ status' = status /\ pod' = [pod EXCEPT ![p].pc = "refund"]
<1> USE RenewalAssumption DEF RenewalIInv
<1>1. pod[p].sub \in AutoRenew /\ pod[p].pc = "create" /\ status[t] = "none" /\ source[t] = NoSub
  BY DEF Create, RunHolds, AtWork, RowsAgree
<1>2. pod[p] \in Running
  BY <1>1, PodFields
<1>3. status[pod[p].sub] # "none"
  BY <1>1 DEF RowsAgree
<1>4. LiveOf(Owner[pod[p].sub]) = {} => status[pod[p].sub] # "active"
  BY <1>1 DEF LiveOf
<1> QED
  BY <1>1, <1>2, <1>3, <1>4 DEF Create, Goto

LEMMA RowsStep ==
    ASSUME RenewalIInv, [Next]_vars
    PROVE  RowsAgree'
<1> USE RenewalAssumption DEF RenewalIInv
<1>0. RenewalTypeOK /\ RowsAgree
  OBVIOUS
<1>1. \A t \in Sub : status'[t] = "none" => source'[t] = NoSub
  BY RowsStay
<1>2. \A s \in AutoRenew : status'[s] # "none"
  BY <1>0, RowsStay DEF RowsAgree
<1>3. \A t \in Sub : source'[t] # NoSub => source'[t] \in AutoRenew /\ status'[source'[t]] # "active"
  <2>1. ASSUME NEW t \in Sub, source'[t] = source[t], source[t] # NoSub
        PROVE  source'[t] \in AutoRenew /\ status'[source'[t]] # "active"
    <3>1. source[t] \in AutoRenew /\ status[source[t]] # "active" /\ status[source[t]] # "none"
      BY <1>0, <2>1 DEF RowsAgree
    <3> QED
      BY <2>1, <3>1, RowsStay
  <2>2. ASSUME NEW p \in Pod, NEW u \in Sub, Create(p, u), NEW t \in Sub, source'[t] # source[t]
        PROVE  source'[t] \in AutoRenew /\ status'[source'[t]] # "active"
    <3>1. /\ t = u /\ source'[t] = pod[p].sub /\ pod[p].sub \in AutoRenew
          /\ status[pod[p].sub] # "active" /\ status[pod[p].sub] # "none"
      BY <1>0, <2>2, CreateRenews DEF RenewalTypeOK
    <3> QED
      BY <3>1, RowsStay
  <2>3. UNCHANGED source \/ \E p \in Pod, u \in Sub : Create(p, u)
    BY Writers DEF ExpireOld, SaveCancelled
  <2> QED
    BY <2>1, <2>2, <2>3
<1>4. canceller' # NoSub => status'[canceller'] # "none"
  <2>1. CASE BeginCancel
    BY <2>1 DEF BeginCancel, subVars
  <2>2. CASE SaveCancelled
    BY <2>2 DEF SaveCancelled
  <2>3. CASE UNCHANGED canceller
    <3>1. canceller # NoSub => canceller \in Sub /\ status[canceller] # "none"
      BY <1>0 DEF RenewalTypeOK, RowsAgree
    <3> QED
      BY <2>3, <3>1, RowsStay
  <2>4. BeginCancel \/ SaveCancelled \/ UNCHANGED canceller
    BY Writers
  <2> QED
    BY <2>1, <2>2, <2>3, <2>4
<1> QED
  BY <1>1, <1>2, <1>3, <1>4 DEF RowsAgree

\* A pod's step moves no other pod's run.
LEMMA OthersStay ==
    ASSUME RenewalTypeOK, NEW p \in Pod, NEW r \in Pod, r # p,
           PodStep(p) \/ ReadFails(p) \/ ActivateFails(p) \/ CompensationFails(p) \/ Crash(p)
    PROVE  pod'[r] = pod[r]
<1>0. pod = [q \in Pod |-> pod[q]]
  BY DEF RenewalTypeOK
<1>1. CASE Tick(p) \/ List(p) \/ EndRun(p) \/ Crash(p)
  BY <1>0, <1>1 DEF Tick, List, EndRun, Crash, Goto
<1>2. ASSUME NEW s \in Sub, NEW n \in 0 .. MaxAttempts, DebitWallet(p, s, n) \/ DebitFails(p, s, n)
      PROVE  pod'[r] = pod[r]
  BY <1>0, <1>2 DEF DebitWallet, DebitFails
<1>3. CASE ReadLive(p)
  BY <1>0, <1>3 DEF ReadLive, Goto
<1>4. CASE ExpireOld(p) \/ ActivateFails(p)
  BY <1>0, <1>4 DEF ExpireOld, ActivateFails, Goto
<1>5. ASSUME NEW t \in Sub, Create(p, t)
      PROVE  pod'[r] = pod[r]
  BY <1>0, <1>5 DEF Create, Goto
<1>6. CASE Compensate(p) \/ CompensationFails(p) \/ ResetState(p)
  BY <1>0, <1>6 DEF Compensate, CompensationFails, ResetState
<1>7. CASE ReadFails(p)
  BY <1>0, <1>7 DEF ReadFails, Goto
<1> QED
  BY <1>1, <1>2, <1>3, <1>4, <1>5, <1>6, <1>7 DEF PodStep

LEMMA RunsStep ==
    ASSUME RenewalIInv, [Next]_vars, NEW r \in Pod
    PROVE  RunHolds(r)'
<1> USE RenewalAssumption DEF RenewalIInv
<1>0. RenewalTypeOK /\ RunHolds(r) /\ RowsAgree
  OBVIOUS
<1>1. ASSUME pod'[r] = pod[r]
      PROVE  RunHolds(r)'
  <2>1. pod[r].pc = "expire" => pod[r].old \in Sub /\ status'[pod[r].old] # "none"
    BY <1>0, RowsStay DEF RunHolds
  <2> QED
    BY <1>0, <1>1, <2>1 DEF RunHolds
<1>2. CASE Tick(r) \/ EndRun(r) \/ Crash(r)
  BY <1>0, <1>2 DEF Tick, EndRun, Crash, Goto, RunHolds, Free, AtWork, RenewalTypeOK
<1>3. CASE List(r)
  <2>1. pod[r] \in Running
    BY <1>0, <1>3, PodFields DEF List
  <2>2. pod'[r].pc = "next" /\ pod'[r].todo = {<<s, attempts[s]>> : s \in Due}
    BY <1>0, <1>3, <2>1 DEF List, RenewalTypeOK, Running
  <2>3. \A row \in {<<s, attempts[s]>> : s \in Due} : row[1] \in AutoRenew /\ row[2] < MaxAttempts
    BY DEF Due
  <2> QED
    BY <2>2, <2>3 DEF RunHolds, AtWork
<1>4. ASSUME NEW s \in Sub, NEW n \in 0 .. MaxAttempts, DebitWallet(r, s, n)
      PROVE  RunHolds(r)'
  <2>1. pod[r] \in Running /\ s \in AutoRenew
    <3>1. <<s, n>>[1] \in AutoRenew
      BY <1>0, <1>4 DEF DebitWallet, RunHolds
    <3> QED
      BY <1>0, <1>4, <3>1, PodFields DEF DebitWallet
  <2>2. pod'[r].pc = "activate" /\ pod'[r].sub = s /\ pod'[r].todo = pod[r].todo \ {<<s, n>>}
    BY <1>0, <1>4, <2>1 DEF DebitWallet, RenewalTypeOK, Running
  <2> QED
    BY <1>0, <2>1, <2>2 DEF RunHolds
<1>5. CASE ReadLive(r)
  <2>1. pod[r] \in Running /\ pod[r].sub \in AutoRenew
    BY <1>0, <1>5, PodFields DEF ReadLive, RunHolds, AtWork
  <2>2. /\ pod'[r].sub = pod[r].sub /\ pod'[r].todo = pod[r].todo
        /\ pod'[r].pc = "create" \/ (pod'[r].pc = "expire" /\ pod'[r].old \in LiveOf(Owner[pod[r].sub]))
    BY <1>0, <1>5, <2>1 DEF ReadLive, Goto, RenewalTypeOK, Running
  <2>3. status' = status
    BY <1>5 DEF ReadLive, subVars
  <2> QED
    BY <1>0, <2>1, <2>2, <2>3 DEF RunHolds, LiveOf
<1>6. CASE ExpireOld(r) \/ ActivateFails(r)
  <2>1. pod[r] \in Running /\ pod[r].sub \in AutoRenew
    BY <1>0, <1>6, PodFields DEF ExpireOld, ActivateFails, RunHolds, AtWork
  <2>2. pod'[r].sub = pod[r].sub /\ pod'[r].todo = pod[r].todo /\ pod'[r].pc \in {"create", "refund"}
    BY <1>0, <1>6, <2>1 DEF ExpireOld, ActivateFails, Goto, RenewalTypeOK, Running
  <2> QED
    BY <1>0, <2>1, <2>2 DEF RunHolds
<1>7. ASSUME NEW t \in Sub, Create(r, t)
      PROVE  RunHolds(r)'
  <2>1. pod[r] \in Running /\ pod[r].sub \in AutoRenew
    BY <1>7, CreateRenews
  <2>2. pod'[r].sub = pod[r].sub /\ pod'[r].todo = pod[r].todo /\ pod'[r].pc \in {"reset", "refund"}
    BY <1>0, <1>7, <2>1 DEF Create, Goto, RenewalTypeOK, Running
  <2> QED
    BY <1>0, <2>1, <2>2 DEF RunHolds
<1>8. CASE Compensate(r) \/ CompensationFails(r) \/ ResetState(r)
  <2>1. pod[r] \in Running
    BY <1>0, <1>8, PodFields DEF Compensate, CompensationFails, ResetState
  <2>2. pod'[r].pc = "next" /\ pod'[r].todo = pod[r].todo
    BY <1>0, <1>8, <2>1 DEF Compensate, CompensationFails, ResetState, RenewalTypeOK, Running
  <2> QED
    BY <1>0, <2>2 DEF RunHolds, AtWork
<1>9. CASE ReadFails(r) \/ \E s \in Sub, n \in 0 .. MaxAttempts : DebitFails(r, s, n)
  <2>1. pod[r] \in Running
    BY <1>0, <1>9, PodFields DEF ReadFails, DebitFails
  <2>2. \/ pod' = [pod EXCEPT ![r].pc = "next"]
        \/ pod[r].pc = "next" /\ \E row \in pod[r].todo : pod' = [pod EXCEPT ![r].todo = @ \ {row}]
    BY <1>9 DEF ReadFails, DebitFails, Goto
  <2>3. pod'[r].pc = "next" /\ pod'[r].todo \subseteq pod[r].todo
    BY <1>0, <2>1, <2>2 DEF RenewalTypeOK, Running
  <2> QED
    BY <1>0, <2>3 DEF RunHolds, AtWork
<1>10. ASSUME NEW p \in Pod \ {r},
              PodStep(p) \/ ReadFails(p) \/ ActivateFails(p) \/ CompensationFails(p) \/ Crash(p)
       PROVE  RunHolds(r)'
  <2>1. pod'[r] = pod[r]
    BY <1>0, <1>10, OthersStay
  <2> QED
    BY <1>1, <2>1
<1>11. CASE \/ LockExpires \/ BeginCancel \/ SaveCancelled
            \/ \E s \in Sub : WindowMoves(s) \/ BackoffEnds(s)
            \/ OtherWalletCall \/ UNCHANGED vars
  <2>1. pod' = pod
    BY <1>11 DEF LockExpires, BeginCancel, SaveCancelled, WindowMoves, BackoffEnds, OtherWalletCall,
                 vars, renewalVars
  <2> QED
    BY <1>1, <2>1
<1> QED
  BY <1>2, <1>3, <1>4, <1>5, <1>6, <1>7, <1>8, <1>9, <1>10, <1>11 DEF Next, PodStep

LEMMA RenewalIInvStep == RenewalIInv /\ [Next]_vars => RenewalIInv'
BY TypeStep, RunsStep, RowsStep DEF RenewalIInv

-----------------------------------------------------------------------------
(* The money *)

Balanced(s) ==
    Cardinality(Debits(s)) =
        Cardinality(Renewals(s)) + Cardinality(Compensations(s)) + Cardinality(Pending(s))

LEMMA EntriesFinite ==
    ASSUME WalletTypeOK, NEW a \in Account, NEW t, NEW r
    PROVE  IsFiniteSet(EntriesOf(a, t, r)) /\ Len(ledger[a]) + 1 \notin EntriesOf(a, t, r)
<1>1. PICK n \in Nat : n = Len(ledger[a])
  BY DEF WalletTypeOK
<1>2. DOMAIN ledger[a] = 1 .. n
  BY <1>1 DEF WalletTypeOK
<1>3. IsFiniteSet(1 .. n)
  BY <1>1, FS_Interval
<1>4. EntriesOf(a, t, r) \subseteq 1 .. n
  BY <1>2 DEF EntriesOf
<1> QED
  BY <1>1, <1>3, <1>4, FS_Subset

LEMMA CountsFinite ==
    ASSUME RenewalTypeOK, NEW s \in Sub
    PROVE  /\ IsFiniteSet(Debits(s)) /\ IsFiniteSet(Compensations(s))
           /\ IsFiniteSet(Renewals(s)) /\ IsFiniteSet(Pending(s))
           /\ Cardinality(Debits(s)) \in Nat /\ Cardinality(Compensations(s)) \in Nat
           /\ Cardinality(Renewals(s)) \in Nat /\ Cardinality(Pending(s)) \in Nat
<1>1. IsFiniteSet(Debits(s)) /\ IsFiniteSet(Compensations(s))
  BY EntriesFinite, RenewalAssumption DEF Debits, Compensations, RenewalTypeOK
<1>2. Renewals(s) \subseteq Sub /\ Pending(s) \subseteq Pod
  BY DEF Renewals, Pending
<1>3. IsFiniteSet(Renewals(s)) /\ IsFiniteSet(Pending(s))
  BY <1>2, RenewalAssumption, FS_Subset
<1> QED
  BY <1>1, <1>3, FS_CardinalityType

\* A pod that is no part of Pending(s) before and after a step, or before and
\* after, does not change it.
LEMMA PendingKept ==
    ASSUME RenewalTypeOK, NEW p \in Pod, \A q \in Pod \ {p} : pod'[q] = pod[q],
           \/ pod[p].pc \notin AtWork /\ pod'[p].pc \notin AtWork
           \/ pod[p].pc \in AtWork /\ pod'[p].pc \in AtWork /\ pod'[p].sub = pod[p].sub
    PROVE  \A s \in Sub : Pending(s)' = Pending(s)
BY DEF Pending, AtWork

\* A step that writes no entry for a renewal leaves the entries of all of them.
EntriesKept ==
    \A s \in Sub : Debits(s)' = Debits(s) /\ Compensations(s)' = Compensations(s)

LEMMA OthersKeepEntries ==
    ASSUME RenewalTypeOK, OtherWalletCall \/ UNCHANGED walletVars
    PROVE  EntriesKept
<1>0. WalletTypeOK
  BY DEF RenewalTypeOK
<1>1. ASSUME NEW a \in Account, NEW e \in Entry, e.ref = NoRef,
             ledger' = [ledger EXCEPT ![a] = Append(@, e)]
      PROVE  EntriesKept
  <2> SUFFICES ASSUME NEW s \in Sub
               PROVE  /\ EntriesOf(Owner[s], "debit", s)' = EntriesOf(Owner[s], "debit", s)
                      /\ EntriesOf(Owner[s], "refund", s)' = EntriesOf(Owner[s], "refund", s)
    BY DEF EntriesKept, Debits, Compensations
  <2>1. PICK b \in Account : b = Owner[s]
    BY RenewalAssumption
  <2>2. e.ref # s
    BY <1>1, RenewalAssumption, WalletAssumption
  <2>3. ledger' = [ledger EXCEPT ![a] = Append(@, e)]
    BY <1>1
  <2>4. /\ b # a \/ e.type # "debit" \/ e.ref # s =>
              EntriesOf(b, "debit", s)' = EntriesOf(b, "debit", s)
        /\ \A i \in EntriesOf(b, "debit", s) : ledger'[b][i] = ledger[b][i]
    BY <1>0, <2>3, AppendedEntries DEF EntriesOf
  <2>5. /\ b # a \/ e.type # "refund" \/ e.ref # s =>
              EntriesOf(b, "refund", s)' = EntriesOf(b, "refund", s)
        /\ \A i \in EntriesOf(b, "refund", s) : ledger'[b][i] = ledger[b][i]
    BY <1>0, <2>3, AppendedEntries DEF EntriesOf
  <2> QED
    BY <2>1, <2>2, <2>4, <2>5
<1> USE RenewalAssumption, WalletAssumption
<1>2. ASSUME UNCHANGED ledger
      PROVE  EntriesKept
  BY <1>2 DEF EntriesKept, Debits, Compensations, EntriesOf
<1>3. ASSUME NEW a \in Account, Credit(a, "credit", Price, NoRef)
      PROVE  EntriesKept
  <2>1. NewEntry(a, "credit", Price, NoRef) \in Entry
    BY <1>0, NewEntryType DEF TxType, CreditType
  <2>2. NewEntry(a, "credit", Price, NoRef).ref = NoRef
    BY DEF NewEntry
  <2> QED
    BY <1>1, <1>3, <2>1, <2>2 DEF Credit
<1>4. ASSUME NEW a \in Account, Debit(a, Price, NoRef)
      PROVE  EntriesKept
  <2>1. -Price \in Int /\ "debit" \in TxType
    BY DEF TxType
  <2>2. NewEntry(a, "debit", -Price, NoRef) \in Entry
    BY <1>0, <2>1, NewEntryType
  <2>3. NewEntry(a, "debit", -Price, NoRef).ref = NoRef
    BY DEF NewEntry
  <2> QED
    BY <1>1, <1>4, <2>2, <2>3 DEF Debit
<1>5. ASSUME NEW a \in Account, GetOrCreate(a)
      PROVE  UNCHANGED ledger
  BY <1>5 DEF GetOrCreate
<1> QED
  BY <1>2, <1>3, <1>4, <1>5 DEF OtherWalletCall, walletVars

\* The entry of a debit, or of a refund, of s counts for s only, and once.
LEMMA EntryCounts ==
    ASSUME RenewalTypeOK, NEW s \in Sub, NEW e \in Entry, e.ref = s, e.type \in {"debit", "refund"},
           ledger' = [ledger EXCEPT ![Owner[s]] = Append(@, e)]
    PROVE  /\ \A u \in Sub \ {s} : Debits(u)' = Debits(u) /\ Compensations(u)' = Compensations(u)
           /\ e.type = "debit" =>
                /\ Cardinality(Debits(s)') = Cardinality(Debits(s)) + 1
                /\ Compensations(s)' = Compensations(s)
           /\ e.type = "refund" =>
                /\ Cardinality(Compensations(s)') = Cardinality(Compensations(s)) + 1
                /\ Debits(s)' = Debits(s)
<1> USE RenewalAssumption
<1>0. WalletTypeOK
  BY DEF RenewalTypeOK
<1>1. PICK a \in Account : a = Owner[s]
  OBVIOUS
<1>2. ledger' = [ledger EXCEPT ![a] = Append(@, e)]
  BY <1>1
<1>3. PICK m : m = Len(ledger[a]) + 1
  OBVIOUS
<1>4. ASSUME NEW u \in Sub, NEW b \in Account, b = Owner[u], NEW t \in {"debit", "refund"}
      PROVE  /\ u # s \/ e.type # t => EntriesOf(b, t, u)' = EntriesOf(b, t, u)
             /\ u = s /\ e.type = t => EntriesOf(b, t, u)' = EntriesOf(b, t, u) \union {m}
  <2>1. /\ b # a \/ e.type # t \/ e.ref # u => EntriesOf(b, t, u)' = EntriesOf(b, t, u)
        /\ \A i \in EntriesOf(b, t, u) : ledger'[b][i] = ledger[b][i]
    BY <1>0, <1>2, AppendedEntries DEF EntriesOf
  <2>2. ASSUME b = a, e.type = t, e.ref = u
        PROVE  EntriesOf(b, t, u)' = EntriesOf(b, t, u) \union {m}
    <3>1. PICK n \in Nat : n = Len(ledger[a])
      BY <1>0 DEF WalletTypeOK
    <3>2. ledger'[a] = Append(ledger[a], e) /\ ledger[a] \in Seq(Entry)
      BY <1>0, <1>2 DEF WalletTypeOK
    <3>3. /\ DOMAIN ledger[a] = 1 .. n /\ DOMAIN ledger'[a] = 1 .. n + 1 /\ m = n + 1
          /\ ledger'[a][n + 1] = e
          /\ \A j \in 1 .. n : ledger'[a][j] = ledger[a][j]
      BY <1>3, <3>1, <3>2
    <3>4. \A j : j \in 1 .. n + 1 <=> j \in 1 .. n \/ j = n + 1
      BY <3>1
    <3>5. \A j \in 1 .. n : j # n + 1
      BY <3>1
    <3> QED
      BY <2>2, <3>3, <3>4, <3>5 DEF EntriesOf
  <2> QED
    BY <1>1, <1>3, <1>4, <2>1, <2>2
<1>5. ASSUME NEW u \in Sub \ {s}
      PROVE  Debits(u)' = Debits(u) /\ Compensations(u)' = Compensations(u)
  <2>1. PICK b \in Account : b = Owner[u]
    OBVIOUS
  <2>2. EntriesOf(b, "debit", u)' = EntriesOf(b, "debit", u)
    BY <1>4, <2>1
  <2>3. EntriesOf(b, "refund", u)' = EntriesOf(b, "refund", u)
    BY <1>4, <2>1
  <2> QED
    BY <2>1, <2>2, <2>3 DEF Debits, Compensations
<1>6. \A t \in {"debit", "refund"} : IsFiniteSet(EntriesOf(a, t, s)) /\ m \notin EntriesOf(a, t, s)
  BY <1>0, <1>3, EntriesFinite
<1>7. CASE e.type = "debit"
  <2>1. EntriesOf(a, "debit", s)' = EntriesOf(a, "debit", s) \union {m}
    BY <1>1, <1>4, <1>7
  <2>2. EntriesOf(a, "refund", s)' = EntriesOf(a, "refund", s)
    BY <1>1, <1>4, <1>7
  <2>3. Debits(s)' = Debits(s) \union {m} /\ Compensations(s)' = Compensations(s)
    BY <1>1, <2>1, <2>2 DEF Debits, Compensations
  <2>4. IsFiniteSet(Debits(s)) /\ m \notin Debits(s)
    BY <1>1, <1>6 DEF Debits
  <2>5. Cardinality(Debits(s) \union {m}) = Cardinality(Debits(s)) + 1
    BY <2>4, FS_AddElement
  <2> QED
    BY <1>5, <1>7, <2>3, <2>5
<1>8. CASE e.type = "refund"
  <2>1. EntriesOf(a, "refund", s)' = EntriesOf(a, "refund", s) \union {m}
    BY <1>1, <1>4, <1>8
  <2>2. EntriesOf(a, "debit", s)' = EntriesOf(a, "debit", s)
    BY <1>1, <1>4, <1>8
  <2>3. Compensations(s)' = Compensations(s) \union {m} /\ Debits(s)' = Debits(s)
    BY <1>1, <2>1, <2>2 DEF Debits, Compensations
  <2>4. IsFiniteSet(Compensations(s)) /\ m \notin Compensations(s)
    BY <1>1, <1>6 DEF Compensations
  <2>5. Cardinality(Compensations(s) \union {m}) = Cardinality(Compensations(s)) + 1
    BY <2>4, FS_AddElement
  <2> QED
    BY <1>5, <1>8, <2>3, <2>5
<1> QED
  BY <1>7, <1>8

\* The debit and the compensation of a renewal, each an entry of it.
LEMMA DebitCounts ==
    ASSUME RenewalTypeOK, NEW p \in Pod, NEW s \in Sub, NEW n \in 0 .. MaxAttempts,
           DebitWallet(p, s, n)
    PROVE  /\ \A u \in Sub \ {s} : Debits(u)' = Debits(u) /\ Compensations(u)' = Compensations(u)
           /\ Cardinality(Debits(s)') = Cardinality(Debits(s)) + 1
           /\ Compensations(s)' = Compensations(s)
<1> USE RenewalAssumption, WalletAssumption
<1>1. -Price \in Int /\ "debit" \in TxType /\ Owner[s] \in Account /\ WalletTypeOK
  BY DEF TxType, RenewalTypeOK
<1>2. PICK e \in Entry : e = NewEntry(Owner[s], "debit", -Price, s)
  BY <1>1, NewEntryType
<1>3. e.type = "debit" /\ e.ref = s
  BY <1>2 DEF NewEntry
<1>4. ledger' = [ledger EXCEPT ![Owner[s]] = Append(@, e)]
  BY <1>2 DEF DebitWallet, Debit
<1> QED
  BY <1>3, <1>4, EntryCounts

LEMMA RefundCounts ==
    ASSUME RenewalTypeOK, NEW p \in Pod, NEW s \in Sub, s = pod[p].sub, Compensate(p)
    PROVE  /\ \A u \in Sub \ {s} : Debits(u)' = Debits(u) /\ Compensations(u)' = Compensations(u)
           /\ Cardinality(Compensations(s)') = Cardinality(Compensations(s)) + 1
           /\ Debits(s)' = Debits(s)
<1> USE RenewalAssumption, WalletAssumption
<1>1. Price \in Int /\ "refund" \in TxType /\ Owner[s] \in Account /\ WalletTypeOK
  BY DEF TxType, CreditType, RenewalTypeOK
<1>2. PICK e \in Entry : e = NewEntry(Owner[s], "refund", Price, s)
  BY <1>1, NewEntryType
<1>3. e.type = "refund" /\ e.ref = s
  BY <1>2 DEF NewEntry
<1>4. ledger' = [ledger EXCEPT ![Owner[s]] = Append(@, e)]
  BY <1>2 DEF Compensate, Credit
<1> QED
  BY <1>3, <1>4, EntryCounts

LEMMA PendingFinite ==
    ASSUME NEW s \in Sub
    PROVE  /\ IsFiniteSet(Pending(s)) /\ IsFiniteSet(Pending(s)')
           /\ Cardinality(Pending(s)) \in Nat /\ Cardinality(Pending(s)') \in Nat
<1>1. Pending(s) \subseteq Pod /\ Pending(s)' \subseteq Pod
  BY DEF Pending
<1>2. IsFiniteSet(Pending(s)) /\ IsFiniteSet(Pending(s)')
  BY <1>1, RenewalAssumption, FS_Subset
<1> QED
  BY <1>2, FS_CardinalityType

\* The run of p begins, or ends, to work on s.
LEMMA PendingChanges ==
    ASSUME RenewalTypeOK, NEW p \in Pod, \A q \in Pod \ {p} : pod'[q] = pod[q], NEW s \in Sub
    PROVE  /\ pod[p].pc \notin AtWork /\ pod'[p].pc \in AtWork /\ pod'[p].sub = s =>
                /\ Cardinality(Pending(s)') = Cardinality(Pending(s)) + 1
                /\ \A u \in Sub \ {s} : Pending(u)' = Pending(u)
           /\ pod[p].pc \in AtWork /\ pod[p].sub = s /\ pod'[p].pc \notin AtWork =>
                /\ Cardinality(Pending(s)) = Cardinality(Pending(s)') + 1
                /\ \A u \in Sub \ {s} : Pending(u)' = Pending(u)
<1>1. IsFiniteSet(Pending(s)) /\ IsFiniteSet(Pending(s)')
  BY PendingFinite
<1>2. CASE pod[p].pc \notin AtWork /\ pod'[p].pc \in AtWork /\ pod'[p].sub = s
  <2>1. Pending(s)' = Pending(s) \union {p} /\ p \notin Pending(s) /\ \A u \in Sub \ {s} : Pending(u)' = Pending(u)
    BY <1>2 DEF Pending, AtWork
  <2> QED
    BY <1>1, <1>2, <2>1, FS_AddElement
<1>3. CASE pod[p].pc \in AtWork /\ pod[p].sub = s /\ pod'[p].pc \notin AtWork
  <2>1. Pending(s) = Pending(s)' \union {p} /\ p \notin Pending(s)' /\ \A u \in Sub \ {s} : Pending(u)' = Pending(u)
    BY <1>3 DEF Pending, AtWork
  <2> QED
    BY <1>1, <1>3, <2>1, FS_AddElement
<1> QED
  BY <1>2, <1>3

LEMMA PaidStep ==
    ASSUME RenewalIInv, RenewalsArePaid, [Next]_vars
    PROVE  RenewalsArePaid'
<1> USE RenewalAssumption DEF RenewalIInv
<1>0. RenewalTypeOK /\ WalletTypeOK
  BY DEF RenewalTypeOK
<1> SUFFICES ASSUME crashes' = 0, NEW s \in Sub
             PROVE  Balanced(s)'
  BY DEF RenewalsArePaid, Balanced
<1>1. ASSUME NEW p \in Pod, CompensationFails(p) \/ Crash(p)
      PROVE  FALSE
  BY <1>0, <1>1 DEF CompensationFails, Crash, RenewalTypeOK
<1>2. crashes = 0 => Balanced(s)
  BY DEF RenewalsArePaid, Balanced
<1>3. ASSUME Balanced(s), UNCHANGED <<source>>, Debits(s)' = Debits(s), Compensations(s)' = Compensations(s),
             Pending(s)' = Pending(s)
      PROVE  Balanced(s)'
  <2>1. Renewals(s)' = Renewals(s)
    BY <1>3 DEF Renewals
  <2> QED
    BY <1>3, <2>1 DEF Balanced
<1>4. ASSUME NEW p \in Pod, NEW u \in Sub, NEW n \in 0 .. MaxAttempts, DebitWallet(p, u, n)
      PROVE  Balanced(s)'
  <2>1. pod[p] \in Running /\ pod[p].pc = "next" /\ crashes = 0 /\ source' = source
    BY <1>0, <1>4, PodFields DEF DebitWallet, subVars, counters
  <2>2. pod'[p].pc = "activate" /\ pod'[p].sub = u /\ \A q \in Pod \ {p} : pod'[q] = pod[q]
    BY <1>0, <1>4, <2>1 DEF DebitWallet, RenewalTypeOK, Running
  <2>3. /\ Cardinality(Pending(u)') = Cardinality(Pending(u)) + 1
        /\ \A v \in Sub \ {u} : Pending(v)' = Pending(v)
    BY <1>0, <2>1, <2>2, PendingChanges DEF AtWork
  <2>5. /\ \A v \in Sub \ {u} : Debits(v)' = Debits(v) /\ Compensations(v)' = Compensations(v)
        /\ Cardinality(Debits(u)') = Cardinality(Debits(u)) + 1
        /\ Compensations(u)' = Compensations(u)
    BY <1>0, <1>4, DebitCounts
  <2>6. CASE s = u
    <3>1. Renewals(s)' = Renewals(s)
      BY <2>1 DEF Renewals
    <3> QED
      BY <1>0, <1>2, <2>1, <2>3, <2>5, <2>6, <3>1, CountsFinite DEF Balanced
  <2>7. CASE s # u
    BY <1>2, <1>3, <2>1, <2>3, <2>5, <2>7
  <2> QED
    BY <2>6, <2>7
<1>5. ASSUME NEW p \in Pod, NEW t \in Sub, Create(p, t)
      PROVE  Balanced(s)'
  <2>1. crashes = 0 /\ UNCHANGED walletVars /\ pod[p] \in Running /\ pod[p].pc = "create"
        /\ pod[p].sub \in Sub /\ source[t] = NoSub
    BY <1>5, CreateRenews DEF Create, counters
  <2>2. EntriesKept
    BY <1>0, <2>1, OthersKeepEntries
  <2>3. PICK u \in Sub : u = pod[p].sub
    BY <2>1
  <2>4. CASE source' = source /\ pod' = [pod EXCEPT ![p].pc = "refund"]
    <3>1. pod'[p].pc = "refund" /\ pod'[p].sub = pod[p].sub /\ \A q \in Pod \ {p} : pod'[q] = pod[q]
      BY <1>0, <2>1, <2>4 DEF RenewalTypeOK, Running
    <3>2. Pending(s)' = Pending(s)
      BY <1>0, <2>1, <3>1, PendingKept DEF AtWork
    <3> QED
      BY <1>2, <1>3, <2>1, <2>2, <2>4, <3>2 DEF EntriesKept
  <2>5. CASE source' = [source EXCEPT ![t] = u] /\ pod' = [pod EXCEPT ![p].pc = "reset"]
    <3>1. pod'[p].pc = "reset" /\ \A q \in Pod \ {p} : pod'[q] = pod[q]
      BY <1>0, <2>1, <2>5 DEF RenewalTypeOK, Running
    <3>2. /\ Cardinality(Pending(u)) = Cardinality(Pending(u)') + 1
          /\ \A v \in Sub \ {u} : Pending(v)' = Pending(v)
      BY <1>0, <2>1, <2>3, <3>1, PendingChanges DEF AtWork
    <3>3. Renewals(u)' = Renewals(u) \union {t} /\ t \notin Renewals(u)
          /\ \A v \in Sub \ {u} : Renewals(v)' = Renewals(v)
      BY <1>0, <2>1, <2>5 DEF Renewals, RenewalTypeOK
    <3>4. IsFiniteSet(Renewals(u))
      BY <1>0, CountsFinite
    <3>5. Cardinality(Renewals(u) \union {t}) = Cardinality(Renewals(u)) + 1
      BY <3>3, <3>4, FS_AddElement
    <3>6. CASE s = u
      <4>1. Cardinality(Renewals(s)') = Cardinality(Renewals(s)) + 1
        BY <3>3, <3>5, <3>6
      <4>2. Debits(s)' = Debits(s) /\ Compensations(s)' = Compensations(s)
        BY <2>2 DEF EntriesKept
      <4>3. /\ Cardinality(Debits(s)) \in Nat /\ Cardinality(Compensations(s)) \in Nat
            /\ Cardinality(Renewals(s)) \in Nat /\ Cardinality(Pending(s)) \in Nat
        BY <1>0, CountsFinite
      <4>4. Cardinality(Pending(s)') \in Nat
        BY PendingFinite
      <4> QED
        BY <1>2, <2>1, <3>2, <3>6, <4>1, <4>2, <4>3, <4>4 DEF Balanced
    <3>7. CASE s # u
      BY <1>2, <2>1, <2>2, <3>2, <3>3, <3>7 DEF EntriesKept, Balanced
    <3> QED
      BY <3>6, <3>7
  <2> QED
    BY <1>5, <2>3, <2>4, <2>5, CreateRenews
<1>6. ASSUME NEW p \in Pod, Compensate(p)
      PROVE  Balanced(s)'
  <2>1. /\ pod[p] \in Running /\ pod[p].pc = "refund" /\ pod[p].sub \in Sub /\ crashes = 0 /\ source' = source
    BY <1>0, <1>6, PodFields DEF Compensate, RunHolds, AtWork, subVars, counters
  <2>2. PICK u \in Sub : u = pod[p].sub
    BY <2>1
  <2>3. pod'[p].pc = "next" /\ \A q \in Pod \ {p} : pod'[q] = pod[q]
    BY <1>0, <1>6, <2>1 DEF Compensate, RenewalTypeOK, Running
  <2>4. /\ Cardinality(Pending(u)) = Cardinality(Pending(u)') + 1
        /\ \A v \in Sub \ {u} : Pending(v)' = Pending(v)
    BY <1>0, <2>1, <2>2, <2>3, PendingChanges DEF AtWork
  <2>6. /\ \A v \in Sub \ {u} : Debits(v)' = Debits(v) /\ Compensations(v)' = Compensations(v)
        /\ Cardinality(Compensations(u)') = Cardinality(Compensations(u)) + 1
        /\ Debits(u)' = Debits(u)
    BY <1>0, <1>6, <2>2, RefundCounts
  <2>7. CASE s = u
    <3>1. Renewals(s)' = Renewals(s)
      BY <2>1 DEF Renewals
    <3>2. /\ Cardinality(Debits(s)) \in Nat /\ Cardinality(Compensations(s)) \in Nat
          /\ Cardinality(Renewals(s)) \in Nat /\ Cardinality(Pending(s)) \in Nat
      BY <1>0, CountsFinite
    <3>3. Cardinality(Pending(s)') \in Nat
      BY PendingFinite
    <3> QED
      BY <1>2, <2>1, <2>4, <2>6, <2>7, <3>1, <3>2, <3>3 DEF Balanced
  <2>8. CASE s # u
    BY <1>2, <1>3, <2>1, <2>4, <2>6, <2>8
  <2> QED
    BY <2>7, <2>8
<1>7. ASSUME NEW p \in Pod,
             \/ Tick(p) \/ List(p) \/ EndRun(p) \/ ResetState(p) \/ ReadFails(p)
             \/ \E u \in Sub, n \in 0 .. MaxAttempts : DebitFails(p, u, n)
             \/ ReadLive(p) \/ ExpireOld(p) \/ ActivateFails(p)
      PROVE  Balanced(s)'
  <2>1. UNCHANGED walletVars /\ source' = source /\ crashes' = crashes
    BY <1>7 DEF Tick, List, EndRun, ResetState, ReadFails, DebitFails, ReadLive, ExpireOld, ActivateFails,
                subVars, counters
  <2>2. EntriesKept
    BY <1>0, <2>1, OthersKeepEntries
  <2>3. \A q \in Pod \ {p} : pod'[q] = pod[q]
    BY <1>0, <1>7, OthersStay DEF PodStep
  <2>4. ASSUME Tick(p) \/ EndRun(p)
        PROVE  \A u \in Sub : Pending(u)' = Pending(u)
    <3>1. pod[p].pc \in {"free", "next"} /\ pod'[p].pc \in {"list", "free"}
      BY <1>0, <2>4 DEF Tick, EndRun, Goto, RenewalTypeOK, Free
    <3> QED
      BY <1>0, <2>3, <3>1, PendingKept DEF AtWork
  <2>5. ASSUME ReadLive(p) \/ ExpireOld(p) \/ ActivateFails(p)
        PROVE  \A u \in Sub : Pending(u)' = Pending(u)
    <3>1. pod[p] \in Running /\ pod[p].pc \in AtWork
      BY <1>0, <2>5, PodFields DEF ReadLive, ExpireOld, ActivateFails, AtWork
    <3>2. pod'[p].pc \in AtWork /\ pod'[p].sub = pod[p].sub
      BY <1>0, <2>5, <3>1 DEF ReadLive, ExpireOld, ActivateFails, Goto, RenewalTypeOK, Running, AtWork
    <3> QED
      BY <1>0, <2>3, <3>1, <3>2, PendingKept
  <2>6. ASSUME List(p) \/ ResetState(p)
        PROVE  \A u \in Sub : Pending(u)' = Pending(u)
    <3>1. pod[p] \in Running /\ pod[p].pc \in {"list", "reset"}
      BY <1>0, <2>6, PodFields DEF List, ResetState
    <3>2. pod'[p].pc = "next"
      BY <1>0, <2>6, <3>1 DEF List, ResetState, RenewalTypeOK, Running
    <3> QED
      BY <1>0, <2>3, <3>1, <3>2, PendingKept DEF AtWork
  <2>7. ASSUME ReadFails(p) \/ \E u \in Sub, n \in 0 .. MaxAttempts : DebitFails(p, u, n)
        PROVE  \A u \in Sub : Pending(u)' = Pending(u)
    <3>1. pod[p] \in Running /\ pod[p].pc \in {"list", "next"}
      BY <1>0, <2>7, PodFields DEF ReadFails, DebitFails
    <3>2. \/ pod' = [pod EXCEPT ![p].pc = "next"]
          \/ pod[p].pc = "next" /\ \E row \in pod[p].todo : pod' = [pod EXCEPT ![p].todo = @ \ {row}]
      BY <2>7 DEF ReadFails, DebitFails, Goto
    <3>3. pod'[p].pc = "next"
      BY <1>0, <3>1, <3>2 DEF RenewalTypeOK, Running
    <3> QED
      BY <1>0, <2>3, <3>1, <3>3, PendingKept DEF AtWork
  <2>8. \A u \in Sub : Pending(u)' = Pending(u)
    BY <1>7, <2>4, <2>5, <2>6, <2>7
  <2> QED
    BY <1>2, <1>3, <2>1, <2>2, <2>8 DEF EntriesKept
<1>8. CASE \/ LockExpires \/ BeginCancel \/ SaveCancelled
           \/ \E u \in Sub : WindowMoves(u) \/ BackoffEnds(u)
           \/ OtherWalletCall \/ UNCHANGED vars
  <2>1. UNCHANGED <<source, pod, crashes>>
    BY <1>8 DEF LockExpires, BeginCancel, SaveCancelled, WindowMoves, BackoffEnds, OtherWalletCall,
                vars, renewalVars, subVars, counters
  <2>2. OtherWalletCall \/ UNCHANGED walletVars
    BY <1>8 DEF LockExpires, BeginCancel, SaveCancelled, WindowMoves, BackoffEnds, vars
  <2>3. EntriesKept
    BY <1>0, <2>2, OthersKeepEntries
  <2>4. Pending(s)' = Pending(s)
    BY <2>1 DEF Pending
  <2> QED
    BY <1>2, <1>3, <2>1, <2>3, <2>4 DEF EntriesKept
<1> QED
  BY <1>1, <1>4, <1>5, <1>6, <1>7, <1>8 DEF Next, PodStep

LEMMA PaidInitially == Init => RenewalsArePaid
<1> SUFFICES ASSUME Init, NEW s \in Sub
             PROVE  Balanced(s)
  BY DEF RenewalsArePaid, Balanced
<1>1. Debits(s) = {} /\ Compensations(s) = {}
  <2>1. ledger[Owner[s]] = <<>>
    BY RenewalAssumption DEF Init, WalletInit
  <2> QED
    BY <2>1 DEF Debits, Compensations, EntriesOf
<1>2. Renewals(s) = {} /\ Pending(s) = {}
  BY RenewalAssumption DEF Init, Renewals, Pending, Free
<1>3. Cardinality({}) = 0
  BY FS_EmptySet
<1>4. /\ Cardinality(Debits(s)) = 0 /\ Cardinality(Compensations(s)) = 0
      /\ Cardinality(Renewals(s)) = 0 /\ Cardinality(Pending(s)) = 0
  BY <1>1, <1>2, <1>3, Zenon
<1> QED
  BY <1>4 DEF Balanced

\* On any number of pods, with any failures: attempts and backoffs stay what
\* they may be, and as long as no pod dies and no compensation fails each debit
\* of processOne has bought a subscription, been paid back, or is at work.
THEOREM RenewalsPaid == Spec => [](RenewalTypeOK /\ RenewalsArePaid)
<1>1. Init => RenewalIInv /\ RenewalsArePaid
  BY Initially, PaidInitially
<1>2. RenewalIInv /\ RenewalsArePaid /\ [Next]_vars => (RenewalIInv /\ RenewalsArePaid)'
  BY RenewalIInvStep, PaidStep
<1>3. RenewalIInv => RenewalTypeOK
  BY DEF RenewalIInv
<1> QED
  BY <1>1, <1>2, <1>3, PTL DEF Spec

\* Renewals move money only as WalletLedger does: no wallet is overdrawn by
\* them and the ledgers explain the balances.
THEOREM RenewalsImplementWallet == Spec => WalletSpec
<1>1. Init => WalletInit
  BY DEF Init
<1> QED
  BY <1>1, Initially, RenewalIInvStep, NextMovesWallet, PTL DEF Spec, WalletSpec

-----------------------------------------------------------------------------
(* The lock *)

Unrenewed(s) == \A t \in Sub : source[t] # s

\* What a run still has to do has not been done, and it will not do it twice.
Fresh(p) ==
    /\ pod[p].pc \in AtWork => Unrenewed(pod[p].sub)
    /\ \A row \in pod[p].todo :
        /\ Unrenewed(row[1])
        /\ pod[p].pc \in AtWork \union {"reset"} => row[1] # pod[p].sub
        /\ \A other \in pod[p].todo : other[1] = row[1] => other = row

OneAtATime ==
    /\ \A p \in Pod : pod[p] # Free => lock = p
    /\ \A p \in Pod : Fresh(p)
    /\ \A t, u \in Sub : source[t] = source[u] /\ source[t] # NoSub => t = u

OneAtATimeUnlessOverrun == overruns = 0 => OneAtATime

LEMMA OverrunsGrow ==
    ASSUME RenewalTypeOK, [Next]_vars, overruns' = 0
    PROVE  /\ overruns = 0
           /\ LockExpires => pod[lock] = Free
<1>1. ASSUME NEW p \in Pod,
             \/ Tick(p) \/ List(p) \/ EndRun(p) \/ ReadLive(p) \/ ExpireOld(p)
             \/ (\E t \in Sub : Create(p, t)) \/ Compensate(p) \/ ResetState(p)
      PROVE  UNCHANGED overruns
  BY <1>1 DEF Tick, List, EndRun, ReadLive, ExpireOld, Create, Compensate, ResetState, counters
<1>2. ASSUME NEW p \in Pod, NEW s \in Sub, NEW n \in 0 .. MaxAttempts, DebitWallet(p, s, n) \/ DebitFails(p, s, n)
      PROVE  UNCHANGED overruns
  BY <1>2 DEF DebitWallet, DebitFails, counters
<1>3. ASSUME NEW p \in Pod, ReadFails(p) \/ ActivateFails(p) \/ CompensationFails(p) \/ Crash(p)
      PROVE  UNCHANGED overruns
  BY <1>3 DEF ReadFails, ActivateFails, CompensationFails, Crash
<1>4. CASE LockExpires
  BY <1>4 DEF LockExpires, RenewalTypeOK
<1>5. ASSUME NEW s \in Sub, WindowMoves(s) \/ BackoffEnds(s)
      PROVE  UNCHANGED overruns
  BY <1>5 DEF WindowMoves, BackoffEnds, counters
<1>6. BeginCancel \/ SaveCancelled \/ OtherWalletCall \/ UNCHANGED vars => UNCHANGED overruns
  BY DEF BeginCancel, SaveCancelled, OtherWalletCall, vars, renewalVars, counters
<1>7. LockExpires => pod[lock] = Free
  BY DEF LockExpires, RenewalTypeOK
<1> QED
  BY <1>1, <1>2, <1>3, <1>4, <1>5, <1>6, <1>7 DEF Next, PodStep

\* Tick takes the lock when nobody runs, and only who holds it releases it.
LEMMA LockStep ==
    ASSUME RenewalIInv, OneAtATime, [Next]_vars, LockExpires => pod[lock] = Free, NEW r \in Pod, pod'[r] # Free
    PROVE  lock' = r
<1> USE RenewalAssumption DEF RenewalIInv
<1>0. RenewalTypeOK /\ \A p \in Pod : pod[p] # Free => lock = p
  BY DEF OneAtATime
<1>1. ASSUME pod[r] # Free, UNCHANGED lock
      PROVE  lock' = r
  BY <1>0, <1>1
<1>2. ASSUME NEW p \in Pod, Tick(p)
      PROVE  lock' = r
  <2>1. r # p => pod'[r] = pod[r]
    BY <1>0, <1>2 DEF Tick, Goto, RenewalTypeOK
  <2> QED
    BY <1>0, <1>2, <2>1 DEF Tick, Acquirable
<1>3. ASSUME NEW p \in Pod, EndRun(p)
      PROVE  lock' = r
  <2>1. pod'[p] = Free /\ \A q \in Pod \ {p} : pod'[q] = pod[q]
    BY <1>0, <1>3 DEF EndRun, RenewalTypeOK
  <2>2. pod[p] # Free
    BY <1>3 DEF EndRun, Free
  <2> QED
    BY <1>0, <2>1, <2>2
<1>4. CASE LockExpires
  <2>1. pod' = pod
    BY <1>4 DEF LockExpires
  <2> QED
    BY <1>0, <1>4, <2>1
<1>5. ASSUME NEW p \in Pod, Crash(p)
      PROVE  lock' = r
  <2>1. pod'[p] = Free /\ (\A q \in Pod \ {p} : pod'[q] = pod[q]) /\ UNCHANGED lock
    BY <1>0, <1>5 DEF Crash, RenewalTypeOK
  <2> QED
    BY <1>1, <2>1
<1>6. ASSUME NEW p \in Pod,
             \/ List(p) \/ ReadLive(p) \/ ExpireOld(p) \/ (\E t \in Sub : Create(p, t))
             \/ Compensate(p) \/ ResetState(p) \/ ReadFails(p) \/ ActivateFails(p) \/ CompensationFails(p)
             \/ \E s \in Sub, n \in 0 .. MaxAttempts : DebitWallet(p, s, n) \/ DebitFails(p, s, n)
      PROVE  lock' = r
  <2>1. UNCHANGED lock
    BY <1>6 DEF List, ReadLive, ExpireOld, Create, Compensate, ResetState, ReadFails, ActivateFails,
                CompensationFails, DebitWallet, DebitFails
  <2>0. \A q \in Pod \ {p} : pod'[q] = pod[q]
    BY <1>0, <1>6, OthersStay DEF PodStep
  <2>2. pod[p].pc # "free"
    BY <1>6 DEF List, ReadLive, ExpireOld, Create, Compensate, ResetState, ReadFails, ActivateFails,
                CompensationFails, DebitWallet, DebitFails
  <2>3. pod[p] # Free
    BY <2>2 DEF Free
  <2> QED
    BY <1>1, <2>0, <2>1, <2>3
<1>7. CASE \/ BeginCancel \/ SaveCancelled
           \/ \E s \in Sub : WindowMoves(s) \/ BackoffEnds(s)
           \/ OtherWalletCall \/ UNCHANGED vars
  <2>1. UNCHANGED <<lock, pod>>
    BY <1>7 DEF BeginCancel, SaveCancelled, WindowMoves, BackoffEnds, OtherWalletCall, vars, renewalVars
  <2> QED
    BY <1>1, <2>1
<1> QED
  BY <1>2, <1>3, <1>4, <1>5, <1>6, <1>7 DEF Next, PodStep

LEMMA FreshStep ==
    ASSUME RenewalIInv, OneAtATime, [Next]_vars, NEW r \in Pod
    PROVE  Fresh(r)'
<1> USE RenewalAssumption DEF RenewalIInv
<1>0. RenewalTypeOK /\ RunHolds(r) /\ RowsAgree /\ Fresh(r) /\ \A p \in Pod : pod[p] # Free => lock = p
  BY DEF OneAtATime
<1>1. ASSUME pod'[r] = Free
      PROVE  Fresh(r)'
  BY <1>1 DEF Fresh, Free, AtWork
<1>2. ASSUME pod'[r] = pod[r], UNCHANGED source
      PROVE  Fresh(r)'
  BY <1>0, <1>2 DEF Fresh, Unrenewed
<1>3. CASE Tick(r)
  BY <1>0, <1>3 DEF Tick, Goto, Fresh, Free, AtWork, RenewalTypeOK
<1>4. CASE EndRun(r) \/ Crash(r)
  BY <1>0, <1>1, <1>4 DEF EndRun, Crash, RenewalTypeOK
<1>5. CASE List(r)
  <2>1. pod[r] \in Running /\ source' = source
    BY <1>0, <1>5, PodFields DEF List, subVars
  <2>2. pod'[r].pc = "next" /\ pod'[r].todo = {<<s, attempts[s]>> : s \in Due}
    BY <1>0, <1>5, <2>1 DEF List, RenewalTypeOK, Running
  <2>3. \A s \in Due : s \in Sub /\ s # NoSub /\ status[s] = "active"
    BY DEF Due
  <2>4. \A s \in Due : Unrenewed(s)
    BY <1>0, <2>3 DEF RowsAgree, Unrenewed
  <2>5. \A row \in pod'[r].todo : \E s \in Due : row = <<s, attempts[s]>>
    BY <2>2
  <2>6. \A row \in pod'[r].todo : Unrenewed(row[1])
    BY <2>4, <2>5
  <2>7. \A row, other \in pod'[r].todo : other[1] = row[1] => other = row
    BY <2>5
  <2> QED
    BY <2>1, <2>2, <2>6, <2>7 DEF Fresh, Unrenewed, AtWork
<1>6. ASSUME NEW s \in Sub, NEW n \in 0 .. MaxAttempts, DebitWallet(r, s, n)
      PROVE  Fresh(r)'
  <2>1. pod[r] \in Running /\ source' = source /\ <<s, n>> \in pod[r].todo
    BY <1>0, <1>6, PodFields DEF DebitWallet, subVars
  <2>2. pod'[r].pc = "activate" /\ pod'[r].sub = s /\ pod'[r].todo = pod[r].todo \ {<<s, n>>}
    BY <1>0, <1>6, <2>1 DEF DebitWallet, RenewalTypeOK, Running
  <2>3. <<s, n>>[1] = s
    OBVIOUS
  <2>4. Unrenewed(s) /\ \A row \in pod[r].todo : row[1] = s => row = <<s, n>>
    BY <1>0, <2>1, <2>3 DEF Fresh
  <2>5. \A row \in pod'[r].todo : Unrenewed(row[1]) /\ row[1] # s
                                  /\ \A other \in pod'[r].todo : other[1] = row[1] => other = row
    BY <1>0, <2>2, <2>4 DEF Fresh
  <2> QED
    BY <2>1, <2>2, <2>4, <2>5 DEF Fresh, Unrenewed
<1>7. CASE ReadLive(r) \/ ExpireOld(r) \/ ActivateFails(r)
  <2>1. pod[r] \in Running /\ pod[r].pc \in AtWork /\ source' = source
    BY <1>0, <1>7, PodFields DEF ReadLive, ExpireOld, ActivateFails, AtWork, subVars
  <2>2. pod'[r].sub = pod[r].sub /\ pod'[r].todo = pod[r].todo /\ pod'[r].pc \in AtWork
    BY <1>0, <1>7, <2>1 DEF ReadLive, ExpireOld, ActivateFails, Goto, RenewalTypeOK, Running, AtWork
  <2> QED
    BY <1>0, <2>1, <2>2 DEF Fresh, Unrenewed
<1>8. ASSUME NEW t \in Sub, Create(r, t)
      PROVE  Fresh(r)'
  <2>1. pod[r] \in Running /\ pod[r].pc = "create"
    BY <1>8, CreateRenews
  <2>2. CASE source' = source /\ pod' = [pod EXCEPT ![r].pc = "refund"]
    <3>1. pod'[r].sub = pod[r].sub /\ pod'[r].todo = pod[r].todo /\ pod'[r].pc = "refund"
      BY <1>0, <2>1, <2>2 DEF RenewalTypeOK, Running
    <3> QED
      BY <1>0, <2>1, <2>2, <3>1 DEF Fresh, Unrenewed, AtWork
  <2>3. CASE source' = [source EXCEPT ![t] = pod[r].sub] /\ pod' = [pod EXCEPT ![r].pc = "reset"]
    <3>1. pod'[r].sub = pod[r].sub /\ pod'[r].todo = pod[r].todo /\ pod'[r].pc = "reset"
      BY <1>0, <2>1, <2>3 DEF RenewalTypeOK, Running
    <3>2. \A row \in pod[r].todo : row[1] # pod[r].sub /\ Unrenewed(row[1])
      BY <1>0, <2>1 DEF Fresh, AtWork
    <3>3. \A row \in pod[r].todo : \A u \in Sub : source'[u] # row[1]
      BY <1>0, <2>3, <3>2 DEF Unrenewed, RenewalTypeOK
    <3> QED
      BY <1>0, <2>1, <3>1, <3>2, <3>3 DEF Fresh, Unrenewed, AtWork
  <2> QED
    BY <1>8, <2>2, <2>3, CreateRenews
<1>9. CASE Compensate(r) \/ CompensationFails(r) \/ ResetState(r)
  <2>1. pod[r] \in Running /\ source' = source
    BY <1>0, <1>9, PodFields DEF Compensate, CompensationFails, ResetState, subVars
  <2>2. pod'[r].pc = "next" /\ pod'[r].todo = pod[r].todo
    BY <1>0, <1>9, <2>1 DEF Compensate, CompensationFails, ResetState, RenewalTypeOK, Running
  <2> QED
    BY <1>0, <2>1, <2>2 DEF Fresh, Unrenewed, AtWork
<1>10. CASE ReadFails(r) \/ \E s \in Sub, n \in 0 .. MaxAttempts : DebitFails(r, s, n)
  <2>1. pod[r] \in Running /\ source' = source
    BY <1>0, <1>10, PodFields DEF ReadFails, DebitFails, subVars
  <2>2. \/ pod' = [pod EXCEPT ![r].pc = "next"]
        \/ pod[r].pc = "next" /\ \E row \in pod[r].todo : pod' = [pod EXCEPT ![r].todo = @ \ {row}]
    BY <1>10 DEF ReadFails, DebitFails, Goto
  <2>3. pod'[r].pc = "next" /\ pod'[r].todo \subseteq pod[r].todo
    BY <1>0, <2>1, <2>2 DEF RenewalTypeOK, Running
  <2> QED
    BY <1>0, <2>1, <2>3 DEF Fresh, Unrenewed, AtWork
<1>11. ASSUME NEW p \in Pod \ {r},
              PodStep(p) \/ ReadFails(p) \/ ActivateFails(p) \/ CompensationFails(p) \/ Crash(p)
       PROVE  Fresh(r)'
  <2>1. pod'[r] = pod[r]
    BY <1>0, <1>11, OthersStay
  <2>2. CASE UNCHANGED source
    BY <1>2, <2>1, <2>2
  <2>3. ASSUME NEW t \in Sub, Create(p, t)
        PROVE  Fresh(r)'
    <3>1. pod[p] # Free
      BY <2>3 DEF Create, Free
    <3> QED
      BY <1>0, <1>1, <2>1, <3>1
  <2>4. UNCHANGED source \/ \E t \in Sub : Create(p, t)
    BY <1>11 DEF PodStep, Tick, List, EndRun, DebitWallet, DebitFails, ReadLive, ExpireOld,
         Compensate, ResetState, ReadFails, ActivateFails, CompensationFails, Crash, subVars
  <2> QED
    BY <2>2, <2>3, <2>4
<1>12. CASE \/ LockExpires \/ BeginCancel \/ SaveCancelled
            \/ \E s \in Sub : WindowMoves(s) \/ BackoffEnds(s)
            \/ OtherWalletCall \/ UNCHANGED vars
  <2>1. UNCHANGED <<pod, source>>
    BY <1>12 DEF LockExpires, BeginCancel, SaveCancelled, WindowMoves, BackoffEnds, OtherWalletCall,
                 vars, renewalVars, subVars
  <2> QED
    BY <1>2, <2>1
<1> QED
  BY <1>3, <1>4, <1>5, <1>6, <1>7, <1>8, <1>9, <1>10, <1>11, <1>12 DEF Next, PodStep

LEMMA OnceStep ==
    ASSUME RenewalIInv, OneAtATime, [Next]_vars,
           NEW t \in Sub, NEW u \in Sub, source'[t] = source'[u], source'[t] # NoSub
    PROVE  t = u
<1> USE RenewalAssumption DEF RenewalIInv
<1>0. RenewalTypeOK /\ (\A v, w \in Sub : source[v] = source[w] /\ source[v] # NoSub => v = w)
      /\ \A p \in Pod : Fresh(p)
  BY DEF OneAtATime
<1>1. CASE UNCHANGED source
  BY <1>0, <1>1
<1>2. ASSUME NEW p \in Pod, NEW v \in Sub, Create(p, v)
      PROVE  t = u
  <2>1. Unrenewed(pod[p].sub)
    BY <1>0, <1>2, CreateRenews DEF Fresh, AtWork
  <2>2. source' = source \/ source' = [source EXCEPT ![v] = pod[p].sub]
    BY <1>2, CreateRenews
  <2> QED
    BY <1>0, <2>1, <2>2 DEF Unrenewed, RenewalTypeOK
<1>3. UNCHANGED source \/ \E p \in Pod, v \in Sub : Create(p, v)
  BY Writers DEF ExpireOld, SaveCancelled
<1> QED
  BY <1>1, <1>2, <1>3

\* No subscription is renewed twice, whatever fails or dies, as long as no run
\* outlives its lock (acquireLock, ListDueForRenewal): the run alone works on
\* what it has listed, and what was renewed is not active any more.
THEOREM RenewedAtMostOnce == Spec => []RenewedOnce
<1>1. Init => OneAtATimeUnlessOverrun
  <2> SUFFICES ASSUME Init
               PROVE  OneAtATime
    BY DEF OneAtATimeUnlessOverrun
  <2> QED
    BY DEF Init, OneAtATime, Fresh, Free, AtWork
<1>2. RenewalIInv /\ OneAtATimeUnlessOverrun /\ [Next]_vars => OneAtATimeUnlessOverrun'
  <2> SUFFICES ASSUME RenewalIInv, OneAtATimeUnlessOverrun, [Next]_vars, overruns' = 0
               PROVE  OneAtATime'
    BY DEF OneAtATimeUnlessOverrun
  <2>1. OneAtATime /\ (LockExpires => pod[lock] = Free)
    BY OverrunsGrow DEF OneAtATimeUnlessOverrun, RenewalIInv
  <2>2. \A p \in Pod : pod'[p] # Free => lock' = p
    BY <2>1, LockStep
  <2>3. \A p \in Pod : Fresh(p)'
    BY <2>1, FreshStep
  <2>4. \A t, u \in Sub : source'[t] = source'[u] /\ source'[t] # NoSub => t = u
    BY <2>1, OnceStep
  <2> QED
    BY <2>2, <2>3, <2>4 DEF OneAtATime, Free
<1>3. RenewalIInv /\ OneAtATimeUnlessOverrun => RenewedOnce
  <2> SUFFICES ASSUME RenewalIInv, OneAtATime, NEW s \in Sub
               PROVE  Cardinality(Renewals(s)) <= 1
    BY DEF OneAtATimeUnlessOverrun, RenewedOnce
  <2>1. \A t, u \in Renewals(s) : t = u
    BY RenewalAssumption DEF Renewals, OneAtATime
  <2>2. CASE Renewals(s) = {}
    <3>1. Cardinality({}) = 0
      BY FS_EmptySet
    <3>2. Cardinality(Renewals(s)) = 0
      BY <2>2, <3>1, Zenon
    <3> QED
      BY <3>2
  <2>3. ASSUME NEW t \in Renewals(s)
        PROVE  Cardinality(Renewals(s)) <= 1
    <3>1. Renewals(s) = {t}
      BY <2>1, <2>3
    <3>2. Cardinality({t}) = 1
      BY FS_Singleton
    <3>3. Cardinality(Renewals(s)) = 1
      BY <3>1, <3>2, Zenon
    <3> QED
      BY <3>3
  <2> QED
    BY <2>2, <2>3
<1> QED
  BY <1>1, <1>2, <1>3, Initially, RenewalIInvStep, PTL DEF Spec

\* The two together, the invariant of the run: renewals are paid for, once.
THEOREM RenewalsCorrect == Spec => []RenewalInv
BY RenewalsPaid, RenewedAtMostOnce, PTL DEF RenewalInv

-----------------------------------------------------------------------------
(* What has ended *)

\* A row that has expired or was cancelled stays one of those.
LEMMA EndedStays ==
    ASSUME RenewalIInv, [Next]_vars, NEW s \in Sub, status[s] \in {"expired", "cancelled"}
    PROVE  status'[s] \in {"expired", "cancelled"}
<1> USE RenewalAssumption DEF RenewalIInv
<1>0. RenewalTypeOK
  OBVIOUS
<1>1. ASSUME NEW p \in Pod, NEW t \in Sub, Create(p, t)
      PROVE  status'[s] = status[s]
  BY <1>0, <1>1 DEF Create, RenewalTypeOK
<1>2. ASSUME NEW p \in Pod, ExpireOld(p)
      PROVE  status'[s] \in {"expired", "cancelled"}
  BY <1>0, <1>2 DEF ExpireOld, RenewalTypeOK
<1>3. CASE SaveCancelled
  BY <1>0, <1>3 DEF SaveCancelled, RenewalTypeOK
<1> QED
  BY <1>1, <1>2, <1>3, Writers

\* ListDueForRenewal asks for active rows, so no run lists one that has ended.
LEMMA ListingsShrink ==
    ASSUME RenewalIInv, [Next]_vars, NEW s \in Sub, status[s] \in {"expired", "cancelled"},
           NEW r \in Pod, NEW n \in 0 .. MaxAttempts, <<s, n>> \in pod'[r].todo
    PROVE  <<s, n>> \in pod[r].todo
<1> USE RenewalAssumption DEF RenewalIInv
<1>0. RenewalTypeOK
  OBVIOUS
<1>1. pod'[r].todo \subseteq pod[r].todo => <<s, n>> \in pod[r].todo
  OBVIOUS
<1>2. CASE pod'[r] = pod[r]
  BY <1>2
<1>3. CASE Tick(r)
  <2>1. pod'[r].todo = pod[r].todo
    BY <1>0, <1>3 DEF Tick, Goto, Free, RenewalTypeOK
  <2> QED
    BY <1>1, <2>1
<1>4. CASE EndRun(r) \/ Crash(r)
  <2>1. pod'[r].todo = {}
    BY <1>0, <1>4 DEF EndRun, Crash, Free, RenewalTypeOK
  <2> QED
    BY <2>1
<1>5. CASE List(r)
  <2>1. pod[r] \in Running
    BY <1>0, <1>5, PodFields DEF List
  <2>2. pod'[r].todo = {<<t, attempts[t]>> : t \in Due}
    BY <1>0, <1>5, <2>1 DEF List, RenewalTypeOK, Running
  <2>3. s \in Due
    BY <2>2
  <2> QED
    BY <2>3 DEF Due
<1>6. ASSUME NEW t \in Sub, NEW m \in 0 .. MaxAttempts, DebitWallet(r, t, m) \/ DebitFails(r, t, m)
      PROVE  <<s, n>> \in pod[r].todo
  <2>1. pod[r] \in Running
    BY <1>0, <1>6, PodFields DEF DebitWallet, DebitFails
  <2>2. pod'[r].todo = pod[r].todo \ {<<t, m>>}
    BY <1>0, <1>6, <2>1 DEF DebitWallet, DebitFails, RenewalTypeOK, Running
  <2> QED
    BY <1>1, <2>2
<1>7. CASE ReadLive(r) \/ ExpireOld(r) \/ ActivateFails(r)
  <2>1. pod[r] \in Running
    BY <1>0, <1>7, PodFields DEF ReadLive, ExpireOld, ActivateFails
  <2>2. pod'[r].todo = pod[r].todo
    BY <1>0, <1>7, <2>1 DEF ReadLive, ExpireOld, ActivateFails, Goto, RenewalTypeOK, Running
  <2> QED
    BY <1>1, <2>2
<1>8. ASSUME NEW t \in Sub, Create(r, t)
      PROVE  <<s, n>> \in pod[r].todo
  <2>1. pod[r] \in Running
    BY <1>0, <1>8, PodFields DEF Create
  <2>2. pod'[r].todo = pod[r].todo
    BY <1>0, <1>8, <2>1 DEF Create, Goto, RenewalTypeOK, Running
  <2> QED
    BY <1>1, <2>2
<1>9. CASE Compensate(r) \/ CompensationFails(r) \/ ResetState(r)
  <2>1. pod[r] \in Running
    BY <1>0, <1>9, PodFields DEF Compensate, CompensationFails, ResetState
  <2>2. pod'[r].todo = pod[r].todo
    BY <1>0, <1>9, <2>1 DEF Compensate, CompensationFails, ResetState, RenewalTypeOK, Running
  <2> QED
    BY <1>1, <2>2
<1>10. CASE ReadFails(r)
  <2>1. pod[r] \in Running
    BY <1>0, <1>10, PodFields DEF ReadFails
  <2>2. \/ pod' = [pod EXCEPT ![r].pc = "next"]
        \/ \E row \in pod[r].todo : pod' = [pod EXCEPT ![r].todo = @ \ {row}]
    BY <1>10 DEF ReadFails, Goto
  <2>3. pod'[r].todo \subseteq pod[r].todo
    BY <1>0, <2>1, <2>2 DEF RenewalTypeOK, Running
  <2> QED
    BY <1>1, <2>3
<1>11. ASSUME NEW p \in Pod \ {r},
              PodStep(p) \/ ReadFails(p) \/ ActivateFails(p) \/ CompensationFails(p) \/ Crash(p)
       PROVE  <<s, n>> \in pod[r].todo
  BY <1>0, <1>2, <1>11, OthersStay
<1>12. CASE \/ LockExpires \/ BeginCancel \/ SaveCancelled
            \/ \E t \in Sub : WindowMoves(t) \/ BackoffEnds(t)
            \/ OtherWalletCall \/ UNCHANGED vars
  <2>1. UNCHANGED pod
    BY <1>12 DEF LockExpires, BeginCancel, SaveCancelled, WindowMoves, BackoffEnds, OtherWalletCall,
                 vars, renewalVars
  <2> QED
    BY <1>2, <2>1
<1>13. ASSUME PodStep(r) \/ ReadFails(r) \/ ActivateFails(r) \/ CompensationFails(r) \/ Crash(r)
       PROVE  <<s, n>> \in pod[r].todo
  BY ZenonT(60), <1>3, <1>4, <1>5, <1>6, <1>7, <1>8, <1>9, <1>10, <1>13 DEF PodStep
<1>14. \/ \E p \in Pod :
             PodStep(p) \/ ReadFails(p) \/ ActivateFails(p) \/ CompensationFails(p) \/ Crash(p)
       \/ LockExpires \/ BeginCancel \/ SaveCancelled
       \/ \E t \in Sub : WindowMoves(t) \/ BackoffEnds(t)
       \/ OtherWalletCall \/ UNCHANGED vars
  BY DEF Next
<1> QED
  BY <1>11, <1>12, <1>13, <1>14

LEMMA ListingsFinite ==
    ASSUME NEW s \in Sub
    PROVE  IsFiniteSet(Listings(s)) /\ Cardinality(Listings(s)) \in Nat
<1>1. IsFiniteSet(0 .. MaxAttempts)
  BY RenewalAssumption, FS_Interval
<1>2. IsFiniteSet(Pod \X (0 .. MaxAttempts))
  BY <1>1, RenewalAssumption, FS_Product
<1>3. Listings(s) \subseteq Pod \X (0 .. MaxAttempts)
  BY DEF Listings
<1> QED
  BY <1>2, <1>3, FS_Subset, FS_CardinalityType

\* The debits of s come from the lists alone.
LEMMA Debitors ==
    ASSUME RenewalIInv, [Next]_vars, NEW s \in Sub
    PROVE  Debits(s)' = Debits(s) \/ \E p \in Pod, n \in 0 .. MaxAttempts : DebitWallet(p, s, n)
<1> USE RenewalAssumption DEF RenewalIInv
<1>0. RenewalTypeOK
  OBVIOUS
<1>1. ASSUME NEW p \in Pod, NEW u \in Sub \ {s}, NEW n \in 0 .. MaxAttempts, DebitWallet(p, u, n)
      PROVE  Debits(s)' = Debits(s)
  BY <1>0, <1>1, DebitCounts
<1>2. ASSUME NEW p \in Pod, Compensate(p)
      PROVE  Debits(s)' = Debits(s)
  <2>1. PICK u \in Sub : u = pod[p].sub
    BY <1>2 DEF Compensate, RunHolds, AtWork
  <2> QED
    BY <1>0, <1>2, <2>1, RefundCounts
<1>3. ASSUME NEW p \in Pod,
             \/ Tick(p) \/ List(p) \/ EndRun(p)
             \/ \E u \in Sub, n \in 0 .. MaxAttempts : DebitFails(p, u, n)
             \/ ReadLive(p) \/ ExpireOld(p) \/ (\E t \in Sub : Create(p, t)) \/ ResetState(p)
             \/ ReadFails(p) \/ ActivateFails(p) \/ CompensationFails(p) \/ Crash(p)
      PROVE  UNCHANGED walletVars
  BY <1>3 DEF Tick, List, EndRun, DebitFails, ReadLive, ExpireOld, Create, ResetState,
              ReadFails, ActivateFails, CompensationFails, Crash
<1>4. ASSUME LockExpires \/ BeginCancel \/ SaveCancelled \/ \E u \in Sub : WindowMoves(u) \/ BackoffEnds(u)
      PROVE  UNCHANGED walletVars
  BY <1>4 DEF LockExpires, BeginCancel, SaveCancelled, WindowMoves, BackoffEnds
<1>5. ASSUME OtherWalletCall \/ UNCHANGED walletVars
      PROVE  Debits(s)' = Debits(s)
  BY <1>0, <1>5, OthersKeepEntries DEF EntriesKept
<1>6. UNCHANGED vars => UNCHANGED walletVars
  BY DEF vars
<1>7. \/ \E p \in Pod, u \in Sub, n \in 0 .. MaxAttempts : DebitWallet(p, u, n)
      \/ \E p \in Pod : Compensate(p)
      \/ OtherWalletCall \/ UNCHANGED walletVars
  BY ZenonT(60), <1>3, <1>4, <1>6 DEF Next, PodStep
<1> QED
  BY <1>1, <1>2, <1>5, <1>7

\* A run goes on with the list it read, but what has ended since is charged at
\* most once for each list it was on, and no later run lists it.
THEOREM EndedStaysOffTheLists == Spec => EndedIsNotListed
<1> DEFINE NotListed ==
        \A s \in Sub :
            status[s] \in {"expired", "cancelled"} =>
                /\ status'[s] \in {"expired", "cancelled"}
                /\ Cardinality(Debits(s)') + Cardinality(Listings(s)')
                     <= Cardinality(Debits(s)) + Cardinality(Listings(s))
<1>1. RenewalIInv /\ [Next]_vars => [NotListed]_vars
  <2> SUFFICES ASSUME RenewalIInv, RenewalIInv', [Next]_vars, NEW s \in Sub,
                      status[s] \in {"expired", "cancelled"}
               PROVE  Cardinality(Debits(s)') + Cardinality(Listings(s)')
                        <= Cardinality(Debits(s)) + Cardinality(Listings(s))
    BY EndedStays, RenewalIInvStep
  <2>1. Listings(s)' \subseteq Listings(s)
    BY ListingsShrink DEF Listings
  <2>2. /\ IsFiniteSet(Listings(s)) /\ Cardinality(Listings(s)) \in Nat
        /\ Cardinality(Debits(s)) \in Nat
    BY ListingsFinite, CountsFinite DEF RenewalIInv
  <2>3. CASE Debits(s)' = Debits(s)
    <3>1. Cardinality(Listings(s)') \in Nat /\ Cardinality(Listings(s)') <= Cardinality(Listings(s))
      BY <2>1, <2>2, FS_Subset, FS_CardinalityType
    <3> QED
      BY <2>2, <2>3, <3>1
  <2>4. ASSUME NEW p \in Pod, NEW n \in 0 .. MaxAttempts, DebitWallet(p, s, n)
        PROVE  Cardinality(Debits(s)') + Cardinality(Listings(s)')
                 <= Cardinality(Debits(s)) + Cardinality(Listings(s))
    <3>1. pod[p] \in Running /\ <<s, n>> \in pod[p].todo
      BY <2>4, PodFields DEF DebitWallet, RenewalIInv
    <3>2. pod'[p].todo = pod[p].todo \ {<<s, n>>}
      BY <2>4, <3>1 DEF DebitWallet, RenewalIInv, RenewalTypeOK, Running
    <3>3. <<p, n>> \in Listings(s) /\ <<p, n>> \notin Listings(s)'
      BY <3>1, <3>2 DEF Listings
    <3>4. Listings(s)' \subseteq Listings(s) \ {<<p, n>>}
      BY <2>1, <3>3
    <3>5. /\ IsFiniteSet(Listings(s) \ {<<p, n>>})
          /\ Cardinality(Listings(s) \ {<<p, n>>}) = Cardinality(Listings(s)) - 1
      BY <2>2, <3>3, FS_RemoveElement
    <3>6. /\ Cardinality(Listings(s)') \in Nat
          /\ Cardinality(Listings(s)') <= Cardinality(Listings(s)) - 1
      BY <3>4, <3>5, FS_Subset, FS_CardinalityType
    <3>7. Cardinality(Debits(s)') = Cardinality(Debits(s)) + 1
      BY <2>4, DebitCounts DEF RenewalIInv
    <3> QED
      BY <2>2, <3>6, <3>7
  <2> QED
    BY <2>3, <2>4, Debitors
<1> QED
  BY <1>1, Initially, RenewalIInvStep, PTL DEF Spec, EndedIsNotListed
=============================================================================
