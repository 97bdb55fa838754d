------------------------- MODULE SubscriptionsProofs -------------------------
(***************************************************************************)
(* What holds of Subscriptions for any number of subscriptions, calls and  *)
(* expiry runs: at most one is live, and what the database serves never    *)
(* outlives the term that was paid for; only the job revives an ended one, *)
(* and calls alone leave an active one with its entitlements.  And what    *)
(* holds of BillingCycle for every year: the terms calculateExpiry gives.  *)
(***************************************************************************)
EXTENDS Subscriptions, BillingCycle, TLAPS

\* A call on its way to an INSERT knows the plan it was asked for, also while it
\* still has an old subscription to end.
PlansHeld ==
    \A q \in Request :
        request[q].pc \in {"expire", "create"} => request[q].plan \in Plan

NoneWithoutPlan == \A s \in Sub : (status[s] = "none") = (subPlan[s] = NoPlan)
PastHasTerm == past \subseteq {s \in Sub \ Unused : subPlan[s] \notin Endless}

\* The inductive invariant; PaidWithinTerm follows from its parts.
SubsIInv ==
    /\ SubscriptionsTypeOK
    /\ OneLive
    /\ NoneWithoutPlan
    /\ PastHasTerm
    /\ PlansHeld
    /\ RequestsHoldRows
    /\ RunsHoldRows
    /\ RowsEndWithTerm

-----------------------------------------------------------------------------
(* The rows *)

LEMMA RowFields ==
    /\ FreeRow \in Row
    /\ NoRow \notin Row
    /\ \A row \in Row : row.sub \in Sub \union {NoSub} /\ row.until \in Sub \union {NoSub}
    /\ \A s, t \in Sub \union {NoSub} : [sub |-> s, until |-> t] \in Row
BY SubscriptionAssumption DEF Row, FreeRow

\* An upsert leaves a row, whose value is that of s, and whose end is the one it
\* was given unless that is none.
LEMMA UpsertRow ==
    ASSUME NEW row \in Row \union {NoRow},
           NEW s \in Sub \union {NoSub}, NEW until \in Sub \union {NoSub}
    PROVE  /\ Upsert(row, s, until) \in Row
           /\ Upsert(row, s, until) # NoRow
           /\ Upsert(row, s, until).sub = s
           /\ until # NoSub => Upsert(row, s, until).until = until
<1>1. Upsert(row, s, until) \in Row
  <2>1. CASE row = NoRow \/ until # NoSub
    BY <2>1, RowFields DEF Upsert
  <2>2. CASE row # NoRow /\ until = NoSub
    BY <2>2, RowFields DEF Upsert
  <2> QED
    BY <2>1, <2>2
<1> QED
  BY <1>1, RowFields DEF Upsert

LEMMA WrittenRows ==
    ASSUME rows \in [Key -> Row \union {NoRow}],
           NEW pc, NEW k \in Key, NEW s \in Sub \union {NoSub}, NEW until \in Sub \union {NoSub}
    PROVE  /\ Written(pc, k, s, until) \in [Key -> Row \union {NoRow}]
           /\ \A j \in Key : Written(pc, k, s, until)[j] = rows[j]
                \/ /\ j = k /\ Written(pc, k, s, until)[j] \in Row
                   /\ Written(pc, k, s, until)[j].sub = s
                   /\ until # NoSub => Written(pc, k, s, until)[j].until = until
           /\ \A j \in Key : rows[j] # NoRow => Written(pc, k, s, until)[j] # NoRow
<1>1. CASE pc = "miss"
  BY <1>1 DEF Written
<1>2. CASE pc # "miss"
  <2>1. Written(pc, k, s, until) = [rows EXCEPT ![k] = Upsert(rows[k], s, until)]
    BY <1>2 DEF Written
  <2>2. /\ Upsert(rows[k], s, until) \in Row /\ Upsert(rows[k], s, until) # NoRow
        /\ Upsert(rows[k], s, until).sub = s
        /\ until # NoSub => Upsert(rows[k], s, until).until = until
    BY UpsertRow
  <2> QED
    BY <2>1, <2>2
<1> QED
  BY <1>1, <1>2

LEMMA EndsOfTerms ==
    ASSUME SubscriptionsTypeOK, NEW s \in Sub
    PROVE  ExpiresAt(s) \in Sub \union {NoSub}
BY DEF ExpiresAt

\* What a key is served from has a term that is not over.
LEMMA ServedInTerm ==
    ASSUME SubscriptionsTypeOK, RowsEndWithTerm, PastHasTerm
    PROVE  PaidWithinTerm
<1> SUFFICES ASSUME NEW k \in Key, Snapshot[k] \in past
             PROVE  FALSE
  BY DEF PaidWithinTerm
<1>1. NoSub \notin past
  BY SubscriptionAssumption DEF SubscriptionsTypeOK
<1>2. rows[k] # NoRow /\ rows[k].until \notin past /\ Snapshot[k] = rows[k].sub
  BY <1>1 DEF Snapshot
<1>3. rows[k].sub \in past /\ rows[k].sub \in Sub /\ rows[k].sub # NoSub
  BY <1>1, <1>2 DEF SubscriptionsTypeOK
<1>4. ExpiresAt(rows[k].sub) = rows[k].sub
  BY <1>3 DEF PastHasTerm, ExpiresAt
<1> QED
  BY <1>2, <1>3, <1>4 DEF RowsEndWithTerm

-----------------------------------------------------------------------------
(* The step, part by part *)

LEMMA Initially == Init => SubsIInv
<1> SUFFICES ASSUME Init
             PROVE  SubsIInv
  OBVIOUS
<1>1. SubscriptionsTypeOK
  BY SubscriptionAssumption DEF Init, SubscriptionsTypeOK, Idle, NoRun
<1>2. NoneWithoutPlan /\ PastHasTerm /\ OneLive
  BY DEF Init, NoneWithoutPlan, PastHasTerm, OneLive, Live
<1>3. PlansHeld /\ RequestsHoldRows /\ RunsHoldRows /\ RowsEndWithTerm
  BY DEF Init, PlansHeld, RequestsHoldRows, RunsHoldRows, RowsEndWithTerm, Idle, NoRun, Writing
<1> QED
  BY <1>1, <1>2, <1>3 DEF SubsIInv

\* What a call holds, whatever it is.
LEMMA HeldByCalls ==
    ASSUME SubscriptionsTypeOK
    PROVE  /\ \A q \in Request :
                /\ request[q].plan \in Plan \union {NoPlan} /\ request[q].sub \in Sub \union {NoSub}
                /\ request[q].todo \subseteq Key /\ request[q].key \in Key
                /\ request[q].pc # "free" => request[q] \in Call
           /\ \A c \in Cron :
                /\ cron[c].todo \subseteq Sub
                /\ cron[c].pc # "free" => cron[c] \in Run
<1>1. \A q \in Request : request[q] \in Call \union {Idle}
  BY DEF SubscriptionsTypeOK
<1>2. \A c \in Cron : cron[c] \in Run \union {NoRun}
  BY DEF SubscriptionsTypeOK
<1> QED
  BY <1>1, <1>2, SubscriptionAssumption DEF Call, Idle, Run, NoRun

LEMMA TypeStep ==
    ASSUME SubsIInv, [Next]_vars
    PROVE  SubscriptionsTypeOK'
<1> USE DEF SubsIInv
<1>0. SubscriptionsTypeOK
  OBVIOUS
<1>1. ASSUME NEW q \in Request, NEW p \in Plan, BeginActivate(q, p)
      PROVE  SubscriptionsTypeOK'
  <2>1. request[q] = Idle
    BY <1>1 DEF BeginActivate
  <2>2. \/ request'[q] = [Idle EXCEPT !.pc = "create", !.plan = p]
        \/ \E s \in Sub : request'[q] = [Idle EXCEPT !.pc = "expire", !.plan = p, !.sub = s]
    BY <1>0, <1>1, <2>1 DEF BeginActivate, SubscriptionsTypeOK, Live
  <2>3. request'[q] \in Call
    BY <2>2, SubscriptionAssumption DEF Idle, Call
  <2> QED
    BY <1>0, <1>1, <2>3 DEF BeginActivate, SubscriptionsTypeOK, dbVars
<1>2. ASSUME NEW q \in Request, ExpireOld(q)
      PROVE  SubscriptionsTypeOK'
  <2>1. request[q] \in Call /\ request[q].sub \in Sub
    BY <1>0, <1>2, HeldByCalls DEF ExpireOld, RequestsHoldRows
  <2>2. request' \in [Request -> Call \union {Idle}]
    <3>1. [request[q] EXCEPT !.pc = "create", !.sub = NoSub] \in Call
      BY <2>1 DEF Call
    <3>2. request' = [request EXCEPT ![q] = [request[q] EXCEPT !.pc = "create", !.sub = NoSub]]
      BY <1>2 DEF ExpireOld
    <3> QED
      BY <1>0, <3>1, <3>2 DEF SubscriptionsTypeOK
  <2>3. status' \in [Sub -> {"none", "active", "grace", "expired", "cancelled"}]
    BY <1>0, <1>2, <2>1 DEF ExpireOld, SubscriptionsTypeOK
  <2> QED
    BY <1>0, <1>2, <2>2, <2>3 DEF ExpireOld, SubscriptionsTypeOK
<1>3. ASSUME NEW q \in Request, NEW s \in Sub, Create(q, s)
      PROVE  SubscriptionsTypeOK'
  <2>1. request[q] \in Call /\ request[q].plan \in Plan
    BY <1>0, <1>3, HeldByCalls DEF Create, PlansHeld
  <2>2. SyncKeys(request[q].plan) \subseteq Key
    BY <2>1, SubscriptionAssumption DEF SyncKeys
  <2> QED
    BY <1>0, <1>3, <2>1, <2>2 DEF Create, SubscriptionsTypeOK, Call
<1>4. ASSUME NEW q \in Request, NEW k \in Key, ReadRow(q, k)
      PROVE  SubscriptionsTypeOK'
  <2>1. request[q] \in Call
    BY <1>0, <1>4, HeldByCalls DEF ReadRow
  <2>2. [request[q] EXCEPT !.pc = Found(k), !.key = k] \in Call
    BY <2>1 DEF Call, Found, Writing
  <2>3. request' = [request EXCEPT ![q] = [request[q] EXCEPT !.pc = Found(k), !.key = k]]
    BY <1>4 DEF ReadRow
  <2>4. request' \in [Request -> Call \union {Idle}]
    BY <1>0, <2>2, <2>3 DEF SubscriptionsTypeOK
  <2> QED
    BY <1>0, <1>4, <2>4 DEF ReadRow, SubscriptionsTypeOK, dbVars
<1>5. ASSUME NEW q \in Request, SyncRow(q)
      PROVE  SubscriptionsTypeOK'
  <2>1. request[q] \in Call
    BY <1>0, <1>5, HeldByCalls DEF SyncRow, Writing
  <2>2. request[q].sub \in Sub /\ request[q].key \in Key /\ request[q].todo \subseteq Key
    BY <1>0, <1>5, HeldByCalls DEF SyncRow, RequestsHoldRows
  <2>3. rows' \in [Key -> Row \union {NoRow}]
    <3>1. ExpiresAt(request[q].sub) \in Sub \union {NoSub} /\ rows \in [Key -> Row \union {NoRow}]
      BY <1>0, <2>2, EndsOfTerms DEF SubscriptionsTypeOK
    <3>2. Written(request[q].pc, request[q].key, request[q].sub, ExpiresAt(request[q].sub))
            \in [Key -> Row \union {NoRow}]
      <4>1. \A k \in Key, s, u \in Sub \union {NoSub} :
                Written(request[q].pc, k, s, u) \in [Key -> Row \union {NoRow}]
        BY <3>1, WrittenRows
      <4>2. request[q].sub \in Sub \union {NoSub}
        BY <2>2
      <4> QED
        BY <2>2, <3>1, <4>1, <4>2
    <3> QED
      BY <1>5, <3>1, <3>2 DEF SyncRow
  <2>4. request' \in [Request -> Call \union {Idle}]
    BY <1>0, <1>5, <2>1, <2>2, SubscriptionAssumption DEF SyncRow, SubscriptionsTypeOK, Call
  <2> QED
    BY <1>0, <1>5, <2>3, <2>4 DEF SyncRow, SubscriptionsTypeOK
<1>6. ASSUME NEW q \in Request, InvalidateAfterSync(q)
      PROVE  SubscriptionsTypeOK'
  BY <1>0, <1>6 DEF InvalidateAfterSync, SubscriptionsTypeOK, dbVars
<1>7. ASSUME NEW q \in Request, BeginCancel(q)
      PROVE  SubscriptionsTypeOK'
  <2>1. \E s \in Sub : request'[q] = [Idle EXCEPT !.pc = "cancel", !.sub = s]
    BY <1>0, <1>7 DEF BeginCancel, SubscriptionsTypeOK, Live
  <2>2. request'[q] \in Call
    BY <2>1, SubscriptionAssumption DEF Idle, Call
  <2> QED
    BY <1>0, <1>7, <2>2 DEF BeginCancel, SubscriptionsTypeOK, dbVars
<1>8. ASSUME NEW q \in Request, SaveCancelled(q)
      PROVE  SubscriptionsTypeOK'
  BY <1>0, <1>8 DEF SaveCancelled, SubscriptionsTypeOK
<1>9. ASSUME NEW q \in Request, RequestFails(q)
      PROVE  SubscriptionsTypeOK'
  BY <1>0, <1>9, SubscriptionAssumption DEF RequestFails, SubscriptionsTypeOK, dbVars
<1>10. ASSUME NEW c \in Cron, ListLapsed(c) \/ ListGraceLapsed(c) \/ EndRun(c)
       PROVE  SubscriptionsTypeOK'
  BY <1>0, <1>10, HeldByCalls
  DEF ListLapsed, ListGraceLapsed, EndRun, Lapsed, GraceLapsed, SubscriptionsTypeOK, Run, NoRun, dbVars
<1>11. ASSUME NEW c \in Cron, NEW s \in Sub, Expire(c, s) \/ EndGrace(c, s)
       PROVE  SubscriptionsTypeOK'
  BY <1>0, <1>11, HeldByCalls DEF Expire, EndGrace, SubscriptionsTypeOK, Run
<1>12. ASSUME NEW c \in Cron, DeleteRows(c)
       PROVE  SubscriptionsTypeOK'
  <2>1. Missing(request) \in [Request -> Call \union {Idle}]
    BY <1>0, HeldByCalls DEF Missing, SubscriptionsTypeOK, Call, Writing
  <2>2. Missing(cron) \in [Cron -> Run \union {NoRun}]
    BY <1>0, HeldByCalls DEF Missing, SubscriptionsTypeOK, Run, Writing
  <2>3. cron[c] \in Run /\ Missing(cron)[c] = cron[c]
    BY <1>0, <1>12, HeldByCalls DEF DeleteRows, Missing, SubscriptionsTypeOK
  <2>4. cron' \in [Cron -> Run \union {NoRun}]
    BY <1>12, <2>2, <2>3 DEF DeleteRows, Run
  <2> QED
    BY <1>0, <1>12, <2>1, <2>4 DEF DeleteRows, SubscriptionsTypeOK
<1>13. ASSUME NEW c \in Cron, ReadFree(c) \/ InvalidateAfterReset(c)
       PROVE  SubscriptionsTypeOK'
  BY <1>0, <1>13, HeldByCalls
  DEF ReadFree, InvalidateAfterReset, Found, Writing, SubscriptionsTypeOK, Run, dbVars
<1>14. ASSUME NEW c \in Cron, WriteFree(c)
       PROVE  SubscriptionsTypeOK'
  <2>1. rows' \in [Key -> Row \union {NoRow}]
    <3>1. PlanCode \in Key /\ rows \in [Key -> Row \union {NoRow}]
      BY <1>0, SubscriptionAssumption DEF SubscriptionsTypeOK
    <3>2. Written(cron[c].pc, PlanCode, NoSub, NoSub) \in [Key -> Row \union {NoRow}]
      BY <3>1, WrittenRows
    <3> QED
      BY <1>14, <3>1, <3>2 DEF WriteFree
  <2>2. cron' \in [Cron -> Run \union {NoRun}]
    BY <1>0, <1>14, HeldByCalls DEF WriteFree, SubscriptionsTypeOK, Run, Writing
  <2> QED
    BY <1>0, <1>14, <2>1, <2>2 DEF WriteFree, SubscriptionsTypeOK
<1>15. ASSUME NEW c \in Cron, CallFails(c)
       PROVE  SubscriptionsTypeOK'
  <2>1. cron' \in [Cron -> Run \union {NoRun}]
    BY <1>0, <1>15, HeldByCalls DEF CallFails, SubscriptionsTypeOK, Run, Writing
  <2> QED
    BY <1>0, <1>15, <2>1, SubscriptionAssumption DEF CallFails, SubscriptionsTypeOK, dbVars
<1>16. ASSUME NEW r \in Reader, ReadRows(r) \/ FillCache(r)
       PROVE  SubscriptionsTypeOK'
  <2>1. Snapshot \in Answer
    BY <1>0, RowFields DEF Snapshot, Answer, SubscriptionsTypeOK
  <2>2. reader' \in [Reader -> Answer \union {NoCache}]
    BY <1>0, <1>16, <2>1 DEF ReadRows, FillCache, SubscriptionsTypeOK
  <2>3. cache' \in Answer \union {NoCache} /\ faults' \in Nat
    BY <1>0, <1>16, SubscriptionAssumption DEF ReadRows, FillCache, SubscriptionsTypeOK
  <2> QED
    BY <1>0, <1>16, <2>2, <2>3 DEF ReadRows, FillCache, SubscriptionsTypeOK, dbVars
<1>17. ASSUME NEW s \in Sub, TermEnds(s) \/ GraceRunsOut(s)
       PROVE  SubscriptionsTypeOK'
  BY <1>0, <1>17 DEF TermEnds, GraceRunsOut, SubscriptionsTypeOK
<1>18. CASE CacheExpires
  BY <1>0, <1>18 DEF CacheExpires, SubscriptionsTypeOK, dbVars
<1>19. CASE UNCHANGED vars
  BY <1>0, <1>19 DEF SubscriptionsTypeOK, vars, dbVars
<1> QED
  BY <1>1, <1>2, <1>3, <1>4, <1>5, <1>6, <1>7, <1>8, <1>9, <1>10, <1>11, <1>12, <1>13,
     <1>14, <1>15, <1>16, <1>17, <1>18, <1>19
  DEF Next, ActivateStep, CronStep

-----------------------------------------------------------------------------
(* The subscriptions *)

\* A row that was inserted stays, with its plan; a term ends only of one that
\* has a term.
LEMMA SubsStay ==
    ASSUME SubsIInv, [Next]_vars
    PROVE  /\ \A s \in Sub : status[s] # "none" => status'[s] # "none" /\ subPlan'[s] = subPlan[s]
           /\ \A s \in Sub : (status'[s] = "none") = (subPlan'[s] = NoPlan)
           /\ \A s \in past' \ past : status[s] # "none" /\ subPlan[s] \notin Endless
<1> USE DEF SubsIInv
<1>0. SubscriptionsTypeOK
  OBVIOUS
<1>1. ASSUME NEW q \in Request, NEW s \in Sub, Create(q, s)
      PROVE  /\ \A t \in Sub \ {s} : status'[t] = status[t] /\ subPlan'[t] = subPlan[t]
             /\ status[s] = "none" /\ past' = past
             /\ \/ status'[s] = "active" /\ subPlan'[s] \in Plan
                \/ status'[s] = status[s] /\ subPlan'[s] = subPlan[s]
  BY <1>0, <1>1 DEF Create, SubscriptionsTypeOK, RequestsHoldRows
<1>2. ASSUME NEW q \in Request, ExpireOld(q) \/ SaveCancelled(q)
      PROVE  /\ request[q].sub \in Sub /\ status[request[q].sub] # "none" /\ status'[request[q].sub] # "none"
             /\ \A t \in Sub \ {request[q].sub} : status'[t] = status[t]
             /\ subPlan' = subPlan /\ past' = past
  BY <1>0, <1>2 DEF ExpireOld, SaveCancelled, SubscriptionsTypeOK, RequestsHoldRows, Unused
<1>3. ASSUME NEW c \in Cron, NEW s \in Sub, Expire(c, s) \/ EndGrace(c, s)
      PROVE  /\ status[s] # "none" /\ status'[s] # "none"
             /\ \A t \in Sub \ {s} : status'[t] = status[t]
             /\ subPlan' = subPlan /\ past' = past
  BY <1>0, <1>3 DEF Expire, EndGrace, SubscriptionsTypeOK, RunsHoldRows, Unused
<1>4. ASSUME NEW s \in Sub, TermEnds(s)
      PROVE  /\ status' = status /\ subPlan' = subPlan /\ past' = past \union {s}
             /\ status[s] # "none" /\ subPlan[s] \notin Endless
  BY <1>4 DEF TermEnds
<1>5. CASE UNCHANGED <<status, subPlan, past>>
  BY <1>0, <1>5 DEF NoneWithoutPlan
<1>6. \/ \E q \in Request : ExpireOld(q) \/ SaveCancelled(q) \/ \E s \in Sub : Create(q, s)
      \/ \E c \in Cron, s \in Sub : Expire(c, s) \/ EndGrace(c, s)
      \/ \E s \in Sub : TermEnds(s)
      \/ UNCHANGED <<status, subPlan, past>>
  BY ZenonT(60) DEF Next, ActivateStep, CronStep, BeginActivate, ReadRow, SyncRow, InvalidateAfterSync, BeginCancel,
         RequestFails, ListLapsed, ListGraceLapsed, EndRun, DeleteRows, ReadFree, WriteFree,
         InvalidateAfterReset, CallFails, ReadRows, FillCache, GraceRunsOut, CacheExpires, vars, dbVars
<1>7. NoPlan \notin Plan
  BY SubscriptionAssumption
<1>8. ASSUME NEW q \in Request, NEW s \in Sub, Create(q, s)
      PROVE  /\ \A t \in Sub : status[t] # "none" => status'[t] # "none" /\ subPlan'[t] = subPlan[t]
             /\ \A t \in Sub : (status'[t] = "none") = (subPlan'[t] = NoPlan)
             /\ past' = past
  BY <1>1, <1>7, <1>8 DEF NoneWithoutPlan
<1>9. ASSUME NEW s \in Sub, status[s] # "none", status'[s] # "none", subPlan' = subPlan, past' = past,
             \A t \in Sub \ {s} : status'[t] = status[t]
      PROVE  /\ \A t \in Sub : status[t] # "none" => status'[t] # "none" /\ subPlan'[t] = subPlan[t]
             /\ \A t \in Sub : (status'[t] = "none") = (subPlan'[t] = NoPlan)
  BY <1>9 DEF NoneWithoutPlan
<1>10. CASE \E q \in Request : ExpireOld(q) \/ SaveCancelled(q) \/ \E s \in Sub : Create(q, s)
  BY <1>2, <1>8, <1>9, <1>10
<1>11. CASE \E c \in Cron, s \in Sub : Expire(c, s) \/ EndGrace(c, s)
  BY <1>3, <1>9, <1>11
<1>12. CASE \E s \in Sub : TermEnds(s)
  BY <1>4, <1>12 DEF NoneWithoutPlan
<1> QED
  BY <1>5, <1>6, <1>10, <1>11, <1>12

LEMMA TermsStep ==
    ASSUME SubsIInv, [Next]_vars
    PROVE  NoneWithoutPlan' /\ PastHasTerm'
<1>1. NoneWithoutPlan'
  BY SubsStay DEF NoneWithoutPlan
<1>2. \A s \in past' : s \in Sub
  BY TypeStep DEF SubscriptionsTypeOK
<1>3. \A s \in past : status[s] # "none" /\ subPlan[s] \notin Endless
  BY DEF SubsIInv, PastHasTerm, Unused
<1>4. \A s \in past' : status'[s] # "none" /\ subPlan'[s] \notin Endless
  BY <1>2, <1>3, SubsStay
<1> QED
  BY <1>1, <1>2, <1>4 DEF PastHasTerm, Unused

\* A row becomes live only when no other is: idx_subs_active_unique.
LEMMA OneLiveStep ==
    ASSUME SubsIInv, [Next]_vars
    PROVE  OneLive'
<1> USE DEF SubsIInv
<1>0. SubscriptionsTypeOK /\ \A s, t \in Live : s = t
  BY DEF OneLive
<1>1. ASSUME NEW q \in Request, NEW s \in Sub, Create(q, s)
      PROVE  Live' \subseteq {s} \/ Live' = Live
  BY <1>0, <1>1 DEF Create, Taken, Live, SubscriptionsTypeOK
<1>2. ASSUME NEW q \in Request, ExpireOld(q) \/ SaveCancelled(q)
      PROVE  Live' \subseteq Live
  BY <1>0, <1>2 DEF ExpireOld, SaveCancelled, Live, SubscriptionsTypeOK
<1>3. ASSUME NEW c \in Cron, NEW s \in Sub, Expire(c, s)
      PROVE  Live' \subseteq {s} \/ Live' = Live
  BY <1>0, <1>3 DEF Expire, Taken, Live, SubscriptionsTypeOK
<1>4. ASSUME NEW c \in Cron, NEW s \in Sub, EndGrace(c, s)
      PROVE  Live' \subseteq Live
  BY <1>0, <1>4 DEF EndGrace, Live, SubscriptionsTypeOK
<1>5. CASE UNCHANGED status
  BY <1>0, <1>5 DEF Live, OneLive
<1>6. \/ \E q \in Request : ExpireOld(q) \/ SaveCancelled(q) \/ \E s \in Sub : Create(q, s)
      \/ \E c \in Cron, s \in Sub : Expire(c, s) \/ EndGrace(c, s)
      \/ UNCHANGED status
  BY DEF Next, ActivateStep, CronStep, BeginActivate, ReadRow, SyncRow, InvalidateAfterSync, BeginCancel,
         RequestFails, ListLapsed, ListGraceLapsed, EndRun, DeleteRows, ReadFree, WriteFree,
         InvalidateAfterReset, CallFails, ReadRows, FillCache, TermEnds, GraceRunsOut, CacheExpires, vars, dbVars
<1>7. Live' \subseteq Live \/ \E s \in Sub : Live' \subseteq {s}
  <2>1. CASE \E q \in Request : ExpireOld(q) \/ SaveCancelled(q) \/ \E s \in Sub : Create(q, s)
    BY <1>1, <1>2, <2>1
  <2>2. CASE \E c \in Cron, s \in Sub : Expire(c, s) \/ EndGrace(c, s)
    BY <1>3, <1>4, <2>2
  <2>3. CASE UNCHANGED status
    BY <2>3 DEF Live
  <2> QED
    BY <1>6, <2>1, <2>2, <2>3
<1> QED
  BY <1>0, <1>7 DEF OneLive

-----------------------------------------------------------------------------
(* Calls and runs *)

\* Once a row of a key is there, only DeleteRows takes it away, and then no call
\* is about to update it.
LEMMA RowsStay ==
    ASSUME SubsIInv, [Next]_vars
    PROVE  \/ \A k \in Key : rows[k] # NoRow => rows'[k] # NoRow
           \/ \A q \in Request : request'[q].pc # "update"
<1> USE DEF SubsIInv
<1>0. rows \in [Key -> Row \union {NoRow}] /\ request \in [Request -> Call \union {Idle}]
  BY DEF SubscriptionsTypeOK
<1>1. ASSUME NEW q \in Request, SyncRow(q)
      PROVE  \A k \in Key : rows[k] # NoRow => rows'[k] # NoRow
  <2>1. request[q].sub \in Sub /\ request[q].key \in Key
    BY <1>1, HeldByCalls DEF SyncRow, RequestsHoldRows
  <2>2. ExpiresAt(request[q].sub) \in Sub \union {NoSub} /\ request[q].sub \in Sub \union {NoSub}
    BY <2>1, EndsOfTerms
  <2>3. \A j, k \in Key, s, u \in Sub \union {NoSub} :
            rows[j] # NoRow => Written(request[q].pc, k, s, u)[j] # NoRow
    BY <1>0, WrittenRows
  <2>4. \A j \in Key : rows[j] # NoRow =>
            Written(request[q].pc, request[q].key, request[q].sub, ExpiresAt(request[q].sub))[j] # NoRow
    BY <2>1, <2>2, <2>3
  <2> QED
    BY <1>1, <2>4 DEF SyncRow
<1>2. ASSUME NEW c \in Cron, WriteFree(c)
      PROVE  \A k \in Key : rows[k] # NoRow => rows'[k] # NoRow
  <2>1. \A j \in Key : rows[j] # NoRow => Written(cron[c].pc, PlanCode, NoSub, NoSub)[j] # NoRow
    BY <1>0, SubscriptionAssumption, WrittenRows
  <2> QED
    BY <1>2, <2>1 DEF WriteFree
<1>3. ASSUME NEW c \in Cron, DeleteRows(c)
      PROVE  \A q \in Request : request'[q].pc # "update"
  <2>1. request' = Missing(request) /\ DOMAIN request = Request
    BY <1>0, <1>3 DEF DeleteRows
  <2>2. ASSUME NEW q \in Request
        PROVE  Missing(request)[q].pc # "update"
    <3>1. CASE request[q].pc = "update"
      <4>1. request[q] \in Call
        BY <3>1, HeldByCalls
      <4>2. Missing(request)[q] = [request[q] EXCEPT !.pc = "miss"]
        BY <2>1, <3>1 DEF Missing
      <4> QED
        BY <4>1, <4>2 DEF Call
    <3>2. CASE request[q].pc # "update"
      BY <2>1, <3>2 DEF Missing
    <3> QED
      BY <3>1, <3>2
  <2> QED
    BY <2>1, <2>2
<1>4. CASE UNCHANGED rows
  BY <1>4
<1>5. \/ \E q \in Request : SyncRow(q)
      \/ \E c \in Cron : WriteFree(c) \/ DeleteRows(c)
      \/ UNCHANGED rows
  BY ZenonT(60) DEF Next, ActivateStep, CronStep, BeginActivate, ExpireOld, Create, ReadRow, InvalidateAfterSync,
         BeginCancel, SaveCancelled, RequestFails, ListLapsed, ListGraceLapsed, EndRun, Expire, EndGrace,
         ReadFree, InvalidateAfterReset, CallFails, ReadRows, FillCache, TermEnds, GraceRunsOut,
         CacheExpires, vars, dbVars
<1> QED
  BY <1>1, <1>2, <1>3, <1>4, <1>5

\* What a call that does not move holds is still there after the step.
LEMMA CallsStep ==
    ASSUME SubsIInv, [Next]_vars
    PROVE  PlansHeld' /\ RequestsHoldRows'
<1> USE DEF SubsIInv
<1> DEFINE Good(q) ==
        /\ request'[q].pc \in {"expire", "create"} => request'[q].plan \in Plan
        /\ request'[q].pc \in {"expire", "sync", "cancel"} \union Writing =>
              request'[q].sub \in Sub /\ status'[request'[q].sub] # "none"
        /\ request'[q].pc = "update" => rows'[request'[q].key] # NoRow
<1>0. SubscriptionsTypeOK
  OBVIOUS
<1>1. ASSUME NEW q \in Request, request'[q] = request[q]
      PROVE  Good(q)
  <2>1. /\ request[q].pc \in {"expire", "sync", "cancel"} \union Writing =>
              request[q].sub \in Sub /\ status[request[q].sub] # "none"
        /\ request[q].pc = "update" => rows[request[q].key] # NoRow
        /\ request[q].pc \in {"expire", "create"} => request[q].plan \in Plan
    BY DEF RequestsHoldRows, Unused, PlansHeld
  <2>2. request[q].key \in Key
    BY <1>0, HeldByCalls
  <2> QED
    BY <1>1, <2>1, <2>2, SubsStay, RowsStay
<1>2. ASSUME NEW q \in Request, NEW p \in Plan, BeginActivate(q, p)
      PROVE  Good(q)
  BY <1>0, <1>2 DEF BeginActivate, SubscriptionsTypeOK, Idle, Live, dbVars, Writing
<1>3. ASSUME NEW q \in Request, ExpireOld(q)
      PROVE  Good(q)
  BY <1>0, <1>3, HeldByCalls DEF ExpireOld, SubscriptionsTypeOK, PlansHeld, Call, Writing
<1>4. ASSUME NEW q \in Request, NEW s \in Sub, Create(q, s)
      PROVE  Good(q)
  <2>1. CASE request'[q] = Idle
    BY <2>1 DEF Idle, Writing
  <2>2. CASE request'[q].pc = "sync" /\ request'[q].sub = s /\ status'[s] = "active"
    BY <2>2 DEF Writing
  <2>3. request'[q] = Idle \/ (request'[q].pc = "sync" /\ request'[q].sub = s /\ status'[s] = "active")
    BY <1>0, <1>4, HeldByCalls DEF Create, SubscriptionsTypeOK, Call
  <2> QED
    BY <2>1, <2>2, <2>3
<1>5. ASSUME NEW q \in Request, NEW k \in Key, ReadRow(q, k)
      PROVE  Good(q)
  <2>1. request[q] \in Call /\ request[q].sub \in Sub /\ status[request[q].sub] # "none"
    BY <1>0, <1>5, HeldByCalls DEF ReadRow, RequestsHoldRows, Unused
  <2>2. request'[q] = [request[q] EXCEPT !.pc = Found(k), !.key = k]
    BY <1>0, <1>5 DEF ReadRow, SubscriptionsTypeOK
  <2>3. request'[q].pc = Found(k) /\ request'[q].key = k /\ request'[q].sub = request[q].sub
    BY <2>1, <2>2 DEF Call
  <2>4. status' = status /\ rows' = rows
    BY <1>5 DEF ReadRow, dbVars
  <2> QED
    BY <2>1, <2>3, <2>4 DEF Found
<1>6. ASSUME NEW q \in Request, SyncRow(q)
      PROVE  Good(q)
  <2>1. request[q] \in Call /\ request[q].sub \in Sub /\ status[request[q].sub] # "none"
    BY <1>0, <1>6, HeldByCalls DEF SyncRow, RequestsHoldRows, Unused, Writing
  <2>2. \/ request'[q] = Idle
        \/ request'[q].sub = request[q].sub /\ request'[q].pc \in {"invalidate", "sync"}
    BY <1>0, <1>6, <2>1 DEF SyncRow, SubscriptionsTypeOK, Call
  <2>3. status' = status
    BY <1>6 DEF SyncRow
  <2> QED
    BY <2>1, <2>2, <2>3 DEF Idle, Writing
<1>7. ASSUME NEW q \in Request, InvalidateAfterSync(q) \/ SaveCancelled(q) \/ RequestFails(q)
      PROVE  Good(q)
  BY <1>0, <1>7 DEF InvalidateAfterSync, SaveCancelled, RequestFails, SubscriptionsTypeOK, Idle, Writing
<1>8. ASSUME NEW q \in Request, BeginCancel(q)
      PROVE  Good(q)
  BY <1>0, <1>8 DEF BeginCancel, SubscriptionsTypeOK, Idle, Live, dbVars, Writing
<1>9. ASSUME NEW c \in Cron, DeleteRows(c), NEW q \in Request
      PROVE  Good(q)
  <2>1. CASE request[q].pc = "update"
    <3>1. request[q] \in Call /\ request[q].sub \in Sub /\ status[request[q].sub] # "none"
      BY <1>0, <2>1, HeldByCalls DEF RequestsHoldRows, Unused, Writing
    <3>2. request'[q] = [request[q] EXCEPT !.pc = "miss"] /\ status' = status
      BY <1>0, <1>9, <2>1 DEF DeleteRows, Missing, SubscriptionsTypeOK
    <3> QED
      BY <3>1, <3>2 DEF Call
  <2>2. CASE request[q].pc # "update"
    <3>1. request'[q] = request[q]
      BY <1>0, <1>9, <2>2 DEF DeleteRows, Missing, SubscriptionsTypeOK
    <3> QED
      BY <1>1, <3>1
  <2> QED
    BY <2>1, <2>2
<1>10. ASSUME NEW q \in Request
       PROVE  Good(q)
  <2>1. CASE UNCHANGED request
    BY <1>1, <2>1
  <2>2. CASE \E c \in Cron : DeleteRows(c)
    BY <1>9, <2>2
  <2>3. ASSUME NEW u \in Request,
               \/ \E p \in Plan : BeginActivate(u, p)
               \/ ActivateStep(u) \/ BeginCancel(u) \/ SaveCancelled(u) \/ RequestFails(u)
        PROVE  Good(q)
    <3>1. CASE u = q
      BY <1>2, <1>3, <1>4, <1>5, <1>6, <1>7, <1>8, <2>3, <3>1 DEF ActivateStep
    <3>2. CASE u # q
      <4>1. request'[q] = request[q]
        BY <1>0, <2>3, <3>2
        DEF BeginActivate, ActivateStep, ExpireOld, Create, ReadRow, SyncRow, InvalidateAfterSync,
            BeginCancel, SaveCancelled, RequestFails, SubscriptionsTypeOK
      <4> QED
        BY <1>1, <4>1
    <3> QED
      BY <3>1, <3>2
  <2>4. \/ UNCHANGED request
        \/ \E c \in Cron : DeleteRows(c)
        \/ \E u \in Request :
              \/ \E p \in Plan : BeginActivate(u, p)
              \/ ActivateStep(u) \/ BeginCancel(u) \/ SaveCancelled(u) \/ RequestFails(u)
    BY DEF Next, CronStep, ListLapsed, ListGraceLapsed, EndRun, Expire, EndGrace, ReadFree, WriteFree,
           InvalidateAfterReset, CallFails, ReadRows, FillCache, TermEnds, GraceRunsOut, CacheExpires, vars
  <2> QED
    BY <2>1, <2>2, <2>3, <2>4
<1> QED
  BY <1>10 DEF PlansHeld, RequestsHoldRows, Unused

LEMMA RunsStep ==
    ASSUME SubsIInv, [Next]_vars
    PROVE  RunsHoldRows'
<1> USE DEF SubsIInv
<1>0. SubscriptionsTypeOK
  OBVIOUS
<1>1. \A c \in Cron : \A s \in cron[c].todo : s \in Sub /\ status[s] # "none"
  BY DEF RunsHoldRows, Unused
<1>2. Lapsed \subseteq {s \in Sub : status[s] # "none"} /\ GraceLapsed \subseteq {s \in Sub : status[s] # "none"}
  BY DEF Lapsed, GraceLapsed
<1>3. ASSUME NEW c \in Cron
      PROVE  cron'[c].todo \subseteq cron[c].todo \union Lapsed \union GraceLapsed
  <2>1. CASE UNCHANGED cron
    BY <2>1
  <2>2. ASSUME NEW d \in Cron, DeleteRows(d)
        PROVE  cron'[c].todo \subseteq cron[c].todo
    <3>1. Missing(cron)[c].todo = cron[c].todo /\ Missing(cron)[d] = cron[d]
      BY <1>0, <2>2, HeldByCalls DEF DeleteRows, Missing, SubscriptionsTypeOK, Run, NoRun
    <3>2. cron' = [Missing(cron) EXCEPT ![d].pc = "readFree"] /\ DOMAIN Missing(cron) = Cron
      BY <1>0, <2>2 DEF DeleteRows, Missing, SubscriptionsTypeOK
    <3>3. CASE c = d
      <4>1. cron'[c] = [cron[c] EXCEPT !.pc = "readFree"] /\ cron[c] \in Run
        BY <1>0, <2>2, <3>1, <3>2, <3>3, HeldByCalls DEF DeleteRows
      <4> QED
        BY <4>1 DEF Run
    <3>4. CASE c # d
      BY <3>1, <3>2, <3>4
    <3> QED
      BY <3>3, <3>4
  <2>3. ASSUME NEW d \in Cron,
               \/ ListLapsed(d) \/ ListGraceLapsed(d) \/ EndRun(d)
               \/ \E s \in Sub : Expire(d, s) \/ EndGrace(d, s)
               \/ ReadFree(d) \/ WriteFree(d) \/ InvalidateAfterReset(d) \/ CallFails(d)
        PROVE  cron'[c].todo \subseteq cron[c].todo \union Lapsed \union GraceLapsed
    <3>1. CASE c # d
      <4>1. cron'[c] = cron[c]
        BY <1>0, <2>3, <3>1
        DEF ListLapsed, ListGraceLapsed, EndRun, Expire, EndGrace, ReadFree, WriteFree,
            InvalidateAfterReset, CallFails, SubscriptionsTypeOK
      <4> QED
        BY <4>1
    <3>2. CASE c = d
      <4>1. CASE ListLapsed(c) \/ ListGraceLapsed(c) \/ EndRun(c)
        BY <1>0, <4>1, HeldByCalls DEF ListLapsed, ListGraceLapsed, EndRun, SubscriptionsTypeOK, Run, NoRun
      <4>2. ASSUME NEW s \in Sub, Expire(c, s) \/ EndGrace(c, s)
            PROVE  cron'[c].todo \subseteq cron[c].todo
        BY <1>0, <4>2, HeldByCalls DEF Expire, EndGrace, SubscriptionsTypeOK, Run
      <4>3. CASE ReadFree(c) \/ WriteFree(c) \/ InvalidateAfterReset(c)
        <5>1. cron[c] \in Run
          BY <1>0, <4>3, HeldByCalls DEF ReadFree, WriteFree, InvalidateAfterReset, Writing
        <5>2. \E pc : cron'[c] = [cron[c] EXCEPT !.pc = pc]
          BY <1>0, <4>3 DEF ReadFree, WriteFree, InvalidateAfterReset, SubscriptionsTypeOK
        <5> QED
          BY <5>1, <5>2 DEF Run
      <4>4. CASE CallFails(c)
        <5>1. \/ cron'[c] = NoRun
              \/ cron[c] \in Run /\ cron'[c] = [cron[c] EXCEPT !.pc = "end"]
              \/ cron[c] \in Run /\ \E s \in cron[c].todo : cron'[c] = [cron[c] EXCEPT !.todo = @ \ {s}]
          BY <1>0, <4>4, HeldByCalls DEF CallFails, SubscriptionsTypeOK, Writing
        <5>2. CASE cron'[c] = NoRun
          BY <5>2 DEF NoRun
        <5>3. ASSUME cron[c] \in Run, cron'[c] = [cron[c] EXCEPT !.pc = "end"]
              PROVE  cron'[c].todo = cron[c].todo
          BY <5>3 DEF Run
        <5>4. ASSUME cron[c] \in Run, NEW s \in cron[c].todo, cron'[c] = [cron[c] EXCEPT !.todo = @ \ {s}]
              PROVE  cron'[c].todo = cron[c].todo \ {s}
          BY <5>4 DEF Run
        <5> QED
          BY <5>1, <5>2, <5>3, <5>4
      <4> QED
        BY <2>3, <3>2, <4>1, <4>2, <4>3, <4>4
    <3> QED
      BY <3>1, <3>2
  <2>4. \/ UNCHANGED cron
        \/ \E d \in Cron : DeleteRows(d)
        \/ \E d \in Cron :
               \/ ListLapsed(d) \/ ListGraceLapsed(d) \/ EndRun(d)
               \/ \E s \in Sub : Expire(d, s) \/ EndGrace(d, s)
               \/ ReadFree(d) \/ WriteFree(d) \/ InvalidateAfterReset(d) \/ CallFails(d)
    BY ZenonT(60) DEF Next, ActivateStep, CronStep, BeginActivate, ExpireOld, Create, ReadRow, SyncRow,
           InvalidateAfterSync, BeginCancel, SaveCancelled, RequestFails, ReadRows, FillCache,
           TermEnds, GraceRunsOut, CacheExpires, vars
  <2> QED
    BY <2>1, <2>2, <2>3, <2>4
<1>4. \A c \in Cron : \A s \in cron'[c].todo : s \in Sub /\ status[s] # "none"
  BY <1>1, <1>2, <1>3
<1>5. \A c \in Cron : \A s \in cron'[c].todo : s \in Sub /\ status'[s] # "none"
  BY <1>4, SubsStay
<1> QED
  BY <1>5 DEF RunsHoldRows, Unused

\* A row is written with the end of the subscription it is written for, or keeps
\* one; and the plan that says whether it has an end never changes.
LEMMA EntitlementsStep ==
    ASSUME SubsIInv, [Next]_vars
    PROVE  RowsEndWithTerm'
<1> USE DEF SubsIInv
<1>0. rows \in [Key -> Row \union {NoRow}] /\ NoSub \notin Sub /\ SubscriptionsTypeOK
  BY SubscriptionAssumption DEF SubscriptionsTypeOK
<1> SUFFICES ASSUME NEW k \in Key, rows'[k] # NoRow, rows'[k].sub # NoSub
             PROVE  /\ status'[rows'[k].sub] # "none"
                    /\ rows'[k].sub \in Sub
                    /\ subPlan'[rows'[k].sub] \notin Endless => rows'[k].until = rows'[k].sub
  BY DEF RowsEndWithTerm, ExpiresAt
<1>1. CASE rows'[k] = rows[k]
  <2>1. rows[k].sub \in Sub /\ status[rows[k].sub] # "none"
    BY <1>0, <1>1, RowFields DEF RowsEndWithTerm
  <2>2. subPlan[rows[k].sub] \notin Endless => rows[k].until = rows[k].sub
    BY <1>0, <1>1, <2>1 DEF RowsEndWithTerm, ExpiresAt
  <2> QED
    BY <1>1, <2>1, <2>2, SubsStay
<1>2. ASSUME NEW q \in Request, SyncRow(q), rows'[k] # rows[k]
      PROVE  LET s == request[q].sub IN
             /\ rows'[k].sub = s /\ s \in Sub /\ status[s] # "none"
             /\ subPlan[s] \notin Endless => rows'[k].until = s
  <2>1. request[q].sub \in Sub /\ request[q].key \in Key /\ status[request[q].sub] # "none"
    BY <1>0, <1>2, HeldByCalls DEF SyncRow, RequestsHoldRows, Unused
  <2>2. PICK s \in Sub \union {NoSub} : s = request[q].sub
    BY <2>1
  <2>3. PICK u \in Sub \union {NoSub} : u = ExpiresAt(request[q].sub)
    BY <1>0, <2>1, EndsOfTerms
  <2>4. PICK j \in Key : j = request[q].key
    BY <2>1
  <2>5. rows'[k] = Written(request[q].pc, j, s, u)[k]
    BY <1>2, <2>2, <2>3, <2>4 DEF SyncRow
  <2>6. request[q].pc # "miss" /\ Written(request[q].pc, j, s, u) = [rows EXCEPT ![j] = Upsert(rows[j], s, u)]
    BY <1>2, <2>5 DEF Written
  <2>7. rows'[k].sub = s /\ (u # NoSub => rows'[k].until = u)
    <3>0. rows \in [Key -> Row \union {NoRow}]
      BY <1>0
    <3>1. k = j /\ rows'[k] = Upsert(rows[k], s, u)
      <4> DEFINE row == Upsert(rows[j], s, u)
      <4>1. rows'[k] = [rows EXCEPT ![j] = row][k]
        BY <2>5, <2>6
      <4> HIDE DEF row
      <4>2. k = j /\ rows'[k] = row
        BY <1>2, <2>4, <3>0, <4>1
      <4> QED
        BY <4>2 DEF row
    <3>2. rows[k] \in Row \union {NoRow}
      BY <3>0
    <3>3. Upsert(rows[k], s, u).sub = s /\ (u # NoSub => Upsert(rows[k], s, u).until = u)
      BY ONLY <3>2, UpsertRow
    <3> QED
      BY <3>1, <3>3
  <2>8. subPlan[s] \notin Endless => u = s
    BY <2>2, <2>3 DEF ExpiresAt
  <2> QED
    BY <1>0, <2>1, <2>2, <2>7, <2>8
<1>3. ASSUME NEW c \in Cron, WriteFree(c)
      PROVE  rows'[k] = rows[k] \/ rows'[k].sub = NoSub
  <2>1. \A i \in Key : Written(cron[c].pc, PlanCode, NoSub, NoSub)[i] = rows[i]
                \/ Written(cron[c].pc, PlanCode, NoSub, NoSub)[i].sub = NoSub
    BY <1>0, SubscriptionAssumption, WrittenRows
  <2> QED
    BY <1>3, <2>1 DEF WriteFree
<1>4. ASSUME NEW c \in Cron, DeleteRows(c)
      PROVE  rows'[k] = NoRow
  BY <1>4 DEF DeleteRows
<1>5. \/ \E q \in Request : SyncRow(q)
      \/ \E c \in Cron : WriteFree(c) \/ DeleteRows(c)
      \/ UNCHANGED rows
  BY ZenonT(60) DEF Next, ActivateStep, CronStep, BeginActivate, ExpireOld, Create, ReadRow, InvalidateAfterSync,
         BeginCancel, SaveCancelled, RequestFails, ListLapsed, ListGraceLapsed, EndRun, Expire, EndGrace,
         ReadFree, InvalidateAfterReset, CallFails, ReadRows, FillCache, TermEnds, GraceRunsOut,
         CacheExpires, vars, dbVars
<1>6. ASSUME NEW q \in Request, SyncRow(q), rows'[k] # rows[k]
      PROVE  /\ status'[rows'[k].sub] # "none"
             /\ rows'[k].sub \in Sub
             /\ subPlan'[rows'[k].sub] \notin Endless => rows'[k].until = rows'[k].sub
  BY <1>2, <1>6, SubsStay
<1> QED
  BY <1>1, <1>3, <1>4, <1>5, <1>6

LEMMA SubsIInvStep == SubsIInv /\ [Next]_vars => SubsIInv'
BY TypeStep, TermsStep, OneLiveStep, CallsStep, RunsStep, EntitlementsStep DEF SubsIInv

-----------------------------------------------------------------------------
(* Calls alone *)

\* Where an activation writes the entitlements.
Syncing == {"sync"} \union Writing

\* Every key of an active subscription's plan is written, or an activation has it
\* still to write.
RowsOrWork ==
    \A s \in Sub : status[s] = "active" =>
        /\ subPlan[s] \notin Endless
        /\ \A k \in SyncKeys(subPlan[s]) :
              \/ rows[k] # NoRow /\ rows[k].sub = s
              \/ \E q \in Request :
                    request[q].pc \in Syncing /\ request[q].sub = s /\ k \in request[q].todo

\* An activation ends the subscription that is live, finds none when it inserts, and
\* writes for its own; nobody else inserts or deletes the row it looked for.
WorksOnTheLive ==
    \A q \in Request :
        /\ request[q].pc = "expire" => Live \subseteq {request[q].sub}
        /\ request[q].pc = "create" => Live = {}
        /\ request[q].pc \in Syncing => Live \subseteq {request[q].sub}
        /\ request[q].pc \in Writing => request[q].key \in request[q].todo
        /\ request[q].pc = "insert" => rows[request[q].key] = NoRow
        /\ request[q].pc # "miss"

\* Only activations expire a subscription, and each inserts another then.
EndedHasSuccessor ==
    (\A q \in Request : request[q].pc # "create") =>
        \A s \in Sub : status[s] = "expired" =>
            \E t \in Sub : status[t] # "none" /\ status[t] # "expired"

CallsIInv == RowsOrWork /\ WorksOnTheLive /\ EndedHasSuccessor

\* What each step of a call does to the rows and to the record of the call.
Begins(q) ==
    /\ UNCHANGED <<status, subPlan, rows>> /\ request[q].pc = "free"
    /\ \/ request'[q].pc = "create" /\ Live = {}
       \/ request'[q].pc = "expire" /\ request'[q].sub \in Live
       \/ request'[q].pc = "cancel"

Expires(q) ==
    /\ UNCHANGED <<subPlan, rows>> /\ request[q].pc = "expire" /\ request'[q].pc = "create"
    /\ status' = [status EXCEPT ![request[q].sub] = "expired"]

Creates(q, s) ==
    /\ UNCHANGED rows /\ request[q].pc = "create" /\ status[s] = "none"
    /\ status' = [status EXCEPT ![s] = "active"]
    /\ subPlan' = [subPlan EXCEPT ![s] = request[q].plan] /\ request[q].plan \notin Endless
    /\ request'[q].pc = "sync" /\ request'[q].sub = s
    /\ request'[q].todo = SyncKeys(request[q].plan)

Reads(q, k) ==
    /\ UNCHANGED <<status, subPlan, rows>> /\ request[q].pc = "sync" /\ k \in request[q].todo
    /\ request'[q].pc = Found(k) /\ request'[q].key = k
    /\ request'[q].sub = request[q].sub /\ request'[q].todo = request[q].todo

Writes(q, k) ==
    /\ UNCHANGED <<status, subPlan>> /\ request[q].pc \in Writing /\ k = request[q].key
    /\ rows'[k] # NoRow /\ rows'[k].sub = request[q].sub
    /\ \A j \in Key \ {k} : rows'[j] = rows[j]
    /\ request'[q].pc \in {"sync", "invalidate"} /\ request'[q].sub = request[q].sub
    /\ request'[q].todo = request[q].todo \ {k}
    /\ request'[q].pc = "invalidate" => request'[q].todo = {}

Finishes(q) ==
    /\ UNCHANGED <<status, subPlan, rows>> /\ request[q].pc = "invalidate" /\ request'[q].pc = "free"
    /\ cache' = NoCache

Cancels(q) ==
    /\ UNCHANGED <<subPlan, rows>> /\ request[q].pc = "cancel" /\ request'[q].pc = "free"
    /\ status' = [status EXCEPT ![request[q].sub] = "cancelled"]

CallMoves(q) ==
    \/ Begins(q) \/ Expires(q) \/ (\E s \in Sub : Creates(q, s)) \/ (\E k \in Key : Reads(q, k))
    \/ (\E k \in Key : Writes(q, k)) \/ Finishes(q) \/ Cancels(q)

LEMMA CallSteps ==
    ASSUME SubsIInv, CallsIInv, CallsAlone, CallsAlone', [Next]_vars
    PROVE  \/ UNCHANGED <<status, subPlan, rows, request>>
           \/ \E q \in Request :
                CallMoves(q) /\ \A u \in Request \ {q} : request'[u] = request[u]
<1> USE DEF SubsIInv
<1>0. SubscriptionsTypeOK
  OBVIOUS
<1>1. ASSUME NEW q \in Request, NEW p \in Plan, BeginActivate(q, p)
      PROVE  Begins(q) /\ \A u \in Request \ {q} : request'[u] = request[u]
  BY <1>0, <1>1 DEF BeginActivate, Begins, SubscriptionsTypeOK, Idle, dbVars
<1>2. ASSUME NEW q \in Request, ExpireOld(q)
      PROVE  Expires(q) /\ \A u \in Request \ {q} : request'[u] = request[u]
  <2>1. request[q] \in Call
    BY <1>0, <1>2, HeldByCalls DEF ExpireOld
  <2> QED
    BY <1>0, <1>2, <2>1 DEF ExpireOld, Expires, SubscriptionsTypeOK, Call
<1>3. ASSUME NEW q \in Request, NEW s \in Sub, Create(q, s)
      PROVE  Creates(q, s) /\ \A u \in Request \ {q} : request'[u] = request[u]
  <2>1. request[q] \in Call /\ request[q].plan \notin Endless
    BY <1>0, <1>3, HeldByCalls DEF Create, CallsAlone
  <2>2. ~ Taken(s)
    BY <1>3 DEF Create, Taken, CallsIInv, WorksOnTheLive
  <2> QED
    BY <1>0, <1>3, <2>1, <2>2 DEF Create, Creates, SubscriptionsTypeOK, Call
<1>4. ASSUME NEW q \in Request, NEW k \in Key, ReadRow(q, k)
      PROVE  Reads(q, k) /\ \A u \in Request \ {q} : request'[u] = request[u]
  <2>1. request[q] \in Call
    BY <1>0, <1>4, HeldByCalls DEF ReadRow
  <2> QED
    BY <1>0, <1>4, <2>1 DEF ReadRow, Reads, SubscriptionsTypeOK, Call, dbVars
<1>5. ASSUME NEW q \in Request, SyncRow(q)
      PROVE  Writes(q, request[q].key) /\ \A u \in Request \ {q} : request'[u] = request[u]
  <2>1. request[q] \in Call /\ request[q].sub \in Sub /\ request[q].key \in Key /\ request[q].pc \in Writing
    BY <1>0, <1>5, HeldByCalls DEF SyncRow, RequestsHoldRows, Writing
  <2>2. request[q].pc # "miss" /\ ~ Refused(request[q].pc, request[q].key)
    BY DEF CallsIInv, WorksOnTheLive, Refused
  <2>3. PICK s \in Sub \union {NoSub} : s = request[q].sub
    BY <2>1
  <2>4. PICK u \in Sub \union {NoSub} : u = ExpiresAt(request[q].sub)
    BY <1>0, <2>1, EndsOfTerms
  <2>5. PICK k \in Key : k = request[q].key
    BY <2>1
  <2>6. rows \in [Key -> Row \union {NoRow}]
    BY <1>0 DEF SubscriptionsTypeOK
  <2>7. rows' = [rows EXCEPT ![k] = Upsert(rows[k], s, u)]
    BY <1>5, <2>2, <2>3, <2>4, <2>5 DEF SyncRow, Written
  <2>8. Upsert(rows[k], s, u) # NoRow /\ Upsert(rows[k], s, u).sub = s
    BY <2>6, UpsertRow
  <2>9. rows'[k] # NoRow /\ rows'[k].sub = request[q].sub /\ \A j \in Key \ {k} : rows'[j] = rows[j]
    BY <2>3, <2>6, <2>7, <2>8
  <2>10. /\ request'[q].pc \in {"sync", "invalidate"} /\ request'[q].sub = request[q].sub
         /\ request'[q].todo = request[q].todo \ {request[q].key}
         /\ request'[q].pc = "invalidate" => request'[q].todo = {}
         /\ \A v \in Request \ {q} : request'[v] = request[v]
    BY <1>0, <1>5, <2>1, <2>2 DEF SyncRow, SubscriptionsTypeOK, Call
  <2>11. UNCHANGED <<status, subPlan>>
    BY <1>5 DEF SyncRow
  <2> QED
    BY <2>1, <2>5, <2>9, <2>10, <2>11 DEF Writes
<1>6. ASSUME NEW q \in Request, InvalidateAfterSync(q)
      PROVE  Finishes(q) /\ \A u \in Request \ {q} : request'[u] = request[u]
  BY <1>0, <1>6 DEF InvalidateAfterSync, Finishes, SubscriptionsTypeOK, Idle, dbVars
<1>7. ASSUME NEW q \in Request, BeginCancel(q)
      PROVE  Begins(q) /\ \A u \in Request \ {q} : request'[u] = request[u]
  BY <1>0, <1>7 DEF BeginCancel, Begins, SubscriptionsTypeOK, Idle, dbVars
<1>8. ASSUME NEW q \in Request, SaveCancelled(q)
      PROVE  Cancels(q) /\ \A u \in Request \ {q} : request'[u] = request[u]
  BY <1>0, <1>8 DEF SaveCancelled, Cancels, SubscriptionsTypeOK, Idle
<1>9. \A q \in Request : ~ RequestFails(q)
  BY DEF RequestFails, CallsAlone
<1>10. \A c \in Cron : ~ CronStep(c) /\ ~ CallFails(c)
  <2>1. ASSUME NEW c \in Cron
        PROVE  ~ CronStep(c)
    <3>1. cron[c] = NoRun /\ cron'[c] = NoRun /\ cron \in [Cron -> Run \union {NoRun}]
      BY <1>0 DEF CallsAlone, SubscriptionsTypeOK
    <3>2. ~ ListLapsed(c)
      BY <3>1 DEF ListLapsed, NoRun
    <3> QED
      BY <3>1, <3>2
      DEF CronStep, NoRun, ListGraceLapsed, EndRun, Expire, EndGrace, DeleteRows, ReadFree, WriteFree,
          InvalidateAfterReset, Writing
  <2> QED
    BY <2>1 DEF CallFails, CallsAlone
<1>11. \/ \E q \in Request :
             \/ \E p \in Plan : BeginActivate(q, p)
             \/ ActivateStep(q) \/ BeginCancel(q) \/ SaveCancelled(q)
       \/ UNCHANGED <<status, subPlan, rows, request>>
  BY <1>9, <1>10 DEF Next, ReadRows, FillCache, TermEnds, GraceRunsOut, CacheExpires, vars, dbVars
<1>12. ASSUME NEW q \in Request,
              \/ \E p \in Plan : BeginActivate(q, p)
              \/ ActivateStep(q) \/ BeginCancel(q) \/ SaveCancelled(q)
       PROVE  CallMoves(q) /\ \A u \in Request \ {q} : request'[u] = request[u]
  <2>1. CASE \/ \E p \in Plan : BeginActivate(q, p)
             \/ ExpireOld(q) \/ InvalidateAfterSync(q) \/ BeginCancel(q) \/ SaveCancelled(q)
    BY <2>1, <1>1, <1>2, <1>6, <1>7, <1>8 DEF CallMoves
  <2>2. CASE (\E s \in Sub : Create(q, s)) \/ (\E k \in Key : ReadRow(q, k))
    BY <2>2, <1>3, <1>4 DEF CallMoves
  <2>3. CASE SyncRow(q)
    <3>1. request[q].key \in Key
      BY <1>0, HeldByCalls
    <3> QED
      BY <2>3, <3>1, <1>5 DEF CallMoves
  <2> QED
    BY <1>12, <2>1, <2>2, <2>3 DEF ActivateStep
<1> QED
  BY <1>11, <1>12

\* With one activation at a time, the others are idle or cancel.
LEMMA WorksStep ==
    ASSUME SubsIInv, CallsIInv, CallsAlone, CallsAlone', [Next]_vars
    PROVE  WorksOnTheLive'
<1> DEFINE Good(u) ==
        /\ request'[u].pc = "expire" => Live' \subseteq {request'[u].sub}
        /\ request'[u].pc = "create" => Live' = {}
        /\ request'[u].pc \in Syncing => Live' \subseteq {request'[u].sub}
        /\ request'[u].pc \in Writing => request'[u].key \in request'[u].todo
        /\ request'[u].pc = "insert" => rows'[request'[u].key] = NoRow
        /\ request'[u].pc # "miss"
<1>0. SubscriptionsTypeOK /\ OneLive /\ WorksOnTheLive
  BY DEF SubsIInv, CallsIInv
<1>1. CASE UNCHANGED <<status, subPlan, rows, request>>
  BY <1>0, <1>1 DEF WorksOnTheLive, Live
<1>2. ASSUME NEW q \in Request, CallMoves(q), \A u \in Request \ {q} : request'[u] = request[u]
      PROVE  WorksOnTheLive'
  <2>1. Good(q) /\ (Live' \subseteq Live \/ Creates(q, request'[q].sub))
    <3>1. CASE Begins(q)
      BY <1>0, <3>1 DEF Begins, OneLive, Live, Syncing, Writing
    <3>2. CASE Expires(q)
      BY <1>0, <3>2 DEF Expires, WorksOnTheLive, Live, Syncing, Writing, SubscriptionsTypeOK
    <3>3. ASSUME NEW s \in Sub, Creates(q, s)
          PROVE  Good(q) /\ Creates(q, request'[q].sub)
      <4>1. Live = {} /\ Live' \subseteq Live \union {s}
        BY <1>0, <3>3 DEF Creates, WorksOnTheLive, Live, SubscriptionsTypeOK
      <4> QED
        BY <3>3, <4>1 DEF Creates, Syncing, Writing
    <3>4. ASSUME NEW k \in Key, Reads(q, k)
          PROVE  Good(q) /\ Live' = Live
      BY <1>0, <3>4 DEF Reads, Found, WorksOnTheLive, Live, Syncing, Writing
    <3>5. ASSUME NEW k \in Key, Writes(q, k)
          PROVE  Good(q) /\ Live' = Live
      BY <1>0, <3>5 DEF Writes, WorksOnTheLive, Live, Syncing, Writing
    <3>6. CASE Finishes(q)
      BY <3>6 DEF Finishes, Live, Syncing, Writing
    <3>7. CASE Cancels(q)
      BY <1>0, <3>7 DEF Cancels, Live, Syncing, Writing, SubscriptionsTypeOK
    <3> QED
      BY <1>2, <3>1, <3>2, <3>3, <3>4, <3>5, <3>6, <3>7 DEF CallMoves
  <2>2. ASSUME NEW u \in Request \ {q}
        PROVE  Good(u)
    <3>1. CASE request[u].pc \in {"free", "cancel"}
      BY <1>2, <3>1 DEF Syncing, Writing
    <3>2. CASE request[u].pc \notin {"free", "cancel"}
      <4>1. request[q].pc \in {"free", "cancel"} /\ request'[q].pc \in {"free", "cancel"}
        BY <1>2, <3>2 DEF CallsAlone, Activating
      <4>2. Begins(q) \/ Cancels(q)
        BY <1>2, <4>1 DEF CallMoves, Expires, Creates, Reads, Writes, Finishes, Writing
      <4>3. Live' \subseteq Live /\ rows' = rows
        BY <2>1, <4>1, <4>2 DEF Begins, Cancels, Creates
      <4> QED
        BY <1>0, <1>2, <4>3 DEF WorksOnTheLive
    <3> QED
      BY <3>1, <3>2
  <2> QED
    BY <2>1, <2>2 DEF WorksOnTheLive
<1> QED
  BY <1>1, <1>2, CallSteps

LEMMA RowsOrWorkStep ==
    ASSUME SubsIInv, CallsIInv, CallsAlone, CallsAlone', [Next]_vars
    PROVE  RowsOrWork'
<1>0. SubscriptionsTypeOK /\ RowsOrWork /\ WorksOnTheLive
  BY DEF SubsIInv, CallsIInv
<1>1. CASE UNCHANGED <<status, subPlan, rows, request>>
  BY <1>0, <1>1 DEF RowsOrWork
<1>2. ASSUME NEW q \in Request, CallMoves(q), \A u \in Request \ {q} : request'[u] = request[u],
             NEW s \in Sub, status'[s] = "active"
      PROVE  /\ subPlan'[s] \notin Endless
             /\ \A k \in SyncKeys(subPlan'[s]) :
                  \/ rows'[k] # NoRow /\ rows'[k].sub = s
                  \/ \E u \in Request :
                        request'[u].pc \in Syncing /\ request'[u].sub = s /\ k \in request'[u].todo
  <2>1. CASE Creates(q, s)
    BY <1>0, <2>1 DEF Creates, Syncing, SubscriptionsTypeOK
  <2>2. CASE ~ Creates(q, s)
    <3>1. status[s] = "active" /\ subPlan'[s] = subPlan[s]
      BY <1>0, <1>2, <2>2
      DEF CallMoves, Begins, Expires, Creates, Reads, Writes, Finishes, Cancels, SubscriptionsTypeOK
    <3>2. s \in Live /\ subPlan[s] \notin Endless
      BY <1>0, <3>1 DEF Live, RowsOrWork
    <3>3. ASSUME NEW k \in SyncKeys(subPlan[s])
          PROVE  \/ rows'[k] # NoRow /\ rows'[k].sub = s
                 \/ \E u \in Request :
                        request'[u].pc \in Syncing /\ request'[u].sub = s /\ k \in request'[u].todo
      <4>0. /\ k \in Key
            /\ \/ rows[k] # NoRow /\ rows[k].sub = s
               \/ \E u \in Request :
                        request[u].pc \in Syncing /\ request[u].sub = s /\ k \in request[u].todo
        <5>1. subPlan[s] \in Plan
          BY <1>0, <3>1 DEF SubsIInv, NoneWithoutPlan, SubscriptionsTypeOK
        <5> QED
          BY <1>0, <3>1, <5>1, SubscriptionAssumption DEF RowsOrWork, SyncKeys
      <4>1. ASSUME NEW j \in Key, Writes(q, j)
            PROVE  \/ rows'[k] # NoRow /\ rows'[k].sub = s
                   \/ \E u \in Request :
                        request'[u].pc \in Syncing /\ request'[u].sub = s /\ k \in request'[u].todo
        <5>1. request[q].sub = s
          BY <1>0, <3>2, <4>1 DEF WorksOnTheLive, Writes, Syncing
        <5>2. CASE k = j
          BY <4>1, <5>1, <5>2 DEF Writes
        <5>3. CASE k # j
          BY <1>2, <4>0, <4>1, <5>1, <5>3 DEF Writes, Syncing
        <5> QED
          BY <5>2, <5>3
      <4>2. CASE Begins(q) \/ Expires(q) \/ Finishes(q) \/ Cancels(q)
        <5>1. rows' = rows /\ request[q].pc \notin Syncing
          BY <4>2 DEF Begins, Expires, Finishes, Cancels, Syncing, Writing
        <5> QED
          BY <1>2, <4>0, <5>1
      <4>3. ASSUME NEW j \in Key, Reads(q, j)
            PROVE  \/ rows'[k] # NoRow /\ rows'[k].sub = s
                   \/ \E u \in Request :
                        request'[u].pc \in Syncing /\ request'[u].sub = s /\ k \in request'[u].todo
        <5>1. rows' = rows /\ request'[q].pc \in Syncing
          BY <4>3 DEF Reads, Found, Syncing, Writing
        <5> QED
          BY <1>2, <4>0, <4>3, <5>1 DEF Reads
      <4>4. ASSUME NEW t \in Sub, Creates(q, t)
            PROVE  FALSE
        BY <1>0, <3>2, <4>4 DEF Creates, WorksOnTheLive
      <4> QED
        BY <1>2, <4>1, <4>2, <4>3, <4>4 DEF CallMoves
    <3> QED
      BY <3>1, <3>2, <3>3
  <2> QED
    BY <2>1, <2>2
<1>3. CASE \E q \in Request :
                CallMoves(q) /\ \A u \in Request \ {q} : request'[u] = request[u]
  BY <1>2, <1>3 DEF RowsOrWork
<1> QED
  BY <1>1, <1>3, CallSteps

LEMMA SuccessorStep ==
    ASSUME SubsIInv, CallsIInv, CallsAlone, CallsAlone', [Next]_vars
    PROVE  EndedHasSuccessor'
<1>0. SubscriptionsTypeOK /\ EndedHasSuccessor
  BY DEF SubsIInv, CallsIInv
<1>1. CASE UNCHANGED <<status, subPlan, rows, request>>
  BY <1>0, <1>1 DEF EndedHasSuccessor
<1>2. ASSUME NEW q \in Request, CallMoves(q), \A u \in Request \ {q} : request'[u] = request[u]
      PROVE  EndedHasSuccessor'
  <2>1. CASE Expires(q)
    BY <2>1 DEF Expires, EndedHasSuccessor
  <2>2. ASSUME NEW s \in Sub, Creates(q, s)
        PROVE  EndedHasSuccessor'
    BY <1>0, <2>2 DEF Creates, EndedHasSuccessor, SubscriptionsTypeOK
  <2>3. CASE Cancels(q)
    <3>1. \A t \in Sub : /\ status'[t] = "expired" => status[t] = "expired"
                         /\ status[t] # "none" /\ status[t] # "expired" =>
                                status'[t] # "none" /\ status'[t] # "expired"
      BY <1>0, <2>3 DEF Cancels, SubscriptionsTypeOK
    <3>2. (\A u \in Request : request'[u].pc # "create") => \A u \in Request : request[u].pc # "create"
      BY <1>2, <2>3 DEF Cancels
    <3> QED
      BY <1>0, <3>1, <3>2 DEF EndedHasSuccessor
  <2>4. CASE Begins(q) \/ (\E k \in Key : Reads(q, k)) \/ (\E k \in Key : Writes(q, k)) \/ Finishes(q)
    <3>1. status' = status /\ request[q].pc # "create"
      BY <2>4 DEF Begins, Reads, Writes, Finishes, Writing
    <3>2. (\A u \in Request : request'[u].pc # "create") => \A u \in Request : request[u].pc # "create"
      BY <1>2, <3>1
    <3> QED
      BY <1>0, <3>1, <3>2 DEF EndedHasSuccessor
  <2> QED
    BY <1>2, <2>1, <2>2, <2>3, <2>4 DEF CallMoves
<1> QED
  BY <1>1, <1>2, CallSteps

\* Between calls nothing is left to write, and a row written for a subscription in
\* its term is visible.
LEMMA CallsKeep ==
    ASSUME SubsIInv, CallsIInv
    PROVE  ActiveIsEntitled /\ TermNotLost
<1>1. ASSUME Quiet, NEW s \in Sub, status[s] = "active", s \notin past, NEW k \in SyncKeys(subPlan[s])
      PROVE  Snapshot[k] = s
  <2>1. subPlan[s] \in Plan /\ subPlan[s] \notin Endless /\ NoSub \notin Sub
    BY <1>1, SubscriptionAssumption
    DEF SubsIInv, NoneWithoutPlan, SubscriptionsTypeOK, CallsIInv, RowsOrWork
  <2>2. k \in Key
    BY <2>1, SubscriptionAssumption DEF SyncKeys
  <2>3. rows[k] # NoRow /\ rows[k].sub = s
    BY <1>1 DEF Quiet, Idle, Syncing, Writing, CallsIInv, RowsOrWork
  <2>4. rows[k].until = s
    BY <2>1, <2>2, <2>3 DEF SubsIInv, RowsEndWithTerm, ExpiresAt
  <2> QED
    BY <1>1, <2>2, <2>3, <2>4 DEF Snapshot
<1>2. ActiveIsEntitled
  BY <1>1, SubscriptionAssumption DEF ActiveIsEntitled, Entitled
<1>3. TermNotLost
  BY DEF TermNotLost, Quiet, Idle, CallsIInv, EndedHasSuccessor
<1> QED
  BY <1>2, <1>3

-----------------------------------------------------------------------------
(* The cache, where calls are alone *)

\* A copy of the rows has no key the rows have something else for.
Follows(copy) ==
    copy # NoCache => \A k \in Key : Snapshot[k] # NoSub => copy[k] = Snapshot[k]

\* The cached copy follows the rows except while an activation writes them, until it
\* deletes that copy; so does what a reader is about to cache.
CacheIInv ==
    /\ (\A q \in Request : request[q].pc \notin Syncing \union {"invalidate"}) => Follows(cache)
    /\ \A r \in Reader : Follows(reader[r])

\* Who writes to the cache and to the readers, and what time does to the rows.
LEMMA CacheWriters ==
    ASSUME SubscriptionsTypeOK, [Next]_vars
    PROVE  /\ past \subseteq past'
           /\ cache' \in {cache, NoCache} \/ \E r \in Reader : FillCache(r)
           /\ \A r \in Reader : reader'[r] \in {reader[r], NoCache} \/ ReadRows(r)
<1>1. past \subseteq past'
  BY ZenonT(60) DEF Next, ActivateStep, CronStep, BeginActivate, ExpireOld, Create, ReadRow, SyncRow,
         InvalidateAfterSync, BeginCancel, SaveCancelled, RequestFails, ListLapsed, ListGraceLapsed,
         EndRun, Expire, EndGrace, DeleteRows, ReadFree, WriteFree, InvalidateAfterReset, CallFails,
         ReadRows, FillCache, TermEnds, GraceRunsOut, CacheExpires, vars, dbVars
<1>2. cache' \in {cache, NoCache} \/ \E r \in Reader : FillCache(r)
  BY ZenonT(60) DEF Next, ActivateStep, CronStep, BeginActivate, ExpireOld, Create, ReadRow, SyncRow,
         InvalidateAfterSync, BeginCancel, SaveCancelled, RequestFails, ListLapsed, ListGraceLapsed,
         EndRun, Expire, EndGrace, DeleteRows, ReadFree, WriteFree, InvalidateAfterReset, CallFails,
         ReadRows, TermEnds, GraceRunsOut, CacheExpires, vars
<1>3. UNCHANGED reader \/ \E r \in Reader : ReadRows(r) \/ FillCache(r)
  BY ZenonT(60) DEF Next, ActivateStep, CronStep, BeginActivate, ExpireOld, Create, ReadRow, SyncRow,
         InvalidateAfterSync, BeginCancel, SaveCancelled, RequestFails, ListLapsed, ListGraceLapsed,
         EndRun, Expire, EndGrace, DeleteRows, ReadFree, WriteFree, InvalidateAfterReset, CallFails,
         TermEnds, GraceRunsOut, CacheExpires, vars
<1>4. ASSUME NEW r \in Reader, NEW u \in Reader, ReadRows(u) \/ FillCache(u)
      PROVE  reader'[r] \in {reader[r], NoCache} \/ ReadRows(r)
  BY <1>4 DEF ReadRows, FillCache, SubscriptionsTypeOK
<1> QED
  BY <1>1, <1>2, <1>3, <1>4

\* What time takes from the rows makes no copy of them wrong.
LEMMA SnapshotShrinks ==
    ASSUME rows' = rows, past \subseteq past'
    PROVE  \A k \in Key : Snapshot'[k] # NoSub => Snapshot[k] = Snapshot'[k]
BY DEF Snapshot

LEMMA CacheStep ==
    ASSUME SubsIInv, CallsIInv, CacheIInv, CallsAlone, CallsAlone', FillsAlone, FillsAlone', [Next]_vars
    PROVE  CacheIInv'
<1>0. SubscriptionsTypeOK
  BY DEF SubsIInv
<1> DEFINE Stale(pc) == pc \in Syncing \union {"invalidate"}
<1>1. \/ UNCHANGED <<rows, request>>
      \/ \E q \in Request :
            CallMoves(q) /\ \A u \in Request \ {q} : request'[u] = request[u]
  BY CallSteps
<1>2. ASSUME \A q \in Request : ~ Stale(request[q].pc)
      PROVE  rows' = rows
  BY <1>1, <1>2 DEF CallMoves, Begins, Expires, Creates, Reads, Writes, Finishes, Cancels, Syncing, Writing
<1>3. ASSUME NEW r \in Reader, reader'[r] # NoCache
      PROVE  Follows(reader[r])'
  <2>1. CASE reader'[r] = reader[r]
    <3>1. Activating = {}
      BY <1>3, <2>1 DEF FillsAlone
    <3>2. \A q \in Request : ~ Stale(request[q].pc)
      BY <3>1 DEF Activating, Syncing, Writing
    <3>3. rows' = rows /\ past \subseteq past'
      BY <1>0, <1>2, <3>2, CacheWriters
    <3>4. \A k \in Key : Snapshot'[k] # NoSub => Snapshot[k] = Snapshot'[k]
      BY <3>3, SnapshotShrinks
    <3> QED
      BY <1>3, <2>1, <3>4 DEF CacheIInv, Follows
  <2>2. CASE ReadRows(r)
    <3>1. reader'[r] = Snapshot /\ rows' = rows /\ past' = past
      BY <1>0, <2>2 DEF ReadRows, dbVars, SubscriptionsTypeOK
    <3>2. Snapshot' = Snapshot
      BY <3>1 DEF Snapshot
    <3> QED
      BY <3>1, <3>2 DEF Follows
  <2> QED
    BY <1>0, <1>3, <2>1, <2>2, CacheWriters
<1>4. ASSUME \A q \in Request : ~ Stale(request'[q].pc), cache' # NoCache
      PROVE  Follows(cache)'
  <2>1. ASSUME NEW r \in Reader, FillCache(r), cache' = reader[r]
        PROVE  Follows(cache)'
    <3>1. Follows(reader[r]) /\ rows' = rows /\ past' = past
      BY <2>1 DEF FillCache, CacheIInv, dbVars
    <3>2. Snapshot' = Snapshot
      BY <3>1 DEF Snapshot
    <3> QED
      BY <2>1, <3>1, <3>2 DEF Follows
  <2>2. CASE cache' = cache
    <3>1. \A q \in Request : ~ Stale(request[q].pc)
      <4>1. CASE UNCHANGED <<rows, request>>
        BY <1>4, <4>1
      <4>2. ASSUME NEW q \in Request, CallMoves(q), \A u \in Request \ {q} : request'[u] = request[u]
            PROVE  \A u \in Request : ~ Stale(request[u].pc)
        <5>1. ~ Finishes(q)
          BY <1>4 DEF Finishes
        <5>2. ~ Stale(request[q].pc)
          BY <1>4, <4>2, <5>1
          DEF CallMoves, Begins, Expires, Creates, Reads, Writes, Cancels, Found, Syncing, Writing
        <5> QED
          BY <1>4, <4>2, <5>2
      <4> QED
        BY <1>1, <4>1, <4>2
    <3>2. rows' = rows /\ past \subseteq past'
      BY <1>0, <1>2, <3>1, CacheWriters
    <3>3. \A k \in Key : Snapshot'[k] # NoSub => Snapshot[k] = Snapshot'[k]
      BY <3>2, SnapshotShrinks
    <3> QED
      BY <1>4, <2>2, <3>1, <3>3 DEF CacheIInv, Follows
  <2>3. cache' = cache \/ \E r \in Reader : FillCache(r) /\ cache' = reader[r]
    BY <1>0, <1>4, CacheWriters DEF FillCache
  <2> QED
    BY <2>1, <2>2, <2>3
<1>5. \A r \in Reader : Follows(reader[r])'
  BY <1>3 DEF Follows
<1> QED
  BY <1>4, <1>5 DEF CacheIInv, Follows

-----------------------------------------------------------------------------
(* The calendar *)

\* The day number before the first of a month, as DayNumber counts.
YearStart(y) == 365 * y + (y - 1) \div 4 - (y - 1) \div 100 + (y - 1) \div 400
LeapDay(y) == IF IsLeap(y) THEN 1 ELSE 0
MonthStart(y, m) ==
    YearStart(y) + <<0, 31, 59, 90, 120, 151, 181, 212, 243, 273, 304, 334>>[m]
    + (IF m > 2 THEN LeapDay(y) ELSE 0)

Year == Nat \ {0}
Dates == {t \in [y : Year, m : 1 .. 12, d : 1 .. 31] : t.d <= DaysInMonth(t.y, t.m)}

\* A month has 28 to 31 days, and only February's depend on the year.
LEMMA MonthLengths ==
    ASSUME NEW y \in Year
    PROVE  /\ \A m \in 1 .. 12 : DaysInMonth(y, m) \in 28 .. 31
           /\ DaysInMonth(y, 2) = 28 + LeapDay(y) /\ LeapDay(y) \in 0 .. 1
           /\ \A m \in {1, 3, 5, 7, 8, 10, 12} : DaysInMonth(y, m) = 31
           /\ \A m \in {4, 6, 9, 11} : DaysInMonth(y, m) = 30
BY DEF DaysInMonth, LeapDay

\* Leap years are the ones the days before a year are counted with.
LEMMA YearLength ==
    ASSUME NEW y \in Year
    PROVE  YearStart(y) \in Int /\ YearStart(y + 1) = YearStart(y) + 365 + LeapDay(y)
<1>1. /\ y \div 4 - (y - 1) \div 4 = IF y % 4 = 0 THEN 1 ELSE 0
      /\ y \div 100 - (y - 1) \div 100 = IF y % 100 = 0 THEN 1 ELSE 0
      /\ y \div 400 - (y - 1) \div 400 = IF y % 400 = 0 THEN 1 ELSE 0
      /\ y % 100 = 0 => y % 4 = 0
      /\ y % 400 = 0 => y % 100 = 0
  BY DEF Year
<1>2. (y + 1) - 1 = y
  BY DEF Year
<1>3. YearStart(y + 1) = 365 * (y + 1) + y \div 4 - y \div 100 + y \div 400
  BY <1>2 DEF YearStart
<1> QED
  BY <1>1, <1>3 DEF YearStart, LeapDay, IsLeap, Year

\* A month begins as many days after the one before as that one has.
LEMMA MonthAfterMonth ==
    ASSUME NEW y \in Year, NEW m \in 1 .. 12
    PROVE  /\ MonthStart(y, m) \in Int
           /\ m < 12 => MonthStart(y, m + 1) = MonthStart(y, m) + DaysInMonth(y, m)
           /\ m = 12 => MonthStart(y + 1, 1) = MonthStart(y, m) + DaysInMonth(y, m)
<1>1. YearStart(y) \in Int /\ YearStart(y + 1) = YearStart(y) + 365 + LeapDay(y) /\ LeapDay(y) \in 0 .. 1
  BY YearLength, MonthLengths
<1>2. \/ m = 1 \/ m = 2 \/ m = 3 \/ m = 4 \/ m = 5 \/ m = 6 \/ m = 7 \/ m = 8 \/ m = 9 \/ m = 10
      \/ m = 11 \/ m = 12
  OBVIOUS
<1>3. MonthStart(y, m) \in Int
  BY <1>1, <1>2 DEF MonthStart
<1>4. DaysInMonth(y, 2) = 28 + LeapDay(y)
  BY MonthLengths
<1>5. CASE m = 1 \/ m = 2 \/ m = 3 \/ m = 4
  BY <1>1, <1>3, <1>4, <1>5 DEF MonthStart, DaysInMonth
<1>6. CASE m = 5 \/ m = 6 \/ m = 7 \/ m = 8
  BY <1>1, <1>3, <1>6 DEF MonthStart, DaysInMonth
<1>7. CASE m = 9 \/ m = 10 \/ m = 11
  BY <1>1, <1>3, <1>7 DEF MonthStart, DaysInMonth
<1>8. CASE m = 12
  BY <1>1, <1>3, <1>8 DEF MonthStart, DaysInMonth
<1> QED
  BY <1>2, <1>5, <1>6, <1>7, <1>8

LEMMA DayOfMonth ==
    ASSUME NEW t \in Dates
    PROVE  DayNumber(t) = MonthStart(t.y, t.m) + t.d
<1>1. t.y \in Year /\ t.m \in 1 .. 12 /\ t.d \in 1 .. 31
  BY DEF Dates
<1>2. YearStart(t.y) \in Int /\ LeapDay(t.y) \in 0 .. 1
  BY <1>1, YearLength, MonthLengths
<1> QED
  BY <1>1, <1>2 DEF DayNumber, MonthStart, YearStart, LeapDay

\* Days carried over the end of a month are days after it, if they stay in the next.
LEMMA CarriedDays ==
    ASSUME NEW y \in Year, NEW m \in 1 .. 12, NEW d \in 1 .. DaysInMonth(y, m) + 28
    PROVE  /\ Carried(y, m, d) \in Dates
           /\ DayNumber(Carried(y, m, d)) = MonthStart(y, m) + d
<1>1. DaysInMonth(y, m) \in 28 .. 31 /\ MonthStart(y, m) \in Int
  BY MonthLengths, MonthAfterMonth
<1>2. CASE d <= DaysInMonth(y, m)
  <2>1. Carried(y, m, d) = [y |-> y, m |-> m, d |-> d]
    BY <1>2 DEF Carried
  <2>2. Carried(y, m, d) \in Dates
    BY <1>1, <1>2, <2>1 DEF Dates
  <2> QED
    BY <2>1, <2>2, DayOfMonth
<1>3. CASE d > DaysInMonth(y, m)
  <2>0. /\ (IF m = 12 THEN y + 1 ELSE y) \in Year /\ (m % 12) + 1 \in 1 .. 12
        /\ d - DaysInMonth(y, m) \in 1 .. 28
    BY <1>1, <1>3 DEF Year
  <2>1. PICK z \in Year, n \in 1 .. 12, e \in 1 .. 28 :
            /\ z = (IF m = 12 THEN y + 1 ELSE y) /\ n = (m % 12) + 1 /\ e = d - DaysInMonth(y, m)
    BY <2>0
  <2>2. Carried(y, m, d) = [y |-> z, m |-> n, d |-> e]
    BY <1>1, <1>3, <2>1 DEF Carried
  <2>3. Carried(y, m, d) \in Dates
    BY <2>1, <2>2, MonthLengths DEF Dates
  <2>4. MonthStart(z, n) = MonthStart(y, m) + DaysInMonth(y, m)
    BY <2>1, MonthAfterMonth
  <2> QED
    BY <1>1, <2>1, <2>2, <2>3, <2>4, DayOfMonth
<1> QED
  BY <1>1, <1>2, <1>3

-----------------------------------------------------------------------------
(* Weeks and years *)

\* Tomorrow is the next day, later in the month or the first of the one after.
LEMMA TomorrowIsNext ==
    ASSUME NEW t \in Dates
    PROVE  /\ Tomorrow(t) \in Dates /\ DayNumber(Tomorrow(t)) = DayNumber(t) + 1
           /\ t.d < DaysInMonth(t.y, t.m) => Tomorrow(t) = [y |-> t.y, m |-> t.m, d |-> t.d + 1]
           /\ t.d = DaysInMonth(t.y, t.m) =>
                Tomorrow(t) = [y |-> IF t.m = 12 THEN t.y + 1 ELSE t.y, m |-> (t.m % 12) + 1, d |-> 1]
<1>1. t.y \in Year /\ t.m \in 1 .. 12 /\ t.d \in 1 .. DaysInMonth(t.y, t.m)
  BY DEF Dates
<1>2. DaysInMonth(t.y, t.m) \in 28 .. 31 /\ MonthStart(t.y, t.m) \in Int
  BY <1>1, MonthLengths, MonthAfterMonth
<1>3. t.d + 1 \in 1 .. DaysInMonth(t.y, t.m) + 28
  BY <1>1, <1>2
<1>4. Tomorrow(t) \in Dates /\ DayNumber(Tomorrow(t)) = MonthStart(t.y, t.m) + (t.d + 1)
  BY <1>1, <1>3, CarriedDays DEF Tomorrow
<1> QED
  BY <1>1, <1>2, <1>4, DayOfMonth DEF Tomorrow, Carried

\* What TermsAreRight says of one cycle.
TermIsRight(cycle) ==
    LET e == CalculateExpiry(date, cycle)
    IN /\ e.m \in 1 .. 12 /\ e.d \in 1 .. DaysInMonth(e.y, e.m)
       /\ DayNumber(e) - DayNumber(date) \in Lengths(cycle)
       /\ DayNumber(e) <= DayNumber(CalculateExpiry(Tomorrow(date), cycle))
       /\ cycle \in {"monthly", "quarterly"} =>
            /\ 12 * e.y + e.m = 12 * date.y + date.m + (IF cycle = "monthly" THEN 1 ELSE 3)
            /\ e.d = date.d \/ (e.d < date.d /\ e.d = DaysInMonth(e.y, e.m))
       /\ cycle = "yearly" =>
            \/ e = [date EXCEPT !.y = @ + 1]
            \/ (date.m = 2 /\ date.d = 29 /\ e = [y |-> date.y + 1, m |-> 3, d |-> 1])

\* A week is seven days.
LEMMA WeeksAreRight ==
    ASSUME date \in Dates
    PROVE  TermIsRight("weekly")
<1>1. \A t \in Dates : /\ CalculateExpiry(t, "weekly") \in Dates
                       /\ DayNumber(CalculateExpiry(t, "weekly")) = DayNumber(t) + 7
  <2>1. SUFFICES ASSUME NEW t \in Dates
                 PROVE  /\ CalculateExpiry(t, "weekly") \in Dates
                        /\ DayNumber(CalculateExpiry(t, "weekly")) = DayNumber(t) + 7
    OBVIOUS
  <2>2. t.y \in Year /\ t.m \in 1 .. 12 /\ t.d \in 1 .. DaysInMonth(t.y, t.m)
    BY DEF Dates
  <2>3. DaysInMonth(t.y, t.m) \in 28 .. 31 /\ MonthStart(t.y, t.m) \in Int
    BY <2>2, MonthLengths, MonthAfterMonth
  <2>4. t.d + 7 \in 1 .. DaysInMonth(t.y, t.m) + 28
    BY <2>2, <2>3
  <2>5. CalculateExpiry(t, "weekly") = Carried(t.y, t.m, t.d + 7)
    BY DEF CalculateExpiry
  <2>6. /\ CalculateExpiry(t, "weekly") \in Dates
        /\ DayNumber(CalculateExpiry(t, "weekly")) = MonthStart(t.y, t.m) + (t.d + 7)
    BY <2>2, <2>4, <2>5, CarriedDays
  <2> QED
    BY <2>2, <2>3, <2>6, DayOfMonth
<1>2. Lengths("weekly") = 7 .. 7
  BY DEF Lengths
<1>3. DayNumber(date) \in Int
  BY DayOfMonth, MonthAfterMonth DEF Dates
<1>4. PICK e \in Dates : e = CalculateExpiry(date, "weekly") /\ DayNumber(e) = DayNumber(date) + 7
  BY <1>1
<1>5. DayNumber(CalculateExpiry(Tomorrow(date), "weekly")) = DayNumber(date) + 8
  BY <1>1, <1>3, TomorrowIsNext
<1>6. e.m \in 1 .. 12 /\ e.d \in 1 .. DaysInMonth(e.y, e.m)
  BY DEF Dates
<1> QED
  BY <1>2, <1>3, <1>4, <1>5, <1>6 DEF TermIsRight

\* The same day of the next year, or the first of March: the leap day that is between
\* makes it 366.
LEMMA YearsAreRight ==
    ASSUME date \in Dates
    PROVE  TermIsRight("yearly")
<1>0. \A y \in Year : y + 1 \in Year /\ y + 2 \in Year
  BY DEF Year
<1>1. ASSUME NEW y \in Year, NEW m \in 1 .. 12
      PROVE  /\ DaysInMonth(y, m) <= DaysInMonth(y + 1, m) + 1
             /\ MonthStart(y + 1, m) - MonthStart(y, m) \in 365 .. 366
  <2>1. YearStart(y) \in Int /\ YearStart(y + 1) = YearStart(y) + 365 + LeapDay(y)
    BY YearLength
  <2>2. LeapDay(y) \in 0 .. 1 /\ LeapDay(y + 1) \in 0 .. 1
    BY <1>0, MonthLengths
  <2>3. <<0, 31, 59, 90, 120, 151, 181, 212, 243, 273, 304, 334>>[m] \in Int
    OBVIOUS
  <2> QED
    BY <2>1, <2>2, <2>3 DEF DaysInMonth, MonthStart
<1>2. ASSUME NEW t \in Dates
      PROVE  /\ CalculateExpiry(t, "yearly") \in Dates
             /\ DayNumber(CalculateExpiry(t, "yearly")) = MonthStart(t.y + 1, t.m) + t.d
  <2>1. t.y \in Year /\ t.m \in 1 .. 12 /\ t.d \in 1 .. DaysInMonth(t.y, t.m)
    BY DEF Dates
  <2>2. DaysInMonth(t.y, t.m) \in 28 .. 31 /\ DaysInMonth(t.y + 1, t.m) \in 28 .. 31
    BY <1>0, <2>1, MonthLengths
  <2>3. t.y + 1 \in Year /\ t.d \in 1 .. DaysInMonth(t.y + 1, t.m) + 28
    BY <1>0, <1>1, <2>1, <2>2
  <2>4. CalculateExpiry(t, "yearly") = Carried(t.y + 1, t.m, t.d)
    BY DEF CalculateExpiry
  <2> QED
    BY <2>1, <2>3, <2>4, CarriedDays
<1>3. date.y \in Year /\ date.m \in 1 .. 12 /\ date.d \in 1 .. DaysInMonth(date.y, date.m)
  BY DEF Dates
<1>4. PICK e \in Dates : e = CalculateExpiry(date, "yearly") /\ DayNumber(e) = MonthStart(date.y + 1, date.m) + date.d
  BY <1>2
<1>5. e.m \in 1 .. 12 /\ e.d \in 1 .. DaysInMonth(e.y, e.m)
  BY DEF Dates
<1>6. MonthStart(date.y, date.m) \in Int /\ MonthStart(date.y + 1, date.m) \in Int
  BY <1>0, <1>3, MonthAfterMonth
<1>7. DayNumber(e) - DayNumber(date) \in Lengths("yearly")
  BY <1>1, <1>3, <1>4, <1>6, DayOfMonth DEF Lengths
<1>8. DayNumber(e) <= DayNumber(CalculateExpiry(Tomorrow(date), "yearly"))
  <2>1. PICK u \in Dates : u = Tomorrow(date)
    BY TomorrowIsNext
  <2>2. DayNumber(CalculateExpiry(u, "yearly")) = MonthStart(u.y + 1, u.m) + u.d
    BY <1>2
  <2>3. DaysInMonth(date.y, date.m) \in 28 .. 31 /\ DaysInMonth(date.y + 1, date.m) \in 28 .. 31
        /\ DaysInMonth(date.y, date.m) <= DaysInMonth(date.y + 1, date.m) + 1
    BY <1>0, <1>1, <1>3, MonthLengths
  <2>4. CASE date.d < DaysInMonth(date.y, date.m)
    BY <1>3, <1>4, <1>6, <2>1, <2>2, <2>3, <2>4, TomorrowIsNext
  <2>5. CASE date.d = DaysInMonth(date.y, date.m)
    <3>1. u = [y |-> IF date.m = 12 THEN date.y + 1 ELSE date.y, m |-> (date.m % 12) + 1, d |-> 1]
      BY <2>1, <2>5, TomorrowIsNext
    <3>2. MonthStart(u.y + 1, u.m) = MonthStart(date.y + 1, date.m) + DaysInMonth(date.y + 1, date.m)
      BY <1>0, <1>3, <3>1, MonthAfterMonth
    <3> QED
      BY <1>3, <1>4, <1>6, <2>1, <2>2, <2>3, <2>5, <3>1, <3>2
  <2> QED
    BY <1>3, <2>3, <2>4, <2>5
<1>9. e = [date EXCEPT !.y = @ + 1] \/ (date.m = 2 /\ date.d = 29 /\ e = [y |-> date.y + 1, m |-> 3, d |-> 1])
  <2>1. e = Carried(date.y + 1, date.m, date.d)
    BY <1>4 DEF CalculateExpiry
  <2>2. CASE date.d <= DaysInMonth(date.y + 1, date.m)
    BY <2>1, <2>2 DEF Carried, Dates
  <2>3. CASE date.d > DaysInMonth(date.y + 1, date.m)
    <3>1. date.m = 2 /\ DaysInMonth(date.y + 1, date.m) = 28 /\ date.d = 29
      BY <1>3, <2>3 DEF DaysInMonth
    <3> QED
      BY <2>1, <2>3, <3>1 DEF Carried
  <2> QED
    BY <1>0, <1>3, <2>2, <2>3, MonthLengths
<1> QED
  BY <1>4, <1>5, <1>7, <1>8, <1>9 DEF TermIsRight

-----------------------------------------------------------------------------
(* Months *)

\* The month that is n after month m of year y: its year, its number and its start.
AheadYear(y, m, n) == y + (m + n - 1) \div 12
AheadMonth(m, n) == ((m + n - 1) % 12) + 1
AheadStart(y, m, n) == MonthStart(AheadYear(y, m, n), AheadMonth(m, n))
AheadLength(y, m, n) == DaysInMonth(AheadYear(y, m, n), AheadMonth(m, n))

LEMMA MonthsAhead ==
    ASSUME NEW y \in Year, NEW m \in 1 .. 12, NEW n \in {1, 3}
    PROVE  /\ AheadYear(y, m, n) \in Year /\ AheadMonth(m, n) \in 1 .. 12
           /\ AheadStart(y, m, n) \in Int /\ AheadLength(y, m, n) \in 28 .. 31
           /\ m < 12 => AheadStart(y, m + 1, n) = AheadStart(y, m, n) + AheadLength(y, m, n)
           /\ m = 12 => AheadStart(y + 1, 1, n) = AheadStart(y, m, n) + AheadLength(y, m, n)
<1>1. AheadYear(y, m, n) \in Year /\ AheadMonth(m, n) \in 1 .. 12
  BY DEF AheadYear, AheadMonth, Year
<1>2. PICK z \in Year, k \in 1 .. 12 : z = AheadYear(y, m, n) /\ k = AheadMonth(m, n)
  BY <1>1
<1>3. /\ MonthStart(z, k) \in Int /\ DaysInMonth(z, k) \in 28 .. 31
      /\ k < 12 => MonthStart(z, k + 1) = MonthStart(z, k) + DaysInMonth(z, k)
      /\ k = 12 => MonthStart(z + 1, 1) = MonthStart(z, k) + DaysInMonth(z, k)
  BY MonthAfterMonth, MonthLengths
<1>4. m < 12 =>
        /\ k < 12 => AheadYear(y, m + 1, n) = z /\ AheadMonth(m + 1, n) = k + 1
        /\ k = 12 => AheadYear(y, m + 1, n) = z + 1 /\ AheadMonth(m + 1, n) = 1
  BY <1>2 DEF AheadYear, AheadMonth, Year
<1>5. m = 12 => k < 12 /\ AheadYear(y + 1, 1, n) = z /\ AheadMonth(1, n) = k + 1
  BY <1>2 DEF AheadYear, AheadMonth, Year
<1> QED
  BY <1>2, <1>3, <1>4, <1>5 DEF AheadStart, AheadLength

\* The day is kept or is the last one there is.
LEMMA ClampedDay ==
    ASSUME NEW t \in Dates, NEW n \in {1, 3}
    PROVE  /\ AddMonthsClamped(t, n) \in Dates
           /\ \/ t.d <= AheadLength(t.y, t.m, n)
                 /\ AddMonthsClamped(t, n).d = t.d
                 /\ DayNumber(AddMonthsClamped(t, n)) = AheadStart(t.y, t.m, n) + t.d
              \/ t.d > AheadLength(t.y, t.m, n)
                 /\ AddMonthsClamped(t, n).d = DaysInMonth(AddMonthsClamped(t, n).y, AddMonthsClamped(t, n).m)
                 /\ AddMonthsClamped(t, n).d < t.d
                 /\ DayNumber(AddMonthsClamped(t, n)) = AheadStart(t.y, t.m, n) + AheadLength(t.y, t.m, n)
<1>1. t.y \in Year /\ t.m \in 1 .. 12 /\ t.d \in 1 .. 31
  BY DEF Dates
<1>2. PICK z \in Year, k \in 1 .. 12 : z = AheadYear(t.y, t.m, n) /\ k = AheadMonth(t.m, n)
  BY <1>1, MonthsAhead
<1>3. DaysInMonth(z, k) \in 28 .. 31
  BY MonthLengths
<1>4. PICK d \in 1 .. 31 : d = (IF t.d > DaysInMonth(z, k) THEN DaysInMonth(z, k) ELSE t.d)
  BY <1>1, <1>3
<1>5. AddMonthsClamped(t, n) = [y |-> z, m |-> k, d |-> d]
  BY <1>2, <1>4 DEF AddMonthsClamped, AheadYear, AheadMonth
<1>6. AddMonthsClamped(t, n) \in Dates
  BY <1>1, <1>3, <1>4, <1>5 DEF Dates
<1>7. DayNumber(AddMonthsClamped(t, n)) = MonthStart(z, k) + d
  BY <1>5, <1>6, DayOfMonth
<1> QED
  BY <1>1, <1>2, <1>3, <1>4, <1>5, <1>6, <1>7 DEF AheadStart, AheadLength

\* One month ahead is as far as the month is long, three are 89 to 92 days, and a day
\* that is cut off is one of the longer month.
LEMMA MonthsAreLong ==
    ASSUME NEW y \in Year, NEW m \in 1 .. 12
    PROVE  /\ AheadStart(y, m, 1) = MonthStart(y, m) + DaysInMonth(y, m)
           /\ AheadStart(y, m, 3) - MonthStart(y, m) \in 89 .. 92
           /\ AheadStart(y, m, 3) - MonthStart(y, m) + AheadLength(y, m, 3) - DaysInMonth(y, m)
                >= 89 \/ AheadLength(y, m, 3) >= DaysInMonth(y, m)
<1>0. y + 1 \in Year
  BY DEF Year
<1>1. /\ YearStart(y) \in Int /\ YearStart(y + 1) = YearStart(y) + 365 + LeapDay(y)
      /\ LeapDay(y) \in 0 .. 1 /\ LeapDay(y + 1) \in 0 .. 1
  BY <1>0, YearLength, MonthLengths
<1>2. DaysInMonth(y, 2) = 28 + LeapDay(y) /\ DaysInMonth(y + 1, 2) = 28 + LeapDay(y + 1)
  BY <1>0, MonthLengths
<1>3. MonthStart(y, m) \in Int /\ DaysInMonth(y, m) \in 28 .. 31
  BY MonthAfterMonth, MonthLengths
<1>4. AheadStart(y, m, 1) = MonthStart(y, m) + DaysInMonth(y, m)
  <2>1. CASE m < 12
    <3>1. AheadYear(y, m, 1) = y /\ AheadMonth(m, 1) = m + 1
      BY <2>1 DEF AheadYear, AheadMonth, Year
    <3> QED
      BY <2>1, <3>1, MonthAfterMonth DEF AheadStart
  <2>2. CASE m = 12
    <3>1. AheadYear(y, m, 1) = y + 1 /\ AheadMonth(m, 1) = 1
      BY <2>2 DEF AheadYear, AheadMonth, Year
    <3> QED
      BY <2>2, <3>1, MonthAfterMonth DEF AheadStart
  <2> QED
    BY <2>1, <2>2
<1>5. CASE m \in 1 .. 9
  <2>1. AheadYear(y, m, 3) = y /\ AheadMonth(m, 3) = m + 3
    BY <1>5 DEF AheadYear, AheadMonth, Year
  <2>2. \/ m = 1 \/ m = 2 \/ m = 3 \/ m = 4 \/ m = 5 \/ m = 6 \/ m = 7 \/ m = 8 \/ m = 9
    BY <1>5
  <2>3. CASE m = 1 \/ m = 2 \/ m = 3
    BY <1>1, <1>2, <1>4, <2>1, <2>3 DEF AheadStart, AheadLength, MonthStart, DaysInMonth
  <2>4. CASE m = 4 \/ m = 5 \/ m = 6
    BY <1>1, <1>2, <1>4, <2>1, <2>4 DEF AheadStart, AheadLength, MonthStart, DaysInMonth
  <2>5. CASE m = 7 \/ m = 8 \/ m = 9
    BY <1>1, <1>2, <1>4, <2>1, <2>5 DEF AheadStart, AheadLength, MonthStart, DaysInMonth
  <2> QED
    BY <2>2, <2>3, <2>4, <2>5
<1>6. CASE m \in 10 .. 12
  <2>1. AheadYear(y, m, 3) = y + 1 /\ AheadMonth(m, 3) = m - 9
    BY <1>6 DEF AheadYear, AheadMonth, Year
  <2>2. m = 10 \/ m = 11 \/ m = 12
    BY <1>6
  <2> QED
    BY <1>1, <1>2, <1>4, <2>1, <2>2 DEF AheadStart, AheadLength, MonthStart, DaysInMonth
<1> QED
  BY <1>5, <1>6

\* addMonthsClamped for any number of months: the result is a date that many months
\* on, on the same day of the month or, where there is none, on its last.
THEOREM AddMonthsCorrect ==
    \A t \in Dates, n \in Nat :
        LET e == AddMonthsClamped(t, n)
        IN /\ e \in Dates
           /\ 12 * e.y + e.m = 12 * t.y + t.m + n
           /\ e.d = t.d \/ (e.d < t.d /\ e.d = DaysInMonth(e.y, e.m))
<1> SUFFICES ASSUME NEW t \in Dates, NEW n \in Nat, NEW e, e = AddMonthsClamped(t, n)
             PROVE  /\ e \in Dates
                    /\ 12 * e.y + e.m = 12 * t.y + t.m + n
                    /\ e.d = t.d \/ (e.d < t.d /\ e.d = DaysInMonth(e.y, e.m))
  OBVIOUS
<1>1. t.y \in Year /\ t.m \in 1 .. 12 /\ t.d \in 1 .. 31
  BY DEF Dates
<1>2. /\ AheadYear(t.y, t.m, n) \in Year /\ AheadMonth(t.m, n) \in 1 .. 12
      /\ 12 * AheadYear(t.y, t.m, n) + AheadMonth(t.m, n) = 12 * t.y + t.m + n
  <2>1. PICK q \in Nat : q = t.m + n - 1
    BY <1>1
  <2>2. q \div 12 \in Nat /\ q % 12 \in 0 .. 11 /\ 12 * (q \div 12) + (q % 12) = q
    BY <2>1
  <2>3. PICK a \in Nat, r \in 0 .. 11 : a = q \div 12 /\ r = q % 12
    BY <2>2
  <2>4. PICK y \in Nat \ {0}, m \in 1 .. 12 : y = t.y /\ m = t.m
    BY <1>1 DEF Year
  <2>5. AheadYear(t.y, t.m, n) = y + a /\ AheadMonth(t.m, n) = r + 1
    BY <2>1, <2>3, <2>4 DEF AheadYear, AheadMonth
  <2>6. 12 * a + r = m + n - 1
    BY <2>1, <2>2, <2>3, <2>4
  <2>7. y + a \in Nat \ {0} /\ r + 1 \in 1 .. 12 /\ 12 * (y + a) + (r + 1) = 12 * y + m + n
    BY <2>6
  <2> QED
    BY <2>4, <2>5, <2>7 DEF Year
<1>3. PICK z \in Year, k \in 1 .. 12 : z = AheadYear(t.y, t.m, n) /\ k = AheadMonth(t.m, n)
  BY <1>2
<1>4. DaysInMonth(z, k) \in 28 .. 31
  BY MonthLengths
<1>5. e = [y |-> z, m |-> k, d |-> IF t.d > DaysInMonth(z, k) THEN DaysInMonth(z, k) ELSE t.d]
  BY <1>3 DEF AddMonthsClamped, AheadYear, AheadMonth
<1>6. PICK d \in 1 .. 31 : /\ e = [y |-> z, m |-> k, d |-> d]
                           /\ d = t.d \/ (d < t.d /\ d = DaysInMonth(z, k))
                           /\ d <= DaysInMonth(z, k)
  BY <1>1, <1>4, <1>5
<1>7. e \in Dates
  BY <1>4, <1>6 DEF Dates
<1> QED
  BY <1>2, <1>3, <1>6, <1>7

LEMMA MonthsAreRight ==
    ASSUME date \in Dates, NEW n \in {1, 3}, NEW cycle \in {"monthly", "quarterly"},
           cycle = IF n = 1 THEN "monthly" ELSE "quarterly"
    PROVE  TermIsRight(cycle)
<1>1. \A t : CalculateExpiry(t, cycle) = AddMonthsClamped(t, n)
  BY DEF CalculateExpiry
<1>2. date.y \in Year /\ date.m \in 1 .. 12 /\ date.d \in 1 .. DaysInMonth(date.y, date.m)
  BY DEF Dates
<1>3. PICK e \in Dates : e = CalculateExpiry(date, cycle)
  BY <1>1, ClampedDay
<1>4. e.m \in 1 .. 12 /\ e.d \in 1 .. DaysInMonth(e.y, e.m)
  BY DEF Dates
<1>5. /\ MonthStart(date.y, date.m) \in Int /\ AheadStart(date.y, date.m, n) \in Int
      /\ DaysInMonth(date.y, date.m) \in 28 .. 31 /\ AheadLength(date.y, date.m, n) \in 28 .. 31
  BY <1>2, MonthsAhead, MonthAfterMonth, MonthLengths
<1>6. /\ DayNumber(date) = MonthStart(date.y, date.m) + date.d
      /\ \/ /\ date.d <= AheadLength(date.y, date.m, n) /\ e.d = date.d
            /\ DayNumber(e) = AheadStart(date.y, date.m, n) + date.d
         \/ /\ date.d > AheadLength(date.y, date.m, n) /\ e.d < date.d /\ e.d = DaysInMonth(e.y, e.m)
            /\ DayNumber(e) = AheadStart(date.y, date.m, n) + AheadLength(date.y, date.m, n)
  BY <1>1, <1>3, ClampedDay, DayOfMonth
<1>7. DayNumber(e) - DayNumber(date) \in Lengths(cycle)
  <2>1. CASE n = 1
    <3>1. Lengths(cycle) = 28 .. 31
      BY <2>1 DEF Lengths
    <3>2. AheadStart(date.y, date.m, 1) = MonthStart(date.y, date.m) + DaysInMonth(date.y, date.m)
      BY <1>2, MonthsAreLong
    <3> QED
      BY <1>2, <1>5, <1>6, <2>1, <3>1, <3>2
  <2>2. CASE n = 3
    <3>1. Lengths(cycle) = 89 .. 92
      BY <2>2 DEF Lengths
    <3>2. /\ AheadStart(date.y, date.m, 3) - MonthStart(date.y, date.m) \in 89 .. 92
          /\ \/ AheadStart(date.y, date.m, 3) - MonthStart(date.y, date.m)
                    + AheadLength(date.y, date.m, 3) - DaysInMonth(date.y, date.m) >= 89
             \/ AheadLength(date.y, date.m, 3) >= DaysInMonth(date.y, date.m)
      BY <1>2, MonthsAreLong
    <3> QED
      BY <1>2, <1>5, <1>6, <2>2, <3>1, <3>2
  <2> QED
    BY <2>1, <2>2
<1>8. DayNumber(e) <= DayNumber(CalculateExpiry(Tomorrow(date), cycle))
  <2>1. PICK u \in Dates : u = Tomorrow(date)
    BY TomorrowIsNext
  <2>2. DayNumber(CalculateExpiry(u, cycle)) = AheadStart(u.y, u.m, n) + u.d
        \/ /\ DayNumber(CalculateExpiry(u, cycle)) = AheadStart(u.y, u.m, n) + AheadLength(u.y, u.m, n)
           /\ u.d > AheadLength(u.y, u.m, n)
    BY <1>1, ClampedDay
  <2>3. CASE date.d < DaysInMonth(date.y, date.m)
    BY <1>2, <1>5, <1>6, <2>1, <2>2, <2>3, TomorrowIsNext
  <2>4. CASE date.d = DaysInMonth(date.y, date.m)
    <3>1. u = [y |-> IF date.m = 12 THEN date.y + 1 ELSE date.y, m |-> (date.m % 12) + 1, d |-> 1]
      BY <2>1, <2>4, TomorrowIsNext
    <3>2. u.y \in Year /\ u.m \in 1 .. 12
      BY DEF Dates
    <3>3. AheadLength(u.y, u.m, n) \in 28 .. 31 /\ AheadStart(u.y, u.m, n) \in Int
      BY <3>2, MonthsAhead
    <3>4. AheadStart(u.y, u.m, n) = AheadStart(date.y, date.m, n) + AheadLength(date.y, date.m, n)
      <4>1. CASE date.m = 12
        BY <1>2, <3>1, <4>1, MonthsAhead
      <4>2. CASE date.m < 12
        <5>1. u.y = date.y /\ u.m = date.m + 1
          BY <1>2, <3>1, <4>2
        <5> QED
          BY <1>2, <4>2, <5>1, MonthsAhead
      <4> QED
        BY <1>2, <4>1, <4>2
    <3> QED
      BY <1>2, <1>5, <1>6, <2>1, <2>2, <3>1, <3>3, <3>4
  <2> QED
    BY <1>2, <1>5, <2>3, <2>4
<1>9. 12 * e.y + e.m = 12 * date.y + date.m + (IF cycle = "monthly" THEN 1 ELSE 3)
  <2>1. 12 * e.y + e.m = 12 * date.y + date.m + n
    BY <1>1, <1>3, AddMonthsCorrect
  <2> QED
    BY <2>1
<1> QED
  BY <1>3, <1>4, <1>6, <1>7, <1>8, <1>9 DEF TermIsRight

-----------------------------------------------------------------------------
(* The results *)

\* However activations, cancellations, expiry runs and failures interleave, one
\* subscription at most is live, and no entitlement the database serves outlives
\* the term of the subscription it comes from.
THEOREM SubscriptionsCorrect == Spec => []SubscriptionsInv
<1>1. SubsIInv => SubscriptionsInv
  BY ServedInTerm DEF SubsIInv, SubscriptionsInv, NoneWithoutPlan, PastHasTerm
<1> QED
  BY <1>1, Initially, SubsIInvStep, PTL DEF Spec

\* Activations and cancellations revive no subscription that has ended, however
\* they overlap, fail and stop half-way: an INSERT takes a new id, and all else a
\* call saves is an end.  Only the expiry job may, with a row it listed earlier.
THEOREM CallsReviveNothing == Spec => CallsEndForGood
<1>1. ASSUME SubsIInv, [Next]_vars, \A c \in Cron : cron[c] = NoRun
      PROVE  StaysEnded
  <2>0. SubscriptionsTypeOK
    BY <1>1 DEF SubsIInv
  <2>1. ASSUME NEW q \in Request, NEW s \in Sub, Create(q, s)
        PROVE  StaysEnded
    BY <2>0, <2>1 DEF Create, StaysEnded, Live, SubscriptionsTypeOK
  <2>2. ASSUME NEW q \in Request, ExpireOld(q) \/ SaveCancelled(q)
        PROVE  StaysEnded
    BY <2>0, <2>2 DEF ExpireOld, SaveCancelled, StaysEnded, Live, SubscriptionsTypeOK
  <2>3. CASE UNCHANGED status
    BY <2>3 DEF StaysEnded, Live
  <2>4. \A c \in Cron, s \in Sub : ~ Expire(c, s) /\ ~ EndGrace(c, s)
    BY <1>1 DEF Expire, EndGrace, NoRun
  <2>5. \/ \E q \in Request : ExpireOld(q) \/ SaveCancelled(q) \/ \E s \in Sub : Create(q, s)
        \/ UNCHANGED status
    BY <1>1, <2>4
    DEF Next, ActivateStep, CronStep, BeginActivate, ReadRow, SyncRow, InvalidateAfterSync, BeginCancel,
        RequestFails, ListLapsed, ListGraceLapsed, EndRun, DeleteRows, ReadFree, WriteFree,
        InvalidateAfterReset, CallFails, ReadRows, FillCache, TermEnds, GraceRunsOut, CacheExpires, vars, dbVars
  <2> QED
    BY <2>1, <2>2, <2>3, <2>5
<1>2. SubsIInv /\ [Next]_vars => [(\A c \in Cron : cron[c] = NoRun) => StaysEnded]_status
  BY <1>1
<1> QED
  BY <1>2, Initially, SubsIInvStep, PTL DEF Spec, CallsEndForGood

\* As long as nothing but calls is at work and none fails, an active subscription
\* in its term is served with its whole plan between calls, and one that was ended
\* early has a successor, whatever is cancelled and read in the middle of an
\* activation: its writes are all for the one that is live.
THEOREM CallsKeepWhatIsPaid == Spec => CallsKeepTerms
<1>1. Init => CallsIInv
  BY DEF Init, CallsIInv, RowsOrWork, WorksOnTheLive, EndedHasSuccessor, Idle, Syncing, Writing
<1>2. SubsIInv /\ CallsIInv /\ CallsAlone /\ CallsAlone' /\ [Next]_vars => CallsIInv'
  BY RowsOrWorkStep, WorksStep, SuccessorStep DEF CallsIInv
<1>3. SubsIInv /\ CallsIInv => ActiveIsEntitled /\ TermNotLost
  BY CallsKeep
<1> QED
  BY <1>1, <1>2, <1>3, Initially, SubsIInvStep, PTL DEF Spec, CallsKeepTerms

\* As long as moreover no reader holds rows while an activation is at work, the answer
\* cached between calls is that of the rows: SyncFromSubscription deletes the copy after
\* it wrote the rows, and a reader that fills the cache later has read them since.
THEOREM CallsKeepTheCache == Spec => CallsKeepCache
<1>1. Init => CallsIInv /\ CacheIInv
  BY DEF Init, CallsIInv, RowsOrWork, WorksOnTheLive, EndedHasSuccessor, Idle, Syncing, Writing,
         CacheIInv, Follows
<1>2. SubsIInv /\ CallsIInv /\ CallsAlone /\ CallsAlone' /\ [Next]_vars => CallsIInv'
  BY RowsOrWorkStep, WorksStep, SuccessorStep DEF CallsIInv
<1>3. SubsIInv /\ CallsIInv /\ CacheIInv /\ (CallsAlone /\ FillsAlone)
        /\ (CallsAlone /\ FillsAlone)' /\ [Next]_vars => CacheIInv'
  BY CacheStep
<1>4. CacheIInv => CacheFollowsRows
  BY DEF CacheIInv, Follows, CacheFollowsRows, Quiet, Idle, Syncing, Writing
<1> QED
  BY <1>1, <1>2, <1>3, <1>4, Initially, SubsIInvStep, PTL DEF Spec, CallsKeepCache

\* The two together.
COROLLARY CallsKeepWhatTheyPromise == Spec => CallsKeepPromises
BY CallsKeepWhatIsPaid, CallsKeepTheCache DEF CallsKeepPromises

\* For every day of every year and each of the four cycles, a term ends on a date that
\* exists and a week, a month, a quarter or a year on, on the day of the month it began
\* or the last there is (after a year, 29 February gives the first of March); it has a
\* length its cycle allows, and no later start makes it end earlier.
THEOREM TermsCorrect == CycleSpec => []TermsAreRight
<1> DEFINE CycleIInv == date \in Dates /\ date.y \in Years
<1>1. CycleInit => CycleIInv
  BY YearsAssumption DEF CycleInit, Dates, Year
<1>2. CycleIInv /\ [PassDay]_date => CycleIInv'
  <2>1. ASSUME CycleIInv, PassDay
        PROVE  CycleIInv'
    BY <2>1, TomorrowIsNext DEF PassDay
  <2> QED
    BY <2>1
<1>3. CycleIInv => TermsAreRight
  <2>1. SUFFICES ASSUME date \in Dates, NEW cycle \in Cycle
                 PROVE  TermIsRight(cycle)
    BY DEF TermsAreRight, TermIsRight
  <2>2. TermIsRight("monthly") /\ TermIsRight("quarterly")
    BY <2>1, MonthsAreRight
  <2> QED
    BY <2>1, <2>2, WeeksAreRight, YearsAreRight DEF Cycle
<1> QED
  BY <1>1, <1>2, <1>3, PTL DEF CycleSpec
=============================================================================
