----------------------- MODULE PaperApplication_proofs ----------------------
(***************************************************************************)
(* Health evidence is not lost and cycles complete on the health they were *)
(* decided with, and promotions are earned, for any number of processes,   *)
(* cycles, faults, lapses and crashes.                                     *)
(*                                                                         *)
(* Each property speaks of one step.  The inductive invariant Inv adds     *)
(* what the holder of the lease has known since an earlier step: that the  *)
(* snapshot it holds, or the stage it decided under, is still the latest,  *)
(* because whoever persists health holds the lease at that moment.  What   *)
(* the HealthMonitor concludes does not matter for that, only from which   *)
(* event.  It matters for promotions: lemmas about its observations say    *)
(* that none of them ends in NORMAL by itself and that a good fill does    *)
(* not end a halt, and PromotionInv adds under which stage a process that  *)
(* will promote has decided its cycle, or that it was overtaken.           *)
(***************************************************************************)
EXTENDS PaperApplication, TLAPS

Labels == {"idle", "acquire", "prepare", "decide", "complete", "processed", "already",
           "reconcile", "notify", "promote"}

\* Where a process stands on the snapshot it loaded.
Standing == {"prepare", "reconcile", "promote", "notify"}

TypeInv ==
    /\ lease \in Procs \cup {Nobody}
    /\ pc \in [Procs -> Labels]
    /\ end \in [Procs -> Nat]
    /\ held = [p \in Procs |-> held[p]]
    /\ under = [e \in 0..MaxEnd |-> under[e]]
    /\ completed \in Nat
    /\ matured \in 0..MaxEnd
    /\ \A p \in Procs : pc[p] \notin {"idle", "acquire"} => end[p] \in 0..MaxEnd

\* The holder's snapshot is the last event.
HeldLatest == \A p \in Procs : lease = p /\ pc[p] \in Standing => held[p] = health

\* The holder's decision was taken under the stage of the last event.
DecisionLatest ==
    \A p \in Procs : lease = p /\ pc[p] = "complete" => under[end[p]] = health.stage

Inv == TypeInv /\ HeldLatest /\ DecisionLatest

\* Nobody holds the lease of a new ledger.
LEMMA InitInv == Init => Inv
BY ApplicationAssumption DEF ApplicationAssumption, Init, Inv, TypeInv, HeldLatest, DecisionLatest, Labels

\* Only the holder persists, and from then on holds what it persisted.
LEMMA NextInv == Inv /\ [Next]_vars => Inv'
<1> SUFFICES ASSUME Inv, [Next]_vars PROVE Inv'
  OBVIOUS
<1>0. Nobody \notin Procs /\ MaxEnd \in Nat
  BY ApplicationAssumption DEF ApplicationAssumption
<1> USE <1>0 DEF Inv, TypeInv, HeldLatest, DecisionLatest, Labels, Standing
<1>1. CASE Mature
  BY <1>1 DEF Mature
<1>2. CASE Expire
  BY <1>2 DEF Expire
<1>3. ASSUME NEW p \in Procs, Start(p) PROVE Inv'
  <2>1. TypeInv'
    BY <1>3 DEF Start, Goto
  <2>2. HeldLatest'
    BY <1>3 DEF Start, Goto
  <2>3. DecisionLatest'
    BY <1>3 DEF Start, Goto
  <2>4. QED
    BY <2>1, <2>2, <2>3
<1>4. ASSUME NEW p \in Procs, Acquire(p) PROVE Inv'
  <2>1. TypeInv'
    <3>1. end[p] \in 0..MaxEnd
      BY <1>4 DEF Acquire
    <3>2. CASE ~recovers[p] /\ completed >= end[p]
      BY <1>4, <3>1, <3>2 DEF Acquire, Goto
    <3>3. CASE ~(~recovers[p] /\ completed >= end[p]) /\ lease = Nobody
      BY <1>4, <3>1, <3>3 DEF Acquire, Goto, Load
    <3>4. CASE ~(~recovers[p] /\ completed >= end[p]) /\ lease # Nobody
      BY <1>4, <3>1, <3>4 DEF Acquire, Goto
    <3>5. QED
      BY <3>2, <3>3, <3>4
  <2>2. HeldLatest'
    BY <1>4 DEF Acquire, Goto, Load
  <2>3. DecisionLatest'
    BY <1>4 DEF Acquire, Goto, Load
  <2>4. QED
    BY <2>1, <2>2, <2>3
<1>5. ASSUME NEW p \in Procs, Prepare(p) PROVE Inv'
  BY <1>5 DEF Prepare, Goto, Forget, Fenced
<1>6. ASSUME NEW p \in Procs, PrepareFails(p) PROVE Inv'
  BY <1>6 DEF PrepareFails, Goto, Forget
<1>7. ASSUME NEW p \in Procs, Decide(p) PROVE Inv'
  BY <1>7 DEF Decide, Goto, Fenced
<1>8. ASSUME NEW p \in Procs, Unsafe(p) PROVE Inv'
  BY <1>8 DEF Unsafe, Goto, Forget
<1>9. ASSUME NEW p \in Procs, Complete(p) PROVE Inv'
  BY <1>9 DEF Complete, Goto, Forget
<1>10. ASSUME NEW p \in Procs, Follow(p) PROVE Inv'
  <2>1. TypeInv'
    BY <1>10 DEF Follow, Goto, Load
  <2>2. HeldLatest'
    BY <1>10 DEF Follow, Goto, Load
  <2>3. DecisionLatest'
    BY <1>10 DEF Follow, Goto, Load
  <2>4. QED
    BY <2>1, <2>2, <2>3
<1>11. ASSUME NEW p \in Procs, Notify(p) PROVE Inv'
  BY <1>11 DEF Notify, Goto, Forget, Fenced, ReleasedBy
<1>12. ASSUME NEW p \in Procs, Reconcile(p) PROVE Inv'
  <2>1. TypeInv'
    BY <1>12 DEF Reconcile, Goto, Forget, Fenced
  <2>2. HeldLatest'
    BY <1>12 DEF Reconcile, Goto, Forget, Fenced
  <2>3. DecisionLatest'
    BY <1>12 DEF Reconcile, Goto, Forget, Fenced
  <2>4. QED
    BY <2>1, <2>2, <2>3
<1>13. ASSUME NEW p \in Procs, Promote(p) PROVE Inv'
  BY <1>13 DEF Promote, Goto, Forget
<1>14. ASSUME NEW p \in Procs, LostLease(p) PROVE Inv'
  BY <1>14 DEF LostLease, Goto, Forget, Fenced
<1>15. ASSUME NEW p \in Procs, Crash(p) PROVE Inv'
  BY <1>15 DEF Crash, Goto, Forget
<1>16. CASE UNCHANGED vars
  BY <1>16 DEF vars, system
<1>17. QED
  BY <1>1, <1>2, <1>3, <1>4, <1>5, <1>6, <1>7, <1>8, <1>9, <1>10, <1>11, <1>12, <1>13,
     <1>14, <1>15, <1>16 DEF Next, Step

\* The snapshot and the decision of whoever holds the lease are never stale.
THEOREM HolderUpToDate == Spec => []Inv
BY InitInv, NextInv, PTL DEF Spec

\* Health evidence is never lost (NoLostUpdate): whoever persists health holds the
\* lease, and with it the last event (HeldLatest).
THEOREM EvidenceKept == Spec => NoLostUpdate
<1> DEFINE Derived == health' # health => \E p \in Procs : pc'[p] # pc[p] /\ held[p] = health
<1>1. Inv /\ [Next]_vars => Derived
  <2> SUFFICES ASSUME Inv, [Next]_vars, health' # health
               PROVE  \E p \in Procs : pc'[p] # pc[p] /\ held[p] = health
    OBVIOUS
  <2> USE DEF Inv, TypeInv, HeldLatest, Labels, Standing
  <2>1. PICK p \in Procs : Prepare(p) \/ PrepareFails(p) \/ Notify(p) \/ Reconcile(p) \/ Promote(p)
    BY DEF Next, Step, vars, system, Mature, Expire, Start, Acquire, Decide, Unsafe, Complete, Follow,
           LostLease, Crash
  <2>2. lease = p /\ pc[p] \in Standing
    BY <2>1 DEF Prepare, PrepareFails, Notify, Reconcile, Promote, Fenced
  <2>3. pc'[p] # pc[p]
    BY <2>1 DEF Prepare, PrepareFails, Notify, Reconcile, Promote, Goto
  <2>4. QED
    BY <2>2, <2>3
<1>2. [][Derived]_vars => NoLostUpdate
  BY PTL DEF NoLostUpdate
<1>3. QED
  BY <1>1, <1>2, HolderUpToDate, PTL DEF Spec

\* A cycle is completed under the health it was decided with (DecidedOnLatest): the
\* completion is fenced, and a holder's decision is under the last event
\* (DecisionLatest); a cycle completed as UNSAFE_DATA has no decision.
THEOREM CyclesDecidedOnLatest == Spec => DecidedOnLatest
<1> DEFINE Latest == completed' # completed => under[completed'] \in {health.stage, "none"}
<1>1. Inv /\ [Next]_vars => Latest
  <2> SUFFICES ASSUME Inv, [Next]_vars, completed' # completed
               PROVE  under[completed'] \in {health.stage, "none"}
    OBVIOUS
  <2>1. PICK p \in Procs : Complete(p) \/ Unsafe(p)
    BY DEF Next, Step, vars, system, Mature, Expire, Start, Acquire, Prepare, PrepareFails, Decide,
           Follow, Notify, Reconcile, Promote, LostLease, Crash
  <2>2. CASE Complete(p)
    BY <2>2 DEF Complete, Fenced, Inv, DecisionLatest
  <2>3. CASE Unsafe(p)
    BY <2>3 DEF Unsafe
  <2>4. QED
    BY <2>1, <2>2, <2>3
<1>2. [][Latest]_vars => DecidedOnLatest
  BY PTL DEF DecidedOnLatest
<1>3. QED
  BY <1>1, <1>2, HolderUpToDate, PTL DEF Spec

-----------------------------------------------------------------------------
\* What the monitor concludes, as far as a promotion depends on it

Fields == {"stage", "faults", "latched", "fill_within_limit", "api_successes"}

\* No fill deviates, and a halted system that could leave HALTED has left it.
Settled(s) ==
    /\ Fields \subseteq DOMAIN s
    /\ s.fill_within_limit = TRUE
    /\ s.stage = "HALTED" /\ H!Reasons(s) = {} => ~(s.api_successes >= H!Required)

\* The stage after an observation: never NORMAL unless it was.
NotNormal(s, after) == s.stage # "NORMAL" => after.stage # "NORMAL"

\* The end of every observation (_finish_observation).
LEMMA Finishes ==
    ASSUME NEW s, Fields \subseteq DOMAIN s, s.fill_within_limit = TRUE
    PROVE  /\ Settled(H!FinishObservation(s))
           /\ NotNormal(s, H!FinishObservation(s))
           /\ Settled(s) /\ H!FinishObservation(s).stage = "REDUCED" => s.stage = "REDUCED"
<1> DEFINE after == H!FinishObservation(s)
<1>1. /\ after.stage = H!StageAfter(s) /\ DOMAIN after = DOMAIN s
      /\ \A f \in Fields \ {"stage"} : after[f] = s[f]
  BY DEF H!FinishObservation, Fields
<1>2. /\ after.faults = s.faults /\ after.latched = s.latched /\ after.fill_within_limit = s.fill_within_limit
      /\ after.api_successes = s.api_successes
  BY <1>1 DEF Fields
<1> HIDE DEF after
<1>3. H!Reasons(after) = H!Reasons(s)
  BY <1>2 DEF H!Reasons
<1>4. CASE H!Reasons(s) # {}
  <2>1. H!StageAfter(s) = "HALTED"
    BY <1>4 DEF H!StageAfter
  <2>2. QED
    BY <1>1, <1>2, <1>3, <1>4, <2>1 DEF Settled, NotNormal, after
<1>5. CASE H!Reasons(s) = {} /\ s.stage = "HALTED" /\ s.api_successes >= H!Required
  <2>1. H!StageAfter(s) = "REDUCED"
    BY <1>5 DEF H!StageAfter
  <2>2. QED
    BY <1>1, <1>2, <1>3, <1>5, <2>1 DEF Settled, NotNormal, after
<1>6. CASE H!Reasons(s) = {} /\ ~(s.stage = "HALTED" /\ s.api_successes >= H!Required)
  <2>1. H!StageAfter(s) = s.stage
    BY <1>6 DEF H!StageAfter
  <2>2. QED
    BY <1>1, <1>2, <1>3, <1>6, <2>1 DEF Settled, NotNormal, after
<1>7. QED
  BY <1>4, <1>5, <1>6

\* Observations keep the health settled and never end in NORMAL by themselves.
Observes(s, after) == Settled(after) /\ NotNormal(s, after)

\* An observation that changes the fields of s before it finishes.
LEMMA Observed ==
    ASSUME NEW s, Settled(s), NEW t, DOMAIN t = DOMAIN s, t.stage = s.stage,
           t.fill_within_limit = s.fill_within_limit
    PROVE  Observes(s, H!FinishObservation(t))
BY Finishes DEF Observes, Settled, NotNormal

\* The observations prepare makes (record_api_success, record_api_failure and the
\* update the checks share).
LEMMA Observations ==
    ASSUME NEW s, Settled(s), NEW at
    PROVE  /\ Observes(s, H!RecordApiSuccess(s, at))
           /\ Observes(s, H!RecordApiFailure(s, at))
           /\ \A faults : Observes(s, H!SetFaults(s, faults, at))
<1>1. Observes(s, s)
  BY DEF Observes, NotNormal
<1>2. Observes(s, H!RecordApiSuccess(s, at))
  <2> DEFINE successes == H!Capped(s.api_successes)
             latched == s.latched /\ successes < H!Required
             t == [s EXCEPT !.api_failures = 0,
                            !.api_successes = successes,
                            !.latched = latched,
                            !.latched_at = IF latched THEN s.latched_at ELSE H!Never,
                            !.last_success = at,
                            !.last_observation = H!Later(s.last_observation, at)]
  <2>1. H!RecordApiSuccess(s, at) = IF at <= H!LastApi(s) THEN s ELSE H!FinishObservation(t)
    BY DEF H!RecordApiSuccess
  <2>2. DOMAIN t = DOMAIN s /\ t.stage = s.stage /\ t.fill_within_limit = s.fill_within_limit
    BY DEF Settled, Fields
  <2> HIDE DEF t
  <2>3. Observes(s, H!FinishObservation(t))
    BY <2>2, Observed
  <2>4. QED
    BY <1>1, <2>1, <2>3
<1>3. Observes(s, H!RecordApiFailure(s, at))
  <2> DEFINE failures == s.api_failures + 1
             latched == s.latched \/ failures >= H!Required
             t == [s EXCEPT !.api_failures = failures,
                            !.api_successes = 0,
                            !.latched = latched,
                            !.latched_at = IF latched /\ s.latched_at = H!Never THEN at ELSE s.latched_at,
                            !.last_failure = at,
                            !.last_observation = H!Later(s.last_observation, at)]
  <2>1. H!RecordApiFailure(s, at) = IF at <= H!LastApi(s) THEN s ELSE H!FinishObservation(t)
    BY DEF H!RecordApiFailure
  <2>2. DOMAIN t = DOMAIN s /\ t.stage = s.stage /\ t.fill_within_limit = s.fill_within_limit
    BY DEF Settled, Fields
  <2> HIDE DEF t
  <2>3. Observes(s, H!FinishObservation(t))
    BY <2>2, Observed
  <2>4. QED
    BY <1>1, <2>1, <2>3
<1>4. ASSUME NEW faults PROVE Observes(s, H!SetFaults(s, faults, at))
  <2> DEFINE t == [s EXCEPT !.faults = faults,
                            !.api_successes = IF faults \subseteq s.faults THEN s.api_successes ELSE 0,
                            !.last_observation = H!Later(s.last_observation, at)]
  <2>1. H!SetFaults(s, faults, at) = H!FinishObservation(t)
    BY DEF H!SetFaults
  <2>2. DOMAIN t = DOMAIN s /\ t.stage = s.stage /\ t.fill_within_limit = s.fill_within_limit
    BY DEF Settled, Fields
  <2> HIDE DEF t
  <2>3. QED
    BY <2>1, <2>2, Observed
<1>5. QED
  BY <1>2, <1>3, <1>4

\* What the application persists keeps the fields a promotion depends on.
LEMMA RankedKeeps ==
    ASSUME NEW s, Settled(s)
    PROVE  Settled(Ranked(s)) /\ Ranked(s).stage = s.stage
<1>1. \A f \in Fields : f \in DOMAIN Ranked(s) /\ Ranked(s)[f] = s[f]
  BY DEF Ranked, Settled, Fields
<1>2. /\ Ranked(s).stage = s.stage /\ Ranked(s).faults = s.faults /\ Ranked(s).latched = s.latched
      /\ Ranked(s).fill_within_limit = s.fill_within_limit /\ Ranked(s).api_successes = s.api_successes
  BY <1>1 DEF Fields
<1>3. H!Reasons(Ranked(s)) = H!Reasons(s)
  BY <1>2 DEF H!Reasons
<1>4. QED
  BY <1>1, <1>2, <1>3 DEF Settled

\* prepare: a load that succeeds.
LEMMA LoadObserved ==
    ASSUME NEW s, Settled(s), NEW at
    PROVE  Observes(s, H!RecordApiSuccess(Cleared(s), at))
<1>1. Observes(s, Cleared(s))
  BY Observations DEF Cleared, Observes, NotNormal
<1>2. Observes(Cleared(s), H!RecordApiSuccess(Cleared(s), at))
  BY <1>1, Observations DEF Observes
<1>3. QED
  BY <1>1, <1>2 DEF Observes, NotNormal

\* prepare: a load that fails.
LEMMA FailureObserved ==
    ASSUME NEW s, Settled(s), NEW outcome \in Outcomes
    PROVE  Observes(s, Failed(s, outcome))
<1>1. outcome \in {"failure", "schema", "timestamp", "candle"}
  BY ApplicationAssumption
<1>2. CASE outcome = "failure"
  BY <1>2, Observations DEF Failed
<1>3. CASE outcome = "schema"
  BY <1>3, Observations DEF Failed, H!RecordFlag
<1>4. CASE outcome = "timestamp"
  BY <1>4, Observations DEF Failed, H!RecordFlag
<1>5. CASE outcome = "candle"
  BY <1>5, Observations DEF Failed, H!RecordCandleCheck
<1>6. QED
  BY <1>1, <1>2, <1>3, <1>4, <1>5

\* _record_reconciliation: a good fill does not end a halt.
LEMMA ReconciliationObserved ==
    ASSUME NEW s, Settled(s), NEW filled
    PROVE  /\ Observes(s, Reconciled(s, filled))
           /\ Reconciled(s, filled).stage = "REDUCED" => s.stage = "REDUCED"
<1>1. CASE ~filled
  BY <1>1 DEF Reconciled, Observes, NotNormal
<1>2. CASE filled
  <2> DEFINE at == Now(s)
             t == [[s EXCEPT !.fill_within_limit = TRUE, !.last_observation = H!Later(s.last_observation, at)]
                    EXCEPT !.fill_deviation = 0, !.checks = s.checks, !.resolved_at = s.resolved_at]
  <2>1. Reconciled(s, filled) = H!FinishObservation(t)
    BY <1>2 DEF Reconciled, H!RecordFillCheck, Settled
  <2>2. \A f \in Fields : f \in DOMAIN t /\ t[f] = s[f]
    BY DEF Settled, Fields
  <2>3. /\ DOMAIN t = DOMAIN s /\ t.stage = s.stage /\ t.faults = s.faults /\ t.latched = s.latched
        /\ t.fill_within_limit = s.fill_within_limit /\ t.api_successes = s.api_successes
    BY <2>2 DEF Fields
  <2> HIDE DEF t
  <2>4. Settled(t)
    <3>1. H!Reasons(t) = H!Reasons(s)
      BY <2>3 DEF H!Reasons
    <3>2. QED
      BY <2>2, <2>3, <3>1 DEF Settled
  <2>5. Observes(s, H!FinishObservation(t))
    BY <2>3, Observed
  <2>6. H!FinishObservation(t).stage = "REDUCED" => s.stage = "REDUCED"
    BY <2>3, <2>4, Finishes DEF Settled
  <2>7. QED
    BY <2>1, <2>5, <2>6
<1>3. QED
  BY <1>1, <1>2

\* _promote_after_reduced_cycle leaves the health settled.
LEMMA PromotionSettles ==
    ASSUME NEW s, Settled(s), NEW at
    PROVE  Settled(H!RecordRecoveryCycle(s, at))
<1> DEFINE t == [s EXCEPT !.last_observation = H!Later(s.last_observation, at)]
           u == [t EXCEPT !.stage = "NORMAL", !.retry_attempts = 0]
<1>1. Fields \subseteq DOMAIN t /\ t.fill_within_limit = TRUE
  BY DEF Settled, Fields
<1>2. Fields \subseteq DOMAIN u /\ u.fill_within_limit = TRUE /\ u.stage = "NORMAL"
  BY DEF Settled, Fields
<1>3. H!RecordRecoveryCycle(s, at) \in {u, H!FinishObservation(t)}
  BY DEF H!RecordRecoveryCycle
<1> HIDE DEF t, u
<1>4. Settled(u)
  BY <1>2 DEF Settled
<1>5. QED
  BY <1>1, <1>3, <1>4, Finishes

-----------------------------------------------------------------------------
\* Promotions

\* A process on its way from a completed cycle to a promotion: before it takes the lease
\* again, or with it.
WillPromote(p) ==
    \/ pc[p] = "processed"
    \/ lease = p /\ (pc[p] = "promote" \/ (pc[p] = "reconcile" /\ ~recovers[p]))

\* A lease holder's cycle is not completed before it completes it; and if the system
\* is REDUCED, a process that will promote decided so itself, or it was overtaken.
PromotionInv ==
    /\ Settled(health)
    /\ recovers \in [Procs -> BOOLEAN]
    /\ \A p \in Procs :
          /\ lease = p /\ pc[p] \in {"prepare", "decide", "complete"} /\ ~recovers[p] => completed < end[p]
          /\ pc[p] \in {"decide", "complete", "processed", "promote"} => ~recovers[p]
          /\ WillPromote(p) => /\ completed >= end[p]
                               /\ health.stage = "REDUCED" => under[end[p]] = "REDUCED" \/ p \in overtaken

\* A new ledger is healthy.
LEMMA InitPromotion == Init => PromotionInv
<1> SUFFICES ASSUME Init PROVE PromotionInv
  OBVIOUS
<1>1. Settled(H!HealthySnapshot)
  BY DEF Settled, Fields, H!HealthySnapshot
<1>2. Settled(H!RecordApiSuccess(H!HealthySnapshot, 1))
  BY <1>1, Observations DEF Observes
<1>3. Settled(health)
  BY <1>2, RankedKeeps DEF Init
<1>4. \A p \in Procs : pc[p] = "idle" /\ recovers[p] = FALSE /\ lease = Nobody
  BY DEF Init
<1>5. recovers \in [Procs -> BOOLEAN]
  BY DEF Init
<1>6. QED
  BY <1>3, <1>4, <1>5 DEF PromotionInv, WillPromote

\* Who will promote has seen the system become REDUCED only before it completed its
\* cycle, or as one that is overtaken.
LEMMA Carried ==
    ASSUME PromotionInv, Overtake, NEW p \in Procs, WillPromote(p),
           pc'[p] \in {"processed", "reconcile", "promote"},
           \/ health'.stage = "REDUCED" => health.stage = "REDUCED"
           \/ pc[p] = "processed" /\ pc'[p] = "processed"
    PROVE  health'.stage = "REDUCED" => under[end[p]] = "REDUCED" \/ p \in overtaken'
<1> SUFFICES ASSUME health'.stage = "REDUCED", under[end[p]] # "REDUCED" PROVE p \in overtaken'
  OBVIOUS
<1>1. p \in overtaken \/ (pc[p] = "processed" /\ pc'[p] = "processed" /\ health.stage # "REDUCED")
  BY DEF PromotionInv
<1>2. QED
  BY <1>1 DEF Overtake

\* A step of one process, under the lease, that keeps cycles and ends as they are.
LEMMA Persisting ==
    ASSUME Inv, PromotionInv, Overtake, NEW q \in Procs, lease = q,
           UNCHANGED <<completed, under, end, recovers>>,
           NEW label, Goto(q, label), lease' \in {q, Nobody}, Settled(health'),
           label \in {"idle", "decide", "reconcile", "promote"},
           label = "decide" => pc[q] = "prepare" /\ ~recovers[q],
           label = "reconcile" => recovers[q],
           label = "promote" => pc[q] = "reconcile" /\ ~recovers[q],
           \/ health'.stage = "REDUCED" => health.stage = "REDUCED"
           \/ label \in {"idle", "decide", "reconcile"}
    PROVE  PromotionInv'
<1>1. pc'[q] = label /\ \A p \in Procs \ {q} : pc'[p] = pc[p]
  BY DEF Goto, Inv, TypeInv
<1>2. Nobody \notin Procs
  BY ApplicationAssumption
<1>3. ASSUME NEW p \in Procs
      PROVE  /\ lease' = p /\ pc'[p] \in {"prepare", "decide", "complete"} /\ ~recovers[p] => completed < end[p]
             /\ pc'[p] \in {"decide", "complete", "processed", "promote"} => ~recovers[p]
  <2>1. CASE p = q
    BY <1>1, <1>2, <2>1 DEF PromotionInv
  <2>2. CASE p # q
    BY <1>1, <1>2, <2>2 DEF PromotionInv
  <2>3. QED
    BY <2>1, <2>2
<1>4. ASSUME NEW p \in Procs, WillPromote(p)'
      PROVE  /\ completed >= end[p]
             /\ health'.stage = "REDUCED" => under[end[p]] = "REDUCED" \/ p \in overtaken'
  <2>1. CASE p = q
    <3>1. label = "promote" /\ WillPromote(p)
      BY <1>1, <1>4, <2>1 DEF WillPromote
    <3>2. QED
      BY <1>1, <2>1, <3>1, Carried DEF PromotionInv
  <2>2. CASE p # q
    <3>1. pc[p] = "processed" /\ pc'[p] = "processed"
      BY <1>1, <1>2, <1>4, <2>2 DEF WillPromote
    <3>2. WillPromote(p)
      BY <3>1 DEF WillPromote
    <3>3. QED
      BY <3>1, <3>2, Carried DEF PromotionInv
  <2>3. QED
    BY <2>1, <2>2
<1>5. QED
  BY <1>3, <1>4 DEF PromotionInv

\* A step of one process that does not touch health, cycles and ends.
LEMMA Moving ==
    ASSUME Inv, PromotionInv, Overtake, NEW q \in Procs, UNCHANGED <<health, completed, under, end, recovers>>,
           NEW label, Goto(q, label),
           lease' \in {lease, Nobody, q},
           label \in {"idle", "acquire", "already", "notify", "prepare", "reconcile"},
           label = "prepare" => recovers[q] \/ completed < end[q],
           label = "reconcile" => pc[q] = "processed"
    PROVE  PromotionInv'
<1>1. pc'[q] = label /\ \A p \in Procs \ {q} : pc'[p] = pc[p]
  BY DEF Goto, Inv, TypeInv
<1>2. Nobody \notin Procs
  BY ApplicationAssumption
<1>3. ASSUME NEW p \in Procs
      PROVE  /\ lease' = p /\ pc'[p] \in {"prepare", "decide", "complete"} /\ ~recovers[p] => completed < end[p]
             /\ pc'[p] \in {"decide", "complete", "processed", "promote"} => ~recovers[p]
             /\ WillPromote(p)' => WillPromote(p) /\ pc'[p] \in {"processed", "reconcile", "promote"}
  <2>1. CASE p = q
    BY <1>1, <1>2, <2>1 DEF PromotionInv, WillPromote
  <2>2. CASE p # q
    BY <1>1, <1>2, <2>2 DEF PromotionInv, WillPromote
  <2>3. QED
    BY <2>1, <2>2
<1>4. ASSUME NEW p \in Procs, WillPromote(p)'
      PROVE  /\ completed >= end[p]
             /\ health'.stage = "REDUCED" => under[end[p]] = "REDUCED" \/ p \in overtaken'
  BY <1>3, <1>4, Carried DEF PromotionInv
<1>5. QED
  BY <1>3, <1>4 DEF PromotionInv

\* An observed system stays settled, cycles are completed on a decision under the
\* stage of that moment, and a cycle that is decided is not completed yet.
LEMMA NextPromotion == Inv /\ PromotionInv /\ [Next]_vars => PromotionInv'
<1> SUFFICES ASSUME Inv, PromotionInv, [Next]_vars PROVE PromotionInv'
  OBVIOUS
<1>0. Nobody \notin Procs
  BY ApplicationAssumption
<1>1. CASE UNCHANGED vars
  BY <1>1 DEF vars, system, PromotionInv, WillPromote
<1> SUFFICES ASSUME Next PROVE PromotionInv'
  BY <1>1
<1> Overtake
  BY DEF Next
<1>2. CASE Mature \/ Expire
  <2>1. UNCHANGED <<health, completed, under, pc, end, recovers>> /\ lease' \in {lease, Nobody}
    BY <1>2 DEF Mature, Expire
  <2>2. ASSUME NEW p \in Procs, WillPromote(p)'
        PROVE  /\ completed >= end[p]
               /\ health'.stage = "REDUCED" => under[end[p]] = "REDUCED" \/ p \in overtaken'
    <3>1. WillPromote(p) /\ pc'[p] \in {"processed", "reconcile", "promote"}
      BY <1>0, <2>1, <2>2 DEF WillPromote
    <3>2. QED
      BY <2>1, <3>1, Carried DEF PromotionInv
  <2>3. QED
    BY <1>0, <2>1, <2>2 DEF PromotionInv
<1>3. ASSUME NEW q \in Procs, Start(q) PROVE PromotionInv'
  <2>1. /\ UNCHANGED <<health, completed, under, lease>>
        /\ pc'[q] = "acquire" /\ \A p \in Procs \ {q} : pc'[p] = pc[p]
    BY <1>3 DEF Start, Goto, Inv, TypeInv
  <2>2. /\ recovers' \in [Procs -> BOOLEAN]
        /\ \A p \in Procs \ {q} : recovers'[p] = recovers[p] /\ end'[p] = end[p]
    BY <1>3 DEF Start, Recovering, PromotionInv, Inv, TypeInv
  <2>3. ASSUME NEW p \in Procs, WillPromote(p)'
        PROVE  /\ completed' >= end'[p]
               /\ health'.stage = "REDUCED" => under'[end'[p]] = "REDUCED" \/ p \in overtaken'
    <3>1. p # q /\ WillPromote(p) /\ pc'[p] \in {"processed", "reconcile", "promote"}
      BY <2>1, <2>2, <2>3 DEF WillPromote
    <3>2. QED
      BY <2>1, <2>2, <3>1, Carried DEF PromotionInv
  <2>4. ASSUME NEW p \in Procs
        PROVE  /\ lease' = p /\ pc'[p] \in {"prepare", "decide", "complete"} /\ ~recovers'[p] => completed' < end'[p]
               /\ pc'[p] \in {"decide", "complete", "processed", "promote"} => ~recovers'[p]
    BY <2>1, <2>2 DEF PromotionInv
  <2>5. Settled(health')
    BY <2>1 DEF PromotionInv
  <2>6. QED
    BY <2>2, <2>3, <2>4, <2>5 DEF PromotionInv
<1>4. ASSUME NEW q \in Procs, Acquire(q) PROVE PromotionInv'
  <2>1. UNCHANGED <<health, completed, under, end, recovers>> /\ lease' \in {lease, Nobody, q}
    BY <1>4 DEF Acquire
  <2>2. CASE ~recovers[q] /\ completed >= end[q]
    <3>1. Goto(q, "already")
      BY <1>4, <2>2 DEF Acquire
    <3>2. QED
      BY <2>1, <3>1, Moving
  <2>3. CASE ~(~recovers[q] /\ completed >= end[q])
    <3>1. Goto(q, "prepare") \/ Goto(q, "idle")
      BY <1>4, <2>3 DEF Acquire
    <3>2. recovers[q] \/ completed < end[q]
      BY <2>3 DEF Inv, TypeInv
    <3>3. QED
      BY <2>1, <3>1, <3>2, Moving
  <2>4. QED
    BY <2>2, <2>3
<1>5. ASSUME NEW q \in Procs, Prepare(q) PROVE PromotionInv'
  <2>1. /\ lease = q /\ pc[q] = "prepare" /\ held[q] = health
        /\ UNCHANGED <<completed, under, end, recovers, lease>>
    BY <1>5 DEF Prepare, Fenced, Inv, HeldLatest, Standing
  <2>2. health' = Ranked(H!RecordApiSuccess(Cleared(health), Now(health)))
    BY <1>5, <2>1 DEF Prepare, Persist
  <2>3. Settled(health')
    BY <2>2, LoadObserved, RankedKeeps DEF PromotionInv, Observes
  <2>4. IF recovers[q] THEN Goto(q, "reconcile") ELSE Goto(q, "decide")
    BY <1>5 DEF Prepare
  <2>5. QED
    BY <2>1, <2>3, <2>4, Persisting
<1>6. ASSUME NEW q \in Procs, PrepareFails(q) PROVE PromotionInv'
  <2>1. /\ lease = q /\ pc[q] = "prepare" /\ held[q] = health
        /\ UNCHANGED <<completed, under, end, recovers>> /\ lease' = Nobody /\ Goto(q, "idle")
    BY <1>6 DEF PrepareFails, Fenced, Inv, HeldLatest, Standing
  <2>2. PICK outcome \in Outcomes : health' = Ranked(Failed(health, outcome))
    BY <1>6, <2>1 DEF PrepareFails, Persist
  <2>3. Settled(health')
    BY <2>2, FailureObserved, RankedKeeps DEF PromotionInv, Observes
  <2>4. QED
    BY <2>1, <2>3, Persisting
<1>7. ASSUME NEW q \in Procs, Decide(q) PROVE PromotionInv'
  <2>1. /\ UNCHANGED <<health, lease, completed, end, recovers>>
        /\ pc[q] = "decide" /\ lease = q
        /\ pc'[q] = "complete" /\ \A p \in Procs \ {q} : pc'[p] = pc[p]
    BY <1>7 DEF Decide, Fenced, Goto, Inv, TypeInv
  <2>2. ~recovers[q] /\ completed < end[q]
    BY <2>1 DEF PromotionInv
  <2>3. ASSUME NEW p \in Procs, WillPromote(p)'
        PROVE  p # q /\ pc[p] = "processed" /\ pc'[p] = "processed" /\ WillPromote(p)
    BY <2>1, <2>3 DEF WillPromote
  <2>4. ASSUME NEW p \in Procs, WillPromote(p)
        PROVE  under'[end[p]] = under[end[p]]
    <3>1. completed >= end[p]
      BY <2>4 DEF PromotionInv
    <3>2. completed \in Int /\ end[p] \in Int /\ end[q] \in Int
      BY DEF Inv, TypeInv
    <3>3. end[p] # end[q]
      BY <2>2, <3>1, <3>2
    <3>4. pc[p] \notin {"idle", "acquire"}
      BY <2>4 DEF WillPromote
    <3>5. QED
      BY <1>7, <3>3, <3>4 DEF Decide, Inv, TypeInv
  <2>5. ASSUME NEW p \in Procs, WillPromote(p)'
        PROVE  /\ completed' >= end'[p]
               /\ health'.stage = "REDUCED" => under'[end'[p]] = "REDUCED" \/ p \in overtaken'
    <3>1. pc[p] = "processed" /\ pc'[p] = "processed" /\ WillPromote(p) /\ under'[end[p]] = under[end[p]]
      BY <2>3, <2>4, <2>5
    <3>2. QED
      BY <2>1, <3>1, Carried DEF PromotionInv
  <2>6. ASSUME NEW p \in Procs
        PROVE  /\ lease' = p /\ pc'[p] \in {"prepare", "decide", "complete"} /\ ~recovers'[p] => completed' < end'[p]
               /\ pc'[p] \in {"decide", "complete", "processed", "promote"} => ~recovers'[p]
    BY <2>1, <2>2 DEF PromotionInv
  <2>7. QED
    BY <2>1, <2>5, <2>6 DEF PromotionInv
<1>8. ASSUME NEW q \in Procs, Unsafe(q) \/ Complete(q) PROVE PromotionInv'
  <2>1. /\ UNCHANGED <<health, under, end, recovers>> /\ completed' = end[q]
        /\ lease = q /\ pc[q] \in {"decide", "complete"} /\ lease' = Nobody
        /\ \A p \in Procs \ {q} : pc'[p] = pc[p]
    BY <1>8 DEF Unsafe, Complete, Fenced, Goto, Inv, TypeInv
  <2>2. pc'[q] = "idle" \/ (pc'[q] = "processed" /\ pc[q] = "complete")
    BY <1>8 DEF Unsafe, Complete, Goto, Inv, TypeInv
  <2>3. ~recovers[q] /\ completed < end[q]
    BY <2>1 DEF PromotionInv
  <2>4. completed \in Int /\ \A p \in Procs : end[p] \in Int
    BY DEF Inv, TypeInv
  <2>5. ASSUME NEW p \in Procs, WillPromote(p)'
        PROVE  /\ completed' >= end'[p]
               /\ health'.stage = "REDUCED" => under'[end'[p]] = "REDUCED" \/ p \in overtaken'
    <3>1. CASE p = q
      <4>1. pc[q] = "complete"
        BY <1>0, <2>1, <2>2, <2>5, <3>1 DEF WillPromote
      <4>2. under[end[q]] = health.stage
        BY <2>1, <4>1 DEF Inv, DecisionLatest
      <4>3. QED
        BY <2>1, <2>4, <3>1, <4>2
    <3>2. CASE p # q
      <4>1. pc[p] = "processed" /\ pc'[p] = "processed" /\ WillPromote(p)
        BY <1>0, <2>1, <2>5, <3>2 DEF WillPromote
      <4>2. completed >= end[p]
        BY <4>1 DEF PromotionInv
      <4>3. end[q] >= end[p]
        BY <2>3, <2>4, <4>2
      <4>4. QED
        BY <2>1, <4>1, <4>3, Carried
    <3>3. QED
      BY <3>1, <3>2
  <2>6. ASSUME NEW p \in Procs
        PROVE  lease' # p /\ (pc'[p] \in {"decide", "complete", "processed", "promote"} => ~recovers'[p])
    BY <1>0, <2>1, <2>2, <2>3 DEF PromotionInv
  <2>7. QED
    BY <2>1, <2>5, <2>6 DEF PromotionInv
<1>9. ASSUME NEW q \in Procs, Follow(q) PROVE PromotionInv'
  <2>1. UNCHANGED <<health, completed, under, end, recovers>> /\ lease' \in {lease, Nobody, q}
    BY <1>9 DEF Follow
  <2>2. Goto(q, "idle") \/ Goto(q, "notify") \/ (pc[q] = "processed" /\ Goto(q, "reconcile"))
    BY <1>9 DEF Follow
  <2>3. QED
    BY <2>1, <2>2, Moving
<1>10. ASSUME NEW q \in Procs, Notify(q) PROVE PromotionInv'
  <2>1. UNCHANGED <<completed, under, end, recovers>> /\ Goto(q, "idle") /\ lease' \in {lease, Nobody}
    BY <1>10 DEF Notify, ReleasedBy
  <2>2. CASE lease = q
    <3>1. held[q] = health /\ lease' = Nobody
      BY <1>10, <2>2 DEF Notify, ReleasedBy, Inv, HeldLatest, Standing
    <3>2. health' = Ranked(Reconciled(health, FALSE))
      BY <1>10, <2>2, <3>1 DEF Notify, Persist, Fenced
    <3>3. Settled(health') /\ (health'.stage = "REDUCED" => health.stage = "REDUCED")
      BY <3>2, ReconciliationObserved, RankedKeeps DEF PromotionInv, Observes
    <3>4. QED
      BY <2>1, <2>2, <3>1, <3>3, Persisting
  <2>3. CASE lease # q
    <3>1. UNCHANGED health
      BY <1>10, <2>3 DEF Notify, Fenced
    <3>2. QED
      BY <2>1, <3>1, Moving
  <2>4. QED
    BY <2>2, <2>3
<1>11. ASSUME NEW q \in Procs, Reconcile(q) PROVE PromotionInv'
  <2>1. /\ lease = q /\ pc[q] = "reconcile" /\ held[q] = health
        /\ UNCHANGED <<completed, under, end, recovers>> /\ lease' \in {q, Nobody}
    BY <1>11 DEF Reconcile, Fenced, Inv, HeldLatest, Standing
  <2>2. PICK filled \in {FALSE, ~recovers[q]} : health' = Ranked(Reconciled(health, filled))
    BY <1>11, <2>1 DEF Reconcile, Persist
  <2>3. Settled(health') /\ (health'.stage = "REDUCED" => health.stage = "REDUCED")
    BY <2>2, ReconciliationObserved, RankedKeeps DEF PromotionInv, Observes
  <2>4. IF recovers[q] THEN Goto(q, "idle") ELSE Goto(q, "promote")
    BY <1>11 DEF Reconcile
  <2>5. QED
    BY <2>1, <2>3, <2>4, Persisting
<1>12. ASSUME NEW q \in Procs, Promote(q) PROVE PromotionInv'
  <2>1. /\ lease = q /\ held[q] = health /\ Goto(q, "idle")
        /\ UNCHANGED <<completed, under, end, recovers>> /\ lease' = Nobody
    BY <1>12 DEF Promote, Fenced, Inv, HeldLatest, Standing
  <2>2. CASE health.stage = "REDUCED"
    <3>1. health' = Ranked(H!RecordRecoveryCycle(health, Now(health)))
      BY <1>12, <2>1, <2>2 DEF Promote, Persist
    <3>2. Settled(health')
      BY <3>1, PromotionSettles, RankedKeeps DEF PromotionInv
    <3>3. QED
      BY <2>1, <2>2, <3>2, Persisting
  <2>3. CASE health.stage # "REDUCED"
    <3>1. UNCHANGED health
      BY <1>12, <2>1, <2>3 DEF Promote
    <3>2. QED
      BY <2>1, <3>1, Moving
  <2>4. QED
    BY <2>2, <2>3
<1>13. ASSUME NEW q \in Procs, LostLease(q) PROVE PromotionInv'
  <2>1. UNCHANGED <<health, lease, completed, under, end, recovers>> /\ (Goto(q, "already") \/ Goto(q, "idle"))
    BY <1>13 DEF LostLease
  <2>2. QED
    BY <2>1, Moving
<1>14. ASSUME NEW q \in Procs, Crash(q) PROVE PromotionInv'
  <2>1. UNCHANGED <<health, lease, completed, under, end, recovers>> /\ Goto(q, "idle")
    BY <1>14 DEF Crash
  <2>2. QED
    BY <2>1, Moving
<1>15. QED
  BY <1>1, <1>2, <1>3, <1>4, <1>5, <1>6, <1>7, <1>8, <1>9, <1>10, <1>11, <1>12, <1>13,
     <1>14 DEF Next, Step

\* The system becomes NORMAL only after a cycle that was itself decided in the REDUCED
\* stage; the one exception is a process that completed its cycle and, before it took
\* the lease again, had another process bring the system to REDUCED (PromotionEarned).
\* No observation ends in NORMAL, and a process that promotes is on its way from a
\* completed cycle (PromotionInv).
THEOREM PromotionsEarned == Spec => PromotionEarned
<1> DEFINE Earned == health.stage = "REDUCED" /\ health'.stage = "NORMAL" =>
                       \E p \in Procs : /\ pc[p] = "promote" /\ pc'[p] = "idle"
                                        /\ under[end[p]] = "REDUCED" \/ p \in overtaken
<1>1. Inv /\ PromotionInv /\ [Next]_vars => Earned
  <2> SUFFICES ASSUME Inv, PromotionInv, [Next]_vars, health.stage = "REDUCED", health'.stage = "NORMAL"
               PROVE  \E p \in Procs : /\ pc[p] = "promote" /\ pc'[p] = "idle"
                                       /\ under[end[p]] = "REDUCED" \/ p \in overtaken
    OBVIOUS
  <2>1. PICK p \in Procs : Prepare(p) \/ PrepareFails(p) \/ Notify(p) \/ Reconcile(p) \/ Promote(p)
    BY DEF Next, Step, vars, system, Mature, Expire, Start, Acquire, Decide, Unsafe, Complete, Follow,
           LostLease, Crash
  <2>2. Settled(health)
    BY DEF PromotionInv
  <2>3. ~Prepare(p)
    <3> SUFFICES ASSUME Prepare(p) PROVE FALSE
      OBVIOUS
    <3>1. held[p] = health
      BY DEF Prepare, Fenced, Inv, HeldLatest, Standing
    <3>2. health' = Ranked(H!RecordApiSuccess(Cleared(health), Now(health)))
      BY <3>1 DEF Prepare, Persist
    <3>3. QED
      BY <2>2, <3>2, LoadObserved, RankedKeeps DEF Observes, NotNormal
  <2>4. ~PrepareFails(p)
    <3> SUFFICES ASSUME PrepareFails(p) PROVE FALSE
      OBVIOUS
    <3>1. held[p] = health
      BY DEF PrepareFails, Fenced, Inv, HeldLatest, Standing
    <3>2. PICK outcome \in Outcomes : health' = Ranked(Failed(health, outcome))
      BY <3>1 DEF PrepareFails, Persist
    <3>3. QED
      BY <2>2, <3>2, FailureObserved, RankedKeeps DEF Observes, NotNormal
  <2>5. ~Notify(p)
    <3> SUFFICES ASSUME Notify(p) PROVE FALSE
      OBVIOUS
    <3>1. lease = p
      BY DEF Notify, Fenced
    <3>2. held[p] = health
      BY <3>1 DEF Notify, Inv, HeldLatest, Standing
    <3>3. health' = Ranked(Reconciled(health, FALSE))
      BY <3>1, <3>2 DEF Notify, Persist, Fenced
    <3>4. QED
      BY <2>2, <3>3, ReconciliationObserved, RankedKeeps DEF Observes, NotNormal
  <2>6. ~Reconcile(p)
    <3> SUFFICES ASSUME Reconcile(p) PROVE FALSE
      OBVIOUS
    <3>1. held[p] = health
      BY DEF Reconcile, Fenced, Inv, HeldLatest, Standing
    <3>2. PICK filled \in {FALSE, ~recovers[p]} : health' = Ranked(Reconciled(health, filled))
      BY <3>1 DEF Reconcile, Persist
    <3>3. QED
      BY <2>2, <3>2, ReconciliationObserved, RankedKeeps DEF Observes, NotNormal
  <2>7. pc[p] = "promote" /\ lease = p /\ pc'[p] = "idle"
    BY <2>1, <2>3, <2>4, <2>5, <2>6 DEF Promote, Fenced, Goto, Inv, TypeInv
  <2>8. under[end[p]] = "REDUCED" \/ p \in overtaken
    BY <2>7 DEF PromotionInv, WillPromote
  <2>9. QED
    BY <2>7, <2>8
<1>2. Spec => [](Inv /\ PromotionInv)
  BY InitInv, NextInv, InitPromotion, NextPromotion, PTL DEF Spec
<1>3. [][Earned]_vars => PromotionEarned
  BY PTL DEF PromotionEarned
<1>4. QED
  BY <1>1, <1>2, <1>3, PTL DEF Spec
=============================================================================
