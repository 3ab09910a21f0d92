-------------------------- MODULE PaperApplication --------------------------
(***************************************************************************)
(* The paper application around the cycle service (cli.py,                 *)
(* _PaperApplication and _ObservedCandleSource): paper-run and paper-once  *)
(* processes on one ledger that fetch candles, persist what that says      *)
(* about health, decide and complete cycles, reconcile, and promote a      *)
(* REDUCED system to NORMAL after a cycle.                                 *)
(*                                                                         *)
(* It composes the operators of HealthMonitor with the lease as            *)
(* ExclusiveTenure states it: one holder at most, and a fenced transaction *)
(* of anybody else fails.  A cycle, in detail in PaperCycle, is three      *)
(* steps here: the observed load, the decision under the health of that    *)
(* moment, the completion.                                                 *)
(*                                                                         *)
(* Ends of cycles are numbers and cycle 0 is completed at the start.       *)
(* Observation times are kept up to their order (Ranked), counts up to     *)
(* where they stop mattering.  A paper fill never deviates from the        *)
(* broker's own price, and a reconciliation finds every fill, so that the  *)
(* branches of _record_reconciliation for the contrary are not modelled.   *)
(***************************************************************************)
EXTENDS Integers, FiniteSets

CONSTANTS
    Procs,        \* processes on the ledger
    Outcomes,     \* ways in which the load of candles may fail
    MaxEnd,       \* bound: cycles
    MaxFaults,    \* bound: failed loads
    MaxLapses,    \* bound: leases that lapse under a live holder
    MaxCrashes    \* bound: crashes

Nobody == "nobody"

ASSUME ApplicationAssumption ==
    /\ Nobody \notin Procs
    /\ Outcomes \subseteq {"failure", "schema", "timestamp", "candle"}
    /\ {MaxEnd, MaxFaults, MaxLapses, MaxCrashes} \subseteq Nat

VARIABLES
    health,      \* the last HEALTH_STATE event
    lease,       \* holder of the cycle lease
    completed,   \* the last completed cycle
    matured,     \* the latest cycle whose candle is old enough
    under,       \* for each cycle, the stage its decision was taken under
    pc,          \* where each process is
    end,         \* the cycle a process works on
    recovers,    \* it only observes, because the cycle is completed already
    held,        \* the snapshot of the HealthMonitor it loaded, while it needs it
    budget,      \* faults, lapses and crashes that may still happen
    overtaken    \* history, for PromotionEarned only: see Overtake

system == <<health, lease, completed, matured, under, pc, end, recovers, held, budget>>
vars == <<system, overtaken>>

H == INSTANCE HealthMonitor WITH
       MaxTime <- 0, MaxRetry <- 0, MaxFailures <- 0, MaxEpisode <- 0, Checks <- {},
       clock <- 0, snapshot <- health, refused <- FALSE, streak <- 0

-----------------------------------------------------------------------------
\* Observations

Times(s) == {s.latched_at, s.last_success, s.last_failure, s.last_observation} \ {0}
Rank(s, t) == Cardinality({u \in Times(s) : u <= t})

\* The snapshot up to the order of its times and the counts that matter.
Ranked(s) ==
    [s EXCEPT !.latched_at = Rank(s, @), !.last_success = Rank(s, @),
              !.last_failure = Rank(s, @), !.last_observation = Rank(s, @),
              !.retry_attempts = IF @ = 0 THEN 0 ELSE 1,
              !.api_failures = IF @ < H!Required THEN @ ELSE H!Required]

Now(s) == Cardinality(Times(s)) + 1

\* prepare: what a failed load says about health
Failed(s, outcome) ==
    CASE outcome = "failure"   -> H!RecordApiFailure(s, Now(s))
      [] outcome = "schema"    -> H!RecordFlag(s, "SCHEMA_ERROR", TRUE, Now(s))
      [] outcome = "timestamp" -> H!RecordFlag(s, "TIMESTAMP_REVERSAL", TRUE, Now(s))
      [] outcome = "candle"    -> H!RecordCandleCheck(s, FALSE, TRUE, TRUE, Now(s))

\* prepare: the flags a valid frame makes good again.
DataReasons == {"SCHEMA_ERROR", "TIMESTAMP_REVERSAL", "STALE_CANDLE"}
Cleared(s) ==
    IF s.faults \cap DataReasons = {} THEN s ELSE H!SetFaults(s, s.faults \ DataReasons, Now(s))

-----------------------------------------------------------------------------
\* The lease and the fence

\* Seeded fault: a transaction is not fenced.
Unfenced(p) == TRUE

Fenced(p) == lease = p
Goto(p, label) == pc' = [pc EXCEPT ![p] = label]
Load(p) == H!Loadable(health) /\ held' = [held EXCEPT ![p] = health]
Forget(p) == held' = [held EXCEPT ![p] = H!HealthySnapshot]
ReleasedBy(p) == IF lease = p THEN Nobody ELSE lease

\* monitor.persist in a fenced transaction
Persist(s) == \E after \in {s} : health' = Ranked(after)

\* A fenced transaction raises CycleLeaseLostError: the cycle may have been
\* completed by another process (_result_after_lost_lease).
LostLease(p) ==
    /\ pc[p] \in {"prepare", "decide", "complete", "reconcile", "promote"}
    /\ ~Fenced(p)
    /\ Goto(p, IF pc[p] \in {"prepare", "decide", "complete"} /\ ~recovers[p] /\ completed >= end[p]
               THEN "already" ELSE "idle")
    /\ Forget(p)
    /\ UNCHANGED <<health, lease, completed, matured, under, end, recovers, budget>>

\* The lease lapses: of a process that died or went on to something else, or, while
\* the budget lasts, of one that is merely slow.
Expire ==
    /\ lease # Nobody
    /\ LET live == pc[lease] \in {"prepare", "decide", "complete", "reconcile", "promote"}
       IN  /\ live => budget.lapses > 0
           /\ budget' = [budget EXCEPT !.lapses = IF live THEN @ - 1 ELSE @]
    /\ lease' = Nobody
    /\ UNCHANGED <<health, completed, matured, under, pc, end, recovers, held>>

-----------------------------------------------------------------------------
\* run_once

\* Seeded fault: a halted system waits for its next cycle.
NeverRecovering == FALSE

\* run_once: HALTED and nothing to process, observe until the system recovers.
Recovering == health.stage = "HALTED" /\ completed = matured

Start(p) ==
    /\ pc[p] = "idle"
    /\ H!Loadable(health)
    /\ recovers' = [recovers EXCEPT ![p] = Recovering]
    /\ end' = [end EXCEPT ![p] = IF Recovering THEN matured ELSE completed + 1]
    /\ Goto(p, "acquire")
    /\ UNCHANGED <<health, lease, completed, matured, under, held, budget>>

\* acquire_cycle_lease, at once or when the cycle has matured
Acquire(p) ==
    /\ pc[p] = "acquire"
    /\ end[p] <= matured
    /\ IF ~recovers[p] /\ completed >= end[p]
       THEN Goto(p, "already") /\ UNCHANGED <<lease, held>>
       ELSE IF lease = Nobody
            THEN Load(p) /\ lease' = p /\ Goto(p, "prepare")
            ELSE Goto(p, "idle") /\ UNCHANGED <<lease, held>>
    /\ UNCHANGED <<health, completed, matured, under, end, recovers, budget>>

\* prepare: the load succeeds and its observation is persisted.
Prepare(p) ==
    /\ pc[p] = "prepare"
    /\ Fenced(p)
    /\ \E seen \in {Cleared(held[p])} : Persist(H!RecordApiSuccess(seen, Now(held[p])))
    /\ IF recovers[p] THEN Goto(p, "reconcile") /\ held' = [held EXCEPT ![p] = health']
       ELSE Goto(p, "decide") /\ Forget(p)
    /\ UNCHANGED <<lease, completed, matured, under, end, recovers, budget>>

\* prepare: the load fails; the observation is persisted and the error raised.
PrepareFails(p) ==
    /\ pc[p] = "prepare"
    /\ Fenced(p)
    /\ budget.faults > 0
    /\ budget' = [budget EXCEPT !.faults = @ - 1]
    /\ \E outcome \in Outcomes : Persist(Failed(held[p], outcome))
    /\ lease' = Nobody
    /\ Goto(p, "idle")
    /\ Forget(p)
    /\ UNCHANGED <<completed, matured, under, end, recovers>>

\* Seeded fault: a halted cycle takes no decision.
DecideUnlessHalted(p) ==
    /\ pc[p] = "decide"
    /\ Fenced(p)
    /\ health.stage # "HALTED"
    /\ under' = [under EXCEPT ![end[p]] = health.stage]
    /\ Goto(p, "complete")
    /\ UNCHANGED <<health, lease, completed, matured, end, recovers, held, budget>>

\* _risk_decision under the health of this moment, and the orders that follow
Decide(p) ==
    /\ pc[p] = "decide"
    /\ Fenced(p)
    /\ under' = [under EXCEPT ![end[p]] = health.stage]
    /\ Goto(p, "complete")
    /\ UNCHANGED <<health, lease, completed, matured, end, recovers, held, budget>>

\* A candle that cannot be used completes a cycle without position as UNSAFE_DATA;
\* a later attempt sees the same candle, from the evidence on disk.
Unsafe(p) ==
    /\ pc[p] = "decide" /\ under[end[p]] = "none"
    /\ Fenced(p)
    /\ completed' = end[p]
    /\ lease' = Nobody
    /\ Goto(p, "idle")
    /\ Forget(p)
    /\ UNCHANGED <<health, matured, under, end, recovers, budget>>

\* Seeded fault: the completion is not fenced.
CompleteUnfenced(p) ==
    /\ pc[p] = "complete"
    /\ completed' = end[p]
    /\ lease' = ReleasedBy(p)
    /\ Goto(p, "processed")
    /\ Forget(p)
    /\ UNCHANGED <<health, matured, under, end, recovers, budget>>

\* _record_completion, then the service releases the lease.
Complete(p) ==
    /\ pc[p] = "complete"
    /\ Fenced(p)
    /\ completed' = end[p]
    /\ lease' = Nobody
    /\ Goto(p, "processed")
    /\ Forget(p)
    /\ UNCHANGED <<health, matured, under, end, recovers, budget>>

\* run_once takes the lease again for what follows the cycle.
Follow(p) ==
    /\ pc[p] \in {"processed", "already"}
    /\ IF lease = Nobody
       THEN Load(p) /\ lease' = p /\ Goto(p, IF pc[p] = "processed" THEN "reconcile" ELSE "notify")
       ELSE Goto(p, "idle") /\ UNCHANGED <<lease, held>>
    /\ UNCHANGED <<health, completed, matured, under, end, recovers, budget>>

\* What _record_reconciliation persists: the snapshot, after the check of a fill.
Reconciled(s, filled) == IF filled THEN H!RecordFillCheck(s, TRUE, Now(s)) ELSE s

\* _record_reconciliation without a promotion after it
Notify(p) ==
    /\ pc[p] = "notify"
    /\ IF Fenced(p) THEN Persist(Reconciled(held[p], FALSE)) ELSE UNCHANGED health
    /\ lease' = ReleasedBy(p)
    /\ Goto(p, "idle")
    /\ Forget(p)
    /\ UNCHANGED <<completed, matured, under, end, recovers, budget>>

\* Seeded fault: the recovery path promotes too.
ReconcileThenPromote(p) ==
    /\ pc[p] = "reconcile"
    /\ Fenced(p)
    /\ \E filled \in {FALSE, ~recovers[p]} : Persist(Reconciled(held[p], filled))
    /\ held' = [held EXCEPT ![p] = health']
    /\ Goto(p, "promote")
    /\ UNCHANGED <<lease, completed, matured, under, end, recovers, budget>>

Reconcile(p) ==
    /\ pc[p] = "reconcile"
    /\ Fenced(p)
    /\ \E filled \in {FALSE, ~recovers[p]} : Persist(Reconciled(held[p], filled))
    /\ IF recovers[p]
       THEN Goto(p, "idle") /\ Forget(p) /\ lease' = Nobody
       ELSE Goto(p, "promote") /\ held' = [held EXCEPT ![p] = health'] /\ UNCHANGED lease
    /\ UNCHANGED <<completed, matured, under, end, recovers, budget>>

\* _promote_after_reduced_cycle, then the lease is released.
Promote(p) ==
    /\ pc[p] = "promote"
    /\ Fenced(p)
    /\ IF held[p].stage = "REDUCED"
       THEN Persist(H!RecordRecoveryCycle(held[p], Now(held[p]))) ELSE UNCHANGED health
    /\ lease' = Nobody
    /\ Goto(p, "idle")
    /\ Forget(p)
    /\ UNCHANGED <<completed, matured, under, end, recovers, budget>>

Crash(p) ==
    /\ pc[p] # "idle"
    /\ budget.crashes > 0
    /\ budget' = [budget EXCEPT !.crashes = @ - 1]
    /\ Goto(p, "idle")
    /\ Forget(p)
    /\ UNCHANGED <<health, lease, completed, matured, under, end, recovers>>

\* Time passes and another candle matures.
Mature ==
    /\ matured < MaxEnd
    /\ matured' = matured + 1
    /\ UNCHANGED <<health, lease, completed, under, pc, end, recovers, held, budget>>

-----------------------------------------------------------------------------
\* The processes that have completed a cycle and for which, before they took the
\* lease again, somebody else's observation took the system to the REDUCED stage it
\* is in.
Overtake ==
    overtaken' =
        {p \in Procs :
            /\ pc'[p] \in {"processed", "reconcile", "promote"}
            /\ health'.stage = "REDUCED"
            /\ \/ p \in overtaken
               \/ pc[p] = "processed" /\ pc'[p] = "processed" /\ health.stage # "REDUCED"}

Init ==
    /\ health = Ranked(H!RecordApiSuccess(H!HealthySnapshot, 1))
    /\ lease = Nobody
    /\ completed = 0
    /\ matured = 0
    /\ under = [e \in 0..MaxEnd |-> "none"]
    /\ pc = [p \in Procs |-> "idle"]
    /\ end = [p \in Procs |-> 0]
    /\ recovers = [p \in Procs |-> FALSE]
    /\ held = [p \in Procs |-> H!HealthySnapshot]
    /\ budget = [faults |-> MaxFaults, lapses |-> MaxLapses, crashes |-> MaxCrashes]
    /\ overtaken = {}

Step(p) ==
    \/ Start(p) \/ Acquire(p) \/ Prepare(p) \/ Decide(p) \/ Complete(p)
    \/ Follow(p) \/ Notify(p) \/ Reconcile(p) \/ Promote(p) \/ LostLease(p)

Next ==
    /\ \/ Mature \/ Expire
       \/ \E p \in Procs : Step(p) \/ PrepareFails(p) \/ Unsafe(p) \/ Crash(p)
    /\ Overtake

\* paper-run and systemd try again for ever, a dead holder's lease lapses, and
\* time passes.
Fairness == WF_system(Mature) /\ WF_system(Expire) /\ \A p \in Procs : WF_system(Step(p))
Spec == Init /\ [][Next]_vars /\ Fairness

-----------------------------------------------------------------------------
\* Properties

\* Health evidence is never lost: an event is derived from the one before it,
\* although the monitor is loaded long before its result is persisted and another
\* process may have persisted in between (_persist is fenced by the epoch).
NoLostUpdate ==
    [][health' # health => \E p \in Procs : pc'[p] # pc[p] /\ held[p] = health]_vars

\* A cycle is completed under the health it was decided with: no process completes
\* it on a decision that newer health evidence has overtaken.
DecidedOnLatest ==
    [][completed' # completed => under[completed'] \in {health.stage, "none"}]_vars

\* "축소 상태의 정상 복구 사이클이 완료되고 ... NORMAL로 승격된다": the system becomes
\* NORMAL only after a cycle that was itself decided in the REDUCED stage.  The one
\* exception is what the second lease of run_once leaves open: after the process
\* completed its cycle and before it took that lease, another process brought the
\* system to the REDUCED stage it is promoted from.  A process alone never promotes on
\* a cycle of another stage, nor one that only observes or finds its cycle completed.
PromotionEarned ==
    [][health.stage = "REDUCED" /\ health'.stage = "NORMAL" =>
          \E p \in Procs : /\ pc[p] = "promote" /\ pc'[p] = "idle"
                           /\ under[end[p]] = "REDUCED" \/ p \in overtaken]_vars

\* A halted system leaves HALTED by itself once the faults are over, also when no
\* further cycle is due (the recovery branch of run_once).
EntriesResume == <>[](health.stage # "HALTED")

\* Every matured cycle is completed in the end, halted or not.  The exception is
\* the snapshot that its own validator refuses (HealthMonitor!LoadableReduced): a
\* load that fails in the REDUCED stage persists it, and no process starts again.
CyclesKeepUp == <>(completed = MaxEnd \/ ~H!LoadableReduced(health))
=============================================================================
