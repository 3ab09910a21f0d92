---------------------------- MODULE HealthMonitor ----------------------------
(***************************************************************************)
(* The health monitor shared by the paper application and the live service *)
(* (paper/health.py): API failures and successes, data and ledger checks   *)
(* and fill deviations move the system between NORMAL, HALTED (no entries) *)
(* and REDUCED (entries at reduced size).                                  *)
(*                                                                         *)
(* A snapshot is a record and every record_* method is an operator on it,  *)
(* so that the applications can compose them; the state machine below is   *)
(* one monitor that receives observations at the readings of a clock.  A   *)
(* caller persists the snapshot after its observations and loads it before *)
(* the next ones; loading runs the validator                               *)
(* _validate_snapshot_relationships (Loadable) and raises when it refuses. *)
(*                                                                         *)
(* Abstractions.  Times are readings of the clock, Never (0) for None.     *)
(* The checks that only set a flag are one set, faults, of the reasons     *)
(* whose flag is bad (unresolved_orders is only compared with zero).  A    *)
(* fill deviation is 0 (within the 5% limit) or 1 (beyond it).  The stored *)
(* reasons are always derived anew (_finish_observation), so they are not  *)
(* kept.                                                                   *)
(***************************************************************************)
EXTENDS Naturals, FiniteSets

CONSTANTS
    MaxTime,      \* bound: clock readings
    MaxRetry,     \* bound: observations made while HALTED
    MaxFailures,  \* bound: consecutive API failures counted
    MaxEpisode,   \* bound: fill anomaly episodes
    Checks        \* reasons whose check the callers make

Never == 0
Required == 3     \* _API_SUCCESSES_REQUIRED, and failures that latch

FlagReasons == {"STALE_CANDLE", "TIMESTAMP_REVERSAL", "SCHEMA_ERROR",
                "UNRESOLVED_ORDER", "LEDGER_MISMATCH"}

ASSUME HealthAssumption ==
    /\ MaxTime \in Nat /\ MaxRetry \in Nat
    /\ MaxFailures \in Nat /\ MaxEpisode \in Nat
    /\ Checks \subseteq FlagReasons

Stage == {"NORMAL", "HALTED", "REDUCED"}

Snapshot ==
    [stage : Stage,
     faults : SUBSET FlagReasons,
     api_failures : Nat, api_successes : 0..Required,
     latched : BOOLEAN, latched_at : Nat,
     last_success : Nat, last_failure : Nat, last_observation : Nat,
     fill_within_limit : BOOLEAN, fill_deviation : 0..1,
     episode : Nat, checks : 0..Required, anomaly_deviation : 0..1,
     detected_at : Nat, resolved_at : Nat, last_recovery : Nat,
     retry_attempts : Nat]

HealthySnapshot ==
    [stage |-> "NORMAL", faults |-> {},
     api_failures |-> 0, api_successes |-> 0,
     latched |-> FALSE, latched_at |-> Never,
     last_success |-> Never, last_failure |-> Never, last_observation |-> Never,
     fill_within_limit |-> TRUE, fill_deviation |-> 0,
     episode |-> 0, checks |-> 0, anomaly_deviation |-> 0,
     detected_at |-> Never, resolved_at |-> Never, last_recovery |-> Never,
     retry_attempts |-> 0]

Later(a, b) == IF a < b THEN b ELSE a
Capped(n) == IF n < Required THEN n + 1 ELSE Required

\* _derive_reasons
Reasons(s) ==
    s.faults
      \cup (IF s.latched THEN {"API_FAILURES"} ELSE {})
      \cup (IF s.fill_within_limit THEN {} ELSE {"FILL_DEVIATION"})

\* _last_api_observation
LastApi(s) == Later(s.last_success, s.last_failure)

\* _finish_observation
StageAfter(s) ==
    CASE Reasons(s) # {} -> "HALTED"
      [] Reasons(s) = {} /\ s.stage = "HALTED" /\ s.api_successes >= Required -> "REDUCED"
      [] OTHER -> s.stage

FinishObservation(s) ==
    [s EXCEPT !.stage = StageAfter(s),
              !.retry_attempts = IF StageAfter(s) = "HALTED"
                                 THEN s.retry_attempts + 1 ELSE 0]

-----------------------------------------------------------------------------
\* The record_* methods: the snapshot after an observation made at time at

\* record_api_failure
RecordApiFailure(s, at) ==
    LET failures == s.api_failures + 1
        latched == s.latched \/ failures >= Required
    IN  IF at <= LastApi(s) THEN s
        ELSE FinishObservation(
               [s EXCEPT !.api_failures = failures,
                         !.api_successes = 0,
                         !.latched = latched,
                         !.latched_at = IF latched /\ s.latched_at = Never
                                        THEN at ELSE s.latched_at,
                         !.last_failure = at,
                         !.last_observation = Later(s.last_observation, at)])

\* Seeded fault: the time of the latch survives the recovery.
ApiSuccessKeepsLatchTime(s, at) ==
    LET successes == Capped(s.api_successes)
    IN  IF at <= LastApi(s) THEN s
        ELSE FinishObservation(
               [s EXCEPT !.api_failures = 0,
                         !.api_successes = successes,
                         !.latched = s.latched /\ successes < Required,
                         !.last_success = at,
                         !.last_observation = Later(s.last_observation, at)])

\* record_api_success
RecordApiSuccess(s, at) ==
    LET successes == Capped(s.api_successes)
        latched == s.latched /\ successes < Required
    IN  IF at <= LastApi(s) THEN s
        ELSE FinishObservation(
               [s EXCEPT !.api_failures = 0,
                         !.api_successes = successes,
                         !.latched = latched,
                         !.latched_at = IF latched THEN s.latched_at ELSE Never,
                         !.last_success = at,
                         !.last_observation = Later(s.last_observation, at)])

\* Seeded fault: a new reason does not restart the count of API successes.
SetFaultsKeepingCount(s, faults, at) ==
    FinishObservation(
      [s EXCEPT !.faults = faults,
                !.last_observation = Later(s.last_observation, at)])

\* The update shared by _set_predicate, set_unresolved_orders,
\* record_ledger_check, _fail_schema and record_candle_check: a reason that
\* newly appears restarts the count of API successes.
SetFaults(s, faults, at) ==
    FinishObservation(
      [s EXCEPT !.faults = faults,
                !.api_successes = IF faults \subseteq s.faults
                                  THEN s.api_successes ELSE 0,
                !.last_observation = Later(s.last_observation, at)])

\* record_timestamp_check, record_schema_check, set_unresolved_orders,
\* record_ledger_check (and _fail_schema, which an ill-typed argument reaches)
RecordFlag(s, reason, bad, at) ==
    SetFaults(s, IF bad THEN s.faults \cup {reason} ELSE s.faults \ {reason}, at)

\* record_candle_check.  found: the expected candle was observed; late: ten
\* minutes have passed since it was due; valid: it is structurally valid.
RecordCandleCheck(s, found, late, valid, at) ==
    LET stale == CASE found /\ valid -> {}
                   [] ~(found /\ valid) /\ late -> {"STALE_CANDLE"}
                   [] OTHER -> s.faults \cap {"STALE_CANDLE"}
        broken == IF valid THEN {} ELSE {"SCHEMA_ERROR"}
    IN  SetFaults(s, (s.faults \ {"STALE_CANDLE"}) \cup stale \cup broken, at)

\* record_fill_check
RecordFillCheck(s, within, at) ==
    LET newly == s.fill_within_limit /\ ~within
        resolves == within /\ ~s.fill_within_limit
        t == [s EXCEPT !.fill_within_limit = within,
                       !.last_observation = Later(s.last_observation, at)]
    IN  FinishObservation(
          IF within
          THEN [t EXCEPT !.fill_deviation = 0,
                         !.checks = IF resolves THEN Required ELSE s.checks,
                         !.resolved_at = IF resolves THEN at ELSE s.resolved_at]
          ELSE [t EXCEPT !.fill_deviation = 1,
                         !.episode = IF newly THEN s.episode + 1 ELSE s.episode,
                         !.detected_at = IF newly THEN at ELSE s.detected_at,
                         !.anomaly_deviation = 1,
                         !.resolved_at = Never,
                         !.checks = 0,
                         !.last_recovery = Never,
                         !.api_successes = IF newly THEN 0 ELSE s.api_successes])

\* record_flat_fill_recovery_check
RecordFlatFillRecovery(s, eligible, at) ==
    LET checks == IF eligible THEN Capped(s.checks) ELSE 0
        resolved == eligible /\ checks >= Required
    IN  IF s.fill_within_limit \/ at <= s.last_recovery THEN s
        ELSE FinishObservation(
               [s EXCEPT !.fill_within_limit = resolved,
                         !.fill_deviation = IF resolved THEN 0 ELSE s.fill_deviation,
                         !.checks = checks,
                         !.resolved_at = IF resolved THEN at ELSE Never,
                         !.last_recovery = at,
                         !.last_observation = Later(s.last_observation, at)])

\* record_recovery_cycle_success
RecordRecoveryCycle(s, at) ==
    LET t == [s EXCEPT !.last_observation = Later(s.last_observation, at)]
    IN  IF s.stage = "REDUCED" /\ Reasons(s) = {}
        THEN [t EXCEPT !.stage = "NORMAL", !.retry_attempts = 0]
        ELSE FinishObservation(t)

-----------------------------------------------------------------------------
\* _validate_snapshot_relationships, in three parts

LoadableFill(s) ==
    /\ s.fill_within_limit <=> s.fill_deviation = 0
    /\ s.episode = 0 =>
          /\ s.fill_within_limit
          /\ s.checks = 0 /\ s.anomaly_deviation = 0
          /\ s.detected_at = Never /\ s.resolved_at = Never /\ s.last_recovery = Never
    /\ s.episode # 0 =>
          /\ s.anomaly_deviation = 1
          /\ s.fill_within_limit => s.checks = Required
          /\ ~s.fill_within_limit => s.checks < Required /\ s.resolved_at = Never
          /\ s.checks \in 1..Required - 1 => s.last_recovery # Never
          /\ s.detected_at # Never /\ s.resolved_at # Never
                => s.detected_at <= s.resolved_at
          /\ s.last_recovery # Never /\ s.resolved_at # Never
                => s.last_recovery <= s.resolved_at

LoadableApi(s) ==
    /\ s.latched => s.api_successes < Required
    /\ s.latched <=> s.latched_at # Never
    /\ s.latched => s.last_failure # Never /\ s.latched_at <= s.last_failure
    /\ s.latched /\ s.api_failures < Required =>
          /\ s.last_success # Never /\ s.latched_at < s.last_success
          /\ s.api_failures > 0 => s.last_success < s.last_failure
    /\ s.api_failures >= Required => s.latched
    /\ s.api_failures > 0 => s.api_successes = 0 /\ s.last_failure # Never
    /\ s.api_successes > 0 => s.last_success # Never
    /\ LastApi(s) <= s.last_observation

LoadableStage(s) ==
    /\ s.stage = "NORMAL" => Reasons(s) = {} /\ s.retry_attempts = 0
    /\ s.stage = "REDUCED" => Reasons(s) = {} /\ s.retry_attempts = 0
    /\ s.stage = "HALTED" =>
          /\ s.retry_attempts > 0
          /\ Reasons(s) # {} \/ s.api_successes < Required

\* The validator asks one thing more of REDUCED than the methods maintain.
LoadableReduced(s) == s.stage = "REDUCED" => s.api_successes >= Required

Loadable(s) ==
    LoadableFill(s) /\ LoadableApi(s) /\ LoadableStage(s) /\ LoadableReduced(s)

-----------------------------------------------------------------------------
\* One monitor

VARIABLES
    clock,       \* clock of the caller
    snapshot,    \* HealthMonitor._snapshot
    refused,     \* the persisted snapshot was refused by the validator
    streak       \* observation: API successes since a reason last appeared

vars == <<clock, snapshot, refused, streak>>

TypeOK ==
    /\ clock \in Nat \ {Never}
    /\ snapshot \in Snapshot
    /\ refused \in BOOLEAN
    /\ streak \in Nat

Init ==
    /\ clock = 1
    /\ snapshot = HealthySnapshot
    /\ refused = FALSE
    /\ streak = 0

Tick ==
    /\ clock < MaxTime
    /\ clock' = clock + 1
    /\ UNCHANGED <<snapshot, refused, streak>>

\* An observation takes the loaded snapshot to after.
Observe(after) ==
    /\ ~refused
    /\ after.retry_attempts <= MaxRetry
    /\ after.api_failures <= MaxFailures
    /\ after.episode <= MaxEpisode
    /\ snapshot' = after
    /\ streak' = IF Reasons(after) \subseteq Reasons(snapshot) THEN streak ELSE 0
    /\ UNCHANGED <<clock, refused>>

ApiFailure ==
    /\ ~refused
    /\ LET after == RecordApiFailure(snapshot, clock)
       IN  /\ after.retry_attempts <= MaxRetry
           /\ after.api_failures <= MaxFailures
           /\ snapshot' = after
           /\ streak' = IF after = snapshot THEN streak ELSE 0
    /\ UNCHANGED <<clock, refused>>

ApiSuccess ==
    /\ ~refused
    /\ LET after == RecordApiSuccess(snapshot, clock)
       IN  /\ after.retry_attempts <= MaxRetry
           /\ snapshot' = after
           /\ streak' = IF after = snapshot THEN streak ELSE streak + 1
    /\ UNCHANGED <<clock, refused>>

FlagCheck ==
    \E reason \in Checks \ {"STALE_CANDLE"}, bad \in BOOLEAN :
        Observe(RecordFlag(snapshot, reason, bad, clock))

CandleCheck ==
    \E found, late, valid \in BOOLEAN :
        /\ "STALE_CANDLE" \in Checks
        /\ Observe(RecordCandleCheck(snapshot, found, late, valid, clock))

FillCheck ==
    \E within \in BOOLEAN : Observe(RecordFillCheck(snapshot, within, clock))

FlatFillRecovery ==
    \E eligible \in BOOLEAN :
        Observe(RecordFlatFillRecovery(snapshot, eligible, clock))

RecoveryCycle == Observe(RecordRecoveryCycle(snapshot, clock))

\* HealthMonitor.from_mapping on the persisted snapshot: accepted, nothing
\* changes; refused, it raises on every later load.
LoadRefused ==
    /\ ~refused
    /\ ~Loadable(snapshot)
    /\ refused' = TRUE
    /\ UNCHANGED <<clock, snapshot, streak>>

Next ==
    \/ Tick
    \/ ApiFailure \/ ApiSuccess
    \/ FlagCheck \/ CandleCheck
    \/ FillCheck \/ FlatFillRecovery
    \/ RecoveryCycle
    \/ LoadRefused

Spec == Init /\ [][Next]_vars

-----------------------------------------------------------------------------
\* Properties

\* "a complete restart-safe health snapshot" (the HealthMonitor docstring): no
\* sequence of observations leaves a snapshot that cannot be loaded again. The
\* methods keep everything the validator asks but one clause: record_api_failure
\* in stage REDUCED leaves a REDUCED snapshot without its three API successes,
\* which LoadRefused then meets.
RestartSafeButReduced ==
    LoadableFill(snapshot) /\ LoadableApi(snapshot) /\ LoadableStage(snapshot)

\* Entries resume only when they were earned: HALTED is left for REDUCED alone,
\* with no reason left, and after three API successes that all came after the
\* last API failure and after the last reason appeared, whatever the order in
\* which reasons came and went.
RecoveryEarned ==
    [][snapshot.stage = "HALTED" /\ snapshot'.stage # "HALTED" =>
          snapshot'.stage = "REDUCED" /\ Reasons(snapshot') = {} /\ streak' >= Required]_vars
=============================================================================
