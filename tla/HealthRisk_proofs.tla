------------------------- MODULE HealthRisk_proofs --------------------------
(***************************************************************************)
(* Part one: the health monitor keeps its snapshot loadable, but for one   *)
(* clause, and leaves HALTED only after an earned recovery, for every      *)
(* sequence of observations and every value of the bounds.                 *)
(*                                                                         *)
(* Part two: the risk policy blocks entries as long as it demands and no   *)
(* longer, and a bar evaluated again decides what it decided, for every    *)
(* course of the account and every duration and count of the policy.  The  *)
(* inductive invariant RiskInv says that what a bar left behind is settled *)
(* (evaluating it again begins and ends nothing) and ties the start each   *)
(* restriction remembers to the event it answers: a recovery to the latest   *)
(* fall (Drawdown), a daily halt to the days that lost (DayLoss), a streak *)
(* to its losses and the wins since (Streak), a volatility halt to the     *)
(* calm bars counted (Volatile).  BarIs is a step as the account takes it, *)
(* BarResult the state it leads to, field by field.                        *)
(***************************************************************************)
EXTENDS HealthMonitor, RiskState, SequenceTheorems, FiniteSetTheorems, WellFoundedInduction, TLAPS

(* What every observation keeps of a snapshot before its stage is derived ... *)

\* Nothing in the snapshot is later than the clock.
Timed(s, now) ==
    /\ s.last_success <= now /\ s.last_failure <= now /\ s.last_observation <= now
    /\ s.detected_at <= now /\ s.resolved_at <= now /\ s.last_recovery <= now

Sound(s, now) ==
    s \in Snapshot /\ LoadableFill(s) /\ LoadableApi(s) /\ Timed(s, now)

\* ... and what holds between observations.
Kept(s, now) == Sound(s, now) /\ LoadableStage(s)

\* Entries resume from s to t only without a reason and with three successes.
Earned(s, t) ==
    s.stage = "HALTED" /\ t.stage # "HALTED" =>
        t.stage = "REDUCED" /\ Reasons(t) = {} /\ t.api_successes >= Required

\* A check counts no success, and none that came before a new reason.
Counted(s, t) ==
    /\ t.api_successes <= s.api_successes
    /\ Reasons(t) \subseteq Reasons(s) \/ t.api_successes = 0

IInv ==
    /\ TypeOK
    /\ Kept(snapshot, clock)
    /\ snapshot.api_successes <= streak

-----------------------------------------------------------------------------
\* The stage of a snapshot is derived last.

\* _finish_observation changes the stage and the retry counter only.
LEMMA FinishFields ==
    ASSUME NEW t \in Snapshot
    PROVE  LET f == FinishObservation(t) IN
           /\ f \in Snapshot
           /\ f.stage = StageAfter(t)
           /\ f.retry_attempts = IF StageAfter(t) = "HALTED" THEN t.retry_attempts + 1 ELSE 0
           /\ f.faults = t.faults
           /\ f.api_failures = t.api_failures /\ f.api_successes = t.api_successes
           /\ f.latched = t.latched /\ f.latched_at = t.latched_at
           /\ f.last_success = t.last_success /\ f.last_failure = t.last_failure
           /\ f.last_observation = t.last_observation
           /\ f.fill_within_limit = t.fill_within_limit /\ f.fill_deviation = t.fill_deviation
           /\ f.episode = t.episode /\ f.checks = t.checks
           /\ f.anomaly_deviation = t.anomaly_deviation /\ f.detected_at = t.detected_at
           /\ f.resolved_at = t.resolved_at /\ f.last_recovery = t.last_recovery
<1>1. StageAfter(t) \in Stage BY DEF StageAfter, Snapshot, Stage
<1>2. (IF StageAfter(t) = "HALTED" THEN t.retry_attempts + 1 ELSE 0) \in Nat
  BY DEF Snapshot
<1> DEFINE f == FinishObservation(t)
<1>3. f \in Snapshot
  <2>1. ASSUME NEW x \in Stage, NEW y \in Nat
        PROVE  [t EXCEPT !.stage = x, !.retry_attempts = y] \in Snapshot
    BY DEF Snapshot
  <2> QED BY <1>1, <1>2, <2>1, Zenon DEF FinishObservation
<1>4. /\ f.stage = StageAfter(t)
      /\ f.retry_attempts = IF StageAfter(t) = "HALTED" THEN t.retry_attempts + 1 ELSE 0
  BY DEF FinishObservation, Snapshot
<1>5. /\ f.faults = t.faults
      /\ f.api_failures = t.api_failures /\ f.api_successes = t.api_successes
      /\ f.latched = t.latched /\ f.latched_at = t.latched_at
      /\ f.last_success = t.last_success /\ f.last_failure = t.last_failure
      /\ f.last_observation = t.last_observation
  BY DEF FinishObservation, Snapshot
<1>6. /\ f.fill_within_limit = t.fill_within_limit /\ f.fill_deviation = t.fill_deviation
      /\ f.episode = t.episode /\ f.checks = t.checks
      /\ f.anomaly_deviation = t.anomaly_deviation /\ f.detected_at = t.detected_at
      /\ f.resolved_at = t.resolved_at /\ f.last_recovery = t.last_recovery
  BY DEF FinishObservation, Snapshot
<1> QED BY <1>3, <1>4, <1>5, <1>6

\* It leaves a stage that agrees with the reasons, and leaves HALTED only when
\* there is none and three successes were counted.
LEMMA Finish ==
    ASSUME NEW now \in Nat, NEW t, Sound(t, now)
    PROVE  /\ Kept(FinishObservation(t), now)
           /\ Reasons(FinishObservation(t)) = Reasons(t)
           /\ FinishObservation(t).api_successes = t.api_successes
           /\ Earned(t, FinishObservation(t))
<1> DEFINE f == FinishObservation(t)
<1>1. t \in Snapshot BY DEF Sound
<1>2. Reasons(f) = Reasons(t) BY <1>1, FinishFields DEF Reasons
<1>3. LoadableFill(f) BY <1>1, FinishFields DEF Sound, LoadableFill
<1>4. LoadableApi(f) BY <1>1, FinishFields DEF Sound, LoadableApi, LastApi
<1>5. Timed(f, now) BY <1>1, FinishFields DEF Sound, Timed
<1>6. f.stage = StageAfter(t) /\ f.api_successes = t.api_successes BY <1>1, FinishFields
<1>7. f.retry_attempts = IF StageAfter(t) = "HALTED" THEN t.retry_attempts + 1 ELSE 0
  BY <1>1, FinishFields
<1>8. t.retry_attempts \in Nat /\ t.api_successes \in 0..3 /\ t.stage \in Stage
  BY <1>1 DEF Snapshot, Required
<1>9. LoadableStage(f)
  BY <1>2, <1>6, <1>7, <1>8 DEF LoadableStage, StageAfter, Stage, Required
<1>10. Earned(t, f)
  BY <1>2, <1>6, <1>8 DEF Earned, StageAfter, Stage
<1> QED BY <1>1, <1>2, <1>3, <1>4, <1>5, <1>6, <1>9, <1>10, FinishFields DEF Kept, Sound

\* The fields of a snapshot have their types, and a snapshot kept as it is earns
\* nothing.
LEMMA Fields ==
    ASSUME NEW s \in Snapshot
    PROVE  /\ s.stage \in Stage /\ s.faults \subseteq FlagReasons
           /\ s.api_failures \in Nat /\ s.api_successes \in 0..3
           /\ s.latched \in BOOLEAN /\ s.latched_at \in Nat
           /\ s.last_success \in Nat /\ s.last_failure \in Nat
           /\ s.last_observation \in Nat
           /\ s.fill_within_limit \in BOOLEAN /\ s.fill_deviation \in 0..1
           /\ s.episode \in Nat /\ s.checks \in 0..3 /\ s.anomaly_deviation \in 0..1
           /\ s.detected_at \in Nat /\ s.resolved_at \in Nat /\ s.last_recovery \in Nat
           /\ s.retry_attempts \in Nat
  BY DEF Snapshot, Required

-----------------------------------------------------------------------------
\* The observations

\* record_api_failure: the count of successes starts again.
LEMMA ApiFailureKeeps ==
    ASSUME NEW now \in Nat \ {0}, NEW s, Kept(s, now)
    PROVE  LET a == RecordApiFailure(s, now) IN
           Kept(a, now) /\ Earned(s, a) /\ (a = s \/ a.api_successes = 0)
<1> DEFINE failures == s.api_failures + 1
           latched == s.latched \/ failures >= Required
           since == IF latched /\ s.latched_at = Never THEN now ELSE s.latched_at
           latest == Later(s.last_observation, now)
           t == [s EXCEPT !.api_failures = failures, !.api_successes = 0,
                          !.latched = latched, !.latched_at = since,
                          !.last_failure = now, !.last_observation = latest]
           a == RecordApiFailure(s, now)
<1>1. s \in Snapshot BY DEF Kept, Sound
<1>2. CASE now <= LastApi(s)
  <2>1. a = s BY <1>2 DEF RecordApiFailure
  <2> QED BY <2>1 DEF Earned
<1>3. CASE ~(now <= LastApi(s))
  <2>1. a = FinishObservation(t) BY <1>3 DEF RecordApiFailure
  <2>2. failures \in Nat /\ latched \in BOOLEAN /\ since \in Nat /\ latest \in Nat
    BY <1>1, Fields DEF Later
  <2>3. t \in Snapshot
    <3>1. ASSUME NEW u \in Nat, NEW v \in 0..Required, NEW w \in BOOLEAN,
                 NEW x \in Nat, NEW y \in Nat, NEW z \in Nat
          PROVE  [s EXCEPT !.api_failures = u, !.api_successes = v,
                           !.latched = w, !.latched_at = x,
                           !.last_failure = y, !.last_observation = z] \in Snapshot
      BY <1>1 DEF Snapshot
    <3>2. now \in Nat /\ 0 \in 0..Required BY DEF Required
    <3> QED BY <2>2, <3>1, <3>2, Zenon
  <2>4. /\ t.stage = s.stage /\ t.api_failures = failures /\ t.api_successes = 0
        /\ t.latched = latched /\ t.latched_at = since
        /\ t.last_success = s.last_success /\ t.last_failure = now
        /\ t.last_observation = latest
    BY <1>1 DEF Snapshot
  <2>5. /\ t.fill_within_limit = s.fill_within_limit /\ t.fill_deviation = s.fill_deviation
        /\ t.episode = s.episode /\ t.checks = s.checks
        /\ t.anomaly_deviation = s.anomaly_deviation /\ t.detected_at = s.detected_at
        /\ t.resolved_at = s.resolved_at /\ t.last_recovery = s.last_recovery
    BY <1>1 DEF Snapshot
  <2>6. LoadableFill(t) BY <2>5 DEF Kept, Sound, LoadableFill
  <2> HIDE DEF t
  <2>7. s.last_success < now /\ s.last_failure < now
    BY <1>1, <1>3, Fields DEF LastApi, Later
  <2>8. LoadableApi(t)
    <3> USE <1>1, <2>4, <2>7, Fields DEF Kept, Sound, LoadableApi, LastApi, Later, Required, Never
    <3>1. t.latched => t.api_successes < 3 OBVIOUS
    <3>2. t.latched <=> t.latched_at # 0 OBVIOUS
    <3>3. t.latched => t.last_failure # 0 /\ t.latched_at <= t.last_failure OBVIOUS
    <3>4. t.latched /\ t.api_failures < 3 =>
            /\ t.last_success # 0 /\ t.latched_at < t.last_success
            /\ t.api_failures > 0 => t.last_success < t.last_failure
      OBVIOUS
    <3>5. t.api_failures >= 3 => t.latched OBVIOUS
    <3>6. t.api_failures > 0 => t.api_successes = 0 /\ t.last_failure # 0 OBVIOUS
    <3>7. t.api_successes > 0 => t.last_success # 0 OBVIOUS
    <3>8. Later(t.last_success, t.last_failure) <= t.last_observation OBVIOUS
    <3> QED BY <3>1, <3>2, <3>3, <3>4, <3>5, <3>6, <3>7, <3>8
  <2>9. Timed(t, now)
    BY <1>1, <2>4, <2>5, Fields DEF Kept, Sound, Timed, Later
  <2>10. Sound(t, now) BY <2>3, <2>6, <2>8, <2>9 DEF Sound
  <2> QED BY <2>1, <2>4, <2>10, Finish DEF Earned
<1> QED BY <1>2, <1>3

\* record_api_success: one more success, and the latch opens at the third.
LEMMA ApiSuccessKeeps ==
    ASSUME NEW now \in Nat \ {0}, NEW s, Kept(s, now)
    PROVE  LET a == RecordApiSuccess(s, now) IN
           Kept(a, now) /\ Earned(s, a)
             /\ (a = s \/ a.api_successes <= s.api_successes + 1)
<1> DEFINE successes == Capped(s.api_successes)
           latched == s.latched /\ successes < Required
           since == IF latched THEN s.latched_at ELSE Never
           latest == Later(s.last_observation, now)
           t == [s EXCEPT !.api_failures = 0, !.api_successes = successes,
                          !.latched = latched, !.latched_at = since,
                          !.last_success = now, !.last_observation = latest]
           a == RecordApiSuccess(s, now)
<1>1. s \in Snapshot BY DEF Kept, Sound
<1>2. CASE now <= LastApi(s)
  <2>1. a = s BY <1>2 DEF RecordApiSuccess
  <2> QED BY <2>1 DEF Earned
<1>3. CASE ~(now <= LastApi(s))
  <2>1. a = FinishObservation(t) BY <1>3 DEF RecordApiSuccess
  <2>2. /\ successes \in 0..Required /\ successes <= s.api_successes + 1
        /\ latched \in BOOLEAN /\ since \in Nat /\ latest \in Nat
    BY <1>1, Fields DEF Later, Capped, Required, Never
  <2>3. t \in Snapshot
    <3>1. ASSUME NEW u \in Nat, NEW v \in 0..Required, NEW w \in BOOLEAN,
                 NEW x \in Nat, NEW y \in Nat, NEW z \in Nat
          PROVE  [s EXCEPT !.api_failures = u, !.api_successes = v,
                           !.latched = w, !.latched_at = x,
                           !.last_success = y, !.last_observation = z] \in Snapshot
      BY <1>1 DEF Snapshot
    <3>2. now \in Nat /\ 0 \in Nat OBVIOUS
    <3> QED BY <2>2, <3>1, <3>2, Zenon
  <2>4. /\ t.stage = s.stage /\ t.api_failures = 0 /\ t.api_successes = successes
        /\ t.latched = latched /\ t.latched_at = since
        /\ t.last_success = now /\ t.last_failure = s.last_failure
        /\ t.last_observation = latest
    BY <1>1 DEF Snapshot
  <2>5. /\ t.fill_within_limit = s.fill_within_limit /\ t.fill_deviation = s.fill_deviation
        /\ t.episode = s.episode /\ t.checks = s.checks
        /\ t.anomaly_deviation = s.anomaly_deviation /\ t.detected_at = s.detected_at
        /\ t.resolved_at = s.resolved_at /\ t.last_recovery = s.last_recovery
    BY <1>1 DEF Snapshot
  <2>6. LoadableFill(t) BY <2>5 DEF Kept, Sound, LoadableFill
  <2> HIDE DEF t
  <2>7. s.last_success < now /\ s.last_failure < now
    BY <1>1, <1>3, Fields DEF LastApi, Later
  <2>8. LoadableApi(t)
    <3> USE <1>1, <2>2, <2>4, <2>7, Fields
        DEF Kept, Sound, LoadableApi, LastApi, Later, Required, Never
    <3>1. t.latched => t.api_successes < 3 OBVIOUS
    <3>2. t.latched <=> t.latched_at # 0 OBVIOUS
    <3>3. t.latched => t.last_failure # 0 /\ t.latched_at <= t.last_failure OBVIOUS
    <3>4. t.latched => t.last_success # 0 /\ t.latched_at < t.last_success OBVIOUS
    <3>5. Later(t.last_success, t.last_failure) <= t.last_observation OBVIOUS
    <3> QED BY <3>1, <3>2, <3>3, <3>4, <3>5
  <2>9. Timed(t, now)
    BY <1>1, <2>4, <2>5, Fields DEF Kept, Sound, Timed, Later
  <2>10. Sound(t, now) BY <2>3, <2>6, <2>8, <2>9 DEF Sound
  <2> QED BY <2>1, <2>2, <2>4, <2>10, Finish DEF Earned
<1> QED BY <1>2, <1>3

\* Every check of a flag: a new reason starts the count of successes again.
LEMMA SetFaultsKeeps ==
    ASSUME NEW now \in Nat \ {0}, NEW s, Kept(s, now), NEW bad \in SUBSET FlagReasons
    PROVE  LET a == SetFaults(s, bad, now) IN
           Kept(a, now) /\ Earned(s, a) /\ Counted(s, a)
<1> DEFINE successes == IF bad \subseteq s.faults THEN s.api_successes ELSE 0
           latest == Later(s.last_observation, now)
           t == [s EXCEPT !.faults = bad, !.api_successes = successes,
                          !.last_observation = latest]
           a == SetFaults(s, bad, now)
<1>1. s \in Snapshot BY DEF Kept, Sound
<1>2. a = FinishObservation(t) BY DEF SetFaults
<1>3. successes \in 0..Required /\ successes <= s.api_successes /\ latest \in Nat
  BY <1>1, Fields DEF Later, Required
<1>4. t \in Snapshot
  <2>1. ASSUME NEW u \in SUBSET FlagReasons, NEW v \in 0..Required, NEW w \in Nat
        PROVE  [s EXCEPT !.faults = u, !.api_successes = v,
                         !.last_observation = w] \in Snapshot
    BY <1>1 DEF Snapshot
  <2> QED BY <1>3, <2>1, Zenon
<1>5. /\ t.stage = s.stage /\ t.faults = bad /\ t.api_successes = successes
      /\ t.api_failures = s.api_failures
      /\ t.latched = s.latched /\ t.latched_at = s.latched_at
      /\ t.last_success = s.last_success /\ t.last_failure = s.last_failure
      /\ t.last_observation = latest
  BY <1>1 DEF Snapshot
<1>6. /\ t.fill_within_limit = s.fill_within_limit /\ t.fill_deviation = s.fill_deviation
      /\ t.episode = s.episode /\ t.checks = s.checks
      /\ t.anomaly_deviation = s.anomaly_deviation /\ t.detected_at = s.detected_at
      /\ t.resolved_at = s.resolved_at /\ t.last_recovery = s.last_recovery
  BY <1>1 DEF Snapshot
<1> HIDE DEF t
<1>7. LoadableFill(t) BY <1>6 DEF Kept, Sound, LoadableFill
<1>8. LoadableApi(t)
  BY <1>1, <1>3, <1>5, Fields DEF Kept, Sound, LoadableApi, LastApi, Later, Required, Never
<1>9. Timed(t, now) BY <1>1, <1>5, <1>6, Fields DEF Kept, Sound, Timed, Later
<1>10. Sound(t, now) BY <1>4, <1>7, <1>8, <1>9 DEF Sound
<1>11. Reasons(t) \subseteq Reasons(s) \/ t.api_successes = 0
  BY <1>5, <1>6 DEF Reasons
<1> QED BY <1>2, <1>3, <1>5, <1>10, <1>11, Finish DEF Earned, Counted

\* record_fill_check that is within the limit resolves an anomaly.
LEMMA FillWithinKeeps ==
    ASSUME NEW now \in Nat \ {0}, NEW s, Kept(s, now)
    PROVE  LET a == RecordFillCheck(s, TRUE, now) IN
           Kept(a, now) /\ Earned(s, a) /\ Counted(s, a)
<1> DEFINE resolves == ~s.fill_within_limit
           latest == Later(s.last_observation, now)
           checks == IF resolves THEN Required ELSE s.checks
           resolved == IF resolves THEN now ELSE s.resolved_at
           t0 == [s EXCEPT !.fill_within_limit = TRUE, !.last_observation = latest]
           t == [t0 EXCEPT !.fill_deviation = 0, !.checks = checks, !.resolved_at = resolved]
           a == RecordFillCheck(s, TRUE, now)
<1>1. s \in Snapshot BY DEF Kept, Sound
<1>2. a = FinishObservation(t) BY DEF RecordFillCheck
<1>3. latest \in Nat /\ checks \in 0..Required /\ resolved \in Nat
  BY <1>1, Fields DEF Later, Required
<1>4. t \in Snapshot
  <2>1. ASSUME NEW u \in BOOLEAN, NEW v \in Nat, NEW w \in 0..1,
               NEW x \in 0..Required, NEW y \in Nat
        PROVE  [[s EXCEPT !.fill_within_limit = u, !.last_observation = v]
                  EXCEPT !.fill_deviation = w, !.checks = x, !.resolved_at = y] \in Snapshot
    BY <1>1 DEF Snapshot
  <2>2. TRUE \in BOOLEAN /\ 0 \in 0..1 OBVIOUS
  <2> QED BY <1>3, <2>1, <2>2, Zenon
<1>5. /\ t.stage = s.stage /\ t.faults = s.faults /\ t.api_successes = s.api_successes
      /\ t.api_failures = s.api_failures
      /\ t.latched = s.latched /\ t.latched_at = s.latched_at
      /\ t.last_success = s.last_success /\ t.last_failure = s.last_failure
      /\ t.last_observation = latest
  BY <1>1 DEF Snapshot
<1>6. /\ t.fill_within_limit = TRUE /\ t.fill_deviation = 0
      /\ t.episode = s.episode /\ t.checks = checks
      /\ t.anomaly_deviation = s.anomaly_deviation /\ t.detected_at = s.detected_at
      /\ t.resolved_at = resolved /\ t.last_recovery = s.last_recovery
  BY <1>1 DEF Snapshot
<1> HIDE DEF t
<1>7. LoadableFill(t)
  BY <1>1, <1>6, Fields DEF Kept, Sound, Timed, LoadableFill, Required, Never
<1>8. LoadableApi(t)
  BY <1>1, <1>3, <1>5, Fields DEF Kept, Sound, LoadableApi, LastApi, Later, Required, Never
<1>9. Timed(t, now) BY <1>1, <1>5, <1>6, Fields DEF Kept, Sound, Timed, Later
<1>10. Sound(t, now) BY <1>4, <1>7, <1>8, <1>9 DEF Sound
<1>11. Reasons(t) \subseteq Reasons(s)
  BY <1>5, <1>6 DEF Reasons
<1>12. t.api_successes <= s.api_successes BY <1>1, <1>5, Fields
<1>13. /\ Kept(a, now) /\ Reasons(a) = Reasons(t)
       /\ a.api_successes = t.api_successes /\ Earned(t, a)
  BY <1>2, <1>10, Finish
<1> HIDE DEF a
<1>14. Earned(s, a) BY <1>5, <1>13 DEF Earned
<1>15. Counted(s, a) BY <1>11, <1>12, <1>13 DEF Counted
<1> QED BY <1>13, <1>14, <1>15 DEF a

\* record_fill_check beyond the limit: a new anomaly starts the count of
\* successes again, and any anomaly starts its own recovery again.
LEMMA FillBeyondKeeps ==
    ASSUME NEW now \in Nat \ {0}, NEW s, Kept(s, now)
    PROVE  LET a == RecordFillCheck(s, FALSE, now) IN
           Kept(a, now) /\ Earned(s, a) /\ Counted(s, a)
<1> DEFINE newly == s.fill_within_limit
           latest == Later(s.last_observation, now)
           episode == IF newly THEN s.episode + 1 ELSE s.episode
           detected == IF newly THEN now ELSE s.detected_at
           successes == IF newly THEN 0 ELSE s.api_successes
           t0 == [s EXCEPT !.fill_within_limit = FALSE, !.last_observation = latest]
           t == [t0 EXCEPT !.fill_deviation = 1, !.episode = episode,
                           !.detected_at = detected, !.anomaly_deviation = 1,
                           !.resolved_at = Never, !.checks = 0, !.last_recovery = Never,
                           !.api_successes = successes]
           a == RecordFillCheck(s, FALSE, now)
<1>1. s \in Snapshot BY DEF Kept, Sound
<1>2. a = FinishObservation(t) BY DEF RecordFillCheck
<1>3. /\ latest \in Nat /\ episode \in Nat /\ detected \in Nat
      /\ successes \in 0..Required /\ successes <= s.api_successes
  BY <1>1, Fields DEF Later, Required
<1>4. t \in Snapshot
  <2>1. ASSUME NEW u \in BOOLEAN, NEW v \in Nat
        PROVE  [s EXCEPT !.fill_within_limit = u, !.last_observation = v] \in Snapshot
    BY <1>1 DEF Snapshot
  <2>2. t0 \in Snapshot BY <1>3, <2>1, Zenon
  <2> HIDE DEF t0
  <2>3. ASSUME NEW w \in 0..1, NEW x \in Nat, NEW y \in Nat, NEW z \in 0..Required,
               NEW never \in Nat, NEW zero \in 0..Required
        PROVE  [t0 EXCEPT !.fill_deviation = w, !.episode = x, !.detected_at = y,
                          !.anomaly_deviation = w, !.resolved_at = never, !.checks = zero,
                          !.last_recovery = never, !.api_successes = z] \in Snapshot
    BY <2>2 DEF Snapshot
  <2>4. 1 \in 0..1 /\ Never \in Nat /\ 0 \in 0..Required
    BY DEF Never, Required
  <2> HIDE DEF latest, episode, detected, successes
  <2> QED BY <1>3, <2>3, <2>4, Zenon
<1>5. /\ t.stage = s.stage /\ t.faults = s.faults /\ t.api_successes = successes
      /\ t.api_failures = s.api_failures
      /\ t.latched = s.latched /\ t.latched_at = s.latched_at
      /\ t.last_success = s.last_success /\ t.last_failure = s.last_failure
      /\ t.last_observation = latest
  BY <1>1 DEF Snapshot
<1>6. /\ t.fill_within_limit = FALSE /\ t.fill_deviation = 1
      /\ t.episode = episode /\ t.checks = 0
      /\ t.anomaly_deviation = 1 /\ t.detected_at = detected
      /\ t.resolved_at = Never /\ t.last_recovery = Never
  BY <1>1 DEF Snapshot
<1> HIDE DEF t
<1>7. LoadableFill(t)
  BY <1>1, <1>6, Fields DEF Kept, Sound, Timed, LoadableFill, Required, Never
<1>8. LoadableApi(t)
  BY <1>1, <1>3, <1>5, Fields DEF Kept, Sound, LoadableApi, LastApi, Later, Required, Never
<1>9. Timed(t, now) BY <1>1, <1>5, <1>6, Fields DEF Kept, Sound, Timed, Later, Never
<1>10. Sound(t, now) BY <1>4, <1>7, <1>8, <1>9 DEF Sound
<1>11. Reasons(t) \subseteq Reasons(s) \/ t.api_successes = 0
  BY <1>5, <1>6 DEF Reasons
<1> QED BY <1>2, <1>3, <1>5, <1>10, <1>11, Finish DEF Earned, Counted

\* record_flat_fill_recovery_check: the third check in a row resolves.
LEMMA FlatRecoveryKeeps ==
    ASSUME NEW now \in Nat \ {0}, NEW s, Kept(s, now), NEW eligible \in BOOLEAN
    PROVE  LET a == RecordFlatFillRecovery(s, eligible, now) IN
           Kept(a, now) /\ Earned(s, a) /\ Counted(s, a)
<1> DEFINE checks == IF eligible THEN Capped(s.checks) ELSE 0
           resolved == eligible /\ checks >= Required
           latest == Later(s.last_observation, now)
           deviation == IF resolved THEN 0 ELSE s.fill_deviation
           resolvedAt == IF resolved THEN now ELSE Never
           t == [s EXCEPT !.fill_within_limit = resolved, !.fill_deviation = deviation,
                          !.checks = checks, !.resolved_at = resolvedAt,
                          !.last_recovery = now, !.last_observation = latest]
           a == RecordFlatFillRecovery(s, eligible, now)
<1>1. s \in Snapshot BY DEF Kept, Sound
<1>2. CASE s.fill_within_limit \/ now <= s.last_recovery
  <2>1. a = s BY <1>2 DEF RecordFlatFillRecovery
  <2> QED BY <1>1, <2>1, Fields DEF Earned, Counted
<1>3. CASE ~(s.fill_within_limit \/ now <= s.last_recovery)
  <2>1. a = FinishObservation(t) BY <1>3 DEF RecordFlatFillRecovery
  <2>2. /\ checks \in 0..Required /\ resolved \in BOOLEAN /\ latest \in Nat
        /\ deviation \in 0..1 /\ resolvedAt \in Nat
    BY <1>1, Fields DEF Later, Capped, Required, Never
  <2>3. t \in Snapshot
    <3>1. ASSUME NEW u \in BOOLEAN, NEW v \in 0..1, NEW w \in 0..Required,
                 NEW x \in Nat, NEW y \in Nat, NEW z \in Nat
          PROVE  [s EXCEPT !.fill_within_limit = u, !.fill_deviation = v,
                           !.checks = w, !.resolved_at = x,
                           !.last_recovery = y, !.last_observation = z] \in Snapshot
      BY <1>1 DEF Snapshot
    <3>2. now \in Nat OBVIOUS
    <3> QED BY <2>2, <3>1, <3>2, Zenon
  <2>4. /\ t.stage = s.stage /\ t.faults = s.faults /\ t.api_successes = s.api_successes
        /\ t.api_failures = s.api_failures
        /\ t.latched = s.latched /\ t.latched_at = s.latched_at
        /\ t.last_success = s.last_success /\ t.last_failure = s.last_failure
        /\ t.last_observation = latest
    BY <1>1 DEF Snapshot
  <2>5. /\ t.fill_within_limit = resolved /\ t.fill_deviation = deviation
        /\ t.episode = s.episode /\ t.checks = checks
        /\ t.anomaly_deviation = s.anomaly_deviation /\ t.detected_at = s.detected_at
        /\ t.resolved_at = resolvedAt /\ t.last_recovery = now
    BY <1>1 DEF Snapshot
  <2> HIDE DEF t
  <2>6. LoadableFill(t)
    BY <1>1, <1>3, <2>2, <2>5, Fields
    DEF Kept, Sound, Timed, LoadableFill, Capped, Required, Never
  <2>7. LoadableApi(t)
    BY <1>1, <2>2, <2>4, Fields DEF Kept, Sound, LoadableApi, LastApi, Later, Required, Never
  <2>8. Timed(t, now) BY <1>1, <2>4, <2>5, Fields DEF Kept, Sound, Timed, Later, Never
  <2>9. Sound(t, now) BY <2>3, <2>6, <2>7, <2>8 DEF Sound
  <2>10. Reasons(t) \subseteq Reasons(s) BY <1>3, <2>4 DEF Reasons
  <2> QED BY <1>1, <2>1, <2>4, <2>9, <2>10, Finish, Fields DEF Earned, Counted
<1> QED BY <1>2, <1>3

\* record_recovery_cycle_success: only REDUCED is promoted.
LEMMA RecoveryCycleKeeps ==
    ASSUME NEW now \in Nat \ {0}, NEW s, Kept(s, now)
    PROVE  LET a == RecordRecoveryCycle(s, now) IN
           Kept(a, now) /\ Earned(s, a) /\ Counted(s, a)
<1> DEFINE latest == Later(s.last_observation, now)
           t == [s EXCEPT !.last_observation = latest]
           n == [t EXCEPT !.stage = "NORMAL", !.retry_attempts = 0]
           a == RecordRecoveryCycle(s, now)
<1>1. s \in Snapshot BY DEF Kept, Sound
<1>2. latest \in Nat BY <1>1, Fields DEF Later
<1>3. t \in Snapshot
  <2>1. ASSUME NEW u \in Nat PROVE [s EXCEPT !.last_observation = u] \in Snapshot
    BY <1>1 DEF Snapshot
  <2> QED BY <1>2, <2>1, Zenon
<1>4. /\ t.stage = s.stage /\ t.faults = s.faults /\ t.api_successes = s.api_successes
      /\ t.api_failures = s.api_failures
      /\ t.latched = s.latched /\ t.latched_at = s.latched_at
      /\ t.last_success = s.last_success /\ t.last_failure = s.last_failure
      /\ t.last_observation = latest
  BY <1>1 DEF Snapshot
<1>5. /\ t.fill_within_limit = s.fill_within_limit /\ t.fill_deviation = s.fill_deviation
      /\ t.episode = s.episode /\ t.checks = s.checks
      /\ t.anomaly_deviation = s.anomaly_deviation /\ t.detected_at = s.detected_at
      /\ t.resolved_at = s.resolved_at /\ t.last_recovery = s.last_recovery
  BY <1>1 DEF Snapshot
<1> HIDE DEF t
<1>6. LoadableFill(t) BY <1>5 DEF Kept, Sound, LoadableFill
<1>7. LoadableApi(t)
  BY <1>1, <1>2, <1>4, Fields DEF Kept, Sound, LoadableApi, LastApi, Later, Required, Never
<1>8. Timed(t, now) BY <1>1, <1>4, <1>5, Fields DEF Kept, Sound, Timed, Later
<1>9. Sound(t, now) BY <1>3, <1>6, <1>7, <1>8 DEF Sound
<1>10. Reasons(t) = Reasons(s) BY <1>4, <1>5 DEF Reasons
<1>11. CASE s.stage = "REDUCED" /\ Reasons(s) = {}
  <2>1. a = n BY <1>11 DEF RecordRecoveryCycle, t
  <2>2. n \in Snapshot BY <1>3 DEF Snapshot, Stage
  <2>3. /\ n.stage = "NORMAL" /\ n.retry_attempts = 0
        /\ n.faults = t.faults /\ n.api_successes = t.api_successes
        /\ n.api_failures = t.api_failures
        /\ n.latched = t.latched /\ n.latched_at = t.latched_at
        /\ n.last_success = t.last_success /\ n.last_failure = t.last_failure
        /\ n.last_observation = t.last_observation
    BY <1>3 DEF Snapshot
  <2>4. /\ n.fill_within_limit = t.fill_within_limit /\ n.fill_deviation = t.fill_deviation
        /\ n.episode = t.episode /\ n.checks = t.checks
        /\ n.anomaly_deviation = t.anomaly_deviation /\ n.detected_at = t.detected_at
        /\ n.resolved_at = t.resolved_at /\ n.last_recovery = t.last_recovery
    BY <1>3 DEF Snapshot
  <2>5. Reasons(n) = {} BY <1>10, <1>11, <2>3, <2>4 DEF Reasons
  <2> HIDE DEF n
  <2>6. Sound(n, now)
    BY <1>9, <2>2, <2>3, <2>4 DEF Sound, LoadableFill, LoadableApi, LastApi, Timed
  <2>7. LoadableStage(n) BY <2>3, <2>5 DEF LoadableStage
  <2> QED
    BY <1>1, <1>4, <1>11, <2>1, <2>3, <2>5, <2>6, <2>7, Fields DEF Kept, Earned, Counted
<1>12. CASE ~(s.stage = "REDUCED" /\ Reasons(s) = {})
  <2>1. a = FinishObservation(t) BY <1>12 DEF RecordRecoveryCycle, t
  <2> QED BY <1>1, <1>4, <1>9, <1>10, <2>1, Finish, Fields DEF Earned, Counted
<1> QED BY <1>11, <1>12
-----------------------------------------------------------------------------
\* The monitor

\* A check that sets flags sets those of known reasons.
LEMMA FlagsKnown ==
    ASSUME NEW s, s.faults \subseteq FlagReasons
    PROVE  /\ \A reason \in Checks, bad \in BOOLEAN :
                 (IF bad THEN s.faults \cup {reason} ELSE s.faults \ {reason})
                    \in SUBSET FlagReasons
           /\ \A now \in Nat, found, late, valid \in BOOLEAN :
                 \E faults \in SUBSET FlagReasons :
                    RecordCandleCheck(s, found, late, valid, now) = SetFaults(s, faults, now)
<1>1. ASSUME NEW reason \in Checks, NEW bad \in BOOLEAN
      PROVE  (IF bad THEN s.faults \cup {reason} ELSE s.faults \ {reason})
                \in SUBSET FlagReasons
  BY HealthAssumption
<1>2. ASSUME NEW now \in Nat, NEW found \in BOOLEAN, NEW late \in BOOLEAN,
             NEW valid \in BOOLEAN
      PROVE  \E faults \in SUBSET FlagReasons :
                RecordCandleCheck(s, found, late, valid, now) = SetFaults(s, faults, now)
  <2> DEFINE stale == CASE found /\ valid -> {}
                        [] ~(found /\ valid) /\ late -> {"STALE_CANDLE"}
                        [] OTHER -> s.faults \cap {"STALE_CANDLE"}
             broken == IF valid THEN {} ELSE {"SCHEMA_ERROR"}
             faults == (s.faults \ {"STALE_CANDLE"}) \cup stale \cup broken
  <2>1. stale \subseteq FlagReasons
    <3>1. stale = {} \/ stale = {"STALE_CANDLE"} \/ stale = s.faults \cap {"STALE_CANDLE"}
      OBVIOUS
    <3> QED BY <3>1 DEF FlagReasons
  <2>2. broken \subseteq FlagReasons BY DEF FlagReasons
  <2>3. RecordCandleCheck(s, found, late, valid, now) = SetFaults(s, faults, now)
    BY DEF RecordCandleCheck
  <2> HIDE DEF stale, broken
  <2>4. faults \in SUBSET FlagReasons BY <2>1, <2>2
  <2> QED BY <2>3, <2>4
<1> QED BY <1>1, <1>2

\* A check takes one kept snapshot to another, and no success is invented.
LEMMA ObserveKeeps ==
    ASSUME IInv, NEW after, Observe(after),
           Kept(after, clock), Earned(snapshot, after), Counted(snapshot, after)
    PROVE  IInv' /\ Earned(snapshot, snapshot')
<1>1. snapshot' = after /\ clock' = clock /\ refused' = refused BY DEF Observe
<1>2. snapshot' \in Snapshot /\ Kept(snapshot', clock')
  BY <1>1 DEF Kept, Sound
<1>3. streak' \in Nat BY DEF Observe, IInv, TypeOK
<1>4. after.api_successes \in Nat /\ snapshot.api_successes \in Nat
  BY <1>1, <1>2, Fields DEF IInv, TypeOK, Required
<1>5. after.api_successes <= streak'
  BY <1>4 DEF Observe, Counted, IInv, TypeOK
<1> QED BY <1>1, <1>2, <1>3, <1>5 DEF IInv, TypeOK

\* A new monitor is healthy.
LEMMA InitKept == Init => IInv
<1> SUFFICES ASSUME Init PROVE IInv
  OBVIOUS
<1>1. TypeOK
  <2>1. HealthySnapshot \in Snapshot
    <3>1. {} \in SUBSET FlagReasons /\ 0 \in 0..Required /\ Never \in Nat
      BY DEF Required, Never
    <3> QED BY <3>1 DEF HealthySnapshot, Snapshot, Stage
  <2>2. clock \in Nat \ {Never} /\ streak \in Nat BY DEF Init, Never
  <2>3. snapshot \in Snapshot /\ refused \in BOOLEAN BY <2>1, Zenon DEF Init
  <2> QED BY <2>2, <2>3 DEF TypeOK
<1>2. LoadableFill(snapshot) /\ LoadableApi(snapshot)
  BY DEF Init, HealthySnapshot, LoadableFill, LoadableApi, LastApi, Later, Never, Required
<1>3. LoadableStage(snapshot)
  BY DEF Init, HealthySnapshot, LoadableStage, Reasons
<1>4. Timed(snapshot, clock) /\ snapshot.api_successes <= streak
  BY DEF Init, HealthySnapshot, Timed, Never
<1> QED BY <1>1, <1>2, <1>3, <1>4 DEF IInv, Kept, Sound, TypeOK

\* Every step keeps the invariant and earns what it recovers: one case per
\* action, each by the lemma about its record_* method.
LEMMA StepKeeps == IInv /\ [Next]_vars => IInv' /\ Earned(snapshot, snapshot')
<1> SUFFICES ASSUME IInv, [Next]_vars PROVE IInv' /\ Earned(snapshot, snapshot')
  OBVIOUS
<1>1. /\ clock \in Nat \ {0} /\ snapshot \in Snapshot /\ Kept(snapshot, clock)
      /\ snapshot.faults \subseteq FlagReasons
  BY Fields DEF IInv, TypeOK, Never
<1>2. CASE Tick
  <2>1. clock' = clock + 1 /\ snapshot' = snapshot /\ refused' = refused /\ streak' = streak
    BY <1>2 DEF Tick
  <2>2. Timed(snapshot, clock + 1)
    BY <1>1, Fields DEF Kept, Sound, Timed
  <2>3. Kept(snapshot', clock') BY <1>1, <2>1, <2>2 DEF Kept, Sound
  <2>4. TypeOK' BY <2>1 DEF IInv, TypeOK, Never
  <2> QED BY <2>1, <2>3, <2>4 DEF IInv, Earned
<1>3. CASE ApiFailure
  <2> DEFINE after == RecordApiFailure(snapshot, clock)
  <2>1. /\ Kept(after, clock) /\ Earned(snapshot, after)
        /\ after = snapshot \/ after.api_successes = 0
    BY <1>1, ApiFailureKeeps
  <2>2. /\ snapshot' = after /\ clock' = clock /\ refused' = refused
        /\ streak' = IF after = snapshot THEN streak ELSE 0
    BY <1>3 DEF ApiFailure
  <2> HIDE DEF after
  <2>3. after \in Snapshot BY <2>1 DEF Kept, Sound
  <2>4. streak' \in Nat /\ after.api_successes <= streak'
    BY <2>1, <2>2 DEF IInv, TypeOK
  <2> QED BY <2>1, <2>2, <2>3, <2>4 DEF IInv, TypeOK
<1>4. CASE ApiSuccess
  <2> DEFINE after == RecordApiSuccess(snapshot, clock)
  <2>1. /\ Kept(after, clock) /\ Earned(snapshot, after)
        /\ after = snapshot \/ after.api_successes <= snapshot.api_successes + 1
    BY <1>1, ApiSuccessKeeps
  <2>2. /\ snapshot' = after /\ clock' = clock /\ refused' = refused
        /\ streak' = IF after = snapshot THEN streak ELSE streak + 1
    BY <1>4 DEF ApiSuccess
  <2> HIDE DEF after
  <2>3. after \in Snapshot BY <2>1 DEF Kept, Sound
  <2>4. after.api_successes \in Nat /\ snapshot.api_successes \in Nat
    BY <1>1, <2>3, Fields DEF Required
  <2>5. streak' \in Nat /\ after.api_successes <= streak'
    BY <2>1, <2>2, <2>4 DEF IInv, TypeOK
  <2> QED BY <2>1, <2>2, <2>3, <2>5 DEF IInv, TypeOK
<1>5. CASE FlagCheck
  <2>1. PICK reason \in Checks, bad \in BOOLEAN :
           Observe(RecordFlag(snapshot, reason, bad, clock))
    BY <1>5 DEF FlagCheck
  <2> DEFINE faults == IF bad THEN snapshot.faults \cup {reason}
                       ELSE snapshot.faults \ {reason}
             after == SetFaults(snapshot, faults, clock)
  <2>2. RecordFlag(snapshot, reason, bad, clock) = after BY DEF RecordFlag
  <2>3. faults \in SUBSET FlagReasons BY <1>1, FlagsKnown
  <2>4. Kept(after, clock) /\ Earned(snapshot, after) /\ Counted(snapshot, after)
    BY <1>1, <2>3, SetFaultsKeeps
  <2> QED BY <2>1, <2>2, <2>4, ObserveKeeps
<1>6. CASE CandleCheck
  <2>1. PICK found, late, valid \in BOOLEAN :
           Observe(RecordCandleCheck(snapshot, found, late, valid, clock))
    BY <1>6 DEF CandleCheck
  <2>2. PICK faults \in SUBSET FlagReasons :
           RecordCandleCheck(snapshot, found, late, valid, clock)
             = SetFaults(snapshot, faults, clock)
    BY <1>1, FlagsKnown
  <2> DEFINE after == SetFaults(snapshot, faults, clock)
  <2>3. Kept(after, clock) /\ Earned(snapshot, after) /\ Counted(snapshot, after)
    BY <1>1, SetFaultsKeeps
  <2> QED BY <2>1, <2>2, <2>3, ObserveKeeps
<1>7. CASE FillCheck
  <2>1. PICK within \in BOOLEAN : Observe(RecordFillCheck(snapshot, within, clock))
    BY <1>7 DEF FillCheck
  <2> DEFINE after == RecordFillCheck(snapshot, within, clock)
  <2>2. Kept(after, clock) /\ Earned(snapshot, after) /\ Counted(snapshot, after)
    BY <1>1, FillWithinKeeps, FillBeyondKeeps
  <2> QED BY <2>1, <2>2, ObserveKeeps
<1>8. CASE FlatFillRecovery
  <2>1. PICK eligible \in BOOLEAN :
           Observe(RecordFlatFillRecovery(snapshot, eligible, clock))
    BY <1>8 DEF FlatFillRecovery
  <2> DEFINE after == RecordFlatFillRecovery(snapshot, eligible, clock)
  <2>2. Kept(after, clock) /\ Earned(snapshot, after) /\ Counted(snapshot, after)
    BY <1>1, FlatRecoveryKeeps
  <2> QED BY <2>1, <2>2, ObserveKeeps
<1>9. CASE RecoveryCycle
  <2> DEFINE after == RecordRecoveryCycle(snapshot, clock)
  <2>1. Kept(after, clock) /\ Earned(snapshot, after) /\ Counted(snapshot, after)
    BY <1>1, RecoveryCycleKeeps
  <2> QED BY <1>9, <2>1, ObserveKeeps DEF RecoveryCycle
<1>10. CASE LoadRefused
  BY <1>10 DEF LoadRefused, IInv, TypeOK, Earned
<1>11. CASE UNCHANGED vars
  BY <1>11 DEF vars, IInv, TypeOK, Earned
<1> QED
  BY <1>2, <1>3, <1>4, <1>5, <1>6, <1>7, <1>8, <1>9, <1>10, <1>11 DEF Next

-----------------------------------------------------------------------------
(* The theorems *)

\* Type correctness: every record_* method returns a well-formed snapshot.
THEOREM TypeCorrect == Spec => []TypeOK
<1>1. IInv => TypeOK BY DEF IInv
<1> QED BY <1>1, InitKept, StepKeeps, PTL DEF Spec

\* No sequence of record_* observations leaves a snapshot that
\* _validate_snapshot_relationships would refuse, but for its demand that a
\* REDUCED snapshot still carries three API successes.
THEOREM RestartSafeButReducedAlways == Spec => []RestartSafeButReduced
<1>1. IInv => RestartSafeButReduced BY DEF IInv, Kept, Sound, RestartSafeButReduced
<1> QED BY <1>1, InitKept, StepKeeps, PTL DEF Spec

\* _finish_observation lifts HALTED only to REDUCED, only without a reason, and
\* only after three API successes since the last failure and the last new reason.
THEOREM RecoveryEarnedAlways == Spec => RecoveryEarned
<1> DEFINE Step == snapshot.stage = "HALTED" /\ snapshot'.stage # "HALTED" =>
                      snapshot'.stage = "REDUCED" /\ Reasons(snapshot') = {}
                        /\ streak' >= Required
<1>1. IInv /\ [Next]_vars => [Step]_vars
  <2> SUFFICES ASSUME IInv, [Next]_vars PROVE Step
    OBVIOUS
  <2>1. IInv' /\ Earned(snapshot, snapshot') BY StepKeeps
  <2>2. /\ snapshot'.api_successes \in Nat /\ streak' \in Nat
        /\ snapshot'.api_successes <= streak'
    BY <2>1, Fields DEF IInv, TypeOK, Required
  <2> QED BY <2>1, <2>2 DEF Earned, Required
<1> QED BY <1>1, InitKept, StepKeeps, PTL DEF Spec, RecoveryEarned

-----------------------------------------------------------------------------
\* The risk policy: what it holds

Instants == Nat \cup {NoBar}
TradeShape == [pnl : Int, exit : Nat]
EquityShape == [at : Nat, equity : Nat]
RiskShape ==
    [initial : {Initial}, peak : Nat, date : Instants, dayBase : Nat, history : Seq(EquityShape),
     started : Instants, lastEquity : Levels \cup {Initial}, lastAt : Instants, losses : Nat, count : Nat,
     recovery : Instants, daily : Instants, weekly : Instants, streak : Instants, wins : Nat,
     wild : BOOLEAN, calm : Nat, decision : Decisions]
ObservationShape ==
    [now : Instants, equity : Levels \cup {Initial}, trades : Seq(TradeShape), ratio : Nat,
     barValid : BOOLEAN, healthy : BOOLEAN]
EventShape ==
    [drawdown : Instants, below : BOOLEAN, daily : Instants, day : Instants, streak : Instants, wins : Nat,
     wild : BOOLEAN, calm : Nat]

RiskShaped ==
    /\ risk \in RiskShape /\ last \in ObservationShape /\ event \in EventShape
    /\ trades \in Seq(TradeShape) /\ position \in {NoEntry} \cup Levels \cup {Initial}
    /\ risk.count = Len(trades) /\ last.trades = trades
    /\ last.now = risk.lastAt /\ last.equity = risk.lastEquity /\ risk.lastEquity <= risk.peak
    /\ IF risk.lastAt = NoBar THEN /\ risk.date = NoBar /\ risk.started = NoBar /\ position = NoEntry
                                   /\ ~risk.wild /\ risk.decision.rate # 0
       ELSE /\ risk.date = DayOf(risk.lastAt) /\ risk.started # NoBar
            /\ risk.history # <<>> /\ risk.history[1].at >= risk.lastAt - Week

\* When an event began that is on after a bar, and whether it is over.
Begun(old, trigger, now) == IF trigger /\ old = NoBar THEN now ELSE old
Over(start, length, calm, now) == start # NoBar /\ now >= start + length /\ calm
Left(start, length, calm, now) == IF Over(start, length, calm, now) THEN NoBar ELSE start

\* The conditions under which a streak and a volatility halt end.
StreakOver(s, o) == Over(s.streak, StreakHalt, s.wins >= WinsClear, o.now)
Calmed(s, o) == s.wild /\ o.barValid /\ o.ratio <= 3 /\ s.calm >= CalmBars

\* What a bar decides is final: evaluating it again begins and ends nothing.
NothingBegins(s, o) ==
    /\ LossAtLeast(o.equity, s.peak, HardDrawdown) => s.recovery # NoBar
    /\ LossAtLeast(o.equity, s.dayBase, DailyLossLimit) => s.daily # NoBar
    /\ LossAtLeast(o.equity, WeekBase(s), WeeklyHaltLimit) => s.weekly # NoBar
    /\ s.losses >= LossesHalt => s.streak # NoBar
NothingEnds(s, o) ==
    /\ ~Over(s.recovery, RecoveryHalt, o.equity >= s.peak, o.now)
    /\ ~Over(s.daily, DailyHalt, ~LossAtLeast(o.equity, s.dayBase, DailyLossLimit), o.now)
    /\ ~Over(s.weekly, WeeklyHalt, ~LossAtLeast(o.equity, WeekBase(s), WeeklyHaltLimit), o.now)
    /\ ~StreakOver(s, o) /\ ~Calmed(s, o)
Settled ==
    risk.lastAt # NoBar =>
        NothingBegins(risk, last) /\ NothingEnds(risk, last) /\ risk.decision = EvaluateRisk(risk, last)

\* A recovery is that of the last fall below the peak, and the account is flat while it lasts.
Drawdown ==
    /\ risk.recovery # NoBar => risk.recovery = event.drawdown /\ risk.recovery <= risk.lastAt
    /\ event.below => risk.recovery # NoBar
    /\ ~event.below /\ risk.recovery # NoBar =>
          Running(risk.recovery, RecoveryHalt, risk.lastAt) /\ position = NoEntry /\ risk.lastEquity >= risk.peak
    /\ event.drawdown # NoBar /\ risk.lastAt < event.drawdown + RecoveryHalt => risk.recovery = event.drawdown
    /\ Running(risk.recovery, RecoveryHalt, risk.lastAt) /\ risk.lastAt > risk.recovery => position = NoEntry

\* A daily halt began on a day that lost, and outlasts its time on such days only.
DayLoss ==
    /\ risk.daily # NoBar => risk.daily <= risk.lastAt /\ event.day # NoBar /\ DayOf(risk.daily) <= event.day
    /\ event.day # NoBar => risk.lastAt # NoBar /\ event.day <= DayOf(risk.lastAt)
    /\ risk.daily # NoBar => Running(risk.daily, DailyHalt, risk.lastAt) \/ event.day = DayOf(risk.lastAt)
    /\ event.daily # NoBar /\ risk.lastAt < event.daily + DailyHalt => risk.daily = event.daily

\* No trade is open while a losing streak is served, so its wins come later.
Streak ==
    /\ risk.losses >= LossesHalt => risk.streak # NoBar
    /\ risk.streak # NoBar => /\ risk.streak = event.streak /\ risk.wins = event.wins
                              /\ event.wins < WinsClear /\ risk.streak <= risk.lastAt
    /\ event.streak # NoBar /\ risk.streak = NoBar =>
          event.wins >= WinsClear /\ risk.lastAt >= event.streak + StreakHalt
    /\ position # NoEntry => ~Running(risk.streak, StreakHalt, risk.lastAt)

\* The calm bars of a volatility halt are counted as they come.
Volatile ==
    /\ event.wild = risk.wild
    /\ IF risk.wild THEN risk.calm = event.calm /\ risk.calm < CalmBars ELSE last.ratio <= 6

RiskInv == RiskShaped /\ Settled /\ Drawdown /\ DayLoss /\ Streak /\ Volatile

-----------------------------------------------------------------------------
\* Numbers

\* The constants are numbers.
LEMMA RiskConstants ==
    /\ {Day, LossesHalt, LossesReduce, WinsClear, CalmBars, Initial} \subseteq Nat \ {0}
    /\ {Week, DailyHalt, WeeklyHalt, StreakHalt, RecoveryHalt, MaxBar} \subseteq Nat
    /\ Levels \subseteq Nat \ {0} /\ Ratios \subseteq Nat /\ DailyHalt <= Day
    /\ Levels \cup {Initial} \subseteq Nat \ {0}
BY RiskAssumption

\* The larger of two numbers.
LEMMA LargerOfTwo ==
    ASSUME NEW a \in Int, NEW b \in Int
    PROVE  Max({a, b}) \in {a, b} /\ Max({a, b}) >= a /\ Max({a, b}) >= b
<1>1. \E x \in {a, b} : \A y \in {a, b} : x >= y
  OBVIOUS
<1>2. QED
  BY <1>1 DEF Max

\* The largest of four numbers.
LEMMA LargestOfFour ==
    ASSUME NEW a \in Int, NEW b \in Int, NEW c \in Int, NEW d \in Int
    PROVE  LET m == Max({a, b, c, d}) IN m \in {a, b, c, d} /\ m >= a /\ m >= b /\ m >= c /\ m >= d
<1> DEFINE x == IF a >= b THEN a ELSE b
           y == IF c >= d THEN c ELSE d
           z == IF x >= y THEN x ELSE y
           m == Max({a, b, c, d})
<1>1. x \in Int /\ x >= a /\ x >= b /\ y \in Int /\ y >= c /\ y >= d /\ (x = a \/ x = b) /\ (y = c \/ y = d)
  OBVIOUS
<1> HIDE DEF x, y
<1>2. z \in Int /\ z >= x /\ z >= y /\ (z = x \/ z = y)
  BY <1>1
<1> HIDE DEF z
<1>3. z >= a /\ z >= b /\ z >= c /\ z >= d /\ (z = a \/ z = b \/ z = c \/ z = d)
  BY <1>1, <1>2
<1>4. \E k \in {a, b, c, d} : \A j \in {a, b, c, d} : k >= j
  <2>1. z \in {a, b, c, d}
    BY <1>3, Zenon
  <2>2. \A j \in {a, b, c, d} : z >= j
    BY <1>3, Zenon
  <2>3. QED
    BY <2>1, <2>2, Zenon
<1>5. m \in {a, b, c, d} /\ \A j \in {a, b, c, d} : m >= j
  BY <1>4, Zenon DEF Max
<1> HIDE DEF m
<1>6. QED
  BY <1>5, Zenon DEF m

\* The smallest of some numbers.
LEMMA SmallestOfAll ==
    ASSUME NEW K \in SUBSET Nat, K # {}
    PROVE  Min(K) \in K /\ \A k \in K : Min(K) <= k
<1> DEFINE below == {ss \in Nat \X Nat : ss[1] < ss[2]}
<1>1. IsWellFoundedOn(below, Nat)
  BY NatLessThanWellFounded DEF OpToRel
<1>2. PICK m \in K : \A y \in K : <<y, m>> \notin below
  <2> HIDE DEF below
  <2>1. QED
    BY <1>1, WFMin
<1>3. ASSUME NEW y \in K PROVE m <= y
  <2>1. y \in Nat /\ m \in Nat /\ (y < m => <<y, m>> \in below)
    OBVIOUS
  <2>2. QED
    BY <1>2, <2>1
<1>4. QED
  BY <1>3 DEF Min

\* A bar and its day.
LEMMA DayBounds ==
    ASSUME NEW x \in Nat
    PROVE  DayOf(x) \in Nat /\ Day * DayOf(x) <= x /\ x < Day * DayOf(x) + Day
<1>1. Day \in Nat \ {0}
  BY RiskConstants
<1>2. QED
  BY <1>1 DEF DayOf

\* Days follow their bars.
LEMMA DayLater ==
    ASSUME NEW x \in Nat, NEW y \in Nat, x <= y
    PROVE  DayOf(x) <= DayOf(y)
<1> DEFINE a == DayOf(x)
           b == DayOf(y)
<1>1. Day \in Nat \ {0} /\ a \in Nat /\ b \in Nat /\ Day * a <= x /\ y < Day * b + Day
  BY RiskConstants, DayBounds
<1> HIDE DEF a, b
<1>2. ASSUME a > b PROVE FALSE
  <2>1. a >= b + 1
    BY <1>1, <1>2
  <2>2. Day * a >= Day * (b + 1)
    BY <1>1, <2>1
  <2>3. Day * (b + 1) = Day * b + Day
    BY <1>1
  <2>4. Day * a \in Int /\ Day * b \in Int
    BY <1>1
  <2>5. QED
    BY <1>1, <2>2, <2>3, <2>4
<1>3. a <= b
  BY <1>1, <1>2
<1>4. QED
  BY <1>3 DEF a, b

\* A daily halt that began two days ago was served a bar ago.
LEMMA TwoDays ==
    ASSUME NEW x \in Nat, NEW t \in Nat, DayOf(x) + 2 <= DayOf(t)
    PROVE  t - 1 >= x + DailyHalt
<1> DEFINE a == DayOf(x)
           b == DayOf(t)
<1>1. /\ Day \in Nat \ {0} /\ a \in Nat /\ b \in Nat /\ x < Day * a + Day /\ Day * b <= t
      /\ DailyHalt \in Nat /\ DailyHalt <= Day /\ a + 2 <= b
  BY RiskConstants, DayBounds
<1> HIDE DEF a, b
<1>2. Day * (a + 2) <= Day * b
  BY <1>1
<1>3. Day * (a + 2) = Day * a + 2 * Day
  BY <1>1
<1>4. Day * a \in Int /\ Day * b \in Int
  BY <1>1
<1>5. QED
  BY <1>1, <1>2, <1>3, <1>4

\* At the peak nothing is lost.
LEMMA NoLossAtPeak ==
    ASSUME NEW eq \in Nat, NEW peak \in Nat, eq >= peak
    PROVE  ~LossAtLeast(eq, peak, 5) /\ ~LossAtLeast(eq, peak, 10) /\ ~LossAtLeast(eq, peak, HardDrawdown)
BY DEF LossAtLeast, HardDrawdown

-----------------------------------------------------------------------------
\* What an observation adds

\* The equities of the last week, when the latest of them is that of this bar.
LEMMA LastWeekFits ==
    ASSUME NEW history \in Seq(EquityShape), NEW now \in Nat, NEW k \in 1..Len(history),
           history[k].at >= now - Week
    PROVE  /\ LastWeek(history, now) \in Seq(EquityShape) /\ LastWeek(history, now) # <<>>
           /\ LastWeek(history, now)[1].at >= now - Week
<1> DEFINE K == {j \in 1..Len(history) : history[j].at >= now - Week}
           m == Min(K)
           n == Len(history)
<1>1. n \in Nat /\ DOMAIN history = 1..n
  BY LenProperties
<1>2. m \in K /\ m \in 1..n
  <2>1. K \in SUBSET Nat /\ K # {}
    BY <1>1
  <2> HIDE DEF K
  <2>2. m \in K
    BY <2>1, SmallestOfAll
  <2>3. QED
    BY <2>2 DEF K
<1>3. LastWeek(history, now) = SubSeq(history, m, n)
  BY <1>1 DEF LastWeek
<1>4. history[m].at >= now - Week
  BY <1>2
<1> HIDE DEF m, n
<1>5. /\ SubSeq(history, m, n) \in Seq(EquityShape) /\ Len(SubSeq(history, m, n)) = n - m + 1
      /\ SubSeq(history, m, n)[1] = history[m]
  <2>1. n = Len(history)
    BY DEF n
  <2>2. m \in 1..Len(history) + 1 /\ n \in 0..Len(history)
    BY <1>1, <1>2, <2>1
  <2>3. QED
    BY <1>1, <1>2, <2>1, <2>2, SubSeqProperties
<1>6. SubSeq(history, m, n) # <<>>
  BY <1>1, <1>2, <1>5, EmptySeq
<1>7. QED
  BY <1>3, <1>4, <1>5, <1>6

\* What is kept of a week is kept again.
LEMMA LastWeekAgain ==
    ASSUME NEW history \in Seq(EquityShape), history # <<>>, NEW now \in Nat, history[1].at >= now - Week
    PROVE  LastWeek(history, now) = history
<1> DEFINE K == {j \in 1..Len(history) : history[j].at >= now - Week}
           n == Len(history)
<1>1. n \in Nat /\ DOMAIN history = 1..n /\ n >= 1
  BY LenProperties, EmptySeq
<1>2. 1 \in K /\ \A k \in K : 1 <= k
  BY <1>1
<1>3. K \in SUBSET Nat
  BY <1>1
<1>4. Min(K) = 1
  <2> DEFINE m == Min(K)
  <2>1. m \in K /\ \A k \in K : m <= k
    <3> HIDE DEF K
    <3>1. QED
      BY <1>2, <1>3, SmallestOfAll
  <2>2. m \in Nat /\ m <= 1 /\ 1 <= m
    BY <1>2, <1>3, <2>1
  <2> HIDE DEF m
  <2>3. m = 1
    BY <2>2
  <2>4. QED
    BY <2>3 DEF m
<1>5. LastWeek(history, now) = SubSeq(history, 1, n)
  BY <1>1, <1>4 DEF LastWeek
<1>6. SubSeq(history, 1, n) = history
  BY SubSeqFull
<1>7. QED
  BY <1>5, <1>6

\* Without a new trade the counts stay.
LEMMA NoNewTrade ==
    ASSUME NEW s \in RiskShape, NEW o \in ObservationShape, s.count = Len(o.trades)
    PROVE  Losses(s, o) = s.losses /\ Wins(s, o) = s.wins
<1>1. s.count \in Nat /\ s.losses \in Nat /\ s.wins \in Nat
  BY DEF RiskShape
<1>2. NewTrades(s, o) = {}
  BY <1>1 DEF NewTrades
<1>3. Cardinality({}) = 0
  BY FS_EmptySet
<1>4. Losses(s, o) = s.losses
  BY <1>1, <1>2, <1>3 DEF Losses
<1>5. Wins(s, o) = s.wins
  BY <1>1, <1>2, <1>3 DEF Wins
<1>6. QED
  BY <1>4, <1>5

\* One new trade extends a losing streak or ends it, and may be a win.
LEMMA OneNewTrade ==
    ASSUME NEW s \in RiskShape, NEW o \in ObservationShape, Len(o.trades) = s.count + 1,
           NEW x \in TradeShape, x = o.trades[s.count + 1]
    PROVE  /\ Losses(s, o) = (IF x.pnl < 0 THEN s.losses + 1 ELSE 0)
           /\ Wins(s, o) = (IF s.streak # NoBar /\ x.pnl > 0 /\ x.exit > s.streak THEN s.wins + 1 ELSE s.wins)
<1> DEFINE n == s.count + 1
           kept == {k \in NewTrades(s, o) : o.trades[k].pnl >= 0}
           won == {k \in NewTrades(s, o) : o.trades[k].pnl > 0 /\ o.trades[k].exit > s.streak}
<1>1. s.count \in Nat /\ s.losses \in Nat /\ s.wins \in Nat /\ x.pnl \in Int /\ n \in Nat
  BY DEF RiskShape, TradeShape
<1>2. NewTrades(s, o) = {n}
  BY <1>1 DEF NewTrades
<1>3. Cardinality({n}) = 1 /\ Cardinality({}) = 0
  BY FS_EmptySet, FS_Singleton
<1>4. Losses(s, o) = (IF x.pnl < 0 THEN s.losses + 1 ELSE 0)
  <2>1. CASE x.pnl < 0
    <3>1. kept = {}
      BY <1>1, <1>2, <2>1
    <3> HIDE DEF n
    <3>2. QED
      BY <1>1, <1>2, <1>3, <2>1, <3>1 DEF Losses
  <2>2. CASE ~(x.pnl < 0)
    <3>1. kept = {n}
      BY <1>1, <1>2, <2>2
    <3>2. Max({n}) = n
      BY <1>1 DEF Max
    <3>3. Losses(s, o) = Len(o.trades) - n
      BY <3>1, <3>2 DEF Losses
    <3>4. QED
      BY <1>1, <2>2, <3>3
  <2>3. QED
    BY <2>1, <2>2
<1>5. Wins(s, o) = (IF s.streak # NoBar /\ x.pnl > 0 /\ x.exit > s.streak THEN s.wins + 1 ELSE s.wins)
  <2>1. CASE x.pnl > 0 /\ x.exit > s.streak
    <3>1. won = {n}
      BY <1>2, <2>1
    <3>2. Cardinality(won) = 1
      BY <1>3, <3>1
    <3>3. Wins(s, o) = s.wins + (IF s.streak = NoBar THEN 0 ELSE 1)
      BY <3>2 DEF Wins
    <3> HIDE DEF won
    <3>4. QED
      BY <1>1, <2>1, <3>3
  <2>2. CASE ~(x.pnl > 0 /\ x.exit > s.streak)
    <3>1. won = {}
      BY <1>2, <2>2
    <3>2. Cardinality(won) = 0
      BY <1>3, <3>1
    <3>3. Wins(s, o) = s.wins + (IF s.streak = NoBar THEN 0 ELSE 0)
      BY <3>2 DEF Wins
    <3> HIDE DEF won
    <3>4. QED
      BY <1>1, <2>2, <3>3
  <2>3. QED
    BY <2>1, <2>2
<1>6. QED
  BY <1>4, <1>5

-----------------------------------------------------------------------------
\* advance_risk_state, field by field

\* What the observation adds.
LEMMA FactsFields ==
    ASSUME NEW s \in RiskShape, NEW o \in ObservationShape, o.now \in Nat,
           Losses(s, o) \in Nat, Wins(s, o) \in Nat, Recent(s, o) \in Seq(EquityShape)
    PROVE  LET f == Facts(s, o)
           IN  /\ f \in RiskShape
               /\ f.peak \in {s.peak, o.equity} /\ f.peak >= s.peak /\ f.peak >= o.equity
               /\ f.date = DayOf(o.now) /\ f.history = Recent(s, o) /\ f.started # NoBar
               /\ f.dayBase = (IF s.date # NoBar /\ s.date # DayOf(o.now) THEN s.lastEquity ELSE s.dayBase)
               /\ f.lastEquity = o.equity /\ f.lastAt = o.now /\ f.count = Len(o.trades)
               /\ f.losses = Losses(s, o) /\ f.wins = Wins(s, o)
               /\ f.wild = (s.wild \/ o.ratio > 6)
               /\ f.calm = (IF ~s.wild /\ o.ratio > 6 THEN 0
                            ELSE IF s.wild /\ s.lastAt # o.now THEN CalmCount(s, o) ELSE s.calm)
               /\ f.recovery = s.recovery /\ f.daily = s.daily /\ f.weekly = s.weekly /\ f.streak = s.streak
<1> DEFINE peak == Max({s.peak, o.equity})
           dayBase == IF s.date # NoBar /\ s.date # DayOf(o.now) THEN s.lastEquity ELSE s.dayBase
           calm == IF ~s.wild /\ o.ratio > 6 THEN 0
                   ELSE IF s.wild /\ s.lastAt # o.now THEN CalmCount(s, o) ELSE s.calm
           started == IF s.started = NoBar THEN o.now ELSE s.started
           f == [s EXCEPT !.peak = peak, !.date = DayOf(o.now), !.dayBase = dayBase, !.history = Recent(s, o),
                          !.started = started, !.lastEquity = o.equity, !.lastAt = o.now, !.count = Len(o.trades),
                          !.losses = Losses(s, o), !.wins = Wins(s, o), !.wild = s.wild \/ o.ratio > 6, !.calm = calm]
<1>1. /\ s.peak \in Nat /\ s.lastEquity \in Nat /\ s.dayBase \in Nat /\ s.calm \in Nat /\ s.wild \in BOOLEAN
      /\ s.started \in Instants /\ o.equity \in Nat /\ o.equity \in Levels \cup {Initial} /\ Len(o.trades) \in Nat
      /\ o.ratio \in Nat
  <2>1. o.trades \in Seq(TradeShape) /\ o.equity \in Levels \cup {Initial} /\ o.ratio \in Nat
    BY DEF ObservationShape
  <2>2. s.lastEquity \in Levels \cup {Initial}
    BY DEF RiskShape
  <2>3. \A x \in Levels \cup {Initial} : x \in Nat
    BY RiskConstants
  <2>4. /\ s.peak \in Nat /\ s.dayBase \in Nat /\ s.calm \in Nat /\ s.wild \in BOOLEAN /\ s.started \in Instants
    BY DEF RiskShape
  <2>5. QED
    BY <2>1, <2>2, <2>3, <2>4, LenProperties
<1>2. peak \in {s.peak, o.equity} /\ peak >= s.peak /\ peak >= o.equity /\ peak \in Nat
  <2>1. s.peak \in Int /\ o.equity \in Int
    BY <1>1
  <2>2. peak \in {s.peak, o.equity} /\ peak >= s.peak /\ peak >= o.equity
    BY <2>1, LargerOfTwo
  <2>3. QED
    BY <1>1, <2>2
<1>3. DayOf(o.now) \in Nat /\ dayBase \in Nat /\ calm \in Nat /\ started \in Nat
  <2>1. DayOf(o.now) \in Nat
    BY DayBounds
  <2>2. CalmCount(s, o) \in Nat
    BY <1>1 DEF CalmCount
  <2>3. started \in Nat
    BY <1>1 DEF Instants
  <2>4. calm \in Nat
    BY <1>1, <2>2
  <2>5. dayBase \in Nat
    BY <1>1
  <2>6. QED
    BY <2>1, <2>3, <2>4, <2>5
<1>4. Facts(s, o) = f
  <2>1. (s.wild \/ (~s.wild /\ o.ratio > 6)) = (s.wild \/ o.ratio > 6)
    BY <1>1
  <2>2. (CASE ~s.wild /\ o.ratio > 6 -> 0
           [] s.wild /\ s.lastAt # o.now -> CalmCount(s, o)
           [] OTHER -> s.calm) = calm
    BY <1>1
  <2>3. QED
    BY <2>1, <2>2 DEF Facts
<1> HIDE DEF peak, dayBase, calm, started
<1>5. (s.wild \/ o.ratio > 6) \in BOOLEAN /\ started # NoBar
  BY <1>3 DEF NoBar
<1>6. f \in RiskShape
  <2>1. o.now \in Instants /\ started \in Instants /\ DayOf(o.now) \in Instants
    BY <1>3 DEF Instants
  <2>2. QED
    BY <1>1, <1>2, <1>3, <1>5, <2>1 DEF RiskShape
<1>7. /\ f.peak = peak /\ f.date = DayOf(o.now) /\ f.dayBase = dayBase /\ f.history = Recent(s, o)
      /\ f.started = started /\ f.lastEquity = o.equity /\ f.lastAt = o.now /\ f.count = Len(o.trades)
      /\ f.losses = Losses(s, o) /\ f.wins = Wins(s, o) /\ f.wild = (s.wild \/ o.ratio > 6) /\ f.calm = calm
      /\ f.recovery = s.recovery /\ f.daily = s.daily /\ f.weekly = s.weekly /\ f.streak = s.streak
  BY DEF RiskShape
<1> HIDE DEF f
<1>8. QED
  BY <1>2, <1>4, <1>5, <1>6, <1>7 DEF dayBase, calm

\* What begins.
LEMMA TriggeredFields ==
    ASSUME NEW s \in RiskShape, NEW o \in ObservationShape, o.now \in Nat
    PROVE  LET f == Triggered(s, o)
           IN  /\ f \in RiskShape
               /\ f.recovery = Begun(s.recovery, LossAtLeast(o.equity, s.peak, HardDrawdown), o.now)
               /\ f.daily = Begun(s.daily, LossAtLeast(o.equity, s.dayBase, DailyLossLimit), o.now)
               /\ f.weekly = Begun(s.weekly, LossAtLeast(o.equity, WeekBase(s), WeeklyHaltLimit), o.now)
               /\ f.streak = Begun(s.streak, s.losses >= LossesHalt, o.now)
               /\ f.wins = (IF s.losses >= LossesHalt /\ s.streak = NoBar THEN 0 ELSE s.wins)
               /\ f.peak = s.peak /\ f.date = s.date /\ f.dayBase = s.dayBase /\ f.history = s.history
               /\ f.started = s.started /\ f.lastEquity = s.lastEquity /\ f.lastAt = s.lastAt /\ f.count = s.count
               /\ f.losses = s.losses /\ f.wild = s.wild /\ f.calm = s.calm /\ f.initial = s.initial
               /\ WeekBase(f) = WeekBase(s)
<1> DEFINE recovery == Begun(s.recovery, LossAtLeast(o.equity, s.peak, HardDrawdown), o.now)
           daily == Begun(s.daily, LossAtLeast(o.equity, s.dayBase, DailyLossLimit), o.now)
           weekly == Begun(s.weekly, LossAtLeast(o.equity, WeekBase(s), WeeklyHaltLimit), o.now)
           losing == Begun(s.streak, s.losses >= LossesHalt, o.now)
           wins == IF s.losses >= LossesHalt /\ s.streak = NoBar THEN 0 ELSE s.wins
           f == [s EXCEPT !.recovery = recovery, !.daily = daily, !.weekly = weekly, !.streak = losing, !.wins = wins]
<1>1. recovery \in Instants /\ daily \in Instants /\ weekly \in Instants /\ losing \in Instants /\ wins \in Nat
  BY DEF Begun, RiskShape, Instants
<1>2. Triggered(s, o) = f
  BY DEF Triggered, Begun
<1> HIDE DEF recovery, daily, weekly, losing, wins
<1>3. f \in RiskShape
  BY <1>1 DEF RiskShape
<1>4. /\ f.recovery = recovery /\ f.daily = daily /\ f.weekly = weekly /\ f.streak = losing /\ f.wins = wins
      /\ f.peak = s.peak /\ f.date = s.date /\ f.dayBase = s.dayBase /\ f.history = s.history
      /\ f.started = s.started /\ f.lastEquity = s.lastEquity /\ f.lastAt = s.lastAt /\ f.count = s.count
      /\ f.losses = s.losses /\ f.wild = s.wild /\ f.calm = s.calm /\ f.initial = s.initial
  BY DEF RiskShape
<1> HIDE DEF f
<1>5. WeekBase(f) = WeekBase(s)
  BY <1>4 DEF WeekBase
<1>6. QED
  BY <1>2, <1>3, <1>4, <1>5 DEF recovery, daily, weekly, losing, wins

\* What ends.
LEMMA ClearedFields ==
    ASSUME NEW s \in RiskShape, NEW o \in ObservationShape, o.now \in Nat
    PROVE  LET f == Cleared(s, o)
           IN  /\ f \in RiskShape
               /\ f.recovery = Left(s.recovery, RecoveryHalt, o.equity >= s.peak, o.now)
               /\ f.daily = Left(s.daily, DailyHalt, ~LossAtLeast(o.equity, s.dayBase, DailyLossLimit), o.now)
               /\ f.weekly = Left(s.weekly, WeeklyHalt, ~LossAtLeast(o.equity, WeekBase(s), WeeklyHaltLimit), o.now)
               /\ f.streak = (IF StreakOver(s, o) THEN NoBar ELSE s.streak)
               /\ f.wins = (IF StreakOver(s, o) THEN 0 ELSE s.wins)
               /\ f.wild = (s.wild /\ ~Calmed(s, o)) /\ f.calm = (IF Calmed(s, o) THEN 0 ELSE s.calm)
               /\ f.peak = s.peak /\ f.date = s.date /\ f.dayBase = s.dayBase /\ f.history = s.history
               /\ f.started = s.started /\ f.lastEquity = s.lastEquity /\ f.lastAt = s.lastAt /\ f.count = s.count
               /\ f.losses = s.losses /\ f.initial = s.initial
               /\ WeekBase(f) = WeekBase(s)
<1> DEFINE recovery == Left(s.recovery, RecoveryHalt, o.equity >= s.peak, o.now)
           daily == Left(s.daily, DailyHalt, ~LossAtLeast(o.equity, s.dayBase, DailyLossLimit), o.now)
           weekly == Left(s.weekly, WeeklyHalt, ~LossAtLeast(o.equity, WeekBase(s), WeeklyHaltLimit), o.now)
           losing == IF StreakOver(s, o) THEN NoBar ELSE s.streak
           wins == IF StreakOver(s, o) THEN 0 ELSE s.wins
           wild == s.wild /\ ~Calmed(s, o)
           calm == IF Calmed(s, o) THEN 0 ELSE s.calm
           f == [s EXCEPT !.recovery = recovery, !.daily = daily, !.weekly = weekly, !.streak = losing, !.wins = wins,
                          !.wild = wild, !.calm = calm]
<1>1. /\ recovery \in Instants /\ daily \in Instants /\ weekly \in Instants /\ losing \in Instants
      /\ wins \in Nat /\ wild \in BOOLEAN /\ calm \in Nat
  BY DEF Left, RiskShape, Instants
<1>2. Cleared(s, o) = f
  BY DEF Cleared, Left, Over, StreakOver, Calmed
<1> HIDE DEF recovery, daily, weekly, losing, wins, wild, calm
<1>3. f \in RiskShape
  BY <1>1 DEF RiskShape
<1>4. /\ f.recovery = recovery /\ f.daily = daily /\ f.weekly = weekly /\ f.streak = losing /\ f.wins = wins
      /\ f.wild = wild /\ f.calm = calm
      /\ f.peak = s.peak /\ f.date = s.date /\ f.dayBase = s.dayBase /\ f.history = s.history
      /\ f.started = s.started /\ f.lastEquity = s.lastEquity /\ f.lastAt = s.lastAt /\ f.count = s.count
      /\ f.losses = s.losses /\ f.initial = s.initial
  BY DEF RiskShape
<1> HIDE DEF f
<1>5. WeekBase(f) = WeekBase(s)
  BY <1>4 DEF WeekBase
<1>6. QED
  BY <1>2, <1>3, <1>4, <1>5 DEF recovery, daily, weekly, losing, wins, wild, calm

-----------------------------------------------------------------------------
\* evaluate_risk

\* The ladder a decision starts from.
Recovering(s, now) == s.recovery # NoBar /\ ~Running(s.recovery, RecoveryHalt, now)
Base(s, o) == IF Recovering(s, o.now) THEN RecoveryLadder(o.equity, s.peak) ELSE Ladder(o.equity, s.peak)
Slow(s, o) == IF Recovering(s, o.now) /\ o.equity < s.peak THEN {"recovery"} ELSE {}

\* A step of a ladder, and its half.
LEMMA BaseFits ==
    ASSUME NEW s, NEW o
    PROVE  \E r \in {4, 8, 16, 32}, c \in {60, 120, 200, 280} : Base(s, o) = [rate |-> r, cap |-> c]
<1>1. \E r \in {4, 8, 16, 32}, c \in {60, 120, 200, 280} : Ladder(o.equity, s.peak) = [rate |-> r, cap |-> c]
  BY DEF Ladder
<1>2. \E r \in {4, 8, 16, 32}, c \in {60, 120, 200, 280} : RecoveryLadder(o.equity, s.peak) = [rate |-> r, cap |-> c]
  BY DEF RecoveryLadder
<1>3. QED
  BY <1>1, <1>2 DEF Base

\* A decision in terms of the restrictions in force.
LEMMA DecisionIs ==
    ASSUME NEW s, NEW o
    PROVE  LET d == EvaluateRisk(s, o)
               halts == Halts(s, o.now, o.ratio)
               reductions == Reductions(s, o.now, o.ratio)
           IN  IF ~o.healthy THEN d = Unhealthy
               ELSE d = [rate |-> IF halts # {} THEN 0 ELSE Base(s, o).rate \div (IF reductions = {} THEN 1 ELSE 2),
                         cap |-> IF halts # {} THEN 0 ELSE Base(s, o).cap \div (IF reductions = {} THEN 1 ELSE 2),
                         until |-> HaltedUntil(s, o.now, halts), reasons |-> halts \cup reductions \cup Slow(s, o)]
BY DEF EvaluateRisk, Base, Slow, Recovering

\* When a blocked decision ends.
LEMMA UntilFits ==
    ASSUME NEW s \in RiskShape, NEW o \in ObservationShape, o.now \in Nat
    PROVE  LET halts == Halts(s, o.now, o.ratio)
               until == HaltedUntil(s, o.now, halts)
           IN  /\ until \in Instants
               /\ halts # {} /\ "volatility_halt" \notin halts => until > o.now
<1> DEFINE halts == Halts(s, o.now, o.ratio)
           end(start, length) == IF Running(start, length, o.now) THEN start + length ELSE 0
           a == end(s.recovery, RecoveryHalt)
           b == end(s.daily, DailyHalt)
           c == end(s.weekly, WeeklyHalt)
           d == end(s.streak, StreakHalt)
           m == Max({a, b, c, d})
<1>1. ASSUME NEW start \in Instants, NEW length \in Nat
      PROVE  end(start, length) \in Nat /\ (Running(start, length, o.now) => end(start, length) > o.now)
  BY <1>1 DEF Running, Instants, NoBar
<1>2. /\ s.recovery \in Instants /\ s.daily \in Instants /\ s.weekly \in Instants /\ s.streak \in Instants
      /\ RecoveryHalt \in Nat /\ DailyHalt \in Nat /\ WeeklyHalt \in Nat /\ StreakHalt \in Nat
  BY RiskConstants DEF RiskShape
<1>3. a \in Nat /\ b \in Nat /\ c \in Nat /\ d \in Nat
  BY <1>1, <1>2
<1>4. HaltedUntil(s, o.now, halts) = (IF halts = {} \/ "volatility_halt" \in halts THEN NoBar ELSE m)
  BY DEF HaltedUntil
<1>5. halts # {} /\ "volatility_halt" \notin halts => a > o.now \/ b > o.now \/ c > o.now \/ d > o.now
  <2>1. /\ "drawdown_halt" \in halts => Running(s.recovery, RecoveryHalt, o.now)
        /\ "daily_loss_halt" \in halts => Running(s.daily, DailyHalt, o.now)
        /\ "weekly_loss_halt" \in halts => Running(s.weekly, WeeklyHalt, o.now)
        /\ "loss_streak_halt" \in halts => Running(s.streak, StreakHalt, o.now)
    BY DEF Halts, DrawdownHalts
  <2>2. halts \subseteq {"drawdown_halt", "daily_loss_halt", "weekly_loss_halt", "loss_streak_halt", "volatility_halt"}
    BY DEF Halts
  <2> HIDE DEF halts
  <2>3. /\ "drawdown_halt" \in halts => a > o.now
        /\ "daily_loss_halt" \in halts => b > o.now
        /\ "weekly_loss_halt" \in halts => c > o.now
        /\ "loss_streak_halt" \in halts => d > o.now
    BY <1>1, <1>2, <2>1
  <2> HIDE DEF a, b, c, d
  <2>4. QED
    BY <2>2, <2>3
<1> HIDE DEF a, b, c, d
<1>6. m \in Nat /\ m >= a /\ m >= b /\ m >= c /\ m >= d
  <2>1. a \in Int /\ b \in Int /\ c \in Int /\ d \in Int
    BY <1>3
  <2>2. m \in {a, b, c, d} /\ m >= a /\ m >= b /\ m >= c /\ m >= d
    BY <2>1, LargestOfFour, Zenon
  <2> HIDE DEF m
  <2>3. QED
    BY <1>3, <2>2
<1> HIDE DEF m, halts
<1>7. HaltedUntil(s, o.now, halts) \in Instants
  BY <1>4, <1>6 DEF Instants
<1>8. halts # {} /\ "volatility_halt" \notin halts => HaltedUntil(s, o.now, halts) > o.now
  BY <1>3, <1>4, <1>5, <1>6
<1>9. QED
  BY <1>7, <1>8 DEF halts

\* A decision blocks if and only if something halts, and reductions halve it.
LEMMA DecisionFacts ==
    ASSUME NEW s \in RiskShape, NEW o \in ObservationShape, o.now \in Nat
    PROVE  LET d == EvaluateRisk(s, o)
               halts == Halts(s, o.now, o.ratio)
           IN  /\ d \in Decisions
               /\ d.rate = 0 <=> ~o.healthy \/ halts # {}
               /\ d.rate = 0 => \/ "system_unhealthy" \in d.reasons \/ "volatility_halt" \in d.reasons
                                \/ d.until > o.now
               /\ "drawdown_halt" \in halts => ForcedExit(d)
               /\ Reductions(s, o.now, o.ratio) # {} => d.rate <= 16
<1> DEFINE d == EvaluateRisk(s, o)
           halts == Halts(s, o.now, o.ratio)
           reductions == Reductions(s, o.now, o.ratio)
           part == IF reductions = {} THEN 1 ELSE 2
           until == HaltedUntil(s, o.now, halts)
           rate == IF halts # {} THEN 0 ELSE Base(s, o).rate \div part
           cap == IF halts # {} THEN 0 ELSE Base(s, o).cap \div part
           reasons == halts \cup reductions \cup Slow(s, o)
           Named == {"drawdown_halt", "daily_loss_halt", "weekly_loss_halt", "loss_streak_halt", "volatility_halt",
                       "daily_loss_reduced", "weekly_loss_reduced", "loss_streak_reduced", "volatility_reduced",
                       "recovery", "system_unhealthy"}
<1>1. halts \subseteq Named /\ reductions \subseteq Named /\ Slow(s, o) \subseteq Named
  BY DEF Halts, Reductions, Slow
<1>2. until \in Instants /\ (halts # {} /\ "volatility_halt" \notin halts => until > o.now)
  BY UntilFits
<1>3. IF ~o.healthy THEN d = Unhealthy ELSE d = [rate |-> rate, cap |-> cap, until |-> until, reasons |-> reasons]
  BY DecisionIs
<1>4. PICK r \in {4, 8, 16, 32}, c \in {60, 120, 200, 280} : Base(s, o) = [rate |-> r, cap |-> c]
  BY BaseFits
<1> HIDE DEF halts, reductions, until
<1>5. /\ rate \in 0..32 /\ cap \in 0..280 /\ (rate = 0 <=> halts # {})
      /\ (reductions # {} => rate <= 16)
  <2>1. Base(s, o).rate = r /\ Base(s, o).cap = c
    BY <1>4
  <2>2. r \div 1 = r /\ c \div 1 = c /\ r \div 2 \in {2, 4, 8, 16} /\ c \div 2 \in {30, 60, 100, 140}
    OBVIOUS
  <2>3. QED
    BY <2>1, <2>2
<1> HIDE DEF rate, cap
<1>6. reasons \in SUBSET Named
  BY <1>1
<1>7. d \in Decisions
  <2>1. Decisions = [rate : 0..32, cap : 0..280, until : Nat \cup {NoBar}, reasons : SUBSET Named]
    BY DEF Decisions
  <2>2. Unhealthy \in [rate : 0..32, cap : 0..280, until : Nat \cup {NoBar}, reasons : SUBSET Named]
    BY DEF Unhealthy
  <2> HIDE DEF d, reasons, Named
  <2>3. QED
    BY <1>2, <1>3, <1>5, <1>6, <2>1, <2>2 DEF Instants
<1> HIDE DEF d
<1>8. CASE ~o.healthy
  <2>1. d.rate = 0 /\ d.reasons = {"system_unhealthy"}
    BY <1>3, <1>8 DEF Unhealthy
  <2>2. ForcedExit(d)
    BY <2>1 DEF ForcedExit
  <2>3. QED
    BY <1>7, <1>8, <2>1, <2>2 DEF d, halts, reductions
<1>9. CASE o.healthy
  <2>1. d.rate = rate /\ d.until = until /\ d.reasons = reasons
    BY <1>3, <1>9
  <2>2. "drawdown_halt" \in halts => ForcedExit(d)
    BY <2>1 DEF ForcedExit
  <2>3. d.rate = 0 => "volatility_halt" \in d.reasons \/ d.until > o.now
    BY <1>2, <1>5, <2>1
  <2>4. QED
    BY <1>5, <1>7, <1>9, <2>1, <2>2, <2>3 DEF d, halts, reductions
<1>10. QED
  BY <1>8, <1>9 DEF ObservationShape

-----------------------------------------------------------------------------
\* Evaluating a bar again

\* A bar that was evaluated adds nothing.
LEMMA FactsStay ==
    ASSUME NEW s \in RiskShape, NEW o \in ObservationShape, o.now \in Nat, s.lastAt = o.now, s.lastEquity = o.equity,
           s.lastEquity <= s.peak, s.date = DayOf(o.now), s.started # NoBar, s.count = Len(o.trades),
           s.history # <<>>, s.history[1].at >= o.now - Week,
           s.wild \/ o.ratio <= 6
    PROVE  Facts(s, o) = s
<1>1. s.peak \in Nat /\ s.lastEquity \in Levels \cup {Initial} /\ s.history \in Seq(EquityShape) /\ s.wild \in BOOLEAN
  BY DEF RiskShape
<1>2. o.equity \in Nat /\ o.ratio \in Nat
  <2>1. \A x \in Levels \cup {Initial} : x \in Nat
    BY RiskConstants
  <2>2. QED
    BY <2>1 DEF ObservationShape
<1>3. Losses(s, o) = s.losses /\ Wins(s, o) = s.wins
  BY NoNewTrade
<1>4. Recent(s, o) = s.history
  BY <1>1, LastWeekAgain DEF Recent
<1>5. Max({s.peak, o.equity}) = s.peak
  <2>1. s.peak \in Int /\ o.equity \in Int /\ o.equity <= s.peak
    BY <1>1, <1>2
  <2> DEFINE m == Max({s.peak, o.equity})
  <2>2. m \in {s.peak, o.equity} /\ m >= s.peak /\ m >= o.equity
    BY <2>1, LargerOfTwo
  <2> HIDE DEF m
  <2>3. m = s.peak
    BY <2>1, <2>2
  <2>4. QED
    BY <2>3 DEF m
<1>6. Facts(s, o) = [s EXCEPT !.peak = s.peak, !.date = s.date, !.dayBase = s.dayBase, !.history = s.history,
                              !.started = s.started, !.lastEquity = s.lastEquity, !.lastAt = s.lastAt, !.count = s.count,
                              !.losses = s.losses, !.wins = s.wins, !.wild = s.wild, !.calm = s.calm]
  <2>1. (s.wild \/ (~s.wild /\ o.ratio > 6)) = s.wild
    BY <1>1, <1>2
  <2>2. (CASE ~s.wild /\ o.ratio > 6 -> 0
           [] s.wild /\ s.lastAt # o.now -> CalmCount(s, o)
           [] OTHER -> s.calm) = s.calm
    BY <1>1, <1>2
  <2>3. QED
    BY <1>3, <1>4, <1>5, <2>1, <2>2 DEF Facts
<1>7. QED
  BY <1>6 DEF RiskShape

\* If nothing begins, nothing changes.
LEMMA TriggeredStays ==
    ASSUME NEW s \in RiskShape, NEW o, NothingBegins(s, o)
    PROVE  Triggered(s, o) = s
<1>1. Triggered(s, o) = [s EXCEPT !.recovery = s.recovery, !.daily = s.daily, !.weekly = s.weekly,
                                  !.streak = s.streak, !.wins = s.wins]
  BY DEF Triggered, NothingBegins
<1>2. QED
  BY <1>1 DEF RiskShape

\* If nothing ends, nothing changes.
LEMMA ClearedStays ==
    ASSUME NEW s \in RiskShape, NEW o, NothingEnds(s, o)
    PROVE  Cleared(s, o) = s
<1>1. s.wild \in BOOLEAN
  BY DEF RiskShape
<1>2. Cleared(s, o) = [s EXCEPT !.recovery = s.recovery, !.daily = s.daily, !.weekly = s.weekly,
                                !.streak = s.streak, !.wins = s.wins, !.wild = s.wild, !.calm = s.calm]
  BY <1>1 DEF Cleared, NothingEnds, StreakOver, Over, Calmed
<1>3. QED
  BY <1>2 DEF RiskShape

\* The decision does not depend on whether what has ended is forgotten.
LEMMA ClearedDecides ==
    ASSUME NEW s \in RiskShape, NEW o \in ObservationShape, o.now \in Nat, s.lastEquity = o.equity,
           StreakOver(s, o) => s.losses < LossesReduce
    PROVE  EvaluateRisk(Cleared(s, o), o) = EvaluateRisk(s, o)
<1> DEFINE f == Cleared(s, o)
<1>1. /\ f.recovery = Left(s.recovery, RecoveryHalt, o.equity >= s.peak, o.now)
      /\ f.daily = Left(s.daily, DailyHalt, ~LossAtLeast(o.equity, s.dayBase, DailyLossLimit), o.now)
      /\ f.weekly = Left(s.weekly, WeeklyHalt, ~LossAtLeast(o.equity, WeekBase(s), WeeklyHaltLimit), o.now)
      /\ f.streak = (IF StreakOver(s, o) THEN NoBar ELSE s.streak)
      /\ f.wins = (IF StreakOver(s, o) THEN 0 ELSE s.wins)
      /\ f.wild = (s.wild /\ ~Calmed(s, o)) /\ f.calm = (IF Calmed(s, o) THEN 0 ELSE s.calm)
      /\ f.peak = s.peak /\ f.dayBase = s.dayBase /\ f.lastEquity = s.lastEquity /\ f.losses = s.losses
      /\ WeekBase(f) = WeekBase(s)
  BY ClearedFields
<1> HIDE DEF f
<1>2. /\ s.recovery \in Instants /\ s.daily \in Instants /\ s.weekly \in Instants /\ s.streak \in Instants
      /\ RecoveryHalt \in Nat /\ DailyHalt \in Nat /\ WeeklyHalt \in Nat /\ StreakHalt \in Nat
      /\ s.peak \in Nat /\ s.wild \in BOOLEAN /\ s.losses \in Nat /\ LossesReduce \in Nat \ {0}
  BY RiskConstants DEF RiskShape
<1>3. o.equity \in Nat /\ o.ratio \in Nat
  <2>1. \A x \in Levels \cup {Initial} : x \in Nat
    BY RiskConstants
  <2>2. QED
    BY <2>1 DEF ObservationShape
<1>4. /\ Running(f.recovery, RecoveryHalt, o.now) = Running(s.recovery, RecoveryHalt, o.now)
      /\ Running(f.daily, DailyHalt, o.now) = Running(s.daily, DailyHalt, o.now)
      /\ Running(f.weekly, WeeklyHalt, o.now) = Running(s.weekly, WeeklyHalt, o.now)
      /\ Running(f.streak, StreakHalt, o.now) = Running(s.streak, StreakHalt, o.now)
  <2>1. ASSUME NEW start \in Instants, NEW length \in Nat, NEW calm
        PROVE  Running(Left(start, length, calm, o.now), length, o.now) = Running(start, length, o.now)
    BY DEF Running, Left, Over, Instants, NoBar
  <2>2. Running(f.streak, StreakHalt, o.now) = Running(s.streak, StreakHalt, o.now)
    <3>1. f.streak = Left(s.streak, StreakHalt, s.wins >= WinsClear, o.now)
      BY <1>1 DEF Left, StreakOver
    <3>2. QED
      BY <1>2, <2>1, <3>1
  <2>3. QED
    BY <1>1, <1>2, <2>1, <2>2
<1>5. /\ (f.wild /\ ~(o.ratio <= 3 /\ f.calm >= CalmBars)) = (s.wild /\ ~(o.ratio <= 3 /\ s.calm >= CalmBars))
      /\ (~f.wild /\ o.ratio > 4) = (~s.wild /\ o.ratio > 4)
  <2>1. CASE Calmed(s, o)
    <3>1. ~f.wild /\ o.ratio <= 3 /\ s.calm >= CalmBars
      BY <1>1, <2>1 DEF Calmed
    <3>2. ~(o.ratio > 4)
      BY <1>3, <3>1
    <3>3. QED
      BY <3>1, <3>2, Zenon
  <2>2. CASE ~Calmed(s, o)
    <3>1. f.wild = s.wild /\ f.calm = s.calm
      BY <1>1, <1>2, <2>2, Zenon
    <3>2. QED
      BY <3>1, Zenon
  <2>3. QED
    BY <2>1, <2>2
<1>6. Halts(f, o.now, o.ratio) = Halts(s, o.now, o.ratio)
  BY <1>4, <1>5 DEF Halts, DrawdownHalts
<1>7. StreakReduces(f, o.now) = StreakReduces(s, o.now)
  <2>1. CASE StreakOver(s, o)
    <3>1. s.streak # NoBar /\ ~(s.wins < WinsClear)
      <4>1. s.wins \in Nat /\ WinsClear \in Nat
        BY RiskConstants DEF RiskShape
      <4>2. QED
        BY <2>1, <4>1 DEF StreakOver, Over
    <3>2. f.streak = NoBar /\ ~(f.losses >= LossesReduce)
      BY <1>1, <1>2, <2>1
    <3>3. QED
      BY <3>1, <3>2 DEF StreakReduces
  <2>2. CASE ~StreakOver(s, o)
    BY <1>1, <2>2 DEF StreakReduces
  <2>3. QED
    BY <2>1, <2>2
<1>8. Reductions(f, o.now, o.ratio) = Reductions(s, o.now, o.ratio)
  BY <1>1, <1>4, <1>5, <1>7 DEF Reductions
<1>9. HaltedUntil(f, o.now, Halts(f, o.now, o.ratio)) = HaltedUntil(s, o.now, Halts(s, o.now, o.ratio))
  <2>1. ASSUME NEW start \in Instants, NEW length \in Nat, NEW calm
        PROVE  Running(start, length, o.now) => Left(start, length, calm, o.now) = start
    BY DEF Running, Left, Over, Instants, NoBar
  <2>2. /\ Running(s.recovery, RecoveryHalt, o.now) => f.recovery = s.recovery
        /\ Running(s.daily, DailyHalt, o.now) => f.daily = s.daily
        /\ Running(s.weekly, WeeklyHalt, o.now) => f.weekly = s.weekly
        /\ Running(s.streak, StreakHalt, o.now) => f.streak = s.streak
    <3>1. f.streak = Left(s.streak, StreakHalt, s.wins >= WinsClear, o.now)
      BY <1>1 DEF Left, StreakOver
    <3>2. QED
      BY <1>1, <1>2, <2>1, <3>1
  <2>3. QED
    BY <1>4, <1>6, <2>2 DEF HaltedUntil
<1>10. Base(f, o) = Base(s, o) /\ Slow(f, o) = Slow(s, o)
  <2>1. CASE f.recovery = s.recovery
    BY <1>1, <2>1 DEF Base, Slow, Recovering
  <2>2. CASE f.recovery # s.recovery
    <3>1. f.recovery = NoBar /\ Recovering(s, o.now) /\ o.equity >= s.peak
      BY <1>1, <1>2, <2>2 DEF Left, Over, Recovering, Running, Instants, NoBar
    <3>2. ~LossAtLeast(o.equity, s.peak, 5) /\ ~LossAtLeast(o.equity, s.peak, 10) /\ ~(o.equity < s.peak)
      BY <1>2, <1>3, <3>1, NoLossAtPeak
    <3>3. RecoveryLadder(o.equity, s.peak) = [rate |-> 32, cap |-> 280] /\ Ladder(o.equity, s.peak) = [rate |-> 32, cap |-> 280]
      BY <3>2 DEF RecoveryLadder, Ladder
    <3>4. Base(f, o) = [rate |-> 32, cap |-> 280] /\ Base(s, o) = [rate |-> 32, cap |-> 280]
      BY <1>1, <3>3 DEF Base
    <3>5. Slow(f, o) = {} /\ Slow(s, o) = {}
      BY <1>1, <3>2 DEF Slow
    <3>6. QED
      BY <3>4, <3>5
  <2>3. QED
    BY <2>1, <2>2
<1>11. QED
  BY <1>6, <1>8, <1>9, <1>10, DecisionIs DEF f

\* A decision does not depend on the one before it.
LEMMA DecisionFree ==
    ASSUME NEW s \in RiskShape, NEW o, NEW d
    PROVE  EvaluateRisk([s EXCEPT !.decision = d], o) = EvaluateRisk(s, o)
<1> DEFINE f == [s EXCEPT !.decision = d]
<1>1. /\ f.recovery = s.recovery /\ f.daily = s.daily /\ f.weekly = s.weekly /\ f.streak = s.streak
      /\ f.wins = s.wins /\ f.losses = s.losses /\ f.wild = s.wild /\ f.calm = s.calm /\ f.peak = s.peak
      /\ f.dayBase = s.dayBase /\ f.lastEquity = s.lastEquity /\ f.lastAt = s.lastAt /\ f.started = s.started
      /\ f.initial = s.initial /\ f.history = s.history
  BY DEF RiskShape
<1> HIDE DEF f
<1>2. Halts(f, o.now, o.ratio) = Halts(s, o.now, o.ratio)
  BY <1>1 DEF Halts, DrawdownHalts
<1>3. Reductions(f, o.now, o.ratio) = Reductions(s, o.now, o.ratio)
  BY <1>1 DEF Reductions, StreakReduces, WeekBase
<1>4. HaltedUntil(f, o.now, Halts(f, o.now, o.ratio)) = HaltedUntil(s, o.now, Halts(s, o.now, o.ratio))
  BY <1>1, <1>2 DEF HaltedUntil
<1>5. Base(f, o) = Base(s, o) /\ Slow(f, o) = Slow(s, o)
  BY <1>1 DEF Base, Slow, Recovering
<1>6. QED
  BY <1>2, <1>3, <1>4, <1>5, DecisionIs DEF f

\* A bar that was decided, evaluated with other health: only the decision is new.
LEMMA AdvanceStays ==
    ASSUME RiskShaped, Settled, Volatile, risk.lastAt # NoBar,
           NEW healthy \in BOOLEAN
    PROVE  LET o == [last EXCEPT !.healthy = healthy]
           IN  AdvanceRiskState(risk, o) = [risk EXCEPT !.decision = EvaluateRisk(risk, o)]
<1> DEFINE o == [last EXCEPT !.healthy = healthy]
<1>1. risk \in RiskShape /\ last \in ObservationShape
  BY DEF RiskShaped
<1>2. /\ o \in ObservationShape /\ o.now = last.now /\ o.equity = last.equity /\ o.trades = last.trades
      /\ o.ratio = last.ratio /\ o.barValid = last.barValid
  BY <1>1 DEF ObservationShape
<1> HIDE DEF o
<1>3. o.now \in Nat /\ risk.lastAt = o.now
  BY <1>1, <1>2 DEF RiskShaped, RiskShape, Instants
<1>4. Facts(risk, o) = risk
  BY <1>1, <1>2, <1>3, FactsStay DEF RiskShaped, Volatile
<1>5. NothingBegins(risk, o) /\ NothingEnds(risk, o)
  BY <1>2 DEF Settled, NothingBegins, NothingEnds, StreakOver, Calmed
<1>6. Triggered(risk, o) = risk /\ Cleared(risk, o) = risk
  BY <1>1, <1>5, TriggeredStays, ClearedStays
<1>7. QED
  BY <1>4, <1>6 DEF AdvanceRiskState, o

-----------------------------------------------------------------------------
\* A bar

\* What a bar with observation o and result pnl is: it sold the position or not.
Sold(o) == Len(o.trades) = Len(trades) + 1
Marked(o, pnl) ==
    /\ o \in ObservationShape /\ o.now \in Nat /\ o.now = risk.lastAt + 1 /\ o.now # risk.lastAt
    /\ pnl \in Int
    /\ IF Sold(o) THEN /\ position # NoEntry
                       /\ o.trades[Len(trades) + 1] = [pnl |-> pnl, exit |-> o.now]
       ELSE o.trades = trades /\ pnl = 0
    /\ position = NoEntry => o.equity = risk.lastEquity
    /\ position # NoEntry /\ ForcedExit(risk.decision) => Sold(o)
BarIs(o, pnl) ==
    /\ Marked(o, pnl)
    /\ risk' = AdvanceRiskState(risk, o) /\ last' = o /\ trades' = o.trades
    /\ event' = Witness(event, o, risk', pnl)
    /\ position' \in {NoEntry} \cup Levels \cup {Initial}
    /\ position' # NoEntry => (position # NoEntry /\ ~Sold(o)) \/ risk'.decision.rate # 0

\* The health overlay turns no blocked decision into one that lets enter.
LEMMA HealthOnlyLowers ==
    ASSUME NEW decision, NEW healthy \in BOOLEAN,
           ApplyHealthRecovery(decision, healthy, TRUE).rate > 0
    PROVE  decision.rate # 0
<1> DEFINE rate == ApplyHealthRecovery(decision, healthy, TRUE).rate
<1>1. CASE ~healthy
  <2>1. rate = 0
    BY <1>1 DEF ApplyHealthRecovery, Unhealthy
  <2> HIDE DEF rate
  <2>2. ~(rate > 0)
    BY <2>1
  <2>3. QED
    BY <2>2 DEF rate
<1>2. CASE healthy /\ decision.rate = 0
  <2>1. ApplyHealthRecovery(decision, healthy, TRUE) = decision
    BY <1>2 DEF ApplyHealthRecovery
  <2>2. rate = 0
    BY <1>2, <2>1
  <2> HIDE DEF rate
  <2>3. ~(rate > 0)
    BY <2>2
  <2>4. QED
    BY <2>3 DEF rate
<1>3. QED
  BY <1>1, <1>2

\* Every bar is one.
LEMMA BarHasForm ==
    ASSUME RiskShaped, Bar
    PROVE  \E o, pnl : BarIs(o, pnl)
<1>1. PICK equity \in IF position = NoEntry THEN {risk.lastEquity} ELSE Levels,
           ratio \in Ratios, barValid \in BOOLEAN, healthy \in BOOLEAN, close \in BOOLEAN, enter \in BOOLEAN :
        LET pnl == IF close THEN equity - position ELSE 0
            sold == IF close THEN Append(trades, [pnl |-> pnl, exit |-> risk.lastAt + 1]) ELSE trades
            o == [now |-> risk.lastAt + 1, equity |-> equity, trades |-> sold,
                  ratio |-> ratio, barValid |-> barValid, healthy |-> healthy]
            next == AdvanceRiskState(risk, o)
        IN  /\ close => position # NoEntry
            /\ position # NoEntry /\ ForcedExit(risk.decision) => close
            /\ Valid(risk, o)
            /\ risk' = next /\ last' = o /\ trades' = sold
            /\ position' = IF position # NoEntry /\ ~close THEN position
                           ELSE IF enter /\ ApplyHealthRecovery(next.decision, healthy, TRUE).rate > 0 THEN equity
                           ELSE NoEntry
            /\ event' = Witness(event, o, next, pnl)
  BY DEF Bar
<1> DEFINE now == risk.lastAt + 1
           pnl == IF close THEN equity - position ELSE 0
           x == [pnl |-> pnl, exit |-> now]
           sold == IF close THEN Append(trades, x) ELSE trades
           o == [now |-> now, equity |-> equity, trades |-> sold,
                 ratio |-> ratio, barValid |-> barValid, healthy |-> healthy]
           next == AdvanceRiskState(risk, o)
<1>2. /\ close => position # NoEntry
      /\ position # NoEntry /\ ForcedExit(risk.decision) => close
      /\ risk' = next /\ last' = o /\ trades' = sold
      /\ position' = IF position # NoEntry /\ ~close THEN position
                     ELSE IF enter /\ ApplyHealthRecovery(next.decision, healthy, TRUE).rate > 0 THEN equity
                     ELSE NoEntry
      /\ event' = Witness(event, o, next, pnl)
  BY <1>1
<1>3. /\ risk \in RiskShape /\ trades \in Seq(TradeShape) /\ position \in {NoEntry} \cup Levels \cup {Initial}
      /\ risk.lastAt \in Instants /\ risk.lastEquity \in Levels \cup {Initial}
  BY DEF RiskShaped, RiskShape
<1>4. now \in Nat /\ now # risk.lastAt
  BY <1>3 DEF Instants, NoBar
<1>5. equity \in Levels \cup {Initial} /\ equity \in Int /\ position \in Int /\ ratio \in Nat
  <2>1. equity \in Levels \cup {Initial}
    BY <1>3
  <2>2. \A y \in Levels \cup {Initial} : y \in Int
    BY RiskConstants
  <2>3. ratio \in Nat
    BY RiskConstants
  <2>4. QED
    BY <1>3, <2>1, <2>2, <2>3 DEF NoEntry
<1> HIDE DEF now, next
<1>6. pnl \in Int /\ x \in TradeShape
  BY <1>4, <1>5 DEF TradeShape
<1> HIDE DEF pnl
<1>7. /\ sold \in Seq(TradeShape)
      /\ close => Len(sold) = Len(trades) + 1 /\ sold[Len(trades) + 1] = x
      /\ ~close => sold = trades
  <2>1. /\ Append(trades, x) \in Seq(TradeShape) /\ Len(Append(trades, x)) = Len(trades) + 1
        /\ Append(trades, x)[Len(trades) + 1] = x
    BY <1>3, <1>6, AppendProperties
  <2> HIDE DEF x
  <2>2. QED
    BY <1>3, <2>1
<1> HIDE DEF sold
<1>8. Len(trades) \in Nat
  BY <1>3, LenProperties
<1>9. /\ o.now = now /\ o.equity = equity /\ o.trades = sold /\ o.ratio = ratio
      /\ o.barValid = barValid /\ o.healthy = healthy
  OBVIOUS
<1>10. o \in ObservationShape
  <2>1. now \in Instants
    BY <1>4 DEF Instants
  <2>2. QED
    BY <1>5, <1>7, <2>1 DEF ObservationShape
<1> HIDE DEF o
<1>11. Sold(o) <=> close
  BY <1>7, <1>8, <1>9 DEF Sold
<1>12. Marked(o, pnl)
  <2>1. ~close => pnl = 0
    BY DEF pnl
  <2>2. position = NoEntry => equity = risk.lastEquity
    OBVIOUS
  <2>3. now = risk.lastAt + 1
    BY DEF now
  <2>4. IF Sold(o) THEN position # NoEntry /\ o.trades[Len(trades) + 1] = [pnl |-> pnl, exit |-> o.now]
        ELSE o.trades = trades /\ pnl = 0
    BY <1>2, <1>7, <1>9, <1>11, <2>1
  <2>5. position # NoEntry /\ ForcedExit(risk.decision) => Sold(o)
    BY <1>2, <1>11
  <2>6. QED
    BY <1>4, <1>6, <1>9, <1>10, <2>2, <2>3, <2>4, <2>5 DEF Marked
<1>13. BarIs(o, pnl)
  <2>1. position' \in {NoEntry} \cup Levels \cup {Initial}
    BY <1>2, <1>3, <1>5
  <2>2. ApplyHealthRecovery(next.decision, healthy, TRUE).rate > 0 => next.decision.rate # 0
    BY HealthOnlyLowers
  <2>3. position' # NoEntry => (position # NoEntry /\ ~Sold(o)) \/ risk'.decision.rate # 0
    BY <1>2, <1>11, <2>2
  <2>4. QED
    BY <1>2, <1>9, <1>12, <2>1, <2>3 DEF BarIs, next
<1>14. QED
  BY <1>13

\* What a bar does to the count of losses, to a streak restriction and to a volatility halt.
LossesAfter(o, pnl) == IF Sold(o) THEN IF pnl < 0 THEN risk.losses + 1 ELSE 0 ELSE risk.losses
Strikes(o, pnl) == LossesAfter(o, pnl) >= LossesHalt /\ risk.streak = NoBar
WinsAfter(o, pnl) ==
    IF Strikes(o, pnl) THEN 0
    ELSE IF Sold(o) /\ pnl > 0 /\ risk.streak # NoBar THEN risk.wins + 1 ELSE risk.wins
StreakAfter(o, pnl) == Begun(risk.streak, LossesAfter(o, pnl) >= LossesHalt, o.now)
StreakEnds(o, pnl) == Over(StreakAfter(o, pnl), StreakHalt, WinsAfter(o, pnl) >= WinsClear, o.now)
CalmAfter(o) ==
    IF ~risk.wild /\ o.ratio > 6 THEN 0 ELSE IF risk.wild THEN CalmCount(risk, o) ELSE risk.calm
CalmEnds(o) == (risk.wild \/ o.ratio > 6) /\ o.barValid /\ o.ratio <= 3 /\ CalmAfter(o) >= CalmBars

\* The trades of a bar are counted.
LEMMA BarCounts ==
    ASSUME RiskShaped, Streak, NEW o, NEW pnl, Marked(o, pnl)
    PROVE  /\ Losses(risk, o) = LossesAfter(o, pnl) /\ Losses(risk, o) \in Nat
           /\ Wins(risk, o) = (IF Sold(o) /\ pnl > 0 /\ risk.streak # NoBar THEN risk.wins + 1 ELSE risk.wins)
           /\ Wins(risk, o) \in Nat
<1>1. /\ risk \in RiskShape /\ o \in ObservationShape /\ risk.count = Len(trades) /\ risk.losses \in Nat
      /\ risk.wins \in Nat /\ risk.lastAt \in Instants /\ risk.streak \in Instants /\ pnl \in Int /\ o.now \in Nat
      /\ o.now = risk.lastAt + 1
  BY DEF RiskShaped, RiskShape, Marked
<1>2. Len(trades) \in Nat
  BY LenProperties DEF RiskShaped
<1>3. CASE Sold(o)
  <2> DEFINE x == [pnl |-> pnl, exit |-> o.now]
  <2>1. x \in TradeShape /\ x = o.trades[risk.count + 1] /\ Len(o.trades) = risk.count + 1
    BY <1>1, <1>3 DEF Marked, Sold, TradeShape
  <2>2. x.pnl = pnl /\ x.exit = o.now
    OBVIOUS
  <2> HIDE DEF x
  <2>3. /\ Losses(risk, o) = (IF x.pnl < 0 THEN risk.losses + 1 ELSE 0)
        /\ Wins(risk, o) = (IF risk.streak # NoBar /\ x.pnl > 0 /\ x.exit > risk.streak THEN risk.wins + 1 ELSE risk.wins)
    BY <1>1, <2>1, OneNewTrade
  <2>4. risk.streak # NoBar => o.now > risk.streak
    BY <1>1 DEF Streak, Instants, NoBar
  <2>5. QED
    BY <1>1, <1>3, <2>2, <2>3, <2>4 DEF LossesAfter
<1>4. CASE ~Sold(o)
  <2>1. risk.count = Len(o.trades)
    BY <1>1, <1>4 DEF Marked
  <2>2. Losses(risk, o) = risk.losses /\ Wins(risk, o) = risk.wins
    BY <1>1, <2>1, NoNewTrade
  <2>3. QED
    BY <1>1, <1>4, <2>2 DEF LossesAfter
<1>5. QED
  BY <1>3, <1>4

\* A streak restriction ends with a trade that won.
LEMMA StreakEndsWell ==
    ASSUME RiskShaped, Streak, NEW o, NEW pnl, Marked(o, pnl), StreakEnds(o, pnl)
    PROVE  /\ LossesAfter(o, pnl) = 0 /\ Sold(o) /\ pnl > 0 /\ risk.streak # NoBar
           /\ WinsAfter(o, pnl) = risk.wins + 1
<1>1. /\ risk.losses \in Nat /\ risk.wins \in Nat /\ risk.lastAt \in Instants /\ risk.streak \in Instants /\ pnl \in Int
      /\ o.now \in Nat /\ WinsClear \in Nat \ {0} /\ LossesHalt \in Nat \ {0} /\ StreakHalt \in Nat
  BY RiskConstants DEF RiskShaped, RiskShape, Marked
<1>2. ~Strikes(o, pnl)
  BY <1>1 DEF StreakEnds, Over, WinsAfter
<1>3. risk.streak # NoBar
  BY <1>2 DEF StreakEnds, Over, StreakAfter, Begun, Strikes
<1>4. risk.wins < WinsClear
  BY <1>3 DEF Streak
<1>5. Sold(o) /\ pnl > 0
  BY <1>1, <1>2, <1>4 DEF StreakEnds, Over, WinsAfter
<1>6. QED
  BY <1>1, <1>2, <1>3, <1>5 DEF LossesAfter, WinsAfter

\* The history of a bar holds that bar.
LEMMA BarRecent ==
    ASSUME RiskShaped, NEW o, NEW pnl, Marked(o, pnl)
    PROVE  /\ Recent(risk, o) \in Seq(EquityShape) /\ Recent(risk, o) # <<>>
           /\ Recent(risk, o)[1].at >= o.now - Week
<1> DEFINE x == [at |-> o.now, equity |-> o.equity]
           h == Append(risk.history, x)
<1>1. risk.history \in Seq(EquityShape) /\ o.now \in Nat /\ o.now # risk.lastAt
  BY DEF RiskShaped, RiskShape, Marked
<1>2. x \in EquityShape /\ x.at = o.now
  <2>1. \A y \in Levels \cup {Initial} : y \in Nat
    BY RiskConstants
  <2>2. o.equity \in Nat
    BY <2>1 DEF Marked, ObservationShape
  <2>3. QED
    BY <1>1, <2>2 DEF EquityShape
<1> HIDE DEF x
<1>3. h \in Seq(EquityShape) /\ Len(h) = Len(risk.history) + 1 /\ h[Len(risk.history) + 1] = x
  BY <1>1, <1>2, AppendProperties
<1>4. Recent(risk, o) = LastWeek(h, o.now)
  BY <1>1 DEF Recent, x
<1> HIDE DEF h
<1>5. Len(h) \in 1..Len(h) /\ h[Len(h)].at >= o.now - Week
  <2>1. Len(risk.history) \in Nat /\ Week \in Nat
    BY <1>1, LenProperties, RiskConstants
  <2>2. h[Len(h)].at = o.now
    BY <1>2, <1>3
  <2>3. QED
    BY <1>1, <1>3, <2>1, <2>2
<1>6. QED
  BY <1>1, <1>3, <1>4, <1>5, LastWeekFits

\* The state after a bar, field by field.
BarResult(o, pnl) ==
    /\ risk' \in RiskShape
    /\ risk'.peak \in {risk.peak, o.equity} /\ risk'.peak >= o.equity
    /\ risk'.date = DayOf(o.now) /\ risk'.started # NoBar
    /\ risk'.history # <<>> /\ risk'.history[1].at >= o.now - Week
    /\ risk'.lastEquity = o.equity /\ risk'.lastAt = o.now /\ risk'.count = Len(o.trades)
    /\ risk'.recovery = Left(Begun(risk.recovery, LossAtLeast(o.equity, risk'.peak, HardDrawdown), o.now),
                             RecoveryHalt, o.equity >= risk'.peak, o.now)
    /\ risk'.daily = Left(Begun(risk.daily, LossAtLeast(o.equity, risk'.dayBase, DailyLossLimit), o.now),
                          DailyHalt, ~LossAtLeast(o.equity, risk'.dayBase, DailyLossLimit), o.now)
    /\ risk'.weekly = Left(Begun(risk.weekly, LossAtLeast(o.equity, WeekBase(risk'), WeeklyHaltLimit), o.now),
                           WeeklyHalt, ~LossAtLeast(o.equity, WeekBase(risk'), WeeklyHaltLimit), o.now)
    /\ risk'.losses = LossesAfter(o, pnl)
    /\ risk'.streak = (IF StreakEnds(o, pnl) THEN NoBar ELSE StreakAfter(o, pnl))
    /\ risk'.wins = (IF StreakEnds(o, pnl) THEN 0 ELSE WinsAfter(o, pnl))
    /\ risk'.wild = ((risk.wild \/ o.ratio > 6) /\ ~CalmEnds(o))
    /\ risk'.calm = (IF CalmEnds(o) THEN 0 ELSE CalmAfter(o))
    /\ risk'.decision = EvaluateRisk(risk', o)

\* Every bar has that result.
LEMMA BarFields ==
    ASSUME RiskShaped, Streak, NEW o, NEW pnl, BarIs(o, pnl)
    PROVE  BarResult(o, pnl)
<1> DEFINE f == Facts(risk, o)
           n == Triggered(f, o)
           c == Cleared(n, o)
           d == EvaluateRisk(n, o)
<1>1. /\ risk \in RiskShape /\ o \in ObservationShape /\ o.now \in Nat /\ Marked(o, pnl) /\ o.now # risk.lastAt
      /\ risk.lastAt # o.now
  BY DEF RiskShaped, BarIs, Marked
<1>2. /\ Losses(risk, o) = LossesAfter(o, pnl) /\ Losses(risk, o) \in Nat /\ Wins(risk, o) \in Nat
      /\ Wins(risk, o) = (IF Sold(o) /\ pnl > 0 /\ risk.streak # NoBar THEN risk.wins + 1 ELSE risk.wins)
  BY <1>1, BarCounts
<1>3. Recent(risk, o) \in Seq(EquityShape) /\ Recent(risk, o) # <<>> /\ Recent(risk, o)[1].at >= o.now - Week
  BY <1>1, BarRecent
<1>4. /\ f \in RiskShape
      /\ f.peak \in {risk.peak, o.equity} /\ f.peak >= risk.peak /\ f.peak >= o.equity
      /\ f.date = DayOf(o.now) /\ f.history = Recent(risk, o) /\ f.started # NoBar
      /\ f.lastEquity = o.equity /\ f.lastAt = o.now /\ f.count = Len(o.trades)
      /\ f.losses = Losses(risk, o) /\ f.wins = Wins(risk, o)
      /\ f.wild = (risk.wild \/ o.ratio > 6) /\ f.calm = CalmAfter(o)
      /\ f.recovery = risk.recovery /\ f.daily = risk.daily /\ f.weekly = risk.weekly /\ f.streak = risk.streak
  BY <1>1, <1>2, <1>3, FactsFields DEF CalmAfter
<1> HIDE DEF f
<1>5. /\ n \in RiskShape
      /\ n.recovery = Begun(f.recovery, LossAtLeast(o.equity, f.peak, HardDrawdown), o.now)
      /\ n.daily = Begun(f.daily, LossAtLeast(o.equity, f.dayBase, DailyLossLimit), o.now)
      /\ n.weekly = Begun(f.weekly, LossAtLeast(o.equity, WeekBase(f), WeeklyHaltLimit), o.now)
      /\ n.streak = Begun(f.streak, f.losses >= LossesHalt, o.now)
      /\ n.wins = (IF f.losses >= LossesHalt /\ f.streak = NoBar THEN 0 ELSE f.wins)
      /\ n.peak = f.peak /\ n.date = f.date /\ n.dayBase = f.dayBase /\ n.history = f.history
      /\ n.started = f.started /\ n.lastEquity = f.lastEquity /\ n.lastAt = f.lastAt /\ n.count = f.count
      /\ n.losses = f.losses /\ n.wild = f.wild /\ n.calm = f.calm /\ WeekBase(n) = WeekBase(f)
  BY <1>1, <1>4, TriggeredFields
<1> HIDE DEF n
<1>6. /\ c \in RiskShape
      /\ c.recovery = Left(n.recovery, RecoveryHalt, o.equity >= n.peak, o.now)
      /\ c.daily = Left(n.daily, DailyHalt, ~LossAtLeast(o.equity, n.dayBase, DailyLossLimit), o.now)
      /\ c.weekly = Left(n.weekly, WeeklyHalt, ~LossAtLeast(o.equity, WeekBase(n), WeeklyHaltLimit), o.now)
      /\ c.streak = (IF StreakOver(n, o) THEN NoBar ELSE n.streak)
      /\ c.wins = (IF StreakOver(n, o) THEN 0 ELSE n.wins)
      /\ c.wild = (n.wild /\ ~Calmed(n, o)) /\ c.calm = (IF Calmed(n, o) THEN 0 ELSE n.calm)
      /\ c.peak = n.peak /\ c.date = n.date /\ c.dayBase = n.dayBase /\ c.history = n.history
      /\ c.started = n.started /\ c.lastEquity = n.lastEquity /\ c.lastAt = n.lastAt /\ c.count = n.count
      /\ c.losses = n.losses /\ WeekBase(c) = WeekBase(n)
  BY <1>1, <1>5, ClearedFields
<1>7. n.streak = StreakAfter(o, pnl) /\ n.wins = WinsAfter(o, pnl) /\ (StreakOver(n, o) <=> StreakEnds(o, pnl))
  <2>1. n.streak = StreakAfter(o, pnl)
    BY <1>2, <1>4, <1>5 DEF StreakAfter
  <2>2. n.wins = WinsAfter(o, pnl)
    BY <1>2, <1>4, <1>5 DEF WinsAfter, Strikes
  <2>3. QED
    BY <2>1, <2>2 DEF StreakEnds, StreakOver
<1>8. Calmed(n, o) <=> CalmEnds(o)
  <2>1. n.wild = (risk.wild \/ o.ratio > 6) /\ n.calm = CalmAfter(o)
    BY <1>4, <1>5
  <2>2. QED
    BY <2>1 DEF Calmed, CalmEnds
<1>9. EvaluateRisk(c, o) = d
  <2>1. StreakOver(n, o) => n.losses < LossesReduce
    <3>1. StreakOver(n, o) => LossesAfter(o, pnl) = 0
      BY <1>1, <1>7, StreakEndsWell
    <3>2. LossesReduce \in Nat \ {0}
      BY RiskConstants
    <3>3. n.losses = LossesAfter(o, pnl)
      BY <1>2, <1>4, <1>5
    <3>4. QED
      BY <3>1, <3>2, <3>3
  <2>2. n.lastEquity = o.equity
    BY <1>4, <1>5
  <2>3. QED
    BY <1>1, <1>5, <2>1, <2>2, ClearedDecides
<1>10. risk' = [c EXCEPT !.decision = d]
  BY DEF BarIs, AdvanceRiskState, f, n
<1>11. d \in Decisions
  BY <1>1, <1>5, DecisionFacts
<1> HIDE DEF c, d
<1>12. EvaluateRisk(risk', o) = d
  BY <1>6, <1>9, <1>10, DecisionFree
<1>13. risk' \in RiskShape
  BY <1>6, <1>10, <1>11 DEF RiskShape
<1>14. /\ risk'.recovery = c.recovery /\ risk'.daily = c.daily /\ risk'.weekly = c.weekly /\ risk'.streak = c.streak
       /\ risk'.wins = c.wins /\ risk'.wild = c.wild /\ risk'.calm = c.calm /\ risk'.peak = c.peak
       /\ risk'.date = c.date /\ risk'.dayBase = c.dayBase /\ risk'.history = c.history /\ risk'.started = c.started
       /\ risk'.lastEquity = c.lastEquity /\ risk'.lastAt = c.lastAt /\ risk'.count = c.count
       /\ risk'.losses = c.losses /\ risk'.initial = c.initial /\ risk'.decision = d
  BY <1>6, <1>10 DEF RiskShape
<1>15. WeekBase(risk') = WeekBase(c)
  BY <1>14 DEF WeekBase
<1>16. /\ risk'.peak \in {risk.peak, o.equity} /\ risk'.peak >= o.equity
       /\ risk'.date = DayOf(o.now) /\ risk'.started # NoBar
       /\ risk'.history # <<>> /\ risk'.history[1].at >= o.now - Week
       /\ risk'.lastEquity = o.equity /\ risk'.lastAt = o.now /\ risk'.count = Len(o.trades)
  BY <1>3, <1>4, <1>5, <1>6, <1>14
<1>17. risk'.recovery = Left(Begun(risk.recovery, LossAtLeast(o.equity, risk'.peak, HardDrawdown), o.now),
                             RecoveryHalt, o.equity >= risk'.peak, o.now)
  BY <1>4, <1>5, <1>6, <1>14
<1>18. risk'.daily = Left(Begun(risk.daily, LossAtLeast(o.equity, risk'.dayBase, DailyLossLimit), o.now),
                          DailyHalt, ~LossAtLeast(o.equity, risk'.dayBase, DailyLossLimit), o.now)
  BY <1>4, <1>5, <1>6, <1>14
<1>19. risk'.weekly = Left(Begun(risk.weekly, LossAtLeast(o.equity, WeekBase(risk'), WeeklyHaltLimit), o.now),
                           WeeklyHalt, ~LossAtLeast(o.equity, WeekBase(risk'), WeeklyHaltLimit), o.now)
  BY <1>4, <1>5, <1>6, <1>14, <1>15
<1>20. /\ risk'.losses = LossesAfter(o, pnl)
       /\ risk'.streak = (IF StreakEnds(o, pnl) THEN NoBar ELSE StreakAfter(o, pnl))
       /\ risk'.wins = (IF StreakEnds(o, pnl) THEN 0 ELSE WinsAfter(o, pnl))
  BY <1>2, <1>4, <1>5, <1>6, <1>7, <1>14
<1>21. risk'.wild = ((risk.wild \/ o.ratio > 6) /\ ~CalmEnds(o)) /\ risk'.calm = (IF CalmEnds(o) THEN 0 ELSE CalmAfter(o))
  <2>1. n.wild = (risk.wild \/ o.ratio > 6) /\ n.calm = CalmAfter(o)
    BY <1>4, <1>5
  <2>2. risk'.wild = (n.wild /\ ~Calmed(n, o)) /\ risk'.calm = (IF Calmed(n, o) THEN 0 ELSE n.calm)
    BY <1>6, <1>14
  <2>3. QED
    BY <1>8, <2>1, <2>2, Zenon
<1>22. risk'.decision = EvaluateRisk(risk', o)
  BY <1>12, <1>14
<1>23. QED
  BY <1>13, <1>16, <1>17, <1>18, <1>19, <1>20, <1>21, <1>22 DEF BarResult

\* A running restriction blocks, that of a drawdown forces the position out, and a
\* streak that is served and not won back reduces.
LEMMA RunningBlocks ==
    ASSUME NEW s \in RiskShape, NEW o \in ObservationShape, o.now \in Nat
    PROVE  LET d == EvaluateRisk(s, o)
           IN  /\ Running(s.recovery, RecoveryHalt, o.now) => d.rate = 0 /\ ForcedExit(d)
               /\ Running(s.daily, DailyHalt, o.now) => d.rate = 0
               /\ Running(s.streak, StreakHalt, o.now) => d.rate = 0
               /\ s.wild /\ s.calm < CalmBars => d.rate = 0
               /\ s.streak # NoBar /\ s.wins < WinsClear => d.rate <= 16
<1> DEFINE d == EvaluateRisk(s, o)
           halts == Halts(s, o.now, o.ratio)
           reductions == Reductions(s, o.now, o.ratio)
<1>1. /\ Running(s.recovery, RecoveryHalt, o.now) => "drawdown_halt" \in halts
      /\ Running(s.daily, DailyHalt, o.now) => "daily_loss_halt" \in halts
      /\ Running(s.streak, StreakHalt, o.now) => "loss_streak_halt" \in halts
  BY DEF Halts, DrawdownHalts
<1>2. s.wild /\ s.calm < CalmBars => "volatility_halt" \in halts
  <2>1. s.calm \in Nat /\ CalmBars \in Nat
    BY RiskConstants DEF RiskShape
  <2>2. s.calm < CalmBars => ~(s.calm >= CalmBars)
    BY <2>1
  <2>3. QED
    BY <2>2 DEF Halts
<1>3. s.streak # NoBar /\ s.wins < WinsClear /\ ~Running(s.streak, StreakHalt, o.now) => reductions # {}
  <2>1. s.streak # NoBar /\ s.wins < WinsClear /\ ~Running(s.streak, StreakHalt, o.now)
          => "loss_streak_reduced" \in reductions
    BY DEF Reductions, StreakReduces
  <2>2. QED
    BY <2>1
<1>4. /\ d.rate = 0 <=> ~o.healthy \/ halts # {}
      /\ "drawdown_halt" \in halts => ForcedExit(d)
      /\ reductions # {} => d.rate <= 16
  BY DecisionFacts
<1> HIDE DEF halts, reductions, d
<1>5. \A x : x \in halts => d.rate = 0
  BY <1>4
<1>6. s.streak # NoBar /\ s.wins < WinsClear => d.rate <= 16
  <2>1. CASE Running(s.streak, StreakHalt, o.now)
    <3>1. d.rate = 0
      BY <1>1, <1>5, <2>1
    <3>2. QED
      BY <3>1
  <2>2. CASE ~Running(s.streak, StreakHalt, o.now)
    BY <1>3, <1>4, <2>2
  <2>3. QED
    BY <2>1, <2>2
<1>7. QED
  BY <1>1, <1>2, <1>4, <1>5, <1>6 DEF d

\* The numbers a bar works with.
LEMMA BarNumbers ==
    ASSUME RiskShaped, NEW o, NEW pnl, BarIs(o, pnl), BarResult(o, pnl)
    PROVE  /\ risk \in RiskShape /\ o \in ObservationShape /\ event \in EventShape
           /\ o.now \in Nat /\ o.now = risk.lastAt + 1 /\ risk.lastAt \in Int /\ risk.lastAt \in Instants
           /\ o.equity \in Nat /\ risk.peak \in Nat /\ risk'.peak \in Nat /\ risk.lastEquity \in Nat
           /\ risk.recovery \in Instants /\ risk.daily \in Instants /\ risk.weekly \in Instants /\ risk.streak \in Instants
           /\ risk.losses \in Nat /\ risk.wins \in Nat /\ pnl \in Int /\ o.ratio \in Nat
           /\ risk.wild \in BOOLEAN /\ risk.calm \in Nat
<1>1. \A x \in Levels \cup {Initial} : x \in Nat
  BY RiskConstants
<1>2. risk \in RiskShape /\ risk' \in RiskShape /\ event \in EventShape /\ Marked(o, pnl)
  BY DEF RiskShaped, BarResult, BarIs
<1>3. /\ o \in ObservationShape /\ o.now \in Nat /\ o.now = risk.lastAt + 1 /\ pnl \in Int
  BY <1>2 DEF Marked
<1>4. o.equity \in Nat /\ o.ratio \in Nat
  BY <1>1, <1>3 DEF ObservationShape
<1>5. /\ risk.lastAt \in Instants /\ risk.peak \in Nat /\ risk'.peak \in Nat /\ risk.lastEquity \in Levels \cup {Initial}
      /\ risk.recovery \in Instants /\ risk.daily \in Instants /\ risk.weekly \in Instants /\ risk.streak \in Instants
      /\ risk.losses \in Nat /\ risk.wins \in Nat /\ risk.wild \in BOOLEAN /\ risk.calm \in Nat
  BY <1>2 DEF RiskShape
<1>6. risk.lastAt \in Int
  BY <1>5 DEF Instants, NoBar
<1>7. QED
  BY <1>1, <1>2, <1>3, <1>4, <1>5, <1>6

\* A position is held over a bar only if no drawdown halt ran before it.
LEMMA HeldBar ==
    ASSUME RiskShaped, Settled, Drawdown, NEW o, NEW pnl, BarIs(o, pnl), BarResult(o, pnl),
           position # NoEntry, ~Sold(o)
    PROVE  ~Running(risk.recovery, RecoveryHalt, risk.lastAt)
<1> SUFFICES ASSUME Running(risk.recovery, RecoveryHalt, risk.lastAt) PROVE FALSE
  OBVIOUS
<1>1. risk \in RiskShape /\ last \in ObservationShape /\ last.now = risk.lastAt
  BY DEF RiskShaped
<1>2. risk.lastAt \in Nat /\ risk.lastAt # NoBar
  BY <1>1 DEF Drawdown, Running, RiskShape, Instants, NoBar
<1>3. risk.decision = EvaluateRisk(risk, last)
  BY <1>2 DEF Settled
<1>4. ForcedExit(risk.decision)
  BY <1>1, <1>2, <1>3, RunningBlocks
<1>5. QED
  BY <1>4 DEF BarIs, Marked

\* After a bar that leaves a position where a restriction begins or runs, it was held.
LEMMA BarPosition ==
    ASSUME RiskShaped, NEW o, NEW pnl, BarIs(o, pnl), BarResult(o, pnl), position' # NoEntry,
           \/ Running(risk'.recovery, RecoveryHalt, o.now)
           \/ Running(risk'.streak, StreakHalt, o.now)
    PROVE  position # NoEntry /\ ~Sold(o)
<1>1. risk' \in RiskShape /\ o \in ObservationShape /\ o.now \in Nat /\ risk'.decision = EvaluateRisk(risk', o)
  BY DEF BarResult, BarIs, Marked
<1>2. risk'.decision.rate = 0
  BY <1>1, RunningBlocks
<1>3. QED
  BY <1>2 DEF BarIs

-----------------------------------------------------------------------------
\* What a bar keeps

\* The shape of the state.
LEMMA BarShaped ==
    ASSUME RiskShaped, NEW o, NEW pnl, BarIs(o, pnl), BarResult(o, pnl)
    PROVE  RiskShaped'
<1>1. /\ risk \in RiskShape /\ o \in ObservationShape /\ event \in EventShape /\ o.now \in Nat
      /\ risk'.peak \in Nat /\ o.equity \in Nat
  BY BarNumbers
<1>2. o.trades \in Seq(TradeShape) /\ DayOf(o.now) \in Instants /\ o.now \in Instants
  BY <1>1, DayBounds DEF ObservationShape, Instants
<1>3. event' \in EventShape
  <2> DEFINE falls == LossAtLeast(o.equity, risk'.peak, HardDrawdown)
             loses == LossAtLeast(o.equity, risk'.dayBase, DailyLossLimit) /\ event.day # DayOf(o.now)
             strikes == risk'.losses >= LossesHalt /\ pnl < 0 /\ (event.streak = NoBar \/ event.wins >= WinsClear)
             calm == o.barValid /\ o.ratio <= 3
             drawdown == IF falls /\ ~event.below THEN o.now ELSE event.drawdown
             below == (event.below \/ falls) /\ o.equity < risk'.peak
             daily == IF loses /\ (event.day = NoBar \/ event.day # DayOf(o.now) - 1) THEN o.now ELSE event.daily
             day == IF loses THEN DayOf(o.now) ELSE event.day
             losing == IF strikes THEN o.now ELSE event.streak
             wins == IF strikes THEN 0 ELSE IF pnl > 0 THEN event.wins + 1 ELSE event.wins
             wild == o.ratio > 6 \/ (event.wild /\ ~(calm /\ event.calm + 1 >= CalmBars))
             calmCount == IF calm THEN event.calm + 1 ELSE 0
  <2>1. event' = [drawdown |-> drawdown, below |-> below, daily |-> daily, day |-> day, streak |-> losing,
                  wins |-> wins, wild |-> wild, calm |-> calmCount]
    BY DEF BarIs, Witness
  <2>2. /\ event.drawdown \in Instants /\ event.daily \in Instants /\ event.day \in Instants
        /\ event.streak \in Instants /\ event.wins \in Nat /\ event.calm \in Nat
    BY <1>1 DEF EventShape
  <2>3. /\ drawdown \in Instants /\ daily \in Instants /\ day \in Instants /\ losing \in Instants
        /\ wins \in Nat /\ calmCount \in Nat /\ below \in BOOLEAN /\ wild \in BOOLEAN
    BY <1>2, <2>2
  <2> HIDE DEF drawdown, below, daily, day, losing, wins, wild, calmCount
  <2>4. QED
    BY <2>1, <2>3 DEF EventShape
<1>4. risk'.lastEquity <= risk'.peak
  BY <1>1 DEF BarResult
<1>5. o.now # NoBar
  BY <1>1 DEF NoBar
<1>6. /\ risk' \in RiskShape /\ last' = o /\ trades' = o.trades /\ position' \in {NoEntry} \cup Levels \cup {Initial}
      /\ risk'.count = Len(o.trades) /\ risk'.lastAt = o.now /\ risk'.lastEquity = o.equity
      /\ risk'.date = DayOf(o.now) /\ risk'.started # NoBar
      /\ risk'.history # <<>> /\ risk'.history[1].at >= o.now - Week
  BY DEF BarIs, BarResult
<1>7. QED
  BY <1>1, <1>2, <1>3, <1>4, <1>5, <1>6 DEF RiskShaped

\* What a bar decides is final.
LEMMA BarSettled ==
    ASSUME RiskShaped, Streak, NEW o, NEW pnl, BarIs(o, pnl), BarResult(o, pnl)
    PROVE  Settled'
<1>1. /\ o.equity \in Nat /\ risk'.peak \in Nat /\ o.now \in Nat /\ LossesHalt \in Nat \ {0} /\ Marked(o, pnl)
      /\ risk.recovery \in Instants /\ risk.daily \in Instants /\ risk.weekly \in Instants /\ risk.streak \in Instants
  BY BarNumbers, RiskConstants DEF BarIs
<1>2. ASSUME NEW old \in Instants, NEW length, NEW loss \in BOOLEAN, NEW calm \in BOOLEAN, loss => ~calm,
             NEW new, new = Left(Begun(old, loss, o.now), length, calm, o.now)
      PROVE  (loss => new # NoBar) /\ ~Over(new, length, calm, o.now)
  <2>1. loss => Begun(old, loss, o.now) # NoBar
    BY <1>1 DEF Begun, NoBar
  <2>2. loss => new # NoBar
    BY <1>2, <2>1 DEF Left, Over
  <2>3. ~Over(new, length, calm, o.now)
    BY <1>2 DEF Left, Over
  <2>4. QED
    BY <2>2, <2>3
<1>3. /\ LossAtLeast(o.equity, risk'.peak, HardDrawdown) => risk'.recovery # NoBar
      /\ ~Over(risk'.recovery, RecoveryHalt, o.equity >= risk'.peak, o.now)
  <2>1. LossAtLeast(o.equity, risk'.peak, HardDrawdown) => ~(o.equity >= risk'.peak)
    BY <1>1, NoLossAtPeak
  <2>2. LossAtLeast(o.equity, risk'.peak, HardDrawdown) \in BOOLEAN /\ (o.equity >= risk'.peak) \in BOOLEAN
    BY DEF LossAtLeast
  <2>3. risk'.recovery = Left(Begun(risk.recovery, LossAtLeast(o.equity, risk'.peak, HardDrawdown), o.now),
                              RecoveryHalt, o.equity >= risk'.peak, o.now)
    BY DEF BarResult
  <2>4. QED
    BY <1>1, <1>2, <2>1, <2>2, <2>3
<1>4. /\ LossAtLeast(o.equity, risk'.dayBase, DailyLossLimit) => risk'.daily # NoBar
      /\ ~Over(risk'.daily, DailyHalt, ~LossAtLeast(o.equity, risk'.dayBase, DailyLossLimit), o.now)
  <2>1. LossAtLeast(o.equity, risk'.dayBase, DailyLossLimit) \in BOOLEAN
    BY DEF LossAtLeast
  <2>2. risk'.daily = Left(Begun(risk.daily, LossAtLeast(o.equity, risk'.dayBase, DailyLossLimit), o.now),
                           DailyHalt, ~LossAtLeast(o.equity, risk'.dayBase, DailyLossLimit), o.now)
    BY DEF BarResult
  <2>3. QED
    BY <1>1, <1>2, <2>1, <2>2
<1>5. /\ LossAtLeast(o.equity, WeekBase(risk'), WeeklyHaltLimit) => risk'.weekly # NoBar
      /\ ~Over(risk'.weekly, WeeklyHalt, ~LossAtLeast(o.equity, WeekBase(risk'), WeeklyHaltLimit), o.now)
  <2>1. LossAtLeast(o.equity, WeekBase(risk'), WeeklyHaltLimit) \in BOOLEAN
    BY DEF LossAtLeast
  <2>2. risk'.weekly = Left(Begun(risk.weekly, LossAtLeast(o.equity, WeekBase(risk'), WeeklyHaltLimit), o.now),
                            WeeklyHalt, ~LossAtLeast(o.equity, WeekBase(risk'), WeeklyHaltLimit), o.now)
    BY DEF BarResult
  <2>3. QED
    BY <1>1, <1>2, <2>1, <2>2
<1>6. (risk'.losses >= LossesHalt => risk'.streak # NoBar) /\ ~StreakOver(risk', o)
  <2>1. CASE StreakEnds(o, pnl)
    <3>1. risk'.losses = 0 /\ risk'.streak = NoBar
      BY <1>1, <2>1, StreakEndsWell DEF BarResult
    <3>2. QED
      BY <1>1, <3>1 DEF StreakOver, Over
  <2>2. CASE ~StreakEnds(o, pnl)
    <3>1. risk'.losses = LossesAfter(o, pnl) /\ risk'.streak = StreakAfter(o, pnl) /\ risk'.wins = WinsAfter(o, pnl)
      BY <2>2 DEF BarResult
    <3>2. ~StreakOver(risk', o)
      BY <2>2, <3>1 DEF StreakOver, StreakEnds
    <3>3. risk'.losses >= LossesHalt => risk'.streak # NoBar
      BY <1>1, <3>1 DEF StreakAfter, Begun, NoBar
    <3>4. QED
      BY <3>2, <3>3
  <2>3. QED
    BY <2>1, <2>2
<1>7. ~Calmed(risk', o)
  <2>1. CASE CalmEnds(o)
    BY <2>1 DEF BarResult, Calmed
  <2>2. CASE ~CalmEnds(o)
    <3>1. (risk'.wild => risk.wild \/ o.ratio > 6) /\ risk'.calm = CalmAfter(o)
      BY <2>2 DEF BarResult
    <3>2. QED
      BY <2>2, <3>1 DEF Calmed, CalmEnds
  <2>3. QED
    BY <2>1, <2>2
<1>8. NothingBegins(risk', o)
  BY <1>3, <1>4, <1>5, <1>6 DEF NothingBegins
<1>9. NothingEnds(risk', o)
  BY <1>3, <1>4, <1>5, <1>6, <1>7 DEF NothingEnds
<1>10. risk'.decision = EvaluateRisk(risk', o) /\ last' = o
  BY DEF BarResult, BarIs
<1>11. NothingBegins(risk', last') /\ NothingEnds(risk', last') /\ risk'.decision = EvaluateRisk(risk', last')
  BY <1>8, <1>9, <1>10
<1>12. QED
  BY <1>11 DEF Settled, NothingBegins, NothingEnds, StreakOver, Calmed

\* A recovery keeps to the last fall.
LEMMA BarDrawdown ==
    ASSUME RiskShaped, Settled, Drawdown, NEW o, NEW pnl, BarIs(o, pnl), BarResult(o, pnl)
    PROVE  Drawdown'
<1> DEFINE falls == LossAtLeast(o.equity, risk'.peak, HardDrawdown)
           old == risk.recovery
           new == risk'.recovery
           calm == o.equity >= risk'.peak
<1>1. /\ o.now \in Nat /\ o.now = risk.lastAt + 1 /\ risk.lastAt \in Int /\ o.equity \in Nat /\ risk'.peak \in Nat
      /\ risk.peak \in Nat /\ old \in Instants /\ RecoveryHalt \in Nat /\ event \in EventShape
  BY BarNumbers, RiskConstants
<1>2. risk'.lastAt = o.now /\ risk'.lastEquity = o.equity /\ risk'.peak \in {risk.peak, o.equity}
  BY DEF BarResult
<1>3. falls => ~calm
  BY <1>1, NoLossAtPeak
<1>4. new = Left(Begun(old, falls, o.now), RecoveryHalt, calm, o.now)
  BY DEF BarResult
<1>5. /\ event'.drawdown = (IF falls /\ ~event.below THEN o.now ELSE event.drawdown)
      /\ event'.below = ((event.below \/ falls) /\ o.equity < risk'.peak)
  BY DEF BarIs, Witness
<1>6. (o.equity < risk'.peak) = ~calm
  BY <1>1
<1>7. falls \in BOOLEAN /\ event.below \in BOOLEAN
  BY <1>1 DEF LossAtLeast, EventShape
<1>8. ~event.below /\ old # NoBar => position = NoEntry /\ calm
  <2>1. ~event.below /\ old # NoBar => position = NoEntry /\ risk.lastEquity >= risk.peak
    BY DEF Drawdown
  <2>2. position = NoEntry => o.equity = risk.lastEquity
    BY DEF BarIs, Marked
  <2>3. QED
    BY <1>1, <1>2, <2>1, <2>2
<1>9. Running(new, RecoveryHalt, o.now) /\ old = new => position' = NoEntry
  <2> SUFFICES ASSUME Running(new, RecoveryHalt, o.now), old = new, position' # NoEntry PROVE FALSE
    OBVIOUS
  <2>1. position # NoEntry /\ ~Sold(o)
    BY BarPosition
  <2>2. ~Running(old, RecoveryHalt, risk.lastAt)
    BY <2>1, HeldBar
  <2>3. QED
    BY <1>1, <2>2 DEF Running, Instants, NoBar
<1> HIDE DEF falls, calm, old, new
<1>10. CASE falls /\ ~event.below
  <2>1. old = NoBar
    BY <1>3, <1>8, <1>10
  <2>2. new = o.now
    BY <1>3, <1>4, <1>10, <2>1 DEF Left, Over, Begun
  <2>3. event'.drawdown = o.now /\ event'.below
    BY <1>3, <1>5, <1>6, <1>10
  <2>4. new # NoBar
    BY <1>1, <2>2 DEF NoBar
  <2>5. QED
    BY <1>1, <1>2, <2>2, <2>3, <2>4 DEF Drawdown, new
<1>11. CASE ~(falls /\ ~event.below)
  <2>1. Begun(old, falls, o.now) = old
    BY <1>7, <1>11 DEF Begun, Drawdown, old
  <2>2. new = (IF old # NoBar /\ o.now >= old + RecoveryHalt /\ calm THEN NoBar ELSE old)
    BY <1>4, <2>1 DEF Left, Over
  <2>3. event'.drawdown = event.drawdown
    BY <1>5, <1>11
  <2>4. /\ old # NoBar => old = event.drawdown /\ old <= risk.lastAt /\ old \in Nat
        /\ event.below => old # NoBar
        /\ event.drawdown # NoBar /\ risk.lastAt < event.drawdown + RecoveryHalt => old = event.drawdown
    BY <1>1 DEF Drawdown, old, Instants
  <2>5. new # NoBar => new = event'.drawdown /\ new <= o.now
    BY <1>1, <2>2, <2>3, <2>4
  <2>6. event'.below => new # NoBar
    BY <1>5, <1>6, <1>7, <1>11, <2>2, <2>4
  <2>7. ASSUME ~event'.below, new # NoBar
        PROVE  Running(new, RecoveryHalt, o.now) /\ position' = NoEntry /\ o.equity >= risk'.peak
    <3>1. calm
      BY <1>5, <1>6, <1>7, <1>8, <1>11, <2>2, <2>7
    <3>2. new = old /\ Running(new, RecoveryHalt, o.now)
      BY <1>1, <2>2, <2>4, <2>7, <3>1 DEF Running
    <3>3. QED
      BY <1>9, <3>1, <3>2 DEF calm
  <2>8. event'.drawdown # NoBar /\ o.now < event'.drawdown + RecoveryHalt => new = event'.drawdown
    <3>1. event.drawdown # NoBar => event.drawdown \in Nat
      BY <1>1 DEF EventShape, Instants
    <3>2. QED
      BY <1>1, <2>2, <2>3, <2>4, <3>1
  <2>9. Running(new, RecoveryHalt, o.now) /\ o.now > new => position' = NoEntry
    BY <1>9, <2>2 DEF Running
  <2>10. QED
    BY <1>2, <2>5, <2>6, <2>7, <2>8, <2>9 DEF Drawdown, new
<1>12. QED
  BY <1>10, <1>11

\* The day of a bar is that of the bar before or the next.
LEMMA NextDay ==
    ASSUME NEW x \in Nat, NEW y \in Nat, y = x + 1
    PROVE  DayOf(x) <= DayOf(y) /\ DayOf(y) <= DayOf(x) + 1
<1> DEFINE a == DayOf(x)
           b == DayOf(y)
<1>1. Day \in Nat \ {0} /\ a \in Nat /\ b \in Nat /\ x < Day * a + Day /\ Day * b <= y /\ a <= b
  BY RiskConstants, DayBounds, DayLater
<1> HIDE DEF a, b
<1>2. ASSUME b > a + 1 PROVE FALSE
  <2>1. b >= a + 2
    BY <1>1, <1>2
  <2>2. Day * b >= Day * (a + 2)
    BY <1>1, <2>1
  <2>3. Day * (a + 2) = Day * a + 2 * Day
    BY <1>1
  <2>4. Day * a \in Int /\ Day * b \in Int
    BY <1>1
  <2>5. QED
    BY <1>1, <2>2, <2>3, <2>4
<1>3. b <= a + 1
  BY <1>1, <1>2
<1>4. QED
  BY <1>1, <1>3 DEF a, b

\* A daily halt keeps to the days that lost.
LEMMA BarDayLoss ==
    ASSUME RiskShaped, DayLoss, NEW o, NEW pnl, BarIs(o, pnl), BarResult(o, pnl)
    PROVE  DayLoss'
<1> DEFINE L == LossAtLeast(o.equity, risk'.dayBase, DailyLossLimit)
           D == DayOf(o.now)
           old == risk.daily
           new == risk'.daily
           loses == L /\ event.day # D
<1>1. /\ o.now \in Nat /\ o.now = risk.lastAt + 1 /\ risk.lastAt \in Instants /\ old \in Instants
      /\ DailyHalt \in Nat /\ event.day \in Instants /\ event.daily \in Instants
  BY BarNumbers, RiskConstants DEF EventShape
<1>2. D \in Nat /\ D \in Int /\ o.now # NoBar /\ D # NoBar
  BY <1>1, DayBounds DEF NoBar
<1>3. risk'.lastAt = o.now /\ new = Left(Begun(old, L, o.now), DailyHalt, ~L, o.now)
  BY DEF BarResult
<1>4. /\ event'.day = (IF loses THEN D ELSE event.day)
      /\ event'.daily = (IF loses /\ (event.day = NoBar \/ event.day # D - 1) THEN o.now ELSE event.daily)
  BY DEF BarIs, Witness
<1>5. risk.lastAt # NoBar => /\ risk.lastAt \in Nat /\ DayOf(risk.lastAt) \in Nat
                             /\ DayOf(risk.lastAt) <= D /\ D <= DayOf(risk.lastAt) + 1
  <2>1. risk.lastAt # NoBar => risk.lastAt \in Nat
    BY <1>1 DEF Instants
  <2>2. QED
    BY <1>1, <2>1, NextDay, DayBounds
<1>6. /\ event.day # NoBar => event.day \in Nat /\ risk.lastAt # NoBar /\ event.day <= DayOf(risk.lastAt)
      /\ old # NoBar => /\ old \in Nat /\ old <= risk.lastAt /\ event.day # NoBar /\ DayOf(old) <= event.day
                        /\ Running(old, DailyHalt, risk.lastAt) \/ event.day = DayOf(risk.lastAt)
      /\ event.daily # NoBar /\ risk.lastAt < event.daily + DailyHalt => old = event.daily
  BY <1>1 DEF DayLoss, Instants
<1>7. old # NoBar => DayOf(old) \in Nat
  BY <1>6, DayBounds
<1> HIDE DEF L, D, new, old
<1>8. L => event'.day = D
  BY <1>4
<1>9. event'.day # NoBar => event'.day \in Nat /\ event'.day <= D /\ (event.day # NoBar => event.day <= event'.day)
  BY <1>2, <1>4, <1>5, <1>6
<1>10. new # NoBar => new <= o.now /\ event'.day # NoBar /\ DayOf(new) <= event'.day
  <2> SUFFICES ASSUME new # NoBar PROVE new <= o.now /\ event'.day # NoBar /\ DayOf(new) <= event'.day
    OBVIOUS
  <2>1. CASE old = NoBar
    <3>1. new = o.now /\ L
      BY <1>3, <2>1 DEF Left, Over, Begun
    <3>2. DayOf(new) = D
      BY <3>1 DEF D
    <3>3. QED
      BY <1>1, <1>2, <1>8, <3>1, <3>2
  <2>2. CASE old # NoBar
    <3>1. new = old
      BY <1>3, <2>2 DEF Left, Over, Begun
    <3>2. old <= risk.lastAt /\ DayOf(old) <= event.day /\ event.day # NoBar
      BY <1>6, <2>2
    <3>3. event'.day # NoBar
      BY <1>2, <1>4, <3>2
    <3>4. QED
      BY <1>1, <1>5, <1>6, <1>7, <1>9, <2>2, <3>1, <3>2, <3>3
  <2>3. QED
    BY <2>1, <2>2
<1>11. new # NoBar => Running(new, DailyHalt, o.now) \/ event'.day = D
  <2>1. CASE L
    BY <1>8, <2>1
  <2>2. CASE ~L
    <3>1. new # NoBar => new = old /\ ~(o.now >= old + DailyHalt)
      BY <1>3, <2>2 DEF Left, Over, Begun
    <3>2. QED
      BY <1>1, <1>6, <3>1 DEF Running
  <2>3. QED
    BY <2>1, <2>2
<1>12. event'.daily # NoBar /\ o.now < event'.daily + DailyHalt => new = event'.daily
  <2>1. CASE loses /\ (event.day = NoBar \/ event.day # D - 1)
    <3>1. old = NoBar
      <4> SUFFICES ASSUME old # NoBar PROVE FALSE
        OBVIOUS
      <4>1. event.day \in Nat /\ event.day # D - 1 /\ event.day # D /\ event.day <= DayOf(risk.lastAt)
        BY <1>6, <2>1
      <4>2. event.day + 2 <= D
        BY <1>2, <1>5, <1>6, <4>1
      <4>3. event.day # DayOf(risk.lastAt)
        BY <1>2, <1>5, <1>6, <4>2
      <4>4. DayOf(old) + 2 <= D
        BY <1>2, <1>6, <1>7, <4>1, <4>2
      <4>5. o.now - 1 >= old + DailyHalt
        BY <1>1, <1>6, <4>4, TwoDays DEF D
      <4>6. ~Running(old, DailyHalt, risk.lastAt)
        BY <1>1, <1>5, <1>6, <4>5 DEF Running
      <4>7. QED
        BY <1>6, <4>3, <4>6
    <3>2. new = o.now
      BY <1>3, <2>1, <3>1 DEF Left, Over, Begun
    <3>3. QED
      BY <1>4, <2>1, <3>2
  <2>2. CASE ~(loses /\ (event.day = NoBar \/ event.day # D - 1))
    <3> SUFFICES ASSUME event'.daily # NoBar, o.now < event'.daily + DailyHalt PROVE new = event'.daily
      OBVIOUS
    <3>1. event'.daily = event.daily
      BY <1>4, <2>2
    <3>2. event.daily \in Nat
      BY <1>1, <3>1 DEF Instants
    <3>3. risk.lastAt \in Int
      BY <1>1 DEF Instants, NoBar
    <3>4. old = event.daily
      BY <1>1, <1>6, <3>1, <3>2, <3>3
    <3>5. Begun(old, L, o.now) = old
      BY <3>1, <3>4 DEF Begun
    <3>6. ~(o.now >= old + DailyHalt)
      BY <1>1, <3>1, <3>2, <3>4
    <3>7. QED
      BY <1>3, <3>1, <3>4, <3>5, <3>6 DEF Left, Over
  <2>3. QED
    BY <2>1, <2>2
<1>13. QED
  BY <1>2, <1>3, <1>9, <1>10, <1>11, <1>12 DEF DayLoss, new, D

\* A streak restriction keeps to the last streak and its wins.
LEMMA BarStreak ==
    ASSUME RiskShaped, Streak, NEW o, NEW pnl, BarIs(o, pnl), BarResult(o, pnl)
    PROVE  Streak'
<1> DEFINE strikes == risk'.losses >= LossesHalt /\ pnl < 0 /\ (event.streak = NoBar \/ event.wins >= WinsClear)
           w == WinsAfter(o, pnl)
           old == risk.streak
<1>1. /\ o.now \in Nat /\ o.now = risk.lastAt + 1 /\ risk.lastAt \in Int /\ old \in Instants
      /\ risk.losses \in Nat /\ risk.wins \in Nat /\ pnl \in Int /\ event.streak \in Instants /\ event.wins \in Nat
      /\ LossesHalt \in Nat \ {0} /\ WinsClear \in Nat \ {0} /\ StreakHalt \in Nat
  BY BarNumbers, RiskConstants DEF EventShape
<1>2. /\ risk'.lastAt = o.now /\ risk'.losses = LossesAfter(o, pnl)
      /\ risk'.streak = (IF StreakEnds(o, pnl) THEN NoBar ELSE StreakAfter(o, pnl))
      /\ risk'.wins = (IF StreakEnds(o, pnl) THEN 0 ELSE w)
  BY DEF BarResult
<1>3. /\ event'.streak = (IF strikes THEN o.now ELSE event.streak)
      /\ event'.wins = (IF strikes THEN 0 ELSE IF pnl > 0 THEN event.wins + 1 ELSE event.wins)
  BY DEF BarIs, Witness
<1>4. /\ risk.losses >= LossesHalt => old # NoBar
      /\ old # NoBar => old = event.streak /\ risk.wins = event.wins /\ event.wins < WinsClear /\ old <= risk.lastAt /\ old \in Nat
      /\ event.streak # NoBar /\ old = NoBar => event.wins >= WinsClear /\ risk.lastAt >= event.streak + StreakHalt
      /\ position # NoEntry => ~Running(old, StreakHalt, risk.lastAt)
  BY <1>1 DEF Streak, Instants
<1>5. Marked(o, pnl) /\ (Sold(o) => position # NoEntry) /\ (~Sold(o) => pnl = 0)
  BY DEF BarIs, Marked
<1>6. position' # NoEntry /\ Running(risk'.streak, StreakHalt, o.now) => position # NoEntry /\ ~Sold(o)
  BY BarPosition
<1>7. o.now # NoBar
  BY <1>1 DEF NoBar
<1>8. Strikes(o, pnl) <=> strikes
  <2>1. ASSUME Strikes(o, pnl) PROVE strikes
    <3>1. LossesAfter(o, pnl) >= LossesHalt /\ old = NoBar
      BY <2>1 DEF Strikes
    <3>2. Sold(o) /\ pnl < 0
      BY <1>1, <1>4, <3>1 DEF LossesAfter
    <3>3. QED
      BY <1>2, <1>4, <3>1, <3>2
  <2>2. ASSUME strikes PROVE Strikes(o, pnl)
    <3>1. old = NoBar
      BY <1>1, <1>4, <2>2
    <3>2. QED
      BY <1>2, <2>2, <3>1 DEF Strikes
  <2>3. QED
    BY <2>1, <2>2
<1>9. CASE strikes
  <2>1. w = 0 /\ StreakAfter(o, pnl) = o.now
    BY <1>8, <1>9 DEF WinsAfter, StreakAfter, Begun, Strikes
  <2>2. ~StreakEnds(o, pnl)
    BY <1>1, <2>1 DEF StreakEnds, Over
  <2>3. /\ risk'.streak = o.now /\ risk'.wins = 0 /\ event'.streak = o.now /\ event'.wins = 0
    BY <1>2, <1>3, <1>9, <2>1, <2>2
  <2>4. Sold(o)
    BY <1>1, <1>5, <1>9
  <2>5. position' # NoEntry => ~Running(risk'.streak, StreakHalt, o.now)
    BY <1>6, <2>4
  <2>6. QED
    BY <1>1, <1>2, <1>7, <2>3, <2>5 DEF Streak
<1>10. CASE ~strikes /\ old = NoBar
  <2>1. ~(LossesAfter(o, pnl) >= LossesHalt)
    BY <1>8, <1>10 DEF Strikes
  <2>2. StreakAfter(o, pnl) = NoBar
    BY <1>10, <2>1 DEF StreakAfter, Begun
  <2>3. risk'.streak = NoBar
    BY <1>2, <2>2
  <2>4. event'.streak = event.streak /\ event'.wins >= event.wins /\ event'.wins \in Nat
    BY <1>1, <1>3, <1>10
  <2>5. event'.streak # NoBar => event'.wins >= WinsClear /\ o.now >= event'.streak + StreakHalt
    <3> SUFFICES ASSUME event.streak # NoBar PROVE event'.wins >= WinsClear /\ o.now >= event.streak + StreakHalt
      BY <2>4
    <3>1. event.streak \in Nat /\ event.wins >= WinsClear /\ risk.lastAt >= event.streak + StreakHalt
      BY <1>1, <1>4, <1>10 DEF Instants
    <3>2. QED
      BY <1>1, <2>4, <3>1
  <2>6. ~Running(risk'.streak, StreakHalt, o.now)
    BY <2>3 DEF Running
  <2>7. QED
    BY <1>2, <2>1, <2>3, <2>5, <2>6 DEF Streak
<1>11. CASE ~strikes /\ old # NoBar
  <2>1. StreakAfter(o, pnl) = old
    BY <1>11 DEF StreakAfter, Begun
  <2>2. w = (IF Sold(o) /\ pnl > 0 THEN risk.wins + 1 ELSE risk.wins)
    BY <1>8, <1>11 DEF WinsAfter
  <2>3. event'.streak = old /\ event'.wins = w
    BY <1>1, <1>3, <1>4, <1>5, <1>11, <2>2
  <2>4. old \in Nat /\ old <= risk.lastAt
    BY <1>4, <1>11
  <2>5. CASE StreakEnds(o, pnl)
    <3>1. o.now >= old + StreakHalt /\ w >= WinsClear
      BY <2>1, <2>5 DEF StreakEnds, Over
    <3>2. risk'.losses = 0 /\ risk'.streak = NoBar
      BY <1>2, <1>5, <2>5, StreakEndsWell
    <3>3. ~(risk'.losses >= LossesHalt) /\ ~Running(risk'.streak, StreakHalt, o.now)
      BY <1>1, <3>2 DEF Running
    <3>4. QED
      BY <1>2, <2>3, <3>1, <3>2, <3>3 DEF Streak
  <2>6. CASE ~StreakEnds(o, pnl)
    <3>1. risk'.streak = old /\ risk'.wins = w
      BY <1>2, <2>1, <2>6
    <3>2. position # NoEntry => ~Running(old, StreakHalt, o.now)
      BY <1>1, <1>4, <1>11, <2>4 DEF Running
    <3>3. w < WinsClear
      <4> SUFFICES ASSUME ~(w < WinsClear) PROVE FALSE
        OBVIOUS
      <4>1. Sold(o) /\ w >= WinsClear
        BY <1>1, <1>4, <1>11, <2>2
      <4>2. ~Running(old, StreakHalt, o.now)
        BY <1>5, <3>2, <4>1
      <4>3. o.now >= old + StreakHalt
        BY <1>1, <1>11, <2>4, <4>2 DEF Running
      <4>4. QED
        BY <1>11, <2>1, <2>6, <4>1, <4>3 DEF StreakEnds, Over
    <3>4. position' # NoEntry => ~Running(risk'.streak, StreakHalt, o.now)
      BY <1>6, <3>1, <3>2
    <3>5. old <= o.now
      BY <1>1, <2>4
    <3>6. QED
      BY <1>2, <1>11, <2>3, <3>1, <3>3, <3>4, <3>5 DEF Streak
  <2>7. QED
    BY <2>5, <2>6
<1>12. QED
  BY <1>9, <1>10, <1>11

\* The calm bars are counted.
LEMMA BarVolatile ==
    ASSUME RiskShaped, Volatile, NEW o, NEW pnl, BarIs(o, pnl), BarResult(o, pnl)
    PROVE  Volatile'
<1> DEFINE calm == o.barValid /\ o.ratio <= 3
           more == event.calm + 1
<1>1. /\ risk.wild \in BOOLEAN /\ risk.calm \in Nat /\ event.calm \in Nat /\ event.wild \in BOOLEAN /\ o.ratio \in Nat
      /\ CalmBars \in Nat \ {0} /\ o.barValid \in BOOLEAN /\ more \in Nat
  <2>1. risk.wild \in BOOLEAN /\ risk.calm \in Nat /\ o.ratio \in Nat /\ event \in EventShape /\ o \in ObservationShape
    BY BarNumbers
  <2>2. event.calm \in Nat /\ event.wild \in BOOLEAN /\ o.barValid \in BOOLEAN
    BY <2>1 DEF EventShape, ObservationShape
  <2>3. CalmBars \in Nat \ {0}
    BY RiskConstants
  <2>4. QED
    BY <2>1, <2>2, <2>3
<1>2. risk'.wild = ((risk.wild \/ o.ratio > 6) /\ ~CalmEnds(o)) /\ risk'.calm = (IF CalmEnds(o) THEN 0 ELSE CalmAfter(o))
  BY DEF BarResult
<1>3. /\ event'.wild = (o.ratio > 6 \/ (event.wild /\ ~(calm /\ more >= CalmBars)))
      /\ event'.calm = (IF calm THEN more ELSE 0)
      /\ last' = o
  BY DEF BarIs, Witness
<1>4. event.wild = risk.wild /\ (risk.wild => risk.calm = event.calm /\ risk.calm < CalmBars)
  BY DEF Volatile
<1>5. calm => ~(o.ratio > 6)
  BY <1>1
<1>6. CASE risk.wild
  <2>1. CalmAfter(o) = (IF calm THEN more ELSE 0)
    BY <1>4, <1>6 DEF CalmAfter, CalmCount
  <2>2. CalmEnds(o) <=> calm /\ more >= CalmBars
    BY <1>6, <2>1 DEF CalmEnds
  <2>3. CASE calm /\ more >= CalmBars
    <3>1. ~risk'.wild
      BY <1>2, <2>2, <2>3
    <3>2. ~event'.wild
      BY <1>3, <1>5, <2>3
    <3>3. o.ratio <= 6
      BY <1>1, <2>3
    <3>4. event'.wild = risk'.wild
      <4>1. event'.wild = FALSE
        BY <1>3, <1>5, <2>3
      <4>2. risk'.wild = FALSE
        BY <1>2, <2>2, <2>3
      <4>3. QED
        BY <4>1, <4>2
    <3>5. QED
      BY <1>3, <3>1, <3>3, <3>4 DEF Volatile
  <2>4. CASE ~(calm /\ more >= CalmBars)
    <3>1. risk'.wild = TRUE
      BY <1>2, <1>6, <2>2, <2>4
    <3>2. event'.wild = TRUE
      BY <1>3, <1>4, <1>6, <2>4
    <3>3. risk'.calm = event'.calm
      BY <1>2, <1>3, <2>1, <2>2, <2>4
    <3>4. event'.calm < CalmBars
      BY <1>1, <1>3, <2>4
    <3>5. QED
      BY <3>1, <3>2, <3>3, <3>4 DEF Volatile
  <2>5. QED
    BY <2>3, <2>4
<1>7. CASE ~risk.wild /\ o.ratio > 6
  <2>1. CalmAfter(o) = 0 /\ ~CalmEnds(o)
    BY <1>1, <1>7 DEF CalmAfter, CalmEnds
  <2>2. risk'.wild = TRUE /\ event'.wild = TRUE /\ risk'.calm = 0 /\ event'.calm = 0
    BY <1>2, <1>3, <1>5, <1>7, <2>1
  <2>3. risk'.calm = event'.calm /\ risk'.calm < CalmBars
    BY <1>1, <2>2
  <2>4. event'.wild = risk'.wild /\ risk'.wild
    BY <2>2
  <2>5. QED
    BY <2>3, <2>4 DEF Volatile
<1>8. CASE ~risk.wild /\ ~(o.ratio > 6)
  <2>1. risk'.wild = FALSE /\ event'.wild = FALSE
    BY <1>2, <1>3, <1>4, <1>8
  <2>2. o.ratio <= 6
    BY <1>1, <1>8
  <2>3. QED
    BY <1>3, <2>1, <2>2 DEF Volatile
<1>9. QED
  BY <1>1, <1>6, <1>7, <1>8

-----------------------------------------------------------------------------
\* The invariant

\* The first state.
LEMMA RiskStarts == RiskInit => RiskInv
<1> SUFFICES ASSUME RiskInit PROVE RiskInv
  OBVIOUS
<1>1. /\ risk = InitialRisk
      /\ last = [now |-> NoBar, equity |-> Initial, trades |-> <<>>, ratio |-> 0, barValid |-> TRUE, healthy |-> TRUE]
      /\ trades = <<>> /\ position = NoEntry
      /\ event = [drawdown |-> NoBar, below |-> FALSE, daily |-> NoBar, day |-> NoBar,
                  streak |-> NoBar, wins |-> 0, wild |-> FALSE, calm |-> 0]
  BY DEF RiskInit
<1>2. /\ Initial \in Nat \ {0} /\ LossesHalt \in Nat \ {0} /\ CalmBars \in Nat \ {0}
      /\ NoBar \in Instants /\ NoBar \notin Nat
  BY RiskConstants DEF Instants, NoBar
<1>3. <<>> \in Seq(TradeShape) /\ <<>> \in Seq(EquityShape) /\ Len(<<>>) = 0
  OBVIOUS
<1>4. /\ risk.recovery = NoBar /\ risk.daily = NoBar /\ risk.streak = NoBar /\ risk.lastAt = NoBar /\ risk.date = NoBar
      /\ risk.started = NoBar /\ risk.count = 0 /\ risk.losses = 0 /\ risk.wild = FALSE /\ risk.decision.rate = 32
      /\ risk.lastEquity = Initial /\ risk.peak = Initial
  BY <1>1 DEF InitialRisk
<1>5. risk \in RiskShape
  <2>1. [rate |-> 32, cap |-> 280, until |-> NoBar, reasons |-> {}] \in Decisions
    BY DEF Decisions
  <2>2. QED
    BY <1>1, <1>2, <1>3, <2>1 DEF InitialRisk, RiskShape
<1>6. last \in ObservationShape /\ event \in EventShape
  BY <1>1, <1>2, <1>3 DEF ObservationShape, EventShape
<1>7. last.now = NoBar /\ last.equity = Initial /\ last.trades = <<>> /\ last.ratio = 0
  BY <1>1
<1>8. /\ event.drawdown = NoBar /\ event.below = FALSE /\ event.daily = NoBar /\ event.day = NoBar
      /\ event.streak = NoBar /\ event.wild = FALSE
  BY <1>1
<1>9. RiskShaped
  <2>1. risk.lastEquity <= risk.peak
    BY <1>2, <1>4
  <2>2. QED
    BY <1>1, <1>3, <1>4, <1>5, <1>6, <1>7, <2>1 DEF RiskShaped
<1>10. Settled /\ Drawdown /\ DayLoss
  BY <1>4, <1>8 DEF Settled, Drawdown, DayLoss, Running
<1>11. Streak
  BY <1>2, <1>4, <1>8 DEF Streak, Running
<1>12. Volatile
  <2>1. ~risk.wild
    BY <1>4
  <2>2. event.wild = risk.wild
    BY <1>4, <1>8, Zenon
  <2>3. last.ratio <= 6
    BY <1>7
  <2>4. QED
    BY <2>1, <2>2, <2>3 DEF Volatile
<1>13. QED
  BY <1>9, <1>10, <1>11, <1>12 DEF RiskInv

\* A bar keeps it.
LEMMA BarKeeps == RiskInv /\ Bar => RiskInv'
<1> SUFFICES ASSUME RiskInv, Bar PROVE RiskInv'
  OBVIOUS
<1>1. RiskShaped /\ Settled /\ Drawdown /\ DayLoss /\ Streak /\ Volatile
  BY DEF RiskInv
<1>2. PICK o, pnl : BarIs(o, pnl)
  BY <1>1, BarHasForm
<1>3. BarResult(o, pnl)
  BY <1>1, <1>2, BarFields
<1>4. RiskShaped'
  BY <1>1, <1>2, <1>3, BarShaped
<1>5. Settled'
  BY <1>1, <1>2, <1>3, BarSettled
<1>6. Drawdown'
  BY <1>1, <1>2, <1>3, BarDrawdown
<1>7. DayLoss'
  BY <1>1, <1>2, <1>3, BarDayLoss
<1>8. Streak'
  BY <1>1, <1>2, <1>3, BarStreak
<1>9. Volatile'
  BY <1>1, <1>2, <1>3, BarVolatile
<1>10. QED
  BY <1>4, <1>5, <1>6, <1>7, <1>8, <1>9 DEF RiskInv

\* Evaluating a bar again keeps it.
LEMMA FollowupKeeps == RiskInv /\ Followup => RiskInv'
<1> SUFFICES ASSUME RiskInv, Followup PROVE RiskInv'
  OBVIOUS
<1>1. RiskShaped /\ Settled /\ Drawdown /\ DayLoss /\ Streak /\ Volatile /\ risk.lastAt # NoBar
  BY DEF RiskInv, Followup
<1>2. PICK healthy \in BOOLEAN : LET o == [last EXCEPT !.healthy = healthy]
                                 IN  risk' = AdvanceRiskState(risk, o) /\ last' = o
  BY DEF Followup
<1> DEFINE o == [last EXCEPT !.healthy = healthy]
           d == EvaluateRisk(risk, o)
<1>3. risk' = [risk EXCEPT !.decision = d] /\ last' = o /\ trades' = trades /\ position' = position /\ event' = event
  BY <1>1, <1>2, AdvanceStays DEF Followup
<1>4. risk \in RiskShape /\ last \in ObservationShape /\ risk.lastAt = last.now /\ last.now \in Nat
  BY <1>1 DEF RiskShaped, RiskShape, Instants
<1>5. /\ o \in ObservationShape /\ o.now = last.now /\ o.equity = last.equity /\ o.trades = last.trades
      /\ o.ratio = last.ratio /\ o.barValid = last.barValid
  BY <1>4 DEF ObservationShape
<1>6. d \in Decisions
  BY <1>4, <1>5, DecisionFacts
<1>7. d = EvaluateRisk(risk', o)
  BY <1>3, <1>4, DecisionFree
<1> HIDE DEF o, d
<1>8. risk' \in RiskShape
  BY <1>3, <1>4, <1>6 DEF RiskShape
<1>9. /\ risk'.recovery = risk.recovery /\ risk'.daily = risk.daily /\ risk'.weekly = risk.weekly
      /\ risk'.streak = risk.streak /\ risk'.wins = risk.wins /\ risk'.losses = risk.losses /\ risk'.wild = risk.wild
      /\ risk'.calm = risk.calm /\ risk'.peak = risk.peak /\ risk'.date = risk.date /\ risk'.dayBase = risk.dayBase
      /\ risk'.history = risk.history /\ risk'.started = risk.started /\ risk'.lastEquity = risk.lastEquity
      /\ risk'.lastAt = risk.lastAt /\ risk'.count = risk.count /\ risk'.initial = risk.initial /\ risk'.decision = d
  BY <1>3, <1>4 DEF RiskShape
<1>10. WeekBase(risk') = WeekBase(risk)
  BY <1>9 DEF WeekBase
<1>11. RiskShaped'
  BY <1>1, <1>3, <1>5, <1>8, <1>9 DEF RiskShaped
<1>12. Settled'
  <2>1. NothingBegins(risk', o) /\ NothingEnds(risk', o)
    BY <1>1, <1>5, <1>9, <1>10 DEF Settled, NothingBegins, NothingEnds, StreakOver, Calmed
  <2>2. NothingBegins(risk', last') /\ NothingEnds(risk', last') /\ risk'.decision = EvaluateRisk(risk', last')
    BY <1>3, <1>7, <1>9, <2>1
  <2>3. QED
    BY <2>2 DEF Settled, NothingBegins, NothingEnds, StreakOver, Calmed
<1>13. Drawdown' /\ DayLoss' /\ Streak'
  BY <1>1, <1>3, <1>9 DEF Drawdown, DayLoss, Streak
<1>14. Volatile'
  BY <1>1, <1>3, <1>5, <1>9 DEF Volatile
<1>15. QED
  BY <1>11, <1>12, <1>13, <1>14 DEF RiskInv

\* The invariant holds throughout.
LEMMA RiskInvHolds == RiskSpec => []RiskInv
<1>1. RiskInv /\ [RiskNext]_riskVars => RiskInv'
  <2> SUFFICES ASSUME RiskInv, [RiskNext]_riskVars PROVE RiskInv'
    OBVIOUS
  <2>1. CASE Bar
    BY <2>1, BarKeeps
  <2>2. CASE Followup
    BY <2>2, FollowupKeeps
  <2>3. CASE UNCHANGED riskVars
    <3>1. risk' = risk /\ last' = last /\ trades' = trades /\ position' = position /\ event' = event
      BY <2>3 DEF riskVars
    <3>2. RiskShaped'
      BY <3>1 DEF RiskInv, RiskShaped
    <3>3. Settled'
      BY <3>1 DEF RiskInv, Settled, NothingBegins, NothingEnds, StreakOver, Calmed
    <3>4. Drawdown' /\ DayLoss' /\ Streak' /\ Volatile'
      BY <3>1 DEF RiskInv, Drawdown, DayLoss, Streak, Volatile
    <3>5. QED
      BY <3>2, <3>3, <3>4 DEF RiskInv
  <2>4. QED
    BY <2>1, <2>2, <2>3 DEF RiskNext
<1>2. QED
  BY <1>1, RiskStarts, PTL DEF RiskSpec

\* The types follow.
LEMMA RiskTypes == RiskInv => RiskTypeOK
<1> SUFFICES ASSUME RiskInv PROVE RiskTypeOK
  OBVIOUS
<1>1. /\ risk \in RiskShape /\ trades \in Seq(TradeShape) /\ position \in {NoEntry} \cup Levels \cup {Initial}
  BY DEF RiskInv, RiskShaped
<1>2. risk.lastEquity \in Nat
  <2>1. \A x \in Levels \cup {Initial} : x \in Nat
    BY RiskConstants
  <2>2. QED
    BY <1>1, <2>1 DEF RiskShape
<1>3. {risk.recovery, risk.daily, risk.weekly, risk.streak, risk.lastAt, risk.date, risk.started} \subseteq Nat \cup {NoBar}
  BY <1>1 DEF RiskShape, Instants
<1>4. {risk.losses, risk.count, risk.wins, risk.calm, risk.peak, risk.dayBase, risk.lastEquity} \subseteq Nat
  BY <1>1, <1>2 DEF RiskShape
<1>5. risk.wild \in BOOLEAN /\ risk.decision \in Decisions /\ risk.history \in Seq([at : Nat, equity : Nat])
  BY <1>1 DEF RiskShape, EquityShape
<1>6. trades \in Seq([pnl : Int, exit : Nat])
  BY <1>1 DEF TradeShape
<1>7. QED
  BY <1>1, <1>3, <1>4, <1>5, <1>6 DEF RiskTypeOK

\* The restrictions of the policy are served.
LEMMA RiskServed == RiskInv => HaltsServed /\ BlockExplained
<1> SUFFICES ASSUME RiskInv PROVE HaltsServed /\ BlockExplained
  OBVIOUS
<1>1. /\ RiskShaped /\ Settled /\ Drawdown /\ DayLoss /\ Streak /\ Volatile
      /\ risk \in RiskShape /\ last \in ObservationShape /\ event \in EventShape /\ last.now = risk.lastAt
  BY DEF RiskInv, RiskShaped
<1>2. /\ event.drawdown \in Instants /\ event.daily \in Instants /\ event.streak \in Instants
      /\ risk.lastAt \in Instants /\ risk.recovery \in Instants /\ risk.daily \in Instants /\ risk.streak \in Instants
      /\ StreakHalt \in Nat
  BY <1>1, RiskConstants DEF EventShape, RiskShape
<1>3. event.drawdown # NoBar /\ risk.lastAt < event.drawdown + RecoveryHalt =>
        Running(risk.recovery, RecoveryHalt, risk.lastAt) /\ risk.recovery <= risk.lastAt
  BY <1>1 DEF Drawdown, Running
<1>4. event.daily # NoBar /\ risk.lastAt < event.daily + DailyHalt =>
        Running(risk.daily, DailyHalt, risk.lastAt) /\ risk.daily <= risk.lastAt
  BY <1>1 DEF DayLoss, Running
<1>5. event.streak # NoBar /\ risk.lastAt < event.streak + StreakHalt =>
        Running(risk.streak, StreakHalt, risk.lastAt) /\ risk.streak <= risk.lastAt
  <2> SUFFICES ASSUME event.streak # NoBar, risk.lastAt < event.streak + StreakHalt
               PROVE  Running(risk.streak, StreakHalt, risk.lastAt) /\ risk.streak <= risk.lastAt
    OBVIOUS
  <2>1. risk.lastAt \in Int /\ event.streak \in Int
    BY <1>2 DEF Instants, NoBar
  <2>2. risk.streak # NoBar
    BY <1>1, <1>2, <2>1 DEF Streak
  <2>3. QED
    BY <1>1, <2>2 DEF Streak, Running
<1>6. event.streak # NoBar /\ event.wins < WinsClear =>
        risk.streak # NoBar /\ risk.wins < WinsClear /\ risk.streak <= risk.lastAt
  <2> SUFFICES ASSUME event.streak # NoBar, event.wins < WinsClear
               PROVE  risk.streak # NoBar /\ risk.wins < WinsClear /\ risk.streak <= risk.lastAt
    OBVIOUS
  <2>1. event.wins \in Nat /\ WinsClear \in Nat
    BY <1>1, RiskConstants DEF EventShape
  <2>2. risk.streak # NoBar
    BY <1>1, <2>1 DEF Streak
  <2>3. QED
    BY <1>1, <2>2 DEF Streak
<1>7. event.wild => risk.wild /\ risk.calm < CalmBars
  BY <1>1 DEF Volatile
<1>8. CASE risk.lastAt = NoBar
  <2>1. \A x \in Instants : x # NoBar => ~(x <= risk.lastAt)
    BY <1>8 DEF Instants, NoBar
  <2>2. ~risk.wild /\ risk.decision.rate # 0
    BY <1>1, <1>8 DEF RiskShaped
  <2>3. /\ ~(event.drawdown # NoBar /\ risk.lastAt < event.drawdown + RecoveryHalt)
        /\ ~(event.daily # NoBar /\ risk.lastAt < event.daily + DailyHalt)
        /\ ~(event.streak # NoBar /\ risk.lastAt < event.streak + StreakHalt)
        /\ ~(event.streak # NoBar /\ event.wins < WinsClear)
    BY <1>2, <1>3, <1>4, <1>5, <1>6, <2>1 DEF Running
  <2>4. QED
    BY <1>7, <2>2, <2>3 DEF HaltsServed, BlockExplained, Now, Blocked
<1>9. CASE risk.lastAt # NoBar
  <2>1. risk.lastAt \in Nat /\ risk.decision = EvaluateRisk(risk, last)
    BY <1>1, <1>2, <1>9 DEF Settled, Instants
  <2>2. /\ Running(risk.recovery, RecoveryHalt, risk.lastAt) => risk.decision.rate = 0
        /\ Running(risk.daily, DailyHalt, risk.lastAt) => risk.decision.rate = 0
        /\ Running(risk.streak, StreakHalt, risk.lastAt) => risk.decision.rate = 0
        /\ risk.wild /\ risk.calm < CalmBars => risk.decision.rate = 0
        /\ risk.streak # NoBar /\ risk.wins < WinsClear => risk.decision.rate <= 16
    BY <1>1, <2>1, RunningBlocks
  <2>3. risk.decision.rate = 0 => \/ "system_unhealthy" \in risk.decision.reasons
                                  \/ "volatility_halt" \in risk.decision.reasons
                                  \/ risk.decision.until > risk.lastAt
    BY <1>1, <2>1, DecisionFacts
  <2>4. HaltsServed
    BY <1>3, <1>4, <1>5, <1>6, <1>7, <2>2 DEF HaltsServed, Now, Blocked
  <2>5. BlockExplained
    BY <2>3 DEF BlockExplained, Now, Blocked
  <2>6. QED
    BY <2>4, <2>5
<1>10. QED
  BY <1>8, <1>9

\* Entries are blocked as long as the policy demands and no longer, for every policy
\* and every course of the account (advance_risk_state, evaluate_risk).
THEOREM HaltsExactHolds == RiskSpec => []HaltsExact
<1>1. RiskInv => HaltsExact
  BY RiskTypes, RiskServed DEF HaltsExact
<1>2. QED
  BY <1>1, RiskInvHolds, PTL

\* Evaluating a bar again changes nothing but the health of the decision, whatever
\* has happened before (advance_risk_state, same-bar calls).
THEOREM FollowupStableHolds == RiskSpec => []FollowupStable
<1>1. RiskInv => FollowupStable
  <2> SUFFICES ASSUME RiskInv, risk.lastAt # NoBar, NEW healthy \in BOOLEAN
               PROVE  LET again == AdvanceRiskState(risk, [last EXCEPT !.healthy = healthy])
                      IN  /\ [again EXCEPT !.decision = risk.decision] = risk
                          /\ healthy = last.healthy => again = risk
    BY DEF FollowupStable
  <2> DEFINE o == [last EXCEPT !.healthy = healthy]
  <2>1. RiskShaped /\ Settled /\ Volatile /\ risk \in RiskShape /\ last \in ObservationShape
    BY DEF RiskInv, RiskShaped
  <2>2. AdvanceRiskState(risk, o) = [risk EXCEPT !.decision = EvaluateRisk(risk, o)]
    BY <2>1, AdvanceStays
  <2>3. [[risk EXCEPT !.decision = EvaluateRisk(risk, o)] EXCEPT !.decision = risk.decision] = risk
    BY <2>1 DEF RiskShape
  <2>4. ASSUME healthy = last.healthy
        PROVE  [risk EXCEPT !.decision = EvaluateRisk(risk, o)] = risk
    <3>1. o = last
      BY <2>1, <2>4 DEF ObservationShape
    <3>2. EvaluateRisk(risk, o) = risk.decision
      BY <2>1, <3>1 DEF Settled
    <3>3. [risk EXCEPT !.decision = risk.decision] = risk
      BY <2>1 DEF RiskShape
    <3>4. QED
      BY <3>2, <3>3
  <2>5. QED
    BY <2>2, <2>3, <2>4
<1>2. QED
  BY <1>1, RiskInvHolds, PTL
=============================================================================
