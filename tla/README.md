# A TLA+ verification of autoBit

autoBit trades KRW-BTC on paper: every four hours a process reads the candle that has just
closed, fills the orders and stops that wait for it, evaluates risk, decides, and appends what
happened to an event ledger in SQLite. The ledger is the only memory. Processes crash, are
restarted by systemd, overlap during an upgrade, sleep through their lease and meet a failing
market-data API; whatever they find in the ledger must tell them exactly what is left to do.
These modules model that core and the parts around it (market data, the risk policy, alerts, the
application, the locked live path, the backtest and the release transaction), check them with TLC
and prove part of it with TLAPS.

Paths below are relative to the repository's package `src/autobit/` unless they say otherwise.

## Inventory

| Part | State it keeps | Operations | What is hard about it |
| --- | --- | --- | --- |
| Cycle lease (`persistence/sqlite_store.py`, lease methods of `paper/service.py`) | one metadata row (owner, token with epoch, expiry), the durable epoch counter `PRAGMA user_version`; in memory the epoch of the process | acquire, renew, release, fenced transaction | the wall clock is read before the transaction; a suspended holder; takeover; a failing release; an exhausted counter |
| Health monitor (`paper/health.py`) | one snapshot: stage, flags, API counters and latch, fill anomaly episode, retry counter, times | nine `record_*`/`set_*` methods, load with a strict validator, persist | long sequences of observations against a validator that relates fifteen fields |
| Paper cycle (`paper/service.py`) | the ledger: attempts, completions, risk, orders, fills, stops, position observations | `oldest_required_end`, `process_completed_candle` | about ten transactions per cycle with a crash, an exception or a takeover between any two; retries of a half-done bar; stale cursors |
| Scheduler and application (`paper/scheduler.py`, `cli.py`) | a cursor; prepared candles | run_once, retry, reconcile health, promote | cursor resolved before a sleep; health persisted under the lease at logical times |
| Paper broker (`execution/paper_broker.py`) | none: rebuilt from the ledger | submit, open, stop, observe, reconcile | replay must accept everything the application writes |
| Store (`persistence/sqlite_store.py`) | events, orders, fills, hashes | append, order transitions, replay | monotone logical time, idempotent appends |
| Engine and risk (`core/`, `risk/`, `strategy/`, `indicators/`) | the risk state in the ledger | decide, advance_risk_state, evaluate_risk | halts that overlap and outlive each other |
| Alerts (`alerts/notifier.py`) | attempt and failure events | deliver_alert_once | at most once across crashes and lost leases |
| Live service (`live/`) | JSON journal with one pending intent | reconcile, process candle, on_price | lost answers of the venue, durable intents; locked by `live/guard.py` in this release |
| Market data (`data/`, candle source of `cli.py`) | an evidence directory: pages, snapshots of the walk, a checkpoint; a canonical frame | collect and resume, load, canonicalize | a kill between or inside three atomic writes; two collectors of one range; a candle that is still forming or published late; flags that look ahead |
| Backtest (`backtest/`, `execution/backtest_broker.py`) | Backtrader's orders, the adapter's pending orders and ledger | callbacks, stops, exits, gaps, end of data | notifications delivered twice and a bar late; partial fills; stops withdrawn in the bar they were made |
| Validation and reports (`validation/`, `reporting/`) | files | walk-forward batch | its acceptance of results must accept everything the backtest produces |
| Deployment (`deploy/oci/`) | release directories, a link, unit and journald files, a ledger copy | prepare, activate with rollback, inspect | failure or reboot between two commands of the activation |

How they interact: the application builds a scheduler, which asks the service for the oldest
unfinished candle end and, once that candle is ten minutes old, lets the service process it. The
service acquires the lease; every mutation of the ledger, its own, the broker's and the candle
source's health observations, runs inside a transaction that checks the exact lease epoch. Health
enters the cycle through the risk decision.

What correctness means here: at most one process writes at a time and tenures never interleave;
the application never writes a ledger or a snapshot that it then refuses to read; every candle is
eventually completed, in order and once; an order is filled at the next open and nowhere else; a
position is protected from the transaction that opens it to the one that closes it; entries
resume only after an earned recovery.

## Modules

### `ExclusiveTenure.tla`: what the lease promises

Three variables and three actions: a new tenure is granted, the holder writes, the tenure ends.
There is no clock.

### `CycleLease.tla`: the lease

A store method is one transaction (`BEGIN IMMEDIATE`), hence one action. The service reads its
clock before it calls the store, so the reading is an action of its own (`CallAcquire`,
`CallRenew`, `CallFence`) and `now[p]` is what the transaction later compares with the expiry.
Tokens are fresh per incarnation (a uuid in `cli.py`), drawn from a counter. `AcquireNew`,
`AcquireAgain`, `AcquireHeld` and `AcquireExhausted` are the four outcomes of
`acquire_cycle_lease_epoch`; `ReleaseFails` is the busy database in `release_cycle_lease`, after
the service already forgot its epoch. A row written by a release without epochs is one of the
initial states. `Spec` has a clock that moves forward, `SkewSpec` also one that is set at will.

### `HealthMonitor.tla`: the health monitor

A snapshot is a record and each `record_*` method an operator from a snapshot and a time to a
snapshot, so other modules can compose them. `Loadable` is `_validate_snapshot_relationships` in
four parts. The state machine makes observations at clock readings that may repeat (several
checks share one reading in the code). Flag checks are one set of bad flags, because
`_set_predicate` treats them alike; a fill deviation is within the limit or beyond it.

### `PaperCycle.tla`: the cycle

A candle is named by its end, a number of four-hour boundaries. The ledger is a handful of
variables, one per kind of evidence, and `lastAt` is the logical time of the last event, which the
store does not let go back. Each fenced transaction is one action, from `RecordAttempt` to
`Complete`; reads between them that take a decision are actions too (`Begin`, `Check`, `Renew`,
`Decide`), so a takeover or a crash fits between any two. `OpenBar` is the one large transaction:
fill at the open, first stop, stop check. `Crash` kills a process, `Fail` is any exception,
`TakeOver` the expiry of a live holder's lease, `LoadUnsafe` and `LoadFails` the market data's
failures, `Raise` an error the code raises by itself. `HealthObserved` stands for the health events
of `_record_reconciliation` and `_promote_after_reduced_cycle`, which are written under the lease
between two cycles and leave the logical time where the completed cycle put it.

The lease appears as `holder` only; `CycleLease` shows that a lease gives exactly that (a holder,
a takeover, a holder that is dead). `Contradiction` lists the errors the code raises when the
ledger and the cursor disagree; `NoContradiction` says that a lease holder never meets one.

Abstractions: prices are a few levels, a position is whole (the service sells all it owns), the
strategy's rules are one Boolean of the candle, the risk rules four kinds of decision, health one
bit. A candle is fixed once it was read. Orders bound before entry contexts existed
(`_prepare_legacy_entry_contexts`) are left out; they add only reads.

### `PaperApplication.tla`: the application around the cycle

`_PaperApplication.run_once` with its recovery branch, the observed candle source, reconciliation
and promotion, for several processes. It composes the operators of `HealthMonitor` (the snapshot in
the ledger is a `HealthMonitor` snapshot and every observation one of its `record_*` operators) with
the lease as `ExclusiveTenure` states it. Each acquisition, fenced write and release is an action;
a lease may lapse and a process may crash between any two. A cycle, in detail in `PaperCycle`, is
three steps: load, decide, complete. Observation times are kept up to their order, counters up to
the value where they stop mattering. `system` is what the code keeps. `overtaken` is a history variable
that no action reads and only `PromotionEarned` does: `Overtake`, conjoined to every step, records for
which processes between their two leases somebody else's observation made the system REDUCED.

### `RiskState.tla`: the risk policy

`advance_risk_state` and `evaluate_risk` as operators on a record, in a loop with an account that
enters only when allowed and is forced out when told. The durations and thresholds are constants.
`HaltsServed` and `BlockExplained` compare the policy's decision with a reference: a history of
events, kept beside the state the code keeps, that says which halts are due. (The proof module extends
`HealthMonitor` too, so this module's specification is named `RiskSpec`.) The equities of the last
week are taken as the end of the history (`LastWeek`), which is what the code's filter keeps of a
history in order of time.

### `Alerts.tla`: at-most-once alerts

`deliver_alert_once` in three steps (claim, send, record a failure) and its two callers, with
crashes, lapsed leases, lost answers, and two processes that notify the same cycle. The service's
validator of alert evidence is `ValidateOperationalAlertChain`.

### `LiveOrders.tla`: the live path

`LiveService` and its journal against a venue that fills in parts, posts fees late, loses answers
and lets a timed-out POST arrive late or never. Every request is a step; a crash is possible at
each. The guard that locks the path in this release is lifted, as in the repository's own
integration test. The journal's validator is `Loadable`.

### `CandleCollection.tla`, `CandleQuality.tla`: market data

The first is the resumable backward walk: three atomic writes per page, failures and kills at any
of them, one or two collectors, the stricter paper source on top. The second computes gaps, flags,
quarantine, segments and the entry signal over every short sequence of bars as they complete, and
holds them against the acceptance test of the walk-forward runner (`SurfaceValid`).

### `BacktestOrders.tla`: the backtest

One bar is the broker's matching, the delivery of queued order clones, and the strategy's `next`.
Backtrader is external: it is modelled from the hooks the code overrides. Prices are choices
(touched or not, capped or not, affordable or not). `ResultAccepted` is the runner's check of order
lifecycles, inventory and trade cycles.

### `ReleaseTransaction.tla`: activation of a release

One action per command of `activate_transaction` and of `rollback_code_only` that changes the host;
checks that change nothing are the failure of the command before them. `CommandFails` is `set -e` and
the EXIT trap. systemd's `Restart=always` and a reboot run beside it. `before` and `failedAt` are
history variables that only properties read. Not modelled: signals to the script, another
operator's `paper-run`, and the contents of the ledger copy.

### `*_proofs.tla`: theorems

See below.

## Runs

| Run | Shows | Bounds, and why they are enough |
| --- | --- | --- |
| `lease` | `Fencing` (types, `RowMatchesCounter`, `SingleWriter`, `LogInTenures`), `BlockingBounded`, and that the lease implements `ExclusiveTenure` (`TenureSpec`) | 2 slots, 3 incarnations, 3 epochs, 3 log entries: two tenures, a third incarnation and an exhausted counter fit; a forward clock of 3 readings with a ttl of 1 |
| `health` | `RestartSafeButReduced`, `RecoveryEarned` | 6 clock readings: a latch (3 failures), a recovery (3 successes) and a relapse fit; two fill anomalies; two flags, the rest behave alike |
| `paper_cycle` | `Readable`, `NoContradiction`, `FillsSound`, `EntryBacked`, `EveryCandleCompleted` | 2 processes, one completed candle and two more: an entry is signalled and accepted in the first, filled, stopped or exited in the second; 1 crash, failure, takeover or unsafe read anywhere |
| `paper_position` | `Readable`, `PositionGuarded` (types, `Protected`, `HighWaterCurrent`), `StopNeverLoosens` | 1 process from an empty ledger, four candles: entry, fill, a trailing bar, exit; 2 faults on any of them |
| `app` | `NoLostUpdate`, `DecidedOnLatest`, `PromotionEarned`, `EntriesResume`, `CyclesKeepUp` | 2 processes, 2 cycles, 2 failed loads or bad frames, 1 lapse, 1 crash: a halt, its recovery, a relapse and a promotion fit |
| `risk` | `HaltsExact` (types, `HaltsServed`, `BlockExplained`), `FollowupStable` | 5 bars, days of 2 and weeks of 4 bars, halts of 2 to 4 bars, equity at four levels around the limits, two volatility ratios: every pair of events overlaps |
| `live` | `BooksSound` (types, `Loadable`, `BooksMatch`, `ProfitAccounted`), `SoleOrder`, `Absorbable`, `CutoffHonest`, `OneOrderPerCandle` | an entry and an exit of up to 2 units, 2 prices, a fee of half the funds, 2 orders, 1 fault of any kind at any request: a partial buy, a late fee and a partial sale fit; the balance pays for two units at the lower price and one at the higher |
| `collect` | `EvidenceSound` (types, `Resumable`, `NothingLost`), `LoadedInTheEnd` | 4 candles in pages of 3, one missing at first, 1 or 2 collectors, both kinds of caller and of page boundary; 2 failures, 1 kill, 1 change of the forming candle |
| `quality` | `EntrySound` (`EntryOnRealBars`, `WarmedUp`), `SurfaceAccepted`, `BarsFinal` | every sequence of six bars of five kinds; look-back, channel and warm-up scaled down to 3, 1 and 3 |
| `backtest` | `Protected`, `NeverRaises`, `LedgerSound` (types, `LedgerIsPosition`, `FilledOnce`), `ResultAccepted` | 6 bars, a gap before any of them, whole and half fills both ways, three caps, with and without the liquidation at the end |
| `release` | `RunsCurrent`, `AllOrNothing`, `GivesUpForCause`, `ServiceComesBack` | 3 activations of 3 releases sharing files (all four config states occur), any command failing, 1 failing rollback command, 1 reboot |
| `alerts` | `AtMostOnce`, `ChainValid` | 3 symmetric processes, one health event and two cycles |

Deadlock is checked where the system does not stop. The bounded clock of `lease` and `health` ends
behaviours at the last reading, so those runs do not check it; the collection, the quality pass, the
backtest, the application and the activation end once their range, bars, cycles or attempts are
used up, and their runs do not check it either.

Each property has a seeded fault: a variant of a definition, marked as such in the modules, under
which TLC finds the property violated; most of the properties that join several invariants have one
for more than one part. Some properties are stated and proved without a run: `LostStaysLost`
(`CycleLease`), `FailureReported` (`Alerts`), `ChangedWhileStopped` (`ReleaseTransaction`) and the types
of `HealthMonitor` and `ReleaseTransaction`.

**Fairness.** `paper_cycle` assumes weak fairness of each process's own steps: systemd restarts the
service whenever it ends (`Restart=always`, `RestartSec=60s` in
`deploy/oci/systemd/autobit-paper.service`) and `_run_paper_run` loops over every exception.
Acquiring is strongly fair: a process that finds the lease held comes back after at most 300
seconds, and a lease blocks for at most its five minutes (`BlockingBounded`). Faults are finite;
nothing is assumed about the order of processes, and candles need not mature.
`app` assumes the same of its processes, that candles mature and that an abandoned lease expires
(five minutes). `collect` assumes that a process goes on and that the venue publishes in the end.
`release` assumes that commands return (the script's loops are bounded) and that systemd starts a
service again that exited (`Restart=always`, `StartLimitIntervalSec=0`). `live` has no liveness
property, because it would rest on assumptions about the venue; `Absorbable` is the part of it that
the code answers for: whatever the venue says of a pending order is accepted by a call made now.

## Where the code falls short of what it says

The properties hold of the code as it is. Eight of them carry an exception, or are run on an instance
that leaves a case out, and each exception is a place where the code does less than its documents
say:

1. `RestartSafeButReduced`, `CyclesKeepUp`. `record_api_failure` in stage REDUCED resets
   `api_successes` and keeps the stage (`paper/health.py:412`); the validator refuses that snapshot on
   the next load ("REDUCED health state is contradictory", `paper/health.py:1061`) and on every later
   one, although the class promises "a complete restart-safe health snapshot".
2. `Readable`. `_require_attempt_target` (`paper/service.py:1047`) compares a target with the
   unfinished attempt only, not with the chain of completed cycles. Two processes that start on an
   empty ledger before and after two candle boundaries can complete candles 1 and 3, and the ledger is
   refused from then on. It takes a process that stalls for hours on a new ledger: with one completed
   cycle (`paper_cycle`) or one process (`paper_position`) it cannot happen.
3. `forced_exit_reason` (`core/engine.py:19`) answers HALTED with SYSTEM_EXIT and sells, while the
   runbook (`docs/paper-trading-runbook.md:107`) says that HALTED blocks new entries only. `Decision`
   in `PaperCycle` follows the code.
4. `PromotionEarned`. The lease is released between a cycle and its promotion, which asks only
   whether the system is REDUCED now (`cli.py:801`), while the runbook
   (`docs/paper-trading-runbook.md:111`) promotes after a cycle that ran in that state. Without
   `p \in overtaken` the property is false of the model: a process completes a cycle that was decided
   HALTED and releases the lease; before it takes it again, another process finds the halted system,
   only observes, and its evidence makes it REDUCED; the first one then promotes. That order, the
   system becoming REDUCED between the completion and the second lease, is the only exception: a peer
   that merely works on the same cycle, or recovered the system at another time, excuses nothing.
5. `HaltsServed` (in `HaltsExact`). The start of a daily-loss event is kept until a bar whose day has lost less than 4%
   (`core/risk_state.py:105`); a second day that loses 4% before that starts no halt of its own.
6. `LoadedInTheEnd`, `Resumable` (in `EvidenceSound`). Complete evidence is returned as it is (`data/collector.py:81`): a
   candle published after the walk over its range is complete is never fetched, and the paper source
   refuses that range on every retry. A kill inside a write before the first checkpoint leaves a
   temporary file, which the paper source refuses on every retry (`cli.py:1107`). Two collectors can
   leave snapshots of two walks before the first checkpoint.
7. `ResultAccepted`. A stop submitted and withdrawn in one bar, with a data gap before the next bar, is
   recorded CANCELED and then SUBMITTED (`backtest/engine.py:297`); the runner rejects such a result.
8. `ServiceComesBack`. `systemctl is-active` is false for a service that waits out `RestartSec`
   (`deploy/oci/libdeploy.sh:803`). An activation that begins in that minute and fails restores the
   previous release and leaves it stopped, so the property speaks of services that were active.

Three limits of the rollback are part of the properties by design: if the rename of
the new link itself fails, its staging link has the name the rollback needs and the rollback
gives up with exit 70 (`GivesUpForCause`); so it does on a host whose link was found without a unit,
because there is none to stop, or none left to enable or disable (`RestoreEnablement`); and an interrupted activation is not undone after a
reboot (`RunsCurrent` still holds: what systemd starts is what `current` names).

## Proofs

`CycleLease_proofs` proves, for every set of processes and every value of the constants, the type
invariant and all safety properties of the lease (`Fencing` and its parts, `LostStaysLost`,
`BlockingBounded`, and the refinement). The fencing theorems are about `SkewSpec`: they
do not depend on time at all. (The run `lease` uses `Spec`, because `BlockingBounded` needs a clock
that does not go back; the clock that is set at will is covered by the theorems.)

`SingleWriter` and `LogInTenures` are not inductive. The invariant `IInv` adds that tokens of
running incarnations are distinct and not larger than the number started (`TokenInv`), that the
row carries the counter and no remembered epoch exceeds it (`EpochInv`), and that a log entry under
the current epoch bears the row's token (`LogInv`). The step theorems have one case per action:
only `AcquireNew` moves the counter, to an epoch nobody has used; only the owner of the row
appends. `Refinement` maps `holder` to the token of the row and `tenure` to the counter. Each
action is a step of `ExclusiveTenure` or a stutter. `BlockingBounded` needs `Spec`: no
reading a process carries is later than the clock.

`HealthRisk_proofs` proves, in its first part, the type invariant of the health monitor, `RestartSafeButReduced` and `RecoveryEarned`, for
every sequence of observations, every set of checks the callers make and every value of the bounds.
The inductive invariant `IInv` says that the snapshot is `Kept` at the current clock reading: it is
well formed, the fill, API and stage parts of the validator hold, and none of its times is later
than the clock (`Timed`; the latch time is bounded by the last failure). `Timed` is needed because
the validator compares times with each other (a resolution may
not precede its detection), which holds only if a new observation is not older than what is stored.
The second part, `api_successes <= streak`, ties the code's counter to the successes that really came
after the last failure and the last new reason; with it, the counter that `_finish_observation` tests
is evidence of recovery. Each `record_*` method has a lemma: it keeps `Kept`, leaves HALTED only when
that is earned (`Earned`), and counts no success from before a new reason (`Counted`); the lemma
`Finish` does the part they share. The step lemma has one case per action. `LoadableReduced` is the
one clause of the validator that is not kept (item 1 above).

Its second part proves `HaltsExact` and `FollowupStable` of the risk policy for `RiskSpec`: every
duration, count, set of equities and ratios, any number of bars and trades. The one assumption that
relates constants is `DailyHalt <= Day`; in the code both are 24 hours (`risk/breakers.py`, the UTC
day of `bar_at.date()`). Without it the property is false: a halt that lasts beyond the next day is still
on when the day after loses, and that loss would start no halt of its own (the lemma `TwoDays`).
`HaltsServed` compares the decision with events that happened (`event`), while the policy only sees the
starts it remembers, so the invariant `RiskInv` says how the two are tied:

- `Settled`: after a bar every trigger that is on has a start (`NothingBegins`), no start is both
  served and over (`NothingEnds`), and the decision is that of `EvaluateRisk` on the state as it is
  stored. The last part is not what the code computes (it decides before it forgets); the lemma
  `ClearedDecides` shows that what is forgotten makes no difference to the decision.
- `Drawdown`: a recovery is that of the last fall below the peak. A recovery that is
  still on at the peak can only be one whose time runs, and then the account is flat, so no new fall can
  happen before it ends. This rests on the forced exit of a drawdown halt (`HeldBar`).
- `DayLoss`: a daily halt that outlives its time does so on a day that loses, so two losing days with a
  free one between them never share a halt.
- `Streak`: while a streak is served no position is open, so the wins the policy counts are the wins
  there were; a restriction ends with a win, so with no loss left to count (`StreakEndsWell`).
- `Volatile`: the calm bars of the policy are the calm bars there were.

`BarHasForm` brings the step `Bar` into the form `BarIs`, `BarFields` gives the state it leads to
field by field (`BarResult`), and each part of the invariant has its lemma over these
(`BarShaped` to `BarVolatile`). `AdvanceStays` says that a bar evaluated again changes the
decision only; it gives `FollowupStable` and the step `Followup` at once. The parts of the
invariant were checked with TLC on two instances first.

`Alerts_proofs` proves `AtMostOnce`, `ChainValid` and `FailureReported` for any set of processes and
events and a ledger of any length. Its invariant relates each process's place in
`deliver_alert_once` to the ledger: who is about to send has an attempt of its own in it that no other
process has, and a failure follows its attempt.

`ReleaseTransaction_proofs` proves the types, `RunsCurrent`, `ChangedWhileStopped` and `AllOrNothing` for any
releases, any assignment of configuration files and any number of activations, faults and reboots.
The invariant `Inv` says, for each command, what the host is in terms of the snapshot and of the
script's variables: which commands run with the service down (`Process`), that the script
remembers the snapshot (`Snapshot`), for both files what is installed and what the recorded state and
the copy restore (`UnitUndo`, `JournalUndo`), for the link and the enablement the same (`LinkUndo`), and
that nothing was installed before the ledger was copied (`Copied`). `AllOrNothing` then reads off
the invariant at the two commands that end an activation. All of it is inductive only together: that
a restarted service has a unit needs `UnitUndo`, that a removed link leaves nothing enabled needs
`LinkUndo` and `Snapshot`. `GivesUpForCause` needs a second invariant, `Cause`: a staging link is left
behind only by the rename that failed, a start that was tried has a unit to stop, and a first
installation that was not started has no process to wait for. What remains of the rollback's failures
are its own commands, one by one.

`PaperApplication_proofs` proves `NoLostUpdate`, `DecidedOnLatest` and `PromotionEarned` for any number of
processes, cycles, faults, lapses and crashes; the assumptions are that the lease's "nobody" is not a
process and that a load fails in one of the four ways the code distinguishes. Each property is about one
step, but rests on what happened since an earlier one: the holder's
snapshot was loaded (`HeldLatest`), or its decision taken (`DecisionLatest`), some steps ago, and is
still current because whoever persists health holds the lease at that moment. For the first two the
operators of `HealthMonitor` stay unexpanded: they hold whatever the monitor concludes.
`PromotionEarned` needs what it concludes, in lemmas about single observations: the end of an
observation never turns another stage into NORMAL, and a reconciliation never turns HALTED into REDUCED,
because a settled snapshot (`Settled`) that could leave HALTED has left it at its last observation.
`PromotionInv` then follows a process from the completion of its cycle to its promotion (`WillPromote`):
if the system is REDUCED meanwhile, the cycle was decided REDUCED or the process is in `overtaken`. It holds
at the completion, because the stage a lease holder decided under is still the latest; it is carried over
(`Carried`) because a step that makes the system REDUCED finds such a process either between its leases,
which is what `overtaken` records, or holding the lease itself, and then the step is its own
reconciliation, which never ends a halt. The exception of the property is item 4 above.

`PaperCycle_proofs` proves `Readable`, `NoContradiction`, `FillsSound`, `PositionGuarded`, `EntryBacked` and
`StopNeverLoosens` for any number of processes, candles, prices, crashes, failures and takeovers. Two
invariants support each other. `LedgerInv` says what is on disk between any two transactions: the
completed cycles are one interval that ends at the logical time of the last event, at most the next
one (`Due`) is attempted besides, and every decision, order, fill, stop and observation belongs to an
attempted cycle. `ProcInv` says what a process knows: its cursor never points past `Due`, and
the one that holds the lease works on `Due` and finds what its earlier transactions left. Neither is
inductive alone: the ledger stays one chain because whoever may append is at its end, and
whoever may append is at its end because nobody else could append. `Readable` speaks of recursive
functions (`oldest_required_end` and the chain of completed cycles); it follows because on one
interval they have closed forms. The theorems are about `Spec`, whose ledger has a completed cycle.
On an empty ledger (`NewLedgerSpec`) the first cursor comes from the clock, so the same theorems assume
one process (`Solo`): item 2 above is what a second one can do there.

`LiveOrders_proofs` proves everything the run checks, `SoleOrder`, `OneOrderPerCandle`, `CutoffHonest`,
`BooksSound` and `Absorbable`, for any account, prices, share of the fee, clock, number of orders and number
of faults. `Path` is the argument for the first: every intent but
the newest is terminal, a terminal intent's order is closed at the venue, and whatever the venue
knows or will still receive was sent for a written intent. `Cursor` orders the candles of the
intents by the completed candle in the journal, `Cutoff` the exits and the pending order by the risk
cut-off, which moves only while nothing is pending. Three invariants about amounts follow, each resting
on the ones before it. `Books`: the account differs from
the journal by what the pending order did since the last look, an account without a journal is untouched,
and an intent the venue has not received has recorded nothing. `Ledger`: what an order says continues
what its intent has recorded (`Follows`), and the account pays for the rest of the order and for its
fees (`Covered`). That is what dividing by `1 + bid_fee` in `_submit` is for: the fees of single trades, each rounded
down, never come to more than what was kept back, and so no amount is ever negative. `Absorbable` reads
off `Books` and `Ledger`, check by check of `_apply_order`. `Diary`: the stored state passes the loader.
A buy that fills in parts recomputes the entry and the initial stop from all of its trades, and the stop
and the high water only rise, so `initial < entry <= high` and `initial <= stop` survive every part;
a stop is announced only while no buy is pending (`Served`); exits are in order because a position that is
being sold was held since the last trade. `CutoffHonest` reads off `Cutoff` and `Served`: the pending sell
serves a position that is still held, or has closed it with a trade that risk has not counted, and risk is
frozen until it is resolved. `ProfitAccounted` is a sum over all trades, an induction over
data; the proof avoids it with running totals as a function that some state has (`Total`): each closed
trade extends it by one value, a late fee lowers its last one, and a least counterexample shows that the
totals the property computes are the same. The assumption behind it all is that a price is
above one unit of money: a stop below the entry is then positive, as the loader demands.

`MarketData_proofs` proves `EvidenceSound` (`TypeOK`, `Resumable`, `NothingLost`) for any range, venue,
page size, both kinds of page boundary, and any number of collectors and faults. That a complete walk
lost no candle would be an induction over its pages. The invariant avoids it: all evidence, on disk or in
a collector's hands, is a walk that `Covers` the range from its boundary up, and one more page moves the
boundary down to the page's oldest row and covers what is between (`AdvancedWalks`). `Resumable` is about
the order of the three writes: a checkpoint names a snapshot on disk and a snapshot's pages are on disk
(`Directory`). `Chain` is the reason that one collector always finds a single tip before the first
checkpoint: what it holds extends every snapshot there is. Two collectors can break it, and the
theorem says so with the property's own exception (`Alone`). The assumptions on the constants are that a
page has room for two candles, that a request is tried at least once and that the candles published
late are candles of the range.

Its second part proves the three properties of `CandleQuality`, `BarsFinal`, `EntrySound` and
`SurfaceAccepted`, for every sequence of bars, look-back, channel and warm-up. (The module extends both
components, so the specification of the second is named `QualitySpec`.) A slot is in the frame if it lies between two bars that are present (`Indexed`), so that one more bar changes neither the
slots up to any row of the frame nor their fills and segment ends (`SlotsFinal`), and `RowsFinal` goes
through what a row is computed from. For `EntrySound`, two absent bars in a row end a segment before the
next bar (`LongGapEnds`), and slots on two sides of such an end have different counts of ends
(`Separated`), so the warm-up lies after the gap. `SurfaceAccepted` goes through the clauses of the
runner's check: each restates in terms of rows what the quality rules decide in terms of raw bars.

Only model-checked: the properties of `BacktestOrders` (its ledger and queues are folds and filters over
sequences, which the provers cannot expand); and all liveness (`EveryCandleCompleted`, `EntriesResume`,
`CyclesKeepUp`, `LoadedInTheEnd`, `ServiceComesBack`), which is beyond the prover, as are `ENABLED` and
induction over recursively defined data.

## Plan

1. Theorems about `BacktestOrders`: its inductive strengthening, checked with TLC first. Its queues
   would have to be restated without folds; `LedgerSound` needs that every recorded fill is one
   execution.
2. `PaperCycle` against an abstract bar ledger: retries and crashes are stutters, each bar happens
   once.
3. The store's replay verification and the broker's `_build_ledger` with quantities and fees.
4. Walk-forward splits as a pure algorithm.

## Not modelled

- Indicators, position sizing, metrics and statistics: floating point over whole histories, one
  sequential pass, no state that a property could relate to another.
- Folds, trials, policies and report files of `validation/` and `reporting/`: sequential batch code that
  writes new files. Its acceptance of backtest results and of quality surfaces is modelled, because
  other components must satisfy it.
- `domain/state_machine.py`: `transition_state` is called by its unit test only.
- `prepare`, `inspect` and the PowerShell wrapper of the deployment; HTTP, JSON, hashing, argument
  parsing, message texts, systemd and Backtrader themselves.
- The research scripts: one-shot, without state of their own.
