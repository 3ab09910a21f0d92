----------------------------- MODULE PaperCycle -----------------------------
(***************************************************************************)
(* The paper-trading cycle: processes that resolve the oldest unfinished   *)
(* four-hour candle from the ledger and take it through                    *)
(* PaperService.process_completed_candle (paper/service.py) against the    *)
(* broker's ledger (execution/paper_broker.py).  A process may crash or    *)
(* fail between any two transactions, be overtaken by another one when its *)
(* lease expires, and come back with a cursor it resolved long ago.        *)
(*                                                                         *)
(* A cycle is named by the end of its candle, a number of four-hour        *)
(* boundaries; its bar is the boundary before it (Bar).  Every fenced      *)
(* transaction is one action that only the lease holder can take; the      *)
(* lease itself is CycleLease.tla, of which holder is the abstract view    *)
(* (ExclusiveTenure.tla): an expired lease may be taken from a live        *)
(* process, and the lease of a dead one stays until somebody takes it.     *)
(*                                                                         *)
(* Abstractions.  Prices are a few levels.  Quantities are whole           *)
(* positions: the service sells all it owns, and a BUY cut down by the     *)
(* execution cap opens a smaller position the same way.  A candle is fixed *)
(* when it is first read and later reads may only fail or be unsafe.       *)
(* Health is one bit, entries halted or not (HealthMonitor.tla); REDUCED   *)
(* only halves the size of an entry.                                       *)
(***************************************************************************)
EXTENDS Integers, Sequences, FiniteSets, FiniteSetsExt

CONSTANTS
    Proc,        \* process slots that may run the paper application
    First,       \* the first candle end of the history modelled
    MaxEnd,      \* bound: last candle end that matures
    MaxPrice,    \* bound: highest price level
    MaxFaults    \* bound: crashes, failures, unsafe reads and expired leases

ASSUME CycleAssumption ==
    /\ First \in Nat \ {0} /\ MaxEnd \in Nat
    /\ MaxPrice \in Nat \ {0} /\ MaxFaults \in Nat

CONSTANTS Nobody, Dead
ASSUME HolderAssumption == Nobody \notin Proc /\ Dead \notin Proc /\ Nobody # Dead

VARIABLES
    matured,     \* latest candle end that is ten minutes old
    candle,      \* what the source returns for the candle being processed
    halted,      \* durable health: new entries are halted
    faults,      \* observation: faults so far
    holder,      \* the lease: a process, Nobody, or Dead (a crashed holder)
    completed,   \* PAPER_CYCLE events: ends of completed cycles
    attempted,   \* PAPER_CYCLE_ATTEMPT events: ends of attempted cycles
    lastAt,      \* occurred_at of the latest event
    order,       \* the active market order
    btc,         \* positions owned
    fills,       \* PAPER_FILL events
    stops,       \* open protective stops, oldest first
    observed,    \* bar of the latest PAPER_POSITION event of the open entry
    risk,        \* latest BREAKER_STATE: bar, base decision, decision in force
    pc,          \* where each process is in its cycle
    cursor,      \* PaperScheduler._next_end
    plan         \* what the process has read and decided

world == <<matured, candle, halted>>
account == <<order, btc, fills, stops>>
ledger == <<completed, attempted, lastAt, account, observed, risk>>
local == <<pc, cursor, plan>>
vars == <<world, faults, holder, ledger, local>>

NoBar == 0
NoOrder == [side |-> "none", signal |-> NoBar, eligible |-> NoBar]
NoRisk == [at |-> NoBar, base |-> "open", final |-> "open"]
NoCandle == [end |-> NoBar, low |-> 0, trail |-> 0, buy |-> FALSE, signal |-> FALSE]

\* What the risk decision says: entries allowed, no entries, exit on drawdown,
\* exit because the system is unhealthy.
Verdict == {"open", "halt", "exit", "unhealthy"}
Step == {"idle", "wait", "acquire", "check", "attempt", "load", "renew", "unsafe", "open",
         "observe", "risk", "overlay", "decide", "submit", "complete", "release"}

OrderType == [side : {"none", "BUY", "SELL"}, signal : Nat, eligible : Nat]
FillType == [side : {"BUY", "SELL"}, kind : {"MARKET", "HARD_STOP", "TRAILING_STOP"}, signal : Nat, at : Nat]
StopType == [price : Nat, reason : {"HARD_STOP", "TRAILING_STOP"}, observed : Nat, active : Nat]
Candle(end) ==
    [end : {end}, low : 1..MaxPrice + 1, trail : 1..MaxPrice, buy : BOOLEAN, signal : BOOLEAN]

TypeOK ==
    /\ matured \in Nat
    /\ candle \in {NoCandle} \cup UNION {Candle(end) : end \in First..matured}
    /\ halted \in BOOLEAN
    /\ faults \in 0..MaxFaults
    /\ holder \in Proc \cup {Nobody, Dead}
    /\ completed \subseteq First..matured
    /\ attempted \subseteq First..matured
    /\ lastAt \in 0..matured
    /\ order \in OrderType
    /\ btc \in 0..1
    /\ fills \in Seq(FillType)
    /\ stops \in Seq(StopType)
    /\ observed \in Nat
    /\ risk \in [at : Nat, base : Verdict, final : Verdict]
    /\ pc \in [Proc -> Step]
    /\ cursor \in [Proc -> Nat]
    /\ plan \in [Proc -> {"none", "unsafe", "buy", "sell", "hold", "trail"} \cup Verdict]

Bar(end) == end - 1
\* Seeded fault: an order may fill on the bar of its signal.
SameBoundary(at) == at

NextBoundary(at) == at + 1
Top(seq) == seq[Len(seq)]

-----------------------------------------------------------------------------
\* The cursor: oldest_required_end

\* _first_uncompleted_after_cycle_chain
NextAfterChain == Max(completed) + 1

When(evidence, end) == IF evidence THEN {end} ELSE {}

\* Cycles that durable evidence shows begun (risk, orders, fills, stops).  A
\* settled order adds nothing: it was signalled in the cycle before the one that
\* filled or refused it ...
Observed ==
    When(risk # NoRisk, risk.at + 1)
      \cup When(order # NoOrder, order.signal + 1)
      \cup {fills[i].at + 1 : i \in 1..Len(fills)}
      \cup When(stops # <<>>, Top(stops).observed + 1)

\* ... and cycles it shows still due.
Obligations ==
    (attempted \ completed)
      \cup When(completed # {}, NextAfterChain)
      \cup When(order # NoOrder, order.eligible + 1)
      \cup When(stops # <<>>, Top(stops).active + 1)

Unfinished == (Observed \cup Obligations) \ completed

\* Seeded fault: always the latest candle, whatever is unfinished.
LatestMatured == matured

OldestRequired == IF Unfinished = {} THEN matured ELSE Min(Unfinished)

Contiguous(ends) == \A e \in ends : e = Min(ends) \/ e - 1 \in ends

\* The ledger passes _completed_cycle_ends and _validated_cycle_attempts.
ChainReadable ==
    /\ Contiguous(completed)
    /\ Cardinality(attempted \ completed) <= 1
    /\ completed # {} => attempted \ completed \subseteq {NextAfterChain}

\* ... and the chronology checks of oldest_required_end.  As an invariant: the
\* application never writes a ledger that it then refuses to read, which every
\* later run would do again.
Readable ==
    /\ ChainReadable
    /\ completed # {} => Observed \subseteq completed \cup {NextAfterChain}
    /\ completed # {} => \A e \in Obligations \ completed : e >= NextAfterChain
    /\ completed = {} => Cardinality(Observed) <= 1
    /\ \A e \in Observed : e <= matured
    /\ \A e \in Obligations : e <= matured + 1

\* Seeded fault: a cycle that was attempted is not attempted again.
NoSecondAttempt(end) == attempted \ completed = {}

\* _require_attempt_target
TargetAllowed(end) ==
    attempted \ completed = {} \/ end = Min(attempted \ completed)

-----------------------------------------------------------------------------
\* Initial states

InitWith(done) ==
    /\ matured = First
    /\ candle = NoCandle
    /\ halted = FALSE
    /\ faults = 0
    /\ holder = Nobody
    /\ completed = done
    /\ attempted = done
    /\ lastAt = IF done = {} THEN 0 ELSE First
    /\ order = NoOrder /\ btc = 0 /\ fills = <<>> /\ stops = <<>>
    /\ observed = NoBar
    /\ risk = NoRisk
    /\ pc = [p \in Proc |-> "idle"]
    /\ cursor = [p \in Proc |-> NoBar]
    /\ plan = [p \in Proc |-> "none"]

\* A ledger whose first cycle is complete, and a new ledger.
Init == InitWith({First})
InitNew == InitWith({})

-----------------------------------------------------------------------------
\* The environment

Mature ==
    /\ matured < MaxEnd
    /\ matured' = matured + 1
    /\ UNCHANGED <<candle, halted, faults, holder, ledger, local>>

Fault == faults < MaxFaults /\ faults' = faults + 1

\* Health is observed and persisted outside a cycle (_record_reconciliation,
\* _promote_after_reduced_cycle and the retries of a HALTED run_once).
HealthObserved ==
    /\ holder \in {Nobody, Dead}
    /\ halted' = ~halted
    /\ UNCHANGED <<matured, candle, faults, holder, ledger, local>>

Goto(p, step) == pc' = [pc EXCEPT ![p] = step]

\* run_once is over; the next one has a new scheduler.
Return(p) ==
    /\ Goto(p, "idle")
    /\ cursor' = [cursor EXCEPT ![p] = NoBar]
    /\ plan' = [plan EXCEPT ![p] = "none"]

\* The process dies and a new one starts in its place.
Crash(p) ==
    /\ pc[p] # "idle"
    /\ Fault
    /\ holder' = IF holder = p THEN Dead ELSE holder
    /\ Return(p)
    /\ UNCHANGED <<world, ledger>>

InCycle(p) == pc[p] \notin {"idle", "wait", "acquire", "release"}

\* Any exception in the cycle: the database, the source, an expired lease.
Fail(p) ==
    /\ InCycle(p)
    /\ Fault
    /\ Goto(p, "release")
    /\ UNCHANGED <<world, holder, ledger, cursor, plan>>

-----------------------------------------------------------------------------
\* One cycle of one process

\* run_once: PaperScheduler asks the service for its oldest required end.
Resolve(p) ==
    /\ pc[p] = "idle"
    /\ Readable
    /\ cursor' = [cursor EXCEPT ![p] = OldestRequired]
    /\ Goto(p, "wait")
    /\ UNCHANGED <<world, faults, holder, ledger, plan>>

\* The scheduler has slept until the target matured.  The service reads the
\* ledger: a completed cycle is reported, a wrong target raises.
Begin(p) ==
    /\ pc[p] = "wait"
    /\ cursor[p] <= matured
    /\ IF ChainReadable /\ cursor[p] \notin completed /\ TargetAllowed(cursor[p])
       THEN Goto(p, "acquire") /\ UNCHANGED <<cursor, plan>>
       ELSE Return(p)
    /\ UNCHANGED <<world, faults, holder, ledger>>

\* LEASE_HELD
LeaseHeld(p) ==
    /\ pc[p] = "acquire"
    /\ holder # Nobody
    /\ Return(p)
    /\ UNCHANGED <<world, faults, holder, ledger>>

\* The lease is free, or its dead holder's time is over.
Acquire(p) ==
    /\ pc[p] = "acquire"
    /\ holder \in {Nobody, Dead}
    /\ holder' = p
    /\ Goto(p, "check")
    /\ UNCHANGED <<world, faults, ledger, cursor, plan>>

\* The lease of a live process has expired: it is still running.
TakeOver(p) ==
    /\ pc[p] = "acquire"
    /\ holder \notin {Nobody, Dead}
    /\ Fault
    /\ holder' = p
    /\ Goto(p, "check")
    /\ UNCHANGED <<world, ledger, cursor, plan>>

\* The ledger is read again under the lease.
Check(p) ==
    /\ pc[p] = "check"
    /\ Goto(p, IF ChainReadable /\ cursor[p] \notin completed /\ TargetAllowed(cursor[p])
               THEN "attempt" ELSE "release")
    /\ UNCHANGED <<world, faults, holder, ledger, cursor, plan>>

\* The guard of every fenced transaction that appends events at time at: the
\* exact live lease (cycle_lease_transaction) and no timestamp reversal.
Appends(p, at) ==
    /\ holder = p
    /\ at >= lastAt
    /\ lastAt' = at

\* _record_attempt
RecordAttempt(p) ==
    /\ pc[p] = "attempt"
    /\ IF cursor[p] \in attempted
       THEN UNCHANGED <<attempted, lastAt>>
       ELSE /\ Appends(p, Bar(cursor[p]))
            /\ attempted' = attempted \cup {cursor[p]}
    /\ Goto(p, "load")
    /\ UNCHANGED <<world, faults, holder, completed, account, observed, risk, cursor, plan>>

\* load_completed_candles: the source is asked, its health observation is
\* persisted under the lease (which it renews), and the frame is returned.
Load(p) ==
    /\ pc[p] = "load"
    /\ holder = p
    /\ lastAt' = Max({lastAt, Bar(cursor[p])})
    /\ halted' \in BOOLEAN
    /\ candle' \in IF candle.end = cursor[p] THEN {candle} ELSE Candle(cursor[p])
    /\ plan' = [plan EXCEPT ![p] = "none"]
    /\ Goto(p, "renew")
    /\ UNCHANGED <<matured, faults, holder, completed, attempted, account, observed, risk, cursor>>

\* ... and the latest candle in the frame is missing or not safe to execute on.
LoadUnsafe(p) ==
    /\ pc[p] = "load"
    /\ holder = p
    /\ Fault
    /\ lastAt' = Max({lastAt, Bar(cursor[p])})
    /\ halted' \in BOOLEAN
    /\ plan' = [plan EXCEPT ![p] = "unsafe"]
    /\ Goto(p, "renew")
    /\ UNCHANGED <<matured, candle, holder, completed, attempted, account, observed, risk, cursor>>

\* ... or the source fails, and its health observation is persisted.
LoadFails(p) ==
    /\ pc[p] = "load"
    /\ holder = p
    /\ Fault
    /\ lastAt' = Max({lastAt, Bar(cursor[p])})
    /\ halted' \in BOOLEAN
    /\ Goto(p, "release")
    /\ UNCHANGED <<matured, candle, holder, completed, attempted, account, observed, risk, cursor, plan>>

\* The renewals between the read and the first transaction, each followed by a
\* look for a completion; only reads lie between them.
Renew(p) ==
    /\ pc[p] = "renew"
    /\ holder = p
    /\ Goto(p, IF cursor[p] \in completed THEN "release"
               ELSE IF plan[p] = "unsafe" THEN "unsafe" ELSE "open")
    /\ UNCHANGED <<world, faults, holder, ledger, cursor, plan>>

\* UNSAFE_DATA: the cycle is completed only if nothing waits for this candle.
CompleteUnsafe(p) ==
    /\ pc[p] = "unsafe"
    /\ cursor[p] \notin completed
    /\ btc = 0 /\ order = NoOrder
    /\ Appends(p, cursor[p])
    /\ completed' = completed \cup {cursor[p]}
    /\ candle' = NoCandle
    /\ Goto(p, "release")
    /\ UNCHANGED <<matured, halted, faults, holder, attempted, account, observed, risk, cursor, plan>>

-----------------------------------------------------------------------------
\* The first fenced transaction: process_open, _ensure_stop for a position that
\* has no stop, process_intrabar_stop

\* Seeded fault: the first stop is active only from the next bar.
LateHardStop(bar, active) ==
    [price |-> 1, reason |-> "HARD_STOP", observed |-> bar, active |-> NextBoundary(bar)]

HardStop(bar, active) ==
    [price |-> 1, reason |-> "HARD_STOP", observed |-> bar, active |-> active]
Fill(side, kind, signal, at) ==
    [side |-> side, kind |-> kind, signal |-> signal, at |-> at]
StopFill(stop, at) == Fill("SELL", stop.reason, stop.observed, at)

\* Stops that were active before the bar began; the latest of them counts.
EligibleStops(open, bar) == {i \in DOMAIN open : open[i].active <= bar}
Effective(open, bar) == open[Max(EligibleStops(open, bar))]

Hit(open, bar) == EligibleStops(open, bar) # {} /\ candle.low <= Effective(open, bar).price

OpenBar(p) ==
    LET bar == Bar(cursor[p])
        due == order # NoOrder /\ order.eligible = bar
        bought == due /\ order.side = "BUY" /\ candle.buy
        sold == due /\ order.side = "SELL"
        owned == CASE bought -> btc + 1 [] sold -> btc - 1 [] OTHER -> btc
        pending == IF due THEN NoOrder ELSE order
        kept == IF sold THEN <<>> ELSE stops
        free == owned > 0 /\ pending = NoOrder
        open == IF free /\ kept = <<>>
                THEN <<HardStop(bar, IF bought THEN bar ELSE NextBoundary(bar))>>
                ELSE kept
        hit == free /\ Hit(open, bar)
    IN  /\ pc[p] = "open"
        /\ cursor[p] \notin completed
        /\ order # NoOrder => order.eligible >= bar
        /\ Appends(p, bar)
        /\ order' = pending
        /\ btc' = IF hit THEN owned - 1 ELSE owned
        /\ stops' = IF hit THEN <<>> ELSE open
        /\ fills' = fills
             \o (IF bought \/ sold THEN <<Fill(order.side, "MARKET", order.signal, bar)>> ELSE <<>>)
             \o (IF hit THEN <<StopFill(Effective(open, bar), bar)>> ELSE <<>>)
        /\ observed' = IF bought THEN NoBar ELSE observed
        /\ Goto(p, "observe")
        /\ UNCHANGED <<world, faults, holder, completed, attempted, risk, cursor, plan>>

\* Seeded fault: only the first bar of a position is observed.
ObserveOnce(p) ==
    /\ pc[p] = "observe"
    /\ IF btc > 0 /\ observed = NoBar
       THEN Appends(p, Bar(cursor[p])) /\ observed' = Bar(cursor[p])
       ELSE UNCHANGED <<lastAt, observed>>
    /\ Goto(p, "risk")
    /\ UNCHANGED <<world, faults, holder, completed, attempted, account, risk, cursor, plan>>

\* _observe_position: the high water of the open position is brought up to this
\* bar (the candles it still lacks are loaded and the lease renewed).
ObservePosition(p) ==
    /\ pc[p] = "observe"
    /\ btc > 0 => observed <= Bar(cursor[p])
    /\ IF btc > 0 /\ observed < Bar(cursor[p])
       THEN Appends(p, Bar(cursor[p])) /\ observed' = Bar(cursor[p])
       ELSE UNCHANGED <<lastAt, observed>>
    /\ Goto(p, "risk")
    /\ UNCHANGED <<world, faults, holder, completed, attempted, account, risk, cursor, plan>>

-----------------------------------------------------------------------------
\* Risk and the decision

\* apply_health_recovery on the base decision
Overlaid(base) == IF halted THEN "unhealthy" ELSE base

\* Seeded fault: a retry evaluates risk again and leaves the stored decision.
RiskRecomputed(p) ==
    LET bar == Bar(cursor[p])
    IN  /\ pc[p] = "risk"
        /\ \E base \in IF halted THEN {"unhealthy"} ELSE Verdict \ {"unhealthy"} :
              /\ plan' = [plan EXCEPT ![p] = base]
              /\ IF risk.at = bar
                 THEN UNCHANGED <<risk, lastAt>>
                 ELSE Appends(p, bar) /\ risk' = [at |-> bar, base |-> base, final |-> base]
        /\ Goto(p, "overlay")
        /\ UNCHANGED <<world, faults, holder, completed, attempted, account, observed, cursor>>

\* _risk_decision: the base decision of a bar is made and stored once; a retry
\* takes the stored one.  evaluate_risk answers "system_unhealthy" when halted.
RiskBase(p) ==
    LET bar == Bar(cursor[p])
    IN  /\ pc[p] = "risk"
        /\ risk.at <= bar
        /\ IF risk.at = bar
           THEN UNCHANGED <<risk, lastAt>>
           ELSE /\ Appends(p, bar)
                /\ \E base \in IF halted THEN {"unhealthy"} ELSE Verdict \ {"unhealthy"} :
                      risk' = [at |-> bar, base |-> base, final |-> base]
        /\ plan' = [plan EXCEPT ![p] = Overlaid(risk'.base)]
        /\ Goto(p, "overlay")
        /\ UNCHANGED <<world, faults, holder, completed, attempted, account, observed, cursor>>

\* _persist_health_risk_followup, when health changes the decision in force
RiskOverlay(p) ==
    /\ pc[p] = "overlay"
    /\ IF risk.final = plan[p]
       THEN UNCHANGED <<risk, lastAt>>
       ELSE /\ Appends(p, Max({lastAt, Bar(cursor[p])}))
            /\ risk' = [risk EXCEPT !.final = plan[p]]
    /\ Goto(p, "decide")
    /\ UNCHANGED <<world, faults, holder, completed, attempted, account, observed, cursor, plan>>

\* forced_exit_reason
ForcedExit(final) == final \in {"exit", "unhealthy"}

\* Seeded fault: an order that is already pending is not looked at.
DecisionBlind(final) ==
    CASE btc > 0 -> IF ForcedExit(final) \/ candle.signal THEN "sell" ELSE "trail"
      [] btc = 0 -> IF final = "open" /\ candle.signal THEN "buy" ELSE "hold"

\* StrategyEngine.decide.  candle.signal: evaluate_entry on a flat account, one
\* of the close, stagnant and holding-time exits on a position.
Decision(final) ==
    CASE btc > 0 /\ ForcedExit(final) -> "sell"
      [] btc > 0 /\ ~ForcedExit(final) /\ order # NoOrder -> "hold"
      [] btc > 0 /\ ~ForcedExit(final) /\ order = NoOrder ->
            IF candle.signal THEN "sell" ELSE "trail"
      [] btc = 0 -> IF order = NoOrder /\ final = "open" /\ candle.signal THEN "buy" ELSE "hold"

\* The decision is made on the account as it was read before it, outside any
\* transaction; only one exit order is ever active.
Decide(p) ==
    LET decision == Decision(plan[p])
    IN  /\ pc[p] = "decide"
        /\ plan' = [plan EXCEPT ![p] =
                      IF decision = "sell" /\ order # NoOrder THEN "hold" ELSE decision]
        /\ Goto(p, "submit")
        /\ UNCHANGED <<world, faults, holder, ledger, cursor>>

MarketOrder(side, bar) == [side |-> side, signal |-> bar, eligible |-> NextBoundary(bar)]

\* submit_exit
SubmitExit(p) ==
    /\ pc[p] = "submit" /\ plan[p] = "sell"
    /\ btc > 0 /\ order = NoOrder
    /\ Appends(p, Bar(cursor[p]))
    /\ order' = MarketOrder("SELL", Bar(cursor[p]))
    /\ Goto(p, "complete")
    /\ UNCHANGED <<world, faults, holder, completed, attempted, btc, fills, stops, observed, risk, cursor, plan>>

\* submit_entry, bound to the risk evidence of the same bar (_entry_context)
SubmitEntry(p) ==
    /\ pc[p] = "submit" /\ plan[p] = "buy"
    /\ btc = 0 /\ order = NoOrder
    /\ risk.at = Bar(cursor[p])
    /\ Appends(p, Bar(cursor[p]))
    /\ order' = MarketOrder("BUY", Bar(cursor[p]))
    /\ Goto(p, "complete")
    /\ UNCHANGED <<world, faults, holder, completed, attempted, btc, fills, stops, observed, risk, cursor, plan>>

TrailingStop(bar) ==
    [price |-> candle.trail, reason |-> "TRAILING_STOP", observed |-> bar, active |-> NextBoundary(bar)]

\* Seeded fault: the trailing candidate replaces the stop even when it is looser.
MoveStop(p) ==
    /\ pc[p] = "submit" /\ plan[p] = "trail"
    /\ Appends(p, Bar(cursor[p]))
    /\ stops' = Append(stops, TrailingStop(Bar(cursor[p])))
    /\ Goto(p, "complete")
    /\ UNCHANGED <<world, faults, holder, completed, attempted, order, btc, fills, observed, risk, cursor, plan>>

\* _ensure_stop with the trailing candidate, and set_stop: a missing stop is set
\* first, and only a tighter one is recorded.
NewStop(bar) ==
    IF stops = <<>> THEN <<HardStop(bar, NextBoundary(bar))>>
    ELSE IF TrailingStop(bar).price > Top(stops).price THEN <<TrailingStop(bar)>> ELSE <<>>

RaiseStop(p) ==
    LET candidates == NewStop(Bar(cursor[p])) IN
    /\ pc[p] = "submit" /\ plan[p] = "trail"
    /\ IF candidates # <<>>
       THEN Appends(p, Bar(cursor[p])) /\ stops' = stops \o candidates
       ELSE UNCHANGED <<stops, lastAt>>
    /\ Goto(p, "complete")
    /\ UNCHANGED <<world, faults, holder, completed, attempted, order, btc, fills, observed, risk, cursor, plan>>

Hold(p) ==
    /\ pc[p] = "submit" /\ plan[p] = "hold"
    /\ Goto(p, "complete")
    /\ UNCHANGED <<world, faults, holder, ledger, cursor, plan>>

\* _record_completion
Complete(p) ==
    /\ pc[p] = "complete"
    /\ cursor[p] \notin completed
    /\ Appends(p, cursor[p])
    /\ completed' = completed \cup {cursor[p]}
    /\ candle' = NoCandle
    /\ Goto(p, "release")
    /\ UNCHANGED <<matured, halted, faults, holder, attempted, account, observed, risk, cursor, plan>>

\* Errors that only a ledger at odds with the cursor can cause: a reversed
\* timestamp, a missed open, a position or a risk decision from the future, a
\* second completion, an order that the broker refuses.
Contradiction(p) ==
    \/ pc[p] = "attempt" /\ cursor[p] \notin attempted /\ Bar(cursor[p]) < lastAt
    \/ pc[p] = "open" /\ (Bar(cursor[p]) < lastAt \/ (order # NoOrder /\ order.eligible < Bar(cursor[p])))
    \/ pc[p] = "observe" /\ btc > 0 /\ observed > Bar(cursor[p])
    \/ pc[p] = "risk" /\ risk.at > Bar(cursor[p])
    \/ pc[p] \in {"open", "unsafe", "complete"} /\ cursor[p] \in completed
    \/ pc[p] = "submit" /\ plan[p] \in {"buy", "sell"} /\ order # NoOrder
    \/ pc[p] = "submit" /\ plan[p] = "buy" /\ (btc > 0 \/ risk.at # Bar(cursor[p]))
    \/ pc[p] = "submit" /\ plan[p] \in {"sell", "trail"} /\ btc = 0

\* What the code raises on: the lost lease that the next transaction notices, a
\* candle it cannot execute on while something waits for it, a contradiction.
MustRaise(p) ==
    \/ holder # p /\ pc[p] \notin {"check", "decide"}
    \/ pc[p] = "unsafe" /\ (btc > 0 \/ order # NoOrder)
    \/ Contradiction(p)

Raise(p) ==
    /\ InCycle(p)
    /\ MustRaise(p)
    /\ Goto(p, "release")
    /\ UNCHANGED <<world, faults, holder, ledger, cursor, plan>>

\* The finally clause: release_cycle_lease.
Release(p) ==
    /\ pc[p] = "release"
    /\ holder' = IF holder = p THEN Nobody ELSE holder
    /\ Return(p)
    /\ UNCHANGED <<world, faults, ledger>>

Works(p) ==
    \/ Resolve(p) \/ Begin(p) \/ LeaseHeld(p) \/ Acquire(p) \/ Check(p)
    \/ RecordAttempt(p) \/ Load(p) \/ Renew(p) \/ CompleteUnsafe(p)
    \/ OpenBar(p) \/ ObservePosition(p) \/ RiskBase(p) \/ RiskOverlay(p) \/ Decide(p)
    \/ SubmitExit(p) \/ SubmitEntry(p) \/ RaiseStop(p) \/ Hold(p)
    \/ Complete(p) \/ Raise(p) \/ Release(p)

Next ==
    \/ Mature \/ HealthObserved
    \/ \E p \in Proc : Works(p) \/ Crash(p) \/ Fail(p) \/ TakeOver(p) \/ LoadUnsafe(p) \/ LoadFails(p)

Spec == Init /\ [][Next]_vars
NewLedgerSpec == InitNew /\ [][Next]_vars

\* A running process keeps going, and keeps retrying long enough to see the
\* lease of a dead holder expire (CycleLease!BlockingBounded).
Fairness ==
    \A p \in Proc : WF_vars(Works(p)) /\ SF_vars(Acquire(p))
FairSpec == Spec /\ Fairness

-----------------------------------------------------------------------------
\* Properties

\* No process that holds the lease meets an error of its own making: whatever
\* crashed before, however old its cursor is, what it read agrees with the
\* ledger at each of its transactions.
NoContradiction == \A p \in Proc : holder = p => ~Contradiction(p)

\* A pending order is always filled, or refused, at the open right after its
\* signal, a trailing stop never fills on the bar that set it, even when a retry
\* goes over that bar again, the hard stop is the one set with the entry, and
\* buys and sells alternate.
FillsSound ==
    \A i \in 1..Len(fills) :
        /\ fills[i].kind = "MARKET" => fills[i].at = fills[i].signal + 1
        /\ fills[i].kind = "TRAILING_STOP" => fills[i].signal < fills[i].at
        /\ fills[i].kind = "HARD_STOP" => fills[i].signal = fills[i - 1].at
        /\ fills[i].side = IF i % 2 = 1 THEN "BUY" ELSE "SELL"
        /\ i > 1 => fills[i - 1].at <= fills[i].at

\* A position is protected from the transaction that opened it to the one that
\* closes it, by a first stop active on every bar it is held, and only then.
Protected ==
    /\ btc > 0 <=> stops # <<>>
    /\ btc > 0 => stops[1].active <= Top(fills).at

\* Every completed bar of a held position is in its high water.
HighWaterCurrent ==
    btc > 0 /\ NextAfterChain - 1 > Top(fills).at => observed >= NextAfterChain - 2

\* Whatever transaction a crash or an exception cut off, a held position has its
\* stop and a high water without gaps (process_completed_candle, observe_position).
PositionGuarded == TypeOK /\ Protected /\ HighWaterCurrent

\* A protective stop never loosens while the position lasts.
StopNeverLoosens ==
    [][btc > 0 /\ btc' > 0 /\ fills' = fills =>
          Top(stops').price >= Top(stops).price]_vars

\* An entry is accepted only for a bar whose stored base decision allows
\* entries, however often the bar was retried and health changed meanwhile.
EntryBacked ==
    [][order'.side = "BUY" /\ order # order' =>
          risk.at = order'.signal /\ risk.base = "open"]_vars

\* Every candle that matures is eventually completed, after finitely many
\* crashes, failures, takeovers and unsafe reads: nothing they leave in the
\* ledger keeps a later cycle from being finished.
EveryCandleCompleted == []<>(First..matured \subseteq completed)
=============================================================================
