----------------------------- MODULE RiskState ------------------------------
(***************************************************************************)
(* The risk policy: advance_risk_state (core/risk_state.py) over           *)
(* evaluate_risk (risk/breakers.py), closed into a loop with an account    *)
(* that holds at most one position, enters only while the decision allows  *)
(* it, and is forced out by a drawdown halt or an unhealthy system.        *)
(*                                                                         *)
(* Time is the number of completed four-hour bars.  The durations and the  *)
(* counts of the policy are constants: 6 bars a day, halts of 24, 48, 48   *)
(* and 72 hours, a week of 42 bars, 5 losses halt, 3 reduce, 2 wins clear, *)
(* 3 calm bars resume.  Equity is an integer and losses are compared       *)
(* exactly as percentages.  A rate is counted in sixteenths of a percent   *)
(* and a cap in quarters of one, so that every ladder value and its        *)
(* quarter is an integer.  Volatility ratios are doubled (3 is 1.5).  The  *)
(* validation of the configuration and of numeric types is not modelled:   *)
(* the policy runs with the approved configuration only.                   *)
(***************************************************************************)
EXTENDS Integers, Sequences, FiniteSets, FiniteSetsExt

CONSTANTS
    Day,           \* bars in a UTC day
    Week,          \* bars in seven days
    DailyHalt, WeeklyHalt, StreakHalt, RecoveryHalt,   \* bars each halt lasts
    LossesHalt, LossesReduce,   \* consecutive losses that halt and that reduce
    WinsClear,     \* profitable trades that lift the reduction after a streak
    CalmBars,      \* calm bars that end a volatility halt
    Initial,       \* equity at the start
    Levels,        \* equity a bar with a position may end at
    Ratios,        \* doubled volatility ratios
    MaxBar         \* bound: last bar

ASSUME RiskAssumption ==
    /\ {Week, DailyHalt, WeeklyHalt, StreakHalt, RecoveryHalt, MaxBar} \subseteq Nat
    /\ {LossesHalt, LossesReduce, WinsClear, CalmBars, Initial, Day} \subseteq Nat \ {0}
    /\ Levels \subseteq Nat \ {0} /\ Ratios \subseteq Nat
    /\ DailyHalt <= Day

VARIABLES
    risk,          \* the durable RiskState
    last,          \* the observation it was last advanced with
    trades,        \* the account: closed trades, oldest first
    position,      \* the account: equity at the entry, or NoEntry
    event          \* observation: when each kind of loss event began, and what happened since

riskVars == <<risk, last, trades, position, event>>

NoBar == -1
NoEntry == 0

\* limits of the approved configuration, in percent
HardDrawdown == 15
DailyLossLimit == 4
WeeklyReduceLimit == 5
WeeklyHaltLimit == 7

\* 1 - equity / baseline >= percent / 100
LossAtLeast(equity, baseline, percent) == baseline > 0 /\ (baseline - equity) * 100 >= percent * baseline

-----------------------------------------------------------------------------
\* evaluate_risk

Ladder(eq, peak) ==
    CASE LossAtLeast(eq, peak, 10) -> [rate |-> 8, cap |-> 120]
      [] LossAtLeast(eq, peak, 5) /\ ~LossAtLeast(eq, peak, 10) -> [rate |-> 16, cap |-> 200]
      [] OTHER -> [rate |-> 32, cap |-> 280]

RecoveryLadder(eq, peak) ==
    CASE LossAtLeast(eq, peak, 10) -> [rate |-> 4, cap |-> 60]
      [] LossAtLeast(eq, peak, 5) /\ ~LossAtLeast(eq, peak, 10) -> [rate |-> 8, cap |-> 120]
      [] eq < peak /\ ~LossAtLeast(eq, peak, 5) -> [rate |-> 16, cap |-> 200]
      [] OTHER -> [rate |-> 32, cap |-> 280]

Running(start, length, now) == start # NoBar /\ now < start + length

\* Seeded fault: the recovery waits until the drawdown itself is gone.
DrawdownHaltsUntilGone(s, now) ==
    s.recovery # NoBar /\ (now < s.recovery + RecoveryHalt \/ LossAtLeast(s.lastEquity, s.peak, HardDrawdown))

DrawdownHalts(s, now) == Running(s.recovery, RecoveryHalt, now)

\* The restrictions in force; s already carries the starts of this bar.
Halts(s, now, ratio) ==
    {r \in {"drawdown_halt", "daily_loss_halt", "weekly_loss_halt", "loss_streak_halt", "volatility_halt"} :
        CASE r = "drawdown_halt" -> DrawdownHalts(s, now)
          [] r = "daily_loss_halt" -> Running(s.daily, DailyHalt, now)
          [] r = "weekly_loss_halt" -> Running(s.weekly, WeeklyHalt, now)
          [] r = "loss_streak_halt" -> Running(s.streak, StreakHalt, now)
          [] r = "volatility_halt" -> s.wild /\ ~(ratio <= 3 /\ s.calm >= CalmBars)}

StreakReduces(s, now) ==
    IF s.streak # NoBar THEN ~Running(s.streak, StreakHalt, now) /\ s.wins < WinsClear
                        ELSE s.losses >= LossesReduce

\* The baseline of the seven-day loss.
WeekBase(s) == IF s.lastAt - s.started < Week THEN s.initial ELSE s.history[1].equity

Reductions(s, now, ratio) ==
    {r \in {"daily_loss_reduced", "weekly_loss_reduced", "loss_streak_reduced", "volatility_reduced"} :
        CASE r = "daily_loss_reduced" -> ~Running(s.daily, DailyHalt, now) /\ LossAtLeast(s.lastEquity, s.dayBase, DailyLossLimit)
          [] r = "weekly_loss_reduced" -> ~Running(s.weekly, WeeklyHalt, now) /\ LossAtLeast(s.lastEquity, WeekBase(s), WeeklyReduceLimit)
          [] r = "loss_streak_reduced" -> StreakReduces(s, now)
          [] r = "volatility_reduced" -> ~s.wild /\ ratio > 4}

\* halted_until: the latest expiry, or none when a volatility halt has no end.
HaltedUntil(s, now, halts) ==
    IF halts = {} \/ "volatility_halt" \in halts THEN NoBar
    ELSE Max({IF Running(s.recovery, RecoveryHalt, now) THEN s.recovery + RecoveryHalt ELSE 0,
              IF Running(s.daily, DailyHalt, now) THEN s.daily + DailyHalt ELSE 0,
              IF Running(s.weekly, WeeklyHalt, now) THEN s.weekly + WeeklyHalt ELSE 0,
              IF Running(s.streak, StreakHalt, now) THEN s.streak + StreakHalt ELSE 0})

Unhealthy == [rate |-> 0, cap |-> 0, until |-> NoBar, reasons |-> {"system_unhealthy"}]

\* Halts block entries; several reductions halve the size once.
EvaluateRisk(s, o) ==
    LET halts == Halts(s, o.now, o.ratio)
        reductions == Reductions(s, o.now, o.ratio)
        recovering == s.recovery # NoBar /\ ~Running(s.recovery, RecoveryHalt, o.now)
        base == IF recovering THEN RecoveryLadder(o.equity, s.peak) ELSE Ladder(o.equity, s.peak)
        part == IF reductions = {} THEN 1 ELSE 2
        slow == IF recovering /\ o.equity < s.peak THEN {"recovery"} ELSE {}
        blocked == halts # {}
    IN  IF ~o.healthy THEN Unhealthy
        ELSE [rate |-> IF blocked THEN 0 ELSE base.rate \div part, cap |-> IF blocked THEN 0 ELSE base.cap \div part,
              until |-> HaltedUntil(s, o.now, halts), reasons |-> halts \cup reductions \cup slow]

\* apply_health_recovery: the health overlay of a canonical decision.
ApplyHealthRecovery(decision, healthy, resumeReduced) ==
    IF ~healthy THEN Unhealthy
    ELSE IF ~resumeReduced \/ decision.until # NoBar \/ decision.rate = 0 \/ decision.cap = 0 THEN decision
    ELSE [decision EXCEPT !.rate = @ \div 2, !.cap = @ \div 2, !.reasons = @ \cup {"health_recovery_reduced"}]

-----------------------------------------------------------------------------
\* advance_risk_state

\* _validate_observation: a reversed bar, a trade out of order, and a repeated
\* bar with other facts are refused.
Valid(s, o) ==
    /\ s.count <= Len(o.trades)
    /\ \A k \in 1..Len(o.trades) : /\ o.trades[k].exit <= o.now
                                   /\ k > 1 => o.trades[k].exit >= o.trades[k - 1].exit
                                   /\ k > s.count => o.trades[k].exit >= s.lastAt
    /\ o.now >= s.lastAt
    /\ o.now = s.lastAt => o.equity = s.lastEquity /\ Len(o.trades) = s.count

NewTrades(s, o) == s.count + 1 .. Len(o.trades)

\* A trade that did not lose begins the count anew.
Losses(s, o) ==
    LET kept == {k \in NewTrades(s, o) : o.trades[k].pnl >= 0}
    IN  IF kept = {} THEN s.losses + Cardinality(NewTrades(s, o)) ELSE Len(o.trades) - Max(kept)
Wins(s, o) ==
    s.wins + (IF s.streak = NoBar THEN 0
              ELSE Cardinality({k \in NewTrades(s, o) : o.trades[k].pnl > 0 /\ o.trades[k].exit > s.streak}))

\* Equities are in order of time, so those of the last week are the end of them.
LastWeek(history, now) ==
    SubSeq(history, Min({k \in DOMAIN history : history[k].at >= now - Week}), Len(history))

\* Seeded fault: evaluating a bar again records it again.
RecentAgain(s, o) == LastWeek(Append(s.history, [at |-> o.now, equity |-> o.equity]), o.now)

Recent(s, o) ==
    LastWeek(IF s.lastAt # o.now THEN Append(s.history, [at |-> o.now, equity |-> o.equity]) ELSE s.history, o.now)

DayOf(now) == now \div Day

CalmCount(s, o) == IF o.barValid /\ o.ratio <= 3 THEN s.calm + 1 ELSE 0

\* What the bar adds to the facts: peak, day, window, trades, volatility.
Facts(s, o) ==
    LET newDay == s.date # NoBar /\ s.date # DayOf(o.now)
        wakes == ~s.wild /\ o.ratio > 6
    IN  [s EXCEPT !.peak = Max({@, o.equity}), !.date = DayOf(o.now),
                  !.dayBase = IF newDay THEN s.lastEquity ELSE @, !.history = Recent(s, o),
                  !.started = IF @ = NoBar THEN o.now ELSE @,
                  !.lastEquity = o.equity, !.lastAt = o.now, !.count = Len(o.trades),
                  !.losses = Losses(s, o), !.wins = Wins(s, o),
                  !.wild = @ \/ wakes,
                  !.calm = CASE wakes -> 0
                             [] s.wild /\ s.lastAt # o.now -> CalmCount(s, o)
                             [] OTHER -> @]

\* The events that begin with this bar; one that is still on keeps its start.
Triggered(s, o) ==
    LET start(old, trigger) == IF trigger /\ old = NoBar THEN o.now ELSE old
    IN  [s EXCEPT !.recovery = start(@, LossAtLeast(o.equity, s.peak, HardDrawdown)),
                  !.daily = start(@, LossAtLeast(o.equity, s.dayBase, DailyLossLimit)),
                  !.weekly = start(@, LossAtLeast(o.equity, WeekBase(s), WeeklyHaltLimit)),
                  !.streak = start(@, s.losses >= LossesHalt),
                  !.wins = IF s.losses >= LossesHalt /\ s.streak = NoBar THEN 0 ELSE @]

\* Seeded fault: a recovery is over as soon as the drawdown is.
ClearedEarly(s, o) == [s EXCEPT !.recovery = IF o.equity >= s.peak THEN NoBar ELSE @]

\* Events whose time is served and whose trigger is gone are forgotten.
Cleared(s, o) ==
    LET served(startAt, length) == startAt # NoBar /\ o.now >= startAt + length
        streakOver == served(s.streak, StreakHalt) /\ s.wins >= WinsClear
        calmed == s.wild /\ o.barValid /\ o.ratio <= 3 /\ s.calm >= CalmBars
    IN  [s EXCEPT !.recovery = IF served(@, RecoveryHalt) /\ o.equity >= s.peak THEN NoBar ELSE @,
                  !.daily = IF served(@, DailyHalt) /\ ~LossAtLeast(o.equity, s.dayBase, DailyLossLimit) THEN NoBar ELSE @,
                  !.weekly = IF served(@, WeeklyHalt) /\ ~LossAtLeast(o.equity, WeekBase(s), WeeklyHaltLimit) THEN NoBar ELSE @,
                  !.streak = IF streakOver THEN NoBar ELSE @,
                  !.wins = IF streakOver THEN 0 ELSE @,
                  !.wild = @ /\ ~calmed,
                  !.calm = IF calmed THEN 0 ELSE @]

AdvanceRiskState(s, o) ==
    LET now == Triggered(Facts(s, o), o)
    IN  [Cleared(now, o) EXCEPT !.decision = EvaluateRisk(now, o)]

InitialRisk ==
    [initial |-> Initial, peak |-> Initial, date |-> NoBar, dayBase |-> Initial, history |-> <<>>,
     started |-> NoBar, lastEquity |-> Initial, lastAt |-> NoBar, losses |-> 0, count |-> 0,
     recovery |-> NoBar, daily |-> NoBar, weekly |-> NoBar, streak |-> NoBar, wins |-> 0,
     wild |-> FALSE, calm |-> 0,
     decision |-> [rate |-> 32, cap |-> 280, until |-> NoBar, reasons |-> {}]]

-----------------------------------------------------------------------------
\* The loop

RiskInit ==
    /\ risk = InitialRisk
    /\ last = [now |-> NoBar, equity |-> Initial, trades |-> <<>>, ratio |-> 0, barValid |-> TRUE, healthy |-> TRUE]
    /\ trades = <<>>
    /\ position = NoEntry
    /\ event = [drawdown |-> NoBar, below |-> FALSE, daily |-> NoBar, day |-> NoBar,
                streak |-> NoBar, wins |-> 0, wild |-> FALSE, calm |-> 0]

\* What happened, kept apart from how the policy remembers it: when the equity
\* last fell 15% below its peak, when a UTC day lost 4% and the day before had not,
\* when five losses in a row first met no streak restriction and how many wins
\* followed, and how many calm bars followed a volatility shock.
Witness(e, o, s, pnl) ==
    LET falls == LossAtLeast(o.equity, s.peak, HardDrawdown)
        loses == LossAtLeast(o.equity, s.dayBase, DailyLossLimit) /\ e.day # DayOf(o.now)
        strikes == s.losses >= LossesHalt /\ pnl < 0 /\ (e.streak = NoBar \/ e.wins >= WinsClear)
        calm == o.barValid /\ o.ratio <= 3
    IN  [drawdown |-> IF falls /\ ~e.below THEN o.now ELSE e.drawdown,
         below |-> (e.below \/ falls) /\ o.equity < s.peak,
         daily |-> IF loses /\ (e.day = NoBar \/ e.day # DayOf(o.now) - 1) THEN o.now ELSE e.daily,
         day |-> IF loses THEN DayOf(o.now) ELSE e.day,
         streak |-> IF strikes THEN o.now ELSE e.streak,
         wins |-> IF strikes THEN 0 ELSE IF pnl > 0 THEN e.wins + 1 ELSE e.wins,
         wild |-> o.ratio > 6 \/ (e.wild /\ ~(calm /\ e.calm + 1 >= CalmBars)),
         calm |-> IF calm THEN e.calm + 1 ELSE 0]

ForcedExit(decision) == decision.reasons \cap {"drawdown_halt", "system_unhealthy"} # {}

\* A bar completes: the position is marked and perhaps closed, the policy
\* advances, and an entry may follow what it decides.
Bar ==
    /\ risk.lastAt < MaxBar
    /\ \E equity \in IF position = NoEntry THEN {risk.lastEquity} ELSE Levels,
          ratio \in Ratios, barValid, healthy, close, enter \in BOOLEAN :
          LET pnl == IF close THEN equity - position ELSE 0
              sold == IF close THEN Append(trades, [pnl |-> pnl, exit |-> risk.lastAt + 1]) ELSE trades
              o == [now |-> risk.lastAt + 1, equity |-> equity, trades |-> sold,
                    ratio |-> ratio, barValid |-> barValid, healthy |-> healthy]
              next == AdvanceRiskState(risk, o)
          IN  /\ close => position # NoEntry
              /\ position # NoEntry /\ ForcedExit(risk.decision) => close
              /\ Valid(risk, o)
              /\ risk' = next /\ last' = o /\ trades' = sold
              /\ position' = IF position # NoEntry /\ ~close THEN position
                             ELSE IF enter /\ ApplyHealthRecovery(next.decision, healthy, TRUE).rate > 0 THEN equity
                             ELSE NoEntry
              /\ event' = Witness(event, o, next, pnl)

\* The same bar is evaluated again, perhaps with other health.
Followup ==
    /\ risk.lastAt # NoBar
    /\ \E healthy \in BOOLEAN :
          LET o == [last EXCEPT !.healthy = healthy]
          IN  /\ Valid(risk, o)
              /\ risk' = AdvanceRiskState(risk, o)
              /\ last' = o
    /\ UNCHANGED <<trades, position, event>>

RiskNext == Bar \/ Followup
RiskSpec == RiskInit /\ [][RiskNext]_riskVars

-----------------------------------------------------------------------------
\* Properties

Decisions ==
    [rate : 0..32, cap : 0..280, until : Nat \cup {NoBar},
     reasons : SUBSET {"drawdown_halt", "daily_loss_halt", "weekly_loss_halt", "loss_streak_halt", "volatility_halt",
                       "daily_loss_reduced", "weekly_loss_reduced", "loss_streak_reduced", "volatility_reduced",
                       "recovery", "system_unhealthy"}]

\* The types of the variables.
RiskTypeOK ==
    /\ {risk.recovery, risk.daily, risk.weekly, risk.streak, risk.lastAt, risk.date, risk.started} \subseteq Nat \cup {NoBar}
    /\ {risk.losses, risk.count, risk.wins, risk.calm, risk.peak, risk.dayBase, risk.lastEquity} \subseteq Nat
    /\ risk.wild \in BOOLEAN
    /\ risk.decision \in Decisions
    /\ risk.history \in Seq([at : Nat, equity : Nat])
    /\ trades \in Seq([pnl : Int, exit : Nat])
    /\ position \in {NoEntry} \cup Levels \cup {Initial}

Now == risk.lastAt
Blocked == risk.decision.rate = 0

\* However the events overlap, no entry is allowed within the cooling time of a
\* 15% drawdown, of a losing streak or of a day that lost 4%, after a volatility
\* shock before the calm bars have passed, and after a streak none above half size
\* before its wins (advance_risk_state keeps the start of every event until it is
\* served).  The second of two losing days is the exception: the event of the first
\* is still on, and its time is not counted anew.
HaltsServed ==
    /\ event.drawdown # NoBar /\ Now < event.drawdown + RecoveryHalt => Blocked
    /\ event.daily # NoBar /\ Now < event.daily + DailyHalt => Blocked
    /\ event.streak # NoBar /\ Now < event.streak + StreakHalt => Blocked
    /\ event.streak # NoBar /\ event.wins < WinsClear => risk.decision.rate <= 16
    /\ event.wild => Blocked

\* Nothing blocks entries for good: a blocked decision names a timer that is
\* still running, a volatility halt, or an unhealthy system, so a drawdown that
\* remains after its cooling time resumes at reduced size.
BlockExplained ==
    Blocked => \/ "system_unhealthy" \in risk.decision.reasons
               \/ "volatility_halt" \in risk.decision.reasons
               \/ risk.decision.until > Now

\* Entries are blocked as long as the policy demands and no longer, however its
\* events overlap, are triggered again and are cleared (advance_risk_state).
HaltsExact == RiskTypeOK /\ HaltsServed /\ BlockExplained

\* Evaluating a bar again, after a restart or with other health, changes nothing
\* but the health of the decision (advance_risk_state: same-bar calls may change
\* health only).
FollowupStable ==
    risk.lastAt # NoBar =>
        \A healthy \in BOOLEAN :
            LET again == AdvanceRiskState(risk, [last EXCEPT !.healthy = healthy])
            IN  /\ [again EXCEPT !.decision = risk.decision] = risk
                /\ healthy = last.healthy => again = risk
=============================================================================
