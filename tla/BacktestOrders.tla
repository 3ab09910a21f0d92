--------------------------- MODULE BacktestOrders ---------------------------
(***************************************************************************)
(* One backtest: the event broker (execution/backtest_broker.py) and the   *)
(* strategy adapter (backtest/engine.py) over Backtrader, bar by bar, and  *)
(* the walk-forward runner's acceptance of the result                      *)
(* (validation/runner.py).                                                 *)
(*                                                                         *)
(* In every bar the broker matches orders, the clones of orders it queued  *)
(* are delivered to notify_order, and the strategy's next decides.  A      *)
(* clone is a snapshot; one queued after the broker's turn arrives a bar   *)
(* later, although the order was also delivered directly.  Prices are left *)
(* to chance: whether a stop is touched, what the risk cap allows, whether *)
(* cash suffices, and what the strategy decides.  Backtrader itself is     *)
(* external and modelled from how its hooks are used.                      *)
(***************************************************************************)
EXTENDS Integers, Sequences, SequencesExt, FiniteSets

CONSTANTS
    Bars,            \* bound: bars of the frame
    Gaps,            \* bars before which the data may have a gap
    EntrySize,       \* units an entry asks for
    Caps,            \* units the execution-time risk cap may allow
    EntryHalves,     \* entry_fill_fraction: TRUE for one half, FALSE for one
    ExitHalves,      \* exit_fill_fraction, likewise
    Liquidations     \* force_liquidate_at_end

ASSUME BacktestAssumption ==
    /\ Bars \in Nat \ {0} /\ Gaps \subseteq 1..Bars
    /\ EntrySize \in Nat \ {0} /\ EntrySize % 4 = 0
    /\ Caps \subseteq Nat /\ \A c \in Caps : c % 2 = 0
    /\ EntryHalves \subseteq BOOLEAN /\ ExitHalves \subseteq BOOLEAN /\ Liquidations \subseteq BOOLEAN

VARIABLES
    bar,    \* len(data)
    phase,  \* whose turn it is in the bar
    w       \* the broker's and the strategy's fields

vars == <<bar, phase, w>>

Alive == {"Created", "Submitted", "Accepted", "Partial"}
Dead == {"Completed", "Canceled", "Margin", "Rejected"}

\* Order 0 is None.
Start(halfEntry, halfExit) ==
    [halfEntry |-> halfEntry, halfExit |-> halfExit,
     \* broker: orders in order of creation, its queues and the position
     orders |-> <<>>, submitted |-> <<>>, pending |-> <<>>, notifs |-> <<>>, pos |-> 0,
     \* strategy: its orders, what it tracks of a position, its flags
     inbox |-> <<>>, entry |-> 0, exit |-> 0, stop |-> 0,
     level |-> FALSE, signal |-> FALSE, entered |-> FALSE,
     entryPart |-> FALSE, exitPart |-> FALSE, gap |-> FALSE,
     \* its evidence, and the exception that ended the run
     seen |-> <<>>, bought |-> <<>>, sold |-> <<>>, trades |-> <<>>,
     records |-> <<>>, points |-> <<>>, forced |-> FALSE, error |-> "none"]

Sum(fills) == FoldLeft(LAMBDA total, fill : total + fill.size, 0, fills)
Rest(order) == order.size - order.filled
HasLive(s, side) == \E r \in DOMAIN s.orders : s.orders[r].side = side /\ s.orders[r].status \in Alive

-----------------------------------------------------------------------------
\* Evidence kept by the strategy

Clone(s, r) == [ref |-> r, status |-> s.orders[r].status, filled |-> s.orders[r].filled, at |-> s.orders[r].at]

\* _append_order_record: an event is known by order, status and quantity filled.
Record(s, c) ==
    IF \E i \in DOMAIN s.records :
          <<s.records[i].ref, s.records[i].status, s.records[i].filled>> = <<c.ref, c.status, c.filled>>
    THEN s ELSE [s EXCEPT !.records = Append(@, c)]

\* _capture_trade_fill, _record_completed_trade
CaptureFill(s, r, bit) ==
    LET fill == [size |-> bit.size, at |-> bit.at]
        exits == Append(s.sold, fill)
    IN  IF s.orders[r].side = "buy" THEN [s EXCEPT !.bought = Append(@, fill)]
        ELSE IF bit.left > 0 \/ Sum(s.bought) = 0 THEN [s EXCEPT !.sold = exits]
        ELSE [s EXCEPT !.bought = <<>>, !.sold = <<>>,
                       !.trades = Append(@, [size |-> Sum(s.bought), from |-> Head(s.bought).at, to |-> fill.at])]

\* Seeded fault: fills are read from every callback that shows some.
CaptureAgain(s, r) == FoldLeft(LAMBDA t, bit : CaptureFill(t, r, bit), s, s.orders[r].bits)

\* _capture_new_fills: a clone shares the list of executions with the order.
Capture(s, r) ==
    [FoldLeft(LAMBDA t, bit : CaptureFill(t, r, bit), s,
              SubSeq(s.orders[r].bits, s.seen[r] + 1, Len(s.orders[r].bits)))
     EXCEPT !.seen[r] = Len(s.orders[r].bits)]

\* self.equity_points: the point of this bar is written over.
Point(s) ==
    IF s.points # <<>> /\ Last(s.points) = bar THEN s ELSE [s EXCEPT !.points = Append(@, bar)]

-----------------------------------------------------------------------------
\* The broker's operations

Notify(s, r) == [s EXCEPT !.notifs = Append(@, Clone(s, r))]
SetStatus(s, r, status) == Notify([s EXCEPT !.orders[r].status = status], r)

\* _on_order_created: the hook records the order before the broker has it.
Create(s, side, kind, size, half) ==
    LET r == Len(s.orders) + 1
        t == [s EXCEPT !.seen = Append(@, 0),
                       !.orders = Append(@, [side |-> side, kind |-> kind, size |-> size, half |-> half,
                                             status |-> "Created", filled |-> 0, at |-> 0,
                                             tried |-> FALSE, bits |-> <<>>])]
    IN  Record(t, Clone(t, r))

Submit(s) == [SetStatus(s, Len(s.orders), "Submitted") EXCEPT !.submitted = Append(@, Len(s.orders))]
Reject(s) == SetStatus(s, Len(s.orders), "Rejected")

\* EventBacktestBroker.buy: DUPLICATE_ENTRY
Buy(s, size, half) ==
    LET t == Create(s, "buy", "market", size, half)
    IN  IF s.pos > 0 \/ HasLive(s, "buy") THEN Reject(t) ELSE Submit(t)

\* EventBacktestBroker.sell: OVERSELL, DUPLICATE_EXIT
Sell(s, kind, size, half) ==
    LET t == Create(s, "sell", kind, size, half)
    IN  IF size > s.pos \/ HasLive(s, "sell") THEN Reject(t) ELSE Submit(t)

\* submit_accept of Backtrader.
Accept(s, r) == [SetStatus(s, r, "Accepted") EXCEPT !.pending = Append(@, r)]

\* Seeded fault: only an order the broker already accepted can be cancelled.
CancelAccepted(s, r) ==
    IF Contains(s.pending, r) THEN [SetStatus(s, r, "Canceled") EXCEPT !.pending = Remove(@, r)] ELSE s

\* EventBacktestBroker.cancel: a submitted order is withdrawn too.
Cancel(s, r) ==
    IF Contains(s.submitted, r) \/ Contains(s.pending, r)
    THEN [SetStatus(s, r, "Canceled") EXCEPT !.submitted = Remove(@, r), !.pending = Remove(@, r)]
    ELSE s

\* Seeded fault: an order waiting to be matched is not withdrawn.
CancelSubmittedOnly(s, r) ==
    IF Contains(s.submitted, r)
    THEN [SetStatus(s, r, "Canceled") EXCEPT !.submitted = Remove(@, r)]
    ELSE s

\* cancel_end_of_data: whatever queue it is in, or none.
CancelEndOfData(s, r) ==
    IF s.orders[r].status \in Alive
    THEN [SetStatus(s, r, "Canceled") EXCEPT !.submitted = Remove(@, r), !.pending = Remove(@, r)]
    ELSE s

\* Order.execute of Backtrader.
Execute(s, r, q) ==
    LET buy == s.orders[r].side = "buy"
        left == IF buy THEN s.pos + q ELSE s.pos - q
    IN  SetStatus([s EXCEPT !.pos = left,
                            !.orders[r].filled = @ + q,
                            !.orders[r].at = bar,
                            !.orders[r].bits = Append(@, [size |-> q, left |-> left, at |-> bar])],
                  r, IF q = Rest(s.orders[r]) THEN "Completed" ELSE "Partial")

\* OneShotFractionalFiller: the fraction once per order, an entry capped by risk.
Fill(s, r, cap) ==
    LET order == s.orders[r]
        t == [s EXCEPT !.orders[r].tried = TRUE]
        asked == IF order.half THEN Rest(order) \div 2 ELSE Rest(order)
        safe == IF order.side = "buy" /\ cap < asked THEN cap ELSE asked
    IN  IF order.tried THEN Execute(s, r, Rest(order))
        ELSE IF safe = 0 THEN SetStatus(t, r, "Rejected")
        ELSE Execute(t, r, safe)

-----------------------------------------------------------------------------
\* notify_order

ResetTracking(s) == [s EXCEPT !.level = FALSE, !.signal = FALSE, !.entered = FALSE]

\* An exit or a stop.  A late clone of a finished exit may meet a newer position.
NotifySell(s, c) ==
    LET t == Record(Capture(s, c.ref), c)
        u == [t EXCEPT !.stop = IF c.ref = @ /\ c.status \in Dead THEN 0 ELSE @,
                       !.exit = IF c.ref = @ /\ c.status \in Dead THEN 0 ELSE @,
                       !.exitPart = @ \/ (c.status = "Partial" /\ c.ref \in {t.exit, t.stop})]
    IN  IF c.status = "Completed" /\ s.pos = 0 THEN ResetTracking(u) ELSE u

\* The hook for same-bar executions: notify_order is called with the order itself.
Direct(s, r) == NotifySell(s, Clone(s, r))

\* reconcile_same_bar_stop
ReconcileSameBarStop(s, r) ==
    IF ~Contains(s.submitted, r) THEN s
    ELSE LET t == Direct([s EXCEPT !.submitted = Remove(@, r)], r)
             u == Direct(Accept(t, r), r)
             v == Direct(Fill([u EXCEPT !.pending = Remove(@, r)], r, 0), r)
         IN  IF v.orders[r].status \in Alive THEN [v EXCEPT !.pending = Append(@, r)] ELSE v

\* settle_immediate_market_order
SettleImmediate(s, r) ==
    LET t == Direct([s EXCEPT !.submitted = Remove(@, r)], r)
        u == Direct(Accept(t, r), r)
    IN  Direct(Fill([u EXCEPT !.pending = Remove(@, r)], r, 0), r)

\* _submit_stop
SubmitStop(s, touched) ==
    LET t == Sell(s, "stop", s.pos, s.halfExit)
        r == Len(t.orders)
        u == [t EXCEPT !.stop = r]
    IN  IF ~(s.level /\ s.signal) THEN s
        ELSE IF touched THEN ReconcileSameBarStop(u, r)
        ELSE u

\* _apply_entry_fill
ApplyEntryFill(s, touched) == SubmitStop([s EXCEPT !.level = TRUE, !.entered = TRUE], touched)

NotifyBuy(s, c, touched) ==
    LET t == Record(Capture(s, c.ref), c)
    IN  IF c.ref # t.entry THEN t
        ELSE CASE c.status = "Completed" -> [ApplyEntryFill(t, touched) EXCEPT !.entry = 0]
               [] c.status = "Partial" -> [ApplyEntryFill(t, touched) EXCEPT !.entryPart = TRUE]
               [] c.status \in {"Canceled", "Margin", "Rejected"} -> [t EXCEPT !.entry = 0]
               [] OTHER -> t

NotifyOrder(s, c, touched) ==
    IF s.orders[c.ref].side = "buy" THEN NotifyBuy(s, c, touched) ELSE NotifySell(s, c)

-----------------------------------------------------------------------------
\* The broker's turn

\* Seeded fault: the broker's cancellation is not recorded.
RetireQuietly(s, r) == CancelEndOfData(s, r)

\* _record_native_status, cancel_end_of_data, _record_native_status
Retire(s, r) ==
    LET t == CancelEndOfData(Record(s, Clone(s, r)), r)
    IN  Record(t, Clone(t, r))

RetireAll(s) == FoldLeft(Retire, s, [r \in DOMAIN s.orders |-> r])

\* _liquidate_at_reference: raises unless the sale settles and leaves nothing open.
Liquidate(s) ==
    LET t == Sell(s, "market", s.pos, FALSE)
        r == Len(t.orders)
        u == SettleImmediate([t EXCEPT !.exit = r], r)
    IN  IF ~Contains(t.submitted, r) THEN [t EXCEPT !.exit = r, !.error = "not settled"]
        ELSE IF u.orders[r].status # "Completed" \/ u.pos # 0 \/ u.pending # <<>>
             THEN [u EXCEPT !.error = "left open"]
        ELSE Point(u)

\* _handle_gap_before_current_bar: every order is retired, the position is sold at
\* once, and nothing may be left.
RetireAtGap(s) ==
    [RetireAll(s) EXCEPT !.gap = TRUE, !.entry = 0, !.exit = 0, !.stop = 0,
                         !.entryPart = FALSE, !.exitPart = FALSE]
SettleGap(s) ==
    ResetTracking(IF s.pos > 0 THEN Liquidate(s) ELSE [s EXCEPT !.bought = <<>>, !.sold = <<>>])
LeavesNothing(s) == IF s.pos # 0 \/ s.pending # <<>> THEN [s EXCEPT !.error = "left open"] ELSE s

\* check_submitted of Backtrader: an order the cash does not cover is refused.
CheckSubmitted(s, cash) ==
    FoldLeft(LAMBDA t, r : IF t.orders[r].side = "buy" /\ ~cash THEN SetStatus(t, r, "Margin") ELSE Accept(t, r),
             [s EXCEPT !.submitted = <<>>], s.submitted)

\* Backtrader's pass over the pending orders: a market order fills at the open, a
\* stop if the bar touches it, and what is still alive waits for the next bar.
Match(s, cap, touched) ==
    FoldLeft(LAMBDA t, r :
               LET u == IF t.orders[r].kind = "market" \/ touched THEN Fill(t, r, cap) ELSE t
               IN  IF u.orders[r].status \in Alive THEN [u EXCEPT !.pending = Append(@, r)] ELSE u,
             [s EXCEPT !.pending = <<>>], s.pending)

-----------------------------------------------------------------------------
\* The strategy's turn

\* Seeded fault: what an entry did not get stays in the market.
KeepEntryRemainder(s) == [s EXCEPT !.entryPart = FALSE, !.entry = 0]

\* _cancel_entry_remainder
CancelEntryRemainder(s) ==
    [(IF s.entry # 0 /\ s.orders[s.entry].status \in Alive THEN Cancel(s, s.entry) ELSE s)
     EXCEPT !.entryPart = FALSE, !.entry = 0]

\* _reissue_exit_remainder: at market, unless no bar is left.
ReissueExitRemainder(s) ==
    LET original == IF s.exit # 0 THEN s.exit ELSE s.stop
        rest == IF Rest(s.orders[original]) < s.pos THEN Rest(s.orders[original]) ELSE s.pos
        t == [(IF s.orders[original].status \in Alive THEN Cancel(s, original) ELSE s)
              EXCEPT !.exitPart = FALSE,
                     !.stop = IF @ = original THEN 0 ELSE @,
                     !.exit = IF @ = original THEN 0 ELSE @]
        u == Sell(t, "market", rest, FALSE)
    IN  IF original = 0 THEN [s EXCEPT !.exitPart = FALSE]
        ELSE IF rest = 0 \/ bar = Bars THEN t
        ELSE [u EXCEPT !.exit = Len(u.orders)]

WithoutStop(s) == IF s.stop # 0 THEN [Cancel(s, s.stop) EXCEPT !.stop = 0] ELSE s

\* _submit_market_exit
SubmitMarketExit(s) ==
    LET t == Sell(WithoutStop(s), "market", s.pos, s.halfExit)
    IN  [t EXCEPT !.exit = Len(t.orders)]

\* _update_trailing_stop, when the candidate is above the current stop.
UpdateTrailingStop(s) ==
    LET t == Sell(WithoutStop(s), "stop", s.pos, s.halfExit)
    IN  [t EXCEPT !.stop = Len(t.orders), !.level = TRUE]

\* StrategyEngine.decide: the risk state may force an exit whatever is pending.
Decisions(s) ==
    IF s.pos > 0
    THEN {"hold", "sell"} \cup (IF s.entry = 0 /\ s.exit = 0 THEN {"raise"} ELSE {})
    ELSE {"hold"} \cup (IF s.entry = 0 /\ s.exit = 0 THEN {"buy"} ELSE {})

\* next, once a position is known to exist: float(None) raises in _position_context.
ManagePosition(s, decision) ==
    LET t == IF s.stop = 0 /\ s.exit = 0 THEN SubmitStop(s, FALSE) ELSE s
    IN  IF ~(s.level /\ s.entered) THEN [s EXCEPT !.error = "not tracked"]
        ELSE CASE decision = "sell" /\ t.exit = 0 -> SubmitMarketExit(CancelEntryRemainder(t))
               [] decision = "raise" /\ t.exit = 0 -> UpdateTrailingStop(t)
               [] OTHER -> t

OpenPosition(s) ==
    LET t == Buy([s EXCEPT !.level = TRUE, !.signal = TRUE], EntrySize, s.halfEntry)
    IN  [t EXCEPT !.entry = Len(t.orders)]

Act(s, decision) ==
    IF s.pos > 0 THEN ManagePosition(s, decision)
    ELSE IF decision = "buy" THEN OpenPosition(s)
    ELSE s

-----------------------------------------------------------------------------
Init ==
    /\ bar = 1 /\ phase = "broker"
    /\ \E halfEntry \in EntryHalves, halfExit \in ExitHalves : w = Start(halfEntry, halfExit)

\* EventBacktestBroker.next, and Cerebro collecting the broker's notifications.
BrokerNext ==
    /\ phase = "broker" /\ w.error = "none"
    /\ \E r \in {w} \cup (IF bar \in Gaps THEN {RetireAtGap(w)} ELSE {}) :
       \E s \in {IF r.gap THEN SettleGap(r) ELSE r} :
       \E t \in {CheckSubmitted(IF r.gap THEN LeavesNothing(s) ELSE s, cash) : cash \in BOOLEAN} :
       \E u \in {Match(t, cap, touched) : cap \in Caps, touched \in BOOLEAN} :
           w' = [u EXCEPT !.inbox = u.notifs, !.notifs = <<>>]
    /\ phase' = "strategy"
    /\ UNCHANGED bar

\* One queued clone reaches notify_order.
Deliver ==
    /\ phase = "strategy" /\ w.inbox # <<>> /\ w.error = "none"
    /\ \E touched \in BOOLEAN : w' = NotifyOrder([w EXCEPT !.inbox = Tail(@)], Head(w.inbox), touched)
    /\ UNCHANGED <<bar, phase>>

\* _DonchianBacktestStrategy.next
StrategyNext ==
    /\ phase = "strategy" /\ w.inbox = <<>> /\ w.error = "none"
    /\ \E s \in {Point(w)} : \E t \in {IF s.entryPart THEN CancelEntryRemainder(s) ELSE s} :
        IF s.gap THEN w' = [s EXCEPT !.gap = FALSE]
        ELSE IF t.exitPart THEN w' = ReissueExitRemainder(t)
        ELSE \E decision \in Decisions(t) : w' = Act(t, decision)
    /\ IF bar = Bars THEN phase' = "stop" /\ UNCHANGED bar ELSE phase' = "broker" /\ bar' = bar + 1

\* _DonchianBacktestStrategy.stop
Stop ==
    /\ phase = "stop" /\ w.error = "none"
    /\ \E force \in Liquidations :
         LET s == [RetireAll(w) EXCEPT !.forced = force]
         IN  w' = IF force /\ s.pos > 0 THEN Liquidate(s) ELSE s
    /\ phase' = "end"
    /\ UNCHANGED bar

Next == BrokerNext \/ Deliver \/ StrategyNext \/ Stop
Spec == Init /\ [][Next]_vars

-----------------------------------------------------------------------------
\* Acceptance of a result: validation/runner.py

Lifecycle(r) == SelectSeq(w.records, LAMBDA c : c.ref = r)

Successors(status) ==
    CASE status = "Created" -> {"Submitted", "Rejected", "Canceled"}
      [] status = "Submitted" -> {"Accepted"} \cup Dead
      [] status = "Accepted" -> {"Partial"} \cup Dead
      [] status = "Partial" -> {"Partial"} \cup Dead
      [] OTHER -> {}

\* _validate_order_lifecycle
LifecycleValid(r) ==
    LET l == Lifecycle(r)
    IN  /\ Head(l).status = "Created" /\ Head(l).filled = 0
        /\ \A i \in 2..Len(l) :
              LET delta == l[i].filled - l[i - 1].filled
              IN  /\ l[i].status \in Successors(l[i - 1].status)
                  /\ delta >= 0
                  /\ l[i].status \notin {"Partial", "Completed"} => delta = 0
                  /\ l[i].status = "Partial" => delta > 0 /\ l[i].filled < w.orders[r].size
                  /\ l[i].status = "Completed" => delta > 0 /\ l[i].filled = w.orders[r].size
        /\ Last(l).status \in Dead

\* _validate_orders: the fill a record adds to its order's last one.
FillOf(i) ==
    LET earlier == {j \in 1..i - 1 : w.records[j].ref = w.records[i].ref}
        before == IF earlier = {} THEN 0 ELSE w.records[CHOOSE j \in earlier : \A k \in earlier : k <= j].filled
    IN  [side |-> w.orders[w.records[i].ref].side, size |-> w.records[i].filled - before, at |-> w.records[i].at]

Fills == SelectSeq([i \in DOMAIN w.records |-> FillOf(i)], LAMBDA f : f.size > 0)

Inventory(fills) == FoldLeft(LAMBDA n, f : IF f.side = "buy" THEN n + f.size ELSE n - f.size, 0, fills)

\* _reconstruct_closed_trade_cycles
Cycles(fills) ==
    FoldLeft(LAMBDA a, f :
               IF f.side = "buy"
               THEN [a EXCEPT !.held = @ + f.size, !.size = @ + f.size, !.from = IF a.held = 0 THEN f.at ELSE @]
               ELSE IF f.size < a.held THEN [a EXCEPT !.held = @ - f.size]
               ELSE [a EXCEPT !.held = @ - f.size, !.size = 0,
                              !.closed = Append(@, [size |-> a.size, from |-> a.from, to |-> f.at])],
             [held |-> 0, size |-> 0, from |-> 0, closed |-> <<>>], fills)

\* _validate_trades
TradesValid ==
    LET cycles == Cycles(Fills)
    IN  /\ cycles.held = 0
        /\ w.trades = cycles.closed
        /\ \A i \in DOMAIN w.trades : i > 1 => w.trades[i].from >= w.trades[i - 1].to

\* _validate_backtest_result, as far as it is about these orders
Accepted(orders) ==
    /\ \A i \in 2..Len(w.points) : w.points[i - 1] < w.points[i]
    /\ \A r \in orders : LifecycleValid(r)
    /\ \A i \in DOMAIN Fills : Inventory(SubSeq(Fills, 1, i)) >= 0
    /\ TradesValid

-----------------------------------------------------------------------------
\* Properties

\* The position and the queues stay within what one entry can hold.
TypeOK ==
    /\ bar \in 1..Bars /\ phase \in {"broker", "strategy", "stop", "end"}
    /\ w.pos \in 0..EntrySize
    /\ {w.entry, w.exit, w.stop} \subseteq 0..Len(w.orders)
    /\ \A r \in DOMAIN w.orders : w.orders[r].status \in Alive \cup Dead /\ Rest(w.orders[r]) >= 0

\* Between two bars a position is covered by exactly one live sell order for all
\* of it: partial fills, trailing stops, same-bar stops and late callbacks never
\* leave it bare (next, notify_order, EventBacktestBroker.cancel).
Protected ==
    phase = "broker" /\ w.error = "none" /\ w.pos > 0 =>
        \E r \in DOMAIN w.orders :
            /\ w.orders[r].side = "sell" /\ w.orders[r].status \in Alive /\ Rest(w.orders[r]) = w.pos
            /\ r \in {w.stop, w.exit}
            /\ \A q \in DOMAIN w.orders \ {r} : w.orders[q].status \notin Alive

\* No run ends in an exception: a data gap and the end of the data can always be
\* settled, and a position always has the entry and the stop that next reads.
NeverRaises == w.error = "none"

\* The ledger is the position: once the callbacks of a bar are in, the recorded
\* fills and the fills kept for the open trade both add up to what is held.
LedgerIsPosition ==
    phase \in {"broker", "end"} /\ w.error = "none" =>
        Inventory(Fills) = w.pos /\ Sum(w.bought) - Sum(w.sold) = w.pos

\* An order is filled once: what the fraction or the risk cap left over is
\* withdrawn before the broker can match it again (OneShotFractionalFiller).
FilledOnce == \A r \in DOMAIN w.orders : Len(w.orders[r].bits) <= 1

\* The adapter's books are sound whatever order the callbacks arrive in: they add
\* up to the position, and no order is filled a second time (notify_order).
LedgerSound == TypeOK /\ LedgerIsPosition /\ FilledOnce

\* Withdrawn in the bar that submitted it, and cancelled at a data gap before the
\* clone of its submission arrived: the record ends with that clone.
Late(r) == [i \in DOMAIN Lifecycle(r) |-> Lifecycle(r)[i].status] = <<"Created", "Canceled", "Submitted">>

\* The walk-forward runner accepts every result of a run that liquidates at the
\* end, whatever its data gaps: every lifecycle is legal and final, and the trades
\* are the cycles that the recorded fills go through from flat to flat.  Late clones
\* after a gap are the one exception.
ResultAccepted == phase = "end" /\ w.forced => Accepted({r \in DOMAIN w.orders : ~Late(r)})
=============================================================================
