----------------------------- MODULE LiveOrders -----------------------------
(***************************************************************************)
(* The live order path: LiveService (live/service.py) with its durable     *)
(* LiveJournal (live/journal.py) against the venue it reaches through      *)
(* LiveClient (live/client.py).  This release locks the path: guard.py     *)
(* raises in every entry point.  The module models it with the guard       *)
(* lifted, the way tests/integration/test_locked_live_service.py runs it.  *)
(*                                                                         *)
(* One process owns the journal (its sidecar lock lasts as long as the     *)
(* process).  A call samples its clock once, reconciles the pending        *)
(* intent with the venue, and may then submit one order.  Every request    *)
(* is a step of its own: the venue fills and closes orders between any two *)
(* steps, answers are lost, a POST that timed out may arrive late or       *)
(* never, and the process may crash anywhere; what it saved stays.         *)
(*                                                                         *)
(* Abstractions.  Money and prices are numbers; an average entry, a fee    *)
(* and the sold share of a cost basis are rounded down.  A fill is one     *)
(* unit of BTC, and a price is above one, so that a stop below the entry   *)
(* is positive, as the journal demands.  An identifier is the position of  *)
(* its intent in the journal.  The fingerprint of a candle is the candle.  *)
(* The numbers of the risk policy are one Verdict (RiskState.tla), the     *)
(* size of an entry is any number of units, and of health only             *)
(* halt_entries is kept: it is TRUE after a check that failed, and         *)
(* otherwise whatever HealthMonitor.tla makes it.                          *)
(***************************************************************************)
EXTENDS Integers, Sequences, FiniteSets, FiniteSetsExt, SequencesExt

CONSTANTS
    Cash,         \* KRW in the account when the journal is created
    Prices,       \* prices a unit of BTC may trade at
    FeeShare,     \* the venue's fee is one part in FeeShare of the funds
    MinTotal,     \* smallest total the venue accepts
    MaxUnits,     \* bound: units of BTC one order may ask for
    BarLength,    \* clock ticks in a candle
    Rows,         \* what a candle may say: close, high, signal
    MaxTime,      \* bound: last tick of the clock
    MaxOrders,    \* bound: intents ever written
    MaxFaults     \* bound: lost answers, late POSTs, crashes

ASSUME LiveAssumption ==
    /\ {Cash, MinTotal, MaxTime, MaxOrders, MaxFaults} \subseteq Nat
    /\ {MaxUnits, BarLength, FeeShare} \subseteq Nat \ {0}
    /\ Prices \subseteq Nat \ {0, 1}
    /\ Rows \subseteq [close : Prices, high : Prices, signal : {"enter", "exit", "none"}]

VARIABLES
    clock,        \* the process clock, also the venue's
    orders,       \* venue: what it knows of each identifier
    inflight,     \* venue: POSTs that timed out and may still arrive
    krw, btc,     \* venue: the account, locked amounts included
    state,        \* journal: the live_state row
    halted,       \* journal: HealthAction.halt_entries of the stored snapshot
    intents,      \* journal: the live_intents rows, oldest first
    pc,           \* where the running call is
    call,         \* what the running call has sampled and read
    posts,        \* observation: POSTs sent for each identifier
    faults        \* observation: faults so far

venue == <<orders, inflight, krw, btc>>
journal == <<state, halted, intents>>
vars == <<clock, venue, journal, pc, call, posts, faults>>

Nil == [none |-> TRUE]
Id == 1..MaxOrders
NoTime == -1
Absent == [known |-> FALSE]
Unread == [known |-> FALSE]
NoCall == [kind |-> "none", at |-> 0]
NoPlan == [action |-> "hold", price |-> 0, size |-> 0, bar |-> NoTime]

End(bar) == (bar + 1) * BarLength
Start(bar) == bar * BarLength

\* LiveJournal.pending: the unresolved intent, of which there is at most one.
Pending == {i \in DOMAIN intents : ~intents[i].terminal}
PendingId == CHOOSE i \in Pending : TRUE

-----------------------------------------------------------------------------
\* The venue (external)

Open == {i \in Id : orders[i].known /\ orders[i].state = "wait"}
Exists(i) == orders[i].known

NewOrder(i) ==
    [known |-> TRUE, side |-> intents[i].side, amount |-> intents[i].amount, state |-> "wait",
     qty |-> 0, funds |-> 0, fee |-> 0, due |-> 0, created |-> clock, first |-> NoTime, last |-> NoTime]

\* The fee of a unit that trades at p.
Fee(p) == p \div FeeShare

\* A unit trades at price p; its fee is posted with it or later.
Fill(i, p, feeNow) ==
    LET o == orders[i]
        paid == IF feeNow THEN Fee(p) ELSE 0
    IN  /\ i \in Open
        /\ IF o.side = "bid" THEN o.funds + p <= o.amount ELSE o.qty < o.amount
        /\ orders' = [orders EXCEPT ![i] =
               [o EXCEPT !.qty = @ + 1, !.funds = @ + p, !.fee = @ + paid, !.due = @ + Fee(p) - paid,
                         !.first = IF @ = NoTime THEN clock ELSE @, !.last = clock]]
        /\ krw' = krw - paid + (IF o.side = "bid" THEN -p ELSE p)
        /\ btc' = btc + (IF o.side = "bid" THEN 1 ELSE -1)
        /\ UNCHANGED <<clock, inflight, journal, pc, call, posts, faults>>

PostFee(i) ==
    /\ i \in Open /\ orders[i].due > 0
    /\ orders' = [orders EXCEPT ![i] = [orders[i] EXCEPT !.fee = @ + orders[i].due, !.due = 0]]
    /\ krw' = krw - orders[i].due
    /\ UNCHANGED <<clock, inflight, btc, journal, pc, call, posts, faults>>

\* The venue closes an order, filled or not.
Finish(i) ==
    /\ i \in Open /\ orders[i].due = 0
    /\ orders' = [orders EXCEPT ![i].state = "done"]
    /\ UNCHANGED <<clock, inflight, krw, btc, journal, pc, call, posts, faults>>

\* A POST whose caller gave up arrives after all, or is dropped.
Arrive(i) ==
    /\ i \in inflight
    /\ inflight' = inflight \ {i}
    /\ \/ orders' = [orders EXCEPT ![i] = NewOrder(i)]
       \/ UNCHANGED orders
    /\ UNCHANGED <<clock, krw, btc, journal, pc, call, posts, faults>>

Tick ==
    /\ clock < MaxTime
    /\ clock' = clock + 1
    /\ UNCHANGED <<venue, journal, pc, call, posts, faults>>

\* What accounts() and the accounts of order_chance() report.
Accounts == [known |-> TRUE, krw |-> krw, btc |-> btc, locked |-> Open]

-----------------------------------------------------------------------------
\* Reconciliation: _apply_order

Flat == [qty |-> 0]
Holding == state.position.qty > 0
InitialStop(entry) == entry - 1

\* Seeded fault: facts that add nothing are refused.
AcceptsProgress(i, o, at) == o.created <= at /\ o.last <= at /\ o.qty > intents[i].qty

\* The checks of _apply_order: o continues the facts the intent has recorded.
Accepts(i, o, at) ==
    LET r == intents[i]
        quantity == o.qty - r.qty
        funds == o.funds - r.funds
    IN  /\ o.side = r.side /\ o.amount = r.amount
        /\ o.created >= r.created /\ o.created <= at
        /\ quantity >= 0 /\ funds >= 0 /\ o.fee >= r.fee
        /\ quantity = 0 => funds = 0
        /\ quantity > 0 => funds > 0 /\ o.last # NoTime
        /\ o.last <= at
        /\ o.side = "bid" => /\ quantity > 0 => o.created <= o.first /\ o.first <= o.last
                             /\ o.funds <= r.amount
                             /\ state.cash >= funds + o.fee - r.fee
        /\ o.side = "ask" => /\ quantity > 0 => quantity <= state.position.qty /\ o.qty <= r.amount
                             /\ state.cash + funds >= o.fee - r.fee

\* Seeded fault: cumulative facts are booked again at every look.
Recount(o, r) == [qty |-> o.qty, funds |-> o.funds, fee |-> o.fee]

\* What has happened since the intent was last saved.
Increment(o, r) == [qty |-> o.qty - r.qty, funds |-> o.funds - r.funds, fee |-> o.fee - r.fee]

\* The stop of a position whose average entry moved.
RaisedStop(stop, entry) == Max({stop, InitialStop(entry)})

\* Seeded fault: high water is not raised.
StaleHigh(high, price) == high

RaisedHigh(high, price) == Max({high, price})

\* The position after further units were bought.
Bought(pos, o, inc) ==
    IF pos.qty = 0
    THEN LET entry == inc.funds \div inc.qty
         IN  [qty |-> inc.qty, entry |-> entry, initial |-> InitialStop(entry), stop |-> InitialStop(entry),
              high |-> entry, entryAt |-> o.first, basis |-> inc.funds + inc.fee, realized |-> 0,
              next |-> 0, nextAt |-> NoTime, seen |-> Nil]
    ELSE LET entry == o.funds \div o.qty
         IN  [pos EXCEPT !.qty = @ + inc.qty, !.entry = entry, !.initial = InitialStop(entry),
                         !.stop = RaisedStop(@, entry), !.high = RaisedHigh(@, entry),
                         !.basis = @ + inc.funds + inc.fee]

\* The share of the cost basis that the sold units carry.
SoldBasis(pos, inc) == (pos.basis * inc.qty) \div pos.qty

\* Seeded fault: a fee that arrives after the last unit was sold is not charged to the trade.
KeepTrade(trades, fee) == trades

\* A late fee of a closed trade corrects its result.
ChargeTrade(trades, fee) ==
    IF trades = <<>> THEN trades ELSE [trades EXCEPT ![Len(trades)].pnl = @ - fee]

\* A buy opens or enlarges the position.
Buy(s, o, inc) == [s EXCEPT !.cash = @ - inc.funds - inc.fee, !.position = Bought(s.position, o, inc)]

\* A fee of a buy without units belongs to the cost of the position.
BuyFee(s, inc) ==
    [s EXCEPT !.cash = @ - inc.fee,
              !.position = IF s.position.qty = 0 THEN s.position ELSE [s.position EXCEPT !.basis = @ + inc.fee]]

\* A sell shrinks or closes the position.
Sell(s, o, inc) ==
    LET pos == s.position
        pnl == pos.realized + inc.funds - inc.fee - SoldBasis(pos, inc)
    IN  [s EXCEPT !.cash = @ + inc.funds - inc.fee,
                  !.trades = IF inc.qty = pos.qty THEN Append(s.trades, [pnl |-> pnl, exit |-> o.last]) ELSE s.trades,
                  !.position = IF inc.qty = pos.qty THEN Flat
                               ELSE [pos EXCEPT !.qty = @ - inc.qty, !.basis = @ - SoldBasis(pos, inc),
                                                !.realized = pnl]]

\* A fee of a sell without units belongs to what the position realised, or to
\* the trade that is already closed.
SellFee(s, inc) ==
    [s EXCEPT !.cash = @ - inc.fee, !.position = [s.position EXCEPT !.realized = @ - inc.fee]]
ClosedFee(s, inc) == [s EXCEPT !.cash = @ - inc.fee, !.trades = ChargeTrade(s.trades, inc.fee)]

\* The state _apply_order saves.
Apply(s, o, inc) ==
    CASE o.side = "bid" /\ inc.qty > 0 -> Buy(s, o, inc)
      [] o.side = "bid" /\ inc.qty = 0 -> BuyFee(s, inc)
      [] o.side = "ask" /\ inc.qty > 0 -> Sell(s, o, inc)
      [] o.side = "ask" /\ inc.qty = 0 /\ s.position.qty > 0 -> SellFee(s, inc)
      [] o.side = "ask" /\ inc.qty = 0 /\ s.position.qty = 0 -> ClosedFee(s, inc)

Recorded(r, o) ==
    [r EXCEPT !.qty = o.qty, !.funds = o.funds, !.fee = o.fee, !.terminal = o.state # "wait"]

ApplyOrder(i, cancelling) ==
    /\ state' = Apply(state, orders[i], Increment(orders[i], intents[i]))
    /\ intents' = [intents EXCEPT ![i] = [Recorded(intents[i], orders[i]) EXCEPT !.cancel = @ \/ cancelling]]

\* A buy that filled in part and is still open: its remainder is cancelled.
PartialBuy(o) == o.state = "wait" /\ o.side = "bid" /\ o.qty > 0

-----------------------------------------------------------------------------
\* Health: what the monitor makes of the checks of one step

HaltAfter(failed) == halted' \in (IF failed THEN {TRUE} ELSE BOOLEAN)

\* The call goes on at a step with what it has read, or ends and forgets it.
Goto(step, read) == pc' = step /\ call' = IF step = "idle" THEN NoCall ELSE read

\* Where a call continues once reconciliation is over.
After(kind) == CASE kind = "candle" -> "candle" [] kind = "price" -> "price" [] OTHER -> "idle"

\* _failure: the API failure is recorded and the call goes on without balances;
\* or saving the snapshot raises (LoadRefused of HealthMonitor) and it ends.
Failure(responseError) ==
    /\ UNCHANGED <<state, intents>>
    /\ \/ /\ IF state = Nil THEN UNCHANGED halted ELSE HaltAfter(responseError \/ halted \/ Pending # {})
          /\ Goto(IF pc \in {"submit", "send"} THEN "idle" ELSE After(call.kind), [call EXCEPT !.balances = Unread])
       \/ UNCHANGED halted /\ Goto("idle", call)

Fault == faults < MaxFaults /\ faults' = faults + 1

-----------------------------------------------------------------------------
\* Calls

\* The argument of a call is chosen where the call first reads it.
Begin(kind) ==
    /\ pc = "idle"
    /\ call' = [kind |-> kind, at |-> clock, input |-> Nil, balances |-> Unread, plan |-> NoPlan]
    /\ pc' = "reconcile"
    /\ UNCHANGED <<clock, venue, journal, posts, faults>>

ProcessCompletedCandle == Begin("candle")
OnPrice == Begin("price")
Reconcile == Begin("reconcile")

\* A candle as the caller supplies it: which bar, what it says, whether it is
\* well formed and over, and the cut-off of the risk observation.
Candles(at) ==
    LET over == UNION {[bar : {bar}, row : Rows, valid : {TRUE}, now : End(bar)..at] : bar \in 0..MaxTime}
        malformed == [bar : 0..MaxTime, row : {CHOOSE row \in Rows : TRUE}, valid : {FALSE}, now : {at}]
    IN  over \cup malformed

\* get_order answers: the facts are applied, or refused as contradictory.
Query ==
    /\ pc = "reconcile" /\ Pending # {}
    /\ LET i == PendingId
           o == orders[i]
       IN  /\ Exists(i)
           /\ \/ /\ Accepts(i, o, call.at)
                 /\ ApplyOrder(i, PartialBuy(o))
                 /\ HaltAfter(FALSE)
                 /\ Goto(IF PartialBuy(o) THEN "cancel" ELSE "accounts", call)
              \/ ~Accepts(i, o, call.at) /\ Failure(TRUE)
    /\ UNCHANGED <<clock, venue, posts, faults>>

\* Seeded fault: not found is taken as proof that nothing was sent.
NotFoundResolves ==
    /\ pc = "reconcile" /\ Pending # {} /\ ~Exists(PendingId)
    /\ intents' = [intents EXCEPT ![PendingId].terminal = TRUE]
    /\ Goto("accounts", call)
    /\ UNCHANGED <<clock, venue, state, halted, posts, faults>>

\* The venue does not know the identifier (yet): the intent stays uncertain.
QueryNotFound ==
    /\ pc = "reconcile" /\ Pending # {} /\ ~Exists(PendingId)
    /\ Failure(FALSE)
    /\ UNCHANGED <<clock, venue, posts, faults>>

NothingPending ==
    /\ pc = "reconcile" /\ Pending = {}
    /\ Goto("accounts", call)
    /\ UNCHANGED <<clock, venue, journal, posts, faults>>

\* cancel_order answers: the remainder is cancelled unless the order has just closed.
CancelOrder ==
    /\ pc = "cancel"
    /\ orders' = [orders EXCEPT ![PendingId].state =
                     IF @ = "wait" /\ orders[PendingId].due = 0 THEN "cancel" ELSE @]
    /\ Goto("requery", call)
    /\ UNCHANGED <<clock, inflight, krw, btc, journal, posts, faults>>

\* The look after the cancellation; its acknowledgement proves nothing.
Requery ==
    /\ pc = "requery"
    /\ LET i == PendingId
       IN  \/ /\ Accepts(i, orders[i], call.at)
              /\ ApplyOrder(i, FALSE)
              /\ HaltAfter(FALSE)
              /\ Goto("accounts", call)
           \/ ~Accepts(i, orders[i], call.at) /\ Failure(TRUE)
    /\ UNCHANGED <<clock, venue, posts, faults>>

LedgerAgrees(b) == state.cash = b.krw /\ state.position.qty = b.btc

ReadAccounts ==
    /\ pc = "accounts"
    /\ Goto(After(call.kind), [call EXCEPT !.balances = Accounts])
    /\ IF state = Nil THEN UNCHANGED halted
       ELSE HaltAfter(Pending # {} \/ ~LedgerAgrees(Accounts))
    /\ UNCHANGED <<clock, venue, state, intents, posts, faults>>

\* A request or its answer is lost; a cancellation may have taken effect.
LoseAnswer ==
    /\ pc \in {"reconcile", "cancel", "requery", "accounts", "submit"}
    /\ pc = "reconcile" => Pending # {}
    /\ \/ UNCHANGED orders
       \/ /\ pc = "cancel" /\ orders[PendingId].state = "wait" /\ orders[PendingId].due = 0
          /\ orders' = [orders EXCEPT ![PendingId].state = "cancel"]
    /\ Failure(FALSE)
    /\ Fault
    /\ UNCHANGED <<clock, inflight, krw, btc, posts>>

\* The process dies: its call is gone, the journal and the venue are as they are.
Crash ==
    /\ pc # "idle"
    /\ Goto("idle", call)
    /\ Fault
    /\ UNCHANGED <<clock, venue, journal, posts>>

-----------------------------------------------------------------------------
\* process_completed_candle after reconciliation

InitialState(b) ==
    [cash |-> b.krw, position |-> Flat, trades |-> <<>>, riskAt |-> NoTime, riskCount |-> 0, completed |-> Nil]

Fingerprint(c) == [bar |-> c.bar, row |-> c.row]

\* _activate: a stop announced for a boundary holds from that boundary on.
Activate(pos, at) ==
    IF pos.qty > 0 /\ pos.nextAt # NoTime /\ at >= pos.nextAt
    THEN [pos EXCEPT !.stop = Max({@, pos.next}), !.next = 0, !.nextAt = NoTime]
    ELSE pos

\* In the entry bar only the close is known to be later than the entry.
SeenHigh(pos, c) == IF pos.entryAt > Start(c.bar) THEN Max({pos.high, c.row.close}) ELSE c.row.high

\* The position facts a completed candle adds, saved before anything is decided.
Progressed(pos, c) ==
    IF pos.qty = 0 THEN pos
    ELSE [Activate(pos, End(c.bar)) EXCEPT !.high = RaisedHigh(@, SeenHigh(pos, c)), !.seen = Fingerprint(c)]

Replayed(s, c) == s.completed # Nil /\ s.completed.bar = c.bar
Monotonic(s, c) == c.valid /\ (s.completed # Nil => c.bar >= s.completed.bar)
OlderOrChanged(pos, c) ==
    /\ pos.qty > 0 /\ pos.seen # Nil
    /\ c.bar < pos.seen.bar \/ (c.bar = pos.seen.bar /\ c.row # pos.seen.row)
PreEntry(pos, c) == pos.qty > 0 /\ pos.entryAt >= End(c.bar)

CandleUnfit ==
    /\ pc = "candle" /\ state = Nil
    /\ \E c \in Candles(call.at) : ~(call.balances.known /\ c.valid)
    /\ Goto("idle", call)
    /\ UNCHANGED <<clock, venue, journal, posts, faults>>

\* Everything up to the risk policy: checks, the early returns, position facts.
CandleChecks ==
    /\ pc = "candle"
    /\ \E c \in Candles(call.at) :
       LET b == call.balances
           s == IF state = Nil THEN InitialState(b) ELSE state
           failed == ~Monotonic(s, c) \/ ~b.known \/ s.cash # b.krw \/ s.position.qty # b.btc
           replayed == Replayed(s, c)
           refused == ~Monotonic(s, c) \/ OlderOrChanged(s.position, c)
       IN  /\ state # Nil \/ (b.known /\ c.valid)
           /\ IF replayed \/ refused \/ PreEntry(s.position, c)
              THEN /\ state' = s /\ Goto("idle", call)
                   /\ HaltAfter(failed \/ refused \/ (replayed /\ s.completed # Fingerprint(c)))
              ELSE /\ state' = [s EXCEPT !.position = Progressed(@, c)]
                   /\ Goto("decide", [call EXCEPT !.input = c])
                   /\ HaltAfter(failed)
    /\ UNCHANGED <<clock, venue, intents, posts, faults>>

\* Seeded fault: risk advances while an order is unresolved.
NeverFrozen == FALSE

\* An unresolved order freezes risk, the completed candle and new orders.
Frozen == Pending # {}

\* _validate_observation: the trades and cut-offs the risk policy refuses.
RiskRefuses(now) ==
    \/ now < state.riskAt
    \/ now = state.riskAt /\ Len(state.trades) # state.riskCount
    \/ \E k \in DOMAIN state.trades : state.trades[k].exit > now
    \/ \E k \in DOMAIN state.trades : k > state.riskCount /\ state.trades[k].exit < state.riskAt

CandleFrozen ==
    /\ pc = "decide" /\ Frozen
    /\ Goto("idle", call)
    /\ UNCHANGED <<clock, venue, journal, posts, faults>>

\* A cut-off that repeats may also be refused because the equity moved.
CandleRefused ==
    /\ pc = "decide" /\ ~Frozen
    /\ RiskRefuses(call.input.now) \/ call.input.now = state.riskAt
    /\ halted' = TRUE /\ Goto("idle", call)
    /\ UNCHANGED <<clock, venue, state, intents, posts, faults>>

\* StrategyEngine.decide and next_stop on the state at hand.
Action(verdict, row) ==
    CASE Holding /\ (verdict \in {"exit", "unhealthy"} \/ row.signal = "exit") -> "sell"
      [] ~Holding /\ verdict = "open" /\ row.signal = "enter" -> "buy"
      [] OTHER -> "hold"
NextStop(pos) == IF pos.high < pos.entry + 2 THEN pos.stop ELSE Max({pos.stop, pos.entry, pos.high - 1})

\* Seeded fault: the candle is not consumed by its decision.
DecidedKeepingCursor(s, c, action) ==
    [s EXCEPT !.riskAt = c.now, !.riskCount = Len(s.trades),
              !.position = IF @.qty > 0 /\ action = "hold"
                           THEN [@ EXCEPT !.next = NextStop(s.position), !.nextAt = End(c.bar)] ELSE @]

\* What is saved before an order is sent: risk, candle cursor, announced stop.
Decided(s, c, action) ==
    [s EXCEPT !.riskAt = c.now, !.riskCount = Len(s.trades), !.completed = Fingerprint(c),
              !.position = IF @.qty > 0 /\ action = "hold"
                           THEN [@ EXCEPT !.next = NextStop(s.position), !.nextAt = End(c.bar)] ELSE @]

CandleDecide ==
    /\ pc = "decide" /\ ~Frozen /\ ~RiskRefuses(call.input.now)
    /\ \E verdict \in {"open", "halt", "exit", "unhealthy"}, size \in 1..MaxUnits :
           LET action == Action(verdict, call.input.row)
           IN  /\ halted \/ ~call.balances.known => verdict = "unhealthy"
               /\ action # "buy" => size = MaxUnits
               /\ state' = Decided(state, call.input, action)
               /\ Goto(IF call.balances.known /\ action # "hold" THEN "submit" ELSE "idle",
                       [call EXCEPT !.plan = [action |-> action, price |-> call.input.row.close,
                              size |-> IF action = "sell" THEN state.position.qty ELSE size,
                              bar |-> call.input.bar]])
    /\ UNCHANGED <<clock, venue, halted, intents, posts, faults>>

\* on_price after reconciliation: activate, record the price, protect.
PriceStep ==
    /\ pc = "price"
    /\ \E p \in Prices \cup {0} :
       LET pos == Activate(state.position, call.at)
           seen == IF pos.qty > 0 THEN [pos EXCEPT !.high = RaisedHigh(@, p)] ELSE pos
       IN  IF state = Nil \/ p = 0
           THEN /\ Goto("idle", call) /\ UNCHANGED state
                /\ halted' = (halted \/ (state # Nil))
           ELSE /\ state' = [state EXCEPT !.position = seen]
                /\ UNCHANGED halted
                /\ Goto(IF seen.qty > 0 /\ call.balances.known /\ p <= seen.stop THEN "submit" ELSE "idle",
                        [call EXCEPT !.plan = [action |-> "sell", price |-> p, size |-> seen.qty, bar |-> NoTime]])
    /\ UNCHANGED <<clock, venue, intents, posts, faults>>

-----------------------------------------------------------------------------
\* _submit

\* What the balance pays for with the fee: balance / (1 + bid_fee), rounded down.
Affordable(b) == (b.krw * FeeShare) \div (FeeShare + 1)

\* The amount of the order: KRW of a buy, units of a sell; 0 when it may not be sent.
Amount(plan, b) ==
    LET budget == Min({plan.size * plan.price, Affordable(b)})
        units == Min({plan.size, state.position.qty, b.btc})
    IN  CASE plan.action = "buy" /\ ~Holding /\ ~halted /\ budget >= MinTotal -> budget
          [] plan.action = "sell" /\ Holding /\ units * plan.price >= MinTotal -> units
          [] OTHER -> 0

NewIntent(plan, amount) ==
    [side |-> IF plan.action = "buy" THEN "bid" ELSE "ask", amount |-> amount, created |-> call.at,
     bar |-> plan.bar, qty |-> 0, funds |-> 0, fee |-> 0, terminal |-> FALSE, cancel |-> FALSE]

\* The durable intent that is the sole authority to send once.
SaveIntent(plan, amount) ==
    /\ intents' = Append(intents, NewIntent(plan, amount))
    /\ halted' = TRUE

SubmitNothing ==
    /\ pc = "submit"
    /\ \/ Pending # {}
       \/ call.balances = Accounts /\ Amount(call.plan, call.balances) = 0
       \/ Len(intents) = MaxOrders
    /\ Goto("idle", call)
    /\ UNCHANGED <<clock, venue, journal, posts, faults>>

\* order_chance reports other balances than accounts() did: nothing is pending, so
\* it is a fault of the venue's answers that the service refuses.
SubmitStale ==
    /\ pc = "submit" /\ Pending = {}
    /\ Fault
    /\ Failure(TRUE)
    /\ UNCHANGED <<clock, venue, posts>>

Submit ==
    /\ pc = "submit" /\ Pending = {} /\ call.balances = Accounts
    /\ Amount(call.plan, call.balances) > 0
    /\ Len(intents) < MaxOrders
    /\ SaveIntent(call.plan, Amount(call.plan, call.balances))
    /\ Goto("send", call)
    /\ UNCHANGED <<clock, venue, state, posts, faults>>

Newest == Len(intents)
Sent == posts' = [posts EXCEPT ![Newest] = @ + 1]

\* POST and its acknowledgement, which adds nothing but the venue's uuid.
Post ==
    /\ pc = "send"
    /\ Sent
    /\ orders' = [orders EXCEPT ![Newest] = NewOrder(Newest)]
    /\ Goto("idle", call)
    /\ UNCHANGED <<clock, inflight, krw, btc, journal, faults>>

\* POST without an answer: accepted, still on its way, or refused.
PostUnanswered ==
    /\ pc = "send"
    /\ Sent
    /\ Fault
    /\ \/ orders' = [orders EXCEPT ![Newest] = NewOrder(Newest)] /\ UNCHANGED inflight
       \/ inflight' = inflight \cup {Newest} /\ UNCHANGED orders
       \/ UNCHANGED <<orders, inflight>>
    /\ Failure(FALSE)
    /\ UNCHANGED <<clock, krw, btc>>

-----------------------------------------------------------------------------
Init ==
    /\ clock = 0
    /\ orders = [i \in Id |-> Absent] /\ inflight = {}
    /\ krw = Cash /\ btc = 0
    /\ state = Nil /\ halted = FALSE /\ intents = <<>>
    /\ pc = "idle" /\ call = NoCall
    /\ posts = [i \in Id |-> 0] /\ faults = 0

Venue ==
    \E i \in Id : \/ \E p \in Prices, feeNow \in BOOLEAN : Fill(i, p, feeNow)
                  \/ PostFee(i) \/ Finish(i) \/ Arrive(i)

Service ==
    \/ Query \/ QueryNotFound \/ NothingPending \/ CancelOrder \/ Requery \/ ReadAccounts
    \/ CandleUnfit \/ CandleChecks \/ CandleFrozen \/ CandleRefused \/ CandleDecide
    \/ PriceStep \/ SubmitNothing \/ Submit \/ Post

Next ==
    \/ Tick \/ Venue \/ Service
    \/ ProcessCompletedCandle \/ OnPrice \/ Reconcile
    \/ LoseAnswer \/ SubmitStale \/ PostUnanswered \/ Crash

Spec == Init /\ [][Next]_vars

-----------------------------------------------------------------------------
\* Properties

OrderType ==
    [known : {TRUE}, side : {"bid", "ask"}, amount : Nat, state : {"wait", "done", "cancel"}, qty : Nat,
     funds : Nat, fee : Nat, due : Nat, created : Nat, first : Int, last : Int]
IntentType ==
    [side : {"bid", "ask"}, amount : Nat \ {0}, created : Nat, bar : Int, qty : Nat, funds : Nat, fee : Nat,
     terminal : BOOLEAN, cancel : BOOLEAN]
PositionType ==
    [qty : Nat \ {0}, entry : Nat, initial : Nat, stop : Nat, high : Nat, entryAt : Nat, basis : Nat,
     realized : Int, next : Nat, nextAt : Int, seen : {Nil} \cup [bar : Nat, row : Rows]]
StateType ==
    [cash : Nat, position : {Flat} \cup PositionType, trades : Seq([pnl : Int, exit : Nat]),
     riskAt : Int, riskCount : Nat, completed : {Nil} \cup [bar : Nat, row : Rows]]

\* The types of the variables.
TypeOK ==
    /\ clock \in 0..MaxTime
    /\ orders \in [Id -> {Absent} \cup OrderType] /\ inflight \subseteq Id
    /\ krw \in Nat /\ btc \in Nat
    /\ state \in {Nil} \cup StateType /\ halted \in BOOLEAN
    /\ intents \in Seq(IntentType) /\ Len(intents) <= MaxOrders
    /\ pc \in {"idle", "reconcile", "cancel", "requery", "accounts", "candle", "decide", "price", "submit", "send"}
    /\ posts \in [Id -> Nat] /\ faults \in 0..MaxFaults

\* However answers are lost and calls repeated, an identifier is posted at most
\* once and no order is at the venue, or on its way to it, beside another one
\* that is still open (_submit, the sole authority to send once).
SoleOrder ==
    /\ \A i \in Id : posts[i] <= 1
    /\ Cardinality(Open \cup inflight) <= 1

\* What the journal has not booked yet of the pending order.
Unbooked(field) ==
    IF Pending = {} \/ ~Exists(PendingId) THEN 0
    ELSE orders[PendingId][field] - intents[PendingId][field]
Sign == IF Pending # {} /\ intents[PendingId].side = "bid" THEN -1 ELSE 1

\* Every execution is booked exactly once: the journal differs from the account
\* by what the venue did since the last look at the one pending order, and by
\* nothing when none is pending (_apply_order, cumulative facts).
BooksMatch ==
    state # Nil =>
        /\ krw = state.cash + Sign * Unbooked("funds") - Unbooked("fee")
        /\ btc = state.position.qty - Sign * Unbooked("qty")

\* The initial cash and the results of the trades.
Booked(trades) ==
    LET total[n \in 0..Len(trades)] == IF n = 0 THEN Cash ELSE total[n - 1] + trades[n].pnl
    IN  total[Len(trades)]

\* No profit is lost or invented: cash, the cost of the open position and what
\* it realised account for the initial cash and the results of the closed
\* trades, partial sells and late fees included.
ProfitAccounted ==
    state # Nil =>
        LET open == IF Holding THEN state.position.basis - state.position.realized ELSE 0
        IN  state.cash + open = Booked(state.trades)

\* Reconciliation can never wedge: what the venue says of the pending order is
\* always something a call made now would accept.
Absorbable == \A i \in Pending : Exists(i) => Accepts(i, orders[i], clock)

\* LiveJournal._state accepts every state, so no save raises: stops and high
\* water of the position agree, an announced stop is not below the active one,
\* trades are in order and the risk cursor does not pass them.
Loadable ==
    state # Nil =>
        /\ state.cash >= 0 /\ state.riskCount <= Len(state.trades)
        /\ \A k \in 1..Len(state.trades) - 1 : state.trades[k].exit <= state.trades[k + 1].exit
        /\ Holding => LET p == state.position
                      IN  /\ p.basis >= 0 /\ 0 < p.initial /\ p.initial < p.entry /\ p.stop >= p.initial /\ p.high >= p.entry
                          /\ (p.next = 0) = (p.nextAt = NoTime)
                          /\ p.next # 0 => p.next >= p.stop

\* The journal can always be loaded and tells the truth about the account, through
\* lost answers, partial fills, late fees and crashes (LiveJournal, _apply_order).
BooksSound == TypeOK /\ Loadable /\ BooksMatch /\ ProfitAccounted

\* The risk cut-off never passes an exit that is still to be counted, so no trade is
\* refused by the risk policy for good; and while the sell that closed a trade is
\* unresolved, and a late fee may still correct its result, that trade is not counted
\* (the freeze while an order is unresolved).
CutoffHonest ==
    state # Nil =>
        /\ \A k \in DOMAIN state.trades : k > state.riskCount => state.trades[k].exit >= state.riskAt
        /\ \A i \in Pending : intents[i].side = "ask" /\ ~Holding => state.riskCount < Len(state.trades)

\* A candle gives rise to at most one order, whatever is retried or crashes.
OneOrderPerCandle ==
    \A i, j \in DOMAIN intents : intents[i].bar # NoTime /\ intents[i].bar = intents[j].bar => i = j
=============================================================================
