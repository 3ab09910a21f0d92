-------------------------- MODULE LiveOrders_proofs -------------------------
(***************************************************************************)
(* The live order path for any account, prices, candles, clock and faults: *)
(* an identifier is posted at most once and no order is open beside        *)
(* another, a candle gives rise to at most one order, the risk cut-off     *)
(* never passes an exit that is still to be counted and no trade is        *)
(* counted while a fee may correct it, the journal can absorb whatever the *)
(* venue did to the pending order, and it stays sound and in step with the *)
(* account.                                                                *)
(*                                                                         *)
(* Path is the argument for the first: every intent but the newest is      *)
(* terminal, a terminal intent's order is closed at the venue, and what    *)
(* the venue knows, or will still receive, was posted for a written        *)
(* intent.  Cursor orders the candles of the intents by the completed      *)
(* candle of the journal, and Cutoff the times of trades and of the        *)
(* pending order by the risk cut-off.                                      *)
(*                                                                         *)
(* Inv bounds the amounts by type only.  Books says what the account and   *)
(* the journal differ by, Ledger that the account can pay for the rest of  *)
(* the pending order with its fees, which is what the fraction Affordable  *)
(* keeps back is for, and Diary that the stored state is one its loader    *)
(* accepts and that its trades add up to its cash.  Each rests on the      *)
(* ones before it.                                                         *)
(***************************************************************************)
EXTENDS LiveOrders, FiniteSetTheorems, SequenceTheorems, WellFoundedInduction, TLAPS

\* The types of LiveOrders without the signs of the amounts.
OrderShape ==
    [known : {TRUE}, side : {"bid", "ask"}, amount : Int, state : {"wait", "done", "cancel"}, qty : Nat,
     funds : Int, fee : Int, due : Int, created : Nat, first : Int, last : Int]
IntentShape ==
    [side : {"bid", "ask"}, amount : Int, created : Nat, bar : Int, qty : Nat, funds : Int, fee : Int,
     terminal : BOOLEAN, cancel : BOOLEAN]
PrintShape == [bar : Nat, row : Rows]
PositionShape ==
    [qty : Nat \ {0}, entry : Int, initial : Int, stop : Int, high : Int, entryAt : Int, basis : Int,
     realized : Int, next : Int, nextAt : Int, seen : {Nil} \cup PrintShape]
TradeShape == [pnl : Int, exit : Int]
StateShape ==
    [cash : Int, position : {Flat} \cup PositionShape, trades : Seq(TradeShape),
     riskAt : Int, riskCount : Nat, completed : {Nil} \cup PrintShape]
InputShape == [bar : Nat, row : Rows, valid : {TRUE}, now : Int]
BalanceShape == [known : {TRUE}, krw : Int, btc : Int, locked : SUBSET Id]
PlanShape == [action : {"buy", "sell", "hold"}, price : Int, size : Int, bar : Int]
CallShape ==
    [kind : {"candle", "price", "reconcile"}, at : Nat, input : {Nil} \cup InputShape,
     balances : {Unread} \cup BalanceShape, plan : PlanShape]

Shape ==
    /\ clock \in Nat
    /\ orders \in [Id -> {Absent} \cup OrderShape] /\ inflight \subseteq Id
    /\ krw \in Int /\ btc \in Int
    /\ state \in {Nil} \cup StateShape
    /\ intents \in Seq(IntentShape) /\ Len(intents) <= MaxOrders
    /\ pc # "idle" => call \in CallShape /\ call.at <= clock
    /\ posts \in [Id -> Nat]

\* One order at a time, sent once.
Path ==
    /\ \A i \in Id : /\ posts[i] <= 1
                     /\ Exists(i) \/ i \in inflight \/ posts[i] > 0 => i <= Len(intents)
                     /\ i \in inflight => ~Exists(i)
    /\ \A i \in 1..Len(intents) : /\ i < Len(intents) => intents[i].terminal
                                  /\ intents[i].terminal => Exists(i) /\ orders[i].state # "wait"
    /\ pc = "send" => /\ intents # <<>> /\ ~intents[Newest].terminal
                      /\ posts[Newest] = 0 /\ ~Exists(Newest) /\ Newest \notin inflight
    /\ pc \in {"cancel", "requery"} => Pending # {} /\ Exists(PendingId)

\* The intents follow the candles the journal has completed.
Cursor ==
    /\ intents # <<>> => state # Nil
    /\ \A i \in 1..Len(intents) :
          intents[i].bar # NoTime => state.completed # Nil /\ intents[i].bar <= state.completed.bar
    /\ \A i, j \in 1..Len(intents) : intents[i].bar # NoTime /\ intents[i].bar = intents[j].bar => i = j
    /\ pc = "decide" => /\ state # Nil /\ call.input \in InputShape
                        /\ state.completed # Nil => call.input.bar > state.completed.bar
    /\ pc = "submit" =>
          /\ state # Nil
          /\ call.plan.bar # NoTime =>
                /\ state.completed # Nil /\ state.completed.bar = call.plan.bar
                /\ \A i \in 1..Len(intents) : intents[i].bar < call.plan.bar

\* Exits that are still to be counted lie after the cut-off.
Cutoff ==
    /\ state # Nil => state.riskAt <= clock
    /\ state # Nil => \A k \in 1..Len(state.trades) :
                         k > state.riskCount => state.trades[k].exit >= state.riskAt
    /\ state # Nil => \A i \in Pending : Exists(i) => orders[i].last = NoTime \/ orders[i].last >= state.riskAt
    /\ pc = "decide" => call.input.now <= call.at

Inv == Shape /\ Path /\ Cursor /\ Cutoff

-----------------------------------------------------------------------------
\* Numbers

\* The larger of two numbers.
LEMMA LargerOfTwo ==
    ASSUME NEW a \in Int, NEW b \in Int
    PROVE  Max({a, b}) \in {a, b} /\ Max({a, b}) \in Int
<1>1. \E x \in {a, b} : \A y \in {a, b} : x >= y
  OBVIOUS
<1>2. Max({a, b}) \in {a, b}
  BY <1>1 DEF Max
<1>3. QED
  BY <1>2

\* The smallest of a few numbers.
LEMMA SmallestIsNumber ==
    ASSUME NEW a \in Int, NEW b \in Int, NEW c \in Int
    PROVE  Min({a, b}) \in Int /\ Min({a, b, c}) \in Int
<1>1. \E x \in {a, b} : \A y \in {a, b} : x <= y
  OBVIOUS
<1>2. \E x \in {a, b, c} : \A y \in {a, b, c} : x <= y
  OBVIOUS
<1>3. Min({a, b}) \in {a, b}
  BY <1>1 DEF Min
<1>4. Min({a, b, c}) \in {a, b, c}
  BY <1>2 DEF Min
<1>5. QED
  BY <1>3, <1>4

\* The constants are numbers.
LEMMA Constants ==
    /\ Cash \in Nat /\ FeeShare \in Nat \ {0} /\ MinTotal \in Nat /\ MaxTime \in Nat /\ MaxOrders \in Nat /\ MaxFaults \in Nat
    /\ MaxUnits \in Nat /\ BarLength \in Nat /\ Prices \subseteq Nat
    /\ \A row \in Rows : row.close \in Nat /\ row.high \in Nat
BY LiveAssumption

\* A price is above one.
LEMMA PricesAboveOne == \A p \in Prices : p \in Nat /\ p >= 2
<1>1. Prices \subseteq Nat \ {0, 1}
  BY LiveAssumption
<1>2. QED
  BY <1>1

\* A fee is at most its share of the price.
LEMMA FeeFits ==
    ASSUME NEW p \in Nat
    PROVE  Fee(p) \in Nat /\ FeeShare * Fee(p) <= p
<1>1. FeeShare \in Nat \ {0}
  BY Constants
<1>2. p = FeeShare * (p \div FeeShare) + (p % FeeShare) /\ (p % FeeShare) >= 0 /\ p \div FeeShare \in Int
  BY <1>1
<1>3. p \div FeeShare >= 0
  BY <1>1
<1>4. QED
  BY <1>1, <1>2, <1>3 DEF Fee

\* A balance pays for what it affords, and for its fee.
LEMMA AffordableFits ==
    ASSUME NEW b, b.krw \in Nat
    PROVE  Affordable(b) \in Nat /\ Affordable(b) <= b.krw /\ FeeShare * (b.krw - Affordable(b)) >= Affordable(b)
<1> DEFINE k == b.krw
           a == Affordable(b)
<1>1. FeeShare \in Nat \ {0} /\ k \in Nat /\ k * FeeShare \in Nat /\ FeeShare + 1 \in Nat \ {0}
  BY Constants
<1>2. a = (k * FeeShare) \div (FeeShare + 1)
  BY DEF Affordable
<1> HIDE DEF k, a
<1>3. a \in Nat /\ (FeeShare + 1) * a <= k * FeeShare
  BY <1>1, <1>2
<1>4. FeeShare * a + a <= FeeShare * k
  BY <1>1, <1>3
<1>5. FeeShare * (k - a) = FeeShare * k - FeeShare * a
  BY <1>1, <1>3
<1>6. FeeShare * (k - a) >= a
  <2>1. FeeShare * k \in Int /\ FeeShare * a \in Int
    BY <1>1, <1>3
  <2>2. QED
    BY <1>3, <1>4, <1>5, <2>1
<1>7. a <= k
  <2>1. ASSUME k - a < 0 PROVE FALSE
    <3>1. FeeShare * (k - a) < 0
      BY <1>1, <1>3, <2>1
    <3>2. QED
      BY <1>1, <1>3, <1>6, <3>1
  <2>2. QED
    BY <1>1, <1>3, <2>1
<1>8. QED
  BY <1>3, <1>6, <1>7 DEF k, a

-----------------------------------------------------------------------------
\* The pending intent

\* Only the newest intent can be pending.
LEMMA PendingIsNewest ==
    ASSUME Shape, Path
    PROVE  /\ DOMAIN intents = 1..Len(intents) /\ Len(intents) \in Nat
           /\ \A i \in 1..Len(intents) : i \in Id /\ intents[i] \in IntentShape
           /\ Pending \subseteq {Newest}
           /\ Pending # {} => /\ PendingId = Newest /\ Newest \in 1..Len(intents) /\ Newest \in Id
                              /\ ~intents[Newest].terminal
           /\ intents # <<>> /\ ~intents[Newest].terminal => Pending = {Newest}
<1>1. DOMAIN intents = 1..Len(intents) /\ Len(intents) \in Nat
  BY LenProperties DEF Shape
<1>2. ASSUME NEW i \in 1..Len(intents) PROVE i \in Id /\ intents[i] \in IntentShape
  BY <1>1, Constants, ElementOfSeq DEF Shape, Id
<1>3. \A i \in 1..Len(intents) : i < Len(intents) => intents[i].terminal
  BY DEF Path
<1>4. Pending \subseteq {Newest}
  BY <1>1, <1>3 DEF Pending, Newest
<1>5. ASSUME Pending # {}
      PROVE  PendingId = Newest /\ Newest \in 1..Len(intents) /\ ~intents[Newest].terminal
  <2>1. Pending = {Newest}
    BY <1>4, <1>5
  <2>2. PendingId = Newest
    BY <2>1 DEF PendingId
  <2>3. QED
    BY <1>1, <2>1, <2>2 DEF Pending
<1>6. ASSUME intents # <<>>, ~intents[Newest].terminal PROVE Newest \in Pending
  BY <1>1, <1>6, EmptySeq DEF Pending, Newest, Shape
<1>7. QED
  BY <1>1, <1>2, <1>4, <1>5, <1>6

\* The pending order is the only one that can be open or on its way.
LEMMA PathIsSole == Shape /\ Path => SoleOrder
<1> SUFFICES ASSUME Shape, Path PROVE SoleOrder
  OBVIOUS
<1>1. Open \cup inflight \subseteq {Newest}
  <2>1. ASSUME NEW i \in Open \cup inflight PROVE i = Newest
    <3>1. i \in Id /\ i <= Len(intents)
      BY <2>1 DEF Open, Shape, Path, Exists
    <3>2. i \in 1..Len(intents)
      BY <3>1, PendingIsNewest, Constants DEF Id
    <3>3. ~intents[i].terminal
      BY <2>1, <3>1, <3>2 DEF Open, Path
    <3>4. QED
      BY <3>2, <3>3, PendingIsNewest DEF Path, Newest
  <2>2. QED
    BY <2>1
<1>2. Cardinality(Open \cup inflight) <= 1
  <2>1. CASE Open \cup inflight = {}
    BY <2>1, FS_EmptySet
  <2>2. CASE Open \cup inflight = {Newest}
    <3>1. Cardinality({Newest}) = 1
      BY FS_Singleton
    <3>2. QED
      BY <2>2, <3>1
  <2>3. QED
    BY <1>1, <2>1, <2>2
<1>3. \A i \in Id : posts[i] <= 1
  BY DEF Path
<1>4. QED
  BY <1>2, <1>3 DEF SoleOrder

-----------------------------------------------------------------------------
\* Steps, by what they touch

\* The steps of a call between which special knowledge is kept.
Special == {"send", "cancel", "requery", "decide", "submit"}

\* A step that changes neither the journal's books nor the venue.
LEMMA QuietStep ==
    ASSUME Inv, UNCHANGED <<orders, inflight, krw, btc, state, intents, posts>>,
           clock' \in Nat, clock <= clock',
           \/ UNCHANGED <<pc, call>>
           \/ pc' \notin Special /\ (pc' # "idle" => call' \in CallShape /\ call'.at <= clock)
    PROVE  Inv'
<1>1. clock \in Nat
  BY DEF Inv, Shape
<1>2. Shape'
  <2>1. ASSUME pc' # "idle" PROVE call' \in CallShape /\ call'.at <= clock'
    <3>1. call' \in CallShape /\ call'.at <= clock
      BY <2>1 DEF Inv, Shape
    <3>2. call'.at \in Nat
      BY <3>1 DEF CallShape
    <3>3. QED
      BY <1>1, <3>1, <3>2
  <2>2. QED
    BY <2>1 DEF Inv, Shape
<1>3. Path'
  BY DEF Inv, Path, Exists, Newest, Pending, PendingId, Special
<1>4. Cursor'
  BY DEF Inv, Cursor, Special
<1>5. Cutoff'
  <2>1. state # Nil => state.riskAt <= clock'
    <3>1. ASSUME state # Nil PROVE state.riskAt \in Int /\ state.riskAt <= clock
      BY <3>1 DEF Inv, Shape, StateShape, Cutoff
    <3>2. QED
      BY <1>1, <3>1
  <2>2. pc' = "decide" => call'.input.now <= call'.at
    BY DEF Inv, Cutoff, Special
  <2>3. Pending' = Pending /\ \A k \in Id : Exists(k)' = Exists(k)
    BY DEF Pending, Exists
  <2>4. QED
    BY <2>1, <2>2, <2>3 DEF Inv, Cutoff, Pending, Exists
<1>6. QED
  BY <1>2, <1>3, <1>4, <1>5 DEF Inv

\* The venue, or a cancellation, changes one order that it knows and never reopens it.
LEMMA OrderMoves ==
    ASSUME Inv, NEW i \in Id, Exists(i), NEW o \in OrderShape, orders' = [orders EXCEPT ![i] = o],
           orders[i].state # "wait" => o.state # "wait", o.last \in {orders[i].last, clock},
           UNCHANGED <<clock, inflight, state, intents, posts>>, krw' \in Int, btc' \in Int,
           \/ UNCHANGED <<pc, call>>
           \/ pc = "cancel" /\ pc' = "requery" /\ call' = call
           \/ pc' \notin Special /\ (pc' # "idle" => call' \in CallShape /\ call'.at <= clock)
    PROVE  Inv'
<1>1. orders \in [Id -> {Absent} \cup OrderShape]
  BY DEF Inv, Shape
<1>2. o.known
  BY DEF OrderShape
<1>3. \A k \in Id : Exists(k)' = Exists(k)
  BY <1>1, <1>2 DEF Exists
<1>4. Shape'
  <2>1. orders' \in [Id -> {Absent} \cup OrderShape]
    BY <1>1
  <2>2. QED
    BY <2>1 DEF Inv, Shape
<1>5. Pending' = Pending /\ PendingId' = PendingId /\ Newest' = Newest
  BY DEF Pending, PendingId, Newest
<1>6. Path'
  <2>1. \A k \in 1..Len(intents) : intents[k].terminal => Exists(k)' /\ orders'[k].state # "wait"
    <3>1. ASSUME NEW k \in 1..Len(intents), intents[k].terminal PROVE Exists(k)' /\ orders'[k].state # "wait"
      <4>1. Exists(k) /\ orders[k].state # "wait" /\ k \in Id
        BY <3>1, PendingIsNewest DEF Inv, Path
      <4>2. QED
        BY <1>1, <1>3, <4>1
    <3>2. QED
      BY <3>1
  <2>2. \A k \in Id : /\ posts'[k] <= 1
                      /\ Exists(k)' \/ k \in inflight' \/ posts'[k] > 0 => k <= Len(intents)'
                      /\ k \in inflight' => ~Exists(k)'
    BY <1>3 DEF Inv, Path
  <2>3. pc' = "send" =>
            /\ intents' # <<>> /\ ~intents'[Newest'].terminal
            /\ posts'[Newest'] = 0 /\ ~Exists(Newest)' /\ Newest' \notin inflight'
    <3>1. ASSUME pc' = "send" PROVE pc = "send" /\ Newest \in Id
      <4>1. pc = "send"
        BY <3>1 DEF Special
      <4>2. QED
        BY <4>1, PendingIsNewest DEF Inv, Path
    <3>2. QED
      BY <1>3, <1>5, <3>1 DEF Inv, Path
  <2>4. pc' \in {"cancel", "requery"} => Pending' # {} /\ Exists(PendingId)'
    <3>1. ASSUME pc' \in {"cancel", "requery"} PROVE Pending # {} /\ Exists(PendingId) /\ PendingId \in Id
      <4>1. pc \in {"cancel", "requery"}
        BY <3>1 DEF Special
      <4>2. QED
        BY <4>1, PendingIsNewest DEF Inv, Path
    <3>2. QED
      BY <1>3, <1>5, <3>1
  <2>5. QED
    BY <2>1, <2>2, <2>3, <2>4 DEF Inv, Path
<1>7. Cursor'
  BY DEF Inv, Cursor, Special
<1>8. Cutoff'
  <2>1. ASSUME state # Nil, NEW k \in Pending, Exists(k) PROVE orders'[k].last = NoTime \/ orders'[k].last >= state.riskAt
    <3>1. k \in Id
      BY <2>1, PendingIsNewest DEF Inv, Pending
    <3>2. orders[k].last = NoTime \/ orders[k].last >= state.riskAt
      BY <2>1 DEF Inv, Cutoff
    <3>3. clock >= state.riskAt
      BY <2>1 DEF Inv, Cutoff, Shape, StateShape
    <3>4. QED
      BY <1>1, <3>1, <3>2, <3>3
  <2>2. \A k \in Pending : k \in Id
    BY PendingIsNewest DEF Inv, Pending
  <2>3. pc' = "decide" => call'.input.now <= call'.at
    BY DEF Inv, Cutoff, Special
  <2>4. QED
    BY <1>3, <1>5, <2>1, <2>2, <2>3 DEF Inv, Cutoff
<1>9. QED
  BY <1>4, <1>6, <1>7, <1>8 DEF Inv

\* An order after a trade, and after a late fee.
Traded(o, qty, funds, fee, due, first, last) ==
    [o EXCEPT !.qty = qty, !.funds = funds, !.fee = fee, !.due = due, !.first = first, !.last = last]
Charged(o, fee) == [o EXCEPT !.fee = fee, !.due = 0]

\* The fields that trading changes keep their types.
LEMMA OrderTraded ==
    ASSUME NEW o \in OrderShape, NEW qty \in Nat, NEW funds \in Int, NEW fee \in Int, NEW due \in Int,
           NEW first \in Int, NEW last \in Int
    PROVE  /\ Traded(o, qty, funds, fee, due, first, last) \in OrderShape
           /\ Traded(o, qty, funds, fee, due, first, last).last = last
           /\ Charged(o, fee) \in OrderShape /\ Charged(o, fee).last = o.last
<1>1. 0 \in Int
  OBVIOUS
<1>2. QED
  BY <1>1 DEF OrderShape, Traded, Charged

\* The state in which an order is closed.
LEMMA OrderClosed ==
    ASSUME NEW o \in OrderShape, NEW closed \in {"wait", "done", "cancel"}
    PROVE  /\ [o EXCEPT !.state = closed] \in OrderShape
           /\ [o EXCEPT !.state = closed].state = closed /\ [o EXCEPT !.state = closed].last = o.last
BY DEF OrderShape

\* Fill, PostFee and Finish: units trade, fees are posted, an order closes.
LEMMA TradingSteps ==
    ASSUME Inv, NEW i \in Id,
           (\E p \in Prices, feeNow \in BOOLEAN : Fill(i, p, feeNow)) \/ PostFee(i) \/ Finish(i)
    PROVE  Inv'
<1>1. i \in Open /\ Exists(i)
  BY DEF Fill, PostFee, Finish, Open, Exists
<1>2. PICK o \in OrderShape : o = orders[i]
  BY <1>1 DEF Inv, Shape, Open, Absent
<1>3. krw \in Int /\ btc \in Int /\ clock \in Nat /\ o.state = "wait"
  BY <1>1, <1>2 DEF Inv, Shape, Open
<1>4. o.qty \in Nat /\ o.funds \in Int /\ o.fee \in Int /\ o.due \in Int /\ o.first \in Int
  BY DEF OrderShape
<1>5. CASE \E p \in Prices, feeNow \in BOOLEAN : Fill(i, p, feeNow)
  <2>1. PICK p \in Prices, feeNow \in BOOLEAN : Fill(i, p, feeNow)
    BY <1>5
  <2> DEFINE share == Fee(p)
             paid == IF feeNow THEN share ELSE 0
             first == IF o.first = NoTime THEN clock ELSE o.first
             new == Traded(o, o.qty + 1, o.funds + p, o.fee + paid, o.due + share - paid, first, clock)
  <2>2. orders' = [orders EXCEPT ![i] = new]
    BY <1>2, <2>1, Zenon DEF Fill, Traded
  <2>3. /\ krw' = krw - paid + (IF o.side = "bid" THEN -p ELSE p)
        /\ btc' = btc + (IF o.side = "bid" THEN 1 ELSE -1)
        /\ UNCHANGED <<clock, inflight, state, intents, pc, call, posts>>
    BY <1>2, <2>1, Zenon DEF Fill, journal
  <2>4. p \in Nat /\ share \in Nat /\ paid \in Nat
    BY Constants, FeeFits
  <2> HIDE DEF share
  <2>5. /\ o.qty + 1 \in Nat /\ o.funds + p \in Int /\ o.fee + paid \in Int /\ o.due + share - paid \in Int
        /\ first \in Int /\ clock \in Int
    BY <1>3, <1>4, <2>4
  <2>6. krw' \in Int /\ btc' \in Int
    BY <1>3, <2>3, <2>4
  <2>7. new \in OrderShape /\ new.last = clock
    BY <2>5, OrderTraded
  <2> HIDE DEF new
  <2>8. QED
    BY <1>1, <1>2, <1>3, <2>2, <2>3, <2>6, <2>7, OrderMoves
<1>6. CASE PostFee(i)
  <2> DEFINE new == Charged(o, o.fee + o.due)
  <2>1. orders' = [orders EXCEPT ![i] = new]
    BY <1>2, <1>6, Zenon DEF PostFee, Charged
  <2>2. krw' = krw - o.due /\ btc' = btc /\ UNCHANGED <<clock, inflight, state, intents, pc, call, posts>>
    BY <1>2, <1>6, Zenon DEF PostFee, journal
  <2>3. o.fee + o.due \in Int /\ krw' \in Int
    BY <1>3, <1>4, <2>2
  <2>4. new \in OrderShape /\ new.last = o.last
    BY <2>3, OrderTraded
  <2> HIDE DEF new
  <2>5. QED
    BY <1>1, <1>2, <1>3, <2>1, <2>2, <2>3, <2>4, OrderMoves
<1>7. CASE Finish(i)
  <2> DEFINE new == [o EXCEPT !.state = "done"]
  <2>1. /\ orders' = [orders EXCEPT ![i] = new] /\ krw' = krw /\ btc' = btc
        /\ UNCHANGED <<clock, inflight, state, intents, pc, call, posts>>
    BY <1>2, <1>7 DEF Finish, journal
  <2>2. new \in OrderShape /\ new.last = o.last
    BY OrderClosed
  <2> HIDE DEF new
  <2>3. QED
    BY <1>1, <1>2, <1>3, <2>1, <2>2, OrderMoves
<1>8. QED
  BY <1>5, <1>6, <1>7

\* What a failed request leaves behind of the call.
LEMMA FailureLeaves ==
    ASSUME Inv, NEW r \in BOOLEAN, Failure(r), pc # "idle"
    PROVE  /\ UNCHANGED <<state, intents>>
           /\ pc' \notin Special /\ (pc' # "idle" => call' \in CallShape /\ call'.at <= clock)
<1>1. call \in CallShape /\ call.at <= clock
  BY DEF Inv, Shape
<1>2. [call EXCEPT !.balances = Unread] \in CallShape /\ [call EXCEPT !.balances = Unread].at = call.at
  BY <1>1 DEF CallShape
<1>3. After(call.kind) \in {"candle", "price", "idle"}
  BY DEF After
<1>4. QED
  BY <1>1, <1>2, <1>3 DEF Failure, Goto, Special

-----------------------------------------------------------------------------
\* Sending

\* What the venue makes of an intent that reaches it.
LEMMA NewOrderFits ==
    ASSUME Shape, NEW i \in 1..Len(intents)
    PROVE  NewOrder(i) \in OrderShape /\ NewOrder(i).last = NoTime
<1>1. intents[i] \in IntentShape
  BY ElementOfSeq DEF Shape
<1>2. intents[i].side \in {"bid", "ask"} /\ intents[i].amount \in Int /\ clock \in Nat
  BY <1>1 DEF IntentShape, Shape
<1>3. 0 \in Nat /\ 0 \in Int /\ NoTime \in Int
  BY DEF NoTime
<1>4. QED
  BY <1>2, <1>3 DEF NewOrder, OrderShape

\* A POST is sent, or one that was given up arrives or is dropped: the venue
\* learns of at most the one intent it did not know.
LEMMA OrderArrives ==
    ASSUME Inv, NEW i \in 1..Len(intents), i \in Id, ~Exists(i),
           orders' \in {orders, [orders EXCEPT ![i] = NewOrder(i)]},
           inflight' \subseteq inflight \cup {i}, i \in inflight' => orders' = orders,
           posts' \in [Id -> Nat], \A k \in Id : posts'[k] <= 1 /\ (posts'[k] > 0 => k <= Len(intents)),
           UNCHANGED <<clock, krw, btc, state, intents>>,
           \/ UNCHANGED <<pc, call, posts>> /\ i \in inflight /\ inflight' \subseteq inflight
           \/ pc' \notin Special /\ (pc' # "idle" => call' \in CallShape /\ call'.at <= clock)
    PROVE  Inv'
<1>1. orders \in [Id -> {Absent} \cup OrderShape] /\ inflight \subseteq Id
  BY DEF Inv, Shape
<1>2. NewOrder(i) \in OrderShape /\ NewOrder(i).last = NoTime
  BY NewOrderFits DEF Inv
<1>3. \A k \in Id : k # i => orders'[k] = orders[k]
  BY <1>1
<1>4. orders'[i] \in {orders[i], NewOrder(i)}
  BY <1>1
<1>5. Shape'
  <2>1. orders' \in [Id -> {Absent} \cup OrderShape]
    BY <1>1, <1>2
  <2>2. inflight' \subseteq Id
    BY <1>1
  <2>3. QED
    BY <2>1, <2>2 DEF Inv, Shape
<1>6. Pending' = Pending /\ PendingId' = PendingId /\ Newest' = Newest
  BY DEF Pending, PendingId, Newest
<1>7. Path'
  <2>1. ASSUME NEW k \in 1..Len(intents), intents[k].terminal PROVE Exists(k)' /\ orders'[k].state # "wait"
    <3>1. Exists(k) /\ orders[k].state # "wait" /\ k \in Id
      BY <2>1, PendingIsNewest DEF Inv, Path
    <3>2. QED
      BY <1>3, <3>1 DEF Exists
  <2>2. ASSUME NEW k \in Id
        PROVE  /\ posts'[k] <= 1
               /\ Exists(k)' \/ k \in inflight' \/ posts'[k] > 0 => k <= Len(intents)
               /\ k \in inflight' => ~Exists(k)'
    BY <1>3 DEF Inv, Path, Exists
  <2>3. pc' = "send" =>
            /\ intents' # <<>> /\ ~intents'[Newest'].terminal
            /\ posts'[Newest'] = 0 /\ ~Exists(Newest)' /\ Newest' \notin inflight'
    <3>1. ASSUME pc' = "send"
          PROVE  /\ pc = "send" /\ Newest # i /\ Newest \in Id /\ posts' = posts /\ inflight' \subseteq inflight
      <4>1. pc = "send" /\ posts' = posts /\ i \in inflight /\ inflight' \subseteq inflight
        BY <3>1 DEF Special
      <4>2. QED
        BY <4>1, PendingIsNewest DEF Inv, Path
    <3>2. QED
      BY <1>3, <1>6, <3>1 DEF Inv, Path, Exists
  <2>4. pc' \in {"cancel", "requery"} => Pending' # {} /\ Exists(PendingId)'
    <3>1. ASSUME pc' \in {"cancel", "requery"} PROVE Pending # {} /\ Exists(PendingId) /\ PendingId \in Id
      <4>1. pc \in {"cancel", "requery"}
        BY <3>1 DEF Special
      <4>2. QED
        BY <4>1, PendingIsNewest DEF Inv, Path
    <3>2. QED
      BY <1>3, <1>6, <3>1 DEF Exists
  <2>5. \A k \in 1..Len(intents) : k < Len(intents) => intents[k].terminal
    BY DEF Inv, Path
  <2>6. QED
    BY <2>1, <2>2, <2>3, <2>4, <2>5 DEF Path
<1>8. Cursor'
  BY DEF Inv, Cursor, Special
<1>9. Cutoff'
  <2>1. ASSUME state # Nil, NEW k \in Pending, Exists(k)' PROVE orders'[k].last = NoTime \/ orders'[k].last >= state.riskAt
    <3>1. k \in Id
      BY <2>1, PendingIsNewest DEF Inv, Pending
    <3>2. CASE orders'[k] = orders[k]
      BY <2>1, <3>2 DEF Inv, Cutoff, Exists
    <3>3. CASE orders'[k] # orders[k]
      BY <1>2, <1>3, <1>4, <3>1, <3>3
    <3>4. QED
      BY <3>2, <3>3
  <2>2. pc' = "decide" => call'.input.now <= call'.at
    BY DEF Inv, Cutoff, Special
  <2>3. QED
    BY <1>6, <2>1, <2>2 DEF Inv, Cutoff
<1>10. QED
  BY <1>5, <1>7, <1>8, <1>9 DEF Inv

\* Arrive: a POST that was given up arrives after all, or is dropped.
LEMMA ArriveStep ==
    ASSUME Inv, NEW i \in Id, Arrive(i)
    PROVE  Inv'
<1>1. i \in inflight /\ ~Exists(i) /\ i <= Len(intents)
  BY DEF Arrive, Inv, Path
<1>2. i \in 1..Len(intents)
  BY <1>1, Constants, PendingIsNewest DEF Id, Inv
<1>3. /\ orders' \in {orders, [orders EXCEPT ![i] = NewOrder(i)]} /\ inflight' = inflight \ {i}
      /\ UNCHANGED <<clock, krw, btc, state, intents, pc, call, posts>>
  BY DEF Arrive, journal
<1>4. posts \in [Id -> Nat] /\ \A k \in Id : posts[k] <= 1 /\ (posts[k] > 0 => k <= Len(intents))
  BY DEF Inv, Shape, Path
<1>5. QED
  BY <1>1, <1>2, <1>3, <1>4, OrderArrives

\* Post and PostUnanswered: the newest intent is sent, the only time it ever is.
LEMMA PostStep ==
    ASSUME Inv, Post \/ PostUnanswered
    PROVE  Inv'
<1>1. pc = "send"
  BY DEF Post, PostUnanswered
<1>2. intents # <<>> /\ posts[Newest] = 0 /\ ~Exists(Newest) /\ Newest \notin inflight /\ ~intents[Newest].terminal
  BY <1>1 DEF Inv, Path
<1>3. Newest \in 1..Len(intents) /\ Newest \in Id
  BY <1>2, PendingIsNewest DEF Inv
<1>4. /\ orders' \in {orders, [orders EXCEPT ![Newest] = NewOrder(Newest)]}
      /\ inflight' \subseteq inflight \cup {Newest} /\ (Newest \in inflight' => orders' = orders)
      /\ UNCHANGED <<clock, krw, btc>> /\ posts' = [posts EXCEPT ![Newest] = @ + 1]
  BY <1>2 DEF Post, PostUnanswered, Sent
<1>5. posts' \in [Id -> Nat] /\ \A k \in Id : posts'[k] <= 1 /\ (posts'[k] > 0 => k <= Len(intents))
  BY <1>2, <1>3, <1>4 DEF Inv, Shape, Path, Newest
<1>6. /\ UNCHANGED <<state, intents>>
      /\ pc' \notin Special /\ (pc' # "idle" => call' \in CallShape /\ call'.at <= clock)
  <2>1. CASE Post
    BY <2>1 DEF Post, Goto, Special, journal
  <2>2. CASE PostUnanswered
    <3>1. Failure(FALSE)
      BY <2>2 DEF PostUnanswered
    <3>2. QED
      BY <1>1, <3>1, FailureLeaves
  <2>3. QED
    BY <2>1, <2>2
<1>7. QED
  BY <1>2, <1>3, <1>4, <1>5, <1>6, OrderArrives

-----------------------------------------------------------------------------
\* Cancelling, losing an answer, and the steps that decide nothing

\* The order a cancellation closes, or leaves because the venue was faster.
LEMMA Cancellation ==
    ASSUME Inv, pc \in {"cancel", "requery"}, NEW closed \in {"wait", "done", "cancel"},
           orders[PendingId].state # "wait" => closed = orders[PendingId].state,
           orders' = [orders EXCEPT ![PendingId].state = closed],
           UNCHANGED <<clock, inflight, krw, btc, state, intents, posts>>,
           \/ pc = "cancel" /\ pc' = "requery" /\ call' = call
           \/ pc' \notin Special /\ (pc' # "idle" => call' \in CallShape /\ call'.at <= clock)
    PROVE  Inv'
<1>1. Pending # {} /\ Exists(PendingId) /\ PendingId \in Id
  BY PendingIsNewest DEF Inv, Path
<1>2. PICK o \in OrderShape : o = orders[PendingId]
  BY <1>1 DEF Inv, Shape, Exists, Absent
<1>3. krw' \in Int /\ btc' \in Int
  BY DEF Inv, Shape
<1> DEFINE new == [o EXCEPT !.state = closed]
<1>4. new \in OrderShape /\ new.state = closed /\ new.last = o.last
  BY OrderClosed
<1>5. orders' = [orders EXCEPT ![PendingId] = new]
  BY <1>2
<1> HIDE DEF new
<1>6. orders[PendingId].state # "wait" => new.state # "wait"
  BY <1>4
<1>7. QED
  BY <1>1, <1>2, <1>3, <1>4, <1>5, <1>6, OrderMoves

\* CancelOrder: the remainder is cancelled unless the order has just closed.
LEMMA CancelOrderStep ==
    ASSUME Inv, CancelOrder
    PROVE  Inv'
<1>1. Pending # {} /\ Exists(PendingId) /\ PendingId \in Id /\ pc = "cancel"
  BY PendingIsNewest DEF Inv, Path, CancelOrder
<1>2. PICK o \in OrderShape : o = orders[PendingId]
  BY <1>1 DEF Inv, Shape, Exists, Absent
<1> DEFINE closed == IF o.state = "wait" /\ o.due = 0 THEN "cancel" ELSE o.state
<1>3. closed \in {"wait", "done", "cancel"} /\ (o.state # "wait" => closed = o.state)
  BY DEF OrderShape
<1>4. orders' = [orders EXCEPT ![PendingId].state = closed]
  BY <1>2 DEF CancelOrder
<1>5. UNCHANGED <<clock, inflight, krw, btc, state, intents, posts>> /\ pc' = "requery" /\ call' = call
  BY DEF CancelOrder, Goto, journal
<1> HIDE DEF closed
<1>6. QED
  BY <1>1, <1>2, <1>3, <1>4, <1>5, Cancellation

\* LoseAnswer: a request or its answer is lost; a cancellation may have taken effect.
LEMMA LoseAnswerStep ==
    ASSUME Inv, LoseAnswer
    PROVE  Inv'
<1>1. pc # "idle" /\ Failure(FALSE) /\ UNCHANGED <<clock, inflight, krw, btc, posts>>
  BY DEF LoseAnswer
<1>2. /\ UNCHANGED <<state, intents>>
      /\ pc' \notin Special /\ (pc' # "idle" => call' \in CallShape /\ call'.at <= clock)
  BY <1>1, FailureLeaves
<1>3. CASE UNCHANGED orders
  <2>1. clock' \in Nat /\ clock <= clock'
    BY <1>1 DEF Inv, Shape
  <2>2. QED
    BY <1>1, <1>2, <1>3, <2>1, QuietStep
<1>4. CASE ~UNCHANGED orders
  <2>1. pc = "cancel" /\ orders[PendingId].state = "wait" /\ orders' = [orders EXCEPT ![PendingId].state = "cancel"]
    BY <1>4 DEF LoseAnswer
  <2>2. QED
    BY <1>1, <1>2, <2>1, Cancellation
<1>5. QED
  BY <1>3, <1>4

\* Tick, the calls that begin, answers that change nothing, refused and frozen
\* candles, submissions that send nothing, and crashes.
LEMMA QuietSteps ==
    ASSUME Inv,
           \/ Tick \/ ProcessCompletedCandle \/ OnPrice \/ Reconcile
           \/ QueryNotFound \/ NothingPending \/ ReadAccounts
           \/ CandleUnfit \/ CandleFrozen \/ CandleRefused \/ SubmitNothing \/ SubmitStale \/ Crash
    PROVE  Inv'
<1>1. clock \in Nat /\ krw \in Int /\ btc \in Int
  BY DEF Inv, Shape
<1>2. UNCHANGED <<orders, inflight, krw, btc, posts>>
  BY DEF Tick, ProcessCompletedCandle, OnPrice, Reconcile, Begin, QueryNotFound, NothingPending, ReadAccounts,
         CandleUnfit, CandleFrozen, CandleRefused, SubmitNothing, SubmitStale, Crash, venue
<1>3. CASE Tick
  <2>1. clock' \in Nat /\ clock <= clock' /\ UNCHANGED <<state, intents, pc, call>>
    BY <1>1, <1>3 DEF Tick, journal
  <2>2. QED
    BY <1>2, <2>1, QuietStep
<1>4. CASE ProcessCompletedCandle \/ OnPrice \/ Reconcile
  <2>1. PICK kind \in {"candle", "price", "reconcile"} : Begin(kind)
    BY <1>4 DEF ProcessCompletedCandle, OnPrice, Reconcile
  <2> DEFINE new == [kind |-> kind, at |-> clock, input |-> Nil, balances |-> Unread, plan |-> NoPlan]
  <2>2. call' = new /\ pc' = "reconcile" /\ UNCHANGED <<clock, state, intents>>
    BY <2>1 DEF Begin, journal
  <2>3. NoPlan \in PlanShape
    BY DEF NoPlan, PlanShape, NoTime
  <2>4. new \in CallShape /\ new.at = clock
    BY <1>1, <2>3 DEF CallShape
  <2> HIDE DEF new
  <2>5. pc' \notin Special /\ call' \in CallShape /\ call'.at <= clock /\ clock' \in Nat /\ clock <= clock'
    BY <1>1, <2>2, <2>4 DEF Special
  <2>6. QED
    BY <1>2, <2>2, <2>5, QuietStep
<1>5. CASE QueryNotFound \/ SubmitStale
  <2>1. PICK r \in BOOLEAN : Failure(r)
    BY <1>5 DEF QueryNotFound, SubmitStale
  <2>2. pc # "idle" /\ UNCHANGED clock
    BY <1>5 DEF QueryNotFound, SubmitStale
  <2>3. /\ UNCHANGED <<state, intents>>
        /\ pc' \notin Special /\ (pc' # "idle" => call' \in CallShape /\ call'.at <= clock)
    BY <2>1, <2>2, FailureLeaves
  <2>4. QED
    BY <1>1, <1>2, <2>2, <2>3, QuietStep
<1>6. CASE NothingPending
  <2>1. pc # "idle" /\ pc' = "accounts" /\ call' = call /\ UNCHANGED <<clock, state, intents>>
    BY <1>6 DEF NothingPending, Goto, journal
  <2>2. pc' \notin Special /\ call' \in CallShape /\ call'.at <= clock
    BY <2>1 DEF Inv, Shape, Special
  <2>3. QED
    BY <1>1, <1>2, <2>1, <2>2, QuietStep
<1>7. CASE ReadAccounts
  <2>1. call \in CallShape /\ call.at <= clock /\ After(call.kind) \in {"candle", "price", "idle"}
    BY <1>7 DEF ReadAccounts, Inv, Shape, After
  <2>2. Accounts \in BalanceShape
    BY <1>1 DEF Accounts, BalanceShape, Open
  <2>3. [call EXCEPT !.balances = Accounts] \in CallShape /\ [call EXCEPT !.balances = Accounts].at = call.at
    BY <2>1, <2>2 DEF CallShape
  <2>4. UNCHANGED <<clock, state, intents>>
        /\ pc' \notin Special /\ (pc' # "idle" => call' \in CallShape /\ call'.at <= clock)
    BY <1>7, <2>1, <2>3 DEF ReadAccounts, Goto, Special
  <2>5. QED
    BY <1>1, <1>2, <2>4, QuietStep
<1>8. CASE CandleUnfit \/ CandleFrozen \/ CandleRefused \/ SubmitNothing \/ Crash
  <2>1. pc' = "idle" /\ UNCHANGED <<clock, state, intents>>
    BY <1>8 DEF CandleUnfit, CandleFrozen, CandleRefused, SubmitNothing, Crash, Goto, journal
  <2>2. pc' \notin Special
    BY <2>1 DEF Special
  <2>3. QED
    BY <1>1, <1>2, <2>1, <2>2, QuietStep
<1>9. QED
  BY <1>3, <1>4, <1>5, <1>6, <1>7, <1>8

-----------------------------------------------------------------------------
\* Reconciliation

\* A quotient is a number.
LEMMA QuotientIsNumber ==
    ASSUME NEW a \in Int, NEW b \in Nat \ {0}
    PROVE  a \div b \in Int
OBVIOUS

\* What the venue did since the last look.
IncShape == [qty : Nat, funds : Int, fee : Int]

\* A buy makes a position of the right shape.
LEMMA BoughtFits ==
    ASSUME NEW pos \in {Flat} \cup PositionShape, NEW o \in OrderShape, NEW inc \in IncShape,
           inc.qty > 0, o.qty >= inc.qty
    PROVE  Bought(pos, o, inc) \in PositionShape
<1>1. inc.qty \in Nat \ {0} /\ inc.funds \in Int /\ inc.fee \in Int
  BY DEF IncShape
<1>2. o.qty \in Nat \ {0} /\ o.funds \in Int /\ o.first \in Int
  BY <1>1 DEF OrderShape
<1>3. inc.funds \div inc.qty \in Int /\ o.funds \div o.qty \in Int
  BY <1>1, <1>2, QuotientIsNumber
<1>4. CASE pos.qty = 0
  <2> DEFINE entry == inc.funds \div inc.qty
             basis == inc.funds + inc.fee
             initial == InitialStop(entry)
  <2>1. entry \in Int /\ basis \in Int /\ initial \in Int /\ 0 \in Int /\ NoTime \in Int
    BY <1>1, <1>3 DEF InitialStop, NoTime
  <2>2. Bought(pos, o, inc) =
           [qty |-> inc.qty, entry |-> entry, initial |-> initial, stop |-> initial, high |-> entry,
            entryAt |-> o.first, basis |-> basis, realized |-> 0, next |-> 0, nextAt |-> NoTime, seen |-> Nil]
    BY <1>4 DEF Bought
  <2> HIDE DEF entry, basis, initial
  <2>3. QED
    BY <1>1, <1>2, <2>1, <2>2 DEF PositionShape
<1>5. CASE pos.qty # 0
  <2>1. pos \in PositionShape
    BY <1>5 DEF Flat
  <2> DEFINE qty == pos.qty + inc.qty
             entry == o.funds \div o.qty
             initial == InitialStop(entry)
             stop == RaisedStop(pos.stop, entry)
             high == RaisedHigh(pos.high, entry)
             basis == pos.basis + inc.funds + inc.fee
  <2>2. pos.qty \in Nat \ {0} /\ pos.stop \in Int /\ pos.high \in Int /\ pos.basis \in Int
    BY <2>1 DEF PositionShape
  <2>3. qty \in Nat \ {0} /\ entry \in Int /\ initial \in Int /\ basis \in Int
    BY <1>1, <1>3, <2>2 DEF InitialStop
  <2>4. stop \in Int /\ high \in Int
    BY <2>2, <2>3, LargerOfTwo DEF RaisedStop, RaisedHigh
  <2>5. Bought(pos, o, inc) = [pos EXCEPT !.qty = qty, !.entry = entry, !.initial = initial, !.stop = stop,
                                          !.high = high, !.basis = basis]
    BY <1>5, Zenon DEF Bought
  <2> HIDE DEF qty, entry, initial, stop, high, basis
  <2>6. QED
    BY <2>1, <2>3, <2>4, <2>5 DEF PositionShape
<1>6. QED
  BY <1>4, <1>5

\* The basis of a sale is a number.
LEMMA SoldBasisFits ==
    ASSUME NEW pos \in PositionShape, NEW inc \in IncShape
    PROVE  SoldBasis(pos, inc) \in Int
<1>1. pos.qty \in Nat \ {0} /\ pos.basis \in Int /\ inc.qty \in Int
  BY DEF PositionShape, IncShape
<1>2. pos.basis * inc.qty \in Int
  BY <1>1
<1>3. QED
  BY <1>1, <1>2, QuotientIsNumber DEF SoldBasis

\* A late fee changes no exit.
LEMMA ChargeTradeFits ==
    ASSUME NEW trades \in Seq(TradeShape), NEW fee \in Int
    PROVE  /\ ChargeTrade(trades, fee) \in Seq(TradeShape) /\ Len(ChargeTrade(trades, fee)) = Len(trades)
           /\ \A k \in 1..Len(trades) : ChargeTrade(trades, fee)[k].exit = trades[k].exit
<1>1. CASE trades = <<>>
  BY <1>1 DEF ChargeTrade
<1>2. CASE trades # <<>>
  <2> DEFINE n == Len(trades)
             pnl == trades[n].pnl - fee
             t == [trades[n] EXCEPT !.pnl = pnl]
  <2>1. n \in 1..n /\ trades[n] \in TradeShape /\ n \in Nat
    BY <1>2, EmptySeq, LenProperties, ElementOfSeq
  <2>2. pnl \in Int
    BY <2>1 DEF TradeShape
  <2>3. ChargeTrade(trades, fee) = [trades EXCEPT ![n] = t]
    BY <1>2, Zenon DEF ChargeTrade
  <2> HIDE DEF pnl
  <2>4. t \in TradeShape /\ t.exit = trades[n].exit
    BY <2>1, <2>2 DEF TradeShape
  <2> HIDE DEF t
  <2>5. ChargeTrade(trades, fee) \in Seq(TradeShape) /\ Len(ChargeTrade(trades, fee)) = n
    BY <2>1, <2>3, <2>4, ExceptSeq
  <2>6. \A k \in 1..n : ChargeTrade(trades, fee)[k] = IF k = n THEN t ELSE trades[k]
    BY <2>1, <2>3, <2>4, ExceptSeq
  <2>7. QED
    BY <2>4, <2>5, <2>6
<1>3. QED
  BY <1>1, <1>2

\* Trades that are added are exits of the order at hand, the others keep their exit.
ExitsKept(old, new, last) ==
    \A k \in 1..Len(new) : \/ k <= Len(old) /\ new[k].exit = old[k].exit
                           \/ k > Len(old) /\ new[k].exit = last /\ last # NoTime

\* Reconciliation may change cash, position and trades, and nothing else of the state.
Paid(s, cash, pos) == [s EXCEPT !.cash = cash, !.position = pos]
Settled(s, cash, trades, pos) == [s EXCEPT !.cash = cash, !.trades = trades, !.position = pos]
Corrected(s, cash, trades) == [s EXCEPT !.cash = cash, !.trades = trades]

\* What stays of a state through reconciliation.
KeepsCursors(old, new, last) ==
    /\ new \in StateShape /\ ExitsKept(old.trades, new.trades, last)
    /\ new.riskAt = old.riskAt /\ new.riskCount = old.riskCount /\ new.completed = old.completed

\* Payments keep the shape of the state and move no cursor.
LEMMA PaymentsKeepCursors ==
    ASSUME NEW s \in StateShape, NEW cash \in Int, NEW pos \in {Flat} \cup PositionShape,
           NEW trades \in Seq(TradeShape), NEW last \in Int, ExitsKept(s.trades, trades, last)
    PROVE  /\ KeepsCursors(s, Paid(s, cash, pos), last)
           /\ KeepsCursors(s, Settled(s, cash, trades, pos), last)
           /\ KeepsCursors(s, Corrected(s, cash, trades), last)
<1>1. s.trades \in Seq(TradeShape)
  BY DEF StateShape
<1>2. ExitsKept(s.trades, s.trades, last)
  BY <1>1, LenProperties DEF ExitsKept
<1>3. Paid(s, cash, pos) \in StateShape /\ Paid(s, cash, pos).trades = s.trades
  BY DEF Paid, StateShape
<1>4. Settled(s, cash, trades, pos) \in StateShape /\ Settled(s, cash, trades, pos).trades = trades
  BY DEF Settled, StateShape
<1>5. Corrected(s, cash, trades) \in StateShape /\ Corrected(s, cash, trades).trades = trades
  BY DEF Corrected, StateShape
<1>6. \A n \in {Paid(s, cash, pos), Settled(s, cash, trades, pos), Corrected(s, cash, trades)} :
         n.riskAt = s.riskAt /\ n.riskCount = s.riskCount /\ n.completed = s.completed
  BY DEF Paid, Settled, Corrected, StateShape
<1>7. QED
  BY <1>2, <1>3, <1>4, <1>5, <1>6 DEF KeepsCursors

\* Buys and the fees of buys.
LEMMA BuyFits ==
    ASSUME NEW s \in StateShape, NEW o \in OrderShape, NEW inc \in IncShape, o.qty >= inc.qty
    PROVE  /\ inc.qty > 0 => KeepsCursors(s, Buy(s, o, inc), o.last)
           /\ KeepsCursors(s, BuyFee(s, inc), o.last)
<1> DEFINE pos == s.position
<1>1. s.cash \in Int /\ pos \in {Flat} \cup PositionShape /\ s.trades \in Seq(TradeShape) /\ o.last \in Int
  BY DEF StateShape, OrderShape
<1>2. inc.funds \in Int /\ inc.fee \in Int
  BY DEF IncShape
<1>3. ExitsKept(s.trades, s.trades, o.last)
  BY <1>1, LenProperties DEF ExitsKept
<1>4. ASSUME inc.qty > 0 PROVE KeepsCursors(s, Buy(s, o, inc), o.last)
  <2>1. s.cash - inc.funds - inc.fee \in Int
    BY <1>1, <1>2
  <2>2. Bought(pos, o, inc) \in PositionShape
    BY <1>1, <1>4, BoughtFits
  <2>3. Buy(s, o, inc) = Paid(s, s.cash - inc.funds - inc.fee, Bought(pos, o, inc))
    BY Zenon DEF Buy, Paid
  <2>4. QED
    BY <1>1, <1>3, <2>1, <2>2, <2>3, PaymentsKeepCursors
<1>5. KeepsCursors(s, BuyFee(s, inc), o.last)
  <2> DEFINE basis == pos.basis + inc.fee
             new == IF pos.qty = 0 THEN pos ELSE [pos EXCEPT !.basis = basis]
  <2>1. s.cash - inc.fee \in Int
    BY <1>1, <1>2
  <2>2. BuyFee(s, inc) = Paid(s, s.cash - inc.fee, new)
    BY Zenon DEF BuyFee, Paid
  <2>3. pos.qty # 0 => pos \in PositionShape
    BY <1>1 DEF Flat
  <2>4. pos.qty # 0 => basis \in Int
    BY <1>2, <2>3 DEF PositionShape
  <2> HIDE DEF basis, pos
  <2>5. new \in {Flat} \cup PositionShape
    BY <1>1, <2>3, <2>4 DEF PositionShape
  <2> HIDE DEF new
  <2>6. QED
    BY <1>1, <1>3, <2>1, <2>2, <2>5, PaymentsKeepCursors
<1>6. QED
  BY <1>4, <1>5

\* Sells and the fees of sells.
LEMMA SellFits ==
    ASSUME NEW s \in StateShape, NEW o \in OrderShape, NEW inc \in IncShape, inc.qty <= s.position.qty,
           inc.qty > 0 => o.last # NoTime
    PROVE  /\ inc.qty > 0 => KeepsCursors(s, Sell(s, o, inc), o.last)
           /\ s.position.qty > 0 => KeepsCursors(s, SellFee(s, inc), o.last)
           /\ KeepsCursors(s, ClosedFee(s, inc), o.last)
<1> DEFINE pos == s.position
<1>1. s.cash \in Int /\ pos \in {Flat} \cup PositionShape /\ s.trades \in Seq(TradeShape) /\ o.last \in Int
  BY DEF StateShape, OrderShape
<1>2. inc.qty \in Nat /\ inc.funds \in Int /\ inc.fee \in Int
  BY DEF IncShape
<1>3. ExitsKept(s.trades, s.trades, o.last)
  BY <1>1, LenProperties DEF ExitsKept
<1>4. pos.qty > 0 => pos \in PositionShape
  BY <1>1 DEF Flat
<1>5. ASSUME inc.qty > 0 PROVE KeepsCursors(s, Sell(s, o, inc), o.last)
  <2>1. pos \in PositionShape /\ o.last # NoTime
    BY <1>1, <1>2, <1>5 DEF Flat
  <2>2. pos.realized \in Int /\ pos.basis \in Int /\ pos.qty \in Nat
    BY <2>1 DEF PositionShape
  <2>3. SoldBasis(pos, inc) \in Int
    BY <2>1, SoldBasisFits
  <2> DEFINE cash == s.cash + inc.funds - inc.fee
             pnl == pos.realized + inc.funds - inc.fee - SoldBasis(pos, inc)
             trade == [pnl |-> pnl, exit |-> o.last]
             qty == pos.qty - inc.qty
             basis == pos.basis - SoldBasis(pos, inc)
             trades == IF inc.qty = pos.qty THEN Append(s.trades, trade) ELSE s.trades
             new == IF inc.qty = pos.qty THEN Flat ELSE [pos EXCEPT !.qty = qty, !.basis = basis, !.realized = pnl]
  <2>4. cash \in Int
    BY <1>1, <1>2
  <2>5. pnl \in Int
    BY <1>2, <2>2, <2>3
  <2>6. basis \in Int
    BY <2>2, <2>3
  <2>7. inc.qty # pos.qty => qty \in Nat \ {0}
    BY <1>2, <2>2
  <2>8. Sell(s, o, inc) = Settled(s, cash, trades, new)
    BY Zenon DEF Sell, Settled
  <2> HIDE DEF cash, pnl, basis, qty, pos
  <2>9. new \in {Flat} \cup PositionShape
    BY <2>1, <2>5, <2>6, <2>7 DEF PositionShape
  <2>10. trade \in TradeShape /\ trade.exit = o.last
    BY <1>1, <2>5 DEF TradeShape
  <2> HIDE DEF trade, new
  <2>11. trades \in Seq(TradeShape) /\ ExitsKept(s.trades, trades, o.last)
    <3>1. /\ Append(s.trades, trade) \in Seq(TradeShape)
          /\ Len(Append(s.trades, trade)) = Len(s.trades) + 1 /\ Len(s.trades) \in Nat
          /\ \A k \in 1..Len(s.trades) : Append(s.trades, trade)[k] = s.trades[k]
          /\ Append(s.trades, trade)[Len(s.trades) + 1] = trade
      BY <1>1, <2>10, AppendProperties, LenProperties
    <3>2. ExitsKept(s.trades, Append(s.trades, trade), o.last)
      BY <2>1, <2>10, <3>1 DEF ExitsKept
    <3>3. QED
      BY <1>1, <1>3, <3>1, <3>2
  <2> HIDE DEF trades
  <2>12. QED
    BY <1>1, <2>4, <2>8, <2>9, <2>11, PaymentsKeepCursors
<1>6. ASSUME pos.qty > 0 PROVE KeepsCursors(s, SellFee(s, inc), o.last)
  <2> DEFINE realized == pos.realized - inc.fee
             new == [pos EXCEPT !.realized = realized]
  <2>1. s.cash - inc.fee \in Int
    BY <1>1, <1>2
  <2>2. pos \in PositionShape
    BY <1>4, <1>6
  <2>3. pos.realized \in Int
    BY <2>2 DEF PositionShape
  <2>4. realized \in Int
    BY <1>2, <2>3
  <2>5. SellFee(s, inc) = Paid(s, s.cash - inc.fee, new)
    BY Zenon DEF SellFee, Paid
  <2> HIDE DEF realized, pos
  <2>6. new \in PositionShape
    BY <2>2, <2>4 DEF PositionShape
  <2> HIDE DEF new
  <2>7. QED
    BY <1>1, <1>3, <2>1, <2>5, <2>6, PaymentsKeepCursors
<1>7. KeepsCursors(s, ClosedFee(s, inc), o.last)
  <2> DEFINE trades == ChargeTrade(s.trades, inc.fee)
  <2>1. s.cash - inc.fee \in Int
    BY <1>1, <1>2
  <2>2. trades \in Seq(TradeShape) /\ ExitsKept(s.trades, trades, o.last)
    BY <1>1, <1>2, ChargeTradeFits, LenProperties DEF ExitsKept
  <2>3. ClosedFee(s, inc) = Corrected(s, s.cash - inc.fee, trades)
    BY Zenon DEF ClosedFee, Corrected
  <2> HIDE DEF trades
  <2>4. QED
    BY <1>1, <2>1, <2>2, <2>3, PaymentsKeepCursors
<1>8. QED
  BY <1>5, <1>6, <1>7

\* What the venue says of an order, once accepted, keeps every cursor.
LEMMA ApplyFits ==
    ASSUME NEW s \in StateShape, NEW o \in OrderShape, NEW inc \in IncShape, o.qty >= inc.qty,
           o.side = "ask" /\ inc.qty > 0 => inc.qty <= s.position.qty, inc.qty > 0 => o.last # NoTime
    PROVE  KeepsCursors(s, Apply(s, o, inc), o.last)
<1>1. inc.qty \in Nat /\ o.side \in {"bid", "ask"}
  BY DEF IncShape, OrderShape
<1>2. s.position.qty \in Nat
  <2>1. s.position \in {Flat} \cup PositionShape
    BY DEF StateShape
  <2>2. QED
    BY <2>1 DEF Flat, PositionShape
<1>3. CASE o.side = "bid"
  <2>1. Apply(s, o, inc) = IF inc.qty > 0 THEN Buy(s, o, inc) ELSE BuyFee(s, inc)
    BY <1>1, <1>3 DEF Apply
  <2>2. QED
    BY <1>1, <2>1, BuyFits
<1>4. CASE o.side = "ask"
  <2>1. inc.qty <= s.position.qty
    BY <1>1, <1>2, <1>4
  <2>2. Apply(s, o, inc) = IF inc.qty > 0 THEN Sell(s, o, inc)
                           ELSE IF s.position.qty > 0 THEN SellFee(s, inc) ELSE ClosedFee(s, inc)
    BY <1>1, <1>2, <1>4 DEF Apply
  <2>3. QED
    BY <1>1, <1>2, <2>1, <2>2, SellFits
<1>5. QED
  BY <1>1, <1>3, <1>4

\* The row of an intent after a look at its order.
LEMMA RecordFits ==
    ASSUME NEW r \in IntentShape, NEW o \in OrderShape, NEW cancel \in BOOLEAN
    PROVE  /\ [Recorded(r, o) EXCEPT !.cancel = cancel] \in IntentShape
           /\ [Recorded(r, o) EXCEPT !.cancel = cancel].bar = r.bar
           /\ [Recorded(r, o) EXCEPT !.cancel = cancel].terminal = (o.state # "wait")
<1>1. (o.state # "wait") \in BOOLEAN /\ o.qty \in Nat /\ o.funds \in Int /\ o.fee \in Int
  BY DEF OrderShape
<1> DEFINE terminal == o.state # "wait"
           new == [r EXCEPT !.qty = o.qty, !.funds = o.funds, !.fee = o.fee, !.terminal = terminal]
<1>2. Recorded(r, o) = new
  BY DEF Recorded
<1> HIDE DEF terminal
<1>3. terminal \in BOOLEAN
  BY <1>1 DEF terminal
<1>4. new \in IntentShape /\ new.bar = r.bar /\ new.terminal = terminal
  BY <1>1, <1>3 DEF IntentShape
<1> HIDE DEF new
<1>5. /\ [new EXCEPT !.cancel = cancel] \in IntentShape
      /\ [new EXCEPT !.cancel = cancel].bar = new.bar /\ [new EXCEPT !.cancel = cancel].terminal = new.terminal
  BY <1>4 DEF IntentShape
<1>6. QED
  BY <1>2, <1>4, <1>5 DEF terminal

\* Query and Requery: accepted facts are booked once, and the intent is closed
\* only together with its order.
LEMMA BookStep ==
    ASSUME Inv, Pending # {}, Exists(PendingId), pc # "idle", Accepts(PendingId, orders[PendingId], call.at),
           NEW cancelling \in BOOLEAN, ApplyOrder(PendingId, cancelling),
           UNCHANGED <<clock, orders, inflight, krw, btc, posts, call>>,
           pc' = "accounts" \/ (pc' = "cancel" /\ orders[PendingId].state = "wait")
    PROVE  Inv'
<1>1. /\ PendingId = Newest /\ Newest \in 1..Len(intents) /\ Newest \in Id /\ Newest \in Pending
      /\ intents[Newest] \in IntentShape /\ DOMAIN intents = 1..Len(intents) /\ Len(intents) \in Nat
  BY PendingIsNewest DEF Inv
<1>2. PICK o \in OrderShape : o = orders[Newest]
  BY <1>1 DEF Inv, Shape, Exists, Absent
<1>3. PICK r \in IntentShape : r = intents[Newest]
  BY <1>1
<1>4. state # Nil /\ state \in StateShape
  BY <1>1 DEF Inv, Shape, Cursor
<1>5. Increment(o, r) \in IncShape /\ o.qty >= Increment(o, r).qty
  <2>1. o.qty \in Nat /\ o.funds \in Int /\ o.fee \in Int /\ r.qty \in Nat /\ r.funds \in Int /\ r.fee \in Int
    BY DEF OrderShape, IntentShape
  <2>2. o.qty - r.qty >= 0
    BY <1>1, <1>2, <1>3 DEF Accepts
  <2>3. o.qty - r.qty \in Nat /\ o.funds - r.funds \in Int /\ o.fee - r.fee \in Int /\ o.qty >= o.qty - r.qty
    BY <2>1, <2>2
  <2>4. QED
    BY <2>3 DEF Increment, IncShape
<1>6. /\ o.side = "ask" /\ Increment(o, r).qty > 0 => Increment(o, r).qty <= state.position.qty
      /\ Increment(o, r).qty > 0 => o.last # NoTime
  BY <1>1, <1>2, <1>3 DEF Accepts, Increment
<1>7. KeepsCursors(state, state', o.last)
  <2>1. state' = Apply(state, o, Increment(o, r))
    BY <1>1, <1>2, <1>3 DEF ApplyOrder
  <2>2. QED
    BY <1>4, <1>5, <1>6, <2>1, ApplyFits
<1>8. PICK new \in IntentShape : /\ intents' = [intents EXCEPT ![Newest] = new]
                                 /\ new.bar = r.bar /\ new.terminal = (o.state # "wait")
  <2>1. (intents[Newest].cancel \/ cancelling) \in BOOLEAN
    OBVIOUS
  <2> DEFINE cancel == Recorded(r, o).cancel \/ cancelling
             row == [Recorded(r, o) EXCEPT !.cancel = cancel]
  <2>2. intents' = [intents EXCEPT ![Newest] = row]
    BY <1>1, <1>2, <1>3, Zenon DEF ApplyOrder
  <2>3. cancel \in BOOLEAN
    OBVIOUS
  <2> HIDE DEF cancel
  <2>4. row \in IntentShape /\ row.bar = r.bar /\ row.terminal = (o.state # "wait")
    BY <2>3, RecordFits
  <2> HIDE DEF row
  <2>5. QED
    BY <2>2, <2>4
<1>9. /\ intents' \in Seq(IntentShape) /\ Len(intents') = Len(intents) /\ DOMAIN intents' = 1..Len(intents)
      /\ \A k \in 1..Len(intents) : intents'[k] = IF k = Newest THEN new ELSE intents[k]
      /\ Newest' = Newest
  BY <1>1, <1>8, ExceptSeq, LenProperties DEF Inv, Shape, Newest
<1>10. \A k \in 1..Len(intents) : intents'[k].bar = intents[k].bar
  BY <1>3, <1>8, <1>9
<1>11. \A k \in Id : Exists(k)' = Exists(k)
  BY DEF Exists
<1>12. Shape'
  <2>1. state' \in StateShape
    BY <1>7 DEF KeepsCursors
  <2>2. call' \in CallShape /\ call'.at <= clock'
    BY DEF Inv, Shape
  <2>3. QED
    BY <1>9, <2>1, <2>2 DEF Inv, Shape
<1>13. Path'
  <2>1. \A k \in 1..Len(intents) : k < Len(intents) => intents'[k].terminal
    BY <1>1, <1>9 DEF Inv, Path, Newest
  <2>2. \A k \in 1..Len(intents) : intents'[k].terminal => Exists(k)' /\ orders'[k].state # "wait"
    BY <1>1, <1>2, <1>8, <1>9 DEF Inv, Path, Exists
  <2>3. pc' = "cancel" => Pending' # {} /\ Exists(PendingId)'
    <3>1. ASSUME pc' = "cancel" PROVE Pending' = {Newest}
      <4>1. ~intents'[Newest].terminal
        BY <1>1, <1>2, <1>8, <1>9, <3>1
      <4>2. QED
        BY <1>1, <1>9, <2>1, <4>1 DEF Pending, Newest
    <3>2. QED
      BY <1>1, <1>11, <3>1 DEF PendingId
  <2>4. \A k \in Id : /\ posts'[k] <= 1
                      /\ Exists(k)' \/ k \in inflight' \/ posts'[k] > 0 => k <= Len(intents)'
                      /\ k \in inflight' => ~Exists(k)'
    BY <1>9, <1>11 DEF Inv, Path
  <2>5. pc' \notin {"send", "requery"}
    OBVIOUS
  <2>6. QED
    BY <1>9, <2>1, <2>2, <2>3, <2>4, <2>5 DEF Path
<1>14. Cursor'
  <2>1. state'.completed = state.completed
    BY <1>7 DEF KeepsCursors
  <2>2. state' # Nil
    BY <1>7 DEF KeepsCursors, StateShape, Nil
  <2>3. QED
    BY <1>4, <1>9, <1>10, <2>1, <2>2 DEF Inv, Cursor
<1>15. Cutoff'
  <2>1. state'.riskAt = state.riskAt /\ state'.riskCount = state.riskCount /\ state.riskAt <= clock
    BY <1>4, <1>7 DEF KeepsCursors, Inv, Cutoff
  <2>2. o.last = NoTime \/ o.last >= state.riskAt
    BY <1>1, <1>2, <1>4 DEF Inv, Cutoff
  <2>3. \A k \in 1..Len(state'.trades) : k > state.riskCount => state'.trades[k].exit >= state.riskAt
    <3>1. ASSUME NEW k \in 1..Len(state'.trades), k > state.riskCount PROVE state'.trades[k].exit >= state.riskAt
      <4>1. CASE k <= Len(state.trades) /\ state'.trades[k].exit = state.trades[k].exit
        <5>1. k \in 1..Len(state.trades)
          BY <4>1
        <5>2. QED
          BY <1>4, <3>1, <4>1, <5>1 DEF Inv, Cutoff
      <4>2. CASE state'.trades[k].exit = o.last /\ o.last # NoTime
        BY <2>2, <4>2
      <4>3. QED
        BY <1>7, <4>1, <4>2 DEF KeepsCursors, ExitsKept
    <3>2. QED
      BY <3>1
  <2>4. Pending' \subseteq {Newest}
    BY <1>1, <1>9 DEF Inv, Path, Pending, Newest
  <2>5. QED
    BY <1>1, <1>2, <2>1, <2>2, <2>3, <2>4 DEF Inv, Cutoff
<1>16. QED
  BY <1>12, <1>13, <1>14, <1>15 DEF Inv

\* Query and Requery, accepted or refused.
LEMMA QuerySteps ==
    ASSUME Inv, Query \/ Requery
    PROVE  Inv'
<1>1. /\ pc \in {"reconcile", "requery"} /\ Pending # {} /\ Exists(PendingId)
      /\ UNCHANGED <<clock, orders, inflight, krw, btc, posts>>
  BY DEF Query, Requery, Inv, Path, venue
<1>2. CASE Failure(TRUE)
  <2>1. /\ UNCHANGED <<state, intents>>
        /\ pc' \notin Special /\ (pc' # "idle" => call' \in CallShape /\ call'.at <= clock)
    BY <1>1, <1>2, FailureLeaves
  <2>2. clock' \in Nat /\ clock <= clock'
    BY <1>1 DEF Inv, Shape
  <2>3. QED
    BY <1>1, <2>1, <2>2, QuietStep
<1>3. CASE ~Failure(TRUE)
  <2>1. Accepts(PendingId, orders[PendingId], call.at)
    BY <1>3 DEF Query, Requery
  <2>2. PICK cancelling \in BOOLEAN : ApplyOrder(PendingId, cancelling)
    BY <1>3 DEF Query, Requery, PartialBuy
  <2>3. call' = call /\ (pc' = "accounts" \/ (pc' = "cancel" /\ orders[PendingId].state = "wait"))
    BY <1>3 DEF Query, Requery, PartialBuy, Goto
  <2>4. QED
    BY <1>1, <2>1, <2>2, <2>3, BookStep
<1>4. QED
  BY <1>2, <1>3

-----------------------------------------------------------------------------
\* Candles and prices

\* An announced stop that becomes active keeps the position in shape.
LEMMA ActivateFits ==
    ASSUME NEW pos \in {Flat} \cup PositionShape, NEW at
    PROVE  /\ Activate(pos, at) \in {Flat} \cup PositionShape
           /\ pos \in PositionShape => Activate(pos, at) \in PositionShape
<1>1. CASE pos = Flat
  BY <1>1 DEF Activate, Flat
<1>2. CASE pos \in PositionShape
  <2> DEFINE stop == Max({pos.stop, pos.next})
             new == [pos EXCEPT !.stop = stop, !.next = 0, !.nextAt = NoTime]
  <2>1. pos.stop \in Int /\ pos.next \in Int
    BY <1>2 DEF PositionShape
  <2>2. stop \in Int /\ 0 \in Int /\ NoTime \in Int
    BY <2>1, LargerOfTwo DEF NoTime
  <2>3. Activate(pos, at) \in {pos, new}
    BY Zenon DEF Activate
  <2> HIDE DEF stop
  <2>4. new \in PositionShape
    BY <1>2, <2>2 DEF PositionShape
  <2> HIDE DEF new
  <2>5. QED
    BY <1>2, <2>3, <2>4
<1>3. QED
  BY <1>1, <1>2

\* A candle that is over and well formed.
LEMMA CandleFits ==
    ASSUME NEW at \in Nat, NEW c \in Candles(at), c.valid
    PROVE  c \in InputShape /\ c.now <= at /\ End(c.bar) \in Int /\ Start(c.bar) \in Int
<1>1. MaxTime \in Nat /\ BarLength \in Nat
  BY Constants
<1>2. PICK bar \in 0..MaxTime : c \in [bar : {bar}, row : Rows, valid : {TRUE}, now : End(bar)..at]
  BY DEF Candles
<1>3. bar \in Nat /\ End(bar) \in Int /\ Start(bar) \in Int
  BY <1>1 DEF End, Start
<1>4. c.bar = bar /\ c.now \in End(bar)..at
  BY <1>2
<1>5. c.now \in Int /\ c.now <= at
  BY <1>3, <1>4
<1>6. c \in InputShape
  BY <1>2, <1>3, <1>5 DEF InputShape
<1>7. QED
  BY <1>3, <1>4, <1>5, <1>6

\* The position facts of a completed candle.
LEMMA ProgressedFits ==
    ASSUME NEW pos \in {Flat} \cup PositionShape, NEW c \in InputShape, End(c.bar) \in Int, Start(c.bar) \in Int
    PROVE  Progressed(pos, c) \in {Flat} \cup PositionShape
<1>1. CASE pos.qty = 0
  BY <1>1 DEF Progressed
<1>2. CASE pos.qty # 0
  <2>1. pos \in PositionShape
    BY <1>2 DEF Flat
  <2> DEFINE active == Activate(pos, End(c.bar))
             high == RaisedHigh(active.high, SeenHigh(pos, c))
  <2>2. active \in PositionShape
    BY <2>1, ActivateFits
  <2>3. active.high \in Int /\ pos.high \in Int /\ pos.entryAt \in Int
    BY <2>1, <2>2 DEF PositionShape
  <2>4. c.row \in Rows /\ c.bar \in Nat
    BY DEF InputShape
  <2>5. c.row.close \in Int /\ c.row.high \in Int
    BY <2>4, Constants
  <2>6. SeenHigh(pos, c) \in Int
    BY <2>3, <2>5, LargerOfTwo DEF SeenHigh
  <2>7. high \in Int
    BY <2>3, <2>6, LargerOfTwo DEF RaisedHigh
  <2>8. Fingerprint(c) \in PrintShape
    BY <2>4 DEF Fingerprint, PrintShape
  <2>9. Progressed(pos, c) = [active EXCEPT !.high = high, !.seen = Fingerprint(c)]
    BY <1>2, Zenon DEF Progressed
  <2> HIDE DEF active, high
  <2>10. QED
    BY <2>2, <2>7, <2>8, <2>9 DEF PositionShape
<1>3. QED
  BY <1>1, <1>2

\* A step that changes the position, or sets the journal up, and no cursor.
LEMMA PositionStep ==
    ASSUME Inv, UNCHANGED <<clock, orders, inflight, krw, btc, intents, posts>>,
           NEW s \in StateShape, IF state = Nil THEN \E b \in BalanceShape : s = InitialState(b) ELSE s = state,
           NEW pos \in {Flat} \cup PositionShape, state' = [s EXCEPT !.position = pos],
           pc' \in {"idle", "decide", "submit"}, pc' # "idle" => call' \in CallShape /\ call'.at <= clock,
           pc' = "decide" => /\ call'.input \in InputShape /\ call'.input.now <= call'.at
                             /\ s.completed # Nil => call'.input.bar > s.completed.bar,
           pc' = "submit" => call'.plan.bar = NoTime
    PROVE  Inv'
<1>1. /\ state' \in StateShape /\ state' # Nil /\ state'.trades = s.trades /\ state'.riskAt = s.riskAt
      /\ state'.riskCount = s.riskCount /\ state'.completed = s.completed
  BY DEF StateShape, Nil
<1>2. CASE state # Nil
  <2>1. s = state
    BY <1>2
  <2>2. Shape'
    BY <1>1 DEF Inv, Shape
  <2>3. Path'
    BY DEF Inv, Path, Exists, Newest, Pending
  <2>4. Cursor'
    BY <1>1, <1>2, <2>1 DEF Inv, Cursor
  <2>5. Pending' = Pending /\ \A k \in Id : Exists(k)' = Exists(k)
    BY DEF Pending, Exists
  <2>6. Cutoff'
    BY <1>1, <1>2, <2>1, <2>5 DEF Inv, Cutoff, Exists
  <2>7. QED
    BY <2>2, <2>3, <2>4, <2>6 DEF Inv
<1>3. CASE state = Nil
  <2>1. PICK b \in BalanceShape : s = InitialState(b)
    BY <1>3
  <2>2. s.trades = <<>> /\ s.riskAt = NoTime /\ s.completed = Nil
    BY <2>1 DEF InitialState
  <2>3. intents = <<>>
    BY <1>3 DEF Inv, Cursor
  <2>4. Len(intents) = 0 /\ Len(s.trades) = 0 /\ Pending' = {}
    BY <2>2, <2>3, EmptySeq DEF Pending
  <2>5. Shape'
    BY <1>1 DEF Inv, Shape
  <2>6. Path'
    BY DEF Inv, Path, Exists, Newest, Pending
  <2>7. Cursor'
    BY <1>1, <2>2, <2>3, <2>4 DEF Cursor
  <2>8. Cutoff'
    BY <1>1, <2>2, <2>4 DEF Inv, Shape, Cutoff, NoTime
  <2>9. QED
    BY <2>5, <2>6, <2>7, <2>8 DEF Inv
<1>4. QED
  BY <1>2, <1>3

\* The first state of the journal is what the accounts say.
LEMMA InitialFits ==
    ASSUME NEW b \in BalanceShape
    PROVE  InitialState(b) \in StateShape /\ InitialState(b).completed = Nil
<1>1. <<>> \in Seq(TradeShape) /\ NoTime \in Int /\ 0 \in Nat /\ b.krw \in Int
  BY EmptySeq DEF NoTime, BalanceShape
<1>2. QED
  BY <1>1 DEF InitialState, StateShape

\* CandleChecks: a candle that is decided on is newer than the completed one.
LEMMA CandleChecksStep ==
    ASSUME Inv, CandleChecks
    PROVE  Inv'
<1>1. call \in CallShape /\ call.at <= clock /\ call.at \in Nat /\ call.balances \in {Unread} \cup BalanceShape
  BY DEF CandleChecks, Inv, Shape, CallShape
<1>2. UNCHANGED <<clock, orders, inflight, krw, btc, intents, posts>>
  BY DEF CandleChecks, venue
<1>3. PICK c \in Candles(call.at) :
         LET b == call.balances
             s == IF state = Nil THEN InitialState(b) ELSE state
             refused == ~Monotonic(s, c) \/ OlderOrChanged(s.position, c)
         IN  /\ state # Nil \/ (b.known /\ c.valid)
             /\ IF Replayed(s, c) \/ refused \/ PreEntry(s.position, c)
                THEN state' = s /\ Goto("idle", call)
                ELSE state' = [s EXCEPT !.position = Progressed(@, c)] /\ Goto("decide", [call EXCEPT !.input = c])
  BY DEF CandleChecks
<1> DEFINE s == IF state = Nil THEN InitialState(call.balances) ELSE state
<1>4. state = Nil => call.balances \in BalanceShape
  BY <1>1, <1>3 DEF Unread
<1>5. s \in StateShape /\ (IF state = Nil THEN \E b \in BalanceShape : s = InitialState(b) ELSE s = state)
  BY <1>4, InitialFits DEF Inv, Shape
<1>6. s.position \in {Flat} \cup PositionShape
  BY <1>5 DEF StateShape
<1>7. CASE state' = s /\ Goto("idle", call)
  <2>1. state' = [s EXCEPT !.position = s.position]
    BY <1>5, <1>7 DEF StateShape
  <2>2. pc' = "idle"
    BY <1>7 DEF Goto
  <2> HIDE DEF s
  <2>3. QED
    BY <1>2, <1>5, <1>6, <2>1, <2>2, PositionStep
<1>8. CASE ~(state' = s /\ Goto("idle", call))
  <2>1. /\ Monotonic(s, c) /\ ~Replayed(s, c)
        /\ state' = [s EXCEPT !.position = Progressed(@, c)] /\ Goto("decide", [call EXCEPT !.input = c])
    BY <1>3, <1>8, Zenon
  <2>2. c.valid
    BY <2>1 DEF Monotonic
  <2>3. c \in InputShape /\ c.now <= call.at /\ End(c.bar) \in Int /\ Start(c.bar) \in Int
    BY <1>1, <2>2, CandleFits
  <2>4. Progressed(s.position, c) \in {Flat} \cup PositionShape
    BY <1>6, <2>3, ProgressedFits
  <2>5. s.completed # Nil => c.bar > s.completed.bar
    <3>1. ASSUME s.completed # Nil PROVE s.completed.bar \in Nat /\ c.bar \in Nat
      BY <1>5, <2>3, <3>1 DEF StateShape, PrintShape, InputShape
    <3>2. QED
      BY <2>1, <3>1 DEF Monotonic, Replayed
  <2>6. pc' = "decide" /\ call' = [call EXCEPT !.input = c]
    BY <2>1 DEF Goto
  <2>7. call' \in CallShape /\ call'.at = call.at /\ call'.input = c
    BY <1>1, <2>3, <2>6 DEF CallShape
  <2>8. state' = [s EXCEPT !.position = Progressed(s.position, c)]
    BY <2>1
  <2> HIDE DEF s
  <2>9. QED
    BY <1>1, <1>2, <1>5, <2>3, <2>4, <2>5, <2>6, <2>7, <2>8, PositionStep
<1>9. QED
  BY <1>7, <1>8

\* PriceStep: a protective sell is not the order of a candle.
LEMMA PriceKeeps ==
    ASSUME Inv, PriceStep
    PROVE  Inv'
<1>1. call \in CallShape /\ call.at <= clock /\ clock \in Nat
  BY DEF PriceStep, Inv, Shape
<1>2. UNCHANGED <<clock, orders, inflight, krw, btc, intents, posts>>
  BY DEF PriceStep, venue
<1>3. CASE pc' = "idle" /\ UNCHANGED state
  <2>1. pc' \notin Special
    BY <1>3 DEF Special
  <2>2. QED
    BY <1>1, <1>2, <1>3, <2>1, QuietStep
<1>4. CASE ~(pc' = "idle" /\ UNCHANGED state)
  <2> DEFINE pos == Activate(state.position, call.at)
             seen(p) == IF pos.qty > 0 THEN [pos EXCEPT !.high = RaisedHigh(@, p)] ELSE pos
             plan(p) == [action |-> "sell", price |-> p, size |-> seen(p).qty, bar |-> NoTime]
  <2>1. PICK p \in Prices \cup {0} :
           /\ state # Nil /\ state' = [state EXCEPT !.position = seen(p)]
           /\ \E next \in {"submit", "idle"} : Goto(next, [call EXCEPT !.plan = plan(p)])
    BY <1>4 DEF PriceStep, Goto
  <2>2. state \in StateShape /\ state.position \in {Flat} \cup PositionShape /\ p \in Int
    BY <2>1, Constants DEF Inv, Shape, StateShape
  <2>3. pos \in {Flat} \cup PositionShape
    BY <2>2, ActivateFits
  <2> DEFINE high == RaisedHigh(pos.high, p)
  <2>4. seen(p) = IF pos.qty > 0 THEN [pos EXCEPT !.high = high] ELSE pos
    BY Zenon
  <2> HIDE DEF pos
  <2>5. pos.qty > 0 => pos \in PositionShape
    BY <2>3 DEF Flat
  <2>6. pos.qty > 0 => high \in Int
    BY <2>2, <2>5, LargerOfTwo DEF RaisedHigh, PositionShape
  <2> HIDE DEF high, seen
  <2>7. seen(p) \in {Flat} \cup PositionShape
    BY <2>3, <2>4, <2>5, <2>6 DEF PositionShape
  <2>8. seen(p).qty \in Int
    BY <2>7 DEF Flat, PositionShape
  <2>9. plan(p) \in PlanShape /\ plan(p).bar = NoTime
    BY <2>2, <2>8 DEF PlanShape, NoTime
  <2> HIDE DEF plan
  <2>10. [call EXCEPT !.plan = plan(p)] \in CallShape /\ [call EXCEPT !.plan = plan(p)].at = call.at
         /\ [call EXCEPT !.plan = plan(p)].plan = plan(p)
    BY <1>1, <2>9 DEF CallShape
  <2>11. pc' \in {"submit", "idle"} /\ (pc' # "idle" => call' = [call EXCEPT !.plan = plan(p)])
    BY <2>1 DEF Goto
  <2>12. QED
    BY <1>1, <1>2, <2>1, <2>2, <2>7, <2>9, <2>10, <2>11, PositionStep
<1>5. QED
  BY <1>3, <1>4

\* CandleDecide: the cut-off passes every trade, the cursor moves to the candle,
\* and the order it may send is the first of that candle.
LEMMA CandleDecideStep ==
    ASSUME Inv, CandleDecide
    PROVE  Inv'
<1>1. /\ pc = "decide" /\ Pending = {} /\ ~RiskRefuses(call.input.now)
      /\ UNCHANGED <<clock, orders, inflight, krw, btc, intents, posts>>
  BY DEF CandleDecide, Frozen, venue
<1>2. /\ call \in CallShape /\ call.at <= clock /\ call.at \in Nat /\ clock \in Nat
      /\ state \in StateShape /\ state # Nil /\ call.input \in InputShape
      /\ call.input.now <= call.at /\ (state.completed # Nil => call.input.bar > state.completed.bar)
  BY <1>1 DEF Inv, Shape, Cursor, Cutoff, CallShape
<1>3. call.input.now \in Int /\ call.input.bar \in Nat /\ call.input.row \in Rows
  BY <1>2 DEF InputShape
<1>4. /\ state.position \in {Flat} \cup PositionShape /\ state.trades \in Seq(TradeShape)
      /\ state.completed \in {Nil} \cup PrintShape
  BY <1>2 DEF StateShape
<1>5. state.position.qty \in Nat
  BY <1>4 DEF Flat, PositionShape
<1>6. PICK action \in {"sell", "buy", "hold"}, size \in Int :
        /\ state' = Decided(state, call.input, action)
        /\ Goto(IF call.balances.known /\ action # "hold" THEN "submit" ELSE "idle",
                [call EXCEPT !.plan = [action |-> action, price |-> call.input.row.close,
                     size |-> IF action = "sell" THEN state.position.qty ELSE size, bar |-> call.input.bar]])
  <2>1. PICK verdict \in {"open", "halt", "exit", "unhealthy"}, size \in 1..MaxUnits :
           LET action == Action(verdict, call.input.row)
           IN  /\ state' = Decided(state, call.input, action)
               /\ Goto(IF call.balances.known /\ action # "hold" THEN "submit" ELSE "idle",
                       [call EXCEPT !.plan = [action |-> action, price |-> call.input.row.close,
                              size |-> IF action = "sell" THEN state.position.qty ELSE size,
                              bar |-> call.input.bar]])
    BY DEF CandleDecide
  <2>2. Action(verdict, call.input.row) \in {"sell", "buy", "hold"} /\ size \in Int
    BY Constants DEF Action
  <2>3. QED
    BY <2>1, <2>2, Zenon
<1>7. /\ state' \in StateShape /\ state'.riskAt = call.input.now /\ state'.riskCount = Len(state.trades)
      /\ state'.trades = state.trades /\ state'.completed = Fingerprint(call.input)
  <2> DEFINE next == NextStop(state.position)
             at == End(call.input.bar)
             moved == [state.position EXCEPT !.next = next, !.nextAt = at]
             pos == IF state.position.qty > 0 /\ action = "hold" THEN moved ELSE state.position
             print == Fingerprint(call.input)
             count == Len(state.trades)
  <2>1. count \in Nat /\ print \in PrintShape /\ at \in Int
    BY <1>3, <1>4, LenProperties, Constants DEF Fingerprint, PrintShape, End
  <2>2. state' = [state EXCEPT !.riskAt = call.input.now, !.riskCount = count, !.completed = print, !.position = pos]
    BY <1>6, Zenon DEF Decided
  <2>3. ASSUME state.position.qty > 0 PROVE moved \in PositionShape
    <3>1. state.position \in PositionShape
      BY <1>4, <2>3 DEF Flat
    <3>2. state.position.high \in Int /\ state.position.entry \in Int /\ state.position.stop \in Int
      BY <3>1 DEF PositionShape
    <3>3. next \in Int
      <4> DEFINE a == state.position.stop
                 b == state.position.entry
                 c == state.position.high - 1
      <4>1. a \in Int /\ b \in Int /\ c \in Int
        BY <3>2
      <4>2. next \in {a, Max({a, b, c})}
        BY DEF NextStop
      <4> HIDE DEF a, b, c, next
      <4>3. Max({a, b, c}) \in Int
        <5>1. \E x \in {a, b, c} : \A y \in {a, b, c} : x >= y
          BY <4>1
        <5>2. Max({a, b, c}) \in {a, b, c}
          BY <5>1 DEF Max
        <5>3. QED
          BY <4>1, <5>2
      <4>4. QED
        BY <4>1, <4>2, <4>3
    <3> HIDE DEF next, at
    <3>4. QED
      BY <2>1, <3>1, <3>3 DEF PositionShape
  <2> HIDE DEF moved, print, count
  <2>4. pos \in {Flat} \cup PositionShape
    BY <1>4, <2>3
  <2> HIDE DEF pos
  <2>5. /\ state' \in StateShape /\ state'.riskAt = call.input.now /\ state'.riskCount = count
        /\ state'.trades = state.trades /\ state'.completed = print
    BY <1>2, <1>3, <2>1, <2>2, <2>4 DEF StateShape
  <2>6. QED
    BY <2>5 DEF print, count
<1>8. /\ pc' \in {"submit", "idle"}
      /\ pc' # "idle" => call' \in CallShape /\ call'.at = call.at /\ call'.plan.bar = call.input.bar
  <2> DEFINE plan == [action |-> action, price |-> call.input.row.close,
                      size |-> IF action = "sell" THEN state.position.qty ELSE size, bar |-> call.input.bar]
  <2>1. call.input.row.close \in Int
    BY <1>3, Constants
  <2>2. plan \in PlanShape /\ plan.bar = call.input.bar
    BY <1>3, <1>5, <2>1 DEF PlanShape
  <2>3. pc' \in {"submit", "idle"} /\ (pc' # "idle" => call' = [call EXCEPT !.plan = plan])
    BY <1>6 DEF Goto
  <2> HIDE DEF plan
  <2>4. /\ [call EXCEPT !.plan = plan] \in CallShape /\ [call EXCEPT !.plan = plan].at = call.at
        /\ [call EXCEPT !.plan = plan].plan = plan
    BY <1>2, <2>2 DEF CallShape
  <2>5. QED
    BY <2>2, <2>3, <2>4
<1>9. state' # Nil /\ Fingerprint(call.input).bar = call.input.bar /\ Fingerprint(call.input) # Nil
  <2>1. state' # Nil
    BY <1>7 DEF StateShape, Nil
  <2>2. Fingerprint(call.input) \in PrintShape
    BY <1>3 DEF Fingerprint, PrintShape
  <2>3. Fingerprint(call.input) # Nil
    BY <2>2 DEF PrintShape, Nil
  <2>4. Fingerprint(call.input).bar = call.input.bar
    BY DEF Fingerprint
  <2>5. QED
    BY <2>1, <2>3, <2>4
<1>10. Shape'
  BY <1>1, <1>2, <1>7, <1>8 DEF Inv, Shape
<1>11. Path'
  BY <1>1, <1>8 DEF Inv, Path, Exists, Newest, Pending
<1>12. Cursor'
  <2>1. ASSUME NEW i \in 1..Len(intents) PROVE intents[i].bar \in Int /\ intents[i].bar < call.input.bar
    <3>1. intents[i].bar \in Int
      BY PendingIsNewest DEF Inv, IntentShape
    <3>2. CASE intents[i].bar = NoTime
      BY <1>3, <3>2 DEF NoTime
    <3>3. CASE intents[i].bar # NoTime
      <4>1. state.completed # Nil /\ intents[i].bar <= state.completed.bar
        BY <3>3 DEF Inv, Cursor
      <4>2. state.completed.bar \in Nat /\ call.input.bar > state.completed.bar
        BY <1>2, <1>4, <4>1 DEF PrintShape
      <4>3. QED
        BY <1>3, <3>1, <4>1, <4>2
    <3>4. QED
      BY <3>1, <3>2, <3>3
  <2>2. \A i \in 1..Len(intents) : intents[i].bar <= call.input.bar
    BY <1>3, <2>1
  <2>3. \A i, j \in 1..Len(intents) : intents[i].bar # NoTime /\ intents[i].bar = intents[j].bar => i = j
    BY DEF Inv, Cursor
  <2>4. QED
    BY <1>1, <1>7, <1>8, <1>9, <2>1, <2>2, <2>3 DEF Cursor
<1>13. Cutoff'
  <2>1. state'.riskAt <= clock'
    BY <1>1, <1>2, <1>3, <1>7
  <2>2. \A k \in 1..Len(state'.trades) : ~(k > state'.riskCount)
    BY <1>4, <1>7, LenProperties
  <2>3. Pending' = {}
    BY <1>1 DEF Pending
  <2>4. QED
    BY <1>8, <2>1, <2>2, <2>3 DEF Cutoff
<1>14. QED
  BY <1>10, <1>11, <1>12, <1>13 DEF Inv

-----------------------------------------------------------------------------
\* Submitting

\* Submit: the durable intent comes before the POST, and only when nothing is pending.
LEMMA SubmitStep ==
    ASSUME Inv, Submit
    PROVE  Inv'
<1> DEFINE amount == Amount(call.plan, call.balances)
           new == NewIntent(call.plan, amount)
           n == Len(intents)
<1>1. /\ pc = "submit" /\ Pending = {} /\ call.balances = Accounts /\ n < MaxOrders
      /\ intents' = Append(intents, new) /\ pc' = "send" /\ call' = call
      /\ UNCHANGED <<clock, orders, inflight, krw, btc, state, posts>>
  BY DEF Submit, SaveIntent, Goto, venue
<1>2. /\ call \in CallShape /\ call.at <= clock /\ state # Nil /\ state \in StateShape /\ intents \in Seq(IntentShape)
      /\ krw \in Int /\ btc \in Int
  BY <1>1 DEF Inv, Shape, Cursor
<1>3. call.plan \in PlanShape /\ call.at \in Nat
  BY <1>2 DEF CallShape
<1>4. call.plan.size \in Int /\ call.plan.price \in Int /\ call.plan.bar \in Int
  BY <1>3 DEF PlanShape
<1>5. amount \in Int
  <2>1. state.position.qty \in Int
    <3>1. state.position \in {Flat} \cup PositionShape
      BY <1>2 DEF StateShape
    <3>2. QED
      BY <3>1 DEF Flat, PositionShape
  <2>2. call.balances.krw \in Int /\ call.balances.btc \in Int
    BY <1>1, <1>2 DEF Accounts
  <2> DEFINE total == call.plan.size * call.plan.price
             most == Affordable(call.balances)
             budget == Min({total, most})
             units == Min({call.plan.size, state.position.qty, call.balances.btc})
  <2>3. total \in Int /\ most \in Int
    <3>1. total \in Int
      BY <1>4
    <3>2. call.balances.krw * FeeShare \in Int /\ FeeShare + 1 \in Nat \ {0}
      BY <2>2, Constants
    <3>3. QED
      BY <3>1, <3>2, QuotientIsNumber DEF Affordable
  <2> HIDE DEF total, most
  <2>4. budget \in Int /\ units \in Int
    BY <1>4, <2>1, <2>2, <2>3, SmallestIsNumber
  <2>5. amount \in {budget, units, 0}
    BY DEF Amount, total, most
  <2> HIDE DEF amount, budget, units
  <2>6. QED
    BY <2>4, <2>5
<1>6. new \in IntentShape /\ new.bar = call.plan.bar /\ ~new.terminal
  <2> HIDE DEF amount
  <2>1. QED
    BY <1>3, <1>4, <1>5 DEF NewIntent, IntentShape
<1> HIDE DEF amount, new
<1>7. /\ intents' \in Seq(IntentShape) /\ Len(intents') = n + 1 /\ n \in Nat
      /\ \A k \in 1..n : intents'[k] = intents[k]
      /\ intents'[n + 1] = new /\ DOMAIN intents' = 1..n + 1
  BY <1>1, <1>2, <1>6, AppendProperties, LenProperties
<1>8. Newest' = n + 1 /\ n + 1 \in Id /\ intents' # <<>>
  BY <1>1, <1>7, Constants, EmptySeq DEF Newest, Id
<1>9. \A k \in 1..n + 1 : k \in 1..n \/ k = n + 1
  BY <1>7
<1>10. \A k \in 1..n : intents[k].terminal
  BY <1>1, <1>2, LenProperties DEF Pending
<1>11. Shape'
  <2>1. Len(intents') <= MaxOrders
    BY <1>1, <1>7, Constants
  <2>2. QED
    BY <1>1, <1>2, <1>7, <2>1 DEF Inv, Shape
<1>12. posts[n + 1] = 0 /\ ~Exists(n + 1) /\ n + 1 \notin inflight
  <2>1. ~(n + 1 <= n)
    BY <1>7
  <2>2. posts[n + 1] \in Nat /\ ~(posts[n + 1] > 0) /\ ~Exists(n + 1) /\ n + 1 \notin inflight
    BY <1>8, <2>1 DEF Inv, Shape, Path
  <2>3. QED
    BY <2>2
<1>13. Path'
  <2>1. \A k \in Id : /\ posts'[k] <= 1
                      /\ Exists(k)' \/ k \in inflight' \/ posts'[k] > 0 => k <= Len(intents')
                      /\ k \in inflight' => ~Exists(k)'
    <3>1. ASSUME NEW k \in Id PROVE k <= n => k <= n + 1
      BY <1>7, Constants DEF Id
    <3>2. QED
      BY <1>1, <1>7, <3>1 DEF Inv, Path, Exists
  <2>2. \A k \in 1..Len(intents') : k < Len(intents') => intents'[k].terminal
    BY <1>7, <1>9, <1>10
  <2>3. \A k \in 1..Len(intents') : intents'[k].terminal => Exists(k)' /\ orders'[k].state # "wait"
    BY <1>1, <1>6, <1>7, <1>9 DEF Inv, Path, Exists
  <2>4. /\ intents' # <<>> /\ ~intents'[Newest'].terminal
        /\ posts'[Newest'] = 0 /\ ~Exists(Newest)' /\ Newest' \notin inflight'
    BY <1>1, <1>6, <1>7, <1>8, <1>12 DEF Exists
  <2>5. QED
    BY <1>1, <2>1, <2>2, <2>3, <2>4 DEF Path
<1>14. Cursor'
  <2>1. call.plan.bar # NoTime =>
            /\ state.completed # Nil /\ state.completed.bar = call.plan.bar
            /\ \A i \in 1..n : intents[i].bar < call.plan.bar
    BY <1>1 DEF Inv, Cursor
  <2>2. \A i \in 1..n + 1 : intents'[i].bar # NoTime => state.completed # Nil /\ intents'[i].bar <= state.completed.bar
    BY <1>4, <1>6, <1>7, <1>9, <2>1 DEF Inv, Cursor
  <2>3. \A i, j \in 1..n + 1 : intents'[i].bar # NoTime /\ intents'[i].bar = intents'[j].bar => i = j
    <3>1. ASSUME NEW i \in 1..n, call.plan.bar # NoTime PROVE intents[i].bar # call.plan.bar
      <4>1. intents[i].bar \in Int
        BY PendingIsNewest DEF Inv, IntentShape
      <4>2. QED
        BY <1>4, <2>1, <3>1, <4>1
    <3>2. \A i, j \in 1..n : intents[i].bar # NoTime /\ intents[i].bar = intents[j].bar => i = j
      BY DEF Inv, Cursor
    <3>3. QED
      BY <1>6, <1>7, <1>9, <3>1, <3>2
  <2>4. QED
    BY <1>1, <1>2, <1>7, <2>2, <2>3 DEF Cursor
<1>15. Cutoff'
  <2>1. \A k \in Pending' : ~Exists(k)'
    BY <1>1, <1>7, <1>9, <1>10, <1>12 DEF Pending, Exists
  <2>2. QED
    BY <1>1, <2>1 DEF Inv, Cutoff
<1>16. QED
  BY <1>11, <1>13, <1>14, <1>15 DEF Inv

-----------------------------------------------------------------------------
\* The invariant and what it says

\* The journal is empty, the venue knows nothing and no call runs.
LEMMA InitInv == Init => Inv
<1> SUFFICES ASSUME Init PROVE Inv
  OBVIOUS
<1>1. intents = <<>> /\ <<>> \in Seq(IntentShape) /\ Len(intents) = 0 /\ state = Nil /\ pc = "idle" /\ Pending = {}
  BY EmptySeq DEF Init, Pending
<1>2. Shape
  BY <1>1, Constants DEF Init, Shape
<1>3. \A i \in Id : posts[i] = 0 /\ ~Exists(i) /\ i \notin inflight
  BY DEF Init, Exists, Absent
<1>4. Path
  BY <1>1, <1>3 DEF Path
<1>5. Cursor
  BY <1>1 DEF Cursor
<1>6. Cutoff
  BY <1>1 DEF Cutoff
<1>7. QED
  BY <1>2, <1>4, <1>5, <1>6 DEF Inv

\* Every step of the service, the venue and the faults keeps the invariant.
LEMMA NextInv == Inv /\ [Next]_vars => Inv'
<1> SUFFICES ASSUME Inv, [Next]_vars PROVE Inv'
  OBVIOUS
<1>1. CASE Venue
  <2>1. PICK i \in Id : \/ \E p \in Prices, feeNow \in BOOLEAN : Fill(i, p, feeNow)
                        \/ PostFee(i) \/ Finish(i) \/ Arrive(i)
    BY <1>1 DEF Venue
  <2>2. QED
    BY <2>1, TradingSteps, ArriveStep
<1>2. CASE Service
  BY <1>2, QuerySteps, CancelOrderStep, QuietSteps, CandleChecksStep, CandleDecideStep, PriceKeeps, SubmitStep,
     PostStep DEF Service
<1>3. CASE Tick \/ ProcessCompletedCandle \/ OnPrice \/ Reconcile \/ SubmitStale \/ Crash
  BY <1>3, QuietSteps
<1>4. CASE LoseAnswer \/ PostUnanswered
  BY <1>4, LoseAnswerStep, PostStep
<1>5. CASE UNCHANGED vars
  <2>1. clock' \in Nat /\ clock <= clock'
    BY <1>5 DEF vars, Inv, Shape
  <2>2. QED
    BY <1>5, <2>1, QuietStep DEF vars, venue, journal
<1>6. QED
  BY <1>1, <1>2, <1>3, <1>4, <1>5 DEF Next

\* The invariant holds throughout (LiveService, LiveJournal and the venue).
THEOREM InvHolds == Spec => []Inv
BY InitInv, NextInv, PTL DEF Spec

\* However answers are lost, POSTs arrive late and the process crashes, an
\* identifier is posted at most once and no order is open or on its way beside
\* another (_submit, LiveJournal.pending).
THEOREM SoleOrderHolds == Spec => []SoleOrder
<1>1. Inv => SoleOrder
  BY PathIsSole DEF Inv
<1>2. QED
  BY <1>1, InvHolds, PTL

\* A candle gives rise to at most one order, whatever is retried or crashes
\* (process_completed_candle, the completed candle of the journal).
THEOREM OneOrderPerCandleHolds == Spec => []OneOrderPerCandle
<1>1. Inv => OneOrderPerCandle
  BY PendingIsNewest DEF Inv, Cursor, OneOrderPerCandle
<1>2. QED
  BY <1>1, InvHolds, PTL

-----------------------------------------------------------------------------
\* Every execution is booked exactly once

\* The account k, b and the books s differ by what order o did since row r was saved.
Balanced(k, b, s, o, r) ==
    LET inc == Increment(o, r)
    IN  IF r.side = "bid" THEN k = s.cash - inc.funds - inc.fee /\ b = s.position.qty + inc.qty
                          ELSE k = s.cash + inc.funds - inc.fee /\ b = s.position.qty - inc.qty

\* The account is untouched until the journal exists; from then on it differs
\* from the books by the pending order, which has recorded nothing before the
\* venue knows it.
Books ==
    /\ state = Nil => /\ krw = Cash /\ btc = 0
                      /\ pc # "idle" => call.balances = Unread \/ call.balances.krw = Cash
    /\ state # Nil => IF Pending # {} /\ Exists(Newest)
                      THEN /\ orders[Newest].side = intents[Newest].side
                           /\ Balanced(krw, btc, state, orders[Newest], intents[Newest])
                      ELSE krw = state.cash /\ btc = state.position.qty
    /\ Pending # {} /\ ~Exists(Newest) =>
           intents[Newest].qty = 0 /\ intents[Newest].funds = 0 /\ intents[Newest].fee = 0

\* What the journal has not booked is what the venue did since the last look.
LEMMA BooksAgree == Inv /\ Books => BooksMatch
<1> SUFFICES ASSUME Inv, Books, state # Nil PROVE BooksMatch
  BY DEF BooksMatch
<1>1. /\ Pending # {} => PendingId = Newest /\ Newest \in Id /\ intents[Newest] \in IntentShape
      /\ krw \in Int /\ btc \in Int /\ state \in StateShape
  BY PendingIsNewest DEF Inv, Shape
<1>2. state.cash \in Int /\ state.position.qty \in Int
  <2>1. state.cash \in Int /\ state.position \in {Flat} \cup PositionShape
    BY <1>1 DEF StateShape
  <2>2. QED
    BY <2>1 DEF Flat, PositionShape
<1>3. CASE Pending # {} /\ Exists(Newest)
  <2>1. PICK o \in OrderShape : o = orders[Newest]
    BY <1>1, <1>3 DEF Inv, Shape, Exists, Absent
  <2>2. PICK r \in IntentShape : r = intents[Newest]
    BY <1>1, <1>3
  <2>3. /\ o.qty \in Int /\ o.funds \in Int /\ o.fee \in Int /\ r.qty \in Int /\ r.funds \in Int /\ r.fee \in Int
        /\ r.side \in {"bid", "ask"}
    BY DEF OrderShape, IntentShape
  <2>4. Balanced(krw, btc, state, o, r)
    BY <1>3, <2>1, <2>2 DEF Books
  <2>5. Unbooked("qty") = o.qty - r.qty /\ Unbooked("funds") = o.funds - r.funds /\ Unbooked("fee") = o.fee - r.fee
    BY <1>1, <1>3, <2>1, <2>2 DEF Unbooked
  <2>6. Sign = IF r.side = "bid" THEN -1 ELSE 1
    BY <1>1, <1>3, <2>2 DEF Sign
  <2>7. QED
    BY <1>2, <2>3, <2>4, <2>5, <2>6 DEF BooksMatch, Balanced, Increment
<1>4. CASE ~(Pending # {} /\ Exists(Newest))
  <2>1. krw = state.cash /\ btc = state.position.qty
    BY <1>4 DEF Books
  <2>2. Unbooked("qty") = 0 /\ Unbooked("funds") = 0 /\ Unbooked("fee") = 0 /\ Sign \in {-1, 1}
    BY <1>1, <1>4 DEF Unbooked, Sign
  <2>3. QED
    BY <1>1, <1>2, <2>1, <2>2 DEF BooksMatch
<1>5. QED
  BY <1>3, <1>4

\* Steps that change neither the account nor the books.
LEMMA QuietBooks ==
    ASSUME Inv, Books, UNCHANGED <<orders, krw, btc, state, intents>>,
           state = Nil /\ pc' # "idle" =>
               call'.balances \in {Unread, Accounts} \/ (pc # "idle" /\ call'.balances = call.balances)
    PROVE  Books'
<1>1. Pending' = Pending /\ Newest' = Newest /\ Exists(Newest)' = Exists(Newest)
  BY DEF Pending, Newest, Exists
<1>2. Accounts.krw = krw
  BY DEF Accounts
<1>3. QED
  BY <1>1, <1>2 DEF Books

\* The pending order moves, and the account with it.
LEMMA OrderBooks ==
    ASSUME Inv, Books, Pending # {}, Exists(Newest), NEW o \in OrderShape, orders' = [orders EXCEPT ![Newest] = o],
           UNCHANGED <<state, intents>>, o.side = orders[Newest].side,
           LET inc == Increment(o, orders[Newest])
           IN  IF o.side = "bid" THEN krw' = krw - inc.funds - inc.fee /\ btc' = btc + inc.qty
                                 ELSE krw' = krw + inc.funds - inc.fee /\ btc' = btc - inc.qty
    PROVE  Books'
<1>1. Newest \in Id /\ Newest \in 1..Len(intents) /\ intents[Newest] \in IntentShape /\ state # Nil
  BY PendingIsNewest DEF Inv, Cursor
<1>2. PICK old \in OrderShape : old = orders[Newest]
  BY <1>1 DEF Inv, Shape, Exists, Absent
<1>3. PICK r \in IntentShape : r = intents[Newest]
  BY <1>1
<1>4. state.cash \in Int /\ state.position.qty \in Int
  <2>1. state.cash \in Int /\ state.position \in {Flat} \cup PositionShape
    BY <1>1 DEF Inv, Shape, StateShape
  <2>2. QED
    BY <2>1 DEF Flat, PositionShape
<1>5. /\ o.qty \in Int /\ o.funds \in Int /\ o.fee \in Int /\ r.qty \in Int /\ r.funds \in Int /\ r.fee \in Int
      /\ old.qty \in Int /\ old.funds \in Int /\ old.fee \in Int
  BY DEF OrderShape, IntentShape
<1>6. Pending' = Pending /\ Newest' = Newest /\ orders'[Newest] = o /\ o.known
  BY <1>1 DEF Pending, Newest, Inv, Shape, OrderShape
<1>7. old.side = r.side /\ Balanced(krw, btc, state, old, r)
  BY <1>1, <1>2, <1>3 DEF Books
<1>8. Balanced(krw', btc', state, o, r)
  BY <1>2, <1>4, <1>5, <1>7 DEF Balanced, Increment
<1>9. QED
  BY <1>1, <1>2, <1>3, <1>6, <1>7, <1>8 DEF Books, Exists

\* The venue learns of the pending order, or of nothing.
LEMMA ArrivalBooks ==
    ASSUME Inv, Books, NEW i \in 1..Len(intents), i \in Id, ~Exists(i),
           orders' \in {orders, [orders EXCEPT ![i] = NewOrder(i)]}, UNCHANGED <<krw, btc, state, intents>>
    PROVE  Books'
<1>1. i = Newest /\ Pending = {Newest} /\ intents[i] \in IntentShape
  BY PendingIsNewest DEF Inv, Path, Newest
<1>2. state # Nil
  BY <1>1, EmptySeq DEF Inv, Cursor, Newest, Shape
<1>3. Pending' = Pending /\ Newest' = Newest
  BY DEF Pending, Newest
<1>4. CASE orders' = orders
  BY <1>2, <1>3, <1>4 DEF Books, Exists
<1>5. CASE orders' = [orders EXCEPT ![i] = NewOrder(i)]
  <2>1. orders'[i] = NewOrder(i)
    BY <1>5 DEF Inv, Shape
  <2>2. /\ NewOrder(i).known /\ NewOrder(i).side = intents[i].side
        /\ NewOrder(i).qty = 0 /\ NewOrder(i).funds = 0 /\ NewOrder(i).fee = 0
    BY DEF NewOrder
  <2>3. krw = state.cash /\ btc = state.position.qty
    BY <1>1, <1>2 DEF Books
  <2>4. intents[i].qty = 0 /\ intents[i].funds = 0 /\ intents[i].fee = 0
    BY <1>1 DEF Books
  <2>5. krw \in Int /\ btc \in Int
    BY DEF Inv, Shape
  <2>6. Balanced(krw, btc, state, NewOrder(i), intents[i])
    BY <2>2, <2>3, <2>4, <2>5 DEF Balanced, Increment
  <2>7. QED
    BY <1>1, <1>2, <1>3, <2>1, <2>2, <2>6 DEF Books, Exists
<1>6. QED
  BY <1>4, <1>5

\* A step that keeps cash and units of the books.
LEMMA StateBooks ==
    ASSUME Inv, Books, state # Nil, state' # Nil, UNCHANGED <<orders, krw, btc, intents>>,
           state'.cash = state.cash, state'.position.qty = state.position.qty
    PROVE  Books'
<1>1. Pending' = Pending /\ Newest' = Newest /\ Exists(Newest)' = Exists(Newest)
  BY DEF Pending, Newest, Exists
<1>2. QED
  BY <1>1 DEF Books, Balanced

\* Fill, PostFee and Finish: only the pending order trades.
LEMMA TradingBooks ==
    ASSUME Inv, Books, NEW i \in Id,
           (\E p \in Prices, feeNow \in BOOLEAN : Fill(i, p, feeNow)) \/ PostFee(i) \/ Finish(i)
    PROVE  Books'
<1>1. i \in Open /\ Exists(i)
  BY DEF Fill, PostFee, Finish, Open, Exists
<1>2. i = Newest /\ Pending # {}
  <2>1. i \in 1..Len(intents) /\ orders[i].state = "wait"
    BY <1>1, PendingIsNewest, Constants DEF Open, Inv, Path, Id
  <2>2. ~intents[i].terminal
    BY <2>1 DEF Inv, Path
  <2>3. i = Len(intents)
    BY <2>1, <2>2, PendingIsNewest DEF Inv, Path
  <2>4. QED
    BY <2>1, <2>2, <2>3, PendingIsNewest DEF Inv, Newest, Pending
<1>3. PICK o \in OrderShape : o = orders[i]
  BY <1>1 DEF Inv, Shape, Open, Absent
<1>4. krw \in Int /\ btc \in Int /\ clock \in Nat
  BY DEF Inv, Shape
<1>5. o.qty \in Nat /\ o.funds \in Int /\ o.fee \in Int /\ o.due \in Int /\ o.first \in Int /\ o.side \in {"bid", "ask"}
  BY DEF OrderShape
<1>6. UNCHANGED <<state, intents>>
  BY DEF Fill, PostFee, Finish, journal
<1>7. CASE \E p \in Prices, feeNow \in BOOLEAN : Fill(i, p, feeNow)
  <2>1. PICK p \in Prices, feeNow \in BOOLEAN : Fill(i, p, feeNow)
    BY <1>7
  <2> DEFINE share == Fee(p)
             paid == IF feeNow THEN share ELSE 0
             first == IF o.first = NoTime THEN clock ELSE o.first
             qty == o.qty + 1
             funds == o.funds + p
             fee == o.fee + paid
             due == o.due + share - paid
             new == Traded(o, qty, funds, fee, due, first, clock)
  <2>2. orders' = [orders EXCEPT ![i] = new]
    BY <1>3, <2>1, Zenon DEF Fill, Traded
  <2>3. /\ krw' = krw - paid + (IF o.side = "bid" THEN -p ELSE p)
        /\ btc' = btc + (IF o.side = "bid" THEN 1 ELSE -1)
    BY <1>3, <2>1, Zenon DEF Fill
  <2>4. p \in Nat /\ share \in Nat /\ paid \in Nat
    BY Constants, FeeFits
  <2> HIDE DEF share
  <2>5. qty \in Nat /\ funds \in Int /\ fee \in Int /\ due \in Int /\ first \in Int /\ clock \in Int
    BY <1>4, <1>5, <2>4
  <2>6. new \in OrderShape
    BY <2>5, OrderTraded
  <2>7. new.qty = qty /\ new.funds = funds /\ new.fee = fee /\ new.side = o.side
    <3> HIDE DEF qty, funds, fee, due, first
    <3>1. QED
      BY DEF Traded, OrderShape
  <2> HIDE DEF new, paid
  <2>8. IF o.side = "bid" THEN krw' = krw - (new.funds - o.funds) - (new.fee - o.fee) /\ btc' = btc + (new.qty - o.qty)
                          ELSE krw' = krw + (new.funds - o.funds) - (new.fee - o.fee) /\ btc' = btc - (new.qty - o.qty)
    BY <1>4, <1>5, <2>3, <2>4, <2>7
  <2>9. QED
    BY <1>1, <1>2, <1>3, <1>6, <2>2, <2>6, <2>7, <2>8, OrderBooks DEF Increment
<1>8. CASE PostFee(i)
  <2> DEFINE fee == o.fee + o.due
             new == Charged(o, fee)
  <2>1. orders' = [orders EXCEPT ![i] = new]
    BY <1>3, <1>8, Zenon DEF PostFee, Charged
  <2>2. krw' = krw - o.due /\ btc' = btc
    BY <1>3, <1>8, Zenon DEF PostFee
  <2>3. fee \in Int
    BY <1>5
  <2>4. new \in OrderShape
    BY <2>3, OrderTraded
  <2>5. new.qty = o.qty /\ new.funds = o.funds /\ new.fee = fee /\ new.side = o.side
    <3> HIDE DEF fee
    <3>1. QED
      BY DEF Charged, OrderShape
  <2> HIDE DEF new
  <2>6. IF o.side = "bid" THEN krw' = krw - (new.funds - o.funds) - (new.fee - o.fee) /\ btc' = btc + (new.qty - o.qty)
                          ELSE krw' = krw + (new.funds - o.funds) - (new.fee - o.fee) /\ btc' = btc - (new.qty - o.qty)
    BY <1>4, <1>5, <2>2, <2>5
  <2>7. QED
    BY <1>1, <1>2, <1>3, <1>6, <2>1, <2>4, <2>5, <2>6, OrderBooks DEF Increment
<1>9. CASE Finish(i)
  <2> DEFINE new == [o EXCEPT !.state = "done"]
  <2>1. orders' = [orders EXCEPT ![i] = new] /\ krw' = krw /\ btc' = btc
    BY <1>3, <1>9 DEF Finish
  <2>2. new \in OrderShape /\ new.qty = o.qty /\ new.funds = o.funds /\ new.fee = o.fee /\ new.side = o.side
    BY DEF OrderShape
  <2> HIDE DEF new
  <2>3. IF o.side = "bid" THEN krw' = krw - (new.funds - o.funds) - (new.fee - o.fee) /\ btc' = btc + (new.qty - o.qty)
                          ELSE krw' = krw + (new.funds - o.funds) - (new.fee - o.fee) /\ btc' = btc - (new.qty - o.qty)
    BY <1>4, <1>5, <2>1, <2>2
  <2>4. QED
    BY <1>1, <1>2, <1>3, <1>6, <2>1, <2>2, <2>3, OrderBooks DEF Increment
<1>10. QED
  BY <1>7, <1>8, <1>9

\* CancelOrder and LoseAnswer: a cancellation moves no money.
LEMMA CancelBooks ==
    ASSUME Inv, Books, CancelOrder \/ LoseAnswer
    PROVE  Books'
<1>1. /\ UNCHANGED <<krw, btc, state, intents>>
      /\ state = Nil /\ pc' # "idle" => call'.balances \in {Unread, Accounts} \/ (pc # "idle" /\ call'.balances = call.balances)
  <2>1. CASE CancelOrder
    BY <2>1 DEF CancelOrder, Goto, journal
  <2>2. CASE LoseAnswer
    <3>1. pc # "idle" /\ Failure(FALSE) /\ UNCHANGED <<krw, btc>>
      BY <2>2 DEF LoseAnswer
    <3>2. call \in CallShape
      BY <3>1 DEF Inv, Shape
    <3>3. [call EXCEPT !.balances = Unread].balances = Unread
      BY <3>2 DEF CallShape
    <3>4. QED
      BY <3>1, <3>3 DEF Failure, Goto
  <2>3. QED
    BY <2>1, <2>2
<1>2. CASE orders' = orders
  BY <1>1, <1>2, QuietBooks
<1>3. CASE orders' # orders
  <2>1. pc = "cancel"
    BY <1>3 DEF CancelOrder, LoseAnswer
  <2>2. Pending # {} /\ Exists(Newest) /\ PendingId = Newest /\ Newest \in Id
    BY <2>1, PendingIsNewest DEF Inv, Path
  <2>3. PICK o \in OrderShape : o = orders[Newest]
    BY <2>2 DEF Inv, Shape, Exists, Absent
  <2>4. PICK closed \in {"wait", "done", "cancel"} : orders' = [orders EXCEPT ![Newest].state = closed]
    BY <1>3, <2>2, <2>3 DEF CancelOrder, LoseAnswer, OrderShape
  <2> DEFINE new == [o EXCEPT !.state = closed]
  <2>5. orders' = [orders EXCEPT ![Newest] = new]
    BY <2>3, <2>4
  <2>6. new \in OrderShape /\ new.qty = o.qty /\ new.funds = o.funds /\ new.fee = o.fee /\ new.side = o.side
    BY DEF OrderShape
  <2> HIDE DEF new
  <2>7. o.qty \in Int /\ o.funds \in Int /\ o.fee \in Int /\ krw \in Int /\ btc \in Int
    BY DEF OrderShape, Inv, Shape
  <2>8. IF o.side = "bid" THEN krw' = krw - (new.funds - o.funds) - (new.fee - o.fee) /\ btc' = btc + (new.qty - o.qty)
                          ELSE krw' = krw + (new.funds - o.funds) - (new.fee - o.fee) /\ btc' = btc - (new.qty - o.qty)
    BY <1>1, <2>6, <2>7
  <2>9. QED
    BY <1>1, <2>2, <2>3, <2>5, <2>6, <2>8, OrderBooks DEF Increment
<1>4. QED
  BY <1>2, <1>3

\* Arrive, Post and PostUnanswered.
LEMMA SendBooks ==
    ASSUME Inv, Books, (\E i \in Id : Arrive(i)) \/ Post \/ PostUnanswered
    PROVE  Books'
<1>1. CASE \E i \in Id : Arrive(i)
  <2>1. PICK i \in Id : Arrive(i)
    BY <1>1
  <2>2. i \in inflight /\ ~Exists(i) /\ i <= Len(intents)
    BY <2>1 DEF Arrive, Inv, Path
  <2>3. i \in 1..Len(intents)
    BY <2>2, Constants, PendingIsNewest DEF Id, Inv
  <2>4. orders' \in {orders, [orders EXCEPT ![i] = NewOrder(i)]} /\ UNCHANGED <<krw, btc, state, intents>>
    BY <2>1 DEF Arrive, journal
  <2>5. QED
    BY <2>2, <2>3, <2>4, ArrivalBooks
<1>2. CASE Post \/ PostUnanswered
  <2>1. pc = "send"
    BY <1>2 DEF Post, PostUnanswered
  <2>2. ~Exists(Newest) /\ Newest \in 1..Len(intents) /\ Newest \in Id
    BY <2>1, PendingIsNewest DEF Inv, Path
  <2>3. orders' \in {orders, [orders EXCEPT ![Newest] = NewOrder(Newest)]} /\ UNCHANGED <<krw, btc, state, intents>>
    BY <1>2 DEF Post, PostUnanswered, Failure, journal
  <2>4. QED
    BY <2>2, <2>3, ArrivalBooks
<1>3. QED
  BY <1>1, <1>2

\* Calls that begin, requests without an effect, and steps that decide nothing.
LEMMA QuietBooksSteps ==
    ASSUME Inv, Books,
           \/ Tick \/ ProcessCompletedCandle \/ OnPrice \/ Reconcile
           \/ QueryNotFound \/ NothingPending \/ ReadAccounts
           \/ CandleUnfit \/ CandleFrozen \/ CandleRefused \/ SubmitNothing \/ SubmitStale \/ Crash
    PROVE  Books'
<1>1. CASE Tick \/ NothingPending
  BY <1>1, QuietBooks DEF Tick, NothingPending, Goto, venue, journal
<1>2. CASE ProcessCompletedCandle \/ OnPrice \/ Reconcile
  BY <1>2, QuietBooks DEF ProcessCompletedCandle, OnPrice, Reconcile, Begin, venue, journal
<1>3. CASE QueryNotFound \/ SubmitStale
  <2>1. PICK refused \in BOOLEAN : Failure(refused)
    BY <1>3 DEF QueryNotFound, SubmitStale
  <2>2. pc # "idle" /\ UNCHANGED <<orders, krw, btc, state, intents>>
    BY <1>3, <2>1 DEF QueryNotFound, SubmitStale, Failure, venue
  <2>3. [call EXCEPT !.balances = Unread].balances = Unread
    BY <2>2 DEF Inv, Shape, CallShape
  <2>4. QED
    BY <2>1, <2>2, <2>3, QuietBooks DEF Failure, Goto
<1>4. CASE ReadAccounts
  <2>1. pc # "idle" /\ UNCHANGED <<orders, krw, btc, state, intents>>
    BY <1>4 DEF ReadAccounts, venue
  <2>2. [call EXCEPT !.balances = Accounts].balances = Accounts
    BY <2>1 DEF Inv, Shape, CallShape
  <2>3. QED
    BY <1>4, <2>1, <2>2, QuietBooks DEF ReadAccounts, Goto
<1>5. CASE CandleUnfit \/ CandleFrozen \/ CandleRefused \/ SubmitNothing \/ Crash
  BY <1>5, QuietBooks DEF CandleUnfit, CandleFrozen, CandleRefused, SubmitNothing, Crash, Goto, venue, journal
<1>6. QED
  BY <1>1, <1>2, <1>3, <1>4, <1>5

\* What payments make of cash and position.
LEMMA PaymentsBooks ==
    ASSUME NEW s \in StateShape, NEW cash, NEW pos, NEW trades
    PROVE  /\ Paid(s, cash, pos).cash = cash /\ Paid(s, cash, pos).position = pos
           /\ Settled(s, cash, trades, pos).cash = cash /\ Settled(s, cash, trades, pos).position = pos
           /\ Corrected(s, cash, trades).cash = cash /\ Corrected(s, cash, trades).position = s.position
BY DEF Paid, Settled, Corrected, StateShape

\* A buy adds its units to the position.
LEMMA BoughtUnits ==
    ASSUME NEW pos \in {Flat} \cup PositionShape, NEW o, NEW inc \in IncShape
    PROVE  Bought(pos, o, inc).qty = pos.qty + inc.qty
<1>1. inc.qty \in Nat
  BY DEF IncShape
<1>2. CASE pos.qty = 0
  BY <1>1, <1>2 DEF Bought
<1>3. CASE pos.qty # 0
  <2>1. pos \in PositionShape
    BY <1>3 DEF Flat
  <2> DEFINE qty == pos.qty + inc.qty
             entry == o.funds \div o.qty
             stop == RaisedStop(pos.stop, entry)
             high == RaisedHigh(pos.high, entry)
             basis == pos.basis + inc.funds + inc.fee
  <2>2. Bought(pos, o, inc) = [pos EXCEPT !.qty = qty, !.entry = entry, !.initial = InitialStop(entry), !.stop = stop,
                                          !.high = high, !.basis = basis]
    BY <1>3, Zenon DEF Bought
  <2> HIDE DEF qty, entry, stop, high, basis
  <2>3. Bought(pos, o, inc).qty = qty
    BY <2>1, <2>2 DEF PositionShape
  <2>4. QED
    BY <2>3 DEF qty
<1>4. QED
  BY <1>2, <1>3

\* Accepted facts are booked exactly: what was paid or received, and the units.
LEMMA ApplyBooks ==
    ASSUME NEW s \in StateShape, NEW o \in OrderShape, NEW inc \in IncShape, inc.qty = 0 => inc.funds = 0,
           o.side = "ask" /\ inc.qty > 0 => inc.qty <= s.position.qty
    PROVE  IF o.side = "bid"
           THEN /\ Apply(s, o, inc).cash = s.cash - inc.funds - inc.fee
                /\ Apply(s, o, inc).position.qty = s.position.qty + inc.qty
           ELSE /\ Apply(s, o, inc).cash = s.cash + inc.funds - inc.fee
                /\ Apply(s, o, inc).position.qty = s.position.qty - inc.qty
<1> DEFINE pos == s.position
<1>1. inc.qty \in Nat /\ inc.funds \in Int /\ inc.fee \in Int /\ o.side \in {"bid", "ask"} /\ s.cash \in Int
  BY DEF IncShape, OrderShape, StateShape
<1>2. pos \in {Flat} \cup PositionShape /\ pos.qty \in Nat /\ (pos.qty > 0 => pos \in PositionShape)
  <2>1. pos \in {Flat} \cup PositionShape
    BY DEF StateShape
  <2>2. QED
    BY <2>1 DEF Flat, PositionShape
<1>3. CASE o.side = "bid" /\ inc.qty > 0
  <2>1. Apply(s, o, inc) = Buy(s, o, inc)
    BY <1>1, <1>3 DEF Apply
  <2>2. Buy(s, o, inc) = Paid(s, s.cash - inc.funds - inc.fee, Bought(pos, o, inc))
    BY Zenon DEF Buy, Paid
  <2>3. Bought(pos, o, inc).qty = pos.qty + inc.qty
    BY <1>2, BoughtUnits
  <2>4. QED
    BY <1>3, <2>1, <2>2, <2>3, PaymentsBooks
<1>4. CASE o.side = "bid" /\ inc.qty = 0
  <2> DEFINE basis == pos.basis + inc.fee
             new == IF pos.qty = 0 THEN pos ELSE [pos EXCEPT !.basis = basis]
  <2>1. Apply(s, o, inc) = BuyFee(s, inc)
    BY <1>1, <1>4 DEF Apply
  <2>2. BuyFee(s, inc) = Paid(s, s.cash - inc.fee, new)
    BY Zenon DEF BuyFee, Paid
  <2> HIDE DEF basis
  <2>3. new.qty = pos.qty
    BY <1>2 DEF PositionShape
  <2> HIDE DEF new
  <2>4. Apply(s, o, inc).cash = s.cash - inc.fee /\ Apply(s, o, inc).position.qty = pos.qty
    BY <2>1, <2>2, <2>3, PaymentsBooks
  <2>5. s.cash - inc.fee = s.cash - inc.funds - inc.fee /\ pos.qty = pos.qty + inc.qty
    BY <1>1, <1>2, <1>4
  <2>6. QED
    BY <1>4, <2>4, <2>5
<1>5. CASE o.side = "ask" /\ inc.qty > 0
  <2> DEFINE pnl == pos.realized + inc.funds - inc.fee - SoldBasis(pos, inc)
             trades == IF inc.qty = pos.qty THEN Append(s.trades, [pnl |-> pnl, exit |-> o.last]) ELSE s.trades
             qty == pos.qty - inc.qty
             basis == pos.basis - SoldBasis(pos, inc)
             new == IF inc.qty = pos.qty THEN Flat ELSE [pos EXCEPT !.qty = qty, !.basis = basis, !.realized = pnl]
  <2>1. Apply(s, o, inc) = Sell(s, o, inc)
    BY <1>1, <1>5 DEF Apply
  <2>2. Sell(s, o, inc) = Settled(s, s.cash + inc.funds - inc.fee, trades, new)
    BY Zenon DEF Sell, Settled
  <2>3. qty \in Int /\ (inc.qty = pos.qty => qty = 0) /\ pos \in PositionShape
    BY <1>1, <1>2, <1>5
  <2> HIDE DEF pnl, trades, qty, basis
  <2>4. new.qty = qty
    BY <2>3 DEF PositionShape, Flat
  <2> HIDE DEF new
  <2>5. Apply(s, o, inc).cash = s.cash + inc.funds - inc.fee /\ Apply(s, o, inc).position.qty = qty
    BY <2>1, <2>2, <2>4, PaymentsBooks
  <2>6. QED
    BY <1>5, <2>5 DEF qty
<1>6. CASE o.side = "ask" /\ inc.qty = 0
  <2>1. Apply(s, o, inc).cash = s.cash - inc.fee /\ Apply(s, o, inc).position.qty = pos.qty
    <3>1. CASE pos.qty > 0
      <4> DEFINE realized == pos.realized - inc.fee
                 new == [pos EXCEPT !.realized = realized]
      <4>1. Apply(s, o, inc) = SellFee(s, inc)
        BY <1>1, <1>6, <3>1 DEF Apply
      <4>2. SellFee(s, inc) = Paid(s, s.cash - inc.fee, new)
        BY Zenon DEF SellFee, Paid
      <4> HIDE DEF realized
      <4>3. new.qty = pos.qty
        BY <1>2, <3>1 DEF PositionShape
      <4> HIDE DEF new
      <4>4. QED
        BY <4>1, <4>2, <4>3, PaymentsBooks
    <3>2. CASE pos.qty = 0
      <4>1. Apply(s, o, inc) = ClosedFee(s, inc)
        BY <1>1, <1>6, <3>2 DEF Apply
      <4>2. ClosedFee(s, inc) = Corrected(s, s.cash - inc.fee, ChargeTrade(s.trades, inc.fee))
        BY Zenon DEF ClosedFee, Corrected
      <4>3. QED
        BY <4>1, <4>2, PaymentsBooks
    <3>3. QED
      BY <1>2, <3>1, <3>2
  <2>2. s.cash - inc.fee = s.cash + inc.funds - inc.fee /\ pos.qty = pos.qty - inc.qty
    BY <1>1, <1>2, <1>6
  <2>3. QED
    BY <1>6, <2>1, <2>2
<1>7. QED
  BY <1>1, <1>3, <1>4, <1>5, <1>6

\* What an intent has recorded after a look at its order.
LEMMA RecordKeeps ==
    ASSUME NEW r \in IntentShape, NEW o, NEW cancel
    PROVE  /\ [Recorded(r, o) EXCEPT !.cancel = cancel].qty = o.qty
           /\ [Recorded(r, o) EXCEPT !.cancel = cancel].funds = o.funds
           /\ [Recorded(r, o) EXCEPT !.cancel = cancel].fee = o.fee
           /\ [Recorded(r, o) EXCEPT !.cancel = cancel].side = r.side
           /\ [Recorded(r, o) EXCEPT !.cancel = cancel].amount = r.amount
           /\ [Recorded(r, o) EXCEPT !.cancel = cancel].created = r.created
<1> DEFINE terminal == o.state # "wait"
           new == [r EXCEPT !.qty = o.qty, !.funds = o.funds, !.fee = o.fee, !.terminal = terminal]
<1>1. Recorded(r, o) = new
  BY DEF Recorded
<1> HIDE DEF terminal
<1>2. /\ [new EXCEPT !.cancel = cancel].qty = o.qty /\ [new EXCEPT !.cancel = cancel].funds = o.funds
      /\ [new EXCEPT !.cancel = cancel].fee = o.fee /\ [new EXCEPT !.cancel = cancel].side = r.side
      /\ [new EXCEPT !.cancel = cancel].amount = r.amount /\ [new EXCEPT !.cancel = cancel].created = r.created
  BY DEF IntentShape
<1>3. QED
  BY <1>1, <1>2

\* Query and Requery: after a look that is accepted nothing is left to book.
LEMMA QueryBooks ==
    ASSUME Inv, Inv', Books, Query \/ Requery
    PROVE  Books'
<1>1. /\ pc # "idle" /\ Pending # {} /\ Exists(PendingId) /\ UNCHANGED <<orders, krw, btc>>
      /\ PendingId = Newest /\ Newest \in Id /\ Newest \in 1..Len(intents) /\ intents[Newest] \in IntentShape
      /\ state # Nil /\ state \in StateShape /\ DOMAIN intents = 1..Len(intents)
  <2>1. pc # "idle" /\ Pending # {} /\ Exists(PendingId) /\ UNCHANGED <<orders, krw, btc>>
    BY DEF Query, Requery, Inv, Path, venue
  <2>2. /\ PendingId = Newest /\ Newest \in Id /\ Newest \in 1..Len(intents) /\ intents[Newest] \in IntentShape
        /\ DOMAIN intents = 1..Len(intents)
    BY <2>1, PendingIsNewest DEF Inv
  <2>3. state # Nil /\ state \in StateShape
    BY <2>2 DEF Inv, Cursor, Shape
  <2>4. QED
    BY <2>1, <2>2, <2>3
<1>2. CASE Failure(TRUE)
  BY <1>1, <1>2, QuietBooks DEF Failure
<1>3. CASE ~Failure(TRUE)
  <2>1. Accepts(Newest, orders[Newest], call.at)
    BY <1>1, <1>3 DEF Query, Requery
  <2>2. PICK cancelling \in BOOLEAN : ApplyOrder(Newest, cancelling)
    BY <1>1, <1>3 DEF Query, Requery, PartialBuy
  <2>3. PICK o \in OrderShape : o = orders[Newest]
    BY <1>1 DEF Inv, Shape, Exists, Absent
  <2>4. PICK r \in IntentShape : r = intents[Newest]
    BY <1>1
  <2> DEFINE inc == Increment(o, r)
  <2>5. /\ o.qty \in Nat /\ o.funds \in Int /\ o.fee \in Int /\ r.qty \in Nat /\ r.funds \in Int /\ r.fee \in Int
        /\ o.side = r.side /\ r.side \in {"bid", "ask"}
    BY <2>1, <2>3, <2>4 DEF OrderShape, IntentShape, Accepts
  <2>6. inc.qty = o.qty - r.qty /\ inc.funds = o.funds - r.funds /\ inc.fee = o.fee - r.fee
    BY DEF Increment
  <2>7. /\ o.qty - r.qty >= 0 /\ (o.qty - r.qty = 0 => o.funds - r.funds = 0)
        /\ o.side = "ask" /\ o.qty - r.qty > 0 => o.qty - r.qty <= state.position.qty
    BY <2>1, <2>3, <2>4 DEF Accepts
  <2>8. inc \in IncShape
    <3>1. o.qty - r.qty \in Nat /\ o.funds - r.funds \in Int /\ o.fee - r.fee \in Int
      BY <2>5, <2>7
    <3>2. QED
      BY <3>1 DEF Increment, IncShape
  <2>9. state' = Apply(state, o, inc)
    BY <2>2, <2>3, <2>4 DEF ApplyOrder
  <2>10. Balanced(krw, btc, state, o, r)
    BY <1>1, <2>3, <2>4 DEF Books
  <2>11. state'.cash = krw /\ state'.position.qty = btc
    <3>1. IF o.side = "bid"
          THEN state'.cash = state.cash - inc.funds - inc.fee /\ state'.position.qty = state.position.qty + inc.qty
          ELSE state'.cash = state.cash + inc.funds - inc.fee /\ state'.position.qty = state.position.qty - inc.qty
      <4> HIDE DEF inc
      <4>1. QED
        BY <1>1, <2>6, <2>7, <2>8, <2>9, ApplyBooks
    <3>2. QED
      BY <2>5, <2>10, <3>1 DEF Balanced
  <2> DEFINE cancel == Recorded(r, o).cancel \/ cancelling
             row == [Recorded(r, o) EXCEPT !.cancel = cancel]
  <2>12. intents' = [intents EXCEPT ![Newest] = row]
    BY <2>2, <2>3, <2>4, Zenon DEF ApplyOrder
  <2> HIDE DEF cancel
  <2>13. row.qty = o.qty /\ row.funds = o.funds /\ row.fee = o.fee /\ row.side = r.side
    BY RecordKeeps
  <2> HIDE DEF row, inc
  <2>14. intents \in Seq(IntentShape) /\ intents' \in Seq(IntentShape)
    BY DEF Inv, Shape
  <2>15. DOMAIN intents' = DOMAIN intents
    BY <2>12
  <2>16. Newest' = Newest /\ intents'[Newest] = row /\ intents' # <<>>
    <3>1. Len(intents') = Len(intents)
      BY <2>14, <2>15, LenProperties
    <3>2. intents'[Newest] = row
      BY <1>1, <2>12
    <3>3. intents' # <<>>
      BY <1>1, <3>1, EmptySeq, <2>14 DEF Newest
    <3>4. QED
      BY <3>1, <3>2, <3>3 DEF Newest
  <2>17. state' # Nil
    BY <2>16 DEF Inv, Cursor
  <2>18. krw \in Int /\ btc \in Int
    BY DEF Inv, Shape
  <2>19. Balanced(krw, btc, state', o, row)
    BY <2>5, <2>11, <2>13, <2>18 DEF Balanced, Increment
  <2>20. QED
    BY <1>1, <2>3, <2>5, <2>11, <2>13, <2>16, <2>17, <2>19 DEF Books, Exists
<1>4. QED
  BY <1>2, <1>3

\* Positions that candles, prices and announced stops change keep their units.
LEMMA UnitsStay ==
    ASSUME NEW pos \in {Flat} \cup PositionShape, NEW c, NEW at, NEW price
    PROVE  /\ Activate(pos, at).qty = pos.qty /\ Progressed(pos, c).qty = pos.qty
           /\ [pos EXCEPT !.high = price].qty = pos.qty
           /\ pos.qty > 0 => [pos EXCEPT !.next = price, !.nextAt = at].qty = pos.qty
<1>1. \A t : Activate(pos, t).qty = pos.qty
  <2> TAKE t
  <2> DEFINE stop == Max({pos.stop, pos.next})
  <2>1. Activate(pos, t) \in {pos, [pos EXCEPT !.stop = stop, !.next = 0, !.nextAt = NoTime]}
    BY Zenon DEF Activate
  <2> HIDE DEF stop
  <2>2. QED
    BY <2>1 DEF PositionShape, Flat
<1>2. Progressed(pos, c).qty = pos.qty
  <2>1. CASE pos.qty = 0
    BY <2>1 DEF Progressed
  <2>2. CASE pos.qty # 0
    <3>1. pos \in PositionShape
      BY <2>2 DEF Flat
    <3> DEFINE active == Activate(pos, End(c.bar))
               high == RaisedHigh(active.high, SeenHigh(pos, c))
    <3>2. active \in PositionShape /\ active.qty = pos.qty
      BY <1>1, <3>1, ActivateFits
    <3>3. Progressed(pos, c) = [active EXCEPT !.high = high, !.seen = Fingerprint(c)]
      BY <2>2, Zenon DEF Progressed
    <3> HIDE DEF active, high
    <3>4. QED
      BY <3>2, <3>3 DEF PositionShape
  <2>3. QED
    BY <2>1, <2>2
<1>3. /\ [pos EXCEPT !.high = price].qty = pos.qty
      /\ pos.qty > 0 => [pos EXCEPT !.next = price, !.nextAt = at].qty = pos.qty
  BY DEF PositionShape, Flat
<1>4. QED
  BY <1>1, <1>2, <1>3

\* CandleChecks: the books start as the untouched account and a candle changes none of it.
LEMMA CandleChecksBooks ==
    ASSUME Inv, Inv', Books, CandleChecks
    PROVE  Books'
<1>1. call \in CallShape /\ pc # "idle" /\ call.balances \in {Unread} \cup BalanceShape
  BY DEF CandleChecks, Inv, Shape, CallShape
<1>2. UNCHANGED <<orders, krw, btc, intents>>
  BY DEF CandleChecks, venue
<1> DEFINE s == IF state = Nil THEN InitialState(call.balances) ELSE state
<1>3. PICK c \in Candles(call.at) :
         /\ state # Nil \/ call.balances.known
         /\ state' \in {s, [s EXCEPT !.position = Progressed(@, c)]}
  BY DEF CandleChecks
<1>4. state = Nil => call.balances \in BalanceShape
  BY <1>1, <1>3 DEF Unread
<1>5. s \in StateShape
  BY <1>4, InitialFits DEF Inv, Shape
<1>6. s.position \in {Flat} \cup PositionShape
  BY <1>5 DEF StateShape
<1>7. state' \in StateShape /\ state' # Nil /\ state'.cash = s.cash /\ state'.position.qty = s.position.qty
  <2> HIDE DEF s
  <2> DEFINE pos == Progressed(s.position, c)
  <2>1. state' \in {s, [s EXCEPT !.position = pos]}
    BY <1>3
  <2>2. pos.qty = s.position.qty
    BY <1>6, UnitsStay
  <2> HIDE DEF pos
  <2>3. state'.cash = s.cash /\ state'.position.qty = s.position.qty
    BY <1>5, <2>1, <2>2 DEF StateShape
  <2>4. state' # Nil
    <3>1. DOMAIN state' = DOMAIN s /\ "cash" \in DOMAIN s
      BY <1>5, <2>1 DEF StateShape
    <3>2. "cash" \notin DOMAIN Nil
      BY DEF Nil
    <3>3. QED
      BY <3>1, <3>2
  <2>5. state' \in StateShape
    BY <2>4 DEF Inv, Shape
  <2>6. QED
    BY <2>3, <2>4, <2>5
<1>8. CASE state # Nil
  BY <1>2, <1>7, <1>8, StateBooks
<1>9. CASE state = Nil
  <2>1. krw = Cash /\ btc = 0 /\ call.balances.krw = Cash
    <3>1. call.balances # Unread
      <4>1. call.balances.known = TRUE
        BY <1>4, <1>9 DEF BalanceShape
      <4>2. Unread.known = FALSE
        BY DEF Unread
      <4>3. QED
        BY <4>1, <4>2
    <3>2. QED
      BY <1>1, <1>9, <3>1 DEF Books
  <2>2. s.cash = call.balances.krw /\ s.position.qty = 0
    BY <1>9 DEF InitialState, Flat
  <2>3. intents = <<>>
    BY <1>9 DEF Inv, Cursor
  <2>4. Pending' = {}
    BY <1>2, <2>3, EmptySeq DEF Pending
  <2> HIDE DEF s
  <2>5. QED
    BY <1>2, <1>7, <2>1, <2>2, <2>4 DEF Books
<1>10. QED
  BY <1>8, <1>9

\* CandleDecide and PriceStep: cursors, stops and high water only.
LEMMA DecisionBooks ==
    ASSUME Inv, Inv', Books, CandleDecide \/ PriceStep
    PROVE  Books'
<1>1. UNCHANGED <<orders, krw, btc, intents>> /\ pc # "idle"
  BY DEF CandleDecide, PriceStep, venue
<1>2. CASE state = Nil
  <2>1. PriceStep
    BY <1>2 DEF Inv, Cursor, CandleDecide
  <2>2. UNCHANGED state /\ pc' = "idle"
    BY <1>2, <2>1 DEF PriceStep, Goto
  <2>3. QED
    BY <1>1, <2>2, QuietBooks
<1>3. CASE state # Nil
  <2>1. state \in StateShape /\ state.position \in {Flat} \cup PositionShape
    BY <1>3 DEF Inv, Shape, StateShape
  <2>2. CASE CandleDecide
    <3> DEFINE next == NextStop(state.position)
               at == End(call.input.bar)
               moved == [state.position EXCEPT !.next = next, !.nextAt = at]
               print == Fingerprint(call.input)
               count == Len(state.trades)
    <3>1. PICK verdict \in {"open", "halt", "exit", "unhealthy"} :
             state' = Decided(state, call.input, Action(verdict, call.input.row))
      BY <2>2 DEF CandleDecide
    <3> DEFINE action == Action(verdict, call.input.row)
               pos == IF state.position.qty > 0 /\ action = "hold" THEN moved ELSE state.position
    <3>2. state' = [state EXCEPT !.riskAt = call.input.now, !.riskCount = count, !.completed = print, !.position = pos]
      BY <3>1, Zenon DEF Decided
    <3> HIDE DEF next, at, print, count, action
    <3>3. pos.qty = state.position.qty
      BY <2>1, UnitsStay
    <3> HIDE DEF pos
    <3>4. state' # Nil /\ state'.cash = state.cash /\ state'.position.qty = state.position.qty
      BY <2>1, <3>2, <3>3 DEF StateShape, Nil
    <3>5. QED
      BY <1>1, <1>3, <3>4, StateBooks
  <2>3. CASE PriceStep
    <3> DEFINE pos == Activate(state.position, call.at)
    <3>1. PICK p \in Prices \cup {0} :
             state' \in {state, [state EXCEPT !.position = IF pos.qty > 0 THEN [pos EXCEPT !.high = RaisedHigh(@, p)] ELSE pos]}
      BY <2>3 DEF PriceStep
    <3>2. pos \in {Flat} \cup PositionShape /\ pos.qty = state.position.qty
      BY <2>1, ActivateFits, UnitsStay
    <3> DEFINE high == RaisedHigh(pos.high, p)
               seen == IF pos.qty > 0 THEN [pos EXCEPT !.high = high] ELSE pos
    <3>3. state' \in {state, [state EXCEPT !.position = seen]}
      BY <3>1, Zenon
    <3> HIDE DEF pos, high
    <3>4. seen.qty = state.position.qty
      BY <3>2, UnitsStay
    <3> HIDE DEF seen
    <3>5. state' # Nil /\ state'.cash = state.cash /\ state'.position.qty = state.position.qty
      BY <1>3, <2>1, <3>3, <3>4 DEF StateShape, Nil
    <3>6. QED
      BY <1>1, <1>3, <3>5, StateBooks
  <2>4. QED
    BY <2>2, <2>3
<1>4. QED
  BY <1>2, <1>3

\* Submit: the new intent has recorded nothing, and the venue does not know it.
LEMMA SubmitBooks ==
    ASSUME Inv, Inv', Books, Submit
    PROVE  Books'
<1> DEFINE new == NewIntent(call.plan, Amount(call.plan, call.balances))
           n == Len(intents)
<1>1. /\ Pending = {} /\ intents' = Append(intents, new) /\ state # Nil /\ pc' = "send"
      /\ UNCHANGED <<orders, krw, btc, state>>
  BY DEF Submit, SaveIntent, Goto, venue, Inv, Cursor
<1>2. new.qty = 0 /\ new.funds = 0 /\ new.fee = 0
  BY DEF NewIntent
<1> HIDE DEF new
<1>3. intents \in Seq(IntentShape) /\ intents' \in Seq(IntentShape) /\ n \in Nat
  BY LenProperties DEF Inv, Shape
<1>4. Len(intents') = n + 1 /\ intents'[n + 1] = new
  BY <1>1, <1>3
<1>5. Newest' = n + 1 /\ ~Exists(Newest)'
  <2>1. ~Exists(Newest)'
    BY <1>1 DEF Inv, Path
  <2>2. QED
    BY <1>4, <2>1 DEF Newest
<1>6. krw = state.cash /\ btc = state.position.qty
  BY <1>1 DEF Books
<1>7. QED
  BY <1>1, <1>2, <1>4, <1>5, <1>6 DEF Books

\* The account is untouched before the first step.
LEMMA InitBooks == Init => Books
<1> SUFFICES ASSUME Init PROVE Books
  OBVIOUS
<1>1. Pending = {} /\ state = Nil /\ krw = Cash /\ btc = 0 /\ pc = "idle"
  BY EmptySeq DEF Init, Pending
<1>2. QED
  BY <1>1 DEF Books

\* Every step keeps account and books together.
LEMMA NextBooks == Inv /\ Inv' /\ Books /\ [Next]_vars => Books'
<1> SUFFICES ASSUME Inv, Inv', Books, [Next]_vars PROVE Books'
  OBVIOUS
<1>1. CASE Venue
  <2>1. PICK i \in Id : \/ \E p \in Prices, feeNow \in BOOLEAN : Fill(i, p, feeNow)
                        \/ PostFee(i) \/ Finish(i) \/ Arrive(i)
    BY <1>1 DEF Venue
  <2>2. QED
    BY <2>1, TradingBooks, SendBooks
<1>2. CASE Service
  BY <1>2, QueryBooks, CancelBooks, QuietBooksSteps, CandleChecksBooks, DecisionBooks, SubmitBooks, SendBooks
     DEF Service
<1>3. CASE Tick \/ ProcessCompletedCandle \/ OnPrice \/ Reconcile \/ SubmitStale \/ Crash
  BY <1>3, QuietBooksSteps
<1>4. CASE LoseAnswer \/ PostUnanswered
  BY <1>4, CancelBooks, SendBooks
<1>5. CASE UNCHANGED vars
  BY <1>5, QuietBooks DEF vars, venue, journal
<1>6. QED
  BY <1>1, <1>2, <1>3, <1>4, <1>5 DEF Next

\* Every execution is booked exactly once: through lost answers, partial fills,
\* late fees and crashes the journal differs from the account by what the venue
\* did since the last look at the one pending order (_apply_order).
THEOREM BooksMatchHolds == Spec => []BooksMatch
<1>1. Spec => []Books
  BY InitBooks, NextBooks, InvHolds, PTL DEF Spec
<1>2. QED
  BY <1>1, BooksAgree, InvHolds, PTL

-----------------------------------------------------------------------------
\* The results of the trades

\* Running totals of the trades end at t.
Total(trades, t) ==
    \E f \in [0..Len(trades) -> Int] :
        /\ f[0] = Cash /\ f[Len(trades)] = t
        /\ \A n \in 1..Len(trades) : f[n] = f[n - 1] + trades[n].pnl

\* Running totals are unique: what Booked computes is where they end.
LEMMA TotalIsBooked ==
    ASSUME NEW trades \in Seq(TradeShape), NEW t, Total(trades, t)
    PROVE  Booked(trades) = t
<1> DEFINE L == Len(trades)
           Step(f) == [n \in 0..L |-> IF n = 0 THEN Cash ELSE f[n - 1] + trades[n].pnl]
<1>1. L \in Nat /\ Cash \in Int
  BY LenProperties, Constants
<1>2. PICK f \in [0..L -> Int] : /\ f[0] = Cash /\ f[L] = t
                                 /\ \A n \in 1..L : f[n] = f[n - 1] + trades[n].pnl
  BY DEF Total
<1> HIDE DEF L
<1>3. f = Step(f)
  <2>1. \A n \in 0..L : f[n] = Step(f)[n]
    BY <1>1, <1>2
  <2>2. QED
    BY <1>2, <2>1
<1> DEFINE g == CHOOSE total : total = Step(total)
<1>4. g = Step(g)
  BY <1>3
<1> HIDE DEF g
<1>5. g[0] = Cash /\ \A n \in 1..L : g[n] = g[n - 1] + trades[n].pnl
  BY <1>1, <1>4
<1>6. g[L] = f[L]
  <2> DEFINE differ == {n \in 0..L : g[n] # f[n]}
             below == {ss \in Nat \X Nat : ss[1] < ss[2]}
  <2>1. ASSUME differ # {} PROVE FALSE
    <3>1. differ \subseteq Nat
      BY <1>1
    <3>2. IsWellFoundedOn(below, Nat)
      BY NatLessThanWellFounded DEF OpToRel
    <3>3. PICK m \in differ : \A y \in differ : <<y, m>> \notin below
      <4> HIDE DEF below, differ
      <4>1. QED
        BY <2>1, <3>1, <3>2, WFMin
    <3>4. m \in 0..L /\ g[m] # f[m]
      BY <3>3
    <3>5. m # 0
      BY <1>2, <1>5, <3>4
    <3>6. m - 1 \in 0..L /\ m \in 1..L
      BY <1>1, <3>4, <3>5
    <3>7. <<m - 1, m>> \in below
      BY <1>1, <3>4, <3>6
    <3>8. g[m - 1] = f[m - 1]
      BY <3>3, <3>6, <3>7
    <3>9. QED
      BY <1>2, <1>5, <3>4, <3>6, <3>8
  <2>2. QED
    BY <1>1, <2>1
<1>7. Booked(trades) = g[L]
  BY DEF Booked, g, L
<1>8. QED
  BY <1>2, <1>6, <1>7

\* A trade that is closed adds its result.
LEMMA TotalGrows ==
    ASSUME NEW trades \in Seq(TradeShape), NEW x \in TradeShape, NEW t \in Int, Total(trades, t)
    PROVE  Total(Append(trades, x), t + x.pnl)
<1> DEFINE L == Len(trades)
           more == Append(trades, x)
<1>1. L \in Nat /\ Cash \in Int /\ x.pnl \in Int
  BY LenProperties, Constants DEF TradeShape
<1>2. PICK f \in [0..L -> Int] : /\ f[0] = Cash /\ f[L] = t
                                 /\ \A n \in 1..L : f[n] = f[n - 1] + trades[n].pnl
  BY DEF Total
<1>3. Len(more) = L + 1 /\ more[L + 1] = x /\ \A n \in 1..L : more[n] = trades[n]
  BY AppendProperties
<1> HIDE DEF L, more
<1> DEFINE g == [n \in 0..L + 1 |-> IF n <= L THEN f[n] ELSE t + x.pnl]
<1>4. g \in [0..L + 1 -> Int] /\ g[0] = Cash /\ g[L + 1] = t + x.pnl
  BY <1>1, <1>2
<1>5. ASSUME NEW n \in 1..L + 1 PROVE g[n] = g[n - 1] + more[n].pnl
  <2>1. CASE n = L + 1
    BY <1>1, <1>2, <1>3, <2>1
  <2>2. CASE n # L + 1
    <3>1. n \in 1..L /\ n - 1 \in 0..L /\ n \in 0..L + 1 /\ n - 1 \in 0..L + 1
      BY <1>1, <2>2
    <3>2. g[n] = f[n] /\ g[n - 1] = f[n - 1]
      BY <1>1, <3>1
    <3> HIDE DEF g
    <3>3. QED
      BY <1>2, <1>3, <3>1, <3>2
  <2>3. QED
    BY <2>1, <2>2
<1> HIDE DEF g
<1>6. QED
  BY <1>3, <1>4, <1>5 DEF Total, more

\* A fee that is charged to the last trade lowers the total.
LEMMA TotalCorrected ==
    ASSUME NEW trades \in Seq(TradeShape), NEW fee \in Int, NEW t \in Int, Total(trades, t), trades # <<>>
    PROVE  Total(ChargeTrade(trades, fee), t - fee)
<1> DEFINE L == Len(trades)
           new == ChargeTrade(trades, fee)
           pnl == trades[L].pnl - fee
           x == [trades[L] EXCEPT !.pnl = pnl]
<1>1. L \in Nat /\ L > 0 /\ Cash \in Int /\ trades[L] \in TradeShape
  BY LenProperties, EmptySeq, ElementOfSeq, Constants
<1>2. PICK f \in [0..L -> Int] : /\ f[0] = Cash /\ f[L] = t
                                 /\ \A n \in 1..L : f[n] = f[n - 1] + trades[n].pnl
  BY DEF Total
<1>3. new = [trades EXCEPT ![L] = x]
  BY Zenon DEF ChargeTrade
<1>4. pnl \in Int /\ trades[L].pnl \in Int /\ pnl = trades[L].pnl - fee
  BY <1>1 DEF TradeShape
<1> HIDE DEF pnl
<1>5. x \in TradeShape /\ x.pnl = pnl
  BY <1>1, <1>4 DEF TradeShape
<1> HIDE DEF x
<1>6. Len(new) = L /\ new[L] = x /\ \A n \in 1..L : n # L => new[n] = trades[n]
  BY <1>1, <1>3, <1>5, ExceptSeq
<1> HIDE DEF L, new
<1> DEFINE g == [n \in 0..L |-> IF n < L THEN f[n] ELSE t - fee]
<1>7. g \in [0..L -> Int] /\ g[0] = Cash /\ g[L] = t - fee
  BY <1>1, <1>2
<1>8. ASSUME NEW n \in 1..L PROVE g[n] = g[n - 1] + new[n].pnl
  <2>1. n - 1 \in 0..L /\ n - 1 < L /\ n \in 0..L
    BY <1>1
  <2>2. g[n] = (IF n < L THEN f[n] ELSE t - fee) /\ g[n - 1] = f[n - 1]
    BY <1>1, <2>1
  <2>3. f[n] = f[n - 1] + trades[n].pnl /\ f[n - 1] \in Int
    BY <1>2, <2>1
  <2> HIDE DEF g
  <2>4. CASE n = L
    <3>1. new[n].pnl = pnl /\ g[n] = t - fee /\ f[n] = t
      BY <1>1, <1>2, <1>5, <1>6, <2>2, <2>4
    <3>2. pnl = trades[n].pnl - fee /\ trades[n].pnl \in Int
      BY <1>4, <2>4
    <3>3. t = f[n - 1] + trades[n].pnl /\ f[n - 1] \in Int
      BY <2>3, <3>1
    <3>4. t - fee = f[n - 1] + (trades[n].pnl - fee)
      BY <3>2, <3>3
    <3>5. QED
      BY <2>2, <3>1, <3>2, <3>4, Zenon
  <2>5. CASE n # L
    <3>1. n < L
      BY <1>1, <2>5
    <3>2. QED
      BY <1>6, <2>2, <2>3, <2>5, <3>1
  <2>6. QED
    BY <2>4, <2>5
<1> HIDE DEF g
<1>9. QED
  BY <1>6, <1>7, <1>8 DEF Total, new

\* Without trades the total is the initial cash.
LEMMA TotalEmpty == Total(<<>>, Cash)
<1> DEFINE f == [n \in 0..0 |-> Cash]
<1>1. f \in [0..0 -> Int] /\ f[0] = Cash /\ Len(<<>>) = 0
  BY Constants
<1> HIDE DEF f
<1>2. QED
  BY <1>1 DEF Total

-----------------------------------------------------------------------------
\* The account can pay for the pending order

\* What an order may say at a time.
OrderSound(o, now) ==
    /\ o.amount >= 0 /\ o.fee >= 0 /\ o.due >= 0 /\ o.funds >= 2 * o.qty
    /\ o.created <= now
    /\ IF o.qty = 0 THEN o.funds = 0 /\ o.fee = 0 /\ o.due = 0 /\ o.first = NoTime /\ o.last = NoTime
                    ELSE o.created <= o.first /\ o.first <= o.last /\ o.last <= now
    /\ o.side = "bid" => o.funds <= o.amount
    /\ o.side = "ask" => o.qty <= o.amount
    /\ o.state # "wait" => o.due = 0

\* The order o continues the facts that the row r has recorded.
Follows(o, r) ==
    /\ o.side = r.side /\ o.amount = r.amount /\ o.created >= r.created
    /\ r.qty <= o.qty /\ r.fee <= o.fee
    /\ IF o.qty = r.qty THEN o.funds = r.funds ELSE o.funds - r.funds >= 2 * (o.qty - r.qty)

\* An account of k and b pays for the rest of an order, and for its fees.
Covered(k, b, side, rest, due) ==
    IF side = "bid" THEN FeeShare * (k - due - rest) >= rest /\ rest >= 0 ELSE k >= due /\ b >= rest

\* What an order may still trade.
Rest(o) == o.amount - (IF o.side = "bid" THEN o.funds ELSE o.qty)

Ledger ==
    /\ krw \in Nat /\ btc \in Nat
    /\ \A i \in Id : Exists(i) => OrderSound(orders[i], clock)
    /\ \A i \in 1..Len(intents) : /\ intents[i].amount > 0 /\ intents[i].funds >= 0 /\ intents[i].fee >= 0
                                  /\ intents[i].created <= clock
    /\ Pending # {} =>
         IF Exists(Newest)
         THEN /\ Follows(orders[Newest], intents[Newest])
              /\ Covered(krw, btc, orders[Newest].side, Rest(orders[Newest]), orders[Newest].due)
         ELSE Covered(krw, btc, intents[Newest].side, intents[Newest].amount, 0)

\* What is left of the money after everything that is owed is not negative.
LEMMA ScaledSign ==
    ASSUME NEW g \in Int, NEW rest \in Nat, FeeShare * g >= rest
    PROVE  g >= 0
<1>1. FeeShare \in Nat \ {0}
  BY Constants
<1>2. ASSUME g < 0 PROVE FALSE
  <2>1. FeeShare * g < 0
    BY <1>1, <1>2
  <2>2. QED
    BY <1>1, <2>1
<1>3. QED
  BY <1>2

\* Time passes: what an order said stays possible.
LEMMA SoundLater ==
    ASSUME NEW o \in OrderShape, NEW t \in Int, NEW u \in Int, t <= u, OrderSound(o, t)
    PROVE  OrderSound(o, u)
<1>1. o.created \in Int /\ o.last \in Int
  BY DEF OrderShape
<1>2. QED
  BY <1>1 DEF OrderSound

\* A trade the account was covered for leaves it covered for the rest (Fill).
LEMMA FillCovered ==
    ASSUME NEW o \in OrderShape, NEW n \in OrderShape, NEW p \in Nat, p >= 2, NEW paid \in {0, Fee(p)},
           NEW now \in Nat, OrderSound(o, now), o.state = "wait",
           IF o.side = "bid" THEN o.funds + p <= o.amount ELSE o.qty < o.amount,
           n.side = o.side, n.amount = o.amount, n.state = o.state, n.created = o.created,
           n.qty = o.qty + 1, n.funds = o.funds + p, n.fee = o.fee + paid, n.due = o.due + Fee(p) - paid,
           n.first = (IF o.first = NoTime THEN now ELSE o.first), n.last = now,
           NEW k \in Nat, NEW b \in Nat, Covered(k, b, o.side, Rest(o), o.due)
    PROVE  /\ OrderSound(n, now)
           /\ LET l == k - paid + (IF o.side = "bid" THEN -p ELSE p)
                  c == b + (IF o.side = "bid" THEN 1 ELSE -1)
              IN  l \in Nat /\ c \in Nat /\ Covered(l, c, n.side, Rest(n), n.due)
<1> DEFINE fee == Fee(p)
           rest == Rest(o)
<1>1. fee \in Nat /\ FeeShare * fee <= p /\ FeeShare \in Nat \ {0} /\ fee <= p
  <2>1. fee \in Nat /\ FeeShare * fee <= p /\ FeeShare \in Nat \ {0}
    BY FeeFits, Constants
  <2> HIDE DEF fee
  <2>2. FeeShare * fee >= fee
    BY <2>1
  <2>3. FeeShare * fee \in Int
    BY <2>1
  <2>4. QED
    BY <2>1, <2>2, <2>3
<1>2. /\ o.qty \in Nat /\ o.funds \in Int /\ o.fee \in Int /\ o.due \in Int /\ o.amount \in Int
      /\ o.first \in Int /\ o.last \in Int /\ o.created \in Nat /\ o.side \in {"bid", "ask"}
  BY DEF OrderShape
<1>3. o.due >= 0 /\ o.fee >= 0 /\ o.amount >= 0 /\ o.funds >= 2 * o.qty /\ o.created <= now
  BY DEF OrderSound
<1>4. paid \in {0, fee} /\ n.due = o.due + fee - paid
  OBVIOUS
<1> HIDE DEF fee
<1>5. n.due >= 0 /\ n.due \in Int /\ paid \in Nat /\ n.fee >= 0
  BY <1>1, <1>2, <1>3, <1>4
<1>6. OrderSound(n, now)
  <2>1. o.created <= n.first /\ n.first <= now
    <3>1. CASE o.qty = 0
      BY <1>2, <1>3, <3>1 DEF OrderSound
    <3>2. CASE o.qty # 0
      <4>1. o.created <= o.first /\ o.first <= o.last /\ o.last <= now
        BY <3>2 DEF OrderSound
      <4>2. QED
        BY <1>2, <1>3, <4>1
    <3>3. QED
      BY <3>1, <3>2
  <2>2. n.amount >= 0 /\ n.funds >= 2 * n.qty /\ n.created <= now /\ n.qty # 0
    BY <1>2, <1>3
  <2>3. (n.side = "bid" => n.funds <= n.amount) /\ (n.side = "ask" => n.qty <= n.amount)
    BY <1>2
  <2>4. QED
    BY <1>5, <2>1, <2>2, <2>3 DEF OrderSound
<1>7. CASE o.side = "bid"
  <2> DEFINE g == k - o.due - rest
  <2>1. rest = o.amount - o.funds /\ rest \in Int /\ rest >= p /\ FeeShare * g >= rest
    BY <1>2, <1>7 DEF Rest, Covered
  <2>2. Rest(n) = rest - p
    BY <1>2, <1>7, <2>1 DEF Rest
  <2> HIDE DEF rest
  <2>3. k - paid - p - n.due - (rest - p) = g - fee /\ g \in Int
    BY <1>1, <1>2, <1>4, <1>5, <2>1
  <2> HIDE DEF g
  <2>4. FeeShare * (g - fee) = FeeShare * g - FeeShare * fee
    BY <1>1, <2>3
  <2>5. FeeShare * (g - fee) >= rest - p
    <3>1. FeeShare * g \in Int /\ FeeShare * fee \in Int
      BY <1>1, <2>3
    <3>2. QED
      BY <1>1, <2>1, <2>4, <3>1
  <2>6. g - fee >= 0
    <3>1. g - fee \in Int /\ rest - p \in Nat
      BY <1>1, <2>1, <2>3
    <3>2. QED
      BY <2>5, <3>1, ScaledSign
  <2>7. k - paid - p \in Nat
    BY <1>1, <1>2, <1>5, <2>1, <2>3, <2>6
  <2>8. Covered(k - paid - p, b + 1, n.side, Rest(n), n.due)
    BY <1>7, <2>1, <2>2, <2>3, <2>5 DEF Covered
  <2>9. k - paid + -p = k - paid - p
    BY <1>5
  <2>10. QED
    BY <1>6, <1>7, <2>7, <2>8, <2>9
<1>8. CASE o.side = "ask"
  <2>1. rest = o.amount - o.qty /\ k >= o.due /\ b >= rest /\ Rest(n) = rest - 1
    BY <1>2, <1>8 DEF Rest, Covered
  <2>2. b - 1 \in Nat /\ b - 1 >= Rest(n)
    BY <1>2, <1>8, <2>1
  <2>3. k - paid + p \in Nat /\ k - paid + p >= n.due
    BY <1>1, <1>2, <1>4, <1>5, <2>1
  <2>4. b + -1 = b - 1
    OBVIOUS
  <2>5. QED
    BY <1>6, <1>8, <2>2, <2>3, <2>4 DEF Covered
<1>9. QED
  BY <1>2, <1>7, <1>8

\* A trade and a late fee go on from what the row has recorded.
LEMMA FollowsOn ==
    ASSUME NEW o \in OrderShape, NEW n \in OrderShape, NEW r \in IntentShape, Follows(o, r),
           n.side = o.side, n.amount = o.amount, n.created = o.created, n.fee >= o.fee,
           \/ n.qty = o.qty /\ n.funds = o.funds
           \/ n.qty = o.qty + 1 /\ n.funds >= o.funds + 2
    PROVE  Follows(n, r)
<1>1. /\ o.qty \in Nat /\ o.funds \in Int /\ o.fee \in Int /\ n.qty \in Nat /\ n.funds \in Int /\ n.fee \in Int
      /\ r.qty \in Nat /\ r.funds \in Int /\ r.fee \in Int
  BY DEF OrderShape, IntentShape
<1>2. o.qty >= r.qty /\ o.fee >= r.fee
  BY <1>1 DEF Follows
<1>3. n.qty >= r.qty /\ n.fee >= r.fee
  BY <1>1, <1>2
<1>4. IF n.qty = r.qty THEN n.funds = r.funds ELSE n.funds - r.funds >= 2 * (n.qty - r.qty)
  <2>1. CASE o.qty = r.qty
    BY <1>1, <2>1 DEF Follows
  <2>2. CASE o.qty # r.qty
    BY <1>1, <1>2, <2>2 DEF Follows
  <2>3. QED
    BY <2>1, <2>2
<1>5. QED
  BY <1>3, <1>4 DEF Follows

\* The pending order moves, and the account with it.
LEMMA OrderLedger ==
    ASSUME Inv, Ledger, Pending # {}, Exists(Newest), NEW o \in OrderShape, orders' = [orders EXCEPT ![Newest] = o],
           UNCHANGED <<clock, intents>>, OrderSound(o, clock), Follows(o, intents[Newest]),
           krw' \in Nat, btc' \in Nat, Covered(krw', btc', o.side, Rest(o), o.due)
    PROVE  Ledger'
<1>1. Newest \in Id /\ orders \in [Id -> {Absent} \cup OrderShape] /\ o.known
  BY PendingIsNewest DEF Inv, Shape, OrderShape
<1>2. Pending' = Pending /\ Newest' = Newest /\ orders'[Newest] = o /\ Exists(Newest)'
  BY <1>1 DEF Pending, Newest, Exists
<1>3. ASSUME NEW i \in Id, Exists(i)' PROVE OrderSound(orders'[i], clock')
  <2>1. CASE i = Newest
    BY <1>2, <2>1
  <2>2. CASE i # Newest
    <3>1. orders'[i] = orders[i] /\ Exists(i)
      BY <1>1, <1>3, <2>2 DEF Exists
    <3>2. QED
      BY <3>1 DEF Ledger
  <2>3. QED
    BY <2>1, <2>2
<1>4. Follows(orders'[Newest'], intents'[Newest'])
  BY <1>2
<1>5. Covered(krw', btc', orders'[Newest'].side, Rest(orders'[Newest']), orders'[Newest'].due)
  BY <1>2
<1>6. \A i \in 1..Len(intents') : /\ intents'[i].amount > 0 /\ intents'[i].funds >= 0 /\ intents'[i].fee >= 0
                                  /\ intents'[i].created <= clock'
  BY DEF Ledger
<1>7. QED
  BY <1>2, <1>3, <1>4, <1>5, <1>6 DEF Ledger

\* The pending order, as the proofs of its steps use it.
LEMMA PendingOrder ==
    ASSUME Inv, Ledger, Pending # {}, Exists(Newest)
    PROVE  /\ Newest \in Id /\ Newest \in 1..Len(intents)
           /\ orders[Newest] \in OrderShape /\ intents[Newest] \in IntentShape
           /\ OrderSound(orders[Newest], clock) /\ Follows(orders[Newest], intents[Newest])
           /\ Covered(krw, btc, orders[Newest].side, Rest(orders[Newest]), orders[Newest].due)
<1>1. Newest \in Id /\ Newest \in 1..Len(intents) /\ intents[Newest] \in IntentShape
  BY PendingIsNewest DEF Inv
<1>2. orders[Newest] \in OrderShape
  BY <1>1 DEF Inv, Shape, Exists, Absent
<1>3. QED
  BY <1>1, <1>2 DEF Ledger

\* An order that owes no fee may be closed.
LEMMA ClosedLedger ==
    ASSUME Inv, Ledger, Pending # {}, Exists(Newest), NEW closed \in {"wait", "done", "cancel"},
           orders' = [orders EXCEPT ![Newest] = [orders[Newest] EXCEPT !.state = closed]],
           closed # "wait" => orders[Newest].due = 0, UNCHANGED <<clock, intents, krw, btc>>
    PROVE  Ledger'
<1>1. PICK o \in OrderShape : o = orders[Newest]
  BY PendingOrder
<1>2. PICK r \in IntentShape : r = intents[Newest]
  BY PendingOrder
<1> DEFINE new == [o EXCEPT !.state = closed]
<1>3. /\ new \in OrderShape /\ new.qty = o.qty /\ new.funds = o.funds /\ new.fee = o.fee /\ new.due = o.due
      /\ new.first = o.first /\ new.last = o.last /\ new.side = o.side /\ new.amount = o.amount
      /\ new.created = o.created /\ new.state = closed
  BY DEF OrderShape
<1>4. OrderSound(o, clock) /\ Follows(o, r) /\ Covered(krw, btc, o.side, Rest(o), o.due)
  BY <1>1, <1>2, PendingOrder
<1>5. orders' = [orders EXCEPT ![Newest] = new]
  BY <1>1
<1> HIDE DEF new
<1>6. OrderSound(new, clock) /\ Follows(new, r) /\ Rest(new) = Rest(o)
  BY <1>1, <1>3, <1>4 DEF OrderSound, Follows, Rest
<1>7. krw \in Nat /\ btc \in Nat
  BY DEF Ledger
<1>8. QED
  BY <1>2, <1>3, <1>4, <1>5, <1>6, <1>7, OrderLedger

\* Fill, PostFee and Finish: only the pending order trades, within what covers it.
LEMMA TradingLedger ==
    ASSUME Inv, Ledger, NEW i \in Id,
           (\E p \in Prices, feeNow \in BOOLEAN : Fill(i, p, feeNow)) \/ PostFee(i) \/ Finish(i)
    PROVE  Ledger'
<1>1. i \in Open /\ Exists(i)
  BY DEF Fill, PostFee, Finish, Open, Exists
<1>2. i = Newest /\ Pending # {}
  <2>1. i \in 1..Len(intents) /\ orders[i].state = "wait"
    BY <1>1, PendingIsNewest, Constants DEF Open, Inv, Path, Id
  <2>2. ~intents[i].terminal
    BY <2>1 DEF Inv, Path
  <2>3. i = Len(intents)
    BY <2>1, <2>2, PendingIsNewest DEF Inv, Path
  <2>4. QED
    BY <2>1, <2>2, <2>3, PendingIsNewest DEF Inv, Newest, Pending
<1>3. PICK o \in OrderShape : o = orders[i]
  BY <1>1 DEF Inv, Shape, Open, Absent
<1>4. PICK r \in IntentShape : r = intents[i]
  BY <1>1, <1>2, PendingOrder
<1>5. OrderSound(o, clock) /\ Follows(o, r) /\ Covered(krw, btc, o.side, Rest(o), o.due) /\ o.state = "wait"
  BY <1>1, <1>2, <1>3, <1>4, PendingOrder DEF Open
<1>6. krw \in Nat /\ btc \in Nat /\ clock \in Nat
  BY DEF Inv, Shape, Ledger
<1>7. /\ o.qty \in Nat /\ o.funds \in Int /\ o.fee \in Int /\ o.due \in Int /\ o.first \in Int
      /\ o.amount \in Int /\ o.side \in {"bid", "ask"}
  BY DEF OrderShape
<1>8. UNCHANGED <<clock, intents>>
  BY DEF Fill, PostFee, Finish, journal
<1>9. CASE \E p \in Prices, feeNow \in BOOLEAN : Fill(i, p, feeNow)
  <2>1. PICK p \in Prices, feeNow \in BOOLEAN : Fill(i, p, feeNow)
    BY <1>9
  <2> DEFINE share == Fee(p)
             paid == IF feeNow THEN share ELSE 0
             first == IF o.first = NoTime THEN clock ELSE o.first
             qty == o.qty + 1
             funds == o.funds + p
             fee == o.fee + paid
             due == o.due + share - paid
             new == Traded(o, qty, funds, fee, due, first, clock)
  <2>2. orders' = [orders EXCEPT ![i] = new]
    BY <1>3, <2>1, Zenon DEF Fill, Traded
  <2>3. /\ krw' = krw - paid + (IF o.side = "bid" THEN -p ELSE p)
        /\ btc' = btc + (IF o.side = "bid" THEN 1 ELSE -1)
        /\ IF o.side = "bid" THEN o.funds + p <= o.amount ELSE o.qty < o.amount
    BY <1>3, <2>1, Zenon DEF Fill
  <2>4. p \in Nat /\ p >= 2 /\ share \in Nat /\ paid \in {0, Fee(p)} /\ paid \in Nat
    BY PricesAboveOne, FeeFits
  <2>5. due = o.due + Fee(p) - paid
    OBVIOUS
  <2> HIDE DEF share
  <2>6. qty \in Nat /\ funds \in Int /\ fee \in Int /\ due \in Int /\ first \in Int /\ clock \in Int
    BY <1>6, <1>7, <2>4
  <2>7. new \in OrderShape
    BY <2>6, OrderTraded
  <2>8. /\ new.qty = qty /\ new.funds = funds /\ new.fee = fee /\ new.due = due /\ new.first = first /\ new.last = clock
        /\ new.side = o.side /\ new.amount = o.amount /\ new.state = o.state /\ new.created = o.created
    <3> HIDE DEF qty, funds, fee, due, first
    <3>1. QED
      BY DEF Traded, OrderShape
  <2>9. fee >= o.fee /\ funds >= o.funds + 2
    BY <1>7, <2>4
  <2> HIDE DEF new, paid, due
  <2>10. OrderSound(new, clock) /\ krw' \in Nat /\ btc' \in Nat /\ Covered(krw', btc', new.side, Rest(new), new.due)
    BY <1>5, <1>6, <2>3, <2>4, <2>5, <2>7, <2>8, FillCovered
  <2>11. Follows(new, r)
    BY <1>5, <2>7, <2>8, <2>9, FollowsOn
  <2>12. QED
    BY <1>1, <1>2, <1>4, <1>8, <2>2, <2>7, <2>10, <2>11, OrderLedger
<1>10. CASE PostFee(i)
  <2> DEFINE fee == o.fee + o.due
             new == Charged(o, fee)
  <2>1. orders' = [orders EXCEPT ![i] = new]
    BY <1>3, <1>10, Zenon DEF PostFee, Charged
  <2>2. krw' = krw - o.due /\ btc' = btc
    BY <1>3, <1>10, Zenon DEF PostFee
  <2>3. fee \in Int /\ o.due >= 0 /\ fee >= o.fee /\ fee >= 0
    BY <1>5, <1>7 DEF OrderSound
  <2>4. new \in OrderShape
    BY <2>3, OrderTraded
  <2>5. /\ new.qty = o.qty /\ new.funds = o.funds /\ new.fee = fee /\ new.due = 0 /\ new.first = o.first
        /\ new.last = o.last /\ new.side = o.side /\ new.amount = o.amount /\ new.state = o.state
        /\ new.created = o.created
    <3> HIDE DEF fee
    <3>1. QED
      BY DEF Charged, OrderShape
  <2>6. o.qty = 0 => fee = 0
    BY <1>5 DEF OrderSound
  <2> HIDE DEF new, fee
  <2>7. OrderSound(new, clock)
    BY <1>5, <2>3, <2>5, <2>6 DEF OrderSound
  <2>8. Follows(new, r)
    BY <1>5, <2>3, <2>4, <2>5, FollowsOn
  <2>9. krw' \in Nat /\ btc' \in Nat /\ Covered(krw', btc', new.side, Rest(new), new.due)
    <3>1. Rest(new) = Rest(o) /\ Rest(o) \in Int
      BY <1>7, <2>5 DEF Rest
    <3>2. CASE o.side = "bid"
      <4>1. Rest(o) >= 0 /\ FeeShare * (krw - o.due - Rest(o)) >= Rest(o)
        BY <1>5, <3>2 DEF Covered
      <4>2. krw - o.due - Rest(o) >= 0
        BY <1>6, <1>7, <3>1, <4>1, ScaledSign
      <4>3. krw' - 0 - Rest(o) = krw - o.due - Rest(o) /\ krw' \in Nat
        BY <1>6, <1>7, <2>2, <3>1, <4>1, <4>2
      <4>4. QED
        BY <1>6, <2>2, <2>5, <3>1, <3>2, <4>1, <4>3 DEF Covered
    <3>3. CASE o.side = "ask"
      BY <1>5, <1>6, <1>7, <2>2, <2>5, <3>1, <3>3 DEF Covered
    <3>4. QED
      BY <1>7, <3>2, <3>3
  <2>10. QED
    BY <1>1, <1>2, <1>4, <1>8, <2>1, <2>4, <2>7, <2>8, <2>9, OrderLedger
<1>11. CASE Finish(i)
  <2> DEFINE new == [o EXCEPT !.state = "done"]
  <2>1. orders' = [orders EXCEPT ![i] = new] /\ krw' = krw /\ btc' = btc /\ o.due = 0
    BY <1>3, <1>11 DEF Finish
  <2>2. QED
    BY <1>1, <1>2, <1>3, <1>4, <1>5, <1>6, <1>8, <2>1, ClosedLedger
<1>12. QED
  BY <1>9, <1>10, <1>11

\* CancelOrder and LoseAnswer: a cancellation closes only what owes no fee.
LEMMA CancelLedger ==
    ASSUME Inv, Ledger, CancelOrder \/ LoseAnswer
    PROVE  Ledger'
<1>1. UNCHANGED <<clock, krw, btc, intents>>
  BY DEF CancelOrder, LoseAnswer, Failure, journal
<1>2. CASE orders' = orders
  BY <1>1, <1>2 DEF Ledger, Pending, Newest, Exists
<1>3. CASE orders' # orders
  <2>1. pc = "cancel"
    BY <1>3 DEF CancelOrder, LoseAnswer
  <2>2. Pending # {} /\ Exists(Newest) /\ PendingId = Newest /\ Newest \in Id
    BY <2>1, PendingIsNewest DEF Inv, Path
  <2>3. orders[Newest] \in OrderShape
    BY <2>2, PendingOrder
  <2>4. PICK closed \in {"wait", "done", "cancel"} :
           /\ orders' = [orders EXCEPT ![Newest] = [orders[Newest] EXCEPT !.state = closed]]
           /\ closed # "wait" => orders[Newest].state # "wait" \/ orders[Newest].due = 0
    BY <1>3, <2>2, <2>3 DEF CancelOrder, LoseAnswer, OrderShape
  <2>5. orders[Newest].state # "wait" => orders[Newest].due = 0
    BY <2>2, PendingOrder DEF OrderSound
  <2>6. QED
    BY <1>1, <2>2, <2>4, <2>5, ClosedLedger
<1>4. QED
  BY <1>2, <1>3

\* Arrive, Post and PostUnanswered: the venue learns of an order that nothing was traded of.
LEMMA ArrivalLedger ==
    ASSUME Inv, Books, Ledger, NEW i \in 1..Len(intents), i \in Id, ~Exists(i),
           orders' \in {orders, [orders EXCEPT ![i] = NewOrder(i)]}, UNCHANGED <<clock, krw, btc, intents>>
    PROVE  Ledger'
<1>1. i = Newest /\ Pending = {Newest} /\ intents[i] \in IntentShape
  BY PendingIsNewest DEF Inv, Path, Newest
<1>2. CASE orders' = orders
  BY <1>2 DEF Ledger, Pending, Newest, Exists
<1>3. CASE orders' = [orders EXCEPT ![i] = NewOrder(i)]
  <2> DEFINE o == NewOrder(i)
             r == intents[i]
  <2>1. o \in OrderShape
    BY NewOrderFits DEF Inv
  <2>2. /\ o.known /\ o.side = r.side /\ o.amount = r.amount /\ o.state = "wait" /\ o.qty = 0 /\ o.funds = 0
        /\ o.fee = 0 /\ o.due = 0 /\ o.created = clock /\ o.first = NoTime /\ o.last = NoTime
    BY DEF NewOrder
  <2>3. /\ r.qty = 0 /\ r.funds = 0 /\ r.fee = 0 /\ r.amount > 0 /\ r.created <= clock
        /\ Covered(krw, btc, r.side, r.amount, 0) /\ r.amount \in Int /\ r.side \in {"bid", "ask"}
        /\ clock \in Nat
    BY <1>1 DEF Books, Ledger, IntentShape, Inv, Shape
  <2> HIDE DEF o, r
  <2>4. OrderSound(o, clock) /\ Follows(o, r) /\ Rest(o) = r.amount
    BY <2>2, <2>3 DEF OrderSound, Follows, Rest
  <2>5. orders' = [orders EXCEPT ![Newest] = o] /\ orders \in [Id -> {Absent} \cup OrderShape]
    BY <1>1, <1>3 DEF o, Inv, Shape
  <2>6. Pending' = Pending /\ Newest' = Newest /\ orders'[Newest] = o /\ Exists(Newest)' /\ intents'[Newest] = r
    BY <1>1, <2>2, <2>5 DEF Pending, Newest, Exists, r
  <2>7. ASSUME NEW k \in Id, Exists(k)' PROVE OrderSound(orders'[k], clock')
    <3>1. CASE k = Newest
      BY <2>4, <2>6, <3>1
    <3>2. CASE k # Newest
      <4>1. orders'[k] = orders[k] /\ Exists(k)
        BY <2>5, <2>7, <3>2 DEF Exists
      <4>2. QED
        BY <4>1 DEF Ledger
    <3>3. QED
      BY <3>1, <3>2
  <2>8. Covered(krw, btc, o.side, Rest(o), o.due)
    BY <2>2, <2>3, <2>4
  <2>9. \A k \in 1..Len(intents') : /\ intents'[k].amount > 0 /\ intents'[k].funds >= 0 /\ intents'[k].fee >= 0
                                    /\ intents'[k].created <= clock'
    BY DEF Ledger
  <2>10. krw' \in Nat /\ btc' \in Nat
    BY DEF Ledger
  <2>11. QED
    BY <2>4, <2>6, <2>7, <2>8, <2>9, <2>10 DEF Ledger
<1>4. QED
  BY <1>2, <1>3

\* Arrive, Post and PostUnanswered are arrivals.
LEMMA SendLedger ==
    ASSUME Inv, Books, Ledger, (\E i \in Id : Arrive(i)) \/ Post \/ PostUnanswered
    PROVE  Ledger'
<1>1. CASE \E i \in Id : Arrive(i)
  <2>1. PICK i \in Id : Arrive(i)
    BY <1>1
  <2>2. i \in inflight /\ ~Exists(i) /\ i <= Len(intents)
    BY <2>1 DEF Arrive, Inv, Path
  <2>3. i \in 1..Len(intents)
    BY <2>2, Constants, PendingIsNewest DEF Id, Inv
  <2>4. orders' \in {orders, [orders EXCEPT ![i] = NewOrder(i)]} /\ UNCHANGED <<clock, krw, btc, intents>>
    BY <2>1 DEF Arrive, journal
  <2>5. QED
    BY <2>2, <2>3, <2>4, ArrivalLedger
<1>2. CASE Post \/ PostUnanswered
  <2>1. pc = "send"
    BY <1>2 DEF Post, PostUnanswered
  <2>2. ~Exists(Newest) /\ Newest \in 1..Len(intents) /\ Newest \in Id
    BY <2>1, PendingIsNewest DEF Inv, Path
  <2>3. orders' \in {orders, [orders EXCEPT ![Newest] = NewOrder(Newest)]} /\ UNCHANGED <<clock, krw, btc, intents>>
    BY <1>2 DEF Post, PostUnanswered, Failure, journal
  <2>4. QED
    BY <2>2, <2>3, ArrivalLedger
<1>3. QED
  BY <1>1, <1>2

\* Steps that leave account, orders and intents alone.
LEMMA QuietLedger ==
    ASSUME Inv, Ledger, UNCHANGED <<orders, krw, btc, intents>>, clock' \in Int, clock <= clock'
    PROVE  Ledger'
<1>1. clock \in Nat /\ orders \in [Id -> {Absent} \cup OrderShape]
  BY DEF Inv, Shape
<1>2. ASSUME NEW i \in Id, Exists(i) PROVE OrderSound(orders[i], clock')
  <2>1. orders[i] \in OrderShape /\ OrderSound(orders[i], clock)
    BY <1>1, <1>2 DEF Exists, Absent, Ledger
  <2>2. QED
    BY <1>1, <2>1, SoundLater
<1>3. ASSUME NEW i \in 1..Len(intents) PROVE intents[i].created <= clock'
  <2>1. intents[i].created \in Nat /\ intents[i].created <= clock
    BY PendingIsNewest DEF Inv, IntentShape, Ledger
  <2>2. QED
    BY <1>1, <2>1
<1>4. QED
  BY <1>2, <1>3 DEF Ledger, Pending, Newest, Exists

\* Calls, candles, prices and decisions move neither money nor orders.
LEMMA QuietLedgerSteps ==
    ASSUME Inv, Ledger,
           \/ Tick \/ ProcessCompletedCandle \/ OnPrice \/ Reconcile
           \/ QueryNotFound \/ NothingPending \/ ReadAccounts
           \/ CandleUnfit \/ CandleChecks \/ CandleFrozen \/ CandleRefused \/ CandleDecide
           \/ PriceStep \/ SubmitNothing \/ SubmitStale \/ Crash
    PROVE  Ledger'
<1>1. clock \in Nat
  BY DEF Inv, Shape
<1>2. CASE Tick
  <2>1. clock' = clock + 1 /\ UNCHANGED <<orders, krw, btc, intents>>
    BY <1>2 DEF Tick, venue, journal
  <2>2. QED
    BY <1>1, <2>1, QuietLedger
<1>3. CASE ~Tick
  <2>1. UNCHANGED <<orders, krw, btc, intents, clock>>
    BY <1>3 DEF ProcessCompletedCandle, OnPrice, Reconcile, Begin, QueryNotFound, NothingPending, ReadAccounts,
                CandleUnfit, CandleChecks, CandleFrozen, CandleRefused, CandleDecide, PriceStep, SubmitNothing,
                SubmitStale, Crash, Failure, venue, journal
  <2>2. QED
    BY <1>1, <2>1, QuietLedger
<1>4. QED
  BY <1>2, <1>3

\* Query and Requery: what is recorded is what the venue said.
LEMMA QueryLedger ==
    ASSUME Inv, Inv', Ledger, Query \/ Requery
    PROVE  Ledger'
<1>1. Pending # {} /\ Exists(PendingId) /\ UNCHANGED <<clock, orders, krw, btc>> /\ PendingId = Newest
  <2>1. Pending # {} /\ Exists(PendingId) /\ UNCHANGED <<clock, orders, krw, btc>>
    BY DEF Query, Requery, Inv, Path, venue
  <2>2. QED
    BY <2>1, PendingIsNewest DEF Inv
<1>2. CASE intents' = intents
  <2>1. clock \in Int /\ clock <= clock
    BY DEF Inv, Shape
  <2>2. QED
    BY <1>1, <1>2, <2>1, QuietLedger
<1>3. CASE intents' # intents
  <2>1. PICK cancelling \in BOOLEAN : ApplyOrder(Newest, cancelling)
    BY <1>1, <1>3 DEF Query, Requery, PartialBuy, Failure
  <2>2. PICK o \in OrderShape : o = orders[Newest]
    BY <1>1, PendingOrder
  <2>3. PICK r \in IntentShape : r = intents[Newest]
    BY <1>1, PendingOrder
  <2>4. /\ Newest \in Id /\ Newest \in 1..Len(intents) /\ OrderSound(o, clock) /\ Follows(o, r)
        /\ Covered(krw, btc, o.side, Rest(o), o.due)
    BY <1>1, <2>2, <2>3, PendingOrder
  <2> DEFINE cancel == Recorded(r, o).cancel \/ cancelling
             row == [Recorded(r, o) EXCEPT !.cancel = cancel]
  <2>5. intents' = [intents EXCEPT ![Newest] = row]
    BY <2>1, <2>2, <2>3, Zenon DEF ApplyOrder
  <2> HIDE DEF cancel
  <2>6. /\ row.qty = o.qty /\ row.funds = o.funds /\ row.fee = o.fee /\ row.side = r.side
        /\ row.amount = r.amount /\ row.created = r.created
    BY RecordKeeps
  <2> HIDE DEF row
  <2>7. intents \in Seq(IntentShape) /\ intents' \in Seq(IntentShape)
    BY DEF Inv, Shape
  <2>8. DOMAIN intents' = DOMAIN intents
    BY <2>5
  <2>9. Len(intents') = Len(intents) /\ DOMAIN intents = 1..Len(intents)
    BY <2>7, <2>8, LenProperties
  <2>10. Newest' = Newest /\ intents'[Newest] = row
    BY <2>4, <2>5, <2>9 DEF Newest
  <2>11. /\ o.qty \in Nat /\ o.funds \in Int /\ o.fee \in Int /\ r.amount \in Int /\ r.created \in Int
         /\ o.funds >= 0 /\ o.fee >= 0
    <3>1. o.qty \in Nat /\ o.funds \in Int /\ o.fee \in Int
      BY DEF OrderShape
    <3>2. r.amount \in Int /\ r.created \in Int
      BY DEF IntentShape
    <3>3. o.funds >= 2 * o.qty /\ o.fee >= 0
      BY <2>4 DEF OrderSound
    <3>4. QED
      BY <3>1, <3>2, <3>3
  <2>12. Follows(o, row)
    <3>1. Follows(o, r)
      BY <2>4
    <3>2. o.qty \in Int /\ o.funds \in Int /\ o.fee \in Int
      BY <2>11
    <3>3. /\ row.qty = o.qty /\ row.funds = o.funds /\ row.fee = o.fee /\ row.side = r.side
          /\ row.amount = r.amount /\ row.created = r.created
      BY <2>6
    <3>4. QED
      BY <3>1, <3>2, <3>3 DEF Follows
  <2>13. ASSUME NEW k \in 1..Len(intents')
         PROVE  /\ intents'[k].amount > 0 /\ intents'[k].funds >= 0 /\ intents'[k].fee >= 0
                /\ intents'[k].created <= clock'
    <3>1. CASE k = Newest
      <4>1. r.amount > 0 /\ r.created <= clock
        BY <2>3, <2>4 DEF Ledger
      <4>2. QED
        BY <1>1, <2>6, <2>10, <2>11, <3>1, <4>1
    <3>2. CASE k # Newest
      <4>1. intents'[k] = intents[k] /\ k \in 1..Len(intents)
        BY <2>5, <2>9, <3>2
      <4>2. QED
        BY <1>1, <4>1 DEF Ledger
    <3>3. QED
      BY <3>1, <3>2
  <2>14. \A k \in Id : Exists(k)' = Exists(k)
    BY <1>1 DEF Exists
  <2>15. Exists(Newest)'
    BY <1>1, <2>10 DEF Exists
  <2>16. Follows(orders'[Newest'], intents'[Newest'])
    BY <1>1, <2>2, <2>10, <2>12
  <2>17. Covered(krw', btc', orders'[Newest'].side, Rest(orders'[Newest']), orders'[Newest'].due)
    BY <1>1, <2>2, <2>4, <2>10
  <2>18. krw' \in Nat /\ btc' \in Nat
    BY <1>1 DEF Ledger
  <2>19. \A k \in Id : Exists(k)' => OrderSound(orders'[k], clock')
    BY <1>1, <2>14 DEF Ledger
  <2>20. QED
    BY <2>13, <2>15, <2>16, <2>17, <2>18, <2>19 DEF Ledger, Exists
<1>4. QED
  BY <1>2, <1>3

\* The smallest of a few numbers is none of the larger ones.
LEMMA SmallestIsBelow ==
    ASSUME NEW a \in Int, NEW b \in Int, NEW c \in Int
    PROVE  Min({a, b}) \in Int /\ Min({a, b}) <= b /\ Min({a, b, c}) \in Int /\ Min({a, b, c}) <= c
<1>1. \E x \in {a, b} : \A y \in {a, b} : x <= y
  OBVIOUS
<1>2. \E x \in {a, b, c} : \A y \in {a, b, c} : x <= y
  OBVIOUS
<1>3. Min({a, b}) \in {a, b} /\ \A y \in {a, b} : Min({a, b}) <= y
  BY <1>1 DEF Min
<1>4. Min({a, b, c}) \in {a, b, c} /\ \A y \in {a, b, c} : Min({a, b, c}) <= y
  BY <1>2 DEF Min
<1>5. QED
  BY <1>3, <1>4

\* What _submit asks for is within what the account affords, or holds.
LEMMA AmountAfforded ==
    ASSUME NEW plan \in PlanShape, NEW b, b.krw \in Nat, b.btc \in Nat, state # Nil, state \in StateShape,
           Amount(plan, b) > 0
    PROVE  /\ Amount(plan, b) \in Int
           /\ plan.action = "buy" => ~Holding /\ Amount(plan, b) <= Affordable(b)
           /\ plan.action # "buy" => Holding /\ Amount(plan, b) <= b.btc
<1> DEFINE total == plan.size * plan.price
           most == Affordable(b)
           budget == Min({total, most})
           units == Min({plan.size, state.position.qty, b.btc})
<1>1. plan.size \in Int /\ plan.price \in Int /\ plan.action \in {"buy", "sell", "hold"}
  BY DEF PlanShape
<1>2. state.position.qty \in Int
  <2>1. state.position \in {Flat} \cup PositionShape
    BY DEF StateShape
  <2>2. QED
    BY <2>1 DEF Flat, PositionShape
<1>3. total \in Int /\ most \in Int
  BY <1>1, AffordableFits
<1>4. Amount(plan, b) = CASE plan.action = "buy" /\ ~Holding /\ ~halted /\ budget >= MinTotal -> budget
                          [] plan.action = "sell" /\ Holding /\ units * plan.price >= MinTotal -> units
                          [] OTHER -> 0
  BY DEF Amount
<1> HIDE DEF total, most
<1>5. budget \in Int /\ budget <= most
  BY <1>3, SmallestIsBelow
<1>6. units \in Int /\ units <= b.btc
  <2>1. b.btc \in Int
    OBVIOUS
  <2>2. QED
    BY <1>1, <1>2, <2>1, SmallestIsBelow, Zenon
<1> HIDE DEF budget, units
<1>7. \/ plan.action = "buy" /\ ~Holding /\ Amount(plan, b) = budget
      \/ plan.action = "sell" /\ Holding /\ Amount(plan, b) = units
  BY <1>1, <1>4
<1>8. QED
  BY <1>5, <1>6, <1>7 DEF most

\* Submit: the account can pay for what is asked, and for its fee.
LEMMA SubmitLedger ==
    ASSUME Inv, Inv', Ledger, Submit
    PROVE  Ledger'
<1> DEFINE amount == Amount(call.plan, call.balances)
           new == NewIntent(call.plan, amount)
           n == Len(intents)
<1>1. /\ pc = "submit" /\ call.balances = Accounts /\ amount > 0 /\ intents' = Append(intents, new) /\ pc' = "send"
      /\ UNCHANGED <<clock, orders, krw, btc>>
  BY DEF Submit, SaveIntent, Goto, venue
<1>2. /\ call.plan \in PlanShape /\ call.at \in Nat /\ call.at <= clock /\ state # Nil /\ state \in StateShape
      /\ krw \in Nat /\ btc \in Nat /\ intents \in Seq(IntentShape)
  BY <1>1 DEF Inv, Shape, Cursor, CallShape, Ledger
<1>3. call.balances.krw = krw /\ call.balances.btc = btc
  BY <1>1 DEF Accounts
<1>4. amount \in Int /\ IF call.plan.action = "buy" THEN amount <= Affordable(call.balances) ELSE amount <= btc
  BY <1>1, <1>2, <1>3, AmountAfforded
<1>5. /\ new.side = (IF call.plan.action = "buy" THEN "bid" ELSE "ask") /\ new.amount = amount
      /\ new.created = call.at /\ new.funds = 0 /\ new.fee = 0
  BY DEF NewIntent
<1> HIDE DEF amount
<1>6. Covered(krw, btc, new.side, new.amount, 0)
  <2>1. CASE call.plan.action = "buy"
    <3> DEFINE most == Affordable(call.balances)
    <3>1. most \in Nat /\ most <= krw /\ FeeShare * (krw - most) >= most /\ amount <= most
      BY <1>2, <1>3, <1>4, <2>1, AffordableFits
    <3>2. FeeShare \in Nat \ {0}
      BY Constants
    <3> HIDE DEF most
    <3>3. FeeShare * (most - amount) >= 0
      BY <1>4, <3>1, <3>2
    <3>4. FeeShare * (krw - amount) = FeeShare * (krw - most) + FeeShare * (most - amount)
      BY <1>2, <1>4, <3>1, <3>2
    <3>5. FeeShare * (krw - most) \in Int /\ FeeShare * (most - amount) \in Int
      BY <1>2, <1>4, <3>1, <3>2
    <3>6. FeeShare * (krw - amount) >= amount /\ amount >= 0
      BY <1>1, <1>4, <3>1, <3>3, <3>4, <3>5
    <3>7. krw - 0 - amount = krw - amount
      BY <1>2, <1>4
    <3>8. QED
      BY <1>5, <2>1, <3>6, <3>7 DEF Covered
  <2>2. CASE call.plan.action # "buy"
    BY <1>2, <1>4, <1>5, <2>2 DEF Covered
  <2>3. QED
    BY <2>1, <2>2
<1> HIDE DEF new
<1>7. Len(intents') = n + 1 /\ n \in Nat /\ intents'[n + 1] = new /\ \A k \in 1..n : intents'[k] = intents[k]
  <2>1. intents' \in Seq(IntentShape) /\ n \in Nat
    BY <1>2, LenProperties DEF Inv, Shape
  <2>2. QED
    BY <1>1, <1>2, <2>1
<1>8. Newest' = n + 1 /\ ~Exists(Newest)'
  <2>1. ~Exists(Newest)'
    BY <1>1 DEF Inv, Path
  <2>2. QED
    BY <1>7, <2>1 DEF Newest
<1>9. ASSUME NEW k \in 1..Len(intents')
      PROVE  /\ intents'[k].amount > 0 /\ intents'[k].funds >= 0 /\ intents'[k].fee >= 0
             /\ intents'[k].created <= clock'
  <2>1. CASE k = n + 1
    BY <1>1, <1>2, <1>5, <1>7, <2>1
  <2>2. CASE k # n + 1
    <3>1. k \in 1..n
      BY <1>7, <2>2
    <3>2. QED
      BY <1>1, <1>7, <3>1 DEF Ledger
  <2>3. QED
    BY <2>1, <2>2
<1>10. \A k \in Id : Exists(k)' = Exists(k)
  BY <1>1 DEF Exists
<1>11. krw' \in Nat /\ btc' \in Nat /\ \A k \in Id : Exists(k)' => OrderSound(orders'[k], clock')
  BY <1>1, <1>10 DEF Ledger
<1>12. Covered(krw', btc', intents'[Newest'].side, intents'[Newest'].amount, 0)
  BY <1>1, <1>6, <1>7, <1>8
<1>13. QED
  BY <1>8, <1>9, <1>11, <1>12 DEF Ledger

\* Nothing is owed before the first step.
LEMMA InitLedger == Init => Ledger
<1> SUFFICES ASSUME Init PROVE Ledger
  OBVIOUS
<1>1. Pending = {} /\ krw = Cash /\ btc = 0 /\ Len(intents) = 0 /\ \A i \in Id : ~Exists(i)
  BY EmptySeq DEF Init, Pending, Exists, Absent
<1>2. Cash \in Nat
  BY Constants
<1>3. QED
  BY <1>1, <1>2 DEF Ledger

\* Every step keeps the pending order paid for.
LEMMA NextLedger == Inv /\ Inv' /\ Books /\ Ledger /\ [Next]_vars => Ledger'
<1> SUFFICES ASSUME Inv, Inv', Books, Ledger, [Next]_vars PROVE Ledger'
  OBVIOUS
<1>1. CASE Venue
  <2>1. PICK i \in Id : \/ \E p \in Prices, feeNow \in BOOLEAN : Fill(i, p, feeNow)
                        \/ PostFee(i) \/ Finish(i) \/ Arrive(i)
    BY <1>1 DEF Venue
  <2>2. QED
    BY <2>1, TradingLedger, SendLedger
<1>2. CASE Service
  BY <1>2, QueryLedger, CancelLedger, QuietLedgerSteps, SubmitLedger, SendLedger DEF Service
<1>3. CASE Tick \/ ProcessCompletedCandle \/ OnPrice \/ Reconcile \/ SubmitStale \/ Crash
  BY <1>3, QuietLedgerSteps
<1>4. CASE LoseAnswer \/ PostUnanswered
  BY <1>4, CancelLedger, SendLedger
<1>5. CASE UNCHANGED vars
  <2>1. clock' = clock /\ clock \in Nat /\ UNCHANGED <<orders, krw, btc, intents>>
    BY <1>5 DEF vars, venue, journal, Inv, Shape
  <2>2. QED
    BY <2>1, QuietLedger
<1>6. QED
  BY <1>1, <1>2, <1>3, <1>4, <1>5 DEF Next

\* The account pays for the pending order, however it trades.
LEMMA LedgerHolds == Spec => [](Inv /\ Books /\ Ledger)
<1>1. Spec => []Books
  BY InitBooks, NextBooks, InvHolds, PTL DEF Spec
<1>2. Spec => []Ledger
  BY <1>1, InitLedger, NextLedger, InvHolds, PTL DEF Spec
<1>3. QED
  BY <1>1, <1>2, InvHolds, PTL

\* Facts that go on from the recorded ones, within what the account pays for,
\* pass every check of _apply_order.
LEMMA SoundIsAbsorbable == Inv /\ Books /\ Ledger => Absorbable
<1> SUFFICES ASSUME Inv, Books, Ledger, NEW i \in Pending, Exists(i) PROVE Accepts(i, orders[i], clock)
  BY DEF Absorbable
<1>1. i = Newest /\ Pending # {}
  BY PendingIsNewest DEF Inv
<1>2. PICK o \in OrderShape : o = orders[i]
  BY <1>1, PendingOrder
<1>3. PICK r \in IntentShape : r = intents[i]
  BY <1>1, PendingOrder
<1>4. OrderSound(o, clock) /\ Follows(o, r) /\ Newest \in 1..Len(intents)
  BY <1>1, <1>2, <1>3, PendingOrder
<1>5. /\ o.qty \in Nat /\ o.funds \in Int /\ o.fee \in Int /\ o.amount \in Int /\ o.side \in {"bid", "ask"}
      /\ o.created \in Nat /\ o.first \in Int /\ o.last \in Int
      /\ r.qty \in Nat /\ r.funds \in Int /\ r.fee \in Int /\ r.amount \in Int /\ r.created \in Nat
  BY DEF OrderShape, IntentShape
<1>6. state # Nil
  BY <1>4 DEF Inv, Cursor
<1>7. state.cash \in Int /\ state.position.qty \in Int
  <2>1. state.cash \in Int /\ state.position \in {Flat} \cup PositionShape
    BY <1>6 DEF Inv, Shape, StateShape
  <2>2. QED
    BY <2>1 DEF Flat, PositionShape
<1>8. Balanced(krw, btc, state, o, r) /\ krw \in Nat /\ btc \in Nat /\ clock \in Nat
  BY <1>1, <1>2, <1>3, <1>6 DEF Books, Ledger, Inv, Shape
<1> DEFINE quantity == o.qty - r.qty
           funds == o.funds - r.funds
<1>9. /\ o.side = r.side /\ o.amount = r.amount /\ o.created >= r.created /\ o.created <= clock
      /\ quantity >= 0 /\ o.fee >= r.fee /\ (quantity = 0 => funds = 0) /\ (quantity > 0 => funds > 0)
  <2>1. /\ o.side = r.side /\ o.amount = r.amount /\ o.created >= r.created /\ o.created <= clock
        /\ r.qty <= o.qty /\ o.fee >= r.fee
    BY <1>4, <1>5 DEF Follows, OrderSound
  <2>2. IF o.qty = r.qty THEN o.funds = r.funds ELSE o.funds - r.funds >= 2 * (o.qty - r.qty)
    BY <1>4 DEF Follows
  <2>3. QED
    BY <1>5, <2>1, <2>2
<1>10. funds >= 0
  BY <1>5, <1>9
<1>11. o.last <= clock /\ (quantity > 0 => o.last # NoTime /\ o.created <= o.first /\ o.first <= o.last)
  <2>1. CASE o.qty = 0
    <3>1. o.last = NoTime /\ quantity <= 0
      BY <1>4, <1>5, <2>1 DEF OrderSound
    <3>2. QED
      BY <1>5, <1>8, <3>1 DEF NoTime
  <2>2. CASE o.qty # 0
    <3>1. o.created <= o.first /\ o.first <= o.last /\ o.last <= clock
      BY <1>4, <2>2 DEF OrderSound
    <3>2. QED
      BY <1>5, <3>1 DEF NoTime
  <2>3. QED
    BY <2>1, <2>2
<1>12. CASE o.side = "bid"
  <2>1. o.funds <= r.amount /\ state.cash >= funds + o.fee - r.fee
    <3>1. krw = state.cash - funds - (o.fee - r.fee)
      BY <1>8, <1>9, <1>12 DEF Balanced, Increment
    <3>2. o.funds <= o.amount
      BY <1>4, <1>12 DEF OrderSound
    <3>3. QED
      BY <1>5, <1>7, <1>8, <1>9, <3>1, <3>2
  <2>2. QED
    BY <1>2, <1>3, <1>9, <1>10, <1>11, <1>12, <2>1 DEF Accepts
<1>13. CASE o.side = "ask"
  <2>1. quantity <= state.position.qty /\ o.qty <= r.amount /\ state.cash + funds >= o.fee - r.fee
    <3>1. krw = state.cash + funds - (o.fee - r.fee) /\ btc = state.position.qty - quantity
      BY <1>8, <1>9, <1>13 DEF Balanced, Increment
    <3>2. o.qty <= o.amount
      BY <1>4, <1>13 DEF OrderSound
    <3>3. QED
      BY <1>5, <1>7, <1>8, <1>9, <3>1, <3>2
  <2>2. QED
    BY <1>2, <1>3, <1>9, <1>10, <1>11, <1>13, <2>1 DEF Accepts
<1>14. QED
  BY <1>5, <1>12, <1>13

\* Reconciliation can never wedge: whatever trades, fees, cancellations and late
\* arrivals the venue reports of the pending order, _apply_order accepts it.
THEOREM AbsorbableHolds == Spec => []Absorbable
BY LedgerHolds, SoundIsAbsorbable, PTL

-----------------------------------------------------------------------------
\* The journal can be loaded and accounts for every result

\* Stops and high water of a position agree, and what is announced is a raise.
PositionSound(p) ==
    /\ p.basis >= 0 /\ 0 < p.initial /\ p.initial < p.entry /\ p.stop >= p.initial /\ p.high >= p.entry
    /\ p.entryAt >= 0
    /\ IF p.nextAt = NoTime THEN p.next = 0 ELSE p.next > 0 /\ p.next >= p.stop

\* What a position has cost so far, less what it realised.
Cost(pos) == IF pos.qty > 0 THEN pos.basis - pos.realized ELSE 0

Exits(trades) ==
    /\ \A k \in 1..Len(trades) : trades[k].exit >= 0
    /\ \A k \in 1..Len(trades) - 1 : trades[k].exit <= trades[k + 1].exit

StateSound(s) ==
    /\ s.riskCount <= Len(s.trades) /\ Exits(s.trades)
    /\ s.position.qty > 0 => PositionSound(s.position)
    /\ Total(s.trades, s.cash + Cost(s.position))

\* No trade was closed after t.
Before(trades, t) == \A k \in 1..Len(trades) : trades[k].exit <= t

\* A buy holds what its row has recorded, and no stop is announced for it; a
\* sell serves a position that is held since the last trade, or has closed it with
\* a trade that risk has not counted yet.
Served(s, r) ==
    IF r.side = "bid" THEN s.position.qty = r.qty /\ (s.position.qty > 0 => s.position.next = 0)
    ELSE IF s.position.qty > 0 THEN Before(s.trades, r.created) ELSE s.riskCount < Len(s.trades)

Diary ==
    state # Nil => /\ state.cash >= 0 /\ StateSound(state) /\ Before(state.trades, clock)
                   /\ pc # "idle" => Before(state.trades, call.at)
                   /\ Pending # {} => Served(state, intents[Newest])

\* An average price is at least the smallest one.
LEMMA AverageIsPrice ==
    ASSUME NEW funds \in Int, NEW qty \in Nat \ {0}, funds >= 2 * qty
    PROVE  funds \div qty \in Int /\ funds \div qty >= 2
<1> DEFINE q == funds \div qty
<1>1. funds = qty * q + (funds % qty) /\ (funds % qty) \in 0..qty - 1 /\ q \in Int
  OBVIOUS
<1> HIDE DEF q
<1>2. ASSUME q < 2 PROVE FALSE
  <2>1. qty * (1 - q) >= 0
    BY <1>1, <1>2
  <2>2. qty * q = qty - qty * (1 - q)
    BY <1>1
  <2>3. qty * q <= qty
    <3>1. qty * q \in Int /\ qty * (1 - q) \in Int
      BY <1>1
    <3>2. QED
      BY <2>1, <2>2, <3>1
  <2>4. funds < 2 * qty
    <3>1. qty * q \in Int /\ funds % qty \in Int /\ funds % qty < qty
      BY <1>1
    <3>2. QED
      BY <1>1, <2>3, <3>1
  <2>5. QED
    BY <2>4
<1>3. QED
  BY <1>1, <1>2 DEF q

\* The larger of two numbers is below neither.
LEMMA LargerIsAbove ==
    ASSUME NEW a \in Int, NEW b \in Int
    PROVE  Max({a, b}) \in Int /\ Max({a, b}) >= a /\ Max({a, b}) >= b
<1>1. \E x \in {a, b} : \A y \in {a, b} : x >= y
  OBVIOUS
<1>2. Max({a, b}) \in {a, b} /\ \A y \in {a, b} : Max({a, b}) >= y
  BY <1>1 DEF Max
<1>3. QED
  BY <1>2

\* The fields of a position that a buy sets.
Enlarged(pos, qty, entry, initial, stop, high, basis) ==
    [pos EXCEPT !.qty = qty, !.entry = entry, !.initial = initial, !.stop = stop, !.high = high, !.basis = basis]

\* A buy keeps stops below the entry, raises them only, and pays the position's cost.
LEMMA BoughtSound ==
    ASSUME NEW pos \in {Flat} \cup PositionShape, NEW o \in OrderShape, NEW inc \in IncShape,
           pos.qty > 0 => PositionSound(pos) /\ pos.next = 0,
           inc.qty > 0, inc.funds >= 2 * inc.qty, inc.fee >= 0, o.qty > 0, o.funds >= 2 * o.qty, o.first >= 0
    PROVE  /\ PositionSound(Bought(pos, o, inc)) /\ Bought(pos, o, inc).next = 0
           /\ Cost(Bought(pos, o, inc)) = Cost(pos) + inc.funds + inc.fee
<1>1. inc.qty \in Nat /\ inc.funds \in Int /\ inc.fee \in Int /\ o.qty \in Nat /\ o.funds \in Int /\ o.first \in Int
  BY DEF IncShape, OrderShape
<1>2. CASE pos.qty = 0
  <2> DEFINE entry == inc.funds \div inc.qty
             b == Bought(pos, o, inc)
  <2>1. entry \in Int /\ entry >= 2
    BY <1>1, AverageIsPrice
  <2>2. /\ b.qty = inc.qty /\ b.entry = entry /\ b.initial = entry - 1 /\ b.stop = entry - 1 /\ b.high = entry
        /\ b.entryAt = o.first /\ b.basis = inc.funds + inc.fee /\ b.realized = 0 /\ b.next = 0 /\ b.nextAt = NoTime
    BY <1>2 DEF Bought, InitialStop
  <2> HIDE DEF entry, b
  <2>3. PositionSound(b)
    BY <1>1, <2>1, <2>2 DEF PositionSound
  <2>4. Cost(b) = Cost(pos) + inc.funds + inc.fee
    BY <1>1, <1>2, <2>2 DEF Cost
  <2>5. QED
    BY <2>2, <2>3, <2>4 DEF b
<1>3. CASE pos.qty # 0
  <2> DEFINE qty == pos.qty + inc.qty
             entry == o.funds \div o.qty
             initial == InitialStop(entry)
             stop == RaisedStop(pos.stop, entry)
             high == RaisedHigh(pos.high, entry)
             basis == pos.basis + inc.funds + inc.fee
             b == Enlarged(pos, qty, entry, initial, stop, high, basis)
  <2>1. pos \in PositionShape
    BY <1>3 DEF Flat
  <2>2. /\ pos.qty \in Nat /\ pos.qty > 0 /\ pos.stop \in Int /\ pos.high \in Int /\ pos.basis \in Int
        /\ pos.realized \in Int /\ pos.entryAt \in Int /\ PositionSound(pos) /\ pos.next = 0
    BY <1>3, <2>1 DEF PositionShape
  <2>3. entry \in Int /\ entry >= 2
    BY <1>1, AverageIsPrice
  <2>4. Bought(pos, o, inc) = b
    BY <1>3, Zenon DEF Bought, Enlarged
  <2> HIDE DEF entry
  <2>5. initial \in Int /\ initial = entry - 1
    BY <2>3 DEF InitialStop
  <2> HIDE DEF initial
  <2>6. stop \in Int /\ stop >= pos.stop /\ stop >= initial /\ high \in Int /\ high >= pos.high /\ high >= entry
    <3>1. stop = Max({pos.stop, initial}) /\ high = Max({pos.high, entry})
      BY DEF RaisedStop, RaisedHigh, initial
    <3> HIDE DEF stop, high
    <3>2. Max({pos.stop, initial}) \in Int /\ Max({pos.stop, initial}) >= pos.stop /\ Max({pos.stop, initial}) >= initial
      BY <2>2, <2>5, LargerIsAbove
    <3>3. Max({pos.high, entry}) \in Int /\ Max({pos.high, entry}) >= pos.high /\ Max({pos.high, entry}) >= entry
      BY <2>2, <2>3, LargerIsAbove
    <3>4. QED
      BY <3>1, <3>2, <3>3
  <2> HIDE DEF stop, high
  <2>7. basis \in Int /\ qty \in Nat /\ qty > 0 /\ basis >= 0
    <3>1. pos.basis >= 0
      BY <2>2 DEF PositionSound
    <3>2. QED
      BY <1>1, <2>2, <3>1
  <2>8. basis - pos.realized = pos.basis - pos.realized + inc.funds + inc.fee
    BY <1>1, <2>2
  <2> HIDE DEF basis, qty
  <2>9. /\ b.qty = qty /\ b.entry = entry /\ b.initial = initial /\ b.stop = stop /\ b.high = high /\ b.basis = basis
        /\ b.entryAt = pos.entryAt /\ b.realized = pos.realized /\ b.next = pos.next /\ b.nextAt = pos.nextAt
    BY <2>1 DEF Enlarged, PositionShape
  <2> HIDE DEF b
  <2>10. pos.nextAt = NoTime /\ pos.entryAt >= 0
    BY <2>2 DEF PositionSound
  <2>11. PositionSound(b)
    BY <2>2, <2>3, <2>5, <2>6, <2>7, <2>9, <2>10 DEF PositionSound
  <2>12. Cost(b) = Cost(pos) + inc.funds + inc.fee
    BY <2>2, <2>7, <2>8, <2>9 DEF Cost
  <2>13. QED
    BY <2>2, <2>4, <2>9, <2>11, <2>12
<1>4. QED
  BY <1>2, <1>3

\* The sold share of a cost basis is part of it, and all of it with the last unit.
LEMMA SoldBasisShare ==
    ASSUME NEW pos \in PositionShape, NEW inc \in IncShape, inc.qty <= pos.qty, pos.basis >= 0
    PROVE  /\ SoldBasis(pos, inc) \in Int /\ SoldBasis(pos, inc) <= pos.basis
           /\ inc.qty = pos.qty => SoldBasis(pos, inc) = pos.basis
<1> DEFINE a == pos.basis
           q == pos.qty
           k == inc.qty
           d == (a * k) \div q
<1>1. a \in Nat /\ q \in Nat \ {0} /\ k \in Nat /\ k <= q
  BY DEF PositionShape, IncShape
<1>2. SoldBasis(pos, inc) = d
  BY DEF SoldBasis
<1>3. a * k \in Nat
  BY <1>1
<1> HIDE DEF a, q, k
<1>4. d \in Int /\ a * k = q * d + ((a * k) % q) /\ (a * k) % q \in 0..q - 1
  BY <1>1, <1>3
<1> HIDE DEF d
<1>5. q * d <= a * k
  <2>1. q * d \in Int
    BY <1>1, <1>4
  <2>2. QED
    BY <1>1, <1>3, <1>4, <2>1
<1>6. a * k <= a * q
  <2>1. a * (q - k) >= 0 /\ a * q = a * k + a * (q - k) /\ a * (q - k) \in Int /\ a * q \in Int
    BY <1>1
  <2>2. QED
    BY <1>3, <2>1
<1>7. d <= a
  <2>1. ASSUME d - a > 0 PROVE FALSE
    <3>1. q * (d - a) > 0
      BY <1>1, <1>4, <2>1
    <3>2. q * (d - a) = q * d - a * q /\ q * d \in Int /\ a * q \in Int
      BY <1>1, <1>4
    <3>3. QED
      BY <1>3, <1>5, <1>6, <3>1, <3>2
  <2>2. QED
    BY <1>1, <1>4, <2>1
<1>8. k = q => d = a
  <2>1. ASSUME k = q, a - d > 0 PROVE FALSE
    <3>1. q * (a - d) >= q
      BY <1>1, <1>4, <2>1
    <3>2. q * (a - d) = a * k - q * d /\ q * d \in Int /\ q * (a - d) \in Int
      BY <1>1, <1>4, <2>1
    <3>3. QED
      BY <1>1, <1>3, <1>4, <3>1, <3>2
  <2>2. QED
    BY <1>1, <1>4, <1>7, <2>1
<1>9. QED
  BY <1>2, <1>4, <1>7, <1>8 DEF a, q, k

\* What payments make of trades and cursors.
LEMMA PaymentsTrades ==
    ASSUME NEW s \in StateShape, NEW cash, NEW pos, NEW trades
    PROVE  /\ Paid(s, cash, pos).trades = s.trades /\ Paid(s, cash, pos).riskCount = s.riskCount
           /\ Settled(s, cash, trades, pos).trades = trades /\ Settled(s, cash, trades, pos).riskCount = s.riskCount
           /\ Corrected(s, cash, trades).trades = trades /\ Corrected(s, cash, trades).riskCount = s.riskCount
BY DEF Paid, Settled, Corrected, StateShape

\* Money that moves between cash and the cost of the position leaves the results as they are.
LEMMA PaidSound ==
    ASSUME NEW s \in StateShape, NEW cash \in Int, NEW pos \in {Flat} \cup PositionShape, StateSound(s),
           pos.qty > 0 => PositionSound(pos), cash + Cost(pos) = s.cash + Cost(s.position)
    PROVE  StateSound(Paid(s, cash, pos)) /\ Paid(s, cash, pos).trades = s.trades /\ Paid(s, cash, pos).position = pos
<1> DEFINE n == Paid(s, cash, pos)
<1>1. n.cash = cash /\ n.position = pos /\ n.trades = s.trades /\ n.riskCount = s.riskCount
  BY PaymentsBooks, PaymentsTrades
<1> HIDE DEF n
<1>2. StateSound(n)
  BY <1>1 DEF StateSound
<1>3. QED
  BY <1>1, <1>2 DEF n

\* Costs are numbers.
LEMMA CostIsNumber ==
    ASSUME NEW pos \in {Flat} \cup PositionShape
    PROVE  Cost(pos) \in Int /\ pos.qty \in Nat /\ (pos.qty > 0 => pos \in PositionShape)
<1>1. CASE pos \in PositionShape
  BY <1>1 DEF Cost, PositionShape
<1>2. CASE pos = Flat
  BY <1>2 DEF Cost, Flat
<1>3. QED
  BY <1>1, <1>2

\* What a look at the order finds new: units have a price, fees are not negative,
\* and the times of the order lie between the row and the call.
Found(o, inc, r, at) ==
    /\ inc.fee >= 0 /\ o.qty >= inc.qty /\ o.funds >= 2 * o.qty
    /\ IF inc.qty > 0 THEN inc.funds >= 2 * inc.qty ELSE inc.funds = 0
    /\ o.qty > 0 => 0 <= o.first /\ 0 <= o.last /\ r.created <= o.last /\ o.last <= at
    /\ o.qty = 0 => inc.fee = 0

\* Buys.
LEMMA BuySound ==
    ASSUME NEW s \in StateShape, NEW o \in OrderShape, NEW inc \in IncShape, NEW r \in IntentShape, NEW at \in Int,
           StateSound(s), r.side = "bid", Served(s, r), Found(o, inc, r, at)
    PROVE  /\ inc.qty > 0 => LET n == Buy(s, o, inc)
                             IN  StateSound(n) /\ n.trades = s.trades /\ n.position.next = 0
           /\ inc.qty = 0 /\ o.qty = r.qty =>
                  LET n == BuyFee(s, inc)
                  IN  StateSound(n) /\ n.trades = s.trades /\ (n.position.qty > 0 => n.position.next = 0)
<1> DEFINE pos == s.position
<1>1. /\ s.cash \in Int /\ inc.qty \in Nat /\ inc.funds \in Int /\ inc.fee \in Int /\ o.qty \in Nat
      /\ pos \in {Flat} \cup PositionShape /\ o.first \in Int /\ o.funds \in Int
  BY DEF StateShape, IncShape, OrderShape
<1>2. Cost(pos) \in Int /\ pos.qty \in Nat /\ (pos.qty > 0 => pos \in PositionShape)
  BY <1>1, CostIsNumber
<1>3. pos.qty > 0 => PositionSound(pos) /\ pos.next = 0
  BY DEF StateSound, Served
<1>4. ASSUME inc.qty > 0
      PROVE  LET n == Buy(s, o, inc) IN StateSound(n) /\ n.trades = s.trades /\ n.position.next = 0
  <2> DEFINE b == Bought(pos, o, inc)
             cash == s.cash - inc.funds - inc.fee
  <2>1. inc.fee >= 0 /\ inc.funds >= 2 * inc.qty /\ o.qty > 0 /\ o.funds >= 2 * o.qty /\ o.first >= 0
    BY <1>1, <1>4 DEF Found
  <2>2. b \in PositionShape
    BY <1>1, <1>4, BoughtFits DEF Found
  <2>3. PositionSound(b) /\ b.next = 0 /\ Cost(b) = Cost(pos) + inc.funds + inc.fee
    BY <1>1, <1>3, <1>4, <2>1, BoughtSound
  <2>4. Buy(s, o, inc) = Paid(s, cash, b)
    BY Zenon DEF Buy, Paid
  <2>5. cash \in Int /\ cash + Cost(b) = s.cash + Cost(pos)
    BY <1>1, <1>2, <2>3
  <2> HIDE DEF b, cash
  <2>6. StateSound(Paid(s, cash, b)) /\ Paid(s, cash, b).trades = s.trades /\ Paid(s, cash, b).position = b
    BY <2>2, <2>3, <2>5, PaidSound
  <2>7. QED
    BY <2>3, <2>4, <2>6
<1>5. ASSUME inc.qty = 0, o.qty = r.qty
      PROVE  LET n == BuyFee(s, inc)
             IN  StateSound(n) /\ n.trades = s.trades /\ (n.position.qty > 0 => n.position.next = 0)
  <2> DEFINE basis == pos.basis + inc.fee
             b == IF pos.qty = 0 THEN pos ELSE [pos EXCEPT !.basis = basis]
             cash == s.cash - inc.fee
  <2>1. BuyFee(s, inc) = Paid(s, cash, b)
    BY Zenon DEF BuyFee, Paid
  <2>2. cash \in Int
    BY <1>1
  <2>3. b \in {Flat} \cup PositionShape /\ (b.qty > 0 => PositionSound(b) /\ b.next = 0) /\ cash + Cost(b) = s.cash + Cost(pos)
    <3>1. CASE pos.qty = 0
      <4>1. b = pos
        BY <3>1
      <4>2. inc.fee = 0
        BY <1>5, <3>1 DEF Served, Found
      <4> HIDE DEF b
      <4>3. QED
        BY <1>1, <1>2, <3>1, <4>1, <4>2
    <3>2. CASE pos.qty # 0
      <4>1. pos \in PositionShape /\ pos.basis \in Int /\ pos.realized \in Int /\ PositionSound(pos) /\ pos.next = 0
        BY <1>2, <1>3, <3>2 DEF PositionShape
      <4>2. basis \in Int /\ basis >= 0 /\ basis - pos.realized = pos.basis - pos.realized + inc.fee
        BY <1>1, <4>1 DEF PositionSound, Found
      <4> HIDE DEF basis
      <4>3. b = [pos EXCEPT !.basis = basis]
        BY <3>2
      <4> HIDE DEF b
      <4>4. /\ b \in PositionShape /\ b.basis = basis /\ b.qty = pos.qty /\ b.initial = pos.initial /\ b.entry = pos.entry
            /\ b.stop = pos.stop /\ b.high = pos.high /\ b.entryAt = pos.entryAt /\ b.next = pos.next
            /\ b.nextAt = pos.nextAt /\ b.realized = pos.realized
        BY <4>1, <4>2, <4>3 DEF PositionShape
      <4>5. PositionSound(b)
        BY <4>1, <4>2, <4>4 DEF PositionSound
      <4>6. Cost(b) = Cost(pos) + inc.fee
        BY <1>2, <3>2, <4>2, <4>4 DEF Cost
      <4>7. QED
        BY <1>1, <1>2, <4>1, <4>4, <4>5, <4>6
    <3>3. QED
      BY <3>1, <3>2
  <2> HIDE DEF b, cash
  <2>4. StateSound(Paid(s, cash, b)) /\ Paid(s, cash, b).trades = s.trades /\ Paid(s, cash, b).position = b
    BY <2>2, <2>3, PaidSound
  <2>5. QED
    BY <2>1, <2>3, <2>4
<1>6. QED
  BY <1>4, <1>5

\* What a sell leaves of a served row: trades end before the call, and are kept while units
\* are held; the trade that closes the position is not counted.
SellKeeps(s, n, at) ==
    /\ StateSound(n) /\ Before(n.trades, at)
    /\ IF n.position.qty > 0 THEN n.trades = s.trades ELSE n.riskCount < Len(n.trades)

\* A sell that closes the position books its result as a trade.
LEMMA CloseSound ==
    ASSUME NEW s \in StateShape, NEW o \in OrderShape, NEW inc \in IncShape, NEW r \in IntentShape, NEW at \in Int,
           StateSound(s), r.side = "ask", Served(s, r), Found(o, inc, r, at), Before(s.trades, at),
           inc.qty > 0, inc.qty = s.position.qty
    PROVE  SellKeeps(s, Sell(s, o, inc), at)
<1> DEFINE pos == s.position
           part == SoldBasis(pos, inc)
           pnl == pos.realized + inc.funds - inc.fee - part
           x == [pnl |-> pnl, exit |-> o.last]
           trades == Append(s.trades, x)
           cash == s.cash + inc.funds - inc.fee
           n == Settled(s, cash, trades, Flat)
           L == Len(s.trades)
<1>1. /\ s.cash \in Int /\ inc.qty \in Nat /\ inc.funds \in Int /\ inc.fee \in Int /\ o.qty \in Nat /\ o.last \in Int
      /\ pos \in {Flat} \cup PositionShape /\ s.trades \in Seq(TradeShape) /\ s.riskCount \in Nat /\ L \in Nat
  BY LenProperties DEF StateShape, IncShape, OrderShape
<1>2. pos \in PositionShape /\ Cost(pos) = pos.basis - pos.realized /\ pos.basis \in Int /\ pos.realized \in Int
  <2>1. pos \in PositionShape
    BY <1>1, CostIsNumber
  <2>2. QED
    BY <1>1, <2>1 DEF Cost, PositionShape
<1>3. part = pos.basis
  <2>1. pos.basis >= 0 /\ inc.qty <= pos.qty
    BY <1>1 DEF StateSound, PositionSound
  <2>2. QED
    BY <1>2, <2>1, SoldBasisShare
<1>4. Sell(s, o, inc) = n
  BY Zenon DEF Sell, Settled
<1> HIDE DEF part
<1>5. pnl \in Int /\ s.cash + Cost(pos) + pnl = cash /\ cash \in Int /\ s.cash + Cost(pos) \in Int
  <2>1. s.cash \in Int /\ inc.funds \in Int /\ inc.fee \in Int /\ pos.basis \in Int /\ pos.realized \in Int
    BY <1>1, <1>2
  <2>2. pnl = pos.realized + inc.funds - inc.fee - pos.basis
    BY <1>3
  <2>3. Cost(pos) = pos.basis - pos.realized
    BY <1>2
  <2> HIDE DEF pnl, pos
  <2>4. QED
    BY <2>1, <2>2, <2>3
<1> HIDE DEF pnl, cash
<1>6. x \in TradeShape /\ x.pnl = pnl /\ x.exit = o.last
  BY <1>1, <1>5 DEF TradeShape
<1> HIDE DEF x
<1>7. Len(trades) = L + 1 /\ trades[L + 1] = x /\ \A k \in 1..L : trades[k] = s.trades[k]
  BY <1>1, <1>6, AppendProperties
<1>8. Total(trades, s.cash + Cost(pos) + pnl)
  BY <1>1, <1>5, <1>6, TotalGrows DEF StateSound
<1>9. s.riskCount < Len(trades)
  <2>1. s.riskCount <= L
    BY DEF StateSound
  <2>2. QED
    BY <1>1, <1>7, <2>1
<1> HIDE DEF trades
<1>10. n.cash = cash /\ n.position = Flat /\ n.trades = trades /\ n.riskCount = s.riskCount
  BY PaymentsBooks, PaymentsTrades
<1>11. 0 <= o.last /\ r.created <= o.last /\ o.last <= at /\ r.created \in Int
  <2>1. o.qty >= inc.qty /\ o.qty \in Nat /\ inc.qty \in Nat
    BY <1>1 DEF Found
  <2>2. o.qty > 0
    BY <2>1
  <2>3. QED
    BY <2>2 DEF Found, IntentShape
<1>12. ASSUME NEW k \in 1..L PROVE s.trades[k].exit \in Int /\ s.trades[k].exit <= r.created /\ s.trades[k].exit >= 0
  <2>1. Before(s.trades, r.created)
    BY <1>1 DEF Served
  <2>2. s.trades[k] \in TradeShape
    BY <1>1, ElementOfSeq
  <2>3. QED
    BY <2>1, <2>2 DEF Before, TradeShape, StateSound, Exits
<1>13. Exits(trades)
  <2>1. ASSUME NEW k \in 1..L + 1 PROVE trades[k].exit >= 0
    <3>1. CASE k = L + 1
      BY <1>6, <1>7, <1>11, <3>1
    <3>2. CASE k # L + 1
      <4>1. k \in 1..L
        BY <1>1, <3>2
      <4>2. QED
        BY <1>7, <1>12, <4>1
    <3>3. QED
      BY <3>1, <3>2
  <2>2. ASSUME NEW k \in 1..L PROVE trades[k].exit <= trades[k + 1].exit
    <3>1. CASE k = L
      <4>1. s.trades[k].exit <= o.last
        BY <1>1, <1>11, <1>12
      <4>2. QED
        BY <1>1, <1>6, <1>7, <3>1, <4>1
    <3>2. CASE k # L
      <4>1. k \in 1..L - 1 /\ k \in 1..L /\ k + 1 \in 1..L
        BY <1>1, <3>2
      <4>2. s.trades[k].exit <= s.trades[k + 1].exit
        BY <4>1 DEF StateSound, Exits
      <4>3. QED
        BY <1>7, <4>1, <4>2
    <3>3. QED
      BY <3>1, <3>2
  <2>3. Len(trades) = L + 1 /\ Len(trades) - 1 = L
    BY <1>1, <1>7
  <2>4. QED
    BY <2>1, <2>2, <2>3 DEF Exits
<1>14. Before(trades, at)
  <2>1. ASSUME NEW k \in 1..L + 1 PROVE trades[k].exit <= at
    <3>1. CASE k = L + 1
      BY <1>6, <1>7, <1>11, <3>1
    <3>2. CASE k # L + 1
      <4>1. k \in 1..L /\ o.last \in Int
        BY <1>1, <3>2
      <4>2. s.trades[k].exit \in Int /\ s.trades[k].exit <= r.created
        BY <1>12, <4>1
      <4>3. QED
        BY <1>7, <1>11, <4>1, <4>2
    <3>3. QED
      BY <3>1, <3>2
  <2>2. QED
    BY <1>7, <2>1 DEF Before
<1>15. StateSound(n)
  <2>1. s.riskCount <= Len(trades)
    BY <1>1, <1>7, <1>9
  <2>2. Cost(Flat) = 0 /\ ~(Flat.qty > 0)
    BY DEF Cost, Flat
  <2>3. cash + Cost(Flat) = s.cash + Cost(pos) + pnl
    BY <1>5, <2>2
  <2> HIDE DEF n
  <2>4. QED
    BY <1>8, <1>10, <1>13, <2>1, <2>2, <2>3 DEF StateSound
<1>16. ~(n.position.qty > 0)
  BY <1>10 DEF Flat
<1>17. QED
  BY <1>4, <1>9, <1>10, <1>14, <1>15, <1>16 DEF SellKeeps

\* A sell of some of the units moves their share of the cost into what the position realised.
LEMMA PartSound ==
    ASSUME NEW s \in StateShape, NEW o \in OrderShape, NEW inc \in IncShape, NEW r \in IntentShape, NEW at \in Int,
           StateSound(s), Before(s.trades, at), inc.qty > 0, inc.qty < s.position.qty
    PROVE  SellKeeps(s, Sell(s, o, inc), at)
<1> DEFINE pos == s.position
           part == SoldBasis(pos, inc)
           pnl == pos.realized + inc.funds - inc.fee - part
           qty == pos.qty - inc.qty
           basis == pos.basis - part
           new == [pos EXCEPT !.qty = qty, !.basis = basis, !.realized = pnl]
           cash == s.cash + inc.funds - inc.fee
<1>1. /\ s.cash \in Int /\ inc.qty \in Nat /\ inc.funds \in Int /\ inc.fee \in Int
      /\ pos \in {Flat} \cup PositionShape /\ s.trades \in Seq(TradeShape)
  BY DEF StateShape, IncShape
<1>2. /\ pos \in PositionShape /\ Cost(pos) = pos.basis - pos.realized /\ pos.basis \in Int /\ pos.realized \in Int
      /\ pos.qty \in Nat /\ PositionSound(pos)
  <2>1. pos.qty \in Nat /\ pos.qty > 0
    BY <1>1, CostIsNumber
  <2>2. pos \in PositionShape
    BY <1>1, <2>1, CostIsNumber
  <2>3. QED
    BY <2>1, <2>2 DEF Cost, PositionShape, StateSound
<1>3. part \in Int /\ part <= pos.basis
  <2>1. pos.basis >= 0 /\ inc.qty <= pos.qty
    BY <1>1, <1>2 DEF PositionSound
  <2>2. QED
    BY <1>2, <2>1, SoldBasisShare
<1>4. Sell(s, o, inc) = Settled(s, cash, s.trades, new)
  <2>1. inc.qty # pos.qty
    BY <1>1, <1>2
  <2>2. QED
    BY <2>1, Zenon DEF Sell, Settled
<1> HIDE DEF part
<1>5. /\ pnl \in Int /\ qty \in Nat \ {0} /\ basis \in Int /\ basis >= 0 /\ cash \in Int
      /\ cash + (basis - pnl) = s.cash + Cost(pos)
  <2>1. /\ s.cash \in Int /\ inc.funds \in Int /\ inc.fee \in Int /\ pos.basis \in Int /\ pos.realized \in Int
        /\ pos.qty \in Nat /\ inc.qty \in Nat /\ part \in Int /\ part <= pos.basis
    BY <1>1, <1>2, <1>3
  <2>2. Cost(pos) = pos.basis - pos.realized /\ inc.qty < pos.qty
    BY <1>2
  <2> HIDE DEF pos
  <2>3. QED
    BY <2>1, <2>2
<1> HIDE DEF pnl, qty, basis, cash
<1>6. /\ new \in PositionShape /\ new.qty = qty /\ new.basis = basis /\ new.realized = pnl
      /\ new.initial = pos.initial /\ new.entry = pos.entry /\ new.stop = pos.stop /\ new.high = pos.high
      /\ new.entryAt = pos.entryAt /\ new.next = pos.next /\ new.nextAt = pos.nextAt
  BY <1>2, <1>5 DEF PositionShape
<1> HIDE DEF new
<1>7. PositionSound(new) /\ Cost(new) = basis - pnl /\ new.qty > 0
  BY <1>2, <1>5, <1>6 DEF PositionSound, Cost
<1> DEFINE n == Settled(s, cash, s.trades, new)
<1>8. n.cash = cash /\ n.position = new /\ n.trades = s.trades /\ n.riskCount = s.riskCount
  BY PaymentsBooks, PaymentsTrades
<1> HIDE DEF n
<1>9. StateSound(n)
  BY <1>5, <1>7, <1>8 DEF StateSound
<1>10. QED
  BY <1>4, <1>7, <1>8, <1>9 DEF SellKeeps, n

\* Fees of a sell that sold nothing more.
LEMMA LateFeeSound ==
    ASSUME NEW s \in StateShape, NEW inc \in IncShape, NEW r \in IntentShape, NEW at \in Int,
           StateSound(s), r.side = "ask", Served(s, r), Before(s.trades, at)
    PROVE  /\ s.position.qty > 0 => SellKeeps(s, SellFee(s, inc), at)
           /\ s.position.qty = 0 => SellKeeps(s, ClosedFee(s, inc), at)
<1> DEFINE pos == s.position
           cash == s.cash - inc.fee
<1>1. /\ s.cash \in Int /\ inc.fee \in Int /\ pos \in {Flat} \cup PositionShape /\ s.trades \in Seq(TradeShape)
      /\ cash \in Int
  BY DEF StateShape, IncShape
<1>2. ASSUME pos.qty > 0 PROVE SellKeeps(s, SellFee(s, inc), at)
  <2> DEFINE realized == pos.realized - inc.fee
             new == [pos EXCEPT !.realized = realized]
  <2>1. /\ pos \in PositionShape /\ Cost(pos) = pos.basis - pos.realized /\ pos.basis \in Int /\ pos.realized \in Int
        /\ PositionSound(pos)
    <3>1. pos \in PositionShape
      BY <1>1, <1>2, CostIsNumber
    <3>2. QED
      BY <1>2, <3>1 DEF Cost, PositionShape, StateSound
  <2>2. SellFee(s, inc) = Paid(s, cash, new)
    BY Zenon DEF SellFee, Paid
  <2>3. realized \in Int /\ cash + (pos.basis - realized) = s.cash + Cost(pos)
    BY <1>1, <2>1
  <2> HIDE DEF realized
  <2>4. /\ new \in PositionShape /\ new.qty = pos.qty /\ new.basis = pos.basis /\ new.realized = realized
        /\ new.initial = pos.initial /\ new.entry = pos.entry /\ new.stop = pos.stop /\ new.high = pos.high
        /\ new.entryAt = pos.entryAt /\ new.next = pos.next /\ new.nextAt = pos.nextAt
    BY <2>1, <2>3 DEF PositionShape
  <2> HIDE DEF new, cash
  <2>5. PositionSound(new) /\ Cost(new) = pos.basis - realized
    BY <1>2, <2>1, <2>4 DEF PositionSound, Cost
  <2>6. cash + Cost(new) = s.cash + Cost(pos)
    BY <2>3, <2>5
  <2>7. /\ StateSound(Paid(s, cash, new)) /\ Paid(s, cash, new).trades = s.trades
        /\ Paid(s, cash, new).position = new
    BY <1>1, <2>4, <2>5, <2>6, PaidSound
  <2>8. QED
    BY <1>2, <2>2, <2>4, <2>7 DEF SellKeeps
<1>3. ASSUME pos.qty = 0 PROVE SellKeeps(s, ClosedFee(s, inc), at)
  <2> DEFINE trades == ChargeTrade(s.trades, inc.fee)
             n == Corrected(s, cash, trades)
             L == Len(s.trades)
  <2>1. s.riskCount < L /\ s.trades # <<>>
    <3>1. s.riskCount < L /\ s.riskCount \in Nat /\ L \in Nat
      BY <1>1, <1>3, LenProperties DEF Served, StateShape
    <3>2. QED
      BY <1>1, <3>1, EmptySeq
  <2>2. /\ trades \in Seq(TradeShape) /\ Len(trades) = L /\ L \in Nat
        /\ \A k \in 1..L : trades[k].exit = s.trades[k].exit
    BY <1>1, ChargeTradeFits, LenProperties
  <2>3. ClosedFee(s, inc) = n
    BY Zenon DEF ClosedFee, Corrected
  <2>4. Cost(pos) = 0 /\ s.cash + Cost(pos) = s.cash
    BY <1>1, <1>3 DEF Cost
  <2>5. Total(trades, cash)
    <3>1. Total(s.trades, s.cash)
      BY <2>4 DEF StateSound
    <3>2. QED
      BY <1>1, <2>1, <3>1, TotalCorrected
  <2>6. s.riskCount < Len(trades)
    BY <2>1, <2>2
  <2> HIDE DEF trades
  <2>7. Exits(trades) /\ Before(trades, at)
    <3>1. Exits(s.trades)
      BY DEF StateSound
    <3>2. ASSUME NEW k \in 1..L - 1 PROVE trades[k].exit <= trades[k + 1].exit
      <4>1. k \in 1..L /\ k + 1 \in 1..L
        BY <2>2
      <4>2. QED
        BY <2>2, <3>1, <4>1 DEF Exits
    <3>3. QED
      BY <2>2, <3>1, <3>2 DEF Exits, Before
  <2>8. n.cash = cash /\ n.position = pos /\ n.trades = trades /\ n.riskCount = s.riskCount
    BY PaymentsBooks, PaymentsTrades
  <2>9. cash + Cost(pos) = cash
    BY <1>1, <2>4
  <2> HIDE DEF n, cash
  <2>10. StateSound(n)
    BY <1>3, <2>2, <2>5, <2>7, <2>8, <2>9 DEF StateSound
  <2>11. QED
    BY <1>3, <2>3, <2>6, <2>7, <2>8, <2>10 DEF SellKeeps
<1>4. QED
  BY <1>2, <1>3

\* Accepted facts keep the journal sound, and its row served.
LEMMA ApplySound ==
    ASSUME NEW s \in StateShape, NEW o \in OrderShape, NEW inc \in IncShape, NEW r \in IntentShape,
           NEW row, NEW at \in Int, o.side = r.side, row.side = r.side, row.created = r.created, row.qty = o.qty,
           inc.qty = o.qty - r.qty, StateSound(s), Served(s, r), Found(o, inc, r, at), Before(s.trades, at),
           o.side = "ask" => inc.qty <= s.position.qty
    PROVE  LET n == Apply(s, o, inc) IN StateSound(n) /\ Before(n.trades, at) /\ Served(n, row)
<1> DEFINE n == Apply(s, o, inc)
<1>1. /\ inc.qty \in Nat /\ o.qty \in Nat /\ r.qty \in Nat /\ o.side \in {"bid", "ask"}
      /\ s.position \in {Flat} \cup PositionShape /\ s.position.qty \in Nat
  BY CostIsNumber DEF IncShape, OrderShape, IntentShape, StateShape
<1>2. CASE o.side = "bid"
  <2>1. StateSound(n) /\ n.trades = s.trades /\ (n.position.qty > 0 => n.position.next = 0)
    <3>1. CASE inc.qty > 0
      <4>1. n = Buy(s, o, inc)
        BY <1>1, <1>2, <3>1 DEF Apply
      <4> HIDE DEF n
      <4>2. QED
        BY <1>2, <3>1, <4>1, BuySound
    <3>2. CASE inc.qty = 0
      <4>1. n = BuyFee(s, inc) /\ o.qty = r.qty
        BY <1>1, <1>2, <3>2 DEF Apply
      <4> HIDE DEF n
      <4>2. QED
        BY <1>2, <3>2, <4>1, BuySound
    <3>3. QED
      BY <1>1, <3>1, <3>2
  <2>2. n.position.qty = o.qty
    <3>1. n.position.qty = s.position.qty + inc.qty
      BY <1>2, ApplyBooks DEF Found
    <3>2. s.position.qty = r.qty
      BY <1>2 DEF Served
    <3> HIDE DEF n
    <3>3. QED
      BY <1>1, <3>1, <3>2
  <2> HIDE DEF n
  <2>3. QED
    BY <1>2, <2>1, <2>2 DEF Served, n
<1>3. CASE o.side = "ask"
  <2>1. SellKeeps(s, n, at)
    <3>1. CASE inc.qty > 0
      <4>1. n = Sell(s, o, inc)
        BY <1>1, <1>3, <3>1 DEF Apply
      <4> HIDE DEF n
      <4>2. inc.qty = s.position.qty \/ inc.qty < s.position.qty
        BY <1>1, <1>3
      <4>3. QED
        BY <1>3, <3>1, <4>1, <4>2, CloseSound, PartSound
    <3>2. CASE inc.qty = 0 /\ s.position.qty > 0
      <4>1. n = SellFee(s, inc)
        BY <1>1, <1>3, <3>2 DEF Apply
      <4> HIDE DEF n
      <4>2. QED
        BY <1>3, <3>2, <4>1, LateFeeSound
    <3>3. CASE inc.qty = 0 /\ s.position.qty = 0
      <4>1. n = ClosedFee(s, inc)
        BY <1>1, <1>3, <3>3 DEF Apply
      <4> HIDE DEF n
      <4>2. QED
        BY <1>3, <3>3, <4>1, LateFeeSound
    <3>4. QED
      BY <1>1, <3>1, <3>2, <3>3
  <2> HIDE DEF n
  <2>2. n.position.qty > 0 => s.position.qty > 0
    <3>1. n.position.qty = s.position.qty - inc.qty
      BY <1>3, ApplyBooks DEF Found, n
    <3>2. QED
      BY <1>1, <3>1
  <2>3. Served(n, row)
    BY <1>3, <2>1, <2>2 DEF Served, SellKeeps
  <2>4. QED
    BY <2>1, <2>3 DEF SellKeeps, n
<1>4. QED
  BY <1>1, <1>2, <1>3

\* Candles and prices move stops and high water, and only what is sound of them.
Moved(pos, new) ==
    /\ new \in {Flat} \cup PositionShape /\ new.qty = pos.qty
    /\ pos.qty > 0 => /\ PositionSound(new) /\ new.basis = pos.basis /\ new.realized = pos.realized
                      /\ new.next \in {0, pos.next}

\* A position that moves keeps the journal sound and its row served.
LEMMA MovedSound ==
    ASSUME NEW s \in StateShape, StateSound(s), NEW pos, Moved(s.position, pos)
    PROVE  LET n == [s EXCEPT !.position = pos]
           IN  /\ StateSound(n) /\ n.trades = s.trades /\ n.cash = s.cash
               /\ \A r : Served(s, r) => Served(n, r)
<1> DEFINE n == [s EXCEPT !.position = pos]
           old == s.position
<1>1. n.position = pos /\ n.trades = s.trades /\ n.cash = s.cash /\ n.riskCount = s.riskCount
  BY DEF StateShape
<1> HIDE DEF n
<1>2. pos.qty = old.qty /\ (pos.qty > 0 => PositionSound(pos) /\ pos.next \in {0, old.next}) /\ Cost(pos) = Cost(old)
  BY DEF Moved, Cost
<1>3. StateSound(n)
  BY <1>1, <1>2 DEF StateSound
<1>4. ASSUME NEW r, Served(s, r) PROVE Served(n, r)
  BY <1>1, <1>2, <1>4 DEF Served
<1>5. QED
  BY <1>1, <1>3, <1>4 DEF n

\* A stop that becomes active is raised to what was announced.
LEMMA ActivateMoves ==
    ASSUME NEW pos \in {Flat} \cup PositionShape, NEW at, pos.qty > 0 => PositionSound(pos)
    PROVE  /\ Moved(pos, Activate(pos, at))
           /\ pos.qty > 0 => Activate(pos, at).high = pos.high /\ Activate(pos, at).entryAt = pos.entryAt
<1> DEFINE new == Activate(pos, at)
<1>1. new \in {Flat} \cup PositionShape /\ new.qty = pos.qty
  BY ActivateFits, UnitsStay
<1>2. ASSUME pos.qty > 0
      PROVE  /\ PositionSound(new) /\ new.basis = pos.basis /\ new.realized = pos.realized /\ new.next \in {0, pos.next}
             /\ new.high = pos.high /\ new.entryAt = pos.entryAt
  <2> DEFINE stop == Max({pos.stop, pos.next})
             active == [pos EXCEPT !.stop = stop, !.next = 0, !.nextAt = NoTime]
  <2>1. pos \in PositionShape
    BY <1>2, CostIsNumber
  <2>2. pos.stop \in Int /\ pos.next \in Int /\ pos.initial \in Int
    BY <2>1 DEF PositionShape
  <2>3. stop \in Int /\ stop >= pos.stop
    BY <2>2, LargerIsAbove
  <2>4. new = pos \/ new = active
    BY Zenon DEF Activate
  <2> HIDE DEF stop
  <2>5. /\ active.stop = stop /\ active.next = 0 /\ active.nextAt = NoTime /\ active.basis = pos.basis
        /\ active.realized = pos.realized /\ active.high = pos.high /\ active.entryAt = pos.entryAt
        /\ active.initial = pos.initial /\ active.entry = pos.entry
    BY <2>1 DEF PositionShape
  <2> HIDE DEF active, new
  <2>6. PositionSound(active)
    BY <1>2, <2>2, <2>3, <2>5 DEF PositionSound
  <2>7. CASE new = active
    BY <2>5, <2>6, <2>7
  <2>8. CASE new = pos
    BY <1>2, <2>8
  <2>9. QED
    BY <2>4, <2>7, <2>8
<1>3. QED
  BY <1>1, <1>2 DEF Moved

\* High water that rises.
LEMMA HighMoves ==
    ASSUME NEW pos \in PositionShape, NEW high \in Int, high >= pos.high, PositionSound(pos)
    PROVE  /\ Moved(pos, [pos EXCEPT !.high = high])
           /\ \A seen \in PrintShape : Moved(pos, [pos EXCEPT !.high = high, !.seen = seen])
<1>1. pos.high \in Int /\ pos.entry \in Int
  BY DEF PositionShape
<1>2. ASSUME NEW new \in PositionShape, new.high = high, new.qty = pos.qty, new.basis = pos.basis,
             new.realized = pos.realized, new.next = pos.next, new.nextAt = pos.nextAt, new.initial = pos.initial,
             new.entry = pos.entry, new.stop = pos.stop, new.entryAt = pos.entryAt
      PROVE  Moved(pos, new)
  BY <1>1, <1>2 DEF Moved, PositionSound
<1>3. Moved(pos, [pos EXCEPT !.high = high])
  <2> DEFINE new == [pos EXCEPT !.high = high]
  <2>1. /\ new \in PositionShape /\ new.high = high /\ new.qty = pos.qty /\ new.basis = pos.basis
        /\ new.realized = pos.realized /\ new.next = pos.next /\ new.nextAt = pos.nextAt /\ new.initial = pos.initial
        /\ new.entry = pos.entry /\ new.stop = pos.stop /\ new.entryAt = pos.entryAt
    BY DEF PositionShape
  <2> HIDE DEF new
  <2>2. Moved(pos, new)
    BY <1>2, <2>1
  <2>3. QED
    BY <2>2 DEF new
<1>4. ASSUME NEW seen \in PrintShape PROVE Moved(pos, [pos EXCEPT !.high = high, !.seen = seen])
  <2> DEFINE new == [pos EXCEPT !.high = high, !.seen = seen]
  <2>1. /\ new \in PositionShape /\ new.high = high /\ new.qty = pos.qty /\ new.basis = pos.basis
        /\ new.realized = pos.realized /\ new.next = pos.next /\ new.nextAt = pos.nextAt /\ new.initial = pos.initial
        /\ new.entry = pos.entry /\ new.stop = pos.stop /\ new.entryAt = pos.entryAt
    BY DEF PositionShape
  <2> HIDE DEF new
  <2>2. Moved(pos, new)
    BY <1>2, <2>1
  <2>3. QED
    BY <2>2 DEF new
<1>5. QED
  BY <1>3, <1>4

\* Moves follow each other.
LEMMA MovesFollow ==
    ASSUME NEW a, NEW b, NEW c, Moved(a, b), Moved(b, c)
    PROVE  Moved(a, c)
BY DEF Moved

\* A completed candle moves the position.
LEMMA ProgressedMoves ==
    ASSUME NEW pos \in {Flat} \cup PositionShape, NEW c \in InputShape, End(c.bar) \in Int, Start(c.bar) \in Int,
           pos.qty > 0 => PositionSound(pos)
    PROVE  Moved(pos, Progressed(pos, c))
<1>1. pos.qty \in Nat
  BY CostIsNumber
<1>2. CASE pos.qty = 0
  BY <1>2 DEF Progressed, Moved
<1>3. CASE pos.qty # 0
  <2>1. pos \in PositionShape /\ pos.qty > 0
    BY <1>1, <1>3, CostIsNumber
  <2> DEFINE active == Activate(pos, End(c.bar))
             high == RaisedHigh(active.high, SeenHigh(pos, c))
  <2>2. active \in PositionShape /\ Moved(pos, active) /\ active.qty = pos.qty
    BY <2>1, ActivateFits, ActivateMoves DEF Moved
  <2>3. active.high \in Int /\ pos.high \in Int /\ pos.entryAt \in Int
    BY <2>1, <2>2 DEF PositionShape
  <2>4. c.row \in Rows /\ c.bar \in Nat
    BY DEF InputShape
  <2>5. c.row.close \in Int /\ c.row.high \in Int
    BY <2>4, Constants
  <2>6. SeenHigh(pos, c) \in Int
    BY <2>3, <2>5, LargerOfTwo DEF SeenHigh
  <2>7. high \in Int /\ high >= active.high
    BY <2>3, <2>6, LargerIsAbove DEF RaisedHigh
  <2>8. Fingerprint(c) \in PrintShape
    BY <2>4 DEF Fingerprint, PrintShape
  <2>9. Progressed(pos, c) = [active EXCEPT !.high = high, !.seen = Fingerprint(c)]
    BY <1>3, Zenon DEF Progressed
  <2> HIDE DEF high, active
  <2>10. PositionSound(active)
    BY <2>1, <2>2 DEF Moved
  <2>11. Moved(active, Progressed(pos, c))
    BY <2>2, <2>7, <2>8, <2>9, <2>10, HighMoves
  <2>12. QED
    BY <2>2, <2>11, MovesFollow
<1>4. QED
  BY <1>2, <1>3

\* Exits of trades are numbers.
LEMMA BeforeLater ==
    ASSUME NEW trades \in Seq(TradeShape), NEW t \in Int, NEW u \in Int, t <= u, Before(trades, t)
    PROVE  Before(trades, u)
<1>1. ASSUME NEW k \in 1..Len(trades) PROVE trades[k].exit <= u
  <2>1. trades[k] \in TradeShape /\ trades[k].exit <= t
    BY ElementOfSeq DEF Before
  <2>2. trades[k].exit \in Int
    BY <2>1 DEF TradeShape
  <2>3. QED
    BY <2>1, <2>2
<1>2. QED
  BY <1>1 DEF Before

\* Steps that leave the journal alone: time passes, calls begin, go on and end.
LEMMA QuietDiary ==
    ASSUME Inv, Diary, UNCHANGED <<state, intents>>, clock' \in Int, clock <= clock',
           pc' # "idle" => call'.at = clock \/ (pc # "idle" /\ call'.at = call.at)
    PROVE  Diary'
<1> SUFFICES ASSUME state # Nil PROVE Diary'
  BY DEF Diary
<1>1. clock \in Nat /\ state.trades \in Seq(TradeShape)
  BY DEF Inv, Shape, StateShape
<1>2. Before(state.trades, clock) /\ Before(state.trades, clock')
  BY <1>1, BeforeLater DEF Diary
<1>3. pc' # "idle" => Before(state.trades, call'.at)
  BY <1>2 DEF Diary
<1>4. Pending' = Pending /\ Newest' = Newest
  BY DEF Pending, Newest
<1>5. QED
  BY <1>2, <1>3, <1>4 DEF Diary

\* Everything but reconciliation, candles, prices, decisions and submission.
LEMMA QuietDiarySteps ==
    ASSUME Inv, Diary,
           \/ Venue \/ Tick \/ ProcessCompletedCandle \/ OnPrice \/ Reconcile
           \/ QueryNotFound \/ NothingPending \/ CancelOrder \/ ReadAccounts
           \/ CandleUnfit \/ CandleFrozen \/ CandleRefused \/ SubmitNothing
           \/ LoseAnswer \/ SubmitStale \/ Post \/ PostUnanswered \/ Crash
    PROVE  Diary'
<1>1. clock \in Nat
  BY DEF Inv, Shape
<1>2. CASE Venue \/ Tick
  <2>1. UNCHANGED <<state, intents, pc, call>>
    BY <1>2 DEF Venue, Fill, PostFee, Finish, Arrive, Tick, journal
  <2>2. clock' = clock \/ clock' = clock + 1
    BY <1>2 DEF Venue, Fill, PostFee, Finish, Arrive, Tick
  <2>3. clock' \in Int /\ clock <= clock'
    BY <1>1, <2>2
  <2>4. QED
    BY <2>1, <2>3, QuietDiary
<1>3. CASE ProcessCompletedCandle \/ OnPrice \/ Reconcile
  <2>1. UNCHANGED <<state, intents, clock>> /\ call'.at = clock
    BY <1>3 DEF ProcessCompletedCandle, OnPrice, Reconcile, Begin, journal
  <2>2. QED
    BY <1>1, <2>1, QuietDiary
<1>4. CASE QueryNotFound \/ LoseAnswer \/ SubmitStale \/ PostUnanswered
  <2>1. pc # "idle" /\ UNCHANGED clock /\ \E refused \in BOOLEAN : Failure(refused)
    BY <1>4 DEF QueryNotFound, LoseAnswer, SubmitStale, PostUnanswered
  <2>2. call \in CallShape
    BY <2>1 DEF Inv, Shape
  <2>3. [call EXCEPT !.balances = Unread].at = call.at
    BY <2>2 DEF CallShape
  <2>4. UNCHANGED <<state, intents>> /\ (pc' # "idle" => call'.at = call.at)
    BY <2>1, <2>3 DEF Failure, Goto
  <2>5. QED
    BY <1>1, <2>1, <2>4, QuietDiary
<1>5. CASE ReadAccounts
  <2>1. pc # "idle" /\ UNCHANGED <<clock, state, intents>>
    BY <1>5 DEF ReadAccounts
  <2>2. call \in CallShape
    BY <2>1 DEF Inv, Shape
  <2>3. [call EXCEPT !.balances = Accounts].at = call.at
    BY <2>2 DEF CallShape
  <2>4. pc' # "idle" => call'.at = call.at
    BY <1>5, <2>3 DEF ReadAccounts, Goto
  <2>5. QED
    BY <1>1, <2>1, <2>4, QuietDiary
<1>6. CASE NothingPending \/ CancelOrder \/ CandleUnfit \/ CandleFrozen \/ CandleRefused \/ SubmitNothing \/ Post \/ Crash
  <2>1. /\ pc # "idle" /\ UNCHANGED <<clock, state, intents>>
        /\ pc' # "idle" => call' = call
    BY <1>6 DEF NothingPending, CancelOrder, CandleUnfit, CandleFrozen, CandleRefused, SubmitNothing, Post, Crash,
                Goto, journal
  <2>2. QED
    BY <1>1, <2>1, QuietDiary
<1>7. QED
  BY <1>2, <1>3, <1>4, <1>5, <1>6

\* Query and Requery: what is booked keeps the journal sound.
LEMMA QueryDiary ==
    ASSUME Inv, Inv', Books, Ledger, Diary, Query \/ Requery
    PROVE  Diary'
<1>1. /\ pc # "idle" /\ Pending # {} /\ Exists(PendingId) /\ UNCHANGED <<clock, orders>> /\ PendingId = Newest
      /\ Newest \in Id /\ Newest \in 1..Len(intents) /\ clock \in Nat
      /\ state # Nil /\ state \in StateShape /\ call \in CallShape
  <2>1. pc # "idle" /\ Pending # {} /\ Exists(PendingId) /\ UNCHANGED <<clock, orders>>
    BY DEF Query, Requery, Inv, Path, venue
  <2>2. PendingId = Newest /\ Newest \in Id /\ Newest \in 1..Len(intents)
    BY <2>1, PendingIsNewest DEF Inv
  <2>3. state # Nil /\ state \in StateShape /\ call \in CallShape /\ clock \in Nat
    BY <2>1, <2>2 DEF Inv, Cursor, Shape
  <2>4. QED
    BY <2>1, <2>2, <2>3
<1>2. CASE Failure(TRUE)
  <2>1. [call EXCEPT !.balances = Unread].at = call.at
    BY <1>1 DEF CallShape
  <2>2. UNCHANGED <<state, intents>> /\ (pc' # "idle" => call'.at = call.at)
    BY <1>2, <2>1 DEF Failure, Goto
  <2>3. QED
    BY <1>1, <2>2, QuietDiary
<1>3. CASE ~Failure(TRUE)
  <2>1. Accepts(Newest, orders[Newest], call.at) /\ call' = call
    BY <1>1, <1>3 DEF Query, Requery, Goto
  <2>2. PICK cancelling \in BOOLEAN : ApplyOrder(Newest, cancelling)
    BY <1>1, <1>3 DEF Query, Requery, PartialBuy
  <2>3. PICK o \in OrderShape : o = orders[Newest]
    BY <1>1, PendingOrder
  <2>4. PICK r \in IntentShape : r = intents[Newest]
    BY <1>1, PendingOrder
  <2>5. OrderSound(o, clock) /\ Follows(o, r)
    BY <1>1, <2>3, <2>4, PendingOrder
  <2> DEFINE inc == Increment(o, r)
             at == call.at
             cancel == Recorded(r, o).cancel \/ cancelling
             row == [Recorded(r, o) EXCEPT !.cancel = cancel]
             quantity == o.qty - r.qty
             funds == o.funds - r.funds
             fee == o.fee - r.fee
  <2>6. /\ o.qty \in Nat /\ o.funds \in Int /\ o.fee \in Int /\ r.qty \in Nat /\ r.funds \in Int /\ r.fee \in Int
        /\ o.first \in Int /\ o.last \in Int /\ o.created \in Nat /\ r.created \in Nat /\ at \in Nat
        /\ o.side \in {"bid", "ask"}
    BY <1>1 DEF OrderShape, IntentShape, CallShape
  <2>7. inc.qty = quantity /\ inc.funds = funds /\ inc.fee = fee
    BY DEF Increment
  <2>8. /\ o.side = r.side /\ o.amount = r.amount /\ o.created >= r.created /\ o.last <= at
        /\ (o.side = "ask" /\ quantity > 0 => quantity <= state.position.qty)
    BY <2>1, <2>3, <2>4 DEF Accepts
  <2>9. quantity \in Nat /\ funds \in Int /\ fee \in Int /\ fee >= 0
    <3>1. r.qty <= o.qty /\ r.fee <= o.fee
      BY <2>5 DEF Follows
    <3>2. QED
      BY <2>6, <3>1
  <2>10. IF quantity > 0 THEN funds >= 2 * quantity ELSE funds = 0
    <3>1. IF o.qty = r.qty THEN o.funds = r.funds ELSE o.funds - r.funds >= 2 * (o.qty - r.qty)
      BY <2>5 DEF Follows
    <3>2. QED
      BY <2>6, <2>9, <3>1
  <2>11. o.qty > 0 => 0 <= o.first /\ 0 <= o.last /\ r.created <= o.last
    <3>1. o.qty > 0 => o.created <= o.first /\ o.first <= o.last
      BY <2>5, <2>6 DEF OrderSound
    <3>2. QED
      BY <2>6, <2>8, <3>1
  <2>12. o.qty = 0 => fee = 0
    <3>1. r.fee >= 0
      BY <1>1, <2>4 DEF Ledger
    <3>2. o.qty = 0 => o.fee = 0
      BY <2>5 DEF OrderSound
    <3> HIDE DEF fee
    <3>3. fee = o.fee - r.fee
      BY DEF fee
    <3>4. QED
      BY <2>6, <2>9, <3>1, <3>2, <3>3
  <2>13. o.funds >= 2 * o.qty
    BY <2>5 DEF OrderSound
  <2>14. inc \in IncShape
    BY <2>9 DEF Increment, IncShape
  <2>15. state' = Apply(state, o, inc)
    BY <2>2, <2>3, <2>4 DEF ApplyOrder
  <2>16. intents' = [intents EXCEPT ![Newest] = row]
    BY <2>2, <2>3, <2>4, Zenon DEF ApplyOrder
  <2> HIDE DEF inc, cancel
  <2>17. row.qty = o.qty /\ row.funds = o.funds /\ row.fee = o.fee /\ row.side = r.side /\ row.created = r.created
    BY RecordKeeps
  <2> HIDE DEF row
  <2>18. Found(o, inc, r, at)
    <3>1. o.qty >= inc.qty
      BY <2>6, <2>7
    <3>2. QED
      BY <2>7, <2>8, <2>9, <2>10, <2>11, <2>12, <2>13, <3>1 DEF Found
  <2>19. StateSound(state) /\ Served(state, r) /\ Before(state.trades, at)
    BY <1>1, <2>4 DEF Diary
  <2>20. o.side = "ask" => inc.qty <= state.position.qty
    <3>1. state.position.qty \in Nat
      BY <1>1, CostIsNumber DEF StateShape
    <3>2. QED
      BY <2>7, <2>8, <2>9, <3>1
  <2>21. StateSound(state') /\ Before(state'.trades, at) /\ Served(state', row)
    <3>1. at \in Int /\ inc.qty = o.qty - r.qty
      BY <2>6, <2>7
    <3> HIDE DEF at
    <3>2. QED
      BY <1>1, <2>8, <2>14, <2>15, <2>17, <2>18, <2>19, <2>20, <3>1, ApplySound
  <2>22. state'.cash = krw
    <3>1. Balanced(krw, btc, state, o, r)
      BY <1>1, <2>3, <2>4 DEF Books
    <3>2. IF o.side = "bid" THEN state'.cash = state.cash - inc.funds - inc.fee
                            ELSE state'.cash = state.cash + inc.funds - inc.fee
      <4>1. (inc.qty = 0 => inc.funds = 0) /\ (o.side = "ask" /\ inc.qty > 0 => inc.qty <= state.position.qty)
        BY <2>7, <2>8, <2>9, <2>10
      <4>2. QED
        BY <1>1, <2>14, <2>15, <4>1, ApplyBooks
    <3>3. QED
      BY <2>8, <3>1, <3>2 DEF Balanced, inc
  <2>23. state'.cash >= 0
    BY <2>22 DEF Ledger
  <2>24. intents \in Seq(IntentShape) /\ intents' \in Seq(IntentShape)
    BY DEF Inv, Shape
  <2>25. Newest' = Newest /\ intents'[Newest] = row
    <3>1. DOMAIN intents' = DOMAIN intents /\ DOMAIN intents = 1..Len(intents)
      BY <2>16, <2>24, LenProperties
    <3>2. Len(intents') = Len(intents)
      BY <2>24, <3>1, LenProperties
    <3>3. QED
      BY <1>1, <2>16, <3>1, <3>2 DEF Newest
  <2>26. at <= clock
    BY <1>1 DEF Inv, Shape
  <2>27. Before(state'.trades, clock)
    <3>1. state'.trades \in Seq(TradeShape)
      <4>1. "trades" \in DOMAIN state
        BY <1>1 DEF StateShape
      <4>2. state' # Nil
        <5>1. intents' # <<>>
          <6>1. Len(intents') = Len(intents) /\ Len(intents) > 0
            BY <1>1, <2>16, <2>24, <2>25 DEF Newest
          <6>2. QED
            BY <2>24, <6>1, EmptySeq
        <5>2. QED
          BY <5>1 DEF Inv, Cursor
      <4>3. QED
        BY <4>2 DEF Inv, Shape, StateShape
    <3>2. QED
      BY <1>1, <2>6, <2>21, <2>26, <3>1, BeforeLater
  <2>28. QED
    BY <1>1, <2>1, <2>21, <2>23, <2>25, <2>27 DEF Diary
<1>4. QED
  BY <1>2, <1>3

\* A step that moves the position, in a call that goes on or ends.
LEMMA MoveDiary ==
    ASSUME Inv, Diary, state # Nil, pc # "idle", UNCHANGED <<clock, intents>>, NEW pos, Moved(state.position, pos),
           state' = [state EXCEPT !.position = pos], pc' # "idle" => call'.at = call.at
    PROVE  Diary'
<1>1. state \in StateShape
  BY DEF Inv, Shape
<1>2. /\ StateSound(state') /\ state'.trades = state.trades /\ state'.cash = state.cash
      /\ \A r : Served(state, r) => Served(state', r)
  BY <1>1, MovedSound DEF Diary
<1>3. Pending' = Pending /\ Newest' = Newest
  BY DEF Pending, Newest
<1>4. QED
  BY <1>2, <1>3 DEF Diary

\* CandleChecks: the journal starts without trades, and position facts are sound.
LEMMA CandleChecksDiary ==
    ASSUME Inv, Books, Diary, CandleChecks
    PROVE  Diary'
<1>1. call \in CallShape /\ pc # "idle" /\ call.balances \in {Unread} \cup BalanceShape /\ call.at \in Nat
  BY DEF CandleChecks, Inv, Shape, CallShape
<1>2. UNCHANGED <<clock, intents>>
  BY DEF CandleChecks
<1> DEFINE s == IF state = Nil THEN InitialState(call.balances) ELSE state
<1>3. PICK c \in Candles(call.at) :
         /\ state # Nil \/ call.balances.known
         /\ \/ state' = s /\ Goto("idle", call)
            \/ /\ state' = [s EXCEPT !.position = Progressed(@, c)] /\ Goto("decide", [call EXCEPT !.input = c])
               /\ c.valid
  BY DEF CandleChecks, Monotonic
<1>4. [call EXCEPT !.input = c].at = call.at
  BY <1>1 DEF CallShape
<1>5. pc' # "idle" => call'.at = call.at
  BY <1>3, <1>4 DEF Goto
<1>6. c.valid => c \in InputShape /\ End(c.bar) \in Int /\ Start(c.bar) \in Int
  BY <1>1, CandleFits
<1>7. CASE state # Nil
  <2>1. state \in StateShape /\ state.position \in {Flat} \cup PositionShape
    BY <1>7 DEF Inv, Shape, StateShape
  <2>2. CASE state' = s
    <3>1. UNCHANGED state /\ clock \in Nat
      BY <1>7, <2>2 DEF Inv, Shape
    <3>2. QED
      BY <1>1, <1>2, <1>5, <3>1, QuietDiary
  <2>3. CASE state' # s
    <3>1. state' = [state EXCEPT !.position = Progressed(state.position, c)] /\ c.valid
      BY <1>3, <1>7, <2>3
    <3>2. state.position.qty > 0 => PositionSound(state.position)
      BY <1>7 DEF Diary, StateSound
    <3>3. Moved(state.position, Progressed(state.position, c))
      BY <1>6, <2>1, <3>1, <3>2, ProgressedMoves
    <3>4. QED
      BY <1>1, <1>2, <1>5, <1>7, <3>1, <3>3, MoveDiary
  <2>4. QED
    BY <2>2, <2>3
<1>8. CASE state = Nil
  <2>1. call.balances.known /\ call.balances # Unread
    BY <1>3, <1>8 DEF Unread
  <2>2. call.balances.krw = Cash /\ s = InitialState(call.balances)
    BY <1>1, <1>8, <2>1 DEF Books
  <2>3. s.cash = Cash /\ s.position = Flat /\ s.trades = <<>> /\ s.riskCount = 0
    BY <2>2 DEF InitialState
  <2> HIDE DEF s
  <2>4. state' = s
    <3>1. Progressed(s.position, c) = s.position
      BY <2>3 DEF Progressed, Flat
    <3>2. s = [s EXCEPT !.position = s.position]
      BY <2>2 DEF InitialState
    <3>3. QED
      BY <1>3, <3>1, <3>2
  <2>5. intents = <<>>
    BY <1>8 DEF Inv, Cursor
  <2>6. Pending' = {}
    BY <1>2, <2>5, EmptySeq DEF Pending
  <2>7. Cash \in Nat /\ Cost(Flat) = 0 /\ ~(Flat.qty > 0) /\ Len(<<>>) = 0
    BY Constants DEF Cost, Flat
  <2>8. Cash + 0 = Cash
    BY <2>7
  <2>9. StateSound(s)
    BY <2>3, <2>7, <2>8, TotalEmpty DEF StateSound, Exits
  <2>10. \A t : Before(s.trades, t)
    BY <2>3, <2>7 DEF Before
  <2>11. QED
    BY <2>3, <2>4, <2>6, <2>7, <2>9, <2>10 DEF Diary
<1>9. QED
  BY <1>7, <1>8

\* PriceStep: an announced stop becomes active, high water rises.
LEMMA PriceDiary ==
    ASSUME Inv, Diary, PriceStep
    PROVE  Diary'
<1>1. call \in CallShape /\ pc # "idle" /\ clock \in Nat /\ UNCHANGED <<clock, intents>>
  BY DEF PriceStep, Inv, Shape
<1> DEFINE pos == Activate(state.position, call.at)
           seen(p) == IF pos.qty > 0 THEN [pos EXCEPT !.high = RaisedHigh(@, p)] ELSE pos
           plan(p) == [action |-> "sell", price |-> p, size |-> seen(p).qty, bar |-> NoTime]
<1>2. PICK p \in Prices \cup {0} :
         \/ UNCHANGED state /\ Goto("idle", call)
         \/ /\ state # Nil /\ state' = [state EXCEPT !.position = seen(p)]
            /\ \E next \in {"submit", "idle"} : Goto(next, [call EXCEPT !.plan = plan(p)])
  BY DEF PriceStep
<1>3. [call EXCEPT !.plan = plan(p)].at = call.at
  <2> HIDE DEF plan
  <2>1. QED
    BY <1>1 DEF CallShape
<1> HIDE DEF plan
<1>4. pc' # "idle" => call'.at = call.at
  BY <1>2, <1>3 DEF Goto
<1>5. CASE UNCHANGED state
  BY <1>1, <1>4, <1>5, QuietDiary
<1>6. CASE ~UNCHANGED state
  <2>1. state # Nil /\ state' = [state EXCEPT !.position = seen(p)]
    BY <1>2, <1>6
  <2>2. state.position \in {Flat} \cup PositionShape /\ p \in Int
    BY <2>1, Constants DEF Inv, Shape, StateShape
  <2>3. state.position.qty > 0 => PositionSound(state.position)
    BY <2>1 DEF Diary, StateSound
  <2>4. Moved(state.position, pos) /\ pos \in {Flat} \cup PositionShape /\ pos.qty = state.position.qty
    BY <2>2, <2>3, ActivateMoves DEF Moved
  <2> DEFINE high == RaisedHigh(pos.high, p)
  <2>5. seen(p) = IF pos.qty > 0 THEN [pos EXCEPT !.high = high] ELSE pos
    BY Zenon
  <2> HIDE DEF pos, seen
  <2>6. Moved(state.position, seen(p))
    <3>1. CASE pos.qty > 0
      <4>1. pos \in PositionShape /\ PositionSound(pos)
        BY <2>4, <3>1, CostIsNumber DEF Moved
      <4>2. pos.high \in Int
        BY <4>1 DEF PositionShape
      <4>3. high \in Int /\ high >= pos.high
        BY <2>2, <4>2, LargerIsAbove DEF RaisedHigh
      <4> HIDE DEF high
      <4>4. Moved(pos, [pos EXCEPT !.high = high])
        BY <4>1, <4>3, HighMoves
      <4>5. QED
        BY <2>4, <2>5, <3>1, <4>4, MovesFollow
    <3>2. CASE ~(pos.qty > 0)
      BY <2>4, <2>5, <3>2
    <3>3. QED
      BY <3>1, <3>2
  <2>7. QED
    BY <1>1, <1>4, <2>1, <2>6, MoveDiary
<1>7. QED
  BY <1>5, <1>6

\* CandleDecide: the stop that is announced is not below the active one.
LEMMA DecideDiary ==
    ASSUME Inv, Inv', Diary, CandleDecide
    PROVE  Diary'
<1>1. /\ pc = "decide" /\ Pending = {} /\ UNCHANGED <<clock, intents>> /\ call \in CallShape
      /\ state # Nil /\ state \in StateShape /\ call.input \in InputShape
  BY DEF CandleDecide, Frozen, Inv, Shape, Cursor
<1>2. Pending' = {}
  BY <1>1 DEF Pending
<1> DEFINE pos == state.position
           next == NextStop(pos)
           at == End(call.input.bar)
           new == [pos EXCEPT !.next = next, !.nextAt = at]
           print == Fingerprint(call.input)
           count == Len(state.trades)
<1>3. PICK verdict \in {"open", "halt", "exit", "unhealthy"}, size \in 1..MaxUnits :
         LET action == Action(verdict, call.input.row)
             plan == [action |-> action, price |-> call.input.row.close,
                      size |-> IF action = "sell" THEN state.position.qty ELSE size, bar |-> call.input.bar]
         IN  /\ state' = Decided(state, call.input, action)
             /\ \E go \in {"submit", "idle"} : Goto(go, [call EXCEPT !.plan = plan])
  BY DEF CandleDecide
<1> DEFINE action == Action(verdict, call.input.row)
           plan == [action |-> action, price |-> call.input.row.close,
                    size |-> IF action = "sell" THEN state.position.qty ELSE size, bar |-> call.input.bar]
           held == IF pos.qty > 0 /\ action = "hold" THEN new ELSE pos
<1>4. state' = [state EXCEPT !.riskAt = call.input.now, !.riskCount = count, !.completed = print, !.position = held]
  BY <1>3, Zenon DEF Decided
<1>5. \E go \in {"submit", "idle"} : Goto(go, [call EXCEPT !.plan = plan])
  BY <1>3
<1> HIDE DEF action, plan
<1>6. pc' # "idle" => call'.at = call.at
  <2>1. [call EXCEPT !.plan = plan].at = call.at
    BY <1>1 DEF CallShape
  <2>2. QED
    BY <1>5, <2>1 DEF Goto
<1>7. pos \in {Flat} \cup PositionShape /\ state.trades \in Seq(TradeShape) /\ count \in Nat
  BY <1>1, LenProperties DEF StateShape
<1>8. pos.qty > 0 => PositionSound(held) /\ Cost(held) = Cost(pos) /\ held.qty = pos.qty
  <2> SUFFICES ASSUME pos.qty > 0 PROVE PositionSound(held) /\ Cost(held) = Cost(pos) /\ held.qty = pos.qty
    OBVIOUS
  <2>1. pos \in PositionShape /\ PositionSound(pos)
    BY <1>1, <1>7, CostIsNumber DEF Diary, StateSound
  <2>2. pos.stop \in Int /\ pos.entry \in Int /\ pos.high \in Int /\ pos.initial \in Int /\ pos.qty \in Nat
    BY <2>1 DEF PositionShape
  <2>3. next \in Int /\ next >= pos.stop
    <3>1. \E x \in {pos.stop, pos.entry, pos.high - 1} : \A y \in {pos.stop, pos.entry, pos.high - 1} : x >= y
      BY <2>2
    <3>2. /\ Max({pos.stop, pos.entry, pos.high - 1}) \in {pos.stop, pos.entry, pos.high - 1}
          /\ Max({pos.stop, pos.entry, pos.high - 1}) >= pos.stop
      BY <3>1 DEF Max
    <3> HIDE DEF pos
    <3>3. QED
      BY <2>2, <3>2 DEF NextStop
  <2>4. next > 0
    BY <2>1, <2>2, <2>3 DEF PositionSound
  <2>5. at \in Nat /\ at # NoTime
    <3>1. call.input.bar \in Nat /\ BarLength \in Nat
      BY <1>1, Constants DEF InputShape
    <3>2. (call.input.bar + 1) * BarLength \in Nat
      BY <3>1
    <3>3. QED
      BY <3>2 DEF End, NoTime
  <2> HIDE DEF next, at
  <2>6. /\ new.qty = pos.qty /\ new.next = next /\ new.nextAt = at /\ new.basis = pos.basis
        /\ new.realized = pos.realized /\ new.initial = pos.initial /\ new.entry = pos.entry /\ new.stop = pos.stop
        /\ new.high = pos.high /\ new.entryAt = pos.entryAt
    BY <2>1, <2>3, <2>5 DEF PositionShape
  <2> HIDE DEF new
  <2>7. PositionSound(new) /\ Cost(new) = Cost(pos)
    BY <2>1, <2>3, <2>4, <2>5, <2>6 DEF PositionSound, Cost
  <2> HIDE DEF pos
  <2>8. QED
    BY <2>1, <2>6, <2>7
<1>9. ~(pos.qty > 0) => held = pos
  OBVIOUS
<1> HIDE DEF next, at, new, held, print
<1>10. /\ state'.cash = state.cash /\ state'.trades = state.trades /\ state'.riskCount = count
       /\ state'.position = held
  BY <1>1, <1>4 DEF StateShape
<1>11. Cost(held) = Cost(pos) /\ (held.qty > 0 => PositionSound(held))
  BY <1>8, <1>9
<1>12. StateSound(state')
  <2>1. Exits(state.trades) /\ Total(state.trades, state.cash + Cost(pos))
    BY <1>1 DEF Diary, StateSound
  <2> HIDE DEF pos
  <2>2. state'.riskCount <= Len(state'.trades)
    BY <1>7, <1>10
  <2>3. QED
    BY <1>10, <1>11, <2>1, <2>2 DEF StateSound
<1>13. state.cash >= 0 /\ Before(state.trades, clock) /\ Before(state.trades, call.at)
  BY <1>1 DEF Diary
<1>14. QED
  BY <1>1, <1>2, <1>6, <1>10, <1>12, <1>13 DEF Diary

\* Submit: a buy starts from nothing, a sell from a position held since the last trade.
LEMMA SubmitDiary ==
    ASSUME Inv, Inv', Ledger, Diary, Submit
    PROVE  Diary'
<1> DEFINE amount == Amount(call.plan, call.balances)
           new == NewIntent(call.plan, amount)
           n == Len(intents)
<1>1. /\ pc = "submit" /\ call.balances = Accounts /\ amount > 0 /\ intents' = Append(intents, new) /\ call' = call
      /\ UNCHANGED <<clock, state>>
  BY DEF Submit, SaveIntent, Goto
<1>2. /\ call.plan \in PlanShape /\ state # Nil /\ state \in StateShape
      /\ krw \in Nat /\ btc \in Nat /\ intents \in Seq(IntentShape)
  BY <1>1 DEF Inv, Shape, Cursor, CallShape, Ledger
<1>3. call.balances.krw = krw /\ call.balances.btc = btc
  BY <1>1 DEF Accounts
<1>4. IF call.plan.action = "buy" THEN ~Holding ELSE Holding
  BY <1>1, <1>2, <1>3, AmountAfforded
<1>5. new.side = (IF call.plan.action = "buy" THEN "bid" ELSE "ask") /\ new.created = call.at /\ new.qty = 0
  BY DEF NewIntent
<1> HIDE DEF amount, new
<1>6. intents'[Newest'] = new
  <2>1. intents' \in Seq(IntentShape) /\ n \in Nat
    BY <1>2, LenProperties DEF Inv, Shape
  <2>2. QED
    BY <1>1, <1>2, <2>1 DEF Newest
<1>7. state.position.qty \in Nat
  BY <1>2, CostIsNumber DEF StateShape
<1>8. Before(state.trades, call.at)
  BY <1>1, <1>2 DEF Diary
<1>9. Served(state, new)
  BY <1>4, <1>5, <1>7, <1>8 DEF Served, Holding
<1>10. QED
  BY <1>1, <1>2, <1>6, <1>9 DEF Diary

\* There is no journal before the first step.
LEMMA InitDiary == Init => Diary
  BY DEF Init, Diary

\* Every step keeps the journal sound.
LEMMA NextDiary == Inv /\ Inv' /\ Books /\ Ledger /\ Diary /\ [Next]_vars => Diary'
<1> SUFFICES ASSUME Inv, Inv', Books, Ledger, Diary, [Next]_vars PROVE Diary'
  OBVIOUS
<1>1. CASE Service
  BY <1>1, QuietDiarySteps, QueryDiary, CandleChecksDiary, PriceDiary, DecideDiary, SubmitDiary DEF Service
<1>2. CASE \/ Tick \/ Venue \/ ProcessCompletedCandle \/ OnPrice \/ Reconcile
           \/ LoseAnswer \/ SubmitStale \/ PostUnanswered \/ Crash
  BY <1>2, QuietDiarySteps
<1>3. CASE UNCHANGED vars
  <2>1. clock' = clock /\ clock \in Nat /\ UNCHANGED <<state, intents, pc, call>>
    BY <1>3 DEF vars, journal, Inv, Shape
  <2>2. QED
    BY <2>1, QuietDiary
<1>4. QED
  BY <1>1, <1>2, <1>3 DEF Next

\* The variables whose values no amount depends on.
Ranges ==
    /\ clock \in 0..MaxTime /\ halted \in BOOLEAN /\ faults \in 0..MaxFaults
    /\ pc \in {"idle", "reconcile", "cancel", "requery", "accounts", "candle", "decide", "price", "submit", "send"}

\* A failure halts entries or leaves them alone, and goes on with the call or
\* ends it.
LEMMA FailureRanges ==
    ASSUME Ranges, NEW refused \in BOOLEAN, Failure(refused)
    PROVE  /\ halted' \in BOOLEAN
           /\ pc' \in {"idle", "candle", "price"}
  BY DEF Ranges, Failure, HaltAfter, Goto, After

\* Every step stays within the ranges.
LEMMA NextRanges == Ranges /\ [Next]_vars => Ranges'
<1> SUFFICES ASSUME Ranges, [Next]_vars PROVE Ranges'
  OBVIOUS
<1>1. MaxTime \in Nat /\ MaxFaults \in Nat
  BY Constants
<1>2. CASE Tick
  BY <1>1, <1>2 DEF Tick, Ranges, venue, journal
<1>3. CASE Venue
  BY <1>3 DEF Venue, Fill, PostFee, Finish, Arrive, Ranges, journal
<1>4. CASE ProcessCompletedCandle \/ OnPrice \/ Reconcile
  BY <1>4 DEF ProcessCompletedCandle, OnPrice, Reconcile, Begin, Ranges, venue, journal
<1>5. CASE LoseAnswer \/ SubmitStale \/ PostUnanswered
  <2>1. /\ UNCHANGED clock /\ Fault /\ \E refused \in BOOLEAN : Failure(refused)
    BY <1>5 DEF LoseAnswer, SubmitStale, PostUnanswered
  <2>2. faults' \in 0..MaxFaults
    BY <1>1, <2>1 DEF Fault, Ranges
  <2>3. QED
    BY <2>1, <2>2, FailureRanges DEF Ranges
<1>6. CASE Crash
  <2>1. faults' \in 0..MaxFaults
    BY <1>1, <1>6 DEF Crash, Fault, Ranges
  <2>2. QED
    BY <1>6, <2>1 DEF Crash, Goto, Ranges, journal
<1>7. CASE Query \/ Requery \/ QueryNotFound
  <2>1. CASE \E refused \in BOOLEAN : Failure(refused)
    BY <1>7, <2>1, FailureRanges DEF Query, Requery, QueryNotFound, Ranges
  <2>2. CASE ~ \E refused \in BOOLEAN : Failure(refused)
    BY <1>7, <2>2 DEF Query, Requery, QueryNotFound, HaltAfter, Goto, Ranges
  <2>3. QED
    BY <2>1, <2>2
<1>8. CASE ReadAccounts
  BY <1>8 DEF ReadAccounts, HaltAfter, Goto, After, Ranges
<1>9. CASE NothingPending \/ CancelOrder \/ CandleUnfit \/ CandleFrozen \/ CandleRefused \/ SubmitNothing \/ Post
  BY <1>9 DEF NothingPending, CancelOrder, CandleUnfit, CandleFrozen, CandleRefused, SubmitNothing, Post, Goto,
              Ranges, journal
<1>10. CASE CandleChecks
  <2>1. UNCHANGED <<clock, faults>> /\ (\E b \in BOOLEAN : HaltAfter(b)) /\ pc' \in {"idle", "decide"}
    BY <1>10 DEF CandleChecks, Goto, HaltAfter
  <2>2. QED
    BY <2>1 DEF HaltAfter, Ranges
<1>11. CASE CandleDecide
  BY <1>11 DEF CandleDecide, Goto, Ranges
<1>12. CASE PriceStep
  BY <1>12 DEF PriceStep, Goto, Ranges
<1>13. CASE Submit
  BY <1>13 DEF Submit, SaveIntent, Goto, Ranges
<1>14. CASE UNCHANGED vars
  BY <1>14 DEF vars, journal, Ranges
<1>15. QED
  BY <1>2, <1>3, <1>4, <1>5, <1>6, <1>7, <1>8, <1>9, <1>10, <1>11, <1>12, <1>13, <1>14 DEF Next, Service

\* What the venue and the journal hold of an order is of its type.
LEMMA OrdersTyped ==
    ASSUME Inv, Ledger
    PROVE  orders \in [Id -> {Absent} \cup OrderType] /\ intents \in Seq(IntentType)
<1>1. ASSUME NEW i \in Id PROVE orders[i] \in {Absent} \cup OrderType
  <2>1. CASE Exists(i)
    <3>1. PICK o \in OrderShape : o = orders[i]
      BY <2>1 DEF Inv, Shape, Exists, Absent
    <3>2. OrderSound(o, clock)
      BY <2>1, <3>1 DEF Ledger
    <3>3. o.amount \in Int /\ o.funds \in Int /\ o.fee \in Int /\ o.due \in Int /\ o.qty \in Nat
      BY DEF OrderShape
    <3>4. o.amount \in Nat /\ o.funds \in Nat /\ o.fee \in Nat /\ o.due \in Nat
      BY <3>2, <3>3 DEF OrderSound
    <3>5. o \in OrderType
      BY <3>4 DEF OrderShape, OrderType
    <3>6. QED
      BY <3>1, <3>5
  <2>2. CASE ~Exists(i)
    BY <2>2 DEF Inv, Shape, Exists, OrderShape
  <2>3. QED
    BY <2>1, <2>2
<1>2. intents \in Seq(IntentShape) /\ orders \in [Id -> {Absent} \cup OrderShape]
  BY DEF Inv, Shape
<1>3. ASSUME NEW i \in 1..Len(intents) PROVE intents[i] \in IntentType
  <2>1. PICK r \in IntentShape : r = intents[i]
    BY <1>2, ElementOfSeq
  <2>2. r.amount > 0 /\ r.funds >= 0 /\ r.fee >= 0
    BY <2>1 DEF Ledger
  <2>3. r.amount \in Int /\ r.funds \in Int /\ r.fee \in Int
    BY DEF IntentShape
  <2>4. r.amount \in Nat \ {0} /\ r.funds \in Nat /\ r.fee \in Nat
    BY <2>2, <2>3
  <2>5. r \in IntentType
    BY <2>4 DEF IntentShape, IntentType
  <2>6. QED
    BY <2>1, <2>5
<1>4. orders \in [Id -> {Absent} \cup OrderType]
  BY <1>1, <1>2
<1>5. Len(intents) \in Nat /\ intents = [i \in 1..Len(intents) |-> intents[i]]
  BY <1>2, LenProperties
<1>6. intents \in Seq(IntentType)
  <2> HIDE DEF IntentType
  <2>1. intents \in [1..Len(intents) -> IntentType]
    BY <1>3, <1>5
  <2>2. QED
    BY <1>5, <2>1, SeqDef
<1>7. QED
  BY <1>4, <1>6

\* A sound position is of its type.
LEMMA PositionTyped ==
    ASSUME NEW p \in PositionShape, PositionSound(p)
    PROVE  p \in PositionType
<1>1. /\ p.qty \in Nat \ {0} /\ p.entry \in Int /\ p.initial \in Int /\ p.stop \in Int /\ p.high \in Int
      /\ p.entryAt \in Int /\ p.basis \in Int /\ p.next \in Int
  BY DEF PositionShape
<1>2. p.basis \in Nat /\ p.initial \in Nat /\ p.entryAt \in Nat
  BY <1>1 DEF PositionSound
<1>3. p.entry \in Nat /\ p.stop \in Nat
  BY <1>1 DEF PositionSound
<1>4. p.high \in Nat
  BY <1>1, <1>3 DEF PositionSound
<1>5. p.next \in Nat
  BY <1>1 DEF PositionSound
<1>6. QED
  BY <1>2, <1>3, <1>4, <1>5 DEF PositionShape, PositionType, PrintShape

\* The journal is of its type.
LEMMA StateTyped ==
    ASSUME Inv, Diary
    PROVE  state \in {Nil} \cup StateType
<1> SUFFICES ASSUME state # Nil PROVE state \in StateType
  OBVIOUS
<1>1. state \in StateShape
  BY DEF Inv, Shape
<1>2. /\ state.cash \in Int /\ state.position \in {Flat} \cup PositionShape /\ state.trades \in Seq(TradeShape)
      /\ state.riskAt \in Int /\ state.riskCount \in Nat /\ state.completed \in {Nil} \cup PrintShape
  BY <1>1 DEF StateShape
<1>3. state.cash \in Nat
  BY <1>2 DEF Diary
<1>4. state.position \in {Flat} \cup PositionType
  <2>1. CASE state.position = Flat
    BY <2>1
  <2>2. CASE state.position # Flat
    <3>1. state.position \in PositionShape
      BY <1>2, <2>2
    <3>2. state.position.qty > 0
      BY <3>1 DEF PositionShape
    <3>3. PositionSound(state.position)
      BY <3>2 DEF Diary, StateSound
    <3>4. QED
      BY <3>1, <3>3, PositionTyped
  <2>3. QED
    BY <2>1, <2>2
<1> DEFINE Typed == [pnl : Int, exit : Nat]
<1>5. state.trades \in Seq(Typed)
  <2> DEFINE trades == state.trades
  <2>1. Len(trades) \in Nat /\ trades = [k \in 1..Len(trades) |-> trades[k]]
    BY <1>2, LenProperties
  <2>2. ASSUME NEW k \in 1..Len(trades) PROVE trades[k] \in Typed
    <3>1. PICK x \in TradeShape : x = trades[k]
      BY <1>2, ElementOfSeq
    <3>2. x.exit >= 0
      BY <3>1 DEF Diary, StateSound, Exits
    <3>3. x.exit \in Nat
      BY <3>2 DEF TradeShape
    <3>4. x \in Typed
      BY <3>3 DEF TradeShape
    <3>5. QED
      BY <3>1, <3>4
  <2> HIDE DEF Typed, trades
  <2>3. trades \in [1..Len(trades) -> Typed]
    BY <2>1, <2>2
  <2>4. trades \in Seq(Typed)
    BY <2>1, <2>3, SeqDef
  <2>5. QED
    BY <2>4 DEF trades
<1>6. QED
  <2> HIDE DEF Typed
  <2>1. state = [cash |-> state.cash, position |-> state.position, trades |-> state.trades,
                 riskAt |-> state.riskAt, riskCount |-> state.riskCount, completed |-> state.completed]
    BY <1>1 DEF StateShape
  <2>2. StateType = [cash : Nat, position : {Flat} \cup PositionType, trades : Seq(Typed),
                     riskAt : Int, riskCount : Nat, completed : {Nil} \cup PrintShape]
    BY DEF StateType, PrintShape, Typed
  <2>3. QED
    BY <1>2, <1>3, <1>4, <1>5, <2>1, <2>2

\* A sound journal passes the loader.
LEMMA DiaryLoads == Inv /\ Diary => Loadable
<1> SUFFICES ASSUME Inv, Diary, state # Nil PROVE Loadable
  BY DEF Loadable
<1>1. state.cash >= 0 /\ StateSound(state)
  BY DEF Diary
<1>2. state.riskCount <= Len(state.trades)
      /\ \A k \in 1..Len(state.trades) - 1 : state.trades[k].exit <= state.trades[k + 1].exit
  BY <1>1 DEF StateSound, Exits
<1>3. ASSUME Holding, NEW p, p = state.position
      PROVE  /\ p.basis >= 0 /\ 0 < p.initial /\ p.initial < p.entry /\ p.stop >= p.initial /\ p.high >= p.entry
             /\ (p.next = 0) = (p.nextAt = NoTime)
             /\ p.next # 0 => p.next >= p.stop
  <2>1. PositionSound(p)
    BY <1>1, <1>3 DEF StateSound, Holding
  <2>2. p.next \in Int
    BY <1>3 DEF Inv, Shape, StateShape, PositionShape, Holding, Flat
  <2>3. (p.next = 0) = (p.nextAt = NoTime) /\ (p.next # 0 => p.next >= p.stop)
    BY <2>1, <2>2 DEF PositionSound
  <2>4. QED
    BY <2>1, <2>3 DEF PositionSound
<1>4. QED
  BY <1>1, <1>2, <1>3 DEF Loadable

\* Cash and the cost of what is held are the first balance and every result.
LEMMA DiaryAccounts == Inv /\ Diary => ProfitAccounted
<1> SUFFICES ASSUME Inv, Diary, state # Nil PROVE ProfitAccounted
  BY DEF ProfitAccounted
<1>1. state.trades \in Seq(TradeShape)
  BY DEF Inv, Shape, StateShape
<1>2. Total(state.trades, state.cash + Cost(state.position))
  BY DEF Diary, StateSound
<1>3. Booked(state.trades) = state.cash + Cost(state.position)
  BY <1>1, <1>2, TotalIsBooked
<1>4. QED
  BY <1>3 DEF ProfitAccounted, Cost, Holding

\* The journal is sound in every state.
LEMMA DiaryHolds == Spec => []Diary
BY InitDiary, NextDiary, InvHolds, LedgerHolds, PTL DEF Spec

\* The risk cut-off never passes an exit that is still to be counted, and a trade that a
\* late fee may still correct is not counted yet, because risk is frozen while an order
\* is unresolved (_apply_order, the freeze in process_completed_candle).
THEOREM CutoffHonestHolds == Spec => []CutoffHonest
<1>1. Inv /\ Diary => CutoffHonest
  <2> SUFFICES ASSUME Inv, Diary, state # Nil PROVE CutoffHonest
    BY DEF CutoffHonest
  <2>1. DOMAIN state.trades = 1..Len(state.trades)
    BY LenProperties DEF Inv, Shape, StateShape
  <2>2. \A k \in DOMAIN state.trades : k > state.riskCount => state.trades[k].exit >= state.riskAt
    BY <2>1 DEF Inv, Cutoff
  <2>3. ASSUME NEW i \in Pending, intents[i].side = "ask", ~Holding
        PROVE  state.riskCount < Len(state.trades)
    <3>1. i = Newest
      BY PendingIsNewest DEF Inv
    <3>2. QED
      BY <2>3, <3>1 DEF Diary, Served, Holding
  <2>4. QED
    BY <2>2, <2>3 DEF CutoffHonest
<1>2. QED
  BY <1>1, InvHolds, DiaryHolds, PTL

\* Through partial fills, late fees, lost answers and crashes the journal stays
\* what its loader accepts (journal.py), differs from the account only by what
\* the venue did to the pending order since, and its cash and the cost of its
\* position are the first balance and the results of its trades: no execution,
\* fee or result is booked twice or forgotten (_apply_order).
THEOREM BooksSoundHolds == Spec => []BooksSound
<1>1. Init => Ranges
  <2>1. MaxTime \in Nat /\ MaxFaults \in Nat
    BY Constants
  <2>2. 0 \in 0..MaxTime /\ 0 \in 0..MaxFaults
    BY <2>1
  <2>3. QED
    BY <2>2, Zenon DEF Init, Ranges
<1>2. Spec => []Ranges
  BY <1>1, NextRanges, PTL DEF Spec
<1>3. Inv /\ Ledger /\ Diary /\ Ranges => TypeOK
  BY OrdersTyped, StateTyped DEF TypeOK, Ranges, Ledger, Inv, Shape
<1>4. Inv /\ Books /\ Ledger /\ Diary /\ Ranges => BooksSound
  BY <1>3, BooksAgree, DiaryLoads, DiaryAccounts DEF BooksSound
<1>5. QED
  BY <1>2, <1>4, DiaryHolds, InvHolds, LedgerHolds, PTL
=============================================================================
