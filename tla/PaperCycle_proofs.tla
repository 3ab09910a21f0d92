------------------------- MODULE PaperCycle_proofs --------------------------
(***************************************************************************)
(* The paper cycle for any number of processes, candles, prices, crashes   *)
(* and takeovers: the ledger stays readable, the lease holder never        *)
(* contradicts it, fills are sound, and a position is guarded.             *)
(*                                                                         *)
(* Two inductive invariants support each other.  LedgerInv says what the   *)
(* events on disk are between any two transactions: the completed cycles   *)
(* are one interval that ends at the last event's time (lastAt), at most   *)
(* the next cycle (Due) is attempted besides, and every piece of evidence  *)
(* belongs to an attempted cycle.  ProcInv says what a process knows: its  *)
(* cursor never points past Due or before the chain, and the process that  *)
(* holds the lease works on Due and finds what its earlier transactions    *)
(* left, because nobody else can append.                                   *)
(*                                                                         *)
(* On an empty ledger the first cursor comes from the clock, and a second  *)
(* process may choose another candle; the theorems about NewLedgerSpec are *)
(* for one process (Solo), those about Spec for any number.                *)
(***************************************************************************)
EXTENDS PaperCycle, FiniteSetTheorems, SequenceTheorems, WellFoundedInduction, TLAPS

Due == lastAt + 1
Solo == \A p, q \in Proc : p = q

\* An empty ledger: no cycle was ever attempted.
Fresh ==
    /\ completed = {} /\ lastAt = 0
    /\ order = NoOrder /\ fills = <<>> /\ stops = <<>> /\ risk = NoRisk
    /\ Solo

\* The cycles: an interval of completed ones, then perhaps the one in progress.
Chain ==
    /\ attempted = {} => Fresh
    /\ attempted # {} => \E f \in First..Due : /\ completed = f..lastAt
                                               /\ attempted \in {f..lastAt, f..Due}

\* All evidence was written in an attempted cycle, and a pending order in this cycle
\* or the one before it.
Evidence ==
    /\ risk = NoRisk \/ risk.at + 1 \in attempted
    /\ risk.at <= lastAt
    /\ order # NoOrder => /\ order.side # "none" /\ order.eligible = order.signal + 1
                          /\ order.signal \in {lastAt - 1, lastAt} /\ order.signal + 1 \in attempted
    /\ \A i \in 1..Len(fills) : fills[i].at + 1 \in attempted
    /\ \A k \in 1..Len(stops) : stops[k].observed + 1 \in attempted

\* Orders, fills and stops tell the same story of the position.
Position ==
    /\ btc = Len(fills) % 2
    /\ fills # <<>> => completed # {}
    /\ order.side = "BUY" => btc = 0
    /\ order.side = "SELL" => btc = 1
    /\ btc = 0 <=> stops = <<>>
    /\ \A k \in 1..Len(stops) :
          IF k = 1 THEN /\ stops[k].reason = "HARD_STOP" /\ stops[k].active = stops[k].observed
                        /\ stops[k].observed = Top(fills).at
                   ELSE /\ stops[k].reason = "TRAILING_STOP" /\ stops[k].active = stops[k].observed + 1

\* Any sequence of fills: FillsSound, and the first fill is no stop.
Sound(seq) ==
    \A i \in 1..Len(seq) :
        /\ seq[i].kind = "MARKET" => seq[i].at = seq[i].signal + 1
        /\ seq[i].kind = "TRAILING_STOP" => seq[i].signal < seq[i].at
        /\ seq[i].kind = "HARD_STOP" => i > 1 /\ seq[i].signal = seq[i - 1].at
        /\ seq[i].side = IF i % 2 = 1 THEN "BUY" ELSE "SELL"
        /\ i > 1 => seq[i - 1].at <= seq[i].at

SoundFills == Sound(fills)

\* The high water of the position lacks at most the bar of the cycle in progress.
HighWater ==
    /\ btc > 0 => observed <= lastAt
    /\ btc > 0 /\ lastAt > Top(fills).at => observed >= lastAt - 1

LedgerInv == Chain /\ Evidence /\ Position /\ SoundFills /\ HighWater

Asking == {"idle", "wait", "acquire"}
Working == {"load", "renew", "unsafe", "open", "observe", "risk", "overlay", "decide", "submit", "complete"}
Opened == {"observe", "risk", "overlay", "decide", "submit", "complete"}
Marked == {"risk", "overlay", "decide", "submit", "complete"}
Assessed == {"overlay", "decide", "submit", "complete"}

\* A cursor is a cycle of the chain or the next one; on an empty ledger it is a
\* matured candle.
Cursors ==
    /\ First <= matured
    /\ \A p \in Proc : pc[p] # "idle" =>
          /\ cursor[p] \in IF attempted = {} THEN First..matured ELSE attempted \cup {Due}
          /\ pc[p] # "wait" => cursor[p] <= matured

\* The plan of the holder fits the account.
PlanFits(p) ==
    /\ plan[p] \in {"buy", "sell", "hold", "trail"}
    /\ plan[p] = "buy" => btc = 0 /\ order = NoOrder /\ risk.base = "open"
    /\ plan[p] \in {"sell", "trail"} => btc > 0
    /\ plan[p] = "sell" => order = NoOrder

\* What the holder of the lease may rely on at each of its steps.
Knows(p) ==
    /\ pc[p] \notin Asking
    /\ pc[p] = "attempt" => cursor[p] \notin completed /\ TargetAllowed(cursor[p])
    /\ pc[p] \in Working => cursor[p] \in attempted \ completed
    /\ pc[p] \in Opened /\ order # NoOrder => order.signal = lastAt
    /\ pc[p] \in Marked /\ btc > 0 => observed = lastAt
    /\ pc[p] \in Assessed => risk.at = lastAt
    /\ pc[p] \in {"overlay", "decide"} =>
          plan[p] \in Verdict /\ (plan[p] = "open" => risk.base = "open")
    /\ pc[p] = "submit" => PlanFits(p)

Knowledge == \A p \in Proc : holder = p => Knows(p)

ProcInv == Cursors /\ Knowledge

Inv == TypeOK /\ LedgerInv /\ ProcInv

-----------------------------------------------------------------------------
\* Sets of numbers

\* The smallest element of a set of integers is its minimum.
LEMMA MinIs ==
    ASSUME NEW S \in SUBSET Int, NEW m \in S, \A y \in S : m <= y
    PROVE  Min(S) = m
<1>1. \E x \in S : \A y \in S : x <= y
  OBVIOUS
<1>2. Min(S) \in S /\ \A y \in S : Min(S) <= y
  BY <1>1 DEF Min
<1>3. Min(S) \in Int /\ Min(S) <= m /\ m <= Min(S)
  BY <1>2
<1>4. QED
  BY <1>3

\* The largest element of a set of integers is its maximum.
LEMMA MaxIs ==
    ASSUME NEW S \in SUBSET Int, NEW m \in S, \A y \in S : m >= y
    PROVE  Max(S) = m
<1>1. \E x \in S : \A y \in S : x >= y
  OBVIOUS
<1>2. Max(S) \in S /\ \A y \in S : Max(S) >= y
  BY <1>1 DEF Max
<1>3. Max(S) \in Int /\ Max(S) >= m /\ m >= Max(S)
  BY <1>2
<1>4. QED
  BY <1>3

\* A bounded set of numbers that is not empty has a largest element.
LEMMA MaxExists ==
    ASSUME NEW S \in SUBSET Nat, S # {}, NEW n \in Nat, \A k \in S : k <= n
    PROVE  \E m \in S : \A k \in S : m >= k
<1> DEFINE below == {ss \in Nat \X Nat : ss[1] < ss[2]}
           T == {n - k : k \in S}
<1>1. T \subseteq Nat /\ T # {}
  <2>1. \A k \in S : n - k \in Nat
    OBVIOUS
  <2>2. PICK k \in S : TRUE
    OBVIOUS
  <2>3. n - k \in T
    BY <2>2
  <2>4. QED
    BY <2>1, <2>3
<1>2. PICK x \in T : \A y \in T : <<y, x>> \notin below
  <2>1. IsWellFoundedOn(below, Nat)
    BY NatLessThanWellFounded DEF OpToRel
  <2> HIDE DEF below, T
  <2>2. QED
    BY <1>1, <2>1, WFMin
<1>3. \A y \in T : ~(y < x)
  <2>1. \A y \in Nat : y < x => <<y, x>> \in below
    BY <1>1, <1>2
  <2>2. QED
    BY <1>1, <1>2, <2>1
<1>4. PICK m \in S : x = n - m
  BY <1>2
<1>5. \A k \in S : ~(n - k < n - m)
  BY <1>3, <1>4
<1>6. QED
  BY <1>5

-----------------------------------------------------------------------------
\* The types in three parts, by who changes them

TypeWorld ==
    /\ matured \in Nat
    /\ candle \in {NoCandle} \cup UNION {Candle(end) : end \in First..matured}
    /\ halted \in BOOLEAN
    /\ faults \in 0..MaxFaults

TypeLedger ==
    /\ completed \subseteq First..matured
    /\ attempted \subseteq First..matured
    /\ lastAt \in 0..matured
    /\ order \in OrderType
    /\ btc \in 0..1
    /\ fills \in Seq(FillType)
    /\ stops \in Seq(StopType)
    /\ observed \in Nat
    /\ risk \in [at : Nat, base : Verdict, final : Verdict]

TypeLocal ==
    /\ holder \in Proc \cup {Nobody, Dead}
    /\ pc \in [Proc -> Step]
    /\ cursor \in [Proc -> Nat]
    /\ plan \in [Proc -> {"none", "unsafe", "buy", "sell", "hold", "trail"} \cup Verdict]

\* The three parts are the type invariant.
LEMMA TypeParts == TypeOK <=> TypeWorld /\ TypeLedger /\ TypeLocal
BY DEF TypeOK, TypeWorld, TypeLedger, TypeLocal

\* Cycles are matured candles, so numbers.
LEMMA CyclesMatured ==
    ASSUME TypeOK
    PROVE  /\ First \in Nat /\ First > 0 /\ matured \in Nat /\ lastAt \in Nat /\ lastAt <= matured
           /\ \A e \in completed \cup attempted : e \in Nat /\ e > 0 /\ First <= e /\ e <= matured
<1>1. First \in Nat /\ First > 0
  BY CycleAssumption
<1>2. matured \in Nat /\ lastAt \in 0..matured
  BY DEF TypeOK
<1>3. completed \subseteq First..matured /\ attempted \subseteq First..matured
  BY DEF TypeOK
<1>4. QED
  BY <1>1, <1>2, <1>3

\* What the intervals of Chain say about single cycles.
LEMMA ChainFacts ==
    ASSUME TypeOK, Chain, attempted # {}
    PROVE  /\ lastAt \in Nat /\ lastAt <= matured
           /\ completed \subseteq attempted
           /\ \A e \in attempted : e \in Nat /\ e <= Due /\ (e # Due => e \in completed)
           /\ Due \notin completed
           /\ \A e \in attempted : e # Due => e + 1 \in attempted \cup {Due}
           /\ completed # {} => lastAt \in completed
           /\ \A e \in completed : e <= lastAt /\ (e # lastAt => e + 1 \in completed)
           /\ \A e \in completed : (e - 1 \in completed) \/ \A d \in completed : e <= d
           /\ completed = {} => attempted = {Due}
<1>1. PICK f \in First..Due : completed = f..lastAt /\ attempted \in {f..lastAt, f..Due}
  BY DEF Chain
<1>2. First \in Nat /\ lastAt \in Nat /\ f \in Nat /\ Due = lastAt + 1 /\ f <= Due
  BY <1>1, CycleAssumption DEF TypeOK, Due
<1>3. completed \subseteq attempted /\ Due \notin completed /\ lastAt <= matured
  BY <1>1, <1>2 DEF TypeOK
<1>4. \A e \in attempted : e \in Nat /\ e <= Due /\ (e # Due => e \in completed)
  BY <1>1, <1>2
<1>5. \A e \in attempted : e # Due => e + 1 \in attempted \cup {Due}
  BY <1>1, <1>2
<1>6. completed # {} => lastAt \in completed
  BY <1>1, <1>2
<1>7. \A e \in completed : e <= lastAt /\ (e # lastAt => e + 1 \in completed)
  BY <1>1, <1>2
<1>8. \A e \in completed : (e - 1 \in completed) \/ \A d \in completed : e <= d
  BY <1>1, <1>2
<1>9. completed = {} => attempted = {Due}
  BY <1>1, <1>2
<1>10. QED
  BY <1>2, <1>3, <1>4, <1>5, <1>6, <1>7, <1>8, <1>9

\* The end of the chain, as the code computes it.
LEMMA ChainEnds ==
    ASSUME TypeOK, Chain, completed # {}
    PROVE  attempted # {} /\ Max(completed) = lastAt /\ NextAfterChain = Due
<1>1. attempted # {}
  BY DEF Chain, Fresh
<1>2. lastAt \in completed /\ \A e \in completed : e \in Int /\ lastAt >= e
  BY <1>1, ChainFacts
<1>3. Max(completed) = lastAt
  BY <1>2, MaxIs
<1>4. QED
  BY <1>1, <1>3 DEF NextAfterChain, Due

\* At most the cycle in progress is attempted and not completed.
LEMMA InProgress ==
    ASSUME TypeOK, Chain
    PROVE  /\ attempted \ completed \in {{}, {Due}}
           /\ Cardinality(attempted \ completed) <= 1
           /\ Due \in attempted => attempted \ completed = {Due} /\ Min(attempted \ completed) = Due
<1>1. attempted \ completed \in {{}, {Due}}
  <2>1. CASE attempted = {}
    BY <2>1
  <2>2. CASE attempted # {}
    BY <2>2, ChainFacts
  <2>3. QED
    BY <2>1, <2>2
<1>2. Cardinality(attempted \ completed) <= 1
  <2>1. CASE attempted \ completed = {}
    BY <2>1, FS_EmptySet
  <2>2. CASE attempted \ completed = {Due}
    <3>1. Cardinality({Due}) = 1
      BY FS_Singleton
    <3>2. QED
      BY <2>2, <3>1
  <2>3. QED
    BY <1>1, <2>1, <2>2
<1>3. ASSUME Due \in attempted PROVE attempted \ completed = {Due}
  BY <1>3, ChainFacts
<1>4. ASSUME Due \in attempted PROVE Min(attempted \ completed) = Due
  <2>1. {Due} \in SUBSET Int
    BY DEF Due, TypeOK
  <2>2. QED
    BY <2>1, <1>3, <1>4, MinIs
<1>5. QED
  BY <1>1, <1>2, <1>3, <1>4

-----------------------------------------------------------------------------
\* Reading the ledger

\* Everything the ledger shows begun was attempted.
LEMMA ObservedAttempted ==
    ASSUME TypeOK, Chain, Evidence, Position
    PROVE  Observed \subseteq attempted
<1>1. When(risk # NoRisk, risk.at + 1) \subseteq attempted
  BY DEF Evidence, When
<1>2. When(order # NoOrder, order.signal + 1) \subseteq attempted
  BY DEF Evidence, When
<1>3. {fills[i].at + 1 : i \in 1..Len(fills)} \subseteq attempted
  BY DEF Evidence
<1>4. When(stops # <<>>, Top(stops).observed + 1) \subseteq attempted
  <2>1. CASE stops = <<>>
    BY <2>1 DEF When
  <2>2. CASE stops # <<>>
    <3>1. Len(stops) \in 1..Len(stops)
      BY <2>2, EmptySeq DEF TypeOK
    <3>2. QED
      BY <3>1 DEF Evidence, When, Top
  <2>3. QED
    BY <2>1, <2>2
<1>5. QED
  BY <1>1, <1>2, <1>3, <1>4 DEF Observed

\* What the ledger shows due is the next cycle or, once that one was attempted, the
\* one after it.
LEMMA ObligationsDue ==
    ASSUME TypeOK, Chain, Evidence, Position, attempted # {}
    PROVE  \A e \in Obligations : \/ e \in completed \cup {Due}
                                  \/ e = Due + 1 /\ Due \in attempted
<1> USE ChainFacts
<1>1. \A e \in attempted \ completed : e = Due
  OBVIOUS
<1>2. \A e \in When(completed # {}, NextAfterChain) : e = Due
  BY ChainEnds DEF When
<1>3. \A e \in When(order # NoOrder, order.eligible + 1) : e = Due \/ (e = Due + 1 /\ Due \in attempted)
  <2>1. CASE order # NoOrder
    <3>1. order.signal \in Nat /\ order.eligible = order.signal + 1
      BY <2>1 DEF Evidence, TypeOK, OrderType
    <3>2. CASE order.signal = lastAt
      BY <2>1, <3>1, <3>2 DEF Evidence, When, Due
    <3>3. CASE order.signal = lastAt - 1
      BY <2>1, <3>1, <3>3 DEF When, Due
    <3>4. QED
      BY <2>1, <3>2, <3>3 DEF Evidence
  <2>2. QED
    BY <2>1 DEF When
<1>4. \A e \in When(stops # <<>>, Top(stops).active + 1) :
         e \in completed \cup {Due} \/ (e = Due + 1 /\ Due \in attempted)
  <2>1. CASE stops # <<>>
    <3> DEFINE s == Top(stops)
    <3>1. Len(stops) \in 1..Len(stops)
      BY <2>1, EmptySeq DEF TypeOK
    <3>2. /\ s.observed + 1 \in attempted /\ s.observed \in Nat
          /\ s.active = s.observed \/ s.active = s.observed + 1
      <4>1. stops[Len(stops)] \in StopType
        BY <3>1, ElementOfSeq DEF TypeOK
      <4>2. s.observed \in Nat
        BY <4>1 DEF StopType, Top
      <4>3. QED
        BY <3>1, <4>2 DEF Evidence, Position, Top
    <3>3. CASE s.active = s.observed
      BY <2>1, <3>2, <3>3 DEF When, Due
    <3>4. CASE s.active = s.observed + 1 /\ s.observed + 1 = Due
      BY <2>1, <3>2, <3>4 DEF When
    <3>5. CASE s.active = s.observed + 1 /\ s.observed + 1 # Due
      <4>1. s.observed + 2 \in attempted \cup {Due}
        <5>1. (s.observed + 1) + 1 \in attempted \cup {Due}
          BY <3>2, <3>5, ChainFacts
        <5>2. (s.observed + 1) + 1 = s.observed + 2
          BY <3>2
        <5>3. QED
          BY <5>1, <5>2
      <4>2. s.active + 1 = s.observed + 2
        BY <3>2, <3>5
      <4>3. QED
        BY <2>1, <4>1, <4>2 DEF When
    <3>6. QED
      BY <3>2, <3>3, <3>4, <3>5
  <2>2. QED
    BY <2>1 DEF When
<1>5. QED
  BY <1>1, <1>2, <1>3, <1>4 DEF Obligations

\* The scheduler's cursor: the next cycle of the chain, or the clock's on a new ledger.
LEMMA OldestIsDue ==
    ASSUME TypeOK, Chain, Evidence, Position
    PROVE  /\ attempted # {} => OldestRequired = Due
           /\ attempted = {} => OldestRequired = matured
<1>1. ASSUME attempted # {} PROVE OldestRequired = Due
  <2>1. /\ Due \notin completed /\ Due \in Int /\ \A e \in attempted : e \in Int
        /\ \A e \in attempted : e # Due => e \in completed
    BY <1>1, ChainFacts DEF Due
  <2>2. Due \in Obligations
    <3>1. CASE completed = {}
      BY <1>1, <3>1, ChainFacts DEF Obligations
    <3>2. CASE completed # {}
      BY <3>2, ChainEnds DEF Obligations, When
    <3>3. QED
      BY <3>1, <3>2
  <2>3. \A e \in Unfinished : e = Due \/ e = Due + 1
    BY <1>1, <2>1, ObservedAttempted, ObligationsDue DEF Unfinished
  <2>4. Due \in Unfinished
    BY <2>1, <2>2 DEF Unfinished
  <2>5. Unfinished \in SUBSET Int /\ \A e \in Unfinished : Due <= e
    BY <2>1, <2>3
  <2>6. Min(Unfinished) = Due
    BY <2>4, <2>5, MinIs
  <2>7. QED
    BY <2>4, <2>6 DEF OldestRequired
<1>2. ASSUME attempted = {} PROVE OldestRequired = matured
  <2>1. Observed = {}
    BY <1>2, ObservedAttempted
  <2>2. Obligations = {}
    BY <1>2 DEF Chain, Fresh, Obligations, When
  <2>3. QED
    BY <2>1, <2>2 DEF Unfinished, OldestRequired
<1>3. QED
  BY <1>1, <1>2

\* The ledger that LedgerInv describes passes every check that reading it makes.
LEMMA LedgerReadable ==
    ASSUME TypeOK, Chain, Evidence, Position
    PROVE  Readable
<1>1. CASE attempted = {}
  <2>1. completed = {} /\ order = NoOrder /\ fills = <<>> /\ stops = <<>> /\ risk = NoRisk
    BY <1>1 DEF Chain, Fresh
  <2>2. Observed = {} /\ Obligations = {}
    BY <1>1, <2>1, ObservedAttempted DEF Obligations, When
  <2>3. ChainReadable
    BY <1>1, <2>1, FS_EmptySet DEF ChainReadable, Contiguous
  <2>4. QED
    BY <2>1, <2>2, <2>3, FS_EmptySet DEF Readable
<1>2. CASE attempted # {}
  <2>1. Observed \subseteq completed \cup {Due}
    BY <1>2, ObservedAttempted, ChainFacts
  <2>2. Contiguous(completed)
    <3>1. ASSUME NEW e \in completed, e - 1 \notin completed PROVE e = Min(completed)
      <4>1. completed \in SUBSET Int /\ \A d \in completed : e <= d
        BY <1>2, <3>1, ChainFacts
      <4>2. QED
        BY <4>1, MinIs
    <3>2. QED
      BY <3>1 DEF Contiguous
  <2>3. ChainReadable
    BY <2>2, InProgress, ChainEnds DEF ChainReadable
  <2>4. completed = {} => Cardinality(Observed) <= 1
    <3>1. CASE completed = {} /\ Observed = {}
      BY <3>1, FS_EmptySet
    <3>2. CASE completed = {} /\ Observed # {}
      <4>1. Observed = {Due}
        BY <2>1, <3>2
      <4>2. Cardinality({Due}) = 1
        BY FS_Singleton
      <4>3. QED
        BY <4>1, <4>2
    <3>3. QED
      BY <3>1, <3>2
  <2>5. \A e \in Observed : e <= matured
    BY ObservedAttempted, CyclesMatured
  <2>6. \A e \in Obligations : e <= matured + 1
    <3>1. lastAt \in Nat /\ matured \in Nat /\ lastAt <= matured /\ (Due \in attempted => Due <= matured)
      BY CyclesMatured
    <3>2. \A e \in completed : e <= matured
      BY CyclesMatured
    <3>3. \A e \in Obligations : e \in completed \/ e = Due \/ (e = Due + 1 /\ Due \in attempted)
      BY <1>2, ObligationsDue
    <3>4. Due = lastAt + 1
      BY DEF Due
    <3>5. TAKE e \in Obligations
    <3>6. CASE e \in completed
      <4>1. e <= matured /\ e \in Nat
        BY <3>6, CyclesMatured
      <4>2. QED
        BY <3>1, <4>1
    <3>7. CASE e = Due
      BY <3>1, <3>4, <3>7
    <3>8. CASE e = Due + 1 /\ Due \in attempted
      BY <3>1, <3>4, <3>8
    <3>9. QED
      BY <3>3, <3>6, <3>7, <3>8
  <2>7. completed # {} => \A e \in Obligations \ completed : e >= NextAfterChain
    BY <1>2, ObligationsDue, ChainEnds, CyclesMatured DEF Due
  <2>8. QED
    BY <2>1, <2>3, <2>4, <2>5, <2>6, <2>7, ChainEnds DEF Readable
<1>3. QED
  BY <1>1, <1>2

-----------------------------------------------------------------------------
\* Steps, by what they touch

\* Only process p moves.
Moves(p) ==
    \A q \in Proc \ {p} : pc'[q] = pc[q] /\ cursor'[q] = cursor[q] /\ plan'[q] = plan[q]

\* The process that works under the lease works on the next cycle of the chain, which
\* is attempted and not completed: its bar is the time of the last event.
LEMMA HolderAtDue ==
    ASSUME Inv, NEW p \in Proc, holder = p, pc[p] \in Working
    PROVE  /\ cursor[p] = Due /\ Bar(cursor[p]) = lastAt /\ Due = lastAt + 1
           /\ Due \in attempted /\ Due \notin completed
           /\ lastAt \in Nat /\ First <= Due /\ Due <= matured
           /\ Max({lastAt, Bar(cursor[p])}) = lastAt
           /\ Knows(p)
<1>1. Knows(p)
  BY DEF Inv, ProcInv, Knowledge
<1>2. cursor[p] \in attempted \ completed
  BY <1>1 DEF Knows
<1>3. cursor[p] = Due /\ Due \in attempted /\ Due \notin completed
  BY <1>2, ChainFacts DEF Inv, LedgerInv
<1>4. lastAt \in Nat /\ First <= Due /\ Due <= matured
  BY <1>3, CyclesMatured DEF Inv
<1>5. Bar(cursor[p]) = lastAt
  BY <1>3, <1>4 DEF Bar, Due
<1>6. Max({lastAt, Bar(cursor[p])}) = lastAt
  <2>1. {lastAt} \in SUBSET Int /\ {lastAt, Bar(cursor[p])} = {lastAt}
    BY <1>4, <1>5
  <2>2. QED
    BY <2>1, MaxIs
<1>7. QED
  BY <1>1, <1>3, <1>4, <1>5, <1>6 DEF Due

\* A step that appends no event and moves one process, which may take, keep or lose
\* the lease.
LEMMA LocalMove ==
    ASSUME Inv, NEW p \in Proc, UNCHANGED ledger, matured' = matured, Moves(p),
           TypeWorld', TypeLocal',
           holder' \in {holder, p, Nobody, Dead},
           pc'[p] # "idle" =>
              /\ cursor'[p] \in IF attempted = {} THEN First..matured ELSE attempted \cup {Due}
              /\ pc'[p] # "wait" => cursor'[p] <= matured,
           holder' = p => Knows(p)'
    PROVE  Inv'
<1>1. TypeOK'
  <2>1. TypeLedger'
    BY TypeParts DEF Inv, TypeLedger, ledger, account
  <2>2. QED
    BY <2>1 DEF TypeOK, TypeWorld, TypeLedger, TypeLocal
<1>2. LedgerInv'
  BY DEF Inv, ledger, account, LedgerInv, Chain, Fresh, Evidence, Position, SoundFills, HighWater, Due, Top
<1>3. Cursors'
  BY DEF Inv, ProcInv, Cursors, Moves, ledger, Due
<1>4. Knowledge'
  <2>1. ASSUME NEW q \in Proc, holder' = q, q # p PROVE Knows(q)'
    <3>1. holder = q
      BY <2>1, HolderAssumption
    <3>2. Knows(q)
      BY <3>1 DEF Inv, ProcInv, Knowledge
    <3>3. QED
      BY <2>1, <3>2 DEF Knows, Moves, ledger, account, TargetAllowed, PlanFits
  <2>2. QED
    BY <2>1 DEF Knowledge
<1>5. QED
  BY <1>1, <1>2, <1>3, <1>4 DEF Inv, ProcInv

\* A transaction of the lease holder that leaves the cycles as they are.
LEMMA LedgerMove ==
    ASSUME Inv, NEW p \in Proc, holder = p, holder' = holder, pc[p] \in Working,
           matured' = matured, completed' = completed, attempted' = attempted, lastAt' = lastAt,
           Moves(p), cursor' = cursor, pc'[p] \notin {"idle", "wait"},
           TypeOK', Evidence', Position', SoundFills', HighWater', Knows(p)'
    PROVE  Inv'
<1>1. attempted # {}
  BY HolderAtDue
<1>2. Chain'
  BY <1>1 DEF Inv, LedgerInv, Chain, Due
<1>3. Cursors'
  <2>1. ASSUME NEW q \in Proc, pc'[q] # "idle"
        PROVE  cursor[q] \in attempted \cup {Due} /\ (pc'[q] # "wait" => cursor[q] <= matured)
    BY <1>1, <2>1 DEF Inv, ProcInv, Cursors, Moves, Working
  <2>2. QED
    BY <1>1, <2>1 DEF Inv, ProcInv, Cursors, Due
<1>4. Knowledge'
  BY DEF Knowledge
<1>5. QED
  BY <1>2, <1>3, <1>4 DEF Inv, LedgerInv, ProcInv

\* The environment moves on, or nothing does.
LEMMA EnvironmentMove ==
    ASSUME Inv, UNCHANGED <<holder, ledger, local>>, TypeWorld', matured <= matured'
    PROVE  Inv'
<1>1. matured \in Nat /\ matured' \in Nat
  BY DEF Inv, TypeOK, TypeWorld
<1>2. TypeOK'
  <2>1. First..matured \subseteq First..matured' /\ 0..matured \subseteq 0..matured'
    BY <1>1, CycleAssumption
  <2>2. TypeLedger'
    BY <2>1, TypeParts DEF Inv, TypeLedger, ledger, account
  <2>3. TypeLocal'
    BY TypeParts DEF Inv, TypeLocal, local
  <2>4. QED
    BY <2>2, <2>3 DEF TypeOK, TypeWorld, TypeLedger, TypeLocal
<1>3. LedgerInv'
  BY DEF Inv, ledger, account, LedgerInv, Chain, Fresh, Evidence, Position, SoundFills, HighWater, Due, Top
<1>4. Cursors'
  <2>1. ASSUME NEW p \in Proc, pc[p] # "idle"
        PROVE  /\ cursor[p] \in IF attempted = {} THEN First..matured' ELSE attempted \cup {Due}
               /\ pc[p] # "wait" => cursor[p] <= matured'
    <3>1. /\ cursor[p] \in IF attempted = {} THEN First..matured ELSE attempted \cup {Due}
          /\ pc[p] # "wait" => cursor[p] <= matured
          /\ cursor[p] \in Nat
      BY <2>1 DEF Inv, ProcInv, Cursors, TypeOK
    <3>2. QED
      BY <1>1, <3>1, CycleAssumption
  <2>2. First <= matured'
    BY <1>1, CycleAssumption DEF Inv, ProcInv, Cursors
  <2>3. QED
    BY <2>1, <2>2 DEF Cursors, ledger, local, Due
<1>5. Knowledge'
  BY DEF Inv, ProcInv, Knowledge, Knows, ledger, account, local, TargetAllowed, PlanFits
<1>6. QED
  BY <1>2, <1>3, <1>4, <1>5 DEF Inv, ProcInv

\* Candles mature, health changes outside the cycles, or the step is a stutter.
LEMMA EnvironmentSteps ==
    ASSUME Inv, Mature \/ HealthObserved \/ UNCHANGED vars
    PROVE  Inv'
<1>1. CASE Mature
  <2>1. matured \in Nat /\ matured' \in Nat /\ matured <= matured'
    BY <1>1 DEF Mature, Inv, TypeOK
  <2>2. First..matured \subseteq First..matured'
    BY <2>1, CycleAssumption
  <2>3. TypeWorld'
    BY <1>1, <2>1, <2>2, TypeParts DEF Inv, TypeWorld, Mature
  <2>4. QED
    BY <1>1, <2>1, <2>3, EnvironmentMove DEF Mature
<1>2. CASE HealthObserved
  <2>1. TypeWorld' /\ matured' = matured /\ matured \in Nat
    BY <1>2, TypeParts DEF Inv, TypeWorld, HealthObserved
  <2>2. QED
    BY <1>2, <2>1, EnvironmentMove DEF HealthObserved
<1>3. CASE UNCHANGED vars
  <2>1. TypeWorld' /\ matured' = matured /\ matured \in Nat
    BY <1>3, TypeParts DEF Inv, TypeWorld, vars, world
  <2>2. QED
    BY <1>3, <2>1, EnvironmentMove DEF vars
<1>4. QED
  BY <1>1, <1>2, <1>3

\* What Goto and Return do to the processes.
LEMMA GotoMoves ==
    ASSUME TypeOK, NEW p \in Proc, NEW step \in Step, Goto(p, step), UNCHANGED <<cursor, plan>>,
           holder' \in Proc \cup {Nobody, Dead}
    PROVE  /\ Moves(p) /\ TypeLocal' /\ pc'[p] = step /\ cursor'[p] = cursor[p] /\ plan'[p] = plan[p]
           /\ cursor' = cursor
BY DEF TypeOK, Goto, Moves, TypeLocal

\* Return leaves the process idle and everybody else alone.
LEMMA ReturnMoves ==
    ASSUME TypeOK, NEW p \in Proc, Return(p), holder' \in Proc \cup {Nobody, Dead}
    PROVE  Moves(p) /\ TypeLocal' /\ pc'[p] = "idle"
BY DEF TypeOK, Return, Goto, Moves, TypeLocal, NoBar, Step

\* The types of the world do not change with the fault counter.
LEMMA WorldStays ==
    ASSUME TypeOK, UNCHANGED world, UNCHANGED faults \/ Fault
    PROVE  TypeWorld' /\ matured' = matured
<1>1. TypeWorld
  BY TypeParts
<1>2. faults' \in 0..MaxFaults
  BY <1>1, CycleAssumption DEF TypeWorld, Fault
<1>3. QED
  BY <1>1, <1>2 DEF TypeWorld, world

\* A process that returns or gives up: Return in Begin, LeaseHeld, Release and Crash,
\* the finally clause in Fail and Raise.
LEMMA Leaving ==
    ASSUME Inv, NEW p \in Proc, UNCHANGED <<world, ledger>>, UNCHANGED faults \/ Fault,
           \/ Return(p) /\ ((holder' = holder /\ holder # p) \/ holder' \in {Nobody, Dead})
           \/ Goto(p, "release") /\ UNCHANGED <<holder, cursor, plan>> /\ InCycle(p)
    PROVE  Inv'
<1>1. TypeWorld' /\ matured' = matured /\ holder \in Proc \cup {Nobody, Dead}
  BY WorldStays DEF Inv, TypeOK
<1>2. CASE Return(p) /\ ((holder' = holder /\ holder # p) \/ holder' \in {Nobody, Dead})
  <2>1. Moves(p) /\ TypeLocal' /\ pc'[p] = "idle"
    BY <1>1, <1>2, ReturnMoves DEF Inv
  <2>2. holder' # p
    BY <1>2, HolderAssumption
  <2>3. QED
    BY <1>1, <1>2, <2>1, <2>2, LocalMove DEF Inv
<1>3. CASE Goto(p, "release") /\ UNCHANGED <<holder, cursor, plan>> /\ InCycle(p)
  <2>1. Moves(p) /\ TypeLocal' /\ pc'[p] = "release" /\ cursor'[p] = cursor[p]
    BY <1>1, <1>3, GotoMoves DEF Inv, Step
  <2>2. /\ cursor'[p] \in IF attempted = {} THEN First..matured ELSE attempted \cup {Due}
        /\ cursor'[p] <= matured
    BY <1>3, <2>1 DEF Inv, ProcInv, Cursors, InCycle
  <2>3. Knows(p)'
    BY <2>1 DEF Knows, Asking, Working, Opened, Marked, Assessed
  <2>4. QED
    BY <1>1, <1>3, <2>1, <2>2, <2>3, LocalMove DEF Inv
<1>4. QED
  BY <1>2, <1>3

\* The cursor of a process that has left the scheduler is a matured cycle.
LEMMA CursorMatured ==
    ASSUME Inv, NEW p \in Proc, pc[p] \notin {"idle", "wait"}
    PROVE  /\ cursor[p] \in IF attempted = {} THEN First..matured ELSE attempted \cup {Due}
           /\ cursor[p] <= matured
BY DEF Inv, ProcInv, Cursors

\* Resolve, Begin, LeaseHeld, Acquire, TakeOver and Release: the process asks for a
\* candle and for the lease, and gives the lease back.
LEMMA AskingSteps ==
    ASSUME Inv, NEW p \in Proc,
           Resolve(p) \/ Begin(p) \/ LeaseHeld(p) \/ Acquire(p) \/ TakeOver(p) \/ Release(p)
    PROVE  Inv'
<1>1. holder = p => pc[p] \notin Asking
  BY DEF Inv, ProcInv, Knowledge, Knows
<1>2. holder \in Proc \cup {Nobody, Dead} /\ TypeOK
  BY DEF Inv, TypeOK
<1>3. CASE Resolve(p)
  <2>1. TypeWorld' /\ matured' = matured
    BY <1>2, <1>3, WorldStays DEF Resolve
  <2>2. OldestRequired \in IF attempted = {} THEN First..matured ELSE attempted \cup {Due}
    <3>1. First <= matured /\ First \in Nat /\ matured \in Nat
      BY CyclesMatured DEF Inv, ProcInv, Cursors
    <3>2. QED
      BY <3>1, OldestIsDue DEF Inv, LedgerInv
  <2>3. OldestRequired \in Nat
    BY <2>2, CyclesMatured DEF Inv, Due
  <2>4. Moves(p) /\ TypeLocal' /\ pc'[p] = "wait" /\ cursor'[p] = OldestRequired
    BY <1>2, <1>3, <2>3 DEF Resolve, Goto, Moves, TypeOK, TypeLocal, Step
  <2>5. holder' # p /\ holder' = holder /\ UNCHANGED ledger
    BY <1>1, <1>3 DEF Resolve, Asking
  <2>6. QED
    BY <2>1, <2>2, <2>4, <2>5, LocalMove
<1>4. CASE Begin(p)
  <2>1. CASE Return(p)
    BY <1>1, <1>4, <2>1, Leaving DEF Begin, Asking
  <2>2. CASE Goto(p, "acquire") /\ UNCHANGED <<cursor, plan>>
    <3>1. TypeWorld' /\ matured' = matured
      BY <1>2, <1>4, WorldStays DEF Begin
    <3>2. Moves(p) /\ TypeLocal' /\ pc'[p] = "acquire" /\ cursor'[p] = cursor[p]
      BY <1>2, <1>4, <2>2, GotoMoves DEF Begin, Step
    <3>3. /\ cursor[p] \in IF attempted = {} THEN First..matured ELSE attempted \cup {Due}
          /\ cursor[p] <= matured
      BY <1>4 DEF Begin, Inv, ProcInv, Cursors
    <3>4. holder' # p /\ holder' = holder /\ UNCHANGED ledger
      BY <1>1, <1>4 DEF Begin, Asking
    <3>5. QED
      BY <3>1, <3>2, <3>3, <3>4, LocalMove
  <2>3. QED
    BY <1>4, <2>1, <2>2 DEF Begin
<1>5. CASE LeaseHeld(p)
  BY <1>1, <1>5, Leaving DEF LeaseHeld, Asking
<1>6. CASE Acquire(p) \/ TakeOver(p)
  <2>1. TypeWorld' /\ matured' = matured
    BY <1>2, <1>6, WorldStays DEF Acquire, TakeOver
  <2>2. holder' = p /\ UNCHANGED ledger
    BY <1>6 DEF Acquire, TakeOver
  <2>3. Moves(p) /\ TypeLocal' /\ pc'[p] = "check" /\ cursor'[p] = cursor[p]
    BY <1>2, <1>6, <2>2, GotoMoves DEF Acquire, TakeOver, Step
  <2>4. /\ cursor[p] \in IF attempted = {} THEN First..matured ELSE attempted \cup {Due}
        /\ cursor[p] <= matured
    BY <1>6, CursorMatured DEF Acquire, TakeOver
  <2>5. Knows(p)'
    BY <2>3 DEF Knows, Asking, Working, Opened, Marked, Assessed
  <2>6. QED
    BY <2>1, <2>2, <2>3, <2>4, <2>5, LocalMove
<1>7. CASE Release(p)
  BY <1>7, <1>2, Leaving DEF Release
<1>8. QED
  BY <1>3, <1>4, <1>5, <1>6, <1>7

\* A step of a working process that appends nothing: it goes on to step with what it
\* knows, if it still holds the lease.
LEMMA GoesOn ==
    ASSUME Inv, NEW p \in Proc, NEW step \in Step, pc[p] \notin {"idle", "wait"}, step \notin {"idle", "wait"},
           UNCHANGED <<holder, ledger, cursor>>, matured' = matured, TypeWorld', Goto(p, step),
           plan' \in [Proc -> {"none", "unsafe", "buy", "sell", "hold", "trail"} \cup Verdict],
           \A q \in Proc \ {p} : plan'[q] = plan[q],
           holder = p => Knows(p)'
    PROVE  Inv'
<1>1. Moves(p) /\ TypeLocal' /\ pc'[p] = step /\ cursor'[p] = cursor[p]
  BY DEF Inv, TypeOK, Goto, Moves, TypeLocal
<1>2. QED
  BY <1>1, CursorMatured, LocalMove

\* Check: the process that got the lease reads the ledger again.
LEMMA CheckStep ==
    ASSUME Inv, NEW p \in Proc, Check(p)
    PROVE  Inv'
<1>1. TypeWorld' /\ matured' = matured /\ plan \in [Proc -> {"none", "unsafe", "buy", "sell", "hold", "trail"} \cup Verdict]
  BY WorldStays DEF Inv, TypeOK, Check
<1>2. CASE ChainReadable /\ cursor[p] \notin completed /\ TargetAllowed(cursor[p])
  <2>1. Goto(p, "attempt") /\ pc'[p] = "attempt"
    BY <1>2 DEF Check, Goto, Inv, TypeOK
  <2>2. Knows(p)'
    BY <1>2, <2>1 DEF Check, ledger, Knows, TargetAllowed, Asking, Working, Opened, Marked, Assessed
  <2>3. QED
    BY <1>1, <2>1, <2>2, GoesOn DEF Check, Step
<1>3. CASE ~(ChainReadable /\ cursor[p] \notin completed /\ TargetAllowed(cursor[p]))
  <2>1. Goto(p, "release") /\ pc'[p] = "release"
    BY <1>3 DEF Check, Goto, Inv, TypeOK
  <2>2. Knows(p)'
    BY <2>1 DEF Knows, Asking, Working, Opened, Marked, Assessed
  <2>3. QED
    BY <1>1, <2>1, <2>2, GoesOn DEF Check, Step
<1>4. QED
  BY <1>2, <1>3

\* Load, LoadUnsafe and LoadFails: the source's health observation does not move the
\* time of the last event, which is already the bar of the cycle.
LEMMA LoadSteps ==
    ASSUME Inv, NEW p \in Proc, Load(p) \/ LoadUnsafe(p) \/ LoadFails(p)
    PROVE  Inv'
<1>1. holder = p /\ pc[p] = "load" /\ UNCHANGED <<holder, cursor>> /\ matured' = matured
  BY DEF Load, LoadUnsafe, LoadFails
<1>2. /\ cursor[p] = Due /\ Max({lastAt, Bar(cursor[p])}) = lastAt /\ Knows(p)
      /\ First <= Due /\ Due <= matured /\ lastAt \in Nat
  BY <1>1, HolderAtDue DEF Working
<1>3. UNCHANGED ledger
  BY <1>2 DEF Load, LoadUnsafe, LoadFails, ledger
<1>4. TypeWorld'
  <2>1. faults' \in 0..MaxFaults
    BY CycleAssumption DEF Inv, TypeOK, Load, LoadUnsafe, LoadFails, Fault
  <2>2. candle' \in {NoCandle} \cup UNION {Candle(end) : end \in First..matured}
    <3>1. Due \in First..matured
      BY <1>2, CyclesMatured DEF Inv, Due
    <3>2. candle' = candle \/ candle' \in Candle(Due)
      BY <1>2 DEF Load, LoadUnsafe, LoadFails
    <3>3. QED
      BY <3>1, <3>2 DEF Inv, TypeOK
  <2>3. QED
    BY <1>1, <2>1, <2>2 DEF Inv, TypeOK, TypeWorld, Load, LoadUnsafe, LoadFails
<1>5. PICK step \in {"renew", "release"} : Goto(p, step)
  BY DEF Load, LoadUnsafe, LoadFails
<1>6. /\ plan' \in [Proc -> {"none", "unsafe", "buy", "sell", "hold", "trail"} \cup Verdict]
      /\ \A q \in Proc \ {p} : plan'[q] = plan[q]
  BY DEF Load, LoadUnsafe, LoadFails, Inv, TypeOK
<1>7. Knows(p)'
  <2>1. pc'[p] = step /\ cursor'[p] = cursor[p]
    BY <1>1, <1>5 DEF Goto, Inv, TypeOK
  <2>2. QED
    BY <1>1, <1>2, <1>3, <2>1 DEF Knows, ledger, Asking, Working, Opened, Marked, Assessed
<1>8. QED
  BY <1>1, <1>3, <1>4, <1>5, <1>6, <1>7, GoesOn DEF Step

\* Renew, Decide and Hold: the holder reads the ledger and makes up its mind.
LEMMA ReadingSteps ==
    ASSUME Inv, NEW p \in Proc, Renew(p) \/ Decide(p) \/ Hold(p)
    PROVE  Inv'
<1>1. /\ UNCHANGED <<holder, ledger, cursor>> /\ UNCHANGED world /\ faults' = faults
      /\ pc[p] \in Working \ {"load"}
  BY DEF Renew, Decide, Hold, Working
<1>2. TypeWorld' /\ matured' = matured /\ plan \in [Proc -> {"none", "unsafe", "buy", "sell", "hold", "trail"} \cup Verdict]
  BY <1>1, WorldStays DEF Inv, TypeOK
<1>3. ASSUME holder = p PROVE Knows(p) /\ cursor[p] \notin completed
  BY <1>1, <1>3, HolderAtDue
<1>4. btc \in 0..1 /\ Verdict \cap {"none", "unsafe", "buy", "sell", "hold", "trail"} = {}
  BY DEF Inv, TypeOK, Verdict
<1>5. CASE Renew(p)
  <2>1. PICK step \in {"release", "unsafe", "open"} : Goto(p, step)
    BY <1>5 DEF Renew
  <2>2. pc'[p] = step /\ cursor'[p] = cursor[p] /\ pc[p] = "renew" /\ plan' = plan
    BY <1>5, <2>1 DEF Renew, Goto, Inv, TypeOK
  <2>3. holder = p => Knows(p)'
    BY <1>1, <1>3, <2>2 DEF Knows, ledger, Asking, Working, Opened, Marked, Assessed
  <2>4. QED
    BY <1>1, <1>2, <2>1, <2>2, <2>3, GoesOn DEF Step
<1>6. CASE Hold(p)
  <2>1. Goto(p, "complete") /\ pc'[p] = "complete" /\ pc[p] = "submit" /\ plan' = plan
    BY <1>6 DEF Hold, Goto, Inv, TypeOK
  <2>2. holder = p => Knows(p)'
    BY <1>1, <1>3, <2>1 DEF Knows, ledger, account, Asking, Working, Opened, Marked, Assessed
  <2>3. QED
    BY <1>1, <1>2, <2>1, <2>2, GoesOn DEF Step
<1>7. CASE Decide(p)
  <2> DEFINE decision == Decision(plan[p])
             kept == IF decision = "sell" /\ order # NoOrder THEN "hold" ELSE decision
  <2>1. /\ Goto(p, "submit") /\ pc'[p] = "submit" /\ pc[p] = "decide"
        /\ plan' = [plan EXCEPT ![p] = kept]
    BY <1>7 DEF Decide, Goto, Inv, TypeOK
  <2>2. /\ decision \in {"buy", "sell", "hold", "trail"}
        /\ decision = "buy" => btc = 0 /\ order = NoOrder /\ plan[p] = "open"
        /\ decision \in {"sell", "trail"} => btc > 0
    BY <1>4 DEF Decision
  <2>3. kept \in {"buy", "sell", "hold", "trail"} /\ plan'[p] = kept
    BY <1>2, <2>1, <2>2
  <2>4. /\ plan' \in [Proc -> {"none", "unsafe", "buy", "sell", "hold", "trail"} \cup Verdict]
        /\ \A q \in Proc \ {p} : plan'[q] = plan[q]
    BY <1>2, <2>1, <2>3
  <2>5. ASSUME holder = p PROVE Knows(p)'
    <3>1. plan[p] = "open" => risk.base = "open"
      BY <1>3, <2>1, <2>5 DEF Knows
    <3>2. PlanFits(p)'
      BY <1>1, <2>2, <2>3, <3>1 DEF PlanFits, ledger, account
    <3>3. QED
      BY <1>1, <1>3, <2>1, <2>5, <3>2 DEF Knows, ledger, account, Asking, Working, Opened, Marked, Assessed
  <2>6. QED
    BY <1>1, <1>2, <2>1, <2>4, <2>5, GoesOn DEF Step
<1>8. QED
  BY <1>5, <1>6, <1>7

\* A crash, an exception in the cycle, and an error that the ledger causes: the events
\* stay, and a later cycle has to cope with them.
LEMMA FailingSteps ==
    ASSUME Inv, NEW p \in Proc, Crash(p) \/ Fail(p) \/ Raise(p)
    PROVE  Inv'
<1>1. CASE Crash(p)
  BY <1>1, Leaving DEF Crash
<1>2. CASE Fail(p)
  BY <1>2, Leaving DEF Fail
<1>3. CASE Raise(p)
  BY <1>3, Leaving DEF Raise
<1>4. QED
  BY <1>1, <1>2, <1>3

-----------------------------------------------------------------------------
\* The cycles: an attempt is recorded, a cycle is completed

\* A step of the holder that moves the chain: what is left to prove of it.
LEMMA ChainMove ==
    ASSUME Inv, NEW p \in Proc, holder = p, holder' = p, UNCHANGED <<account, observed, risk, cursor, plan>>,
           matured' = matured, TypeWorld', NEW step \in {"load", "release"}, Goto(p, step),
           pc[p] \notin {"idle", "wait"},
           attempted' \subseteq First..matured, completed' \subseteq First..matured, lastAt' \in 0..matured,
           Chain', Evidence', HighWater', completed \subseteq completed',
           \A q \in Proc : pc[q] # "idle" => cursor[q] \in attempted' \cup {Due'},
           attempted' # {}, Knows(p)'
    PROVE  Inv'
<1>1. TypeOK'
  <2>1. Moves(p) /\ TypeLocal'
    BY GotoMoves DEF Inv, TypeOK, Step
  <2>2. TypeLedger'
    BY DEF Inv, TypeOK, TypeLedger, account
  <2>3. QED
    BY <2>1, <2>2 DEF TypeOK, TypeWorld, TypeLedger, TypeLocal
<1>2. LedgerInv'
  <2>1. Position'
    BY DEF Inv, LedgerInv, Position, account, Top
  <2>2. SoundFills'
    BY DEF Inv, LedgerInv, SoundFills, account
  <2>3. QED
    BY <2>1, <2>2 DEF LedgerInv
<1>3. Cursors'
  <2>1. ASSUME NEW q \in Proc, pc'[q] # "idle"
        PROVE  pc[q] # "idle" /\ (pc'[q] # "wait" => cursor[q] <= matured)
    BY <2>1, CursorMatured DEF Goto, Inv, TypeOK
  <2>2. QED
    BY <2>1 DEF Cursors, Inv, ProcInv
<1>4. Knowledge'
  BY DEF Knowledge
<1>5. QED
  BY <1>1, <1>2, <1>3, <1>4 DEF Inv, ProcInv

\* RecordAttempt opens the next cycle of the chain; on an empty ledger it starts the
\* chain where the clock said.
LEMMA RecordAttemptStep ==
    ASSUME Inv, NEW p \in Proc, RecordAttempt(p)
    PROVE  Inv'
<1>1. /\ UNCHANGED <<holder, completed, account, observed, risk, cursor, plan>> /\ UNCHANGED world
      /\ faults' = faults /\ pc[p] = "attempt" /\ Goto(p, "load") /\ pc'[p] = "load"
  BY DEF RecordAttempt, Goto, Inv, TypeOK
<1>2. TypeWorld' /\ matured' = matured
  BY <1>1, WorldStays DEF Inv
<1>3. /\ holder = p => cursor[p] \notin completed
      /\ cursor[p] \in IF attempted = {} THEN First..matured ELSE attempted \cup {Due}
      /\ cursor[p] <= matured
  BY <1>1, CursorMatured DEF Inv, ProcInv, Knowledge, Knows
<1>4. First \in Nat \ {0} /\ matured \in Nat /\ lastAt \in Nat /\ First <= matured /\ Due = lastAt + 1
  BY CyclesMatured DEF Inv, Due, ProcInv, Cursors
<1>5. CASE cursor[p] \in attempted
  <2>1. UNCHANGED ledger
    BY <1>1, <1>5 DEF RecordAttempt, ledger
  <2>2. holder = p => Knows(p)'
    BY <1>1, <1>3, <1>5, <2>1 DEF Knows, ledger, Asking, Working, Opened, Marked, Assessed
  <2>3. plan \in [Proc -> {"none", "unsafe", "buy", "sell", "hold", "trail"} \cup Verdict]
    BY DEF Inv, TypeOK
  <2>4. QED
    BY <1>1, <1>2, <2>1, <2>2, <2>3, GoesOn DEF Step
<1>6. CASE cursor[p] \notin attempted
  <2>1. holder = p /\ lastAt' = cursor[p] - 1 /\ attempted' = attempted \cup {cursor[p]} /\ holder' = p
    BY <1>1, <1>6 DEF RecordAttempt, Appends, Bar
  <2>2. Knows(p)'
    BY <1>1, <1>3, <2>1 DEF Knows, Asking, Working, Opened, Marked, Assessed
  <2>3. CASE attempted = {}
    <3>1. Fresh /\ cursor[p] \in First..matured /\ attempted' = {cursor[p]}
      BY <1>3, <2>1, <2>3 DEF Inv, LedgerInv, Chain
    <3>2. cursor[p] \in Nat /\ lastAt' \in 0..matured /\ Due' = cursor[p]
      BY <1>4, <2>1, <3>1 DEF Due
    <3>3. Chain'
      <4>1. completed' = {} /\ Due'..lastAt' = {} /\ attempted' = Due'..Due' /\ Due' \in First..Due'
        BY <1>1, <1>4, <2>1, <3>1, <3>2 DEF Fresh
      <4>2. attempted' # {}
        BY <3>1
      <4>3. QED
        BY <4>1, <4>2 DEF Chain
    <3>4. Evidence'
      <4>1. order' = NoOrder /\ risk' = NoRisk /\ Len(fills') = 0 /\ Len(stops') = 0
        BY <1>1, <3>1, EmptySeq DEF Fresh, account
      <4>2. QED
        BY <3>2, <4>1 DEF Evidence, NoRisk, NoBar
    <3>5. HighWater'
      <4>1. Len(fills) = 0 /\ btc = Len(fills) % 2
        BY <3>1, EmptySeq DEF Inv, LedgerInv, Position, Fresh
      <4>2. btc' = 0
        BY <1>1, <4>1 DEF account
      <4>3. QED
        BY <4>2 DEF HighWater
    <3>6. \A q \in Proc : cursor[q] \in attempted' \cup {Due'}
      BY <3>1 DEF Fresh, Solo
    <3>7. attempted' \subseteq First..matured /\ completed' \subseteq First..matured
      BY <1>1, <3>1 DEF Fresh
    <3>8. QED
      BY <1>1, <1>2, <2>1, <2>2, <3>1, <3>2, <3>3, <3>4, <3>5, <3>6, <3>7, ChainMove
  <2>4. CASE attempted # {}
    <3>1. cursor[p] = Due /\ attempted' = attempted \cup {Due} /\ lastAt' = lastAt /\ Due' = Due
      BY <1>3, <1>4, <1>6, <2>1, <2>4 DEF Due
    <3>2. PICK f \in First..Due : completed = f..lastAt /\ attempted \in {f..lastAt, f..Due}
      BY <2>4 DEF Inv, LedgerInv, Chain
    <3>3. f \in Nat /\ f <= Due /\ First <= Due
      BY <1>4, <3>2
    <3>4. attempted' = f..Due
      <4>1. Due \notin attempted
        BY <1>6, <3>1
      <4>2. attempted = f..lastAt
        BY <1>4, <3>2, <3>3, <4>1
      <4>3. QED
        BY <1>4, <3>1, <3>3, <4>2
    <3>5. Chain'
      BY <1>1, <2>4, <3>1, <3>2, <3>4 DEF Chain
    <3>6. Evidence' /\ HighWater'
      BY <1>1, <3>1 DEF Inv, LedgerInv, Evidence, HighWater, account, Top
    <3>7. attempted' \subseteq First..matured /\ completed' \subseteq First..matured /\ lastAt' \in 0..matured
      BY <1>1, <1>3, <1>4, <3>1, <3>3 DEF Inv, TypeOK
    <3>8. \A q \in Proc : pc[q] # "idle" => cursor[q] \in attempted' \cup {Due'}
      BY <2>4, <3>1 DEF Inv, ProcInv, Cursors
    <3>9. attempted' # {}
      BY <3>1
    <3>10. QED
      BY <1>1, <1>2, <2>1, <2>2, <3>5, <3>6, <3>7, <3>8, <3>9, ChainMove
  <2>5. QED
    BY <2>3, <2>4
<1>7. QED
  BY <1>5, <1>6

\* Complete and CompleteUnsafe close the cycle; what it leaves pending was signalled in it.
LEMMA CompletionSteps ==
    ASSUME Inv, NEW p \in Proc, Complete(p) \/ CompleteUnsafe(p)
    PROVE  Inv'
<1>1. /\ UNCHANGED <<holder, attempted, account, observed, risk, cursor, plan>> /\ matured' = matured
      /\ holder = p /\ pc[p] \in {"complete", "unsafe"} /\ Goto(p, "release") /\ pc'[p] = "release"
      /\ lastAt' = cursor[p] /\ completed' = completed \cup {cursor[p]}
  BY DEF Complete, CompleteUnsafe, Appends, Goto, Inv, TypeOK
<1>2. TypeWorld'
  BY <1>1 DEF Complete, CompleteUnsafe, Inv, TypeOK, TypeWorld
<1>3. /\ cursor[p] = Due /\ Due = lastAt + 1 /\ Due \in attempted /\ Due \notin completed
      /\ lastAt \in Nat /\ First <= Due /\ Due <= matured /\ Knows(p)
  BY <1>1, HolderAtDue DEF Working
<1>4. First \in Nat /\ matured \in Nat
  BY CyclesMatured DEF Inv
<1>5. /\ order # NoOrder => order.signal = lastAt
      /\ btc > 0 => observed = lastAt
  <2>1. CASE Complete(p)
    BY <1>3, <2>1 DEF Complete, Knows, Opened, Marked
  <2>2. CASE CompleteUnsafe(p)
    BY <2>2 DEF CompleteUnsafe
  <2>3. QED
    BY <2>1, <2>2
<1>6. Chain'
  <2>1. PICK f \in First..Due : completed = f..lastAt /\ attempted \in {f..lastAt, f..Due}
    BY <1>3 DEF Inv, LedgerInv, Chain
  <2>2. f \in Nat /\ f <= Due /\ lastAt' = Due /\ Due' = Due + 1
    BY <1>1, <1>3, <1>4, <2>1 DEF Due
  <2>3. completed' = f..lastAt' /\ attempted' = f..lastAt' /\ f \in First..Due'
    BY <1>1, <1>3, <1>4, <2>1, <2>2
  <2>4. attempted' # {}
    BY <1>1, <1>3
  <2>5. QED
    BY <2>3, <2>4 DEF Chain
<1>7. Evidence'
  <2>1. lastAt' = lastAt + 1 /\ lastAt' - 1 = lastAt /\ risk.at \in Nat
    BY <1>1, <1>3 DEF Inv, TypeOK
  <2>2. risk'.at <= lastAt' /\ (order' # NoOrder => order'.signal \in {lastAt' - 1, lastAt'})
    BY <1>1, <1>3, <1>5, <2>1 DEF Inv, LedgerInv, Evidence, account
  <2>3. QED
    BY <1>1, <2>2 DEF Inv, LedgerInv, Evidence, account
<1>8. HighWater'
  <2>1. observed \in Nat /\ lastAt' = lastAt + 1
    BY <1>1, <1>3 DEF Inv, TypeOK
  <2>2. btc' > 0 => observed' = lastAt
    BY <1>1, <1>5 DEF account
  <2>3. QED
    BY <1>3, <2>1, <2>2 DEF HighWater
<1>9. Knows(p)'
  BY <1>1 DEF Knows, Asking, Working, Opened, Marked, Assessed
<1>10. \A q \in Proc : pc[q] # "idle" => cursor[q] \in attempted' \cup {Due'}
  BY <1>1, <1>3 DEF Inv, ProcInv, Cursors
<1>11. attempted' \subseteq First..matured /\ completed' \subseteq First..matured /\ lastAt' \in 0..matured
  BY <1>1, <1>3, <1>4 DEF Inv, TypeOK
<1>12. attempted' # {}
  BY <1>1, <1>3
<1>13. QED
  BY <1>1, <1>2, <1>6, <1>7, <1>8, <1>9, <1>10, <1>11, <1>12, ChainMove

-----------------------------------------------------------------------------
\* Within a cycle: the position, the risk decision, the orders and the stops

\* ObservePosition brings the high water up to the bar of the cycle.
LEMMA ObservePositionStep ==
    ASSUME Inv, NEW p \in Proc, ObservePosition(p)
    PROVE  Inv'
<1>1. /\ UNCHANGED <<holder, completed, attempted, account, risk, cursor, plan>> /\ UNCHANGED world
      /\ faults' = faults /\ pc[p] = "observe" /\ Goto(p, "risk") /\ pc'[p] = "risk"
      /\ plan \in [Proc -> {"none", "unsafe", "buy", "sell", "hold", "trail"} \cup Verdict]
  BY DEF ObservePosition, Goto, Inv, TypeOK
<1>2. TypeWorld' /\ matured' = matured
  BY <1>1, WorldStays DEF Inv
<1>3. ASSUME holder = p
      PROVE  Knows(p) /\ Bar(cursor[p]) = lastAt /\ lastAt \in Nat /\ (btc > 0 => observed <= lastAt)
  BY <1>1, <1>3, HolderAtDue DEF Working, Inv, LedgerInv, HighWater
<1>4. btc \in Nat /\ observed \in Nat
  BY DEF Inv, TypeOK
<1>5. CASE btc > 0 /\ observed < Bar(cursor[p])
  <2>1. holder = p /\ lastAt' = lastAt /\ observed' = lastAt
    BY <1>3, <1>5 DEF ObservePosition, Appends
  <2>2. Knows(p)'
    BY <1>1, <1>3, <2>1 DEF Knows, account, Asking, Working, Opened, Marked, Assessed
  <2>3. TypeOK'
    <3>1. Moves(p) /\ TypeLocal'
      BY <1>1, <2>1, GotoMoves DEF Inv, TypeOK, Step
    <3>2. TypeLedger'
      BY <1>1, <1>2, <1>3, <2>1 DEF Inv, TypeOK, TypeLedger, account
    <3>3. QED
      BY <1>2, <3>1, <3>2 DEF TypeOK, TypeWorld, TypeLedger, TypeLocal
  <2>4. Evidence' /\ Position' /\ SoundFills'
    BY <1>1, <2>1 DEF Inv, LedgerInv, Evidence, Position, SoundFills, account, Top
  <2>5. HighWater'
    BY <1>3, <2>1 DEF HighWater
  <2>6. Moves(p)
    BY <1>1, <2>1, GotoMoves DEF Inv, TypeOK, Step
  <2>7. QED
    BY <1>1, <1>2, <2>1, <2>2, <2>3, <2>4, <2>5, <2>6, LedgerMove DEF Working
<1>6. CASE ~(btc > 0 /\ observed < Bar(cursor[p]))
  <2>1. UNCHANGED ledger
    BY <1>1, <1>6 DEF ObservePosition, ledger
  <2>2. ASSUME holder = p PROVE Knows(p)'
    <3>1. btc > 0 => observed = lastAt
      BY <1>3, <1>4, <1>6, <2>2
    <3>2. QED
      BY <1>1, <1>3, <2>1, <2>2, <3>1 DEF Knows, ledger, account, Asking, Working, Opened, Marked, Assessed
  <2>3. QED
    BY <1>1, <1>2, <2>1, <2>2, GoesOn DEF Step
<1>7. QED
  BY <1>5, <1>6

\* RiskBase stores the base decision of the bar, once.
LEMMA RiskBaseStep ==
    ASSUME Inv, NEW p \in Proc, RiskBase(p)
    PROVE  Inv'
<1>1. /\ UNCHANGED <<holder, completed, attempted, account, observed, cursor>> /\ UNCHANGED world
      /\ faults' = faults /\ pc[p] = "risk" /\ Goto(p, "overlay") /\ pc'[p] = "overlay"
      /\ plan' = [plan EXCEPT ![p] = Overlaid(risk'.base)]
  BY DEF RiskBase, Goto, Inv, TypeOK
<1>2. TypeWorld' /\ matured' = matured
  BY <1>1, WorldStays DEF Inv
<1>3. ASSUME holder = p
      PROVE  Knows(p) /\ Bar(cursor[p]) = lastAt /\ lastAt \in Nat /\ Due \in attempted /\ Due = lastAt + 1
  BY <1>1, <1>3, HolderAtDue DEF Working
<1>4. risk' \in [at : Nat, base : Verdict, final : Verdict] /\ risk'.at = Bar(cursor[p])
  <2>1. CASE risk.at = Bar(cursor[p])
    BY <2>1 DEF RiskBase, Inv, TypeOK
  <2>2. CASE risk.at # Bar(cursor[p])
    <3>1. holder = p
      BY <2>2 DEF RiskBase, Appends
    <3>2. PICK base \in Verdict : risk' = [at |-> Bar(cursor[p]), base |-> base, final |-> base]
      BY <2>2 DEF RiskBase, Verdict
    <3>3. QED
      BY <1>3, <3>1, <3>2
  <2>3. QED
    BY <2>1, <2>2
<1>5. Overlaid(risk'.base) \in Verdict /\ (Overlaid(risk'.base) = "open" => risk'.base = "open")
  BY <1>4 DEF Overlaid, Verdict
<1>6. /\ plan' \in [Proc -> {"none", "unsafe", "buy", "sell", "hold", "trail"} \cup Verdict]
      /\ \A q \in Proc \ {p} : plan'[q] = plan[q]
      /\ plan'[p] = Overlaid(risk'.base)
  BY <1>1, <1>5 DEF Inv, TypeOK
<1>7. ASSUME holder = p, lastAt' = lastAt PROVE Knows(p)'
  BY <1>1, <1>3, <1>4, <1>5, <1>6, <1>7 DEF Knows, account, Asking, Working, Opened, Marked, Assessed
<1>8. CASE risk.at = Bar(cursor[p])
  <2>1. UNCHANGED ledger
    BY <1>1, <1>8 DEF RiskBase, ledger
  <2>2. lastAt' = lastAt
    BY <2>1 DEF ledger
  <2>3. QED
    BY <1>1, <1>2, <1>6, <1>7, <2>1, <2>2, GoesOn DEF Step
<1>9. CASE risk.at # Bar(cursor[p])
  <2>1. holder = p /\ lastAt' = lastAt
    BY <1>3, <1>9 DEF RiskBase, Appends
  <2>2. Moves(p) /\ TypeLocal'
    BY <1>1, <1>6 DEF Inv, TypeOK, Goto, Moves, TypeLocal, Step
  <2>3. TypeOK'
    <3>1. TypeLedger'
      BY <1>1, <1>2, <1>4, <2>1 DEF Inv, TypeOK, TypeLedger, account
    <3>2. QED
      BY <1>2, <2>2, <3>1 DEF TypeOK, TypeWorld, TypeLedger, TypeLocal
  <2>4. Evidence'
    <3>1. risk'.at = lastAt' /\ risk'.at + 1 \in attempted' /\ risk'.at <= lastAt'
      BY <1>1, <1>3, <1>4, <2>1
    <3>2. QED
      BY <1>1, <2>1, <3>1 DEF Inv, LedgerInv, Evidence, account
  <2>5. Position' /\ SoundFills' /\ HighWater'
    BY <1>1, <2>1 DEF Inv, LedgerInv, Position, SoundFills, HighWater, account, Top
  <2>6. QED
    BY <1>1, <1>2, <1>7, <2>1, <2>2, <2>3, <2>4, <2>5, LedgerMove DEF Working
<1>10. QED
  BY <1>8, <1>9

\* RiskOverlay stores the decision in force; the base decision stays.
LEMMA RiskOverlayStep ==
    ASSUME Inv, NEW p \in Proc, RiskOverlay(p)
    PROVE  Inv'
<1>1. /\ UNCHANGED <<holder, completed, attempted, account, observed, cursor, plan>> /\ UNCHANGED world
      /\ faults' = faults /\ pc[p] = "overlay" /\ Goto(p, "decide") /\ pc'[p] = "decide"
      /\ plan \in [Proc -> {"none", "unsafe", "buy", "sell", "hold", "trail"} \cup Verdict]
  BY DEF RiskOverlay, Goto, Inv, TypeOK
<1>2. TypeWorld' /\ matured' = matured
  BY <1>1, WorldStays DEF Inv
<1>3. ASSUME holder = p
      PROVE  /\ Knows(p) /\ Max({lastAt, Bar(cursor[p])}) = lastAt /\ lastAt \in Nat
             /\ Due \in attempted /\ Due = lastAt + 1 /\ risk.at = lastAt /\ plan[p] \in Verdict
  <2>1. pc[p] \in Working /\ pc[p] \in Assessed
    BY <1>1 DEF Working, Assessed
  <2>2. QED
    BY <1>1, <1>3, <2>1, HolderAtDue DEF Knows
<1>4. CASE risk.final = plan[p]
  <2>1. UNCHANGED ledger
    BY <1>1, <1>4 DEF RiskOverlay, ledger
  <2>2. holder = p => Knows(p)'
    BY <1>1, <1>3, <2>1 DEF Knows, ledger, account, Asking, Working, Opened, Marked, Assessed
  <2>3. QED
    BY <1>1, <1>2, <2>1, <2>2, GoesOn DEF Step
<1>5. CASE risk.final # plan[p]
  <2>1. holder = p /\ lastAt' = lastAt /\ risk' = [risk EXCEPT !.final = plan[p]]
    BY <1>3, <1>5 DEF RiskOverlay, Appends
  <2>2. /\ risk' \in [at : Nat, base : Verdict, final : Verdict]
        /\ risk'.at = lastAt /\ risk'.base = risk.base
    BY <1>3, <2>1 DEF Inv, TypeOK
  <2>3. Moves(p) /\ TypeLocal'
    BY <1>1, <2>1, GotoMoves DEF Inv, TypeOK, Step
  <2>4. TypeOK'
    <3>1. TypeLedger'
      BY <1>1, <1>2, <2>1, <2>2 DEF Inv, TypeOK, TypeLedger, account
    <3>2. QED
      BY <1>2, <2>3, <3>1 DEF TypeOK, TypeWorld, TypeLedger, TypeLocal
  <2>5. Evidence'
    <3>1. risk'.at = lastAt' /\ risk'.at + 1 \in attempted' /\ risk'.at <= lastAt'
      BY <1>1, <1>3, <2>1, <2>2
    <3>2. QED
      BY <1>1, <2>1, <3>1 DEF Inv, LedgerInv, Evidence, account
  <2>6. Position' /\ SoundFills' /\ HighWater'
    BY <1>1, <2>1 DEF Inv, LedgerInv, Position, SoundFills, HighWater, account, Top
  <2>7. Knows(p)'
    BY <1>1, <1>3, <2>1, <2>2 DEF Knows, account, Asking, Working, Opened, Marked, Assessed
  <2>8. QED
    BY <1>1, <1>2, <2>1, <2>3, <2>4, <2>5, <2>6, <2>7, LedgerMove DEF Working
<1>6. QED
  BY <1>4, <1>5

\* SubmitExit and SubmitEntry: the order belongs to this bar and fits the account.
LEMMA SubmitSteps ==
    ASSUME Inv, NEW p \in Proc, SubmitExit(p) \/ SubmitEntry(p)
    PROVE  Inv'
<1>1. /\ UNCHANGED <<holder, completed, attempted, btc, fills, stops, observed, risk, cursor, plan>>
      /\ UNCHANGED world /\ faults' = faults
      /\ holder = p /\ pc[p] = "submit" /\ Goto(p, "complete") /\ pc'[p] = "complete"
  BY DEF SubmitExit, SubmitEntry, Appends, Goto, Inv, TypeOK
<1>2. TypeWorld' /\ matured' = matured
  BY <1>1, WorldStays DEF Inv
<1>3. Knows(p) /\ Bar(cursor[p]) = lastAt /\ lastAt \in Nat /\ Due \in attempted /\ Due = lastAt + 1
  BY <1>1, HolderAtDue DEF Working
<1>4. lastAt' = lastAt
  BY <1>3 DEF SubmitExit, SubmitEntry, Appends
<1>5. /\ order' \in OrderType /\ order'.side # "none"
      /\ order'.signal = lastAt /\ order'.eligible = lastAt + 1
      /\ order'.side = "BUY" => btc = 0
      /\ order'.side = "SELL" => btc = 1
  <2>1. CASE SubmitExit(p)
    BY <1>3, <2>1 DEF SubmitExit, MarketOrder, NextBoundary, OrderType, Inv, TypeOK
  <2>2. CASE SubmitEntry(p)
    BY <1>3, <2>2 DEF SubmitEntry, MarketOrder, NextBoundary, OrderType
  <2>3. QED
    BY <2>1, <2>2
<1>6. Moves(p) /\ TypeLocal'
  BY <1>1, GotoMoves DEF Inv, TypeOK, Step
<1>7. TypeOK'
  <2>1. TypeLedger'
    BY <1>1, <1>2, <1>4, <1>5 DEF Inv, TypeOK, TypeLedger
  <2>2. QED
    BY <1>2, <1>6, <2>1 DEF TypeOK, TypeWorld, TypeLedger, TypeLocal
<1>8. Evidence'
  <2>1. /\ order'.eligible = order'.signal + 1 /\ order'.signal \in {lastAt' - 1, lastAt'}
        /\ order'.signal + 1 \in attempted'
    BY <1>1, <1>3, <1>4, <1>5
  <2>2. QED
    BY <1>1, <1>4, <1>5, <2>1 DEF Inv, LedgerInv, Evidence
<1>9. Position' /\ SoundFills' /\ HighWater'
  BY <1>1, <1>4, <1>5 DEF Inv, LedgerInv, Position, SoundFills, HighWater, Top
<1>10. Knows(p)'
  BY <1>1, <1>3, <1>4, <1>5 DEF Knows, Asking, Working, Opened, Marked, Assessed
<1>11. QED
  BY <1>1, <1>2, <1>4, <1>6, <1>7, <1>8, <1>9, <1>10, LedgerMove DEF Working

\* One more element at the end of a sequence.
LEMMA OneMore ==
    ASSUME NEW S, NEW seq \in Seq(S), NEW e \in S
    PROVE  /\ seq \o <<e>> \in Seq(S) /\ Len(seq \o <<e>>) = Len(seq) + 1 /\ Len(seq) \in Nat
           /\ \A i \in 1..Len(seq) : (seq \o <<e>>)[i] = seq[i]
           /\ (seq \o <<e>>)[Len(seq) + 1] = e
           /\ Top(seq \o <<e>>) = e /\ seq \o <<e>> # <<>>
<1>1. <<e>> \in Seq(S) /\ Len(<<e>>) = 1 /\ <<e>>[1] = e
  OBVIOUS
<1>2. Len(seq) \in Nat
  BY LenProperties
<1>3. /\ seq \o <<e>> \in Seq(S) /\ Len(seq \o <<e>>) = Len(seq) + 1
      /\ \A i \in 1..Len(seq) + 1 : (seq \o <<e>>)[i] = IF i <= Len(seq) THEN seq[i] ELSE <<e>>[i - Len(seq)]
  BY <1>1, ConcatProperties
<1>4. \A i \in 1..Len(seq) : (seq \o <<e>>)[i] = seq[i]
  BY <1>2, <1>3
<1>5. (seq \o <<e>>)[Len(seq) + 1] = e
  BY <1>1, <1>2, <1>3
<1>6. seq \o <<e>> # <<>>
  BY <1>2, <1>3, EmptySeq
<1>7. QED
  BY <1>2, <1>3, <1>4, <1>5, <1>6 DEF Top

\* A fill that follows from the last one keeps the fills sound.
LEMMA OneMoreFill ==
    ASSUME NEW seq \in Seq(FillType), Sound(seq), NEW f \in FillType,
           f.kind = "MARKET" => f.at = f.signal + 1,
           f.kind = "TRAILING_STOP" => f.signal < f.at,
           f.kind = "HARD_STOP" => seq # <<>> /\ f.signal = Top(seq).at,
           f.side = IF Len(seq) % 2 = 0 THEN "BUY" ELSE "SELL",
           seq # <<>> => Top(seq).at <= f.at
    PROVE  Sound(seq \o <<f>>)
<1> DEFINE new == seq \o <<f>>
           n == Len(seq)
<1>1. /\ Len(new) = n + 1 /\ n \in Nat /\ new[n + 1] = f
      /\ \A i \in 1..n : new[i] = seq[i]
  BY OneMore
<1>2. seq # <<>> => n > 0 /\ new[n] = Top(seq)
  BY <1>1, EmptySeq DEF Top
<1>3. n = 0 => seq = <<>>
  BY EmptySeq
<1>4. ASSUME NEW i \in 1..n
      PROVE  /\ new[i].kind = "MARKET" => new[i].at = new[i].signal + 1
             /\ new[i].kind = "TRAILING_STOP" => new[i].signal < new[i].at
             /\ new[i].kind = "HARD_STOP" => i > 1 /\ new[i].signal = new[i - 1].at
             /\ new[i].side = IF i % 2 = 1 THEN "BUY" ELSE "SELL"
             /\ i > 1 => new[i - 1].at <= new[i].at
  <2>1. new[i] = seq[i]
    BY <1>1
  <2>2. CASE i = 1
    BY <2>1, <2>2 DEF Sound
  <2>3. CASE i # 1
    <3>1. new[i - 1] = seq[i - 1]
      BY <1>1, <2>3
    <3>2. QED
      BY <2>1, <3>1 DEF Sound
  <2>4. QED
    BY <2>2, <2>3
<1>5. /\ new[n + 1].kind = "MARKET" => new[n + 1].at = new[n + 1].signal + 1
      /\ new[n + 1].kind = "TRAILING_STOP" => new[n + 1].signal < new[n + 1].at
      /\ new[n + 1].kind = "HARD_STOP" => n + 1 > 1 /\ new[n + 1].signal = new[n].at
      /\ new[n + 1].side = IF (n + 1) % 2 = 1 THEN "BUY" ELSE "SELL"
      /\ n + 1 > 1 => new[n].at <= new[n + 1].at
  <2>1. (n + 1) % 2 = 1 <=> n % 2 = 0
    BY <1>1
  <2>2. QED
    BY <1>1, <1>2, <1>3, <2>1
<1>6. QED
  <2>1. ASSUME NEW i \in 1..Len(new) PROVE i \in 1..n \/ i = n + 1
    BY <1>1
  <2>2. (n + 1) - 1 = n
    BY <1>1
  <2>3. QED
    BY <1>4, <1>5, <2>1, <2>2 DEF Sound

\* RaiseStop appends a tighter trailing stop, active from the next bar, or nothing.
LEMMA RaiseStopStep ==
    ASSUME Inv, NEW p \in Proc, RaiseStop(p)
    PROVE  Inv'
<1> DEFINE stop == TrailingStop(Bar(cursor[p]))
<1>1. /\ UNCHANGED <<holder, completed, attempted, order, btc, fills, observed, risk, cursor, plan>>
      /\ UNCHANGED world /\ faults' = faults
      /\ pc[p] = "submit" /\ plan[p] = "trail" /\ Goto(p, "complete") /\ pc'[p] = "complete"
      /\ plan \in [Proc -> {"none", "unsafe", "buy", "sell", "hold", "trail"} \cup Verdict]
  BY DEF RaiseStop, Goto, Inv, TypeOK
<1>2. TypeWorld' /\ matured' = matured
  BY <1>1, WorldStays DEF Inv
<1>3. ASSUME holder = p
      PROVE  /\ Knows(p) /\ Bar(cursor[p]) = lastAt /\ lastAt \in Nat /\ Due \in attempted
             /\ Due = lastAt + 1 /\ btc > 0 /\ stops # <<>>
  <2>1. Knows(p) /\ Bar(cursor[p]) = lastAt /\ lastAt \in Nat /\ Due \in attempted /\ Due = lastAt + 1
    BY <1>1, <1>3, HolderAtDue DEF Working
  <2>2. btc > 0
    BY <1>1, <2>1 DEF Knows, PlanFits
  <2>3. QED
    BY <2>1, <2>2 DEF Inv, LedgerInv, Position
<1>4. CASE UNCHANGED <<stops, lastAt>>
  <2>1. UNCHANGED ledger
    BY <1>1, <1>4 DEF ledger, account
  <2>2. holder = p => Knows(p)'
    BY <1>1, <1>3, <2>1 DEF Knows, ledger, account, Asking, Working, Opened, Marked, Assessed
  <2>3. QED
    BY <1>1, <1>2, <2>1, <2>2, GoesOn DEF Step
<1>5. CASE NewStop(Bar(cursor[p])) # <<>>
  <2>1. holder = p /\ lastAt' = lastAt /\ stops' = stops \o <<stop>>
    BY <1>3, <1>5 DEF RaiseStop, Appends, NewStop
  <2>2. stop \in StopType /\ stop.observed = lastAt /\ stop.active = lastAt + 1 /\ stop.reason = "TRAILING_STOP"
    <3>1. candle.trail \in Nat
      <4>1. candle = NoCandle \/ \E end \in First..matured : candle \in Candle(end)
        BY DEF Inv, TypeOK
      <4>2. QED
        BY <4>1, CycleAssumption DEF NoCandle, Candle
    <3>2. QED
      BY <1>3, <2>1, <3>1 DEF TrailingStop, NextBoundary, StopType
  <2>3. /\ stops' \in Seq(StopType) /\ stops' # <<>> /\ Len(stops') = Len(stops) + 1 /\ Len(stops) \in Nat
        /\ \A k \in 1..Len(stops) : stops'[k] = stops[k]
        /\ stops'[Len(stops) + 1] = stop
    BY <2>1, <2>2, OneMore DEF Inv, TypeOK
  <2>4. \A k \in 1..Len(stops') : k \in 1..Len(stops) \/ k = Len(stops) + 1
    BY <2>3
  <2>5. Moves(p) /\ TypeLocal'
    BY <1>1, <2>1, GotoMoves DEF Inv, TypeOK, Step
  <2>6. TypeOK'
    <3>1. TypeLedger'
      BY <1>1, <1>2, <2>1, <2>3 DEF Inv, TypeOK, TypeLedger
    <3>2. QED
      BY <1>2, <2>5, <3>1 DEF TypeOK, TypeWorld, TypeLedger, TypeLocal
  <2>7. Evidence'
    <3>1. \A k \in 1..Len(stops') : stops'[k].observed + 1 \in attempted
      <4>1. \A k \in 1..Len(stops) : stops[k].observed + 1 \in attempted
        BY DEF Inv, LedgerInv, Evidence
      <4>2. QED
        BY <1>3, <2>1, <2>2, <2>3, <2>4, <4>1
    <3>2. QED
      BY <1>1, <2>1, <3>1 DEF Inv, LedgerInv, Evidence
  <2>8. Position'
    <3>1. Len(stops) > 0
      BY <1>3, <2>1, EmptySeq DEF Inv, TypeOK
    <3>2. \A k \in 1..Len(stops) :
             IF k = 1 THEN /\ stops[k].reason = "HARD_STOP" /\ stops[k].active = stops[k].observed
                           /\ stops[k].observed = Top(fills).at
                      ELSE stops[k].reason = "TRAILING_STOP" /\ stops[k].active = stops[k].observed + 1
      BY DEF Inv, LedgerInv, Position
    <3>3. \A k \in 1..Len(stops') :
             IF k = 1 THEN /\ stops'[k].reason = "HARD_STOP" /\ stops'[k].active = stops'[k].observed
                           /\ stops'[k].observed = Top(fills).at
                      ELSE stops'[k].reason = "TRAILING_STOP" /\ stops'[k].active = stops'[k].observed + 1
      BY <2>2, <2>3, <2>4, <3>1, <3>2
    <3>4. Top(fills)' = Top(fills)
      BY <1>1 DEF Top
    <3>5. QED
      BY <1>1, <1>3, <2>1, <2>3, <3>3, <3>4 DEF Inv, LedgerInv, Position, TypeOK
  <2>9. SoundFills' /\ HighWater'
    BY <1>1, <2>1 DEF Inv, LedgerInv, SoundFills, HighWater, Top
  <2>10. Knows(p)'
    BY <1>1, <1>3, <2>1 DEF Knows, Asking, Working, Opened, Marked, Assessed
  <2>11. QED
    BY <1>1, <1>2, <2>1, <2>5, <2>6, <2>7, <2>8, <2>9, <2>10, LedgerMove DEF Working
<1>6. QED
  BY <1>4, <1>5 DEF RaiseStop

-----------------------------------------------------------------------------
\* The first transaction of a cycle

\* A stop that counts on this bar is one of the open stops and was active by then.
LEMMA EffectiveIsOpen ==
    ASSUME NEW seq \in Seq(StopType), NEW bar \in Nat, EligibleStops(seq, bar) # {}
    PROVE  \E k \in 1..Len(seq) : Effective(seq, bar) = seq[k] /\ seq[k].active <= bar
<1> DEFINE S == EligibleStops(seq, bar)
<1>1. S \subseteq 1..Len(seq) /\ Len(seq) \in Nat /\ \A k \in S : seq[k].active <= bar
  BY LenProperties DEF EligibleStops
<1>2. PICK m \in S : \A k \in S : m >= k
  <2>1. S \in SUBSET Nat /\ S # {} /\ \A k \in S : k <= Len(seq)
    BY <1>1
  <2>2. QED
    BY <1>1, <2>1, MaxExists
<1>3. Max(S) = m
  <2>1. S \in SUBSET Int
    BY <1>1
  <2>2. QED
    BY <1>2, <2>1, MaxIs
<1>4. QED
  BY <1>1, <1>2, <1>3 DEF Effective

\* What process_open, _ensure_stop and process_intrabar_stop can leave of the account.
Market(side) == Fill(side, "MARKET", order.signal, lastAt)
FirstStop == HardStop(lastAt, lastAt)

Bought ==
    /\ order.side = "BUY" /\ order.signal + 1 = lastAt /\ order' = NoOrder
    /\ btc = 0 /\ btc' = 1 /\ stops' = <<FirstStop>>
    /\ fills' = fills \o <<Market("BUY")>> /\ observed' = NoBar
BoughtAndStopped ==
    /\ order.side = "BUY" /\ order.signal + 1 = lastAt /\ order' = NoOrder
    /\ btc = 0 /\ btc' = 0 /\ stops' = <<>>
    /\ fills' = (fills \o <<Market("BUY")>>) \o <<StopFill(FirstStop, lastAt)>> /\ observed' = NoBar
Sold ==
    /\ order.side = "SELL" /\ order.signal + 1 = lastAt /\ order' = NoOrder
    /\ btc = 1 /\ btc' = 0 /\ stops' = <<>>
    /\ fills' = fills \o <<Market("SELL")>> /\ observed' = observed
Stopped ==
    /\ order = NoOrder /\ order' = NoOrder
    /\ btc = 1 /\ btc' = 0 /\ stops' = <<>> /\ observed' = observed
    /\ \E k \in 1..Len(stops) : stops[k].active <= lastAt /\ fills' = fills \o <<StopFill(stops[k], lastAt)>>
Untouched ==
    /\ order' \in {order, NoOrder} /\ (order' # NoOrder => order.signal = lastAt)
    /\ UNCHANGED <<btc, stops, fills, observed>>

\* OpenBar of the holder leaves one of them.
LEMMA OpenOutcomes ==
    ASSUME Inv, NEW p \in Proc, OpenBar(p)
    PROVE  Bought \/ BoughtAndStopped \/ Sold \/ Stopped \/ Untouched
<1> DEFINE bar == Bar(cursor[p])
           due == order # NoOrder /\ order.eligible = bar
           bought == due /\ order.side = "BUY" /\ candle.buy
           sold == due /\ order.side = "SELL"
           owned == CASE bought -> btc + 1 [] sold -> btc - 1 [] OTHER -> btc
           pending == IF due THEN NoOrder ELSE order
           kept == IF sold THEN <<>> ELSE stops
           free == owned > 0 /\ pending = NoOrder
           open == IF free /\ kept = <<>>
                   THEN <<HardStop(bar, IF bought THEN bar ELSE NextBoundary(bar))>>
                   ELSE kept
           hit == free /\ Hit(open, bar)
           traded == IF bought \/ sold THEN <<Fill(order.side, "MARKET", order.signal, bar)>> ELSE <<>>
           stopped == IF hit THEN <<StopFill(Effective(open, bar), bar)>> ELSE <<>>
<1>1. /\ holder = p /\ pc[p] = "open"
      /\ order # NoOrder => order.eligible >= bar
      /\ order' = pending
      /\ btc' = IF hit THEN owned - 1 ELSE owned
      /\ stops' = IF hit THEN <<>> ELSE open
      /\ fills' = (fills \o traded) \o stopped
      /\ observed' = IF bought THEN NoBar ELSE observed
  BY DEF OpenBar, Appends
<1>2. bar = lastAt /\ lastAt \in Nat
  BY <1>1, HolderAtDue DEF Working
<1>3. /\ order \in OrderType /\ btc \in 0..1 /\ fills \in Seq(FillType) /\ stops \in Seq(StopType)
      /\ order # NoOrder => order.side \in {"BUY", "SELL"} /\ order.eligible = order.signal + 1
                            /\ order.signal \in {lastAt - 1, lastAt}
      /\ order.side = "BUY" => btc = 0
      /\ order.side = "SELL" => btc = 1
      /\ btc = 0 <=> stops = <<>>
  BY DEF Inv, TypeOK, LedgerInv, Evidence, Position, OrderType
<1>4. NoOrder.side = "none" /\ order.signal \in Nat
  BY <1>3 DEF NoOrder, OrderType
<1>5. traded \in {<<Market(order.side)>>, <<>>}
  BY <1>2 DEF Market
<1>6. ASSUME NEW seq \in Seq(FillType) PROVE seq \o <<>> = seq
  BY ConcatEmptySeq
<1> HIDE DEF hit, stopped, open, free, kept, pending, owned
<1>7. CASE bought
  <2>1. due /\ ~sold /\ order.signal + 1 = lastAt /\ btc = 0 /\ stops = <<>>
    BY <1>2, <1>3, <1>7
  <2>2. owned = 1 /\ pending = NoOrder /\ kept = <<>>
    BY <1>7, <2>1 DEF owned, pending, kept
  <2>3. free
    BY <2>2 DEF free
  <2>4. open = <<FirstStop>>
    BY <1>2, <1>7, <2>2, <2>3 DEF open, FirstStop
  <2>5. traded = <<Market("BUY")>> /\ order.side = "BUY"
    BY <1>2, <1>7 DEF Market
  <2>6. CASE hit
    <3>1. EligibleStops(open, lastAt) # {}
      BY <1>2, <2>6 DEF hit, Hit
    <3>2. FirstStop \in StopType
      BY <1>2 DEF FirstStop, HardStop, StopType
    <3>3. <<FirstStop>> \in Seq(StopType) /\ Len(<<FirstStop>>) = 1 /\ <<FirstStop>>[1] = FirstStop
      BY <3>2
    <3>4. PICK k \in 1..Len(<<FirstStop>>) : Effective(<<FirstStop>>, lastAt) = <<FirstStop>>[k]
      BY <1>2, <2>4, <3>1, <3>3, EffectiveIsOpen
    <3>5. Effective(open, bar) = FirstStop
      <4>1. k = 1
        BY <3>3, <3>4
      <4>2. QED
        BY <1>2, <2>4, <3>3, <3>4, <4>1
    <3>6. stopped = <<StopFill(FirstStop, lastAt)>>
      BY <1>2, <2>6, <3>5 DEF stopped
    <3>7. BoughtAndStopped
      BY <1>1, <1>7, <2>1, <2>2, <2>5, <2>6, <3>6 DEF BoughtAndStopped
    <3>8. QED
      BY <3>7
  <2>7. CASE ~hit
    <3>1. stopped = <<>>
      BY <2>7 DEF stopped
    <3>2. Market("BUY") \in FillType
      BY <1>2, <1>4 DEF Market, Fill, FillType
    <3>3. fills \o traded \in Seq(FillType)
      BY <1>3, <2>5, <3>2, OneMore
    <3>4. fills' = fills \o <<Market("BUY")>>
      BY <1>1, <1>6, <2>5, <3>1, <3>3
    <3>5. Bought
      BY <1>1, <1>7, <2>1, <2>2, <2>4, <2>5, <2>7, <3>4 DEF Bought
    <3>6. QED
      BY <3>5
  <2>8. QED
    BY <2>6, <2>7
<1>8. CASE sold
  <2>1. due /\ ~bought /\ order.signal + 1 = lastAt /\ btc = 1 /\ order.side = "SELL"
    BY <1>2, <1>3, <1>8
  <2>2. owned = 0 /\ pending = NoOrder /\ kept = <<>>
    BY <1>8, <2>1 DEF owned, pending, kept
  <2>3. ~free /\ ~hit /\ open = <<>> /\ stopped = <<>>
    BY <2>2 DEF free, hit, open, stopped
  <2>4. traded = <<Market("SELL")>> /\ Market("SELL") \in FillType
    BY <1>2, <1>4, <1>8 DEF Market, Fill, FillType
  <2>5. fills \o traded \in Seq(FillType)
    BY <1>3, <2>4, OneMore
  <2>6. fills' = fills \o <<Market("SELL")>>
    BY <1>1, <1>6, <2>3, <2>4, <2>5
  <2>7. Sold
    BY <1>1, <2>1, <2>2, <2>3, <2>6 DEF Sold
  <2>8. QED
    BY <2>7
<1>9. CASE ~bought /\ ~sold
  <2>1. traded = <<>> /\ owned = btc /\ kept = stops /\ fills \o traded = fills
    BY <1>3, <1>6, <1>9 DEF owned, kept
  <2>2. pending # NoOrder => order.signal = lastAt
    BY <1>1, <1>2, <1>3 DEF pending
  <2>3. due => btc = 0
    BY <1>3, <1>9
  <2>4. open = stops
    <3>1. CASE free
      BY <1>3, <2>1, <3>1 DEF free, open
    <3>2. CASE ~free
      BY <2>1, <3>2 DEF open
    <3>3. QED
      BY <3>1, <3>2
  <2>5. CASE hit
    <3>1. free /\ EligibleStops(stops, lastAt) # {}
      BY <1>2, <2>4, <2>5 DEF hit, Hit
    <3>2. btc = 1 /\ order = NoOrder /\ pending = NoOrder
      BY <1>3, <2>1, <2>3, <3>1 DEF free, pending
    <3>3. PICK k \in 1..Len(stops) : Effective(stops, lastAt) = stops[k] /\ stops[k].active <= lastAt
      BY <1>2, <1>3, <3>1, EffectiveIsOpen
    <3>4. stopped = <<StopFill(stops[k], lastAt)>>
      BY <1>2, <2>4, <2>5, <3>3 DEF stopped
    <3>5. Stopped
      BY <1>1, <1>9, <2>1, <2>5, <3>2, <3>3, <3>4 DEF Stopped
    <3>6. QED
      BY <3>5
  <2>6. CASE ~hit
    <3>1. stopped = <<>>
      BY <2>6 DEF stopped
    <3>2. order' \in {order, NoOrder}
      BY <1>1 DEF pending
    <3>3. fills' = fills
      BY <1>1, <1>3, <1>6, <2>1, <3>1
    <3>4. Untouched
      BY <1>1, <1>9, <2>1, <2>2, <2>4, <2>6, <3>2, <3>3 DEF Untouched
    <3>5. QED
      BY <3>4
  <2>7. QED
    BY <2>5, <2>6
<1>10. QED
  BY <1>7, <1>8, <1>9

\* Every fill belongs to an attempted cycle.
FillsAttempted(seq) == \A i \in 1..Len(seq) : seq[i].at + 1 \in attempted

\* A fill in an attempted cycle keeps that.
LEMMA OneMoreAttempted ==
    ASSUME NEW seq \in Seq(FillType), FillsAttempted(seq), NEW f \in FillType, f.at + 1 \in attempted
    PROVE  FillsAttempted(seq \o <<f>>)
<1>1. /\ Len(seq \o <<f>>) = Len(seq) + 1 /\ Len(seq) \in Nat /\ (seq \o <<f>>)[Len(seq) + 1] = f
      /\ \A i \in 1..Len(seq) : (seq \o <<f>>)[i] = seq[i]
  BY OneMore
<1>2. \A i \in 1..Len(seq \o <<f>>) : i \in 1..Len(seq) \/ i = Len(seq) + 1
  BY <1>1
<1>3. QED
  BY <1>1, <1>2 DEF FillsAttempted

\* What the first transaction has to establish about the account it leaves.
LEMMA AccountMove ==
    ASSUME Inv, NEW p \in Proc, OpenBar(p),
           order' \in OrderType, order' # NoOrder => order' = order /\ order.signal = lastAt,
           btc' \in 0..1, fills' \in Seq(FillType), stops' \in Seq(StopType), observed' \in Nat,
           FillsAttempted(fills'), \A k \in 1..Len(stops') : stops'[k].observed + 1 \in attempted,
           Position', Sound(fills'), HighWater'
    PROVE  Inv'
<1>1. /\ UNCHANGED <<holder, completed, attempted, risk, cursor, plan>> /\ UNCHANGED world
      /\ faults' = faults /\ holder = p /\ pc[p] = "open" /\ Goto(p, "observe") /\ pc'[p] = "observe"
      /\ lastAt' = Bar(cursor[p])
  BY DEF OpenBar, Appends, Goto, Inv, TypeOK
<1>2. TypeWorld' /\ matured' = matured
  BY <1>1, WorldStays DEF Inv
<1>3. Knows(p) /\ lastAt' = lastAt
  BY <1>1, HolderAtDue DEF Working
<1>4. Moves(p) /\ TypeLocal'
  BY <1>1, GotoMoves DEF Inv, TypeOK, Step
<1>5. TypeOK'
  <2>1. TypeLedger'
    BY <1>1, <1>2, <1>3 DEF Inv, TypeOK, TypeLedger
  <2>2. QED
    BY <1>2, <1>4, <2>1 DEF TypeOK, TypeWorld, TypeLedger, TypeLocal
<1>6. Evidence'
  <2>1. order' # NoOrder =>
          /\ order'.side # "none" /\ order'.eligible = order'.signal + 1
          /\ order'.signal \in {lastAt' - 1, lastAt'} /\ order'.signal + 1 \in attempted'
    BY <1>1, <1>3 DEF Inv, LedgerInv, Evidence
  <2>2. \A i \in 1..Len(fills') : fills'[i].at + 1 \in attempted'
    BY <1>1 DEF FillsAttempted
  <2>3. \A k \in 1..Len(stops') : stops'[k].observed + 1 \in attempted'
    BY <1>1
  <2>4. (risk' = NoRisk \/ risk'.at + 1 \in attempted') /\ risk'.at <= lastAt'
    BY <1>1, <1>3 DEF Inv, LedgerInv, Evidence
  <2>5. QED
    BY <2>1, <2>2, <2>3, <2>4 DEF Evidence
<1>7. SoundFills'
  BY DEF SoundFills
<1>8. Knows(p)'
  BY <1>1, <1>3 DEF Knows, Asking, Working, Opened, Marked, Assessed
<1>9. QED
  BY <1>1, <1>2, <1>3, <1>4, <1>5, <1>6, <1>7, <1>8, LedgerMove DEF Working

\* OpenBar fills at the open, sets the first stop, and executes a stop that was hit.
LEMMA OpenBarStep ==
    ASSUME Inv, NEW p \in Proc, OpenBar(p)
    PROVE  Inv'
<1>1. Bought \/ BoughtAndStopped \/ Sold \/ Stopped \/ Untouched
  BY OpenOutcomes
<1>2. /\ Due \in attempted /\ Due = lastAt + 1 /\ lastAt \in Nat
      /\ completed' = completed /\ lastAt' = lastAt
  <2>1. holder = p /\ pc[p] \in Working /\ lastAt' = Bar(cursor[p]) /\ completed' = completed
    BY DEF OpenBar, Appends, Working
  <2>2. QED
    BY <2>1, HolderAtDue
<1>3. /\ order \in OrderType /\ btc \in 0..1 /\ fills \in Seq(FillType) /\ stops \in Seq(StopType)
      /\ observed \in Nat /\ order.signal \in Nat /\ NoOrder \in OrderType /\ NoOrder.side = "none"
      /\ NoBar \in Nat
  BY DEF Inv, TypeOK, OrderType, NoOrder, NoBar
<1>4. /\ Position /\ Sound(fills) /\ HighWater /\ FillsAttempted(fills)
      /\ \A k \in 1..Len(stops) : stops[k].observed + 1 \in attempted
  BY DEF Inv, LedgerInv, Evidence, FillsAttempted, SoundFills
<1>5. Len(fills) \in Nat /\ (fills # <<>> => Top(fills).at \in Nat /\ Top(fills).at <= lastAt)
  <2>1. Len(fills) \in Nat /\ (fills # <<>> => Len(fills) \in 1..Len(fills))
    BY <1>3, EmptySeq, LenProperties
  <2>2. ASSUME fills # <<>> PROVE Top(fills).at \in Nat /\ Top(fills).at <= lastAt
    <3>1. Top(fills) \in FillType
      BY <1>3, <2>1, <2>2, ElementOfSeq DEF Top
    <3>2. Top(fills).at \in Nat
      BY <3>1 DEF FillType
    <3>3. Top(fills).at + 1 \in attempted
      BY <1>4, <2>1, <2>2 DEF FillsAttempted, Top
    <3>4. Top(fills).at + 1 <= Due
      BY <1>2, <3>3, ChainFacts DEF Inv, LedgerInv
    <3>5. QED
      BY <1>2, <3>2, <3>4
  <2>3. QED
    BY <2>1, <2>2
<1>6. ASSUME order # NoOrder, order.signal + 1 = lastAt PROVE completed # {}
  <2>1. lastAt \in attempted
    BY <1>6 DEF Inv, LedgerInv, Evidence
  <2>2. QED
    BY <1>2, <2>1, ChainFacts DEF Inv, LedgerInv
<1>7. \A side \in {"BUY", "SELL"} :
         /\ Market(side) \in FillType /\ Market(side).side = side /\ Market(side).kind = "MARKET"
         /\ Market(side).at = lastAt /\ Market(side).signal = order.signal
  BY <1>2, <1>3 DEF Market, Fill, FillType
<1>8. ASSUME NEW stop \in StopType
      PROVE  /\ StopFill(stop, lastAt) \in FillType /\ StopFill(stop, lastAt).side = "SELL"
             /\ StopFill(stop, lastAt).kind = stop.reason /\ StopFill(stop, lastAt).at = lastAt
             /\ StopFill(stop, lastAt).signal = stop.observed
  BY <1>2 DEF StopFill, Fill, FillType, StopType
<1>9. /\ FirstStop \in StopType /\ FirstStop.reason = "HARD_STOP"
      /\ FirstStop.observed = lastAt /\ FirstStop.active = lastAt
  BY <1>2 DEF FirstStop, HardStop, StopType
<1>10. Len(<<>>) = 0 /\ <<>> \in Seq(StopType)
  BY EmptySeq
<1>11. ASSUME order.side = "BUY", order.signal + 1 = lastAt, btc = 0
       PROVE  LET f == Market("BUY") IN
              /\ Sound(fills \o <<f>>) /\ FillsAttempted(fills \o <<f>>) /\ completed # {}
              /\ fills \o <<f>> \in Seq(FillType) /\ Len(fills \o <<f>>) % 2 = 1
              /\ fills \o <<f>> # <<>> /\ Top(fills \o <<f>>) = f /\ Len(fills \o <<f>>) \in Nat
  <2> DEFINE f == Market("BUY")
  <2>1. Len(fills) % 2 = 0
    BY <1>4, <1>11 DEF Position
  <2>2. f \in FillType /\ f.side = "BUY" /\ f.kind = "MARKET" /\ f.at = lastAt /\ f.signal = order.signal
    BY <1>7
  <2> HIDE DEF f
  <2>3. Sound(fills \o <<f>>)
    BY <1>3, <1>4, <1>5, <1>11, <2>1, <2>2, OneMoreFill
  <2>4. FillsAttempted(fills \o <<f>>)
    BY <1>2, <1>3, <1>4, <2>2, OneMoreAttempted
  <2>5. /\ fills \o <<f>> \in Seq(FillType) /\ Len(fills \o <<f>>) = Len(fills) + 1
        /\ fills \o <<f>> # <<>> /\ Top(fills \o <<f>>) = f
    BY <1>3, <2>2, OneMore
  <2>6. Len(fills \o <<f>>) % 2 = 1
    BY <1>5, <2>1, <2>5
  <2>7. completed # {}
    BY <1>3, <1>6, <1>11
  <2>8. QED
    BY <1>5, <2>3, <2>4, <2>5, <2>6, <2>7 DEF f
<1>12. CASE Bought
  <2> DEFINE f == Market("BUY")
  <2>1. /\ fills' = fills \o <<f>> /\ order' = NoOrder /\ btc' = 1 /\ observed' = NoBar
        /\ stops' = <<FirstStop>>
    BY <1>12 DEF Bought
  <2>2. /\ Sound(fills') /\ FillsAttempted(fills') /\ fills' \in Seq(FillType)
        /\ Len(fills') % 2 = 1 /\ fills' # <<>> /\ Top(fills') = f /\ f.at = lastAt /\ completed # {}
    BY <1>7, <1>11, <1>12 DEF Bought
  <2>3. /\ stops' \in Seq(StopType) /\ Len(stops') = 1 /\ stops'[1] = FirstStop /\ stops' # <<>>
    BY <1>9, <2>1
  <2>4. Position'
    <3>1. \A k \in 1..Len(stops') : k = 1
      BY <2>3
    <3>2. Top(fills)' = f
      BY <2>2 DEF Top
    <3>3. QED
      BY <1>2, <1>3, <1>9, <2>1, <2>2, <2>3, <3>1, <3>2 DEF Position
  <2>5. HighWater'
    <3>1. Top(fills)' = f
      BY <2>2 DEF Top
    <3>2. QED
      BY <1>2, <2>1, <2>2, <3>1 DEF HighWater, NoBar
  <2>6. \A k \in 1..Len(stops') : stops'[k].observed + 1 \in attempted
    BY <1>2, <1>9, <2>3
  <2>7. QED
    BY <1>3, <2>1, <2>2, <2>3, <2>4, <2>5, <2>6, AccountMove
<1>13. CASE BoughtAndStopped
  <2> DEFINE f == Market("BUY")
             mid == fills \o <<f>>
             g == StopFill(FirstStop, lastAt)
  <2>1. /\ fills' = mid \o <<g>> /\ order' = NoOrder /\ btc' = 0 /\ observed' = NoBar /\ stops' = <<>>
    BY <1>13 DEF BoughtAndStopped
  <2>2. /\ Sound(mid) /\ FillsAttempted(mid) /\ mid \in Seq(FillType) /\ Len(mid) \in Nat
        /\ Len(mid) % 2 = 1 /\ mid # <<>> /\ Top(mid).at = lastAt /\ completed # {}
    BY <1>7, <1>11, <1>13 DEF BoughtAndStopped
  <2>3. g \in FillType /\ g.side = "SELL" /\ g.kind = "HARD_STOP" /\ g.at = lastAt /\ g.signal = lastAt
    BY <1>8, <1>9
  <2> HIDE DEF mid, g
  <2>4. Sound(fills') /\ FillsAttempted(fills')
    BY <1>2, <2>1, <2>2, <2>3, OneMoreFill, OneMoreAttempted
  <2>5. fills' \in Seq(FillType) /\ Len(fills') = Len(mid) + 1
    BY <2>1, <2>2, <2>3, OneMore
  <2>6. Len(fills') % 2 = 0
    BY <2>2, <2>5
  <2>7. Position'
    BY <1>2, <1>3, <1>10, <2>1, <2>2, <2>6 DEF Position
  <2>8. HighWater'
    BY <2>1 DEF HighWater
  <2>9. QED
    BY <1>3, <1>10, <2>1, <2>4, <2>5, <2>7, <2>8, AccountMove
<1>14. CASE Sold
  <2> DEFINE f == Market("SELL")
  <2>1. /\ fills' = fills \o <<f>> /\ order' = NoOrder /\ btc' = 0 /\ observed' = observed /\ stops' = <<>>
        /\ order.side = "SELL" /\ order.signal + 1 = lastAt /\ btc = 1
    BY <1>14 DEF Sold
  <2>2. f \in FillType /\ f.side = "SELL" /\ f.kind = "MARKET" /\ f.at = lastAt /\ f.signal = order.signal
    BY <1>7
  <2>3. Len(fills) % 2 = 1 /\ completed # {}
    BY <1>3, <1>4, <1>6, <2>1 DEF Position
  <2> HIDE DEF f
  <2>4. Sound(fills') /\ FillsAttempted(fills')
    <3>1. /\ f.at = f.signal + 1 /\ f.kind # "TRAILING_STOP" /\ f.kind # "HARD_STOP"
          /\ f.side = IF Len(fills) % 2 = 0 THEN "BUY" ELSE "SELL"
          /\ fills # <<>> => Top(fills).at <= f.at
      BY <1>5, <2>1, <2>2, <2>3
    <3>2. Sound(fills \o <<f>>)
      BY <1>3, <1>4, <2>2, <3>1, OneMoreFill
    <3>3. FillsAttempted(fills \o <<f>>)
      BY <1>2, <1>3, <1>4, <2>2, OneMoreAttempted
    <3>4. QED
      BY <2>1, <3>2, <3>3
  <2>5. fills' \in Seq(FillType) /\ Len(fills') = Len(fills) + 1
    BY <1>3, <2>1, <2>2, OneMore
  <2>6. Len(fills') % 2 = 0
    BY <1>5, <2>3, <2>5
  <2>7. Position'
    BY <1>2, <1>3, <1>10, <2>1, <2>3, <2>6 DEF Position
  <2>8. HighWater'
    BY <2>1 DEF HighWater
  <2>9. QED
    BY <1>3, <1>10, <2>1, <2>4, <2>5, <2>7, <2>8, AccountMove
<1>15. CASE Stopped
  <2>1. PICK k \in 1..Len(stops) : stops[k].active <= lastAt /\ fills' = fills \o <<StopFill(stops[k], lastAt)>>
    BY <1>15 DEF Stopped
  <2> DEFINE stop == stops[k]
             g == StopFill(stop, lastAt)
  <2>2. order' = NoOrder /\ btc' = 0 /\ observed' = observed /\ stops' = <<>> /\ btc = 1
    BY <1>15 DEF Stopped
  <2>3. stop \in StopType
    BY <1>3, ElementOfSeq
  <2>4. g \in FillType /\ g.side = "SELL" /\ g.kind = stop.reason /\ g.at = lastAt /\ g.signal = stop.observed
    BY <1>8, <2>3
  <2>5. Len(fills) % 2 = 1 /\ fills # <<>> /\ completed # {}
    <3>1. Len(fills) % 2 = 1
      BY <1>4, <2>2 DEF Position
    <3>2. fills # <<>>
      BY <3>1, EmptySeq
    <3>3. QED
      BY <1>4, <3>1, <3>2 DEF Position
  <2>6. \/ stop.reason = "HARD_STOP" /\ stop.observed = Top(fills).at
        \/ stop.reason = "TRAILING_STOP" /\ stop.observed < lastAt
    <3>1. stop.observed \in Nat /\ stop.active <= lastAt
      BY <2>1, <2>3 DEF StopType
    <3>2. IF k = 1 THEN stop.reason = "HARD_STOP" /\ stop.observed = Top(fills).at
                   ELSE stop.reason = "TRAILING_STOP" /\ stop.active = stop.observed + 1
      BY <1>4 DEF Position
    <3>3. QED
      BY <1>2, <3>1, <3>2
  <2>7. fills' = fills \o <<g>>
    BY <2>1
  <2> HIDE DEF g, stop
  <2>8. Sound(fills') /\ FillsAttempted(fills')
    BY <1>2, <1>3, <1>4, <1>5, <2>4, <2>5, <2>6, <2>7, OneMoreFill, OneMoreAttempted
  <2>9. fills' \in Seq(FillType) /\ Len(fills') = Len(fills) + 1
    BY <1>3, <2>4, <2>7, OneMore
  <2>10. Len(fills') % 2 = 0
    BY <1>5, <2>5, <2>9
  <2>11. Position'
    BY <1>2, <1>3, <1>10, <2>2, <2>5, <2>10 DEF Position
  <2>12. HighWater'
    BY <2>2 DEF HighWater
  <2>13. QED
    BY <1>3, <1>10, <2>2, <2>8, <2>9, <2>11, <2>12, AccountMove
<1>16. CASE Untouched
  <2>1. /\ order' \in {order, NoOrder} /\ (order' # NoOrder => order.signal = lastAt)
        /\ UNCHANGED <<btc, stops, fills, observed>>
    BY <1>16 DEF Untouched
  <2>2. Position'
    BY <1>2, <1>3, <1>4, <2>1 DEF Position, Top
  <2>3. HighWater'
    BY <1>2, <1>4, <2>1 DEF HighWater, Top
  <2>4. QED
    BY <1>3, <1>4, <2>1, <2>2, <2>3, AccountMove
<1>17. QED
  BY <1>1, <1>12, <1>13, <1>14, <1>15, <1>16

-----------------------------------------------------------------------------
\* The theorems

\* Every step of the system keeps the invariant.
LEMMA StepKeepsInv == Inv /\ [Next]_vars => Inv'
<1> SUFFICES ASSUME Inv, [Next]_vars PROVE Inv'
  OBVIOUS
<1>1. CASE Mature \/ HealthObserved \/ UNCHANGED vars
  BY <1>1, EnvironmentSteps
<1>2. ASSUME NEW p \in Proc, Works(p) PROVE Inv'
  <2>1. CASE Resolve(p) \/ Begin(p) \/ LeaseHeld(p) \/ Acquire(p) \/ Release(p)
    BY <2>1, AskingSteps
  <2>2. CASE Check(p)
    BY <2>2, CheckStep
  <2>3. CASE Load(p)
    BY <2>3, LoadSteps
  <2>4. CASE Renew(p) \/ Decide(p) \/ Hold(p)
    BY <2>4, ReadingSteps
  <2>5. CASE RecordAttempt(p)
    BY <2>5, RecordAttemptStep
  <2>6. CASE Complete(p) \/ CompleteUnsafe(p)
    BY <2>6, CompletionSteps
  <2>7. CASE OpenBar(p)
    BY <2>7, OpenBarStep
  <2>8. CASE ObservePosition(p)
    BY <2>8, ObservePositionStep
  <2>9. CASE RiskBase(p)
    BY <2>9, RiskBaseStep
  <2>10. CASE RiskOverlay(p)
    BY <2>10, RiskOverlayStep
  <2>11. CASE SubmitExit(p) \/ SubmitEntry(p)
    BY <2>11, SubmitSteps
  <2>12. CASE RaiseStop(p)
    BY <2>12, RaiseStopStep
  <2>13. CASE Raise(p)
    BY <2>13, FailingSteps
  <2>14. QED
    BY <1>2, <2>1, <2>2, <2>3, <2>4, <2>5, <2>6, <2>7, <2>8, <2>9, <2>10, <2>11, <2>12, <2>13 DEF Works
<1>3. ASSUME NEW p \in Proc, Crash(p) \/ Fail(p) \/ TakeOver(p) \/ LoadUnsafe(p) \/ LoadFails(p) PROVE Inv'
  <2>1. CASE Crash(p) \/ Fail(p)
    BY <2>1, FailingSteps
  <2>2. CASE TakeOver(p)
    BY <2>2, AskingSteps
  <2>3. CASE LoadUnsafe(p) \/ LoadFails(p)
    BY <2>3, LoadSteps
  <2>4. QED
    BY <1>3, <2>1, <2>2, <2>3
<1>4. QED
  BY <1>1, <1>2, <1>3 DEF Next

\* Both initial ledgers satisfy the types and everything about the processes.
LEMMA InitialTypes ==
    ASSUME NEW done \in {{}, {First}}, InitWith(done)
    PROVE  TypeOK /\ Cursors /\ Knowledge
<1>1. First \in Nat \ {0} /\ MaxFaults \in Nat
  BY CycleAssumption
<1>2. TypeOK
  <2>1. fills \in Seq(FillType) /\ stops \in Seq(StopType)
    BY EmptySeq DEF InitWith
  <2>2. done \subseteq First..First
    BY <1>1
  <2>3. order \in OrderType /\ risk \in [at : Nat, base : Verdict, final : Verdict]
    BY DEF InitWith, NoOrder, NoRisk, NoBar, OrderType, Verdict
  <2>4. matured \in Nat /\ lastAt \in 0..matured /\ completed \subseteq First..matured /\ attempted \subseteq First..matured
    BY <1>1, <2>2 DEF InitWith
  <2>5. TypeWorld
    <3>1. candle = NoCandle /\ halted \in BOOLEAN /\ faults = 0
      BY DEF InitWith
    <3>2. faults \in 0..MaxFaults
      BY <1>1, <3>1
    <3>3. QED
      BY <2>4, <3>1, <3>2 DEF TypeWorld
  <2>6. TypeLedger
    BY <2>1, <2>3, <2>4 DEF InitWith, TypeLedger, NoBar
  <2>7. TypeLocal
    BY DEF InitWith, TypeLocal, NoBar, Step
  <2>8. QED
    BY <2>5, <2>6, <2>7, TypeParts
<1>3. Cursors
  BY <1>1 DEF InitWith, Cursors
<1>4. Knowledge
  BY HolderAssumption DEF InitWith, Knowledge
<1>5. QED
  BY <1>2, <1>3, <1>4

\* A ledger without events about orders, fills and stops tells no story.
LEMMA NoStory ==
    ASSUME TypeOK, order = NoOrder, btc = 0, fills = <<>>, stops = <<>>, risk = NoRisk
    PROVE  Evidence /\ Position /\ SoundFills /\ HighWater
<1>1. Len(fills) = 0 /\ Len(stops) = 0 /\ lastAt \in Nat
  BY EmptySeq, CyclesMatured
<1>2. NoOrder.side = "none" /\ NoRisk.at = 0
  BY DEF NoOrder, NoRisk, NoBar
<1>3. QED
  BY <1>1, <1>2 DEF Evidence, Position, SoundFills, Sound, HighWater

\* The ledger whose first cycle is complete, for any number of processes.
LEMMA InitKeepsInv == Init => Inv
<1> SUFFICES ASSUME Init PROVE Inv
  OBVIOUS
<1>1. TypeOK /\ Cursors /\ Knowledge
  BY InitialTypes DEF Init
<1>2. Evidence /\ Position /\ SoundFills /\ HighWater
  BY <1>1, NoStory DEF Init, InitWith
<1>3. Chain
  <2>1. completed = {First} /\ attempted = {First} /\ lastAt = First /\ First \in Nat
    BY CycleAssumption DEF Init, InitWith
  <2>2. First \in First..Due /\ {First} = First..First
    BY <2>1 DEF Due
  <2>3. QED
    BY <2>1, <2>2 DEF Chain
<1>4. QED
  BY <1>1, <1>2, <1>3 DEF Inv, LedgerInv, ProcInv

\* The new ledger, for one process.
LEMMA InitNewKeepsInv == InitNew /\ Solo => Inv
<1> SUFFICES ASSUME InitNew, Solo PROVE Inv
  OBVIOUS
<1>1. TypeOK /\ Cursors /\ Knowledge
  BY InitialTypes DEF InitNew
<1>2. Evidence /\ Position /\ SoundFills /\ HighWater
  BY <1>1, NoStory DEF InitNew, InitWith
<1>3. Chain
  BY DEF InitNew, InitWith, Chain, Fresh
<1>4. QED
  BY <1>1, <1>2, <1>3 DEF Inv, LedgerInv, ProcInv

\* The inductive invariant of both systems.
THEOREM InvHolds == Spec => []Inv
<1>1. Init => Inv
  BY InitKeepsInv
<1>2. Inv /\ [Next]_vars => Inv'
  BY StepKeepsInv
<1>3. QED
  BY <1>1, <1>2, PTL DEF Spec

\* A new ledger is safe for one process; a second one may start another chain.
THEOREM NewLedgerInvHolds == Solo => (NewLedgerSpec => []Inv)
<1> SUFFICES ASSUME Solo PROVE NewLedgerSpec => []Inv
  OBVIOUS
<1>1. InitNew => Inv
  BY InitNewKeepsInv
<1>2. Inv /\ [Next]_vars => Inv'
  BY StepKeepsInv
<1>3. QED
  BY <1>1, <1>2, PTL DEF NewLedgerSpec

\* The lease holder meets no error of its own making: whatever crashed before, and
\* however old its cursor is, what it read agrees with the ledger.
LEMMA InvNoContradiction == Inv => NoContradiction
<1> SUFFICES ASSUME Inv, NEW p \in Proc, holder = p PROVE ~Contradiction(p)
  BY DEF NoContradiction
<1>1. Knows(p) /\ lastAt \in Nat /\ btc \in 0..1 /\ observed \in Nat /\ risk.at \in Nat
  BY CyclesMatured DEF Inv, ProcInv, Knowledge, TypeOK
<1>2. ASSUME pc[p] = "attempt", cursor[p] \notin attempted PROVE ~(Bar(cursor[p]) < lastAt)
  <2>1. cursor[p] \in IF attempted = {} THEN First..matured ELSE attempted \cup {Due}
    BY <1>2, CursorMatured
  <2>2. CASE attempted = {}
    <3>1. lastAt = 0 /\ First \in Nat /\ First > 0
      BY <2>2, CycleAssumption DEF Inv, LedgerInv, Chain, Fresh
    <3>2. QED
      BY <2>1, <2>2, <3>1, CyclesMatured DEF Inv, Bar
  <2>3. CASE attempted # {}
    BY <1>1, <1>2, <2>1, <2>3 DEF Bar, Due
  <2>4. QED
    BY <2>2, <2>3
<1>3. CASE pc[p] \in Working
  <2>1. Bar(cursor[p]) = lastAt /\ cursor[p] \notin completed
    BY <1>3, HolderAtDue
  <2>2. order # NoOrder => order.eligible >= lastAt
    BY <1>1 DEF Inv, LedgerInv, Evidence, TypeOK, OrderType
  <2>3. (btc > 0 => observed <= lastAt) /\ risk.at <= lastAt
    BY DEF Inv, LedgerInv, HighWater, Evidence
  <2>4. pc[p] = "submit" => PlanFits(p) /\ risk.at = lastAt
    BY <1>1 DEF Knows, Assessed
  <2>5. ~(order # NoOrder /\ order.eligible < lastAt) /\ ~(btc > 0 /\ observed > lastAt) /\ ~(risk.at > lastAt)
    <3>1. order # NoOrder => order.eligible \in Nat
      BY DEF Inv, TypeOK, OrderType
    <3>2. QED
      BY <1>1, <2>2, <2>3, <3>1
  <2>6. ASSUME pc[p] = "submit"
        PROVE  /\ ~(plan[p] \in {"buy", "sell"} /\ order # NoOrder)
               /\ ~(plan[p] = "buy" /\ (btc > 0 \/ risk.at # lastAt))
               /\ ~(plan[p] \in {"sell", "trail"} /\ btc = 0)
    BY <1>1, <2>4, <2>6 DEF PlanFits
  <2>7. ~(lastAt < lastAt) /\ pc[p] # "attempt"
    BY <1>1, <1>3 DEF Working
  <2>8. QED
    BY <2>1, <2>5, <2>6, <2>7 DEF Contradiction
<1>4. CASE pc[p] \notin Working
  BY <1>2, <1>4 DEF Contradiction, Working
<1>5. QED
  BY <1>3, <1>4

\* A held position has its stop, and a high water without gaps.
LEMMA InvPositionGuarded == Inv => PositionGuarded
<1> SUFFICES ASSUME Inv PROVE PositionGuarded
  OBVIOUS
<1>1. btc \in 0..1 /\ fills \in Seq(FillType) /\ stops \in Seq(StopType) /\ lastAt \in Nat /\ observed \in Nat
  BY CyclesMatured DEF Inv, TypeOK
<1>2. Protected
  <2>1. btc > 0 <=> stops # <<>>
    BY <1>1 DEF Inv, LedgerInv, Position
  <2>2. ASSUME btc > 0 PROVE stops[1].active <= Top(fills).at
    <3>1. 1 \in 1..Len(stops)
      BY <1>1, <2>1, <2>2, EmptySeq
    <3>2. stops[1].active = Top(fills).at
      BY <3>1 DEF Inv, LedgerInv, Position
    <3>3. stops[1].active \in Nat
      <4>1. stops[1] \in StopType
        BY <1>1, <3>1, ElementOfSeq
      <4>2. QED
        BY <4>1 DEF StopType
    <3>4. QED
      BY <3>2, <3>3
  <2>3. QED
    BY <2>1, <2>2 DEF Protected
<1>3. HighWaterCurrent
  <2>1. ASSUME btc > 0 PROVE NextAfterChain = lastAt + 1
    <3>1. fills # <<>>
      <4>1. Len(fills) % 2 # 0
        BY <1>1, <2>1 DEF Inv, LedgerInv, Position
      <4>2. QED
        BY <4>1, EmptySeq
    <3>2. completed # {}
      BY <3>1 DEF Inv, LedgerInv, Position
    <3>3. QED
      BY <3>2, ChainEnds DEF Inv, LedgerInv, Due
  <2>2. ASSUME btc > 0, NextAfterChain - 1 > Top(fills).at PROVE observed >= NextAfterChain - 2
    <3>1. NextAfterChain = lastAt + 1
      BY <2>1, <2>2
    <3>2. lastAt > Top(fills).at
      BY <1>1, <2>2, <3>1
    <3>3. observed >= lastAt - 1
      BY <2>2, <3>2 DEF Inv, LedgerInv, HighWater
    <3>4. QED
      BY <1>1, <3>1, <3>3
  <2>3. QED
    BY <2>2 DEF HighWaterCurrent
<1>4. QED
  BY <1>2, <1>3 DEF Inv, PositionGuarded

\* Fills are sound.
LEMMA InvFillsSound == Inv => FillsSound
BY DEF Inv, LedgerInv, SoundFills, Sound, FillsSound

\* The ledger is readable.
LEMMA InvReadable == Inv => Readable
BY LedgerReadable DEF Inv, LedgerInv

\* The types hold of every history that starts with a completed cycle.
THEOREM TypesHold == Spec => []TypeOK
<1>1. Inv => TypeOK
  BY DEF Inv
<1>2. QED
  BY <1>1, InvHolds, PTL

\* _completed_cycle_ends, _validated_cycle_attempts and oldest_required_end accept every
\* ledger that any number of processes leave behind, whatever crashed or was overtaken.
THEOREM ReadableHolds == Spec => []Readable
<1>1. QED
  BY InvReadable, InvHolds, PTL

\* No lease holder meets a reversed timestamp, a missed open or a second completion.
THEOREM NoContradictionHolds == Spec => []NoContradiction
<1>1. QED
  BY InvNoContradiction, InvHolds, PTL

\* Orders fill at the next open, trailing stops never on the bar that set them, and
\* buys and sells alternate.
THEOREM FillsSoundHolds == Spec => []FillsSound
<1>1. QED
  BY InvFillsSound, InvHolds, PTL

\* A held position is protected and observed, on a chain that was already begun ...
THEOREM PositionGuardedHolds == Spec => []PositionGuarded
<1>1. QED
  BY InvPositionGuarded, InvHolds, PTL

\* ... and on a new ledger with one process, which reads what it writes as well.
THEOREM NewLedgerGuarded == Solo => (NewLedgerSpec => [](Readable /\ NoContradiction /\ PositionGuarded))
<1>1. Inv => Readable /\ NoContradiction /\ PositionGuarded
  BY InvReadable, InvNoContradiction, InvPositionGuarded
<1>2. QED
  BY <1>1, NewLedgerInvHolds, PTL

-----------------------------------------------------------------------------
\* What a step may never do

\* The actions that change the order, and those that change the stops.
LEMMA OrderActions ==
    ASSUME [Next]_vars, order' # order
    PROVE  \E p \in Proc : OpenBar(p) \/ SubmitExit(p) \/ SubmitEntry(p)
<1>1. ASSUME NEW p \in Proc, Works(p) PROVE OpenBar(p) \/ SubmitExit(p) \/ SubmitEntry(p)
  BY <1>1 DEF Works, Resolve, Begin, LeaseHeld, Acquire, Check, RecordAttempt, Load, Renew, CompleteUnsafe,
       ObservePosition, RiskBase, RiskOverlay, Decide, RaiseStop, Hold, Complete, Raise, Release, ledger, account
<1>2. ASSUME NEW p \in Proc, Crash(p) \/ Fail(p) \/ TakeOver(p) \/ LoadUnsafe(p) \/ LoadFails(p) PROVE FALSE
  BY <1>2 DEF Crash, Fail, TakeOver, LoadUnsafe, LoadFails, ledger, account
<1>3. ~(Mature \/ HealthObserved \/ UNCHANGED vars)
  BY DEF Mature, HealthObserved, vars, ledger, account
<1>4. QED
  BY <1>1, <1>2, <1>3 DEF Next

\* Only the first transaction and set_stop touch the stops.
LEMMA StopActions ==
    ASSUME [Next]_vars, stops' # stops
    PROVE  \E p \in Proc : OpenBar(p) \/ RaiseStop(p)
<1>1. ASSUME NEW p \in Proc, Works(p) PROVE OpenBar(p) \/ RaiseStop(p)
  BY <1>1 DEF Works, Resolve, Begin, LeaseHeld, Acquire, Check, RecordAttempt, Load, Renew, CompleteUnsafe,
       ObservePosition, RiskBase, RiskOverlay, Decide, SubmitExit, SubmitEntry, Hold, Complete, Raise, Release,
       ledger, account
<1>2. ASSUME NEW p \in Proc, Crash(p) \/ Fail(p) \/ TakeOver(p) \/ LoadUnsafe(p) \/ LoadFails(p) PROVE FALSE
  BY <1>2 DEF Crash, Fail, TakeOver, LoadUnsafe, LoadFails, ledger, account
<1>3. ~(Mature \/ HealthObserved \/ UNCHANGED vars)
  BY DEF Mature, HealthObserved, vars, ledger, account
<1>4. QED
  BY <1>1, <1>2, <1>3 DEF Next

\* The step formulas of EntryBacked and StopNeverLoosens.
BackedEntry == order'.side = "BUY" /\ order # order' => risk.at = order'.signal /\ risk.base = "open"
StopKept == btc > 0 /\ btc' > 0 /\ fills' = fills => Top(stops').price >= Top(stops).price

\* An entry is submitted only on the stored base decision of its own bar.
LEMMA StepBacksEntries == Inv /\ [Next]_vars => BackedEntry
<1> SUFFICES ASSUME Inv, [Next]_vars, order'.side = "BUY", order # order'
             PROVE  risk.at = order'.signal /\ risk.base = "open"
  BY DEF BackedEntry
<1>1. PICK p \in Proc : OpenBar(p) \/ SubmitExit(p) \/ SubmitEntry(p)
  BY OrderActions
<1>2. CASE OpenBar(p)
  <2>1. order' \in {order, NoOrder}
    BY <1>2, OpenOutcomes DEF Bought, BoughtAndStopped, Sold, Stopped, Untouched
  <2>2. QED
    BY <2>1 DEF NoOrder
<1>3. CASE SubmitExit(p)
  BY <1>3 DEF SubmitExit, MarketOrder
<1>4. CASE SubmitEntry(p)
  <2>1. holder = p /\ pc[p] = "submit" /\ plan[p] = "buy" /\ risk.at = Bar(cursor[p])
        /\ order'.signal = Bar(cursor[p])
    BY <1>4 DEF SubmitEntry, Appends, MarketOrder
  <2>2. risk.base = "open"
    BY <2>1 DEF Inv, ProcInv, Knowledge, Knows, PlanFits
  <2>3. QED
    BY <2>1, <2>2
<1>5. QED
  BY <1>1, <1>2, <1>3, <1>4

\* A stop is only ever followed by a tighter one while the position lasts.
LEMMA StepKeepsStop == Inv /\ [Next]_vars => StopKept
<1> SUFFICES ASSUME Inv, [Next]_vars, btc > 0, btc' > 0, fills' = fills
             PROVE  Top(stops').price >= Top(stops).price
  BY DEF StopKept
<1>1. stops \in Seq(StopType) /\ stops # <<>> /\ fills \in Seq(FillType)
  BY DEF Inv, TypeOK, LedgerInv, Position
<1>2. Top(stops).price \in Nat
  <2>1. Len(stops) \in 1..Len(stops)
    BY <1>1, EmptySeq
  <2>2. Top(stops) \in StopType
    BY <1>1, <2>1, ElementOfSeq DEF Top
  <2>3. QED
    BY <2>2 DEF StopType
<1>3. CASE stops' = stops
  BY <1>2, <1>3 DEF Top
<1>4. ASSUME NEW p \in Proc, OpenBar(p) PROVE stops' = stops
  <2>1. ~Bought
    BY DEF Bought
  <2>2. ~BoughtAndStopped /\ ~Sold /\ ~Stopped
    BY DEF BoughtAndStopped, Sold, Stopped
  <2>3. QED
    BY <1>4, <2>1, <2>2, OpenOutcomes DEF Untouched
<1>5. ASSUME NEW p \in Proc, RaiseStop(p), stops' # stops PROVE Top(stops').price >= Top(stops).price
  <2> DEFINE stop == TrailingStop(Bar(cursor[p]))
  <2>1. stop.price > Top(stops).price /\ stops' = stops \o <<stop>>
    BY <1>1, <1>5 DEF RaiseStop, NewStop
  <2>2. stop \in StopType
    <3>1. holder = p /\ pc[p] \in Working
      BY <1>5 DEF RaiseStop, Appends, Working
    <3>2. Bar(cursor[p]) \in Nat
      BY <3>1, HolderAtDue
    <3>3. candle.trail \in Nat
      <4>1. candle = NoCandle \/ \E end \in First..matured : candle \in Candle(end)
        BY DEF Inv, TypeOK
      <4>2. QED
        BY <4>1, CycleAssumption DEF NoCandle, Candle
    <3>4. QED
      BY <3>2, <3>3 DEF TrailingStop, NextBoundary, StopType
  <2>3. Top(stops') = stop /\ stop.price \in Nat
    BY <1>1, <2>1, <2>2, OneMore DEF StopType
  <2>4. QED
    BY <1>2, <2>1, <2>3
<1>6. QED
  BY <1>3, <1>4, <1>5, StopActions

\* Entries are accepted only on the stored decision of their bar (submit_entry, _entry_context).
THEOREM EntryBackedHolds == Spec => EntryBacked
<1>1. Inv /\ [Next]_vars => BackedEntry
  BY StepBacksEntries
<1>2. QED
  BY <1>1, InvHolds, PTL DEF Spec, EntryBacked, BackedEntry

\* A protective stop never loosens while the position lasts (set_stop) ...
THEOREM StopNeverLoosensHolds == Spec => StopNeverLoosens
<1>1. Inv /\ [Next]_vars => StopKept
  BY StepKeepsStop
<1>2. QED
  BY <1>1, InvHolds, PTL DEF Spec, StopNeverLoosens, StopKept

\* ... nor does it on a new ledger.
THEOREM NewLedgerStopNeverLoosens == Solo => (NewLedgerSpec => StopNeverLoosens)
<1>1. Inv /\ [Next]_vars => StopKept
  BY StepKeepsStop
<1>2. QED
  BY <1>1, NewLedgerInvHolds, PTL DEF NewLedgerSpec, StopNeverLoosens, StopKept
=============================================================================
