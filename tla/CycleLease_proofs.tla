------------------------- MODULE CycleLease_proofs -------------------------
(***************************************************************************)
(* Safety of the paper-cycle lease for any number of processes and any     *)
(* values of the constants.  Everything about fencing is proved for        *)
(* SkewSpec, where the wall clock may be set to any reading: the fence     *)
(* rests on the epoch counter, not on time.  Only the bound on blocking    *)
(* needs a clock that moves forward (Spec).                                *)
(***************************************************************************)
EXTENDS CycleLease, TLAPS

SkewNext == Next \/ SetClock

(* The inductive invariant, in parts. *)

\* Tokens identify running incarnations.
TokenInv ==
    /\ \A p \in Proc : token[p] <= started
    /\ \A p \in Proc : pc[p] = "down" => token[p] = NoToken /\ epoch[p] = NoEpoch
    /\ \A p \in Proc : pc[p] # "down" => token[p] # NoToken
    /\ \A p, q \in Proc : token[p] = token[q] /\ token[p] # NoToken => p = q

\* The row and every remembered epoch stand in order below the counter.
EpochInv ==
    /\ RowMatchesCounter
    /\ row.kind = "fenced" => row.token # NoToken /\ row.token <= started
    /\ \A p \in Proc : epoch[p] <= counter

\* Nothing in the log is newer than the counter; what carries the counter's
\* epoch was written by the incarnation the row names.
LogInv ==
    /\ LogInTenures
    /\ \A i \in 1..Len(log) : log[i].epoch <= counter
    /\ row.kind = "fenced" =>
          \A i \in 1..Len(log) : log[i].epoch = counter => log[i].token = row.token

IInv == TypeOK /\ TokenInv /\ EpochInv /\ LogInv

-----------------------------------------------------------------------------

\* Every element of a sequence over S is in S.
LEMMA SeqElement ==
    ASSUME NEW S, NEW s \in Seq(S), NEW i \in 1..Len(s)
    PROVE  s[i] \in S
  OBVIOUS

\* Only the clock changes in a step that is not a process's: nothing that the
\* invariant speaks of.
LEMMA ClockStep ==
    ASSUME IInv, Tick \/ SetClock \/ UNCHANGED vars
    PROVE  IInv'
<1> USE LeaseAssumption
<1>1. CASE Tick
  BY <1>1 DEF Tick, store, IInv, TypeOK, TokenInv, EpochInv, LogInv,
       RowMatchesCounter, LogInTenures
<1>2. CASE SetClock
  BY <1>2 DEF SetClock, store, IInv, TypeOK, TokenInv, EpochInv, LogInv,
       RowMatchesCounter, LogInTenures
<1>3. CASE UNCHANGED vars
  BY <1>3 DEF vars, IInv, TypeOK, TokenInv, EpochInv, LogInv,
       RowMatchesCounter, LogInTenures
<1> QED BY <1>1, <1>2, <1>3

\* A step of one process keeps every variable in its type.
LEMMA TypeStep ==
    ASSUME TypeOK, NEW p \in Proc, ProcNext(p)
    PROVE  TypeOK'
<1> USE LeaseAssumption DEF TypeOK, store
<1>1. CASE Start(p) BY <1>1 DEF Start
<1>2. CASE Crash(p) BY <1>2 DEF Crash, NoToken, NoEpoch
<1>3. CASE CallAcquire(p) \/ CallRenew(p) \/ CallFence(p)
  BY <1>3 DEF CallAcquire, CallRenew, CallFence, Call
<1>4. CASE AcquireHeld(p) \/ AcquireExhausted(p) \/ FenceRollback(p)
  <2>1. /\ pc' = [pc EXCEPT ![p] = "idle"] /\ now' = [now EXCEPT ![p] = 0]
        /\ UNCHANGED <<clock, started, token, epoch, counter, row, log>>
    BY <1>4 DEF AcquireHeld, AcquireExhausted, FenceRollback, Return
  <2> QED BY <2>1
<1>5. CASE AcquireNew(p)
  BY <1>5 DEF AcquireNew, Return, FencedRow, NextEpoch, Row
<1>6. CASE AcquireAgain(p)
  BY <1>6 DEF AcquireAgain, Return, Row, FencedRow
<1>7. CASE Renew(p)
  BY <1>7 DEF Renew, Return, Row, FencedRow, Owns
<1>8. CASE FenceCommit(p)
  BY <1>8 DEF FenceCommit, Return
<1>9. CASE Release(p)
  <2>1. row' \in Row BY <1>9 DEF Release, NoRow, NoToken, NoEpoch, Row
  <2> QED BY <1>9, <2>1 DEF Release, NoEpoch
<1>10. CASE ReleaseFails(p)
  BY <1>10 DEF ReleaseFails, NoEpoch
<1> QED
  BY <1>1, <1>2, <1>3, <1>4, <1>5, <1>6, <1>7, <1>8, <1>9, <1>10 DEF ProcNext

\* A fresh token is larger than every token ever handed out, so tokens stay
\* unique.
LEMMA TokenStep ==
    ASSUME TypeOK, TokenInv, NEW p \in Proc, ProcNext(p)
    PROVE  TokenInv'
<1> USE LeaseAssumption DEF TypeOK, TokenInv, store, NoToken, NoEpoch
<1>1. CASE Start(p) BY <1>1 DEF Start
<1>2. CASE Crash(p) BY <1>2 DEF Crash
<1>3. CASE CallAcquire(p) \/ CallRenew(p) \/ CallFence(p)
  BY <1>3 DEF CallAcquire, CallRenew, CallFence, Call
<1>4. CASE AcquireHeld(p) \/ AcquireExhausted(p) \/ FenceRollback(p)
  BY <1>4 DEF AcquireHeld, AcquireExhausted, FenceRollback, Return
<1>5. CASE AcquireNew(p) BY <1>5 DEF AcquireNew, Return
<1>6. CASE AcquireAgain(p) BY <1>6 DEF AcquireAgain, Return
<1>7. CASE Renew(p) BY <1>7 DEF Renew, Return
<1>8. CASE FenceCommit(p) BY <1>8 DEF FenceCommit, Return
<1>9. CASE Release(p) \/ ReleaseFails(p)
  BY <1>9 DEF Release, ReleaseFails
<1> QED BY <1>1, <1>2, <1>3, <1>4, <1>5, <1>6, <1>7, <1>8, <1>9 DEF ProcNext

\* Only AcquireNew moves the counter, and it moves the row with it.
LEMMA EpochStep ==
    ASSUME TypeOK, TokenInv, EpochInv, NEW p \in Proc, ProcNext(p)
    PROVE  EpochInv'
<1> USE LeaseAssumption
    DEF TypeOK, TokenInv, EpochInv, RowMatchesCounter, store, NoToken, NoEpoch, Row
<1>1. CASE Start(p) BY <1>1 DEF Start
<1>2. CASE Crash(p) BY <1>2 DEF Crash
<1>3. CASE CallAcquire(p) \/ CallRenew(p) \/ CallFence(p)
  BY <1>3 DEF CallAcquire, CallRenew, CallFence, Call
<1>4. CASE AcquireHeld(p) \/ AcquireExhausted(p) \/ FenceRollback(p)
  BY <1>4 DEF AcquireHeld, AcquireExhausted, FenceRollback, Return
<1>5. CASE AcquireNew(p)
  BY <1>5 DEF AcquireNew, Return, FencedRow, NextEpoch
<1>6. CASE AcquireAgain(p)
  BY <1>6 DEF AcquireAgain, Return, SameFencedHolder, FencedRow
<1>7. CASE Renew(p) BY <1>7 DEF Renew, Return, FencedRow, Owns
<1>8. CASE FenceCommit(p) BY <1>8 DEF FenceCommit, Return
<1>9. CASE Release(p)
  BY <1>9 DEF Release, NoRow
<1>10. CASE ReleaseFails(p)
  BY <1>10 DEF ReleaseFails
<1> QED
  BY <1>1, <1>2, <1>3, <1>4, <1>5, <1>6, <1>7, <1>8, <1>9, <1>10 DEF ProcNext

\* A committed transaction carries the counter's epoch and the row's token, so
\* it extends the log in tenure order.
LEMMA LogStep ==
    ASSUME IInv, NEW p \in Proc, ProcNext(p)
    PROVE  LogInv'
<1> USE LeaseAssumption
    DEF IInv, EpochInv, LogInv, LogInTenures, RowMatchesCounter, store
<1>0. /\ log \in Seq([epoch : Nat, token : Nat])
      /\ counter \in Nat
      /\ row \in Row
  BY DEF TypeOK
<1>a. /\ Len(log) \in Nat
      /\ \A i \in 1..Len(log) : log[i].epoch \in Nat
  <2>1. \A i \in 1..Len(log) : log[i] \in [epoch : Nat, token : Nat]
    BY <1>0, SeqElement
  <2> QED BY <1>0, <2>1
<1>1. CASE UNCHANGED <<log, counter, row>>
  BY <1>1
<1>2. CASE AcquireNew(p)
  <2>1. /\ log' = log /\ counter' = counter + 1
        /\ \A i \in 1..Len(log) : log[i].epoch # counter + 1
    BY <1>0, <1>a, <1>2 DEF AcquireNew, NextEpoch
  <2> QED BY <1>0, <1>a, <2>1
<1>3. CASE AcquireAgain(p)
  BY <1>3 DEF AcquireAgain, Return, FencedRow, SameFencedHolder
<1>4. CASE Renew(p)
  BY <1>4 DEF Renew, Return, FencedRow, Owns
<1>5. CASE FenceCommit(p)
  <2> DEFINE e == [epoch |-> epoch[p], token |-> token[p]]
  <2>1. /\ log' = Append(log, e) /\ counter' = counter /\ row' = row
        /\ epoch[p] = counter /\ token[p] = row.token /\ row.kind = "fenced"
    BY <1>5 DEF FenceCommit, Owns
  <2>2. /\ Len(log') = Len(log) + 1
        /\ \A i \in 1..Len(log) : log'[i] = log[i]
        /\ log'[Len(log) + 1] = e
    BY <1>0, <2>1
  <2>3. \A i \in 1..Len(log') :
            \/ i \in 1..Len(log) /\ log'[i] = log[i]
            \/ i = Len(log) + 1 /\ log'[i].epoch = counter /\ log'[i].token = row.token
    BY <1>0, <1>a, <2>1, <2>2
  <2>4. LogInTenures'
    BY <1>0, <1>a, <2>1, <2>2, <2>3
  <2> QED BY <1>0, <1>a, <2>1, <2>3, <2>4
<1>6. CASE Release(p)
  BY <1>6 DEF Release, NoRow
<1> QED
  BY <1>1, <1>2, <1>3, <1>4, <1>5, <1>6
     DEF ProcNext, Start, Crash, CallAcquire, CallRenew, CallFence, Call,
         AcquireHeld, AcquireExhausted, FenceRollback, ReleaseFails

\* A new ledger, with no process on it, satisfies the invariant.
LEMMA InitInv == Init => IInv
  BY LeaseAssumption
     DEF Init, IInv, TypeOK, TokenInv, EpochInv, LogInv, LogInTenures,
         RowMatchesCounter, NoRow, LegacyRow, Row, NoToken, NoEpoch

\* Every step keeps it, whatever the clocks say.
LEMMA NextInv == IInv /\ [SkewNext]_vars => IInv'
<1> SUFFICES ASSUME IInv, [SkewNext]_vars PROVE IInv'
  OBVIOUS
<1>1. CASE Tick \/ SetClock \/ UNCHANGED vars
  BY <1>1, ClockStep
<1>2. ASSUME NEW p \in Proc, ProcNext(p) PROVE IInv'
  BY <1>2, TypeStep, TokenStep, EpochStep, LogStep DEF IInv
<1> QED BY <1>1, <1>2 DEF SkewNext, Next

\* The inductive invariant holds in every reachable state.
LEMMA InvAlways == SkewSpec => []IInv
  BY InitInv, NextInv, PTL DEF SkewSpec, SkewNext

-----------------------------------------------------------------------------

\* Type correctness of the lease row, the counter and the processes.
THEOREM TypeCorrect == SkewSpec => []TypeOK
<1>1. IInv => TypeOK BY DEF IInv
<1> QED BY <1>1, InvAlways, PTL

\* The row always carries the counter's epoch: the corruption error of
\* acquire_cycle_lease_epoch cannot be raised by the store's own operations.
THEOREM RowMatchesCounterAlways == SkewSpec => []RowMatchesCounter
<1>1. IInv => RowMatchesCounter BY DEF IInv, EpochInv
<1> QED BY <1>1, InvAlways, PTL

\* At most one running process passes the ownership check, for any number of
\* processes and any behaviour of the clock.
THEOREM SingleWriterAlways == SkewSpec => []SingleWriter
<1>1. IInv => SingleWriter
  BY DEF IInv, TypeOK, TokenInv, SingleWriter, Owns, Row
<1> QED BY <1>1, InvAlways, PTL

\* The ledger is written in tenures of one incarnation each, in epoch order.
THEOREM LogInTenuresAlways == SkewSpec => []LogInTenures
<1>1. IInv => LogInTenures BY DEF IInv, LogInv
<1> QED BY <1>1, InvAlways, PTL

\* All of it together, as the run checks it.
THEOREM FencingAlways == SkewSpec => []Fencing
BY TypeCorrect, RowMatchesCounterAlways, SingleWriterAlways, LogInTenuresAlways, PTL DEF Fencing

\* A superseded epoch is never owned again: a new row carries an epoch above
\* every remembered one, and no other step changes the row's token or epoch.
THEOREM LostStaysLostAlways == SkewSpec => LostStaysLost
<1>1. ASSUME IInv, [SkewNext]_vars, NEW p \in Proc,
             epoch[p] # NoEpoch, ~Owns(p), epoch'[p] = epoch[p], token'[p] = token[p]
      PROVE  ~Owns(p)'
  <2> USE <1>1 DEF IInv, TypeOK, EpochInv, Owns, store, Row
  <2>1. CASE UNCHANGED row BY <2>1
  <2>2. ASSUME NEW q \in Proc, AcquireNew(q) PROVE ~Owns(p)'
    BY <2>2 DEF AcquireNew, FencedRow, NextEpoch
  <2>3. ASSUME NEW q \in Proc, AcquireAgain(q) PROVE ~Owns(p)'
    BY <2>3 DEF AcquireAgain, FencedRow, SameFencedHolder
  <2>4. ASSUME NEW q \in Proc, Renew(q) PROVE ~Owns(p)'
    BY <2>4 DEF Renew, FencedRow
  <2>5. ASSUME NEW q \in Proc, Release(q) PROVE ~Owns(p)'
    BY <2>5 DEF Release, NoRow
  <2> QED
    BY <2>1, <2>2, <2>3, <2>4, <2>5
       DEF SkewNext, Next, ProcNext, vars, Tick, SetClock, Start, Crash, CallAcquire,
           CallRenew, CallFence, Call, AcquireHeld, AcquireExhausted, FenceCommit,
           FenceRollback, ReleaseFails
<1>2. IInv /\ [SkewNext]_vars =>
        [\A p \in Proc :
          (/\ epoch[p] # NoEpoch /\ ~Owns(p)
           /\ epoch'[p] = epoch[p] /\ token'[p] = token[p]) => ~Owns(p)']_vars
  BY <1>1
<1> QED BY <1>2, InvAlways, PTL DEF SkewSpec, SkewNext, LostStaysLost

-----------------------------------------------------------------------------
(* Blocking: needs a clock that never goes back. *)

\* Every pending clock reading lies in the past, so an expiry set from it is
\* at most one lease_ttl ahead.
TimeInv ==
    /\ BlockingBounded
    /\ \A p \in Proc : now[p] <= clock

\* A dead or stuck holder blocks the others for at most one lease_ttl.
THEOREM BlockingBoundedAlways == Spec => []BlockingBounded
<1> USE LeaseAssumption DEF TimeInv, BlockingBounded
<1>1. Init => TypeOK /\ TimeInv
  BY InitInv DEF IInv, Init, NoRow, LegacyRow
<1>2. TypeOK /\ TimeInv /\ [Next]_vars => (TypeOK /\ TimeInv)'
  <2> SUFFICES ASSUME TypeOK, TimeInv, [Next]_vars PROVE (TypeOK /\ TimeInv)'
    OBVIOUS
  <2>1. CASE Tick BY <2>1 DEF Tick, TypeOK, Row, store
  <2>2. CASE UNCHANGED vars BY <2>2 DEF vars, TypeOK
  <2>3. ASSUME NEW p \in Proc, ProcNext(p) PROVE (TypeOK /\ TimeInv)'
    <3>1. TypeOK' BY <2>3, TypeStep
    <3>2. clock' = clock /\ clock \in Nat
      BY <2>3 DEF ProcNext, Start, Crash, CallAcquire, CallRenew, CallFence, Call,
           AcquireHeld, AcquireExhausted, AcquireNew, AcquireAgain, Renew, FenceCommit,
           FenceRollback, Release, ReleaseFails, TypeOK
    <3>3. now' = now \/ now' = [now EXCEPT ![p] = 0] \/ now' = [now EXCEPT ![p] = clock]
      BY <2>3 DEF ProcNext, Start, Crash, CallAcquire, CallRenew, CallFence, Call,
           AcquireHeld, AcquireExhausted, AcquireNew, AcquireAgain, Renew, FenceCommit,
           FenceRollback, Release, ReleaseFails, Return
    <3>4. \/ row' = row
          \/ row' = NoRow
          \/ \E t, e \in Nat : row' = FencedRow(t, e, now[p] + Ttl)
      <4>1. CASE AcquireNew(p)
        BY <4>1 DEF AcquireNew, TypeOK, NextEpoch
      <4>2. CASE AcquireAgain(p) \/ Renew(p)
        BY <4>2 DEF AcquireAgain, Renew, TypeOK, Row
      <4> QED
        BY <2>3, <4>1, <4>2
           DEF ProcNext, Start, Crash, CallAcquire, CallRenew, CallFence, Call,
               AcquireHeld, AcquireExhausted, FenceCommit, FenceRollback, Release,
               ReleaseFails, store
    <3>5. \A q \in Proc : now'[q] <= clock
      <4>1. now \in [Proc -> Nat] /\ \A q \in Proc : now[q] <= clock
        BY DEF TypeOK
      <4>2. ASSUME NEW q \in Proc PROVE now'[q] = now[q] \/ now'[q] = 0 \/ now'[q] = clock
        BY <3>3, <4>1
      <4> QED BY <3>2, <4>1, <4>2
    <3>6. row'.kind # "none" => row'.expiry <= clock + Ttl
      BY <3>2, <3>4 DEF TypeOK, Row, NoRow, FencedRow
    <3> QED BY <3>1, <3>2, <3>5, <3>6
  <2> QED BY <2>1, <2>2, <2>3 DEF Next
<1>3. TimeInv => BlockingBounded
  OBVIOUS
<1> QED BY <1>1, <1>2, <1>3, PTL DEF Spec

-----------------------------------------------------------------------------
(* Refinement *)

\* The lease with its clock, expiry and stale readings implements the exclusive
\* tenures of ExclusiveTenure: a new epoch is a grant, a fenced commit a write,
\* a release the end of the tenure; every other step changes nothing there.
THEOREM Refinement == SkewSpec => TenureSpec
<1> DEFINE h == IF row.kind = "fenced" THEN row.token ELSE 0
<1>1. Init => Tenures!Init
  BY DEF Init, Tenures!Init, Tenures!NoHolder, NoRow, LegacyRow
<1>2. IInv /\ [SkewNext]_vars => [Tenures!Next]_(Tenures!vars)
  <2> SUFFICES ASSUME IInv, [SkewNext]_vars PROVE [Tenures!Next]_(Tenures!vars)
    OBVIOUS
  <2> USE DEF IInv, TypeOK, TokenInv, EpochInv, RowMatchesCounter, Row, store,
              NoToken, NoEpoch
  <2>1. CASE UNCHANGED <<row, counter, log>>
    BY <2>1 DEF Tenures!vars
  <2>2. ASSUME NEW p \in Proc, AcquireNew(p) PROVE Tenures!Next
    BY <2>2 DEF AcquireNew, FencedRow, NextEpoch, Tenures!Next, Tenures!Grant,
                Tenures!NoHolder
  <2>3. ASSUME NEW p \in Proc, AcquireAgain(p) PROVE UNCHANGED Tenures!vars
    BY <2>3 DEF AcquireAgain, FencedRow, SameFencedHolder, Tenures!vars
  <2>4. ASSUME NEW p \in Proc, Renew(p) PROVE UNCHANGED Tenures!vars
    BY <2>4 DEF Renew, FencedRow, Owns, Tenures!vars
  <2>5. ASSUME NEW p \in Proc, FenceCommit(p) PROVE Tenures!Next
    BY <2>5 DEF FenceCommit, Owns, Tenures!Next, Tenures!Write, Tenures!NoHolder
  <2>6. ASSUME NEW p \in Proc, Release(p) PROVE [Tenures!Next]_(Tenures!vars)
    BY <2>6 DEF Release, Owns, NoRow, Tenures!Next, Tenures!End, Tenures!NoHolder,
                Tenures!vars
  <2> QED
    BY <2>1, <2>2, <2>3, <2>4, <2>5, <2>6
       DEF SkewNext, Next, ProcNext, vars, Tick, SetClock, Start, Crash, CallAcquire,
           CallRenew, CallFence, Call, AcquireHeld, AcquireExhausted, FenceRollback,
           ReleaseFails
<1> QED BY <1>1, <1>2, InvAlways, PTL DEF SkewSpec, SkewNext, TenureSpec, Tenures!Spec
=============================================================================
