----------------------------- MODULE CycleLease -----------------------------
(***************************************************************************)
(* The paper-cycle lease: one metadata row (token, epoch, expiry) and one  *)
(* durable epoch counter (PRAGMA user_version) in the SQLite store, and    *)
(* the processes that acquire, renew and release the lease and fence their *)
(* ledger mutations by it (persistence/sqlite_store.py and the lease       *)
(* methods of PaperService in paper/service.py).                           *)
(*                                                                         *)
(* Every store method is one SQLite transaction (BEGIN IMMEDIATE), so one  *)
(* action.  The service reads its wall clock BEFORE it calls the store and *)
(* the transaction may begin much later: the reading is a step of its own  *)
(* (the Call actions) and now[p] is stale when the transaction runs.       *)
(*                                                                         *)
(* A process incarnation is identified by its lease token, a fresh uuid    *)
(* (cli.py _build_paper_application); the owner text is part of the token, *)
(* so comparing tokens compares owners.  A row written by a release that   *)
(* had no epochs ("legacy") is one of the initial states.                  *)
(***************************************************************************)
EXTENDS Naturals, Sequences

CONSTANTS
    Proc,        \* process slots that may run the paper application
    Ttl,         \* lease_ttl of PaperService
    MaxEpoch,    \* _MAX_CYCLE_LEASE_EPOCH
    MaxTime,     \* bound: the last wall-clock reading
    MaxToken,    \* bound: process incarnations ever started
    MaxLog       \* bound: fenced ledger transactions ever committed

ASSUME LeaseAssumption ==
    /\ Ttl \in Nat \ {0}
    /\ MaxEpoch \in Nat
    /\ MaxTime \in Nat
    /\ MaxToken \in Nat
    /\ MaxLog \in Nat

VARIABLES
    clock,      \* wall clock of the host
    counter,    \* durable epoch counter, PRAGMA user_version
    row,        \* metadata row of the lease
    started,    \* incarnations started so far; their tokens are 1..started
    pc,         \* what each process is doing
    token,      \* lease token of the incarnation in each slot
    epoch,      \* PaperService._lease_epoch, 0 for None
    now,        \* wall-clock reading that the pending store call carries
    log         \* committed fenced transactions, as the ledger orders them

store == <<counter, row, log>>
vars == <<clock, counter, row, started, pc, token, epoch, now, log>>

NoToken == 0
NoEpoch == 0
NoRow == [kind |-> "none", token |-> NoToken, epoch |-> NoEpoch, expiry |-> 0]
LegacyRow(expiry) ==
    [kind |-> "legacy", token |-> NoToken, epoch |-> NoEpoch, expiry |-> expiry]
FencedRow(t, e, expiry) ==
    [kind |-> "fenced", token |-> t, epoch |-> e, expiry |-> expiry]

Row == [kind : {"none", "legacy", "fenced"},
        token : Nat, epoch : Nat, expiry : Nat]

TypeOK ==
    /\ clock \in Nat
    /\ counter \in 0..MaxEpoch
    /\ row \in Row
    /\ started \in Nat
    /\ pc \in [Proc -> {"down", "idle", "acquire", "renew", "fence"}]
    /\ token \in [Proc -> Nat]
    /\ epoch \in [Proc -> Nat]
    /\ now \in [Proc -> Nat]
    /\ log \in Seq([epoch : Nat, token : Nat])

Init ==
    /\ clock = 0
    /\ counter = 0
    /\ row \in {NoRow, LegacyRow(Ttl)}
    /\ started = 0
    /\ pc = [p \in Proc |-> "down"]
    /\ token = [p \in Proc |-> NoToken]
    /\ epoch = [p \in Proc |-> NoEpoch]
    /\ now = [p \in Proc |-> 0]
    /\ log = <<>>

-----------------------------------------------------------------------------
\* Processes and the clock

\* Seeded fault: the token names the host, not the incarnation.
StartWithHostToken(p) ==
    /\ pc[p] = "down"
    /\ started < MaxToken
    /\ started' = started + 1
    /\ token' = [token EXCEPT ![p] = 1]
    /\ pc' = [pc EXCEPT ![p] = "idle"]
    /\ UNCHANGED <<clock, epoch, now, store>>

\* A new incarnation: PaperService starts with no epoch and a fresh token.
Start(p) ==
    /\ pc[p] = "down"
    /\ started < MaxToken
    /\ started' = started + 1
    /\ token' = [token EXCEPT ![p] = started + 1]
    /\ pc' = [pc EXCEPT ![p] = "idle"]
    /\ UNCHANGED <<clock, epoch, now, store>>

\* The process dies at any point; SQLite rolls back what it had not committed.
Crash(p) ==
    /\ pc[p] # "down"
    /\ pc' = [pc EXCEPT ![p] = "down"]
    /\ token' = [token EXCEPT ![p] = NoToken]
    /\ epoch' = [epoch EXCEPT ![p] = NoEpoch]
    /\ now' = [now EXCEPT ![p] = 0]
    /\ UNCHANGED <<clock, started, store>>

Tick ==
    /\ clock < MaxTime
    /\ clock' = clock + 1
    /\ UNCHANGED <<started, pc, token, epoch, now, store>>

\* The operator or NTP sets the wall clock to any reading.
SetClock ==
    /\ clock' \in 0..MaxTime
    /\ UNCHANGED <<started, pc, token, epoch, now, store>>

\* The service reads its clock and calls the store.
Call(p, method) ==
    /\ pc[p] = "idle"
    /\ pc' = [pc EXCEPT ![p] = method]
    /\ now' = [now EXCEPT ![p] = clock]
    /\ UNCHANGED <<clock, started, token, epoch, store>>

CallAcquire(p) == epoch[p] = NoEpoch /\ Call(p, "acquire")
CallRenew(p) == epoch[p] # NoEpoch /\ Call(p, "renew")
CallFence(p) == epoch[p] # NoEpoch /\ Call(p, "fence")

\* The store call is over and its clock reading is forgotten.
Return(p) ==
    /\ pc' = [pc EXCEPT ![p] = "idle"]
    /\ now' = [now EXCEPT ![p] = 0]

-----------------------------------------------------------------------------
\* Store transactions

\* Ownership part of every store check: the row carries this incarnation's
\* token under exactly the epoch it was granted.
Owns(p) ==
    /\ row.kind = "fenced"
    /\ row.token = token[p]
    /\ row.epoch = epoch[p]

SameFencedHolder(p) == row.kind = "fenced" /\ row.token = token[p]

HeldByOther(p) ==
    /\ row.kind # "none"
    /\ ~SameFencedHolder(p)
    /\ row.expiry > now[p]

\* acquire_cycle_lease_epoch returns None: another holder's lease is live.
AcquireHeld(p) ==
    /\ pc[p] = "acquire"
    /\ HeldByOther(p)
    /\ Return(p)
    /\ UNCHANGED <<clock, started, token, epoch, store>>

\* acquire_cycle_lease_epoch raises: the durable counter is exhausted.
AcquireExhausted(p) ==
    /\ pc[p] = "acquire"
    /\ ~HeldByOther(p)
    /\ ~SameFencedHolder(p)
    /\ counter >= MaxEpoch
    /\ Return(p)
    /\ UNCHANGED <<clock, started, token, epoch, store>>

\* _next_cycle_lease_epoch
NextEpoch(current) == current + 1

\* Seeded fault: the row is written with the epoch before the bump.
AcquireStale(p) ==
    /\ pc[p] = "acquire"
    /\ ~HeldByOther(p)
    /\ ~SameFencedHolder(p)
    /\ counter < MaxEpoch
    /\ counter' = NextEpoch(counter)
    /\ row' = FencedRow(token[p], counter, now[p] + Ttl)
    /\ epoch' = [epoch EXCEPT ![p] = NextEpoch(counter)]
    /\ Return(p)
    /\ UNCHANGED <<clock, started, token, log>>

\* acquire_cycle_lease_epoch takes the free, expired or legacy row under the
\* next epoch.
AcquireNew(p) ==
    /\ pc[p] = "acquire"
    /\ ~HeldByOther(p)
    /\ ~SameFencedHolder(p)
    /\ counter < MaxEpoch
    /\ counter' = NextEpoch(counter)
    /\ row' = FencedRow(token[p], NextEpoch(counter), now[p] + Ttl)
    /\ epoch' = [epoch EXCEPT ![p] = NextEpoch(counter)]
    /\ Return(p)
    /\ UNCHANGED <<clock, started, token, log>>

\* acquire_cycle_lease_epoch by the incarnation the row already names (its
\* release failed): the epoch is kept and only the expiry moves.
AcquireAgain(p) ==
    /\ pc[p] = "acquire"
    /\ SameFencedHolder(p)
    /\ row' = FencedRow(row.token, row.epoch, now[p] + Ttl)
    /\ epoch' = [epoch EXCEPT ![p] = row.epoch]
    /\ Return(p)
    /\ UNCHANGED <<clock, counter, started, token, log>>

\* Seeded fault: the renewal extends the old expiry.
RenewExtends(p) ==
    /\ pc[p] = "renew"
    /\ row' = IF Owns(p) THEN FencedRow(row.token, row.epoch, row.expiry + Ttl) ELSE row
    /\ Return(p)
    /\ UNCHANGED <<clock, counter, started, token, epoch, log>>

\* renew_cycle_lease: the exact epoch is renewed even when it has expired,
\* as long as nobody took it over.
Renew(p) ==
    /\ pc[p] = "renew"
    /\ row' = IF Owns(p) THEN FencedRow(row.token, row.epoch, now[p] + Ttl) ELSE row
    /\ Return(p)
    /\ UNCHANGED <<clock, counter, started, token, epoch, log>>

\* Seeded fault: only the expiry is checked.
FenceUnchecked(p) ==
    /\ pc[p] = "fence"
    /\ row.expiry > now[p]
    /\ Len(log) < MaxLog
    /\ log' = Append(log, [epoch |-> epoch[p], token |-> token[p]])
    /\ Return(p)
    /\ UNCHANGED <<clock, counter, row, started, token, epoch>>

\* cycle_lease_transaction: the check and the enclosed mutations commit
\* together ...
FenceCommit(p) ==
    /\ pc[p] = "fence"
    /\ Owns(p)
    /\ row.expiry > now[p]
    /\ Len(log) < MaxLog
    /\ log' = Append(log, [epoch |-> epoch[p], token |-> token[p]])
    /\ Return(p)
    /\ UNCHANGED <<clock, counter, row, started, token, epoch>>

\* ... or CycleLeaseLostError, or the body raises: everything is rolled back.
FenceRollback(p) ==
    /\ pc[p] = "fence"
    /\ Return(p)
    /\ UNCHANGED <<clock, started, token, epoch, store>>

\* Seeded fault: the counter goes with the row.
ReleaseResets(p) ==
    /\ pc[p] = "idle"
    /\ epoch[p] # NoEpoch
    /\ epoch' = [epoch EXCEPT ![p] = NoEpoch]
    /\ row' = IF Owns(p) THEN NoRow ELSE row
    /\ counter' = IF Owns(p) THEN 0 ELSE counter
    /\ UNCHANGED <<clock, started, pc, token, now, log>>

\* release_cycle_lease: the service forgets the epoch, then the store deletes
\* the row if it is still this incarnation's.  The counter stays.
Release(p) ==
    /\ pc[p] = "idle"
    /\ epoch[p] # NoEpoch
    /\ epoch' = [epoch EXCEPT ![p] = NoEpoch]
    /\ row' = IF Owns(p) THEN NoRow ELSE row
    /\ UNCHANGED <<clock, counter, started, pc, token, now, log>>

\* release_cycle_lease whose store call raises (the database is busy): the
\* epoch is forgotten and the row stays.
ReleaseFails(p) ==
    /\ pc[p] = "idle"
    /\ epoch[p] # NoEpoch
    /\ epoch' = [epoch EXCEPT ![p] = NoEpoch]
    /\ UNCHANGED <<clock, started, pc, token, now, store>>

ProcNext(p) ==
    \/ Start(p) \/ Crash(p)
    \/ CallAcquire(p) \/ CallRenew(p) \/ CallFence(p)
    \/ AcquireHeld(p) \/ AcquireExhausted(p) \/ AcquireNew(p) \/ AcquireAgain(p)
    \/ Renew(p)
    \/ FenceCommit(p) \/ FenceRollback(p)
    \/ Release(p) \/ ReleaseFails(p)

Next == Tick \/ \E p \in Proc : ProcNext(p)

\* The wall clock only moves forward.
Spec == Init /\ [][Next]_vars

\* The wall clock may also be set, backwards included.
SkewSpec == Init /\ [][Next \/ SetClock]_vars

-----------------------------------------------------------------------------
\* Properties

\* The corruption branch of acquire_cycle_lease_epoch ("lease epoch contradicts
\* its counter") is unreachable: a fenced row always carries the counter.
RowMatchesCounter == row.kind = "fenced" => row.epoch = counter

\* At most one process at a time can pass the ownership check of a fenced
\* transaction, whatever the clock does and whoever crashed or was suspended.
SingleWriter ==
    \A p, q \in Proc :
        pc[p] # "down" /\ pc[q] # "down" /\ Owns(p) /\ Owns(q) => p = q

\* The ledger is written in tenures: epochs never go back along the log, and
\* everything written under one epoch was written by one incarnation.  A holder
\* that slept through a takeover cannot interleave with its successor.
LogInTenures ==
    \A i, j \in 1..Len(log) :
        /\ i <= j => log[i].epoch <= log[j].epoch
        /\ log[i].epoch = log[j].epoch => log[i].token = log[j].token

\* What fencing promises together: whatever stalls, crashes or is taken over, the
\* store never meets its corruption branch, one process at most may write, and
\* the ledger is written in tenures (acquire_cycle_lease_epoch, cycle_lease_transaction).
Fencing == TypeOK /\ RowMatchesCounter /\ SingleWriter /\ LogInTenures

\* A process that lost the lease under its epoch (takeover, or a release it
\* did not make) never owns it again under that epoch: renew_cycle_lease cannot
\* resurrect it after the successor released.
LostStaysLost ==
    [][\A p \in Proc :
          (/\ epoch[p] # NoEpoch /\ ~Owns(p)
           /\ epoch'[p] = epoch[p] /\ token'[p] = token[p]) => ~Owns(p)']_vars

\* Whoever holds the lease, alive or dead, blocks the others for at most one
\* lease_ttl from now: needs a wall clock that does not go back.
BlockingBounded == row.kind # "none" => row.expiry <= clock + Ttl

\* The lease implements the exclusive tenures of the abstract specification.
Tenures == INSTANCE ExclusiveTenure WITH
    holder <- IF row.kind = "fenced" THEN row.token ELSE 0,
    tenure <- counter
TenureSpec == Tenures!Spec
=============================================================================
