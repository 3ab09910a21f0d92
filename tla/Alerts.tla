------------------------------- MODULE Alerts -------------------------------
(***************************************************************************)
(* Alerts about durable events (alerts/notifier.py) and their callers in   *)
(* the paper application (cli.py, _notify and _notify_cycle).              *)
(*                                                                         *)
(* A process that persisted a HEALTH_STATE event notifies about it at      *)
(* once; a PAPER_CYCLE event is notified by whichever process finds the    *)
(* cycle completed.  deliver_alert_once claims the alert by appending      *)
(* ALERT_ATTEMPT, sends it outside the transaction, and appends            *)
(* ALERT_FAILURE when the send is reported as failed.  Both appends are    *)
(* fenced by the cycle lease, which may lapse at any moment; whatever      *)
(* raises is swallowed by the callers.                                     *)
(*                                                                         *)
(* The ledger is a sequence of events.  An append never meets a reversed   *)
(* timestamp, because it takes the later of the source's time and the last *)
(* event's (_monotonic_time); times and payloads are not modelled.         *)
(***************************************************************************)
EXTENDS Naturals, Sequences

CONSTANTS
    Procs,     \* paper processes on one ledger
    Healths,   \* HEALTH_STATE events
    Cycles     \* PAPER_CYCLE events

Sources == Healths \cup Cycles

Nobody == "nobody"
NoSource == "no source"

ASSUME AlertsAssumption ==
    /\ Healths \cap Cycles = {}
    /\ Nobody \notin Procs /\ NoSource \notin Sources

VARIABLES
    log,       \* the ledger's events, as far as alerts are concerned
    lease,     \* holder of the cycle lease
    pc,        \* where each process is in deliver_alert_once
    about,     \* the source it delivers
    sent,      \* messages that reached the channel, for each source
    reported   \* sources whose send was reported as failed

vars == <<log, lease, pc, about, sent, reported>>

Kinds == {"SOURCE", "ALERT_ATTEMPT", "ALERT_FAILURE"}
Event(kind, s) == [kind |-> kind, source |-> s]
In(kind, s) == \E i \in 1..Len(log) : log[i] = Event(kind, s)

\* _validate_operational_alert_chain; the store's primary key excludes duplicates.
ValidateOperationalAlertChain ==
    /\ \A i \in 1..Len(log) :
          /\ log[i].kind = "ALERT_ATTEMPT" => \E j \in 1..i - 1 : log[j] = Event("SOURCE", log[i].source)
          /\ log[i].kind = "ALERT_FAILURE" => \E j \in 1..i - 1 : log[j] = Event("ALERT_ATTEMPT", log[i].source)
    /\ \A i, j \in 1..Len(log) : log[i] = log[j] => i = j

-----------------------------------------------------------------------------
\* The lease, as the service uses it (see CycleLease)

Acquire(p) ==
    /\ lease = Nobody /\ pc[p] = "idle"
    /\ lease' = p
    /\ UNCHANGED <<log, pc, about, sent, reported>>

Release(p) ==
    /\ lease = p /\ pc[p] = "idle"
    /\ lease' = Nobody
    /\ UNCHANGED <<log, pc, about, sent, reported>>

Expire ==
    /\ lease # Nobody
    /\ lease' = Nobody
    /\ UNCHANGED <<log, pc, about, sent, reported>>

-----------------------------------------------------------------------------
Notify(p, s) == pc' = [pc EXCEPT ![p] = "claim"] /\ about' = [about EXCEPT ![p] = s]
Done(p) == pc' = [pc EXCEPT ![p] = "idle"] /\ about' = [about EXCEPT ![p] = NoSource]

\* _ObservedCandleSource._persist, then _notify
PersistHealth(p) ==
    \E s \in Healths :
        /\ lease = p /\ pc[p] = "idle" /\ ~In("SOURCE", s)
        /\ log' = Append(log, Event("SOURCE", s))
        /\ Notify(p, s)
        /\ UNCHANGED <<lease, sent, reported>>

\* process_completed_candle: the chain is validated before anything else, and
\* _record_completion ends the cycle; the lease is released before the cycle is notified.
CompleteCycle(p) ==
    \E s \in Cycles :
        /\ lease = p /\ pc[p] = "idle" /\ ~In("SOURCE", s)
        /\ ValidateOperationalAlertChain
        /\ log' = Append(log, Event("SOURCE", s))
        /\ lease' = Nobody
        /\ UNCHANGED <<pc, about, sent, reported>>

\* run_once after PROCESSED or ALREADY_PROCESSED, under a new lease.
NotifyCycle(p) ==
    \E s \in Cycles :
        /\ lease = p /\ pc[p] = "idle" /\ In("SOURCE", s)
        /\ Notify(p, s)
        /\ UNCHANGED <<log, lease, sent, reported>>

\* Seeded fault: an attempt that is there already does not stop the delivery.
ClaimAgain(p) ==
    /\ pc[p] = "claim"
    /\ IF lease = p
       THEN /\ log' = Append(log, Event("ALERT_ATTEMPT", about[p]))
            /\ pc' = [pc EXCEPT ![p] = "send"]
            /\ UNCHANGED about
       ELSE Done(p) /\ UNCHANGED log
    /\ UNCHANGED <<lease, sent, reported>>

\* Seeded fault: the attempt is not written when the lease was lost.
ClaimWithoutLease(p) ==
    /\ pc[p] = "claim"
    /\ IF In("ALERT_ATTEMPT", about[p])
       THEN Done(p) /\ UNCHANGED log
       ELSE /\ log' = IF lease = p THEN Append(log, Event("ALERT_ATTEMPT", about[p])) ELSE log
            /\ pc' = [pc EXCEPT ![p] = "send"]
            /\ UNCHANGED about
    /\ UNCHANGED <<lease, sent, reported>>

\* _require_durable_source and _claim_attempt in one fenced transaction.
Claim(p) ==
    /\ pc[p] = "claim"
    /\ IF lease = p /\ In("SOURCE", about[p]) /\ ~In("ALERT_ATTEMPT", about[p])
       THEN /\ log' = Append(log, Event("ALERT_ATTEMPT", about[p]))
            /\ pc' = [pc EXCEPT ![p] = "send"]
            /\ UNCHANGED about
       ELSE Done(p) /\ UNCHANGED log
    /\ UNCHANGED <<lease, sent, reported>>

\* notifier.send: the message arrives and that is known, it does not arrive, or it
\* arrives and the answer is lost.
Send(p) ==
    /\ pc[p] = "send"
    /\ \E arrives, known \in BOOLEAN :
          /\ known => arrives
          /\ sent' = [sent EXCEPT ![about[p]] = IF arrives THEN @ + 1 ELSE @]
          /\ IF known
             THEN Done(p) /\ UNCHANGED reported
             ELSE /\ reported' = reported \cup {about[p]}
                  /\ pc' = [pc EXCEPT ![p] = "fail"]
                  /\ UNCHANGED about
    /\ UNCHANGED <<log, lease>>

\* _append_exact_once in a fenced transaction; its exceptions are swallowed.
Fail(p) ==
    /\ pc[p] = "fail"
    /\ log' = IF lease = p /\ ~In("ALERT_FAILURE", about[p])
              THEN Append(log, Event("ALERT_FAILURE", about[p])) ELSE log
    /\ Done(p)
    /\ UNCHANGED <<lease, sent, reported>>

\* The process stops; its lease lapses later.
Crash(p) ==
    /\ pc[p] # "idle"
    /\ Done(p)
    /\ UNCHANGED <<log, lease, sent, reported>>

-----------------------------------------------------------------------------
Init ==
    /\ log = <<>>
    /\ lease = Nobody
    /\ pc = [p \in Procs |-> "idle"]
    /\ about = [p \in Procs |-> NoSource]
    /\ sent = [s \in Sources |-> 0]
    /\ reported = {}

Next ==
    \/ Expire
    \/ \E p \in Procs :
          \/ Acquire(p) \/ Release(p)
          \/ PersistHealth(p) \/ CompleteCycle(p) \/ NotifyCycle(p)
          \/ Claim(p) \/ Send(p) \/ Fail(p) \/ Crash(p)

Spec == Init /\ [][Next]_vars

-----------------------------------------------------------------------------
\* Properties

\* The types of the variables.
TypeOK ==
    /\ log \in Seq([kind : Kinds, source : Sources])
    /\ lease \in Procs \cup {Nobody}
    /\ pc \in [Procs -> {"idle", "claim", "send", "fail"}]
    /\ about \in [Procs -> Sources \cup {NoSource}]
    /\ sent \in [Sources -> Nat]
    /\ reported \in SUBSET Sources

\* "at-most-once" (README.md): no source reaches the channel twice, although
\* processes crash, leases lapse during a send, two processes notify the same
\* cycle and an answer may be lost (deliver_alert_once claims before it sends).
AtMostOnce == \A s \in Sources : sent[s] <= 1

\* _validate_operational_alert_chain, which every later cycle runs, accepts the
\* ledger: an attempt follows its source, a failure follows its attempt, and
\* nothing is recorded twice.
ChainValid == ValidateOperationalAlertChain

\* The ledger blames the channel only for what it reported: a failure is recorded
\* for a send that was made and reported as failed, never for a crash between
\* claim and send or for a delivery that is known.
FailureReported == \A s \in Sources : In("ALERT_FAILURE", s) => s \in reported
=============================================================================
