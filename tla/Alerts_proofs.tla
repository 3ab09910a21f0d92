---------------------------- MODULE Alerts_proofs ---------------------------
(***************************************************************************)
(* Alerts are delivered at most once and leave a ledger the service        *)
(* accepts, for any number of processes and events.  The inductive         *)
(* invariant adds to the three properties what a process knows while it    *)
(* delivers: the claim it stands on is in the ledger, nobody else is       *)
(* sending for the same source, and nothing was sent for it yet.           *)
(***************************************************************************)
EXTENDS Alerts, SequenceTheorems, TLAPS

Events == [kind : Kinds, source : Sources]

\* What a process stands on at each step of deliver_alert_once.
Standing ==
    \A p \in Procs :
        /\ pc[p] # "idle" => about[p] \in Sources
        /\ pc[p] = "claim" => In("SOURCE", about[p])
        /\ pc[p] \in {"send", "fail"} => In("ALERT_ATTEMPT", about[p])
        /\ pc[p] = "fail" => about[p] \in reported
        /\ pc[p] = "send" => sent[about[p]] = 0

\* One process at most is sending for a source.
SoleSender ==
    \A p, q \in Procs : pc[p] = "send" /\ pc[q] = "send" /\ about[p] = about[q] => p = q

\* Nothing was sent without an attempt.
SentClaimed == \A s \in Sources : sent[s] # 0 => In("ALERT_ATTEMPT", s)

Inv == TypeOK /\ Standing /\ SoleSender /\ SentClaimed /\ AtMostOnce /\ ChainValid /\ FailureReported

\* An append adds its event to the ledger and keeps every other.
LEMMA AppendIn ==
    ASSUME log \in Seq(Events), NEW e \in Events, log' = Append(log, e),
           NEW kind, NEW s
    PROVE  In(kind, s)' <=> (In(kind, s) \/ e = Event(kind, s))
<1>1. /\ Len(log') = Len(log) + 1
      /\ Len(log) \in Nat
      /\ log'[Len(log) + 1] = e
      /\ \A i \in 1..Len(log) : log'[i] = log[i]
  OBVIOUS
<1>2. 1..Len(log') = (1..Len(log)) \cup {Len(log) + 1}
  BY <1>1
<1>3. In(kind, s)' <=> \E i \in 1..Len(log') : log'[i] = Event(kind, s)
  BY DEF In, Event
<1>4. QED
  BY <1>1, <1>2, <1>3 DEF In

\* The chain stays valid when a new event with what it needs is appended.
LEMMA AppendChain ==
    ASSUME log \in Seq(Events), ChainValid, NEW e \in Events, log' = Append(log, e),
           ~In(e.kind, e.source),
           e.kind = "ALERT_ATTEMPT" => In("SOURCE", e.source),
           e.kind = "ALERT_FAILURE" => In("ALERT_ATTEMPT", e.source)
    PROVE  ChainValid'
<1> DEFINE n == Len(log)
<1>1. /\ Len(log') = n + 1 /\ n \in Nat
      /\ log'[n + 1] = e
      /\ \A i \in 1..n : log'[i] = log[i] /\ log[i] \in Events
  OBVIOUS
<1>2. 1..Len(log') = (1..n) \cup {n + 1}
  BY <1>1
<1>3. \A i \in 1..n : log[i] # e
  BY <1>1 DEF In, Event, Events
<1>4. ASSUME NEW i \in 1..Len(log')
      PROVE  /\ log'[i].kind = "ALERT_ATTEMPT" => \E j \in 1..i - 1 : log'[j] = Event("SOURCE", log'[i].source)
             /\ log'[i].kind = "ALERT_FAILURE" => \E j \in 1..i - 1 : log'[j] = Event("ALERT_ATTEMPT", log'[i].source)
  <2>1. CASE i \in 1..n
    <3>1. /\ log[i].kind = "ALERT_ATTEMPT" => \E j \in 1..i - 1 : log[j] = Event("SOURCE", log[i].source)
          /\ log[i].kind = "ALERT_FAILURE" => \E j \in 1..i - 1 : log[j] = Event("ALERT_ATTEMPT", log[i].source)
      BY <2>1 DEF ChainValid, ValidateOperationalAlertChain
    <3>2. log'[i] = log[i] /\ \A j \in 1..i - 1 : log'[j] = log[j]
      BY <1>1, <2>1
    <3>3. QED
      BY <3>1, <3>2
  <2>2. CASE i = n + 1
    <3>1. 1..i - 1 = 1..n
      BY <2>2, <1>1
    <3>2. log'[i] = e
      BY <2>2, <1>1
    <3>3. QED
      BY <3>1, <3>2, <1>1 DEF In
  <2>3. QED
    BY <2>1, <2>2, <1>2
<1>5. ASSUME NEW i \in 1..Len(log'), NEW j \in 1..Len(log'), log'[i] = log'[j]
      PROVE  i = j
  <2>1. i \in 1..n /\ j \in 1..n => i = j
    BY <1>1, <1>5 DEF ChainValid, ValidateOperationalAlertChain
  <2>2. QED
    BY <2>1, <1>1, <1>2, <1>3, <1>5
<1>6. QED
  BY <1>4, <1>5 DEF ChainValid, ValidateOperationalAlertChain, Event

\* Initially nothing is claimed, sent or recorded.
LEMMA InitInv == Init => Inv
<1> SUFFICES ASSUME Init PROVE Inv
  OBVIOUS
<1>1. TypeOK
  BY DEF Init, TypeOK
<1>2. Len(log) = 0
  BY DEF Init
<1>3. \A kind, s : ~In(kind, s)
  BY <1>2 DEF In
<1>4. ChainValid
  BY <1>2 DEF ChainValid, ValidateOperationalAlertChain
<1>5. QED
  BY <1>1, <1>3, <1>4 DEF Init, Inv, Standing, SoleSender, SentClaimed, AtMostOnce, FailureReported

\* A step that leaves the ledger alone keeps what is in it.
LEMMA SameLog ==
    ASSUME log' = log
    PROVE  /\ \A kind, s : In(kind, s)' <=> In(kind, s)
           /\ ChainValid => ChainValid'
<1>1. \A kind, s : In(kind, s)' <=> In(kind, s)
  BY DEF In, Event
<1>2. ChainValid => ChainValid'
  BY DEF ChainValid, ValidateOperationalAlertChain, Event
<1>3. QED
  BY <1>1, <1>2

\* Every step preserves the invariant.
LEMMA NextInv == Inv /\ [Next]_vars => Inv'
<1> SUFFICES ASSUME Inv, [Next]_vars PROVE Inv'
  OBVIOUS
<1>t. TypeOK /\ Standing /\ SoleSender /\ SentClaimed /\ AtMostOnce /\ ChainValid /\ FailureReported
  BY DEF Inv
<1>l. log \in Seq(Events)
  BY <1>t DEF TypeOK, Events
<1>1. ASSUME lease' \in Procs \cup {Nobody}, UNCHANGED <<log, pc, about, sent, reported>>
      PROVE  Inv'
  <2>1. TypeOK' /\ Standing' /\ SoleSender' /\ SentClaimed' /\ AtMostOnce' /\ FailureReported'
    BY <1>1, <1>t, SameLog DEF TypeOK, Standing, SoleSender, SentClaimed, AtMostOnce, FailureReported
  <2>2. QED
    BY <2>1, <1>1, <1>t, SameLog DEF Inv
<1>2. CASE Expire
  BY <1>1, <1>2 DEF Expire
<1>3. ASSUME NEW p \in Procs, Acquire(p) PROVE Inv'
  BY <1>1, <1>3 DEF Acquire
<1>4. ASSUME NEW p \in Procs, Release(p) PROVE Inv'
  BY <1>1, <1>4 DEF Release
<1>5. ASSUME NEW p \in Procs, PersistHealth(p) PROVE Inv'
  <2>1. PICK s \in Healths : /\ pc[p] = "idle" /\ ~In("SOURCE", s)
                             /\ log' = Append(log, Event("SOURCE", s))
                             /\ Notify(p, s)
                             /\ UNCHANGED <<lease, sent, reported>>
    BY <1>5 DEF PersistHealth
  <2>2. s \in Sources /\ Event("SOURCE", s) \in Events
    BY DEF Sources, Event, Events, Kinds
  <2>3. \A kind, x : In(kind, x)' <=> (In(kind, x) \/ Event("SOURCE", s) = Event(kind, x))
    BY <2>1, <2>2, <1>l, AppendIn
  <2>4. ChainValid'
    BY <2>1, <2>2, <1>l, <1>t, AppendChain DEF Event
  <2>5. TypeOK'
    BY <2>1, <2>2, <1>t DEF TypeOK, Notify, Events
  <2>6. Standing' /\ SoleSender' /\ SentClaimed' /\ AtMostOnce' /\ FailureReported'
    BY <2>1, <2>2, <2>3, <1>t
       DEF TypeOK, Notify, Standing, SoleSender, SentClaimed, AtMostOnce, FailureReported, Event
  <2>7. QED
    BY <2>4, <2>5, <2>6 DEF Inv
<1>6. ASSUME NEW p \in Procs, CompleteCycle(p) PROVE Inv'
  <2>1. PICK s \in Cycles : /\ ~In("SOURCE", s)
                            /\ log' = Append(log, Event("SOURCE", s))
                            /\ lease' = Nobody
                            /\ UNCHANGED <<pc, about, sent, reported>>
    BY <1>6 DEF CompleteCycle
  <2>2. s \in Sources /\ Event("SOURCE", s) \in Events
    BY DEF Sources, Event, Events, Kinds
  <2>3. \A kind, x : In(kind, x)' <=> (In(kind, x) \/ Event("SOURCE", s) = Event(kind, x))
    BY <2>1, <2>2, <1>l, AppendIn
  <2>4. ChainValid'
    BY <2>1, <2>2, <1>l, <1>t, AppendChain DEF Event
  <2>5. TypeOK'
    BY <2>1, <2>2, <1>t DEF TypeOK, Events
  <2>6. Standing' /\ SoleSender' /\ SentClaimed' /\ AtMostOnce' /\ FailureReported'
    BY <2>1, <2>2, <2>3, <1>t
       DEF TypeOK, Standing, SoleSender, SentClaimed, AtMostOnce, FailureReported, Event
  <2>7. QED
    BY <2>4, <2>5, <2>6 DEF Inv
<1>7. ASSUME NEW p \in Procs, NotifyCycle(p) PROVE Inv'
  <2>1. PICK s \in Cycles : /\ pc[p] = "idle" /\ In("SOURCE", s)
                            /\ Notify(p, s)
                            /\ UNCHANGED <<log, lease, sent, reported>>
    BY <1>7 DEF NotifyCycle
  <2>2. s \in Sources
    BY DEF Sources
  <2>3. TypeOK'
    BY <2>1, <2>2, <1>t DEF TypeOK, Notify
  <2>4. Standing' /\ SoleSender' /\ SentClaimed' /\ AtMostOnce' /\ FailureReported'
    BY <2>1, <2>2, <1>t, SameLog
       DEF TypeOK, Notify, Standing, SoleSender, SentClaimed, AtMostOnce, FailureReported
  <2>5. QED
    BY <2>1, <2>3, <2>4, <1>t, SameLog DEF Inv
<1>8. ASSUME NEW p \in Procs, Done(p), UNCHANGED <<log, lease, sent, reported>> PROVE Inv'
  <2>1. TypeOK'
    BY <1>8, <1>t DEF TypeOK, Done
  <2>2. Standing' /\ SoleSender' /\ SentClaimed' /\ AtMostOnce' /\ FailureReported'
    BY <1>8, <1>t, SameLog
       DEF TypeOK, Done, Standing, SoleSender, SentClaimed, AtMostOnce, FailureReported
  <2>3. QED
    BY <1>8, <2>1, <2>2, <1>t, SameLog DEF Inv
<1>9. ASSUME NEW p \in Procs, Claim(p) PROVE Inv'
  <2> DEFINE s == about[p]
  <2>1. CASE lease = p /\ In("SOURCE", s) /\ ~In("ALERT_ATTEMPT", s)
    <3>1. /\ pc[p] = "claim"
          /\ log' = Append(log, Event("ALERT_ATTEMPT", s))
          /\ pc' = [pc EXCEPT ![p] = "send"]
          /\ UNCHANGED <<about, lease, sent, reported>>
      BY <1>9, <2>1 DEF Claim
    <3>2. s \in Sources /\ Event("ALERT_ATTEMPT", s) \in Events
      BY <3>1, <1>t DEF Standing, Event, Events, Kinds
    <3>3. \A kind, x : In(kind, x)' <=> (In(kind, x) \/ Event("ALERT_ATTEMPT", s) = Event(kind, x))
      BY <3>1, <3>2, <1>l, AppendIn
    <3>4. ChainValid'
      BY <2>1, <3>1, <3>2, <1>l, <1>t, AppendChain DEF Event
    <3>5. TypeOK'
      BY <3>1, <3>2, <1>t DEF TypeOK, Events
    <3>6. Event("ALERT_ATTEMPT", s) = Event("ALERT_ATTEMPT", s)
      OBVIOUS
    <3>7. sent[s] = 0
      BY <2>1, <3>2, <1>t DEF SentClaimed
    <3>8. \A q \in Procs : pc[q] = "send" => about[q] # s
      BY <2>1, <1>t DEF Standing
    <3>9. Standing'
      BY <3>1, <3>2, <3>3, <3>7, <1>t DEF TypeOK, Standing
    <3>10. SoleSender'
      BY <3>1, <3>8, <1>t DEF TypeOK, SoleSender
    <3>11. SentClaimed' /\ AtMostOnce' /\ FailureReported'
      BY <3>1, <3>3, <1>t DEF SentClaimed, AtMostOnce, FailureReported, Event
    <3>12. QED
      BY <3>4, <3>5, <3>9, <3>10, <3>11 DEF Inv
  <2>2. CASE ~(lease = p /\ In("SOURCE", s) /\ ~In("ALERT_ATTEMPT", s))
    BY <1>8, <1>9, <2>2 DEF Claim
  <2>3. QED
    BY <2>1, <2>2
<1>10. ASSUME NEW p \in Procs, Send(p) PROVE Inv'
  <2>1. PICK arrives, known \in BOOLEAN :
           /\ sent' = [sent EXCEPT ![about[p]] = IF arrives THEN @ + 1 ELSE @]
           /\ IF known
              THEN Done(p) /\ UNCHANGED reported
              ELSE /\ reported' = reported \cup {about[p]}
                   /\ pc' = [pc EXCEPT ![p] = "fail"]
                   /\ UNCHANGED about
    BY <1>10 DEF Send
  <2>2. pc[p] = "send" /\ UNCHANGED <<log, lease>>
    BY <1>10 DEF Send
  <2>3. about[p] \in Sources /\ In("ALERT_ATTEMPT", about[p]) /\ sent[about[p]] = 0
    BY <2>2, <1>t DEF Standing
  <2>4. /\ sent'[about[p]] \in 0..1
        /\ \A s \in Sources \ {about[p]} : sent'[s] = sent[s]
        /\ sent' \in [Sources -> Nat]
    BY <2>1, <2>3, <1>t DEF TypeOK
  <2>5. /\ pc'[p] \in {"idle", "fail"}
        /\ pc' \in [Procs -> {"idle", "claim", "send", "fail"}]
        /\ about' \in [Procs -> Sources \cup {NoSource}]
        /\ \A q \in Procs \ {p} : pc'[q] = pc[q] /\ about'[q] = about[q]
        /\ pc'[p] = "fail" => about'[p] = about[p] /\ about[p] \in reported'
    BY <2>1, <1>t DEF TypeOK, Done
  <2>6. reported \subseteq reported' /\ reported' \in SUBSET Sources
    BY <2>1, <2>3, <1>t DEF TypeOK
  <2>7. TypeOK'
    BY <2>2, <2>4, <2>5, <2>6, <1>t DEF TypeOK
  <2>8. \A q \in Procs \ {p} : pc[q] = "send" => about[q] # about[p]
    BY <2>2, <1>t DEF SoleSender
  <2>9. Standing'
    BY <2>2, <2>3, <2>4, <2>5, <2>6, <2>8, <1>t, SameLog DEF Standing
  <2>10. SoleSender'
    BY <2>5, <1>t DEF SoleSender
  <2>11. SentClaimed'
    BY <2>2, <2>3, <2>4, <1>t, SameLog DEF SentClaimed
  <2>12. AtMostOnce'
    BY <2>4, <1>t DEF AtMostOnce
  <2>13. FailureReported'
    BY <2>2, <2>6, <1>t, SameLog DEF FailureReported
  <2>14. QED
    BY <2>2, <2>7, <2>9, <2>10, <2>11, <2>12, <2>13, <1>t, SameLog DEF Inv
<1>11. ASSUME NEW p \in Procs, Fail(p) PROVE Inv'
  <2> DEFINE s == about[p]
  <2>1. CASE lease = p /\ ~In("ALERT_FAILURE", s)
    <3>1. /\ pc[p] = "fail"
          /\ log' = Append(log, Event("ALERT_FAILURE", s))
          /\ Done(p)
          /\ UNCHANGED <<lease, sent, reported>>
      BY <1>11, <2>1 DEF Fail
    <3>2. s \in Sources /\ s \in reported /\ In("ALERT_ATTEMPT", s)
      BY <3>1, <1>t DEF Standing
    <3>3. Event("ALERT_FAILURE", s) \in Events
      BY <3>2 DEF Event, Events, Kinds
    <3>4. \A kind, x : In(kind, x)' <=> (In(kind, x) \/ Event("ALERT_FAILURE", s) = Event(kind, x))
      BY <3>1, <3>3, <1>l, AppendIn
    <3>5. ChainValid'
      BY <2>1, <3>1, <3>2, <3>3, <1>l, <1>t, AppendChain DEF Event
    <3>6. TypeOK'
      BY <3>1, <3>3, <1>t DEF TypeOK, Done, Events
    <3>7. Standing' /\ SoleSender' /\ SentClaimed' /\ AtMostOnce'
      BY <3>1, <3>4, <1>t DEF TypeOK, Done, Standing, SoleSender, SentClaimed, AtMostOnce
    <3>8. FailureReported'
      BY <3>1, <3>2, <3>4, <1>t DEF FailureReported, Event
    <3>9. QED
      BY <3>5, <3>6, <3>7, <3>8 DEF Inv
  <2>2. CASE ~(lease = p /\ ~In("ALERT_FAILURE", s))
    BY <1>8, <1>11, <2>2 DEF Fail
  <2>3. QED
    BY <2>1, <2>2
<1>12. ASSUME NEW p \in Procs, Crash(p) PROVE Inv'
  BY <1>8, <1>12 DEF Crash
<1>13. CASE UNCHANGED vars
  BY <1>1, <1>13, <1>t DEF vars, TypeOK
<1>14. QED
  BY <1>2, <1>3, <1>4, <1>5, <1>6, <1>7, <1>9, <1>10, <1>11, <1>12, <1>13 DEF Next

\* The inductive invariant holds in every reachable state.
THEOREM InvHolds == Spec => []Inv
BY InitInv, NextInv, PTL DEF Spec

\* No alert reaches the channel twice (deliver_alert_once), whatever the number
\* of processes and events.
THEOREM AtMostOnceHolds == Spec => []AtMostOnce
<1>1. Inv => AtMostOnce
  BY DEF Inv
<1>2. QED
  BY <1>1, InvHolds, PTL

\* The alert evidence always passes _validate_operational_alert_chain.
THEOREM ChainValidHolds == Spec => []ChainValid
<1>1. Inv => ChainValid
  BY DEF Inv
<1>2. QED
  BY <1>1, InvHolds, PTL

\* A recorded failure was reported by the channel.
THEOREM FailureReportedHolds == Spec => []FailureReported
<1>1. Inv => FailureReported
  BY DEF Inv
<1>2. QED
  BY <1>1, InvHolds, PTL
=============================================================================
