---------------------- MODULE ReleaseTransaction_proofs ----------------------
(***************************************************************************)
(* For every set of releases, every assignment of configuration files and  *)
(* any number of activations, failed rollback commands and reboots: the    *)
(* process on the host is the one current names, the host only changes     *)
(* while it is stopped and its ledger is copied, and an activation is      *)
(* applied or undone as a whole.                                           *)
(*                                                                         *)
(* The inductive invariant relates the host, at each command of the        *)
(* script, to the snapshot the activation took and to what the script      *)
(* remembers of it: that is what makes the rollback's last command leave   *)
(* the host the snapshot describes.                                        *)
(***************************************************************************)
EXTENDS ReleaseTransaction, TLAPS

\* Commands that run with the service down.
Down == (Forward \ {"stop", "verify"}) \cup (Rollback \ {"rb_stop"})

\* Commands that have not been preceded by a change of the unit, of the journald
\* file, of the link.
UntilUnit == {"stop", "backup", "unit"}
UntilJournal == UntilUnit \cup {"journal"}
UntilLink == UntilJournal \cup {"journald", "link", "rename"}

\* Commands that follow the restoration of the unit, of the journald file, the
\* restart of its daemon, the restoration of the link.
UnitRestored == Rollback \ {"rb_stop", "rb_unit"}
JournalRestored == UnitRestored \ {"rb_journal"}
JournaldRestored == JournalRestored \ {"rb_journald"}
LinkRestored == {"rb_enable", "rb_start"}

Process ==
    /\ service \in {Stopped, Active(link), [Active(link) EXCEPT !.state = "restarting"]}
    /\ service # Stopped => link # Absent /\ unit # Absent
    /\ pc \in Down => service = Stopped
    /\ enabled => link # Absent

\* What the script read of the host is the snapshot.
Snapshot ==
    pc # "idle" =>
        /\ tx.candidate \in Releases
        /\ tx.previous = before.link /\ tx.wasEnabled = before.enabled
        /\ tx.wasActive <=> before.state = "active"
        /\ before.state = "active" => before.link # Absent /\ before.unit # Absent
        /\ before.enabled => before.link # Absent

UnitUndo ==
    pc # "idle" =>
        /\ pc \in UntilUnit => tx.unitState = ""
        /\ pc \in Forward \ UntilUnit => unit = UnitOf[tx.candidate]
        /\ tx.unitState \in {"", "UNCHANGED"} \/ pc \in UnitRestored => unit = before.unit
        /\ tx.unitState = "EXISTING" => tx.unitBackup = before.unit
        /\ tx.unitState = "ABSENT" => before.unit = Absent
        /\ tx.unitState \in {"EXISTING", "ABSENT"} /\ pc \notin UnitRestored
                => unit = UnitOf[tx.candidate]

JournalUndo ==
    pc # "idle" =>
        /\ pc \in UntilJournal => tx.journalState = ""
        /\ pc \in Forward \ UntilJournal => journal = JournalOf[tx.candidate]
        /\ pc \in Forward \ (UntilJournal \cup {"journald"}) => journald = journal
        /\ tx.journalState \in {"", "UNCHANGED"} \/ pc \in JournalRestored
                => journal = before.journal
        /\ tx.journalState = "EXISTING" => tx.journalBackup = before.journal
        /\ tx.journalState = "ABSENT" => before.journal = Absent
        /\ before.journald = before.journal
                /\ (tx.journalState \in {"", "UNCHANGED"} \/ pc \in JournaldRestored)
                => journald = journal

LinkUndo ==
    pc # "idle" =>
        /\ pc \in UntilLink \cup LinkRestored => link = before.link
        /\ pc \in Forward \ UntilLink => link = tx.candidate
        /\ link \in {before.link, tx.candidate}
        /\ ~tx.enableTried => enabled = before.enabled
        /\ tx.previous = Absent /\ pc \in Rollback \ {"rb_stop"} => ~enabled
        /\ pc = "rb_start" => enabled = before.enabled
        /\ pc \in {"enable", "start", "verify"} => tx.enableTried
        /\ pc \in {"start", "verify"} => enabled
        /\ pc = "rb_rename" => tx.previous # Absent

Copied ==
    pc # "idle" /\ ~ledgerCopy =>
        /\ pc \in {"stop", "backup"} \cup Rollback
        /\ tx.unitState = "" /\ tx.journalState = ""
        /\ link = before.link

Inv ==
    /\ TypeOK /\ Process /\ Snapshot /\ UnitUndo /\ JournalUndo /\ LinkUndo /\ Copied

-----------------------------------------------------------------------------
\* The prepared host satisfies the invariant.
LEMMA InitInv == Init => Inv
<1> SUFFICES ASSUME Init PROVE Inv
    OBVIOUS
<1> USE ReleaseAssumption
<1> USE DEF Init, NoTransaction, Forward, Rollback, ConfigStates, Down, UntilUnit, UntilJournal, UntilLink,
        UnitRestored, JournalRestored, JournaldRestored, LinkRestored, Stopped, Active, TxType
<1>1. TypeOK
    BY DEF TypeOK
<1>2. Process
    BY DEF Process
<1>3. Snapshot
    BY DEF Snapshot
<1>4. UnitUndo
    BY DEF UnitUndo
<1>5. JournalUndo
    BY DEF JournalUndo
<1>6. LinkUndo
    BY DEF LinkUndo
<1>7. Copied
    BY DEF Copied
<1> QED
    BY <1>1, <1>2, <1>3, <1>4, <1>5, <1>6, <1>7 DEF Inv

\* Every step of the script, of systemd and of the host preserves the invariant.
LEMMA NextInv == Inv /\ [Next]_vars => Inv'
<1> SUFFICES ASSUME Inv, [Next]_vars PROVE Inv'
    OBVIOUS
<1> USE ReleaseAssumption
<1>a. /\ tx.candidate \in Releases \cup {Absent} /\ tx.previous \in Releases \cup {Absent}
      /\ tx.unitBackup \in Units \cup {Absent} /\ tx.journalBackup \in Journals \cup {Absent}
      /\ tx.wasEnabled \in BOOLEAN
    BY DEF Inv, TypeOK, TxType
<1>b. service.state = "active" => link # Absent /\ unit # Absent
    <2>1. service.state = "active" => service # Stopped
        BY DEF Stopped
    <2> QED
        BY <2>1 DEF Inv, Process
<1> USE DEF Forward, Rollback, ConfigStates, Down, UntilUnit, UntilJournal, UntilLink,
        UnitRestored, JournalRestored, JournaldRestored, LinkRestored, Stopped, Active,
        disk, daemons, bounds, Inv
<1>1. ASSUME NEW r \in Releases, Begin(r) PROVE Inv'
    <2> USE <1>1 DEF Begin, NoTransaction, Host
    <2>1. TypeOK'
        BY DEF TypeOK, TxType
    <2>2. Process'
        BY DEF TypeOK, Process, Snapshot, UnitUndo, LinkUndo, TxType
    <2>3. Snapshot'
        <3>2. enabled => link # Absent
            BY DEF Process
        <3>3. tx' \in TxType /\ tx'.candidate = r /\ tx'.previous = link
                /\ tx'.wasEnabled = enabled /\ tx'.wasActive = (service.state = "active")
            BY DEF TypeOK, TxType
        <3>4. before'.link = link /\ before'.unit = unit /\ before'.enabled = enabled
                /\ before'.state = service.state
            OBVIOUS
        <3> QED
            BY <1>b, <3>2, <3>3, <3>4 DEF Snapshot
    <2>4. UnitUndo'
        BY DEF TypeOK, Snapshot, UnitUndo, TxType
    <2>5. JournalUndo'
        BY DEF TypeOK, Snapshot, JournalUndo, TxType
    <2>6. LinkUndo'
        BY DEF TypeOK, Process, Snapshot, LinkUndo, TxType
    <2>7. Copied'
        BY DEF TypeOK, Snapshot, UnitUndo, JournalUndo, LinkUndo, Copied, TxType
    <2> QED
        BY <2>1, <2>2, <2>3, <2>4, <2>5, <2>6, <2>7 DEF Inv
<1>2. CASE StopService
    <2> USE <1>2 DEF StopService
    <2>1. TypeOK'
        BY DEF TypeOK
    <2>2. Process'
        BY DEF TypeOK, Process, Snapshot, UnitUndo, LinkUndo, TxType
    <2>3. Snapshot' /\ UnitUndo' /\ JournalUndo' /\ LinkUndo' /\ Copied'
        BY DEF TypeOK, Process, TxType, Snapshot, UnitUndo, JournalUndo, LinkUndo, Copied
    <2> QED
        BY <2>1, <2>2, <2>3 DEF Inv
<1>3. CASE BackupClosedLedger
    <2> USE <1>3 DEF BackupClosedLedger
    <2>1. TypeOK'
        BY DEF TypeOK
    <2>2. Process'
        BY DEF TypeOK, Process, Snapshot, UnitUndo, LinkUndo, TxType
    <2>3. Snapshot' /\ UnitUndo' /\ JournalUndo' /\ LinkUndo' /\ Copied'
        BY DEF TypeOK, Process, TxType, Snapshot, UnitUndo, JournalUndo, LinkUndo, Copied
    <2> QED
        BY <2>1, <2>2, <2>3 DEF Inv
<1>4. CASE InstallUnit
    <2> USE <1>4 DEF InstallUnit, ConfigState
    <2>1. TypeOK'
        <3>1. ConfigState(unit, UnitOf[tx.candidate]) \in ConfigStates
            BY DEF ConfigState
        <3>2. tx' \in TxType
            BY <3>1 DEF TypeOK, TxType
        <3>3. UnitOf[tx.candidate] \in Units
            BY DEF Snapshot
        <3> QED
            BY <3>2, <3>3 DEF TypeOK
    <2>2. Process'
        BY DEF TypeOK, Process, Snapshot, UnitUndo, LinkUndo, TxType
    <2>3. Snapshot'
        BY DEF TypeOK, Process, Snapshot, TxType
    <2>4. UnitUndo'
        BY DEF TypeOK, Snapshot, UnitUndo, TxType
    <2>5. JournalUndo'
        BY DEF TypeOK, Snapshot, JournalUndo, TxType
    <2>6. LinkUndo'
        BY DEF TypeOK, Process, Snapshot, LinkUndo, TxType
    <2>7. Copied'
        BY DEF TypeOK, Snapshot, UnitUndo, JournalUndo, LinkUndo, Copied, TxType
    <2> QED
        BY <2>1, <2>2, <2>3, <2>4, <2>5, <2>6, <2>7 DEF Inv
<1>5. CASE InstallJournal
    <2> USE <1>5 DEF InstallJournal, ConfigState
    <2>1. TypeOK'
        <3>1. ConfigState(journal, JournalOf[tx.candidate]) \in ConfigStates
            BY DEF ConfigState
        <3>2. tx' \in TxType
            BY <3>1 DEF TypeOK, TxType
        <3>3. JournalOf[tx.candidate] \in Journals
            BY DEF Snapshot
        <3> QED
            BY <3>2, <3>3 DEF TypeOK
    <2>2. Process'
        BY DEF TypeOK, Process, Snapshot, UnitUndo, LinkUndo, TxType
    <2>3. Snapshot'
        BY DEF TypeOK, Process, Snapshot, TxType
    <2>4. UnitUndo'
        BY DEF TypeOK, Snapshot, UnitUndo, TxType
    <2>5. JournalUndo'
        BY DEF TypeOK, Snapshot, JournalUndo, TxType
    <2>6. LinkUndo'
        BY DEF TypeOK, Process, Snapshot, LinkUndo, TxType
    <2>7. Copied'
        BY DEF TypeOK, Snapshot, UnitUndo, JournalUndo, LinkUndo, Copied, TxType
    <2> QED
        BY <2>1, <2>2, <2>3, <2>4, <2>5, <2>6, <2>7 DEF Inv
<1>6. CASE RestartJournald
    <2> USE <1>6 DEF RestartJournald
    <2>1. TypeOK'
        BY DEF TypeOK
    <2>2. Process'
        BY DEF TypeOK, Process, Snapshot, UnitUndo, LinkUndo, TxType
    <2>3. Snapshot' /\ UnitUndo' /\ JournalUndo' /\ LinkUndo' /\ Copied'
        BY DEF TypeOK, Process, TxType, Snapshot, UnitUndo, JournalUndo, LinkUndo, Copied
    <2> QED
        BY <2>1, <2>2, <2>3 DEF Inv
<1>7. CASE LinkCandidate
    <2> USE <1>7 DEF LinkCandidate
    <2>1. TypeOK'
        BY DEF TypeOK
    <2>2. Process'
        BY DEF TypeOK, Process, Snapshot, UnitUndo, LinkUndo, TxType
    <2>3. Snapshot' /\ UnitUndo' /\ JournalUndo' /\ LinkUndo' /\ Copied'
        BY DEF TypeOK, Process, TxType, Snapshot, UnitUndo, JournalUndo, LinkUndo, Copied
    <2> QED
        BY <2>1, <2>2, <2>3 DEF Inv
<1>8. CASE RenameCandidate
    <2> USE <1>8 DEF RenameCandidate
    <2>1. TypeOK'
        BY <1>a DEF TypeOK
    <2>2. Process'
        BY DEF TypeOK, Process, Snapshot, UnitUndo, LinkUndo, TxType
    <2>3. Snapshot' /\ UnitUndo' /\ JournalUndo' /\ LinkUndo' /\ Copied'
        BY DEF TypeOK, Process, TxType, Snapshot, UnitUndo, JournalUndo, LinkUndo, Copied
    <2> QED
        BY <2>1, <2>2, <2>3 DEF Inv
<1>9. CASE DaemonReload
    <2> USE <1>9 DEF DaemonReload
    <2>1. TypeOK'
        BY DEF TypeOK, TxType
    <2>2. Process'
        BY DEF TypeOK, Process, Snapshot, UnitUndo, LinkUndo, TxType
    <2>3. Snapshot' /\ UnitUndo' /\ JournalUndo' /\ LinkUndo' /\ Copied'
        BY DEF TypeOK, Process, TxType, Snapshot, UnitUndo, JournalUndo, LinkUndo, Copied
    <2> QED
        BY <2>1, <2>2, <2>3 DEF Inv
<1>10. CASE EnableService
    <2> USE <1>10 DEF EnableService
    <2>1. TypeOK'
        BY DEF TypeOK, TxType
    <2>2. Process'
        BY DEF TypeOK, Process, Snapshot, UnitUndo, LinkUndo, TxType
    <2>3. Snapshot' /\ UnitUndo' /\ JournalUndo' /\ LinkUndo' /\ Copied'
        BY DEF TypeOK, Process, TxType, Snapshot, UnitUndo, JournalUndo, LinkUndo, Copied
    <2> QED
        BY <2>1, <2>2, <2>3 DEF Inv
<1>11. CASE StartService
    <2> USE <1>11 DEF StartService
    <2>1. TypeOK'
        BY DEF TypeOK
    <2>2. Process'
        <3>1. link \in Releases /\ unit \in Units
            BY DEF Snapshot, UnitUndo, LinkUndo
        <3>2. link' = link /\ unit' = unit /\ enabled' = enabled
            OBVIOUS
        <3> QED
            BY <3>1, <3>2 DEF Process
    <2>3. Snapshot' /\ UnitUndo' /\ JournalUndo' /\ LinkUndo' /\ Copied'
        BY DEF TypeOK, Process, TxType, Snapshot, UnitUndo, JournalUndo, LinkUndo, Copied
    <2> QED
        BY <2>1, <2>2, <2>3 DEF Inv
<1>12. CASE VerifyService
    <2> USE <1>12 DEF VerifyService
    <2>1. TypeOK'
        BY DEF TypeOK
    <2>2. Process'
        BY DEF TypeOK, Process, Snapshot, UnitUndo, LinkUndo, TxType
    <2>3. Snapshot' /\ UnitUndo' /\ JournalUndo' /\ LinkUndo' /\ Copied'
        BY DEF TypeOK, Process, TxType, Snapshot, UnitUndo, JournalUndo, LinkUndo, Copied
    <2> QED
        BY <2>1, <2>2, <2>3 DEF Inv
<1>13. CASE CommandFails
    <2> USE <1>13 DEF CommandFails
    <2>1. TypeOK'
        BY DEF TypeOK
    <2>2. Process'
        BY DEF TypeOK, Process, Snapshot, UnitUndo, LinkUndo, TxType
    <2>3. Snapshot'
        BY DEF TypeOK, Snapshot
    <2>4. UnitUndo'
        BY DEF TypeOK, Snapshot, UnitUndo
    <2>5. JournalUndo'
        BY DEF TypeOK, Snapshot, JournalUndo
    <2>6. LinkUndo'
        BY DEF TypeOK, Snapshot, LinkUndo
    <2>7. Copied'
        BY DEF TypeOK, UnitUndo, JournalUndo, LinkUndo, Copied
    <2> QED
        BY <2>1, <2>2, <2>3, <2>4, <2>5, <2>6, <2>7 DEF Inv
<1>14. CASE RollbackStop
    <2> USE <1>14 DEF RollbackStop, RollbackFailed
    <2>1. TypeOK'
        BY DEF TypeOK
    <2>2. Process'
        <3>1. service' \in {service, Stopped} /\ enabled' \in {enabled, FALSE}
            OBVIOUS
        <3>2. pc' = "idle" \/ (service'.state = "stopped" /\ pc' = "rb_unit")
            <4>1. PICK stopFails \in BOOLEAN, disableFails \in BOOLEAN :
                    IF stopFails \/ disableFails \/ service'.state # "stopped"
                    THEN RollbackFailed ELSE pc' = "rb_unit" /\ UNCHANGED result
                BY ZenonT(30)
            <4> QED
                BY <4>1
        <3>3. Active(link).state # "stopped"
                /\ [Active(link) EXCEPT !.state = "restarting"].state # "stopped"
            OBVIOUS
        <3> QED
            BY <3>1, <3>2, <3>3 DEF TypeOK, Process
    <2>3. Snapshot'
        BY DEF TypeOK, Process, Snapshot, TxType
    <2>4. UnitUndo'
        BY DEF TypeOK, Snapshot, UnitUndo, TxType
    <2>5. JournalUndo'
        BY DEF TypeOK, Snapshot, JournalUndo, TxType
    <2>6. LinkUndo'
        BY DEF TypeOK, Process, Snapshot, LinkUndo, TxType
    <2>7. Copied'
        BY DEF TypeOK, Snapshot, UnitUndo, JournalUndo, LinkUndo, Copied, TxType
    <2> QED
        BY <2>1, <2>2, <2>3, <2>4, <2>5, <2>6, <2>7 DEF Inv
<1>15. CASE RestoreUnit
    <2> USE <1>15 DEF RestoreUnit, Restored
    <2>1. TypeOK'
        BY <1>a DEF TypeOK
    <2>2. Process'
        BY DEF TypeOK, Process, Snapshot, UnitUndo, LinkUndo, TxType
    <2>3. Snapshot'
        BY DEF TypeOK, Process, Snapshot, TxType
    <2>4. UnitUndo'
        BY DEF TypeOK, Snapshot, UnitUndo, TxType
    <2>5. JournalUndo'
        BY DEF TypeOK, Snapshot, JournalUndo, TxType
    <2>6. LinkUndo'
        BY DEF TypeOK, Process, Snapshot, LinkUndo, TxType
    <2>7. Copied'
        BY DEF TypeOK, Snapshot, UnitUndo, JournalUndo, LinkUndo, Copied, TxType
    <2> QED
        BY <2>1, <2>2, <2>3, <2>4, <2>5, <2>6, <2>7 DEF Inv
<1>16. CASE RestoreJournal
    <2> USE <1>16 DEF RestoreJournal, Restored
    <2>1. TypeOK'
        BY <1>a DEF TypeOK
    <2>2. Process'
        BY DEF TypeOK, Process, Snapshot, UnitUndo, LinkUndo, TxType
    <2>3. Snapshot'
        BY DEF TypeOK, Process, Snapshot, TxType
    <2>4. UnitUndo'
        BY DEF TypeOK, Snapshot, UnitUndo, TxType
    <2>5. JournalUndo'
        BY DEF TypeOK, Snapshot, JournalUndo, TxType
    <2>6. LinkUndo'
        BY DEF TypeOK, Process, Snapshot, LinkUndo, TxType
    <2>7. Copied'
        BY DEF TypeOK, Snapshot, UnitUndo, JournalUndo, LinkUndo, Copied, TxType
    <2> QED
        BY <2>1, <2>2, <2>3, <2>4, <2>5, <2>6, <2>7 DEF Inv
<1>17. CASE RollbackJournald
    <2> USE <1>17 DEF RollbackJournald
    <2>1. TypeOK'
        BY DEF TypeOK
    <2>2. Process'
        BY DEF TypeOK, Process, Snapshot, UnitUndo, LinkUndo, TxType
    <2>3. Snapshot'
        BY DEF TypeOK, Process, Snapshot, TxType
    <2>4. UnitUndo'
        BY DEF TypeOK, Snapshot, UnitUndo, TxType
    <2>5. JournalUndo'
        BY DEF TypeOK, Snapshot, JournalUndo, TxType
    <2>6. LinkUndo'
        BY DEF TypeOK, Process, Snapshot, LinkUndo, TxType
    <2>7. Copied'
        BY DEF TypeOK, Snapshot, UnitUndo, JournalUndo, LinkUndo, Copied, TxType
    <2> QED
        BY <2>1, <2>2, <2>3, <2>4, <2>5, <2>6, <2>7 DEF Inv
<1>18. CASE LinkPrevious
    <2> USE <1>18 DEF LinkPrevious, RollbackFailed
    <2>1. TypeOK'
        BY DEF TypeOK
    <2>2. Process'
        BY DEF TypeOK, Process, Snapshot, UnitUndo, LinkUndo, TxType
    <2>3. Snapshot'
        BY DEF TypeOK, Process, Snapshot, TxType
    <2>4. UnitUndo'
        BY DEF TypeOK, Snapshot, UnitUndo, TxType
    <2>5. JournalUndo'
        BY DEF TypeOK, Snapshot, JournalUndo, TxType
    <2>6. LinkUndo'
        BY DEF TypeOK, Process, Snapshot, LinkUndo, TxType
    <2>7. Copied'
        BY DEF TypeOK, Snapshot, UnitUndo, JournalUndo, LinkUndo, Copied, TxType
    <2> QED
        BY <2>1, <2>2, <2>3, <2>4, <2>5, <2>6, <2>7 DEF Inv
<1>19. CASE RenamePrevious
    <2> USE <1>19 DEF RenamePrevious
    <2>1. TypeOK'
        BY <1>a DEF TypeOK
    <2>2. Process'
        BY DEF TypeOK, Process, Snapshot, UnitUndo, LinkUndo, TxType
    <2>3. Snapshot' /\ UnitUndo' /\ JournalUndo' /\ LinkUndo' /\ Copied'
        BY DEF TypeOK, Process, TxType, Snapshot, UnitUndo, JournalUndo, LinkUndo, Copied
    <2> QED
        BY <2>1, <2>2, <2>3 DEF Inv
<1>20. CASE RemoveCandidateCurrent
    <2> USE <1>20 DEF RemoveCandidateCurrent, RollbackFailed
    <2>1. TypeOK'
        BY DEF TypeOK
    <2>2. Process'
        BY DEF TypeOK, Process, Snapshot, UnitUndo, LinkUndo, TxType
    <2>3. Snapshot' /\ UnitUndo' /\ JournalUndo' /\ LinkUndo' /\ Copied'
        BY DEF TypeOK, Process, TxType, Snapshot, UnitUndo, JournalUndo, LinkUndo, Copied
    <2> QED
        BY <2>1, <2>2, <2>3 DEF Inv
<1>21. CASE RestoreEnablement
    <2> USE <1>21 DEF RestoreEnablement, RollbackFailed
    <2>1. TypeOK'
        BY <1>a DEF TypeOK
    <2>2. Process'
        BY DEF TypeOK, Process, Snapshot, UnitUndo, LinkUndo, TxType
    <2>3. Snapshot'
        BY DEF TypeOK, Process, Snapshot, TxType
    <2>4. UnitUndo'
        BY DEF TypeOK, Snapshot, UnitUndo, TxType
    <2>5. JournalUndo'
        BY DEF TypeOK, Snapshot, JournalUndo, TxType
    <2>6. LinkUndo'
        BY DEF TypeOK, Process, Snapshot, LinkUndo, TxType
    <2>7. Copied'
        BY DEF TypeOK, Snapshot, UnitUndo, JournalUndo, LinkUndo, Copied, TxType
    <2> QED
        BY <2>1, <2>2, <2>3, <2>4, <2>5, <2>6, <2>7 DEF Inv
<1>22. CASE RestartPrevious
    <2> USE <1>22 DEF RestartPrevious
    <2>1. TypeOK'
        BY DEF TypeOK
    <2>2. Process'
        BY DEF TypeOK, Process, Snapshot, UnitUndo, LinkUndo, TxType
    <2>3. Snapshot' /\ UnitUndo' /\ JournalUndo' /\ LinkUndo' /\ Copied'
        BY DEF TypeOK, Process, TxType, Snapshot, UnitUndo, JournalUndo, LinkUndo, Copied
    <2> QED
        BY <2>1, <2>2, <2>3 DEF Inv
<1>23. CASE RollbackCommandFails
    <2> USE <1>23 DEF RollbackCommandFails, RollbackFailed
    <2>1. TypeOK'
        BY DEF TypeOK
    <2>2. Process'
        BY DEF TypeOK, Process, Snapshot, UnitUndo, LinkUndo, TxType
    <2>3. Snapshot' /\ UnitUndo' /\ JournalUndo' /\ LinkUndo' /\ Copied'
        BY DEF TypeOK, Process, TxType, Snapshot, UnitUndo, JournalUndo, LinkUndo, Copied
    <2> QED
        BY <2>1, <2>2, <2>3 DEF Inv
<1>24. CASE ServiceExits
    <2> USE <1>24 DEF ServiceExits
    <2>1. TypeOK'
        BY DEF TypeOK
    <2>2. Process'
        <3>1. service = Active(link) /\ service # Stopped /\ pc \notin Down
            BY DEF Process
        <3>2. service' = [Active(link) EXCEPT !.state = "restarting"]
            BY <3>1
        <3> QED
            BY <3>1, <3>2 DEF Process
    <2>3. Snapshot'
        BY DEF TypeOK, Process, Snapshot, TxType
    <2>4. UnitUndo'
        BY DEF TypeOK, Snapshot, UnitUndo, TxType
    <2>5. JournalUndo'
        BY DEF TypeOK, Snapshot, JournalUndo, TxType
    <2>6. LinkUndo'
        BY DEF TypeOK, Process, Snapshot, LinkUndo, TxType
    <2>7. Copied'
        BY DEF TypeOK, Snapshot, UnitUndo, JournalUndo, LinkUndo, Copied, TxType
    <2> QED
        BY <2>1, <2>2, <2>3, <2>4, <2>5, <2>6, <2>7 DEF Inv
<1>25. CASE ServiceRestarts
    <2> USE <1>25 DEF ServiceRestarts
    <2>1. TypeOK'
        BY DEF TypeOK
    <2>2. Process'
        <3>1. service # Stopped /\ pc \notin Down
            BY DEF Process
        <3> QED
            BY <3>1 DEF Process
    <2>3. Snapshot'
        BY DEF TypeOK, Process, Snapshot, TxType
    <2>4. UnitUndo'
        BY DEF TypeOK, Snapshot, UnitUndo, TxType
    <2>5. JournalUndo'
        BY DEF TypeOK, Snapshot, JournalUndo, TxType
    <2>6. LinkUndo'
        BY DEF TypeOK, Process, Snapshot, LinkUndo, TxType
    <2>7. Copied'
        BY DEF TypeOK, Snapshot, UnitUndo, JournalUndo, LinkUndo, Copied, TxType
    <2> QED
        BY <2>1, <2>2, <2>3, <2>4, <2>5, <2>6, <2>7 DEF Inv
<1>26. CASE Reboot
    <2> USE <1>26 DEF Reboot
    <2>1. TypeOK'
        BY DEF TypeOK
    <2>2. Process'
        BY DEF TypeOK, Process, Snapshot, UnitUndo, LinkUndo, TxType
    <2>3. Snapshot' /\ UnitUndo' /\ JournalUndo' /\ LinkUndo' /\ Copied'
        BY DEF TypeOK, Process, TxType, Snapshot, UnitUndo, JournalUndo, LinkUndo, Copied
    <2> QED
        BY <2>1, <2>2, <2>3 DEF Inv
<1>27. CASE UNCHANGED vars
    <2> USE <1>27 DEF vars
    <2>1. TypeOK'
        BY DEF TypeOK
    <2>2. Process'
        BY DEF TypeOK, Process, Snapshot, UnitUndo, LinkUndo, TxType
    <2>3. Snapshot'
        BY DEF TypeOK, Process, Snapshot, TxType
    <2>4. UnitUndo'
        BY DEF TypeOK, Snapshot, UnitUndo, TxType
    <2>5. JournalUndo'
        BY DEF TypeOK, Snapshot, JournalUndo, TxType
    <2>6. LinkUndo'
        BY DEF TypeOK, Process, Snapshot, LinkUndo, TxType
    <2>7. Copied'
        BY DEF TypeOK, Snapshot, UnitUndo, JournalUndo, LinkUndo, Copied, TxType
    <2> QED
        BY <2>1, <2>2, <2>3, <2>4, <2>5, <2>6, <2>7 DEF Inv
<1> QED
    BY <1>1, <1>2, <1>3, <1>4, <1>5, <1>6, <1>7, <1>8, <1>9, <1>10, <1>11, <1>12, <1>13, <1>14, <1>15, <1>16, <1>17, <1>18, <1>19, <1>20, <1>21, <1>22, <1>23, <1>24, <1>25, <1>26, <1>27 DEF Next, Script

\* The invariant holds in every reachable state.
LEMMA InvHolds == Spec => []Inv
BY InitInv, NextInv, PTL DEF Spec

\* The host, the script's variables and its position are well formed.
THEOREM TypeCorrect == Spec => []TypeOK
<1>1. Inv => TypeOK BY DEF Inv
<1> QED BY <1>1, InvHolds, PTL

-----------------------------------------------------------------------------
\* The process systemd runs or restarts is always of the release current names
\* (StartService, RestartPrevious, Restart=always and the reboot against the two
\* renames of switch_current_atomically).
THEOREM RunsCurrentHolds == Spec => []RunsCurrent
<1>1. Inv => RunsCurrent
    <2> SUFFICES ASSUME Inv, service.state # "stopped" PROVE RunsCurrent
        BY DEF RunsCurrent
    <2>1. service # Stopped
        BY DEF Stopped
    <2>2. service.release = link
        BY <2>1 DEF Inv, Process, Active
    <2> QED
        BY <2>1, <2>2 DEF RunsCurrent, Inv, Process
<1> QED
    BY InvHolds, <1>1, PTL

\* The link and both configuration files change only while the service is down
\* and its ledger is copied (activate_transaction's order, and rollback_code_only
\* doing nothing to what was never installed).
THEOREM ChangedWhileStoppedHolds == Spec => ChangedWhileStopped
<1> DEFINE files == <<link, unit, journal>>
<1>1. ASSUME Inv, [Next]_vars, files' # files
      PROVE  service.state = "stopped" /\ ledgerCopy
    <2>1. InstallUnit \/ InstallJournal \/ RenameCandidate \/ RestoreUnit
            \/ RestoreJournal \/ RenamePrevious \/ RemoveCandidateCurrent
        BY <1>1 DEF Next, Script, vars, disk, Begin, StopService, BackupClosedLedger,
            RestartJournald, LinkCandidate, DaemonReload, EnableService, StartService,
            VerifyService, CommandFails, RollbackStop, RollbackJournald, LinkPrevious,
            RestoreEnablement, RestartPrevious, RollbackCommandFails, ServiceExits,
            ServiceRestarts, Reboot
    <2>2. pc \in Down /\ pc # "idle"
        BY <2>1 DEF InstallUnit, InstallJournal, RenameCandidate, RestoreUnit,
            RestoreJournal, RenamePrevious, RemoveCandidateCurrent, Down, Forward, Rollback
    <2>3. service.state = "stopped"
        BY <1>1, <2>2 DEF Inv, Process, Stopped
    <2>4. ASSUME ~ledgerCopy PROVE FALSE
        <3>1. tx.unitState = "" /\ tx.journalState = "" /\ link = before.link
                /\ tx.previous = before.link
                /\ pc \in {"stop", "backup"} \cup Rollback
            BY <1>1, <2>2, <2>4 DEF Inv, Copied, Snapshot
        <3>2. files' = files
            BY <2>1, <3>1 DEF InstallUnit, InstallJournal, RenameCandidate, RestoreUnit,
                RestoreJournal, RenamePrevious, RemoveCandidateCurrent, Restored,
                RollbackFailed, Rollback
        <3> QED
            BY <1>1, <3>2
    <2> QED
        BY <1>1, <2>3, <2>4 DEF Inv, TypeOK
<1> QED
    BY InvHolds, <1>1, PTL DEF Spec, ChangedWhileStopped

\* An activation that ends by itself is applied as a whole or undone as a whole
\* (run_post_backup_activation against rollback_code_only, for every command
\* that fails).
THEOREM AllOrNothingHolds == Spec => AllOrNothing
<1> DEFINE applied ==
        /\ <<link, unit, journal>>'
            = <<tx.candidate, UnitOf[tx.candidate], JournalOf[tx.candidate]>>
        /\ journald' = journal' /\ enabled' /\ service' = Active(tx.candidate)
    undone ==
        /\ <<link, unit, journal, enabled>>'
            = <<before.link, before.unit, before.journal, before.enabled>>
        /\ before.journald = before.journal => journald' = journal'
        /\ service' = IF before.state = "active" THEN Active(before.link) ELSE Stopped
<1>1. ASSUME Inv, [Next]_vars, Ends("activated") PROVE applied
    <2>1. VerifyService
        BY <1>1 DEF Ends, Next, Script, vars, Begin, StopService, BackupClosedLedger,
            InstallUnit, InstallJournal, RestartJournald, LinkCandidate, RenameCandidate,
            DaemonReload, EnableService, StartService, CommandFails, RollbackStop,
            RestoreUnit, RestoreJournal, RollbackJournald, LinkPrevious, RenamePrevious,
            RemoveCandidateCurrent, RestoreEnablement, RestartPrevious,
            RollbackCommandFails, RollbackFailed, ServiceExits, ServiceRestarts, Reboot
    <2>2. <<link, unit, journal, journald, enabled, service>>'
            = <<link, unit, journal, journald, enabled, service>>
        BY <2>1 DEF VerifyService, disk, daemons
    <2>3. pc = "verify" /\ service.state = "active"
        BY <2>1 DEF VerifyService
    <2>4. link = tx.candidate /\ enabled
        BY <1>1, <2>3 DEF Inv, LinkUndo, Forward, UntilLink, UntilJournal, UntilUnit
    <2>5. unit = UnitOf[tx.candidate]
        BY <1>1, <2>3 DEF Inv, UnitUndo, Forward, UntilUnit
    <2>6. journal = JournalOf[tx.candidate] /\ journald = journal
        BY <1>1, <2>3 DEF Inv, JournalUndo, Forward, UntilJournal, UntilUnit
    <2>7. service = Active(link)
        BY <1>1, <2>3 DEF Inv, Process, Active, Stopped
    <2> QED
        BY <2>2, <2>4, <2>5, <2>6, <2>7
<1>2. ASSUME Inv, [Next]_vars, Ends("rolled_back") PROVE undone
    <2>1. RestartPrevious
        BY <1>2 DEF Ends, Next, Script, vars, Begin, StopService, BackupClosedLedger,
            InstallUnit, InstallJournal, RestartJournald, LinkCandidate, RenameCandidate,
            DaemonReload, EnableService, StartService, VerifyService, CommandFails,
            RollbackStop, RestoreUnit, RestoreJournal, RollbackJournald, LinkPrevious,
            RenamePrevious, RemoveCandidateCurrent, RestoreEnablement,
            RollbackCommandFails, RollbackFailed, ServiceExits, ServiceRestarts, Reboot
    <2>2. <<link, unit, journal, journald, enabled>>' = <<link, unit, journal, journald, enabled>>
        BY <2>1 DEF RestartPrevious, disk
    <2>3. pc = "rb_start"
        BY <2>1 DEF RestartPrevious
    <2>4. link = before.link /\ enabled = before.enabled
        BY <1>2, <2>3 DEF Inv, LinkUndo, LinkRestored
    <2>5. unit = before.unit
        BY <1>2, <2>3 DEF Inv, UnitUndo, UnitRestored, Rollback
    <2>6. journal = before.journal
            /\ (before.journald = before.journal => journald = journal)
        BY <1>2, <2>3 DEF Inv, JournalUndo, JournaldRestored, JournalRestored,
            UnitRestored, Rollback
    <2>7. service' = IF before.state = "active" THEN Active(before.link) ELSE Stopped
        <3>1. service = Stopped
            BY <1>2, <2>3 DEF Inv, Process, Down, Rollback
        <3>2. (tx.previous # Absent /\ tx.wasActive) <=> before.state = "active"
            BY <1>2, <2>3 DEF Inv, Snapshot
        <3> QED
            BY <2>1, <2>4, <3>1, <3>2 DEF RestartPrevious
    <2> QED
        BY <2>2, <2>4, <2>5, <2>6, <2>7
<1>3. ASSUME Inv, [Next]_vars
      PROVE  (Ends("activated") => applied) /\ (Ends("rolled_back") => undone)
    BY <1>1, <1>2, <1>3
<1> HIDE DEF applied, undone
<1>4. [][(Ends("activated") => applied) /\ (Ends("rolled_back") => undone)]_vars
        => AllOrNothing
    BY PTL DEF AllOrNothing, applied, undone
<1> QED
    BY InvHolds, <1>3, <1>4, PTL DEF Spec

-----------------------------------------------------------------------------
\* Why the rollback gives up

\* What each command of the rollback that can fail by itself has before it: the
\* staging link is left behind only by the rename that failed, a start that was
\* tried has a unit to stop, and a first installation that was not started has no
\* process to wait for.
Cause ==
    /\ faults \in Nat /\ before.faults \in Nat /\ before.faults <= faults
    /\ pc \in Forward /\ nextLink => pc = "rename"
    /\ pc \in Rollback \ {"rb_rename"} /\ nextLink => failedAt = "rename"
    /\ pc \in {"start", "verify"} => tx.startTried
    /\ pc \in Forward \ {"start", "verify"} => ~tx.startTried
    /\ pc = "rb_stop" /\ tx.startTried => unit # Absent
    /\ pc = "rb_stop" /\ ~tx.startTried /\ before.link = Absent => service = Stopped

\* Nothing has failed on the prepared host.
LEMMA InitCause == Init => Cause
<1> SUFFICES ASSUME Init PROVE Cause
    OBVIOUS
<1>1. faults = 0 /\ before.faults = 0 /\ pc = "idle" /\ nextLink = FALSE
    BY DEF Init
<1> QED
    BY <1>1 DEF Cause, Forward, Rollback

\* Every step keeps it.
LEMMA NextCause == Inv /\ Cause /\ [Next]_vars => Cause'
<1> SUFFICES ASSUME Inv, Cause, [Next]_vars PROVE Cause'
    OBVIOUS
<1>a. tx \in TxType /\ MaxFaults \in Nat
    BY ReleaseAssumption DEF Inv, TypeOK
<1> USE <1>a DEF disk, daemons, bounds, Forward, Rollback, Cause
<1>1. ASSUME NEW r \in Releases, Begin(r) PROVE Cause'
    <2>1. before' = Host /\ nextLink' = FALSE /\ pc' = "stop" /\ faults' = faults
        BY <1>1 DEF Begin
    <2>2. before'.faults = faults
        BY <2>1 DEF Host
    <2>3. ~tx'.startTried
        BY <1>1 DEF Begin, NoTransaction
    <2> QED
        BY <2>1, <2>2, <2>3
<1>2. CASE StopService
    BY <1>2 DEF StopService
<1>3. CASE BackupClosedLedger
    BY <1>3 DEF BackupClosedLedger
<1>4. CASE InstallUnit
    BY <1>4 DEF InstallUnit, TxType
<1>5. CASE InstallJournal
    BY <1>5 DEF InstallJournal, TxType
<1>6. CASE RestartJournald
    BY <1>6 DEF RestartJournald
<1>7. CASE LinkCandidate
    BY <1>7 DEF LinkCandidate
<1>8. CASE RenameCandidate
    BY <1>8 DEF RenameCandidate
<1>9. CASE DaemonReload
    BY <1>9 DEF DaemonReload, TxType
<1>10. CASE EnableService
    BY <1>10 DEF EnableService, TxType
<1>11. CASE StartService
    BY <1>11 DEF StartService
<1>12. CASE VerifyService
    BY <1>12 DEF VerifyService
<1>13. CASE CommandFails
    <2>1. pc \in Forward /\ pc' = "rb_stop" /\ failedAt' = pc
            /\ UNCHANGED <<link, nextLink, unit, service, tx, before, faults>>
        BY <1>13 DEF CommandFails
    <2>2. ASSUME tx.startTried PROVE unit # Absent
        <3>1. pc \in {"start", "verify"}
            BY <2>1, <2>2
        <3>2. unit = UnitOf[tx.candidate] /\ tx.candidate \in Releases
            BY <3>1 DEF Inv, UnitUndo, Snapshot, UntilUnit
        <3> QED
            BY <3>2, ReleaseAssumption
    <2>3. ASSUME ~tx.startTried, before.link = Absent PROVE service = Stopped
        <3>1. CASE pc = "stop"
            BY <2>3, <3>1 DEF Inv, LinkUndo, Process, UntilLink, UntilJournal, UntilUnit
        <3>2. CASE pc # "stop"
            <4>1. pc \in Down
                BY <2>1, <2>3, <3>2 DEF Down
            <4> QED
                BY <4>1 DEF Inv, Process
        <3> QED
            BY <3>1, <3>2
    <2> QED
        BY <2>1, <2>2, <2>3
<1>14. CASE RollbackStop
    <2>1. faults' \in Nat /\ faults <= faults'
        BY <1>14 DEF RollbackStop
    <2>2. pc = "rb_stop" /\ pc' \in {"idle", "rb_unit"} /\ UNCHANGED <<nextLink, before, failedAt>>
        BY <1>14 DEF RollbackStop, RollbackFailed
    <2> QED
        BY <2>1, <2>2
<1>15. CASE RestoreUnit
    BY <1>15 DEF RestoreUnit
<1>16. CASE RestoreJournal
    BY <1>16 DEF RestoreJournal
<1>17. CASE RollbackJournald
    BY <1>17 DEF RollbackJournald
<1>18. CASE LinkPrevious
    BY <1>18 DEF LinkPrevious, RollbackFailed
<1>19. CASE RenamePrevious
    BY <1>19 DEF RenamePrevious
<1>20. CASE RemoveCandidateCurrent
    BY <1>20 DEF RemoveCandidateCurrent, RollbackFailed
<1>21. CASE RestoreEnablement
    BY <1>21 DEF RestoreEnablement, RollbackFailed
<1>22. CASE RestartPrevious
    BY <1>22 DEF RestartPrevious
<1>23. CASE RollbackCommandFails
    BY <1>23 DEF RollbackCommandFails, RollbackFailed
<1>24. CASE ServiceExits
    BY <1>24 DEF ServiceExits, Stopped
<1>25. CASE ServiceRestarts
    BY <1>25 DEF ServiceRestarts, Stopped
<1>26. CASE Reboot
    BY <1>26 DEF Reboot
<1>27. CASE UNCHANGED vars
    BY <1>27 DEF vars
<1> QED
    BY <1>1, <1>2, <1>3, <1>4, <1>5, <1>6, <1>7, <1>8, <1>9, <1>10, <1>11, <1>12, <1>13, <1>14, <1>15,
       <1>16, <1>17, <1>18, <1>19, <1>20, <1>21, <1>22, <1>23, <1>24, <1>25, <1>26, <1>27 DEF Next, Script

\* The rollback gives up only if one of its own commands failed, if the rename of
\* the new link failed, or on a host whose link had no unit (rollback_code_only,
\* exit 70): a candidate that does not start is always rolled back.
THEOREM GivesUpForCauseHolds == Spec => GivesUpForCause
<1> DEFINE excused ==
        \/ faults' > before.faults
        \/ failedAt = "rename" /\ before.link # Absent
        \/ before.unit = Absent /\ before.link # Absent
<1>1. ASSUME Inv, Cause, [Next]_vars, Ends("rollback_failed") PROVE excused
    <2>a. /\ faults \in Nat /\ before.faults \in Nat /\ before.faults <= faults
          /\ tx.previous = before.link /\ tx.candidate \in Releases
        BY <1>1 DEF Cause, Ends, Inv, Snapshot
    <2>1. \/ RollbackStop \/ LinkPrevious \/ RemoveCandidateCurrent
          \/ RestoreEnablement \/ RollbackCommandFails
        BY <1>1 DEF Ends, Next, Script, vars, Begin, StopService, BackupClosedLedger,
            InstallUnit, InstallJournal, RestartJournald, LinkCandidate, RenameCandidate,
            DaemonReload, EnableService, StartService, VerifyService, CommandFails,
            RestoreUnit, RestoreJournal, RollbackJournald, RenamePrevious,
            RestartPrevious, ServiceExits, ServiceRestarts, Reboot
    <2>2. CASE RollbackStop
        <3> DEFINE stops == tx.previous # Absent \/ tx.startTried
        <3>1. PICK stopFails \in {stops /\ unit = Absent, stops}, disableFails \in BOOLEAN :
                /\ service' = IF stops /\ ~stopFails THEN Stopped ELSE service
                /\ faults' = faults + (IF stopFails /\ unit # Absent THEN 1 ELSE 0)
                                    + (IF disableFails THEN 1 ELSE 0)
                /\ stopFails \/ disableFails \/ service'.state # "stopped"
            BY <1>1, <2>2 DEF RollbackStop, Ends
        <3>2. pc = "rb_stop"
            BY <2>2 DEF RollbackStop
        <3>3. CASE disableFails \/ (stopFails /\ unit # Absent)
            BY <2>a, <3>1, <3>3
        <3>4. CASE stopFails /\ unit = Absent
            <4>1. tx.previous # Absent
                BY <1>1, <3>1, <3>2, <3>4 DEF Cause
            <4>2. unit # UnitOf[tx.candidate]
                BY <2>a, <3>4, ReleaseAssumption
            <4>3. tx.unitState \in {"", "UNCHANGED"}
                BY <1>1, <3>2, <4>2 DEF Inv, UnitUndo, UnitRestored, TypeOK, TxType, ConfigStates
            <4>4. unit = before.unit
                BY <1>1, <3>2, <4>3 DEF Inv, UnitUndo
            <4> QED
                BY <2>a, <3>4, <4>1, <4>4
        <3>5. CASE ~stopFails /\ ~disableFails
            <4>1. service'.state # "stopped"
                BY <3>1, <3>5
            <4>2. ~stops
                BY <3>1, <3>5, <4>1 DEF Stopped
            <4>3. service = Stopped
                BY <1>1, <2>a, <3>2, <4>2 DEF Cause
            <4> QED
                BY <3>1, <4>1, <4>2, <4>3 DEF Stopped
        <3> QED
            BY <3>1, <3>3, <3>4, <3>5
    <2>3. CASE LinkPrevious
        <3>1. pc = "rb_link" /\ nextLink /\ tx.previous # Absent
            BY <1>1, <2>3 DEF LinkPrevious, Ends
        <3> QED
            BY <1>1, <2>a, <3>1 DEF Cause, Rollback
    <2>4. CASE RemoveCandidateCurrent
        <3>1. tx.previous = Absent /\ link \notin {Absent, tx.candidate} /\ pc # "idle"
            BY <1>1, <2>4 DEF RemoveCandidateCurrent, Ends
        <3> QED
            BY <1>1, <2>a, <3>1 DEF Inv, LinkUndo
    <2>5. CASE RestoreEnablement
        <3>1. pc = "rb_enable" /\ unit = Absent /\ tx.previous # Absent
            BY <1>1, <2>5 DEF RestoreEnablement, Ends
        <3>2. unit = before.unit
            BY <1>1, <3>1 DEF Inv, UnitUndo, UnitRestored, Rollback
        <3> QED
            BY <2>a, <3>1, <3>2
    <2>6. CASE RollbackCommandFails
        BY <2>a, <2>6 DEF RollbackCommandFails
    <2> QED
        BY <2>1, <2>2, <2>3, <2>4, <2>5, <2>6
<1>2. Spec => []Cause
    BY InitCause, NextCause, InvHolds, PTL DEF Spec
<1> HIDE DEF excused
<1>3. ASSUME Inv, Cause, [Next]_vars PROVE Ends("rollback_failed") => excused
    BY <1>1, <1>3
<1>4. [][Ends("rollback_failed") => excused]_vars => GivesUpForCause
    BY PTL DEF GivesUpForCause, excused
<1> QED
    BY <1>2, <1>3, <1>4, InvHolds, PTL DEF Spec
=============================================================================
