------------------------- MODULE ReleaseTransaction -------------------------
(***************************************************************************)
(* The activation of a prepared release on the host that runs the paper    *)
(* service (deploy/oci/libdeploy.sh, activate_transaction).  The script    *)
(* stops the service, backs the closed ledger up, installs the unit and    *)
(* the journald configuration, renames the link current and starts the     *)
(* candidate; whatever command fails, its EXIT trap runs                   *)
(* rollback_code_only.  Beside the script the service exits and is started *)
(* again by systemd, and the host may reboot between any two commands.     *)
(*                                                                         *)
(* A command that fails has no effect: a failure after a command's effect  *)
(* is the failure of the command that follows it.  In the forward          *)
(* direction a failure is always possible and ends that direction; while   *)
(* rolling back at most MaxFaults commands fail.  Signals delivered to the *)
(* script, and another operator's paper-run, are left out.                 *)
(***************************************************************************)
EXTENDS Naturals

CONSTANTS
    Releases,       \* prepared immutable releases, one per commit
    Absent,         \* no link, no file, no release
    Units, UnitOf,          \* unit files, and the one each release ships
    Journals, JournalOf,    \* journald files, and the one each release ships
    MaxAttempts,    \* bound on activations
    MaxFaults,      \* bound on commands that fail while rolling back
    MaxReboots      \* bound on reboots of the host

ASSUME ReleaseAssumption ==
    /\ Absent \notin Releases \cup Units \cup Journals
    /\ UnitOf \in [Releases -> Units]
    /\ JournalOf \in [Releases -> Journals]
    /\ {MaxAttempts, MaxFaults, MaxReboots} \subseteq Nat

VARIABLES
    link,       \* target of /opt/autobit/current
    nextLink,   \* is .current-<commit>-<pid> of this run of the script left behind?
    unit,       \* installed unit file
    journal,    \* installed journald file
    journald,   \* the journald file the journal daemon runs with
    enabled,    \* is the service enabled?
    service,    \* the service's state and the release its process runs
    ledgerCopy, \* the closed ledger was copied by this activation
    pc,         \* the next command of the script
    tx,         \* the script's variables
    before,     \* the host as the activation found it; only properties read it
    failedAt,   \* the forward command that failed; only properties read it
    result,     \* how the last activation ended
    attempts, faults, reboots

disk == <<link, nextLink, unit, journal>>
daemons == <<journald, enabled, service>>
bounds == <<attempts, faults, reboots>>
vars == <<disk, daemons, ledgerCopy, pc, tx, before, failedAt, result, bounds>>

Forward == {"stop", "backup", "unit", "journal", "journald", "link", "rename",
            "reload", "enable", "start", "verify"}
Rollback == {"rb_stop", "rb_unit", "rb_journal", "rb_journald", "rb_link",
             "rb_rename", "rb_enable", "rb_start"}

\* unit_config_state and journal_config_state, and "" before they are set.
ConfigStates == {"", "UNCHANGED", "EXISTING", "ABSENT"}

Host == [link |-> link, unit |-> unit, journal |-> journal, journald |-> journald,
         enabled |-> enabled, state |-> service.state, faults |-> faults]

Stopped == [state |-> "stopped", release |-> Absent]
Active(r) == [state |-> "active", release |-> r]

NoTransaction == [candidate |-> Absent, previous |-> Absent, wasEnabled |-> FALSE,
                  wasActive |-> FALSE, unitState |-> "", unitBackup |-> Absent,
                  journalState |-> "", journalBackup |-> Absent,
                  enableTried |-> FALSE, startTried |-> FALSE]

\* A host that was prepared and never activated.
Init ==
    /\ link = Absent /\ nextLink = FALSE /\ unit = Absent /\ journal = Absent
    /\ journald = Absent /\ enabled = FALSE /\ service = Stopped
    /\ ledgerCopy = FALSE /\ pc = "idle" /\ tx = NoTransaction
    /\ before = [link |-> Absent, unit |-> Absent, journal |-> Absent,
                 journald |-> Absent, enabled |-> FALSE, state |-> "stopped",
                 faults |-> 0]
    /\ failedAt = "" /\ result = "none"
    /\ attempts = 0 /\ faults = 0 /\ reboots = 0

-----------------------------------------------------------------------------
(* The forward direction.                                                  *)

\* activate_transaction up to its trap: a new process, so a new <pid> in every
\* staging name; systemd answers is-active only for a service that is active,
\* not for one that waits to be started again.
Begin(r) ==
    /\ pc = "idle" /\ attempts < MaxAttempts
    /\ attempts' = attempts + 1
    /\ tx' = [NoTransaction EXCEPT !.candidate = r, !.previous = link,
                                   !.wasEnabled = enabled,
                                   !.wasActive = service.state = "active"]
    /\ before' = Host
    /\ nextLink' = FALSE /\ ledgerCopy' = FALSE /\ failedAt' = "" /\ result' = "running"
    /\ pc' = "stop"
    /\ UNCHANGED <<link, unit, journal, daemons, faults, reboots>>

StopService ==
    /\ pc = "stop"
    /\ service' = IF unit # Absent THEN Stopped ELSE service
    /\ service'.state = "stopped"
    /\ pc' = "backup"
    /\ UNCHANGED <<disk, journald, enabled, ledgerCopy, tx, before, failedAt, result, bounds>>

BackupClosedLedger ==
    /\ pc = "backup"
    /\ ledgerCopy' = TRUE
    /\ pc' = "unit"
    /\ UNCHANGED <<disk, daemons, tx, before, failedAt, result, bounds>>

\* What install_config_atomically records for a destination.
ConfigState(installed, shipped) ==
    IF installed = Absent THEN "ABSENT"
    ELSE IF installed = shipped THEN "UNCHANGED" ELSE "EXISTING"

InstallUnit ==
    /\ pc = "unit"
    /\ tx' = [tx EXCEPT !.unitState = ConfigState(unit, UnitOf[tx.candidate]),
                        !.unitBackup = unit]
    /\ unit' = UnitOf[tx.candidate]
    /\ pc' = "journal"
    /\ UNCHANGED <<link, nextLink, journal, daemons, ledgerCopy, before, failedAt,
                   result, bounds>>

InstallJournal ==
    /\ pc = "journal"
    /\ tx' = [tx EXCEPT !.journalState = ConfigState(journal, JournalOf[tx.candidate]),
                        !.journalBackup = journal]
    /\ journal' = JournalOf[tx.candidate]
    /\ pc' = "journald"
    /\ UNCHANGED <<link, nextLink, unit, daemons, ledgerCopy, before, failedAt,
                   result, bounds>>

RestartJournald ==
    /\ pc = "journald"
    /\ journald' = journal
    /\ pc' = "link"
    /\ UNCHANGED <<disk, enabled, service, ledgerCopy, tx, before, failedAt, result, bounds>>

\* The two commands of switch_current_atomically.
LinkCandidate ==
    /\ pc = "link" /\ ~nextLink
    /\ nextLink' = TRUE
    /\ pc' = "rename"
    /\ UNCHANGED <<link, unit, journal, daemons, ledgerCopy, tx, before, failedAt,
                   result, bounds>>

RenameCandidate ==
    /\ pc = "rename"
    /\ link' = tx.candidate /\ nextLink' = FALSE
    /\ pc' = "reload"
    /\ UNCHANGED <<unit, journal, daemons, ledgerCopy, tx, before, failedAt, result, bounds>>

\* candidate_enable_attempted and candidate_start_attempted are set before the
\* commands they are about.
DaemonReload ==
    /\ pc = "reload"
    /\ tx' = [tx EXCEPT !.enableTried = TRUE]
    /\ pc' = "enable"
    /\ UNCHANGED <<disk, daemons, ledgerCopy, before, failedAt, result, bounds>>

EnableService ==
    /\ pc = "enable"
    /\ enabled' = TRUE
    /\ tx' = [tx EXCEPT !.startTried = TRUE]
    /\ pc' = "start"
    /\ UNCHANGED <<disk, journald, service, ledgerCopy, before, failedAt, result, bounds>>

StartService ==
    /\ pc = "start"
    /\ service' = Active(link)
    /\ pc' = "verify"
    /\ UNCHANGED <<disk, journald, enabled, ledgerCopy, tx, before, failedAt, result, bounds>>

VerifyService ==
    /\ pc = "verify" /\ service.state = "active"
    /\ pc' = "idle" /\ result' = "activated"
    /\ UNCHANGED <<disk, daemons, ledgerCopy, tx, before, failedAt, bounds>>

\* set -e and the EXIT trap: the first command that fails starts the rollback.
CommandFails ==
    /\ pc \in Forward
    /\ failedAt' = pc
    /\ pc' = "rb_stop"
    /\ UNCHANGED <<disk, daemons, ledgerCopy, tx, before, result, bounds>>

-----------------------------------------------------------------------------
(* rollback_code_only.                                                     *)

RollbackFailed ==
    pc' = "idle" /\ result' = "rollback_failed"

\* Seeded fault: a first installation is not stopped, nor waited for.
StopPreviousOnly ==
    LET stops == tx.previous # Absent
        disables == tx.previous = Absent /\ tx.enableTried
    IN
    /\ pc = "rb_stop"
    /\ stops => unit # Absent
    /\ service' = IF stops THEN Stopped ELSE service
    /\ enabled' = IF disables THEN FALSE ELSE enabled
    /\ pc' = "rb_unit"
    /\ UNCHANGED <<disk, journald, ledgerCopy, tx, before, failedAt, result, bounds>>

\* Stop, then disable, each tried whatever became of the other.
RollbackStop ==
    LET stops == tx.previous # Absent \/ tx.startTried
        disables == tx.previous = Absent /\ tx.enableTried
    IN
    /\ pc = "rb_stop"
    /\ \E stopFails \in {stops /\ unit = Absent, stops}, disableFails \in {FALSE, disables} :
        /\ service' = IF stops /\ ~stopFails THEN Stopped ELSE service
        /\ enabled' = IF disables /\ ~disableFails THEN FALSE ELSE enabled
        /\ faults' = faults + (IF stopFails /\ unit # Absent THEN 1 ELSE 0)
                            + (IF disableFails THEN 1 ELSE 0)
        /\ faults' <= MaxFaults
        /\ IF stopFails \/ disableFails \/ service'.state # "stopped"
           THEN RollbackFailed
           ELSE pc' = "rb_unit" /\ UNCHANGED result
    /\ UNCHANGED <<disk, journald, ledgerCopy, tx, before, failedAt, attempts, reboots>>

\* What restore_one_config leaves at the destination.
Restored(state, saved, installed) ==
    CASE state = "EXISTING" -> saved
      [] state = "ABSENT" -> Absent
      [] OTHER -> installed

RestoreUnit ==
    /\ pc = "rb_unit"
    /\ unit' = Restored(tx.unitState, tx.unitBackup, unit)
    /\ pc' = "rb_journal"
    /\ UNCHANGED <<link, nextLink, journal, daemons, ledgerCopy, tx, before, failedAt,
                   result, bounds>>

RestoreJournal ==
    /\ pc = "rb_journal"
    /\ journal' = Restored(tx.journalState, tx.journalBackup, journal)
    /\ pc' = "rb_journald"
    /\ UNCHANGED <<link, nextLink, unit, daemons, ledgerCopy, tx, before, failedAt,
                   result, bounds>>

\* Seeded fault: a journald file that was new is removed and the daemon keeps it.
JournaldKept ==
    /\ pc = "rb_journald"
    /\ journald' = IF tx.journalState = "EXISTING" THEN journal ELSE journald
    /\ pc' = "rb_link"
    /\ UNCHANGED <<disk, enabled, service, ledgerCopy, tx, before, failedAt, result, bounds>>

RollbackJournald ==
    /\ pc = "rb_journald"
    /\ journald' = IF tx.journalState \in {"EXISTING", "ABSENT"} THEN journal ELSE journald
    /\ pc' = "rb_link"
    /\ UNCHANGED <<disk, enabled, service, ledgerCopy, tx, before, failedAt, result, bounds>>

\* The staging name is the one of the forward direction: a link that was made
\* and not renamed is still there.
LinkPrevious ==
    /\ pc = "rb_link" /\ tx.previous # Absent
    /\ IF nextLink
       THEN RollbackFailed /\ UNCHANGED nextLink
       ELSE nextLink' = TRUE /\ pc' = "rb_rename" /\ UNCHANGED result
    /\ UNCHANGED <<link, unit, journal, daemons, ledgerCopy, tx, before, failedAt, bounds>>

RenamePrevious ==
    /\ pc = "rb_rename"
    /\ link' = tx.previous /\ nextLink' = FALSE
    /\ pc' = "rb_enable"
    /\ UNCHANGED <<unit, journal, daemons, ledgerCopy, tx, before, failedAt, result, bounds>>

\* Seeded fault: a link that was never made counts as a foreign one.
RemoveExpectsLink ==
    /\ pc = "rb_link" /\ tx.previous = Absent
    /\ IF link = tx.candidate
       THEN link' = Absent /\ pc' = "rb_enable" /\ UNCHANGED result
       ELSE RollbackFailed /\ UNCHANGED link
    /\ UNCHANGED <<nextLink, unit, journal, daemons, ledgerCopy, tx, before, failedAt, bounds>>

\* remove_candidate_current; a first installation has nothing to enable or start.
RemoveCandidateCurrent ==
    /\ pc = "rb_link" /\ tx.previous = Absent
    /\ IF link \in {Absent, tx.candidate}
       THEN link' = Absent /\ pc' = "rb_enable" /\ UNCHANGED result
       ELSE RollbackFailed /\ UNCHANGED link
    /\ UNCHANGED <<nextLink, unit, journal, daemons, ledgerCopy, tx, before, failedAt, bounds>>

\* daemon-reload, then the previous enablement; systemctl has no unit to enable or
\* disable where the link was found without one.
RestoreEnablement ==
    /\ pc = "rb_enable"
    /\ IF tx.previous # Absent /\ unit = Absent
       THEN RollbackFailed /\ UNCHANGED enabled
       ELSE /\ enabled' = IF tx.previous # Absent THEN tx.wasEnabled ELSE enabled
            /\ pc' = "rb_start" /\ UNCHANGED result
    /\ UNCHANGED <<disk, journald, service, ledgerCopy, tx, before, failedAt, bounds>>

\* Seeded fault: the previous release is restored and left stopped.
LeaveStopped ==
    /\ pc = "rb_start"
    /\ pc' = "idle" /\ result' = "rolled_back"
    /\ UNCHANGED <<disk, daemons, ledgerCopy, tx, before, failedAt, bounds>>

RestartPrevious ==
    /\ pc = "rb_start"
    /\ service' = IF tx.previous # Absent /\ tx.wasActive THEN Active(link) ELSE service
    /\ pc' = "idle" /\ result' = "rolled_back"
    /\ UNCHANGED <<disk, journald, enabled, ledgerCopy, tx, before, failedAt, bounds>>

\* Every other command of the rollback: || return 1, and the trap exits with 70.
RollbackCommandFails ==
    /\ pc \in Rollback \ {"rb_stop"} /\ faults < MaxFaults
    /\ faults' = faults + 1
    /\ RollbackFailed
    /\ UNCHANGED <<disk, daemons, ledgerCopy, tx, before, failedAt, attempts, reboots>>

-----------------------------------------------------------------------------
(* systemd and the host.                                                   *)

\* Restart=always: the process ends and is started again RestartSec later.
ServiceExits ==
    /\ service.state = "active"
    /\ service' = [service EXCEPT !.state = "restarting"]
    /\ UNCHANGED <<disk, journald, enabled, ledgerCopy, pc, tx, before, failedAt, result, bounds>>

ServiceRestarts ==
    /\ service.state = "restarting"
    /\ service' = Active(link)
    /\ UNCHANGED <<disk, journald, enabled, ledgerCopy, pc, tx, before, failedAt, result, bounds>>

Reboot ==
    /\ reboots < MaxReboots
    /\ reboots' = reboots + 1
    /\ journald' = journal
    /\ service' = IF enabled /\ unit # Absent /\ link # Absent THEN Active(link) ELSE Stopped
    /\ pc' = "idle"
    /\ result' = IF pc = "idle" THEN result ELSE "interrupted"
    /\ UNCHANGED <<disk, enabled, ledgerCopy, tx, before, failedAt, attempts, faults>>

\* Every command of the script returns or times out: systemctl does, and the
\* loops of wait_for_paper_service_stop and wait_for_started_service are bounded.
Script ==
    \/ StopService \/ BackupClosedLedger \/ InstallUnit \/ InstallJournal
    \/ RestartJournald \/ LinkCandidate \/ RenameCandidate \/ DaemonReload
    \/ EnableService \/ StartService \/ VerifyService \/ CommandFails
    \/ RollbackStop \/ RestoreUnit \/ RestoreJournal \/ RollbackJournald
    \/ LinkPrevious \/ RenamePrevious \/ RemoveCandidateCurrent
    \/ RestoreEnablement \/ RestartPrevious \/ RollbackCommandFails

Next ==
    \/ \E r \in Releases : Begin(r)
    \/ Script
    \/ ServiceExits \/ ServiceRestarts \/ Reboot

Spec == Init /\ [][Next]_vars /\ WF_vars(Script) /\ WF_vars(ServiceRestarts)

-----------------------------------------------------------------------------
(* Properties.                                                             *)

\* The variables of activate_transaction
TxType ==
    [candidate : Releases \cup {Absent}, previous : Releases \cup {Absent},
     wasEnabled : BOOLEAN, wasActive : BOOLEAN,
     unitState : ConfigStates, unitBackup : Units \cup {Absent},
     journalState : ConfigStates, journalBackup : Journals \cup {Absent},
     enableTried : BOOLEAN, startTried : BOOLEAN]

\* The host's and the script's variables have their types.
TypeOK ==
    /\ link \in Releases \cup {Absent} /\ unit \in Units \cup {Absent}
    /\ journal \in Journals \cup {Absent} /\ enabled \in BOOLEAN
    /\ tx \in TxType
    /\ ledgerCopy \in BOOLEAN /\ nextLink \in BOOLEAN
    /\ pc \in Forward \cup Rollback \cup {"idle"}

\* The process systemd runs, or is about to start again, always comes from the
\* release current names: no order of stops, renames, automatic restarts, failed
\* commands and reboots leaves a process of one release on the host of another,
\* and none runs without an installed unit.
RunsCurrent ==
    service.state # "stopped" => service.release = link /\ link # Absent /\ unit # Absent

\* The link and both configuration files change only while the service is down
\* and its ledger is copied: in both directions of the script, across reboots.
ChangedWhileStopped ==
    [][<<link, unit, journal>>' # <<link, unit, journal>>
        => service.state = "stopped" /\ ledgerCopy]_vars

Ends(how) == pc # "idle" /\ pc' = "idle" /\ result' = how

\* An activation that ends by itself is applied as a whole or undone as a whole.
\* Activated: the link, both files, the enablement and the process are the
\* candidate's.  Rolled back: the link, the unit, the journald file and the one
\* the daemon runs with and the enablement are as the activation found them, and
\* a service that was active runs the previous release again.
AllOrNothing ==
    [][/\ Ends("activated") =>
            /\ <<link, unit, journal>>'
                = <<tx.candidate, UnitOf[tx.candidate], JournalOf[tx.candidate]>>
            /\ journald' = journal' /\ enabled' /\ service' = Active(tx.candidate)
       /\ Ends("rolled_back") =>
            /\ <<link, unit, journal, enabled>>'
                = <<before.link, before.unit, before.journal, before.enabled>>
            /\ before.journald = before.journal => journald' = journal'
            /\ service' = IF before.state = "active" THEN Active(before.link) ELSE Stopped
      ]_vars

\* The rollback gives up (exit 70) only if one of its own commands failed, if
\* the rename of the new link was the command that failed (its staging link
\* blocks the one of the rollback), or on a host whose link had no unit.  A
\* candidate that fails its start is always rolled back.
GivesUpForCause ==
    [][Ends("rollback_failed") =>
        \/ faults' > before.faults
        \/ failedAt = "rename" /\ before.link # Absent
        \/ before.unit = Absent /\ before.link # Absent]_vars

\* A service that was active when an activation began runs again, the candidate or
\* the previous release, unless the rollback gave up or a reboot ended the script.
ServiceComesBack ==
    (pc # "idle" /\ before.state = "active")
        ~> (service.state = "active" \/ result \in {"rollback_failed", "interrupted"})
=============================================================================
