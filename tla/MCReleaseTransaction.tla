------------------------ MODULE MCReleaseTransaction ------------------------
(* Two releases with different unit files and the same journald file, and a *)
(* third that shares the first one's unit file.                             *)
EXTENDS ReleaseTransaction

CONSTANTS r1, r2, r3

MCReleases == {r1, r2, r3}
MCUnits == {"unit A", "unit B"}
MCJournals == {"journal A", "journal B"}
MCUnitOf == [r \in MCReleases |-> IF r = r2 THEN "unit B" ELSE "unit A"]
MCJournalOf == [r \in MCReleases |-> IF r = r3 THEN "journal B" ELSE "journal A"]
=============================================================================
