-------------------------- MODULE ExclusiveTenure --------------------------
(***************************************************************************)
(* What the paper-cycle lease promises the rest of the system, with no     *)
(* clock, no expiry and no lease row: the ledger is written in numbered    *)
(* tenures, each tenure belongs to one process incarnation, and once a     *)
(* tenure ends nothing is written in it again.  CycleLease.tla is shown to *)
(* implement this specification.                                           *)
(***************************************************************************)
EXTENDS Naturals, Sequences

VARIABLES
    holder,   \* incarnation whose tenure is open; NoHolder when none is
    tenure,   \* number of the latest tenure
    log       \* ledger: the tenure and the incarnation of every write

vars == <<holder, tenure, log>>

NoHolder == 0

Init ==
    /\ holder = NoHolder
    /\ tenure = 0
    /\ log = <<>>

\* A new tenure is opened, taking over from the previous one if it is open.
Grant ==
    /\ holder' \in Nat \ {NoHolder}
    /\ tenure' = tenure + 1
    /\ UNCHANGED log

Write ==
    /\ holder # NoHolder
    /\ log' = Append(log, [epoch |-> tenure, token |-> holder])
    /\ UNCHANGED <<holder, tenure>>

End ==
    /\ holder # NoHolder
    /\ holder' = NoHolder
    /\ UNCHANGED <<tenure, log>>

Next == Grant \/ Write \/ End

Spec == Init /\ [][Next]_vars
=============================================================================
