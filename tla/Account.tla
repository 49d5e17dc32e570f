------------------------------- MODULE Account -------------------------------
(***************************************************************************)
(* What the identity registry promises about one account: it is deleted    *)
(* only after it has been closed, and no epoch is ever used twice, in      *)
(* whatever number of lives (session/_registry_db.py, lines 17-24).        *)
(***************************************************************************)
EXTENDS Integers

VARIABLES
    phase,      \* absent, usable, disabled or deleting
    epoch       \* the highest auth_epoch so far; -1 before the first life

Init == phase = "absent" /\ epoch = -1

Register == phase = "absent" /\ phase' = "usable" /\ epoch' = epoch + 1

\* Connecting, disconnecting, disabling, enabling, bumping, closing.
Change ==
    /\ phase \in {"usable", "disabled"}
    /\ phase' \in {"usable", "disabled", "deleting"}
    /\ epoch' = epoch + 1

Vanish == phase = "deleting" /\ phase' = "absent" /\ epoch' = epoch

Next == Register \/ Change \/ Vanish

Spec == Init /\ [][Next]_<<phase, epoch>>
=============================================================================
