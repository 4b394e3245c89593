----------------------------- MODULE KeptVersions -----------------------------
(***************************************************************************)
(* What an update may do to the copies of the application on its machine,  *)
(* with no download, no rename and no process that is killed half way: the *)
(* version that ran last is kept through every attempt, what an attempt    *)
(* adds is newer than it, and what is started is a kept copy no older than *)
(* it: what the backup in replace_executable is for (src/src/client.rs).   *)
(* Installer implements this specification.                                *)
(***************************************************************************)
EXTENDS Naturals

CONSTANT Versions       \* the versions of the application

VARIABLES
    ran,                \* the version that ran last
    kept                \* the versions of which there is a copy that can be started

Init == \E v \in Versions : ran = v /\ kept = {v}

\* An attempt to update, or a part of one, has come to an end.
Attempt(left) ==
    /\ ran \in left
    /\ \A v \in left \ kept : v > ran
    /\ kept' = left
    /\ UNCHANGED ran

Run(v) ==
    /\ v \in kept
    /\ v >= ran
    /\ ran' = v
    /\ UNCHANGED kept

Next ==
    \/ \E left \in SUBSET Versions : Attempt(left)
    \/ \E v \in Versions : Run(v)

Spec == Init /\ [][Next]_<<ran, kept>>

-----------------------------------------------------------------------------

\* No version is started after a newer one has run.
NeverOlder == [][ran' >= ran]_ran

=============================================================================
