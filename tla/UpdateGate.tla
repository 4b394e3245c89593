----------------------------- MODULE UpdateGate -----------------------------
(***************************************************************************)
(* What the updater promises to the application about its critical         *)
(* actions, with no status, no counter and no downloads: new critical      *)
(* actions are admitted until an update has been installed, those under    *)
(* way are left to finish, and the process goes away only when none is     *)
(* left -- and then it does go away.  (src/README.md, "Critical actions";  *)
(* src/src/client.rs, module documentation and register_action,            *)
(* deregister_action.)  Updater implements this specification.             *)
(***************************************************************************)
CONSTANTS
    Threads,            \* the parts of the application that run critical actions
    Resident            \* those that may keep one for ever

VARIABLES
    phase,              \* "open", "pending", "restarting" or "gone"
    active              \* the threads with a critical action under way

vars == <<phase, active>>

Phases == {"open", "pending", "restarting", "gone"}

TypeOK == phase \in Phases /\ active \subseteq Threads

Init == phase = "open" /\ active = {}

\* A critical action starts: only while no update waits for the restart.
Begin(c) ==
    /\ phase = "open"
    /\ c \notin active
    /\ active' = active \cup {c}
    /\ UNCHANGED phase

\* A critical action ends; the last one to end lets a pending restart go on.
End(c) ==
    /\ phase # "gone"
    /\ c \in active
    /\ active' = active \ {c}
    /\ phase' = IF phase = "pending" /\ active' = {} THEN "restarting" ELSE phase

\* An update has been installed: restart, or wait for the critical actions.
Installed ==
    /\ phase = "open"
    /\ phase' = IF active = {} THEN "restarting" ELSE "pending"
    /\ UNCHANGED active

\* The process is replaced, or exits because it could not be.
Leave ==
    /\ phase = "restarting"
    /\ phase' = "gone"
    /\ UNCHANGED active

Next == (\E c \in Threads : Begin(c) \/ End(c)) \/ Installed \/ Leave

Spec == Init /\ [][Next]_vars

(***************************************************************************)
(* A critical action ends, unless it is a resident one (the application's  *)
(* part), and a restart that is due happens (the updater's part).          *)
(***************************************************************************)
FairSpec == Spec /\ (\A c \in Threads \ Resident : WF_vars(End(c))) /\ WF_vars(Leave)

-----------------------------------------------------------------------------

\* The process never goes away under a critical action: once a restart is due,
\* no critical action is under way (client.rs 9-15, "critical actions").
NeverInterrupted == phase \in {"restarting", "gone"} => active = {}

\* Once an update has been installed the critical actions only become fewer
\* (client.rs 425-430): the restart cannot be put off for ever by new ones.
OnlyDrains == [][phase # "open" => phase' # "open" /\ active' \subseteq active]_vars

=============================================================================
