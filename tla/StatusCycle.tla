----------------------------- MODULE StatusCycle -----------------------------
(***************************************************************************)
(* What the updater tells those who ask for its status, or listen to it:   *)
(* the way of one process through the variants of Status (src/src/         *)
(* client.rs), with no tasks, no counter and no server.  A check comes to  *)
(* nothing, or finds the one version this process will ever download; an   *)
(* update that fails leaves the status where it is; nothing follows        *)
(* Restarting.  Updater implements this specification when one task at a   *)
(* time is at work.                                                        *)
(***************************************************************************)
EXTENDS Naturals

CONSTANTS
    Versions,           \* the versions the server may offer
    Current,            \* the version that is running
    None                \* no version

VARIABLE status         \* the state, and the version it names

Is(state, v) == status = [state |-> state, version |-> v]

Becomes(state, v) == status' = [state |-> state, version |-> v]

Init == Is("Idle", None)

Check == Is("Idle", None) /\ Becomes("Checking", None)

NothingNew == Is("Checking", None) /\ Becomes("Idle", None)

Download(v) == v > Current /\ Is("Checking", None) /\ Becomes("Downloading", v)

Install(v) == Is("Downloading", v) /\ Becomes("Installing", v)

Pend(v) == Is("Installing", v) /\ Becomes("PendingRestart", v)

Restart(v) ==
    /\ Is("Installing", v) \/ Is("PendingRestart", v)
    /\ Becomes("Restarting", v)

Next ==
    \/ Check \/ NothingNew
    \/ \E v \in Versions : Download(v) \/ Install(v) \/ Pend(v) \/ Restart(v)

Spec == Init /\ [][Next]_status

-----------------------------------------------------------------------------

\* A version that has been named is newer than the running one, and is the last
\* that this process will name: whoever has told a user of it need not take it back.
NamesNewer == status.version # None => status.version \in Versions /\ status.version > Current

NamesOneVersion == [][status.version # None => status'.version = status.version]_status

\* The announcement that the process is about to restart is its last.
RestartingIsLast == [][status.state # "Restarting"]_status

=============================================================================
