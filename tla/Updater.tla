------------------------------- MODULE Updater -------------------------------
(***************************************************************************)
(* The update coordinator of src/src/client.rs: the tasks that check for   *)
(* updates, the status they share with the application, the counter of     *)
(* critical actions, and the decision to restart.                          *)
(*                                                                         *)
(* A task is a tokio task spawned by Updater::new: "startup" checks once,  *)
(* "timer" checks at every tick but the first.  A thread is a part of the  *)
(* application that brackets critical work with register_action and        *)
(* deregister_action.  Every access to the status lock or to the atomic    *)
(* counter is a step of its own; what a task computes between two accesses *)
(* belongs to the step before.                                             *)
(*                                                                         *)
(* Whether two of those steps can be separated by another party's step     *)
(* depends on the runtime.  On a multi-threaded runtime (Preemptive) they  *)
(* always can.  On a current-thread runtime a task gives way only at an    *)
(* .await, so the steps between two of those form one uninterrupted        *)
(* segment.                                                                *)
(*                                                                         *)
(* Abstracted here: the answers of the API server and of the file system   *)
(* are success or failure (Rollout and Installer look inside), the          *)
(* percentage of Status::Downloading, the broadcast that follows a change  *)
(* of status (StatusChannel).  The application itself does not call        *)
(* set_status, though the method is public.                                *)
(*                                                                         *)
(* A definition whose name ends in Bug is the definition below it with a   *)
(* plausible mistake; no specification uses it.                            *)
(***************************************************************************)
EXTENDS Naturals, FiniteSets

CONSTANTS
    CheckOnStartup,     \* Config::check_on_startup
    CheckInterval,      \* whether Config::check_interval is Some
    Preemptive,         \* a multi-threaded runtime, not a current-thread one
    Threads,            \* the parts of the application with critical actions
    Resident,           \* those that may keep one for ever (README.md 236-239)
    Versions,           \* the versions the server may offer
    Current,            \* Config::version, the version that is running
    None,               \* no version
    MaxActions          \* usize::MAX, the greatest value of the counter

Tasks == {t \in {"startup", "timer"} :
            \/ t = "startup" /\ CheckOnStartup
            \/ t = "timer" /\ CheckInterval}

Actors == Tasks \cup Threads

ASSUME OptionsAssumption ==
    CheckOnStartup \in BOOLEAN /\ CheckInterval \in BOOLEAN /\ Preemptive \in BOOLEAN
ASSUME ThreadsAssumption ==
    IsFiniteSet(Threads) /\ Threads \cap {"startup", "timer"} = {} /\ Resident \subseteq Threads
ASSUME VersionsAssumption ==
    Versions \subseteq Nat /\ Current \in Nat /\ None \notin Nat
ASSUME MaxActionsAssumption == MaxActions \in Nat \ {0}

VARIABLES
    proc,               \* "running", "replaced" by the new executable, or "exited"
    status,             \* Updater::status, as the last set_status left it
    actions,            \* Updater::actions
    installed,          \* the version of the executable at exe_path, None without one
    check,              \* check[t]: where task t is in check_for_updates
    action,             \* action[c]: where thread c is in register/deregister_action
    version,            \* version[a]: the local `version` of a's call
    value               \* value[c]: the local `value` of deregister_action

vars == <<proc, status, actions, installed, check, action, version, value>>

-----------------------------------------------------------------------------
(* Status                                                                  *)

States == {"Idle", "Checking", "Downloading", "Installing", "PendingRestart",
           "Restarting"}

Status == [state : States, version : Versions \cup {None}]

Idle              == [state |-> "Idle", version |-> None]
Checking          == [state |-> "Checking", version |-> None]
Downloading(v)    == [state |-> "Downloading", version |-> v]
Installing(v)     == [state |-> "Installing", version |-> v]
PendingRestart(v) == [state |-> "PendingRestart", version |-> v]
Restarting(v)     == [state |-> "Restarting", version |-> v]

\* An update is installed and waits only for the restart.
Blocked == status.state \in {"PendingRestart", "Restarting"}

set_status(s) == status' = s

-----------------------------------------------------------------------------
(* Scheduling                                                              *)

CheckSteps == {"first", "ready", "claim", "latest", "download", "verify",
               "install", "gate", "pend", "restart", "exec", "done"}

ActionSteps == {"outside", "admitted", "inside", "leaving", "trigger", "exec"}

\* Those between two steps of a stretch of code that has no .await.
MidSegment ==
    {t \in Tasks : check[t] \in {"claim", "pend", "restart", "exec"}} \cup
    {c \in Threads : action[c] \in {"admitted", "leaving", "trigger", "exec"}}

Turn(a) == proc = "running" /\ (Preemptive \/ MidSegment \subseteq {a})

Goto(t, from, to) == Turn(t) /\ check[t] = from /\ check' = [check EXCEPT ![t] = to]

Move(c, from, to) == Turn(c) /\ action[c] = from /\ action' = [action EXCEPT ![c] = to]

\* check_for_updates returns: the startup task ends, the timer awaits a tick.
Rest(t) == IF t = "startup" THEN "done" ELSE "ready"

Return(t, from) == Goto(t, from, Rest(t)) /\ version' = [version EXCEPT ![t] = None]

-----------------------------------------------------------------------------

Init ==
    /\ proc = "running"
    /\ status = Idle
    /\ actions = 0
    /\ installed = Current
    /\ check = [t \in Tasks |-> IF t = "timer" THEN "first" ELSE "ready"]
    /\ action = [c \in Threads |-> "outside"]
    /\ version = [a \in Actors |-> None]
    /\ value = [c \in Threads |-> 0]

-----------------------------------------------------------------------------
(* check_for_updates                                                       *)

\* The first tick of the interval completes at once and is skipped.
FirstTick(t) ==
    /\ Goto(t, "first", "ready")
    /\ UNCHANGED <<proc, status, actions, installed, action, version, value>>

\* "Ensure no updates are already underway": the guard reads the status ...
MayCheck_GoneBug == ~Blocked

MayCheck_PendingBug == status.state \notin {"Checking", "Downloading", "Installing"}

MayCheck == status = Idle

StartCheck(t) ==
    /\ Goto(t, "ready", IF MayCheck THEN "claim" ELSE Rest(t))
    /\ UNCHANGED <<proc, status, actions, installed, action, version, value>>

Claim_SilentBug(t) ==
    /\ Goto(t, "claim", "latest")
    /\ UNCHANGED <<proc, status, actions, installed, action, version, value>>

\* ... and the next statement takes the status lock again, to write it.
Claim(t) ==
    /\ Goto(t, "claim", "latest")
    /\ set_status(Checking)
    /\ UNCHANGED <<proc, actions, installed, action, version, value>>

IsNewer_SameBug(v) == v >= Current

IsNewer(v) == v > Current

\* The request for the latest version fails, its answer does not verify, or
\* the version is not newer: the updater is idle again.
NoUpdate(t) ==
    /\ Return(t, "latest")
    /\ set_status(Idle)
    /\ UNCHANGED <<proc, actions, installed, action, value>>

NewVersion(t) ==
    /\ Goto(t, "latest", "download")
    /\ \E v \in Versions :
         /\ IsNewer(v)
         /\ version' = [version EXCEPT ![t] = v]
         /\ set_status(Downloading(v))
    /\ UNCHANGED <<proc, actions, installed, action, value>>

\* A chunk of the release arrives and the progress is published.
Chunk(t) ==
    /\ Goto(t, "download", "download")
    /\ set_status(Downloading(version[t]))
    /\ UNCHANGED <<proc, actions, installed, action, version, value>>

\* The download is complete and its length is the announced one.
Downloaded(t) ==
    /\ Goto(t, "download", "verify")
    /\ UNCHANGED <<proc, status, actions, installed, action, version, value>>

\* The server's hash is the hash of the download.
Verified(t) ==
    /\ Goto(t, "verify", "install")
    /\ set_status(Installing(version[t]))
    /\ UNCHANGED <<proc, actions, installed, action, version, value>>

\* replace_executable: the download is now the executable.
Replaced(t) ==
    /\ Goto(t, "install", "gate")
    /\ installed' = version[t]
    /\ UNCHANGED <<proc, status, actions, action, version, value>>

\* The download or its verification fails: the error is logged, and the status is
\* left as it is.
Fail(t) ==
    /\ \E from \in {"download", "verify"} : Return(t, from)
    /\ UNCHANGED <<proc, status, actions, installed, action, value>>

\* So it is when replace_executable fails, before the first rename, with no whole
\* executable in place, or with the download in place and its permissions not set.
ReplaceFails(t) ==
    /\ Return(t, "install")
    /\ installed' \in {installed, None, version[t]}
    /\ UNCHANGED <<proc, status, actions, action, value>>

is_safe_to_update_LastBug == actions <= 1

is_safe_to_update == actions = 0

Gate(t) ==
    /\ Goto(t, "gate", IF is_safe_to_update THEN "restart" ELSE "pend")
    /\ UNCHANGED <<proc, status, actions, installed, action, version, value>>

Pend(t) ==
    /\ Return(t, "pend")
    /\ set_status(PendingRestart(version[t]))
    /\ UNCHANGED <<proc, actions, installed, action, value>>

Restart(t) ==
    /\ Goto(t, "restart", "exec")
    /\ set_status(Restarting(version[t]))
    /\ UNCHANGED <<proc, actions, installed, action, version, value>>

-----------------------------------------------------------------------------
(* register_action and deregister_action                                   *)

Denied_PendingBug == status.state = "Restarting"

\* register_action is denied while an update waits for the restart.
Denied == status.state \in {"PendingRestart", "Restarting"}

Register(c) ==
    /\ Move(c, "outside", IF Denied THEN "outside" ELSE "admitted")
    /\ UNCHANGED <<proc, status, actions, installed, check, version, value>>

Increment_UncheckedBug(c) ==
    /\ Move(c, "admitted", "inside")
    /\ actions' = actions + 1
    /\ UNCHANGED <<proc, status, installed, check, version, value>>

Increment_WrapBug(c) ==
    /\ Move(c, "admitted", "inside")
    /\ actions' = (actions + 1) % (MaxActions + 1)
    /\ UNCHANGED <<proc, status, installed, check, version, value>>

\* The counter is incremented with checked_add: None when it would overflow.
Increment(c) ==
    /\ Move(c, "admitted", IF actions < MaxActions THEN "inside" ELSE "outside")
    /\ actions' = IF actions < MaxActions THEN actions + 1 ELSE actions
    /\ UNCHANGED <<proc, status, installed, check, version, value>>

Decrement_OldValueBug(c) ==
    /\ actions > 0
    /\ Move(c, "inside", "leaving")
    /\ actions' = actions - 1
    /\ value' = [value EXCEPT ![c] = actions]
    /\ UNCHANGED <<proc, status, installed, check, version>>

\* checked_sub: an application that pairs its calls never meets the underflow.
Decrement(c) ==
    /\ actions > 0
    /\ Move(c, "inside", "leaving")
    /\ actions' = actions - 1
    /\ value' = [value EXCEPT ![c] = actions - 1]
    /\ UNCHANGED <<proc, status, installed, check, version>>

MustRestart_AnyBug(c) == status.state = "PendingRestart"

\* The last action to end triggers a restart that is pending -- if it sees it.
MustRestart(c) == status.state = "PendingRestart" /\ value[c] = 0

Deregister(c) ==
    /\ Move(c, "leaving", IF MustRestart(c) THEN "trigger" ELSE "outside")
    /\ version' = [version EXCEPT ![c] = IF MustRestart(c) THEN status.version ELSE None]
    /\ value' = [value EXCEPT ![c] = 0]
    /\ UNCHANGED <<proc, status, actions, installed, check>>

Trigger(c) ==
    /\ Move(c, "trigger", "exec")
    /\ set_status(Restarting(version[c]))
    /\ UNCHANGED <<proc, actions, installed, check, version, value>>

-----------------------------------------------------------------------------
(* restart                                                                 *)

AtExec(a) == IF a \in Tasks THEN check[a] = "exec" ELSE action[a] = "exec"

\* exec replaces the process; when it fails the process exits.
Exec(a) ==
    /\ Turn(a)
    /\ AtExec(a)
    /\ proc' \in {"replaced", "exited"}
    /\ UNCHANGED <<status, actions, installed, check, action, version, value>>

Terminated == proc # "running" /\ UNCHANGED vars

-----------------------------------------------------------------------------

Advance(t) ==
    \/ FirstTick(t) \/ StartCheck(t) \/ Claim(t) \/ NoUpdate(t) \/ NewVersion(t)
    \/ Chunk(t) \/ Downloaded(t) \/ Verified(t) \/ Fail(t) \/ Replaced(t) \/ ReplaceFails(t)
    \/ Gate(t) \/ Pend(t) \/ Restart(t) \/ Exec(t)

\* A call of register_action or deregister_action goes on.
Call(c) == Increment(c) \/ Deregister(c) \/ Trigger(c) \/ Exec(c)

Finish(c) == Decrement(c) \/ Call(c)

Next ==
    \/ \E t \in Tasks : Advance(t)
    \/ \E c \in Threads : Register(c) \/ Finish(c)
    \/ Terminated

Spec == Init /\ [][Next]_vars

(***************************************************************************)
(* The runtime polls every task that is ready, in turn: an actor that is   *)
(* ready again and again between the segments of others gets its turn,     *)
(* hence strong fairness.  Server and file system answer in the end, a     *)
(* download ends (Chunk alone is not progress), and a critical action,     *)
(* once begun, ends, unless it is that of a resident thread.  Nothing      *)
(* forces an application to register an action.                            *)
(***************************************************************************)
Progress(t) == Advance(t) /\ check'[t] # check[t]

Fairness ==
    /\ \A t \in Tasks : SF_vars(Progress(t)) /\ WF_vars(Exec(t))
    /\ \A c \in Threads \ Resident : SF_vars(Finish(c))
    /\ \A c \in Resident : SF_vars(Call(c))

FairSpec == Spec /\ Fairness

-----------------------------------------------------------------------------
(* Properties                                                              *)

TypeOK ==
    /\ proc \in {"running", "replaced", "exited"}
    /\ status \in Status
    /\ actions \in 0..MaxActions
    /\ installed \in Versions \cup {Current, None}
    /\ check \in [Tasks -> CheckSteps]
    /\ action \in [Threads -> ActionSteps]
    /\ version \in [Actors -> Versions \cup {None}]
    /\ value \in [Threads -> 0..MaxActions]

\* The counter of critical actions counts exactly the actions under way:
\* register_action and deregister_action lose no update and never wrap.
CounterExact == actions = Cardinality({c \in Threads : action[c] = "inside"})

\* The task is past the guard of check_for_updates.
Updating(t) == check[t] \notin {"first", "ready", "done"}

\* "Ensure no updates are already underway" (client.rs 538): the startup task
\* and the timer task never work on an update at the same time.
ExclusiveUpdate == \A t, u \in Tasks : Updating(t) /\ Updating(u) => t = u

\* The process is never replaced, and never exits, under a critical action
\* (client.rs 9-15): none is under way when restart() ends the process.
QuietRestart == proc # "running" => \A c \in Threads : action[c] # "inside"

\* A status that says an update waits for the restart names the version that is
\* in place, and that version is newer than the running one.
AnnouncedIsInstalled ==
    Blocked => installed = status.version /\ installed > Current

\* A server that never answers costs an application its updates and nothing else
\* (a request has no timeout, client.rs 705): while a task waits for the server
\* no critical action is denied.
WaitingIsOpen ==
    \A t \in Tasks : check[t] \in {"latest", "download", "verify"} => ~Blocked

\* Somebody will find that it has to restart: an action is under way, or the last
\* one is just ending.
Watched ==
    \/ actions > 0
    \/ \E c \in Threads : (action[c] = "leaving" /\ value[c] = 0) \/ action[c] = "trigger"

\* A pending restart is never left behind with nobody to trigger it (client.rs
\* 450-451): deregister_action sees PendingRestart, or the counter reaches zero
\* before check_for_updates looks at it.
PendingIsWatched == status.state = "PendingRestart" /\ proc = "running" => Watched

\* Somebody who watches a pending restart does not go without having triggered it,
\* or having left it to another, even if another action gets in meanwhile whose call
\* read the status before (client.rs 423-431, 454-459).
WatchIsKept ==
    [][status.state = "PendingRestart" /\ Watched =>
         status'.state = "Restarting" \/ (status' = status /\ Watched')]_vars

\* Whatever overlaps, no status names the running version or an older one, no
\* executable is put in place that is one, and no process ends for the one it runs.
OnlyNewer ==
    /\ status.state \notin {"Idle", "Checking"} => status.version > Current
    /\ installed \notin {Current, None} => installed > Current
    /\ Blocked \/ proc # "running" => installed # Current

\* One process installs at most one update: a second one would move the first
\* to the backup name and lose the executable that is running.
InstalledOnce == [][installed # Current => installed' = installed]_vars

\* An update was given up half way: the status tells of it and no task works.
Abandoned ==
    /\ status.state \in {"Downloading", "Installing"}
    /\ \A t \in Tasks : ~Updating(t)

\* After a failure in download, verification or installation the updater stops
\* checking (client.rs 24-27): the status stays and no task starts again.
FailureIsFinal == [][Abandoned => Abandoned' /\ status' = status]_vars

\* "When the critical actions counter reaches zero, the restart will be
\* triggered" (client.rs 450-451): a pending restart happens.
PendingRestartHappens == status.state = "PendingRestart" ~> proc # "running"

\* An application that keeps a critical action for ever is told of the update, which
\* waits for it (README.md 236-239).
HeldBack ==
    status.state = "PendingRestart" /\ \E c \in Resident : action[c] = "inside"

\* An update that has been installed without an error takes effect, whatever
\* critical actions come and go: the process is replaced or exits, unless a
\* resident action holds it back for ever.
UpdateTakesEffect ==
    (\E t \in Tasks : check[t] = "gate") ~> proc # "running" \/ []HeldBack

\* Critical actions under way when the restart becomes pending do not block it.
BlockedByWorkEnds ==
    status.state = "PendingRestart" /\ actions > 0 ~> proc # "running"

-----------------------------------------------------------------------------
(***************************************************************************)
(* The updater keeps the promise of UpdateGate: an action is active from   *)
(* the increment to the decrement of the counter, and the gate turns from  *)
(* "pending" to "restarting" with the decrement to zero.                   *)
(***************************************************************************)
phase ==
    CASE proc # "running" -> "gone"
      [] proc = "running" /\ ~Blocked -> "open"
      [] proc = "running" /\ status.state = "PendingRestart" /\ actions > 0 -> "pending"
      [] OTHER -> "restarting"

active == {c \in Threads : action[c] = "inside"}

Promise == INSTANCE UpdateGate WITH
    Threads <- Threads, Resident <- Resident, phase <- phase, active <- active

\* Updater implements UpdateGate, its safety and its liveness.
KeepsPromise == Promise!FairSpec

Cycle == INSTANCE StatusCycle WITH
    Versions <- Versions, Current <- Current, None <- None, status <- status

\* Whoever follows the status sees Updater go through StatusCycle, step by step,
\* whichever task or thread sets it: no state is skipped or gone back to, and the
\* version that is announced first stays the one that is announced.
FollowsCycle == Cycle!Spec

=============================================================================
