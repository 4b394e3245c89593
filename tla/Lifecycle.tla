------------------------------ MODULE Lifecycle ------------------------------
(***************************************************************************)
(* How long an updater lives: Updater::new, the tasks it spawns, and Drop  *)
(* (src/src/client.rs).  The updater is shared by reference counting: the  *)
(* application holds references and so do the tasks that check for         *)
(* updates.  When the last one goes, Drop puts a message into the queue    *)
(* the timer task listens to, and queue and broadcast channel are closed:  *)
(* SharedUpdater adds the channel, its receivers and the logging task.     *)
(*                                                                         *)
(* A definition whose name ends in Bug is the definition below it with a   *)
(* plausible mistake; no specification uses it.                            *)
(***************************************************************************)
CONSTANT Owners         \* the parts of the application that may hold a reference

VARIABLES
    owners,             \* those that hold one
    startup,            \* the startup task: "none", "checking", "ended"
    timer,              \* the timer task: "none", "first" tick, "waiting", "checking", "ended"
    queue,              \* what the timer task would receive: "empty" or "stop"
    dropped             \* whether Drop has run

vars == <<owners, startup, timer, queue, dropped>>

\* Updater::new returns the only reference; Config::check_on_startup and
\* Config::check_interval decide which tasks there are.
Returns ==
    /\ \E o \in Owners : owners = {o}
    /\ startup \in {"none", "checking"}
    /\ timer \in {"none", "first"}
    /\ dropped = FALSE

\* A check interval of zero makes tokio's interval() panic, when the logging task
\* and the startup task have been spawned: the caller's reference is gone.
Panics ==
    /\ owners = {}
    /\ startup \in {"none", "checking"}
    /\ timer = "none"
    /\ dropped = (startup = "none")

Init ==
    /\ Returns \/ Panics
    /\ queue = IF dropped THEN "stop" ELSE "empty"

-----------------------------------------------------------------------------

Referenced_StartupBug == owners # {} \/ timer \notin {"none", "ended"}

\* Each of the two tasks has an Arc of its own until it ends.
Referenced == owners # {} \/ startup = "checking" \/ timer \notin {"none", "ended"}

Drop_LeakBug == UNCHANGED <<dropped, queue>>

\* Whoever lets go of the last reference runs Drop.
Drop ==
    IF Referenced' THEN UNCHANGED <<dropped, queue>>
                   ELSE dropped' = TRUE /\ queue' = "stop"

Clone(o) ==
    /\ owners # {}
    /\ owners' = owners \cup {o}
    /\ UNCHANGED <<startup, timer, queue, dropped>>

Release(o) ==
    /\ o \in owners
    /\ owners' = owners \ {o}
    /\ UNCHANGED <<startup, timer>>
    /\ Drop

\* check_for_updates returns to the startup task, which ends.
StartupEnds ==
    /\ startup = "checking"
    /\ startup' = "ended"
    /\ UNCHANGED <<owners, timer>>
    /\ Drop

\* select! waits for a tick and for a message, or the closing, of the queue.
Arms == {"tick"} \cup (IF queue = "stop" THEN {"stop"} ELSE {})

Chosen(arm) ==
    CASE arm = "stop" -> "ended"
      [] arm = "tick" /\ timer = "first" -> "waiting"
      [] OTHER -> "checking"

Select ==
    /\ timer \in {"first", "waiting"}
    /\ \E arm \in Arms : timer' = Chosen(arm)
    /\ UNCHANGED <<owners, startup>>
    /\ IF timer' = "ended" THEN Drop ELSE UNCHANGED <<dropped, queue>>

\* check_for_updates returns to the timer task, which selects again.
Checked ==
    /\ timer = "checking"
    /\ timer' = "waiting"
    /\ UNCHANGED <<owners, startup, queue, dropped>>

Next ==
    \/ \E o \in Owners : Clone(o) \/ Release(o)
    \/ StartupEnds \/ Select \/ Checked

Spec == Init /\ [][Next]_vars

\* Every task is polled, the interval ticks, and a check returns.
FairSpec == Spec /\ WF_vars(StartupEnds) /\ WF_vars(Select) /\ WF_vars(Checked)

-----------------------------------------------------------------------------
(* Properties                                                              *)

\* No check is under way, and none begins, on an updater that has been dropped.
NoCheckOnceDropped == dropped => startup # "checking" /\ timer # "checking"

\* Drop and the timer task wait for each other: the message that is to stop the
\* timer is never sent, and the timer, once started, never ends (client.rs 337-338
\* and 386).
TimerIsForEver == timer # "none" => timer # "ended" /\ queue = "empty"

\* "In order to shut down nicely, Drop is implemented, and will send a message to
\* the internal queue to stop the timer" (client.rs 337-338).
ReleaseStopsTimer == owners = {} ~> timer \in {"none", "ended"}

=============================================================================
