---------------------------- MODULE SharedUpdater ----------------------------
(***************************************************************************)
(* The status channel of an updater that comes and goes: StatusChannel and *)
(* Lifecycle together (src/src/client.rs, new, set_status, subscribe and   *)
(* Drop).  Those who set the status are the application's threads, in      *)
(* deregister_action, and the two tasks, in check_for_updates.  Each does  *)
(* so through a reference it holds meanwhile, so that nobody is cut off    *)
(* half way through set_status; when the last reference goes the channel   *)
(* is closed, those who listen receive what is left, and the logging task  *)
(* stops.                                                                  *)
(***************************************************************************)
EXTENDS StatusChannel

CONSTANT Owners         \* the parts of the application that may hold a reference

ASSUME SettersAssumption ==
    Setters = Owners \cup {"startup", "timer"} /\ Owners \cap {"startup", "timer"} = {}

VARIABLES owners, startup, timer, queue

\* The updater is dropped and the channel closed in one.
Life == INSTANCE Lifecycle WITH
    Owners <- Owners, owners <- owners, startup <- startup, timer <- timer, queue <- queue,
    dropped <- closed

references == <<owners, startup, timer, queue>>
events == <<status, sending, slot, tail, listening, next, seen>>

sharedVars == <<vars, references>>

SharedInit ==
    /\ Init
    /\ Life!Init

-----------------------------------------------------------------------------

\* Whoever calls a method of the updater has a reference until the call returns.
Holds(s) ==
    \/ s \in owners
    \/ s = "startup" /\ startup = "checking"
    \/ s = "timer" /\ timer = "checking"

SetsStatus(s) ==
    /\ (Write(s) /\ Holds(s)) \/ Send(s)
    /\ UNCHANGED references

Subscribes(l) ==
    /\ owners # {}
    /\ Subscribe(l)
    /\ UNCHANGED references

Unsubscribes(l) == Unsubscribe(l) /\ UNCHANGED references

Hears(l) == (Receive(l) \/ Lag(l)) /\ UNCHANGED references

Logs == (Receive("logger") \/ LoggerStops) /\ UNCHANGED references

\* Not in the middle of a call, and when it is its turn.
Free(a) == Turn(a) /\ sending[a] = 0 /\ UNCHANGED events

Shares(o) == Free(o) /\ (Life!Clone(o) \/ Life!Release(o))

StartupTask == Free("startup") /\ Life!StartupEnds

TimerTask == Free("timer") /\ (Life!Select \/ Life!Checked)

SharedNext ==
    \/ \E s \in Setters : SetsStatus(s)
    \/ \E l \in Listeners : Subscribes(l) \/ Unsubscribes(l) \/ Hears(l)
    \/ \E o \in Owners : Shares(o)
    \/ Logs \/ StartupTask \/ TimerTask

SharedSpec == SharedInit /\ [][SharedNext]_sharedVars

(***************************************************************************)
(* Every task that is ready is polled in turn, calls of set_status go on,  *)
(* the interval ticks and a check returns.  No application need ever       *)
(* subscribe, set a status or let go of the updater.                       *)
(***************************************************************************)
SharedFairSpec ==
    /\ SharedSpec
    /\ \A s \in Setters : WF_sharedVars(Send(s) /\ UNCHANGED references)
    /\ \A l \in Listeners : SF_sharedVars(Hears(l))
    /\ SF_sharedVars(Logs) /\ SF_sharedVars(StartupTask) /\ SF_sharedVars(TimerTask)

-----------------------------------------------------------------------------
(* Properties                                                              *)

\* No check is under way, and none begins, on an updater that has been dropped.
NoCheckOnceDropped == Life!NoCheckOnceDropped

\* Without a timer an updater that the application has let go of, or never got as
\* its interval was zero, comes to its end, with the task that logs for it, even
\* if its startup check comes last and has a status to tell.
ReleasedIsDropped ==
    owners = {} /\ timer = "none" ~> closed /\ "logger" \notin listening

=============================================================================
