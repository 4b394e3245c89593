---------------------------- MODULE StatusChannel ----------------------------
(***************************************************************************)
(* How a change of status reaches those who listen: Updater::set_status    *)
(* writes the status under its lock and, the lock released, sends it to a  *)
(* broadcast channel of capacity 1 (src/src/client.rs, new, set_status,    *)
(* subscribe).  The channel belongs to tokio and is modelled from its use: *)
(* it holds the last event only; a receiver that has fallen further behind *)
(* gets an error first (it lags) and then the event that is held; to send  *)
(* fails when nobody listens.                                              *)
(*                                                                         *)
(* The statuses are numbered: the n-th change of status is status n, and   *)
(* 0 is the status at the start.  A setter is a task of the updater or a   *)
(* thread in deregister_action; Preemptive has the meaning it has in       *)
(* Updater.  The channel is closed when the updater is dropped, which is   *)
(* never in the middle of a call to it (SharedUpdater says when).          *)
(*                                                                         *)
(* A definition whose name ends in Bug is the definition below it with a   *)
(* plausible mistake; no specification uses it.                            *)
(***************************************************************************)
EXTENDS Naturals

CONSTANTS
    Setters,            \* those who call set_status
    Listeners,          \* the application's subscribers
    Preemptive,         \* a multi-threaded runtime, not a current-thread one
    MaxChanges          \* bound on the number of changes of status

ASSUME ListenersAssumption == "logger" \notin Listeners
ASSUME RuntimeAssumption == Preemptive \in BOOLEAN
ASSUME MaxChangesAssumption == MaxChanges \in Nat

\* Updater::new spawns a receiver of its own that logs every change.
Receivers == Listeners \cup {"logger"}

VARIABLES
    status,             \* the status in the lock
    sending,            \* sending[s]: the status s has written and not yet sent, or 0
    slot,               \* the event the channel holds
    tail,               \* how many events have been sent to the channel
    listening,          \* the receivers there are
    next,               \* next[r]: how many events are behind r
    seen,               \* seen[r]: the last event r has received, 0 before the first
    closed              \* whether the updater is gone, and the sender with it

vars == <<status, sending, slot, tail, listening, next, seen, closed>>

\* Updater::new panics when the check interval is zero: nothing may be left then.
Init ==
    /\ closed \in BOOLEAN
    /\ status = 0
    /\ sending = [s \in Setters |-> 0]
    /\ slot = 0
    /\ tail = 0
    /\ listening = {"logger"}
    /\ next = [r \in Receivers |-> 0]
    /\ seen = [r \in Receivers |-> 0]

-----------------------------------------------------------------------------

\* set_status has no .await: on a current-thread runtime it is never left.
Turn_AwaitBug(a) == TRUE

Turn(a) == Preemptive \/ \A s \in Setters : sending[s] # 0 => s = a

Write(s) ==
    /\ Turn(s)
    /\ ~closed
    /\ sending[s] = 0
    /\ status < MaxChanges
    /\ status' = status + 1
    /\ sending' = [sending EXCEPT ![s] = status + 1]
    /\ UNCHANGED <<slot, tail, listening, next, seen, closed>>

Hold_FirstBug(event) ==
    IF \A r \in listening : next[r] = tail THEN slot' = event ELSE UNCHANGED slot

\* The event takes the place of the one before, received or not.
Hold(event) == slot' = event

\* An error is logged when nobody listens, and the event is gone.
Send(s) ==
    /\ Turn(s)
    /\ sending[s] # 0
    /\ IF listening # {}
       THEN Hold(sending[s]) /\ tail' = tail + 1
       ELSE UNCHANGED <<slot, tail>>
    /\ sending' = [sending EXCEPT ![s] = 0]
    /\ UNCHANGED <<status, listening, next, seen, closed>>

\* A new receiver gets the events sent from now on.
Subscribe(l) ==
    /\ Turn(l)
    /\ ~closed
    /\ l \notin listening
    /\ listening' = listening \cup {l}
    /\ next' = [next EXCEPT ![l] = tail]
    /\ seen' = [seen EXCEPT ![l] = 0]
    /\ UNCHANGED <<status, sending, slot, tail, closed>>

Unsubscribe(l) ==
    /\ Turn(l)
    /\ l \in listening
    /\ listening' = listening \ {l}
    /\ UNCHANGED <<status, sending, slot, tail, next, seen, closed>>

Receive(r) ==
    /\ Turn(r)
    /\ r \in listening
    /\ next[r] + 1 = tail
    /\ next' = [next EXCEPT ![r] = tail]
    /\ seen' = [seen EXCEPT ![r] = slot]
    /\ UNCHANGED <<status, sending, slot, tail, listening, closed>>

Lagging(r) == r \in listening /\ next[r] + 1 < tail

Skip_AllBug == tail

Skip_PastBug == tail + 1

\* A receiver that lags goes on with the event that is held.
Skip == tail - 1

Lag(l) ==
    /\ Turn(l)
    /\ Lagging(l)
    /\ next' = [next EXCEPT ![l] = Skip]
    /\ UNCHANGED <<status, sending, slot, tail, listening, seen, closed>>

NobodySends == \A s \in Setters : sending[s] = 0

\* The updater is dropped; what has been sent can still be received.
Close ==
    /\ NobodySends
    /\ ~closed
    /\ closed' = TRUE
    /\ UNCHANGED <<status, sending, slot, tail, listening, next, seen>>

\* The logging task takes any error for the end of the channel and stops: that it
\* lags, too.
LoggerStops ==
    /\ Turn("logger")
    /\ "logger" \in listening
    /\ Lagging("logger") \/ (closed /\ next["logger"] = tail)
    /\ listening' = listening \ {"logger"}
    /\ UNCHANGED <<status, sending, slot, tail, next, seen, closed>>

Next ==
    \/ \E s \in Setters : Write(s) \/ Send(s)
    \/ \E l \in Listeners : Subscribe(l) \/ Unsubscribe(l) \/ Lag(l)
    \/ \E r \in Receivers : Receive(r)
    \/ Close \/ LoggerStops

Spec == Init /\ [][Next]_vars

\* Every call of set_status goes on, and every receiver is polled, in turn.
Fairness ==
    /\ \A s \in Setters : WF_vars(Send(s))
    /\ \A l \in Listeners : SF_vars(Receive(l) \/ Lag(l))

FairSpec == Spec /\ Fairness

-----------------------------------------------------------------------------
(* Properties                                                              *)

TypeOK ==
    /\ status \in 0..MaxChanges
    /\ sending \in [Setters -> 0..MaxChanges]
    /\ slot \in 0..MaxChanges
    /\ tail \in 0..MaxChanges
    /\ listening \subseteq Receivers
    /\ next \in [Receivers -> 0..tail]
    /\ seen \in [Receivers -> 0..MaxChanges]
    /\ closed \in BOOLEAN

\* A receiver that has heard of a status and has nothing left to receive knows the
\* one the updater has, however many events it missed: what an application relies
\* upon that leaves the restart to itself (README.md 236-239).  One that has heard
\* of none since it subscribed may not know of any.
CaughtUp ==
    NobodySends =>
      \A r \in listening : next[r] = tail /\ seen[r] # 0 => seen[r] = status

\* A subscriber that has an event waiting hears of the status the updater has.
HearsLatest ==
    \A l \in Listeners :
      l \in listening /\ next[l] < tail ~> l \notin listening \/ seen[l] = status

\* "A persistent subscriber is also necessary to keep the broadcast channel
\* open" (client.rs 365-366): the logging task listens as long as the updater is.
LoggerPersists == ~closed => "logger" \in listening

\* "Every time the status changes, it will be notified" (client.rs 518-519): after
\* one change a subscriber is notified of the next, and of none before it or later.
NotifiedInTurn ==
    [][\A l \in Listeners :
         seen[l] # 0 /\ seen'[l] \notin {0, seen[l]} => seen'[l] = seen[l] + 1]_vars

-----------------------------------------------------------------------------

\* A status is published when set_status has sent it; its writer is the only one
\* that can be one status ahead.
Published == IF NobodySends THEN status ELSE status - 1

Feed == INSTANCE StatusFeed WITH
    Receivers <- Receivers, published <- Published, listening <- listening, heard <- seen

\* Whoever receives an event receives the status as it is, and none twice: lock,
\* channel and lag are what StatusFeed allows (client.rs 506-509, README.md 236-239).
FeedsLatest == Feed!Spec

=============================================================================
