---------------------------- MODULE UpdaterProofs ----------------------------
(***************************************************************************)
(* Proofs about Updater, for every set of threads, every set of versions   *)
(* and every bound of the counter.                                         *)
(***************************************************************************)
EXTENDS Updater, FiniteSetTheorems, TLAPS

-----------------------------------------------------------------------------
(* Type correctness                                                        *)

\* No thread of the application is one of the updater's tasks.
LEMMA Disjoint == Tasks \cap Threads = {}
  BY ThreadsAssumption DEF Tasks

\* A task that downloads, verifies or installs has a version in hand: without
\* it, TypeOK does not follow for the version that replace_executable installs.
VersionInHand ==
    \A t \in Tasks : check[t] \in {"download", "verify", "install"} => version[t] \in Versions

\* Every state of the updater has the types TypeOK gives its variables.
THEOREM TypeCorrect == Spec => []TypeOK
<1> USE DEF TypeOK, VersionInHand
<1>1. Init => TypeOK /\ VersionInHand
  BY OptionsAssumption, ThreadsAssumption, VersionsAssumption, MaxActionsAssumption
  DEF Init, Status, States, Idle, Tasks, Actors, CheckSteps, ActionSteps
<1>2. TypeOK /\ VersionInHand /\ [Next]_vars => TypeOK' /\ VersionInHand'
  <2> SUFFICES ASSUME TypeOK, VersionInHand, [Next]_vars
               PROVE  TypeOK' /\ VersionInHand'
    OBVIOUS
  <2> USE MaxActionsAssumption, VersionsAssumption
      DEF CheckSteps, ActionSteps, Goto, Move, Return, Rest, set_status, Status, States
  <2>1. ASSUME NEW t \in Tasks, Advance(t)
             PROVE  TypeOK' /\ VersionInHand'
    <3>1. t \in Actors
      BY DEF Actors
    <3>2. CASE FirstTick(t) \/ StartCheck(t) \/ Downloaded(t) \/ Gate(t)
      BY <3>1, <3>2 DEF FirstTick, StartCheck, Downloaded, Gate
    <3>12. CASE Fail(t)
      BY <3>1, <3>12 DEF Fail
    <3>13. CASE ReplaceFails(t)
      <4>1. version[t] \in Versions
        BY <3>13 DEF ReplaceFails
      <4> QED
        BY <3>1, <3>13, <4>1 DEF ReplaceFails
    <3>3. CASE Claim(t)
      BY <3>3 DEF Claim, Checking
    <3>4. CASE NoUpdate(t)
      BY <3>1, <3>4 DEF NoUpdate, Idle
    <3>5. CASE NewVersion(t)
      BY <3>1, <3>5 DEF NewVersion, Downloading
    <3>6. CASE Chunk(t)
      BY <3>1, <3>6 DEF Chunk, Downloading
    <3>7. CASE Verified(t)
      BY <3>1, <3>7 DEF Verified, Installing
    <3>8. CASE Replaced(t)
      BY <3>1, <3>8 DEF Replaced
    <3>9. CASE Pend(t)
      BY <3>1, <3>9 DEF Pend, PendingRestart
    <3>10. CASE Restart(t)
      BY <3>1, <3>10 DEF Restart, Restarting
    <3>11. CASE Exec(t)
      BY <3>11 DEF Exec
    <3> QED
      BY <2>1, <3>2, <3>3, <3>4, <3>5, <3>6, <3>7, <3>8, <3>9, <3>10, <3>11, <3>12, <3>13 DEF Advance
  <2>2. ASSUME NEW c \in Threads, Register(c) \/ Finish(c)
             PROVE  TypeOK' /\ VersionInHand'
    <3>1. c \in Actors
      BY DEF Actors
    <3>2. CASE Register(c)
      BY <3>2 DEF Register
    <3>3. CASE Increment(c)
      BY <3>3 DEF Increment
    <3>4. CASE Decrement(c)
      BY <3>4 DEF Decrement
    <3>5. CASE Deregister(c)
      <4>1. status.version \in Versions \cup {None}
        OBVIOUS
      <4> QED
        BY <3>1, <3>5, <4>1, Disjoint DEF Deregister
    <3>6. CASE Trigger(c)
      BY <3>1, <3>6 DEF Trigger, Restarting
    <3>7. CASE Exec(c)
      BY <3>7 DEF Exec
    <3> QED
      BY <2>2, <3>2, <3>3, <3>4, <3>5, <3>6, <3>7 DEF Finish, Call
  <2>3. CASE Terminated
    BY <2>3 DEF Terminated, vars
  <2>4. CASE UNCHANGED vars
    BY <2>4 DEF vars
  <2> QED
    BY <2>1, <2>2, <2>3, <2>4 DEF Next
<1> QED
  BY <1>1, <1>2, PTL DEF Spec

-----------------------------------------------------------------------------
(***************************************************************************)
(* Newer versions only                                                     *)
(*                                                                         *)
(* Tasks that overlap may overwrite each other's status and executable.    *)
(* What none of them ever has in hand is a version that is not newer.      *)
(***************************************************************************)

\* The version of a task from its download on, and of a thread that triggers the
\* restart, is newer; on the way to the restart the executable is not the running one any more.
NewerInHand ==
    /\ \A t \in Tasks :
         /\ check[t] \in {"download", "verify", "install", "gate", "pend", "restart"}
              => version[t] \in Versions /\ IsNewer(version[t])
         /\ check[t] \in {"gate", "pend", "restart", "exec"} => installed # Current
    /\ \A c \in Threads :
         /\ action[c] = "trigger" => version[c] > Current
         /\ action[c] \in {"trigger", "exec"} => installed # Current

LEMMA NewerStep ==
  ASSUME TypeOK, NewerInHand, OnlyNewer, [Next]_vars
  PROVE  NewerInHand' /\ OnlyNewer'
<1> USE VersionsAssumption, Disjoint
    DEF TypeOK, NewerInHand, OnlyNewer, IsNewer, Blocked, Goto, Move, Return, Rest, set_status
<1>1. ASSUME NEW t \in Tasks, Advance(t) PROVE NewerInHand' /\ OnlyNewer'
  <2> t \in Actors
    BY DEF Actors
  <2>1. CASE FirstTick(t) \/ StartCheck(t) \/ Downloaded(t) \/ Gate(t)
    BY <2>1 DEF FirstTick, StartCheck, Downloaded, Gate
  <2>2. CASE Claim(t)
    BY <2>2 DEF Claim, Checking
  <2>10. CASE NoUpdate(t)
    BY <2>10 DEF NoUpdate, Idle
  <2>3. CASE NewVersion(t)
    BY <2>3 DEF NewVersion, Downloading
  <2>4. CASE Chunk(t) \/ Verified(t)
    BY <2>4 DEF Chunk, Verified, Downloading, Installing
  <2>5. CASE Replaced(t)
    BY <2>5 DEF Replaced
  <2>6. CASE Fail(t)
    BY <2>6 DEF Fail
  <2>11. CASE ReplaceFails(t)
    <3>1. version[t] \in Versions /\ version[t] > Current
      BY <2>11 DEF ReplaceFails
    <3>2. version[t] # Current /\ None # Current
      <4>1. version[t] \in Nat /\ Current \in Nat /\ None \notin Nat
        BY <3>1
      <4> HIDE DEF TypeOK
      <4> QED
        BY <3>1, <4>1
    <3> QED
      BY <2>11, <3>1, <3>2 DEF ReplaceFails
  <2>7. CASE Pend(t)
    BY <2>7 DEF Pend, PendingRestart
  <2>8. CASE Restart(t)
    BY <2>8 DEF Restart, Restarting
  <2>9. CASE Exec(t)
    BY <2>9 DEF Exec, AtExec
  <2> QED
    BY <1>1, <2>1, <2>2, <2>3, <2>4, <2>5, <2>6, <2>7, <2>8, <2>9, <2>10, <2>11 DEF Advance
<1>2. ASSUME NEW c \in Threads, Register(c) \/ Finish(c) PROVE NewerInHand' /\ OnlyNewer'
  <2> c \in Actors
    BY DEF Actors
  <2>1. CASE Register(c) \/ Increment(c) \/ Decrement(c)
    BY <2>1 DEF Register, Increment, Decrement
  <2>2. CASE Deregister(c)
    BY <2>2 DEF Deregister, MustRestart
  <2>3. CASE Trigger(c)
    BY <2>3 DEF Trigger, Restarting
  <2>4. CASE Exec(c)
    BY <2>4 DEF Exec, AtExec
  <2> QED
    BY <1>2, <2>1, <2>2, <2>3, <2>4 DEF Finish, Call
<1>3. CASE Terminated \/ UNCHANGED vars
  BY <1>3 DEF Terminated, vars
<1> QED
  BY <1>1, <1>2, <1>3 DEF Next

\* On any runtime, with tasks that overlap in any way, only newer versions are
\* announced, only a newer executable is put in place, and only then the process ends.
THEOREM NewerOnly == Spec => []OnlyNewer
<1>1. Init => NewerInHand /\ OnlyNewer
  BY DEF Init, NewerInHand, OnlyNewer, Blocked, Idle
<1>2. TypeOK /\ NewerInHand /\ OnlyNewer /\ [Next]_vars
        => NewerInHand' /\ OnlyNewer'
  BY NewerStep
<1> QED
  BY <1>1, <1>2, TypeCorrect, PTL DEF Spec

-----------------------------------------------------------------------------
(***************************************************************************)
(* One update at a time                                                    *)
(*                                                                         *)
(* The guard of check_for_updates reads the status in one step and claims  *)
(* it in the next.  That is enough when a step of another task cannot come *)
(* between (a current-thread runtime), or when there is no other task.     *)
(***************************************************************************)

Sequential == ~Preemptive \/ \A t, u \in Tasks : t = u

\* In that case the status tells how far the one task at work has come ...
StatusTracksTask ==
    \A t \in Tasks :
      /\ check[t] = "claim" => status = Idle
      /\ check[t] = "latest" => status = Checking
      /\ check[t] \in {"download", "verify"} => status = Downloading(version[t])
      /\ check[t] \in {"install", "gate", "pend", "restart"} => status = Installing(version[t])
      /\ check[t] = "exec" => status = Restarting(version[t])
      /\ check[t] \in {"download", "verify", "install", "gate", "pend", "restart", "exec"}
           => version[t] \in Versions /\ IsNewer(version[t])

\* ... the executable is replaced by the task that is about to restart, and
\* only then does the status say that an update waits for the restart ...
InstalledTracksTask ==
    /\ \A t \in Tasks :
         /\ check[t] \in {"claim", "latest", "download", "verify", "install"}
              => installed = Current
         /\ check[t] \in {"gate", "pend", "restart"} => installed = version[t]
    /\ status.state \in {"Idle", "Checking", "Downloading"} => installed = Current
    /\ Blocked => \A t \in Tasks : Updating(t) => check[t] = "exec"

\* ... and a thread that triggers the restart knows the pending version.
TriggerTracksStatus ==
    \A c \in Threads :
      /\ action[c] \in {"trigger", "exec"} => Blocked /\ version[c] = status.version
      /\ action[c] = "exec" => status.state = "Restarting"

OneUpdate ==
    /\ ExclusiveUpdate
    /\ StatusTracksTask
    /\ InstalledTracksTask
    /\ TriggerTracksStatus
    /\ AnnouncedIsInstalled

LEMMA OneUpdateInit == Init => OneUpdate
  BY DEF Init, OneUpdate, ExclusiveUpdate, Updating, StatusTracksTask, InstalledTracksTask,
         TriggerTracksStatus, AnnouncedIsInstalled, Blocked, Idle, Tasks

LEMMA OneUpdateStep ==
  ASSUME Sequential, TypeOK, OneUpdate, [Next]_vars
  PROVE  OneUpdate'
<1> USE Disjoint DEF OneUpdate, ExclusiveUpdate, StatusTracksTask, InstalledTracksTask,
        TriggerTracksStatus, AnnouncedIsInstalled, Updating, Blocked, TypeOK,
        Goto, Move, Return, Rest, set_status,
        Idle, Checking, Downloading, Installing, PendingRestart, Restarting
<1>1. ASSUME NEW t \in Tasks, Advance(t) PROVE OneUpdate'
  <2> t \in Actors
    BY DEF Actors
  <2>1. CASE FirstTick(t)
    BY <2>1 DEF FirstTick
  <2>2. CASE StartCheck(t)
    <3>1. CASE ~MayCheck
      BY <2>2, <3>1 DEF StartCheck
    <3>2. CASE MayCheck
      <4>1. status = Idle /\ ~Blocked /\ check[t] = "ready"
        BY <2>2, <3>2 DEF StartCheck, MayCheck, Idle
      <4>2. \A u \in Tasks : u # t => check[u] \in {"first", "ready", "done", "claim"}
        BY <4>1 DEF Idle, Checking, Downloading, Installing, Restarting, CheckSteps
      <4>3. \A u \in Tasks : u # t => ~Updating(u)
        BY <2>2, <4>2 DEF Sequential, StartCheck, Turn, MidSegment
      <4>4. installed = Current
        BY <4>1, <4>2
      <4>5. check' = [check EXCEPT ![t] = "claim"]
        BY <2>2, <3>2 DEF StartCheck
      <4> QED
        BY <2>2, <4>1, <4>3, <4>4, <4>5 DEF StartCheck
    <3> QED
      BY <3>1, <3>2
  <2>3. CASE Claim(t)
    BY <2>3 DEF Claim
  <2>4. CASE NoUpdate(t)
    BY <2>4 DEF NoUpdate
  <2>5. CASE NewVersion(t)
    BY <2>5 DEF NewVersion
  <2>6. CASE Chunk(t)
    BY <2>6 DEF Chunk
  <2>7. CASE Downloaded(t)
    BY <2>7 DEF Downloaded
  <2>8. CASE Verified(t)
    BY <2>8 DEF Verified
  <2>9. CASE Replaced(t)
    BY <2>9 DEF Replaced
  <2>10. CASE Fail(t) \/ ReplaceFails(t)
    BY <2>10 DEF Fail, ReplaceFails
  <2>11. CASE Gate(t)
    BY <2>11 DEF Gate
  <2>12. CASE Pend(t)
    BY <2>12 DEF Pend, IsNewer
  <2>13. CASE Restart(t)
    BY <2>13 DEF Restart, IsNewer
  <2>14. CASE Exec(t)
    BY <2>14 DEF Exec
  <2> QED
    BY <1>1, <2>1, <2>2, <2>3, <2>4, <2>5, <2>6, <2>7, <2>8, <2>9, <2>10, <2>11, <2>12, <2>13, <2>14 DEF Advance
<1>2. ASSUME NEW c \in Threads, Register(c) \/ Finish(c) PROVE OneUpdate'
  <2> c \in Actors
    BY DEF Actors
  <2>1. CASE Register(c)
    BY <2>1 DEF Register, Denied
  <2>2. CASE Increment(c)
    BY <2>2 DEF Increment
  <2>3. CASE Decrement(c)
    BY <2>3 DEF Decrement
  <2>4. CASE Deregister(c)
    <3>1. CASE MustRestart(c)
      BY <2>4, <3>1 DEF Deregister, MustRestart
    <3>2. CASE ~MustRestart(c)
      BY <2>4, <3>2 DEF Deregister
    <3> QED
      BY <3>1, <3>2
  <2>5. CASE Trigger(c)
    BY <2>5 DEF Trigger
  <2>6. CASE Exec(c)
    BY <2>6 DEF Exec
  <2> QED
    BY <1>2, <2>1, <2>2, <2>3, <2>4, <2>5, <2>6 DEF Finish, Call
<1>3. CASE Terminated \/ UNCHANGED vars
  BY <1>3 DEF Terminated, vars
<1> QED
  BY <1>1, <1>2, <1>3 DEF Next

LEMMA OneUpdateInvariant ==
  ASSUME Sequential
  PROVE  Spec => []OneUpdate
<1>1. Init => OneUpdate
  BY OneUpdateInit
<1>2. TypeOK /\ OneUpdate /\ [Next]_vars => OneUpdate'
  BY OneUpdateStep
<1> QED
  BY <1>1, <1>2, TypeCorrect, PTL DEF Spec

\* The startup task and the timer task never work on an update at the same
\* time, on a current-thread runtime or when only one of them exists.
THEOREM OneUpdateAtATime ==
  ASSUME Sequential
  PROVE  Spec => []ExclusiveUpdate
<1>1. OneUpdate => ExclusiveUpdate
  BY DEF OneUpdate
<1> QED
  BY <1>1, OneUpdateInvariant, PTL

\* The version announced as waiting for the restart is in place and is newer.
THEOREM AnnouncementIsTrue ==
  ASSUME Sequential
  PROVE  Spec => []AnnouncedIsInstalled
<1>1. OneUpdate => AnnouncedIsInstalled
  BY DEF OneUpdate
<1> QED
  BY <1>1, OneUpdateInvariant, PTL

\* One process installs at most one update.
THEOREM OneInstallation ==
  ASSUME Sequential
  PROVE  Spec => InstalledOnce
<1>1. TypeOK /\ OneUpdate /\ [Next]_vars => [installed # Current => installed' = installed]_vars
  <2> SUFFICES ASSUME TypeOK, OneUpdate, [Next]_vars, installed # Current
               PROVE  installed' = installed
    OBVIOUS
  <2>1. ASSUME NEW t \in Tasks, Advance(t) PROVE installed' = installed
    <3>1. ~Replaced(t) /\ ~ReplaceFails(t)
      BY DEF Replaced, ReplaceFails, Return, Goto, OneUpdate, InstalledTracksTask
    <3> QED
      BY <2>1, <3>1 DEF Advance, FirstTick, StartCheck, Claim, NoUpdate, NewVersion, Chunk,
           Downloaded, Verified, Fail, Gate, Pend, Restart, Exec
  <2>2. ASSUME NEW c \in Threads, Register(c) \/ Finish(c) PROVE installed' = installed
    BY <2>2 DEF Finish, Call, Register, Increment, Decrement, Deregister, Trigger, Exec
  <2> QED
    BY <2>1, <2>2 DEF Next, Terminated, vars
<1> QED
  BY <1>1, TypeCorrect, OneUpdateInvariant, PTL DEF Spec, InstalledOnce

\* An update that failed half way is the last: the status stays as it is.
THEOREM FailureStays ==
  ASSUME Sequential
  PROVE  Spec => FailureIsFinal
<1>1. TypeOK /\ OneUpdate /\ [Next]_vars => [Abandoned => Abandoned' /\ status' = status]_vars
  <2> SUFFICES ASSUME TypeOK, OneUpdate, [Next]_vars, Abandoned
               PROVE  Abandoned' /\ status' = status
    OBVIOUS
  <2> USE DEF Abandoned, Updating
  <2>1. status # Idle /\ ~Blocked
    BY DEF Idle, Blocked
  <2>2. ASSUME NEW t \in Tasks, Advance(t) PROVE Abandoned' /\ status' = status
    <3>1. check[t] \in {"first", "ready", "done"}
      OBVIOUS
    <3>2. FirstTick(t) \/ StartCheck(t)
      BY <2>2, <3>1, Disjoint DEF Advance, Claim, NoUpdate, NewVersion, Chunk, Downloaded,
         Verified, Replaced, Fail, ReplaceFails, Gate, Pend, Restart, Exec, AtExec, Goto, Return
    <3>3. status' = status /\ check'[t] \in {"ready", "done"} /\ check' = [check EXCEPT ![t] = check'[t]]
      BY <2>1, <3>2 DEF FirstTick, StartCheck, MayCheck, Goto, Rest, TypeOK
    <3> QED
      BY <3>3 DEF TypeOK
  <2>3. ASSUME NEW c \in Threads, Register(c) \/ Finish(c) PROVE Abandoned' /\ status' = status
    <3>1. ~Trigger(c)
      BY <2>1 DEF Trigger, Move, OneUpdate, TriggerTracksStatus
    <3> QED
      BY <2>3, <3>1 DEF Finish, Call, Register, Increment, Decrement, Deregister, Exec
  <2> QED
    BY <2>2, <2>3 DEF Next, Terminated, vars
<1> QED
  BY <1>1, TypeCorrect, OneUpdateInvariant, PTL DEF Spec, FailureIsFinal

\* While a task waits for the server no critical action is denied.
THEOREM WaitingDeniesNothing ==
  ASSUME Sequential
  PROVE  Spec => []WaitingIsOpen
<1>1. OneUpdate => WaitingIsOpen
  BY DEF OneUpdate, InstalledTracksTask, Updating, WaitingIsOpen
<1> QED
  BY <1>1, OneUpdateInvariant, PTL

-----------------------------------------------------------------------------
(* The watch over a pending restart                                        *)

\* While a restart is pending no task does anything to the status.
LEMMA TasksRestWhenPending ==
  ASSUME OneUpdate, status.state = "PendingRestart", TypeOK,
         NEW t \in Tasks, Advance(t)
  PROVE  FirstTick(t) \/ StartCheck(t)
<1>1. check[t] # "exec"
  BY DEF OneUpdate, StatusTracksTask, Restarting
<1>2. check[t] \in {"first", "ready", "done"}
  BY <1>1 DEF OneUpdate, InstalledTracksTask, Updating, Blocked, TypeOK, CheckSteps
<1> QED
  BY <1>2 DEF Advance, Claim, NoUpdate, NewVersion, Chunk, Downloaded, Verified,
     Replaced, Fail, ReplaceFails, Gate, Pend, Restart, Exec, AtExec, Goto, Return

LEMMA WatchStep ==
  ASSUME TypeOK, OneUpdate, [Next]_vars, status.state = "PendingRestart", Watched
  PROVE  status'.state = "Restarting" \/ (status' = status /\ Watched')
<1> USE MaxActionsAssumption DEF Watched, TypeOK, Move
<1>1. ASSUME NEW t \in Tasks, Advance(t) PROVE status' = status /\ Watched'
  BY <1>1, TasksRestWhenPending DEF FirstTick, StartCheck
<1>2. ASSUME NEW c \in Threads, Register(c) \/ Finish(c)
      PROVE  status'.state = "Restarting" \/ (status' = status /\ Watched')
  <2>1. CASE Register(c)
    BY <2>1 DEF Register
  <2>2. CASE Increment(c)
    BY <2>2 DEF Increment
  <2>3. CASE Decrement(c)
    <3>1. actions' = 0 => action'[c] = "leaving" /\ value'[c] = 0
      BY <2>3 DEF Decrement
    <3>2. actions' \in Nat /\ status' = status
      BY <2>3 DEF Decrement
    <3> QED
      BY <3>1, <3>2
  <2>4. CASE Deregister(c)
    <3>1. CASE MustRestart(c)
      BY <2>4, <3>1 DEF Deregister
    <3>2. CASE ~MustRestart(c)
      <4>1. action[c] = "leaving" /\ value[c] # 0
        BY <2>4, <3>2 DEF Deregister, MustRestart
      <4> QED
        BY <2>4, <4>1 DEF Deregister
    <3> QED
      BY <3>1, <3>2
  <2>5. CASE Trigger(c)
    BY <2>5 DEF Trigger, set_status, Restarting
  <2>6. CASE Exec(c)
    BY <2>6 DEF Exec
  <2> QED
    BY <1>2, <2>1, <2>2, <2>3, <2>4, <2>5, <2>6 DEF Finish, Call
<1>3. CASE Terminated \/ UNCHANGED vars
  BY <1>3 DEF Terminated, vars
<1> QED
  BY <1>1, <1>2, <1>3 DEF Next

\* Whoever watches a pending restart triggers it or leaves it to another, on a
\* multi-threaded runtime too when a single task checks for updates.
THEOREM WatchKept ==
  ASSUME Sequential
  PROVE  Spec => WatchIsKept
<1>1. TypeOK /\ OneUpdate /\ [Next]_vars =>
        [status.state = "PendingRestart" /\ Watched =>
           status'.state = "Restarting" \/ (status' = status /\ Watched')]_vars
  BY WatchStep
<1> QED
  BY <1>1, TypeCorrect, OneUpdateInvariant, PTL DEF Spec, WatchIsKept

-----------------------------------------------------------------------------
(* The cycle of the status                                                 *)

LEMMA StepFollowsCycle ==
  ASSUME TypeOK, OneUpdate, [Next]_vars
  PROVE  [Cycle!Next]_status
<1> USE DEF Cycle!Next, Cycle!Is, Cycle!Becomes, OneUpdate, StatusTracksTask,
        set_status, Goto, Return
<1>1. ASSUME NEW t \in Tasks, Advance(t) PROVE [Cycle!Next]_status
  <2>1. CASE FirstTick(t) \/ StartCheck(t) \/ Downloaded(t) \/ Replaced(t) \/ Fail(t) \/ ReplaceFails(t) \/ Gate(t) \/ Exec(t)
    BY <2>1 DEF FirstTick, StartCheck, Downloaded, Replaced, Fail, ReplaceFails, Gate, Exec
  <2>2. CASE Claim(t)
    BY <2>2 DEF Claim, Cycle!Check, Idle, Checking
  <2>3. CASE NoUpdate(t)
    BY <2>3 DEF NoUpdate, Cycle!NothingNew, Idle, Checking
  <2>4. CASE NewVersion(t)
    <3>1. PICK v \in Versions : IsNewer(v) /\ status' = Downloading(v)
      BY <2>4 DEF NewVersion
    <3>2. Cycle!Download(v)
      BY <2>4, <3>1 DEF NewVersion, Cycle!Download, IsNewer, Checking, Downloading
    <3> QED
      BY <3>2
  <2>5. CASE Chunk(t)
    BY <2>5 DEF Chunk
  <2>6. CASE Verified(t)
    <3>1. version[t] \in Versions /\ Cycle!Install(version[t])
      BY <2>6 DEF Verified, Cycle!Install, Downloading, Installing
    <3> QED
      BY <3>1
  <2>7. CASE Pend(t)
    <3>1. version[t] \in Versions /\ Cycle!Pend(version[t])
      BY <2>7 DEF Pend, Cycle!Pend, Installing, PendingRestart
    <3> QED
      BY <3>1
  <2>8. CASE Restart(t)
    <3>1. version[t] \in Versions /\ Cycle!Restart(version[t])
      BY <2>8 DEF Restart, Cycle!Restart, Installing, Restarting
    <3> QED
      BY <3>1
  <2> QED
    BY <1>1, <2>1, <2>2, <2>3, <2>4, <2>5, <2>6, <2>7, <2>8 DEF Advance
<1>2. ASSUME NEW c \in Threads, Trigger(c) PROVE [Cycle!Next]_status
  <2>1. Blocked /\ version[c] = status.version /\ status' = Restarting(version[c])
    BY <1>2 DEF Trigger, Move, TriggerTracksStatus
  <2>2. status.version \in Versions
    BY <2>1, VersionsAssumption DEF AnnouncedIsInstalled, TypeOK
  <2>3. CASE status.state = "Restarting"
    BY <2>1, <2>3 DEF Restarting, TypeOK, Status
  <2>4. CASE status.state = "PendingRestart"
    <3>1. Cycle!Restart(status.version)
      BY <2>1, <2>4 DEF Cycle!Restart, Restarting, TypeOK, Status
    <3> QED
      BY <2>2, <3>1
  <2> QED
    BY <2>1, <2>3, <2>4 DEF Blocked
<1>3. ASSUME NEW c \in Threads, Register(c) \/ Increment(c) \/ Decrement(c) \/ Deregister(c) \/ Exec(c)
      PROVE  [Cycle!Next]_status
  BY <1>3 DEF Register, Increment, Decrement, Deregister, Exec
<1>4. CASE Terminated \/ UNCHANGED vars
  BY <1>4 DEF Terminated, vars
<1> QED
  BY <1>1, <1>2, <1>3, <1>4 DEF Next, Finish, Call

\* Without preemption, or with a single task, the status goes through StatusCycle.
THEOREM CycleIsFollowed ==
  ASSUME Sequential
  PROVE  Spec => FollowsCycle
<1>1. Init => Cycle!Init
  BY DEF Init, Idle, Cycle!Init, Cycle!Is
<1>2. TypeOK /\ OneUpdate /\ [Next]_vars => [Cycle!Next]_status
  BY StepFollowsCycle
<1> QED
  BY <1>1, <1>2, TypeCorrect, OneUpdateInvariant, PTL DEF Spec, FollowsCycle, Cycle!Spec

\* So a process names one version, a newer one, and keeps to it ...
THEOREM OneVersionIsAnnounced ==
  ASSUME Sequential
  PROVE  Spec => []Cycle!NamesNewer /\ Cycle!NamesOneVersion
<1> USE VersionsAssumption DEF Cycle!Is, Cycle!Becomes
<1>1. Cycle!Init => Cycle!NamesNewer
  BY DEF Cycle!Init, Cycle!NamesNewer
<1>2. Cycle!NamesNewer /\ [Cycle!Next]_status => Cycle!NamesNewer'
  BY DEF Cycle!NamesNewer, Cycle!Next, Cycle!Check, Cycle!NothingNew, Cycle!Download,
     Cycle!Install, Cycle!Pend, Cycle!Restart
<1>3. [Cycle!Next]_status => [status.version # None => status'.version = status.version]_status
  BY DEF Cycle!Next, Cycle!Check, Cycle!NothingNew, Cycle!Download, Cycle!Install,
     Cycle!Pend, Cycle!Restart
<1> QED
  BY <1>1, <1>2, <1>3, CycleIsFollowed, PTL DEF FollowsCycle, Cycle!Spec, Cycle!NamesOneVersion

\* ... and says nothing more once it has said that it restarts.
THEOREM RestartingIsSaidLast ==
  ASSUME Sequential
  PROVE  Spec => Cycle!RestartingIsLast
<1>1. [Cycle!Next]_status => [status.state # "Restarting"]_status
  BY DEF Cycle!Is, Cycle!Next, Cycle!Check, Cycle!NothingNew, Cycle!Download, Cycle!Install,
     Cycle!Pend, Cycle!Restart
<1> QED
  BY <1>1, CycleIsFollowed, PTL DEF FollowsCycle, Cycle!Spec, Cycle!RestartingIsLast

-----------------------------------------------------------------------------
(* The counter of critical actions                                         *)

Inside == {c \in Threads : action[c] = "inside"}

LEMMA InsideFinite ==
  /\ IsFiniteSet(Inside)
  /\ Cardinality(Inside) \in Nat
  /\ \A c \in Inside : Cardinality(Inside \ {c}) = Cardinality(Inside) - 1
  /\ \A c \in Threads : c \notin Inside => Cardinality(Inside \cup {c}) = Cardinality(Inside) + 1
<1>1. IsFiniteSet(Inside)
  BY ThreadsAssumption, FS_Subset DEF Inside
<1> QED
  BY <1>1, FS_CardinalityType, FS_AddElement, FS_RemoveElement

\* The counter counts exactly the critical actions under way, on any runtime.
THEOREM CounterCorrect == Spec => []CounterExact
<1>1. Init => CounterExact
  <2>1. Init => {c \in Threads : action[c] = "inside"} = {}
    BY DEF Init
  <2> QED
    BY <2>1, FS_EmptySet DEF Init, CounterExact
<1>2. TypeOK /\ CounterExact /\ [Next]_vars => CounterExact'
  <2> SUFFICES ASSUME TypeOK, actions = Cardinality(Inside), [Next]_vars
               PROVE  actions' = Cardinality(Inside')
    BY DEF CounterExact, Inside
  <2>1. ASSUME NEW t \in Tasks, Advance(t) PROVE actions' = actions /\ Inside' = Inside
    BY <2>1 DEF Inside, Advance, FirstTick, StartCheck, Claim, NoUpdate, NewVersion, Chunk,
       Downloaded, Verified, Replaced, Fail, ReplaceFails, Gate, Pend, Restart, Exec
  <2>2. ASSUME NEW c \in Threads, Register(c) \/ Finish(c) PROVE actions' = Cardinality(Inside')
    <3> USE DEF Move, TypeOK
    <3>1. CASE Register(c) \/ Deregister(c) \/ Trigger(c) \/ Exec(c)
      <4>1. actions' = actions /\ Inside' = Inside
        BY <3>1 DEF Inside, Register, Deregister, Trigger, Exec
      <4> QED
        BY <4>1
    <3>2. CASE Increment(c)
      <4>1. CASE actions < MaxActions
        <5>1. c \notin Inside /\ Inside' = Inside \cup {c} /\ actions' = actions + 1
          BY <3>2, <4>1 DEF Increment, Inside
        <5> QED
          BY <5>1, InsideFinite
      <4>2. CASE ~(actions < MaxActions)
        <5>1. Inside' = Inside /\ actions' = actions
          BY <3>2, <4>2 DEF Increment, Inside
        <5> QED
          BY <5>1
      <4> QED
        BY <4>1, <4>2
    <3>3. CASE Decrement(c)
      <4>1. c \in Inside /\ Inside' = Inside \ {c} /\ actions' = actions - 1
        BY <3>3 DEF Decrement, Inside
      <4> QED
        BY <4>1, InsideFinite
    <3> QED
      BY <2>2, <3>1, <3>2, <3>3 DEF Finish, Call
  <2>3. CASE Terminated \/ UNCHANGED vars
    BY <2>3 DEF Terminated, vars, Inside
  <2> QED
    BY <2>1, <2>2, <2>3 DEF Next
<1> QED
  BY <1>1, <1>2, TypeCorrect, PTL DEF Spec

-----------------------------------------------------------------------------
(***************************************************************************)
(* Quiet restarts on a current-thread runtime                              *)
(*                                                                         *)
(* is_safe_to_update, register_action and deregister_action each read one  *)
(* of status and counter and act on the other later.  When nothing comes   *)
(* between, what was read still holds when it is acted on.                 *)
(***************************************************************************)

\* At most one actor is between two steps of a stretch without .await ...
OneSegment == \A a, b \in MidSegment : a = b

\* ... and what it has read of counter and status is still so.
ReadIsFresh ==
    /\ \A t \in Tasks :
         /\ check[t] \in {"restart", "exec"} => actions = 0
         /\ check[t] = "pend" => actions > 0
    /\ \A c \in Threads :
         /\ action[c] = "admitted" => ~Blocked
         /\ action[c] = "leaving" => value[c] = actions
         /\ action[c] \in {"trigger", "exec"} => actions = 0

\* The process ends only under status Restarting, and that means no actions.
RestartsQuietly ==
    /\ status.state = "Restarting" => actions = 0
    /\ proc # "running" => status.state = "Restarting"

Cooperative == OneSegment /\ ReadIsFresh /\ RestartsQuietly

LEMMA CooperativeStep ==
  ASSUME ~Preemptive, TypeOK, OneUpdate, Cooperative, [Next]_vars
  PROVE  Cooperative'
<1> USE Disjoint DEF Cooperative, OneSegment, ReadIsFresh, RestartsQuietly, MidSegment, Turn,
        Blocked, TypeOK, Goto, Move, Return, Rest, set_status
<1>1. ASSUME NEW t \in Tasks, Advance(t) PROVE Cooperative'
  <2>1. CASE FirstTick(t)
    BY <2>1 DEF FirstTick
  <2>2. CASE StartCheck(t)
    BY <2>2 DEF StartCheck
  <2>3. CASE Claim(t)
    BY <2>3 DEF Claim, Checking
  <2>4. CASE NoUpdate(t)
    BY <2>4 DEF NoUpdate, Idle
  <2>5. CASE NewVersion(t)
    BY <2>5 DEF NewVersion, Downloading
  <2>6. CASE Chunk(t)
    BY <2>6 DEF Chunk, Downloading
  <2>7. CASE Downloaded(t)
    BY <2>7 DEF Downloaded
  <2>8. CASE Verified(t)
    BY <2>8 DEF Verified, Installing
  <2>9. CASE Replaced(t)
    BY <2>9 DEF Replaced
  <2>10. CASE Fail(t) \/ ReplaceFails(t)
    BY <2>10 DEF Fail, ReplaceFails
  <2>11. CASE Gate(t)
    <3>1. CASE is_safe_to_update
      BY <2>11, <3>1 DEF Gate, is_safe_to_update
    <3>2. CASE ~is_safe_to_update
      BY <2>11, <3>2 DEF Gate, is_safe_to_update
    <3> QED
      BY <3>1, <3>2
  <2>12. CASE Pend(t)
    BY <2>12 DEF Pend, PendingRestart
  <2>13. CASE Restart(t)
    BY <2>13 DEF Restart, Restarting
  <2>14. CASE Exec(t)
    BY <2>14 DEF Exec, AtExec, OneUpdate, StatusTracksTask, Restarting
  <2> QED
    BY <1>1, <2>1, <2>2, <2>3, <2>4, <2>5, <2>6, <2>7, <2>8, <2>9, <2>10, <2>11, <2>12, <2>13, <2>14 DEF Advance
<1>2. ASSUME NEW c \in Threads, Register(c) \/ Finish(c) PROVE Cooperative'
  <2>1. CASE Register(c)
    BY <2>1 DEF Register, Denied
  <2>2. CASE Increment(c)
    BY <2>2 DEF Increment
  <2>3. CASE Decrement(c)
    BY <2>3 DEF Decrement
  <2>4. CASE Deregister(c)
    <3>1. CASE MustRestart(c)
      BY <2>4, <3>1 DEF Deregister, MustRestart
    <3>2. CASE ~MustRestart(c)
      BY <2>4, <3>2 DEF Deregister
    <3> QED
      BY <3>1, <3>2
  <2>5. CASE Trigger(c)
    BY <2>5 DEF Trigger, Restarting
  <2>6. CASE Exec(c)
    BY <2>6 DEF Exec, AtExec, OneUpdate, TriggerTracksStatus
  <2> QED
    BY <1>2, <2>1, <2>2, <2>3, <2>4, <2>5, <2>6 DEF Finish, Call
<1>3. CASE Terminated \/ UNCHANGED vars
  BY <1>3 DEF Terminated, vars
<1> QED
  BY <1>1, <1>2, <1>3 DEF Next

LEMMA CooperativeInvariant ==
  ASSUME ~Preemptive
  PROVE  Spec => []Cooperative
<1>1. Sequential
  BY DEF Sequential
<1>2. Init => Cooperative
  BY DEF Init, Cooperative, OneSegment, ReadIsFresh, RestartsQuietly, MidSegment, Idle, Blocked
<1>3. TypeOK /\ OneUpdate /\ Cooperative /\ [Next]_vars => Cooperative'
  BY CooperativeStep
<1> QED
  BY <1>1, <1>2, <1>3, TypeCorrect, OneUpdateInvariant, PTL DEF Spec

\* On a current-thread runtime no critical action is under way when the process
\* is replaced or exits.
THEOREM QuietRestartCorrect ==
  ASSUME ~Preemptive
  PROVE  Spec => []QuietRestart
<1>1. TypeOK /\ CounterExact /\ Cooperative => QuietRestart
  <2> SUFFICES ASSUME TypeOK, CounterExact, Cooperative, proc # "running"
               PROVE  \A c \in Threads : action[c] # "inside"
    BY DEF QuietRestart
  <2>1. Cardinality(Inside) = 0
    BY DEF Cooperative, RestartsQuietly, CounterExact, Inside
  <2>2. Inside = {}
    BY <2>1, InsideFinite, FS_EmptySet
  <2> QED
    BY <2>2 DEF Inside
<1> QED
  BY <1>1, TypeCorrect, CounterCorrect, CooperativeInvariant, PTL

\* On a current-thread runtime a pending restart is never left behind: as long as
\* the process runs, somebody is going to trigger it.
THEOREM PendingIsNeverForgotten ==
  ASSUME ~Preemptive
  PROVE  Spec => []PendingIsWatched
<1>1. Init => PendingIsWatched
  BY DEF Init, Idle, PendingIsWatched
<1>2. TypeOK /\ OneUpdate /\ Cooperative /\ PendingIsWatched /\ [Next]_vars => PendingIsWatched'
  <2> SUFFICES ASSUME TypeOK, OneUpdate, Cooperative, PendingIsWatched, [Next]_vars,
                      status'.state = "PendingRestart", proc' = "running"
               PROVE  Watched'
    BY DEF PendingIsWatched
  <2>1. CASE status.state = "PendingRestart" /\ proc = "running"
    BY <2>1, WatchStep DEF PendingIsWatched
  <2>2. CASE status.state # "PendingRestart" \/ proc # "running"
    <3>1. proc = "running"
      BY DEF Next, vars, Terminated, Advance, Finish, Call, FirstTick, StartCheck, Claim, NoUpdate,
         NewVersion, Chunk, Downloaded, Verified, Replaced, Fail, ReplaceFails, Gate, Pend, Restart, Exec,
         Register, Increment, Decrement, Deregister, Trigger
    <3>2. PICK t \in Tasks : Pend(t)
      BY <2>2, <3>1 DEF Next, vars, Terminated, Advance, Finish, Call, FirstTick, StartCheck, Claim,
         NoUpdate, NewVersion, Chunk, Downloaded, Verified, Replaced, Fail, ReplaceFails, Gate, Restart, Exec,
         Register, Increment, Decrement, Deregister, Trigger, set_status,
         Idle, Checking, Downloading, Installing, Restarting
    <3>3. actions > 0 /\ actions' = actions
      BY <3>2 DEF Pend, Return, Goto, Cooperative, ReadIsFresh
    <3> QED
      BY <3>3 DEF Watched
  <2> QED
    BY <2>1, <2>2
<1> QED
  BY <1>1, <1>2, CooperativeInvariant, OneUpdateInvariant, TypeCorrect, PTL DEF Spec, Sequential

-----------------------------------------------------------------------------
(* The promise of UpdateGate                                               *)

LEMMA ActiveIsCounted ==
  ASSUME TypeOK, CounterExact
  PROVE  active = {} <=> actions = 0
<1>1. active = Inside /\ actions = Cardinality(Inside)
  BY DEF active, Inside, CounterExact
<1> QED
  BY <1>1, InsideFinite, FS_EmptySet

LEMMA StepKeepsPromise ==
  ASSUME ~Preemptive, TypeOK, TypeOK', CounterExact, CounterExact',
         OneUpdate, Cooperative, [Next]_vars
  PROVE  [Promise!Next]_(Promise!vars)
<1> USE DEF Promise!vars, Promise!Next
<1>1. active = {} <=> actions = 0
  BY ActiveIsCounted
<1>2. active' = {} <=> actions' = 0
  <2>1. active' = Inside' /\ actions' = Cardinality(Inside)'
    BY DEF active, Inside, CounterExact
  <2>2. IsFiniteSet(Inside')
    BY ThreadsAssumption, FS_Subset DEF Inside
  <2> QED
    BY <2>1, <2>2, FS_EmptySet
<1>3. ASSUME NEW t \in Tasks, Advance(t) PROVE [Promise!Next]_(Promise!vars)
  <2> USE DEF Goto, Return, set_status, active
  <2>1. CASE FirstTick(t) \/ StartCheck(t) \/ Downloaded(t) \/ Replaced(t) \/ Fail(t) \/ ReplaceFails(t) \/ Gate(t)
    BY <2>1 DEF FirstTick, StartCheck, Downloaded, Replaced, Fail, ReplaceFails, Gate, phase, Blocked
  <2>2. CASE Claim(t) \/ NoUpdate(t) \/ NewVersion(t) \/ Chunk(t) \/ Verified(t)
    <3>1. ~Blocked
      BY <2>2 DEF Claim, NoUpdate, NewVersion, Chunk, Verified, OneUpdate, InstalledTracksTask, Updating
    <3>2. ~Blocked' /\ proc' = proc /\ action' = action
      BY <2>2 DEF Claim, NoUpdate, NewVersion, Chunk, Verified, Blocked, Idle, Checking,
         Downloading, Installing
    <3> QED
      BY <3>1, <3>2 DEF phase
  <2>3. CASE Pend(t)
    <3>1. actions > 0 /\ ~Blocked /\ proc = "running"
      BY <2>3 DEF Pend, Turn, Cooperative, ReadIsFresh, OneUpdate, InstalledTracksTask, Updating
    <3>2. status'.state = "PendingRestart" /\ Blocked' /\ proc' = proc /\ actions' = actions
          /\ action' = action
      BY <2>3 DEF Pend, PendingRestart, Blocked
    <3>3. phase = "open" /\ phase' = "pending"
      BY <3>1, <3>2 DEF phase, Blocked, TypeOK
    <3>4. Promise!Installed
      BY <1>1, <3>1, <3>2, <3>3 DEF Promise!Installed, TypeOK
    <3> QED
      BY <3>4
  <2>4. CASE Restart(t)
    <3>1. actions = 0 /\ ~Blocked /\ proc = "running"
      BY <2>4 DEF Restart, Turn, Cooperative, ReadIsFresh, OneUpdate, InstalledTracksTask, Updating
    <3>2. status'.state = "Restarting" /\ Blocked' /\ proc' = proc /\ action' = action
      BY <2>4 DEF Restart, Restarting, Blocked
    <3>3. phase = "open" /\ phase' = "restarting"
      BY <3>1, <3>2 DEF phase
    <3>4. Promise!Installed
      BY <1>1, <3>1, <3>2, <3>3 DEF Promise!Installed
    <3> QED
      BY <3>4
  <2>5. CASE Exec(t)
    <3>1. status.state = "Restarting" /\ proc = "running" /\ proc' # "running" /\ action' = action
      BY <2>5 DEF Exec, AtExec, Turn, OneUpdate, StatusTracksTask, Restarting
    <3>2. phase = "restarting" /\ phase' = "gone"
      BY <3>1 DEF phase, Blocked
    <3> QED
      BY <3>1, <3>2 DEF Promise!Leave
  <2> QED
    BY <1>3, <2>1, <2>2, <2>3, <2>4, <2>5 DEF Advance
<1>4. ASSUME NEW c \in Threads, Register(c) \/ Finish(c) PROVE [Promise!Next]_(Promise!vars)
  <2> USE DEF Move, set_status, TypeOK
  <2>1. CASE Register(c) \/ Deregister(c)
    <3>1. active' = active
      BY <2>1 DEF Register, Deregister, active
    <3> QED
      BY <2>1, <3>1 DEF Register, Deregister, phase, Blocked
  <2>2. CASE Increment(c)
    <3>1. ~Blocked /\ ~Blocked' /\ proc = "running" /\ proc' = "running"
      BY <2>2 DEF Increment, Turn, Blocked, Cooperative, ReadIsFresh
    <3>2. phase = "open" /\ phase' = "open"
      BY <3>1 DEF phase, Blocked
    <3>3. CASE actions < MaxActions
      <4>1. c \notin active /\ active' = active \cup {c}
        BY <2>2, <3>3 DEF Increment, active
      <4>2. Promise!Begin(c)
        BY <3>2, <4>1 DEF Promise!Begin
      <4> QED
        BY <4>2
    <3>4. CASE ~(actions < MaxActions)
      <4>1. active' = active
        BY <2>2, <3>4 DEF Increment, active
      <4> QED
        BY <3>2, <4>1
    <3> QED
      BY <3>3, <3>4
  <2>3. CASE Decrement(c)
    <3>1. c \in active /\ active' = active \ {c} /\ proc = "running"
      BY <2>3 DEF Decrement, Turn, active
    <3>2. actions > 0 /\ actions' \in Nat /\ proc' = proc /\ status' = status
      BY <2>3 DEF Decrement
    <3>3. phase # "gone" /\ phase' = IF phase = "pending" /\ active' = {} THEN "restarting" ELSE phase
      BY <1>2, <3>1, <3>2 DEF phase, Blocked
    <3>4. Promise!End(c)
      BY <3>1, <3>3 DEF Promise!End
    <3> QED
      BY <3>4
  <2>4. CASE Trigger(c)
    <3>1. actions = 0 /\ Blocked /\ proc = "running"
      BY <2>4 DEF Trigger, Turn, Cooperative, ReadIsFresh, OneUpdate, TriggerTracksStatus
    <3>2. status'.state = "Restarting" /\ Blocked' /\ proc' = proc /\ active' = active
      BY <2>4 DEF Trigger, Restarting, Blocked, active
    <3> QED
      BY <3>1, <3>2 DEF phase
  <2>5. CASE Exec(c)
    <3>1. status.state = "Restarting" /\ proc = "running" /\ proc' # "running" /\ active' = active
      BY <2>5, Disjoint DEF Exec, AtExec, Turn, OneUpdate, TriggerTracksStatus, active
    <3>2. phase = "restarting" /\ phase' = "gone"
      BY <3>1 DEF phase, Blocked
    <3> QED
      BY <3>1, <3>2 DEF Promise!Leave
  <2> QED
    BY <1>4, <2>1, <2>2, <2>3, <2>4, <2>5 DEF Finish, Call
<1>5. CASE Terminated \/ UNCHANGED vars
  BY <1>5 DEF Terminated, vars, phase, active, Blocked
<1> QED
  BY <1>3, <1>4, <1>5 DEF Next

\* On a current-thread runtime the updater implements the safety part of
\* UpdateGate: actions are admitted until an update is installed, and the
\* process leaves only when none is left.
THEOREM KeepsPromiseSafely ==
  ASSUME ~Preemptive
  PROVE  Spec => Promise!Spec
<1>1. Sequential
  BY DEF Sequential
<1>2. Init => Promise!Init
  BY DEF Init, Promise!Init, phase, active, Blocked, Idle
<1>3. TypeOK /\ TypeOK' /\ CounterExact /\ CounterExact' /\ OneUpdate /\ Cooperative
        /\ [Next]_vars => [Promise!Next]_(Promise!vars)
  BY StepKeepsPromise
<1> QED
  BY <1>1, <1>2, <1>3, TypeCorrect, CounterCorrect, OneUpdateInvariant,
     CooperativeInvariant, PTL DEF Spec, Promise!Spec

\* Hence the critical actions counted by the updater only become fewer once an
\* update is installed, until the restart.
THEOREM ActionsOnlyDrain ==
  ASSUME ~Preemptive
  PROVE  Spec => Promise!OnlyDrains
<1>1. [Promise!Next]_(Promise!vars) =>
        [phase # "open" => phase' # "open" /\ active' \subseteq active]_(Promise!vars)
  BY DEF Promise!Next, Promise!Begin, Promise!End, Promise!Installed, Promise!Leave, Promise!vars
<1> QED
  BY <1>1, KeepsPromiseSafely, PTL DEF Promise!Spec, Promise!OnlyDrains

=============================================================================
