------------------------- MODULE SharedUpdaterProofs -------------------------
(***************************************************************************)
(* SharedUpdater implements both modules it is made of, for any parts of   *)
(* the application and any listeners, so that what is proved about each of *)
(* them holds of the whole.                                                *)
(***************************************************************************)
EXTENDS SharedUpdater, StatusChannelProofs

LifeProofs == INSTANCE LifecycleProofs WITH
    Owners <- Owners, owners <- owners, startup <- startup, timer <- timer, queue <- queue,
    dropped <- closed

-----------------------------------------------------------------------------
(* The life of the updater                                                 *)

\* Whatever is sent and heard, the updater lives as Lifecycle says.
THEOREM LivesAsAlone == SharedSpec => Life!Spec
<1>1. SharedInit => Life!Init
  BY DEF SharedInit
<1>2. [SharedNext]_sharedVars => [Life!Next]_(Life!vars)
  <2> SUFFICES ASSUME [SharedNext]_sharedVars PROVE [Life!Next]_(Life!vars)
    OBVIOUS
  <2> USE DEF references, Life!vars
  <2>1. ASSUME NEW s \in Setters, SetsStatus(s) PROVE UNCHANGED Life!vars
    BY <2>1 DEF SetsStatus, Write, Send
  <2>2. ASSUME NEW l \in Listeners, Subscribes(l) \/ Unsubscribes(l) \/ Hears(l)
        PROVE  UNCHANGED Life!vars
    BY <2>2 DEF Subscribes, Unsubscribes, Hears, Subscribe, Unsubscribe, Receive, Lag
  <2>3. CASE Logs \/ UNCHANGED sharedVars
    BY <2>3 DEF Logs, Receive, LoggerStops, sharedVars, vars
  <2>4. ASSUME NEW o \in Owners, Shares(o) PROVE Life!Next
    BY <2>4 DEF Shares, Life!Next
  <2>5. CASE StartupTask \/ TimerTask
    BY <2>5 DEF StartupTask, TimerTask, Life!Next
  <2> QED
    BY <2>1, <2>2, <2>3, <2>4, <2>5 DEF SharedNext
<1> QED
  BY <1>1, <1>2, PTL DEF SharedSpec, Life!Spec

\* No check is under way, and none begins, on an updater that has been dropped,
\* whoever still sets a status or listens.
THEOREM SharedDroppedIsQuiet == SharedSpec => []NoCheckOnceDropped
<1>1. Life!Init => LifeProofs!Init
  BY DEF Life!Init, LifeProofs!Init, Life!Returns, LifeProofs!Returns, Life!Panics, LifeProofs!Panics
<1>2. [Life!Next]_(Life!vars) => [LifeProofs!Next]_(LifeProofs!vars)
  BY DEF Life!Next, LifeProofs!Next, Life!vars, LifeProofs!vars, Life!Clone, LifeProofs!Clone,
     Life!Release, LifeProofs!Release, Life!StartupEnds, LifeProofs!StartupEnds,
     Life!Select, LifeProofs!Select, Life!Checked, LifeProofs!Checked, Life!Drop, LifeProofs!Drop,
     Life!Referenced, LifeProofs!Referenced, Life!Arms, LifeProofs!Arms, Life!Chosen, LifeProofs!Chosen
<1>3. LifeProofs!NoCheckOnceDropped => NoCheckOnceDropped
  BY DEF NoCheckOnceDropped, Life!NoCheckOnceDropped, LifeProofs!NoCheckOnceDropped
<1> QED
  BY <1>1, <1>2, <1>3, LivesAsAlone, LifeProofs!DroppedIsQuiet, PTL DEF Life!Spec, LifeProofs!Spec

-----------------------------------------------------------------------------
(* The channel                                                             *)

\* Nobody is in set_status without a reference: without it a step of Lifecycle
\* could close the channel on somebody who has yet to send.
CallsHoldOn ==
    /\ closed \in BOOLEAN
    /\ sending \in [Setters -> Nat]
    /\ \A s \in Setters : sending[s] # 0 => Holds(s)

\* A part of the application shares the updater or lets go of it, or a task goes on.
LivesOn(a) ==
    \/ a \in Owners /\ Shares(a)
    \/ a = "startup" /\ StartupTask
    \/ a = "timer" /\ TimerTask

\* It is not in the middle of a call, and takes nobody else's reference away.
LEMMA OthersHoldOn ==
  ASSUME NEW a \in Setters, LivesOn(a)
  PROVE  /\ sending[a] = 0 /\ UNCHANGED events
         /\ closed' = closed \/ (closed' = TRUE /\ ~Life!Referenced')
         /\ \A s \in Setters \ {a} : Holds(s) => Holds(s)'
<1>1. CASE a \in Owners /\ Shares(a)
  BY <1>1, SettersAssumption DEF Shares, Free, Holds, Life!Clone, Life!Release, Life!Drop
<1>2. CASE a = "startup" /\ StartupTask
  BY <1>2, SettersAssumption DEF StartupTask, Free, Holds, Life!StartupEnds, Life!Drop
<1>3. CASE a = "timer" /\ TimerTask
  <2>1. CASE Life!Select
    BY <1>3, <2>1, SettersAssumption DEF TimerTask, Free, Holds, Life!Select, Life!Drop
  <2>2. CASE Life!Checked
    BY <1>3, <2>2, SettersAssumption DEF TimerTask, Free, Holds, Life!Checked
  <2> QED
    BY <1>3, <2>1, <2>2 DEF TimerTask
<1> QED
  BY <1>1, <1>2, <1>3 DEF LivesOn

\* Every other step is one of the channel.
LEMMA ChannelOrLife ==
  ASSUME [SharedNext]_sharedVars
  PROVE  \/ \E a \in Setters : LivesOn(a)
         \/ [Next]_vars /\ closed' = closed /\ UNCHANGED references
<1> USE DEF Next
<1>1. ASSUME NEW s \in Setters, SetsStatus(s)
      PROVE  Next /\ closed' = closed /\ UNCHANGED references
  BY <1>1 DEF SetsStatus, Write, Send
<1>2. ASSUME NEW l \in Listeners, Subscribes(l) \/ Unsubscribes(l) \/ Hears(l)
      PROVE  Next /\ closed' = closed /\ UNCHANGED references
  <2>1. l \in Receivers
    BY DEF Receivers
  <2>2. closed' = closed /\ UNCHANGED references
    BY <1>2 DEF Subscribes, Unsubscribes, Hears, Subscribe, Unsubscribe, Receive, Lag
  <2> QED
    BY <1>2, <2>1, <2>2 DEF Subscribes, Unsubscribes, Hears
<1>3. CASE Logs
  <2>1. "logger" \in Receivers
    BY DEF Receivers
  <2>2. closed' = closed /\ UNCHANGED references
    BY <1>3 DEF Logs, Receive, LoggerStops
  <2> QED
    BY <1>3, <2>1, <2>2 DEF Logs
<1>4. CASE UNCHANGED sharedVars
  BY <1>4 DEF sharedVars, vars
<1>5. ASSUME (\E o \in Owners : Shares(o)) \/ StartupTask \/ TimerTask
      PROVE  \E a \in Setters : LivesOn(a)
  BY <1>5, SettersAssumption DEF LivesOn
<1> QED
  BY <1>1, <1>2, <1>3, <1>4, <1>5 DEF SharedNext

LEMMA CallsHoldOnStep ==
  ASSUME CallsHoldOn, TypeOK, [SharedNext]_sharedVars
  PROVE  CallsHoldOn'
<1> USE DEF CallsHoldOn
<1>1. ASSUME NEW a \in Setters, LivesOn(a) PROVE CallsHoldOn'
  BY <1>1, OthersHoldOn DEF events
<1>2. ASSUME NEW s \in Setters, SetsStatus(s) PROVE CallsHoldOn'
  <2>1. closed' = closed /\ \A u \in Setters : Holds(u)' <=> Holds(u)
    BY <1>2 DEF SetsStatus, Write, Send, Holds, references
  <2>2. CASE Write(s) /\ Holds(s)
    BY <2>1, <2>2 DEF Write, TypeOK
  <2>3. CASE Send(s)
    BY <2>1, <2>3 DEF Send
  <2> QED
    BY <1>2, <2>2, <2>3 DEF SetsStatus
<1>3. ASSUME UNCHANGED <<sending, closed, references>> PROVE CallsHoldOn'
  BY <1>3 DEF Holds, references
<1>4. ASSUME NEW l \in Listeners, Subscribes(l) \/ Unsubscribes(l) \/ Hears(l) PROVE CallsHoldOn'
  BY <1>3, <1>4 DEF Subscribes, Unsubscribes, Hears, Subscribe, Unsubscribe, Receive, Lag
<1>5. CASE Logs \/ UNCHANGED sharedVars
  BY <1>3, <1>5 DEF Logs, Receive, LoggerStops, sharedVars, vars
<1> QED
  BY <1>1, <1>2, <1>4, <1>5, SettersAssumption DEF SharedNext, LivesOn

\* The channel does not see that the updater comes and goes: it is closed at most
\* once, and never on a call of set_status.
LEMMA ChannelStep ==
  ASSUME CallsHoldOn, [SharedNext]_sharedVars
  PROVE  [Next]_vars
<1>1. ASSUME NEW a \in Setters, LivesOn(a) PROVE [Next]_vars
  <2>1. CASE closed' = closed
    BY <1>1, <2>1, OthersHoldOn DEF events, vars
  <2>2. CASE closed' # closed
    <3>1. closed' = TRUE /\ ~closed /\ ~Life!Referenced' /\ UNCHANGED events
      BY <1>1, <2>2, OthersHoldOn DEF CallsHoldOn
    <3>2. ASSUME NEW s \in Setters, sending[s] # 0 PROVE FALSE
      <4>1. Holds(s)'
        BY <1>1, <3>2, OthersHoldOn DEF CallsHoldOn
      <4> QED
        BY <3>1, <4>1 DEF Holds, Life!Referenced
    <3>3. Close
      BY <3>1, <3>2 DEF Close, NobodySends, events
    <3> QED
      BY <3>3 DEF Next
  <2> QED
    BY <2>1, <2>2
<1> QED
  BY <1>1, ChannelOrLife

\* However references are shared and let go of, those who listen see the channel of
\* StatusChannel: what is proved of it holds for the updater as it comes and goes.
THEOREM SharedChannel == SharedSpec => Spec
<1>1. SharedInit => Init /\ CallsHoldOn /\ TypeOK
  BY MaxChangesAssumption DEF SharedInit, Init, CallsHoldOn, TypeOK, Receivers
<1>2. CallsHoldOn /\ TypeOK /\ NoMoreThanChanges /\ [SharedNext]_sharedVars
        => CallsHoldOn' /\ [Next]_vars
  BY CallsHoldOnStep, ChannelStep
<1>3. TypeOK /\ NoMoreThanChanges /\ [Next]_vars => TypeOK' /\ NoMoreThanChanges'
  BY TypeStep
<1>4. Init => NoMoreThanChanges
  <2>1. Init => Senders = {}
    BY DEF Init, Senders
  <2> QED
    BY <2>1, FS_EmptySet DEF Init, NoMoreThanChanges
<1> QED
  BY <1>1, <1>2, <1>3, <1>4, PTL DEF SharedSpec, Spec

\* Hence, on a current-thread runtime, whoever has heard of a status and has nothing
\* left to receive knows the one that holds, also when the updater is gone.
THEOREM SharedCaughtUp ==
  ASSUME ~Preemptive
  PROVE  SharedSpec => []CaughtUp /\ FeedsLatest
  BY SharedChannel, CaughtUpCorrect, FeedIsLatest

=============================================================================
