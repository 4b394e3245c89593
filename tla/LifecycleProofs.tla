---------------------------- MODULE LifecycleProofs ----------------------------
(***************************************************************************)
(* Proofs about Lifecycle, for any parts of the application that share an  *)
(* updater.                                                                *)
(***************************************************************************)
EXTENDS Lifecycle, TLAPS

\* Drop has run exactly when nobody holds a reference, and only then is there a
\* message in the queue.
Accounted ==
    /\ dropped <=> ~Referenced
    /\ queue \in {"empty", "stop"}
    /\ queue = "stop" => dropped

\* The timer task has a reference of its own: it cannot end before Drop has run.
TimerGoesOn == timer # "ended"

LEMMA AccountedStep ==
    ASSUME Accounted, TimerGoesOn, [Next]_vars
    PROVE  Accounted' /\ TimerGoesOn'
<1> USE DEF Accounted, TimerGoesOn, Referenced, Drop
<1>1. ASSUME NEW o \in Owners, Clone(o) PROVE Accounted' /\ TimerGoesOn'
  BY <1>1 DEF Clone
<1>2. ASSUME NEW o \in Owners, Release(o) PROVE Accounted' /\ TimerGoesOn'
  BY <1>2 DEF Release
<1>3. CASE StartupEnds
  BY <1>3 DEF StartupEnds
<1>4. CASE Select
  <2>1. queue = "empty"
    BY <1>4 DEF Select
  <2>2. timer' \in {"waiting", "checking"}
    BY <1>4, <2>1 DEF Select, Arms, Chosen
  <2> QED
    BY <1>4, <2>2 DEF Select
<1>5. CASE Checked
  BY <1>5 DEF Checked
<1>6. CASE UNCHANGED vars
  BY <1>6 DEF vars
<1> QED
  BY <1>1, <1>2, <1>3, <1>4, <1>5, <1>6 DEF Next

LEMMA AccountedInvariant == Spec => [](Accounted /\ TimerGoesOn)
<1>1. Init => Accounted /\ TimerGoesOn
  BY DEF Init, Returns, Panics, Accounted, TimerGoesOn, Referenced
<1>2. Accounted /\ TimerGoesOn /\ [Next]_vars => Accounted' /\ TimerGoesOn'
  BY AccountedStep
<1> QED
  BY <1>1, <1>2, PTL DEF Spec

\* No check is under way, and none begins, on an updater that has been dropped.
THEOREM DroppedIsQuiet == Spec => []NoCheckOnceDropped
<1>1. Accounted => NoCheckOnceDropped
  BY DEF Accounted, Referenced, NoCheckOnceDropped
<1> QED
  BY <1>1, AccountedInvariant, PTL

\* Drop never reaches a timer task: it goes on as long as the process, whoever lets
\* go of the updater.
THEOREM TimerOutlivesOwners == Spec => []TimerIsForEver
<1>1. Accounted /\ TimerGoesOn => TimerIsForEver
  BY DEF Accounted, TimerGoesOn, Referenced, TimerIsForEver
<1> QED
  BY <1>1, AccountedInvariant, PTL

=============================================================================
