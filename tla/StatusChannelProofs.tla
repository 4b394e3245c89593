------------------------- MODULE StatusChannelProofs -------------------------
(***************************************************************************)
(* Proofs about StatusChannel, for every number of setters, listeners and  *)
(* changes of status.                                                      *)
(***************************************************************************)
EXTENDS StatusChannel, FiniteSetTheorems, TLAPS

-----------------------------------------------------------------------------
(* Type correctness                                                        *)

Senders == {s \in Setters : sending[s] # 0}

\* Every event sent and every call that has yet to send is a change of status of
\* its own: without it, TypeOK does not follow for the number of events.
NoMoreThanChanges == IsFiniteSet(Senders) /\ tail + Cardinality(Senders) <= status

LEMMA SendersCounted ==
  ASSUME NEW S, IsFiniteSet(S)
  PROVE  /\ Cardinality(S) \in Nat
         /\ \A s : s \notin S => IsFiniteSet(S \cup {s}) /\ Cardinality(S \cup {s}) = Cardinality(S) + 1
         /\ \A s \in S : IsFiniteSet(S \ {s}) /\ Cardinality(S \ {s}) = Cardinality(S) - 1
  BY FS_CardinalityType, FS_AddElement, FS_RemoveElement

LEMMA TypeStep ==
  ASSUME TypeOK, NoMoreThanChanges, [Next]_vars
  PROVE  TypeOK' /\ NoMoreThanChanges'
<1> USE MaxChangesAssumption DEF TypeOK, NoMoreThanChanges
<1>0. Cardinality(Senders) \in Nat
  BY SendersCounted
<1>1. ASSUME NEW s \in Setters, Write(s) PROVE TypeOK' /\ NoMoreThanChanges'
  <2>1. s \notin Senders /\ Senders' = Senders \cup {s} /\ status' = status + 1 /\ tail' = tail
    BY <1>1 DEF Write, Senders
  <2>2. IsFiniteSet(Senders') /\ Cardinality(Senders') = Cardinality(Senders) + 1
    BY <2>1, SendersCounted
  <2>3. NoMoreThanChanges'
    BY <1>0, <2>1, <2>2
  <2> QED
    BY <1>1, <2>3 DEF Write
<1>2. ASSUME NEW s \in Setters, Send(s) PROVE TypeOK' /\ NoMoreThanChanges'
  <2>1. s \in Senders /\ Senders' = Senders \ {s} /\ status' = status /\ tail' \in {tail, tail + 1}
    BY <1>2 DEF Send, Senders
  <2>2. Cardinality(Senders') = Cardinality(Senders) - 1 /\ IsFiniteSet(Senders')
    BY <2>1, SendersCounted
  <2>3. Cardinality(Senders') \in Nat
    BY <2>2, FS_CardinalityType
  <2>4. NoMoreThanChanges' /\ tail' \in 0..MaxChanges
    BY <1>0, <2>1, <2>2, <2>3
  <2> QED
    BY <1>2, <2>1, <2>4 DEF Send, Hold
<1>3. ASSUME UNCHANGED <<status, sending, slot, tail>> PROVE NoMoreThanChanges'
  BY <1>3 DEF Senders
<1>4. ASSUME NEW l \in Listeners, Subscribe(l) PROVE TypeOK' /\ NoMoreThanChanges'
  BY <1>3, <1>4 DEF Subscribe, Receivers
<1>5. ASSUME NEW l \in Listeners, Unsubscribe(l) PROVE TypeOK' /\ NoMoreThanChanges'
  BY <1>3, <1>5 DEF Unsubscribe
<1>6. ASSUME NEW l \in Listeners, Lag(l) PROVE TypeOK' /\ NoMoreThanChanges'
  BY <1>3, <1>6 DEF Lag, Lagging, Skip, Receivers
<1>7. ASSUME NEW r \in Receivers, Receive(r) PROVE TypeOK' /\ NoMoreThanChanges'
  BY <1>3, <1>7 DEF Receive
<1>8. CASE LoggerStops
  BY <1>3, <1>8 DEF LoggerStops
<1>9. CASE Close \/ UNCHANGED vars
  BY <1>3, <1>9 DEF Close, vars
<1> QED
  BY <1>1, <1>2, <1>4, <1>5, <1>6, <1>7, <1>8, <1>9 DEF Next

\* The channel and its receivers are well typed on any runtime: no receiver is
\* ahead of the channel, and no more events are sent than there were changes.
THEOREM TypeCorrect == Spec => []TypeOK
<1>1. Init => TypeOK /\ NoMoreThanChanges
  <2>1. Init => Senders = {}
    BY DEF Init, Senders
  <2> QED
    BY <2>1, FS_EmptySet, MaxChangesAssumption DEF Init, TypeOK, NoMoreThanChanges, Receivers
<1>2. TypeOK /\ NoMoreThanChanges /\ [Next]_vars => TypeOK' /\ NoMoreThanChanges'
  BY TypeStep
<1> QED
  BY <1>1, <1>2, PTL DEF Spec

-----------------------------------------------------------------------------
(* In step with the status                                                 *)

\* At any time no more events have been sent than statuses written, one less for
\* each call of set_status that has not sent its event yet: with one such call
\* at most, the last event sent is the status, or the one before it.
OneSends == \A s, u \in Setters : sending[s] # 0 /\ sending[u] # 0 => s = u

SendsTheStatus == \A s \in Setters : sending[s] # 0 => sending[s] = status

\* The channel is at most one call of set_status behind, and whoever listens and
\* has heard, or can still hear, an event is behind by no more than that.
InStep ==
    /\ OneSends
    /\ SendsTheStatus
    /\ tail <= Published
    /\ slot <= Published
    /\ \A r \in listening :
         /\ seen[r] <= slot
         /\ next[r] < tail => seen[r] < slot
         /\ next[r] < tail \/ seen[r] # 0 => slot = Published
         /\ next[r] = tail /\ seen[r] # 0 => seen[r] = slot

LEMMA StepInvariant ==
  ASSUME ~Preemptive, TypeOK, TypeOK', InStep, [Next]_vars
  PROVE  InStep'
<1> USE MaxChangesAssumption
    DEF TypeOK, InStep, OneSends, SendsTheStatus, Published, NobodySends, Turn
<1>1. ASSUME NEW s \in Setters, Write(s) PROVE InStep'
  <2>1. NobodySends
    BY <1>1 DEF Write
  <2>2. status' = status + 1 /\ sending'[s] = status + 1 /\ ~NobodySends' /\ Published' = status
    BY <1>1 DEF Write
  <2> QED
    BY <1>1, <2>1, <2>2 DEF Write
<1>2. ASSUME NEW s \in Setters, Send(s) PROVE InStep'
  <2>1. sending[s] = status /\ ~NobodySends /\ Published = status - 1 /\ status > 0
    BY <1>2 DEF Send
  <2>2. NobodySends' /\ Published' = status /\ status' = status
    BY <1>2 DEF Send
  <2>3. CASE listening # {}
    <3>1. slot' = status /\ tail' = tail + 1
      BY <1>2, <2>1, <2>3 DEF Send, Hold
    <3>2. \A r \in listening' : next'[r] < tail' /\ seen'[r] < slot'
      BY <1>2, <2>1, <3>1 DEF Send
    <3> QED
      BY <1>2, <2>1, <2>2, <3>1, <3>2 DEF Send
  <2>4. CASE listening = {}
    BY <1>2, <2>1, <2>2, <2>4 DEF Send
  <2> QED
    BY <2>3, <2>4
<1>3. ASSUME NEW l \in Listeners, Subscribe(l) PROVE InStep'
  BY <1>3 DEF Subscribe, Receivers
<1>4. ASSUME NEW l \in Listeners, Unsubscribe(l) PROVE InStep'
  BY <1>4 DEF Unsubscribe
<1>5. ASSUME NEW l \in Listeners, Lag(l) PROVE InStep'
  BY <1>5 DEF Lag, Lagging, Skip, Receivers
<1>6. ASSUME NEW r \in Receivers, Receive(r) PROVE InStep'
  BY <1>6 DEF Receive
<1>7. CASE LoggerStops
  BY <1>7 DEF LoggerStops
<1>8. CASE Close \/ UNCHANGED vars
  BY <1>8 DEF Close, vars
<1> QED
  BY <1>1, <1>2, <1>3, <1>4, <1>5, <1>6, <1>7, <1>8 DEF Next

LEMMA InStepInvariant ==
  ASSUME ~Preemptive
  PROVE  Spec => []InStep
<1>1. Init => InStep
  BY MaxChangesAssumption
  DEF Init, InStep, OneSends, SendsTheStatus, Published, NobodySends, Receivers
<1>2. TypeOK /\ TypeOK' /\ InStep /\ [Next]_vars => InStep'
  BY StepInvariant
<1> QED
  BY <1>1, <1>2, TypeCorrect, PTL DEF Spec

\* On a current-thread runtime a receiver that has heard of a status and has nothing
\* left to receive knows the one that holds, however many events it has missed.
THEOREM CaughtUpCorrect ==
  ASSUME ~Preemptive
  PROVE  Spec => []CaughtUp
<1>1. TypeOK /\ InStep => CaughtUp
  BY DEF InStep, CaughtUp, Published
<1> QED
  BY <1>1, InStepInvariant, TypeCorrect, PTL

-----------------------------------------------------------------------------
(* StatusFeed                                                              *)

LEMMA StepFeedsLatest ==
  ASSUME ~Preemptive, TypeOK, InStep, TypeOK', InStep', [Next]_vars
  PROVE  [Feed!Next]_(Feed!vars)
<1> USE DEF Feed!vars, Feed!Next, Turn, TypeOK, Published, NobodySends
<1>1. ASSUME NEW s \in Setters, Write(s) PROVE UNCHANGED Feed!vars
  <2>1. NobodySends /\ ~NobodySends' /\ status' = status + 1
    BY <1>1 DEF Write
  <2> QED
    BY <1>1, <2>1 DEF Write
<1>2. ASSUME NEW s \in Setters, Send(s) PROVE Feed!Publish
  <2>1. ~NobodySends /\ NobodySends' /\ status' = status
    BY <1>2 DEF Send
  <2>2. Published' = Published + 1
    BY <2>1
  <2> QED
    BY <1>2, <2>2 DEF Send, Feed!Publish
<1>3. ASSUME NEW l \in Listeners, Subscribe(l) PROVE Feed!Join(l) /\ l \in Receivers
  BY <1>3 DEF Subscribe, Feed!Join, Receivers
<1>4. ASSUME NEW l \in Listeners, Unsubscribe(l) PROVE Feed!Leave(l) /\ l \in Receivers
  BY <1>4 DEF Unsubscribe, Feed!Leave, Receivers
<1>5. ASSUME NEW l \in Listeners, Lag(l) PROVE UNCHANGED Feed!vars
  BY <1>5 DEF Lag
<1>6. ASSUME NEW r \in Receivers, Receive(r) PROVE Feed!Hear(r)
  <2>1. r \in listening /\ next[r] < tail
    BY <1>6 DEF Receive
  <2>2. slot = Published /\ seen[r] < slot
    BY <2>1 DEF InStep
  <2> HIDE DEF Published
  <2>3. Published' = Published
    BY <1>6 DEF Receive, Published
  <2> QED
    BY <1>6, <2>1, <2>2, <2>3 DEF Receive, Feed!Hear
<1>7. CASE LoggerStops
  BY <1>7 DEF LoggerStops, Lagging, Feed!Leave, Receivers
<1>8. CASE Close \/ UNCHANGED vars
  BY <1>8 DEF Close, vars
<1> QED
  BY <1>1, <1>2, <1>3, <1>4, <1>5, <1>6, <1>7, <1>8 DEF Next

\* On a current-thread runtime whoever receives an event receives the status as it
\* is, and none twice, for every number of setters and receivers.
THEOREM FeedIsLatest ==
  ASSUME ~Preemptive
  PROVE  Spec => FeedsLatest
<1>1. Init => Feed!Init
  BY DEF Init, Feed!Init, Published, NobodySends, Receivers
<1>2. TypeOK /\ InStep /\ TypeOK' /\ InStep' /\ [Next]_vars => [Feed!Next]_(Feed!vars)
  BY StepFeedsLatest
<1> QED
  BY <1>1, <1>2, InStepInvariant, TypeCorrect, PTL DEF Spec, FeedsLatest, Feed!Spec

=============================================================================
