-------------------------- MODULE UpdateGateProofs --------------------------
(***************************************************************************)
(* The promise of UpdateGate means what it is for: no critical action is   *)
(* cut off.                                                                *)
(***************************************************************************)
EXTENDS UpdateGate, TLAPS

\* Once a restart is due no critical action is under way, and none starts.
THEOREM GateNeverInterrupts == Spec => []NeverInterrupted
<1>1. Init => NeverInterrupted
  BY DEF Init, NeverInterrupted
<1>2. NeverInterrupted /\ [Next]_vars => NeverInterrupted'
  <2> SUFFICES ASSUME NeverInterrupted, [Next]_vars PROVE NeverInterrupted'
    OBVIOUS
  <2> USE DEF NeverInterrupted
  <2>1. ASSUME NEW c \in Threads, Begin(c) PROVE NeverInterrupted'
    BY <2>1 DEF Begin
  <2>2. ASSUME NEW c \in Threads, End(c) PROVE NeverInterrupted'
    BY <2>2 DEF End
  <2>3. CASE Installed
    BY <2>3 DEF Installed
  <2>4. CASE Leave
    BY <2>4 DEF Leave
  <2>5. CASE UNCHANGED vars
    BY <2>5 DEF vars
  <2> QED
    BY <2>1, <2>2, <2>3, <2>4, <2>5 DEF Next
<1> QED
  BY <1>1, <1>2, PTL DEF Spec

\* Once an update has been installed the critical actions only become fewer.
THEOREM GateOnlyDrains == Spec => OnlyDrains
<1>1. [Next]_vars => [phase # "open" => phase' # "open" /\ active' \subseteq active]_vars
  BY DEF Next, Begin, End, Installed, Leave, vars
<1> QED
  BY <1>1, PTL DEF Spec, OnlyDrains

=============================================================================
