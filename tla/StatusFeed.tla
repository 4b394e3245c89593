------------------------------ MODULE StatusFeed ------------------------------
(***************************************************************************)
(* What a subscriber of the updater's status may rely upon, with no lock,  *)
(* no channel and no lag: what it hears is the status as it is at that     *)
(* moment, and it hears of no status twice.  It need not hear of every     *)
(* one, and not of the one it finds (src/README.md, "Status event          *)
(* subscription"; src/src/client.rs, new, set_status and subscribe).       *)
(* StatusChannel implements this specification on a current-thread         *)
(* runtime.                                                                *)
(***************************************************************************)
EXTENDS Naturals

CONSTANT Receivers

VARIABLES
    published,          \* the number of the status that is known to the world
    listening,          \* the receivers there are
    heard               \* heard[r]: the status r has heard of last, or 0

vars == <<published, listening, heard>>

Init ==
    /\ published = 0
    /\ listening \subseteq Receivers
    /\ heard = [r \in Receivers |-> 0]

Publish ==
    /\ published' = published + 1
    /\ UNCHANGED <<listening, heard>>

Join(r) ==
    /\ r \notin listening
    /\ listening' = listening \cup {r}
    /\ heard' = [heard EXCEPT ![r] = 0]
    /\ UNCHANGED published

Leave(r) ==
    /\ r \in listening
    /\ listening' = listening \ {r}
    /\ UNCHANGED <<published, heard>>

Hear(r) ==
    /\ r \in listening
    /\ heard[r] < published
    /\ heard' = [heard EXCEPT ![r] = published]
    /\ UNCHANGED <<published, listening>>

Next == Publish \/ \E r \in Receivers : Join(r) \/ Leave(r) \/ Hear(r)

Spec == Init /\ [][Next]_vars

=============================================================================
