------------------------------ MODULE MCRollout ------------------------------
(***************************************************************************)
(* Rollout with the first build, one of version 2 and two of version 3, of *)
(* two lengths, the last of which has no updater; the careless operator    *)
(* may put out any of them as any version. To keep the instance small,     *)
(* MaxVouched bounds how much comes to be vouched for, only the server     *)
(* behind the faulty network changes its key, and only the orderly         *)
(* operator has applications that do not make every check they can.        *)
(***************************************************************************)
EXTENDS Rollout

CONSTANTS b1, b2, b3, d3, MaxVouched

MCVersions == 2..3
MCContents == {b1, b2, b3, d3}
MCLength == [c \in MCContents |-> IF c = b3 THEN 2 ELSE 1]
MCBuilt == [c \in MCContents |-> IF c = b1 THEN 1 ELSE IF c = b2 THEN 2 ELSE 3]

MCUpdating == MCContents \ {d3}

MCInit == Init /\ (setting # "orderly" => checks = {"startup", "timer"})

MCStart(list, k) ==
    /\ Start(list, k)
    /\ Cardinality(vouched') <= MaxVouched
    /\ setting = "careless" => key' = Trusted

MCNext ==
    \/ Publish
    \/ Stop
    \/ \E list \in Lists, k \in Keys : MCStart(list, k)
    \/ Launch \/ Quit \/ Update

MCSpec == MCInit /\ [][MCNext]_vars /\ WF_vars(Update)

=============================================================================
