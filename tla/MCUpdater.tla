------------------------------ MODULE MCUpdater ------------------------------
(***************************************************************************)
(* Updater on small instances: the running version is 1, the server may    *)
(* offer an older, the same or one of two newer versions, and the counter  *)
(* of critical actions overflows when one thread less than there are has   *)
(* registered.                                                             *)
(***************************************************************************)
EXTENDS Updater

MCVersions == 0..3
MCCurrent == 1
MCMaxActions == Cardinality(Threads) - 1

=============================================================================
