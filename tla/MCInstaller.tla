----------------------------- MODULE MCInstaller -----------------------------
(***************************************************************************)
(* Installer on a small instance: a process may be updated three times in  *)
(* a row, by releases of two chunks, of none and of two, so that a release *)
(* that has lost its last chunk can still be started and be backed up.     *)
(***************************************************************************)
EXTENDS Installer

MCMaxVersion == 4
MCSize == <<2, 2, 0, 2>>

=============================================================================
