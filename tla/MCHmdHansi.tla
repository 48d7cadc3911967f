----------------------------- MODULE MCHmdHansi -----------------------------
(***************************************************************************)
(* HmdHansi for TLC.  The bounds let a hansi be deleted and configured     *)
(* again, a deletion be repeated, a message be lost, the checking be       *)
(* switched off and on, and eag die or hang once.                          *)
(***************************************************************************)
EXTENDS HmdHansi
=============================================================================
