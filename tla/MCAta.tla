------------------------------- MODULE MCAta -------------------------------
(***************************************************************************)
(* A disk of a few sectors whose addresses need two registers, a count     *)
(* that is 0 in its register, a timer, a keyboard and the drive's line on  *)
(* the second controller.                                                  *)
(***************************************************************************)
EXTENDS Ata
=============================================================================
