---------------------------- MODULE MCKeyboard ----------------------------
(***************************************************************************)
(* A small ring whose counters wrap as the real ones do: COUNTER is not a  *)
(* multiple of KEYBUFF_SIZE.                                               *)
(***************************************************************************)
EXTENDS Keyboard

(* The longest run of counter values that never uses a slot twice, across  *)
(* the wrap: 56 for the real 256 and 100.                                  *)
DistinctSlots == COUNTER % KEYBUFF_SIZE
=============================================================================
