------------------------------ MODULE MCSystemClk ------------------------------
(***************************************************************************)
(* A small instance of SystemClk: an overflow every four ticks, of which   *)
(* three make a millisecond, so that fractions carry; counters that wrap;  *)
(* a delay of two milliseconds that may be kept from looking for longer    *)
(* than its uint16_t can tell.                                             *)
(***************************************************************************)
EXTENDS SystemClk
===============================================================================
