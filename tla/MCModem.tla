-------------------------------- MODULE MCModem --------------------------------
(***************************************************************************)
(* A small instance of Modem: packets of one and two bytes, four bytes in  *)
(* all.                                                                    *)
(***************************************************************************)
EXTENDS Modem
===============================================================================
