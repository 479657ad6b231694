------------------------------ MODULE MCStation ------------------------------
(***************************************************************************)
(* Small instances of Station.  The name never moves on in this build, so  *)
(* a UID of one character is enough.                                       *)
(***************************************************************************)
EXTENDS Station

LauncherPrefix == LET chars == <<73, 49, 90, 0>> IN [i \in Positions |-> chars[i + 1]]
===============================================================================
