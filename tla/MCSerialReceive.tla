---------------------------- MODULE MCSerialReceive ----------------------------
(***************************************************************************)
(* The two ports of the slave that receive with interrupts: the bus on     *)
(* HardwareSerial, with a ring of four cells, and the debug port on        *)
(* SoftwareSerial, with a ring of four cells and bytes of two bits.  They  *)
(* share nothing, and a run of the program uses one of them.               *)
(***************************************************************************)
EXTENDS HardwareSerialRx, SoftwareSerial

VARIABLE receiver   \* the port that is used: "hard" or "soft"

PortInit == Init /\ SSInit /\ receiver \in {"hard", "soft"}

PortNext ==
  /\ \/ receiver = "hard" /\ Next /\ UNCHANGED ssVars
     \/ receiver = "soft" /\ SSNext /\ UNCHANGED vars
  /\ UNCHANGED receiver

PortSpec == PortInit /\ [][PortNext]_<<vars, ssVars, receiver>>
===============================================================================
