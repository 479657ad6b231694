--------------------------- MODULE MCSerialTransmit ---------------------------
(***************************************************************************)
(* Small instances of the transmitter: a ring of three cells, which holds  *)
(* two bytes, and enough writes to go round it.  In the standalone build   *)
(* the program uses the port itself; in the slave the port belongs to      *)
(* RS485, whose messages have one to five bytes, and the CPU is not held   *)
(* up.  write_pin is "none" where there is no transceiver.                 *)
(***************************************************************************)
EXTENDS RS485

EverySetting == {Polled, Timely, Late}

StandaloneInit ==
  TxInit /\ write_pin = "none" /\ rs_pc = "idle" /\ left = 0
SlaveInit == Init /\ setting = Timely

Standalone(step) == write_pin = "none" /\ step /\ UNCHANGED busVars
Slave(step) == write_pin # "none" /\ step

EitherNext == Standalone(TxNext) \/ Slave(Next)

EitherSpec ==
  /\ StandaloneInit \/ SlaveInit
  /\ [][EitherNext]_vars
  /\ WF_vars(Standalone((WriteStep \/ Flush \/ ReturnFromFlush) /\ CountWork))
  /\ WF_vars(Standalone(Transmit)) /\ WF_vars(Standalone(Serve))
  /\ WF_vars(Slave(BusMain /\ CountBusWork)) /\ WF_vars(Slave(InPort /\ CountBusWork))
===============================================================================
