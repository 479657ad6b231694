-------------------------------- MODULE RS485 --------------------------------
(***************************************************************************)
(* The slave's half-duplex bus (Modules/RS485/RS485.cpp) on top of the     *)
(* transmitter of HardwareSerial: write(buffer, length) raises the driver  *)
(* pin, writes the bytes, waits for the transmit-complete flag and lowers  *)
(* the pin.  A byte that leaves the shift register while the pin is low is *)
(* not on the bus.  write(c), which leaves the pin high, has no caller.    *)
(***************************************************************************)
EXTENDS HardwareSerialTx

VARIABLES
  write_pin,   \* "HIGH" drives the bus, "LOW" listens, "none": not on a bus
  rs_pc,       \* where write(buffer, length) is
  left         \* bytes of the buffer not yet written

busVars == <<write_pin, rs_pc, left>>
vars == <<txVars, busVars>>

Init ==
  /\ TxInit
  /\ write_pin = "LOW" /\ rs_pc = "idle" /\ left = 0

Send(length) ==
  /\ rs_pc = "idle"
  /\ Len(accepted) + length <= MaxWrites
  /\ write_pin' = "HIGH" /\ rs_pc' = "send" /\ left' = length
  /\ UNCHANGED <<udrie, txc, udr, shift, ringVars, written, pc, c, accepted, wire, spurious>>

\* Mistake: i <= length.
SendNextPastEnd ==
  /\ rs_pc = "send" /\ left >= 0
  /\ StartWrite
  /\ left' = left - 1
  /\ UNCHANGED <<write_pin, rs_pc>>

SendNext ==
  /\ rs_pc = "send" /\ left > 0
  /\ StartWrite
  /\ left' = left - 1
  /\ UNCHANGED <<write_pin, rs_pc>>

SentAll ==
  /\ rs_pc = "send" /\ left = 0 /\ pc = "idle"
  /\ rs_pc' = "wait TXC"
  /\ UNCHANGED <<write_pin, left, udrie, txc, udr, shift, ringVars, written, pc, c, accepted, wire, spurious>>

\* Mistake: the driver is released when the data register is empty.
ReleaseOnUDRE ==
  /\ rs_pc = "wait TXC" /\ UDRE
  /\ write_pin' = "LOW" /\ rs_pc' = "idle"
  /\ UNCHANGED <<left, udrie, txc, udr, shift, ringVars, written, pc, c, accepted, wire, spurious>>

Release ==
  /\ rs_pc = "wait TXC" /\ txc
  /\ write_pin' = "LOW" /\ rs_pc' = "idle"
  /\ UNCHANGED <<left, udrie, txc, udr, shift, ringVars, written, pc, c, accepted, wire, spurious>>

\* The main program between two messages, or a turn of a loop that finds nothing
\* changed.
Elsewhere == (rs_pc # "send" \/ pc = "wait") /\ UNCHANGED vars

BusMain == SendNext \/ SentAll \/ Release
InPort == (WriteStep \/ LoadShift \/ EndFrame \/ Isr) /\ UNCHANGED busVars

\* Between two bytes of a buffer the CPU has work to do.
BusQuiet == Quiet /\ (rs_pc = "send" => pc = "wait")
CountBusWork == UNCHANGED setting /\ owed' = (~ BusQuiet' /\ (owed \/ shift # shift'))

Next ==
  \/ /\ \/ \E length \in 1 .. MaxWrites : Send(length)
        \/ BusMain \/ InPort
     /\ CountBusWork
  \/ Elsewhere

Spec ==
  /\ Init /\ [][Next]_vars
  /\ WF_vars(BusMain /\ CountBusWork) /\ WF_vars(InPort /\ CountBusWork)

-----------------------------------------------------------------------------
(* Properties. *)

\* The bus state and that of the port below it.
BusTypeOK ==
  /\ TypeOK
  /\ write_pin \in {"LOW", "HIGH", "none"}
  /\ rs_pc \in {"idle", "send", "wait TXC"}
  /\ left \in 0 .. MaxWrites

\* RS485.cpp:25, "Waits until transmit holding register empties.": as long as the
\* CPU is not held up for a frame, the driver goes off only when every byte given
\* to the port has left it.
DrivesWhatItSends == write_pin = "LOW" => spurious \/ wire = accepted

\* write(buffer, length) comes back with the bus released.
SendReturns == rs_pc = "send" ~> rs_pc = "idle"

\* Every call of either class comes back.
CallsReturn == WriteReturns /\ FlushReturns /\ SendReturns
===============================================================================
