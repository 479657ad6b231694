--------------------------- MODULE HardwareSerialTx ---------------------------
(***************************************************************************)
(* The transmitting half of HardwareSerial                                 *)
(* (Drivers/HardwareSerial/HardwareSerial.cpp): write() and flush() of the *)
(* main program, the data-register-empty interrupt, and the transmitter    *)
(* they share.  The main program is cut at every access to a volatile; the *)
(* interrupt service routine is one step.  An update of a control register *)
(* is a load, an or and a store: an interrupt between the load and the     *)
(* store has the effect of one before the load.                            *)
(*                                                                         *)
(* Bytes are numbered in the order write() was given them; a 0 is what the *)
(* constructor filled the buffer with.                                     *)
(***************************************************************************)
EXTENDS Integers, Sequences, SequencesExt

CONSTANTS
  SERIAL_BUFFER_SIZE,   \* 64 in the build
  Settings,             \* the settings the runs of the program may have
  MaxWrites             \* bound: bytes written

ASSUME BufferAssumption == SERIAL_BUFFER_SIZE \in Nat \ {0, 1} /\ MaxWrites \in Nat

\* Is the I bit of SREG set, and does the CPU get around to all its work in every
\* frame?  With interrupts disabled there is nothing that holds it up.
Polled == [interrupts |-> FALSE, prompt |-> TRUE]
Timely == [interrupts |-> TRUE, prompt |-> TRUE]
Late == [interrupts |-> TRUE, prompt |-> FALSE]
ASSUME SettingsAssumption == Settings \subseteq {Polled, Timely, Late}

VARIABLES
  setting,     \* of this run of the program
  tx_buffer, tx_head, tx_tail,
  udrie,       \* UCSRB.UDRIE: the interrupt is enabled
  txc,         \* UCSRA.TXC: transmit complete
  udr,         \* the data register; UCSRA.UDRE is set when it holds NoByte
  shift,       \* the shift register
  owed,        \* the CPU has not been without work since this frame began
  written,     \* _written
  pc, c,       \* where write() or flush() is, and the byte it was given
  accepted,    \* history: the bytes given to write()
  wire,        \* history: the bytes that left the shift register
  spurious     \* history: the interrupt has run with nothing in the buffer

regVars == <<udrie, txc, udr, shift, owed>>
ringVars == <<tx_buffer, tx_head, tx_tail>>
txVars == <<setting, regVars, ringVars, written, pc, c, accepted, wire, spurious>>

NoByte == -1
Cells == 0 .. SERIAL_BUFFER_SIZE - 1
After(cell) == (cell + 1) % SERIAL_BUFFER_SIZE

Interrupts == setting.interrupts
UDRE == udr = NoByte
Ring == [k \in 1 .. (SERIAL_BUFFER_SIZE + tx_head - tx_tail) % SERIAL_BUFFER_SIZE |->
           tx_buffer[(tx_tail + k - 1) % SERIAL_BUFFER_SIZE]]

TxInit ==
  /\ setting \in Settings
  /\ tx_buffer = [cell \in Cells |-> 0]
  /\ tx_head = 0 /\ tx_tail = 0
  /\ udrie = FALSE /\ txc = FALSE
  /\ udr = NoByte /\ shift = NoByte /\ owed = FALSE
  /\ written = FALSE
  /\ pc = "idle" /\ c = NoByte
  /\ accepted = <<>> /\ wire = <<>>
  /\ spurious = FALSE

-----------------------------------------------------------------------------
(* _tx_udr_empty_irq, from the vector or called by a polling loop. *)

\* Mistake: the transmit-complete flag of the byte before is left alone.
TxUdrEmptyIrqKeepsTXC ==
  /\ udr' = tx_buffer[tx_tail]
  /\ tx_tail' = After(tx_tail)
  /\ udrie' = (udrie /\ tx_head # After(tx_tail))
  /\ spurious' = (spurious \/ tx_head = tx_tail)
  /\ UNCHANGED <<tx_buffer, tx_head, txc, shift, written, accepted, wire>>

TxUdrEmptyIrq ==
  /\ udr' = tx_buffer[tx_tail]
  /\ tx_tail' = After(tx_tail)
  /\ txc' = FALSE
  /\ udrie' = (udrie /\ tx_head # After(tx_tail))
  /\ spurious' = (spurious \/ tx_head = tx_tail)
  /\ UNCHANGED <<tx_buffer, tx_head, shift, written, accepted, wire>>

\* Mistake: write() waits for room with the interrupt masked.
IsrMasked ==
  /\ Interrupts /\ udrie /\ UDRE /\ pc # "wait"
  /\ TxUdrEmptyIrq
  /\ UNCHANGED <<pc, c>>

Isr ==
  /\ Interrupts /\ udrie /\ UDRE
  /\ TxUdrEmptyIrq
  /\ UNCHANGED <<pc, c>>

-----------------------------------------------------------------------------
(* write(c). *)

StartWrite ==
  /\ pc = "idle" /\ Len(accepted) < MaxWrites
  /\ c' = Len(accepted) + 1
  /\ accepted' = Append(accepted, c')
  /\ pc' = IF tx_head = tx_tail /\ UDRE THEN "store UDR" ELSE "wait"
  /\ UNCHANGED <<udrie, txc, udr, shift, ringVars, written, wire, spurious>>

\* The shortcut past the buffer; it does not set _written.
StoreUDR ==
  /\ pc = "store UDR"
  /\ udr' = IF UDRE THEN c ELSE udr
  /\ pc' = "clear TXC"
  /\ UNCHANGED <<udrie, txc, shift, ringVars, written, c, accepted, wire, spurious>>

ClearTXC ==
  /\ pc = "clear TXC"
  /\ txc' = FALSE
  /\ pc' = "idle" /\ c' = NoByte
  /\ UNCHANGED <<udrie, udr, shift, ringVars, written, accepted, wire, spurious>>

WaitForRoom ==
  /\ pc = "wait"
  /\ IF After(tx_head) # tx_tail
       THEN /\ pc' = "store byte"
            /\ UNCHANGED <<udrie, txc, udr, shift, ringVars, written, accepted, wire, spurious>>
       ELSE /\ ~ Interrupts /\ UDRE
            /\ TxUdrEmptyIrq
            /\ UNCHANGED pc
  /\ UNCHANGED c

\* Mistake: the interrupt is enabled before the head has moved.
StoreByteEnabling ==
  /\ pc = "store byte"
  /\ tx_buffer' = [tx_buffer EXCEPT ![tx_head] = c]
  /\ udrie' = TRUE
  /\ pc' = "move head"
  /\ UNCHANGED <<txc, udr, shift, tx_head, tx_tail, written, c, accepted, wire, spurious>>

StoreByte ==
  /\ pc = "store byte"
  /\ tx_buffer' = [tx_buffer EXCEPT ![tx_head] = c]
  /\ pc' = "move head"
  /\ UNCHANGED <<udrie, txc, udr, shift, tx_head, tx_tail, written, c, accepted, wire, spurious>>

MoveHead ==
  /\ pc = "move head"
  /\ tx_head' = After(tx_head)
  /\ pc' = "set UDRIE" /\ c' = NoByte
  /\ UNCHANGED <<udrie, txc, udr, shift, tx_buffer, tx_tail, written, accepted, wire, spurious>>

SetUDRIE ==
  /\ pc = "set UDRIE"
  /\ udrie' = TRUE
  /\ pc' = "set written"
  /\ UNCHANGED <<txc, udr, shift, ringVars, written, c, accepted, wire, spurious>>

SetWritten ==
  /\ pc = "set written"
  /\ written' = TRUE
  /\ pc' = "idle"
  /\ UNCHANGED <<udrie, txc, udr, shift, ringVars, c, accepted, wire, spurious>>

-----------------------------------------------------------------------------
(* flush(). *)

StartFlush ==
  /\ pc = "idle"
  /\ pc' = IF written THEN "flush" ELSE "skipped"
  /\ UNCHANGED <<udrie, txc, udr, shift, ringVars, written, c, accepted, wire, spurious>>

Flush ==
  /\ pc = "flush"
  /\ IF ~ udrie /\ txc
       THEN /\ pc' = "flushed"
            /\ UNCHANGED <<udrie, txc, udr, shift, ringVars, written, accepted, wire, spurious>>
       ELSE /\ ~ Interrupts /\ udrie /\ UDRE
            /\ TxUdrEmptyIrq
            /\ UNCHANGED pc
  /\ UNCHANGED c

ReturnFromFlush ==
  /\ pc \in {"flushed", "skipped"}
  /\ pc' = "idle"
  /\ UNCHANGED <<udrie, txc, udr, shift, ringVars, written, c, accepted, wire, spurious>>

-----------------------------------------------------------------------------
(* The transmitter. *)

LoadShift ==
  /\ ~ UDRE /\ shift = NoByte
  /\ shift' = udr /\ udr' = NoByte
  /\ UNCHANGED <<udrie, txc, ringVars, written, pc, c, accepted, wire, spurious>>

\* A frame ends; with nothing to follow the transmission is complete.
EndFrame ==
  /\ shift # NoByte
  /\ setting.prompt => ~ owed
  /\ wire' = Append(wire, shift)
  /\ shift' = NoByte
  /\ txc' = (txc \/ UDRE)
  /\ UNCHANGED <<udrie, udr, ringVars, written, pc, c, accepted, spurious>>

\* Is there nothing the CPU could do but wait?
Quiet ==
  /\ pc \in {"idle", "wait", "flush"}
  /\ pc = "wait" => After(tx_head) = tx_tail
  /\ ~ (udrie /\ UDRE /\ (Interrupts \/ pc # "idle"))

\* A frame that begins while the CPU is at work owes it the time to finish.
CountWork == UNCHANGED setting /\ owed' = (~ Quiet' /\ (owed \/ shift # shift'))

WriteStep ==
  \/ StoreUDR \/ ClearTXC
  \/ WaitForRoom \/ StoreByte \/ MoveHead \/ SetUDRIE \/ SetWritten

\* One more turn of a loop that finds nothing changed.
Spin == pc \in {"wait", "flush"} /\ UNCHANGED txVars

Main ==
  \/ (StartWrite \/ WriteStep \/ StartFlush \/ Flush \/ ReturnFromFlush) /\ CountWork
  \/ Spin
Transmit == (LoadShift \/ EndFrame) /\ CountWork
Serve == Isr /\ CountWork

TxNext == Main \/ Transmit \/ Serve

\* The main program is not descheduled inside a call, the transmitter runs, and
\* a pending interrupt is served.
TxSpec ==
  /\ TxInit /\ [][TxNext]_txVars
  /\ WF_txVars((WriteStep \/ Flush \/ ReturnFromFlush) /\ CountWork)
  /\ WF_txVars(Transmit) /\ WF_txVars(Serve)

-----------------------------------------------------------------------------
(* Properties. *)

Bytes == 0 .. MaxWrites
InWrite == {"store UDR", "clear TXC", "wait", "store byte", "move head", "set UDRIE", "set written"}

\* The values of the object's members and of the registers.
TypeOK ==
  /\ tx_buffer \in [Cells -> Bytes]
  /\ tx_head \in Cells /\ tx_tail \in Cells
  /\ {udrie, txc, owed, written, spurious} \subseteq BOOLEAN
  /\ {udr, shift, c} \subseteq Bytes \cup {NoByte}
  /\ pc \in InWrite \cup {"idle", "flush", "flushed", "skipped"}
  /\ accepted \in Seq(Bytes) /\ wire \in Seq(Bytes)

Held(byte) == IF byte = NoByte THEN <<>> ELSE <<byte>>
InHand == IF pc = "clear TXC" THEN <<>> ELSE Held(c)

\* Every byte given to write() leaves the shift register once and in order, at
\* least up to the first interrupt that finds the buffer empty: it is in exactly
\* one of the caller's hand, the buffer, the data register, the shift register
\* and the wire.  A CPU that is not held up for a frame never sees that interrupt
\* (HardwareSerial.cpp:87-88, "If interrupts are enabled, there must be more data
\* in the output buffer."), although write() moves the head and enables the
\* interrupt in two steps.
ExactlyOnceInOrder ==
  /\ ~ spurious => wire \o Held(shift) \o Held(udr) \o Ring \o InHand = accepted
  /\ setting.prompt => ~ spurious

\* HardwareSerial.cpp:194-195, "If we get here, nothing is queued anymore (DRIE
\* is disabled) and the hardware finished tranmission (TXC is set)": when the
\* loop of flush() is left, all that was written is on the wire.
FlushedMeansSent == pc = "flushed" /\ ~ spurious => wire = accepted

\* write() comes back, with a full buffer and with interrupts disabled, too.
WriteReturns == pc \in InWrite ~> pc = "idle"

\* flush() comes back, if the CPU is prompt.
FlushReturns == setting.prompt /\ pc = "flush" ~> pc # "flush"
===============================================================================
