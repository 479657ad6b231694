---------------------------- MODULE SoftwareSerial ----------------------------
(***************************************************************************)
(* The bit-banged debug port (Drivers/SoftwareSerial/SoftwareSerial.cpp):  *)
(* a pin-change interrupt reads frames off the receive line into a ring    *)
(* that available(), peek(), read() and flush() of the main program empty, *)
(* and write() puts frames on the transmit line with interrupts disabled.  *)
(*                                                                         *)
(* The body of tunedDelay() is commented out.  The interrupt takes its     *)
(* samples as fast as the CPU runs, which is less than one bit of the      *)
(* line: between the first sample and the last the line changes at most    *)
(* once.                                                                   *)
(*                                                                         *)
(* The main program is cut at the accesses to what the interrupt shares    *)
(* with it; _receive_buffer_head is moved by the main program alone.       *)
(***************************************************************************)
EXTENDS Integers, Sequences, SequencesExt

CONSTANTS
  MAX_RX_BUFF,     \* _SS_MAX_RX_BUFF, 64 in the build
  BITS,            \* bits of a byte, 8
  Speeds           \* what begin() may be given

\* _SS_BUFF_MASK takes the place of a modulus: the size is a power of two.
ASSUME SizeAssumption == MAX_RX_BUFF \in {2, 4, 8, 16, 32, 64, 128, 256} /\ BITS \in 1 .. 8

VARIABLES
  ss_buffer, ss_head, ss_tail,   \* _receive_buffer, _receive_buffer_head, ..._tail
  overflow,      \* _buffer_overflow
  active,        \* active_object is this port
  listens,       \* the bit of the pin in PCMSK
  ss_pc, ss_c,   \* where the main program is, and the byte read() has loaded
  isr,           \* the interrupt: running or not, the samples of d so far
  line, frame,   \* the receive line, and the bits of the frame still to come
  moved,         \* a bit of the line has ended since the interrupt began
  changed,       \* PCIF: a change of the line waits for its interrupt
  tx,            \* the transmit line
  ss_arrival,    \* history: changes with every byte recv() has put together
  ss_out         \* history: the byte last taken, as a sequence

lineVars == <<line, frame, moved, changed>>
ssRing == <<ss_buffer, ss_head, ss_tail>>
ssVars == <<ssRing, overflow, active, listens, ss_pc, ss_c, isr,
            lineVars, tx, ss_arrival, ss_out>>

LOW == 0
HIGH == 1
NoByte == <<>>
Frames == [1 .. BITS -> {LOW, HIGH}]
SSCells == 0 .. MAX_RX_BUFF - 1
\* x & _SS_BUFF_MASK
Masked(x) == x % MAX_RX_BUFF

\* The constructor: setTX and setRX leave both lines high; nobody listens.
SSInit ==
  /\ ss_buffer = [cell \in SSCells |-> [i \in 1 .. BITS |-> LOW]]
  /\ ss_head = 0 /\ ss_tail = 0
  /\ overflow = FALSE /\ active = FALSE /\ listens = FALSE
  /\ ss_pc = "idle" /\ ss_c = NoByte
  /\ isr = [running |-> FALSE, d |-> <<>>]
  /\ line = HIGH /\ frame = <<>> /\ moved = FALSE /\ changed = FALSE
  /\ tx = HIGH
  /\ ss_arrival = 0 /\ ss_out = <<>>

-----------------------------------------------------------------------------
(* The receive line: a frame is a low start bit, the bits, a high stop bit.  *)

Level(bit) ==
  /\ line' = bit
  /\ moved' = isr.running
  /\ changed' = (changed \/ (listens /\ bit # line))
  /\ isr.running => ~ moved
  /\ UNCHANGED <<ssRing, overflow, active, listens, ss_pc, ss_c, isr,
                 tx, ss_arrival, ss_out>>

StartFrame ==
  /\ frame = <<>>
  /\ \E bits \in Frames : frame' = bits \o <<HIGH>>
  /\ Level(LOW)

NextBit ==
  /\ frame # <<>>
  /\ frame' = Tail(frame)
  /\ Level(Head(frame))

-----------------------------------------------------------------------------
(* handle_interrupt and recv; the main program stands still. *)

\* A line that is high again has had its start bit, or never had one.
PinChange ==
  /\ changed /\ listens /\ ss_pc # "write" /\ ~ isr.running
  /\ changed' = FALSE
  /\ moved' = FALSE
  /\ isr' = [running |-> active /\ line = LOW, d |-> <<>>]
  /\ UNCHANGED <<ssRing, overflow, active, listens, ss_pc, ss_c,
                 line, frame, tx, ss_arrival, ss_out>>

\* tunedDelay(_rx_delay_intrabit); if (rx_pin_read()) d |= i; else d &= noti;
Sample ==
  /\ isr.running /\ Len(isr.d) < BITS
  /\ isr' = [isr EXCEPT !.d = Append(@, line)]
  /\ UNCHANGED <<ssRing, overflow, active, listens, ss_pc, ss_c,
                 lineVars, tx, ss_arrival, ss_out>>

EndRecv ==
  /\ isr.running /\ Len(isr.d) = BITS
  /\ isr' = [running |-> FALSE, d |-> <<>>]
  /\ moved' = FALSE
  /\ ss_arrival' = 1 - ss_arrival
  /\ UNCHANGED <<ss_head, active, listens, ss_pc, ss_c, line, frame,
                 changed, tx, ss_out>>

Recv ==
  /\ EndRecv
  /\ IF Masked(ss_tail + 1) # ss_head
       THEN /\ ss_buffer' = [ss_buffer EXCEPT ![ss_tail] = isr.d]
            /\ ss_tail' = Masked(ss_tail + 1)
            /\ UNCHANGED overflow
       ELSE overflow' = TRUE /\ UNCHANGED <<ss_buffer, ss_tail>>

-----------------------------------------------------------------------------
(* The main program. *)

Call == ss_pc = "idle" /\ ~ isr.running

\* begin(speed); the speed decides only whether there are delays in the table.
table == {115200, 57600, 38400, 31250, 28800, 19200, 14400, 9600,
          4800, 2400, 1200, 600, 300}

begin(speed) ==
  /\ Call
  /\ listens' = (listens \/ speed \in table)
  /\ ss_pc' = IF active THEN "idle" ELSE "listen"
  /\ UNCHANGED <<ssRing, overflow, active, ss_c, isr, lineVars, tx,
                 ss_arrival, ss_out>>

\* listen(), when the port is not the active object.
listen ==
  /\ ss_pc = "listen" /\ ~ isr.running
  /\ overflow' = FALSE
  /\ ss_head' = 0 /\ ss_tail' = 0
  /\ active' = TRUE
  /\ ss_pc' = "idle"
  /\ UNCHANGED <<ss_buffer, listens, ss_c, isr, lineVars, tx,
                 ss_arrival, ss_out>>

\* end() leaves the active object: bytes already received can still be read.
end ==
  /\ Call
  /\ listens' = FALSE
  /\ UNCHANGED <<ssRing, overflow, active, ss_pc, ss_c, isr, lineVars, tx,
                 ss_arrival, ss_out>>

ss_count == Masked(ss_tail + MAX_RX_BUFF - ss_head)

\* The head of read() and of peek().
Look(pc) ==
  /\ Call
  /\ IF active /\ ss_head # ss_tail
       THEN ss_pc' = pc
       ELSE UNCHANGED ss_pc
  /\ UNCHANGED <<ssRing, overflow, active, listens, ss_c, isr, lineVars,
                 tx, ss_arrival, ss_out>>

peek ==
  /\ ss_pc = "peek" /\ ~ isr.running
  /\ ss_pc' = "idle"
  /\ UNCHANGED <<ssRing, overflow, active, listens, ss_c, isr, lineVars,
                 tx, ss_arrival, ss_out>>

read ==
  /\ ss_pc = "read" /\ ~ isr.running
  /\ ss_c' = ss_buffer[ss_head]
  /\ ss_pc' = "advance"
  /\ UNCHANGED <<ssRing, overflow, active, listens, isr, lineVars,
                 tx, ss_arrival, ss_out>>

ReadAdvance ==
  /\ ss_pc = "advance" /\ ~ isr.running
  /\ ss_head' = Masked(ss_head + 1)
  /\ ss_out' = <<ss_c>> /\ ss_c' = NoByte
  /\ ss_pc' = "idle"
  /\ UNCHANGED <<ss_buffer, ss_tail, overflow, active, listens, isr,
                 lineVars, tx, ss_arrival>>

\* Mistake: only one of the two indices is reset.
flushHead ==
  /\ Call
  /\ IF active THEN ss_head' = 0 ELSE UNCHANGED ss_head
  /\ UNCHANGED <<ss_buffer, ss_tail, overflow, active, listens, ss_pc, ss_c, isr,
                 lineVars, tx, ss_arrival, ss_out>>

flush ==
  /\ Call
  /\ IF active THEN ss_head' = 0 /\ ss_tail' = 0 ELSE UNCHANGED <<ss_head, ss_tail>>
  /\ UNCHANGED <<ss_buffer, overflow, active, listens, ss_pc, ss_c, isr,
                 lineVars, tx, ss_arrival, ss_out>>

\* write(): the whole byte goes out between cli() and the restored SREG.
write ==
  /\ Call
  /\ tx' = LOW
  /\ ss_pc' = "write"
  /\ UNCHANGED <<ssRing, overflow, active, listens, ss_c, isr, lineVars,
                 ss_arrival, ss_out>>

WriteStopBit ==
  /\ ss_pc = "write"
  /\ tx' = HIGH
  /\ ss_pc' = "idle"
  /\ UNCHANGED <<ssRing, overflow, active, listens, ss_c, isr, lineVars,
                 ss_arrival, ss_out>>

\* overflow(): the flag is read and cleared; no caller in the build.

SSMain ==
  \/ \E speed \in Speeds : begin(speed)
  \/ listen \/ end
  \/ Look("peek") \/ peek \/ Look("read") \/ read \/ ReadAdvance
  \/ flush \/ write \/ WriteStopBit

SSInterrupt == PinChange \/ Sample \/ Recv

SSNext == StartFrame \/ NextBit \/ SSInterrupt \/ SSMain

SSSpec == SSInit /\ [][SSNext]_ssVars

-----------------------------------------------------------------------------
(* Properties. *)

SSWaiting == [k \in 1 .. ss_count |-> ss_buffer[Masked(ss_head + k - 1)]]

\* The software ring, interrupted anywhere, is a queue of what recv() has put
\* together, MAX_RX_BUFF - 1 bytes deep; flush() and listen() empty it whole.
SoftQueue == INSTANCE FlushedQueue
               WITH queue <- SSWaiting, arrival <- ss_arrival, out <- ss_out,
                    CAPACITY <- MAX_RX_BUFF - 1, Byte <- Frames
SoftQueueSpec == SoftQueue!FlushedSpec
===============================================================================
