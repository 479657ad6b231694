--------------------------- MODULE HardwareSerialRx ---------------------------
(***************************************************************************)
(* The receiving half of HardwareSerial: the receive interrupt             *)
(* (Drivers/HardwareSerial/HardwareSerial_private.h) fills a ring that     *)
(* available(), peek() and read() (HardwareSerial.cpp) empty.  The main    *)
(* program is cut at the accesses to what the interrupt shares with it;    *)
(* rx_tail is written by read() alone, so a look at rx_head and rx_tail is *)
(* one access.                                                             *)
(***************************************************************************)
EXTENDS Integers, Sequences

CONSTANTS
  SERIAL_BUFFER_SIZE,   \* 64 in the build
  Byte                  \* what a frame may carry

ASSUME BufferAssumption == SERIAL_BUFFER_SIZE \in 2 .. 256

VARIABLES
  rx_buffer, rx_head, rx_tail,
  pc,          \* where read() or peek() is
  c,           \* the byte read() has loaded
  ready,       \* the last answer of available() not yet followed by a read()
  result,      \* the answer of the last read() or peek()
  arrival,     \* history: changes with every byte that arrives
  out          \* history: the byte last taken, as a sequence

ringVars == <<rx_buffer, rx_head, rx_tail>>
vars == <<ringVars, pc, c, ready, result, arrival, out>>

Nothing == -1
Cells == 0 .. SERIAL_BUFFER_SIZE - 1
After(cell) == (cell + 1) % SERIAL_BUFFER_SIZE

Init ==
  /\ rx_buffer = [cell \in Cells |-> 0]
  /\ rx_head = 0 /\ rx_tail = 0
  /\ pc = "idle" /\ c = 0
  /\ ready = 0 /\ result = Nothing
  /\ arrival = 0 /\ out = <<>>

-----------------------------------------------------------------------------
(* _rx_complete_irq. *)

\* Mistake: no cell is kept free, so that a full ring looks empty.
RxCompleteOverrun(byte) ==
  /\ rx_buffer' = [rx_buffer EXCEPT ![rx_head] = byte]
  /\ rx_head' = After(rx_head)
  /\ arrival' = 1 - arrival
  /\ UNCHANGED <<rx_tail, pc, c, ready, result, out>>

RxComplete(byte) ==
  /\ IF After(rx_head) # rx_tail
       THEN /\ rx_buffer' = [rx_buffer EXCEPT ![rx_head] = byte]
            /\ rx_head' = After(rx_head)
       ELSE UNCHANGED <<rx_buffer, rx_head>>
  /\ arrival' = 1 - arrival
  /\ UNCHANGED <<rx_tail, pc, c, ready, result, out>>

\* A byte with a parity error is read from the register and dropped.
RxParityError == UNCHANGED vars

-----------------------------------------------------------------------------
(* The main program. *)

count == (SERIAL_BUFFER_SIZE + rx_head - rx_tail) % SERIAL_BUFFER_SIZE

\* Mistake: the free cell is counted, too, once the tail has passed the head.
availableOneMore ==
  /\ pc = "idle"
  /\ ready' = IF rx_head < rx_tail THEN count + 1 ELSE count
  /\ UNCHANGED <<ringVars, pc, c, result, arrival, out>>

available ==
  /\ pc = "idle"
  /\ ready' = count
  /\ UNCHANGED <<ringVars, pc, c, result, arrival, out>>

Peek ==
  /\ pc = "idle"
  /\ IF rx_head = rx_tail
       THEN result' = Nothing /\ UNCHANGED pc
       ELSE pc' = "peek" /\ UNCHANGED result
  /\ UNCHANGED <<ringVars, c, ready, arrival, out>>

PeekByte ==
  /\ pc = "peek"
  /\ result' = rx_buffer[rx_tail]
  /\ pc' = "idle"
  /\ UNCHANGED <<ringVars, c, ready, arrival, out>>

Read ==
  /\ pc = "idle"
  /\ IF rx_head = rx_tail
       THEN result' = Nothing /\ ready' = 0 /\ UNCHANGED pc
       ELSE pc' = "load" /\ UNCHANGED <<result, ready>>
  /\ UNCHANGED <<ringVars, c, arrival, out>>

LoadByte ==
  /\ pc = "load"
  /\ c' = rx_buffer[rx_tail]
  /\ pc' = "advance"
  /\ UNCHANGED <<ringVars, ready, result, arrival, out>>

\* Mistake: the cell is given back before the byte is loaded.
AdvanceThenLoad ==
  /\ pc = "advance"
  /\ rx_tail' = After(rx_tail)
  /\ result' = rx_buffer[rx_tail'] /\ out' = <<result'>>
  /\ ready' = 0
  /\ pc' = "idle"
  /\ UNCHANGED <<rx_buffer, rx_head, c, arrival>>

Advance ==
  /\ pc = "advance"
  /\ rx_tail' = After(rx_tail)
  /\ result' = c /\ out' = <<c>>
  /\ ready' = 0
  /\ pc' = "idle"
  /\ UNCHANGED <<rx_buffer, rx_head, c, arrival>>

Main == available \/ Peek \/ PeekByte \/ Read \/ LoadByte \/ Advance

Next == (\E byte \in Byte : RxComplete(byte)) \/ RxParityError \/ Main

Spec == Init /\ [][Next]_vars

-----------------------------------------------------------------------------
(* Properties. *)

\* The ring from rx_tail to rx_head, in the order of arrival.
Waiting ==
  [k \in 1 .. count |-> rx_buffer[(rx_tail + k - 1) % SERIAL_BUFFER_SIZE]]

\* The values of the object's members and of the locals of read().
TypeOK ==
  /\ rx_buffer \in [Cells -> Byte \cup {0}]
  /\ rx_head \in Cells /\ rx_tail \in Cells
  /\ pc \in {"idle", "peek", "load", "advance"}
  /\ c \in Byte \cup {0}
  /\ ready \in Cells
  /\ result \in Byte \cup {0, Nothing}
  /\ arrival \in {0, 1}
  /\ out \in Seq(Byte \cup {0})

\* The interrupt never takes away or overwrites the byte the main program is
\* looking at: what read() found there stays until it has moved rx_tail.
ByteStays ==
  /\ pc \in {"peek", "load", "advance"} => rx_head # rx_tail
  /\ pc = "advance" => c = rx_buffer[rx_tail]

\* What available() has counted can be read without looking again, as Socket and
\* Sim900 do.
ReadyIsThere == ready <= count

Inv == TypeOK /\ ByteStays /\ ReadyIsThere

\* The ring with its two indices, interrupted anywhere, is a queue that holds
\* SERIAL_BUFFER_SIZE - 1 bytes.
Queue == INSTANCE SerialQueue
           WITH queue <- Waiting, CAPACITY <- SERIAL_BUFFER_SIZE - 1,
                Byte <- Byte \cup {0}
QueueSpec == Queue!Spec
===============================================================================
