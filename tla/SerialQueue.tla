----------------------------- MODULE SerialQueue -----------------------------
(***************************************************************************)
(* What the receiving half of a serial port promises: a queue of bytes in  *)
(* the order of their arrival.  A byte is lost only when CAPACITY bytes    *)
(* are waiting.                                                            *)
(***************************************************************************)
EXTENDS Naturals, Sequences

CONSTANTS Byte, CAPACITY

VARIABLES
  queue,   \* the bytes that wait
  arrival, \* changes with every byte that arrives
  out      \* the byte last taken, as a sequence: empty before the first

Init == queue = <<>> /\ arrival = 0 /\ out = <<>>

Arrive == arrival' = 1 - arrival

Put(b) ==
  /\ Len(queue) < CAPACITY
  /\ queue' = Append(queue, b)
  /\ Arrive /\ UNCHANGED out

Drop ==
  /\ Len(queue) = CAPACITY
  /\ Arrive /\ UNCHANGED <<queue, out>>

Get ==
  /\ queue # <<>>
  /\ out' = <<Head(queue)>>
  /\ queue' = Tail(queue)
  /\ UNCHANGED arrival

Next == (\E b \in Byte : Put(b)) \/ Drop \/ Get

Spec == Init /\ [][Next]_<<queue, arrival, out>>
===============================================================================
