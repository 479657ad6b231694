----------------------------- MODULE BlockDevice -----------------------------
(***************************************************************************)
(* What the SD library takes the card to be: an array of blocks.  A call   *)
(* that reports success has done what was asked, on the block that was     *)
(* asked for; one that reports failure has touched no block but those.     *)
(***************************************************************************)
EXTENDS Integers, Sequences

CONSTANTS
  Blocks,     \* numbers of the blocks
  Asked,      \* numbers a caller asks for
  Data,       \* contents a caller may write
  Erased,     \* what an erased block holds
  Torn,       \* what a block holds whose programming failed
  Pieces      \* parts of a block that can be read alone: 512 bytes

VARIABLES
  blocks,     \* what the blocks hold
  call        \* the last call, with its answer

\* arg is the offset of a read, the contents of a write, the last block erased.
Call(op, at, arg, ok, got) == [op |-> op, at |-> at, arg |-> arg, ok |-> ok, got |-> got]

\* Pieces from .. from + count - 1 of a block that holds d.
Part(d, from, count) == [i \in 1 .. count |-> <<d, from + i - 1>>]

Init == blocks \in [Blocks -> {Erased}] /\ call = Call("none", 0, 0, TRUE, <<>>)

Become(first, last, d) ==
  blocks' = [b \in Blocks |-> IF b \in first .. last THEN d ELSE blocks[b]]

ReadDone(b, from, count) ==
  call' = Call("read", b, from, TRUE, Part(blocks[b], from, count)) /\ UNCHANGED blocks

WriteDone(b, d) == call' = Call("write", b, d, TRUE, <<>>) /\ Become(b, b, d)

EraseDone(first, last) ==
  call' = Call("erase", first, last, TRUE, <<>>) /\ Become(first, last, Erased)

\* One block of a sequence is taken; whether it could be programmed is not asked.
StreamDone(b, d) ==
  call' = Call("stream", b, d, TRUE, <<>>) /\ (Become(b, b, d) \/ Become(b, b, Torn))

ReadNothing(b, from, ok) == call' = Call("read", b, from, ok, <<>>) /\ UNCHANGED blocks

\* The blocks are as they were, as they should be, or spoilt.
Failed(op, first, last, arg, d) ==
  /\ call' = Call(op, first, arg, FALSE, <<>>)
  /\ UNCHANGED blocks \/ Become(first, last, d) \/ Become(first, last, Torn)

\* A call that moves no block.
Other == call'.op \in {"init", "size", "partial", "start", "stop"} /\ UNCHANGED blocks

Next ==
  \/ \E b \in Blocks :
       \/ \E from \in 0 .. Pieces, count \in 1 .. Pieces : ReadDone(b, from, count)
       \/ \E d \in Data : WriteDone(b, d) \/ StreamDone(b, d)
       \/ \E last \in Blocks : EraseDone(b, last)
  \/ \E b \in Asked :
       \/ \E from \in 0 .. Pieces, ok \in BOOLEAN : ReadNothing(b, from, ok)
       \/ \E d \in Data : Failed("write", b, b, d, d) \/ Failed("stream", b, b, d, d)
       \/ \E last \in Asked : Failed("erase", b, last, last, Erased)
  \/ Other

Spec == Init /\ [][Next]_<<blocks, call>>
===============================================================================
