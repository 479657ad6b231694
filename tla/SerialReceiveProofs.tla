--------------------------- MODULE SerialReceiveProofs ---------------------------
(***************************************************************************)
(* For every size of the ring and every set of bytes: the receiving half   *)
(* of HardwareSerial, and the ring of SoftwareSerial, are queues, whatever *)
(* the interrupt falls between.                                            *)
(***************************************************************************)
EXTENDS HardwareSerialRx, SoftwareSerial, CommonTheorems

N == SERIAL_BUFFER_SIZE

X == Byte \cup {0}
IsRing(buffer) == buffer \in Rings(N, X)

\* What the indices are computed with.
LEMMA RingOfReceiver ==
  /\ N \in Nat \ {0, 1} /\ Cells = CellsOf(N) /\ Cells \subseteq Nat /\ 0 \in Cells
  /\ \A cell \in Cells : After(cell) = Following(N, cell) /\ After(cell) \in Cells
  /\ \A h, t \in Cells :
       /\ (SERIAL_BUFFER_SIZE + h - t) % SERIAL_BUFFER_SIZE = Distance(N, h, t)
       /\ Distance(N, h, t) \in Cells
       /\ \A k \in 1 .. Distance(N, h, t) :
            (t + k - 1) % SERIAL_BUFFER_SIZE = RingSlot(N, t, k)
<1>1. N \in Nat \ {0, 1} /\ Cells = CellsOf(N) /\ Cells \subseteq Nat /\ 0 \in Cells
  BY BufferAssumption DEF N, Cells, CellsOf
<1>2. \A cell \in CellsOf(N) :
        (cell + 1) % N = Following(N, cell) /\ Following(N, cell) \in CellsOf(N)
  BY <1>1, RingRemainders
<1>3. \A h, t \in CellsOf(N) :
        /\ (N + h - t) % N = Distance(N, h, t)
        /\ \A k \in 1 .. Distance(N, h, t) : (t + k - 1) % N = RingSlot(N, t, k)
  BY <1>1, RingRemainders
<1>4. \A h, t \in CellsOf(N) : Distance(N, h, t) \in CellsOf(N)
  BY <1>1, DistanceBounds
<1> QED BY <1>1, <1>2, <1>3, <1>4 DEF N, After

-----------------------------------------------------------------------------
(* The invariant. *)

LEMMA InitInv == Init => Inv
<1> SUFFICES ASSUME Init PROVE Inv
  OBVIOUS
<1>1. 0 \in Cells
  BY RingOfReceiver
<1>2. TypeOK
  BY <1>1 DEF Init, TypeOK
<1>3. ByteStays
  BY DEF Init, ByteStays
<1>4. ReadyIsThere
  <2>1. count = Distance(N, 0, 0)
    BY <1>1, RingOfReceiver DEF Init, count
  <2> QED BY <2>1 DEF Init, ReadyIsThere, Distance
<1> QED BY <1>2, <1>3, <1>4 DEF Inv

\* One step per routine; what disturbs the invariant is the interrupt between
\* the steps of read(), which moves only rx_head and only into a free cell.
LEMMA NextInv == Inv /\ [Next]_vars => Inv'
<1> SUFFICES ASSUME Inv, [Next]_vars PROVE Inv'
  OBVIOUS
<1> USE DEF Inv
<1>1. rx_head \in Cells /\ rx_tail \in Cells /\ count = Distance(N, rx_head, rx_tail) /\ count \in Cells
  BY RingOfReceiver DEF TypeOK, count
<1>2. Cells \subseteq Nat /\ 0 \in Cells
  BY RingOfReceiver
<1>3. ASSUME NEW byte \in Byte, RxComplete(byte)
      PROVE  Inv'
  <2>1. CASE After(rx_head) = rx_tail
    <3>1. UNCHANGED <<ringVars, pc, c, ready, result, out>> /\ arrival' = 1 - arrival
      BY <1>3, <2>1 DEF RxComplete, ringVars
    <3>2. TypeOK'
      BY <3>1 DEF TypeOK, ringVars
    <3>3. ByteStays' /\ ReadyIsThere'
      BY <3>1 DEF ByteStays, ReadyIsThere, count, ringVars
    <3> QED BY <3>2, <3>3
  <2>2. CASE After(rx_head) # rx_tail
    <3>1. /\ rx_buffer' = [rx_buffer EXCEPT ![rx_head] = byte]
          /\ rx_head' = After(rx_head) /\ arrival' = 1 - arrival
          /\ UNCHANGED <<rx_tail, pc, c, ready, result, out>>
      BY <1>3, <2>2 DEF RxComplete
    <3>2. After(rx_head) \in Cells
      BY <1>1, RingOfReceiver
    <3>3. TypeOK'
      BY <3>1, <3>2 DEF TypeOK
    <3>4. ByteStays'
      BY <2>2, <3>1 DEF ByteStays, TypeOK
    <3>5. Distance(N, After(rx_head), rx_tail) = count + 1
      <4>1. rx_buffer \in Rings(N, X) /\ byte \in X
        BY RingOfReceiver DEF TypeOK, X, Rings
      <4>2. /\ N \in Nat \ {0, 1} /\ rx_head \in CellsOf(N) /\ rx_tail \in CellsOf(N)
            /\ After(rx_head) = Following(N, rx_head)
        BY <1>1, RingOfReceiver
      <4> QED BY <4>1, <4>2, <1>1, <2>2, PutAppends
    <3>6. count' = count + 1
      <4>1. count' = Distance(N, After(rx_head), rx_tail)
        BY <1>1, <3>1, <3>2, RingOfReceiver DEF count
      <4> QED BY <4>1, <3>5
    <3>7. ReadyIsThere'
      <4>1. ready \in Nat /\ count \in Nat
        BY <1>1, <1>2 DEF TypeOK
      <4> QED BY <4>1, <3>1, <3>6 DEF ReadyIsThere
    <3> QED BY <3>3, <3>4, <3>7
  <2> QED BY <2>1, <2>2
<1>4. CASE available
  <2>1. TypeOK' /\ ByteStays'
    BY <1>4, <1>1 DEF available, TypeOK, ByteStays, ringVars
  <2>2. ready' = count /\ count' = count
    BY <1>4 DEF available, count, ringVars
  <2>3. ReadyIsThere'
    BY <2>2, <1>1, <1>2 DEF ReadyIsThere
  <2> QED BY <2>1, <2>3
<1>5. CASE Peek \/ PeekByte \/ LoadByte
  <2>1. TypeOK'
    BY <1>5 DEF Peek, PeekByte, LoadByte, TypeOK, ringVars
  <2>2. ByteStays'
    BY <1>5 DEF Peek, PeekByte, LoadByte, ByteStays, ringVars
  <2>3. ReadyIsThere'
    BY <1>5 DEF Peek, PeekByte, LoadByte, ReadyIsThere, count, ringVars
  <2> QED BY <2>1, <2>2, <2>3
<1>6. CASE Read
  <2>1. TypeOK' /\ ByteStays'
    BY <1>6, <1>2 DEF Read, TypeOK, ByteStays, ringVars
  <2>2. count' = count /\ (ready' = ready \/ ready' = 0)
    BY <1>6 DEF Read, count, ringVars
  <2>3. ReadyIsThere'
    BY <2>2, <1>1, <1>2 DEF ReadyIsThere
  <2> QED BY <2>1, <2>3
<1>7. CASE Advance
  <2>1. TypeOK'
    <3>1. After(rx_tail) \in Cells
      BY <1>1, RingOfReceiver
    <3> QED BY <3>1, <1>7, <1>2 DEF Advance, TypeOK
  <2>2. ByteStays'
    BY <1>7 DEF Advance, ByteStays
  <2>3. ready' = 0 /\ count' \in Cells
    BY <1>7, <2>1, RingOfReceiver DEF Advance, TypeOK, count
  <2>4. ReadyIsThere'
    BY <2>3, <1>2 DEF ReadyIsThere
  <2> QED BY <2>1, <2>2, <2>4
<1>8. CASE UNCHANGED vars
  BY <1>8 DEF vars, ringVars, TypeOK, ByteStays, ReadyIsThere, count
<1> QED BY <1>3, <1>4, <1>5, <1>6, <1>7, <1>8 DEF Next, Main, RxParityError

\* In every reachable state the members hold indices of the ring, the interrupt
\* has left the byte read() is looking at alone, and what available() has
\* counted is still there.
THEOREM ReceiveInvariant == Spec => []Inv
BY InitInv, NextInv, PTL DEF Spec

-----------------------------------------------------------------------------
(* The refinement. *)

\* What Waiting is in a state where the members hold what they should.
Shown ==
  /\ Waiting = Contents(N, rx_buffer, rx_head, rx_tail)
  /\ IsRing(rx_buffer)
  /\ rx_head \in CellsOf(N) /\ rx_tail \in CellsOf(N)
  /\ N \in Nat \ {0, 1}

LEMMA WaitingIsContents == Inv => Shown
<1> SUFFICES ASSUME Inv PROVE Shown
  OBVIOUS
<1>1. /\ IsRing(rx_buffer) /\ rx_head \in Cells /\ rx_tail \in Cells
      /\ N \in Nat \ {0, 1} /\ Cells = CellsOf(N)
  BY RingOfReceiver DEF Inv, TypeOK, IsRing, X, Rings
<1>2. /\ count = Distance(N, rx_head, rx_tail)
      /\ \A k \in 1 .. Distance(N, rx_head, rx_tail) :
           (rx_tail + k - 1) % SERIAL_BUFFER_SIZE = RingSlot(N, rx_tail, k)
  BY <1>1, RingOfReceiver DEF count
<1>3. Waiting = Contents(N, rx_buffer, rx_head, rx_tail)
  BY <1>2 DEF Waiting, Contents
<1> QED BY <1>1, <1>3 DEF Shown

LEMMA InitQueue == Init => Queue!Init
<1> SUFFICES ASSUME Init PROVE Waiting = <<>> /\ arrival = 0 /\ out = <<>>
  BY DEF Queue!Init
<1>1. Inv /\ rx_head = 0 /\ rx_tail = 0
  BY InitInv DEF Init
<1>2. Waiting = Contents(N, rx_buffer, 0, 0) /\ Len(Contents(N, rx_buffer, 0, 0)) = 0
  <2>1. Shown /\ Distance(N, 0, 0) = 0
    BY <1>1, WaitingIsContents DEF Distance
  <2>2. Waiting = Contents(N, rx_buffer, 0, 0)
    BY <1>1, <2>1 DEF Shown
  <2>3. Len(Contents(N, rx_buffer, 0, 0)) = Distance(N, 0, 0)
    BY <1>1, <2>1, ContentsAreASequence DEF Shown, IsRing
  <2> QED BY <2>1, <2>2, <2>3
<1>3. Contents(N, rx_buffer, 0, 0) \in Seq(X)
  BY <1>1, WaitingIsContents, ContentsAreASequence DEF Shown, IsRing
<1> QED BY <1>2, <1>3 DEF Init

\* An interrupt is a Put or a Drop, the last step of read() a Get, everything
\* else a stuttering step.
LEMMA NextQueue ==
  Inv /\ Inv' /\ [Next]_vars => [Queue!Next]_<<Waiting, arrival, out>>
<1> SUFFICES ASSUME Inv, Inv', [Next]_vars
             PROVE  [Queue!Next]_<<Waiting, arrival, out>>
  OBVIOUS
<1> DEFINE wait == Contents(N, rx_buffer, rx_head, rx_tail)
<1>1. /\ Waiting = wait /\ IsRing(rx_buffer)
      /\ rx_head \in CellsOf(N) /\ rx_tail \in CellsOf(N) /\ N \in Nat \ {0, 1}
      /\ After(rx_head) = Following(N, rx_head) /\ After(rx_tail) = Following(N, rx_tail)
  BY WaitingIsContents, RingOfReceiver DEF Shown
<1>2. Waiting' = Contents(N, rx_buffer', rx_head', rx_tail')
  <2>1. Shown'
    BY WaitingIsContents, PTL
  <2> QED BY <2>1 DEF Shown
<1>3. ASSUME NEW byte \in Byte, RxComplete(byte)
      PROVE  Queue!Next
  <2>1. CASE After(rx_head) = rx_tail
    <3>1. /\ UNCHANGED <<rx_buffer, rx_head, rx_tail, out>>
          /\ arrival' = 1 - arrival
      BY <1>3, <2>1 DEF RxComplete
    <3>2. Waiting' = Waiting
      BY <3>1, <1>1, <1>2
    <3>3. Len(wait) = Distance(N, rx_head, rx_tail)
      BY <1>1, ContentsAreASequence DEF IsRing
    <3>4. Len(Waiting) = SERIAL_BUFFER_SIZE - 1
      BY <1>1, <3>3, <2>1, DistanceBounds DEF N
    <3> QED BY <3>1, <3>2, <3>4 DEF Queue!Next, Queue!Drop, Queue!Arrive
  <2>2. CASE After(rx_head) # rx_tail
    <3>1. /\ rx_buffer' = [rx_buffer EXCEPT ![rx_head] = byte]
          /\ rx_head' = After(rx_head) /\ rx_tail' = rx_tail
          /\ out' = out /\ arrival' = 1 - arrival
      BY <1>3, <2>2 DEF RxComplete
    <3>2. byte \in X
      BY DEF X
    <3>3. Contents(N, rx_buffer', After(rx_head), rx_tail) = Append(wait, byte)
      <4>1. rx_buffer \in Rings(N, X) /\ Following(N, rx_head) # rx_tail
        BY <1>1, <2>2 DEF IsRing
      <4>2. rx_buffer' = With(rx_buffer, rx_head, byte)
        BY <3>1 DEF With
      <4> QED BY <4>1, <4>2, <1>1, <3>2, PutAppends
    <3>7. Len(wait) < N - 1
      <4>1. Len(wait) = Distance(N, rx_head, rx_tail)
        BY <1>1, ContentsAreASequence DEF IsRing
      <4>2. Distance(N, rx_head, rx_tail) < N - 1
        BY <1>1, <2>2, DistanceBounds
      <4> QED BY <4>1, <4>2
    <3>4. Waiting' = Append(Waiting, byte)
      BY <1>1, <1>2, <3>1, <3>3
    <3>5. Len(Waiting) < SERIAL_BUFFER_SIZE - 1
      BY <1>1, <3>7 DEF N
    <3> HIDE DEF wait
    <3>6. Queue!Put(byte)
      BY <3>1, <3>4, <3>5 DEF Queue!Put, Queue!Arrive
    <3> QED BY <3>2, <3>6 DEF Queue!Next, X
  <2> QED BY <2>1, <2>2
<1>4. CASE available \/ Peek \/ PeekByte \/ Read \/ LoadByte \/ UNCHANGED vars
  <2>1. UNCHANGED <<rx_buffer, rx_head, rx_tail, arrival, out>>
    BY <1>4 DEF available, Peek, PeekByte, Read, LoadByte, vars, ringVars
  <2>2. Waiting' = Waiting
    BY <2>1, <1>1, <1>2
  <2> QED BY <2>1, <2>2
<1>5. CASE Advance
  <2>1. /\ rx_head # rx_tail /\ c = rx_buffer[rx_tail]
    BY <1>5 DEF Advance, Inv, ByteStays
  <2>2. /\ UNCHANGED <<rx_buffer, rx_head, arrival>>
        /\ rx_tail' = After(rx_tail) /\ out' = <<c>>
    BY <1>5 DEF Advance
  <2>3. /\ wait # <<>> /\ Head(wait) = rx_buffer[rx_tail]
        /\ Contents(N, rx_buffer, rx_head, After(rx_tail)) = Tail(wait)
    BY <1>1, <2>1, AdvanceTakesHead DEF IsRing
  <2>4. Waiting' = Tail(Waiting)
    BY <1>1, <1>2, <2>2, <2>3
  <2>5. Waiting # <<>> /\ out' = <<Head(Waiting)>>
    BY <1>1, <2>1, <2>2, <2>3
  <2> QED BY <2>2, <2>4, <2>5 DEF Queue!Next, Queue!Get
<1> QED BY <1>3, <1>4, <1>5 DEF Next, Main, RxParityError

\* The byte read() is about to take is the one it has looked at, and what
\* available() counted is still there to be read, for every size of the ring.
THEOREM LookedAtStays == Spec => []ByteStays
BY ReceiveInvariant, PTL DEF Inv

\* See above.
THEOREM CountedCanBeRead == Spec => []ReadyIsThere
BY ReceiveInvariant, PTL DEF Inv

\* The receiving half of the driver is a first-in first-out queue that loses a
\* byte only when SERIAL_BUFFER_SIZE - 1 are waiting, wherever the receive
\* interrupt falls between the steps of available(), peek() and read().
THEOREM ReceiveRefinesQueue == Spec => QueueSpec
<1>1. Init => Queue!Init
  BY InitQueue
<1>2. Inv /\ Inv' /\ [Next]_vars => [Queue!Next]_<<Waiting, arrival, out>>
  BY NextQueue
<1> QED BY <1>1, <1>2, ReceiveInvariant, PTL DEF Spec, QueueSpec, Queue!Spec

-----------------------------------------------------------------------------
(* SoftwareSerial. *)

M == MAX_RX_BUFF

\* The interrupt puts bits together to a byte, and leaves the byte that read() and
\* peek() look at alone.
SSInv ==
  /\ ss_buffer \in Rings(M, Frames)
  /\ ss_head \in CellsOf(M) /\ ss_tail \in CellsOf(M)
  /\ isr = [running |-> isr.running, d |-> isr.d]
  /\ isr.d \in Seq({LOW, HIGH}) /\ Len(isr.d) <= BITS
  /\ line \in {LOW, HIGH} /\ frame \in Seq({LOW, HIGH})
  /\ ss_pc \in {"peek", "read", "advance"} => ss_head # ss_tail
  /\ ss_pc = "advance" => ss_c = ss_buffer[ss_head]

\* The indices: head and tail have changed places, and the mask is a remainder.
LEMMA RingOfPort ==
  /\ M \in Nat \ {0, 1} /\ 0 \in CellsOf(M) /\ SSCells = CellsOf(M)
  /\ \A cell \in CellsOf(M) :
       Masked(cell + 1) = Following(M, cell) /\ Following(M, cell) \in CellsOf(M)
  /\ \A h, t \in CellsOf(M) :
       /\ Masked(t + MAX_RX_BUFF - h) = Distance(M, t, h)
       /\ \A k \in 1 .. Distance(M, t, h) : Masked(h + k - 1) = RingSlot(M, h, k)
<1>1. M \in Nat \ {0, 1} /\ 0 \in CellsOf(M) /\ SSCells = CellsOf(M)
  BY SizeAssumption DEF M, CellsOf, SSCells
<1>2. \A x : Masked(x) = x % M
  BY DEF Masked, M
<1>3. \A h, t \in CellsOf(M) : t + MAX_RX_BUFF - h = M + t - h
  BY <1>1 DEF M, CellsOf
<1> QED BY <1>1, <1>2, <1>3, RingRemainders

LEMMA SSInitInv == SSInit => SSInv
<1> SUFFICES ASSUME SSInit PROVE SSInv
  OBVIOUS
<1>1. [i \in 1 .. BITS |-> LOW] \in Frames
  BY DEF Frames
<1>2. ss_buffer \in Rings(M, Frames) /\ 0 \in CellsOf(M)
  BY <1>1, RingOfPort DEF SSInit, Rings
<1>3. Len(<<>>) <= BITS
  BY SizeAssumption
<1> QED BY <1>2, <1>3 DEF SSInit, SSInv

\* The interrupt has read as many bits as a byte has.
LEMMA BitsAreAByte ==
  ASSUME NEW d \in Seq({LOW, HIGH}), Len(d) = BITS
  PROVE  d \in Frames
BY DEF Frames

\* recv() writes the free cell only, and moves only the index that read() leaves alone.
LEMMA RecvKeeps ==
  ASSUME SSInv, Recv
  PROVE  SSInv'
<1>1. /\ isr' = [running |-> FALSE, d |-> <<>>]
      /\ Len(isr.d) = BITS
      /\ UNCHANGED <<ss_head, ss_pc, ss_c, line, frame>>
  BY DEF Recv, EndRecv
<1>2. isr.d \in Frames
  BY <1>1, BitsAreAByte DEF SSInv
<1>3. isr'.d \in Seq({LOW, HIGH}) /\ Len(isr'.d) <= BITS /\ isr' = [running |-> isr'.running, d |-> isr'.d]
  BY <1>1, SizeAssumption
<1>4. CASE Masked(ss_tail + 1) = ss_head
  <2>1. UNCHANGED <<ss_buffer, ss_tail>>
    BY <1>4 DEF Recv
  <2> QED BY <1>1, <1>3, <2>1 DEF SSInv
<1>5. CASE Masked(ss_tail + 1) # ss_head
  <2>1. ss_buffer' = [ss_buffer EXCEPT ![ss_tail] = isr.d] /\ ss_tail' = Masked(ss_tail + 1)
    BY <1>5 DEF Recv
  <2>2. ss_tail' \in CellsOf(M) /\ ss_tail' # ss_head
    BY <1>5, <2>1, RingOfPort DEF SSInv
  <2>3. ss_buffer' \in Rings(M, Frames)
    BY <1>2, <2>1 DEF SSInv, Rings
  <2>4. ss_head # ss_tail => ss_buffer'[ss_head] = ss_buffer[ss_head]
    BY <2>1 DEF SSInv, Rings
  <2> QED BY <1>1, <1>3, <2>2, <2>3, <2>4 DEF SSInv
<1> QED BY <1>4, <1>5

LEMMA SSNextInv == SSInv /\ [SSNext]_ssVars => SSInv'
<1> SUFFICES ASSUME SSInv, [SSNext]_ssVars PROVE SSInv'
  OBVIOUS
<1>1. CASE UNCHANGED ssVars
  BY <1>1 DEF ssVars, ssRing, lineVars, SSInv
<1>2. CASE StartFrame \/ NextBit
  <2>1. UNCHANGED <<ss_buffer, ss_head, ss_tail, isr, ss_pc, ss_c>>
    BY <1>2 DEF StartFrame, NextBit, Level, ssRing
  <2>2. line' \in {LOW, HIGH} /\ frame' \in Seq({LOW, HIGH})
    <3>1. CASE StartFrame
      <4>1. PICK bits \in Frames : frame' = bits \o <<HIGH>>
        BY <3>1 DEF StartFrame
      <4>2. bits \in Seq({LOW, HIGH}) /\ <<HIGH>> \in Seq({LOW, HIGH})
        BY SizeAssumption DEF Frames
      <4>3. frame' \in Seq({LOW, HIGH})
        BY <4>1, <4>2, ConcatProperties
      <4> QED BY <3>1, <4>3 DEF StartFrame, Level
    <3>2. CASE NextBit
      <4>1. Head(frame) \in {LOW, HIGH} /\ Tail(frame) \in Seq({LOW, HIGH})
        BY <3>2, HeadTailProperties DEF NextBit, SSInv
      <4> QED BY <3>2, <4>1 DEF NextBit, Level
    <3> QED BY <1>2, <3>1, <3>2
  <2> QED BY <2>1, <2>2 DEF SSInv
<1>3. CASE PinChange
  <2>1. PICK running : isr' = [running |-> running, d |-> <<>>]
    BY <1>3 DEF PinChange
  <2>2. UNCHANGED <<ss_buffer, ss_head, ss_tail, ss_pc, ss_c, line, frame>>
    BY <1>3 DEF PinChange, ssRing
  <2>3. isr'.d \in Seq({LOW, HIGH}) /\ Len(isr'.d) <= BITS /\ isr' = [running |-> isr'.running, d |-> isr'.d]
    BY <2>1, SizeAssumption
  <2> QED BY <2>2, <2>3 DEF SSInv
<1>4. CASE Sample
  <2>1. /\ Len(isr.d) < BITS /\ isr' = [isr EXCEPT !.d = Append(isr.d, line)]
        /\ UNCHANGED <<ss_buffer, ss_head, ss_tail, ss_pc, ss_c, line, frame>>
    BY <1>4 DEF Sample, ssRing, lineVars
  <2>2. isr' = [running |-> isr.running, d |-> Append(isr.d, line)]
    BY <2>1 DEF SSInv
  <2>3. Append(isr.d, line) \in Seq({LOW, HIGH}) /\ Len(Append(isr.d, line)) <= BITS
    BY <2>1, SizeAssumption, AppendProperties, LenProperties DEF SSInv
  <2> QED BY <2>1, <2>2, <2>3 DEF SSInv
<1>5. CASE SSMain
  <2>1. UNCHANGED <<ss_buffer, isr, line, frame>>
    BY <1>5 DEF SSMain, begin, listen, end, Look, peek, read, ReadAdvance, flush, write, WriteStopBit,
                ssRing, lineVars
  <2>2. /\ ss_head' \in CellsOf(M) /\ ss_tail' \in CellsOf(M)
        /\ ss_pc' \in {"peek", "read", "advance"} => ss_head' # ss_tail'
        /\ ss_pc' = "advance" => ss_c' = ss_buffer'[ss_head']
    <3>1. CASE (\E speed \in Speeds : begin(speed)) \/ end \/ Look("peek") \/ Look("read") \/ peek
               \/ write \/ WriteStopBit
      BY <3>1 DEF begin, end, Look, peek, write, WriteStopBit, ssRing, SSInv
    <3>2. CASE listen \/ flush
      BY <3>2, RingOfPort DEF listen, flush, Call, SSInv
    <3>3. CASE read
      BY <3>3 DEF read, ssRing, SSInv
    <3>4. CASE ReadAdvance
      BY <3>4, RingOfPort DEF ReadAdvance, SSInv
    <3> QED BY <1>5, <3>1, <3>2, <3>3, <3>4 DEF SSMain
  <2> QED BY <2>1, <2>2 DEF SSInv
<1> QED BY <1>1, <1>2, <1>3, <1>4, <1>5, RecvKeeps DEF SSNext, SSInterrupt

\* For every size of the ring and of a byte, whatever arrives on the line.
THEOREM SoftInvariant == SSSpec => []SSInv
BY SSInitInv, SSNextInv, PTL DEF SSSpec

\* What SSWaiting is in such a state.
SSShown == SSWaiting = Contents(M, ss_buffer, ss_tail, ss_head)

LEMMA SSWaitingIsContents == SSInv => SSShown
<1> SUFFICES ASSUME SSInv PROVE SSShown
  OBVIOUS
<1>1. /\ ss_count = Distance(M, ss_tail, ss_head)
      /\ \A k \in 1 .. Distance(M, ss_tail, ss_head) : Masked(ss_head + k - 1) = RingSlot(M, ss_head, k)
  BY RingOfPort DEF ss_count, SSInv
<1> QED BY <1>1 DEF SSWaiting, Contents, SSShown

LEMMA InitSoftQueue == SSInit => SoftQueue!Init
<1> SUFFICES ASSUME SSInit PROVE SSWaiting = <<>> /\ ss_arrival = 0 /\ ss_out = <<>>
  BY DEF SoftQueue!Init
<1>1. SSInv /\ ss_head = 0 /\ ss_tail = 0
  BY SSInitInv DEF SSInit
<1>2. ss_count = 0
  BY <1>1, RingOfPort DEF ss_count, Distance
<1> QED BY <1>2 DEF SSInit, SSWaiting

\* A byte is put together and Put, or Dropped; the last step of read() is a Get,
\* flush() and listen() a Clear, and everything else stutters.
LEMMA NextSoftQueue ==
  SSInv /\ SSInv' /\ [SSNext]_ssVars
    => [SoftQueue!Next \/ SoftQueue!Clear]_<<SSWaiting, ss_arrival, ss_out>>
<1> SUFFICES ASSUME SSInv, SSInv', [SSNext]_ssVars
             PROVE  [SoftQueue!Next \/ SoftQueue!Clear]_<<SSWaiting, ss_arrival, ss_out>>
  OBVIOUS
<1> DEFINE wait == Contents(M, ss_buffer, ss_tail, ss_head)
<1>1. /\ SSWaiting = wait /\ M \in Nat \ {0, 1} /\ ss_buffer \in Rings(M, Frames)
      /\ ss_tail \in CellsOf(M) /\ ss_head \in CellsOf(M)
      /\ Masked(ss_tail + 1) = Following(M, ss_tail) /\ Masked(ss_head + 1) = Following(M, ss_head)
      /\ 0 \in CellsOf(M)
  BY SSWaitingIsContents, RingOfPort DEF SSInv, SSShown
<1>2. SSWaiting' = Contents(M, ss_buffer', ss_tail', ss_head')
  <2>1. SSShown'
    BY SSWaitingIsContents, PTL
  <2> QED BY <2>1 DEF SSShown
<1>3. CASE Recv
  <2>0. Len(wait) = Distance(M, ss_tail, ss_head)
    BY <1>1, ContentsAreASequence
  <2>1. ss_head' = ss_head /\ ss_out' = ss_out /\ ss_arrival' = 1 - ss_arrival /\ isr.d \in Frames
    BY <1>3, BitsAreAByte DEF Recv, EndRecv, SSInv
  <2>2. CASE Masked(ss_tail + 1) = ss_head
    <3>1. UNCHANGED <<ss_buffer, ss_tail>>
      BY <1>3, <2>2 DEF Recv
    <3>2. SSWaiting' = SSWaiting
      BY <1>1, <1>2, <2>1, <3>1
    <3>3. Len(SSWaiting) = MAX_RX_BUFF - 1
      BY <1>1, <2>0, <2>2, DistanceBounds DEF M
    <3> QED BY <2>1, <3>2, <3>3 DEF SoftQueue!Next, SoftQueue!Drop, SoftQueue!Arrive
  <2>3. CASE Masked(ss_tail + 1) # ss_head
    <3>1. ss_buffer' = With(ss_buffer, ss_tail, isr.d) /\ ss_tail' = Following(M, ss_tail)
      BY <1>1, <1>3, <2>3 DEF Recv, With
    <3>2. Contents(M, ss_buffer', Following(M, ss_tail), ss_head) = Append(wait, isr.d)
      BY <1>1, <2>1, <2>3, <3>1, PutAppends
    <3>3. SSWaiting' = Append(SSWaiting, isr.d)
      BY <1>1, <1>2, <2>1, <3>1, <3>2
    <3>4. Len(wait) < M - 1
      <4>1. Following(M, ss_tail) # ss_head
        BY <1>1, <2>3
      <4>2. Distance(M, ss_tail, ss_head) < M - 1
        BY <1>1, <4>1, DistanceBounds
      <4> QED BY <2>0, <4>2
    <3>5. Len(SSWaiting) < MAX_RX_BUFF - 1
      BY <1>1, <3>4 DEF M
    <3> HIDE DEF wait
    <3>6. SoftQueue!Put(isr.d)
      BY <2>1, <3>3, <3>5 DEF SoftQueue!Put, SoftQueue!Arrive
    <3> QED BY <2>1, <3>6 DEF SoftQueue!Next
  <2> QED BY <2>2, <2>3
<1>4. CASE ReadAdvance
  <2>1. ss_head # ss_tail /\ ss_c = ss_buffer[ss_head]
    BY <1>4 DEF ReadAdvance, SSInv
  <2>2. /\ UNCHANGED <<ss_buffer, ss_tail, ss_arrival>>
        /\ ss_head' = Following(M, ss_head) /\ ss_out' = <<ss_c>>
    BY <1>1, <1>4 DEF ReadAdvance
  <2>3. /\ wait # <<>> /\ Head(wait) = ss_buffer[ss_head]
        /\ Contents(M, ss_buffer, ss_tail, Following(M, ss_head)) = Tail(wait)
    BY <1>1, <2>1, AdvanceTakesHead
  <2>4. SSWaiting' = Tail(SSWaiting)
    BY <1>1, <1>2, <2>2, <2>3
  <2>5. SSWaiting # <<>> /\ ss_out' = <<Head(SSWaiting)>>
    BY <1>1, <2>1, <2>2, <2>3
  <2> QED BY <2>2, <2>4, <2>5 DEF SoftQueue!Next, SoftQueue!Get
<1>5. CASE listen \/ flush
  <2>1. UNCHANGED <<ss_buffer, ss_arrival, ss_out>>
        /\ ((ss_head' = 0 /\ ss_tail' = 0) \/ UNCHANGED <<ss_head, ss_tail>>)
    BY <1>5 DEF listen, flush
  <2>2. CASE ss_head' = 0 /\ ss_tail' = 0
    <3>1. Distance(M, 0, 0) = 0
      BY DEF Distance
    <3>2. SSWaiting' = <<>>
      BY <1>2, <2>2, <3>1 DEF Contents
    <3> QED BY <2>1, <3>2 DEF SoftQueue!Clear
  <2>3. CASE UNCHANGED <<ss_head, ss_tail>>
    <3>1. SSWaiting' = SSWaiting
      BY <1>1, <1>2, <2>1, <2>3
    <3> QED BY <2>1, <3>1
  <2> QED BY <2>1, <2>2, <2>3
<1>6. CASE UNCHANGED ssVars \/ StartFrame \/ NextBit \/ PinChange \/ Sample
           \/ (\E speed \in Speeds : begin(speed)) \/ end \/ Look("peek") \/ Look("read") \/ peek
           \/ read \/ write \/ WriteStopBit
  <2>1. UNCHANGED <<ss_buffer, ss_head, ss_tail, ss_arrival, ss_out>>
    BY <1>6 DEF ssVars, ssRing, StartFrame, NextBit, Level, PinChange, Sample, begin, end, Look, peek,
                read, write, WriteStopBit
  <2>2. SSWaiting' = SSWaiting
    BY <1>1, <1>2, <2>1
  <2> QED BY <2>1, <2>2
<1> QED BY <1>3, <1>4, <1>5, <1>6 DEF SSNext, SSInterrupt, SSMain

\* The debug port's ring is a queue that holds one byte less than it has cells and
\* that its owner may empty whole, wherever the pin-change interrupt falls.
THEOREM SoftReceiveRefinesQueue == SSSpec => SoftQueueSpec
<1>1. SSInit => SoftQueue!Init
  BY InitSoftQueue
<1>2. SSInv /\ SSInv' /\ [SSNext]_ssVars
        => [SoftQueue!Next \/ SoftQueue!Clear]_<<SSWaiting, ss_arrival, ss_out>>
  BY NextSoftQueue
<1> QED BY <1>1, <1>2, SoftInvariant, PTL DEF SSSpec, SoftQueueSpec, SoftQueue!FlushedSpec
===============================================================================
