------------------------- MODULE SerialTransmitProofs -------------------------
(***************************************************************************)
(* For every size of the ring and any number of writes: what is given to   *)
(* write() leaves the transmitter once and in order, flush() comes back    *)
(* when it has, and RS485 lets go of the bus no earlier.                   *)
(***************************************************************************)
EXTENDS RS485, CommonTheorems

N == SERIAL_BUFFER_SIZE

\* Every byte accepted, from the wire back to the caller's hand.
Chain(sent, inShift, inUdr, inRing, inHand) ==
  sent \o inShift \o inUdr \o inRing \o inHand

-----------------------------------------------------------------------------
(* A byte moves one place down the chain. *)

LEMMA ToWire ==
  ASSUME NEW X, NEW w \in Seq(X), NEW u \in Seq(X), NEW r \in Seq(X), NEW h \in Seq(X), NEW x \in X
  PROVE  /\ Append(w, x) \in Seq(X)
         /\ Chain(Append(w, x), <<>>, u, r, h) = Chain(w, <<x>>, u, r, h)
<1>1. <<x>> \in Seq(X) /\ w \o <<x>> \in Seq(X)
  BY ConcatProperties
<1>2. Append(w, x) = w \o <<x>>
  BY AppendIsConcat
<1>3. (w \o <<x>>) \o <<>> = w \o <<x>>
  BY <1>1, ConcatEmptySeq
<1> QED BY <1>1, <1>2, <1>3 DEF Chain

LEMMA ToShift ==
  ASSUME NEW X, NEW w \in Seq(X), NEW r \in Seq(X), NEW h \in Seq(X), NEW x \in X
  PROVE  Chain(w, <<x>>, <<>>, r, h) = Chain(w, <<>>, <<x>>, r, h)
<1>1. <<x>> \in Seq(X) /\ w \o <<x>> \in Seq(X)
  BY ConcatProperties
<1>2. (w \o <<x>>) \o <<>> = w \o <<x>> /\ w \o <<>> = w
  BY <1>1, ConcatEmptySeq
<1> QED BY <1>2 DEF Chain

LEMMA ToDataRegister ==
  ASSUME NEW X, NEW w \in Seq(X), NEW s \in Seq(X), NEW r \in Seq(X), NEW h \in Seq(X),
         r # <<>>
  PROVE  Chain(w, s, <<Head(r)>>, Tail(r), h) = Chain(w, s, <<>>, r, h)
<1> DEFINE a == w \o s
           x == <<Head(r)>>
           t == Tail(r)
<1>1. a \in Seq(X) /\ x \in Seq(X) /\ t \in Seq(X) /\ r = x \o t
  BY ConcatProperties, HeadTailProperties
<1> HIDE DEF a, x, t
<1>2. (a \o x) \o t = a \o (x \o t)
  BY SMTT(30), <1>1, ConcatAssociative
<1>3. a \o <<>> = a
  BY <1>1, ConcatEmptySeq
<1> QED BY <1>1, <1>2, <1>3 DEF Chain, a, x, t

LEMMA ToRing ==
  ASSUME NEW X, NEW w \in Seq(X), NEW s \in Seq(X), NEW u \in Seq(X), NEW r \in Seq(X),
         NEW x \in X
  PROVE  Chain(w, s, u, Append(r, x), <<>>) = Chain(w, s, u, r, <<x>>)
<1> DEFINE a == w \o s \o u
<1>1. a \in Seq(X) /\ <<x>> \in Seq(X) /\ a \o r \in Seq(X)
  BY ConcatProperties
<1>2. Append(r, x) = r \o <<x>>
  BY AppendIsConcat
<1> HIDE DEF a
<1>3. a \o (r \o <<x>>) = (a \o r) \o <<x>>
  BY <1>1, ConcatAssociative
<1>4. (a \o r) \o <<x>> \in Seq(X)
  BY <1>1, ConcatProperties
<1>5. ((a \o r) \o <<x>>) \o <<>> = (a \o r) \o <<x>>
  BY <1>4, ConcatEmptySeq
<1> QED BY <1>2, <1>3, <1>5 DEF Chain, a

LEMMA PastRing ==
  ASSUME NEW X, NEW w \in Seq(X), NEW s \in Seq(X), NEW x \in X
  PROVE  Chain(w, s, <<x>>, <<>>, <<>>) = Chain(w, s, <<>>, <<>>, <<x>>)
<1> DEFINE a == w \o s
<1>1. a \in Seq(X) /\ <<x>> \in Seq(X)
  BY ConcatProperties
<1> HIDE DEF a
<1>2. a \o <<x>> \in Seq(X)
  BY <1>1, ConcatProperties
<1>3. a \o <<>> = a /\ (a \o <<x>>) \o <<>> = a \o <<x>>
  BY <1>1, <1>2, ConcatEmptySeq
<1> QED BY <1>3 DEF Chain, a

LEMMA ToHand ==
  ASSUME NEW X, NEW a \in Seq(X), NEW x \in X
  PROVE  a \o <<x>> = Append(a \o <<>>, x)
BY ConcatEmptySeq, AppendIsConcat

LEMMA AllOnWire ==
  ASSUME NEW X, NEW w \in Seq(X)
  PROVE  Chain(w, <<>>, <<>>, <<>>, <<>>) = w
BY ConcatEmptySeq DEF Chain

-----------------------------------------------------------------------------
(* The ring of the transmitter. *)

LEMMA RingOfTransmitter ==
  /\ N \in Nat \ {0, 1} /\ Cells = CellsOf(N) /\ 0 \in Cells /\ MaxWrites \in Nat
  /\ \A cell \in Cells : After(cell) = Following(N, cell) /\ After(cell) \in Cells
  /\ \A h, t \in Cells :
       /\ (SERIAL_BUFFER_SIZE + h - t) % SERIAL_BUFFER_SIZE = Distance(N, h, t)
       /\ \A k \in 1 .. Distance(N, h, t) :
            (t + k - 1) % SERIAL_BUFFER_SIZE = RingSlot(N, t, k)
<1>1. N \in Nat \ {0, 1} /\ Cells = CellsOf(N) /\ 0 \in Cells /\ MaxWrites \in Nat
  BY BufferAssumption DEF N, Cells, CellsOf
<1>2. \A cell \in CellsOf(N) :
        (cell + 1) % N = Following(N, cell) /\ Following(N, cell) \in CellsOf(N)
  BY <1>1, RingRemainders
<1>3. \A h, t \in CellsOf(N) :
        /\ (N + h - t) % N = Distance(N, h, t)
        /\ \A k \in 1 .. Distance(N, h, t) : (t + k - 1) % N = RingSlot(N, t, k)
  BY <1>1, RingRemainders
<1> QED BY <1>1, <1>2, <1>3 DEF N, After

LEMMA AfterIsNext ==
  ASSUME NEW a \in Cells, NEW b \in Cells
  PROVE  After(a) \in Cells /\ After(a) # a /\ (After(a) = After(b) => a = b)
<1>1. N \in Nat \ {0, 1} /\ a \in CellsOf(N) /\ b \in CellsOf(N)
  BY RingOfTransmitter
<1>2. After(a) = Following(N, a) /\ After(b) = Following(N, b) /\ After(a) \in Cells
  BY RingOfTransmitter
<1> QED BY <1>1, <1>2 DEF Following, CellsOf

\* What Ring is in a state where the members hold what they should.
RingOK ==
  /\ tx_buffer \in Rings(N, Bytes)
  /\ tx_head \in CellsOf(N) /\ tx_tail \in CellsOf(N)
  /\ Ring = Contents(N, tx_buffer, tx_head, tx_tail)
  /\ Ring \in Seq(Bytes)
  /\ Ring = <<>> <=> tx_head = tx_tail

LEMMA RingIsContents == TypeOK => RingOK
<1> SUFFICES ASSUME TypeOK PROVE RingOK
  OBVIOUS
<1>1. /\ tx_buffer \in Rings(N, Bytes) /\ tx_head \in Cells /\ tx_tail \in Cells
      /\ N \in Nat \ {0, 1} /\ Cells = CellsOf(N)
  BY RingOfTransmitter DEF TypeOK, Rings
<1>2. /\ (SERIAL_BUFFER_SIZE + tx_head - tx_tail) % SERIAL_BUFFER_SIZE
            = Distance(N, tx_head, tx_tail)
      /\ \A k \in 1 .. Distance(N, tx_head, tx_tail) :
           (tx_tail + k - 1) % SERIAL_BUFFER_SIZE = RingSlot(N, tx_tail, k)
  BY <1>1, RingOfTransmitter
<1>3. Ring = Contents(N, tx_buffer, tx_head, tx_tail)
  BY <1>2 DEF Ring, Contents
<1>4. Ring \in Seq(Bytes) /\ Len(Ring) = Distance(N, tx_head, tx_tail)
  BY <1>1, <1>3, ContentsAreASequence
<1>5. Distance(N, tx_head, tx_tail) = 0 <=> tx_head = tx_tail
  BY <1>1, DistanceBounds
<1>6. Ring = <<>> <=> Len(Ring) = 0
  BY <1>4
<1> QED BY <1>1, <1>3, <1>4, <1>5, <1>6 DEF RingOK

\* The interrupt takes the first byte of the ring,
LEMMA IrqTakesHead ==
  ASSUME TypeOK, TypeOK', tx_head # tx_tail,
         tx_tail' = After(tx_tail), UNCHANGED <<tx_buffer, tx_head>>
  PROVE  Ring # <<>> /\ Head(Ring) = tx_buffer[tx_tail] /\ Ring' = Tail(Ring)
<1>1. RingOK /\ RingOK'
  BY RingIsContents, PTL
<1>2. N \in Nat \ {0, 1} /\ After(tx_tail) = Following(N, tx_tail)
  BY RingOfTransmitter DEF TypeOK
<1>3. /\ Head(Contents(N, tx_buffer, tx_head, tx_tail)) = tx_buffer[tx_tail]
      /\ Contents(N, tx_buffer, tx_head, Following(N, tx_tail))
           = Tail(Contents(N, tx_buffer, tx_head, tx_tail))
  BY <1>1, <1>2, AdvanceTakesHead DEF RingOK
<1> QED BY <1>1, <1>2, <1>3 DEF RingOK

\* write() puts one in a free cell, where it does not yet count,
LEMMA StoreKeepsRing ==
  ASSUME TypeOK, TypeOK', c \in Bytes,
         tx_buffer' = [tx_buffer EXCEPT ![tx_head] = c], UNCHANGED <<tx_head, tx_tail>>
  PROVE  Ring' = Ring
<1>1. RingOK /\ RingOK'
  BY RingIsContents, PTL
<1>2. N \in Nat \ {0, 1} /\ tx_buffer' = With(tx_buffer, tx_head, c)
  BY RingOfTransmitter DEF With
<1>3. Contents(N, With(tx_buffer, tx_head, c), tx_head, tx_tail)
        = Contents(N, tx_buffer, tx_head, tx_tail)
  BY <1>1, <1>2, FreeCellIsNotThere DEF RingOK
<1> QED BY <1>1, <1>2, <1>3 DEF RingOK

\* and moves the head over it.
LEMMA MoveAppends ==
  ASSUME TypeOK, TypeOK', c \in Bytes, tx_buffer[tx_head] = c, After(tx_head) # tx_tail,
         tx_head' = After(tx_head), UNCHANGED <<tx_buffer, tx_tail>>
  PROVE  Ring' = Append(Ring, c)
<1>1. RingOK /\ RingOK'
  BY RingIsContents, PTL
<1>2. /\ N \in Nat \ {0, 1} /\ After(tx_head) = Following(N, tx_head)
      /\ tx_buffer = With(tx_buffer, tx_head, c)
  BY RingOfTransmitter DEF TypeOK, With
<1>3. Contents(N, With(tx_buffer, tx_head, c), Following(N, tx_head), tx_tail)
        = Append(Contents(N, tx_buffer, tx_head, tx_tail), c)
  BY <1>1, <1>2, PutAppends DEF RingOK
<1> QED BY <1>1, <1>2, <1>3 DEF RingOK

-----------------------------------------------------------------------------
(* The inductive invariant of the port. *)

Carrying == {"store UDR", "clear TXC", "wait", "store byte", "move head"}

\* write() has a byte in hand from its call until the byte is in the ring or the
\* flag of the byte before is cleared.
InvHand ==
  /\ c = NoByte <=> pc \notin Carrying
  /\ Len(accepted) <= MaxWrites

\* Until the interrupt has run with an empty ring, no byte is lost or overtaken:
\* the shortcut past the ring is taken only when nothing is before the byte, a
\* byte is stored in a free cell, what waits in the ring has the interrupt
\* enabled as soon as write() gets there, and the transmit-complete flag is off
\* while a byte is in the transmitter, the one step of write() excepted.
InvOrder ==
  /\ wire \o Held(shift) \o Held(udr) \o Ring \o InHand = accepted
  /\ pc = "store UDR" => tx_head = tx_tail /\ udr = NoByte
  /\ pc \in {"store byte", "move head"} => After(tx_head) # tx_tail
  /\ pc = "move head" => tx_buffer[tx_head] = c
  /\ tx_head # tx_tail /\ pc # "set UDRIE" => udrie
  /\ txc /\ pc # "clear TXC" => shift = NoByte /\ udr = NoByte
  /\ pc = "flushed" => ~ udrie /\ txc

AtRing == {"wait", "store byte", "move head", "set UDRIE"}

\* A CPU that is not held up for a frame: the interrupt is enabled only while
\* something is in the ring.  What could empty the ring between the two last
\* steps of write() is the interrupt, and only if the data register becomes free
\* again before write() goes on; but a frame that begins while the CPU is at
\* work does not end before the work is done.
InvTime ==
  /\ ~ spurious
  /\ udrie \/ pc = "set UDRIE" => tx_head # tx_tail
  /\ Interrupts /\ (udrie \/ pc \in AtRing) /\ udr = NoByte => shift # NoByte /\ owed
  /\ Interrupts /\ udrie /\ pc = "set UDRIE" =>
       After(tx_tail) # tx_head \/ (udr # NoByte /\ shift # NoByte /\ owed)

PortInv ==
  /\ TypeOK /\ InvHand
  /\ ~ spurious => InvOrder
  /\ setting.prompt => InvTime

LEMMA PortInit == TxInit => PortInv
<1> SUFFICES ASSUME TxInit PROVE PortInv
  OBVIOUS
<1>1. 0 \in Cells /\ MaxWrites \in Nat
  BY RingOfTransmitter
<1>2. TypeOK
  BY <1>1 DEF TxInit, TypeOK, Bytes
<1>3. InvHand /\ InvTime
  BY <1>1 DEF TxInit, InvHand, InvTime, Carrying, AtRing
<1>4. InvOrder
  <2>1. Ring = <<>>
    BY <1>2, RingIsContents DEF RingOK, TxInit
  <2>2. wire \o Held(shift) \o Held(udr) \o Ring \o InHand = <<>>
    BY <2>1 DEF TxInit, Held, InHand
  <2> QED BY <2>2 DEF TxInit, InvOrder
<1> QED BY <1>2, <1>3, <1>4 DEF PortInv

\* What a step does beside its action, in either class that uses the port: a
\* frame that begins while there is work to do owes the CPU the time for it.
Work ==
  /\ setting' = setting /\ owed' \in BOOLEAN
  /\ ~ Quiet' => owed' = (owed \/ shift # shift')

\* The chain in a state of the invariant.
LEMMA ChainOfPort ==
  ASSUME PortInv
  PROVE  /\ RingOK /\ wire \in Seq(Bytes) /\ accepted \in Seq(Bytes)
         /\ Held(shift) \in Seq(Bytes) /\ Held(udr) \in Seq(Bytes) /\ InHand \in Seq(Bytes)
         /\ ~ spurious => Chain(wire, Held(shift), Held(udr), Ring, InHand) = accepted
<1>1. RingOK /\ wire \in Seq(Bytes) /\ accepted \in Seq(Bytes)
  BY RingIsContents DEF PortInv, TypeOK
<1>2. ASSUME NEW b \in Bytes \cup {NoByte}
      PROVE  Held(b) \in Seq(Bytes)
  BY DEF Held
<1>3. shift \in Bytes \cup {NoByte} /\ udr \in Bytes \cup {NoByte} /\ c \in Bytes \cup {NoByte}
  BY DEF PortInv, TypeOK
<1>4. Held(shift) \in Seq(Bytes) /\ Held(udr) \in Seq(Bytes) /\ Held(c) \in Seq(Bytes)
  BY <1>2, <1>3
<1>5. InHand \in Seq(Bytes)
  BY <1>4, EmptySeq DEF InHand
<1> QED BY <1>1, <1>4, <1>5 DEF PortInv, InvOrder, Chain

LEMMA IrqStep ==
  ASSUME PortInv, Work, TxUdrEmptyIrq, UNCHANGED <<pc, c>>, UDRE,
         \/ Interrupts /\ udrie
         \/ ~ Interrupts /\ pc = "wait" /\ After(tx_head) = tx_tail
         \/ ~ Interrupts /\ pc = "flush" /\ udrie
  PROVE  PortInv'
<1>1. /\ udr' = tx_buffer[tx_tail] /\ tx_tail' = After(tx_tail) /\ txc' = FALSE
      /\ udrie' = (udrie /\ tx_head # After(tx_tail))
      /\ spurious' = (spurious \/ tx_head = tx_tail)
      /\ UNCHANGED <<tx_buffer, tx_head, shift, written, accepted, wire, pc, c, setting>>
      /\ udr = NoByte
  BY DEF TxUdrEmptyIrq, Work, UDRE
<1>2. /\ After(tx_tail) \in Cells /\ After(tx_head) # tx_head
      /\ After(tx_head) = After(tx_tail) => tx_head = tx_tail
      /\ tx_buffer[tx_tail] \in Bytes /\ tx_buffer[tx_tail] # NoByte
  <2>1. tx_head \in Cells /\ tx_tail \in Cells /\ tx_buffer[tx_tail] \in Bytes
    BY DEF PortInv, TypeOK
  <2>2. tx_buffer[tx_tail] # NoByte
    BY <2>1 DEF Bytes, NoByte
  <2> QED BY <2>1, <2>2, AfterIsNext
<1>3. TypeOK'
  BY <1>1, <1>2 DEF PortInv, TypeOK, Work, InWrite
<1>4. InvHand'
  BY <1>1 DEF PortInv, InvHand
<1>5. ASSUME ~ spurious'
      PROVE  InvOrder'
  <2>1. ~ spurious /\ tx_head # tx_tail
    BY <1>1, <1>5 DEF PortInv, TypeOK
  <2>2. Ring # <<>> /\ Head(Ring) = tx_buffer[tx_tail] /\ Ring' = Tail(Ring)
    BY <1>1, <1>3, <2>1, IrqTakesHead DEF PortInv
  <2>3. Held(udr) = <<>> /\ Held(udr)' = <<Head(Ring)>> /\ Held(shift)' = Held(shift) /\ InHand' = InHand
    BY <1>1, <1>2, <2>2 DEF Held, InHand
  <2>4. Chain(wire, Held(shift), Held(udr)', Ring', InHand)
          = Chain(wire, Held(shift), Held(udr), Ring, InHand)
    BY <2>2, <2>3, ChainOfPort, ToDataRegister DEF RingOK
  <2>5. (wire \o Held(shift) \o Held(udr) \o Ring \o InHand = accepted)'
    BY <1>1, <2>1, <2>3, <2>4, ChainOfPort DEF Chain
  <2>6. InvOrder
    BY <2>1 DEF PortInv
  <2> QED BY <1>1, <1>2, <2>1, <2>5, <2>6 DEF InvOrder, PortInv, InvHand, Carrying, TypeOK
<1>6. ASSUME setting'.prompt
      PROVE  InvTime'
  BY <1>1, <1>2, <1>6 DEF PortInv, TypeOK, InvTime, InvOrder, Work, Quiet, AtRing, Interrupts, UDRE
<1> QED BY <1>3, <1>4, <1>5, <1>6 DEF PortInv

LEMMA SetUDRIEStep ==
  ASSUME PortInv, Work, SetUDRIE
  PROVE  PortInv'
<1>1. TypeOK' /\ InvHand'
  BY RingOfTransmitter DEF PortInv, TypeOK, InvHand, Carrying, Work, SetUDRIE, ringVars, InWrite, Bytes, NoByte
<1>2. ASSUME ~ spurious'
      PROVE  InvOrder'
  <2>1. ~ spurious /\ InvOrder
    BY <1>2 DEF SetUDRIE, PortInv
  <2>2. UNCHANGED <<wire, shift, udr, Ring, InHand, accepted>>
    BY DEF SetUDRIE, ringVars, Ring, InHand, Held, PortInv, InvHand, Carrying
  <2>3. (wire \o Held(shift) \o Held(udr) \o Ring \o InHand = accepted)'
    BY <2>1, <2>2 DEF InvOrder
  <2> QED BY <2>1, <2>3 DEF InvOrder, PortInv, InvHand, Carrying, TypeOK, SetUDRIE, ringVars, UDRE
<1>3. ASSUME setting'.prompt
      PROVE  InvTime'
  BY <1>3 DEF PortInv, TypeOK, InvTime, InvOrder, Work, Quiet, AtRing, Interrupts, UDRE, SetUDRIE, ringVars
<1> QED BY <1>1, <1>2, <1>3 DEF PortInv

LEMMA SetWrittenStep ==
  ASSUME PortInv, Work, SetWritten
  PROVE  PortInv'
<1>1. TypeOK' /\ InvHand'
  BY RingOfTransmitter DEF PortInv, TypeOK, InvHand, Carrying, Work, SetWritten, ringVars, InWrite, Bytes, NoByte
<1>2. ASSUME ~ spurious'
      PROVE  InvOrder'
  <2>1. ~ spurious /\ InvOrder
    BY <1>2 DEF SetWritten, PortInv
  <2>2. UNCHANGED <<wire, shift, udr, Ring, InHand, accepted>>
    BY DEF SetWritten, ringVars, Ring, InHand, Held, PortInv, InvHand, Carrying
  <2>3. (wire \o Held(shift) \o Held(udr) \o Ring \o InHand = accepted)'
    BY <2>1, <2>2 DEF InvOrder
  <2> QED BY <2>1, <2>3 DEF InvOrder, PortInv, InvHand, Carrying, TypeOK, SetWritten, ringVars, UDRE
<1>3. ASSUME setting'.prompt
      PROVE  InvTime'
  BY <1>3 DEF PortInv, TypeOK, InvTime, InvOrder, Work, Quiet, AtRing, Interrupts, UDRE, SetWritten, ringVars
<1> QED BY <1>1, <1>2, <1>3 DEF PortInv

LEMMA StartFlushStep ==
  ASSUME PortInv, Work, StartFlush
  PROVE  PortInv'
<1>1. TypeOK' /\ InvHand'
  BY RingOfTransmitter DEF PortInv, TypeOK, InvHand, Carrying, Work, StartFlush, ringVars, InWrite, Bytes, NoByte
<1>2. ASSUME ~ spurious'
      PROVE  InvOrder'
  <2>1. ~ spurious /\ InvOrder
    BY <1>2 DEF StartFlush, PortInv
  <2>2. UNCHANGED <<wire, shift, udr, Ring, InHand, accepted>>
    BY DEF StartFlush, ringVars, Ring, InHand, Held, PortInv, InvHand, Carrying
  <2>3. (wire \o Held(shift) \o Held(udr) \o Ring \o InHand = accepted)'
    BY <2>1, <2>2 DEF InvOrder
  <2> QED BY <2>1, <2>3 DEF InvOrder, PortInv, InvHand, Carrying, TypeOK, StartFlush, ringVars, UDRE
<1>3. ASSUME setting'.prompt
      PROVE  InvTime'
  BY <1>3 DEF PortInv, TypeOK, InvTime, InvOrder, Work, Quiet, AtRing, Interrupts, UDRE, StartFlush, ringVars
<1> QED BY <1>1, <1>2, <1>3 DEF PortInv

LEMMA ReturnFromFlushStep ==
  ASSUME PortInv, Work, ReturnFromFlush
  PROVE  PortInv'
<1>1. TypeOK' /\ InvHand'
  BY RingOfTransmitter DEF PortInv, TypeOK, InvHand, Carrying, Work, ReturnFromFlush, ringVars, InWrite, Bytes, NoByte
<1>2. ASSUME ~ spurious'
      PROVE  InvOrder'
  <2>1. ~ spurious /\ InvOrder
    BY <1>2 DEF ReturnFromFlush, PortInv
  <2>2. UNCHANGED <<wire, shift, udr, Ring, InHand, accepted>>
    BY DEF ReturnFromFlush, ringVars, Ring, InHand, Held, PortInv, InvHand, Carrying
  <2>3. (wire \o Held(shift) \o Held(udr) \o Ring \o InHand = accepted)'
    BY <2>1, <2>2 DEF InvOrder
  <2> QED BY <2>1, <2>3 DEF InvOrder, PortInv, InvHand, Carrying, TypeOK, ReturnFromFlush, ringVars, UDRE
<1>3. ASSUME setting'.prompt
      PROVE  InvTime'
  BY <1>3 DEF PortInv, TypeOK, InvTime, InvOrder, Work, Quiet, AtRing, Interrupts, UDRE, ReturnFromFlush, ringVars
<1> QED BY <1>1, <1>2, <1>3 DEF PortInv

LEMMA ClearTXCStep ==
  ASSUME PortInv, Work, ClearTXC
  PROVE  PortInv'
<1>1. TypeOK' /\ InvHand'
  BY RingOfTransmitter DEF PortInv, TypeOK, InvHand, Carrying, Work, ClearTXC, ringVars, InWrite, Bytes, NoByte
<1>2. ASSUME ~ spurious'
      PROVE  InvOrder'
  <2>1. ~ spurious /\ InvOrder
    BY <1>2 DEF ClearTXC, PortInv
  <2>2. UNCHANGED <<wire, shift, udr, Ring, InHand, accepted>>
    BY DEF ClearTXC, ringVars, Ring, InHand, Held, PortInv, InvHand, Carrying
  <2>3. (wire \o Held(shift) \o Held(udr) \o Ring \o InHand = accepted)'
    BY <2>1, <2>2 DEF InvOrder
  <2> QED BY <2>1, <2>3 DEF InvOrder, PortInv, InvHand, Carrying, TypeOK, ClearTXC, ringVars, UDRE
<1>3. ASSUME setting'.prompt
      PROVE  InvTime'
  BY <1>3 DEF PortInv, TypeOK, InvTime, InvOrder, Work, Quiet, AtRing, Interrupts, UDRE, ClearTXC, ringVars
<1> QED BY <1>1, <1>2, <1>3 DEF PortInv

LEMMA StartWriteStep ==
  ASSUME PortInv, Work, StartWrite
  PROVE  PortInv'
<1>0. /\ c' \in Bytes /\ c' # NoByte /\ accepted' = Append(accepted, c')
      /\ accepted' \in Seq(Bytes) /\ Len(accepted') <= MaxWrites
  <2>1. Len(accepted) \in Nat /\ Len(accepted) < MaxWrites /\ c' = Len(accepted) + 1
        /\ accepted \in Seq(Bytes) /\ accepted' = Append(accepted, c') /\ MaxWrites \in Nat
    <3>1. accepted \in Seq(Bytes) /\ MaxWrites \in Nat
      BY RingOfTransmitter DEF PortInv, TypeOK
    <3>2. Len(accepted) \in Nat
      BY <3>1, LenProperties
    <3> QED BY <3>1, <3>2 DEF StartWrite
  <2>2. c' \in Bytes /\ c' # NoByte
    BY <2>1 DEF Bytes, NoByte
  <2>3. accepted' \in Seq(Bytes) /\ Len(accepted') = Len(accepted) + 1
    BY <2>1, <2>2, AppendProperties
  <2> QED BY <2>1, <2>2, <2>3
<1>1. TypeOK' /\ InvHand'
  BY <1>0, RingOfTransmitter DEF PortInv, TypeOK, InvHand, Carrying, Work, StartWrite, ringVars, InWrite, Bytes, NoByte
<1>2. ASSUME ~ spurious'
      PROVE  InvOrder'
  <2>1. ~ spurious /\ InvOrder
    BY <1>2 DEF StartWrite, PortInv
  <2>2. /\ UNCHANGED <<wire, shift, udr, Ring>> /\ InHand = <<>> /\ InHand' = <<c'>>
    BY <1>0 DEF StartWrite, ringVars, Ring, InHand, Held, PortInv, InvHand, Carrying
  <2>4. Chain(wire, Held(shift), Held(udr), Ring, <<c'>>)
          = Append(Chain(wire, Held(shift), Held(udr), Ring, <<>>), c')
    <3> DEFINE a == wire \o Held(shift) \o Held(udr) \o Ring
    <3>1. /\ wire \in Seq(Bytes) /\ Held(shift) \in Seq(Bytes)
          /\ Held(udr) \in Seq(Bytes) /\ Ring \in Seq(Bytes)
      BY ChainOfPort DEF RingOK
    <3>2. a \in Seq(Bytes) /\ c' \in Bytes
      BY <1>0, <3>1, ConcatProperties
    <3> HIDE DEF a
    <3>3. a \o <<c'>> = Append(a \o <<>>, c')
      BY <3>2, ToHand
    <3> QED BY <3>3 DEF Chain, a
  <2>3. (wire \o Held(shift) \o Held(udr) \o Ring \o InHand = accepted)'
    <3>1. Chain(wire, Held(shift), Held(udr), Ring, <<>>) = accepted
      BY <1>2, <2>1, <2>2, ChainOfPort DEF StartWrite
    <3>2. Chain(wire, Held(shift), Held(udr), Ring, <<c'>>) = accepted'
      BY <1>0, <2>4, <3>1
    <3>3. Chain(wire, Held(shift), Held(udr), Ring, InHand)' = accepted'
      BY <2>2, <3>2 DEF Held, Chain
    <3> QED BY <3>3 DEF Chain
  <2> QED BY <2>1, <2>3 DEF InvOrder, PortInv, InvHand, Carrying, TypeOK, StartWrite, ringVars, UDRE
<1>3. ASSUME setting'.prompt
      PROVE  InvTime'
  BY <1>3 DEF PortInv, TypeOK, InvTime, InvOrder, Work, Quiet, AtRing, Interrupts, UDRE, StartWrite, ringVars
<1> QED BY <1>1, <1>2, <1>3 DEF PortInv

LEMMA StoreUDRStep ==
  ASSUME PortInv, Work, StoreUDR
  PROVE  PortInv'
<1>1. TypeOK' /\ InvHand'
  BY RingOfTransmitter DEF PortInv, TypeOK, InvHand, Carrying, Work, StoreUDR, ringVars, InWrite, Bytes, NoByte
<1>2. ASSUME ~ spurious'
      PROVE  InvOrder'
  <2>1. ~ spurious /\ InvOrder
    BY <1>2 DEF StoreUDR, PortInv
  <2>2. /\ UNCHANGED <<wire, shift, Ring, accepted>> /\ c \in Bytes /\ c # NoByte
        /\ InHand = <<c>> /\ Held(udr) = <<>> /\ InHand' = <<>> /\ Held(udr)' = <<c>>
    BY <2>1 DEF StoreUDR, ringVars, Ring, InHand, Held, PortInv, InvHand, InvOrder, Carrying, TypeOK, UDRE
  <2>4. Ring = <<>>
    BY <2>1, ChainOfPort DEF StoreUDR, RingOK, InvOrder
  <2>5. Chain(wire, Held(shift), <<c>>, <<>>, <<>>) = Chain(wire, Held(shift), <<>>, <<>>, <<c>>)
    BY <2>2, PastRing, ChainOfPort
  <2>3. (wire \o Held(shift) \o Held(udr) \o Ring \o InHand = accepted)'
    BY <2>1, <2>2, <2>4, <2>5, ChainOfPort DEF Chain
  <2> QED BY <2>1, <2>3 DEF InvOrder, PortInv, InvHand, Carrying, TypeOK, StoreUDR, ringVars, UDRE
<1>3. ASSUME setting'.prompt
      PROVE  InvTime'
  BY <1>3 DEF PortInv, TypeOK, InvTime, InvOrder, Work, Quiet, AtRing, Interrupts, UDRE, StoreUDR, ringVars
<1> QED BY <1>1, <1>2, <1>3 DEF PortInv

LEMMA StoreByteStep ==
  ASSUME PortInv, Work, StoreByte
  PROVE  PortInv'
<1>1. TypeOK' /\ InvHand'
  BY RingOfTransmitter DEF PortInv, TypeOK, InvHand, Carrying, Work, StoreByte, ringVars, InWrite, Bytes, NoByte
<1>2. ASSUME ~ spurious'
      PROVE  InvOrder'
  <2>1. ~ spurious /\ InvOrder
    BY <1>2 DEF StoreByte, PortInv
  <2>2. UNCHANGED <<wire, shift, udr, InHand, accepted, tx_head, tx_tail, c>> /\ c \in Bytes
    BY DEF StoreByte, ringVars, InHand, Held, PortInv, InvHand, Carrying, TypeOK
  <2>4. Ring' = Ring
    BY <1>1, <2>2, StoreKeepsRing DEF PortInv, StoreByte
  <2>3. (wire \o Held(shift) \o Held(udr) \o Ring \o InHand = accepted)'
    BY <2>1, <2>2, <2>4 DEF InvOrder
  <2> QED BY <2>1, <2>3 DEF InvOrder, PortInv, InvHand, Carrying, TypeOK, StoreByte, ringVars, UDRE
<1>3. ASSUME setting'.prompt
      PROVE  InvTime'
  BY <1>3 DEF PortInv, TypeOK, InvTime, InvOrder, Work, Quiet, AtRing, Interrupts, UDRE, StoreByte, ringVars
<1> QED BY <1>1, <1>2, <1>3 DEF PortInv

LEMMA MoveHeadStep ==
  ASSUME PortInv, Work, MoveHead
  PROVE  PortInv'
<1>0. /\ After(tx_head) # tx_head
      /\ After(tx_head) = After(tx_tail) => tx_head = tx_tail
  BY AfterIsNext DEF PortInv, TypeOK
<1>1. TypeOK' /\ InvHand'
  BY RingOfTransmitter DEF PortInv, TypeOK, InvHand, Carrying, Work, MoveHead, ringVars, InWrite, Bytes, NoByte
<1>2. ASSUME ~ spurious'
      PROVE  InvOrder'
  <2>1. ~ spurious /\ InvOrder
    BY <1>2 DEF MoveHead, PortInv
  <2>2. /\ UNCHANGED <<wire, shift, udr, accepted, tx_buffer, tx_tail>> /\ c \in Bytes
        /\ tx_head' = After(tx_head) /\ After(tx_head) # tx_tail /\ tx_buffer[tx_head] = c
        /\ InHand = <<c>> /\ InHand' = <<>>
    BY <2>1 DEF MoveHead, InHand, Held, PortInv, InvHand, InvOrder, Carrying, TypeOK
  <2>4. Ring' = Append(Ring, c)
    BY <1>1, <2>2, MoveAppends DEF PortInv
  <2>5. Chain(wire, Held(shift), Held(udr), Append(Ring, c), <<>>)
          = Chain(wire, Held(shift), Held(udr), Ring, <<c>>)
    BY <2>2, ToRing, ChainOfPort DEF RingOK
  <2>3. (wire \o Held(shift) \o Held(udr) \o Ring \o InHand = accepted)'
    BY <2>1, <2>2, <2>4, <2>5, ChainOfPort DEF Chain
  <2> QED BY <2>1, <2>3 DEF InvOrder, PortInv, InvHand, Carrying, TypeOK, MoveHead, ringVars, UDRE
<1>3. ASSUME setting'.prompt
      PROVE  InvTime'
  BY <1>0, <1>3 DEF PortInv, TypeOK, InvTime, InvOrder, Work, Quiet, AtRing, Interrupts, UDRE, MoveHead, ringVars
<1> QED BY <1>1, <1>2, <1>3 DEF PortInv

LEMMA LoadShiftStep ==
  ASSUME PortInv, Work, LoadShift
  PROVE  PortInv'
<1>0. /\ After(tx_head) # tx_head
      /\ After(tx_head) = After(tx_tail) => tx_head = tx_tail
  BY AfterIsNext DEF PortInv, TypeOK
<1>1. TypeOK' /\ InvHand'
  BY RingOfTransmitter DEF PortInv, TypeOK, InvHand, Carrying, Work, LoadShift, ringVars, InWrite, Bytes, NoByte
<1>2. ASSUME ~ spurious'
      PROVE  InvOrder'
  <2>1. ~ spurious /\ InvOrder
    BY <1>2 DEF LoadShift, PortInv
  <2>2. /\ UNCHANGED <<wire, Ring, InHand, accepted>> /\ udr \in Bytes
        /\ Held(shift) = <<>> /\ Held(udr) = <<udr>> /\ Held(shift)' = <<udr>> /\ Held(udr)' = <<>>
    BY DEF LoadShift, ringVars, Ring, InHand, Held, PortInv, TypeOK, UDRE
  <2>4. Chain(wire, <<udr>>, <<>>, Ring, InHand) = Chain(wire, <<>>, <<udr>>, Ring, InHand)
    BY <2>2, ToShift, ChainOfPort DEF RingOK
  <2>3. (wire \o Held(shift) \o Held(udr) \o Ring \o InHand = accepted)'
    BY <2>1, <2>2, <2>4, ChainOfPort DEF Chain
  <2> QED BY <2>1, <2>3 DEF InvOrder, PortInv, InvHand, Carrying, TypeOK, LoadShift, ringVars, UDRE
<1>3. ASSUME setting'.prompt
      PROVE  InvTime'
  BY <1>0, <1>3 DEF PortInv, TypeOK, InvTime, InvOrder, Work, Quiet, AtRing, Interrupts, UDRE, LoadShift, ringVars
<1> QED BY <1>1, <1>2, <1>3 DEF PortInv

LEMMA EndFrameStep ==
  ASSUME PortInv, Work, EndFrame
  PROVE  PortInv'
<1>0. shift \in Bytes /\ Append(wire, shift) \in Seq(Bytes)
  <2>1. shift \in Bytes /\ wire \in Seq(Bytes)
    BY DEF EndFrame, PortInv, TypeOK
  <2> QED BY <2>1, AppendProperties
<1>1. TypeOK' /\ InvHand'
  BY <1>0, RingOfTransmitter DEF PortInv, TypeOK, InvHand, Carrying, Work, EndFrame, ringVars, InWrite, Bytes, NoByte
<1>2. ASSUME ~ spurious'
      PROVE  InvOrder'
  <2>1. ~ spurious /\ InvOrder
    BY <1>2 DEF EndFrame, PortInv
  <2>2. /\ UNCHANGED <<udr, Ring, InHand, accepted>> /\ shift \in Bytes
        /\ wire' = Append(wire, shift) /\ Held(shift) = <<shift>> /\ Held(shift)' = <<>>
    BY DEF EndFrame, ringVars, Ring, InHand, Held, PortInv, TypeOK
  <2>4. Chain(Append(wire, shift), <<>>, Held(udr), Ring, InHand)
          = Chain(wire, <<shift>>, Held(udr), Ring, InHand)
    BY <2>2, ToWire, ChainOfPort DEF RingOK
  <2>3. (wire \o Held(shift) \o Held(udr) \o Ring \o InHand = accepted)'
    BY <2>1, <2>2, <2>4, ChainOfPort DEF Chain
  <2> QED BY <2>1, <2>3 DEF InvOrder, PortInv, InvHand, Carrying, TypeOK, EndFrame, ringVars, UDRE
<1>3. ASSUME setting'.prompt
      PROVE  InvTime'
  BY <1>3 DEF PortInv, TypeOK, InvTime, InvOrder, Work, Quiet, AtRing, Interrupts, UDRE, EndFrame, ringVars
<1> QED BY <1>1, <1>2, <1>3 DEF PortInv

LEMMA RoomStep ==
  ASSUME PortInv, Work, WaitForRoom, After(tx_head) # tx_tail
  PROVE  PortInv'
<1>1. TypeOK' /\ InvHand'
  BY RingOfTransmitter DEF PortInv, TypeOK, InvHand, Carrying, Work, WaitForRoom, ringVars, InWrite, Bytes, NoByte
<1>2. ASSUME ~ spurious'
      PROVE  InvOrder'
  <2>1. ~ spurious /\ InvOrder
    BY <1>2 DEF WaitForRoom, PortInv
  <2>2. UNCHANGED <<wire, shift, udr, Ring, InHand, accepted>>
    BY DEF WaitForRoom, ringVars, Ring, InHand, Held, PortInv, InvHand, Carrying
  <2>3. (wire \o Held(shift) \o Held(udr) \o Ring \o InHand = accepted)'
    BY <2>1, <2>2 DEF InvOrder
  <2> QED BY <2>1, <2>3 DEF InvOrder, PortInv, InvHand, Carrying, TypeOK, WaitForRoom, ringVars, UDRE
<1>3. ASSUME setting'.prompt
      PROVE  InvTime'
  BY <1>3 DEF PortInv, TypeOK, InvTime, InvOrder, Work, Quiet, AtRing, Interrupts, UDRE, WaitForRoom, ringVars
<1> QED BY <1>1, <1>2, <1>3 DEF PortInv

LEMMA FlushedStep ==
  ASSUME PortInv, Work, Flush, ~ udrie /\ txc
  PROVE  PortInv'
<1>1. TypeOK' /\ InvHand'
  BY RingOfTransmitter DEF PortInv, TypeOK, InvHand, Carrying, Work, Flush, ringVars, InWrite, Bytes, NoByte
<1>2. ASSUME ~ spurious'
      PROVE  InvOrder'
  <2>1. ~ spurious /\ InvOrder
    BY <1>2 DEF Flush, PortInv
  <2>2. UNCHANGED <<wire, shift, udr, Ring, InHand, accepted>>
    BY DEF Flush, ringVars, Ring, InHand, Held, PortInv, InvHand, Carrying
  <2>3. (wire \o Held(shift) \o Held(udr) \o Ring \o InHand = accepted)'
    BY <2>1, <2>2 DEF InvOrder
  <2> QED BY <2>1, <2>3 DEF InvOrder, PortInv, InvHand, Carrying, TypeOK, Flush, ringVars, UDRE
<1>3. ASSUME setting'.prompt
      PROVE  InvTime'
  BY <1>3 DEF PortInv, TypeOK, InvTime, InvOrder, Work, Quiet, AtRing, Interrupts, UDRE, Flush, ringVars
<1> QED BY <1>1, <1>2, <1>3 DEF PortInv

\* A step of RS485 that leaves the port alone.
Still ==
  UNCHANGED <<udrie, txc, udr, shift, ringVars, written, pc, c, accepted, wire, spurious>>

LEMMA StillStep ==
  ASSUME PortInv, Work, Still
  PROVE  PortInv'
<1>0. After(tx_head) # tx_head
  BY AfterIsNext DEF PortInv, TypeOK
<1>1. TypeOK' /\ InvHand'
  BY RingOfTransmitter DEF PortInv, TypeOK, InvHand, Carrying, Work, Still, ringVars, InWrite, Bytes, NoByte
<1>2. ASSUME ~ spurious'
      PROVE  InvOrder'
  <2>1. ~ spurious /\ InvOrder
    BY <1>2 DEF Still, PortInv
  <2>2. UNCHANGED <<wire, shift, udr, Ring, InHand, accepted>>
    BY DEF Still, ringVars, Ring, InHand, Held, PortInv, InvHand, Carrying
  <2>3. (wire \o Held(shift) \o Held(udr) \o Ring \o InHand = accepted)'
    BY <2>1, <2>2 DEF InvOrder
  <2> QED BY <2>1, <2>3 DEF InvOrder, PortInv, InvHand, Carrying, TypeOK, Still, ringVars, UDRE
<1>3. ASSUME setting'.prompt
      PROVE  InvTime'
  BY <1>0, <1>3 DEF PortInv, TypeOK, InvTime, InvOrder, Work, Quiet, AtRing, Interrupts, UDRE, Still, ringVars
<1> QED BY <1>1, <1>2, <1>3 DEF PortInv

PortStep ==
  \/ StartWrite \/ WriteStep \/ StartFlush \/ Flush \/ ReturnFromFlush
  \/ LoadShift \/ EndFrame \/ Isr \/ Still

\* One lemma per action; a loop that polls calls the interrupt's routine.
LEMMA PortNext ==
  ASSUME PortInv, Work, PortStep
  PROVE  PortInv'
<1>1. CASE WaitForRoom /\ After(tx_head) = tx_tail
  <2>1. ~ Interrupts /\ UDRE /\ TxUdrEmptyIrq /\ UNCHANGED <<pc, c>> /\ pc = "wait"
    BY <1>1 DEF WaitForRoom
  <2> QED BY <1>1, <2>1, IrqStep
<1>2. CASE Flush /\ ~ (~ udrie /\ txc)
  <2>1. ~ Interrupts /\ udrie /\ UDRE /\ TxUdrEmptyIrq /\ UNCHANGED <<pc, c>> /\ pc = "flush"
    BY <1>2 DEF Flush
  <2> QED BY <2>1, IrqStep
<1>3. CASE Isr
  BY <1>3, IrqStep DEF Isr
<1>4. CASE StartWrite \/ StartFlush \/ ReturnFromFlush \/ LoadShift \/ EndFrame \/ Still
  BY <1>4, StartWriteStep, StartFlushStep, ReturnFromFlushStep, LoadShiftStep,
     EndFrameStep, StillStep
<1>5. CASE StoreUDR \/ ClearTXC \/ StoreByte \/ MoveHead \/ SetUDRIE \/ SetWritten
  BY <1>5, StoreUDRStep, ClearTXCStep, StoreByteStep, MoveHeadStep, SetUDRIEStep,
     SetWrittenStep
<1>6. CASE WaitForRoom /\ After(tx_head) # tx_tail
  BY <1>6, RoomStep
<1>7. CASE Flush /\ ~ udrie /\ txc
  BY <1>7, FlushedStep
<1> QED BY <1>1, <1>2, <1>3, <1>4, <1>5, <1>6, <1>7 DEF PortStep, WriteStep

LEMMA PortStutter ==
  ASSUME PortInv, UNCHANGED txVars
  PROVE  PortInv'
BY DEF PortInv, TypeOK, InvHand, InvOrder, InvTime, InHand, Ring, Interrupts,
       txVars, regVars, ringVars

-----------------------------------------------------------------------------
(* The port in the standalone build. *)

THEOREM PortInvariant == TxSpec => []PortInv
<1>1. TxInit => PortInv
  BY PortInit
<1>2. PortInv /\ [TxNext]_txVars => PortInv'
  <2> SUFFICES ASSUME PortInv, [TxNext]_txVars PROVE PortInv'
    OBVIOUS
  <2>1. CASE UNCHANGED txVars
    BY <2>1, PortStutter
  <2>2. CASE PortStep /\ CountWork
    <3>1. Work
      BY <2>2 DEF CountWork, Work
    <3> QED BY <2>2, <3>1, PortNext
  <2> QED BY <2>1, <2>2 DEF TxNext, Main, Spin, Transmit, Serve, PortStep
<1> QED BY <1>1, <1>2, PTL DEF TxSpec

LEMMA PortIsCorrect == PortInv => ExactlyOnceInOrder /\ FlushedMeansSent
<1> SUFFICES ASSUME PortInv PROVE ExactlyOnceInOrder /\ FlushedMeansSent
  OBVIOUS
<1>1. ExactlyOnceInOrder
  BY DEF PortInv, InvOrder, InvTime, ExactlyOnceInOrder
<1>2. ASSUME pc = "flushed", ~ spurious
      PROVE  wire = accepted
  <2>1. InvOrder
    BY <1>2 DEF PortInv
  <2>2. shift = NoByte /\ udr = NoByte /\ tx_head = tx_tail /\ c = NoByte
    BY <1>2, <2>1 DEF InvOrder, PortInv, InvHand, Carrying
  <2>3. Held(shift) = <<>> /\ Held(udr) = <<>> /\ InHand = <<>> /\ Ring = <<>>
    BY <1>2, <2>2, ChainOfPort DEF Held, InHand, RingOK
  <2> QED BY <1>2, <2>3, ChainOfPort, AllOnWire
<1> QED BY <1>1, <1>2 DEF FlushedMeansSent

\* Whatever the interrupt falls between, and whether or not interrupts are
\* enabled, every byte given to write() leaves the shift register once and in
\* order, unless the CPU was held up for a whole frame.
THEOREM BytesLeaveInOrder == TxSpec => []ExactlyOnceInOrder
BY PortInvariant, PortIsCorrect, PTL

\* When flush() comes back, all that was written is on the wire.
THEOREM FlushWaitsForAll == TxSpec => []FlushedMeansSent
BY PortInvariant, PortIsCorrect, PTL

-----------------------------------------------------------------------------
(* The bus. *)

\* With the driver off the port is at rest and the transmitter, if the CPU is not
\* held up, empty.
BusInv ==
  /\ PortInv /\ BusTypeOK
  /\ write_pin = "LOW" <=> rs_pc = "idle"
  /\ rs_pc # "send" => pc = "idle"
  /\ setting = Timely /\ write_pin = "LOW" =>
       tx_head = tx_tail /\ shift = NoByte /\ udr = NoByte

LEMMA BusStep ==
  ASSUME BusInv, PortInv', Work, PortStep,
         \/ BusMain \/ InPort
         \/ \E length \in 1 .. MaxWrites : Send(length)
  PROVE  BusInv'
<1>1. TypeOK' /\ setting' = setting /\ MaxWrites \in Nat
  BY RingOfTransmitter DEF PortInv, Work
<1>2. CASE \E length \in 1 .. MaxWrites : Send(length)
  BY <1>1, <1>2 DEF BusInv, BusTypeOK, Send
<1>3. CASE SendNext
  <2>1. rs_pc = "send" /\ left > 0 /\ left' = left - 1 /\ UNCHANGED <<write_pin, rs_pc>>
    BY <1>3 DEF SendNext
  <2>2. left' \in 0 .. MaxWrites
    BY <1>1, <2>1 DEF BusInv, BusTypeOK
  <2> QED BY <1>1, <2>1, <2>2 DEF BusInv, BusTypeOK
<1>4. CASE SentAll
  BY <1>1, <1>4 DEF BusInv, BusTypeOK, SentAll
<1>5. CASE Release
  <2>1. /\ pc = "idle" /\ txc /\ UNCHANGED <<tx_head, tx_tail, shift, udr, pc>>
        /\ rs_pc' = "idle" /\ write_pin' = "LOW" /\ left' = left
    BY <1>5 DEF BusInv, Release, ringVars
  <2>2. ASSUME setting = Timely
        PROVE  tx_head = tx_tail /\ shift = NoByte /\ udr = NoByte
    <3>1. InvTime /\ InvOrder /\ Interrupts
      BY <2>2 DEF BusInv, PortInv, InvTime, Timely, Interrupts
    <3> QED BY <2>1, <3>1 DEF InvTime, InvOrder
  <2> QED BY <1>1, <2>1, <2>2 DEF BusInv, BusTypeOK
<1>6. CASE InPort
  <2>1. UNCHANGED <<write_pin, rs_pc, left>>
    BY <1>6 DEF InPort, busVars
  <2>2. rs_pc # "send" => LoadShift \/ EndFrame \/ Isr
    BY <1>6 DEF InPort, BusInv, WriteStep, StoreUDR, ClearTXC, WaitForRoom, StoreByte,
                MoveHead, SetUDRIE, SetWritten
  <2>3. rs_pc # "send" => pc' = "idle"
    BY <2>2 DEF BusInv, LoadShift, EndFrame, Isr
  <2>4. ASSUME setting = Timely, write_pin = "LOW"
        PROVE  FALSE
    <3>1. ~ udrie /\ shift = NoByte /\ udr = NoByte
      BY <2>4 DEF BusInv, PortInv, InvTime, Timely
    <3>2. rs_pc # "send"
      BY <2>4 DEF BusInv
    <3> QED BY <2>2, <3>1, <3>2 DEF LoadShift, EndFrame, Isr, UDRE
  <2> QED BY <1>1, <2>1, <2>3, <2>4 DEF BusInv, BusTypeOK
<1> QED BY <1>2, <1>3, <1>4, <1>5, <1>6 DEF BusMain

THEOREM BusInvariant == Spec => []BusInv
<1>1. Init => BusInv
  <2> SUFFICES ASSUME Init PROVE BusInv
    OBVIOUS
  <2>1. PortInv /\ MaxWrites \in Nat
    BY PortInit, RingOfTransmitter DEF Init
  <2> QED BY <2>1 DEF BusInv, BusTypeOK, PortInv, Init, TxInit
<1>2. BusInv /\ [Next]_vars => BusInv'
  <2> SUFFICES ASSUME BusInv, [Next]_vars PROVE BusInv'
    OBVIOUS
  <2>1. CASE UNCHANGED vars
    <3>1. UNCHANGED txVars /\ UNCHANGED <<write_pin, rs_pc, left>>
      BY <2>1 DEF vars, busVars
    <3>2. PortInv'
      BY <3>1, PortStutter DEF BusInv
    <3>3. TypeOK'
      BY <3>2 DEF PortInv
    <3> QED BY <3>1, <3>2, <3>3
            DEF BusInv, BusTypeOK, txVars, regVars, ringVars
  <2>2. CASE /\ \/ \E length \in 1 .. MaxWrites : Send(length)
                \/ BusMain \/ InPort
             /\ CountBusWork
    <3>1. Work
      BY <2>2 DEF CountBusWork, BusQuiet, Work
    <3>2. PortStep
      BY <2>2 DEF BusMain, InPort, Send, SendNext, SentAll, Release, PortStep, Still
    <3>3. PortInv'
      BY <3>1, <3>2, PortNext DEF BusInv
    <3> QED BY <2>2, <3>1, <3>2, <3>3, BusStep
  <2> QED BY <2>1, <2>2 DEF Next, Elsewhere
<1> QED BY <1>1, <1>2, PTL DEF Spec

\* The types of the port and of the bus above it, in every setting.
THEOREM BusTyped == Spec => []BusTypeOK
BY BusInvariant, PTL DEF BusInv

\* Under RS485, too, no byte is lost, doubled or overtaken.
THEOREM BusKeepsOrder == Spec => []ExactlyOnceInOrder
BY BusInvariant, PortIsCorrect, PTL DEF BusInv

\* In the slave, whose interrupts are enabled and which is not held up for a
\* frame, the driver goes off only when every byte given to the port is on the
\* wire.
THEOREM BusIsHeldLongEnough == Spec /\ setting = Timely => []DrivesWhatItSends
<1>1. BusInv /\ setting = Timely => DrivesWhatItSends
  <2> SUFFICES ASSUME BusInv, setting = Timely, write_pin = "LOW", ~ spurious
               PROVE  wire = accepted
    BY DEF DrivesWhatItSends
  <2>1. shift = NoByte /\ udr = NoByte /\ tx_head = tx_tail /\ c = NoByte /\ PortInv
    BY DEF BusInv, PortInv, InvHand, Carrying
  <2>2. Held(shift) = <<>> /\ Held(udr) = <<>> /\ InHand = <<>> /\ Ring = <<>>
    BY <2>1, ChainOfPort DEF Held, InHand, RingOK
  <2> QED BY <2>1, <2>2, ChainOfPort, AllOnWire
<1>2. setting = Timely /\ [Next]_vars => (setting = Timely)'
  BY DEF Next, Elsewhere, CountBusWork, vars, txVars
<1> QED BY <1>1, <1>2, BusInvariant, PTL DEF Spec
===============================================================================
