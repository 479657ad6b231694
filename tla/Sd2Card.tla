------------------------------- MODULE Sd2Card -------------------------------
(***************************************************************************)
(* The driver of the SD card (Modules/SD/Sd2Card.cpp) and the card at the  *)
(* other end of the SPI bus.  A call of the driver is one step: nothing    *)
(* else runs on the bus until it returns.  What can go wrong within it is  *)
(* chosen before: the exchange that goes unanswered or is refused, alone   *)
(* or with all that follow; the programming of a block that fails; and how *)
(* long the card stays busy, which may be longer than the driver waits.    *)
(*                                                                         *)
(* A routine is an operator from a machine m to the machine it leaves: ok  *)
(* is its return value, val the byte that was received.  A busy card holds *)
(* the line low, and a low line reads as the answer 0, "ready".            *)
(*                                                                         *)
(* Time is counted in units of 300 ms.                                     *)
(***************************************************************************)
EXTENDS Integers, Sequences, FiniteSets, TLC

CONSTANTS
  LastBlock,    \* of the card
  Data,         \* what a caller may write
  Size,         \* pieces of a block: 512 bytes
  SdCards,      \* cards in the slot: [kind |-> "SD1", "SD2" or "SDHC", c_size and single |-> of its CSD]
  Rates,        \* clock rates that init is asked for
  Careless,     \* whether a caller with an open block asks for what is refused at once
  EraseWait,    \* SD_ERASE_TIMEOUT: 33 units
  MaxExchanges, \* bound: exchanges before the one that goes wrong
  Durations     \* bound: units the card stays busy

ASSUME CardAssumption ==
  /\ LastBlock \in Nat /\ Size \in Nat \ {0} /\ EraseWait \in Nat
  /\ Durations \subseteq Nat /\ Rates \subseteq Nat /\ MaxExchanges \in Nat

VARIABLES
  blocks,       \* what the card holds
  call,         \* history: the last call, with its answer
  drv,          \* the members of Sd2Card, and its chip select
  sd_card,      \* state of the card
  slot,         \* which of SdCards it is
  ready,        \* the last init returned true
  streaming     \* next block of the sequence its caller writes, or -1

sdVars == <<blocks, call, drv, sd_card, slot, ready, streaming>>

Blocks == 0 .. LastBlock
Asked == 0 .. LastBlock + 1
Device == INSTANCE BlockDevice WITH Erased <- "erased", Torn <- "torn", Pieces <- Size

CommandWait == 1     \* 300 ms
WriteWait == 2       \* SD_WRITE_TIMEOUT
InitTries == 7       \* SD_INIT_TIMEOUT

NewDriver == [type |-> "none", inBlock |-> FALSE, block |-> 0, offset |-> 0,
              partial |-> FALSE, cs |-> "high", divider |-> 128]
NewCard == [phase |-> "off", at |-> 0, to |-> 0, pos |-> 0, busy |-> 0, spoilt |-> FALSE]

SdInit ==
  /\ blocks = [b \in Blocks |-> "erased"] /\ call = Device!Call("none", 0, 0, TRUE, <<>>)
  /\ drv = NewDriver /\ sd_card = NewCard /\ slot \in SdCards
  /\ ready = FALSE /\ streaming = -1

Then(m, F(_)) == IF m.ok THEN F(m) ELSE m
ChipSelectHigh(m) == [m EXCEPT !.drv.cs = "high"]
Fail(m) == [ChipSelectHigh(m) EXCEPT !.ok = FALSE]

-----------------------------------------------------------------------------
(* The card. *)

SelectedIn(m, phases) == m.drv.cs = "low" /\ m.card.phase \in phases /\ m.card.busy = 0

\* An SDHC card counts blocks, the others bytes.
BlockAt(arg) ==
  IF slot.kind = "SDHC" THEN arg
  ELSE IF arg % 512 = 0 THEN arg \div 512 ELSE LastBlock + 1

Says(m, val) == [m EXCEPT !.val = val]
Goes(m, phase, at) == Says([m EXCEPT !.card.phase = phase, !.card.at = at, !.card.pos = 0], "ready")

SdObey(m, cmd, arg) ==
  LET phase == m.card.phase
      OnBlock(next) ==
        IF BlockAt(arg) \in Blocks THEN Goes(m, next, BlockAt(arg)) ELSE Says(m, "error")
  IN  IF cmd = "CMD0" THEN Says([m EXCEPT !.card = [NewCard EXCEPT !.phase = "idle"]], "idle")
      ELSE IF phase = "off" THEN Says(m, "none")
      ELSE IF phase = "multi" THEN Says(m, "error")
      ELSE IF phase = "idle" /\ cmd \notin {"CMD55", "ACMD41"}
        THEN Says(m, IF cmd = "CMD8" /\ slot.kind # "SD1" THEN "idle" ELSE "illegal")
      ELSE CASE cmd = "CMD55" -> Says(m, IF phase = "idle" THEN "idle" ELSE "ready")
        [] cmd = "ACMD41" ->
             IF slot.kind = "SDHC" /\ ~ arg THEN Says(m, "idle") ELSE Goes(m, "ready", 0)
        [] cmd = "CMD8" -> Says(m, "illegal")
        [] cmd = "CMD17" -> OnBlock("sending")
        [] cmd = "CMD24" -> OnBlock("receiving")
        [] cmd = "CMD25" -> OnBlock("multi")
        [] cmd = "CMD32" -> OnBlock("ready")
        [] cmd = "CMD33" ->
             IF BlockAt(arg) \in Blocks THEN Says([m EXCEPT !.card.to = BlockAt(arg)], "ready")
             ELSE Says(m, "error")
        [] cmd = "CMD38" ->
             [Goes(m, "ready", 0) EXCEPT
                !.blocks = [b \in Blocks |-> IF b \in m.card.at .. m.card.to THEN "erased" ELSE @[b]],
                !.card.to = 0, !.card.busy = m.duration]
        [] OTHER -> Says(m, "ready")       \* CMD9, CMD13, ACMD23, CMD58

\* One exchange: it goes wrong, or a busy card holds the line low, or it is Heard.
Exchange(m, Heard(_)) ==
  IF m.io = 0
    THEN [m EXCEPT !.val = m.wrong, !.hit = TRUE, !.io = IF m.lasting THEN 0 ELSE -1]
    ELSE LET n == [m EXCEPT !.io = IF @ > 0 THEN @ - 1 ELSE @]
         IN  IF n.card.busy > 0 THEN Says(n, "ready") ELSE Heard(n)

\* n pieces are clocked out of the card: of the block and then its checksum.
Line(m, n) ==
  [i \in 1 .. n |->
     IF SelectedIn(m, {"sending"}) THEN <<m.blocks[m.card.at], m.card.pos + i - 1>>
     ELSE <<"high", 0>>]
Clock(m, n) ==
  IF ~ SelectedIn(m, {"sending"}) THEN m
  ELSE IF m.card.pos + n > Size THEN [m EXCEPT !.card.phase = "ready", !.card.pos = 0, !.card.at = 0]
  ELSE [m EXCEPT !.card.pos = @ + n]

\* A block reaches the card, which takes it and starts to program it.
TakeBlock(m, d) ==
  IF ~ SelectedIn(m, {"receiving", "multi"}) \/ m.card.at \notin Blocks THEN Says(m, "none")
  ELSE [m EXCEPT !.val = "accepted",
                 !.blocks[m.card.at] = IF m.programmed THEN d ELSE "torn",
                 !.card.spoilt = ~ m.programmed,
                 !.card.busy = m.duration,
                 !.card.phase = IF @ = "multi" THEN @ ELSE "ready",
                 !.card.at = IF m.card.phase = "multi" THEN @ + 1 ELSE 0]

-----------------------------------------------------------------------------
(* The routines that the calls are made of. *)

waitNotBusy(m, timeout) ==
  [m EXCEPT !.card.busy = IF @ > timeout THEN @ - timeout ELSE 0, !.ok = m.card.busy <= timeout]

\* Mistake: the card stays selected after the rest of the block.
readEndSelected(m) ==
  IF ~ m.drv.inBlock THEN m
  ELSE [Clock(m, Size + 1 - m.drv.offset) EXCEPT
          !.drv.inBlock = FALSE, !.drv.offset = 0, !.drv.block = 0]

\* The rest of an open block and its checksum are read and dropped.  offset_
\* means nothing then.
readEnd(m) ==
  IF ~ m.drv.inBlock THEN m
  ELSE ChipSelectHigh([Clock(m, Size + 1 - m.drv.offset) EXCEPT
                         !.drv.inBlock = FALSE, !.drv.offset = 0, !.drv.block = 0])

\* Whether the card is still busy after the wait is not looked at.
cardCommand(m, cmd, arg) ==
  LET selected == [readEnd(m) EXCEPT !.drv.cs = "low"]
      waited == [waitNotBusy(selected, CommandWait) EXCEPT !.ok = TRUE]
  IN  Exchange(waited, LAMBDA h : SdObey(h, cmd, arg))

\* A command that must be answered "ready".
Require(m, cmd, arg) ==
  LET c == cardCommand(m, cmd, arg) IN IF c.val = "ready" THEN c ELSE Fail(c)
cardAcmd(m, cmd, arg) == cardCommand(cardCommand(m, "CMD55", 0), cmd, arg)

waitStartBlock(m) ==
  LET t == Exchange(m, LAMBDA h : Says(h, "start"))
  IN  IF t.val = "start" THEN t ELSE Fail(t)

Address(m, b) == IF m.drv.type = "SDHC" THEN b ELSE b * 512

\* The CSD, whose data the card sends like those of a block.
readRegister(m) ==
  Then(Require(m, "CMD9", 0), LAMBDA c : Then(waitStartBlock(c), LAMBDA w : ChipSelectHigh(w)))

-----------------------------------------------------------------------------
(* The calls, from a machine to a machine. *)

Try(m, cmd) ==
  IF cmd = "CMD0" THEN cardCommand(m, cmd, 0) ELSE cardAcmd(m, cmd, m.drv.type = "SD2")

\* The loops of init: again until the answer is the one wanted, or the time is up.
Until(m, cmd, wanted) ==
  LET after[n \in 1 .. InitTries] ==
        IF n = 1 THEN Try(m, cmd)
        ELSE LET m1 == after[n - 1] IN IF m1.val = wanted THEN m1 ELSE Try(m1, cmd)
      end == after[InitTries]
  IN  IF end.val = wanted THEN end ELSE Fail(end)

setSckRate(m, rate) ==
  IF rate > 6 THEN [m EXCEPT !.ok = FALSE] ELSE [m EXCEPT !.drv.divider = 2 * 2 ^ rate]

\* An answer without the bit of an illegal command must come with the echo of
\* the pattern, which only a card that obeyed sends.
checkVersion(m) ==
  LET c == cardCommand(m, "CMD8", 426)
  IN  IF c.val \in {"illegal", "none"} THEN [c EXCEPT !.drv.type = "SD1"]
      ELSE IF c.val = "idle" THEN [c EXCEPT !.drv.type = "SD2"] ELSE Fail(c)

\* Mistake: the answer to CMD58 is not looked at.
readOCRUnasked(m) ==
  IF m.drv.type # "SD2" THEN m
  ELSE LET c == cardCommand(m, "CMD58", 0)
       IN  IF slot.kind = "SDHC" /\ c.val = "ready" THEN [c EXCEPT !.drv.type = "SDHC"] ELSE c

readOCR(m) ==
  IF m.drv.type # "SD2" THEN m
  ELSE Then(Require(m, "CMD58", 0), LAMBDA c :
         IF slot.kind = "SDHC" THEN [c EXCEPT !.drv.type = "SDHC"] ELSE c)

init(m, rate) ==
  LET reset == [m EXCEPT !.drv = [NewDriver EXCEPT !.cs = "low"]]
  IN  Then(Until(reset, "CMD0", "idle"), LAMBDA i :
      Then(checkVersion(i), LAMBDA v :
      Then(Until(v, "ACMD41", "ready"), LAMBDA a :
      Then(readOCR(a), LAMBDA r : setSckRate(ChipSelectHigh(r), rate)))))

\* The size in the card's own units; the middle byte of a version 2 CSD is
\* shifted as a 16 bit int, whose sign reaches the word it is or-ed into.
cardSize(m) ==
  Then(readRegister(m), LAMBDA r :
    LET c == slot.c_size
        low == c % 65536
        size == IF slot.kind = "SDHC" /\ low >= 32768
                THEN (4194304 - 65536 + low + 1) % 4194304 ELSE c + 1
    IN  [r EXCEPT !.got = <<<<"size", size>>>>])

partialBlockRead(m, value) == [readEnd(m) EXCEPT !.drv.partial = value]

\* The block is read on from where it was left, or asked for again.  block_ is
\* set before the card answers, and means nothing if it does not.
openBlock(m, b, offset) ==
  IF m.drv.inBlock /\ b = m.drv.block /\ offset >= m.drv.offset THEN m
  ELSE Then(Require(m, "CMD17", Address(m, b)), LAMBDA c :
         Then(waitStartBlock(c), LAMBDA w :
           [w EXCEPT !.drv.offset = 0, !.drv.inBlock = TRUE, !.drv.block = b]))

readData(m, b, offset, count) ==
  IF count = 0 THEN m
  ELSE IF count + offset > Size THEN Fail(m)
  ELSE Then(openBlock(m, b, offset), LAMBDA o :
         LET skip == Clock(o, offset - o.drv.offset)
             read == [Clock(skip, count) EXCEPT !.got = Line(skip, count),
                                                !.drv.offset = offset + count]
         IN  IF ~ read.drv.partial \/ read.drv.offset >= Size THEN readEnd(read) ELSE read)

writeToken(m, d) ==
  LET w == Exchange(m, LAMBDA h : TakeBlock(h, d))
  IN  IF w.val = "accepted" THEN w ELSE Fail(w)

\* Mistake: the second byte of the status is not read.
getStatusShort(m) == Then(Require(m, "CMD13", 0), LAMBDA c : [c EXCEPT !.card.spoilt = FALSE])

\* Status has a second byte: it tells whether the programming failed.
getStatus(m) ==
  Then(Require(m, "CMD13", 0), LAMBDA c :
    IF c.card.spoilt THEN Fail([c EXCEPT !.card.spoilt = FALSE]) ELSE c)

WaitOrFail(m, timeout) == LET w == waitNotBusy(m, timeout) IN IF w.ok THEN w ELSE Fail(w)

writeBlock(m, b, d) ==
  IF b = 0 THEN Fail(m)
  ELSE Then(Require(m, "CMD24", Address(m, b)), LAMBDA c :
       Then(writeToken(c, d), LAMBDA t :
       Then(WaitOrFail(t, WriteWait), LAMBDA w :
       Then(getStatus(w), LAMBDA s : ChipSelectHigh(s)))))

erase(m, first, last) ==
  Then(readRegister(m), LAMBDA r :
  Then(IF slot.single THEN r ELSE Fail(r), LAMBDA e :
  Then(Require(e, "CMD32", Address(r, first)), LAMBDA f :
  Then(Require(f, "CMD33", Address(f, last)), LAMBDA l :
  Then(Require(l, "CMD38", 0), LAMBDA c :
  Then(WaitOrFail(c, EraseWait), LAMBDA w : ChipSelectHigh(w)))))))

writeStart(m, b) ==
  IF b = 0 THEN Fail(m)
  ELSE LET a == cardAcmd(m, "ACMD23", 1)
       IN  Then(IF a.val = "ready" THEN a ELSE Fail(a), LAMBDA c :
             Require(c, "CMD25", Address(c, b)))

writeData(m, d) == Then(WaitOrFail(m, WriteWait), LAMBDA w : writeToken(w, d))

\* The stop token ends the sequence.
writeStop(m) ==
  Then(WaitOrFail(m, WriteWait), LAMBDA w :
    LET stopped == IF ~ SelectedIn(w, {"multi"}) THEN w
                   ELSE [w EXCEPT !.card.phase = "ready", !.card.at = 0,
                                  !.card.busy = w.duration]
    IN  Then(WaitOrFail(stopped, WriteWait), LAMBDA v : ChipSelectHigh(v)))

-----------------------------------------------------------------------------
(* The calls as steps. *)

\* An exchange goes wrong, or the card is slow or fails to program.  Only init
\* goes on after a bad answer, and tells one from another.
NoFault == [io |-> -1, wrong |-> "none", lasting |-> FALSE, programmed |-> TRUE, duration |-> 0]
Losses ==
  [io : 0 .. MaxExchanges, wrong : {"none"}, lasting : {FALSE}, programmed : {TRUE}, duration : {0}]
ReadFaults == {NoFault} \cup Losses
InitFaults ==
  {NoFault} \cup [io : 0 .. MaxExchanges, wrong : {"none", "error"}, lasting : BOOLEAN,
                 programmed : {TRUE}, duration : {0}]
WriteFaults ==
  Losses \cup [io : {-1}, wrong : {"none"}, lasting : {FALSE}, programmed : BOOLEAN,
              duration : Durations \cup {0}]

Machine(fault) ==
  [blocks |-> blocks, drv |-> drv, card |-> sd_card, ok |-> TRUE, val |-> "none", got |-> <<>>,
   hit |-> FALSE, io |-> fault.io, wrong |-> fault.wrong, lasting |-> fault.lasting,
   programmed |-> fault.programmed, duration |-> fault.duration]

\* A call that the fault reached, if there is one, leaves m.
Leave(fault, op, at, arg, m) ==
  /\ fault.io # -1 => m.hit
  /\ blocks' = m.blocks /\ drv' = m.drv /\ sd_card' = m.card
  /\ call' = Device!Call(op, at, arg, m.ok, IF m.ok THEN m.got ELSE <<>>)
  /\ UNCHANGED slot

Initialize(fault, rate) ==
  LET m == init(Machine(fault), rate)
  IN  Leave(fault, "init", 0, 0, m) /\ ready' = m.ok /\ streaming' = -1

\* A caller goes on only after an init that returned true, and not within a
\* sequence of blocks.
Calling == ready /\ streaming = -1

\* What the driver refuses before it speaks to the card, it refuses without
\* closing an open block.
Refusable == drv.inBlock => Careless

CardSize(fault) ==
  Calling /\ Leave(fault, "size", 0, 0, cardSize(Machine(fault))) /\ UNCHANGED <<ready, streaming>>

PartialBlockRead(value) ==
  /\ Calling
  /\ Leave(NoFault, "partial", 0, 0, partialBlockRead(Machine(NoFault), value))
  /\ UNCHANGED <<ready, streaming>>

ReadData(fault, b, offset, count) ==
  /\ Calling /\ (count + offset > Size => Refusable)
  /\ Leave(fault, "read", b, offset, readData(Machine(fault), b, offset, count))
  /\ UNCHANGED <<ready, streaming>>

WriteBlock(fault, b, d) ==
  /\ Calling /\ (b = 0 => Refusable)
  /\ Leave(fault, "write", b, d, writeBlock(Machine(fault), b, d))
  /\ UNCHANGED <<ready, streaming>>

Erase(fault, first, last) ==
  /\ Calling
  /\ Leave(fault, "erase", first, last, erase(Machine(fault), first, last))
  /\ UNCHANGED <<ready, streaming>>

WriteStart(fault, b) ==
  LET m == writeStart(Machine(fault), b)
  IN  /\ Calling /\ (b = 0 => Refusable)
      /\ Leave(fault, "start", b, 0, m)
      /\ streaming' = (IF m.ok THEN b ELSE -1) /\ UNCHANGED ready

WriteData(fault, d) ==
  LET m == writeData(Machine(fault), d)
  IN  /\ streaming \in Blocks
      /\ Leave(fault, "stream", streaming, d, m)
      /\ streaming' = (IF m.ok THEN streaming + 1 ELSE -1) /\ UNCHANGED ready

WriteStop(fault) ==
  /\ streaming # -1
  /\ Leave(fault, "stop", 0, 0, writeStop(Machine(fault)))
  /\ streaming' = -1 /\ UNCHANGED ready

SdNext ==
  \/ \E fault \in InitFaults, rate \in Rates : Initialize(fault, rate)
  \/ \E value \in BOOLEAN : PartialBlockRead(value)
  \/ \E fault \in ReadFaults :
       \/ CardSize(fault)
       \/ \E b \in Asked, offset \in 0 .. Size - 1, count \in 0 .. Size :
            ReadData(fault, b, offset, count)
  \/ \E fault \in WriteFaults :
       \/ \E b \in Asked, d \in Data : WriteBlock(fault, b, d)
       \/ \E first, last \in Asked : first <= last /\ Erase(fault, first, last)
       \/ \E b \in Asked : WriteStart(fault, b)
       \/ \E d \in Data : WriteData(fault, d)
       \/ WriteStop(fault)

SdSpec == SdInit /\ [][SdNext]_sdVars

-----------------------------------------------------------------------------
(* Properties. *)

\* Types, with the card's side of the bus.
SdTypeOK ==
  /\ blocks \in [Blocks -> Data \cup {"erased", "torn"}] /\ slot \in SdCards
  /\ drv \in [type : {"none", "SD1", "SD2", "SDHC"}, inBlock : BOOLEAN, block : Asked,
              offset : 0 .. Size, partial : BOOLEAN, cs : {"high", "low"},
              divider : {128} \cup {2 * 2 ^ r : r \in 0 .. 6}]
  /\ sd_card.phase \in {"off", "idle", "ready", "sending", "receiving", "multi"}
  /\ sd_card.at \in Asked /\ sd_card.busy \in Nat /\ sd_card.pos \in 0 .. Size /\ sd_card.spoilt \in BOOLEAN
  /\ ready \in BOOLEAN /\ streaming \in -1 .. LastBlock + 1

\* The bus is shared with the RFID reader, so the card is deselected whenever
\* no block and no sequence of blocks is left open, however a call ended
\* (chipSelectHigh on every way out); and the driver's idea of the open block
\* (block_, offset_) is where the card's own stream stands.
BusFree ==
  /\ drv.cs = "low" => drv.inBlock \/ streaming # -1
  /\ drv.inBlock => /\ drv.cs = "low" /\ sd_card.phase = "sending"
                    /\ sd_card.at = drv.block /\ sd_card.pos = drv.offset

\* An init that returned true, whichever answers were lost on the way, found
\* out whether the card is addressed by block or by byte and left it out of its
\* idle state; and the size it reports later is the card's.
CardKnown ==
  /\ ready => /\ drv.type = "SDHC" <=> slot.kind = "SDHC"
              /\ sd_card.phase \notin {"off", "idle"}
  /\ call.op = "size" /\ call.ok => call.got = <<<<"size", slot.c_size + 1>>>>

\* What a call reports is true of the blocks, and only the blocks it was asked
\* about change: with answers lost, a card that is still busy when it is given
\* the next command and reads as ready, and programming that fails.  A card busy
\* for more than 5 units after a block of a sequence is out of its reach: it may
\* be so still when the next sequence starts, hear none of its three commands,
\* and put its first block where the old sequence stood.
DeviceKept == Device!Spec
===============================================================================
