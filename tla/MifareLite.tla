------------------------------ MODULE MifareLite ------------------------------
(***************************************************************************)
(* The card reader's driver (Modules/RFID/MifareLite.cpp), one action for  *)
(* each call that CardReader::ReadAndStore makes of it, over the MFRC522   *)
(* and the cards in its field.  A frame may miss a card, an answer may be  *)
(* lost, come late, or be damaged, and cards come and go between any two   *)
(* calls.  What a chip with its cipher left on sends is a frame that       *)
(* misses the cards.  Write() has no caller and is left out.               *)
(***************************************************************************)
EXTENDS Integers, Sequences, FiniteSets, SequencesExt

CONSTANTS
  Cards,        \* the cards; a card stands for its serial number and its record
  NoSerial,     \* the zero bytes mfr_last_serial starts with
  Junk,         \* any bytes that are not those of a card
  TimerPolls,   \* reads of CommIrqReg in the 24 ms of the chip's timer
  UncheckedFlips   \* may noise change bits of an answer that only its CRC guards?

ASSUME MifareAssumption ==
  /\ IsFiniteSet(Cards) /\ Junk \notin Cards
  /\ TimerPolls \in Nat \ {0}
  /\ UncheckedFlips \in BOOLEAN

VARIABLES
  mf_pc,             \* the call ReadAndStore makes next; "pause" is its delay(500)
  mfr_serial,
  mfr_last_serial,
  buffer,            \* the record in the buffer, or Junk
  chip,              \* the MFRC522: its flags, its FIFO, whose cipher it uses
  card,              \* card[c]: the state of card c, "away" outside the field
  seen,              \* history: the cards whose serial number was ever received
  asleep             \* history: cards that heard Halt and have stayed in the field

mfVars == <<mf_pc, mfr_serial, mfr_last_serial, buffer, chip, card, seen, asleep>>

Nothing == [bits |-> 0, says |-> Junk]
Frame(cmd, serial) == [cmd |-> cmd, serial |-> serial]

-----------------------------------------------------------------------------
(* The cards: ISO 14443-3 and the Mifare commands above it.  After the password   *)
(* the serial of a frame is that of the card whose cipher it is sent in.          *)

Understands(c, frame) ==
  CASE frame.cmd = "REQIDL"   -> card[c] = "idle"
    [] frame.cmd = "ANTICOLL" -> card[c] = "ready"
    [] frame.cmd = "SELECT"   -> card[c] = "ready" /\ frame.serial = c
    [] frame.cmd = "AUTH"     -> card[c] = "active" /\ frame.serial = c
    [] OTHER                  -> card[c] = "authed" /\ frame.serial = c

\* A card that hears what it does not expect falls back to idle; one that was
\* sent to sleep goes on sleeping.
Hears(c, frame) ==
  IF ~ Understands(c, frame)
    THEN IF card[c] \in {"away", "halted"} THEN card[c] ELSE "idle"
    ELSE CASE frame.cmd \in {"REQIDL", "ANTICOLL"} -> "ready"
           [] frame.cmd = "SELECT" -> "active"
           [] frame.cmd = "HALT" -> "halted"
           [] OTHER -> "authed"

\* The bits of an answer and what they say.
Replies(c, frame) ==
  IF ~ Understands(c, frame) \/ frame.cmd = "HALT" THEN {}
  ELSE {CASE frame.cmd = "REQIDL"   -> [bits |-> 16, says |-> Junk]
          [] frame.cmd = "ANTICOLL" -> [bits |-> 40, says |-> c]
          [] frame.cmd = "SELECT"   -> [bits |-> 24, says |-> Junk]
          [] frame.cmd = "AUTH"     -> Nothing
          [] frame.cmd = "READ"     -> [bits |-> 144, says |-> c]}

InField == {c \in Cards : card[c] # "away"}

CardArrives(c) ==
  /\ card[c] = "away"
  /\ card' = [card EXCEPT ![c] = "idle"]
  /\ UNCHANGED <<mf_pc, mfr_serial, mfr_last_serial, buffer, chip, seen, asleep>>

CardLeaves(c) ==
  /\ card[c] # "away"
  /\ card' = [card EXCEPT ![c] = "away"]
  /\ asleep' = asleep \ {c}
  /\ UNCHANGED <<mf_pc, mfr_serial, mfr_last_serial, buffer, chip, seen>>

-----------------------------------------------------------------------------
(* ToCard. *)

\* Mistake: the counter is wide enough for the 2000 of the source.
PollsWide == 2000

\* i = 2000 in a uint8_t.
Polls == 2000 % 256

\* ClearBitMask(CommIrqReg, 0x80), the flush of the FIFO, and PCD_IDLE.
Prepared == [chip EXCEPT !.irq = {}, !.fifo = <<>>, !.late = {}, !.timer = FALSE]

\* Parity and collisions are in the mask 0x1B; CRCErr, which the comment
\* names, is not, and the chip was never told to check a CRC.
Damaged(noise, replies) == noise = "garbled" \/ Cardinality(replies) > 1

\* What noise, or a card that refuses the block, makes of an answer.
Received(reply, noise) ==
  CASE noise = "flipped" -> [reply EXCEPT !.says = Junk]
    [] noise = "refused" -> [bits |-> 4, says |-> Junk]
    [] OTHER             -> reply

Noises(cmd) ==
  {"clear", "garbled", "lost", "late"}
    \cup (IF cmd = "ANTICOLL" \/ UncheckedFlips THEN {"flipped"} ELSE {})
    \cup (IF cmd = "READ" THEN {"refused"} ELSE {})

\* What ToCard returns, and the chip after it, when the cards give these replies:
\* the loop ends by an answer, the timer, or the counter.
ToCard(command, replies, noise) ==
  LET start == Prepared
      silent == replies = {} \/ noise \in {"lost", "late"}
      answers == {Received(r, noise) : r \in replies}
      irq == start.irq \cup
             (IF ~ silent THEN {IF command = "AUTHENT" THEN "idle" ELSE "rx"}
              ELSE IF TimerPolls < Polls THEN {"timer"} ELSE {})
      ended == irq # {}
      error == ~ silent /\ Damaged(noise, replies)
      data == start.fifo \o (IF silent THEN <<>> ELSE SetToSeq(answers))
  IN [status |-> CASE ~ ended \/ error -> "MI_ERR"
                   [] "timer" \in irq /\ command = "TRANSCEIVE" -> "MI_NOTAGERR"
                   [] OTHER -> "MI_OK",
      back |-> IF data = <<>> \/ ~ ended \/ error THEN Nothing ELSE Head(data),
      chip |-> [irq |-> irq,
                timer |-> ~ ended,
                fifo |-> IF ended THEN <<>> ELSE data,
                late |-> IF noise = "late" /\ Cardinality(replies) = 1 THEN answers ELSE {},
                crypto |-> IF command = "AUTHENT" /\ ~ silent /\ ~ error THEN mfr_serial ELSE chip.crypto]]

\* All that can come of a frame: it reaches the cards in near.
Exchanges(command, frame) ==
  {[call  |-> ToCard(command, UNION {Replies(c, frame) : c \in near}, noise),
    cards |-> [c \in Cards |-> IF c \in near THEN Hears(c, frame) ELSE card[c]]] :
     near \in SUBSET InField, noise \in Noises(frame.cmd)}

\* What came too late for the loop comes after it: the answer, or the timer.
LateAnswer ==
  /\ chip.late # {}
  /\ chip' = [chip EXCEPT !.fifo = @ \o SetToSeq(chip.late), !.irq = @ \cup {"rx"},
                          !.late = {}, !.timer = FALSE]
  /\ UNCHANGED <<mf_pc, mfr_serial, mfr_last_serial, buffer, card, seen, asleep>>

LateTimer ==
  /\ chip.timer /\ chip.late = {}
  /\ chip' = [chip EXCEPT !.irq = @ \cup {"timer"}, !.timer = FALSE]
  /\ UNCHANGED <<mf_pc, mfr_serial, mfr_last_serial, buffer, card, seen, asleep>>

-----------------------------------------------------------------------------
(* The calls of ReadAndStore, in its order. *)

\* The registers after PCD_RESETPHASE.
Reset == [irq |-> {}, fifo |-> <<>>, late |-> {}, timer |-> FALSE, crypto |-> NoSerial]

MfInit ==
  /\ mf_pc = "pause"
  /\ mfr_serial = NoSerial /\ mfr_last_serial = NoSerial
  /\ buffer = Junk
  /\ chip = Reset
  /\ card \in [Cards -> {"away", "idle"}]
  /\ seen = {} /\ asleep = {}

\* delay(500): what is still under way ends in it.
Pause ==
  /\ mf_pc = "pause" /\ chip.late = {} /\ ~ chip.timer
  /\ mf_pc' = "request"
  /\ UNCHANGED <<mfr_serial, mfr_last_serial, buffer, chip, card, seen, asleep>>

Request ==
  /\ mf_pc = "request"
  /\ \E x \in Exchanges("TRANSCEIVE", Frame("REQIDL", NoSerial)) :
       /\ chip' = x.call.chip /\ card' = x.cards
       /\ mf_pc' = IF x.call.status = "MI_OK" /\ x.call.back.bits = 16
                     THEN "anticoll" ELSE "pause"
  /\ buffer' = Junk
  /\ UNCHANGED <<mfr_serial, mfr_last_serial, seen, asleep>>

\* The four bytes of the serial number and their exclusive or.
Checked(status, serial) ==
  IF status = "MI_OK" /\ serial = Junk THEN "MI_ERR" ELSE status

\* A serial number that is not the last one ends the routine as a success.
Anticoll ==
  /\ mf_pc = "anticoll"
  /\ \E x \in Exchanges("TRANSCEIVE", Frame("ANTICOLL", NoSerial)) :
       LET result == Checked(x.call.status, x.call.back.says) # "MI_ERR" IN
         /\ chip' = x.call.chip /\ card' = x.cards
         /\ mfr_serial' = x.call.back.says
         /\ seen' = seen \cup ({mfr_serial'} \cap Cards)
         /\ mf_pc' = IF result /\ mfr_serial' = mfr_last_serial THEN "select" ELSE "pause"
         /\ mfr_last_serial' = IF result THEN mfr_serial' ELSE mfr_last_serial
  /\ UNCHANGED <<buffer, asleep>>

\* SelectTag answers the size of the card, or 0, which is not MI_ERR either.
SelectTag ==
  /\ mf_pc = "select"
  /\ \E x \in Exchanges("TRANSCEIVE", Frame("SELECT", mfr_serial)) :
       chip' = x.call.chip /\ card' = x.cards
  /\ mf_pc' = "auth"
  /\ buffer' = Junk
  /\ UNCHANGED <<mfr_serial, mfr_last_serial, seen, asleep>>

Auth ==
  /\ mf_pc = "auth"
  /\ \E x \in Exchanges("AUTHENT", Frame("AUTH", mfr_serial)) :
       /\ chip' = x.call.chip /\ card' = x.cards
       /\ mf_pc' = IF x.call.status = "MI_OK" /\ chip'.crypto # NoSerial THEN "read" ELSE "pause"
  /\ buffer' = Junk
  /\ UNCHANGED <<mfr_serial, mfr_last_serial, seen, asleep>>

\* Mistake: the length of the answer is not looked at.
ReadOfAnyLength ==
  /\ mf_pc = "read"
  /\ \E x \in Exchanges("TRANSCEIVE", Frame("READ", chip.crypto)) :
       /\ chip' = x.call.chip /\ card' = x.cards
       /\ buffer' = x.call.back.says
       /\ mf_pc' = IF x.call.status = "MI_OK" THEN "halt" ELSE "pause"
  /\ UNCHANGED <<mfr_serial, mfr_last_serial, seen, asleep>>

Read ==
  /\ mf_pc = "read"
  /\ \E x \in Exchanges("TRANSCEIVE", Frame("READ", chip.crypto)) :
       /\ chip' = x.call.chip /\ card' = x.cards
       /\ buffer' = x.call.back.says
       /\ mf_pc' = IF x.call.status = "MI_OK" /\ x.call.back.bits = 144
                     THEN "halt" ELSE "pause"
  /\ UNCHANGED <<mfr_serial, mfr_last_serial, seen, asleep>>

\* Mistake: the card is not sent to sleep.
HaltForgotten ==
  /\ mf_pc = "halt" /\ mf_pc' = "store"
  /\ asleep' = asleep \cup {mfr_serial}
  /\ UNCHANGED <<mfr_serial, mfr_last_serial, buffer, chip, card, seen>>

Halt ==
  /\ mf_pc = "halt"
  /\ \E x \in Exchanges("TRANSCEIVE", Frame("HALT", chip.crypto)) :
       chip' = x.call.chip /\ card' = x.cards
  /\ asleep' = asleep \cup ({mfr_serial} \cap {c \in Cards : card'[c] # card[c]})
  /\ mf_pc' = "store"
  /\ UNCHANGED <<mfr_serial, mfr_last_serial, buffer, seen>>

\* beginTransaction, writeRecord and commitTransaction (see CardReader); the
\* serial number is the last one already.
Store ==
  /\ mf_pc = "store" /\ mf_pc' = "pause"
  /\ UNCHANGED <<mfr_serial, mfr_last_serial, buffer, chip, card, seen, asleep>>

\* Power comes back, or the first start: Init() of the driver, and no field before.
Restart ==
  /\ mf_pc' = "pause"
  /\ mfr_serial' = NoSerial /\ mfr_last_serial' = NoSerial
  /\ buffer' = Junk
  /\ chip' = Reset
  /\ card' = [c \in Cards |-> IF card[c] = "away" THEN "away" ELSE "idle"]
  /\ seen' = {} /\ asleep' = {}

MfNext ==
  \/ Pause \/ Request \/ Anticoll \/ SelectTag \/ Auth \/ Read \/ Halt \/ Store
  \/ LateAnswer \/ LateTimer \/ Restart
  \/ \E c \in Cards : CardArrives(c) \/ CardLeaves(c)

MfSpec == MfInit /\ [][MfNext]_mfVars

-----------------------------------------------------------------------------
(* Properties. *)

MfTypeOK ==
  /\ mf_pc \in {"pause", "request", "anticoll", "select", "auth", "read", "halt", "store"}
  /\ {mfr_serial, mfr_last_serial} \subseteq Cards \cup {NoSerial, Junk}
  /\ buffer \in Cards \cup {Junk}
  /\ chip.irq \subseteq {"rx", "idle", "timer"} /\ chip.timer \in BOOLEAN /\ chip.crypto \in Cards \cup {NoSerial}
  /\ Len(chip.fifo) \leq 1 /\ Cardinality(chip.late) \leq 1
  /\ card \in [Cards -> {"away", "idle", "ready", "active", "authed", "halted"}]
  /\ seen \subseteq Cards /\ asleep \subseteq Cards

\* The record that is stored is that of the card whose serial number was read,
\* although SelectTag's failure goes unnoticed, the cipher flag is never cleared,
\* and another card may have come between any two calls.
RecordOfSerial == mf_pc = "store" => buffer = mfr_serial

\* The serial number that is remembered, and greeted with the chime of success,
\* is one that a card has answered, never what was left in the array.
RememberedWasSeen == mfr_last_serial \in seen \cup {NoSerial}

\* CardReader.cpp: "After successfully reads the block, the S150 Card is sent
\* back to sleep": a card that heard it is not read again until it has left.
SleepersStayUnread == mf_pc = "halt" => mfr_serial \notin asleep
===============================================================================
