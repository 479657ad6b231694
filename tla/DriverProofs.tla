------------------------------ MODULE DriverProofs ------------------------------
(***************************************************************************)
(* The three drivers that ask a device over a line which loses, delays and *)
(* mixes up answers: for any number of cards in the reader's field, for    *)
(* any packets and any length of the upload by the modem, and for any card *)
(* in the slot and any number and size of its blocks.  They share no       *)
(* state.                                                                  *)
(***************************************************************************)
EXTENDS MifareLite, Modem, Sd2Card, FiniteSetTheorems, SequenceTheorems, TLAPS

-----------------------------------------------------------------------------
(* ToCard. *)

\* The loop counter gives up before the chip's timer can end the loop, so only an
\* answer ends it; as it is with the counts of the build.
CounterIsFirst == TimerPolls >= Polls

LEMMA SequenceOfOne ==
  ASSUME NEW x
  PROVE  SetToSeq({x}) = <<x>>
<1>1. Cardinality({x}) = 1
  BY FS_Singleton
<1> DEFINE f == [i \in 1 .. 1 |-> x]
<1>2. f \in [1 .. 1 -> {x}] /\ IsInjective(f)
  BY DEF IsInjective
<1>3. SetToSeq({x}) \in [1 .. 1 -> {x}]
  BY <1>1, <1>2 DEF SetToSeq
<1>4. <<x>> \in [1 .. 1 -> {x}]
  OBVIOUS
<1>5. ASSUME NEW g \in [1 .. 1 -> {x}], NEW h \in [1 .. 1 -> {x}] PROVE g = h
  BY <1>5
<1> QED BY <1>3, <1>4, <1>5

\* The registers, all of them.
ChipRecord ==
  chip = [irq |-> chip.irq, timer |-> chip.timer, fifo |-> chip.fifo, late |-> chip.late,
          crypto |-> chip.crypto]

\* What is answered without an error is what exactly one card has said, as the
\* noise left it, and the cipher is that of the serial number it was asked with.
LEMMA OneAnswer ==
  ASSUME CounterIsFirst, ChipRecord,
         NEW command \in {"TRANSCEIVE", "AUTHENT"}, NEW replies, IsFiniteSet(replies),
         NEW noise, ToCard(command, replies, noise).status # "MI_ERR"
  PROVE  /\ ToCard(command, replies, noise).status = "MI_OK"
         /\ noise \notin {"garbled", "lost", "late"}
         /\ \E x : replies = {x} /\ ToCard(command, replies, noise).back = Received(x, noise)
         /\ command = "AUTHENT" => ToCard(command, replies, noise).chip.crypto = mfr_serial
<1> DEFINE silent == replies = {} \/ noise \in {"lost", "late"}
           answers == {Received(r, noise) : r \in replies}
           irq == IF ~ silent THEN {IF command = "AUTHENT" THEN "idle" ELSE "rx"} ELSE {}
           error == ~ silent /\ Damaged(noise, replies)
           data == IF silent THEN <<>> ELSE SetToSeq(answers)
<1>1. ~ TimerPolls < Polls
  BY MifareAssumption DEF CounterIsFirst, Polls
<1>2. Prepared.irq = {} /\ Prepared.fifo = <<>>
  BY DEF Prepared, ChipRecord
<1>3. ~ silent /\ ~ error
  BY <1>1, <1>2 DEF ToCard
<1>4. noise \notin {"garbled", "lost", "late"} /\ replies # {} /\ ~ Cardinality(replies) > 1
  BY <1>3 DEF Damaged
<1>5. PICK x : replies = {x}
  <2>1. Cardinality(replies) \in Nat /\ Cardinality(replies) # 0
    BY <1>4, FS_CardinalityType, FS_EmptySet
  <2>2. Cardinality(replies) = 1
    BY <1>4, <2>1
  <2> QED BY <2>2, FS_Singleton
<1>6. data = <<Received(x, noise)>>
  <2>1. answers = {Received(x, noise)}
    BY <1>5
  <2>2. SetToSeq(answers) = <<Received(x, noise)>>
    BY <2>1, SequenceOfOne
  <2> QED BY <1>3, <2>2
<1>7. Prepared.fifo \o data = <<Received(x, noise)>>
  <2>1. PICK y : y = Received(x, noise)
    OBVIOUS
  <2>2. <<y>> \in Seq({y})
    OBVIOUS
  <2>3. <<>> \o <<y>> = <<y>>
    BY <2>2, ConcatEmptySeq
  <2>4. Prepared.fifo = <<>> /\ data = <<y>>
    BY <1>2, <1>6, <2>1
  <2> QED BY <2>1, <2>3, <2>4, Zenon
<1>8. /\ ToCard(command, replies, noise).status = "MI_OK"
      /\ command = "AUTHENT" => ToCard(command, replies, noise).chip.crypto = mfr_serial
  BY <1>1, <1>2, <1>3 DEF ToCard
<1>9. ToCard(command, replies, noise).back = Received(x, noise)
  BY <1>1, <1>2, <1>3, <1>7 DEF ToCard
<1> QED BY <1>4, <1>5, <1>8, <1>9
States == {"away", "idle", "ready", "active", "authed", "halted"}
Commands == {"REQIDL", "ANTICOLL", "SELECT", "AUTH", "READ", "HALT"}

LEMMA RepliesAreFinite ==
  ASSUME NEW near \in SUBSET Cards, NEW frame, frame.cmd \in Commands
  PROVE  IsFiniteSet(UNION {Replies(c, frame) : c \in near})
<1> DEFINE serials == {[bits |-> 40, says |-> c] : c \in Cards}
           records == {[bits |-> 144, says |-> c] : c \in Cards}
           others == {[bits |-> 16, says |-> Junk], [bits |-> 24, says |-> Junk], Nothing}
<1>1. IsFiniteSet(Cards)
  BY MifareAssumption
<1>2. IsFiniteSet(serials)
  <2> DEFINE f == [c \in Cards |-> [bits |-> 40, says |-> c]]
  <2>1. f \in Surjection(Cards, serials)
    BY DEF Surjection
  <2> HIDE DEF f
  <2> QED BY <1>1, <2>1, FS_Surjection
<1>3. IsFiniteSet(records)
  <2> DEFINE f == [c \in Cards |-> [bits |-> 144, says |-> c]]
  <2>1. f \in Surjection(Cards, records)
    BY DEF Surjection
  <2> HIDE DEF f
  <2> QED BY <1>1, <2>1, FS_Surjection
<1>4. IsFiniteSet(others)
  <2>1. \A u, v, w : IsFiniteSet({u, v, w})
    <3> TAKE u, v, w
    <3>1. IsFiniteSet({u}) /\ IsFiniteSet({v}) /\ IsFiniteSet({w})
      BY FS_Singleton
    <3>2. IsFiniteSet({v} \cup {w})
      BY <3>1, FS_Union
    <3>3. IsFiniteSet({u} \cup ({v} \cup {w}))
      BY <3>1, <3>2, FS_Union
    <3>4. {u, v, w} = {u} \cup ({v} \cup {w})
      OBVIOUS
    <3> QED BY <3>3, <3>4
  <2> QED BY <2>1
<1>5. UNION {Replies(c, frame) : c \in near} \subseteq serials \cup (records \cup others)
  <2> SUFFICES ASSUME NEW c \in near PROVE Replies(c, frame) \subseteq serials \cup (records \cup others)
    OBVIOUS
  <2> QED BY DEF Replies, Commands
<1> HIDE DEF serials, records, others
<1>6. IsFiniteSet(serials \cup (records \cup others))
  BY <1>2, <1>3, <1>4, FS_Union
<1> QED BY <1>5, <1>6, FS_Subset

\* One frame and its answers: no card wakes up, the registers stay what they are,
\* and an answer without error comes from a card that understood.
LEMMA ExchangeIs ==
  ASSUME CounterIsFirst, ChipRecord, card \in [Cards -> States],
         NEW command \in {"TRANSCEIVE", "AUTHENT"}, NEW frame, frame.cmd \in Commands,
         NEW x \in Exchanges(command, frame)
  PROVE  /\ x.cards \in [Cards -> States]
         /\ \A c \in Cards : card[c] = "halted" => x.cards[c] = "halted"
         /\ \A c \in Cards : x.cards[c] \in {card[c], Hears(c, frame)}
         /\ x.call.chip = [irq |-> x.call.chip.irq, timer |-> x.call.chip.timer,
                           fifo |-> x.call.chip.fifo, late |-> x.call.chip.late,
                           crypto |-> x.call.chip.crypto]
         /\ command = "TRANSCEIVE" => x.call.chip.crypto = chip.crypto
         /\ x.call.status # "MI_ERR" =>
              /\ x.call.status = "MI_OK"
              /\ command = "AUTHENT" => x.call.chip.crypto = mfr_serial
              /\ \E c \in Cards : \E y, noise :
                   /\ Understands(c, frame) /\ x.cards[c] = Hears(c, frame)
                   /\ Replies(c, frame) = {y} /\ x.call.back = Received(y, noise)
                   /\ noise \in Noises(frame.cmd) \ {"garbled", "lost", "late"}
<1>1. PICK near \in SUBSET InField, noise \in Noises(frame.cmd) :
        x = [call  |-> ToCard(command, UNION {Replies(c, frame) : c \in near}, noise),
             cards |-> [c \in Cards |-> IF c \in near THEN Hears(c, frame) ELSE card[c]]]
  <2> DEFINE result(near, noise) ==
        [call  |-> ToCard(command, UNION {Replies(c, frame) : c \in near}, noise),
         cards |-> [c \in Cards |-> IF c \in near THEN Hears(c, frame) ELSE card[c]]]
  <2>1. Exchanges(command, frame) = {result(near, noise) : near \in SUBSET InField, noise \in Noises(frame.cmd)}
    BY DEF Exchanges
  <2> HIDE DEF result
  <2>2. \E near \in SUBSET InField, noise \in Noises(frame.cmd) : x = result(near, noise)
    BY <2>1
  <2> QED BY <2>2 DEF result
<1> DEFINE replies == UNION {Replies(c, frame) : c \in near}
<1>2. near \in SUBSET Cards
  BY DEF InField
<1>3. x.call = ToCard(command, replies, noise)
  BY <1>1
<1>4. x.cards = [c \in Cards |-> IF c \in near THEN Hears(c, frame) ELSE card[c]]
  BY <1>1
<1>5. x.cards \in [Cards -> States]
  <2> SUFFICES ASSUME NEW c \in Cards PROVE Hears(c, frame) \in States /\ card[c] \in States
    BY <1>4
  <2> QED BY DEF Hears, States
<1>6. \A c \in Cards : card[c] = "halted" => x.cards[c] = "halted"
  <2> SUFFICES ASSUME NEW c \in Cards, card[c] = "halted" PROVE Hears(c, frame) = "halted"
    BY <1>4
  <2>1. ~ Understands(c, frame)
    BY DEF Understands
  <2> QED BY <2>1 DEF Hears
<1>7. /\ x.call.chip = [irq |-> x.call.chip.irq, timer |-> x.call.chip.timer,
                        fifo |-> x.call.chip.fifo, late |-> x.call.chip.late,
                        crypto |-> x.call.chip.crypto]
      /\ command = "TRANSCEIVE" => x.call.chip.crypto = chip.crypto
  <2> HIDE DEF replies
  <2>1. PICK i, a, b, l, k : ToCard(command, replies, noise).chip =
                               [irq |-> i, timer |-> a, fifo |-> b, late |-> l, crypto |-> k]
    BY DEF ToCard
  <2>2. command = "TRANSCEIVE" => ToCard(command, replies, noise).chip.crypto = chip.crypto
    BY DEF ToCard
  <2> QED BY <1>3, <2>1, <2>2
<1>8. ASSUME x.call.status # "MI_ERR"
      PROVE  /\ x.call.status = "MI_OK"
             /\ command = "AUTHENT" => x.call.chip.crypto = mfr_serial
             /\ \E c \in Cards : \E y, z :
                  /\ Understands(c, frame) /\ x.cards[c] = Hears(c, frame)
                  /\ Replies(c, frame) = {y} /\ x.call.back = Received(y, z)
                  /\ z \in Noises(frame.cmd) \ {"garbled", "lost", "late"}
  <2>1. IsFiniteSet(replies)
    BY <1>2, RepliesAreFinite
  <2> HIDE DEF replies
  <2>2. /\ x.call.status = "MI_OK" /\ noise \notin {"garbled", "lost", "late"}
        /\ \E y : replies = {y} /\ x.call.back = Received(y, noise)
        /\ command = "AUTHENT" => x.call.chip.crypto = mfr_serial
    BY <1>3, <1>8, <2>1, OneAnswer
  <2>3. PICK y : replies = {y} /\ x.call.back = Received(y, noise)
    BY <2>2
  <2>4. PICK c \in near : y \in Replies(c, frame)
    BY <2>3 DEF replies
  <2>5. Replies(c, frame) \subseteq {y}
    BY <2>3 DEF replies
  <2>6. Understands(c, frame)
    BY <2>4 DEF Replies
  <2>7. x.cards[c] = Hears(c, frame) /\ c \in Cards
    BY <1>2, <1>4
  <2> QED BY <2>2, <2>3, <2>4, <2>5, <2>6, <2>7
<1>9. \A c \in Cards : x.cards[c] \in {card[c], Hears(c, frame)}
  BY <1>4
<1> QED BY <1>5, <1>6, <1>7, <1>8, <1>9

-----------------------------------------------------------------------------
(* The reader. *)

\* A card that sleeps does so by the Halt it heard.  When a record has been read,
\* the cipher is that of the serial number, and its card has not moved on since,
\* unless it left.
ReaderInv ==
  /\ ChipRecord
  /\ card \in [Cards -> States]
  /\ \A c \in asleep : c \in Cards /\ card[c] = "halted"
  /\ mfr_last_serial \in seen \cup {NoSerial}
  /\ mf_pc \in {"read", "halt"} => mfr_serial \in Cards /\ chip.crypto = mfr_serial
  /\ mf_pc = "halt" => mfr_serial \notin asleep /\ card[mfr_serial] \in {"authed", "idle", "away"}
  /\ mf_pc \in {"halt", "store"} => UncheckedFlips \/ buffer = mfr_serial

\* What every step of the routine leaves alone but its own new position.
LEMMA OtherCalls ==
  ASSUME ReaderInv, CounterIsFirst, NEW frame, frame.cmd \in Commands,
         NEW x \in Exchanges("TRANSCEIVE", frame) \cup Exchanges("AUTHENT", frame),
         chip' = x.call.chip, card' = x.cards, asleep' = asleep,
         mf_pc' \notin {"read", "halt", "store"}, mfr_last_serial' \in seen' \cup {NoSerial}
  PROVE  ReaderInv'
<1>1. PICK command \in {"TRANSCEIVE", "AUTHENT"} : x \in Exchanges(command, frame)
  OBVIOUS
<1>2. /\ x.cards \in [Cards -> States]
      /\ \A c \in Cards : card[c] = "halted" => x.cards[c] = "halted"
      /\ x.call.chip = [irq |-> x.call.chip.irq, timer |-> x.call.chip.timer,
                        fifo |-> x.call.chip.fifo, late |-> x.call.chip.late,
                        crypto |-> x.call.chip.crypto]
  BY <1>1, ExchangeIs DEF ReaderInv
<1> QED BY <1>2 DEF ReaderInv, ChipRecord

LEMMA AnticollKeepsReader ==
  ASSUME ReaderInv, CounterIsFirst, Anticoll
  PROVE  ReaderInv'
<1> DEFINE frame == Frame("ANTICOLL", NoSerial)
<1>1. frame.cmd = "ANTICOLL" /\ frame.cmd \in Commands
  BY DEF Frame, Commands
<1>2. PICK x \in Exchanges("TRANSCEIVE", frame) :
        /\ chip' = x.call.chip /\ card' = x.cards /\ mfr_serial' = x.call.back.says
        /\ seen' = seen \cup ({mfr_serial'} \cap Cards)
        /\ mf_pc' \in {"select", "pause"}
        /\ mfr_last_serial' = IF Checked(x.call.status, x.call.back.says) # "MI_ERR"
                                THEN mfr_serial' ELSE mfr_last_serial
  BY DEF Anticoll
<1>3. asleep' = asleep
  BY DEF Anticoll
<1> HIDE DEF frame
<1>4. mfr_last_serial' \in seen' \cup {NoSerial}
  <2>1. CASE Checked(x.call.status, x.call.back.says) = "MI_ERR"
    BY <1>2, <2>1 DEF ReaderInv
  <2>2. CASE Checked(x.call.status, x.call.back.says) # "MI_ERR"
    <3>1. x.call.status # "MI_ERR" /\ ~ (x.call.status = "MI_OK" /\ x.call.back.says = Junk)
      BY <2>2 DEF Checked
    <3>2. ChipRecord /\ card \in [Cards -> States]
      BY DEF ReaderInv
    <3>3. /\ x.call.status = "MI_OK"
           /\ \E c \in Cards : \E y, noise :
                /\ Understands(c, frame) /\ x.cards[c] = Hears(c, frame)
                /\ Replies(c, frame) = {y} /\ x.call.back = Received(y, noise)
                /\ noise \in Noises(frame.cmd) \ {"garbled", "lost", "late"}
      BY <1>1, <1>2, <3>1, <3>2, ExchangeIs
    <3>4. PICK c \in Cards : \E y, noise :
            /\ Understands(c, frame) /\ Replies(c, frame) = {y} /\ x.call.back = Received(y, noise)
            /\ noise \in Noises(frame.cmd) \ {"garbled", "lost", "late"} /\ x.call.status = "MI_OK"
      BY <3>3
    <3>5. PICK y, noise :
            /\ Understands(c, frame) /\ Replies(c, frame) = {y} /\ x.call.back = Received(y, noise)
            /\ noise \in Noises(frame.cmd) \ {"garbled", "lost", "late"} /\ x.call.status = "MI_OK"
      BY <3>4
    <3>6. y = [bits |-> 40, says |-> c]
      BY <1>1, <3>5 DEF Replies
    <3>7. noise \in {"clear", "flipped"}
      BY <1>1, <3>5 DEF Noises
    <3>8. x.call.back.says \in {c, Junk}
      BY <3>5, <3>6, <3>7 DEF Received
    <3>9. mfr_serial' = c /\ mfr_last_serial' = c
      BY <1>2, <2>2, <3>1, <3>5, <3>8
    <3> QED BY <1>2, <3>9
  <2> QED BY <2>1, <2>2
<1> QED BY <1>1, <1>2, <1>3, <1>4, OtherCalls

LEMMA AuthKeepsReader ==
  ASSUME ReaderInv, CounterIsFirst, Auth
  PROVE  ReaderInv'
<1> DEFINE frame == Frame("AUTH", mfr_serial)
<1>1. frame.cmd = "AUTH" /\ frame.cmd \in Commands /\ frame.serial = mfr_serial
  BY DEF Frame, Commands
<1>2. PICK x \in Exchanges("AUTHENT", frame) :
        /\ chip' = x.call.chip /\ card' = x.cards
        /\ mf_pc' = IF x.call.status = "MI_OK" /\ chip'.crypto # NoSerial THEN "read" ELSE "pause"
  BY DEF Auth
<1>3. UNCHANGED <<mfr_serial, mfr_last_serial, seen, asleep>>
  BY DEF Auth
<1> HIDE DEF frame
<1>4. CASE mf_pc' = "pause"
  BY <1>1, <1>2, <1>3, <1>4, OtherCalls DEF ReaderInv
<1>5. CASE mf_pc' = "read"
  <2>1. x.call.status = "MI_OK"
    BY <1>2, <1>5
  <2>2. /\ x.cards \in [Cards -> States]
        /\ \A c \in Cards : card[c] = "halted" => x.cards[c] = "halted"
        /\ x.call.chip = [irq |-> x.call.chip.irq, timer |-> x.call.chip.timer,
                          fifo |-> x.call.chip.fifo, late |-> x.call.chip.late,
                          crypto |-> x.call.chip.crypto]
    BY <1>1, <1>2, ExchangeIs DEF ReaderInv
  <2>3. x.call.chip.crypto = mfr_serial /\ \E c \in Cards : Understands(c, frame)
    BY <1>1, <1>2, <2>1, ExchangeIs DEF ReaderInv
  <2>4. mfr_serial \in Cards
    BY <1>1, <2>3 DEF Understands
  <2> QED BY <1>2, <1>3, <1>5, <2>2, <2>3, <2>4 DEF ReaderInv, ChipRecord
<1> QED BY <1>2, <1>4, <1>5

\* The answer of the right length comes from the card whose cipher is used, and a
\* card that answers does not sleep.
LEMMA ReadKeepsReader ==
  ASSUME ReaderInv, CounterIsFirst, Read
  PROVE  ReaderInv'
<1> DEFINE frame == Frame("READ", chip.crypto)
<1>1. frame.cmd = "READ" /\ frame.cmd \in Commands /\ frame.serial = chip.crypto
  BY DEF Frame, Commands
<1>2. PICK x \in Exchanges("TRANSCEIVE", frame) :
        /\ chip' = x.call.chip /\ card' = x.cards /\ buffer' = x.call.back.says
        /\ mf_pc' = IF x.call.status = "MI_OK" /\ x.call.back.bits = 144 THEN "halt" ELSE "pause"
  BY DEF Read
<1>3. UNCHANGED <<mfr_serial, mfr_last_serial, seen, asleep>> /\ mf_pc = "read"
  BY DEF Read
<1> HIDE DEF frame
<1>4. CASE mf_pc' = "pause"
  BY <1>1, <1>2, <1>3, <1>4, OtherCalls DEF ReaderInv
<1>5. CASE mf_pc' = "halt"
  <2>1. x.call.status = "MI_OK" /\ x.call.back.bits = 144
    BY <1>2, <1>5
  <2>2. /\ x.cards \in [Cards -> States]
        /\ \A c \in Cards : card[c] = "halted" => x.cards[c] = "halted"
        /\ x.call.chip = [irq |-> x.call.chip.irq, timer |-> x.call.chip.timer,
                          fifo |-> x.call.chip.fifo, late |-> x.call.chip.late,
                          crypto |-> x.call.chip.crypto]
        /\ x.call.chip.crypto = chip.crypto
    BY <1>1, <1>2, ExchangeIs DEF ReaderInv
  <2>3. ChipRecord /\ card \in [Cards -> States] /\ x.call.status # "MI_ERR"
    BY <2>1 DEF ReaderInv
  <2>4. PICK c \in Cards : \E y, noise :
          /\ Understands(c, frame) /\ x.cards[c] = Hears(c, frame)
          /\ Replies(c, frame) = {y} /\ x.call.back = Received(y, noise)
          /\ noise \in Noises(frame.cmd) \ {"garbled", "lost", "late"}
    BY <1>1, <2>3, ExchangeIs
  <2>5. PICK y, noise :
          /\ Understands(c, frame) /\ x.cards[c] = Hears(c, frame)
          /\ Replies(c, frame) = {y} /\ x.call.back = Received(y, noise)
          /\ noise \in Noises(frame.cmd) \ {"garbled", "lost", "late"}
    BY <2>4
  <2>6. c = chip.crypto /\ c = mfr_serial /\ card[c] = "authed" /\ x.cards[c] = "authed"
    BY <1>1, <1>3, <2>5 DEF Understands, Hears, ReaderInv
  <2>7. c \notin asleep
    BY <2>6 DEF ReaderInv
  <2>8. UncheckedFlips \/ x.call.back.says = c
    <3>1. y = [bits |-> 144, says |-> c]
      BY <1>1, <2>5 DEF Replies
    <3>2. noise \in {"clear", "refused"} \/ UncheckedFlips
      BY <1>1, <2>5 DEF Noises
    <3>3. noise # "refused"
      BY <2>1, <2>5 DEF Received
    <3> QED BY <2>5, <3>1, <3>2, <3>3 DEF Received
  <2> QED BY <1>2, <1>3, <1>5, <2>2, <2>6, <2>7, <2>8 DEF ReaderInv, ChipRecord
<1> QED BY <1>2, <1>4, <1>5

LEMMA HaltKeepsReader ==
  ASSUME ReaderInv, CounterIsFirst, Halt
  PROVE  ReaderInv'
<1> DEFINE frame == Frame("HALT", chip.crypto)
<1>1. frame.cmd = "HALT" /\ frame.cmd \in Commands /\ frame.serial = chip.crypto
  BY DEF Frame, Commands
<1>2. PICK x \in Exchanges("TRANSCEIVE", frame) : chip' = x.call.chip /\ card' = x.cards
  BY DEF Halt
<1>3. /\ mf_pc = "halt" /\ mf_pc' = "store" /\ UNCHANGED <<mfr_serial, mfr_last_serial, buffer, seen>>
      /\ asleep' = asleep \cup ({mfr_serial} \cap {c \in Cards : card'[c] # card[c]})
  BY DEF Halt
<1> HIDE DEF frame
<1>4. /\ x.cards \in [Cards -> States]
      /\ \A c \in Cards : card[c] = "halted" => x.cards[c] = "halted"
      /\ x.call.chip = [irq |-> x.call.chip.irq, timer |-> x.call.chip.timer,
                        fifo |-> x.call.chip.fifo, late |-> x.call.chip.late,
                        crypto |-> x.call.chip.crypto]
  BY <1>1, <1>2, ExchangeIs DEF ReaderInv
<1>5. ASSUME x.cards[mfr_serial] # card[mfr_serial] PROVE x.cards[mfr_serial] = "halted"
  <2>1. mfr_serial \in Cards /\ chip.crypto = mfr_serial /\ card[mfr_serial] \in {"authed", "idle", "away"}
    BY <1>3 DEF ReaderInv
  <2>2. x.cards[mfr_serial] \in {card[mfr_serial], Hears(mfr_serial, frame)}
    BY <1>1, <2>1, ExchangeIs DEF ReaderInv
  <2>3. card[mfr_serial] = "authed"
    BY <1>1, <1>5, <2>1, <2>2 DEF Hears, Understands
  <2> QED BY <1>1, <1>5, <2>1, <2>2, <2>3 DEF Hears, Understands
<1>6. \A c \in asleep' : c \in Cards /\ card'[c] = "halted"
  BY <1>2, <1>3, <1>4, <1>5 DEF ReaderInv
<1> QED BY <1>2, <1>3, <1>4, <1>6 DEF ReaderInv, ChipRecord

LEMMA NextReaderInv ==
  ASSUME ReaderInv, CounterIsFirst, [MfNext]_mfVars
  PROVE  ReaderInv'
<1>1. CASE UNCHANGED mfVars
  BY <1>1 DEF mfVars, ReaderInv, ChipRecord
<1>2. CASE Pause \/ Store
  BY <1>2 DEF Pause, Store, ReaderInv, ChipRecord
<1>3. CASE Request
  <2> DEFINE frame == Frame("REQIDL", NoSerial)
  <2>1. frame.cmd \in Commands
    BY DEF Frame, Commands
  <2>2. PICK x \in Exchanges("TRANSCEIVE", frame) :
          chip' = x.call.chip /\ card' = x.cards /\ mf_pc' \in {"anticoll", "pause"}
    BY <1>3 DEF Request
  <2>3. UNCHANGED <<mfr_last_serial, seen, asleep>>
    BY <1>3 DEF Request
  <2> HIDE DEF frame
  <2> QED BY <2>1, <2>2, <2>3, OtherCalls DEF ReaderInv
<1>4. CASE SelectTag
  <2> DEFINE frame == Frame("SELECT", mfr_serial)
  <2>1. frame.cmd \in Commands
    BY DEF Frame, Commands
  <2>2. PICK x \in Exchanges("TRANSCEIVE", frame) :
          chip' = x.call.chip /\ card' = x.cards /\ mf_pc' = "auth"
    BY <1>4 DEF SelectTag
  <2>3. UNCHANGED <<mfr_last_serial, seen, asleep>>
    BY <1>4 DEF SelectTag
  <2> HIDE DEF frame
  <2> QED BY <2>1, <2>2, <2>3, OtherCalls DEF ReaderInv
<1>5. CASE LateAnswer \/ LateTimer
  <2>1. UNCHANGED <<mf_pc, mfr_serial, mfr_last_serial, buffer, card, seen, asleep>>
    BY <1>5 DEF LateAnswer, LateTimer
  <2>2. PICK i, a, b, l : chip' = [irq |-> i, timer |-> a, fifo |-> b, late |-> l, crypto |-> chip.crypto]
    <3>1. CASE LateAnswer
      <4> DEFINE i == chip.irq \cup {"rx"}
                 b == chip.fifo \o SetToSeq(chip.late)
      <4>1. chip' = [chip EXCEPT !.fifo = b, !.irq = i, !.late = {}, !.timer = FALSE]
        BY <3>1 DEF LateAnswer
      <4> HIDE DEF i, b
      <4>2. chip' = [irq |-> i, timer |-> FALSE, fifo |-> b, late |-> {}, crypto |-> chip.crypto]
        BY <4>1 DEF ReaderInv, ChipRecord
      <4> QED BY <4>2
    <3>2. CASE LateTimer
      <4> DEFINE i == chip.irq \cup {"timer"}
      <4>1. chip' = [chip EXCEPT !.irq = i, !.timer = FALSE]
        BY <3>2 DEF LateTimer
      <4> HIDE DEF i
      <4>2. chip' = [irq |-> i, timer |-> FALSE, fifo |-> chip.fifo, late |-> chip.late,
                     crypto |-> chip.crypto]
        BY <4>1 DEF ReaderInv, ChipRecord
      <4> QED BY <4>2
    <3> QED BY <1>5, <3>1, <3>2
  <2>3. ChipRecord' /\ chip'.crypto = chip.crypto
    BY <2>2 DEF ChipRecord
  <2> QED BY <2>1, <2>3 DEF ReaderInv
<1>6. CASE Restart
  <2>1. /\ mf_pc' = "pause" /\ mfr_last_serial' = NoSerial /\ asleep' = {} /\ chip' = Reset
        /\ card' = [c \in Cards |-> IF card[c] = "away" THEN "away" ELSE "idle"]
    BY <1>6 DEF Restart
  <2>2. ChipRecord'
    BY <2>1 DEF ChipRecord, Reset
  <2> QED BY <2>1, <2>2 DEF ReaderInv, States
<1>7. CASE \E c \in Cards : CardArrives(c) \/ CardLeaves(c)
  <2>1. PICK c \in Cards : CardArrives(c) \/ CardLeaves(c)
    BY <1>7
  <2>2. /\ UNCHANGED <<mf_pc, mfr_serial, mfr_last_serial, buffer, chip, seen>>
        /\ asleep' \subseteq asleep
        /\ \/ card' = [card EXCEPT ![c] = "idle"] /\ card[c] = "away"
           \/ card' = [card EXCEPT ![c] = "away"] /\ asleep' = asleep \ {c}
    BY <2>1 DEF CardArrives, CardLeaves
  <2>3. card' \in [Cards -> States] /\ \A d \in asleep' : d \in Cards /\ card'[d] = "halted"
    BY <2>2 DEF ReaderInv, States
  <2>4. mf_pc = "halt" => card'[mfr_serial] \in {"authed", "idle", "away"}
    BY <2>2 DEF ReaderInv
  <2> QED BY <2>2, <2>3, <2>4 DEF ReaderInv, ChipRecord
<1> QED BY <1>1, <1>2, <1>3, <1>4, <1>5, <1>6, <1>7, AnticollKeepsReader, AuthKeepsReader,
           ReadKeepsReader, HaltKeepsReader DEF MfNext

\* With any number of cards in the field, coming and going between any two calls,
\* and frames and answers lost, late or damaged.
THEOREM ReaderInvariant == CounterIsFirst /\ MfSpec => []ReaderInv
<1> SUFFICES ASSUME CounterIsFirst PROVE MfSpec => []ReaderInv
  OBVIOUS
<1>1. MfInit => ReaderInv
  <2> SUFFICES ASSUME MfInit PROVE ReaderInv
    OBVIOUS
  <2>1. ChipRecord
    BY DEF MfInit, Reset, ChipRecord
  <2> QED BY <2>1 DEF MfInit, ReaderInv, States
<1>2. ReaderInv /\ [MfNext]_mfVars => ReaderInv'
  BY NextReaderInv
<1> QED BY <1>1, <1>2, PTL DEF MfSpec

\* The record that is stored belongs to the serial number it is stored under.
THEOREM RecordsBelong == CounterIsFirst /\ UncheckedFlips = FALSE /\ MfSpec => []RecordOfSerial
<1> SUFFICES ASSUME CounterIsFirst, UncheckedFlips = FALSE PROVE MfSpec => []RecordOfSerial
  OBVIOUS
<1>1. ReaderInv => RecordOfSerial
  BY DEF ReaderInv, RecordOfSerial
<1>2. MfSpec => []ReaderInv
  BY ReaderInvariant
<1> QED BY <1>1, <1>2, PTL

\* The serial number that is remembered has been answered by a card.
THEOREM RememberedIsReal == CounterIsFirst /\ MfSpec => []RememberedWasSeen
<1> SUFFICES ASSUME CounterIsFirst PROVE MfSpec => []RememberedWasSeen
  OBVIOUS
<1>1. ReaderInv => RememberedWasSeen
  BY DEF ReaderInv, RememberedWasSeen
<1>2. MfSpec => []ReaderInv
  BY ReaderInvariant
<1> QED BY <1>1, <1>2, PTL

\* A card that was sent to sleep is not read again before it has left the field.
THEOREM HaltedStayUnread == CounterIsFirst /\ MfSpec => []SleepersStayUnread
<1> SUFFICES ASSUME CounterIsFirst PROVE MfSpec => []SleepersStayUnread
  OBVIOUS
<1>1. ReaderInv => SleepersStayUnread
  BY DEF ReaderInv, SleepersStayUnread
<1>2. MfSpec => []ReaderInv
  BY ReaderInvariant
<1> QED BY <1>1, <1>2, PTL

-----------------------------------------------------------------------------
(* The modem. *)

Pieces == {"OK", "FTPPUT:", "READY", "CLOSED", "LENGTH", "ERROR"}

\* What the driver has still to read, in order.
Stream == port \o reply

\* An announcement is followed by what it announces.
Paired(s) == \A i \in 1 .. Len(s) : s[i] = "FTPPUT:" => i < Len(s) /\ s[i + 1] # "FTPPUT:"

\* The modem's demand for data is in s.
Demands(s) == \E i \in 1 .. Len(s) : s[i] = "LENGTH"

\* The demand comes last, and the driver will match it or has matched its beginning.
DemandIsLast(s, matched) ==
  \A i \in 1 .. Len(s) :
    s[i] = "LENGTH" => i = Len(s) /\ (IF i = 1 THEN matched = 1 ELSE s[i - 1] = "FTPPUT:")

\* The modem waits for data only while the driver has still to read that it does,
\* or writes as many bytes as it waits for.
ModemInv ==
  /\ port \in Seq(Pieces) /\ reply \in Seq(Pieces)
  /\ size \in Nat /\ n \in Nat /\ want \in Nat /\ sent \in Nat
  /\ Paired(Stream)
  /\ DemandIsLast(Stream, ptr)
  /\ ptr \in {0, 1}
  /\ ptr = 1 => Len(Expected) = 2 /\ Stream # <<>> /\ Stream[1] # "FTPPUT:"
  /\ op = "idle" <=> stage = "idle"
  /\ stage = "bytes" => op = "data" /\ want = n /\ ptr = 0
  /\ Demands(Stream) => want > 0 /\ stage = "answer"
  /\ want > 0 /\ stage # "bytes" => stage = "answer" /\ op = "data" /\ want = size /\ Demands(Stream)
  /\ DataInOrder

\* What the modem says, and which of it is a demand.
Ordinary == {OK, ERROR, OK \o plusFTP_PUT, OK \o plusFTP_PUT_Closed}

LEMMA WhatIsSaid ==
  /\ \A p \in Ordinary : p \in Seq(Pieces) /\ Paired(p) /\ ~ Demands(p)
  /\ plusFTP_PUT_Length \in Seq(Pieces) /\ Paired(plusFTP_PUT_Length)
<1>1. OK \in Seq(Pieces) /\ plusFTP_PUT \in Seq(Pieces) /\ plusFTP_PUT_Closed \in Seq(Pieces)
      /\ plusFTP_PUT_Length \in Seq(Pieces) /\ ERROR \in Seq(Pieces)
  BY DEF OK, plusFTP_PUT, plusFTP_PUT_Closed, plusFTP_PUT_Length, ERROR, Pieces
<1>2. Paired(OK) /\ ~ Demands(OK) /\ Paired(ERROR) /\ ~ Demands(ERROR)
  BY DEF OK, ERROR, Paired, Demands
<1>3. Paired(plusFTP_PUT_Length)
  BY DEF plusFTP_PUT_Length, Paired
<1>4. ASSUME NEW q \in Seq(Pieces), Len(q) = 2, q[1] = "FTPPUT:", q[2] \in {"READY", "CLOSED"}
      PROVE  OK \o q \in Seq(Pieces) /\ Paired(OK \o q) /\ ~ Demands(OK \o q)
  <2>1. Len(OK) = 1 /\ OK[1] = "OK"
    BY DEF OK
  <2>2. /\ OK \o q \in Seq(Pieces) /\ Len(OK \o q) = Len(OK) + Len(q)
        /\ \A i \in 1 .. Len(OK) + Len(q) : (OK \o q)[i] = IF i <= Len(OK) THEN OK[i] ELSE q[i - Len(OK)]
    BY <1>1, <1>4, ConcatProperties
  <2>3. Len(OK \o q) = 3 /\ (OK \o q)[1] = OK[1] /\ (OK \o q)[2] = q[1] /\ (OK \o q)[3] = q[2]
    BY <1>4, <2>1, <2>2
  <2> QED BY <1>4, <2>1, <2>2, <2>3 DEF Paired, Demands
<1>5. /\ Len(plusFTP_PUT) = 2 /\ plusFTP_PUT[1] = "FTPPUT:" /\ plusFTP_PUT[2] = "READY"
      /\ Len(plusFTP_PUT_Closed) = 2 /\ plusFTP_PUT_Closed[1] = "FTPPUT:"
      /\ plusFTP_PUT_Closed[2] = "CLOSED"
  BY DEF plusFTP_PUT, plusFTP_PUT_Closed
<1> QED BY <1>1, <1>2, <1>3, <1>4, <1>5 DEF Ordinary

LEMMA SaidLater ==
  ASSUME NEW s \in Seq(Pieces), NEW p \in Seq(Pieces), Paired(s), Paired(p)
  PROVE  /\ s \o p \in Seq(Pieces) /\ Paired(s \o p)
         /\ ~ Demands(s) /\ ~ Demands(p) => ~ Demands(s \o p)
         /\ s # <<>> => s \o p # <<>> /\ (s \o p)[1] = s[1]
<1>1. s \o p \in Seq(Pieces) /\ Len(s \o p) = Len(s) + Len(p)
      /\ Len(s) \in Nat /\ Len(p) \in Nat
  OBVIOUS
<1>2. \A i \in 1 .. Len(s) + Len(p) : (s \o p)[i] = IF i <= Len(s) THEN s[i] ELSE p[i - Len(s)]
  OBVIOUS
<1>3. Paired(s \o p)
  <2> SUFFICES ASSUME NEW i \in 1 .. Len(s) + Len(p), (s \o p)[i] = "FTPPUT:"
               PROVE  i < Len(s) + Len(p) /\ (s \o p)[i + 1] # "FTPPUT:"
    BY <1>1 DEF Paired
  <2>1. CASE i <= Len(s)
    BY <1>1, <1>2, <2>1 DEF Paired
  <2>2. CASE i > Len(s)
    <3> DEFINE j == i - Len(s)
    <3>1. j \in 1 .. Len(p) /\ p[j] = "FTPPUT:"
      BY <1>1, <1>2, <2>2
    <3>2. j < Len(p) /\ p[j + 1] # "FTPPUT:"
      BY <3>1 DEF Paired
    <3> QED BY <1>1, <1>2, <2>2, <3>2
  <2> QED BY <1>1, <2>1, <2>2
<1>4. ~ Demands(s) /\ ~ Demands(p) => ~ Demands(s \o p)
  <2> SUFFICES ASSUME ~ Demands(s), ~ Demands(p), NEW i \in 1 .. Len(s) + Len(p), (s \o p)[i] = "LENGTH"
               PROVE  FALSE
    BY <1>1 DEF Demands
  <2>1. CASE i <= Len(s)
    BY <1>1, <1>2, <2>1 DEF Demands
  <2>2. CASE i > Len(s)
    <3>1. i - Len(s) \in 1 .. Len(p) /\ p[i - Len(s)] = "LENGTH"
      BY <1>1, <1>2, <2>2
    <3> QED BY <3>1 DEF Demands
  <2> QED BY <1>1, <2>1, <2>2
<1>5. s # <<>> => s \o p # <<>> /\ (s \o p)[1] = s[1]
  <2> SUFFICES ASSUME s # <<>> PROVE s \o p # <<>> /\ (s \o p)[1] = s[1]
    OBVIOUS
  <2>1. Len(s) >= 1
    BY EmptySeq
  <2>2. (s \o p)[1] = s[1] /\ Len(s \o p) # 0
    BY <1>1, <1>2, <2>1
  <2> QED BY <2>2
<1> QED BY <1>1, <1>3, <1>4, <1>5

LEMMA ReadOne ==
  ASSUME NEW s \in Seq(Pieces), s # <<>>, Paired(s)
  PROVE  /\ Tail(s) \in Seq(Pieces) /\ Len(Tail(s)) = Len(s) - 1 /\ Len(s) \in Nat \ {0}
         /\ \A i \in 1 .. Len(s) - 1 : Tail(s)[i] = s[i + 1]
         /\ Paired(Tail(s))
         /\ Demands(Tail(s)) => Demands(s)
<1>1. /\ Tail(s) \in Seq(Pieces) /\ Len(Tail(s)) = Len(s) - 1 /\ Len(s) \in Nat \ {0}
      /\ \A i \in 1 .. Len(s) - 1 : Tail(s)[i] = s[i + 1]
  BY HeadTailProperties, EmptySeq
<1>2. Paired(Tail(s))
  <2> SUFFICES ASSUME NEW i \in 1 .. Len(s) - 1, Tail(s)[i] = "FTPPUT:"
               PROVE  i < Len(s) - 1 /\ Tail(s)[i + 1] # "FTPPUT:"
    BY <1>1 DEF Paired
  <2>1. i + 1 \in 1 .. Len(s) /\ s[i + 1] = "FTPPUT:"
    BY <1>1
  <2>2. i + 1 < Len(s) /\ s[i + 1 + 1] # "FTPPUT:"
    BY <2>1 DEF Paired
  <2> QED BY <1>1, <2>2
<1>3. Demands(Tail(s)) => Demands(s)
  <2> SUFFICES ASSUME NEW i \in 1 .. Len(s) - 1, Tail(s)[i] = "LENGTH" PROVE Demands(s)
    BY <1>1 DEF Demands
  <2>1. i + 1 \in 1 .. Len(s) /\ s[i + 1] = "LENGTH"
    BY <1>1
  <2> QED BY <2>1 DEF Demands
<1> QED BY <1>1, <1>2, <1>3

\* The line between the modem and the driver.
LEMMA LineIs ==
  ASSUME port \in Seq(Pieces), reply \in Seq(Pieces)
  PROVE  /\ Stream \in Seq(Pieces)
         /\ port # <<>> => Stream # <<>> /\ Tail(port) \in Seq(Pieces)
                           /\ Tail(port) \o reply = Tail(Stream) /\ Head(port) = Stream[1]
         /\ reply # <<>> => /\ Append(port, Head(reply)) \in Seq(Pieces) /\ Tail(reply) \in Seq(Pieces)
                            /\ Append(port, Head(reply)) \o Tail(reply) = Stream
         /\ \A p \in Seq(Pieces) : reply \o p \in Seq(Pieces) /\ port \o (reply \o p) = Stream \o p
         /\ port = <<>> => Stream = reply
<1>1. Stream \in Seq(Pieces)
  BY DEF Stream
<1>2. port # <<>> => Stream # <<>> /\ Tail(port) \in Seq(Pieces)
                     /\ Tail(port) \o reply = Tail(Stream) /\ Head(port) = Stream[1]
  <2> SUFFICES ASSUME port # <<>>
               PROVE  Stream # <<>> /\ Tail(port) \in Seq(Pieces)
                     /\ Tail(port) \o reply = Tail(Stream) /\ Head(port) = Stream[1]
    OBVIOUS
  <2>1. Len(port) \in Nat \ {0} /\ Len(reply) \in Nat /\ Tail(port) \in Seq(Pieces)
        /\ Len(Tail(port)) = Len(port) - 1
        /\ \A i \in 1 .. Len(port) - 1 : Tail(port)[i] = port[i + 1]
    BY HeadTailProperties, EmptySeq
  <2>2. Len(Stream) = Len(port) + Len(reply)
        /\ \A i \in 1 .. Len(port) + Len(reply) :
             Stream[i] = IF i <= Len(port) THEN port[i] ELSE reply[i - Len(port)]
    BY DEF Stream
  <2>3. Stream # <<>> /\ Head(port) = Stream[1]
    BY <2>1, <2>2
  <2>4. Tail(Stream) \in Seq(Pieces) /\ Len(Tail(Stream)) = Len(Stream) - 1
        /\ \A i \in 1 .. Len(Stream) - 1 : Tail(Stream)[i] = Stream[i + 1]
    BY <1>1, <2>3, HeadTailProperties
  <2>5. Tail(port) \o reply \in Seq(Pieces) /\ Len(Tail(port) \o reply) = Len(Tail(port)) + Len(reply)
        /\ \A i \in 1 .. Len(Tail(port)) + Len(reply) :
             (Tail(port) \o reply)[i] =
               IF i <= Len(Tail(port)) THEN Tail(port)[i] ELSE reply[i - Len(Tail(port))]
    BY <2>1
  <2>6. Len(Tail(port) \o reply) = Len(Tail(Stream))
    BY <2>1, <2>2, <2>4, <2>5
  <2>7. ASSUME NEW i \in 1 .. Len(Tail(Stream)) PROVE (Tail(port) \o reply)[i] = Tail(Stream)[i]
    <3>1. i \in Nat /\ i >= 1 /\ i <= Len(port) + Len(reply) - 1
      BY <2>1, <2>2, <2>4
    <3>2. CASE i <= Len(port) - 1
      BY <2>1, <2>2, <2>4, <2>5, <3>1, <3>2
    <3>3. CASE i > Len(port) - 1
      <4>1. i - Len(Tail(port)) = i + 1 - Len(port)
        BY <2>1, <3>1
      <4> QED BY <2>1, <2>2, <2>4, <2>5, <3>1, <3>3, <4>1
    <3> QED BY <2>1, <3>1, <3>2, <3>3
  <2>8. Tail(port) \o reply = Tail(Stream)
    BY <2>4, <2>5, <2>6, <2>7, SeqEqual
  <2> QED BY <2>1, <2>3, <2>8
<1>3. reply # <<>> => /\ Append(port, Head(reply)) \in Seq(Pieces) /\ Tail(reply) \in Seq(Pieces)
                      /\ Append(port, Head(reply)) \o Tail(reply) = Stream
  <2> SUFFICES ASSUME reply # <<>>
               PROVE  /\ Append(port, Head(reply)) \in Seq(Pieces) /\ Tail(reply) \in Seq(Pieces)
                      /\ Append(port, Head(reply)) \o Tail(reply) = Stream
    OBVIOUS
  <2>1. Head(reply) \in Pieces /\ Tail(reply) \in Seq(Pieces) /\ <<Head(reply)>> \in Seq(Pieces)
        /\ <<Head(reply)>> \o Tail(reply) = reply
    BY HeadTailProperties
  <2>2. Append(port, Head(reply)) = port \o <<Head(reply)>>
    BY <2>1, AppendIsConcat
  <2>3. (port \o <<Head(reply)>>) \o Tail(reply) = port \o (<<Head(reply)>> \o Tail(reply))
    BY <2>1, ConcatAssociative
  <2> QED BY <2>1, <2>2, <2>3 DEF Stream
<1>4. \A p \in Seq(Pieces) : reply \o p \in Seq(Pieces) /\ port \o (reply \o p) = Stream \o p
  BY ConcatAssociative DEF Stream
<1>5. port = <<>> => Stream = reply
  BY ConcatEmptySeq DEF Stream
<1> QED BY <1>1, <1>2, <1>3, <1>4, <1>5

LEMMA NothingIsWritten ==
  ASSUME ModemInv, sent' = sent, stored' = stored
  PROVE  DataInOrder'
  BY DEF ModemInv, DataInOrder

\* There is no demand on the line, and nothing waits for data, when no answer to a
\* length is waited for.
LEMMA NothingIsDemanded ==
  ASSUME ModemInv, stage \notin {"answer", "bytes"}
  PROVE  want = 0 /\ ~ Demands(Stream)
  BY DEF ModemInv

\* A command is obeyed, never taken for data, and only the length of a packet is
\* answered with a demand.
LEMMA CommandKeepsModem ==
  ASSUME ModemInv, NEW operation \in {"name", "open", "size", "data", "close"}, NEW length \in Nat,
         operation = "data" => length > 0, Command(operation, length)
  PROVE  ModemInv'
<1>1. /\ op = "idle" /\ op' = operation /\ stage' = "answer" /\ ptr' = 0 /\ size' = length
      /\ UNCHANGED <<n, port, sent>> /\ Take(operation, length)
  BY DEF Command
<1>2. want = 0 /\ ~ Demands(Stream)
  BY <1>1, NothingIsDemanded DEF ModemInv
<1>3. Obey(operation, length) /\ stored' = stored
  BY <1>1, <1>2 DEF Take, ModemInv
<1>4. \/ /\ want' = 0 /\ \E p \in Ordinary : reply' = reply \o p
      \/ operation = "data" /\ want' = length /\ reply' = reply \o plusFTP_PUT_Length
  BY <1>2, <1>3, Zenon DEF Obey, Refuse, Answer, Ordinary
<1>5. port \in Seq(Pieces) /\ reply \in Seq(Pieces) /\ Paired(Stream) /\ Stream \in Seq(Pieces)
  BY LineIs DEF ModemInv
<1>6. CASE want' = 0 /\ \E p \in Ordinary : reply' = reply \o p
  <2>1. PICK p \in Ordinary : reply' = reply \o p
    BY <1>6
  <2>2. reply' \in Seq(Pieces) /\ Stream' = Stream \o p
    BY <1>1, <1>5, <2>1, LineIs, WhatIsSaid DEF Stream
  <2>3. Paired(Stream') /\ ~ Demands(Stream')
    BY <1>2, <1>5, <2>2, SaidLater, WhatIsSaid
  <2> HIDE DEF Ordinary, Stream
  <2>4. DemandIsLast(Stream', 0)
    BY <2>3 DEF DemandIsLast, Demands
  <2> QED BY <1>1, <1>3, <1>6, <2>2, <2>3, <2>4, NothingIsWritten DEF ModemInv
<1>7. CASE operation = "data" /\ want' = length /\ reply' = reply \o plusFTP_PUT_Length
  <2>1. reply' \in Seq(Pieces) /\ Stream' = Stream \o plusFTP_PUT_Length
    BY <1>1, <1>5, <1>7, LineIs, WhatIsSaid DEF Stream
  <2>2. Paired(Stream') /\ Stream' \in Seq(Pieces)
    BY <1>5, <2>1, SaidLater, WhatIsSaid
  <2>3. /\ Len(plusFTP_PUT_Length) = 2 /\ plusFTP_PUT_Length[1] = "FTPPUT:"
        /\ plusFTP_PUT_Length[2] = "LENGTH"
    BY DEF plusFTP_PUT_Length
  <2>4. /\ Len(Stream') = Len(Stream) + 2 /\ Len(Stream) \in Nat
        /\ \A i \in 1 .. Len(Stream) : Stream'[i] = Stream[i]
        /\ Stream'[Len(Stream) + 1] = "FTPPUT:" /\ Stream'[Len(Stream) + 2] = "LENGTH"
    <3> DEFINE line == Stream \o plusFTP_PUT_Length
    <3>1. /\ Len(line) = Len(Stream) + 2 /\ Len(Stream) \in Nat
          /\ \A i \in 1 .. Len(Stream) + 2 :
               line[i] = IF i <= Len(Stream) THEN Stream[i] ELSE plusFTP_PUT_Length[i - Len(Stream)]
      <4>1. plusFTP_PUT_Length \in Seq(Pieces) /\ Len(Stream) \in Nat
        BY <1>5, WhatIsSaid, LenProperties
      <4>2. /\ Len(line) = Len(Stream) + Len(plusFTP_PUT_Length)
            /\ \A i \in 1 .. Len(Stream) + Len(plusFTP_PUT_Length) :
                 line[i] = IF i <= Len(Stream) THEN Stream[i] ELSE plusFTP_PUT_Length[i - Len(Stream)]
        BY <1>5, <4>1, ConcatProperties
      <4> HIDE DEF line
      <4> QED BY <2>3, <4>1, <4>2
    <3> HIDE DEF line
    <3>2. line[Len(Stream) + 1] = plusFTP_PUT_Length[1] /\ line[Len(Stream) + 2] = plusFTP_PUT_Length[2]
      BY <3>1
    <3>3. Stream' = line
      BY <2>1 DEF line
    <3> QED BY <2>3, <3>1, <3>2, <3>3
  <2>5. Demands(Stream')
    BY <2>4 DEF Demands
  <2>6. DemandIsLast(Stream', 0)
    <3> SUFFICES ASSUME NEW i \in 1 .. Len(Stream) + 2, Stream'[i] = "LENGTH"
                 PROVE  i = Len(Stream) + 2 /\ i # 1 /\ Stream'[i - 1] = "FTPPUT:"
      BY <2>4 DEF DemandIsLast
    <3>1. ~ i \in 1 .. Len(Stream)
      BY <1>2, <2>4 DEF Demands
    <3>2. i # Len(Stream) + 1
      BY <2>4
    <3>3. i = Len(Stream) + 2 /\ i - 1 = Len(Stream) + 1
      BY <2>4, <3>1, <3>2
    <3> QED BY <2>4, <3>3
  <2> QED BY <1>1, <1>3, <1>7, <2>1, <2>2, <2>5, <2>6, NothingIsWritten DEF ModemInv
<1> QED BY <1>4, <1>6, <1>7

\* A wait that ends without an answer leaves nothing behind that would be taken
\* for a demand.
LEMMA GivingUpKeepsModem ==
  ASSUME ModemInv, GoOn(FALSE), UNCHANGED <<port, modemVars, sent, stored>>,
         want = 0, ~ Demands(Stream), stage \notin {"idle", "bytes"}
  PROVE  ModemInv'
<1>1. /\ stage' \in {"match", "closed", "OK", "idle"} /\ ptr' = 0 /\ n' = 0 /\ size' = size
      /\ op' = IF stage' = "idle" THEN "idle" ELSE op
  BY DEF GoOn, Following
<1>2. UNCHANGED <<port, reply, want, sent, stored>>
  BY DEF modemVars
<1>3. Stream' = Stream
  BY <1>2 DEF Stream
<1>4. DemandIsLast(Stream, 0)
  BY DEF DemandIsLast, Demands
<1> QED BY <1>1, <1>2, <1>3, <1>4, NothingIsWritten DEF ModemInv

\* The expected answers have one piece, or two the first of which announces.
LEMMA ExpectedIs ==
  /\ Len(Expected) \in {1, 2}
  /\ Len(Expected) = 2 => Expected[1] = "FTPPUT:"
  /\ stage = "answer" /\ op = "data" => Expected = plusFTP_PUT_Length
<1>1. Expected \in {OK, plusFTP_PUT, plusFTP_PUT_Closed, plusFTP_PUT_Length}
      /\ (stage = "answer" /\ op = "data" => Expected = plusFTP_PUT_Length)
  BY DEF Expected
<1> QED BY <1>1 DEF OK, plusFTP_PUT, plusFTP_PUT_Closed, plusFTP_PUT_Length

LEMMA MatchKeepsModem ==
  ASSUME ModemInv, matchResponse
  PROVE  ModemInv'
<1> DEFINE matched == IF Head(port) = Expected[ptr + 1] THEN ptr + 1 ELSE 0
<1>1. /\ port # <<>> /\ port' = Tail(port) /\ UNCHANGED <<reply, want, session, sent, stored>>
      /\ stage \in {"answer", "closed", "OK", "put", "match"}
      /\ IF matched = Len(Expected) THEN GoOn(TRUE)
         ELSE ptr' = matched /\ UNCHANGED <<op, stage, size, n>>
  BY DEF matchResponse, Waits, modemVars
<1>2. /\ port \in Seq(Pieces) /\ reply \in Seq(Pieces) /\ Paired(Stream) /\ Stream \in Seq(Pieces)
      /\ ptr \in {0, 1}
  BY LineIs DEF ModemInv
<1>3. Stream # <<>> /\ port' \in Seq(Pieces) /\ Stream' = Tail(Stream) /\ Head(port) = Stream[1]
  BY <1>1, <1>2, LineIs DEF Stream
<1>4. /\ Len(Stream') = Len(Stream) - 1 /\ Len(Stream) \in Nat \ {0}
      /\ \A i \in 1 .. Len(Stream) - 1 : Stream'[i] = Stream[i + 1]
      /\ Paired(Stream') /\ Stream' \in Seq(Pieces)
      /\ Demands(Stream') => Demands(Stream)
  BY <1>2, <1>3, ReadOne
<1>5. matched = IF Stream[1] = Expected[ptr + 1] THEN ptr + 1 ELSE 0
  BY <1>3
<1>6. op # "idle"
  BY <1>1 DEF ModemInv
<1> HIDE DEF matched
<1>7. ASSUME Demands(Stream)
      PROVE  /\ stage = "answer" /\ op = "data" /\ want = size /\ want > 0
             /\ Expected = plusFTP_PUT_Length
             /\ Len(Expected) = 2 /\ Expected[1] = "FTPPUT:" /\ Expected[2] = "LENGTH"
  <2>1. stage = "answer" /\ op = "data" /\ want = size /\ want > 0
    BY <1>1, <1>7 DEF ModemInv
  <2>2. Expected = plusFTP_PUT_Length
    BY <2>1, ExpectedIs
  <2> QED BY <2>1, <2>2 DEF plusFTP_PUT_Length
<1>8. ASSUME ~ Demands(Stream)
      PROVE  want = 0 /\ DemandIsLast(Stream', 0) /\ DemandIsLast(Stream', 1) /\ ~ Demands(Stream')
  <2>1. want = 0
    BY <1>1, <1>8 DEF ModemInv
  <2> QED BY <1>4, <1>8, <2>1 DEF DemandIsLast, Demands
<1>9. CASE matched = Len(Expected)
  <2>1. /\ stage' = Following(TRUE) /\ op' = IF stage' = "idle" THEN "idle" ELSE op
        /\ ptr' = 0 /\ n' = IF stage' = "bytes" THEN size ELSE 0
        /\ size' = size
    BY <1>1, <1>9 DEF GoOn
  <2>2. /\ n' \in Nat /\ size' \in Nat /\ want' \in Nat /\ sent' \in Nat
        /\ reply' \in Seq(Pieces) /\ DataInOrder'
    BY <1>1, <2>1, NothingIsWritten DEF ModemInv
  <2>3. op' = "idle" <=> stage' = "idle"
    BY <1>6, <2>1
  <2>4. ptr' = 0 /\ port' \in Seq(Pieces) /\ Paired(Stream')
    BY <1>3, <1>4, <2>1
  <2>5. CASE Demands(Stream)
    <3>1. ptr = 1 /\ Stream[1] = "LENGTH"
      <4>1. matched = 2 /\ Expected[2] = "LENGTH"
        BY <1>7, <1>9, <2>5
      <4>2. ptr = 1
        BY <1>2, <1>5, <4>1
      <4> QED BY <1>5, <4>1, <4>2
    <3>2. Len(Stream) = 1
      BY <1>4, <3>1 DEF ModemInv, DemandIsLast
    <3>3. Len(Stream') = 0
      BY <1>4, <3>2
    <3>4. DemandIsLast(Stream', 0) /\ ~ Demands(Stream')
      BY <3>3 DEF DemandIsLast, Demands
    <3>5. stage' = "bytes" /\ op' = "data" /\ n' = size /\ want' = size
      BY <1>1, <1>7, <2>1, <2>5 DEF Following
    <3> QED BY <2>2, <2>3, <2>4, <3>4, <3>5 DEF ModemInv
  <2>6. CASE ~ Demands(Stream)
    <3>1. stage' # "bytes"
      <4> SUFFICES ASSUME stage' = "bytes" PROVE FALSE
        OBVIOUS
      <4>1. stage = "answer" /\ op = "data"
        BY <2>1 DEF Following
      <4>2. Len(Expected) = 2 /\ Expected[2] = "LENGTH"
        BY <4>1, ExpectedIs DEF plusFTP_PUT_Length
      <4>3. Stream[1] = "LENGTH"
        BY <1>2, <1>5, <1>9, <4>2
      <4> QED BY <1>4, <2>6, <4>3 DEF Demands
    <3>2. want' = 0
      BY <1>1, <1>8, <2>6
    <3>3. ~ Demands(Stream') /\ DemandIsLast(Stream', 0)
      BY <1>8, <2>6
    <3> QED BY <2>2, <2>3, <2>4, <3>1, <3>2, <3>3 DEF ModemInv
  <2> QED BY <2>5, <2>6
<1>10. CASE matched # Len(Expected)
  <2>1. ptr' = matched /\ UNCHANGED <<op, stage, size, n>>
    BY <1>1, <1>10
  <2>2. Expected' = Expected
    BY <2>1 DEF Expected
  <2>3. /\ ptr' \in {0, 1}
        /\ ptr' = 1 => Len(Expected) = 2 /\ Stream' # <<>> /\ Stream'[1] # "FTPPUT:"
    <3>1. CASE matched = 0
      BY <2>1, <3>1
    <3>2. CASE matched # 0
      <4>1. matched = ptr + 1 /\ Stream[1] = Expected[ptr + 1]
        BY <1>5, <3>2
      <4>2. ptr = 0
        <5>1. ptr \in {0, 1} /\ (ptr = 1 => Len(Expected) = 2)
          BY DEF ModemInv
        <5>2. ptr = 1 => matched = 2
          BY <4>1
        <5> QED BY <1>10, <5>1, <5>2
      <4>3. Len(Expected) = 2 /\ Expected[1] = "FTPPUT:"
        BY <1>10, <4>1, <4>2, ExpectedIs
      <4>4. 1 < Len(Stream) /\ Stream[2] # "FTPPUT:"
        BY <1>2, <1>4, <4>1, <4>2, <4>3 DEF Paired
      <4>5. Stream'[1] = Stream[2] /\ Len(Stream') # 0
        BY <1>4, <4>4
      <4>6. Stream' # <<>>
        BY <4>5
      <4> QED BY <2>1, <4>1, <4>2, <4>3, <4>4, <4>5, <4>6
    <3> QED BY <3>1, <3>2
  <2>4. CASE ~ Demands(Stream)
    <3>1. DemandIsLast(Stream', ptr')
      BY <1>8, <2>3, <2>4
    <3> QED BY <1>1, <1>3, <1>4, <1>8, <2>1, <2>2, <2>3, <2>4, <3>1, NothingIsWritten DEF ModemInv
  <2>5. CASE Demands(Stream)
    <3>1. PICK k \in 1 .. Len(Stream) : Stream[k] = "LENGTH"
      BY <2>5 DEF Demands
    <3>2. k = Len(Stream) /\ IF k = 1 THEN ptr = 1 ELSE Stream[k - 1] = "FTPPUT:"
      BY <3>1 DEF ModemInv, DemandIsLast
    <3>3. k # 1
      BY <1>5, <1>7, <1>10, <2>5, <3>1, <3>2
    <3>4. k - 1 \in 1 .. Len(Stream) - 1 /\ Stream'[k - 1] = "LENGTH"
      BY <1>4, <3>1, <3>3
    <3>5. Demands(Stream')
      BY <1>4, <3>4 DEF Demands
    <3>6. DemandIsLast(Stream', ptr')
      <4> SUFFICES ASSUME NEW i \in 1 .. Len(Stream) - 1, Stream'[i] = "LENGTH"
                   PROVE  i = Len(Stream) - 1 /\ IF i = 1 THEN ptr' = 1 ELSE Stream'[i - 1] = "FTPPUT:"
        BY <1>4 DEF DemandIsLast
      <4>1. i + 1 \in 1 .. Len(Stream) /\ Stream[i + 1] = "LENGTH"
        BY <1>4
      <4>2. i + 1 = Len(Stream) /\ Stream[i] = "FTPPUT:"
        BY <4>1 DEF ModemInv, DemandIsLast
      <4>3. CASE i = 1
        <5>1. ptr = 0
          BY <4>2, <4>3 DEF ModemInv
        <5> QED BY <1>5, <1>7, <2>1, <2>5, <4>2, <4>3, <5>1
      <4>4. CASE i # 1
        <5>1. i - 1 \in 1 .. Len(Stream) - 1 /\ Stream'[i - 1] = Stream[i]
          BY <1>4, <4>4
        <5> QED BY <4>2, <4>4, <5>1
      <4> QED BY <4>2, <4>3, <4>4
    <3> QED BY <1>1, <1>3, <1>4, <1>7, <2>1, <2>2, <2>3, <2>5, <3>5, <3>6, NothingIsWritten DEF ModemInv
  <2> QED BY <2>4, <2>5
<1> QED BY <1>9, <1>10

LEMMA WriteKeepsModem ==
  ASSUME ModemInv, WriteByte
  PROVE  ModemInv'
<1>1. /\ stage = "bytes" /\ n > 0 /\ n' = n - 1 /\ sent' = sent + 1 /\ TakeByte(sent + 1)
      /\ UNCHANGED <<op, stage, size, ptr, port>>
  BY DEF WriteByte
<1>2. /\ want = n /\ ptr = 0 /\ op = "data" /\ ~ Demands(Stream)
      /\ n \in Nat /\ sent \in Nat
  BY <1>1 DEF ModemInv
<1>3. /\ stored' = Append(stored, sent + 1) /\ want' = want - 1
      /\ IF want = 1 THEN reply' = reply \o (OK \o plusFTP_PUT) ELSE reply' = reply
  BY <1>1, <1>2 DEF TakeByte, Answer
<1>4. DataInOrder'
  <2>1. stored = [i \in 1 .. sent |-> i]
    BY DEF ModemInv, DataInOrder
  <2>2. stored \in Seq(Nat) /\ Len(stored) = sent
    BY <1>2, <2>1
  <2> QED BY <1>1, <1>2, <1>3, <2>1, <2>2, AppendProperties DEF DataInOrder
<1>5. port \in Seq(Pieces) /\ reply \in Seq(Pieces) /\ Paired(Stream) /\ Stream \in Seq(Pieces)
  BY LineIs DEF ModemInv
<1>6. reply' \in Seq(Pieces) /\ Paired(Stream') /\ ~ Demands(Stream')
  <2>1. CASE reply' = reply
    <3>1. Stream' = Stream
      BY <1>1, <2>1 DEF Stream
    <3> QED BY <1>2, <1>5, <2>1, <3>1
  <2>2. CASE reply' = reply \o (OK \o plusFTP_PUT)
    <3> DEFINE p == OK \o plusFTP_PUT
    <3>1. p \in Seq(Pieces) /\ Paired(p) /\ ~ Demands(p)
      BY WhatIsSaid DEF Ordinary
    <3> HIDE DEF p
    <3>2. reply' = reply \o p
      BY <2>2 DEF p
    <3>3. reply' \in Seq(Pieces) /\ Stream' = Stream \o p
      BY <1>1, <1>5, <3>1, <3>2, LineIs DEF Stream
    <3> QED BY <1>2, <1>5, <3>1, <3>3, SaidLater
  <2> QED BY <1>3, <2>1, <2>2
<1>7. DemandIsLast(Stream', 0)
  BY <1>6 DEF DemandIsLast, Demands
<1> QED BY <1>1, <1>2, <1>3, <1>4, <1>6, <1>7 DEF ModemInv

LEMMA NextModemInv ==
  ASSUME ModemInv, "data" \in OnTime, [Next]_vars
  PROVE  ModemInv'
<1>1. CASE UNCHANGED vars
  <2>1. UNCHANGED <<op, stage, size, ptr, n, port, want, reply, sent, stored>>
    BY <1>1 DEF vars, driverVars, modemVars
  <2>2. Stream' = Stream /\ Expected' = Expected
    BY <2>1 DEF Stream, Expected
  <2> QED BY <2>1, <2>2, NothingIsWritten DEF ModemInv
<1>2. CASE updatePacketName \/ openPacketSession \/ sendPacketSize \/ closePacketSession
  <2>1. PICK operation \in {"name", "open", "size", "close"} : Command(operation, 0)
    BY <1>2 DEF updatePacketName, openPacketSession, sendPacketSize, closePacketSession
  <2> QED BY <2>1, CommandKeepsModem
<1>3. CASE sendPacketData
  <2>1. PICK length \in Sizes : Command("data", length)
    BY <1>3 DEF sendPacketData
  <2>2. length \in Nat /\ length > 0
    BY ModemAssumption
  <2> QED BY <2>1, <2>2, CommandKeepsModem
<1>4. CASE Timeout
  <2>1. /\ Waits /\ port = <<>> /\ GoOn(FALSE) /\ UNCHANGED <<port, modemVars, sent, stored>>
        /\ stage = "answer" /\ op = "data" => reply = <<>>
    BY <1>4 DEF Timeout
  <2>2. stage \notin {"idle", "bytes"} /\ (stage = "answer" /\ op = "data" => Stream = <<>>)
    BY <2>1, LineIs DEF Waits, ModemInv
  <2>3. ~ Demands(<<>>)
    BY DEF Demands
  <2>4. want = 0 /\ ~ Demands(Stream)
    BY <2>2, <2>3 DEF ModemInv
  <2> QED BY <2>1, <2>2, <2>4, GivingUpKeepsModem
<1>5. CASE NoMatch
  <2>1. stage = "match" /\ GoOn(FALSE) /\ UNCHANGED <<port, modemVars, sent, stored>>
    BY <1>5 DEF NoMatch
  <2> QED BY <2>1, NothingIsDemanded, GivingUpKeepsModem
<1>6. CASE BytesWritten
  <2>1. /\ stage = "bytes" /\ n = 0 /\ stage' = "OK"
        /\ UNCHANGED <<op, size, ptr, n, port, want, reply, sent, stored>>
    BY <1>6 DEF BytesWritten, modemVars
  <2>2. Stream' = Stream
    BY <2>1 DEF Stream
  <2> QED BY <2>1, <2>2, NothingIsWritten DEF ModemInv
<1>7. CASE Speak
  <2>1. /\ reply # <<>> /\ port' = Append(port, Head(reply)) /\ reply' = Tail(reply)
        /\ UNCHANGED <<op, stage, size, ptr, n, want, sent, stored>>
    BY <1>7 DEF Speak, driverVars
  <2>2. port' \in Seq(Pieces) /\ reply' \in Seq(Pieces) /\ Stream' = Stream
    BY <2>1, LineIs DEF ModemInv, Stream
  <2>3. Expected' = Expected
    BY <2>1 DEF Expected
  <2> QED BY <2>1, <2>2, <2>3, NothingIsWritten DEF ModemInv
<1> QED BY <1>1, <1>2, <1>3, <1>4, <1>5, <1>6, <1>7, MatchKeepsModem, WriteKeepsModem DEF Next, Driver

\* For packets of any size, and any number of answers late or left unread.
THEOREM ModemInvariant == "data" \in OnTime /\ Spec => []ModemInv
<1> SUFFICES ASSUME "data" \in OnTime PROVE Spec => []ModemInv
  OBVIOUS
<1>1. Init => ModemInv
  <2> SUFFICES ASSUME Init PROVE ModemInv
    OBVIOUS
  <2>1. Stream = <<>> /\ <<>> \in Seq(Pieces)
    BY DEF Init, Stream
  <2>2. Paired(<<>>) /\ DemandIsLast(<<>>, 0) /\ ~ Demands(<<>>)
    BY DEF Paired, DemandIsLast, Demands
  <2>3. DataInOrder
    BY DEF Init, DataInOrder
  <2> QED BY <2>1, <2>2, <2>3 DEF Init, ModemInv
<1>2. ModemInv /\ [Next]_vars => ModemInv'
  BY NextModemInv
<1> QED BY <1>1, <1>2, PTL DEF Spec

\* If the answer to the length of a packet is in time, what the modem takes for data
\* is exactly what was written, in order.
THEOREM DataIsInOrder == "data" \in OnTime /\ Spec => []DataInOrder
<1> SUFFICES ASSUME "data" \in OnTime PROVE Spec => []DataInOrder
  OBVIOUS
<1>1. ModemInv => DataInOrder
  BY DEF ModemInv
<1>2. Spec => []ModemInv
  BY ModemInvariant
<1> QED BY <1>1, <1>2, PTL

-----------------------------------------------------------------------------
(* Sd2Card. *)

\* A card busy for longer than this after a block of a sequence, which its caller
\* gave up to wait for, may still be busy at the start of the next sequence, whose
\* first blocks then go where the old one stood.
Prompt == \A d \in Durations : d <= WriteWait + 3 * CommandWait

\* What a block may hold, and the values of the driver and of the card.
SdContents == Data \cup {"erased", "torn"}
Dividers == {128} \cup {2 * 2 ^ r : r \in 0 .. 6}
Drivers ==
  [type : {"none", "SD1", "SD2", "SDHC"}, inBlock : BOOLEAN, block : Asked, offset : 0 .. Size,
   partial : BOOLEAN, cs : {"high", "low"}, divider : Dividers]
CardStates ==
  [phase : {"off", "idle", "ready", "sending", "receiving", "multi"}, at : Asked, to : Asked,
   pos : 0 .. Size, busy : Nat, spoilt : BOOLEAN]

\* The driver knows what card it talks to, and a busy card is one that has taken something.
Known(d, c) ==
  /\ d.type = "SDHC" <=> slot.kind = "SDHC"
  /\ c.phase \notin {"off", "idle"}
  /\ c.busy > 0 => c.phase \in {"ready", "multi"}

\* The open block is where the card's stream stands.
Synced(d, c) ==
  d.inBlock => /\ d.cs = "low" /\ c.phase = "sending" /\ c.busy = 0
               /\ d.block \in Blocks /\ c.at = d.block /\ c.pos = d.offset

\* The types, finer where the proof needs it than SdTypeOK.
SdTypes ==
  /\ blocks \in [Blocks -> SdContents] /\ drv \in Drivers /\ sd_card \in CardStates
  /\ slot \in SdCards /\ ready \in BOOLEAN /\ streaming \in -1 .. LastBlock + 1

\* The inductive invariant.  Outside of a sequence the card is selected only while a block
\* is open; within one it stays selected, and the card, if it took the command, is at the
\* next block.  A card left within a sequence is busy for no longer than three commands wait.
SdInv ==
  /\ SdTypes
  /\ drv.cs = "low" => drv.inBlock \/ streaming # -1
  /\ ready => Known(drv, sd_card)
  /\ drv.inBlock => ready /\ streaming = -1
  /\ Synced(drv, sd_card)
  /\ ready /\ sd_card.phase = "multi" =>
       sd_card.busy <= IF streaming = -1 THEN 3 * CommandWait ELSE WriteWait + 3 * CommandWait
  /\ streaming # -1 => /\ ready /\ drv.cs = "low" /\ sd_card.phase # "receiving"
                       /\ sd_card.phase = "multi" => sd_card.at = streaming
  /\ call.op = "size" /\ call.ok => call.got = <<<<"size", slot.c_size + 1>>>>

\* What a call may have in its hands.
SdPieces == Seq((SdContents \cup {"high", "size"}) \X Int)
Answers == {"none", "error", "idle", "ready", "illegal", "start", "accepted"}
Machines ==
  [blocks : [Blocks -> SdContents], drv : Drivers, card : CardStates, ok : BOOLEAN, val : Answers,
   got : SdPieces, hit : BOOLEAN, io : Int,
   wrong : {"none", "error"}, lasting : BOOLEAN, programmed : BOOLEAN,
   duration : Durations \cup {0}]

\* A machine that has not failed; one with no block open.
Good(m) == m \in Machines /\ m.ok /\ Synced(m.drv, m.card)
Closed(m) == m \in Machines /\ m.ok /\ ~ m.drv.inBlock

\* What a command does not touch.
Alike(m, y) ==
  /\ y.blocks = m.blocks /\ y.ok = m.ok /\ y.got = m.got
  /\ y.programmed = m.programmed /\ y.duration = m.duration

\* The card after a wait.
Waited(c, timeout) == [c EXCEPT !.busy = IF @ > timeout THEN @ - timeout ELSE 0]

\* Waiting leaves a card in one of its states.
LEMMA WaitedCard ==
  ASSUME NEW c \in CardStates, NEW timeout \in Nat
  PROVE  Waited(c, timeout) \in CardStates
BY DEF Waited, CardStates

\* waitNotBusy only lets time pass, and says whether the card came free within it.
LEMMA waitNotBusyLeaves ==
  ASSUME NEW m \in Machines, NEW timeout \in Nat
  PROVE  /\ waitNotBusy(m, timeout) \in Machines
         /\ waitNotBusy(m, timeout) =
              [m EXCEPT !.card = Waited(m.card, timeout), !.ok = m.card.busy <= timeout]
<1>1. m.card \in CardStates
  BY DEF Machines
<1>2. m.card.busy \in Nat
  BY <1>1 DEF CardStates
<1>3. waitNotBusy(m, timeout) = [m EXCEPT !.card = Waited(m.card, timeout), !.ok = m.card.busy <= timeout]
  BY <1>1 DEF waitNotBusy, Waited, Machines, CardStates
<1>4. Waited(m.card, timeout) \in CardStates /\ (m.card.busy <= timeout) \in BOOLEAN
  BY <1>1, <1>2, WaitedCard
<1> QED BY <1>3, <1>4 DEF Machines

\* An open block is closed wherever it was left.
LEMMA readEndCloses ==
  ASSUME NEW m, Good(m), CardAssumption
  PROVE  LET r == readEnd(m)
         IN  /\ Closed(r) /\ Alike(m, r) /\ r.val = m.val
             /\ r.drv.type = m.drv.type
             /\ ~ m.drv.inBlock => r = m
             /\ m.drv.inBlock => r.drv.cs = "high" /\ r.card = [m.card EXCEPT !.phase = "ready", !.pos = 0, !.at = 0]
<1>1. CASE ~ m.drv.inBlock
  BY <1>1 DEF readEnd, Good, Closed, Alike
<1>2. CASE m.drv.inBlock
  <2>1. m.drv \in Drivers /\ m.card \in CardStates
    BY DEF Good, Machines
  <2>2. m.card.pos = m.drv.offset /\ m.drv.offset \in Nat /\ SelectedIn(m, {"sending"})
    BY <1>2, <2>1, CardAssumption DEF Good, Synced, SelectedIn, Drivers
  <2> DEFINE c == [m.card EXCEPT !.phase = "ready", !.pos = 0, !.at = 0]
             d == [m.drv EXCEPT !.inBlock = FALSE, !.offset = 0, !.block = 0, !.cs = "high"]
  <2>3. m.card.pos + (Size + 1 - m.drv.offset) > Size
    BY <2>1, <2>2, CardAssumption DEF CardStates
  <2>6. Clock(m, Size + 1 - m.drv.offset) = [m EXCEPT !.card = c]
    BY <2>1, <2>2, <2>3 DEF Clock, Good, Machines, CardStates
  <2>4. readEnd(m) = [m EXCEPT !.card = c, !.drv = d]
    BY <2>1, <2>6, <1>2 DEF readEnd, ChipSelectHigh, Good, Machines, Drivers
  <2>7. 0 \in Asked /\ 0 \in 0 .. Size
    BY CardAssumption DEF Asked
  <2>8. c \in CardStates
    BY <2>1, <2>7 DEF CardStates
  <2>5. d \in Drivers /\ ~ d.inBlock /\ d.cs = "high" /\ d.type = m.drv.type
    BY <2>1, <2>7 DEF Drivers
  <2> QED BY <1>2, <2>4, <2>5, <2>8 DEF Good, Closed, Machines, Alike
<1> QED BY <1>1, <1>2

\* The machine when the command is put on the line, and what leaves it as it is.
Selected(d) == [d EXCEPT !.cs = "low"]
Sent(m) == [m EXCEPT !.drv = Selected(m.drv), !.card = Waited(m.card, CommandWait)]

\* No command was heard: none or a wrong answer, or the line of a busy card.
Unheard(s, c) ==
  /\ c \in Machines /\ Alike(s, c) /\ c.drv = s.drv /\ c.card = s.card
  /\ c.val \in {"none", "error"} \/ (c.val = "ready" /\ s.card.busy > 0)

\* Selecting the card changes the pin alone.
LEMMA SelectedDriver ==
  ASSUME NEW d \in Drivers
  PROVE  /\ Selected(d) \in Drivers /\ Selected(d).cs = "low" /\ Selected(d).type = d.type
         /\ Selected(d).inBlock = d.inBlock /\ Selected(d).partial = d.partial
BY DEF Drivers, Selected

\* A command is put on the line with the card selected, after a wait that may not suffice.
LEMMA SentMachine ==
  ASSUME NEW m, Closed(m)
  PROVE  /\ Closed(Sent(m)) /\ Alike(m, Sent(m)) /\ Sent(m).drv = Selected(m.drv)
         /\ Sent(m).card = Waited(m.card, CommandWait) /\ Sent(m).drv.cs = "low"
<1>1. m.drv \in Drivers /\ m.card \in CardStates
  BY DEF Closed, Machines
<1>2. Selected(m.drv) \in Drivers /\ Selected(m.drv).inBlock = m.drv.inBlock
  BY <1>1, SelectedDriver
<1>3. Waited(m.card, CommandWait) \in CardStates
  BY <1>1, WaitedCard DEF CommandWait
<1>4. Selected(m.drv).cs = "low"
  BY <1>1, SelectedDriver
<1> QED BY <1>2, <1>3, <1>4 DEF Closed, Machines, Sent, Alike

\* An exchange that fails leaves no answer that reads as an agreement.
LEMMA ExchangeLost ==
  ASSUME NEW s \in Machines
  PROVE  Unheard(s, [s EXCEPT !.val = s.wrong, !.hit = TRUE, !.io = IF s.lasting THEN 0 ELSE -1])
<1> DEFINE i == IF s.lasting THEN 0 ELSE -1
           c == [s EXCEPT !.val = s.wrong, !.hit = TRUE, !.io = i]
<1>1. i \in Int /\ s.wrong \in {"none", "error"} /\ s.wrong \in Answers
  BY DEF Machines, Answers
<1> HIDE DEF i
<1>2. c \in Machines
  BY <1>1 DEF Machines
<1>3. c.val = s.wrong /\ c.drv = s.drv /\ c.card = s.card /\ Alike(s, c)
  BY DEF Machines, Alike
<1>4. Unheard(s, c)
  BY <1>1, <1>2, <1>3 DEF Unheard
<1> QED BY <1>4 DEF i

\* A busy card hears no command; its line reads as zero, which is the answer "ready".
LEMMA ExchangeBusy ==
  ASSUME NEW s \in Machines, s.card.busy > 0, NEW i \in Int
  PROVE  Unheard(s, [[s EXCEPT !.io = i] EXCEPT !.val = "ready"])
<1> DEFINE c == [[s EXCEPT !.io = i] EXCEPT !.val = "ready"]
<1>1. c \in Machines
  BY DEF Machines, Answers
<1>2. c.val = "ready" /\ c.drv = s.drv /\ c.card = s.card /\ Alike(s, c)
  BY DEF Machines, Alike
<1> QED BY <1>1, <1>2 DEF Unheard

\* A command with no block open: it is not heard, or a card that is not busy obeys it.
LEMMA cardCommandSends ==
  ASSUME NEW m, Closed(m), NEW cmd, NEW arg
  PROVE  LET c == cardCommand(m, cmd, arg)
         IN  \/ Unheard(Sent(m), c)
             \/ \E i \in Int : /\ Sent(m).card.busy = 0
                               /\ c = SdObey([Sent(m) EXCEPT !.io = i], cmd, arg)
<1> DEFINE s == Sent(m)
           selected == [readEnd(m) EXCEPT !.drv.cs = "low"]
           waited == [waitNotBusy(selected, CommandWait) EXCEPT !.ok = TRUE]
           y == [s EXCEPT !.io = IF @ > 0 THEN @ - 1 ELSE @]
<1>1. Closed(s)
  BY SentMachine
<1>2. readEnd(m) = m
  BY DEF readEnd, Closed
<1>3. selected = [m EXCEPT !.drv = Selected(m.drv)] /\ selected \in Machines /\ selected.card = m.card
  <2>1. Selected(m.drv) \in Drivers /\ m.drv \in Drivers
    BY SelectedDriver DEF Closed, Machines
  <2> QED BY <1>2, <2>1 DEF Closed, Machines, Selected
<1>4. waitNotBusy(selected, CommandWait) =
        [selected EXCEPT !.card = Waited(m.card, CommandWait), !.ok = m.card.busy <= CommandWait]
  <2>1. CommandWait \in Nat
    BY DEF CommandWait
  <2> HIDE DEF selected
  <2>2. waitNotBusy(selected, CommandWait) =
          [selected EXCEPT !.card = Waited(selected.card, CommandWait),
                           !.ok = selected.card.busy <= CommandWait]
    BY <1>3, <2>1, waitNotBusyLeaves
  <2> QED BY <2>2, <1>3
<1>5. waited = s
  BY ZenonT(60), <1>3, <1>4 DEF Sent, Closed, Machines
<1>6. CASE s.io = 0
  <2> DEFINE c == [s EXCEPT !.val = s.wrong, !.hit = TRUE, !.io = IF s.lasting THEN 0 ELSE -1]
  <2>1. cardCommand(m, cmd, arg) = c
    BY <1>5, <1>6 DEF cardCommand, Exchange
  <2>2. Unheard(s, c)
    BY <1>1, ExchangeLost DEF Closed
  <2> QED BY <2>1, <2>2
<1>7. CASE s.io # 0 /\ s.card.busy > 0
  <2> DEFINE c == [y EXCEPT !.val = "ready"]
  <2>1. y.card = s.card /\ y = [s EXCEPT !.io = IF s.io > 0 THEN s.io - 1 ELSE s.io]
    BY <1>1 DEF Closed, Machines
  <2>2. cardCommand(m, cmd, arg) = c
    BY <1>5, <1>7, <2>1 DEF cardCommand, Exchange, Says
  <2>3. Unheard(s, c)
    <3> DEFINE i == IF s.io > 0 THEN s.io - 1 ELSE s.io
    <3>1. i \in Int
      BY <1>1 DEF Closed, Machines
    <3>2. Unheard(s, [[s EXCEPT !.io = i] EXCEPT !.val = "ready"])
      <4> HIDE DEF i, s
      <4> QED BY <1>1, <1>7, <3>1, ExchangeBusy DEF Closed
    <3> QED BY <3>2, <2>1
  <2> QED BY <2>2, <2>3
<1>8. CASE s.io # 0 /\ ~ s.card.busy > 0
  <2> DEFINE i == IF s.io > 0 THEN s.io - 1 ELSE s.io
  <2>1. y.card = s.card /\ y = [s EXCEPT !.io = i] /\ i \in Int
    BY <1>1 DEF Closed, Machines
  <2>2. cardCommand(m, cmd, arg) = SdObey(y, cmd, arg)
    BY <1>5, <1>8, <2>1 DEF cardCommand, Exchange
  <2>3. s.card.busy \in Nat
    BY <1>1 DEF Closed, Machines, CardStates
  <2>4. s.card.busy = 0
    BY <2>3, <1>8
  <2> QED BY <2>1, <2>2, <2>4
<1> QED BY <1>6, <1>7, <1>8

\* What the commands that name a block lead to.
After(cmd) ==
  IF cmd = "CMD17" THEN "sending" ELSE IF cmd = "CMD24" THEN "receiving"
  ELSE IF cmd = "CMD25" THEN "multi" ELSE "ready"
Placed(k, cmd, b) == [k EXCEPT !.phase = After(cmd), !.at = b, !.pos = 0]

\* A command that names a block: the card refuses it, or its stream is placed at that block.
LEMMA SdObeyBlock ==
  ASSUME NEW h \in Machines, h.card.phase \notin {"off", "idle"}, CardAssumption, NEW arg,
         NEW cmd \in {"CMD17", "CMD24", "CMD25", "CMD32"}
  PROVE  LET o == SdObey(h, cmd, arg)
         IN  /\ o \in Machines /\ Alike(h, o) /\ o.drv = h.drv
             /\ \/ o.val = "error" /\ o.card = h.card
                \/ /\ o.val = "ready" /\ h.card.phase # "multi" /\ BlockAt(arg) \in Blocks
                   /\ o.card = Placed(h.card, cmd, BlockAt(arg))
<1> DEFINE o == SdObey(h, cmd, arg)
           b == BlockAt(arg)
           c == [h.card EXCEPT !.phase = After(cmd), !.at = b, !.pos = 0]
<1> USE DEF After, Placed
<1>1. h.card \in CardStates
  BY DEF Machines
<1>2. CASE h.card.phase = "multi" \/ b \notin Blocks
  <2>1. o = [h EXCEPT !.val = "error"]
    BY <1>2 DEF SdObey, Says
  <2> QED BY <2>1 DEF Machines, Answers, Alike
<1>3. CASE h.card.phase # "multi" /\ b \in Blocks
  <2>1. o = Goes(h, After(cmd), b)
    BY <1>3 DEF SdObey
  <2>2. o = [h EXCEPT !.card = c, !.val = "ready"]
    BY <2>1, <1>1 DEF Goes, Says, Machines, CardStates
  <2>3. b \in Asked /\ 0 \in 0 .. Size
    BY <1>3, CardAssumption DEF Blocks, Asked
  <2>4. c \in CardStates
    BY <1>1, <2>3 DEF CardStates
  <2> QED BY <1>3, <2>2, <2>4 DEF Machines, Answers, Alike
<1> QED BY <1>2, <1>3

\* A command that only asks leaves the card as it is, and is refused within a sequence.
LEMMA SdObeyQuiet ==
  ASSUME NEW h \in Machines, h.card.phase \notin {"off", "idle"}, NEW arg,
         NEW cmd \in {"CMD9", "CMD13", "ACMD23", "CMD55", "CMD58"}
  PROVE  LET o == SdObey(h, cmd, arg)
         IN  /\ o \in Machines /\ Alike(h, o) /\ o.drv = h.drv /\ o.card = h.card
             /\ o.val \in {"error", "ready"} /\ o.val = "ready" => h.card.phase # "multi"
<1>1. SdObey(h, cmd, arg) = [h EXCEPT !.val = IF h.card.phase = "multi" THEN "error" ELSE "ready"]
  BY DEF SdObey, Says
<1> QED BY <1>1 DEF Machines, Answers, Alike

\* Between two commands of a call that has not failed: no block is open.
Steady(m) ==
  /\ Closed(m) /\ Known(m.drv, m.card)
  /\ m.card.phase = "multi" => m.card.busy <= 3 * CommandWait

\* A call that has failed and may be followed by another.
Gone(m) ==
  /\ m \in Machines /\ ~ m.ok /\ ~ m.drv.inBlock /\ m.drv.cs = "high"
  /\ Known(m.drv, m.card)
  /\ m.card.phase = "multi" => m.card.busy <= 3 * CommandWait

\* Putting a command on the line keeps what holds between two commands.
LEMMA SentSteady ==
  ASSUME NEW m, Steady(m)
  PROVE  /\ Steady(Sent(m)) /\ Alike(m, Sent(m)) /\ Sent(m).drv = Selected(m.drv)
         /\ Sent(m).card = Waited(m.card, CommandWait) /\ Sent(m).ok /\ m.ok
<1>1. Closed(m)
  BY DEF Steady
<1>2. Closed(Sent(m)) /\ Alike(m, Sent(m)) /\ Sent(m).drv = Selected(m.drv)
      /\ Sent(m).card = Waited(m.card, CommandWait)
  BY <1>1, SentMachine
<1>3. m.drv \in Drivers /\ m.card \in CardStates
  BY <1>1 DEF Closed, Machines
<1>4. m.card.busy \in Nat
  BY <1>3 DEF CardStates
<1>5. Sent(m).drv.type = m.drv.type /\ Sent(m).card.phase = m.card.phase
      /\ Sent(m).card.busy \in 0 .. m.card.busy
  BY <1>2, <1>3, <1>4, SelectedDriver DEF CardStates, Waited, CommandWait
<1>6. Steady(Sent(m))
  BY <1>2, <1>4, <1>5 DEF Steady, Known, CommandWait
<1> QED BY <1>1, <1>2, <1>6 DEF Closed

\* So does counting the exchange.
LEMMA SentHeard ==
  ASSUME NEW m, Steady(m), NEW i \in Int
  PROVE  LET h == [Sent(m) EXCEPT !.io = i]
         IN  /\ h \in Machines /\ h.ok /\ h.drv = Sent(m).drv /\ h.card = Sent(m).card
             /\ Alike(m, h) /\ h.card.phase \notin {"off", "idle"}
<1> DEFINE h == [Sent(m) EXCEPT !.io = i]
<1>1. Steady(Sent(m)) /\ Alike(m, Sent(m))
  BY SentSteady
<1>2. Sent(m) \in Machines /\ Sent(m).ok
  BY <1>1 DEF Steady, Closed
<1>3. h \in Machines /\ h.drv = Sent(m).drv /\ h.card = Sent(m).card /\ h.ok /\ Alike(Sent(m), h)
  BY <1>2 DEF Machines, Alike
<1>4. h.card.phase \notin {"off", "idle"}
  BY <1>1, <1>3 DEF Steady, Known
<1> QED BY <1>1, <1>3, <1>4 DEF Alike

\* A command that only asks, from line to answer.
LEMMA QuietCommand ==
  ASSUME NEW m, Steady(m), NEW arg, NEW cmd \in {"CMD9", "CMD13", "ACMD23", "CMD55", "CMD58"}
  PROVE  LET c == cardCommand(m, cmd, arg)
         IN  /\ Steady(c) /\ Alike(m, c) /\ c.drv = Selected(m.drv)
             /\ c.card = Waited(m.card, CommandWait)
             /\ c.val = "ready" => c.card.busy > 0 \/ c.card.phase # "multi"
<1> DEFINE c == cardCommand(m, cmd, arg)
           s == Sent(m)
<1>1. Closed(m)
  BY DEF Steady
<1>2. /\ Steady(s) /\ Alike(m, s) /\ s.drv = Selected(m.drv)
      /\ s.card = Waited(m.card, CommandWait) /\ s.ok /\ m.ok
  BY SentSteady
<1> HIDE DEF s
<1>3. CASE Unheard(s, c)
  BY <1>2, <1>3 DEF Unheard, Steady, Closed, Alike
<1>4. CASE \E i \in Int : s.card.busy = 0 /\ c = SdObey([s EXCEPT !.io = i], cmd, arg)
  <2> PICK i \in Int : c = SdObey([s EXCEPT !.io = i], cmd, arg)
    BY <1>4
  <2> DEFINE h == [s EXCEPT !.io = i]
  <2>1. h \in Machines /\ h.ok /\ h.drv = s.drv /\ h.card = s.card /\ Alike(m, h)
    BY SentHeard DEF s
  <2>2. h.card.phase \notin {"off", "idle"}
    BY SentHeard DEF s
  <2> HIDE DEF h
  <2>3. c = SdObey(h, cmd, arg)
    BY DEF h
  <2> HIDE DEF c
  <2>4. /\ c \in Machines /\ Alike(h, c) /\ c.drv = h.drv /\ c.card = h.card
        /\ c.val = "ready" => h.card.phase # "multi"
    BY <2>1, <2>2, <2>3, SdObeyQuiet
  <2> QED BY <1>2, <2>1, <2>4 DEF Steady, Closed, Alike, c
<1> QED BY <1>1, <1>3, <1>4, cardCommandSends DEF s

\* A command that names a block: when it is answered, the card is still busy and has not
\* heard it, or the stream is placed.
LEMMA BlockCommand ==
  ASSUME NEW m, Steady(m), CardAssumption, NEW arg,
         NEW cmd \in {"CMD17", "CMD24", "CMD25", "CMD32"}
  PROVE  LET c == cardCommand(m, cmd, arg)
             w == Waited(m.card, CommandWait)
         IN  /\ Steady(c) /\ Alike(m, c) /\ c.drv = Selected(m.drv)
             /\ \/ c.card = w /\ (c.val = "ready" => w.busy > 0)
                \/ /\ c.val = "ready" /\ w.busy = 0 /\ w.phase # "multi" /\ BlockAt(arg) \in Blocks
                   /\ c.card = Placed(w, cmd, BlockAt(arg))
<1> DEFINE c == cardCommand(m, cmd, arg)
           s == Sent(m)
           w == Waited(m.card, CommandWait)
<1>1. Closed(m)
  BY DEF Steady
<1>2. /\ Steady(s) /\ Alike(m, s) /\ s.drv = Selected(m.drv) /\ s.card = w /\ s.ok /\ m.ok
  BY SentSteady
<1> HIDE DEF s, w
<1>3. CASE Unheard(s, c)
  <2>1. Steady(c) /\ Alike(m, c) /\ c.drv = Selected(m.drv)
    BY <1>2, <1>3 DEF Unheard, Steady, Closed, Alike
  <2>2. c.card = w /\ (c.val = "ready" => w.busy > 0)
    BY <1>2, <1>3 DEF Unheard
  <2> QED BY <2>1, <2>2 DEF w
<1>4. CASE \E i \in Int : s.card.busy = 0 /\ c = SdObey([s EXCEPT !.io = i], cmd, arg)
  <2> PICK i \in Int : c = SdObey([s EXCEPT !.io = i], cmd, arg)
    BY <1>4
  <2> DEFINE h == [s EXCEPT !.io = i]
  <2>1. h \in Machines /\ h.ok /\ h.drv = s.drv /\ h.card = w /\ Alike(m, h) /\ w.busy = 0
    BY <1>2, <1>4, SentHeard DEF s
  <2>2. h.card.phase \notin {"off", "idle"}
    BY SentHeard DEF s
  <2>8. w \in CardStates
    BY <2>1 DEF Machines
  <2> HIDE DEF h
  <2>3. c = SdObey(h, cmd, arg)
    BY DEF h
  <2> HIDE DEF c
  <2>4. /\ c \in Machines /\ Alike(h, c) /\ c.drv = h.drv
        /\ \/ c.val = "error" /\ c.card = h.card
           \/ /\ c.val = "ready" /\ h.card.phase # "multi" /\ BlockAt(arg) \in Blocks
              /\ c.card = Placed(h.card, cmd, BlockAt(arg))
    BY <2>1, <2>2, <2>3, SdObeyBlock
  <2>5. c.ok /\ ~ c.drv.inBlock /\ c.drv = s.drv /\ Alike(m, c)
    BY <1>2, <2>1, <2>4 DEF Alike, Steady, Closed
  <2>6. c.card.busy = 0 /\ c.card.phase \notin {"off", "idle"}
    BY <2>1, <2>2, <2>4, <2>8 DEF CardStates, Placed, After
  <2>9. Known(c.drv, c.card)
    <3>1. Known(s.drv, s.card)
      BY <1>2 DEF Steady
    <3>2. (c.drv.type = "SDHC") <=> (slot.kind = "SDHC")
      BY <3>1, <2>5 DEF Known
    <3> QED BY <3>2, <2>6 DEF Known
  <2>7. Steady(c)
    BY <2>4, <2>5, <2>6, <2>9 DEF Steady, Closed, CommandWait
  <2> QED BY <1>2, <2>1, <2>4, <2>5, <2>7 DEF c, w
<1> QED BY <1>1, <1>3, <1>4, cardCommandSends DEF s

\* Every call that fails deselects the card.
LEMMA Failing ==
  ASSUME NEW m, Steady(m)
  PROVE  Gone(Fail(m)) /\ Fail(m).blocks = m.blocks /\ Fail(m).card = m.card
<1>1. m \in Machines /\ m.drv \in Drivers
  BY DEF Steady, Closed, Machines
<1> DEFINE d == [m.drv EXCEPT !.cs = "high"]
<1>2. d \in Drivers /\ d.cs = "high" /\ d.type = m.drv.type /\ d.inBlock = m.drv.inBlock
  BY <1>1 DEF Drivers
<1>3. Fail(m) = [m EXCEPT !.drv = d, !.ok = FALSE]
  BY <1>1 DEF Fail, ChipSelectHigh, Machines
<1> HIDE DEF d
<1>4. /\ Fail(m) \in Machines /\ ~ Fail(m).ok /\ Fail(m).drv = d
      /\ Fail(m).blocks = m.blocks /\ Fail(m).card = m.card
  BY <1>1, <1>2, <1>3 DEF Machines
<1> QED BY <1>2, <1>4 DEF Gone, Steady, Closed, Known

\* chipSelectHigh changes the pin alone.
LEMMA Deselecting ==
  ASSUME NEW m, Steady(m)
  PROVE  LET y == ChipSelectHigh(m)
         IN  Steady(y) /\ Alike(m, y) /\ y.card = m.card /\ y.drv.cs = "high" /\ y.drv.type = m.drv.type
<1>1. m \in Machines /\ m.drv \in Drivers /\ m.ok
  BY DEF Steady, Closed, Machines
<1> DEFINE d == [m.drv EXCEPT !.cs = "high"]
<1>2. d \in Drivers /\ d.cs = "high" /\ d.type = m.drv.type /\ d.inBlock = m.drv.inBlock
  BY <1>1 DEF Drivers
<1>3. ChipSelectHigh(m) = [m EXCEPT !.drv = d]
  BY <1>1 DEF ChipSelectHigh, Machines
<1> HIDE DEF d
<1>4. ChipSelectHigh(m) \in Machines /\ ChipSelectHigh(m).drv = d /\ Alike(m, ChipSelectHigh(m))
      /\ ChipSelectHigh(m).card = m.card
  BY <1>1, <1>2, <1>3 DEF Machines, Alike
<1> QED BY <1>1, <1>2, <1>4 DEF Steady, Closed, Known, Alike

\* A command that must be answered "ready" is, or the call has failed.
LEMMA RequireEnds ==
  ASSUME NEW m, NEW cmd, NEW arg, Steady(cardCommand(m, cmd, arg))
  PROVE  LET c == cardCommand(m, cmd, arg)
             r == Require(m, cmd, arg)
         IN  \/ c.val = "ready" /\ r = c /\ r.ok
             \/ Gone(r) /\ ~ r.ok /\ r.blocks = c.blocks /\ r.card = c.card
<1> DEFINE c == cardCommand(m, cmd, arg)
<1>1. Require(m, cmd, arg) = IF c.val = "ready" THEN c ELSE Fail(c)
  BY DEF Require
<1>2. Gone(Fail(c)) /\ Fail(c).blocks = c.blocks /\ Fail(c).card = c.card
  BY Failing
<1> QED BY <1>1, <1>2 DEF Steady, Closed, Gone

\* An exchange that sends no command.
Heard(m) == [m EXCEPT !.io = IF @ > 0 THEN @ - 1 ELSE @]
Lost(m) == [m EXCEPT !.val = m.wrong, !.hit = TRUE, !.io = IF m.lasting THEN 0 ELSE -1]
Exchanged(m, heard) ==
  IF m.io = 0 THEN Lost(m) ELSE IF Heard(m).card.busy > 0 THEN Says(Heard(m), "ready") ELSE heard

\* An exchange without a command: it is not heard, or goes as it should.
LEMMA ExchangeEnds ==
  ASSUME NEW m \in Machines, NEW heard
  PROVE  /\ \/ Unheard(m, Exchanged(m, heard))
            \/ Exchanged(m, heard) = heard /\ m.card.busy = 0
         /\ Heard(m) \in Machines /\ Heard(m).card = m.card /\ Heard(m).drv = m.drv
         /\ Alike(m, Heard(m))
<1> DEFINE i == IF m.io > 0 THEN m.io - 1 ELSE m.io
<1>1. i \in Int /\ Heard(m) = [m EXCEPT !.io = i]
  BY DEF Machines, Heard
<1>6. m.card.busy \in Nat
  BY DEF Machines, CardStates
<1> HIDE DEF i
<1>2. Heard(m) \in Machines /\ Heard(m).card = m.card /\ Heard(m).drv = m.drv /\ Alike(m, Heard(m))
  BY <1>1 DEF Machines, Alike
<1>3. CASE m.io = 0
  BY <1>2, <1>3, ExchangeLost DEF Exchanged, Lost
<1>4. CASE m.io # 0 /\ m.card.busy > 0
  <2>1. Unheard(m, [[m EXCEPT !.io = i] EXCEPT !.val = "ready"])
    BY <1>1, <1>4, ExchangeBusy
  <2>2. Says(Heard(m), "ready") = [[m EXCEPT !.io = i] EXCEPT !.val = "ready"]
    BY <1>1 DEF Says
  <2>3. Exchanged(m, heard) = Says(Heard(m), "ready")
    BY <1>2, <1>4 DEF Exchanged
  <2> QED BY <1>2, <2>1, <2>2, <2>3
<1>5. CASE m.io # 0 /\ ~ m.card.busy > 0
  BY <1>2, <1>5, <1>6 DEF Exchanged
<1> QED BY <1>3, <1>4, <1>5

\* waitStartBlock leaves the card as it was, and fails on one that is busy.
LEMMA waitStartBlockEnds ==
  ASSUME NEW m, Steady(m)
  PROVE  LET w == waitStartBlock(m)
         IN  \/ Steady(w) /\ w.ok /\ Alike(m, w) /\ w.drv = m.drv /\ w.card = m.card /\ w.card.busy = 0
             \/ Gone(w) /\ ~ w.ok /\ w.blocks = m.blocks /\ w.card = m.card
<1> DEFINE y == Heard(m)
           t == Exchanged(m, Says(y, "start"))
<1>1. m \in Machines /\ m.ok
  BY DEF Steady, Closed
<1>2. waitStartBlock(m) = IF t.val = "start" THEN t ELSE Fail(t)
  BY DEF waitStartBlock, Exchange, Exchanged, Heard, Lost
<1>3. /\ Unheard(m, t) \/ (t = Says(y, "start") /\ m.card.busy = 0)
      /\ y \in Machines /\ y.card = m.card /\ y.drv = m.drv /\ Alike(m, y)
  BY <1>1, ExchangeEnds
<1> HIDE DEF t, y
<1>4. CASE Unheard(m, t)
  <2>1. Steady(t) /\ t.val # "start" /\ t.blocks = m.blocks /\ t.card = m.card
    BY <1>1, <1>4 DEF Unheard, Steady, Closed, Alike
  <2> QED BY <1>2, <2>1, Failing DEF Gone
<1>5. CASE t = Says(y, "start") /\ m.card.busy = 0
  <2>1. t \in Machines /\ t.val = "start" /\ t.card = m.card /\ t.drv = m.drv /\ Alike(m, t)
    BY <1>3, <1>5 DEF Says, Machines, Answers, Alike
  <2>2. Steady(t)
    BY <1>1, <2>1 DEF Steady, Closed, Alike
  <2> QED BY <1>1, <1>2, <1>5, <2>1, <2>2 DEF Alike
<1> QED BY <1>3, <1>4, <1>5

\* readRegister changes nothing but the pin, and succeeds only outside of a sequence.
LEMMA readRegisterEnds ==
  ASSUME NEW m, Steady(m)
  PROVE  LET r == readRegister(m)
         IN  \/ /\ Steady(r) /\ r.ok /\ Alike(m, r) /\ r.drv.cs = "high" /\ r.drv.type = m.drv.type
                /\ r.card.busy = 0 /\ r.card.phase # "multi"
             \/ Gone(r) /\ ~ r.ok /\ r.blocks = m.blocks
<1> DEFINE k == cardCommand(m, "CMD9", 0)
           c == Require(m, "CMD9", 0)
           w == waitStartBlock(c)
<1>1. readRegister(m) = IF c.ok THEN IF w.ok THEN ChipSelectHigh(w) ELSE w ELSE c
  BY DEF readRegister, Then
<1>2. /\ Steady(k) /\ Alike(m, k) /\ k.drv = Selected(m.drv)
      /\ k.val = "ready" => k.card.busy > 0 \/ k.card.phase # "multi"
  BY QuietCommand
<1>3. m.drv \in Drivers
  BY DEF Steady, Closed, Machines
<1>4. k.drv.type = m.drv.type
  BY <1>2, <1>3, SelectedDriver
<1>5. \/ k.val = "ready" /\ c = k /\ c.ok
      \/ Gone(c) /\ ~ c.ok /\ c.blocks = k.blocks
  BY <1>2, RequireEnds
<1> HIDE DEF k, c
<1>6. CASE ~ c.ok
  BY <1>1, <1>2, <1>5, <1>6 DEF Alike
<1>7. CASE c.ok
  <2>1. c = k /\ k.val = "ready" /\ Steady(c)
    BY <1>2, <1>5, <1>7
  <2>2. \/ Steady(w) /\ w.ok /\ Alike(c, w) /\ w.drv = c.drv /\ w.card = c.card /\ w.card.busy = 0
        \/ Gone(w) /\ ~ w.ok /\ w.blocks = c.blocks /\ w.card = c.card
    BY <2>1, waitStartBlockEnds
  <2> HIDE DEF w
  <2>3. CASE ~ w.ok
    BY <1>1, <1>2, <1>7, <2>1, <2>2, <2>3 DEF Alike
  <2>4. CASE w.ok
    <3>1. Steady(w) /\ Alike(m, w) /\ w.drv.type = m.drv.type /\ w.card.busy = 0 /\ w.card.phase # "multi"
      <4>1. Steady(w) /\ Alike(c, w) /\ w.drv = c.drv /\ w.card = c.card /\ w.card.busy = 0
        BY <2>2, <2>4
      <4>2. w.card.phase # "multi"
        BY <1>2, <2>1, <4>1
      <4>3. Alike(m, w)
        BY <1>2, <2>1, <4>1 DEF Alike
      <4> QED BY <1>4, <2>1, <4>1, <4>2, <4>3
    <3> DEFINE e == ChipSelectHigh(w)
    <3>2. Steady(e) /\ Alike(w, e) /\ e.card = w.card /\ e.drv.cs = "high" /\ e.drv.type = w.drv.type
      BY <3>1, Deselecting
    <3>3. readRegister(m) = e
      BY <1>1, <1>7, <2>4
    <3> QED BY <3>1, <3>2, <3>3 DEF Alike, Steady, Closed
  <2> QED BY <2>3, <2>4
<1> QED BY <1>6, <1>7

\* What the driver puts into a command names, to the card, the block it was asked for.
LEMMA AddressNames ==
  ASSUME NEW m, NEW c, Known(m.drv, c), NEW b \in Nat
  PROVE  BlockAt(Address(m, b)) = b
<1>1. (b * 512) % 512 = 0 /\ (b * 512) \div 512 = b
  OBVIOUS
<1> QED BY <1>1 DEF BlockAt, Address, Known

\* Between two calls, outside of a sequence of blocks: a block may be open.
Rest(m) ==
  /\ m \in Machines /\ Known(m.drv, m.card) /\ Synced(m.drv, m.card)
  /\ m.drv.cs = "low" => m.drv.inBlock
  /\ m.card.phase = "multi" => m.card.busy <= 3 * CommandWait

\* The same, when no call has failed yet.
Start(m) == Rest(m) /\ m.ok

\* Every command closes the open block first: as if readEnd had been called before it.
LEMMA Starting ==
  ASSUME NEW m, Start(m), CardAssumption
  PROVE  LET r == readEnd(m)
         IN  /\ Steady(r) /\ r.drv.cs = "high" /\ Alike(m, r) /\ r.drv.type = m.drv.type
             /\ \A cmd, arg : /\ cardCommand(m, cmd, arg) = cardCommand(r, cmd, arg)
                              /\ Require(m, cmd, arg) = Require(r, cmd, arg)
<1> DEFINE r == readEnd(m)
<1>1. Good(m)
  BY DEF Start, Rest, Good
<1>2. /\ Closed(r) /\ Alike(m, r) /\ r.drv.type = m.drv.type /\ (~ m.drv.inBlock => r = m)
      /\ m.drv.inBlock => r.drv.cs = "high"
      /\ m.drv.inBlock => r.card = [m.card EXCEPT !.phase = "ready", !.pos = 0, !.at = 0]
  BY <1>1, readEndCloses
<1>3. readEnd(r) = r
  BY <1>2 DEF readEnd, Closed
<1>4. Steady(r)
  <2>1. CASE ~ m.drv.inBlock
    BY <1>2, <2>1 DEF Start, Rest, Steady
  <2>2. CASE m.drv.inBlock
    <3>1. m.card \in CardStates
      BY <1>1 DEF Good, Machines
    <3>2. r.card.phase = "ready" /\ r.card.busy = m.card.busy
      BY <1>2, <2>2, <3>1 DEF CardStates
    <3>3. Known(m.drv, m.card)
      BY DEF Start, Rest
    <3>4. Known(r.drv, r.card)
      BY <1>2, <3>2, <3>3 DEF Known
    <3> QED BY <1>2, <3>2, <3>4 DEF Steady
  <2> QED BY <2>1, <2>2
<1>5. ASSUME NEW cmd, NEW arg
      PROVE  /\ cardCommand(m, cmd, arg) = cardCommand(r, cmd, arg)
             /\ Require(m, cmd, arg) = Require(r, cmd, arg)
  <2>1. cardCommand(m, cmd, arg) = cardCommand(r, cmd, arg)
    BY <1>3 DEF cardCommand
  <2> QED BY <2>1 DEF Require
<1>6. r.drv.cs = "high"
  <2>1. m.drv.cs \in {"high", "low"}
    BY <1>1 DEF Good, Machines, Drivers
  <2> QED BY <1>2, <2>1 DEF Start, Rest
<1> QED BY <1>2, <1>4, <1>5, <1>6

\* c is left by a command that names block b and must be answered: it may be that a
\* busy card has not heard it.
Named(m, cmd, b, c) ==
  \/ c.card = Waited(m.card, CommandWait) /\ c.card.busy > 0
  \/ /\ b \in Blocks /\ c.card.phase = After(cmd) /\ c.card.at = b /\ c.card.pos = 0
     /\ c.card.busy = 0 /\ c.card.to = m.card.to /\ m.card.phase # "multi"

\* A command that names a block and must be answered.
LEMMA BlockRequired ==
  ASSUME NEW m, Steady(m), CardAssumption, NEW a,
         NEW cmd \in {"CMD17", "CMD24", "CMD25", "CMD32"}
  PROVE  LET c == Require(m, cmd, a)
         IN  \/ /\ Steady(c) /\ c.ok /\ Alike(m, c) /\ c.drv = Selected(m.drv)
                /\ Named(m, cmd, BlockAt(a), c)
             \/ Gone(c) /\ ~ c.ok /\ c.blocks = m.blocks
<1> DEFINE b == BlockAt(a)
           k == cardCommand(m, cmd, a)
           c == Require(m, cmd, a)
           w == Waited(m.card, CommandWait)
<1>2. /\ Steady(k) /\ Alike(m, k) /\ k.drv = Selected(m.drv)
      /\ \/ k.card = w /\ (k.val = "ready" => w.busy > 0)
         \/ /\ k.val = "ready" /\ w.busy = 0 /\ w.phase # "multi" /\ b \in Blocks
            /\ k.card = Placed(w, cmd, b)
  BY BlockCommand
<1>3. \/ k.val = "ready" /\ c = k /\ c.ok
      \/ Gone(c) /\ ~ c.ok /\ c.blocks = k.blocks
  BY <1>2, RequireEnds
<1>4. m.card \in CardStates
  BY DEF Steady, Closed, Machines
<1>5. w \in CardStates /\ w.phase = m.card.phase /\ w.to = m.card.to
  <2>1. w \in CardStates
    BY <1>4, WaitedCard DEF CommandWait
  <2> QED BY <1>4, <2>1 DEF Waited, CardStates
<1> HIDE DEF b, k, c, w
<1>6. k.blocks = m.blocks
  BY <1>2 DEF Alike
<1>7. ASSUME c = k, c.val = "ready" PROVE Named(m, cmd, b, c)
  <2>1. CASE c.card = w /\ w.busy > 0
    BY <2>1 DEF Named, w
  <2>2. CASE w.busy = 0 /\ w.phase # "multi" /\ b \in Blocks /\ c.card = Placed(w, cmd, b)
    <3>1. c.card.phase = After(cmd) /\ c.card.at = b /\ c.card.pos = 0 /\ c.card.busy = 0
          /\ c.card.to = m.card.to
      BY <1>5, <2>2 DEF Placed, CardStates
    <3> QED BY <1>5, <2>2, <3>1 DEF Named
  <2> QED BY <1>2, <1>7, <2>1, <2>2
<1>8. CASE k.val = "ready" /\ c = k /\ c.ok
  <2>1. Named(m, cmd, b, c)
    BY <1>7, <1>8
  <2> QED BY <1>2, <1>8, <2>1 DEF b, c
<1>9. CASE Gone(c) /\ ~ c.ok /\ c.blocks = k.blocks
  BY <1>6, <1>9 DEF b, c
<1> QED BY <1>3, <1>8, <1>9

\* A wait that a call cannot do without.
LEMMA WaitOrFailEnds ==
  ASSUME NEW m, Closed(m), Known(m.drv, m.card), NEW timeout \in Nat,
         m.card.phase = "multi" => m.card.busy <= timeout + 3 * CommandWait
  PROVE  LET w == WaitOrFail(m, timeout)
         IN  /\ w.blocks = m.blocks /\ w.card = Waited(m.card, timeout)
             /\ \/ Steady(w) /\ w.ok /\ w.card.busy = 0 /\ Alike(m, w) /\ w.drv = m.drv
                \/ Gone(w) /\ ~ w.ok
<1> DEFINE y == waitNotBusy(m, timeout)
           k == Waited(m.card, timeout)
           e == [y EXCEPT !.ok = TRUE]
<1>1. m \in Machines /\ m.card \in CardStates /\ m.card.busy \in Nat /\ m.ok /\ ~ m.drv.inBlock
  BY DEF Closed, Machines, CardStates
<1>2. y = [m EXCEPT !.card = k, !.ok = m.card.busy <= timeout] /\ y \in Machines
  BY <1>1, waitNotBusyLeaves
<1>3. /\ k.phase = m.card.phase /\ k.busy \in 0 .. m.card.busy
      /\ k.busy = IF m.card.busy > timeout THEN m.card.busy - timeout ELSE 0
  BY <1>1 DEF Waited, CardStates
<1>4. Known(m.drv, k) /\ (k.phase = "multi" => k.busy <= 3 * CommandWait)
  BY <1>1, <1>3 DEF Known, CommandWait
<1> HIDE DEF k
<1>5. y.ok = (m.card.busy <= timeout) /\ y.card = k /\ y.drv = m.drv /\ y.blocks = m.blocks
      /\ y.got = m.got /\ y.programmed = m.programmed /\ y.duration = m.duration
  BY <1>1, <1>2 DEF Machines
<1>9. y.ok <=> m.card.busy <= timeout
  BY <1>5
<1> HIDE DEF y
<1>6. WaitOrFail(m, timeout) = IF y.ok THEN y ELSE Fail(y)
  BY DEF WaitOrFail, y
<1>7. CASE y.ok
  <2>1. Steady(y)
    BY <1>1, <1>2, <1>4, <1>5, <1>7 DEF Steady, Closed
  <2>2. y.card.busy = 0
    BY <1>1, <1>3, <1>5, <1>7, <1>9
  <2>3. Alike(m, y)
    BY <1>1, <1>5, <1>7 DEF Alike, Machines, Closed
  <2> QED BY <1>5, <1>6, <1>7, <2>1, <2>2, <2>3 DEF k
<1>8. CASE ~ y.ok
  <2>1. e \in Machines /\ e.ok /\ e.drv = m.drv /\ e.card = k /\ e.blocks = m.blocks
    BY <1>2, <1>5 DEF Machines
  <2>2. Steady(e)
    BY <1>1, <1>4, <2>1 DEF Steady, Closed
  <2>3. Fail(y) = Fail(e)
    BY <1>2 DEF Fail, ChipSelectHigh, Machines
  <2>4. Gone(Fail(e)) /\ Fail(e).blocks = e.blocks /\ Fail(e).card = e.card
    BY <2>2, Failing
  <2> QED BY <1>6, <1>8, <2>1, <2>3, <2>4 DEF Gone, k
<1> QED BY <1>7, <1>8

\* The card's side of a block that was taken.
Put(f, b, d) == [f EXCEPT ![b] = d]
Taking(m) ==
  [m.card EXCEPT !.spoilt = ~ m.programmed, !.busy = m.duration,
                 !.phase = IF @ = "multi" THEN @ ELSE "ready",
                 !.at = IF m.card.phase = "multi" THEN @ + 1 ELSE 0]

Took(m, d, w) ==
  /\ w \in Machines /\ w.ok /\ w.drv = m.drv /\ w.got = m.got
  /\ w.programmed = m.programmed /\ w.duration = m.duration
  /\ m.card.busy = 0 /\ m.card.phase \in {"receiving", "multi"} /\ m.card.at \in Blocks
  /\ w.blocks = Put(m.blocks, m.card.at, IF m.programmed THEN d ELSE "torn")
  /\ w.card = Taking(m)

\* The data of a block are taken, whole or torn, or the call has failed and nothing is stored.
LEMMA writeTokenEnds ==
  ASSUME NEW m, Steady(m), CardAssumption, NEW d \in Data
  PROVE  LET w == writeToken(m, d)
         IN  Took(m, d, w) \/ (Gone(w) /\ ~ w.ok /\ w.blocks = m.blocks)
<1> DEFINE y == Heard(m)
           t == Exchanged(m, TakeBlock(y, d))
           into == IF m.programmed THEN d ELSE "torn"
<1>1. m \in Machines /\ m.ok
  BY DEF Steady, Closed
<1>2. writeToken(m, d) = IF t.val = "accepted" THEN t ELSE Fail(t)
  BY DEF writeToken, Exchange, Exchanged, Heard, Lost
<1>3. /\ Unheard(m, t) \/ (t = TakeBlock(y, d) /\ m.card.busy = 0)
      /\ y \in Machines /\ y.card = m.card /\ y.drv = m.drv /\ Alike(m, y)
  BY <1>1, ExchangeEnds
<1> HIDE DEF t, y
<1>4. CASE Unheard(m, t)
  <2>1. Steady(t) /\ t.val # "accepted" /\ t.blocks = m.blocks
    BY <1>1, <1>4 DEF Unheard, Steady, Closed, Alike
  <2> QED BY <1>2, <2>1, Failing DEF Gone
<1>5. CASE t = TakeBlock(y, d) /\ m.card.busy = 0
  <2>1. CASE ~ SelectedIn(y, {"receiving", "multi"}) \/ y.card.at \notin Blocks
    <3>1. t = [y EXCEPT !.val = "none"]
      BY <1>5, <2>1 DEF TakeBlock, Says
    <3>2. t \in Machines /\ t.val = "none" /\ t.card = m.card /\ t.drv = m.drv /\ Alike(m, t)
      BY <1>3, <3>1 DEF Machines, Answers, Alike
    <3>3. Steady(t)
      BY <1>1, <3>2 DEF Steady, Closed, Alike
    <3>4. Gone(Fail(t)) /\ Fail(t).blocks = t.blocks
      BY <3>3, Failing
    <3> QED BY <1>2, <3>2, <3>4 DEF Gone, Alike
  <2>2. CASE SelectedIn(y, {"receiving", "multi"}) /\ y.card.at \in Blocks
    <3>1. m.card \in CardStates /\ m.card.at \in Blocks /\ m.card.phase \in {"receiving", "multi"}
      BY <1>1, <1>3, <2>2 DEF SelectedIn, Machines
    <3>2. y.programmed = m.programmed /\ y.duration = m.duration /\ y.blocks = m.blocks
          /\ y.ok /\ y.got = m.got /\ m.programmed \in BOOLEAN
          /\ m.duration \in Durations \cup {0} /\ m.blocks \in [Blocks -> SdContents]
      BY <1>1, <1>3 DEF Alike, Machines
    <3>3. t = [y EXCEPT !.val = "accepted", !.blocks = Put(m.blocks, m.card.at, into), !.card = Taking(m)]
      BY ZenonT(60), <1>3, <1>5, <2>2, <3>1, <3>2 DEF TakeBlock, Put, Taking, Machines, CardStates
    <3>4. Put(m.blocks, m.card.at, into) \in [Blocks -> SdContents]
      BY <3>1, <3>2 DEF Put, SdContents
    <3>5. m.card.at + 1 \in Asked /\ 0 \in Asked /\ m.duration \in Nat
      <4>1. m.card.at \in 0 .. LastBlock
        BY <3>1 DEF Blocks
      <4>2. LastBlock \in Nat /\ Durations \subseteq Nat
        BY CardAssumption
      <4>3. ASSUME NEW x \in Durations \cup {0} PROVE x \in Nat
        BY <4>2
      <4>4. m.duration \in Nat
        BY <3>2, <4>3
      <4> QED BY <4>1, <4>2, <4>4 DEF Asked
    <3>6. Taking(m) \in CardStates
      BY <3>1, <3>2, <3>5 DEF Taking, CardStates
    <3>7. /\ t \in Machines /\ t.val = "accepted" /\ t.blocks = Put(m.blocks, m.card.at, into)
          /\ t.card = Taking(m) /\ t.drv = m.drv /\ t.ok /\ t.got = m.got
          /\ t.programmed = m.programmed /\ t.duration = m.duration
      BY <1>3, <3>2, <3>3, <3>4, <3>6 DEF Machines, Answers
    <3> QED BY <1>2, <1>5, <3>1, <3>7 DEF Took
  <2> QED BY <2>1, <2>2
<1> QED BY <1>3, <1>4, <1>5

\* The status after a block is good only if the block is not spoilt.
LEMMA getStatusEnds ==
  ASSUME NEW m, Steady(m)
  PROVE  LET s == getStatus(m)
         IN  \/ Steady(s) /\ s.ok /\ Alike(m, s) /\ ~ m.card.spoilt
             \/ Gone(s) /\ ~ s.ok /\ s.blocks = m.blocks
<1> DEFINE k == cardCommand(m, "CMD13", 0)
           c == Require(m, "CMD13", 0)
           e == [c EXCEPT !.card.spoilt = FALSE]
<1>1. getStatus(m) = IF c.ok THEN IF c.card.spoilt THEN Fail(e) ELSE c ELSE c
  BY DEF getStatus, Then
<1>2. Steady(k) /\ Alike(m, k) /\ k.card = Waited(m.card, CommandWait)
  BY QuietCommand
<1>3. \/ c = k /\ c.ok
      \/ Gone(c) /\ ~ c.ok /\ c.blocks = k.blocks
  BY <1>2, RequireEnds
<1>4. k.card.spoilt = m.card.spoilt /\ k.blocks = m.blocks
  BY <1>2 DEF Waited, Alike, Steady, Closed, Machines, CardStates
<1> HIDE DEF k, c
<1>5. CASE ~ c.ok
  BY <1>1, <1>3, <1>4, <1>5
<1>6. CASE c = k /\ c.ok /\ ~ c.card.spoilt
  BY <1>1, <1>2, <1>4, <1>6
<1>7. CASE c = k /\ c.ok /\ c.card.spoilt
  <2>1. c \in Machines /\ c.card \in CardStates
    BY <1>2, <1>7 DEF Steady, Closed, Machines
  <2> DEFINE q == [c.card EXCEPT !.spoilt = FALSE]
  <2>2. q \in CardStates /\ q.phase = c.card.phase /\ q.busy = c.card.busy
    BY <2>1 DEF CardStates
  <2>3. e = [c EXCEPT !.card = q]
    BY <2>1 DEF Machines, CardStates
  <2> HIDE DEF q
  <2>4. e \in Machines /\ e.card = q /\ e.drv = c.drv /\ e.ok /\ e.blocks = c.blocks
    BY <1>7, <2>1, <2>2, <2>3 DEF Machines
  <2> HIDE DEF e
  <2>5. Steady(e)
    BY <1>2, <1>7, <2>2, <2>4 DEF Steady, Closed, Known
  <2>6. Gone(Fail(e)) /\ Fail(e).blocks = e.blocks
    BY <2>5, Failing
  <2> QED BY <1>1, <1>4, <1>7, <2>4, <2>6 DEF Gone
<1> QED BY <1>3, <1>5, <1>6, <1>7

\* A call that failed, or that deselected the card, may be followed by any other.
LEMMA Resting ==
  ASSUME NEW m, Gone(m) \/ (Steady(m) /\ m.drv.cs = "high")
  PROVE  Rest(m)
<1>1. m.drv.cs = "high" /\ ~ m.drv.inBlock
  BY DEF Gone, Steady, Closed
<1> QED BY <1>1 DEF Rest, Gone, Steady, Closed, Synced

\* A call that is refused before it speaks to the card.
LEMMA Refusing ==
  ASSUME NEW m, Start(m), ~ m.drv.inBlock
  PROVE  Gone(Fail(m)) /\ ~ Fail(m).ok /\ Fail(m).blocks = m.blocks
<1>1. Steady(m)
  BY DEF Start, Rest, Steady, Closed
<1> QED BY <1>1, Failing DEF Gone

\* writeBlock stores the block it was asked for when it succeeds; when it fails, that block
\* or none was touched.
LEMMA writeBlockEnds ==
  ASSUME NEW m, Start(m), CardAssumption, NEW b \in Asked, NEW d \in Data,
         b = 0 => ~ m.drv.inBlock
  PROVE  LET w == writeBlock(m, b, d)
         IN  /\ Rest(w)
             /\ \/ w.ok /\ b \in Blocks /\ w.blocks = Put(m.blocks, b, d) /\ w.got = m.got
                \/ /\ ~ w.ok
                   /\ \/ w.blocks = m.blocks
                      \/ b \in Blocks /\ w.blocks = Put(m.blocks, b, d)
                      \/ b \in Blocks /\ w.blocks = Put(m.blocks, b, "torn")
<1> DEFINE r == readEnd(m)
           a == Address(m, b)
           c == Require(m, "CMD24", a)
           t == writeToken(c, d)
           w == WaitOrFail(t, WriteWait)
           s == getStatus(w)
           e == ChipSelectHigh(s)
           result == writeBlock(m, b, d)
<1>1. result = IF b = 0 THEN Fail(m)
               ELSE IF ~ c.ok THEN c ELSE IF ~ t.ok THEN t ELSE IF ~ w.ok THEN w ELSE IF ~ s.ok THEN s ELSE e
  BY DEF writeBlock, Then
<1>2. Steady(r) /\ Alike(m, r) /\ c = Require(r, "CMD24", a)
  BY Starting
<1>3. BlockAt(a) = b
  <2>1. b \in Nat
    BY CardAssumption DEF Asked
  <2> QED BY <2>1, AddressNames DEF Start, Rest
<1>4. r.blocks = m.blocks /\ r.got = m.got
  BY <1>2 DEF Alike
<1> HIDE DEF a, r
<1>5. \/ Steady(c) /\ c.ok /\ Alike(r, c) /\ Named(r, "CMD24", b, c)
      \/ Gone(c) /\ ~ c.ok /\ c.blocks = r.blocks
  BY <1>2, <1>3, BlockRequired
<1>6. CASE b = 0
  BY <1>1, <1>6, Refusing, Resting
<1> HIDE DEF c
<1>7. CASE b # 0 /\ ~ c.ok
  BY <1>1, <1>4, <1>5, <1>7, Resting
<1>8. CASE b # 0 /\ c.ok
  <2>1. Steady(c) /\ c.blocks = m.blocks /\ c.got = m.got /\ Named(r, "CMD24", b, c)
    BY <1>4, <1>5, <1>8 DEF Alike
  <2>2. Took(c, d, t) \/ (Gone(t) /\ ~ t.ok /\ t.blocks = c.blocks)
    BY <2>1, writeTokenEnds
  <2> HIDE DEF t
  <2>3. CASE ~ t.ok
    BY <1>1, <1>8, <2>1, <2>2, <2>3, Resting DEF Took
  <2>4. CASE t.ok
    <3>1. Took(c, d, t)
      BY <2>2, <2>4
    <3>2. b \in Blocks /\ c.card.phase = "receiving" /\ c.card.at = b
      BY <2>1, <3>1 DEF Named, Took, After
    <3>3. t.blocks = Put(m.blocks, b, IF c.programmed THEN d ELSE "torn") /\ t.got = m.got
          /\ t.card = Taking(c)
      BY <2>1, <3>1, <3>2 DEF Took
    <3>4. t.card.phase = "ready" /\ t.card.spoilt = ~ c.programmed
      BY <2>1, <3>2, <3>3 DEF Taking, Steady, Closed, Machines, CardStates
    <3>5. Closed(t) /\ Known(t.drv, t.card)
      BY <2>1, <3>1, <3>4 DEF Took, Steady, Closed, Known
    <3>6. /\ w.blocks = t.blocks /\ w.card = Waited(t.card, WriteWait)
          /\ \/ Steady(w) /\ w.ok /\ w.card.busy = 0 /\ Alike(t, w)
             \/ Gone(w) /\ ~ w.ok
      BY <3>4, <3>5, WaitOrFailEnds DEF WriteWait
    <3> HIDE DEF w
    <3>7. CASE ~ w.ok
      BY <1>1, <1>8, <2>4, <3>2, <3>3, <3>6, <3>7, Resting
    <3>8. CASE w.ok
      <4>1. Steady(w) /\ Alike(t, w)
        BY <3>6, <3>8
      <4>2. w.card.spoilt = ~ c.programmed
        BY <3>4, <3>5, <3>6 DEF Waited, Closed, Machines, CardStates
      <4>3. \/ Steady(s) /\ s.ok /\ Alike(w, s) /\ ~ w.card.spoilt
            \/ Gone(s) /\ ~ s.ok /\ s.blocks = w.blocks
        BY <4>1, getStatusEnds
      <4> HIDE DEF s
      <4>4. CASE ~ s.ok
        BY <1>1, <1>8, <2>4, <3>2, <3>3, <3>6, <3>8, <4>3, <4>4, Resting
      <4>5. CASE s.ok
        <5>1. Steady(s) /\ Alike(w, s) /\ c.programmed
          BY <4>2, <4>3, <4>5
        <5>2. Steady(e) /\ Alike(s, e) /\ e.drv.cs = "high"
          BY <5>1, Deselecting
        <5> HIDE DEF e
        <5>3. e.ok /\ e.blocks = Put(m.blocks, b, d) /\ e.got = m.got
          BY <3>3, <4>1, <5>1, <5>2 DEF Alike, Steady, Closed
        <5> QED BY <1>1, <1>8, <2>4, <3>2, <3>8, <4>5, <5>2, <5>3, Resting
      <4> QED BY <4>4, <4>5
    <3> QED BY <3>7, <3>8
  <2> QED BY <2>3, <2>4
<1> QED BY <1>6, <1>7, <1>8

-----------------------------------------------------------------------------
(* The calls. *)

\* The driver once the block is open.
Opened(d, b) == [d EXCEPT !.offset = 0, !.inBlock = TRUE, !.block = b]

\* The first half of readData: the block asked for is open, at or before the offset.
LEMMA openBlockEnds ==
  ASSUME NEW m, Start(m), CardAssumption, NEW b \in Asked, NEW offset \in 0 .. Size - 1
  PROVE  LET o == openBlock(m, b, offset)
         IN  /\ o.blocks = m.blocks
             /\ \/ Start(o) /\ o.drv.inBlock /\ o.drv.block = b /\ o.drv.offset <= offset
                \/ Gone(o) /\ ~ o.ok
<1> DEFINE r == readEnd(m)
           a == Address(m, b)
           c == Require(m, "CMD17", a)
           w == waitStartBlock(c)
           y == [w EXCEPT !.drv.offset = 0, !.drv.inBlock = TRUE, !.drv.block = b]
           o == openBlock(m, b, offset)
<1>1. CASE m.drv.inBlock /\ b = m.drv.block /\ offset >= m.drv.offset
  <2>1. o = m /\ m.drv.offset \in 0 .. Size /\ Size \in Nat
    BY <1>1, CardAssumption DEF openBlock, Start, Rest, Machines, Drivers
  <2> QED BY <1>1, <2>1
<1>2. CASE ~ (m.drv.inBlock /\ b = m.drv.block /\ offset >= m.drv.offset)
  <2>1. o = IF ~ c.ok THEN c ELSE IF ~ w.ok THEN w ELSE y
    BY <1>2 DEF openBlock, Then
  <2>2. Steady(r) /\ Alike(m, r) /\ c = Require(r, "CMD17", a)
    BY Starting
  <2>3. BlockAt(a) = b
    <3>1. b \in Nat
      BY CardAssumption DEF Asked
    <3> QED BY <3>1, AddressNames DEF Start, Rest
  <2> HIDE DEF a, r
  <2>4. \/ Steady(c) /\ c.ok /\ Alike(r, c) /\ c.drv = Selected(r.drv) /\ Named(r, "CMD17", b, c)
        \/ Gone(c) /\ ~ c.ok /\ c.blocks = r.blocks
    BY <2>2, <2>3, BlockRequired
  <2>5. c.blocks = m.blocks
    BY <2>2, <2>4 DEF Alike
  <2> HIDE DEF c
  <2>6. CASE ~ c.ok
    BY <2>1, <2>4, <2>5, <2>6
  <2>7. CASE c.ok
    <3>1. Steady(c) /\ c.drv = Selected(r.drv) /\ Named(r, "CMD17", b, c) /\ r.drv \in Drivers
      BY <2>2, <2>4, <2>7 DEF Steady, Closed, Machines
    <3>2. \/ Steady(w) /\ w.ok /\ Alike(c, w) /\ w.drv = c.drv /\ w.card = c.card /\ w.card.busy = 0
          \/ Gone(w) /\ ~ w.ok /\ w.blocks = c.blocks
      BY <3>1, waitStartBlockEnds
    <3> HIDE DEF w
    <3>3. CASE ~ w.ok
      BY <2>1, <2>5, <2>7, <3>2, <3>3
    <3>4. CASE w.ok
      <4>1. Steady(w) /\ w.blocks = m.blocks /\ w.drv = c.drv /\ w.card = c.card /\ w.card.busy = 0
        BY <2>5, <3>2, <3>4 DEF Alike
      <4>2. /\ b \in Blocks /\ w.card.phase = "sending" /\ w.card.at = b /\ w.card.pos = 0
            /\ w.drv.cs = "low"
        BY <3>1, <4>1, SelectedDriver DEF Named, After
      <4> DEFINE d == Opened(w.drv, b)
      <4>3. w \in Machines /\ w.drv \in Drivers /\ w.ok /\ Known(w.drv, w.card)
        BY <4>1 DEF Steady, Closed, Machines
      <4>4. /\ d \in Drivers /\ d.inBlock /\ d.block = b /\ d.offset = 0 /\ d.cs = "low"
            /\ d.type = w.drv.type
        <5>1. 0 \in 0 .. Size
          BY CardAssumption
        <5> QED BY <4>2, <4>3, <5>1 DEF Drivers, Opened
      <4>5. y = [w EXCEPT !.drv = d]
        BY <4>3 DEF Machines, Drivers, Opened
      <4> HIDE DEF d, y
      <4>6. y \in Machines /\ y.drv = d /\ y.card = w.card /\ y.ok /\ y.blocks = w.blocks
        BY <4>3, <4>4, <4>5 DEF Machines
      <4>7. Known(y.drv, y.card) /\ Synced(y.drv, y.card)
        BY <4>1, <4>2, <4>3, <4>4, <4>6 DEF Known, Synced
      <4>8. Start(y)
        BY <4>2, <4>4, <4>6, <4>7 DEF Start, Rest
      <4> QED BY <2>1, <2>7, <3>4, <4>1, <4>4, <4>6, <4>8
    <3> QED BY <3>3, <3>4
  <2> QED BY <2>6, <2>7
<1> QED BY <1>1, <1>2

\* The card's stream moves on within the block.
Moved(c, p) == [c EXCEPT !.pos = p]

\* Bytes clocked out within the block move the stream and nothing else.
LEMMA ClockWithin ==
  ASSUME NEW m \in Machines, SelectedIn(m, {"sending"}), NEW count \in Nat, m.card.pos + count <= Size,
         CardAssumption
  PROVE  LET k == Clock(m, count)
         IN  /\ k = [m EXCEPT !.card = Moved(m.card, m.card.pos + count)]
             /\ k \in Machines /\ k.card = Moved(m.card, m.card.pos + count) /\ k.drv = m.drv
             /\ k.blocks = m.blocks /\ k.ok = m.ok /\ k.card.pos = m.card.pos + count
             /\ SelectedIn(k, {"sending"}) /\ k.card.at = m.card.at
<1> DEFINE p == m.card.pos + count
           q == Moved(m.card, p)
           k == Clock(m, count)
<1>1. m.card \in CardStates /\ Size \in Nat
  BY CardAssumption DEF Machines
<1>2. m.card.pos \in 0 .. Size
  BY <1>1 DEF CardStates
<1>3. p \in 0 .. Size
  BY <1>1, <1>2
<1>4. k = [m EXCEPT !.card = q]
  BY <1>1, <1>2 DEF Clock, Moved, Machines, CardStates
<1> HIDE DEF p, k
<1>5. q \in CardStates /\ q.pos = p /\ q.phase = m.card.phase /\ q.at = m.card.at /\ q.busy = m.card.busy
  BY <1>1, <1>3 DEF CardStates, Moved
<1> HIDE DEF q
<1>6. k \in Machines /\ k.card = q /\ k.drv = m.drv /\ k.blocks = m.blocks /\ k.ok = m.ok
  BY <1>4, <1>5 DEF Machines
<1>7. SelectedIn(k, {"sending"})
  BY <1>5, <1>6 DEF SelectedIn
<1> QED BY <1>4, <1>5, <1>6, <1>7 DEF p, q, k

\* The pieces that a read of the block hands over (BlockDevice's Part).
PartOf(d, from, count) == [i \in 1 .. count |-> <<d, from + i - 1>>]

\* The pieces are pieces.
LEMMA PartPieces ==
  ASSUME NEW d \in SdContents, NEW from \in Nat, NEW count \in Nat
  PROVE  PartOf(d, from, count) \in SdPieces
<1> DEFINE S == (SdContents \cup {"high", "size"}) \X Int
<1>1. \A i \in 1 .. count : <<d, from + i - 1>> \in S
  OBVIOUS
<1> HIDE DEF S
<1>2. PartOf(d, from, count) \in [1 .. count -> S]
  BY <1>1 DEF PartOf
<1> QED BY <1>2 DEF SdPieces, S

\* The driver once the block is read up to there.
Forward(d, to) == [d EXCEPT !.offset = to]

\* The open block is skipped up to the offset, then read.
ReadOn(o, offset, count) ==
  LET skip == Clock(o, offset - o.drv.offset)
  IN  [Clock(skip, count) EXCEPT !.got = Line(skip, count), !.drv.offset = offset + count]

\* The second half of readData: the stream is brought to the offset, and what follows is
\* the part of the open block asked for.
LEMMA readOpenBlock ==
  ASSUME NEW o, Start(o), o.drv.inBlock, CardAssumption, NEW offset \in 0 .. Size - 1,
         NEW count \in 1 .. Size, offset + count <= Size, o.drv.offset <= offset
  PROVE  LET read == ReadOn(o, offset, count)
         IN  /\ Start(read) /\ read.blocks = o.blocks /\ o.drv.block \in Blocks
             /\ read.got = PartOf(o.blocks[o.drv.block], offset, count)
<1> DEFINE skip == Clock(o, offset - o.drv.offset)
           k == Clock(skip, count)
           d == Forward(o.drv, offset + count)
           g == Line(skip, count)
           read == ReadOn(o, offset, count)
           b == o.drv.block
<1>1. /\ o \in Machines /\ o.drv \in Drivers /\ o.card \in CardStates /\ o.ok
      /\ Known(o.drv, o.card) /\ Synced(o.drv, o.card)
  BY DEF Start, Rest, Machines
<1>2. SelectedIn(o, {"sending"}) /\ b \in Blocks /\ o.card.at = b /\ o.card.pos = o.drv.offset
  BY <1>1 DEF Synced, SelectedIn
<1>3. /\ o.drv.offset \in Nat /\ offset - o.drv.offset \in Nat /\ Size \in Nat /\ count \in Nat
      /\ o.card.pos + (offset - o.drv.offset) = offset /\ offset + count \in 0 .. Size
      /\ offset \in Nat
  BY <1>1, <1>2, CardAssumption DEF Drivers
<1>4. /\ skip \in Machines /\ skip.card = Moved(o.card, offset) /\ skip.drv = o.drv
      /\ skip.blocks = o.blocks /\ skip.ok = o.ok /\ skip.card.pos = offset
      /\ SelectedIn(skip, {"sending"}) /\ skip.card.at = b
  <2> DEFINE skipped == offset - o.drv.offset
  <2>2. skipped \in Nat /\ o.card.pos + skipped = offset /\ o.card.pos + skipped <= Size
    BY <1>3
  <2> HIDE DEF skipped
  <2>3. /\ Clock(o, skipped) \in Machines /\ Clock(o, skipped).card = Moved(o.card, o.card.pos + skipped)
        /\ Clock(o, skipped).drv = o.drv /\ Clock(o, skipped).blocks = o.blocks /\ Clock(o, skipped).ok = o.ok
        /\ Clock(o, skipped).card.pos = o.card.pos + skipped /\ Clock(o, skipped).card.at = o.card.at
        /\ SelectedIn(Clock(o, skipped), {"sending"})
    BY <1>1, <1>2, <1>3, <2>2, ClockWithin
  <2> QED BY <1>2, <2>2, <2>3 DEF skipped
<1> HIDE DEF skip
<1>5. /\ k \in Machines /\ k.card = Moved(skip.card, offset + count) /\ k.drv = o.drv
      /\ k.blocks = o.blocks /\ k.ok = o.ok /\ k.card.pos = offset + count /\ k.card.at = b
      /\ SelectedIn(k, {"sending"})
  <2>1. skip.card.pos + count <= Size
    BY <1>3, <1>4
  <2> QED BY <1>3, <1>4, <2>1, ClockWithin
<1> HIDE DEF k
<1>6. g = PartOf(o.blocks[b], offset, count)
  BY <1>4 DEF Line, PartOf
<1>7. o.blocks[b] \in SdContents
  BY <1>1, <1>2 DEF Machines
<1>8. g \in SdPieces
  BY <1>3, <1>6, <1>7, PartPieces
<1>9. /\ d \in Drivers /\ d.offset = offset + count /\ d.inBlock /\ d.block = b /\ d.cs = o.drv.cs
      /\ d.type = o.drv.type
  BY <1>1, <1>3 DEF Drivers, Forward
<1>10. read = [k EXCEPT !.got = g, !.drv = d]
  BY <1>1, <1>5 DEF Machines, Drivers, Forward, ReadOn, skip, k
<1> HIDE DEF g, d, read
<1>11. /\ read \in Machines /\ read.got = g /\ read.drv = d /\ read.card = k.card
       /\ read.blocks = o.blocks /\ read.ok
  BY <1>1, <1>5, <1>8, <1>9, <1>10 DEF Machines
<1>12. k.drv.cs = "low" /\ k.card.phase = "sending" /\ k.card.busy = 0
  BY <1>5 DEF SelectedIn
<1>13. Synced(read.drv, read.card)
  BY <1>2, <1>5, <1>9, <1>11, <1>12 DEF Synced
<1>14. Known(read.drv, read.card)
  BY <1>1, <1>9, <1>11, <1>12 DEF Known
<1>15. Start(read)
  BY <1>9, <1>11, <1>12, <1>13, <1>14 DEF Start, Rest
<1> QED BY <1>2, <1>6, <1>11, <1>15 DEF read, g

\* readData hands over the part of the block it was asked for, or fails; it stores nothing.
LEMMA readDataEnds ==
  ASSUME NEW m, Start(m), CardAssumption, NEW b \in Asked, NEW offset \in 0 .. Size - 1,
         NEW count \in 0 .. Size, count + offset > Size => ~ m.drv.inBlock
  PROVE  LET w == readData(m, b, offset, count)
         IN  /\ Rest(w) /\ w.blocks = m.blocks
             /\ count = 0 => w = m
             /\ w.ok /\ count > 0 => /\ b \in Blocks /\ offset + count <= Size
                                     /\ w.got = PartOf(m.blocks[b], offset, count)
<1> DEFINE o == openBlock(m, b, offset)
           read == ReadOn(o, offset, count)
           w == readData(m, b, offset, count)
<1>1. CASE count = 0
  BY <1>1 DEF readData, Start
<1>2. CASE count # 0 /\ count + offset > Size
  <2>1. w = Fail(m)
    BY <1>2 DEF readData
  <2> QED BY <1>2, <2>1, Refusing, Resting
<1>3. CASE count # 0 /\ ~ count + offset > Size
  <2>1. w = IF o.ok THEN IF ~ read.drv.partial \/ read.drv.offset >= Size THEN readEnd(read) ELSE read
            ELSE o
    BY <1>3 DEF readData, Then, ReadOn
  <2>2. /\ o.blocks = m.blocks
        /\ \/ Start(o) /\ o.drv.inBlock /\ o.drv.block = b /\ o.drv.offset <= offset
           \/ Gone(o) /\ ~ o.ok
    BY openBlockEnds
  <2>3. count \in 1 .. Size /\ offset + count <= Size
    BY <1>3, CardAssumption
  <2> HIDE DEF o
  <2>4. CASE ~ o.ok
    BY <1>3, <2>1, <2>2, <2>4, Resting DEF Start
  <2>5. CASE o.ok
    <3>1. Start(o) /\ o.drv.inBlock /\ o.drv.block = b /\ o.drv.offset <= offset
      BY <2>2, <2>5 DEF Gone
    <3>2. /\ Start(read) /\ read.blocks = o.blocks /\ b \in Blocks
          /\ read.got = PartOf(o.blocks[b], offset, count)
      BY <2>3, <3>1, readOpenBlock
    <3> HIDE DEF read
    <3>3. /\ Steady(readEnd(read)) /\ readEnd(read).drv.cs = "high" /\ Alike(read, readEnd(read))
      BY <3>2, Starting
    <3>4. Rest(readEnd(read)) /\ readEnd(read).blocks = read.blocks /\ readEnd(read).got = read.got
      BY <3>3, Resting DEF Alike
    <3>5. Rest(read)
      BY <3>2 DEF Start
    <3> QED BY <1>3, <2>1, <2>2, <2>3, <2>5, <3>2, <3>4, <3>5
  <2> QED BY <2>4, <2>5
<1> QED BY <1>1, <1>2, <1>3

\* What is erased between two blocks (BlockDevice's Become).
Wiped(f, first, last) == [b \in Blocks |-> IF b \in first .. last THEN "erased" ELSE f[b]]

\* A card that is not busy hears the command, or the exchange goes wrong.
LEMMA HeardIfFree ==
  ASSUME NEW m, Closed(m), m.card.busy = 0, NEW cmd, NEW arg
  PROVE  LET c == cardCommand(m, cmd, arg)
         IN  \/ /\ c \in Machines /\ Alike(m, c) /\ c.drv = Selected(m.drv) /\ c.card = m.card
                /\ c.val \in {"none", "error"}
             \/ \E h \in Machines : /\ h.drv = Selected(m.drv) /\ h.card = m.card
                                    /\ Alike(m, h) /\ c = SdObey(h, cmd, arg)
<1> DEFINE c == cardCommand(m, cmd, arg)
           s == Sent(m)
<1>1. m.card \in CardStates
  BY DEF Closed, Machines
<1>2. Waited(m.card, CommandWait) = m.card
  BY <1>1 DEF Waited, CardStates, CommandWait
<1>3. s \in Machines /\ Alike(m, s) /\ s.drv = Selected(m.drv) /\ s.card = m.card
  BY <1>2, SentMachine DEF Closed
<1> HIDE DEF s, c
<1>4. CASE Unheard(s, c)
  <2>1. /\ c \in Machines /\ Alike(m, c) /\ c.drv = Selected(m.drv) /\ c.card = m.card
        /\ c.val \in {"none", "error"}
    BY <1>3, <1>4 DEF Unheard, Alike
  <2> QED BY <2>1 DEF c
<1>5. CASE \E i \in Int : s.card.busy = 0 /\ c = SdObey([s EXCEPT !.io = i], cmd, arg)
  <2> PICK i \in Int : c = SdObey([s EXCEPT !.io = i], cmd, arg)
    BY <1>5
  <2> DEFINE h == [s EXCEPT !.io = i]
  <2>1. h \in Machines /\ h.drv = s.drv /\ h.card = s.card /\ Alike(s, h)
    BY <1>3 DEF Machines, Alike
  <2>2. c = SdObey(h, cmd, arg)
    OBVIOUS
  <2> HIDE DEF h
  <2>3. Alike(m, h)
    BY <1>3, <2>1 DEF Alike
  <2> QED BY <1>3, <2>1, <2>2, <2>3 DEF c
<1> QED BY <1>4, <1>5, cardCommandSends DEF s, c

\* The same between two commands of a call, where what was not heard was not answered "ready".
LEMMA HeardWhenFree ==
  ASSUME NEW m, Steady(m), m.card.busy = 0, NEW cmd, NEW arg
  PROVE  LET c == cardCommand(m, cmd, arg)
         IN  \/ /\ Steady(c) /\ Alike(m, c) /\ c.drv = Selected(m.drv) /\ c.card = m.card
                /\ c.val # "ready"
             \/ \E h \in Machines : /\ h.ok /\ h.drv = Selected(m.drv) /\ h.card = m.card
                                    /\ Alike(m, h) /\ c = SdObey(h, cmd, arg)
<1> DEFINE c == cardCommand(m, cmd, arg)
<1>1. Closed(m) /\ m.drv \in Drivers
  BY DEF Steady, Closed, Machines
<1>2. \/ /\ c \in Machines /\ Alike(m, c) /\ c.drv = Selected(m.drv) /\ c.card = m.card
         /\ c.val \in {"none", "error"}
      \/ \E h \in Machines : /\ h.drv = Selected(m.drv) /\ h.card = m.card
                             /\ Alike(m, h) /\ c = SdObey(h, cmd, arg)
  BY <1>1, HeardIfFree
<1> HIDE DEF c
<1>3. Selected(m.drv).inBlock = m.drv.inBlock /\ Selected(m.drv).type = m.drv.type
  BY <1>1, SelectedDriver
<1>4. c \in Machines /\ Alike(m, c) /\ c.drv = Selected(m.drv) /\ c.card = m.card => Steady(c)
  BY <1>3 DEF Steady, Closed, Known, Alike
<1>5. \A h : Alike(m, h) => h.ok
  BY <1>1 DEF Alike, Closed
<1> QED BY <1>2, <1>4, <1>5 DEF c

\* The card once it knows the last block to erase.
Ending(c, b) == [c EXCEPT !.to = b]

\* The last block to be erased.
LEMMA EraseEndRequired ==
  ASSUME NEW m, Steady(m), m.card.busy = 0, m.card.phase = "ready", CardAssumption, NEW a
  PROVE  LET c == Require(m, "CMD33", a)
         IN  /\ c.blocks = m.blocks
             /\ \/ /\ Steady(c) /\ c.ok /\ Alike(m, c) /\ c.drv = Selected(m.drv)
                   /\ BlockAt(a) \in Blocks /\ c.card = Ending(m.card, BlockAt(a))
                \/ Gone(c) /\ ~ c.ok
<1> DEFINE k == cardCommand(m, "CMD33", a)
           c == Require(m, "CMD33", a)
           b == BlockAt(a)
<1>1. \/ /\ Steady(k) /\ Alike(m, k) /\ k.drv = Selected(m.drv) /\ k.card = m.card /\ k.val # "ready"
      \/ \E h \in Machines : /\ h.ok /\ h.drv = Selected(m.drv) /\ h.card = m.card
                             /\ Alike(m, h) /\ k = SdObey(h, "CMD33", a)
  BY HeardWhenFree
<1>2. c = IF k.val = "ready" THEN k ELSE Fail(k)
  BY DEF Require
<1> HIDE DEF k, c, b
<1>3. CASE Steady(k) /\ Alike(m, k) /\ k.val # "ready"
  <2>1. Gone(Fail(k)) /\ Fail(k).blocks = k.blocks
    BY <1>3, Failing
  <2> QED BY <1>2, <1>3, <2>1 DEF Gone, Alike, c
<1>4. CASE \E h \in Machines : /\ h.ok /\ h.drv = Selected(m.drv) /\ h.card = m.card
                             /\ Alike(m, h) /\ k = SdObey(h, "CMD33", a)
  <2> PICK h \in Machines : /\ h.ok /\ h.drv = Selected(m.drv) /\ h.card = m.card
                            /\ Alike(m, h) /\ k = SdObey(h, "CMD33", a)
    BY <1>4
  <2>1. k = IF b \in Blocks THEN Says([h EXCEPT !.card.to = b], "ready") ELSE Says(h, "error")
    BY DEF SdObey, b
  <2>2. h.card \in CardStates
    BY DEF Machines
  <2>3. Known(h.drv, h.card) /\ ~ h.drv.inBlock
    <3>1. m.drv \in Drivers /\ Known(m.drv, m.card) /\ ~ m.drv.inBlock
      BY DEF Steady, Closed, Machines
    <3> QED BY <3>1, SelectedDriver DEF Known
  <2>4. CASE b \notin Blocks
    <3>1. k = [h EXCEPT !.val = "error"]
      BY <2>1, <2>4 DEF Says
    <3>2. /\ k \in Machines /\ k.ok /\ k.drv = h.drv /\ k.card = h.card /\ k.blocks = h.blocks
          /\ k.val = "error"
      BY <3>1 DEF Machines, Answers
    <3>3. Steady(k)
      BY <2>3, <3>2 DEF Steady, Closed
    <3>4. Gone(Fail(k)) /\ Fail(k).blocks = k.blocks
      BY <3>3, Failing
    <3> QED BY <1>2, <3>2, <3>4 DEF Gone, Alike, c
  <2>5. CASE b \in Blocks
    <3> DEFINE q == Ending(h.card, b)
    <3>1. b \in Asked
      BY <2>5, CardAssumption DEF Blocks, Asked
    <3>2. q \in CardStates /\ q.busy = h.card.busy /\ q.phase = h.card.phase
      BY <2>2, <3>1 DEF CardStates, Ending
    <3>3. k = [h EXCEPT !.card = q, !.val = "ready"]
      BY <2>1, <2>2, <2>5 DEF Says, Ending, Machines, CardStates
    <3>4. /\ k \in Machines /\ k.ok /\ k.drv = h.drv /\ k.card = q /\ Alike(h, k)
          /\ k.val = "ready"
      BY ZenonT(30), <3>2, <3>3 DEF Machines, Answers, Alike
    <3>5. Steady(k)
      BY <2>3, <3>2, <3>4 DEF Steady, Closed, Known, CommandWait
    <3> QED BY <1>2, <2>5, <3>4, <3>5 DEF Alike, c, b
  <2> QED BY <2>4, <2>5
<1> QED BY <1>1, <1>3, <1>4

\* The card once it has wiped them.
Wiping(m) == [m.card EXCEPT !.phase = "ready", !.at = 0, !.pos = 0, !.to = 0, !.busy = m.duration]

\* The command to erase: the blocks between the two named are wiped, or the call has failed.
LEMMA EraseRequired ==
  ASSUME NEW m, Steady(m), m.card.busy = 0, m.card.phase = "ready", CardAssumption
  PROVE  LET c == Require(m, "CMD38", 0)
         IN  \/ /\ Closed(c) /\ Known(c.drv, c.card) /\ c.card = Wiping(m) /\ c.got = m.got
                /\ c.blocks = Wiped(m.blocks, m.card.at, m.card.to)
             \/ Gone(c) /\ ~ c.ok /\ c.blocks = m.blocks
<1> DEFINE k == cardCommand(m, "CMD38", 0)
           c == Require(m, "CMD38", 0)
<1>1. \/ /\ Steady(k) /\ Alike(m, k) /\ k.drv = Selected(m.drv) /\ k.card = m.card /\ k.val # "ready"
      \/ \E h \in Machines : /\ h.ok /\ h.drv = Selected(m.drv) /\ h.card = m.card
                             /\ Alike(m, h) /\ k = SdObey(h, "CMD38", 0)
  BY HeardWhenFree
<1>2. c = IF k.val = "ready" THEN k ELSE Fail(k)
  BY DEF Require
<1> HIDE DEF k, c
<1>3. CASE Steady(k) /\ Alike(m, k) /\ k.val # "ready"
  <2>1. Gone(Fail(k)) /\ Fail(k).blocks = k.blocks
    BY <1>3, Failing
  <2> QED BY <1>2, <1>3, <2>1 DEF Gone, Alike, c
<1>4. CASE \E h \in Machines : /\ h.ok /\ h.drv = Selected(m.drv) /\ h.card = m.card
                             /\ Alike(m, h) /\ k = SdObey(h, "CMD38", 0)
  <2> PICK h \in Machines : /\ h.ok /\ h.drv = Selected(m.drv) /\ h.card = m.card
                            /\ Alike(m, h) /\ k = SdObey(h, "CMD38", 0)
    BY <1>4
  <2> DEFINE q == Wiping(m)
             f == Wiped(m.blocks, m.card.at, m.card.to)
  <2>1. h.card \in CardStates /\ h.blocks = m.blocks /\ h.duration = m.duration /\ h.got = m.got
        /\ m.blocks \in [Blocks -> SdContents] /\ m.duration \in Durations \cup {0}
    BY DEF Machines, Alike, Steady, Closed
  <2>2. k = [Goes(h, "ready", 0) EXCEPT
               !.blocks = [b \in Blocks |-> IF b \in h.card.at .. h.card.to THEN "erased" ELSE @[b]],
               !.card.to = 0, !.card.busy = h.duration]
    BY DEF SdObey
  <2>3. Goes(h, "ready", 0) =
          [h EXCEPT !.card = [h.card EXCEPT !.phase = "ready", !.at = 0, !.pos = 0], !.val = "ready"]
    BY <2>1 DEF Goes, Says, Machines, CardStates
  <2> DEFINE g == Goes(h, "ready", 0)
  <2>11. /\ g \in Machines /\ g.blocks = m.blocks
         /\ g.card = [h.card EXCEPT !.phase = "ready", !.at = 0, !.pos = 0]
    <3>1. 0 \in Asked /\ 0 \in 0 .. Size
      BY CardAssumption DEF Asked
    <3> DEFINE y == [h.card EXCEPT !.phase = "ready", !.at = 0, !.pos = 0]
    <3>2. y \in CardStates
      BY <2>1, <3>1 DEF CardStates
    <3>3. g = [h EXCEPT !.card = y, !.val = "ready"]
      BY <2>3
    <3> HIDE DEF y, g
    <3>4. g \in Machines /\ g.blocks = m.blocks /\ g.card = y
      BY <2>1, <3>2, <3>3 DEF Machines, Answers
    <3> QED BY <3>4 DEF y
  <2>12. [b \in Blocks |-> IF b \in h.card.at .. h.card.to THEN "erased" ELSE g.blocks[b]] = f
    BY <2>11 DEF Wiped
  <2>13. [[g.card EXCEPT !.to = 0] EXCEPT !.busy = h.duration] = q
    BY <2>1, <2>11 DEF Wiping, CardStates
  <2> HIDE DEF g, q, f
  <2>14. k = [g EXCEPT !.blocks = f, !.card = q]
    BY <2>2, <2>11, <2>12, <2>13 DEF Machines, g
  <2>4. k = [h EXCEPT !.blocks = f, !.card = q, !.val = "ready"]
    BY ZenonT(60), <2>3, <2>14 DEF Machines, g
  <2>5. ASSUME NEW x \in Durations \cup {0} PROVE x \in Nat
    BY CardAssumption
  <2>6. m.duration \in Nat /\ 0 \in Asked /\ 0 \in 0 .. Size
    <3>1. LastBlock \in Nat /\ Size \in Nat
      BY CardAssumption
    <3>2. m.duration \in Nat
      BY <2>1, <2>5
    <3> QED BY <3>1, <3>2 DEF Asked
  <2>7. q \in CardStates /\ q.phase = "ready"
    BY <2>1, <2>6 DEF Wiping, CardStates, q
  <2>8. f \in [Blocks -> SdContents]
    BY <2>1 DEF Wiped, SdContents, f
  <2>9. /\ k \in Machines /\ k.ok /\ k.drv = h.drv /\ k.card = q /\ k.blocks = f /\ k.got = m.got
        /\ k.val = "ready"
    BY ZenonT(60), <2>1, <2>4, <2>7, <2>8 DEF Machines, Answers
  <2>10. Known(h.drv, q) /\ ~ h.drv.inBlock
    <3>1. m.drv \in Drivers /\ Known(m.drv, m.card) /\ ~ m.drv.inBlock
      BY DEF Steady, Closed, Machines
    <3> QED BY <2>7, <3>1, SelectedDriver DEF Known
  <2> QED BY <1>2, <2>9, <2>10 DEF Closed, c, q, f
<1> QED BY <1>1, <1>3, <1>4

\* erase wipes the blocks it was asked for when it succeeds; when it fails, those or none.
LEMMA eraseEnds ==
  ASSUME NEW m, Start(m), CardAssumption, NEW first \in Asked, NEW last \in Asked
  PROVE  LET w == erase(m, first, last)
         IN  /\ Rest(w)
             /\ \/ /\ w.ok /\ first \in Blocks /\ last \in Blocks /\ w.got = m.got
                   /\ w.blocks = Wiped(m.blocks, first, last)
                \/ ~ w.ok /\ w.blocks = m.blocks
                \/ ~ w.ok /\ w.blocks = Wiped(m.blocks, first, last)
<1> DEFINE s == readEnd(m)
           r == readRegister(s)
           e == IF slot.single THEN r ELSE Fail(r)
           f == Require(e, "CMD32", Address(r, first))
           l == Require(f, "CMD33", Address(f, last))
           c == Require(l, "CMD38", 0)
           w == WaitOrFail(c, EraseWait)
           y == ChipSelectHigh(w)
           result == erase(m, first, last)
<1>1. Steady(s) /\ Alike(m, s) /\ readRegister(m) = r
  BY Starting DEF readRegister
<1>2. result = IF ~ r.ok THEN r ELSE IF ~ e.ok THEN e ELSE IF ~ f.ok THEN f
               ELSE IF ~ l.ok THEN l ELSE IF ~ c.ok THEN c ELSE IF ~ w.ok THEN w ELSE y
  BY <1>1 DEF erase, Then
<1>3. \/ /\ Steady(r) /\ r.ok /\ Alike(s, r) /\ r.drv.cs = "high"
         /\ r.card.busy = 0 /\ r.card.phase # "multi"
      \/ Gone(r) /\ ~ r.ok /\ r.blocks = s.blocks
  BY <1>1, readRegisterEnds
<1>4. first \in Nat /\ last \in Nat
  BY CardAssumption DEF Asked
<1>5. s.blocks = m.blocks /\ s.got = m.got
  BY <1>1 DEF Alike
<1> HIDE DEF s, r
<1>6. CASE ~ r.ok
  BY <1>2, <1>3, <1>5, <1>6, Resting
<1>7. CASE r.ok /\ ~ slot.single
  <2>1. Gone(Fail(r)) /\ Fail(r).blocks = r.blocks
    BY <1>3, <1>7, Failing
  <2>2. r.blocks = m.blocks /\ e = Fail(r)
    BY <1>3, <1>5, <1>7 DEF Alike
  <2> QED BY <1>2, <1>7, <2>1, <2>2, Resting DEF Gone
<1>8. CASE r.ok /\ slot.single
  <2>1. e = r /\ Steady(r) /\ r.blocks = m.blocks /\ r.got = m.got /\ r.card.busy = 0
    BY <1>3, <1>5, <1>8 DEF Alike
  <2>2. f = Require(r, "CMD32", Address(r, first)) /\ BlockAt(Address(r, first)) = first
    BY <1>4, <2>1, AddressNames DEF Steady
  <2> DEFINE a == Address(r, first)
  <2> HIDE DEF e, a
  <2>3. \/ Steady(f) /\ f.ok /\ Alike(r, f) /\ Named(r, "CMD32", first, f)
        \/ Gone(f) /\ ~ f.ok /\ f.blocks = r.blocks
    <3>1. f = Require(r, "CMD32", a) /\ BlockAt(a) = first
      BY <2>2 DEF a
    <3> HIDE DEF f
    <3> QED BY <2>1, <3>1, BlockRequired
  <2> HIDE DEF f
  <2>4. CASE ~ f.ok
    BY <1>2, <1>8, <2>1, <2>3, <2>4, Resting
  <2>5. CASE f.ok
    <3>1. Steady(f) /\ f.blocks = m.blocks /\ f.got = m.got /\ Named(r, "CMD32", first, f)
      BY <2>1, <2>3, <2>5 DEF Alike
    <3>2. Waited(r.card, CommandWait).busy = 0
      BY <2>1 DEF Waited, CommandWait, Steady, Closed, Machines, CardStates
    <3>3. f.card.phase = "ready" /\ f.card.at = first /\ f.card.busy = 0 /\ first \in Blocks
      BY <3>1, <3>2 DEF Named, After
    <3>4. BlockAt(Address(f, last)) = last
      BY <1>4, <3>1, AddressNames DEF Steady
    <3>5. /\ l.blocks = f.blocks
          /\ \/ /\ Steady(l) /\ l.ok /\ Alike(f, l) /\ last \in Blocks
                /\ l.card = Ending(f.card, last)
             \/ Gone(l) /\ ~ l.ok
      BY <3>1, <3>3, <3>4, EraseEndRequired
    <3> HIDE DEF l
    <3>6. CASE ~ l.ok
      BY <1>2, <1>8, <2>1, <2>5, <3>1, <3>5, <3>6, Resting
    <3>7. CASE l.ok
      <4>1. Steady(l) /\ l.blocks = m.blocks /\ l.got = m.got /\ last \in Blocks
        BY <3>1, <3>5, <3>7 DEF Alike
      <4>2. l.card.phase = "ready" /\ l.card.at = first /\ l.card.to = last /\ l.card.busy = 0
        BY <3>1, <3>3, <3>5, <3>7 DEF Ending, Steady, Closed, Machines, CardStates
      <4>3. \/ /\ Closed(c) /\ Known(c.drv, c.card) /\ c.card = Wiping(l) /\ c.got = m.got
               /\ c.blocks = Wiped(m.blocks, first, last)
            \/ Gone(c) /\ ~ c.ok /\ c.blocks = m.blocks
        BY <4>1, <4>2, EraseRequired
      <4> HIDE DEF c
      <4>4. CASE ~ c.ok
        BY <1>2, <1>8, <2>1, <2>5, <3>7, <4>3, <4>4, Resting DEF Closed
      <4>5. CASE c.ok
        <5>1. Closed(c) /\ Known(c.drv, c.card) /\ c.card = Wiping(l) /\ c.got = m.got
              /\ c.blocks = Wiped(m.blocks, first, last)
          BY <4>3, <4>5
        <5>2. c.card.phase = "ready" /\ EraseWait \in Nat
          BY <4>1, <5>1, CardAssumption DEF Wiping, Steady, Closed, Machines, CardStates
        <5>3. /\ w.blocks = c.blocks
              /\ \/ Steady(w) /\ w.ok /\ Alike(c, w)
                 \/ Gone(w) /\ ~ w.ok
          BY <5>1, <5>2, WaitOrFailEnds
        <5> HIDE DEF w
        <5>4. CASE ~ w.ok
          BY <1>2, <1>8, <2>1, <2>5, <3>7, <4>5, <5>1, <5>3, <5>4, Resting
        <5>5. CASE w.ok
          <6>1. Steady(y) /\ Alike(w, y) /\ y.drv.cs = "high"
            BY <5>3, <5>5, Deselecting
          <6> HIDE DEF y
          <6>2. y.ok /\ y.blocks = Wiped(m.blocks, first, last) /\ y.got = m.got
            BY <5>1, <5>3, <5>5, <6>1 DEF Alike
          <6> QED BY <1>2, <1>8, <2>1, <2>5, <3>3, <3>7, <4>1, <4>5, <5>5, <6>1, <6>2, Resting
        <5> QED BY <5>4, <5>5
      <4> QED BY <4>4, <4>5
    <3> QED BY <3>6, <3>7
  <2> QED BY <2>4, <2>5
<1> QED BY <1>6, <1>7, <1>8

\* Within a sequence of blocks, the next of which is b.
Streaming(m, b) ==
  /\ Closed(m) /\ Known(m.drv, m.card) /\ m.drv.cs = "low" /\ m.card.phase # "receiving"
  /\ m.card.phase = "multi" => m.card.at = b /\ m.card.busy <= WriteWait + 3 * CommandWait

\* Three commands are put on the line before a sequence: a card that is still
\* busy with the one before has heard none of them, or answers the last.
LEMMA writeStartEnds ==
  ASSUME NEW m, Start(m), CardAssumption, NEW b \in Asked, b = 0 => ~ m.drv.inBlock
  PROVE  LET w == writeStart(m, b)
         IN  /\ w.blocks = m.blocks
             /\ (w.ok /\ Streaming(w, b)) \/ (~ w.ok /\ Rest(w))
<1> DEFINE r == readEnd(m)
           k == cardCommand(r, "CMD55", 0)
           a == cardCommand(k, "ACMD23", 1)
           p == Address(a, b)
           c == Require(a, "CMD25", p)
           w == writeStart(m, b)
<1>1. CASE b = 0
  <2>1. w = Fail(m)
    BY <1>1 DEF writeStart
  <2> QED BY <1>1, <2>1, Refusing, Resting
<1>2. CASE b # 0
  <2>1. Steady(r) /\ Alike(m, r) /\ cardCommand(m, "CMD55", 0) = k
    BY Starting
  <2>2. w = IF a.val = "ready" THEN IF a.ok THEN c ELSE a
            ELSE IF Fail(a).ok THEN Require(Fail(a), "CMD25", Address(Fail(a), b)) ELSE Fail(a)
    BY <1>2, <2>1 DEF writeStart, cardAcmd, Then
  <2> HIDE DEF r
  <2>3. Steady(k) /\ Alike(r, k) /\ k.card = Waited(r.card, CommandWait)
    BY <2>1, QuietCommand
  <2> HIDE DEF k
  <2>4. Steady(a) /\ Alike(k, a) /\ a.card = Waited(k.card, CommandWait)
    BY <2>3, QuietCommand
  <2>5. BlockAt(p) = b
    <3>1. b \in Nat
      BY CardAssumption DEF Asked
    <3> QED BY <2>4, <3>1, AddressNames DEF Steady
  <2> HIDE DEF a, p
  <2>6. a.blocks = m.blocks /\ a.ok
    BY <2>1, <2>3, <2>4 DEF Alike, Steady, Closed
  <2>7. CASE a.val # "ready"
    <3>1. Gone(Fail(a)) /\ Fail(a).blocks = a.blocks
      BY <2>4, Failing
    <3> QED BY <2>2, <2>6, <2>7, <3>1, Resting DEF Gone
  <2>8. CASE a.val = "ready"
    <3>1. w = c
      BY <2>2, <2>6, <2>8
    <3>2. \/ Steady(c) /\ c.ok /\ Alike(a, c) /\ c.drv = Selected(a.drv) /\ Named(a, "CMD25", b, c)
          \/ Gone(c) /\ ~ c.ok /\ c.blocks = a.blocks
      BY <2>4, <2>5, BlockRequired
    <3> HIDE DEF c, w
    <3>3. CASE ~ c.ok
      BY <2>6, <3>1, <3>2, <3>3, Resting DEF w
    <3>4. CASE c.ok
      <4>1. Steady(c) /\ c.blocks = m.blocks /\ c.drv = Selected(a.drv) /\ Named(a, "CMD25", b, c)
        BY <2>6, <3>2, <3>4 DEF Alike
      <4>2. c.drv.cs = "low"
        BY <2>4, <4>1, SelectedDriver DEF Steady, Closed, Machines
      <4>3. /\ r.card \in CardStates /\ k.card \in CardStates /\ a.card \in CardStates
            /\ c.card \in CardStates
        BY <2>1, <2>3, <2>4, <4>1 DEF Steady, Closed, Machines
      <4>4. CASE c.card = Waited(a.card, CommandWait) /\ c.card.busy > 0
        <5>1. c.card.phase = r.card.phase
          BY <2>3, <2>4, <4>3, <4>4 DEF Waited, CardStates
        <5>2. c.card.busy + 3 <= r.card.busy
          BY <2>3, <2>4, <4>3, <4>4 DEF Waited, CardStates, CommandWait
        <5>3. r.card.phase = "multi" => r.card.busy <= 3
          BY <2>1 DEF Steady, CommandWait
        <5>4. c.card.phase # "multi"
          BY <4>3, <4>4, <5>1, <5>2, <5>3 DEF CardStates
        <5>5. c.card.phase # "receiving"
          BY <4>1, <4>4 DEF Steady, Known
        <5> QED BY <3>1, <3>4, <4>1, <4>2, <5>4, <5>5 DEF Streaming, Steady, w
      <4>5. CASE c.card.phase = "multi" /\ c.card.at = b /\ c.card.busy = 0
        BY <3>1, <3>4, <4>1, <4>2, <4>5 DEF Streaming, Steady, WriteWait, CommandWait, w
      <4> QED BY <4>1, <4>4, <4>5 DEF Named, After
    <3> QED BY <3>3, <3>4
  <2> QED BY <2>7, <2>8
<1> QED BY <1>1, <1>2

\* A block of the sequence goes where the last one ended, if the card takes it.
LEMMA writeDataEnds ==
  ASSUME NEW m, NEW b \in Asked, Streaming(m, b), CardAssumption, Prompt, NEW d \in Data
  PROVE  LET w == writeData(m, d)
         IN  \/ /\ w.ok /\ Streaming(w, b + 1) /\ b \in Blocks /\ w.got = m.got
                /\ \/ w.blocks = Put(m.blocks, b, d)
                   \/ w.blocks = Put(m.blocks, b, "torn")
             \/ ~ w.ok /\ Rest(w) /\ w.blocks = m.blocks
<1> DEFINE y == WaitOrFail(m, WriteWait)
           t == writeToken(y, d)
           w == writeData(m, d)
<1>1. w = IF y.ok THEN t ELSE y
  BY DEF writeData, Then
<1>2. Closed(m) /\ Known(m.drv, m.card) /\ m.card \in CardStates
  BY DEF Streaming, Closed, Machines
<1>3. /\ y.blocks = m.blocks /\ y.card = Waited(m.card, WriteWait)
      /\ \/ Steady(y) /\ y.ok /\ y.card.busy = 0 /\ Alike(m, y) /\ y.drv = m.drv
         \/ Gone(y) /\ ~ y.ok
  BY <1>2, WaitOrFailEnds DEF Streaming, WriteWait
<1> HIDE DEF y
<1>4. CASE ~ y.ok
  BY <1>1, <1>3, <1>4, Resting
<1>5. CASE y.ok
  <2>1. Steady(y) /\ y.got = m.got /\ y.drv = m.drv /\ w = t
    BY <1>1, <1>3, <1>5 DEF Alike
  <2>2. y.card.phase = m.card.phase /\ y.card.at = m.card.at
    BY <1>2, <1>3 DEF Waited, CardStates
  <2>3. Took(y, d, t) \/ (Gone(t) /\ ~ t.ok /\ t.blocks = y.blocks)
    BY <2>1, writeTokenEnds
  <2> HIDE DEF t, w
  <2>4. CASE Gone(t) /\ ~ t.ok /\ t.blocks = y.blocks
    BY <1>3, <2>1, <2>4, Resting DEF w
  <2>5. CASE Took(y, d, t)
    <3>1. y.card.phase = "multi" /\ y.card.at = b /\ b \in Blocks
      BY <2>2, <2>5 DEF Took, Streaming
    <3>2. \/ t.blocks = Put(m.blocks, b, d)
          \/ t.blocks = Put(m.blocks, b, "torn")
      BY <1>3, <2>5, <3>1 DEF Took
    <3>3. y.card \in CardStates /\ y.duration \in Durations \cup {0}
      BY <2>1 DEF Steady, Closed, Machines
    <3>4. y.duration <= WriteWait + 3 * CommandWait
      <4>1. ASSUME NEW x \in Durations \cup {0} PROVE x <= WriteWait + 3 * CommandWait
        BY DEF Prompt, WriteWait, CommandWait
      <4> QED BY <3>3, <4>1
    <3>5. t.card.phase = "multi" /\ t.card.at = b + 1 /\ t.card.busy = y.duration
      BY <2>5, <3>1, <3>3 DEF Took, Taking, CardStates
    <3>6. Closed(t) /\ Known(t.drv, t.card) /\ t.drv.cs = "low"
      BY <1>2, <2>1, <2>5, <3>5 DEF Took, Streaming, Closed, Known
    <3>7. Streaming(t, b + 1)
      BY <3>4, <3>5, <3>6 DEF Streaming
    <3> QED BY <2>1, <2>5, <3>1, <3>2, <3>7 DEF Took, w
  <2> QED BY <2>3, <2>4, <2>5
<1> QED BY <1>4, <1>5

\* The card once it has heard the end of the sequence.
Ended(m) == [m.card EXCEPT !.phase = "ready", !.at = 0, !.busy = m.duration]

\* writeStop ends the sequence, whether the card heard it or not, and stores nothing.
LEMMA writeStopEnds ==
  ASSUME NEW m, NEW b \in Asked, Streaming(m, b), CardAssumption
  PROVE  LET w == writeStop(m) IN Rest(w) /\ w.blocks = m.blocks
<1> DEFINE y == WaitOrFail(m, WriteWait)
           s == IF ~ SelectedIn(y, {"multi"}) THEN y
                ELSE [y EXCEPT !.card.phase = "ready", !.card.at = 0, !.card.busy = y.duration]
           v == WaitOrFail(s, WriteWait)
           e == ChipSelectHigh(v)
           w == writeStop(m)
<1>1. w = IF y.ok THEN IF v.ok THEN e ELSE v ELSE y
  BY DEF writeStop, Then
<1>2. Closed(m) /\ Known(m.drv, m.card) /\ m.card \in CardStates
  BY DEF Streaming, Closed, Machines
<1>3. /\ y.blocks = m.blocks
      /\ \/ Steady(y) /\ y.ok /\ y.card.busy = 0 /\ y.drv = m.drv
         \/ Gone(y) /\ ~ y.ok
  BY <1>2, WaitOrFailEnds DEF Streaming, WriteWait
<1> HIDE DEF y
<1>4. CASE ~ y.ok
  BY <1>1, <1>3, <1>4, Resting
<1>5. CASE y.ok
  <2>1. /\ Steady(y) /\ y.card.busy = 0 /\ y.drv.cs = "low" /\ y \in Machines
        /\ y.card \in CardStates /\ y.ok /\ ~ y.drv.inBlock /\ Known(y.drv, y.card)
    BY <1>3, <1>5 DEF Streaming, Steady, Closed, Machines
  <2>2. Closed(s) /\ Known(s.drv, s.card) /\ s.card.phase # "multi" /\ s.blocks = y.blocks
    <3>1. CASE ~ SelectedIn(y, {"multi"})
      BY <2>1, <3>1 DEF SelectedIn, Closed
    <3>2. CASE SelectedIn(y, {"multi"})
      <4>1. s = [y EXCEPT !.card = Ended(y)]
        BY <2>1, <3>2 DEF Ended, Machines, CardStates
      <4>2. Ended(y) \in CardStates /\ Ended(y).phase = "ready"
        <5>1. y.duration \in Durations \cup {0}
          BY <2>1 DEF Machines
        <5>2. ASSUME NEW x \in Durations \cup {0} PROVE x \in Nat
          BY CardAssumption
        <5>3. y.duration \in Nat
          BY <5>1, <5>2
        <5>4. 0 \in Asked
          BY CardAssumption DEF Asked
        <5> QED BY <2>1, <5>3, <5>4 DEF Ended, CardStates
      <4> HIDE DEF s
      <4>3. s \in Machines /\ s.card = Ended(y) /\ s.drv = y.drv /\ s.ok /\ s.blocks = y.blocks
        BY <2>1, <4>1, <4>2 DEF Machines
      <4> QED BY <2>1, <4>2, <4>3 DEF Closed, Known
    <3> QED BY <3>1, <3>2
  <2> HIDE DEF s
  <2>3. /\ v.blocks = s.blocks
        /\ (Steady(v) /\ v.ok) \/ (Gone(v) /\ ~ v.ok)
    BY <2>2, WaitOrFailEnds DEF WriteWait
  <2> HIDE DEF v
  <2>4. CASE ~ v.ok
    BY <1>1, <1>3, <1>5, <2>2, <2>3, <2>4, Resting
  <2>5. CASE v.ok
    <3>1. Steady(e) /\ Alike(v, e) /\ e.drv.cs = "high"
      BY <2>3, <2>5, Deselecting DEF Gone
    <3>2. w = e
      BY <1>1, <1>5, <2>5
    <3> HIDE DEF e, w
    <3>3. e.blocks = m.blocks /\ Rest(e)
      BY <1>3, <2>2, <2>3, <3>1, Resting DEF Alike
    <3> QED BY <3>2, <3>3 DEF w
  <2> QED BY <2>4, <2>5
<1> QED BY <1>4, <1>5

\* The loop leaves what one of its tries leaves.
LEMMA UntilEnds ==
  ASSUME NEW S, NEW m \in S, NEW cmd, NEW wanted, \A x \in S : Try(x, cmd) \in S
  PROVE  \E x \in S : LET e == Try(x, cmd)
                     IN  Until(m, cmd, wanted) = IF e.val = wanted THEN e ELSE Fail(e)
<1> DEFINE Again(x) == IF x.val = wanted THEN x ELSE Try(x, cmd)
           Tried(e) == \E x \in S : e = Try(x, cmd)
           t1 == Try(m, cmd)
           t2 == Again(t1)
           t3 == Again(t2)
           t4 == Again(t3)
           t5 == Again(t4)
           t6 == Again(t5)
           t7 == Again(t6)
           g == [i \in 1 .. InitTries |->
                   IF i = 1 THEN t1 ELSE IF i = 2 THEN t2 ELSE IF i = 3 THEN t3
                   ELSE IF i = 4 THEN t4 ELSE IF i = 5 THEN t5 ELSE IF i = 6 THEN t6 ELSE t7]
<1>1. ASSUME NEW e, Tried(e) PROVE Tried(Again(e))
  BY <1>1
<1>2. Tried(t1)
  OBVIOUS
<1> HIDE DEF Again, Tried, t1
<1>3. Tried(t2)
  BY <1>1, <1>2
<1> HIDE DEF t2
<1>4. Tried(t3)
  BY <1>1, <1>3
<1> HIDE DEF t3
<1>5. Tried(t4)
  BY <1>1, <1>4
<1> HIDE DEF t4
<1>6. Tried(t5)
  BY <1>1, <1>5
<1> HIDE DEF t5
<1>7. Tried(t6)
  BY <1>1, <1>6
<1> HIDE DEF t6
<1>8. Tried(t7)
  BY <1>1, <1>7
<1> HIDE DEF t7
<1>9. ASSUME NEW i \in 1 .. InitTries PROVE g[i] = IF i = 1 THEN t1 ELSE Again(g[i - 1])
  <2>1. i \in {1, 2, 3, 4, 5, 6, 7}
    BY DEF InitTries
  <2>2. CASE i = 1
    BY <2>2 DEF InitTries
  <2>3. CASE i = 2
    BY <2>3 DEF InitTries, t2
  <2>4. CASE i = 3
    BY <2>4 DEF InitTries, t3
  <2>5. CASE i = 4
    BY <2>5 DEF InitTries, t4
  <2>6. CASE i = 5
    BY <2>6 DEF InitTries, t5
  <2>7. CASE i = 6
    BY <2>7 DEF InitTries, t6
  <2>8. CASE i = 7
    BY <2>8 DEF InitTries, t7
  <2> QED BY <2>1, <2>2, <2>3, <2>4, <2>5, <2>6, <2>7, <2>8
<1>10. g = [i \in 1 .. InitTries |-> g[i]]
  OBVIOUS
<1>11. g[InitTries] = t7
  BY DEF InitTries
<1> HIDE DEF g
<1> DEFINE after[i \in 1 .. InitTries] ==
             IF i = 1 THEN Try(m, cmd)
             ELSE LET m1 == after[i - 1] IN IF m1.val = wanted THEN m1 ELSE Try(m1, cmd)
<1>12. \E f : f = [i \in 1 .. InitTries |->
                     IF i = 1 THEN Try(m, cmd)
                     ELSE LET m1 == f[i - 1] IN IF m1.val = wanted THEN m1 ELSE Try(m1, cmd)]
  <2> DEFINE Body(f, i) ==
               IF i = 1 THEN Try(m, cmd)
               ELSE LET m1 == f[i - 1] IN IF m1.val = wanted THEN m1 ELSE Try(m1, cmd)
  <2>1. ASSUME NEW i \in 1 .. InitTries PROVE g[i] = Body(g, i)
    BY <1>9 DEF t1, Again
  <2> HIDE DEF Body
  <2>2. g = [i \in 1 .. InitTries |-> Body(g, i)]
    BY <1>10, <2>1
  <2>3. \E f : f = [i \in 1 .. InitTries |-> Body(f, i)]
    BY <2>2
  <2> QED BY <2>3 DEF Body
<1>13. after = [i \in 1 .. InitTries |->
                  IF i = 1 THEN Try(m, cmd)
                  ELSE LET m1 == after[i - 1] IN IF m1.val = wanted THEN m1 ELSE Try(m1, cmd)]
  BY <1>12
<1>14. Until(m, cmd, wanted) = IF after[InitTries].val = wanted THEN after[InitTries] ELSE Fail(after[InitTries])
  BY DEF Until
<1> HIDE DEF after
<1>15. ASSUME NEW i \in 1 .. InitTries PROVE after[i] = IF i = 1 THEN t1 ELSE Again(after[i - 1])
  BY <1>13 DEF t1, Again
<1>16. after[InitTries] = t7
  <2>1. \A i \in 1 .. 7 : after[i] = IF i = 1 THEN t1 ELSE Again(after[i - 1])
    BY <1>15 DEF InitTries
  <2>2. after[1] = t1
    BY <2>1
  <2>3. after[2] = t2
    <3>1. after[2] = Again(after[1])
      BY <2>1
    <3> QED BY <2>2, <3>1 DEF t2
  <2>4. after[3] = t3
    <3>1. after[3] = Again(after[2])
      BY <2>1
    <3> QED BY <2>3, <3>1 DEF t3
  <2>5. after[4] = t4
    <3>1. after[4] = Again(after[3])
      BY <2>1
    <3> QED BY <2>4, <3>1 DEF t4
  <2>6. after[5] = t5
    <3>1. after[5] = Again(after[4])
      BY <2>1
    <3> QED BY <2>5, <3>1 DEF t5
  <2>7. after[6] = t6
    <3>1. after[6] = Again(after[5])
      BY <2>1
    <3> QED BY <2>6, <3>1 DEF t6
  <2>8. after[7] = t7
    <3>1. after[7] = Again(after[6])
      BY <2>1
    <3> QED BY <2>7, <3>1 DEF t7
  <2> QED BY <2>8 DEF InitTries
<1> QED BY <1>8, <1>14, <1>16 DEF Tried

-----------------------------------------------------------------------------
(* init. *)

\* The driver once init has selected the card, and the card as it wakes.
Awake == [NewDriver EXCEPT !.cs = "low"]
InPhase(phase) == [NewCard EXCEPT !.phase = phase]

\* The driver and the card as they start.
LEMMA NewParts ==
  ASSUME CardAssumption
  PROVE  /\ NewDriver \in Drivers /\ NewCard \in CardStates
         /\ Awake \in Drivers /\ Awake.type = "none" /\ Awake.cs = "low" /\ ~ Awake.inBlock
         /\ \A phase \in {"idle", "ready"} : /\ InPhase(phase) \in CardStates
                                           /\ InPhase(phase).phase = phase
                                           /\ InPhase(phase).busy = 0
<1>1. 0 \in Asked /\ 0 \in 0 .. Size
  BY CardAssumption DEF Asked
<1>2. 128 \in Dividers
  BY DEF Dividers
<1>3. NewDriver \in Drivers /\ Awake \in Drivers
  BY <1>1, <1>2 DEF NewDriver, Awake, Drivers
<1>4. NewCard \in CardStates
  BY <1>1 DEF NewCard, CardStates
<1>5. Awake.type = "none" /\ Awake.cs = "low" /\ ~ Awake.inBlock
  BY DEF NewDriver, Awake
<1>6. ASSUME NEW phase \in {"idle", "ready"}
      PROVE  InPhase(phase) \in CardStates /\ InPhase(phase).phase = phase /\ InPhase(phase).busy = 0
  BY <1>1 DEF NewCard, InPhase, CardStates
<1> QED BY <1>3, <1>4, <1>5, <1>6

\* A call of init that failed: the card is deselected, and no more is known.
Dead(m) == m \in Machines /\ ~ m.ok /\ ~ m.drv.inBlock /\ m.drv.cs = "high"

\* A call of init that fails.
LEMMA Dying ==
  ASSUME NEW m, Closed(m)
  PROVE  Dead(Fail(m)) /\ Fail(m).blocks = m.blocks
<1>1. m \in Machines /\ m.drv \in Drivers
  BY DEF Closed, Machines
<1> DEFINE d == [m.drv EXCEPT !.cs = "high"]
<1>2. d \in Drivers /\ d.cs = "high" /\ d.inBlock = m.drv.inBlock
  BY <1>1 DEF Drivers
<1>3. Fail(m) = [m EXCEPT !.drv = d, !.ok = FALSE]
  BY <1>1 DEF Fail, ChipSelectHigh, Machines
<1> HIDE DEF d
<1>4. Fail(m) \in Machines /\ ~ Fail(m).ok /\ Fail(m).drv = d /\ Fail(m).blocks = m.blocks
  BY <1>1, <1>2, <1>3 DEF Machines
<1> QED BY <1>2, <1>4 DEF Dead, Closed

\* Within init, which keeps the card selected.
Within(m, d, f) == m \in Machines /\ m.ok /\ m.drv = d /\ m.blocks = f
Listening(d) == d \in Drivers /\ d.cs = "low" /\ ~ d.inBlock

\* Selecting a card that is selected changes nothing.
LEMMA ListeningDriver ==
  ASSUME NEW d, Listening(d)
  PROVE  Selected(d) = d
BY DEF Listening, Drivers, Selected

\* A command within init: it is not heard, or the card obeys it.
LEMMA HeardWithin ==
  ASSUME NEW d, Listening(d), NEW f, NEW m, Within(m, d, f), m.card.busy = 0, NEW cmd, NEW arg
  PROVE  LET c == cardCommand(m, cmd, arg)
         IN  \/ Within(c, d, f) /\ c.card = m.card /\ c.val \in {"none", "error"}
             \/ \E h \in Machines : Within(h, d, f) /\ h.card = m.card /\ c = SdObey(h, cmd, arg)
<1> DEFINE c == cardCommand(m, cmd, arg)
<1>1. Closed(m) /\ Selected(m.drv) = d
  BY ListeningDriver DEF Within, Listening, Closed
<1>2. \/ /\ c \in Machines /\ Alike(m, c) /\ c.drv = Selected(m.drv) /\ c.card = m.card
         /\ c.val \in {"none", "error"}
      \/ \E h \in Machines : /\ h.drv = Selected(m.drv) /\ h.card = m.card
                             /\ Alike(m, h) /\ c = SdObey(h, cmd, arg)
  BY <1>1, HeardIfFree
<1> HIDE DEF c
<1>3. \A h : h \in Machines /\ Alike(m, h) /\ h.drv = Selected(m.drv) => Within(h, d, f)
  BY <1>1 DEF Within, Alike
<1> QED BY <1>2, <1>3 DEF c

\* A card that answers "idle" to the reset has been reset.
LEMMA ResetTried ==
  ASSUME NEW d, Listening(d), NEW f, NEW m, Within(m, d, f), CardAssumption
  PROVE  LET c == Try(m, "CMD0")
         IN  Within(c, d, f) /\ (c.val = "idle" => c.card = InPhase("idle"))
<1> DEFINE c == cardCommand(m, "CMD0", 0)
           s == Sent(m)
<1>1. Closed(m) /\ Try(m, "CMD0") = c
  BY DEF Within, Listening, Closed, Try
<1>2. Closed(s) /\ Alike(m, s) /\ s.drv = d /\ s.blocks = f
  BY <1>1, SentMachine, ListeningDriver DEF Within, Alike
<1> HIDE DEF s, c
<1>3. CASE Unheard(s, c)
  <2>1. Within(c, d, f) /\ c.val # "idle"
    BY <1>1, <1>2, <1>3 DEF Unheard, Within, Closed, Alike
  <2> QED BY <1>1, <2>1
<1>4. CASE \E i \in Int : s.card.busy = 0 /\ c = SdObey([s EXCEPT !.io = i], "CMD0", 0)
  <2> PICK i \in Int : c = SdObey([s EXCEPT !.io = i], "CMD0", 0)
    BY <1>4
  <2> DEFINE h == [s EXCEPT !.io = i]
  <2>1. h \in Machines /\ h.drv = d /\ h.blocks = f /\ h.ok
    BY <1>2 DEF Closed, Machines
  <2>2. c = SdObey(h, "CMD0", 0)
    OBVIOUS
  <2> HIDE DEF h
  <2>3. c = [h EXCEPT !.card = InPhase("idle"), !.val = "idle"]
    BY <2>1, <2>2 DEF SdObey, Says, InPhase, Machines
  <2>4. InPhase("idle") \in CardStates
    BY NewParts
  <2>5. Within(c, d, f) /\ c.card = InPhase("idle")
    BY <2>1, <2>3, <2>4 DEF Within, Machines, Answers
  <2> QED BY <1>1, <2>5
<1> QED BY <1>1, <1>3, <1>4, cardCommandSends DEF s, c

\* The same, from within.
LEMMA Stopping ==
  ASSUME NEW d, Listening(d), NEW f, NEW m, Within(m, d, f)
  PROVE  Dead(Fail(m)) /\ ~ Fail(m).ok /\ Fail(m).blocks = f
<1>1. Closed(m) /\ m.blocks = f
  BY DEF Within, Listening, Closed
<1> QED BY <1>1, Dying DEF Dead

\* The first loop of init ends with a card that is reset, or init has failed.
LEMMA ResetEnds ==
  ASSUME NEW d, Listening(d), NEW f, NEW m, Within(m, d, f), CardAssumption
  PROVE  LET w == Until(m, "CMD0", "idle")
         IN  \/ Within(w, d, f) /\ w.ok /\ w.card = InPhase("idle")
             \/ Dead(w) /\ ~ w.ok /\ w.blocks = f
<1> DEFINE S == {x \in Machines : Within(x, d, f)}
           w == Until(m, "CMD0", "idle")
<1>1. m \in S
  BY DEF Within
<1>2. ASSUME NEW x \in S
      PROVE  Try(x, "CMD0") \in S /\ (Try(x, "CMD0").val = "idle" => Try(x, "CMD0").card = InPhase("idle"))
  <2>1. Within(Try(x, "CMD0"), d, f)
        /\ (Try(x, "CMD0").val = "idle" => Try(x, "CMD0").card = InPhase("idle"))
    BY ResetTried
  <2> QED BY <2>1 DEF Within
<1> HIDE DEF S
<1>3. PICK x \in S : LET e == Try(x, "CMD0") IN w = IF e.val = "idle" THEN e ELSE Fail(e)
  BY <1>1, <1>2, UntilEnds
<1> DEFINE e == Try(x, "CMD0")
<1>4. Within(e, d, f) /\ (e.val = "idle" => e.card = InPhase("idle"))
  BY <1>2 DEF S
<1>5. w = IF e.val = "idle" THEN e ELSE Fail(e)
  BY <1>3
<1> HIDE DEF e, w
<1>6. Dead(Fail(e)) /\ ~ Fail(e).ok /\ Fail(e).blocks = f
  BY <1>4, Stopping
<1> QED BY <1>4, <1>5, <1>6 DEF Within, w

\* The driver once it knows the type of the card.
OfType(d, type) == [d EXCEPT !.type = type]

\* Noting the type of the card.
LEMMA TypedDriver ==
  ASSUME NEW d, Listening(d), NEW type \in {"SD1", "SD2", "SDHC"}, NEW f, NEW m, Within(m, d, f)
  PROVE  LET y == [m EXCEPT !.drv.type = type]
         IN  /\ Listening(OfType(d, type)) /\ OfType(d, type).type = type
             /\ Within(y, OfType(d, type), f) /\ y.card = m.card
<1> DEFINE y == [m EXCEPT !.drv.type = type]
<1>1. Listening(OfType(d, type)) /\ OfType(d, type).type = type
  BY DEF Listening, OfType, Drivers
<1>2. y = [m EXCEPT !.drv = OfType(d, type)]
  BY DEF Within, Machines, OfType, Listening, Drivers
<1> HIDE DEF y
<1>3. y \in Machines /\ y.drv = OfType(d, type) /\ y.ok /\ y.blocks = f /\ y.card = m.card
  BY <1>1, <1>2 DEF Within, Machines, Listening
<1> QED BY <1>1, <1>3 DEF Within, y

\* The card is of the first or the second version, or init has failed.
LEMMA checkVersionEnds ==
  ASSUME NEW d, Listening(d), NEW f, NEW m, Within(m, d, f), m.card = InPhase("idle"), CardAssumption
  PROVE  LET w == checkVersion(m)
         IN  \/ \E type \in {"SD1", "SD2"} :
                   Within(w, OfType(d, type), f) /\ w.ok /\ w.card = InPhase("idle")
             \/ Dead(w) /\ ~ w.ok /\ w.blocks = f
<1> DEFINE c == cardCommand(m, "CMD8", 426)
           w == checkVersion(m)
<1>1. InPhase("idle") \in CardStates /\ InPhase("idle").phase = "idle" /\ InPhase("idle").busy = 0
  BY NewParts
<1>2. \/ Within(c, d, f) /\ c.card = m.card /\ c.val \in {"none", "error"}
      \/ \E h \in Machines : Within(h, d, f) /\ h.card = m.card /\ c = SdObey(h, "CMD8", 426)
  BY <1>1, HeardWithin
<1>3. w = IF c.val \in {"illegal", "none"} THEN [c EXCEPT !.drv.type = "SD1"]
          ELSE IF c.val = "idle" THEN [c EXCEPT !.drv.type = "SD2"] ELSE Fail(c)
  BY DEF checkVersion
<1> HIDE DEF c, w
<1>4. Within(c, d, f) /\ c.card = InPhase("idle")
  <2>1. CASE \E h \in Machines : Within(h, d, f) /\ h.card = m.card /\ c = SdObey(h, "CMD8", 426)
    <3> PICK h \in Machines : Within(h, d, f) /\ h.card = m.card /\ c = SdObey(h, "CMD8", 426)
      BY <2>1
    <3>1. c = [h EXCEPT !.val = IF slot.kind # "SD1" THEN "idle" ELSE "illegal"]
      BY <1>1 DEF SdObey, Says
    <3> QED BY <3>1 DEF Within, Machines, Answers
  <2> QED BY <1>2, <2>1
<1>5. CASE c.val \in {"illegal", "none"}
  <2>1. Within([c EXCEPT !.drv.type = "SD1"], OfType(d, "SD1"), f)
        /\ [c EXCEPT !.drv.type = "SD1"].card = c.card
    BY <1>4, TypedDriver
  <2>2. w = [c EXCEPT !.drv.type = "SD1"]
    BY <1>3, <1>5
  <2>3. Within(w, OfType(d, "SD1"), f) /\ w.card = InPhase("idle") /\ w.ok
    BY <1>4, <2>1, <2>2 DEF Within
  <2> QED BY <2>3 DEF w
<1>6. CASE c.val = "idle"
  <2>1. Within([c EXCEPT !.drv.type = "SD2"], OfType(d, "SD2"), f)
        /\ [c EXCEPT !.drv.type = "SD2"].card = c.card
    BY <1>4, TypedDriver
  <2>2. w = [c EXCEPT !.drv.type = "SD2"]
    BY <1>3, <1>6
  <2>3. Within(w, OfType(d, "SD2"), f) /\ w.card = InPhase("idle") /\ w.ok
    BY <1>4, <2>1, <2>2 DEF Within
  <2> QED BY <2>3 DEF w
<1>7. CASE c.val \notin {"illegal", "none", "idle"}
  <2>1. w = Fail(c)
    BY <1>3, <1>7
  <2>2. Dead(Fail(c)) /\ ~ Fail(c).ok /\ Fail(c).blocks = f
    BY <1>4, Stopping
  <2> QED BY <2>1, <2>2 DEF w
<1> QED BY <1>5, <1>6, <1>7

\* A card that counts blocks leaves its idle state only for a driver that can address them.
Waking(m, d, f) ==
  /\ Within(m, d, f)
  /\ \/ m.card = InPhase("idle")
     \/ m.card = InPhase("ready") /\ (slot.kind = "SDHC" => d.type = "SD2")

\* A command to a card that is idle or awake.
LEMMA WakingHeard ==
  ASSUME NEW d, Listening(d), NEW f, NEW m, Waking(m, d, f), CardAssumption, NEW cmd, NEW arg
  PROVE  LET c == cardCommand(m, cmd, arg)
         IN  \/ Waking(c, d, f) /\ c.val \in {"none", "error"}
             \/ \E h \in Machines : Waking(h, d, f) /\ c = SdObey(h, cmd, arg)
<1> DEFINE c == cardCommand(m, cmd, arg)
<1>1. m.card.busy = 0 /\ Within(m, d, f)
  BY NewParts DEF Waking
<1>2. \/ Within(c, d, f) /\ c.card = m.card /\ c.val \in {"none", "error"}
      \/ \E h \in Machines : Within(h, d, f) /\ h.card = m.card /\ c = SdObey(h, cmd, arg)
  BY <1>1, HeardWithin
<1> HIDE DEF c
<1>3. \A h : Within(h, d, f) /\ h.card = m.card => Waking(h, d, f)
  BY DEF Waking
<1> QED BY <1>2, <1>3 DEF c

\* One turn of the second loop of init.
LEMMA WakingTried ==
  ASSUME NEW d, Listening(d), NEW f, NEW m, Waking(m, d, f), CardAssumption
  PROVE  LET c == Try(m, "ACMD41")
         IN  /\ Waking(c, d, f)
             /\ c.val = "ready" => c.card = InPhase("ready") /\ (slot.kind = "SDHC" => d.type = "SD2")
<1> DEFINE a == cardCommand(m, "CMD55", 0)
           c == cardCommand(a, "ACMD41", d.type = "SD2")
<1>1. Try(m, "ACMD41") = c
  BY DEF Try, cardAcmd, Waking, Within
<1>2. \A phase \in {"idle", "ready"} :
        /\ InPhase(phase) \in CardStates /\ InPhase(phase).phase = phase /\ InPhase(phase).busy = 0
  BY NewParts
<1>3. \/ Waking(a, d, f)
      \/ \E h \in Machines : Waking(h, d, f) /\ a = SdObey(h, "CMD55", 0)
  BY WakingHeard
<1> HIDE DEF a
<1>4. Waking(a, d, f)
  <2>1. CASE \E h \in Machines : Waking(h, d, f) /\ a = SdObey(h, "CMD55", 0)
    <3> PICK h \in Machines : Waking(h, d, f) /\ a = SdObey(h, "CMD55", 0)
      BY <2>1
    <3>1. h.card.phase \in {"idle", "ready"}
      BY <1>2 DEF Waking
    <3>2. a = [h EXCEPT !.val = IF h.card.phase = "idle" THEN "idle" ELSE "ready"]
      BY <3>1 DEF SdObey, Says
    <3> QED BY <3>2 DEF Waking, Within, Machines, Answers
  <2> QED BY <1>3, <2>1
<1>5. \/ Waking(c, d, f) /\ c.val \in {"none", "error"}
      \/ \E h \in Machines : Waking(h, d, f) /\ c = SdObey(h, "ACMD41", d.type = "SD2")
  BY <1>4, WakingHeard
<1> HIDE DEF c
<1>6. CASE \E h \in Machines : Waking(h, d, f) /\ c = SdObey(h, "ACMD41", d.type = "SD2")
  <2> PICK h \in Machines : Waking(h, d, f) /\ c = SdObey(h, "ACMD41", d.type = "SD2")
    BY <1>6
  <2>1. h.card.phase \in {"idle", "ready"}
    BY <1>2 DEF Waking
  <2>2. c = IF slot.kind = "SDHC" /\ d.type # "SD2" THEN Says(h, "idle") ELSE Goes(h, "ready", 0)
    BY <2>1 DEF SdObey
  <2>3. CASE slot.kind = "SDHC" /\ d.type # "SD2"
    <3>1. c = [h EXCEPT !.val = "idle"]
      BY <2>2, <2>3 DEF Says
    <3>2. Waking(c, d, f) /\ c.val = "idle"
      BY <3>1 DEF Waking, Within, Machines, Answers
    <3> QED BY <1>1, <3>2
  <2>4. CASE ~ (slot.kind = "SDHC" /\ d.type # "SD2")
    <3> DEFINE k == [h.card EXCEPT !.phase = "ready", !.at = 0, !.pos = 0]
    <3>1. c = [h EXCEPT !.card = k, !.val = "ready"]
      BY <2>2, <2>4 DEF Goes, Says, Machines, CardStates
    <3>2. k = InPhase("ready")
      BY ZenonT(60) DEF Waking, InPhase, NewCard
    <3> HIDE DEF k
    <3>3. c \in Machines /\ c.ok = h.ok /\ c.drv = h.drv /\ c.blocks = h.blocks /\ c.card = InPhase("ready")
      BY <1>2, <3>1, <3>2 DEF Machines, Answers
    <3> QED BY <1>1, <2>4, <3>3 DEF Waking, Within
  <2> QED BY <2>3, <2>4
<1> QED BY <1>1, <1>5, <1>6

\* The second loop ends with a card that is awake; if it counts blocks, the driver has told
\* it that it can.
LEMMA WakingEnds ==
  ASSUME NEW d, Listening(d), NEW f, NEW m, Within(m, d, f), m.card = InPhase("idle"), CardAssumption
  PROVE  LET w == Until(m, "ACMD41", "ready")
         IN  \/ /\ Within(w, d, f) /\ w.ok /\ w.card = InPhase("ready")
                /\ slot.kind = "SDHC" => d.type = "SD2"
             \/ Dead(w) /\ ~ w.ok /\ w.blocks = f
<1> DEFINE S == {x \in Machines : Waking(x, d, f)}
           w == Until(m, "ACMD41", "ready")
           Found(e) == e.val = "ready" => e.card = InPhase("ready") /\ (slot.kind = "SDHC" => d.type = "SD2")
<1>1. m \in S
  BY DEF Waking, Within
<1>2. ASSUME NEW x \in S PROVE Try(x, "ACMD41") \in S /\ Found(Try(x, "ACMD41"))
  <2>1. Waking(Try(x, "ACMD41"), d, f) /\ Found(Try(x, "ACMD41"))
    BY WakingTried
  <2> QED BY <2>1 DEF Waking, Within
<1> HIDE DEF S
<1>3. PICK x \in S : LET e == Try(x, "ACMD41") IN w = IF e.val = "ready" THEN e ELSE Fail(e)
  BY <1>1, <1>2, UntilEnds
<1> DEFINE e == Try(x, "ACMD41")
<1>4. Within(e, d, f) /\ Found(e)
  <2>1. e \in S /\ Found(e)
    BY <1>2
  <2> QED BY <2>1 DEF S, Waking
<1>5. w = IF e.val = "ready" THEN e ELSE Fail(e)
  BY <1>3
<1> HIDE DEF e, w
<1>6. Dead(Fail(e)) /\ ~ Fail(e).ok /\ Fail(e).blocks = f
  BY <1>4, Stopping
<1> QED BY <1>4, <1>5, <1>6 DEF Within, w

\* The driver takes a card to count blocks exactly when it does, or init has failed.
LEMMA readOCREnds ==
  ASSUME NEW d, Listening(d), d.type \in {"SD1", "SD2"}, slot.kind = "SDHC" => d.type = "SD2",
         NEW f, NEW m, Within(m, d, f), m.card = InPhase("ready"), CardAssumption
  PROVE  LET w == readOCR(m)
         IN  \/ \E e : /\ Listening(e) /\ Within(w, e, f) /\ w.ok /\ w.card = InPhase("ready")
                       /\ e.type = "SDHC" <=> slot.kind = "SDHC"
             \/ Dead(w) /\ ~ w.ok /\ w.blocks = f
<1> DEFINE c == cardCommand(m, "CMD58", 0)
           w == readOCR(m)
<1>1. CASE d.type # "SD2"
  BY <1>1 DEF readOCR, Within
<1>2. CASE d.type = "SD2"
  <2>1. InPhase("ready").phase = "ready" /\ InPhase("ready").busy = 0
    BY NewParts
  <2>2. \/ Within(c, d, f) /\ c.card = m.card /\ c.val \in {"none", "error"}
        \/ \E h \in Machines : Within(h, d, f) /\ h.card = m.card /\ c = SdObey(h, "CMD58", 0)
    BY <2>1, HeardWithin
  <2>3. w = IF c.val # "ready" THEN IF Fail(c).ok THEN IF slot.kind = "SDHC" THEN [Fail(c) EXCEPT !.drv.type = "SDHC"] ELSE Fail(c) ELSE Fail(c)
            ELSE IF c.ok THEN IF slot.kind = "SDHC" THEN [c EXCEPT !.drv.type = "SDHC"] ELSE c ELSE c
    BY <1>2 DEF readOCR, Require, Then, Within
  <2> HIDE DEF c, w
  <2>4. Within(c, d, f) /\ c.card = InPhase("ready")
    <3>1. CASE \E h \in Machines : Within(h, d, f) /\ h.card = m.card /\ c = SdObey(h, "CMD58", 0)
      <4> PICK h \in Machines : Within(h, d, f) /\ h.card = m.card /\ c = SdObey(h, "CMD58", 0)
        BY <3>1
      <4>1. c = [h EXCEPT !.val = "ready"]
        BY <2>1 DEF SdObey, Says
      <4> QED BY <4>1 DEF Within, Machines, Answers
    <3> QED BY <2>2, <3>1
  <2>5. CASE c.val # "ready"
    <3>1. Dead(Fail(c)) /\ ~ Fail(c).ok /\ Fail(c).blocks = f
      BY <2>4, Stopping
    <3> QED BY <2>3, <2>5, <3>1 DEF w
  <2>6. CASE c.val = "ready" /\ slot.kind # "SDHC"
    <3>1. w = c
      BY <2>3, <2>4, <2>6 DEF Within
    <3> QED BY <1>2, <2>4, <2>6, <3>1 DEF Within, w
  <2>7. CASE c.val = "ready" /\ slot.kind = "SDHC"
    <3>1. w = [c EXCEPT !.drv.type = "SDHC"]
      BY <2>3, <2>4, <2>7 DEF Within
    <3>2. /\ Listening(OfType(d, "SDHC")) /\ OfType(d, "SDHC").type = "SDHC"
          /\ Within([c EXCEPT !.drv.type = "SDHC"], OfType(d, "SDHC"), f)
          /\ [c EXCEPT !.drv.type = "SDHC"].card = c.card
      BY <2>4, TypedDriver
    <3>3. Within(w, OfType(d, "SDHC"), f) /\ w.card = InPhase("ready") /\ w.ok
      BY <2>4, <3>1, <3>2 DEF Within
    <3> QED BY <2>7, <3>2, <3>3 DEF w
  <2> QED BY <2>5, <2>6, <2>7
<1> QED BY <1>1, <1>2

\* The driver at a rate of its clock.
AtRate(d, rate) == [d EXCEPT !.divider = 2 * 2 ^ rate]

\* setSckRate sets the divider.
LEMMA setSckRateEnds ==
  ASSUME NEW m, Steady(m), m.drv.cs = "high", NEW rate \in Nat
  PROVE  LET w == setSckRate(m, rate) IN Rest(w) /\ ~ w.drv.inBlock /\ w.blocks = m.blocks
<1> DEFINE w == setSckRate(m, rate)
<1>1. m \in Machines /\ m.drv \in Drivers /\ ~ m.drv.inBlock /\ m.ok
  BY DEF Steady, Closed, Machines
<1>2. CASE rate > 6
  <2>1. w = [m EXCEPT !.ok = FALSE]
    BY <1>2 DEF setSckRate
  <2>2. w \in Machines /\ w.drv = m.drv /\ w.card = m.card /\ w.blocks = m.blocks
    BY <1>1, <2>1 DEF Machines
  <2> QED BY <1>1, <2>2 DEF Rest, Steady, Synced
<1>3. CASE ~ rate > 6
  <2>1. rate \in 0 .. 6
    BY <1>3
  <2>2. 2 * 2 ^ rate \in Dividers
    BY <2>1 DEF Dividers
  <2>3. /\ AtRate(m.drv, rate) \in Drivers /\ AtRate(m.drv, rate).type = m.drv.type
        /\ AtRate(m.drv, rate).inBlock = m.drv.inBlock /\ AtRate(m.drv, rate).cs = "high"
    BY <1>1, <2>2 DEF AtRate, Drivers
  <2>4. w = [m EXCEPT !.drv = AtRate(m.drv, rate)]
    BY <1>1, <1>3 DEF setSckRate, AtRate, Machines, Drivers
  <2> HIDE DEF w
  <2>5. w \in Machines /\ w.drv = AtRate(m.drv, rate) /\ w.card = m.card /\ w.blocks = m.blocks
    BY <1>1, <2>3, <2>4 DEF Machines
  <2> QED BY <1>1, <2>3, <2>5 DEF Rest, Steady, Known, Synced, w
<1> QED BY <1>2, <1>3

\* init stores nothing; when it succeeds, the card is known.
LEMMA initEnds ==
  ASSUME NEW m \in Machines, m.ok, NEW rate \in Nat, CardAssumption
  PROVE  LET w == init(m, rate)
         IN  /\ w.blocks = m.blocks
             /\ (Rest(w) /\ ~ w.drv.inBlock) \/ Dead(w)
<1> DEFINE r == [m EXCEPT !.drv = Awake]
           i == Until(r, "CMD0", "idle")
           v == checkVersion(i)
           a == Until(v, "ACMD41", "ready")
           o == readOCR(a)
           y == ChipSelectHigh(o)
           z == setSckRate(y, rate)
           w == init(m, rate)
           f == m.blocks
<1>1. w = IF ~ i.ok THEN i ELSE IF ~ v.ok THEN v ELSE IF ~ a.ok THEN a ELSE IF ~ o.ok THEN o ELSE z
  BY DEF init, Then, Awake
<1>2. Listening(Awake)
  BY NewParts DEF Listening
<1>3. Within(r, Awake, f)
  BY <1>2 DEF Within, Listening, Machines
<1> HIDE DEF r, f, w
<1>4. \/ Within(i, Awake, f) /\ i.ok /\ i.card = InPhase("idle")
      \/ Dead(i) /\ ~ i.ok /\ i.blocks = f
  BY <1>2, <1>3, ResetEnds
<1> HIDE DEF i
<1>5. CASE ~ i.ok
  BY <1>1, <1>4, <1>5 DEF w, f
<1>6. CASE i.ok
  <2>1. Within(i, Awake, f) /\ i.card = InPhase("idle")
    BY <1>4, <1>6
  <2>2. \/ \E type \in {"SD1", "SD2"} :
              Within(v, OfType(Awake, type), f) /\ v.ok /\ v.card = InPhase("idle")
        \/ Dead(v) /\ ~ v.ok /\ v.blocks = f
    BY <1>2, <2>1, checkVersionEnds
  <2>3. ASSUME NEW type \in {"SD1", "SD2"}
        PROVE  Listening(OfType(Awake, type)) /\ OfType(Awake, type).type = type
    BY <1>2, <2>1, TypedDriver
  <2> HIDE DEF v
  <2>4. CASE ~ v.ok
    BY <1>1, <1>6, <2>2, <2>4 DEF w, f
  <2>5. CASE v.ok
    <3>1. PICK type \in {"SD1", "SD2"} :
            Within(v, OfType(Awake, type), f) /\ v.card = InPhase("idle")
      BY <2>2, <2>5
    <3> DEFINE d == OfType(Awake, type)
    <3>2. Listening(d) /\ d.type = type
      BY <2>3
    <3> HIDE DEF d
    <3>3. \/ /\ Within(a, d, f) /\ a.ok /\ a.card = InPhase("ready")
             /\ slot.kind = "SDHC" => d.type = "SD2"
          \/ Dead(a) /\ ~ a.ok /\ a.blocks = f
      <4>1. Within(v, d, f) /\ v.card = InPhase("idle")
        BY <3>1 DEF d
      <4> QED BY <3>2, <4>1, WakingEnds
    <3> HIDE DEF a
    <3>4. CASE ~ a.ok
      BY <1>1, <1>6, <2>5, <3>3, <3>4 DEF w, f
    <3>5. CASE a.ok
      <4>1. /\ Within(a, d, f) /\ a.card = InPhase("ready") /\ d.type \in {"SD1", "SD2"}
            /\ slot.kind = "SDHC" => d.type = "SD2"
        BY <3>2, <3>3, <3>5
      <4>2. \/ \E e : /\ Listening(e) /\ Within(o, e, f) /\ o.ok /\ o.card = InPhase("ready")
                      /\ e.type = "SDHC" <=> slot.kind = "SDHC"
            \/ Dead(o) /\ ~ o.ok /\ o.blocks = f
        BY <3>2, <4>1, readOCREnds
      <4> HIDE DEF o
      <4>3. CASE ~ o.ok
        BY <1>1, <1>6, <2>5, <3>5, <4>2, <4>3 DEF w, f
      <4>4. CASE o.ok
        <5>1. PICK e : /\ Listening(e) /\ Within(o, e, f) /\ o.card = InPhase("ready")
                       /\ e.type = "SDHC" <=> slot.kind = "SDHC"
          BY <4>2, <4>4
        <5>2. o.card.phase = "ready" /\ o.card.busy = 0
          BY <5>1, NewParts
        <5>3. Steady(o)
          BY <5>1, <5>2 DEF Within, Listening, Steady, Closed, Known
        <5>4. Steady(y) /\ y.drv.cs = "high" /\ y.blocks = f
          BY <5>1, <5>3, Deselecting DEF Within, Alike
        <5> HIDE DEF y
        <5>5. Rest(z) /\ ~ z.drv.inBlock /\ z.blocks = f
          BY <5>4, setSckRateEnds
        <5>6. w = z
          BY <1>1, <1>6, <2>5, <3>5, <4>4
        <5> QED BY <5>5, <5>6 DEF w, f
      <4> QED BY <4>3, <4>4
    <3> QED BY <3>4, <3>5
  <2> QED BY <2>4, <2>5
<1> QED BY <1>5, <1>6

\* Of a larger card of the second version the driver does not tell the size.
SmallCards ==
  \A k \in SdCards : k.c_size \in Nat /\ (k.kind = "SDHC" => k.c_size % 65536 < 32768)

\* cardSize tells the number of blocks, or fails.
LEMMA cardSizeEnds ==
  ASSUME NEW m, Start(m), CardAssumption, SmallCards, slot \in SdCards
  PROVE  LET w == cardSize(m)
         IN  /\ Rest(w) /\ w.blocks = m.blocks
             /\ w.ok => w.got = <<<<"size", slot.c_size + 1>>>>
<1> DEFINE s == readEnd(m)
           r == readRegister(s)
           g == <<<<"size", slot.c_size + 1>>>>
           w == cardSize(m)
<1>1. Steady(s) /\ Alike(m, s) /\ readRegister(m) = r
  BY Starting DEF readRegister
<1>2. slot.c_size \in Nat /\ (slot.kind = "SDHC" => slot.c_size % 65536 < 32768)
  BY DEF SmallCards
<1>3. ~ (slot.kind = "SDHC" /\ slot.c_size % 65536 >= 32768)
  BY <1>2
<1>4. w = IF r.ok THEN [r EXCEPT !.got = g] ELSE r
  BY <1>1, <1>3 DEF cardSize, Then
<1>5. \/ Steady(r) /\ r.ok /\ Alike(s, r) /\ r.drv.cs = "high"
      \/ Gone(r) /\ ~ r.ok /\ r.blocks = s.blocks
  BY <1>1, readRegisterEnds
<1>6. g \in SdPieces
  <2>1. <<"size", slot.c_size + 1>> \in (SdContents \cup {"high", "size"}) \X Int
    BY <1>2
  <2> QED BY <2>1 DEF SdPieces
<1>7. s.blocks = m.blocks
  BY <1>1 DEF Alike
<1> HIDE DEF s, r, g, w
<1>8. CASE ~ r.ok
  BY <1>4, <1>5, <1>7, <1>8, Resting DEF w
<1>9. CASE r.ok
  <2>1. Steady(r) /\ r.drv.cs = "high" /\ r.blocks = m.blocks
    BY <1>5, <1>7, <1>9 DEF Alike
  <2>2. Rest(r) /\ r \in Machines
    BY <2>1, Resting DEF Steady, Closed
  <2>3. w \in Machines /\ w.drv = r.drv /\ w.card = r.card /\ w.blocks = r.blocks /\ w.got = g
    BY <1>4, <1>6, <1>9, <2>2 DEF Machines
  <2> QED BY <2>1, <2>2, <2>3 DEF Rest, w, g
<1> QED BY <1>8, <1>9

\* partialBlockRead may close the open block.
LEMMA partialBlockReadEnds ==
  ASSUME NEW m, Start(m), CardAssumption, NEW value \in BOOLEAN
  PROVE  LET w == partialBlockRead(m, value) IN Rest(w) /\ w.blocks = m.blocks
<1> DEFINE r == readEnd(m)
           d == [r.drv EXCEPT !.partial = value]
           w == partialBlockRead(m, value)
<1>1. Steady(r) /\ r.drv.cs = "high" /\ Alike(m, r)
  BY Starting
<1>2. Rest(r) /\ r \in Machines /\ r.drv \in Drivers /\ r.blocks = m.blocks /\ ~ r.drv.inBlock
  BY <1>1, Resting DEF Steady, Closed, Machines, Alike
<1> HIDE DEF r
<1>3. d \in Drivers /\ d.type = r.drv.type /\ d.cs = r.drv.cs /\ ~ d.inBlock
  BY <1>2 DEF Drivers
<1>4. w = [r EXCEPT !.drv = d]
  BY <1>2 DEF partialBlockRead, Machines, Drivers, r
<1> HIDE DEF d, w
<1>5. w \in Machines /\ w.drv = d /\ w.card = r.card /\ w.blocks = r.blocks
  BY <1>2, <1>3, <1>4 DEF Machines
<1> QED BY <1>1, <1>2, <1>3, <1>5 DEF Rest, Known, Synced, w

-----------------------------------------------------------------------------
(* The steps. *)

\* Every fault that a call may meet has these parts.
LEMMA FaultParts ==
  ASSUME CardAssumption, NEW fault \in InitFaults \cup ReadFaults \cup WriteFaults
  PROVE  /\ fault.io \in Int /\ fault.wrong \in {"none", "error"} /\ fault.lasting \in BOOLEAN
         /\ fault.programmed \in BOOLEAN /\ fault.duration \in Durations \cup {0}
<1>1. CASE fault = NoFault
  BY <1>1 DEF NoFault
<1>2. CASE fault \in Losses
  <2>1. /\ fault.io \in 0 .. MaxExchanges /\ fault.wrong = "none" /\ fault.lasting = FALSE
        /\ fault.programmed = TRUE /\ fault.duration = 0
    BY <1>2 DEF Losses
  <2>2. fault.io \in Int
    BY <2>1, CardAssumption
  <2>3. fault.lasting \in BOOLEAN /\ fault.programmed \in BOOLEAN /\ fault.wrong \in {"none", "error"}
    BY <2>1, Zenon
  <2>4. fault.duration \in Durations \cup {0}
    BY <2>1, Zenon
  <2> QED BY <2>2, <2>3, <2>4, Zenon
<1>3. CASE fault \in InitFaults /\ fault # NoFault
  <2>1. /\ fault.io \in 0 .. MaxExchanges /\ fault.wrong \in {"none", "error"}
        /\ fault.lasting \in BOOLEAN /\ fault.programmed = TRUE /\ fault.duration = 0
    BY <1>3 DEF InitFaults
  <2>2. fault.io \in Int
    BY <2>1, CardAssumption
  <2>3. fault.programmed \in BOOLEAN /\ fault.duration \in Durations \cup {0}
    BY <2>1, Zenon
  <2> QED BY <2>1, <2>2, <2>3, Zenon
<1>4. CASE fault \in WriteFaults /\ fault \notin Losses
  <2>1. /\ fault.io = -1 /\ fault.wrong = "none" /\ fault.lasting = FALSE
        /\ fault.programmed \in BOOLEAN /\ fault.duration \in Durations \cup {0}
    BY <1>4 DEF WriteFaults
  <2>2. fault.io \in Int
    BY <2>1
  <2>3. fault.lasting \in BOOLEAN /\ fault.wrong \in {"none", "error"}
    BY <2>1, Zenon
  <2> QED BY <2>1, <2>2, <2>3, Zenon
<1> QED BY <1>1, <1>2, <1>3, <1>4 DEF ReadFaults

\* What a call starts from.
LEMMA MachineTyped ==
  ASSUME CardAssumption, SdTypes, NEW fault \in InitFaults \cup ReadFaults \cup WriteFaults
  PROVE  LET m == Machine(fault)
         IN  /\ m \in Machines /\ m.ok /\ m.blocks = blocks /\ m.drv = drv /\ m.card = sd_card
             /\ m.got = <<>>
<1>1. /\ fault.io \in Int /\ fault.wrong \in {"none", "error"} /\ fault.lasting \in BOOLEAN
      /\ fault.programmed \in BOOLEAN /\ fault.duration \in Durations \cup {0}
  BY FaultParts
<1>2. <<>> \in SdPieces /\ "none" \in Answers
  BY DEF SdPieces, Answers
<1> QED BY <1>1, <1>2 DEF Machine, Machines, SdTypes

\* A call outside of a sequence starts from what holds between two calls.
LEMMA MachineStarts ==
  ASSUME CardAssumption, SdInv, Calling, NEW fault \in ReadFaults \cup WriteFaults
  PROVE  LET m == Machine(fault)
         IN  Start(m) /\ m.blocks = blocks /\ m.got = <<>> /\ m.drv = drv
<1> DEFINE m == Machine(fault)
<1>1. /\ m \in Machines /\ m.ok /\ m.blocks = blocks /\ m.drv = drv /\ m.card = sd_card
      /\ m.got = <<>>
  BY MachineTyped DEF SdInv
<1> HIDE DEF m
<1>2. ready /\ streaming = -1
  BY DEF Calling
<1>3. Rest(m)
  BY <1>1, <1>2 DEF SdInv, Rest
<1> QED BY <1>1, <1>3 DEF Start, m

\* A call within a sequence starts from what holds there.
LEMMA MachineStreams ==
  ASSUME CardAssumption, SdInv, streaming # -1, NEW fault \in WriteFaults
  PROVE  LET m == Machine(fault)
         IN  /\ Streaming(m, streaming) /\ m.blocks = blocks /\ m.got = <<>>
             /\ ready /\ streaming \in Asked
<1> DEFINE m == Machine(fault)
<1>1. /\ m \in Machines /\ m.ok /\ m.blocks = blocks /\ m.drv = drv /\ m.card = sd_card
      /\ m.got = <<>>
  BY MachineTyped DEF SdInv
<1> HIDE DEF m
<1>2. ready /\ ~ drv.inBlock
  BY DEF SdInv
<1>3. streaming \in Asked
  BY CardAssumption DEF SdInv, SdTypes, Asked
<1>4. Streaming(m, streaming)
  BY <1>1, <1>2 DEF SdInv, Streaming, Closed
<1> QED BY <1>1, <1>2, <1>3, <1>4 DEF m

\* The answer of a call.
Answered(name, at, arg, m) == call' = Device!Call(name, at, arg, m.ok, IF m.ok THEN m.got ELSE <<>>)
Left(m) == blocks' = m.blocks /\ drv' = m.drv /\ sd_card' = m.card /\ slot' = slot

\* What a call leaves.
LEMMA LeaveParts ==
  ASSUME NEW fault, NEW name, NEW at, NEW arg, NEW m, Leave(fault, name, at, arg, m)
  PROVE  Left(m) /\ Answered(name, at, arg, m) /\ call'.op = name /\ call'.ok = m.ok
         /\ (m.ok => call'.got = m.got)
BY DEF Leave, Left, Answered, Device!Call

\* Outside of a sequence of blocks.
LEMMA RestKeeps ==
  ASSUME SdInv, CardAssumption, NEW m, Left(m), ready' \in BOOLEAN, streaming' = -1,
         \/ Rest(m) /\ (m.drv.inBlock => ready')
         \/ Dead(m) /\ ~ ready',
         call'.op = "size" /\ call'.ok => call'.got = <<<<"size", slot.c_size + 1>>>>
  PROVE  SdInv'
<1>1. m \in Machines /\ m.blocks \in [Blocks -> SdContents] /\ m.drv \in Drivers /\ m.card \in CardStates
  BY DEF Rest, Dead, Machines
<1>2. SdTypes'
  BY <1>1, CardAssumption DEF SdInv, SdTypes, Left
<1>3. drv'.cs = "low" => drv'.inBlock
  BY DEF Left, Rest, Dead
<1>4. ready' => Known(m.drv, m.card) /\ (m.card.phase = "multi" => m.card.busy <= 3 * CommandWait)
  BY DEF Rest
<1>5. Known(drv, sd_card)' <=> Known(m.drv, m.card)
  BY DEF Left, Known
<1>6. Synced(drv, sd_card)'
  BY DEF Left, Rest, Dead, Synced
<1>7. drv'.inBlock => ready'
  BY DEF Left, Dead
<1>8. ready' /\ sd_card'.phase = "multi" => sd_card'.busy <= 3 * CommandWait
  BY <1>4 DEF Left
<1>9. slot' = slot
  BY DEF Left
<1> QED BY <1>2, <1>3, <1>4, <1>5, <1>6, <1>7, <1>8, <1>9 DEF SdInv, CommandWait

\* Within one, whose next block is b.
LEMMA StreamKeeps ==
  ASSUME SdInv, CardAssumption, NEW m, Left(m), ready', NEW b \in Asked, streaming' = b,
         Streaming(m, b), call'.op # "size"
  PROVE  SdInv'
<1>1. /\ m \in Machines /\ m.blocks \in [Blocks -> SdContents] /\ m.drv \in Drivers
      /\ m.card \in CardStates /\ ~ m.drv.inBlock
  BY DEF Streaming, Closed, Machines
<1>2. b \in -1 .. LastBlock + 1 /\ b # -1
  BY CardAssumption DEF Asked
<1>3. SdTypes'
  <2>1. ready' \in BOOLEAN
    BY DEF SdInv, SdTypes
  <2> QED BY <1>1, <1>2, <2>1 DEF SdInv, SdTypes, Left
<1>4. Known(drv, sd_card)'
  BY DEF Left, Streaming, Known
<1>5. Synced(drv, sd_card)' /\ ~ drv'.inBlock
  BY <1>1 DEF Left, Synced
<1> QED BY <1>2, <1>3, <1>4, <1>5 DEF SdInv, Left, Streaming, CommandWait, WriteWait

\* A step of BlockDevice, or none.
DeviceStep == Device!Next \/ UNCHANGED <<blocks, call>>

\* A call that neither reads nor stores is a step of BlockDevice when the blocks stay.
LEMMA OtherStep ==
  ASSUME call'.op \in {"init", "size", "partial", "start", "stop"}, blocks' = blocks
  PROVE  DeviceStep
BY DEF DeviceStep, Device!Next, Device!Other

\* A call of init.
LEMMA InitializeStep ==
  ASSUME SdInv, CardAssumption, NEW fault \in InitFaults, NEW rate \in Rates, Initialize(fault, rate)
  PROVE  SdInv' /\ DeviceStep
<1> DEFINE m == Machine(fault)
           w == init(m, rate)
<1>1. m \in Machines /\ m.ok /\ m.blocks = blocks
  BY MachineTyped DEF SdInv
<1>2. rate \in Nat
  BY CardAssumption
<1>3. Leave(fault, "init", 0, 0, w) /\ ready' = w.ok /\ streaming' = -1
  BY DEF Initialize
<1> HIDE DEF m
<1>4. w.blocks = m.blocks /\ ((Rest(w) /\ ~ w.drv.inBlock) \/ Dead(w))
  BY <1>1, <1>2, initEnds
<1> HIDE DEF w
<1>5. Left(w) /\ call'.op = "init"
  BY <1>3, LeaveParts
<1>6. ready' \in BOOLEAN /\ (Dead(w) => ~ ready')
  BY <1>3, <1>4 DEF Rest, Dead, Machines
<1>7. blocks' = blocks
  BY <1>1, <1>4, <1>5 DEF Left
<1>8. SdInv'
  BY <1>3, <1>4, <1>5, <1>6, RestKeeps
<1> QED BY <1>5, <1>7, <1>8, OtherStep

\* A call of cardSize.
LEMMA CardSizeStep ==
  ASSUME SdInv, CardAssumption, SmallCards, NEW fault \in ReadFaults, CardSize(fault)
  PROVE  SdInv' /\ DeviceStep
<1> DEFINE m == Machine(fault)
           w == cardSize(m)
<1>1. Calling /\ Leave(fault, "size", 0, 0, w) /\ ready' = ready /\ streaming' = streaming
  BY DEF CardSize
<1>2. Start(m) /\ m.blocks = blocks /\ slot \in SdCards
  BY <1>1, MachineStarts DEF SdInv, SdTypes
<1> HIDE DEF m
<1>3. Rest(w) /\ w.blocks = m.blocks /\ (w.ok => w.got = <<<<"size", slot.c_size + 1>>>>)
  BY <1>2, cardSizeEnds
<1> HIDE DEF w
<1>4. Left(w) /\ call'.op = "size" /\ call'.ok = w.ok /\ (w.ok => call'.got = w.got)
  BY <1>1, LeaveParts
<1>5. ready' /\ ready' \in BOOLEAN /\ streaming' = -1
  BY <1>1 DEF Calling, SdInv, SdTypes
<1>6. blocks' = blocks
  BY <1>2, <1>3, <1>4 DEF Left
<1>7. SdInv'
  BY <1>3, <1>4, <1>5, RestKeeps
<1> QED BY <1>4, <1>6, <1>7, OtherStep

\* A call of partialBlockRead.
LEMMA PartialBlockReadStep ==
  ASSUME SdInv, CardAssumption, NEW value \in BOOLEAN, PartialBlockRead(value)
  PROVE  SdInv' /\ DeviceStep
<1> DEFINE m == Machine(NoFault)
           w == partialBlockRead(m, value)
<1>1. Calling /\ Leave(NoFault, "partial", 0, 0, w) /\ ready' = ready /\ streaming' = streaming
  BY DEF PartialBlockRead
<1>2. Start(m) /\ m.blocks = blocks
  BY <1>1, MachineStarts DEF ReadFaults
<1> HIDE DEF m
<1>3. Rest(w) /\ w.blocks = m.blocks
  BY <1>2, partialBlockReadEnds
<1> HIDE DEF w
<1>4. Left(w) /\ call'.op = "partial"
  BY <1>1, LeaveParts
<1>5. ready' /\ ready' \in BOOLEAN /\ streaming' = -1
  BY <1>1 DEF Calling, SdInv, SdTypes
<1>6. blocks' = blocks
  BY <1>2, <1>3, <1>4 DEF Left
<1>7. SdInv'
  BY <1>3, <1>4, <1>5, RestKeeps
<1> QED BY <1>4, <1>6, <1>7, OtherStep

\* A call of readData.
LEMMA ReadDataStep ==
  ASSUME SdInv, CardAssumption, Careless = FALSE, NEW fault \in ReadFaults, NEW b \in Asked,
         NEW offset \in 0 .. Size - 1, NEW count \in 0 .. Size, ReadData(fault, b, offset, count)
  PROVE  SdInv' /\ DeviceStep
<1> DEFINE m == Machine(fault)
           w == readData(m, b, offset, count)
<1>1. /\ Calling /\ (count + offset > Size => ~ drv.inBlock) /\ Leave(fault, "read", b, offset, w)
      /\ ready' = ready /\ streaming' = streaming
  BY DEF ReadData, Refusable
<1>2. Start(m) /\ m.blocks = blocks /\ m.got = <<>> /\ m.drv = drv
  BY <1>1, MachineStarts
<1> HIDE DEF m
<1>3. /\ Rest(w) /\ w.blocks = m.blocks /\ (count = 0 => w = m)
      /\ w.ok /\ count > 0 => /\ b \in Blocks /\ offset + count <= Size
                             /\ w.got = PartOf(m.blocks[b], offset, count)
  BY <1>1, <1>2, readDataEnds
<1> HIDE DEF w
<1>4. Left(w) /\ call'.op = "read" /\ Answered("read", b, offset, w)
  BY <1>1, LeaveParts
<1>5. ready' /\ ready' \in BOOLEAN /\ streaming' = -1
  BY <1>1 DEF Calling, SdInv, SdTypes
<1>6. blocks' = blocks /\ w.ok \in BOOLEAN
  BY <1>2, <1>3, <1>4 DEF Left, Rest, Machines
<1>7. SdInv'
  BY <1>3, <1>4, <1>5, RestKeeps
<1>8. offset \in 0 .. Size
  BY CardAssumption
<1>9. CASE ~ w.ok
  <2>1. Device!ReadNothing(b, offset, FALSE)
    BY <1>4, <1>6, <1>9 DEF Answered, Device!ReadNothing
  <2> QED BY <1>7, <1>8, <2>1 DEF DeviceStep, Device!Next
<1>10. CASE w.ok /\ count = 0
  <2>1. Device!ReadNothing(b, offset, TRUE)
    BY <1>2, <1>3, <1>4, <1>6, <1>10 DEF Answered, Device!ReadNothing
  <2> QED BY <1>7, <1>8, <2>1 DEF DeviceStep, Device!Next
<1>11. CASE w.ok /\ count # 0
  <2>1. count \in 1 .. Size /\ count > 0
    BY <1>11, CardAssumption
  <2>2. b \in Blocks /\ w.got = PartOf(blocks[b], offset, count)
    BY <1>2, <1>3, <1>11, <2>1
  <2>3. Device!ReadDone(b, offset, count)
    BY <1>4, <1>6, <1>11, <2>2 DEF Answered, Device!ReadDone, Device!Part, PartOf
  <2> QED BY <1>7, <1>8, <2>1, <2>2, <2>3 DEF DeviceStep, Device!Next
<1> QED BY <1>9, <1>10, <1>11

\* Storing one block is what BlockDevice says a write may do.
LEMMA PutBecomes ==
  ASSUME SdInv, NEW b \in Blocks, NEW d, blocks' = Put(blocks, b, d)
  PROVE  Device!Become(b, b, d)
<1>1. blocks \in [Blocks -> SdContents]
  BY DEF SdInv, SdTypes
<1>2. \A x \in Blocks : x \in b .. b <=> x = b
  BY DEF Blocks
<1>3. Put(blocks, b, d) = [x \in Blocks |-> IF x = b THEN d ELSE blocks[x]]
  BY <1>1 DEF Put
<1> QED BY <1>2, <1>3 DEF Device!Become

\* A call of writeBlock.
LEMMA WriteBlockStep ==
  ASSUME SdInv, CardAssumption, Careless = FALSE, NEW fault \in WriteFaults, NEW b \in Asked,
         NEW d \in Data, WriteBlock(fault, b, d)
  PROVE  SdInv' /\ DeviceStep
<1> DEFINE m == Machine(fault)
           w == writeBlock(m, b, d)
<1>1. /\ Calling /\ (b = 0 => ~ drv.inBlock) /\ Leave(fault, "write", b, d, w)
      /\ ready' = ready /\ streaming' = streaming
  BY DEF WriteBlock, Refusable
<1>2. Start(m) /\ m.blocks = blocks /\ m.got = <<>> /\ m.drv = drv
  BY <1>1, MachineStarts
<1> HIDE DEF m
<1>3. /\ Rest(w)
      /\ \/ w.ok /\ b \in Blocks /\ w.blocks = Put(m.blocks, b, d) /\ w.got = m.got
         \/ /\ ~ w.ok
            /\ \/ w.blocks = m.blocks
               \/ b \in Blocks /\ w.blocks = Put(m.blocks, b, d)
               \/ b \in Blocks /\ w.blocks = Put(m.blocks, b, "torn")
  BY <1>1, <1>2, writeBlockEnds
<1> HIDE DEF w
<1>4. Left(w) /\ call'.op = "write" /\ Answered("write", b, d, w)
  BY <1>1, LeaveParts
<1>5. ready' /\ ready' \in BOOLEAN /\ streaming' = -1
  BY <1>1 DEF Calling, SdInv, SdTypes
<1>6. blocks' = w.blocks /\ w.ok \in BOOLEAN
  BY <1>3, <1>4 DEF Left, Rest, Machines
<1>7. SdInv'
  BY <1>3, <1>4, <1>5, RestKeeps
<1>8. CASE w.ok
  <2>1. b \in Blocks /\ blocks' = Put(blocks, b, d) /\ w.got = <<>> /\ w.ok = TRUE
    BY <1>2, <1>3, <1>6, <1>8
  <2>2. Device!WriteDone(b, d)
    BY <1>4, <2>1, PutBecomes DEF Answered, Device!WriteDone
  <2> QED BY <1>7, <2>1, <2>2 DEF DeviceStep, Device!Next
<1>9. CASE ~ w.ok
  <2>1. \/ blocks' = blocks
        \/ b \in Blocks /\ blocks' = Put(blocks, b, d)
        \/ b \in Blocks /\ blocks' = Put(blocks, b, "torn")
    BY <1>2, <1>3, <1>6, <1>9
  <2>2. blocks' = blocks \/ Device!Become(b, b, d) \/ Device!Become(b, b, "torn")
    BY <2>1, PutBecomes
  <2>3. Device!Failed("write", b, b, d, d)
    BY <1>4, <1>6, <1>9, <2>2 DEF Answered, Device!Failed
  <2> QED BY <1>7, <2>3 DEF DeviceStep, Device!Next
<1> QED BY <1>8, <1>9

\* A call of erase.
LEMMA EraseStep ==
  ASSUME SdInv, CardAssumption, NEW fault \in WriteFaults, NEW first \in Asked, NEW last \in Asked,
         Erase(fault, first, last)
  PROVE  SdInv' /\ DeviceStep
<1> DEFINE m == Machine(fault)
           w == erase(m, first, last)
<1>1. /\ Calling /\ Leave(fault, "erase", first, last, w) /\ ready' = ready
      /\ streaming' = streaming
  BY DEF Erase
<1>2. Start(m) /\ m.blocks = blocks /\ m.got = <<>>
  BY <1>1, MachineStarts
<1> HIDE DEF m
<1>3. /\ Rest(w)
      /\ \/ /\ w.ok /\ first \in Blocks /\ last \in Blocks /\ w.got = m.got
            /\ w.blocks = Wiped(m.blocks, first, last)
         \/ ~ w.ok /\ w.blocks = m.blocks
         \/ ~ w.ok /\ w.blocks = Wiped(m.blocks, first, last)
  BY <1>2, eraseEnds
<1> HIDE DEF w
<1>4. Left(w) /\ call'.op = "erase" /\ Answered("erase", first, last, w)
  BY <1>1, LeaveParts
<1>5. ready' /\ ready' \in BOOLEAN /\ streaming' = -1
  BY <1>1 DEF Calling, SdInv, SdTypes
<1>6. blocks' = w.blocks /\ w.ok \in BOOLEAN
  BY <1>3, <1>4 DEF Left, Rest, Machines
<1>7. SdInv'
  BY <1>3, <1>4, <1>5, RestKeeps
<1>8. blocks' = Wiped(blocks, first, last) => Device!Become(first, last, "erased")
  BY DEF Wiped, Device!Become
<1>9. CASE w.ok
  <2>1. Device!EraseDone(first, last) /\ first \in Blocks /\ last \in Blocks
    BY <1>2, <1>3, <1>4, <1>6, <1>8, <1>9 DEF Answered, Device!EraseDone
  <2> QED BY <1>7, <2>1 DEF DeviceStep, Device!Next
<1>10. CASE ~ w.ok
  <2>1. blocks' = blocks \/ Device!Become(first, last, "erased")
    BY <1>2, <1>3, <1>6, <1>8, <1>10
  <2>2. Device!Failed("erase", first, last, last, "erased")
    BY <1>4, <1>6, <1>10, <2>1 DEF Answered, Device!Failed
  <2> QED BY <1>7, <2>2 DEF DeviceStep, Device!Next
<1> QED BY <1>9, <1>10

\* A call of writeStart.
LEMMA WriteStartStep ==
  ASSUME SdInv, CardAssumption, Careless = FALSE, NEW fault \in WriteFaults, NEW b \in Asked,
         WriteStart(fault, b)
  PROVE  SdInv' /\ DeviceStep
<1> DEFINE m == Machine(fault)
           w == writeStart(m, b)
<1>1. /\ Calling /\ (b = 0 => ~ drv.inBlock) /\ Leave(fault, "start", b, 0, w)
      /\ ready' = ready /\ streaming' = IF w.ok THEN b ELSE -1
  BY DEF WriteStart, Refusable
<1>2. Start(m) /\ m.blocks = blocks /\ m.drv = drv
  BY <1>1, MachineStarts
<1> HIDE DEF m
<1>3. w.blocks = m.blocks /\ ((w.ok /\ Streaming(w, b)) \/ (~ w.ok /\ Rest(w)))
  BY <1>1, <1>2, writeStartEnds
<1> HIDE DEF w
<1>4. Left(w) /\ call'.op = "start"
  BY <1>1, LeaveParts
<1>5. ready' /\ ready' \in BOOLEAN
  BY <1>1 DEF Calling, SdInv, SdTypes
<1>6. blocks' = blocks
  BY <1>2, <1>3, <1>4 DEF Left
<1>7. SdInv'
  <2>1. CASE w.ok /\ Streaming(w, b)
    BY <1>1, <1>4, <1>5, <2>1, StreamKeeps
  <2>2. CASE ~ w.ok /\ Rest(w)
    BY <1>1, <1>4, <1>5, <2>2, RestKeeps
  <2> QED BY <1>3, <2>1, <2>2
<1> QED BY <1>4, <1>6, <1>7, OtherStep

\* A call of writeData.
LEMMA WriteDataStep ==
  ASSUME SdInv, CardAssumption, Prompt, NEW fault \in WriteFaults, NEW d \in Data, WriteData(fault, d)
  PROVE  SdInv' /\ DeviceStep
<1> DEFINE m == Machine(fault)
           w == writeData(m, d)
           b == streaming
<1>1. /\ b \in Blocks /\ b # -1 /\ Leave(fault, "stream", b, d, w)
      /\ ready' = ready /\ streaming' = IF w.ok THEN b + 1 ELSE -1
  BY DEF WriteData, Blocks
<1>2. Streaming(m, b) /\ m.blocks = blocks /\ m.got = <<>> /\ ready /\ b \in Asked
  BY <1>1, MachineStreams
<1> HIDE DEF m
<1>3. \/ /\ w.ok /\ Streaming(w, b + 1) /\ b \in Blocks /\ w.got = m.got
         /\ \/ w.blocks = Put(m.blocks, b, d)
            \/ w.blocks = Put(m.blocks, b, "torn")
      \/ ~ w.ok /\ Rest(w) /\ w.blocks = m.blocks
  BY <1>2, writeDataEnds
<1> HIDE DEF w
<1>4. Left(w) /\ call'.op = "stream" /\ Answered("stream", b, d, w)
  BY <1>1, LeaveParts
<1>5. ready' /\ ready' \in BOOLEAN
  BY <1>1, <1>2 DEF SdInv, SdTypes
<1>6. blocks' = w.blocks /\ w.ok \in BOOLEAN
  BY <1>3, <1>4 DEF Left, Rest, Streaming, Closed, Machines
<1>7. CASE w.ok
  <2>1. b + 1 \in Asked
    BY <1>1, CardAssumption DEF Blocks, Asked
  <2>2. SdInv'
    BY <1>1, <1>3, <1>4, <1>5, <1>7, <2>1, StreamKeeps
  <2>3. blocks' = Put(blocks, b, d) \/ blocks' = Put(blocks, b, "torn")
    BY <1>2, <1>3, <1>6, <1>7
  <2>4. Device!Become(b, b, d) \/ Device!Become(b, b, "torn")
    BY <1>1, <2>3, PutBecomes
  <2>5. Device!StreamDone(b, d)
    BY <1>2, <1>3, <1>4, <1>6, <1>7, <2>4 DEF Answered, Device!StreamDone
  <2> QED BY <1>1, <2>2, <2>5 DEF DeviceStep, Device!Next
<1>8. CASE ~ w.ok
  <2>1. Rest(w) /\ blocks' = blocks /\ streaming' = -1
    BY <1>1, <1>2, <1>3, <1>6, <1>8
  <2>2. SdInv'
    BY <1>4, <1>5, <2>1, RestKeeps
  <2>3. Device!Failed("stream", b, b, d, d)
    BY <1>4, <1>6, <1>8, <2>1 DEF Answered, Device!Failed
  <2> QED BY <1>2, <2>2, <2>3 DEF DeviceStep, Device!Next
<1> QED BY <1>7, <1>8

\* A call of writeStop.
LEMMA WriteStopStep ==
  ASSUME SdInv, CardAssumption, NEW fault \in WriteFaults, WriteStop(fault)
  PROVE  SdInv' /\ DeviceStep
<1> DEFINE m == Machine(fault)
           w == writeStop(m)
<1>1. streaming # -1 /\ Leave(fault, "stop", 0, 0, w) /\ ready' = ready /\ streaming' = -1
  BY DEF WriteStop
<1>2. Streaming(m, streaming) /\ m.blocks = blocks /\ ready /\ streaming \in Asked
  BY <1>1, MachineStreams
<1> HIDE DEF m
<1>3. Rest(w) /\ w.blocks = m.blocks
  BY <1>2, writeStopEnds
<1> HIDE DEF w
<1>4. Left(w) /\ call'.op = "stop"
  BY <1>1, LeaveParts
<1>5. ready' /\ ready' \in BOOLEAN
  BY <1>1, <1>2 DEF SdInv, SdTypes
<1>6. blocks' = blocks
  BY <1>2, <1>3, <1>4 DEF Left
<1>7. SdInv'
  BY <1>1, <1>3, <1>4, <1>5, RestKeeps
<1> QED BY <1>4, <1>6, <1>7, OtherStep

\* The hypotheses: nobody asks, with a block open, for what is refused at once; no
\* card is busy for longer than the waits of a write and of three commands, 1.5 s;
\* and no SDHC card is of 16 GB or more.
SdAssumption == Careless = FALSE /\ Prompt /\ SmallCards

\* The invariant holds at the start.
LEMMA SdInitInv ==
  ASSUME CardAssumption, SdInit
  PROVE  SdInv /\ Device!Init
<1>1. SdTypes
  <2>1. NewDriver \in Drivers /\ NewCard \in CardStates
    BY NewParts
  <2>2. blocks \in [Blocks -> SdContents]
    BY DEF SdInit, SdContents
  <2>3. streaming \in -1 .. LastBlock + 1
    <3>1. streaming = -1 /\ LastBlock \in Nat
      BY CardAssumption DEF SdInit
    <3> QED BY <3>1
  <2> QED BY <2>1, <2>2, <2>3 DEF SdInit, SdTypes
<1>2. /\ NewDriver.cs = "high" /\ ~ NewDriver.inBlock /\ call.op = "none"
      /\ streaming = -1 /\ ready = FALSE
  BY DEF SdInit, NewDriver, Device!Call
<1>3. Device!Init
  BY DEF SdInit, Device!Init
<1> QED BY <1>1, <1>2, <1>3 DEF SdInit, SdInv, Synced

\* Every step keeps the invariant and is a step of BlockDevice.
LEMMA SdStep ==
  ASSUME CardAssumption, SdAssumption, SdInv, [SdNext]_sdVars
  PROVE  SdInv' /\ DeviceStep
<1>1. CASE UNCHANGED sdVars
  BY <1>1 DEF sdVars, SdInv, SdTypes, Known, Synced, DeviceStep
<1>2. ASSUME NEW fault \in InitFaults, NEW rate \in Rates, Initialize(fault, rate)
      PROVE  SdInv' /\ DeviceStep
  BY <1>2, InitializeStep
<1>3. ASSUME NEW value \in BOOLEAN, PartialBlockRead(value)
      PROVE  SdInv' /\ DeviceStep
  BY <1>3, PartialBlockReadStep
<1>4. ASSUME NEW fault \in ReadFaults, CardSize(fault)
      PROVE  SdInv' /\ DeviceStep
  BY <1>4, CardSizeStep DEF SdAssumption
<1>5. ASSUME NEW fault \in ReadFaults, NEW b \in Asked, NEW offset \in 0 .. Size - 1,
             NEW count \in 0 .. Size, ReadData(fault, b, offset, count)
      PROVE  SdInv' /\ DeviceStep
  BY <1>5, ReadDataStep DEF SdAssumption
<1>6. ASSUME NEW fault \in WriteFaults, NEW b \in Asked, NEW d \in Data, WriteBlock(fault, b, d)
      PROVE  SdInv' /\ DeviceStep
  BY <1>6, WriteBlockStep DEF SdAssumption
<1>7. ASSUME NEW fault \in WriteFaults, NEW first \in Asked, NEW last \in Asked,
             Erase(fault, first, last)
      PROVE  SdInv' /\ DeviceStep
  BY <1>7, EraseStep
<1>8. ASSUME NEW fault \in WriteFaults, NEW b \in Asked, WriteStart(fault, b)
      PROVE  SdInv' /\ DeviceStep
  BY <1>8, WriteStartStep DEF SdAssumption
<1>9. ASSUME NEW fault \in WriteFaults, NEW d \in Data, WriteData(fault, d)
      PROVE  SdInv' /\ DeviceStep
  BY <1>9, WriteDataStep DEF SdAssumption
<1>10. ASSUME NEW fault \in WriteFaults, WriteStop(fault)
       PROVE  SdInv' /\ DeviceStep
  BY <1>10, WriteStopStep
<1> QED BY <1>1, <1>2, <1>3, <1>4, <1>5, <1>6, <1>7, <1>8, <1>9, <1>10 DEF SdNext

\* What the driver believes of the card is true of it between any two calls: its kind, the block
\* that is open and how far it has been read, the next block of a sequence, and for how long
\* the card may still be busy.
THEOREM SdInvariant == SdAssumption => (SdSpec => []SdInv)
<1> SUFFICES ASSUME SdAssumption PROVE SdSpec => []SdInv
  OBVIOUS
<1>1. SdInit => SdInv
  BY CardAssumption, SdInitInv
<1>2. SdInv /\ [SdNext]_sdVars => SdInv'
  BY CardAssumption, SdStep
<1> QED BY <1>1, <1>2, PTL DEF SdSpec

\* The driver's and the card's state keep their types.
THEOREM SdTypeCorrect == SdAssumption => (SdSpec => []SdTypeOK)
<1> SUFFICES ASSUME SdAssumption PROVE SdSpec => []SdTypeOK
  OBVIOUS
<1>1. SdSpec => []SdInv
  BY SdInvariant
<1>2. SdInv => SdTypeOK
  BY DEF SdInv, SdTypes, SdTypeOK, Drivers, Dividers, CardStates, SdContents
<1> QED BY <1>1, <1>2, PTL

\* Whatever fails and whenever it does, the bus is free for the other devices on it when a
\* call returns, unless a block is left open or a sequence is under way (BusFree).
THEOREM SdBusFree == SdAssumption => (SdSpec => []BusFree)
<1> SUFFICES ASSUME SdAssumption PROVE SdSpec => []BusFree
  OBVIOUS
<1>1. SdSpec => []SdInv
  BY SdInvariant
<1>2. SdInv => BusFree
  BY DEF SdInv, BusFree, Synced
<1> QED BY <1>1, <1>2, PTL

\* Once init has succeeded, the driver addresses the card in the card's own units, and the
\* card awaits commands (CardKnown).
THEOREM SdCardKnown == SdAssumption => (SdSpec => []CardKnown)
<1> SUFFICES ASSUME SdAssumption PROVE SdSpec => []CardKnown
  OBVIOUS
<1>1. SdSpec => []SdInv
  BY SdInvariant
<1>2. SdInv => CardKnown
  BY DEF SdInv, CardKnown, Known
<1> QED BY <1>1, <1>2, PTL

\* To its callers the driver is an array of blocks: a read that succeeds hands over what the
\* block holds, a write or erase that succeeds stored it there and nowhere else, one that
\* fails touched the blocks it names or none (DeviceKept, the refinement of BlockDevice).
THEOREM SdDeviceKept == SdAssumption => (SdSpec => DeviceKept)
<1> SUFFICES ASSUME SdAssumption PROVE SdSpec => Device!Spec
  BY DEF DeviceKept
<1>1. SdSpec => []SdInv
  BY SdInvariant
<1>2. SdInit => Device!Init
  BY CardAssumption, SdInitInv
<1>3. SdInv /\ [SdNext]_sdVars => [Device!Next]_<<blocks, call>>
  <2> SUFFICES ASSUME SdInv, [SdNext]_sdVars PROVE [Device!Next]_<<blocks, call>>
    OBVIOUS
  <2>1. DeviceStep
    BY CardAssumption, SdStep
  <2> QED BY <2>1 DEF DeviceStep
<1> QED BY <1>1, <1>2, <1>3, PTL DEF SdSpec, Device!Spec

===============================================================================
