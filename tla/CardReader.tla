------------------------------ MODULE CardReader ------------------------------
(***************************************************************************)
(* CardReader::ReadAndStore (Application/CardReader/CardReader.cpp): one   *)
(* pass over the card in the field, of which the record may be stored.     *)
(* The routine is cut where the SD card is touched, so that power can go   *)
(* in between.  Every answer of the Mifare protocol and of the store is a  *)
(* choice.  The record kept on a card stands for the card: Records is the  *)
(* set of cards, and a serial number is the card that has it.              *)
(***************************************************************************)
EXTENDS FilePersistence

CONSTANT NoSerial     \* the five zero bytes mfr_last_serial starts with

ASSUME SerialAssumption == NoSerial \notin Records

VARIABLES
  cr_pc,            \* where ReadAndStore is: "idle" between two calls
  mfr_serial,
  mfr_last_serial,
  chime,            \* what the last call told the user: "success" or "failure"
  saved             \* history: the last card whose record reached the SD card

crVars == <<cr_pc, mfr_serial, mfr_last_serial, chime, saved>>

CRInit ==
  /\ cr_pc = "idle"
  /\ mfr_serial = NoSerial
  /\ mfr_last_serial = NoSerial
  /\ chime = "none"
  /\ saved = NoSerial

\* hid.successfulChime() and memcpy(mfr_last_serial, mfr_serial, 5).
Succeed(serial) ==
  /\ chime' = "success"
  /\ mfr_last_serial' = serial
  /\ cr_pc' = "idle"

\* hid.failureChime().
Fail ==
  /\ chime' = "failure"
  /\ cr_pc' = "idle"
  /\ UNCHANGED mfr_last_serial

-----------------------------------------------------------------------------
(* Request: no card answers, and the call ends. *)
NoCardInField ==
  /\ cr_pc = "idle"
  /\ UNCHANGED <<crVars, fpVars>>

\* Request and Anticoll answer, and the serial differs from the last one: the
\* body of the if is skipped while result is still true.
ReadOtherCard(card) ==
  /\ cr_pc = "idle"
  /\ card # mfr_last_serial
  /\ mfr_serial' = card
  /\ Succeed(card)
  /\ UNCHANGED <<saved, fpVars>>

\* Anticoll fails (leaving any serial), or SelectTag, Auth or Read does.
ReadFails(card) ==
  /\ cr_pc = "idle"
  /\ mfr_serial' = card
  /\ Fail
  /\ UNCHANGED <<saved, fpVars>>

\* The serial is the last one: SelectTag, Auth, Read and Halt go through.
ReadLastCard(card) ==
  /\ cr_pc = "idle"
  /\ card = mfr_last_serial
  /\ mfr_serial' = card
  /\ cr_pc' = "open"
  /\ chime' = "none"
  /\ UNCHANGED <<mfr_last_serial, saved, fpVars>>

OpenForWrite ==
  /\ cr_pc = "open"
  /\ \/ /\ beginTransaction("write", TRUE)
        /\ cr_pc' = "write"
        /\ UNCHANGED <<mfr_last_serial, chime>>
     \/ /\ beginTransaction("write", FALSE)
        /\ Fail
  /\ UNCHANGED <<mfr_serial, saved>>

Store ==
  /\ cr_pc = "write"
  /\ writeRecord(mfr_serial)
  /\ cr_pc' = "commit"
  /\ saved' = IF sd' = sd THEN saved ELSE mfr_serial
  /\ UNCHANGED <<mfr_serial, mfr_last_serial, chime>>

Commit ==
  /\ cr_pc = "commit"
  /\ commitTransaction
  /\ Succeed(mfr_serial)
  /\ UNCHANGED <<mfr_serial, saved>>

ReadAndStore ==
  \/ \E card \in Records : ReadOtherCard(card) \/ ReadFails(card) \/ ReadLastCard(card)
  \/ OpenForWrite \/ Store \/ Commit

-----------------------------------------------------------------------------
(* Properties. *)

CRTypeOK ==
  /\ cr_pc \in {"idle", "open", "write", "commit"}
  /\ mfr_serial \in Records \cup {NoSerial}
  /\ mfr_last_serial \in Records \cup {NoSerial}
  /\ chime \in {"none", "success", "failure"}
  /\ saved \in Records \cup {NoSerial}

\* CardReader.cpp:20-21, "In order to avoid saving the same card again, check
\* if last serial number is different from the new serial num."
NotSavedAgain == [][cr_pc = "write" /\ sd' # sd => mfr_serial # saved]_<<crVars, fpVars>>
===============================================================================
