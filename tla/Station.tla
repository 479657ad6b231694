------------------------------- MODULE Station -------------------------------
(***************************************************************************)
(* The standalone build (Launcher/std-dread-launcher.cpp): the main loop   *)
(* calls the card reader and the upload client in turn, over one store,    *)
(* while the timer interrupt may request an upload at any moment and power *)
(* may be lost between any two steps.                                      *)
(*                                                                         *)
(* The two connection_handler calls of loop() change nothing: no caller of *)
(* sendSignal exists, so the queue stays empty, and listenToModem is       *)
(* empty.                                                                  *)
(***************************************************************************)
EXTENDS CardReader, DreadClient

CONSTANTS
  MaxLines,     \* bound: lines in the file
  MaxLosses     \* bound: losses of power

ASSUME LossAssumption == MaxLosses \in Nat

VARIABLES
  turn,     \* the call of loop() that runs: "read" or "upload"
  losses    \* losses of power so far

vars == <<fpVars, crVars, dcVars, turn, losses>>

Init ==
  /\ FPInit
  /\ CRInit
  /\ DCInit
  /\ turn = "read"
  /\ losses = 0

\* ReadAndStore; when it returns, the loop goes on to the upload.
Read ==
  /\ turn = "read"
  /\ NoCardInField \/ ReadAndStore
  /\ cr_pc' = "open" => \A name \in DOMAIN sd : Len(sd[name]) < MaxLines
  /\ turn' = IF cr_pc' = "idle" THEN "upload" ELSE "read"
  /\ UNCHANGED <<dcVars, losses>>

Upload ==
  /\ turn = "upload"
  /\ uploadFromPersistence
  /\ turn' = IF dc_pc' = "idle" THEN "read" ELSE "upload"
  /\ UNCHANGED <<crVars, losses>>

Interrupt ==
  /\ CheckTime
  /\ UNCHANGED <<crVars, turn, losses>>

\* The SD card survives; everything in RAM starts again.
Restart ==
  /\ losses < MaxLosses
  /\ losses' = losses + 1
  /\ PowerLoss
  /\ cr_pc' = "idle" /\ mfr_serial' = NoSerial /\ mfr_last_serial' = NoSerial
  /\ chime' = "none" /\ saved' = NoSerial
  /\ dc_pc' = "idle" /\ send_packet' \in BOOLEAN /\ file_length' = 0
  /\ result' = FALSE /\ position' = 0
  /\ turn' = "read"

Next == Read \/ Upload \/ Interrupt \/ Restart

Spec == Init /\ [][Next]_vars

\* The loop never stops by itself; nothing else is promised: not a card, not an
\* answer of the modem, not an interrupt.
FairSpec == Spec /\ WF_vars(Read) /\ WF_vars(Upload)

-----------------------------------------------------------------------------
(* Properties. *)

TypeOK ==
  /\ FPTypeOK
  /\ CRTypeOK
  /\ DCTypeOK
  /\ turn \in {"read", "upload"}
  /\ losses \in 0 .. MaxLosses

\* The one File object is passed around without a leak: on every path, the
\* failing ones included, whoever opened it has closed it before anyone opens
\* it again, and the record is written into a handle open for writing.
HandleReleased ==
  /\ file # Closed => cr_pc = "write" \/ dc_pc \in {"session", "size", "data"}
  /\ cr_pc = "write" => file = Opened("write")
  /\ dc_pc \in {"session", "size", "data"} => file \in {Closed, Opened("read")}

\* The main loop comes back to the card reader again and again, unless the
\* modem keeps it in the packet loop of uploadPacket for ever: that loop has no
\* other way to hang, and no other routine has any.
LoopReturns ==
  []<>(turn = "read" /\ cr_pc = "idle") \/ <>[](dc_pc \in {"size", "data"})
===============================================================================
