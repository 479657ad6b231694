----------------------------- MODULE DreadClient -----------------------------
(***************************************************************************)
(* DreadClient::uploadFromPersistence and uploadPacket                     *)
(* (Application/DreadClient/DreadClient.cpp) with the modem calls they     *)
(* make (Support/Modem/Modem.cpp).  CheckTime runs in the timer interrupt  *)
(* and may fall between any two steps.                                     *)
(*                                                                         *)
(* Lengths are counted in lines: a line written by writeRecord is 25 bytes *)
(* and a packet of 500 bytes is twenty of them.  The answers of the modem  *)
(* are choices.  isConnected() is a stub that answers false; Connected is  *)
(* the set of answers it may give, {FALSE} for the code as it is.          *)
(***************************************************************************)
EXTENDS FilePersistence

CONSTANTS
  Connected,     \* answers of Modem::isConnected
  PACKET,        \* lines in a full packet
  LIST_LENGTH    \* list_length, the length reserved for the date

ASSUME PacketAssumption == PACKET \in Nat \ {0} /\ LIST_LENGTH \in Nat \ {0}
ASSUME ConnectedAssumption == Connected \subseteq BOOLEAN

VARIABLES
  dc_pc,         \* where uploadFromPersistence is: "idle" between two calls
  send_packet,   \* DreadClient::send_packet, set by the interrupt
  file_length,   \* what uploadPacket believes is left
  result,        \* uploadPacket's result
  position       \* lines read from the file, hence written to the modem

dcVars == <<dc_pc, send_packet, file_length, result, position>>

DCInit ==
  /\ dc_pc = "idle"
  /\ send_packet \in BOOLEAN     \* the timer already runs during setup()
  /\ file_length = 0
  /\ result = FALSE
  /\ position = 0

CheckTime ==
  /\ send_packet' = TRUE
  /\ UNCHANGED <<dc_pc, file_length, result, position, fpVars>>

-----------------------------------------------------------------------------
\* if (!modem->isConnected()) ... else if (DreadClient::send_packet && ...
StartUpload ==
  /\ dc_pc = "idle"
  /\ \E connected \in Connected :
       dc_pc' = IF connected /\ send_packet THEN "open" ELSE "clear"
  /\ UNCHANGED <<send_packet, file_length, result, position, fpVars>>

\* The answer of beginTransaction is overwritten before anyone reads it.
OpenFile ==
  /\ dc_pc = "open"
  /\ \E opened \in BOOLEAN : beginTransaction("read", opened)
  /\ position' = 0
  /\ dc_pc' = "session"
  /\ UNCHANGED <<send_packet, file_length, result>>

OpenSession ==
  /\ dc_pc = "session"
  /\ file_length' = getSize
  /\ result' \in BOOLEAN                      \* openPacketSession()
  /\ dc_pc' = "size"
  /\ UNCHANGED <<send_packet, position, fpVars>>

\* Mistake: the last packet is not cut to what is left.
FullPacket == PACKET

PacketSize == IF file_length >= PACKET THEN PACKET ELSE file_length

LoopCondition == file_length + LIST_LENGTH > 0 /\ result

\* Head of the while, and sendPacketSize().
SendPacketSize ==
  /\ dc_pc = "size"
  /\ LoopCondition
  /\ result' \in BOOLEAN
  /\ dc_pc' = "data"
  /\ UNCHANGED <<send_packet, file_length, position, fpVars>>

\* Mistake: what has been sent is not subtracted.
SendPacketDataUncounted ==
  /\ dc_pc = "data"
  /\ position' = position + PacketSize
  /\ dc_pc' = "size"
  /\ UNCHANGED <<send_packet, file_length, result, fpVars>>

\* sendPacketData() sends nothing when the modem refuses the length, and less
\* than the packet when the card cannot be read; the loop counts the packet as
\* sent all the same.
SendPacketData ==
  /\ dc_pc = "data"
  /\ \E sent \in 0 .. PacketSize : position' = position + sent
  /\ file_length' = file_length - PacketSize
  /\ dc_pc' = "size"
  /\ UNCHANGED <<send_packet, result, fpVars>>

\* Mistake: the file is closed only when all of it has been sent.
EndUploadLeaking ==
  /\ dc_pc = "size"
  /\ ~ LoopCondition
  /\ IF file_length = 0 THEN commitTransaction ELSE UNCHANGED fpVars
  /\ result' = FALSE
  /\ dc_pc' = "deprecate"
  /\ UNCHANGED <<send_packet, file_length, position>>

\* The value of closePacketSession() is undefined: it has no return statement.
EndUpload ==
  /\ dc_pc = "size"
  /\ ~ LoopCondition
  /\ commitTransaction
  /\ \E closed \in BOOLEAN : result' = (result /\ closed /\ file_length = 0)
  /\ dc_pc' = "deprecate"
  /\ UNCHANGED <<send_packet, file_length, position>>

\* Mistake: the file is removed without a look at the result.
DeprecateAlways ==
  /\ dc_pc = "deprecate"
  /\ \E deprecated \in BOOLEAN : deprecateFilename(deprecated)
  /\ dc_pc' = "clear"
  /\ UNCHANGED <<send_packet, file_length, result, position>>

\* Mistake: an upload that failed is tried again at once.
RetryUpload ==
  /\ dc_pc = "deprecate"
  /\ dc_pc' = IF result THEN "clear" ELSE "open"
  /\ UNCHANGED <<send_packet, file_length, result, position, fpVars>>

DeprecateUploaded ==
  /\ dc_pc = "deprecate"
  /\ IF result
       THEN \E deprecated \in BOOLEAN : deprecateFilename(deprecated)
       ELSE UNCHANGED fpVars
  /\ dc_pc' = "clear"
  /\ UNCHANGED <<send_packet, file_length, result, position>>

ClearFlag ==
  /\ dc_pc = "clear"
  /\ send_packet' = FALSE
  /\ dc_pc' = "idle"
  /\ UNCHANGED <<file_length, result, position, fpVars>>

uploadFromPersistence ==
  \/ StartUpload \/ OpenFile \/ OpenSession \/ SendPacketSize \/ SendPacketData
  \/ EndUpload \/ DeprecateUploaded \/ ClearFlag

-----------------------------------------------------------------------------
(* Properties. *)

DCTypeOK ==
  /\ dc_pc \in {"idle", "open", "session", "size", "data", "deprecate", "clear"}
  /\ send_packet \in BOOLEAN
  /\ file_length \in Nat
  /\ result \in BOOLEAN
  /\ position \in Nat

\* However the modem answers, packet sizes and the length left agree with the
\* file: file_length (a uint32_t) never wraps and no packet is padded with the
\* -1 that File::read returns at the end of the file.
SendsWithinFile ==
  /\ dc_pc \in {"size", "data"} => position + file_length <= getSize
  /\ PacketSize <= file_length

\* No line that is durable on the SD card ever leaves it: whatever the modem and
\* the card answer, whenever power goes, an upload that may be incomplete is
\* never taken for a complete one, and nothing else shortens a file.
LinesKept ==
  [][\A name \in DOMAIN sd :
       name \in DOMAIN sd' /\ IsPrefix(sd[name], sd'[name])]_<<dcVars, fpVars>>
===============================================================================
