--------------------------------- MODULE Modem ---------------------------------
(***************************************************************************)
(* The GPRS modem's driver (Modules/GPRS/Sim900.cpp) and the FTP upload    *)
(* built on it (Support/Modem/Modem.cpp), with the modem at the other end  *)
(* of the serial line.                                                     *)
(*                                                                         *)
(* An answer is a sequence of pieces, cut where the expected answers first *)
(* differ, and matchResponse() compares piece by piece as it compares byte *)
(* by byte.  A command line is one message.  The serial port keeps the     *)
(* order of what is written and of what is received (HardwareSerialTx,     *)
(* HardwareSerialRx); its flush() waits for what was written and discards  *)
(* nothing that was received.                                              *)
(*                                                                         *)
(* The client calls the operations in any order.                           *)
(***************************************************************************)
EXTENDS Naturals, Sequences, SequencesExt

CONSTANTS
  OnTime,      \* the operations whose command is answered before waitFor gives up
  Sizes,       \* packet sizes, in bytes
  MaxBytes,    \* bound: bytes of data sent
  MaxUnread    \* bound: pieces not yet read when a command is given

ASSUME ModemAssumption ==
  /\ OnTime \subseteq {"name", "open", "size", "data", "close"}
  /\ Sizes \subseteq Nat \ {0} /\ MaxBytes \in Nat /\ MaxUnread \in Nat

VARIABLES
  op,          \* the operation of Modem that runs: "idle" between two calls
  stage,       \* where it is
  size,        \* data_size
  ptr,         \* pieces of the expected answer matched so far
  n,           \* bytes of the packet not yet written
  port,        \* received pieces that wait in the port
  session,     \* the modem: a session is open
  want,        \* the modem: bytes of data it waits for
  reply,       \* the modem: pieces it has still to send
  sent,        \* history: bytes of data written to the port
  stored       \* history: what the modem took as data, in order

driverVars == <<op, stage, size, ptr, n>>
modemVars == <<session, want, reply>>
vars == <<driverVars, port, modemVars, sent, stored>>

\* The expected answers, up to their '\r'.  After "+FTPPUT:" READY stands for "1,1,",
\* CLOSED for "1,0" and LENGTH for "2,".
OK == <<"OK">>
plusFTP_PUT == <<"FTPPUT:", "READY">>
plusFTP_PUT_Closed == <<"FTPPUT:", "CLOSED">>
plusFTP_PUT_Length == <<"FTPPUT:", "LENGTH">>
ERROR == <<"ERROR">>

Text == 0   \* a piece of a command that was taken for data

Init ==
  /\ op = "idle" /\ stage = "idle" /\ size = 0 /\ ptr = 0 /\ n = 0
  /\ port = <<>>
  /\ session = FALSE /\ want = 0 /\ reply = <<>>
  /\ sent = 0 /\ stored = <<>>

-----------------------------------------------------------------------------
(* The modem. *)

Answer(pieces) == reply' = reply \o pieces

\* Text that arrives where data is expected is data.
Swallow ==
  \E k \in 1 .. want :
    /\ stored' = stored \o [i \in 1 .. k |-> Text]
    /\ want' = want - k
    /\ IF want = k THEN Answer(OK \o plusFTP_PUT) ELSE UNCHANGED reply
    /\ UNCHANGED session

Refuse == Answer(ERROR) /\ UNCHANGED <<session, want>>

\* "FTPPUT=2," without a number does not make the modem wait for data.
Obey(command, length) ==
  \/ Refuse
  \/ /\ command = "open" /\ ~ session
     /\ session' = TRUE
     /\ Answer(OK \o plusFTP_PUT) /\ UNCHANGED want
  \/ /\ command \in {"name", "size"}
     /\ Answer(OK) /\ UNCHANGED <<session, want>>
  \/ /\ command = "data" /\ session
     /\ want' = length
     /\ Answer(plusFTP_PUT_Length) /\ UNCHANGED session
  \/ /\ command = "close" /\ session
     /\ session' = FALSE
     /\ Answer(OK \o plusFTP_PUT_Closed) /\ UNCHANGED want

Take(command, length) ==
  IF want > 0 THEN Swallow ELSE Obey(command, length) /\ UNCHANGED stored

\* A byte of data is dropped by a modem that waits for a command.
TakeByte(byte) ==
  /\ IF want > 0
       THEN /\ stored' = Append(stored, byte)
            /\ want' = want - 1
            /\ IF want = 1 THEN Answer(OK \o plusFTP_PUT) ELSE UNCHANGED reply
       ELSE UNCHANGED <<stored, want, reply>>
  /\ UNCHANGED session

Speak ==
  /\ reply # <<>>
  /\ port' = Append(port, Head(reply))
  /\ reply' = Tail(reply)
  /\ UNCHANGED <<driverVars, session, want, sent, stored>>

-----------------------------------------------------------------------------
(* Sim900: setAtCmd and setAtParameter write a command and wait for its      *)
(* answer; waitFor and matchResponse read what the port has received.        *)

Command(operation, length) ==
  /\ op = "idle"
  /\ Len(port \o reply) <= MaxUnread
  /\ op' = operation /\ stage' = "answer" /\ ptr' = 0 /\ size' = length
  /\ Take(operation, length)
  /\ UNCHANGED <<n, port, sent>>

\* What the running operation waits for.
Expected ==
  CASE (stage = "answer" /\ op = "data") \/ (stage = "match" /\ op = "size") -> plusFTP_PUT_Length
    [] (stage = "answer" /\ op # "data") \/ stage = "OK" -> OK
    [] stage = "closed" -> plusFTP_PUT_Closed
    [] OTHER -> plusFTP_PUT

Waits == stage \in {"answer", "closed", "OK", "put"}

\* Mistake: a wait that finds nothing is begun anew.
FollowingAnew(found) ==
  IF Waits /\ ~ found THEN stage
  ELSE CASE stage = "answer" /\ op \in {"open", "size"} -> "match"
    [] stage = "answer" /\ op = "close" -> "closed"
    [] stage = "answer" /\ op = "data" -> "bytes"
    [] stage = "OK" /\ found -> "put"
    [] OTHER -> "idle"

\* Mistake: the data is sent whatever the modem answered.
FollowingUnchecked(found) ==
  CASE stage = "answer" /\ op \in {"open", "size"} -> "match"
    [] stage = "answer" /\ op = "close" -> "closed"
    [] stage = "answer" /\ op = "data" -> "bytes"
    [] stage = "OK" /\ found -> "put"
    [] OTHER -> "idle"

\* What follows in Modem.cpp when the answer was found or not.
Following(found) ==
  CASE stage = "answer" /\ op \in {"open", "size"} -> "match"
    [] stage = "answer" /\ op = "close" -> "closed"
    [] stage = "answer" /\ op = "data" -> IF found THEN "bytes" ELSE "OK"
    [] stage = "OK" /\ found -> "put"
    [] OTHER -> "idle"

GoOn(found) ==
  /\ stage' = Following(found)
  /\ op' = IF stage' = "idle" THEN "idle" ELSE op
  /\ ptr' = 0
  /\ n' = IF stage' = "bytes" THEN size ELSE 0
  /\ UNCHANGED size

\* One turn of matchResponse(): a piece that does not fit starts the match anew,
\* and is not compared with the first piece.
matchResponse ==
  /\ Waits \/ stage = "match"
  /\ port # <<>>
  /\ port' = Tail(port)
  /\ LET matched == IF Head(port) = Expected[ptr + 1] THEN ptr + 1 ELSE 0
     IN  IF matched = Len(Expected)
           THEN GoOn(TRUE)
           ELSE ptr' = matched /\ UNCHANGED <<op, stage, size, n>>
  /\ UNCHANGED <<modemVars, sent, stored>>

\* waitFor() looks at the clock only when the port is empty.
Timeout ==
  /\ Waits /\ port = <<>>
  /\ stage = "answer" /\ op \in OnTime => reply = <<>>
  /\ GoOn(FALSE)
  /\ UNCHANGED <<port, modemVars, sent, stored>>

-----------------------------------------------------------------------------
(* Modem. *)

updatePacketName == Command("name", 0)
openPacketSession == Command("open", 0)
sendPacketSize == Command("size", 0)
closePacketSession == Command("close", 0)
sendPacketData == \E length \in Sizes : sent + length <= MaxBytes /\ Command("data", length)

\* openPacketSession and sendPacketSize look at the port once, after the "OK".
NoMatch ==
  /\ stage = "match" /\ port = <<>>
  /\ GoOn(FALSE)
  /\ UNCHANGED <<port, modemVars, sent, stored>>

WriteByte ==
  /\ stage = "bytes" /\ n > 0
  /\ n' = n - 1
  /\ sent' = sent + 1
  /\ TakeByte(sent')
  /\ UNCHANGED <<op, stage, size, ptr, port>>

BytesWritten ==
  /\ stage = "bytes" /\ n = 0
  /\ stage' = "OK"
  /\ UNCHANGED <<op, size, ptr, n, port, modemVars, sent, stored>>

Driver == matchResponse \/ Timeout \/ NoMatch \/ WriteByte \/ BytesWritten

Next ==
  \/ updatePacketName \/ openPacketSession \/ sendPacketSize \/ closePacketSession
  \/ sendPacketData
  \/ Driver \/ Speak

\* The driver's loops run, and the modem says what it has to say.
Spec == Init /\ [][Next]_vars /\ WF_vars(Driver) /\ WF_vars(Speak)

-----------------------------------------------------------------------------
(* Properties. *)

\* If only the answer to the length of a packet is in time, then what the modem
\* takes for data is exactly the data written, in order: no answer that comes late
\* or was left unread lets an operation send data that the modem has not asked
\* for, and no command is taken for data.
DataInOrder == stored = [i \in 1 .. sent |-> i]

\* Every operation comes back, whatever the modem answers, although the port is
\* read without a look at the clock as long as there is something in it.
CallsReturn == op # "idle" ~> op = "idle"
===============================================================================
