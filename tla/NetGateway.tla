------------------------------ MODULE NetGateway ------------------------------
(***************************************************************************)
(* The gateway: a master that polls (Application/NetGateway/NGClient.cpp)  *)
(* and a slave that listens (NGServer.cpp) on the one RS485 bus, through   *)
(* Socket, Router and, on the slave, NonPersistence.  Every turn of a main *)
(* loop is one step; what a device sends reaches the port of the other,    *)
(* and so do the Strays, bytes that nobody sent or that were changed on    *)
(* the way.  A byte that is not in the port when the time is up stays.     *)
(*                                                                         *)
(* A message is MessageSize bytes: addr, type, status or msg, ..., and the *)
(* byte where the footer is looked for.                                    *)
(***************************************************************************)
EXTENDS NetManager, SequencesExt

CONSTANTS
  MessageSize,   \* 20 in the build
  Strays,        \* sequences of bytes that appear on the bus
  RingSize,      \* mask of the slave's Stream, 512 in the build: a power of 2
  RecordSize,    \* bytes of one record in it
  MaxPort,       \* bound: bytes that wait in a port, the later ones are lost
  MaxQuiet       \* bound: bytes in the ports when the bus is disturbed

ASSUME MessageAssumption ==
  /\ MessageSize \in Nat /\ MessageSize > 3
  /\ Strays \subseteq Seq(0 .. 255)
  /\ MaxPort \in Nat /\ RingSize \in Nat \ {0}

VARIABLES
  masterPort,    \* bytes in the receiver of the master
  slavePort,     \* and of the slave
  request,       \* the static req of pollRecords
  response,      \* the static response of listen
  stored,        \* history: the msg byte the master stored last, or None
  acked,         \* history: whose message the master's last turn acknowledged, or None
  hung,          \* the slave's session loop does not end
  heard,         \* history: the slave's last turn took a header
  ring           \* the slave's Stream

gwVars == <<masterPort, slavePort, request, response, stored, acked, hung, heard, ring>>

HEADER == 64
FOOTER == 33
NO_ADDRESS == 255         \* uint8_t(-1)
None == -1
ACK == 0
PUT_ADDRESS == 1
GET_RECORD == 2
OK == 0

Zeroes == [i \in 1 .. MessageSize |-> 0]
Addr(msg) == msg[1]
Type(msg) == msg[2]

\* What a port holds after more bytes have come.
Received(port, bytes) ==
  LET all == port \o bytes IN SubSeq(all, 1, IF Len(all) > MaxPort THEN MaxPort ELSE Len(all))

-----------------------------------------------------------------------------
(* Socket. *)

\* memset, and the bytes stored from the start.
Filled(bytes) == [i \in 1 .. MessageSize |-> IF i <= Len(bytes) THEN bytes[i] ELSE 0]

\* Mistake: the header is not waited for.
listenMsgAtOnce(port, arrived) ==
  LET in == SubSeq(port, 1, arrived)
      h == 0
      ends == {i \in h + 1 .. arrived : in[i] = FOOTER \/ i = h + MessageSize}
      e == IF ends = {} THEN arrived ELSE Min(ends)
      body == SubSeq(in, h + 1, e)
      whole == Len(body) = MessageSize
  IN  [code |-> IF whole /\ Last(body) = FOOTER THEN "received"
                ELSE IF whole THEN "outofbound"
                ELSE IF ends = {} THEN "timeout" ELSE "noformat",
       msg |-> Filled(body),
       rest |-> SubSeq(port, e + 1, Len(port))]

\* listenMsg when `arrived' bytes come before the time is up: everything before
\* a header is dropped, though the last byte dropped stays in msg[0]; then bytes
\* are stored until the footer or the length is reached, or no more come.
listenMsg(port, arrived) ==
  LET in == SubSeq(port, 1, arrived)
      headers == {i \in 1 .. arrived : in[i] = HEADER}
      h == IF headers = {} THEN arrived ELSE Min(headers)
      ends == {i \in h + 1 .. arrived : in[i] = FOOTER \/ i = h + MessageSize}
      e == IF ends = {} THEN arrived ELSE Min(ends)
      body == SubSeq(in, h + 1, e)
      whole == Len(body) = MessageSize
  IN  [code |-> IF whole /\ Last(body) = FOOTER THEN "received"
                ELSE IF whole THEN "outofbound"
                ELSE IF ends = {} THEN "timeout" ELSE "noformat",
       msg |-> Filled(IF body # <<>> \/ h = 0 THEN body ELSE <<in[h]>>),
       rest |-> SubSeq(port, e + 1, Len(port))]

-----------------------------------------------------------------------------
(* The master. *)

\* scanNet: an address is offered to whoever has none.
scanNet(req) ==
  IF free_addresses = 0 THEN req
  ELSE [req EXCEPT ![1] = BROADCAST_ADDRESS, ![2] = PUT_ADDRESS, ![3] = getFreeAddress]

\* A turn sends what scanNet has for the slaves nobody knows, and asks the slave
\* at getAddress() for a record; the last request stays in req.
RecordRequest == [scanNet(request) EXCEPT ![1] = getAddress, ![2] = GET_RECORD, ![3] = 0]
Requests ==
  (IF free_addresses = 0 THEN <<>> ELSE scanNet(request))
    \o (IF getAddress = 0 THEN <<>> ELSE RecordRequest)
Asked == IF getAddress = 0 THEN scanNet(request) ELSE RecordRequest

\* sendAck after what has been sent already.
SendAck(address) ==
  /\ request' = [Asked EXCEPT ![2] = ACK]
  /\ slavePort' = Received(slavePort, Requests \o request')
  /\ acked' = address

NoAck ==
  /\ request' = Asked
  /\ slavePort' = Received(slavePort, Requests)
  /\ acked' = None

\* handleGetRecord: the store may fail to open.  The record that is written is
\* the msg of the request.
handleGetRecord(res) ==
  IF contains(Addr(res))
    THEN /\ UNCHANGED vars
         /\ \/ stored' = Asked[3] /\ SendAck(Addr(res))
            \/ UNCHANGED stored /\ NoAck
    ELSE UNCHANGED <<vars, stored>> /\ NoAck

\* Mistake: the refusal of a registration is acknowledged like the registration.
handlePutAddressAlways(res) ==
  /\ UNCHANGED stored
  /\ addAddress(Addr(res)) \/ addAddressRefuses(Addr(res))
  /\ SendAck(Addr(res))

handlePutAddress(res) ==
  /\ UNCHANGED stored
  /\ \/ addAddress(Addr(res)) /\ SendAck(Addr(res))
     \/ addAddressRefuses(Addr(res)) /\ NoAck

pollRecords(arrived) ==
  LET heardNow == listenMsg(masterPort, arrived)
      res == heardNow.msg
      good == heardNow.code = "received" /\ res[3] = OK
  IN  /\ arrived <= Len(masterPort)
      /\ masterPort' = heardNow.rest
      /\ \/ good /\ Type(res) = GET_RECORD /\ handleGetRecord(res)
         \/ good /\ Type(res) = PUT_ADDRESS /\ handlePutAddress(res)
         \/ ~ (good /\ Type(res) \in {GET_RECORD, PUT_ADDRESS}) /\ UNCHANGED <<vars, stored>> /\ NoAck
      /\ UNCHANGED <<response, hung, heard, ring>>

-----------------------------------------------------------------------------
(* The slave. *)

\* registerService finds the address taken, whatever it is: an uint8_t is never
\* equal to the int -1.  So the slave keeps the address it starts with.
Own == NO_ADDRESS

\* Router::listenRequest.
listenRequest(said) ==
  IF said.code = "received" \/ Addr(said.msg) \in {BROADCAST_ADDRESS, Own} THEN "received"
  ELSE said.code

EmptyStream == [hd |-> 0, tl |-> 0, error |-> FALSE]
Available == IF ring.hd > ring.tl THEN RingSize - ring.hd + ring.tl ELSE ring.tl - ring.hd

\* A record is written; a ring that is full takes it all the same.
Written == [ring EXCEPT !.tl = (@ + RecordSize) % RingSize,
                        !.error = Available + RecordSize >= RingSize]

\* The session: an ACK ends it.  A record is answered twice, before and after it
\* is copied from the ring into the response; and again if more remain.
Session(req) ==
  CASE Type(req) = ACK -> UNCHANGED <<response, masterPort, ring, hung>>
    [] Type(req) = GET_RECORD ->
         /\ response' = [response EXCEPT ![1] = Own, ![2] = GET_RECORD, ![3] = OK]
         /\ masterPort' = Received(masterPort, response' \o response')
         /\ ring' = [ring EXCEPT !.hd = ring.tl]
         /\ UNCHANGED hung
    [] OTHER -> hung' = TRUE /\ UNCHANGED <<response, masterPort, ring>>

listen(arrived) ==
  LET said == listenMsg(slavePort, arrived)
      code == listenRequest(said)
  IN  /\ ~ hung /\ arrived <= Len(slavePort)
      /\ slavePort' = said.rest
      /\ heard' = (HEADER \in ToSet(SubSeq(slavePort, 1, arrived)))
      /\ IF code \in {"timeout", "noformat"}
           THEN UNCHANGED <<response, masterPort, ring, hung>>
           ELSE Session(said.msg)
      /\ UNCHANGED <<vars, request, stored, acked>>

\* CardReader stores a record: beginTransaction and writeRecord of
\* NonPersistence, of which one goes on only without and the other only with an
\* earlier error of the ring.
StoreRecord ==
  /\ ~ hung /\ ~ ring.error
  /\ ring' = IF ~ ring.error THEN ring ELSE Written
  /\ UNCHANGED <<vars, masterPort, slavePort, request, response, stored, acked, hung, heard>>

-----------------------------------------------------------------------------
GInit ==
  /\ Init
  /\ masterPort = <<>> /\ slavePort = <<>>
  /\ request = Zeroes /\ response = Zeroes
  /\ stored = None /\ acked = None /\ hung = FALSE /\ heard = FALSE
  /\ ring = EmptyStream

Disturb(bytes) ==
  /\ Len(masterPort) + Len(slavePort) <= MaxQuiet
  /\ masterPort' = Received(masterPort, bytes)
  /\ slavePort' = Received(slavePort, bytes)
  /\ UNCHANGED <<vars, request, response, stored, acked, hung, heard, ring>>

GNext ==
  \/ \E arrived \in 0 .. MaxPort : pollRecords(arrived) \/ listen(arrived)
  \/ StoreRecord
  \/ \E bytes \in Strays : Disturb(bytes)

GSpec == GInit /\ [][GNext]_<<vars, gwVars>>

-----------------------------------------------------------------------------
(* Properties. *)

GTypeOK ==
  /\ masterPort \in Seq(0 .. 255) /\ slavePort \in Seq(0 .. 255)
  /\ Len(masterPort) <= MaxPort /\ Len(slavePort) <= MaxPort
  /\ request \in [1 .. MessageSize -> 0 .. 255] /\ response \in [1 .. MessageSize -> 0 .. 255]
  /\ stored \in -1 .. 255 /\ acked \in -1 .. 255 /\ {hung, heard} \subseteq BOOLEAN
  /\ ring \in [hd : 0 .. RingSize - 1, tl : 0 .. RingSize - 1, error : BOOLEAN]

\* A slave is thanked only when it is in the book: a registration that was
\* refused, and a record of a slave nobody knows, are left unanswered, so the
\* slave asks again (NGClient.cpp:56, 77).
AckedIsKnown == acked # None => contains(acked)

\* The session loop has no end for a type it does not know, so noise must not
\* look like one: without a header on the line listen() gives up or finds the
\* zeros of the empty buffer, a broadcast ACK (Socket.cpp:27, NGServer.cpp:32).
HangsOnlyOnFrames == hung => heard
===============================================================================
