--------------------------- MODULE NetGatewayProofs ---------------------------
(***************************************************************************)
(* For every table size and every set of addresses: the table of           *)
(* NetManager is an exact set of the accepted addresses.  For every length *)
(* of a message, every noise and every bound on the ports: the gateway     *)
(* keeps that, thanks only slaves it knows, and is caught only by frames.  *)
(*                                                                         *)
(* LookupExact and RefusesOnlyKnownOrFull are not inductive: they need to  *)
(* know that no empty cell precedes an address on its probe sequence       *)
(* (ProbingInv), that the bytes are the accepted addresses (RegisteredInv) *)
(* and that the counter is exact (FreeCountExact).  IInv collects them.    *)
(*                                                                         *)
(* The theorems of the gateway take Addresses to be all bytes, as in the   *)
(* build: what comes out of a damaged frame may be any of them.            *)
(***************************************************************************)
EXTENDS NetGateway, FiniteSetTheorems, CommonTheorems

-----------------------------------------------------------------------------
(* Arithmetic of the probe sequence. *)

\* Every cell index the code computes is inside the table.
LEMMA CellInTable ==
  ASSUME NEW a \in 0..255, NEW p \in Nat
  PROVE  Cell(a, p) \in Cells
BY TableAssumption DEF Cell, Cells

LEMMA CellsAreNaturals == Cells \subseteq Nat
BY TableAssumption DEF Cells

\* MAX_ADDRESSES probes visit the whole table.
LEMMA ProbingVisitsEveryCell ==
  ASSUME NEW a \in 0..255, NEW h \in Cells
  PROVE  \E p \in Cells : Cell(a, p) = h
<1> DEFINE N == MAX_ADDRESSES
           p == (h - a) % N
           k == (h - a) \div N
<1>1. N \in Nat \ {0} /\ h \in 0 .. N - 1
  BY TableAssumption DEF Cells
<1>2. p \in 0 .. N - 1 /\ k \in Int /\ h - a = N * k + p
  BY <1>1
<1>3. a + p = N * (-k) + h
  <2> HIDE DEF p, k
  <2>1. N * (-k) = -(N * k)
    BY <1>1, <1>2
  <2> QED BY <2>1, <1>1, <1>2
<1>4. (a + p) % N = h
  <2> HIDE DEF p, k, N
  <2>1. -k \in Int
    BY <1>2
  <2> QED BY <2>1, <1>1, <1>3, ModUnique
<1> QED BY <1>2, <1>4 DEF Cell, Cells

-----------------------------------------------------------------------------
(* The inductive invariant. *)

\* The empty cells are a finite set of at most MAX_ADDRESSES elements.
LEMMA EmptyCellsFinite ==
  IsFiniteSet(Cells) /\ Cardinality(Cells) = MAX_ADDRESSES /\ IsFiniteSet(EmptyCells)
<1>1. IsFiniteSet(Cells) /\ Cardinality(Cells) = MAX_ADDRESSES
  BY TableAssumption, FS_Interval DEF Cells
<1> QED BY <1>1, FS_Subset DEF EmptyCells

\* Under the invariant the cell addAddress writes is empty and its address is
\* new: the loop never runs off the end of a table that has room.
LEMMA StoresInEmptyCell ==
  ASSUME IInv, free_addresses # 0, NEW a \in Addresses, NEW p \in Cells, StoresAt(a, p)
  PROVE  /\ Cell(a, p) \in Cells
         /\ table[Cell(a, p)] = 0
         /\ a # 0
         /\ \A k \in Cells : table[k] # a
<1>1. a \in 0..255 /\ p \in Nat /\ p \in 0 .. MAX_ADDRESSES - 1 /\ MAX_ADDRESSES \in Nat
  BY AddressAssumption, TableAssumption DEF Cells
<1>2. Cell(a, p) \in Cells
  BY <1>1, CellInTable
<1>3. table[Cell(a, p)] = 0
  <2> SUFFICES ASSUME table[Cell(a, p)] # 0 PROVE FALSE
    OBVIOUS
  <2>1. p = MAX_ADDRESSES - 1
    BY DEF StoresAt
  <2>2. ASSUME NEW k \in Cells PROVE table[k] # 0
    <3>1. PICK q \in Cells : Cell(a, q) = k
      BY <1>1, ProbingVisitsEveryCell
    <3>2. q = p \/ q \in 0 .. p - 1
      BY <1>1, <2>1 DEF Cells
    <3> QED BY <3>1, <3>2 DEF StoresAt
  <2>3. EmptyCells = {}
    BY <2>2 DEF EmptyCells
  <2>4. free_addresses = 0
    BY <2>3, FS_EmptySet DEF IInv, FreeCountExact
  <2> QED BY <2>4
<1>4. a # 0
  BY <1>1, <1>3 DEF StoresAt
<1>5. ASSUME NEW k \in Cells, table[k] = a PROVE FALSE
  <2>1. PICK q \in Cells : /\ k = Cell(a, q)
                           /\ \A r \in 0 .. q - 1 : table[Cell(a, r)] # 0
    BY <1>4, <1>5 DEF IInv, ProbingInv
  <2>2. q \in 0 .. p \/ p \in 0 .. q - 1
    BY <1>1 DEF Cells
  <2> QED BY <1>3, <1>5, <2>1, <2>2 DEF StoresAt
<1> QED BY <1>2, <1>3, <1>4, <1>5

LEMMA InitIInv == Init => IInv
<1> SUFFICES ASSUME Init PROVE IInv
  OBVIOUS
<1>1. TypeOK
  BY TableAssumption DEF Init, TypeOK
<1>2. FreeCountExact
  <2>1. EmptyCells = Cells
    BY DEF Init, EmptyCells
  <2> QED BY <2>1, EmptyCellsFinite DEF Init, FreeCountExact
<1>3. NoDuplicate /\ ProbingInv /\ RegisteredInv
  BY DEF Init, NoDuplicate, ProbingInv, RegisteredInv
<1> QED BY <1>1, <1>2, <1>3 DEF IInv

LEMMA NextIInv == IInv /\ [Next]_vars => IInv'
<1> SUFFICES ASSUME IInv, [Next]_vars PROVE IInv'
  OBVIOUS
<1>1. CASE UNCHANGED vars
  BY <1>1 DEF IInv, TypeOK, FreeCountExact, EmptyCells, NoDuplicate, ProbingInv,
              RegisteredInv, vars
<1>2. ASSUME NEW a \in Addresses, addAddress(a)
      PROVE  IInv'
  <2>1. addAddress(a)
    BY <1>2
  <2>2. PICK p \in Cells : /\ StoresAt(a, p)
                           /\ table' = [table EXCEPT ![Cell(a, p)] = a]
    BY <2>1 DEF addAddress
  <2> DEFINE h == Cell(a, p)
  <2>3. /\ h \in Cells /\ table[h] = 0 /\ a # 0
        /\ \A k \in Cells : table[k] # a
    BY <2>1, <2>2, StoresInEmptyCell DEF addAddress
  <2>4. /\ table \in [Cells -> Addresses \cup {0}]
        /\ \A k \in Cells : table'[k] = IF k = h THEN a ELSE table[k]
    BY <2>2 DEF IInv, TypeOK
  <2>5. \A x \in Addresses, q \in Cells : Cell(x, q) \in Cells
    BY CellInTable, CellsAreNaturals, AddressAssumption
  <2> HIDE DEF h
  <2>6. FreeCountExact'
    <3>1. EmptyCells' = EmptyCells \ {h} /\ h \in EmptyCells
      BY <2>3, <2>4 DEF EmptyCells
    <3>2. Cardinality(EmptyCells') = Cardinality(EmptyCells) - 1
      BY <3>1, EmptyCellsFinite, FS_RemoveElement
    <3> QED BY <3>2, <2>1 DEF IInv, FreeCountExact, addAddress
  <2>7. TypeOK'
    <3>1. table' \in [Cells -> Addresses \cup {0}]
      BY <2>2, <2>4 DEF h
    <3>2. free_addresses' \in 0 .. MAX_ADDRESSES
      BY <2>1, TableAssumption DEF IInv, TypeOK, addAddress
    <3> QED BY <2>1, <2>3, <3>1, <3>2 DEF IInv, TypeOK, addAddress
  <2>8. NoDuplicate'
    BY <2>3, <2>4 DEF IInv, NoDuplicate
  <2>9. ProbingInv'
    <3> SUFFICES ASSUME NEW k \in Cells, table'[k] # 0
                 PROVE  \E q \in Cells :
                          /\ k = Cell(table'[k], q)
                          /\ \A r \in 0 .. q - 1 : table'[Cell(table'[k], r)] # 0
      BY DEF ProbingInv
    <3>1. CASE k = h
      <4>1. ASSUME NEW r \in 0 .. p - 1 PROVE table'[Cell(a, r)] # 0
        <5>1. r \in Cells
          BY TableAssumption DEF Cells
        <5> QED BY <2>2, <2>3, <2>4, <2>5, <5>1 DEF StoresAt
      <4> QED BY <3>1, <2>3, <2>4, <4>1 DEF h
    <3>2. CASE k # h
      <4>1. table'[k] = table[k] /\ table[k] \in Addresses
        BY <3>2, <2>4
      <4>2. PICK q \in Cells : /\ k = Cell(table[k], q)
                               /\ \A r \in 0 .. q - 1 : table[Cell(table[k], r)] # 0
        BY <4>1 DEF IInv, ProbingInv
      <4>3. \A r \in 0 .. q - 1 : r \in Cells
        BY TableAssumption DEF Cells
      <4> QED BY <2>3, <2>4, <2>5, <4>1, <4>2, <4>3
    <3> QED BY <3>1, <3>2
  <2>10. RegisteredInv'
    BY <2>1, <2>3, <2>4 DEF IInv, RegisteredInv, addAddress
  <2> QED BY <2>6, <2>7, <2>8, <2>9, <2>10 DEF IInv
<1> QED BY <1>1, <1>2 DEF Next, addAddressRefuses

\* The invariant holds of every reachable state, whatever the table size and
\* the addresses: no duplicate, exact free count, unbroken probe sequences.
THEOREM TableInvariant == Spec => []IInv
<1>1. Init => IInv
  BY InitIInv
<1>2. IInv /\ [Next]_vars => IInv'
  BY NextIInv
<1> QED BY <1>1, <1>2, PTL DEF Spec

-----------------------------------------------------------------------------
(* What the callers rely on. *)

LEMMA FoundIfRegistered ==
  ASSUME IInv
  PROVE  LookupExact
<1> SUFFICES ASSUME NEW a \in Addresses \ {BROADCAST_ADDRESS}
             PROVE  contains(a) <=> a \in registered
  BY DEF LookupExact
<1>1. a # 0 /\ a \in 0..255
  BY AddressAssumption DEF BROADCAST_ADDRESS
<1>2. ASSUME contains(a) PROVE a \in registered
  <2>1. PICK q \in Cells : table[Cell(a, q)] = a
    BY <1>2 DEF contains
  <2>2. Cell(a, q) \in Cells
    BY <1>1, CellInTable, CellsAreNaturals
  <2> QED BY <1>1, <2>1, <2>2 DEF IInv, RegisteredInv
<1>3. ASSUME a \in registered PROVE contains(a)
  <2>1. PICK k \in Cells : table[k] = a
    BY <1>3 DEF IInv, RegisteredInv
  <2> QED BY <1>1, <2>1 DEF IInv, ProbingInv, contains
<1> QED BY <1>2, <1>3

\* contains() answers for exactly the addresses addAddress() accepted.
THEOREM LookupIsExact == Spec => []LookupExact
<1>1. IInv => LookupExact
  BY FoundIfRegistered
<1> QED BY <1>1, TableInvariant, PTL

\* As many addresses are registered as cells are taken.
LEMMA RegisteredCount ==
  ASSUME IInv
  PROVE  Cardinality(registered) = MAX_ADDRESSES - Cardinality(EmptyCells)
<1> DEFINE Taken == Cells \ EmptyCells
           f == [k \in Taken |-> table[k]]
<1>1. IsFiniteSet(Taken) /\ Cardinality(Taken) = MAX_ADDRESSES - Cardinality(EmptyCells)
  <2>1. Cells \cap EmptyCells = EmptyCells
    BY DEF EmptyCells
  <2>2. IsFiniteSet(Cells \ EmptyCells)
    BY EmptyCellsFinite, FS_Difference, FS_Subset
  <2>3. Cardinality(Cells \ EmptyCells) = Cardinality(Cells) - Cardinality(Cells \cap EmptyCells)
    BY EmptyCellsFinite, FS_Difference
  <2> QED BY <2>1, <2>2, <2>3, EmptyCellsFinite
<1>2. f \in Surjection(Taken, registered) /\ f \in Injection(Taken, registered)
  <2>1. Taken = {k \in Cells : table[k] # 0}
    BY DEF EmptyCells
  <2>2. registered = {table[k] : k \in Taken}
    BY <2>1 DEF IInv, RegisteredInv
  <2>3. \A k, l \in Taken : table[k] = table[l] => k = l
    BY <2>1 DEF IInv, NoDuplicate
  <2> QED BY <2>2, <2>3 DEF Surjection, Injection, IsInjective
<1> HIDE DEF Taken, f
<1> QED BY <1>1, <1>2, FS_Surjection

\* addAddress() refuses only broadcast, known addresses and a full table; in
\* particular the uint8_t counter and the table never disagree.
THEOREM RefusalIsExact == Spec => []RefusesOnlyKnownOrFull
<1>1. IInv => RefusesOnlyKnownOrFull
  <2> SUFFICES ASSUME IInv, NEW a \in Addresses
               PROVE  addAddressSucceeds(a) <=> /\ a # BROADCAST_ADDRESS
                                                /\ a \notin registered
                                                /\ Cardinality(registered) < MAX_ADDRESSES
    BY DEF RefusesOnlyKnownOrFull
  <2>1. free_addresses \in 0 .. MAX_ADDRESSES
        /\ Cardinality(registered) = MAX_ADDRESSES - free_addresses
    BY RegisteredCount DEF IInv, TypeOK, FreeCountExact
  <2>2. free_addresses # 0 <=> Cardinality(registered) < MAX_ADDRESSES
    BY <2>1, TableAssumption
  <2>3. ASSUME addAddressSucceeds(a) PROVE a # 0 /\ a \notin registered
    <3>1. PICK p \in Cells : StoresAt(a, p)
      BY <2>3 DEF addAddressSucceeds
    <3>2. a # 0 /\ \A k \in Cells : table[k] # a
      BY <2>3, <3>1, StoresInEmptyCell DEF addAddressSucceeds
    <3> QED BY <3>2 DEF IInv, RegisteredInv
  <2>4. ASSUME a # 0, a \notin registered, free_addresses # 0
        PROVE  addAddressSucceeds(a)
    <3> DEFINE S == {p \in Cells : table[Cell(a, p)] = 0}
    <3>1. a \in 0..255 /\ Cells \subseteq Nat
      BY AddressAssumption, TableAssumption DEF Cells
    <3>2. EmptyCells # {}
      BY <2>4, FS_EmptySet DEF IInv, FreeCountExact
    <3>3. PICK h \in Cells : table[h] = 0
      BY <3>2 DEF EmptyCells
    <3>4. S # {} /\ S \in SUBSET Nat
      <4>1. PICK p \in Cells : Cell(a, p) = h
        BY <3>1, <3>3, ProbingVisitsEveryCell
      <4> QED BY <3>1, <3>3, <4>1
    <3>5. PICK p \in S : \A q \in S : p <= q
      BY <3>4, LeastElement
    <3>6. \A q \in 0 .. p : q \in Cells
      BY TableAssumption DEF Cells
    <3>7. ASSUME NEW q \in 0 .. p PROVE table[Cell(a, q)] # a
      <4>1. Cell(a, q) \in Cells
        BY <3>1, <3>6, CellInTable
      <4> QED BY <2>4, <4>1 DEF IInv, RegisteredInv
    <3>8. ASSUME NEW q \in 0 .. p - 1 PROVE table[Cell(a, q)] # 0
      <4>1. q \in Cells /\ q < p /\ q \in Nat /\ p \in Nat
        BY <3>1, <3>6
      <4> QED BY <4>1, <3>5
    <3>9. p \in Cells /\ table[Cell(a, p)] = 0
      OBVIOUS
    <3> QED BY <2>4, <3>7, <3>8, <3>9 DEF addAddressSucceeds, StoresAt
  <2> QED BY <2>2, <2>3, <2>4 DEF BROADCAST_ADDRESS, addAddressSucceeds
<1> QED BY <1>1, TableInvariant, PTL

\* No registration ever overwrites or moves an earlier one.
THEOREM RegistrationIsPermanent == Spec => CellsNeverOverwritten
<1> DEFINE Kept == \A h \in Cells : table[h] # 0 => table'[h] = table[h]
<1>1. IInv /\ [Next]_vars => [Kept]_vars
  <2> SUFFICES ASSUME IInv, NEW a \in Addresses, addAddress(a) PROVE Kept
    BY DEF Next, addAddressRefuses, vars
  <2>1. addAddress(a)
    OBVIOUS
  <2>2. PICK p \in Cells : StoresAt(a, p) /\ table' = [table EXCEPT ![Cell(a, p)] = a]
    BY <2>1 DEF addAddress
  <2>3. table[Cell(a, p)] = 0
    BY <2>1, <2>2, StoresInEmptyCell DEF addAddress
  <2> QED BY <2>2, <2>3 DEF IInv, TypeOK
<1> QED BY <1>1, TableInvariant, PTL DEF Spec, CellsNeverOverwritten

-----------------------------------------------------------------------------
(* Messages and ports. *)

Byte == 0 .. 255
Messages == [1 .. MessageSize -> Byte]

LEMMA MessagesAreBytes ==
  /\ Messages \subseteq Seq(Byte)
  /\ \A msg \in Messages : msg[1] \in Byte /\ msg[2] \in Byte /\ msg[3] \in Byte
  /\ \A bytes \in Seq(Byte) : Filled(bytes) \in Messages
<1>1. MessageSize \in Nat /\ MessageSize > 3
  BY MessageAssumption
<1>2. Messages \subseteq Seq(Byte)
  BY <1>1 DEF Messages
<1>3. \A msg \in Messages : msg[1] \in Byte /\ msg[2] \in Byte /\ msg[3] \in Byte
  BY <1>1 DEF Messages
<1>4. ASSUME NEW bytes \in Seq(Byte)
      PROVE  Filled(bytes) \in Messages
  <2>1. \A i \in 1 .. MessageSize : i <= Len(bytes) => bytes[i] \in Byte
    BY <1>1
  <2>2. 0 \in Byte
    BY DEF Byte
  <2> QED BY <2>1, <2>2 DEF Filled, Messages
<1> QED BY <1>2, <1>3, <1>4

LEMMA LeastOf ==
  ASSUME NEW S \in SUBSET Nat, S # {}
  PROVE  Min(S) \in S
BY LeastElement DEF Min

LEMMA LeastOrLast ==
  ASSUME NEW n \in Nat, NEW S \in SUBSET (0 .. n)
  PROVE  (IF S = {} THEN n ELSE Min(S)) \in 0 .. n
<1>1. S # {} => Min(S) \in S
  BY LeastOf
<1>2. CASE S = {}
  BY <1>2
<1>3. CASE S # {}
  BY <1>1, <1>3
<1> QED BY <1>2, <1>3

\* What arrives stays within the bound.
LEMMA ReceivedIsPort ==
  ASSUME NEW port \in Seq(Byte), NEW bytes \in Seq(Byte)
  PROVE  Received(port, bytes) \in Seq(Byte) /\ Len(Received(port, bytes)) <= MaxPort
<1> DEFINE all == port \o bytes
           m == IF Len(all) > MaxPort THEN MaxPort ELSE Len(all)
<1>1. all \in Seq(Byte) /\ MaxPort \in Nat
  BY ConcatProperties, MessageAssumption
<1> HIDE DEF all
<1>2. m \in 0 .. Len(all) /\ m <= MaxPort
  BY <1>1, LenProperties
<1> HIDE DEF m
<1>3. SubSeq(all, 1, m) \in Seq(Byte) /\ Len(SubSeq(all, 1, m)) = m
  BY <1>1, <1>2
<1> QED BY <1>2, <1>3 DEF Received, all, m

\* Whatever is in the port, listenMsg makes a message of it and leaves no more
\* than there was.
LEMMA ListenedIsMessage ==
  ASSUME NEW port \in Seq(Byte), NEW arrived \in 0 .. Len(port)
  PROVE  /\ listenMsg(port, arrived).msg \in Messages
         /\ listenMsg(port, arrived).rest \in Seq(Byte)
         /\ Len(listenMsg(port, arrived).rest) <= Len(port)
<1> DEFINE in == SubSeq(port, 1, arrived)
           headers == {i \in 1 .. arrived : in[i] = HEADER}
           h == IF headers = {} THEN arrived ELSE Min(headers)
           ends == {i \in h + 1 .. arrived : in[i] = FOOTER \/ i = h + MessageSize}
           e == IF ends = {} THEN arrived ELSE Min(ends)
           body == SubSeq(in, h + 1, e)
           bytes == IF body # <<>> \/ h = 0 THEN body ELSE <<in[h]>>
           rest == SubSeq(port, e + 1, Len(port))
<1>1. in \in Seq(Byte) /\ Len(in) = arrived /\ arrived \in Nat /\ Len(port) \in Nat
  BY LenProperties
<1>2. h \in 0 .. arrived
  <2> HIDE DEF in
  <2>1. headers \in SUBSET (0 .. arrived)
    BY <1>1
  <2> HIDE DEF headers
  <2> QED BY <1>1, <2>1, LeastOrLast
<1>3. e \in 0 .. arrived
  <2> HIDE DEF in, h
  <2>1. ends \in SUBSET (0 .. arrived)
    BY <1>1, <1>2
  <2> HIDE DEF ends
  <2> QED BY <1>1, <2>1, LeastOrLast
<1>4. bytes \in Seq(Byte)
  <2> HIDE DEF in, h, e
  <2>1. body \in Seq(Byte)
    BY <1>1, <1>2, <1>3
  <2>2. h # 0 => in[h] \in Byte
    BY <1>1, <1>2
  <2> QED BY <2>1, <2>2
<1>5. rest \in Seq(Byte) /\ Len(rest) <= Len(port)
  <2> HIDE DEF e
  <2> QED BY <1>1, <1>3
<1>6. listenMsg(port, arrived).msg = Filled(bytes) /\ listenMsg(port, arrived).rest = rest
  BY DEF listenMsg
<1> HIDE DEF bytes, rest
<1> QED BY <1>4, <1>5, <1>6, MessagesAreBytes

\* Bytes without a header among them are a timeout, and what they leave in the
\* buffer has the type of an ACK.
LEMMA NoiseIsTimeout ==
  ASSUME NEW port \in Seq(Byte), NEW arrived \in 0 .. Len(port),
         HEADER \notin ToSet(SubSeq(port, 1, arrived))
  PROVE  /\ listenMsg(port, arrived).code = "timeout"
         /\ Type(listenMsg(port, arrived).msg) = ACK
<1> DEFINE in == SubSeq(port, 1, arrived)
           bytes == IF arrived = 0 THEN <<>> ELSE <<in[arrived]>>
<1>1. in \in Seq(Byte) /\ Len(in) = arrived /\ arrived \in Nat /\ MessageSize \in Nat /\ MessageSize > 3
  BY LenProperties, MessageAssumption
<1> DEFINE headers == {i \in 1 .. arrived : in[i] = HEADER}
           h == IF headers = {} THEN arrived ELSE Min(headers)
           ends == {i \in h + 1 .. arrived : in[i] = FOOTER \/ i = h + MessageSize}
           e == IF ends = {} THEN arrived ELSE Min(ends)
           body == SubSeq(in, h + 1, e)
<1>2. headers = {} /\ h = arrived
  <2> HIDE DEF in
  <2>1. \A i \in 1 .. arrived : in[i] \in ToSet(in)
    BY <1>1 DEF ToSet
  <2> QED BY <2>1 DEF in
<1>3. ends = {} /\ e = arrived
  <2> HIDE DEF in, h
  <2> QED BY <1>1, <1>2
<1>4. body = <<>> /\ Len(body) # MessageSize
  <2> HIDE DEF h, e, in
  <2> QED BY <1>1, <1>2, <1>3
<1>5. listenMsg(port, arrived).code = "timeout"
  <2>1. listenMsg(port, arrived).code =
          IF Len(body) = MessageSize /\ Last(body) = FOOTER THEN "received"
          ELSE IF Len(body) = MessageSize THEN "outofbound"
          ELSE IF ends = {} THEN "timeout" ELSE "noformat"
    BY DEF listenMsg
  <2> HIDE DEF body, ends
  <2> QED BY <1>3, <1>4, <2>1
<1>6. listenMsg(port, arrived).msg = Filled(bytes)
  <2>1. listenMsg(port, arrived).msg = Filled(IF body # <<>> \/ h = 0 THEN body ELSE <<in[h]>>)
    BY DEF listenMsg
  <2> HIDE DEF body, h, in
  <2> QED BY <1>2, <1>4, <2>1
<1>7. Len(bytes) <= 1 /\ Len(bytes) \in Nat
  OBVIOUS
<1> HIDE DEF bytes
<1>8. Filled(bytes)[2] = 0
  BY <1>1, <1>7 DEF Filled
<1> QED BY <1>5, <1>6, <1>8 DEF Type, ACK

-----------------------------------------------------------------------------
(* The gateway. *)

LEMMA BytesMayBeSet ==
  ASSUME NEW msg \in Messages, NEW x \in Byte, NEW y \in Byte, NEW z \in Byte
  PROVE  /\ [msg EXCEPT ![1] = x, ![2] = y, ![3] = z] \in Messages
         /\ [msg EXCEPT ![2] = y] \in Messages
<1>1. msg \in [1 .. MessageSize -> Byte]
  BY DEF Messages
<1> DEFINE three == [msg EXCEPT ![1] = x, ![2] = y, ![3] = z]
           one == [msg EXCEPT ![2] = y]
<1>2. DOMAIN three = 1 .. MessageSize /\ DOMAIN one = 1 .. MessageSize
  BY <1>1
<1>3. \A i \in 1 .. MessageSize :
        three[i] = IF i = 3 THEN z ELSE IF i = 2 THEN y ELSE IF i = 1 THEN x ELSE msg[i]
  BY <1>1
<1>4. \A i \in 1 .. MessageSize : one[i] = IF i = 2 THEN y ELSE msg[i]
  BY <1>1
<1>5. three = [i \in 1 .. MessageSize |-> three[i]] /\ one = [i \in 1 .. MessageSize |-> one[i]]
  BY <1>1
<1> HIDE DEF three, one
<1>6. \A i \in 1 .. MessageSize : three[i] \in Byte /\ one[i] \in Byte
  BY <1>1, <1>3, <1>4
<1>7. three \in Messages /\ one \in Messages
  BY <1>5, <1>6 DEF Messages
<1> QED BY <1>7 DEF three, one

\* What scanNet and pollRecords put in the static request is a message, and so
\* are the requests of a turn a string of bytes.
LEMMA RequestsAreBytes ==
  ASSUME IInv, request \in Messages
  PROVE  Asked \in Messages /\ Requests \in Seq(Byte)
<1>1. getFreeAddress \in Byte /\ getAddress \in Byte
  <2> DEFINE S == {i \in Cells : table[i] # 0}
  <2>1. ASSUME NEW i \in Cells PROVE table[i] \in Byte
    <3>1. table[i] \in Addresses \cup {0}
      BY DEF IInv, TypeOK
    <3>2. Addresses \cup {0} \subseteq Byte
      BY AddressAssumption DEF Byte
    <3> QED BY <3>1, <3>2
  <2>2. idx \in Cells
    BY TableAssumption DEF IInv, TypeOK, Cells
  <2>3. CASE S = {}
    BY <2>1, <2>2, <2>3 DEF getFreeAddress, getAddress, NO_FREE, Byte
  <2>4. CASE S # {}
    <3>1. PICK i \in S : \A j \in S : i <= j
      BY <2>4, CellsAreNaturals, LeastElement
    <3>2. \A j \in 0 .. i - 1 : j \in Cells /\ ~ (i <= j)
      BY TableAssumption DEF Cells
    <3>3. i \in Cells /\ table[i] # 0 /\ \A j \in 0 .. i - 1 : table[j] = 0
      BY <3>1, <3>2
    <3> HIDE DEF S
    <3> QED BY <2>1, <2>2, <3>3 DEF getFreeAddress, getAddress
  <2> QED BY <2>3, <2>4
<1>2. scanNet(request) \in Messages
  <2>1. BROADCAST_ADDRESS \in Byte /\ PUT_ADDRESS \in Byte
    BY DEF BROADCAST_ADDRESS, PUT_ADDRESS, Byte
  <2> QED BY <1>1, <2>1, BytesMayBeSet DEF scanNet
<1>3. RecordRequest \in Messages
  <2>1. GET_RECORD \in Byte /\ 0 \in Byte
    BY DEF GET_RECORD, Byte
  <2> QED BY <1>1, <1>2, <2>1, BytesMayBeSet DEF RecordRequest
<1>4. Asked \in Messages
  BY <1>2, <1>3 DEF Asked
<1>5. scanNet(request) \in Seq(Byte) /\ RecordRequest \in Seq(Byte) /\ <<>> \in Seq(Byte)
  BY <1>2, <1>3, MessagesAreBytes
<1> QED BY <1>4, <1>5, ConcatProperties DEF Requests

\* The inductive invariant of the gateway.
GInv == GTypeOK /\ IInv /\ AckedIsKnown /\ HangsOnlyOnFrames

LEMMA InitGInv == GInit => GInv
<1> SUFFICES ASSUME GInit PROVE GInv
  OBVIOUS
<1>1. IInv
  BY InitIInv DEF GInit
<1>2. Zeroes \in [1 .. MessageSize -> 0 .. 255]
  BY DEF Zeroes
<1>3. <<>> \in Seq(0 .. 255) /\ Len(<<>>) = 0
  OBVIOUS
<1>4. EmptyStream \in [hd : 0 .. RingSize - 1, tl : 0 .. RingSize - 1, error : BOOLEAN]
  BY MessageAssumption DEF EmptyStream
<1>5. {hung, heard} \subseteq BOOLEAN
  BY DEF GInit
<1>6. GTypeOK
  <2>1. None \in -1 .. 255 /\ MaxPort >= 0
    BY MessageAssumption DEF None
  <2>2. /\ masterPort \in Seq(0 .. 255) /\ slavePort \in Seq(0 .. 255)
        /\ Len(masterPort) <= MaxPort /\ Len(slavePort) <= MaxPort
    BY <1>3, <2>1 DEF GInit
  <2> QED BY <1>2, <1>4, <1>5, <2>1, <2>2 DEF GInit, GTypeOK
<1> QED BY <1>1, <1>6 DEF GInv, GInit, AckedIsKnown, HangsOnlyOnFrames

\* What a turn of the master sends, with or without an acknowledgement at the
\* end, is bytes; the two variants of the turn's end keep the types.
LEMMA AnswerIsTyped ==
  ASSUME GTypeOK, IInv, NEW a \in Byte, SendAck(a) \/ NoAck
  PROVE  /\ request' \in Messages /\ acked' \in {None, a}
         /\ slavePort' \in Seq(Byte) /\ Len(slavePort') <= MaxPort
<1>1. request \in Messages /\ slavePort \in Seq(Byte)
  BY DEF GTypeOK, Messages, Byte
<1>2. Asked \in Messages /\ Requests \in Seq(Byte)
  BY <1>1, RequestsAreBytes
<1>3. [Asked EXCEPT ![2] = ACK] \in Messages
  <2>1. ACK \in Byte
    BY DEF ACK, Byte
  <2> QED BY <1>2, <2>1, BytesMayBeSet
<1>4. CASE SendAck(a)
  <2>1. request' \in Messages
    BY <1>3, <1>4 DEF SendAck
  <2>2. Requests \o request' \in Seq(Byte)
    BY <1>2, <2>1, MessagesAreBytes, ConcatProperties
  <2> QED BY <1>1, <1>4, <2>1, <2>2, ReceivedIsPort DEF SendAck
<1>5. CASE NoAck
  BY <1>1, <1>2, <1>5, ReceivedIsPort DEF NoAck
<1> QED BY <1>4, <1>5

\* The book after a turn: it is as it was, or one accepted registration longer;
\* whoever is acknowledged is in it.
LEMMA PollKeepsBook ==
  ASSUME Addresses = Byte, GInv, NEW a \in Byte,
         \/ UNCHANGED vars /\ contains(a)
         \/ UNCHANGED vars /\ acked' = None
         \/ addAddress(a)
         \/ addAddressRefuses(a) /\ acked' = None,
         acked' \in {None, a}
  PROVE  IInv' /\ AckedIsKnown'
<1> DEFINE Found == \E probe \in Cells :
                      /\ table[Cell(a, probe)] = a
                      /\ \A q \in 0 .. probe - 1 : table[Cell(a, q)] # 0
<1>1. IInv
  BY DEF GInv
<1>2. IInv'
  BY <1>1, NextIInv DEF Next, addAddressRefuses
<1>3. CASE UNCHANGED vars /\ contains(a)
  <2>1. Found'
    BY <1>3 DEF contains, vars
  <2> QED BY <1>2, <2>1 DEF AckedIsKnown, contains
<1>4. CASE acked' = None
  BY <1>2, <1>4 DEF AckedIsKnown
<1>5. CASE addAddress(a)
  <2>1. PICK p \in Cells : StoresAt(a, p)
    BY <1>5 DEF addAddress
  <2>2. a # 0
    BY <1>1, <1>5, <2>1, StoresInEmptyCell DEF addAddress
  <2>3. a \in registered'
    BY <1>5 DEF addAddress
  <2>4. LookupExact'
    BY <1>2, FoundIfRegistered, PTL
  <2>5. Found'
    BY <2>2, <2>3, <2>4 DEF LookupExact, BROADCAST_ADDRESS, contains
  <2> QED BY <1>2, <2>5 DEF AckedIsKnown, contains
<1> QED BY <1>2, <1>3, <1>4, <1>5

LEMMA PollKeepsGInv ==
  ASSUME Addresses = Byte, GInv, NEW arrived \in 0 .. MaxPort, pollRecords(arrived)
  PROVE  GInv'
<1> DEFINE heardNow == listenMsg(masterPort, arrived)
<1>1. /\ arrived \in 0 .. Len(masterPort) /\ masterPort \in Seq(Byte)
      /\ Len(masterPort) <= MaxPort /\ Len(masterPort) \in Nat /\ MaxPort \in Nat
  BY LenProperties, MessageAssumption DEF pollRecords, GInv, GTypeOK, Byte
<1>2. /\ heardNow.msg \in Messages
      /\ heardNow.rest \in Seq(Byte) /\ Len(heardNow.rest) <= Len(masterPort)
  BY <1>1, ListenedIsMessage
<1>3. masterPort' = heardNow.rest /\ UNCHANGED <<response, hung, heard, ring>>
  BY DEF pollRecords
<1>4. /\ masterPort' \in Seq(Byte) /\ Len(masterPort') <= MaxPort
  <2>1. Len(heardNow.rest) \in Nat
    BY <1>2, LenProperties
  <2> HIDE DEF heardNow
  <2> QED BY <1>1, <1>2, <1>3, <2>1
<1> DEFINE a == Addr(heardNow.msg)
<1>5. PICK who \in Byte : who = Addr(heardNow.msg)
  BY <1>2, MessagesAreBytes DEF Addr
<1>6. \/ handleGetRecord(heardNow.msg)
      \/ handlePutAddress(heardNow.msg)
      \/ UNCHANGED <<vars, stored>> /\ NoAck
  BY DEF pollRecords
<1>7. /\ \/ UNCHANGED vars /\ contains(who) /\ SendAck(who)
         \/ UNCHANGED vars /\ NoAck
         \/ addAddress(who) /\ SendAck(who)
         \/ addAddressRefuses(who) /\ NoAck
      /\ stored' = stored \/ stored' = Asked[3]
  <2> HIDE DEF heardNow
  <2> QED BY <1>5, <1>6 DEF handleGetRecord, handlePutAddress
<1>8. /\ request' \in Messages /\ acked' \in {None, who}
      /\ slavePort' \in Seq(Byte) /\ Len(slavePort') <= MaxPort
  BY <1>7, AnswerIsTyped DEF GInv
<1>9. IInv' /\ AckedIsKnown'
  BY <1>7, <1>8, PollKeepsBook DEF NoAck, SendAck
<1>10. stored' \in -1 .. 255
  <2>1. Asked \in Messages
    BY RequestsAreBytes DEF GInv, GTypeOK, Messages, Byte
  <2>2. Asked[3] \in Byte
    BY <2>1, MessagesAreBytes
  <2>3. stored \in -1 .. 255
    BY DEF GInv, GTypeOK
  <2>4. Asked[3] \in -1 .. 255
    BY <2>2 DEF Byte
  <2> HIDE DEF heardNow
  <2> QED BY <1>7, <2>3, <2>4
<1>11. GTypeOK'
  <2>1. acked' \in -1 .. 255
    BY <1>8 DEF Byte, None
  <2> QED BY <1>3, <1>4, <1>8, <1>10, <2>1 DEF GInv, GTypeOK, Messages, Byte
<1>12. HangsOnlyOnFrames'
  BY <1>3 DEF GInv, HangsOnlyOnFrames
<1> QED BY <1>9, <1>11, <1>12 DEF GInv

\* The session keeps the types and may end in the loop without an exit, unless
\* what it is given is an ACK.
LEMMA SessionIsTyped ==
  ASSUME GTypeOK, NEW req \in Messages, Session(req)
  PROVE  /\ masterPort' \in Seq(Byte) /\ Len(masterPort') <= MaxPort
         /\ response' \in Messages
         /\ ring' \in [hd : 0 .. RingSize - 1, tl : 0 .. RingSize - 1, error : BOOLEAN]
         /\ hung' \in {hung, TRUE} /\ (Type(req) = ACK => hung' = hung)
<1>1. /\ masterPort \in Seq(Byte) /\ Len(masterPort) <= MaxPort /\ response \in Messages
      /\ ring \in [hd : 0 .. RingSize - 1, tl : 0 .. RingSize - 1, error : BOOLEAN]
  BY DEF GTypeOK, Messages, Byte
<1>2. CASE Type(req) = ACK
  BY <1>1, <1>2 DEF Session, ACK, GET_RECORD
<1>3. CASE Type(req) = GET_RECORD
  <2>1. /\ response' = [response EXCEPT ![1] = Own, ![2] = GET_RECORD, ![3] = OK]
        /\ masterPort' = Received(masterPort, response' \o response')
        /\ ring' = [ring EXCEPT !.hd = ring.tl]
        /\ UNCHANGED hung
    BY <1>3 DEF Session, ACK, GET_RECORD
  <2>2. response' \in Messages
    <3>1. Own \in Byte /\ GET_RECORD \in Byte /\ OK \in Byte
      BY DEF Own, NO_ADDRESS, GET_RECORD, OK, Byte
    <3> QED BY <1>1, <2>1, <3>1, BytesMayBeSet
  <2>3. response' \o response' \in Seq(Byte)
    BY <2>2, MessagesAreBytes, ConcatProperties
  <2>4. masterPort' \in Seq(Byte) /\ Len(masterPort') <= MaxPort
    BY <1>1, <2>1, <2>3, ReceivedIsPort
  <2>5. ring' \in [hd : 0 .. RingSize - 1, tl : 0 .. RingSize - 1, error : BOOLEAN]
    BY <1>1, <2>1
  <2> QED BY <2>1, <2>2, <2>4, <2>5
<1>4. CASE Type(req) \notin {ACK, GET_RECORD}
  BY <1>1, <1>4 DEF Session
<1> QED BY <1>2, <1>3, <1>4

LEMMA ListenKeepsGInv ==
  ASSUME GInv, NEW arrived \in 0 .. MaxPort, listen(arrived)
  PROVE  GInv'
<1> DEFINE said == listenMsg(slavePort, arrived)
<1>1. /\ arrived \in 0 .. Len(slavePort) /\ slavePort \in Seq(Byte)
      /\ Len(slavePort) <= MaxPort /\ Len(slavePort) \in Nat /\ MaxPort \in Nat
  BY LenProperties, MessageAssumption DEF listen, GInv, GTypeOK, Byte
<1>2. said.msg \in Messages /\ said.rest \in Seq(Byte) /\ Len(said.rest) <= Len(slavePort)
  BY <1>1, ListenedIsMessage
<1>3. /\ ~ hung /\ slavePort' = said.rest
      /\ heard' = (HEADER \in ToSet(SubSeq(slavePort, 1, arrived)))
      /\ UNCHANGED <<vars, request, stored, acked>>
  BY DEF listen
<1>4. \/ UNCHANGED <<response, masterPort, ring, hung>>
      \/ Session(said.msg)
  BY DEF listen
<1>5. slavePort' \in Seq(Byte) /\ Len(slavePort') <= MaxPort
  <2>1. Len(said.rest) \in Nat
    BY <1>2, LenProperties
  <2> HIDE DEF said
  <2> QED BY <1>1, <1>2, <1>3, <2>1
<1>6. /\ masterPort' \in Seq(Byte) /\ Len(masterPort') <= MaxPort
      /\ response' \in Messages
      /\ ring' \in [hd : 0 .. RingSize - 1, tl : 0 .. RingSize - 1, error : BOOLEAN]
      /\ hung' \in BOOLEAN
      /\ hung' # hung => Session(said.msg) /\ Type(said.msg) # ACK
  <2> HIDE DEF said
  <2>1. CASE UNCHANGED <<response, masterPort, ring, hung>>
    BY <2>1 DEF GInv, GTypeOK, Messages, Byte
  <2>2. CASE Session(said.msg)
    <3> DEFINE RingOK == ring \in [hd : 0 .. RingSize - 1, tl : 0 .. RingSize - 1, error : BOOLEAN]
    <3>1. /\ masterPort' \in Seq(Byte) /\ Len(masterPort') <= MaxPort
          /\ response' \in Messages
          /\ RingOK'
          /\ hung' \in {hung, TRUE} /\ (Type(said.msg) = ACK => hung' = hung)
      BY <1>2, <2>2, SessionIsTyped DEF GInv
    <3>2. hung \in BOOLEAN
      BY DEF GInv, GTypeOK
    <3> HIDE DEF RingOK
    <3>3. hung' \in BOOLEAN /\ (hung' # hung => Type(said.msg) # ACK)
      BY <3>1, <3>2
    <3> QED BY <2>2, <3>1, <3>3 DEF RingOK
  <2> QED BY <1>4, <2>1, <2>2
<1>7. GTypeOK'
  BY <1>3, <1>5, <1>6 DEF GInv, GTypeOK, Messages, Byte
<1>8. HangsOnlyOnFrames'
  <2> SUFFICES ASSUME hung', HEADER \notin ToSet(SubSeq(slavePort, 1, arrived)) PROVE FALSE
    BY <1>3 DEF HangsOnlyOnFrames
  <2>1. Type(said.msg) = ACK
    BY <1>1, NoiseIsTimeout
  <2> HIDE DEF said
  <2> QED BY <1>3, <1>6, <2>1
<1>9. IInv'
  BY <1>3, NextIInv DEF GInv
<1>10. AckedIsKnown'
  BY <1>3 DEF GInv, AckedIsKnown, contains, vars
<1> QED BY <1>7, <1>8, <1>9, <1>10 DEF GInv

LEMMA NextGInv ==
  ASSUME Addresses = 0 .. 255, GInv, [GNext]_<<vars, gwVars>>
  PROVE  GInv'
<1>1. ASSUME NEW arrived \in 0 .. MaxPort, pollRecords(arrived) PROVE GInv'
  BY <1>1, PollKeepsGInv DEF Byte
<1>2. ASSUME NEW arrived \in 0 .. MaxPort, listen(arrived) PROVE GInv'
  BY <1>2, ListenKeepsGInv
<1>3. ASSUME UNCHANGED <<vars, request, response, stored, acked, hung, heard, ring>>,
             masterPort' \in Seq(Byte) /\ Len(masterPort') <= MaxPort,
             slavePort' \in Seq(Byte) /\ Len(slavePort') <= MaxPort
      PROVE  GInv'
  <2>1. IInv'
    BY <1>3, NextIInv DEF GInv
  <2>2. GTypeOK'
    BY <1>3 DEF GInv, GTypeOK, Byte
  <2>3. AckedIsKnown' /\ HangsOnlyOnFrames'
    BY <1>3 DEF GInv, AckedIsKnown, HangsOnlyOnFrames, contains, vars
  <2> QED BY <2>1, <2>2, <2>3 DEF GInv
<1>4. /\ masterPort \in Seq(Byte) /\ Len(masterPort) <= MaxPort
      /\ slavePort \in Seq(Byte) /\ Len(slavePort) <= MaxPort
  BY DEF GInv, GTypeOK, Byte
<1>5. CASE StoreRecord
  BY <1>3, <1>4, <1>5 DEF StoreRecord
<1>6. ASSUME NEW bytes \in Strays, Disturb(bytes) PROVE GInv'
  <2>1. bytes \in Seq(Byte)
    BY MessageAssumption DEF Byte
  <2> QED BY <1>3, <1>4, <1>6, <2>1, ReceivedIsPort DEF Disturb
<1>7. CASE UNCHANGED <<vars, gwVars>>
  BY <1>3, <1>4, <1>7 DEF gwVars
<1> QED BY <1>1, <1>2, <1>5, <1>6, <1>7 DEF GNext

\* The invariant of the composition: the types, the table's own invariant, and
\* the two properties below.
THEOREM GatewayInvariant == Addresses = 0 .. 255 /\ GSpec => []GInv
<1>1. GInit => GInv
  BY InitGInv
<1>2. Addresses = 0 .. 255 /\ GInv /\ [GNext]_<<vars, gwVars>> => GInv'
  BY NextGInv
<1> SUFFICES ASSUME Addresses = 0 .. 255 PROVE GSpec => []GInv
  OBVIOUS
<1>3. GInv /\ [GNext]_<<vars, gwVars>> => GInv'
  BY <1>2
<1> QED BY <1>1, <1>3, PTL DEF GSpec

\* The master thanks only slaves that contains() finds, whatever noise looks
\* like a response.
THEOREM AckedIsInTheBook == Addresses = 0 .. 255 /\ GSpec => []AckedIsKnown
<1> GInv => AckedIsKnown
  BY DEF GInv
<1> QED BY GatewayInvariant, PTL

\* The slave's session loop is entered without an end only after a header.
THEOREM NoiseDoesNotHang == Addresses = 0 .. 255 /\ GSpec => []HangsOnlyOnFrames
<1> GInv => HangsOnlyOnFrames
  BY DEF GInv
<1> QED BY GatewayInvariant, PTL

LEMMA GatewayStepIsTableStep ==
  ASSUME Addresses = 0 .. 255, GInv, [GNext]_<<vars, gwVars>>
  PROVE  [Next]_vars
<1>1. ASSUME NEW arrived \in 0 .. MaxPort, pollRecords(arrived) PROVE [Next]_vars
  <2> DEFINE res == listenMsg(masterPort, arrived).msg
  <2>1. /\ arrived \in 0 .. Len(masterPort) /\ masterPort \in Seq(Byte)
    BY <1>1, LenProperties, MessageAssumption DEF pollRecords, GInv, GTypeOK, Byte
  <2>2. Addr(res) \in Addresses
    BY <2>1, ListenedIsMessage, MessagesAreBytes DEF Addr, Byte
  <2>3. handleGetRecord(res) \/ handlePutAddress(res) \/ UNCHANGED vars
    BY <1>1 DEF pollRecords
  <2> HIDE DEF res
  <2> QED BY <2>2, <2>3 DEF handleGetRecord, handlePutAddress, Next
<1>2. ASSUME NEW arrived \in 0 .. MaxPort, listen(arrived) PROVE UNCHANGED vars
  BY <1>2 DEF listen
<1>3. CASE StoreRecord
  BY <1>3 DEF StoreRecord
<1>4. ASSUME NEW bytes \in Strays, Disturb(bytes) PROVE UNCHANGED vars
  BY <1>4 DEF Disturb
<1> QED BY <1>1, <1>2, <1>3, <1>4 DEF GNext

\* Whatever comes over the bus, the gateway uses the book as NetManager promises:
\* every theorem about the table alone holds of the gateway too.
THEOREM GatewayImplementsTable == Addresses = 0 .. 255 /\ GSpec => Spec
<1> SUFFICES ASSUME Addresses = 0 .. 255 PROVE GSpec => Spec
  OBVIOUS
<1>1. GInit => Init
  BY DEF GInit
<1>2. GInv /\ [GNext]_<<vars, gwVars>> => [Next]_vars
  BY GatewayStepIsTableStep
<1> QED BY <1>1, <1>2, GatewayInvariant, PTL DEF GSpec, Spec
===============================================================================
