------------------------------ MODULE NetManager ------------------------------
(***************************************************************************)
(* The master's book of slave addresses (Modules/Net/NetManager.cpp): an   *)
(* open-addressing hash table of MAX_ADDRESSES bytes with linear probing,  *)
(* where the byte 0 (BROADCAST_ADDRESS) marks an empty cell.  The object   *)
(* lives on the master only and its methods are called from the main loop  *)
(* (NGClient::pollRecords), so every method is one step.                   *)
(*                                                                         *)
(* Only addAddress changes the object; the other methods are queries and   *)
(* are operators of the current state.  registered is a history variable:  *)
(* the addresses for which addAddress has answered true.                   *)
(***************************************************************************)
EXTENDS Integers, FiniteSets

CONSTANTS
  MAX_ADDRESSES,  \* cells of the table (16 in the build)
  Addresses       \* the bytes a response may carry as its addr field

ASSUME TableAssumption == MAX_ADDRESSES \in 1..255
ASSUME AddressAssumption == Addresses \subseteq 0..255

VARIABLES
  table,           \* table[MAX_ADDRESSES]
  free_addresses,  \* what availableAddresses() returns
  idx,             \* the cell getAddress() reads
  registered       \* history: addresses accepted so far

vars == <<table, free_addresses, idx, registered>>

BROADCAST_ADDRESS == 0
NO_FREE == 255            \* uint8_t(-1)
Cells == 0 .. MAX_ADDRESSES - 1

\* The cell the probe sequence of an address visits after so many collisions.
Cell(address, probe) == (address + probe) % MAX_ADDRESSES

Init ==
  /\ table = [h \in Cells |-> 0]
  /\ free_addresses = MAX_ADDRESSES
  /\ idx = 0
  /\ registered = {}

-----------------------------------------------------------------------------
(* The queries. *)

\* Mistake: no probing after a collision.
containsNoProbe(address) == table[Cell(address, 0)] = address

contains(address) ==
  \E probe \in Cells :
    /\ table[Cell(address, probe)] = address
    /\ \A q \in 0 .. probe - 1 : table[Cell(address, q)] # 0

\* Whatever non-empty cell comes first: the address of a slave in use.
getFreeAddress ==
  IF \A i \in Cells : table[i] = 0
    THEN NO_FREE
    ELSE table[CHOOSE i \in Cells : table[i] # 0 /\ \A j \in 0 .. i - 1 : table[j] = 0]

\* True when a slave is known besides the current one; idx does not move.
nextAddress == \E i \in Cells \ {idx} : table[i] # 0

getAddress == table[idx]

-----------------------------------------------------------------------------
(* addAddress. *)

\* Mistake: an address that is there already is not looked for.
StoresAtTwice(address, probe) ==
  /\ \A q \in 0 .. probe - 1 : table[Cell(address, q)] # 0
  /\ table[Cell(address, probe)] = 0

\* The do-while stops at the address itself, at an empty cell, or, when it has
\* seen neither, at the last cell it probed.
StoresAt(address, probe) ==
  /\ \A q \in 0 .. probe : table[Cell(address, q)] # address
  /\ \A q \in 0 .. probe - 1 : table[Cell(address, q)] # 0
  /\ table[Cell(address, probe)] = 0 \/ probe = MAX_ADDRESSES - 1

addAddressSucceeds(address) ==
  /\ free_addresses # 0
  /\ \E probe \in Cells : StoresAt(address, probe)

\* Mistake: a full table is not refused.
addAddressUnguarded(address) ==
  /\ \E probe \in Cells :
       /\ StoresAt(address, probe)
       /\ table' = [table EXCEPT ![Cell(address, probe)] = address]
  /\ free_addresses' = free_addresses - 1
  /\ registered' = registered \cup {address}
  /\ UNCHANGED idx

addAddress(address) ==
  /\ free_addresses # 0
  /\ \E probe \in Cells :
       /\ StoresAt(address, probe)
       /\ table' = [table EXCEPT ![Cell(address, probe)] = address]
  /\ free_addresses' = free_addresses - 1
  /\ registered' = registered \cup {address}
  /\ UNCHANGED idx

\* The two early ends: the table is full, or the address lies on its own probe
\* sequence already (as the broadcast address does wherever a cell is empty).
addAddressRefuses(address) ==
  /\ ~ addAddressSucceeds(address)
  /\ UNCHANGED vars

Next == \E address \in Addresses : addAddress(address) \/ addAddressRefuses(address)

Spec == Init /\ [][Next]_vars

-----------------------------------------------------------------------------
(* Properties. *)

\* The values the object's bytes may hold.
TypeOK ==
  /\ table \in [Cells -> Addresses \cup {0}]
  /\ free_addresses \in 0 .. MAX_ADDRESSES
  /\ idx = 0
  /\ registered \subseteq Addresses \ {0}

\* contains() finds an address exactly when addAddress() has accepted it: no
\* probe sequence is cut short by a cell that a later insertion left empty, and
\* no registration overwrites another.
LookupExact ==
  \A address \in Addresses \ {BROADCAST_ADDRESS} :
    contains(address) <=> address \in registered

\* free_addresses counts the empty cells, so the guard of addAddress is exact
\* and the uint8_t never wraps below zero.
EmptyCells == {h \in Cells : table[h] = 0}
FreeCountExact == free_addresses = Cardinality(EmptyCells)

\* A slave is kept in one cell only: polling never serves one twice.
NoDuplicate ==
  \A h, k \in Cells : table[h] # 0 /\ table[h] = table[k] => h = k

\* addAddress() refuses an address only when it is the broadcast address, is
\* registered already, or the table is full (the test NetManagerTests.when fills
\* the table with one run of addresses; this says it of every set of them).
RefusesOnlyKnownOrFull ==
  \A address \in Addresses :
    addAddressSucceeds(address)
      <=> /\ address # BROADCAST_ADDRESS
          /\ address \notin registered
          /\ Cardinality(registered) < MAX_ADDRESSES

\* An accepted address stays findable and stays in its cell for ever.
CellsNeverOverwritten ==
  [][\A h \in Cells : table[h] # 0 => table'[h] = table[h]]_vars

\* What the probing leaves behind: an address lies on its own probe sequence
\* with no empty cell before it.
ProbingInv ==
  \A h \in Cells : table[h] # 0 =>
    \E probe \in Cells :
      /\ h = Cell(table[h], probe)
      /\ \A q \in 0 .. probe - 1 : table[Cell(table[h], q)] # 0

\* The set of accepted addresses is the set of non-empty bytes.
RegisteredInv == registered = {table[h] : h \in {k \in Cells : table[k] # 0}}

\* The inductive invariant of NetGatewayProofs.
IInv ==
  /\ TypeOK
  /\ FreeCountExact
  /\ NoDuplicate
  /\ ProbingInv
  /\ RegisteredInv
===============================================================================
