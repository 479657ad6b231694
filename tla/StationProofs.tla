---------------------------- MODULE StationProofs ----------------------------
(***************************************************************************)
(* For every set of cards, every size of packet and list, every name and   *)
(* every number of losses of power: the station types its state, hands the *)
(* one File object around without a leak, sends no more than the file      *)
(* holds, and never loses a line that is durable on the SD card.           *)
(*                                                                         *)
(* None of these is inductive alone.  That a line stays needs that an      *)
(* upload never ends well (file_length + LIST_LENGTH is never 0, so the    *)
(* loop is left only by a failure), that a writer holds the handle of a    *)
(* file that exists, and that the two routines of loop() never run at the  *)
(* same time.  IInv collects it.                                           *)
(***************************************************************************)
EXTENDS Station, StoreClient, FiniteSetTheorems, CommonTheorems

-----------------------------------------------------------------------------
(* Names and lines. *)

\* What SD reads of a name is a string: it has a length and no NUL in it.
LEMMA VisibleIsName ==
  ASSUME NEW name \in FileNames
  PROVE  IsVisibleName(Visible(name))
<1> DEFINE Shown == {i \in Positions : \A j \in 0 .. i : name[j] # 0}
           Nuls == {i \in Positions : name[i] = 0}
<1>1. UID_LAST \in Nat /\ Positions = 0 .. UID_LAST
  BY UidAssumption DEF Positions
<1>2. \E n \in 0 .. UID_LAST + 1 : Shown = 0 .. n - 1
  <2>1. CASE Nuls = {}
    <3>1. Shown = Positions
      BY <2>1, <1>1
    <3>2. UID_LAST + 1 \in 0 .. UID_LAST + 1 /\ UID_LAST = (UID_LAST + 1) - 1
      BY <1>1
    <3> QED BY <1>1, <3>1, <3>2
  <2>2. CASE Nuls # {}
    <3>5. Nuls \in SUBSET Nat
      BY <1>1
    <3>1. PICK n \in Nuls : \A m \in Nuls : n <= m
      <4> HIDE DEF Nuls
      <4> QED BY <2>2, <3>5, LeastElement
    <3>2. ASSUME NEW i \in Positions PROVE i \in Shown <=> i < n
      <4>1. i \in Shown => ~ (n <= i)
        BY <1>1, <3>1
      <4>2. i < n => \A j \in 0 .. i : j \notin Nuls /\ j \in Positions
        BY <1>1, <3>1
      <4> QED BY <1>1, <3>1, <4>1, <4>2
    <3>3. Shown = 0 .. n - 1
      BY <1>1, <3>1, <3>2
    <3> QED BY <1>1, <3>1, <3>3
  <2> QED BY <2>1, <2>2
<1>3. PICK n \in 0 .. UID_LAST + 1 : Shown = 0 .. n - 1
  BY <1>2
<1>4. \A i \in Shown : name[i] \in 1 .. 255
  BY <1>1 DEF FileNames, Byte
<1> HIDE DEF Shown
<1>5. Restrict(name, Shown) \in [0 .. n - 1 -> 1 .. 255]
  BY <1>3, <1>4 DEF Restrict
<1>6. Visible(name) = Restrict(name, Shown)
  BY DEF Visible, Shown
<1> QED BY <1>5, <1>6 DEF IsVisibleName

\* A sequence is a prefix of itself.
LEMMA PrefixOfItself ==
  ASSUME NEW s, Len(s) \in Nat
  PROVE  IsPrefix(s, s)
BY DEF IsPrefix

\* And of what it becomes when a line is added.
LEMMA PrefixOfAppended ==
  ASSUME NEW S, NEW s \in Seq(S), NEW e \in S
  PROVE  IsPrefix(s, Append(s, e))
<1>1. Append(s, e) \in Seq(S) /\ Len(Append(s, e)) = Len(s) + 1 /\ Len(s) \in Nat
  BY AppendProperties, LenProperties
<1>2. \A i \in 1 .. Len(s) : Append(s, e)[i] = s[i]
  BY AppendProperties
<1>3. SubSeq(s, 1, Len(s)) = s
  BY SubSeqFull
<1>4. \A i \in 1 .. Len(s) : s[i] \in S /\ Append(s, e)[i] \in S
  BY <1>1, <1>2, ElementOfSeq
<1>5. /\ SubSeq(Append(s, e), 1, Len(s)) \in Seq(S)
      /\ Len(SubSeq(Append(s, e), 1, Len(s))) = Len(s)
      /\ \A i \in 1 .. Len(s) : SubSeq(Append(s, e), 1, Len(s))[i] = s[i]
  <2>1. Len(s) \in Int /\ 1 \in Int /\ Len(s) - 1 + 1 = Len(s) /\ (1 <= Len(s) \/ Len(s) = 0)
    BY <1>1
  <2>2. /\ SubSeq(Append(s, e), 1, Len(s)) \in Seq(S)
        /\ Len(SubSeq(Append(s, e), 1, Len(s))) = IF 1 <= Len(s) THEN Len(s) - 1 + 1 ELSE 0
        /\ \A i \in 1 .. Len(s) - 1 + 1 : SubSeq(Append(s, e), 1, Len(s))[i] = Append(s, e)[1 + i - 1]
    BY <1>4, <2>1, SubSeqProperties
  <2>3. \A i \in 1 .. Len(s) : 1 + i - 1 = i
    BY <1>1
  <2> QED BY <1>1, <1>2, <2>1, <2>2, <2>3
<1>6. SubSeq(Append(s, e), 1, Len(s)) = s
  BY <1>5, SeqEqual
<1> QED BY <1>1, <1>3, <1>6 DEF IsPrefix

-----------------------------------------------------------------------------
(* The inductive invariant. *)

\* Only one of the two routines of loop() is under way.
OneRoutine ==
  /\ turn = "read" => dc_pc = "idle"
  /\ turn = "upload" => cr_pc = "idle"

\* The record about to be stored is that of a card.
CardToStore == cr_pc \in {"open", "write"} => mfr_serial \in Records

\* The packets begin at the start of the file, and never end well.
UploadInv ==
  /\ dc_pc = "session" => position = 0
  /\ dc_pc = "deprecate" => ~ result

IInv ==
  /\ TypeOK
  /\ OneRoutine
  /\ CardToStore
  /\ HandleReleased
  /\ UploadInv
  /\ dc_pc \in {"size", "data"} => position + file_length <= getSize

LEMMA InitIInv == Init => IInv
<1> SUFFICES ASSUME Init PROVE IInv
  OBVIOUS
<1> USE DEF Init, FPInit, CRInit, DCInit
<1>1. TypeOK
  <2>1. FPTypeOK
    BY PrefixAssumption DEF FPTypeOK
  <2>2. CRTypeOK /\ DCTypeOK
    BY DEF CRTypeOK, DCTypeOK
  <2>3. losses \in 0 .. MaxLosses
    BY LossAssumption
  <2> QED BY <2>1, <2>2, <2>3 DEF TypeOK
<1>2. OneRoutine /\ CardToStore /\ HandleReleased /\ UploadInv
  BY DEF OneRoutine, CardToStore, HandleReleased, UploadInv
<1> QED BY <1>1, <1>2 DEF IInv

-----------------------------------------------------------------------------
(* The operations of the store. *)

\* What a step does to the lines: none is lost, none is changed.
Kept ==
  \A name \in DOMAIN sd : name \in DOMAIN sd' /\ IsPrefix(sd[name], sd'[name])

LEMMA UnchangedKept ==
  ASSUME FPTypeOK, UNCHANGED sd
  PROVE  Kept
<1>1. \A name \in DOMAIN sd : Len(sd[name]) \in Nat
  BY LenProperties DEF FPTypeOK
<1> QED BY <1>1, PrefixOfItself DEF Kept

\* Opening a file for writing creates it, with no line yet.
LEMMA BeginTransaction ==
  ASSUME FPTypeOK, NEW mode \in {"read", "write"}, NEW success \in BOOLEAN,
         beginTransaction(mode, success)
  PROVE  /\ FPTypeOK' /\ Kept
         /\ file' = IF success THEN Opened(mode) ELSE Closed
         /\ Opened(mode)' = Opened(mode)
         /\ file_name' = file_name
<1>1. file_name' = file_name /\ file_name \in FileNames
  BY DEF beginTransaction, FPTypeOK
<1>2. IsVisibleName(Visible(file_name))
  BY <1>1, VisibleIsName
<1>3. (\A name \in DOMAIN sd' : IsVisibleName(name) /\ sd'[name] \in Seq(Lines)) /\ Kept
  <2>1. CASE UNCHANGED sd
    BY <2>1, UnchangedKept DEF FPTypeOK
  <2>2. CASE sd' = [name \in DOMAIN sd \cup {Visible(file_name)} |->
                      IF name \in DOMAIN sd THEN sd[name] ELSE <<>>]
    <3>1. DOMAIN sd' = DOMAIN sd \cup {Visible(file_name)}
      BY <2>2
    <3>2. \A name \in DOMAIN sd' : IsVisibleName(name) /\ sd'[name] \in Seq(Lines)
      BY <2>2, <1>2, <3>1, EmptySeq DEF FPTypeOK
    <3>3. \A name \in DOMAIN sd : sd'[name] = sd[name] /\ Len(sd[name]) \in Nat
      BY <2>2, LenProperties DEF FPTypeOK
    <3>4. Kept
      BY <3>1, <3>3, PrefixOfItself DEF Kept
    <3> QED BY <3>2, <3>4
  <2> QED BY <2>1, <2>2 DEF beginTransaction
<1>4. file' = IF success THEN Opened(mode) ELSE Closed
  BY DEF beginTransaction
<1>5. file' = Closed \/ file' \in [mode : {"read", "write"}, name : DOMAIN sd']
  BY <1>4 DEF beginTransaction, Opened
<1>6. Opened(mode)' = Opened(mode)
  BY <1>1 DEF Opened, Visible
<1> QED BY <1>1, <1>3, <1>4, <1>5, <1>6 DEF FPTypeOK

\* A record adds a line to the file that is open for writing, or nothing.
LEMMA WriteRecord ==
  ASSUME FPTypeOK, NEW record \in Records, writeRecord(record)
  PROVE  FPTypeOK' /\ Kept /\ file' = Closed
<1>1. CASE UNCHANGED sd
  BY <1>1, UnchangedKept DEF writeRecord, FPTypeOK
<1>2. ASSUME NEW whole \in BOOLEAN, file.mode = "write",
             sd' = [sd EXCEPT ![file.name] = Append(@, [record |-> record, whole |-> whole])]
      PROVE  FPTypeOK' /\ Kept
  <2> DEFINE line == [record |-> record, whole |-> whole]
  <2>1. line \in Lines
    BY DEF Lines
  <2>2. file.name \in DOMAIN sd
    BY <1>2 DEF FPTypeOK, Closed
  <2> HIDE DEF line
  <2>3. /\ DOMAIN sd' = DOMAIN sd
        /\ \A name \in DOMAIN sd :
             sd'[name] = IF name = file.name THEN Append(sd[name], line) ELSE sd[name]
    BY <1>2, <2>2 DEF line
  <2>4. \A name \in DOMAIN sd : sd[name] \in Seq(Lines) /\ Len(sd[name]) \in Nat
    BY LenProperties DEF FPTypeOK
  <2>5. ASSUME NEW name \in DOMAIN sd
        PROVE  sd'[name] \in Seq(Lines) /\ IsPrefix(sd[name], sd'[name])
    <3>1. CASE name = file.name
      <4>1. sd'[name] = Append(sd[name], line) /\ sd[name] \in Seq(Lines)
        BY <3>1, <2>3, <2>4
      <4>2. IsPrefix(sd[name], Append(sd[name], line))
        BY <4>1, <2>1, PrefixOfAppended
      <4>3. Append(sd[name], line) \in Seq(Lines)
        BY <4>1, <2>1, AppendProperties
      <4> QED BY <4>1, <4>2, <4>3
    <3>2. CASE name # file.name
      BY <3>2, <2>3, <2>4, PrefixOfItself
    <3> QED BY <3>1, <3>2
  <2> QED BY <2>3, <2>5 DEF FPTypeOK, Kept, writeRecord
<1> QED BY <1>1, <1>2 DEF writeRecord

-----------------------------------------------------------------------------
(* The steps. *)

\* A step of the card reader.
LEMMA ReadStep ==
  ASSUME IInv, Read
  PROVE  IInv' /\ Kept
<1> USE DEF IInv, TypeOK
<1>1. dc_pc = "idle" /\ turn = "read" /\ UNCHANGED <<dcVars, losses>>
  BY DEF Read, OneRoutine
<1>2. DCTypeOK' /\ losses' \in 0 .. MaxLosses /\ dc_pc' = "idle"
  BY <1>1 DEF DCTypeOK, dcVars
<1>3. turn' = (IF cr_pc' = "idle" THEN "upload" ELSE "read") /\ OneRoutine'
  BY <1>1, <1>2 DEF Read, OneRoutine
<1>4. /\ FPTypeOK' /\ CRTypeOK' /\ Kept /\ CardToStore'
      /\ file' # Closed => cr_pc' = "write"
      /\ cr_pc' = "write" => file' = Opened("write")'
  <2>1. CASE NoCardInField
    <3>1. UNCHANGED <<crVars, fpVars>>
      BY <2>1 DEF NoCardInField
    <3>2. Kept
      BY <3>1, UnchangedKept DEF fpVars
    <3> QED BY <1>1, <2>1, <3>1, <3>2 DEF NoCardInField, crVars, fpVars, FPTypeOK, CRTypeOK,
                CardToStore, HandleReleased, Opened, Visible
  <2>2. ASSUME NEW card \in Records,
               ReadOtherCard(card) \/ ReadFails(card) \/ ReadLastCard(card)
        PROVE  /\ FPTypeOK' /\ CRTypeOK' /\ Kept /\ CardToStore'
               /\ file' # Closed => cr_pc' = "write"
               /\ cr_pc' = "write" => file' = Opened("write")'
    <3> USE DEF ReadOtherCard, ReadFails, ReadLastCard, Succeed, Fail
    <3>1. UNCHANGED fpVars /\ cr_pc = "idle" /\ cr_pc' \in {"idle", "open"} /\ mfr_serial' = card
      BY <2>2
    <3>2. Kept /\ FPTypeOK'
      BY <3>1, UnchangedKept DEF fpVars, FPTypeOK
    <3>3. file = Closed
      BY <1>1, <3>1 DEF HandleReleased
    <3>4. CRTypeOK'
      BY <2>2 DEF CRTypeOK
    <3> QED BY <3>1, <3>2, <3>3, <3>4 DEF CardToStore, fpVars
  <2>3. CASE OpenForWrite
    <3>1. PICK success \in BOOLEAN :
            /\ beginTransaction("write", success)
            /\ cr_pc = "open"
            /\ cr_pc' = (IF success THEN "write" ELSE "idle")
      BY <2>3 DEF OpenForWrite, Fail
    <3>2. /\ FPTypeOK' /\ Kept
          /\ file' = (IF success THEN Opened("write") ELSE Closed)
          /\ Opened("write")' = Opened("write")
      BY <3>1, BeginTransaction
    <3>3. CRTypeOK' /\ mfr_serial' = mfr_serial
      BY <2>3, <3>1 DEF OpenForWrite, Fail, CRTypeOK
    <3> QED BY <3>1, <3>2, <3>3 DEF CardToStore
  <2>4. CASE Store
    <3>1. mfr_serial \in Records /\ writeRecord(mfr_serial) /\ cr_pc' = "commit"
      BY <2>4 DEF Store, CardToStore
    <3>2. FPTypeOK' /\ Kept /\ file' = Closed
      BY <3>1, WriteRecord
    <3>3. CRTypeOK'
      BY <2>4, <3>1 DEF Store, CRTypeOK
    <3> QED BY <3>1, <3>2, <3>3 DEF CardToStore
  <2>5. CASE Commit
    <3>1. file' = Closed /\ UNCHANGED <<sd, file_name>> /\ cr_pc' = "idle"
      BY <2>5 DEF Commit, commitTransaction, Succeed
    <3>2. Kept /\ FPTypeOK'
      BY <3>1, UnchangedKept DEF FPTypeOK
    <3>3. CRTypeOK'
      BY <2>5 DEF Commit, Succeed, CRTypeOK
    <3> QED BY <3>1, <3>2, <3>3 DEF CardToStore
  <2> QED BY <2>1, <2>2, <2>3, <2>4, <2>5 DEF Read, ReadAndStore
<1>5. HandleReleased'
  BY <1>2, <1>4 DEF HandleReleased
<1> QED BY <1>2, <1>3, <1>4, <1>5 DEF UploadInv

\* A step of the upload.
LEMMA UploadStep ==
  ASSUME IInv, Upload
  PROVE  IInv' /\ Kept
<1> USE DEF IInv, TypeOK
<1>1. cr_pc = "idle" /\ turn = "upload" /\ UNCHANGED <<crVars, losses>>
  BY DEF Upload, OneRoutine
<1>2. CRTypeOK' /\ losses' \in 0 .. MaxLosses /\ cr_pc' = "idle"
  BY <1>1 DEF CRTypeOK, crVars
<1>3. turn' \in {"read", "upload"} /\ OneRoutine' /\ CardToStore'
  BY <1>1, <1>2 DEF Upload, OneRoutine, CardToStore
<1>4. getSize \in Nat
  BY LenProperties DEF getSize, FPTypeOK, Closed
<1>5. dc_pc \in {"idle", "open", "deprecate", "clear"} => file = Closed
  BY <1>1 DEF HandleReleased
<1>6. UNCHANGED fpVars => /\ FPTypeOK' /\ Kept /\ getSize' = getSize
                          /\ file' = file /\ Opened("read")' = Opened("read")
  BY UnchangedKept DEF fpVars, FPTypeOK, getSize, Opened, Visible
<1>7. /\ FPTypeOK' /\ DCTypeOK' /\ Kept /\ UploadInv'
      /\ dc_pc' \in {"size", "data"} => position' + file_length' <= getSize'
      /\ file' # Closed => dc_pc' \in {"session", "size", "data"}
      /\ dc_pc' \in {"session", "size", "data"} => file' \in {Closed, Opened("read")'}
  <2>1. CASE StartUpload
    BY <2>1, <1>5, <1>6 DEF StartUpload, DCTypeOK, UploadInv
  <2>2. CASE OpenFile
    <3>1. PICK opened \in BOOLEAN : beginTransaction("read", opened)
      BY <2>2 DEF OpenFile
    <3>2. /\ FPTypeOK' /\ Kept /\ Opened("read")' = Opened("read")
          /\ file' = (IF opened THEN Opened("read") ELSE Closed)
      BY <3>1, BeginTransaction
    <3> QED BY <2>2, <3>2 DEF OpenFile, DCTypeOK, UploadInv
  <2>3. CASE OpenSession
    BY <1>1, <2>3, <1>4, <1>6 DEF OpenSession, DCTypeOK, UploadInv, HandleReleased
  <2>4. CASE SendPacketSize
    BY <1>1, <2>4, <1>6 DEF SendPacketSize, DCTypeOK, UploadInv, HandleReleased
  <2>5. CASE SendPacketData
    <3>1. PacketSize \in Nat /\ PacketSize <= file_length
      BY PacketAssumption DEF PacketSize, DCTypeOK
    <3>2. PICK sent \in 0 .. PacketSize : position' = position + sent
      BY <2>5 DEF SendPacketData
    <3>3. file_length' = file_length - PacketSize /\ file_length' \in Nat
          /\ position \in Nat /\ position' \in Nat /\ file_length \in Nat
      BY <2>5, <3>1, <3>2 DEF SendPacketData, DCTypeOK
    <3>4. position' + file_length' <= position + file_length
      BY <3>1, <3>2, <3>3
    <3>5. position + file_length <= getSize
      BY <2>5 DEF SendPacketData
    <3>6. position' + file_length' <= getSize
      BY <1>4, <3>3, <3>4, <3>5
    <3> QED BY <1>1, <1>6, <2>5, <3>3, <3>6 DEF SendPacketData, DCTypeOK, UploadInv, HandleReleased
  <2>6. CASE EndUpload
    <3>1. ~ result
      BY <2>6, PacketAssumption DEF EndUpload, LoopCondition, DCTypeOK
    <3>2. file' = Closed /\ UNCHANGED <<sd, file_name>>
      BY <2>6 DEF EndUpload, commitTransaction
    <3>3. FPTypeOK' /\ Kept
      BY <3>2, UnchangedKept DEF FPTypeOK
    <3> QED BY <2>6, <3>1, <3>2, <3>3 DEF EndUpload, DCTypeOK, UploadInv
  <2>7. CASE DeprecateUploaded
    <3>1. ~ result
      BY <2>7 DEF DeprecateUploaded, UploadInv
    <3> QED BY <2>7, <3>1, <1>5, <1>6 DEF DeprecateUploaded, DCTypeOK, UploadInv
  <2>8. CASE ClearFlag
    BY <2>8, <1>5, <1>6 DEF ClearFlag, DCTypeOK, UploadInv
  <2> QED BY <2>1, <2>2, <2>3, <2>4, <2>5, <2>6, <2>7, <2>8 DEF Upload, uploadFromPersistence
<1> QED BY <1>2, <1>3, <1>7 DEF HandleReleased

\* The interrupt and the loss of power leave the card alone; RAM starts again.
LEMMA OtherSteps ==
  ASSUME IInv, Interrupt \/ Restart \/ UNCHANGED vars
  PROVE  IInv' /\ Kept
<1> USE DEF IInv, TypeOK
<1>1. CASE Interrupt \/ UNCHANGED vars
  <2>1. UNCHANGED <<fpVars, crVars, turn, losses, dc_pc, file_length, result, position>>
        /\ send_packet' \in BOOLEAN
    BY <1>1 DEF Interrupt, CheckTime, vars, dcVars, DCTypeOK
  <2>2. Kept
    BY <2>1, UnchangedKept DEF fpVars
  <2>3. FPTypeOK' /\ CRTypeOK' /\ DCTypeOK'
    BY <2>1 DEF fpVars, crVars, FPTypeOK, CRTypeOK, DCTypeOK
  <2>4. OneRoutine' /\ CardToStore' /\ UploadInv'
    BY <2>1 DEF crVars, OneRoutine, CardToStore, UploadInv
  <2>5. HandleReleased' /\ getSize' = getSize
    BY <2>1 DEF fpVars, crVars, HandleReleased, Opened, Visible, getSize
  <2> QED BY <2>1, <2>2, <2>3, <2>4, <2>5
<1>2. CASE Restart
  <2>1. UNCHANGED sd /\ file' = Closed /\ file_name' \in FileNames
    BY <1>2, PrefixAssumption DEF Restart, PowerLoss
  <2>2. Kept /\ FPTypeOK'
    BY <2>1, UnchangedKept DEF FPTypeOK
  <2>3. CRTypeOK' /\ DCTypeOK' /\ losses' \in 0 .. MaxLosses
    <3>1. CRTypeOK'
      BY <1>2 DEF Restart, CRTypeOK
    <3>2. DCTypeOK'
      BY <1>2 DEF Restart, DCTypeOK
    <3>3. losses' \in 0 .. MaxLosses
      BY <1>2, LossAssumption DEF Restart
    <3> QED BY <3>1, <3>2, <3>3
  <2>4. OneRoutine' /\ CardToStore' /\ UploadInv' /\ HandleReleased'
    BY <1>2, <2>1 DEF Restart, OneRoutine, CardToStore, UploadInv, HandleReleased
  <2> QED BY <1>2, <2>2, <2>3, <2>4 DEF Restart
<1> QED BY <1>1, <1>2

LEMMA NextIInv == IInv /\ [Next]_vars => IInv' /\ Kept
BY ReadStep, UploadStep, OtherSteps DEF Next

\* The inductive invariant holds of every reachable state.
THEOREM StationInvariant == Spec => []IInv
<1>1. Init => IInv
  BY InitIInv
<1>2. IInv /\ [Next]_vars => IInv'
  BY NextIInv
<1> QED BY <1>1, <1>2, PTL DEF Spec

-----------------------------------------------------------------------------
(* What the station promises. *)

\* Every member of the three objects keeps its type; an open handle is always
\* the handle of a file that exists.
THEOREM StationTyped == Spec => []TypeOK
<1>1. IInv => TypeOK
  BY DEF IInv
<1> QED BY <1>1, StationInvariant, PTL

\* On every path, the failing ones and a loss of power included, the File object
\* that beginTransaction opened is closed before anybody opens it again.
THEOREM HandleIsReleased == Spec => []HandleReleased
<1>1. IInv => HandleReleased
  BY DEF IInv
<1> QED BY <1>1, StationInvariant, PTL

\* uploadPacket asks the file for no more than it holds, and the length it has
\* still to send never wraps.
THEOREM UploadStaysInFile == Spec => []SendsWithinFile
<1>1. IInv => SendsWithinFile
  <2>1. IInv => PacketSize <= file_length
    BY PacketAssumption DEF IInv, TypeOK, DCTypeOK, PacketSize
  <2> QED BY <2>1 DEF IInv, SendsWithinFile
<1> QED BY <1>1, StationInvariant, PTL

\* A line that is durable stays where it is: no fault of the card, answer of the
\* modem, interrupt or loss of power makes a step that removes or changes it.
THEOREM NoLineIsLost == Spec => LinesKept
<1>1. IInv /\ [Next]_vars => [Kept]_<<dcVars, fpVars>>
  BY NextIInv
<1> QED BY <1>1, StationInvariant, PTL DEF Spec, LinesKept, Kept

-----------------------------------------------------------------------------
(* The store under any client. *)

\* What a step does to the lines of the files that are not being deprecated.
OthersKept ==
  \A name \in DOMAIN sd \ {Visible(file_name)} :
    /\ name \in DOMAIN sd'
    /\ IsPrefix(sd[name], sd'[name])

\* A file is removed, emptied, or left alone; the others are not touched.
LEMMA RemoveOne ==
  ASSUME FPTypeOK, RemoveFile(Visible(file_name))
  PROVE  /\ OthersKept
         /\ \A name \in DOMAIN sd' : IsVisibleName(name) /\ sd'[name] \in Seq(Lines)
<1>1. \A name \in DOMAIN sd : IsVisibleName(name) /\ sd[name] \in Seq(Lines) /\ Len(sd[name]) \in Nat
  BY LenProperties DEF FPTypeOK
<1>2. CASE UNCHANGED sd
  BY <1>1, <1>2, PrefixOfItself DEF OthersKept
<1>3. CASE sd' = Restrict(sd, DOMAIN sd \ {Visible(file_name)})
  BY <1>1, <1>3, PrefixOfItself DEF OthersKept, Restrict
<1>4. CASE Visible(file_name) \in DOMAIN sd /\ sd' = [sd EXCEPT ![Visible(file_name)] = <<>>]
  BY <1>1, <1>4, EmptySeq, PrefixOfItself DEF OthersKept
<1> QED BY <1>2, <1>3, <1>4 DEF RemoveFile

\* The odometer writes bytes.
LEMMA NextNameIsName ==
  ASSUME NEW name \in FileNames
  PROVE  generateNextUID(name) \in FileNames
<1>1. \A c \in Byte : NextChar(c) \in Byte
  <2> SUFFICES ASSUME NEW c \in 0 .. 255 PROVE NextChar(c) \in 0 .. 255
    BY DEF Byte
  <2>1. (c + 1) % 256 = IF c + 1 < 256 THEN c + 1 ELSE c + 1 - 256
    BY ModRange
  <2> QED BY <2>1 DEF NextChar, LetterA
<1>2. Zero \in Byte
  BY DEF Zero, Byte
<1> QED BY <1>1, <1>2 DEF FileNames, generateNextUID

LEMMA StoreStep ==
  ASSUME FPTypeOK, [FPNext]_fpVars
  PROVE  FPTypeOK' /\ OthersKept
<1>1. CASE UNCHANGED fpVars
  <2>1. Kept
    BY <1>1, UnchangedKept DEF fpVars
  <2> QED BY <1>1, <2>1 DEF fpVars, FPTypeOK, Kept, OthersKept
<1>2. ASSUME NEW mode \in {"read", "write"}, NEW success \in BOOLEAN, beginTransaction(mode, success)
      PROVE  FPTypeOK' /\ OthersKept
  BY <1>2, BeginTransaction DEF Kept, OthersKept
<1>3. ASSUME NEW record \in Records, writeRecord(record)
      PROVE  FPTypeOK' /\ OthersKept
  BY <1>3, WriteRecord DEF Kept, OthersKept
<1>4. CASE commitTransaction \/ PowerLoss
  <2>1. Kept
    BY <1>4, UnchangedKept DEF commitTransaction, PowerLoss
  <2>2. sd' = sd /\ file' = Closed /\ file_name' \in {file_name, PREFIX}
    BY <1>4 DEF commitTransaction, PowerLoss
  <2> QED BY <2>1, <2>2, PrefixAssumption DEF FPTypeOK, Kept, OthersKept
<1>5. ASSUME NEW success \in BOOLEAN, file = Closed, deprecateFilename(success)
      PROVE  FPTypeOK' /\ OthersKept
  <2>1. /\ RemoveFile(Visible(file_name)) /\ file' = Closed
        /\ file_name' \in {file_name, generateNextUID(file_name)}
    BY <1>5 DEF deprecateFilename
  <2>2. file_name' \in FileNames
    BY <2>1, NextNameIsName DEF FPTypeOK
  <2> QED BY <2>1, <2>2, RemoveOne DEF FPTypeOK
<1> QED BY <1>1, <1>2, <1>3, <1>4, <1>5 DEF FPNext

\* Whatever the clients of the store do: only the file whose name is deprecated loses
\* lines, through every fault of the card and every loss of power.
THEOREM OthersLoseNothing == FPSpec => OthersKeepTheirLines
<1>1. FPInit => FPTypeOK
  BY PrefixAssumption DEF FPInit, FPTypeOK
<1>2. FPTypeOK /\ [FPNext]_fpVars => FPTypeOK' /\ [OthersKept]_fpVars
  BY StoreStep
<1> QED BY <1>1, <1>2, PTL DEF FPSpec, OthersKeepTheirLines, OthersKept

-----------------------------------------------------------------------------
(* The order of names. *)

\* The values of the leading characters, as the definition of Rank computes them.
IsRanking(rank, name) ==
  rank = [i \in UID_FIRST - 1 .. UID_LAST |->
            IF i < UID_FIRST THEN 0 ELSE 36 * rank[i - 1] + Digit(name[i])]

LEMMA RankExists ==
  ASSUME NEW name, HasAlphanumericUid(name)
  PROVE  \E rank : IsRanking(rank, name) /\ rank[UID_LAST] = Rank(name)
<1> DEFINE Part(g, n) ==
             /\ DOMAIN g = UID_FIRST - 1 .. n
             /\ g[UID_FIRST - 1] = 0
             /\ \A i \in UID_FIRST .. n : g[i] = 36 * g[i - 1] + Digit(name[i])
           Missing == {n \in UID_FIRST - 1 .. UID_LAST : ~ \E g : Part(g, n)}
<1>1. UID_LAST \in Nat /\ UID_LAST >= UID_FIRST /\ UID_FIRST = 3
  BY UidAssumption DEF UID_FIRST
<1>2. Missing = {}
  <2> SUFFICES ASSUME Missing # {} PROVE FALSE
    OBVIOUS
  <2>1. Missing \in SUBSET Nat
    BY <1>1
  <2>2. PICK n \in Missing : \A m \in Missing : n <= m
    <3> HIDE DEF Missing
    <3> QED BY <2>1, LeastElement
  <2>3. n \in UID_FIRST - 1 .. UID_LAST
    OBVIOUS
  <2>4. CASE n = UID_FIRST - 1
    <3> DEFINE g == [i \in UID_FIRST - 1 .. n |-> 0]
    <3>1. Part(g, n)
      BY <1>1, <2>4
    <3> QED BY <3>1
  <2>5. CASE n # UID_FIRST - 1
    <3>1. n - 1 \in UID_FIRST - 1 .. UID_LAST /\ n \in UID_FIRST .. UID_LAST
      BY <1>1, <2>3, <2>5
    <3>2. n - 1 \notin Missing
      <4>1. n \in Int /\ ~ (n <= n - 1)
        BY <1>1, <2>3
      <4> HIDE DEF Missing
      <4> QED BY <2>2, <4>1
    <3>3. PICK f : Part(f, n - 1)
      BY <3>1, <3>2
    <3> DEFINE g == [i \in UID_FIRST - 1 .. n |-> IF i = n THEN 36 * f[n - 1] + Digit(name[n]) ELSE f[i]]
    <3>4. DOMAIN g = UID_FIRST - 1 .. n /\ g[UID_FIRST - 1] = 0
      BY <1>1, <3>1, <3>3
    <3>5. ASSUME NEW i \in UID_FIRST .. n PROVE g[i] = 36 * g[i - 1] + Digit(name[i])
      <4>1. CASE i = n
        <5>1. g[n] = 36 * f[n - 1] + Digit(name[n]) /\ g[n - 1] = f[n - 1]
          BY <1>1, <3>1
        <5> QED BY <4>1, <5>1
      <4>2. CASE i # n
        <5>1. i \in UID_FIRST .. n - 1 /\ i - 1 \in UID_FIRST - 1 .. n /\ i - 1 # n
              /\ i \in UID_FIRST - 1 .. n
          BY <1>1, <3>1, <4>2
        <5>2. f[i] = 36 * f[i - 1] + Digit(name[i])
          BY <3>3, <5>1
        <5>3. g[i] = f[i] /\ g[i - 1] = f[i - 1]
          BY <4>2, <5>1
        <5> QED BY <5>2, <5>3
      <4> QED BY <4>1, <4>2
    <3>6. Part(g, n)
      BY <3>4, <3>5
    <3> QED BY <3>6
  <2> QED BY <2>4, <2>5
<1>3. UID_LAST \in UID_FIRST - 1 .. UID_LAST
  BY <1>1
<1>4. PICK g : Part(g, UID_LAST)
  BY <1>2, <1>3
<1> DEFINE h == [i \in UID_FIRST - 1 .. UID_LAST |-> g[i]]
<1>5. IsRanking(h, name)
  <2>1. \A i \in UID_FIRST - 1 .. UID_LAST :
          h[i] = IF i < UID_FIRST THEN 0 ELSE 36 * h[i - 1] + Digit(name[i])
    <3> SUFFICES ASSUME NEW i \in UID_FIRST - 1 .. UID_LAST
                 PROVE  h[i] = IF i < UID_FIRST THEN 0 ELSE 36 * h[i - 1] + Digit(name[i])
      OBVIOUS
    <3>1. CASE i < UID_FIRST
      <4>1. i = UID_FIRST - 1
        BY <1>1, <3>1
      <4> QED BY <1>4, <3>1, <4>1
    <3>2. CASE i >= UID_FIRST
      <4>1. i \in UID_FIRST .. UID_LAST /\ i - 1 \in UID_FIRST - 1 .. UID_LAST /\ ~ i < UID_FIRST
        BY <1>1, <3>2
      <4> QED BY <1>4, <4>1
    <3> QED BY <1>1, <3>1, <3>2
  <2>2. h = [i \in UID_FIRST - 1 .. UID_LAST |-> h[i]]
    OBVIOUS
  <2> HIDE DEF h
  <2>3. h = [i \in UID_FIRST - 1 .. UID_LAST |->
               IF i < UID_FIRST THEN 0 ELSE 36 * h[i - 1] + Digit(name[i])]
    BY <2>1, <2>2
  <2> QED BY <2>3 DEF IsRanking
<1> DEFINE rank[i \in UID_FIRST - 1 .. UID_LAST] ==
             IF i < UID_FIRST THEN 0 ELSE 36 * rank[i - 1] + Digit(name[i])
<1> HIDE DEF h
<1>6. \E f : f = [i \in UID_FIRST - 1 .. UID_LAST |->
                    IF i < UID_FIRST THEN 0 ELSE 36 * f[i - 1] + Digit(name[i])]
  BY <1>5 DEF IsRanking
<1>7. rank = [i \in UID_FIRST - 1 .. UID_LAST |->
                IF i < UID_FIRST THEN 0 ELSE 36 * rank[i - 1] + Digit(name[i])]
  BY <1>6
<1>8. Rank(name) = rank[UID_LAST]
  BY DEF Rank
<1> HIDE DEF rank
<1> QED BY <1>7, <1>8 DEF IsRanking

\* The value of a prefix of the name is a number.
LEMMA RankingIsNat ==
  ASSUME NEW name, HasAlphanumericUid(name), NEW rank, IsRanking(rank, name)
  PROVE  /\ rank[UID_FIRST - 1] = 0
         /\ \A i \in Uid : rank[i] = 36 * rank[i - 1] + Digit(name[i])
         /\ \A i \in UID_FIRST - 1 .. UID_LAST : rank[i] \in Nat
<1>1. UID_LAST \in Nat /\ UID_LAST >= UID_FIRST /\ UID_FIRST = 3 /\ Uid = UID_FIRST .. UID_LAST
  BY UidAssumption DEF UID_FIRST, Uid
<1>2. rank[UID_FIRST - 1] = 0
  BY <1>1 DEF IsRanking
<1>3. ASSUME NEW i \in Uid PROVE rank[i] = 36 * rank[i - 1] + Digit(name[i])
  <2>1. i \in UID_FIRST - 1 .. UID_LAST /\ ~ i < UID_FIRST
    BY <1>1
  <2> QED BY <2>1 DEF IsRanking
<1>4. \A i \in Uid : Digit(name[i]) \in 0 .. 35
  BY DEF HasAlphanumericUid, Alphanumeric, Digit, Zero, Nine, LetterA, LetterZ
<1> DEFINE Bad == {i \in UID_FIRST - 1 .. UID_LAST : rank[i] \notin Nat}
<1>5. Bad = {}
  <2> SUFFICES ASSUME Bad # {} PROVE FALSE
    OBVIOUS
  <2>1. Bad \in SUBSET Nat
    BY <1>1
  <2>2. PICK n \in Bad : \A m \in Bad : n <= m
    <3> HIDE DEF Bad
    <3> QED BY <2>1, LeastElement
  <2>3. n # UID_FIRST - 1
    BY <1>2
  <2>4. n \in Uid /\ n - 1 \in UID_FIRST - 1 .. UID_LAST /\ n \in Nat
    BY <1>1, <2>3
  <2>5. rank[n - 1] \in Nat
    BY <2>2, <2>4
  <2>6. rank[n] = 36 * rank[n - 1] + Digit(name[n]) /\ Digit(name[n]) \in Nat
    BY <1>3, <1>4, <2>4
  <2>7. \A a, b \in Nat : 36 * a + b \in Nat
    OBVIOUS
  <2>8. rank[n] \in Nat
    BY <2>5, <2>6, <2>7
  <2> QED BY <2>8
<1> QED BY <1>2, <1>3, <1>5

\* One character: all that is not 'Z' has a next digit, and the other digits stay.
LEMMA NextDigit ==
  /\ \A c \in Alphanumeric \ {LetterZ} : NextChar(c) \in Alphanumeric /\ Digit(NextChar(c)) = Digit(c) + 1
  /\ Digit(LetterZ) = 35 /\ Digit(Zero) = 0 /\ Zero \in Alphanumeric
<1>1. ASSUME NEW c \in Alphanumeric \ {LetterZ}
      PROVE  NextChar(c) \in Alphanumeric /\ Digit(NextChar(c)) = Digit(c) + 1
  <2>1. c \in 48 .. 57 \/ c \in 65 .. 89
    BY DEF Alphanumeric, Zero, Nine, LetterA, LetterZ
  <2>2. (c + 1) % 256 = c + 1
    <3> DEFINE a == c + 1
    <3>1. a \in 0 .. 2 * 256 - 1 /\ a < 256 /\ 256 \in Nat \ {0}
      BY <2>1
    <3> HIDE DEF a
    <3>2. a % 256 = a
      BY <3>1, ModRange
    <3> QED BY <3>2 DEF a
  <2> QED BY <2>1, <2>2 DEF NextChar, Alphanumeric, Digit, Zero, Nine, LetterA, LetterZ
<1>2. Digit(LetterZ) = 35 /\ Digit(Zero) = 0 /\ Zero \in Alphanumeric
  BY DEF Digit, Alphanumeric, Zero, Nine, LetterA, LetterZ
<1> QED BY <1>1, <1>2

\* Carrying: the next name has the next number, and the last name is followed by 0.
LEMMA NextRank ==
  ASSUME NEW name \in FileNames, HasAlphanumericUid(name)
  PROVE  /\ HasAlphanumericUid(generateNextUID(name))
         /\ Rank(generateNextUID(name)) = IF IsLastUid(name) THEN 0 ELSE Rank(name) + 1
         /\ \A i \in 0 .. UID_FIRST - 1 : generateNextUID(name)[i] = name[i]
<1> DEFINE next == generateNextUID(name)
<1>1. /\ UID_LAST \in Nat /\ UID_LAST >= UID_FIRST /\ UID_FIRST = 3
      /\ Uid = UID_FIRST .. UID_LAST /\ Positions = 0 .. UID_LAST
  BY UidAssumption DEF UID_FIRST, Uid, Positions
<1>2. \A i \in Positions :
        next[i] = IF i \in Uid /\ \A j \in i .. UID_LAST : name[j] = LetterZ THEN Zero
                  ELSE IF IsCarryStop(name, i) THEN NextChar(name[i])
                  ELSE name[i]
  BY DEF generateNextUID
<1> HIDE DEF next
<1>3. \A i \in Uid : name[i] \in Alphanumeric /\ i \in Positions
  BY <1>1 DEF HasAlphanumericUid
<1>4. HasAlphanumericUid(next)
  <2> SUFFICES ASSUME NEW i \in Uid PROVE next[i] \in Alphanumeric
    BY DEF HasAlphanumericUid
  <2>1. IsCarryStop(name, i) => name[i] # LetterZ
    BY DEF IsCarryStop
  <2> QED BY <1>2, <1>3, <2>1, NextDigit
<1>5. \A i \in 0 .. UID_FIRST - 1 : next[i] = name[i]
  <2> SUFFICES ASSUME NEW i \in 0 .. UID_FIRST - 1 PROVE next[i] = name[i]
    OBVIOUS
  <2>1. i \in Positions /\ i \notin Uid
    BY <1>1
  <2> QED BY <1>2, <2>1 DEF IsCarryStop
<1>6. PICK r : IsRanking(r, name) /\ r[UID_LAST] = Rank(name)
  BY RankExists
<1>7. PICK s : IsRanking(s, next) /\ s[UID_LAST] = Rank(next)
  BY <1>4, RankExists
<1>8. /\ r[UID_FIRST - 1] = 0 /\ s[UID_FIRST - 1] = 0
      /\ \A i \in Uid : r[i] = 36 * r[i - 1] + Digit(name[i]) /\ s[i] = 36 * s[i - 1] + Digit(next[i])
      /\ \A i \in UID_FIRST - 1 .. UID_LAST : r[i] \in Nat /\ s[i] \in Nat
  BY <1>4, <1>6, <1>7, RankingIsNat
<1>9. \A i \in Uid : Digit(name[i]) \in Nat
  BY <1>3 DEF Alphanumeric, Digit, Zero, Nine, LetterA, LetterZ
<1>10. CASE IsLastUid(name)
  <2> DEFINE Bad == {i \in UID_FIRST - 1 .. UID_LAST : s[i] # 0}
  <2>1. \A i \in Uid : Digit(next[i]) = 0
    <3> SUFFICES ASSUME NEW i \in Uid PROVE next[i] = Zero
      BY NextDigit
    <3>1. \A j \in i .. UID_LAST : j \in Uid
      BY <1>1
    <3> QED BY <1>2, <1>3, <1>10, <3>1 DEF IsLastUid
  <2>2. Bad = {}
    <3> SUFFICES ASSUME Bad # {} PROVE FALSE
      OBVIOUS
    <3>1. Bad \in SUBSET Nat
      BY <1>1
    <3>2. PICK n \in Bad : \A m \in Bad : n <= m
      <4> HIDE DEF Bad
      <4> QED BY <3>1, LeastElement
    <3>3. n \in Uid /\ n - 1 \in UID_FIRST - 1 .. UID_LAST /\ ~ n <= n - 1
      BY <1>1, <1>8
    <3>4. s[n - 1] = 0
      BY <3>2, <3>3
    <3>5. s[n] = 36 * s[n - 1] + Digit(next[n])
      BY <1>8, <3>3
    <3>6. s[n] = 0
      BY <2>1, <3>3, <3>4, <3>5
    <3> QED BY <3>6
  <2>3. UID_LAST \in UID_FIRST - 1 .. UID_LAST
    BY <1>1
  <2>4. s[UID_LAST] = 0
    BY <2>2, <2>3
  <2> QED BY <1>4, <1>5, <1>7, <1>10, <2>4 DEF next
<1>11. CASE ~ IsLastUid(name)
  <2>1. PICK p \in Uid : name[p] # LetterZ /\ \A i \in p + 1 .. UID_LAST : name[i] = LetterZ
    <3> DEFINE Ends == {UID_LAST - i : i \in {k \in Uid : name[k] # LetterZ}}
    <3>1. Ends \in SUBSET Nat /\ Ends # {}
      BY <1>1, <1>11 DEF IsLastUid
    <3>2. PICK e \in Ends : \A m \in Ends : e <= m
      <4> HIDE DEF Ends
      <4> QED BY <3>1, LeastElement
    <3>3. PICK p \in Uid : name[p] # LetterZ /\ e = UID_LAST - p
      OBVIOUS
    <3>4. ASSUME NEW i \in p + 1 .. UID_LAST PROVE name[i] = LetterZ
      <4>1. i \in Uid /\ ~ (e <= UID_LAST - i)
        BY <1>1, <3>3
      <4> QED BY <3>2, <4>1
    <3> QED BY <3>3, <3>4
  <2>2. ASSUME NEW i \in Uid
        PROVE  /\ i < p => next[i] = name[i]
               /\ i = p => next[i] = NextChar(name[i])
               /\ i > p => next[i] = Zero /\ name[i] = LetterZ
    <3>1. i <= p => ~ \A j \in i .. UID_LAST : name[j] = LetterZ
      BY <1>1, <2>1
    <3>2. i < p => ~ IsCarryStop(name, i)
      <4>1. i < p => p \in i + 1 .. UID_LAST
        BY <1>1
      <4> QED BY <2>1, <4>1 DEF IsCarryStop
    <3>3. i = p => IsCarryStop(name, i)
      BY <2>1 DEF IsCarryStop
    <3>4. i > p => \A j \in i .. UID_LAST : name[j] = LetterZ
      BY <1>1, <2>1
    <3>5. i > p => i \in i .. UID_LAST
      BY <1>1
    <3>6. i < p => i <= p
      BY <1>1
    <3>7. i = p => i <= p
      BY <1>1
    <3> QED BY <1>2, <1>3, <3>1, <3>2, <3>3, <3>4, <3>5, <3>6, <3>7
  <2> DEFINE Bad == {i \in UID_FIRST - 1 .. UID_LAST : s[i] # IF i < p THEN r[i] ELSE r[i] + 1}
  <2>3. Bad = {}
    <3> SUFFICES ASSUME Bad # {} PROVE FALSE
      OBVIOUS
    <3>1. Bad \in SUBSET Nat
      BY <1>1
    <3>2. PICK n \in Bad : \A m \in Bad : n <= m
      <4> HIDE DEF Bad
      <4> QED BY <3>1, LeastElement
    <3>3. n # UID_FIRST - 1
      BY <1>1, <1>8
    <3>4. n \in Uid /\ n - 1 \in UID_FIRST - 1 .. UID_LAST /\ ~ n <= n - 1 /\ n \in Nat /\ p \in Nat
      BY <1>1, <3>3
    <3>5. s[n - 1] = IF n - 1 < p THEN r[n - 1] ELSE r[n - 1] + 1
      BY <3>2, <3>4
    <3>6. /\ r[n] = 36 * r[n - 1] + Digit(name[n]) /\ s[n] = 36 * s[n - 1] + Digit(next[n])
          /\ r[n - 1] \in Nat /\ Digit(name[n]) \in Nat /\ name[n] \in Alphanumeric
      BY <1>3, <1>8, <1>9, <3>4
    <3>7. s[n] # IF n < p THEN r[n] ELSE r[n] + 1
      OBVIOUS
    <3> HIDE DEF Bad
    <3>8. CASE n < p
      <4>1. s[n - 1] = r[n - 1] /\ next[n] = name[n]
        BY <2>2, <3>4, <3>5, <3>8
      <4> QED BY <3>6, <3>7, <3>8, <4>1
    <3>9. CASE n = p
      <4>1. s[n - 1] = r[n - 1]
        BY <3>4, <3>5, <3>9
      <4>2. Digit(next[n]) = Digit(name[n]) + 1
        BY <2>1, <2>2, <3>4, <3>6, <3>9, NextDigit
      <4>3. s[n] = r[n] + 1
        BY <3>6, <4>1, <4>2
      <4> QED BY <3>4, <3>7, <3>9, <4>3
    <3>10. CASE n > p
      <4>1. s[n - 1] = r[n - 1] + 1
        BY <3>4, <3>5, <3>10
      <4>2. Digit(next[n]) = 0 /\ Digit(name[n]) = 35
        BY <2>2, <3>4, <3>10, NextDigit
      <4>3. s[n] = r[n] + 1
        BY <3>6, <4>1, <4>2
      <4> QED BY <3>4, <3>7, <3>10, <4>3
    <3> QED BY <3>4, <3>8, <3>9, <3>10
  <2>4. UID_LAST \in UID_FIRST - 1 .. UID_LAST /\ ~ UID_LAST < p
    BY <1>1
  <2>5. s[UID_LAST] = r[UID_LAST] + 1
    BY <2>3, <2>4
  <2> QED BY <1>4, <1>5, <1>6, <1>7, <1>11, <2>5 DEF next
<1> QED BY <1>10, <1>11

\* Every name has its turn, in the order of numbers in base 36: for names of any
\* length, however often the name is deprecated and wherever power is lost.
THEOREM NamesFollow == FPSpec => NextNameFollows
<1> DEFINE Follows ==
      file_name' \notin {file_name, PREFIX} /\ HasAlphanumericUid(file_name) =>
        /\ HasAlphanumericUid(file_name')
        /\ Rank(file_name') = IF IsLastUid(file_name) THEN 0 ELSE Rank(file_name) + 1
        /\ \A i \in 0 .. UID_FIRST - 1 : file_name'[i] = file_name[i]
<1>1. FPInit => FPTypeOK
  BY PrefixAssumption DEF FPInit, FPTypeOK
<1>2. FPTypeOK /\ [FPNext]_fpVars => FPTypeOK' /\ [Follows]_fpVars
  <2> SUFFICES ASSUME FPTypeOK, [FPNext]_fpVars PROVE FPTypeOK' /\ Follows
    BY Zenon
  <2>1. FPTypeOK'
    BY StoreStep
  <2>2. file_name' \in {file_name, PREFIX, generateNextUID(file_name)}
    BY DEF FPNext, fpVars, beginTransaction, writeRecord, commitTransaction, deprecateFilename, PowerLoss
  <2>3. file_name \in FileNames
    BY DEF FPTypeOK
  <2> QED BY <2>1, <2>2, <2>3, NextRank
<1> QED BY <1>1, <1>2, PTL DEF FPSpec, NextNameFollows
===============================================================================
