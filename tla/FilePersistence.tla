--------------------------- MODULE FilePersistence ---------------------------
(***************************************************************************)
(* The record store of the standalone reader                               *)
(* (Support/FilePersistence/FilePersistence.cpp on top of Modules/SD): the *)
(* file on the SD card that scanned cards are appended to, and the name of *)
(* that file, which moves on when the file has been uploaded.              *)
(*                                                                         *)
(* A file is the sequence of its lines.  writeRecord makes one line out of *)
(* eight File::write calls whose errors nobody reads, so a line may reach  *)
(* the card whole, with pieces missing, or not at all.  A card fault is a  *)
(* choice of each method; loss of power is the action PowerLoss.  The only *)
(* moment a line becomes durable is the sync of close(), which writes the  *)
(* directory entry in one block.                                           *)
(***************************************************************************)
EXTENDS Integers, Sequences, FiniteSets, SequencesExt, Functions

CONSTANTS
  Records,      \* what a card may hold
  PREFIX,       \* the 13-byte name the constructor copies (its first 8 bytes)
  UID_LAST      \* last position of the UID in the name (7 in the code)

UID_FIRST == 3                       \* the name is <prefix 0-2><UID 3-7>
Positions == 0 .. UID_LAST
Uid == UID_FIRST .. UID_LAST
Byte == 0 .. 255
FileNames == [Positions -> Byte]

ASSUME UidAssumption == UID_LAST \in Nat /\ UID_LAST >= UID_FIRST
ASSUME PrefixAssumption == PREFIX \in FileNames

VARIABLES
  sd,         \* the card: file name |-> durable lines
  file,       \* the File object shared by all users of the store
  file_name   \* FilePersistence::file_name

fpVars == <<sd, file, file_name>>

\* The name as SD reads it: a C string, which ends before the first NUL.
Visible(name) ==
  Restrict(name, {i \in Positions : \A j \in 0 .. i : name[j] # 0})

IsVisibleName(name) == \E n \in 0 .. UID_LAST + 1 : name \in [0 .. n - 1 -> 1 .. 255]

Lines == [record : Records, whole : BOOLEAN]
Closed == [mode |-> "closed"]
Opened(mode) == [mode |-> mode, name |-> Visible(file_name)]

-----------------------------------------------------------------------------
(* The name: an odometer of alphanumeric characters. *)

Zero == 48   Nine == 57   LetterA == 65   LetterZ == 90
Alphanumeric == (Zero .. Nine) \cup (LetterA .. LetterZ)

NextChar(c) == IF c = Nine THEN LetterA ELSE (c + 1) % 256

\* The position that is incremented: the last one that is not 'Z'.
IsCarryStop(name, c) ==
  /\ c \in Uid
  /\ name[c] # LetterZ
  /\ \A i \in c + 1 .. UID_LAST : name[i] = LetterZ

\* Mistake: a 'Z' becomes 'A', as in an alphabet without digits.
generateNextUIDSkipsDigits(name) ==
  [i \in Positions |->
     IF i \in Uid /\ \A j \in i .. UID_LAST : name[j] = LetterZ THEN LetterA
     ELSE IF IsCarryStop(name, i) THEN NextChar(name[i])
     ELSE name[i]]

generateNextUID(name) ==
  [i \in Positions |->
     IF i \in Uid /\ \A j \in i .. UID_LAST : name[j] = LetterZ THEN Zero
     ELSE IF IsCarryStop(name, i) THEN NextChar(name[i])
     ELSE name[i]]

-----------------------------------------------------------------------------
FPInit ==
  /\ sd = [name \in {} |-> <<>>]
  /\ file = Closed
  /\ file_name = PREFIX

getSize == IF file = Closed THEN 0 ELSE Len(sd[file.name])

\* SD.open in the mode of the transaction; opening for writing creates the
\* file, and a fault may hit before or after the new entry is on the card.
beginTransaction(mode, success) ==
  /\ \/ /\ mode = "write"
        /\ sd' = [name \in DOMAIN sd \cup {Visible(file_name)} |->
                    IF name \in DOMAIN sd THEN sd[name] ELSE <<>>]
     \/ UNCHANGED sd
  /\ IF success
       THEN Visible(file_name) \in DOMAIN sd' /\ file' = Opened(mode)
       ELSE file' = Closed
  /\ UNCHANGED file_name

commitTransaction ==
  /\ file' = Closed
  /\ UNCHANGED <<sd, file_name>>

\* The eight writes, which do nothing on a handle that is not open for writing,
\* and the close that follows them.
writeRecord(record) ==
  /\ \/ /\ file.mode = "write"
        /\ \E whole \in BOOLEAN :
             sd' = [sd EXCEPT ![file.name] = Append(@, [record |-> record, whole |-> whole])]
     \/ UNCHANGED sd
  /\ file' = Closed
  /\ UNCHANGED file_name

\* SD.remove empties the file before it deletes the entry, so a fault may leave
\* an empty file behind; a fault in SD.exists makes the file look removed.
RemoveFile(name) ==
  \/ UNCHANGED sd
  \/ sd' = Restrict(sd, DOMAIN sd \ {name})
  \/ name \in DOMAIN sd /\ sd' = [sd EXCEPT ![name] = <<>>]

\* Mistake: the name moves on before the file is removed.
deprecateFilenameTooSoon(success) ==
  /\ file_name' = generateNextUID(file_name)
  /\ RemoveFile(Visible(generateNextUID(file_name)))
  /\ success \in BOOLEAN
  /\ UNCHANGED file

deprecateFilename(success) ==
  /\ RemoveFile(Visible(file_name))
  /\ IF success
       THEN file_name' = generateNextUID(file_name)
       ELSE Visible(file_name) \in DOMAIN sd' /\ UNCHANGED file_name
  /\ UNCHANGED file

\* The card keeps what was durable; RAM is set up again by the constructors.
PowerLoss ==
  /\ file' = Closed
  /\ file_name' = PREFIX
  /\ UNCHANGED sd

-----------------------------------------------------------------------------
(* Properties. *)

\* The values the store's state may hold; an open handle is the handle of an
\* existing file, so getSize and writeRecord always have a file to look at.
FPTypeOK ==
  /\ \A name \in DOMAIN sd : IsVisibleName(name) /\ sd[name] \in Seq(Lines)
  /\ \/ file = Closed
     \/ file \in [mode : {"read", "write"}, name : DOMAIN sd]
  /\ file_name \in FileNames
===============================================================================
