----------------------------- MODULE StoreClient -----------------------------
(***************************************************************************)
(* FilePersistence under any client that does not deprecate the name while *)
(* its file is open: transactions in any order, written to whether they    *)
(* were opened or not.  CardReader and DreadClient are two such clients,   *)
(* but the upload never ends well enough to deprecate a name; here it      *)
(* does.                                                                   *)
(***************************************************************************)
EXTENDS FilePersistence

CONSTANTS
  LinesPerFile,    \* bound: lines in one file
  FilesNamed   \* bound: the names under which there may be a file on the card

FPNext ==
  \/ \E mode \in {"read", "write"}, result \in BOOLEAN :
       beginTransaction(mode, result) /\ DOMAIN sd' \subseteq FilesNamed
  \/ \E record \in Records :
       getSize < LinesPerFile /\ writeRecord(record)
  \/ commitTransaction
  \/ \E result \in BOOLEAN : file = Closed /\ deprecateFilename(result)
  \/ PowerLoss

FPSpec == FPInit /\ [][FPNext]_fpVars

-----------------------------------------------------------------------------
(* Properties. *)

\* Only the file that is being deprecated ever loses a line: faults, power loss
\* and the creation of files leave what was durable in the others.
OthersKeepTheirLines ==
  [][\A name \in DOMAIN sd \ {Visible(file_name)} :
       /\ name \in DOMAIN sd'
       /\ IsPrefix(sd[name], sd'[name])]_fpVars

\* The UID read as a number in base 36.
Digit(c) == IF c <= Nine THEN c - Zero ELSE 10 + c - LetterA
Rank(name) ==
  LET rank[i \in UID_FIRST - 1 .. UID_LAST] ==
        IF i < UID_FIRST THEN 0 ELSE 36 * rank[i - 1] + Digit(name[i])
  IN  rank[UID_LAST]

HasAlphanumericUid(name) == \A i \in Uid : name[i] \in Alphanumeric
IsLastUid(name) == \A i \in Uid : name[i] = LetterZ

\* A deprecated name is followed by the next one in the order of names, the last by
\* the first: every name is used once before any is used again, and the prefix
\* never changes.  Only a restart goes back, to the name the constructor copies.
NextNameFollows ==
  [][file_name' \notin {file_name, PREFIX} /\ HasAlphanumericUid(file_name) =>
       /\ HasAlphanumericUid(file_name')
       /\ Rank(file_name') = IF IsLastUid(file_name) THEN 0 ELSE Rank(file_name) + 1
       /\ \A i \in 0 .. UID_FIRST - 1 : file_name'[i] = file_name[i]]_fpVars
===============================================================================
