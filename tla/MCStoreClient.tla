----------------------------- MODULE MCStoreClient -----------------------------
(***************************************************************************)
(* Small instance of StoreClient: a UID of two characters (1296 names      *)
(* instead of 36^5), and files under the two names about the first carry.  *)
(***************************************************************************)
EXTENDS StoreClient

\* "I1Z" and a UID of two characters.
Name(uid) == LET chars == <<73, 49, 90>> \o uid IN [i \in Positions |-> chars[i + 1]]

BeforeCarry == Name(<<Nine, LetterZ>>)
AboutCarry == {BeforeCarry, Name(<<LetterA, Zero>>)}
===============================================================================
