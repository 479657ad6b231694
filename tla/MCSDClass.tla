------------------------------ MODULE MCSDClass ------------------------------
(***************************************************************************)
(* Small instances of SDClass.                                             *)
(***************************************************************************)
EXTENDS SDClass

InRoot(name) == [dir |-> "/", name |-> name]
TwoFiles == {InRoot("a"), InRoot("b")}
AndDirectory == {InRoot("a"), [dir |-> "d", name |-> "b"]}
===============================================================================
