------------------------------ MODULE FlushedQueue ------------------------------
(***************************************************************************)
(* A SerialQueue whose owner may also throw away all that waits.           *)
(***************************************************************************)
EXTENDS SerialQueue

Clear == queue' = <<>> /\ UNCHANGED <<arrival, out>>

FlushedSpec == Init /\ [][Next \/ Clear]_<<queue, arrival, out>>
===============================================================================
