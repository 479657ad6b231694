----------------------------- MODULE MCNetGateway -----------------------------
(***************************************************************************)
(* A small instance of NetGateway: messages of four bytes, a table of two  *)
(* cells, and addresses that collide in it.                                *)
(***************************************************************************)
EXTENDS NetGateway

Frames ==
  {<<HEADER, a, t, s, FOOTER>> :
     a \in Addresses, t \in {ACK, PUT_ADDRESS, GET_RECORD}, s \in {OK}}
Noise == {<<HEADER>>, <<HEADER, 1, PUT_ADDRESS, 1, FOOTER>>} \cup Frames
===============================================================================
