------------------------------ MODULE MCSd2Card ------------------------------
(***************************************************************************)
(* Small instances of Sd2Card: the three kinds of card.                    *)
(***************************************************************************)
EXTENDS Sd2Card

\* single: whether the card erases single blocks.
Kinds == {[kind |-> "SD1", c_size |-> 3751, single |-> FALSE],
          [kind |-> "SD2", c_size |-> 4095, single |-> TRUE],
          [kind |-> "SDHC", c_size |-> 15159, single |-> TRUE]}
===============================================================================
