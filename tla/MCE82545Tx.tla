----------------------------- MODULE MCE82545Tx -----------------------------
(* The smallest ring that TDLEN can describe, for TLC.                     *)
EXTENDS E82545Tx

MCBits == {"TXDW", "TXQE"}
=============================================================================
