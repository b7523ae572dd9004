----------------------------- MODULE MCE82545Rx -----------------------------
(* The smallest ring that RDLEN can describe, for TLC.                     *)
EXTENDS E82545Rx

MCBits == {"RXT0", "RXDMT0"}
=============================================================================
