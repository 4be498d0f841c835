--------------------------- MODULE MCCryptonotePool ---------------------------
(* Instances of CryptonotePool for TLC. *)
EXTENDS CryptonotePool
==============================================================================
