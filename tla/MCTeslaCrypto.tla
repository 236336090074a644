--------------------------- MODULE MCTeslaCrypto ---------------------------
(* TeslaCrypto with three keys: one before, one that fails, one after.     *)
EXTENDS TeslaCrypto
=============================================================================
