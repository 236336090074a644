----------------------------- MODULE MCNdefApp -----------------------------
(* NdefApp with a handful of blocks and a queue short enough to fill up.   *)
EXTENDS NdefApp
=============================================================================
