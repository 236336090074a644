--------------------------- MODULE MCTeslaKeyCard ---------------------------
(* TeslaKeyCard with a reader that selects and authenticates, and a        *)
(* queue that two events fill; a tick takes half of it, as in the code.    *)
EXTENDS TeslaKeyCard

SelectCard ==
    [size |-> 15, cla |-> "zero", ins |-> "SELECT", p1 |-> "by name", lc |-> 10,
     aid |-> "card", last |-> 0]

Auth ==
    [size |-> 86, cla |-> "set", ins |-> "Authenticate", p1 |-> "other", lc |-> 81,
     aid |-> "other", last |-> 0]

Readers == {SelectCard, Auth}
=============================================================================
