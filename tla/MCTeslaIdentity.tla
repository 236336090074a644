-------------------------- MODULE MCTeslaIdentity --------------------------
(* TeslaIdentity on small instances: a handful of identities, and bounds   *)
(* on how often calls fail, power is lost and the user resets.             *)
EXTENDS TeslaIdentity, TLC

IdSymmetry == Permutations(Ids)

AnyFault      == AllFaults
NoRemoveFault == AllFaults \ {"remove"}
=============================================================================
