--------------------------- MODULE IdentityVault ---------------------------
(***************************************************************************)
(* What the key card promises about its identity, with no files, records   *)
(* or storage calls: one identity is kept, the card only ever answers with *)
(* the one it keeps, and what has been put in service is kept until the    *)
(* user gives it up.  TeslaIdentity implements this as long as a reset     *)
(* does not fail to remove an identity.bin that holds no record.           *)
(***************************************************************************)
CONSTANTS Ids, None

VARIABLES
    stored,    \* the identity kept
    serving,   \* the identity the card answers with
    promised   \* the identity put in service and not given up since

Init ==
    /\ stored \in Ids \cup {None}
    /\ serving = None
    /\ promised = None

(* A new identity is made only when none is kept and none is owed.         *)
Provision ==
    /\ stored = None /\ promised = None
    /\ stored' \in Ids
    /\ UNCHANGED <<serving, promised>>

Serve ==
    /\ stored # None /\ promised \in {None, stored}
    /\ serving' = stored /\ promised' = stored
    /\ UNCHANGED stored

Withdraw == serving' = None /\ UNCHANGED <<stored, promised>>

GiveUp == serving' = None /\ promised' = None /\ UNCHANGED stored

(* Losing what is kept is allowed only while nobody relies on it.          *)
Erase ==
    /\ serving = None /\ promised = None
    /\ stored' = None
    /\ UNCHANGED <<serving, promised>>

Next == Provision \/ Serve \/ Withdraw \/ GiveUp \/ Erase

Spec == Init /\ [][Next]_<<stored, serving, promised>>

=============================================================================
