----------------------------- MODULE KeyHolder -----------------------------
(***************************************************************************)
(* What the rest of the app may rely on in the crypto context: it holds    *)
(* one identity's key, or none; a proof is computed with the key that is   *)
(* held, from its beginning to its end, and fails if there is none; nobody *)
(* touches the key meanwhile.                                              *)
(*                                                                         *)
(* TeslaCrypto implements it, provided its calls come one at a time, and   *)
(* TeslaKeyCard, whose threads make these calls, keeps to it.              *)
(***************************************************************************)
EXTENDS Naturals

CONSTANT MaxIds    \* bound: identities, and so keys, there are

ASSUME IdsOK == MaxIds \in Nat \ {0}

VARIABLES
    crypto,    \* the identity whose key is held; None if no key is ready,
               \* Null if there is no context
    proof      \* the computation in flight

holderVars == <<crypto, proof>>

None == 0
Null == MaxIds + 1
Ids  == 1..MaxIds

NoProof   == [at |-> "none", key |-> None]
Computing == [at |-> "computing", key |-> None]
(* The key it was computed with, None if the computation failed.           *)
Proof(key) == [at |-> "done", key |-> key]

HolderTypeOK ==
    /\ crypto \in Ids \cup {None, Null}
    /\ proof \in {NoProof, Computing} \cup {Proof(k) : k \in Ids \cup {None}}

HolderInit == crypto \in Ids \cup {None, Null} /\ proof = NoProof

ChangeKey   == proof = NoProof /\ crypto' \in Ids \cup {None, Null} /\ UNCHANGED proof
BeginProof  == proof = NoProof /\ crypto # Null /\ proof' = Computing /\ UNCHANGED crypto
FinishProof ==
    /\ proof = Computing /\ proof' \in {Proof(k) : k \in {None} \cup (Ids \cap {crypto})}
    /\ UNCHANGED crypto
TakeProof   == proof.at = "done" /\ proof' = NoProof /\ UNCHANGED crypto

HolderNext == ChangeKey \/ BeginProof \/ FinishProof \/ TakeProof

HolderSpec == HolderInit /\ [][HolderNext]_holderVars

=============================================================================
