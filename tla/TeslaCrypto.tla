---------------------------- MODULE TeslaCrypto ----------------------------
(***************************************************************************)
(* tesla_crypto.c: the context with the private key, its public point and  *)
(* its public key, and the computation of an authenticator.  Every call of *)
(* mbedTLS may fail; a call that fails may have written part of its result *)
(* already.  A key is named by its identity, and so are the point and the  *)
(* bytes derived from it.                                                  *)
(*                                                                         *)
(* The calls come one at a time; that the app's two threads see to it is   *)
(* shown in TeslaKeyCard.                                                  *)
(***************************************************************************)
EXTENDS Naturals

CONSTANT MaxIds    \* bound: keys there are

ASSUME KeysOK == MaxIds \in Nat \ {0}

VARIABLES
    allocated,   \* the context exists
    context,     \* private_key, public_key_point, public_key, key_ready
    out,         \* the caller's buffer for a generated key
    auth         \* tesla_crypto_authenticate: where it is, and its buffers

vars == <<allocated, context, out, auth>>

Keys == 1..MaxIds
Zero == 0              \* cleared memory
Part == MaxIds + 1     \* neither cleared nor complete

Context == [priv : Keys \cup {Zero}, point : Keys \cup {Zero, Part}, pub : Keys \cup {Zero, Part},
            ready : BOOLEAN]

Blank     == [priv |-> Zero, point |-> Zero, pub |-> Zero, ready |-> FALSE]
Loaded(k) == [priv |-> k, point |-> k, pub |-> k, ready |-> TRUE]

(* The stages of the computation in order, and the buffers that hold what  *)
(* must not be left behind once a stage has been tried.                    *)
After ==
    [check |-> "peer", peer |-> "multiply", multiply |-> "encode", encode |-> "hash",
     hash |-> "encrypt", encrypt |-> "cleanup"]

Fills ==
    [check |-> {}, peer |-> {}, multiply |-> {"shared_point"},
     encode |-> {"shared_encoded", "shared_x"}, hash |-> {"digest"},
     encrypt |-> {"plaintext", "aes", "response"}]

Buffers == {"salt", "shared_point", "shared_encoded", "shared_x", "digest", "plaintext", "aes", "response"}

NoAuth == [stage |-> "idle", full |-> {}, ok |-> FALSE, key |-> Zero]

TypeOK ==
    /\ allocated \in BOOLEAN /\ context \in Context
    /\ out \in Keys \cup {Zero}
    /\ auth \in [stage : {"idle", "cleanup", "returned"} \cup DOMAIN After,
                 full : SUBSET Buffers, ok : BOOLEAN, key : Keys \cup {Zero}]

Init == allocated = FALSE /\ context = Blank /\ out = Zero /\ auth = NoAuth

-----------------------------------------------------------------------------
(* The owner of the context.                                               *)

(* tesla_crypto_alloc: without memory, or without the curve, there is no   *)
(* context afterwards.                                                     *)
Alloc ==
    /\ ~allocated /\ allocated' \in BOOLEAN
    /\ UNCHANGED <<context, out, auth>>

(* tesla_crypto_free clears before it frees.                               *)
Free ==
    /\ allocated /\ auth = NoAuth
    /\ allocated' = FALSE /\ context' = Blank
    /\ UNCHANGED <<out, auth>>

(* Mutated form: key_ready is left as it was until the new key is in.      *)
WithKeyStillReady(k) ==
    {[priv |-> p[1], point |-> p[2], pub |-> p[3], ready |-> context.ready] :
        p \in {<<Zero, Zero, Zero>>, <<k, Zero, Zero>>, <<k, Part, Zero>>, <<k, k, Part>>}}
    \cup {Loaded(k)}

(* Mutated form: the old public key is not cleared before the load.        *)
WithKeyKeepsPublic(k) ==
    {[priv |-> p[1], point |-> p[2], pub |-> context.pub, ready |-> FALSE] :
        p \in {<<Zero, Zero>>, <<k, Zero>>, <<k, Part>>, <<k, k>>}}
    \cup {Loaded(k)}

(* tesla_crypto_set_private_key: what was there is cleared first.  It may  *)
(* fail to read the key, to accept it, to multiply, or to encode the point.*)
WithKey(k) ==
    {[priv |-> p[1], point |-> p[2], pub |-> p[3], ready |-> FALSE] :
        p \in {<<Zero, Zero, Zero>>, <<k, Zero, Zero>>, <<k, Part, Zero>>, <<k, k, Part>>}}
    \cup {Loaded(k)}

SetPrivateKey ==
    /\ allocated /\ auth = NoAuth
    /\ \E k \in Keys : context' \in WithKey(k)
    /\ UNCHANGED <<allocated, out, auth>>

(* Mutated form: the public key is handed out, complete or not.            *)
GenerateHandsOutPublic ==
    /\ allocated /\ auth = NoAuth
    /\ \/ out' = Zero /\ UNCHANGED context
       \/ \E k \in Keys : context' \in WithKey(k) /\ out' = context'.pub
    /\ UNCHANGED <<allocated, auth>>

(* tesla_crypto_generate_private_key: the buffer is cleared if the key     *)
(* cannot be generated, which leaves the context alone, or loaded.         *)
Generate ==
    /\ allocated /\ auth = NoAuth
    /\ \/ out' = Zero /\ UNCHANGED context
       \/ \E k \in Keys : /\ context' \in WithKey(k)
                          /\ out' = IF context'.ready THEN k ELSE Zero
    /\ UNCHANGED <<allocated, auth>>

(* tesla_crypto_get_public_key, Zero for NULL.                             *)
PublicKey == IF context.ready THEN context.pub ELSE Zero

-----------------------------------------------------------------------------
(* tesla_crypto_authenticate.                                              *)

Begin ==
    /\ allocated /\ auth = NoAuth
    /\ auth' = [NoAuth EXCEPT !.stage = "check", !.full = {"salt"}]
    /\ UNCHANGED <<allocated, context, out>>

(* Each stage goes on to the next or straight to the cleanup.  Without a   *)
(* key the first one fails; it may also dislike the peer's first byte.     *)
Stage(ok) ==
    /\ auth.stage \in DOMAIN After
    /\ auth.stage = "check" /\ ok => context.ready
    /\ auth' = [stage |-> IF ok THEN After[auth.stage] ELSE "cleanup",
                full  |-> auth.full \cup Fills[auth.stage],
                ok    |-> ok /\ auth.stage = "encrypt",
                key   |-> IF auth.stage = "multiply" THEN context.priv ELSE auth.key]
    /\ UNCHANGED <<allocated, context, out>>

(* Mutated form: what a failed encryption wrote is left in the response.   *)
CleanupOfSuccess ==
    /\ auth.stage = "cleanup"
    /\ auth' = [auth EXCEPT !.stage = "returned", !.full = @ \cap {"response"}]
    /\ UNCHANGED <<allocated, context, out>>

Cleanup ==
    /\ auth.stage = "cleanup"
    /\ auth' = [auth EXCEPT !.stage = "returned",
                            !.full = IF auth.ok THEN @ \cap {"response"} ELSE {}]
    /\ UNCHANGED <<allocated, context, out>>

(* The caller has copied the response into its answer and cleared it.      *)
Take ==
    /\ auth.stage = "returned" /\ auth' = NoAuth
    /\ UNCHANGED <<allocated, context, out>>

Next ==
    \/ Alloc \/ Free \/ SetPrivateKey \/ Generate
    \/ Begin \/ (\E ok \in BOOLEAN : Stage(ok)) \/ Cleanup \/ Take

Spec == Init /\ [][Next]_vars

-----------------------------------------------------------------------------
(* Safety.                                                                 *)

(* However the computation ends, and at whichever of its calls it failed,  *)
(* no secret nor anything computed from one is left in memory; the         *)
(* response is there if it is complete, and only then.                     *)
NothingLeftBehind ==
    auth.stage \in {"idle", "returned"} => auth.full = IF auth.ok THEN {"response"} ELSE {}

(* Whatever loads failed, and wherever, the memory of the context and of a *)
(* computation never mixes two keys, and a context that is ready has all   *)
(* three of its parts.  What a load that failed leaves is not ready, so    *)
(* the refinement below does not see it, but it lies there for the next    *)
(* call (tesla_crypto_set_private_key clears all that it is to replace).   *)
OneKeyInMemory ==
    LET parts == {context.priv, context.point, context.pub}
    IN  /\ \A p, q \in (parts \cup {auth.key}) \cap Keys : p = q
        /\ context.ready => parts \subseteq Keys

(* The context, after any sequence of calls, some of which failed halfway, *)
(* is one key or none to its callers: an authenticator it computes is made *)
(* with the private key of the public key that it has given out.           *)
Holder == INSTANCE KeyHolder WITH
    crypto <- IF allocated THEN PublicKey ELSE MaxIds + 1,
    proof  <- CASE auth.stage = "idle" -> [at |-> "none", key |-> Zero]
                [] auth.stage = "returned" ->
                       [at |-> "done", key |-> IF auth.ok THEN auth.key ELSE Zero]
                [] OTHER -> [at |-> "computing", key |-> Zero]

ImplementsHolder == Holder!HolderSpec

=============================================================================
