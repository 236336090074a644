------------------------- MODULE TeslaCryptoProofs -------------------------
(***************************************************************************)
(* Proofs about TeslaCrypto for any number of keys.                        *)
(***************************************************************************)
EXTENDS TeslaCrypto, TLAPS

Stages == {"check", "peer", "multiply", "encode", "hash", "encrypt"}

(* A context that is ready is one key throughout; one that does not exist  *)
(* is blank.                                                               *)
OneKey ==
    /\ context.ready => \E k \in Keys : context = Loaded(k)
    /\ ~allocated => context = Blank

(* A computation that got past its first check has a key, and once it has  *)
(* multiplied it is bound to the key of the context.                       *)
Bound ==
    /\ auth.stage # "idle" => allocated
    /\ auth.stage = "idle" => auth = NoAuth
    /\ auth.stage \in Stages => ~auth.ok
    /\ auth.stage \in Stages \ {"check"} => context.ready
    /\ auth.stage \in {"encode", "hash", "encrypt"} => auth.key = context.priv
    /\ auth.ok => context.ready /\ auth.key = context.priv

(* What is in memory at the end of the computation, and once it returned.  *)
Left ==
    /\ auth.stage = "cleanup" /\ auth.ok => "response" \in auth.full
    /\ NothingLeftBehind

CryptoInv == OneKey /\ Bound /\ Left

-----------------------------------------------------------------------------
LEMMA KeyFacts ==
    /\ MaxIds \in Nat /\ MaxIds > 0
    /\ \A k \in Keys : k \in Nat /\ k > 0 /\ k <= MaxIds
    /\ Zero = 0 /\ Zero \notin Keys /\ Part = MaxIds + 1 /\ Part \notin Keys
  BY KeysOK DEF Keys, Zero, Part

LEMMA AfterFacts ==
    /\ DOMAIN After = Stages
    /\ \A s \in Stages : After[s] \in (Stages \ {"check"}) \cup {"cleanup"}
    /\ \A s \in Stages : After[s] = "cleanup" => s = "encrypt"
    /\ \A s \in Stages : After[s] = "encode" => s = "multiply"
    /\ \A s \in Stages : After[s] = "hash" => s = "encode"
    /\ \A s \in Stages : After[s] = "encrypt" => s = "hash"
    /\ \A s \in Stages : Fills[s] \in SUBSET Buffers
    /\ "response" \in Fills["encrypt"]
  BY DEF After, Fills, Stages, Buffers

(* What a load of a key leaves: a context that is ready is that key.       *)
LEMMA WithKeyFacts ==
    ASSUME NEW k \in Keys, NEW c \in WithKey(k)
    PROVE  c \in Context /\ (c.ready => c = Loaded(k))
  <1>1. CASE c = Loaded(k)
    BY <1>1 DEF Loaded, Context
  <1>2. CASE c # Loaded(k)
    <2>1. PICK p \in {<<Zero, Zero, Zero>>, <<k, Zero, Zero>>, <<k, Part, Zero>>, <<k, k, Part>>} :
              c = [priv |-> p[1], point |-> p[2], pub |-> p[3], ready |-> FALSE]
      BY <1>2 DEF WithKey
    <2>2. /\ p[1] \in Keys \cup {Zero} /\ p[2] \in Keys \cup {Zero, Part}
          /\ p[3] \in Keys \cup {Zero, Part}
      OBVIOUS
    <2> QED BY <2>1, <2>2 DEF Context
  <1> QED BY <1>1, <1>2

(* One stage, as far as the invariant looks at it.                         *)
LEMMA StageFacts ==
    ASSUME TypeOK, NEW ok \in BOOLEAN, Stage(ok)
    PROVE  /\ auth.stage \in Stages
           /\ auth'.stage = IF ok THEN After[auth.stage] ELSE "cleanup"
           /\ auth'.full = auth.full \cup Fills[auth.stage]
           /\ auth'.ok <=> ok /\ auth.stage = "encrypt"
           /\ auth'.key = IF auth.stage = "multiply" THEN context.priv ELSE auth.key
           /\ auth' \in [stage : {"idle", "cleanup", "returned"} \cup DOMAIN After,
                         full : SUBSET Buffers, ok : BOOLEAN, key : Keys \cup {Zero}]
  <1>1. auth.stage \in Stages /\ DOMAIN After = Stages
    BY AfterFacts DEF Stage
  <1>2. /\ auth'.stage = IF ok THEN After[auth.stage] ELSE "cleanup"
        /\ auth'.full = auth.full \cup Fills[auth.stage]
        /\ auth'.ok <=> ok /\ auth.stage = "encrypt"
        /\ auth'.key = IF auth.stage = "multiply" THEN context.priv ELSE auth.key
    BY DEF Stage
  <1>3. /\ (IF ok THEN After[auth.stage] ELSE "cleanup") \in {"cleanup"} \cup Stages
        /\ auth.full \cup Fills[auth.stage] \in SUBSET Buffers
    BY <1>1, AfterFacts DEF TypeOK
  <1>4. (IF auth.stage = "multiply" THEN context.priv ELSE auth.key) \in Keys \cup {Zero}
    BY DEF TypeOK, Context
  <1>5. (ok /\ auth.stage = "encrypt") \in BOOLEAN
    OBVIOUS
  <1> QED BY <1>1, <1>2, <1>3, <1>4, <1>5 DEF Stage

-----------------------------------------------------------------------------
LEMMA CryptoInit == Init => TypeOK /\ CryptoInv
  <1> SUFFICES ASSUME Init PROVE TypeOK /\ CryptoInv
    OBVIOUS
  <1>1. context \in Context /\ ~context.ready
    BY DEF Init, Blank, Context
  <1>2. auth \in [stage : {"idle", "cleanup", "returned"} \cup DOMAIN After,
                  full : SUBSET Buffers, ok : BOOLEAN, key : Keys \cup {Zero}]
    BY DEF Init, NoAuth
  <1>3. TypeOK
    BY <1>1, <1>2 DEF Init, TypeOK
  <1>4. CryptoInv
    BY <1>1 DEF Init, CryptoInv, OneKey, Bound, Left, NothingLeftBehind, NoAuth, Stages
  <1> QED BY <1>3, <1>4

LEMMA CryptoStep == TypeOK /\ CryptoInv /\ [Next]_vars => TypeOK' /\ CryptoInv'
  <1> SUFFICES ASSUME TypeOK, CryptoInv, [Next]_vars PROVE TypeOK' /\ CryptoInv'
    OBVIOUS
  <1> USE DEF CryptoInv
  <1>1. CASE Alloc
    BY <1>1 DEF Alloc, TypeOK, OneKey, Bound, Left, NothingLeftBehind
  <1>2. CASE Free
    <2>1. context' = Blank /\ Blank \in Context /\ ~Blank.ready
      BY <1>2 DEF Free, Blank, Context
    <2> QED BY <1>2, <2>1 DEF Free, TypeOK, OneKey, Bound, Left, NothingLeftBehind, NoAuth, Stages
  <1>3. CASE SetPrivateKey
    <2>1. PICK k \in Keys : context' \in WithKey(k)
      BY <1>3 DEF SetPrivateKey
    <2>2. context' \in Context /\ (context'.ready => context' = Loaded(k))
      BY <2>1, WithKeyFacts
    <2> QED BY <1>3, <2>2
        DEF SetPrivateKey, TypeOK, OneKey, Bound, Left, NothingLeftBehind, NoAuth, Stages
  <1>4. CASE Generate
    <2>1. /\ context' = context \/ \E k \in Keys : context' \in WithKey(k)
          /\ out' \in Keys \cup {Zero}
      BY <1>4 DEF Generate
    <2>2. context' \in Context /\ (context'.ready => \E k \in Keys : context' = Loaded(k))
      BY <2>1, WithKeyFacts DEF TypeOK, OneKey
    <2>3. allocated /\ auth = NoAuth /\ UNCHANGED <<allocated, auth>>
      BY <1>4 DEF Generate
    <2> QED BY <2>1, <2>2, <2>3
        DEF TypeOK, OneKey, Bound, Left, NothingLeftBehind, NoAuth, Stages
  <1>5. CASE Begin
    <2>1. auth' = [stage |-> "check", full |-> {"salt"}, ok |-> FALSE, key |-> Zero]
      BY <1>5 DEF Begin, NoAuth
    <2>2. "check" \in DOMAIN After /\ {"salt"} \in SUBSET Buffers
      BY AfterFacts DEF Stages, Buffers
    <2>3. auth' \in [stage : {"idle", "cleanup", "returned"} \cup DOMAIN After,
                     full : SUBSET Buffers, ok : BOOLEAN, key : Keys \cup {Zero}]
      BY <2>1, <2>2
    <2>4. allocated /\ UNCHANGED <<allocated, context, out>>
      BY <1>5 DEF Begin
    <2>5. TypeOK' /\ OneKey'
      BY <2>3, <2>4 DEF TypeOK, OneKey
    <2>6. auth'.stage = "check" /\ ~auth'.ok
      BY <2>1
    <2>7. Bound' /\ Left'
      BY <2>4, <2>6 DEF Bound, Left, NothingLeftBehind, Stages
    <2> QED BY <2>5, <2>7
  <1>6. ASSUME NEW ok \in BOOLEAN, Stage(ok) PROVE TypeOK' /\ CryptoInv'
    <2>1. UNCHANGED <<allocated, context, out>>
      BY <1>6 DEF Stage
    <2>2. TypeOK'
      BY <1>6, <2>1, StageFacts DEF TypeOK
    <2>3. OneKey'
      BY <2>1 DEF OneKey
    <2>4. auth.stage = "check" /\ ok => context.ready
      BY <1>6 DEF Stage
    <2>5. Bound'
      <3>1. /\ allocated /\ UNCHANGED <<allocated, context>>
            /\ auth.stage \in Stages /\ (ok => context.ready)
        BY <1>6, <2>1, <2>4, StageFacts DEF Bound, Stages
      <3>2. auth'.stage # "idle" /\ (auth'.stage \in Stages => ok /\ ~auth'.ok)
        <4>1. auth'.stage = IF ok THEN After[auth.stage] ELSE "cleanup"
          BY <1>6, StageFacts
        <4>2. auth'.ok => auth'.stage = "cleanup"
          <5>1. After["encrypt"] = "cleanup"
            BY DEF After
          <5> QED BY <1>6, <4>1, <5>1, StageFacts
        <4>3. After[auth.stage] # "idle"
          BY <3>1, AfterFacts DEF Stages
        <4>4. "cleanup" \notin Stages
          BY DEF Stages
        <4> QED BY <4>1, <4>2, <4>3, <4>4
      <3>3. /\ auth'.stage \in {"encode", "hash", "encrypt"} => auth'.key = context.priv
            /\ auth'.ok => ok /\ auth'.key = context.priv
        BY <1>6, <3>1, StageFacts, AfterFacts DEF Bound, Stages
      <3> QED BY <3>1, <3>2, <3>3 DEF Bound
    <2>6. Left'
      <3>1. auth'.stage \notin {"idle", "returned"}
        BY <1>6, StageFacts, AfterFacts DEF Stages
      <3>2. auth'.ok => "response" \in auth'.full
        BY <1>6, StageFacts, AfterFacts
      <3> QED BY <3>1, <3>2 DEF Left, NothingLeftBehind
    <2> QED BY <2>2, <2>3, <2>5, <2>6
  <1>7. CASE Cleanup
    <2>1. /\ auth'.stage = "returned" /\ auth'.ok = auth.ok /\ auth'.key = auth.key
          /\ auth'.full = IF auth.ok THEN auth.full \cap {"response"} ELSE {}
      BY <1>7 DEF Cleanup, TypeOK
    <2>2. TypeOK'
      BY <1>7 DEF Cleanup, TypeOK
    <2> QED BY <1>7, <2>1, <2>2 DEF Cleanup, OneKey, Bound, Left, NothingLeftBehind, Stages
  <1>8. CASE Take
    BY <1>8 DEF Take, TypeOK, OneKey, Bound, Left, NothingLeftBehind, NoAuth, Stages
  <1>9. CASE UNCHANGED vars
    BY <1>9 DEF vars, TypeOK, OneKey, Bound, Left, NothingLeftBehind
  <1> QED BY <1>1, <1>2, <1>3, <1>4, <1>5, <1>6, <1>7, <1>8, <1>9 DEF Next

LEMMA CryptoInductive == Spec => [](TypeOK /\ CryptoInv)
  BY CryptoInit, CryptoStep, PTL DEF Spec

(* The context is what it is declared to be, after any calls.              *)
THEOREM CryptoTypeCorrect == Spec => []TypeOK
  BY CryptoInductive, PTL

(* Wherever the computation of an authenticator stops, nothing secret is   *)
(* left behind.                                                            *)
THEOREM LeavesNothingBehind == Spec => []NothingLeftBehind
  <1>1. CryptoInv => NothingLeftBehind
    BY DEF CryptoInv, Left
  <1> QED BY <1>1, CryptoInductive, PTL

(* What is in memory besides the private key belongs to that key, that of  *)
(* a load or a computation that failed included.                           *)
OfOneKey ==
    /\ context.point \in Keys => context.point = context.priv
    /\ context.pub \in Keys => context.pub = context.priv
    /\ auth.key \in Keys => auth.key = context.priv

LEMMA WithKeyOfOneKey ==
    ASSUME NEW k \in Keys, NEW c \in WithKey(k)
    PROVE  /\ c.point \in Keys => c.point = c.priv
           /\ c.pub \in Keys => c.pub = c.priv
  <1>1. CASE c = Loaded(k)
    BY <1>1 DEF Loaded
  <1>2. CASE c # Loaded(k)
    <2>1. PICK p \in {<<Zero, Zero, Zero>>, <<k, Zero, Zero>>, <<k, Part, Zero>>, <<k, k, Part>>} :
              c = [priv |-> p[1], point |-> p[2], pub |-> p[3], ready |-> FALSE]
      BY <1>2 DEF WithKey
    <2>2. (p[2] \in Keys => p[2] = p[1]) /\ (p[3] \in Keys => p[3] = p[1])
      BY KeyFacts
    <2> QED BY <2>1, <2>2
  <1> QED BY <1>1, <1>2

LEMMA StepOfOneKey == TypeOK /\ CryptoInv /\ OfOneKey /\ [Next]_vars => OfOneKey'
  <1> SUFFICES ASSUME TypeOK, CryptoInv, OfOneKey, [Next]_vars PROVE OfOneKey'
    OBVIOUS
  <1>1. CASE Free
    <2>1. context' = Blank /\ auth' = NoAuth
      BY <1>1 DEF Free
    <2> QED BY <2>1, KeyFacts DEF OfOneKey, Blank, NoAuth
  <1>2. CASE SetPrivateKey \/ Generate
    <2>1. auth' = NoAuth /\ (context' = context \/ \E k \in Keys : context' \in WithKey(k))
      BY <1>2 DEF SetPrivateKey, Generate
    <2>2. /\ context'.point \in Keys => context'.point = context'.priv
          /\ context'.pub \in Keys => context'.pub = context'.priv
      BY <2>1, WithKeyOfOneKey DEF OfOneKey
    <2> QED BY <2>1, <2>2, KeyFacts DEF OfOneKey, NoAuth
  <1>3. ASSUME NEW ok \in BOOLEAN, Stage(ok) PROVE OfOneKey'
    <2>1. auth'.key \in {context.priv, auth.key} /\ context' = context
      BY <1>3, StageFacts DEF Stage
    <2> QED BY <2>1 DEF OfOneKey
  <1>4. CASE Alloc \/ Begin \/ Cleanup \/ Take \/ UNCHANGED vars
    <2>1. context' = context
      BY <1>4 DEF Alloc, Begin, Cleanup, Take, vars
    <2>2. auth'.key \in {auth.key, Zero}
      <3>1. CASE Begin \/ Take
        <4>1. NoAuth.key = Zero /\ [NoAuth EXCEPT !.stage = "check", !.full = {"salt"}].key = Zero
          BY DEF NoAuth
        <4> QED BY <3>1, <4>1 DEF Begin, Take
      <3>2. CASE Cleanup
        BY <3>2 DEF Cleanup, TypeOK
      <3>3. CASE Alloc \/ UNCHANGED vars
        BY <3>3 DEF Alloc, vars
      <3> QED BY <1>4, <3>1, <3>2, <3>3
    <2> QED BY <2>1, <2>2, KeyFacts DEF OfOneKey
  <1> QED BY <1>1, <1>2, <1>3, <1>4 DEF Next

(* The memory never mixes two keys, whichever calls failed in whatever     *)
(* order, and a context that is ready is complete.                         *)
THEOREM OneKeyAtATime == Spec => []OneKeyInMemory
  <1>1. Init => OfOneKey
    BY KeyFacts DEF Init, OfOneKey, Blank, NoAuth
  <1>2. Spec => []OfOneKey
    BY <1>1, StepOfOneKey, CryptoInductive, PTL DEF Spec
  <1>3. TypeOK /\ CryptoInv /\ OfOneKey => OneKeyInMemory
    <2> SUFFICES ASSUME TypeOK, CryptoInv, OfOneKey PROVE OneKeyInMemory
      OBVIOUS
    <2>1. \A p \in {context.priv, context.point, context.pub, auth.key} \cap Keys : p = context.priv
      BY DEF OfOneKey
    <2>2. context.ready => {context.priv, context.point, context.pub} \subseteq Keys
      <3>1. ASSUME context.ready, NEW k \in Keys, context = Loaded(k)
            PROVE  {context.priv, context.point, context.pub} \subseteq Keys
        BY <3>1 DEF Loaded
      <3> QED BY <3>1 DEF CryptoInv, OneKey
    <2> QED BY <2>1, <2>2 DEF OneKeyInMemory
  <1> QED BY <1>2, <1>3, CryptoInductive, PTL

-----------------------------------------------------------------------------
(* The context and its computation are one KeyHolder.                      *)

LEMMA PublicKeyFacts ==
    ASSUME TypeOK, CryptoInv
    PROVE  /\ PublicKey \in Keys \cup {Zero}
           /\ context.ready => PublicKey = context.priv /\ PublicKey \in Keys
  BY DEF TypeOK, CryptoInv, OneKey, PublicKey, Loaded

HolderCrypto == IF allocated THEN PublicKey ELSE MaxIds + 1
HolderProof ==
    CASE auth.stage = "idle" -> [at |-> "none", key |-> Zero]
      [] auth.stage = "returned" -> [at |-> "done", key |-> IF auth.ok THEN auth.key ELSE Zero]
      [] OTHER -> [at |-> "computing", key |-> Zero]

LEMMA HolderFacts ==
    /\ Holder!holderVars = <<HolderCrypto, HolderProof>>
    /\ Holder!None = Zero /\ Holder!Null = MaxIds + 1 /\ Holder!Ids = Keys
    /\ Holder!NoProof = [at |-> "none", key |-> Zero]
    /\ Holder!Computing = [at |-> "computing", key |-> Zero]
    /\ \A k : Holder!Proof(k) = [at |-> "done", key |-> k]
  BY DEF Holder!holderVars, Holder!None, Holder!Null, Holder!Ids, Holder!NoProof, Holder!Computing,
         Holder!Proof, HolderCrypto, HolderProof, Zero, Keys

LEMMA HolderStep == TypeOK /\ CryptoInv /\ [Next]_vars => [Holder!HolderNext]_(Holder!holderVars)
  <1> SUFFICES ASSUME TypeOK, CryptoInv, [Next]_vars, TypeOK', CryptoInv'
               PROVE  Holder!HolderNext \/ UNCHANGED Holder!holderVars
    BY CryptoStep
  <1>0. /\ PublicKey \in Keys \cup {Zero} /\ PublicKey' \in Keys \cup {Zero}
        /\ MaxIds + 1 \notin Keys \cup {Zero}
    <2>1. PublicKey' \in Keys \cup {Zero}
      BY PublicKeyFacts, CryptoStep DEF TypeOK, CryptoInv, OneKey, PublicKey, Loaded
    <2> QED BY <2>1, PublicKeyFacts, KeyFacts
  <1>1. CASE Alloc \/ Free \/ SetPrivateKey \/ Generate
    <2>1. auth = NoAuth /\ auth' = NoAuth
      BY <1>1 DEF Alloc, Free, SetPrivateKey, Generate, CryptoInv, Bound
    <2>2. HolderProof = Holder!NoProof /\ HolderProof' = HolderProof
      BY <2>1, HolderFacts DEF HolderProof, NoAuth
    <2>3. HolderCrypto' \in Keys \cup {Zero, MaxIds + 1}
      BY <1>0 DEF HolderCrypto
    <2>4. Holder!ChangeKey
      BY <2>2, <2>3, HolderFacts DEF Holder!ChangeKey, HolderProof, HolderCrypto
    <2> QED BY <2>4 DEF Holder!HolderNext
  <1>2. CASE Begin
    <2>1. HolderProof = Holder!NoProof /\ HolderProof' = Holder!Computing
      BY <1>2, HolderFacts DEF Begin, HolderProof, NoAuth
    <2>2. HolderCrypto # Holder!Null /\ HolderCrypto' = HolderCrypto
      BY <1>0, <1>2, HolderFacts DEF Begin, HolderCrypto, PublicKey
    <2>3. Holder!BeginProof
      BY <2>1, <2>2 DEF Holder!BeginProof, HolderProof, HolderCrypto
    <2> QED BY <2>3 DEF Holder!HolderNext
  <1>3. ASSUME NEW ok \in BOOLEAN, Stage(ok) PROVE UNCHANGED Holder!holderVars
    <2>1. auth.stage \in Stages /\ auth'.stage \in Stages \cup {"cleanup"}
      BY <1>3, StageFacts, AfterFacts
    <2>2. UNCHANGED HolderProof
      BY <2>1 DEF HolderProof, Stages
    <2>3. UNCHANGED HolderCrypto
      BY <1>3 DEF Stage, HolderCrypto, PublicKey
    <2> QED BY <2>2, <2>3, HolderFacts DEF HolderProof, HolderCrypto, Holder!holderVars
  <1>4. CASE Cleanup
    <2>1. auth.stage = "cleanup" /\ auth'.stage = "returned" /\ auth'.ok = auth.ok /\ auth'.key = auth.key
      BY <1>4 DEF Cleanup, TypeOK
    <2>2. /\ HolderProof = Holder!Computing
          /\ HolderProof' = Holder!Proof(IF auth.ok THEN auth.key ELSE Zero)
      BY <2>1, HolderFacts DEF HolderProof
    <2>3. auth.ok => allocated /\ auth.key = PublicKey /\ PublicKey \in Keys
      BY <2>1, PublicKeyFacts DEF CryptoInv, Bound
    <2>4. (IF auth.ok THEN auth.key ELSE Zero) \in {Zero} \cup (Keys \cap {HolderCrypto})
      BY <2>3 DEF HolderCrypto
    <2>5. HolderCrypto' = HolderCrypto
      BY <1>4 DEF Cleanup, HolderCrypto, PublicKey
    <2>6. Holder!FinishProof
      BY <2>2, <2>4, <2>5, HolderFacts DEF Holder!FinishProof, HolderProof, HolderCrypto
    <2> QED BY <2>6 DEF Holder!HolderNext
  <1>5. CASE Take
    <2>1. HolderProof.at = "done" /\ HolderProof' = Holder!NoProof
      BY <1>5, HolderFacts DEF Take, HolderProof, NoAuth
    <2>2. HolderCrypto' = HolderCrypto
      BY <1>5 DEF Take, HolderCrypto, PublicKey
    <2>3. Holder!TakeProof
      BY <2>1, <2>2 DEF Holder!TakeProof, HolderProof, HolderCrypto
    <2> QED BY <2>3 DEF Holder!HolderNext
  <1>6. CASE UNCHANGED vars
    BY <1>6 DEF vars, Holder!holderVars, PublicKey
  <1> QED BY <1>1, <1>2, <1>3, <1>4, <1>5, <1>6 DEF Next

(* What the rest of the app relies on in the crypto context: one key or    *)
(* none, and authenticators made with that key only.                       *)
THEOREM CryptoIsAHolder == Spec => ImplementsHolder
  <1>1. Init => Holder!HolderInit
    <2> SUFFICES ASSUME Init PROVE Holder!HolderInit
      OBVIOUS
    <2>1. HolderCrypto = Holder!Null /\ HolderProof = Holder!NoProof
      BY HolderFacts DEF Init, HolderCrypto, HolderProof, NoAuth
    <2> QED BY <2>1 DEF Holder!HolderInit, HolderCrypto, HolderProof
  <1> QED BY <1>1, HolderStep, CryptoInductive, PTL DEF Spec, ImplementsHolder, Holder!HolderSpec

-----------------------------------------------------------------------------
(* Over one computation.                                                   *)

(* The context is one key or none: a key that is ready is, all through,    *)
(* the private key, its point and its public key, however earlier loads    *)
(* failed.                                                                 *)
ReadyIsWhole == context.ready => allocated /\ \E k \in Keys : context = Loaded(k)

(* An authenticator that is handed back was computed with the private key  *)
(* of the public key that the context still gives out, so a reader that    *)
(* has been given that public key can verify it.                           *)
Verifiable == auth.stage = "returned" /\ auth.ok => PublicKey = auth.key /\ auth.key \in Keys

THEOREM ContextIsWhole == Spec => [](ReadyIsWhole /\ Verifiable)
  <1>1. TypeOK /\ CryptoInv => ReadyIsWhole /\ Verifiable
    <2> SUFFICES ASSUME TypeOK, CryptoInv PROVE ReadyIsWhole /\ Verifiable
      OBVIOUS
    <2>1. ReadyIsWhole
      <3>1. ~Blank.ready
        BY DEF Blank
      <3> QED BY <3>1, Zenon DEF CryptoInv, OneKey, ReadyIsWhole
    <2>2. ASSUME auth.stage = "returned", auth.ok PROVE PublicKey = auth.key /\ auth.key \in Keys
      <3>1. context.ready /\ auth.key = context.priv
        BY <2>2 DEF CryptoInv, Bound
      <3>2. PICK k \in Keys : context = Loaded(k)
        BY <3>1 DEF CryptoInv, OneKey
      <3> QED BY <3>1, <3>2 DEF Loaded, PublicKey
    <2> QED BY <2>1, <2>2 DEF Verifiable
  <1> QED BY <1>1, CryptoInductive, PTL

(* The stages of the computation that are still ahead, with its cleanup    *)
(* and its return.                                                         *)
StagesLeft ==
    CASE auth.stage = "idle"     -> 0
      [] auth.stage = "returned" -> 1
      [] auth.stage = "cleanup"  -> 2
      [] auth.stage = "encrypt"  -> 3
      [] auth.stage = "hash"     -> 4
      [] auth.stage = "encode"   -> 5
      [] auth.stage = "multiply" -> 6
      [] auth.stage = "peer"     -> 7
      [] auth.stage = "check"    -> 8

AuthStep == (\E ok \in BOOLEAN : Stage(ok)) \/ Cleanup \/ Take

LEMMA StepStages ==
    TypeOK /\ [Next]_vars => [AuthStep => StagesLeft' < StagesLeft /\ UNCHANGED <<allocated, context>>]_vars
  <1> SUFFICES ASSUME TypeOK, AuthStep PROVE StagesLeft' < StagesLeft /\ UNCHANGED <<allocated, context>>
    OBVIOUS
  <1>0. UNCHANGED <<allocated, context>>
    BY DEF AuthStep, Stage, Cleanup, Take
  <1>1. ASSUME NEW ok \in BOOLEAN, Stage(ok) PROVE StagesLeft' < StagesLeft
    <2>1. auth.stage \in Stages /\ (auth'.stage = After[auth.stage] \/ auth'.stage = "cleanup")
      BY <1>1, AfterFacts DEF Stage
    <2>2. /\ auth.stage = "check"    => auth'.stage \in {"peer", "cleanup"}
          /\ auth.stage = "peer"     => auth'.stage \in {"multiply", "cleanup"}
          /\ auth.stage = "multiply" => auth'.stage \in {"encode", "cleanup"}
          /\ auth.stage = "encode"   => auth'.stage \in {"hash", "cleanup"}
          /\ auth.stage = "hash"     => auth'.stage \in {"encrypt", "cleanup"}
          /\ auth.stage = "encrypt"  => auth'.stage = "cleanup"
      BY <2>1 DEF After
    <2> QED BY <2>1, <2>2 DEF StagesLeft, Stages
  <1>2. CASE Cleanup
    <2>1. auth.stage = "cleanup" /\ auth'.stage = "returned"
      BY <1>2 DEF Cleanup, TypeOK
    <2> QED BY <1>0, <2>1 DEF StagesLeft
  <1>3. CASE Take
    <2>1. auth.stage = "returned" /\ auth'.stage = "idle"
      BY <1>3 DEF Take, NoAuth
    <2> QED BY <1>0, <2>1 DEF StagesLeft
  <1> QED BY <1>0, <1>1, <1>2, <1>3 DEF AuthStep

(* An authentication passes through its cleanup and returns after at most  *)
(* eight steps, whichever stage fails, and none of them touches the key.   *)
THEOREM AuthenticateEnds ==
    Spec => /\ [](StagesLeft \in 0..8 /\ (StagesLeft = 0 <=> auth.stage = "idle"))
            /\ [][AuthStep => StagesLeft' < StagesLeft /\ UNCHANGED <<allocated, context>>]_vars
  <1>1. TypeOK => StagesLeft \in 0..8 /\ (StagesLeft = 0 <=> auth.stage = "idle")
    <2>1. TypeOK => auth.stage \in {"idle", "cleanup", "returned"} \cup Stages
      <3>1. TypeOK => auth.stage \in {"idle", "cleanup", "returned"} \cup DOMAIN After
        BY DEF TypeOK
      <3> QED BY <3>1, AfterFacts
    <2>2. auth.stage = "idle" => StagesLeft = 0
      BY DEF StagesLeft
    <2>3. auth.stage \in {"cleanup", "returned"} \cup Stages => StagesLeft \in 1..8
      BY DEF StagesLeft, Stages
    <2>4. "idle" \notin {"cleanup", "returned"} \cup Stages
      BY DEF Stages
    <2> QED BY <2>1, <2>2, <2>3, <2>4
  <1> QED BY <1>1, StepStages, CryptoInductive, PTL DEF Spec

=============================================================================
