--------------------------- MODULE TeslaNfcProofs ---------------------------
(***************************************************************************)
(* Proofs about TeslaNfc for any set of requests, of any sizes and in any  *)
(* order, any capacity of the response buffer and any number of keys.      *)
(***************************************************************************)
EXTENDS TeslaNfc, TLAPS

-----------------------------------------------------------------------------
(* The answer to one request.                                              *)

(* What every answer to q satisfies.                                       *)
Fit(ans, q) ==
    /\ ans \in Answers
    /\ ans.reads <= q.size
    /\ ans.data <= ObjectSize(ans.command)
    /\ Capacity >= 2 => ans.size \in 2..Capacity /\ ans.size = ans.data + 2

LEMMA ObjectSizeNat ==
    /\ ObjectSize("GetPublicKey") = 65 /\ ObjectSize("Authenticate") = 16
    /\ ObjectSize("GetCardInfo") = 2
    /\ \A c \in Command : ObjectSize(c) \in Nat
  BY DEF ObjectSize, Command, PublicKeySize, AuthResponseSize, CardInfoSize

(* What every outcome of tesla_apdu_write_response satisfies.              *)
Written(ans, command, sw, data, reads) ==
    /\ ans \in Answers
    /\ ans.command = command /\ ans.reads = reads
    /\ ans.data <= data
    /\ Capacity >= 2 => ans.size \in 2..Capacity /\ ans.size = ans.data + 2
    /\ data = 0 => ans.sw = sw

LEMMA WriteFacts ==
    ASSUME NEW command \in Command, NEW sw \in StatusWord, NEW data \in Nat, NEW reads \in Nat,
           NEW ans,
           \/ ans = WriteResponse(command, sw, data, reads, FALSE)
           \/ ans = WriteResponse(command, sw, data, reads, TRUE)
    PROVE  Written(ans, command, sw, data, reads)
  <1> DEFINE fits == Capacity >= data + 2
             bare == Capacity >= 2
             d    == IF fits THEN data ELSE 0
             n    == IF fits THEN data + 2 ELSE IF bare THEN 2 ELSE 0
             w    == IF ~fits /\ bare THEN "WrongLength" ELSE sw
  <1>1. \/ ans = [command |-> command, sw |-> w, data |-> d, size |-> n, reads |-> reads, signs |-> FALSE]
        \/ ans = [command |-> command, sw |-> w, data |-> d, size |-> n, reads |-> reads, signs |-> TRUE]
    BY DEF WriteResponse
  <1>2. w \in StatusWord /\ (data = 0 => w = sw)
    BY CapacityOK DEF StatusWord
  <1>3. /\ d \in Nat /\ n \in Nat /\ d <= data
        /\ Capacity >= 2 => n \in 2..Capacity /\ n = d + 2
    BY CapacityOK
  <1> HIDE DEF d, n, w
  <1>4. /\ ans.command = command /\ ans.reads = reads /\ ans.data = d /\ ans.size = n /\ ans.sw = w
    BY <1>1
  <1>5. ans \in Answers
    <2>1. CASE ans = [command |-> command, sw |-> w, data |-> d, size |-> n, reads |-> reads, signs |-> FALSE]
      BY <2>1, <1>2, <1>3 DEF Answers
    <2>2. CASE ans = [command |-> command, sw |-> w, data |-> d, size |-> n, reads |-> reads, signs |-> TRUE]
      BY <2>2, <1>2, <1>3 DEF Answers
    <2> QED BY <1>1, <2>1, <2>2
  <1> QED BY <1>2, <1>3, <1>4, <1>5 DEF Written

LEMMA NoSignature ==
    ASSUME NEW command, NEW sw, NEW data, NEW reads,
           NEW ans, ans = WriteResponse(command, sw, data, reads, FALSE)
    PROVE  ~ans.signs
  BY DEF WriteResponse

LEMMA RequestFacts ==
    ASSUME NEW q \in Request
    PROVE  q.size \in Nat /\ q.lc \in Nat /\ q.last \in Nat
  <1>1. q.size \in Nat /\ q.lc \in Byte /\ q.last \in Byte
    BY DEF Request
  <1> QED BY <1>1 DEF Byte

LEMMA LeFacts ==
    ASSUME NEW q \in Request, NEW end \in Nat, NEW n \in Nat
    PROVE  Le(q, end, n) \in Nat /\ Le(q, end, n) <= n /\ (n > 0 => Le(q, end, n) > 0)
  <1> DEFINE le == IF end = 4 THEN q.lc ELSE q.last
  <1>1. le \in Nat
    BY RequestFacts
  <1>2. Le(q, end, n) = IF q.size = end + 1 /\ le # 0 THEN AtMost(le, n) ELSE n
    BY DEF Le
  <1> HIDE DEF le
  <1> QED BY <1>1, <1>2 DEF AtMost

LEMMA RefuseFacts ==
    ASSUME NEW q \in Request, NEW command \in Command, NEW sw \in StatusWord, NEW reads \in Nat,
           reads <= q.size, NEW ans, ans = Refuse(command, sw, reads)
    PROVE  /\ Fit(ans, q) /\ ans.command = command /\ ans.sw = sw /\ ans.data = 0 /\ ~ans.signs
  <1>1. ans = WriteResponse(command, sw, 0, reads, FALSE)
    BY DEF Refuse
  <1>2. Written(ans, command, sw, 0, reads)
    BY <1>1, 0 \in Nat, WriteFacts
  <1>3. ans.data = 0
    BY <1>2 DEF Written, Answers
  <1>4. ~ans.signs
    BY <1>1, NoSignature
  <1> QED BY <1>2, <1>3, <1>4, ObjectSizeNat DEF Fit, Written

LEMMA AnswerFacts ==
    ASSUME NEW q \in Request, q.size >= 4,
           NEW command \in {"GetPublicKey", "GetCardInfo"},
           NEW ans, ans = Answer(command, q, ObjectSize(command))
    PROVE  Fit(ans, q) /\ ans.command = command /\ ~ans.signs
  <1> DEFINE n     == Le(q, 4, ObjectSize(command))
             reads == IF q.size = 5 THEN 5 ELSE 3
  <1>3. command \in Command /\ "Success" \in StatusWord
    BY DEF Command, StatusWord
  <1>1. n \in Nat /\ n <= ObjectSize(command)
    <2>1. ObjectSize(command) \in Nat
      BY <1>3, ObjectSizeNat
    <2> HIDE DEF n
    <2> QED BY <2>1, 4 \in Nat, LeFacts DEF n
  <1>2. reads \in Nat /\ reads <= q.size
    BY RequestFacts
  <1>4. ans = WriteResponse(command, "Success", n, reads, FALSE)
    BY DEF Answer
  <1> HIDE DEF n, reads
  <1>5. Written(ans, command, "Success", n, reads)
    BY <1>1, <1>2, <1>3, <1>4, WriteFacts
  <1>6. ans.data <= ObjectSize(command)
    <2>1. ans.data \in Nat /\ ObjectSize(command) \in Nat
      BY <1>3, <1>5, ObjectSizeNat DEF Answers, Written
    <2> QED BY <1>1, <1>5, <2>1 DEF Written
  <1>7. ~ans.signs
    BY <1>4, NoSignature
  <1> QED BY <1>2, <1>5, <1>6, <1>7 DEF Fit, Written

LEMMA AuthenticateFacts ==
    ASSUME NEW q \in Request, q.size >= 4, NEW ok,
           NEW ans, ans = Authenticate(q, ok)
    PROVE  /\ Fit(ans, q) /\ ans.command = "Authenticate" /\ (ans.sw = "Success" => ok)
           /\ Capacity >= 2 /\ ans.sw = "Success" => ans.data > 0
  <1>0. q.size \in Nat /\ q.lc \in Nat /\ ObjectSize("Authenticate") = 16
    BY ObjectSizeNat, RequestFacts
  <1>1. /\ "Authenticate" \in Command
        /\ {"WrongLength", "Unknown", "Success"} \subseteq StatusWord
    BY DEF Command, StatusWord
  <1>2. CASE ~AuthDataArrived(q)
    <2>1. ans = Refuse("Authenticate", "WrongLength", IF q.size < 5 THEN 3 ELSE 5)
      BY <1>2 DEF Authenticate, Refuse
    <2>2. (IF q.size < 5 THEN 3 ELSE 5) \in Nat /\ (IF q.size < 5 THEN 3 ELSE 5) <= q.size
      BY <1>0
    <2>3. Fit(ans, q) /\ ans.command = "Authenticate" /\ ans.sw = "WrongLength"
      BY <1>1, <2>1, <2>2, RefuseFacts
    <2> QED BY <2>3
  <1>3. CASE AuthDataArrived(q)
    <2> DEFINE end   == 5 + q.lc
               reads == IF q.size = end + 1 THEN end + 1 ELSE 5 + AuthDataLen
               n     == IF ok THEN Le(q, end, AuthResponseSize) ELSE 0
               sw    == IF ok THEN "Success" ELSE "Unknown"
    <2>1. AuthDataLen = 81 /\ AuthResponseSize = 16
      BY DEF AuthDataLen, PublicKeySize, ChallengeSize, AuthResponseSize
    <2>2. reads \in Nat /\ reads <= q.size
      BY <1>0, <1>3, <2>1 DEF AuthDataArrived
    <2>3. n \in Nat /\ n <= 16 /\ (ok => n > 0)
      <3>1. end \in Nat
        BY <1>0
      <3>2. Le(q, end, 16) \in Nat /\ Le(q, end, 16) <= 16 /\ Le(q, end, 16) > 0
        BY <3>1, 16 \in Nat, 16 > 0, LeFacts
      <3> QED BY <2>1, <3>2
    <2>4. ans = WriteResponse("Authenticate", sw, n, reads, TRUE)
      BY <1>3 DEF Authenticate
    <2>5. sw \in StatusWord /\ (sw = "Success" => ok)
      BY <1>1
    <2> HIDE DEF reads, n, sw
    <2>6. Written(ans, "Authenticate", sw, n, reads)
      BY <1>1, <2>2, <2>3, <2>4, <2>5, WriteFacts
    <2>7. /\ ans.sw = "Success" => sw = "Success"
          /\ Capacity >= 2 /\ ans.sw = "Success" => ans.data = n
      BY <2>4 DEF WriteResponse
    <2> QED BY <1>0, <2>2, <2>3, <2>5, <2>6, <2>7 DEF Fit, Written, Answers
  <1> QED BY <1>2, <1>3

(* The arms of tesla_apdu_process.                                         *)
LEMMA ProcessArms ==
    ASSUME NEW sel, NEW q \in Request, NEW ok
    PROVE  /\ q.size < 4 => Process(sel, q, ok) = Refuse("None", "WrongLength", 0)
           /\ q.size >= 4 /\ IsSelect(q) =>
                  Process(sel, q, ok) =
                      Refuse("Select", IF NamesCard(q) THEN "Success" ELSE "FileNotFound", SelectReads(q))
           /\ q.size >= 4 /\ ~IsSelect(q) /\ ~sel =>
                  Process(sel, q, ok) = Refuse("Unsupported", "NotAllowed", 3)
           /\ q.size >= 4 /\ ~IsSelect(q) /\ sel /\ q.cla # "set" =>
                  Process(sel, q, ok) = Refuse("Unsupported", "ClaNotSupported", 3)
           /\ q.size >= 4 /\ ~IsSelect(q) /\ sel /\ q.cla = "set" =>
                  Process(sel, q, ok) =
                      CASE q.ins = "GetPublicKey" -> Answer("GetPublicKey", q, PublicKeySize)
                        [] q.ins = "Authenticate" -> Authenticate(q, ok)
                        [] q.ins = "GetCardInfo"  -> Answer("GetCardInfo", q, CardInfoSize)
                        [] OTHER -> Refuse("Unsupported", "InsNotSupported", 3)
  <1>1. q.size \in Nat
    BY RequestFacts
  <1>2. IsSelect(q) => q.cla # "set"
    BY DEF IsSelect
  <1>3. q.size < 4 <=> ~(q.size >= 4)
    BY <1>1
  <1> QED BY <1>2, <1>3 DEF Process

(* What the invariant needs of an answer: it fits; it gives data or uses   *)
(* the key only in a session; a selection succeeds when it names the card. *)
LEMMA ProcessFacts ==
    ASSUME NEW sel \in BOOLEAN, NEW q \in Request, NEW ok,
           NEW ans, ans = Process(sel, q, ok)
    PROVE  /\ Fit(ans, q)
           /\ ans.data > 0 \/ ans.signs => sel /\ ans.command # "Select"
           /\ ans.command = "Select" => q.size >= 4 /\ IsSelect(q)
           /\ q.size >= 4 /\ IsSelect(q) =>
                  ans.command = "Select" /\ (ans.sw = "Success" <=> NamesCard(q))
           /\ ans.sw = "Success" => ans.command \in Event
           /\ ans.command = "Authenticate" /\ ans.sw = "Success" => ok
           /\ Capacity >= 2 /\ ans.command = "Authenticate" /\ ans.sw = "Success" => ans.data > 0
  <1>0. /\ {"None", "Select", "Unsupported"} \subseteq Command
        /\ {"WrongLength", "NotAllowed", "FileNotFound", "ClaNotSupported", "InsNotSupported", "Success"}
               \subseteq StatusWord
        /\ q.size \in Nat
        /\ {"Select", "GetPublicKey", "Authenticate", "GetCardInfo"} \subseteq Event
    BY RequestFacts DEF Command, StatusWord, Event
  <1>1. CASE q.size < 4
    <2>1. ans = Refuse("None", "WrongLength", 0) /\ 0 <= q.size
      BY <1>0, <1>1, ProcessArms
    <2>2. Fit(ans, q) /\ ans.command = "None" /\ ans.sw = "WrongLength" /\ ans.data = 0 /\ ~ans.signs
      BY <1>0, <2>1, RefuseFacts
    <2> QED BY <1>0, <1>1, <2>2
  <1>2. CASE q.size >= 4 /\ IsSelect(q)
    <2> DEFINE sw == IF NamesCard(q) THEN "Success" ELSE "FileNotFound"
    <2>1. ans = Refuse("Select", sw, SelectReads(q))
      BY <1>2, ProcessArms
    <2>2. SelectReads(q) \in Nat /\ SelectReads(q) <= q.size
      BY <1>0, <1>2, RequestFacts DEF SelectReads, AidSize
    <2>3. sw \in StatusWord /\ (sw = "Success" <=> NamesCard(q))
      BY <1>0
    <2> HIDE DEF sw
    <2>4. Fit(ans, q) /\ ans.command = "Select" /\ ans.sw = sw /\ ans.data = 0 /\ ~ans.signs
      BY <1>0, <2>1, <2>2, <2>3, RefuseFacts
    <2> QED BY <1>0, <1>2, <2>3, <2>4
  <1>3. CASE q.size >= 4 /\ ~IsSelect(q) /\ (~sel \/ q.cla # "set")
    <2>1. PICK sw \in {"NotAllowed", "ClaNotSupported"} : ans = Refuse("Unsupported", sw, 3)
      BY <1>3, ProcessArms
    <2>2. Fit(ans, q) /\ ans.command = "Unsupported" /\ ans.sw = sw /\ ans.data = 0 /\ ~ans.signs
      BY <1>0, <1>3, <2>1, RefuseFacts
    <2> QED BY <1>3, <2>2
  <1>4. CASE q.size >= 4 /\ ~IsSelect(q) /\ sel /\ q.cla = "set"
    <2>0. q.size >= 4 /\ 3 \in Nat /\ 3 <= q.size
      BY <1>0, <1>4
    <2>1. \/ ans = Answer("GetPublicKey", q, PublicKeySize)
          \/ ans = Authenticate(q, ok)
          \/ ans = Answer("GetCardInfo", q, CardInfoSize)
          \/ ans = Refuse("Unsupported", "InsNotSupported", 3)
      BY <1>4, ProcessArms
    <2>2. CASE ans = Answer("GetPublicKey", q, PublicKeySize)
      <3>1. Fit(ans, q) /\ ans.command = "GetPublicKey" /\ ~ans.signs
        <4>1. PublicKeySize = ObjectSize("GetPublicKey")
          BY ObjectSizeNat DEF PublicKeySize
        <4> QED BY <1>4, <2>2, <4>1, AnswerFacts
      <3> QED BY <1>0, <1>4, <3>1
    <2>3. CASE ans = Authenticate(q, ok)
      <3>1. /\ Fit(ans, q) /\ ans.command = "Authenticate" /\ (ans.sw = "Success" => ok)
            /\ Capacity >= 2 /\ ans.sw = "Success" => ans.data > 0
        BY <2>0, <2>3, AuthenticateFacts
      <3> QED BY <1>0, <1>4, <3>1
    <2>4. CASE ans = Answer("GetCardInfo", q, CardInfoSize)
      <3>1. Fit(ans, q) /\ ans.command = "GetCardInfo" /\ ~ans.signs
        <4>1. CardInfoSize = ObjectSize("GetCardInfo")
          BY ObjectSizeNat DEF CardInfoSize
        <4> QED BY <1>4, <2>4, <4>1, AnswerFacts
      <3> QED BY <1>0, <1>4, <3>1
    <2>5. CASE ans = Refuse("Unsupported", "InsNotSupported", 3)
      <3>1. Fit(ans, q) /\ ans.command = "Unsupported" /\ ans.sw = "InsNotSupported" /\ ans.data = 0 /\ ~ans.signs
        BY <1>0, <2>0, <2>5, RefuseFacts
      <3> QED BY <1>4, <3>1
    <2> QED BY <2>1, <2>2, <2>3, <2>4, <2>5
  <1> QED BY <1>0, <1>1, <1>2, <1>3, <1>4

-----------------------------------------------------------------------------
(* The session, the call in flight and the computation in it.              *)

NfcInv ==
    /\ NfcTypeOK
    /\ selected => opened
    /\ listener = "none" => call = Idle
    /\ proof # NoProof => call.at = "received" /\ UsesKey(selected, call.q)
    /\ proof.at = "done" => proof.key \in {None, crypto}
    /\ call.at = "answered" =>
           /\ Fit(call.ans, call.q)
           /\ call.ans.data > 0 \/ call.ans.signs => opened
           /\ call.ans.sw = "Success" => call.ans.command \in Event
           /\ call.key \in {None, crypto}
           /\ call.ans.command = "Authenticate" /\ call.ans.sw = "Success" =>
                  call.key # None /\ (Capacity >= 2 => call.ans.data > 0)

NfcStep == (\E ok \in BOOLEAN : Start(ok)) \/ BeginStop \/ EndStop \/ Listen \/ Finish \/ Return

(* The key may change only while no call is in flight.                     *)
KeyStep == crypto' \in Ids \cup {None, Null} /\ (call # Idle => UNCHANGED crypto)

LEMMA CallKinds ==
    /\ Idle.at = "idle"
    /\ \A q : Received(q).at = "received" /\ Received(q).q = q
    /\ \A q, a, k : /\ Answered(q, a, k).at = "answered" /\ Answered(q, a, k).q = q
                    /\ Answered(q, a, k).ans = a /\ Answered(q, a, k).key = k
    /\ \A e : Telling(e).at = "telling" /\ Telling(e).event = e
  BY DEF Idle, Received, Answered, Telling

LEMMA ProofKinds ==
    /\ NoProof.at = "none" /\ NoProof.key = None
    /\ Computing.at = "computing" /\ Computing.key = None
    /\ \A k : Proof(k).at = "done" /\ Proof(k).key = k
  BY DEF NoProof, Computing, Proof

LEMMA SessionBoolean ==
    ASSUME NEW sel \in BOOLEAN, NEW q PROVE SelectedAfter(sel, q) \in BOOLEAN
  BY DEF SelectedAfter, NamesCard

LEMMA NfcInitInv == NfcInit /\ crypto \in Ids \cup {None, Null} => NfcInv
  BY CallKinds, ProofKinds DEF NfcInit, NfcInv, NfcTypeOK, HolderTypeOK, Idle, NoProof

LEMMA KeepsHolderType ==
    ASSUME HolderTypeOK, crypto' \in Ids \cup {None, Null},
           proof' \in {proof, NoProof, Computing} \/ \E k \in Ids \cup {None} : proof' = Proof(k)
    PROVE  HolderTypeOK'
  BY DEF HolderTypeOK

LEMMA NfcStepInv == NfcInv /\ (NfcStep \/ UNCHANGED nfcVars) /\ KeyStep => NfcInv'
  <1> SUFFICES ASSUME NfcInv, NfcStep \/ UNCHANGED nfcVars, KeyStep PROVE NfcInv'
    OBVIOUS
  <1> USE CallKinds, ProofKinds
  <1>0. /\ NfcTypeOK /\ HolderTypeOK
        /\ crypto' \in Ids \cup {None, Null} /\ (call.at # "idle" => UNCHANGED crypto)
        /\ call.at = "idle" => proof = NoProof
    BY DEF NfcInv, NfcTypeOK, KeyStep
  <1>1. CASE UNCHANGED nfcVars
    BY <1>0, <1>1, KeepsHolderType DEF nfcVars, NfcInv, NfcTypeOK, KeyStep, Fit
  <1>2. CASE \E ok \in BOOLEAN : Start(ok)
    BY <1>0, <1>2, KeepsHolderType DEF Start, ResetSession, NfcInv, NfcTypeOK
  <1>3. CASE BeginStop
    BY <1>0, <1>3, KeepsHolderType DEF BeginStop, NfcInv, NfcTypeOK, Fit
  <1>4. CASE EndStop
    BY <1>0, <1>4, KeepsHolderType DEF EndStop, ResetSession, NfcInv, NfcTypeOK
  <1>5. ASSUME NEW q \in Requests, Receive(q) PROVE NfcInv'
    BY <1>0, <1>5, KeepsHolderType DEF Receive, NfcInv, NfcTypeOK
  <1>6. ASSUME NEW e \in {"FieldOff", "Halted"}, LoseReader(e) PROVE NfcInv'
    <2>1. /\ call' = Telling(e) /\ e \in Event /\ proof = NoProof /\ UNCHANGED <<listener, proof>>
          /\ selected' = FALSE /\ opened' = FALSE /\ listener = "started"
      BY <1>0, <1>6 DEF LoseReader, ResetSession, Event, Idle
    <2>2. NfcTypeOK'
      BY <1>0, <2>1, KeepsHolderType DEF NfcTypeOK
    <2> QED BY <1>0, <2>1, <2>2 DEF NfcInv
  <1>7. CASE BeginAuthenticate
    BY <1>0, <1>7, KeepsHolderType DEF BeginAuthenticate, BeginProof, NfcInv, NfcTypeOK
  <1>8. CASE EndAuthenticate
    BY <1>0, <1>8, KeepsHolderType DEF EndAuthenticate, FinishProof, NfcInv, NfcTypeOK
  <1>9. CASE ProcessRequest
    <2> DEFINE ans == Process(selected, call.q, proof.key # None)
    <2>1. /\ call.at = "received" /\ call.q \in Request /\ UNCHANGED crypto
          /\ call' = Answered(call.q, ans, proof.key)
          /\ selected' = SelectedAfter(selected, call.q)
          /\ opened' = IF ans.command = "Select" THEN ans.sw = "Success" ELSE opened
          /\ UNCHANGED listener
      BY <1>0, <1>9, RequestsOK DEF ProcessRequest, NfcTypeOK
    <2>2. /\ proof' = NoProof /\ proof.key \in {None, crypto} /\ proof.key \in Ids \cup {None}
      <3>1. CASE UsesKey(selected, call.q)
        BY <1>0, <1>9, <3>1 DEF ProcessRequest, TakeProof, HolderTypeOK, NfcInv
      <3>2. CASE ~UsesKey(selected, call.q)
        BY <1>0, <1>9, <3>2 DEF ProcessRequest, holderVars, HolderTypeOK, NfcInv
      <3> QED BY <3>1, <3>2
    <2>3. /\ Fit(ans, call.q)
          /\ ans.data > 0 \/ ans.signs => selected /\ ans.command # "Select"
          /\ ans.command = "Select" => call.q.size >= 4 /\ IsSelect(call.q)
          /\ call.q.size >= 4 /\ IsSelect(call.q) =>
                 ans.command = "Select" /\ (ans.sw = "Success" <=> NamesCard(call.q))
          /\ ans.sw = "Success" => ans.command \in Event
          /\ ans.command = "Authenticate" /\ ans.sw = "Success" => proof.key # None
          /\ Capacity >= 2 /\ ans.command = "Authenticate" /\ ans.sw = "Success" => ans.data > 0
      <3>1. selected \in BOOLEAN
        BY <1>0 DEF NfcTypeOK
      <3> DEFINE ok == proof.key # None
      <3>2. ans = Process(selected, call.q, ok)
        OBVIOUS
      <3> HIDE DEF ans, ok
      <3>3. /\ Fit(ans, call.q)
            /\ ans.data > 0 \/ ans.signs => selected /\ ans.command # "Select"
            /\ ans.command = "Select" => call.q.size >= 4 /\ IsSelect(call.q)
            /\ call.q.size >= 4 /\ IsSelect(call.q) =>
                   ans.command = "Select" /\ (ans.sw = "Success" <=> NamesCard(call.q))
            /\ ans.sw = "Success" => ans.command \in Event
            /\ ans.command = "Authenticate" /\ ans.sw = "Success" => ok
            /\ Capacity >= 2 /\ ans.command = "Authenticate" /\ ans.sw = "Success" => ans.data > 0
        BY <2>1, <3>1, <3>2, ProcessFacts
      <3> QED BY <3>3 DEF ok
    <2> HIDE DEF ans
    <2>4. selected' \in BOOLEAN /\ opened' \in BOOLEAN
      <3>1. selected \in BOOLEAN /\ opened \in BOOLEAN
        BY <1>0 DEF NfcTypeOK
      <3>2. (ans.sw = "Success") \in BOOLEAN
        OBVIOUS
      <3> QED BY <2>1, <3>1, <3>2, SessionBoolean
    <2>5. selected' => opened'
      BY <2>1, <2>3 DEF SelectedAfter, NfcInv
    <2>6. /\ call'.at = "answered" /\ call'.q = call.q /\ call'.ans = ans /\ call'.key = proof.key
          /\ call.q \in Requests /\ listener # "none" /\ ans \in Answers
      BY <1>0, <2>1, <2>3 DEF NfcInv, NfcTypeOK, Idle, Fit
    <2>7. NfcTypeOK'
      <3>1. HolderTypeOK'
        BY <1>0, <2>2, KeepsHolderType
      <3> QED BY <1>0, <2>1, <2>2, <2>4, <2>6, <3>1 DEF NfcTypeOK
    <2>8. ans.data > 0 \/ ans.signs => opened'
      BY <2>1, <2>3 DEF NfcInv
    <2>9. Fit(call'.ans, call'.q)
      BY <2>3, <2>6
    <2>10. Fit(call.ans, call.q)'
      BY <2>9 DEF Fit
    <2> QED BY <2>1, <2>2, <2>3, <2>5, <2>6, <2>7, <2>8, <2>10 DEF NfcInv
  <1>10. ASSUME NEW sent \in BOOLEAN, SendAnswer(sent) PROVE NfcInv'
    <2>1. PICK e \in Event : call' = Telling(e)
      <3>1. call.ans.sw = "Success" => call.ans.command \in Event
        BY <1>10 DEF SendAnswer, NfcInv
      <3>2. "TransmitError" \in Event /\ "ProtocolError" \in Event
        BY DEF Event
      <3> QED BY <1>10, <3>1, <3>2 DEF SendAnswer, EventOf
    <2> QED BY <1>0, <1>10, <2>1, KeepsHolderType DEF SendAnswer, NfcInv, NfcTypeOK
  <1>11. CASE Return
    BY <1>0, <1>11, KeepsHolderType DEF Return, NfcInv, NfcTypeOK
  <1> QED
    BY <1>1, <1>2, <1>3, <1>4, <1>5, <1>6, <1>7, <1>8, <1>9, <1>10, <1>11
    DEF NfcStep, Listen, Finish

-----------------------------------------------------------------------------
(* The applet with a context that holds one key.                           *)

AppletInv == NfcInv /\ crypto \in Ids

LEMMA NfcInductive == NfcSpec => []AppletInv
  <1>1. AppletInit => AppletInv
    BY NfcInitInv DEF AppletInit, AppletInv
  <1>2. AppletInv /\ [NfcNext]_<<nfcVars, crypto>> => AppletInv'
    <2> SUFFICES ASSUME NfcInv, crypto \in Ids, [NfcNext]_<<nfcVars, crypto>>
                 PROVE  NfcInv' /\ crypto' \in Ids
      BY DEF AppletInv
    <2>1. (NfcStep \/ UNCHANGED nfcVars) /\ UNCHANGED crypto
      BY DEF NfcNext, NfcStep
    <2>2. KeyStep
      BY <2>1 DEF KeyStep
    <2> QED BY <2>1, <2>2, NfcStepInv
  <1> QED BY <1>1, <1>2, PTL DEF NfcSpec

(* The applet's state is what it is declared to be.                        *)
THEOREM NfcTypeCorrect == NfcSpec => []NfcTypeOK
  <1>1. AppletInv => NfcTypeOK
    BY DEF AppletInv, NfcInv
  <1> QED BY <1>1, NfcInductive, PTL

(* No length that a request claims makes tesla_apdu_process look beyond    *)
(* what has arrived.                                                       *)
THEOREM ReadsArrivedOnly == NfcSpec => []ReadsOnlyArrived
  <1>1. AppletInv => ReadsOnlyArrived
    BY DEF AppletInv, NfcInv, Fit, ReadsOnlyArrived
  <1> QED BY <1>1, NfcInductive, PTL

(* Every answer fits every buffer that can hold a status word.             *)
THEOREM AnswersAlwaysFit ==
    ASSUME Capacity >= 2 PROVE NfcSpec => []AnswersFit
  <1>1. AppletInv => AnswersFit
    BY DEF AppletInv, NfcInv, Fit, AnswersFit
  <1> QED BY <1>1, NfcInductive, PTL

(* A session ends with its reader and with its listener: nothing is given  *)
(* to a reader that has not selected the card.                             *)
THEOREM SessionsEnd == NfcSpec => []OnlyAfterSelect
  <1>1. AppletInv => OnlyAfterSelect
    BY DEF AppletInv, NfcInv, OnlyAfterSelect
  <1> QED BY <1>1, NfcInductive, PTL

LEMMA StepTold ==
    NfcInv /\ NfcStep /\ call.at = "answered" /\ call' = Telling("Authenticate") =>
        call.key # None /\ call.key = crypto /\ (Capacity >= 2 => call.ans.data > 0)
  <1> SUFFICES ASSUME NfcInv, NfcStep, call.at = "answered", call' = Telling("Authenticate")
               PROVE  call.key # None /\ call.key = crypto /\ (Capacity >= 2 => call.ans.data > 0)
    OBVIOUS
  <1>1. PICK sent \in BOOLEAN : SendAnswer(sent)
    <2>1. call # Idle /\ call' # Idle /\ call' # call
      BY CallKinds
    <2>2. call.at = "answered" /\ call'.at = "telling"
      BY CallKinds
    <2> QED
      BY <2>1, <2>2, CallKinds
      DEF NfcStep, Start, BeginStop, EndStop, Listen, Receive, LoseReader, Finish, BeginAuthenticate,
          EndAuthenticate, FinishProof, ProcessRequest, Return
  <1>2. (IF sent THEN EventOf(call.ans) ELSE "TransmitError") = "Authenticate"
    <2>1. call'.event = "Authenticate"
      BY CallKinds
    <2>2. call' = Telling(IF sent THEN EventOf(call.ans) ELSE "TransmitError")
      BY <1>1 DEF SendAnswer
    <2> QED BY <2>1, <2>2, CallKinds
  <1>3. call.ans.sw = "Success" /\ call.ans.command = "Authenticate"
    BY <1>2 DEF EventOf
  <1> QED BY <1>3 DEF NfcInv

(* The user is told of an authentication only if one was computed, with    *)
(* the card's key, and sent.                                               *)
THEOREM ToldIsProved ==
    ASSUME Capacity >= 2 PROVE NfcSpec => AuthenticatedMeansProved
  <1>1. AppletInv /\ [NfcNext]_<<nfcVars, crypto>> =>
            [call.at = "answered" /\ call' = Telling("Authenticate") =>
                call.key = crypto /\ call.ans.data > 0]_nfcVars
    <2> SUFFICES ASSUME NfcInv, NfcNext, call.at = "answered", call' = Telling("Authenticate")
                 PROVE  call.key = crypto /\ call.ans.data > 0
      BY DEF nfcVars, AppletInv
    <2>1. NfcStep
      BY DEF NfcNext, NfcStep
    <2> QED BY <2>1, StepTold
  <1> QED BY <1>1, NfcInductive, PTL DEF NfcSpec, AuthenticatedMeansProved

-----------------------------------------------------------------------------
(* A callback comes to its end: the steps it can still take, at most.      *)

CallLeft ==
    CASE call.at = "idle"     -> 0
      [] call.at = "telling"  -> 1
      [] call.at = "answered" -> 2
      [] call.at = "received" -> CASE proof.at = "done"      -> 3
                                   [] proof.at = "computing" -> 4
                                   [] proof.at = "none"      -> 5

LEMMA ProofStates == HolderTypeOK => proof.at \in {"none", "computing", "done"}
  BY ProofKinds DEF HolderTypeOK

LEMMA CallEnds ==
    /\ NfcInv => CallLeft \in 0..5 /\ (CallLeft = 0 <=> call.at = "idle")
    /\ NfcInv /\ (Finish \/ Return) => CallLeft' \in Nat /\ CallLeft' < CallLeft
  <1>1. NfcInv => /\ CallLeft \in 0..5 /\ (CallLeft = 0 <=> call.at = "idle")
                  /\ call.at = "received" => CallLeft \in 3..5
    <2>1. NfcInv => call.at \in {"idle", "telling", "answered", "received"}
                    /\ proof.at \in {"none", "computing", "done"}
      BY ProofStates DEF NfcInv, NfcTypeOK
    <2> QED BY <2>1 DEF CallLeft
  <1>2. ASSUME NfcInv, Finish \/ Return PROVE CallLeft' \in Nat /\ CallLeft' < CallLeft
    <2>1. CASE BeginAuthenticate
      BY <2>1, ProofKinds DEF BeginAuthenticate, BeginProof, CallLeft
    <2>2. CASE EndAuthenticate
      <3>1. call.at = "received" /\ call' = call /\ proof.at = "computing" /\ proof'.at = "done"
        BY <2>2, <1>2, ProofKinds DEF EndAuthenticate, FinishProof, NfcInv
      <3> QED BY <3>1 DEF CallLeft
    <2>3. CASE ProcessRequest
      <3>1. call.at = "received" /\ call'.at = "answered"
        BY <2>3, CallKinds DEF ProcessRequest
      <3>2. CallLeft \in 3..5
        BY <3>1, <1>1, <1>2
      <3>3. CallLeft' = 2
        BY <3>1 DEF CallLeft
      <3> QED BY <3>2, <3>3
    <2>4. ASSUME NEW sent \in BOOLEAN, SendAnswer(sent) PROVE CallLeft' \in Nat /\ CallLeft' < CallLeft
      <3>1. call.at = "answered" /\ call'.at = "telling"
        BY <2>4, CallKinds DEF SendAnswer
      <3> QED BY <3>1 DEF CallLeft
    <2>5. CASE Return
      <3>1. call.at = "telling" /\ call'.at = "idle"
        BY <2>5, CallKinds DEF Return
      <3> QED BY <3>1 DEF CallLeft
    <2> QED BY <1>2, <2>1, <2>2, <2>3, <2>4, <2>5 DEF Finish
  <1> QED BY <1>1, <1>2

=============================================================================
