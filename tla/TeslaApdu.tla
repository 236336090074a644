----------------------------- MODULE TeslaApdu -----------------------------
(***************************************************************************)
(* tesla_apdu.c: the answer to one command, as a function of the session   *)
(* and the request.  A request is what the code looks at in its bytes:     *)
(*   size  how many bytes arrived                                          *)
(*   cla   byte 0: "zero", or bit 7 "clear" or "set"                       *)
(*   ins   byte 1, named           p1    byte 2, named                     *)
(*   lc    byte 4: Lc, or the Le of a request of five bytes                *)
(*   aid   the ten bytes from byte 5 on, named                             *)
(*   last  the last byte: the Le of a request that ends with one           *)
(* A field whose bytes did not arrive means nothing.                       *)
(***************************************************************************)
EXTENDS Naturals

CONSTANT Capacity    \* response_capacity: TESLA_APDU_RESPONSE_MAX, 67

ASSUME CapacityOK == Capacity \in Nat

PublicKeySize    == 65
ChallengeSize    == 16
AuthResponseSize == 16
AuthDataLen      == PublicKeySize + ChallengeSize
AidSize          == 10
CardInfoSize     == 2

Byte == 0..255

Command == {"None", "Select", "GetPublicKey", "Authenticate", "GetCardInfo", "Unsupported"}
StatusWord ==
    {"Success", "WrongLength", "NotAllowed", "FileNotFound",
     "ClaNotSupported", "InsNotSupported", "Unknown"}

Request ==
    [size : Nat, cla : {"zero", "clear", "set"},
     ins : {"SELECT", "GetPublicKey", "Authenticate", "GetCardInfo", "other"},
     p1 : {"by name", "other"}, lc : Byte, aid : {"card", "phone", "other"}, last : Byte]

AtMost(m, n) == IF m <= n THEN m ELSE n

-----------------------------------------------------------------------------
(* The outcome of a request, besides the session it leaves:                *)
(*   data    bytes of data answered      size  with the status word        *)
(*   reads   how many leading bytes of the request were looked at          *)
(*   signs   whether the private key was used                              *)

(* tesla_apdu_write_response: an answer that does not fit becomes a bare   *)
(* status word, and nothing at all when not even that fits.                *)
WriteResponse(command, sw, data, reads, signs) ==
    LET fits == Capacity >= data + 2
        bare == Capacity >= 2
    IN  [command |-> command,
         sw      |-> IF ~fits /\ bare THEN "WrongLength" ELSE sw,
         data    |-> IF fits THEN data ELSE 0,
         size    |-> IF fits THEN data + 2 ELSE IF bare THEN 2 ELSE 0,
         reads   |-> reads, signs |-> signs]

(* Mutated form: a Le is obeyed even when it asks for more than there is.  *)
LeObeyed(q, end, n) ==
    LET le == IF end = 4 THEN q.lc ELSE q.last
    IN  IF q.size = end + 1 /\ le # 0 THEN le ELSE n

(* tesla_apdu_apply_le (end = 4) and tesla_apdu_apply_case4_le: a request  *)
(* that ends with a Le, one byte past end, gets no more than it asks for;  *)
(* Le 0 asks for everything.                                               *)
Le(q, end, n) ==
    LET le == IF end = 4 THEN q.lc ELSE q.last
    IN  IF q.size = end + 1 /\ le # 0 THEN AtMost(le, n) ELSE n

IsSelect(q) == q.cla = "zero" /\ q.ins = "SELECT" /\ q.p1 = "by name"

(* SELECT and tesla_apdu_aid_matches: the name is complete and one of the  *)
(* two; a longer name that begins with it matches as well.                 *)
NamesCard(q) ==
    /\ q.size >= 5 /\ q.lc <= q.size - 5
    /\ q.lc >= AidSize /\ q.aid \in {"card", "phone"}

SelectReads(q) ==
    IF q.size < 5 THEN 3
    ELSE IF q.lc <= q.size - 5 /\ q.lc >= AidSize THEN 5 + AidSize ELSE 5

(* Mutated form: the length in Lc is believed without having arrived.      *)
AuthDataBelieved(q) == q.size >= 5 /\ q.lc >= AuthDataLen

(* The peer's key and the challenge have arrived in full.                  *)
AuthDataArrived(q) == q.size >= 5 /\ q.lc >= AuthDataLen /\ q.size >= 5 + q.lc

(* Mutated form: a failed computation is answered like a success.          *)
AuthenticateUnchecked(q, authOk) ==
    IF ~AuthDataArrived(q)
    THEN WriteResponse("Authenticate", "WrongLength", 0, IF q.size < 5 THEN 3 ELSE 5, FALSE)
    ELSE WriteResponse("Authenticate", "Success",
            IF authOk THEN AuthResponseSize ELSE 0, 5 + AuthDataLen, TRUE)

(* AUTHENTICATE: one use of the private key for each complete request.     *)
Authenticate(q, authOk) ==
    IF ~AuthDataArrived(q)
    THEN WriteResponse("Authenticate", "WrongLength", 0, IF q.size < 5 THEN 3 ELSE 5, FALSE)
    ELSE LET end   == 5 + q.lc
             reads == IF q.size = end + 1 THEN end + 1 ELSE 5 + AuthDataLen
         IN  IF authOk
             THEN WriteResponse("Authenticate", "Success", Le(q, end, AuthResponseSize), reads, TRUE)
             ELSE WriteResponse("Authenticate", "Unknown", 0, reads, TRUE)

(* GET_PUBLIC_KEY and GET_CARD_INFO: n bytes that do not depend on the     *)
(* request.                                                                *)
Answer(command, q, n) ==
    LET reads == IF q.size = 5 THEN 5 ELSE 3
    IN  WriteResponse(command, "Success", Le(q, 4, n), reads, FALSE)

Refuse(command, sw, reads) == WriteResponse(command, sw, 0, reads, FALSE)

(* tesla_apdu_process, its checks in the order of the code.                *)
Process(selected, q, authOk) ==
    CASE q.size < 4 ->
            Refuse("None", "WrongLength", 0)
      [] q.size >= 4 /\ IsSelect(q) ->
            Refuse("Select", IF NamesCard(q) THEN "Success" ELSE "FileNotFound", SelectReads(q))
      [] q.size >= 4 /\ ~IsSelect(q) /\ ~selected ->
            Refuse("Unsupported", "NotAllowed", 3)
      [] q.size >= 4 /\ ~IsSelect(q) /\ selected /\ q.cla # "set" ->
            Refuse("Unsupported", "ClaNotSupported", 3)
      [] q.size >= 4 /\ selected /\ q.cla = "set" ->
            CASE q.ins = "GetPublicKey" -> Answer("GetPublicKey", q, PublicKeySize)
              [] q.ins = "Authenticate" -> Authenticate(q, authOk)
              [] q.ins = "GetCardInfo"  -> Answer("GetCardInfo", q, CardInfoSize)
              [] OTHER -> Refuse("Unsupported", "InsNotSupported", 3)

(* Whether processing q calls the authenticate callback.                   *)
UsesKey(selected, q) ==
    /\ ~IsSelect(q) /\ selected /\ q.cla = "set"
    /\ q.ins = "Authenticate" /\ AuthDataArrived(q)

(* The session afterwards: a SELECT decides it, nothing else touches it.   *)
SelectedAfter(selected, q) == IF q.size >= 4 /\ IsSelect(q) THEN NamesCard(q) ELSE selected

=============================================================================
