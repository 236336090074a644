------------------------------ MODULE TeslaNfc ------------------------------
(***************************************************************************)
(* tesla_nfc.c: the applet between the firmware's NFC listener and the     *)
(* app.  The listener's worker thread calls tesla_nfc_listener_callback    *)
(* for one event at a time; another thread starts and stops the listener.  *)
(*                                                                         *)
(* The listener is the firmware's: stopping it tells the worker to take no *)
(* new event and joins it, so a callback in flight runs to its end.        *)
(*                                                                         *)
(* The computation of an authenticator takes its time; it is the one of    *)
(* KeyHolder, with the key that the crypto context holds.                  *)
(***************************************************************************)
EXTENDS TeslaApdu, KeyHolder

CONSTANT Requests    \* bound: what readers send

ASSUME RequestsOK == Requests \subseteq Request

VARIABLES
    listener,   \* nfc->listener: "none", "started", or "stopping" during the join
    selected,   \* nfc->apdu.selected
    call,       \* the callback in flight
    \* History, read by no action of the program:
    opened      \* a SELECT was answered with success, the last one since the
                \* reader came into the field

nfcVars == <<listener, selected, call, opened, proof>>

Event ==
    {"FieldOff", "Halted", "Select", "GetPublicKey", "Authenticate", "GetCardInfo",
     "ProtocolError", "TransmitError"}

(* An answered call remembers, for the properties only, the key that the   *)
(* authenticator in the answer was computed with, None if there is none.   *)
Idle              == [at |-> "idle"]
Received(q)       == [at |-> "received", q |-> q]
Answered(q, a, k) == [at |-> "answered", q |-> q, ans |-> a, key |-> k]
Telling(e)        == [at |-> "telling", event |-> e]

Answers ==
    [command : Command, sw : StatusWord, data : Nat, size : Nat, reads : Nat, signs : BOOLEAN]

NfcTypeOK ==
    /\ listener \in {"none", "started", "stopping"}
    /\ selected \in BOOLEAN /\ opened \in BOOLEAN
    /\ call.at \in {"idle", "received", "answered", "telling"}
    /\ call.at \in {"received", "answered"} => call.q \in Requests
    /\ call.at = "answered" => call.ans \in Answers /\ call.key \in Ids \cup {None}
    /\ call.at = "telling" => call.event \in Event
    /\ HolderTypeOK

NfcInit ==
    /\ listener = "none" /\ selected = FALSE /\ call = Idle /\ opened = FALSE
    /\ proof = NoProof

-----------------------------------------------------------------------------
(* The thread that owns the applet.                                        *)

(* Mutated form: the session outlives its reader.                          *)
ResetSessionSkipped == UNCHANGED selected

ResetSession == selected' = FALSE

(* tesla_nfc_start, with nfc_listener_alloc giving a listener or none.     *)
Start(ok) ==
    /\ listener = "none" /\ listener' = (IF ok THEN "started" ELSE "none")
    /\ ResetSession /\ opened' = FALSE
    /\ UNCHANGED <<call, proof>>

(* tesla_nfc_stop: the join in nfc_listener_stop begins, and returns.      *)
BeginStop == listener = "started" /\ listener' = "stopping" /\ UNCHANGED <<selected, call, opened, proof>>

EndStop ==
    /\ listener = "stopping" /\ call = Idle
    /\ listener' = "none" /\ ResetSession /\ opened' = FALSE
    /\ UNCHANGED <<call, proof>>

-----------------------------------------------------------------------------
(* The listener's worker.                                                  *)

Receive(q) ==
    /\ listener = "started" /\ call = Idle /\ call' = Received(q)
    /\ UNCHANGED <<listener, selected, opened, proof>>

(* tesla_nfc_authenticate, called back by tesla_apdu_process: the          *)
(* computation begins and ends.                                            *)
BeginAuthenticate ==
    /\ call.at = "received" /\ UsesKey(selected, call.q) /\ BeginProof
    /\ UNCHANGED <<listener, selected, call, opened>>

EndAuthenticate == FinishProof /\ UNCHANGED <<listener, selected, call, opened>>

(* tesla_apdu_process, the rest of it.                                     *)
ProcessRequest ==
    /\ call.at = "received"
    /\ IF UsesKey(selected, call.q) THEN TakeProof ELSE UNCHANGED holderVars
    /\ LET ans == Process(selected, call.q, proof.key # None)
       IN  /\ call' = Answered(call.q, ans, proof.key)
           /\ opened' = IF ans.command = "Select" THEN ans.sw = "Success" ELSE opened
    /\ selected' = SelectedAfter(selected, call.q)
    /\ UNCHANGED listener

EventOf(ans) == IF ans.sw = "Success" THEN ans.command ELSE "ProtocolError"

(* iso14443_4a_listener_send_block, and which event is then told.          *)
SendAnswer(sent) ==
    /\ call.at = "answered"
    /\ call' = Telling(IF sent THEN EventOf(call.ans) ELSE "TransmitError")
    /\ UNCHANGED <<listener, selected, opened, proof>>

(* The reader leaves, or ends the exchange.                                *)
LoseReader(event) ==
    /\ listener = "started" /\ call = Idle
    /\ ResetSession /\ opened' = FALSE
    /\ call' = Telling(event)
    /\ UNCHANGED <<listener, proof>>

(* tesla_nfc_notify has returned.                                          *)
Return == call.at = "telling" /\ call' = Idle /\ UNCHANGED <<listener, selected, opened, proof>>

Listen ==
    \/ \E q \in Requests : Receive(q)
    \/ \E event \in {"FieldOff", "Halted"} : LoseReader(event)

Finish ==
    \/ BeginAuthenticate \/ EndAuthenticate \/ ProcessRequest
    \/ \E ok \in BOOLEAN : SendAnswer(ok)

(* The applet by itself: the context holds the key that it held when the   *)
(* applet was made.                                                        *)
AppletInit == NfcInit /\ crypto \in Ids

NfcNext ==
    /\ (\E ok \in BOOLEAN : Start(ok)) \/ BeginStop \/ EndStop \/ Listen \/ Finish \/ Return
    /\ UNCHANGED crypto

NfcSpec == AppletInit /\ [][NfcNext]_<<nfcVars, crypto>>

-----------------------------------------------------------------------------
(* Safety.                                                                 *)

(* Whatever lengths a request claims, tesla_apdu_process looks only at     *)
(* bytes that have arrived; behind them lies what an earlier and longer    *)
(* request left in the listener's buffer.                                  *)
ReadsOnlyArrived == call.at = "answered" => call.ans.reads <= call.q.size

ObjectSize(command) ==
    CASE command = "GetPublicKey" -> PublicKeySize
      [] command = "Authenticate" -> AuthResponseSize
      [] command = "GetCardInfo"  -> CardInfoSize
      [] OTHER -> 0

(* Every request is answered, with at least a status word; the answer fits *)
(* the buffers on the way and holds nothing from beyond the end of the     *)
(* object asked for, whatever Le says.                                     *)
AnswersFit ==
    call.at = "answered" =>
        /\ call.ans.size \in 2..Capacity
        /\ call.ans.size = call.ans.data + 2
        /\ call.ans.data <= ObjectSize(call.ans.command)

(* Data is given out, and the private key used, only for a reader whose    *)
(* last SELECT since it came into the field was answered with success: a   *)
(* session outlives neither its reader nor a stop of the listener.         *)
OnlyAfterSelect ==
    call.at = "answered" /\ (call.ans.data > 0 \/ call.ans.signs) => opened

(* "Authenticated" is told to the user only after an authenticator has     *)
(* been computed with the card's key and handed to the radio.              *)
AuthenticatedMeansProved ==
    [][call.at = "answered" /\ call' = Telling("Authenticate") =>
            call.key = crypto /\ call.ans.data > 0]_nfcVars

=============================================================================
