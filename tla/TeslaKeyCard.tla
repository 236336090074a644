---------------------------- MODULE TeslaKeyCard ----------------------------
(***************************************************************************)
(* tesla_key_card.c: the GUI thread, which owns the identity, the crypto   *)
(* context, the applet and the screen, composed with the listener's worker *)
(* of TeslaNfc.  They share the applet, the crypto context and a short     *)
(* queue of events.                                                        *)
(*                                                                         *)
(* What becomes of the identity's files is in TeslaIdentity; here a delete *)
(* or a load succeeds or fails, and a load yields the identity of before   *)
(* or a new one.                                                           *)
(*                                                                         *)
(* The view dispatcher is the firmware's.  Inputs and waiting custom       *)
(* events reach the GUI thread in any order, the custom events among       *)
(* themselves in the order they were sent; ticks come in between.          *)
(***************************************************************************)
EXTENDS TeslaNfc, Sequences

CONSTANTS
    QueueSize,       \* TESLA_NFC_EVENT_QUEUE_SIZE
    EventsPerTick,   \* TESLA_NFC_EVENTS_PER_TICK
    MaxPending       \* bound: custom events waiting

ASSUME KeyCardConstantsOK ==
    /\ QueueSize \in Nat \ {0} /\ EventsPerTick \in Nat \ {0}
    /\ MaxPending \in Nat \ {0}

VARIABLES
    gui,        \* what the GUI thread is doing
    left,       \* events that the tick in progress may still take
    screen,     \* app->screen and the view in front
    custom,     \* custom events sent and not yet handled
    identity,   \* app->identity, None after tesla_identity_clear
    applet,     \* app->nfc: the identity of its UID and of its public key
    nfcQueue,   \* app->nfc_event_queue
    ui,         \* the main view's model
    made        \* identities generated so far

keyVars == <<identity, crypto, applet>>
vars    == <<nfcVars, gui, left, screen, custom, keyVars, nfcQueue, ui, made>>

NoApplet == [uid |-> None, key |-> None]
Applets  == [uid : Ids, key : Ids] \cup {NoApplet}

(* An event in the queue remembers, for the properties only, the identity  *)
(* it is about; counted is the set of identities that the counters of the  *)
(* model have been raised for.                                             *)
Entry == [event : Event, of : Ids]

UiState == {"Initializing", "Ready", "Present", "Authenticated", "Error", "Resetting"}

TypeOK ==
    /\ NfcTypeOK
    /\ gui \in {"boot", "loop", "ticking", "asking", "resetting", "leaving", "off"}
    /\ left \in 0..EventsPerTick
    /\ screen \in {"Main", "Reset"}
    /\ custom \in Seq({"Request", "Cancel", "Confirm"}) /\ Len(custom) <= MaxPending
    /\ identity \in Ids \cup {None}
    /\ applet \in Applets
    /\ nfcQueue \in Seq(Entry) /\ Len(nfcQueue) <= QueueSize
    /\ ui \in [state : UiState, uid : Ids \cup {None}, counted : SUBSET Ids]
    /\ made \in 0..MaxIds

Init ==
    /\ NfcInit
    /\ gui = "boot" /\ left = 0 /\ screen = "Main" /\ custom = <<>>
    /\ identity = None /\ crypto = Null /\ applet = NoApplet
    /\ nfcQueue = <<>>
    /\ ui = [state |-> "Initializing", uid |-> None, counted |-> {}]
    /\ made = 0

-----------------------------------------------------------------------------
(* The listener's worker: tesla_key_card_nfc_event puts the event in the   *)
(* queue if there is room and never waits.                                 *)

guiVars == <<gui, left, screen, custom, keyVars, nfcQueue, ui, made>>

TakeEvent    == Listen /\ UNCHANGED guiVars
FinishAnswer == Finish /\ UNCHANGED guiVars

(* Mutated form: the worker waits for room in the queue.                   *)
NotifyWaits ==
    /\ Return /\ Len(nfcQueue) < QueueSize
    /\ nfcQueue' = Append(nfcQueue, [event |-> call.event, of |-> applet.uid])
    /\ UNCHANGED <<gui, left, screen, custom, keyVars, ui, made>>

(* Mutated form: a queue without an end.                                   *)
NotifyOneTooMany ==
    /\ Return
    /\ nfcQueue' = IF Len(nfcQueue) <= QueueSize
                   THEN Append(nfcQueue, [event |-> call.event, of |-> applet.uid])
                   ELSE nfcQueue
    /\ UNCHANGED <<gui, left, screen, custom, keyVars, ui, made>>

Notify ==
    /\ Return
    /\ nfcQueue' = IF Len(nfcQueue) < QueueSize
                   THEN Append(nfcQueue, [event |-> call.event, of |-> applet.uid])
                   ELSE nfcQueue
    /\ UNCHANGED <<gui, left, screen, custom, keyVars, ui, made>>

-----------------------------------------------------------------------------
(* The GUI thread's helpers.                                               *)

(* Mutated form: the queue is left as it is.                               *)
ClearNfcEventsNot == UNCHANGED nfcQueue

ClearNfcEvents == nfcQueue' = <<>>

(* tesla_key_card_handle_nfc_event.                                        *)
HandleNfcEvent(model, entry) ==
    CASE entry.event = "Select" ->
            [model EXCEPT !.state = "Present", !.counted = @ \cup {entry.of}]
      [] entry.event = "Authenticate" ->
            [model EXCEPT !.state = "Authenticated", !.counted = @ \cup {entry.of}]
      [] entry.event \in {"FieldOff", "Halted"} -> [model EXCEPT !.state = "Ready"]
      [] entry.event \in {"TransmitError", "ProtocolError"} -> [model EXCEPT !.state = "Error"]
      [] OTHER -> model

(* tesla_nfc_stop up to its join, if there is a listener to stop.          *)
StopNfc == BeginStop \/ (listener = "none" /\ UNCHANGED nfcVars)

(* Mutated form: the applet keeps the UID that is on the screen.           *)
UpdateNfcOldUid(ok) ==
    /\ Start(ok)
    /\ applet' = IF ok THEN [uid |-> IF ui.uid = None THEN identity' ELSE ui.uid, key |-> crypto']
                 ELSE NoApplet

(* tesla_key_card_update_nfc, after the identity and the crypto context    *)
(* have been prepared: an applet whose listener did not start is freed.    *)
UpdateNfc(ok) ==
    /\ Start(ok)
    /\ applet' = IF ok THEN [uid |-> identity', key |-> crypto'] ELSE NoApplet

(* tesla_key_card_resume_nfc: ok is what it returns.                       *)
ResumeNfc(ok) ==
    \/ /\ applet = NoApplet /\ ~ok
       /\ UNCHANGED <<nfcVars, applet>>
    \/ /\ applet # NoApplet /\ Start(ok)
       /\ applet' = IF ok THEN applet ELSE NoApplet

(* tesla_crypto_alloc and tesla_key_card_prepare_identity: out of memory,  *)
(* or no identity after a failed load, key check, generation or save, or   *)
(* an identity, the one of before if its files are still there.            *)
PrepareFails ==
    /\ \/ crypto' = Null /\ identity' = None /\ UNCHANGED made
       \/ crypto' = None /\ identity' \in {None, identity} /\ UNCHANGED made
       \/ made < MaxIds /\ made' = made + 1 /\ identity' = made' /\ crypto' \in {None, made'}

Prepares(i) ==
    /\ \/ i = identity /\ i # None /\ UNCHANGED made
       \/ made < MaxIds /\ made' = made + 1 /\ i = made'
    /\ identity' = i /\ crypto' = i

(* tesla_key_card_app up to view_dispatcher_run.                           *)
Boot ==
    /\ gui = "boot" /\ gui' = "loop"
    /\ \/ /\ PrepareFails /\ UNCHANGED <<nfcVars, applet>>
          /\ ui' = [ui EXCEPT !.state = "Error", !.uid = identity']
       \/ \E i \in Ids, ok \in BOOLEAN :
            /\ Prepares(i) /\ UpdateNfc(ok)
            /\ ui' = [ui EXCEPT !.state = IF ok THEN "Ready" ELSE "Error", !.uid = i]
    /\ UNCHANGED <<left, screen, custom, nfcQueue>>

-----------------------------------------------------------------------------
(* Inputs.                                                                 *)

Send(event) ==
    /\ Len(custom) < MaxPending /\ custom' = Append(custom, event)
    /\ UNCHANGED <<nfcVars, gui, left, screen, keyVars, nfcQueue, ui, made>>

PressOk    == gui = "loop" /\ screen = "Main"  /\ Send("Request")
PressRight == gui = "loop" /\ screen = "Reset" /\ Send("Confirm")
(* The dialog's left button, or Back while it is shown.                    *)
PressLeft  == gui = "loop" /\ screen = "Reset" /\ Send("Cancel")

(* Back on the main screen: the dispatcher stops and tesla_key_card_app_   *)
(* free begins, with tesla_nfc_free and so tesla_nfc_stop.                 *)
Leave ==
    /\ gui = "loop" /\ screen = "Main" /\ gui' = "leaving"
    /\ StopNfc
    /\ UNCHANGED <<left, screen, custom, keyVars, nfcQueue, ui, made>>

-----------------------------------------------------------------------------
(* Custom events, ticks, and what follows a join.                          *)

Handles(event) == gui = "loop" /\ custom # <<>> /\ Head(custom) = event /\ custom' = Tail(custom)

(* An event that does not fit the screen is not handled.                   *)
Ignore ==
    /\ \/ Handles("Request") /\ screen = "Reset"
       \/ (Handles("Cancel") \/ Handles("Confirm")) /\ screen = "Main"
    /\ UNCHANGED <<nfcVars, gui, left, screen, keyVars, nfcQueue, ui, made>>

(* Mutated form: a request is taken up on any screen.                      *)
HandleRequestAnywhere ==
    /\ Handles("Request")
    /\ gui' = "asking" /\ StopNfc
    /\ UNCHANGED <<left, screen, keyVars, nfcQueue, ui, made>>

HandleRequest ==
    /\ Handles("Request") /\ screen = "Main"
    /\ gui' = "asking" /\ StopNfc
    /\ UNCHANGED <<left, screen, keyVars, nfcQueue, ui, made>>

JoinListener == EndStop /\ UNCHANGED <<gui, left, screen, custom, keyVars, nfcQueue, ui, made>>

OpenDialog ==
    /\ gui = "asking" /\ listener = "none"
    /\ ClearNfcEvents
    /\ screen' = "Reset" /\ gui' = "loop"
    /\ UNCHANGED <<nfcVars, left, custom, keyVars, ui, made>>

HandleCancel ==
    /\ Handles("Cancel") /\ screen = "Reset"
    /\ screen' = "Main"
    /\ \E ok \in BOOLEAN :
            /\ ResumeNfc(ok)
            /\ ui' = [ui EXCEPT !.state = IF ok THEN "Ready" ELSE "Error"]
    /\ UNCHANGED <<gui, left, identity, crypto, nfcQueue, made>>

HandleConfirm ==
    /\ Handles("Confirm") /\ screen = "Reset"
    /\ screen' = "Main" /\ gui' = "resetting"
    /\ ui' = [ui EXCEPT !.state = "Resetting"]
    /\ StopNfc
    /\ UNCHANGED <<left, keyVars, nfcQueue, made>>

(* The rest of tesla_key_card_reset_identity.                              *)
DeleteFails ==
    /\ \E ok \in BOOLEAN : ResumeNfc(ok)
    /\ ui' = [ui EXCEPT !.state = "Error"]
    /\ UNCHANGED <<identity, crypto, made>>

(* Mutated form: the screen keeps the UID of before.                       *)
ReplaceIdentityNotShown ==
    \E i \in Ids, ok \in BOOLEAN :
        /\ Prepares(i) /\ UpdateNfc(ok)
        /\ ui' = [ui EXCEPT !.state = IF ok THEN "Ready" ELSE "Error", !.counted = {}]

ReplaceIdentity ==
    \/ /\ PrepareFails /\ applet' = NoApplet /\ UNCHANGED nfcVars
       /\ ui' = [ui EXCEPT !.state = "Error", !.counted = {}]
    \/ \E i \in Ids, ok \in BOOLEAN :
        /\ Prepares(i) /\ UpdateNfc(ok)
        /\ ui' = [state |-> IF ok THEN "Ready" ELSE "Error", uid |-> i, counted |-> {}]

ResetIdentity ==
    /\ gui = "resetting" /\ listener = "none"
    /\ ClearNfcEvents
    /\ DeleteFails \/ ReplaceIdentity
    /\ gui' = "loop"
    /\ UNCHANGED <<left, screen, custom>>

(* tesla_key_card_tick_event_callback: the worker may add to the queue     *)
(* while the tick empties it.  A tick that finds no event changes nothing. *)
BeginTick ==
    /\ gui = "loop" /\ nfcQueue # <<>>
    /\ gui' = "ticking" /\ left' = EventsPerTick
    /\ UNCHANGED <<nfcVars, screen, custom, keyVars, nfcQueue, ui, made>>

TakeNfcEvent ==
    /\ gui = "ticking" /\ left > 0 /\ nfcQueue # <<>>
    /\ ui' = HandleNfcEvent(ui, Head(nfcQueue))
    /\ nfcQueue' = Tail(nfcQueue) /\ left' = left - 1
    /\ UNCHANGED <<nfcVars, gui, screen, custom, keyVars, made>>

EndTick ==
    /\ gui = "ticking" /\ (left = 0 \/ nfcQueue = <<>>)
    /\ gui' = "loop" /\ left' = 0
    /\ UNCHANGED <<nfcVars, screen, custom, keyVars, nfcQueue, ui, made>>

(* Mutated form: the applet is freed without waiting for its listener.     *)
FreeAppAtOnce ==
    /\ gui = "leaving" /\ gui' = "off"
    /\ identity' = None /\ crypto' = Null /\ applet' = NoApplet /\ nfcQueue' = <<>>
    /\ UNCHANGED <<nfcVars, left, screen, custom, ui, made>>

(* tesla_key_card_app_free after the join: applet, crypto context and      *)
(* queue are gone.                                                         *)
FreeApp ==
    /\ gui = "leaving" /\ listener = "none"
    /\ gui' = "off"
    /\ identity' = None /\ crypto' = Null /\ applet' = NoApplet /\ nfcQueue' = <<>>
    /\ UNCHANGED <<nfcVars, left, screen, custom, ui, made>>

Off == gui = "off" /\ UNCHANGED vars

Worker == TakeEvent \/ FinishAnswer \/ Notify
Input  == PressOk \/ PressRight \/ PressLeft \/ Leave
Gui ==
    \/ Boot \/ Ignore \/ HandleRequest \/ HandleCancel \/ HandleConfirm
    \/ JoinListener \/ OpenDialog \/ ResetIdentity \/ FreeApp
    \/ BeginTick \/ TakeNfcEvent \/ EndTick

Next == Worker \/ Input \/ Gui \/ Off

(* A callback that has begun runs to its end and the GUI thread takes its  *)
(* turns; readers and the user owe nothing.                                *)
Fairness == WF_vars(FinishAnswer) /\ WF_vars(Notify) /\ WF_vars(Gui)

Spec == Init /\ [][Next]_vars /\ Fairness

-----------------------------------------------------------------------------
(* Safety.                                                                 *)

(* While the reset dialog asks, the card is silent: no listener, no        *)
(* callback in flight, and nothing left in the queue that could change the *)
(* screen behind it (custom_event_callback stops, then clears).            *)
DialogQuiescent ==
    gui \in {"loop", "ticking"} /\ screen = "Reset" =>
        listener = "none" /\ call = Idle /\ nfcQueue = <<>>

(* A callback never runs on an applet, a crypto context or a queue that    *)
(* the GUI thread has freed or replaced.                                   *)
NoUseAfterFree ==
    listener # "none" \/ call # Idle =>
        gui # "off" /\ applet # NoApplet /\ crypto \in Ids

(* The card presents one identity: its UID, its public key, the key it     *)
(* signs with and the stored identity belong together, also after failed   *)
(* resets and restarts of the listener; and an authenticator on its way to *)
(* the reader was computed with the key of that public key.                *)
ServesOneIdentity ==
    /\ listener # "none" =>
           applet.uid = identity /\ applet.key = identity /\ crypto = identity
    /\ call.at = "answered" => call.key \in {None, applet.key}

(* The session and authentication counters never count what was done with  *)
(* an identity that has been replaced.                                     *)
CountersOfCurrent == gui \in {"loop", "ticking"} /\ listener = "started" => ui.counted \subseteq {identity}

(* The main screen promises a card that answers only if one does: an event *)
(* of a stopped listener never turns an error back into "Ready".           *)
StatusHonest ==
    gui \in {"loop", "ticking"} /\ screen = "Main" /\ ui.state \in {"Ready", "Present", "Authenticated"} =>
        listener = "started"

(* The UID on the screen is the one that readers see.                      *)
ShownIsServed == gui \in {"loop", "ticking"} /\ listener = "started" => ui.uid = applet.uid

(* A dialog that opens finds no answer given to an earlier one: only the   *)
(* answer to this question resets the identity.                            *)
DialogStartsClean ==
    [][OpenDialog => \A i \in 1..Len(custom) : custom[i] = "Request"]_vars

-----------------------------------------------------------------------------
(* Liveness.                                                               *)

(* The GUI thread's join of the listener always returns, however full the  *)
(* queue is: the callback never waits for the thread that waits for it     *)
(* ("Never wait for GUI work here").                                       *)
StopReturns == gui \in {"asking", "resetting", "leaving"} ~> gui \in {"loop", "off"}

=============================================================================
