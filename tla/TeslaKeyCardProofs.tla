------------------------- MODULE TeslaKeyCardProofs -------------------------
(***************************************************************************)
(* Proofs about TeslaKeyCard for any capacity of the event queue, any      *)
(* number of events a tick takes, any number of identities and of pending  *)
(* custom events, and any set of requests.                                 *)
(***************************************************************************)
EXTENDS TeslaKeyCard, TeslaNfcProofs

Serving == {"loop", "ticking"}

(* Whenever the GUI thread takes inputs the listener runs or has been      *)
(* joined, in which case the queue has been emptied.                       *)
Listening ==
    /\ gui \in {"boot", "off"} => listener = "none" /\ applet = NoApplet /\ nfcQueue = <<>>
    /\ gui \in Serving => listener # "stopping"
    /\ gui \in Serving /\ listener = "none" => nfcQueue = <<>>
    /\ listener # "none" => applet # NoApplet

(* An applet presents, signs for, and is shown as the identity in memory.  *)
OneIdentity ==
    applet # NoApplet =>
        /\ identity \in Ids /\ crypto = identity
        /\ applet = [uid |-> identity, key |-> identity]
        /\ ui.uid = identity

Dialog == screen = "Reset" => gui = "loop" /\ listener = "none"

(* What is counted, or will be, was done with the identity in memory.      *)
Counted ==
    /\ gui = "boot" => ui.counted = {}
    /\ gui # "off" =>
           /\ ui.counted \subseteq {identity}
           /\ \A i \in 1..Len(nfcQueue) : nfcQueue[i].of = identity

Good == {"Ready", "Present", "Authenticated"}

Status ==
    gui \in Serving /\ screen = "Main" /\ ui.state \in Good => listener = "started"

(* Answers given to a dialog that is gone come before requests for the     *)
(* next; requests sent before a dialog opened come before its answers.     *)
Order ==
    /\ screen = "Main" =>
           \A i, j \in 1..Len(custom) : i < j /\ custom[i] = "Request" => custom[j] = "Request"
    /\ screen = "Reset" =>
           \A i, j \in 1..Len(custom) : i < j /\ custom[j] = "Request" => custom[i] = "Request"
    /\ gui = "asking" => \A i \in 1..Len(custom) : custom[i] = "Request"

CardInv == TypeOK /\ NfcInv /\ Listening /\ OneIdentity /\ Dialog /\ Counted /\ Status /\ Order

-----------------------------------------------------------------------------
(* How the parts of a step move what the parts of the invariant look at.   *)

LEMMA IdFacts ==
    /\ MaxIds \in Nat /\ None = 0 /\ Null = MaxIds + 1
    /\ \A i \in Ids : i \in 1..MaxIds /\ i # None /\ i # Null
    /\ None # Null /\ None \notin Ids /\ Null \notin Ids
  BY IdsOK DEF Ids, None, Null

LEMMA ListenerMoves ==
    ASSUME NfcInv
    PROVE  /\ Listen => listener = "started" /\ UNCHANGED listener
           /\ Finish => UNCHANGED listener
           /\ Return => call.at = "telling" /\ call.event \in Event /\ listener # "none" /\ UNCHANGED listener
           /\ \A ok \in BOOLEAN : Start(ok) =>
                  listener = "none" /\ listener' = (IF ok THEN "started" ELSE "none") /\ call = Idle
           /\ BeginStop => listener = "started" /\ listener' = "stopping"
           /\ EndStop => listener = "stopping" /\ listener' = "none"
  <1> USE CallKinds DEF NfcInv, NfcTypeOK
  <1>1. Listen => listener = "started" /\ UNCHANGED listener
    BY DEF Listen, Receive, LoseReader
  <1>2. Finish => UNCHANGED listener
    BY DEF Finish, BeginAuthenticate, EndAuthenticate, ProcessRequest, SendAnswer
  <1>3. Return => call.at = "telling" /\ call.event \in Event /\ listener # "none" /\ UNCHANGED listener
    BY DEF Return
  <1>4. \A ok \in BOOLEAN : Start(ok) =>
            listener = "none" /\ listener' = (IF ok THEN "started" ELSE "none") /\ call = Idle
    BY DEF Start
  <1>5. /\ BeginStop => listener = "started" /\ listener' = "stopping"
        /\ EndStop => listener = "stopping" /\ listener' = "none"
    BY DEF BeginStop, EndStop
  <1> QED BY <1>1, <1>2, <1>3, <1>4, <1>5

LEMMA EventStates ==
    ASSUME NEW model \in [state : UiState, uid : Ids \cup {None}, counted : SUBSET Ids],
           NEW entry \in Entry
    PROVE  /\ HandleNfcEvent(model, entry) \in [state : UiState, uid : Ids \cup {None}, counted : SUBSET Ids]
           /\ HandleNfcEvent(model, entry).uid = model.uid
           /\ HandleNfcEvent(model, entry).counted \subseteq model.counted \cup {entry.of}
  <1> DEFINE new == HandleNfcEvent(model, entry)
  <1>1. \/ new = [model EXCEPT !.state = "Present", !.counted = @ \cup {entry.of}]
        \/ new = [model EXCEPT !.state = "Authenticated", !.counted = @ \cup {entry.of}]
        \/ new = [model EXCEPT !.state = "Ready"]
        \/ new = [model EXCEPT !.state = "Error"]
        \/ new = model
    BY DEF HandleNfcEvent
  <1>2. entry.of \in Ids /\ {"Present", "Authenticated", "Ready", "Error"} \subseteq UiState
    BY DEF Entry, UiState
  <1> HIDE DEF new
  <1>3. CASE \E st \in {"Present", "Authenticated"} :
                 new = [model EXCEPT !.state = st, !.counted = @ \cup {entry.of}]
    <2>1. PICK st \in {"Present", "Authenticated"} :
              new = [model EXCEPT !.state = st, !.counted = @ \cup {entry.of}]
      BY <1>3
    <2>2. st \in UiState /\ model.counted \cup {entry.of} \in SUBSET Ids
      BY <1>2
    <2>3. new \in [state : UiState, uid : Ids \cup {None}, counted : SUBSET Ids]
      BY <2>1, <2>2
    <2>4. new.uid = model.uid /\ new.counted = model.counted \cup {entry.of}
      BY <2>1
    <2> QED BY <2>3, <2>4 DEF new
  <1>4. CASE \E st \in {"Ready", "Error"} : new = [model EXCEPT !.state = st]
    BY <1>2, <1>4 DEF new
  <1>5. CASE new = model
    BY <1>5 DEF new
  <1> QED BY <1>1, <1>3, <1>4, <1>5

LEMMA PreparesFacts ==
    ASSUME TypeOK, NEW i \in Ids, Prepares(i)
    PROVE  identity' = i /\ crypto' = i /\ made' \in 0..MaxIds
  BY IdFacts DEF Prepares, TypeOK

LEMMA PrepareFailsFacts ==
    ASSUME TypeOK, PrepareFails
    PROVE  identity' \in Ids \cup {None} /\ crypto' \in Ids \cup {None, Null} /\ made' \in 0..MaxIds
  BY IdFacts DEF PrepareFails, TypeOK, Ids

-----------------------------------------------------------------------------
(* The applet's own invariant.                                             *)

LEMMA NfcMoves == CardInv /\ [Next]_vars => (NfcStep \/ UNCHANGED nfcVars) /\ KeyStep
  <1> SUFFICES ASSUME CardInv, [Next]_vars PROVE (NfcStep \/ UNCHANGED nfcVars) /\ KeyStep
    OBVIOUS
  <1>0. TypeOK /\ NfcInv /\ crypto \in Ids \cup {None, Null} /\ (listener = "none" => call = Idle)
    BY DEF CardInv, TypeOK, NfcInv, NfcTypeOK, HolderTypeOK
  <1>1. CASE UNCHANGED crypto
    <2>1. KeyStep
      BY <1>0, <1>1 DEF KeyStep
    <2>2. NfcStep \/ UNCHANGED nfcVars
      BY DEF Next, vars, Worker, Input, Gui, Off, TakeEvent, FinishAnswer, Notify, PressOk, PressRight,
             PressLeft, Send, Leave, StopNfc, Ignore, HandleRequest, JoinListener, OpenDialog,
             HandleCancel, ResumeNfc, HandleConfirm, ResetIdentity, DeleteFails, ReplaceIdentity,
             UpdateNfc, Boot, BeginTick, TakeNfcEvent, EndTick, FreeApp, NfcStep
    <2> QED BY <2>1, <2>2
  <1>2. CASE Boot
    <2>1. (NfcStep \/ UNCHANGED nfcVars) /\ call = Idle
      BY <1>0, <1>2 DEF Boot, UpdateNfc, NfcStep, CardInv, Listening
    <2>2. crypto' \in Ids \cup {None, Null}
      BY <1>0, <1>2, PreparesFacts, PrepareFailsFacts DEF Boot
    <2> QED BY <2>1, <2>2 DEF KeyStep
  <1>3. CASE ResetIdentity
    <2>1. (NfcStep \/ UNCHANGED nfcVars) /\ call = Idle
      BY <1>0, <1>3 DEF ResetIdentity, DeleteFails, ResumeNfc, ReplaceIdentity, UpdateNfc, NfcStep
    <2>2. crypto' \in Ids \cup {None, Null}
      BY <1>0, <1>3, PreparesFacts, PrepareFailsFacts DEF ResetIdentity, DeleteFails, ReplaceIdentity
    <2> QED BY <2>1, <2>2 DEF KeyStep
  <1>4. CASE FreeApp
    BY <1>0, <1>4 DEF FreeApp, KeyStep
  <1> QED
    BY <1>1, <1>2, <1>3, <1>4
    DEF Next, vars, keyVars, Worker, Input, Gui, Off, TakeEvent, FinishAnswer, guiVars, Notify, PressOk,
        PressRight, PressLeft, Send, Leave, Ignore, HandleRequest, JoinListener, OpenDialog,
        HandleCancel, HandleConfirm, BeginTick, TakeNfcEvent, EndTick

LEMMA NfcPart == CardInv /\ [Next]_vars => NfcInv'
  <1>1. CardInv => NfcInv
    BY DEF CardInv
  <1> QED BY <1>1, NfcMoves, NfcStepInv

-----------------------------------------------------------------------------
(* Types.                                                                  *)

UiModel == [state : UiState, uid : Ids \cup {None}, counted : SUBSET Ids]

(* TypeOK without the applet's own variables.                              *)
CardTypes ==
    /\ gui \in {"boot", "loop", "ticking", "asking", "resetting", "leaving", "off"}
    /\ left \in 0..EventsPerTick
    /\ screen \in {"Main", "Reset"}
    /\ custom \in Seq({"Request", "Cancel", "Confirm"}) /\ Len(custom) <= MaxPending
    /\ identity \in Ids \cup {None}
    /\ applet \in Applets
    /\ nfcQueue \in Seq(Entry) /\ Len(nfcQueue) <= QueueSize
    /\ ui \in UiModel
    /\ made \in 0..MaxIds

LEMMA TypesSplit == TypeOK <=> NfcTypeOK /\ CardTypes
  BY DEF TypeOK, CardTypes, UiModel

LEMMA TypePart == CardInv /\ [Next]_vars => TypeOK'
  <1> SUFFICES ASSUME CardInv, [Next]_vars PROVE TypeOK'
    OBVIOUS
  <1>0. TypeOK /\ CardTypes /\ NfcInv /\ Listening /\ OneIdentity
    BY TypesSplit DEF CardInv
  <1>n. NfcTypeOK'
    BY NfcPart DEF NfcInv
  <1>c. /\ QueueSize \in Nat /\ QueueSize > 0 /\ EventsPerTick \in Nat /\ EventsPerTick > 0
        /\ MaxPending \in Nat /\ MaxPending > 0
    BY KeyCardConstantsOK
  <1>u. \A st \in UiState : [ui EXCEPT !.state = st] \in UiModel
    BY <1>0 DEF CardTypes, UiModel
  <1>s. {"Initializing", "Ready", "Present", "Authenticated", "Error", "Resetting"} \subseteq UiState
    BY DEF UiState
  <1>a. NoApplet \in Applets /\ \A i \in Ids : [uid |-> i, key |-> i] \in Applets
    BY DEF Applets
  <1>e. <<>> \in Seq(Entry) /\ Len(<<>>) = 0
    OBVIOUS
  <1>1. CASE TakeEvent \/ FinishAnswer
    <2>1. CardTypes'
      BY <1>0, <1>1 DEF TakeEvent, FinishAnswer, guiVars, keyVars, CardTypes
    <2> QED BY <1>n, <2>1 DEF TypeOK, CardTypes, UiModel
  <1>2. CASE Notify
    <2>1. [event |-> call.event, of |-> applet.uid] \in Entry
      <3>1. call.event \in Event /\ listener # "none"
        BY <1>0, <1>2, ListenerMoves DEF Notify
      <3>2. applet.uid \in Ids
        BY <1>0, <3>1 DEF Listening, OneIdentity
      <3> QED BY <3>1, <3>2 DEF Entry
    <2>2. nfcQueue' \in Seq(Entry) /\ Len(nfcQueue') <= QueueSize
      BY <1>0, <1>c, <1>2, <2>1 DEF Notify, CardTypes
    <2>3. CardTypes'
      BY <1>0, <1>2, <2>2 DEF Notify, keyVars, CardTypes
    <2> QED BY <1>n, <2>3 DEF TypeOK, CardTypes, UiModel
  <1>3. CASE PressOk \/ PressRight \/ PressLeft
    <2>1. PICK e \in {"Request", "Cancel", "Confirm"} : Send(e)
      BY <1>3 DEF PressOk, PressRight, PressLeft
    <2>2. custom' \in Seq({"Request", "Cancel", "Confirm"}) /\ Len(custom') <= MaxPending
      BY <1>0, <1>c, <2>1 DEF Send, CardTypes
    <2>3. CardTypes'
      BY <1>0, <2>1, <2>2 DEF Send, keyVars, CardTypes
    <2> QED BY <1>n, <2>3 DEF TypeOK, CardTypes, UiModel
  <1>4. CASE Ignore \/ HandleRequest \/ HandleCancel \/ HandleConfirm
    <2>1. custom # <<>> /\ custom' = Tail(custom)
      BY <1>4 DEF Ignore, HandleRequest, HandleCancel, HandleConfirm, Handles
    <2>2. custom' \in Seq({"Request", "Cancel", "Confirm"}) /\ Len(custom') <= MaxPending
      BY <1>0, <1>c, <2>1 DEF CardTypes
    <2>3. applet' \in Applets
      BY <1>0, <1>a, <1>4
      DEF Ignore, HandleRequest, HandleCancel, HandleConfirm, keyVars, ResumeNfc, CardTypes
    <2>4. ui' \in UiModel
      BY <1>0, <1>u, <1>s, <1>4 DEF Ignore, HandleRequest, HandleCancel, HandleConfirm, CardTypes
    <2>5. CardTypes'
      BY <1>0, <1>4, <2>2, <2>3, <2>4
      DEF Ignore, HandleRequest, HandleCancel, HandleConfirm, keyVars, CardTypes
    <2> QED BY <1>n, <2>5 DEF TypeOK, CardTypes, UiModel
  <1>5. CASE Boot \/ ResetIdentity
    <2>1. identity' \in Ids \cup {None} /\ made' \in 0..MaxIds
      BY <1>0, <1>5, PreparesFacts, PrepareFailsFacts
      DEF Boot, ResetIdentity, DeleteFails, ReplaceIdentity, CardTypes
    <2>2. applet' \in Applets
      BY <1>0, <1>a, <1>5, PreparesFacts
      DEF Boot, ResetIdentity, DeleteFails, ResumeNfc, ReplaceIdentity, UpdateNfc, CardTypes
    <2>3. ui' \in UiModel
      <3>1. CASE Boot
        <4>1. PICK st \in {"Error", "Ready"} : ui' = [ui EXCEPT !.state = st, !.uid = identity']
          BY <1>0, <3>1, PreparesFacts DEF Boot
        <4> QED BY <1>0, <1>s, <2>1, <4>1 DEF CardTypes, UiModel
      <3>2. CASE ResetIdentity
        <4>1. CASE DeleteFails
          BY <1>u, <1>s, <4>1 DEF DeleteFails
        <4>2. CASE ReplaceIdentity
          <5>1. CASE ui' = [ui EXCEPT !.state = "Error", !.counted = {}]
            BY <1>0, <1>s, <5>1 DEF CardTypes, UiModel
          <5>2. CASE \E i \in Ids, st \in {"Ready", "Error"} :
                        ui' = [state |-> st, uid |-> i, counted |-> {}]
            BY <1>s, <5>2 DEF UiModel
          <5> QED BY <4>2, <5>1, <5>2 DEF ReplaceIdentity
        <4> QED BY <3>2, <4>1, <4>2 DEF ResetIdentity
      <3> QED BY <1>5, <3>1, <3>2
    <2>4. nfcQueue' \in {nfcQueue, <<>>} /\ custom' = custom /\ left' = left /\ gui' = "loop" /\ screen' = screen
      BY <1>5 DEF Boot, ResetIdentity, ClearNfcEvents
    <2>5. nfcQueue' \in Seq(Entry) /\ Len(nfcQueue') <= QueueSize
      <3>1. CASE nfcQueue' = nfcQueue
        BY <1>0, <3>1 DEF CardTypes
      <3>2. CASE nfcQueue' = <<>>
        BY <1>c, <1>e, <3>2
      <3> QED BY <2>4, <3>1, <3>2
    <2>6. CardTypes'
      BY <1>0, <2>1, <2>2, <2>3, <2>4, <2>5 DEF CardTypes
    <2> QED BY <1>n, <2>6 DEF TypeOK, CardTypes, UiModel
  <1>6. CASE Leave \/ JoinListener \/ OpenDialog \/ FreeApp
    <2>1. nfcQueue' \in {nfcQueue, <<>>}
      BY <1>6 DEF Leave, JoinListener, OpenDialog, ClearNfcEvents, FreeApp
    <2>2. nfcQueue' \in Seq(Entry) /\ Len(nfcQueue') <= QueueSize
      <3>1. CASE nfcQueue' = nfcQueue
        BY <1>0, <3>1 DEF CardTypes
      <3>2. CASE nfcQueue' = <<>>
        BY <1>c, <1>e, <3>2
      <3> QED BY <2>1, <3>1, <3>2
    <2>3. CardTypes'
      BY <1>0, <1>a, <1>6, <2>2 DEF Leave, JoinListener, OpenDialog, FreeApp, keyVars, CardTypes
    <2> QED BY <1>n, <2>3 DEF TypeOK, CardTypes, UiModel
  <1>7. CASE BeginTick \/ EndTick
    <2>1. CardTypes'
      BY <1>0, <1>c, <1>7 DEF BeginTick, EndTick, keyVars, CardTypes
    <2> QED BY <1>n, <2>1 DEF TypeOK, CardTypes, UiModel
  <1>8. CASE TakeNfcEvent
    <2>1. /\ nfcQueue' \in Seq(Entry) /\ Len(nfcQueue') <= QueueSize /\ Head(nfcQueue) \in Entry
          /\ left' \in 0..EventsPerTick
      BY <1>0, <1>c, <1>8 DEF TakeNfcEvent, CardTypes
    <2>2. ui' \in UiModel
      BY <1>0, <1>8, <2>1, EventStates DEF TakeNfcEvent, CardTypes, UiModel
    <2>3. CardTypes'
      BY <1>0, <1>8, <2>1, <2>2 DEF TakeNfcEvent, keyVars, CardTypes
    <2> QED BY <1>n, <2>3 DEF TypeOK, CardTypes, UiModel
  <1>9. CASE UNCHANGED vars
    <2>1. CardTypes'
      BY <1>0, <1>9 DEF vars, keyVars, CardTypes
    <2> QED BY <1>n, <2>1 DEF TypeOK, CardTypes, UiModel
  <1> QED
    BY <1>1, <1>2, <1>3, <1>4, <1>5, <1>6, <1>7, <1>8, <1>9 DEF Next, Worker, Input, Gui, Off

-----------------------------------------------------------------------------
(* One part of the invariant after the other.                              *)

LEMMA ListeningPart == CardInv /\ [Next]_vars => Listening'
  <1> SUFFICES ASSUME CardInv, [Next]_vars PROVE Listening'
    OBVIOUS
  <1> USE DEF Listening, Serving
  <1>0. NfcInv /\ Listening /\ TypeOK /\ listener \in {"none", "started", "stopping"}
    BY DEF CardInv, TypeOK, NfcTypeOK
  <1>a. \A i, j : [uid |-> i, key |-> j] = NoApplet => i = None
    BY DEF NoApplet
  <1>1. CASE TakeEvent \/ FinishAnswer \/ Notify
    BY <1>0, <1>1, ListenerMoves DEF TakeEvent, FinishAnswer, Notify, guiVars, keyVars
  <1>2. CASE PressOk \/ PressRight \/ PressLeft \/ Ignore
    BY <1>0, <1>2 DEF PressOk, PressRight, PressLeft, Send, Ignore, nfcVars, keyVars
  <1>3. CASE Leave \/ HandleRequest \/ HandleConfirm \/ JoinListener
    BY <1>0, <1>3, ListenerMoves
    DEF Leave, HandleRequest, HandleConfirm, Handles, StopNfc, JoinListener, EndStop, nfcVars, keyVars, Dialog
  <1>4. CASE OpenDialog \/ FreeApp \/ BeginTick \/ TakeNfcEvent \/ EndTick
    BY <1>0, <1>4
    DEF OpenDialog, ClearNfcEvents, FreeApp, BeginTick, TakeNfcEvent, EndTick, nfcVars, keyVars
  <1>5. CASE HandleCancel
    <2>1. listener = "none" /\ nfcQueue = <<>> /\ gui = "loop" /\ gui' = "loop" /\ nfcQueue' = nfcQueue
      BY <1>0, <1>5 DEF HandleCancel, CardInv, Dialog
    <2>2. listener' \in {"none", "started"} /\ (listener' = "started" => applet' # NoApplet)
      BY <1>0, <1>5, <2>1, ListenerMoves DEF HandleCancel, ResumeNfc, nfcVars
    <2> QED BY <2>1, <2>2
  <1>6. CASE Boot \/ ResetIdentity
    <2>1. listener = "none" /\ gui' = "loop" /\ nfcQueue' = <<>>
      BY <1>0, <1>6 DEF Boot, ResetIdentity, ClearNfcEvents
    <2>2. listener' \in {"none", "started"} /\ (listener' = "started" => applet' # NoApplet)
      <3>1. CASE UNCHANGED nfcVars
        BY <2>1, <3>1 DEF nfcVars
      <3>2. CASE DeleteFails
        BY <1>0, <2>1, <3>2, ListenerMoves DEF DeleteFails, ResumeNfc, nfcVars
      <3>3. ASSUME NEW i \in Ids, NEW ok \in BOOLEAN, Prepares(i), UpdateNfc(ok)
            PROVE  listener' \in {"none", "started"} /\ (listener' = "started" => applet' # NoApplet)
        <4>1. identity' = i /\ i # None
          BY <1>0, <3>3, IdFacts, PreparesFacts
        <4>2. Start(ok) /\ applet' = IF ok THEN [uid |-> identity', key |-> crypto'] ELSE NoApplet
          BY <3>3 DEF UpdateNfc
        <4> QED BY <1>0, <1>a, <4>1, <4>2, ListenerMoves
      <3> QED BY <1>6, <3>1, <3>2, <3>3 DEF Boot, ResetIdentity, ReplaceIdentity
    <2> QED BY <2>1, <2>2
  <1>7. CASE UNCHANGED vars
    BY <1>0, <1>7 DEF vars, nfcVars, keyVars
  <1> QED
    BY <1>1, <1>2, <1>3, <1>4, <1>5, <1>6, <1>7 DEF Next, Worker, Input, Gui, Off

LEMMA OneIdentityPart == CardInv /\ [Next]_vars => OneIdentity'
  <1> SUFFICES ASSUME CardInv, [Next]_vars PROVE OneIdentity'
    OBVIOUS
  <1> USE DEF OneIdentity
  <1>0. TypeOK /\ OneIdentity /\ ui \in UiModel
    BY TypesSplit DEF CardInv, CardTypes
  <1>1. CASE UNCHANGED <<keyVars, ui>>
    BY <1>0, <1>1 DEF keyVars
  <1>2. CASE HandleCancel \/ HandleConfirm
    <2>1. UNCHANGED <<identity, crypto>> /\ applet' \in {applet, NoApplet} /\ ui'.uid = ui.uid
      BY <1>0, <1>2 DEF HandleCancel, HandleConfirm, ResumeNfc, keyVars, UiModel
    <2> QED BY <1>0, <2>1
  <1>3. CASE TakeNfcEvent
    <2>1. Head(nfcQueue) \in Entry
      BY <1>0, <1>3, TypesSplit DEF TakeNfcEvent, CardTypes
    <2>2. UNCHANGED <<identity, crypto, applet>> /\ ui'.uid = ui.uid
      BY <1>0, <1>3, <2>1, EventStates DEF TakeNfcEvent, keyVars, UiModel
    <2> QED BY <1>0, <2>2
  <1>4. CASE FreeApp
    BY <1>4 DEF FreeApp
  <1>5. CASE Boot \/ ResetIdentity
    <2>1. CASE applet' = NoApplet
      BY <2>1
    <2>2. CASE DeleteFails
      <3>1. UNCHANGED <<identity, crypto>> /\ applet' \in {applet, NoApplet} /\ ui'.uid = ui.uid
        BY <1>0, <2>2 DEF DeleteFails, ResumeNfc, UiModel
      <3> QED BY <1>0, <3>1
    <2>3. ASSUME NEW i \in Ids, NEW ok \in BOOLEAN, Prepares(i), UpdateNfc(ok), ui'.uid = i
          PROVE  OneIdentity'
      <3>1. identity' = i /\ crypto' = i
        BY <1>0, <2>3, PreparesFacts
      <3>2. applet' = IF ok THEN [uid |-> i, key |-> i] ELSE NoApplet
        BY <2>3, <3>1 DEF UpdateNfc
      <3> QED BY <2>3, <3>1, <3>2
    <2>4. CASE Boot /\ applet' # NoApplet
      <3>1. PICK i \in Ids, ok \in BOOLEAN : Prepares(i) /\ UpdateNfc(ok) /\ ui'.uid = i
        <4>1. applet = NoApplet
          BY <2>4 DEF Boot, CardInv, Listening
        <4> QED BY <1>0, <2>4, <4>1 DEF Boot, UiModel
      <3> QED BY <2>3, <3>1
    <2>5. CASE ReplaceIdentity /\ applet' # NoApplet
      <3>1. PICK i \in Ids, ok \in BOOLEAN : Prepares(i) /\ UpdateNfc(ok) /\ ui'.uid = i
        BY <2>5 DEF ReplaceIdentity
      <3> QED BY <2>3, <3>1
    <2> QED BY <1>5, <2>1, <2>2, <2>4, <2>5 DEF ResetIdentity
  <1> QED
    BY <1>1, <1>2, <1>3, <1>4, <1>5
    DEF Next, vars, keyVars, Worker, Input, Gui, Off, TakeEvent, FinishAnswer, guiVars, Notify, PressOk,
        PressRight, PressLeft, Send, Leave, Ignore, HandleRequest, JoinListener, OpenDialog,
        BeginTick, EndTick

LEMMA DialogPart == CardInv /\ [Next]_vars => Dialog'
  <1> SUFFICES ASSUME CardInv, [Next]_vars PROVE Dialog'
    OBVIOUS
  <1>0. /\ NfcInv /\ Dialog /\ listener \in {"none", "started", "stopping"} /\ screen \in {"Main", "Reset"}
        /\ gui \in Serving /\ listener = "none" => nfcQueue = <<>>
    BY DEF CardInv, TypeOK, NfcTypeOK, Listening
  <1>1. CASE screen' = "Main"
    BY <1>1 DEF Dialog
  <1>2. CASE OpenDialog
    BY <1>2 DEF OpenDialog, nfcVars, Dialog
  <1>3. CASE screen = "Reset" /\ screen' = "Reset"
    <2>1. gui = "loop" /\ listener = "none" /\ nfcQueue = <<>> /\ call = Idle
      BY <1>0, <1>3 DEF Dialog, Serving, NfcInv
    <2>2. CASE TakeEvent \/ FinishAnswer \/ Notify
      BY <1>0, <2>1, <2>2, ListenerMoves DEF TakeEvent, FinishAnswer, Notify, guiVars, Dialog
    <2>3. CASE PressOk \/ PressRight \/ PressLeft \/ Ignore \/ UNCHANGED vars
      BY <2>1, <2>3 DEF PressOk, PressRight, PressLeft, Send, Ignore, nfcVars, vars, Dialog
    <2> QED
      BY <1>3, <2>1, <2>2, <2>3
      DEF Next, Worker, Input, Gui, Off, Leave, HandleRequest, HandleCancel, HandleConfirm, JoinListener,
          OpenDialog, ResetIdentity, FreeApp, Boot, BeginTick, TakeNfcEvent, EndTick, EndStop
  <1> QED
    BY <1>0, <1>1, <1>2, <1>3
    DEF Next, vars, Worker, Input, Gui, Off, TakeEvent, FinishAnswer, guiVars, Notify, PressOk,
        PressRight, PressLeft, Send, Leave, Ignore, HandleRequest, HandleCancel, HandleConfirm,
        JoinListener, ResetIdentity, FreeApp, Boot, BeginTick, TakeNfcEvent, EndTick

LEMMA CountedPart == CardInv /\ [Next]_vars => Counted'
  <1> SUFFICES ASSUME CardInv, [Next]_vars PROVE Counted'
    OBVIOUS
  <1>0. /\ TypeOK /\ NfcInv /\ Counted /\ Listening /\ OneIdentity
        /\ ui \in UiModel /\ nfcQueue \in Seq(Entry)
    BY TypesSplit DEF CardInv, CardTypes
  <1>1. CASE UNCHANGED <<identity, nfcQueue, ui>> /\ (gui' = gui \/ (gui \notin {"boot", "off"} /\ gui' # "boot"))
    BY <1>0, <1>1 DEF Counted
  <1>2. CASE Notify
    <2>1. listener # "none" /\ gui \notin {"boot", "off"} /\ applet.uid = identity
      BY <1>0, <1>2, ListenerMoves DEF Notify, Listening, OneIdentity
    <2>2. UNCHANGED <<gui, identity, ui>>
      BY <1>2 DEF Notify, keyVars
    <2>3. CASE nfcQueue' = nfcQueue
      BY <1>0, <2>1, <2>2, <2>3 DEF Counted
    <2>4. CASE nfcQueue' = Append(nfcQueue, [event |-> call.event, of |-> applet.uid])
      <3>1. /\ Len(nfcQueue') = Len(nfcQueue) + 1 /\ Len(nfcQueue) \in Nat
            /\ nfcQueue'[Len(nfcQueue) + 1] = [event |-> call.event, of |-> applet.uid]
            /\ \A i \in 1..Len(nfcQueue) : nfcQueue'[i] = nfcQueue[i]
        BY <1>0, <2>4
      <3>2. \A i \in 1..Len(nfcQueue') : i \in 1..Len(nfcQueue) \/ i = Len(nfcQueue) + 1
        BY <3>1
      <3>3. \A i \in 1..Len(nfcQueue') : nfcQueue'[i].of = identity
        BY <1>0, <2>1, <3>1, <3>2 DEF Counted
      <3> QED BY <1>0, <2>1, <2>2, <3>3 DEF Counted
    <2> QED BY <1>2, <2>3, <2>4 DEF Notify
  <1>3. CASE OpenDialog
    BY <1>0, <1>3 DEF OpenDialog, ClearNfcEvents, keyVars, Counted
  <1>4. CASE HandleCancel \/ HandleConfirm
    <2>1. UNCHANGED <<identity, nfcQueue>> /\ gui = "loop" /\ gui' \in {"loop", "resetting"}
      BY <1>4 DEF HandleCancel, HandleConfirm, Handles, keyVars
    <2>2. ui'.counted = ui.counted
      BY <1>0, <1>4 DEF HandleCancel, HandleConfirm, UiModel
    <2> QED BY <1>0, <2>1, <2>2 DEF Counted
  <1>5. CASE Boot
    <2>1. nfcQueue' = <<>> /\ ui.counted = {} /\ gui' = "loop"
      BY <1>0, <1>5 DEF Boot, Counted, Listening
    <2>2. ui'.counted = ui.counted
      BY <1>0, <1>5 DEF Boot, UiModel
    <2> QED BY <2>1, <2>2 DEF Counted
  <1>6. CASE ResetIdentity
    <2>1. nfcQueue' = <<>> /\ gui = "resetting" /\ gui' = "loop"
      BY <1>6 DEF ResetIdentity, ClearNfcEvents
    <2>2. CASE DeleteFails
      <3>1. ui'.counted = ui.counted /\ identity' = identity
        BY <1>0, <2>2 DEF DeleteFails, UiModel
      <3> QED BY <1>0, <2>1, <3>1 DEF Counted
    <2>3. CASE ReplaceIdentity
      <3>1. ui'.counted = {}
        <4>1. CASE ui' = [ui EXCEPT !.state = "Error", !.counted = {}]
          BY <1>0, <4>1 DEF UiModel
        <4>2. CASE \E i \in Ids, st \in {"Ready", "Error"} : ui' = [state |-> st, uid |-> i, counted |-> {}]
          BY <4>2
        <4> QED BY <2>3, <4>1, <4>2 DEF ReplaceIdentity
      <3> QED BY <2>1, <3>1 DEF Counted
    <2> QED BY <1>6, <2>2, <2>3 DEF ResetIdentity
  <1>7. CASE TakeNfcEvent
    <2>1. /\ Len(nfcQueue) \in Nat /\ Len(nfcQueue) > 0 /\ Len(nfcQueue') = Len(nfcQueue) - 1
          /\ Head(nfcQueue) = nfcQueue[1] /\ Head(nfcQueue) \in Entry
          /\ \A i \in 1..Len(nfcQueue') : nfcQueue'[i] = nfcQueue[i + 1]
      BY <1>0, <1>7 DEF TakeNfcEvent
    <2>2. \A i \in 1..Len(nfcQueue') : i + 1 \in 1..Len(nfcQueue)
      BY <2>1
    <2>3. gui = "ticking" /\ gui' = "ticking" /\ identity' = identity
      BY <1>7 DEF TakeNfcEvent, keyVars
    <2>4. Head(nfcQueue).of = identity
      BY <1>0, <2>1, <2>3 DEF Counted
    <2>5. ui'.counted \subseteq ui.counted \cup {Head(nfcQueue).of}
      BY <1>0, <1>7, <2>1, EventStates DEF TakeNfcEvent, UiModel
    <2>6. \A i \in 1..Len(nfcQueue') : nfcQueue'[i].of = identity
      BY <1>0, <2>1, <2>2, <2>3 DEF Counted
    <2>7. ui'.counted \subseteq {identity}
      BY <1>0, <2>3, <2>4, <2>5 DEF Counted
    <2> QED BY <2>3, <2>6, <2>7 DEF Counted
  <1>8. CASE FreeApp
    BY <1>8 DEF FreeApp, Counted
  <1>9. CASE TakeEvent \/ FinishAnswer \/ JoinListener \/ UNCHANGED vars
    <2>1. UNCHANGED <<identity, nfcQueue, ui>> /\ gui' = gui
      BY <1>9 DEF TakeEvent, FinishAnswer, guiVars, JoinListener, vars, keyVars
    <2> QED BY <1>0, <2>1 DEF Counted
  <1>10. CASE PressOk \/ PressRight \/ PressLeft \/ Ignore
    <2>1. UNCHANGED <<identity, nfcQueue, ui>> /\ gui' = gui
      BY <1>10 DEF PressOk, PressRight, PressLeft, Send, Ignore, keyVars
    <2> QED BY <1>0, <2>1 DEF Counted
  <1>11. CASE Leave \/ HandleRequest \/ BeginTick \/ EndTick
    <2>1. /\ UNCHANGED <<identity, nfcQueue, ui>> /\ gui \in {"loop", "ticking"}
          /\ gui' \in {"leaving", "asking", "ticking", "loop"}
      BY <1>11 DEF Leave, HandleRequest, Handles, BeginTick, EndTick, keyVars
    <2> QED BY <1>1, <2>1
  <1> QED
    BY <1>2, <1>3, <1>4, <1>5, <1>6, <1>7, <1>8, <1>9, <1>10, <1>11
    DEF Next, Worker, Input, Gui, Off

LEMMA StatusPart == CardInv /\ [Next]_vars => Status'
  <1> SUFFICES ASSUME CardInv, [Next]_vars, gui' \in Serving, screen' = "Main", ui'.state \in Good
               PROVE  listener' = "started"
    BY DEF Status
  <1>0. /\ TypeOK /\ NfcInv /\ Status /\ Listening /\ Dialog /\ ui \in UiModel
        /\ listener \in {"none", "started", "stopping"}
        /\ "Error" \notin Good /\ "Resetting" \notin Good
    BY TypesSplit DEF CardInv, CardTypes, NfcTypeOK, Good
  <1>1. CASE UNCHANGED <<screen, ui, listener>> /\ gui \in Serving
    BY <1>0, <1>1 DEF Status
  <1>2. CASE TakeEvent \/ FinishAnswer \/ Notify
    BY <1>0, <1>1, <1>2, ListenerMoves DEF TakeEvent, FinishAnswer, Notify, guiVars
  <1>3. CASE HandleCancel
    <2>1. PICK ok \in BOOLEAN : ResumeNfc(ok) /\ ui' = [ui EXCEPT !.state = IF ok THEN "Ready" ELSE "Error"]
      BY <1>3 DEF HandleCancel
    <2>2. ok
      BY <1>0, <2>1 DEF UiModel
    <2> QED BY <1>0, <2>1, <2>2, ListenerMoves DEF ResumeNfc
  <1>4. CASE Boot
    <2>1. PICK i \in Ids, ok \in BOOLEAN :
              UpdateNfc(ok) /\ ui' = [ui EXCEPT !.state = IF ok THEN "Ready" ELSE "Error", !.uid = i]
      BY <1>0, <1>4 DEF Boot, UiModel
    <2>2. ok
      BY <1>0, <2>1 DEF UiModel
    <2> QED BY <1>0, <2>1, <2>2, ListenerMoves DEF UpdateNfc
  <1>5. CASE ResetIdentity
    <2>1. ~DeleteFails
      BY <1>0 DEF DeleteFails, UiModel
    <2>2. PICK i \in Ids, ok \in BOOLEAN :
              UpdateNfc(ok) /\ ui' = [state |-> IF ok THEN "Ready" ELSE "Error", uid |-> i, counted |-> {}]
      BY <1>0, <1>5, <2>1 DEF ResetIdentity, ReplaceIdentity, UiModel
    <2>3. ok
      BY <1>0, <2>2
    <2> QED BY <1>0, <2>2, <2>3, ListenerMoves DEF UpdateNfc
  <1>6. CASE TakeNfcEvent
    BY <1>0, <1>6 DEF TakeNfcEvent, Listening, Serving, nfcVars
  <1>7. CASE PressOk \/ PressRight \/ PressLeft \/ Ignore \/ UNCHANGED vars
    <2>1. UNCHANGED <<screen, ui, listener, gui>>
      BY <1>7 DEF PressOk, PressRight, PressLeft, Send, Ignore, nfcVars, vars
    <2> QED BY <1>1, <2>1
  <1>8. CASE BeginTick \/ EndTick
    <2>1. UNCHANGED <<screen, ui, listener>> /\ gui \in Serving
      BY <1>8 DEF BeginTick, EndTick, nfcVars, Serving
    <2> QED BY <1>1, <2>1
  <1>9. ~(Leave \/ HandleRequest \/ HandleConfirm \/ OpenDialog \/ FreeApp)
    BY DEF Leave, HandleRequest, HandleConfirm, OpenDialog, FreeApp, Serving
  <1>10. ~JoinListener
    BY <1>0, ListenerMoves DEF JoinListener, Listening
  <1> QED
    BY <1>2, <1>3, <1>4, <1>5, <1>6, <1>7, <1>8, <1>9, <1>10 DEF Next, Worker, Input, Gui, Off

LEMMA OrderPart == CardInv /\ [Next]_vars => Order'
  <1> SUFFICES ASSUME CardInv, [Next]_vars PROVE Order'
    OBVIOUS
  <1>0. /\ Order /\ custom \in Seq({"Request", "Cancel", "Confirm"}) /\ Len(custom) \in Nat
        /\ screen \in {"Main", "Reset"}
    BY TypesSplit DEF CardInv, CardTypes
  <1>1. CASE UNCHANGED <<custom, screen>> /\ (gui' = "asking" => gui = "asking")
    BY <1>0, <1>1 DEF Order
  <1>2. CASE PressOk \/ PressRight \/ PressLeft
    <2>1. PICK e \in {"Request", "Cancel", "Confirm"} :
              /\ custom' = Append(custom, e) /\ (e = "Request" <=> screen = "Main")
              /\ screen' = screen /\ gui' = "loop"
      BY <1>0, <1>2 DEF PressOk, PressRight, PressLeft, Send
    <2>2. /\ Len(custom') = Len(custom) + 1 /\ custom'[Len(custom) + 1] = e
          /\ \A i \in 1..Len(custom) : custom'[i] = custom[i]
      BY <1>0, <2>1
    <2>3. \A i \in 1..Len(custom') : i \in 1..Len(custom) \/ i = Len(custom) + 1
      BY <1>0, <2>2
    <2>4. \A i, j \in 1..Len(custom') : i < j => i \in 1..Len(custom)
      BY <1>0, <2>2
    <2> QED BY <1>0, <2>1, <2>2, <2>3, <2>4 DEF Order
  <1>3. CASE Ignore \/ HandleRequest \/ HandleCancel \/ HandleConfirm
    <2>1. gui = "loop" /\ custom # <<>> /\ custom' = Tail(custom)
      BY <1>3 DEF Ignore, HandleRequest, HandleCancel, HandleConfirm, Handles
    <2>2. /\ Len(custom') = Len(custom) - 1 /\ 1 \in 1..Len(custom) /\ Head(custom) = custom[1]
          /\ \A i \in 1..Len(custom') : custom'[i] = custom[i + 1]
      BY <1>0, <2>1
    <2>3. \A i \in 1..Len(custom') : i + 1 \in 1..Len(custom) /\ 1 < i + 1
      BY <1>0, <2>2
    <2>4. \A i, j \in 1..Len(custom') : i < j => i + 1 < j + 1
      BY <1>0, <2>2
    <2>5. CASE Ignore
      <3>1. screen' = screen /\ gui' = "loop"
        BY <2>1, <2>5 DEF Ignore
      <3> QED BY <1>0, <2>2, <2>3, <2>4, <3>1 DEF Order
    <2>6. CASE HandleRequest
      <3>1. screen = "Main" /\ screen' = "Main" /\ custom[1] = "Request"
        BY <2>2, <2>6 DEF HandleRequest, Handles
      <3>2. \A i \in 1..Len(custom') : custom'[i] = "Request"
        BY <1>0, <2>2, <2>3, <3>1 DEF Order
      <3> QED BY <3>1, <3>2 DEF Order
    <2>7. CASE HandleCancel \/ HandleConfirm
      <3>1. /\ screen = "Reset" /\ screen' = "Main" /\ gui' # "asking" /\ custom[1] # "Request"
        BY <2>1, <2>2, <2>7 DEF HandleCancel, HandleConfirm, Handles
      <3>2. \A i \in 1..Len(custom') : custom'[i] # "Request"
        BY <1>0, <2>2, <2>3, <3>1 DEF Order
      <3> QED BY <3>1, <3>2 DEF Order
    <2> QED BY <1>3, <2>5, <2>6, <2>7
  <1>4. CASE OpenDialog
    <2>1. gui = "asking" /\ screen' = "Reset" /\ gui' = "loop" /\ custom' = custom
      BY <1>4 DEF OpenDialog
    <2> QED BY <1>0, <2>1 DEF Order
  <1> QED
    BY <1>1, <1>2, <1>3, <1>4
    DEF Next, vars, Worker, Input, Gui, Off, TakeEvent, FinishAnswer, guiVars, Notify, Leave, JoinListener,
        ResetIdentity, FreeApp, Boot, BeginTick, TakeNfcEvent, EndTick

-----------------------------------------------------------------------------
LEMMA CardInductive == Spec => []CardInv
  <1>1. Init => CardInv
    <2> SUFFICES ASSUME Init PROVE CardInv
      OBVIOUS
    <2>1. NfcInv /\ NfcTypeOK
      <3>1. NfcInit /\ crypto \in Ids \cup {None, Null}
        BY DEF Init
      <3> QED BY <3>1, NfcInitInv DEF NfcInv
    <2>2. CardTypes
      <3>1. ui \in UiModel
        BY DEF Init, UiModel, UiState
      <3> QED BY <3>1, KeyCardConstantsOK, IdsOK DEF Init, CardTypes, Applets
    <2>3. Listening /\ OneIdentity /\ Dialog /\ Counted /\ Status /\ Order
      BY DEF Init, NfcInit, Listening, OneIdentity, Dialog, Counted, Status, Order, Serving
    <2> QED BY <2>1, <2>2, <2>3, TypesSplit DEF CardInv
  <1>2. CardInv /\ [Next]_vars => CardInv'
    BY TypePart, NfcPart, ListeningPart, OneIdentityPart, DialogPart, CountedPart, StatusPart, OrderPart
    DEF CardInv
  <1> QED BY <1>1, <1>2, PTL DEF Spec

(* The state of the app is what it is declared to be.                      *)
THEOREM CardTypeCorrect == Spec => []TypeOK
  <1>1. CardInv => TypeOK
    BY DEF CardInv
  <1> QED BY <1>1, CardInductive, PTL

(* No callback ever runs on what the GUI thread has freed.                 *)
THEOREM CallbacksAreSafe == Spec => []NoUseAfterFree
  <1>1. CardInv => NoUseAfterFree
    BY DEF CardInv, NfcInv, Listening, OneIdentity, NoUseAfterFree
  <1> QED BY <1>1, CardInductive, PTL

(* One identity is presented, shown, served and signed for.                *)
THEOREM OneCard == Spec => []ServesOneIdentity
  <1>1. CardInv => ServesOneIdentity
    <2> SUFFICES ASSUME CardInv PROVE ServesOneIdentity
      OBVIOUS
    <2>1. listener # "none" =>
              applet.uid = identity /\ applet.key = identity /\ crypto = identity
      BY DEF CardInv, Listening, OneIdentity
    <2>2. call.at = "answered" => listener # "none" /\ call.key \in {None, crypto}
      BY CallKinds DEF CardInv, NfcInv
    <2> QED BY <2>1, <2>2 DEF ServesOneIdentity
  <1> QED BY <1>1, CardInductive, PTL

(* While the dialog asks, nothing happens behind it.                       *)
THEOREM DialogIsQuiet == Spec => []DialogQuiescent
  <1>1. CardInv => DialogQuiescent
    BY DEF CardInv, NfcInv, Dialog, Listening, Serving, DialogQuiescent
  <1> QED BY <1>1, CardInductive, PTL

(* The counters on the screen are those of the card that readers see.      *)
THEOREM CountsAreCurrent == Spec => []CountersOfCurrent
  <1>1. CardInv => CountersOfCurrent
    BY DEF CardInv, Counted, CountersOfCurrent
  <1> QED BY <1>1, CardInductive, PTL

(* A card that answers is promised only when the listener runs.            *)
THEOREM StatusIsHonest == Spec => []StatusHonest
  <1>1. CardInv => StatusHonest
    BY DEF CardInv, Status, Serving, Good, StatusHonest
  <1> QED BY <1>1, CardInductive, PTL

(* The UID on the screen is the one that readers see.                      *)
THEOREM UidShownIsServed == Spec => []ShownIsServed
  <1>1. CardInv => ShownIsServed
    BY DEF CardInv, Listening, OneIdentity, ShownIsServed
  <1> QED BY <1>1, CardInductive, PTL

(* No answer to an earlier dialog reaches one that opens.                  *)
THEOREM DialogOpensClean == Spec => DialogStartsClean
  <1>1. CardInv /\ [Next]_vars =>
            [OpenDialog => \A i \in 1..Len(custom) : custom[i] = "Request"]_vars
    BY DEF CardInv, Order, OpenDialog
  <1> QED BY <1>1, CardInductive, PTL DEF Spec, DialogStartsClean

(* The GUI thread and the listener's worker use the crypto context as      *)
(* KeyHolder says: the key never changes under a computation.              *)
THEOREM KeepsToTheHolder == Spec => HolderSpec
  <1>1. Init => HolderInit
    BY DEF Init, NfcInit, HolderInit
  <1>2. CardInv /\ [Next]_vars => [HolderNext]_holderVars
    <2> SUFFICES ASSUME CardInv, [Next]_vars PROVE HolderNext \/ UNCHANGED holderVars
      OBVIOUS
    <2>1. (NfcStep \/ UNCHANGED nfcVars) /\ KeyStep
      BY NfcMoves
    <2>2. call = Idle => proof = NoProof
      BY CallKinds DEF CardInv, NfcInv
    <2>3. CASE UNCHANGED crypto
      <3>1. UNCHANGED proof \/ BeginProof \/ FinishProof \/ TakeProof
        BY <2>1
        DEF NfcStep, nfcVars, Start, BeginStop, EndStop, Listen, Receive, LoseReader, Finish, BeginAuthenticate,
            EndAuthenticate, ProcessRequest, SendAnswer, Return, holderVars
      <3> QED BY <2>3, <3>1 DEF HolderNext, holderVars
    <2>4. CASE crypto' # crypto
      <3>1. call = Idle /\ proof = NoProof /\ crypto' \in Ids \cup {None, Null}
        BY <2>1, <2>2, <2>4 DEF KeyStep
      <3>2. UNCHANGED proof
        BY <2>1, <2>4, <3>1, CallKinds, ProofKinds
        DEF NfcStep, nfcVars, Start, BeginStop, EndStop, Listen, Receive, LoseReader, Finish, BeginAuthenticate,
            BeginProof, EndAuthenticate, FinishProof, ProcessRequest, SendAnswer, Return
      <3> QED BY <3>1, <3>2 DEF HolderNext, ChangeKey
    <2> QED BY <2>3, <2>4
  <1> QED BY <1>1, <1>2, CardInductive, PTL DEF Spec, HolderSpec

-----------------------------------------------------------------------------
(* What the applet promises by itself it keeps in the app, where the       *)
(* identity changes between two sessions.                                  *)

(* No request makes the app look beyond what has arrived, and nothing is   *)
(* given to a reader that has not selected the card, across any number of  *)
(* resets.                                                                 *)
THEOREM AppKeepsSessions == Spec => []ReadsOnlyArrived /\ []OnlyAfterSelect
  <1>1. CardInv => ReadsOnlyArrived /\ OnlyAfterSelect
    BY DEF CardInv, NfcInv, Fit, ReadsOnlyArrived, OnlyAfterSelect
  <1> QED BY <1>1, CardInductive, PTL

(* Every answer fits, and "Authenticated" is told to the user only after   *)
(* an authenticator was sent that was computed with the private key of the *)
(* identity in memory, which is the one whose UID and public key the       *)
(* reader was given.                                                       *)
THEOREM AuthenticatesAsOneself ==
    ASSUME Capacity >= 2
    PROVE  Spec => /\ []AnswersFit
                   /\ AuthenticatedMeansProved
                   /\ [][call.at = "answered" /\ call' = Telling("Authenticate") =>
                             applet = [uid |-> call.key, key |-> call.key] /\ identity = call.key]_vars
  <1>1. CardInv => AnswersFit
    BY DEF CardInv, NfcInv, Fit, AnswersFit
  <1>2. ASSUME CardInv, [Next]_vars, call.at = "answered", call' = Telling("Authenticate")
        PROVE  /\ call.key = crypto /\ call.ans.data > 0
               /\ applet = [uid |-> call.key, key |-> call.key] /\ identity = call.key
    <2>1. NfcInv /\ listener # "none" /\ call' # call
      BY <1>2, CallKinds DEF CardInv, NfcInv
    <2>2. NfcStep
      BY <1>2, <2>1, NfcMoves DEF nfcVars
    <2>3. call.key = crypto /\ call.ans.data > 0
      BY <1>2, <2>1, <2>2, StepTold
    <2>4. applet = [uid |-> identity, key |-> identity] /\ crypto = identity
      BY <1>2, <2>1 DEF CardInv, Listening, OneIdentity
    <2> QED BY <2>3, <2>4
  <1>3. CardInv /\ [Next]_vars =>
            [call.at = "answered" /\ call' = Telling("Authenticate") =>
                call.key = crypto /\ call.ans.data > 0]_nfcVars
    BY <1>2
  <1>4. CardInv /\ [Next]_vars =>
            [call.at = "answered" /\ call' = Telling("Authenticate") =>
                applet = [uid |-> call.key, key |-> call.key] /\ identity = call.key]_vars
    BY <1>2
  <1> QED BY <1>1, <1>3, <1>4, CardInductive, PTL DEF Spec, AuthenticatedMeansProved

-----------------------------------------------------------------------------
(* A join returns.                                                         *)

Joining == gui \in {"asking", "resetting", "leaving"}

Stopped == Joining => listener # "started"

(* The steps that the callback in flight can still take, and the return of *)
(* the join.                                                               *)
JoinLeft == CallLeft + (IF listener = "none" THEN 0 ELSE 1)

LEMMA StepStopped == CardInv /\ Stopped /\ [Next]_vars => Stopped'
  <1> SUFFICES ASSUME CardInv, Stopped, [Next]_vars, Joining' PROVE listener' # "started"
    BY DEF Stopped
  <1>1. CASE HandleRequest \/ HandleConfirm \/ Leave
    <2>1. StopNfc /\ gui = "loop"
      BY <1>1 DEF HandleRequest, HandleConfirm, Leave, Handles
    <2> QED BY <2>1 DEF StopNfc, BeginStop, nfcVars
  <1>2. CASE JoinListener
    BY <1>2 DEF JoinListener, EndStop
  <1>3. CASE TakeEvent \/ FinishAnswer \/ Notify
    <2>1. gui' = gui /\ listener' = listener
      BY <1>3, ListenerMoves DEF TakeEvent, FinishAnswer, Notify, guiVars, CardInv
    <2> QED BY <2>1 DEF Stopped, Joining
  <1>4. CASE gui' = gui /\ UNCHANGED nfcVars
    BY <1>4 DEF Stopped, Joining, nfcVars
  <1> QED
    BY <1>1, <1>2, <1>3, <1>4
    DEF Joining, Next, vars, Worker, Input, Gui, Off, PressOk, PressRight, PressLeft, Send, Boot, Ignore,
        HandleCancel, OpenDialog, ResetIdentity, FreeApp, BeginTick, TakeNfcEvent, EndTick, Handles

LEMMA StepJoin == CardInv /\ Stopped /\ [Next]_vars => [Joining /\ Joining' => JoinLeft' < JoinLeft]_vars
  <1> SUFFICES ASSUME CardInv, Stopped, Next, Joining, Joining' PROVE JoinLeft' < JoinLeft
    OBVIOUS
  <1>0. NfcInv /\ CallLeft \in Nat /\ listener # "started"
    BY CallEnds DEF CardInv, Stopped
  <1>1. CASE FinishAnswer \/ Notify
    <2>1. listener' = listener /\ (Finish \/ Return)
      BY <1>0, <1>1, ListenerMoves DEF FinishAnswer, Notify
    <2> QED BY <1>0, <2>1, CallEnds DEF JoinLeft
  <1>2. CASE JoinListener
    <2>1. listener = "stopping" /\ listener' = "none" /\ UNCHANGED <<call, proof>>
      BY <1>2 DEF JoinListener, EndStop
    <2>2. CallLeft' = CallLeft
      BY <2>1 DEF CallLeft
    <2> QED BY <1>0, <2>1, <2>2 DEF JoinLeft
  <1> QED
    BY <1>0, <1>1, <1>2, ListenerMoves
    DEF Joining, Next, Worker, Input, Gui, Off, PressOk, PressRight, PressLeft, Leave, Boot, Ignore, TakeEvent,
        HandleRequest, HandleCancel, HandleConfirm, OpenDialog, ResetIdentity, FreeApp, BeginTick,
        TakeNfcEvent, EndTick, Handles

(* The GUI thread's join of the listener is at most six steps away from    *)
(* its end, none of which waits for the GUI thread: while it joins,        *)
(* whatever happens brings the return closer, and no new callback begins   *)
(* ("Never wait for GUI work here").  The safety half of StopReturns.      *)
THEOREM JoinComesToItsEnd ==
    Spec => /\ [](Joining => JoinLeft \in 0..6 /\ (JoinLeft = 0 <=> listener = "none"))
            /\ [][Joining /\ Joining' => JoinLeft' < JoinLeft]_vars
  <1>1. Init => Stopped
    BY DEF Init, Stopped, Joining
  <1>2. Spec => []Stopped
    BY <1>1, StepStopped, CardInductive, PTL DEF Spec
  <1>3. CardInv => (Joining => JoinLeft \in 0..6 /\ (JoinLeft = 0 <=> listener = "none"))
    <2> SUFFICES ASSUME CardInv PROVE JoinLeft \in 0..6 /\ (JoinLeft = 0 <=> listener = "none")
      OBVIOUS
    <2>1. CallLeft \in 0..5 /\ (listener = "none" => CallLeft = 0)
      BY CallEnds, CallKinds DEF CardInv, NfcInv
    <2> QED BY <2>1 DEF JoinLeft
  <1> QED BY <1>2, <1>3, StepJoin, CardInductive, PTL DEF Spec

=============================================================================
