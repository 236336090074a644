------------------------------ MODULE NdefApp ------------------------------
(***************************************************************************)
(* mfc_ndef_format.c: the GUI thread, the worker thread that runs the      *)
(* format, and what they share: the dispatcher's queue of custom events,   *)
(* the cancel flag, the progress block and the result.                     *)
(*                                                                         *)
(* What the run does to the card is in NdefFormat; here a run visits the   *)
(* blocks in order and may end at any of them.                             *)
(*                                                                         *)
(* The view dispatcher is the firmware's.  It takes one message at a time, *)
(* an input or a custom event, and gives custom events that are waiting    *)
(* their turn before a second input; sending blocks while the queue is     *)
(* full.                                                                   *)
(***************************************************************************)
EXTENDS Naturals, Sequences

CONSTANTS
    LastBlock,   \* MFC_NDEF_BLOCKS_1K - 1
    QueueLen,    \* capacity of the dispatcher's queue
    MaxRuns      \* bound: formats the user starts

ASSUME AppConstantsOK ==
    LastBlock \in Nat /\ QueueLen \in Nat \ {0} /\ MaxRuns \in Nat

VARIABLES
    gui,         \* what the GUI thread is doing: its event loop, or a join
    view,        \* app->current_view
    widget,      \* what app->widget shows
    named,       \* the block a "Write failed" screen names, 0 on any other
    shown,       \* the block in the popup's text, 0 after popup_reset
    queue,       \* custom events sent and not yet handled
    turn,        \* "event": an input has been handled last
    worker,      \* what the worker thread does next, "none" if app->worker is NULL
    blk,         \* the block the run is at
    stop,        \* app->stop_requested
    progress,    \* app->progress_block
    result,      \* app->result
    failBlock,   \* app->fail_block
    ret, retBlock,   \* the worker's locals: result, "none" before the run returns, and fmt.fail_block
    runs,        \* formats started so far
    \* History, read by no action of the program:
    asked        \* blocks handled when the run was asked to stop, or Never

screen == <<view, widget, named, shown>>
shared == <<stop, progress, result, failBlock>>
local  == <<blk, ret, retBlock>>
vars   == <<gui, screen, queue, turn, worker, local, shared, runs, asked>>

Results == {"Ok", "NoCard", "NotClassic1k", "WriteFailed", "Canceled"}

Never == LastBlock + 2

(* A progress event carries no data; block records which call of the       *)
(* callback sent it.                                                       *)
Progress(b) == [kind |-> "Progress", block |-> b]
Done        == [kind |-> "Done", block |-> 0]
BackToMenu  == [kind |-> "BackToMenu", block |-> 0]

Events == [kind : {"Progress", "Done", "BackToMenu"}, block : 0..LastBlock]

(* Where the worker is while the run has not returned.                     *)
InRun == {"detect", "head", "block", "progress"}

TypeOK ==
    /\ gui \in {"loop", "starting", "stopping", "off"}
    /\ view \in {"Submenu", "Popup", "Widget"}
    /\ widget \in {"empty", "about"} \cup Results
    /\ {named, shown, progress, failBlock, retBlock} \subseteq 0..LastBlock
    /\ queue \in Seq(Events) /\ Len(queue) <= QueueLen
    /\ turn \in {"any", "event"}
    /\ worker \in {"none", "result", "fail_block", "done", "leaving", "exited"} \cup InRun
    /\ blk \in 0..(LastBlock + 1)
    /\ stop \in BOOLEAN /\ asked \in 0..Never
    /\ result \in Results /\ ret \in {"none"} \cup Results
    /\ runs \in 0..MaxRuns

(* app_alloc clears the structure: result 0 is MfcNdefResultOk.            *)
Init ==
    /\ gui = "loop" /\ view = "Submenu" /\ widget = "empty" /\ named = 0 /\ shown = 0
    /\ queue = <<>> /\ turn = "any"
    /\ worker = "none" /\ blk = 0 /\ ret = "none" /\ retBlock = 0
    /\ stop = FALSE /\ progress = 0 /\ result = "Ok" /\ failBlock = 0
    /\ runs = 0 /\ asked = Never

Send(event) == Len(queue) < QueueLen /\ queue' = Append(queue, event)

-----------------------------------------------------------------------------
(* Worker thread: mfc_ndef_worker around mfc_ndef_format_run.              *)

Return(r) == worker' = "result" /\ ret' = r

(* What comes before the loop, which no cancel interrupts.                 *)
DetectCard ==
    /\ worker = "detect"
    /\ \/ worker' = "head" /\ UNCHANGED ret
       \/ \E r \in {"NoCard", "NotClassic1k"} : Return(r)
    /\ UNCHANGED <<gui, screen, queue, turn, blk, retBlock, shared, runs, asked>>

(* Mutated form: the cancelled run ends without its Done event.            *)
LoopHeadSilentCancel ==
    /\ worker = "head"
    /\ \/ blk > LastBlock /\ Return("Ok")
       \/ blk <= LastBlock /\ stop /\ worker' = "exited" /\ ret' = "Canceled"
       \/ blk <= LastBlock /\ ~stop /\ worker' = "block" /\ UNCHANGED ret
    /\ UNCHANGED <<gui, screen, queue, turn, blk, retBlock, shared, runs, asked>>

(* Mutated form: the loop runs one block past the card.                    *)
LoopHeadOneTooMany ==
    /\ worker = "head"
    /\ \/ blk > LastBlock + 1 /\ Return("Ok")
       \/ blk <= LastBlock + 1 /\ stop /\ Return("Canceled")
       \/ blk <= LastBlock + 1 /\ ~stop /\ worker' = "block" /\ UNCHANGED ret
    /\ UNCHANGED <<gui, screen, queue, turn, blk, retBlock, shared, runs, asked>>

(* The head of the loop, where the cancel flag is read.                    *)
LoopHead ==
    /\ worker = "head"
    /\ \/ blk > LastBlock /\ Return("Ok")
       \/ blk <= LastBlock /\ stop /\ Return("Canceled")
       \/ blk <= LastBlock /\ ~stop /\ worker' = "block" /\ UNCHANGED ret
    /\ UNCHANGED <<gui, screen, queue, turn, blk, retBlock, shared, runs, asked>>

(* Mutated form: the event is sent before the block is stored.             *)
HandleBlockSendsFirst ==
    /\ worker = "block" /\ Send(Progress(blk))
    /\ blk' = blk + 1 /\ worker' = "head"
    /\ UNCHANGED <<gui, screen, turn, ret, retBlock, shared, runs, asked>>

(* The block is written, or passed over if it is block 0, and the callback *)
(* stores it before it sends the event; or the write has failed.           *)
HandleBlock ==
    /\ worker = "block"
    /\ \/ progress' = blk /\ blk' = blk + 1 /\ worker' = "progress" /\ UNCHANGED <<ret, retBlock>>
       \/ /\ blk # 0 /\ retBlock' = blk
          /\ \E r \in {"NoCard", "WriteFailed"} : Return(r)
          /\ UNCHANGED <<progress, blk>>
    /\ UNCHANGED <<gui, screen, queue, turn, stop, result, failBlock, runs, asked>>

SendProgress ==
    /\ worker = "progress" /\ Send(Progress(blk - 1)) /\ worker' = "head"
    /\ UNCHANGED <<gui, screen, turn, local, shared, runs, asked>>

(* Mutated form: the failed block is not handed over.                      *)
StoreResultOnly ==
    /\ worker = "result" /\ result' = ret /\ worker' = "done"
    /\ UNCHANGED <<gui, screen, queue, turn, local, stop, progress, failBlock, runs, asked>>

(* The result and the failed block are two stores; the event follows.      *)
StoreResult ==
    /\ worker = "result" /\ result' = ret /\ worker' = "fail_block"
    /\ UNCHANGED <<gui, screen, queue, turn, local, stop, progress, failBlock, runs, asked>>

StoreFailBlock ==
    /\ worker = "fail_block" /\ failBlock' = retBlock /\ worker' = "done"
    /\ UNCHANGED <<gui, screen, queue, turn, local, stop, progress, result, runs, asked>>

SendDone ==
    /\ worker = "done" /\ Send(Done) /\ worker' = "leaving"
    /\ UNCHANGED <<gui, screen, turn, local, shared, runs, asked>>

ExitThread ==
    /\ worker = "leaving" /\ worker' = "exited"
    /\ UNCHANGED <<gui, screen, queue, turn, local, shared, runs, asked>>

-----------------------------------------------------------------------------
(* GUI thread: inputs.                                                     *)

TakesInput == gui = "loop" /\ (turn = "any" \/ queue = <<>>) /\ turn' = "event"

(* mfc_ndef_start_format, as far as the join in worker_stop: the worker of *)
(* the run before is still there, exited or about to be.                   *)
ChooseFormat ==
    /\ TakesInput /\ view = "Submenu" /\ runs < MaxRuns /\ runs' = runs + 1
    /\ shown' = 0 /\ view' = "Popup"
    /\ stop' = (worker # "none" \/ stop)
    /\ gui' = "starting"
    /\ UNCHANGED <<widget, named, queue, worker, local, progress, result, failBlock, asked>>

(* Mutated form: the cancel flag is left as the last run left it.          *)
StartWorkerKeepsStop ==
    /\ gui = "starting" /\ worker \in {"none", "exited"}
    /\ worker' = "detect" /\ gui' = "loop"
    /\ blk' = 0 /\ ret' = "none" /\ retBlock' = 0 /\ asked' = Never
    /\ UNCHANGED <<screen, queue, turn, shared, runs>>

(* mfc_ndef_worker_start once the join has returned.                       *)
StartWorker ==
    /\ gui = "starting" /\ worker \in {"none", "exited"}
    /\ stop' = FALSE /\ worker' = "detect" /\ gui' = "loop"
    /\ blk' = 0 /\ ret' = "none" /\ retBlock' = 0 /\ asked' = Never
    /\ UNCHANGED <<screen, queue, turn, progress, result, failBlock, runs>>

ChooseAbout ==
    /\ TakesInput /\ view = "Submenu"
    /\ view' = "Widget" /\ widget' = "about" /\ named' = 0
    /\ UNCHANGED <<gui, shown, queue, worker, local, shared, runs, asked>>

(* Back in the menu is not consumed: the dispatcher stops, and app_free    *)
(* joins the worker.                                                       *)
LeaveApp ==
    /\ TakesInput /\ view = "Submenu"
    /\ gui' = "stopping" /\ stop' = (worker # "none" \/ stop)
    /\ UNCHANGED <<screen, queue, worker, local, progress, result, failBlock, runs, asked>>

FreeApp ==
    /\ gui = "stopping" /\ worker \in {"none", "exited"}
    /\ gui' = "off" /\ worker' = "none"
    /\ UNCHANGED <<screen, queue, turn, local, shared, runs, asked>>

Asks == asked' = IF worker \in InRun /\ asked = Never THEN blk ELSE asked

(* Mutated form: Back returns to the menu at once.                         *)
CancelFormatToMenu ==
    /\ TakesInput /\ view = "Popup" /\ stop' = TRUE /\ Asks
    /\ view' = "Submenu"
    /\ UNCHANGED <<gui, widget, named, shown, queue, worker, local, progress, result, failBlock, runs>>

(* Back in the popup asks for a cancel and waits for the Done event.       *)
CancelFormat ==
    /\ TakesInput /\ view = "Popup"
    /\ stop' = TRUE /\ Asks
    /\ UNCHANGED <<gui, screen, queue, worker, local, progress, result, failBlock, runs>>

(* The OK button of a result screen; About has none.                       *)
PressOk ==
    /\ TakesInput /\ view = "Widget" /\ widget \in Results
    /\ Send(BackToMenu)
    /\ UNCHANGED <<gui, screen, worker, local, shared, runs, asked>>

WidgetBack ==
    /\ TakesInput /\ view = "Widget" /\ view' = "Submenu"
    /\ UNCHANGED <<gui, widget, named, shown, queue, worker, local, shared, runs, asked>>

-----------------------------------------------------------------------------
(* GUI thread: custom events.                                              *)

Handles(kind) ==
    /\ gui = "loop" /\ queue # <<>> /\ Head(queue).kind = kind
    /\ queue' = Tail(queue) /\ turn' = "any"

HandleProgress ==
    /\ Handles("Progress") /\ shown' = progress
    /\ UNCHANGED <<gui, view, widget, named, worker, local, shared, runs, asked>>

HandleDone ==
    /\ Handles("Done") /\ view' = "Widget"
    /\ widget' = result /\ named' = (IF result = "WriteFailed" THEN failBlock ELSE 0)
    /\ UNCHANGED <<gui, shown, worker, local, shared, runs, asked>>

HandleBackToMenu ==
    /\ Handles("BackToMenu") /\ view' = "Submenu"
    /\ UNCHANGED <<gui, widget, named, shown, worker, local, shared, runs, asked>>

Off == gui = "off" /\ UNCHANGED vars

Worker ==
    \/ DetectCard \/ LoopHead \/ HandleBlock \/ SendProgress
    \/ StoreResult \/ StoreFailBlock \/ SendDone \/ ExitThread
Input  == ChooseFormat \/ ChooseAbout \/ LeaveApp \/ CancelFormat \/ PressOk \/ WidgetBack
Event  == HandleProgress \/ HandleDone \/ HandleBackToMenu
Joined == StartWorker \/ FreeApp

Next == Worker \/ Input \/ Event \/ Joined \/ Off

(* Both threads run, and the NFC calls return; the user owes nothing.      *)
Fairness == WF_vars(Worker) /\ WF_vars(Event) /\ WF_vars(Joined)

Spec == Init /\ [][Next]_vars /\ Fairness

-----------------------------------------------------------------------------
(* Safety.                                                                 *)

(* A worker whose Done event has not been handled.                         *)
Running ==
    \/ worker \in {"result", "fail_block", "done"} \cup InRun
    \/ \E i \in 1..Len(queue) : queue[i].kind = "Done"

(* While a run has not been acknowledged the popup stays in front, so no   *)
(* second run and no exit can begin ("keep showing the popup until the     *)
(* worker acknowledges with a Done event").                                *)
PopupUntilDone == Running => view = "Popup"

(* The GUI thread joins only a worker that has nothing left to send: it    *)
(* can never wait for a thread that waits for it ("A previous run should   *)
(* already be finished").                                                  *)
JoinsOnlyFinished == gui \in {"starting", "stopping"} => ~Running

(* A result screen shows what the latest run returned and the block it     *)
(* failed at, never those of an earlier run or one of each, although the   *)
(* worker stores the two one after the other and no lock is held ("read    *)
(* only after the matching custom event").                                 *)
ResultIsLatest ==
    view = "Widget" /\ widget \in Results =>
        widget = ret /\ named = IF ret = "WriteFailed" THEN retBlock ELSE 0

(* The number shown for a progress event is never older than the event,    *)
(* nor ahead of the run ("read only after the matching custom event").     *)
ProgressIsCurrent ==
    [][HandleProgress => Head(queue).block <= shown' /\ shown' < blk]_vars

(* With its threads, its flag and its queue, the application runs one      *)
(* format at a time, to one outcome each; none ends as cancelled unless    *)
(* Back was pressed during it, and once it was, at most the block at hand  *)
(* is finished.                                                            *)
Run == INSTANCE FormatRun WITH
    Blocks <- LastBlock + 1, running <- worker \in InRun, at <- blk, outcome <- ret

ImplementsRun == Run!Spec

(* Liveness: every format that is started ends in a result screen, also    *)
(* when it is cancelled and however often Back is pressed.                 *)
EveryRunReports == view = "Popup" ~> view = "Widget"

=============================================================================
