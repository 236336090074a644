--------------------------- MODULE NdefAppProofs ---------------------------
(***************************************************************************)
(* Proofs about NdefApp for any number of blocks, any capacity of the      *)
(* dispatcher's queue and any number of runs.                              *)
(***************************************************************************)
EXTENDS NdefApp, TLAPS

(* The worker has a run, or its result, still to announce.                 *)
Active == {"result", "fail_block", "done"} \cup InRun

(* The popup is in front from the choice in the menu to the Done event,    *)
(* and nothing is queued for a GUI thread that joins.                      *)
Screens ==
    /\ worker \in Active => view = "Popup" /\ gui = "loop"
    /\ gui = "starting" => view = "Popup" /\ queue = <<>>
    /\ gui \in {"stopping", "off"} => view = "Submenu" /\ queue = <<>>

(* Done is the last event of a run; OK's event is alone in the queue.      *)
Queued ==
    /\ view = "Popup" => \A i \in 1..Len(queue) :
           /\ queue[i].kind # "BackToMenu"
           /\ queue[i].kind = "Done" => i = Len(queue) /\ worker \in {"leaving", "exited"}
    /\ view # "Popup" => Len(queue) <= 1
    /\ view # "Popup" /\ queue # <<>> => turn = "event" /\ queue[1].kind = "BackToMenu"

(* What the worker has handed over.                                        *)
Stored ==
    /\ worker \in (Active \ InRun) \cup {"leaving", "exited"} => ret \in Results
    /\ worker \in {"fail_block", "done", "leaving", "exited"} => result = ret
    /\ worker \in {"done", "leaving", "exited"} => failBlock = retBlock

(* The progress block is never behind an event, nor ahead of the run.      *)
Announced ==
    /\ worker = "block" => blk <= LastBlock
    /\ worker = "progress" => blk = progress + 1
    /\ \A i \in 1..Len(queue) :
           queue[i].kind = "Progress" => queue[i].block <= progress /\ progress < blk

(* A request to stop is pending for the block at hand and no other.        *)
Asked ==
    /\ worker = "detect" => blk = 0
    /\ worker \in InRun /\ stop => asked # Never
    /\ worker \in InRun /\ ~stop => asked = Never
    /\ worker = "block" => asked \in {Never, blk}

AppInv == Screens /\ Queued /\ Stored /\ ResultIsLatest /\ Announced /\ Asked

-----------------------------------------------------------------------------
(* The queue as a sequence.                                                *)

LEMMA SendFacts ==
    ASSUME TypeOK, NEW e \in Events, Send(e)
    PROVE  /\ queue' \in Seq(Events) /\ Len(queue') = Len(queue) + 1 /\ Len(queue') <= QueueLen
           /\ Len(queue) \in Nat
           /\ \A i \in 1..Len(queue) : queue'[i] = queue[i]
           /\ queue'[Len(queue) + 1] = e
  BY AppConstantsOK DEF TypeOK, Send

LEMMA HandleFacts ==
    ASSUME TypeOK, NEW kind, Handles(kind)
    PROVE  /\ queue' \in Seq(Events) /\ Len(queue') = Len(queue) - 1
           /\ Len(queue) \in Nat \ {0} /\ Len(queue) <= QueueLen
           /\ \A i \in 1..Len(queue') : queue'[i] = queue[i + 1] /\ i + 1 \in 1..Len(queue)
           /\ Head(queue) = queue[1] /\ queue[1].kind = kind
  BY AppConstantsOK DEF TypeOK, Handles

LEMMA EventFacts ==
    /\ \A b \in 0..LastBlock : Progress(b) \in Events
    /\ Done \in Events /\ BackToMenu \in Events
    /\ LastBlock \in Nat /\ 0 \in 0..LastBlock /\ Never = LastBlock + 2
  BY AppConstantsOK DEF Progress, Done, BackToMenu, Events, Never

LEMMA QueueFacts ==
    ASSUME TypeOK
    PROVE  \A i \in 1..Len(queue) :
               queue[i].kind \in {"Progress", "Done", "BackToMenu"} /\ queue[i].block \in Nat
  <1>1. \A e \in Events : e.kind \in {"Progress", "Done", "BackToMenu"} /\ e.block \in Nat
    BY AppConstantsOK DEF Events
  <1>2. \A i \in 1..Len(queue) : queue[i] \in Events
    BY DEF TypeOK
  <1> QED BY <1>1, <1>2

LEMMA StopStep == stop \in BOOLEAN /\ [Next]_vars => stop' \in BOOLEAN
  <1> SUFFICES ASSUME stop \in BOOLEAN, [Next]_vars PROVE stop' \in BOOLEAN
    OBVIOUS
  <1>1. CASE UNCHANGED stop
    BY <1>1, Zenon
  <1>2. CASE ChooseFormat
    BY <1>2, Zenon DEF ChooseFormat
  <1>3. CASE LeaveApp
    BY <1>3, Zenon DEF LeaveApp
  <1>4. CASE CancelFormat
    BY <1>4, Zenon DEF CancelFormat
  <1>5. CASE StartWorker
    BY <1>5, Zenon DEF StartWorker
  <1> QED
    BY <1>1, <1>2, <1>3, <1>4, <1>5
    DEF Next, Worker, Input, Event, Joined, Off, DetectCard, LoopHead, HandleBlock, SendProgress,
        StoreResult, StoreFailBlock, SendDone, ExitThread, ChooseAbout, PressOk, WidgetBack,
        HandleProgress, HandleDone, HandleBackToMenu, FreeApp, shared, vars

LEMMA StepType == TypeOK /\ AppInv /\ [Next]_vars => TypeOK'
  <1> SUFFICES ASSUME TypeOK, AppInv, [Next]_vars PROVE TypeOK'
    OBVIOUS
  <1>0. stop' \in BOOLEAN
    BY StopStep DEF TypeOK
  <1> USE <1>0, AppConstantsOK, EventFacts
      DEF TypeOK, InRun, Results, screen, shared, local
  <1>1. CASE DetectCard
    BY <1>1 DEF DetectCard, Return
  <1>2. CASE LoopHead
    BY <1>2 DEF LoopHead, Return
  <1>3. CASE HandleBlock
    BY <1>3 DEF HandleBlock, Return, AppInv, Announced
  <1>4. CASE SendProgress
    BY <1>4, SendFacts DEF SendProgress, AppInv, Announced
  <1>5. CASE StoreResult
    BY <1>5 DEF StoreResult, AppInv, Stored, Active
  <1>6. CASE StoreFailBlock
    BY <1>6 DEF StoreFailBlock
  <1>7. CASE SendDone
    BY <1>7, SendFacts DEF SendDone
  <1>8. CASE ExitThread
    BY <1>8 DEF ExitThread
  <1>9. CASE ChooseFormat
    BY <1>9 DEF ChooseFormat, TakesInput
  <1>10. CASE ChooseAbout
    BY <1>10 DEF ChooseAbout, TakesInput
  <1>11. CASE LeaveApp
    BY <1>11 DEF LeaveApp, TakesInput
  <1>12. CASE CancelFormat
    BY <1>12 DEF CancelFormat, TakesInput, Asks
  <1>13. CASE PressOk
    BY <1>13, SendFacts DEF PressOk, TakesInput
  <1>14. CASE WidgetBack
    BY <1>14 DEF WidgetBack, TakesInput
  <1>15. CASE HandleProgress
    <2>1. queue' \in Seq(Events) /\ Len(queue') <= QueueLen /\ turn' = "any"
      BY <1>15, HandleFacts DEF HandleProgress, Handles
    <2> QED BY <1>15, <2>1 DEF HandleProgress
  <1>16. CASE HandleDone
    <2>1. queue' \in Seq(Events) /\ Len(queue') <= QueueLen /\ turn' = "any"
      BY <1>16, HandleFacts DEF HandleDone, Handles
    <2> QED BY <1>16, <2>1 DEF HandleDone
  <1>17. CASE HandleBackToMenu
    <2>1. queue' \in Seq(Events) /\ Len(queue') <= QueueLen /\ turn' = "any"
      BY <1>17, HandleFacts DEF HandleBackToMenu, Handles
    <2> QED BY <1>17, <2>1 DEF HandleBackToMenu
  <1>18. CASE StartWorker
    BY <1>18 DEF StartWorker
  <1>19. CASE FreeApp
    BY <1>19 DEF FreeApp
  <1>20. CASE UNCHANGED vars
    BY <1>20 DEF vars
  <1> QED
    BY <1>1, <1>2, <1>3, <1>4, <1>5, <1>6, <1>7, <1>8, <1>9, <1>10, <1>11, <1>12, <1>13, <1>14,
       <1>15, <1>16, <1>17, <1>18, <1>19, <1>20 DEF Next, Worker, Input, Event, Joined, Off

(* The types and the invariant, action by action.                          *)
LEMMA StepApp == TypeOK /\ AppInv /\ [Next]_vars => AppInv'
  <1> SUFFICES ASSUME TypeOK, AppInv, [Next]_vars PROVE AppInv'
    OBVIOUS
  <1>0. /\ queue \in Seq(Events) /\ Len(queue) \in Nat
        /\ blk \in Nat /\ blk <= LastBlock + 1 /\ asked \in 0..Never /\ progress \in Nat
        /\ \A i \in 1..Len(queue) : queue[i].block \in Nat
    <2>1. \A i \in 1..Len(queue) : queue[i].block \in Nat
      BY QueueFacts
    <2>2. queue \in Seq(Events) /\ Len(queue) \in Nat
      BY DEF TypeOK
    <2>3. blk \in Nat /\ blk <= LastBlock + 1 /\ asked \in 0..Never /\ progress \in Nat
      BY AppConstantsOK DEF TypeOK
    <2> QED BY <2>1, <2>2, <2>3
  <1> USE <1>0, EventFacts
      DEF AppInv, Screens, Queued, Stored, Announced, Asked, ResultIsLatest,
          Active, InRun, screen, shared, local
  <1>1. CASE DetectCard
    BY <1>1 DEF DetectCard, Return, Results
  <1>2. CASE LoopHead
    BY <1>2 DEF LoopHead, Return, Results
  <1>3. CASE HandleBlock
    <2>1. CASE progress' = blk /\ blk' = blk + 1 /\ worker' = "progress" /\ UNCHANGED <<ret, retBlock>>
      <3>1. Announced'
        BY <1>3, <2>1 DEF HandleBlock
      <3> QED
        BY <1>3, <2>1, <3>1 DEF HandleBlock
    <2>2. CASE worker' = "result" /\ ret' \in {"NoCard", "WriteFailed"} /\ UNCHANGED <<progress, blk>>
      BY <1>3, <2>2 DEF HandleBlock, Results
    <2> QED BY <1>3, <2>1, <2>2 DEF HandleBlock, Return
  <1>4. CASE SendProgress
    <2>1. /\ blk - 1 = progress /\ progress \in 0..LastBlock /\ Progress(blk - 1) \in Events
          /\ Progress(blk - 1).kind = "Progress" /\ Progress(blk - 1).block = progress
      <3>1. worker = "progress"
        BY <1>4 DEF SendProgress
      <3>2. progress \in 0..LastBlock /\ blk - 1 = progress
        BY <3>1 DEF TypeOK
      <3> QED BY <3>2 DEF Progress
    <2>2. Announced'
      <3>1. worker' = "head" /\ UNCHANGED <<progress, blk>> /\ progress < blk
        BY <1>4, <2>1 DEF SendProgress
      <3>2. /\ Len(queue') = Len(queue) + 1 /\ queue'[Len(queue) + 1] = Progress(blk - 1)
            /\ \A i \in 1..Len(queue) : queue'[i] = queue[i]
        BY <1>4, <2>1, SendFacts DEF SendProgress
      <3> QED
        BY <2>1, <3>1, <3>2
    <2>3. Queued'
      BY <1>4, <2>1, SendFacts DEF SendProgress
    <2> QED
      BY <1>4, <2>1, <2>2, <2>3 DEF SendProgress
  <1>5. CASE StoreResult
    BY <1>5 DEF StoreResult
  <1>6. CASE StoreFailBlock
    BY <1>6 DEF StoreFailBlock
  <1>7. CASE SendDone
    <2>1. Done.kind = "Done" /\ view = "Popup" /\ gui = "loop"
      BY <1>7 DEF SendDone, Done
    <2>2. /\ Len(queue') = Len(queue) + 1 /\ queue'[Len(queue) + 1] = Done
          /\ \A i \in 1..Len(queue) : queue'[i] = queue[i]
      BY <1>7, SendFacts DEF SendDone
    <2>3. Announced'
      <3>1. worker' = "leaving" /\ UNCHANGED <<progress, blk>>
        BY <1>7 DEF SendDone
      <3> QED BY <2>1, <2>2, <3>1
    <2>4. Queued'
      <3>1. view' = "Popup" /\ worker' = "leaving" /\ \A i \in 1..Len(queue) : queue[i].kind = "Progress"
        BY <1>7, <2>1, QueueFacts DEF SendDone
      <3> QED BY <2>1, <2>2, <3>1
    <2> QED
      BY <1>7, <2>1, <2>3, <2>4 DEF SendDone
  <1>8. CASE ExitThread
    BY <1>8 DEF ExitThread
  <1>9. CASE ChooseFormat
    <2>1. queue = <<>> /\ worker \notin Active
      BY <1>9 DEF ChooseFormat, TakesInput
    <2> QED
      BY <1>9, <2>1 DEF ChooseFormat
  <1>10. CASE ChooseAbout
    <2>1. queue = <<>> /\ gui = "loop" /\ worker \notin Active /\ "about" \notin Results
      BY <1>10 DEF ChooseAbout, TakesInput, Results
    <2>2. UNCHANGED <<queue, worker, gui, blk, progress, result, failBlock, ret, retBlock, stop, asked>>
      BY <1>10 DEF ChooseAbout
    <2>3. ResultIsLatest'
      BY <1>10, <2>1 DEF ChooseAbout
    <2>4. Screens'
      BY <1>10, <2>1, <2>2 DEF ChooseAbout
    <2>5. Queued'
      <3>1. view' = "Widget" /\ queue' = <<>> /\ Len(queue') = 0
        BY <1>10, <2>1, <2>2 DEF ChooseAbout
      <3> QED BY <3>1
    <2> QED
      BY <2>1, <2>2, <2>3, <2>4, <2>5
  <1>11. CASE LeaveApp
    BY <1>11 DEF LeaveApp, TakesInput
  <1>12. CASE CancelFormat
    BY <1>12 DEF CancelFormat, TakesInput, Asks
  <1>13. CASE PressOk
    BY <1>13, SendFacts DEF PressOk, Progress, Done, BackToMenu, TakesInput, TypeOK
  <1>14. CASE WidgetBack
    BY <1>14 DEF WidgetBack, TakesInput
  <1>15. CASE HandleProgress
    <2>1. view = "Popup"
      BY <1>15, HandleFacts DEF HandleProgress
    <2>2. Announced'
      BY <1>15, HandleFacts DEF HandleProgress
    <2>3. Queued'
      <3>1. /\ Len(queue') = Len(queue) - 1
            /\ \A i \in 1..Len(queue') : queue'[i] = queue[i + 1] /\ i + 1 \in 1..Len(queue)
        BY <1>15, HandleFacts DEF HandleProgress
      <3>2. view' = "Popup" /\ worker' = worker /\ Len(queue') \in Nat
        BY <1>15, <2>1, <3>1 DEF HandleProgress
      <3>3. ASSUME NEW i \in 1..Len(queue')
            PROVE  /\ queue'[i].kind # "BackToMenu"
                   /\ queue'[i].kind = "Done" => i = Len(queue') /\ worker' \in {"leaving", "exited"}
        <4>1. i \in Nat /\ i + 1 \in 1..Len(queue) /\ queue'[i] = queue[i + 1]
          BY <3>1
        <4>2. /\ queue[i + 1].kind # "BackToMenu"
              /\ queue[i + 1].kind = "Done" => i + 1 = Len(queue) /\ worker \in {"leaving", "exited"}
          BY <2>1, <4>1
        <4> QED BY <3>1, <3>2, <4>1, <4>2
      <3> QED
        BY <3>2, <3>3
    <2> QED
      BY <1>15, <2>1, <2>2, <2>3 DEF HandleProgress, Handles
  <1>16. CASE HandleDone
    BY <1>16, HandleFacts DEF HandleDone, TypeOK
  <1>17. CASE HandleBackToMenu
    BY <1>17, HandleFacts DEF HandleBackToMenu, TypeOK
  <1>18. CASE StartWorker
    BY <1>18 DEF StartWorker
  <1>19. CASE FreeApp
    BY <1>19 DEF FreeApp
  <1>20. CASE UNCHANGED vars
    BY <1>20 DEF vars
  <1> QED
    BY <1>1, <1>2, <1>3, <1>4, <1>5, <1>6, <1>7, <1>8, <1>9, <1>10, <1>11, <1>12, <1>13, <1>14,
       <1>15, <1>16, <1>17, <1>18, <1>19, <1>20 DEF Next, Worker, Input, Event, Joined, Off

LEMMA AppInductive == Spec => [](TypeOK /\ AppInv)
  <1>1. Init => TypeOK /\ AppInv
    <2> SUFFICES ASSUME Init PROVE TypeOK /\ AppInv
      OBVIOUS
    <2>1. stop \in BOOLEAN
      BY Zenon DEF Init
    <2>2. TypeOK
      BY <2>1, EventFacts, AppConstantsOK DEF Init, TypeOK, InRun, Results
    <2>3. Screens /\ Queued /\ Stored /\ Announced /\ Asked
      BY DEF Init, Screens, Queued, Stored, Announced, Asked, Active, InRun
    <2>4. ResultIsLatest
      BY DEF Init, ResultIsLatest
    <2> QED BY <2>2, <2>3, <2>4 DEF AppInv
  <1>2. TypeOK /\ AppInv /\ [Next]_vars => TypeOK' /\ AppInv'
    BY StepType, StepApp
  <1> QED BY <1>1, <1>2, PTL DEF Spec

(* The application's state stays within its types; in particular the loop  *)
(* never runs past the last block and the queue never overflows.           *)
THEOREM AppTypeCorrect == Spec => []TypeOK
  BY AppInductive, PTL

(* The popup stays in front until the Done event has been handled, so no   *)
(* second run can be started on top of the first.                          *)
THEOREM PopupStays == Spec => []PopupUntilDone
  <1>1. TypeOK /\ AppInv => PopupUntilDone
    <2> SUFFICES ASSUME TypeOK, AppInv, Running PROVE view = "Popup"
      BY DEF PopupUntilDone
    <2>1. CASE worker \in Active
      BY <2>1 DEF AppInv, Screens
    <2>2. CASE \E i \in 1..Len(queue) : queue[i].kind = "Done"
      <3> SUFFICES ASSUME view # "Popup" PROVE FALSE
        OBVIOUS
      <3>1. Len(queue) \in Nat /\ Len(queue) <= 1
        BY AppConstantsOK DEF AppInv, Queued, TypeOK
      <3>2. queue # <<>> /\ queue[1].kind = "Done"
        BY <2>2, <3>1 DEF TypeOK
      <3> QED
        BY <3>2 DEF AppInv, Queued
    <2> QED BY <2>1, <2>2 DEF Running, Active
  <1> QED BY <1>1, AppInductive, PTL

(* The GUI thread never joins a worker that may still have to wait for it. *)
THEOREM JoinsAreSafe == Spec => []JoinsOnlyFinished
  <1>1. TypeOK /\ AppInv => JoinsOnlyFinished
    BY DEF AppInv, Screens, JoinsOnlyFinished, Running, Active, TypeOK
  <1> QED BY <1>1, AppInductive, PTL

(* A result screen shows the result and the block of the latest run.       *)
THEOREM ResultIsCurrent == Spec => []ResultIsLatest
  BY AppInductive, PTL DEF AppInv

(* The block shown is not older than its event nor ahead of the run.       *)
THEOREM ProgressShownIsCurrent == Spec => ProgressIsCurrent
  <1>1. TypeOK /\ AppInv /\ [Next]_vars =>
            [HandleProgress => Head(queue).block <= shown' /\ shown' < blk]_vars
    <2> SUFFICES ASSUME TypeOK, AppInv, HandleProgress
                 PROVE  Head(queue).block <= shown' /\ shown' < blk
      OBVIOUS
    <2>1. shown' = progress /\ Head(queue) = queue[1] /\ 1 \in 1..Len(queue) /\ queue[1].kind = "Progress"
      BY HandleFacts DEF HandleProgress
    <2> QED BY <2>1 DEF AppInv, Announced
  <1> QED BY <1>1, AppInductive, PTL DEF Spec, ProgressIsCurrent

-----------------------------------------------------------------------------
(* The application runs one format at a time, as FormatRun describes it.   *)

LEMMA StepAbstract == TypeOK /\ AppInv /\ [Next]_vars => [Run!Next]_(Run!vars)
  <1> SUFFICES ASSUME TypeOK, AppInv, [Next]_vars
               PROVE  Run!Next \/ UNCHANGED Run!vars
    OBVIOUS
  <1>0. /\ LastBlock \in Nat /\ blk \in 0..(LastBlock + 1) /\ asked \in 0..Never
        /\ Never = LastBlock + 2 /\ Never = Run!Never /\ Run!Never = LastBlock + 2
    BY AppConstantsOK DEF TypeOK, Never, Run!Never
  <1> USE <1>0 DEF AppInv, Screens, Announced, Asked, Active, InRun, Run!vars
  <1>1. CASE DetectCard
    <2>1. CASE worker' = "head" /\ UNCHANGED <<ret, blk, asked>>
      BY <1>1, <2>1 DEF DetectCard
    <2>2. CASE worker' = "result" /\ ret' \in {"NoCard", "NotClassic1k"} /\ UNCHANGED <<blk, asked>>
      <3>1. Run!Fail \/ Run!Refuse
        BY <1>1, <2>2 DEF DetectCard, Run!Fail, Run!Refuse, Run!End
      <3> QED BY <3>1 DEF Run!Next
    <2> QED BY <1>1, <2>1, <2>2 DEF DetectCard, Return
  <1>2. CASE LoopHead
    <2>1. Run!Succeed \/ Run!Cancel \/ UNCHANGED Run!vars
      BY <1>2 DEF LoopHead, Return, Run!Succeed, Run!Cancel, Run!End
    <2> QED BY <2>1 DEF Run!Next
  <1>3. CASE HandleBlock
    <2>1. Run!Advance \/ Run!Fail
      BY <1>3 DEF HandleBlock, Return, Run!Advance, Run!Fail, Run!End
    <2> QED BY <2>1 DEF Run!Next
  <1>4. CASE CancelFormat
    <2>1. CASE worker \in InRun /\ asked = Never
      <3>1. Run!Ask
        BY <1>4, <2>1 DEF CancelFormat, Asks, local, Run!Ask
      <3> QED BY <3>1 DEF Run!Next
    <2>2. CASE ~(worker \in InRun /\ asked = Never)
      BY <1>4, <2>2 DEF CancelFormat, Asks, local
    <2> QED BY <2>1, <2>2
  <1>5. CASE StartWorker
    <2>1. Run!Begin
      BY <1>5 DEF StartWorker, Run!Begin
    <2> QED BY <2>1 DEF Run!Next
  <1>6. CASE SendProgress \/ StoreResult \/ StoreFailBlock \/ SendDone \/ ExitThread \/ FreeApp
    BY <1>6 DEF SendProgress, StoreResult, StoreFailBlock, SendDone, ExitThread, FreeApp, local
  <1>7. CASE UNCHANGED <<worker, local, asked>>
    BY <1>7 DEF local
  <1> QED
    BY <1>1, <1>2, <1>3, <1>4, <1>5, <1>6, <1>7
    DEF Next, Worker, Input, Event, Joined, Off, ChooseFormat, ChooseAbout, LeaveApp, PressOk, WidgetBack,
        HandleProgress, HandleDone, HandleBackToMenu, vars

(* Threads, flag and queue together implement the abstract run: a cancel   *)
(* reaches the run it was meant for and no other.                          *)
THEOREM AppIsARun == Spec => ImplementsRun
  <1>1. Init => Run!Init
    BY AppConstantsOK DEF Init, InRun, Never, Run!Init, Run!Never
  <1> QED BY <1>1, StepAbstract, AppInductive, PTL DEF Spec, ImplementsRun, Run!Spec

-----------------------------------------------------------------------------
(* Nobody waits in vain.                                                   *)

(* Behind a popup there is a run that has yet to report, or its Done event *)
(* as the last in the queue.                                               *)
Awaited ==
    view = "Popup" /\ gui = "loop" =>
        worker \in Active \/ (queue # <<>> /\ queue[Len(queue)].kind = "Done")

(* A worker that may have to wait for room in the queue finds the GUI      *)
(* thread in its event loop; a GUI thread that joins waits for a worker    *)
(* with no event left to send; and the GUI thread never sends into a queue *)
(* that is full, which only itself could empty.                            *)
NoMutualWait ==
    /\ worker \in {"progress", "done"} => gui = "loop"
    /\ gui \in {"starting", "stopping"} => worker \in {"none", "leaving", "exited"}
    /\ gui = "loop" /\ (turn = "any" \/ queue = <<>>) /\ view = "Widget" => Len(queue) < QueueLen

LEMMA StepAwaited == TypeOK /\ AppInv /\ Awaited /\ [Next]_vars => Awaited'
  <1> SUFFICES ASSUME TypeOK, AppInv, Awaited, [Next]_vars, view' = "Popup", gui' = "loop"
               PROVE  worker' \in Active \/ (queue' # <<>> /\ queue'[Len(queue')].kind = "Done")
    BY DEF Awaited
  <1>1. CASE SendDone
    <2>1. queue' \in Seq(Events) /\ Len(queue') = Len(queue) + 1 /\ Len(queue) \in Nat /\ queue'[Len(queue')] = Done
      BY <1>1, SendFacts, EventFacts DEF SendDone
    <2> QED BY <2>1 DEF Done
  <1>2. CASE HandleProgress
    <2>1. /\ view = "Popup" /\ gui = "loop" /\ worker' = worker
          /\ Len(queue) \in Nat \ {0} /\ queue[1].kind = "Progress" /\ queue' \in Seq(Events)
          /\ Len(queue') = Len(queue) - 1
          /\ \A i \in 1..Len(queue') : queue'[i] = queue[i + 1] /\ i + 1 \in 1..Len(queue)
      BY <1>2, HandleFacts DEF HandleProgress
    <2>2. CASE worker \in Active
      BY <2>1, <2>2
    <2>3. CASE queue[Len(queue)].kind = "Done"
      <3>1. Len(queue) # 1 /\ Len(queue') \in 1..Len(queue') /\ queue' # <<>>
        BY <2>1, <2>3
      <3>2. queue'[Len(queue')] = queue[Len(queue)]
        BY <2>1, <3>1
      <3> QED BY <2>3, <3>1, <3>2
    <2> QED BY <2>1, <2>2, <2>3 DEF Awaited
  <1>3. CASE SendProgress \/ DetectCard \/ LoopHead \/ HandleBlock \/ StoreResult \/ StoreFailBlock \/ StartWorker
    BY <1>3 DEF SendProgress, DetectCard, LoopHead, HandleBlock, StoreResult, StoreFailBlock, StartWorker,
                Return, Active, InRun
  <1>4. CASE ExitThread \/ CancelFormat \/ UNCHANGED vars
    <2>1. worker \in Active => worker' \in Active
      BY <1>4 DEF ExitThread, CancelFormat, vars, Active, InRun
    <2>2. UNCHANGED <<queue, view, gui>>
      BY <1>4 DEF ExitThread, CancelFormat, vars, screen
    <2> QED BY <2>1, <2>2 DEF Awaited
  <1>5. CASE \/ ChooseFormat \/ ChooseAbout \/ LeaveApp \/ PressOk \/ WidgetBack \/ HandleDone
             \/ HandleBackToMenu \/ FreeApp
    BY <1>5 DEF ChooseFormat, ChooseAbout, LeaveApp, PressOk, WidgetBack, HandleDone, HandleBackToMenu,
                FreeApp, screen
  <1> QED
    BY <1>1, <1>2, <1>3, <1>4, <1>5 DEF Next, Worker, Input, Event, Joined, Off

LEMMA AwaitedInductive == Spec => []Awaited
  <1>1. Init => Awaited
    BY DEF Init, Awaited
  <1> QED BY <1>1, StepAwaited, AppInductive, PTL DEF Spec

(* The popup never waits for an event that does not come: whatever the     *)
(* run's outcome, and however it was cancelled, its Done event is still to *)
(* be sent or on its way.                                                  *)
THEOREM PopupIsAnswered == Spec => []Awaited
  BY AwaitedInductive, PTL

(* The two threads never wait for each other, with a queue of any length.  *)
THEOREM ThreadsNeverDeadlock == Spec => []NoMutualWait
  <1>1. TypeOK /\ AppInv => NoMutualWait
    <2> SUFFICES ASSUME TypeOK, AppInv PROVE NoMutualWait
      OBVIOUS
    <2>1. worker \in {"progress", "done"} => gui = "loop"
      BY DEF AppInv, Screens, Active, InRun
    <2>2. gui \in {"starting", "stopping"} => worker \in {"none", "leaving", "exited"}
      BY DEF AppInv, Screens, Active, TypeOK
    <2>3. gui = "loop" /\ (turn = "any" \/ queue = <<>>) /\ view = "Widget" => Len(queue) < QueueLen
      <3>1. view = "Widget" /\ turn = "any" => queue = <<>>
        BY DEF AppInv, Queued
      <3> QED BY <3>1, AppConstantsOK
    <2> QED BY <2>1, <2>2, <2>3 DEF NoMutualWait
  <1> QED BY <1>1, AppInductive, PTL

(* How much the worker has left to do before its thread has exited, and    *)
(* the two threads together before all it sends has been handled.          *)
WorkLeft ==
    CASE worker \in {"none", "exited"} -> 0
      [] worker = "leaving"    -> 1
      [] worker = "done"       -> 2
      [] worker = "fail_block" -> 3
      [] worker = "result"     -> 4
      [] worker = "block"      -> 3 * (LastBlock + 1 - blk) + 4
      [] worker = "head"       -> 3 * (LastBlock + 1 - blk) + 5
      [] worker = "progress"   -> 3 * (LastBlock + 1 - blk) + 6
      [] worker = "detect"     -> 3 * (LastBlock + 1) + 6

TurnsLeft == 2 * WorkLeft + Len(queue)

LEMMA WorkLeftFacts == TypeOK => WorkLeft \in Nat /\ TurnsLeft \in Nat
  <1> SUFFICES ASSUME TypeOK PROVE WorkLeft \in Nat /\ TurnsLeft \in Nat
    OBVIOUS
  <1>1. LastBlock \in Nat /\ blk \in Nat /\ blk <= LastBlock + 1 /\ Len(queue) \in Nat
    BY AppConstantsOK DEF TypeOK
  <1>2. worker \in {"none", "exited", "leaving", "done", "fail_block", "result",
                    "block", "head", "progress", "detect"}
    BY DEF TypeOK, InRun
  <1>3. WorkLeft \in Nat
    <2>1. CASE worker \in {"none", "exited", "leaving", "done", "fail_block", "result"}
      BY <2>1 DEF WorkLeft
    <2>2. CASE worker \in {"block", "head", "progress", "detect"}
      <3>1. LastBlock + 1 - blk \in Nat /\ LastBlock + 1 \in Nat
        BY <1>1
      <3> QED BY <2>2, <3>1 DEF WorkLeft
    <2> QED BY <1>2, <2>1, <2>2
  <1> QED BY <1>1, <1>3 DEF TurnsLeft

LEMMA WorkerTurns ==
    ASSUME TypeOK, AppInv, Worker
    PROVE  WorkLeft' \in Nat /\ WorkLeft' < WorkLeft /\ Len(queue') \in Nat /\ Len(queue') <= Len(queue) + 1
  <1>0. /\ LastBlock \in Nat /\ blk \in Nat /\ blk <= LastBlock + 1 /\ LastBlock' = LastBlock
        /\ queue \in Seq(Events) /\ Len(queue) \in Nat
        /\ worker = "block" => blk <= LastBlock
        /\ worker = "detect" => blk = 0
    BY AppConstantsOK DEF TypeOK, AppInv, Announced, Asked
  <1>1. CASE SendProgress
    <2>1. worker = "progress" /\ worker' = "head" /\ blk' = blk /\ Len(queue') = Len(queue) + 1
      BY <1>1, <1>0 DEF SendProgress, Send, local
    <2> QED BY <1>0, <2>1 DEF WorkLeft
  <1>2. CASE SendDone
    <2>1. worker = "done" /\ worker' = "leaving" /\ Len(queue') = Len(queue) + 1
      BY <1>2, <1>0 DEF SendDone, Send
    <2> QED BY <1>0, <2>1 DEF WorkLeft
  <1>3. CASE DetectCard \/ LoopHead \/ HandleBlock \/ StoreResult \/ StoreFailBlock \/ ExitThread
    <2>1. queue' = queue
      BY <1>3 DEF DetectCard, LoopHead, HandleBlock, StoreResult, StoreFailBlock, ExitThread
    <2>2. WorkLeft' \in Nat /\ WorkLeft' < WorkLeft
      <3> USE <1>0 DEF WorkLeft
      <3>1. CASE DetectCard
        BY <3>1 DEF DetectCard, Return
      <3>2. CASE LoopHead
        BY <3>2 DEF LoopHead, Return
      <3>3. CASE HandleBlock
        <4>1. /\ worker = "block" /\ blk <= LastBlock
              /\ (worker' = "progress" /\ blk' = blk + 1) \/ worker' = "result"
          BY <3>3 DEF HandleBlock, Return
        <4>2. CASE worker' = "progress" /\ blk' = blk + 1
          <5>1. WorkLeft = 3 * (LastBlock + 1 - blk) + 4 /\ WorkLeft' = 3 * (LastBlock + 1 - blk') + 6
            BY <4>1, <4>2
          <5> HIDE DEF WorkLeft
          <5> QED BY <4>1, <4>2, <5>1
        <4>3. CASE worker' = "result"
          BY <4>1, <4>3
        <4> QED BY <4>1, <4>2, <4>3
      <3>4. CASE StoreResult \/ StoreFailBlock \/ ExitThread
        BY <3>4 DEF StoreResult, StoreFailBlock, ExitThread
      <3> QED BY <1>3, <3>1, <3>2, <3>3, <3>4
    <2> QED BY <1>0, <2>1, <2>2
  <1> QED BY <1>1, <1>2, <1>3 DEF Worker

LEMMA EventTurns ==
    ASSUME TypeOK, Event
    PROVE  WorkLeft' = WorkLeft /\ Len(queue') = Len(queue) - 1
  <1>1. UNCHANGED <<worker, blk>>
    BY DEF Event, HandleProgress, HandleDone, HandleBackToMenu, local
  <1>2. Len(queue') = Len(queue) - 1
    BY HandleFacts DEF Event, HandleProgress, HandleDone, HandleBackToMenu
  <1> QED BY <1>1, <1>2 DEF WorkLeft

LEMMA StepTurns ==
    TypeOK /\ AppInv /\ [Next]_vars =>
        /\ Worker \/ Event => TurnsLeft' < TurnsLeft
        /\ view = "Popup" /\ view' = "Popup" /\ ~StartWorker => TurnsLeft' <= TurnsLeft
  <1> SUFFICES ASSUME TypeOK, AppInv, [Next]_vars
               PROVE  /\ Worker \/ Event => TurnsLeft' < TurnsLeft
                      /\ view = "Popup" /\ view' = "Popup" /\ ~StartWorker => TurnsLeft' <= TurnsLeft
    OBVIOUS
  <1>0. WorkLeft \in Nat /\ Len(queue) \in Nat /\ TurnsLeft \in Nat
    BY WorkLeftFacts DEF TypeOK
  <1>1. ASSUME Worker \/ Event PROVE TurnsLeft' < TurnsLeft /\ TurnsLeft' <= TurnsLeft
    BY <1>0, <1>1, WorkerTurns, EventTurns DEF TurnsLeft
  <1>2. ASSUME view = "Popup", view' = "Popup", ~StartWorker, ~Worker, ~Event
        PROVE  TurnsLeft' = TurnsLeft
    <2>1. UNCHANGED <<worker, blk, queue>>
      BY <1>2 DEF AppInv, Screens, Next, Input, Joined, Off, ChooseFormat, ChooseAbout, LeaveApp, CancelFormat,
                  PressOk, WidgetBack, FreeApp, vars, local
    <2> QED BY <2>1 DEF TurnsLeft, WorkLeft
  <1> QED BY <1>0, <1>1, <1>2

(* Every step of either thread brings a run closer to its result screen,   *)
(* and while the popup is in front nothing takes it further away, however  *)
(* often Back is pressed.                                                  *)
THEOREM EveryStepCounts ==
    Spec => /\ [](TurnsLeft \in Nat)
            /\ [][Worker \/ Event => TurnsLeft' < TurnsLeft]_vars
            /\ [][view = "Popup" /\ view' = "Popup" /\ ~StartWorker => TurnsLeft' <= TurnsLeft]_vars
  <1>1. TypeOK => TurnsLeft \in Nat
    BY WorkLeftFacts
  <1>2. TypeOK /\ AppInv /\ [Next]_vars => [Worker \/ Event => TurnsLeft' < TurnsLeft]_vars
    BY StepTurns
  <1>3. TypeOK /\ AppInv /\ [Next]_vars =>
            [view = "Popup" /\ view' = "Popup" /\ ~StartWorker => TurnsLeft' <= TurnsLeft]_vars
    BY StepTurns
  <1> QED BY <1>1, <1>2, <1>3, AppInductive, PTL DEF Spec

-----------------------------------------------------------------------------
(* What a screen says is what happened.                                    *)

(* The latest run's outcome, against the blocks it dealt with and the      *)
(* block it was at when it was asked to stop.                              *)
OutcomeTrue ==
    /\ worker \in InRun => ret = "none"
    /\ ret = "Ok" => blk = LastBlock + 1
    /\ ret = "Canceled" => asked # Never /\ blk <= LastBlock
    /\ ret = "WriteFailed" => retBlock = blk /\ blk \in 1..LastBlock
    /\ ret = "NotClassic1k" => blk = 0
    /\ asked # Never => asked <= blk /\ blk <= asked + 1

ScreenIsTrue ==
    view = "Widget" =>
        /\ widget = "Ok" => blk = LastBlock + 1
        /\ widget = "Canceled" => asked # Never /\ blk <= asked + 1 /\ blk <= LastBlock
        /\ widget = "WriteFailed" => named = blk /\ blk \in 1..LastBlock
        /\ widget = "NotClassic1k" => blk = 0

LEMMA StepOutcome == TypeOK /\ AppInv /\ OutcomeTrue /\ [Next]_vars => OutcomeTrue'
  <1> SUFFICES ASSUME TypeOK, AppInv, OutcomeTrue, [Next]_vars PROVE OutcomeTrue'
    OBVIOUS
  <1>0. /\ LastBlock \in Nat /\ blk \in Nat /\ blk <= LastBlock + 1 /\ asked \in 0..Never
        /\ LastBlock' = LastBlock /\ Never' = Never /\ Never = LastBlock + 2
        /\ worker = "detect" => blk = 0
        /\ worker \in InRun /\ stop => asked # Never
        /\ worker = "block" => asked \in {Never, blk} /\ blk <= LastBlock
    BY AppConstantsOK DEF TypeOK, AppInv, Asked, Announced, Never
  <1> USE <1>0 DEF OutcomeTrue, InRun, local
  <1>1. CASE DetectCard
    BY <1>1 DEF DetectCard, Return
  <1>2. CASE LoopHead
    BY <1>2 DEF LoopHead, Return
  <1>3. CASE HandleBlock
    BY <1>3 DEF HandleBlock, Return
  <1>4. CASE CancelFormat
    BY <1>4 DEF CancelFormat, Asks
  <1>5. CASE StartWorker
    BY <1>5 DEF StartWorker
  <1>6. CASE SendProgress \/ StoreResult \/ StoreFailBlock \/ SendDone \/ ExitThread \/ FreeApp
    BY <1>6 DEF SendProgress, StoreResult, StoreFailBlock, SendDone, ExitThread, FreeApp
  <1>7. CASE UNCHANGED <<worker, local, asked>>
    BY <1>7
  <1> QED
    BY <1>1, <1>2, <1>3, <1>4, <1>5, <1>6, <1>7
    DEF Next, Worker, Input, Event, Joined, Off, ChooseFormat, ChooseAbout, LeaveApp, PressOk, WidgetBack,
        HandleProgress, HandleDone, HandleBackToMenu, vars

(* A result screen tells the truth about the run: "Ok" only after every    *)
(* block has been dealt with, "Canceled" only if Back was pressed and then *)
(* at most one block later, "Write failed" with the block it stopped at,   *)
(* and that the card is of another type before any block was touched.      *)
THEOREM ScreensAreTrue == Spec => []ScreenIsTrue
  <1>1. Init => OutcomeTrue
    BY AppConstantsOK DEF Init, OutcomeTrue, InRun, Never
  <1>2. Spec => []OutcomeTrue
    BY <1>1, StepOutcome, AppInductive, PTL DEF Spec
  <1>3. AppInv /\ OutcomeTrue => ScreenIsTrue
    BY DEF AppInv, ResultIsLatest, OutcomeTrue, ScreenIsTrue, Results
  <1> QED BY <1>2, <1>3, AppInductive, PTL

=============================================================================
