------------------------------ MODULE FormatRun ------------------------------
(***************************************************************************)
(* One format run as its caller sees it, with no card, no NFC call and no  *)
(* thread: the blocks are dealt with in order, each run has one outcome,   *)
(* and a cancel takes effect between two blocks.  NdefFormat, which makes  *)
(* the calls, and NdefApp, whose threads start and cancel runs, both       *)
(* implement it.                                                           *)
(***************************************************************************)
EXTENDS Naturals

CONSTANT Blocks    \* how many blocks a run deals with

VARIABLES
    running,   \* a run is under way
    at,        \* blocks dealt with so far in the latest run
    asked,     \* where it was when it was asked to stop, or Never
    outcome    \* what the latest run returned, "none" before it does

vars == <<running, at, asked, outcome>>

Never == Blocks + 1

Init == running = FALSE /\ at = 0 /\ asked = Never /\ outcome = "none"

Begin ==
    /\ ~running /\ running' = TRUE
    /\ at' = 0 /\ asked' = Never /\ outcome' = "none"

(* The block at hand may still be finished once the run has been asked to  *)
(* stop, and none after it.                                                *)
Advance ==
    /\ running /\ at < Blocks /\ asked \in {Never, at}
    /\ at' = at + 1
    /\ UNCHANGED <<running, asked, outcome>>

Ask ==
    /\ running /\ asked = Never /\ asked' = at
    /\ UNCHANGED <<running, at, outcome>>

End(r) ==
    /\ running /\ running' = FALSE /\ outcome' = r
    /\ UNCHANGED <<at, asked>>

Succeed == at = Blocks /\ End("Ok")
Cancel  == at < Blocks /\ asked # Never /\ End("Canceled")
Refuse  == at = 0 /\ End("NotClassic1k")
Fail    == at < Blocks /\ \E r \in {"NoCard", "WriteFailed"} : End(r)

Next == Begin \/ Advance \/ Ask \/ Succeed \/ Cancel \/ Refuse \/ Fail

Spec == Init /\ [][Next]_vars

==============================================================================
