----------------------------- MODULE NdefFormat -----------------------------
(***************************************************************************)
(* ndef_format.c: one run of the format on the worker thread, and further  *)
(* runs on the same card.  A run is a sequence of blocking NFC calls, each *)
(* of which activates the card anew; between any two of them the card may  *)
(* leave the field and come back, and any call may fail by itself, before  *)
(* or after the card has acted on it.                                      *)
(***************************************************************************)
EXTENDS MifareClassic

CONSTANTS
    Cards,        \* the cards around
    Clones,       \* those that accept a readable key B
    Classic1k,    \* those that are a MIFARE Classic 1K
    NoCard,       \* nothing on the field
    Foreign,      \* the sectors that a card may be found with under unknown keys
    MaxRuns,      \* bound: runs the user starts
    MaxMoves,     \* bound: times a card leaves the field
    MaxGlitches   \* bound: NFC calls that fail by themselves

ASSUME FormatConstantsOK ==
    /\ NoCard \notin Cards /\ Clones \subseteq Cards /\ Classic1k \subseteq Cards
    /\ Foreign \subseteq Sector
    /\ MaxRuns \in Nat /\ MaxMoves \in Nat /\ MaxGlitches \in Nat

VARIABLES
    card,         \* what every card holds, block by block
    field,        \* the card on the field
    pc,           \* the call the run makes next
    blk,          \* b: the block being written
    formatted,    \* already_formatted
    stop,         \* *fmt->stop: a cancel has been requested
    result,       \* what the last run returned
    failBlock,    \* fmt->fail_block
    runs, moves, glitches,   \* the bounded events so far
    \* History, read by no action of the program:
    placed,       \* the card last on the field
    swapped,      \* another card took the place of the one that was there in this run
    disturbed,    \* a card moved or a call failed by itself during this run
    asked,        \* blocks dealt with when this run was asked to stop, or Never
    foreign,      \* the sectors each card was found with under unknown keys
    torn          \* the sectors whose trailer was cut short when last written

run     == <<blk, formatted, stop, result, failBlock>>
cards   == <<card, foreign, torn>>
bounds  == <<runs, moves, glitches>>
hand    == <<placed, swapped>>
vars    == <<cards, field, pc, run, bounds, hand, disturbed, asked>>

Results == {"Ok", "NoCard", "NotClassic1k", "WriteFailed", "Canceled"}

FlagsOK ==
    /\ formatted \in BOOLEAN /\ stop \in BOOLEAN
    /\ disturbed \in BOOLEAN /\ swapped \in BOOLEAN

Never == 4 * Sectors + 1

CardsOK ==
    /\ card \in [Cards -> [Block -> Contents]]
    /\ \A c \in Cards, b \in Block : IsTrailer(b) => card[c][b] \in Trailers
    /\ foreign \in [Cards -> SUBSET Foreign] /\ torn \in [Cards -> SUBSET Sector]

TypeOK ==
    /\ CardsOK
    /\ field \in Cards \cup {NoCard} /\ placed \in Cards
    /\ pc \in {"idle", "detect", "probe", "block", "keyB", "keyA"}
    /\ blk \in 0..(4 * Sectors) /\ failBlock \in Block
    /\ result \in Results \cup {"none"}
    /\ runs \in 0..MaxRuns /\ moves \in 0..MaxMoves /\ glitches \in 0..MaxGlitches
    /\ asked \in 0..Never
    /\ FlagsOK

Init ==
    /\ foreign \in [Cards -> SUBSET Foreign]
    /\ \E f \in [Cards -> BOOLEAN] : card = [c \in Cards |-> AsFound(f[c], foreign[c])]
    /\ placed \in Cards /\ field = placed
    /\ pc = "idle" /\ blk = 0 /\ formatted = FALSE /\ stop = FALSE
    /\ result = "none" /\ failBlock = 0
    /\ runs = 0 /\ moves = 0 /\ glitches = 0
    /\ disturbed = FALSE /\ swapped = FALSE /\ asked = Never
    /\ torn = [c \in Cards |-> {}]

-----------------------------------------------------------------------------
(* NFC calls.  err is what the poller returns for a write of block blk.    *)

Glitch ==
    /\ glitches < MaxGlitches /\ glitches' = glitches + 1
    /\ disturbed' = TRUE
    /\ UNCHANGED <<runs, moves>>

Smooth == UNCHANGED <<bounds, disturbed>>

(* The card on the field takes contents as its block blk.                  *)
Put(contents) ==
    LET sector == {SectorOf(blk)} IN
    /\ card' = [card EXCEPT ![field][blk] = contents]
    /\ torn' = [torn EXCEPT ![field] =
                    CASE ~IsTrailer(blk) -> @
                      [] IsTrailer(blk) /\ contents = Target(blk) -> @ \ sector
                      [] OTHER -> @ \cup sector]
    /\ UNCHANGED foreign

(* A call that fails by itself may have come before the card's write,      *)
(* after it, or in the middle of it.                                       *)
WriteCall(type, err) ==
    LET key == SectorKeys(formatted, SectorOf(blk))[type]
        yes == field # NoCard /\ Accepts(card[field], field \in Clones, blk, type, key)
    IN  \/ Smooth /\ yes /\ err = "None" /\ Put(Target(blk))
        \/ Smooth /\ ~yes /\ err = (IF field = NoCard THEN "NotPresent" ELSE "Auth")
           /\ UNCHANGED cards
        \/ Glitch /\ err \in {"Timeout", "Protocol"} /\ UNCHANGED cards
        \/ /\ Glitch /\ err \in {"Timeout", "Protocol"} /\ yes
           /\ \E contents \in {Target(blk)} \cup Torn(blk, card[field][blk]) : Put(contents)

Finish(r) == pc' = "idle" /\ result' = r

-----------------------------------------------------------------------------
(* mfc_ndef_format_run.                                                    *)

Start ==
    /\ pc = "idle" /\ runs < MaxRuns /\ runs' = runs + 1
    /\ pc' = "detect" /\ blk' = 0 /\ stop' = FALSE /\ failBlock' = 0
    /\ disturbed' = FALSE /\ swapped' = FALSE /\ asked' = Never
    /\ UNCHANGED <<cards, field, formatted, result, moves, glitches, placed>>

(* Mutated form: every type of card is taken.                              *)
DetectAnyType ==
    /\ pc = "detect"
    /\ \/ Smooth /\ field = NoCard /\ Finish("NoCard")
       \/ Smooth /\ field # NoCard /\ pc' = "probe" /\ UNCHANGED result
    /\ UNCHANGED <<cards, field, blk, formatted, stop, failBlock, hand, asked>>

(* mf_classic_poller_sync_detect_type: any error is reported as no card.   *)
Detect ==
    /\ pc = "detect"
    /\ \/ Smooth /\ field = NoCard /\ Finish("NoCard")
       \/ Glitch /\ Finish("NoCard")
       \/ Smooth /\ field \in Cards \ Classic1k /\ Finish("NotClassic1k")
       \/ Smooth /\ field \in Classic1k /\ pc' = "probe" /\ UNCHANGED result
    /\ UNCHANGED <<cards, field, blk, formatted, stop, failBlock, hand, asked>>

(* The MAD key A is tried on sector 0; anything but success, be it a card  *)
(* that has gone or a call that failed, reads as "not formatted yet".      *)
Probe ==
    /\ pc = "probe"
    /\ \/ /\ Smooth
          /\ formatted' = (field # NoCard /\ AuthenticatesA(card[field], 0, SectorKeys(TRUE, 0).A))
       \/ Glitch /\ formatted' = FALSE
    /\ pc' = "block" /\ blk' = 0
    /\ UNCHANGED <<cards, field, stop, result, failBlock, hand, asked>>

(* Mutated form: the cancel flag is looked at before the first block only. *)
NextBlockCancelOnce ==
    /\ pc = "block"
    /\ \/ blk = 4 * Sectors /\ Finish("Ok") /\ UNCHANGED blk
       \/ blk = 0 /\ stop /\ Finish("Canceled") /\ UNCHANGED blk
       \/ 0 < blk /\ blk < 4 * Sectors /\ pc' = "keyB" /\ UNCHANGED <<blk, result>>
       \/ blk = 0 /\ ~stop /\ blk' = 1 /\ UNCHANGED <<pc, result>>
    /\ UNCHANGED <<cards, field, formatted, stop, failBlock, bounds, hand, disturbed, asked>>

(* The head of the loop: the cancel flag is read once per block, and not   *)
(* again after the last one.                                               *)
NextBlock ==
    /\ pc = "block"
    /\ \/ blk = 4 * Sectors /\ Finish("Ok") /\ UNCHANGED blk
       \/ blk < 4 * Sectors /\ stop /\ Finish("Canceled") /\ UNCHANGED blk
       \/ blk < 4 * Sectors /\ ~stop /\ ShouldWrite(blk) /\ pc' = "keyB"
          /\ UNCHANGED <<blk, result>>
       \/ blk < 4 * Sectors /\ ~stop /\ ~ShouldWrite(blk) /\ blk' = blk + 1
          /\ UNCHANGED <<pc, result>>
    /\ UNCHANGED <<cards, field, formatted, stop, failBlock, bounds, hand, disturbed, asked>>

(* Key B first; on any error, key A.                                       *)
WriteKeyB ==
    /\ pc = "keyB"
    /\ \E err \in {"None", "NotPresent", "Auth", "Timeout", "Protocol"} :
           /\ WriteCall("B", err)
           /\ IF err = "None" THEN pc' = "block" /\ blk' = blk + 1
                              ELSE pc' = "keyA" /\ UNCHANGED blk
    /\ UNCHANGED <<field, formatted, stop, result, failBlock, hand, asked>>

(* Mutated form: the result of the second attempt is not looked at.        *)
WriteKeyAIgnored ==
    /\ pc = "keyA"
    /\ \E err \in {"None", "NotPresent", "Auth", "Timeout", "Protocol"} : WriteCall("A", err)
    /\ pc' = "block" /\ blk' = blk + 1
    /\ UNCHANGED <<field, formatted, stop, result, failBlock, hand, asked>>

(* Mutated form: the failed block is counted from one.                     *)
WriteKeyAFromOne ==
    /\ pc = "keyA"
    /\ \E err \in {"None", "NotPresent", "Auth"} :
           /\ WriteCall("A", err)
           /\ IF err = "None"
              THEN pc' = "block" /\ blk' = blk + 1 /\ UNCHANGED <<result, failBlock>>
              ELSE Finish("WriteFailed") /\ failBlock' = blk + 1 /\ UNCHANGED blk
    /\ UNCHANGED <<field, formatted, stop, hand, asked>>

WriteKeyA ==
    /\ pc = "keyA"
    /\ \E err \in {"None", "NotPresent", "Auth", "Timeout", "Protocol"} :
           /\ WriteCall("A", err)
           /\ IF err = "None"
              THEN pc' = "block" /\ blk' = blk + 1 /\ UNCHANGED <<result, failBlock>>
              ELSE /\ Finish(IF err \in {"NotPresent", "Timeout"} THEN "NoCard" ELSE "WriteFailed")
                   /\ failBlock' = blk /\ UNCHANGED blk
    /\ UNCHANGED <<field, formatted, stop, hand, asked>>

(* The GUI thread sets the flag at any time during a run.                  *)
RequestStop ==
    /\ pc # "idle" /\ ~stop /\ stop' = TRUE /\ asked' = blk
    /\ UNCHANGED <<cards, field, pc, blk, formatted, result, failBlock, bounds, hand, disturbed>>

(* The user's hand.                                                        *)
Remove ==
    /\ field # NoCard /\ moves < MaxMoves /\ moves' = moves + 1
    /\ field' = NoCard /\ disturbed' = TRUE
    /\ UNCHANGED <<cards, pc, run, runs, glitches, hand, asked>>

Place(c) ==
    /\ field = NoCard
    /\ field' = c /\ placed' = c /\ disturbed' = TRUE
    /\ swapped' = (swapped \/ (c # placed /\ pc # "idle"))
    /\ UNCHANGED <<cards, pc, run, bounds, asked>>

Worker == Detect \/ Probe \/ NextBlock \/ WriteKeyB \/ WriteKeyA

Next == Worker \/ Start \/ RequestStop \/ Remove \/ \E c \in Cards : Place(c)

Spec == Init /\ [][Next]_vars

-----------------------------------------------------------------------------
(* Safety.                                                                 *)

Returns(r) == pc # "idle" /\ pc' = "idle" /\ result' = r

(* No run writes the manufacturer block ("leaves block 0 (the              *)
(* manufacturer/UID block) untouched").                                    *)
Block0Untouched == [][\A c \in Cards : card'[c][0] = card[c][0]]_vars

(* A run that reports success has left every block but block 0 with its    *)
(* target content, however often calls failed, were cut short or the card  *)
(* left the field meanwhile ("All blocks written"), unless another card    *)
(* took its place, which the code has no way to see.                       *)
OkMeansFormatted ==
    [][Returns("Ok") /\ ~swapped => \A b \in Block \ {0} : card[placed][b] = Target(b)]_vars

(* No interruption, at whatever block, and no other card put in the place  *)
(* of the first leaves a sector that cannot be written any more: each      *)
(* still accepts all its blocks under the factory keys or under the keys   *)
(* the format gives it.  What a write cut short can cost is the sector     *)
(* whose trailer it was writing, and no other.                             *)
Rewritable(c, s, keysOfFormatted) ==
    \A b \in (4 * s)..(4 * s + 3) : \E type \in {"A", "B"} :
        Accepts(card[c], c \in Clones, b, type, SectorKeys(keysOfFormatted, s)[type])

NeverLocksOut ==
    \A c \in Cards, s \in Sector : s \notin foreign[c] \cup torn[c] => \E k \in BOOLEAN : Rewritable(c, s, k)

(* A run during which the card stayed in place and every call was answered *)
(* reports a failed write only for a sector under keys the app does not    *)
(* know ("Works on blank/factory cards and re-formats already-NDEF cards.  *)
(* Cards with custom/unknown sector keys will stop with Write failed").    *)
WriteFailedMeansForeign ==
    [][Returns("WriteFailed") /\ ~disturbed' => SectorOf(failBlock') \in foreign[placed]]_vars

(* A card that was not recognised as a MIFARE Classic 1K is not written,   *)
(* unless it took the place of one that was.                               *)
OtherCardsUntouched == [][~swapped => \A c \in Cards \ Classic1k : card'[c] = card[c]]_vars

(* A run seen from outside: in order, with one outcome, and after a cancel *)
(* at most the block at hand is finished ("Caller asked to stop between    *)
(* blocks").                                                               *)
Run == INSTANCE FormatRun WITH
    Blocks <- 4 * Sectors, running <- pc # "idle", at <- blk,
    outcome <- IF pc = "idle" THEN result ELSE "none"

ImplementsRun == Run!Spec

-----------------------------------------------------------------------------
(* What makes OkMeansFormatted, OtherCardsUntouched and NeverLocksOut      *)
(* inductive: what has been written of the card that the run has before    *)
(* it, unless another took its place, and that a trailer is the factory's  *)
(* or the format's.                                                        *)

Writing == pc \in {"block", "keyB", "keyA"}

SameCard == field \in {placed, NoCard}

PrefixWritten == Writing /\ ~swapped => \A b \in 1..(blk - 1) : card[placed][b] = Target(b)

RightType == Writing \/ pc = "probe" => swapped \/ placed \in Classic1k

AtABlock == pc \in {"keyB", "keyA"} => blk \in Block \ {0}

KnownTrailers ==
    \A c \in Cards, s \in Sector :
        s \notin foreign[c] \cup torn[c] => card[c][4 * s + 3] \in {FactoryTrailer, Target(4 * s + 3)}

FormatInv == SameCard /\ PrefixWritten /\ RightType /\ AtABlock /\ KnownTrailers

=============================================================================
