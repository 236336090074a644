----------------------- MODULE NdefFormatOutcomeProofs -----------------------
(***************************************************************************)
(* What the outcome of a run says about the card.  A run probes sector 0   *)
(* only and takes every other sector to be of the same kind; on a card     *)
(* whose trailers are all of one kind, a run that nothing disturbs stops   *)
(* at the first sector under unknown keys and nowhere else.                *)
(***************************************************************************)
EXTENDS NdefFormatProofs

(* The trailer of a sector that the app knows the keys of: on a card that  *)
(* was formatted, or on one from the factory.                              *)
Kind(f, s) == IF f THEN Target(4 * s + 3) ELSE FactoryTrailer

(* All such sectors of the card are of one kind.                           *)
Uniform(c) == \E f \in BOOLEAN : \A s \in Sector \ foreign[c] : card[c][4 * s + 3] = Kind(f, s)

(* The first block of a sector that the format writes.                     *)
Entry(s) == IF s = 0 THEN 1 ELSE 4 * s

(* No call of the run has been disturbed so far, and sector 0 told it of   *)
(* what kind the rest of the card is.                                      *)
Recognised ==
    Writing /\ ~disturbed =>
        /\ field = placed /\ ~swapped
        /\ 0 \notin foreign[placed] =>
               \A s \in Sector \ foreign[placed] :
                   SectorOf(blk) <= s => card[placed][4 * s + 3] = Kind(formatted, s)
        /\ pc = "keyA" /\ SectorOf(blk) \notin foreign[placed] => ~formatted

Probing ==
    /\ pc # "idle" /\ ~disturbed => ~swapped
    /\ pc = "probe" /\ ~disturbed => field = placed

ForeignKept == \A c \in Cards : \A s \in foreign[c] : card[c][4 * s + 3] = ForeignTrailer

StopsAtForeign == Writing /\ ~swapped => \A s \in foreign[placed] : blk <= Entry(s)

-----------------------------------------------------------------------------
(* Sectors, their blocks and their trailers.                               *)

LEMMA SectorFacts ==
    /\ 0 \in Sector
    /\ \A s \in Sector : /\ s \in Nat /\ 4 * s + 3 \in Block /\ 4 * s + 3 \in Nat /\ Entry(s) \in Nat
                         /\ SectorOf(4 * s + 3) = s /\ IsTrailer(4 * s + 3)
    /\ \A b \in Block : /\ 4 * SectorOf(b) <= b /\ b <= 4 * SectorOf(b) + 3 /\ b + 1 \in Nat
                        /\ SectorOf(b) <= SectorOf(b + 1)
    /\ \A b \in Nat : \A s \in Nat : SectorOf(b) <= s <=> b <= 4 * s + 3
  BY SectorsOK DEF Sector, Block, SectorOf, IsTrailer, Entry

LEMMA EntryFacts == \A s \in Sector :
    /\ Entry(s) \in Nat /\ Entry(s) >= 1
    /\ \A b \in Block : b <= Entry(s) /\ SectorOf(b) # s => b + 1 <= Entry(s)
  BY SectorsOK DEF Sector, Block, SectorOf, Entry

LEMMA FirstEntry == \A b \in Block \ {0} :
    /\ b <= Entry(SectorOf(b)) => b = Entry(SectorOf(b))
    /\ \A t \in Sector : b <= Entry(t) => SectorOf(b) <= t
  BY SectorsOK DEF Sector, Block, SectorOf, Entry

(* A sector under unknown keys takes no write with any key of the app.     *)
LEMMA ForeignRefuses ==
    ASSUME NEW contents, NEW clone, NEW b, NEW type \in {"A", "B"}, NEW f \in BOOLEAN, NEW s,
           TrailerOf(contents, b) = ForeignTrailer
    PROVE  ~Accepts(contents, clone, b, type, SectorKeys(f, s)[type])
  <1>1. ForeignTrailer.keyA = "other A" /\ ForeignTrailer.keyB = "other B"
    BY DEF ForeignTrailer, Trailer
  <1>2. SectorKeys(f, s)["A"] # "other A" /\ SectorKeys(f, s)["B"] # "other B"
    BY DEF SectorKeys, KeyDefault, KeyMadA, KeyMadB, KeyNdefA
  <1> QED
    BY <1>1, <1>2 DEF Accepts

(* The probe of sector 0 tells the two kinds apart.                        *)
LEMMA ProbeTells ==
    ASSUME NEW contents, NEW f \in BOOLEAN, contents[3] = Kind(f, 0)
    PROVE  AuthenticatesA(contents, 0, SectorKeys(TRUE, 0).A) = f
  <1>1. TrailerOf(contents, 0) = Kind(f, 0)
    BY DEF TrailerOf, SectorOf
  <1>2. Kind(TRUE, 0).keyA = KeyMadA /\ Kind(FALSE, 0).keyA # KeyMadA
    BY DEF Kind, Target, FactoryTrailer, MadTrailer, Trailer, KeyDefault, KeyMadA, IsTrailer
  <1>3. SectorKeys(TRUE, 0).A = KeyMadA
    BY DEF SectorKeys
  <1>4. CASE f = TRUE
    BY <1>1, <1>2, <1>3, <1>4 DEF AuthenticatesA
  <1>5. CASE f = FALSE
    BY <1>1, <1>2, <1>3, <1>5 DEF AuthenticatesA
  <1> QED BY <1>4, <1>5

(* A call that nothing disturbs writes the whole block if the card accepts *)
(* the key, and is refused otherwise.                                      *)
LEMMA SmoothWrite ==
    ASSUME TypeOK, blk \in Block, NEW type, NEW err, WriteCall(type, err), ~disturbed', field \in Cards
    PROVE  LET key == SectorKeys(formatted, SectorOf(blk))[type]
               yes == Accepts(card[field], field \in Clones, blk, type, key)
           IN  \/ yes /\ err = "None" /\ Put(Target(blk))
               \/ ~yes /\ err = "Auth" /\ UNCHANGED cards
  BY FormatConstantsOK DEF WriteCall, Glitch

(* No call changes a sector that is under unknown keys.                    *)
LEMMA WriteNeedsKey ==
    ASSUME TypeOK, ForeignKept, blk \in Block, NEW type \in {"A", "B"}, NEW err, WriteCall(type, err)
    PROVE  /\ foreign' = foreign
           /\ field \in Cards /\ SectorOf(blk) \in foreign[field] => UNCHANGED cards /\ err # "None"
           /\ \A c \in Cards : \A b \in Block : SectorOf(b) \in foreign[c] => card'[c][b] = card[c][b]
  <1>1. foreign' = foreign
    BY DEF WriteCall, Put, cards
  <1>2. ASSUME field \in Cards, SectorOf(blk) \in foreign[field]
        PROVE  UNCHANGED cards /\ err # "None"
    <2>1. TrailerOf(card[field], blk) = ForeignTrailer
      BY <1>2 DEF ForeignKept, TrailerOf
    <2>2. formatted \in BOOLEAN
      BY DEF TypeOK, FlagsOK
    <2>3. ~Accepts(card[field], field \in Clones, blk, type, SectorKeys(formatted, SectorOf(blk))[type])
      BY <2>1, <2>2, ForeignRefuses
    <2> QED
      BY <2>3 DEF WriteCall
  <1>3. ASSUME NEW c \in Cards, NEW b \in Block, SectorOf(b) \in foreign[c]
        PROVE  card'[c][b] = card[c][b]
    <2>1. CASE c = field /\ b = blk
      BY <1>2, <1>3, <2>1 DEF cards
    <2>2. CASE c # field \/ b # blk
      BY <1>3, <2>2, WriteTouches
    <2> QED BY <2>1, <2>2
  <1> QED BY <1>1, <1>2, <1>3

LEMMA WritesAreCalls ==
    AtABlock /\ (WriteKeyB \/ WriteKeyA) =>
        /\ blk \in Block \ {0}
        /\ \E type \in {"A", "B"}, err \in {"None", "NotPresent", "Auth", "Timeout", "Protocol"} :
               /\ WriteCall(type, err)
               /\ IF err = "None" THEN pc' = "block" /\ blk' = blk + 1
                                  ELSE pc' \in {"keyA", "idle"} /\ blk' = blk
        /\ UNCHANGED <<field, formatted, placed, swapped>>
  BY DEF AtABlock, WriteKeyB, WriteKeyA, Finish, hand

-----------------------------------------------------------------------------
(* Sectors under unknown keys.                                             *)

LEMMA InitForeign == Init => ForeignKept /\ StopsAtForeign
  <1> SUFFICES ASSUME Init, NEW c \in Cards, NEW s \in foreign[c]
               PROVE  card[c][4 * s + 3] = ForeignTrailer
    BY DEF Init, ForeignKept, StopsAtForeign, Writing
  <1>1. \E f : card[c] = AsFound(f, foreign[c])
    BY DEF Init
  <1>2. s \in Sector
    BY FormatConstantsOK DEF Init
  <1> QED
    BY <1>1, <1>2, SectorFacts DEF AsFound

LEMMA StepForeign ==
    TypeOK /\ FormatInv /\ ForeignKept /\ StopsAtForeign /\ [Next]_vars => ForeignKept' /\ StopsAtForeign'
  <1> SUFFICES ASSUME TypeOK, FormatInv, ForeignKept, StopsAtForeign, [Next]_vars
               PROVE  ForeignKept' /\ StopsAtForeign'
    OBVIOUS
  <1>0. \A c \in Cards : foreign[c] \subseteq Sector
    BY FormatConstantsOK DEF TypeOK, CardsOK
  <1>1. CASE WriteKeyB \/ WriteKeyA
    <2>1. PICK type \in {"A", "B"}, err \in {"None", "NotPresent", "Auth", "Timeout", "Protocol"} :
              /\ WriteCall(type, err)
              /\ IF err = "None" THEN pc' = "block" /\ blk' = blk + 1
                                 ELSE pc' \in {"keyA", "idle"} /\ blk' = blk
      BY <1>1, WritesAreCalls DEF FormatInv
    <2>2. blk \in Block /\ UNCHANGED <<field, placed, swapped>> /\ Writing
      BY <1>1, WritesAreCalls DEF FormatInv, WriteKeyB, WriteKeyA, Writing
    <2>3. /\ foreign' = foreign
          /\ field \in Cards /\ SectorOf(blk) \in foreign[field] => err # "None"
          /\ \A c \in Cards : \A b \in Block : SectorOf(b) \in foreign[c] => card'[c][b] = card[c][b]
      BY <2>1, <2>2, WriteNeedsKey
    <2>4. ForeignKept'
      BY <1>0, <2>3, SectorFacts DEF ForeignKept
    <2>5. ASSUME ~swapped, NEW s \in foreign[placed], err = "None" PROVE blk + 1 <= Entry(s)
      <3>1. field = placed /\ placed \in Cards
        BY <2>1, <2>2, <2>5, WriteTouches, FormatConstantsOK DEF FormatInv, SameCard, TypeOK
      <3>2. s \in Sector /\ SectorOf(blk) # s /\ blk <= Entry(s)
        BY <1>0, <2>2, <2>3, <2>5, <3>1 DEF StopsAtForeign
      <3> QED
        BY <2>2, <3>2, EntryFacts
    <2>6. StopsAtForeign'
      BY <2>1, <2>2, <2>3, <2>5 DEF StopsAtForeign
    <2> QED BY <2>4, <2>6
  <1>2. CASE UNCHANGED cards /\ ~(WriteKeyB \/ WriteKeyA)
    <2>1. ForeignKept'
      BY <1>2 DEF ForeignKept, cards
    <2>2. ASSUME Writing', ~swapped', NEW s \in foreign[placed'] PROVE blk' <= Entry(s)
      <3>0. Entry(s) \in Nat /\ Entry(s) >= 1
        <4>1. placed' \in Cards
          BY StepType DEF FormatInv, TypeOK
        <4> QED BY <1>0, <4>1, EntryFacts
      <3>1. CASE blk' <= 1
        BY <3>0, <3>1, StepType DEF FormatInv, TypeOK
      <3>2. CASE ~(blk' <= 1)
        <4>1. blk' = blk /\ Writing /\ ~swapped /\ placed' = placed
          <5>1. CASE Start \/ Detect
            BY <2>2, <5>1 DEF Start, Detect, Finish, Writing
          <5>5. ~Probe
            <6>1. Probe => blk' = 0
              BY Zenon DEF Probe
            <6> QED BY <3>2, <6>1
          <5>2. CASE NextBlock
            BY <2>2, <3>2, <5>2 DEF NextBlock, ShouldWrite, Finish, Writing, hand
          <5>3. CASE RequestStop \/ Remove \/ UNCHANGED vars
            BY <2>2, <5>3 DEF RequestStop, Remove, vars, run, hand, Writing
          <5>4. ASSUME NEW c \in Cards, Place(c)
                PROVE  blk' = blk /\ Writing /\ ~swapped /\ placed' = placed
            BY <2>2, <5>4 DEF Place, run, Writing
          <5> QED
            BY <1>2, <5>1, <5>2, <5>3, <5>4, <5>5 DEF Next, Worker
        <4> QED
          BY <2>2, <4>1 DEF StopsAtForeign
      <3> QED BY <3>1, <3>2
    <2>3. StopsAtForeign'
      BY <1>2, <2>2 DEF StopsAtForeign, cards
    <2> QED BY <2>1, <2>3
  <1> QED
    BY <1>1, <1>2
    DEF Next, Worker, Start, Detect, Probe, NextBlock, RequestStop, Remove, Place, vars

LEMMA ForeignInductive == Spec => [](TypeOK /\ FormatInv /\ ForeignKept /\ StopsAtForeign)
  BY InitForeign, StepForeign, FormatInductive, PTL DEF Spec

(* No run changes any block of a sector that is under keys the app does    *)
(* not know, whatever the run is disturbed by.                             *)
THEOREM ForeignUntouched ==
    Spec => [][\A c \in Cards : \A b \in Block : SectorOf(b) \in foreign[c] => card'[c][b] = card[c][b]]_vars
  <1>1. TypeOK /\ FormatInv /\ ForeignKept /\ [Next]_vars =>
            [\A c \in Cards : \A b \in Block : SectorOf(b) \in foreign[c] => card'[c][b] = card[c][b]]_vars
    <2> SUFFICES ASSUME TypeOK, FormatInv, ForeignKept, Next,
                        NEW c \in Cards, NEW b \in Block, SectorOf(b) \in foreign[c]
                 PROVE  card'[c][b] = card[c][b]
      OBVIOUS
    <2>1. CASE WriteKeyB \/ WriteKeyA
      BY <2>1, WritesAreCalls, WriteNeedsKey DEF FormatInv
    <2>2. CASE card' = card
      BY <2>2
    <2> QED
      BY <2>1, <2>2
      DEF Next, Worker, Start, Detect, Probe, NextBlock, RequestStop, Remove, Place, cards
  <1> QED BY <1>1, ForeignInductive, PTL DEF Spec

(* A run that reports success was made on a card of which the app knows    *)
(* the keys of every sector.                                               *)
THEOREM OkMeansNoForeign == Spec => [][Returns("Ok") /\ ~swapped => foreign[placed] = {}]_vars
  <1>1. TypeOK /\ FormatInv /\ StopsAtForeign /\ [Next]_vars =>
            [Returns("Ok") /\ ~swapped => foreign[placed] = {}]_vars
    <2> SUFFICES ASSUME TypeOK, FormatInv, StopsAtForeign, Next, Returns("Ok"), ~swapped,
                        NEW s \in foreign[placed]
                 PROVE  FALSE
      OBVIOUS
    <2>1. pc = "block" /\ blk = 4 * Sectors
      BY DEF Returns, Next, Worker, Start, Detect, Probe, NextBlock, WriteKeyB, WriteKeyA, RequestStop,
             Remove, Place, Finish, run
    <2>2. s \in Sector /\ blk <= Entry(s)
      BY <2>1, FormatConstantsOK DEF StopsAtForeign, Writing, TypeOK, CardsOK
    <2> QED
      BY <2>1, <2>2, SectorsOK DEF Entry, Sector
  <1> QED BY <1>1, ForeignInductive, PTL DEF Spec

-----------------------------------------------------------------------------
(* What the probe concludes stays true of the sectors still to be written. *)

(* A run is made on a uniform card: what the run probes is of one kind.    *)
UniformAtProbe == pc = "probe" /\ ~disturbed => Uniform(placed)

LEMMA StepProbed ==
    TypeOK /\ ForeignKept /\ Probing /\ UniformAtProbe /\ Probe /\ ~disturbed' => Recognised'
  <1> SUFFICES ASSUME TypeOK, ForeignKept, Probing, UniformAtProbe, Probe, ~disturbed'
               PROVE  Recognised'
    OBVIOUS
  <1>0. Smooth /\ ~Glitch
    BY Zenon DEF Probe, Glitch
  <1>1. ~disturbed /\ pc = "probe" /\ pc' = "block"
    <2>1. disturbed' = disturbed
      BY <1>0, Zenon DEF Smooth
    <2>2. pc = "probe" /\ pc' = "block"
      BY Zenon DEF Probe
    <2> QED BY <2>1, <2>2, Zenon
  <1>2. UNCHANGED <<card, foreign, field, placed, swapped>>
    BY Zenon DEF Probe, cards, hand
  <1>3. field = placed /\ placed \in Cards /\ ~swapped
    BY <1>1 DEF Probing, TypeOK
  <1>4. formatted' = AuthenticatesA(card[placed], 0, SectorKeys(TRUE, 0).A)
    <2>1. formatted' = (field # NoCard /\ AuthenticatesA(card[field], 0, SectorKeys(TRUE, 0).A))
      BY <1>0, Zenon DEF Probe
    <2>2. field # NoCard
      BY <1>3, FormatConstantsOK
    <2>3. AuthenticatesA(card[field], 0, SectorKeys(TRUE, 0).A) \in BOOLEAN
      BY DEF AuthenticatesA
    <2> QED BY <1>3, <2>1, <2>2, <2>3, Zenon
  <1>5. PICK f \in BOOLEAN : \A s \in Sector \ foreign[placed] : card[placed][4 * s + 3] = Kind(f, s)
    BY <1>1 DEF UniformAtProbe, Uniform
  <1>6. ASSUME 0 \notin foreign[placed] PROVE formatted' = f
    <2>1. card[placed][3] = Kind(f, 0)
      <3>1. 4 * 0 + 3 = 3
        OBVIOUS
      <3>2. card[placed][4 * 0 + 3] = Kind(f, 0)
        BY <1>5, <1>6, SectorFacts
      <3> QED BY <3>1, <3>2
    <2> QED BY <1>4, <2>1, ProbeTells
  <1> QED
    BY <1>1, <1>2, <1>3, <1>5, <1>6 DEF Recognised

(* A block written leaves the trailers of the sectors still to come.       *)
LEMMA StepPassed ==
    ASSUME TypeOK, AtABlock, ForeignKept, Recognised, WriteKeyB \/ WriteKeyA, pc' = "block", ~disturbed'
    PROVE  Recognised'
  <1>1. PICK type \in {"A", "B"}, err \in {"None", "NotPresent", "Auth", "Timeout", "Protocol"} :
            WriteCall(type, err) /\ blk' = blk + 1
    BY WritesAreCalls
  <1>2. /\ blk \in Block /\ UNCHANGED <<field, formatted, placed, swapped>> /\ Writing
        /\ foreign' = foreign /\ placed \in Cards
        /\ \A c \in Cards, b \in Block : b # blk => card'[c][b] = card[c][b]
    BY <1>1, WritesAreCalls, WriteNeedsKey, WriteTouches DEF WriteKeyB, WriteKeyA, Writing, TypeOK
  <1>3. ~disturbed
    <2>1. Smooth
      BY <1>1, Zenon DEF WriteCall, Glitch
    <2> QED BY <2>1, Zenon DEF Smooth
  <1>4. ASSUME 0 \notin foreign[placed], NEW s \in Sector \ foreign[placed], SectorOf(blk + 1) <= s
        PROVE  card'[placed][4 * s + 3] = Kind(formatted, s)
    <2>1. SectorOf(blk) <= s /\ 4 * s + 3 \in Block /\ 4 * s + 3 # blk
      <3>1. s \in Nat /\ blk \in Nat /\ blk + 1 \in Nat /\ 4 * s + 3 \in Block
        BY <1>2, SectorFacts, LayoutFacts
      <3>2. blk + 1 <= 4 * s + 3
        BY <1>4, <3>1, SectorFacts
      <3>3. SectorOf(blk) <= s
        BY <3>1, <3>2, SectorFacts
      <3> QED BY <3>1, <3>2, <3>3
    <2> QED
      BY <1>2, <1>3, <1>4, <2>1 DEF Recognised
  <1> QED
    BY <1>1, <1>2, <1>3, <1>4 DEF Recognised

(* Key B was refused by a sector that the app knows the keys of, so it is  *)
(* a factory sector, which key A opens.                                    *)
LEMMA StepRefused ==
    ASSUME TypeOK, AtABlock, StopsAtForeign, Recognised, WriteKeyB, pc' = "keyA", ~disturbed'
    PROVE  Recognised'
  <1>1. PICK err \in {"None", "NotPresent", "Auth", "Timeout", "Protocol"} :
            WriteCall("B", err) /\ err # "None" /\ blk' = blk
    BY DEF WriteKeyB
  <1>2. /\ blk \in Block \ {0} /\ blk \in Nat
        /\ UNCHANGED <<field, formatted, placed, swapped>> /\ Writing /\ placed \in Cards
    BY WritesAreCalls, LayoutFacts DEF WriteKeyB, Writing, TypeOK
  <1>3. ~disturbed
    <2>1. Smooth
      BY <1>1, Zenon DEF WriteCall, Glitch
    <2> QED BY <2>1, Zenon DEF Smooth
  <1>4. field = placed /\ ~swapped
    BY <1>2, <1>3 DEF Recognised
  <1>5. /\ UNCHANGED cards
        /\ ~Accepts(card[placed], placed \in Clones, blk, "B", SectorKeys(formatted, SectorOf(blk))["B"])
    BY <1>1, <1>2, <1>4, SmoothWrite
  <1>6. ASSUME SectorOf(blk) \notin foreign[placed], formatted PROVE FALSE
    <2>1. 0 \notin foreign[placed]
      <3>1. SUFFICES ASSUME 0 \in foreign[placed] PROVE FALSE
        OBVIOUS
      <3>2. blk = 1
        BY <1>2, <1>4, <3>1 DEF StopsAtForeign, Entry
      <3> QED
        BY <1>6, <3>1, <3>2 DEF SectorOf
    <2>2. card[placed][4 * SectorOf(blk) + 3] = Kind(formatted, SectorOf(blk))
      <3>1. SectorOf(blk) \in Sector \ foreign[placed] /\ SectorOf(blk) <= SectorOf(blk)
        BY <1>2, <1>6, LayoutFacts, SectorFacts
      <3> QED
        BY <1>2, <1>3, <2>1, <3>1 DEF Recognised
    <2>3. formatted = TRUE
      BY <1>6 DEF TypeOK, FlagsOK
    <2> QED
      BY <1>2, <1>5, <2>2, <2>3, FormatOpens DEF TrailerOf, Kind
  <1> QED
    BY <1>1, <1>2, <1>3, <1>4, <1>5, <1>6 DEF Recognised, cards

LEMMA StepOutcome ==
    TypeOK /\ FormatInv /\ ForeignKept /\ StopsAtForeign /\ Probing /\ Recognised /\ UniformAtProbe
        /\ [Next]_vars => Probing' /\ Recognised'
  <1> SUFFICES ASSUME TypeOK, FormatInv, ForeignKept, StopsAtForeign, Probing, Recognised, UniformAtProbe,
                      [Next]_vars
               PROVE  Probing' /\ Recognised'
    OBVIOUS
  <1>1. CASE Start
    BY <1>1 DEF Start, Probing, Recognised, Writing
  <1>2. CASE Detect
    <2>1. CASE pc' = "probe"
      <3>1. field \in Classic1k /\ disturbed' = disturbed /\ UNCHANGED <<field, placed, swapped>> /\ pc # "idle"
        BY <1>2, <2>1 DEF Detect, Finish, Smooth, hand
      <3>2. field = placed
        BY <3>1, FormatConstantsOK DEF FormatInv, SameCard
      <3> QED
        BY <2>1, <3>1, <3>2 DEF Probing, Recognised, Writing
    <2>2. CASE pc' = "idle"
      BY <2>2 DEF Probing, Recognised, Writing
    <2> QED BY <1>2, <2>1, <2>2 DEF Detect, Finish
  <1>3. CASE Probe
    <2>1. Recognised'
      <3>1. CASE ~disturbed'
        BY <1>3, <3>1, StepProbed
      <3>2. CASE disturbed'
        BY <3>2 DEF Recognised
      <3> QED BY <3>1, <3>2, Zenon
    <2>2. pc' = "block"
      BY <1>3, Zenon DEF Probe
    <2>3. Probing'
      BY <2>1, <2>2 DEF Probing, Recognised, Writing
    <2> QED BY <2>1, <2>3
  <1>4. CASE NextBlock
    <2>1. UNCHANGED <<card, foreign, field, formatted, placed, swapped, disturbed>> /\ pc = "block"
      BY <1>4 DEF NextBlock, cards, hand
    <2>2. \/ pc' = "idle"
          \/ pc' \in {"block", "keyB"} /\ blk' = blk
          \/ pc' = "block" /\ blk' = blk + 1 /\ blk = 0
      BY <1>4 DEF NextBlock, Finish, ShouldWrite
    <2>3. blk = 0 => SectorOf(blk) = SectorOf(blk + 1)
      BY DEF SectorOf
    <2> QED
      BY <2>1, <2>2, <2>3 DEF Probing, Recognised, Writing
  <1>5. CASE WriteKeyB \/ WriteKeyA
    <2>1. UNCHANGED <<placed, swapped>> /\ pc' \in {"block", "keyA", "idle"} /\ pc # "idle"
          /\ (pc' = "keyA" => WriteKeyB)
      BY <1>5 DEF WriteKeyB, WriteKeyA, Finish, hand
    <2>2. disturbed' = disturbed \/ disturbed'
      <3>1. \E type, err : WriteCall(type, err)
        BY <1>5 DEF WriteKeyB, WriteKeyA
      <3> QED
        BY <3>1, Zenon DEF WriteCall, Smooth, Glitch
    <2>3. Probing'
      BY <2>1, <2>2 DEF Probing
    <2>4. Recognised'
      <3>1. CASE pc' = "idle" \/ disturbed'
        BY <3>1 DEF Recognised, Writing
      <3>2. CASE pc' = "block" /\ ~disturbed'
        BY <1>5, <3>2, StepPassed DEF FormatInv
      <3>3. CASE pc' = "keyA" /\ ~disturbed'
        BY <2>1, <3>3, StepRefused DEF FormatInv
      <3> QED BY <2>1, <3>1, <3>2, <3>3
    <2> QED BY <2>3, <2>4
  <1>6. CASE RequestStop
    BY <1>6 DEF RequestStop, Probing, Recognised, Writing, cards, hand
  <1>7. CASE Remove
    BY <1>7 DEF Remove, Probing, Recognised
  <1>8. ASSUME NEW c \in Cards, Place(c) PROVE Probing' /\ Recognised'
    BY <1>8 DEF Place, Probing, Recognised
  <1>9. CASE UNCHANGED vars
    BY <1>9 DEF vars, run, cards, hand, Probing, Recognised, Writing
  <1> QED
    BY <1>1, <1>2, <1>3, <1>4, <1>5, <1>6, <1>7, <1>8, <1>9 DEF Next, Worker

LEMMA OutcomeInductive == Spec /\ []UniformAtProbe => [](Probing /\ Recognised)
  <1>1. Init => Probing /\ Recognised
    BY DEF Init, Probing, Recognised, Writing
  <1> QED BY <1>1, StepOutcome, ForeignInductive, PTL DEF Spec

-----------------------------------------------------------------------------
(* How an undisturbed run ends.                                            *)

Ends == pc # "idle" /\ pc' = "idle"

(* The first sector under unknown keys, in the order of the run.           *)
FirstForeign(s) == s \in foreign[placed] /\ \A t \in foreign[placed] : s <= t

(* What a run returns if nobody cancels it and nothing disturbs it.        *)
HonestEnd ==
    \/ result' = "Ok" /\ foreign[placed] = {}
    \/ result' = "WriteFailed" /\ \E s \in Sector : FirstForeign(s) /\ failBlock' = Entry(s)

(* Both keys are refused by a sector under unknown keys only.              *)
LEMMA FailsAtForeign ==
    ASSUME TypeOK, FormatInv, StopsAtForeign, Recognised, WriteKeyA, pc' = "idle", ~disturbed'
    PROVE  result' = "WriteFailed" /\ failBlock' = blk /\ SectorOf(blk) \in foreign[placed]
  <1>1. PICK err \in {"None", "NotPresent", "Auth", "Timeout", "Protocol"} :
            /\ WriteCall("A", err) /\ err # "None" /\ failBlock' = blk
            /\ result' = IF err \in {"NotPresent", "Timeout"} THEN "NoCard" ELSE "WriteFailed"
    BY DEF WriteKeyA, Finish
  <1>2. blk \in Block \ {0} /\ blk \in Nat /\ Writing /\ placed \in Cards /\ pc = "keyA"
    BY WritesAreCalls, LayoutFacts DEF FormatInv, WriteKeyA, Writing, TypeOK
  <1>3. ~disturbed
    <2>1. Smooth
      BY <1>1, Zenon DEF WriteCall, Glitch
    <2> QED BY <2>1, Zenon DEF Smooth
  <1>4. field = placed /\ ~swapped
    BY <1>2, <1>3 DEF Recognised
  <1>5. /\ err = "Auth"
        /\ ~Accepts(card[placed], placed \in Clones, blk, "A", SectorKeys(formatted, SectorOf(blk))["A"])
    BY <1>1, <1>2, <1>4, SmoothWrite
  <1>6. ASSUME SectorOf(blk) \notin foreign[placed] PROVE FALSE
    <2>1. 0 \notin foreign[placed]
      <3>1. SUFFICES ASSUME 0 \in foreign[placed] PROVE FALSE
        OBVIOUS
      <3>2. blk = 1
        BY <1>2, <1>4, <3>1 DEF StopsAtForeign, Entry
      <3> QED
        BY <1>6, <3>1, <3>2 DEF SectorOf
    <2>2. formatted = FALSE
      BY <1>2, <1>3, <1>6 DEF Recognised, TypeOK, FlagsOK
    <2>3. card[placed][4 * SectorOf(blk) + 3] = Kind(formatted, SectorOf(blk))
      <3>1. SectorOf(blk) \in Sector \ foreign[placed] /\ SectorOf(blk) <= SectorOf(blk)
        BY <1>2, <1>6, LayoutFacts, SectorFacts
      <3> QED
        BY <1>2, <1>3, <2>1, <3>1 DEF Recognised
    <2> QED
      BY <1>2, <1>5, <2>2, <2>3, FactoryOpens DEF TrailerOf, Kind
  <1> QED BY <1>1, <1>5, <1>6

LEMMA StepEnds ==
    ASSUME TypeOK, FormatInv, StopsAtForeign, Recognised, Probing, Next, Ends, ~disturbed'
    PROVE  /\ result' = "WriteFailed" => SectorOf(failBlock') \in foreign[placed]
           /\ field \in Classic1k /\ ~stop => HonestEnd
  <1>1. Detect \/ NextBlock \/ WriteKeyA
    BY DEF Ends, Next, Worker, Start, Probe, WriteKeyB, RequestStop, Remove, Place, run
  <1>2. CASE Detect
    <2>1. field \notin Classic1k /\ result' # "WriteFailed"
      BY <1>2, FormatConstantsOK DEF Detect, Finish, Ends, Glitch
    <2> QED BY <2>1
  <1>3. CASE NextBlock
    <2>1. \/ result' = "Canceled" /\ stop
          \/ result' = "Ok" /\ blk = 4 * Sectors /\ Writing /\ disturbed' = disturbed /\ pc = "block"
      BY <1>3 DEF NextBlock, Ends, Finish, Writing
    <2>2. ASSUME result' = "Ok", NEW s \in foreign[placed] PROVE FALSE
      <3>1. blk <= Entry(s) /\ s \in Sector
        BY <2>1, <2>2, FormatConstantsOK DEF StopsAtForeign, Probing, TypeOK, CardsOK
      <3> QED
        BY <2>1, <2>2, <3>1, SectorsOK DEF Entry, Sector
    <2> QED
      BY <2>1, <2>2 DEF HonestEnd
  <1>4. CASE WriteKeyA
    <2>1. result' = "WriteFailed" /\ failBlock' = blk /\ SectorOf(blk) \in foreign[placed]
      BY <1>4, FailsAtForeign DEF Ends
    <2>2. blk \in Block \ {0} /\ foreign[placed] \subseteq Sector /\ Writing /\ ~swapped
      <3>1. blk \in Block \ {0} /\ Writing
        BY <1>4 DEF WriteKeyA, FormatInv, AtABlock, Writing
      <3>2. ~disturbed
        <4>1. Smooth
          BY <1>4, Zenon DEF WriteKeyA, WriteCall, Glitch
        <4> QED BY <4>1, Zenon DEF Smooth
      <3> QED
        BY <3>1, <3>2, FormatConstantsOK DEF TypeOK, CardsOK, Recognised
    <2>3. blk = Entry(SectorOf(blk)) /\ \A t \in foreign[placed] : SectorOf(blk) <= t
      <3>1. \A t \in foreign[placed] : t \in Sector /\ blk <= Entry(t)
        BY <2>2 DEF StopsAtForeign
      <3>2. blk <= Entry(SectorOf(blk))
        BY <2>1, <3>1
      <3> QED
        BY <2>2, <3>1, <3>2, FirstEntry
    <2> QED
      BY <2>1, <2>2, <2>3 DEF HonestEnd, FirstForeign
  <1> QED BY <1>1, <1>2, <1>3, <1>4

(* On uniform cards, whatever number of runs are started, a run that       *)
(* nothing disturbs fails only at a sector under unknown keys.             *)
THEOREM UniformFailsForeign == Spec /\ []UniformAtProbe => WriteFailedMeansForeign
  <1>1. TypeOK /\ FormatInv /\ StopsAtForeign /\ Recognised /\ Probing /\ [Next]_vars =>
            [Returns("WriteFailed") /\ ~disturbed' => SectorOf(failBlock') \in foreign[placed]]_vars
    BY StepEnds DEF Returns, Ends
  <1> QED
    BY <1>1, ForeignInductive, OutcomeInductive, PTL DEF Spec, WriteFailedMeansForeign

(* There the outcome is exact: a run on a Classic 1K that nobody cancels   *)
(* and nothing disturbs succeeds if the app knows the keys of every        *)
(* sector, and otherwise fails at the first block of the first sector      *)
(* whose keys it does not know.                                            *)
THEOREM UniformOutcome ==
    Spec /\ []UniformAtProbe => [][Ends /\ ~disturbed' /\ field \in Classic1k /\ ~stop => HonestEnd]_vars
  <1>1. TypeOK /\ FormatInv /\ StopsAtForeign /\ Recognised /\ Probing /\ [Next]_vars =>
            [Ends /\ ~disturbed' /\ field \in Classic1k /\ ~stop => HonestEnd]_vars
    <2> SUFFICES ASSUME TypeOK, FormatInv, StopsAtForeign, Recognised, Probing, Next, Ends, ~disturbed'
                 PROVE  field \in Classic1k /\ ~stop => HonestEnd
      OBVIOUS
    <2> QED BY StepEnds
  <1> QED
    BY <1>1, ForeignInductive, OutcomeInductive, PTL DEF Spec

(* A card is uniform after every run that succeeds, so that the next run   *)
(* on it is again exact: a format can be repeated.                         *)
THEOREM OkLeavesUniform == Spec => [][Returns("Ok") /\ ~swapped => Uniform(placed)']_vars
  <1>1. TypeOK /\ FormatInv /\ [Next]_vars => [Returns("Ok") /\ ~swapped => Uniform(placed)']_vars
    <2> SUFFICES ASSUME TypeOK, FormatInv, Next, Returns("Ok"), ~swapped
                 PROVE  Uniform(placed)'
      OBVIOUS
    <2>1. NextBlock /\ blk = 4 * Sectors
      BY DEF Returns, Next, Worker, Start, Detect, Probe, NextBlock, WriteKeyB, WriteKeyA, RequestStop,
             Remove, Place, Finish, run
    <2>2. UNCHANGED <<card, foreign, placed>> /\ Writing
      BY <2>1 DEF NextBlock, cards, hand, Writing
    <2>3. \A s \in Sector : card[placed][4 * s + 3] = Kind(TRUE, s)
      <3>1. \A s \in Sector : 4 * s + 3 \in 1..(blk - 1)
        BY <2>1, SectorsOK DEF Sector
      <3> QED
        BY <2>2, <3>1 DEF FormatInv, PrefixWritten, Kind
    <2> QED BY <2>2, <2>3 DEF Uniform
  <1> QED BY <1>1, FormatInductive, PTL DEF Spec

-----------------------------------------------------------------------------
(* The first run finds every card as it came, and cards come uniform.      *)

AsCame == runs = 0 \/ (runs = 1 /\ pc \in {"detect", "probe"})

Fresh == (runs = 0 => pc = "idle") /\ (AsCame => \A c \in Cards : Uniform(c))

LEMMA InitFresh == Init => Fresh
  <1> SUFFICES ASSUME Init, NEW c \in Cards PROVE Uniform(c)
    BY DEF Init, Fresh
  <1>1. PICK f \in BOOLEAN : card[c] = AsFound(f, foreign[c])
    BY DEF Init
  <1>2. \A s \in Sector \ foreign[c] : card[c][4 * s + 3] = Kind(f, s)
    BY <1>1, SectorFacts DEF AsFound, Kind
  <1> QED BY <1>2 DEF Uniform

LEMMA StepFresh == TypeOK /\ Fresh /\ [Next]_vars => Fresh'
  <1> SUFFICES ASSUME TypeOK, Fresh, [Next]_vars PROVE Fresh'
    OBVIOUS
  <1>0. runs \in Nat
    BY FormatConstantsOK DEF TypeOK
  <1>1. CASE WriteKeyB \/ WriteKeyA
    <2>1. runs' = runs /\ pc \in {"keyB", "keyA"} /\ pc' \notin {"detect", "probe"}
      BY <1>1 DEF WriteKeyB, WriteKeyA, WriteCall, Smooth, Glitch, bounds, Finish
    <2> QED
      BY <1>0, <2>1 DEF Fresh, AsCame
  <1>2. CASE UNCHANGED cards /\ ~(WriteKeyB \/ WriteKeyA)
    <2>1. \A c \in Cards : Uniform(c)' = Uniform(c)
      BY <1>2 DEF Uniform, cards
    <2>2. (runs' = 0 => pc' = "idle") /\ (AsCame' => AsCame)
      <3>1. CASE Start
        BY <1>0, <3>1 DEF Start, AsCame
      <3>2. CASE Detect
        BY <1>0, <3>2 DEF Detect, Finish, Smooth, Glitch, bounds, AsCame, Fresh
      <3>3. CASE Probe
        <4>1. pc' = "block" /\ runs' = runs /\ pc # "idle"
          BY <3>3, Zenon DEF Probe, Smooth, Glitch, bounds
        <4> QED BY <1>0, <4>1 DEF AsCame, Fresh
      <3>4. CASE NextBlock
        BY <1>0, <3>4 DEF NextBlock, Finish, bounds, AsCame, Fresh
      <3>5. CASE RequestStop \/ Remove \/ UNCHANGED vars
        BY <3>5 DEF RequestStop, Remove, vars, bounds, AsCame, Fresh
      <3>6. ASSUME NEW c \in Cards, Place(c) PROVE (runs' = 0 => pc' = "idle") /\ (AsCame' => AsCame)
        BY <3>6 DEF Place, bounds, AsCame, Fresh
      <3> QED
        BY <1>2, <3>1, <3>2, <3>3, <3>4, <3>5, <3>6 DEF Next, Worker
    <2> QED BY <2>1, <2>2 DEF Fresh
  <1> QED
    BY <1>1, <1>2
    DEF Next, Worker, Start, Detect, Probe, NextBlock, RequestStop, Remove, Place, vars

FirstRun == runs <= 1

LEMMA FirstRunInductive == Spec => [](FirstRun => Probing /\ Recognised)
  <1>1. Init => (FirstRun => Probing /\ Recognised)
    BY DEF Init, Probing, Recognised, Writing
  <1>2. Spec => []Fresh
    BY InitFresh, StepFresh, FormatTypeCorrect, PTL DEF Spec
  <1>3. TypeOK /\ FormatInv /\ ForeignKept /\ StopsAtForeign /\ Fresh /\ [Next]_vars
            /\ (FirstRun => Probing /\ Recognised) => (FirstRun => Probing /\ Recognised)'
    <2> SUFFICES ASSUME TypeOK, FormatInv, ForeignKept, StopsAtForeign, Fresh, [Next]_vars,
                        FirstRun => Probing /\ Recognised, FirstRun'
                 PROVE  (Probing /\ Recognised)'
      OBVIOUS
    <2>1. runs \in Nat /\ runs' \in {runs, runs + 1}
      <3>1. runs \in Nat
        BY FormatConstantsOK DEF TypeOK
      <3>2. runs' \in {runs, runs + 1}
        BY DEF Next, Worker, Start, Detect, Probe, NextBlock, WriteKeyB, WriteKeyA, WriteCall, Smooth, Glitch,
               RequestStop, Remove, Place, vars, bounds
      <3> QED BY <3>1, <3>2
    <2>2. FirstRun
      BY <2>1 DEF FirstRun
    <2>3. UniformAtProbe
      BY <2>1, <2>2 DEF UniformAtProbe, FirstRun, Fresh, AsCame, TypeOK
    <2> QED BY <2>2, <2>3, StepOutcome
  <1> QED BY <1>1, <1>2, <1>3, ForeignInductive, PTL DEF Spec

(* The first run that the user starts, on any card as it came, needs no    *)
(* assumption: if nothing disturbs it, it fails only at a sector under     *)
(* unknown keys, and how it ends is exact.                                 *)
THEOREM FirstRunOutcome ==
    Spec => [][FirstRun /\ Ends /\ ~disturbed' =>
                   /\ result' = "WriteFailed" => SectorOf(failBlock') \in foreign[placed]
                   /\ field \in Classic1k /\ ~stop => HonestEnd]_vars
  <1>1. TypeOK /\ FormatInv /\ StopsAtForeign /\ (FirstRun => Probing /\ Recognised) /\ [Next]_vars =>
            [FirstRun /\ Ends /\ ~disturbed' =>
                 /\ result' = "WriteFailed" => SectorOf(failBlock') \in foreign[placed]
                 /\ field \in Classic1k /\ ~stop => HonestEnd]_vars
    <2> SUFFICES ASSUME TypeOK, FormatInv, StopsAtForeign, Probing, Recognised, Next, Ends, ~disturbed'
                 PROVE  /\ result' = "WriteFailed" => SectorOf(failBlock') \in foreign[placed]
                        /\ field \in Classic1k /\ ~stop => HonestEnd
      OBVIOUS
    <2> QED BY StepEnds
  <1> QED BY <1>1, ForeignInductive, FirstRunInductive, PTL DEF Spec

(* With one run, as the property is checked, that is the property itself.  *)
THEOREM OneRunFailsForeign ==
    ASSUME MaxRuns <= 1 PROVE Spec => WriteFailedMeansForeign
  <1>1. TypeOK => FirstRun
    BY FormatConstantsOK DEF TypeOK, FirstRun
  <1>2. TypeOK /\ FormatInv /\ StopsAtForeign /\ Recognised /\ Probing /\ [Next]_vars =>
            [Returns("WriteFailed") /\ ~disturbed' => SectorOf(failBlock') \in foreign[placed]]_vars
    BY StepEnds DEF Returns, Ends
  <1> QED
    BY <1>1, <1>2, ForeignInductive, FirstRunInductive, PTL DEF Spec, WriteFailedMeansForeign

=============================================================================
