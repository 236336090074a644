-------------------------- MODULE NdefFormatProofs --------------------------
(***************************************************************************)
(* Proofs about NdefFormat for any number of sectors, any cards, and any   *)
(* number of runs, moves and failing calls.                                *)
(***************************************************************************)
EXTENDS NdefFormat, TLAPS

(* The geometry of the card, and the fact that every block the format      *)
(* writes holds contents a card can hold.                                  *)
LEMMA TargetFacts == \A b \in Nat :
    /\ Target(b) \in Contents
    /\ IsTrailer(b) => Target(b) \in Trailers
  <1>1. MadTrailer \in Trailers /\ NdefTrailer \in Trailers
    BY DEF Trailers, Access, Keys, Trailer, MadTrailer, NdefTrailer
  <1>2. \A d \in {"found", "MAD 1", "MAD 2", "empty NDEF", "zero", "torn"} : Data(d) \in Contents
    BY DEF Data, Contents
  <1>3. ASSUME NEW b \in Nat, IsTrailer(b)
        PROVE  Target(b) \in {MadTrailer, NdefTrailer}
    <2>1. CASE b = 3
      BY <2>1 DEF Target
    <2>2. CASE b # 3
      <3>1. b > 4
        BY <1>3, <2>2 DEF IsTrailer
      <3> QED
        BY <1>3, <3>1 DEF Target
    <2> QED BY <2>1, <2>2
  <1>4. ASSUME NEW b \in Nat, ~IsTrailer(b)
        PROVE  Target(b) \in {Data("MAD 1"), Data("MAD 2"), Data("empty NDEF"), Data("zero")}
    <2>1. b # 3
      BY <1>4 DEF IsTrailer
    <2> QED
      BY <1>4, <2>1 DEF Target
  <1> QED BY <1>1, <1>2, <1>3, <1>4 DEF Contents

LEMMA LaterTrailer ==
    ASSUME NEW b \in Nat, b > 4, IsTrailer(b)
    PROVE  Target(b) = NdefTrailer
  BY DEF Target

LEMMA LayoutFacts ==
    /\ 0 \in Block /\ 4 * Sectors \in Nat
    /\ \A b \in Block : /\ b \in Nat /\ b < 4 * Sectors /\ SectorOf(b) \in Sector
                        /\ Target(b) \in Contents
    /\ \A b \in Nat : b < 4 * Sectors => b \in Block
  BY SectorsOK, TargetFacts DEF Block, Sector, SectorOf

LEMMA InitType == Init => TypeOK
  <1> SUFFICES ASSUME Init PROVE TypeOK
    OBVIOUS
  <1>1. ASSUME NEW f \in BOOLEAN, NEW g
        PROVE  /\ AsFound(f, g) \in [Block -> Contents]
               /\ \A b \in Block : IsTrailer(b) => AsFound(f, g)[b] \in Trailers
    <2>1. ForeignTrailer \in Trailers /\ FactoryTrailer \in Trailers /\ Data("found") \in Contents
      BY DEF ForeignTrailer, FactoryTrailer, Trailer, Trailers, Access, Data, Contents, Keys
    <2> QED
      BY <2>1, LayoutFacts, TargetFacts DEF AsFound, Contents
  <1>2. CardsOK
    BY <1>1 DEF Init, CardsOK
  <1>3. FlagsOK
    BY Zenon DEF Init, FlagsOK
  <1> QED
    BY <1>2, <1>3, LayoutFacts, FormatConstantsOK DEF Init, TypeOK, Never

(* What a write leaves behind: in the block it was for, nothing else.      *)
LEMMA PutFacts ==
    ASSUME TypeOK, blk \in Block, field \in Cards, NEW x, Put(x),
           x \in Contents, IsTrailer(blk) => x \in Trailers
    PROVE  /\ CardsOK'
           /\ card'[field][blk] = x
           /\ \A c \in Cards, b \in Block : c # field \/ b # blk => card'[c][b] = card[c][b]
           /\ foreign' = foreign
  <1>1. /\ card' = [card EXCEPT ![field][blk] = x] /\ foreign' = foreign
        /\ torn' \in [Cards -> SUBSET Sector]
    BY LayoutFacts DEF Put, TypeOK, CardsOK
  <1>2. /\ card \in [Cards -> [Block -> Contents]] /\ foreign \in [Cards -> SUBSET Foreign]
        /\ \A c \in Cards, b \in Block : IsTrailer(b) => card[c][b] \in Trailers
    BY DEF TypeOK, CardsOK
  <1>3. /\ card' \in [Cards -> [Block -> Contents]] /\ card'[field][blk] = x
        /\ \A c \in Cards, b \in Block : c # field \/ b # blk => card'[c][b] = card[c][b]
    BY <1>1, <1>2
  <1>4. ASSUME NEW c \in Cards, NEW b \in Block, IsTrailer(b) PROVE card'[c][b] \in Trailers
    <2>1. CASE c = field /\ b = blk
      BY <1>3, <1>4, <2>1
    <2>2. CASE c # field \/ b # blk
      BY <1>2, <1>3, <1>4, <2>2
    <2> QED BY <2>1, <2>2
  <1>5. foreign' \in [Cards -> SUBSET Foreign]
    BY <1>1, <1>2
  <1> QED
    BY <1>1, <1>3, <1>4, <1>5 DEF CardsOK

(* A write cut short leaves a trailer where there was one.                 *)
LEMMA TornFacts ==
    ASSUME TypeOK, blk \in Block, NEW c \in Cards, NEW x \in Torn(blk, card[c][blk])
    PROVE  x \in Contents /\ (IsTrailer(blk) => x \in Trailers)
  <1>1. CASE IsTrailer(blk)
    <2>1. card[c][blk] \in Trailers /\ Target(blk) \in Trailers /\ <<0, 0, 0>> \in Access
      <3>1. card[c][blk] \in Trailers
        BY <1>1 DEF TypeOK, CardsOK
      <3>2. Target(blk) \in Trailers
        BY <1>1, LayoutFacts, TargetFacts
      <3>3. <<0, 0, 0>> \in Access
        BY DEF Access
      <3> QED BY <3>1, <3>2, <3>3
    <2> QED
      BY <1>1, <2>1 DEF Torn, Trailers, Contents
  <1>2. CASE ~IsTrailer(blk)
    <2>1. Data("torn") \in Contents
      BY DEF Data, Contents
    <2> QED
      BY <1>2, <2>1 DEF Torn
  <1> QED BY <1>1, <1>2

(* What a write call does to the cards: nothing, or the whole write, or a  *)
(* part of it if the call fails.                                           *)
LEMMA WriteFacts ==
    ASSUME TypeOK, blk \in Block, NEW type, NEW err, WriteCall(type, err)
    PROVE  /\ \/ err # "None" /\ UNCHANGED cards
              \/ field \in Cards /\ Put(Target(blk))
              \/ /\ field \in Cards /\ err # "None"
                 /\ \E x \in Torn(blk, card[field][blk]) : Put(x)
           /\ CardsOK'
           /\ glitches' \in 0..MaxGlitches /\ runs' = runs /\ moves' = moves
  <1>1. \/ err # "None" /\ UNCHANGED cards
        \/ field \in Cards /\ Put(Target(blk))
        \/ /\ field \in Cards /\ err # "None"
           /\ \E x \in Torn(blk, card[field][blk]) : Put(x)
    BY FormatConstantsOK DEF WriteCall, TypeOK
  <1>2. Smooth \/ Glitch
    BY DEF WriteCall
  <1>3. glitches' \in 0..MaxGlitches /\ runs' = runs /\ moves' = moves
    BY <1>2, FormatConstantsOK DEF Smooth, Glitch, TypeOK, bounds
  <1>4. CardsOK'
    <2>1. CASE UNCHANGED cards
      BY <2>1 DEF TypeOK, CardsOK, cards
    <2>2. CASE field \in Cards /\ Put(Target(blk))
      BY <2>2, PutFacts, LayoutFacts, TargetFacts
    <2>3. ASSUME field \in Cards, NEW x \in Torn(blk, card[field][blk]), Put(x) PROVE CardsOK'
      BY <2>3, PutFacts, TornFacts
    <2> QED BY <1>1, <2>1, <2>2, <2>3
  <1> QED BY <1>1, <1>3, <1>4

(* What a write call may change, and what it has done when it succeeds.    *)
LEMMA WriteTouches ==
    ASSUME TypeOK, blk \in Block, NEW type, NEW err, WriteCall(type, err)
    PROVE  /\ card' = card \/ field \in Cards
           /\ \A c \in Cards : c # field => card'[c] = card[c]
           /\ \A c \in Cards, b \in Block : b # blk => card'[c][b] = card[c][b]
           /\ err = "None" => field \in Cards /\ card'[field][blk] = Target(blk)
  <1>1. CASE UNCHANGED cards /\ err # "None"
    BY <1>1 DEF cards
  <1>2. ASSUME field \in Cards, NEW x, Put(x), x = Target(blk) \/ err # "None"
        PROVE  /\ \A c \in Cards : c # field => card'[c] = card[c]
               /\ \A c \in Cards, b \in Block : b # blk => card'[c][b] = card[c][b]
               /\ err = "None" => card'[field][blk] = Target(blk)
    BY <1>2 DEF Put, TypeOK, CardsOK
  <1> QED BY <1>1, <1>2, WriteFacts

LEMMA FlagsStep == FlagsOK /\ [Next]_vars => FlagsOK'
  <1> SUFFICES ASSUME FlagsOK, [Next]_vars PROVE FlagsOK'
    OBVIOUS
  <1>1. CASE Start
    BY <1>1, Zenon DEF FlagsOK, Start
  <1>2. CASE Detect
    BY <1>2, Zenon DEF FlagsOK, Detect, Smooth, Glitch, hand
  <1>3. CASE Probe
    BY <1>3, Zenon DEF FlagsOK, Probe, Smooth, Glitch, hand
  <1>4. CASE NextBlock
    BY <1>4, Zenon DEF FlagsOK, NextBlock, hand
  <1>5. CASE WriteKeyB
    BY <1>5, Zenon DEF FlagsOK, WriteKeyB, WriteCall, Smooth, Glitch, hand
  <1>6. CASE WriteKeyA
    BY <1>6, Zenon DEF FlagsOK, WriteKeyA, WriteCall, Smooth, Glitch, hand
  <1>7. CASE RequestStop
    BY <1>7, Zenon DEF FlagsOK, RequestStop, hand
  <1>8. CASE Remove
    BY <1>8, Zenon DEF FlagsOK, Remove, run, hand
  <1>9. ASSUME NEW c \in Cards, Place(c) PROVE FlagsOK'
    BY <1>9, Zenon DEF FlagsOK, Place, run, hand
  <1>10. CASE UNCHANGED vars
    BY <1>10, Zenon DEF FlagsOK, vars, run, hand
  <1> QED
    BY <1>1, <1>2, <1>3, <1>4, <1>5, <1>6, <1>7, <1>8, <1>9, <1>10 DEF Next, Worker

(* Every step keeps the types, and a write call is only ever made for a    *)
(* block that the format writes.                                           *)
LEMMA StepType == TypeOK /\ AtABlock /\ [Next]_vars => TypeOK' /\ AtABlock'
  <1> SUFFICES ASSUME TypeOK, AtABlock, [Next]_vars
               PROVE  (TypeOK /\ AtABlock)'
    OBVIOUS
  <1>0. FlagsOK'
    BY FlagsStep DEF TypeOK
  <1> USE <1>0, LayoutFacts, FormatConstantsOK DEF TypeOK, CardsOK, AtABlock, Results, Never, bounds, cards, hand
  <1>1. CASE Start
    BY <1>1 DEF Start
  <1>2. CASE Detect
    BY <1>2 DEF Detect, Smooth, Glitch, Finish
  <1>3. CASE Probe
    <2>1. /\ pc' = "block" /\ blk' = 0 /\ (Smooth \/ Glitch)
          /\ UNCHANGED <<cards, field, result, failBlock, placed, asked>>
      BY <1>3 DEF Probe, hand
    <2> QED
      BY <2>1 DEF Smooth, Glitch
  <1>4. CASE NextBlock
    BY <1>4 DEF NextBlock, ShouldWrite, Finish
  <1>5. CASE WriteKeyB
    <2>1. PICK err : /\ WriteCall("B", err)
                     /\ IF err = "None" THEN pc' = "block" /\ blk' = blk + 1
                                        ELSE pc' = "keyA" /\ UNCHANGED blk
      BY <1>5 DEF WriteKeyB
    <2> QED
      BY <1>5, <2>1, WriteFacts DEF WriteKeyB
  <1>6. CASE WriteKeyA
    <2>1. PICK err : /\ WriteCall("A", err)
                     /\ IF err = "None"
                        THEN pc' = "block" /\ blk' = blk + 1 /\ UNCHANGED <<result, failBlock>>
                        ELSE /\ pc' = "idle" /\ result' \in {"NoCard", "WriteFailed"}
                             /\ failBlock' = blk /\ UNCHANGED blk
      BY <1>6 DEF WriteKeyA, Finish
    <2> QED
      BY <1>6, <2>1, WriteFacts DEF WriteKeyA
  <1>7. CASE RequestStop
    BY <1>7 DEF RequestStop
  <1>8. CASE Remove
    BY <1>8 DEF Remove, run
  <1>9. ASSUME NEW c \in Cards, Place(c) PROVE (TypeOK /\ AtABlock)'
    BY <1>9 DEF Place, run
  <1>10. CASE UNCHANGED vars
    BY <1>10 DEF vars, run
  <1> QED
    BY <1>1, <1>2, <1>3, <1>4, <1>5, <1>6, <1>7, <1>8, <1>9, <1>10 DEF Next, Worker

LEMMA TypeInductive == Spec => [](TypeOK /\ AtABlock)
  <1>1. Init => AtABlock
    BY DEF Init, AtABlock
  <1> QED BY <1>1, InitType, StepType, PTL DEF Spec

(* Cards, the run's state and the bounds stay within their types.          *)
THEOREM FormatTypeCorrect == Spec => []TypeOK
  BY TypeInductive, PTL

LEMMA StepBlock0 ==
    TypeOK /\ AtABlock /\ [Next]_vars => [\A c \in Cards : card'[c][0] = card[c][0]]_vars
  <1> SUFFICES ASSUME TypeOK, AtABlock, Next
               PROVE  \A c \in Cards : card'[c][0] = card[c][0]
    OBVIOUS
  <1>1. CASE card' = card
    BY <1>1
  <1>2. CASE WriteKeyB \/ WriteKeyA
    <2>1. blk \in Block \ {0} /\ \E type, err : WriteCall(type, err)
      BY <1>2 DEF WriteKeyB, WriteKeyA, AtABlock
    <2> QED
      BY <1>1, <2>1, WriteTouches, LayoutFacts
  <1> QED
    BY <1>1, <1>2 DEF Next, Worker, Start, Detect, Probe, NextBlock, RequestStop, Remove, Place, cards

(* No run ever writes the manufacturer block, whatever card is put in      *)
(* front of the reader and whenever.                                       *)
THEOREM Block0Safe == Spec => Block0Untouched
  BY StepBlock0, TypeInductive, PTL DEF Spec, Block0Untouched

(* A trailer that was not cut short is the one the card came with or the   *)
(* format's.                                                               *)
LEMMA InitTrailers == Init => KnownTrailers
  <1> SUFFICES ASSUME Init, NEW c \in Cards, NEW s \in Sector, s \notin foreign[c]
               PROVE  card[c][4 * s + 3] \in {FactoryTrailer, Target(4 * s + 3)}
    BY DEF KnownTrailers
  <1>1. 4 * s + 3 \in Block /\ IsTrailer(4 * s + 3) /\ SectorOf(4 * s + 3) = s
    BY SectorsOK DEF Block, Sector, IsTrailer, SectorOf
  <1>2. \E f : card[c] = AsFound(f, foreign[c])
    BY DEF Init
  <1> QED
    BY <1>1, <1>2 DEF AsFound

LEMMA StepTrailers == TypeOK /\ AtABlock /\ KnownTrailers /\ [Next]_vars => KnownTrailers'
  <1> SUFFICES ASSUME TypeOK, AtABlock, KnownTrailers, [Next]_vars
               PROVE  KnownTrailers'
    OBVIOUS
  <1>1. CASE UNCHANGED cards
    BY <1>1 DEF cards, KnownTrailers
  <1>2. ASSUME blk \in Block, field \in Cards, NEW x, Put(x),
               x = Target(blk) \/ ~IsTrailer(blk) \/ x \in Torn(blk, card[field][blk])
        PROVE  KnownTrailers'
    <2> SUFFICES ASSUME NEW c \in Cards, NEW s \in Sector, s \notin foreign'[c] \cup torn'[c]
                 PROVE  card'[c][4 * s + 3] \in {FactoryTrailer, Target(4 * s + 3)}
      BY DEF KnownTrailers
    <2>1. 4 * s + 3 \in Block /\ IsTrailer(4 * s + 3) /\ SectorOf(4 * s + 3) = s
      BY SectorsOK DEF Block, Sector, IsTrailer, SectorOf
    <2>2. CASE c = field /\ blk = 4 * s + 3
      <3>1. x # Target(blk) => s \in torn'[c]
        BY <1>2, <2>1, <2>2 DEF Put, TypeOK, CardsOK
      <3>2. card'[c][4 * s + 3] = x
        BY <1>2, <2>1, <2>2 DEF Put, TypeOK, CardsOK
      <3> QED
        BY <2>2, <3>1, <3>2
    <2>3. CASE c # field \/ blk # 4 * s + 3
      <3>1. card'[c][4 * s + 3] = card[c][4 * s + 3]
        BY <1>2, <2>1, <2>3 DEF Put, TypeOK, CardsOK
      <3>2. c = field /\ IsTrailer(blk) => SectorOf(blk) # s
        BY <1>2, <2>3, LayoutFacts DEF IsTrailer, SectorOf, Sector
      <3>3. s \notin foreign[c] \cup torn[c]
        BY <1>2, <2>3, <3>2 DEF Put, TypeOK, CardsOK
      <3> QED
        BY <3>1, <3>3 DEF KnownTrailers
    <2> QED BY <2>2, <2>3
  <1>3. CASE WriteKeyB \/ WriteKeyA
    <2>1. blk \in Block /\ \E type, err : WriteCall(type, err)
      BY <1>3 DEF WriteKeyB, WriteKeyA, AtABlock
    <2> QED
      BY <1>1, <1>2, <2>1, WriteFacts
  <1> QED
    BY <1>1, <1>3
    DEF Next, Worker, Start, Detect, Probe, NextBlock, RequestStop, Remove, Place, vars

-----------------------------------------------------------------------------
(* The blocks written so far hold their target, as long as no other card   *)
(* takes the place of the first.                                           *)

LEMMA StepRun == TypeOK /\ FormatInv /\ [Next]_vars => FormatInv'
  <1> SUFFICES ASSUME TypeOK, FormatInv, [Next]_vars
               PROVE  (SameCard /\ PrefixWritten /\ RightType)'
    BY StepType, StepTrailers DEF FormatInv
  <1> USE LayoutFacts, FormatConstantsOK
      DEF TypeOK, FormatInv, SameCard, PrefixWritten, RightType, AtABlock, Writing, cards, hand
  <1>1. CASE Start
    BY <1>1 DEF Start
  <1>2. CASE Detect
    BY <1>2 DEF Detect, Finish
  <1>3. CASE Probe
    BY <1>3 DEF Probe
  <1>4. CASE NextBlock
    BY <1>4 DEF NextBlock, ShouldWrite, Finish
  <1>5. CASE WriteKeyB
    <2>1. PICK err : /\ WriteCall("B", err)
                     /\ IF err = "None" THEN pc' = "block" /\ blk' = blk + 1
                                        ELSE pc' = "keyA" /\ UNCHANGED blk
      BY <1>5 DEF WriteKeyB
    <2>2. UNCHANGED <<field, placed, swapped>>
      BY <1>5 DEF WriteKeyB
    <2>3. \A b \in 1..(blk - 1) : card'[placed][b] = card[placed][b]
      BY <1>5, <2>1, WriteTouches DEF WriteKeyB
    <2>4. err = "None" => field = placed /\ card'[placed][blk] = Target(blk)
      BY <1>5, <2>1, WriteTouches DEF WriteKeyB
    <2> QED
      BY <1>5, <2>1, <2>2, <2>3, <2>4 DEF WriteKeyB
  <1>6. CASE WriteKeyA
    <2>1. PICK err : /\ WriteCall("A", err)
                     /\ IF err = "None" THEN pc' = "block" /\ blk' = blk + 1
                                        ELSE pc' = "idle" /\ UNCHANGED blk
      BY <1>6 DEF WriteKeyA, Finish
    <2>2. UNCHANGED <<field, placed, swapped>>
      BY <1>6 DEF WriteKeyA
    <2>3. \A b \in 1..(blk - 1) : card'[placed][b] = card[placed][b]
      BY <1>6, <2>1, WriteTouches DEF WriteKeyA
    <2>4. err = "None" => field = placed /\ card'[placed][blk] = Target(blk)
      BY <1>6, <2>1, WriteTouches DEF WriteKeyA
    <2> QED
      BY <1>6, <2>1, <2>2, <2>3, <2>4 DEF WriteKeyA
  <1>7. CASE RequestStop
    BY <1>7 DEF RequestStop
  <1>8. CASE Remove
    BY <1>8 DEF Remove, run
  <1>9. ASSUME NEW c \in Cards, Place(c) PROVE (SameCard /\ PrefixWritten /\ RightType)'
    BY <1>9 DEF Place, run
  <1>10. CASE UNCHANGED vars
    BY <1>10 DEF vars, run
  <1> QED
    BY <1>1, <1>2, <1>3, <1>4, <1>5, <1>6, <1>7, <1>8, <1>9, <1>10 DEF Next, Worker

(* The invariant that the two theorems after it rest on: what has been     *)
(* written of the card a run has under its reader.                         *)
THEOREM FormatInductive == Spec => [](TypeOK /\ FormatInv)
  <1>1. Init => TypeOK /\ FormatInv
    BY InitType, InitTrailers DEF Init, FormatInv, SameCard, PrefixWritten, RightType, AtABlock, Writing
  <1>2. TypeOK /\ FormatInv /\ [Next]_vars => TypeOK' /\ FormatInv'
    BY StepType, StepRun DEF FormatInv
  <1> QED BY <1>1, <1>2, PTL DEF Spec

(* A run reports success only when the card holds the whole format.        *)
THEOREM OkIsFormatted == Spec => OkMeansFormatted
  <1>1. TypeOK /\ FormatInv /\ [Next]_vars =>
            [Returns("Ok") /\ ~swapped => \A b \in Block \ {0} : card[placed][b] = Target(b)]_vars
    <2> SUFFICES ASSUME TypeOK, FormatInv, Next, Returns("Ok"), ~swapped
                 PROVE  \A b \in Block \ {0} : card[placed][b] = Target(b)
      OBVIOUS
    <2>1. pc = "block" /\ blk = 4 * Sectors
      BY DEF Returns, Next, Worker, Start, Detect, Probe, NextBlock, WriteKeyB, WriteKeyA, RequestStop,
             Remove, Place, Finish, run
    <2> QED
      BY <2>1, LayoutFacts DEF FormatInv, PrefixWritten, Writing, Block
  <1> QED BY <1>1, FormatInductive, PTL DEF Spec, OkMeansFormatted

(* A card that is not a MIFARE Classic 1K is never written, unless it      *)
(* takes the place of one during a run.                                    *)
THEOREM OtherCardsSafe == Spec => OtherCardsUntouched
  <1>1. TypeOK /\ FormatInv /\ [Next]_vars =>
            [~swapped => \A c \in Cards \ Classic1k : card'[c] = card[c]]_vars
    <2> SUFFICES ASSUME TypeOK, FormatInv, Next, ~swapped, NEW c \in Cards \ Classic1k
                 PROVE  card'[c] = card[c]
      OBVIOUS
    <2>1. CASE card' = card
      BY <2>1
    <2>2. CASE WriteKeyB \/ WriteKeyA
      <3>1. blk \in Block /\ placed \in Classic1k /\ \E type, err : WriteCall(type, err)
        BY <2>2 DEF WriteKeyB, WriteKeyA, FormatInv, AtABlock, RightType, Writing
      <3> QED
        BY <2>1, <3>1, WriteTouches, FormatConstantsOK DEF FormatInv, SameCard
    <2> QED
      BY <2>1, <2>2
      DEF Next, Worker, Start, Detect, Probe, NextBlock, RequestStop, Remove, Place, cards
  <1> QED BY <1>1, FormatInductive, PTL DEF Spec, OtherCardsUntouched

-----------------------------------------------------------------------------
(* What a known trailer lets the format do.                                *)

(* The access bits of the three trailers: who may write the data blocks of *)
(* the sector, and who its trailer.                                        *)
LEMMA AccessFacts ==
    \A acc \in {FactoryTrailer.access, MadTrailer.access, NdefTrailer.access} :
    /\ WellFormed(acc)
    /\ \A i \in 0..2 : DataWriters(Condition(acc, i)) = IF acc = MadTrailer.access THEN {"B"} ELSE {"A", "B"}
    /\ Condition(acc, 3) = IF acc = FactoryTrailer.access THEN <<0, 0, 1>> ELSE <<0, 1, 1>>
  <1>0. /\ FactoryTrailer.access = <<255, 7, 128>> /\ MadTrailer.access = <<120, 119, 136>>
        /\ NdefTrailer.access = <<127, 7, 136>>
    BY DEF FactoryTrailer, MadTrailer, NdefTrailer, Trailer
  <1>1. \A i \in 0..3 : /\ C1(<<255, 7, 128>>, i) = 0 /\ C2(<<255, 7, 128>>, i) = 0
                        /\ C3(<<255, 7, 128>>, i) = IF i = 3 THEN 1 ELSE 0
    BY DEF C1, C2, C3, Bit
  <1>2. \A i \in 0..3 : /\ C1(<<127, 7, 136>>, i) = 0
                        /\ C2(<<127, 7, 136>>, i) = IF i = 3 THEN 1 ELSE 0
                        /\ C3(<<127, 7, 136>>, i) = IF i = 3 THEN 1 ELSE 0
    BY DEF C1, C2, C3, Bit
  <1>3. \A i \in 0..3 : /\ C1(<<120, 119, 136>>, i) = IF i = 3 THEN 0 ELSE 1
                        /\ C2(<<120, 119, 136>>, i) = IF i = 3 THEN 1 ELSE 0
                        /\ C3(<<120, 119, 136>>, i) = IF i = 3 THEN 1 ELSE 0
    BY DEF C1, C2, C3, Bit
  <1>4. WellFormed(<<255, 7, 128>>)
    BY <1>1 DEF WellFormed, Bit
  <1>5. WellFormed(<<127, 7, 136>>)
    BY <1>2 DEF WellFormed, Bit
  <1>6. WellFormed(<<120, 119, 136>>)
    BY <1>3 DEF WellFormed, Bit
  <1> QED
    BY <1>0, <1>1, <1>2, <1>3, <1>4, <1>5, <1>6 DEF Condition, DataWriters

(* The factory trailer lets key A write every block of its sector.         *)
LEMMA FactoryOpens ==
    ASSUME NEW contents, NEW clone, NEW b \in Block, TrailerOf(contents, b) = FactoryTrailer
    PROVE  Accepts(contents, clone, b, "A", SectorKeys(FALSE, SectorOf(b))["A"])
  <1> DEFINE t == FactoryTrailer
  <1>1. t.access # MadTrailer.access /\ t.keyA = KeyDefault
    BY DEF FactoryTrailer, MadTrailer, Trailer
  <1>2. /\ t.keyA = SectorKeys(FALSE, SectorOf(b))["A"] /\ WellFormed(t.access)
        /\ "A" \in TrailerWriters(Condition(t.access, 3))
        /\ \A i \in 0..2 : "A" \in DataWriters(Condition(t.access, i))
    BY <1>1, AccessFacts DEF SectorKeys, TrailerWriters
  <1>3. ~IsTrailer(b) => b % 4 \in 0..2
    BY LayoutFacts DEF IsTrailer
  <1> QED
    BY <1>2, <1>3 DEF Accepts

(* The trailer of each sector that the format leaves behind lets the key B *)
(* that the format uses afterwards write every block of that sector.       *)
LEMMA FormatOpens ==
    ASSUME NEW contents, NEW clone, NEW b \in Block,
           TrailerOf(contents, b) = Target(4 * SectorOf(b) + 3)
    PROVE  Accepts(contents, clone, b, "B", SectorKeys(TRUE, SectorOf(b))["B"])
  <1> DEFINE s == SectorOf(b)
             t == IF s = 0 THEN MadTrailer ELSE NdefTrailer
  <1>0. s \in Sector
    BY LayoutFacts
  <1>1. Target(4 * s + 3) = t
    <2>1. CASE s = 0
      <3>1. 4 * s + 3 = 3
        BY <2>1
      <3> QED
        BY <2>1, <3>1 DEF Target
    <2>2. CASE s # 0
      <3>1. 4 * s + 3 \in Nat /\ 4 * s + 3 > 4 /\ IsTrailer(4 * s + 3)
        <4> HIDE DEF s
        <4> QED BY <1>0, <2>2, SectorsOK DEF Sector, IsTrailer
      <3> QED
        BY <2>2, <3>1, LaterTrailer
    <2> QED BY <2>1, <2>2
  <1>2. /\ t.keyB = SectorKeys(TRUE, s)["B"] /\ WellFormed(t.access)
        /\ Condition(t.access, 3) = <<0, 1, 1>>
        /\ \A i \in 0..2 : "B" \in DataWriters(Condition(t.access, i))
    <2>1. t.access # FactoryTrailer.access
      BY DEF FactoryTrailer, MadTrailer, NdefTrailer, Trailer
    <2>2. t.keyB = SectorKeys(TRUE, s)["B"]
      BY DEF MadTrailer, NdefTrailer, Trailer, SectorKeys
    <2> QED
      BY <2>1, <2>2, AccessFacts
  <1>3. "B" \in TrailerWriters(Condition(t.access, 3)) /\ ~KeyBReadable(t.access)
    BY <1>2 DEF TrailerWriters, KeyBReadable
  <1>4. ~IsTrailer(b) => b % 4 \in 0..2
    BY LayoutFacts DEF IsTrailer
  <1> HIDE DEF t
  <1> QED
    BY <1>1, <1>2, <1>3, <1>4 DEF Accepts

(* So a sector under either trailer can be written throughout.             *)
LEMMA Openable ==
    ASSUME NEW c \in Cards, NEW s \in Sector, card[c][4 * s + 3] \in {FactoryTrailer, Target(4 * s + 3)}
    PROVE  \E k \in BOOLEAN : Rewritable(c, s, k)
  <1>1. \A b \in (4 * s)..(4 * s + 3) : b \in Block /\ SectorOf(b) = s
    BY SectorsOK DEF Sector, Block, SectorOf
  <1>2. \A b \in (4 * s)..(4 * s + 3) : TrailerOf(card[c], b) = card[c][4 * s + 3]
    BY <1>1 DEF TrailerOf
  <1>3. CASE card[c][4 * s + 3] = FactoryTrailer
    <2>1. Rewritable(c, s, FALSE)
      BY <1>1, <1>2, <1>3, FactoryOpens DEF Rewritable
    <2> QED BY <2>1
  <1>4. CASE card[c][4 * s + 3] = Target(4 * s + 3)
    <2>1. Rewritable(c, s, TRUE)
      BY <1>1, <1>2, <1>4, FormatOpens DEF Rewritable
    <2> QED BY <2>1
  <1> QED BY <1>3, <1>4

(* Whatever interrupts a run, and whatever card is put in the place of the *)
(* first, a sector that the app could write before can be written again,   *)
(* save the one whose trailer was cut short.                               *)
THEOREM FormatLocksNothing == Spec => []NeverLocksOut
  <1>1. FormatInv => NeverLocksOut
    BY Openable DEF FormatInv, KnownTrailers, NeverLocksOut
  <1> QED BY <1>1, FormatInductive, PTL

-----------------------------------------------------------------------------
(* The run seen from outside.  The request to stop is read at the head of  *)
(* the loop, so it can be pending for the block at hand and no other.      *)

AskedInTime ==
    /\ pc \in {"detect", "probe"} => blk = 0
    /\ pc # "idle" /\ stop => asked # Never
    /\ pc # "idle" /\ ~stop => asked = Never
    /\ pc \in {"keyB", "keyA"} => asked \in {Never, blk}

LEMMA StepAsked == TypeOK /\ AskedInTime /\ [Next]_vars => AskedInTime'
  <1> SUFFICES ASSUME TypeOK, AskedInTime, [Next]_vars PROVE AskedInTime'
    OBVIOUS
  <1>0. 4 * Sectors \in Nat /\ blk \in 0..(4 * Sectors) /\ Never = 4 * Sectors + 1
    BY LayoutFacts DEF TypeOK, Never
  <1> USE <1>0 DEF AskedInTime
  <1>1. CASE Start
    BY <1>1 DEF Start
  <1>2. CASE Detect
    BY <1>2 DEF Detect, Finish
  <1>3. CASE Probe
    BY <1>3 DEF Probe
  <1>4. CASE NextBlock
    BY <1>4 DEF NextBlock, Finish
  <1>5. CASE WriteKeyB
    BY <1>5 DEF WriteKeyB
  <1>6. CASE WriteKeyA
    BY <1>6 DEF WriteKeyA, Finish
  <1>7. CASE RequestStop
    BY <1>7 DEF RequestStop
  <1>8. CASE Remove
    BY <1>8 DEF Remove, run
  <1>9. ASSUME NEW c \in Cards, Place(c) PROVE AskedInTime'
    BY <1>9 DEF Place, run
  <1>10. CASE UNCHANGED vars
    BY <1>10 DEF vars, run
  <1> QED
    BY <1>1, <1>2, <1>3, <1>4, <1>5, <1>6, <1>7, <1>8, <1>9, <1>10 DEF Next, Worker

(* Every step of the detailed run is a step of the abstract one, or none.  *)
LEMMA StepAbstract ==
    TypeOK /\ AtABlock /\ AskedInTime /\ [Next]_vars => [Run!Next]_(Run!vars)
  <1> SUFFICES ASSUME TypeOK, AtABlock, AskedInTime, [Next]_vars
               PROVE  Run!Next \/ UNCHANGED Run!vars
    OBVIOUS
  <1>0. 4 * Sectors \in Nat \ {0} /\ blk \in 0..(4 * Sectors) /\ Never = Run!Never
    BY LayoutFacts, SectorsOK DEF TypeOK, Never, Run!Never
  <1> USE <1>0 DEF AskedInTime, Run!vars
  <1>1. CASE Start
    <2>1. Run!Begin
      BY <1>1 DEF Start, Run!Begin
    <2> QED BY <2>1 DEF Run!Next
  <1>2. CASE Detect
    <2>1. CASE pc' = "probe"
      BY <1>2, <2>1 DEF Detect, Finish
    <2>2. CASE pc' = "idle"
      <3>1. Run!Refuse \/ Run!Fail
        BY <1>2, <2>2 DEF Detect, Finish, Run!Refuse, Run!Fail, Run!End
      <3> QED BY <3>1 DEF Run!Next
    <2> QED BY <1>2, <2>1, <2>2 DEF Detect, Finish
  <1>3. CASE Probe
    BY <1>3 DEF Probe
  <1>4. CASE NextBlock
    <2>1. Run!Succeed \/ Run!Cancel \/ Run!Advance \/ UNCHANGED Run!vars
      BY <1>4 DEF NextBlock, Finish, Run!Succeed, Run!Cancel, Run!Advance, Run!End
    <2> QED BY <2>1 DEF Run!Next
  <1>5. CASE WriteKeyB
    <2>1. Run!Advance \/ UNCHANGED Run!vars
      BY <1>5, LayoutFacts DEF WriteKeyB, AtABlock, Run!Advance
    <2> QED BY <2>1 DEF Run!Next
  <1>6. CASE WriteKeyA
    <2>1. blk < 4 * Sectors
      BY <1>6, LayoutFacts DEF WriteKeyA, AtABlock
    <2>2. Run!Advance \/ Run!Fail
      BY <1>6, <2>1 DEF WriteKeyA, Finish, Run!Advance, Run!Fail, Run!End
    <2> QED BY <2>2 DEF Run!Next
  <1>7. CASE RequestStop
    <2>1. Run!Ask
      BY <1>7 DEF RequestStop, Run!Ask
    <2> QED BY <2>1 DEF Run!Next
  <1>8. CASE Remove
    BY <1>8 DEF Remove, run
  <1>9. ASSUME NEW c \in Cards, Place(c) PROVE UNCHANGED Run!vars
    BY <1>9 DEF Place, run
  <1>10. CASE UNCHANGED vars
    BY <1>10 DEF vars, run
  <1> QED
    BY <1>1, <1>2, <1>3, <1>4, <1>5, <1>6, <1>7, <1>8, <1>9, <1>10 DEF Next, Worker

LEMMA AskedInductive == Spec => []AskedInTime
  <1>1. Init => AskedInTime
    BY DEF Init, AskedInTime, Never
  <1> QED BY <1>1, StepAsked, FormatTypeCorrect, PTL DEF Spec

(* The detailed run, with all its calls, retries and interruptions,        *)
(* implements the abstract one.                                            *)
THEOREM FormatIsARun == Spec => ImplementsRun
  <1>1. Init => Run!Init
    BY DEF Init, Run!Init, Run!Never, Never
  <1> QED
    BY <1>1, AskedInductive, StepAbstract, TypeInductive, PTL DEF Spec, ImplementsRun, Run!Spec

-----------------------------------------------------------------------------
(* What a run that stopped on the way leaves: the blocks before the one it *)
(* stopped at are formatted, those behind it are as they were.             *)

(* Only the block that the run is at can change, and only on the card that *)
(* lies on the field.                                                      *)
OneBlockAtATime ==
    [][\A c \in Cards, b \in Block : card'[c][b] # card[c][b] =>
            pc \in {"keyB", "keyA"} /\ c = field /\ b = blk]_vars

THEOREM WritesOneBlock == Spec => OneBlockAtATime
  <1>1. TypeOK /\ AtABlock /\ [Next]_vars =>
            [\A c \in Cards, b \in Block : card'[c][b] # card[c][b] =>
                pc \in {"keyB", "keyA"} /\ c = field /\ b = blk]_vars
    <2> SUFFICES ASSUME TypeOK, AtABlock, Next, NEW c \in Cards, NEW b \in Block, card'[c][b] # card[c][b]
                 PROVE  pc \in {"keyB", "keyA"} /\ c = field /\ b = blk
      OBVIOUS
    <2>1. WriteKeyB \/ WriteKeyA
      BY DEF Next, Worker, Start, Detect, Probe, NextBlock, RequestStop, Remove, Place, cards
    <2>2. pc \in {"keyB", "keyA"} /\ blk \in Block /\ \E type, err : WriteCall(type, err)
      BY <2>1 DEF WriteKeyB, WriteKeyA, AtABlock
    <2>3. c = field
      BY <2>2, WriteTouches
    <2>4. b = blk
      BY <2>2, WriteTouches
    <2> QED BY <2>2, <2>3, <2>4
  <1> QED BY <1>1, TypeInductive, PTL DEF Spec, OneBlockAtATime

(* However a run ends, every block before the one it was at holds its      *)
(* target, unless another card took the place of the first; and the block  *)
(* that a failed write names is the one it was at.                         *)
PrefixAtReturn ==
    [][pc # "idle" /\ pc' = "idle" /\ ~swapped =>
            /\ \A b \in 1..(blk - 1) : card'[placed][b] = Target(b)
            /\ result' = "WriteFailed" => failBlock' = blk]_vars

THEOREM StoppedRunIsAPrefix == Spec => PrefixAtReturn
  <1>1. TypeOK /\ FormatInv /\ AskedInTime /\ [Next]_vars =>
            [pc # "idle" /\ pc' = "idle" /\ ~swapped =>
                /\ \A b \in 1..(blk - 1) : card'[placed][b] = Target(b)
                /\ result' = "WriteFailed" => failBlock' = blk]_vars
    <2> SUFFICES ASSUME TypeOK, FormatInv, AskedInTime, Next, pc # "idle", pc' = "idle", ~swapped
                 PROVE  /\ \A b \in 1..(blk - 1) : card'[placed][b] = Target(b)
                        /\ result' = "WriteFailed" => failBlock' = blk
      OBVIOUS
    <2>1. CASE Detect
      <3>1. blk = 0 /\ result' \in {"NoCard", "NotClassic1k"}
        BY <2>1 DEF Detect, Finish, AskedInTime
      <3> QED BY <3>1
    <2>2. CASE NextBlock
      <3>1. pc = "block" /\ card' = card /\ result' \in {"Ok", "Canceled"}
        BY <2>2 DEF NextBlock, Finish, cards
      <3> QED BY <3>1 DEF FormatInv, PrefixWritten, Writing
    <2>3. CASE WriteKeyA
      <3>1. pc = "keyA" /\ blk \in Block /\ failBlock' = blk /\ \E type, err : WriteCall(type, err)
        BY <2>3 DEF WriteKeyA, FormatInv, AtABlock
      <3>2. placed \in Cards /\ \A b \in 1..(blk - 1) : b \in Block /\ b # blk
        BY <3>1, LayoutFacts DEF TypeOK
      <3>3. \A b \in 1..(blk - 1) : card'[placed][b] = card[placed][b]
        BY <3>1, <3>2, WriteTouches
      <3> QED BY <3>1, <3>3 DEF FormatInv, PrefixWritten, Writing
    <2> QED
      BY <2>1, <2>2, <2>3 DEF Next, Worker, Start, Probe, WriteKeyB, RequestStop, Remove, Place
  <1> QED BY <1>1, FormatInductive, AskedInductive, PTL DEF Spec, PrefixAtReturn

-----------------------------------------------------------------------------
(* A run comes to its end: how many steps the worker can still take, at    *)
(* most.  A block costs the look at the flag and two writes, and none is   *)
(* tried again.                                                            *)

StepsLeft ==
    CASE pc = "idle"   -> 0
      [] pc = "detect" -> 12 * Sectors + 3
      [] pc = "probe"  -> 12 * Sectors + 2
      [] pc = "block"  -> 3 * (4 * Sectors - blk) + 1
      [] pc = "keyB"   -> 3 * (4 * Sectors - blk)
      [] pc = "keyA"   -> 3 * (4 * Sectors - blk) - 1

LEMMA StepsLeftFacts ==
    ASSUME TypeOK, AtABlock
    PROVE  StepsLeft \in Nat /\ (pc = "idle" <=> StepsLeft = 0)
  <1>1. blk \in Nat /\ blk <= 4 * Sectors /\ Sectors \in Nat /\ (pc \in {"keyB", "keyA"} => blk < 4 * Sectors)
    BY LayoutFacts, SectorsOK DEF TypeOK, AtABlock
  <1> QED
    BY <1>1 DEF StepsLeft, TypeOK

LEMMA StepCounts ==
    TypeOK /\ AtABlock /\ [Next]_vars =>
        /\ Worker => StepsLeft' < StepsLeft
        /\ ~Worker /\ ~Start => StepsLeft' = StepsLeft
  <1> SUFFICES ASSUME TypeOK, AtABlock, [Next]_vars
               PROVE  /\ Worker => StepsLeft' < StepsLeft
                      /\ ~Worker /\ ~Start => StepsLeft' = StepsLeft
    OBVIOUS
  <1>0. /\ blk \in Nat /\ blk <= 4 * Sectors /\ Sectors \in Nat /\ Sectors' = Sectors
        /\ pc \in {"keyB", "keyA"} => blk < 4 * Sectors
    BY LayoutFacts, SectorsOK DEF TypeOK, AtABlock
  <1> USE <1>0 DEF StepsLeft
  <1>1. CASE Detect
    <2>1. pc = "detect" /\ pc' \in {"probe", "idle"}
      BY <1>1 DEF Detect, Finish
    <2> QED BY <1>1, <2>1 DEF Worker
  <1>2. CASE Probe
    <2>1. pc = "probe" /\ pc' = "block" /\ blk' = 0
      BY <1>2, Zenon DEF Probe
    <2> QED BY <1>2, <2>1 DEF Worker
  <1>3. CASE NextBlock
    <2>1. /\ pc = "block"
          /\ \/ pc' = "idle"
             \/ /\ pc' \in {"block", "keyB"} /\ blk < 4 * Sectors
                /\ blk' = IF pc' = "block" THEN blk + 1 ELSE blk
      BY <1>3 DEF NextBlock, Finish
    <2> QED BY <1>3, <2>1 DEF Worker
  <1>4. CASE WriteKeyB
    <2>1. pc = "keyB" /\ ((pc' = "block" /\ blk' = blk + 1) \/ (pc' = "keyA" /\ blk' = blk))
      BY <1>4 DEF WriteKeyB
    <2> QED BY <1>4, <2>1 DEF Worker
  <1>5. CASE WriteKeyA
    <2>1. pc = "keyA" /\ ((pc' = "block" /\ blk' = blk + 1) \/ pc' = "idle")
      BY <1>5 DEF WriteKeyA, Finish
    <2> QED BY <1>5, <2>1 DEF Worker
  <1>6. CASE ~Worker /\ ~Start
    <2>1. UNCHANGED <<pc, blk>>
      BY <1>6 DEF Next, RequestStop, Remove, Place, vars, run
    <2> QED BY <1>6, <2>1
  <1> QED
    BY <1>1, <1>2, <1>3, <1>4, <1>5, <1>6 DEF Worker, Start

(* A run never goes round for ever, whatever fails and however often the   *)
(* card comes and goes: every step of the worker brings it closer to its   *)
(* end, and nothing else, a cancel and the user's hand included, takes it  *)
(* further away (mfc_ndef_format_run has one pass and no retry).           *)
THEOREM RunComesToItsEnd ==
    Spec => /\ [](StepsLeft \in Nat /\ (pc = "idle" <=> StepsLeft = 0))
            /\ [][Worker => StepsLeft' < StepsLeft]_vars
            /\ [][~Worker /\ ~Start => StepsLeft' = StepsLeft]_vars
  <1>1. TypeOK /\ AtABlock => StepsLeft \in Nat /\ (pc = "idle" <=> StepsLeft = 0)
    BY StepsLeftFacts
  <1>2. TypeOK /\ AtABlock /\ [Next]_vars => [Worker => StepsLeft' < StepsLeft]_vars
    BY StepCounts
  <1>3. TypeOK /\ AtABlock /\ [Next]_vars => [~Worker /\ ~Start => StepsLeft' = StepsLeft]_vars
    BY StepCounts
  <1> QED BY <1>1, <1>2, <1>3, TypeInductive, PTL DEF Spec

=============================================================================
