--------------------------- MODULE MifareClassic ---------------------------
(***************************************************************************)
(* The card, as its data sheet describes it and as ndef_format.c relies on *)
(* it: a sector obeys the keys and access bits that its trailer holds at   *)
(* the moment, so writing the trailer changes who may write next.  No part *)
(* of it is code of this repository.                                       *)
(***************************************************************************)
EXTENDS NdefLayout

Bit(n, i) == (n \div <<1, 2, 4, 8, 16, 32, 64, 128>>[i + 1]) % 2

(* Access bits C1 C2 C3 of the i-th block of a sector (3: the trailer).    *)
(* They are stored twice, once inverted, in trailer bytes 6, 7 and 8.      *)
C1(acc, i) == Bit(acc[2], 4 + i)
C2(acc, i) == Bit(acc[3], i)
C3(acc, i) == Bit(acc[3], 4 + i)
Condition(acc, i) == <<C1(acc, i), C2(acc, i), C3(acc, i)>>

(* A sector whose two copies disagree is blocked for good.                 *)
WellFormed(acc) ==
    \A i \in 0..3 :
        /\ Bit(acc[1], i)     # C1(acc, i)
        /\ Bit(acc[1], 4 + i) # C2(acc, i)
        /\ Bit(acc[2], i)     # C3(acc, i)

(* Key types that may rewrite a data block, and a whole trailer.           *)
DataWriters(cond) ==
    CASE cond = <<0, 0, 0>> -> {"A", "B"}
      [] cond \in {<<1, 0, 0>>, <<1, 1, 0>>, <<0, 1, 1>>} -> {"B"}
      [] OTHER -> {}

TrailerWriters(cond) ==
    CASE cond = <<0, 0, 1>> -> {"A"}
      [] cond = <<0, 1, 1>> -> {"B"}
      [] OTHER -> {}

(* A key B that can be read back serves as data, not as a key, on a        *)
(* genuine card; some clones accept it all the same.                       *)
KeyBReadable(acc) == Condition(acc, 3) \in {<<0, 0, 0>>, <<0, 1, 0>>, <<0, 0, 1>>}

TrailerOf(contents, b) == contents[4 * SectorOf(b) + 3]

(* Whether the card lets a reader with this key write block b.             *)
Accepts(contents, clone, b, type, key) ==
    LET t == TrailerOf(contents, b)
    IN  /\ WellFormed(t.access)
        /\ key = IF type = "A" THEN t.keyA ELSE t.keyB
        /\ type = "B" => clone \/ ~KeyBReadable(t.access)
        /\ type \in IF IsTrailer(b) THEN TrailerWriters(Condition(t.access, 3))
                                    ELSE DataWriters(Condition(t.access, b % 4))

AuthenticatesA(contents, b, key) == TrailerOf(contents, b).keyA = key

FactoryTrailer == Trailer(KeyDefault, <<255, 7, 128>>, KeyDefault)   \* FF 07 80
ForeignTrailer == Trailer("other A", <<127, 7, 136>>, "other B")

(* What a write that is cut short may leave in a block, besides its old    *)
(* and its new contents: of a trailer, any of its parts old and the others *)
(* new, or access bits that block the sector.                              *)
Torn(b, old) ==
    IF IsTrailer(b)
    THEN [keyA : {old.keyA, Target(b).keyA},
          access : {old.access, Target(b).access, <<0, 0, 0>>},
          keyB : {old.keyB, Target(b).keyB}] \ {old, Target(b)}
    ELSE {Data("torn")}

Keys     == {KeyDefault, KeyMadA, KeyMadB, KeyNdefA, "other A", "other B"}
Access   == (0..255) \X (0..255) \X (0..255)
Trailers == [keyA : Keys, access : Access, keyB : Keys]
Contents == [data : {"found", "MAD 1", "MAD 2", "empty NDEF", "zero", "torn"}] \cup Trailers

(* A card as it comes: from the factory, or formatted as NDEF and in use,  *)
(* with the sectors in foreign under keys the app does not know.           *)
AsFound(formatted, foreign) ==
    [b \in Block |->
        IF IsTrailer(b)
        THEN IF SectorOf(b) \in foreign THEN ForeignTrailer
             ELSE IF formatted THEN Target(b) ELSE FactoryTrailer
        ELSE IF formatted /\ SectorOf(b) = 0 /\ b # 0 THEN Target(b) ELSE Data("found")]

=============================================================================
