----------------------------- MODULE NdefLayout -----------------------------
(***************************************************************************)
(* ndef_layout.c: what the format writes to each block of a MIFARE Classic *)
(* card and the keys it uses.  A block is its data, named, or, for the     *)
(* last block of a sector, a trailer: two keys and the access bytes, which *)
(* are kept as bytes because the card decides by their bits.               *)
(***************************************************************************)
EXTENDS Naturals

CONSTANT Sectors    \* MFC_NDEF_SECTORS_1K: 16 on a 1K card

ASSUME SectorsOK == Sectors \in Nat /\ Sectors >= 2

Sector == 0..(Sectors - 1)
Block  == 0..(4 * Sectors - 1)

SectorOf(b)  == b \div 4
IsTrailer(b) == b % 4 = 3

-----------------------------------------------------------------------------
KeyDefault == "FFFFFFFFFFFF"
KeyMadA    == "A0A1A2A3A4A5"
KeyMadB    == "89ECA97F8C2A"
KeyNdefA   == "D3F7D3F7D3F7"

Data(d) == [data |-> d]
Trailer(a, access, b) == [keyA |-> a, access |-> access, keyB |-> b]

MadTrailer  == Trailer(KeyMadA,  <<120, 119, 136>>, KeyMadB)    \* 78 77 88
(* Mutated form: one access byte copied from the factory trailer.          *)
NdefTrailerSlip == Trailer(KeyNdefA, <<127, 7, 128>>, KeyDefault)

NdefTrailer == Trailer(KeyNdefA, <<127,   7, 136>>, KeyDefault) \* 7F 07 88

(* Mutated form: the manufacturer block is written like any other.         *)
ShouldWriteAll(b) == TRUE

(* mfc_ndef_build_block: every block but the manufacturer block has one    *)
(* target content, whatever the card held before.                          *)
ShouldWrite(b) == b # 0

Target(b) ==
    CASE b = 1 -> Data("MAD 1")
      [] b = 2 -> Data("MAD 2")
      [] b = 3 -> MadTrailer
      [] b = 4 -> Data("empty NDEF")
      [] b > 4 /\ IsTrailer(b) -> NdefTrailer
      [] OTHER -> Data("zero")

(* Mutated form: the MAD keys are used for every sector.                   *)
SectorKeysOfMad(formatted, s) ==
    IF formatted THEN [A |-> KeyMadA, B |-> KeyMadB] ELSE [A |-> KeyDefault, B |-> KeyDefault]

(* mfc_ndef_sector_keys: the keys of a factory card, or those the trailers *)
(* above leave behind.                                                     *)
SectorKeys(formatted, s) ==
    CASE ~formatted          -> [A |-> KeyDefault, B |-> KeyDefault]
      [] formatted /\ s = 0  -> [A |-> KeyMadA,    B |-> KeyMadB]
      [] formatted /\ s # 0  -> [A |-> KeyNdefA,   B |-> KeyDefault]

=============================================================================
