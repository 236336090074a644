---------------------------- MODULE MCNdefFormat ----------------------------
(* NdefFormat on cards of three sectors: the MAD sector, an NDEF sector    *)
(* with the empty message, and one of the identical NDEF sectors after it. *)
EXTENDS NdefFormat
=============================================================================
