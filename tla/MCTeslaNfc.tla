----------------------------- MODULE MCTeslaNfc -----------------------------
(* TeslaNfc with requests on both sides of every length the code compares: *)
(* 4 and 5 bytes, an AID of 10, data of 81, Le below and above each object. *)
EXTENDS TeslaNfc

Sizes == {0, 3, 4, 5, 14, 15, 16, 85, 86, 87}
Lcs   == {0, 1, 9, 10, 11, 65, 66, 80, 81, 82, 255}
Lasts == {0, 1, 16, 17, 255}

(* A field that did not arrive, or that the code does not look at, has one *)
(* value.                                                                  *)
Normal(q) ==
    LET select == q.size >= 4 /\ q.ins = "SELECT"
    IN  [size |-> q.size,
         cla  |-> IF q.size < 4 THEN "zero" ELSE q.cla,
         ins  |-> IF q.size < 4 THEN "SELECT" ELSE q.ins,
         p1   |-> IF q.size < 4 THEN "by name" ELSE IF select THEN q.p1 ELSE "other",
         lc   |-> IF q.size < 5 THEN 0 ELSE q.lc,
         aid  |-> IF q.size < 15 \/ ~select THEN "other" ELSE q.aid,
         last |-> IF q.size < 6 \/ select \/ q.cla # "set" THEN 0 ELSE q.last]

Normalised ==
    {Normal(q) : q \in
        [size : Sizes, cla : {"zero", "clear", "set"},
         ins : {"SELECT", "GetPublicKey", "Authenticate", "GetCardInfo", "other"},
         p1 : {"by name", "other"}, lc : Lcs, aid : {"card", "phone", "other"},
         last : Lasts]}

(* The cfg names Probes, so that TLC evaluates Normalised only once.       *)
Probes == Normalised
=============================================================================
