---------------------------- MODULE MC_NestedQuery ----------------------------
EXTENDS NestedQuery

IntV(v) == [type |-> "int", v |-> v]
Nested(id) == [type |-> "call", v |-> id]
Query(rows) == [prep |-> "ok", readonly |-> TRUE, rows |-> rows, end |-> "done"]

(* "B": SELECT 1, 2 (two rows of one integer).                            *)
(* "A": SELECT x, sha3_query(s) FROM t: two rows whose second column is    *)
(*      sha3_query applied to the text "B" stored in t; then SELECT 1.    *)
(* "Q": SELECT sha3_query(s) FROM q, where q's one row holds this very     *)
(*      text.                                                              *)
MCTexts == [id \in {"A", "B", "Q"} |->
              CASE id = "B" -> << Query(<< <<IntV(1)>>, <<IntV(2)>> >>) >>
                [] id = "A" -> << Query(<< <<IntV(1), Nested("B")>>,
                                           <<IntV(2), Nested("B")>> >>),
                                  Query(<< <<IntV(1)>> >>) >>
                [] id = "Q" -> << Query(<< <<Nested("Q")>> >>) >>]
==============================================================================
