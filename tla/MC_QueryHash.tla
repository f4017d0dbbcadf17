---------------------------- MODULE MC_QueryHash ----------------------------
(* Calls of sha3_query for TLC.  The statement texts, texts and blobs use   *)
(* the format's own tag letters, ':' and digits, so that a format that is   *)
(* not self-delimiting decodes wrongly.                                     *)
EXTENDS QueryHash

Txt(s) == [type |-> "text", v |-> s]
Blb(s) == [type |-> "blob", v |-> s]
IntV(v) == [type |-> "int", v |-> v]
NullV == [type |-> "null", v |-> <<>>]
(* The IEEE-754 bit pattern of 1.0 (0x3FF0000000000000), low byte first.    *)
FloatOne == [type |-> "float", v |-> <<0, 0, 0, 0, 0, 0, 240, 63>>]

Query(sql, rows) == [prep |-> "ok", readonly |-> TRUE, sql |-> sql,
                     nCol |-> IF rows = <<>> THEN 1 ELSE Len(rows[1]),
                     rows |-> rows, effect |-> "none", end |-> "done"]

(* "S"; rows (1, NULL) and ('R', x'')                                       *)
Q1 == Query(<<83>>, << <<IntV(1), NullV>>, <<Txt(<<82>>), Blb(<<>>)>> >>)
(* "1:", no rows                                                            *)
Q2 == Query(<<49, 58>>, <<>>)
(* a 12-byte text; rows 1.0, -1, 300, 'T1:R:78901:'                         *)
Q3 == Query(<<82, 73, 49, 58, 83, 50, 58, 84, 66, 70, 78, 82>>,
            << <<FloatOne>>, <<IntV(-1)>>, <<IntV(300)>>,
               <<Txt(<<84, 49, 58, 82, 58, 55, 56, 57, 48, 49, 58>>)>> >>)
(* a statement that writes                                                  *)
W == [Q2 EXCEPT !.readonly = FALSE]
(* text that does not compile                                               *)
E == [prep |-> "error", readonly |-> FALSE, sql |-> <<>>, nCol |-> 0, rows |-> <<>>,
      effect |-> "none", end |-> "done"]
(* what is left after the last ';' when only blanks or a comment follow     *)
Blank == [E EXCEPT !.prep = "empty", !.readonly = TRUE]
(* Q3, its step after the last row failing (an integer overflow, SQLITE_BUSY) *)
Q3Fails == [Q3 EXCEPT !.end = "error"]

(* BEGIN and COMMIT: read-only to sqlite3_stmt_readonly, no rows          *)
Begin == [Query(<<66>>, <<>>) EXCEPT !.nCol = 0, !.effect = "begin"]
Commit == [Query(<<67>>, <<>>) EXCEPT !.nCol = 0, !.effect = "commit"]
(* Q1 prepared with 2 columns, re-prepared by its first step with a third *)
(* column added by ALTER TABLE on another connection                       *)
Q1Widened == [Q1 EXCEPT !.rows = [r \in DOMAIN @ |-> Append(@[r], IntV(7))]]

Scripts == {<<s>> : s \in {Q1, Q2, Q3, W, E}}
           \cup {<<s, t>> : s \in {Q1, Q2, Q3, W, E}, t \in {Q1, Q3, W, E}}
           \cup {<<Q2, Q1, Q3>>}

(* SIZE 256, 512, 128 and -256 as 64-bit integers.                          *)
SizeArgs == {[hi |-> 0, lo |-> 256], [hi |-> 0, lo |-> 512],
             [hi |-> 0, lo |-> 128], [hi |-> -1, lo |-> -256]}

CallsOf(scripts, sizes) ==
  LET Args == {[argc |-> 1, size |-> [hi |-> 0, lo |-> 0]]}
              \cup {[argc |-> 2, size |-> a] : a \in sizes}
      Sql == {[zSqlNull |-> FALSE, sql |-> s] : s \in scripts}
             \cup {[zSqlNull |-> TRUE, sql |-> <<>>]}
  IN {[argc |-> a.argc, size |-> a.size, zSqlNull |-> q.zSqlNull, sql |-> q.sql,
        autocommit |-> TRUE] : a \in Args, q \in Sql}

MCCalls == CallsOf(Scripts, SizeArgs)
(* SQL text ending in a blank or a comment after its last ';'.              *)
MCCallsTrailingBlank == CallsOf({<<Q1, Blank>>}, {})
(* A statement whose execution fails after its rows.                        *)
MCCallsStepError == CallsOf({<<Q3Fails, Q1>>}, {})
(* SIZE 2^32 + 256.                                                         *)
WideSize == [hi |-> 1, lo |-> 256]
MCCallsWideSize == CallsOf({<<Q1>>}, {WideSize})
(* Every input above together.                                              *)
(* BEGIN then a statement that does not compile; COMMIT inside the        *)
(* application's open transaction.                                         *)
MCCallsTransaction ==
  CallsOf({<<Begin, E>>}, {})
  \cup {[c EXCEPT !.autocommit = FALSE] : c \in CallsOf({<<Commit>>}, {})}
(* A schema change between prepare and step.                                *)
MCCallsSchemaChange == CallsOf({<<Q1Widened>>}, {})
MCCallsAll == CallsOf(Scripts \cup {<<Q1, Blank>>, <<Q3Fails, Q1>>, <<Begin, Q1, Commit>>},
                      SizeArgs \cup {WideSize})
==============================================================================
