----------------------------- MODULE MC_Extension -----------------------------
EXTENDS Extension

(* X: NULL, the integer 1 (text "1"), the real 0.5 (text "0.5"), the text *)
(* "abc", the empty text, an empty blob and the blob x'00ff'.               *)
Xs == {[type |-> "null", bytes |-> <<>>], [type |-> "int", bytes |-> <<49>>],
       [type |-> "float", bytes |-> <<48, 46, 53>>],
       [type |-> "text", bytes |-> <<97, 98, 99>>], [type |-> "text", bytes |-> <<>>],
       [type |-> "blob", bytes |-> <<>>], [type |-> "blob", bytes |-> <<0, 255>>]}
(* SIZE 224, 256, 384, 512, 128, 0 and -256 as 64-bit integers.             *)
SizeArgs == {[hi |-> 0, lo |-> 224], [hi |-> 0, lo |-> 256], [hi |-> 0, lo |-> 384],
             [hi |-> 0, lo |-> 512], [hi |-> 0, lo |-> 128],
             [hi |-> 0, lo |-> 0], [hi |-> -1, lo |-> -256]}
CallsOf(sizes) ==
  {[fn |-> "sha3", argc |-> 1, size |-> [hi |-> 0, lo |-> 0], x |-> x, zSqlNull |-> FALSE,
    sql |-> <<>>, autocommit |-> TRUE] : x \in Xs}
  \cup {[fn |-> "sha3", argc |-> 2, size |-> a, x |-> x, zSqlNull |-> FALSE,
         sql |-> <<>>, autocommit |-> TRUE] : a \in sizes, x \in Xs}
MCSha3Calls == CallsOf(SizeArgs)

(* The sha3_query calls of MC_QueryHash; sha3 would see their SQL as the  *)
(* text "S" (or NULL).                                                    *)
MCQ == INSTANCE MC_QueryHash WITH Calls <- {}
MCQueryCalls ==
  {[fn |-> "sha3_query", argc |-> c.argc, size |-> c.size,
    x |-> [type |-> IF c.zSqlNull THEN "null" ELSE "text",
           bytes |-> IF c.zSqlNull THEN <<>> ELSE <<83>>],
    zSqlNull |-> c.zSqlNull, sql |-> c.sql, autocommit |-> c.autocommit]
   : c \in MCQ!MCCalls}

MCCalls == MCSha3Calls \cup MCQueryCalls
==============================================================================
