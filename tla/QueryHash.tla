------------------------------ MODULE QueryHash ------------------------------
(***************************************************************************)
(* sha3QueryFunc (shathree.c 579-687) and hash_step_vformat (532-545).     *)
(*                                                                         *)
(* SQLite is the collaborator: a call's SQL text is given as the sequence  *)
(* of what successive sqlite3_prepare_v2 calls make of the remaining text  *)
(* (a statement, a compile error, or no statement at all when only         *)
(* whitespace or a comment is left), each statement with its read-only     *)
(* flag, the text sqlite3_sql returns, its column count when prepared,   *)
(* its result rows (as wide as the statement is when stepped: a schema    *)
(* change by another connection makes sqlite3_step re-prepare it), the    *)
(* effect its execution has on the connection's autocommit flag (BEGIN   *)
(* and COMMIT pass sqlite3_stmt_readonly), and whether the step after the  *)
(* last row returns SQLITE_DONE or an error.                               *)
(*                                                                         *)
(* The hasher cx is abstracted to the bytes SHA3Update has absorbed since  *)
(* SHA3Init: run sha3_engine of SHA3Engine shows the digest depends on     *)
(* those bytes only, whatever the chunking.                                *)
(***************************************************************************)
EXTENDS Integers, Sequences
LOCAL INSTANCE SequencesExt

CONSTANTS
  Calls        \* the argument lists [argc, size, zSqlNull, sql], and the
               \* connection's autocommit flag when the call is made

VARIABLES
  call,        \* this call's arguments
  iSize,       \* iSize (0 until it is set)
  pc,          \* "entry", "prepare" (top of the while(zSql[0]) loop),
               \* "step" (inside the sqlite3_step loop) or "returned"
  k,           \* the prepare_v2 call the loop is at (index into call.sql)
  nCol,        \* nCol: sqlite3_column_count(pStmt) after prepare
  row,         \* rows of statement k hashed so far
  stream,      \* bytes absorbed into cx since SHA3Init
  result,      \* what the function leaves as the SQL function's result
  autocommit   \* the connection's autocommit flag (sqlite3_get_autocommit)

vars == <<call, iSize, pc, k, nCol, row, stream, result, autocommit>>

SHA3Sizes == {224, 256, 384, 512}
Bytes == 0..255
Char(c) == CASE c = "S" -> 83 [] c = "R" -> 82 [] c = "N" -> 78 [] c = "I" -> 73
             [] c = "F" -> 70 [] c = "T" -> 84 [] c = "B" -> 66 [] c = ":" -> 58

(* The SIZE argument is a 64-bit integer, given as its high 32 bits hi and *)
(* its low 32 bits lo as a signed int.  sqlite3_value_int casts the value  *)
(* to int: what is left is lo.                                             *)
ValueInt(a) == a.lo

(* sqlite3_vsnprintf's %d of a non-negative int: its decimal digits.       *)
RECURSIVE Decimal(_)
Decimal(n) == IF n < 10 THEN <<48 + n>>
              ELSE Decimal(n \div 10) \o <<48 + (n % 10)>>

(* hash_step_vformat(&cx, "<tag>%d:", n): the bytes it absorbs.            *)
LengthPrefix(tag, n) == <<Char(tag)>> \o Decimal(n) \o <<Char(":")>>

(* memcpy(&u, &v, 8) of a sqlite3_int64 v into a sqlite3_uint64 u: u is v  *)
(* modulo 2^64, written as its 8 base-256 digits, least significant first. *)
U64OfInt(v) ==
  LET RECURSIVE D(_, _)
      D(w, n) == IF n = 0 THEN <<>> ELSE <<w % 256>> \o D(w \div 256, n - 1)
  IN D(v, 8)

(* Mutant: the loop run upwards, for(j=1; j<=8; j++).                       *)
ShiftOutLowLast(u) == [j \in 1..8 |-> u[j]]

(* for(j=8; j>=1; j--){ x[j] = u & 0xff; u >>= 8; }: x[1..8] of u.          *)
ShiftOutLowFirst(u) ==
  LET RECURSIVE Fill(_, _, _)
      Fill(x, j, w) == IF j = 0 THEN x
                       ELSE Fill([x EXCEPT ![j] = w[1]], j - 1, Tail(w) \o <<0>>)
  IN Fill(<<0, 0, 0, 0, 0, 0, 0, 0>>, 8, u)

(* The switch on sqlite3_column_type: the bytes one column adds.  A float  *)
(* value is given by the digits of its IEEE bit pattern (memcpy(&u,&r,8)). *)
ColumnBytes(val) ==
  CASE val.type = "null"  -> <<Char("N")>>
    [] val.type = "int"   -> <<Char("I")>> \o ShiftOutLowFirst(U64OfInt(val.v))
    [] val.type = "float" -> <<Char("F")>> \o ShiftOutLowFirst(val.v)
    [] val.type = "text"  -> LengthPrefix("T", Len(val.v)) \o val.v
    [] val.type = "blob"  -> LengthPrefix("B", Len(val.v)) \o val.v

(* One SQLITE_ROW: "R", then columns 0..n-1 for the n read at prepare.    *)
(* sqlite3_column_type of a column the row does not have is SQLITE_NULL.  *)
RowBytes(r, n) ==
  LET Col(c) == IF c <= Len(r) THEN r[c] ELSE [type |-> "null", v |-> <<>>]
  IN <<Char("R")>> \o FlattenSeq([c \in 1..n |-> ColumnBytes(Col(c))])

Script == call.sql
Stmt == Script[k]

Init == /\ call \in Calls
        /\ iSize = 0
        /\ pc = "entry"
        /\ k = 1
        /\ nCol = 0
        /\ row = 0
        /\ stream = <<>>
        /\ result = [kind |-> "none"]
        /\ autocommit = call.autocommit

(* Mutant: the size check left out.                                        *)
EntryNoSizeCheck ==
  /\ pc = "entry"
  /\ iSize' = IF call.argc = 1 THEN 256 ELSE ValueInt(call.size)
  /\ IF call.zSqlNull
       THEN result' = [kind |-> "null"] /\ pc' = "returned"
       ELSE pc' = "prepare" /\ UNCHANGED result
  /\ UNCHANGED <<call, k, nCol, row, stream, autocommit>>

(* Lines 595-606: the size check, the NULL-SQL return, SHA3Init.          *)
Entry ==
  /\ pc = "entry"
  /\ \/ /\ call.argc = 2 /\ ValueInt(call.size) \notin SHA3Sizes
        /\ result' = [kind |-> "error", what |-> "size"]
        /\ pc' = "returned"
        /\ UNCHANGED iSize
     \/ /\ call.argc = 1 \/ ValueInt(call.size) \in SHA3Sizes
        /\ iSize' = IF call.argc = 1 THEN 256 ELSE ValueInt(call.size)
        /\ IF call.zSqlNull
             THEN /\ result' = [kind |-> "null"]
                  /\ pc' = "returned"
             ELSE /\ pc' = "prepare"
                  /\ UNCHANGED result
  /\ UNCHANGED <<call, k, nCol, row, stream, autocommit>>

(* Mutant: the sqlite3_stmt_readonly test left out.                        *)
PrepareNoReadonlyCheck ==
  /\ pc = "prepare"
  /\ k <= Len(Script)
  /\ \/ /\ Stmt.prep = "error"
        /\ result' = [kind |-> "error", what |-> "compile"]
        /\ pc' = "returned"
        /\ UNCHANGED <<stream, nCol>>
     \/ /\ Stmt.prep = "ok"
        /\ stream' = stream \o LengthPrefix("S", Len(Stmt.sql)) \o Stmt.sql
        /\ nCol' = Stmt.nCol
        /\ pc' = "step"
        /\ UNCHANGED result
  /\ row' = 0
  /\ UNCHANGED <<call, iSize, k, autocommit>>

(* Lines 607-630: one prepare_v2 on the remaining text and what follows    *)
(* it up to the step loop.  A remaining text that holds no statement      *)
(* (blanks, a comment, a lone ';') gives rc = 0 and pStmt = 0:             *)
(* sqlite3_stmt_readonly(0) is 1, sqlite3_sql(0) is 0, strlen(0) faults.   *)
Prepare ==
  /\ pc = "prepare"
  /\ k <= Len(Script)
  /\ \/ /\ Stmt.prep = "error"
        /\ result' = [kind |-> "error", what |-> "compile"]
        /\ pc' = "returned"
        /\ UNCHANGED <<stream, nCol>>
     \/ /\ Stmt.prep = "empty"
        /\ result' = [kind |-> "crash"]
        /\ pc' = "returned"
        /\ UNCHANGED <<stream, nCol>>
     \/ /\ Stmt.prep = "ok" /\ ~Stmt.readonly
        /\ result' = [kind |-> "error", what |-> "non-query"]
        /\ pc' = "returned"
        /\ UNCHANGED <<stream, nCol>>
     \/ /\ Stmt.prep = "ok" /\ Stmt.readonly
        /\ stream' = stream \o LengthPrefix("S", Len(Stmt.sql)) \o Stmt.sql
        /\ nCol' = Stmt.nCol
        /\ pc' = "step"
        /\ UNCHANGED result
  /\ row' = 0
  /\ UNCHANGED <<call, iSize, k, autocommit>>

(* Lines 631-682: sqlite3_step returns SQLITE_ROW and the row is hashed.   *)
StepRow ==
  /\ pc = "step"
  /\ row < Len(Stmt.rows)
  /\ stream' = stream \o RowBytes(Stmt.rows[row + 1], nCol)
  /\ row' = row + 1
  /\ UNCHANGED <<call, iSize, pc, k, nCol, result, autocommit>>

(* Lines 631 and 684: any other step result (SQLITE_DONE or an error) ends *)
(* the loop alike; the statement is finalized and the loop goes on with   *)
(* the tail prepare_v2 left in zSql.  A BEGIN or COMMIT has taken effect  *)
(* on the connection in that step.                                         *)
StepEnd ==
  /\ pc = "step"
  /\ row = Len(Stmt.rows)
  /\ autocommit' = CASE Stmt.effect = "begin"  -> FALSE
                      [] Stmt.effect = "commit" -> TRUE
                      [] OTHER                  -> autocommit
  /\ k' = k + 1
  /\ pc' = "prepare"
  /\ UNCHANGED <<call, iSize, nCol, row, stream, result>>

(* Lines 607 and 686: no text left (zSql[0] == 0): the digest is returned. *)
Finish ==
  /\ pc = "prepare"
  /\ k > Len(Script)
  /\ result' = [kind |-> "digest", size |-> iSize, stream |-> stream]
  /\ pc' = "returned"
  /\ UNCHANGED <<call, iSize, k, nCol, row, stream, autocommit>>

(* The function has returned; nothing changes any more.                    *)
Returned == pc = "returned" /\ UNCHANGED vars

Next == Entry \/ Prepare \/ StepRow \/ StepEnd \/ Finish \/ Returned

Spec == Init /\ [][Next]_vars

-----------------------------------------------------------------------------
(* What spec section 4.4 and 6 promise, stated without the code.           *)

(* The 8 bytes of a 64-bit two's-complement integer, least significant    *)
(* first (for |v| < 2^31, the four high bytes are the sign).               *)
TwosComplement(v) ==
  LET Mag(a, b) == IF b >= 4 THEN 0 ELSE (a \div (2^(8 * b))) % 256
  IN [b \in 1..8 |-> IF v >= 0 THEN Mag(v, b - 1) ELSE 255 - Mag(-v - 1, b - 1)]

(* A column value as a decoder sees it.                                    *)
ValueView(val) ==
  [type |-> val.type,
   v    |-> CASE val.type = "int" -> TwosComplement(val.v)
              [] val.type = "null" -> <<>>
              [] OTHER -> val.v]

(* The statements of a script (what is left blank is no statement) with    *)
(* their text and rows: what the stream of a digest must encode.           *)
Statements(s) == SelectSeq(s, LAMBDA st : st.prep # "empty")
Expected(s) ==
  LET st == Statements(s)
  IN [m \in DOMAIN st |->
        [sql  |-> st[m].sql,
         rows |-> [r \in DOMAIN st[m].rows |->
                     [c \in DOMAIN st[m].rows[r] |-> ValueView(st[m].rows[r][c])]]]]

(* A decoder for the format, its integers and floats read most (order     *)
(* "msb") or least ("lsb") significant byte first.  It gives the list of  *)
(* statements with their rows, or "malformed".                             *)
RECURSIVE Num(_, _, _)
Num(st, p, n) == IF p > Len(st) THEN <<-1, p>>
                 ELSE IF st[p] = Char(":") THEN <<n, p + 1>>
                 ELSE IF st[p] \in 48..57 THEN Num(st, p + 1, 10 * n + st[p] - 48)
                 ELSE <<-1, p>>

AddRow(acc) ==
  [acc EXCEPT ![Len(acc)].rows = Append(@, <<>>)]
AddValue(acc, v) ==
  LET last == acc[Len(acc)] IN
  [acc EXCEPT ![Len(acc)].rows[Len(last.rows)] = Append(@, v)]
CanAddValue(acc) == acc # <<>> /\ acc[Len(acc)].rows # <<>>

RECURSIVE Dec(_, _, _, _)
Dec(st, p, acc, order) ==
  IF p > Len(st) THEN acc
  ELSE LET t == st[p]
           lp == Num(st, p + 1, 0)
           q == lp[2]
           n == lp[1]
           Fixed(type) ==
             LET b == SubSeq(st, p + 1, p + 8)
             IN [type |-> type, v |-> IF order = "msb" THEN Reverse(b) ELSE b]
       IN
       IF t = Char("S")
         THEN IF n < 0 \/ q + n - 1 > Len(st) THEN "malformed"
              ELSE Dec(st, q + n, Append(acc, [sql |-> SubSeq(st, q, q + n - 1),
                                               rows |-> <<>>]), order)
       ELSE IF t = Char("R")
         THEN IF acc = <<>> THEN "malformed" ELSE Dec(st, p + 1, AddRow(acc), order)
       ELSE IF ~CanAddValue(acc) THEN "malformed"
       ELSE IF t = Char("N")
         THEN Dec(st, p + 1, AddValue(acc, [type |-> "null", v |-> <<>>]), order)
       ELSE IF t \in {Char("I"), Char("F")}
         THEN IF p + 8 > Len(st) THEN "malformed"
              ELSE Dec(st, p + 9,
                       AddValue(acc, Fixed(IF t = Char("I") THEN "int" ELSE "float")),
                       order)
       ELSE IF t \in {Char("T"), Char("B")}
         THEN IF n < 0 \/ q + n - 1 > Len(st) THEN "malformed"
              ELSE Dec(st, q + n,
                       AddValue(acc, [type |-> IF t = Char("T") THEN "text" ELSE "blob",
                                      v |-> SubSeq(st, q, q + n - 1)]),
                       order)
       ELSE "malformed"

Decode(st, order) == Dec(st, 1, <<>>, order)

(* The outcome spec sections 4.4, 6 and 7 give a call: an invalid SIZE is *)
(* an error; NULL SQL gives NULL; otherwise the first statement that does *)
(* not compile, is not read-only, or whose execution fails is an error,   *)
(* and with none the digest of the requested size.                        *)
FailureOf(st) == CASE st.prep = "error" -> "compile"
                   [] ~st.readonly -> "non-query"
                   [] st.end = "error" -> "step"
                   [] OTHER -> "none"
ExpectedOutcome(c) ==
  IF c.argc = 2 /\ ~(c.size.hi = 0 /\ c.size.lo \in SHA3Sizes)
    THEN [kind |-> "error", what |-> "size"]
  ELSE IF c.zSqlNull THEN [kind |-> "null"]
  ELSE LET st == Statements(c.sql)
           bad == {m \in DOMAIN st : FailureOf(st[m]) # "none"}
       IN IF bad = {}
            THEN [kind |-> "digest", size |-> IF c.argc = 1 THEN 256 ELSE c.size.lo]
            ELSE [kind |-> "error",
                  what |-> FailureOf(st[CHOOSE m \in bad : \A m2 \in bad : m <= m2])]

Outcome(r) == IF r.kind = "digest" THEN [kind |-> "digest", size |-> r.size] ELSE r

-----------------------------------------------------------------------------
TypeOK ==
  /\ call \in Calls
  /\ iSize \in {0} \cup SHA3Sizes
  /\ pc \in {"entry", "prepare", "step", "returned"}
  /\ k \in 1..(Len(Script) + 1)
  /\ nCol \in Nat
  /\ row \in Nat
  /\ autocommit \in BOOLEAN
  /\ stream \in Seq(Bytes)
  /\ result.kind \in {"none", "error", "null", "crash", "digest"}

(* Every call returns what the spec says for its arguments and the         *)
(* statements SQLite makes of its text: the size check, the NULL return,  *)
(* the first failing statement, or a digest of the right size (Entry,     *)
(* Prepare, StepEnd and Finish together).                                 *)
OutcomeAsSpecified == pc = "returned" => Outcome(result) = ExpectedOutcome(call)

(* The bytes a returned digest is computed over decode, by the format of  *)
(* spec section 4.4 (integers and floats most significant byte first),    *)
(* to exactly the statement texts and typed rows that were run: the      *)
(* encoding of ColumnBytes, RowBytes and LengthPrefix is unambiguous.     *)
DigestDecodes ==
  result.kind = "digest" => Decode(result.stream, "msb") = Expected(call.sql)

(* A call leaves the connection's transaction state as it found it: the   *)
(* read-only test of line 615 is there so that hashing a query changes    *)
(* nothing, whether the call returns a digest or an error.                *)
ConnectionUnchanged == pc = "returned" => autocommit = call.autocommit
==============================================================================
