------------------------------ MODULE NestedQuery ------------------------------
(***************************************************************************)
(* sha3QueryFunc re-entered.  sqlite3_step (line 631) runs the statement   *)
(* on the caller's thread and connection, and a result column may itself  *)
(* be sha3_query(s), with s read from a table: SQLite then calls           *)
(* sha3QueryFunc again, inside the outer call's sqlite3_step, on a new C   *)
(* stack frame holding its own SHA3Context, zSql and pStmt.                *)
(*                                                                         *)
(* The state is the stack of active sha3QueryFunc calls.  Each frame keeps *)
(* what QueryHash keeps of one call (which text, the prepare_v2 call k it  *)
(* is at, the row and the column being computed); the bytes hashed are    *)
(* left out, since the property here is about whether a call returns.     *)
(* Nested calls have one non-NULL argument, so Entry's checks pass and    *)
(* each frame starts at the top of the while(zSql[0]) loop.                *)
(***************************************************************************)
EXTENDS Integers, Sequences

CONSTANTS
  Texts,        \* text id -> what successive prepare_v2 calls make of it:
                \* statements [prep, readonly, rows, end] as in QueryHash;
                \* a row value [type |-> "call", v |-> id] is sha3_query
                \* applied to the text id read from a table
  Apps,         \* the texts the application may pass to sha3_query
  StackFrames   \* how many nested sha3QueryFunc frames the C stack holds

ASSUME Apps \subseteq DOMAIN Texts /\ StackFrames \in Nat \ {0}

VARIABLES
  stack,        \* the active calls, innermost last
  result        \* what the application's call returned

vars == <<stack, result>>

NewFrame(id) == [text |-> id, pc |-> "prepare", k |-> 1, row |-> 0, cell |-> 1]

Top == stack[Len(stack)]
Stmt(f) == Texts[f.text][f.k]

(* The first column at or after cell of the row being stepped that is a   *)
(* nested sha3_query call (0 if none).                                    *)
NextCall(f) ==
  LET r == Stmt(f).rows[f.row + 1]
      calls == {c \in f.cell..Len(r) : r[c].type = "call"}
  IN IF calls = {} THEN 0 ELSE CHOOSE c \in calls : \A d \in calls : c <= d

(* The innermost call returns r.  To its caller, a digest or NULL is the  *)
(* column's value, and computing the row goes on; an error               *)
(* (sqlite3_result_error) makes the caller's sqlite3_step return          *)
(* SQLITE_ERROR, which ends its row loop like SQLITE_DONE (line 631), and *)
(* its while(zSql[0]) loop goes on with the next statement.  A crash      *)
(* ends the process.                                                      *)
Return(r) ==
  IF Len(stack) = 1 \/ r.kind = "crash"
  THEN stack' = <<>> /\ result' = r
  ELSE LET caller == stack[Len(stack) - 1]
           resumed == IF r.kind = "error"
                      THEN [caller EXCEPT !.pc = "prepare", !.k = @ + 1]
                      ELSE [caller EXCEPT !.pc = "step", !.cell = NextCall(caller) + 1]
       IN /\ stack' = Append(SubSeq(stack, 1, Len(stack) - 2), resumed)
          /\ UNCHANGED result

Init == (\E a \in Apps : stack = <<NewFrame(a)>>) /\ result = [kind |-> "none"]

(* Lines 608-628 in the innermost call: one prepare_v2 and its checks.     *)
Prepare ==
  /\ stack # <<>>
  /\ Top.pc = "prepare"
  /\ Top.k <= Len(Texts[Top.text])
  /\ LET st == Stmt(Top) IN
     CASE st.prep = "error"   -> Return([kind |-> "error", what |-> "compile"])
       [] st.prep = "empty"   -> Return([kind |-> "crash"])
       [] ~st.readonly        -> Return([kind |-> "error", what |-> "non-query"])
       [] OTHER -> /\ stack' = [stack EXCEPT ![Len(stack)].pc = "step",
                                             ![Len(stack)].row = 0,
                                             ![Len(stack)].cell = 1]
                   /\ UNCHANGED result

(* Line 631: sqlite3_step computes the next row.  Reaching a column that  *)
(* is sha3_query(s), SQLite calls sha3QueryFunc on a new frame; when the   *)
(* stack has no room for it the process faults.                           *)
Call ==
  /\ stack # <<>>
  /\ Top.pc = "step"
  /\ Top.row < Len(Stmt(Top).rows)
  /\ NextCall(Top) # 0
  /\ IF Len(stack) < StackFrames
     THEN /\ stack' = Append([stack EXCEPT ![Len(stack)].pc = "call"],
                             NewFrame(Stmt(Top).rows[Top.row + 1][NextCall(Top)].v))
          /\ UNCHANGED result
     ELSE stack' = <<>> /\ result' = [kind |-> "crash"]

(* Lines 631-683: the row is complete, sqlite3_step returns SQLITE_ROW and *)
(* the row is hashed.                                                     *)
StepRow ==
  /\ stack # <<>>
  /\ Top.pc = "step"
  /\ Top.row < Len(Stmt(Top).rows)
  /\ NextCall(Top) = 0
  /\ stack' = [stack EXCEPT ![Len(stack)].row = @ + 1, ![Len(stack)].cell = 1]
  /\ UNCHANGED result

(* Lines 631 and 684: no more rows; the statement is finalized.           *)
StepEnd ==
  /\ stack # <<>>
  /\ Top.pc = "step"
  /\ Top.row = Len(Stmt(Top).rows)
  /\ stack' = [stack EXCEPT ![Len(stack)].pc = "prepare", ![Len(stack)].k = @ + 1]
  /\ UNCHANGED result

(* Lines 607 and 686: no text left, the digest is the call's result.      *)
Finish ==
  /\ stack # <<>>
  /\ Top.pc = "prepare"
  /\ Top.k > Len(Texts[Top.text])
  /\ Return([kind |-> "digest"])

Returned == stack = <<>> /\ UNCHANGED vars

Next == Prepare \/ Call \/ StepRow \/ StepEnd \/ Finish \/ Returned

Spec == Init /\ [][Next]_vars

-----------------------------------------------------------------------------
(* Spec section 5: a call of sha3_query runs to completion or aborts on   *)
(* its first error, returning a digest, NULL or an error; it never takes  *)
(* the process down.  Here the statements compile and are read-only, so   *)
(* only nesting (Call) can make it fail.                                  *)
ReturnsOrAborts == result.kind # "crash"
==============================================================================
