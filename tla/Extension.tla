------------------------------ MODULE Extension ------------------------------
(***************************************************************************)
(* The extension on one connection: sqlite3_shathree_init runs (module     *)
(* Register), then the application calls sha3 or sha3_query, with one or  *)
(* two arguments.  SQLite looks the call up by name and number of          *)
(* arguments and runs the xFunc registered for it: sha3Func (module        *)
(* Sha3Func) or sha3QueryFunc (module QueryHash), or fails the call with   *)
(* "no such function".  The three modules share the call, its result and   *)
(* the connection.                                                          *)
(***************************************************************************)
EXTENDS Integers, Sequences

CONSTANTS
  Errors,      \* what sqlite3_create_function may return
  Calls        \* [fn, argc, size, x, zSqlNull, sql, autocommit]: x is the
               \* first argument as sha3 sees it, zSqlNull and sql as
               \* sha3_query sees it

VARIABLES registered, rc, next,                          \* Register
          call, result,                                  \* the call
          iSize, pc, k, nCol, row, stream, autocommit    \* QueryHash

regVars == <<registered, rc, next>>
queryVars == <<iSize, pc, k, nCol, row, stream, autocommit>>
vars == <<regVars, call, result, queryVars>>

R == INSTANCE Register
F == INSTANCE Sha3Func
Q == INSTANCE QueryHash

(* The connection is opened, the extension not yet loaded, and the        *)
(* application has its call ready.                                        *)
Init == R!InitReg /\ Q!Init

(* sqlite3_shathree_init runs to completion before any call.               *)
Load == /\ R!CreateFunction \/ R!SkipCall
        /\ UNCHANGED <<call, result, queryVars>>

(* What SQLite finds for the call.                                         *)
XFunc == R!Lookup(call.fn, call.argc)

NoSuchFunction ==
  /\ R!Initialised
  /\ pc = "entry"
  /\ XFunc = {}
  /\ result' = [kind |-> "error", what |-> "no such function"]
  /\ pc' = "returned"
  /\ UNCHANGED <<regVars, call, iSize, k, nCol, row, stream, autocommit>>

(* sha3Func runs in one step.                                              *)
RunSha3Func ==
  /\ R!Initialised
  /\ pc = "entry"
  /\ XFunc = {"sha3Func"}
  /\ F!Call
  /\ pc' = "returned"
  /\ UNCHANGED <<regVars, iSize, k, nCol, row, stream, autocommit>>

(* One step of sha3QueryFunc.                                              *)
RunSha3QueryFunc ==
  /\ R!Initialised
  /\ XFunc = {"sha3QueryFunc"}
  /\ Q!Entry \/ Q!Prepare \/ Q!StepRow \/ Q!StepEnd \/ Q!Finish
  /\ UNCHANGED regVars

Done == pc = "returned" /\ UNCHANGED vars

Next == Load \/ NoSuchFunction \/ RunSha3Func \/ RunSha3QueryFunc \/ Done

Spec == Init /\ [][Next]_vars

-----------------------------------------------------------------------------
TypeOK == /\ call \in Calls
          /\ registered \subseteq {R!Functions[i] : i \in 1..4}
          /\ rc \in {"OK"} \cup Errors
          /\ next \in 1..5
          /\ pc \in {"entry", "prepare", "step", "returned"}
          /\ result.kind \in {"none", "error", "null", "crash", "digest"}
          /\ result.kind = "digest" => result.size \in F!SHA3Sizes

(* See Register.                                                           *)
InitOutcome == R!InitOutcome

(* What spec sections 4.4 and 6 say a call returns: for sha3 the outcome  *)
(* and the bytes hashed; for sha3_query the outcome and, for a digest,    *)
(* bytes that decode to the statements and rows that were run.            *)
AsSpecified(c, r) ==
  IF c.fn = "sha3"
  THEN r = F!ExpectedOutcome(c)
  ELSE /\ Q!Outcome(r) = Q!ExpectedOutcome(c)
       /\ r.kind = "digest" => Q!Decode(r.stream, "msb") = Q!Expected(c.sql)

(* Once sqlite3_shathree_init has returned SQLITE_OK, every call of sha3   *)
(* and sha3_query the application makes, with one argument or two, is     *)
(* answered as the spec says: each name and nArg reaches the function     *)
(* that implements it.                                                    *)
LoadedCallsAsSpecified ==
  (R!Initialised /\ rc = "OK" /\ pc = "returned") => AsSpecified(call, result)
==============================================================================
