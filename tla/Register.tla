------------------------------- MODULE Register -------------------------------
(***************************************************************************)
(* sqlite3_shathree_init (shathree.c 693-716): the four                    *)
(* sqlite3_create_function calls that register sha3/1, sha3/2,             *)
(* sha3_query/1 and sha3_query/2 on a connection, each after the first     *)
(* made only while rc is SQLITE_OK.  A call may fail (SQLITE_BUSY while a  *)
(* statement using a function of that name runs, SQLITE_NOMEM); a failed   *)
(* call registers nothing.  A function is registered as its name, its     *)
(* number of arguments and its implementation (xFunc); registering a name *)
(* and nArg again replaces the implementation (sqlite3_create_function    *)
(* overloads by name, nArg and text encoding, all SQLITE_UTF8 here).      *)
(***************************************************************************)
EXTENDS Integers, Sequences

CONSTANTS
  Errors       \* the error codes sqlite3_create_function may return

VARIABLES
  registered,  \* the <<name, nArg, xFunc>> triples registered on the connection
  rc,          \* rc of sqlite3_shathree_init
  next         \* the create_function call the code is at (1..4), 5 = return

regVars == <<registered, rc, next>>

(* Mutant: the last call copied from the second, xFunc left at sha3Func. *)
FunctionsCopyPaste == << <<"sha3", 1, "sha3Func">>, <<"sha3", 2, "sha3Func">>,
                         <<"sha3_query", 1, "sha3QueryFunc">>, <<"sha3_query", 2, "sha3Func">> >>

(* Lines 703-714, in order.                                                *)
Functions == << <<"sha3", 1, "sha3Func">>, <<"sha3", 2, "sha3Func">>,
                <<"sha3_query", 1, "sha3QueryFunc">>, <<"sha3_query", 2, "sha3QueryFunc">> >>

(* The table after registering f: f replaces a function of its name and    *)
(* nArg.                                                                   *)
AddFunction(table, f) == {g \in table : <<g[1], g[2]>> # <<f[1], f[2]>>} \cup {f}

(* The implementations registered for a name and a number of arguments.  *)
Lookup(name, nArg) == {g[3] : g \in {h \in registered : h[1] = name /\ h[2] = nArg}}

(* Line 698: rc = SQLITE_OK on a connection without these functions.       *)
InitReg == /\ registered = {}
           /\ rc = "OK"
           /\ next = 1

(* Mutant: the if(rc==SQLITE_OK) before the last call left out.            *)
CreateFunctionLastUnguarded ==
  /\ next <= 4
  /\ rc = "OK" \/ next = 4
  /\ \E r \in {"OK"} \cup Errors :
       /\ rc' = r
       /\ registered' = IF r = "OK" THEN AddFunction(registered, Functions[next])
                        ELSE registered
  /\ next' = next + 1

(* Lines 703-714: call number next, made when rc is SQLITE_OK (always for  *)
(* the first, which is unguarded but finds rc = SQLITE_OK).                *)
CreateFunction ==
  /\ next <= 4
  /\ rc = "OK"
  /\ \E r \in {"OK"} \cup Errors :
       /\ rc' = r
       /\ registered' = IF r = "OK" THEN AddFunction(registered, Functions[next])
                        ELSE registered
  /\ next' = next + 1

(* A call skipped by if( rc==SQLITE_OK ) once a call has failed.           *)
SkipCall ==
  /\ next <= 4
  /\ rc # "OK"
  /\ next' = next + 1
  /\ UNCHANGED <<registered, rc>>

Initialised == next = 5

-----------------------------------------------------------------------------
(* Once the init has returned: rc is SQLITE_OK exactly when all four       *)
(* functions are registered, and after a failure the functions registered  *)
(* are those of the calls before the failing one, none after it.           *)
InitOutcome ==
  Initialised =>
    IF rc = "OK" THEN registered = {Functions[i] : i \in 1..4}
    ELSE \E m \in 0..3 : registered = {Functions[i] : i \in 1..m}
==============================================================================
