------------------------------- MODULE Sha3Func -------------------------------
(***************************************************************************)
(* sha3Func (shathree.c 500-525), the SQL function sha3(X) and sha3(X,N). *)
(* It runs to completion in one step.  The hasher is abstracted, as in    *)
(* QueryHash, to the bytes absorbed since SHA3Init.  X is given by its     *)
(* type and the bytes sqlite3_value_blob or sqlite3_value_text gives (the *)
(* conversion to text of a number is SQLite's).                            *)
(***************************************************************************)
EXTENDS Integers, Sequences

CONSTANTS
  Calls        \* the argument lists: [argc, size, x]

VARIABLES
  call,        \* this call's arguments
  result       \* the SQL function's result

vars == <<call, result>>

SHA3Sizes == {224, 256, 384, 512}

(* SIZE as a 64-bit integer [hi, lo] (lo the low 32 bits as a signed     *)
(* int); sqlite3_value_int keeps lo.                                       *)
ValueInt(a) == a.lo

Init == /\ call \in Calls
        /\ result = [kind |-> "none"]

(* Mutant: the NULL test made before the size check.                       *)
CallNullFirst ==
  LET iSize == IF call.argc = 1 THEN 256 ELSE ValueInt(call.size)
  IN /\ result = [kind |-> "none"]
     /\ result' = CASE call.x.type = "null" -> [kind |-> "null"]
                    [] iSize \notin SHA3Sizes -> [kind |-> "error", what |-> "size"]
                    [] OTHER -> [kind |-> "digest", size |-> iSize, stream |-> call.x.bytes]
     /\ UNCHANGED call

(* Mutant: the size check left out.                                        *)
CallNoSizeCheck ==
  LET iSize == IF call.argc = 1 THEN 256 ELSE ValueInt(call.size)
  IN /\ result = [kind |-> "none"]
     /\ result' = IF call.x.type = "null" THEN [kind |-> "null"]
                  ELSE [kind |-> "digest", size |-> iSize, stream |-> call.x.bytes]
     /\ UNCHANGED call

(* Lines 505-524: the size check, the NULL return (no result set is SQL   *)
(* NULL), then SHA3Init, one SHA3Update of the blob or text bytes          *)
(* (nByte of them) and SHA3Final.                                          *)
Call ==
  LET iSize == IF call.argc = 1 THEN 256 ELSE ValueInt(call.size)
  IN /\ result = [kind |-> "none"]
     /\ result' = CASE call.argc = 2 /\ iSize \notin SHA3Sizes
                         -> [kind |-> "error", what |-> "size"]
                    [] call.x.type = "null" -> [kind |-> "null"]
                    [] OTHER -> [kind |-> "digest", size |-> iSize, stream |-> call.x.bytes]
     /\ UNCHANGED call

Returned == result # [kind |-> "none"] /\ UNCHANGED vars

Next == Call \/ Returned

Spec == Init /\ [][Next]_vars

-----------------------------------------------------------------------------
(* Spec section 6 for sha3: a SIZE outside {224,256,384,512} is an error  *)
(* whatever X is; a NULL X gives NULL; otherwise the digest of the size   *)
(* asked for, over the blob bytes or the text.                             *)
ExpectedOutcome(c) ==
  CASE c.argc = 2 /\ ~(c.size.hi = 0 /\ c.size.lo \in SHA3Sizes)
         -> [kind |-> "error", what |-> "size"]
    [] c.x.type = "null" -> [kind |-> "null"]
    [] OTHER -> [kind |-> "digest", size |-> IF c.argc = 1 THEN 256 ELSE c.size.lo,
                 stream |-> c.x.bytes]

TypeOK ==
  /\ call \in Calls
  /\ result.kind \in {"none", "error", "null", "digest"}
  /\ result.kind = "digest" => result.size \in SHA3Sizes
==============================================================================
