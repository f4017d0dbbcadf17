---------------------------- MODULE MC_SHA3Engine ----------------------------
EXTENDS SHA3Engine

(* The builds that are right about their machine: compile-time 1234 on a  *)
(* little-endian machine, 4321 on a big-endian one, and the run-time test *)
(* (SHA3_BYTEORDER=0) on both.                                            *)
MCBuilds == { [order |-> 1234, machine |-> "LE"],
              [order |-> 4321, machine |-> "BE"],
              [order |-> 0,    machine |-> "LE"],
              [order |-> 0,    machine |-> "BE"] }

(* A big-endian ARM build: GCC defines __arm__ there too (with __ARMEB__),*)
(* so line 54 selects SHA3_BYTEORDER 1234 on a big-endian machine.        *)
BigEndianArm == { [order |-> 1234, machine |-> "BE"] }

(* 150 distinct bytes: long enough for nLoaded = nRate - 1 at every rate  *)
(* (71, 103, 135, 143) and for two permutations at rate 72.               *)
MCMsg == [k \in 1..150 |-> (37 * k) % 256]

(* Single bytes, whole words, a length that is not a multiple of 8, and  *)
(* 80, which from nLoaded = 70 at rate 72 permutes twice in one call.     *)
MCChunks == {1, 8, 13, 80}
==============================================================================
