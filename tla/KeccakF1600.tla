----------------------------- MODULE KeccakF1600 -----------------------------
(***************************************************************************)
(* KeccakF1600Step (shathree.c lines 81-396): the hand-unrolled Keccak-f   *)
(* permutation.  The loop runs i = 0, 4, ..., 20 and its body is four      *)
(* rounds written out in full.  Each round computes the column parities    *)
(* DTC0..4 and the Theta terms DTD0..4 from the lanes as they are at the   *)
(* start of the round, then runs five groups of statements; a group loads  *)
(* five lanes, each XORed with its DTD and rotated, into DTB0..4 and       *)
(* writes the Chi of DTB0..4 back into the same five lanes, in place.      *)
(* Because the lanes are written back where they were read, the logical    *)
(* position held by a physical lane changes from round to round and comes  *)
(* back to the identity after four rounds; the tables below are the lane   *)
(* names each group of the code uses.                                      *)
(*                                                                         *)
(* The state is flat: bit z of lane p = s[p] is s[64 * p + z].  One step  *)
(* of the model is one of the four unrolled rounds.                       *)
(***************************************************************************)
EXTENDS Integers

CONSTANT InitStates   \* the contexts KeccakF1600Step is called on

VARIABLES
  s,     \* p->u.s[], as 1600 bits
  i,     \* the loop counter i (0, 4, ..., 24)
  j      \* which of the four unrolled rounds of the loop body is next

vars == <<s, i, j>>

StateBits == 0..1599
Bits      == 0..63
Bit(p, z) == 64 * p + z

(* RC[] (lines 86-99), each constant as four 16-bit words, most           *)
(* significant first.                                                     *)
RC ==
  << <<\H0000, \H0000, \H0000, \H0001>>, <<\H0000, \H0000, \H0000, \H8082>>,
     <<\H8000, \H0000, \H0000, \H808A>>, <<\H8000, \H0000, \H8000, \H8000>>,
     <<\H0000, \H0000, \H0000, \H808B>>, <<\H0000, \H0000, \H8000, \H0001>>,
     <<\H8000, \H0000, \H8000, \H8081>>, <<\H8000, \H0000, \H0000, \H8009>>,
     <<\H0000, \H0000, \H0000, \H008A>>, <<\H0000, \H0000, \H0000, \H0088>>,
     <<\H0000, \H0000, \H8000, \H8009>>, <<\H0000, \H0000, \H8000, \H000A>>,
     <<\H0000, \H0000, \H8000, \H808B>>, <<\H8000, \H0000, \H0000, \H008B>>,
     <<\H8000, \H0000, \H0000, \H8089>>, <<\H8000, \H0000, \H0000, \H8003>>,
     <<\H8000, \H0000, \H0000, \H8002>>, <<\H8000, \H0000, \H0000, \H0080>>,
     <<\H0000, \H0000, \H0000, \H800A>>, <<\H8000, \H0000, \H8000, \H000A>>,
     <<\H8000, \H0000, \H8000, \H8081>>, <<\H8000, \H0000, \H0000, \H8080>>,
     <<\H0000, \H0000, \H8000, \H0001>>, <<\H8000, \H0000, \H8000, \H8008>> >>

(* Mutant: RC[i] XORed in all four unrolled rounds (a copy-paste slip).   *)
RCBitSameInBody(n, z) == (RC[(n - (n % 4)) + 1][4 - z \div 16] \div 2^(z % 16)) % 2

RCBit(n, z) == (RC[n + 1][4 - z \div 16] \div 2^(z % 16)) % 2

(* DTAab is p->u.s[5*a + b] (lines 100-124).  DTA[r][g] lists the lanes   *)
(* group g of unrolled round r reads and overwrites, in the order of the  *)
(* DTD0..DTD4 they are XORed with (e.g. round 0, group 1 is lines 151-160: *)
(* DTA20, DTA31, DTA42, DTA03, DTA14).                                    *)
DTA ==
  << << <<0, 6, 12, 18, 24>>, <<10, 16, 22, 3, 9>>, <<20, 1, 7, 13, 19>>,
        <<5, 11, 17, 23, 4>>, <<15, 21, 2, 8, 14>> >>,
     << <<0, 16, 7, 23, 14>>, <<20, 11, 2, 18, 9>>, <<15, 6, 22, 13, 4>>,
        <<10, 1, 17, 8, 24>>, <<5, 21, 12, 3, 19>> >>,
     << <<0, 11, 22, 8, 19>>, <<15, 1, 12, 23, 9>>, <<5, 16, 2, 13, 24>>,
        <<20, 6, 17, 3, 14>>, <<10, 21, 7, 18, 4>> >>,
     << <<0, 1, 2, 3, 4>>, <<5, 6, 7, 8, 9>>, <<10, 11, 12, 13, 14>>,
        <<15, 16, 17, 18, 19>>, <<20, 21, 22, 23, 24>> >> >>

(* ROL64 amounts of the lane XORed with DTDd in group g; the same in all  *)
(* four unrolled rounds (e.g. lines 139-143: 0, 44, 43, 21, 14).          *)
ROT == << <<0, 44, 43, 21, 14>>, <<3, 45, 61, 28, 20>>, <<18, 1, 6, 25, 8>>,
          <<36, 10, 15, 56, 27>>, <<41, 2, 62, 55, 39>> >>

(* The lane XORed with DTDd in group g is loaded into DTB[(d + k) % 5],    *)
(* k = DTBShift[g] (group 1 of each round starts with DTB2 = ...).        *)
DTBShift == <<0, 2, 4, 1, 3>>

(* Lines 128-137: DTCx is the parity of the lanes DTA?x, and              *)
(* DTDx = DTC(x-1) ^ ROL64(DTC(x+1), 1); u is the state at round start.   *)
DTC(u, x, z) == (u[Bit(x, z)] + u[Bit(5 + x, z)] + u[Bit(10 + x, z)]
                 + u[Bit(15 + x, z)] + u[Bit(20 + x, z)]) % 2
(* Mutant: the two neighbour columns of DTDx swapped.                     *)
DTDSwapped(u, x, z) == (DTC(u, (x + 1) % 5, z) + DTC(u, (x + 4) % 5, (z - 1) % 64)) % 2
DTD(u, x, z) == (DTC(u, (x + 4) % 5, z) + DTC(u, (x + 1) % 5, (z - 1) % 64)) % 2

(* One group of five statements pairs (e.g. lines 139-149): DTBk is        *)
(* ROL64(lane ^ DTDd, rot) and lane k becomes DTBk ^ (~DTB(k+1) & DTB(k+2)),*)
(* with RC[n] XORed into DTA00 in group 0.  Lanes of the group are read    *)
(* from t, the state left by the groups before it.                        *)
Group(u, t, r, g, n) ==
  LET L(d) == DTA[r + 1][g + 1][d + 1]
      DTB(k, z) ==
        LET d   == (k - DTBShift[g + 1]) % 5
            rot == ROT[g + 1][d + 1]
        IN (t[Bit(L(d), (z - rot) % 64)] + DTD(u, d, (z - rot) % 64)) % 2
      Out(k, z) == (DTB(k, z) + (1 - DTB((k + 1) % 5, z)) * DTB((k + 2) % 5, z)
                    + (IF g = 0 /\ k = 0 THEN RCBit(n, z) ELSE 0)) % 2
  IN [b \in StateBits |->
        LET p == b \div 64
            z == b % 64
        IN CASE p = L(0) -> Out(0, z)
             [] p = L(1) -> Out(1, z)
             [] p = L(2) -> Out(2, z)
             [] p = L(3) -> Out(3, z)
             [] p = L(4) -> Out(4, z)
             [] OTHER    -> t[b]]

(* One unrolled round r of the body with round constant RC[n]: the five   *)
(* groups in the order the code runs them.                                *)
RECURSIVE Groups(_, _, _, _, _)
Groups(u, t, r, g, n) ==
  IF g = 5 THEN t ELSE Groups(u, Group(u, t, r, g, n), r, g + 1, n)

UnrolledRound(u, r, n) == Groups(u, u, r, 0, n)

-----------------------------------------------------------------------------

Init == /\ s \in InitStates
        /\ i = 0
        /\ j = 0

(* Mutant: the loop counter advanced by one instead of four.              *)
RoundStepOne == /\ i < 24
                /\ s' = UnrolledRound(s, j, i + j)
                /\ IF j = 3 THEN i' = i + 1 /\ j' = 0
                            ELSE i' = i /\ j' = j + 1

(* Round i + j of the permutation: the j-th quarter of the loop body.     *)
Round == /\ i < 24
         /\ s' = UnrolledRound(s, j, i + j)
         /\ IF j = 3 THEN i' = i + 4 /\ j' = 0
                     ELSE i' = i /\ j' = j + 1

(* The loop has ended and KeccakF1600Step has returned.                   *)
Returned == /\ i = 24
            /\ UNCHANGED vars

Next == Round \/ Returned

Spec == Init /\ [][Next]_vars

-----------------------------------------------------------------------------
(* Refinement mapping.  Before unrolled round r, the lane XORed with DTDx  *)
(* in group g holds the logical lane (x, y) with y = (x + DTBShift[g]) % 5;*)
(* Logical(u, r) rearranges the physical lanes into logical order.        *)
PhysicalLane(r, p) ==
  LET x == p % 5
      y == p \div 5
      g == CHOOSE g \in 0..4 : (x + DTBShift[g + 1]) % 5 = y
  IN DTA[r + 1][g + 1][x + 1]

Logical(u, r) == [b \in StateBits |-> u[Bit(PhysicalLane(r, b \div 64), b % 64)]]

Ref == INSTANCE KeccakRef WITH NR <- 24, A <- Logical(s, j), rnd <- i + j

(* The unrolled, in-place code computes exactly the FIPS 202 rounds: each *)
(* step of KeccakF1600Step is a step of the reference permutation, so     *)
(* after the loop the state is Keccak-f[1600] of the input.               *)
RefinesKeccakF == Ref!Spec

TypeOK == /\ s \in [StateBits -> {0, 1}]
          /\ i \in {0, 4, 8, 12, 16, 20, 24}
          /\ j \in 0..3
==============================================================================
