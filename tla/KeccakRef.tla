------------------------------ MODULE KeccakRef ------------------------------
(***************************************************************************)
(* Abstract specification of Keccak-f[1600]: what KeccakF1600Step promises. *)
(* The state is 25 logical lanes A[5*y + x] of 64 bits, each lane a        *)
(* function from bit positions to {0,1}.  One step applies one round       *)
(* Theta, Rho, Pi, Chi, Iota exactly as FIPS 202 states them.  The         *)
(* rotation offsets and round constants are the tables of spec section    *)
(* 4.1, and both tables are checked (ASSUME) against their FIPS 202        *)
(* definitions (the (x,y) walk and the degree-8 LFSR).                     *)
(***************************************************************************)
EXTENDS Integers
LOCAL INSTANCE Bitwise

CONSTANTS
  NR,          \* number of rounds (24 for Keccak-f[1600])
  InitStates   \* the states the permutation is applied to

VARIABLES
  A,           \* the 1600 state bits, lane 5*y + x at 64*(5*y + x)
  rnd          \* number of rounds applied so far

Bits  == 0..63
Lanes == 0..24
(* The state is flat: bit z of lane p is S[64 * p + z].                    *)
StateBits == 0..1599
Pos(p, z) == 64 * p + z

(* Rho offsets of FIPS 202 Table 2, lane 5*y + x (the same numbers as    *)
(* the table in spec section 4.1).                                        *)
RhoOffset == <<  0,  1, 62, 28, 27,
                36, 44,  6, 55, 20,
                 3, 10, 43, 25, 39,
                41, 45, 15, 21,  8,
                18,  2, 61, 56, 14 >>

(* The round constants as four 16-bit words, most significant first.      *)
RoundConstant ==
  << <<\H0000, \H0000, \H0000, \H0001>>, <<\H0000, \H0000, \H0000, \H8082>>,
     <<\H8000, \H0000, \H0000, \H808A>>, <<\H8000, \H0000, \H8000, \H8000>>,
     <<\H0000, \H0000, \H0000, \H808B>>, <<\H0000, \H0000, \H8000, \H0001>>,
     <<\H8000, \H0000, \H8000, \H8081>>, <<\H8000, \H0000, \H0000, \H8009>>,
     <<\H0000, \H0000, \H0000, \H008A>>, <<\H0000, \H0000, \H0000, \H0088>>,
     <<\H0000, \H0000, \H8000, \H8009>>, <<\H0000, \H0000, \H8000, \H000A>>,
     <<\H0000, \H0000, \H8000, \H808B>>, <<\H8000, \H0000, \H0000, \H008B>>,
     <<\H8000, \H0000, \H0000, \H8089>>, <<\H8000, \H0000, \H0000, \H8003>>,
     <<\H8000, \H0000, \H0000, \H8002>>, <<\H8000, \H0000, \H0000, \H0080>>,
     <<\H0000, \H0000, \H0000, \H800A>>, <<\H8000, \H0000, \H8000, \H000A>>,
     <<\H8000, \H0000, \H8000, \H8081>>, <<\H8000, \H0000, \H0000, \H8080>>,
     <<\H0000, \H0000, \H8000, \H0001>>, <<\H8000, \H0000, \H8000, \H8008>> >>

(* Bit z of the constant of round r.                                      *)
RCBit(r, z) == (RoundConstant[r + 1][4 - z \div 16] \div 2^(z % 16)) % 2

(* Both tables are checked against their FIPS 202 definitions. Rho: the   *)
(* lane reached after t steps of (x,y) -> (y, 2x+3y) from (1,0) is        *)
(* rotated by (t+1)(t+2)/2.  Iota: bit 2^k - 1 of the constant of round r *)
(* is rc(k + 7r), rc the output of the LFSR x^8 + x^6 + x^5 + x^4 + 1.     *)
RECURSIVE Walk(_)
Walk(t) == IF t = 0 THEN <<1, 0>>
           ELSE LET p == Walk(t - 1) IN <<p[2], (2 * p[1] + 3 * p[2]) % 5>>

RECURSIVE LFSR(_)
LFSR(t) == IF t = 0 THEN 1
           ELSE LET sh == 2 * LFSR(t - 1)
                IN IF sh >= 256 THEN (sh - 256) ^^ 113 ELSE sh

ASSUME \A t \in 0..23 :
         LET xy == Walk(t)
         IN RhoOffset[5 * xy[2] + xy[1] + 1] = (((t + 1) * (t + 2)) \div 2) % 64

ASSUME \A r \in 0..23, z \in Bits :
         RCBit(r, z) = IF \E k \in 0..6 : z = 2^k - 1
                       THEN LFSR(((CHOOSE k \in 0..6 : z = 2^k - 1) + 7 * r) % 255) % 2
                       ELSE 0

(* Theta: every bit is XORed with the parities of two neighbour columns.  *)
Theta(S) ==
  LET C(x, z) == (S[Pos(x, z)] + S[Pos(5+x, z)] + S[Pos(10+x, z)]
                  + S[Pos(15+x, z)] + S[Pos(20+x, z)]) % 2
      D(x, z) == (C((x + 4) % 5, z) + C((x + 1) % 5, (z - 1) % 64)) % 2
  IN [b \in StateBits |-> (S[b] + D((b \div 64) % 5, b % 64)) % 2]

(* Rho: lane p is rotated left by RhoOffset[p].                           *)
Rho(S) == [b \in StateBits |->
             LET p == b \div 64 IN S[Pos(p, ((b % 64) - RhoOffset[p + 1]) % 64)]]

(* Pi: the lane at (x,y) is the old lane at ((x + 3y) mod 5, x).          *)
Pi(S) == [b \in StateBits |->
            LET p == b \div 64
                x == p % 5
                y == p \div 5
            IN S[Pos(5 * x + ((x + 3 * y) % 5), b % 64)]]

(* Chi: a[x] ^= ~a[x+1] & a[x+2] along each row.                          *)
Chi(S) == [b \in StateBits |->
             LET p == b \div 64
                 x == p % 5
                 row == p - x
                 z == b % 64
             IN (S[b] + (1 - S[Pos(row + ((x + 1) % 5), z)])
                          * S[Pos(row + ((x + 2) % 5), z)]) % 2]

(* Iota: the round constant is XORed into lane (0,0).                     *)
Iota(S, r) == [b \in StateBits |->
                 IF b < 64 THEN (S[b] + RCBit(r, b)) % 2 ELSE S[b]]

Round(S, r) == Iota(Chi(Pi(Rho(Theta(S)))), r)

Init == /\ A \in InitStates
        /\ rnd = 0

Step == /\ rnd < NR
        /\ A' = Round(A, rnd)
        /\ rnd' = rnd + 1

Spec == Init /\ [][Step]_<<A, rnd>>
==============================================================================
