--------------------------- MODULE MC_KeccakF1600 ---------------------------
(***************************************************************************)
(* Model-checks KeccakF1600Step on the first (and only) block of published *)
(* SHA3 test vectors: the empty message at all four sizes and "abc" at     *)
(* SHA3-256.  The block is the message followed by the SHA3 padding        *)
(* 0x06 ... 0x80, absorbed into the zero state, so one permutation yields  *)
(* the digest in the first bytes of the state.                             *)
(***************************************************************************)
EXTENDS KeccakF1600, Sequences

VARIABLE input   \* history: the block the permutation was started on

(* The published vectors (FIPS 202 examples).                             *)
Vectors == {
  [msg |-> <<>>, rate |-> 144,
   digest |-> << \H6B, \H4E, \H03, \H42, \H36, \H67, \HDB, \HB7, \H3B, \H6E, \H15, \H45,
        \H4F, \H0E, \HB1, \HAB, \HD4, \H59, \H7F, \H9A, \H1B, \H07, \H8E, \H3F,
        \H5B, \H5A, \H6B, \HC7 >>],
  [msg |-> <<>>, rate |-> 136,
   digest |-> << \HA7, \HFF, \HC6, \HF8, \HBF, \H1E, \HD7, \H66, \H51, \HC1, \H47, \H56,
        \HA0, \H61, \HD6, \H62, \HF5, \H80, \HFF, \H4D, \HE4, \H3B, \H49, \HFA,
        \H82, \HD8, \H0A, \H4B, \H80, \HF8, \H43, \H4A >>],
  [msg |-> <<>>, rate |-> 104,
   digest |-> << \H0C, \H63, \HA7, \H5B, \H84, \H5E, \H4F, \H7D, \H01, \H10, \H7D, \H85,
        \H2E, \H4C, \H24, \H85, \HC5, \H1A, \H50, \HAA, \HAA, \H94, \HFC, \H61,
        \H99, \H5E, \H71, \HBB, \HEE, \H98, \H3A, \H2A, \HC3, \H71, \H38, \H31,
        \H26, \H4A, \HDB, \H47, \HFB, \H6B, \HD1, \HE0, \H58, \HD5, \HF0, \H04 >>],
  [msg |-> <<>>, rate |-> 72,
   digest |-> << \HA6, \H9F, \H73, \HCC, \HA2, \H3A, \H9A, \HC5, \HC8, \HB5, \H67, \HDC,
        \H18, \H5A, \H75, \H6E, \H97, \HC9, \H82, \H16, \H4F, \HE2, \H58, \H59,
        \HE0, \HD1, \HDC, \HC1, \H47, \H5C, \H80, \HA6, \H15, \HB2, \H12, \H3A,
        \HF1, \HF5, \HF9, \H4C, \H11, \HE3, \HE9, \H40, \H2C, \H3A, \HC5, \H58,
        \HF5, \H00, \H19, \H9D, \H95, \HB6, \HD3, \HE3, \H01, \H75, \H85, \H86,
        \H28, \H1D, \HCD, \H26 >>],
  [msg |-> << \H61, \H62, \H63 >>, rate |-> 136,
   digest |-> << \H3A, \H98, \H5D, \HA7, \H4F, \HE2, \H25, \HB2, \H04, \H5C, \H17, \H2D,
        \H6B, \HD3, \H90, \HBD, \H85, \H5F, \H08, \H6E, \H3E, \H9D, \H52, \H5B,
        \H46, \HBF, \HE2, \H45, \H11, \H43, \H15, \H32 >>] }

(* The padded block as 1600 state bits: byte k is bits 8k..8k+7 of the    *)
(* little-endian lane k \div 8.                                           *)
PaddedByte(v, k) ==
  LET m == IF k < Len(v.msg) THEN v.msg[k + 1] ELSE 0
      d == IF k = Len(v.msg) THEN 6 ELSE 0
      e == IF k = v.rate - 1 THEN 128 ELSE 0
  IN m + d + e
Block(v) == [b \in StateBits |-> (PaddedByte(v, b \div 8) \div 2^(b % 8)) % 2]

MCInitStates == {Block(v) : v \in Vectors}

StateByte(u, k) ==
  LET RECURSIVE FromBit(_)
      FromBit(z) == IF z = 8 THEN 0 ELSE u[8 * k + z] + 2 * FromBit(z + 1)
  IN FromBit(0)

MCInit == Init /\ input = s
MCNext == Next /\ UNCHANGED input
MCSpec == MCInit /\ [][MCNext]_<<vars, input>>

(* After the 24 rounds the first bytes of the state are the published     *)
(* digest: the unrolled rounds, the lane naming, the rotation offsets and  *)
(* the round constants of KeccakF1600Step are all right.                  *)
KnownAnswer ==
  i = 24 => \A v \in Vectors :
              input = Block(v) =>
                \A k \in 0..Len(v.digest) - 1 : StateByte(s, k) = v.digest[k + 1]
==============================================================================
