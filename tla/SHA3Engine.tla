------------------------------ MODULE SHA3Engine ------------------------------
(***************************************************************************)
(* The SHA3 hash engine of shathree.c: the SHA3Context structure (lines   *)
(* 67-76), SHA3Init (403-426), SHA3Update (432-464) and SHA3Final          *)
(* (471-487), driven by a caller that feeds a message in chunks of any     *)
(* length from buffers of any alignment and then finalises once.          *)
(*                                                                         *)
(* Data abstraction.  KeccakF1600Step is a bijection on the 1600-bit       *)
(* state and is checked on its own (module KeccakF1600).  Here the state   *)
(* u.x[] is represented by the list of blocks already permuted, each as   *)
(* the 200 logical bytes it held when KeccakF1600Step ran, and by the     *)
(* bytes XORed into u.x[] since then, at their memory addresses.  Two      *)
(* contexts hold the same state exactly when these agree, so a digest is   *)
(* the list of permuted blocks together with the logical state bytes the   *)
(* squeeze copies out.                                                     *)
(*                                                                         *)
(* Byte order.  A build fixes SHA3_BYTEORDER (lines 50-61: 1234, 4321, or  *)
(* 0 for a run-time test) and runs on a machine that is little or big      *)
(* endian.  The machine decides which byte of which lane a memory address  *)
(* is: the logical byte k (bits 8*(k%8).. of lane k/8) sits at address k   *)
(* on a little-endian machine and at 8*(k/8) + 7 - k%8 on a big-endian one.*)
(***************************************************************************)
EXTENDS Integers, Sequences
LOCAL INSTANCE Bitwise

CONSTANTS
  Builds,   \* records [order |-> SHA3_BYTEORDER, machine |-> "LE" or "BE"]
  Sizes,    \* the iSize values the caller passes to SHA3Init
  Msg,      \* the bytes the caller hashes
  Chunks    \* the nData of the caller's SHA3Update calls

ASSUME Sizes \subseteq {224, 256, 384, 512}

VARIABLES
  build,    \* the build and machine the code runs on
  iSize,    \* the size the caller asked for
  cx,       \* the SHA3Context: [u, perms, nRate, nLoaded, ixMask]
  fed,      \* bytes of Msg passed to SHA3Update so far
  phase,    \* "absorb" until SHA3Final has been called, then "final"
  digest    \* the iSize/8 bytes the caller takes from SHA3Final's result

vars == <<build, iSize, cx, fed, phase, digest>>

StateBytes == 0..199
NoBytes    == CHOOSE f \in [StateBytes -> {0}] : TRUE   \* the zero state

(* The address of logical state byte k on the machine (an involution, so  *)
(* it also gives the logical byte held at an address).                    *)
Addr(k) == IF build.machine = "LE" THEN k ELSE 8 * (k \div 8) + 7 - (k % 8)

(* The 200 bytes at the addresses u, in the lanes' logical byte order.    *)
LogicalBytes(u) == [k \in StateBytes |-> u[Addr(k)]]

-----------------------------------------------------------------------------
(* SHA3Init (lines 403-426): memset, nRate from iSize rounded up to 32     *)
(* bits (or 256 bits outside 128..512), ixMask from the byte order.       *)
SHA3Init(size) ==
  [u       |-> NoBytes,
   perms   |-> <<>>,
   nRate   |-> IF size >= 128 /\ size <= 512
               THEN (1600 - ((size + 31) \div 32) * 32 * 2) \div 8
               ELSE (1600 - 2 * 256) \div 8,
   nLoaded |-> 0,
   ixMask  |-> CASE build.order = 1234 -> 0
                 [] build.order = 4321 -> 7
                 [] OTHER -> IF build.machine = "LE" THEN 0 ELSE 7]

(* KeccakF1600Step(p) followed by p->nLoaded = 0.                          *)
Permute(c) == [c EXCEPT !.perms = Append(@, LogicalBytes(c.u)),
                        !.u = NoBytes,
                        !.nLoaded = 0]

(* Lines 439-448, SHA3_BYTEORDER 1234 only: whole 64-bit words of aData   *)
(* XORed into u.s[nLoaded/8] while i+7 < nData.  A native word load and   *)
(* store keeps memory order, so data byte i+t lands at address nLoaded+t.  *)
RECURSIVE XorWord(_, _, _, _, _)
XorWord(u, at, data, i, t) ==
  IF t = 8 THEN u
  ELSE XorWord([u EXCEPT ![at + t] = @ ^^ data[i + 1 + t]], at, data, i, t + 1)

(* Mutant: the word loop permutes only once nLoaded > nRate.              *)
RECURSIVE WordLoopLate(_, _, _)
WordLoopLate(c, data, i) ==
  IF i + 7 < Len(data)
  THEN LET c1 == [c EXCEPT !.u = XorWord(@, c.nLoaded, data, i, 0),
                           !.nLoaded = @ + 8]
       IN IF c1.nLoaded > c1.nRate THEN WordLoopLate(Permute(c1), data, i + 8)
                                   ELSE WordLoopLate(c1, data, i + 8)
  ELSE <<c, i>>

RECURSIVE WordLoop(_, _, _)
WordLoop(c, data, i) ==
  IF i + 7 < Len(data)
  THEN LET c1 == [c EXCEPT !.u = XorWord(@, c.nLoaded, data, i, 0),
                           !.nLoaded = @ + 8]
       IN IF c1.nLoaded >= c1.nRate THEN WordLoop(Permute(c1), data, i + 8)
                                    ELSE WordLoop(c1, data, i + 8)
  ELSE <<c, i>>

(* The address byte nLoaded of the block is XORed into (lines 451-457).    *)
ByteAddr(c) == CASE build.order = 1234 -> c.nLoaded
                 [] build.order = 4321 -> c.nLoaded ^^ 7
                 [] OTHER -> c.nLoaded ^^ c.ixMask

(* Lines 450-463: the remaining bytes one at a time.                       *)
RECURSIVE ByteLoop(_, _, _)
ByteLoop(c, data, i) ==
  IF i < Len(data)
  THEN LET c1 == [c EXCEPT !.u[ByteAddr(c)] = @ ^^ data[i + 1],
                           !.nLoaded = @ + 1]
       IN IF c1.nLoaded = c1.nRate THEN ByteLoop(Permute(c1), data, i + 1)
                                  ELSE ByteLoop(c1, data, i + 1)
  ELSE c

(* SHA3Update(p, aData, nData); aligned is ((aData - 0) & 7) == 0.         *)
SHA3Update(c, data, aligned) ==
  LET w == IF build.order = 1234 /\ c.nLoaded % 8 = 0 /\ aligned
           THEN WordLoop(c, data, 0)
           ELSE <<c, 0>>
  IN ByteLoop(w[1], data, w[2])

(* Mutant: the 0x80 is XORed right after the 0x06, without the skip to    *)
(* nRate - 1.                                                             *)
SHA3PadNoSkip(c) ==
  IF c.nLoaded = c.nRate - 1
  THEN SHA3Update(c, <<134>>, FALSE)
  ELSE SHA3Update(SHA3Update(c, <<6>>, FALSE), <<128>>, FALSE)

(* SHA3Final padding (lines 473-482).                                      *)
SHA3Pad(c) ==
  IF c.nLoaded = c.nRate - 1
  THEN SHA3Update(c, <<134>>, FALSE)
  ELSE LET c2 == SHA3Update(c, <<6>>, FALSE)
       IN SHA3Update([c2 EXCEPT !.nLoaded = c2.nRate - 1], <<128>>, FALSE)

(* Lines 483-486 and the caller's iSize/8: byte k of the result is copied *)
(* from address k ^ ixMask of the state just permuted.                    *)
Squeeze(c, size) ==
  [perms |-> c.perms,
   bytes |-> [k \in 0..(size \div 8) - 1 |-> Addr(k ^^ c.ixMask)]]

-----------------------------------------------------------------------------

Init == /\ build \in Builds
        /\ iSize \in Sizes
        /\ cx = SHA3Init(iSize)
        /\ fed = 0
        /\ phase = "absorb"
        /\ digest = <<>>

(* The caller passes the next n bytes of Msg from a buffer that is or is  *)
(* not 8-byte aligned.                                                    *)
Update == /\ phase = "absorb"
          /\ \E n \in Chunks, aligned \in BOOLEAN :
               /\ fed + n <= Len(Msg)
               /\ cx' = SHA3Update(cx, SubSeq(Msg, fed + 1, fed + n), aligned)
               /\ fed' = fed + n
          /\ UNCHANGED <<build, iSize, phase, digest>>

(* SHA3Final: pad, permute, squeeze.                                       *)
Final == /\ phase = "absorb"
         /\ cx' = SHA3Pad(cx)
         /\ digest' = Squeeze(cx', iSize)
         /\ phase' = "final"
         /\ UNCHANGED <<build, iSize, fed>>

(* The hash is complete; the context is not used again.                    *)
Finished == /\ phase = "final"
            /\ UNCHANGED vars

Next == Update \/ Final \/ Finished

Spec == Init /\ [][Next]_vars

-----------------------------------------------------------------------------
(* SHA3 as spec sections 4.2-4.3 define it: the message, then 0x06, zero   *)
(* or more 0x00 and a final 0x80 (0x86 when they meet), split into blocks  *)
(* of rate = (1600 - 2 * size) / 8 bytes, each absorbed into the first     *)
(* rate logical bytes; the digest is the first size/8 logical bytes.       *)
SHA3Blocks(m, size) ==
  LET rate == (1600 - 2 * size) \div 8
      nb   == Len(m) \div rate + 1
      Pad(k) == (IF k < Len(m) THEN m[k + 1] ELSE 0)
                + (IF k = Len(m) THEN 6 ELSE 0)
                + (IF k = nb * rate - 1 THEN 128 ELSE 0)
  IN [b \in 1..nb |-> [k \in StateBytes |->
                         IF k < rate THEN Pad((b - 1) * rate + k) ELSE 0]]

SHA3Digest(m, size) ==
  [perms |-> SHA3Blocks(m, size), bytes |-> [k \in 0..(size \div 8) - 1 |-> k]]

(* The SHA3Context type of spec section 3, with its bound on nLoaded:     *)
(* nLoaded == nRate never persists, whichever of the word and byte loops  *)
(* reaches it; otherwise the next byte lands beyond the rate.             *)
TypeOK ==
  /\ cx.u \in [StateBytes -> 0..255]
  /\ cx.nRate \in {72, 104, 136, 144}
  /\ cx.nLoaded \in 0..(cx.nRate - 1)
  /\ cx.ixMask \in {0, 7}
  /\ fed \in 0..Len(Msg)
  /\ phase \in {"absorb", "final"}

(* Whatever the chunking, the buffer alignment, the build and the byte     *)
(* order of the machine, the digest SHA3Final returns is SHA3 of the bytes *)
(* passed to SHA3Update.                                                  *)
DigestIsSHA3 == phase = "final" => digest = SHA3Digest(SubSeq(Msg, 1, fed), iSize)

==============================================================================
