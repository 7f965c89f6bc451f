-------------------------------- MODULE Rng ---------------------------------
(***************************************************************************)
(* The generator of yaay-mt-runtime/src/rng.rs and the choices worker.rs   *)
(* makes with it.  A u32 is the set of the positions of its one bits.      *)
(***************************************************************************)
EXTENDS Naturals

Bit == 0 .. 31
U32 == SUBSET Bit

\* a ^ b, and a << k with the upper bits shifted out.
Xor(a, b) == (a \ b) \cup (b \ a)
Shl(a, k) == {i + k : i \in {j \in a : j + k \in Bit}}

next_seed(seed) ==
  LET a == Xor(seed, Shl(seed, 13))
      b == Xor(a, Shl(a, 17))
  IN  Xor(b, Shl(b, 5))

\* The byte of the word that starts at bit k.
Byte(s, k) ==
  LET b(i) == IF k + i \in s THEN 1 ELSE 0
  IN  b(0) + 2 * b(1) + 4 * b(2) + 8 * b(3) + 16 * b(4) + 32 * b(5) + 64 * b(6) + 128 * b(7)

\* seed % m, byte by byte: 2^31 is beyond TLC's integers.
Mod(s, m) ==
  LET hi(r, k) == (r * 256 + Byte(s, k)) % m
  IN  hi(hi(hi(hi(0, 24), 16), 8), 0)

\* The bits that no shift of next_seed reaches.
Low == 0 .. 4
=============================================================================
