----------------------------- MODULE RngProofs ------------------------------
(***************************************************************************)
(* What next_seed of yaay-mt-runtime/src/rng.rs never changes.             *)
(***************************************************************************)
EXTENDS Rng, TLAPS

\* x ^ (x << k) has the low bits of x when k is at least 5.
LEMMA ShiftKeepsLow ==
  ASSUME NEW s \in U32, NEW k \in Nat, k >= 5
  PROVE  /\ Xor(s, Shl(s, k)) \in U32
         /\ Xor(s, Shl(s, k)) \cap Low = s \cap Low
<1> DEFINE d == Shl(s, k)
<1>1. s \subseteq Bit /\ d \subseteq Bit
  BY DEF Shl, U32
<1>2. \A i \in Low : i \notin d
  <2>1. \A i \in d : i >= 5  BY DEF Shl, U32, Bit
  <2> QED BY <2>1 DEF Low
<1> HIDE DEF d
<1>3. Xor(s, d) \subseteq Bit
  BY <1>1 DEF Xor
<1>4. \A i : i \in Xor(s, d) \cap Low <=> i \in s \cap Low
  BY <1>2 DEF Xor
<1>5. Xor(s, d) \in U32 /\ Xor(s, d) \cap Low = s \cap Low
  BY <1>3, <1>4 DEF U32
<1> QED
  BY <1>5 DEF d

\* next_seed maps words to words and keeps their five low bits: for every seed,
\* all its successors agree with it modulo 2, 4, 8, 16 and 32.
THEOREM LowBitsNeverChange ==
  ASSUME NEW s \in U32
  PROVE  next_seed(s) \in U32 /\ next_seed(s) \cap Low = s \cap Low
<1> DEFINE a == Xor(s, Shl(s, 13))
           b == Xor(a, Shl(a, 17))
<1>1. a \in U32 /\ a \cap Low = s \cap Low
  BY ShiftKeepsLow
<1>2. b \in U32 /\ b \cap Low = a \cap Low
  BY <1>1, ShiftKeepsLow
<1>3. Xor(b, Shl(b, 5)) \in U32 /\ Xor(b, Shl(b, 5)) \cap Low = b \cap Low
  BY <1>2, ShiftKeepsLow
<1>4. next_seed(s) = Xor(b, Shl(b, 5))
  BY DEF next_seed
<1> QED
  BY <1>1, <1>2, <1>3, <1>4

LEMMA ByteRange ==
  ASSUME NEW s, NEW k \in Nat
  PROVE  Byte(s, k) \in Nat
BY DEF Byte

\* seed % m is an index below m.
LEMMA ModRange ==
  ASSUME NEW s, NEW m \in Nat \ {0}
  PROVE  Mod(s, m) \in 0 .. m - 1
<1> DEFINE hi(r, k) == (r * 256 + Byte(s, k)) % m
<1>1. ASSUME NEW r \in Nat, NEW k \in Nat PROVE  hi(r, k) \in 0 .. m - 1
  <2>1. r * 256 + Byte(s, k) \in Nat  BY ByteRange
  <2> QED BY <2>1
<1>2. hi(0, 24) \in 0 .. m - 1  BY <1>1
<1>3. hi(hi(0, 24), 16) \in 0 .. m - 1  BY <1>1, <1>2
<1>4. hi(hi(hi(0, 24), 16), 8) \in 0 .. m - 1  BY <1>1, <1>3
<1>5. hi(hi(hi(hi(0, 24), 16), 8), 0) \in 0 .. m - 1  BY <1>1, <1>4
<1> QED BY <1>5 DEF Mod

\* Adding a multiple of 32 changes nothing modulo a divisor of 32.
LEMMA DividesThirtyTwo ==
  ASSUME NEW m \in Nat \ {0}, 32 % m = 0, NEW a \in Nat, NEW b \in Nat
  PROVE  (32 * a + b) % m = b % m
<1>1. m \in {1, 2, 4, 8, 16, 32}
  <2>1. m <= 32  OBVIOUS
  <2>2. \A j \in 1 .. 32 : 32 % j = 0 => j \in {1, 2, 4, 8, 16, 32}  OBVIOUS
  <2> QED BY <2>1, <2>2
<1>2. CASE m = 1  BY <1>2
<1>3. CASE m = 2  BY <1>3
<1>4. CASE m = 4  BY <1>4
<1>5. CASE m = 8  BY <1>5
<1>6. CASE m = 16  BY <1>6
<1>7. CASE m = 32  BY <1>7
<1> QED BY <1>1, <1>2, <1>3, <1>4, <1>5, <1>6, <1>7

\* Modulo a divisor of 32, only the five low bits of a word count.
LEMMA LowDecidesMod ==
  ASSUME NEW s, NEW t, s \cap Low = t \cap Low, NEW m \in Nat \ {0}, 32 % m = 0
  PROVE  Mod(s, m) = Mod(t, m)
<1> DEFINE b(w, i) == IF i \in w THEN 1 ELSE 0
           five(w) == b(w, 0) + 2 * b(w, 1) + 4 * b(w, 2) + 8 * b(w, 3) + 16 * b(w, 4)
           rest(w) == b(w, 5) + 2 * b(w, 6) + 4 * b(w, 7)
           hi(w, r, k) == (r * 256 + Byte(w, k)) % m
           high(w) == hi(w, hi(w, hi(w, 0, 24), 16), 8)
<1>1. ASSUME NEW w PROVE  Mod(w, m) = five(w) % m
  <2>1. high(w) \in Nat
    <3>1. ASSUME NEW r \in Nat, NEW k \in Nat PROVE  hi(w, r, k) \in Nat
      <4>1. r * 256 + Byte(w, k) \in Nat  BY ByteRange
      <4> QED BY <4>1
    <3>2. hi(w, 0, 24) \in Nat  BY <3>1
    <3>3. hi(w, hi(w, 0, 24), 16) \in Nat  BY <3>1, <3>2
    <3> QED BY <3>1, <3>3
  <2>2. five(w) \in Nat /\ rest(w) \in Nat  OBVIOUS
  <2>3. Byte(w, 0) = five(w) + 32 * rest(w)  BY DEF Byte
  <2>4. Mod(w, m) = (high(w) * 256 + Byte(w, 0)) % m  BY DEF Mod
  <2> HIDE DEF high, five, rest
  <2>5. high(w) * 256 + Byte(w, 0) = 32 * (8 * high(w) + rest(w)) + five(w)
    BY <2>1, <2>2, <2>3
  <2>6. 8 * high(w) + rest(w) \in Nat  BY <2>1, <2>2
  <2> QED BY <2>2, <2>4, <2>5, <2>6, DividesThirtyTwo
<1>2. \A i \in Low : i \in s <=> i \in t  OBVIOUS
<1>3. five(s) = five(t)  BY <1>2 DEF Low
<1> QED BY <1>1, <1>3

=============================================================================
