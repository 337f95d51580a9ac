-------------------------------- MODULE Fp16 --------------------------------
(***************************************************************************)
(* src/fp.rs: the conversion of a binary32 bit pattern to binary16 that    *)
(* recast and remix cast every element with.  A pattern is split into its  *)
(* sign and its magnitude, the pattern with the sign bit cleared: patterns *)
(* of one sign are ordered as the numbers they encode, so that what is     *)
(* nearest can be said of patterns alone.                                  *)
(***************************************************************************)
EXTENDS Integers

CONSTANTS
  Bf16,  \* bfloat16 magnitudes to convert
  F32    \* binary32 magnitudes to convert

MaxF32 == 255 * 2^23 + 2^23 - 1

ASSUME Fp16Assumption == Bf16 \subseteq 0..(2^15 - 1) /\ F32 \subseteq 0..MaxF32

VARIABLES
  sign,  \* sign bit, 0 or 1
  bits,  \* the binary32 magnitude
  half   \* the binary16 pattern, None before the conversion

vars == <<sign, bits, half>>

None == -1

INF32 == 255 * 2^23
INF16 == 31 * 2^10

bf16_to_f32_bits(b) == b * 2^16

-----------------------------------------------------------------------------
(* f32_to_f16_bits.                                                        *)

exp32(b) == b \div 2^23
man(b) == b % 2^23

\* Variant: ties go up.
rneUp(m, d) == IF m % d >= d \div 2 THEN m \div d + 1 ELSE m \div d

\* m shifted right by the bits of d = 2^shift, to the nearest, ties to even; the
\* increment may carry out of the mantissa.
rne(m, d) ==
  LET h    == m \div d
      rest == m % d
  IN  IF rest > d \div 2 \/ (rest = d \div 2 /\ h % 2 = 1) THEN h + 1 ELSE h

\* Variant: a payload without its upper bits is not mended.
NanBare(b) == INF16 + man(b) \div 2^13

\* The payload's upper bits are kept; if none is set, one is.
Nan(b) == IF man(b) \div 2^13 = 0 THEN INF16 + 1 ELSE INF16 + man(b) \div 2^13

\* The exponent rebiased.
e16(b) == exp32(b) - 112

\* Variant: the shift forgets that subnormals have the exponent of the least
\* normal numbers.
SubnormalLate(b) ==
  IF e16(b) < -10 THEN 0 ELSE rne(2^23 + man(b), 2^(13 - e16(b)))

\* The implicit bit becomes explicit; beyond 24 bits nothing is left.
Subnormal(b) ==
  IF e16(b) < -10 THEN 0 ELSE rne(2^23 + man(b), 2^(14 - e16(b)))

f32_to_f16_bits(b) ==
  IF exp32(b) = 255 THEN IF man(b) = 0 THEN INF16 ELSE Nan(b)
  ELSE IF e16(b) >= 31 THEN INF16
  ELSE IF e16(b) <= 0 THEN Subnormal(b)
  ELSE rne(e16(b) * 2^23 + man(b), 2^13)

-----------------------------------------------------------------------------
Init == /\ sign \in {0, 1}
        /\ bits \in {bf16_to_f32_bits(b) : b \in Bf16} \cup F32
        /\ half = None

Convert == /\ half = None
           /\ half' = sign * 2^15 + f32_to_f16_bits(bits)
           /\ UNCHANGED <<sign, bits>>

Next == Convert

Spec == Init /\ [][Next]_vars

-----------------------------------------------------------------------------
(* Properties.                                                             *)

\* The reference: the binary32 pattern of the number that q encodes in a format
\* like binary16 with one mantissa bit more.  That number is exact: even q are
\* the binary16 numbers, odd ones the midpoints between neighbours.
Log2(q) == CHOOSE p \in 0..10 : 2^p <= q /\ q < 2^(p + 1)
Widen(q) ==
  IF q >= 2^11 THEN 112 * 2^23 + q * 2^12
  ELSE IF q = 0 THEN 0
  ELSE LET p == Log2(q) IN (p + 102) * 2^23 + (q - 2^p) * 2^(23 - p)

\* Where rounding turns from n to its successor.
Mid(n) == Widen(2 * n + 1)

\* h is the binary16 number nearest to b, the even one of two equally near; the
\* successor of the greatest finite number is infinity.
NearestEven(b, h) ==
  /\ h \in 0..INF16
  /\ h > 0 => b > Mid(h - 1) \/ (b = Mid(h - 1) /\ h % 2 = 0)
  /\ h < INF16 => b < Mid(h) \/ (b = Mid(h) /\ h % 2 = 0)

Magnitude == half % 2^15

\* Every number becomes the nearest binary16 number of its sign, ties to even,
\* through the carries of the increment from the subnormals to the normals,
\* into the exponent and to infinity.
RoundsToNearestEven ==
  half # None /\ bits <= INF32 =>
     half \div 2^15 = sign /\ NearestEven(bits, Magnitude)

\* A NaN stays a NaN of its sign: a payload whose upper bits vanish does not
\* make it an infinity, and none runs into the sign.
NanStaysNan ==
  half # None /\ bits > INF32 =>
     /\ half \div 2^15 = sign
     /\ Magnitude \in (INF16 + 1)..(INF16 + 2^10 - 1)
=============================================================================
