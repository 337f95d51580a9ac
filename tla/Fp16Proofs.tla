----------------------------- MODULE Fp16Proofs -----------------------------
(***************************************************************************)
(* Theorems about Fp16, for every binary32 input: TLC tries the bfloat16   *)
(* domain and the ties, these proofs leave no pattern out.                 *)
(*                                                                         *)
(* The argument: rne(m, d) is nearest to m / d (Rne), as an inequality     *)
(* between 2m and odd multiples of d; each branch of f32_to_f16_bits turns *)
(* that inequality into one between the input and Mid.  Among the normals  *)
(* Widen is linear (NormalNearest).  A subnormal result h of the binade p  *)
(* has 2^p as its upper limit, and Mid(h) lies in the same binade or is    *)
(* the first beyond it (SubnormalNearest).                                 *)
(***************************************************************************)
EXTENDS Fp16, TLAPS

\* The powers of two that the code shifts and masks by.
LEMMA Powers ==
  ASSUME NEW n
  PROVE  /\ (n = 0 => 2^n = 1) /\ (n = 1 => 2^n = 2) /\ (n = 2 => 2^n = 4)
         /\ (n = 3 => 2^n = 8) /\ (n = 4 => 2^n = 16) /\ (n = 5 => 2^n = 32)
         /\ (n = 6 => 2^n = 64) /\ (n = 7 => 2^n = 128) /\ (n = 8 => 2^n = 256)
         /\ (n = 9 => 2^n = 512) /\ (n = 10 => 2^n = 1024) /\ (n = 11 => 2^n = 2048)
         /\ (n = 12 => 2^n = 4096) /\ (n = 13 => 2^n = 8192) /\ (n = 14 => 2^n = 16384)
         /\ (n = 15 => 2^n = 32768) /\ (n = 16 => 2^n = 65536) /\ (n = 17 => 2^n = 131072)
         /\ (n = 18 => 2^n = 262144) /\ (n = 19 => 2^n = 524288) /\ (n = 20 => 2^n = 1048576)
         /\ (n = 21 => 2^n = 2097152) /\ (n = 22 => 2^n = 4194304) /\ (n = 23 => 2^n = 8388608)
         /\ (n = 24 => 2^n = 16777216)
  <1>1. n = 0 => 2^n = 1
    <2>1. n = 0 => 2^n = 2^0
      BY Zenon
    <2> QED BY <2>1
  <1>2. n = 1 => 2^n = 2
    <2>1. n = 1 => 2^n = 2^1
      BY Zenon
    <2> QED BY <2>1
  <1>3. n = 2 => 2^n = 4
    <2>1. n = 2 => 2^n = 2^2
      BY Zenon
    <2> QED BY <2>1
  <1>4. n = 3 => 2^n = 8
    <2>1. n = 3 => 2^n = 2^3
      BY Zenon
    <2> QED BY <2>1
  <1>5. n = 4 => 2^n = 16
    <2>1. n = 4 => 2^n = 2^4
      BY Zenon
    <2> QED BY <2>1
  <1>6. n = 5 => 2^n = 32
    <2>1. n = 5 => 2^n = 2^5
      BY Zenon
    <2> QED BY <2>1
  <1>7. n = 6 => 2^n = 64
    <2>1. n = 6 => 2^n = 2^6
      BY Zenon
    <2> QED BY <2>1
  <1>8. n = 7 => 2^n = 128
    <2>1. n = 7 => 2^n = 2^7
      BY Zenon
    <2> QED BY <2>1
  <1>9. n = 8 => 2^n = 256
    <2>1. n = 8 => 2^n = 2^8
      BY Zenon
    <2> QED BY <2>1
  <1>10. n = 9 => 2^n = 512
    <2>1. n = 9 => 2^n = 2^9
      BY Zenon
    <2> QED BY <2>1
  <1>11. n = 10 => 2^n = 1024
    <2>1. n = 10 => 2^n = 2^10
      BY Zenon
    <2> QED BY <2>1
  <1>12. n = 11 => 2^n = 2048
    <2>1. n = 11 => 2^n = 2^11
      BY Zenon
    <2> QED BY <2>1
  <1>13. n = 12 => 2^n = 4096
    <2>1. n = 12 => 2^n = 2^12
      BY Zenon
    <2> QED BY <2>1
  <1>14. n = 13 => 2^n = 8192
    <2>1. n = 13 => 2^n = 2^13
      BY Zenon
    <2> QED BY <2>1
  <1>15. n = 14 => 2^n = 16384
    <2>1. n = 14 => 2^n = 2^14
      BY Zenon
    <2> QED BY <2>1
  <1>16. n = 15 => 2^n = 32768
    <2>1. n = 15 => 2^n = 2^15
      BY Zenon
    <2> QED BY <2>1
  <1>17. n = 16 => 2^n = 65536
    <2>1. n = 16 => 2^n = 2^16
      BY Zenon
    <2> QED BY <2>1
  <1>18. n = 17 => 2^n = 131072
    <2>1. n = 17 => 2^n = 2^17
      BY Zenon
    <2> QED BY <2>1
  <1>19. n = 18 => 2^n = 262144
    <2>1. n = 18 => 2^n = 2^18
      BY Zenon
    <2> QED BY <2>1
  <1>20. n = 19 => 2^n = 524288
    <2>1. n = 19 => 2^n = 2^19
      BY Zenon
    <2> QED BY <2>1
  <1>21. n = 20 => 2^n = 1048576
    <2>1. n = 20 => 2^n = 2^20
      BY Zenon
    <2> QED BY <2>1
  <1>22. n = 21 => 2^n = 2097152
    <2>1. n = 21 => 2^n = 2^21
      BY Zenon
    <2> QED BY <2>1
  <1>23. n = 22 => 2^n = 4194304
    <2>1. n = 22 => 2^n = 2^22
      BY Zenon
    <2> QED BY <2>1
  <1>24. n = 23 => 2^n = 8388608
    <2>1. n = 23 => 2^n = 2^23
      BY Zenon
    <2> QED BY <2>1
  <1>25. n = 24 => 2^n = 16777216
    <2>1. n = 24 => 2^n = 2^24
      BY Zenon
    <2> QED BY <2>1
  <1> QED BY <1>1, <1>2, <1>3, <1>4, <1>5, <1>6, <1>7, <1>8, <1>9, <1>10, <1>11, <1>12, <1>13,
            <1>14, <1>15, <1>16, <1>17, <1>18, <1>19, <1>20, <1>21, <1>22, <1>23, <1>24, <1>25

\* What the powers around binade p have to do with each other.
LEMMA Binade ==
  ASSUME NEW p \in 0..10
  PROVE  /\ 2^p \in 1..1024 /\ 2^(p + 1) = 2 * 2^p
         /\ 2^(24 - p) \in Nat /\ 2^(23 - p) \in Nat \ {0}
         /\ 2^(24 - p) = 2 * 2^(23 - p)
         /\ 2^p * 2^(23 - p) = 2^23
  <1>1. \/ p = 0 \/ p = 1 \/ p = 2 \/ p = 3 \/ p = 4 \/ p = 5
        \/ p = 6 \/ p = 7 \/ p = 8 \/ p = 9 \/ p = 10
    OBVIOUS
  <1>2. CASE p = 0
    <2>1. 2^p = 1 /\ 2^(p + 1) = 2 /\ 2^(24 - p) = 16777216 /\ 2^(23 - p) = 8388608
      BY <1>2, p + 1 = 1, 24 - p = 24, 23 - p = 23, Powers
    <2> QED BY <2>1
  <1>3. CASE p = 1
    <2>1. 2^p = 2 /\ 2^(p + 1) = 4 /\ 2^(24 - p) = 8388608 /\ 2^(23 - p) = 4194304
      BY <1>3, p + 1 = 2, 24 - p = 23, 23 - p = 22, Powers
    <2> QED BY <2>1
  <1>4. CASE p = 2
    <2>1. 2^p = 4 /\ 2^(p + 1) = 8 /\ 2^(24 - p) = 4194304 /\ 2^(23 - p) = 2097152
      BY <1>4, p + 1 = 3, 24 - p = 22, 23 - p = 21, Powers
    <2> QED BY <2>1
  <1>5. CASE p = 3
    <2>1. 2^p = 8 /\ 2^(p + 1) = 16 /\ 2^(24 - p) = 2097152 /\ 2^(23 - p) = 1048576
      BY <1>5, p + 1 = 4, 24 - p = 21, 23 - p = 20, Powers
    <2> QED BY <2>1
  <1>6. CASE p = 4
    <2>1. 2^p = 16 /\ 2^(p + 1) = 32 /\ 2^(24 - p) = 1048576 /\ 2^(23 - p) = 524288
      BY <1>6, p + 1 = 5, 24 - p = 20, 23 - p = 19, Powers
    <2> QED BY <2>1
  <1>7. CASE p = 5
    <2>1. 2^p = 32 /\ 2^(p + 1) = 64 /\ 2^(24 - p) = 524288 /\ 2^(23 - p) = 262144
      BY <1>7, p + 1 = 6, 24 - p = 19, 23 - p = 18, Powers
    <2> QED BY <2>1
  <1>8. CASE p = 6
    <2>1. 2^p = 64 /\ 2^(p + 1) = 128 /\ 2^(24 - p) = 262144 /\ 2^(23 - p) = 131072
      BY <1>8, p + 1 = 7, 24 - p = 18, 23 - p = 17, Powers
    <2> QED BY <2>1
  <1>9. CASE p = 7
    <2>1. 2^p = 128 /\ 2^(p + 1) = 256 /\ 2^(24 - p) = 131072 /\ 2^(23 - p) = 65536
      BY <1>9, p + 1 = 8, 24 - p = 17, 23 - p = 16, Powers
    <2> QED BY <2>1
  <1>10. CASE p = 8
    <2>1. 2^p = 256 /\ 2^(p + 1) = 512 /\ 2^(24 - p) = 65536 /\ 2^(23 - p) = 32768
      BY <1>10, p + 1 = 9, 24 - p = 16, 23 - p = 15, Powers
    <2> QED BY <2>1
  <1>11. CASE p = 9
    <2>1. 2^p = 512 /\ 2^(p + 1) = 1024 /\ 2^(24 - p) = 32768 /\ 2^(23 - p) = 16384
      BY <1>11, p + 1 = 10, 24 - p = 15, 23 - p = 14, Powers
    <2> QED BY <2>1
  <1>12. CASE p = 10
    <2>1. 2^p = 1024 /\ 2^(p + 1) = 2048 /\ 2^(24 - p) = 16384 /\ 2^(23 - p) = 8192
      BY <1>12, p + 1 = 11, 24 - p = 14, 23 - p = 13, Powers
    <2> QED BY <2>1
  <1> QED BY <1>1, <1>2, <1>3, <1>4, <1>5, <1>6, <1>7, <1>8, <1>9, <1>10, <1>11, <1>12

\* The next power after i is at most the power at any later j.
LEMMA PowersGrow ==
  ASSUME NEW i \in 0..10, NEW j \in 0..10, i < j
  PROVE  2^(i + 1) <= 2^j
  <1> DEFINE Value(k) ==
        IF k = 0 THEN 1 ELSE IF k = 1 THEN 2 ELSE IF k = 2 THEN 4 ELSE IF k = 3 THEN 8
        ELSE IF k = 4 THEN 16 ELSE IF k = 5 THEN 32 ELSE IF k = 6 THEN 64
        ELSE IF k = 7 THEN 128 ELSE IF k = 8 THEN 256 ELSE IF k = 9 THEN 512 ELSE 1024
  <1>1. 2^j = Value(j)
    BY Powers
  <1>2. 2^(i + 1) = Value(i + 1)
    <2>1. i + 1 \in 1..10
      OBVIOUS
    <2> QED BY <2>1, Powers
  <1> QED BY <1>1, <1>2

\* Binades are disjoint, so Log2 finds the one q is in.
LEMMA Log2Is ==
  ASSUME NEW p \in 0..10, NEW q \in Nat, 2^p <= q, q < 2^(p + 1)
  PROVE  Log2(q) = p
  <1>1. \A r \in 0..10 : 2^r <= q /\ q < 2^(r + 1) => r = p
    <2> SUFFICES ASSUME NEW r \in 0..10, 2^r <= q, q < 2^(r + 1), r # p
                 PROVE  FALSE
      OBVIOUS
    <2>1. 2^p \in Nat /\ 2^r \in Nat /\ 2^(p + 1) = 2 * 2^p /\ 2^(r + 1) = 2 * 2^r
      <3>1. 2^p \in 1..1024 /\ 2^(p + 1) = 2 * 2^p
        BY Binade, ZenonT(90)
      <3>2. 2^r \in 1..1024 /\ 2^(r + 1) = 2 * 2^r
        BY Binade, ZenonT(90)
      <3> QED BY <3>1, <3>2
    <2>2. CASE r < p
      <3>1. 2^(r + 1) <= 2^p
        BY <2>2, PowersGrow
      <3> QED BY <2>1, <3>1
    <2>3. CASE p < r
      <3>1. 2^(p + 1) <= 2^r
        BY <2>3, PowersGrow
      <3> QED BY <2>1, <3>1
    <2> QED BY <2>2, <2>3
  <1> QED BY <1>1 DEF Log2

\* Rounding to the nearest, ties to even.
LEMMA Rne ==
  ASSUME NEW m \in Nat, NEW k \in Nat \ {0}, NEW d, d = 2 * k
  PROVE  /\ rne(m, d) \in Nat
         /\ \/ 2 * m < (2 * rne(m, d) + 1) * d
            \/ 2 * m = (2 * rne(m, d) + 1) * d /\ rne(m, d) % 2 = 0
         /\ \/ 2 * m > (2 * rne(m, d) - 1) * d
            \/ 2 * m = (2 * rne(m, d) - 1) * d /\ rne(m, d) % 2 = 0
  <1> DEFINE h == m \div d
             r == m % d
  <1>1. h \in Nat /\ r \in 0..(d - 1) /\ m = h * d + r /\ d \div 2 = k
    OBVIOUS
  <1>2. rne(m, d) = IF r > k \/ (r = k /\ h % 2 = 1) THEN h + 1 ELSE h
    BY <1>1 DEF rne
  <1> HIDE DEF h, r
  <1>3. h % 2 = 1 => (h + 1) % 2 = 0
    BY <1>1
  <1>4. h % 2 \in {0, 1}
    BY <1>1
  <1>5. (2 * h + 1) * d = 2 * (h * d) + d /\ (2 * h - 1) * d = 2 * (h * d) - d
        /\ (2 * (h + 1) + 1) * d = 2 * (h * d) + 3 * d
        /\ (2 * (h + 1) - 1) * d = 2 * (h * d) + d
    BY <1>1
  <1>6. CASE r > k \/ (r = k /\ h % 2 = 1)
    <2>1. rne(m, d) = h + 1
      BY <1>2, <1>6
    <2>2. h * d \in Nat
      BY <1>1
    <2>3. r < k => FALSE
      BY <1>1, <1>6
    <2> QED BY <1>1, <1>3, <1>5, <1>6, <2>1, <2>2
  <1>7. CASE ~(r > k \/ (r = k /\ h % 2 = 1))
    <2>1. rne(m, d) = h
      BY <1>2, <1>7
    <2>2. h * d \in Nat
      BY <1>1
    <2> QED BY <1>1, <1>4, <1>5, <1>7, <2>1, <2>2
  <1> QED BY <1>6, <1>7

-----------------------------------------------------------------------------
(* The branches of f32_to_f16_bits.                                        *)

\* A magnitude is its exponent and its mantissa.
LEMMA Fields ==
  ASSUME NEW b \in 0..MaxF32
  PROVE  /\ exp32(b) \in 0..255 /\ man(b) \in 0..(2^23 - 1)
         /\ b = exp32(b) * 2^23 + man(b)
         /\ e16(b) = exp32(b) - 112
  BY DEF MaxF32, exp32, man, e16

\* Widen on and above the first binade of normal numbers, where it is linear.
LEMMA WidenNormal ==
  ASSUME NEW q \in Nat, q >= 2^11
  PROVE  Widen(q) = 112 * 2^23 + q * 2^12
  BY DEF Widen

\* Widen on the binade p of the subnormals.
LEMMA WidenSubnormal ==
  ASSUME NEW p \in 0..10, NEW q \in Nat, 2^p <= q, q < 2^(p + 1)
  PROVE  Widen(q) = (p + 102) * 2^23 + (q - 2^p) * 2^(23 - p)
  <1>1. Log2(q) = p
    BY Log2Is
  <1>2. q < 2^11 /\ q # 0
    <2>1. 2^p \in 1..1024 /\ 2^(p + 1) = 2 * 2^p
      BY Binade, ZenonT(90)
    <2> QED BY <2>1
  <1> QED BY <1>1, <1>2 DEF Widen

\* Widen maps a binade of subnormals into one of binary32.
LEMMA WidenBinade ==
  ASSUME NEW p \in 0..10, NEW q \in Nat, 2^p <= q, q < 2^(p + 1)
  PROVE  Widen(q) \in Nat /\ (p + 102) * 2^23 <= Widen(q) /\ Widen(q) < (p + 103) * 2^23
  <1> DEFINE P == 2^p
             K == 2^(23 - p)
  <1>1. P \in 1..1024 /\ 2^(p + 1) = 2 * P /\ K \in Nat \ {0} /\ P * K = 2^23
    <2>1. 2^p \in 1..1024 /\ 2^(p + 1) = 2 * 2^p
      BY Binade, ZenonT(90)
    <2>2. 2^(23 - p) \in Nat \ {0}
      BY Binade, ZenonT(90)
    <2>3. 2^p * 2^(23 - p) = 2^23
      BY Binade, ZenonT(90)
    <2> QED BY <2>1, <2>2, <2>3
  <1>2. Widen(q) = (p + 102) * 2^23 + (q - P) * K
    BY WidenSubnormal
  <1>3. P <= q /\ q < 2 * P
    BY <1>1
  <1> HIDE DEF P, K
  <1>4. q - P \in 0..(P - 1)
    BY <1>1, <1>3
  <1>5. (q - P) * K \in Nat /\ (q - P) * K < P * K
    BY <1>1, <1>4
  <1> QED BY <1>1, <1>2, <1>5

\* What underflows is nearest to zero.
LEMMA ZeroNearest ==
  ASSUME NEW b \in 0..MaxF32, e16(b) < -10
  PROVE  NearestEven(b, 0)
  <1>1. b < 102 * 2^23
    BY Fields
  <1>2. 2^0 = 1 /\ 2^(0 + 1) = 2
    BY 0 + 1 = 1, Powers
  <1>3. (0 + 102) * 2^23 <= Widen(1)
    BY <1>2, WidenBinade
  <1>4. Mid(0) = Widen(1)
    BY DEF Mid
  <1>5. Widen(1) \in Nat
    BY <1>2, WidenBinade
  <1> QED BY <1>1, <1>3, <1>4, <1>5 DEF NearestEven, INF16

\* What overflows is nearest to infinity.
LEMMA InfinityNearest ==
  ASSUME NEW b \in 0..MaxF32, e16(b) >= 31
  PROVE  NearestEven(b, INF16)
  <1>1. b >= 143 * 2^23
    BY Fields
  <1>2. Widen(63487) = 112 * 2^23 + 63487 * 2^12
    BY WidenNormal
  <1>3. Mid(INF16 - 1) = Widen(63487)
    BY DEF Mid, INF16
  <1> QED BY <1>1, <1>2, <1>3 DEF NearestEven, INF16

\* A result among the normal numbers, the carry to infinity included.
LEMMA NormalNearest ==
  ASSUME NEW b \in 0..MaxF32, e16(b) \in 1..30
  PROVE  NearestEven(b, rne(e16(b) * 2^23 + man(b), 2^13))
  <1> DEFINE m == e16(b) * 2^23 + man(b)
             d == 2^13
             h == rne(m, d)
  <1>1. /\ m \in Nat /\ b = 112 * 2^23 + m
        /\ m >= 2^23 /\ m < 31 * 2^23
    BY Fields, SMTT(20)
  <1>2. /\ h \in Nat
        /\ \/ 2 * m < (2 * h + 1) * 2^13
           \/ 2 * m = (2 * h + 1) * 2^13 /\ h % 2 = 0
        /\ \/ 2 * m > (2 * h - 1) * 2^13
           \/ 2 * m = (2 * h - 1) * 2^13 /\ h % 2 = 0
    <2>1. d = 8192 /\ d = 2^13
      OBVIOUS
    <2> HIDE DEF m, d
    <2>k. PICK k \in Nat \ {0} : d = 2 * k
      <3>1. 4096 \in Nat \ {0} /\ d = 2 * 4096
        BY <2>1
      <3> QED BY <3>1
    <2>2. /\ rne(m, d) \in Nat
          /\ \/ 2 * m < (2 * rne(m, d) + 1) * d
             \/ 2 * m = (2 * rne(m, d) + 1) * d /\ rne(m, d) % 2 = 0
          /\ \/ 2 * m > (2 * rne(m, d) - 1) * d
             \/ 2 * m = (2 * rne(m, d) - 1) * d /\ rne(m, d) % 2 = 0
      BY <1>1, <2>k, Rne
    <2> HIDE DEF h
    <2>3. h = rne(m, d)
      BY DEF h
    <2> QED BY <2>1, <2>2, <2>3
  <1> HIDE DEF m, h
  <1>3. h \in 2^10..INF16
    BY <1>1, <1>2 DEF INF16
  <1>4. Mid(h) = 112 * 2^23 + (2 * h + 1) * 2^12
    BY <1>3, WidenNormal DEF Mid, INF16
  <1>5. \/ h > 2^10 /\ Mid(h - 1) = 112 * 2^23 + (2 * h - 1) * 2^12
        \/ h = 2^10 /\ Mid(h - 1) = 112 * 2^23 + 1023 * 2^13
    <2>1. CASE h > 2^10
      <3>1. 2 * (h - 1) + 1 \in Nat /\ 2 * (h - 1) + 1 >= 2^11
            /\ 2 * (h - 1) + 1 = 2 * h - 1
        BY <1>3, <2>1 DEF INF16
      <3> QED BY <2>1, <3>1, WidenNormal DEF Mid
    <2>2. CASE h = 2^10
      <3>1. 2^10 <= 2047 /\ 2047 < 2^(10 + 1) /\ 2^(23 - 10) = 2^13
        BY 10 + 1 = 11, 23 - 10 = 13, Powers
      <3>2. Widen(2047) = (10 + 102) * 2^23 + (2047 - 2^10) * 2^(23 - 10)
        BY <3>1, WidenSubnormal
      <3>3. Mid(h - 1) = Widen(2047)
        BY <2>2 DEF Mid
      <3> QED BY <2>2, <3>1, <3>2, <3>3
    <2> QED BY <1>3, <2>1, <2>2 DEF INF16
  <1>6. h > 0 => b > Mid(h - 1) \/ (b = Mid(h - 1) /\ h % 2 = 0)
    <2>1. CASE h > 2^10 /\ Mid(h - 1) = 112 * 2^23 + (2 * h - 1) * 2^12
      BY <1>1, <1>2, <2>1
    <2>2. CASE h = 2^10 /\ Mid(h - 1) = 112 * 2^23 + 1023 * 2^13
      BY <1>1, <2>2
    <2> QED BY <1>5, <2>1, <2>2
  <1>7. b < Mid(h) \/ (b = Mid(h) /\ h % 2 = 0)
    BY <1>1, <1>2, <1>3, <1>4 DEF INF16
  <1>8. NearestEven(b, h)
    BY <1>3, <1>6, <1>7 DEF NearestEven, INF16
  <1> QED BY <1>8 DEF h, m

\* A result among the subnormals, the carry to the least normal included: p is
\* the binade of the result before the carry.
LEMMA SubnormalNearest ==
  ASSUME NEW b \in 0..MaxF32, e16(b) \in -10..0
  PROVE  NearestEven(b, rne(2^23 + man(b), 2^(14 - e16(b))))
  <1> DEFINE p == 10 + e16(b)
             P == 2^p
             K == 2^(23 - p)
             D == 2^(24 - p)
             m == 2^23 + man(b)
             h == rne(m, D)
  <1>1. p \in 0..10 /\ 14 - e16(b) = 24 - p
    BY Fields
  <1>3. m \in Nat /\ m >= 2^23 /\ m < 2 * 2^23 /\ b = (p + 101) * 2^23 + m
    BY Fields, SMTT(30)
  <1> HIDE DEF p, m
  <1>2. /\ P \in 1..1024 /\ 2^(p + 1) = 2 * P
        /\ K \in Nat \ {0} /\ D = 2 * K /\ P * K = 2^23
    <2>1. 2^p \in 1..1024 /\ 2^(p + 1) = 2 * 2^p
      BY <1>1, Binade, ZenonT(90)
    <2>2. 2^(23 - p) \in Nat \ {0} /\ 2^p * 2^(23 - p) = 2^23
      BY <1>1, Binade, ZenonT(90)
    <2>3. 2^(24 - p) = 2 * 2^(23 - p)
      BY <1>1, Binade, ZenonT(90)
    <2> QED BY <2>1, <2>2, <2>3
  <1>S. \A q \in P..(2 * P - 1) : Widen(q) = (p + 101) * 2^23 + q * K
    <2> SUFFICES ASSUME NEW q \in P..(2 * P - 1)
                 PROVE  Widen(q) = (p + 101) * 2^23 + q * K
      OBVIOUS
    <2>1. q \in Nat /\ 2^p <= q /\ q < 2^(p + 1)
      BY <1>2
    <2>2. Widen(q) = (p + 102) * 2^23 + (q - P) * K
      BY <1>1, <2>1, WidenSubnormal
    <2> HIDE DEF P, K, D
    <2>3. (q - P) * K = q * K - 2^23
      BY <1>2
    <2>4. q * K \in Nat
      BY <1>2
    <2> QED BY <1>1, <2>2, <2>3, <2>4
  <1>A. P = 2^p /\ D = 2^(24 - p)
    OBVIOUS
  <1> HIDE DEF P, K, D
  <1>4. /\ h \in Nat
        /\ \/ 2 * m < (2 * h + 1) * D
           \/ 2 * m = (2 * h + 1) * D /\ h % 2 = 0
        /\ \/ 2 * m > (2 * h - 1) * D
           \/ 2 * m = (2 * h - 1) * D /\ h % 2 = 0
    BY <1>2, <1>3, Rne
  <1>B. h = rne(m, D)
    OBVIOUS
  <1> HIDE DEF h
  \* In units of K, m lies between P and 2P.
  <1>5. /\ (2 * h + 1) * D = 2 * ((2 * h + 1) * K)
        /\ (2 * h - 1) * D = 2 * ((2 * h - 1) * K)
        /\ (2 * h + 1) * K \in Nat /\ (2 * h - 1) * K \in Int
    BY <1>2, <1>4
  <1>6. h <= P
    <2> SUFFICES ASSUME h >= P + 1 PROVE FALSE
      BY <1>2, <1>4
    <2>1. (2 * h - 1) * K >= (2 * P + 1) * K
      BY <1>2, <1>4
    <2>2. (2 * P + 1) * K = 2 * 2^23 + K
      BY <1>2
    <2> QED BY <1>2, <1>3, <1>4, <1>5, <2>1, <2>2
  <1>7. 2 * h + 1 >= P
    <2> SUFFICES ASSUME 2 * h + 2 <= P PROVE FALSE
      BY <1>2, <1>4
    <2>1. (2 * h + 2) * K <= P * K
      BY <1>2, <1>4
    <2>2. (2 * h + 2) * K = (2 * h + 1) * K + K
      BY <1>2, <1>4
    <2> QED BY <1>2, <1>3, <1>4, <1>5, <2>1, <2>2
  <1>8. b < Mid(h) \/ (b = Mid(h) /\ h % 2 = 0)
    <2>1. CASE h < P
      <3>1. 2 * h + 1 \in P..(2 * P - 1)
        BY <1>2, <1>4, <1>7, <2>1
      <3>2. Mid(h) = (p + 101) * 2^23 + (2 * h + 1) * K
        BY <1>S, <3>1 DEF Mid
      <3> QED BY <1>1, <1>3, <1>4, <1>5, <3>2
    <2>2. CASE h = P
      <3>1. CASE p < 10
        <4>1. p + 1 \in 0..10 /\ 2^(p + 1) <= 2 * P + 1
          BY <1>1, <1>2, <3>1
        <4>2. 2 * P + 1 < 2^((p + 1) + 1)
          <5>1. 2^((p + 1) + 1) = 2 * 2^(p + 1)
            BY <4>1, Binade, ZenonT(90)
          <5> QED BY <1>2, <5>1
        <4>3. 2 * P + 1 \in Nat
          BY <1>2
        <4>4. Widen(2 * P + 1) \in Nat /\ ((p + 1) + 102) * 2^23 <= Widen(2 * P + 1)
          BY <4>1, <4>2, <4>3, WidenBinade
        <4> QED BY <1>1, <1>3, <2>2, <4>4 DEF Mid
      <3>2. CASE p = 10
        <4>1. P = 1024
          BY <1>A, <3>2, Powers
        <4>2. Mid(h) = 112 * 2^23 + 2049 * 2^12
          BY <2>2, <4>1, WidenNormal DEF Mid
        <4> QED BY <1>3, <3>2, <4>2
      <3> QED BY <1>1, <3>1, <3>2
    <2> QED BY <1>2, <1>4, <1>6, <2>1, <2>2
  <1>9. h > 0 => b > Mid(h - 1) \/ (b = Mid(h - 1) /\ h % 2 = 0)
    <2> SUFFICES ASSUME h > 0 PROVE b > Mid(h - 1) \/ (b = Mid(h - 1) /\ h % 2 = 0)
      OBVIOUS
    <2>0. 2 * (h - 1) + 1 = 2 * h - 1 /\ Mid(h - 1) = Widen(2 * h - 1)
      <3>1. 2 * (h - 1) + 1 = 2 * h - 1
        BY <1>4
      <3> QED BY <3>1 DEF Mid
    <2>1. CASE 2 * h - 1 >= P
      <3>1. 2 * h - 1 \in P..(2 * P - 1)
        BY <1>2, <1>4, <1>6, <2>1
      <3>2. Mid(h - 1) = (p + 101) * 2^23 + (2 * h - 1) * K
        BY <1>S, <2>0, <3>1
      <3> QED BY <1>1, <1>3, <1>4, <1>5, <3>2
    <2>2. CASE 2 * h - 1 < P
      \* h is the lower limit of the binade: Mid(h - 1) is in the one below.
      <3>1. P >= 2
        BY <1>2, <1>4, <2>2
      <3>2. p - 1 \in 0..10 /\ (p - 1) + 1 = p
        <4>1. p = 0 => P = 1
          BY <1>A, Powers
        <4> QED BY <1>1, <3>1, <4>1
      <3>3. 2^(p - 1) \in 1..1024 /\ P = 2 * 2^(p - 1)
        <4>1. 2^(p - 1) \in 1..1024 /\ 2^((p - 1) + 1) = 2 * 2^(p - 1)
          <5>1. \A r \in 0..10 : 2^r \in 1..1024 /\ 2^(r + 1) = 2 * 2^r
            BY Binade, ZenonT(90)
          <5> QED BY <3>2, <5>1, ZenonT(90)
        <4>2. 2^((p - 1) + 1) = P
          BY <1>A, <3>2, Zenon
        <4> QED BY <4>1, <4>2
      <3>4. 2 * h - 1 \in Nat /\ 2^(p - 1) <= 2 * h - 1 /\ 2 * h - 1 < 2^((p - 1) + 1)
        <4>1. 2^((p - 1) + 1) = P
          BY <1>A, <3>2, Zenon
        <4> QED BY <1>4, <1>7, <2>2, <3>3, <4>1
      <3>5. Widen(2 * h - 1) \in Nat /\ Widen(2 * h - 1) < ((p - 1) + 103) * 2^23
        BY <3>2, <3>4, WidenBinade
      <3> QED BY <1>1, <1>3, <2>0, <3>5
    <2> QED BY <1>2, <1>4, <2>1, <2>2
  <1>10. NearestEven(b, h)
    BY <1>2, <1>4, <1>6, <1>8, <1>9 DEF NearestEven, INF16
  <1> QED
    <2>1. D = 2^(14 - e16(b))
      BY <1>1, <1>A
    <2>2. m = 2^23 + man(b)
      BY DEF m
    <2> QED BY <1>10, <1>B, <2>1, <2>2

\* What the order of the patterns says of the exponent 255.
LEMMA InfinityFields ==
  ASSUME NEW b \in 0..MaxF32
  PROVE  /\ b <= INF32 /\ exp32(b) = 255 => man(b) = 0
         /\ b > INF32 => exp32(b) = 255 /\ man(b) \in 1..(2^23 - 1)
  <1>1. /\ exp32(b) \in 0..255 /\ man(b) \in 0..(2^23 - 1)
        /\ b = exp32(b) * 2^23 + man(b)
    BY Fields
  <1>2. CASE exp32(b) = 255
    <2>1. b = INF32 + man(b) /\ INF32 \in Nat
      BY <1>1, <1>2 DEF INF32
    <2>2. b <= INF32 => man(b) = 0
      BY <1>1, <2>1
    <2>3. b > INF32 => man(b) \in 1..(2^23 - 1)
      BY <1>1, <2>1
    <2> QED BY <1>2, <2>2, <2>3
  <1>3. CASE exp32(b) # 255
    <2>1. exp32(b) \in 0..254
      BY <1>1, <1>3
    <2>2. b < 255 * 2^23
      BY <1>1, <2>1
    <2> QED BY <1>3, <2>2 DEF INF32
  <1> QED BY <1>2, <1>3

\* Every magnitude but a NaN's is rounded to nearest even.
LEMMA ConversionNearest ==
  ASSUME NEW b \in 0..MaxF32, b <= INF32
  PROVE  NearestEven(b, f32_to_f16_bits(b))
  <1>1. CASE e16(b) >= 31
    <2>1. exp32(b) = 255 => man(b) = 0
      BY InfinityFields
    <2>2. f32_to_f16_bits(b) = INF16
      BY <1>1, <2>1 DEF f32_to_f16_bits
    <2> QED BY <1>1, <2>2, InfinityNearest
  <1>2. CASE e16(b) \in 1..30
    <2>1. f32_to_f16_bits(b) = rne(e16(b) * 2^23 + man(b), 2^13)
      BY <1>2, Fields DEF f32_to_f16_bits
    <2>2. NearestEven(b, rne(e16(b) * 2^23 + man(b), 2^13))
      BY <1>2, NormalNearest
    <2> QED BY <2>1, <2>2
  <1>3. CASE e16(b) \in -10..0
    <2>1. f32_to_f16_bits(b) = rne(2^23 + man(b), 2^(14 - e16(b)))
      BY <1>3, Fields DEF f32_to_f16_bits, Subnormal
    <2>2. NearestEven(b, rne(2^23 + man(b), 2^(14 - e16(b))))
      BY <1>3, SubnormalNearest
    <2> QED BY <2>1, <2>2
  <1>4. CASE e16(b) < -10
    <2>1. f32_to_f16_bits(b) = 0
      BY <1>4, Fields DEF f32_to_f16_bits, Subnormal
    <2> QED BY <1>4, <2>1, ZeroNearest
  <1> QED BY <1>1, <1>2, <1>3, <1>4, Fields, SMTT(20)

\* The magnitude of a NaN.
LEMMA NanMagnitude ==
  ASSUME NEW b \in 0..MaxF32, b > INF32
  PROVE  f32_to_f16_bits(b) \in (INF16 + 1)..(INF16 + 2^10 - 1)
  <1>1. exp32(b) = 255 /\ man(b) \in 1..(2^23 - 1)
    BY InfinityFields
  <1>2. man(b) \div 2^13 \in 0..1023
    BY <1>1
  <1>3. f32_to_f16_bits(b) = Nan(b)
    BY <1>1 DEF f32_to_f16_bits
  <1> QED BY <1>2, <1>3, SMTT(20) DEF Nan, INF16

-----------------------------------------------------------------------------
(* The state machine: a converted pattern is its sign and its magnitude.   *)

FpInv == /\ sign \in {0, 1}
         /\ bits \in 0..MaxF32
         /\ half \in {None, sign * 2^15 + f32_to_f16_bits(bits)}

LEMMA FpInvInvariant == Spec => []FpInv
  <1>1. Init => FpInv
    <2> SUFFICES ASSUME Init PROVE FpInv
      OBVIOUS
    <2>1. CASE bits \in F32
      BY <2>1, Fp16Assumption DEF Init, FpInv
    <2>2. CASE bits \in {bf16_to_f32_bits(b) : b \in Bf16}
      <3>1. PICK b \in Bf16 : bits = b * 2^16
        BY <2>2 DEF bf16_to_f32_bits
      <3>2. b \in 0..(2^15 - 1)
        BY Fp16Assumption
      <3> QED BY <3>1, <3>2 DEF Init, FpInv, MaxF32
    <2> QED BY <2>1, <2>2 DEF Init
  <1>2. FpInv /\ [Next]_vars => FpInv'
    BY DEF FpInv, Next, Convert, vars
  <1> QED BY <1>1, <1>2, PTL DEF Spec

LEMMA Parts ==
  ASSUME NEW s \in {0, 1}, NEW h \in 0..(2^15 - 1)
  PROVE  (s * 2^15 + h) \div 2^15 = s /\ (s * 2^15 + h) % 2^15 = h
  OBVIOUS

\* fp.rs promises IEEE rounding to nearest, ties to even, which is what keeps
\* its output equal to torch's: true of every binary32 number.
THEOREM NearestTheorem == Spec => []RoundsToNearestEven
  <1>1. FpInv => RoundsToNearestEven
    <2> SUFFICES ASSUME FpInv, half # None, bits <= INF32
                 PROVE  half \div 2^15 = sign /\ NearestEven(bits, Magnitude)
      BY DEF RoundsToNearestEven
    <2>1. NearestEven(bits, f32_to_f16_bits(bits))
      BY ConversionNearest DEF FpInv
    <2>2. f32_to_f16_bits(bits) \in 0..(2^15 - 1)
      BY <2>1 DEF NearestEven, INF16
    <2>3. half = sign * 2^15 + f32_to_f16_bits(bits) /\ sign \in {0, 1}
      BY DEF FpInv
    <2>4. half \div 2^15 = sign /\ half % 2^15 = f32_to_f16_bits(bits)
      BY <2>2, <2>3, Parts
    <2> QED BY <2>1, <2>4 DEF Magnitude
  <1> QED BY <1>1, FpInvInvariant, PTL

\* A NaN stays a NaN of its sign, whatever its payload.
THEOREM NanTheorem == Spec => []NanStaysNan
  <1>1. FpInv => NanStaysNan
    <2> SUFFICES ASSUME FpInv, half # None, bits > INF32
                 PROVE  /\ half \div 2^15 = sign
                        /\ Magnitude \in (INF16 + 1)..(INF16 + 2^10 - 1)
      BY DEF NanStaysNan
    <2>1. f32_to_f16_bits(bits) \in (INF16 + 1)..(INF16 + 2^10 - 1)
      BY NanMagnitude DEF FpInv
    <2>2. f32_to_f16_bits(bits) \in 0..(2^15 - 1)
      BY <2>1 DEF INF16
    <2>3. half = sign * 2^15 + f32_to_f16_bits(bits) /\ sign \in {0, 1}
      BY DEF FpInv
    <2>4. half \div 2^15 = sign /\ half % 2^15 = f32_to_f16_bits(bits)
      BY <2>2, <2>3, Parts
    <2> QED BY <2>1, <2>4 DEF Magnitude
  <1> QED BY <1>1, FpInvInvariant, PTL
=============================================================================
