------------------------------- MODULE MCFp16 -------------------------------
(***************************************************************************)
(* TLC instance of the conversion: the whole bfloat16 domain, which is     *)
(* what remix casts, and binary32 magnitudes with every exponent and       *)
(* mantissas on and next to the ties of each shift, for the quotients      *)
(* that recast casts.                                                      *)
(***************************************************************************)
EXTENDS Fp16

MCBf16 == 0..(2^15 - 1)

Mantissas ==
  {m \in UNION {{k * 2^s - 1, k * 2^s, k * 2^s + 1} : k \in {1, 2, 3, 5}, s \in 11..22}
     : m >= 0 /\ m < 2^23}
  \cup {0, 1, 2^23 - 2^12 - 1, 2^23 - 2^12, 2^23 - 1}

MCF32 == {e * 2^23 + m : e \in {0, 1, 254, 255} \cup 100..144, m \in Mantissas}
=============================================================================
