---------------------------- MODULE MCGGUFWriter ----------------------------
(***************************************************************************)
(* TLC instance of the writer.  Sizes straddle the alignment (0, 1, 32,    *)
(* 33), header lengths straddle it too, a chunk is no multiple of it, and  *)
(* a failing write may stop inside the data or inside the padding.         *)
(***************************************************************************)
EXTENDS GGUFWriter, TLC

CONSTANTS k1, n1, n2, n3

MCKeys == {k1}
MCNames == {n1, n2, n3}
MCSizes == {0, 1, 32, 33}
MCHeaderLens == {31, 32, 33}
MCTornAt == {0, 1, 31, 32, 40}
=============================================================================
