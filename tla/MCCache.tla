------------------------------ MODULE MCCache ------------------------------
(* Instances of Cache for TLC. *)
EXTENDS Cache, TLC

CONSTANTS k1, k2, a, b

TwoCaches == {k1, k2}
OneCache == {k1}
TwoValues == {a, b}
Anything == {b}
CacheSymmetry == Permutations(Caches)
=============================================================================
