----------------------------- MODULE MCProfiler -----------------------------
(* Instances of Profiler for TLC. *)
EXTENDS Profiler

CONSTANTS a1, a2, r1, r2
TwoActors == {a1, a2}
TwoReaders == {r1, r2}
OneReader == {r1}
=============================================================================
