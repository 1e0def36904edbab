----------------------------- MODULE MCThrottle -----------------------------
(* Instances of Throttle for TLC. *)
EXTENDS Throttle

AllFrequencies == {"OnEvent", "Interval", "OnEventWhen"}
OnEventOnly == {"OnEvent"}
AllOrigins == {"handle", "cache", "receiver", "value"}
HandleOnly == {"handle"}
=============================================================================
