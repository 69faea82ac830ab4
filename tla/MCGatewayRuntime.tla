-------------------------- MODULE MCGatewayRuntime --------------------------
(* Model values and symmetry for the TLC runs of GatewayRuntime.           *)
EXTENDS GatewayRuntime, TLC

CONSTANTS c1, c2, c3, p1, p2

\* Threads are interchangeable; used by the runs that check no liveness.
ThreadSymmetry == Permutations(Calls) \cup Permutations(Stoppers)
=============================================================================
