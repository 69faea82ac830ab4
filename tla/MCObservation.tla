--------------------------- MODULE MCObservation ---------------------------
(* Model values for the TLC run of Observation.                            *)
EXTENDS Observation

CONSTANTS c1, c2, p1, p2, i1
=============================================================================
