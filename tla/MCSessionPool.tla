--------------------------- MODULE MCSessionPool ---------------------------
(* Model values for the TLC run of SessionPool.                            *)
EXTENDS SessionPool

CONSTANTS c1, c2, c3, c4, p1, p2
=============================================================================
