-------------------------- MODULE MCHostedEndpoint --------------------------
(* Model values for the TLC runs of HostedEndpoint.                        *)
EXTENDS HostedEndpoint

CONSTANTS h1, h2, q1
=============================================================================
