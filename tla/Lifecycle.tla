----------------------------- MODULE Lifecycle -----------------------------
(***************************************************************************)
(* What GatewayRuntime promises its host about shutdown, with no pools,    *)
(* sessions, statuses or locks: upstream operations are admitted only      *)
(* while the runtime accepts work, every admitted operation retires, the   *)
(* runtime ends its stop only when none is in flight, and it never leaves  *)
(* the stopped phase (docs/gateway_scope.md:537-550,                       *)
(* docs/api_contract.md:162-176).                                          *)
(***************************************************************************)

CONSTANT Calls        \* the threads that run upstream operations

VARIABLES phase,      \* "accepting", "stopping" or "stopped"
          inflight    \* the admitted operations that have not retired

lifecycleVars == <<phase, inflight>>

LifecycleInit == /\ phase = "accepting"
                 /\ inflight = {}

Admit(t) == /\ phase = "accepting"
            /\ t \notin inflight
            /\ inflight' = inflight \cup {t}
            /\ UNCHANGED phase

Retire(t) == /\ t \in inflight
             /\ inflight' = inflight \ {t}
             /\ UNCHANGED phase

RequestStop == /\ phase = "accepting"
               /\ phase' = "stopping"
               /\ UNCHANGED inflight

EndStop == /\ phase = "stopping"
           /\ inflight = {}
           /\ phase' = "stopped"
           /\ UNCHANGED inflight

LifecycleNext == \/ \E t \in Calls : Admit(t) \/ Retire(t)
                 \/ RequestStop
                 \/ EndStop

\* The safety half: what every execution of the runtime must look like.
LifecycleSpec == LifecycleInit /\ [][LifecycleNext]_lifecycleVars

\* Once a stop is requested the operations in flight retire and the stop ends.
\* This holds of the runtime when the drain wait is unbounded.
DrainFairness == /\ \A t \in Calls :
                      WF_lifecycleVars(phase = "stopping" /\ Retire(t))
                 /\ WF_lifecycleVars(EndStop)

FairLifecycle == LifecycleSpec /\ DrainFairness
=============================================================================
