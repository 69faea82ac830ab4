--------------------------- MODULE PoolRefinement ---------------------------
(***************************************************************************)
(* The pool of each upstream of GatewayRuntime implements SessionPool: what*)
(* is shown of sleeping and waking there, with more threads, holds of the  *)
(* runtime, whose threads connect, use and discard sessions while they     *)
(* hold slots, move from one upstream to the next and run stop().          *)
(***************************************************************************)
EXTENDS GatewayRuntime

CONSTANT Observed    \* the upstream whose pool is observed, any of them

ASSUME ObservedAssumption == Observed \in Upstreams

\* What the observed pool sees of each thread.
pointBar ==
  [t \in Calls |->
     IF target[t] # Observed THEN "out"
     ELSE IF pc[t] \in {"acquire", "window", "blocked", "signal"} THEN pc[t]
     ELSE IF pc[t] \in HoldPoints THEN "hold"
     ELSE "out"]

kindBar == [t \in Calls |-> IF pointBar[t] = "out" THEN "call" ELSE op[t]]
heldBar == [t \in Calls |-> IF target[t] = Observed THEN held[t] ELSE {}]

Pool == INSTANCE SessionPool WITH
          halting <- Halting,
          pending <- {p \in Stoppers : spc[p] = "notify"},
          inUse   <- inUse[Observed],
          mutex   <- poolMutex[Observed],
          point   <- pointBar,
          kind    <- kindBar,
          held    <- heldBar

\* Every step of the runtime is a step of the observed pool, or leaves it
\* alone: no path gives a slot back without notifying, takes one after stop()
\* began, or waits without the mutex.
ImplementsPool == Pool!PoolSpec
=============================================================================
