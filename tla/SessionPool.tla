---------------------------- MODULE SessionPool ----------------------------
(***************************************************************************)
(* The slot pool of one persistent upstream (PersistentUpstreamSession):   *)
(* the mutex, the condition variable, calls that take one slot, prewarms   *)
(* that take every slot, and the part of stop() that reaches the pool.     *)
(* What a holder does with its slots is left out, so that more threads can *)
(* be explored than in GatewayRuntime, which implements this module        *)
(* (PoolRefinement).                                                       *)
(***************************************************************************)
EXTENDS Integers, FiniteSets

CONSTANTS Calls, Stoppers, NoThread, PoolSize,
          AcquireBounded    \* persistent_session_acquire_timeout > 0

ASSUME PoolAssumption == /\ NoThread \notin Calls
                         /\ PoolSize \in Nat \ {0}
                         /\ AcquireBounded \in BOOLEAN

Slots == 1 .. PoolSize

VARIABLES
  halting,   \* stopping || stopped: once set, set for ever
  pending,   \* the stop() calls that have set it and not notified the pool yet
  inUse,     \* the slots with in_use set
  mutex,     \* session.mutex, when held across steps
  point,     \* where each thread is
  kind,      \* "call" takes one slot, "refresh" takes the whole pool
  held       \* the slots each thread owns

stopSide == <<halting, pending>>
poolVars == <<stopSide, inUse, mutex, point, kind, held>>

Points == {"out", "acquire", "window", "blocked", "hold", "signal"}

PoolTypeOK ==
  /\ halting \in BOOLEAN
  /\ pending \in SUBSET Stoppers
  /\ inUse \in SUBSET Slots
  /\ mutex \in Calls \cup {NoThread}
  /\ point \in [Calls -> Points]
  /\ kind \in [Calls -> {"call", "refresh"}]
  /\ held \in [Calls -> SUBSET Slots]

PoolInit ==
  /\ halting = FALSE
  /\ pending = {}
  /\ inUse = {}
  /\ mutex = NoThread
  /\ point = [t \in Calls |-> "out"]
  /\ kind = [t \in Calls |-> "call"]
  /\ held = [t \in Calls |-> {}]

Move(t, there) == point' = [point EXCEPT ![t] = there]

\* begin_upstream_call admits an operation only while the runtime accepts work.
Arrive(t) ==
  /\ point[t] = "out"
  /\ ~halting
  /\ Move(t, "acquire")
  /\ \E k \in {"call", "refresh"} : kind' = [kind EXCEPT ![t] = k]
  /\ UNCHANGED <<stopSide, inUse, mutex, held>>

Leaving(t) == /\ Move(t, "out")
              /\ kind' = [kind EXCEPT ![t] = "call"]

Available(t) == IF kind[t] = "call" THEN inUse # Slots ELSE inUse = {}

Refuse(t) ==
  /\ point[t] = "acquire" /\ mutex = NoThread
  /\ halting
  /\ Leaving(t)
  /\ UNCHANGED <<stopSide, inUse, mutex, held>>

Take(t) ==
  /\ point[t] = "acquire" /\ mutex = NoThread
  /\ ~halting
  /\ Available(t)
  /\ \E s \in Slots \ inUse :
       /\ \A r \in Slots \ inUse : s <= r
       /\ held' = [held EXCEPT ![t] = IF kind[t] = "call" THEN {s} ELSE Slots]
  /\ inUse' = inUse \cup held'[t]
  /\ Move(t, "hold")
  /\ UNCHANGED <<stopSide, mutex, kind>>

FindBusy(t) ==
  /\ point[t] = "acquire" /\ mutex = NoThread
  /\ ~halting
  /\ ~Available(t)
  /\ Move(t, "window")
  /\ mutex' = t
  /\ UNCHANGED <<stopSide, inUse, kind, held>>

Sleep(t) ==
  /\ point[t] = "window"
  /\ Move(t, "blocked")
  /\ mutex' = NoThread
  /\ UNCHANGED <<stopSide, inUse, kind, held>>

GiveUp(t) ==
  /\ AcquireBounded
  /\ point[t] = "blocked" /\ mutex = NoThread
  /\ ~halting
  /\ ~Available(t)
  /\ Leaving(t)
  /\ UNCHANGED <<stopSide, inUse, mutex, held>>

WakeUnasked(t) ==
  /\ point[t] = "blocked"
  /\ Move(t, "acquire")
  /\ UNCHANGED <<stopSide, inUse, mutex, kind, held>>

\* Mutants of PutBack: every slot is freed; a prewarm does not notify.
PutBackAll(t) ==
  /\ point[t] = "hold" /\ mutex = NoThread
  /\ inUse' = {}
  /\ held' = [held EXCEPT ![t] = {}]
  /\ Move(t, "signal")
  /\ UNCHANGED <<stopSide, mutex, kind>>

PutBackSilently(t) ==
  /\ point[t] = "hold" /\ mutex = NoThread
  /\ inUse' = inUse \ held[t]
  /\ held' = [held EXCEPT ![t] = {}]
  /\ Move(t, IF kind[t] = "refresh" THEN "out" ELSE "signal")
  /\ UNCHANGED <<stopSide, mutex, kind>>

PutBack(t) ==
  /\ point[t] = "hold" /\ mutex = NoThread
  /\ inUse' = inUse \ held[t]
  /\ held' = [held EXCEPT ![t] = {}]
  /\ Move(t, "signal")
  /\ UNCHANGED <<stopSide, mutex, kind>>

Sleeping == {w \in Calls : point[w] = "blocked"}

\* Mutant of Notify: a runtime that stops is thought to have woken everybody.
NotifyUnlessHalting(t) ==
  /\ point[t] = "signal"
  /\ \E woken \in SUBSET Sleeping :
       /\ IF halting THEN woken = {}
          ELSE IF kind[t] = "refresh" \/ Sleeping = {} THEN woken = Sleeping
          ELSE \E w \in Sleeping : woken = {w}
       /\ point' = [w \in Calls |-> IF w \in woken THEN "acquire"
                                    ELSE IF w = t THEN "out" ELSE point[w]]
  /\ kind' = [kind EXCEPT ![t] = "call"]
  /\ UNCHANGED <<stopSide, inUse, mutex, held>>

\* notify_one after a call, notify_all after a prewarm.
Notify(t) ==
  /\ point[t] = "signal"
  /\ \E woken \in SUBSET Sleeping :
       /\ IF kind[t] = "refresh" \/ Sleeping = {} THEN woken = Sleeping
          ELSE \E w \in Sleeping : woken = {w}
       /\ point' = [w \in Calls |-> IF w \in woken THEN "acquire"
                                    ELSE IF w = t THEN "out" ELSE point[w]]
  /\ kind' = [kind EXCEPT ![t] = "call"]
  /\ UNCHANGED <<stopSide, inUse, mutex, held>>

\* stop() sets the flag without the pool's mutex, and notifies without it.
Halt(p) ==
  /\ p \notin pending
  /\ halting' = TRUE
  /\ pending' = pending \cup {p}
  /\ UNCHANGED <<inUse, mutex, point, kind, held>>

\* Mutant of NotifyAll: notify_one.
NotifyOne(p) ==
  /\ p \in pending
  /\ pending' = pending \ {p}
  /\ IF Sleeping = {} THEN UNCHANGED point
     ELSE \E w \in Sleeping : Move(w, "acquire")
  /\ UNCHANGED <<halting, inUse, mutex, kind, held>>

NotifyAll(p) ==
  /\ p \in pending
  /\ pending' = pending \ {p}
  /\ point' = [w \in Calls |-> IF w \in Sleeping THEN "acquire" ELSE point[w]]
  /\ UNCHANGED <<halting, inUse, mutex, kind, held>>

PoolStep(t) == \/ Refuse(t) \/ Take(t) \/ FindBusy(t) \/ Sleep(t)
               \/ PutBack(t) \/ Notify(t)

PoolNext == \/ \E t \in Calls : Arrive(t) \/ PoolStep(t) \/ GiveUp(t) \/ WakeUnasked(t)
            \/ \E p \in Stoppers : Halt(p) \/ NotifyAll(p)

PoolSpec == PoolInit /\ [][PoolNext]_poolVars

\* A holder gives its slots back: every exchange with an upstream ends.
PoolFairness == /\ \A t \in Calls : WF_poolVars(PoolStep(t))
                /\ \A p \in Stoppers : WF_poolVars(NotifyAll(p))

FairPoolSpec == PoolSpec /\ PoolFairness

-----------------------------------------------------------------------------
\* in_use is set exactly for the slots threads own, no slot has two owners,
\* and only a thread between acquire and release owns any.
PoolOwnership ==
  /\ inUse = UNION {held[t] : t \in Calls}
  /\ \A t, w \in Calls : t # w => held[t] \cap held[w] = {}
  /\ \A t \in Calls : held[t] # {} => point[t] = "hold"

\* A prewarm initializes every slot of the pool alone: while it holds the pool
\* no call holds a slot (runtime.cpp:904-947).
PrewarmIsAlone ==
  \A t, w \in Calls :
    /\ point[t] = "hold" /\ kind[t] = "refresh"
    /\ point[w] = "hold"
    => t = w

\* Nobody is left asleep with nobody awake to wake him: as long as a thread
\* sleeps, another owns slots, is about to notify, or has been woken and will
\* take slots or go back to sleep behind an owner, or stop() has still to
\* notify.  This is what makes the notification without the mutex safe.
SleeperHasWaker ==
  Sleeping # {} =>
    \/ pending # {}
    \/ \E w \in Calls : point[w] \in {"hold", "signal"}
    \/ ~halting /\ \E w \in Calls : point[w] = "acquire"

\* After stop() has notified the pool, at most one thread can have slept
\* through it, the one that was between its predicate and the block.
OneMissedWakeup ==
  halting /\ pending = {} =>
    \A t, w \in Sleeping : t = w

\* With no new arrivals no waiter sleeps for ever, even though notify_one may
\* wake a prewarm that cannot go on instead of a call that can.
SleepersWake ==
  (<>[][\A t \in Calls : ~Arrive(t) /\ ~WakeUnasked(t)]_poolVars)
    => \A t \in Calls : point[t] = "blocked" ~> point[t] # "blocked"
=============================================================================
