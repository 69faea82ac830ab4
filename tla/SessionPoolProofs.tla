-------------------------- MODULE SessionPoolProofs --------------------------
(***************************************************************************)
(* Theorems about SessionPool, for every number of threads, stoppers and   *)
(* slots.                                                                  *)
(***************************************************************************)
EXTENDS SessionPool, TLAPS

-----------------------------------------------------------------------------
(* Type correctness.                                                       *)

LEMMA StepPoolTypeOK == PoolTypeOK /\ [PoolNext]_poolVars => PoolTypeOK'
<1> SUFFICES ASSUME PoolTypeOK, [PoolNext]_poolVars PROVE PoolTypeOK'
  OBVIOUS
<1> USE PoolAssumption DEF PoolTypeOK, Points, stopSide, Move, Leaving
<1>1. CASE UNCHANGED poolVars
  BY <1>1 DEF poolVars
<1>2. ASSUME NEW t \in Calls, Arrive(t) PROVE PoolTypeOK'
  BY <1>2 DEF Arrive
<1>3. ASSUME NEW t \in Calls, Refuse(t) PROVE PoolTypeOK'
  BY <1>3 DEF Refuse
<1>4. ASSUME NEW t \in Calls, Take(t) PROVE PoolTypeOK'
  <2>1. held' \in [Calls -> SUBSET Slots]
    BY <1>4 DEF Take
  <2>2. inUse' \in SUBSET Slots
    BY <1>4, <2>1 DEF Take
  <2> QED
    BY <1>4, <2>1, <2>2 DEF Take
<1>5. ASSUME NEW t \in Calls, FindBusy(t) PROVE PoolTypeOK'
  BY <1>5 DEF FindBusy
<1>6. ASSUME NEW t \in Calls, Sleep(t) PROVE PoolTypeOK'
  BY <1>6 DEF Sleep
<1>7. ASSUME NEW t \in Calls, PutBack(t) PROVE PoolTypeOK'
  BY <1>7 DEF PutBack
<1>8. ASSUME NEW t \in Calls, Notify(t) PROVE PoolTypeOK'
  <2>1. point' \in [Calls -> Points]
    BY <1>8 DEF Notify
  <2> QED
    BY <1>8, <2>1 DEF Notify
<1>9. ASSUME NEW t \in Calls, GiveUp(t) PROVE PoolTypeOK'
  BY <1>9 DEF GiveUp
<1>10. ASSUME NEW t \in Calls, WakeUnasked(t) PROVE PoolTypeOK'
  BY <1>10 DEF WakeUnasked
<1>11. ASSUME NEW p \in Stoppers, Halt(p) PROVE PoolTypeOK'
  BY <1>11 DEF Halt
<1>12. ASSUME NEW p \in Stoppers, NotifyAll(p) PROVE PoolTypeOK'
  <2>1. point' \in [Calls -> Points]
    BY <1>12 DEF NotifyAll
  <2> QED
    BY <1>12, <2>1 DEF NotifyAll
<1> QED
  BY <1>1, <1>2, <1>3, <1>4, <1>5, <1>6, <1>7, <1>8, <1>9, <1>10, <1>11, <1>12
     DEF PoolNext, PoolStep

THEOREM PoolTypes == PoolSpec => []PoolTypeOK
<1>1. PoolInit => PoolTypeOK
  BY DEF PoolInit, PoolTypeOK, Points
<1>2. PoolTypeOK /\ [PoolNext]_poolVars => PoolTypeOK'
  BY StepPoolTypeOK
<1> QED
  BY <1>1, <1>2, PTL DEF PoolSpec

-----------------------------------------------------------------------------
(* Ownership.                                                              *)

\* Who is where owns what: a holder owns slots, a prewarm all of them.
HoldersOwn ==
  \A t \in Calls : point[t] = "hold" =>
    held[t] # {} /\ (kind[t] = "refresh" => held[t] = Slots)

\* The mutex is held across the window only, and the window is entered only when
\* something is in use.
WindowHasMutex ==
  \A t \in Calls : (point[t] = "window" <=> mutex = t)

WindowIsBusy ==
  \A t \in Calls : point[t] = "window" => inUse # {}

Owned == PoolTypeOK /\ PoolOwnership /\ HoldersOwn /\ WindowHasMutex /\ WindowIsBusy

\* A step that moves threads, none of them into or out of the slots or the
\* window, keeps the ownership.
LEMMA MovingKeepsOwned ==
  ASSUME Owned, PoolTypeOK', UNCHANGED <<inUse, mutex, held>>,
         \A t \in Calls : \/ point'[t] = point[t] /\ kind'[t] = kind[t]
                          \/ /\ point[t] \notin {"hold", "window"}
                             /\ point'[t] \notin {"hold", "window"}
  PROVE  Owned'
BY DEF Owned, PoolOwnership, HoldersOwn, WindowHasMutex, WindowIsBusy

LEMMA StepOwned == Owned /\ [PoolNext]_poolVars => Owned'
<1> SUFFICES ASSUME Owned, [PoolNext]_poolVars PROVE Owned'
  OBVIOUS
<1>t. PoolTypeOK /\ PoolTypeOK'
  BY StepPoolTypeOK DEF Owned
<1> USE <1>t DEF stopSide, Move, Leaving
<1>1. CASE UNCHANGED poolVars
  BY <1>1 DEF poolVars, Owned, PoolOwnership, HoldersOwn, WindowHasMutex, WindowIsBusy
<1>2. ASSUME NEW t \in Calls, Arrive(t) PROVE Owned'
  BY <1>2, MovingKeepsOwned DEF Arrive, PoolTypeOK
<1>3. ASSUME NEW t \in Calls, Refuse(t) PROVE Owned'
  BY <1>3, MovingKeepsOwned DEF Refuse, PoolTypeOK
<1>4. ASSUME NEW t \in Calls, Take(t) PROVE Owned'
  <2>1. PICK s \in Slots \ inUse :
          held' = [held EXCEPT ![t] = IF kind[t] = "call" THEN {s} ELSE Slots]
    BY <1>4 DEF Take
  <2>2. /\ point[t] = "acquire" /\ point' = [point EXCEPT ![t] = "hold"]
        /\ inUse' = inUse \cup held'[t] /\ mutex = NoThread
        /\ UNCHANGED <<mutex, kind>>
    BY <1>4 DEF Take
  <2>3. /\ held'[t] # {} /\ held'[t] \cap inUse = {}
        /\ kind[t] = "refresh" => held'[t] = Slots
    BY <1>4, <2>1 DEF Take, Available, PoolTypeOK
  <2>4. \A w \in Calls \ {t} : held'[w] = held[w] /\ point'[w] = point[w]
    BY <2>1, <2>2 DEF PoolTypeOK
  <2>5. point'[t] = "hold"
    BY <2>2 DEF PoolTypeOK
  <2>6. held[t] = {}
    BY <2>2 DEF Owned, PoolOwnership
  <2>7. inUse = UNION {held[w] : w \in Calls \ {t}}
    BY <2>6 DEF Owned, PoolOwnership
  <2>8. PoolOwnership'
    <3>1. inUse' = UNION {held'[w] : w \in Calls}
      BY <2>2, <2>4, <2>7
    <3>2. ASSUME NEW w \in Calls, NEW v \in Calls, w # v
          PROVE  held'[w] \cap held'[v] = {}
      <4>1. \A x \in Calls \ {t} : held'[x] \subseteq inUse
        BY <2>4, <2>7
      <4> QED
        BY <2>3, <2>4, <3>2, <4>1 DEF Owned, PoolOwnership
    <3>3. \A w \in Calls : held'[w] # {} => point'[w] = "hold"
      BY <2>4, <2>5 DEF Owned, PoolOwnership
    <3> QED
      BY <3>1, <3>2, <3>3 DEF PoolOwnership
  <2>9. HoldersOwn'
    BY <2>2, <2>3, <2>4 DEF Owned, HoldersOwn
  <2>10. WindowHasMutex' /\ WindowIsBusy'
    <3>1. \A w \in Calls : point'[w] # "window"
      BY <2>2, <2>4, <2>5, PoolAssumption DEF Owned, WindowHasMutex
    <3> QED
      BY <2>2, <3>1, PoolAssumption DEF WindowHasMutex, WindowIsBusy
  <2> QED
    BY <2>8, <2>9, <2>10 DEF Owned
<1>5. ASSUME NEW t \in Calls, FindBusy(t) PROVE Owned'
  <2>1. /\ point[t] = "acquire" /\ mutex = NoThread /\ mutex' = t
        /\ point' = [point EXCEPT ![t] = "window"] /\ UNCHANGED <<inUse, kind, held>>
    BY <1>5 DEF FindBusy
  <2>2. inUse # {}
    <3>1. ~Available(t)
      BY <1>5 DEF FindBusy
    <3>2. 1 \in Slots
      BY PoolAssumption DEF Slots
    <3> QED
      BY <3>1, <3>2 DEF Available
  <2> QED
    BY <2>1, <2>2, PoolAssumption
       DEF Owned, PoolOwnership, HoldersOwn, WindowHasMutex, WindowIsBusy, PoolTypeOK
<1>6. ASSUME NEW t \in Calls, Sleep(t) PROVE Owned'
  <2>1. /\ mutex = t /\ mutex' = NoThread /\ point' = [point EXCEPT ![t] = "blocked"]
        /\ UNCHANGED <<inUse, kind, held>> /\ point[t] = "window"
    BY <1>6 DEF Sleep, Owned, WindowHasMutex
  <2> QED
    BY <2>1, PoolAssumption
       DEF Owned, PoolOwnership, HoldersOwn, WindowHasMutex, WindowIsBusy, PoolTypeOK
<1>7. ASSUME NEW t \in Calls, PutBack(t) PROVE Owned'
  <2>1. /\ point[t] = "hold" /\ mutex = NoThread /\ UNCHANGED <<mutex, kind>>
        /\ inUse' = inUse \ held[t] /\ held' = [held EXCEPT ![t] = {}]
        /\ point' = [point EXCEPT ![t] = "signal"]
    BY <1>7 DEF PutBack
  <2>2. /\ held'[t] = {} /\ point'[t] = "signal"
        /\ \A w \in Calls \ {t} : held'[w] = held[w] /\ point'[w] = point[w]
    BY <2>1 DEF PoolTypeOK
  <2>3. inUse' = UNION {held'[w] : w \in Calls}
    BY <2>1, <2>2 DEF Owned, PoolOwnership
  <2>4. \A w \in Calls : point'[w] # "window"
    BY <2>1, <2>2, PoolAssumption DEF Owned, WindowHasMutex
  <2> QED
    BY <2>1, <2>2, <2>3, <2>4, PoolAssumption
       DEF Owned, PoolOwnership, HoldersOwn, WindowHasMutex, WindowIsBusy
<1>8. ASSUME NEW t \in Calls, Notify(t) PROVE Owned'
  <2>1. \A w \in Calls : \/ point'[w] = point[w] /\ kind'[w] = kind[w]
                         \/ /\ point[w] \in {"signal", "blocked"}
                            /\ point'[w] \in {"out", "acquire"}
    BY <1>8 DEF Notify, Sleeping, PoolTypeOK
  <2>2. UNCHANGED <<inUse, mutex, held>>
    BY <1>8 DEF Notify
  <2> QED
    BY <2>1, <2>2, MovingKeepsOwned
<1>9. ASSUME NEW t \in Calls, GiveUp(t) PROVE Owned'
  BY <1>9, MovingKeepsOwned DEF GiveUp, PoolTypeOK
<1>10. ASSUME NEW t \in Calls, WakeUnasked(t) PROVE Owned'
  BY <1>10, MovingKeepsOwned DEF WakeUnasked, PoolTypeOK
<1>11. ASSUME NEW p \in Stoppers, Halt(p) PROVE Owned'
  BY <1>11, MovingKeepsOwned DEF Halt
<1>12. ASSUME NEW p \in Stoppers, NotifyAll(p) PROVE Owned'
  <2>1. /\ UNCHANGED <<inUse, mutex, held, kind>>
        /\ \A w \in Calls : \/ point'[w] = point[w]
                            \/ point[w] = "blocked" /\ point'[w] = "acquire"
    BY <1>12 DEF NotifyAll, Sleeping
  <2> QED
    BY <2>1, MovingKeepsOwned
<1> QED
  BY <1>1, <1>2, <1>3, <1>4, <1>5, <1>6, <1>7, <1>8, <1>9, <1>10, <1>11, <1>12
     DEF PoolNext, PoolStep

LEMMA InitOwned == PoolInit => Owned
<1> SUFFICES ASSUME PoolInit PROVE Owned
  OBVIOUS
<1>1. PoolTypeOK
  BY DEF PoolInit, PoolTypeOK, Points
<1>2. /\ \A t \in Calls : held[t] = {} /\ point[t] = "out"
      /\ inUse = {} /\ mutex = NoThread
  BY DEF PoolInit
<1> QED
  BY <1>1, <1>2, PoolAssumption
     DEF Owned, PoolOwnership, HoldersOwn, WindowHasMutex, WindowIsBusy

LEMMA AlwaysOwned == PoolSpec => []Owned
<1>1. PoolInit => Owned
  BY InitOwned
<1>2. Owned /\ [PoolNext]_poolVars => Owned'
  BY StepOwned
<1> QED
  BY <1>1, <1>2, PTL DEF PoolSpec

\* No slot has two owners, and in_use is set for exactly the slots that are owned.
THEOREM PoolOwners == PoolSpec => []PoolOwnership
<1>1. Owned => PoolOwnership
  BY DEF Owned
<1> QED
  BY <1>1, AlwaysOwned, PTL

\* A prewarm has the pool to itself.
THEOREM PrewarmAlone == PoolSpec => []PrewarmIsAlone
<1>1. ASSUME Owned, NEW t \in Calls, NEW w \in Calls,
             point[t] = "hold", kind[t] = "refresh", point[w] = "hold"
      PROVE  t = w
  <2>1. held[t] = Slots /\ held[w] # {} /\ held[w] \subseteq Slots
    BY <1>1 DEF Owned, HoldersOwn, PoolTypeOK
  <2> QED
    BY <1>1, <2>1 DEF Owned, PoolOwnership
<1>2. Owned => PrewarmIsAlone
  BY <1>1 DEF PrewarmIsAlone
<1> QED
  BY <1>2, AlwaysOwned, PTL

-----------------------------------------------------------------------------
(* Wakeups.                                                                *)

\* Who sleeps, or is past the predicate on the way to sleep.
Dozing(t) == point[t] \in {"blocked", "window"}

\* Once stop() has notified, whoever dozes is the only one: he was in the window,
\* and no one enters the window any more.
OneDozes ==
  halting /\ pending = {} =>
    \A t, w \in Calls : Dozing(t) /\ Dozing(w) => t = w

Woken == Owned /\ OneDozes /\ SleeperHasWaker

\* A pool in use has a holder.
LEMMA BusyHasHolder ==
  ASSUME Owned, inUse # {} PROVE \E w \in Calls : point[w] = "hold"
BY DEF Owned, PoolOwnership

LEMMA StepOneDozes == Woken /\ [PoolNext]_poolVars => OneDozes'
<1> SUFFICES ASSUME Woken, [PoolNext]_poolVars PROVE OneDozes'
  OBVIOUS
<1> USE DEF Woken, Owned, PoolTypeOK, OneDozes, Dozing, stopSide, Move, Leaving
<1>1. CASE UNCHANGED poolVars
  BY <1>1 DEF poolVars
<1>2. ASSUME NEW t \in Calls,
             Arrive(t) \/ Refuse(t) \/ Take(t) \/ Sleep(t) \/ PutBack(t) \/ GiveUp(t)
             \/ WakeUnasked(t)
      PROVE  OneDozes'
  <2>1. UNCHANGED stopSide /\ \A w \in Calls \ {t} : point'[w] = point[w]
    BY <1>2 DEF Arrive, Refuse, Take, Sleep, PutBack, GiveUp, WakeUnasked
  <2>2. point'[t] \in {"blocked", "window"} => point[t] \in {"blocked", "window"}
    BY <1>2 DEF Arrive, Refuse, Take, Sleep, PutBack, GiveUp, WakeUnasked
  <2> QED
    BY <2>1, <2>2
<1>3. ASSUME NEW t \in Calls, FindBusy(t) PROVE OneDozes'
  BY <1>3 DEF FindBusy
<1>4. ASSUME NEW t \in Calls, Notify(t) PROVE OneDozes'
  <2>1. /\ UNCHANGED stopSide
        /\ \A w \in Calls : point'[w] = point[w] \/ point'[w] \in {"out", "acquire"}
    BY <1>4 DEF Notify
  <2> QED
    BY <2>1
<1>5. ASSUME NEW p \in Stoppers, Halt(p) PROVE OneDozes'
  BY <1>5 DEF Halt
<1>6. ASSUME NEW p \in Stoppers, NotifyAll(p) PROVE OneDozes'
  <2>1. \A w \in Calls : point'[w] = IF point[w] = "blocked" THEN "acquire" ELSE point[w]
    BY <1>6 DEF NotifyAll, Sleeping
  <2>2. \A t, w \in Calls : point[t] = "window" /\ point[w] = "window" => t = w
    BY DEF WindowHasMutex
  <2> QED
    BY <2>1, <2>2
<1> QED
  BY <1>1, <1>2, <1>3, <1>4, <1>5, <1>6 DEF PoolNext, PoolStep

LEMMA StepSleeperHasWaker == Woken /\ [PoolNext]_poolVars => SleeperHasWaker'
<1> SUFFICES ASSUME Woken, [PoolNext]_poolVars, Sleeping' # {}
             PROVE  \/ pending' # {}
                    \/ \E w \in Calls : point'[w] \in {"hold", "signal"}
                    \/ ~halting' /\ \E w \in Calls : point'[w] = "acquire"
  BY DEF SleeperHasWaker
<1>t. PoolTypeOK
  BY DEF Woken, Owned
<1> USE <1>t DEF PoolTypeOK, stopSide, Move, Leaving
<1>1. CASE UNCHANGED poolVars
  BY <1>1 DEF poolVars, Woken, SleeperHasWaker, Sleeping
<1>2. ASSUME NEW t \in Calls, Arrive(t) \/ Take(t) \/ PutBack(t) \/ WakeUnasked(t) \/ Refuse(t)
      PROVE  \/ pending' # {}
             \/ \E w \in Calls : point'[w] \in {"hold", "signal"}
             \/ ~halting' /\ \E w \in Calls : point'[w] = "acquire"
  <2>1. /\ UNCHANGED stopSide /\ \A w \in Calls \ {t} : point'[w] = point[w]
        /\ point'[t] # "blocked"
    BY <1>2 DEF Arrive, Take, PutBack, WakeUnasked, Refuse
  <2>2. Sleeping # {}
    BY <2>1 DEF Sleeping
  <2>3. \/ point'[t] \in {"hold", "signal"}
        \/ ~halting' /\ point'[t] = "acquire"
        \/ point[t] \notin {"hold", "signal", "acquire"}
        \/ halting /\ point[t] = "acquire"
    BY <1>2 DEF Arrive, Take, PutBack, WakeUnasked, Refuse
  <2> QED
    BY <2>1, <2>2, <2>3 DEF Woken, SleeperHasWaker
<1>3. ASSUME NEW t \in Calls, FindBusy(t) \/ Sleep(t) \/ GiveUp(t)
      PROVE  \E w \in Calls : point'[w] \in {"hold", "signal"}
  <2>1. /\ point[t] # "hold" /\ \A w \in Calls \ {t} : point'[w] = point[w]
    BY <1>3 DEF FindBusy, Sleep, GiveUp
  <2>2. inUse # {}
    <3>1. CASE Sleep(t)
      BY <3>1 DEF Sleep, Woken, Owned, WindowIsBusy
    <3>2. CASE FindBusy(t) \/ GiveUp(t)
      <4>1. ~Available(t)
        BY <3>2 DEF FindBusy, GiveUp
      <4>2. 1 \in Slots
        BY PoolAssumption DEF Slots
      <4> QED
        BY <4>1, <4>2 DEF Available
    <3> QED
      BY <1>3, <3>1, <3>2
  <2> QED
    BY <2>1, <2>2, BusyHasHolder DEF Woken
<1>4. ASSUME NEW t \in Calls, Notify(t)
      PROVE  \/ pending' # {}
             \/ ~halting' /\ \E w \in Calls : point'[w] = "acquire"
  <2>1. PICK woken \in SUBSET Sleeping :
          /\ Sleeping # {} => woken # {}
          /\ point' = [w \in Calls |-> IF w \in woken THEN "acquire"
                                       ELSE IF w = t THEN "out" ELSE point[w]]
    BY <1>4 DEF Notify
  <2>2. Sleeping # {}
    BY <2>1 DEF Sleeping
  <2>3. PICK v \in woken : TRUE
    BY <2>1, <2>2
  <2>4. v \in Calls /\ point[v] = "blocked" /\ point'[v] = "acquire"
    BY <2>1, <2>3 DEF Sleeping
  <2>5. CASE halting /\ pending = {}
    <3>1. \A w \in Calls : point[w] = "blocked" => w = v
      BY <2>4, <2>5 DEF Woken, OneDozes, Dozing
    <3>2. Sleeping' = {}
      BY <2>1, <2>4, <3>1 DEF Sleeping
    <3> QED
      BY <3>2
  <2>6. UNCHANGED stopSide
    BY <1>4 DEF Notify
  <2> QED
    BY <2>4, <2>5, <2>6
<1>5. ASSUME NEW p \in Stoppers, Halt(p) PROVE pending' # {}
  BY <1>5 DEF Halt
<1>6. ASSUME NEW p \in Stoppers, NotifyAll(p) PROVE FALSE
  BY <1>6 DEF NotifyAll, Sleeping
<1> QED
  BY <1>1, <1>2, <1>3, <1>4, <1>5, <1>6 DEF PoolNext, PoolStep

LEMMA AlwaysWoken == PoolSpec => []Woken
<1>1. PoolInit => Woken
  <2>1. ASSUME PoolInit PROVE OneDozes /\ SleeperHasWaker
    <3>1. halting = FALSE /\ \A t \in Calls : point[t] = "out"
      BY <2>1 DEF PoolInit
    <3> QED
      BY <3>1 DEF OneDozes, SleeperHasWaker, Sleeping
  <2> QED
    BY <2>1, InitOwned DEF Woken
<1>2. Woken /\ [PoolNext]_poolVars => Woken'
  <2>1. Woken /\ [PoolNext]_poolVars => Owned'
    BY StepOwned DEF Woken
  <2> QED
    BY <2>1, StepOneDozes, StepSleeperHasWaker DEF Woken
<1> QED
  BY <1>1, <1>2, PTL DEF PoolSpec

\* No sleeper is ever left without somebody who will wake him.
THEOREM SleepersHaveWakers == PoolSpec => []SleeperHasWaker
<1>1. Woken => SleeperHasWaker
  BY DEF Woken
<1> QED
  BY <1>1, AlwaysWoken, PTL

\* stop()'s unlocked notification is missed by at most one thread.
THEOREM AtMostOneMissed == PoolSpec => []OneMissedWakeup
<1>1. Woken => OneMissedWakeup
  BY DEF Woken, OneDozes, Dozing, OneMissedWakeup, Sleeping
<1> QED
  BY <1>1, AlwaysWoken, PTL
=============================================================================
