----------------------------- MODULE Scheduler -----------------------------
(***************************************************************************)
(* core/scheduler/scheduler.go: the admission gate in front of the whole   *)
(* pipeline.  A buffered channel is the semaphore; a request waits in a    *)
(* select for a slot or for its queue timer, keeps an atomic count of the  *)
(* waiters, and gives its slot back in a deferred receive.                 *)
(*                                                                         *)
(* The Go channel and timer are external.  A sender that finds the channel *)
(* full parks in its FIFO queue, and a receive hands the freed place       *)
(* straight to the first parked sender.  A timer that fires wakes a parked *)
(* select, and otherwise leaves its value in timer.C.  asyncTimers tells   *)
(* the two semantics of Timer.Stop apart: since Go 1.23 Stop removes an    *)
(* unreceived value and returns true; before (GODEBUG asynctimerchan=1) it *)
(* returns false and the value stays in the channel.                       *)
(***************************************************************************)
EXTENDS Integers, Sequences, FiniteSets, SequencesExt

CONSTANTS
    Requests,       \* request goroutines of the HTTP server
    maxConcurrent   \* the configured limit, any integer

ASSUME SchedulerAssumption ==
    /\ IsFiniteSet(Requests)
    /\ maxConcurrent \in Int

VARIABLES
    pc,             \* where each request is in the middleware
    semaphore,      \* len(s.semaphore)
    sendq,          \* requests parked on the full channel, oldest first
    timer,          \* each request's queue timer
    waitingCount,   \* s.waitingCount
    asyncTimers     \* the timer semantics of the build, fixed

vars == <<pc, semaphore, sendq, timer, waitingCount, asyncTimers>>

\* New: a limit that is not positive becomes one slot.
Slots == IF maxConcurrent <= 0 THEN 1 ELSE maxConcurrent

Outside == {"idle", "served", "panicked", "rejected"}
Places  == Outside \cup {"arrived", "select", "parked", "acquired", "stopTimer",
                         "drain", "downstream", "timedOut"}

\* "none": no timer; "armed": running; "fired": its value is in timer.C;
\* "empty": stopped, or the value was received.
TimerStates == {"none", "armed", "fired", "empty"}

Init ==
    /\ pc = [r \in Requests |-> "idle"]
    /\ semaphore = 0
    /\ sendq = <<>>
    /\ timer = [r \in Requests |-> "none"]
    /\ waitingCount = 0
    /\ asyncTimers \in BOOLEAN

Goto(r, place) == pc' = [pc EXCEPT ![r] = place]

----------------------------------------------------------------------------
(* The middleware, statement by statement. *)

Arrive_TimerNotStarted(r) ==
    /\ pc[r] \in Outside
    /\ Goto(r, "arrived")
    /\ UNCHANGED <<timer, semaphore, sendq, waitingCount, asyncTimers>>

\* timer := time.NewTimer(s.timeout)
Arrive(r) ==
    /\ pc[r] \in Outside
    /\ Goto(r, "arrived")
    /\ timer' = [timer EXCEPT ![r] = "armed"]
    /\ UNCHANGED <<semaphore, sendq, waitingCount, asyncTimers>>

\* s.waitingCount.Add(1)
CountWaiting(r) ==
    /\ pc[r] = "arrived"
    /\ Goto(r, "select")
    /\ waitingCount' = waitingCount + 1
    /\ UNCHANGED <<semaphore, sendq, timer, asyncTimers>>

SlotFree == semaphore < Slots

\* case s.semaphore <- struct{}{}, ready at once
SelectSlot(r) ==
    /\ pc[r] = "select"
    /\ SlotFree
    /\ semaphore' = semaphore + 1
    /\ Goto(r, "acquired")
    /\ UNCHANGED <<sendq, timer, waitingCount, asyncTimers>>

\* case <-timer.C, ready at once; with a free slot too, either case may run
SelectTimeout(r) ==
    /\ pc[r] = "select"
    /\ timer[r] = "fired"
    /\ timer' = [timer EXCEPT ![r] = "empty"]
    /\ Goto(r, "timedOut")
    /\ UNCHANGED <<semaphore, sendq, waitingCount, asyncTimers>>

\* neither case is ready: the goroutine parks on both channels
SelectPark(r) ==
    /\ pc[r] = "select"
    /\ ~SlotFree
    /\ timer[r] # "fired"
    /\ sendq' = Append(sendq, r)
    /\ Goto(r, "parked")
    /\ UNCHANGED <<semaphore, timer, waitingCount, asyncTimers>>

\* The runtime fires the timer, at any time after it was armed.
FireTimer(r) ==
    /\ timer[r] = "armed"
    /\ IF pc[r] = "parked"
         THEN /\ timer' = [timer EXCEPT ![r] = "empty"]
              /\ \E i \in DOMAIN sendq : /\ sendq[i] = r
                                         /\ sendq' = RemoveAt(sendq, i)
              /\ Goto(r, "timedOut")
         ELSE /\ timer' = [timer EXCEPT ![r] = "fired"]
              /\ UNCHANGED <<sendq, pc>>
    /\ UNCHANGED <<semaphore, waitingCount, asyncTimers>>

\* s.waitingCount.Add(-1) in the slot case
UncountAdmitted(r) ==
    /\ pc[r] = "acquired"
    /\ waitingCount' = waitingCount - 1
    /\ Goto(r, "stopTimer")
    /\ UNCHANGED <<semaphore, sendq, timer, asyncTimers>>

StopTimer_AlwaysDrain(r) ==
    /\ pc[r] = "stopTimer"
    /\ timer' = [timer EXCEPT ![r] = IF asyncTimers /\ @ = "fired" THEN @ ELSE "empty"]
    /\ Goto(r, "drain")
    /\ UNCHANGED <<semaphore, sendq, waitingCount, asyncTimers>>

\* if !timer.Stop() { <-timer.C }: the receive is reached only when Stop
\* reports that the value was already sent and leaves it in the channel.
StopTimer(r) ==
    /\ pc[r] = "stopTimer"
    /\ IF asyncTimers /\ timer[r] = "fired"
         THEN /\ Goto(r, "drain")
              /\ UNCHANGED timer
         ELSE /\ Goto(r, "downstream")
              /\ timer' = [timer EXCEPT ![r] = "empty"]
    /\ UNCHANGED <<semaphore, sendq, waitingCount, asyncTimers>>

\* <-timer.C blocks while the channel is empty
DrainTimer(r) ==
    /\ pc[r] = "drain"
    /\ timer[r] = "fired"
    /\ timer' = [timer EXCEPT ![r] = "empty"]
    /\ Goto(r, "downstream")
    /\ UNCHANGED <<semaphore, sendq, waitingCount, asyncTimers>>

Release_NotDeferred(r, place) ==
    /\ IF place = "panicked" \/ sendq # <<>>
         THEN UNCHANGED semaphore
         ELSE semaphore' = semaphore - 1
    /\ UNCHANGED sendq
    /\ Goto(r, place)

\* defer func() { <-s.semaphore }(): the freed place goes to the first
\* parked sender, whose select then takes the slot case.
Release(r, place) ==
    IF sendq = <<>>
      THEN /\ semaphore' = semaphore - 1
           /\ Goto(r, place)
           /\ UNCHANGED sendq
      ELSE /\ pc' = [pc EXCEPT ![r] = place, ![Head(sendq)] = "acquired"]
           /\ sendq' = Tail(sendq)
           /\ UNCHANGED semaphore

\* c.Next() returns, or panics through the deferred release into the
\* engine's recovery.
Finish(r) ==
    /\ pc[r] = "downstream"
    /\ \E place \in {"served", "panicked"} : Release(r, place)
    /\ UNCHANGED <<timer, waitingCount, asyncTimers>>

Reject_Twice(r) ==
    /\ pc[r] = "timedOut"
    /\ waitingCount' = waitingCount - 2
    /\ Goto(r, "rejected")
    /\ UNCHANGED <<semaphore, sendq, timer, asyncTimers>>

\* s.waitingCount.Add(-1) and the 503 answer in the timer case
Reject(r) ==
    /\ pc[r] = "timedOut"
    /\ waitingCount' = waitingCount - 1
    /\ Goto(r, "rejected")
    /\ UNCHANGED <<semaphore, sendq, timer, asyncTimers>>

\* Everything the request's own goroutine does between its arrival and the
\* downstream handlers.
Gate(r) ==
    \/ CountWaiting(r)
    \/ SelectSlot(r)
    \/ SelectTimeout(r)
    \/ SelectPark(r)
    \/ UncountAdmitted(r)
    \/ StopTimer(r)
    \/ DrainTimer(r)
    \/ Reject(r)

Next == \E r \in Requests : Arrive(r) \/ Gate(r) \/ FireTimer(r) \/ Finish(r)

Spec == Init /\ [][Next]_vars

(***************************************************************************)
(* A runnable goroutine runs and an armed timer fires.  Nothing is assumed *)
(* of Finish: a backend may hang, and no timeout in the proxy ends it.     *)
(***************************************************************************)
Fairness == \A r \in Requests : WF_vars(Gate(r)) /\ WF_vars(FireTimer(r))

FairSpec == Spec /\ Fairness

----------------------------------------------------------------------------

\* The type invariant.
TypeOK ==
    /\ pc \in [Requests -> Places]
    /\ semaphore \in 0 .. Slots
    /\ sendq \in Seq(Requests)
    /\ timer \in [Requests -> TimerStates]
    /\ waitingCount \in Nat
    /\ asyncTimers \in BOOLEAN

\* The requests that own a place in the channel, and the ones it counts as
\* waiting.
Holders  == {r \in Requests : pc[r] \in {"acquired", "stopTimer", "drain", "downstream"}}
Counted  == {r \in Requests : pc[r] \in {"select", "parked", "acquired", "timedOut"}}

(***************************************************************************)
(* No slot leaks and none is shared: the channel holds exactly one token   *)
(* per request between its admission and the deferred release, on every    *)
(* path, a panicking handler and a handed-over slot included.  With TypeOK *)
(* this bounds the requests past the gate (scheduler.go:40-50).            *)
(***************************************************************************)
SlotAccounting == semaphore = Cardinality(Holders)

(***************************************************************************)
(* WaitingCount, the dashboard's queue gauge, is the number of requests    *)
(* between the increment and the decrement of the branch they took: no     *)
(* branch forgets it or does it twice (scheduler.go:36,41,54).             *)
(***************************************************************************)
WaitingAccounting == waitingCount = Cardinality(Counted)

(***************************************************************************)
(* The gate is work conserving: while a request is parked every slot is    *)
(* taken, so a newcomer never overtakes a parked request and a parked      *)
(* request that times out does so at capacity.                             *)
(***************************************************************************)
WorkConserving == sendq # <<>> => ~SlotFree

(***************************************************************************)
(* The receive after a failed Stop never blocks: a goroutine that holds a  *)
(* slot and reaches <-timer.C finds the value there, under either timer    *)
(* semantics (scheduler.go:42-44).                                         *)
(***************************************************************************)
DrainNeverBlocks == \A r \in Requests : pc[r] = "drain" => timer[r] = "fired"

(***************************************************************************)
(* Every request that enters the gate is admitted or refused, even when    *)
(* the requests holding the slots never finish (scheduler.go:39-55).       *)
(***************************************************************************)
EveryRequestDecided ==
    \A r \in Requests : pc[r] = "arrived" ~> pc[r] \in {"downstream", "rejected"}

=============================================================================
