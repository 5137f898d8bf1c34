------------------------------ MODULE Pipeline ------------------------------
(***************************************************************************)
(* core/proxy/middleware.go, SetupMiddleware: the handler chain.  A        *)
(* request passes the gate of module Scheduler, the traffic logger, the    *)
(* filters (rate limiter, traffic rules, ML protection), and the cache and *)
(* proxy of module CacheMiddleware; on the way back the logger writes its  *)
(* entry, the gate frees the slot and the dashboard recorder counts the    *)
(* request.  Requests that share a result wait for it with a slot in hand. *)
(*                                                                         *)
(* A filter is its verdict here: it lets the request pass or answers 429   *)
(* or 403 and aborts the chain.  What follows c.Next() in a handler is not *)
(* deferred, so a panic skips it; only the gate's release is deferred.     *)
(* Expiry of stored responses is left to module CacheMiddleware.           *)
(***************************************************************************)
EXTENDS Naturals, Sequences, FiniteSets

CONSTANTS Requests, maxConcurrent, Targets, NoOne, MaxForget

VARIABLES
    gate, semaphore, sendq, timer, waitingCount, asyncTimers,
    place, target, store, flight, call, waitsOn, written, cacheOps, calls, forgotten,
    stage,      \* where an admitted request is between the gate and the cache
    logged,     \* log entries written for each request
    recorded    \* requests the dashboard recorder has counted

gateVars  == <<gate, semaphore, sendq, timer, waitingCount, asyncTimers>>
cacheVars == <<place, target, store, flight, call, waitsOn, written, cacheOps, calls, forgotten>>
vars == <<gateVars, cacheVars, stage, logged, recorded>>

Gatekeeper == INSTANCE Scheduler WITH pc <- gate
Cache == INSTANCE CacheMiddleware WITH pc <- place

\* The assumptions of the two components.
ASSUME ComponentAssumptions ==
    Gatekeeper!SchedulerAssumption /\ Cache!CacheAssumption

Stages == {"outside", "cache", "log", "leave"}

Init ==
    /\ Gatekeeper!Init
    /\ Cache!Init
    /\ stage = [r \in Requests |-> "outside"]
    /\ logged = [r \in Requests |-> 0]
    /\ recorded = {}

GoOn(r, s) == stage' = [stage EXCEPT ![r] = s]

\* The gate on its own; each request arrives once.
GateStep(r) ==
    /\ \/ gate[r] = "idle" /\ Gatekeeper!Arrive(r)
       \/ Gatekeeper!Gate(r)
       \/ Gatekeeper!FireTimer(r)
    /\ UNCHANGED <<cacheVars, stage, logged, recorded>>

Filter_GateBypassed(r) ==
    /\ gate[r] \in {"parked", "downstream"} /\ stage[r] = "outside"
    /\ GoOn(r, "cache") \/ GoOn(r, "log")
    /\ UNCHANGED <<gateVars, cacheVars, logged, recorded>>

\* Past the gate and the logger's first half.  Rate limiter, traffic rules
\* and ML protection pass the request on, or one of them aborts the chain
\* and the handlers before it resume.
Filter(r) ==
    /\ gate[r] = "downstream" /\ stage[r] = "outside"
    /\ GoOn(r, "cache") \/ GoOn(r, "log")
    /\ UNCHANGED <<gateVars, cacheVars, logged, recorded>>

CacheStep(r) ==
    /\ stage[r] = "cache"
    /\ Cache!Step(r)
    /\ UNCHANGED <<gateVars, stage, logged, recorded>>

\* The handlers behind the logger have returned.
Returned(r) == stage[r] = "log" \/ (stage[r] = "cache" /\ place[r] = "done")

WriteLog_OnlyProxied(r) ==
    /\ Returned(r)
    /\ logged' = [logged EXCEPT ![r] = IF stage[r] = "cache" THEN @ + 1 ELSE @]
    /\ GoOn(r, "leave")
    /\ UNCHANGED <<gateVars, cacheVars, recorded>>

\* The logger's second half.
WriteLog(r) ==
    /\ Returned(r)
    /\ logged' = [logged EXCEPT ![r] = @ + 1]
    /\ GoOn(r, "leave")
    /\ UNCHANGED <<gateVars, cacheVars, recorded>>

\* The gate's deferred release.
Leave(r) ==
    /\ stage[r] = "leave"
    /\ Gatekeeper!Release(r, "served")
    /\ GoOn(r, "outside")
    /\ UNCHANGED <<timer, waitingCount, asyncTimers, cacheVars, logged, recorded>>

PanicLeaves_SlotKept(r) ==
    /\ stage[r] = "cache" /\ place[r] = "aborted"
    /\ gate' = [gate EXCEPT ![r] = "panicked"]
    /\ GoOn(r, "outside")
    /\ UNCHANGED <<semaphore, sendq, timer, waitingCount, asyncTimers, cacheVars, logged, recorded>>

\* A panic unwinds through the logger and the gate to the recovery handler.
PanicLeaves(r) ==
    /\ stage[r] = "cache" /\ place[r] = "aborted"
    /\ Gatekeeper!Release(r, "panicked")
    /\ GoOn(r, "outside")
    /\ UNCHANGED <<timer, waitingCount, asyncTimers, cacheVars, logged, recorded>>

\* The dashboard recorder, outermost: after any return of c.Next().
Record(r) ==
    /\ gate[r] \in {"served", "rejected"} /\ r \notin recorded
    /\ recorded' = recorded \cup {r}
    /\ UNCHANGED <<gateVars, cacheVars, stage, logged>>

Answered(r) == gate[r] = "panicked" \/ r \in recorded

Terminating == (\A r \in Requests : Answered(r)) /\ UNCHANGED vars

Step(r) ==
    \/ GateStep(r) \/ Filter(r) \/ CacheStep(r)
    \/ WriteLog(r) \/ Leave(r) \/ PanicLeaves(r) \/ Record(r)

Next ==
    \/ \E r \in Requests : Step(r)
    \/ Terminating

Spec == Init /\ [][Next]_vars

\* As in the two components: goroutines run, timers fire, backends answer.
FairSpec == Spec /\ \A r \in Requests : WF_vars(Step(r))

----------------------------------------------------------------------------

\* The type invariant.
TypeOK ==
    /\ Gatekeeper!TypeOK
    /\ Cache!TypeOK
    /\ stage \in [Requests -> Stages]
    /\ logged \in [Requests -> Nat]
    /\ recorded \subseteq Requests

(***************************************************************************)
(* The backend never sees more requests at once than the gate admits: the  *)
(* leaders of coalesced calls together with the requests forwarded outside *)
(* of any call, which are those the cache is not for and those gin passes  *)
(* on when the middleware returns without an answer.                       *)
(***************************************************************************)
BackendWithinLimit ==
    Cardinality({r \in Requests : place[r] \in {"proxying", "direct"}}) <= Gatekeeper!Slots

(***************************************************************************)
(* When everyone has left, every slot is free again, no request is queued  *)
(* and no coalesced call is on record.                                     *)
(***************************************************************************)
NothingLeftBehind ==
    (\A r \in Requests : Answered(r))
        => /\ semaphore = 0 /\ sendq = <<>> /\ waitingCount = 0
           /\ \A k \in Cache!Keys : flight[k] = NoOne

(***************************************************************************)
(* Every request that is answered normally behind the gate (a throttled,   *)
(* blocked, cached or proxied one) has one log entry by the time its slot  *)
(* is free; a 503 of the gate has none (middleware.go:239).                *)
(***************************************************************************)
ServedAreLoggedOnce ==
    \A r \in Requests : /\ gate[r] = "served" => logged[r] = 1
                        /\ gate[r] = "rejected" => logged[r] = 0

(***************************************************************************)
(* Every request gets out: requests that wait for a shared result keep     *)
(* their slots, and yet the one they wait for is never shut out.           *)
(***************************************************************************)
EveryRequestLeaves == \A r \in Requests : gate[r] # "idle" ~> Answered(r)

(***************************************************************************)
(* Every request the gate admits is captured by the traffic logger, as     *)
(* docs/ARCHITECTURE.md and the comments of SetupMiddleware state.         *)
(***************************************************************************)
AdmittedAreLogged ==
    \A r \in Requests : gate[r] \in {"served", "panicked"} => logged[r] = 1
=============================================================================
