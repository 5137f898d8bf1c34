--------------------------- MODULE PipelineProofs ---------------------------
(***************************************************************************)
(* The whole handler chain for every set of requests, every limit and      *)
(* every set of targets.  The theorems of the gate and of the cache        *)
(* middleware are used as they stand: every step of the chain is a step of *)
(* each of them or leaves it alone.                                        *)
(***************************************************************************)
EXTENDS Pipeline, FiniteSetTheorems, TLAPS

\* The gate and the cache with their theorems.
G == INSTANCE SchedulerProofs WITH pc <- gate
C == INSTANCE CacheMiddlewareProofs WITH pc <- place

\* How the three parts follow one request.
Along(r) ==
    /\ stage[r] # "outside" => gate[r] = "downstream"
    /\ stage[r] # "cache" => place[r] \in {"idle", "done", "aborted"}
    /\ logged[r] = IF gate[r] = "served" \/ stage[r] = "leave" THEN 1 ELSE 0
    /\ r \in recorded => gate[r] \in {"served", "rejected"}

(***************************************************************************)
(* The inductive invariant: those of the two components, and for each      *)
(* request what the chain lets it be in both at once.                      *)
(***************************************************************************)
JInv ==
    /\ G!IInv /\ C!IInv
    /\ stage \in [Requests -> Stages] /\ logged \in [Requests -> Nat]
    /\ recorded \subseteq Requests
    /\ \A r \in Requests : Along(r)

----------------------------------------------------------------------------

\* The components' assumptions.
LEMMA Components ==
    /\ G!IsFiniteSet(Requests) /\ maxConcurrent \in Int
    /\ NoOne \notin Requests /\ MaxForget \in Nat
    /\ \A t \in Targets : DOMAIN t = {"safe", "path", "query"}
BY ComponentAssumptions DEF Gatekeeper!SchedulerAssumption, Gatekeeper!IsFiniteSet,
   G!IsFiniteSet, Cache!CacheAssumption

\* The gate of the chain is the gate the theorems are about.
LEMMA SameGate ==
    /\ Gatekeeper!Init => G!Init
    /\ \A r \in Requests : /\ Gatekeeper!Arrive(r) => G!Arrive(r)
                           /\ Gatekeeper!Gate(r) => G!Gate(r)
                           /\ Gatekeeper!FireTimer(r) => G!FireTimer(r)
                           /\ \A p : Gatekeeper!Release(r, p) => G!Release(r, p)
<1>1. Gatekeeper!Init => G!Init
  BY DEF Gatekeeper!Init, G!Init
<1>2. ASSUME NEW r \in Requests
      PROVE  /\ Gatekeeper!Arrive(r) => G!Arrive(r)
             /\ \A p : Gatekeeper!Release(r, p) => G!Release(r, p)
  BY DEF Gatekeeper!Arrive, G!Arrive, Gatekeeper!Outside, G!Outside, Gatekeeper!Goto, G!Goto,
         Gatekeeper!Release, G!Release
<1>3. ASSUME NEW r \in Requests, Gatekeeper!FireTimer(r)
      PROVE  G!FireTimer(r)
  BY <1>3, Zenon DEF Gatekeeper!FireTimer, G!FireTimer, Gatekeeper!Goto, G!Goto,
         Gatekeeper!RemoveAt, G!RemoveAt
<1>4. ASSUME NEW r \in Requests, Gatekeeper!Gate(r)
      PROVE  G!Gate(r)
  BY <1>4, Zenon DEF Gatekeeper!Gate, G!Gate, Gatekeeper!Goto, G!Goto,
     Gatekeeper!CountWaiting, G!CountWaiting, Gatekeeper!SelectSlot, G!SelectSlot,
     Gatekeeper!SlotFree, G!SlotFree, Gatekeeper!Slots, G!Slots,
     Gatekeeper!SelectTimeout, G!SelectTimeout, Gatekeeper!SelectPark, G!SelectPark,
     Gatekeeper!UncountAdmitted, G!UncountAdmitted, Gatekeeper!StopTimer, G!StopTimer,
     Gatekeeper!DrainTimer, G!DrainTimer, Gatekeeper!Reject, G!Reject
<1> QED
  BY <1>1, <1>2, <1>3, <1>4

\* And the cache is the cache.
LEMMA SameCache ==
    /\ Cache!Init => C!Init
    /\ \A r \in Requests : Cache!Step(r) => C!Step(r)
<1>1. Cache!Init => C!Init
  BY Zenon DEF Cache!Init, C!Init, Cache!Keys, C!Keys, Cache!cacheKey, C!cacheKey,
     Cache!Missing, C!Missing, Cache!NoCall, C!NoCall
<1>2. ASSUME NEW r \in Requests, Cache!Step(r) PROVE C!Step(r)
  BY <1>2, Zenon DEF Cache!Step, C!Step, Cache!Goto, C!Goto, Cache!Write, C!Write,
     Cache!key, C!key, Cache!cacheKey, C!cacheKey, Cache!Missing, C!Missing, Cache!Hit, C!Hit,
     Cache!Miss, C!Miss, Cache!Answer, C!Answer, Cache!Classes, C!Classes,
     Cache!Admissible, C!Admissible, Cache!shared, C!shared, Cache!Result, C!Result,
     Cache!Arrive, C!Arrive, Cache!Lookup, C!Lookup, Cache!Lead, C!Lead, Cache!Join, C!Join,
     Cache!DoubleCheck, C!DoubleCheck, Cache!Proxy, C!Proxy, Cache!Admit, C!Admit,
     Cache!Finish, C!Finish, Cache!Unwind, C!Unwind, Cache!Wake, C!Wake, Cache!Post, C!Post,
     Cache!Direct, C!Direct
<1> QED
  BY <1>1, <1>2

\* A step of the gate, or none, keeps the gate's invariant.
LEMMA GateKeeps == G!IInv /\ [G!Next]_(G!vars) => G!IInv'
BY Components, G!StepIInv

\* A step of the cache, or none, keeps the cache's invariant.
LEMMA CacheKeeps == C!IInv /\ [C!Next]_(C!vars) => C!IInv'
BY Components, C!NextIInv

----------------------------------------------------------------------------

\* Before the handlers behind it run, the gate moves one request at a time,
\* and none that is in those handlers or has left.
LEMMA GateMoves ==
    ASSUME G!IInv, NEW r \in Requests,
           (G!Arrive(r) /\ gate[r] = "idle") \/ G!Gate(r) \/ G!FireTimer(r)
    PROVE  /\ \A q \in Requests : q # r => gate'[q] = gate[q]
           /\ gate[r] \in {"downstream", "served", "rejected", "panicked"} => gate'[r] = gate[r]
           /\ gate'[r] = "served" => gate[r] = "served"
           /\ [G!Next]_(G!vars)
<1>1. gate \in [Requests -> G!Places]
  BY DEF G!IInv, G!TypeOK
<1>2. [G!Next]_(G!vars)
  BY DEF G!Next
<1>3. CASE G!Arrive(r) /\ gate[r] = "idle"
  BY <1>1, <1>2, <1>3 DEF G!Arrive, G!Goto
<1>4. CASE G!Gate(r)
  BY <1>1, <1>2, <1>4 DEF G!Gate, G!Goto, G!CountWaiting, G!SelectSlot, G!SelectTimeout,
     G!SelectPark, G!UncountAdmitted, G!StopTimer, G!DrainTimer, G!Reject
<1>5. CASE G!FireTimer(r)
  BY <1>1, <1>2, <1>5 DEF G!FireTimer, G!Goto
<1> QED
  BY <1>3, <1>4, <1>5

\* The release moves the request out, and perhaps a parked one in.
LEMMA ReleaseMoves ==
    ASSUME G!IInv, NEW r \in Requests, gate[r] = "downstream", NEW p \in {"served", "panicked"},
           G!Release(r, p), UNCHANGED <<timer, waitingCount, asyncTimers>>
    PROVE  /\ gate'[r] = p
           /\ \A q \in Requests : q # r => \/ gate'[q] = gate[q]
                                           \/ gate[q] = "parked" /\ gate'[q] = "acquired"
           /\ [G!Next]_(G!vars)
<1>1. gate \in [Requests -> G!Places] /\ sendq \in Seq(Requests)
  BY DEF G!IInv, G!TypeOK
<1>2. [G!Next]_(G!vars)
  BY DEF G!Next, G!Finish
<1>3. CASE sendq = <<>>
  BY <1>1, <1>2, <1>3 DEF G!Release, G!Goto
<1>4. CASE sendq # <<>>
  <2>1. Head(sendq) \in Requests /\ Head(sendq) = sendq[1] /\ 1 \in 1 .. Len(sendq)
    BY <1>1, <1>4
  <2>2. gate[Head(sendq)] = "parked"
    BY <2>1 DEF G!IInv, G!QueueMatchesParked
  <2>3. gate' = [gate EXCEPT ![r] = p, ![Head(sendq)] = "acquired"]
    BY <1>4 DEF G!Release
  <2> QED
    BY <1>1, <1>2, <2>1, <2>2, <2>3
<1> QED
  BY <1>3, <1>4

\* The cache moves one request at a time.
LEMMA CacheMoves ==
    ASSUME C!IInv, NEW r \in Requests, C!Step(r)
    PROVE  /\ \A q \in Requests : q # r => place'[q] = place[q]
           /\ [C!Next]_(C!vars)
<1>1. place \in [Requests -> C!Places]
  BY DEF C!IInv, C!TypeOK
<1>2. [C!Next]_(C!vars)
  BY DEF C!Next
<1>3. \E x : place' = [place EXCEPT ![r] = x]
  BY DEF C!Step, C!Goto, C!Arrive, C!Lookup, C!Lead, C!Join, C!DoubleCheck, C!Proxy, C!Admit,
     C!Finish, C!Unwind, C!Wake, C!Post, C!Direct
<1> QED
  BY <1>1, <1>2, <1>3

----------------------------------------------------------------------------

\* The initial states.
LEMMA InitJInv == Init => JInv
<1> SUFFICES ASSUME Init PROVE JInv
  OBVIOUS
<1>1. G!IInv
  BY SameGate, Components, G!InitIInv DEF Init
<1>2. C!IInv
  BY SameCache, Components, C!InitIInv DEF Init
<1>3. \A r \in Requests : gate[r] = "idle" /\ place[r] = "idle"
  BY DEF Init, Gatekeeper!Init, Cache!Init
<1> QED
  BY <1>1, <1>2, <1>3 DEF Init, JInv, Along, Stages

\* A step that leaves the cache alone keeps its invariant; likewise the gate.
LEMMA Alone ==
    /\ C!IInv /\ UNCHANGED cacheVars => C!IInv'
    /\ G!IInv /\ UNCHANGED gateVars => G!IInv'
<1>1. UNCHANGED cacheVars => [C!Next]_(C!vars)
  BY DEF cacheVars, C!vars
<1>2. UNCHANGED gateVars => [G!Next]_(G!vars)
  BY DEF gateVars, G!vars
<1> QED
  BY <1>1, <1>2, GateKeeps, CacheKeeps

\* Every step of every request keeps the invariant.
LEMMA StepJInv == ASSUME JInv, NEW r \in Requests, Step(r) PROVE JInv'
<1>1. /\ G!IInv /\ C!IInv /\ stage \in [Requests -> Stages] /\ logged \in [Requests -> Nat]
      /\ recorded \subseteq Requests
      /\ \A q \in Requests : Along(q)
  BY DEF JInv
<1>2. CASE GateStep(r)
  <2>1. /\ (G!Arrive(r) /\ gate[r] = "idle") \/ G!Gate(r) \/ G!FireTimer(r)
        /\ UNCHANGED cacheVars /\ UNCHANGED <<stage, logged, recorded>>
    BY <1>2, SameGate DEF GateStep
  <2>2. G!IInv' /\ C!IInv'
    BY <1>1, <2>1, GateMoves, GateKeeps, Alone
  <2>3. ASSUME NEW q \in Requests PROVE Along(q)'
    BY <1>1, <2>1, GateMoves DEF Along, cacheVars
  <2> QED
    BY <1>1, <2>1, <2>2, <2>3 DEF JInv
<1>3. CASE Filter(r)
  <2>1. /\ gate[r] = "downstream" /\ stage[r] = "outside"
        /\ stage' = [stage EXCEPT ![r] = "cache"] \/ stage' = [stage EXCEPT ![r] = "log"]
        /\ UNCHANGED gateVars /\ UNCHANGED cacheVars /\ UNCHANGED <<logged, recorded>>
    BY <1>3 DEF Filter, GoOn
  <2>2. stage' \in [Requests -> Stages]
    BY <1>1, <2>1 DEF Stages
  <2>3. ASSUME NEW q \in Requests PROVE Along(q)'
    BY <1>1, <2>1 DEF Along, gateVars, cacheVars
  <2> QED
    BY <1>1, <2>1, <2>2, <2>3, Alone DEF JInv
<1>4. CASE CacheStep(r)
  <2>1. /\ stage[r] = "cache" /\ C!Step(r)
        /\ UNCHANGED gateVars /\ UNCHANGED <<stage, logged, recorded>>
    BY <1>4, SameCache DEF CacheStep
  <2>2. G!IInv' /\ C!IInv'
    BY <1>1, <2>1, CacheMoves, CacheKeeps, Alone
  <2>3. ASSUME NEW q \in Requests PROVE Along(q)'
    BY <1>1, <2>1, CacheMoves DEF Along, gateVars
  <2> QED
    BY <1>1, <2>1, <2>2, <2>3 DEF JInv
<1>5. CASE WriteLog(r)
  <2>1. /\ Returned(r) /\ logged' = [logged EXCEPT ![r] = @ + 1]
        /\ stage' = [stage EXCEPT ![r] = "leave"]
        /\ UNCHANGED gateVars /\ UNCHANGED cacheVars /\ UNCHANGED recorded
    BY <1>5 DEF WriteLog, GoOn
  <2>2. stage' \in [Requests -> Stages] /\ logged' \in [Requests -> Nat]
    BY <1>1, <2>1 DEF Stages
  <2>3. gate[r] = "downstream" /\ logged[r] = 0 /\ place[r] \in {"idle", "done", "aborted"}
    BY <1>1, <2>1 DEF Returned, Along
  <2>4. ASSUME NEW q \in Requests PROVE Along(q)'
    BY <1>1, <2>1, <2>3 DEF Along, gateVars, cacheVars
  <2> QED
    BY <1>1, <2>1, <2>2, <2>4, Alone DEF JInv
<1>6. ASSUME NEW p \in {"served", "panicked"}, p = "served" <=> stage[r] = "leave",
             gate[r] = "downstream", place[r] \in {"idle", "done", "aborted"},
             G!Release(r, p), GoOn(r, "outside"),
             UNCHANGED <<timer, waitingCount, asyncTimers, cacheVars, logged, recorded>>
      PROVE  JInv'
  <2>1. stage' = [stage EXCEPT ![r] = "outside"] /\ stage' \in [Requests -> Stages]
    BY <1>1, <1>6 DEF GoOn, Stages
  <2>2. G!IInv' /\ C!IInv'
    BY <1>1, <1>6, ReleaseMoves, GateKeeps, Alone
  <2>3. /\ gate'[r] = p
        /\ \A q \in Requests : q # r => \/ gate'[q] = gate[q]
                                        \/ gate[q] = "parked" /\ gate'[q] = "acquired"
    BY <1>1, <1>6, ReleaseMoves
  <2>4. ASSUME NEW q \in Requests PROVE Along(q)'
    BY <1>1, <1>6, <2>1, <2>3 DEF Along, cacheVars
  <2> QED
    BY <1>1, <1>6, <2>1, <2>2, <2>4 DEF JInv
<1>7. CASE Leave(r)
  <2>1. /\ G!Release(r, "served") /\ gate[r] = "downstream"
        /\ place[r] \in {"idle", "done", "aborted"}
    BY <1>1, <1>7, SameGate DEF Leave, Along
  <2> QED
    BY <1>6, <1>7, <2>1 DEF Leave
<1>8. CASE PanicLeaves(r)
  <2>1. G!Release(r, "panicked") /\ gate[r] = "downstream"
    BY <1>1, <1>8, SameGate DEF PanicLeaves, Along
  <2> QED
    BY <1>6, <1>8, <2>1 DEF PanicLeaves
<1>9. CASE Record(r)
  <2>1. /\ gate[r] \in {"served", "rejected"} /\ recorded' = recorded \cup {r}
        /\ UNCHANGED gateVars /\ UNCHANGED cacheVars /\ UNCHANGED <<stage, logged>>
    BY <1>9 DEF Record
  <2>2. ASSUME NEW q \in Requests PROVE Along(q)'
    BY <1>1, <2>1 DEF Along, gateVars, cacheVars
  <2> QED
    BY <1>1, <2>1, <2>2, Alone DEF JInv
<1> QED
  BY <1>2, <1>3, <1>4, <1>5, <1>7, <1>8, <1>9 DEF Step

\* The chain's invariant holds in every reachable state.
THEOREM Invariance == Spec => []JInv
<1>1. JInv /\ UNCHANGED vars => JInv'
  BY Alone DEF vars, gateVars, cacheVars, JInv, Along
<1>2. JInv /\ [Next]_vars => JInv'
  BY <1>1, StepJInv DEF Next, Terminating
<1> QED
  BY <1>2, InitJInv, PTL DEF Spec

----------------------------------------------------------------------------

(***************************************************************************)
(* Gate, cache and chain keep their types in the composition.              *)
(***************************************************************************)
THEOREM ChainTyped == Spec => []TypeOK
<1>1. JInv => TypeOK
  BY DEF JInv, TypeOK, G!IInv, C!IInv, G!TypeOK, Gatekeeper!TypeOK, G!Places,
     Gatekeeper!Places, G!Outside, Gatekeeper!Outside, G!Slots, Gatekeeper!Slots,
     G!TimerStates, Gatekeeper!TimerStates, C!TypeOK, Cache!TypeOK, C!Places, Cache!Places,
     C!Keys, Cache!Keys, C!cacheKey, Cache!cacheKey, C!Response, Cache!Response, C!Classes,
     Cache!Classes, C!Missing, Cache!Missing
<1> QED
  BY <1>1, Invariance, PTL

(***************************************************************************)
(* The backend never has more requests at once than the gate has slots.    *)
(***************************************************************************)
THEOREM BackendLimit == Spec => []BackendWithinLimit
<1> DEFINE Out == {r \in Requests : place[r] \in {"proxying", "direct"}}
<1>1. JInv => Cardinality(Out) <= Gatekeeper!Slots
  <2> SUFFICES ASSUME JInv PROVE Cardinality(Out) <= Gatekeeper!Slots
    OBVIOUS
  <2>1. Out \subseteq G!Holders
    BY DEF JInv, Along, G!Holders
  <2>2. IsFiniteSet(Requests) /\ G!Holders \subseteq Requests
    BY Components DEF IsFiniteSet, G!IsFiniteSet, G!Holders
  <2>3. Cardinality(Out) <= Cardinality(G!Holders) /\ Cardinality(Out) \in Nat
    BY <2>1, <2>2, FS_Subset, FS_CardinalityType
  <2>4. Cardinality(G!Holders) = G!Cardinality(G!Holders)
    BY DEF Cardinality, G!Cardinality
  <2>5. G!Cardinality(G!Holders) = semaphore /\ semaphore \in 0 .. G!Slots
    BY DEF JInv, G!IInv, G!SlotAccounting, G!TypeOK
  <2>6. G!Slots = Gatekeeper!Slots /\ G!Slots \in Nat
    BY Components DEF G!Slots, Gatekeeper!Slots
  <2> QED
    BY <2>3, <2>4, <2>5, <2>6
<1>2. JInv => BackendWithinLimit
  BY <1>1 DEF BackendWithinLimit
<1> QED
  BY <1>2, Invariance, PTL

(***************************************************************************)
(* When every request has been answered the gate and the group are empty.  *)
(***************************************************************************)
THEOREM LeavesNothing == Spec => []NothingLeftBehind
<1>1. JInv => NothingLeftBehind
  <2> SUFFICES ASSUME JInv, \A r \in Requests : Answered(r)
               PROVE  /\ semaphore = 0 /\ sendq = <<>> /\ waitingCount = 0
                      /\ \A k \in Cache!Keys : flight[k] = NoOne
    BY DEF NothingLeftBehind
  <2>1. \A r \in Requests : /\ gate[r] \in {"panicked", "served", "rejected"}
                            /\ place[r] \in {"idle", "done", "aborted"}
    BY DEF JInv, Along, Answered
  <2>2. G!Holders = {} /\ G!Counted = {}
    BY <2>1 DEF G!Holders, G!Counted
  <2>3. semaphore = 0 /\ waitingCount = 0
    <3>1. G!Cardinality({}) = 0
      <4>1. Cardinality({}) = 0
        BY FS_EmptySet
      <4> QED
        BY <4>1 DEF Cardinality, G!Cardinality
    <3> QED
      BY <2>2, <3>1 DEF JInv, G!IInv, G!SlotAccounting, G!WaitingAccounting
  <2>4. sendq = <<>>
    <3> SUFFICES ASSUME sendq # <<>> PROVE FALSE
      OBVIOUS
    <3>1. sendq \in Seq(Requests)
      BY DEF JInv, G!IInv, G!TypeOK
    <3>2. 1 \in 1 .. Len(sendq) /\ sendq[1] \in Requests
      BY <3>1
    <3>3. gate[sendq[1]] = "parked"
      BY <3>2 DEF JInv, G!IInv, G!QueueMatchesParked
    <3> QED
      BY <2>1, <3>2, <3>3
  <2>5. ASSUME NEW k \in Cache!Keys PROVE flight[k] = NoOne
    <3>1. k \in C!Keys
      BY DEF C!Keys, Cache!Keys, C!cacheKey, Cache!cacheKey
    <3>2. flight[k] \in Requests \cup {NoOne}
      BY <3>1 DEF JInv, C!IInv, C!TypeOK
    <3>3. flight[k] # NoOne => place[flight[k]] \in C!Running
      BY <3>1 DEF JInv, C!IInv, C!FlightMatches
    <3> QED
      BY <2>1, <3>2, <3>3 DEF C!Running
  <2> QED
    BY <2>3, <2>4, <2>5
<1> QED
  BY <1>1, Invariance, PTL

(***************************************************************************)
(* A request that was served has one log entry, one the gate refused none. *)
(***************************************************************************)
THEOREM ServedLogged == Spec => []ServedAreLoggedOnce
<1>1. JInv => ServedAreLoggedOnce
  BY DEF JInv, Along, ServedAreLoggedOnce
<1> QED
  BY <1>1, Invariance, PTL

(***************************************************************************)
(* Within the chain the gate and the cache behave as their own             *)
(* specifications say: the chain implements both.                          *)
(***************************************************************************)
THEOREM ChainImplements == Spec => G!Spec /\ C!Spec
<1>1. Init => G!Init /\ C!Init
  BY SameGate, SameCache DEF Init
<1>2. JInv /\ [Next]_vars => [G!Next]_(G!vars) /\ [C!Next]_(C!vars)
  <2> SUFFICES ASSUME JInv, [Next]_vars PROVE [G!Next]_(G!vars) /\ [C!Next]_(C!vars)
    OBVIOUS
  <2>1. ASSUME UNCHANGED gateVars PROVE [G!Next]_(G!vars)
    BY <2>1 DEF gateVars, G!vars
  <2>2. ASSUME UNCHANGED cacheVars PROVE [C!Next]_(C!vars)
    BY <2>2 DEF cacheVars, C!vars
  <2>3. CASE UNCHANGED vars
    BY <2>1, <2>2, <2>3 DEF vars
  <2>4. ASSUME NEW r \in Requests, Step(r)
        PROVE  [G!Next]_(G!vars) /\ [C!Next]_(C!vars)
    <3>1. CASE GateStep(r)
      BY <2>2, <3>1, SameGate, GateMoves DEF GateStep, JInv
    <3>2. CASE Filter(r)
      BY <2>1, <2>2, <3>2 DEF Filter
    <3>3. CASE CacheStep(r)
      BY <2>1, <3>3, SameCache, CacheMoves DEF CacheStep, JInv
    <3>4. CASE WriteLog(r)
      BY <2>1, <2>2, <3>4 DEF WriteLog
    <3>5. CASE Leave(r)
      <4>1. gate[r] = "downstream" /\ G!Release(r, "served") /\ G!IInv
            /\ UNCHANGED <<timer, waitingCount, asyncTimers>> /\ UNCHANGED cacheVars
        BY <3>5, SameGate DEF Leave, JInv, Along
      <4> QED
        BY <2>2, <4>1, ReleaseMoves
    <3>6. CASE PanicLeaves(r)
      <4>1. gate[r] = "downstream" /\ G!Release(r, "panicked") /\ G!IInv
            /\ UNCHANGED <<timer, waitingCount, asyncTimers>> /\ UNCHANGED cacheVars
        BY <3>6, SameGate DEF PanicLeaves, JInv, Along
      <4> QED
        BY <2>2, <4>1, ReleaseMoves
    <3>7. CASE Record(r)
      BY <2>1, <2>2, <3>7 DEF Record
    <3> QED
      BY <2>4, <3>1, <3>2, <3>3, <3>4, <3>5, <3>6, <3>7 DEF Step
  <2> QED
    BY <2>3, <2>4 DEF Next, Terminating
<1> QED
  BY <1>1, <1>2, Invariance, PTL DEF Spec, G!Spec, C!Spec
=============================================================================
