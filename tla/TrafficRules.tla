---------------------------- MODULE TrafficRules ----------------------------
(***************************************************************************)
(* core/security/traffic_rules.go: sliding-window counters per client      *)
(* (burst) and per client and endpoint (endpoint abuse).  A request takes  *)
(* the lock twice, once per rule, so other requests, the clock and the     *)
(* cleanup manager come in between.                                        *)
(***************************************************************************)
EXTENDS Integers, Sequences, FiniteSets, SequencesExt, Filtering

CONSTANTS
    IPs, Endpoints,
    burstThreshold, burstWindow,
    endpointThreshold, endpointWindow,
    MaxTime,        \* bound on the clock
    MaxRequests     \* bound on the number of requests

\* NewTrafficRules refuses thresholds and windows that are not positive.
TrafficRulesAssumption ==
    /\ {burstThreshold, burstWindow, endpointThreshold, endpointWindow} \subseteq Nat \ {0}
    /\ MaxTime \in Nat /\ MaxRequests \in Nat

VARIABLES
    tracker,    \* timestamps by rule and key; a key without a record is absent
    pending,    \* requests between the two checks: <<ip, endpoint>>, counted
    now,        \* time.Now()
    requests,   \* requests so far
    recorded,   \* history: every timestamp ever recorded, by rule and key
    passed      \* history: the timestamps of the requests each rule let pass

vars == <<tracker, pending, now, requests, recorded, passed>>

Rules == {"burst", "endpoint"}
Window(rule)    == IF rule = "burst" THEN burstWindow ELSE endpointWindow
Threshold(rule) == IF rule = "burst" THEN burstThreshold ELSE endpointThreshold
KeysOf(rule)    == IF rule = "burst" THEN {<<ip>> : ip \in IPs} ELSE IPs \X Endpoints
Key(rule, req)  == IF rule = "burst" THEN <<req[1]>> ELSE req

Empty == [k \in {} |-> <<>>]

Init ==
    /\ tracker = [rule \in Rules |-> Empty]
    /\ pending = [req \in IPs \X Endpoints |-> 0]
    /\ now = 0
    /\ requests = 0
    /\ recorded = [rule \in Rules |-> [k \in KeysOf(rule) |-> <<>>]]
    /\ passed = [rule \in Rules |-> [k \in KeysOf(rule) |-> <<>>]]

Timestamps(rule, k) == IF k \in DOMAIN tracker[rule] THEN tracker[rule][k] ELSE <<>>

\* ts.After(cutoff), with cutoff = now - window
InWindow(rule) == {ts \in Nat : ts > now - Window(rule)}

Prune(rule, s) == Filter(s, InWindow(rule))

\* recordRequest: the timestamps in the window, and now
Recorded(rule, k) == Append(Prune(rule, Timestamps(rule, k)), now)

WithinLimit_OneMore(rule, k) == Len(Recorded(rule, k)) <= Threshold(rule) + 1

WithinLimit(rule, k) == Len(Recorded(rule, k)) <= Threshold(rule)

\* The record is kept whether or not the request passes.
Record(rule, k) ==
    /\ tracker' = [tracker EXCEPT ![rule] =
                     [x \in DOMAIN @ \cup {k} |-> IF x = k THEN Recorded(rule, k) ELSE @[x]]]
    /\ recorded' = [recorded EXCEPT ![rule][k] = Append(@, now)]
    /\ passed' = IF WithinLimit(rule, k)
                   THEN [passed EXCEPT ![rule][k] = Append(@, now)] ELSE passed

\* CheckBurst, the first rule of Middleware: past it the request goes on to
\* the second, otherwise it is answered 429.
CheckBurst(req) ==
    /\ requests < MaxRequests
    /\ requests' = requests + 1
    /\ Record("burst", Key("burst", req))
    /\ pending' = IF WithinLimit("burst", Key("burst", req))
                    THEN [pending EXCEPT ![req] = @ + 1] ELSE pending
    /\ UNCHANGED now

\* CheckEndpointAbuse, the second rule.
CheckEndpointAbuse(req) ==
    /\ pending[req] > 0
    /\ pending' = [pending EXCEPT ![req] = @ - 1]
    /\ Record("endpoint", Key("endpoint", req))
    /\ UNCHANGED <<now, requests>>

Stale_AtWindow(rule, k) == now - Last(tracker[rule][k]) >= Window(rule) - 1

Stale(rule, k) == tracker[rule][k] = <<>> \/ now - Last(tracker[rule][k]) > Window(rule)

Cleanup_BurstOnly ==
    /\ tracker' = [tracker EXCEPT !["burst"] =
                     [k \in {x \in DOMAIN @ : ~Stale("burst", x)} |-> @[k]]]
    /\ UNCHANGED <<pending, now, requests, recorded, passed>>

\* The cleanup manager's tick, both trackers under one lock.
Cleanup ==
    /\ tracker' = [rule \in Rules |->
                     [k \in {x \in DOMAIN tracker[rule] : ~Stale(rule, x)} |-> tracker[rule][k]]]
    /\ UNCHANGED <<pending, now, requests, recorded, passed>>

Tick ==
    /\ now < MaxTime
    /\ now' = now + 1
    /\ UNCHANGED <<tracker, pending, requests, recorded, passed>>

Next ==
    \/ \E req \in IPs \X Endpoints : CheckBurst(req) \/ CheckEndpointAbuse(req)
    \/ Cleanup
    \/ Tick

Spec == Init /\ [][Next]_vars

\* The cleanup manager's ticker goes on.
FairSpec == Spec /\ WF_vars(Cleanup)

----------------------------------------------------------------------------

\* The type invariant.
TypeOK ==
    /\ \A rule \in Rules :
         /\ DOMAIN tracker[rule] \subseteq KeysOf(rule)
         /\ \A k \in DOMAIN tracker[rule] : tracker[rule][k] \in Seq(0 .. now)
    /\ pending \in [IPs \X Endpoints -> Nat]
    /\ now \in Nat /\ requests \in Nat

(***************************************************************************)
(* Pruning and Cleanup are invisible: at any time the timestamps a rule    *)
(* counts are exactly those of all the requests ever recorded for the key  *)
(* that lie in the window (traffic_rules.go:72-82,143-154).  Stated with   *)
(* the type invariant.                                                     *)
(***************************************************************************)
WindowExact ==
    /\ TypeOK
    /\ \A rule \in Rules : \A k \in KeysOf(rule) :
         Prune(rule, Timestamps(rule, k)) = Prune(rule, recorded[rule][k])

(***************************************************************************)
(* A rule never lets more than its threshold through in one window: a      *)
(* request that passes is at least a window later than the one threshold   *)
(* places before it (traffic_rules.go:92-93,103-104).                      *)
(***************************************************************************)
PassedWithinLimit ==
    \A rule \in Rules : \A k \in KeysOf(rule) :
        \A i \in DOMAIN passed[rule][k] :
            i > Threshold(rule) =>
                passed[rule][k][i] - passed[rule][k][i - Threshold(rule)] >= Window(rule)

(***************************************************************************)
(* Keys of clients that went away do not stay in memory.                   *)
(***************************************************************************)
StaleDropped ==
    \A rule \in Rules : \A k \in KeysOf(rule) :
        (k \in DOMAIN tracker[rule] /\ Stale(rule, k))
            ~> (k \notin DOMAIN tracker[rule] \/ ~Stale(rule, k))
=============================================================================
