----------------------------- MODULE MCSecurity -----------------------------
(***************************************************************************)
(* The two rule-based filters of the chain, the rate limiter and the       *)
(* traffic rules.  They share no state, so a behaviour follows one of them *)
(* and leaves the other as it began; together the behaviours are those of  *)
(* both, without the product of their states.                              *)
(***************************************************************************)
EXTENDS RateLimiter

CONSTANTS RulesIPs, Endpoints, burstThreshold, burstWindow, endpointThreshold, endpointWindow,
          MaxRulesTime, MaxRequests

VARIABLES tracker, pending, rulesNow, requests, recorded, passed, followed

Rules == INSTANCE TrafficRules WITH IPs <- RulesIPs, now <- rulesNow, MaxTime <- MaxRulesTime

ASSUME RulesAssumption == Rules!TrafficRulesAssumption

\* As with the default settings, an idle bucket is full before it is dropped.
ASSUME FullBeforeStale == maxAge >= Full

rulesVars == <<tracker, pending, rulesNow, requests, recorded, passed>>
allVars   == <<vars, rulesVars, followed>>

MCInit == Init /\ Rules!Init /\ followed \in {"limiter", "rules"}

LimiterNext == followed = "limiter" /\ Next /\ UNCHANGED <<rulesVars, followed>>
RulesNext   == followed = "rules" /\ Rules!Next /\ UNCHANGED <<vars, followed>>

\* The ticks of the two cleanup managers.
Cleanups ==
    \/ followed = "limiter" /\ Cleanup /\ UNCHANGED <<rulesVars, followed>>
    \/ followed = "rules" /\ Rules!Cleanup /\ UNCHANGED <<vars, followed>>

MCSpec == MCInit /\ [][LimiterNext \/ RulesNext]_allVars /\ WF_allVars(Cleanups)

----------------------------------------------------------------------------

\* The sliding windows of the traffic rules are exact (module TrafficRules).
WindowExact == Rules!WindowExact

\* No rule lets more than its threshold pass in a window (module TrafficRules).
PassedWithinLimit == Rules!PassedWithinLimit

\* Neither filter keeps the record of a client that went away.
AbandonedDropped == StaleDropped /\ Rules!StaleDropped
=============================================================================
