----------------------------- MODULE MCPipeline -----------------------------
(* Three requests and two slots, for a page that may be cached and for a  *)
(* form that may not: requests that share a result queue a third one, and  *)
(* a call and two forms would all be at the backend but for the gate.      *)
EXTENDS Pipeline

GetA  == [safe |-> TRUE, path |-> <<"GET", "a">>, query |-> <<>>]
PostB == [safe |-> FALSE, path |-> <<"POST", "b">>, query |-> <<>>]

PageAndForm == {GetA, PostB}

\* Three requests for the page, under the newer semantics of timers, or one for it and two for
\* the form, under the older; the gate's own run has both semantics throughout.
PageFirst ==
    /\ Init
    /\ target[1].safe
    /\ target[2] = target[3]
    /\ asyncTimers <=> ~target[2].safe

MCSpec     == PageFirst /\ [][Next]_vars
MCFairSpec == MCSpec /\ \A r \in Requests : WF_vars(Step(r))
=============================================================================
