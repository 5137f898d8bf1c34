-------------------------- MODULE CacheMiddleware --------------------------
(***************************************************************************)
(* core/cache/cache_middleware.go and stampede.go over proxy.go: lookup,   *)
(* coalescing of concurrent misses with singleflight, the proxy call, the  *)
(* admission rules and the serving of shared results, as gin's handler     *)
(* chain runs them for concurrent requests.                                *)
(*                                                                         *)
(* The store is the one of module ResponseStore: it may forget an entry at *)
(* any time.  singleflight.Group (external) keeps one call per key; a      *)
(* caller that finds one waits for it, and dups counts the waiters.  The   *)
(* response a backend gives is a record of the target it was asked for, a  *)
(* serial number and how the admission rules see it.                       *)
(***************************************************************************)
EXTENDS Naturals, Sequences, FiniteSets

CONSTANTS
    Requests,   \* request goroutines
    Targets,    \* request targets, [safe, path, query] records
    NoOne,      \* no call in flight for a key
    MaxForget   \* bound on the entries the store forgets

ASSUME CacheAssumption ==
    /\ NoOne \notin Requests
    /\ \A t \in Targets : DOMAIN t = {"safe", "path", "query"}
    /\ MaxForget \in Nat

VARIABLES
    pc,         \* where each request is
    target,     \* what each request asks for
    store,      \* responses by cache key
    flight,     \* singleflight's map: the leader of the call for each key
    call,       \* the call object each leader created
    waitsOn,    \* the leader whose call a request joined
    written,    \* the responses written to each request's client, in order
    cacheOps,   \* the hit and miss counters
    calls,      \* requests the backend has answered
    forgotten   \* entries the store has forgotten

vars == <<pc, target, store, flight, call, waitsOn, written, cacheOps, calls, forgotten>>

\* METHOD:path?query, where path is the decoded path of the URL: a "?" that
\* the client escaped is a "?" of the key.
cacheKey_NoQuery(t) == t.path

cacheKey(t) == t.path \o (IF t.query # <<>> THEN <<"?">> \o t.query ELSE <<>>)

Keys == {cacheKey(t) : t \in Targets}

\* The classes of a backend answer: stored; refused by status, Cache-Control
\* or size; the body of the proxy's ErrorHandler, with gin's 404 status.
Classes  == {"ok", "refused", "error"}
Response == [target : Targets, serial : Nat, class : Classes]

Missing == [class |-> "missing"]
NoCall  == [state |-> "none", dups |-> 0, val |-> Missing]

Places == {"idle", "lookup", "enter", "check", "proxying", "admit", "finish", "unwind",
           "wait", "post", "direct", "done", "aborted"}

Init ==
    /\ pc = [r \in Requests |-> "idle"]
    /\ target \in [Requests -> Targets]
    /\ store = [k \in Keys |-> Missing]
    /\ flight = [k \in Keys |-> NoOne]
    /\ call = [r \in Requests |-> NoCall]
    /\ waitsOn = [r \in Requests |-> NoOne]
    /\ written = [r \in Requests |-> <<>>]
    /\ cacheOps = [hit |-> 0, miss |-> 0]
    /\ calls = 0
    /\ forgotten = 0

key(r) == cacheKey(target[r])

Goto(r, place) == pc' = [pc EXCEPT ![r] = place]

Write(r, resp) == written' = [written EXCEPT ![r] = Append(@, resp)]

Hit  == cacheOps' = [cacheOps EXCEPT !.hit = @ + 1]
Miss == cacheOps' = [cacheOps EXCEPT !.miss = @ + 1]

----------------------------------------------------------------------------

\* Admission rule 1: only GET and HEAD go through the cache.
Arrive(r) ==
    /\ pc[r] = "idle"
    /\ Goto(r, IF target[r].safe THEN "lookup" ELSE "direct")
    /\ UNCHANGED <<target, store, flight, call, waitsOn, written, cacheOps, calls, forgotten>>

\* m.cache.Get; serveCachedResponse writes the entry and aborts the chain.
Lookup(r) ==
    /\ pc[r] = "lookup"
    /\ IF store[key(r)] = Missing
         THEN /\ Goto(r, "enter")
              /\ UNCHANGED <<written, cacheOps>>
         ELSE /\ Hit
              /\ Write(r, store[key(r)])
              /\ Goto(r, "done")
    /\ UNCHANGED <<target, store, flight, call, waitsOn, calls, forgotten>>

\* group.Do finds no call for the key: it registers one and runs fn.
Lead(r) ==
    /\ pc[r] = "enter"
    /\ flight[key(r)] = NoOne
    /\ flight' = [flight EXCEPT ![key(r)] = r]
    /\ call' = [call EXCEPT ![r].state = "open"]
    /\ Goto(r, "check")
    /\ UNCHANGED <<target, store, waitsOn, written, cacheOps, calls, forgotten>>

\* group.Do finds a call for the key: it counts itself and waits for it.
Join(r) ==
    /\ pc[r] = "enter"
    /\ flight[key(r)] # NoOne
    /\ call' = [call EXCEPT ![flight[key(r)]].dups = @ + 1]
    /\ waitsOn' = [waitsOn EXCEPT ![r] = flight[key(r)]]
    /\ Goto(r, "wait")
    /\ UNCHANGED <<target, store, flight, written, cacheOps, calls, forgotten>>

DoubleCheck_Skipped(r) ==
    /\ pc[r] = "check"
    /\ Miss
    /\ Goto(r, "proxying")
    /\ UNCHANGED <<target, store, flight, call, waitsOn, written, calls, forgotten>>

\* The second m.cache.Get, inside fn.
DoubleCheck(r) ==
    /\ pc[r] = "check"
    /\ IF store[key(r)] = Missing
         THEN /\ Miss
              /\ Goto(r, "proxying")
              /\ UNCHANGED call
         ELSE /\ Hit
              /\ call' = [call EXCEPT ![r].val = store[key(r)]]
              /\ Goto(r, "finish")
    /\ UNCHANGED <<target, store, flight, waitsOn, written, calls, forgotten>>

\* The proxy handler answers r's client with what the backend said, or with
\* the ErrorHandler's body when the backend cannot be reached.
Answer(r, class) == [target |-> target[r], serial |-> calls + 1, class |-> class]

\* c.Next() inside fn: the recorder passes the answer on and keeps a copy.
\* The reverse proxy panics when copying the body fails half way.
Proxy(r) ==
    /\ pc[r] = "proxying"
    /\ calls' = calls + 1
    /\ \/ \E class \in Classes :
            /\ Write(r, Answer(r, class))
            /\ call' = [call EXCEPT ![r].val = Answer(r, class)]
            /\ Goto(r, "admit")
       \/ /\ Goto(r, "unwind")
          /\ UNCHANGED <<written, call>>
    /\ UNCHANGED <<target, store, flight, waitsOn, cacheOps, forgotten>>

\* isCacheableStatus, isCacheAllowedByHeaders and the body limit.
Admissible(resp) == resp.class = "ok"

\* m.cache.Set, when the answer may be stored.
Admit(r) ==
    /\ pc[r] = "admit"
    /\ store' = IF Admissible(call[r].val)
                  THEN [store EXCEPT ![key(r)] = call[r].val] ELSE store
    /\ Goto(r, "finish")
    /\ UNCHANGED <<target, flight, call, waitsOn, written, cacheOps, calls, forgotten>>

\* fn returned: the call ends, its key is free and its waiters wake.
Finish(r) ==
    /\ pc[r] = "finish"
    /\ call' = [call EXCEPT ![r].state = "done"]
    /\ flight' = [flight EXCEPT ![key(r)] = NoOne]
    /\ Goto(r, "post")
    /\ UNCHANGED <<target, store, waitsOn, written, cacheOps, calls, forgotten>>

Unwind_KeyKept(r) ==
    /\ pc[r] = "unwind"
    /\ call' = [call EXCEPT ![r].state = "panicked"]
    /\ Goto(r, "aborted")
    /\ UNCHANGED <<target, store, flight, waitsOn, written, cacheOps, calls, forgotten>>

Unwind_WaitersKept(r) ==
    /\ pc[r] = "unwind"
    /\ flight' = [flight EXCEPT ![key(r)] = NoOne]
    /\ Goto(r, "aborted")
    /\ UNCHANGED <<target, store, call, waitsOn, written, cacheOps, calls, forgotten>>

\* fn panicked: the call ends too, and its leader panics on into the
\* engine's recovery.
Unwind(r) ==
    /\ pc[r] = "unwind"
    /\ call' = [call EXCEPT ![r].state = "panicked"]
    /\ flight' = [flight EXCEPT ![key(r)] = NoOne]
    /\ Goto(r, "aborted")
    /\ UNCHANGED <<target, store, waitsOn, written, cacheOps, calls, forgotten>>

\* A waiter wakes: it has the leader's value, or panics as the leader did.
Wake(r) ==
    /\ pc[r] = "wait"
    /\ call[waitsOn[r]].state # "open"
    /\ Goto(r, IF call[waitsOn[r]].state = "done" THEN "post" ELSE "aborted")
    /\ UNCHANGED <<target, store, flight, call, waitsOn, written, cacheOps, calls, forgotten>>

\* The third result of group.Do: true for a waiter, and for a leader that
\* had waiters.
shared(r) == waitsOn[r] # NoOne \/ call[r].dups > 0

Result(r) == IF waitsOn[r] # NoOne THEN call[waitsOn[r]].val ELSE call[r].val

Post_AlwaysAbort(r) ==
    /\ pc[r] = "post"
    /\ IF shared(r)
         THEN Hit /\ Write(r, Result(r))
         ELSE UNCHANGED <<written, cacheOps>>
    /\ Goto(r, "done")
    /\ UNCHANGED <<target, store, flight, call, waitsOn, calls, forgotten>>

\* After Do: a shared result is served from memory and ends the chain.
\* Otherwise the middleware returns, and gin goes on with the handlers that
\* c.Next() has not run yet: all of them when fn found the entry cached.
Post(r) ==
    /\ pc[r] = "post"
    /\ \/ /\ shared(r)
          /\ Hit
          /\ Write(r, Result(r))
          /\ Goto(r, "done")
       \/ /\ ~shared(r)
          /\ Goto(r, IF written[r] = <<>> THEN "direct" ELSE "done")
          /\ UNCHANGED <<written, cacheOps>>
    /\ UNCHANGED <<target, store, flight, call, waitsOn, calls, forgotten>>

\* The proxy handler run by gin outside fn: nothing is recorded or stored.
Direct(r) ==
    /\ pc[r] = "direct"
    /\ calls' = calls + 1
    /\ \/ \E class \in Classes : Write(r, Answer(r, class)) /\ Goto(r, "done")
       \/ Goto(r, "aborted") /\ UNCHANGED written
    /\ UNCHANGED <<target, store, flight, call, waitsOn, cacheOps, forgotten>>

\* The store loses an entry: expiry, eviction or deletion.
Forget(k) ==
    /\ forgotten < MaxForget
    /\ store[k] # Missing
    /\ store' = [store EXCEPT ![k] = Missing]
    /\ forgotten' = forgotten + 1
    /\ UNCHANGED <<pc, target, flight, call, waitsOn, written, cacheOps, calls>>

Step(r) ==
    \/ Arrive(r) \/ Lookup(r) \/ Lead(r) \/ Join(r) \/ DoubleCheck(r)
    \/ Proxy(r) \/ Admit(r) \/ Finish(r) \/ Unwind(r) \/ Wake(r)
    \/ Post(r) \/ Direct(r)

Ended == \A r \in Requests : pc[r] \in {"done", "aborted"}

\* Every request has ended; anything short of that is a deadlock.
Terminating == Ended /\ UNCHANGED vars

Next ==
    \/ \E r \in Requests : Step(r)
    \/ \E k \in Keys : Forget(k)
    \/ Terminating

Spec == Init /\ [][Next]_vars

(***************************************************************************)
(* Every goroutine keeps running.  For Proxy and Direct this assumes that  *)
(* the backend answers or its connection fails, which the code leaves to   *)
(* the transport.                                                          *)
(***************************************************************************)
FairSpec == Spec /\ \A r \in Requests : WF_vars(Step(r))

----------------------------------------------------------------------------

\* The type invariant.
TypeOK ==
    /\ pc \in [Requests -> Places]
    /\ target \in [Requests -> Targets]
    /\ store \in [Keys -> Response \cup {Missing}]
    /\ flight \in [Keys -> Requests \cup {NoOne}]
    /\ call \in [Requests -> [state : {"none", "open", "done", "panicked"}, dups : Nat,
                              val : Response \cup {Missing}]]
    /\ waitsOn \in [Requests -> Requests \cup {NoOne}]
    /\ written \in [Requests -> Seq(Response)]
    /\ cacheOps \in [hit : Nat, miss : Nat]
    /\ calls \in Nat /\ forgotten \in Nat

InFlight(k) == {r \in Requests : /\ target[r].safe /\ key(r) = k
                                 /\ pc[r] \in {"check", "proxying", "admit", "finish", "unwind"}}

(***************************************************************************)
(* At most one request per key runs fn, and it is the one the group has on *)
(* record: a call that ended, a panic included, leaves nothing behind      *)
(* (cache_middleware.go:141-180).  Stated with the type invariant.         *)
(***************************************************************************)
OneCallPerKey ==
    /\ TypeOK
    /\ \A k \in Keys : InFlight(k) = IF flight[k] = NoOne THEN {} ELSE {flight[k]}

(***************************************************************************)
(* The middleware stores only under keys the cache does not hold.  So      *)
(* LRUCache.Set always inserts and never takes its update path, the one    *)
(* that skips the byte limit (cache_middleware.go:144,174).                *)
(***************************************************************************)
StoresOnlyIntoGaps ==
    \A r \in Requests : pc[r] = "admit" => store[key(r)] = Missing

(***************************************************************************)
(* A client only ever receives a response to what it asked for, whether    *)
(* from the backend, from the store or from another request's call.        *)
(***************************************************************************)
RightResponse ==
    \A r \in Requests : \A i \in DOMAIN written[r] : written[r][i].target = target[r]

(***************************************************************************)
(* No request ends without an answer, except by a panic: each way through  *)
(* the middleware writes a response or leaves it to the proxy.             *)
(***************************************************************************)
AnsweredWhenDone == \A r \in Requests : pc[r] = "done" => written[r] # <<>>

(***************************************************************************)
(* Every request ends, whatever its leader does: finishes, fails, panics.  *)
(***************************************************************************)
EveryRequestEnds ==
    \A r \in Requests : pc[r] # "idle" ~> pc[r] \in {"done", "aborted"}

(***************************************************************************)
(* A request whose result is shared "didn't run c.Next() itself"           *)
(* (cache_middleware.go:188): so no client is written to twice.            *)
(***************************************************************************)
WrittenOnce == \A r \in Requests : Len(written[r]) <= 1

(***************************************************************************)
(* Of the requests that miss together only one is forwarded, the others    *)
(* get its result (cache_middleware.go:137-140): a GET or HEAD reaches the *)
(* backend only from inside fn.                                            *)
(***************************************************************************)
ForwardedOnlyByLeader ==
    \A r \in Requests : pc[r] = "direct" => ~target[r].safe
=============================================================================
