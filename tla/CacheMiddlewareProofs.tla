----------------------- MODULE CacheMiddlewareProofs -----------------------
(***************************************************************************)
(* The cache middleware's safety properties for every set of requests,     *)
(* every set of targets and however often the store forgets.               *)
(***************************************************************************)
EXTENDS CacheMiddleware, SequenceTheorems, TLAPS

\* Where a leader is while its fn runs.
Running == {"check", "proxying", "admit", "finish", "unwind"}

\* Whoever is past the first admission rule asks with GET or HEAD.
SafeInside ==
    \A r \in Requests :
        pc[r] \in {"lookup", "enter", "wait", "post"} \cup Running => target[r].safe

\* The group's map and the requests that run fn name each other.
FlightMatches ==
    /\ \A r \in Requests : pc[r] \in Running => flight[key(r)] = r
    /\ \A k \in Keys : flight[k] # NoOne => pc[flight[k]] \in Running /\ key(flight[k]) = k

\* The state of a call follows its leader, and a call that returned has a
\* value: Post reads one.
CallFollowsLeader ==
    \A r \in Requests :
        /\ pc[r] \in Running <=> call[r].state = "open"
        /\ pc[r] \in {"idle", "lookup", "enter"} => call[r].state = "none"
        /\ pc[r] \in {"admit", "finish"} => call[r].val # Missing
        /\ call[r].state = "done" => call[r].val # Missing
        /\ pc[r] = "post" /\ waitsOn[r] = NoOne => call[r].state = "done"

\* A request joined at most one call, of a leader that asks under its key.
WaitersMatch ==
    \A r \in Requests :
        /\ waitsOn[r] # NoOne => /\ pc[r] \in {"wait", "post", "done", "aborted"}
                                 /\ key(waitsOn[r]) = key(r)
                                 /\ call[waitsOn[r]].state # "none"
        /\ pc[r] = "wait" => waitsOn[r] # NoOne
        /\ pc[r] = "post" /\ waitsOn[r] # NoOne => call[waitsOn[r]].state = "done"

\* What a leader is about to fetch is not in the store.
FetchedIsMissing ==
    \A r \in Requests : pc[r] \in {"proxying", "admit"} => store[key(r)] = Missing

\* A response to a GET or HEAD whose target has the key k.
FitsKey(resp, k) == resp.target.safe /\ cacheKey(resp.target) = k

(***************************************************************************)
(* What the code guarantees of a response whatever the keys are: the one a *)
(* client receives was given to its own request or to a GET or HEAD under  *)
(* the same cache key.                                                     *)
(***************************************************************************)
SameKeyResponse ==
    \A r \in Requests : \A i \in DOMAIN written[r] :
        \/ written[r][i].target = target[r]
        \/ target[r].safe /\ FitsKey(written[r][i], key(r))

\* The store and the calls hold responses under the key they were asked by.
HeldByKey ==
    /\ \A k \in Keys : store[k] # Missing => FitsKey(store[k], k)
    /\ \A r \in Requests : call[r].val # Missing => FitsKey(call[r].val, key(r))

(***************************************************************************)
(* The inductive invariant.  That a store never overwrites rests on a key  *)
(* having one leader; that a shared result exists and fits rests on how    *)
(* the state of a call follows its leader.                                 *)
(***************************************************************************)
IInv ==
    /\ TypeOK
    /\ SafeInside
    /\ FlightMatches
    /\ CallFollowsLeader
    /\ WaitersMatch
    /\ FetchedIsMissing
    /\ HeldByKey
    /\ SameKeyResponse
    /\ AnsweredWhenDone

----------------------------------------------------------------------------

\* The zero entry is no response.
LEMMA MissingNoResponse == Missing \notin Response
<1>1. \A x \in Response : x.class \in Classes
  BY DEF Response
<1>2. Missing.class \notin Classes
  BY DEF Missing, Classes
<1> QED
  BY <1>1, <1>2

\* The key of every request is one of the keys.
LEMMA KeyInKeys == ASSUME TypeOK, NEW r \in Requests PROVE key(r) \in Keys
BY DEF TypeOK, Keys, key

\* Writing to a client adds one response and keeps the earlier ones.
LEMMA AppendResponse ==
    ASSUME NEW s \in Seq(Response), NEW e \in Response
    PROVE  /\ Append(s, e) \in Seq(Response)
           /\ Append(s, e) # <<>>
           /\ \A i \in DOMAIN Append(s, e) :
                 Append(s, e)[i] = e \/ (i \in DOMAIN s /\ Append(s, e)[i] = s[i])
<1>1. /\ Append(s, e) \in Seq(Response)
      /\ Len(Append(s, e)) = Len(s) + 1
      /\ \A i \in 1 .. Len(s) : Append(s, e)[i] = s[i]
      /\ Append(s, e)[Len(s) + 1] = e
  BY AppendProperties
<1> QED
  BY <1>1

\* Before the first request everything is empty.
LEMMA InitIInv == Init => IInv
<1> SUFFICES ASSUME Init PROVE IInv
  OBVIOUS
<1>1. TypeOK
  BY DEF Init, TypeOK, Places, NoCall
<1>2. SafeInside /\ FlightMatches /\ FetchedIsMissing /\ AnsweredWhenDone
  BY DEF Init, SafeInside, FlightMatches, FetchedIsMissing, AnsweredWhenDone, Running
<1>3. CallFollowsLeader /\ WaitersMatch /\ HeldByKey
  BY DEF Init, CallFollowsLeader, WaitersMatch, HeldByKey, Running, NoCall
<1>4. SameKeyResponse
  BY DEF Init, SameKeyResponse
<1> QED
  BY <1>1, <1>2, <1>3, <1>4 DEF IInv

\* What Write does to the clients' responses, for a response that fits.
LEMMA WriteFits ==
    ASSUME TypeOK, SameKeyResponse, NEW r \in Requests, NEW e \in Response, Write(r, e),
           target' = target,
           e.target = target[r] \/ (target[r].safe /\ FitsKey(e, key(r)))
    PROVE  /\ written' \in [Requests -> Seq(Response)]
           /\ \A q \in Requests : q # r => written'[q] = written[q]
           /\ written'[r] # <<>>
           /\ SameKeyResponse'
<1>1. written \in [Requests -> Seq(Response)]
  BY DEF TypeOK
<1>2. written' = [written EXCEPT ![r] = Append(written[r], e)]
  BY DEF Write
<1>5. /\ written'[r] = Append(written[r], e)
      /\ \A q \in Requests : q # r => written'[q] = written[q]
  BY <1>1, <1>2
<1>6. written' \in [Requests -> Seq(Response)]
  BY <1>1, <1>2
<1>7. SameKeyResponse'
  <2> SUFFICES ASSUME NEW q \in Requests, NEW i \in DOMAIN written'[q]
               PROVE  \/ written'[q][i].target = target[q]
                      \/ target[q].safe /\ FitsKey(written'[q][i], key(q))
    BY DEF SameKeyResponse, key
  <2>1. CASE q # r
    BY <1>5 DEF SameKeyResponse
  <2>2. CASE q = r
    <3>1. CASE written'[r][i] = e
      BY <2>2, <3>1
    <3>2. CASE i \in DOMAIN written[r] /\ written'[r][i] = written[r][i]
      BY <2>2, <3>2 DEF SameKeyResponse
    <3> QED
      BY <2>2, <1>5, <3>2
  <2> QED
    BY <2>1, <2>2
<1> QED
  BY <1>5, <1>6, <1>7

\* A request arrives.
LEMMA ArriveIInv == ASSUME IInv, NEW r \in Requests, Arrive(r) PROVE IInv'
<1>1. CASE target[r].safe
  <2>1. /\ pc[r] = "idle"
        /\ pc' = [pc EXCEPT ![r] = "lookup"]
        /\ UNCHANGED <<target, store, flight, call, waitsOn, written>>
        /\ cacheOps' \in [hit : Nat, miss : Nat] /\ calls' \in Nat /\ forgotten' \in Nat
    BY <1>1 DEF IInv, TypeOK, Arrive, Goto
  <2>2. TypeOK'
    BY <2>1 DEF IInv, TypeOK, Places
  <2>3. SafeInside'
    BY <2>1, <1>1 DEF IInv, SafeInside
  <2>4. FlightMatches'
    BY <2>1 DEF IInv, FlightMatches, key, Running
  <2>5. CallFollowsLeader'
    BY <2>1 DEF IInv, CallFollowsLeader, Running
  <2>6. WaitersMatch'
    BY <2>1 DEF IInv, WaitersMatch, key
  <2>7. FetchedIsMissing'
    BY <2>1 DEF IInv, FetchedIsMissing, key
  <2>8. HeldByKey'
    BY <2>1 DEF IInv, HeldByKey, key
  <2>9. SameKeyResponse'
    BY <2>1 DEF IInv, SameKeyResponse, key
  <2>10. AnsweredWhenDone'
    BY <2>1 DEF IInv, AnsweredWhenDone
  <2> QED
    BY <2>2, <2>3, <2>4, <2>5, <2>6, <2>7, <2>8, <2>9, <2>10 DEF IInv
<1>2. CASE ~target[r].safe
  <2>1. /\ pc[r] = "idle"
        /\ pc' = [pc EXCEPT ![r] = "direct"]
        /\ UNCHANGED <<target, store, flight, call, waitsOn, written>>
        /\ cacheOps' \in [hit : Nat, miss : Nat] /\ calls' \in Nat /\ forgotten' \in Nat
    BY <1>2 DEF IInv, TypeOK, Arrive, Goto
  <2>2. TypeOK'
    BY <2>1 DEF IInv, TypeOK, Places
  <2>3. SafeInside'
    BY <2>1 DEF IInv, SafeInside, Running
  <2>4. FlightMatches'
    BY <2>1 DEF IInv, FlightMatches, key, Running
  <2>5. CallFollowsLeader'
    BY <2>1 DEF IInv, CallFollowsLeader, Running
  <2>6. WaitersMatch'
    BY <2>1 DEF IInv, WaitersMatch, key
  <2>7. FetchedIsMissing'
    BY <2>1 DEF IInv, FetchedIsMissing, key
  <2>8. HeldByKey'
    BY <2>1 DEF IInv, HeldByKey, key
  <2>9. SameKeyResponse'
    BY <2>1 DEF IInv, SameKeyResponse, key
  <2>10. AnsweredWhenDone'
    BY <2>1 DEF IInv, AnsweredWhenDone
  <2> QED
    BY <2>2, <2>3, <2>4, <2>5, <2>6, <2>7, <2>8, <2>9, <2>10 DEF IInv
<1> QED
  BY <1>1, <1>2

\* The first lookup.
LEMMA LookupIInv == ASSUME IInv, NEW r \in Requests, Lookup(r) PROVE IInv'
<1>k. \A q \in Requests : key(q) \in Keys
  BY KeyInKeys DEF IInv
<1>1. CASE store[key(r)] = Missing
  <2>1. /\ pc[r] = "lookup"
        /\ pc' = [pc EXCEPT ![r] = "enter"]
        /\ UNCHANGED <<target, store, flight, call, waitsOn, written>>
        /\ cacheOps' \in [hit : Nat, miss : Nat] /\ calls' \in Nat /\ forgotten' \in Nat
    BY <1>1 DEF IInv, TypeOK, Lookup, Goto
  <2>2. TypeOK'
    BY <2>1 DEF IInv, TypeOK, Places
  <2>3. SafeInside'
    BY <2>1 DEF IInv, SafeInside
  <2>4. FlightMatches'
    BY <2>1 DEF IInv, FlightMatches, key, Running
  <2>5. CallFollowsLeader'
    BY <2>1 DEF IInv, CallFollowsLeader, Running
  <2>6. WaitersMatch'
    BY <2>1 DEF IInv, WaitersMatch, key
  <2>7. FetchedIsMissing'
    BY <2>1 DEF IInv, FetchedIsMissing, key
  <2>8. HeldByKey'
    BY <2>1 DEF IInv, HeldByKey, key
  <2>9. SameKeyResponse'
    BY <2>1 DEF IInv, SameKeyResponse, key
  <2>10. AnsweredWhenDone'
    BY <2>1 DEF IInv, AnsweredWhenDone
  <2> QED
    BY <2>2, <2>3, <2>4, <2>5, <2>6, <2>7, <2>8, <2>9, <2>10 DEF IInv
<1>2. CASE store[key(r)] # Missing
  <2>1. /\ pc[r] = "lookup"
        /\ pc' = [pc EXCEPT ![r] = "done"]
        /\ UNCHANGED <<target, store, flight, call, waitsOn>>
        /\ Write(r, store[key(r)])
        /\ store[key(r)] \in Response
        /\ FitsKey(store[key(r)], key(r))
        /\ target[r].safe
        /\ cacheOps' \in [hit : Nat, miss : Nat] /\ calls' \in Nat /\ forgotten' \in Nat
    <3>1. /\ pc[r] = "lookup"
          /\ pc' = [pc EXCEPT ![r] = "done"]
          /\ UNCHANGED <<target, store, flight, call, waitsOn>>
          /\ Write(r, store[key(r)])
      BY <1>2 DEF Lookup, Goto
    <3>2. cacheOps' \in [hit : Nat, miss : Nat] /\ calls' \in Nat /\ forgotten' \in Nat
      <4>1. /\ cacheOps' = [cacheOps EXCEPT !.hit = @ + 1]
            /\ calls' = calls /\ forgotten' = forgotten
        BY <1>2 DEF Lookup, Hit
      <4>2. cacheOps \in [hit : Nat, miss : Nat] /\ calls \in Nat /\ forgotten \in Nat
        BY DEF IInv, TypeOK
      <4> QED
        BY <4>1, <4>2
    <3>3. /\ store[key(r)] \in Response
          /\ FitsKey(store[key(r)], key(r))
      BY <1>2, <1>k DEF IInv, TypeOK, HeldByKey
    <3>4. target[r].safe
      BY <3>1 DEF IInv, SafeInside
    <3> QED
      BY <3>1, <3>2, <3>3, <3>4
  <2>2. /\ written' \in [Requests -> Seq(Response)]
        /\ \A q \in Requests : q # r => written'[q] = written[q]
        /\ written'[r] # <<>>
        /\ SameKeyResponse'
    BY <2>1, WriteFits DEF IInv
  <2>3. TypeOK'
    BY <2>1, <2>2 DEF IInv, TypeOK, Places
  <2>4. SafeInside'
    BY <2>1 DEF IInv, SafeInside
  <2>5. FlightMatches'
    BY <2>1 DEF IInv, FlightMatches, key, Running
  <2>6. CallFollowsLeader'
    BY <2>1 DEF IInv, CallFollowsLeader, Running
  <2>7. WaitersMatch'
    BY <2>1 DEF IInv, WaitersMatch, key
  <2>8. FetchedIsMissing'
    BY <2>1 DEF IInv, FetchedIsMissing, key
  <2>9. HeldByKey'
    BY <2>1 DEF IInv, HeldByKey, key
  <2>10. AnsweredWhenDone'
    BY <2>1, <2>2 DEF IInv, AnsweredWhenDone
  <2> QED
    BY <2>2, <2>3, <2>4, <2>5, <2>6, <2>7, <2>8, <2>9, <2>10 DEF IInv
<1> QED
  BY <1>1, <1>2

\* A leader registers its call.
LEMMA LeadIInv == ASSUME IInv, NEW r \in Requests, Lead(r) PROVE IInv'
<1>k. \A q \in Requests : key(q) \in Keys
  BY KeyInKeys DEF IInv
<1>m. Missing \notin Response /\ NoOne \notin Requests
  BY MissingNoResponse, CacheAssumption
<1>1. /\ pc[r] = "enter"
      /\ flight[key(r)] = NoOne
      /\ pc' = [pc EXCEPT ![r] = "check"]
      /\ flight' = [flight EXCEPT ![key(r)] = r]
      /\ call' = [call EXCEPT ![r].state = "open"]
      /\ UNCHANGED <<target, store, waitsOn, written>>
      /\ cacheOps' \in [hit : Nat, miss : Nat] /\ calls' \in Nat /\ forgotten' \in Nat
  BY DEF IInv, TypeOK, Lead, Goto
<1>3. TypeOK'
  BY <1>1 DEF IInv, TypeOK, Places
<1>4. SafeInside'
  BY <1>1 DEF IInv, SafeInside
<1>5. FlightMatches'
  BY <1>1, <1>k, <1>m DEF IInv, TypeOK, FlightMatches, key, Running
<1>6. CallFollowsLeader'
  BY <1>1 DEF IInv, TypeOK, CallFollowsLeader, Running
<1>7. WaitersMatch'
  BY <1>1 DEF IInv, WaitersMatch, key, CallFollowsLeader
<1>8. FetchedIsMissing'
  BY <1>1 DEF IInv, FetchedIsMissing, key
<1>9. HeldByKey'
  BY <1>1 DEF IInv, HeldByKey, key
<1>10. SameKeyResponse'
  BY <1>1 DEF IInv, SameKeyResponse, key
<1>11. AnsweredWhenDone'
  BY <1>1 DEF IInv, AnsweredWhenDone
<1> QED
  BY <1>3, <1>4, <1>5, <1>6, <1>7, <1>8, <1>9, <1>10, <1>11 DEF IInv

\* A waiter joins a call.
LEMMA JoinIInv == ASSUME IInv, NEW r \in Requests, Join(r) PROVE IInv'
<1>k. \A q \in Requests : key(q) \in Keys
  BY KeyInKeys DEF IInv
<1>m. Missing \notin Response /\ NoOne \notin Requests
  BY MissingNoResponse, CacheAssumption
<1>1. /\ pc[r] = "enter"
      /\ flight[key(r)] \in Requests
      /\ pc' = [pc EXCEPT ![r] = "wait"]
      /\ call' = [call EXCEPT ![flight[key(r)]].dups = @ + 1]
      /\ waitsOn' = [waitsOn EXCEPT ![r] = flight[key(r)]]
      /\ UNCHANGED <<target, store, flight, written>>
      /\ cacheOps' \in [hit : Nat, miss : Nat] /\ calls' \in Nat /\ forgotten' \in Nat
  BY <1>k DEF IInv, TypeOK, Join, Goto
<1>2. /\ call' \in [Requests -> [state : {"none", "open", "done", "panicked"}, dups : Nat,
                             val : Response \cup {Missing}]]
      /\ \A q \in Requests : q # flight[key(r)] => call'[q] = call[q]
      /\ call'[flight[key(r)]].val = call[flight[key(r)]].val
      /\ call'[flight[key(r)]].state = call[flight[key(r)]].state
  <2> DEFINE c == call[flight[key(r)]]
  <2>1. c \in [state : {"none", "open", "done", "panicked"}, dups : Nat, val : Response \cup {Missing}]
    BY <1>1 DEF IInv, TypeOK
  <2>2. [c EXCEPT !.dups = @ + 1] \in [state : {"none", "open", "done", "panicked"}, dups : Nat,
                                      val : Response \cup {Missing}]
    BY <2>1
  <2> HIDE DEF c
  <2> QED
    BY <1>1, <2>2 DEF IInv, TypeOK, c
<1>3. TypeOK'
  BY <1>1, <1>2 DEF IInv, TypeOK, Places
<1>4. SafeInside'
  BY <1>1 DEF IInv, SafeInside
<1>5. FlightMatches'
  BY <1>1 DEF IInv, FlightMatches, key, Running
<1>6. CallFollowsLeader'
  BY <1>1 DEF IInv, CallFollowsLeader, Running
<1>7. WaitersMatch'
  <2> SUFFICES ASSUME NEW q \in Requests
               PROVE  /\ waitsOn'[q] # NoOne => /\ pc'[q] \in {"wait", "post", "done", "aborted"}
                                              /\ key(waitsOn'[q]) = key(q)
                                              /\ call'[waitsOn'[q]].state # "none"
                      /\ pc'[q] = "wait" => waitsOn'[q] # NoOne
                      /\ pc'[q] = "post" /\ waitsOn'[q] # NoOne
                           => call'[waitsOn'[q]].state = "done"
    BY <1>1 DEF WaitersMatch, key
  <2>1. \A w \in Requests : call'[w].state = call[w].state
    BY <1>1
  <2>2. CASE q = r
    <3>1. pc'[r] = "wait" /\ waitsOn'[r] = flight[key(r)]
      BY <1>1 DEF IInv, TypeOK
    <3>2. key(flight[key(r)]) = key(r) /\ pc[flight[key(r)]] \in Running
      BY <1>1, <1>k, <1>m DEF IInv, FlightMatches
    <3>3. call[flight[key(r)]].state = "open"
      BY <1>1, <3>2 DEF IInv, CallFollowsLeader
    <3> QED
      BY <1>1, <1>m, <2>2, <3>1, <3>2, <3>3
  <2>3. CASE q # r
    <3>1. pc'[q] = pc[q] /\ waitsOn'[q] = waitsOn[q]
      BY <1>1, <2>3
    <3> QED
      BY <2>1, <3>1 DEF IInv, TypeOK, WaitersMatch
  <2> QED
    BY <2>2, <2>3
<1>8. FetchedIsMissing'
  BY <1>1 DEF IInv, FetchedIsMissing, key
<1>9. HeldByKey'
  BY <1>1 DEF IInv, HeldByKey, key
<1>10. SameKeyResponse'
  BY <1>1 DEF IInv, SameKeyResponse, key
<1>11. AnsweredWhenDone'
  BY <1>1 DEF IInv, AnsweredWhenDone
<1> QED
  BY <1>3, <1>4, <1>5, <1>6, <1>7, <1>8, <1>9, <1>10, <1>11 DEF IInv

\* The lookup inside fn.
LEMMA DoubleCheckIInv == ASSUME IInv, NEW r \in Requests, DoubleCheck(r) PROVE IInv'
<1>k. \A q \in Requests : key(q) \in Keys
  BY KeyInKeys DEF IInv
<1>1. CASE store[key(r)] = Missing
  <2>1. /\ pc[r] = "check"
        /\ pc' = [pc EXCEPT ![r] = "proxying"]
        /\ UNCHANGED <<target, store, flight, call, waitsOn, written>>
        /\ cacheOps' \in [hit : Nat, miss : Nat] /\ calls' \in Nat /\ forgotten' \in Nat
    BY <1>1 DEF IInv, TypeOK, DoubleCheck, Goto, Miss
  <2>2. TypeOK'
    BY <2>1 DEF IInv, TypeOK, Places
  <2>3. SafeInside'
    BY <2>1 DEF IInv, SafeInside, Running
  <2>4. FlightMatches'
    BY <2>1 DEF IInv, FlightMatches, key, Running
  <2>5. CallFollowsLeader'
    BY <2>1 DEF IInv, CallFollowsLeader, Running
  <2>6. WaitersMatch'
    BY <2>1 DEF IInv, WaitersMatch, key
  <2>7. FetchedIsMissing'
    BY <2>1, <1>1 DEF IInv, FetchedIsMissing, key
  <2>8. HeldByKey'
    BY <2>1 DEF IInv, HeldByKey, key
  <2>9. SameKeyResponse'
    BY <2>1 DEF IInv, SameKeyResponse, key
  <2>10. AnsweredWhenDone'
    BY <2>1 DEF IInv, AnsweredWhenDone
  <2> QED
    BY <2>2, <2>3, <2>4, <2>5, <2>6, <2>7, <2>8, <2>9, <2>10 DEF IInv
<1>2. CASE store[key(r)] # Missing
  <2>1. /\ pc[r] = "check"
        /\ pc' = [pc EXCEPT ![r] = "finish"]
        /\ call' = [call EXCEPT ![r].val = store[key(r)]]
        /\ store[key(r)] \in Response
        /\ FitsKey(store[key(r)], key(r))
        /\ UNCHANGED <<target, store, flight, waitsOn, written>>
        /\ cacheOps' \in [hit : Nat, miss : Nat] /\ calls' \in Nat /\ forgotten' \in Nat
    <3>1. /\ pc[r] = "check"
          /\ pc' = [pc EXCEPT ![r] = "finish"]
          /\ call' = [call EXCEPT ![r].val = store[key(r)]]
          /\ UNCHANGED <<target, store, flight, waitsOn, written>>
      BY <1>2 DEF DoubleCheck, Goto
    <3>2. cacheOps' \in [hit : Nat, miss : Nat] /\ calls' \in Nat /\ forgotten' \in Nat
      <4>1. /\ cacheOps' = [cacheOps EXCEPT !.hit = @ + 1]
            /\ calls' = calls /\ forgotten' = forgotten
        BY <1>2 DEF DoubleCheck, Hit
      <4>2. cacheOps \in [hit : Nat, miss : Nat] /\ calls \in Nat /\ forgotten \in Nat
        BY DEF IInv, TypeOK
      <4> QED
        BY <4>1, <4>2
    <3>3. /\ store[key(r)] \in Response
          /\ FitsKey(store[key(r)], key(r))
      BY <1>2, <1>k DEF IInv, TypeOK, HeldByKey
    <3> QED
      BY <3>1, <3>2, <3>3
  <2>3. TypeOK'
    BY <2>1 DEF IInv, TypeOK, Places
  <2>4. SafeInside'
    BY <2>1 DEF IInv, SafeInside, Running
  <2>5. FlightMatches'
    BY <2>1 DEF IInv, FlightMatches, key, Running
  <2>6. CallFollowsLeader'
    BY <2>1, <1>2 DEF IInv, TypeOK, CallFollowsLeader, Running
  <2>7. WaitersMatch'
    BY <2>1 DEF IInv, WaitersMatch, key
  <2>8. FetchedIsMissing'
    BY <2>1 DEF IInv, FetchedIsMissing, key
  <2>9. HeldByKey'
    BY <2>1 DEF IInv, HeldByKey, key
  <2>10. SameKeyResponse'
    BY <2>1 DEF IInv, SameKeyResponse, key
  <2>11. AnsweredWhenDone'
    BY <2>1 DEF IInv, AnsweredWhenDone
  <2> QED
    BY <2>3, <2>4, <2>5, <2>6, <2>7, <2>8, <2>9, <2>10, <2>11 DEF IInv
<1> QED
  BY <1>1, <1>2

\* The proxy call inside fn.
LEMMA ProxyIInv == ASSUME IInv, NEW r \in Requests, Proxy(r) PROVE IInv'
<1>m. Missing \notin Response /\ NoOne \notin Requests
  BY MissingNoResponse, CacheAssumption
<1>1. CASE \E class \in Classes : /\ Write(r, Answer(r, class))
                                   /\ call' = [call EXCEPT ![r].val = Answer(r, class)]
                                   /\ Goto(r, "admit")
  <2>p. PICK class \in Classes : /\ Write(r, Answer(r, class))
                                   /\ call' = [call EXCEPT ![r].val = Answer(r, class)]
                                   /\ Goto(r, "admit")
    BY <1>1
  <2>1. /\ pc[r] = "proxying"
        /\ pc' = [pc EXCEPT ![r] = "admit"]
        /\ call' = [call EXCEPT ![r].val = Answer(r, class)]
        /\ Write(r, Answer(r, class))
        /\ UNCHANGED <<target, store, flight, waitsOn>>
        /\ Answer(r, class) \in Response
        /\ Answer(r, class).target = target[r]
        /\ target[r].safe
        /\ cacheOps' \in [hit : Nat, miss : Nat] /\ calls' \in Nat /\ forgotten' \in Nat
    BY <2>p DEF IInv, TypeOK, Proxy, Goto, Answer, Response, SafeInside, Running
  <2>2. /\ written' \in [Requests -> Seq(Response)]
        /\ \A q \in Requests : q # r => written'[q] = written[q]
        /\ written'[r] # <<>>
        /\ SameKeyResponse'
    BY <2>1, WriteFits DEF IInv
  <2>4. TypeOK'
    BY <2>1, <2>2 DEF IInv, TypeOK, Places
  <2>5. SafeInside'
    BY <2>1 DEF IInv, SafeInside
  <2>6. FlightMatches'
    BY <2>1 DEF IInv, FlightMatches, key, Running
  <2>7. CallFollowsLeader'
    BY <2>1, <1>m DEF IInv, TypeOK, CallFollowsLeader, Running
  <2>8. WaitersMatch'
    BY <2>1 DEF IInv, WaitersMatch, key
  <2>9. FetchedIsMissing'
    BY <2>1 DEF IInv, FetchedIsMissing, key
  <2>10. HeldByKey'
    BY <2>1 DEF IInv, HeldByKey, key, FitsKey
  <2>11. AnsweredWhenDone'
    BY <2>1, <2>2 DEF IInv, AnsweredWhenDone
  <2> QED
    BY <2>2, <2>4, <2>5, <2>6, <2>7, <2>8, <2>9, <2>10, <2>11 DEF IInv
<1>2. CASE Goto(r, "unwind") /\ UNCHANGED <<written, call>>
  <2>1. /\ pc[r] = "proxying"
        /\ pc' = [pc EXCEPT ![r] = "unwind"]
        /\ UNCHANGED <<target, store, flight, call, waitsOn, written>>
        /\ cacheOps' \in [hit : Nat, miss : Nat] /\ calls' \in Nat /\ forgotten' \in Nat
    BY <1>2 DEF IInv, TypeOK, Proxy, Goto
  <2>2. TypeOK'
    BY <2>1 DEF IInv, TypeOK, Places
  <2>3. SafeInside'
    BY <2>1 DEF IInv, SafeInside, Running
  <2>4. FlightMatches'
    BY <2>1 DEF IInv, FlightMatches, key, Running
  <2>5. CallFollowsLeader'
    BY <2>1 DEF IInv, CallFollowsLeader, Running
  <2>6. WaitersMatch'
    BY <2>1 DEF IInv, WaitersMatch, key
  <2>7. FetchedIsMissing'
    BY <2>1 DEF IInv, FetchedIsMissing, key
  <2>8. HeldByKey'
    BY <2>1 DEF IInv, HeldByKey, key
  <2>9. SameKeyResponse'
    BY <2>1 DEF IInv, SameKeyResponse, key
  <2>10. AnsweredWhenDone'
    BY <2>1 DEF IInv, AnsweredWhenDone
  <2> QED
    BY <2>2, <2>3, <2>4, <2>5, <2>6, <2>7, <2>8, <2>9, <2>10 DEF IInv
<1> QED
  BY <1>1, <1>2 DEF Proxy

\* The admission rules.
LEMMA AdmitIInv == ASSUME IInv, NEW r \in Requests, Admit(r) PROVE IInv'
<1>1. CASE Admissible(call[r].val)
  <2>1. /\ pc[r] = "admit"
        /\ pc' = [pc EXCEPT ![r] = "finish"]
        /\ store' = [store EXCEPT ![key(r)] = call[r].val]
        /\ call[r].val \in Response
        /\ FitsKey(call[r].val, key(r))
        /\ UNCHANGED <<target, flight, call, waitsOn, written>>
        /\ cacheOps' \in [hit : Nat, miss : Nat] /\ calls' \in Nat /\ forgotten' \in Nat
    <3>1. /\ pc[r] = "admit"
          /\ pc' = [pc EXCEPT ![r] = "finish"]
          /\ store' = [store EXCEPT ![key(r)] = call[r].val]
          /\ UNCHANGED <<target, flight, call, waitsOn, written>>
      BY <1>1 DEF Admit, Goto
    <3>2. cacheOps' \in [hit : Nat, miss : Nat] /\ calls' \in Nat /\ forgotten' \in Nat
      BY DEF IInv, TypeOK, Admit
    <3>3. /\ call[r].val \in Response
          /\ FitsKey(call[r].val, key(r))
      BY <3>1 DEF IInv, TypeOK, HeldByKey, CallFollowsLeader
    <3> QED
      BY <3>1, <3>2, <3>3
  <2>2. TypeOK'
    BY <2>1 DEF IInv, TypeOK, Places
  <2>3. SafeInside'
    BY <2>1 DEF IInv, SafeInside, Running
  <2>4. FlightMatches'
    BY <2>1 DEF IInv, FlightMatches, key, Running
  <2>5. CallFollowsLeader'
    BY <2>1 DEF IInv, CallFollowsLeader, Running
  <2>6. WaitersMatch'
    BY <2>1 DEF IInv, WaitersMatch, key
  <2>7. FetchedIsMissing'
    BY <2>1 DEF IInv, TypeOK, FetchedIsMissing, key, Running, FlightMatches
  <2>8. HeldByKey'
    BY <2>1 DEF IInv, HeldByKey, key
  <2>9. SameKeyResponse'
    BY <2>1 DEF IInv, SameKeyResponse, key
  <2>10. AnsweredWhenDone'
    BY <2>1 DEF IInv, AnsweredWhenDone
  <2> QED
    BY <2>2, <2>3, <2>4, <2>5, <2>6, <2>7, <2>8, <2>9, <2>10 DEF IInv
<1>2. CASE ~Admissible(call[r].val)
  <2>1. /\ pc[r] = "admit"
        /\ pc' = [pc EXCEPT ![r] = "finish"]
        /\ UNCHANGED <<target, store, flight, call, waitsOn, written>>
        /\ cacheOps' \in [hit : Nat, miss : Nat] /\ calls' \in Nat /\ forgotten' \in Nat
    BY <1>2 DEF IInv, TypeOK, Admit, Goto
  <2>2. TypeOK'
    BY <2>1 DEF IInv, TypeOK, Places
  <2>3. SafeInside'
    BY <2>1 DEF IInv, SafeInside, Running
  <2>4. FlightMatches'
    BY <2>1 DEF IInv, FlightMatches, key, Running
  <2>5. CallFollowsLeader'
    BY <2>1 DEF IInv, CallFollowsLeader, Running
  <2>6. WaitersMatch'
    BY <2>1 DEF IInv, WaitersMatch, key
  <2>7. FetchedIsMissing'
    BY <2>1 DEF IInv, FetchedIsMissing, key
  <2>8. HeldByKey'
    BY <2>1 DEF IInv, HeldByKey, key
  <2>9. SameKeyResponse'
    BY <2>1 DEF IInv, SameKeyResponse, key
  <2>10. AnsweredWhenDone'
    BY <2>1 DEF IInv, AnsweredWhenDone
  <2> QED
    BY <2>2, <2>3, <2>4, <2>5, <2>6, <2>7, <2>8, <2>9, <2>10 DEF IInv
<1> QED
  BY <1>1, <1>2

\* The end of a call.
LEMMA FinishIInv == ASSUME IInv, NEW r \in Requests, Finish(r) PROVE IInv'
<1>1. /\ pc[r] = "finish"
      /\ pc' = [pc EXCEPT ![r] = "post"]
      /\ call' = [call EXCEPT ![r].state = "done"]
      /\ flight' = [flight EXCEPT ![key(r)] = NoOne]
      /\ UNCHANGED <<target, store, waitsOn, written>>
      /\ cacheOps' \in [hit : Nat, miss : Nat] /\ calls' \in Nat /\ forgotten' \in Nat
  BY DEF IInv, TypeOK, Finish, Goto
<1>3. TypeOK'
  BY <1>1 DEF IInv, TypeOK, Places
<1>4. SafeInside'
  BY <1>1 DEF IInv, SafeInside, Running
<1>5. FlightMatches'
  BY <1>1 DEF IInv, TypeOK, FlightMatches, key, Running
<1>6. CallFollowsLeader'
  BY <1>1 DEF IInv, TypeOK, CallFollowsLeader, Running
<1>7. WaitersMatch'
  BY <1>1 DEF IInv, WaitersMatch, key
<1>8. FetchedIsMissing'
  BY <1>1 DEF IInv, FetchedIsMissing, key
<1>9. HeldByKey'
  BY <1>1 DEF IInv, HeldByKey, key
<1>10. SameKeyResponse'
  BY <1>1 DEF IInv, SameKeyResponse, key
<1>11. AnsweredWhenDone'
  BY <1>1 DEF IInv, AnsweredWhenDone
<1> QED
  BY <1>3, <1>4, <1>5, <1>6, <1>7, <1>8, <1>9, <1>10, <1>11 DEF IInv

\* A panic in fn.
LEMMA UnwindIInv == ASSUME IInv, NEW r \in Requests, Unwind(r) PROVE IInv'
<1>1. /\ pc[r] = "unwind"
      /\ pc' = [pc EXCEPT ![r] = "aborted"]
      /\ call' = [call EXCEPT ![r].state = "panicked"]
      /\ flight' = [flight EXCEPT ![key(r)] = NoOne]
      /\ UNCHANGED <<target, store, waitsOn, written>>
      /\ cacheOps' \in [hit : Nat, miss : Nat] /\ calls' \in Nat /\ forgotten' \in Nat
  BY DEF IInv, TypeOK, Unwind, Goto
<1>3. TypeOK'
  BY <1>1 DEF IInv, TypeOK, Places
<1>4. SafeInside'
  BY <1>1 DEF IInv, SafeInside, Running
<1>5. FlightMatches'
  BY <1>1 DEF IInv, TypeOK, FlightMatches, key, Running
<1>6. CallFollowsLeader'
  BY <1>1 DEF IInv, TypeOK, CallFollowsLeader, Running
<1>7. WaitersMatch'
  BY <1>1 DEF IInv, WaitersMatch, key, Running, CallFollowsLeader
<1>8. FetchedIsMissing'
  BY <1>1 DEF IInv, FetchedIsMissing, key
<1>9. HeldByKey'
  BY <1>1 DEF IInv, HeldByKey, key
<1>10. SameKeyResponse'
  BY <1>1 DEF IInv, SameKeyResponse, key
<1>11. AnsweredWhenDone'
  BY <1>1 DEF IInv, AnsweredWhenDone
<1> QED
  BY <1>3, <1>4, <1>5, <1>6, <1>7, <1>8, <1>9, <1>10, <1>11 DEF IInv

\* A waiter that wakes.
LEMMA WakeIInv == ASSUME IInv, NEW r \in Requests, Wake(r) PROVE IInv'
<1>1. CASE call[waitsOn[r]].state = "done"
  <2>1. /\ pc[r] = "wait"
        /\ pc' = [pc EXCEPT ![r] = "post"]
        /\ UNCHANGED <<target, store, flight, call, waitsOn, written>>
        /\ cacheOps' \in [hit : Nat, miss : Nat] /\ calls' \in Nat /\ forgotten' \in Nat
    BY <1>1 DEF IInv, TypeOK, Wake, Goto
  <2>2. TypeOK'
    BY <2>1 DEF IInv, TypeOK, Places
  <2>3. SafeInside'
    BY <2>1 DEF IInv, SafeInside
  <2>4. FlightMatches'
    BY <2>1 DEF IInv, FlightMatches, key, Running
  <2>5. CallFollowsLeader'
    BY <2>1 DEF IInv, CallFollowsLeader, Running, WaitersMatch
  <2>6. WaitersMatch'
    BY <2>1, <1>1 DEF IInv, WaitersMatch, key
  <2>7. FetchedIsMissing'
    BY <2>1 DEF IInv, FetchedIsMissing, key
  <2>8. HeldByKey'
    BY <2>1 DEF IInv, HeldByKey, key
  <2>9. SameKeyResponse'
    BY <2>1 DEF IInv, SameKeyResponse, key
  <2>10. AnsweredWhenDone'
    BY <2>1 DEF IInv, AnsweredWhenDone
  <2> QED
    BY <2>2, <2>3, <2>4, <2>5, <2>6, <2>7, <2>8, <2>9, <2>10 DEF IInv
<1>2. CASE call[waitsOn[r]].state # "done"
  <2>1. /\ pc[r] = "wait"
        /\ pc' = [pc EXCEPT ![r] = "aborted"]
        /\ UNCHANGED <<target, store, flight, call, waitsOn, written>>
        /\ cacheOps' \in [hit : Nat, miss : Nat] /\ calls' \in Nat /\ forgotten' \in Nat
    BY <1>2 DEF IInv, TypeOK, Wake, Goto
  <2>2. TypeOK'
    BY <2>1 DEF IInv, TypeOK, Places
  <2>3. SafeInside'
    BY <2>1 DEF IInv, SafeInside
  <2>4. FlightMatches'
    BY <2>1 DEF IInv, FlightMatches, key, Running
  <2>5. CallFollowsLeader'
    BY <2>1 DEF IInv, CallFollowsLeader, Running
  <2>6. WaitersMatch'
    BY <2>1 DEF IInv, WaitersMatch, key
  <2>7. FetchedIsMissing'
    BY <2>1 DEF IInv, FetchedIsMissing, key
  <2>8. HeldByKey'
    BY <2>1 DEF IInv, HeldByKey, key
  <2>9. SameKeyResponse'
    BY <2>1 DEF IInv, SameKeyResponse, key
  <2>10. AnsweredWhenDone'
    BY <2>1 DEF IInv, AnsweredWhenDone
  <2> QED
    BY <2>2, <2>3, <2>4, <2>5, <2>6, <2>7, <2>8, <2>9, <2>10 DEF IInv
<1> QED
  BY <1>1, <1>2

\* What follows group.Do.
LEMMA PostIInv == ASSUME IInv, NEW r \in Requests, Post(r) PROVE IInv'
<1>1. CASE shared(r)
  <2>1. /\ pc[r] = "post"
        /\ pc' = [pc EXCEPT ![r] = "done"]
        /\ Write(r, Result(r))
        /\ Result(r) \in Response
        /\ FitsKey(Result(r), key(r))
        /\ target[r].safe
        /\ UNCHANGED <<target, store, flight, call, waitsOn>>
        /\ cacheOps' \in [hit : Nat, miss : Nat] /\ calls' \in Nat /\ forgotten' \in Nat
    <3>1. /\ pc[r] = "post" /\ pc' = [pc EXCEPT ![r] = "done"] /\ Write(r, Result(r))
          /\ UNCHANGED <<target, store, flight, call, waitsOn, calls, forgotten>>
          /\ cacheOps' \in [hit : Nat, miss : Nat]
      BY <1>1 DEF IInv, TypeOK, Post, Goto, Hit
    <3>2. target[r].safe
      BY <3>1 DEF IInv, SafeInside
    <3>3. Result(r) \in Response /\ FitsKey(Result(r), key(r))
      <4>1. CASE waitsOn[r] = NoOne
        <5>1. Result(r) = call[r].val
          BY <4>1 DEF Result
        <5>2. call[r].val # Missing
          BY <3>1, <4>1 DEF IInv, CallFollowsLeader
        <5> QED
          BY <5>1, <5>2 DEF IInv, TypeOK, HeldByKey
      <4>2. CASE waitsOn[r] # NoOne
        <5>1. Result(r) = call[waitsOn[r]].val /\ waitsOn[r] \in Requests
          BY <4>2 DEF IInv, TypeOK, Result
        <5>2. call[waitsOn[r]].state = "done" /\ key(waitsOn[r]) = key(r)
          BY <3>1, <4>2 DEF IInv, WaitersMatch
        <5>3. call[waitsOn[r]].val # Missing
          BY <5>1, <5>2 DEF IInv, CallFollowsLeader
        <5> QED
          BY <5>1, <5>2, <5>3 DEF IInv, TypeOK, HeldByKey
      <4> QED
        BY <4>1, <4>2
    <3> QED
      BY <3>1, <3>2, <3>3 DEF IInv, TypeOK
  <2>2. /\ written' \in [Requests -> Seq(Response)]
        /\ \A q \in Requests : q # r => written'[q] = written[q]
        /\ written'[r] # <<>>
        /\ SameKeyResponse'
    BY <2>1, WriteFits DEF IInv
  <2>3. TypeOK'
    BY <2>1, <2>2 DEF IInv, TypeOK, Places
  <2>4. SafeInside'
    BY <2>1 DEF IInv, SafeInside
  <2>5. FlightMatches'
    BY <2>1 DEF IInv, FlightMatches, key, Running
  <2>6. CallFollowsLeader'
    BY <2>1 DEF IInv, CallFollowsLeader, Running
  <2>7. WaitersMatch'
    BY <2>1 DEF IInv, WaitersMatch, key
  <2>8. FetchedIsMissing'
    BY <2>1 DEF IInv, FetchedIsMissing, key
  <2>9. HeldByKey'
    BY <2>1 DEF IInv, HeldByKey, key
  <2>10. AnsweredWhenDone'
    BY <2>1, <2>2 DEF IInv, AnsweredWhenDone
  <2> QED
    BY <2>2, <2>3, <2>4, <2>5, <2>6, <2>7, <2>8, <2>9, <2>10 DEF IInv
<1>2. CASE ~shared(r) /\ written[r] = <<>>
  <2>1. /\ pc[r] = "post"
        /\ pc' = [pc EXCEPT ![r] = "direct"]
        /\ UNCHANGED <<target, store, flight, call, waitsOn, written>>
        /\ cacheOps' \in [hit : Nat, miss : Nat] /\ calls' \in Nat /\ forgotten' \in Nat
    BY <1>2 DEF IInv, TypeOK, Post, Goto
  <2>2. TypeOK'
    BY <2>1 DEF IInv, TypeOK, Places
  <2>3. SafeInside'
    BY <2>1 DEF IInv, SafeInside
  <2>4. FlightMatches'
    BY <2>1 DEF IInv, FlightMatches, key, Running
  <2>5. CallFollowsLeader'
    BY <2>1 DEF IInv, CallFollowsLeader, Running
  <2>6. WaitersMatch'
    BY <2>1, <1>2 DEF IInv, WaitersMatch, key, shared
  <2>7. FetchedIsMissing'
    BY <2>1 DEF IInv, FetchedIsMissing, key
  <2>8. HeldByKey'
    BY <2>1 DEF IInv, HeldByKey, key
  <2>9. SameKeyResponse'
    BY <2>1 DEF IInv, SameKeyResponse, key
  <2>10. AnsweredWhenDone'
    BY <2>1 DEF IInv, AnsweredWhenDone
  <2> QED
    BY <2>2, <2>3, <2>4, <2>5, <2>6, <2>7, <2>8, <2>9, <2>10 DEF IInv
<1>3. CASE ~shared(r) /\ written[r] # <<>>
  <2>1. /\ pc[r] = "post"
        /\ pc' = [pc EXCEPT ![r] = "done"]
        /\ UNCHANGED <<target, store, flight, call, waitsOn, written>>
        /\ cacheOps' \in [hit : Nat, miss : Nat] /\ calls' \in Nat /\ forgotten' \in Nat
    BY <1>3 DEF IInv, TypeOK, Post, Goto
  <2>2. TypeOK'
    BY <2>1 DEF IInv, TypeOK, Places
  <2>3. SafeInside'
    BY <2>1 DEF IInv, SafeInside
  <2>4. FlightMatches'
    BY <2>1 DEF IInv, FlightMatches, key, Running
  <2>5. CallFollowsLeader'
    BY <2>1 DEF IInv, CallFollowsLeader, Running
  <2>6. WaitersMatch'
    BY <2>1 DEF IInv, WaitersMatch, key
  <2>7. FetchedIsMissing'
    BY <2>1 DEF IInv, FetchedIsMissing, key
  <2>8. HeldByKey'
    BY <2>1 DEF IInv, HeldByKey, key
  <2>9. SameKeyResponse'
    BY <2>1 DEF IInv, SameKeyResponse, key
  <2>10. AnsweredWhenDone'
    BY <2>1, <1>3 DEF IInv, AnsweredWhenDone
  <2> QED
    BY <2>2, <2>3, <2>4, <2>5, <2>6, <2>7, <2>8, <2>9, <2>10 DEF IInv
<1> QED
  BY <1>1, <1>2, <1>3

\* The proxy call outside fn.
LEMMA DirectIInv == ASSUME IInv, NEW r \in Requests, Direct(r) PROVE IInv'
<1>1. CASE \E class \in Classes : Write(r, Answer(r, class)) /\ Goto(r, "done")
  <2>p. PICK class \in Classes : Write(r, Answer(r, class)) /\ Goto(r, "done")
    BY <1>1
  <2>1. /\ pc[r] = "direct"
        /\ pc' = [pc EXCEPT ![r] = "done"]
        /\ Write(r, Answer(r, class))
        /\ UNCHANGED <<target, store, flight, call, waitsOn>>
        /\ Answer(r, class) \in Response
        /\ Answer(r, class).target = target[r]
        /\ cacheOps' \in [hit : Nat, miss : Nat] /\ calls' \in Nat /\ forgotten' \in Nat
    BY <2>p DEF IInv, TypeOK, Direct, Goto, Answer, Response
  <2>2. /\ written' \in [Requests -> Seq(Response)]
        /\ \A q \in Requests : q # r => written'[q] = written[q]
        /\ written'[r] # <<>>
        /\ SameKeyResponse'
    BY <2>1, WriteFits DEF IInv
  <2>3. TypeOK'
    BY <2>1, <2>2 DEF IInv, TypeOK, Places
  <2>4. SafeInside'
    BY <2>1 DEF IInv, SafeInside, Running
  <2>5. FlightMatches'
    BY <2>1 DEF IInv, FlightMatches, key, Running
  <2>6. CallFollowsLeader'
    BY <2>1 DEF IInv, CallFollowsLeader, Running
  <2>7. WaitersMatch'
    BY <2>1 DEF IInv, WaitersMatch, key
  <2>8. FetchedIsMissing'
    BY <2>1 DEF IInv, FetchedIsMissing, key
  <2>9. HeldByKey'
    BY <2>1 DEF IInv, HeldByKey, key
  <2>10. AnsweredWhenDone'
    BY <2>1, <2>2 DEF IInv, TypeOK, AnsweredWhenDone
  <2> QED
    BY <2>2, <2>3, <2>4, <2>5, <2>6, <2>7, <2>8, <2>9, <2>10 DEF IInv
<1>2. CASE Goto(r, "aborted") /\ UNCHANGED written
  <2>1. /\ pc[r] = "direct"
        /\ pc' = [pc EXCEPT ![r] = "aborted"]
        /\ UNCHANGED <<target, store, flight, call, waitsOn, written>>
        /\ cacheOps' \in [hit : Nat, miss : Nat] /\ calls' \in Nat /\ forgotten' \in Nat
    BY <1>2 DEF IInv, TypeOK, Direct, Goto
  <2>2. TypeOK'
    BY <2>1 DEF IInv, TypeOK, Places
  <2>3. SafeInside'
    BY <2>1 DEF IInv, SafeInside, Running
  <2>4. FlightMatches'
    BY <2>1 DEF IInv, FlightMatches, key, Running
  <2>5. CallFollowsLeader'
    BY <2>1 DEF IInv, CallFollowsLeader, Running
  <2>6. WaitersMatch'
    BY <2>1 DEF IInv, WaitersMatch, key
  <2>7. FetchedIsMissing'
    BY <2>1 DEF IInv, FetchedIsMissing, key
  <2>8. HeldByKey'
    BY <2>1 DEF IInv, HeldByKey, key
  <2>9. SameKeyResponse'
    BY <2>1 DEF IInv, SameKeyResponse, key
  <2>10. AnsweredWhenDone'
    BY <2>1 DEF IInv, AnsweredWhenDone
  <2> QED
    BY <2>2, <2>3, <2>4, <2>5, <2>6, <2>7, <2>8, <2>9, <2>10 DEF IInv
<1> QED
  BY <1>1, <1>2 DEF Direct

\* An entry is evicted, expires or is deleted.
LEMMA ForgetIInv == ASSUME IInv, NEW k \in Keys, Forget(k) PROVE IInv'
<1>1. /\ store' = [store EXCEPT ![k] = Missing]
      /\ UNCHANGED <<pc, target, flight, call, waitsOn, written, cacheOps, calls>>
      /\ forgotten' \in Nat
  BY DEF Forget, IInv, TypeOK
<1>2. TypeOK'
  BY <1>1 DEF IInv, TypeOK
<1>3. SafeInside' /\ FlightMatches' /\ CallFollowsLeader' /\ WaitersMatch'
  BY <1>1 DEF IInv, SafeInside, FlightMatches, CallFollowsLeader, WaitersMatch, key
<1>4. FetchedIsMissing' /\ HeldByKey'
  BY <1>1 DEF IInv, FetchedIsMissing, HeldByKey, key
<1>5. SameKeyResponse' /\ AnsweredWhenDone'
  BY <1>1 DEF IInv, SameKeyResponse, AnsweredWhenDone, key
<1> QED
  BY <1>2, <1>3, <1>4, <1>5 DEF IInv

\* Every step, and every stutter, preserves the invariant.
LEMMA NextIInv == IInv /\ [Next]_vars => IInv'
<1> SUFFICES ASSUME IInv, [Next]_vars PROVE IInv'
  OBVIOUS
<1>1. ASSUME NEW r \in Requests, Step(r) PROVE IInv'
  BY <1>1, ArriveIInv, LookupIInv, LeadIInv, JoinIInv, DoubleCheckIInv, ProxyIInv, AdmitIInv,
     FinishIInv, UnwindIInv, WakeIInv, PostIInv, DirectIInv DEF Step
<1>2. ASSUME NEW k \in Keys, Forget(k) PROVE IInv'
  BY <1>2, ForgetIInv
<1>3. CASE UNCHANGED vars
  BY <1>3 DEF vars, IInv, TypeOK, SafeInside, FlightMatches, CallFollowsLeader, WaitersMatch,
     FetchedIsMissing, HeldByKey, SameKeyResponse, AnsweredWhenDone, key
<1> QED
  BY <1>1, <1>2, <1>3 DEF Next, Terminating

\* The inductive invariant holds in every reachable state.
THEOREM Invariance == Spec => []IInv
BY InitIInv, NextIInv, PTL DEF Spec

(***************************************************************************)
(* At most one request per key runs fn, the one singleflight has on        *)
(* record, for any number of concurrent requests.                          *)
(***************************************************************************)
THEOREM SingleFlight == Spec => []OneCallPerKey
<1>1. IInv => OneCallPerKey
  <2> SUFFICES ASSUME IInv, NEW k \in Keys
               PROVE  InFlight(k) = IF flight[k] = NoOne THEN {} ELSE {flight[k]}
    BY DEF OneCallPerKey, IInv
  <2>1. \A r \in InFlight(k) : flight[k] = r
    BY DEF InFlight, IInv, FlightMatches, Running
  <2>2. CASE flight[k] = NoOne
    BY <2>1, <2>2, CacheAssumption DEF InFlight
  <2>3. CASE flight[k] # NoOne
    <3>1. /\ flight[k] \in Requests /\ key(flight[k]) = k /\ pc[flight[k]] \in Running
          /\ target[flight[k]].safe
      BY <2>3 DEF IInv, TypeOK, FlightMatches, SafeInside
    <3>2. flight[k] \in InFlight(k)
      BY <3>1 DEF InFlight, Running
    <3> QED
      BY <2>1, <2>3, <3>2
  <2> QED
    BY <2>2, <2>3
<1> QED
  BY <1>1, Invariance, PTL

(***************************************************************************)
(* The middleware only stores what the cache does not hold, so the update  *)
(* path of LRUCache.Set, which skips the byte limit, is never taken.       *)
(***************************************************************************)
THEOREM NeverOverwrites == Spec => []StoresOnlyIntoGaps
<1>1. IInv => StoresOnlyIntoGaps
  BY DEF IInv, FetchedIsMissing, StoresOnlyIntoGaps
<1> QED
  BY <1>1, Invariance, PTL

\* A request that the chain ends has been answered.
THEOREM AllAnswered == Spec => []AnsweredWhenDone
<1>1. IInv => AnsweredWhenDone
  BY DEF IInv
<1> QED
  BY <1>1, Invariance, PTL

(***************************************************************************)
(* Whatever the keys are, a client receives a response to its own request  *)
(* or to a GET or HEAD under the same cache key.                           *)
(***************************************************************************)
THEOREM SameKey == Spec => []SameKeyResponse
<1>1. IInv => SameKeyResponse
  BY DEF IInv
<1> QED
  BY <1>1, Invariance, PTL

(***************************************************************************)
(* Where no two GET or HEAD targets share a cache key, a client receives   *)
(* only responses to what it asked for.  The hypothesis is the one that    *)
(* an escaped "?" in a path breaks: see run cache_key_collision.           *)
(***************************************************************************)
THEOREM DistinctKeys ==
    ASSUME \A t, u \in Targets : t.safe /\ u.safe /\ cacheKey(t) = cacheKey(u) => t = u
    PROVE  Spec => []RightResponse
<1>1. IInv => RightResponse
  <2> SUFFICES ASSUME IInv, NEW r \in Requests, NEW i \in DOMAIN written[r]
               PROVE  written[r][i].target = target[r]
    BY DEF RightResponse
  <2>1. written[r] \in Seq(Response)
    BY DEF IInv, TypeOK
  <2>2. written[r][i] \in Response
    BY <2>1
  <2>3. written[r][i].target \in Targets /\ target[r] \in Targets
    BY <2>2 DEF IInv, TypeOK, Response
  <2> QED
    BY <2>3 DEF IInv, SameKeyResponse, FitsKey, key
<1> QED
  BY <1>1, Invariance, PTL
=============================================================================
