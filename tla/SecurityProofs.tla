--------------------------- MODULE SecurityProofs ---------------------------
(***************************************************************************)
(* The two rule-based filters for every set of clients and every length of *)
(* run.  First the token bucket, for every capacity and rate, provided an  *)
(* idle bucket is full before Cleanup drops it; then the sliding windows   *)
(* of the traffic rules, for every threshold and window.                   *)
(***************************************************************************)
EXTENDS MCSecurity, DataTheorems, TLAPS

\* What n requests cost.  The proofs below only use the facts of CostSucc.
Cost(n) == TokenTicks * n

(***************************************************************************)
(* The potential argument: what a client has spent since its i-th          *)
(* admission, plus what it could spend now, never exceeds a full bucket    *)
(* plus the time since then.                                               *)
(***************************************************************************)
Potential ==
    \A ip \in IPs : \A i \in 1 .. Len(admitted[ip]) :
        /\ admitted[ip][i] <= now
        /\ Cost(Len(admitted[ip]) - i + 1) + Available(ip)
              <= Full + (now - admitted[ip][i])

Limited ==
    \A ip \in IPs : \A i, j \in 1 .. Len(admitted[ip]) :
        i <= j => Cost(j - i + 1) <= Full + (admitted[ip][j] - admitted[ip][i])

IInv == TypeOK /\ Potential /\ Limited

----------------------------------------------------------------------------

\* Sizes and the cost of one request.
LEMMA Sizes ==
    /\ Full \in Nat
    /\ TokenTicks \in Nat
    /\ Cost(1) = TokenTicks
BY RateLimiterAssumption DEF Full, Cost

\* The cost of one more request.
LEMMA CostSucc ==
    ASSUME NEW n \in Int
    PROVE  Cost(n) \in Int /\ Cost(n + 1) = Cost(n) + TokenTicks
BY RateLimiterAssumption DEF Cost

\* A client never has a negative allowance nor more than a full bucket.
LEMMA AvailableRange ==
    ASSUME TypeOK, NEW ip \in IPs
    PROVE  Available(ip) \in 0 .. Full
<1>1. CASE ip \in DOMAIN buckets
  BY <1>1, Sizes DEF TypeOK, Bucket, Available, Refilled
<1>2. CASE ip \notin DOMAIN buckets
  BY <1>2, Sizes DEF Available
<1> QED
  BY <1>1, <1>2

\* The empty limiter satisfies the invariant.
LEMMA InitIInv == Init => IInv
<1> SUFFICES ASSUME Init PROVE IInv
  OBVIOUS
<1>1. \A ip \in IPs : admitted[ip] = <<>>
  BY DEF Init
<1>2. TypeOK
  BY DEF Init, TypeOK
<1>3. Potential /\ Limited
  BY <1>1 DEF Potential, Limited
<1> QED
  BY <1>2, <1>3 DEF IInv

\* A request, allowed or refused, preserves it.
LEMMA AllowStep ==
    ASSUME IInv, NEW c \in IPs, Allow(c)
    PROVE  IInv'
<1> USE Sizes
<1> DEFINE av == Available(c)
<1>1. av \in 0 .. Full /\ now \in Nat /\ now' = now
  BY AvailableRange DEF IInv, TypeOK, Allow
<1>2. \A ip \in IPs : admitted[ip] \in Seq(Nat) /\ Len(admitted[ip]) \in Nat
  BY DEF IInv, TypeOK
<1>3. PICK left \in 0 .. Full : PutBucket(c, left)
  BY <1>1 DEF Allow
<1>4. /\ Available(c)' = left
      /\ \A ip \in IPs \ {c} : Available(ip)' = Available(ip)
  <2>1. c \in DOMAIN buckets' /\ buckets'[c] = [tokens |-> left, lastRefill |-> now]
    BY <1>3 DEF PutBucket
  <2>2. Available(c)' = left
    BY <1>1, <1>3, <2>1 DEF Available, Refilled
  <2>3. ASSUME NEW ip \in IPs \ {c}
        PROVE  Available(ip)' = Available(ip)
    BY <1>1, <1>3 DEF PutBucket, Available, Refilled
  <2> QED
    BY <2>2, <2>3
<1>5. /\ DOMAIN buckets' \subseteq IPs
      /\ \A ip \in DOMAIN buckets' : buckets'[ip] \in Bucket /\ buckets'[ip].lastRefill <= now
  BY <1>1, <1>3 DEF IInv, TypeOK, PutBucket, Bucket
<1>6. CASE av >= TokenTicks
  <2>1. admitted' = [admitted EXCEPT ![c] = Append(@, now)] /\ left = av - TokenTicks
    <3>1. PutBucket(c, av - TokenTicks) /\ admitted' = [admitted EXCEPT ![c] = Append(@, now)]
      BY <1>6 DEF Allow
    <3> QED
      BY <1>3, <3>1 DEF PutBucket
  <2> DEFINE h == admitted[c]
             n == Len(admitted[c])
  <2>2. /\ admitted'[c] = Append(h, now)
        /\ Append(h, now) \in Seq(Nat)
        /\ Len(Append(h, now)) = n + 1
        /\ \A i \in 1 .. n : Append(h, now)[i] = h[i]
        /\ Append(h, now)[n + 1] = now
        /\ \A ip \in IPs \ {c} : admitted'[ip] = admitted[ip]
    BY <1>1, <1>2, <2>1, AppendProperties DEF IInv, TypeOK
  <2>3. TypeOK'
    BY <1>1, <1>5, <2>1, <2>2 DEF IInv, TypeOK
  <2>4. n \in Nat /\ h \in Seq(Nat) /\ \A i \in 1 .. n : h[i] \in Nat
    BY <1>2
  <2>5. ASSUME NEW i \in 1 .. n + 1
        PROVE  /\ admitted'[c][i] <= now
               /\ Cost(n + 1 - i + 1) + left <= Full + (now - admitted'[c][i])
    <3>1. CASE i = n + 1
      <4>1. admitted'[c][i] = now /\ n + 1 - i + 1 = 1
        BY <2>2, <2>4, <3>1
      <4> QED
        BY <1>1, <2>1, <4>1
    <3>2. CASE i \in 1 .. n
      <4>1. /\ admitted'[c][i] = h[i] /\ h[i] <= now
            /\ Cost(n - i + 1) + av <= Full + (now - h[i])
        BY <2>2, <3>2 DEF IInv, Potential
      <4>2. /\ Cost(n + 1 - i + 1) = Cost(n - i + 1) + TokenTicks
            /\ Cost(n - i + 1) \in Int
        <5>1. n - i + 1 \in Int /\ n + 1 - i + 1 = (n - i + 1) + 1
          BY <2>4
        <5> QED
          BY <5>1, CostSucc
      <4>3. h[i] \in Int
        BY <2>4, <3>2
      <4> DEFINE x == Cost(n - i + 1)
                 y == Cost(n + 1 - i + 1)
                 t == h[i]
      <4>4. /\ x \in Int /\ y = x + TokenTicks /\ t \in Int /\ t <= now
            /\ x + av <= Full + (now - t) /\ left = av - TokenTicks
        BY <2>1, <4>1, <4>2, <4>3
      <4>5. y + left <= Full + (now - t) /\ t <= now
        <5> HIDE DEF x, y, t, av
        <5> QED
          BY <1>1, <4>4
      <4> QED
        BY <4>1, <4>5
    <3>3. i = n + 1 \/ i \in 1 .. n
      BY <2>4
    <3> QED
      BY <3>1, <3>2, <3>3
  <2>6. Potential'
    <3>1. ASSUME NEW ip \in IPs, NEW i \in 1 .. Len(admitted'[ip])
          PROVE  /\ admitted'[ip][i] <= now'
                 /\ Cost(Len(admitted'[ip]) - i + 1) + Available(ip)'
                       <= Full + (now' - admitted'[ip][i])
      <4>1. CASE ip = c
        <5>1. i \in 1 .. n + 1 /\ Len(admitted'[ip]) = n + 1
          BY <2>2, <4>1
        <5>2. /\ admitted'[c][i] <= now
              /\ Cost(n + 1 - i + 1) + left <= Full + (now - admitted'[c][i])
          BY <2>5, <5>1
        <5>3. Len(admitted'[c]) = n + 1 /\ Available(ip)' = left /\ now' = now
          BY <1>1, <1>4, <4>1, <5>1
        <5>4. Cost(Len(admitted'[ip]) - i + 1) = Cost(n + 1 - i + 1)
          BY <4>1, <5>3
        <5>5. admitted'[ip][i] <= now'
          BY <4>1, <5>2, <5>3
        <5>6. Cost(Len(admitted'[ip]) - i + 1) + Available(ip)'
                 <= Full + (now' - admitted'[ip][i])
          BY <4>1, <5>2, <5>3, <5>4
        <5> QED
          BY <5>5, <5>6
      <4>2. CASE ip # c
        BY <1>1, <1>4, <2>2, <4>2 DEF IInv, Potential
      <4> QED
        BY <4>1, <4>2
    <3> QED
      BY <3>1 DEF Potential
  <2>7. Limited'
    <3>1. ASSUME NEW ip \in IPs, NEW i \in 1 .. Len(admitted'[ip]),
                 NEW j \in 1 .. Len(admitted'[ip]), i <= j
          PROVE  Cost(j - i + 1) <= Full + (admitted'[ip][j] - admitted'[ip][i])
      <4>1. CASE ip # c
        BY <2>2, <3>1, <4>1 DEF IInv, Limited
      <4>2. CASE ip = c /\ j \in 1 .. n
        <5>1. i \in 1 .. n
          BY <2>2, <2>4, <3>1, <4>2
        <5> QED
          BY <2>2, <3>1, <4>2, <5>1 DEF IInv, Limited
      <4>3. CASE ip = c /\ j = n + 1
        <5>1. /\ Cost(n + 1 - i + 1) + left <= Full + (now - admitted'[c][i])
              /\ admitted'[c][j] = now /\ i \in 1 .. n + 1
          BY <2>2, <2>5, <3>1, <4>3
        <5>2. Cost(n + 1 - i + 1) \in Int /\ admitted'[c][i] \in Nat
          <6>1. n + 1 - i + 1 \in Int
            BY <2>4, <5>1
          <6>2. Cost(n + 1 - i + 1) \in Int
            BY <6>1, CostSucc
          <6> QED
            BY <2>2, <2>4, <5>1, <6>2
        <5> DEFINE x == Cost(n + 1 - i + 1)
                   t == admitted'[c][i]
        <5>3. x + left <= Full + (now - t) /\ x \in Int /\ t \in Nat
          BY <5>1, <5>2
        <5>4. x <= Full + (now - t)
          <6> HIDE DEF x, t
          <6> QED
            BY <1>1, <5>3
        <5> QED
          BY <4>3, <5>1, <5>4
      <4> QED
        BY <2>2, <2>4, <3>1, <4>1, <4>2, <4>3
    <3> QED
      BY <3>1 DEF Limited
  <2> QED
    BY <2>3, <2>6, <2>7 DEF IInv
<1>7. CASE ~(av >= TokenTicks)
  <2>1. admitted' = admitted /\ left = av
    <3>1. PutBucket(c, av) /\ admitted' = admitted
      BY <1>7 DEF Allow
    <3> QED
      BY <1>3, <3>1 DEF PutBucket
  <2>2. \A ip \in IPs : Available(ip)' = Available(ip)
    BY <1>4, <2>1
  <2>3. TypeOK'
    BY <1>1, <1>5, <2>1 DEF IInv, TypeOK
  <2> QED
    BY <1>1, <2>1, <2>2, <2>3 DEF IInv, Potential, Limited
<1> QED
  BY <1>6, <1>7

\* Cleanup preserves it, because the buckets it drops are full.
LEMMA CleanupStep ==
    ASSUME maxAge >= Full, IInv, Cleanup
    PROVE  IInv' /\ \A ip \in DOMAIN buckets \ DOMAIN buckets' : Available(ip) = Full
<1> USE Sizes
<1>1. ASSUME NEW ip \in DOMAIN buckets, Stale(ip)
      PROVE  Available(ip) = Full
  <2>1. /\ buckets[ip].tokens \in Nat /\ buckets[ip].lastRefill \in Nat /\ now \in Nat
        /\ buckets[ip].lastRefill < now - maxAge
    BY <1>1 DEF IInv, TypeOK, Bucket, Stale
  <2>2. buckets[ip].tokens + (now - buckets[ip].lastRefill) > Full
    BY <2>1, RateLimiterAssumption
  <2> QED
    BY <2>2 DEF Available, Refilled
<1>2. \A ip \in DOMAIN buckets \ DOMAIN buckets' : Stale(ip)
  BY DEF Cleanup
<1>3. ASSUME NEW ip \in IPs
      PROVE  Available(ip)' = Available(ip)
  <2>1. CASE ip \in DOMAIN buckets'
    BY <2>1 DEF Cleanup, Available, Refilled
  <2>2. CASE ip \notin DOMAIN buckets'
    BY <1>1, <1>2, <2>2 DEF Cleanup, Available, Refilled
  <2> QED
    BY <2>1, <2>2
<1>4. TypeOK'
  BY DEF IInv, TypeOK, Cleanup
<1>5. Potential' /\ Limited'
  BY <1>3 DEF IInv, Potential, Limited, Cleanup
<1> QED
  BY <1>1, <1>2, <1>4, <1>5 DEF IInv

\* The clock preserves it: an allowance grows by at most the time passed.
LEMMA TickStep ==
    ASSUME IInv, Tick
    PROVE  IInv'
<1> USE Sizes
<1>1. now \in Nat /\ now' = now + 1 /\ buckets' = buckets /\ admitted' = admitted
  BY DEF IInv, TypeOK, Tick
<1>2. TypeOK'
  <2>1. \A ip \in DOMAIN buckets : buckets[ip].lastRefill \in Nat /\ buckets[ip].lastRefill <= now
    BY DEF IInv, TypeOK, Bucket
  <2>2. \A ip \in DOMAIN buckets : buckets[ip].lastRefill <= now + 1
    BY <1>1, <2>1
  <2> QED
    BY <1>1, <2>2 DEF IInv, TypeOK
<1>3. ASSUME NEW ip \in IPs
      PROVE  Available(ip)' \in Int /\ Available(ip)' <= Available(ip) + 1 /\ Available(ip) \in Int
  <2>1. CASE ip \in DOMAIN buckets
    BY <1>1, <2>1 DEF IInv, TypeOK, Bucket, Available, Refilled
  <2>2. CASE ip \notin DOMAIN buckets
    BY <1>1, <2>2 DEF Available
  <2> QED
    BY <2>1, <2>2
<1>4. Potential'
  <2>1. ASSUME NEW ip \in IPs, NEW i \in 1 .. Len(admitted[ip])
        PROVE  /\ admitted[ip][i] <= now + 1
               /\ Cost(Len(admitted[ip]) - i + 1) + Available(ip)'
                     <= Full + ((now + 1) - admitted[ip][i])
    <3>1. /\ admitted[ip][i] <= now
          /\ Cost(Len(admitted[ip]) - i + 1) + Available(ip)
                <= Full + (now - admitted[ip][i])
      BY <2>1 DEF IInv, Potential
    <3>2. admitted[ip][i] \in Nat /\ Cost(Len(admitted[ip]) - i + 1) \in Int
      <4>1. admitted[ip] \in Seq(Nat) /\ Len(admitted[ip]) \in Nat
        BY <2>1 DEF IInv, TypeOK
      <4>2. Len(admitted[ip]) - i + 1 \in Int
        BY <4>1
      <4>3. Cost(Len(admitted[ip]) - i + 1) \in Int
        BY <4>2, CostSucc
      <4> QED
        BY <4>1, <4>3
    <3> DEFINE x == Cost(Len(admitted[ip]) - i + 1)
               t == admitted[ip][i]
               u == Available(ip)
               w == Available(ip)'
    <3>3. /\ x \in Int /\ t \in Nat /\ u \in Int /\ w \in Int
          /\ w <= u + 1 /\ t <= now /\ x + u <= Full + (now - t)
      BY <1>3, <3>1, <3>2
    <3>4. t <= now + 1 /\ x + w <= Full + ((now + 1) - t)
      <4> HIDE DEF x, t, u, w
      <4> QED
        BY <1>1, <3>3
    <3> QED
      BY <3>4
  <2> QED
    BY <1>1, <2>1 DEF Potential
<1>5. Limited'
  BY <1>1 DEF IInv, Limited
<1> QED
  BY <1>2, <1>4, <1>5 DEF IInv

\* The inductive invariant holds in every reachable state.
LEMMA Inductive ==
    ASSUME maxAge >= Full
    PROVE  Spec => []IInv
<1>1. IInv /\ [Next]_vars => IInv'
  <2> SUFFICES ASSUME IInv, [Next]_vars PROVE IInv'
    OBVIOUS
  <2>1. CASE UNCHANGED vars
    BY <2>1 DEF IInv, TypeOK, Potential, Limited, Available, Refilled, vars
  <2> QED
    BY <2>1, AllowStep, CleanupStep, TickStep DEF Next
<1> QED
  BY <1>1, InitIInv, PTL DEF Spec

\* Buckets stay between empty and full.
THEOREM BucketsTyped ==
    ASSUME maxAge >= Full
    PROVE  Spec => []TypeOK
<1>1. IInv => TypeOK
  BY DEF IInv
<1> QED
  BY <1>1, Inductive, PTL

(***************************************************************************)
(* No client ever gets more than a full bucket plus the refill through, in *)
(* any window of time.                                                     *)
(***************************************************************************)
THEOREM RateIsLimited ==
    ASSUME maxAge >= Full
    PROVE  Spec => []WindowLimit
<1>1. IInv => WindowLimit
  <2> SUFFICES ASSUME IInv PROVE WindowLimit
    OBVIOUS
  <2>1. \A ip \in IPs : DOMAIN admitted[ip] = 1 .. Len(admitted[ip])
    BY LenProperties DEF IInv, TypeOK
  <2> QED
    BY <2>1 DEF IInv, Limited, WindowLimit, Cost
<1> QED
  BY <1>1, Inductive, PTL

(***************************************************************************)
(* Cleanup changes nobody's allowance.                                     *)
(***************************************************************************)
THEOREM CleanupIsInvisible ==
    ASSUME maxAge >= Full
    PROVE  Spec => CleanupInvisible
<1> DEFINE A == now' = now /\ admitted' = admitted /\ DOMAIN buckets' # DOMAIN buckets
                  => \A ip \in DOMAIN buckets \ DOMAIN buckets' : Available(ip) = Full
<1>1. IInv /\ [Next]_vars => [A]_vars
  <2> SUFFICES ASSUME IInv, [Next]_vars PROVE [A]_vars
    OBVIOUS
  <2>1. CASE Cleanup
    BY <2>1, CleanupStep
  <2>2. ASSUME NEW c \in IPs, Allow(c) PROVE [A]_vars
    <3>1. DOMAIN buckets \subseteq DOMAIN buckets'
      BY <2>2 DEF Allow, PutBucket
    <3> QED
      BY <3>1
  <2>3. CASE Tick
    BY <2>3 DEF Tick
  <2>4. CASE UNCHANGED vars
    BY <2>4
  <2> QED
    BY <2>1, <2>2, <2>3, <2>4 DEF Next
<1> QED
  BY <1>1, Inductive, PTL DEF Spec, CleanupInvisible

----------------------------------------------------------------------------

\* The moments a window of length w counts at time n.
Since(n, w) == {ts \in Nat : ts > n - w}

\* Counted from their ends, every request that passed is no later than the one recorded there.
Behind(p, r) ==
    /\ Len(p) <= Len(r)
    /\ \A j \in 0 .. Len(p) - 1 : p[Len(p) - j] <= r[Len(r) - j]

\* A moment that comes h places after another in p comes w after it.
Spread(p, h, w) == \A i \in 1 .. Len(p) : i > h => p[i] - p[i - h] >= w

\* One key of one rule: the timestamps t it has, all those recorded, and those that passed.
Sound(t, r, p, n, w, h) ==
    /\ Ascending(t, n) /\ Ascending(r, n) /\ Ascending(p, n)
    /\ Filter(t, Since(n, w)) = Filter(r, Since(n, w))
    /\ Behind(p, r)
    /\ Spread(p, h, w)

\* Nothing has been recorded.
LEMMA SoundAtFirst ==
    ASSUME NEW n \in Nat, NEW w, NEW h
    PROVE  Sound(<<>>, <<>>, <<>>, n, w, h)
<1> DEFINE e == <<>>
<1>1. e \in Seq(Nat) /\ Len(e) = 0
  OBVIOUS
<1> HIDE DEF e
<1>2. Ascending(e, n)
  BY <1>1 DEF Ascending
<1>3. Behind(e, e)
  BY <1>1 DEF Behind
<1>4. Spread(e, h, w)
  BY <1>1 DEF Spread
<1>5. Sound(e, e, e, n, w, h)
  BY <1>2, <1>3, <1>4 DEF Sound
<1> QED
  BY <1>5 DEF e

\* The clock moves: windows only lose timestamps.
LEMMA SoundLater ==
    ASSUME NEW n \in Nat, NEW w \in Nat, NEW h, NEW t, NEW r, NEW p, Sound(t, r, p, n, w, h)
    PROVE  Sound(t, r, p, n + 1, w, h)
<1>1. \A s : Ascending(s, n) => Ascending(s, n + 1)
  <2> SUFFICES ASSUME NEW s, Ascending(s, n) PROVE Ascending(s, n + 1)
    OBVIOUS
  <2>1. s \in Seq(Nat) /\ \A i \in 1 .. Len(s) : s[i] <= n
    BY DEF Ascending
  <2>2. \A i \in 1 .. Len(s) : s[i] <= n + 1
    BY <2>1
  <2> QED
    BY <2>2 DEF Ascending
<1> DEFINE A == Since(n, w)
           B == Since(n + 1, w)
<1>2. A \cap B = B
  BY DEF Since
<1>3. t \in Seq(Nat) /\ r \in Seq(Nat) /\ Filter(t, A) = Filter(r, A)
  BY DEF Sound, Ascending
<1> HIDE DEF A, B
<1>4. Filter(Filter(t, A), B) = Filter(t, B)
  BY <1>2, <1>3, FilterTwice
<1>5. Filter(Filter(r, A), B) = Filter(r, B)
  BY <1>2, <1>3, FilterTwice
<1>6. Filter(t, B) = Filter(r, B)
  BY <1>3, <1>4, <1>5
<1> QED
  BY <1>1, <1>6 DEF Sound, B

\* A key whose latest timestamp is older than the window can be dropped.
LEMMA SoundWithout ==
    ASSUME NEW n \in Nat, NEW w \in Nat, NEW h, NEW t, NEW r, NEW p, Sound(t, r, p, n, w, h),
           t # <<>> => n - t[Len(t)] > w
    PROVE  Sound(<<>>, r, p, n, w, h)
<1>1. t \in Seq(Nat) /\ Len(t) \in Nat
  BY LenProperties DEF Sound, Ascending
<1>2. \A i \in 1 .. Len(t) : t[i] \notin Since(n, w)
  <2> SUFFICES ASSUME NEW i \in 1 .. Len(t) PROVE ~ (t[i] > n - w)
    BY DEF Since
  <2>1. Len(t) \in 1 .. Len(t)
    BY <1>1
  <2>2. t # <<>>
    BY <1>1
  <2>3. t[i] <= t[Len(t)]
    <3>1. CASE i = Len(t)
      BY <1>1, <3>1
    <3>2. CASE i < Len(t)
      BY <2>1, <3>2 DEF Sound, Ascending
    <3> QED
      BY <1>1, <3>1, <3>2
  <2>4. t[i] \in Nat /\ t[Len(t)] \in Nat
    BY <1>1, <2>1
  <2> QED
    BY <2>2, <2>3, <2>4
<1>3. Filter(t, Since(n, w)) = <<>>
  BY <1>1, <1>2, FilterNone
<1> DEFINE e == <<>>
<1>4. e \in Seq(Nat) /\ Len(e) = 0
  OBVIOUS
<1> HIDE DEF e
<1>5. Filter(e, Since(n, w)) = <<>>
  <2>1. \A i \in 1 .. Len(e) : e[i] \notin Since(n, w)
    BY <1>4
  <2> QED
    BY <1>4, <2>1, FilterNone
<1>6. Ascending(e, n)
  BY <1>4 DEF Ascending
<1>7. Sound(e, r, p, n, w, h)
  BY <1>3, <1>5, <1>6 DEF Sound
<1> QED
  BY <1>7 DEF e

\* recordRequest counts right: what the window holds afterwards.
LEMMA WindowRecorded ==
    ASSUME NEW n \in Nat, NEW w \in Nat \ {0}, NEW t \in Seq(Nat), NEW r \in Seq(Nat),
           Filter(t, Since(n, w)) = Filter(r, Since(n, w))
    PROVE  Filter(Append(Filter(t, Since(n, w)), n), Since(n, w))
              = Filter(Append(r, n), Since(n, w))
<1> DEFINE S == Since(n, w)
<1>1. n \in S /\ S \cap S = S
  BY DEF Since
<1> HIDE DEF S
<1> DEFINE q == Filter(t, S)
<1>2. q \in Seq(Nat)
  BY FilterPlaces
<1>3. Filter(q, S) = q
  BY <1>1, FilterTwice
<1>4. q = Filter(r, S)
  BY DEF S
<1> HIDE DEF q
<1>5. Filter(Append(q, n), S) = Append(q, n)
  <2>1. Filter(Append(q, n), S) = IF n \in S THEN Append(Filter(q, S), n) ELSE Filter(q, S)
    BY <1>2, FilterAppend
  <2> QED
    BY <1>1, <1>3, <2>1
<1>6. Filter(Append(r, n), S) = Append(q, n)
  <2>1. Filter(Append(r, n), S) = IF n \in S THEN Append(Filter(r, S), n) ELSE Filter(r, S)
    BY FilterAppend
  <2> QED
    BY <1>1, <1>4, <2>1
<1> QED
  BY <1>5, <1>6 DEF q, S

\* A recorded request that does not pass falls no further behind.
LEMMA BehindRefused ==
    ASSUME NEW n \in Nat, NEW p, NEW r, Ascending(p, n), Ascending(r, n), Behind(p, r)
    PROVE  Behind(p, Append(r, n))
<1>1. /\ p \in Seq(Nat) /\ r \in Seq(Nat) /\ Len(p) \in Nat /\ Len(r) \in Nat
      /\ Len(p) <= Len(r)
  BY LenProperties DEF Ascending, Behind
<1> DEFINE a == Append(r, n)
<1>2. /\ Len(a) = Len(r) + 1 /\ a[Len(r) + 1] = n
      /\ \A i \in 1 .. Len(r) : a[i] = r[i]
  BY <1>1, AppendProperties
<1> HIDE DEF a
<1>3. ASSUME NEW j \in 0 .. Len(p) - 1
      PROVE  p[Len(p) - j] <= a[Len(a) - j]
  <2>1. Len(p) - j \in 1 .. Len(p) /\ Len(r) - j \in 1 .. Len(r)
    BY <1>1
  <2>2. p[Len(p) - j] \in Nat /\ r[Len(r) - j] \in Nat
    BY <1>1, <2>1, ElementOfSeq
  <2>3. CASE j = 0
    <3>1. a[Len(a) - j] = n
      BY <1>1, <1>2, <2>3
    <3>2. p[Len(p) - j] <= n
      BY <2>1 DEF Ascending
    <3> QED
      BY <3>1, <3>2
  <2>4. CASE j # 0
    <3> DEFINE i == Len(r) - j
               k == Len(r) - j + 1
    <3>1. i \in 1 .. Len(r) /\ k \in 1 .. Len(r) /\ i < k /\ Len(a) - j = k
      BY <1>1, <1>2, <2>1, <2>4
    <3>2. p[Len(p) - j] <= r[i]
      BY DEF Behind
    <3> HIDE DEF i, k
    <3>3. r[i] <= r[k] /\ r[i] \in Nat /\ r[k] \in Nat
      BY <1>1, <3>1 DEF Ascending
    <3>4. a[Len(a) - j] = r[k]
      BY <1>2, <3>1
    <3> QED
      BY <2>2, <3>2, <3>3, <3>4
  <2> QED
    BY <2>3, <2>4
<1>4. Len(p) <= Len(a)
  BY <1>1, <1>2
<1> QED
  BY <1>3, <1>4 DEF Behind, a

\* One that passes is the latest of both.
LEMMA BehindPassed ==
    ASSUME NEW n \in Nat, NEW p \in Seq(Nat), NEW r \in Seq(Nat), Behind(p, r)
    PROVE  Behind(Append(p, n), Append(r, n))
<1>1. Len(p) \in Nat /\ Len(r) \in Nat /\ Len(p) <= Len(r)
  BY LenProperties DEF Behind
<1> DEFINE a == Append(r, n)
           b == Append(p, n)
<1>2. /\ Len(a) = Len(r) + 1 /\ a[Len(r) + 1] = n
      /\ \A i \in 1 .. Len(r) : a[i] = r[i]
  BY <1>1, AppendProperties
<1>3. /\ Len(b) = Len(p) + 1 /\ b[Len(p) + 1] = n
      /\ \A i \in 1 .. Len(p) : b[i] = p[i]
  BY <1>1, AppendProperties
<1> HIDE DEF a, b
<1>4. ASSUME NEW j \in 0 .. Len(b) - 1
      PROVE  b[Len(b) - j] <= a[Len(a) - j]
  <2>1. CASE j = 0
    <3>1. Len(b) - j = Len(p) + 1 /\ Len(a) - j = Len(r) + 1
      BY <1>1, <1>2, <1>3, <2>1
    <3> QED
      BY <1>2, <1>3, <3>1
  <2>2. CASE j # 0
    <3> DEFINE m == j - 1
    <3>1. /\ m \in 0 .. Len(p) - 1 /\ Len(b) - j = Len(p) - m /\ Len(a) - j = Len(r) - m
          /\ Len(p) - m \in 1 .. Len(p) /\ Len(r) - m \in 1 .. Len(r)
      BY <1>1, <1>2, <1>3, <2>2
    <3> HIDE DEF m
    <3>2. p[Len(p) - m] <= r[Len(r) - m]
      BY <3>1 DEF Behind
    <3>3. b[Len(b) - j] = p[Len(p) - m] /\ a[Len(a) - j] = r[Len(r) - m]
      BY <1>2, <1>3, <3>1
    <3> QED
      BY <3>2, <3>3
  <2> QED
    BY <2>1, <2>2
<1>5. Len(b) <= Len(a)
  BY <1>1, <1>2, <1>3
<1> QED
  BY <1>4, <1>5 DEF Behind, a, b

\* When fewer than h are counted in the window, the h-th latest that passed lies before it.
LEMMA SpreadPassed ==
    ASSUME NEW n \in Nat, NEW w \in Nat, NEW h \in Nat \ {0}, NEW p, NEW r,
           Ascending(p, n), Ascending(r, n), Behind(p, r), Spread(p, h, w),
           Len(Filter(r, Since(n, w))) < h
    PROVE  Spread(Append(p, n), h, w)
<1>1. /\ p \in Seq(Nat) /\ r \in Seq(Nat) /\ Len(p) \in Nat /\ Len(r) \in Nat
      /\ Len(p) <= Len(r)
  BY LenProperties DEF Ascending, Behind
<1> DEFINE b == Append(p, n)
<1>2. /\ Len(b) = Len(p) + 1 /\ b[Len(p) + 1] = n
      /\ \A i \in 1 .. Len(p) : b[i] = p[i]
  BY <1>1, AppendProperties
<1> HIDE DEF b
<1>3. ASSUME NEW i \in 1 .. Len(b), i > h
      PROVE  b[i] - b[i - h] >= w
  <2>1. CASE i \in 1 .. Len(p)
    <3>1. i - h \in 1 .. Len(p)
      BY <1>1, <1>3, <2>1
    <3> QED
      BY <1>2, <1>3, <2>1, <3>1 DEF Spread
  <2>2. CASE i = Len(p) + 1
    <3> DEFINE j == h - 1
               a == Len(r) - j
    <3>1. /\ j \in 0 .. Len(p) - 1 /\ i - h = Len(p) - j /\ Len(p) - j \in 1 .. Len(p)
          /\ a \in 1 .. Len(r) /\ Len(r) - a + 1 = h
      BY <1>1, <1>3, <2>2
    <3>2. p[Len(p) - j] <= r[a]
      BY <3>1 DEF Behind
    <3> HIDE DEF j, a
    <3>3. p[Len(p) - j] \in Nat /\ r[a] \in Nat /\ a \in Nat
      <4>1. p[Len(p) - j] \in Nat
        BY <1>1, <3>1, ElementOfSeq
      <4>2. r[a] \in Nat
        BY <1>1, <3>1, ElementOfSeq
      <4>3. a \in Nat
        BY <1>1, <3>1
      <4> QED
        BY <4>1, <4>2, <4>3
    <3>4. ~ (r[a] > n - w)
      <4> SUFFICES ASSUME r[a] > n - w PROVE FALSE
        OBVIOUS
      <4>1. ASSUME NEW m \in a .. Len(r)
            PROVE  r[m] \in Since(n, w)
        <5>1. m \in 1 .. Len(r)
          BY <1>1, <3>1, <3>3
        <5>2. r[m] \in Nat
          BY <1>1, <5>1
        <5>3. m = a \/ a < m
          BY <1>1, <3>3
        <5>4. r[a] <= r[m]
          <6>1. CASE m = a
            BY <3>3, <6>1
          <6>2. CASE a < m
            BY <3>1, <5>1, <6>2 DEF Ascending
          <6> QED
            BY <5>3, <6>1, <6>2
        <5> QED
          BY <3>3, <5>2, <5>4 DEF Since
      <4>2. Len(Filter(r, Since(n, w))) >= Len(r) - a + 1
        BY <1>1, <3>1, <4>1, FilterEnd
      <4>3. Len(Filter(r, Since(n, w))) \in Nat
        BY <1>1, FilterPlaces, LenProperties
      <4> QED
        BY <3>1, <4>2, <4>3
    <3>5. b[i] = n /\ b[i - h] = p[Len(p) - j]
      BY <1>2, <2>2, <3>1
    <3> QED
      BY <3>2, <3>3, <3>4, <3>5
  <2> QED
    BY <1>1, <1>2, <2>1, <2>2
<1> QED
  BY <1>3 DEF Spread, b

\* A request is recorded, and passes when its window holds no more than h with it.
LEMMA SoundRecorded ==
    ASSUME NEW n \in Nat, NEW w \in Nat \ {0}, NEW h \in Nat \ {0}, NEW t, NEW r, NEW p,
           Sound(t, r, p, n, w, h),
           NEW x, x = Append(Filter(t, Since(n, w)), n)
    PROVE  Sound(x, Append(r, n), IF Len(x) <= h THEN Append(p, n) ELSE p, n, w, h)
<1>1. /\ Ascending(t, n) /\ Ascending(r, n) /\ Ascending(p, n) /\ Behind(p, r)
      /\ Spread(p, h, w) /\ Filter(t, Since(n, w)) = Filter(r, Since(n, w))
  BY DEF Sound
<1>2. t \in Seq(Nat) /\ r \in Seq(Nat) /\ p \in Seq(Nat)
  BY <1>1 DEF Ascending
<1>3. Ascending(x, n) /\ Ascending(Append(r, n), n) /\ Ascending(Append(p, n), n)
  BY <1>1, FilterAscending, AppendAscending
<1>4. Filter(x, Since(n, w)) = Filter(Append(r, n), Since(n, w))
  BY <1>1, <1>2, WindowRecorded
<1>5. Len(x) = Len(Filter(r, Since(n, w))) + 1 /\ Len(Filter(r, Since(n, w))) \in Nat
  <2> DEFINE q == Filter(r, Since(n, w))
  <2>1. q \in Seq(Nat)
    BY <1>2, FilterPlaces
  <2> HIDE DEF q
  <2>2. Len(Append(q, n)) = Len(q) + 1 /\ Len(q) \in Nat
    BY <2>1, AppendProperties, LenProperties
  <2> QED
    BY <1>1, <2>2 DEF q
<1>6. CASE Len(x) <= h
  <2>1. Len(Filter(r, Since(n, w))) < h
    BY <1>5, <1>6
  <2>2. Spread(Append(p, n), h, w)
    BY <1>1, <2>1, SpreadPassed
  <2>3. Behind(Append(p, n), Append(r, n))
    BY <1>1, <1>2, BehindPassed
  <2> QED
    BY <1>3, <1>4, <1>6, <2>2, <2>3 DEF Sound
<1>7. CASE ~ (Len(x) <= h)
  <2>1. Behind(p, Append(r, n))
    BY <1>1, BehindRefused
  <2> QED
    BY <1>1, <1>3, <1>4, <1>7, <2>1 DEF Sound
<1> QED
  BY <1>6, <1>7

----------------------------------------------------------------------------

(***************************************************************************)
(* The invariant of the traffic rules: the shape of their maps, and every  *)
(* key of both rules Sound.                                                *)
(***************************************************************************)
RulesShape ==
    /\ DOMAIN tracker = Rules!Rules
    /\ DOMAIN recorded = Rules!Rules /\ DOMAIN passed = Rules!Rules
    /\ \A rule \in Rules!Rules :
         /\ DOMAIN tracker[rule] \subseteq Rules!KeysOf(rule)
         /\ DOMAIN recorded[rule] = Rules!KeysOf(rule)
         /\ DOMAIN passed[rule] = Rules!KeysOf(rule)
    /\ pending \in [RulesIPs \X Endpoints -> Nat]
    /\ rulesNow \in Nat /\ requests \in Nat

KeySound(rule, k) ==
    Sound(Rules!Timestamps(rule, k), recorded[rule][k], passed[rule][k],
          rulesNow, Rules!Window(rule), Rules!Threshold(rule))

RulesInv ==
    /\ RulesShape
    /\ \A rule \in Rules!Rules : \A k \in Rules!KeysOf(rule) : KeySound(rule, k)

\* The instance's copy of Filter is Filter.
LEMMA SameFilter == \A s, S : Rules!Filter(s, S) = Filter(s, S)
BY Zenon DEF Rules!Filter, Filter, Rules!Cardinality, Cardinality

\* Windows and thresholds are positive.
LEMMA RuleSizes ==
    ASSUME NEW rule
    PROVE  Rules!Window(rule) \in Nat \ {0} /\ Rules!Threshold(rule) \in Nat \ {0}
BY RulesAssumption DEF Rules!TrafficRulesAssumption, Rules!Window, Rules!Threshold

\* A request's key is a key of the rule.
LEMMA KeyOfRule ==
    ASSUME NEW req \in RulesIPs \X Endpoints, NEW rule \in Rules!Rules
    PROVE  Rules!Key(rule, req) \in Rules!KeysOf(rule)
BY DEF Rules!Key, Rules!KeysOf

\* The invariant holds at first.
LEMMA InitRulesInv == Rules!Init => RulesInv
<1> SUFFICES ASSUME Rules!Init PROVE RulesInv
  OBVIOUS
<1>1. RulesShape
  BY DEF Rules!Init, Rules!Empty, RulesShape
<1>2. ASSUME NEW rule \in Rules!Rules, NEW k \in Rules!KeysOf(rule)
      PROVE  KeySound(rule, k)
  <2>1. /\ Rules!Timestamps(rule, k) = <<>> /\ recorded[rule][k] = <<>>
        /\ passed[rule][k] = <<>> /\ rulesNow = 0
    BY DEF Rules!Init, Rules!Empty, Rules!Timestamps
  <2>2. Sound(<<>>, <<>>, <<>>, 0, Rules!Window(rule), Rules!Threshold(rule))
    BY SoundAtFirst
  <2> QED
    BY <2>1, <2>2 DEF KeySound
<1> QED
  BY <1>1, <1>2 DEF RulesInv

\* Recording a request keeps every key of both rules sound.
LEMMA RecordKeepsSound ==
    ASSUME RulesInv, NEW rule \in Rules!Rules, NEW k \in Rules!KeysOf(rule),
           Rules!Record(rule, k), rulesNow' = rulesNow
    PROVE  /\ DOMAIN tracker' = Rules!Rules /\ DOMAIN recorded' = Rules!Rules
           /\ DOMAIN passed' = Rules!Rules
           /\ \A q \in Rules!Rules :
                /\ DOMAIN tracker'[q] \subseteq Rules!KeysOf(q)
                /\ DOMAIN recorded'[q] = Rules!KeysOf(q)
                /\ DOMAIN passed'[q] = Rules!KeysOf(q)
           /\ \A q \in Rules!Rules : \A x \in Rules!KeysOf(q) : KeySound(q, x)'
<1>1. /\ DOMAIN tracker = Rules!Rules /\ DOMAIN recorded = Rules!Rules
      /\ DOMAIN passed = Rules!Rules /\ rulesNow \in Nat
      /\ \A q \in Rules!Rules : /\ DOMAIN tracker[q] \subseteq Rules!KeysOf(q)
                                /\ DOMAIN recorded[q] = Rules!KeysOf(q)
                                /\ DOMAIN passed[q] = Rules!KeysOf(q)
  BY DEF RulesInv, RulesShape
<1> DEFINE new == Rules!Recorded(rule, k)
           row == [x \in DOMAIN tracker[rule] \cup {k} |->
                     IF x = k THEN new ELSE tracker[rule][x]]
<1>2. /\ tracker' = [tracker EXCEPT ![rule] = row]
      /\ recorded' = [recorded EXCEPT ![rule][k] = Append(recorded[rule][k], rulesNow)]
      /\ passed' = IF Len(new) <= Rules!Threshold(rule)
                     THEN [passed EXCEPT ![rule][k] = Append(passed[rule][k], rulesNow)]
                     ELSE passed
  BY DEF Rules!Record, Rules!WithinLimit
<1> HIDE DEF new
<1>3. /\ tracker'[rule] = row /\ DOMAIN tracker' = Rules!Rules
      /\ \A q \in Rules!Rules : q # rule => tracker'[q] = tracker[q]
  <2> HIDE DEF row
  <2> QED
    BY <1>1, <1>2
<1>4. /\ DOMAIN row = DOMAIN tracker[rule] \cup {k} /\ row[k] = new
      /\ \A x \in DOMAIN tracker[rule] : x # k => row[x] = tracker[rule][x]
  OBVIOUS
<1> HIDE DEF row
<1>5. /\ DOMAIN recorded' = Rules!Rules
      /\ \A q \in Rules!Rules : DOMAIN recorded'[q] = Rules!KeysOf(q)
      /\ recorded'[rule][k] = Append(recorded[rule][k], rulesNow)
      /\ \A q \in Rules!Rules : \A x \in Rules!KeysOf(q) :
            (q # rule \/ x # k) => recorded'[q][x] = recorded[q][x]
  BY <1>1, <1>2
<1>6. /\ DOMAIN passed' = Rules!Rules
      /\ \A q \in Rules!Rules : DOMAIN passed'[q] = Rules!KeysOf(q)
      /\ passed'[rule][k] = IF Len(new) <= Rules!Threshold(rule)
                              THEN Append(passed[rule][k], rulesNow) ELSE passed[rule][k]
      /\ \A q \in Rules!Rules : \A x \in Rules!KeysOf(q) :
            (q # rule \/ x # k) => passed'[q][x] = passed[q][x]
  BY <1>1, <1>2
<1>7. \A q \in Rules!Rules : DOMAIN tracker'[q] \subseteq Rules!KeysOf(q)
  BY <1>1, <1>3, <1>4
<1>8. ASSUME NEW q \in Rules!Rules, NEW x \in Rules!KeysOf(q)
      PROVE  KeySound(q, x)'
  <2>1. KeySound(q, x) /\ KeySound(rule, k)
    BY DEF RulesInv
  <2>2. CASE q = rule /\ x = k
    <3>1. Rules!Timestamps(rule, k)' = new
      BY <1>3, <1>4 DEF Rules!Timestamps
    <3>2. new = Append(Filter(Rules!Timestamps(rule, k), Since(rulesNow, Rules!Window(rule))),
                       rulesNow)
      BY SameFilter DEF new, Rules!Recorded, Rules!Prune, Rules!InWindow, Since
    <3>3. Rules!Window(rule) \in Nat \ {0} /\ Rules!Threshold(rule) \in Nat \ {0}
      BY RuleSizes
    <3>4. Sound(new, recorded'[rule][k], passed'[rule][k], rulesNow,
                Rules!Window(rule), Rules!Threshold(rule))
      <4> DEFINE t == Rules!Timestamps(rule, k)
                 r == recorded[rule][k]
                 p == passed[rule][k]
                 w == Rules!Window(rule)
                 h == Rules!Threshold(rule)
      <4>1. Sound(t, r, p, rulesNow, w, h)
        BY <2>1 DEF KeySound
      <4> HIDE DEF t, r, p, w, h
      <4>2. /\ w \in Nat \ {0} /\ h \in Nat \ {0}
            /\ new = Append(Filter(t, Since(rulesNow, w)), rulesNow)
        BY <3>2, <3>3 DEF t, w, h
      <4>3. Sound(new, Append(r, rulesNow), IF Len(new) <= h THEN Append(p, rulesNow) ELSE p,
                  rulesNow, w, h)
        BY <1>1, <4>1, <4>2, SoundRecorded
      <4> QED
        BY <1>5, <1>6, <4>3 DEF r, p, w, h
    <3>5. /\ Rules!Window(rule)' = Rules!Window(rule)
          /\ Rules!Threshold(rule)' = Rules!Threshold(rule)
      BY DEF Rules!Window, Rules!Threshold
    <3> QED
      BY <2>2, <3>1, <3>4, <3>5 DEF KeySound
  <2>3. CASE q # rule \/ x # k
    <3>1. Rules!Timestamps(q, x)' = Rules!Timestamps(q, x)
      BY <1>3, <1>4, <2>3 DEF Rules!Timestamps
    <3>2. recorded'[q][x] = recorded[q][x] /\ passed'[q][x] = passed[q][x]
      BY <1>5, <1>6, <2>3
    <3>3. Rules!Window(q)' = Rules!Window(q) /\ Rules!Threshold(q)' = Rules!Threshold(q)
      BY DEF Rules!Window, Rules!Threshold
    <3> QED
      BY <2>1, <3>1, <3>2, <3>3 DEF KeySound
  <2> QED
    BY <2>2, <2>3
<1> QED
  BY <1>3, <1>5, <1>6, <1>7, <1>8

\* Every step of the traffic rules preserves the invariant.
LEMMA RulesStep == RulesInv /\ [Rules!Next]_(Rules!vars) => RulesInv'
<1> SUFFICES ASSUME RulesInv, [Rules!Next]_(Rules!vars) PROVE RulesInv'
  OBVIOUS
<1>0. RulesShape
  BY DEF RulesInv
<1>1. ASSUME NEW req \in RulesIPs \X Endpoints, Rules!CheckBurst(req)
      PROVE  RulesInv'
  <2>1. Rules!Key("burst", req) \in Rules!KeysOf("burst") /\ "burst" \in Rules!Rules
    BY KeyOfRule DEF Rules!Rules
  <2>2. Rules!Record("burst", Rules!Key("burst", req)) /\ rulesNow' = rulesNow
    BY <1>1 DEF Rules!CheckBurst
  <2>3. pending' \in [RulesIPs \X Endpoints -> Nat] /\ rulesNow' \in Nat /\ requests' \in Nat
    BY <1>0, <1>1 DEF Rules!CheckBurst, RulesShape
  <2> QED
    BY <2>1, <2>2, <2>3, RecordKeepsSound DEF RulesInv, RulesShape
<1>2. ASSUME NEW req \in RulesIPs \X Endpoints, Rules!CheckEndpointAbuse(req)
      PROVE  RulesInv'
  <2>1. Rules!Key("endpoint", req) \in Rules!KeysOf("endpoint") /\ "endpoint" \in Rules!Rules
    BY KeyOfRule DEF Rules!Rules
  <2>2. Rules!Record("endpoint", Rules!Key("endpoint", req)) /\ rulesNow' = rulesNow
    BY <1>2 DEF Rules!CheckEndpointAbuse
  <2>3. pending' \in [RulesIPs \X Endpoints -> Nat] /\ rulesNow' \in Nat /\ requests' \in Nat
    BY <1>0, <1>2 DEF Rules!CheckEndpointAbuse, RulesShape
  <2> QED
    BY <2>1, <2>2, <2>3, RecordKeepsSound DEF RulesInv, RulesShape
<1>3. ASSUME Rules!Cleanup
      PROVE  RulesInv'
  <2> DEFINE Live(q) == {x \in DOMAIN tracker[q] : ~Rules!Stale(q, x)}
  <2>1. /\ tracker' = [q \in Rules!Rules |-> [x \in Live(q) |-> tracker[q][x]]]
        /\ UNCHANGED <<pending, rulesNow, requests, recorded, passed>>
    BY <1>3 DEF Rules!Cleanup
  <2>2. RulesShape'
    BY <1>0, <2>1 DEF RulesShape
  <2>3. ASSUME NEW q \in Rules!Rules, NEW k \in Rules!KeysOf(q)
        PROVE  KeySound(q, k)'
    <3>1. KeySound(q, k)
      BY DEF RulesInv
    <3>2. Rules!Window(q)' = Rules!Window(q) /\ Rules!Threshold(q)' = Rules!Threshold(q)
      BY DEF Rules!Window, Rules!Threshold
    <3>3. CASE k \in DOMAIN tracker[q] /\ Rules!Stale(q, k)
      <4> DEFINE t == tracker[q][k]
      <4>1. Rules!Timestamps(q, k) = t /\ Rules!Timestamps(q, k)' = <<>>
        BY <2>1, <3>3 DEF Rules!Timestamps
      <4>2. t # <<>> => rulesNow - t[Len(t)] > Rules!Window(q)
        BY <3>3 DEF Rules!Stale, Rules!Last
      <4> HIDE DEF t
      <4>3. rulesNow \in Nat /\ Rules!Window(q) \in Nat
        BY <1>0, RuleSizes DEF RulesShape
      <4>4. Sound(<<>>, recorded[q][k], passed[q][k], rulesNow,
                  Rules!Window(q), Rules!Threshold(q))
        BY <3>1, <4>1, <4>2, <4>3, SoundWithout DEF KeySound
      <4> QED
        BY <2>1, <3>2, <4>1, <4>4 DEF KeySound
    <3>4. CASE ~ (k \in DOMAIN tracker[q] /\ Rules!Stale(q, k))
      <4>1. Rules!Timestamps(q, k)' = Rules!Timestamps(q, k)
        BY <2>1, <3>4 DEF Rules!Timestamps
      <4> QED
        BY <2>1, <3>1, <3>2, <4>1 DEF KeySound
    <3> QED
      BY <3>3, <3>4
  <2> QED
    BY <2>2, <2>3 DEF RulesInv
<1>4. ASSUME Rules!Tick
      PROVE  RulesInv'
  <2>1. /\ rulesNow' = rulesNow + 1
        /\ UNCHANGED <<tracker, pending, requests, recorded, passed>>
    BY <1>4 DEF Rules!Tick
  <2>2. RulesShape'
    BY <1>0, <2>1 DEF RulesShape
  <2>3. ASSUME NEW q \in Rules!Rules, NEW k \in Rules!KeysOf(q)
        PROVE  KeySound(q, k)'
    <3>1. Rules!Window(q)' = Rules!Window(q) /\ Rules!Threshold(q)' = Rules!Threshold(q)
      BY DEF Rules!Window, Rules!Threshold
    <3>2. KeySound(q, k) /\ rulesNow \in Nat /\ Rules!Window(q) \in Nat
      BY <1>0, RuleSizes DEF RulesInv, RulesShape
    <3>3. Rules!Timestamps(q, k)' = Rules!Timestamps(q, k)
      BY <2>1 DEF Rules!Timestamps
    <3>4. Sound(Rules!Timestamps(q, k), recorded[q][k], passed[q][k], rulesNow + 1,
                Rules!Window(q), Rules!Threshold(q))
      BY <3>2, SoundLater DEF KeySound
    <3> QED
      BY <2>1, <3>1, <3>3, <3>4 DEF KeySound
  <2> QED
    BY <2>2, <2>3 DEF RulesInv
<1>5. ASSUME UNCHANGED Rules!vars
      PROVE  RulesInv'
  BY <1>5 DEF RulesInv, RulesShape, KeySound, Rules!vars, Rules!Timestamps, Rules!Window,
              Rules!Threshold
<1> QED
  BY <1>1, <1>2, <1>3, <1>4, <1>5 DEF Rules!Next

\* The invariant gives both properties.
LEMMA RulesInvGives == RulesInv => WindowExact /\ PassedWithinLimit
<1> SUFFICES ASSUME RulesInv PROVE WindowExact /\ PassedWithinLimit
  OBVIOUS
<1>0. RulesShape
  BY DEF RulesInv
<1>1. Rules!TypeOK
  <2>1. ASSUME NEW rule \in Rules!Rules, NEW k \in DOMAIN tracker[rule]
        PROVE  tracker[rule][k] \in Seq(0 .. rulesNow)
    <3>1. k \in Rules!KeysOf(rule)
      BY <1>0 DEF RulesShape
    <3> DEFINE t == tracker[rule][k]
    <3>2. Ascending(t, rulesNow)
      BY <3>1 DEF RulesInv, KeySound, Sound, Rules!Timestamps
    <3> HIDE DEF t
    <3>3. t \in Seq(Nat) /\ Len(t) \in Nat /\ rulesNow \in Nat
      BY <1>0, <3>2, LenProperties DEF Ascending, RulesShape
    <3>4. \A i \in 1 .. Len(t) : t[i] \in 0 .. rulesNow
      BY <3>2, <3>3 DEF Ascending
    <3>5. t \in [1 .. Len(t) -> 0 .. rulesNow]
      BY <3>3, <3>4
    <3> QED
      BY <3>3, <3>5 DEF t
  <2> QED
    BY <1>0, <2>1 DEF RulesShape, Rules!TypeOK
<1>2. WindowExact
  <2>1. ASSUME NEW rule \in Rules!Rules, NEW k \in Rules!KeysOf(rule)
        PROVE  Rules!Prune(rule, Rules!Timestamps(rule, k))
                  = Rules!Prune(rule, recorded[rule][k])
    BY SameFilter DEF RulesInv, KeySound, Sound, Since, Rules!Prune, Rules!InWindow
  <2> QED
    BY <1>1, <2>1 DEF WindowExact, Rules!WindowExact
<1>3. PassedWithinLimit
  <2>1. ASSUME NEW rule \in Rules!Rules, NEW k \in Rules!KeysOf(rule),
               NEW i \in DOMAIN passed[rule][k], i > Rules!Threshold(rule)
        PROVE  passed[rule][k][i] - passed[rule][k][i - Rules!Threshold(rule)]
                  >= Rules!Window(rule)
    <3> DEFINE p == passed[rule][k]
    <3>1. Ascending(p, rulesNow) /\ Spread(p, Rules!Threshold(rule), Rules!Window(rule))
      BY DEF RulesInv, KeySound, Sound
    <3>2. i \in 1 .. Len(p)
      BY <3>1, LenProperties DEF Ascending
    <3> HIDE DEF p
    <3>3. p[i] - p[i - Rules!Threshold(rule)] >= Rules!Window(rule)
      BY <2>1, <3>1, <3>2 DEF Spread
    <3> QED
      BY <3>3 DEF p
  <2> QED
    BY <2>1 DEF PassedWithinLimit, Rules!PassedWithinLimit
<1> QED
  BY <1>2, <1>3

\* RulesInv holds in every reachable state.
THEOREM RulesInvariance == Rules!Spec => []RulesInv
BY InitRulesInv, RulesStep, PTL DEF Rules!Spec

\* However requests, the two checks of each, the clock and the cleanup interleave, a rule
\* counts exactly the requests of its window: pruning and cleanup never lose or keep one.
THEOREM WindowsAreExact == Rules!Spec => []WindowExact
BY RulesInvariance, RulesInvGives, PTL

\* No rule ever lets more than its threshold of requests pass in one window.
THEOREM RulesLimit == Rules!Spec => []PassedWithinLimit
BY RulesInvariance, RulesInvGives, PTL
=============================================================================
