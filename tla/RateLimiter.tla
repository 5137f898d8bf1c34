---------------------------- MODULE RateLimiter ----------------------------
(***************************************************************************)
(* core/security/rate_limiter.go: a token bucket per client address, lazy  *)
(* refill on each request, and a background Cleanup that drops the buckets *)
(* of idle clients.                                                        *)
(*                                                                         *)
(* A clock tick is short enough that a token takes a whole number of ticks *)
(* to refill; bucket contents are counted in ticks, so one tick refills    *)
(* one unit and a request costs TokenTicks units.  The float64 arithmetic  *)
(* of the code is exact in the model.                                      *)
(***************************************************************************)
EXTENDS Integers, Sequences

CONSTANTS
    IPs,        \* client addresses
    capacity,   \* tokens a full bucket holds
    TokenTicks, \* ticks to refill one token: 1 / rate
    maxAge,     \* idle ticks after which Cleanup drops a bucket
    MaxTime     \* bound on the clock

\* NewRateLimiter refuses a capacity or a rate that is not positive.
ASSUME RateLimiterAssumption ==
    /\ capacity \in Nat \ {0}
    /\ TokenTicks \in Nat \ {0}
    /\ maxAge \in Nat
    /\ MaxTime \in Nat

Full == capacity * TokenTicks

VARIABLES
    buckets,    \* rl.buckets: units left and time of the last refill
    now,        \* time.Now()
    admitted    \* history: the times of the requests allowed for each client

vars == <<buckets, now, admitted>>

Bucket == [tokens : 0 .. Full, lastRefill : Nat]

Init ==
    /\ buckets = [ip \in {} |-> [tokens |-> 0, lastRefill |-> 0]]
    /\ now = 0
    /\ admitted = [ip \in IPs |-> <<>>]

\* The refill: elapsed time in units, never above the capacity.
Refilled(b) ==
    IF b.tokens + (now - b.lastRefill) > Full
      THEN Full ELSE b.tokens + (now - b.lastRefill)

\* What a client could spend now; a client without a bucket gets a full one.
Available(ip) == IF ip \in DOMAIN buckets THEN Refilled(buckets[ip]) ELSE Full

PutBucket_ClockKept(ip, tokens) ==
    buckets' = [i \in DOMAIN buckets \cup {ip} |->
                  IF i # ip THEN buckets[i]
                  ELSE [tokens |-> tokens,
                        lastRefill |-> IF ip \in DOMAIN buckets
                                         THEN buckets[ip].lastRefill ELSE now]]

PutBucket(ip, tokens) ==
    buckets' = [i \in DOMAIN buckets \cup {ip} |->
                  IF i = ip THEN [tokens |-> tokens, lastRefill |-> now] ELSE buckets[i]]

\* Allow, under rl.mu: refill, then take a token if there is one.
Allow(ip) ==
    /\ IF Available(ip) >= TokenTicks
         THEN /\ PutBucket(ip, Available(ip) - TokenTicks)
              /\ admitted' = [admitted EXCEPT ![ip] = Append(@, now)]
         ELSE /\ PutBucket(ip, Available(ip))
              /\ UNCHANGED admitted
    /\ UNCHANGED now

Stale(ip) == buckets[ip].lastRefill < now - maxAge

Cleanup_FullOnly ==
    /\ buckets' = [ip \in {i \in DOMAIN buckets : ~Stale(i) \/ buckets[i].tokens < Full}
                     |-> buckets[ip]]
    /\ UNCHANGED <<now, admitted>>

\* The cleanup manager's tick: every idle bucket is dropped.
Cleanup ==
    /\ buckets' = [ip \in {i \in DOMAIN buckets : ~Stale(i)} |-> buckets[ip]]
    /\ UNCHANGED <<now, admitted>>

Tick ==
    /\ now < MaxTime
    /\ now' = now + 1
    /\ UNCHANGED <<buckets, admitted>>

Next == (\E ip \in IPs : Allow(ip)) \/ Cleanup \/ Tick

Spec == Init /\ [][Next]_vars

\* The clock and the cleanup manager go on.
FairSpec == Spec /\ WF_vars(Tick) /\ WF_vars(Cleanup)

----------------------------------------------------------------------------

\* The type invariant: no bucket overflows, goes negative or is dated ahead.
TypeOK ==
    /\ now \in Nat
    /\ DOMAIN buckets \subseteq IPs
    /\ \A ip \in DOMAIN buckets : /\ buckets[ip] \in Bucket
                                  /\ buckets[ip].lastRefill <= now
    /\ admitted \in [IPs -> Seq(Nat)]

(***************************************************************************)
(* The limit itself: between any two admissions of a client, both          *)
(* included, no more requests pass than a full bucket plus the tokens      *)
(* refilled in that time, whatever the cleanup did meanwhile               *)
(* (rate_limiter.go:48-79,100-110).                                        *)
(***************************************************************************)
WindowLimit ==
    \A ip \in IPs : \A i, j \in DOMAIN admitted[ip] :
        i <= j => TokenTicks * (j - i + 1) <= Full + (admitted[ip][j] - admitted[ip][i])

(***************************************************************************)
(* Cleanup is invisible to clients: dropping a bucket changes nobody's     *)
(* allowance.  This needs a bucket to be full again after maxAge.          *)
(***************************************************************************)
CleanupInvisible ==
    [][ now' = now /\ admitted' = admitted /\ DOMAIN buckets' # DOMAIN buckets
          => \A ip \in DOMAIN buckets \ DOMAIN buckets' : Available(ip) = Full ]_vars

(***************************************************************************)
(* Abandoned clients do not stay in memory: a bucket that is not used is   *)
(* dropped once it is older than maxAge.                                   *)
(***************************************************************************)
StaleDropped ==
    \A ip \in IPs : (ip \in DOMAIN buckets /\ Stale(ip))
                      ~> (ip \notin DOMAIN buckets \/ ~Stale(ip))
=============================================================================
