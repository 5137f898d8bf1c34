------------------------------ MODULE LRUCache ------------------------------
(***************************************************************************)
(* core/cache/lru_cache.go, ttl_manager.go and cache_metrics.go: a map     *)
(* into a recency list with an entry limit, a byte limit and a TTL per     *)
(* entry.  Every operation runs under c.mu, so each is one action.  A      *)
(* response is a version number (fresh for each Set) and a size.           *)
(***************************************************************************)
EXTENDS Integers, Sequences, FiniteSets, SequencesExt, FiniteSetsExt, Functions, Filtering

CONSTANTS
    Keys,           \* cache keys
    Sizes,          \* entrySize of the responses that are stored
    TTLs,           \* time to live passed to Set; 0 = never expires
    capacityArg,    \* NewLRUCache's capacity, any integer
    maxMemoryArg,   \* NewLRUCache's optional byte limit, any integer
    MaxTime,        \* bound on the clock
    MaxOps          \* bound on the number of operations

ASSUME LRUAssumption ==
    /\ IsFiniteSet(Keys)
    /\ Sizes \subseteq Nat \ {0}
    /\ TTLs \subseteq Nat
    /\ capacityArg \in Int /\ maxMemoryArg \in Int
    /\ MaxTime \in Nat /\ MaxOps \in Nat

VARIABLES
    order,          \* c.order: keys, most recently used first
    items,          \* c.items with the entry each element holds
    currentMemory,  \* c.currentMemory
    metrics,        \* hits, misses and evictions
    now,            \* time.Now()
    reply,          \* what the last Get returned: key and version, 0 for a miss
    ops,            \* operations so far; the version of the next Set is ops + 1
    history         \* history: entries inserted, and each key's last use

vars == <<order, items, currentMemory, metrics, now, reply, ops, history>>

\* NewLRUCache
capacity  == IF capacityArg <= 0 THEN 1 ELSE capacityArg
maxMemory == IF maxMemoryArg > 0 THEN maxMemoryArg ELSE 0

Entry == [value : Nat, size : Nat, Expiry : Nat]

Init ==
    /\ order = <<>>
    /\ items = [k \in {} |-> {}]
    /\ currentMemory = 0
    /\ metrics = [hits |-> 0, misses |-> 0, evictions |-> 0]
    /\ now = 1
    /\ reply = <<>>
    /\ ops = 0
    /\ history = [inserted |-> 0, lastUse |-> [k \in Keys |-> 0]]

\* time.Now().After(Expiry) is strict, and a zero Expiry never expires.
Expired(e) == e.Expiry # 0 /\ now > e.Expiry

MoveToFront_Dropped(key) == order

MoveToFront(key) == <<key>> \o Filter(order, Keys \ {key})

TotalSize(f, S) == SumFunctionOnSet([k \in S |-> f[k].size], S)

\* removeElement for each key of S: the list, the byte count and the map.
RemoveElements_MemoryKept(S) ==
    /\ order' = Filter(order, Keys \ S)
    /\ UNCHANGED currentMemory
    /\ items' = [k \in DOMAIN items \ S |-> items[k]]

RemoveElements(S) ==
    /\ order' = Filter(order, Keys \ S)
    /\ currentMemory' = currentMemory - TotalSize(items, S)
    /\ items' = [k \in DOMAIN items \ S |-> items[k]]

Operation == ops < MaxOps /\ ops' = ops + 1

Used(key) == [history EXCEPT !.lastUse[key] = ops + 1]

----------------------------------------------------------------------------

GetMiss(key) ==
    /\ key \notin DOMAIN items
    /\ metrics' = [metrics EXCEPT !.misses = @ + 1]
    /\ reply' = <<key, 0>>
    /\ UNCHANGED <<order, items, currentMemory, history>>

GetExpired_Served(key) ==
    /\ key \in DOMAIN items /\ Expired(items[key])
    /\ metrics' = [metrics EXCEPT !.hits = @ + 1]
    /\ reply' = <<key, items[key].value>>
    /\ UNCHANGED <<order, items, currentMemory, history>>

GetExpired(key) ==
    /\ key \in DOMAIN items /\ Expired(items[key])
    /\ RemoveElements({key})
    /\ metrics' = [metrics EXCEPT !.misses = @ + 1, !.evictions = @ + 1]
    /\ reply' = <<key, 0>>
    /\ UNCHANGED history

GetHit(key) ==
    /\ key \in DOMAIN items /\ ~Expired(items[key])
    /\ order' = MoveToFront(key)
    /\ metrics' = [metrics EXCEPT !.hits = @ + 1]
    /\ reply' = <<key, items[key].value>>
    /\ history' = Used(key)
    /\ UNCHANGED <<items, currentMemory>>

Get(key) ==
    /\ Operation
    /\ GetMiss(key) \/ GetExpired(key) \/ GetHit(key)
    /\ UNCHANGED now

NewEntry(size, ttl) ==
    [value |-> ops + 1, size |-> size, Expiry |-> IF ttl > 0 THEN now + ttl ELSE 0]

\* The key exists: value, size and expiry are replaced and the entry moves
\* to the front.  The function returns before the two eviction loops.
SetUpdate(key, e) ==
    /\ key \in DOMAIN items
    /\ currentMemory' = currentMemory + e.size - items[key].size
    /\ items' = [items EXCEPT ![key] = e]
    /\ order' = MoveToFront(key)
    /\ history' = Used(key)
    /\ UNCHANGED metrics

\* evict: the entries behind the first n
Evicted(list, n) == {list[i] : i \in n + 1 .. Len(list)}

Kept_OneTooMany(list, all, bytes) ==
    LET byCount == Min({Len(list), capacity + 1})
    IN  Max({n \in 0 .. byCount : n = 0 \/ maxMemory = 0
                                   \/ bytes - TotalSize(all, Evicted(list, n)) <= maxMemory})

\* Evictions take entries from the back, so what is kept is a prefix of the
\* list: the longest one that satisfies both loops' conditions.
Kept(list, all, bytes) ==
    LET byCount == Min({Len(list), capacity})
    IN  Max({n \in 0 .. byCount : n = 0 \/ maxMemory = 0
                                   \/ bytes - TotalSize(all, Evicted(list, n)) <= maxMemory})

\* The key is new: it goes to the front, then the back is evicted while
\* there are too many entries, then while there are too many bytes.
SetInsert(key, e) ==
    LET list  == <<key>> \o order
        all   == [k \in DOMAIN items \cup {key} |-> IF k = key THEN e ELSE items[k]]
        bytes == currentMemory + e.size
        n     == Kept(list, all, bytes)
        gone  == Evicted(list, n)
    IN  /\ key \notin DOMAIN items
        /\ order' = SubSeq(list, 1, n)
        /\ items' = [k \in DOMAIN all \ gone |-> all[k]]
        /\ currentMemory' = bytes - TotalSize(all, gone)
        /\ metrics' = [metrics EXCEPT !.evictions = @ + Cardinality(gone)]
        /\ history' = [Used(key) EXCEPT !.inserted = @ + 1]

Set(key, size, ttl) ==
    /\ Operation
    /\ LET e == NewEntry(size, ttl) IN SetUpdate(key, e) \/ SetInsert(key, e)
    /\ UNCHANGED <<now, reply>>

Delete(key) ==
    /\ Operation
    /\ RemoveElements({key} \cap DOMAIN items)
    /\ UNCHANGED <<metrics, now, reply, history>>

removeExpired_OnlyBack ==
    LET gone == {k \in DOMAIN items : Expired(items[k]) /\ k = order[Len(order)]}
    IN  /\ gone # {}
        /\ RemoveElements(gone)
        /\ metrics' = [metrics EXCEPT !.evictions = @ + Cardinality(gone)]
        /\ UNCHANGED <<now, reply, ops, history>>

\* The TTL manager's scan; a scan that finds nothing changes nothing.
removeExpired ==
    LET gone == {k \in DOMAIN items : Expired(items[k])}
    IN  /\ gone # {}
        /\ RemoveElements(gone)
        /\ metrics' = [metrics EXCEPT !.evictions = @ + Cardinality(gone)]
        /\ UNCHANGED <<now, reply, ops, history>>

Tick ==
    /\ now < MaxTime
    /\ now' = now + 1
    /\ UNCHANGED <<order, items, currentMemory, metrics, reply, ops, history>>

Next ==
    \/ \E k \in Keys : Get(k) \/ Delete(k)
    \/ \E k \in Keys, s \in Sizes, t \in TTLs : Set(k, s, t)
    \/ removeExpired
    \/ Tick

Spec == Init /\ [][Next]_vars

\* The TTL manager's ticker keeps scanning until it is stopped.
FairSpec == Spec /\ WF_vars(removeExpired)

----------------------------------------------------------------------------

\* The type invariant.
TypeOK ==
    /\ order \in Seq(Keys)
    /\ DOMAIN items \subseteq Keys
    /\ \A k \in DOMAIN items : items[k] \in Entry
    /\ currentMemory \in Nat
    /\ metrics \in [hits : Nat, misses : Nat, evictions : Nat]
    /\ now \in Nat /\ ops \in Nat
    /\ history \in [inserted : Nat, lastUse : [Keys -> Nat]]

(***************************************************************************)
(* The map and the list hold the same keys, each once, and never more than *)
(* the capacity (lru_cache.go:88-96,156-163): no operation leaves an       *)
(* element in one structure and not in the other.  Stated with the type    *)
(* invariant.                                                              *)
(***************************************************************************)
IndexMatchesList ==
    /\ TypeOK
    /\ ToSet(order) = DOMAIN items
    /\ Len(order) = Cardinality(DOMAIN items)
    /\ Len(order) <= capacity

(***************************************************************************)
(* currentMemory, adjusted by deltas in four places, is the sum of the     *)
(* sizes of the entries in the cache (lru_cache.go:94,148,156).            *)
(***************************************************************************)
MemoryAccounting == currentMemory = TotalSize(items, DOMAIN items)

(***************************************************************************)
(* An insertion evicts what it must and no more: afterwards both limits    *)
(* hold, even where an update had pushed the cache over the bytes; each    *)
(* entry evicted was used less recently than every one that stays; and the *)
(* most recently used of them would not have fitted, or nothing did: an    *)
(* entry larger than the byte limit empties the cache                      *)
(* (lru_cache.go:121,151,157,160-170).                                     *)
(***************************************************************************)
JustEnough ==
    history'.inserted # history.inserted =>
      LET kept == DOMAIN items'
          gone == DOMAIN items \ kept
          Warmest(k) == \A j \in gone : history.lastUse[j] <= history.lastUse[k]
      IN  /\ Cardinality(kept) <= capacity
          /\ maxMemory > 0 => currentMemory' <= maxMemory
          /\ \A j \in gone, k \in kept : history.lastUse[j] < history'.lastUse[k]
          /\ \A k \in gone : Warmest(k) =>
               \/ kept = {}
               \/ Cardinality(kept) = capacity
               \/ maxMemory > 0 /\ currentMemory' + items[k].size > maxMemory

EvictsJustEnough == [][JustEnough]_vars

\* What a lookup would find: the entry's version while it has not expired.
Visible == [k \in Keys |-> IF k \in DOMAIN items /\ ~Expired(items[k])
                             THEN items[k].value ELSE 0]

Store == INSTANCE ResponseStore
           WITH Responses <- 1 .. MaxOps, Missing <- 0, store <- Visible

(***************************************************************************)
(* Through every update, eviction, expiry and deletion a Get returns the   *)
(* response stored last under its key, unexpired, or nothing.              *)
(***************************************************************************)
ImplementsStore == Store!Spec

(***************************************************************************)
(* An expired entry does not stay in memory: it is removed or replaced,    *)
(* without any request asking for it (ttl_manager.go:28-49).               *)
(***************************************************************************)
ExpiredLeave ==
    \A k \in Keys : (k \in DOMAIN items /\ Expired(items[k]))
                      ~> (k \notin DOMAIN items \/ ~Expired(items[k]))
=============================================================================
