----------------------------- MODULE StateStore -----------------------------
(***************************************************************************)
(* forecasting/state_store.py: a ring of the latest states, a ring per     *)
(* client, the states not yet persisted, and the SQLite table.  flush and  *)
(* load hold the lock only while they touch the memory: between that and   *)
(* the database other threads come in.  A state is known by the telemetry  *)
(* line it was parsed from.                                                *)
(***************************************************************************)
EXTENDS Integers, Sequences, FiniteSets, Filtering, SequencesExt, FiniteSetsExt, Functions

CONSTANTS
    Lines, Owner,       \* telemetry lines, and the ip_hash of each
    Threads,            \* callers of flush_to_sqlite and load_from_sqlite
    capacity,           \* of the ring buffer
    IndexCapacity,      \* of the ring of one client (200)
    MaxLoads,           \* bound on the calls of load_from_sqlite
    MaxAppends          \* bound on the calls of append

StoreAssumption ==
    /\ DOMAIN Owner = Lines /\ IsFiniteSet(Threads)
    /\ capacity \in Nat \ {0} /\ IndexCapacity \in Nat \ {0} /\ MaxLoads \in Nat /\ MaxAppends \in Nat

VARIABLES
    buffer, ip_index, unflushed,    \* memory
    db,                             \* rows of network_states by id
    to_save, loaded_states,         \* what a thread took and has still to put
    loads,                          \* calls of load_from_sqlite so far
    appended, lost                  \* history: how often a line was appended, forgotten

storeVars == <<buffer, ip_index, unflushed, db, to_save, loaded_states, loads, appended, lost>>

ipHashes == {Owner[l] : l \in Lines}

Count(s, l)   == Cardinality({i \in DOMAIN s : s[i] = l})
InFlight(l)   == SumFunction([t \in Threads |-> Count(to_save[t], l)])
Latest(s, n)  == SubSeq(s, Max({1, Len(s) - n + 1}), Len(s))    \* s[-n:]
OfClient(s, ip) == Filter(s, {l \in Lines : Owner[l] = ip})

NoStates == [t \in Threads |-> <<>>]

StoreInit ==
    /\ buffer = <<>> /\ unflushed = <<>>
    /\ ip_index = [ip \in ipHashes |-> <<>>]
    /\ db = <<>>
    /\ to_save = NoStates /\ loaded_states = NoStates
    /\ loads = 0
    /\ appended = [l \in Lines |-> 0] /\ lost = [l \in Lines |-> 0]

\* deque(maxlen) keeps the latest; append and load_from_sqlite put states into the buffer and
\* into their client's ring
Remember(s) ==
    /\ buffer' = Latest(buffer \o s, capacity)
    /\ ip_index' = [ip \in ipHashes |-> Latest(ip_index[ip] \o OfClient(s, ip), IndexCapacity)]

append(l) ==
    /\ Remember(<<l>>)
    /\ unflushed' = Append(unflushed, l)
    /\ appended' = [appended EXCEPT ![l] = @ + 1]
    /\ UNCHANGED <<db, to_save, loaded_states, loads, lost>>

\* flush_to_sqlite under the lock, when there is something to flush
TakeUnflushed_Keep(t) ==
    /\ unflushed # <<>> /\ to_save[t] = <<>>
    /\ to_save' = [to_save EXCEPT ![t] = unflushed]
    /\ UNCHANGED <<unflushed, buffer, ip_index, db, loaded_states, loads, appended, lost>>
TakeUnflushed(t) ==
    /\ unflushed # <<>> /\ to_save[t] = <<>>
    /\ to_save' = [to_save EXCEPT ![t] = unflushed]
    /\ unflushed' = <<>>
    /\ UNCHANGED <<buffer, ip_index, db, loaded_states, loads, appended, lost>>

\* executemany and commit, in one transaction
InsertRows(t) ==
    /\ to_save[t] # <<>>
    /\ db' = db \o to_save[t]
    /\ to_save' = [to_save EXCEPT ![t] = <<>>]
    /\ UNCHANGED <<buffer, ip_index, unflushed, loaded_states, loads, appended, lost>>

\* the database is locked or full: the transaction rolls back, the rows are gone
InsertFails(t) ==
    /\ to_save[t] # <<>>
    /\ lost' = [l \in Lines |-> lost[l] + Count(to_save[t], l)]
    /\ to_save' = [to_save EXCEPT ![t] = <<>>]
    /\ UNCHANGED <<buffer, ip_index, unflushed, db, loaded_states, loads, appended>>

\* load_from_sqlite: ORDER BY id DESC LIMIT, reversed ...
FetchRows(t, limit) ==
    /\ loads < MaxLoads /\ loaded_states[t] = <<>>
    /\ loads' = loads + 1
    /\ loaded_states' = [loaded_states EXCEPT ![t] = Latest(db, limit)]
    /\ UNCHANGED <<buffer, ip_index, unflushed, db, to_save, appended, lost>>

AddLoaded_IndexInFront(t) ==
    /\ loaded_states[t] # <<>>
    /\ buffer' = Latest(buffer \o loaded_states[t], capacity)
    /\ ip_index' = [ip \in ipHashes |->
                        Latest(OfClient(loaded_states[t], ip) \o ip_index[ip], IndexCapacity)]
    /\ loaded_states' = [loaded_states EXCEPT ![t] = <<>>]
    /\ UNCHANGED <<unflushed, db, to_save, loads, appended, lost>>

\* ... and, with the lock, into the memory but not into the unflushed states
AddLoaded(t) ==
    /\ loaded_states[t] # <<>>
    /\ Remember(loaded_states[t])
    /\ loaded_states' = [loaded_states EXCEPT ![t] = <<>>]
    /\ UNCHANGED <<unflushed, db, to_save, loads, appended, lost>>

\* The process ends without a flush: its memory goes, the table stays.
Forget ==
    /\ buffer' = <<>> /\ unflushed' = <<>> /\ ip_index' = [ip \in ipHashes |-> <<>>]
    /\ to_save' = NoStates /\ loaded_states' = NoStates
    /\ lost' = [l \in Lines |-> lost[l] + Count(unflushed, l) + InFlight(l)]
    /\ UNCHANGED <<db, loads, appended>>

----------------------------------------------------------------------------

\* The store alone, shared by threads that append, flush and load as they please.
StoreNext ==
    \/ \E l \in Lines : SumFunction(appended) < MaxAppends /\ append(l)
    \/ \E t \in Threads :
         \/ TakeUnflushed(t) \/ InsertRows(t) \/ InsertFails(t)
         \/ \E limit \in 1 .. MaxAppends : FetchRows(t, limit)
         \/ AddLoaded(t)

----------------------------------------------------------------------------

\* A state handed to append is in exactly one place: waiting, in the hands of a flush, in a
\* row of the table, or lost to a failed insert or a crash (append, flush_to_sqlite).  No
\* order of appends, flushes and loads persists it twice or lets it slip between two locks.
NothingForgotten ==
    \A l \in Lines : appended[l] = Count(unflushed, l) + InFlight(l) + Count(db, l) + lost[l]

\* The ring of a client and the ring of all clients tell the same story (append,
\* load_from_sqlite): the client's latest states in the buffer are the end of its own ring, in
\* the same order, so the sliding windows cut from a client's ring are what the buffer saw.
IndexFollowsBuffer ==
    \A ip \in ipHashes : IsSuffix(Latest(OfClient(buffer, ip), IndexCapacity), ip_index[ip])
=============================================================================
