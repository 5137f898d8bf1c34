--------------------------- MODULE ResponseStore ---------------------------
(***************************************************************************)
(* What the cache middleware relies on: a store that may forget any entry  *)
(* at any time, but that never answers a lookup with anything except the   *)
(* response stored last under that key.                                    *)
(***************************************************************************)
CONSTANTS
    Keys,       \* cache keys, METHOD:path?query
    Responses,  \* the responses that may be stored
    Missing     \* the answer of a lookup that finds nothing, none of them

VARIABLES
    store,  \* what a lookup of each key would return now
    reply   \* the last lookup's key and answer

storeVars == <<store, reply>>

\* after may have lost entries of before, and nothing else
Forgets(before, after) ==
    \A k \in Keys : after[k] = before[k] \/ after[k] = Missing

Stores == [Keys -> Responses \cup {Missing}]

Init ==
    /\ store = [k \in Keys |-> Missing]
    /\ reply = <<>>

Put(k, v) ==
    /\ store' \in Stores
    /\ Forgets([store EXCEPT ![k] = v], store')
    /\ UNCHANGED reply

Lookup(k) ==
    /\ reply' = <<k, store[k]>>
    /\ UNCHANGED store

Forget ==
    /\ store' \in Stores
    /\ Forgets(store, store')
    /\ UNCHANGED reply

Next ==
    \/ \E k \in Keys : Lookup(k)
    \/ \E k \in Keys, v \in Responses : Put(k, v)
    \/ Forget

Spec == Init /\ [][Next]_storeVars
=============================================================================
