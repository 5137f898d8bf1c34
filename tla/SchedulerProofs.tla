-------------------------- MODULE SchedulerProofs --------------------------
(***************************************************************************)
(* The gate's safety properties for every set of requests, every limit and *)
(* both timer semantics.                                                   *)
(***************************************************************************)
EXTENDS Scheduler, FiniteSetTheorems, SequenceTheorems, TLAPS

\* Parked requests are exactly the ones in the channel's queue, once each.
QueueMatchesParked ==
    /\ \A r \in Requests : pc[r] = "parked" <=> \E i \in 1 .. Len(sendq) : sendq[i] = r
    /\ \A i, j \in 1 .. Len(sendq) : sendq[i] = sendq[j] => i = j

(***************************************************************************)
(* The inductive invariant.  A counter's decrement stays in range only     *)
(* because the counter equals the size of the set it counts, and a slot is *)
(* handed to a request that was indeed parked only because the channel's   *)
(* queue holds the parked requests.                                        *)
(***************************************************************************)
IInv ==
    /\ TypeOK
    /\ QueueMatchesParked
    /\ SlotAccounting
    /\ WaitingAccounting
    /\ WorkConserving
    /\ DrainNeverBlocks

----------------------------------------------------------------------------

\* New never makes a channel without capacity.
LEMMA SlotsPositive == Slots \in Nat /\ Slots >= 1
BY SchedulerAssumption DEF Slots

\* A set gains or loses one request: what happens to its size.
LEMMA SizeChange ==
    ASSUME NEW S \in SUBSET Requests, NEW T, NEW r \in Requests
    PROVE  /\ Cardinality(S) \in Nat
           /\ (r \notin S /\ T = S \cup {r}) => Cardinality(T) = Cardinality(S) + 1
           /\ (r \in S /\ T = S \ {r}) => /\ Cardinality(T) = Cardinality(S) - 1
                                          /\ Cardinality(T) \in Nat
<1>1. IsFiniteSet(S)
  BY SchedulerAssumption, FS_Subset
<1>2. Cardinality(S) \in Nat
  BY <1>1, FS_CardinalityType
<1>3. ASSUME r \notin S, T = S \cup {r}
      PROVE  Cardinality(T) = Cardinality(S) + 1
  BY <1>1, <1>3, FS_AddElement
<1>4. ASSUME r \in S, T = S \ {r}
      PROVE  Cardinality(T) = Cardinality(S) - 1 /\ Cardinality(T) \in Nat
  BY <1>1, <1>4, FS_RemoveElement, FS_CardinalityType
<1> QED
  BY <1>2, <1>3, <1>4

\* Removing one place from a queue keeps every other element, in order.
LEMMA RemoveAtProperties ==
    ASSUME NEW S, NEW q \in Seq(S), NEW k \in 1 .. Len(q)
    PROVE  /\ RemoveAt(q, k) \in Seq(S)
           /\ Len(RemoveAt(q, k)) = Len(q) - 1
           /\ \A i \in 1 .. Len(q) - 1 :
                 RemoveAt(q, k)[i] = IF i < k THEN q[i] ELSE q[i + 1]
<1> DEFINE a == SubSeq(q, 1, k - 1)
           b == SubSeq(q, k + 1, Len(q))
<1>1. /\ a \in Seq(S) /\ Len(a) = k - 1
      /\ \A i \in 1 .. k - 1 : a[i] = q[i]
  BY SubSeqProperties
<1>2. /\ b \in Seq(S) /\ Len(b) = Len(q) - k
      /\ \A i \in 1 .. Len(q) - k : b[i] = q[k + i]
  BY SubSeqProperties
<1>3. /\ a \o b \in Seq(S)
      /\ Len(a \o b) = Len(a) + Len(b)
      /\ \A i \in 1 .. Len(a) + Len(b) :
            (a \o b)[i] = IF i <= Len(a) THEN a[i] ELSE b[i - Len(a)]
  <2> HIDE DEF a, b
  <2> QED BY <1>1, <1>2, ConcatProperties
<1>4. RemoveAt(q, k) = a \o b
  BY DEF RemoveAt
<1>5. Len(q) \in Nat /\ k \in Nat
  BY LenProperties
<1> HIDE DEF a, b
<1>6. RemoveAt(q, k) \in Seq(S) /\ Len(RemoveAt(q, k)) = Len(q) - 1
  <2>1. Len(a) = k - 1 /\ Len(b) = Len(q) - k /\ Len(a \o b) = Len(a) + Len(b)
    BY <1>1, <1>2, <1>3, Zenon
  <2>2. Len(a \o b) = Len(q) - 1
    BY ONLY <2>1, <1>5
  <2>3. a \o b \in Seq(S)
    BY <1>3, Zenon
  <2> QED
    BY <2>2, <2>3, <1>4, Zenon
<1>7. ASSUME NEW i \in 1 .. Len(q) - 1
      PROVE  RemoveAt(q, k)[i] = IF i < k THEN q[i] ELSE q[i + 1]
  <2>1. CASE i < k
    <3>1. RemoveAt(q, k)[i] = a[i]
      BY <1>1, <1>2, <1>3, <1>4, <1>5, <2>1
    <3> QED
      BY <3>1, <1>1, <1>5, <2>1
  <2>2. CASE ~(i < k)
    <3>1. RemoveAt(q, k)[i] = b[i - (k - 1)]
      BY <1>1, <1>2, <1>3, <1>4, <1>5, <2>2
    <3>2. i - (k - 1) \in 1 .. Len(q) - k /\ k + (i - (k - 1)) = i + 1
      BY <1>5, <2>2
    <3>3. b[i - (k - 1)] = q[k + (i - (k - 1))]
      BY <1>2, <3>2
    <3> QED
      BY <3>1, <3>2, <3>3, <2>2
  <2> QED
    BY <2>1, <2>2
<1> QED
  BY <1>6, <1>7

----------------------------------------------------------------------------

\* The empty gate satisfies the invariant.
LEMMA InitIInv == Init => IInv
<1> SUFFICES ASSUME Init PROVE IInv
  OBVIOUS
<1>1. Holders = {} /\ Counted = {}
  BY DEF Init, Holders, Counted
<1>2. SlotAccounting /\ WaitingAccounting
  BY <1>1, FS_EmptySet DEF Init, SlotAccounting, WaitingAccounting
<1>3. TypeOK
  BY SlotsPositive DEF Init, TypeOK, Places, Outside, TimerStates
<1>4. QueueMatchesParked /\ WorkConserving /\ DrainNeverBlocks
  BY DEF Init, QueueMatchesParked, WorkConserving, DrainNeverBlocks
<1> QED
  BY <1>2, <1>3, <1>4 DEF IInv

\* Every step of the middleware, of the runtime's timers and every stutter
\* preserves it.
LEMMA StepIInv == IInv /\ [Next]_vars => IInv'
<1> SUFFICES ASSUME IInv, [Next]_vars
             PROVE  IInv'
  OBVIOUS
<1> USE SlotsPositive
<1>1. ASSUME NEW r \in Requests, Arrive(r)
      PROVE  IInv'
  <2> USE <1>1
  <2>1. SlotAccounting'
    <3>1. Holders' = Holders
      BY DEF IInv, TypeOK, Arrive, Goto, Holders, Outside
    <3> QED
      BY <3>1, SizeChange DEF IInv, SlotAccounting, Arrive, Holders
  <2>2. WaitingAccounting'
    <3>1. Counted' = Counted
      BY DEF IInv, TypeOK, Arrive, Goto, Counted, Outside
    <3> QED
      BY <3>1, SizeChange DEF IInv, WaitingAccounting, Arrive, Counted
  <2>3. TypeOK'
    <3>1. Cardinality(Holders') \in Nat /\ Cardinality(Counted') \in Nat
      BY SizeChange DEF Holders, Counted
    <3> QED
      BY <2>1, <2>2, <3>1 DEF IInv, TypeOK, Arrive, Goto, Places, Outside, TimerStates, SlotAccounting, WaitingAccounting, SlotFree
  <2>4. QueueMatchesParked'
    BY DEF IInv, TypeOK, QueueMatchesParked, Arrive, Goto, Outside
  <2>5. WorkConserving'
    BY DEF IInv, TypeOK, WorkConserving, SlotFree, Arrive
  <2>6. DrainNeverBlocks'
    BY DEF IInv, TypeOK, DrainNeverBlocks, Arrive, Goto, Outside
  <2> QED
    BY <2>1, <2>2, <2>3, <2>4, <2>5, <2>6 DEF IInv
<1>2. ASSUME NEW r \in Requests, CountWaiting(r)
      PROVE  IInv'
  <2> USE <1>2
  <2>1. SlotAccounting'
    <3>1. Holders' = Holders
      BY DEF IInv, TypeOK, CountWaiting, Goto, Holders, Outside
    <3> QED
      BY <3>1, SizeChange DEF IInv, SlotAccounting, CountWaiting, Holders
  <2>2. WaitingAccounting'
    <3>1. r \notin Counted /\ Counted' = Counted \cup {r}
      BY DEF IInv, TypeOK, CountWaiting, Goto, Counted, Outside
    <3> QED
      BY <3>1, SizeChange DEF IInv, WaitingAccounting, CountWaiting, Counted
  <2>3. TypeOK'
    <3>1. Cardinality(Holders') \in Nat /\ Cardinality(Counted') \in Nat
      BY SizeChange DEF Holders, Counted
    <3> QED
      BY <2>1, <2>2, <3>1 DEF IInv, TypeOK, CountWaiting, Goto, Places, Outside, TimerStates, SlotAccounting, WaitingAccounting, SlotFree
  <2>4. QueueMatchesParked'
    BY DEF IInv, TypeOK, QueueMatchesParked, CountWaiting, Goto, Outside
  <2>5. WorkConserving'
    BY DEF IInv, TypeOK, WorkConserving, SlotFree, CountWaiting
  <2>6. DrainNeverBlocks'
    BY DEF IInv, TypeOK, DrainNeverBlocks, CountWaiting, Goto, Outside
  <2> QED
    BY <2>1, <2>2, <2>3, <2>4, <2>5, <2>6 DEF IInv
<1>3. ASSUME NEW r \in Requests, SelectSlot(r)
      PROVE  IInv'
  <2> USE <1>3
  <2>1. SlotAccounting'
    <3>1. r \notin Holders /\ Holders' = Holders \cup {r}
      BY DEF IInv, TypeOK, SelectSlot, Goto, Holders, Outside
    <3> QED
      BY <3>1, SizeChange DEF IInv, SlotAccounting, SelectSlot, Holders
  <2>2. WaitingAccounting'
    <3>1. Counted' = Counted
      BY DEF IInv, TypeOK, SelectSlot, Goto, Counted, Outside
    <3> QED
      BY <3>1, SizeChange DEF IInv, WaitingAccounting, SelectSlot, Counted
  <2>3. TypeOK'
    <3>1. Cardinality(Holders') \in Nat /\ Cardinality(Counted') \in Nat
      BY SizeChange DEF Holders, Counted
    <3> QED
      BY <2>1, <2>2, <3>1 DEF IInv, TypeOK, SelectSlot, Goto, Places, Outside, TimerStates, SlotAccounting, WaitingAccounting, SlotFree
  <2>4. QueueMatchesParked'
    BY DEF IInv, TypeOK, QueueMatchesParked, SelectSlot, Goto, Outside
  <2>5. WorkConserving'
    BY DEF IInv, TypeOK, WorkConserving, SlotFree, SelectSlot
  <2>6. DrainNeverBlocks'
    BY DEF IInv, TypeOK, DrainNeverBlocks, SelectSlot, Goto, Outside
  <2> QED
    BY <2>1, <2>2, <2>3, <2>4, <2>5, <2>6 DEF IInv
<1>4. ASSUME NEW r \in Requests, SelectTimeout(r)
      PROVE  IInv'
  <2> USE <1>4
  <2>1. SlotAccounting'
    <3>1. Holders' = Holders
      BY DEF IInv, TypeOK, SelectTimeout, Goto, Holders, Outside
    <3> QED
      BY <3>1, SizeChange DEF IInv, SlotAccounting, SelectTimeout, Holders
  <2>2. WaitingAccounting'
    <3>1. Counted' = Counted
      BY DEF IInv, TypeOK, SelectTimeout, Goto, Counted, Outside
    <3> QED
      BY <3>1, SizeChange DEF IInv, WaitingAccounting, SelectTimeout, Counted
  <2>3. TypeOK'
    <3>1. Cardinality(Holders') \in Nat /\ Cardinality(Counted') \in Nat
      BY SizeChange DEF Holders, Counted
    <3> QED
      BY <2>1, <2>2, <3>1 DEF IInv, TypeOK, SelectTimeout, Goto, Places, Outside, TimerStates, SlotAccounting, WaitingAccounting, SlotFree
  <2>4. QueueMatchesParked'
    BY DEF IInv, TypeOK, QueueMatchesParked, SelectTimeout, Goto, Outside
  <2>5. WorkConserving'
    BY DEF IInv, TypeOK, WorkConserving, SlotFree, SelectTimeout
  <2>6. DrainNeverBlocks'
    BY DEF IInv, TypeOK, DrainNeverBlocks, SelectTimeout, Goto, Outside
  <2> QED
    BY <2>1, <2>2, <2>3, <2>4, <2>5, <2>6 DEF IInv
<1>5. ASSUME NEW r \in Requests, UncountAdmitted(r)
      PROVE  IInv'
  <2> USE <1>5
  <2>1. SlotAccounting'
    <3>1. Holders' = Holders
      BY DEF IInv, TypeOK, UncountAdmitted, Goto, Holders, Outside
    <3> QED
      BY <3>1, SizeChange DEF IInv, SlotAccounting, UncountAdmitted, Holders
  <2>2. WaitingAccounting'
    <3>1. r \in Counted /\ Counted' = Counted \ {r}
      BY DEF IInv, TypeOK, UncountAdmitted, Goto, Counted, Outside
    <3> QED
      BY <3>1, SizeChange DEF IInv, WaitingAccounting, UncountAdmitted, Counted
  <2>3. TypeOK'
    <3>1. Cardinality(Holders') \in Nat /\ Cardinality(Counted') \in Nat
      BY SizeChange DEF Holders, Counted
    <3> QED
      BY <2>1, <2>2, <3>1 DEF IInv, TypeOK, UncountAdmitted, Goto, Places, Outside, TimerStates, SlotAccounting, WaitingAccounting, SlotFree
  <2>4. QueueMatchesParked'
    BY DEF IInv, TypeOK, QueueMatchesParked, UncountAdmitted, Goto, Outside
  <2>5. WorkConserving'
    BY DEF IInv, TypeOK, WorkConserving, SlotFree, UncountAdmitted
  <2>6. DrainNeverBlocks'
    BY DEF IInv, TypeOK, DrainNeverBlocks, UncountAdmitted, Goto, Outside
  <2> QED
    BY <2>1, <2>2, <2>3, <2>4, <2>5, <2>6 DEF IInv
<1>6. ASSUME NEW r \in Requests, StopTimer(r)
      PROVE  IInv'
  <2> USE <1>6
  <2>1. SlotAccounting'
    <3>1. Holders' = Holders
      BY DEF IInv, TypeOK, StopTimer, Goto, Holders, Outside
    <3> QED
      BY <3>1, SizeChange DEF IInv, SlotAccounting, StopTimer, Holders
  <2>2. WaitingAccounting'
    <3>1. Counted' = Counted
      BY DEF IInv, TypeOK, StopTimer, Goto, Counted, Outside
    <3> QED
      BY <3>1, SizeChange DEF IInv, WaitingAccounting, StopTimer, Counted
  <2>3. TypeOK'
    <3>1. Cardinality(Holders') \in Nat /\ Cardinality(Counted') \in Nat
      BY SizeChange DEF Holders, Counted
    <3> QED
      BY <2>1, <2>2, <3>1 DEF IInv, TypeOK, StopTimer, Goto, Places, Outside, TimerStates, SlotAccounting, WaitingAccounting, SlotFree
  <2>4. QueueMatchesParked'
    BY DEF IInv, TypeOK, QueueMatchesParked, StopTimer, Goto, Outside
  <2>5. WorkConserving'
    BY DEF IInv, TypeOK, WorkConserving, SlotFree, StopTimer
  <2>6. DrainNeverBlocks'
    BY DEF IInv, TypeOK, DrainNeverBlocks, StopTimer, Goto, Outside
  <2> QED
    BY <2>1, <2>2, <2>3, <2>4, <2>5, <2>6 DEF IInv
<1>7. ASSUME NEW r \in Requests, DrainTimer(r)
      PROVE  IInv'
  <2> USE <1>7
  <2>1. SlotAccounting'
    <3>1. Holders' = Holders
      BY DEF IInv, TypeOK, DrainTimer, Goto, Holders, Outside
    <3> QED
      BY <3>1, SizeChange DEF IInv, SlotAccounting, DrainTimer, Holders
  <2>2. WaitingAccounting'
    <3>1. Counted' = Counted
      BY DEF IInv, TypeOK, DrainTimer, Goto, Counted, Outside
    <3> QED
      BY <3>1, SizeChange DEF IInv, WaitingAccounting, DrainTimer, Counted
  <2>3. TypeOK'
    <3>1. Cardinality(Holders') \in Nat /\ Cardinality(Counted') \in Nat
      BY SizeChange DEF Holders, Counted
    <3> QED
      BY <2>1, <2>2, <3>1 DEF IInv, TypeOK, DrainTimer, Goto, Places, Outside, TimerStates, SlotAccounting, WaitingAccounting, SlotFree
  <2>4. QueueMatchesParked'
    BY DEF IInv, TypeOK, QueueMatchesParked, DrainTimer, Goto, Outside
  <2>5. WorkConserving'
    BY DEF IInv, TypeOK, WorkConserving, SlotFree, DrainTimer
  <2>6. DrainNeverBlocks'
    BY DEF IInv, TypeOK, DrainNeverBlocks, DrainTimer, Goto, Outside
  <2> QED
    BY <2>1, <2>2, <2>3, <2>4, <2>5, <2>6 DEF IInv
<1>8. ASSUME NEW r \in Requests, Reject(r)
      PROVE  IInv'
  <2> USE <1>8
  <2>1. SlotAccounting'
    <3>1. Holders' = Holders
      BY DEF IInv, TypeOK, Reject, Goto, Holders, Outside
    <3> QED
      BY <3>1, SizeChange DEF IInv, SlotAccounting, Reject, Holders
  <2>2. WaitingAccounting'
    <3>1. r \in Counted /\ Counted' = Counted \ {r}
      BY DEF IInv, TypeOK, Reject, Goto, Counted, Outside
    <3> QED
      BY <3>1, SizeChange DEF IInv, WaitingAccounting, Reject, Counted
  <2>3. TypeOK'
    <3>1. Cardinality(Holders') \in Nat /\ Cardinality(Counted') \in Nat
      BY SizeChange DEF Holders, Counted
    <3> QED
      BY <2>1, <2>2, <3>1 DEF IInv, TypeOK, Reject, Goto, Places, Outside, TimerStates, SlotAccounting, WaitingAccounting, SlotFree
  <2>4. QueueMatchesParked'
    BY DEF IInv, TypeOK, QueueMatchesParked, Reject, Goto, Outside
  <2>5. WorkConserving'
    BY DEF IInv, TypeOK, WorkConserving, SlotFree, Reject
  <2>6. DrainNeverBlocks'
    BY DEF IInv, TypeOK, DrainNeverBlocks, Reject, Goto, Outside
  <2> QED
    BY <2>1, <2>2, <2>3, <2>4, <2>5, <2>6 DEF IInv
<1>9. ASSUME NEW r \in Requests, SelectPark(r)
      PROVE  IInv'
  <2> USE <1>9
  <2>1. SlotAccounting' /\ WaitingAccounting'
    <3>1. Holders' = Holders /\ Counted' = Counted
      BY DEF IInv, TypeOK, SelectPark, Goto, Holders, Counted
    <3> QED
      BY <3>1 DEF IInv, SlotAccounting, WaitingAccounting, SelectPark
  <2>2. /\ sendq' \in Seq(Requests)
        /\ Len(sendq') = Len(sendq) + 1
        /\ \A i \in 1 .. Len(sendq) : sendq'[i] = sendq[i]
        /\ sendq'[Len(sendq) + 1] = r
    BY AppendProperties DEF IInv, TypeOK, SelectPark
  <2>3. TypeOK'
    BY <2>2 DEF IInv, TypeOK, SelectPark, Goto, Places
  <2>4. QueueMatchesParked'
    <3>0. Len(sendq) \in Nat
      BY LenProperties DEF IInv, TypeOK
    <3>1. \A i \in 1 .. Len(sendq) : sendq[i] # r
      BY DEF IInv, QueueMatchesParked, SelectPark
    <3>2. \A q \in Requests : (pc')[q] = "parked" <=> (pc[q] = "parked" \/ q = r)
      BY DEF IInv, TypeOK, SelectPark, Goto
    <3>3. ASSUME NEW q \in Requests
          PROVE  (pc')[q] = "parked" <=> \E i \in 1 .. Len(sendq') : sendq'[i] = q
      BY <2>2, <3>0, <3>2 DEF IInv, QueueMatchesParked
    <3>4. ASSUME NEW i \in 1 .. Len(sendq'), NEW j \in 1 .. Len(sendq'), sendq'[i] = sendq'[j]
          PROVE  i = j
      BY <2>2, <3>0, <3>1, <3>4 DEF IInv, QueueMatchesParked
    <3> QED
      BY <3>3, <3>4 DEF QueueMatchesParked
  <2>5. WorkConserving' /\ DrainNeverBlocks'
    BY DEF IInv, TypeOK, WorkConserving, SlotFree, DrainNeverBlocks, SelectPark, Goto
  <2> QED
    BY <2>1, <2>3, <2>4, <2>5 DEF IInv
<1>10. ASSUME NEW r \in Requests, FireTimer(r)
       PROVE  IInv'
  <2> USE <1>10
  <2>1. CASE pc[r] # "parked"
    <3>1. Holders' = Holders /\ Counted' = Counted
      BY <2>1 DEF FireTimer, Holders, Counted
    <3> QED
      BY <2>1, <3>1 DEF IInv, TypeOK, TimerStates, QueueMatchesParked, SlotAccounting,
           WaitingAccounting, WorkConserving, SlotFree, DrainNeverBlocks, FireTimer
  <2>2. CASE pc[r] = "parked"
    <3>1. PICK k \in 1 .. Len(sendq) : sendq[k] = r /\ sendq' = RemoveAt(sendq, k)
      BY <2>2, LenProperties DEF FireTimer, IInv, TypeOK
    <3>2. /\ sendq' \in Seq(Requests)
          /\ Len(sendq') = Len(sendq) - 1
          /\ \A i \in 1 .. Len(sendq) - 1 :
                sendq'[i] = IF i < k THEN sendq[i] ELSE sendq[i + 1]
      BY <3>1, RemoveAtProperties DEF IInv, TypeOK
    <3>3. SlotAccounting' /\ WaitingAccounting'
      <4>1. Holders' = Holders /\ Counted' = Counted
        BY <2>2 DEF IInv, TypeOK, FireTimer, Goto, Holders, Counted
      <4> QED
        BY <4>1 DEF IInv, SlotAccounting, WaitingAccounting, FireTimer
    <3>4. TypeOK'
      BY <2>2, <3>2 DEF IInv, TypeOK, FireTimer, Goto, Places, TimerStates
    <3>5. QueueMatchesParked'
      <4>0. Len(sendq) \in Nat /\ k \in Nat
        BY LenProperties DEF IInv, TypeOK
      <4>1. \A q \in Requests : (pc')[q] = "parked" <=> (pc[q] = "parked" /\ q # r)
        BY <2>2 DEF IInv, TypeOK, FireTimer, Goto
      <4>2. ASSUME NEW q \in Requests, NEW i \in 1 .. Len(sendq), sendq[i] = q, q # r
            PROVE  \E j \in 1 .. Len(sendq') : sendq'[j] = q
        <5>1. CASE i < k
          BY <3>2, <4>0, <4>2, <5>1
        <5>2. CASE i > k
          <6>1. i - 1 \in 1 .. Len(sendq') /\ ~(i - 1 < k) /\ (i - 1) + 1 = i
            BY <3>2, <4>0, <5>2
          <6> QED
            BY <3>2, <4>2, <6>1
        <5> QED
          BY <3>1, <4>0, <4>2, <5>1, <5>2
      <4>3. ASSUME NEW j \in 1 .. Len(sendq')
            PROVE  \E i \in 1 .. Len(sendq) : sendq'[j] = sendq[i] /\ i # k
        BY <3>2, <4>0
      <4>4. ASSUME NEW q \in Requests
            PROVE  (pc')[q] = "parked" <=> \E j \in 1 .. Len(sendq') : sendq'[j] = q
        <5>1. ASSUME (pc')[q] = "parked" PROVE \E j \in 1 .. Len(sendq') : sendq'[j] = q
          BY <4>1, <4>2, <5>1 DEF IInv, QueueMatchesParked
        <5>2. ASSUME NEW j \in 1 .. Len(sendq'), sendq'[j] = q PROVE (pc')[q] = "parked"
          <6>1. PICK i \in 1 .. Len(sendq) : q = sendq[i] /\ i # k
            BY <4>3, <5>2
          <6> QED
            BY <3>1, <4>1, <6>1 DEF IInv, QueueMatchesParked
        <5> QED
          BY <5>1, <5>2
      <4>5. ASSUME NEW i \in 1 .. Len(sendq'), NEW j \in 1 .. Len(sendq'), sendq'[i] = sendq'[j]
            PROVE  i = j
        BY <3>2, <4>0, <4>5 DEF IInv, QueueMatchesParked
      <4> QED
        BY <4>4, <4>5 DEF QueueMatchesParked
    <3>6. WorkConserving'
      <4>1. sendq # <<>>
        BY <3>1
      <4> QED
        BY <4>1 DEF IInv, WorkConserving, SlotFree, FireTimer
    <3>7. DrainNeverBlocks'
      BY <2>2 DEF IInv, TypeOK, DrainNeverBlocks, FireTimer, Goto
    <3> QED
      BY <3>3, <3>4, <3>5, <3>6, <3>7 DEF IInv
  <2> QED
    BY <2>1, <2>2
<1>11. ASSUME NEW r \in Requests, Finish(r)
       PROVE  IInv'
  <2> USE <1>11
  <2>1. PICK place \in {"served", "panicked"} : Release(r, place)
    BY DEF Finish
  <2>2. CASE sendq = <<>>
    <3>1. r \in Holders /\ Holders' = Holders \ {r} /\ Counted' = Counted
      BY <2>1, <2>2 DEF IInv, TypeOK, Finish, Release, Goto, Holders, Counted
    <3>2. SlotAccounting' /\ WaitingAccounting' /\ semaphore' \in Nat
      BY <2>1, <2>2, <3>1, SizeChange
         DEF IInv, SlotAccounting, WaitingAccounting, Finish, Release, Holders
    <3>3. TypeOK'
      BY <2>1, <2>2, <3>2 DEF IInv, TypeOK, Finish, Release, Goto, Places, Outside
    <3>4. QueueMatchesParked' /\ WorkConserving' /\ DrainNeverBlocks'
      BY <2>1, <2>2 DEF IInv, TypeOK, QueueMatchesParked, WorkConserving, DrainNeverBlocks,
           Finish, Release, Goto
    <3> QED
      BY <3>2, <3>3, <3>4 DEF IInv
  <2>3. CASE sendq # <<>>
    <3> DEFINE h == Head(sendq)
    <3>1. /\ h = sendq[1] /\ h \in Requests /\ Len(sendq) \in Nat /\ Len(sendq) >= 1
          /\ Tail(sendq) \in Seq(Requests) /\ Len(Tail(sendq)) = Len(sendq) - 1
          /\ \A i \in 1 .. Len(sendq) - 1 : Tail(sendq)[i] = sendq[i + 1]
      BY <2>3, HeadTailProperties, LenProperties DEF IInv, TypeOK
    <3>2. pc[h] = "parked" /\ h # r
      BY <3>1 DEF IInv, QueueMatchesParked, Finish
    <3> HIDE DEF h
    <3>3. /\ pc' = [pc EXCEPT ![r] = place, ![h] = "acquired"]
          /\ sendq' = Tail(sendq)
          /\ semaphore' = semaphore
      BY <2>1, <2>3 DEF Release, h
    <3>4. SlotAccounting'
      <4> DEFINE T == Holders \ {r}
      <4>1. r \in Holders /\ h \notin T /\ Holders' = T \cup {h} /\ T \in SUBSET Requests
        BY <3>1, <3>2, <3>3 DEF IInv, TypeOK, Finish, Holders
      <4>2. Cardinality(T) = Cardinality(Holders) - 1
        BY <4>1, SizeChange DEF Holders
      <4>3. Cardinality(Holders') = Cardinality(T) + 1
        <5> HIDE DEF T
        <5> QED BY <3>1, <4>1, SizeChange
      <4>4. Cardinality(Holders) \in Nat
        BY SizeChange DEF Holders
      <4> QED
        BY <3>3, <4>2, <4>3, <4>4 DEF IInv, SlotAccounting
    <3>5. WaitingAccounting'
      <4>1. Counted' = Counted
        BY <3>1, <3>2, <3>3 DEF IInv, TypeOK, Finish, Counted
      <4> QED
        BY <4>1 DEF IInv, WaitingAccounting, Finish
    <3>6. TypeOK'
      BY <3>1, <3>3 DEF IInv, TypeOK, Finish, Places, Outside
    <3>7. QueueMatchesParked'
      <4>1. \A q \in Requests : (pc')[q] = "parked" <=> (pc[q] = "parked" /\ q # h)
        BY <3>1, <3>2, <3>3 DEF IInv, TypeOK, Finish
      <4>2. ASSUME NEW q \in Requests, NEW i \in 1 .. Len(sendq), sendq[i] = q, q # h
            PROVE  \E j \in 1 .. Len(sendq') : sendq'[j] = q
        <5>1. i - 1 \in 1 .. Len(sendq') /\ (i - 1) + 1 = i
          BY <3>1, <3>3, <4>2
        <5> QED
          BY <3>1, <3>3, <4>2, <5>1
      <4>3. ASSUME NEW q \in Requests
            PROVE  (pc')[q] = "parked" <=> \E j \in 1 .. Len(sendq') : sendq'[j] = q
        <5>1. ASSUME (pc')[q] = "parked" PROVE \E j \in 1 .. Len(sendq') : sendq'[j] = q
          BY <4>1, <4>2, <5>1 DEF IInv, QueueMatchesParked
        <5>2. ASSUME NEW j \in 1 .. Len(sendq'), sendq'[j] = q PROVE (pc')[q] = "parked"
          <6>1. j + 1 \in 1 .. Len(sendq) /\ j + 1 # 1 /\ sendq[j + 1] = q /\ 1 \in 1 .. Len(sendq)
            BY <3>1, <3>3, <5>2
          <6> QED
            BY <3>1, <4>1, <6>1 DEF IInv, QueueMatchesParked
        <5> QED
          BY <5>1, <5>2
      <4>4. ASSUME NEW i \in 1 .. Len(sendq'), NEW j \in 1 .. Len(sendq'), sendq'[i] = sendq'[j]
            PROVE  i = j
        BY <3>1, <3>3, <4>4 DEF IInv, QueueMatchesParked
      <4> QED
        BY <4>3, <4>4 DEF QueueMatchesParked
    <3>8. WorkConserving' /\ DrainNeverBlocks'
      BY <2>3, <3>1, <3>2, <3>3 DEF IInv, TypeOK, WorkConserving, SlotFree, DrainNeverBlocks, Finish
    <3> QED
      BY <3>4, <3>5, <3>6, <3>7, <3>8 DEF IInv
  <2> QED
    BY <2>2, <2>3
<1>12. ASSUME UNCHANGED vars
       PROVE  IInv'
  <2>1. Holders' = Holders /\ Counted' = Counted
    BY <1>12 DEF vars, Holders, Counted
  <2> QED
    BY <1>12, <2>1 DEF IInv, TypeOK, QueueMatchesParked, SlotAccounting, WaitingAccounting,
         WorkConserving, SlotFree, DrainNeverBlocks, vars
<1> QED
  BY <1>1, <1>2, <1>3, <1>4, <1>5, <1>6, <1>7, <1>8, <1>9, <1>10, <1>11, <1>12 DEF Next, Gate

\* The inductive invariant holds in every reachable state.
LEMMA Inductive == Spec => []IInv
BY InitIInv, StepIInv, PTL DEF Spec

(***************************************************************************)
(* The counters keep their types: never more slots taken than the limit,   *)
(* never a negative number of waiters.                                     *)
(***************************************************************************)
THEOREM SchedulerTyped == Spec => []TypeOK
<1>1. IInv => TypeOK
  BY DEF IInv
<1> QED
  BY <1>1, Inductive, PTL

(***************************************************************************)
(* Slots are conserved on every path, for any number of requests.          *)
(***************************************************************************)
THEOREM SlotsConserved == Spec => []SlotAccounting
<1>1. IInv => SlotAccounting
  BY DEF IInv
<1> QED
  BY <1>1, Inductive, PTL

(***************************************************************************)
(* The concurrency limit, from the two: at most Slots requests are past    *)
(* the gate at any time.                                                   *)
(***************************************************************************)
THEOREM ConcurrencyLimit == Spec => [](Cardinality(Holders) <= Slots)
<1>1. IInv => Cardinality(Holders) <= Slots
  BY SlotsPositive DEF IInv, TypeOK, SlotAccounting
<1> QED
  BY <1>1, Inductive, PTL

\* The waiting gauge is exact.
THEOREM WaitersCounted == Spec => []WaitingAccounting
<1>1. IInv => WaitingAccounting
  BY DEF IInv
<1> QED
  BY <1>1, Inductive, PTL

\* No request is parked while a slot is free.
THEOREM GateWorkConserving == Spec => []WorkConserving
<1>1. IInv => WorkConserving
  BY DEF IInv
<1> QED
  BY <1>1, Inductive, PTL

\* The receive that follows a failed Stop always finds a value.
THEOREM DrainSafe == Spec => []DrainNeverBlocks
<1>1. IInv => DrainNeverBlocks
  BY DEF IInv
<1> QED
  BY <1>1, Inductive, PTL
=============================================================================
