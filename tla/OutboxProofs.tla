---------------------------- MODULE OutboxProofs ----------------------------
(***************************************************************************)
(* What holds of the outbox for any set of events, any number of drainers  *)
(* and any batch size.  BatchSound is the strengthening for at-least-once, *)
(* BatchIsPrefix the one for ordering; the latter needs the poll loop to   *)
(* be the only drainer.  The last section is about starvation: how many    *)
(* events that always fail it takes, and that it takes so many.            *)
(***************************************************************************)
EXTENDS Outbox, FiniteSetTheorems, TLAPS

(* A batch is a set of positions of the store, whatever the limit. *)
LEMMA FetchPendingSound ==
  ASSUME NEW limit
  PROVE  /\ FetchPending(limit) \subseteq DOMAIN order
         /\ \A i \in FetchPending(limit) : status[order[i]] # "published"
BY DEF FetchPending, Unpublished

(* What Append does to the positions of the store. *)
LEMMA OrderAppend ==
  ASSUME NEW e \in EventIDs, order \in Seq(EventIDs)
  PROVE  /\ Append(order, e) \in Seq(EventIDs)
         /\ DOMAIN order = 1 .. Len(order)
         /\ Len(order) \in Nat
         /\ DOMAIN Append(order, e) = 1 .. (Len(order) + 1)
         /\ \A i \in DOMAIN order : Append(order, e)[i] = order[i]
         /\ Append(order, e)[Len(order) + 1] = e
OBVIOUS

(* The empty store of NewMemoryStore and an idle relay are well typed. *)
LEMMA InitTypeOK == Init => TypeOK
<1> SUFFICES ASSUME Init PROVE TypeOK
  OBVIOUS
<1>1. order \in Seq(EventIDs)
  BY DEF Init
<1>2. /\ status \in [EventIDs -> {"absent", "pending", "published", "failed"}]
      /\ batch \in [Drainers -> SUBSET Nat]
      /\ accepted \subseteq EventIDs
      /\ ctxDone \in BOOLEAN
  BY DEF Init
<1>3. pc \in [Drainers -> {"idle", "publish", "markPublished", "markFailed", "stopped"}]
  BY DEF Init
<1> QED BY <1>1, <1>2, <1>3 DEF TypeOK

(* Type correctness: the variables stay in their sets through every store  *)
(* call and every step of a drain.                                         *)
THEOREM TypeCorrect == Spec => []TypeOK
<1>1. Init => TypeOK
  BY InitTypeOK
<1>2. TypeOK /\ [Next]_vars => TypeOK'
  <2> SUFFICES ASSUME TypeOK, [Next]_vars PROVE TypeOK'
    OBVIOUS
  <2> USE DEF TypeOK
  <2>1. ASSUME NEW e \in EventIDs, Add(e) PROVE TypeOK'
    BY <2>1, OrderAppend DEF Add
  <2>2. ASSUME NEW d \in Drainers, BeginDrain(d) PROVE TypeOK'
    <3>1. FetchPending(batchSize) \in SUBSET Nat
      BY FetchPendingSound
    <3> QED BY <2>2, <3>1 DEF BeginDrain
  <2>3. ASSUME NEW d \in Drainers, NEW i \in DOMAIN order, PublishOK(d, i) PROVE TypeOK'
    BY <2>3 DEF PublishOK
  <2>4. ASSUME NEW d \in Drainers, NEW i \in DOMAIN order, PublishErr(d, i) PROVE TypeOK'
    BY <2>4 DEF PublishErr
  <2>5. ASSUME NEW d \in Drainers, NEW i \in DOMAIN order, MarkPublished(d, i) PROVE TypeOK'
    BY <2>5 DEF MarkPublished, FinishRow
  <2>6. ASSUME NEW d \in Drainers, NEW i \in DOMAIN order, MarkFailed(d, i) PROVE TypeOK'
    BY <2>6 DEF MarkFailed, FinishRow
  <2>7. CASE Cancel
    BY <2>7 DEF Cancel
  <2>8. CASE StopRelay
    BY <2>8 DEF StopRelay
  <2>9. CASE UNCHANGED vars
    BY <2>9 DEF vars
  <2> QED
    BY <2>1, <2>2, <2>3, <2>4, <2>5, <2>6, <2>7, <2>8, <2>9
    DEF Next, RowStep, AddDuplicate
<1> QED
  BY <1>1, <1>2, PTL DEF Spec

-----------------------------------------------------------------------------
(* The structural invariant and at-least-once. *)

StoreInv == TypeOK /\ RowsListedOnce /\ BatchSound /\ PublishedWasAccepted

(* Every step keeps the store consistent and marks published only what the *)
(* bus has taken.                                                          *)
LEMMA StoreInvStep == StoreInv /\ TypeOK' /\ [Next]_vars => StoreInv'
<1> SUFFICES ASSUME StoreInv, TypeOK', [Next]_vars
             PROVE  RowsListedOnce' /\ BatchSound' /\ PublishedWasAccepted'
  BY DEF StoreInv
<1> USE DEF StoreInv
<1>1. ASSUME NEW e \in EventIDs, Add(e)
      PROVE  RowsListedOnce' /\ BatchSound' /\ PublishedWasAccepted'
  <2>1. /\ order' = Append(order, e)
        /\ status[e] = "absent"
        /\ status' = [status EXCEPT ![e] = "pending"]
        /\ UNCHANGED <<batch, pc, accepted>>
    BY <1>1 DEF Add
  <2>2. /\ DOMAIN order = 1 .. Len(order)
        /\ Len(order) \in Nat
        /\ DOMAIN order' = 1 .. (Len(order) + 1)
        /\ \A i \in DOMAIN order : order'[i] = order[i]
        /\ order'[Len(order) + 1] = e
    BY <2>1, OrderAppend DEF TypeOK
  <2>3. \A i \in DOMAIN order : order[i] # e
    BY <2>1 DEF RowsListedOnce
  <2>4. RowsListedOnce'
    <3>1. \A i, j \in DOMAIN order' : order'[i] = order'[j] => i = j
      BY <2>2, <2>3 DEF RowsListedOnce
    <3>2. ASSUME NEW f \in EventIDs
          PROVE  status'[f] # "absent" <=> \E i \in DOMAIN order' : order'[i] = f
      <4>1. CASE f = e
        BY <4>1, <2>1, <2>2 DEF TypeOK
      <4>2. CASE f # e
        <5>1. status'[f] = status[f]
          BY <4>2, <2>1 DEF TypeOK
        <5>2. (\E i \in DOMAIN order' : order'[i] = f) <=> (\E i \in DOMAIN order : order[i] = f)
          BY <4>2, <2>2
        <5> QED BY <5>1, <5>2 DEF RowsListedOnce
      <4> QED BY <4>1, <4>2
    <3> QED BY <3>1, <3>2 DEF RowsListedOnce
  <2>5. BatchSound'
    BY <2>1, <2>2 DEF BatchSound, IsCurrent
  <2>6. PublishedWasAccepted'
    BY <2>1 DEF PublishedWasAccepted, TypeOK
  <2> QED BY <2>4, <2>5, <2>6
<1>2. ASSUME NEW d \in Drainers, BeginDrain(d)
      PROVE  RowsListedOnce' /\ BatchSound' /\ PublishedWasAccepted'
  <2>1. RowsListedOnce' /\ PublishedWasAccepted'
    BY <1>2 DEF BeginDrain, RowsListedOnce, PublishedWasAccepted
  <2>2. BatchSound'
    BY <1>2, FetchPendingSound DEF BeginDrain, BatchSound, IsCurrent, TypeOK
  <2> QED BY <2>1, <2>2
<1>3. ASSUME NEW d \in Drainers, NEW i \in DOMAIN order, PublishOK(d, i)
      PROVE  RowsListedOnce' /\ BatchSound' /\ PublishedWasAccepted'
  <2>1. RowsListedOnce' /\ PublishedWasAccepted'
    BY <1>3 DEF PublishOK, RowsListedOnce, PublishedWasAccepted
  <2>2. BatchSound'
    BY <1>3 DEF PublishOK, BatchSound, IsCurrent, TypeOK
  <2> QED BY <2>1, <2>2
<1>4. ASSUME NEW d \in Drainers, NEW i \in DOMAIN order, PublishErr(d, i)
      PROVE  RowsListedOnce' /\ BatchSound' /\ PublishedWasAccepted'
  BY <1>4 DEF PublishErr, RowsListedOnce, PublishedWasAccepted, BatchSound, IsCurrent, TypeOK
<1>5. ASSUME NEW d \in Drainers, NEW i \in DOMAIN order, MarkPublished(d, i)
      PROVE  RowsListedOnce' /\ BatchSound' /\ PublishedWasAccepted'
  <2>1. RowsListedOnce'
    BY <1>5 DEF MarkPublished, RowsListedOnce, TypeOK
  <2>2. PublishedWasAccepted'
    BY <1>5 DEF MarkPublished, PublishedWasAccepted, BatchSound, TypeOK
  <2>3. BatchSound'
    BY <1>5 DEF MarkPublished, FinishRow, BatchSound, IsCurrent, TypeOK
  <2> QED BY <2>1, <2>2, <2>3
<1>6. ASSUME NEW d \in Drainers, NEW i \in DOMAIN order, MarkFailed(d, i)
      PROVE  RowsListedOnce' /\ BatchSound' /\ PublishedWasAccepted'
  <2>1. RowsListedOnce'
    BY <1>6 DEF MarkFailed, RowsListedOnce, TypeOK
  <2>2. PublishedWasAccepted'
    BY <1>6 DEF MarkFailed, PublishedWasAccepted, TypeOK
  <2>3. BatchSound'
    BY <1>6 DEF MarkFailed, FinishRow, BatchSound, IsCurrent, TypeOK
  <2> QED BY <2>1, <2>2, <2>3
<1>7. CASE Cancel
  BY <1>7 DEF Cancel, RowsListedOnce, PublishedWasAccepted, BatchSound, IsCurrent
<1>8. CASE StopRelay
  BY <1>8 DEF StopRelay, RowsListedOnce, PublishedWasAccepted, BatchSound, IsCurrent, TypeOK
<1>9. CASE UNCHANGED vars
  BY <1>9 DEF vars, RowsListedOnce, PublishedWasAccepted, BatchSound, IsCurrent
<1> QED
  BY <1>1, <1>2, <1>3, <1>4, <1>5, <1>6, <1>7, <1>8, <1>9
  DEF Next, RowStep, AddDuplicate

(* The store invariant holds in every reachable state. *)
LEMMA StoreInvariant == Spec => []StoreInv
<1>1. Init => StoreInv
  <2> SUFFICES ASSUME Init PROVE StoreInv
    OBVIOUS
  <2>1. TypeOK
    BY InitTypeOK
  <2>2. DOMAIN order = {}
    BY DEF Init
  <2>3. RowsListedOnce
    BY <2>2 DEF Init, RowsListedOnce
  <2>4. BatchSound /\ PublishedWasAccepted
    BY <2>2 DEF Init, BatchSound, PublishedWasAccepted
  <2> QED BY <2>1, <2>3, <2>4 DEF StoreInv
<1>2. StoreInv /\ TypeOK' /\ [Next]_vars => StoreInv'
  BY StoreInvStep
<1> QED
  BY <1>1, <1>2, TypeCorrect, PTL DEF Spec

(* MemoryStore.order and MemoryStore.byID agree in every reachable state.  *)
THEOREM OrderIsConsistent == Spec => []RowsListedOnce
BY StoreInvariant, PTL DEF StoreInv

(* The safety half of at-least-once: drain never marks a row published     *)
(* before the bus has taken its event, for any number of drainers.         *)
THEOREM AtLeastOnce == Spec => []PublishedWasAccepted
BY StoreInvariant, PTL DEF StoreInv

-----------------------------------------------------------------------------
(* The outbox implements Delivery. *)

(* Each step of the outbox is one step of the carrier, or a stutter. *)
LEMMA CarrierStep == StoreInv /\ StoreInv' /\ [Next]_vars => [Carrier!Next]_Carrier!vars
<1> SUFFICES ASSUME StoreInv, StoreInv', [Next]_vars
             PROVE  [Carrier!Next]_Carrier!vars
  OBVIOUS
<1> DEFINE rows == {e \in EventIDs : status[e] # "absent"}
           done == {e \in EventIDs : status[e] = "published"}
<1>t. TypeOK /\ TypeOK' /\ BatchSound /\ RowsListedOnce
  BY DEF StoreInv
<1>o. ASSUME NEW i \in DOMAIN order PROVE order[i] \in EventIDs /\ order[i] \in rows
  BY <1>t DEF TypeOK, RowsListedOnce
<1>1. ASSUME NEW e \in EventIDs, Add(e) PROVE Carrier!Next
  <2>1. rows' = rows \cup {e} /\ done' = done /\ accepted' = accepted
    BY <1>1, <1>t DEF Add, TypeOK
  <2> QED BY <2>1 DEF Carrier!Next, Carrier!Accept
<1>2. ASSUME NEW d \in Drainers, NEW i \in DOMAIN order, PublishOK(d, i) PROVE Carrier!Next
  <2>1. rows' = rows /\ done' = done /\ accepted' = accepted \cup {order[i]}
    BY <1>2 DEF PublishOK
  <2> QED BY <2>1, <1>o DEF Carrier!Next, Carrier!Deliver
<1>3. ASSUME NEW d \in Drainers, NEW i \in DOMAIN order, MarkPublished(d, i) PROVE Carrier!Next
  <2>1. rows' = rows /\ done' = done \cup {order[i]} /\ accepted' = accepted
    BY <1>3, <1>t, <1>o DEF MarkPublished, TypeOK
  <2>2. order[i] \in accepted
    BY <1>3, <1>t DEF MarkPublished, BatchSound
  <2>3. \E E \in SUBSET EventIDs : Carrier!Discharge(E)
    <3>1. {order[i]} \in SUBSET EventIDs
      BY <1>o
    <3> QED BY <3>1, <2>1, <2>2 DEF Carrier!Discharge
  <2> QED BY <2>3 DEF Carrier!Next
<1>4. ASSUME NEW d \in Drainers, NEW i \in DOMAIN order, MarkFailed(d, i) PROVE Carrier!Next
  <2>1. rows' = rows /\ done' = done \ {order[i]} /\ accepted' = accepted
    BY <1>4, <1>t, <1>o DEF MarkFailed, TypeOK
  <2>2. \E E \in SUBSET EventIDs : Carrier!Reopen(E)
    <3>1. {order[i]} \in SUBSET EventIDs
      BY <1>o
    <3> QED BY <3>1, <2>1 DEF Carrier!Reopen
  <2> QED BY <2>2 DEF Carrier!Next
<1>5. ASSUME UNCHANGED <<status, accepted>> PROVE UNCHANGED Carrier!vars
  BY <1>5 DEF Carrier!vars
<1>6. ASSUME NEW d \in Drainers, BeginDrain(d) PROVE UNCHANGED <<status, accepted>>
  BY <1>6 DEF BeginDrain
<1>7. ASSUME NEW d \in Drainers, NEW i \in DOMAIN order, PublishErr(d, i)
      PROVE  UNCHANGED <<status, accepted>>
  BY <1>7 DEF PublishErr
<1>8. ASSUME Cancel \/ StopRelay \/ UNCHANGED vars PROVE UNCHANGED <<status, accepted>>
  BY <1>8 DEF Cancel, StopRelay, vars
<1> QED
  BY <1>1, <1>2, <1>3, <1>4, <1>5, <1>6, <1>7, <1>8 DEF Next, RowStep, AddDuplicate

(* Refinement: the outbox is an at-least-once carrier of events, whatever  *)
(* the interleaving of Add, drains and publish failures.                   *)
THEOREM OutboxDelivers == Spec => ImplementsDelivery
<1>1. Init => Carrier!Init
  BY DEF Init, Carrier!Init
<1>2. StoreInv /\ StoreInv' /\ [Next]_vars => [Carrier!Next]_Carrier!vars
  BY CarrierStep
<1> QED
  BY <1>1, <1>2, StoreInvariant, PTL DEF Spec, ImplementsDelivery, Carrier!Spec

-----------------------------------------------------------------------------
(* Ordering, when the poll loop is the only drainer. *)

OrderInv == StoreInv /\ BatchIsPrefix /\ OvertakesOnlyFailed

(* A batch is downward closed in the unpublished rows: the limit cuts it   *)
(* at the newest end only.                                                 *)
LEMMA FetchPendingIsPrefix ==
  ASSUME order \in Seq(EventIDs),
         NEW limit \in Int,
         NEW j \in FetchPending(limit),
         NEW i \in Unpublished, i < j
  PROVE  i \in FetchPending(limit)
<1> DEFINE Before(k) == {n \in Unpublished : n < k}
<1>1. DOMAIN order = 1 .. Len(order) /\ Len(order) \in Nat
  OBVIOUS
<1>2. Unpublished \subseteq 1 .. Len(order)
  BY <1>1 DEF Unpublished
<1>3. IsFiniteSet(1 .. Len(order))
  BY <1>1, FS_Interval
<1>4. j \in Unpublished /\ (limit > 0 => Cardinality(Before(j)) < limit)
  BY DEF FetchPending
<1>5. Before(j) \subseteq 1 .. Len(order)
  BY <1>2
<1>6. IsFiniteSet(Before(j))
  <2> HIDE DEF Before
  <2> QED BY <1>3, <1>5, FS_Subset
<1>7. Before(i) \subseteq Before(j)
  <2>1. i \in Nat /\ j \in Nat
    BY <1>1, <1>2, <1>4
  <2>2. ASSUME NEW n \in Before(i) PROVE n \in Before(j)
    <3>1. n \in Unpublished /\ n \in Nat /\ n < i
      BY <1>1, <1>2, <2>2
    <3>2. n < j
      BY <2>1, <3>1
    <3> QED BY <3>1, <3>2
  <2> QED BY <2>2
<1>8. IsFiniteSet(Before(i)) /\ Cardinality(Before(i)) <= Cardinality(Before(j))
  <2> HIDE DEF Before
  <2> QED BY <1>6, <1>7, FS_Subset
<1>9. Cardinality(Before(i)) \in Nat /\ Cardinality(Before(j)) \in Nat
  BY <1>6, <1>8, FS_CardinalityType
<1>10. limit > 0 => Cardinality(Before(i)) < limit
  <2> HIDE DEF Before
  <2> QED BY <1>4, <1>8, <1>9
<1>11. limit > 0 => Cardinality({n \in Unpublished : n < i}) < limit
  BY <1>10
<1> HIDE DEF Before
<1> QED
  BY <1>11 DEF FetchPending

(* One relay step at a time, rows leave the batch oldest first and leave   *)
(* it tried.                                                               *)
LEMMA OrderInvStep ==
  ASSUME Flushers = {}
  PROVE  OrderInv /\ StoreInv' /\ [Next]_vars => OrderInv'
<1> SUFFICES ASSUME OrderInv, StoreInv', [Next]_vars
             PROVE  BatchIsPrefix' /\ OvertakesOnlyFailed'
  BY DEF OrderInv
<1>t. TypeOK /\ TypeOK' /\ BatchSound /\ RowsListedOnce /\ BatchIsPrefix /\ OvertakesOnlyFailed
  BY DEF OrderInv, StoreInv
<1>r. Drainers = {Relay}
  BY DEF Drainers
<1>n. DOMAIN order = 1 .. Len(order) /\ Len(order) \in Nat
  BY <1>t DEF TypeOK
<1>b. batch[Relay] \subseteq DOMAIN order
  BY <1>t, <1>r DEF BatchSound
<1>1. ASSUME NEW e \in EventIDs, Add(e) PROVE BatchIsPrefix' /\ OvertakesOnlyFailed'
  <2>1. /\ order' = Append(order, e)
        /\ status[e] = "absent"
        /\ status' = [status EXCEPT ![e] = "pending"]
        /\ UNCHANGED batch
    BY <1>1 DEF Add
  <2>2. /\ DOMAIN order' = 1 .. (Len(order) + 1)
        /\ \A i \in DOMAIN order : order'[i] = order[i]
        /\ order'[Len(order) + 1] = e
    BY <2>1, <1>t, OrderAppend DEF TypeOK
  <2>3. \A i \in DOMAIN order : order[i] # e
    BY <2>1, <1>t DEF RowsListedOnce
  <2>4. \A i \in DOMAIN order : status'[order'[i]] = status[order[i]]
    BY <2>1, <2>2, <2>3, <1>t DEF TypeOK
  <2>5. status'[order'[Len(order) + 1]] = "pending"
    BY <2>1, <2>2, <1>t DEF TypeOK
  <2>6. BatchIsPrefix'
    BY <2>1, <2>2, <2>4, <1>b, <1>n, <1>t DEF BatchIsPrefix
  <2>7. OvertakesOnlyFailed'
    BY <2>2, <2>4, <2>5, <1>n, <1>t DEF OvertakesOnlyFailed
  <2> QED BY <2>6, <2>7
<1>2. ASSUME NEW d \in Drainers, BeginDrain(d) PROVE BatchIsPrefix' /\ OvertakesOnlyFailed'
  <2>1. d = Relay /\ batch'[Relay] = FetchPending(batchSize) /\ UNCHANGED <<order, status>>
    BY <1>2, <1>r, <1>t DEF BeginDrain, TypeOK
  <2>2. batchSize \in Int
    BY OutboxAssumption DEF batchSize
  <2>3. ASSUME NEW j \in batch'[Relay], NEW i \in DOMAIN order, i < j
        PROVE  i \in batch'[Relay] \/ status[order[i]] = "published"
    <3>1. CASE status[order[i]] # "published"
      <4>1. i \in Unpublished
        BY <3>1 DEF Unpublished
      <4> QED BY <4>1, <2>1, <2>2, <2>3, <1>t, FetchPendingIsPrefix DEF TypeOK
    <3> QED BY <3>1
  <2>4. \A j \in batch'[Relay] : status[order[j]] # "published"
    BY <2>1, FetchPendingSound
  <2>5. BatchIsPrefix'
    BY <2>1, <2>3, <2>4 DEF BatchIsPrefix
  <2>6. OvertakesOnlyFailed'
    BY <2>1, <1>t DEF OvertakesOnlyFailed
  <2> QED BY <2>5, <2>6
<1>3. ASSUME NEW d \in Drainers, NEW i \in DOMAIN order, PublishOK(d, i) \/ PublishErr(d, i)
      PROVE  BatchIsPrefix' /\ OvertakesOnlyFailed'
  BY <1>3, <1>t DEF PublishOK, PublishErr, BatchIsPrefix, OvertakesOnlyFailed
<1>4. ASSUME NEW d \in Drainers, NEW i \in DOMAIN order,
             MarkPublished(d, i) \/ MarkFailed(d, i)
      PROVE  BatchIsPrefix' /\ OvertakesOnlyFailed'
  <2>1. /\ i \in batch[Relay]
        /\ \A j \in batch[Relay] : i <= j
        /\ batch'[Relay] = batch[Relay] \ {i}
        /\ order' = order
    BY <1>4, <1>r, <1>t DEF MarkPublished, MarkFailed, FinishRow, IsCurrent, TypeOK
  <2>2. status'[order[i]] \in {"published", "failed"}
    BY <1>4, <1>t DEF MarkPublished, MarkFailed, TypeOK
  <2>3. \A k \in DOMAIN order : k # i => status'[order[k]] = status[order[k]]
    BY <1>4, <1>t DEF MarkPublished, MarkFailed, TypeOK, RowsListedOnce
  <2>4. \A k \in DOMAIN order : k < i => status[order[k]] \in {"published", "failed"}
    BY <2>1, <1>b, <1>n, <1>t DEF BatchIsPrefix
  <2>5. BatchIsPrefix'
    BY <2>1, <2>2, <2>3, <1>b, <1>t DEF BatchIsPrefix
  <2>6. OvertakesOnlyFailed'
    BY <2>1, <2>2, <2>3, <2>4, <1>n, <1>t DEF OvertakesOnlyFailed
  <2> QED BY <2>5, <2>6
<1>5. CASE Cancel \/ StopRelay \/ UNCHANGED vars
  BY <1>5, <1>t DEF Cancel, StopRelay, vars, BatchIsPrefix, OvertakesOnlyFailed
<1> QED
  BY <1>1, <1>2, <1>3, <1>4, <1>5 DEF Next, RowStep, AddDuplicate

(* The ordering invariant holds whenever Drain has no other caller. *)
LEMMA OrderInvariant == ASSUME Flushers = {} PROVE Spec => []OrderInv
<1>1. Init => OrderInv \/ ~StoreInv
  <2> SUFFICES ASSUME Init, StoreInv PROVE BatchIsPrefix /\ OvertakesOnlyFailed
    BY DEF OrderInv
  <2>1. DOMAIN order = {} /\ batch[Relay] = {}
    BY DEF Init, Drainers
  <2> QED BY <2>1 DEF BatchIsPrefix, OvertakesOnlyFailed
<1>2. OrderInv /\ StoreInv' /\ [Next]_vars => OrderInv'
  BY OrderInvStep
<1> QED
  BY <1>1, <1>2, StoreInvariant, PTL DEF Spec

(* With the poll loop as the only drainer an event overtakes an older one  *)
(* only after a failed publish of the older one, for every batch size.     *)
THEOREM InOrderUnlessFailed ==
  ASSUME Flushers = {} PROVE Spec => []OvertakesOnlyFailed
BY OrderInvariant, PTL DEF OrderInv

(* With the poll loop as the only drainer no step takes a published row    *)
(* back: MarkFailed only meets rows that are still unpublished.            *)
THEOREM PublishedStays ==
  ASSUME Flushers = {} PROVE Spec => PublishedIsFinal
<1> DEFINE Keeps == \A e \in EventIDs : status[e] = "published" => status'[e] = "published"
<1>1. OrderInv /\ [Next]_vars => [Keeps]_vars
  <2> SUFFICES ASSUME OrderInv, [Next]_vars PROVE Keeps \/ UNCHANGED vars
    OBVIOUS
  <2>t. TypeOK /\ BatchIsPrefix
    BY DEF OrderInv, StoreInv
  <2>r. Drainers = {Relay}
    BY DEF Drainers
  <2>1. ASSUME NEW e \in EventIDs, Add(e) PROVE Keeps
    BY <2>1, <2>t DEF Add, TypeOK
  <2>2. ASSUME NEW d \in Drainers, NEW i \in DOMAIN order, MarkPublished(d, i) PROVE Keeps
    BY <2>2, <2>t DEF MarkPublished, TypeOK
  <2>3. ASSUME NEW d \in Drainers, NEW i \in DOMAIN order, MarkFailed(d, i) PROVE Keeps
    <3>1. status[order[i]] # "published"
      BY <2>3, <2>t, <2>r DEF MarkFailed, IsCurrent, BatchIsPrefix
    <3> QED BY <2>3, <3>1, <2>t DEF MarkFailed, TypeOK
  <2>4. ASSUME UNCHANGED status PROVE Keeps
    BY <2>4
  <2> QED
    BY <2>1, <2>2, <2>3, <2>4
    DEF Next, RowStep, AddDuplicate, BeginDrain, PublishOK, PublishErr, Cancel, StopRelay
<1> QED
  BY <1>1, OrderInvariant, PTL DEF Spec, PublishedIsFinal

-----------------------------------------------------------------------------
(* Which rows a drain can reach. *)

PoisonBefore(j) == {i \in DOMAIN order : i < j /\ order[i] \in Poison}

LEMMA PositionsFinite ==
  ASSUME TypeOK, NEW S \in SUBSET DOMAIN order
  PROVE  IsFiniteSet(S) /\ Cardinality(S) \in Nat
<1>1. DOMAIN order = 1 .. Len(order) /\ Len(order) \in Nat
  BY DEF TypeOK
<1>2. IsFiniteSet(DOMAIN order)
  BY <1>1, FS_Interval
<1> QED BY <1>2, FS_Subset, FS_CardinalityType

LEMMA BatchSizePositive == batchSize \in Nat \ {0}
BY OutboxAssumption DEF batchSize

(* A row behind a batch full of poison is not among those fetched: poison  *)
(* rows are never published, so they all come before it.                   *)
LEMMA FetchesNoStarved ==
  ASSUME StoreInv, NoneStarvedInBatch, NEW j \in FetchPending(batchSize)
  PROVE  ~Starved(j)
<1> DEFINE Before == {i \in Unpublished : i < j}
<1>1. Cardinality(Before) < batchSize
  BY BatchSizePositive DEF FetchPending
<1>2. PoisonBefore(j) \subseteq Before
  <2> SUFFICES ASSUME NEW i \in DOMAIN order, i < j, order[i] \in Poison
               PROVE  status[order[i]] # "published"
    BY DEF PoisonBefore, Unpublished
  <2>1. order[i] \in EventIDs
    BY OutboxAssumption
  <2> QED BY <2>1 DEF StoreInv, PublishedWasAccepted, NoneStarvedInBatch
<1>3. Before \in SUBSET DOMAIN order
  BY DEF Unpublished
<1> HIDE DEF Before
<1>4. TypeOK
  BY DEF StoreInv
<1>5. IsFiniteSet(Before) /\ Cardinality(Before) \in Nat
  BY <1>3, <1>4, PositionsFinite
<1>6. Cardinality(PoisonBefore(j)) <= Cardinality(Before)
  BY <1>2, <1>5, FS_Subset
<1>7. Cardinality(PoisonBefore(j)) \in Nat
  BY <1>2, <1>5, FS_Subset, FS_CardinalityType
<1>8. ~(Cardinality(PoisonBefore(j)) >= batchSize)
  BY <1>1, <1>5, <1>6, <1>7, BatchSizePositive
<1> QED BY <1>8 DEF Starved, PoisonBefore

(* What lies before a row, and so whether it is starved, never changes.    *)
LEMMA StarvedKept ==
  ASSUME TypeOK, [Next]_vars, NEW j \in DOMAIN order
  PROVE  j \in DOMAIN order' /\ order'[j] = order[j] /\ (Starved(j)' <=> Starved(j))
<1>1. order \in Seq(EventIDs)
  BY DEF TypeOK
<1>2. CASE order' = order
  BY <1>2 DEF Starved, batchSize
<1>3. ASSUME NEW e \in EventIDs, Add(e)
      PROVE  j \in DOMAIN order' /\ order'[j] = order[j] /\ (Starved(j)' <=> Starved(j))
  <2>1. order' = Append(order, e)
    BY <1>3 DEF Add
  <2>2. /\ DOMAIN order = 1 .. Len(order) /\ DOMAIN order' = 1 .. (Len(order) + 1)
        /\ Len(order) \in Nat /\ \A i \in DOMAIN order : order'[i] = order[i]
    BY <1>1, <2>1, OrderAppend
  <2>3. {i \in DOMAIN order' : i < j /\ order'[i] \in Poison}
          = {i \in DOMAIN order : i < j /\ order[i] \in Poison}
    BY <2>2
  <2> QED BY <2>2, <2>3 DEF Starved, batchSize
<1> QED
  BY <1>2, <1>3
  DEF Next, RowStep, AddDuplicate, BeginDrain, PublishOK, PublishErr, MarkPublished, MarkFailed,
      Cancel, StopRelay, vars

(* No step puts a starved row into a batch or offers one to the bus.       *)
LEMMA StarvedStep ==
  StoreInv /\ NoneStarvedInBatch /\ StarvedBehindPoison /\ [Next]_vars
    => NoneStarvedInBatch' /\ StarvedBehindPoison'
<1> SUFFICES ASSUME StoreInv, NoneStarvedInBatch, StarvedBehindPoison, [Next]_vars
             PROVE  NoneStarvedInBatch' /\ StarvedBehindPoison'
  OBVIOUS
<1>t. TypeOK /\ RowsListedOnce /\ BatchSound
  BY DEF StoreInv
<1>k. \A j \in DOMAIN order : j \in DOMAIN order' /\ order'[j] = order[j] /\ (Starved(j)' <=> Starved(j))
  BY <1>t, StarvedKept
<1>b. /\ \A d \in Drainers : batch[d] \subseteq DOMAIN order
      /\ \A d \in Drainers : \A j \in batch[d] : ~Starved(j)
  BY <1>t DEF BatchSound, NoneStarvedInBatch
<1>1. ASSUME NEW e \in EventIDs, Add(e)
      PROVE  NoneStarvedInBatch' /\ StarvedBehindPoison'
  <2>1. /\ status' = [status EXCEPT ![e] = "pending"] /\ status[e] = "absent"
        /\ batch' = batch /\ accepted' = accepted
        /\ order' = Append(order, e)
    BY <1>1 DEF Add
  <2>2. NoneStarvedInBatch'
    <3>1. accepted' \subseteq {x \in EventIDs \ Poison : status'[x] # "absent"}
      BY <2>1, <1>t DEF NoneStarvedInBatch, TypeOK
    <3>2. \A d \in Drainers : \A j \in batch'[d] : ~Starved(j)'
      BY <2>1, <1>b, <1>k
    <3> QED BY <3>1, <3>2 DEF NoneStarvedInBatch
  <2>3. StarvedBehindPoison'
    <3> SUFFICES ASSUME NEW j \in DOMAIN order', Starved(j)' PROVE order'[j] \notin accepted
      BY <2>1 DEF StarvedBehindPoison
    <3>1. CASE j \in DOMAIN order
      BY <1>k, <3>1 DEF StarvedBehindPoison
    <3>2. CASE j \notin DOMAIN order
      <4>1. order'[j] = e
        BY <1>t, <2>1, <3>2, OrderAppend DEF TypeOK
      <4> QED BY <2>1, <4>1 DEF NoneStarvedInBatch
    <3> QED BY <3>1, <3>2
  <2> QED BY <2>2, <2>3
<1>2. ASSUME NEW d \in Drainers, BeginDrain(d)
      PROVE  NoneStarvedInBatch' /\ StarvedBehindPoison'
  <2>1. /\ order' = order /\ status' = status /\ accepted' = accepted
        /\ batch' = [batch EXCEPT ![d] = FetchPending(batchSize)]
    BY <1>2 DEF BeginDrain
  <2>2. \A j \in FetchPending(batchSize) : ~Starved(j) /\ j \in DOMAIN order
    BY FetchesNoStarved, FetchPendingSound
  <2>3. \A c \in Drainers : \A j \in batch'[c] : ~Starved(j) /\ j \in DOMAIN order
    <3> SUFFICES ASSUME NEW c \in Drainers, NEW j \in batch'[c]
                 PROVE  ~Starved(j) /\ j \in DOMAIN order
      OBVIOUS
    <3>1. CASE c = d
      BY <1>t, <2>1, <2>2, <3>1 DEF TypeOK
    <3>2. CASE c # d
      BY <1>t, <1>b, <2>1, <3>2 DEF TypeOK
    <3> QED BY <3>1, <3>2
  <2>4. NoneStarvedInBatch'
    BY <1>k, <2>1, <2>3 DEF NoneStarvedInBatch
  <2>5. StarvedBehindPoison'
    BY <1>k, <2>1 DEF StarvedBehindPoison
  <2> QED BY <2>4, <2>5
<1>3. ASSUME NEW d \in Drainers, NEW i \in DOMAIN order, PublishOK(d, i)
      PROVE  NoneStarvedInBatch' /\ StarvedBehindPoison'
  <2>1. /\ order' = order /\ status' = status /\ batch' = batch
        /\ accepted' = accepted \cup {order[i]}
        /\ i \in batch[d] /\ order[i] \notin Poison
    BY <1>3 DEF PublishOK, IsCurrent
  <2>2. order[i] \in EventIDs /\ status[order[i]] # "absent"
    BY <1>t DEF RowsListedOnce, TypeOK
  <2>3. ~Starved(i)
    BY <1>b, <2>1
  <2>4. \A j \in DOMAIN order : order[j] = order[i] => j = i
    BY <1>t DEF RowsListedOnce
  <2>5. NoneStarvedInBatch'
    <3>1. accepted' \subseteq {x \in EventIDs \ Poison : status'[x] # "absent"}
      BY <2>1, <2>2 DEF NoneStarvedInBatch
    <3>2. \A c \in Drainers : \A j \in batch'[c] : ~Starved(j)'
      BY <2>1, <1>b, <1>k
    <3> QED BY <3>1, <3>2 DEF NoneStarvedInBatch
  <2>6. StarvedBehindPoison'
    BY <1>k, <2>1, <2>3, <2>4 DEF StarvedBehindPoison
  <2> QED BY <2>5, <2>6
<1>4. ASSUME order' = order, accepted' = accepted,
             \A c \in Drainers : batch'[c] \subseteq batch[c],
             \A e \in EventIDs : status[e] # "absent" => status'[e] # "absent"
      PROVE  NoneStarvedInBatch' /\ StarvedBehindPoison'
  <2>1. accepted' \subseteq {x \in EventIDs \ Poison : status'[x] # "absent"}
    BY <1>4 DEF NoneStarvedInBatch
  <2>2. \A c \in Drainers : \A j \in batch'[c] : ~Starved(j)'
    BY <1>4, <1>b, <1>k
  <2>3. StarvedBehindPoison'
    BY <1>4, <1>k DEF StarvedBehindPoison
  <2> QED BY <2>1, <2>2, <2>3 DEF NoneStarvedInBatch
<1>5. ASSUME NEW d \in Drainers, NEW i \in DOMAIN order, MarkPublished(d, i) \/ MarkFailed(d, i)
      PROVE  NoneStarvedInBatch' /\ StarvedBehindPoison'
  <2>1. /\ order' = order /\ accepted' = accepted
        /\ batch' = [batch EXCEPT ![d] = @ \ {i}]
        /\ \/ status' = [status EXCEPT ![order[i]] = "published"]
           \/ status' = [status EXCEPT ![order[i]] = "failed"]
    BY <1>5 DEF MarkPublished, MarkFailed, FinishRow
  <2>2. \A c \in Drainers : batch'[c] \subseteq batch[c]
    BY <1>t, <2>1 DEF TypeOK
  <2>3. \A e \in EventIDs : status[e] # "absent" => status'[e] # "absent"
    BY <1>t, <2>1 DEF TypeOK
  <2> QED BY <1>4, <2>1, <2>2, <2>3
<1>6. CASE UNCHANGED <<order, accepted, batch, status>>
  BY <1>4, <1>6
<1> QED
  BY <1>1, <1>2, <1>3, <1>5, <1>6
  DEF Next, RowStep, AddDuplicate, PublishErr, Cancel, StopRelay, vars

(* For any events, drainers and batch size, a row behind a batch full of   *)
(* events that the bus refuses every time is never delivered: each pass of *)
(* FetchPending starts with the rows that failed before (store.go:81).     *)
THEOREM PoisonStarves == Spec => []StarvedBehindPoison
<1>1. Init => NoneStarvedInBatch /\ StarvedBehindPoison
  <2> SUFFICES ASSUME Init PROVE NoneStarvedInBatch /\ StarvedBehindPoison
    OBVIOUS
  <2>1. DOMAIN order = {} /\ accepted = {} /\ \A d \in Drainers : batch[d] = {}
    BY DEF Init
  <2> QED BY <2>1 DEF NoneStarvedInBatch, StarvedBehindPoison
<1> QED BY <1>1, StarvedStep, StoreInvariant, PTL DEF Spec

(* And that is the limit: with fewer such events than a batch holds, every *)
(* pass takes up the oldest row that can be delivered, whatever has failed *)
(* before (store.go FetchPending, relay.go drain).                         *)
THEOREM HealthyMovesUp ==
  ASSUME IsFiniteSet(Poison), Cardinality(Poison) < batchSize
  PROVE  Spec => HealthyIsFetched
<1>1. StoreInv /\ [Next]_vars =>
        [\A d \in Drainers : BeginDrain(d) =>
           \A i \in Healthy : (\A j \in Healthy : i <= j) => i \in batch'[d]]_vars
  <2> SUFFICES ASSUME StoreInv, NEW d \in Drainers, BeginDrain(d), NEW i \in Healthy,
                      \A j \in Healthy : i <= j
               PROVE  i \in batch'[d]
    OBVIOUS
  <2> DEFINE Before == {k \in Unpublished : k < i}
             f == [k \in Before |-> order[k]]
  <2>t. TypeOK /\ RowsListedOnce
    BY DEF StoreInv
  <2>1. DOMAIN order \subseteq Nat /\ i \in Unpublished /\ i \in DOMAIN order
    BY <2>t DEF TypeOK, Healthy, Unpublished
  <2>2. \A k \in Before : order[k] \in Poison
    <3> SUFFICES ASSUME NEW k \in Before, order[k] \notin Poison PROVE FALSE
      OBVIOUS
    <3>1. k \in Healthy /\ k < i /\ k \in Nat /\ i \in Nat
      BY <2>1 DEF Healthy, Unpublished
    <3> QED BY <3>1
  <2>3. f \in Injection(Before, Poison)
    <3>1. f \in [Before -> Poison]
      BY <2>2
    <3>2. \A k, l \in Before : f[k] = f[l] => k = l
      BY <2>t DEF RowsListedOnce, Unpublished
    <3> QED BY <3>1, <3>2 DEF Injection, IsInjective
  <2>4. Before \in SUBSET DOMAIN order
    BY DEF Unpublished
  <2> HIDE DEF Before, f
  <2>5. Cardinality(Before) <= Cardinality(Poison)
    BY <2>3, FS_Injection
  <2>6. Cardinality(Before) \in Nat /\ Cardinality(Poison) \in Nat
    BY <2>t, <2>4, PositionsFinite, FS_CardinalityType
  <2>7. Cardinality(Before) < batchSize
    BY <2>5, <2>6, BatchSizePositive
  <2>8. i \in FetchPending(batchSize)
    BY <2>1, <2>7 DEF FetchPending, Before
  <2> QED BY <2>8, <2>t DEF BeginDrain, TypeOK
<1> QED BY <1>1, StoreInvariant, PTL DEF Spec, HealthyIsFetched
=============================================================================
