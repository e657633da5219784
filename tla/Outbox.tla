------------------------------- MODULE Outbox -------------------------------
(***************************************************************************)
(* The outbox of internal/eventbus/outbox: the in-memory Store that every  *)
(* wiring uses (bootstrap.Build) and the Relay that forwards its rows to   *)
(* the bus.  Rows are kept in insertion order; the relay's poll loop, and  *)
(* any caller of Relay.Drain, repeatedly copies the first rows that are    *)
(* not published and works through the copy, one Publish call and one      *)
(* Mark call per row.  The store's mutex makes each store call one step;   *)
(* nothing is held between the calls.                                      *)
(*                                                                         *)
(* The bus is what Publish returns: nil or an error.  Message.Attempts,    *)
(* LastError and the timestamps are written and never read, and left out.  *)
(***************************************************************************)
EXTENDS Integers, Sequences, FiniteSets

CONSTANTS
  EventIDs,      \* the events commands may raise
  Poison,        \* those the bus refuses every time (a handler that always fails)
  Relay,         \* the goroutine in Relay.Run
  Flushers,      \* concurrent callers of Relay.Drain / Application.DrainOutbox
  OptBatchSize   \* outbox.Options.BatchSize as configured

ASSUME OutboxAssumption ==
  /\ Poison \subseteq EventIDs
  /\ Relay \notin Flushers
  /\ OptBatchSize \in Int

Drainers == {Relay} \cup Flushers

VARIABLES
  order,     \* MemoryStore.order: event IDs, oldest first
  status,    \* MemoryStore.byID: the Status of each row, "absent" if no row
  batch,     \* positions in order of the copied rows a drain has yet to finish
  pc,        \* where each drain is
  ctxDone,   \* the context of Relay.Run has been cancelled
  accepted   \* history: events for which some Publish returned nil

vars == <<order, status, batch, pc, ctxDone, accepted>>

TypeOK ==
  /\ order \in Seq(EventIDs)
  /\ status \in [EventIDs -> {"absent", "pending", "published", "failed"}]
  /\ batch \in [Drainers -> SUBSET Nat]
  /\ pc \in [Drainers -> {"idle", "publish", "markPublished", "markFailed", "stopped"}]
  /\ ctxDone \in BOOLEAN
  /\ accepted \subseteq EventIDs

Init ==
  /\ order = << >>
  /\ status = [e \in EventIDs |-> "absent"]
  /\ batch = [d \in Drainers |-> {}]
  /\ pc = [d \in Drainers |-> "idle"]
  /\ ctxDone = FALSE
  /\ accepted = {}

-----------------------------------------------------------------------------
(* The store. *)

(* Every command raises at most one event, so Add is called with one.      *)
Add(e) ==
  /\ status[e] = "absent"
  /\ status' = [status EXCEPT ![e] = "pending"]
  /\ order' = Append(order, e)
  /\ UNCHANGED <<batch, pc, ctxDone, accepted>>

(* A second Add of the same ID is skipped. *)
AddDuplicate(e) ==
  /\ status[e] # "absent"
  /\ UNCHANGED vars

(* Mutated form: only rows never tried. *)
PendingOnly == {i \in DOMAIN order : status[order[i]] = "pending"}

(* The rows FetchPending may return: pending and failed ones. *)
Unpublished == {i \in DOMAIN order : status[order[i]] # "published"}

(* Mutated form: the newest rows instead of the oldest. *)
FetchNewest(limit) ==
  {i \in Unpublished :
     limit > 0 => Cardinality({j \in Unpublished : j > i}) < limit}

FetchPending(limit) ==
  {i \in Unpublished :
     limit > 0 => Cardinality({j \in Unpublished : j < i}) < limit}

batchSize == IF OptBatchSize <= 0 THEN 100 ELSE OptBatchSize

-----------------------------------------------------------------------------
(* One pass of drain, step by step. *)

(* Row i is the one the drain is at: batches are worked through in order.  *)
IsCurrent(d, i) == i \in batch[d] /\ \A j \in batch[d] : i <= j

BeginDrain(d) ==
  /\ pc[d] = "idle"
  /\ batch' = [batch EXCEPT ![d] = FetchPending(batchSize)]
  /\ pc' = [pc EXCEPT ![d] = IF batch'[d] = {} THEN "idle" ELSE "publish"]
  /\ UNCHANGED <<order, status, ctxDone, accepted>>

PublishOK(d, i) ==
  /\ pc[d] = "publish"
  /\ IsCurrent(d, i)
  /\ order[i] \notin Poison
  /\ pc' = [pc EXCEPT ![d] = "markPublished"]
  /\ accepted' = accepted \cup {order[i]}
  /\ UNCHANGED <<order, status, batch, ctxDone>>

(* Mutated form: an error from the bus is treated as success. *)
PublishErrIgnored(d, i) ==
  /\ pc[d] = "publish"
  /\ IsCurrent(d, i)
  /\ pc' = [pc EXCEPT ![d] = "markPublished"]
  /\ UNCHANGED <<order, status, batch, ctxDone, accepted>>

PublishErr(d, i) ==
  /\ pc[d] = "publish"
  /\ IsCurrent(d, i)
  /\ pc' = [pc EXCEPT ![d] = "markFailed"]
  /\ UNCHANGED <<order, status, batch, ctxDone, accepted>>

(* The row is finished: on to the next one, or out of drain. *)
FinishRow(d, i) ==
  /\ batch' = [batch EXCEPT ![d] = @ \ {i}]
  /\ pc' = [pc EXCEPT ![d] = IF batch[d] = {i} THEN "idle" ELSE "publish"]

(* Mutated form: the whole batch is marked after its first row. *)
MarkBatchPublished(d, i) ==
  /\ pc[d] = "markPublished"
  /\ IsCurrent(d, i)
  /\ status' = [e \in EventIDs |->
                  IF \E j \in batch[d] : order[j] = e THEN "published" ELSE status[e]]
  /\ FinishRow(d, i)
  /\ UNCHANGED <<order, ctxDone, accepted>>

MarkPublished(d, i) ==
  /\ pc[d] = "markPublished"
  /\ IsCurrent(d, i)
  /\ status' = [status EXCEPT ![order[i]] = "published"]
  /\ FinishRow(d, i)
  /\ UNCHANGED <<order, ctxDone, accepted>>

(* Mutated form: every row of the store is marked failed. *)
MarkAllFailed(d, i) ==
  /\ pc[d] = "markFailed"
  /\ IsCurrent(d, i)
  /\ status' = [e \in EventIDs |-> IF status[e] = "absent" THEN "absent" ELSE "failed"]
  /\ FinishRow(d, i)
  /\ UNCHANGED <<order, ctxDone, accepted>>

MarkFailed(d, i) ==
  /\ pc[d] = "markFailed"
  /\ IsCurrent(d, i)
  /\ status' = [status EXCEPT ![order[i]] = "failed"]
  /\ FinishRow(d, i)
  /\ UNCHANGED <<order, ctxDone, accepted>>

RowStep(d) ==
  \E i \in DOMAIN order :
     PublishOK(d, i) \/ PublishErr(d, i) \/ MarkPublished(d, i) \/ MarkFailed(d, i)

-----------------------------------------------------------------------------
(* The poll loop: a tick starts a drain, a cancelled context ends the loop *)
(* between drains and never inside one.                                    *)

Cancel ==
  /\ ~ctxDone
  /\ ctxDone' = TRUE
  /\ UNCHANGED <<order, status, batch, pc, accepted>>

StopRelay ==
  /\ ctxDone
  /\ pc[Relay] = "idle"
  /\ pc' = [pc EXCEPT ![Relay] = "stopped"]
  /\ UNCHANGED <<order, status, batch, ctxDone, accepted>>

Next ==
  \/ \E e \in EventIDs : Add(e) \/ AddDuplicate(e)
  \/ \E d \in Drainers : BeginDrain(d) \/ RowStep(d)
  \/ Cancel
  \/ StopRelay

Spec == Init /\ [][Next]_vars

(* The relay's goroutine is scheduled, its ticker keeps firing, and a bus  *)
(* that is offered the same event again and again eventually takes it,     *)
(* unless the event is poison.                                             *)
Fairness ==
  /\ WF_vars(BeginDrain(Relay))
  /\ WF_vars(RowStep(Relay))
  /\ \A e \in EventIDs :
       SF_vars(\E i \in DOMAIN order : order[i] = e /\ PublishOK(Relay, i))

FairSpec == Spec /\ Fairness

-----------------------------------------------------------------------------
(* Properties. *)

(* The store's two structures agree: order lists every row of byID exactly *)
(* once, so FetchPending, which walks order, can reach every row however   *)
(* Adds and drains interleave (store.go Add, FetchPending).                *)
RowsListedOnce ==
  /\ \A i, j \in DOMAIN order : order[i] = order[j] => i = j
  /\ \A e \in EventIDs : status[e] # "absent" <=> \E i \in DOMAIN order : order[i] = e

(* At-least-once, the safety half: a row is marked published, and so never *)
(* offered again, only if the bus has taken the event, whatever the number *)
(* of concurrent drains and however publishes fail (relay.go drain).       *)
PublishedWasAccepted ==
  \A e \in EventIDs : status[e] = "published" => e \in accepted

(* Order: when the poll loop is the only drainer, an event is published    *)
(* before an older one only if a publish of the older one has failed.  A   *)
(* batch boundary, or an Add in the middle of a drain, never reorders.     *)
OvertakesOnlyFailed ==
  \A i, j \in DOMAIN order :
     i < j /\ status[order[j]] = "published" => status[order[i]] \in {"published", "failed"}

(* When the poll loop is the only drainer a published row stays published: *)
(* MarkFailed, which overwrites any status, never meets one.               *)
PublishedIsFinal ==
  [][\A e \in EventIDs : status[e] = "published" => status'[e] = "published"]_vars

(* Every event in the outbox is published unless it is poison or the relay *)
(* is shut down first: failed rows are retried (relay.go, store.go:76).    *)
EventuallyPublished ==
  \A e \in EventIDs \ Poison :
     status[e] # "absent" ~> (status[e] = "published" \/ ctxDone)

(* Failed rows stay ahead of newer ones.  Behind a batch full of events    *)
(* that the bus never takes, a row is never offered, by any drainer and    *)
(* after any number of passes (store.go FetchPending, relay.go drain), so  *)
(* that EventuallyPublished needs fewer such events than a batch holds.    *)
Starved(j) == Cardinality({i \in DOMAIN order : i < j /\ order[i] \in Poison}) >= batchSize

StarvedBehindPoison ==
  \A j \in DOMAIN order : Starved(j) => order[j] \notin accepted

(* With fewer such events than a batch holds, every drain is given the     *)
(* oldest row that the bus may take, however often it has failed           *)
(* (store.go FetchPending).                                                *)
Healthy == {i \in DOMAIN order : status[order[i]] # "published" /\ order[i] \notin Poison}

HealthyIsFetched ==
  [][\A d \in Drainers : BeginDrain(d) =>
       \A i \in Healthy : (\A j \in Healthy : i <= j) => i \in batch'[d]]_vars

(* The outbox keeps the promise of a carrier: a row is the responsibility, *)
(* "published" its end.                                                    *)
Carrier ==
  INSTANCE Delivery WITH
    Events <- EventIDs,
    accepted <- {e \in EventIDs : status[e] # "absent"},
    delivered <- accepted,
    discharged <- {e \in EventIDs : status[e] = "published"}

ImplementsDelivery == Carrier!Spec

-----------------------------------------------------------------------------
(* The strengthenings the proofs need. *)

(* A copied row is a row of the store; the row a drain is about to mark    *)
(* published has been taken by the bus.                                    *)
BatchSound ==
  \A d \in Drainers :
     /\ batch[d] \subseteq DOMAIN order
     /\ \A i \in DOMAIN order :
          pc[d] = "markPublished" /\ IsCurrent(d, i) => order[i] \in accepted

(* With one drainer, every row before one in the batch is in the batch too *)
(* or has been tried, and no row of the batch is published.                *)
BatchIsPrefix ==
  \A j \in batch[Relay] :
     /\ status[order[j]] # "published"
     /\ \A i \in DOMAIN order :
          i < j => i \in batch[Relay] \/ status[order[i]] \in {"published", "failed"}

(* No drain has a row behind a batch full of poison; what the bus has      *)
(* taken has a row and is not poison.                                      *)
NoneStarvedInBatch ==
  /\ accepted \subseteq {e \in EventIDs \ Poison : status[e] # "absent"}
  /\ \A d \in Drainers : \A j \in batch[d] : ~Starved(j)
=============================================================================
