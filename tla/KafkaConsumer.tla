--------------------------- MODULE KafkaConsumer ---------------------------
(***************************************************************************)
(* The consuming side of internal/eventbus/kafka for one business topic:   *)
(* the processes of one consumer group, each running a reader for the      *)
(* topic (hop 0) and one for each of its retry topics (hops 1..MaxRetries),*)
(* and the dead-letter topic.  Each physical topic is one partition: the   *)
(* code treats partitions independently.                                   *)
(*                                                                         *)
(* A record is the event and the x-retry-attempt header.  Offsets count    *)
(* from 1; committed[h] is the number of records the group has committed.  *)
(*                                                                         *)
(* The broker and the kafka-go reader are outside the repository and are   *)
(* modelled from their use: FetchMessage hands out the records after the   *)
(* committed offset in order and moves on whether or not they are          *)
(* committed; a rebalance or a restart starts again at the committed       *)
(* offset; CommitMessages of a reader that has lost its partition may be   *)
(* rejected or accepted; WriteMessages may fail with or without the record *)
(* having been stored.                                                     *)
(***************************************************************************)
EXTENDS Integers, Sequences, FiniteSets

CONSTANTS
  Events,         \* events of the business topic
  Undecodable,    \* those whose payload Codec.Decode rejects
  Unsubscribed,   \* those no handler is bound to
  Members,        \* processes of the consumer group (api, worker replicas)
  NoMember,       \* owner of a partition nobody has been assigned
  OptMaxRetries,  \* Config.MaxRetries as configured
  MaxPublishes,   \* bound: records the producers write to the business topic
  MaxFaults,      \* bound: rebalances and departures of a member
  MaxWriteErrs    \* bound: WriteMessages calls that return an error

ASSUME KafkaAssumption ==
  /\ Undecodable \subseteq Events
  /\ Unsubscribed \subseteq Events
  /\ NoMember \notin Members
  /\ OptMaxRetries \in Int
  /\ MaxPublishes \in Nat
  /\ MaxFaults \in Nat
  /\ MaxWriteErrs \in Nat

(* Config.setDefaults. *)
MaxRetries == IF OptMaxRetries <= 0 THEN 3 ELSE OptMaxRetries

(* Run starts a reader for each of these. *)
Hops == 0 .. MaxRetries
Readers == Members \X Hops

Record == [ev : Events, attempt : Nat]

VARIABLES
  log,        \* the records of each physical topic
  dlq,        \* the records of the dead-letter topic
  committed,  \* the group's committed offset on each topic
  owner,      \* the member each topic's partition is assigned to
  pos,        \* the last offset each reader has fetched
  cur,        \* the offset a reader's handle call is at, 0 outside handle
  pc,         \* where that call is
  handled,    \* history: events all of whose handlers (maybe none) succeeded
  failedAt,   \* history: the hops at which a handler of the event failed
  dropped,    \* history: <<hop, offset>> whose outcome failed to be written
  faults,     \* how many of MaxFaults have happened
  writeErrs   \* how many of MaxWriteErrs have happened

topics == <<log, dlq>>
group  == <<committed, owner>>
bounds == <<faults, writeErrs>>
history == <<handled, failedAt, dropped>>
vars == <<log, dlq, committed, owner, pos, cur, pc, handled, failedAt, dropped, faults, writeErrs>>

TypeOK ==
  /\ log \in [Hops -> Seq(Record)]
  /\ dlq \subseteq Record
  /\ committed \in [Hops -> Nat]
  /\ owner \in [Hops -> Members \cup {NoMember}]
  /\ pos \in [Readers -> Nat]
  /\ cur \in [Readers -> Nat]
  /\ pc \in [Readers -> {"fetch", "wait", "dispatch", "retry", "deadLetter", "commit"}]
  /\ handled \subseteq Events
  /\ failedAt \in [Events -> SUBSET Hops]
  /\ dropped \subseteq (Hops \X Nat)
  /\ faults \in Nat
  /\ writeErrs \in Nat

Init ==
  /\ log = [h \in Hops |-> << >>]
  /\ dlq = {}
  /\ committed = [h \in Hops |-> 0]
  /\ owner = [h \in Hops |-> NoMember]
  /\ pos = [r \in Readers |-> 0]
  /\ cur = [r \in Readers |-> 0]
  /\ pc = [r \in Readers |-> "fetch"]
  /\ handled = {}
  /\ failedAt = [e \in Events |-> {}]
  /\ dropped = {}
  /\ faults = 0
  /\ writeErrs = 0

-----------------------------------------------------------------------------
(* The producer, and the broker's group management. *)

(* No attempt header, which attemptFrom reads as 0. *)
Encode(e) == [ev |-> e, attempt |-> 0]

(* The outbox publishes at least once, so the same event may come again. *)
Publish(e) ==
  /\ Len(log[0]) < MaxPublishes
  /\ log' = [log EXCEPT ![0] = Append(@, Encode(e))]
  /\ UNCHANGED <<dlq, group, pos, cur, pc, history, bounds>>

(* Mutated form: the reader starts at the end of the topic. *)
JoinLatest(m, h) ==
  /\ owner[h] = NoMember
  /\ owner' = [owner EXCEPT ![h] = m]
  /\ pos' = [pos EXCEPT ![<<m, h>>] = Len(log[h])]
  /\ UNCHANGED <<topics, committed, cur, pc, history, bounds>>

(* A partition without an owner goes to a running reader. *)
Join(m, h) ==
  /\ owner[h] = NoMember
  /\ owner' = [owner EXCEPT ![h] = m]
  /\ pos' = [pos EXCEPT ![<<m, h>>] = committed[h]]
  /\ UNCHANGED <<topics, committed, cur, pc, history, bounds>>

(* The group rebalances.  A handle call under way knows nothing of it. *)
Rebalance(m, h) ==
  /\ owner[h] # NoMember
  /\ faults < MaxFaults
  /\ faults' = faults + 1
  /\ owner' = [owner EXCEPT ![h] = m]
  /\ pos' = [pos EXCEPT ![<<m, h>>] = committed[h]]
  /\ UNCHANGED <<topics, committed, cur, pc, history, writeErrs>>

(* Mutated form: -1 stands for "no message". *)
LeaveMinusOne(m) ==
  /\ faults < MaxFaults
  /\ faults' = faults + 1
  /\ owner' = [h \in Hops |-> IF owner[h] = m THEN NoMember ELSE owner[h]]
  /\ pos' = [r \in Readers |-> IF r[1] = m THEN -1 ELSE pos[r]]
  /\ cur' = [r \in Readers |-> IF r[1] = m THEN 0 ELSE cur[r]]
  /\ pc' = [r \in Readers |-> IF r[1] = m THEN "fetch" ELSE pc[r]]
  /\ UNCHANGED <<topics, committed, history, writeErrs>>

(* The process crashes, or its context is cancelled: handle returns from   *)
(* the not-before wait, calls made with the context fail, run returns.     *)
Leave(m) ==
  /\ faults < MaxFaults
  /\ faults' = faults + 1
  /\ owner' = [h \in Hops |-> IF owner[h] = m THEN NoMember ELSE owner[h]]
  /\ pos' = [r \in Readers |-> IF r[1] = m THEN 0 ELSE pos[r]]
  /\ cur' = [r \in Readers |-> IF r[1] = m THEN 0 ELSE cur[r]]
  /\ pc' = [r \in Readers |-> IF r[1] = m THEN "fetch" ELSE pc[r]]
  /\ UNCHANGED <<topics, committed, history, writeErrs>>

-----------------------------------------------------------------------------
(* The read loop of one reader. *)

(* Mutated form: ReadMessage, which commits what it returns. *)
FetchAndCommit(m, h) ==
  LET r == <<m, h>> IN
  /\ pc[r] = "fetch"
  /\ owner[h] = m
  /\ pos[r] < Len(log[h])
  /\ pos' = [pos EXCEPT ![r] = @ + 1]
  /\ cur' = [cur EXCEPT ![r] = pos[r] + 1]
  /\ committed' = [committed EXCEPT ![h] = pos[r] + 1]
  /\ pc' = [pc EXCEPT ![r] = IF h = 0 THEN "dispatch" ELSE "wait"]
  /\ UNCHANGED <<topics, owner, history, bounds>>

(* run: FetchMessage returns the next record and handle is called with it. *)
(* Every record of a retry topic carries a not-before header.              *)
Fetch(m, h) ==
  LET r == <<m, h>> IN
  /\ pc[r] = "fetch"
  /\ owner[h] = m
  /\ pos[r] < Len(log[h])
  /\ pos' = [pos EXCEPT ![r] = @ + 1]
  /\ cur' = [cur EXCEPT ![r] = pos[r] + 1]
  /\ pc' = [pc EXCEPT ![r] = IF h = 0 THEN "dispatch" ELSE "wait"]
  /\ UNCHANGED <<topics, group, history, bounds>>

NotBeforePassed(m, h) ==
  LET r == <<m, h>> IN
  /\ pc[r] = "wait"
  /\ pc' = [pc EXCEPT ![r] = "dispatch"]
  /\ UNCHANGED <<topics, group, pos, cur, history, bounds>>

Message(m, h) == log[h][cur[<<m, h>>]]

attemptFrom(msg) == msg.attempt

(* Mutated form: one hop too few. *)
decideOutcomeEarly(attempt, maxRetries) ==
  IF attempt >= maxRetries THEN "deadLetter" ELSE "retry"

decideOutcome(attempt, maxRetries) ==
  IF attempt > maxRetries THEN "deadLetter" ELSE "retry"

Decodes(msg) == msg.ev \notin Undecodable

(* handlersFor is not empty. *)
HasHandlers(msg) == msg.ev \notin Unsubscribed

DecodeFails(m, h) ==
  LET r == <<m, h>> IN
  /\ pc[r] = "dispatch"
  /\ ~Decodes(Message(m, h))
  /\ pc' = [pc EXCEPT ![r] = "deadLetter"]
  /\ UNCHANGED <<topics, group, pos, cur, history, bounds>>

NoHandlers(m, h) ==
  LET r == <<m, h>> IN
  /\ pc[r] = "dispatch"
  /\ Decodes(Message(m, h))
  /\ ~HasHandlers(Message(m, h))
  /\ handled' = handled \cup {Message(m, h).ev}
  /\ pc' = [pc EXCEPT ![r] = "commit"]
  /\ UNCHANGED <<topics, group, pos, cur, failedAt, dropped, bounds>>

HandlersSucceed(m, h) ==
  LET r == <<m, h>> IN
  /\ pc[r] = "dispatch"
  /\ Decodes(Message(m, h))
  /\ HasHandlers(Message(m, h))
  /\ handled' = handled \cup {Message(m, h).ev}
  /\ pc' = [pc EXCEPT ![r] = "commit"]
  /\ UNCHANGED <<topics, group, pos, cur, failedAt, dropped, bounds>>

(* Every handler runs; one error is enough to fail the message. *)
HandlersFail(m, h) ==
  LET r == <<m, h>> IN
  /\ pc[r] = "dispatch"
  /\ Decodes(Message(m, h))
  /\ HasHandlers(Message(m, h))
  /\ failedAt' = [failedAt EXCEPT ![Message(m, h).ev] = @ \cup {h}]
  /\ pc' = [pc EXCEPT ![r] = decideOutcome(attemptFrom(Message(m, h)) + 1, MaxRetries)]
  /\ UNCHANGED <<topics, group, pos, cur, handled, dropped, bounds>>

(* The topic and the header of the next hop are both the attempt number. *)
RetryRecord(m, h) ==
  [ev |-> Message(m, h).ev, attempt |-> attemptFrom(Message(m, h)) + 1]

(* Mutated form: the record is never written. *)
SkipRetry(m, h) ==
  /\ pc[<<m, h>>] = "retry"
  /\ pc' = [pc EXCEPT ![<<m, h>>] = "commit"]
  /\ UNCHANGED <<topics, group, pos, cur, history, bounds>>

WriteRetry(m, h) ==
  LET r == <<m, h>>
      rec == RetryRecord(m, h)
  IN
  /\ pc[r] = "retry"
  /\ log' = [log EXCEPT ![rec.attempt] = Append(@, rec)]
  /\ pc' = [pc EXCEPT ![r] = "commit"]
  /\ UNCHANGED <<dlq, group, pos, cur, history, bounds>>

WriteDeadLetter(m, h) ==
  LET r == <<m, h>> IN
  /\ pc[r] = "deadLetter"
  /\ dlq' = dlq \cup {RetryRecord(m, h)}
  /\ pc' = [pc EXCEPT ![r] = "commit"]
  /\ UNCHANGED <<log, group, pos, cur, history, bounds>>

(* WriteMessages returns an error: handle returns without a commit and the *)
(* read loop goes on.  The broker may have stored the record all the same. *)
WriteFails(m, h) ==
  LET r == <<m, h>>
      rec == RetryRecord(m, h)
  IN
  /\ pc[r] \in {"retry", "deadLetter"}
  /\ writeErrs < MaxWriteErrs
  /\ writeErrs' = writeErrs + 1
  /\ dropped' = dropped \cup {<<h, cur[r]>>}
  /\ \/ UNCHANGED topics
     \/ /\ pc[r] = "retry"
        /\ log' = [log EXCEPT ![rec.attempt] = Append(@, rec)]
        /\ UNCHANGED dlq
     \/ /\ pc[r] = "deadLetter"
        /\ dlq' = dlq \cup {rec}
        /\ UNCHANGED log
  /\ cur' = [cur EXCEPT ![r] = 0]
  /\ pc' = [pc EXCEPT ![r] = "fetch"]
  /\ UNCHANGED <<group, pos, handled, failedAt, faults>>

Commit(m, h) ==
  LET r == <<m, h>> IN
  /\ pc[r] = "commit"
  /\ committed' = [committed EXCEPT ![h] = cur[r]]
  /\ cur' = [cur EXCEPT ![r] = 0]
  /\ pc' = [pc EXCEPT ![r] = "fetch"]
  /\ UNCHANGED <<topics, owner, pos, history, bounds>>

(* A failed commit is logged and nothing else. *)
CommitFails(m, h) ==
  LET r == <<m, h>> IN
  /\ pc[r] = "commit"
  /\ cur' = [cur EXCEPT ![r] = 0]
  /\ pc' = [pc EXCEPT ![r] = "fetch"]
  /\ UNCHANGED <<topics, group, pos, history, bounds>>

ReaderStep(m, h) ==
  \/ Fetch(m, h)
  \/ NotBeforePassed(m, h)
  \/ DecodeFails(m, h)
  \/ NoHandlers(m, h)
  \/ HandlersSucceed(m, h)
  \/ HandlersFail(m, h)
  \/ WriteRetry(m, h)
  \/ WriteDeadLetter(m, h)
  \/ WriteFails(m, h)
  \/ Commit(m, h)
  \/ CommitFails(m, h)

Next ==
  \/ \E e \in Events : Publish(e)
  \/ \E m \in Members : Leave(m)
  \/ \E m \in Members, h \in Hops : Join(m, h) \/ Rebalance(m, h) \/ ReaderStep(m, h)

Spec == Init /\ [][Next]_vars

(* Partitions are assigned, reader goroutines are scheduled, not-before    *)
(* times pass and handlers return.  Nothing is assumed of their results.   *)
Fairness ==
  \A h \in Hops :
     /\ WF_vars(\E m \in Members : Join(m, h))
     /\ \A m \in Members : WF_vars(ReaderStep(m, h))

FairSpec == Spec /\ Fairness

-----------------------------------------------------------------------------
(* Properties. *)

DeadLettered(e) == \E d \in dlq : d.ev = e
Settled(e) == e \in handled \/ DeadLettered(e)

(* Events with a record on some topic, and with one not yet committed. *)
Published == {e \in Events : \E i \in DOMAIN log[0] : log[0][i].ev = e}
Outstanding ==
  {e \in Events : \E h \in Hops : \E i \in DOMAIN log[h] : i > committed[h] /\ log[h][i].ev = e}

(* The outcome of record i of hop h is on record somewhere else. *)
Recorded(h, i) ==
  \/ Settled(log[h][i].ev)
  \/ h < MaxRetries /\ \E j \in DOMAIN log[h + 1] : log[h + 1][j].ev = log[h][i].ev

(* consumer.go:15-18: "The source offset is committed only once the        *)
(* outcome has been durably recorded somewhere (a handler ran, or the      *)
(* message reached a retry/DLQ topic)".  Commits are cumulative, so this   *)
(* is about every record below a committed offset, and has to survive      *)
(* rebalances, stale commits and crashes in the middle of handle.          *)
CommittedIsRecorded ==
  \A h \in Hops : \A i \in DOMAIN log[h] : i <= committed[h] => Recorded(h, i)

(* A failing write to a retry or dead-letter topic can cost the group the  *)
(* record it was for and no other: every record below a committed offset   *)
(* is recorded elsewhere, or is one whose own write failed.                *)
OnlyFailedWritesLose ==
  \A h \in Hops : \A i \in DOMAIN log[h] :
     i <= committed[h] => Recorded(h, i) \/ <<h, i>> \in dropped

(* The records that commits have passed with no trace of them left.        *)
Lost ==
  UNION {{h} \X {i \in DOMAIN log[h] : i <= committed[h] /\ ~Recorded(h, i)} : h \in Hops}

(* So n failing writes lose at most n records, though each of them lets    *)
(* the commits of all that comes after pass it, and though any commit may  *)
(* be stale, repeated or lost (consumer.go handle, fail, deadLetter).      *)
LossesPaidFor == OnlyFailedWritesLose /\ Cardinality(Lost) <= writeErrs

(* retry.go:54-56: "maxRetries+1 tries overall": an event that decodes is  *)
(* dead-lettered only after a handler has failed it on the business topic  *)
(* and on every one of the retry topics, and the header says so.           *)
DeadLetteredAfterAllTries ==
  \A d \in dlq : d.ev \notin Undecodable =>
     failedAt[d.ev] = Hops /\ d.attempt = MaxRetries + 1

(* Every published event ends with its handlers or in the dead-letter      *)
(* topic, whatever handlers return and wherever rebalances, crashes and    *)
(* failed commits fall.                                                    *)
EventuallySettled ==
  \A e \in Events : e \in Published ~> Settled(e)

(* The topic and its retry chain are a carrier in the sense of Delivery:   *)
(* what is published reaches a handler or the dead-letter topic before the *)
(* group's offsets have passed all of its records.                         *)
Carrier ==
  INSTANCE Delivery WITH
    accepted <- Published,
    delivered <- {e \in Published : Settled(e)},
    discharged <- Published \ Outstanding

ImplementsDelivery == Carrier!Spec

-----------------------------------------------------------------------------
(* The strengthenings the proofs need. *)

(* Offsets point into their topic; a reader's is 0 exactly outside handle. *)
OffsetsExist ==
  \A h \in Hops :
     /\ committed[h] <= Len(log[h])
     /\ \A m \in Members :
          /\ pos[<<m, h>>] <= Len(log[h])
          /\ cur[<<m, h>>] <= Len(log[h])
          /\ pc[<<m, h>>] = "fetch" <=> cur[<<m, h>>] = 0

(* The header is the hop number, and the event has failed at every earlier *)
(* hop; a message about to be rerouted has failed at this one too.         *)
HopTells ==
  \A h \in Hops :
     /\ \A i \in DOMAIN log[h] :
          log[h][i].attempt = h /\ \A k \in Hops : k < h => k \in failedAt[log[h][i].ev]
     /\ \A m \in Members :
          /\ pc[<<m, h>>] = "retry" => h < MaxRetries /\ h \in failedAt[Message(m, h).ev]
          /\ pc[<<m, h>>] = "deadLetter" /\ Message(m, h).ev \notin Undecodable =>
               h = MaxRetries /\ h \in failedAt[Message(m, h).ev]

(* What a reader has passed is recorded, or is one of the dropped. *)
Passed(h, i) == Recorded(h, i) \/ <<h, i>> \in dropped

ReadIsRecorded ==
  \A m \in Members, h \in Hops : \A i \in DOMAIN log[h] :
     /\ i <= pos[<<m, h>>] /\ i # cur[<<m, h>>] => Passed(h, i)
     /\ i < cur[<<m, h>>] => Passed(h, i)
     /\ i = cur[<<m, h>>] /\ pc[<<m, h>>] = "commit" => Passed(h, i)
=============================================================================
