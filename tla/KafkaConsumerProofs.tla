------------------------ MODULE KafkaConsumerProofs ------------------------
(***************************************************************************)
(* What holds of the consumer group for any number of processes, any       *)
(* events, any MaxRetries and any number of faults.  The central           *)
(* strengthening is ReadIsRecorded: commits are cumulative, so the         *)
(* argument is about everything a reader has passed, not about the record  *)
(* it commits.                                                             *)
(***************************************************************************)
EXTENDS KafkaConsumer, FiniteSetTheorems, WellFoundedInduction, TLAPS

(* setDefaults leaves at least one retry. *)
LEMMA MaxRetriesPositive == MaxRetries \in Nat \ {0}
BY KafkaAssumption DEF MaxRetries

(* What appending one record to one topic does to the topics. *)
LEMMA LogAppend ==
  ASSUME log \in [Hops -> Seq(Record)],
         NEW k \in Hops, NEW rec \in Record,
         log' = [log EXCEPT ![k] = Append(@, rec)]
  PROVE  /\ log' \in [Hops -> Seq(Record)]
         /\ \A h \in Hops : h # k => log'[h] = log[h]
         /\ Len(log'[k]) = Len(log[k]) + 1
         /\ log'[k][Len(log[k]) + 1] = rec
         /\ \A i \in 1 .. Len(log[k]) : log'[k][i] = log[k][i]
<1>1. log[k] \in Seq(Record) /\ log'[k] = Append(log[k], rec)
  OBVIOUS
<1>2. Append(log[k], rec) \in Seq(Record)
  BY <1>1
<1>3. log' \in [Hops -> Seq(Record)]
  BY <1>2
<1>4. /\ Len(Append(log[k], rec)) = Len(log[k]) + 1
      /\ Append(log[k], rec)[Len(log[k]) + 1] = rec
      /\ \A i \in 1 .. Len(log[k]) : Append(log[k], rec)[i] = log[k][i]
  BY <1>1
<1> QED
  BY <1>1, <1>3, <1>4

(* The record a handle call is at, and the one it may write. *)
LEMMA MessageType ==
  ASSUME TypeOK, OffsetsExist, NEW m \in Members, NEW h \in Hops, pc[<<m, h>>] # "fetch"
  PROVE  /\ cur[<<m, h>>] \in 1 .. Len(log[h])
         /\ DOMAIN log[h] = 1 .. Len(log[h])
         /\ Message(m, h) \in Record
         /\ RetryRecord(m, h) \in Record
<1>1. <<m, h>> \in Readers
  BY DEF Readers
<1>2. log[h] \in Seq(Record) /\ cur[<<m, h>>] \in Nat
  BY <1>1 DEF TypeOK
<1>3. cur[<<m, h>>] # 0 /\ cur[<<m, h>>] <= Len(log[h])
  BY DEF OffsetsExist
<1>4. cur[<<m, h>>] \in 1 .. Len(log[h]) /\ DOMAIN log[h] = 1 .. Len(log[h])
  BY <1>2, <1>3
<1>5. Message(m, h) \in Record
  BY <1>2, <1>4 DEF Message
<1> QED
  BY <1>4, <1>5 DEF RetryRecord, attemptFrom, Record

(* A retry goes from a hop below the last to the next one. *)
LEMMA RetryTarget ==
  ASSUME TypeOK, OffsetsExist, HopTells,
         NEW m \in Members, NEW h \in Hops, pc[<<m, h>>] = "retry"
  PROVE  /\ h < MaxRetries
         /\ h + 1 \in Hops
         /\ RetryRecord(m, h).attempt = h + 1
         /\ RetryRecord(m, h).ev = Message(m, h).ev
<1>1. cur[<<m, h>>] \in DOMAIN log[h]
  BY MessageType
<1>2. Message(m, h).attempt = h /\ h < MaxRetries
  BY <1>1 DEF HopTells, Message
<1> QED
  BY <1>2, MaxRetriesPositive DEF RetryRecord, attemptFrom, Hops

(* Typing is preserved. *)
LEMMA TypeStep == TypeOK /\ OffsetsExist /\ HopTells /\ [Next]_vars => TypeOK'
<1> SUFFICES ASSUME TypeOK, OffsetsExist, HopTells, [Next]_vars PROVE TypeOK'
  OBVIOUS
<1>0. MaxRetries \in Nat \ {0} /\ 0 \in Hops
  BY MaxRetriesPositive DEF Hops
<1>1. ASSUME NEW e \in Events, Publish(e) PROVE TypeOK'
  <2>1. Encode(e) \in Record
    BY DEF Record, Encode
  <2>2. log' \in [Hops -> Seq(Record)]
    BY <1>0, <1>1, <2>1, LogAppend DEF Publish, TypeOK
  <2> QED BY <1>1, <2>2 DEF Publish, TypeOK, group, history, bounds
<1>2. ASSUME NEW m \in Members, Leave(m) PROVE TypeOK'
  <2>1. owner' \in [Hops -> Members \cup {NoMember}]
    BY <1>2 DEF Leave, TypeOK
  <2>2. pos' \in [Readers -> Nat] /\ cur' \in [Readers -> Nat]
    BY <1>2 DEF Leave, TypeOK
  <2>3. pc' \in [Readers -> {"fetch", "wait", "dispatch", "retry", "deadLetter", "commit"}]
    BY <1>2 DEF Leave, TypeOK
  <2>4. faults' \in Nat
    BY <1>2 DEF Leave, TypeOK
  <2> QED BY <1>2, <2>1, <2>2, <2>3, <2>4 DEF Leave, TypeOK, topics, history
<1>3. ASSUME NEW m \in Members, NEW h \in Hops, Join(m, h) \/ Rebalance(m, h) PROVE TypeOK'
  <2>1. CASE Join(m, h)
    BY <2>1 DEF Join, TypeOK, topics, history, bounds, Readers
  <2>2. CASE Rebalance(m, h)
    BY <2>2 DEF Rebalance, TypeOK, topics, history, bounds, Readers
  <2> QED BY <1>3, <2>1, <2>2
<1>4. ASSUME NEW m \in Members, NEW h \in Hops, ReaderStep(m, h) PROVE TypeOK'
  <2> DEFINE r == <<m, h>>
  <2>r. r \in Readers
    BY DEF Readers
  <2>1. CASE Fetch(m, h)
    BY <2>1, <2>r DEF Fetch, TypeOK, topics, group, history, bounds
  <2>2. CASE NotBeforePassed(m, h)
    BY <2>2, <2>r DEF NotBeforePassed, TypeOK, topics, group, history, bounds
  <2>3. CASE DecodeFails(m, h)
    BY <2>3, <2>r DEF DecodeFails, Decodes, TypeOK, topics, group, history, bounds
  <2>4. CASE NoHandlers(m, h) \/ HandlersSucceed(m, h)
    <3>1. Message(m, h).ev \in Events
      BY <2>4, MessageType DEF NoHandlers, HandlersSucceed, Record
    <3> QED BY <2>4, <2>r, <3>1 DEF NoHandlers, HandlersSucceed, TypeOK, topics, group, bounds
  <2>5. CASE HandlersFail(m, h)
    <3>1. Message(m, h).ev \in Events
      BY <2>5, MessageType DEF HandlersFail, Record
    <3>2. decideOutcome(attemptFrom(Message(m, h)) + 1, MaxRetries) \in {"retry", "deadLetter"}
      BY DEF decideOutcome
    <3> QED BY <2>5, <2>r, <3>1, <3>2 DEF HandlersFail, TypeOK, topics, group, bounds
  <2>6. CASE WriteRetry(m, h)
    <3>1. /\ RetryRecord(m, h) \in Record /\ h + 1 \in Hops
          /\ RetryRecord(m, h).attempt = h + 1
      BY <2>6, MessageType, RetryTarget DEF WriteRetry
    <3>2. log' \in [Hops -> Seq(Record)]
      BY <2>6, <3>1, LogAppend DEF WriteRetry, TypeOK
    <3> QED BY <2>6, <2>r, <3>2 DEF WriteRetry, TypeOK, group, history, bounds
  <2>7. CASE WriteDeadLetter(m, h)
    <3>1. RetryRecord(m, h) \in Record
      BY <2>7, MessageType DEF WriteDeadLetter
    <3> QED BY <2>7, <2>r, <3>1 DEF WriteDeadLetter, TypeOK, group, history, bounds
  <2>8. CASE WriteFails(m, h)
    <3>1. RetryRecord(m, h) \in Record /\ cur[r] \in Nat
      BY <2>8, <2>r, MessageType DEF WriteFails, TypeOK
    <3>2. log' \in [Hops -> Seq(Record)] /\ dlq' \subseteq Record
      <4>1. CASE UNCHANGED topics
        BY <4>1 DEF topics, TypeOK
      <4>2. CASE pc[r] = "retry" /\ log' = [log EXCEPT ![RetryRecord(m, h).attempt] = Append(@, RetryRecord(m, h))] /\ UNCHANGED dlq
        BY <4>2, <3>1, RetryTarget, LogAppend DEF TypeOK
      <4>3. CASE dlq' = dlq \cup {RetryRecord(m, h)} /\ UNCHANGED log
        BY <4>3, <3>1 DEF TypeOK
      <4> QED BY <2>8, <4>1, <4>2, <4>3 DEF WriteFails
    <3>3. dropped' \subseteq Hops \X Nat
      BY <2>8, <3>1 DEF WriteFails, TypeOK
    <3>4. /\ UNCHANGED <<group, pos, handled, failedAt, faults>>
          /\ writeErrs' = writeErrs + 1
          /\ cur' = [cur EXCEPT ![r] = 0]
          /\ pc' = [pc EXCEPT ![r] = "fetch"]
      BY <2>8 DEF WriteFails
    <3> QED BY <2>r, <3>2, <3>3, <3>4 DEF TypeOK, group
  <2>9. CASE Commit(m, h)
    BY <2>9, <2>r DEF Commit, TypeOK, topics, group, history, bounds
  <2>10. CASE CommitFails(m, h)
    BY <2>10, <2>r DEF CommitFails, TypeOK, topics, group, history, bounds
  <2> QED BY <1>4, <2>1, <2>2, <2>3, <2>4, <2>5, <2>6, <2>7, <2>8, <2>9, <2>10 DEF ReaderStep
<1>5. CASE UNCHANGED vars
  BY <1>5 DEF vars, TypeOK
<1> QED
  BY <1>1, <1>2, <1>3, <1>4, <1>5 DEF Next

-----------------------------------------------------------------------------
(* Topics and histories only grow. *)

Grows ==
  /\ \A h \in Hops :
       /\ Len(log[h]) <= Len(log'[h])
       /\ \A i \in 1 .. Len(log[h]) : log'[h][i] = log[h][i]
  /\ handled \subseteq handled'
  /\ dlq \subseteq dlq'
  /\ dropped \subseteq dropped'
  /\ \A e \in Events : failedAt[e] \subseteq failedAt'[e]

(* The length of a topic is a number. *)
LEMMA LogType ==
  ASSUME TypeOK, NEW h \in Hops
  PROVE  log[h] \in Seq(Record) /\ Len(log[h]) \in Nat /\ DOMAIN log[h] = 1 .. Len(log[h])
BY DEF TypeOK

(* A step appends to the topics and adds to the histories. *)
LEMMA GrowStep == TypeOK /\ OffsetsExist /\ HopTells /\ [Next]_vars => Grows
<1> SUFFICES ASSUME TypeOK, OffsetsExist, HopTells, [Next]_vars PROVE Grows
  OBVIOUS
<1>0. 0 \in Hops
  BY MaxRetriesPositive DEF Hops
<1> DEFINE LogGrows == \A h \in Hops :
             /\ Len(log[h]) <= Len(log'[h])
             /\ \A i \in 1 .. Len(log[h]) : log'[h][i] = log[h][i]
<1>a. ASSUME NEW k \in Hops, NEW rec \in Record, log' = [log EXCEPT ![k] = Append(@, rec)]
      PROVE  LogGrows
  <2>1. /\ \A h \in Hops : h # k => log'[h] = log[h]
        /\ Len(log'[k]) = Len(log[k]) + 1
        /\ \A i \in 1 .. Len(log[k]) : log'[k][i] = log[k][i]
    BY <1>a, LogAppend DEF TypeOK
  <2> QED BY <2>1, LogType
<1>b. ASSUME UNCHANGED log PROVE LogGrows
  BY <1>b, LogType
<1>1. ASSUME NEW e \in Events, Publish(e) PROVE Grows
  <2>1. Encode(e) \in Record
    BY DEF Record, Encode
  <2>2. LogGrows
    BY <1>0, <1>1, <1>a, <2>1 DEF Publish
  <2> QED BY <1>1, <2>2 DEF Publish, Grows, history
<1>2. ASSUME UNCHANGED <<log, dlq, handled, dropped>>,
             \A e \in Events : failedAt[e] \subseteq failedAt'[e]
      PROVE  Grows
  BY <1>2, <1>b DEF Grows
<1>3. ASSUME UNCHANGED <<log, dlq, dropped, failedAt>>, handled \subseteq handled' PROVE Grows
  BY <1>3, <1>b DEF Grows
<1>4. ASSUME NEW m \in Members, NEW h \in Hops, HandlersFail(m, h) PROVE Grows
  <2>1. \A e \in Events : failedAt[e] \subseteq failedAt'[e]
    BY <1>4 DEF HandlersFail, TypeOK
  <2> QED BY <1>2, <1>4, <2>1 DEF HandlersFail, topics
<1>5. ASSUME NEW m \in Members, NEW h \in Hops, WriteRetry(m, h) PROVE Grows
  <2>1. /\ RetryRecord(m, h) \in Record
        /\ RetryRecord(m, h).attempt \in Hops
    BY <1>5, MessageType, RetryTarget DEF WriteRetry
  <2>2. LogGrows
    BY <1>5, <1>a, <2>1 DEF WriteRetry
  <2> QED BY <1>5, <2>2 DEF WriteRetry, Grows, history
<1>6. ASSUME NEW m \in Members, NEW h \in Hops, WriteDeadLetter(m, h) PROVE Grows
  BY <1>6, <1>b DEF WriteDeadLetter, Grows, history
<1>7. ASSUME NEW m \in Members, NEW h \in Hops, WriteFails(m, h) PROVE Grows
  <2>1. LogGrows /\ dlq \subseteq dlq'
    <3>1. CASE UNCHANGED topics
      BY <3>1, <1>b DEF topics
    <3>2. CASE /\ pc[<<m, h>>] = "retry"
               /\ log' = [log EXCEPT ![RetryRecord(m, h).attempt] = Append(@, RetryRecord(m, h))]
               /\ UNCHANGED dlq
      <4>1. RetryRecord(m, h) \in Record /\ RetryRecord(m, h).attempt \in Hops
        BY <3>2, MessageType, RetryTarget
      <4> QED BY <3>2, <4>1, <1>a
    <3>3. CASE dlq' = dlq \cup {RetryRecord(m, h)} /\ UNCHANGED log
      BY <3>3, <1>b
    <3> QED BY <1>7, <3>1, <3>2, <3>3 DEF WriteFails
  <2>2. dropped \subseteq dropped' /\ UNCHANGED <<handled, failedAt>>
    BY <1>7 DEF WriteFails
  <2> QED BY <2>1, <2>2 DEF Grows
<1>8. ASSUME NEW m \in Members, Leave(m) PROVE Grows
  BY <1>3, <1>8 DEF Leave, topics, history
<1>9. ASSUME NEW m \in Members, NEW h \in Hops,
             Join(m, h) \/ Rebalance(m, h) \/ Fetch(m, h) \/ NotBeforePassed(m, h)
               \/ DecodeFails(m, h) \/ NoHandlers(m, h) \/ HandlersSucceed(m, h)
               \/ Commit(m, h) \/ CommitFails(m, h)
      PROVE  Grows
  BY <1>3, <1>9 DEF Join, Rebalance, Fetch, NotBeforePassed, DecodeFails, NoHandlers,
                    HandlersSucceed, Commit, CommitFails, topics, history
<1>10. CASE UNCHANGED vars
  BY <1>3, <1>10 DEF vars
<1> QED
  BY <1>1, <1>4, <1>5, <1>6, <1>7, <1>8, <1>9, <1>10 DEF Next, ReaderStep

(* Offsets stay inside their topics. *)
LEMMA OffsetsStep ==
  TypeOK /\ TypeOK' /\ OffsetsExist /\ Grows /\ [Next]_vars => OffsetsExist'
<1> SUFFICES ASSUME TypeOK, TypeOK', OffsetsExist, Grows, [Next]_vars PROVE OffsetsExist'
  OBVIOUS
<1> DEFINE Sound(n, k) ==
      /\ pos'[<<n, k>>] <= Len(log'[k])
      /\ cur'[<<n, k>>] <= Len(log'[k])
      /\ pc'[<<n, k>>] = "fetch" <=> cur'[<<n, k>>] = 0
<1>g. ASSUME NEW k \in Hops
      PROVE  /\ Len(log[k]) \in Nat /\ Len(log'[k]) \in Nat /\ Len(log[k]) <= Len(log'[k])
             /\ committed[k] \in Nat /\ committed[k] <= Len(log'[k])
  BY LogType DEF TypeOK, Grows, OffsetsExist
<1>k. ASSUME NEW n \in Members, NEW k \in Hops,
             pos'[<<n, k>>] = pos[<<n, k>>], cur'[<<n, k>>] = cur[<<n, k>>],
             pc'[<<n, k>>] = "fetch" <=> pc[<<n, k>>] = "fetch"
      PROVE  Sound(n, k)
  <2>1. <<n, k>> \in Readers
    BY DEF Readers
  <2> QED BY <1>g, <1>k, <2>1 DEF OffsetsExist, TypeOK
<1>1. ASSUME UNCHANGED <<committed, pos, cur>>,
             \A n \in Members, k \in Hops : pc'[<<n, k>>] = "fetch" <=> pc[<<n, k>>] = "fetch"
      PROVE  OffsetsExist'
  BY <1>1, <1>k, <1>g DEF OffsetsExist
<1>2. ASSUME NEW m \in Members, NEW h \in Hops, Join(m, h) \/ Rebalance(m, h) PROVE OffsetsExist'
  <2>1. UNCHANGED <<committed, cur, pc>>
    BY <1>2 DEF Join, Rebalance
  <2>2. pos' = [pos EXCEPT ![<<m, h>>] = committed[h]]
    BY <1>2 DEF Join, Rebalance
  <2>3. ASSUME NEW n \in Members, NEW k \in Hops PROVE Sound(n, k)
    <3>0. <<n, k>> \in Readers
      BY DEF Readers
    <3>1. CASE n = m /\ k = h
      BY <2>1, <2>2, <3>0, <3>1, <1>g DEF OffsetsExist, TypeOK
    <3>2. CASE ~(n = m /\ k = h)
      BY <2>1, <2>2, <3>0, <3>2, <1>k DEF TypeOK
    <3> QED BY <3>1, <3>2
  <2> QED BY <2>1, <2>3, <1>g DEF OffsetsExist
<1>3. ASSUME NEW m \in Members, Leave(m) PROVE OffsetsExist'
  <2>1. ASSUME NEW n \in Members, NEW k \in Hops PROVE Sound(n, k)
    <3>0. <<n, k>> \in Readers /\ <<n, k>>[1] = n
      BY DEF Readers
    <3>1. CASE n = m
      BY <1>3, <3>0, <3>1, <1>g DEF Leave
    <3>2. CASE n # m
      BY <1>3, <3>0, <3>2, <1>k DEF Leave
    <3> QED BY <3>1, <3>2
  <2> QED BY <1>3, <2>1, <1>g DEF Leave, OffsetsExist
<1>4. ASSUME NEW m \in Members, NEW h \in Hops, Fetch(m, h) PROVE OffsetsExist'
  <2>1. ASSUME NEW n \in Members, NEW k \in Hops PROVE Sound(n, k)
    <3>0. <<n, k>> \in Readers
      BY DEF Readers
    <3>1. CASE n = m /\ k = h
      BY <1>4, <3>0, <3>1, <1>g DEF Fetch, TypeOK
    <3>2. CASE ~(n = m /\ k = h)
      BY <1>4, <3>0, <3>2, <1>k DEF Fetch, TypeOK
    <3> QED BY <3>1, <3>2
  <2> QED BY <1>4, <2>1, <1>g DEF Fetch, group, OffsetsExist
<1>5. ASSUME NEW m \in Members, NEW h \in Hops,
             WriteFails(m, h) \/ Commit(m, h) \/ CommitFails(m, h)
      PROVE  OffsetsExist'
  <2>0. /\ cur' = [cur EXCEPT ![<<m, h>>] = 0]
        /\ pc' = [pc EXCEPT ![<<m, h>>] = "fetch"]
        /\ UNCHANGED pos
    BY <1>5 DEF WriteFails, Commit, CommitFails
  <2>1. ASSUME NEW n \in Members, NEW k \in Hops PROVE Sound(n, k)
    <3>0. <<n, k>> \in Readers
      BY DEF Readers
    <3>1. CASE n = m /\ k = h
      BY <2>0, <3>0, <3>1, <1>g DEF TypeOK, OffsetsExist
    <3>2. CASE ~(n = m /\ k = h)
      BY <2>0, <3>0, <3>2, <1>k DEF TypeOK
    <3> QED BY <3>1, <3>2
  <2>2. ASSUME NEW k \in Hops PROVE committed'[k] <= Len(log'[k])
    <3>1. CASE Commit(m, h)
      BY <3>1, <1>g DEF Commit, OffsetsExist, TypeOK
    <3>2. CASE WriteFails(m, h) \/ CommitFails(m, h)
      BY <3>2, <1>g DEF WriteFails, CommitFails, group
    <3> QED BY <1>5, <3>1, <3>2
  <2> QED BY <2>1, <2>2 DEF OffsetsExist
<1>6. ASSUME NEW m \in Members, NEW h \in Hops,
             NotBeforePassed(m, h) \/ DecodeFails(m, h) \/ NoHandlers(m, h)
               \/ HandlersSucceed(m, h) \/ HandlersFail(m, h)
               \/ WriteRetry(m, h) \/ WriteDeadLetter(m, h)
      PROVE  OffsetsExist'
  <2>1. UNCHANGED <<committed, pos, cur>> /\ pc[<<m, h>>] # "fetch"
    BY <1>6 DEF NotBeforePassed, DecodeFails, NoHandlers, HandlersSucceed, HandlersFail,
                WriteRetry, WriteDeadLetter, group
  <2>2. \E v \in {"dispatch", "retry", "deadLetter", "commit"} :
           pc' = [pc EXCEPT ![<<m, h>>] = v]
    BY <1>6 DEF NotBeforePassed, DecodeFails, NoHandlers, HandlersSucceed, HandlersFail,
                WriteRetry, WriteDeadLetter, decideOutcome
  <2>3. ASSUME NEW n \in Members, NEW k \in Hops
        PROVE  pc'[<<n, k>>] = "fetch" <=> pc[<<n, k>>] = "fetch"
    <3>0. <<n, k>> \in Readers
      BY DEF Readers
    <3> QED BY <2>1, <2>2, <3>0 DEF TypeOK
  <2> QED BY <2>1, <2>3, <1>1
<1>7. ASSUME NEW e \in Events, Publish(e) PROVE OffsetsExist'
  BY <1>1, <1>7 DEF Publish, group
<1>8. CASE UNCHANGED vars
  BY <1>1, <1>8 DEF vars
<1> QED
  BY <1>2, <1>3, <1>4, <1>5, <1>6, <1>7, <1>8 DEF Next, ReaderStep

-----------------------------------------------------------------------------
(* What a record's topic says about its history. *)

(* The two halves of HopTells: about a record, about a handle call. *)
RecordTells(h, i) ==
  /\ log[h][i].attempt = h
  /\ \A k \in Hops : k < h => k \in failedAt[log[h][i].ev]

CallTells(m, h) ==
  /\ pc[<<m, h>>] = "retry" => h < MaxRetries /\ h \in failedAt[Message(m, h).ev]
  /\ pc[<<m, h>>] = "deadLetter" /\ Message(m, h).ev \notin Undecodable =>
       h = MaxRetries /\ h \in failedAt[Message(m, h).ev]

(* HopTells is its two halves. *)
LEMMA HopTellsParts ==
  HopTells <=> /\ \A h \in Hops : \A i \in DOMAIN log[h] : RecordTells(h, i)
               /\ \A m \in Members, h \in Hops : CallTells(m, h)
BY DEF HopTells, RecordTells, CallTells

(* The record written by a retry carries the next hop's number, and its    *)
(* event has failed at the hops up to this one.                            *)
LEMMA RetryTells ==
  ASSUME TypeOK, OffsetsExist, HopTells,
         NEW m \in Members, NEW h \in Hops, pc[<<m, h>>] = "retry"
  PROVE  /\ RetryRecord(m, h).attempt = h + 1
         /\ \A k \in Hops : k < h + 1 => k \in failedAt[RetryRecord(m, h).ev]
<1>1. cur[<<m, h>>] \in DOMAIN log[h]
  BY MessageType
<1>2. \A k \in Hops : k < h => k \in failedAt[Message(m, h).ev]
  BY <1>1 DEF HopTells, Message
<1>3. h \in failedAt[Message(m, h).ev]
  BY DEF HopTells
<1>4. RetryRecord(m, h).ev = Message(m, h).ev /\ RetryRecord(m, h).attempt = h + 1
  BY RetryTarget
<1>5. \A k \in Hops : k < h + 1 => k < h \/ k = h
  BY MaxRetriesPositive DEF Hops
<1> QED BY <1>2, <1>3, <1>4, <1>5

(* A message keeps its record while the topics grow. *)
LEMMA MessageKept ==
  ASSUME TypeOK, TypeOK', OffsetsExist, Grows,
         NEW m \in Members, NEW h \in Hops, pc[<<m, h>>] # "fetch",
         cur'[<<m, h>>] = cur[<<m, h>>]
  PROVE  Message(m, h)' = Message(m, h)
BY MessageType DEF Message, Grows

(* Records tell the truth after any step. *)
LEMMA RecordTellsStep ==
  TypeOK /\ TypeOK' /\ OffsetsExist /\ HopTells /\ Grows /\ [Next]_vars
    => \A h \in Hops : \A i \in DOMAIN log'[h] : RecordTells(h, i)'
<1> SUFFICES ASSUME TypeOK, TypeOK', OffsetsExist, HopTells, Grows, [Next]_vars,
                    NEW k \in Hops, NEW i \in DOMAIN log'[k]
             PROVE  RecordTells(k, i)'
  OBVIOUS
<1>0. 0 \in Hops /\ \A h \in Hops : ~(h < 0)
  BY MaxRetriesPositive DEF Hops
<1>t. /\ Len(log[k]) \in Nat /\ DOMAIN log[k] = 1 .. Len(log[k])
      /\ Len(log'[k]) \in Nat /\ DOMAIN log'[k] = 1 .. Len(log'[k])
  <2>1. log[k] \in Seq(Record) /\ log'[k] \in Seq(Record)
    BY DEF TypeOK
  <2> QED BY <2>1
<1>1. CASE i \in DOMAIN log[k]
  <2>1. log'[k][i] = log[k][i] /\ log[k][i] \in Record
    BY <1>1, <1>t, LogType DEF Grows
  <2>2. log[k][i].ev \in Events
    BY <2>1 DEF Record
  <2>3. RecordTells(k, i)
    BY <1>1, HopTellsParts
  <2> QED BY <2>1, <2>2, <2>3 DEF RecordTells, Grows
<1>2. CASE i \notin DOMAIN log[k]
  <2>1. log' # log
    BY <1>2
  <2>2. ASSUME NEW e \in Events, Publish(e) PROVE RecordTells(k, i)'
    <3>1. Encode(e) \in Record /\ log' = [log EXCEPT ![0] = Append(@, Encode(e))]
      BY <2>2 DEF Publish, Record, Encode
    <3>2. /\ \A h \in Hops : h # 0 => log'[h] = log[h]
          /\ Len(log'[0]) = Len(log[0]) + 1
          /\ log'[0][Len(log[0]) + 1] = Encode(e)
      BY <3>1, <1>0, LogAppend DEF TypeOK
    <3>3. k = 0 /\ i = Len(log[0]) + 1
      BY <3>2, <1>2, <1>t
    <3> QED BY <3>2, <3>3, <1>0 DEF RecordTells, Encode
  <2>3. ASSUME NEW m \in Members, NEW h \in Hops, WriteRetry(m, h) \/ WriteFails(m, h)
        PROVE  RecordTells(k, i)'
    <3> DEFINE rec == RetryRecord(m, h)
    <3>1. /\ pc[<<m, h>>] = "retry"
          /\ log' = [log EXCEPT ![rec.attempt] = Append(@, rec)]
          /\ UNCHANGED failedAt
      BY <2>1, <2>3 DEF WriteRetry, WriteFails, topics, history
    <3>2. rec \in Record /\ h + 1 \in Hops /\ rec.attempt = h + 1
      BY <3>1, MessageType, RetryTarget
    <3>3. /\ \A n \in Hops : n # h + 1 => log'[n] = log[n]
          /\ Len(log'[h + 1]) = Len(log[h + 1]) + 1
          /\ log'[h + 1][Len(log[h + 1]) + 1] = rec
      <4> HIDE DEF rec
      <4> QED BY <3>1, <3>2, LogAppend DEF TypeOK
    <3>4. k = h + 1 /\ i = Len(log[h + 1]) + 1
      BY <3>3, <1>2, <1>t
    <3>5. \A n \in Hops : n < h + 1 => n \in failedAt[rec.ev]
      BY <3>1, RetryTells
    <3> QED BY <3>1, <3>2, <3>3, <3>4, <3>5 DEF RecordTells
  <2>4. ASSUME NEW m \in Members, NEW h \in Hops,
               ReaderStep(m, h), ~WriteRetry(m, h), ~WriteFails(m, h)
        PROVE  UNCHANGED log
    BY <2>4 DEF ReaderStep, Fetch, NotBeforePassed, DecodeFails, NoHandlers, HandlersSucceed,
                HandlersFail, WriteDeadLetter, Commit, CommitFails, topics
  <2>5. ASSUME NEW m \in Members, NEW h \in Hops, Leave(m) \/ Join(m, h) \/ Rebalance(m, h)
        PROVE  UNCHANGED log
    BY <2>5 DEF Leave, Join, Rebalance, topics
  <2>6. CASE UNCHANGED vars
    BY <2>1, <2>6 DEF vars
  <2> QED
    BY <1>0, <2>1, <2>2, <2>3, <2>4, <2>5, <2>6 DEF Next
<1> QED BY <1>1, <1>2

(* Handle calls tell the truth after any step. *)
LEMMA CallTellsStep ==
  TypeOK /\ TypeOK' /\ OffsetsExist /\ HopTells /\ Grows /\ [Next]_vars
    => \A m \in Members, h \in Hops : CallTells(m, h)'
<1> SUFFICES ASSUME TypeOK, TypeOK', OffsetsExist, HopTells, Grows, [Next]_vars,
                    NEW n \in Members, NEW k \in Hops
             PROVE  CallTells(n, k)'
  OBVIOUS
<1>r. <<n, k>> \in Readers
  BY DEF Readers
<1>1. ASSUME cur'[<<n, k>>] = cur[<<n, k>>], pc'[<<n, k>>] = pc[<<n, k>>] PROVE CallTells(n, k)'
  <2>1. CASE pc[<<n, k>>] = "fetch"
    BY <1>1, <2>1 DEF CallTells
  <2>2. CASE pc[<<n, k>>] # "fetch"
    <3>1. Message(n, k)' = Message(n, k) /\ Message(n, k) \in Record
      BY <1>1, <2>2, MessageKept, MessageType
    <3>2. Message(n, k).ev \in Events
      BY <3>1 DEF Record
    <3> QED BY <1>1, <3>1, <3>2, HopTellsParts DEF CallTells, Grows
  <2> QED BY <2>1, <2>2
<1>2. ASSUME pc'[<<n, k>>] \notin {"retry", "deadLetter"} PROVE CallTells(n, k)'
  BY <1>2 DEF CallTells
<1>3. ASSUME NEW e \in Events, Publish(e) PROVE CallTells(n, k)'
  BY <1>1, <1>3 DEF Publish
<1>4. ASSUME NEW m \in Members, Leave(m) PROVE CallTells(n, k)'
  <2>1. <<n, k>>[1] = n
    OBVIOUS
  <2> QED BY <1>1, <1>2, <1>4, <1>r, <2>1 DEF Leave
<1>5. ASSUME NEW m \in Members, NEW h \in Hops, Join(m, h) \/ Rebalance(m, h)
      PROVE  CallTells(n, k)'
  BY <1>1, <1>5 DEF Join, Rebalance
<1>6. ASSUME NEW m \in Members, NEW h \in Hops,
             Fetch(m, h) \/ NotBeforePassed(m, h) \/ NoHandlers(m, h) \/ HandlersSucceed(m, h)
               \/ WriteRetry(m, h) \/ WriteDeadLetter(m, h) \/ WriteFails(m, h)
               \/ Commit(m, h) \/ CommitFails(m, h)
      PROVE  CallTells(n, k)'
  <2>1. CASE n = m /\ k = h
    BY <1>2, <1>6, <1>r, <2>1
       DEF Fetch, NotBeforePassed, NoHandlers, HandlersSucceed, WriteRetry, WriteDeadLetter,
           WriteFails, Commit, CommitFails, TypeOK
  <2>2. CASE ~(n = m /\ k = h)
    BY <1>1, <1>6, <1>r, <2>2
       DEF Fetch, NotBeforePassed, NoHandlers, HandlersSucceed, WriteRetry, WriteDeadLetter,
           WriteFails, Commit, CommitFails, TypeOK
  <2> QED BY <2>1, <2>2
<1>7. ASSUME NEW m \in Members, NEW h \in Hops, DecodeFails(m, h) PROVE CallTells(n, k)'
  <2>1. CASE n = m /\ k = h
    <3>1. Message(n, k)' = Message(n, k) /\ Message(n, k).ev \in Undecodable
      BY <1>7, <2>1, MessageKept DEF DecodeFails, Decodes
    <3>2. pc'[<<n, k>>] = "deadLetter"
      BY <1>7, <1>r, <2>1 DEF DecodeFails, Decodes, TypeOK
    <3> QED BY <3>1, <3>2 DEF CallTells
  <2>2. CASE ~(n = m /\ k = h)
    BY <1>1, <1>7, <1>r, <2>2 DEF DecodeFails, Decodes, TypeOK
  <2> QED BY <2>1, <2>2
<1>8. ASSUME NEW m \in Members, NEW h \in Hops, HandlersFail(m, h) PROVE CallTells(n, k)'
  <2>1. CASE n = m /\ k = h
    <3>1. /\ Message(n, k)' = Message(n, k) /\ Message(n, k).ev \in Events
          /\ cur[<<n, k>>] \in DOMAIN log[k]
      BY <1>8, <2>1, MessageKept, MessageType DEF HandlersFail, Record
    <3>2. k \in failedAt'[Message(n, k).ev]
      BY <1>8, <2>1, <3>1 DEF HandlersFail, TypeOK
    <3>3. attemptFrom(Message(n, k)) = k
      BY <3>1 DEF HopTells, attemptFrom, Message
    <3>4. pc'[<<n, k>>] = decideOutcome(k + 1, MaxRetries)
      BY <1>8, <1>r, <2>1, <3>3 DEF HandlersFail, TypeOK
    <3>5. /\ decideOutcome(k + 1, MaxRetries) = "retry" => k < MaxRetries
          /\ decideOutcome(k + 1, MaxRetries) = "deadLetter" => k = MaxRetries
      BY MaxRetriesPositive DEF decideOutcome, Hops
    <3> QED BY <3>1, <3>2, <3>4, <3>5 DEF CallTells
  <2>2. CASE ~(n = m /\ k = h)
    BY <1>1, <1>8, <1>r, <2>2 DEF HandlersFail, TypeOK
  <2> QED BY <2>1, <2>2
<1>9. CASE UNCHANGED vars
  BY <1>1, <1>9 DEF vars
<1> QED
  BY <1>3, <1>4, <1>5, <1>6, <1>7, <1>8, <1>9 DEF Next, ReaderStep

-----------------------------------------------------------------------------
(* What is passed is recorded. *)

(* Outcomes on record stay on record. *)
LEMMA PassedStays ==
  ASSUME TypeOK, TypeOK', Grows, NEW h \in Hops, NEW i \in DOMAIN log[h], Passed(h, i)
  PROVE  Passed(h, i)'
<1>1. log'[h][i] = log[h][i]
  BY LogType DEF Grows
<1>2. ASSUME Settled(log[h][i].ev) PROVE Recorded(h, i)'
  BY <1>1, <1>2 DEF Settled, DeadLettered, Recorded, Grows
<1>3. ASSUME h < MaxRetries, NEW j \in DOMAIN log[h + 1], log[h + 1][j].ev = log[h][i].ev
      PROVE  Recorded(h, i)'
  <2>1. h + 1 \in Hops
    BY <1>3, MaxRetriesPositive DEF Hops
  <2>2. /\ log[h + 1] \in Seq(Record) /\ log'[h + 1] \in Seq(Record)
    BY <2>1 DEF TypeOK
  <2>3. j \in DOMAIN log'[h + 1] /\ log'[h + 1][j] = log[h + 1][j]
    BY <1>3, <2>1, <2>2 DEF Grows
  <2> QED BY <1>1, <1>3, <2>3 DEF Recorded
<1>4. ASSUME <<h, i>> \in dropped PROVE <<h, i>> \in dropped'
  BY <1>4 DEF Grows
<1> QED BY <1>2, <1>3, <1>4 DEF Passed, Recorded

(* The part of ReadIsRecorded about one reader. *)
ReaderRecorded(m, h) ==
  \A i \in DOMAIN log[h] :
     /\ i <= pos[<<m, h>>] /\ i # cur[<<m, h>>] => Passed(h, i)
     /\ i < cur[<<m, h>>] => Passed(h, i)
     /\ i = cur[<<m, h>>] /\ pc[<<m, h>>] = "commit" => Passed(h, i)

(* A reader whose offsets a step leaves alone and which the step does not  *)
(* bring to its commit has still passed only what is recorded.             *)
LEMMA ReaderKept ==
  ASSUME TypeOK, TypeOK', OffsetsExist, Grows, NEW m \in Members, NEW h \in Hops,
         ReaderRecorded(m, h),
         pos'[<<m, h>>] = pos[<<m, h>>], cur'[<<m, h>>] = cur[<<m, h>>],
         pc'[<<m, h>>] = "commit" => pc[<<m, h>>] = "commit"
  PROVE  ReaderRecorded(m, h)'
<1>1. <<m, h>> \in Readers
  BY DEF Readers
<1>2. /\ DOMAIN log[h] = 1 .. Len(log[h]) /\ Len(log[h]) \in Nat
      /\ DOMAIN log'[h] = 1 .. Len(log'[h]) /\ Len(log'[h]) \in Nat
  <2>1. log[h] \in Seq(Record) /\ log'[h] \in Seq(Record)
    BY DEF TypeOK
  <2> QED BY <2>1
<1>3. /\ pos[<<m, h>>] \in Nat /\ cur[<<m, h>>] \in Nat
      /\ pos[<<m, h>>] <= Len(log[h]) /\ cur[<<m, h>>] <= Len(log[h])
  BY <1>1 DEF TypeOK, OffsetsExist
<1>4. ASSUME NEW i \in DOMAIN log'[h], i <= Len(log[h])
      PROVE  i \in DOMAIN log[h] /\ (Passed(h, i) => Passed(h, i)')
  <2>1. i \in DOMAIN log[h]
    BY <1>2, <1>4
  <2> QED BY <2>1, PassedStays
<1>5. ASSUME NEW i \in DOMAIN log'[h], i <= pos[<<m, h>>] \/ i <= cur[<<m, h>>]
      PROVE  i <= Len(log[h])
  BY <1>2, <1>3, <1>5
<1>6. ASSUME NEW i \in DOMAIN log'[h]
      PROVE  /\ i <= pos'[<<m, h>>] /\ i # cur'[<<m, h>>] => Passed(h, i)'
             /\ i < cur'[<<m, h>>] => Passed(h, i)'
             /\ i = cur'[<<m, h>>] /\ pc'[<<m, h>>] = "commit" => Passed(h, i)'
  <2>1. i \in Nat
    BY <1>2
  <2>2. i < cur[<<m, h>>] \/ i = cur[<<m, h>>] => i <= cur[<<m, h>>]
    BY <1>3, <2>1
  <2> QED BY <1>4, <1>5, <2>2 DEF ReaderRecorded
<1> QED BY <1>6 DEF ReaderRecorded

(* Readers pass only what is recorded or dropped. *)
LEMMA ReadStep ==
  ( /\ TypeOK /\ TypeOK' /\ OffsetsExist /\ OffsetsExist' /\ HopTells /\ Grows
    /\ ReadIsRecorded /\ OnlyFailedWritesLose /\ [Next]_vars )
  => ReadIsRecorded'
<1> SUFFICES ASSUME TypeOK, TypeOK', OffsetsExist, OffsetsExist', HopTells, Grows,
                    ReadIsRecorded, OnlyFailedWritesLose, [Next]_vars
             PROVE  ReadIsRecorded'
  OBVIOUS
<1> SUFFICES ASSUME NEW n \in Members, NEW k \in Hops PROVE ReaderRecorded(n, k)'
  BY DEF ReadIsRecorded, ReaderRecorded
<1>r. <<n, k>> \in Readers
  BY DEF Readers
<1>b. ReaderRecorded(n, k)
  BY DEF ReadIsRecorded, ReaderRecorded
<1>t. /\ DOMAIN log[k] = 1 .. Len(log[k]) /\ Len(log[k]) \in Nat
      /\ DOMAIN log'[k] = 1 .. Len(log'[k]) /\ Len(log'[k]) \in Nat
      /\ pos[<<n, k>>] \in Nat /\ cur[<<n, k>>] \in Nat
  <2>1. log[k] \in Seq(Record) /\ log'[k] \in Seq(Record)
    BY DEF TypeOK
  <2> QED BY <1>r, <2>1 DEF TypeOK
<1>k. ASSUME pos'[<<n, k>>] = pos[<<n, k>>], cur'[<<n, k>>] = cur[<<n, k>>],
             pc'[<<n, k>>] = "commit" => pc[<<n, k>>] = "commit"
      PROVE  ReaderRecorded(n, k)'
  BY <1>k, <1>b, ReaderKept
<1>1. ASSUME NEW e \in Events, Publish(e) PROVE ReaderRecorded(n, k)'
  BY <1>1, <1>k DEF Publish
<1>2. ASSUME NEW m \in Members, Leave(m) PROVE ReaderRecorded(n, k)'
  <2>0. <<n, k>>[1] = n
    OBVIOUS
  <2>1. CASE n = m
    <3>1. pos'[<<n, k>>] = 0 /\ cur'[<<n, k>>] = 0 /\ pc'[<<n, k>>] = "fetch"
      BY <1>2, <1>r, <2>0, <2>1 DEF Leave
    <3> QED BY <3>1, <1>t DEF ReaderRecorded
  <2>2. CASE n # m
    BY <1>2, <1>r, <1>k, <2>0, <2>2 DEF Leave
  <2> QED BY <2>1, <2>2
<1>3. ASSUME NEW m \in Members, NEW h \in Hops, Join(m, h) \/ Rebalance(m, h)
      PROVE  ReaderRecorded(n, k)'
  <2>1. UNCHANGED <<log, cur, pc>> /\ pos' = [pos EXCEPT ![<<m, h>>] = committed[h]]
    BY <1>3 DEF Join, Rebalance, topics
  <2>2. CASE n = m /\ k = h
    <3>1. pos'[<<n, k>>] = committed[k]
      BY <2>1, <2>2, <1>r DEF TypeOK
    <3>2. \A i \in DOMAIN log[k] : i <= committed[k] => Passed(k, i)
      BY DEF OnlyFailedWritesLose, Passed
    <3>3. \A i \in DOMAIN log[k] : Passed(k, i) => Passed(k, i)'
      BY PassedStays
    <3> QED BY <2>1, <3>1, <3>2, <3>3, <1>b DEF ReaderRecorded
  <2>3. CASE ~(n = m /\ k = h)
    BY <1>3, <1>k, <1>r, <2>1, <2>3 DEF TypeOK
  <2> QED BY <2>2, <2>3
<1>4. ASSUME NEW m \in Members, NEW h \in Hops, ReaderStep(m, h), ~(n = m /\ k = h)
      PROVE  ReaderRecorded(n, k)'
  <2>1. /\ pos'[<<n, k>>] = pos[<<n, k>>]
        /\ cur'[<<n, k>>] = cur[<<n, k>>]
        /\ pc'[<<n, k>>] = pc[<<n, k>>]
    BY <1>4, <1>r DEF ReaderStep, Fetch, NotBeforePassed, DecodeFails, NoHandlers, HandlersSucceed,
       HandlersFail, WriteRetry, WriteDeadLetter, WriteFails, Commit, CommitFails, TypeOK
  <2> QED BY <2>1, <1>k
<1>5. CASE ReaderStep(n, k)
  <2>p. \A i \in DOMAIN log[k] : Passed(k, i) => Passed(k, i)'
    BY PassedStays
  <2>1. CASE Fetch(n, k)
    <3>1. /\ cur[<<n, k>>] = 0 /\ log' = log
          /\ pos'[<<n, k>>] = pos[<<n, k>>] + 1
          /\ cur'[<<n, k>>] = pos[<<n, k>>] + 1
          /\ pc'[<<n, k>>] # "commit"
      BY <2>1, <1>r DEF Fetch, OffsetsExist, TypeOK, topics
    <3>2. ASSUME NEW i \in DOMAIN log[k], i <= pos[<<n, k>>] PROVE Passed(k, i)'
      BY <3>1, <3>2, <1>b, <1>t, <2>p DEF ReaderRecorded
    <3>3. \A i \in DOMAIN log[k] :
            (i <= pos[<<n, k>>] + 1 /\ i # pos[<<n, k>>] + 1) \/ i < pos[<<n, k>>] + 1
              => i <= pos[<<n, k>>]
      BY <1>t
    <3> QED BY <3>1, <3>2, <3>3 DEF ReaderRecorded
  <2>2. CASE NotBeforePassed(n, k) \/ DecodeFails(n, k) \/ HandlersFail(n, k)
    BY <2>2, <1>k, <1>r DEF NotBeforePassed, DecodeFails, HandlersFail, decideOutcome, TypeOK
  <2>3. CASE NoHandlers(n, k) \/ HandlersSucceed(n, k) \/ WriteRetry(n, k) \/ WriteDeadLetter(n, k)
    <3>1. /\ pos'[<<n, k>>] = pos[<<n, k>>] /\ cur'[<<n, k>>] = cur[<<n, k>>]
          /\ pc[<<n, k>>] # "fetch"
      BY <2>3 DEF NoHandlers, HandlersSucceed, WriteRetry, WriteDeadLetter
    <3>2. /\ cur[<<n, k>>] \in DOMAIN log[k]
          /\ Message(n, k) = log[k][cur[<<n, k>>]]
          /\ log'[k][cur[<<n, k>>]] = log[k][cur[<<n, k>>]]
          /\ RetryRecord(n, k).ev = Message(n, k).ev
          /\ RetryRecord(n, k) \in Record
      BY <3>1, MessageType DEF Message, Grows, RetryRecord
    <3>3. Passed(k, cur[<<n, k>>])'
      <4>1. CASE NoHandlers(n, k) \/ HandlersSucceed(n, k)
        <5>1. Message(n, k).ev \in handled'
          BY <4>1 DEF NoHandlers, HandlersSucceed
        <5> QED BY <5>1, <3>1, <3>2 DEF Passed, Recorded, Settled
      <4>2. CASE WriteDeadLetter(n, k)
        <5>1. RetryRecord(n, k) \in dlq'
          BY <4>2 DEF WriteDeadLetter
        <5>2. \E d \in dlq' : d.ev = log'[k][cur[<<n, k>>]].ev
          BY <5>1, <3>2
        <5> QED BY <5>2, <3>1 DEF Passed, Recorded, Settled, DeadLettered
      <4>3. CASE WriteRetry(n, k)
        <5> DEFINE rec == RetryRecord(n, k)
        <5>1. k < MaxRetries /\ k + 1 \in Hops /\ rec.attempt = k + 1
          BY <4>3, RetryTarget DEF WriteRetry
        <5>2. log' = [log EXCEPT ![rec.attempt] = Append(@, rec)]
          BY <4>3 DEF WriteRetry
        <5>3. /\ Len(log'[k + 1]) = Len(log[k + 1]) + 1
              /\ log'[k + 1][Len(log[k + 1]) + 1] = rec
          <6>1. rec \in Record
            BY <3>2
          <6> HIDE DEF rec
          <6> QED BY <5>1, <5>2, <6>1, LogAppend DEF TypeOK
        <5>4. Len(log[k + 1]) + 1 \in DOMAIN log'[k + 1]
          <6>1. log[k + 1] \in Seq(Record) /\ log'[k + 1] \in Seq(Record)
            BY <5>1 DEF TypeOK
          <6> QED BY <5>3, <6>1
        <5>5. \E j \in DOMAIN log'[k + 1] : log'[k + 1][j].ev = log'[k][cur[<<n, k>>]].ev
          BY <3>2, <5>3, <5>4
        <5> QED BY <5>1, <5>5, <3>1 DEF Passed, Recorded
      <4> QED BY <2>3, <4>1, <4>2, <4>3
    <3>4. ASSUME NEW i \in DOMAIN log'[k], i <= pos[<<n, k>>] \/ i < cur[<<n, k>>]
          PROVE  i \in DOMAIN log[k]
      BY <1>t, <3>2, <3>4 DEF OffsetsExist
    <3>5. ASSUME NEW i \in DOMAIN log'[k]
          PROVE  /\ i <= pos'[<<n, k>>] /\ i # cur'[<<n, k>>] => Passed(k, i)'
                 /\ i < cur'[<<n, k>>] => Passed(k, i)'
      BY <1>b, <2>p, <3>1, <3>4 DEF ReaderRecorded
    <3>6. ASSUME NEW i \in DOMAIN log'[k], i = cur'[<<n, k>>] PROVE Passed(k, i)'
      BY <3>1, <3>3, <3>6
    <3> QED BY <3>5, <3>6 DEF ReaderRecorded
  <2>4. CASE WriteFails(n, k) \/ Commit(n, k) \/ CommitFails(n, k)
    <3>1. /\ pos'[<<n, k>>] = pos[<<n, k>>] /\ cur'[<<n, k>>] = 0 /\ pc'[<<n, k>>] = "fetch"
      BY <2>4, <1>r DEF WriteFails, Commit, CommitFails, TypeOK
    <3>2. ASSUME NEW i \in DOMAIN log'[k], i <= pos[<<n, k>>] PROVE Passed(k, i)'
      <4>1. i \in DOMAIN log[k]
        BY <1>t, <3>2 DEF OffsetsExist
      <4>2. CASE i # cur[<<n, k>>]
        BY <1>b, <2>p, <3>2, <4>1, <4>2 DEF ReaderRecorded
      <4>3. CASE i = cur[<<n, k>>]
        <5>1. CASE WriteFails(n, k)
          BY <4>3, <5>1 DEF WriteFails, Passed
        <5>2. CASE Commit(n, k) \/ CommitFails(n, k)
          BY <1>b, <2>p, <4>1, <4>3, <5>2 DEF Commit, CommitFails, ReaderRecorded
        <5> QED BY <2>4, <5>1, <5>2
      <4> QED BY <4>2, <4>3
    <3> QED BY <1>t, <3>1, <3>2 DEF ReaderRecorded
  <2> QED BY <1>5, <2>1, <2>2, <2>3, <2>4 DEF ReaderStep
<1>6. CASE UNCHANGED vars
  BY <1>6, <1>k DEF vars
<1> QED
  BY <1>1, <1>2, <1>3, <1>4, <1>5, <1>6 DEF Next

(* No offset is committed past a record that is neither recorded nor       *)
(* dropped.                                                                *)
LEMMA CommitStep ==
  TypeOK /\ TypeOK' /\ OffsetsExist /\ Grows /\ ReadIsRecorded /\ OnlyFailedWritesLose /\ [Next]_vars
    => OnlyFailedWritesLose'
<1> SUFFICES ASSUME TypeOK, TypeOK', OffsetsExist, Grows, ReadIsRecorded, OnlyFailedWritesLose,
                    [Next]_vars, NEW k \in Hops, NEW i \in DOMAIN log'[k], i <= committed'[k]
             PROVE  Passed(k, i)'
  BY DEF OnlyFailedWritesLose, Passed
<1>t. /\ DOMAIN log[k] = 1 .. Len(log[k]) /\ Len(log[k]) \in Nat /\ committed[k] \in Nat
      /\ DOMAIN log'[k] = 1 .. Len(log'[k]) /\ Len(log'[k]) \in Nat
  <2>1. log[k] \in Seq(Record) /\ log'[k] \in Seq(Record)
    BY DEF TypeOK
  <2> QED BY <2>1 DEF TypeOK
<1>1. CASE i <= committed[k]
  <2>1. i \in DOMAIN log[k]
    BY <1>1, <1>t DEF OffsetsExist
  <2>2. Passed(k, i)
    BY <1>1, <2>1 DEF OnlyFailedWritesLose, Passed
  <2> QED BY <2>1, <2>2, PassedStays
<1>2. ASSUME NEW m \in Members, NEW h \in Hops, Commit(m, h) PROVE Passed(k, i)'
  <2>1. CASE k = h
    <3>1. /\ committed'[k] = cur[<<m, k>>] /\ pc[<<m, k>>] = "commit"
      BY <1>2, <2>1 DEF Commit, TypeOK
    <3>2. <<m, k>> \in Readers /\ cur[<<m, k>>] \in Nat /\ cur[<<m, k>>] <= Len(log[k])
      BY DEF Readers, TypeOK, OffsetsExist
    <3>3. i \in DOMAIN log[k] /\ (i < cur[<<m, k>>] \/ i = cur[<<m, k>>])
      BY <1>t, <3>1, <3>2
    <3>4. Passed(k, i)
      BY <3>1, <3>3 DEF ReadIsRecorded
    <3> QED BY <3>3, <3>4, PassedStays
  <2>2. CASE k # h
    BY <1>1, <1>2, <2>2 DEF Commit, TypeOK
  <2> QED BY <2>1, <2>2
<1>3. CASE UNCHANGED committed
  BY <1>1, <1>3
<1>4. ASSUME NEW m \in Members, NEW h \in Hops, ReaderStep(m, h), ~Commit(m, h)
      PROVE  UNCHANGED committed
  BY <1>4 DEF ReaderStep, Fetch, NotBeforePassed, DecodeFails, NoHandlers, HandlersSucceed,
              HandlersFail, WriteRetry, WriteDeadLetter, WriteFails, CommitFails, group
<1>6. ASSUME NEW e \in Events, Publish(e) PROVE UNCHANGED committed
  BY <1>6 DEF Publish, group
<1>7. ASSUME NEW m \in Members, Leave(m) PROVE UNCHANGED committed
  BY <1>7 DEF Leave
<1>8. ASSUME NEW m \in Members, NEW h \in Hops, Join(m, h) \/ Rebalance(m, h)
      PROVE  UNCHANGED committed
  BY <1>8 DEF Join, Rebalance
<1>9. CASE UNCHANGED vars
  BY <1>3, <1>9 DEF vars
<1> QED
  BY <1>2, <1>3, <1>4, <1>6, <1>7, <1>8, <1>9 DEF Next

(* Dead-lettered events have failed everywhere. *)
LEMMA DeadLetterStep ==
  ( /\ TypeOK /\ TypeOK' /\ OffsetsExist /\ HopTells /\ Grows
    /\ DeadLetteredAfterAllTries /\ [Next]_vars )
  => DeadLetteredAfterAllTries'
<1> SUFFICES ASSUME TypeOK, TypeOK', OffsetsExist, HopTells, Grows, DeadLetteredAfterAllTries,
                    [Next]_vars
             PROVE  DeadLetteredAfterAllTries'
  OBVIOUS
<1> SUFFICES ASSUME NEW d \in dlq', d.ev \notin Undecodable
             PROVE  failedAt'[d.ev] = Hops /\ d.attempt = MaxRetries + 1
  BY DEF DeadLetteredAfterAllTries
<1>1. d.ev \in Events
  BY DEF TypeOK, Record
<1>2. failedAt[d.ev] \subseteq failedAt'[d.ev] /\ failedAt'[d.ev] \subseteq Hops
  BY <1>1 DEF Grows, TypeOK
<1>3. CASE d \in dlq
  BY <1>2, <1>3 DEF DeadLetteredAfterAllTries
<1>4. CASE d \notin dlq
  <2>1. ASSUME NEW m \in Members, NEW h \in Hops, WriteDeadLetter(m, h) \/ WriteFails(m, h)
        PROVE  failedAt'[d.ev] = Hops /\ d.attempt = MaxRetries + 1
    <3>1. pc[<<m, h>>] = "deadLetter" /\ d = RetryRecord(m, h)
      BY <1>4, <2>1 DEF WriteDeadLetter, WriteFails, topics
    <3>2. d.ev = Message(m, h).ev /\ d.attempt = Message(m, h).attempt + 1
      BY <3>1 DEF RetryRecord, attemptFrom
    <3>3. h = MaxRetries /\ h \in failedAt[Message(m, h).ev]
      BY <3>1, <3>2 DEF HopTells
    <3>4. cur[<<m, h>>] \in DOMAIN log[h]
      BY <3>1, MessageType
    <3>5. Message(m, h).attempt = h /\ \A k \in Hops : k < h => k \in failedAt[Message(m, h).ev]
      BY <3>4 DEF HopTells, Message
    <3>6. \A k \in Hops : k < MaxRetries \/ k = MaxRetries
      BY MaxRetriesPositive DEF Hops
    <3> QED BY <1>2, <3>2, <3>3, <3>5, <3>6
  <2>2. ASSUME NEW m \in Members, NEW h \in Hops,
               ReaderStep(m, h), ~WriteDeadLetter(m, h), ~WriteFails(m, h)
        PROVE  UNCHANGED dlq
    BY <2>2 DEF ReaderStep, Fetch, NotBeforePassed, DecodeFails, NoHandlers, HandlersSucceed,
                HandlersFail, WriteRetry, Commit, CommitFails, topics
  <2>3. ASSUME NEW e \in Events, Publish(e) PROVE UNCHANGED dlq
    BY <2>3 DEF Publish
  <2>4. ASSUME NEW m \in Members, Leave(m) PROVE UNCHANGED dlq
    BY <2>4 DEF Leave, topics
  <2>5. ASSUME NEW m \in Members, NEW h \in Hops, Join(m, h) \/ Rebalance(m, h)
        PROVE  UNCHANGED dlq
    BY <2>5 DEF Join, Rebalance, topics
  <2>6. CASE UNCHANGED vars
    BY <1>4, <2>6 DEF vars
  <2> QED
    BY <1>4, <2>1, <2>2, <2>3, <2>4, <2>5, <2>6 DEF Next
<1> QED BY <1>3, <1>4

-----------------------------------------------------------------------------
(* The invariant and what follows from it. *)

GroupInv ==
  /\ TypeOK
  /\ OffsetsExist
  /\ HopTells
  /\ ReadIsRecorded
  /\ OnlyFailedWritesLose
  /\ DeadLetteredAfterAllTries

(* The invariant holds in every reachable state. *)
LEMMA GroupInvariant == Spec => []GroupInv
<1>1. Init => GroupInv
  <2> SUFFICES ASSUME Init PROVE GroupInv
    OBVIOUS
  <2>0. \A m \in Members, h \in Hops : <<m, h>> \in Readers
    BY DEF Readers
  <2>1. TypeOK
    <3>1. log \in [Hops -> Seq(Record)]
      BY DEF Init
    <3>2. /\ dlq \subseteq Record /\ handled \subseteq Events
          /\ dropped \subseteq Hops \X Nat /\ failedAt \in [Events -> SUBSET Hops]
          /\ faults \in Nat /\ writeErrs \in Nat
      BY DEF Init
    <3>3. /\ committed \in [Hops -> Nat] /\ owner \in [Hops -> Members \cup {NoMember}]
          /\ pos \in [Readers -> Nat] /\ cur \in [Readers -> Nat]
      BY DEF Init
    <3>4. pc \in [Readers -> {"fetch", "wait", "dispatch", "retry", "deadLetter", "commit"}]
      BY DEF Init
    <3> QED BY <3>1, <3>2, <3>3, <3>4 DEF TypeOK
  <2>2. \A h \in Hops : log[h] = << >> /\ DOMAIN log[h] = {} /\ Len(log[h]) = 0
    BY DEF Init
  <2>3. OffsetsExist
    BY <2>0, <2>2 DEF Init, OffsetsExist
  <2>4. HopTells
    BY <2>0, <2>2 DEF Init, HopTells
  <2>5. ReadIsRecorded /\ OnlyFailedWritesLose
    BY <2>2 DEF ReadIsRecorded, OnlyFailedWritesLose
  <2>6. DeadLetteredAfterAllTries
    BY DEF Init, DeadLetteredAfterAllTries
  <2> QED BY <2>1, <2>3, <2>4, <2>5, <2>6 DEF GroupInv
<1>2. GroupInv /\ [Next]_vars => GroupInv'
  <2> SUFFICES ASSUME GroupInv, [Next]_vars PROVE GroupInv'
    OBVIOUS
  <2>1. TypeOK /\ OffsetsExist /\ HopTells /\ ReadIsRecorded /\ OnlyFailedWritesLose
        /\ DeadLetteredAfterAllTries
    BY DEF GroupInv
  <2>2. TypeOK' /\ Grows
    BY <2>1, TypeStep, GrowStep
  <2>3. OffsetsExist'
    BY <2>1, <2>2, OffsetsStep
  <2>4. HopTells'
    <3>1. (HopTells <=> /\ \A h \in Hops : \A i \in DOMAIN log[h] : RecordTells(h, i)
                        /\ \A m \in Members, h \in Hops : CallTells(m, h))'
      BY HopTellsParts, PTL
    <3> QED BY <2>1, <2>2, <3>1, RecordTellsStep, CallTellsStep
  <2>5. ReadIsRecorded'
    BY <2>1, <2>2, <2>3, ReadStep
  <2>6. OnlyFailedWritesLose' /\ DeadLetteredAfterAllTries'
    BY <2>1, <2>2, CommitStep, DeadLetterStep
  <2> QED BY <2>2, <2>3, <2>4, <2>5, <2>6 DEF GroupInv
<1> QED
  BY <1>1, <1>2, PTL DEF Spec

(* Type correctness, with the bookkeeping of offsets it depends on. *)
THEOREM ConsumerTypeCorrect == Spec => []TypeOK
BY GroupInvariant, PTL DEF GroupInv

(* Whatever rebalances, crashes, failing writes and failing commits do, a  *)
(* committed offset only passes records whose outcome is recorded, or      *)
(* whose own write to a retry or dead-letter topic failed.                 *)
THEOREM CommitsLoseOnlyDropped == Spec => []OnlyFailedWritesLose
BY GroupInvariant, PTL DEF GroupInv

(* "maxRetries+1 tries overall", for any MaxRetries: nothing that decodes  *)
(* is dead-lettered before it has failed on every hop.                     *)
THEOREM AllTriesBeforeDeadLetter == Spec => []DeadLetteredAfterAllTries
BY GroupInvariant, PTL DEF GroupInv

(* While no write to a retry or dead-letter topic fails, the promise of    *)
(* consumer.go:15-18 holds: a committed offset only passes recorded        *)
(* outcomes.                                                               *)
THEOREM NoLossWithoutWriteErrors ==
  ASSUME MaxWriteErrs = 0 PROVE Spec => []CommittedIsRecorded
<1> DEFINE NoneDropped == dropped = {} /\ writeErrs \in Nat
<1>1. Init => NoneDropped
  BY DEF Init
<1>2. NoneDropped /\ [Next]_vars => NoneDropped'
  <2> SUFFICES ASSUME NoneDropped, [Next]_vars PROVE NoneDropped'
    OBVIOUS
  <2>1. ASSUME NEW m \in Members, NEW h \in Hops, WriteFails(m, h) PROVE FALSE
    BY <2>1 DEF WriteFails
  <2>2. ASSUME NEW m \in Members, NEW h \in Hops, ReaderStep(m, h)
        PROVE  UNCHANGED <<dropped, writeErrs>>
    BY <2>1, <2>2 DEF ReaderStep, Fetch, NotBeforePassed, DecodeFails, NoHandlers,
       HandlersSucceed, HandlersFail, WriteRetry, WriteDeadLetter, Commit, CommitFails,
       history, bounds
  <2>3. ASSUME NEW m \in Members, NEW h \in Hops, Join(m, h) \/ Rebalance(m, h)
        PROVE  UNCHANGED <<dropped, writeErrs>>
    BY <2>3 DEF Join, Rebalance, history, bounds
  <2>4. ASSUME NEW e \in Events, Publish(e) PROVE UNCHANGED <<dropped, writeErrs>>
    BY <2>4 DEF Publish, history, bounds
  <2>5. ASSUME NEW m \in Members, Leave(m) PROVE UNCHANGED <<dropped, writeErrs>>
    BY <2>5 DEF Leave, history
  <2> QED BY <2>2, <2>3, <2>4, <2>5 DEF Next, vars
<1>3. NoneDropped /\ GroupInv => CommittedIsRecorded
  BY DEF GroupInv, OnlyFailedWritesLose, CommittedIsRecorded
<1> QED
  BY <1>1, <1>2, <1>3, GroupInvariant, PTL DEF Spec

(* Each failing write drops one record at most. *)
Charged == IsFiniteSet(dropped) /\ Cardinality(dropped) <= writeErrs /\ writeErrs \in Nat

LEMMA ChargedStep == Charged /\ [Next]_vars => Charged'
<1> SUFFICES ASSUME Charged, [Next]_vars PROVE Charged'
  OBVIOUS
<1>1. ASSUME NEW m \in Members, NEW h \in Hops, WriteFails(m, h) PROVE Charged'
  <2>1. PICK x : dropped' = dropped \cup {x} /\ writeErrs' = writeErrs + 1
    BY <1>1 DEF WriteFails
  <2>2. IsFiniteSet(dropped \cup {x})
    BY FS_AddElement DEF Charged
  <2>3. Cardinality(dropped \cup {x}) \in {Cardinality(dropped), Cardinality(dropped) + 1}
    BY FS_AddElement DEF Charged
  <2>4. Cardinality(dropped) \in Nat
    BY FS_CardinalityType DEF Charged
  <2> QED BY <2>1, <2>2, <2>3, <2>4 DEF Charged
<1>2. ASSUME UNCHANGED <<dropped, writeErrs>> PROVE Charged'
  BY <1>2 DEF Charged
<1>3. ASSUME NEW m \in Members, NEW h \in Hops, ReaderStep(m, h)
      PROVE  WriteFails(m, h) \/ UNCHANGED <<dropped, writeErrs>>
  BY <1>3 DEF ReaderStep, Fetch, NotBeforePassed, DecodeFails, NoHandlers,
     HandlersSucceed, HandlersFail, WriteRetry, WriteDeadLetter, Commit, CommitFails,
     history, bounds
<1>4. ASSUME NEW m \in Members, NEW h \in Hops, Join(m, h) \/ Rebalance(m, h)
      PROVE  UNCHANGED <<dropped, writeErrs>>
  BY <1>4 DEF Join, Rebalance, history, bounds
<1>5. ASSUME NEW e \in Events, Publish(e) PROVE UNCHANGED <<dropped, writeErrs>>
  BY <1>5 DEF Publish, history, bounds
<1>6. ASSUME NEW m \in Members, Leave(m) PROVE UNCHANGED <<dropped, writeErrs>>
  BY <1>6 DEF Leave, history
<1> QED BY <1>1, <1>2, <1>3, <1>4, <1>5, <1>6 DEF Next, vars

(* As many records at most as writes have failed are passed by a commit    *)
(* with no trace, whatever else fails and however commits overtake them.   *)
THEOREM EachLossIsAFailedWrite == Spec => []LossesPaidFor
<1>1. Init => Charged
  BY FS_EmptySet DEF Init, Charged
<1>2. GroupInv /\ Charged => LossesPaidFor
  <2> SUFFICES ASSUME OnlyFailedWritesLose, Charged PROVE LossesPaidFor
    BY DEF GroupInv
  <2>1. Lost \subseteq dropped
    BY DEF Lost, OnlyFailedWritesLose
  <2>2. IsFiniteSet(Lost) /\ Cardinality(Lost) <= Cardinality(dropped)
    BY <2>1, FS_Subset DEF Charged
  <2>3. Cardinality(Lost) \in Nat /\ Cardinality(dropped) \in Nat
    BY <2>2, FS_CardinalityType DEF Charged
  <2> QED BY <2>2, <2>3 DEF LossesPaidFor, Charged
<1> QED BY <1>1, <1>2, ChargedStep, GroupInvariant, PTL DEF Spec

-----------------------------------------------------------------------------
(* The consumer implements Delivery.                                       *)

(* A set of hops that has the first one and with each one the next has the *)
(* last: else consider the smallest it lacks.                              *)
LEMMA ReachesLast ==
  ASSUME NEW n \in Nat, NEW H \in SUBSET (0 .. n), 0 \in H,
         \A h \in H : h < n => h + 1 \in H
  PROVE  n \in H
<1> SUFFICES ASSUME n \notin H PROVE FALSE
  OBVIOUS
<1> DEFINE R == OpToRel(<, Nat)  T == (0 .. n) \ H
<1>1. T \subseteq Nat /\ T # {}
  OBVIOUS
<1>2. IsWellFoundedOn(R, Nat)
  BY NatLessThanWellFounded
<1>3. \A x, y \in Nat : <<y, x>> \in R <=> y < x
  BY DEF OpToRel
<1> HIDE DEF R, T
<1>4. PICK x \in T : \A y \in T : ~(<<y, x>> \in R)
  BY <1>1, <1>2, WFMin
<1>5. x \in Nat /\ x # 0 /\ x - 1 \notin T
  <2>1. x \in Nat
    BY <1>1
  <2>2. x # 0
    BY DEF T
  <2>3. x - 1 \in Nat /\ x - 1 < x
    BY <2>1, <2>2
  <2>4. <<x - 1, x>> \in R
    BY <1>3, <2>1, <2>3
  <2> QED BY <1>4, <2>1, <2>2, <2>4
<1>6. x \in 0 .. n /\ x \notin H
  BY <1>4 DEF T
<1>7. x - 1 \in 0 .. n
  BY <1>5, <1>6
<1>8. x - 1 \in H
  BY <1>5, <1>7 DEF T
<1>9. x - 1 < n /\ (x - 1) + 1 = x
  BY <1>6
<1> QED BY <1>6, <1>8, <1>9

(* Nothing is on a topic or settled that no producer has published. *)
FromProducers ==
  /\ \A h \in Hops : \A i \in DOMAIN log[h] : log[h][i].ev \in Published
  /\ \A e \in Events : Settled(e) => e \in Published

(* The invariants under which a commit never drops a responsibility. *)
CarrierInv == GroupInv /\ CommittedIsRecorded /\ FromProducers

(* The offsets have passed all records of an event only if it is settled:  *)
(* on the hops before the last, what is recorded is a record of the next.  *)
LEMMA PassedIsSettled == CarrierInv => \A e \in Published \ Outstanding : Settled(e)
<1> SUFFICES ASSUME CarrierInv, NEW e \in Published, e \notin Outstanding
             PROVE  Settled(e)
  OBVIOUS
<1>1. MaxRetries \in Nat /\ Hops = 0 .. MaxRetries /\ 0 \in Hops /\ e \in Events
  BY MaxRetriesPositive DEF Hops, Published
<1>2. \A h \in Hops : DOMAIN log[h] \subseteq Nat /\ committed[h] \in Nat
  <2>1. TypeOK
    BY DEF CarrierInv, GroupInv
  <2> QED BY <2>1, LogType DEF TypeOK
<1> DEFINE H == {h \in Hops : \E i \in DOMAIN log[h] : log[h][i].ev = e}
<1>3. ASSUME NEW h \in H, ~Settled(e) PROVE h < MaxRetries /\ h + 1 \in H
  <2>1. PICK i \in DOMAIN log[h] : log[h][i].ev = e
    OBVIOUS
  <2>2. i <= committed[h]
    BY <1>1, <1>2, <2>1 DEF Outstanding
  <2>3. Recorded(h, i)
    BY <2>2 DEF CarrierInv, CommittedIsRecorded
  <2>4. h < MaxRetries /\ \E j \in DOMAIN log[h + 1] : log[h + 1][j].ev = e
    BY <1>3, <2>1, <2>3 DEF Recorded
  <2> QED BY <1>1, <2>4
<1>4. 0 \in H /\ H \in SUBSET (0 .. MaxRetries)
  BY <1>1 DEF Published
<1> HIDE DEF H
<1>5. ASSUME ~Settled(e) PROVE FALSE
  <2>1. MaxRetries \in H
    BY <1>1, <1>3, <1>4, <1>5, ReachesLast
  <2> QED BY <1>1, <1>3, <1>5, <2>1
<1> QED BY <1>5

(* One more record on one topic. *)
LEMMA OneMoreRecord ==
  ASSUME TypeOK, OffsetsExist, NEW k \in Hops, NEW rec \in Record,
         log' = [log EXCEPT ![k] = Append(@, rec)], committed' = committed
  PROVE  /\ Outstanding' = Outstanding \cup {rec.ev}
         /\ Published' = IF k = 0 THEN Published \cup {rec.ev} ELSE Published
<1>1. /\ \A h \in Hops : h # k => log'[h] = log[h]
      /\ Len(log'[k]) = Len(log[k]) + 1
      /\ log'[k][Len(log[k]) + 1] = rec
      /\ \A i \in 1 .. Len(log[k]) : log'[k][i] = log[k][i]
      /\ log' \in [Hops -> Seq(Record)]
  BY LogAppend DEF TypeOK
<1>2. /\ DOMAIN log[k] = 1 .. Len(log[k]) /\ Len(log[k]) \in Nat
      /\ DOMAIN log'[k] = 1 .. Len(log[k]) + 1
      /\ committed[k] \in Nat /\ committed[k] <= Len(log[k])
  BY <1>1, LogType DEF TypeOK, OffsetsExist
<1>3. rec.ev \in Events /\ 0 \in Hops
  BY MaxRetriesPositive DEF Record, Hops
<1>4. \A e \in Events :
        (\E i \in DOMAIN log'[k] : i > committed[k] /\ log'[k][i].ev = e)
          <=> (\E i \in DOMAIN log[k] : i > committed[k] /\ log[k][i].ev = e) \/ e = rec.ev
  BY <1>1, <1>2
<1>5. \A e \in Events :
        (\E i \in DOMAIN log'[k] : log'[k][i].ev = e)
          <=> (\E i \in DOMAIN log[k] : log[k][i].ev = e) \/ e = rec.ev
  BY <1>1, <1>2
<1>6. Outstanding' = Outstanding \cup {rec.ev}
  BY <1>1, <1>3, <1>4 DEF Outstanding
<1>7. Published' = IF k = 0 THEN Published \cup {rec.ev} ELSE Published
  BY <1>1, <1>3, <1>5 DEF Published
<1> QED BY <1>6, <1>7

(* What a step may do to the records, the offsets and the outcomes. *)
AppendsRecord(k, rec) ==
  log' = [log EXCEPT ![k] = Append(@, rec)] /\ UNCHANGED <<committed, handled, dlq>>

Settles(e) ==
  /\ UNCHANGED <<log, committed>>
  /\ \A x \in Events : Settled(x)' <=> Settled(x) \/ x = e

CommitsTo(h, c) ==
  committed' = [committed EXCEPT ![h] = c] /\ UNCHANGED <<log, handled, dlq>>

LEMMA StepEffect ==
  ASSUME CarrierInv, [Next]_vars, MaxWriteErrs = 0
  PROVE  \/ \E e \in Events : AppendsRecord(0, Encode(e))
         \/ \E k \in Hops \ {0} : \E rec \in Record : rec.ev \in Published /\ AppendsRecord(k, rec)
         \/ \E e \in Published : Settles(e)
         \/ \E h \in Hops : \E c \in Nat : CommitsTo(h, c)
         \/ UNCHANGED <<log, committed, handled, dlq>>
<1> USE DEF topics, group, history, bounds
<1>1. TypeOK /\ OffsetsExist /\ HopTells
  BY DEF CarrierInv, GroupInv
<1>2. ASSUME NEW m \in Members, NEW h \in Hops, pc[<<m, h>>] # "fetch"
      PROVE  /\ Message(m, h).ev \in Published /\ Message(m, h).ev \in Events
             /\ RetryRecord(m, h) \in Record /\ RetryRecord(m, h).ev = Message(m, h).ev
             /\ cur[<<m, h>>] \in Nat
  <2>1. /\ cur[<<m, h>>] \in 1 .. Len(log[h]) /\ DOMAIN log[h] = 1 .. Len(log[h])
        /\ RetryRecord(m, h) \in Record
    BY <1>1, <1>2, MessageType
  <2>2. Message(m, h).ev \in Published
    BY <2>1 DEF CarrierInv, FromProducers, Message
  <2> QED BY <2>1, <2>2 DEF RetryRecord, Published
<1>3. ASSUME NEW e \in Events, Publish(e) PROVE AppendsRecord(0, Encode(e))
  BY <1>3 DEF Publish, AppendsRecord
<1>4. ASSUME NEW m \in Members, NEW h \in Hops, WriteRetry(m, h)
      PROVE  \E k \in Hops \ {0} : \E rec \in Record : rec.ev \in Published /\ AppendsRecord(k, rec)
  <2>1. pc[<<m, h>>] = "retry"
    BY <1>4 DEF WriteRetry
  <2>2. h + 1 \in Hops \ {0} /\ RetryRecord(m, h).attempt = h + 1
    BY <1>1, <2>1, RetryTarget DEF Hops
  <2>3. AppendsRecord(h + 1, RetryRecord(m, h))
    BY <1>4, <2>2 DEF WriteRetry, AppendsRecord
  <2> QED BY <1>2, <2>1, <2>2, <2>3
<1>5. ASSUME NEW m \in Members, NEW h \in Hops, NoHandlers(m, h) \/ HandlersSucceed(m, h)
      PROVE  \E e \in Published : Settles(e)
  <2>1. /\ pc[<<m, h>>] # "fetch" /\ UNCHANGED <<log, committed, dlq>>
        /\ handled' = handled \cup {Message(m, h).ev}
    BY <1>5 DEF NoHandlers, HandlersSucceed
  <2>2. Settles(Message(m, h).ev)
    BY <2>1 DEF Settles, Settled, DeadLettered
  <2> QED BY <1>2, <2>1, <2>2
<1>6. ASSUME NEW m \in Members, NEW h \in Hops, WriteDeadLetter(m, h)
      PROVE  \E e \in Published : Settles(e)
  <2>1. /\ pc[<<m, h>>] # "fetch" /\ UNCHANGED <<log, committed, handled>>
        /\ dlq' = dlq \cup {RetryRecord(m, h)}
    BY <1>6 DEF WriteDeadLetter
  <2>2. RetryRecord(m, h).ev = Message(m, h).ev
    BY <1>2, <2>1
  <2>3. Settles(Message(m, h).ev)
    BY <2>1, <2>2 DEF Settles, Settled, DeadLettered
  <2> QED BY <1>2, <2>1, <2>3
<1>7. ASSUME NEW m \in Members, NEW h \in Hops, Commit(m, h) PROVE CommitsTo(h, cur[<<m, h>>])
  BY <1>7 DEF Commit, CommitsTo
<1>8. ASSUME NEW m \in Members, NEW h \in Hops, WriteFails(m, h) PROVE FALSE
  BY <1>1, <1>8 DEF WriteFails, TypeOK
<1>9. ASSUME NEW m \in Members, NEW h \in Hops, ReaderStep(m, h)
      PROVE  \/ WriteRetry(m, h) \/ NoHandlers(m, h) \/ HandlersSucceed(m, h)
             \/ WriteDeadLetter(m, h) \/ Commit(m, h)
             \/ UNCHANGED <<log, committed, handled, dlq>>
  BY <1>8, <1>9 DEF ReaderStep, Fetch, NotBeforePassed, DecodeFails, HandlersFail, CommitFails
<1>10. ASSUME NEW m \in Members, NEW h \in Hops, Leave(m) \/ Join(m, h) \/ Rebalance(m, h)
       PROVE  UNCHANGED <<log, committed, handled, dlq>>
  BY <1>10 DEF Leave, Join, Rebalance
<1>11. ASSUME NEW m \in Members, Leave(m) PROVE UNCHANGED <<log, committed, handled, dlq>>
  BY <1>11 DEF Leave
<1>12. ASSUME NEW m \in Members, NEW h \in Hops, Commit(m, h)
       PROVE  \E c \in Nat : CommitsTo(h, c)
  BY <1>2, <1>7, <1>12 DEF Commit
<1>13. UNCHANGED vars => UNCHANGED <<log, committed, handled, dlq>>
  BY DEF vars
<1> QED BY <1>3, <1>4, <1>5, <1>6, <1>9, <1>10, <1>11, <1>12, <1>13 DEF Next

(* Topics and outcomes only ever hold what a producer has published. *)
LEMMA FromProducersStep ==
  ASSUME CarrierInv, [Next]_vars, MaxWriteErrs = 0
  PROVE  FromProducers'
<1>1. TypeOK /\ OffsetsExist /\ 0 \in Hops
  BY MaxRetriesPositive DEF CarrierInv, GroupInv, Hops
<1>2. ASSUME NEW k \in Hops, NEW rec \in Record, AppendsRecord(k, rec), rec.ev \in Published'
      PROVE  FromProducers'
  <2>1. Published \subseteq Published'
    BY <1>1, <1>2, OneMoreRecord DEF AppendsRecord
  <2>2. /\ \A h \in Hops : h # k => log'[h] = log[h]
        /\ Len(log'[k]) = Len(log[k]) + 1
        /\ log'[k][Len(log[k]) + 1] = rec
        /\ \A i \in 1 .. Len(log[k]) : log'[k][i] = log[k][i]
        /\ log' \in [Hops -> Seq(Record)]
    BY <1>1, <1>2, LogAppend DEF AppendsRecord, TypeOK
  <2>3. /\ DOMAIN log[k] = 1 .. Len(log[k]) /\ Len(log[k]) \in Nat
        /\ DOMAIN log'[k] = 1 .. Len(log[k]) + 1
    BY <1>1, <2>2, LogType
  <2>4. ASSUME NEW h \in Hops, NEW i \in DOMAIN log'[h] PROVE log'[h][i].ev \in Published'
    BY <1>2, <2>1, <2>2, <2>3 DEF CarrierInv, FromProducers
  <2>5. \A e \in Events : Settled(e)' <=> Settled(e)
    BY <1>2 DEF AppendsRecord, Settled, DeadLettered
  <2> QED BY <2>1, <2>4, <2>5 DEF CarrierInv, FromProducers
<1>3. ASSUME NEW e \in Events, AppendsRecord(0, Encode(e)) PROVE FromProducers'
  <2>1. Encode(e) \in Record /\ Encode(e).ev = e
    BY DEF Encode, Record
  <2>2. e \in Published'
    BY <1>1, <1>3, <2>1, OneMoreRecord DEF AppendsRecord
  <2> QED BY <1>1, <1>2, <1>3, <2>1, <2>2
<1>4. ASSUME NEW k \in Hops \ {0}, NEW rec \in Record, rec.ev \in Published, AppendsRecord(k, rec)
      PROVE  FromProducers'
  <2>1. rec.ev \in Published'
    BY <1>1, <1>4, OneMoreRecord DEF AppendsRecord
  <2> QED BY <1>2, <1>4, <2>1
<1>5. ASSUME NEW e \in Published, Settles(e) PROVE FromProducers'
  BY <1>5 DEF Settles, CarrierInv, FromProducers, Published
<1>6. ASSUME UNCHANGED <<log, handled, dlq>> PROVE FromProducers'
  BY <1>6 DEF CarrierInv, FromProducers, Published, Settled, DeadLettered
<1> QED BY <1>3, <1>4, <1>5, <1>6, StepEffect DEF CommitsTo

(* Each step of the group is one step of the carrier, or a stutter. *)
LEMMA CarrierStep ==
  ASSUME CarrierInv, CarrierInv', [Next]_vars, MaxWriteErrs = 0
  PROVE  [Carrier!Next]_Carrier!vars
<1> DEFINE acc == Published
           del == {e \in Published : Settled(e)}
           dis == Published \ Outstanding
<1>1. TypeOK /\ OffsetsExist /\ 0 \in Hops /\ Published \subseteq Events
  BY MaxRetriesPositive DEF CarrierInv, GroupInv, Hops, Published
<1>2. ASSUME NEW E \in SUBSET Events, acc' = acc, del' = del, dis' = dis \ E PROVE Carrier!Next
  <2>1. Carrier!Reopen(E)
    BY <1>2 DEF Carrier!Reopen
  <2> QED BY <2>1 DEF Carrier!Next
<1>3. ASSUME NEW E \in SUBSET Events, acc' = acc, del' = del, E \subseteq del, dis' = dis \cup E
      PROVE  Carrier!Next
  <2>1. Carrier!Discharge(E)
    BY <1>3 DEF Carrier!Discharge
  <2> QED BY <2>1 DEF Carrier!Next
<1>4. ASSUME NEW e \in Events, AppendsRecord(0, Encode(e)) PROVE Carrier!Next
  <2>1. Encode(e) \in Record /\ Encode(e).ev = e
    BY DEF Encode, Record
  <2>2. Outstanding' = Outstanding \cup {e} /\ Published' = Published \cup {e}
    BY <1>1, <1>4, <2>1, OneMoreRecord DEF AppendsRecord
  <2>3. \A x \in Events : Settled(x)' <=> Settled(x)
    BY <1>4 DEF AppendsRecord, Settled, DeadLettered
  <2>4. CASE e \in Published
    <3>1. acc' = acc /\ del' = del /\ dis' = dis \ {e}
      BY <1>1, <2>2, <2>3, <2>4
    <3> QED BY <1>2, <3>1
  <2>5. CASE e \notin Published
    <3>1. ~Settled(e)
      BY <2>5 DEF CarrierInv, FromProducers
    <3>2. acc' = acc \cup {e} /\ del' = del /\ dis' = dis
      BY <1>1, <2>2, <2>3, <2>5, <3>1
    <3>3. Carrier!Accept(e)
      BY <3>2 DEF Carrier!Accept
    <3> QED BY <3>3 DEF Carrier!Next
  <2> QED BY <2>4, <2>5
<1>5. ASSUME NEW k \in Hops \ {0}, NEW rec \in Record, rec.ev \in Published, AppendsRecord(k, rec)
      PROVE  Carrier!Next
  <2>1. Outstanding' = Outstanding \cup {rec.ev} /\ Published' = Published
    BY <1>1, <1>5, OneMoreRecord DEF AppendsRecord
  <2>2. \A x \in Events : Settled(x)' <=> Settled(x)
    BY <1>5 DEF AppendsRecord, Settled, DeadLettered
  <2>3. acc' = acc /\ del' = del /\ dis' = dis \ {rec.ev}
    BY <1>1, <2>1, <2>2
  <2>4. {rec.ev} \in SUBSET Events
    BY <1>1, <1>5
  <2> QED BY <1>2, <2>3, <2>4
<1>6. ASSUME NEW e \in Published, Settles(e) PROVE Carrier!Next
  <2>1. Published' = Published /\ Outstanding' = Outstanding
    BY <1>6 DEF Settles, Published, Outstanding
  <2>2. acc' = acc /\ del' = del \cup {e} /\ dis' = dis
    BY <1>1, <1>6, <2>1 DEF Settles
  <2>3. e \in Events /\ Carrier!Deliver(e)
    BY <1>1, <2>2 DEF Carrier!Deliver
  <2> QED BY <2>3 DEF Carrier!Next
<1>7. ASSUME NEW h \in Hops, NEW c \in Nat, CommitsTo(h, c) PROVE Carrier!Next
  <2>1. /\ Published' = Published /\ log' = log
        /\ committed' = [committed EXCEPT ![h] = c]
        /\ \A x \in Events : Settled(x)' <=> Settled(x)
    BY <1>7 DEF CommitsTo, Published, Settled, DeadLettered
  <2>2. acc' = acc /\ del' = del
    BY <1>1, <2>1
  <2>3. /\ committed \in [Hops -> Nat]
        /\ \A k \in Hops : DOMAIN log[k] \subseteq Nat
    BY <1>1, LogType DEF TypeOK
  <2>4. CASE c <= committed[h]
    <3>1. Outstanding \subseteq Outstanding'
      BY <2>1, <2>3, <2>4 DEF Outstanding
    <3>2. dis' = dis \ Outstanding' /\ Outstanding' \in SUBSET Events
      BY <2>1, <3>1 DEF Outstanding
    <3> QED BY <1>2, <2>2, <3>2
  <2>5. CASE c > committed[h]
    <3>1. Outstanding' \subseteq Outstanding
      BY <2>1, <2>3, <2>5 DEF Outstanding
    <3>2. dis' = dis \cup dis' /\ dis' \in SUBSET Events
      BY <1>1, <2>1, <3>1
    <3>3. (CarrierInv => \A e \in Published \ Outstanding : Settled(e))'
      BY PassedIsSettled, PTL
    <3>4. dis' \subseteq del
      BY <1>1, <2>1, <3>3
    <3> QED BY <1>3, <2>2, <3>2, <3>4
  <2> QED BY <2>3, <2>4, <2>5
<1>8. ASSUME UNCHANGED <<log, committed, handled, dlq>> PROVE UNCHANGED Carrier!vars
  BY <1>8 DEF Carrier!vars, Published, Outstanding, Settled, DeadLettered
<1> QED BY <1>4, <1>5, <1>6, <1>7, <1>8, StepEffect

(* Refinement: while no write to a retry or dead-letter topic fails, the   *)
(* topic with its retry chain is an at-least-once carrier, for any number  *)
(* of processes, rebalances, crashes, retries and failing commits.         *)
THEOREM ConsumerDelivers ==
  ASSUME MaxWriteErrs = 0 PROVE Spec => ImplementsDelivery
<1>1. Init => Carrier!Init /\ FromProducers
  <2> SUFFICES ASSUME Init PROVE Carrier!Init /\ FromProducers
    OBVIOUS
  <2>1. \A h \in Hops : DOMAIN log[h] = {}
    BY DEF Init
  <2>2. Published = {} /\ \A e \in Events : ~Settled(e)
    BY <2>1, MaxRetriesPositive DEF Init, Published, Settled, DeadLettered, Hops
  <2> QED BY <2>1, <2>2 DEF Carrier!Init, FromProducers
<1>2. CarrierInv /\ GroupInv' /\ CommittedIsRecorded' /\ [Next]_vars => CarrierInv'
  BY FromProducersStep DEF CarrierInv
<1>3. Init /\ GroupInv /\ CommittedIsRecorded => CarrierInv
  BY <1>1 DEF CarrierInv
<1>4. Spec => []CarrierInv
  BY <1>2, <1>3, GroupInvariant, NoLossWithoutWriteErrors, PTL DEF Spec
<1>5. CarrierInv /\ CarrierInv' /\ [Next]_vars => [Carrier!Next]_Carrier!vars
  BY CarrierStep
<1> QED
  BY <1>1, <1>4, <1>5, PTL DEF Spec, ImplementsDelivery, Carrier!Spec
=============================================================================
