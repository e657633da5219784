---------------------- MODULE CustomerFlowOrderProofs ----------------------
(***************************************************************************)
(* What holds of the wired contexts because events go through the outbox   *)
(* in order.  The outbox is taken as a component: every step of the flow is*)
(* one of the outbox or a restart, so that what OutboxProofs shows of the  *)
(* outbox's steps holds here, through restarts too.  On it rest the two    *)
(* invariants that need the poll loop to be the only drainer.              *)
(***************************************************************************)
EXTENDS CustomerFlowProofs

Rows == INSTANCE OutboxProofs WITH EventIDs <- Event, Poison <- {}

-----------------------------------------------------------------------------
(* The outbox as a component. *)

(* The two instances of Outbox are the same. *)
LEMMA SameRows ==
  /\ Rows!Drainers = Drainers /\ Box!Drainers = Drainers
  /\ \A d, i : Rows!IsCurrent(d, i) <=> Current(d, i)
  /\ TypeOK => Rows!TypeOK
  /\ Rows!vars = box
<1>1. Rows!Drainers = Drainers /\ Box!Drainers = Drainers
  BY DEF Rows!Drainers, Box!Drainers, Drainers
<1>2. TypeOK => Rows!TypeOK
  BY <1>1 DEF TypeOK, Box!TypeOK, Rows!TypeOK
<1> QED BY <1>1, <1>2 DEF Rows!IsCurrent, Current, Rows!vars, box

LEMMA SameBegin ==
  ASSUME NEW d, Box!BeginDrain(d)
  PROVE  Rows!BeginDrain(d)
<1>1. \A S : Box!Cardinality(S) = Rows!Cardinality(S)
  BY DEF Box!Cardinality, Rows!Cardinality
<1>2. Box!Unpublished = Rows!Unpublished
  BY DEF Box!Unpublished, Rows!Unpublished
<1>3. Box!batchSize = Rows!batchSize
  BY DEF Box!batchSize, Rows!batchSize
<1>4. \A l : Box!FetchPending(l) = Rows!FetchPending(l)
  BY <1>1, <1>2 DEF Box!FetchPending, Rows!FetchPending
<1> QED BY <1>3, <1>4 DEF Box!BeginDrain, Rows!BeginDrain

(* A step of the flow is one of the outbox, or leaves it alone, or is a    *)
(* restart.                                                                *)
LEMMA RowStep ==
  ASSUME TypeOK, [Next]_vars
  PROVE  [Rows!Next]_Rows!vars \/ Restart
<1>1. ASSUME NEW c \in Customers, PublishEvent(c) PROVE Rows!Next
  <2>1. Box!Add([customer |-> c, command |-> asked[c] + 1])
    BY <1>1 DEF PublishEvent
  <2>2. [customer |-> c, command |-> asked[c] + 1] \in Event
    BY <1>1, PublishEventEffect DEF AddEffect
  <2> QED BY <2>1, <2>2 DEF Box!Add, Rows!Add, Rows!Next
<1>2. ASSUME NEW d \in Drainers, StoreStep(d) PROVE Rows!Next
  <2>1. CASE Box!BeginDrain(d)
    BY <2>1, SameBegin, SameRows DEF Rows!Next
  <2>2. ASSUME NEW i \in DOMAIN order, Box!MarkPublished(d, i) \/ Box!MarkFailed(d, i)
        PROVE  Rows!Next
    <3>1. Rows!MarkPublished(d, i) \/ Rows!MarkFailed(d, i)
      BY <2>2 DEF Box!MarkPublished, Box!MarkFailed, Box!FinishRow, Box!IsCurrent,
                  Rows!MarkPublished, Rows!MarkFailed, Rows!FinishRow, Rows!IsCurrent
    <3> QED BY <3>1, SameRows DEF Rows!Next, Rows!RowStep
  <2> QED BY <1>2, <2>1, <2>2 DEF StoreStep
<1>3. ASSUME NEW d \in Drainers, NEW i \in DOMAIN order, PublishReturns(d, i) PROVE Rows!Next
  <2>1. Rows!PublishOK(d, i) \/ Rows!PublishErr(d, i)
    BY <1>3 DEF PublishReturns, Box!PublishOK, Box!PublishErr, Box!IsCurrent,
                Rows!PublishOK, Rows!PublishErr, Rows!IsCurrent
  <2> QED BY <2>1, SameRows DEF Rows!Next, Rows!RowStep
<1>4. ASSUME UNCHANGED box PROVE [Rows!Next]_Rows!vars
  BY <1>4, SameRows DEF box, Rows!vars
<1> QED BY <1>1, <1>2, <1>3, <1>4, SameRows
        DEF Next, Command, Commit, CommitFails, DrainStep, HandlerSucceeds, HandlerFails, PlaceOrder,
            WalkStep, StartWalk, QueryPage, ReturnResult, box, vars

(* What a new process finds satisfies every invariant of the outbox. *)
Fresh ==
  /\ TypeOK
  /\ order = << >>
  /\ status = [e \in Event |-> "absent"]
  /\ batch = [d \in Drainers |-> {}]
  /\ pc = [d \in Drainers |-> "idle"]
  /\ accepted = {}

LEMMA FreshRows == Fresh => Rows!OrderInv
<1> SUFFICES ASSUME Fresh PROVE Rows!OrderInv
  OBVIOUS
<1>1. Rows!RowsListedOnce
  BY DEF Fresh, Rows!RowsListedOnce
<1>2. Rows!BatchSound
  BY SameRows DEF Fresh, Rows!BatchSound
<1>3. Rows!PublishedWasAccepted
  BY DEF Fresh, Rows!PublishedWasAccepted
<1>4. Rows!BatchIsPrefix /\ Rows!OvertakesOnlyFailed
  BY DEF Fresh, Rows!BatchIsPrefix, Rows!OvertakesOnlyFailed, Drainers
<1> QED BY <1>1, <1>2, <1>3, <1>4, SameRows DEF Fresh, Rows!OrderInv, Rows!StoreInv

LEMMA InitFresh == Init => Fresh
BY InitTypes DEF Init, Box!Init, Box!Drainers, Drainers, Fresh

LEMMA RowsOrFresh ==
  TypeOK /\ TypeOK' /\ [Next]_vars => [Rows!Next]_Rows!vars \/ Fresh'
<1>1. ASSUME TypeOK, TypeOK', Restart PROVE Fresh'
  BY <1>1, RestartEffect DEF Fresh
<1> QED BY <1>1, RowStep

(* The customer context, the relay and the handlers use the outbox as it   *)
(* promises to be used: between restarts every step of the process is one  *)
(* of the outbox's, or none (bootstrap.newModules, outbox.NewRelay).       *)
THEOREM FlowRunsTheOutbox == Spec => [][Rows!Next \/ Restart]_box
<1>1. TypeOK /\ [Next]_vars => [Rows!Next \/ Restart]_box
  BY RowStep DEF Rows!vars, box
<1> QED BY <1>1, FlowTypeCorrect, PTL DEF Spec

(* What OutboxProofs shows of any number of drainers. *)
LEMMA StoreHolds == Spec => []Rows!StoreInv
<1>1. Rows!OrderInv => Rows!StoreInv
  BY DEF Rows!OrderInv
<1>2. Rows!StoreInv /\ Rows!TypeOK' /\ [Rows!Next]_Rows!vars => Rows!StoreInv'
  BY FlowAssumption, Rows!StoreInvStep DEF Rows!StoreInvStep
<1>3. TypeOK => Rows!TypeOK
  BY SameRows
<1> QED BY <1>1, <1>2, <1>3, InitFresh, FreshRows, RowsOrFresh, FlowTypeCorrect, PTL DEF Spec

(* With one drainer, so does the order. *)
LEMMA OrderHolds == ASSUME Flushers = {} PROVE Spec => []Rows!OrderInv
<1>1. Rows!OrderInv /\ Rows!StoreInv' /\ [Rows!Next]_Rows!vars => Rows!OrderInv'
  BY FlowAssumption, Rows!OrderInvStep
<1> QED BY <1>1, InitFresh, FreshRows, RowsOrFresh, FlowTypeCorrect, StoreHolds, PTL DEF Spec

(* However often the process is restarted, order and byID agree in the     *)
(* outbox of the running one, and a row of it is published only when all   *)
(* handlers of its event have succeeded in one pass (store.go, relay.go).  *)
THEOREM OutboxSoundInFlow == Spec => [](Rows!RowsListedOnce /\ Rows!PublishedWasAccepted)
BY StoreHolds, PTL DEF Rows!StoreInv

-----------------------------------------------------------------------------
(* The rows of one customer. *)

(* Events of a customer stand in the outbox in order, those that are not   *)
(* in it any more below those that are.                                    *)
VersionOrder ==
  /\ \A i, j \in DOMAIN order :
       i < j /\ order[i].customer = order[j].customer => order[i].command < order[j].command
  /\ \A e \in Event : \A i \in DOMAIN order :
       /\ status[e] = "absent"
       /\ e.customer = order[i].customer
       /\ e.command <= asked[e.customer]
       => e.command < order[i].command

LEMMA SameEvent ==
  ASSUME NEW e \in Event, NEW f \in Event, e.customer = f.customer, e.command = f.command
  PROVE  e = f
<1>1. \A x \in Event : x = [customer |-> x.customer, command |-> x.command]
  BY DEF Event
<1> QED BY <1>1

LEMMA VersionOrderStep ==
  ASSUME TypeOK, Written, VersionOrder, Rows!StoreInv, [Next]_vars
  PROVE  VersionOrder'
<1>0. /\ order \in Seq(Event) /\ asked \in [Customers -> Nat]
      /\ status \in [Event -> {"absent", "pending", "published", "failed"}]
      /\ DOMAIN order = 1 .. Len(order) /\ Len(order) \in Nat
      /\ \A i \in DOMAIN order : /\ order[i] \in Event /\ order[i].customer \in Customers
                                 /\ order[i].command \in Nat
                                 /\ status[order[i]] # "absent"
  BY Types, OrderFacts, EventFacts DEF Rows!StoreInv, Rows!RowsListedOnce
<1>1. ASSUME NEW c \in Customers, AddEffect(c) PROVE VersionOrder'
  <2> DEFINE n == Len(order) + 1
             e == [customer |-> c, command |-> asked[c] + 1]
  <2>1. /\ e \in Event
        /\ asked' = [asked EXCEPT ![c] = @ + 1]
        /\ status' = [status EXCEPT ![e] = "pending"]
        /\ order' = Append(order, e)
    BY <1>1 DEF AddEffect
  <2>2. /\ DOMAIN order' = 1 .. n
        /\ \A i \in DOMAIN order : order'[i] = order[i]
        /\ order'[n] = e
    BY <1>0, <2>1, OrderAppend
  <2>3. \A i \in DOMAIN order : order[i].customer = c => order[i].command < e.command
    BY <1>0 DEF Written
  <2>4. ASSUME NEW i \in DOMAIN order', NEW j \in DOMAIN order', i < j,
               order'[i].customer = order'[j].customer
        PROVE  order'[i].command < order'[j].command
    <3>1. i \in DOMAIN order
      BY <1>0, <2>2, <2>4
    <3>2. CASE j \in DOMAIN order
      BY <2>2, <2>4, <3>1, <3>2 DEF VersionOrder
    <3>3. CASE j = n
      BY <2>2, <2>3, <2>4, <3>1, <3>3
    <3> QED BY <1>0, <2>2, <3>2, <3>3
  <2>5. ASSUME NEW f \in Event, NEW i \in DOMAIN order', status'[f] = "absent",
               f.customer = order'[i].customer, f.command <= asked'[f.customer]
        PROVE  f.command < order'[i].command
    <3>1. status[f] = "absent" /\ f # e
      BY <1>0, <2>1, <2>5
    <3>2. f.customer \in Customers /\ f.command \in Nat
      BY EventFacts
    <3>3. f.command <= asked[f.customer]
      <4>1. CASE f.customer = c
        <5>1. f.command # e.command
          BY <2>1, <3>1, <4>1, SameEvent
        <5> QED BY <1>0, <2>1, <2>5, <3>2, <4>1, <5>1
      <4>2. CASE f.customer # c
        BY <1>0, <2>1, <2>5, <3>2, <4>2
      <4> QED BY <4>1, <4>2
    <3>4. CASE i \in DOMAIN order
      BY <2>2, <2>5, <3>1, <3>3, <3>4 DEF VersionOrder
    <3>5. CASE i = n
      BY <1>0, <2>2, <2>5, <3>2, <3>3, <3>5
    <3> QED BY <1>0, <2>2, <3>4, <3>5
  <2> QED BY <2>4, <2>5 DEF VersionOrder
<1>2. ASSUME NEW d \in Drainers, NEW i \in DOMAIN order, MarkEffect(d, i) PROVE VersionOrder'
  <2>1. /\ UNCHANGED <<order, asked>>
        /\ \A e \in Event : status'[e] = "absent" => status[e] = "absent"
    BY <1>0, <1>2 DEF MarkEffect
  <2> QED BY <2>1 DEF VersionOrder
<1>3. ASSUME UNCHANGED <<order, asked, status>> PROVE VersionOrder'
  BY <1>3 DEF VersionOrder
<1>4. CASE Restart
  BY <1>4, RestartEffect DEF VersionOrder
<1>5. WalkStep => UNCHANGED <<order, asked, status>>
  BY WalkTypes DEF box
<1> QED BY <1>1, <1>2, <1>3, <1>4, <1>5, StepCases
        DEF CommitEffect, PlaceOrder, BeginEffect, HandlerEffect, ReturnEffect, box, writes, vars

(* The row the poll loop is at. *)
At(e) == \E i \in DOMAIN order : Current(Relay, i) /\ order[i] = e

LEMMA AtFacts ==
  ASSUME TypeOK, NEW i \in DOMAIN order, Current(Relay, i)
  PROVE  /\ \A e : At(e) <=> e = order[i]
         /\ \A j \in DOMAIN order : Current(Relay, j) => j = i
<1>1. batch[Relay] \subseteq Nat
  BY Types DEF Drainers
<1>2. \A j \in DOMAIN order : Current(Relay, j) => j = i
  BY <1>1 DEF Current
<1> QED BY <1>2 DEF At

LEMMA OneDrainer ==
  ASSUME Flushers = {}
  PROVE  /\ Drainers = {Relay}
         /\ TypeOK => /\ pc \in [{Relay} -> PCs]
                      /\ ran \in [{Relay} -> 0 .. 2]
                      /\ errs \in [{Relay} -> BOOLEAN]
                      /\ batch \in [{Relay} -> SUBSET Nat]
BY Types DEF Drainers

-----------------------------------------------------------------------------
(* The welcome e-mail. *)

(* The pass over the creation of c has sent the e-mail and met no error.   *)
Welcomed(c) ==
  /\ At(Created(c))
  /\ \/ pc[Relay] = "markPublished"
     \/ pc[Relay] = "publish" /\ ran[Relay] = 2 /\ ~errs[Relay]

(* Every e-mail but one has been paid for by a failure in a handler of this*)
(* event; while it may be offered again, every one has; and a pass that    *)
(* will fail anyway has a failure in hand before it sends.                 *)
Paid(c) ==
  /\ asked[c] = 0 => welcomes[c] = 0
  /\ welcomes[c] <= 1 + failed[c]
  /\ asked[c] # 0 /\ ~Forwarded(Created(c)) /\ ~Welcomed(c) => welcomes[c] <= failed[c]
  /\ asked[c] # 0 /\ At(Created(c)) /\ pc[Relay] = "publish" /\ ran[Relay] = 1 /\ errs[Relay]
       => welcomes[c] < failed[c]

(* What Paid rests on. *)
FlowInv == Inv /\ Rows!OrderInv

LEMMA FlowInvFacts ==
  ASSUME FlowInv, Flushers = {}
  PROVE  /\ TypeOK /\ Written /\ RanBetween /\ BatchListed
         /\ \A c \in Customers : asked[c] # 0 => Created(c) \in Event
         /\ \A i \in DOMAIN order :
              /\ status[order[i]] # "absent"
              /\ Current(Relay, i) => status[order[i]] \in {"pending", "failed"}
              /\ order[i] \in Event
              /\ order[i].customer \in Customers
              /\ order[i].command \in Nat \ {0}
              /\ asked[order[i].customer] # 0
<1>1. TypeOK /\ Written /\ RanBetween /\ BatchListed
  BY DEF FlowInv, Inv
<1>2. /\ status \in [Event -> {"absent", "pending", "published", "failed"}]
      /\ asked \in [Customers -> Nat] /\ MaxCommands \in [Customers -> Nat]
  BY <1>1, Types, FlowAssumption
<1>3. ASSUME NEW c \in Customers, asked[c] # 0 PROVE Created(c) \in Event
  <2>1. 1 \in 1 .. MaxCommands[c]
    BY <1>1, <1>2, <1>3 DEF Written
  <2> QED BY <2>1, EventFacts DEF Created
<1>4. ASSUME NEW i \in DOMAIN order
      PROVE  /\ order[i] \in Event
             /\ order[i].customer \in Customers
             /\ order[i].command \in Nat \ {0}
             /\ asked[order[i].customer] # 0
  <2>1. order[i] \in Event /\ order[i].customer \in Customers /\ order[i].command \in Nat \ {0}
    BY <1>1, OrderFacts, EventFacts
  <2>2. order[i].command <= asked[order[i].customer]
    BY <1>1 DEF Written
  <2> QED BY <1>2, <2>1, <2>2
<1>5. ASSUME NEW i \in DOMAIN order
      PROVE  /\ status[order[i]] # "absent"
             /\ Current(Relay, i) => status[order[i]] # "published"
  BY <1>4, <1>5 DEF FlowInv, Rows!OrderInv, Rows!StoreInv, Rows!RowsListedOnce,
                    Rows!BatchIsPrefix, Current
<1> QED BY <1>1, <1>2, <1>3, <1>4, <1>5

(* A step that sends c nothing and does not touch its creation.            *)
LEMMA PaidElsewhere ==
  ASSUME NEW c \in Customers, Paid(c), TypeOK, TypeOK',
         asked'[c] = 0 <=> asked[c] = 0, welcomes'[c] = welcomes[c], failed[c] <= failed'[c],
         asked[c] # 0 => \/ Forwarded(Created(c))'
                         \/ ~Forwarded(Created(c)) /\ ~Welcomed(c)
                         \/ Welcomed(c)',
         ~(/\ At(Created(c))' /\ pc'[Relay] = "publish" /\ ran'[Relay] = 1 /\ errs'[Relay]
           /\ asked[c] # 0
           /\ failed[c] <= welcomes[c])
  PROVE  Paid(c)'
<1>1. welcomes[c] \in Nat /\ failed[c] \in Nat /\ failed'[c] \in Nat
  BY Types DEF TypeOK
<1>2. /\ asked[c] = 0 => welcomes[c] = 0
      /\ welcomes[c] <= 1 + failed[c]
      /\ asked[c] # 0 /\ ~Forwarded(Created(c)) /\ ~Welcomed(c) => welcomes[c] <= failed[c]
  BY DEF Paid
<1>3. asked[c] # 0 /\ ~Forwarded(Created(c))' /\ ~Welcomed(c)' => welcomes[c] <= failed'[c]
  BY <1>1, <1>2
<1>4. asked[c] # 0 /\ At(Created(c))' /\ pc'[Relay] = "publish" /\ ran'[Relay] = 1 /\ errs'[Relay]
        => welcomes[c] < failed'[c]
  BY <1>1
<1>5. Created(c)' = Created(c)
  BY DEF Created
<1> HIDE DEF Paid
<1> QED BY <1>1, <1>2, <1>3, <1>4, <1>5 DEF Paid

(* A pass has no error before its first handler. *)
CleanStart == ran[Relay] = 0 => ~errs[Relay]

LEMMA CleanStartStep ==
  ASSUME Flushers = {}, TypeOK, CleanStart, [Next]_vars
  PROVE  CleanStart'
<1>0. /\ Drainers = {Relay}
      /\ ran \in [{Relay} -> 0 .. 2] /\ errs \in [{Relay} -> BOOLEAN]
  BY OneDrainer
<1>1. ASSUME NEW i \in DOMAIN order, HandlerEffect(Relay, i) PROVE CleanStart'
  BY <1>0, <1>1 DEF HandlerEffect, CleanStart
<1>2. ASSUME NEW i \in DOMAIN order, ReturnEffect(Relay, i) PROVE CleanStart'
  <2>1. errs' = [errs EXCEPT ![Relay] = FALSE]
    BY <1>2 DEF ReturnEffect
  <2> QED BY <1>0, <2>1 DEF CleanStart
<1>3. CASE Restart
  <2>1. errs' = [d \in {Relay} |-> FALSE]
    BY <1>0, <1>3, RestartEffect
  <2> QED BY <2>1 DEF CleanStart
<1>4. ASSUME UNCHANGED <<ran, errs>> PROVE CleanStart'
  BY <1>4 DEF CleanStart
<1>5. WalkStep => UNCHANGED <<ran, errs>>
  BY WalkTypes DEF call
<1> QED BY <1>0, <1>1, <1>2, <1>3, <1>4, <1>5, StepCases
        DEF AddEffect, CommitEffect, PlaceOrder, BeginEffect, MarkEffect, call, vars

(* Adding a row does not change which one is current.                      *)
LEMMA AtKept ==
  ASSUME batch[Relay] \subseteq DOMAIN order, batch'[Relay] = batch[Relay],
         \A i \in DOMAIN order : i \in DOMAIN order' /\ order'[i] = order[i]
  PROVE  \A e : At(e)' <=> At(e)
BY DEF At, Current

LEMMA PaidStep ==
  ASSUME Flushers = {}, FlowInv, CleanStart, TypeOK', NEW c \in Customers, Paid(c), [Next]_vars
  PROVE  Paid(c)'
<1> DEFINE K == Created(c)
<1>0. /\ Drainers = {Relay}
      /\ pc \in [{Relay} -> PCs] /\ ran \in [{Relay} -> 0 .. 2] /\ errs \in [{Relay} -> BOOLEAN]
      /\ order \in Seq(Event) /\ asked \in [Customers -> Nat] /\ welcomes \in [Customers -> Nat]
      /\ status \in [Event -> {"absent", "pending", "published", "failed"}]
      /\ batch[Relay] \subseteq DOMAIN order
  BY FlowInvFacts, OneDrainer, Types DEF BatchListed
<1>f. /\ failed \in [Customers -> Nat] /\ failed'[c] \in Nat /\ failed[c] \in Nat
      /\ welcomes[c] \in Nat
  BY <1>0, FlowInvFacts, Types DEF TypeOK
<1>t. TypeOK /\ RanBetween
  BY FlowInvFacts
<1>k. asked[c] # 0 => K \in Event
  BY FlowInvFacts
<1>1. ASSUME NEW x \in Customers, AddEffect(x) PROVE Paid(c)'
  <2> DEFINE e == [customer |-> x, command |-> asked[x] + 1]
  <2>1. /\ e \in Event
        /\ asked' = [asked EXCEPT ![x] = @ + 1]
        /\ status' = [status EXCEPT ![e] = "pending"]
        /\ order' = Append(order, e)
        /\ UNCHANGED <<batch, pc, welcomes, ran, errs, failed>>
    BY <1>1 DEF AddEffect, faults
  <2>2. \A f : At(f)' <=> At(f)
    <3>1. \A i \in DOMAIN order : i \in DOMAIN order' /\ order'[i] = order[i]
      BY <1>0, <2>1, OrderAppend
    <3> QED BY <1>0, <2>1, <3>1, AtKept
  <2>3. CASE asked[c] = 0
    <3>1. welcomes'[c] = 0
      BY <2>1, <2>3 DEF Paid
    <3>2. ~At(K)
      BY <2>3, FlowInvFacts DEF At, Created
    <3>3. ~At(K)' /\ Created(c)' = K
      BY <2>2, <3>2 DEF Created
    <3> QED BY <1>f, <3>1, <3>3 DEF Paid
  <2>4. CASE asked[c] # 0
    <3>1. asked'[c] # 0 /\ e # K
      BY <1>0, <2>1, <2>4 DEF Created
    <3>2. status'[K] = status[K]
      BY <1>0, <1>k, <2>1, <2>4, <3>1
    <3>3. Forwarded(K)' <=> Forwarded(K)
      BY <3>2 DEF Forwarded, Created
    <3>4. Welcomed(c)' <=> Welcomed(c)
      BY <2>1, <2>2 DEF Welcomed, Created
    <3>5. ~(At(K)' /\ pc'[Relay] = "publish" /\ ran'[Relay] = 1 /\ errs'[Relay]
            /\ asked[c] # 0 /\ failed[c] <= welcomes[c])
      BY <1>f, <2>1, <2>2 DEF Paid
    <3> QED BY <1>f, <1>t, <2>1, <2>4, <3>1, <3>3, <3>4, <3>5, PaidElsewhere
  <2> QED BY <2>3, <2>4

(* A step after which the event will not be offered again. *)
<1>10. ASSUME asked' = asked, welcomes'[c] = welcomes[c], failed[c] <= failed'[c],
              asked[c] # 0 => Forwarded(K)',
              ran'[Relay] # 1 \/ pc'[Relay] # "publish"
       PROVE  Paid(c)'
  <2>1. welcomes'[c] <= 1 + failed'[c] /\ (asked'[c] = 0 => welcomes'[c] = 0)
    BY <1>f, <1>10 DEF Paid
  <2> QED BY <1>10, <2>1 DEF Paid, Created
(* A step that finds the event unsent and leaves no failing pass behind.   *)
<1>2. ASSUME asked' = asked, welcomes'[c] = welcomes[c], failed[c] <= failed'[c],
             asked[c] # 0 => \/ Forwarded(K)'
                             \/ ~Forwarded(K) /\ ~Welcomed(c)
                             \/ Welcomed(c)',
             ran'[Relay] # 1 \/ ~At(K)' \/ pc'[Relay] # "publish"
      PROVE  Paid(c)'
  BY <1>2, <1>t, PaidElsewhere
<1>3. ASSUME BeginEffect(Relay) PROVE Paid(c)'
  <2>1. /\ pc[Relay] = "idle" /\ ran[Relay] = 0
        /\ UNCHANGED <<asked, welcomes, failed, status, ran>>
    BY <1>3, <1>t, <1>0 DEF BeginEffect, RanBetween, faults
  <2>2. ~Welcomed(c)
    BY <2>1 DEF Welcomed
  <2>3. Forwarded(K)' <=> Forwarded(K)
    BY <2>1 DEF Forwarded, Created
  <2> QED BY <1>f, <1>2, <2>1, <2>2, <2>3
<1>4. ASSUME NEW i \in DOMAIN order, MarkEffect(Relay, i) PROVE Paid(c)'
  <2>1. /\ pc[Relay] \in {"markPublished", "markFailed"} /\ ran[Relay] = 0
        /\ UNCHANGED <<asked, welcomes, failed, ran>> /\ Current(Relay, i)
    BY <1>4, <1>t, <1>0 DEF MarkEffect, RanBetween, faults
  <2>2. order[i] \in Event /\ ~Forwarded(order[i])
    BY <2>1, FlowInvFacts DEF Forwarded
  <2>3. CASE order[i] = K /\ pc[Relay] = "markPublished"
    <3>1. status'[K] = "published"
      BY <1>0, <1>4, <2>2, <2>3 DEF MarkEffect
    <3>2. Forwarded(K)'
      BY <3>1 DEF Forwarded, Created
    <3>3. /\ asked' = asked /\ welcomes'[c] = welcomes[c] /\ failed[c] <= failed'[c]
          /\ ran'[Relay] # 1
      BY <1>f, <2>1
    <3> QED BY <1>10, <3>2, <3>3
  <2>4. CASE order[i] = K /\ pc[Relay] = "markFailed"
    <3>1. ~Welcomed(c) /\ ~Forwarded(K)
      BY <2>2, <2>4 DEF Welcomed
    <3> QED BY <1>f, <1>2, <2>1, <3>1
  <2>5. CASE order[i] # K
    <3>1. ~Welcomed(c)
      BY <1>t, <2>1, <2>5, AtFacts DEF Welcomed
    <3>2. asked[c] # 0 => status'[K] = status[K]
      BY <1>0, <1>4, <1>k, <2>2, <2>5 DEF MarkEffect
    <3>3. asked[c] # 0 => (Forwarded(K)' <=> Forwarded(K))
      BY <3>2 DEF Forwarded, Created
    <3> QED BY <1>f, <1>2, <2>1, <3>1, <3>3
  <2> QED BY <2>1, <2>3, <2>4, <2>5
<1>5. ASSUME NEW i \in DOMAIN order, ReturnEffect(Relay, i) PROVE Paid(c)'
  <2>1. /\ UNCHANGED <<asked, welcomes, failed, status, order, batch>> /\ Current(Relay, i)
        /\ ran' = [ran EXCEPT ![Relay] = 0] /\ pc[Relay] = "publish"
        /\ ran[Relay] = Len(handlers(order[i]))
    BY <1>5 DEF ReturnEffect, faults
  <2>2. ran'[Relay] = 0
    BY <1>0, <2>1
  <2>3. Forwarded(K)' <=> Forwarded(K)
    BY <2>1 DEF Forwarded, Created
  <2>4. CASE ~Welcomed(c)
    BY <1>f, <1>2, <2>1, <2>2, <2>3, <2>4
  <2>5. CASE Welcomed(c)
    <3>1. ~errs[Relay] /\ At(K)
      BY <2>1, <2>5 DEF Welcomed
    <3>2. pc'[Relay] = "markPublished"
      BY <1>0, <1>5, <3>1 DEF ReturnEffect
    <3>3. At(K)' <=> At(K)
      BY <1>0, <2>1, AtKept
    <3>4. Welcomed(c)'
      BY <3>1, <3>2, <3>3 DEF Welcomed, Created
    <3> QED BY <1>f, <1>2, <2>1, <2>2, <3>4
  <2> QED BY <2>4, <2>5
<1>6. ASSUME NEW i \in DOMAIN order, HandlerEffect(Relay, i) PROVE Paid(c)'
  <2> DEFINE e == order[i]
  <2>1. /\ UNCHANGED <<asked, status, order, batch, pc>> /\ Current(Relay, i)
        /\ ran' = [ran EXCEPT ![Relay] = @ + 1] /\ pc[Relay] = "publish"
        /\ ran[Relay] < Len(handlers(e))
        /\ failed' \in {failed, [failed EXCEPT ![e.customer] = @ + 1]}
        /\ e.command # 1 => failed' = failed
    BY <1>6 DEF HandlerEffect, faults
  <2>2. At(K)' <=> At(K)
    BY <1>0, <2>1, AtKept
  <2>3. At(K) <=> e = K
    BY <1>t, <2>1, AtFacts
  <2>4. Forwarded(K)' <=> Forwarded(K)
    BY <2>1 DEF Forwarded, Created
  <2>5. e \in Event /\ e.customer \in Customers /\ ~Forwarded(e) /\ asked[e.customer] # 0
    BY <2>1, FlowInvFacts DEF Forwarded
  <2>6. CASE e # K
    <3>1. ~Welcomed(c)
      BY <2>3, <2>6 DEF Welcomed
    <3>2. e.command = 1 => e.customer # c
      BY <2>5, <2>6, EventFacts
    <3>3. welcomes'[c] = welcomes[c] /\ failed'[c] = failed[c]
      BY <1>0, <1>f, <1>6, <2>1, <2>5, <3>2 DEF HandlerEffect
    <3> QED BY <1>f, <1>2, <2>1, <2>2, <2>3, <2>4, <2>6, <3>1, <3>3
  <2>7. CASE e = K
    <3>1. /\ asked[c] # 0 /\ asked'[c] # 0 /\ e.command = 1 /\ e.customer = c
          /\ ~Forwarded(K) /\ At(K)
      BY <2>1, <2>3, <2>5, <2>7 DEF Created
    <3>7. \/ failed' = failed /\ errs' = errs
          \/ failed' = [failed EXCEPT ![c] = @ + 1] /\ errs' = [errs EXCEPT ![Relay] = TRUE]
      BY <1>6, <3>1 DEF HandlerEffect
    <3>8. \/ failed'[c] = failed[c] /\ errs' = errs
          \/ failed'[c] = failed[c] + 1
      BY <1>f, <3>7
    <3>2. ran[Relay] \in {0, 1} /\ ran'[Relay] = ran[Relay] + 1
      <4>1. Len(handlers(e)) = 2
        BY <3>1 DEF handlers
      <4> QED BY <1>0, <2>1, <4>1
    <3>3. ~Welcomed(c)
      BY <2>1, <3>2 DEF Welcomed
    <3>4. welcomes[c] <= failed[c]
      BY <3>1, <3>3 DEF Paid
    <3>5. CASE ran[Relay] = 0
      <4>1. welcomes' = welcomes
        BY <1>6, <3>5 DEF HandlerEffect
      <4>2. ~errs[Relay]
        BY <3>5 DEF CleanStart
      <4>3. errs'[Relay] => failed'[c] = failed[c] + 1
        BY <3>8, <4>2
      <4>4. ran'[Relay] = 1 /\ ~Welcomed(c)'
        BY <2>1, <3>2, <3>5 DEF Welcomed
      <4>5. Created(c)' = Created(c)
        BY DEF Created
      <4>6. welcomes'[c] <= failed'[c] /\ (errs'[Relay] => welcomes'[c] < failed'[c])
        BY <1>f, <3>4, <3>8, <4>1, <4>3
      <4>7. welcomes'[c] \in Nat
        BY <1>f, <4>1
      <4> QED BY <1>f, <3>1, <4>6, <4>7 DEF Paid
    <3>6. CASE ran[Relay] = 1
      <4>1. welcomes'[c] \in {welcomes[c], welcomes[c] + 1}
        BY <1>0, <1>6, <3>1, <3>6 DEF HandlerEffect
      <4>2. CASE failed'[c] = failed[c] + 1
        <5>1. welcomes'[c] <= failed'[c] /\ welcomes'[c] <= 1 + failed'[c]
          BY <1>f, <3>4, <4>1, <4>2
        <5> QED BY <2>1, <3>1, <3>2, <3>6, <5>1 DEF Paid
      <4>3. CASE failed'[c] = failed[c]
        <5>1. errs' = errs
          BY <1>f, <3>8, <4>3
        <5>2. CASE errs[Relay]
          <6>1. welcomes[c] < failed[c]
            BY <2>1, <3>1, <3>6, <5>2 DEF Paid
          <6>2. welcomes'[c] <= failed'[c] /\ welcomes'[c] <= 1 + failed'[c]
            BY <1>f, <4>1, <4>3, <6>1
          <6> QED BY <2>1, <3>1, <3>2, <3>6, <6>2 DEF Paid
        <5>3. CASE ~errs[Relay]
          <6>1. Welcomed(c)'
            BY <2>1, <2>2, <3>1, <3>2, <3>6, <5>1, <5>3 DEF Welcomed, Created
          <6>2. welcomes'[c] <= 1 + failed'[c]
            BY <1>f, <3>4, <4>1, <4>3
          <6> QED BY <3>1, <3>2, <3>6, <6>1, <6>2 DEF Paid
        <5> QED BY <5>2, <5>3
      <4> QED BY <3>8, <4>2, <4>3
    <3> QED BY <3>2, <3>5, <3>6
  <2> QED BY <2>6, <2>7
<1>7. CASE Restart
  <2>1. /\ status' = [e \in Event |-> "absent"] /\ pc'[Relay] = "idle"
        /\ UNCHANGED <<asked, welcomes, failed>>
    BY <1>0, <1>7, <1>t, RestartEffect
  <2>2. asked[c] # 0 => Forwarded(K)'
    BY <1>k, <2>1 DEF Forwarded, Created
  <2>3. failed[c] <= failed'[c] /\ welcomes'[c] = welcomes[c]
    BY <1>f, <2>1
  <2> QED BY <1>10, <2>1, <2>2, <2>3
<1>8. ASSUME UNCHANGED <<order, status, batch, pc, asked, welcomes, ran, errs, failed>>
      PROVE  Paid(c)'
  BY <1>8 DEF Paid, Welcomed, Forwarded, At, Current, Created
<1>9. WalkStep => UNCHANGED <<order, status, batch, pc, asked, welcomes, ran, errs, failed>>
  BY <1>t, WalkTypes DEF box, call, faults
<1> QED BY <1>0, <1>t, <1>1, <1>3, <1>4, <1>5, <1>6, <1>7, <1>8, <1>9, StepCases
        DEF CommitEffect, PlaceOrder, box, writes, call, faults, vars

LEMMA FlowInvHolds == ASSUME Flushers = {} PROVE Spec => [](FlowInv /\ CleanStart)
<1>1. Init => CleanStart
  <2> SUFFICES ASSUME Init PROVE CleanStart
    OBVIOUS
  <2>1. errs = [d \in Drainers |-> FALSE]
    BY SameRows DEF Init
  <2> QED BY <2>1 DEF CleanStart, Drainers
<1>2. TypeOK /\ CleanStart /\ [Next]_vars => CleanStart'
  BY CleanStartStep
<1> QED BY <1>1, <1>2, FlowTypeCorrect, InvHolds, OrderHolds, PTL DEF Spec, FlowInv

(* A customer gets no more than one welcome e-mail and one for every call  *)
(* of a handler of its own created event that failed, for any number of    *)
(* restarts and whatever else fails or is in the outbox, as long as nobody *)
(* but the poll loop drains it                                             *)
(* (customer_created_handler.go, relay.go drain, local/bus.go Publish).    *)
THEOREM WelcomesArePaidFor == ASSUME Flushers = {} PROVE Spec => []WelcomesBounded
<1> DEFINE AllPaid == \A c \in Customers : Paid(c)
<1>1. Init => AllPaid
  <2> SUFFICES ASSUME Init, NEW c \in Customers PROVE Paid(c)
    OBVIOUS
  <2>1. asked[c] = 0 /\ welcomes[c] = 0 /\ failed[c] = 0
    BY DEF Init
  <2> QED BY <2>1 DEF Paid
<1>2. FlowInv /\ CleanStart /\ TypeOK' /\ AllPaid /\ [Next]_vars => AllPaid'
  <2> SUFFICES ASSUME FlowInv, CleanStart, TypeOK', AllPaid, [Next]_vars,
                      NEW c \in Customers
               PROVE  Paid(c)'
    OBVIOUS
  <2> QED BY PaidStep
<1>3. AllPaid => WelcomesBounded
  BY DEF Paid, WelcomesBounded
<1> HIDE DEF AllPaid
<1> QED BY <1>1, <1>2, <1>3, FlowInvHolds, FlowTypeCorrect, PTL DEF Spec

-----------------------------------------------------------------------------
(* The read model. *)

(* As long as no handler has failed, no row has.                           *)
NothingFailed ==
  failures = 0 => /\ \A e \in Event : status[e] # "failed"
                  /\ pc[Relay] # "markFailed"
                  /\ ~errs[Relay]

LEMMA NothingFailedStep ==
  ASSUME Flushers = {}, TypeOK, NothingFailed, [Next]_vars
  PROVE  NothingFailed'
<1>0. /\ Drainers = {Relay}
      /\ pc \in [{Relay} -> PCs] /\ errs \in [{Relay} -> BOOLEAN]
      /\ status \in [Event -> {"absent", "pending", "published", "failed"}]
      /\ \A i \in DOMAIN order : order[i] \in Event
      /\ failures \in Nat
  <2>1. failures \in Nat
    BY Types, FlowAssumption
  <2> QED BY <2>1, OneDrainer, Types, OrderFacts
<1>1. ASSUME NEW c \in Customers, AddEffect(c) PROVE NothingFailed'
  BY <1>0, <1>1 DEF AddEffect, NothingFailed, faults
<1>2. ASSUME BeginEffect(Relay) PROVE NothingFailed'
  BY <1>0, <1>2 DEF BeginEffect, NothingFailed, faults
<1>3. ASSUME NEW i \in DOMAIN order, MarkEffect(Relay, i) PROVE NothingFailed'
  BY <1>0, <1>3 DEF MarkEffect, NothingFailed, faults
<1>4. ASSUME NEW i \in DOMAIN order, ReturnEffect(Relay, i) PROVE NothingFailed'
  <2>1. errs' = [errs EXCEPT ![Relay] = FALSE] /\ UNCHANGED <<status, failures>>
    BY <1>4 DEF ReturnEffect, faults
  <2>2. ~errs'[Relay]
    BY <1>0, <2>1
  <2>3. failures = 0 => pc'[Relay] # "markFailed"
    BY <1>0, <1>4 DEF ReturnEffect, NothingFailed
  <2> QED BY <2>1, <2>2, <2>3 DEF NothingFailed
<1>5. ASSUME NEW i \in DOMAIN order, HandlerEffect(Relay, i) PROVE NothingFailed'
  BY <1>0, <1>5 DEF HandlerEffect, NothingFailed
<1>6. CASE Restart
  <2>1. /\ errs' = [d \in {Relay} |-> FALSE] /\ pc' = [d \in {Relay} |-> "idle"]
        /\ status' = [e \in Event |-> "absent"]
    BY <1>0, <1>6, RestartEffect
  <2>2. ~errs'[Relay] /\ pc'[Relay] # "markFailed"
    BY <2>1
  <2> QED BY <2>1, <2>2 DEF NothingFailed
<1>7. ASSUME UNCHANGED <<status, pc, errs, failures>> PROVE NothingFailed'
  BY <1>7 DEF NothingFailed
<1>8. WalkStep => UNCHANGED <<status, pc, errs, failures>>
  BY WalkTypes DEF box, call, faults
<1> QED BY <1>0, <1>1, <1>2, <1>3, <1>4, <1>5, <1>6, <1>7, <1>8, StepCases
        DEF CommitEffect, PlaceOrder, box, writes, call, faults, vars

(* The projection has run for e.  Only the passes of this process and what *)
(* it has forwarded count: absent events were forwarded by an earlier one, *)
(* or lost.                                                                *)
Projected(e) ==
  \/ Forwarded(e)
  \/ /\ At(e)
     /\ \/ pc[Relay] = "markPublished"
        \/ pc[Relay] = "publish" /\ ran[Relay] # 0

Kept(c) == \A e \in lost : e.customer # c

(* The read model is no older than any event it was given.                 *)
Shown ==
  failures = 0 =>
    \A e \in Event :
       e.command <= asked[e.customer] /\ Kept(e.customer) /\ Projected(e)
         => e.command <= reads[e.customer]

(* While nothing fails the versions of a customer are forwarded in order:  *)
(* those below the current one have been, those above it have not.         *)
LEMMA BeforeCurrent ==
  ASSUME Flushers = {}, FlowInv, VersionOrder, NothingFailed, failures = 0,
         NEW i \in DOMAIN order, Current(Relay, i),
         NEW e \in Event, e.customer = order[i].customer, e.command <= asked[e.customer]
  PROVE  Forwarded(e) <=> e.command < order[i].command
<1>0. /\ DOMAIN order \subseteq Nat
      /\ order[i] \in Event /\ order[i].command \in Nat /\ e.command \in Nat
      /\ status[order[i]] \in {"pending", "failed"}
      /\ status \in [Event -> {"absent", "pending", "published", "failed"}]
      /\ TypeOK
  BY FlowInvFacts, OrderFacts, EventFacts, Types
<1>1. CASE status[e] = "absent"
  BY <1>0, <1>1 DEF VersionOrder, Forwarded
<1>2. CASE status[e] # "absent"
  <2>1. PICK j \in DOMAIN order : order[j] = e
    BY <1>2 DEF FlowInv, Rows!OrderInv, Rows!StoreInv, Rows!RowsListedOnce
  <2>2. CASE j = i
    BY <1>0, <2>1, <2>2 DEF Forwarded
  <2>3. CASE j < i
    <3>1. e.command < order[i].command
      BY <2>1, <2>3 DEF VersionOrder
    <3>2. j \notin batch[Relay]
      BY <1>0, <2>3 DEF Current
    <3>3. status[e] \in {"published", "failed"}
      BY <2>1, <2>3, <3>2 DEF FlowInv, Rows!OrderInv, Rows!BatchIsPrefix, Current
    <3> QED BY <3>1, <3>3 DEF NothingFailed, Forwarded
  <2>4. CASE i < j
    <3>1. ~(e.command < order[i].command)
      BY <1>0, <2>1, <2>4 DEF VersionOrder
    <3>2. status[e] # "published"
      BY <1>0, <2>1, <2>4 DEF FlowInv, Rows!OrderInv, Rows!OvertakesOnlyFailed, NothingFailed
    <3> QED BY <1>2, <3>1, <3>2 DEF Forwarded
  <2> QED BY <1>0, <2>2, <2>3, <2>4
<1> QED BY <1>1, <1>2

(* What the projection shows when it has run without an error.             *)
LEMMA ProjectionShows ==
  ASSUME Flushers = {}, FlowInv, VersionOrder, NothingFailed, Shown, failures = 0,
         NEW i \in DOMAIN order, Current(Relay, i), Kept(order[i].customer)
  PROVE  LET x == order[i] IN
         (IF x.command = 1 THEN onCreated(x) ELSE onEmailChanged(x))
           = [reads EXCEPT ![x.customer] = x.command]
<1> DEFINE x == order[i]
           y == [customer |-> x.customer, command |-> x.command - 1]
<1>0. /\ x \in Event /\ x.customer \in Customers /\ x.command \in Nat \ {0}
      /\ reads \in [Customers -> Nat] /\ asked \in [Customers -> Nat]
      /\ x.command <= asked[x.customer] /\ x.command <= MaxCommands[x.customer]
      /\ MaxCommands \in [Customers -> Nat]
  BY FlowInvFacts, EventFacts, OrderFacts, Types, FlowAssumption DEF Written
<1>1. CASE x.command = 1
  BY <1>1 DEF onCreated
<1>2. CASE x.command # 1
  <2>1. y \in Event /\ y.command <= asked[y.customer] /\ y.command < x.command
    BY <1>0, <1>2, EventFacts
  <2>2. Forwarded(y)
    BY <2>1, BeforeCurrent
  <2>3. y.command <= reads[x.customer]
    BY <2>1, <2>2 DEF Shown, Projected
  <2>4. reads[x.customer] # 0
    BY <1>0, <1>2, <2>3
  <2> QED BY <1>2, <2>4 DEF onEmailChanged
<1> QED BY <1>1, <1>2

LEMMA ShownStep ==
  ASSUME Flushers = {}, FlowInv, VersionOrder, NothingFailed, Shown, TypeOK', [Next]_vars
  PROVE  Shown'
<1>0. /\ Drainers = {Relay} /\ TypeOK /\ RanBetween
      /\ pc \in [{Relay} -> PCs] /\ ran \in [{Relay} -> 0 .. 2] /\ errs \in [{Relay} -> BOOLEAN]
      /\ order \in Seq(Event) /\ asked \in [Customers -> Nat] /\ reads \in [Customers -> Nat]
      /\ status \in [Event -> {"absent", "pending", "published", "failed"}]
      /\ batch[Relay] \subseteq DOMAIN order
      /\ failures \in Nat
  <2>1. failures \in Nat
    BY FlowInvFacts, Types, FlowAssumption
  <2> QED BY <2>1, FlowInvFacts, OneDrainer, Types DEF BatchListed
(* A step that leaves the read model alone and projects nothing.           *)
<1>1. ASSUME failures' = 0 => failures = 0, reads' = reads, lost \subseteq lost',
             \A e \in Event :
                /\ e.command <= asked'[e.customer]
                /\ Projected(e)'
                /\ \A f \in lost' : f.customer # e.customer
                => e.command <= asked[e.customer] /\ Projected(e)
      PROVE  Shown'
  BY <1>1 DEF Shown, Kept
<1>2. ASSUME NEW x \in Customers, AddEffect(x) PROVE Shown'
  <2> DEFINE new == [customer |-> x, command |-> asked[x] + 1]
  <2>1. /\ new \in Event /\ status[new] = "absent"
        /\ asked' = [asked EXCEPT ![x] = @ + 1]
        /\ status' = [status EXCEPT ![new] = "pending"]
        /\ order' = Append(order, new)
        /\ UNCHANGED <<batch, pc, reads, ran, failures, lost>>
    BY <1>2 DEF AddEffect, faults
  <2>2. \A f : At(f)' <=> At(f)
    <3>1. \A i \in DOMAIN order : i \in DOMAIN order' /\ order'[i] = order[i]
      BY <1>0, <2>1, OrderAppend
    <3> QED BY <1>0, <2>1, <3>1, AtKept
  <2>3. ~At(new)
    BY <2>1, FlowInvFacts DEF At
  <2>4. ASSUME NEW e \in Event, e.command <= asked'[e.customer], Projected(e)'
        PROVE  e.command <= asked[e.customer] /\ Projected(e)
    <3>1. e # new
      <4> SUFFICES ASSUME e = new PROVE FALSE
        OBVIOUS
      <4>1. status'[e] = "pending"
        BY <1>0, <2>1
      <4>2. ~At(e)'
        BY <2>2, <2>3
      <4> QED BY <2>4, <4>1, <4>2 DEF Projected, Forwarded
    <3>2. e.customer \in Customers /\ e.command \in Nat
      BY EventFacts
    <3>3. e.command <= asked[e.customer]
      <4>1. CASE e.customer = x
        <5>1. e.command # new.command
          BY <2>1, <3>1, <4>1, SameEvent
        <5> QED BY <1>0, <2>1, <2>4, <3>2, <4>1, <5>1
      <4>2. CASE e.customer # x
        BY <1>0, <2>1, <2>4, <3>2, <4>2
      <4> QED BY <4>1, <4>2
    <3>4. status'[e] = status[e]
      BY <1>0, <2>1, <3>1
    <3>5. Projected(e)
      BY <2>1, <2>2, <2>4, <3>4 DEF Projected, Forwarded
    <3> QED BY <3>3, <3>5
  <2> QED BY <1>1, <2>1, <2>4
<1>3. ASSUME BeginEffect(Relay) PROVE Shown'
  <2>1. /\ pc[Relay] = "idle" /\ ran'[Relay] = 0 /\ pc'[Relay] \in {"idle", "publish"}
        /\ UNCHANGED <<status, asked, reads, failures, lost>>
    BY <1>0, <1>3 DEF BeginEffect, RanBetween, faults
  <2>2. \A e \in Event : Projected(e)' => Projected(e)
    BY <2>1 DEF Projected, Forwarded
  <2> QED BY <1>1, <2>1, <2>2
<1>4. ASSUME NEW i \in DOMAIN order, MarkEffect(Relay, i) PROVE Shown'
  <2>1. /\ pc[Relay] \in {"markPublished", "markFailed"} /\ Current(Relay, i)
        /\ ran'[Relay] = 0 /\ pc'[Relay] \in {"idle", "publish"}
        /\ UNCHANGED <<asked, reads, failures, lost>>
    BY <1>0, <1>4 DEF MarkEffect, RanBetween, faults
  <2>2. ASSUME NEW e \in Event, Projected(e)' PROVE Projected(e)
    <3>1. Forwarded(e)'
      BY <2>1, <2>2 DEF Projected
    <3>2. Forwarded(e) \/ (e = order[i] /\ pc[Relay] = "markPublished")
      BY <1>0, <1>4, <3>1, FlowInvFacts DEF MarkEffect, Forwarded
    <3> QED BY <2>1, <3>2 DEF Projected, At
  <2> QED BY <1>1, <2>1, <2>2
<1>5. ASSUME NEW i \in DOMAIN order, ReturnEffect(Relay, i) PROVE Shown'
  <2>1. /\ UNCHANGED <<status, order, batch, asked, reads, failures, lost>>
        /\ pc[Relay] = "publish" /\ ran[Relay] = Len(handlers(order[i]))
    BY <1>5 DEF ReturnEffect, faults
  <2>2. ran[Relay] # 0
    BY <2>1 DEF handlers
  <2>3. \A e : At(e)' <=> At(e)
    BY <1>0, <2>1, AtKept
  <2>4. \A e \in Event : Projected(e)' => Projected(e)
    BY <2>1, <2>2, <2>3 DEF Projected, Forwarded
  <2> QED BY <1>1, <2>1, <2>4
<1>6. ASSUME NEW i \in DOMAIN order, HandlerEffect(Relay, i) PROVE Shown'
  <2> DEFINE x == order[i]
  <2>1. /\ UNCHANGED <<status, order, batch, pc, asked, lost>>
        /\ pc[Relay] = "publish" /\ Current(Relay, i)
        /\ failures' \in {failures, failures + 1}
    BY <1>6 DEF HandlerEffect
  <2>2. \A e : At(e) <=> e = x
    BY <1>0, <2>1, AtFacts
  <2>3. \A e : At(e)' <=> At(e)
    BY <1>0, <2>1, AtKept
  <2>4. \A e \in Event : Projected(e)' => Forwarded(e) \/ e = x
    BY <2>1, <2>2, <2>3 DEF Projected, Forwarded
  <2>5. x \in Event /\ x.customer \in Customers /\ x.command \in Nat
    BY FlowInvFacts
  <2>6. CASE failures' # 0
    BY <2>6 DEF Shown
  <2>7. CASE failures' = 0
    <3>1. failures = 0 /\ failures' = failures
      BY <1>0, <2>1, <2>7
    <3>2. \/ /\ ran[Relay] = 0
             /\ reads' = IF x.command = 1 THEN onCreated(x) ELSE onEmailChanged(x)
          \/ ran[Relay] = 1 /\ reads' = reads
      BY <1>0, <1>6, <3>1 DEF HandlerEffect
    <3>3. CASE ran[Relay] = 1 /\ reads' = reads
      <4>1. Projected(x)
        BY <2>1, <2>2, <3>3 DEF Projected
      <4>2. \A e \in Event : Projected(e)' => Projected(e)
        BY <2>4, <4>1 DEF Projected
      <4> QED BY <1>1, <2>1, <3>1, <3>3, <4>2
    <3>4. CASE /\ ran[Relay] = 0
               /\ reads' = IF x.command = 1 THEN onCreated(x) ELSE onEmailChanged(x)
      <4>1. ASSUME NEW e \in Event, e.command <= asked[e.customer], Kept(e.customer),
                   Projected(e)'
            PROVE  e.command <= reads'[e.customer]
        <5>0. e.customer \in Customers /\ e.command \in Nat
          BY EventFacts
        <5>1. CASE e.customer # x.customer
          <6>1. Projected(e)
            BY <2>4, <4>1, <5>1 DEF Projected
          <6>2. reads'[e.customer] = reads[e.customer]
            BY <1>0, <3>4, <5>0, <5>1 DEF onCreated, onEmailChanged
          <6> QED BY <3>1, <4>1, <6>1, <6>2 DEF Shown
        <5>2. CASE e.customer = x.customer
          <6>1. reads'[x.customer] = x.command
            BY <1>0, <2>1, <2>5, <3>1, <3>4, <4>1, <5>2, ProjectionShows
          <6>2. Forwarded(e) => e.command < x.command
            BY <2>1, <3>1, <4>1, <5>2, BeforeCurrent
          <6> QED BY <2>4, <2>5, <4>1, <5>0, <5>2, <6>1, <6>2
        <5> QED BY <5>1, <5>2
      <4> QED BY <2>1, <4>1 DEF Shown, Kept
    <3> QED BY <3>2, <3>3, <3>4
  <2> QED BY <2>6, <2>7
<1>7. CASE Restart
  <2>1. /\ UNCHANGED <<asked, reads, failures>>
        /\ lost' = lost \cup {e \in Event : status[e] \in {"pending", "failed"}}
    BY <1>0, <1>7, RestartEffect
  <2>2. \A e \in Event : (\A f \in lost' : f.customer # e.customer) => Projected(e)
    BY <1>0, <2>1 DEF Projected, Forwarded
  <2> QED BY <1>1, <2>1, <2>2
<1>8. ASSUME UNCHANGED <<order, status, batch, pc, asked, reads, ran, failures, lost>>
      PROVE  Shown'
  BY <1>8 DEF Shown, Projected, Forwarded, At, Current, Kept
<1>9. WalkStep => UNCHANGED <<order, status, batch, pc, asked, reads, ran, failures, lost>>
  BY <1>0, WalkTypes DEF box, call, faults
<1> QED BY <1>0, <1>2, <1>3, <1>4, <1>5, <1>6, <1>7, <1>8, <1>9, StepCases
        DEF CommitEffect, PlaceOrder, box, writes, call, faults, vars

(* What keeps the read model in step with the outbox. *)
InStep == VersionOrder /\ NothingFailed /\ Shown

LEMMA InStepHolds == ASSUME Flushers = {} PROVE Spec => [](FlowInv /\ InStep)
<1>1. Init => InStep
  <2> SUFFICES ASSUME Init PROVE InStep
    OBVIOUS
  <2>1. /\ order = << >> /\ status = [e \in Event |-> "absent"]
        /\ pc = [d \in Drainers |-> "idle"] /\ errs = [d \in Drainers |-> FALSE]
        /\ asked = [c \in Customers |-> 0]
    BY SameRows DEF Init, Box!Init
  <2>2. VersionOrder
    BY <2>1 DEF VersionOrder
  <2>3. NothingFailed
    <3>1. pc[Relay] # "markFailed" /\ ~errs[Relay]
      BY <2>1 DEF Drainers
    <3> QED BY <2>1, <3>1 DEF NothingFailed
  <2>4. \A e \in Event : ~(e.command <= asked[e.customer])
    BY <2>1, EventFacts
  <2> QED BY <2>2, <2>3, <2>4 DEF InStep, Shown
<1>2. FlowInv /\ TypeOK' /\ InStep /\ [Next]_vars => InStep'
  <2> SUFFICES ASSUME FlowInv, TypeOK', InStep, [Next]_vars PROVE InStep'
    OBVIOUS
  <2>1. TypeOK /\ Written /\ Rows!StoreInv
    BY DEF FlowInv, Inv, Rows!OrderInv
  <2>2. VersionOrder' /\ NothingFailed'
    BY <2>1, VersionOrderStep, NothingFailedStep DEF InStep
  <2>3. Shown'
    BY ShownStep DEF InStep
  <2> QED BY <2>2, <2>3 DEF InStep
<1> QED BY <1>1, <1>2, FlowInvHolds, FlowTypeCorrect, PTL DEF Spec

(* The read model is ahead of the committed rows only by a command that is *)
(* still to be committed, or failed to be; and when no handler has failed  *)
(* and the outbox is drained, it shows the committed address of every      *)
(* customer whose last command is not one of those and of whom no restart  *)
(* lost an event.  The poll loop must be the only drainer: a second one may*)
(* bring an older address back (relay.go drain, store.go FetchPending,     *)
(* postgres_read_model.go, transaction.go:49-55).                          *)
THEOREM ReadModelFollows == ASSUME Flushers = {} PROVE Spec => []ReadsFollowWrites
<1>1. FlowInv /\ InStep /\ TxInv => ReadsFollowWrites
  <2> SUFFICES ASSUME FlowInv, InStep, TxInv PROVE ReadsFollowWrites
    OBVIOUS
  <2>0. /\ asked \in [Customers -> Nat] /\ reads \in [Customers -> Nat]
        /\ table \in [Customers -> Nat]
        /\ \A c \in Customers : reads[c] <= asked[c] /\ asked[c] <= MaxCommands[c]
        /\ MaxCommands \in [Customers -> Nat]
    BY Types, FlowAssumption DEF FlowInv, Inv, Written
  <2>1. ASSUME NEW c \in Customers
        PROVE  \/ reads[c] <= table[c]
               \/ open[c] /\ reads[c] = asked[c]
               \/ [customer |-> c, command |-> reads[c]] \in aborted
    BY <2>0 DEF TxInv
  <2>2. ASSUME failures = 0, Drained, NEW c \in Customers, Kept(c)
        PROVE  reads[c] = asked[c]
    <3>1. CASE asked[c] = 0
      BY <2>0, <3>1
    <3>2. CASE asked[c] # 0
      <4> DEFINE e == [customer |-> c, command |-> asked[c]]
      <4>1. e \in Event
        BY <2>0, <3>2, EventFacts
      <4>2. Projected(e)
        BY <2>2, <4>1 DEF Drained, Projected
      <4>3. e.command <= reads[e.customer]
        BY <2>0, <2>2, <4>1, <4>2 DEF InStep, Shown
      <4> QED BY <2>0, <4>3
    <3> QED BY <3>1, <3>2
  <2>3. ASSUME NEW c \in Customers, ~open[c], Asked(c) \notin aborted
        PROVE  table[c] = asked[c]
    <3>1. table[c] <= asked[c] /\ ~(table[c] < asked[c])
      BY <2>0, <2>3 DEF TxInv, Asked
    <3> QED BY <2>0, <3>1
  <2> QED BY <2>1, <2>2, <2>3 DEF ReadsFollowWrites, Kept
<1> QED BY <1>1, InStepHolds, TxHolds, PTL

=============================================================================
