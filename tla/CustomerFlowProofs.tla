------------------------- MODULE CustomerFlowProofs -------------------------
(***************************************************************************)
(* What holds of the wired contexts for any customers and addresses, any   *)
(* order of the list, any page size, any number of failing handlers, of    *)
(* restarts and of drains at a time.                                       *)
(***************************************************************************)
EXTENDS CustomerFlow, FiniteSetTheorems, TLAPS

Drainers == {Relay} \cup Flushers
PCs == {"idle", "publish", "markPublished", "markFailed", "stopped"}

(* An event is the customer it is about and the number of its command. *)
LEMMA EventFacts ==
  /\ \A e \in Event : /\ e.customer \in Customers
                      /\ e.command \in 1 .. MaxCommands[e.customer]
                      /\ e.command \in Nat \ {0}
                      /\ e.command = 1 => e = Created(e.customer)
  /\ \A c \in Customers : \A v \in 1 .. MaxCommands[c] : [customer |-> c, command |-> v] \in Event
<1>1. MaxCommands \in [Customers -> Nat]
  BY FlowAssumption
<1>2. ASSUME NEW e \in Event
      PROVE  /\ e.customer \in Customers
             /\ e.command \in 1 .. MaxCommands[e.customer]
             /\ e.command \in Nat \ {0}
             /\ e.command = 1 => e = Created(e.customer)
  <2>1. PICK c \in Customers : e \in [customer : {c}, command : 1 .. MaxCommands[c]]
    BY DEF Event
  <2> QED BY <1>1, <2>1 DEF Created
<1>3. ASSUME NEW c \in Customers, NEW v \in 1 .. MaxCommands[c]
      PROVE  [customer |-> c, command |-> v] \in Event
  <2>1. [customer |-> c, command |-> v] \in [customer : {c}, command : 1 .. MaxCommands[c]]
    OBVIOUS
  <2> QED BY <2>1 DEF Event
<1> QED BY <1>2, <1>3

(* TypeOK, with the outbox's part written out. *)
LEMMA Types ==
  TypeOK <=> /\ order \in Seq(Event)
             /\ status \in [Event -> {"absent", "pending", "published", "failed"}]
             /\ batch \in [Drainers -> SUBSET Nat]
             /\ pc \in [Drainers -> PCs]
             /\ ctxDone \in BOOLEAN
             /\ accepted \subseteq Event
             /\ asked \in [Customers -> Nat]
             /\ table \in [Customers -> Nat]
             /\ open \in [Customers -> BOOLEAN]
             /\ aborted \subseteq [customer : Customers, command : Nat]
             /\ reads \in [Customers -> Nat]
             /\ welcomes \in [Customers -> Nat]
             /\ orders \subseteq Customers
             /\ ran \in [Drainers -> 0 .. 2]
             /\ errs \in [Drainers -> BOOLEAN]
             /\ failures \in 0 .. MaxFailures
             /\ failed \in [Customers -> Nat]
             /\ restarts \in 0 .. MaxRestarts
             /\ lost \subseteq Event
             /\ walk \in Walk
BY DEF TypeOK, Box!TypeOK, Box!Drainers, Drainers, PCs

-----------------------------------------------------------------------------
(* The steps, with the outbox's part written out. *)

Current(d, i) == i \in batch[d] /\ \A j \in batch[d] : i <= j

AddEffect(c) ==
  LET e == [customer |-> c, command |-> asked[c] + 1] IN
  /\ c \in Customers
  /\ e \in Event
  /\ status[e] = "absent"
  /\ ~open[c]
  /\ asked[c] = 0 \/ table[c] # 0
  /\ asked' = [asked EXCEPT ![c] = @ + 1]
  /\ open' = [open EXCEPT ![c] = TRUE]
  /\ status' = [status EXCEPT ![e] = "pending"]
  /\ order' = Append(order, e)
  /\ UNCHANGED <<batch, pc, ctxDone, accepted, table, aborted,
                 reads, welcomes, orders, ran, errs, faults, walk>>

LEMMA PublishEventEffect ==
  ASSUME TypeOK, NEW c \in Customers, PublishEvent(c)
  PROVE  AddEffect(c)
<1>1. asked[c] + 1 \in 1 .. MaxCommands[c]
  BY Types, FlowAssumption DEF PublishEvent
<1>2. [customer |-> c, command |-> asked[c] + 1] \in Event
  BY <1>1, EventFacts
<1> QED BY <1>2 DEF PublishEvent, Box!Add, AddEffect, call

(* The end of the transaction, one way or the other. *)
CommitEffect(c) ==
  /\ c \in Customers
  /\ open[c]
  /\ open' = [open EXCEPT ![c] = FALSE]
  /\ \/ table' = [table EXCEPT ![c] = asked[c]] /\ aborted' = aborted
     \/ table' = table /\ aborted' = aborted \cup {Asked(c)}
  /\ UNCHANGED <<order, status, batch, pc, ctxDone, accepted, asked,
                 reads, welcomes, orders, ran, errs, faults, walk>>

LEMMA CommandEffect ==
  ASSUME TypeOK, NEW c \in Customers, Command(c)
  PROVE  AddEffect(c) \/ CommitEffect(c)
BY PublishEventEffect DEF Command, Commit, CommitFails, CommitEffect, box, call

LEMMA OrderAppend ==
  ASSUME NEW e \in Event, order \in Seq(Event)
  PROVE  /\ Append(order, e) \in Seq(Event)
         /\ DOMAIN order = 1 .. Len(order)
         /\ Len(order) \in Nat
         /\ DOMAIN Append(order, e) = 1 .. (Len(order) + 1)
         /\ \A i \in DOMAIN order : Append(order, e)[i] = order[i]
         /\ Append(order, e)[Len(order) + 1] = e
OBVIOUS

BeginEffect(d) ==
  /\ pc[d] = "idle"
  /\ \E b \in SUBSET DOMAIN order :
       /\ \A i \in b : status[order[i]] # "published"
       /\ batch' = [batch EXCEPT ![d] = b]
       /\ pc' = [pc EXCEPT ![d] = IF b = {} THEN "idle" ELSE "publish"]
  /\ UNCHANGED <<order, status, ctxDone, accepted, asked, db, reads, welcomes, orders,
                 ran, errs, faults, walk>>

MarkEffect(d, i) ==
  /\ Current(d, i)
  /\ \/ pc[d] = "markPublished" /\ status' = [status EXCEPT ![order[i]] = "published"]
     \/ pc[d] = "markFailed" /\ status' = [status EXCEPT ![order[i]] = "failed"]
  /\ batch' = [batch EXCEPT ![d] = @ \ {i}]
  /\ pc' = [pc EXCEPT ![d] = IF batch[d] = {i} THEN "idle" ELSE "publish"]
  /\ UNCHANGED <<order, ctxDone, accepted, asked, db, reads, welcomes, orders,
                 ran, errs, faults, walk>>

LEMMA StoreEffect ==
  ASSUME TypeOK, NEW d \in Drainers, StoreStep(d)
  PROVE  BeginEffect(d) \/ \E i \in DOMAIN order : MarkEffect(d, i)
<1>1. CASE Box!BeginDrain(d)
  <2> DEFINE b == Box!FetchPending(Box!batchSize)
  <2>1. b \subseteq DOMAIN order /\ \A i \in b : status[order[i]] # "published"
    BY DEF Box!FetchPending, Box!Unpublished
  <2>2. batch'[d] = b
    BY <1>1, Types DEF Box!BeginDrain
  <2> QED BY <1>1, <2>1, <2>2 DEF Box!BeginDrain, StoreStep, BeginEffect, writes, call
<1>2. ASSUME NEW i \in DOMAIN order, Box!MarkPublished(d, i) \/ Box!MarkFailed(d, i)
      PROVE  MarkEffect(d, i)
  BY <1>2 DEF Box!MarkPublished, Box!MarkFailed, Box!FinishRow, Box!IsCurrent, Current,
              StoreStep, MarkEffect, writes, call
<1> QED BY <1>1, <1>2 DEF StoreStep

ReturnEffect(d, i) ==
  /\ pc[d] = "publish"
  /\ Current(d, i)
  /\ ran[d] = Len(handlers(order[i]))
  /\ \/ /\ errs[d]
        /\ pc' = [pc EXCEPT ![d] = "markFailed"]
        /\ accepted' = accepted
     \/ /\ ~errs[d]
        /\ pc' = [pc EXCEPT ![d] = "markPublished"]
        /\ accepted' = accepted \cup {order[i]}
  /\ ran' = [ran EXCEPT ![d] = 0]
  /\ errs' = [errs EXCEPT ![d] = FALSE]
  /\ UNCHANGED <<order, status, batch, ctxDone, asked, db, reads, welcomes, orders, faults, walk>>

LEMMA PublishEffect ==
  ASSUME NEW d \in Drainers, NEW i \in DOMAIN order, PublishReturns(d, i)
  PROVE  ReturnEffect(d, i)
BY DEF PublishReturns, Box!PublishErr, Box!PublishOK, Box!IsCurrent, Current, ReturnEffect, writes

(* One handler of the event at position i. *)
HandlerEffect(d, i) ==
  /\ pc[d] = "publish"
  /\ Current(d, i)
  /\ ran[d] < Len(handlers(order[i]))
  /\ ran' = [ran EXCEPT ![d] = @ + 1]
  /\ LET e == order[i]
         done == \/ /\ ran[d] = 0
                    /\ reads' = IF e.command = 1 THEN onCreated(e) ELSE onEmailChanged(e)
                    /\ welcomes' = welcomes
                 \/ /\ ran[d] = 1 /\ e.command = 1
                    /\ welcomes' = [welcomes EXCEPT ![e.customer] = @ + 1]
                    /\ reads' = reads
     IN \/ done /\ failures' = failures /\ failed' = failed /\ errs' = errs
        \/ /\ done \/ UNCHANGED <<reads, welcomes>>
           /\ failures < MaxFailures
           /\ failures' = failures + 1
           /\ failed' = IF e.command = 1 THEN [failed EXCEPT ![e.customer] = @ + 1] ELSE failed
           /\ errs' = [errs EXCEPT ![d] = TRUE]
  /\ UNCHANGED <<order, status, batch, pc, ctxDone, accepted, asked, db, orders,
                 restarts, lost, walk>>

LEMMA HandlerEffects ==
  ASSUME TypeOK, NEW d \in Drainers, NEW i \in DOMAIN order,
         HandlerSucceeds(d, i) \/ HandlerFails(d, i)
  PROVE  HandlerEffect(d, i)
<1> DEFINE e == order[i]
           done == \/ /\ ran[d] = 0
                      /\ reads' = IF e.command = 1 THEN onCreated(e) ELSE onEmailChanged(e)
                      /\ welcomes' = welcomes
                   \/ /\ ran[d] = 1 /\ e.command = 1
                      /\ welcomes' = [welcomes EXCEPT ![e.customer] = @ + 1]
                      /\ reads' = reads
<1>1. ran[d] \in 0 .. 2 /\ ran[d] < Len(handlers(e))
  BY Types DEF HandlerSucceeds, HandlerFails, CountFailure, Calling
<1>2. Len(handlers(e)) = IF e.command = 1 THEN 2 ELSE 1
  BY DEF handlers
<1>3. \/ ran[d] = 0 /\ handlers(e)[ran[d] + 1] = "projection"
      \/ ran[d] = 1 /\ e.command = 1 /\ handlers(e)[ran[d] + 1] = "welcome"
  BY <1>1, <1>2 DEF handlers
<1>4. Effect(handlers(e)[ran[d] + 1], e) => done
  BY <1>3 DEF Effect, Project, SendWelcome
<1> HIDE DEF done
<1>5. Calling(d, i) /\ ran' = [ran EXCEPT ![d] = @ + 1]
  BY DEF HandlerSucceeds, HandlerFails, CountFailure
<1>6. \/ done /\ failures' = failures /\ failed' = failed /\ errs' = errs
      \/ /\ done \/ UNCHANGED <<reads, welcomes>>
         /\ failures < MaxFailures
         /\ failures' = failures + 1
         /\ failed' = IF e.command = 1 THEN [failed EXCEPT ![e.customer] = @ + 1] ELSE failed
         /\ errs' = [errs EXCEPT ![d] = TRUE]
  BY <1>4 DEF HandlerSucceeds, HandlerFails, CountFailure, faults
<1>7. UNCHANGED <<order, status, batch, pc, ctxDone, accepted, asked, db, orders,
                  restarts, lost, walk>>
  BY DEF HandlerSucceeds, HandlerFails, box, writes, faults
<1> QED BY <1>5, <1>6, <1>7 DEF HandlerEffect, Calling, Box!IsCurrent, Current, done

LEMMA OrderFacts ==
  ASSUME TypeOK
  PROVE  /\ order \in Seq(Event)
         /\ DOMAIN order = 1 .. Len(order)
         /\ Len(order) \in Nat
         /\ \A i \in DOMAIN order : order[i] \in Event
BY Types

(* Every step is one of these. *)
LEMMA StepCases ==
  ASSUME TypeOK, [Next]_vars
  PROVE  \/ \E c \in Customers : AddEffect(c) \/ CommitEffect(c) \/ PlaceOrder(c)
         \/ \E d \in Drainers : BeginEffect(d)
         \/ \E d \in Drainers : \E i \in DOMAIN order :
              MarkEffect(d, i) \/ HandlerEffect(d, i) \/ ReturnEffect(d, i)
         \/ WalkStep
         \/ Restart
         \/ UNCHANGED vars
<1>1. ASSUME NEW d \in Drainers, DrainStep(d)
      PROVE  \/ BeginEffect(d)
             \/ \E i \in DOMAIN order :
                  MarkEffect(d, i) \/ HandlerEffect(d, i) \/ ReturnEffect(d, i)
  BY <1>1, StoreEffect, HandlerEffects, PublishEffect DEF DrainStep
<1>2. Box!Drainers = Drainers
  BY DEF Box!Drainers, Drainers
<1> QED BY <1>1, <1>2, CommandEffect DEF Next

-----------------------------------------------------------------------------
(* Type correctness. *)

LEMMA CustomersFinite == IsFiniteSet(Customers)
BY ListAssumption

LEMMA WalkTypes ==
  ASSUME TypeOK, WalkStep
  PROVE  /\ walk' \in Walk
         /\ UNCHANGED <<box, writes, reads, welcomes, orders, call, faults>>
         /\ UNCHANGED <<asked, db>>
<1>1. walk \in Walk
  BY Types
<1>2. ASSUME NEW l \in AskedLimits, StartWalk(l) PROVE walk' \in Walk
  BY <1>2, ListAssumption DEF StartWalk, NoWalk, Walk, Listed
<1>3. ASSUME QueryPage PROVE walk' \in Walk
  <2>1. \A m, n : Page(m, n) \subseteq Customers
    BY DEF Page, Listed
  <2> QED BY <1>1, <1>3, <2>1 DEF QueryPage, Walk
<1>4. ASSUME ReturnResult PROVE walk' \in Walk
  <2>1. Cardinality(walk.page) \in Nat
    BY <1>1, CustomersFinite, FS_Subset, FS_CardinalityType DEF Walk
  <2> DEFINE n == walk.offset + Cardinality(walk.page)
             l == walk.left \ walk.page
  <2>2. \/ walk' = [NoWalk EXCEPT !.left = l]
        \/ walk' = [walk EXCEPT !.at = "page", !.offset = n, !.page = {}, !.left = l]
    BY <1>4 DEF ReturnResult
  <2>3. n \in Nat /\ l \subseteq Customers
    BY <1>1, <2>1 DEF Walk
  <2> HIDE DEF n, l
  <2>4. [NoWalk EXCEPT !.left = l] \in Walk
    BY <2>3 DEF Walk, NoWalk
  <2>5. [walk EXCEPT !.at = "page", !.offset = n, !.page = {}, !.left = l] \in Walk
    BY <1>1, <2>3 DEF Walk
  <2> QED BY <2>2, <2>4, <2>5
<1> QED BY <1>2, <1>3, <1>4 DEF WalkStep, StartWalk, QueryPage, ReturnResult, writes

(* A fresh outbox, and nothing under way. *)
LEMMA RestartEffect ==
  ASSUME TypeOK, Restart
  PROVE  /\ lost' = lost \cup {e \in Event : status[e] \in {"pending", "failed"}}
         /\ order' = << >>
         /\ status' = [e \in Event |-> "absent"]
         /\ batch' = [d \in Drainers |-> {}]
         /\ pc' = [d \in Drainers |-> "idle"]
         /\ accepted' = {} /\ orders' = {}
         /\ ran' = [d \in Drainers |-> 0]
         /\ errs' = [d \in Drainers |-> FALSE]
         /\ walk' = NoWalk
         /\ restarts' \in 0 .. MaxRestarts
         /\ open' = [c \in Customers |-> FALSE]
         /\ aborted' = aborted \cup {Asked(c) : c \in {x \in Customers : open[x]}}
         /\ UNCHANGED <<ctxDone, asked, table, reads, welcomes, failures, failed>>
<1>1. {e \in Event : ~Forwarded(e)} = {e \in Event : status[e] \in {"pending", "failed"}}
  BY Types DEF Forwarded
<1>2. restarts' \in 0 .. MaxRestarts
  BY Types, FlowAssumption DEF Restart
<1> QED BY <1>1, <1>2 DEF Restart, Box!Drainers, Drainers

LEMMA InitTypes ==
  ASSUME Init
  PROVE  TypeOK
<1>5. order = << >> /\ accepted \subseteq Event /\ ctxDone \in BOOLEAN
  BY DEF Init, Box!Init
<1>6. order \in Seq(Event)
  <2>1. << >> \in Seq(Event)
    OBVIOUS
  <2> QED BY <2>1, <1>5
<1>1. /\ status \in [Event -> {"absent", "pending", "published", "failed"}]
      /\ batch \in [Drainers -> SUBSET Nat]
  BY DEF Init, Box!Init, Box!Drainers, Drainers
<1>4. pc \in [Drainers -> PCs]
  BY DEF Init, Box!Init, Box!Drainers, Drainers, PCs
<1>2. /\ ran \in [Drainers -> 0 .. 2] /\ errs \in [Drainers -> BOOLEAN]
      /\ failures \in 0 .. MaxFailures /\ restarts \in 0 .. MaxRestarts
      /\ open \in [Customers -> BOOLEAN]
  BY FlowAssumption DEF Init, Box!Drainers, Drainers
<1>3. walk \in Walk
  BY DEF Init, NoWalk, Walk
<1> QED BY <1>1, <1>2, <1>3, <1>4, <1>5, <1>6, Types DEF Init

LEMMA StepKeepsTypes ==
  ASSUME TypeOK, [Next]_vars
  PROVE  TypeOK'
<1>0. TypeOK' <=> /\ order' \in Seq(Event)
                  /\ status' \in [Event -> {"absent", "pending", "published", "failed"}]
                  /\ batch' \in [Drainers -> SUBSET Nat]
                  /\ pc' \in [Drainers -> PCs]
                  /\ ctxDone' \in BOOLEAN
                  /\ accepted' \subseteq Event
                  /\ asked' \in [Customers -> Nat]
                  /\ table' \in [Customers -> Nat]
                  /\ open' \in [Customers -> BOOLEAN]
                  /\ aborted' \subseteq [customer : Customers, command : Nat]
                  /\ reads' \in [Customers -> Nat]
                  /\ welcomes' \in [Customers -> Nat]
                  /\ orders' \subseteq Customers
                  /\ ran' \in [Drainers -> 0 .. 2]
                  /\ errs' \in [Drainers -> BOOLEAN]
                  /\ failures' \in 0 .. MaxFailures
                  /\ failed' \in [Customers -> Nat]
                  /\ restarts' \in 0 .. MaxRestarts
                  /\ lost' \subseteq Event
                  /\ walk' \in Walk
  BY DEF TypeOK, Box!TypeOK, Box!Drainers, Drainers, PCs
<1>1. ASSUME NEW c \in Customers, AddEffect(c) PROVE TypeOK'
  <2>1. open' \in [Customers -> BOOLEAN]
    <3>1. open' = [open EXCEPT ![c] = TRUE] /\ open \in [Customers -> BOOLEAN]
      BY <1>1, Types DEF AddEffect
    <3> QED BY <3>1
  <2> DEFINE e == [customer |-> c, command |-> asked[c] + 1]
  <2>2. /\ e \in Event /\ status' = [status EXCEPT ![e] = "pending"]
        /\ order' = Append(order, e) /\ asked' = [asked EXCEPT ![c] = @ + 1]
        /\ UNCHANGED <<batch, pc, ctxDone, accepted, table, aborted,
                       reads, welcomes, orders, ran, errs, faults, walk>>
    BY <1>1 DEF AddEffect
  <2> HIDE DEF e
  <2>3. order' \in Seq(Event)
    BY <2>2, Types, OrderAppend
  <2>4. /\ status' \in [Event -> {"absent", "pending", "published", "failed"}]
        /\ asked' \in [Customers -> Nat]
    BY <2>2, Types
  <2>5. UNCHANGED <<batch, pc, ctxDone, accepted, table, aborted, reads, welcomes, orders,
                   ran, errs, failures, failed, restarts, lost, walk>>
    BY <2>2 DEF faults
  <2> QED BY <1>0, <2>1, <2>3, <2>4, <2>5, Types
<1>10. ASSUME NEW c \in Customers, CommitEffect(c) PROVE TypeOK'
  <2>1. Asked(c) \in [customer : Customers, command : Nat]
    BY Types DEF Asked
  <2>2. open' \in [Customers -> BOOLEAN]
    <3>1. open' = [open EXCEPT ![c] = FALSE] /\ open \in [Customers -> BOOLEAN]
      BY <1>10, Types DEF CommitEffect
    <3> QED BY <3>1
  <2>3. table' \in [Customers -> Nat] /\ aborted' \subseteq [customer : Customers, command : Nat]
    BY <1>10, <2>1, Types DEF CommitEffect
  <2>4. UNCHANGED <<order, status, batch, pc, ctxDone, accepted, asked,
                   reads, welcomes, orders, ran, errs, faults, walk>>
    BY <1>10 DEF CommitEffect
  <2> QED BY <1>0, <2>2, <2>3, <2>4, Types DEF faults
<1>2. ASSUME NEW c \in Customers, PlaceOrder(c) PROVE TypeOK'
  BY <1>0, <1>2, Types DEF PlaceOrder, Save, box, writes, db, call, faults
<1>3. ASSUME NEW d \in Drainers, BeginEffect(d) PROVE TypeOK'
  BY <1>0, <1>3, Types, OrderFacts DEF BeginEffect, db, faults, PCs
<1>4. ASSUME NEW d \in Drainers, NEW i \in DOMAIN order, MarkEffect(d, i) PROVE TypeOK'
  BY <1>0, <1>4, Types, OrderFacts DEF MarkEffect, db, faults, PCs
<1>5. ASSUME NEW d \in Drainers, NEW i \in DOMAIN order, ReturnEffect(d, i) PROVE TypeOK'
  <2>1. order[i] \in Event
    BY OrderFacts
  <2>2. pc' \in [Drainers -> PCs] /\ accepted' \subseteq Event
    BY <1>5, <2>1, Types DEF ReturnEffect, PCs
  <2>3. errs' \in [Drainers -> BOOLEAN]
    <3>1. errs \in [Drainers -> BOOLEAN] /\ errs' = [errs EXCEPT ![d] = FALSE]
      BY <1>5, Types DEF ReturnEffect
    <3> QED BY <3>1
  <2>4. ran' \in [Drainers -> 0 .. 2]
    <3>1. ran \in [Drainers -> 0 .. 2] /\ ran' = [ran EXCEPT ![d] = 0]
      BY <1>5, Types DEF ReturnEffect
    <3> QED BY <3>1
  <2>5. UNCHANGED <<order, status, batch, ctxDone, asked, db, reads, welcomes, orders, faults, walk>>
    BY <1>5 DEF ReturnEffect
  <2> QED BY <1>0, <2>2, <2>3, <2>4, <2>5, Types DEF db, faults
<1>6. ASSUME NEW d \in Drainers, NEW i \in DOMAIN order, HandlerEffect(d, i) PROVE TypeOK'
  <2>1. order[i] \in Event /\ order[i].customer \in Customers /\ order[i].command \in Nat
    BY OrderFacts, EventFacts
  <2>2. reads' \in [Customers -> Nat]
    BY <1>6, <2>1, Types DEF HandlerEffect, onCreated, onEmailChanged
  <2> DEFINE x == order[i].customer
  <2>9. /\ [welcomes EXCEPT ![x] = @ + 1] \in [Customers -> Nat]
        /\ [failed EXCEPT ![x] = @ + 1] \in [Customers -> Nat]
    <3>1. x \in Customers /\ welcomes \in [Customers -> Nat] /\ failed \in [Customers -> Nat]
      BY <2>1, Types
    <3> HIDE DEF x
    <3> QED BY <3>1
  <2>3. welcomes' \in [Customers -> Nat]
    <3>1. welcomes' \in {welcomes, [welcomes EXCEPT ![x] = @ + 1]}
      BY <1>6 DEF HandlerEffect
    <3> HIDE DEF x
    <3> QED BY <2>9, <3>1, Types
  <2>4. Len(handlers(order[i])) \in {1, 2}
    BY DEF handlers
  <2>5. ran' \in [Drainers -> 0 .. 2]
    <3>1. ran \in [Drainers -> 0 .. 2] /\ ran' = [ran EXCEPT ![d] = @ + 1]
          /\ ran[d] < Len(handlers(order[i]))
      BY <1>6, Types DEF HandlerEffect
    <3>2. ran[d] \in 0 .. 2
      BY <3>1
    <3>3. ran[d] + 1 \in 0 .. 2
      <4> DEFINE n == Len(handlers(order[i]))
      <4>1. n \in {1, 2} /\ ran[d] < n
        BY <2>4, <3>1
      <4> HIDE DEF n
      <4> QED BY <4>1, <3>2
    <3> QED BY <3>1, <3>3
  <2>6. errs' \in [Drainers -> BOOLEAN] /\ failures' \in 0 .. MaxFailures
    <3>1. errs \in [Drainers -> BOOLEAN] /\ failures \in 0 .. MaxFailures /\ MaxFailures \in Nat
      BY Types, FlowAssumption
    <3>2. \/ failures' = failures /\ errs' = errs
          \/ /\ failures < MaxFailures /\ failures' = failures + 1
             /\ errs' = [errs EXCEPT ![d] = TRUE]
      BY <1>6 DEF HandlerEffect
    <3>3. errs' \in [Drainers -> BOOLEAN]
      BY <3>1, <3>2
    <3>4. failures' \in 0 .. MaxFailures
      <4>1. failures' = failures \/ (failures < MaxFailures /\ failures' = failures + 1)
        BY <3>2
      <4> QED BY <3>1, <4>1
    <3> QED BY <3>3, <3>4
  <2>7. UNCHANGED <<order, status, batch, pc, ctxDone, accepted, asked, db, orders,
                    restarts, lost, walk>>
    BY <1>6 DEF HandlerEffect
  <2>8. failed' \in [Customers -> Nat]
    <3>1. failed' \in {failed, [failed EXCEPT ![x] = @ + 1]}
      BY <1>6 DEF HandlerEffect
    <3> HIDE DEF x
    <3> QED BY <2>9, <3>1, Types
  <2> QED BY <1>0, <2>2, <2>3, <2>5, <2>6, <2>7, <2>8, Types DEF db
<1>7. CASE WalkStep
  BY <1>0, <1>7, Types, WalkTypes DEF box, db, call, faults
<1>8. CASE Restart
  <2>1. walk' \in Walk
    BY <1>8, Types, RestartEffect DEF NoWalk, Walk
  <2>2. << >> \in Seq(Event) /\ {e \in Event : status[e] \in {"pending", "failed"}} \subseteq Event
    OBVIOUS
  <2>3. /\ status' \in [Event -> {"absent", "pending", "published", "failed"}]
        /\ batch' \in [Drainers -> SUBSET Nat]
        /\ lost' \subseteq Event /\ order' \in Seq(Event)
    BY <1>8, <2>2, Types, RestartEffect
  <2>4. pc' \in [Drainers -> PCs] /\ ran' \in [Drainers -> 0 .. 2]
    BY <1>8, RestartEffect DEF PCs
  <2>5. errs' \in [Drainers -> BOOLEAN]
    <3>1. errs' = [x \in Drainers |-> FALSE]
      BY <1>8, RestartEffect
    <3> QED BY <3>1
  <2>6. /\ accepted' = {} /\ orders' = {} /\ restarts' \in 0 .. MaxRestarts
        /\ UNCHANGED <<ctxDone, asked, table, reads, welcomes, failures, failed>>
    BY <1>8, RestartEffect
  <2>7. open' \in [Customers -> BOOLEAN] /\ aborted' \subseteq [customer : Customers, command : Nat]
    <3>1. \A c \in Customers : Asked(c) \in [customer : Customers, command : Nat]
      BY Types DEF Asked
    <3>2. aborted' = aborted \cup {Asked(c) : c \in {x \in Customers : open[x]}}
      BY <1>8, RestartEffect
    <3>3. open' = [c \in Customers |-> FALSE]
      BY <1>8, RestartEffect
    <3>4. open' \in [Customers -> BOOLEAN]
      BY <3>3
    <3> QED BY <3>1, <3>2, <3>4, Types
  <2> QED BY <1>0, <2>1, <2>3, <2>4, <2>5, <2>6, <2>7, Types
<1>9. CASE UNCHANGED vars
  BY <1>0, <1>9, Types DEF vars, db
<1> QED BY <1>1, <1>2, <1>3, <1>4, <1>5, <1>6, <1>7, <1>8, <1>9, <1>10, StepCases

(* Every variable keeps its type, through restarts too.                    *)
THEOREM FlowTypeCorrect == Spec => []TypeOK
BY InitTypes, StepKeepsTypes, PTL DEF Spec

-----------------------------------------------------------------------------
(* The handlers and the order context. *)

(* Rows and e-mails are never taken back. *)
LEMMA KnownStays ==
  ASSUME TypeOK, [Next]_vars, NEW c \in Customers
  PROVE  /\ reads[c] # 0 => reads'[c] # 0
         /\ welcomes[c] # 0 => welcomes'[c] # 0
<1>1. ASSUME NEW d \in Drainers, NEW i \in DOMAIN order, HandlerEffect(d, i)
      PROVE  /\ reads[c] # 0 => reads'[c] # 0
             /\ welcomes[c] # 0 => welcomes'[c] # 0
  <2> DEFINE e == order[i]
  <2>1. e.customer \in Customers /\ e.command \in Nat \ {0}
    BY OrderFacts, EventFacts
  <2>2. reads \in [Customers -> Nat] /\ welcomes \in [Customers -> Nat]
    BY Types
  <2>3. reads' \in {reads, onCreated(e), onEmailChanged(e)}
    BY <1>1 DEF HandlerEffect
  <2>4. welcomes' \in {welcomes, [welcomes EXCEPT ![e.customer] = @ + 1]}
    BY <1>1 DEF HandlerEffect
  <2> QED BY <2>1, <2>2, <2>3, <2>4 DEF onCreated, onEmailChanged
<1>2. ASSUME UNCHANGED <<reads, welcomes>>
      PROVE  /\ reads[c] # 0 => reads'[c] # 0
             /\ welcomes[c] # 0 => welcomes'[c] # 0
  BY <1>2
<1>3. WalkStep \/ Restart => UNCHANGED <<reads, welcomes>>
  BY WalkTypes, RestartEffect
<1> QED BY <1>1, <1>2, <1>3, StepCases
        DEF AddEffect, CommitEffect, PlaceOrder, BeginEffect, MarkEffect, ReturnEffect, vars

(* What is stored was written, and what is read was stored. *)
Written ==
  /\ \A i \in DOMAIN order : order[i].command <= asked[order[i].customer]
  /\ \A c \in Customers : reads[c] <= asked[c] /\ asked[c] <= MaxCommands[c]

BatchListed == \A d \in Drainers : batch[d] \subseteq DOMAIN order

LEMMA WrittenInductive ==
  ASSUME TypeOK, Written, BatchListed, [Next]_vars
  PROVE  Written' /\ BatchListed'
<1>0. /\ order \in Seq(Event) /\ asked \in [Customers -> Nat] /\ reads \in [Customers -> Nat]
      /\ batch \in [Drainers -> SUBSET Nat]
  BY Types
<1>1. ASSUME NEW c \in Customers, AddEffect(c) PROVE Written' /\ BatchListed'
  <2> DEFINE e == [customer |-> c, command |-> asked[c] + 1]
  <2>1. /\ e \in Event /\ order' = Append(order, e) /\ batch' = batch /\ reads' = reads
        /\ asked' = [asked EXCEPT ![c] = @ + 1]
    BY <1>1 DEF AddEffect
  <2>2. /\ DOMAIN order \subseteq DOMAIN order'
        /\ \A i \in DOMAIN order' : (i \in DOMAIN order /\ order'[i] = order[i]) \/ order'[i] = e
    BY <2>1, <1>0, OrderAppend
  <2>3. \A x \in Customers : asked[x] <= asked'[x]
    BY <2>1, <1>0
  <2>4. ASSUME NEW i \in DOMAIN order' PROVE order'[i].command <= asked'[order'[i].customer]
    <3>1. CASE i \in DOMAIN order /\ order'[i] = order[i]
      <4>1. order[i].customer \in Customers /\ order[i].command \in Nat
        BY <3>1, OrderFacts, EventFacts
      <4> QED BY <3>1, <4>1, <2>1, <2>3, <1>0 DEF Written
    <3>2. CASE order'[i] = e
      BY <3>2, <2>1, <1>0
    <3> QED BY <3>1, <3>2, <2>2
  <2>5. \A x \in Customers : reads'[x] <= asked'[x]
    BY <2>1, <2>3, <1>0 DEF Written
  <2>6. \A x \in Customers : asked'[x] <= MaxCommands[x]
    <3>1. asked[c] + 1 <= MaxCommands[c] /\ MaxCommands \in [Customers -> Nat]
      BY <2>1, EventFacts, FlowAssumption
    <3> QED BY <3>1, <2>1, <1>0 DEF Written
  <2> QED BY <2>1, <2>2, <2>4, <2>5, <2>6 DEF Written, BatchListed
<1>2. ASSUME NEW d \in Drainers, NEW i \in DOMAIN order, HandlerEffect(d, i)
      PROVE  Written' /\ BatchListed'
  <2> DEFINE e == order[i]
  <2>1. /\ e.customer \in Customers /\ e.command \in Nat \ {0}
        /\ e.command <= asked[e.customer]
    BY OrderFacts, EventFacts DEF Written
  <2>2. reads' \in {reads, onCreated(e), onEmailChanged(e)}
    BY <1>2 DEF HandlerEffect
  <2>3. UNCHANGED <<order, asked, batch>>
    BY <1>2 DEF HandlerEffect
  <2>4. \A x \in Customers : reads'[x] <= asked[x]
    <3>1. \A x \in Customers : reads[x] <= asked[x]
      BY DEF Written
    <3>2. CASE reads' = onCreated(e)
      BY <2>1, <3>1, <3>2, <1>0 DEF onCreated
    <3>3. CASE reads' = onEmailChanged(e)
      BY <2>1, <3>1, <3>3, <1>0 DEF onEmailChanged
    <3> QED BY <2>2, <3>1, <3>2, <3>3
  <2> QED BY <2>3, <2>4 DEF Written, BatchListed
<1>3. ASSUME UNCHANGED <<order, asked, reads>>, \A d \in Drainers : batch'[d] \subseteq DOMAIN order
      PROVE  Written' /\ BatchListed'
  BY <1>3 DEF Written, BatchListed
<1>4. ASSUME NEW d \in Drainers, BeginEffect(d) PROVE Written' /\ BatchListed'
  <2>1. \A x \in Drainers : batch'[x] \subseteq DOMAIN order
    BY <1>0, <1>4 DEF BeginEffect, BatchListed
  <2> QED BY <1>3, <1>4, <2>1 DEF BeginEffect
<1>5. ASSUME NEW d \in Drainers, NEW i \in DOMAIN order, MarkEffect(d, i)
      PROVE  Written' /\ BatchListed'
  <2>1. \A x \in Drainers : batch'[x] \subseteq DOMAIN order
    BY <1>0, <1>5 DEF MarkEffect, BatchListed
  <2> QED BY <1>3, <1>5, <2>1 DEF MarkEffect
<1>6. ASSUME NEW d \in Drainers, NEW i \in DOMAIN order, ReturnEffect(d, i)
      PROVE  Written' /\ BatchListed'
  BY <1>3, <1>6 DEF ReturnEffect, BatchListed
<1>7. CASE Restart
  BY <1>7, RestartEffect DEF Written, BatchListed
<1>8. ASSUME UNCHANGED <<order, asked, reads, batch>> PROVE Written' /\ BatchListed'
  BY <1>3, <1>8 DEF BatchListed
<1>9. WalkStep => UNCHANGED <<order, asked, reads, batch>>
  BY WalkTypes DEF box
<1> QED BY <1>1, <1>2, <1>4, <1>5, <1>6, <1>7, <1>8, <1>9, StepCases DEF CommitEffect, PlaceOrder, box, writes, vars

(* Nothing is counted between two events. *)
RanBetween == \A d \in Drainers : pc[d] # "publish" => ran[d] = 0 /\ ~errs[d]

(* The handlers that have run without an error for the creation a drain is *)
(* at have done their work.                                                *)
Pass(d) ==
  \A i \in DOMAIN order : Current(d, i) /\ order[i].command = 1 =>
     LET c == order[i].customer IN
     /\ pc[d] = "publish" /\ ~errs[d] /\ ran[d] >= 1 => reads[c] # 0
     /\ pc[d] = "publish" /\ ~errs[d] /\ ran[d] >= 2 => welcomes[c] # 0
     /\ pc[d] = "markPublished" => Known(c)

LEMMA RanBetweenInductive ==
  ASSUME TypeOK, RanBetween, [Next]_vars
  PROVE  RanBetween'
<1>0. /\ pc \in [Drainers -> PCs] /\ ran \in [Drainers -> 0 .. 2] /\ errs \in [Drainers -> BOOLEAN]
  BY Types
<1>2. ASSUME NEW d \in Drainers, BeginEffect(d) PROVE RanBetween'
  BY <1>0, <1>2 DEF BeginEffect, RanBetween
<1>3. ASSUME NEW d \in Drainers, NEW i \in DOMAIN order, MarkEffect(d, i) PROVE RanBetween'
  BY <1>0, <1>3 DEF MarkEffect, RanBetween
<1>4. ASSUME NEW d \in Drainers, NEW i \in DOMAIN order, ReturnEffect(d, i) PROVE RanBetween'
  <2>1. /\ ran' = [ran EXCEPT ![d] = 0] /\ errs' = [errs EXCEPT ![d] = FALSE]
        /\ \A x \in Drainers \ {d} : pc'[x] = pc[x]
    BY <1>0, <1>4 DEF ReturnEffect
  <2>2. ran'[d] = 0 /\ ~errs'[d]
    BY <1>0, <2>1
  <2>3. \A x \in Drainers \ {d} : ran'[x] = ran[x] /\ (errs'[x] <=> errs[x])
    BY <1>0, <2>1
  <2> QED BY <2>1, <2>2, <2>3 DEF RanBetween
<1>5. ASSUME NEW d \in Drainers, NEW i \in DOMAIN order, HandlerEffect(d, i) PROVE RanBetween'
  <2>1. pc' = pc /\ pc[d] = "publish" /\ ran' = [ran EXCEPT ![d] = @ + 1]
    BY <1>5 DEF HandlerEffect
  <2>2. errs' = errs \/ errs' = [errs EXCEPT ![d] = TRUE]
    BY <1>5 DEF HandlerEffect
  <2>3. \A x \in Drainers \ {d} : ran'[x] = ran[x] /\ (errs'[x] <=> errs[x])
    BY <1>0, <2>1, <2>2
  <2> QED BY <2>1, <2>3 DEF RanBetween
<1>6. CASE Restart
  <2>1. \A d \in Drainers : ran'[d] = 0 /\ errs'[d] = FALSE
    BY <1>6, RestartEffect
  <2> QED BY <2>1 DEF RanBetween
<1>7. ASSUME UNCHANGED <<pc, ran, errs>> PROVE RanBetween'
  BY <1>7 DEF RanBetween
<1>8. WalkStep => UNCHANGED <<pc, ran, errs>>
  BY WalkTypes DEF box, call
<1> QED BY <1>2, <1>3, <1>4, <1>5, <1>6, <1>7, <1>8, StepCases
        DEF AddEffect, CommitEffect, PlaceOrder, box, call, vars

LEMMA PassInductive ==
  ASSUME TypeOK, BatchListed, RanBetween, [Next]_vars, \A d \in Drainers : Pass(d)
  PROVE  \A d \in Drainers : Pass(d)'
<1>0. /\ pc \in [Drainers -> PCs] /\ ran \in [Drainers -> 0 .. 2] /\ errs \in [Drainers -> BOOLEAN]
      /\ batch \in [Drainers -> SUBSET Nat] /\ order \in Seq(Event)
  BY Types
<1>1. \A i \in DOMAIN order : order[i].customer \in Customers
  BY OrderFacts, EventFacts
(* A drain that does not move, while others do. *)
<1>2. ASSUME NEW d \in Drainers, pc'[d] = pc[d], ran'[d] = ran[d], errs'[d] <=> errs[d],
             batch'[d] = batch[d], \A i \in DOMAIN order : order'[i] = order[i]
      PROVE  Pass(d)'
  <2> SUFFICES ASSUME NEW i \in DOMAIN order', Current(d, i)', order'[i].command = 1
               PROVE  LET c == order'[i].customer IN
                      /\ pc'[d] = "publish" /\ ~errs'[d] /\ ran'[d] >= 1 => reads'[c] # 0
                      /\ pc'[d] = "publish" /\ ~errs'[d] /\ ran'[d] >= 2 => welcomes'[c] # 0
                      /\ pc'[d] = "markPublished" => reads'[c] # 0 /\ welcomes'[c] # 0
    BY DEF Pass, Known
  <2>1. i \in DOMAIN order /\ Current(d, i) /\ order'[i] = order[i]
    BY <1>2 DEF Current, BatchListed
  <2> DEFINE c == order[i].customer
  <2>2. c \in Customers
    BY <1>1, <2>1
  <2>3. /\ reads[c] # 0 => reads'[c] # 0
        /\ welcomes[c] # 0 => welcomes'[c] # 0
    BY <2>2, KnownStays
  <2>4. /\ pc[d] = "publish" /\ ~errs[d] /\ ran[d] >= 1 => reads[c] # 0
        /\ pc[d] = "publish" /\ ~errs[d] /\ ran[d] >= 2 => welcomes[c] # 0
        /\ pc[d] = "markPublished" => reads[c] # 0 /\ welcomes[c] # 0
    BY <2>1 DEF Pass, Known
  <2> HIDE DEF c
  <2>5. order'[i].customer = c
    BY <2>1 DEF c
  <2> QED BY <1>2, <2>3, <2>4, <2>5
(* A drain with no handler behind it. *)
<1>3. ASSUME NEW d \in Drainers, pc'[d] # "markPublished", pc'[d] = "publish" => ran'[d] = 0
      PROVE  Pass(d)'
  BY <1>3 DEF Pass
<1>4. ASSUME NEW x \in Drainers, BeginEffect(x), NEW d \in Drainers PROVE Pass(d)'
  <2>1. CASE d = x
    <3>1. ran[x] = 0
      BY <1>4 DEF BeginEffect, RanBetween
    <3>2. ran' = ran /\ pc'[x] \in {"idle", "publish"}
      BY <1>0, <1>4 DEF BeginEffect
    <3> QED BY <1>3, <2>1, <3>1, <3>2
  <2>2. CASE d # x
    <3>1. pc'[d] = pc[d] /\ batch'[d] = batch[d] /\ UNCHANGED <<ran, errs, order>>
      BY <1>0, <1>4, <2>2 DEF BeginEffect
    <3> QED BY <1>2, <3>1
  <2> QED BY <2>1, <2>2
<1>5. ASSUME NEW x \in Drainers, NEW i \in DOMAIN order, MarkEffect(x, i), NEW d \in Drainers
      PROVE  Pass(d)'
  <2>1. CASE d = x
    <3>1. ran[x] = 0
      BY <1>5 DEF MarkEffect, RanBetween
    <3>2. ran' = ran /\ pc'[x] \in {"idle", "publish"}
      BY <1>0, <1>5 DEF MarkEffect
    <3> QED BY <1>3, <2>1, <3>1, <3>2
  <2>2. CASE d # x
    <3>1. pc'[d] = pc[d] /\ batch'[d] = batch[d] /\ UNCHANGED <<ran, errs, order>>
      BY <1>0, <1>5, <2>2 DEF MarkEffect
    <3> QED BY <1>2, <3>1
  <2> QED BY <2>1, <2>2
<1>6. ASSUME NEW x \in Drainers, NEW i \in DOMAIN order, ReturnEffect(x, i), NEW d \in Drainers
      PROVE  Pass(d)'
  <2>0. UNCHANGED <<order, batch, reads, welcomes>> /\ ran' = [ran EXCEPT ![x] = 0]
        /\ errs' = [errs EXCEPT ![x] = FALSE]
    BY <1>6 DEF ReturnEffect
  <2>1. CASE d = x /\ errs[x]
    <3>1. pc'[x] = "markFailed"
      BY <1>0, <1>6, <2>1 DEF ReturnEffect
    <3> QED BY <1>3, <2>1, <3>1
  <2>2. CASE d = x /\ ~errs[x]
    <3>1. pc'[x] = "markPublished"
      BY <1>0, <1>6, <2>2 DEF ReturnEffect
    <3>2. ASSUME NEW j \in DOMAIN order, Current(x, j), order[j].command = 1
          PROVE  Known(order[j].customer)
      <4>1. j \in Nat /\ i \in Nat /\ j = i
        BY <1>0, <1>6, <3>2 DEF ReturnEffect, Current
      <4>2. ran[x] = 2 /\ pc[x] = "publish"
        BY <1>6, <3>2, <4>1 DEF ReturnEffect, handlers
      <4> QED BY <3>2, <4>2, <2>2 DEF Pass, Known
    <3>3. ASSUME NEW j \in DOMAIN order', Current(x, j)', order'[j].command = 1
          PROVE  reads'[order'[j].customer] # 0 /\ welcomes'[order'[j].customer] # 0
      BY <2>0, <3>2, <3>3 DEF Current, Known
    <3> QED BY <2>2, <3>1, <3>3 DEF Pass, Known
  <2>3. CASE d # x
    <3>1. pc'[d] = pc[d] /\ ran'[d] = ran[d]
      BY <1>0, <1>6, <2>0, <2>3 DEF ReturnEffect
    <3>2. errs'[d] <=> errs[d]
      BY <1>0, <2>0, <2>3
    <3> QED BY <1>2, <2>0, <3>1, <3>2
  <2> QED BY <2>1, <2>2, <2>3
<1>7. ASSUME NEW x \in Drainers, NEW i \in DOMAIN order, HandlerEffect(x, i), NEW d \in Drainers
      PROVE  Pass(d)'
  <2>0. UNCHANGED <<order, batch, pc>> /\ ran' = [ran EXCEPT ![x] = @ + 1] /\ pc[x] = "publish"
    BY <1>7 DEF HandlerEffect
  <2>a. errs' = errs \/ errs' = [errs EXCEPT ![x] = TRUE]
    BY <1>7 DEF HandlerEffect
  <2>1. CASE d = x
    <3> SUFFICES ASSUME NEW j \in DOMAIN order, Current(x, j), order[j].command = 1, ~errs'[x]
                 PROVE  /\ ran'[x] >= 1 => reads'[order[j].customer] # 0
                        /\ ran'[x] >= 2 => welcomes'[order[j].customer] # 0
      BY <2>0, <2>1 DEF Pass, Current
    <3> DEFINE c == order[i].customer
    <3>1. i = j /\ c \in Customers
      BY <1>0, <1>1, <1>7 DEF HandlerEffect, Current
    <3>2. errs' = errs /\ ~errs[x]
      BY <1>0, <2>a
    <3>3. ~(errs' = [errs EXCEPT ![x] = TRUE])
      BY <1>0
    <3>4. \/ /\ ran[x] = 0
             /\ reads' = onCreated(order[i])
          \/ /\ ran[x] = 1
             /\ welcomes' = [welcomes EXCEPT ![c] = @ + 1]
             /\ reads' = reads
      BY <1>7, <3>1, <3>3 DEF HandlerEffect
    <3>5. ran'[x] = ran[x] + 1 /\ ran[x] \in 0 .. 2
      BY <1>0, <2>0
    <3>6. reads \in [Customers -> Nat] /\ welcomes \in [Customers -> Nat]
      BY Types
    <3>7. CASE ran[x] = 0
      BY <3>1, <3>4, <3>5, <3>6, <3>7 DEF onCreated
    <3>8. CASE ran[x] = 1
      <4>1. reads[c] # 0
        BY <2>0, <3>1, <3>2, <3>8 DEF Pass
      <4> QED BY <3>1, <3>4, <3>5, <3>6, <3>8, <4>1
    <3> QED BY <3>4, <3>7, <3>8
  <2>2. CASE d # x
    <3>1. ran'[d] = ran[d]
      BY <1>0, <2>0, <2>2
    <3>2. errs'[d] <=> errs[d]
      BY <1>0, <2>a, <2>2
    <3> QED BY <1>2, <2>0, <3>1, <3>2
  <2> QED BY <2>1, <2>2
<1>8. ASSUME Restart, NEW d \in Drainers PROVE Pass(d)'
  BY <1>3, <1>8, RestartEffect
<1>9. ASSUME NEW c \in Customers, AddEffect(c), NEW d \in Drainers PROVE Pass(d)'
  BY <1>0, <1>2, <1>9, OrderAppend DEF AddEffect
<1>10. ASSUME UNCHANGED <<order, batch, pc, ran, errs>>, NEW d \in Drainers PROVE Pass(d)'
  BY <1>2, <1>10
<1>11. WalkStep => UNCHANGED <<order, batch, pc, ran, errs>>
  BY WalkTypes DEF box, call
<1> QED BY <1>4, <1>5, <1>6, <1>7, <1>8, <1>9, <1>10, <1>11, StepCases
        DEF CommitEffect, PlaceOrder, box, call, vars

(* CreationNotForgotten, from the moment the event is in the outbox. *)
CreationKept ==
  \A c \in Customers : asked[c] # 0 =>
     \/ Known(c)
     \/ status[Created(c)] \in {"pending", "failed"}
     \/ Created(c) \in lost

Inv ==
  /\ TypeOK
  /\ Written
  /\ BatchListed
  /\ RanBetween
  /\ \A d \in Drainers : Pass(d)
  /\ CreationKept

(* Only the command that makes a customer touches its first event's place  *)
(* in the outbox, until a drain marks it.                                  *)
LEMMA CreationInductive ==
  ASSUME Inv, [Next]_vars
  PROVE  CreationKept'
<1> DEFINE Kept(c) == \/ Known(c)
                      \/ status[Created(c)] \in {"pending", "failed"}
                      \/ Created(c) \in lost
<1>0. /\ TypeOK /\ status \in [Event -> {"absent", "pending", "published", "failed"}]
      /\ asked \in [Customers -> Nat]
  BY Types DEF Inv
<1> SUFFICES ASSUME NEW c \in Customers, asked'[c] # 0
             PROVE  \/ reads'[c] # 0 /\ welcomes'[c] # 0
                    \/ status'[Created(c)] \in {"pending", "failed"}
                    \/ Created(c) \in lost'
  BY DEF CreationKept, Known, Created
<1>1. asked[c] # 0 => Kept(c)
  BY DEF Inv, CreationKept
<1>2. /\ reads[c] # 0 => reads'[c] # 0
      /\ welcomes[c] # 0 => welcomes'[c] # 0
  BY <1>0, KnownStays
<1>7. asked[c] # 0 => Created(c) \in Event
  <2>1. MaxCommands[c] \in Nat /\ asked[c] \in Nat /\ asked[c] <= MaxCommands[c]
    BY <1>0, FlowAssumption DEF Inv, Written
  <2> QED BY <2>1, EventFacts DEF Created
<1>3. ASSUME NEW x \in Customers, AddEffect(x)
      PROVE  \/ reads'[c] # 0 /\ welcomes'[c] # 0
             \/ status'[Created(c)] \in {"pending", "failed"}
             \/ Created(c) \in lost'
  <2> DEFINE e == [customer |-> x, command |-> asked[x] + 1]
  <2>1. /\ e \in Event /\ status' = [status EXCEPT ![e] = "pending"] /\ lost' = lost
        /\ asked' = [asked EXCEPT ![x] = @ + 1]
    BY <1>3 DEF AddEffect, faults
  <2>2. CASE asked[c] = 0
    <3>1. x = c /\ e = Created(c)
      BY <1>0, <2>1, <2>2 DEF Created
    <3>2. status'[e] = "pending"
      BY <1>0, <2>1
    <3> QED BY <3>1, <3>2
  <2>3. CASE asked[c] # 0
    <3>1. status'[Created(c)] = status[Created(c)] \/ status'[Created(c)] = "pending"
      BY <1>0, <2>1
    <3> QED BY <1>1, <1>2, <2>1, <2>3, <3>1 DEF Known
  <2> QED BY <2>2, <2>3
<1>4. ASSUME asked' = asked, lost' = lost,
             \/ status' = status
             \/ \E d \in Drainers : \E i \in DOMAIN order : MarkEffect(d, i)
      PROVE  \/ reads'[c] # 0 /\ welcomes'[c] # 0
             \/ status'[Created(c)] \in {"pending", "failed"}
             \/ Created(c) \in lost'
  <2>1. Kept(c)
    BY <1>1, <1>4
  <2>2. CASE status' = status
    BY <1>2, <1>4, <2>1, <2>2 DEF Known
  <2>3. ASSUME NEW d \in Drainers, NEW i \in DOMAIN order, MarkEffect(d, i)
        PROVE  \/ Known(c)
               \/ status'[Created(c)] \in {"pending", "failed"}
               \/ Created(c) \in lost
    <3>1. order[i] \in Event
      BY <1>0, OrderFacts
    <3>2. CASE order[i] # Created(c)
      <4>1. Created(c) \in Event
        BY <1>4, <1>7
      <4>2. status'[Created(c)] = status[Created(c)]
        BY <1>0, <2>3, <3>1, <3>2, <4>1 DEF MarkEffect
      <4> QED BY <2>1, <4>2
    <3>3. CASE order[i] = Created(c) /\ pc[d] = "markFailed"
      BY <1>0, <2>3, <3>1, <3>3 DEF MarkEffect
    <3>4. CASE order[i] = Created(c) /\ pc[d] = "markPublished"
      BY <2>3, <3>4 DEF MarkEffect, Inv, Pass, Created
    <3> QED BY <2>3, <3>2, <3>3, <3>4 DEF MarkEffect
  <2> QED BY <1>2, <1>4, <2>2, <2>3 DEF Known
<1>5. CASE Restart
  <2>1. asked[c] # 0
    BY <1>0, <1>5, RestartEffect
  <2> QED BY <1>0, <1>1, <1>2, <1>5, <1>7, <2>1, RestartEffect DEF Known
<1>6. WalkStep => UNCHANGED <<asked, lost, status>>
  BY <1>0, WalkTypes DEF box, faults
<1> QED BY <1>0, <1>3, <1>4, <1>5, <1>6, StepCases
        DEF CommitEffect, PlaceOrder, BeginEffect, MarkEffect, HandlerEffect, ReturnEffect,
            box, writes, faults, vars

LEMMA InvHolds == Spec => []Inv
<1>1. Init => Inv
  <2> SUFFICES ASSUME Init PROVE Inv
    OBVIOUS
  <2>1. /\ order = << >> /\ batch = [d \in Drainers |-> {}] /\ pc = [d \in Drainers |-> "idle"]
        /\ ran = [d \in Drainers |-> 0] /\ errs = [d \in Drainers |-> FALSE]
        /\ asked = [c \in Customers |-> 0] /\ reads = [c \in Customers |-> 0]
    BY DEF Init, Box!Init, Box!Drainers, Drainers
  <2>2. TypeOK
    BY InitTypes
  <2>3. Written /\ BatchListed
    BY <2>1, FlowAssumption DEF Written, BatchListed
  <2>4. RanBetween
    <3>1. \A d \in Drainers : ran[d] = 0 /\ errs[d] = FALSE
      BY <2>1
    <3> QED BY <3>1 DEF RanBetween
  <2>5. \A d \in Drainers : Pass(d)
    BY <2>1 DEF Pass
  <2>6. CreationKept
    BY <2>1 DEF CreationKept
  <2> QED BY <2>2, <2>3, <2>4, <2>5, <2>6 DEF Inv
<1>2. Inv /\ [Next]_vars => Inv'
  <2> SUFFICES ASSUME Inv, [Next]_vars, TypeOK' PROVE Inv'
    BY StepKeepsTypes DEF Inv
  <2>1. Written' /\ BatchListed'
    BY WrittenInductive DEF Inv
  <2>2. RanBetween'
    BY RanBetweenInductive DEF Inv
  <2>3. \A d \in Drainers : Pass(d)'
    BY PassInductive DEF Inv
  <2> QED BY <2>1, <2>2, <2>3, CreationInductive DEF Inv
<1> QED BY <1>1, <1>2, PTL DEF Spec

-----------------------------------------------------------------------------
(* What is committed. *)

(* The commands above the committed one: all but an open one have failed   *)
(* to commit; and only a creation is sent for a customer without a row.    *)
TxInv ==
  \A c \in Customers :
    /\ table[c] <= asked[c]
    /\ open[c] => table[c] < asked[c]
    /\ table[c] = 0 => asked[c] <= 1
    /\ \A n \in Nat :
         table[c] < n /\ n <= asked[c] =>
           \/ open[c] /\ n = asked[c]
           \/ [customer |-> c, command |-> n] \in aborted

LEMMA TxInductive ==
  ASSUME TypeOK, TxInv, [Next]_vars
  PROVE  TxInv'
<1>0. /\ asked \in [Customers -> Nat] /\ table \in [Customers -> Nat]
      /\ open \in [Customers -> BOOLEAN]
  BY Types
<1> DEFINE P(c) == /\ table'[c] <= asked'[c]
                   /\ open'[c] => table'[c] < asked'[c]
                   /\ table'[c] = 0 => asked'[c] <= 1
                   /\ \A n \in Nat :
                        table'[c] < n /\ n <= asked'[c] =>
                          \/ open'[c] /\ n = asked'[c]
                          \/ [customer |-> c, command |-> n] \in aborted'
<1> SUFFICES ASSUME NEW c \in Customers PROVE P(c)
  BY DEF TxInv
<1>1. ASSUME asked'[c] = asked[c], table'[c] = table[c], open'[c] = open[c], aborted \subseteq aborted'
      PROVE  P(c)
  BY <1>1 DEF TxInv
<1>2. ASSUME NEW x \in Customers, AddEffect(x) PROVE P(c)
  <2>1. /\ asked' = [asked EXCEPT ![x] = @ + 1] /\ open' = [open EXCEPT ![x] = TRUE]
        /\ ~open[x] /\ (asked[x] = 0 \/ table[x] # 0)
        /\ table' = table /\ aborted' = aborted
    BY <1>2 DEF AddEffect
  <2>2. CASE c = x
    <3>1. asked'[c] = asked[c] + 1 /\ open'[c] /\ table'[c] = table[c]
      BY <1>0, <2>1, <2>2
    <3>2. \A n \in Nat : table[c] < n /\ n <= asked[c] => [customer |-> c, command |-> n] \in aborted
      BY <2>1, <2>2 DEF TxInv
    <3> QED BY <1>0, <2>1, <2>2, <3>1, <3>2 DEF TxInv
  <2>3. CASE c # x
    BY <1>0, <1>1, <2>1, <2>3
  <2> QED BY <2>2, <2>3
<1>3. ASSUME NEW x \in Customers, CommitEffect(x) PROVE P(c)
  <2>1. /\ asked' = asked /\ open' = [open EXCEPT ![x] = FALSE] /\ open[x]
        /\ \/ table' = [table EXCEPT ![x] = asked[x]] /\ aborted' = aborted
           \/ table' = table /\ aborted' = aborted \cup {Asked(x)}
    BY <1>3 DEF CommitEffect
  <2>2. CASE c = x
    <3>1. ~open'[c] /\ open[c]
      BY <1>0, <2>1, <2>2
    <3>2. CASE table' = [table EXCEPT ![x] = asked[x]]
      BY <1>0, <2>1, <2>2, <3>1, <3>2 DEF TxInv
    <3>3. CASE table' = table /\ aborted' = aborted \cup {Asked(x)}
      BY <1>0, <2>1, <2>2, <3>1, <3>3 DEF TxInv, Asked
    <3> QED BY <2>1, <3>2, <3>3
  <2>3. CASE c # x
    BY <1>0, <1>1, <2>1, <2>3
  <2> QED BY <2>2, <2>3
<1>4. CASE Restart
  <2>1. /\ asked' = asked /\ table' = table /\ ~open'[c]
        /\ aborted' = aborted \cup {Asked(y) : y \in {x \in Customers : open[x]}}
    BY <1>4, RestartEffect
  <2>2. open[c] => Asked(c) \in aborted'
    BY <2>1
  <2> QED BY <1>0, <2>1, <2>2 DEF TxInv, Asked
<1>5. WalkStep => UNCHANGED <<asked, db>>
  BY WalkTypes
<1> QED BY <1>1, <1>2, <1>3, <1>4, <1>5, StepCases
        DEF PlaceOrder, BeginEffect, MarkEffect, HandlerEffect, ReturnEffect, writes, db, vars

LEMMA TxHolds == Spec => []TxInv
<1>1. Init => TxInv
  BY DEF Init, TxInv
<1> QED BY <1>1, TxInductive, FlowTypeCorrect, PTL DEF Spec

(* Whatever fails and however often the process is restarted, a customer   *)
(* that was created is known to every context, or its event is in the      *)
(* outbox, or went with one (local/bus.go Publish, relay.go drain).        *)
THEOREM CreationsReachEveryContext == Spec => []CreationNotForgotten
<1>1. Inv /\ TxInv => CreationNotForgotten
  <2> SUFFICES ASSUME Inv, TxInv, NEW c \in Customers, table[c] # 0 PROVE asked[c] # 0
    BY DEF Inv, CreationKept, CreationNotForgotten
  <2>1. asked[c] \in Nat /\ table[c] \in Nat /\ table[c] <= asked[c]
    BY Types DEF Inv, TxInv
  <2> QED BY <2>1
<1> QED BY <1>1, InvHolds, TxHolds, PTL

(* Nobody orders whose creation was not asked for (verifier.go). *)
OrdersAsked == \A c \in orders : asked[c] # 0

(* Nobody orders who was not created, but for a customer whose creation is *)
(* still to be committed or failed to be, after its event had gone out     *)
(* (place_order.go, verifier.go, transaction.go:49-55).                    *)
THEOREM OrdersOnlyForCustomers == Spec => []OrdersHaveCustomers
<1>1. Init => OrdersAsked
  BY DEF Init, OrdersAsked
<1>2. OrdersAsked /\ Inv /\ [Next]_vars => OrdersAsked'
  <2> SUFFICES ASSUME OrdersAsked, Inv, [Next]_vars PROVE OrdersAsked'
    OBVIOUS
  <2>0. TypeOK /\ asked \in [Customers -> Nat] /\ reads \in [Customers -> Nat]
        /\ orders \subseteq Customers
    BY Types DEF Inv
  <2>1. ASSUME NEW c \in Customers, PlaceOrder(c) PROVE OrdersAsked'
    <3>1. orders' = orders \cup {c} /\ asked' = asked /\ reads[c] # 0
      BY <2>1 DEF PlaceOrder, Save, Verify, GetCustomer, GetByID, mapError, writes
    <3>2. asked[c] # 0
      BY <2>0, <3>1 DEF Inv, Written
    <3> QED BY <3>1, <3>2 DEF OrdersAsked
  <2>2. ASSUME NEW c \in Customers, AddEffect(c) PROVE OrdersAsked'
    BY <2>0, <2>2 DEF AddEffect, OrdersAsked
  <2>3. CASE Restart
    BY <2>0, <2>3, RestartEffect DEF OrdersAsked
  <2>4. ASSUME UNCHANGED <<orders, asked>> PROVE OrdersAsked'
    BY <2>4 DEF OrdersAsked
  <2>5. WalkStep => UNCHANGED <<orders, asked>>
    BY <2>0, WalkTypes
  <2> QED BY <2>0, <2>1, <2>2, <2>3, <2>4, <2>5, StepCases
          DEF CommitEffect, BeginEffect, MarkEffect, HandlerEffect, ReturnEffect, vars
<1>3. OrdersAsked /\ Inv /\ TxInv => OrdersHaveCustomers
  <2> SUFFICES ASSUME OrdersAsked, Inv, TxInv, NEW c \in orders, table[c] = 0
               PROVE  open[c] \/ Created(c) \in aborted
    BY DEF OrdersHaveCustomers
  <2>1. c \in Customers /\ asked[c] \in Nat /\ asked[c] # 0
    BY Types DEF Inv, OrdersAsked
  <2>2. asked[c] = 1
    BY <2>1 DEF TxInv
  <2> QED BY <2>1, <2>2 DEF TxInv, Created
<1> QED BY <1>1, <1>2, <1>3, InvHolds, TxHolds, PTL DEF Spec

-----------------------------------------------------------------------------
(* The list. *)

(* Where c stands in the list of the customers R. *)
Pos(R, c) == Cardinality({d \in R : Rank[d] < Rank[c]})

LEMMA PosFacts ==
  ASSUME NEW R \in SUBSET Customers, NEW c \in Customers
  PROVE  /\ IsFiniteSet(R) /\ Cardinality(R) \in Nat
         /\ Pos(R, c) \in Nat
         /\ c \in R => Pos(R, c) < Cardinality(R)
<1> DEFINE B == {d \in R : Rank[d] < Rank[c]}
<1>1. IsFiniteSet(R) /\ Cardinality(R) \in Nat
  BY CustomersFinite, FS_Subset, FS_CardinalityType
<1>2. B \in SUBSET R
  OBVIOUS
<1>3. /\ IsFiniteSet(B) /\ Cardinality(B) \in Nat /\ Cardinality(B) <= Cardinality(R)
      /\ Cardinality(R) = Cardinality(B) => R = B
  BY <1>1, <1>2, FS_Subset, FS_CardinalityType
<1>4. c \notin B
  BY ListAssumption
<1> HIDE DEF B
<1>5. c \in R => Cardinality(B) < Cardinality(R)
  BY <1>1, <1>3, <1>4
<1> QED BY <1>1, <1>3, <1>5 DEF Pos, B

(* New rows can only push a customer back. *)
LEMMA PosGrows ==
  ASSUME NEW T \in SUBSET Customers, NEW R \in SUBSET T, NEW c \in Customers
  PROVE  Pos(R, c) <= Pos(T, c)
<1> DEFINE A == {d \in R : Rank[d] < Rank[c]}
           B == {d \in T : Rank[d] < Rank[c]}
<1>1. B \in SUBSET Customers /\ A \in SUBSET B
  OBVIOUS
<1>2. IsFiniteSet(B)
  BY <1>1, CustomersFinite, FS_Subset
<1> HIDE DEF A, B
<1>3. Cardinality(A) <= Cardinality(B)
  BY <1>1, <1>2, FS_Subset
<1> QED BY <1>3 DEF Pos, A, B

LEMMA PosBefore ==
  ASSUME NEW R \in SUBSET Customers, NEW c \in R, NEW d \in R, Rank[c] < Rank[d]
  PROVE  Pos(R, c) < Pos(R, d)
<1> DEFINE A == {x \in R : Rank[x] < Rank[c]}
           B == {x \in R : Rank[x] < Rank[d]}
<1>1. Rank \in [Customers -> Nat]
  BY ListAssumption
<1>2. A \subseteq B /\ c \in B /\ c \notin A /\ B \subseteq Customers
  BY <1>1
<1> HIDE DEF A, B
<1>3. IsFiniteSet(B) /\ IsFiniteSet(A)
  BY <1>2, CustomersFinite, FS_Subset
<1>4. /\ Cardinality(A) <= Cardinality(B)
      /\ Cardinality(B) = Cardinality(A) => B = A
  BY <1>2, <1>3, FS_Subset
<1>5. Cardinality(A) \in Nat /\ Cardinality(B) \in Nat
  BY <1>3, FS_CardinalityType
<1>6. Cardinality(A) < Cardinality(B)
  BY <1>2, <1>4, <1>5
<1> QED BY <1>6 DEF Pos, A, B

(* A page is no longer than its limit. *)
LEMMA PageSize ==
  ASSUME NEW R \in SUBSET Customers, NEW o \in Nat, NEW l \in Nat \ {0}
  PROVE  Cardinality({c \in R : o <= Pos(R, c) /\ Pos(R, c) < o + l}) <= l
<1> DEFINE S == {c \in R : o <= Pos(R, c) /\ Pos(R, c) < o + l}
           T == o .. (o + l - 1)
           f == [c \in S |-> Pos(R, c)]
<1>1. \A c \in S : f[c] \in T
  BY PosFacts
<1>2. ASSUME NEW c \in S, NEW d \in S, f[c] = f[d] PROVE c = d
  <2>1. c \in R /\ d \in R /\ c \in Customers /\ d \in Customers /\ Pos(R, c) = Pos(R, d)
    BY <1>2
  <2>2. Rank[c] \in Nat /\ Rank[d] \in Nat /\ Pos(R, c) \in Nat
    BY <2>1, ListAssumption, PosFacts
  <2>3. Rank[c] = Rank[d]
    BY <2>1, <2>2, PosBefore
  <2> QED BY <2>1, <2>3, ListAssumption
<1>3. f \in Injection(S, T)
  <2>1. f \in [S -> T]
    BY <1>1
  <2>2. DOMAIN f = S
    OBVIOUS
  <2> HIDE DEF f
  <2> QED BY <1>2, <2>1, <2>2 DEF Injection, IsInjective
<1>4. IsFiniteSet(T) /\ Cardinality(T) = l
  <2>1. o \in Int /\ (o + l - 1) \in Int /\ ~(o > o + l - 1) /\ (o + l - 1) - o + 1 = l
    OBVIOUS
  <2> QED BY <2>1, FS_Interval
<1> HIDE DEF S, T, f
<1>5. Cardinality(S) <= Cardinality(T)
  BY <1>3, <1>4, FS_Injection
<1> QED BY <1>4, <1>5 DEF S
(* No customer of the set l stands before the next page. *)
Behind(n, l) == \A c \in l : n <= Pos(Listed, c)

WalkInv ==
  /\ walk.at \in {"page", "count"} => walk.left \subseteq Listed /\ Behind(walk.offset, walk.left)
  /\ walk.at = "count" => Behind(walk.offset + Cardinality(walk.page), walk.left \ walk.page)
  /\ WalkMissesNothing

LEMMA WalkInductive ==
  ASSUME TypeOK, WalkInv, [Next]_vars
  PROVE  WalkInv'
<1>0. walk \in Walk /\ Listed \subseteq Customers /\ Listed' \subseteq Customers
  BY Types DEF Listed
<1>1. Listed \subseteq Listed'
  BY KnownStays DEF Listed
<1>2. \A c \in Customers : Pos(Listed, c) \in Nat /\ Pos(Listed', c) \in Nat
                            /\ Pos(Listed, c) <= Pos(Listed', c)
  BY <1>0, <1>1, PosFacts, PosGrows
<1>3. /\ walk.left \subseteq Customers /\ walk.offset \in Nat /\ walk.page \subseteq Customers
      /\ walk.at \in {"idle", "page", "count"}
      /\ Cardinality(walk.page) \in Nat
  <2>1. walk.left \subseteq Customers /\ walk.offset \in Nat /\ walk.page \subseteq Customers
        /\ walk.at \in {"idle", "page", "count"}
    BY <1>0 DEF Walk
  <2>2. Cardinality(walk.page) \in Nat
    BY <2>1, CustomersFinite, FS_Subset, FS_CardinalityType
  <2> QED BY <2>1, <2>2
<1>4. ASSUME walk' = walk PROVE WalkInv'
  <2>1. ASSUME NEW n \in Nat, NEW l \in SUBSET Customers, Behind(n, l)
        PROVE  \A c \in l : n <= Pos(Listed', c)
    BY <1>2, <2>1 DEF Behind
  <2>2. walk.at \in {"page", "count"} =>
           /\ walk.left \subseteq Listed'
           /\ \A c \in walk.left : walk.offset <= Pos(Listed', c)
    BY <1>1, <1>3, <2>1 DEF WalkInv
  <2>3. walk.at = "count" =>
           \A c \in walk.left \ walk.page : walk.offset + Cardinality(walk.page) <= Pos(Listed', c)
    BY <1>3, <2>1 DEF WalkInv
  <2> QED BY <1>4, <2>2, <2>3 DEF WalkInv, Behind, WalkMissesNothing
<1>5. ASSUME walk' = NoWalk PROVE WalkInv'
  BY <1>5 DEF NoWalk, WalkInv, WalkMissesNothing
<1>6. ASSUME NEW l \in AskedLimits, StartWalk(l) PROVE WalkInv'
  <2>1. /\ walk'.at = "page" /\ walk'.left = Listed /\ walk'.offset = 0
    BY <1>6 DEF StartWalk, NoWalk
  <2>2. \A c \in Listed : 0 <= Pos(Listed', c)
    BY <1>0, <1>2
  <2> QED BY <1>1, <2>1, <2>2 DEF WalkInv, Behind, WalkMissesNothing
<1>7. CASE QueryPage
  <2> DEFINE l == Limit(walk.limit)
             p == Page(l, walk.offset)
             n == walk.offset + Cardinality(p)
  <2>0. Offset(walk.offset) = walk.offset
    BY <1>3 DEF Offset
  <2>1. /\ walk' = [walk EXCEPT !.at = "count", !.page = p] /\ reads' = reads
        /\ walk.at = "page"
    BY <1>7, <2>0 DEF QueryPage
  <2>2. Listed' = Listed
    BY <2>1 DEF Listed
  <2>3. l \in Nat \ {0}
    BY <1>0 DEF Walk, Limit, DefaultLimit, MaxLimit
  <2>4. p = {c \in Listed : walk.offset <= Pos(Listed, c) /\ Pos(Listed, c) < walk.offset + l}
    BY DEF Page, Position, Pos
  <2>5. Cardinality(p) <= l /\ Cardinality(p) \in Nat
    <3>1. p \subseteq Customers
      BY <1>0, <2>4
    <3> HIDE DEF l
    <3>2. walk.offset \in Nat /\ Listed \in SUBSET Customers
      BY <1>0, <1>3
    <3>3. Cardinality({c \in Listed : walk.offset <= Pos(Listed, c) /\ Pos(Listed, c) < walk.offset + l}) <= l
      BY <2>3, <3>2, PageSize, ZenonT(20)
    <3> HIDE DEF p
    <3>4. Cardinality(p) <= l
      BY <2>4, <3>3, Zenon
    <3> QED BY <3>1, <3>4, CustomersFinite, FS_Subset, FS_CardinalityType
  <2>6. walk'.left = walk.left /\ walk'.offset = walk.offset
        /\ walk'.page = p /\ walk'.at = "count"
    BY <1>0, <2>1 DEF Walk
  <2>7. walk.left \subseteq Listed /\ Behind(walk.offset, walk.left)
    BY <2>1 DEF WalkInv
  <2>8. ASSUME NEW c \in walk.left \ p PROVE n <= Pos(Listed, c)
    <3>1. c \in Listed /\ Pos(Listed, c) \in Nat /\ walk.offset <= Pos(Listed, c)
      BY <1>2, <1>3, <2>7 DEF Behind
    <3> HIDE DEF l, p
    <3>2. ~(Pos(Listed, c) < walk.offset + l)
      BY <2>4, <2>8, <3>1
    <3> QED BY <1>3, <2>3, <2>5, <3>1, <3>2
  <2> HIDE DEF p, l
  <2> QED BY <2>2, <2>6, <2>7, <2>8 DEF WalkInv, Behind, WalkMissesNothing
<1>8. CASE ReturnResult
  <2> DEFINE n == walk.offset + Cardinality(walk.page)
             l == walk.left \ walk.page
  <2>1. /\ walk' = IF n >= Count THEN [NoWalk EXCEPT !.left = l]
                   ELSE [walk EXCEPT !.at = "page", !.offset = n, !.page = {}, !.left = l]
        /\ reads' = reads /\ walk.at = "count"
    BY <1>8 DEF ReturnResult
  <2>2. Listed' = Listed
    BY <2>1 DEF Listed
  <2>3. walk.left \subseteq Listed /\ Behind(n, l)
    BY <2>1 DEF WalkInv
  <2>5. CASE n >= Count
    <3>1. ASSUME NEW c \in l PROVE FALSE
      <4>1. Pos(Listed, c) < Cardinality(Listed) /\ Cardinality(Listed) \in Nat
            /\ Pos(Listed, c) \in Nat
        BY <1>0, <1>3, <2>3, PosFacts
      <4>2. n <= Pos(Listed, c)
        BY <2>3 DEF Behind
      <4> QED BY <1>3, <2>5, <4>1, <4>2 DEF Count
    <3>2. l = {}
      BY <3>1
    <3>3. walk'.at = "idle" /\ walk'.left = l
      BY <2>1, <2>5 DEF NoWalk
    <3> HIDE DEF n, l
    <3> QED BY <3>2, <3>3 DEF WalkInv, WalkMissesNothing
  <2>6. CASE ~(n >= Count)
    <3>1. walk'.at = "page" /\ walk'.offset = n /\ walk'.left = l
      BY <1>0, <2>1, <2>6 DEF Walk
    <3> HIDE DEF n, l
    <3>2. l \subseteq Listed
      BY <2>3 DEF l
    <3> QED BY <2>2, <2>3, <3>1, <3>2 DEF WalkInv, Behind, WalkMissesNothing
  <2> QED BY <2>5, <2>6
<1>9. Restart => walk' = NoWalk
  BY RestartEffect
<1> QED BY <1>4, <1>5, <1>6, <1>7, <1>8, <1>9, StepCases
        DEF WalkStep, AddEffect, CommitEffect, PlaceOrder, BeginEffect, MarkEffect,
            HandlerEffect, ReturnEffect, vars

(* A client that follows the pages to the end is sent every customer that  *)
(* was listed when it began, however many are inserted meanwhile, and where*)
(* (postgres_read_model.go List, pagination.go).                           *)
THEOREM WalksAreComplete == Spec => []WalkMissesNothing
<1>1. Init => WalkInv
  BY DEF Init, NoWalk, WalkInv, WalkMissesNothing
<1>2. TypeOK /\ WalkInv /\ [Next]_vars => WalkInv'
  BY WalkInductive
<1>3. WalkInv => WalkMissesNothing
  BY DEF WalkInv
<1> QED BY <1>1, <1>2, <1>3, FlowTypeCorrect, PTL DEF Spec
=============================================================================
