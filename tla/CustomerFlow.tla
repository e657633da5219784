---------------------------- MODULE CustomerFlow ----------------------------
(***************************************************************************)
(* What bootstrap.newModules wires together in one process: the customer   *)
(* context's commands, the outbox and its relay (module Outbox), the       *)
(* in-process bus of internal/eventbus/local, and the three contexts that  *)
(* live off its events: the customer read model, the notification handler, *)
(* and the order context, which asks the read model.                       *)
(*                                                                         *)
(* The local bus runs every handler of an event on the relay's goroutine,  *)
(* one after another, and returns the joined errors, so a row is marked    *)
(* published only when all of them succeeded in the same pass.             *)
(*                                                                         *)
(* The profile is that of Postgres: customers and read model outlive the   *)
(* process, outbox and orders do not.  A command is what PostgresCustomers *)
(* leaves visible to others: the event that enters the outbox inside the   *)
(* transaction, and the commit, which comes later or fails.  Commands about*)
(* a customer are numbered in the order of their events, and an address is *)
(* told by the command that set it.  A client walks through the list of    *)
(* customers, page by page.                                                *)
(***************************************************************************)
EXTENDS Integers, Sequences, FiniteSets

CONSTANTS
  Customers,
  MaxCommands,    \* bound: MaxCommands[c] commands about customer c
  MaxAborts,      \* bound: transactions that do not commit
  MaxFailures,    \* bound: handler calls that return an error or panic
  MaxRestarts,    \* bound: times the process ends and is started again
  Rank,           \* the order of (created_at, id), which need not be that of arrival
  Buyers,         \* bound: the customers somebody tries to place orders for
  AskedLimits,    \* the page sizes clients ask for
  Relay, Flushers, OptBatchSize

ASSUME FlowAssumption ==
  /\ MaxCommands \in [Customers -> Nat]
  /\ {MaxAborts, MaxFailures, MaxRestarts} \subseteq Nat
  /\ Relay \notin Flushers
  /\ OptBatchSize \in Int

ASSUME ListAssumption ==
  /\ IsFiniteSet(Customers)
  /\ Rank \in [Customers -> Nat]
  /\ \A c, d \in Customers : Rank[c] = Rank[d] => c = d
  /\ AskedLimits \subseteq Int

(* Command 1 raises customer.v1.created, the others customer.v1.email_changed. *)
Event == UNION {[customer : {c}, command : 1 .. MaxCommands[c]] : c \in Customers}

VARIABLES
  order, status, batch, pc, ctxDone, accepted,  \* see Outbox
  asked,      \* the commands about each customer that have added their event
  table,      \* the customers as committed: the command that set the address, 0 if no row
  open,       \* whether the last of these commands is still in its transaction
  aborted,    \* history: events of transactions that did not commit
  reads,      \* the read model: the command whose address it shows, 0 if no row
  welcomes,   \* welcome e-mails sent to each customer
  orders,     \* customers an order has been saved for
  ran,        \* handlers a drain has run for the row it is publishing
  errs,       \* whether one of them returned an error
  failures,   \* how many of MaxFailures have happened
  failed,     \* history: how many of them in handlers of the customer's created event
  restarts,   \* how many of MaxRestarts have happened
  lost,       \* history: events that were in the outbox when a process ended
  walk        \* a client's way through the list

box == <<order, status, batch, pc, ctxDone, accepted>>
db == <<table, open, aborted>>
writes == <<asked, db>>
call == <<ran, errs>>
faults == <<failures, failed, restarts, lost>>
vars == <<order, status, batch, pc, ctxDone, accepted,
          asked, table, open, aborted, reads, welcomes, orders, ran, errs,
          failures, failed, restarts, lost, walk>>

(* limit, offset: of the next request; page: what the first query of the   *)
(* present one has found; left: the customers that were listed when the    *)
(* last walk began and have not been sent to the client in it.             *)
Walk == [at : {"idle", "page", "count"}, limit : Int, offset : Nat,
         page : SUBSET Customers, left : SUBSET Customers]

NoWalk == [at |-> "idle", limit |-> 0, offset |-> 0, page |-> {}, left |-> {}]

Box == INSTANCE Outbox WITH EventIDs <- Event, Poison <- {}

TypeOK ==
  /\ Box!TypeOK
  /\ asked \in [Customers -> Nat]
  /\ table \in [Customers -> Nat]
  /\ open \in [Customers -> BOOLEAN]
  /\ aborted \subseteq [customer : Customers, command : Nat]
  /\ reads \in [Customers -> Nat]
  /\ welcomes \in [Customers -> Nat]
  /\ orders \subseteq Customers
  /\ ran \in [Box!Drainers -> 0 .. 2]
  /\ errs \in [Box!Drainers -> BOOLEAN]
  /\ failures \in 0 .. MaxFailures
  /\ failed \in [Customers -> Nat]
  /\ restarts \in 0 .. MaxRestarts
  /\ lost \subseteq Event
  /\ walk \in Walk

Init ==
  /\ Box!Init
  /\ asked = [c \in Customers |-> 0]
  /\ table = [c \in Customers |-> 0]
  /\ open = [c \in Customers |-> FALSE]
  /\ aborted = {}
  /\ reads = [c \in Customers |-> 0]
  /\ welcomes = [c \in Customers |-> 0]
  /\ orders = {}
  /\ ran = [d \in Box!Drainers |-> 0]
  /\ errs = [d \in Box!Drainers |-> FALSE]
  /\ failures = 0
  /\ failed = [c \in Customers |-> 0]
  /\ restarts = 0
  /\ lost = {}
  /\ walk = NoWalk

-----------------------------------------------------------------------------
(* The write side.  What fails before the event is added leaves no trace.  *)

Asked(c) == [customer |-> c, command |-> asked[c]]

(* Events.Publish, after a Save that holds the row's lock until the end of *)
(* the transaction: the outbox takes the event at once.  Only a customer   *)
(* that FindByID has found can be changed, and a create has an id of its   *)
(* own, so that a customer whose creation fails is never created.          *)
PublishEvent(c) ==
  /\ asked[c] < MaxCommands[c]
  /\ ~open[c]
  /\ asked[c] = 0 \/ table[c] # 0
  /\ Box!Add([customer |-> c, command |-> asked[c] + 1])
  /\ asked' = [asked EXCEPT ![c] = @ + 1]
  /\ open' = [open EXCEPT ![c] = TRUE]
  /\ UNCHANGED <<table, aborted, reads, welcomes, orders, call, faults, walk>>

Commit(c) ==
  /\ open[c]
  /\ table' = [table EXCEPT ![c] = asked[c]]
  /\ open' = [open EXCEPT ![c] = FALSE]
  /\ UNCHANGED <<box, asked, aborted, reads, welcomes, orders, call, faults, walk>>

(* tx.Commit returns an error and nothing is written, but the event stays  *)
(* where it is.  If all was written the error makes no difference here.    *)
CommitFails(c) ==
  /\ open[c]
  /\ Cardinality(aborted) < MaxAborts
  /\ open' = [open EXCEPT ![c] = FALSE]
  /\ aborted' = aborted \cup {Asked(c)}
  /\ UNCHANGED <<box, asked, table, reads, welcomes, orders, call, faults, walk>>

Command(c) == PublishEvent(c) \/ Commit(c) \/ CommitFails(c)

-----------------------------------------------------------------------------
(* The handlers, in the order of registerSubscriptions. *)

handlers(e) == IF e.command = 1 THEN <<"projection", "welcome">> ELSE <<"projection">>

(* UPDATE ... WHERE id: a customer without a row stays without one. *)
onEmailChanged(e) ==
  [reads EXCEPT ![e.customer] = IF @ = 0 THEN 0 ELSE e.command]

(* Mutated form: the row is made without its address. *)
onCreatedBlank(e) == [reads EXCEPT ![e.customer] = -1]

(* Insert, or overwrite the row that is there. *)
onCreated(e) == [reads EXCEPT ![e.customer] = 1]

Project(e) ==
  /\ reads' = IF e.command = 1 THEN onCreated(e) ELSE onEmailChanged(e)
  /\ UNCHANGED welcomes

SendWelcome(e) ==
  /\ welcomes' = [welcomes EXCEPT ![e.customer] = @ + 1]
  /\ UNCHANGED reads

Effect(h, e) == IF h = "projection" THEN Project(e) ELSE SendWelcome(e)

(* Bus.Publish, one handler at a time. *)
Calling(d, i) ==
  /\ pc[d] = "publish"
  /\ Box!IsCurrent(d, i)
  /\ ran[d] < Len(handlers(order[i]))

HandlerSucceeds(d, i) ==
  /\ Calling(d, i)
  /\ Effect(handlers(order[i])[ran[d] + 1], order[i])
  /\ ran' = [ran EXCEPT ![d] = @ + 1]
  /\ UNCHANGED <<box, writes, orders, errs, faults, walk>>

(* A handler of order[i] returns an error, or panics and Recover turns     *)
(* that into one.                                                          *)
CountFailure(d, i) ==
  /\ Calling(d, i)
  /\ failures < MaxFailures
  /\ failures' = failures + 1
  /\ failed' = IF order[i].command = 1 THEN [failed EXCEPT ![order[i].customer] = @ + 1]
               ELSE failed
  /\ ran' = [ran EXCEPT ![d] = @ + 1]

(* Mutated form: the error of a handler is lost. *)
HandlerFailsSilently(d, i) ==
  /\ CountFailure(d, i)
  /\ UNCHANGED <<box, writes, reads, welcomes, orders, errs, restarts, lost, walk>>

(* What the handler was doing may have taken effect, as when the answer of *)
(* a database is lost.                                                     *)
HandlerFails(d, i) ==
  /\ CountFailure(d, i)
  /\ \/ UNCHANGED <<reads, welcomes>>
     \/ Effect(handlers(order[i])[ran[d] + 1], order[i])
  /\ errs' = [errs EXCEPT ![d] = TRUE]
  /\ UNCHANGED <<box, writes, orders, restarts, lost, walk>>

(* Mutated form: the errors of one event are still there for the next.     *)
PublishKeepsErrors(d, i) ==
  /\ Box!IsCurrent(d, i)
  /\ ran[d] = Len(handlers(order[i]))
  /\ IF errs[d] THEN Box!PublishErr(d, i) ELSE Box!PublishOK(d, i)
  /\ ran' = [ran EXCEPT ![d] = 0]
  /\ UNCHANGED <<writes, reads, welcomes, orders, errs, faults, walk>>

(* Publish returns to the drain with the joined errors. *)
PublishReturns(d, i) ==
  /\ Box!IsCurrent(d, i)
  /\ ran[d] = Len(handlers(order[i]))
  /\ IF errs[d] THEN Box!PublishErr(d, i) ELSE Box!PublishOK(d, i)
  /\ ran' = [ran EXCEPT ![d] = 0]
  /\ errs' = [errs EXCEPT ![d] = FALSE]
  /\ UNCHANGED <<writes, reads, welcomes, orders, faults, walk>>

StoreStep(d) ==
  /\ \/ Box!BeginDrain(d)
     \/ \E i \in DOMAIN order : Box!MarkPublished(d, i) \/ Box!MarkFailed(d, i)
  /\ UNCHANGED <<writes, reads, welcomes, orders, call, faults, walk>>

DrainStep(d) ==
  \/ StoreStep(d)
  \/ \E i \in DOMAIN order :
       HandlerSucceeds(d, i) \/ HandlerFails(d, i) \/ PublishReturns(d, i)

-----------------------------------------------------------------------------
(* The order context. *)

(* The customer context's answer, served from its read model. *)
GetByID(c) == reads[c]
mapError(found) == IF found = 0 THEN "NotFound" ELSE "OK"
GetCustomer(c) == mapError(GetByID(c))

(* Mutated form: "not found" is not an error. *)
VerifyAlways(c) == TRUE

Verify(c) == GetCustomer(c) = "OK"

Save(c) == orders' = orders \cup {c}

PlaceOrder(c) ==
  /\ c \in Buyers
  /\ Verify(c)
  /\ Save(c)
  /\ UNCHANGED <<box, writes, reads, welcomes, call, faults, walk>>

-----------------------------------------------------------------------------
(* The list. *)

DefaultLimit == 20
MaxLimit == 100

(* pagination.New. *)
Limit(wanted) == CASE wanted <= 0 -> DefaultLimit
                   [] wanted > MaxLimit -> MaxLimit
                   [] OTHER -> wanted
Offset(wanted) == IF wanted < 0 THEN 0 ELSE wanted

Listed == {c \in Customers : reads[c] # 0}

(* ORDER BY created_at, id LIMIT limit OFFSET offset. *)
Position(c) == Cardinality({d \in Listed : Rank[d] < Rank[c]})
Page(limit, offset) == {c \in Listed : offset <= Position(c) /\ Position(c) < offset + limit}

StartWalk(limit) ==
  /\ walk.at = "idle"
  /\ walk' = [NoWalk EXCEPT !.at = "page", !.limit = limit, !.left = Listed]
  /\ UNCHANGED <<box, writes, reads, welcomes, orders, call, faults>>

(* List: a query for the page, *)
QueryPage ==
  /\ walk.at = "page"
  /\ walk' = [walk EXCEPT !.at = "count", !.page = Page(Limit(walk.limit), Offset(walk.offset))]
  /\ UNCHANGED <<box, writes, reads, welcomes, orders, call, faults>>

(* Mutated form: the rows of the page are counted. *)
PageCount == Cardinality(walk.page)

(* and one for the number of rows.  In memory the two are one step. *)
Count == Cardinality(Listed)

(* The client goes on behind what it was sent, up to the total. *)
ReturnResult ==
  /\ walk.at = "count"
  /\ LET offset == walk.offset + Cardinality(walk.page)
         left == walk.left \ walk.page
     IN walk' = IF offset >= Count
                THEN [NoWalk EXCEPT !.left = left]
                ELSE [walk EXCEPT !.at = "page", !.offset = offset, !.page = {}, !.left = left]
  /\ UNCHANGED <<box, writes, reads, welcomes, orders, call, faults>>

WalkStep == (\E l \in AskedLimits : StartWalk(l)) \/ QueryPage \/ ReturnResult

-----------------------------------------------------------------------------
(* The process ends, by a crash or a shutdown, which waits for no more than *)
(* the drain that is under way, and is started again.  Only what the       *)
(* database has committed is left; a client meets an error.                *)

Forwarded(e) == status[e] \in {"absent", "published"}

Restart ==
  /\ restarts < MaxRestarts
  /\ restarts' = restarts + 1
  /\ lost' = lost \cup {e \in Event : ~Forwarded(e)}
  /\ open' = [c \in Customers |-> FALSE]
  /\ aborted' = aborted \cup {Asked(c) : c \in {x \in Customers : open[x]}}
  /\ order' = << >>
  /\ status' = [e \in Event |-> "absent"]
  /\ batch' = [d \in Box!Drainers |-> {}]
  /\ pc' = [d \in Box!Drainers |-> "idle"]
  /\ accepted' = {}
  /\ orders' = {}
  /\ ran' = [d \in Box!Drainers |-> 0]
  /\ errs' = [d \in Box!Drainers |-> FALSE]
  /\ walk' = NoWalk
  /\ UNCHANGED <<ctxDone, asked, table, reads, welcomes, failures, failed>>

Next ==
  \/ \E c \in Customers : Command(c) \/ PlaceOrder(c)
  \/ \E d \in Box!Drainers : DrainStep(d)
  \/ WalkStep
  \/ Restart

Spec == Init /\ [][Next]_vars

(* The relay's goroutine is scheduled and its ticker keeps firing. *)
FairSpec == Spec /\ WF_vars(DrainStep(Relay))

-----------------------------------------------------------------------------
(* Properties. *)

Drained == \A e \in Event : Forwarded(e)

Created(c) == [customer |-> c, command |-> 1]
Known(c) == reads[c] # 0 /\ welcomes[c] # 0

(* No failure of a handler makes a context miss a customer: every one that *)
(* was created has reached the read model and been welcomed, or its event  *)
(* is in the outbox, to be offered again, or went with the outbox of a     *)
(* process that ended (local/bus.go: "every handler still runs"; relay.go  *)
(* drain; Build's in-memory store).                                        *)
CreationNotForgotten ==
  \A c \in Customers : table[c] # 0 =>
     \/ Known(c)
     \/ status[Created(c)] \in {"pending", "failed"}
     \/ Created(c) \in lost

(* An order is saved only for a customer that exists, although it is the   *)
(* read model that is asked (place_order.go, verifier.go), and the read    *)
(* model hears of a customer before the commit: the exceptions are a       *)
(* creation whose commit is still to come and one whose commit failed      *)
(* (transaction.go:49-55, Build's in-memory outbox).                       *)
OrdersHaveCustomers ==
  \A c \in orders : table[c] # 0 \/ open[c] \/ Created(c) \in aborted

(* The read model is ahead of the committed rows only by a command whose   *)
(* commit is still to come, or has failed.  And as long as no handler has  *)
(* failed, a drained outbox means that it shows the committed address of   *)
(* every customer, but of those whose last command is open or failed to    *)
(* commit, and of those an event of whom a restart has lost.               *)
ReadsFollowWrites ==
  /\ \A c \in Customers :
       \/ reads[c] <= table[c]
       \/ open[c] /\ reads[c] = asked[c]
       \/ [customer |-> c, command |-> reads[c]] \in aborted
  /\ failures = 0 /\ Drained =>
       \A c \in Customers :
          ~open[c] /\ Asked(c) \notin aborted /\ (\A e \in lost : e.customer # c)
            => reads[c] = table[c]

(* A customer is welcomed again only because some handler of its own       *)
(* created event failed: neither restarts nor failures of other events, be *)
(* they of the same customer, repeat the e-mail                            *)
(* (customer_created_handler.go: "must be idempotent", which it is not).   *)
WelcomesBounded == \A c \in Customers : welcomes[c] <= 1 + failed[c]

(* A client that follows the list to its total has been sent every         *)
(* customer that was listed when it began, although others are inserted    *)
(* anywhere before, between and behind the two queries of a page           *)
(* (postgres_read_model.go List, pagination.go).                           *)
WalkMissesNothing == walk.at = "idle" => walk.left = {}

(* Every customer becomes known to the read model and is welcomed, however *)
(* handlers fail in between, unless a restart loses the event.             *)
CustomersBecomeKnown ==
  \A c \in Customers : table[c] # 0 ~> Known(c) \/ Created(c) \in lost

(* application/ports.go:13-15: the read model "is eventually consistent    *)
(* with the write side".                                                   *)
ReadModelCatchesUp ==
  \A c \in Customers : \A n \in 1 .. MaxCommands[c] : table[c] = n ~> reads[c] >= n
=============================================================================
