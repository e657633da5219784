# go-ddd: specifications, model checking and proofs

This directory is the formal side of the repository: TLA+ modules translated
from the Go source, small instances of them for TLC, and proofs for TLAPS.
Paths below are relative to `src/`; line numbers are those of the commit the
modules were written from. Each model is an abstraction. It keeps every state
change, guard, early return and error path of the code it stands for, in their
order, and leaves out wording, formats, logging and time stamps.

    tlc -workers 2 -config outbox_relay.cfg MCOutbox.tla     # model-check
    tlapm OutboxProofs.tla                                   # prove

## 1. The system

The program is a modular monolith in the DDD style. `cmd/api` serves REST and
gRPC and `cmd/worker` does background work. Bounded contexts talk through an
event bus, fed from an outbox by a relay, or through one another's gRPC service
objects called in process. There are two choices at start-up
(`internal/bootstrap`): in-memory or Postgres persistence, and the in-process
bus or Kafka.

| Part | State it keeps | Operations | Talks to |
|---|---|---|---|
| Outbox store `internal/eventbus/outbox/store.go` | rows by id, insertion order, status | Add, FetchPending, MarkPublished, MarkFailed; one mutex | commands (Add), relay |
| Relay `outbox/relay.go` | a copied batch | Run (poll loop), Drain, drain | store, bus |
| Local bus `eventbus/local`, `eventbus/middleware.go` | handlers by event name | Subscribe, Publish; Recover, Logging | handlers, on the caller's goroutine |
| Kafka bus `eventbus/kafka` | writers, readers, one consumer group; retry topics and a dead-letter topic | Publish, Run, one read loop per topic, handle, fail, deadLetter, commit | broker, handlers |
| Customer write side `internal/customer` | rows with an optimistic version, an email index | CreateCustomer, ChangeCustomerEmail in a unit of work | repository, uniqueness service, outbox |
| Repositories, unit of work | maps under a mutex, or a table with a unique index; `Noop` or an SQL transaction | FindByID, ExistsByEmail, Save; Within | |
| Customer read model `customer/infrastructure/projections` | one row per customer | onCreated, onEmailChanged, onDeactivated; GetByID, List | bus, queries |
| Notification | none | welcome e-mail on customer.created | bus |
| Order | saved orders | PlaceOrder | customer's GetCustomer (the read model) |
| Process life cycle `cmd/api`, `cmd/worker`, `bootstrap`, `platform/httpx`, `platform/grpcx`, `platform/database` | goroutines, contexts, an error channel, the pool | Load, Build, Open, run, Run, RunBackground, Close | everything above |
| Configuration `platform/config` | none after Load | Load: defaults, file, environment, validate | life cycle |
| Request path: middleware, gateway, interceptors, gRPC servers | none that a request shares with another | RequestID, AccessLog, Recover, StatusCodeOption; Recovery, AccessLog | services |
| Migration tool `cmd/migrate` | schema_migrations | up, down, -steps | Postgres |
| Pagination `pkg/pagination`, list queries | none | New, List | read model |
| Observability, identity, payment, agentctl, scripts, generated messages | none | | |

What is hard about it:

* **Interleaving.** Commands check and save in two calls; the poll loop and
  `DrainOutbox` work through copies of the same rows; handlers run while their
  partition is given to another process; customers enter a list between the two
  queries of a page.
* **Failure.** A publish, a handler, a retry write, an offset commit or a
  transaction's commit fails, perhaps after having happened; a process dies
  between any two steps and takes its outbox with it; starting up fails half way.
* **Ordering.** The relay goes past a failed row; commits of offsets are
  cumulative; three components stop in any order; a layer of middleware or of the
  configuration works only inside or outside another.
* **Time.** Retries wait for a not-before time, shutdown has a timeout in one
  server and none in the other, retries are bounded.

`PROJECT.json` lists each hazard at its line with the properties that cover it.

## 2. The modules

| Module | Models | Uses |
|---|---|---|
| `Delivery` | abstract: an at-least-once carrier | |
| `Outbox` | store and relay | implements `Delivery` |
| `KafkaConsumer` | one business topic with its retry chain, and the consumer group | implements `Delivery` |
| `CustomerRegister` | abstract: atomic creates and changes, unique addresses | |
| `CustomerCommands` | what both persistence profiles share of the two commands | |
| `MemoryCustomers` | in-memory repository, `Noop` unit of work | extends `CustomerCommands` |
| `PostgresCustomers` | Postgres repository, SQL unit of work | extends `CustomerCommands`, implements `CustomerRegister` |
| `CustomerFlow` | command, outbox, local bus, read model, notification, order, list and restart together | instance of `Outbox` |
| `Config` | the layers of the configuration (operators) | |
| `Requests` | the REST and gRPC chains around a service call (operators) | |
| `Lifecycle` | a process from start to exit | extends `Config`, `Requests` |
| `Migrate` | concurrent runs of the migration tool | |
| `OutboxProofs`, `KafkaConsumerProofs`, `MemoryCustomersProofs`, `PostgresCustomersProofs`, `CustomerFlowProofs`, `MigrateProofs`, `LifecycleProofs` | theorems | |
| `CustomerFlowOrderProofs` | theorems that rest on the order of the outbox | extends `CustomerFlowProofs`, instance of `OutboxProofs` |
| `MC*` | instances for TLC | |

Definitions called "Mutated form" change the operator after them the way a
plausible bug would. No specification uses them; each property is shown to be
violated when its mutated form takes the place of the original.

**Outbox.** `order` and `status` are `MemoryStore.order` and the status in
`byID`; the mutex makes each store call one action. A drain is `BeginDrain`
(FetchPending copies a batch), then per row `PublishOK` or `PublishErr` and
`MarkPublished` or `MarkFailed`, with nothing held in between. `Relay` is the
goroutine in `Run`, `Flushers` are other callers of `Drain`. A cancelled context
stops the loop between drains only, as the `select` does. `Poison` events are
those the bus always refuses. `accepted` is a history variable.

**KafkaConsumer.** A reader is a member of the group at a hop (0 is the business
topic, 1 to MaxRetries are the retry topics). `Fetch`, the not-before wait,
dispatch, `WriteRetry` or `WriteDeadLetter`, and `Commit` are separate steps, so
a rebalance or a crash (`Rebalance`, `Leave`) can fall between any two. kafka-go
and the broker are external and modelled from their use: fetching moves on
whether or not the message was committed, a commit covers everything below it,
and an erroneous write may have been stored. Each physical topic is one partition.
`handled`, `failedAt` and `dropped` are history variables.

**CustomerCommands, MemoryCustomers, PostgresCustomers.** A request is
`Begin`, `Load` (a change only), `EnsureAvailable`, `Save`, `PublishEvents`, and in
Postgres `Commit`: one step per call on the repository or publisher. In memory
every call takes effect at once. In Postgres reads see committed rows, and the upsert
is two steps: `LockRow` gets the row, once no open transaction has it, and meets the
version guard; `InsertEntry`, still holding the row, enters the address in the unique index,
once no open transaction is adding or giving up that address. In both profiles the outbox is
the in-memory store, as in `bootstrap.Build`: an event is in it before the commit
and a crash keeps only those the relay has forwarded. `announced` is the sequence
of events in the order they entered it; what becomes of them is `Outbox`'s and
`CustomerFlow`'s matter.

**CustomerFlow.** One process with the local bus. The drain of `Outbox` is used
as it stands; its Publish call is opened up into one step per handler, in
subscription order, with errors joined (`HandlerSucceeds`, `HandlerFails`,
`PublishReturns`). A command is what of `PostgresCustomers` the others can see:
`PublishEvent` adds the event inside the transaction, and `Commit` or `CommitFails` comes
later, so that the relay may forward the event of a row that is not committed yet or
never will be. `asked` counts a customer's commands by their events, `table` names the
committed one, `open` says that the last is in its transaction still, and `aborted` is the
history of those that did not commit. An address is told by the command that set it.
`HandlerFails` may leave the effect of the handler behind, as a database whose answer is lost.
`PlaceOrder` asks the customer context the way the order context does: `GetByID` of
the read model, `mapError`, and the verifier's reading of the status. A client walks
through the list: `QueryPage` and `ReturnResult` are the two queries of the Postgres
`List` (in memory they are one), `Limit` and `Offset` the clamps of `pagination.New`, and
`Rank` the order of (created_at, id), which is not that of arrival. `Restart` ends
the process anywhere and starts it again: the customers' rows and the read model
are in Postgres and stay, the outbox and the orders are in memory and go. A shutdown
is no better than a crash here, since no command calls `DrainOutbox`. `lost` is the history
of events lost with an outbox, `failed` that of failed handler calls of a created event.

**Config, Requests.** Operators without state. A configuration is a function on the
settings that decide something; every layer is a function on what it sets. A
request is followed through the layers as a record of what has been sent, recorded
and logged; each layer is an operator on the record the layer inside it returns, so
that the order of the layers is the order of application. net/http and grpc-go are
external, modelled from their use.

**Lifecycle.** `Load`, `NewPersistence` and the ping, then the goroutines of `run`, the
servers' `Run`, `RunBackground`, the relay's loop (with a drain in progress) and the Kafka
bus's read loops (with a handler in progress), their channels and contexts, and the
two steps of `Close`. A launch is a command, a file and an environment; which loops and
servers exist follows from it. A server's `Run` is serving, stopping or returned;
`errCh` is the channel of `run`; a request is accepted until shutdown begins and is
answered by the chain of `Requests`. A panic that gets out of the gRPC chain ends the
process (`crashed`).

**Migrate.** A run loads what is applied, plans, and commits one migration per
transaction with its row. A version is a sequence of digits, because the code
orders versions by number going up and as text going down.

## 3. The runs

| Run | Properties | Instance | What it shows |
|---|---|---|---|
| `outbox_relay` | OvertakesOnlyFailed, PublishedIsFinal, HealthyIsFetched, EventuallyPublished | 4 events, 1 poison, batches of 2, poll loop alone | order is kept except past failed rows; nothing is taken back; the oldest deliverable row is in every batch and is published unless the relay is stopped |
| `outbox_flush` | PublishedWasAccepted, StarvedBehindPoison, ImplementsDelivery | 4 events, 2 poison, batches of 2, one concurrent Drain | the outbox is at-least-once under two drains; nothing behind a batch full of poison is accepted |
| `kafka_safety` | TypeOK, LossesPaidFor, DeadLetteredAfterAllTries | 2 processes, 2 events (1 undecodable), 1 retry hop, 1 rebalance or crash, 1 failing write | a commit passes only recorded outcomes and one record for each failed write; nothing is dead-lettered early |
| `kafka_liveness` | ImplementsDelivery, EventuallySettled | the same with an event nobody subscribes to and no failing write | the chain is a carrier, and each event is handled or dead-lettered |
| `kafka_write_error` | CommittedIsRecorded, violated | 1 process, 2 events, 1 failing write | see section 6 |
| `memory_index` | TypeOK, IndexSound, EveryVersionAnnounced, VersionsNeverGoBack | 2 creates, 3 changes, 2 addresses | the index, the announcements and the version check under races |
| `memory_lost_update` | NoLostUpdate, violated | 1 create, 2 changes, 3 addresses | see section 6 |
| `postgres_commands` | EmailIdentifiesOne, EventsEndCurrent, ImplementsRegister, RequestsFinish | 2 creates, 2 changes, 3 addresses, 1 failing call or crash | committed rows are those of an atomic register; no cycle of lock waits comes about; until a fault the events end with the current address |
| `flow_contexts` | TypeOK, CreationNotForgotten, OrdersHaveCustomers, ReadsFollowWrites, WelcomesBounded, WalkMissesNothing, CustomersBecomeKnown | 2 customers, one with 2 commands and orders, 1 failing handler call, 1 failing commit, 1 restart, pages of 1 | no context misses a customer but by a lost outbox; none is ahead of the committed rows but by a command that is open or failed to commit; e-mails repeat only for failures of the created event; a walk through the list is complete |
| `flow_stale` | ReadModelCatchesUp, violated | 1 customer, 2 commands, 1 failing handler call | see section 6 |
| `lifecycle_api` | TypeOK, ClosedAfterUse, RequestsDrained, FailureDecidesExit, PoolFollowsProcess, RunsAsConfigured, RequestsAccountedFor, NeverStuck, ShutsDown | both commands under 7 configurations, 1 read loop, 2 requests with every outcome | nothing runs on a refused configuration or outlives what it uses; no request ends the process or goes unrecorded; the first failure decides the exit code; a shutdown is never stuck, and the process ends |
| `migrate_runs` | TypeOK, NoGaps, AppliedOnce, SuccessMeansApplied | 3 up runs of two releases, 2 down runs, 3 versions | concurrent and failing runs leave no gap and apply nothing twice |

**Bounds.** Constants bound what the code does not: `MaxPublishes`, `MaxFaults`,
`MaxWriteErrs`, `MaxCommands`, `MaxAborts`, `MaxFailures`, `MaxRestarts`, `Buyers`,
`AskedLimits`. More events than fit in a batch make batch boundaries happen, and two poison events fill a batch of two with others behind it;
two members and one fault make every stale commit and
every restart happen; three changes suffice for a version to be overwritten by an
equal one and met by an older one; a second record behind a failed write is
what a cumulative commit needs. `OptMaxRetries = 1` gives a first hop, a last hop
and the step between them. Symmetry is used in two safety runs, over group
members, and over addresses and change requests, which are only compared; `MCFairSpec`
fixes the customer of the first change and the address of the first create in
`postgres_commands` for the same reason.
Three addresses are what two changes from one version need to differ. Pages of one
make a walk of two pages with two customers, whose second one can arrive before,
between and behind its queries. The one failing handler call of `flow_contexts` falls on
any event, so an e-mail that another event's failure repeated would show, and with the
change of address it is enough for the disorder of `flow_stale`; a single failing commit or
restart can fall between any two steps, and on a creation as well as on a change. An order
is about one customer and changes nothing else, so orders for the one customer whose
address changes are enough. Two
creates and two changes suffice for customers to swap addresses, each upsert holding the
row the other one waits for. The
launches of `lifecycle_api` are every profile and one example of each refusal: a value
`validate` rejects, a required value missing after all layers, an unreadable file.
The types of `Outbox` are checked in `flow_contexts`, whose
`TypeOK` includes them, those of the commands in `memory_index`; both are proved.
Deadlock is checked where the system never stops; the other configurations say
why it may.

**Fairness.** The relay's goroutine and its ticker (weak fairness of a drain's
steps); in `outbox_relay` a bus that is offered a non-poison event over and over
takes it in the end (strong fairness of its `PublishOK`), which is an assumption
about handlers. In Kafka, assignment of partitions and each reader's loop
(weak); nothing is assumed of what handlers or commits return. A request's
goroutine runs on (weak, per request). In `Lifecycle`, goroutines are scheduled
and each request is answered: `GracefulStop` has no timeout, so without the last
assumption the API need not end.
The relay's `select` picks any ready case, so a tick may win over the
cancellation any number of times but not for ever: strong fairness of `RelayReturns`. So is
`FetchMessage`, which may go on handing out buffered messages: strong fairness of `ReaderStops`.
In `CustomerFlow` no fairness of success is needed because failures are bounded.

## 4. The proofs

TLAPS proves the following for every value of the constants that the named
assumptions allow: any set of events, any number of drainers, any batch size
(`OutboxAssumption`), any members and any retries and faults (`KafkaAssumption`), any
customers, addresses and requests (`CommandsAssumption`), any number of failing
database calls (`PostgresAssumption`), any order of the list, page
sizes, failures and restarts (`FlowAssumption`, `ListAssumption`), any runs and directories
(`MigrateAssumption`), any launches, read loops and requests (`LifecycleAssumption`).

| Theorem | States |
|---|---|
| `OutboxProofs!TypeCorrect` | `Spec => []TypeOK` |
| `OutboxProofs!OrderIsConsistent` | `Spec => []RowsListedOnce` |
| `OutboxProofs!AtLeastOnce` | `Spec => []PublishedWasAccepted` |
| `OutboxProofs!OutboxDelivers` | `Spec => ImplementsDelivery` |
| `OutboxProofs!InOrderUnlessFailed` | `Spec => []OvertakesOnlyFailed` if the poll loop is the only drainer |
| `OutboxProofs!PublishedStays` | `Spec => PublishedIsFinal` if the poll loop is the only drainer |
| `OutboxProofs!PoisonStarves` | `Spec => []StarvedBehindPoison` |
| `OutboxProofs!HealthyMovesUp` | `Spec => HealthyIsFetched` if there are fewer poison events than `batchSize` |
| `KafkaConsumerProofs!ConsumerTypeCorrect` | `Spec => []TypeOK` |
| `KafkaConsumerProofs!CommitsLoseOnlyDropped` | `Spec => []OnlyFailedWritesLose` |
| `KafkaConsumerProofs!EachLossIsAFailedWrite` | `Spec => []LossesPaidFor` |
| `KafkaConsumerProofs!AllTriesBeforeDeadLetter` | `Spec => []DeadLetteredAfterAllTries` |
| `KafkaConsumerProofs!NoLossWithoutWriteErrors` | `Spec => []CommittedIsRecorded` if no write fails |
| `KafkaConsumerProofs!ConsumerDelivers` | `Spec => ImplementsDelivery` if no write fails |
| `MemoryCustomersProofs!MemoryTypeCorrect` | `Spec => []TypeOK` |
| `MemoryCustomersProofs!IndexStaysSound` | `Spec => []IndexSound` |
| `MemoryCustomersProofs!VersionsOnlyGrow` | `Spec => VersionsNeverGoBack` |
| `MemoryCustomersProofs!VersionsAreAnnounced` | `Spec => []EveryVersionAnnounced` |
| `PostgresCustomersProofs!PostgresTypeCorrect` | `Spec => []TypeOK` |
| `PostgresCustomersProofs!OneCustomerPerEmail` | `Spec => []EmailIdentifiesOne` |
| `PostgresCustomersProofs!PostgresImplementsRegister` | `Spec => ImplementsRegister` |
| `PostgresCustomersProofs!EventsInOrder` | `Spec => []EventsEndCurrent` |
| `CustomerFlowProofs!FlowTypeCorrect` | `Spec => []TypeOK` |
| `CustomerFlowProofs!CreationsReachEveryContext` | `Spec => []CreationNotForgotten` |
| `CustomerFlowProofs!OrdersOnlyForCustomers` | `Spec => []OrdersHaveCustomers` |
| `CustomerFlowProofs!WalksAreComplete` | `Spec => []WalkMissesNothing` |
| `CustomerFlowOrderProofs!FlowRunsTheOutbox` | `Spec => [][Rows!Next \/ Restart]_box` |
| `CustomerFlowOrderProofs!OutboxSoundInFlow` | `Spec => [](Rows!RowsListedOnce /\ Rows!PublishedWasAccepted)` |
| `CustomerFlowOrderProofs!WelcomesArePaidFor` | `Spec => []WelcomesBounded` if the poll loop is the only drainer |
| `CustomerFlowOrderProofs!ReadModelFollows` | `Spec => []ReadsFollowWrites` if the poll loop is the only drainer |
| `MigrateProofs!MigrateTypeCorrect` | `Spec => []TypeOK` |
| `MigrateProofs!NeverAppliedTwice` | `Spec => AppliedOnce` |
| `MigrateProofs!NeverAGap` | `Spec => []NoGaps` if `DirectoriesComplete` and `TextOrderIsNumeric` |
| `MigrateProofs!SuccessApplies` | `Spec => SuccessMeansApplied` |
| `LifecycleProofs!TypeCorrect` | `Spec => []TypeOK` |
| `LifecycleProofs!ClosedWhenUnused` | `Spec => []ClosedAfterUse` |
| `LifecycleProofs!NoRequestCutOff` | `Spec => []RequestsDrained` |
| `LifecycleProofs!FirstFailureDecides` | `Spec => []FailureDecidesExit` |
| `LifecycleProofs!PoolClosedOnExit` | `Spec => []PoolFollowsProcess` |
| `LifecycleProofs!AcceptedConfigRuns` | `Spec => []RunsAsConfigured` |
| `LifecycleProofs!EveryRequestAccountedFor` | `Spec => []RequestsAccountedFor` |
| `LifecycleProofs!ShutdownIsNeverStuck` | `Spec => []NeverStuck` if every service call returns (`MayBe[r]` is not empty) |

*Outbox, any drainers.* `PublishedWasAccepted` is not inductive: a drain about to
mark a row must know that the bus took it, and that its position still names the
same row. `BatchSound` says both, and `RowsListedOnce` goes with it. The
refinement needs nothing more: `Add` accepts, `PublishOK` delivers, `MarkPublished`
discharges, `MarkFailed` may reopen.

*Outbox, one drainer.* `BatchIsPrefix` says that every row before one in the batch
is in the batch or has been tried, and that no row of the batch is published.
`FetchPendingIsPrefix` proves that a batch of the first unpublished rows has this
property for any limit. With a second drainer both conclusions are false: one
drain's `MarkFailed` meets the row another has published.

*Starvation.* `FetchPending` takes the first unpublished rows, those that failed before
included, and a poison row is never published. So a row with a batch full of poison
before it is in no batch (`NoneStarvedInBatch`, which is inductive because rows are only
appended) and is never accepted. With fewer poison events the rows before the oldest
deliverable one are fewer than a batch holds, by cardinality, and each pass takes it up.

*Kafka.* `OffsetsExist` ties offsets to the topics; `HopTells` says that a record's
header is its hop and that its event has failed on every earlier one, which gives
the number of tries; `ReadIsRecorded` says that all a reader has passed is recorded or
dropped, which is what makes a cumulative commit safe, also a stale one. That
topics and histories only grow (`GrowStep`) carries facts about records over each
step. `Charged` counts the records that failed writes have left behind: a step adds one
only when a write fails, so there are never more than failures (`EachLossIsAFailedWrite`).
`NoLossWithoutWriteErrors` adds that `dropped` is empty when no write fails.
Under the same condition `ConsumerDelivers` shows the refinement: a commit is a
`Discharge` or, when stale, a `Reopen`, and what it discharges is settled, because an
unsettled event whose records are all committed would have a record on every hop
(`PassedIsSettled`, with `ReachesLast` in place of an induction over the hops).

*In-memory customers.* `IndexSound` is inductive with the types: `Reindex` removes the
address of the row that is replaced, and no other entry can name that customer. An
announcement needs `SeenWasWritten`: what a request has loaded was written, so that
its save adds at most one version, the one it then announces.

*Postgres customers.* `Locks` says that a transaction which has its row has loaded it as
it is committed and is alone with it (`RowsHeld`), and that one which has its index entry is
alone with its address (`EntriesHeld`). The waits, the unique index and the version guard
are each needed for one part of it. `SeenSound` adds that a request cannot have loaded
another row of the same version. The uniqueness of addresses and the refinement of
`CustomerRegister` follow from this at the commit. `EventsTrack` says that the last event about a
customer tells the address about to be committed, or the committed one.

*Contexts.* `CreationNotForgotten` is not inductive. `Written` says that what is in the outbox
or in the read model was written before; `BatchListed` and `RanBetween` tie a drain to its
rows; and `Pass` says what a drain in the middle of a created event has achieved: as
long as no handler returned an error those that ran have done their work, and a
drain about to mark the row published has made the customer known. With several
drains at once this is what makes their unordered marks harmless. `TxInv` accounts for the
commands above the committed one: the last of them may be open, all others have failed to
commit. With `Written` it gives `OrdersHaveCustomers`, since a customer in the read model
whose creation is neither committed nor open is one whose commit failed. `WalkInv` says that
every customer known when the walk began that stands before the offset has been
sent, the page just read included. Rows are only inserted, so positions only grow,
which is a matter of cardinalities (the `Pos` lemmas).

*Contexts in order.* `CustomerFlowOrderProofs` uses the outbox as a component: it takes an
instance of `OutboxProofs`, shows that every step of the flow is one of the outbox or a
restart (`RowStep`), that a restart leaves an outbox as at first, and so has the step
lemmas of the outbox for the running process. `OutboxProofs` says that with one
drainer nothing but a failed row is overtaken; `VersionOrder` and `BeforeCurrent` turn
this into the order of one customer's events, `ProjectionShows` and `Shown` into what
the read model has when no handler has failed; `TxInv` ties that to the committed rows. `Paid` counts
e-mails: after the first, each repeats because an error made the relay keep the created event,
and that error is one of this event's own, which no other e-mail is charged to. A second drainer breaks both properties: two
drains deliver a row twice without any failure, and one may deliver the created event
after the other has delivered the change.

*Migrations.* `OneTransaction` says that no two runs are inside a transaction on one
version, and that one inside an up script works on a version that is not recorded;
this gives `AppliedOnce`. `Ordered` says that a run has planned, or finds recorded, all
that must happen before each of its migrations. It needs the two conditions, which
the repository's directory satisfies: a directory has all versions before any it has
(`DirectoriesComplete`), and the versions are padded to one width (`TextOrderIsNumeric`).
`AllPlanned` says that an up run leaves out only what is recorded.

*Life cycle.* What main closes is unused because of a count: `Counted` says that the
results main has taken and those still in `errCh` are as many as the components that
have returned, so that main, which has taken one per component, has waited for all;
`Running` ties the loops and the readers to the component they belong to. Bounded
by the same count, `errCh` never blocks a sender. `Uncancelled` says that before any
cancellation nothing but errors can have been sent, so that the head of `errCh` is
one if a component failed first; `Blamed` carries this to the exit code. `Attended` says
that a server returns with requests left only if it failed or timed out, and `ServeFacts`
goes through the two chains for every outcome. `Stages` says that
each loop is only in the states it has and that no server is unstarted once the
background is under way; with `Counted` and `Running` this leaves at every moment of a shutdown
somebody who waits for nobody (`SomebodyProceeds`). That the guards in
`NeverStuck` hold just when a fair step is ENABLED was compared by TLC on the instance of `lifecycle_api`.

Only model-checked is liveness: `EventuallyPublished`, `EventuallySettled`,
`RequestsFinish`, `CustomersBecomeKnown` and `ShutsDown`, because fairness is stated with
ENABLED, which the prover does not reason about. What is safety in them is proved:
`HealthyMovesUp` for the first (a fair pass offers the row) with `PoisonStarves` for its
limit, `ConsumerDelivers` for the second (nothing is discharged that was not settled),
`CreationsReachEveryContext` for the fourth (an event not yet known to everybody is still in
the outbox), `ShutdownIsNeverStuck` for the last. Every invariant, action property and
refinement of a passing run is proved. For a property that is violated, the
theorems say what remains: `CommitsLoseOnlyDropped`, `EachLossIsAFailedWrite` and
`NoLossWithoutWriteErrors` for `kafka_write_error`, `VersionsOnlyGrow` for
`memory_lost_update`, `ReadModelFollows` for `flow_stale`.

## 5. Not modelled

* Logging and observability: output only. The fields of requests and responses.
* Settings that only tune what is modelled (sizes, intervals, time-outs).
* Deactivating a customer: the aggregate, the event and the projection have it, no command does.
* The curve of the exponential backoff and the names of topics.
* A second call of `Bus.Run`, and publishing after `Bus.Close`.
* A migration that has only one of its two scripts.
* Registration errors in `Build` (an empty event name, a route twice): they depend on
  constants of the source and cannot happen with these.
* The orders' and the customers' events over Kafka together with `CustomerFlow`: the
  carrier's promise is checked in `KafkaConsumer`, the contexts' with the local bus.
* Identity and payment (placeholders), scripts, and agentctl, which reads and writes
  topics from outside and on which nothing of the program depends; generated
  messages.
* Storage faults of Kafka and Postgres themselves.

## 6. Where the code and its documentation disagree

Shown by runs:

* `kafka_write_error`. When a write to a retry or dead-letter topic fails, `fail`
  returns without committing, and the comment (`kafka/consumer.go:91-93`) expects
  redelivery. The read loop goes on to the next message, whose commit passes
  the skipped offset. `LossesPaidFor` bounds the damage to that record, one
  for each failed write.
* `memory_lost_update`. The in-memory `Save` (`memory/repository.go:49`) accepts an equal
  version, so the second of two changes from the same version replaces the first
  without the conflict that `customer_repository.go:11-13` announces. Postgres has
  the strict comparison.
* `flow_stale`. A retried `customer.v1.created` that arrives after `email_changed` puts
  the old address back (`memory_read_model.go:67`, `postgres_read_model.go:57`), and a
  change that arrives before the row exists is ignored; `ports.go:13-15`
  promises eventual consistency.

Seen in the models with other instances, and not kept as runs:

* As many always-failing events as `BatchSize` starve every newer one
  (`EventuallyPublished` with two poison events and batches of two; `PoisonStarves` proves
  it for every batch size).
* In memory, two requests can give one address to two customers
  (`EmailIdentifiesOne` of `MemoryCustomers`), and the events of two changes can enter
  the outbox in the wrong order (`LastEventIsCurrent`); Postgres prevents both.
* The outbox is in memory in the Postgres profile too. An event of a transaction
  that fails to commit is forwarded all the same, against `unit_of_work.go:5-7`: the
  read model shows, the welcome e-mail reaches and orders are taken for a customer who
  does not exist, or at an address that was never written (`OrdersHaveCustomers` and
  `ReadsFollowWrites` without the cases of an open and of a failed commit are violated in
  `flow_contexts`). An event whose process dies is lost, against `migrations/0002_outbox.up.sql:1-2`.
  Nothing drains the outbox at exit, and the worker's own outbox is always empty.
* `FetchPending` claims nothing, although `deployments/kubernetes/worker.yaml:8` says rows are
  claimed atomically; with a process-local store no two workers share rows.
* The welcome handler "must be idempotent" (`customer_created_handler.go:36`) and sends
  one e-mail per delivery (`welcomes` exceeds 1 in `flow_contexts`; `WelcomesBounded` says
  how far).
* The gRPC `AccessLog` "logs one line per RPC" (`grpcx/interceptors.go:28`) but none for an
  RPC that panics, because `Recovery` is outside it, nor for one whose request does not
  decode (the second case of `RequestsAccountedFor`). In REST the order is the other one.
* A number or duration in the environment that does not parse is ignored without a
  word (`config.go:187-201`), while a broken file stops the start.
* A signal during start-up cancels the ping, and the process exits with 1; the same
  signal a moment later ends it with 0.
* With versions 9 and 10 `cmd/migrate down` rolls back 9 first, because text order
  puts it last (`NoGaps` with these versions); the repository pads its versions.
* With two drains `MarkFailed` of the one takes back what the other has published
  (`PublishedIsFinal` with a flusher); `ImplementsDelivery` shows that this costs another
  delivery at most: the event was accepted before it was first marked published.
* A request that is never answered keeps a process from ending, for `GracefulStop` has no
  timeout (`ShutsDown` without the fairness of `Finish`).

## 7. Plan

Done: the pipeline (`Outbox`, `KafkaConsumer`, `Delivery`), the write side in both
profiles, the composition of the contexts with restarts and the list, start-up,
configuration, request path and life cycle, the migration tool, and the proofs of
section 4. Left, in this order:

1. Prove: the ranks behind the liveness properties, so that only fairness is left to TLC:
   a step of a request raises its stage (`RequestsFinish`), a pass of the relay without a
   failure leaves fewer events to publish (`CustomersBecomeKnown`), a record of the
   business topic is followed by at most one on each retry topic unless it is
   redelivered (`EventuallySettled`).
2. Model: the flow over Kafka, where retries reorder too; deactivation in the read
   model once a command causes it; a second `Run` and use after `Close` of the Kafka
   bus; the backoff with its width.
