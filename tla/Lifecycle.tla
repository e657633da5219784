----------------------------- MODULE Lifecycle -----------------------------
(***************************************************************************)
(* Start to exit of a process: cmd/api (two servers and the background     *)
(* work) or cmd/worker (the background work alone), with config.Load,      *)
(* bootstrap.Build, the Run methods of httpx.Server, grpcx.Server, the     *)
(* relay and the Kafka bus, Application.RunBackground and Close.           *)
(*                                                                         *)
(* Component goroutines send what Run returned to errCh; main takes the    *)
(* first result, cancels the rest, waits for them and closes the bus and   *)
(* the database pool.  In the worker main itself is the only component.    *)
(***************************************************************************)
EXTENDS Integers, Sequences, FiniteSets, Config, Requests

CONSTANTS
  Launches,    \* how a process may be started: command, file and environment
  Readers,     \* the read loops that Bus.Run starts
  NewRequests, \* the requests that may come in
  MayBe        \* MayBe[r]: the outcomes request r may have

AllServers == {"http", "grpc"}
AllLoops == {"relay", "bus"}

ASSUME LifecycleAssumption ==
  /\ \A l \in Launches : l.command \in {"api", "worker"} /\ l.readable \in BOOLEAN
  /\ MayBe \in [NewRequests -> SUBSET Outcomes]

Results == {"nil", "canceled", "error"}

VARIABLES
  launch,        \* how this process has been started
  pool,          \* the database pool
  signalled,     \* SIGINT or SIGTERM has cancelled ctx
  cancelled,     \* main has called cancel on runCtx
  bgCancelled,   \* RunBackground has called cancel on its own context
  serveErr,      \* servers whose listener has sent an error to Run's errCh
  server,        \* where each server's Run is
  timedOut,      \* servers whose Shutdown ran into its timeout
  loop,          \* where the relay's Run (busy: in a drain) and the bus's are
  reader,        \* where each read loop is
  background,    \* where RunBackground is
  errCh,         \* main's channel
  main,          \* where run is
  received,      \* how many results main has taken from errCh
  first,         \* the first of them
  serving,       \* the server that has each request, or "new" or "done"
  answer,        \* what became of the requests that are done
  hardFirst      \* history: an error was sent to errCh before any cancel

contexts == <<signalled, cancelled, bgCancelled>>
servers == <<serveErr, server, timedOut>>
loops == <<loop, reader, background>>
inMain == <<pool, main, received, first>>
requests == <<serving, answer>>
vars == <<launch, pool, signalled, cancelled, bgCancelled, serveErr, server, timedOut, loop,
          reader, background, errCh, main, received, first, serving, answer, hardFirst>>

config == Effective(launch.file, launch.env)

Servers == IF launch.command = "api" THEN AllServers ELSE {}
Loops == IF UseKafka(config) THEN AllLoops ELSE {"relay"}
Components == Servers \cup {"background"}

runCtxDone == signalled \/ cancelled
bgCtxDone == runCtxDone \/ bgCancelled

Starting == main \in {"load", "build", "ping", "start"}
Over == main \in {"exited", "aborted", "crashed"}

TypeOK ==
  /\ launch \in Launches
  /\ pool \in {"none", "open", "closed"}
  /\ {signalled, cancelled, bgCancelled, hardFirst} \subseteq BOOLEAN
  /\ serveErr \subseteq AllServers
  /\ server \in [AllServers -> {"off", "serving", "stopping", "returned"}]
  /\ timedOut \subseteq AllServers
  /\ loop \in [AllLoops -> {"off", "running", "busy", "closing", "returned"}]
  /\ reader \in [Readers -> {"off", "fetching", "handling", "stopped"}]
  /\ background \in {"off", "first", "rest", "returned"}
  /\ errCh \in Seq(Results)
  /\ Len(errCh) <= Cardinality(Components)
  /\ main \in {"load", "build", "ping", "start", "wait", "collect", "closing",
               "exited", "aborted", "crashed"}
  /\ received \in 0 .. Cardinality(Components)
  /\ first \in Results
  /\ serving \in [NewRequests -> AllServers \cup {"new", "done"}]
  /\ answer \in [NewRequests -> Call]

Init ==
  /\ launch \in Launches
  /\ pool = "none"
  /\ signalled = FALSE
  /\ cancelled = FALSE
  /\ bgCancelled = FALSE
  /\ serveErr = {}
  /\ server = [s \in AllServers |-> "off"]
  /\ timedOut = {}
  /\ loop = [l \in AllLoops |-> "off"]
  /\ reader = [q \in Readers |-> "off"]
  /\ background = "off"
  /\ errCh = << >>
  /\ main = "load"
  /\ received = 0
  /\ first = "nil"
  /\ serving = [r \in NewRequests |-> "new"]
  /\ answer = [r \in NewRequests |-> Untouched]
  /\ hardFirst = FALSE

Signal ==
  /\ ~signalled
  /\ signalled' = TRUE
  /\ UNCHANGED <<launch, cancelled, bgCancelled, servers, loops, errCh, inMain, requests, hardFirst>>

-----------------------------------------------------------------------------
(* Start-up: config.Load, and what in Build can fail. *)

Load ==
  /\ main = "load"
  /\ main' = IF LoadSucceeds(launch.readable, launch.file, launch.env)
             THEN "build" ELSE "aborted"
  /\ UNCHANGED <<launch, pool, contexts, servers, loops, errCh, received, first, requests, hardFirst>>

(* newPersistence: nothing to open in the in-memory profile; sql.Open may  *)
(* reject the DSN, and connects to nothing yet.                            *)
NewPersistence ==
  /\ main = "build"
  /\ IF UseDatabase(config)
     THEN \/ main' = "ping" /\ pool' = "open"
          \/ main' = "aborted" /\ UNCHANGED pool
     ELSE main' = "start" /\ UNCHANGED pool
  /\ UNCHANGED <<launch, contexts, servers, loops, errCh, received, first, requests, hardFirst>>

PingSucceeds ==
  /\ main = "ping"
  /\ main' = "start"
  /\ UNCHANGED <<launch, pool, contexts, servers, loops, errCh, received, first, requests, hardFirst>>

(* Mutated form: Open returns without closing the pool. *)
PingFailsOpen ==
  /\ main = "ping"
  /\ main' = "aborted"
  /\ UNCHANGED <<launch, pool, contexts, servers, loops, errCh, received, first, requests, hardFirst>>

(* Also because a signal has cancelled ctx, or after five seconds. *)
PingFails ==
  /\ main = "ping"
  /\ pool' = "closed"
  /\ main' = "aborted"
  /\ UNCHANGED <<launch, contexts, servers, loops, errCh, received, first, requests, hardFirst>>

(* The goroutines of run, RunBackground and Bus.Run. *)
Start ==
  /\ main = "start"
  /\ server' = [s \in AllServers |-> IF s \in Servers THEN "serving" ELSE "off"]
  /\ loop' = [l \in AllLoops |-> IF l \in Loops THEN "running" ELSE "off"]
  /\ reader' = [q \in Readers |-> IF "bus" \in Loops THEN "fetching" ELSE "off"]
  /\ background' = "first"
  /\ main' = "wait"
  /\ UNCHANGED <<launch, pool, contexts, serveErr, timedOut, errCh, received, first, requests, hardFirst>>

-----------------------------------------------------------------------------
(* The servers. *)

Accept(r, s) ==
  /\ serving[r] = "new"
  /\ server[s] = "serving"
  /\ s \notin serveErr
  /\ serving' = [serving EXCEPT ![r] = s]
  /\ UNCHANGED <<launch, contexts, servers, loops, errCh, inMain, answer, hardFirst>>

(* The chain runs and the answer is sent.  A panic that leaves a gRPC      *)
(* chain ends the process; net/http keeps it to the connection.            *)
Finish(r) ==
  /\ serving[r] \in AllServers
  /\ \E outcome \in MayBe[r] :
       LET x == Serve(serving[r], outcome) IN
       /\ answer' = [answer EXCEPT ![r] = x]
       /\ main' = IF x.panics /\ serving[r] = "grpc" THEN "crashed" ELSE main
  /\ serving' = [serving EXCEPT ![r] = "done"]
  /\ UNCHANGED <<launch, contexts, servers, loops, errCh, pool, received, first, hardFirst>>

(* Listening or accepting fails; the error goes to the buffered errCh. *)
ServeFails(s) ==
  /\ server[s] = "serving"
  /\ s \notin serveErr
  /\ serveErr' = serveErr \cup {s}
  /\ UNCHANGED <<launch, contexts, server, timedOut, loops, errCh, inMain, requests, hardFirst>>

(* Mutated form: Run goes on after the error. *)
RunSendsError(s) ==
  /\ server[s] = "serving"
  /\ s \in serveErr
  /\ errCh' = Append(errCh, "error")
  /\ hardFirst' = (hardFirst \/ ~runCtxDone)
  /\ UNCHANGED <<launch, contexts, servers, loops, inMain, requests>>

(* Run's select takes the error, and the goroutine sends it to main. *)
RunReturnsError(s) ==
  /\ server[s] = "serving"
  /\ s \in serveErr
  /\ server' = [server EXCEPT ![s] = "returned"]
  /\ errCh' = Append(errCh, "error")
  /\ hardFirst' = (hardFirst \/ ~runCtxDone)
  /\ UNCHANGED <<launch, contexts, serveErr, timedOut, loops, inMain, requests>>

(* The context is cancelled before the gRPC server has begun to listen. *)
ListenCancelled ==
  /\ server["grpc"] = "serving"
  /\ "grpc" \notin serveErr
  /\ runCtxDone
  /\ \A r \in NewRequests : serving[r] # "grpc" /\ answer[r].via # "grpc"
  /\ server' = [server EXCEPT !["grpc"] = "returned"]
  /\ errCh' = Append(errCh, "canceled")
  /\ UNCHANGED <<launch, contexts, serveErr, timedOut, loops, inMain, requests, hardFirst>>

(* Run's select takes ctx.Done: Shutdown or GracefulStop begins. *)
BeginShutdown(s) ==
  /\ server[s] = "serving"
  /\ runCtxDone
  /\ server' = [server EXCEPT ![s] = "stopping"]
  /\ UNCHANGED <<launch, contexts, serveErr, timedOut, loops, errCh, inMain, requests, hardFirst>>

(* Mutated form: Stop, which does not wait for requests. *)
Stopped(s) ==
  /\ server[s] = "stopping"
  /\ server' = [server EXCEPT ![s] = "returned"]
  /\ errCh' = Append(errCh, "nil")
  /\ UNCHANGED <<launch, contexts, serveErr, timedOut, loops, inMain, requests, hardFirst>>

(* No request is left. *)
ShutdownCompletes(s) ==
  /\ server[s] = "stopping"
  /\ \A r \in NewRequests : serving[r] # s
  /\ server' = [server EXCEPT ![s] = "returned"]
  /\ errCh' = Append(errCh, "nil")
  /\ UNCHANGED <<launch, contexts, serveErr, timedOut, loops, inMain, requests, hardFirst>>

(* Only http.Server.Shutdown has a timeout; GracefulStop has none. *)
ShutdownTimesOut ==
  /\ server["http"] = "stopping"
  /\ \E r \in NewRequests : serving[r] = "http"
  /\ server' = [server EXCEPT !["http"] = "returned"]
  /\ timedOut' = timedOut \cup {"http"}
  /\ errCh' = Append(errCh, "error")
  /\ UNCHANGED <<launch, contexts, serveErr, loops, inMain, requests, hardFirst>>

-----------------------------------------------------------------------------
(* The relay's Run: the select picks any ready case, so a tick may still   *)
(* win after the cancellation; a drain is finished before the next select. *)

Tick ==
  /\ loop["relay"] = "running"
  /\ loop' = [loop EXCEPT !["relay"] = "busy"]
  /\ UNCHANGED <<launch, contexts, servers, reader, background, errCh, inMain, requests, hardFirst>>

Drained ==
  /\ loop["relay"] = "busy"
  /\ loop' = [loop EXCEPT !["relay"] = "running"]
  /\ UNCHANGED <<launch, contexts, servers, reader, background, errCh, inMain, requests, hardFirst>>

RelayReturns ==
  /\ loop["relay"] = "running"
  /\ bgCtxDone
  /\ loop' = [loop EXCEPT !["relay"] = "returned"]
  /\ UNCHANGED <<launch, contexts, servers, reader, background, errCh, inMain, requests, hardFirst>>

(* The read loops, see KafkaConsumer, and Bus.Run, which on cancellation   *)
(* closes the readers and waits for their goroutines.  FetchMessage may    *)
(* hand out a message it has buffered although ctx is cancelled.           *)
TakeMessage(q) ==
  /\ reader[q] = "fetching"
  /\ reader' = [reader EXCEPT ![q] = "handling"]
  /\ UNCHANGED <<launch, contexts, servers, loop, background, errCh, inMain, requests, hardFirst>>

MessageHandled(q) ==
  /\ reader[q] = "handling"
  /\ reader' = [reader EXCEPT ![q] = "fetching"]
  /\ UNCHANGED <<launch, contexts, servers, loop, background, errCh, inMain, requests, hardFirst>>

ReaderStops(q) ==
  /\ reader[q] = "fetching"
  /\ bgCtxDone
  /\ reader' = [reader EXCEPT ![q] = "stopped"]
  /\ UNCHANGED <<launch, contexts, servers, loop, background, errCh, inMain, requests, hardFirst>>

BusCloses ==
  /\ loop["bus"] = "running"
  /\ bgCtxDone
  /\ loop' = [loop EXCEPT !["bus"] = "closing"]
  /\ UNCHANGED <<launch, contexts, servers, reader, background, errCh, inMain, requests, hardFirst>>

(* Mutated form: without b.wg.Wait. *)
BusReturnsAtOnce ==
  /\ loop["bus"] = "closing"
  /\ loop' = [loop EXCEPT !["bus"] = "returned"]
  /\ UNCHANGED <<launch, contexts, servers, reader, background, errCh, inMain, requests, hardFirst>>

BusReturns ==
  /\ loop["bus"] = "closing"
  /\ \A q \in Readers : reader[q] = "stopped"
  /\ loop' = [loop EXCEPT !["bus"] = "returned"]
  /\ UNCHANGED <<launch, contexts, servers, reader, background, errCh, inMain, requests, hardFirst>>

(* RunBackground.  With the local bus there is one loop and nothing else. *)
FirstLoopReturned ==
  /\ background = "first"
  /\ \E l \in Loops : loop[l] = "returned"
  /\ background' = "rest"
  /\ bgCancelled' = TRUE
  /\ UNCHANGED <<launch, signalled, cancelled, servers, loop, reader, errCh, inMain, requests, hardFirst>>

(* Both loops end with the context's error, and so does RunBackground. *)
BackgroundReturns ==
  /\ background = "rest"
  /\ \A l \in Loops : loop[l] = "returned"
  /\ background' = "returned"
  /\ errCh' = Append(errCh, "canceled")
  /\ UNCHANGED <<launch, contexts, servers, loop, reader, inMain, requests, hardFirst>>

-----------------------------------------------------------------------------
(* main, when everything is running. *)

(* Mutated form: the others are not told to stop. *)
TakeFirstOnly ==
  /\ main = "wait"
  /\ errCh # << >>
  /\ first' = Head(errCh)
  /\ errCh' = Tail(errCh)
  /\ received' = 1
  /\ main' = "collect"
  /\ UNCHANGED <<launch, pool, contexts, servers, loops, requests, hardFirst>>

TakeFirst ==
  /\ main = "wait"
  /\ errCh # << >>
  /\ first' = Head(errCh)
  /\ errCh' = Tail(errCh)
  /\ received' = 1
  /\ cancelled' = TRUE
  /\ main' = "collect"
  /\ UNCHANGED <<launch, pool, signalled, bgCancelled, servers, loops, requests, hardFirst>>

(* Mutated form: the last result is the one returned. *)
TakeLast ==
  /\ main = "collect"
  /\ received < Cardinality(Components)
  /\ errCh # << >>
  /\ first' = Head(errCh)
  /\ errCh' = Tail(errCh)
  /\ received' = received + 1
  /\ UNCHANGED <<launch, pool, contexts, servers, loops, main, requests, hardFirst>>

(* Later errors are logged. *)
TakeRest ==
  /\ main = "collect"
  /\ received < Cardinality(Components)
  /\ errCh # << >>
  /\ errCh' = Tail(errCh)
  /\ received' = received + 1
  /\ UNCHANGED <<launch, pool, contexts, servers, loops, main, first, requests, hardFirst>>

(* The deferred Close: the bus first, then the pool, and the process ends. *)
CloseBus ==
  /\ main = "collect"
  /\ received = Cardinality(Components)
  /\ main' = "closing"
  /\ UNCHANGED <<launch, pool, contexts, servers, loops, errCh, received, first, requests, hardFirst>>

ClosePool ==
  /\ main = "closing"
  /\ pool' = IF pool = "open" THEN "closed" ELSE pool
  /\ main' = "exited"
  /\ UNCHANGED <<launch, contexts, servers, loops, errCh, received, first, requests, hardFirst>>

exitCode == IF main = "aborted" \/ first = "error" THEN 1 ELSE 0

StartUp == Load \/ NewPersistence \/ PingSucceeds \/ PingFails \/ Start
ServerStep(s) == RunReturnsError(s) \/ BeginShutdown(s) \/ ShutdownCompletes(s)
ReaderStep(q) == MessageHandled(q) \/ ReaderStops(q)
BusStep == BusCloses \/ BusReturns
BackgroundStep == FirstLoopReturned \/ BackgroundReturns
MainStep == StartUp \/ TakeFirst \/ TakeRest \/ CloseBus \/ ClosePool

(* Nothing happens in a process that is over. *)
Next ==
  /\ ~Over
  /\ \/ Signal
     \/ \E r \in NewRequests : Finish(r) \/ \E s \in AllServers : Accept(r, s)
     \/ \E s \in AllServers : ServeFails(s) \/ ServerStep(s)
     \/ ListenCancelled \/ ShutdownTimesOut
     \/ Tick \/ Drained \/ RelayReturns
     \/ \E q \in Readers : TakeMessage(q) \/ ReaderStep(q)
     \/ BusStep
     \/ BackgroundStep
     \/ MainStep

Spec == Init /\ [][Next]_vars

(* Goroutines are scheduled, a request, a drain and a handler come to an   *)
(* end, and a select that is offered ctx.Done again and again takes it.    *)
Fairness ==
  /\ \A s \in AllServers : WF_vars(~Over /\ ServerStep(s))
  /\ \A r \in NewRequests : WF_vars(~Over /\ Finish(r))
  /\ \A q \in Readers : WF_vars(~Over /\ ReaderStep(q)) /\ SF_vars(~Over /\ ReaderStops(q))
  /\ WF_vars(~Over /\ Drained)
  /\ SF_vars(~Over /\ RelayReturns)
  /\ WF_vars(~Over /\ BusStep)
  /\ WF_vars(~Over /\ BackgroundStep)
  /\ WF_vars(~Over /\ MainStep)

FairSpec == Spec /\ Fairness

-----------------------------------------------------------------------------
(* Properties. *)

(* What main closes is no longer in use: no drain publishes to the bus, no *)
(* read loop is inside a handler and every Run has returned, whichever of  *)
(* them failed and whenever the signal came (cmd/api/main.go: "Wait for    *)
(* the other two goroutines to unwind"; RunBackground; Bus.Run).           *)
ClosedAfterUse ==
  main \in {"closing", "exited"} =>
    /\ \A s \in AllServers : server[s] \in {"off", "returned"}
    /\ \A l \in AllLoops : loop[l] \in {"off", "returned"}
    /\ \A q \in Readers : reader[q] \in {"off", "stopped"}

(* A request still running when the pool is closed belongs to a server     *)
(* that failed or that ran out of its shutdown timeout.                    *)
RequestsDrained ==
  main \in {"closing", "exited"} =>
    \A r \in NewRequests : serving[r] \in AllServers => serving[r] \in serveErr \cup timedOut

(* A component that failed on its own makes the process exit with an       *)
(* error, though later results may be nil ("The first error is the one     *)
(* returned"), and a process in which nothing failed or timed out does not.*)
FailureDecidesExit ==
  main \in {"exited", "aborted"} =>
    /\ hardFirst => exitCode = 1
    /\ exitCode = 1 => main = "aborted" \/ serveErr \cup timedOut # {}

(* The pool is closed on every way out of the process, a failed start      *)
(* included, and open whenever components of the Postgres profile run      *)
(* (database.Open, newPersistence, Close).                                 *)
PoolFollowsProcess ==
  /\ main \in {"exited", "aborted"} => pool # "open"
  /\ main \in {"start", "wait", "collect"} /\ UseDatabase(config) => pool = "open"

(* A server or loop runs only on a configuration that was accepted as a    *)
(* whole: what validate has to refuse is refused after the environment has *)
(* had its say, and every variable that is well formed is in force.        *)
RunsAsConfigured ==
  background # "off" =>
    /\ validate(config)
    /\ \A s \in Settings : Given(launch.env, s) => config[s] = launch.env[s]
    /\ loop["bus"] # "off" <=> UseKafka(config)

(* No request brings the process down, and every REST request that is over *)
(* has one line in the access log, with the status its client was sent; an *)
(* RPC lacks its line only if it failed outside or beneath the interceptor *)
(* (middleware.go, interceptors.go, Build).                                *)
RequestsAccountedFor ==
  /\ main # "crashed"
  /\ \A r \in NewRequests :
       serving[r] = "done" =>
         /\ answer[r].sent # "none"
         /\ \/ answer[r].log = <<answer[r].sent>>
            \/ answer[r].via = "grpc" /\ answer[r].sent = "500" /\ answer[r].log = << >>

(* Who can take a step towards the end, whatever the others do.            *)
MainProceeds ==
  \/ Starting \/ main = "closing"
  \/ main \in {"wait", "collect"} /\ errCh # << >>
  \/ main = "collect" /\ received = Cardinality(Components)

ServerProceeds(s) ==
  \/ server[s] = "serving" /\ (runCtxDone \/ s \in serveErr)
  \/ server[s] = "stopping" /\ \A r \in NewRequests : serving[r] # s

LoopProceeds(l) ==
  \/ loop[l] = "running" /\ bgCtxDone
  \/ loop[l] = "busy"
  \/ loop[l] = "closing" /\ \A q \in Readers : reader[q] = "stopped"

ReaderProceeds(q) ==
  \/ reader[q] = "fetching" /\ bgCtxDone
  \/ reader[q] = "handling"

BackgroundProceeds ==
  \/ background = "first" /\ \E l \in Loops : loop[l] = "returned"
  \/ background = "rest" /\ \A l \in Loops : loop[l] = "returned"

RequestProceeds(r) == serving[r] \in AllServers /\ MayBe[r] # {}

(* A process that is told to stop, or one of whose servers has failed, is  *)
(* never stuck: main waits for results, the servers for their requests,    *)
(* RunBackground for its loops and the bus for its readers, and somebody   *)
(* who waits for nobody is always left (cmd/api/main.go, RunBackground,    *)
(* Bus.Run, Server.Run).                                                   *)
NeverStuck ==
  (signalled \/ hardFirst) /\ ~Over =>
    \/ MainProceeds \/ BackgroundProceeds
    \/ \E s \in AllServers : ServerProceeds(s)
    \/ \E l \in AllLoops : LoopProceeds(l)
    \/ \E q \in Readers : ReaderProceeds(q)
    \/ \E r \in NewRequests : RequestProceeds(r)

(* A signal, or a component that fails, ends the process.                  *)
ShutsDown == (signalled \/ hardFirst) ~> Over
=============================================================================
