-------------------------- MODULE LifecycleProofs --------------------------
(***************************************************************************)
(* What holds of a process from start to exit for any launch, any number   *)
(* of read loops and any requests, whatever their outcomes.  Counted is the*)
(* central strengthening: main has taken as many results as have been sent *)
(* and are no longer in errCh.                                             *)
(***************************************************************************)
EXTENDS Lifecycle, FiniteSetTheorems, SequenceTheorems, TLAPS

-----------------------------------------------------------------------------
(* One request. *)

(* What the chains make of each outcome. *)
Served(x) ==
  /\ x \in Call
  /\ ~x.panics
  /\ x.sent # "none"
  /\ \/ x.log = <<x.sent>>
     \/ x.via = "grpc" /\ x.sent = "500" /\ x.log = << >>

LEMMA ServeHTTPResults ==
  \A outcome \in Outcomes : \E status \in Statuses :
     ServeHTTP(outcome) = [via |-> "none", sent |-> status, recorded |-> status,
                           panics |-> FALSE, log |-> <<status>>]
<1> USE DEF ServeHTTP, Gateway, StatusCodeOption, Recover, AccessLog, Sent, WriteHeader,
            Untouched, Panicking, Decodes, Statuses
<1>1. Append(<< >>, "200") = <<"200">> /\ Append(<< >>, "201") = <<"201">>
      /\ Append(<< >>, "4xx") = <<"4xx">> /\ Append(<< >>, "500") = <<"500">>
  OBVIOUS
<1>2. ServeHTTP("created") = [via |-> "none", sent |-> "201", recorded |-> "201",
                              panics |-> FALSE, log |-> <<"201">>]
  BY <1>1
<1>3. ServeHTTP("ok") = [via |-> "none", sent |-> "200", recorded |-> "200",
                         panics |-> FALSE, log |-> <<"200">>]
  BY <1>1
<1>4. ServeHTTP("panic") = [via |-> "none", sent |-> "500", recorded |-> "500",
                            panics |-> FALSE, log |-> <<"500">>]
  BY <1>1
<1>5. ASSUME NEW outcome \in {"refused", "malformed"}
      PROVE  ServeHTTP(outcome) = [via |-> "none", sent |-> "4xx", recorded |-> "4xx",
                                   panics |-> FALSE, log |-> <<"4xx">>]
  BY <1>1
<1> HIDE DEF ServeHTTP
<1> QED BY <1>2, <1>3, <1>4, <1>5 DEF Outcomes

LEMMA ServeRPCResults ==
  \A outcome \in Outcomes : \E status \in Statuses :
     \/ ServeRPC(outcome) = [via |-> "none", sent |-> status, recorded |-> status,
                             panics |-> FALSE, log |-> <<status>>]
     \/ ServeRPC(outcome) = [via |-> "none", sent |-> "500", recorded |-> "500",
                             panics |-> FALSE, log |-> << >>]
<1> USE DEF ServeRPC, Service, Recovery, LogRPC, Internal, WriteHeader, Untouched, Panicking,
            Decodes, Statuses
<1>1. Append(<< >>, "200") = <<"200">> /\ Append(<< >>, "4xx") = <<"4xx">>
  OBVIOUS
<1>2. ASSUME NEW outcome \in {"created", "ok"}
      PROVE  ServeRPC(outcome) = [via |-> "none", sent |-> "200", recorded |-> "200",
                                  panics |-> FALSE, log |-> <<"200">>]
  BY <1>1
<1>3. ServeRPC("refused") = [via |-> "none", sent |-> "4xx", recorded |-> "4xx",
                             panics |-> FALSE, log |-> <<"4xx">>]
  BY <1>1
<1>4. ASSUME NEW outcome \in {"panic", "malformed"}
      PROVE  ServeRPC(outcome) = [via |-> "none", sent |-> "500", recorded |-> "500",
                                  panics |-> FALSE, log |-> << >>]
  OBVIOUS
<1> HIDE DEF ServeRPC
<1> QED BY <1>2, <1>3, <1>4 DEF Outcomes

LEMMA ServeFacts ==
  ASSUME NEW s \in AllServers, NEW outcome \in Outcomes
  PROVE  Served(Serve(s, outcome)) /\ Serve(s, outcome).via = s
<1>1. ASSUME NEW status \in Statuses, NEW log \in {<<status>>, << >>},
             log = << >> => s = "grpc" /\ status = "500",
             Serve(s, outcome) = [via |-> s, sent |-> status, recorded |-> status,
                                  panics |-> FALSE, log |-> log]
      PROVE  Served(Serve(s, outcome)) /\ Serve(s, outcome).via = s
  <2>1. <<status>> \in Seq(Statuses) /\ << >> \in Seq(Statuses)
    OBVIOUS
  <2>2. status # "none"
    BY DEF Statuses
  <2> DEFINE x == Serve(s, outcome)
  <2>3. /\ x.via = s /\ x.sent = status /\ x.log = log /\ x.panics = FALSE
    BY <1>1
  <2>4. log \in Seq(Statuses)
    <3>1. CASE log = <<status>>
      BY <2>1, <3>1
    <3>2. CASE log = << >>
      BY <2>1, <3>2
    <3> QED BY <3>1, <3>2
  <2>5. x \in Call
    BY <1>1, <2>3, <2>4 DEF Call, AllServers
  <2>6. x.log = <<x.sent>> \/ (x.via = "grpc" /\ x.sent = "500" /\ x.log = << >>)
    BY <1>1, <2>3
  <2> HIDE DEF x
  <2> QED BY <2>2, <2>3, <2>5, <2>6 DEF Served, x
<1>2. CASE s = "http"
  <2>1. PICK status \in Statuses :
               ServeHTTP(outcome) = [via |-> "none", sent |-> status, recorded |-> status,
                                     panics |-> FALSE, log |-> <<status>>]
    BY ServeHTTPResults
  <2>2. Serve(s, outcome) = [ServeHTTP(outcome) EXCEPT !.via = "http"]
    BY <1>2 DEF Serve
  <2>3. Serve(s, outcome) = [via |-> s, sent |-> status, recorded |-> status,
                             panics |-> FALSE, log |-> <<status>>]
    BY <1>2, <2>1, <2>2
  <2>4. <<status>> # << >>
    OBVIOUS
  <2> QED BY <1>1, <2>3, <2>4
<1>3. CASE s = "grpc"
  <2>1. Serve(s, outcome) = [ServeRPC(outcome) EXCEPT !.via = "grpc"]
    BY <1>3 DEF Serve
  <2>2. PICK status \in Statuses :
              \/ ServeRPC(outcome) = [via |-> "none", sent |-> status, recorded |-> status,
                                      panics |-> FALSE, log |-> <<status>>]
              \/ ServeRPC(outcome) = [via |-> "none", sent |-> "500", recorded |-> "500",
                                      panics |-> FALSE, log |-> << >>]
    BY ServeRPCResults
  <2>3. CASE ServeRPC(outcome) = [via |-> "none", sent |-> status, recorded |-> status,
                                  panics |-> FALSE, log |-> <<status>>]
    <3>1. Serve(s, outcome) = [via |-> s, sent |-> status, recorded |-> status,
                               panics |-> FALSE, log |-> <<status>>]
      BY <1>3, <2>1, <2>3
    <3> QED BY <1>1, <3>1
  <2>4. CASE ServeRPC(outcome) = [via |-> "none", sent |-> "500", recorded |-> "500",
                                  panics |-> FALSE, log |-> << >>]
    <3>1. Serve(s, outcome) = [via |-> s, sent |-> "500", recorded |-> "500",
                               panics |-> FALSE, log |-> << >>]
      BY <1>3, <2>1, <2>4
    <3> QED BY <1>1, <1>3, <3>1 DEF Statuses
  <2> QED BY <2>2, <2>3, <2>4
<1> QED BY <1>2, <1>3 DEF AllServers

-----------------------------------------------------------------------------
(* Types, all but what has to count components. *)

Typed ==
  /\ launch \in Launches
  /\ pool \in {"none", "open", "closed"}
  /\ signalled \in BOOLEAN /\ cancelled \in BOOLEAN
  /\ bgCancelled \in BOOLEAN /\ hardFirst \in BOOLEAN
  /\ serveErr \subseteq AllServers
  /\ server \in [AllServers -> {"off", "serving", "stopping", "returned"}]
  /\ timedOut \subseteq AllServers
  /\ loop \in [AllLoops -> {"off", "running", "busy", "closing", "returned"}]
  /\ reader \in [Readers -> {"off", "fetching", "handling", "stopped"}]
  /\ background \in {"off", "first", "rest", "returned"}
  /\ errCh \in Seq(Results)
  /\ main \in {"load", "build", "ping", "start", "wait", "collect", "closing",
               "exited", "aborted", "crashed"}
  /\ received \in Nat
  /\ first \in Results
  /\ serving \in [NewRequests -> AllServers \cup {"new", "done"}]
  /\ answer \in [NewRequests -> Call]

LEMMA InitTyped == Init => Typed
<1> SUFFICES ASSUME Init PROVE Typed
  OBVIOUS
<1>1. << >> \in Seq(Results) /\ << >> \in Seq(Statuses)
  OBVIOUS
<1>2. Untouched \in Call
  BY <1>1 DEF Untouched, Call, Statuses
<1> QED BY <1>1, <1>2 DEF Init, Typed, Results, AllServers, AllLoops

(* main's start and end. *)
LEMMA MainTyped ==
  ASSUME Typed, MainStep
  PROVE  Typed'
<1> USE DEF Typed, contexts, servers, loops, requests
<1>1. CASE Load
  BY <1>1 DEF Load
<1>2. CASE NewPersistence
  BY <1>2 DEF NewPersistence
<1>3. CASE PingSucceeds
  BY <1>3 DEF PingSucceeds
<1>4. CASE PingFails
  BY <1>4 DEF PingFails
<1>5. CASE Start
  BY <1>5 DEF Start
<1>6. CASE TakeFirst
  BY <1>6, HeadTailProperties DEF TakeFirst
<1>7. CASE TakeRest
  BY <1>7, HeadTailProperties DEF TakeRest
<1>8. CASE CloseBus
  BY <1>8 DEF CloseBus
<1>9. CASE ClosePool
  BY <1>9 DEF ClosePool
<1> QED BY <1>1, <1>2, <1>3, <1>4, <1>5, <1>6, <1>7, <1>8, <1>9 DEF MainStep, StartUp

LEMMA LoopTyped ==
  ASSUME Typed,
         Tick \/ Drained \/ RelayReturns \/ BusStep \/ BackgroundStep
           \/ \E q \in Readers : TakeMessage(q) \/ ReaderStep(q)
  PROVE  Typed'
<1> USE DEF Typed, contexts, servers, inMain, requests, AllLoops
<1>1. CASE Tick
  BY <1>1 DEF Tick
<1>2. CASE Drained
  BY <1>2 DEF Drained
<1>3. CASE RelayReturns
  BY <1>3 DEF RelayReturns
<1>4. CASE BusCloses
  BY <1>4 DEF BusCloses
<1>5. CASE BusReturns
  BY <1>5 DEF BusReturns
<1>6. CASE FirstLoopReturned
  BY <1>6 DEF FirstLoopReturned
<1>7. CASE BackgroundReturns
  BY <1>7 DEF BackgroundReturns, Results
<1>8. ASSUME NEW q \in Readers, TakeMessage(q) PROVE Typed'
  BY <1>8 DEF TakeMessage
<1>9. ASSUME NEW q \in Readers, MessageHandled(q) PROVE Typed'
  BY <1>9 DEF MessageHandled
<1>10. ASSUME NEW q \in Readers, ReaderStops(q) PROVE Typed'
  BY <1>10 DEF ReaderStops
<1> QED BY <1>1, <1>2, <1>3, <1>4, <1>5, <1>6, <1>7, <1>8, <1>9, <1>10
        DEF BusStep, BackgroundStep, ReaderStep

LEMMA ServerTyped ==
  ASSUME Typed,
         \/ ListenCancelled \/ ShutdownTimesOut
         \/ \E s \in AllServers : ServeFails(s) \/ ServerStep(s)
  PROVE  Typed'
<1> USE DEF Typed, contexts, loops, inMain, requests
<1>1. "nil" \in Results /\ "error" \in Results /\ "canceled" \in Results
  BY DEF Results
<1>2. CASE ListenCancelled
  BY <1>1, <1>2 DEF ListenCancelled, AllServers
<1>3. CASE ShutdownTimesOut
  BY <1>1, <1>3 DEF ShutdownTimesOut, AllServers
<1>4. ASSUME NEW s \in AllServers, ServeFails(s) PROVE Typed'
  BY <1>4 DEF ServeFails
<1>5. ASSUME NEW s \in AllServers, RunReturnsError(s) PROVE Typed'
  BY <1>1, <1>5 DEF RunReturnsError
<1>6. ASSUME NEW s \in AllServers, BeginShutdown(s) PROVE Typed'
  BY <1>6 DEF BeginShutdown
<1>7. ASSUME NEW s \in AllServers, ShutdownCompletes(s) PROVE Typed'
  BY <1>1, <1>7 DEF ShutdownCompletes
<1> QED BY <1>2, <1>3, <1>4, <1>5, <1>6, <1>7 DEF ServerStep

LEMMA RequestTyped ==
  ASSUME Typed,
         \/ Signal
         \/ \E r \in NewRequests : Finish(r) \/ \E s \in AllServers : Accept(r, s)
  PROVE  Typed'
<1> USE DEF Typed, contexts, servers, loops, inMain, requests
<1>1. CASE Signal
  BY <1>1 DEF Signal
<1>2. ASSUME NEW r \in NewRequests, NEW s \in AllServers, Accept(r, s) PROVE Typed'
  BY <1>2 DEF Accept
<1>3. ASSUME NEW r \in NewRequests, Finish(r) PROVE Typed'
  <2>1. PICK outcome \in MayBe[r] :
             /\ answer' = [answer EXCEPT ![r] = Serve(serving[r], outcome)]
             /\ main' \in {main, "crashed"}
    BY <1>3 DEF Finish
  <2>2. Serve(serving[r], outcome) \in Call
    BY <1>3, ServeFacts, LifecycleAssumption DEF Finish, Served
  <2>3. answer' \in [NewRequests -> Call]
    BY <2>1, <2>2
  <2> HIDE DEF AllServers
  <2> QED BY <1>3, <2>1, <2>3 DEF Finish
<1> QED BY <1>1, <1>2, <1>3

LEMMA TypedInductive == Typed /\ [Next]_vars => Typed'
<1>1. CASE UNCHANGED vars
  BY <1>1 DEF vars, Typed
<1> QED BY <1>1, MainTyped, LoopTyped, ServerTyped, RequestTyped DEF Next

LEMMA AlwaysTyped == Spec => []Typed
BY InitTyped, TypedInductive, PTL DEF Spec

(* How the process was started does not change. *)
LEMMA Fixed ==
  ASSUME [Next]_vars
  PROVE  /\ launch' = launch /\ config' = config
         /\ Servers' = Servers /\ Loops' = Loops /\ Components' = Components
<1>1. launch' = launch
  BY DEF Next, vars, Signal, Accept, Finish, ServeFails, ServerStep, RunReturnsError, BeginShutdown,
         ShutdownCompletes, ListenCancelled, ShutdownTimesOut, Tick, Drained, RelayReturns,
         TakeMessage, ReaderStep, MessageHandled, ReaderStops, BusStep, BusCloses, BusReturns,
         BackgroundStep, FirstLoopReturned, BackgroundReturns, MainStep, StartUp, Load,
         NewPersistence, PingSucceeds, PingFails, Start, TakeFirst, TakeRest, CloseBus, ClosePool
<1> QED BY <1>1 DEF config, Servers, Loops, Components

LEMMA ComponentFacts ==
  /\ Servers \subseteq AllServers /\ Loops \subseteq AllLoops
  /\ AllServers = {"http", "grpc"} /\ AllLoops = {"relay", "bus"}
  /\ Components = Servers \cup {"background"} /\ "background" \notin AllServers
  /\ IsFiniteSet(Components) /\ Cardinality(Components) \in Nat
<1>1. IsFiniteSet({"http", "grpc", "background"})
  <2>1. IsFiniteSet({"http"})
    BY FS_Singleton
  <2>2. IsFiniteSet({"http"} \cup {"grpc"})
    BY <2>1, FS_AddElement
  <2>3. IsFiniteSet(({"http"} \cup {"grpc"}) \cup {"background"})
    BY <2>2, FS_AddElement
  <2>4. ({"http"} \cup {"grpc"}) \cup {"background"} = {"http", "grpc", "background"}
    OBVIOUS
  <2> QED BY <2>3, <2>4
<1>2. Components \subseteq {"http", "grpc", "background"}
  BY DEF Components, Servers, AllServers
<1>3. IsFiniteSet(Components) /\ Cardinality(Components) \in Nat
  BY <1>1, <1>2, FS_Subset, FS_CardinalityType
<1> QED BY <1>3 DEF Components, Servers, Loops, AllServers, AllLoops

-----------------------------------------------------------------------------
(* What is running, and for whom. *)

NotStarted == {"load", "build", "ping", "start", "aborted"}

Running ==
  /\ background = "off" <=> main \in NotStarted
  /\ \A s \in AllServers : server[s] # "off" => s \in Servers /\ background # "off"
  /\ \A l \in AllLoops : loop[l] # "off" <=> l \in Loops /\ background # "off"
  /\ \A q \in Readers : reader[q] = "off" <=> loop["bus"] = "off"
  /\ loop["bus"] = "returned" => \A q \in Readers : reader[q] = "stopped"
  /\ background = "returned" => \A l \in Loops : loop[l] = "returned"

running == <<main, background, server, loop, reader>>

LEMMA RunningInductive ==
  ASSUME Typed, Running, [Next]_vars
  PROVE  Running'
<1>1. /\ Loops' = Loops /\ Servers' = Servers
      /\ Loops \subseteq AllLoops /\ Servers \subseteq AllServers
      /\ AllLoops = {"relay", "bus"} /\ AllServers = {"http", "grpc"}
  BY Fixed, ComponentFacts
<1>2. ASSUME UNCHANGED running PROVE Running'
  BY <1>1, <1>2 DEF Running, running
<1>3. CASE Start
  BY <1>1, <1>3 DEF Start, Running, Typed, NotStarted
<1> USE DEF Typed, Running, NotStarted
<1>4. CASE Load
  BY <1>1, <1>4 DEF Load, servers, loops
<1>5. CASE NewPersistence
  BY <1>1, <1>5 DEF NewPersistence, servers, loops
<1>6. CASE PingSucceeds \/ PingFails
  BY <1>1, <1>6 DEF PingSucceeds, PingFails, servers, loops
<1>7. CASE TakeFirst \/ CloseBus \/ ClosePool
  BY <1>1, <1>7 DEF TakeFirst, CloseBus, ClosePool, servers, loops
<1>8. CASE Tick \/ Drained
  BY <1>1, <1>8 DEF Tick, Drained, servers, inMain
<1>9. CASE RelayReturns
  BY <1>1, <1>9 DEF RelayReturns, servers, inMain
<1>10. CASE BusCloses
  BY <1>1, <1>10 DEF BusCloses, servers, inMain
<1>11. CASE BusReturns
  BY <1>1, <1>11 DEF BusReturns, servers, inMain
<1>12. CASE FirstLoopReturned
  BY <1>1, <1>12 DEF FirstLoopReturned, servers, inMain
<1>13. CASE BackgroundReturns
  BY <1>1, <1>13 DEF BackgroundReturns, servers, inMain
<1>14. ASSUME NEW q \in Readers, TakeMessage(q) \/ MessageHandled(q) \/ ReaderStops(q)
       PROVE  Running'
  BY <1>1, <1>14 DEF TakeMessage, MessageHandled, ReaderStops, servers, inMain
<1>15. ASSUME NEW s \in AllServers, \/ RunReturnsError(s) \/ BeginShutdown(s)
                                    \/ ShutdownCompletes(s) \/ ListenCancelled
                                    \/ ShutdownTimesOut
       PROVE  Running'
  <2>1. /\ UNCHANGED <<main, background, loop, reader>>
        /\ \A t \in AllServers : server'[t] # "off" => server[t] # "off"
    BY <1>1, <1>15 DEF RunReturnsError, BeginShutdown, ShutdownCompletes, ListenCancelled,
                       ShutdownTimesOut, loops, inMain
  <2> QED BY <1>1, <2>1
<1>16. ASSUME NEW r \in NewRequests, Finish(r) PROVE Running'
  <2>1. PICK outcome \in MayBe[r] :
             main' = IF Serve(serving[r], outcome).panics /\ serving[r] = "grpc"
                     THEN "crashed" ELSE main
    BY <1>16 DEF Finish
  <2>2. ~Serve(serving[r], outcome).panics
    BY <1>16, ServeFacts, LifecycleAssumption DEF Finish, Served
  <2> QED BY <1>2, <1>16, <2>1, <2>2 DEF Finish, servers, loops, running
<1>17. \/ TakeRest \/ Signal
       \/ \E s \in AllServers : ServeFails(s) \/ \E r \in NewRequests : Accept(r, s)
       \/ UNCHANGED vars
       => UNCHANGED running
  BY DEF TakeRest, Signal, ServeFails, Accept, running, servers, loops, inMain, vars
<1> QED BY <1>1, <1>2, <1>3, <1>4, <1>5, <1>6, <1>7, <1>8, <1>9, <1>10, <1>11, <1>12, <1>13,
           <1>14, <1>15, <1>16, <1>17
        DEF Next, ServerStep, ReaderStep, BusStep, BackgroundStep, MainStep, StartUp

-----------------------------------------------------------------------------
(* Results are counted: each component that has returned has sent one.     *)

Returned ==
  {c \in Components : IF c = "background" THEN background = "returned" ELSE server[c] = "returned"}

Counted ==
  /\ received + Len(errCh) = Cardinality(Returned)
  /\ main \in NotStarted \cup {"wait"} => received = 0
  /\ main \in {"closing", "exited"} => received = Cardinality(Components)

LEMMA ReturnedFacts ==
  /\ IsFiniteSet(Returned) /\ Cardinality(Returned) \in Nat
  /\ Cardinality(Returned) <= Cardinality(Components)
  /\ Cardinality(Returned) = Cardinality(Components) => Returned = Components
<1>1. Returned \subseteq Components
  BY DEF Returned
<1> QED BY <1>1, ComponentFacts, FS_Subset, FS_CardinalityType

LEMMA OneMoreReturned ==
  ASSUME Typed, Counted, [Next]_vars, NEW c \in Components \ Returned, NEW x,
         Returned' = Returned \cup {c}, errCh' = Append(errCh, x), UNCHANGED <<received, main>>
  PROVE  Counted'
<1>1. Cardinality(Returned') = Cardinality(Returned) + 1
  BY ReturnedFacts, FS_AddElement
<1>2. Len(errCh') = Len(errCh) + 1 /\ Len(errCh) \in Nat
  BY LenProperties DEF Typed
<1>3. Components' = Components
  BY Fixed
<1> HIDE DEF Returned
<1> QED BY <1>1, <1>2, <1>3, ReturnedFacts DEF Counted, Typed

LEMMA ServerReturned ==
  ASSUME Typed, Running, [Next]_vars, NEW s \in AllServers, server[s] \in {"serving", "stopping"},
         server' = [server EXCEPT ![s] = "returned"], background' = background
  PROVE  s \in Components \ Returned /\ Returned' = Returned \cup {s}
<1>1. s \in Components /\ s # "background" /\ Components' = Components
  BY Fixed, ComponentFacts DEF Running
<1>2. \A c \in Components : c # "background" => c \in AllServers
  BY ComponentFacts
<1> QED BY <1>1, <1>2 DEF Returned, Typed

LEMMA CountedInductive ==
  ASSUME Typed, Running, Counted, [Next]_vars
  PROVE  Counted'
<1> USE DEF NotStarted
<1>1. Components' = Components
  BY Fixed
<1>2. ASSUME UNCHANGED <<errCh, received>>, Returned' = Returned,
             main' \in {main, "crashed"} \/ (main' \notin {"closing", "exited"} /\ main \in NotStarted)
               \/ (main' \in {"closing", "exited"} /\ received = Cardinality(Components))
      PROVE  Counted'
  BY <1>1, <1>2 DEF Counted
<1>3. ASSUME UNCHANGED <<server, background>> PROVE Returned' = Returned
  BY <1>1, <1>3 DEF Returned
<1>4. CASE Load \/ NewPersistence \/ PingSucceeds \/ PingFails
  BY <1>2, <1>3, <1>4 DEF Load, NewPersistence, PingSucceeds, PingFails, servers, loops
<1>5. CASE Start
  <2>1. \A c \in Components : c # "background" => c \in AllServers
    BY ComponentFacts
  <2>2. Returned = {} /\ Returned' = {}
    BY <1>1, <1>5, <2>1 DEF Start, Running, Returned, Typed
  <2> QED BY <1>2, <1>5, <2>2 DEF Start
<1>6. CASE TakeFirst \/ TakeRest
  <2>1. Len(errCh') = Len(errCh) - 1 /\ Len(errCh) \in Nat \ {0}
    BY <1>6, HeadTailProperties, EmptySeq DEF TakeFirst, TakeRest, Typed
  <2>2. received' = received + 1 /\ main' = "collect"
    BY <1>6 DEF TakeFirst, TakeRest, Counted
  <2>3. Returned' = Returned
    BY <1>3, <1>6 DEF TakeFirst, TakeRest, servers, loops
  <2> QED BY <2>1, <2>2, <2>3 DEF Counted, Typed
<1>7. CASE CloseBus
  BY <1>2, <1>3, <1>7 DEF CloseBus, servers, loops
<1>8. CASE ClosePool
  BY <1>2, <1>3, <1>8 DEF ClosePool, servers, loops, Counted
<1>9. CASE BackgroundReturns
  <2>1. "background" \in Components \ Returned
    BY <1>9, ComponentFacts DEF BackgroundReturns, Returned
  <2>2. Returned' = Returned \cup {"background"}
    BY <1>1, <1>9, <2>1 DEF BackgroundReturns, servers, Returned
  <2> QED BY <1>9, <2>1, <2>2, OneMoreReturned DEF BackgroundReturns, inMain
<1>10. CASE FirstLoopReturned
  <2>1. Returned' = Returned
    BY <1>1, <1>10 DEF FirstLoopReturned, servers, Returned
  <2> QED BY <1>2, <1>10, <2>1 DEF FirstLoopReturned, inMain
<1>11. ASSUME NEW s \in AllServers, RunReturnsError(s) \/ ShutdownCompletes(s) PROVE Counted'
  BY <1>11, ServerReturned, OneMoreReturned
     DEF RunReturnsError, ShutdownCompletes, loops, inMain
<1>12. CASE ListenCancelled
  BY <1>12, ServerReturned, OneMoreReturned, ComponentFacts DEF ListenCancelled, loops, inMain
<1>13. CASE ShutdownTimesOut
  BY <1>13, ServerReturned, OneMoreReturned, ComponentFacts DEF ShutdownTimesOut, loops, inMain
<1>14. ASSUME NEW s \in AllServers, BeginShutdown(s) PROVE Counted'
  <2>1. \A c \in Components : c # "background" => c \in AllServers
    BY ComponentFacts
  <2>2. Returned' = Returned
    BY <1>1, <1>14, <2>1 DEF BeginShutdown, loops, Returned, Typed
  <2> QED BY <1>2, <1>14, <2>2 DEF BeginShutdown, inMain
<1>15. \/ Tick \/ Drained \/ RelayReturns \/ BusStep \/ Signal
       \/ \E q \in Readers : TakeMessage(q) \/ ReaderStep(q)
       \/ \E s \in AllServers : ServeFails(s) \/ \E r \in NewRequests : Accept(r, s)
       \/ UNCHANGED vars
       => UNCHANGED <<server, background, errCh, received, main>>
  BY DEF Tick, Drained, RelayReturns, BusStep, BusCloses, BusReturns, Signal, TakeMessage,
         ReaderStep, MessageHandled, ReaderStops, ServeFails, Accept, servers, loops, inMain, vars
<1>16. ASSUME NEW r \in NewRequests, Finish(r) PROVE Counted'
  <2>1. main' \in {main, "crashed"} /\ UNCHANGED <<server, background, errCh, received>>
    BY <1>16 DEF Finish, servers, loops
  <2> QED BY <1>2, <1>3, <2>1
<1> QED BY <1>2, <1>3, <1>4, <1>5, <1>6, <1>7, <1>8, <1>9, <1>10, <1>11, <1>12, <1>13, <1>14,
           <1>15, <1>16
        DEF Next, ServerStep, BackgroundStep, MainStep, StartUp

-----------------------------------------------------------------------------
(* Whose error decides.  Before anything is cancelled, all that components *)
(* have sent are errors of their own.                                      *)

Uncancelled ==
  ~runCtxDone =>
    /\ ~bgCancelled
    /\ background \in {"off", "first"}
    /\ \A s \in AllServers : server[s] # "stopping"
    /\ \A l \in AllLoops : loop[l] \notin {"closing", "returned"}
    /\ \A i \in 1 .. Len(errCh) : errCh[i] = "error"

Blamed ==
  /\ main \in {"collect", "closing", "exited"} => cancelled
  /\ hardFirst => main \notin NotStarted
  /\ hardFirst /\ main = "wait" => Len(errCh) > 0 /\ errCh[1] = "error"
  /\ hardFirst /\ main \in {"collect", "closing", "exited"} => first = "error"
  /\ first = "error" \/ (\E i \in 1 .. Len(errCh) : errCh[i] = "error") =>
       serveErr \cup timedOut # {}

LEMMA Appended ==
  ASSUME Typed, NEW x \in Results, errCh' = Append(errCh, x)
  PROVE  /\ Len(errCh) \in Nat /\ Len(errCh') = Len(errCh) + 1
         /\ \A i \in 1 .. Len(errCh) : errCh'[i] = errCh[i]
         /\ errCh'[Len(errCh')] = x
BY LenProperties, AppendProperties DEF Typed

LEMMA Taken ==
  ASSUME Typed, errCh # << >>, errCh' = Tail(errCh)
  PROVE  /\ Len(errCh) \in Nat \ {0} /\ Len(errCh') = Len(errCh) - 1
         /\ \A i \in 1 .. Len(errCh') : errCh'[i] = errCh[i + 1]
         /\ Head(errCh) = errCh[1]
BY LenProperties, EmptySeq, HeadTailProperties DEF Typed

(* A request is answered without an end to the process. *)
LEMMA Answers ==
  ASSUME Typed, NEW r \in NewRequests, Finish(r)
  PROVE  main' = main /\ Served(answer'[r])
<1>1. PICK outcome \in MayBe[r] :
           /\ answer' = [answer EXCEPT ![r] = Serve(serving[r], outcome)]
           /\ main' = IF Serve(serving[r], outcome).panics /\ serving[r] = "grpc"
                      THEN "crashed" ELSE main
  BY DEF Finish
<1>2. Served(Serve(serving[r], outcome))
  BY ServeFacts, LifecycleAssumption DEF Finish
<1>3. ~Serve(serving[r], outcome).panics
  BY <1>2 DEF Served
<1> QED BY <1>1, <1>2, <1>3 DEF Typed

LEMMA UncancelledInductive ==
  ASSUME Typed, Uncancelled, [Next]_vars
  PROVE  Uncancelled'
<1> USE DEF runCtxDone
<1>1. ASSUME UNCHANGED <<signalled, cancelled, bgCancelled, background, server, loop, errCh>>
      PROVE  Uncancelled'
  BY <1>1 DEF Uncancelled
<1>2. CASE Start
  BY <1>2 DEF Start, Uncancelled, contexts, Typed
<1>3. CASE TakeFirst
  BY <1>3 DEF TakeFirst, Uncancelled
<1>4. CASE TakeRest
  <2>1. UNCHANGED <<signalled, cancelled, bgCancelled, background, server, loop>>
    BY <1>4 DEF TakeRest, contexts, servers, loops
  <2> QED BY <1>4, <2>1, Taken DEF TakeRest, Uncancelled
<1>5. CASE Signal
  BY <1>5 DEF Signal, Uncancelled
<1>6. CASE Tick \/ Drained
  BY <1>6 DEF Tick, Drained, Uncancelled, contexts, servers, Typed
<1>7. CASE RelayReturns \/ BusCloses \/ BusReturns
  BY <1>7, ComponentFacts
     DEF RelayReturns, BusCloses, BusReturns, Uncancelled, contexts, servers, bgCtxDone
<1>8. CASE FirstLoopReturned
  BY <1>8, ComponentFacts DEF FirstLoopReturned, Uncancelled, servers
<1>9. CASE BackgroundReturns
  BY <1>9 DEF BackgroundReturns, Uncancelled, contexts, servers
<1>10. ASSUME NEW s \in AllServers, RunReturnsError(s) PROVE Uncancelled'
  <2>1. /\ UNCHANGED <<signalled, cancelled, bgCancelled, background, loop>>
        /\ \A t \in AllServers : server'[t] = "stopping" => server[t] = "stopping"
        /\ errCh' = Append(errCh, "error")
    BY <1>10 DEF RunReturnsError, contexts, loops, Typed
  <2> QED BY <2>1, Appended DEF Uncancelled, Results
<1>11. ASSUME NEW s \in AllServers,
              BeginShutdown(s) \/ ShutdownCompletes(s)
       PROVE  Uncancelled'
  BY <1>11 DEF BeginShutdown, ShutdownCompletes, Uncancelled, contexts
<1>12. \/ Load \/ NewPersistence \/ PingSucceeds \/ PingFails \/ CloseBus \/ ClosePool
       \/ \E q \in Readers : TakeMessage(q) \/ ReaderStep(q)
       \/ \E r \in NewRequests : Finish(r) \/ \E s \in AllServers : Accept(r, s)
       \/ \E s \in AllServers : ServeFails(s)
       \/ UNCHANGED vars
       => UNCHANGED <<signalled, cancelled, bgCancelled, background, server, loop, errCh>>
  BY DEF Load, NewPersistence, PingSucceeds, PingFails, CloseBus, ClosePool, TakeMessage,
         ReaderStep, MessageHandled, ReaderStops, Finish, Accept, ServeFails, vars, contexts,
         servers, loops
<1>13. CASE ListenCancelled \/ ShutdownTimesOut
  BY <1>13, ComponentFacts DEF ListenCancelled, ShutdownTimesOut, Uncancelled, contexts
<1>14. CASE MainStep
  BY <1>1, <1>2, <1>3, <1>4, <1>12, <1>14 DEF MainStep, StartUp
<1>15. CASE BusStep \/ BackgroundStep
  BY <1>7, <1>8, <1>9, <1>15 DEF BusStep, BackgroundStep
<1>16. ASSUME NEW s \in AllServers, ServeFails(s) \/ ServerStep(s) PROVE Uncancelled'
  BY <1>1, <1>10, <1>11, <1>12, <1>16 DEF ServerStep
<1> QED BY <1>1, <1>5, <1>6, <1>7, <1>12, <1>13, <1>14, <1>15, <1>16 DEF Next

LEMMA BlamedInductive ==
  ASSUME Typed, Running, Uncancelled, Blamed, [Next]_vars
  PROVE  Blamed'
<1> USE DEF NotStarted
<1>1. ASSUME UNCHANGED <<cancelled, errCh, first, serveErr, timedOut, hardFirst>>,
             \/ main' = main
             \/ main \in NotStarted /\ main' \in NotStarted \cup {"wait"}
             \/ main \in {"collect", "closing"} /\ main' \in {"closing", "exited"}
      PROVE  Blamed'
  BY <1>1 DEF Blamed, Typed
<1>2. CASE StartUp
  BY <1>1, <1>2 DEF StartUp, Load, NewPersistence, PingSucceeds, PingFails, Start, contexts, servers, loops
<1>3. CASE CloseBus \/ ClosePool
  BY <1>1, <1>3 DEF CloseBus, ClosePool, contexts, servers, loops
<1>4. CASE TakeFirst
  <2>1. UNCHANGED <<serveErr, timedOut, hardFirst>>
    BY <1>4 DEF TakeFirst, servers
  <2> QED BY <1>4, <2>1, Taken DEF TakeFirst, Blamed
<1>5. CASE TakeRest
  <2>1. UNCHANGED <<cancelled, main, first, serveErr, timedOut, hardFirst>>
    BY <1>5 DEF TakeRest, servers, contexts
  <2> QED BY <1>5, <2>1, Taken DEF TakeRest, Blamed
<1>6. ASSUME NEW s \in AllServers, RunReturnsError(s) PROVE Blamed'
  <2>1. UNCHANGED <<cancelled, main, first, serveErr, timedOut>> /\ errCh' = Append(errCh, "error")
    BY <1>6 DEF RunReturnsError, contexts, inMain
  <2>2. hardFirst' = (hardFirst \/ ~runCtxDone) /\ s \in serveErr
    BY <1>6 DEF RunReturnsError
  <2>3. main \notin NotStarted
    BY <1>6 DEF RunReturnsError, Running
  <2>4. ~runCtxDone => main \notin {"collect", "closing", "exited"} /\
                       \A i \in 1 .. Len(errCh) : errCh[i] = "error"
    BY DEF Uncancelled, Blamed, runCtxDone
  <2>5. /\ Len(errCh) \in Nat /\ Len(errCh') = Len(errCh) + 1
        /\ \A i \in 1 .. Len(errCh) : errCh'[i] = errCh[i]
        /\ errCh'[Len(errCh')] = "error"
    BY <2>1, Appended DEF Results
  <2>6. CASE hardFirst
    <3>1. Len(errCh) > 0 => errCh'[1] = errCh[1]
      BY <2>5
    <3> QED BY <2>1, <2>2, <2>3, <2>5, <2>6, <3>1 DEF Blamed
  <2>7. CASE ~hardFirst /\ ~runCtxDone
    <3>1. errCh'[1] = "error"
      <4>1. CASE Len(errCh) = 0
        BY <2>5, <4>1
      <4>2. CASE Len(errCh) # 0
        BY <2>4, <2>5, <2>7, <4>2
      <4> QED BY <4>1, <4>2
    <3> QED BY <2>1, <2>2, <2>3, <2>4, <2>5, <2>7, <3>1 DEF Blamed
  <2>8. CASE ~hardFirst /\ runCtxDone
    <3>1. hardFirst' = FALSE
      BY <2>2, <2>8 DEF Typed
    <3> QED BY <2>1, <2>2, <2>3, <2>5, <3>1 DEF Blamed
  <2> QED BY <2>6, <2>7, <2>8
<1>7. ASSUME NEW x \in Results, errCh' = Append(errCh, x), x # "error" \/ timedOut' # {},
             UNCHANGED <<cancelled, main, first, serveErr, hardFirst>>, timedOut \subseteq timedOut'
      PROVE  Blamed'
  BY <1>7, Appended DEF Blamed
<1>8. ASSUME NEW s \in AllServers, ShutdownCompletes(s) PROVE Blamed'
  BY <1>7, <1>8 DEF ShutdownCompletes, Results, contexts, inMain
<1>9. CASE ListenCancelled
  BY <1>7, <1>9 DEF ListenCancelled, Results, contexts, inMain
<1>10. CASE ShutdownTimesOut
  BY <1>7, <1>10 DEF ShutdownTimesOut, Results, contexts, inMain
<1>11. CASE BackgroundReturns
  BY <1>7, <1>11 DEF BackgroundReturns, Results, contexts, servers, inMain
<1>12. ASSUME NEW s \in AllServers, ServeFails(s) PROVE Blamed'
  BY <1>12 DEF ServeFails, Blamed, contexts, inMain
<1>13. ASSUME NEW r \in NewRequests, Finish(r) PROVE Blamed'
  BY <1>1, <1>13, Answers DEF Finish, contexts, servers
<1>14. \/ Signal \/ Tick \/ Drained \/ RelayReturns \/ BusStep \/ FirstLoopReturned
       \/ \E q \in Readers : TakeMessage(q) \/ ReaderStep(q)
       \/ \E s \in AllServers : BeginShutdown(s) \/ \E r \in NewRequests : Accept(r, s)
       \/ UNCHANGED vars
       => UNCHANGED <<cancelled, errCh, first, serveErr, timedOut, hardFirst, main>>
  BY DEF Signal, Tick, Drained, RelayReturns, BusStep, BusCloses, BusReturns, FirstLoopReturned,
         TakeMessage, ReaderStep, MessageHandled, ReaderStops, BeginShutdown, Accept, vars,
         contexts, servers, inMain
<1>15. ASSUME \/ Signal \/ Tick \/ Drained \/ RelayReturns \/ BusStep \/ FirstLoopReturned
              \/ \E q \in Readers : TakeMessage(q) \/ ReaderStep(q)
              \/ \E s \in AllServers : BeginShutdown(s) \/ \E r \in NewRequests : Accept(r, s)
              \/ UNCHANGED vars
       PROVE  Blamed'
  BY <1>1, <1>14, <1>15
<1>16. CASE MainStep
  BY <1>2, <1>3, <1>4, <1>5, <1>16 DEF MainStep
<1>17. CASE BackgroundStep
  BY <1>11, <1>15, <1>17 DEF BackgroundStep
<1>18. ASSUME NEW s \in AllServers, ServeFails(s) \/ ServerStep(s) PROVE Blamed'
  BY <1>6, <1>8, <1>12, <1>15, <1>18 DEF ServerStep
<1>19. ASSUME NEW r \in NewRequests, Finish(r) \/ \E s \in AllServers : Accept(r, s) PROVE Blamed'
  BY <1>13, <1>15, <1>19
<1> QED BY <1>9, <1>10, <1>15, <1>16, <1>17, <1>18, <1>19 DEF Next

-----------------------------------------------------------------------------
(* Requests: who has them, and what they were answered. *)

Attended ==
  \A r \in NewRequests : serving[r] \in AllServers =>
     /\ server[serving[r]] # "off"
     /\ server[serving[r]] = "returned" => serving[r] \in serveErr \cup timedOut

Answered ==
  /\ main # "crashed"
  /\ \A r \in NewRequests : serving[r] = "done" => Served(answer[r])

LEMMA AttendedInductive ==
  ASSUME Typed, Running, Attended, [Next]_vars
  PROVE  Attended'
<1> USE DEF Typed
<1>1. ASSUME UNCHANGED <<serving, server, serveErr, timedOut>> PROVE Attended'
  BY <1>1 DEF Attended
<1>2. CASE Start
  BY <1>2 DEF Start, Running, NotStarted, Attended, requests
<1>3. ASSUME NEW r \in NewRequests, NEW s \in AllServers, Accept(r, s) PROVE Attended'
  BY <1>3 DEF Accept, servers, Attended
<1>4. ASSUME NEW r \in NewRequests, Finish(r) PROVE Attended'
  <2>1. UNCHANGED <<server, serveErr, timedOut>>
    BY <1>4 DEF Finish, servers
  <2>2. \A q \in NewRequests : serving'[q] \in AllServers => serving'[q] = serving[q]
    BY <1>4 DEF Finish, AllServers
  <2> QED BY <2>1, <2>2 DEF Attended
<1>5. ASSUME NEW s \in AllServers, ServeFails(s) PROVE Attended'
  BY <1>5 DEF ServeFails, requests, Attended
<1>6. ASSUME NEW s \in AllServers, RunReturnsError(s) PROVE Attended'
  BY <1>6 DEF RunReturnsError, requests, Attended
<1>7. ASSUME NEW s \in AllServers, BeginShutdown(s) PROVE Attended'
  BY <1>7 DEF BeginShutdown, requests, Attended
<1>8. ASSUME NEW s \in AllServers, ShutdownCompletes(s) PROVE Attended'
  BY <1>8 DEF ShutdownCompletes, requests, Attended
<1>9. CASE ListenCancelled
  BY <1>9, ComponentFacts DEF ListenCancelled, requests, Attended
<1>10. CASE ShutdownTimesOut
  BY <1>10, ComponentFacts DEF ShutdownTimesOut, requests, Attended
<1>11. \/ Signal \/ Tick \/ Drained \/ RelayReturns \/ BusStep \/ BackgroundStep
       \/ \E q \in Readers : TakeMessage(q) \/ ReaderStep(q)
       \/ Load \/ NewPersistence \/ PingSucceeds \/ PingFails
       \/ TakeFirst \/ TakeRest \/ CloseBus \/ ClosePool
       \/ UNCHANGED vars
       => UNCHANGED <<serving, server, serveErr, timedOut>>
  BY DEF Signal, Tick, Drained, RelayReturns, BusStep, BusCloses, BusReturns, BackgroundStep,
         FirstLoopReturned, BackgroundReturns, TakeMessage, ReaderStep, MessageHandled, ReaderStops,
         Load, NewPersistence, PingSucceeds, PingFails, TakeFirst, TakeRest, CloseBus, ClosePool,
         servers, requests, vars
<1>12. CASE MainStep
  BY <1>1, <1>2, <1>11, <1>12 DEF MainStep, StartUp
<1>13. ASSUME NEW s \in AllServers, ServeFails(s) \/ ServerStep(s) PROVE Attended'
  BY <1>5, <1>6, <1>7, <1>8, <1>13 DEF ServerStep
<1> QED BY <1>1, <1>3, <1>4, <1>9, <1>10, <1>11, <1>12, <1>13 DEF Next

LEMMA AnsweredInductive ==
  ASSUME Typed, Answered, [Next]_vars
  PROVE  Answered'
<1>1. ASSUME NEW r \in NewRequests, Finish(r) PROVE Answered'
  <2>1. main' = main /\ Served(answer'[r])
    BY <1>1, Answers
  <2>2. \A q \in NewRequests \ {r} : serving'[q] = serving[q] /\ answer'[q] = answer[q]
    BY <1>1 DEF Finish, Typed
  <2> QED BY <2>1, <2>2 DEF Answered
<1>2. ASSUME NEW r \in NewRequests, NEW s \in AllServers, Accept(r, s) PROVE Answered'
  BY <1>2 DEF Accept, Answered, Typed, AllServers, inMain
<1>3. ASSUME UNCHANGED requests, main' # "crashed" PROVE Answered'
  BY <1>3 DEF Answered, requests
<1>4. MainStep => UNCHANGED requests /\ main' # "crashed"
  BY DEF Answered, MainStep, StartUp, Load, NewPersistence, PingSucceeds, PingFails, Start,
         TakeFirst, TakeRest, CloseBus, ClosePool
<1>5. \/ Signal \/ ListenCancelled \/ ShutdownTimesOut
      \/ \E s \in AllServers : ServeFails(s) \/ ServerStep(s)
      \/ Tick \/ Drained \/ RelayReturns \/ BusStep \/ BackgroundStep
      \/ \E q \in Readers : TakeMessage(q) \/ ReaderStep(q)
      \/ UNCHANGED vars
      => UNCHANGED requests /\ main' = main
  BY DEF Signal, ListenCancelled, ShutdownTimesOut, ServeFails, ServerStep, RunReturnsError,
         BeginShutdown, ShutdownCompletes, Tick, Drained, RelayReturns, BusStep, BusCloses,
         BusReturns, BackgroundStep, FirstLoopReturned, BackgroundReturns, TakeMessage, ReaderStep,
         MessageHandled, ReaderStops, requests, inMain, vars
<1>6. main # "crashed"
  BY DEF Answered
<1> QED BY <1>1, <1>2, <1>3, <1>4, <1>5, <1>6 DEF Next

-----------------------------------------------------------------------------
(* The pool and the configuration. *)

Prepared ==
  /\ main \in {"load", "build"} => pool = "none"
  /\ main = "ping" => pool = "open"
  /\ main \notin {"load", "aborted", "crashed"} => validate(config)

LEMMA PreparedInductive ==
  ASSUME Typed, Prepared, PoolFollowsProcess, [Next]_vars
  PROVE  Prepared' /\ PoolFollowsProcess'
<1>1. config' = config
  BY Fixed
<1> USE DEF Prepared, PoolFollowsProcess
<1>2. CASE Load
  BY <1>1, <1>2 DEF Load, LoadSucceeds, config
<1> HIDE DEF config
<1>3. CASE NewPersistence
  BY <1>1, <1>3 DEF NewPersistence
<1>4. CASE PingSucceeds \/ PingFails
  BY <1>1, <1>4 DEF PingSucceeds, PingFails
<1>5. CASE Start \/ TakeFirst \/ CloseBus \/ ClosePool
  BY <1>1, <1>5 DEF Start, TakeFirst, CloseBus, ClosePool
<1>6. ASSUME pool' = pool, main' \in {main, "crashed"} PROVE Prepared' /\ PoolFollowsProcess'
  BY <1>1, <1>6
<1>7. ASSUME NEW r \in NewRequests, Finish(r) PROVE Prepared' /\ PoolFollowsProcess'
  BY <1>6, <1>7 DEF Finish
<1>8. \/ TakeRest \/ Signal \/ ListenCancelled \/ ShutdownTimesOut
      \/ \E s \in AllServers : ServeFails(s) \/ ServerStep(s) \/ \E r \in NewRequests : Accept(r, s)
      \/ Tick \/ Drained \/ RelayReturns \/ BusStep \/ BackgroundStep
      \/ \E q \in Readers : TakeMessage(q) \/ ReaderStep(q)
      \/ UNCHANGED vars
      => pool' = pool /\ main' = main
  BY DEF TakeRest, Signal, ListenCancelled, ShutdownTimesOut, ServeFails, ServerStep, RunReturnsError,
         BeginShutdown, ShutdownCompletes, Accept, Tick, Drained, RelayReturns, BusStep, BusCloses,
         BusReturns, BackgroundStep, FirstLoopReturned, BackgroundReturns, TakeMessage, ReaderStep,
         MessageHandled, ReaderStops, inMain, vars
<1> QED BY <1>2, <1>3, <1>4, <1>5, <1>6, <1>7, <1>8 DEF Next, MainStep, StartUp

-----------------------------------------------------------------------------
(* All of it together, and what it comes to. *)

IInv ==
  /\ Typed /\ Running /\ Counted
  /\ Uncancelled /\ Blamed
  /\ Attended /\ Answered
  /\ Prepared /\ PoolFollowsProcess

LEMMA InitInv == Init => IInv
<1> SUFFICES ASSUME Init PROVE IInv
  OBVIOUS
<1>1. Typed
  BY InitTyped
<1>2. Running
  BY ComponentFacts DEF Init, Running, NotStarted
<1>3. Counted
  <2>1. \A c \in Components : c # "background" => c \in AllServers
    BY ComponentFacts
  <2>2. Returned = {}
    BY <2>1 DEF Init, Returned
  <2>3. Len(errCh) = 0 /\ received = 0 /\ main = "load"
    BY DEF Init
  <2> QED BY <2>2, <2>3, FS_EmptySet DEF Counted
<1>4. Uncancelled /\ Blamed
  BY DEF Init, Uncancelled, Blamed, NotStarted
<1>5. Attended /\ Answered
  BY ComponentFacts DEF Init, Attended, Answered
<1>6. Prepared /\ PoolFollowsProcess
  BY DEF Init, Prepared, PoolFollowsProcess
<1> QED BY <1>1, <1>2, <1>3, <1>4, <1>5, <1>6 DEF IInv

LEMMA InvInductive == IInv /\ [Next]_vars => IInv'
BY TypedInductive, RunningInductive, CountedInductive, UncancelledInductive, BlamedInductive,
   AttendedInductive, AnsweredInductive, PreparedInductive
   DEF IInv

LEMMA AlwaysInv == Spec => []IInv
BY InitInv, InvInductive, PTL DEF Spec

(* When main closes things, every component has returned. *)
LEMMA AllReturned ==
  ASSUME IInv, main \in {"closing", "exited"}
  PROVE  Returned = Components
<1>1. Len(errCh) \in Nat
  BY LenProperties DEF IInv, Typed
<1> QED BY <1>1, ReturnedFacts, ComponentFacts DEF IInv, Counted, Typed

(* Everything keeps its type, and no component sends a second result: main *)
(* never has more of them than it waits for, so no send to errCh blocks.   *)
THEOREM TypeCorrect == Spec => []TypeOK
<1>1. IInv => TypeOK
  <2> SUFFICES ASSUME IInv PROVE TypeOK
    OBVIOUS
  <2>1. Len(errCh) \in Nat /\ received \in Nat
    BY LenProperties DEF IInv, Typed
  <2>2. Len(errCh) <= Cardinality(Components) /\ received \in 0 .. Cardinality(Components)
    BY <2>1, ReturnedFacts, ComponentFacts DEF IInv, Counted
  <2> QED BY <2>2 DEF IInv, Typed, TypeOK
<1> QED BY <1>1, AlwaysInv, PTL

(* The bus and the pool are closed when nothing uses them any more: all    *)
(* goroutines of run, RunBackground and Bus.Run have returned.             *)
THEOREM ClosedWhenUnused == Spec => []ClosedAfterUse
<1>1. IInv => ClosedAfterUse
  <2> SUFFICES ASSUME IInv, main \in {"closing", "exited"}
               PROVE  /\ \A s \in AllServers : server[s] \in {"off", "returned"}
                      /\ \A l \in AllLoops : loop[l] \in {"off", "returned"}
                      /\ \A q \in Readers : reader[q] \in {"off", "stopped"}
    BY DEF ClosedAfterUse
  <2>1. Returned = Components
    BY AllReturned
  <2>2. \A s \in AllServers : server[s] \in {"off", "returned"}
    BY <2>1, ComponentFacts DEF IInv, Running, Returned
  <2>3. background = "returned"
    BY <2>1, ComponentFacts DEF Returned
  <2>4. \A l \in AllLoops : loop[l] \in {"off", "returned"}
    BY <2>3 DEF IInv, Running
  <2>5. \A q \in Readers : reader[q] \in {"off", "stopped"}
    BY <2>4, ComponentFacts DEF IInv, Running
  <2> QED BY <2>2, <2>4, <2>5
<1> QED BY <1>1, AlwaysInv, PTL

(* Only a server that failed or ran out of time leaves requests behind     *)
(* when the pool is closed.                                                *)
THEOREM NoRequestCutOff == Spec => []RequestsDrained
<1>1. IInv => RequestsDrained
  <2> SUFFICES ASSUME IInv, main \in {"closing", "exited"},
                      NEW r \in NewRequests, serving[r] \in AllServers
               PROVE  serving[r] \in serveErr \cup timedOut
    BY DEF RequestsDrained
  <2>1. serving[r] \in Components /\ serving[r] # "background"
    BY ComponentFacts DEF IInv, Attended, Running
  <2>2. server[serving[r]] = "returned"
    BY <2>1, AllReturned DEF Returned
  <2> QED BY <2>2 DEF IInv, Attended
<1> QED BY <1>1, AlwaysInv, PTL

(* The exit code is 1 exactly if the start failed or the first result was  *)
(* an error, which takes a server that failed or timed out.                *)
THEOREM FirstFailureDecides == Spec => []FailureDecidesExit
<1>1. IInv => FailureDecidesExit
  BY DEF IInv, Blamed, FailureDecidesExit, exitCode, NotStarted
<1> QED BY <1>1, AlwaysInv, PTL

(* The pool is open while components run, and closed on every way out.     *)
THEOREM PoolClosedOnExit == Spec => []PoolFollowsProcess
BY AlwaysInv, PTL DEF IInv

(* What runs was started on a configuration that validate accepted, with   *)
(* every well-formed variable of the environment in force.                 *)
THEOREM AcceptedConfigRuns == Spec => []RunsAsConfigured
<1>1. IInv => RunsAsConfigured
  <2> SUFFICES ASSUME IInv, background # "off" PROVE RunsAsConfigured
    BY DEF RunsAsConfigured
  <2>1. main # "crashed" /\ main \notin NotStarted
    BY DEF IInv, Running, Answered
  <2>2. validate(config)
    BY <2>1 DEF IInv, Prepared, NotStarted
  <2>3. \A s \in Settings : Given(launch.env, s) => config[s] = launch.env[s]
    BY DEF config, Effective, applyEnv
  <2>4. loop["bus"] # "off" <=> UseKafka(config)
    <3>1. "bus" \in Loops <=> UseKafka(config)
      BY DEF Loops, AllLoops
    <3> QED BY <3>1, ComponentFacts DEF IInv, Running
  <2> QED BY <2>2, <2>3, <2>4 DEF RunsAsConfigured
<1> QED BY <1>1, AlwaysInv, PTL

(* No outcome of a request ends the process or goes unlogged, save for an  *)
(* RPC that fails outside or beneath the interceptor that logs.            *)
THEOREM EveryRequestAccountedFor == Spec => []RequestsAccountedFor
<1>1. IInv => RequestsAccountedFor
  BY DEF IInv, Answered, Served, RequestsAccountedFor
<1> QED BY <1>1, AlwaysInv, PTL

-----------------------------------------------------------------------------
(* Somebody can always go on. *)

(* Each loop is only where it can be, and what was started stays so.       *)
Stages ==
  /\ loop["relay"] # "closing" /\ loop["bus"] # "busy"
  /\ background # "off" => \A s \in Servers : server[s] # "off"

LEMMA StagesInductive == Typed /\ Running /\ Stages /\ [Next]_vars => Stages'
<1> SUFFICES ASSUME Typed, Running, Stages, [Next]_vars PROVE Stages'
  OBVIOUS
<1>1. /\ Servers' = Servers /\ Servers \subseteq AllServers
      /\ AllLoops = {"relay", "bus"} /\ AllServers = {"http", "grpc"}
  BY Fixed, ComponentFacts
<1>2. ASSUME UNCHANGED <<loop, background, server>> PROVE Stages'
  BY <1>1, <1>2 DEF Stages
<1>3. CASE Start
  BY <1>1, <1>3 DEF Start, Stages, Typed
<1>4. CASE Tick \/ Drained \/ RelayReturns \/ BusStep
  <2>1. UNCHANGED <<background, server>>
    BY <1>4 DEF Tick, Drained, RelayReturns, BusStep, BusCloses, BusReturns, servers
  <2>2. loop'["relay"] # "closing" /\ loop'["bus"] # "busy"
    BY <1>1, <1>4 DEF Tick, Drained, RelayReturns, BusStep, BusCloses, BusReturns, Stages, Typed
  <2> QED BY <1>1, <2>1, <2>2 DEF Stages
<1>5. CASE BackgroundStep
  BY <1>1, <1>5 DEF BackgroundStep, FirstLoopReturned, BackgroundReturns, Stages, servers
<1>6. ASSUME UNCHANGED <<loop, background>>,
             \A s \in AllServers : server'[s] = "off" => server[s] = "off"
      PROVE  Stages'
  BY <1>1, <1>6 DEF Stages
<1>7. ASSUME NEW s \in AllServers, \/ RunReturnsError(s) \/ BeginShutdown(s)
                                   \/ ShutdownCompletes(s) \/ ListenCancelled \/ ShutdownTimesOut
      PROVE  Stages'
  <2>1. UNCHANGED <<loop, background>>
    BY <1>7 DEF RunReturnsError, BeginShutdown, ShutdownCompletes, ListenCancelled, ShutdownTimesOut, loops
  <2>2. \A t \in AllServers : server'[t] = "off" => server[t] = "off"
    BY <1>1, <1>7
       DEF RunReturnsError, BeginShutdown, ShutdownCompletes, ListenCancelled, ShutdownTimesOut, Typed
  <2> QED BY <1>6, <2>1, <2>2
<1>8. \/ Load \/ NewPersistence \/ PingSucceeds \/ PingFails
      \/ TakeFirst \/ TakeRest \/ CloseBus \/ ClosePool \/ Signal
      \/ \E q \in Readers : TakeMessage(q) \/ ReaderStep(q)
      \/ \E r \in NewRequests : Finish(r) \/ \E s \in AllServers : Accept(r, s)
      \/ \E s \in AllServers : ServeFails(s)
      \/ UNCHANGED vars
      => UNCHANGED <<loop, background, server>>
  BY DEF Load, NewPersistence, PingSucceeds, PingFails, TakeFirst, TakeRest, CloseBus, ClosePool,
         Signal, TakeMessage, ReaderStep, MessageHandled, ReaderStops, Finish, Accept, ServeFails,
         vars, servers, loops
<1>9. CASE MainStep
  BY <1>2, <1>3, <1>8, <1>9 DEF MainStep, StartUp
<1>10. ASSUME NEW s \in AllServers, ServeFails(s) \/ ServerStep(s) \/ ListenCancelled \/ ShutdownTimesOut
       PROVE  Stages'
  BY <1>2, <1>7, <1>8, <1>10 DEF ServerStep
<1> QED BY <1>1, <1>2, <1>4, <1>5, <1>8, <1>9, <1>10 DEF Next

LEMMA AlwaysStages == Spec => []Stages
<1>1. Init => Stages
  BY ComponentFacts DEF Init, Stages
<1>2. IInv => Typed /\ Running
  BY DEF IInv
<1> QED BY <1>1, <1>2, StagesInductive, AlwaysInv, PTL DEF Spec

(* If every component has returned and main has not taken all results, one *)
(* is in errCh; so main waits for a component, and the chain of who waits  *)
(* for whom ends at somebody who can go on.                                *)
LEMMA SomebodyProceeds ==
  ASSUME IInv, Stages, signalled \/ hardFirst, ~Over, ~MainProceeds, ~BackgroundProceeds,
         \A s \in AllServers : ~ServerProceeds(s),
         \A l \in AllLoops : ~LoopProceeds(l),
         \A q \in Readers : ~ReaderProceeds(q),
         \A r \in NewRequests : serving[r] \notin AllServers
  PROVE  FALSE
<1>t. Typed /\ Running /\ Counted /\ Blamed /\ AllServers = {"http", "grpc"}
      /\ AllLoops = {"relay", "bus"} /\ Loops \subseteq AllLoops /\ Servers \subseteq AllServers
      /\ Loops # {}
  BY ComponentFacts DEF IInv, Loops
<1>1. main \in {"wait", "collect"} /\ errCh = << >>
  BY <1>t DEF Typed, Over, MainProceeds, Starting
<1>2. background # "off"
  BY <1>1, <1>t DEF Running, NotStarted
<1>3. runCtxDone /\ bgCtxDone
  <2>1. Len(errCh) = 0
    BY <1>1
  <2>2. hardFirst => cancelled
    BY <1>1, <1>t, <2>1 DEF Blamed
  <2> QED BY <2>2 DEF runCtxDone, bgCtxDone
<1>4. \A s \in Servers : server[s] = "returned"
  <2> SUFFICES ASSUME NEW s \in Servers PROVE server[s] = "returned"
    OBVIOUS
  <2>1. s \in AllServers /\ server[s] # "off"
    BY <1>2, <1>t DEF Stages
  <2>2. server[s] # "serving"
    BY <1>3, <2>1 DEF ServerProceeds
  <2>3. server[s] # "stopping"
    BY <2>1 DEF ServerProceeds
  <2> QED BY <1>t, <2>1, <2>2, <2>3 DEF Typed
<1>5. \A l \in Loops : loop[l] = "returned"
  <2>1. \A l \in AllLoops : loop[l] # "running" /\ loop[l] # "busy"
    BY <1>3 DEF LoopProceeds
  <2>2. loop["bus"] # "off" => \A q \in Readers : reader[q] = "stopped"
    <3>1. \A q \in Readers : reader[q] # "fetching" /\ reader[q] # "handling"
      BY <1>3 DEF ReaderProceeds
    <3> QED BY <1>t, <3>1 DEF Running, Typed
  <2>3. loop["bus"] # "closing"
    BY <1>t, <2>2 DEF LoopProceeds
  <2>4. \A l \in Loops : loop[l] # "off"
    BY <1>2, <1>t DEF Running
  <2> QED BY <1>t, <2>1, <2>3, <2>4 DEF Stages, Typed
<1>6. background = "returned"
  BY <1>2, <1>5, <1>t DEF BackgroundProceeds, Typed
<1>7. Returned = Components
  <2>1. "background" \notin Servers
    BY <1>t
  <2> QED BY <1>4, <1>6, <2>1 DEF Returned, Components
<1>8. received = Cardinality(Components) /\ Cardinality(Components) \in Nat
  BY <1>1, <1>7, <1>t, ReturnedFacts DEF Counted, Typed
<1>9. main # "collect"
  BY <1>8 DEF MainProceeds
<1>10. Cardinality(Components) # 0
  <2>1. "background" \in Components
    BY DEF Components
  <2> QED BY <2>1, <1>7, ReturnedFacts, FS_EmptySet
<1> QED BY <1>1, <1>8, <1>9, <1>10, <1>t DEF Counted

(* A process that is told to stop, or one of whose servers has failed, can *)
(* always take a step towards its end, with any number of read loops and   *)
(* of requests, if no service call hangs for ever: no two of main, the     *)
(* servers, RunBackground and the bus wait for each other.                 *)
THEOREM ShutdownIsNeverStuck ==
  ASSUME \A r \in NewRequests : MayBe[r] # {} PROVE Spec => []NeverStuck
<1>1. IInv /\ Stages => NeverStuck
  BY SomebodyProceeds DEF NeverStuck, RequestProceeds
<1> QED BY <1>1, AlwaysInv, AlwaysStages, PTL
=============================================================================
