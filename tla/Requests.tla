------------------------------ MODULE Requests ------------------------------
(***************************************************************************)
(* What becomes of one request: the REST chain RequestID, AccessLog,       *)
(* Recover, gateway, and the gRPC chain Recovery, AccessLog, service, as   *)
(* bootstrap.Build puts them together.  The gateway calls the service      *)
(* objects in the process, so REST requests do not pass the interceptors.  *)
(* A layer is an operator on what the layer inside it hands back.          *)
(*                                                                         *)
(* An outcome is what the service call makes of the request; "malformed"   *)
(* never reaches it.  net/http and grpc-go are modelled from their use:    *)
(* the first status written is the one sent, and 200 if none is.           *)
(***************************************************************************)
EXTENDS Sequences

Outcomes == {"created", "ok", "refused", "panic", "malformed"}
Statuses == {"200", "201", "4xx", "500"}

(* sent: the status on the wire; recorded: statusWriter.status, or the     *)
(* code in the RPC's error; log: the access log's lines.                   *)
Call == [via : {"none", "http", "grpc"}, sent : Statuses \cup {"none"}, recorded : Statuses,
         panics : BOOLEAN, log : Seq(Statuses)]

Untouched ==
  [via |-> "none", sent |-> "none", recorded |-> "200", panics |-> FALSE, log |-> << >>]

WriteHeader(x, status) ==
  [x EXCEPT !.recorded = status, !.sent = IF @ = "none" THEN status ELSE @]

-----------------------------------------------------------------------------
(* The service objects, and what both chains do before calling them. *)

(* A body, a parameter or a query that does not decode is an error. *)
Decodes(outcome) == outcome # "malformed"

Panicking == [Untouched EXCEPT !.panics = TRUE]

-----------------------------------------------------------------------------
(* REST. *)

(* CreateCustomer asks for 201 in metadata; every other call leaves 200.   *)
StatusCodeOption(outcome) ==
  IF outcome = "created" THEN WriteHeader(Untouched, "201") ELSE Untouched

(* An error of the decoding or of the call is answered by HTTPError. *)
Gateway(outcome) ==
  CASE ~Decodes(outcome) \/ outcome = "refused" -> WriteHeader(Untouched, "4xx")
    [] outcome = "panic" -> Panicking
    [] OTHER -> StatusCodeOption(outcome)

Recover(x) ==
  IF x.panics THEN WriteHeader([x EXCEPT !.panics = FALSE], "500") ELSE x

(* A panic that passes through keeps the line from being written. *)
AccessLog(x) == IF x.panics THEN x ELSE [x EXCEPT !.log = Append(@, x.recorded)]

(* net/http, when the outermost handler is done. *)
Sent(x) == IF x.sent = "none" THEN [x EXCEPT !.sent = "200"] ELSE x

(* Mutated form: the two layers the other way round. *)
ServeHTTPRecoverOutside(outcome) == Sent(Recover(AccessLog(Gateway(outcome))))

ServeHTTP(outcome) == Sent(AccessLog(Recover(Gateway(outcome))))

-----------------------------------------------------------------------------
(* gRPC.  The metadata that asks for 201 is nothing to a gRPC client. *)

Service(outcome) ==
  CASE outcome = "refused" -> WriteHeader(Untouched, "4xx")
    [] outcome = "panic" -> Panicking
    [] OTHER -> WriteHeader(Untouched, "200")

(* Also gRPC's own answer to a request that does not decode. *)
Internal == WriteHeader(Untouched, "500")

Recovery(x) == IF x.panics THEN Internal ELSE x

LogRPC(x) == IF x.panics THEN x ELSE [x EXCEPT !.log = Append(@, x.recorded)]

(* The generated handler decodes before it calls the interceptors. *)
ServeRPC(outcome) ==
  IF Decodes(outcome) THEN Recovery(LogRPC(Service(outcome))) ELSE Internal

Serve(server, outcome) ==
  [(IF server = "http" THEN ServeHTTP(outcome) ELSE ServeRPC(outcome)) EXCEPT !.via = server]
=============================================================================
