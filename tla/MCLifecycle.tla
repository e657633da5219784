---------------------------- MODULE MCLifecycle ----------------------------
(* Small instances of Lifecycle for TLC: the commands with everything      *)
(* configured and with nothing, and configurations that Load refuses.      *)
EXTENDS Lifecycle

Nothing == [s \in {} |-> ""]

FromEnv(command, env) == [command |-> command, readable |-> TRUE, file |-> Nothing, env |-> env]

Production ==
  [s \in {"database.dsn", "kafka.brokers", "log.format", "database.max_open_conns"} |->
     CASE s = "log.format" -> "json"
       [] s = "database.max_open_conns" -> "x"
       [] OTHER -> "there"]

(* The file leaves something to the environment, and something open. *)
FileAndEnv ==
  [command |-> "worker", readable |-> TRUE,
   file |-> [s \in {"http.addr", "log.format", "kafka.brokers", "database.dsn"} |->
               CASE s = "http.addr" -> "" [] s = "log.format" -> "text" [] OTHER -> "file"],
   env |-> [s \in {"http.addr", "log.format", "database.dsn"} |->
              CASE s = "http.addr" -> "env" [] s = "log.format" -> "json" [] OTHER -> ""]]

(* The two disagree. *)
FileOrEnv ==
  [command |-> "worker", readable |-> TRUE,
   file |-> [s \in {"log.format", "kafka.brokers"} |-> IF s = "log.format" THEN "text" ELSE "file"],
   env |-> [s \in {"log.format", "kafka.brokers"} |-> IF s = "log.format" THEN "json" ELSE "env"]]

MCLaunches ==
  {FromEnv("api", Production), FromEnv("api", Nothing), FileAndEnv, FileOrEnv,
   FromEnv("api", [s \in {"log.format"} |-> "xml"]),
   [FileAndEnv EXCEPT !.env = Nothing],
   [FileAndEnv EXCEPT !.readable = FALSE]}

MCMayBe ==
  [r \in NewRequests |-> IF r = "r1" THEN {"panic"} ELSE {"created", "ok", "refused", "malformed"}]
=============================================================================
