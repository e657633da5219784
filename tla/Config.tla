------------------------------- MODULE Config -------------------------------
(***************************************************************************)
(* platform/config: how Load makes the configuration of a process from     *)
(* the defaults, a JSON file and the environment, each layer over the one  *)
(* before it.  Of some thirty settings, those that decide what is started, *)
(* what validate refuses, and one number for all the others of its kind.   *)
(* A layer is a function whose domain is what it sets.                     *)
(***************************************************************************)

Numbers == {"database.max_open_conns"}

Settings ==
  {"http.addr", "grpc.addr", "log.format", "database.dsn", "kafka.brokers"} \cup Numbers

Default ==
  [s \in Settings |->
     CASE s \in {"database.dsn", "kafka.brokers"} -> ""
       [] s = "log.format" -> "text"
       [] s \in Numbers -> "20"
       [] OTHER -> "default"]

(* The file that CONFIG_PATH, or else configs/config.json, leads to; the    *)
(* empty layer if there is none.  A missing field keeps its value.         *)
loadFile(file, cfg) == [s \in Settings |-> IF s \in DOMAIN file THEN file[s] ELSE cfg[s]]

(* "x" stands for all that strconv.Atoi and time.ParseDuration reject. *)
Parses(s, v) == s \in Numbers => v # "x"

(* An empty variable, and a number that does not parse, count as unset. *)
Given(env, s) == s \in DOMAIN env /\ env[s] # "" /\ Parses(s, env[s])

applyEnv(env, cfg) == [s \in Settings |-> IF Given(env, s) THEN env[s] ELSE cfg[s]]

(* Mutated form: the file over the environment. *)
EffectiveFileLast(file, env) == loadFile(file, applyEnv(env, Default))

Effective(file, env) == applyEnv(env, loadFile(file, Default))

validate(cfg) ==
  /\ cfg["http.addr"] # ""
  /\ cfg["grpc.addr"] # ""
  /\ cfg["log.format"] \in {"json", "text"}

(* readable: not a missing file, broken JSON or an unknown field. *)
LoadSucceeds(readable, file, env) == readable /\ validate(Effective(file, env))

UseDatabase(cfg) == cfg["database.dsn"] # ""
UseKafka(cfg) == cfg["kafka.brokers"] # ""
=============================================================================
