------------------------------ MODULE Migrate ------------------------------
(***************************************************************************)
(* cmd/migrate: runs of the migration tool against one database, possibly  *)
(* several at a time (the deployments of two releases, a developer's       *)
(* shell).  A run loads the applied versions in one query, plans, and then *)
(* applies one migration per transaction: the script and the row in        *)
(* schema_migrations together.                                             *)
(*                                                                         *)
(* A version is the digits in its file name: ordered by number for up and  *)
(* as text for down.  Both scripts of a version are in the directory.      *)
(* Postgres is modelled from its use: the statements of a transaction wait *)
(* for another one that is applying the same version.                      *)
(***************************************************************************)
EXTENDS Integers, Sequences, FiniteSets

CONSTANTS
  Versions,    \* versions, as sequences of digits
  Runs,        \* runs of the tool
  Files,       \* Files[r]: the versions in the directory of run r
  Direction,   \* Direction[r]: "up" or "down"
  Steps        \* Steps[r]: the flag -steps

Number(v) ==
  LET value[i \in 0 .. Len(v)] == IF i = 0 THEN 0 ELSE 10 * value[i - 1] + v[i]
  IN  value[Len(v)]

ASSUME MigrateAssumption ==
  /\ Versions \subseteq Seq(0 .. 9)
  /\ IsFiniteSet(Versions)
  /\ \A v \in Versions : Number(v) \in Nat
  /\ \A v, w \in Versions : Number(v) = Number(w) => v = w
  /\ Files \in [Runs -> SUBSET Versions]
  /\ Direction \in [Runs -> {"up", "down"}]
  /\ Steps \in [Runs -> Int]

VARIABLES
  recorded,   \* the versions in schema_migrations
  applied,    \* history: how often each up script has been committed
  plan,       \* the migrations a run has yet to apply
  pc,         \* where each run is; "tx": its transaction is open
  mixed       \* history: an up and a down run were under way together

vars == <<recorded, applied, plan, pc, mixed>>

TypeOK ==
  /\ recorded \subseteq Versions
  /\ applied \in [Versions -> Nat]
  /\ plan \in [Runs -> SUBSET Versions]
  /\ \A r \in Runs : plan[r] \subseteq Files[r]
  /\ pc \in [Runs -> {"new", "apply", "tx", "done", "failed"}]
  /\ mixed \in BOOLEAN

Init ==
  /\ recorded = {}
  /\ applied = [v \in Versions |-> 0]
  /\ plan = [r \in Runs |-> {}]
  /\ pc = [r \in Runs |-> "new"]
  /\ mixed = FALSE

-----------------------------------------------------------------------------
(* The plan. *)

(* sort.StringSlice. *)
TextBefore(v, w) ==
  \E k \in 1 .. Len(w) :
     /\ \A i \in 1 .. k - 1 : i <= Len(v) /\ v[i] = w[i]
     /\ k > Len(v) \/ v[k] < w[k]

(* loadMigrations. *)
Before(v, w) == Number(v) < Number(w)

appliedVersions == recorded

(* Mutated form: the newest of the pending migrations. *)
pendingNewest(r) ==
  LET pending == Files[r] \ appliedVersions IN
  {v \in pending : Steps[r] > 0 => Cardinality({w \in pending : Before(v, w)}) < Steps[r]}

pendingUp(r) ==
  LET pending == Files[r] \ appliedVersions IN
  {v \in pending : Steps[r] > 0 => Cardinality({w \in pending : Before(w, v)}) < Steps[r]}

(* Mutated form: the oldest of the applied migrations. *)
pendingOldest(r) ==
  LET steps == IF Steps[r] <= 0 THEN 1 ELSE Steps[r] IN
  {v \in recorded : Cardinality({w \in recorded : TextBefore(w, v)}) < steps}

pendingDown(r) ==
  LET steps == IF Steps[r] <= 0 THEN 1 ELSE Steps[r] IN
  {v \in appliedVersions : Cardinality({w \in appliedVersions : TextBefore(v, w)}) < steps}

Plan(r) == IF Direction[r] = "up" THEN pendingUp(r) ELSE pendingDown(r)

Active(r) == pc[r] \in {"apply", "tx"}

(* Mutated form: a missing file is not noticed. *)
LoadUnchecked(r) ==
  /\ pc[r] = "new"
  /\ plan' = [plan EXCEPT ![r] = Plan(r)]
  /\ pc' = [pc EXCEPT ![r] = IF Plan(r) = {} THEN "done" ELSE "apply"]
  /\ UNCHANGED <<recorded, applied, mixed>>

Load(r) ==
  /\ pc[r] = "new"
  /\ Plan(r) \subseteq Files[r]
  /\ plan' = [plan EXCEPT ![r] = Plan(r)]
  /\ pc' = [pc EXCEPT ![r] = IF Plan(r) = {} THEN "done" ELSE "apply"]
  /\ mixed' = (mixed \/ \E q \in Runs : Active(q) /\ Direction[q] # Direction[r])
  /\ UNCHANGED <<recorded, applied>>

(* A version that is to be rolled back has no file in this directory. *)
MissingFile(r) ==
  /\ pc[r] = "new"
  /\ ~(Plan(r) \subseteq Files[r])
  /\ pc' = [pc EXCEPT ![r] = "failed"]
  /\ UNCHANGED <<recorded, applied, plan, mixed>>

-----------------------------------------------------------------------------
(* applyOne. *)

Current(r, v) ==
  /\ v \in plan[r]
  /\ \A w \in plan[r] \ {v} :
       IF Direction[r] = "up" THEN Before(v, w) ELSE TextBefore(w, v)

BusyWith(q, v) == pc[q] = "tx" /\ Current(q, v)

(* Mutated form: INSERT ... ON CONFLICT DO NOTHING. *)
ExecInsertIgnore(r, v) ==
  /\ pc[r] = "apply"
  /\ Current(r, v)
  /\ \A q \in Runs \ {r} : ~BusyWith(q, v)
  /\ pc' = [pc EXCEPT ![r] = "tx"]
  /\ UNCHANGED <<recorded, applied, plan, mixed>>

(* The script and the row.  A row that is there already is an error for up *)
(* and one that is gone is none for down.                                  *)
Exec(r, v) ==
  /\ pc[r] = "apply"
  /\ Current(r, v)
  /\ \A q \in Runs \ {r} : ~BusyWith(q, v)
  /\ pc' = [pc EXCEPT ![r] =
              IF Direction[r] = "up" /\ v \in recorded THEN "failed" ELSE "tx"]
  /\ UNCHANGED <<recorded, applied, plan, mixed>>

Written(r, v) ==
  IF Direction[r] = "up"
  THEN /\ recorded' = recorded \cup {v}
       /\ applied' = [applied EXCEPT ![v] = @ + 1]
  ELSE /\ recorded' = recorded \ {v}
       /\ UNCHANGED applied

(* Mutated form: the run is over after one migration. *)
CommitAndStop(r, v) ==
  /\ pc[r] = "tx"
  /\ Current(r, v)
  /\ Written(r, v)
  /\ plan' = [plan EXCEPT ![r] = @ \ {v}]
  /\ pc' = [pc EXCEPT ![r] = "done"]
  /\ UNCHANGED mixed

Commit(r, v) ==
  /\ pc[r] = "tx"
  /\ Current(r, v)
  /\ Written(r, v)
  /\ plan' = [plan EXCEPT ![r] = @ \ {v}]
  /\ pc' = [pc EXCEPT ![r] = IF plan[r] = {v} THEN "done" ELSE "apply"]
  /\ UNCHANGED mixed

(* A query or a script fails, the 60 seconds are over or the process dies: *)
(* the open transaction is rolled back and the run ends.                   *)
Fails(r) ==
  /\ pc[r] \in {"new", "apply", "tx"}
  /\ pc' = [pc EXCEPT ![r] = "failed"]
  /\ UNCHANGED <<recorded, applied, plan, mixed>>

(* Commit reports an error and has happened all the same. *)
CommitUnknown(r, v) ==
  /\ pc[r] = "tx"
  /\ Current(r, v)
  /\ Written(r, v)
  /\ pc' = [pc EXCEPT ![r] = "failed"]
  /\ UNCHANGED <<plan, mixed>>

Next ==
  \E r \in Runs :
     \/ Load(r)
     \/ MissingFile(r)
     \/ Fails(r)
     \/ \E v \in Versions : Exec(r, v) \/ Commit(r, v) \/ CommitUnknown(r, v)

Spec == Init /\ [][Next]_vars

-----------------------------------------------------------------------------
(* Properties. *)

(* What is left to those who add migrations: that a directory has no       *)
(* migration without those before it, and that text order is numerical     *)
(* order, as with versions of one width and not with 9 and 10.             *)
DirectoriesComplete ==
  \A r \in Runs : \A v \in Files[r], w \in Versions : Before(w, v) => w \in Files[r]

TextOrderIsNumeric ==
  \A v, w \in Versions : TextBefore(v, w) <=> Before(v, w)

(* As long as up and down runs do not overlap, the database never has a    *)
(* migration without every one before it, whatever runs of two releases    *)
(* interleave and wherever they fail (pendingUp, pendingDown, run).        *)
NoGaps ==
  ~mixed => \A v \in recorded : \A w \in Versions : Before(w, v) => w \in recorded

(* An up script is committed again only after the version has been rolled  *)
(* back: concurrent runs never apply one twice (applyOne).                 *)
AppliedOnce ==
  [][\A v \in Versions : applied'[v] > applied[v] => v \notin recorded]_vars

(* An up run without -steps that ends without an error leaves every        *)
(* migration of its directory applied, unless up and down runs have        *)
(* overlapped: another run may have rolled some back meanwhile (run).      *)
SuccessMeansApplied ==
  [][\A r \in Runs :
       pc[r] # "done" /\ pc'[r] = "done" /\ Direction[r] = "up" /\ Steps[r] <= 0 /\ ~mixed' =>
         Files[r] \subseteq recorded']_vars
=============================================================================
