------------------------- MODULE PostgresCustomers -------------------------
(***************************************************************************)
(* The Postgres profile: persistence/postgres.Repository in the            *)
(* transaction that transaction.SQL puts on the context, at the default    *)
(* isolation (READ COMMITTED), with the unique index of migration 0001.    *)
(* The outbox is the in-memory store in this profile too                   *)
(* (bootstrap.Build), so an event is in it before the commit and is gone   *)
(* if the process crashes.                                                 *)
(*                                                                         *)
(* Postgres is modelled from its use: reads see committed rows; the upsert *)
(* first takes the row, then enters its address in the unique index, and   *)
(* at either step waits for the open transactions in its way, then sees    *)
(* what they committed.  While it waits for the index it keeps its row.    *)
(* Postgres would break a cycle of such waits by failing one of them; the  *)
(* model has no such way out.  A transaction that has saved is at "publish"*)
(* or "commit", and its write is Snapshot(r).                              *)
(***************************************************************************)
EXTENDS CustomerCommands

CONSTANT MaxFaults   \* bound: failing database calls and crashes

ASSUME PostgresAssumption == MaxFaults \in Nat

VARIABLE faults   \* how many of MaxFaults have happened

vars == <<rows, announced, pc, target, email, seen, faults>>

TypeOK ==
  /\ CommandsTypeOK
  /\ faults \in Nat

Init ==
  /\ CommandsInit
  /\ faults = 0

ExistsByEmail(e) == \E i \in Creates : rows[i].email = e

(* Mutated form: the row is released when the upsert returns. *)
HasRowDuringSave(r) == pc[r] = "index"

(* The request's transaction has the row of its customer and is open. *)
HasRow(r) == pc[r] \in {"index", "publish", "commit"}

(* It has its address in the unique index as well. *)
HasEntry(r) == pc[r] \in {"publish", "commit"}

(* What the entry of r may depend on: whether q's entry for the address,   *)
(* or q's end of the row that has it, is committed.                        *)
EntryWaitsFor(r, q) ==
  \/ HasEntry(q) /\ email[q] = email[r]
  \/ HasRow(q) /\ rows[target[q]].email = email[r]

(* Mutated form: there is no unique index. *)
NoUniqueIndex(r) == FALSE

UniqueViolation(r) ==
  \E i \in Creates \ {target[r]} : rows[i].email = email[r]

(* Mutated form: the guard lets the same version through. *)
VersionGuardWeak(r) == rows[target[r]].version <= Snapshot(r).version

(* WHERE customers.version < EXCLUDED.version; an insert always passes. *)
VersionGuard(r) == rows[target[r]].version < Snapshot(r).version

(* ON CONFLICT (id) locks the row there is, and the guard is evaluated.    *)
LockRow(r) ==
  /\ pc[r] = "save"
  /\ \A q \in Requests \ {r} : HasRow(q) => target[q] # target[r]
  /\ pc' = [pc EXCEPT ![r] = IF VersionGuard(r) THEN "index" ELSE "failed"]
  /\ UNCHANGED <<rows, announced, request, faults>>

(* customers_email_key. *)
InsertEntry(r) ==
  /\ pc[r] = "index"
  /\ \A q \in Requests \ {r} : ~EntryWaitsFor(r, q)
  /\ pc' = [pc EXCEPT ![r] = IF UniqueViolation(r) THEN "failed" ELSE "publish"]
  /\ UNCHANGED <<rows, announced, request, faults>>

Save(r) == LockRow(r) \/ InsertEntry(r)

Commit(r) ==
  /\ pc[r] = "commit"
  /\ rows' = [rows EXCEPT ![target[r]] = Snapshot(r)]
  /\ pc' = [pc EXCEPT ![r] = "done"]
  /\ UNCHANGED <<announced, request, faults>>

(* A query fails: Within rolls back. *)
QueryFails(r) ==
  /\ pc[r] \in {"load", "check", "save", "index"}
  /\ faults < MaxFaults
  /\ faults' = faults + 1
  /\ pc' = [pc EXCEPT ![r] = "failed"]
  /\ UNCHANGED <<rows, announced, request>>

(* tx.Commit returns an error; the commit may have happened all the same. *)
CommitFails(r) ==
  /\ pc[r] = "commit"
  /\ faults < MaxFaults
  /\ faults' = faults + 1
  /\ \/ UNCHANGED rows
     \/ rows' = [rows EXCEPT ![target[r]] = Snapshot(r)]
  /\ pc' = [pc EXCEPT ![r] = "failed"]
  /\ UNCHANGED <<announced, request>>

(* The process dies: open transactions roll back, and of the outbox only   *)
(* the events that the relay has forwarded by now remain announced.        *)
Crash ==
  /\ faults < MaxFaults
  /\ faults' = faults + 1
  /\ pc' = [r \in Requests |-> IF pc[r] \in {"idle", "done"} THEN pc[r] ELSE "failed"]
  /\ \E n \in 0 .. Len(announced) : announced' = SubSeq(announced, 1, n)
  /\ UNCHANGED <<rows, request>>

RequestStep(r) ==
  \/ /\ \/ \E e \in Emails : Begin(r, e)
        \/ Load(r)
        \/ EnsureAvailable(r, ExistsByEmail(email[r]))
        \/ PublishEvents(r, "commit")
     /\ UNCHANGED faults
  \/ Save(r)
  \/ Commit(r)
  \/ QueryFails(r)
  \/ CommitFails(r)

Next ==
  \/ \E r \in Requests : RequestStep(r)
  \/ Crash

Spec == Init /\ [][Next]_vars

(* A request that has arrived is run to its end by its goroutine. *)
Fairness == \A r \in Requests : WF_vars(RequestStep(r))

FairSpec == Spec /\ Fairness

-----------------------------------------------------------------------------
(* Committed rows change one whole command at a time: concurrent requests, *)
(* failed commits and crashes in any order leave what some sequence of     *)
(* creates and changes would (SQL.Within, Save's guard, the unique index). *)
Register == INSTANCE CustomerRegister WITH Customers <- Creates

ImplementsRegister == Register!Spec

(* Every request ends: no cycle of transactions that each hold a row and   *)
(* wait for another's address comes about, not even when customers swap    *)
(* addresses, for who gets the row has checked the address after loading   *)
(* the version that is still current (change_email.go, Save).              *)
RequestsFinish ==
  \A r \in Requests : pc[r] # "idle" ~> pc[r] \in {"done", "failed"}

(* Until a first fault the events about a customer end with its current    *)
(* address: the row lock, held from Save past Publish to the commit, keeps *)
(* them in the order of the versions (SQL.Within, change_email.go).        *)
EventsEndCurrent == faults = 0 => LastEventIsCurrent
=============================================================================
