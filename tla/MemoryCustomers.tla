-------------------------- MODULE MemoryCustomers --------------------------
(***************************************************************************)
(* The in-memory profile: persistence/memory.Repository, with its map of   *)
(* snapshots and its email index under one mutex, and transaction.Noop,    *)
(* under which every call takes effect at once and nothing is rolled back. *)
(***************************************************************************)
EXTENDS CustomerCommands

CONSTANT NoCustomer

ASSUME MemoryAssumption == NoCustomer \notin Creates

VARIABLE byEmail   \* Repository.byEmail; rows is Repository.byID

vars == <<rows, announced, pc, target, email, seen, byEmail>>

TypeOK ==
  /\ CommandsTypeOK
  /\ byEmail \in [Emails -> Creates \cup {NoCustomer}]

Init ==
  /\ CommandsInit
  /\ byEmail = [e \in Emails |-> NoCustomer]

ExistsByEmail(e) == byEmail[e] # NoCustomer

(* Mutated form: the old address stays in the index. *)
ReindexAddOnly(i, old, new) == [byEmail EXCEPT ![new] = i]

(* Mutated form: the old address is marked with a status of its own. *)
ReindexReleased(i, old, new) ==
  [e \in Emails |-> IF e = new THEN i
                    ELSE IF e = old.email THEN "released"
                    ELSE byEmail[e]]

(* The email index after row i changes from old to the address new. *)
Reindex(i, old, new) ==
  [e \in Emails |-> IF e = new THEN i
                    ELSE IF e = old.email THEN NoCustomer
                    ELSE byEmail[e]]

(* Mutated form: the version is not looked at. *)
AcceptAny(existing, snap) == TRUE

(* The version check of Save. *)
Accepts(existing, snap) == ~(existing.version > snap.version)

Save(r) ==
  LET i == target[r]
      snap == Snapshot(r)
  IN
  /\ pc[r] = "save"
  /\ IF Accepts(rows[i], snap)
     THEN /\ byEmail' = Reindex(i, rows[i], snap.email)
          /\ rows' = [rows EXCEPT ![i] = snap]
          /\ pc' = [pc EXCEPT ![r] = "publish"]
     ELSE /\ pc' = [pc EXCEPT ![r] = "failed"]
          /\ UNCHANGED <<rows, byEmail>>
  /\ UNCHANGED <<announced, request>>

RequestStep(r) ==
  \/ /\ \/ \E e \in Emails : Begin(r, e)
        \/ Load(r)
        \/ EnsureAvailable(r, ExistsByEmail(email[r]))
        \/ PublishEvents(r, "done")
     /\ UNCHANGED byEmail
  \/ Save(r)

Next == \E r \in Requests : RequestStep(r)

Spec == Init /\ [][Next]_vars

-----------------------------------------------------------------------------
(* The email index never names a customer that has another address, even   *)
(* after races that give two customers the same address                    *)
(* (memory/repository.go:52-55 "keep the email index consistent").         *)
IndexSound ==
  \A e \in Emails : ExistsByEmail(e) => rows[byEmail[e]].email = e

(* No Save takes a customer back to an older version. *)
VersionsNeverGoBack ==
  [][\A i \in Creates : rows'[i].version >= rows[i].version]_vars

(* customer_repository.go:11-13: Save implementations "return ErrConflict  *)
(* on a version mismatch": a row is only replaced by the version after it. *)
NoLostUpdate ==
  [][\A i \in Creates : rows'[i] # rows[i] => rows'[i].version = rows[i].version + 1]_vars
=============================================================================
