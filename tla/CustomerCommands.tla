-------------------------- MODULE CustomerCommands --------------------------
(***************************************************************************)
(* The command side of internal/customer: concurrent CreateCustomer and    *)
(* ChangeCustomerEmail requests, each a handler running inside             *)
(* UnitOfWork.Within, one step per call it makes on the repository and the *)
(* event publisher.  This module holds what the two persistence profiles   *)
(* of bootstrap.newPersistence share; MemoryCustomers and                  *)
(* PostgresCustomers add the repository and the unit of work.              *)
(*                                                                         *)
(* NewID never repeats, so a customer is named after the request creating  *)
(* it.  A row is an email and the optimistic-concurrency version; a row    *)
(* that does not exist has version 0.  Names and times are left out, and   *)
(* so is Deactivate, which no command calls: every customer is active.     *)
(* Requests with an invalid name or address return before touching any     *)
(* state and are left out; Emails are the normalised addresses.            *)
(***************************************************************************)
EXTENDS Naturals, Sequences

CONSTANTS
  Creates,   \* CreateCustomer requests, and the customers they create
  Changes,   \* ChangeCustomerEmail requests
  Emails,    \* normalised addresses
  NoEmail

ASSUME CommandsAssumption ==
  /\ Creates \cap Changes = {}
  /\ NoEmail \notin Emails

Requests == Creates \cup Changes

Absent == [email |-> NoEmail, version |-> 0]
Row == [email : Emails \cup {NoEmail}, version : Nat]
Event == [id : Creates, email : Emails \cup {NoEmail}, version : Nat]

VARIABLES
  rows,     \* the customers as the repository returns them
  announced, \* events added to the outbox, oldest first, forwarded or not
  pc,       \* where each request is
  target,   \* the customer a request is about
  email,    \* the address it asks for
  seen      \* the row it has loaded

request == <<target, email, seen>>

CommandsTypeOK ==
  /\ rows \in [Creates -> Row]
  /\ announced \in Seq(Event)
  /\ pc \in [Requests -> {"idle", "load", "check", "save", "index", "publish", "commit",
                       "done", "failed"}]
  /\ target \in [Requests -> Creates]
  /\ email \in [Requests -> Emails \cup {NoEmail}]
  /\ seen \in [Requests -> Row]

CommandsInit ==
  /\ rows = [i \in Creates |-> Absent]
  /\ announced = << >>
  /\ pc = [r \in Requests |-> "idle"]
  /\ target \in [Requests -> Creates]
  /\ \A r \in Creates : target[r] = r
  /\ email = [r \in Requests |-> NoEmail]
  /\ seen = [r \in Requests |-> Absent]

(* The request arrives with an address; a change starts with FindByID, a   *)
(* create with the uniqueness check.                                       *)
Begin(r, e) ==
  /\ pc[r] = "idle"
  /\ email' = [email EXCEPT ![r] = e]
  /\ pc' = [pc EXCEPT ![r] = IF r \in Creates THEN "check" ELSE "load"]
  /\ UNCHANGED <<rows, announced, target, seen>>

FindByID(i) == rows[i]

(* ErrNotFound, nothing to change, or carry on. *)
Load(r) ==
  LET row == FindByID(target[r]) IN
  /\ pc[r] = "load"
  /\ seen' = [seen EXCEPT ![r] = row]
  /\ pc' = [pc EXCEPT ![r] = IF row.version = 0 THEN "failed"
                             ELSE IF row.email = email[r] THEN "done"
                             ELSE "check"]
  /\ UNCHANGED <<rows, announced, target, email>>

(* Mutated form: the address is left to the unique index. *)
EnsureNothing(r, exists) ==
  /\ pc[r] = "check"
  /\ pc' = [pc EXCEPT ![r] = "save"]
  /\ UNCHANGED <<rows, announced, request>>

(* EmailUniqueness.EnsureAvailable, for what ExistsByEmail has returned. *)
EnsureAvailable(r, exists) ==
  /\ pc[r] = "check"
  /\ pc' = [pc EXCEPT ![r] = IF exists THEN "failed" ELSE "save"]
  /\ UNCHANGED <<rows, announced, request>>

(* The aggregate as NewCustomer or Customer.ChangeEmail leaves it. *)
Snapshot(r) == [email |-> email[r], version |-> seen[r].version + 1]

(* The event it has recorded, as ToIntegrationEvent maps it. *)
IntegrationEvent(r) ==
  [id |-> target[r], email |-> Snapshot(r).email, version |-> Snapshot(r).version]

(* Mutated form: events of a change have no integration mapping. *)
PublishCreatedOnly(r, next) ==
  /\ pc[r] = "publish"
  /\ announced' = IF r \in Creates THEN Append(announced, IntegrationEvent(r)) ELSE announced
  /\ pc' = [pc EXCEPT ![r] = next]
  /\ UNCHANGED <<rows, request>>

(* Events.Publish(PullEvents()): the Dispatcher adds it to the outbox. *)
PublishEvents(r, next) ==
  /\ pc[r] = "publish"
  /\ announced' = Append(announced, IntegrationEvent(r))
  /\ pc' = [pc EXCEPT ![r] = next]
  /\ UNCHANGED <<rows, request>>

-----------------------------------------------------------------------------
(* Properties common to both profiles. *)

Finished == \A r \in Requests : pc[r] \in {"idle", "done", "failed"}

(* email_uniqueness.go:12: "an email address identifies at most one        *)
(* customer", however the check and the save of concurrent requests        *)
(* interleave.                                                             *)
EmailIdentifiesOne ==
  \A i, j \in Creates :
     rows[i].version > 0 /\ rows[j].version > 0 /\ rows[i].email = rows[j].email => i = j

(* Every version of every customer that has been written is announced by   *)
(* an event, or will be by the request that has just written it            *)
(* (create_customer.go, change_email.go: Save, then Publish).              *)
EveryVersionAnnounced ==
  \A i \in Creates : \A v \in 1 .. rows[i].version :
     \/ \E k \in DOMAIN announced : announced[k].id = i /\ announced[k].version = v
     \/ \E r \in Requests : pc[r] = "publish" /\ target[r] = i /\ seen[r].version + 1 = v

(* ports.go:13-15: the read model, which applies events in order, is       *)
(* "eventually consistent with the write side": with no request under way, *)
(* the last event about a customer tells its current address.              *)
LastEventIsCurrent ==
  Finished =>
    \A k \in DOMAIN announced :
       LET ev == announced[k] IN
       (\A l \in DOMAIN announced : announced[l].id = ev.id => l <= k)
         => rows[ev.id].email = ev.email
=============================================================================
