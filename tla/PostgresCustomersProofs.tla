---------------------- MODULE PostgresCustomersProofs ----------------------
(***************************************************************************)
(* What holds of the Postgres profile for any customers, changes,          *)
(* addresses and faults.  A transaction that has its row has loaded it as  *)
(* it is, and is alone with it; one that has its index entry as well is    *)
(* alone with its address.                                                 *)
(***************************************************************************)
EXTENDS PostgresCustomers, SequenceTheorems, TLAPS

States == {"idle", "load", "check", "save", "index", "publish", "commit", "done", "failed"}
Loaded == {"check", "save", "index", "publish", "commit"}

RowsSound == \A i \in Creates : rows[i].version = 0 => rows[i] = Absent

(* What a request has loaded may be old, but not of the current version    *)
(* and different; it asks for another address than it has loaded.          *)
SeenSound ==
  \A r \in Requests :
     /\ pc[r] = "idle" => seen[r] = Absent
     /\ pc[r] # "idle" => email[r] \in Emails
     /\ pc[r] \in Loaded => email[r] # seen[r].email
     /\ pc[r] \in Loaded \cup {"idle"} =>
          /\ seen[r].version <= rows[target[r]].version
          /\ seen[r].version = rows[target[r]].version => seen[r] = rows[target[r]]

RowsHeld ==
  \A r \in Requests : HasRow(r) =>
     /\ seen[r] = rows[target[r]]
     /\ \A q \in Requests \ {r} : HasRow(q) => target[q] # target[r]

EntriesHeld ==
  \A r \in Requests : HasEntry(r) =>
     /\ \A i \in Creates \ {target[r]} : rows[i].email # email[r]
     /\ \A q \in Requests \ {r} : HasEntry(q) => email[q] # email[r]

Locks == RowsHeld /\ EntriesHeld

PInv == TypeOK /\ RowsSound /\ SeenSound /\ Locks /\ EmailIdentifiesOne

LEMMA TypeFacts ==
  ASSUME TypeOK
  PROVE  /\ rows \in [Creates -> Row] /\ seen \in [Requests -> Row]
         /\ pc \in [Requests -> States] /\ target \in [Requests -> Creates]
         /\ email \in [Requests -> Emails \cup {NoEmail}]
         /\ announced \in Seq(Event) /\ faults \in Nat
         /\ \A i \in Creates : rows[i].version \in Nat
         /\ \A r \in Requests : seen[r].version \in Nat
BY DEF TypeOK, CommandsTypeOK, Row, States

LEMMA SnapshotFacts ==
  ASSUME TypeOK, NEW r \in Requests
  PROVE  /\ Snapshot(r) \in Row
         /\ Snapshot(r).email = email[r]
         /\ Snapshot(r).version = seen[r].version + 1
         /\ Snapshot(r) = [email |-> email[r], version |-> seen[r].version + 1]
BY DEF TypeOK, CommandsTypeOK, Snapshot, Row

LEMMA EventFacts ==
  ASSUME TypeOK, NEW r \in Requests
  PROVE  /\ IntegrationEvent(r) \in Event
         /\ IntegrationEvent(r).id = target[r]
         /\ IntegrationEvent(r).email = email[r]
BY SnapshotFacts DEF TypeOK, CommandsTypeOK, IntegrationEvent, Event, Row

(* Type correctness: the committed rows, the outbox and the requests stay  *)
(* in their sets through every call, failure and crash.                    *)
THEOREM PostgresTypeCorrect == Spec => []TypeOK
<1>1. Init => TypeOK
  <2> SUFFICES ASSUME Init PROVE TypeOK
    OBVIOUS
  <2>1. announced \in Seq(Event) /\ Absent \in Row
    BY DEF Init, CommandsInit, Absent, Row
  <2> QED BY <2>1 DEF Init, CommandsInit, TypeOK, CommandsTypeOK
<1>2. TypeOK /\ [Next]_vars => TypeOK'
  <2> SUFFICES ASSUME TypeOK, [Next]_vars PROVE TypeOK'
    OBVIOUS
  <2> USE DEF TypeOK, CommandsTypeOK
  <2>1. ASSUME NEW r \in Requests, NEW e \in Emails, Begin(r, e), UNCHANGED faults PROVE TypeOK'
    BY <2>1 DEF Begin
  <2>2. ASSUME NEW r \in Requests, Load(r), UNCHANGED faults PROVE TypeOK'
    BY <2>2 DEF Load, FindByID
  <2>3. ASSUME NEW r \in Requests, EnsureAvailable(r, ExistsByEmail(email[r])), UNCHANGED faults
        PROVE TypeOK'
    BY <2>3 DEF EnsureAvailable, request
  <2>4. ASSUME NEW r \in Requests, PublishEvents(r, "commit"), UNCHANGED faults PROVE TypeOK'
    BY <2>4, EventFacts, AppendProperties DEF PublishEvents, request
  <2>5. ASSUME NEW r \in Requests, Save(r) PROVE TypeOK'
    BY <2>5 DEF Save, LockRow, InsertEntry, request
  <2>6. ASSUME NEW r \in Requests, Commit(r) \/ CommitFails(r) PROVE TypeOK'
    <3>1. [rows EXCEPT ![target[r]] = Snapshot(r)] \in [Creates -> Row]
      BY SnapshotFacts
    <3>2. CASE Commit(r)
      BY <3>1, <3>2 DEF Commit, request
    <3>3. CASE CommitFails(r)
      BY <3>1, <3>3 DEF CommitFails, request
    <3> QED BY <2>6, <3>2, <3>3
  <2>7. ASSUME NEW r \in Requests, QueryFails(r) PROVE TypeOK'
    BY <2>7 DEF QueryFails, request
  <2>8. CASE Crash
    <3>1. announced' \in Seq(Event)
      BY <2>8, SubSeqProperties DEF Crash
    <3>2. pc' \in [Requests -> States]
      BY <2>8 DEF Crash, States
    <3> QED BY <2>8, <3>1, <3>2 DEF Crash, request, States
  <2>9. CASE UNCHANGED vars
    BY <2>9 DEF vars
  <2> QED BY <2>1, <2>2, <2>3, <2>4, <2>5, <2>6, <2>7, <2>8, <2>9 DEF Next, RequestStep
<1> QED BY <1>1, <1>2, PTL DEF Spec

-----------------------------------------------------------------------------
(* The rows and the locks. *)

(* The transaction of r commits, whatever it hears of it. *)
Writes(r) ==
  /\ pc[r] = "commit"
  /\ rows' = [rows EXCEPT ![target[r]] = Snapshot(r)]
  /\ pc' \in {[pc EXCEPT ![r] = "done"], [pc EXCEPT ![r] = "failed"]}
  /\ UNCHANGED request

LEMMA WrittenRow ==
  ASSUME PInv, NEW r \in Requests, Writes(r)
  PROVE  /\ target[r] \in Creates /\ seen[r] = rows[target[r]]
         /\ rows'[target[r]] = Snapshot(r)
         /\ \A i \in Creates \ {target[r]} : rows'[i] = rows[i]
         /\ \A i \in Creates : rows[i].email # email[r]
         /\ email[r] \in Emails
<1>1. pc[r] = "commit" /\ HasRow(r) /\ HasEntry(r)
  BY DEF Writes, HasRow, HasEntry
<1>2. seen[r] = rows[target[r]] /\ \A i \in Creates \ {target[r]} : rows[i].email # email[r]
  BY <1>1 DEF PInv, Locks, RowsHeld, EntriesHeld
<1>3. email[r] \in Emails /\ email[r] # seen[r].email
  BY <1>1 DEF PInv, SeenSound, Loaded
<1> QED BY <1>2, <1>3, TypeFacts DEF PInv, Writes

LEMMA WritesKeep ==
  ASSUME PInv, NEW r \in Requests, Writes(r)
  PROVE  RowsSound' /\ SeenSound' /\ Locks' /\ EmailIdentifiesOne'
<1>1. /\ UNCHANGED <<target, email, seen>>
      /\ \A q \in Requests \ {r} : pc'[q] = pc[q]
      /\ pc'[r] \in {"done", "failed"} /\ pc[r] = "commit"
  BY TypeFacts DEF Writes, request, PInv
<1>2. /\ rows'[target[r]].version = rows[target[r]].version + 1
      /\ rows'[target[r]].email = email[r]
      /\ \A i \in Creates : rows[i].version \in Nat
      /\ \A q \in Requests : seen[q].version \in Nat /\ target[q] \in Creates
  BY WrittenRow, SnapshotFacts, TypeFacts DEF PInv
<1>3. RowsSound'
  BY <1>2, WrittenRow DEF PInv, RowsSound
<1>4. SeenSound'
  BY <1>1, <1>2, WrittenRow DEF PInv, SeenSound, Loaded
<1>5. \A q \in Requests : (HasRow(q)' => q # r /\ HasRow(q)) /\ (HasEntry(q)' => q # r /\ HasEntry(q))
  BY <1>1 DEF HasRow, HasEntry
<1>6. HasRow(r) /\ HasEntry(r)
  BY <1>1 DEF HasRow, HasEntry
<1>7. RowsHeld'
  <2> SUFFICES ASSUME NEW q \in Requests, HasRow(q)'
               PROVE  /\ seen[q] = rows'[target[q]]
                      /\ \A p \in Requests \ {q} : HasRow(p)' => target[p] # target[q]
    BY <1>1 DEF RowsHeld
  <2>1. /\ seen[q] = rows[target[q]]
        /\ \A p \in Requests \ {q} : HasRow(p) => target[p] # target[q]
    BY <1>5 DEF PInv, Locks, RowsHeld
  <2>2. target[q] # target[r]
    BY <1>5, <1>6, <2>1
  <2> QED BY <1>2, <1>5, <2>1, <2>2, WrittenRow
<1>8. EntriesHeld'
  <2> SUFFICES ASSUME NEW q \in Requests, HasEntry(q)'
               PROVE  /\ \A i \in Creates \ {target[q]} : rows'[i].email # email[q]
                      /\ \A p \in Requests \ {q} : HasEntry(p)' => email[p] # email[q]
    BY <1>1 DEF EntriesHeld
  <2>1. /\ \A i \in Creates \ {target[q]} : rows[i].email # email[q]
        /\ \A p \in Requests \ {q} : HasEntry(p) => email[p] # email[q]
    BY <1>5 DEF PInv, Locks, EntriesHeld
  <2>2. email[q] # email[r]
    BY <1>5, <1>6, <2>1
  <2> QED BY <1>2, <1>5, <2>1, <2>2, WrittenRow
<1>9. EmailIdentifiesOne'
  BY <1>2, WrittenRow DEF PInv, EmailIdentifiesOne
<1> QED BY <1>3, <1>4, <1>7, <1>8, <1>9 DEF Locks

(* The upsert takes the row: who gets it has loaded it as it is. *)
LEMMA LockRowKeeps ==
  ASSUME PInv, NEW r \in Requests, LockRow(r)
  PROVE  SeenSound' /\ Locks' /\ UNCHANGED rows
<1>1. /\ UNCHANGED <<rows, target, email, seen>> /\ pc[r] = "save"
      /\ \A q \in Requests \ {r} : pc'[q] = pc[q]
      /\ pc'[r] = "failed" \/ (pc'[r] = "index" /\ VersionGuard(r))
  BY TypeFacts DEF LockRow, request, PInv
<1>2. SeenSound'
  BY <1>1 DEF PInv, SeenSound, Loaded
<1>3. /\ \A q \in Requests : HasEntry(q)' => HasEntry(q)
      /\ \A q \in Requests \ {r} : HasRow(q)' => HasRow(q)
  BY <1>1 DEF HasRow, HasEntry
<1>4. EntriesHeld'
  BY <1>1, <1>3 DEF PInv, Locks, EntriesHeld
<1>5. HasRow(r)' => seen[r] = rows[target[r]]
  <2> SUFFICES ASSUME VersionGuard(r) PROVE seen[r] = rows[target[r]]
    BY <1>1 DEF HasRow
  <2>1. rows[target[r]].version < seen[r].version + 1
    BY SnapshotFacts DEF VersionGuard, PInv
  <2>2. /\ seen[r].version <= rows[target[r]].version
        /\ seen[r].version = rows[target[r]].version => seen[r] = rows[target[r]]
    BY <1>1 DEF PInv, SeenSound, Loaded
  <2> QED BY <2>1, <2>2, TypeFacts DEF PInv
<1>6. \A q \in Requests \ {r} : HasRow(q) => target[q] # target[r]
  BY DEF LockRow
<1>7. RowsHeld'
  <2> SUFFICES ASSUME NEW q \in Requests, HasRow(q)'
               PROVE  /\ seen[q] = rows[target[q]]
                      /\ \A p \in Requests \ {q} : HasRow(p)' => target[p] # target[q]
    BY <1>1 DEF RowsHeld
  <2>1. CASE q = r
    BY <1>3, <1>5, <1>6, <2>1
  <2>2. CASE q # r
    BY <1>3, <1>6, <2>2 DEF PInv, Locks, RowsHeld
  <2> QED BY <2>1, <2>2
<1> QED BY <1>1, <1>2, <1>4, <1>7 DEF Locks

(* It enters its address: nobody has it, committed or not. *)
LEMMA InsertEntryKeeps ==
  ASSUME PInv, NEW r \in Requests, InsertEntry(r)
  PROVE  SeenSound' /\ Locks' /\ UNCHANGED rows
<1>1. /\ UNCHANGED <<rows, target, email, seen>> /\ pc[r] = "index"
      /\ \A q \in Requests \ {r} : pc'[q] = pc[q]
      /\ pc'[r] = "failed" \/ (pc'[r] = "publish" /\ ~UniqueViolation(r))
  BY TypeFacts DEF InsertEntry, request, PInv
<1>2. SeenSound'
  BY <1>1 DEF PInv, SeenSound, Loaded
<1>3. /\ \A q \in Requests : HasRow(q)' => HasRow(q)
      /\ \A q \in Requests \ {r} : HasEntry(q)' => HasEntry(q)
  BY <1>1 DEF HasRow, HasEntry
<1>4. RowsHeld'
  BY <1>1, <1>3 DEF PInv, Locks, RowsHeld
<1>5. HasEntry(r)' => \A i \in Creates \ {target[r]} : rows[i].email # email[r]
  BY <1>1 DEF HasEntry, UniqueViolation
<1>6. \A q \in Requests \ {r} : HasEntry(q) => email[q] # email[r]
  BY DEF InsertEntry, EntryWaitsFor
<1>7. EntriesHeld'
  <2> SUFFICES ASSUME NEW q \in Requests, HasEntry(q)'
               PROVE  /\ \A i \in Creates \ {target[q]} : rows[i].email # email[q]
                      /\ \A p \in Requests \ {q} : HasEntry(p)' => email[p] # email[q]
    BY <1>1 DEF EntriesHeld
  <2>1. CASE q = r
    BY <1>3, <1>5, <1>6, <2>1
  <2>2. CASE q # r
    BY <1>3, <1>6, <2>2 DEF PInv, Locks, EntriesHeld
  <2> QED BY <2>1, <2>2
<1> QED BY <1>1, <1>2, <1>4, <1>7 DEF Locks

LEMMA PInvInductive == PInv /\ [Next]_vars => RowsSound' /\ SeenSound' /\ Locks' /\ EmailIdentifiesOne'
<1> SUFFICES ASSUME PInv, [Next]_vars
             PROVE  RowsSound' /\ SeenSound' /\ Locks' /\ EmailIdentifiesOne'
  OBVIOUS
<1>1. ASSUME rows' = rows PROVE RowsSound' /\ EmailIdentifiesOne'
  BY <1>1 DEF PInv, RowsSound, EmailIdentifiesOne
<1>2. ASSUME UNCHANGED rows,
             \A q \in Requests : (HasRow(q)' => HasRow(q)) /\ (HasEntry(q)' => HasEntry(q)),
             \A q \in Requests : HasRow(q) => UNCHANGED <<seen[q], target[q], email[q]>>
      PROVE  Locks'
  <2>1. \A q \in Requests : HasEntry(q) => HasRow(q)
    BY DEF HasRow, HasEntry
  <2>2. RowsHeld'
    BY <1>2 DEF PInv, Locks, RowsHeld
  <2>3. EntriesHeld'
    BY <1>2, <2>1 DEF PInv, Locks, EntriesHeld
  <2> QED BY <2>2, <2>3 DEF Locks
<1>3. TypeOK
  BY DEF PInv
<1>4. ASSUME NEW r \in Requests, NEW e \in Emails, Begin(r, e) PROVE SeenSound' /\ Locks' /\ rows' = rows
  <2>1. e # NoEmail /\ Absent.email = NoEmail
    BY CommandsAssumption DEF Absent
  <2>2. SeenSound'
    BY <1>3, <1>4, <2>1, TypeFacts DEF Begin, PInv, SeenSound, Loaded
  <2>3. Locks'
    BY <1>2, <1>3, <1>4, TypeFacts DEF Begin, HasRow, HasEntry
  <2> QED BY <1>4, <2>2, <2>3 DEF Begin
<1>5. ASSUME NEW r \in Requests, Load(r) PROVE SeenSound' /\ Locks' /\ rows' = rows
  <2>1. SeenSound'
    BY <1>3, <1>5, TypeFacts DEF Load, FindByID, PInv, SeenSound, Loaded
  <2>2. Locks'
    BY <1>2, <1>3, <1>5, TypeFacts DEF Load, HasRow, HasEntry
  <2> QED BY <1>5, <2>1, <2>2 DEF Load
<1>6. ASSUME NEW r \in Requests, UNCHANGED <<rows, target, email, seen>>,
             pc[r] # "idle", NEW s \in States, pc' = [pc EXCEPT ![r] = s],
             s \in Loaded => pc[r] \in Loaded,
             s # "index", s \in {"publish", "commit"} => HasEntry(r), s # "idle"
      PROVE  SeenSound' /\ Locks' /\ rows' = rows
  <2>1. SeenSound'
    BY <1>3, <1>6, TypeFacts DEF PInv, SeenSound
  <2>2. Locks'
    BY <1>2, <1>3, <1>6, TypeFacts DEF HasRow, HasEntry
  <2> QED BY <1>6, <2>1, <2>2
<1>7. ASSUME NEW r \in Requests,
             \/ EnsureAvailable(r, ExistsByEmail(email[r])) \/ PublishEvents(r, "commit")
             \/ QueryFails(r) \/ (CommitFails(r) /\ UNCHANGED rows)
      PROVE  SeenSound' /\ Locks' /\ rows' = rows
  <2> USE DEF request, States, Loaded, HasEntry
  <2>1. CASE EnsureAvailable(r, ExistsByEmail(email[r]))
    <3>1. PICK s \in {"failed", "save"} : pc' = [pc EXCEPT ![r] = s]
      BY <2>1 DEF EnsureAvailable
    <3> QED BY <1>6, <2>1, <3>1 DEF EnsureAvailable
  <2>2. CASE PublishEvents(r, "commit")
    BY <1>6, <2>2 DEF PublishEvents
  <2>3. CASE QueryFails(r)
    BY <1>6, <2>3 DEF QueryFails
  <2>4. CASE CommitFails(r) /\ UNCHANGED rows
    BY <1>6, <2>4 DEF CommitFails
  <2> QED BY <1>7, <2>1, <2>2, <2>3, <2>4
<1>8. ASSUME NEW r \in Requests, Commit(r) \/ (CommitFails(r) /\ ~UNCHANGED rows) PROVE Writes(r)
  BY <1>8 DEF Commit, CommitFails, Writes
<1>9. CASE Crash
  <2>1. /\ UNCHANGED <<rows, target, email, seen>>
        /\ \A q \in Requests : pc'[q] \notin Loaded /\ ~HasRow(q)' /\ ~HasEntry(q)'
                               /\ (pc'[q] = "idle" <=> pc[q] = "idle")
    BY <1>3, <1>9 DEF Crash, request, Loaded, HasRow, HasEntry
  <2>2. SeenSound'
    BY <2>1 DEF PInv, SeenSound
  <2> QED BY <1>1, <1>2, <2>1, <2>2
<1>10. CASE UNCHANGED vars
  <2>1. \A q \in Requests : (HasRow(q)' <=> HasRow(q)) /\ (HasEntry(q)' <=> HasEntry(q))
    BY <1>10 DEF vars, HasRow, HasEntry
  <2>2. SeenSound'
    BY <1>10 DEF PInv, SeenSound, vars
  <2> QED BY <1>1, <1>2, <1>10, <2>1, <2>2 DEF vars
<1>11. ASSUME NEW r \in Requests, Save(r) PROVE SeenSound' /\ Locks' /\ rows' = rows
  BY <1>11, LockRowKeeps, InsertEntryKeeps DEF Save
<1> QED BY <1>1, <1>4, <1>5, <1>7, <1>8, <1>9, <1>10, <1>11, WritesKeep DEF Next, RequestStep

LEMMA InitPInv == Init => RowsSound /\ SeenSound /\ Locks /\ EmailIdentifiesOne
<1> SUFFICES ASSUME Init PROVE RowsSound /\ SeenSound /\ Locks /\ EmailIdentifiesOne
  OBVIOUS
<1>1. /\ \A i \in Creates : rows[i] = Absent
      /\ \A r \in Requests : pc[r] = "idle" /\ seen[r] = Absent /\ target[r] \in Creates
      /\ Absent.version = 0
  BY DEF Init, CommandsInit, Absent
<1> QED BY <1>1 DEF RowsSound, SeenSound, Locks, RowsHeld, EntriesHeld, EmailIdentifiesOne,
                       HasRow, HasEntry, Loaded

LEMMA AlwaysPInv == Spec => []PInv
<1>1. Spec => [](TypeOK /\ RowsSound /\ SeenSound /\ Locks /\ EmailIdentifiesOne)
  <2>1. PInv /\ TypeOK' /\ [Next]_vars => PInv'
    BY PInvInductive DEF PInv
  <2>2. Init /\ TypeOK => PInv
    BY InitPInv DEF PInv
  <2>3. Spec => []PInv
    BY <2>1, <2>2, PostgresTypeCorrect, PTL DEF Spec
  <2> QED BY <2>3, PTL DEF PInv
<1> QED BY <1>1, PTL DEF PInv

(* However checks and saves interleave, and whatever fails, no two         *)
(* customers have one address: the unique index sees what is committed,    *)
(* and the upsert waits for what is not (Save, migration 0001).            *)
THEOREM OneCustomerPerEmail == Spec => []EmailIdentifiesOne
BY AlwaysPInv, PTL DEF PInv

(* Every step on the rows is one whole create or one whole change of the   *)
(* register, made to the version before it (SQL.Within, VersionGuard).     *)
THEOREM PostgresImplementsRegister == Spec => ImplementsRegister
<1>1. Init => Register!Init
  BY DEF Init, CommandsInit, Register!Init
<1>2. PInv /\ [Next]_vars => [Register!Next]_rows
  <2> SUFFICES ASSUME PInv, Next, rows' # rows PROVE Register!Next
    BY DEF vars
  <2>1. PICK r \in Requests : Writes(r)
    BY DEF Next, RequestStep, Begin, Load, EnsureAvailable, PublishEvents, Save, LockRow, InsertEntry, Commit,
           QueryFails, CommitFails, Crash, Writes, request
  <2> DEFINE i == target[r]  e == email[r]
  <2>2. /\ i \in Creates /\ e \in Emails /\ seen[r] = rows[i]
        /\ rows' = [rows EXCEPT ![i] = [email |-> e, version |-> rows[i].version + 1]]
        /\ ~Register!Taken(e)
    <3>1. i \in Creates /\ e \in Emails /\ seen[r] = rows[i]
      BY <2>1, WrittenRow
    <3>2. Snapshot(r) = [email |-> e, version |-> rows[i].version + 1]
      BY <3>1 DEF Snapshot
    <3>3. ~Register!Taken(e)
      BY <2>1, WrittenRow DEF Register!Taken
    <3> QED BY <2>1, <3>1, <3>2, <3>3 DEF Writes
  <2>3. CASE rows[i] = Absent
    <3>1. rows[i].version + 1 = 1
      BY <2>3 DEF Absent
    <3>2. Register!Create(i, e)
      BY <2>2, <2>3, <3>1 DEF Register!Create
    <3> QED BY <2>2, <3>2 DEF Register!Next
  <2>4. CASE rows[i] # Absent
    <3>1. Register!ChangeEmail(i, e)
      BY <2>2, <2>4 DEF Register!ChangeEmail
    <3> QED BY <2>2, <3>1 DEF Register!Next
  <2> QED BY <2>3, <2>4
<1> QED BY <1>1, <1>2, AlwaysPInv, PTL DEF Spec, ImplementsRegister, Register!Spec

-----------------------------------------------------------------------------
(* The order of the events. *)

LastAbout(k) == \A l \in DOMAIN announced : announced[l].id = announced[k].id => l <= k

(* The last event about a customer tells the address of the transaction    *)
(* that is about to commit a change to it, or else the committed one.      *)
EventsTrack ==
  faults = 0 =>
    \A k \in DOMAIN announced : LastAbout(k) =>
       \/ \E r \in Requests :
            pc[r] = "commit" /\ target[r] = announced[k].id /\ announced[k].email = email[r]
       \/ /\ rows[announced[k].id].email = announced[k].email
          /\ \A r \in Requests : pc[r] = "commit" => target[r] # announced[k].id

LEMMA EventsTrackStep == PInv /\ PInv' /\ EventsTrack /\ [Next]_vars => EventsTrack'
<1> SUFFICES ASSUME PInv, PInv', EventsTrack, [Next]_vars, faults' = 0 PROVE EventsTrack'
  BY DEF EventsTrack
<1>1. faults \in Nat /\ TypeOK
  BY TypeFacts DEF PInv
<1>2. ASSUME UNCHANGED <<announced, rows, faults, target>>,
             \A r \in Requests : pc'[r] = "commit" <=> pc[r] = "commit",
             \A r \in Requests : pc[r] = "commit" => email'[r] = email[r]
      PROVE  EventsTrack'
  BY <1>2 DEF EventsTrack, LastAbout
<1>3. ASSUME NEW r \in Requests, NEW e \in Emails, Begin(r, e), UNCHANGED faults PROVE EventsTrack'
  BY <1>1, <1>2, <1>3, TypeFacts DEF Begin
<1>4. ASSUME NEW r \in Requests, Load(r), UNCHANGED faults PROVE EventsTrack'
  BY <1>1, <1>2, <1>4, TypeFacts DEF Load
<1>5. ASSUME NEW r \in Requests, EnsureAvailable(r, ExistsByEmail(email[r])), UNCHANGED faults
      PROVE  EventsTrack'
  BY <1>1, <1>2, <1>5, TypeFacts DEF EnsureAvailable, request
<1>6. ASSUME NEW r \in Requests, Save(r) PROVE EventsTrack'
  BY <1>1, <1>2, <1>6, TypeFacts DEF Save, LockRow, InsertEntry, request
<1>7. ASSUME NEW r \in Requests, Commit(r) PROVE EventsTrack'
  <2>1. /\ UNCHANGED <<announced, target, email, faults>> /\ pc[r] = "commit" /\ pc'[r] = "done"
        /\ \A q \in Requests \ {r} : pc'[q] = pc[q]
        /\ Writes(r)
    BY <1>1, <1>7, TypeFacts DEF Commit, request, Writes
  <2>2. rows'[target[r]].email = email[r] /\ \A i \in Creates \ {target[r]} : rows'[i] = rows[i]
    BY <1>1, <2>1, WrittenRow, SnapshotFacts
  <2>3. \A q \in Requests \ {r} : pc[q] = "commit" => target[q] # target[r]
    BY <2>1 DEF PInv, Locks, RowsHeld, HasRow
  <2>4. \A k \in DOMAIN announced : announced[k].id \in Creates
    <3>1. announced \in Seq(Event)
      BY <1>1, TypeFacts
    <3>2. \A k \in DOMAIN announced : announced[k] \in Event
      BY <3>1, ElementOfSeq, LenProperties
    <3> QED BY <3>2 DEF Event
  <2> SUFFICES ASSUME NEW k \in DOMAIN announced, LastAbout(k)
               PROVE  \/ \E q \in Requests : /\ pc'[q] = "commit" /\ target[q] = announced[k].id
                                             /\ announced[k].email = email[q]
                      \/ /\ rows'[announced[k].id].email = announced[k].email
                         /\ \A q \in Requests : pc'[q] = "commit" => target[q] # announced[k].id
    BY <2>1 DEF EventsTrack, LastAbout
  <2>5. \/ \E q \in Requests : /\ pc[q] = "commit" /\ target[q] = announced[k].id
                                /\ announced[k].email = email[q]
        \/ /\ rows[announced[k].id].email = announced[k].email
           /\ \A q \in Requests : pc[q] = "commit" => target[q] # announced[k].id
    BY <2>1 DEF EventsTrack
  <2>6. CASE target[r] = announced[k].id
    BY <2>1, <2>2, <2>3, <2>5, <2>6
  <2>7. CASE target[r] # announced[k].id
    BY <2>1, <2>2, <2>4, <2>5, <2>7
  <2> QED BY <2>6, <2>7
<1>8. ASSUME NEW r \in Requests, PublishEvents(r, "commit"), UNCHANGED faults PROVE EventsTrack'
  <2> DEFINE ev == IntegrationEvent(r)
  <2>1. /\ UNCHANGED <<rows, target, email, faults>> /\ pc[r] = "publish" /\ pc'[r] = "commit"
        /\ \A q \in Requests \ {r} : pc'[q] = pc[q]
        /\ announced' = Append(announced, ev)
    BY <1>1, <1>8, TypeFacts DEF PublishEvents, request
  <2>2. ev.id = target[r] /\ ev.email = email[r]
    BY <1>1, EventFacts
  <2>3. /\ Len(announced) \in Nat /\ DOMAIN announced = 1 .. Len(announced)
        /\ DOMAIN announced' = 1 .. Len(announced) + 1
        /\ announced'[Len(announced) + 1] = ev
        /\ \A k \in DOMAIN announced : announced'[k] = announced[k]
    BY <1>1, <2>1, TypeFacts, EventFacts, AppendProperties, LenProperties
  <2>4. \A q \in Requests \ {r} : pc[q] = "commit" => target[q] # target[r]
    BY <2>1 DEF PInv, Locks, RowsHeld, HasRow
  <2> HIDE DEF ev
  <2> SUFFICES ASSUME NEW k \in DOMAIN announced', LastAbout(k)'
               PROVE  \/ \E q \in Requests : /\ pc'[q] = "commit" /\ target[q] = announced'[k].id
                                             /\ announced'[k].email = email[q]
                      \/ /\ rows[announced'[k].id].email = announced'[k].email
                         /\ \A q \in Requests : pc'[q] = "commit" => target[q] # announced'[k].id
    BY <2>1 DEF EventsTrack
  <2>5. CASE k = Len(announced) + 1
    BY <2>1, <2>2, <2>3, <2>5
  <2>6. CASE k # Len(announced) + 1
    <3>1. k \in DOMAIN announced /\ announced'[k] = announced[k]
      BY <2>3, <2>6
    <3>2. announced[k].id # target[r]
      BY <2>2, <2>3, <3>1 DEF LastAbout
    <3>3. LastAbout(k)
      BY <2>3, <3>1 DEF LastAbout
    <3>4. \/ \E q \in Requests : /\ pc[q] = "commit" /\ target[q] = announced[k].id
                                  /\ announced[k].email = email[q]
          \/ /\ rows[announced[k].id].email = announced[k].email
             /\ \A q \in Requests : pc[q] = "commit" => target[q] # announced[k].id
      BY <2>1, <3>1, <3>3 DEF EventsTrack
    <3> QED BY <2>1, <3>1, <3>2, <3>4
  <2> QED BY <2>5, <2>6
<1>9. CASE Crash \/ \E r \in Requests : QueryFails(r) \/ CommitFails(r)
  <2>1. faults' = faults + 1
    BY <1>9 DEF Crash, QueryFails, CommitFails
  <2> QED BY <1>1, <2>1
<1>10. CASE UNCHANGED vars
  BY <1>2, <1>10 DEF vars
<1> QED BY <1>3, <1>4, <1>5, <1>6, <1>7, <1>8, <1>9, <1>10 DEF Next, RequestStep

(* Until a first fault, the events about a customer end with its current   *)
(* address: its row is locked from the Save past Publish to the commit.    *)
THEOREM EventsInOrder == Spec => []EventsEndCurrent
<1>1. Init => EventsTrack
  BY DEF Init, CommandsInit, EventsTrack
<1>2. EventsTrack => EventsEndCurrent
  <2> SUFFICES ASSUME EventsTrack, faults = 0, Finished, NEW k \in DOMAIN announced, LastAbout(k)
               PROVE  rows[announced[k].id].email = announced[k].email
    BY DEF EventsEndCurrent, LastEventIsCurrent, LastAbout
  <2>1. \A r \in Requests : pc[r] # "commit"
    BY DEF Finished
  <2> QED BY <2>1 DEF EventsTrack
<1> QED BY <1>1, <1>2, EventsTrackStep, AlwaysPInv, PTL DEF Spec
=============================================================================
