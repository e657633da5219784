----------------------- MODULE MemoryCustomersProofs -----------------------
(***************************************************************************)
(* What holds of the in-memory profile for any customers, any number of    *)
(* concurrent changes and any addresses.  IndexSound is inductive; that    *)
(* every version is announced needs SeenWasWritten, which keeps a request  *)
(* from skipping a version.                                                *)
(***************************************************************************)
EXTENDS MemoryCustomers, TLAPS

(* What a request has loaded was written, so its Save adds at most one     *)
(* version to those of the customer.                                       *)
SeenWasWritten ==
  \A r \in Requests :
     pc[r] \in {"idle", "check", "save", "publish"} => seen[r].version <= rows[target[r]].version

(* The next state of the variables of one request. *)
LEMMA SnapshotType ==
  ASSUME TypeOK, NEW r \in Requests
  PROVE  /\ Snapshot(r) \in Row
         /\ Snapshot(r).version = seen[r].version + 1
         /\ seen[r] \in Row
         /\ rows[target[r]] \in Row
         /\ target[r] \in Creates
  BY DEF TypeOK, CommandsTypeOK, Snapshot, Row

(* Appending an event keeps those announced before it. *)
LEMMA AnnouncedAppend ==
  ASSUME announced \in Seq(Event), NEW ev \in Event
  PROVE  /\ Append(announced, ev) \in Seq(Event)
         /\ Len(announced) + 1 \in DOMAIN Append(announced, ev)
         /\ Append(announced, ev)[Len(announced) + 1] = ev
         /\ \A k \in DOMAIN announced :
              k \in DOMAIN Append(announced, ev) /\ Append(announced, ev)[k] = announced[k]
  OBVIOUS

LEMMA EventType ==
  ASSUME TypeOK, NEW r \in Requests
  PROVE  IntegrationEvent(r) \in Event
  BY SnapshotType DEF TypeOK, CommandsTypeOK, IntegrationEvent, Snapshot, Event, Row

(* Type correctness: the maps of the repository and the requests' local    *)
(* variables stay in their sets through every call.                        *)
THEOREM MemoryTypeCorrect == Spec => []TypeOK
<1>1. Init => TypeOK
  <2> SUFFICES ASSUME Init PROVE TypeOK
    OBVIOUS
  <2>1. announced \in Seq(Event)
    BY DEF Init, CommandsInit
  <2>2. Absent \in Row
    BY DEF Absent, Row
  <2> QED BY <2>1, <2>2 DEF Init, CommandsInit, TypeOK, CommandsTypeOK
<1>2. TypeOK /\ [Next]_vars => TypeOK'
  <2> SUFFICES ASSUME TypeOK, [Next]_vars PROVE TypeOK'
    OBVIOUS
  <2> USE DEF TypeOK, CommandsTypeOK
  <2>1. ASSUME NEW r \in Requests, NEW e \in Emails, Begin(r, e), UNCHANGED byEmail PROVE TypeOK'
    BY <2>1 DEF Begin
  <2>2. ASSUME NEW r \in Requests, Load(r), UNCHANGED byEmail PROVE TypeOK'
    BY <2>2, SnapshotType DEF Load, FindByID
  <2>3. ASSUME NEW r \in Requests, EnsureAvailable(r, ExistsByEmail(email[r])), UNCHANGED byEmail
        PROVE TypeOK'
    BY <2>3 DEF EnsureAvailable, request
  <2>4. ASSUME NEW r \in Requests, PublishEvents(r, "done"), UNCHANGED byEmail PROVE TypeOK'
    BY <2>4, AnnouncedAppend, EventType DEF PublishEvents, request
  <2>5. ASSUME NEW r \in Requests, Save(r) PROVE TypeOK'
    <3> DEFINE snap == Snapshot(r)
    <3>1. snap \in Row /\ target[r] \in Creates
      BY SnapshotType
    <3>2. [rows EXCEPT ![target[r]] = snap] \in [Creates -> Row]
      BY <3>1
    <3>3. Reindex(target[r], rows[target[r]], snap.email) \in [Emails -> Creates \cup {NoCustomer}]
      BY <3>1 DEF Reindex
    <3> HIDE DEF snap
    <3> QED BY <2>5, <3>2, <3>3 DEF Save, request, snap
  <2>6. CASE UNCHANGED vars
    BY <2>6 DEF vars
  <2> QED BY <2>1, <2>2, <2>3, <2>4, <2>5, <2>6 DEF Next, RequestStep
<1> QED BY <1>1, <1>2, PTL DEF Spec

-----------------------------------------------------------------------------
(* The repository. *)

(* What Save does, if it does not refuse. *)
LEMMA SaveEffect ==
  ASSUME TypeOK, NEW r \in Requests, Save(r)
  PROVE  \/ /\ rows' = [rows EXCEPT ![target[r]] = Snapshot(r)]
            /\ byEmail' = Reindex(target[r], rows[target[r]], Snapshot(r).email)
            /\ rows[target[r]].version <= Snapshot(r).version
            /\ pc' = [pc EXCEPT ![r] = "publish"]
         \/ rows' = rows /\ byEmail' = byEmail /\ pc' = [pc EXCEPT ![r] = "failed"]
  BY SnapshotType DEF Save, Accepts, Row

(* The index never names a customer with another address, whatever races   *)
(* precede a Save (memory/repository.go Save).                             *)
THEOREM IndexStaysSound == Spec => []IndexSound
<1>1. Init => IndexSound
  BY DEF Init, IndexSound, ExistsByEmail
<1>2. TypeOK /\ IndexSound /\ [Next]_vars => IndexSound'
  <2> SUFFICES ASSUME TypeOK, IndexSound, [Next]_vars PROVE IndexSound'
    OBVIOUS
  <2>1. ASSUME NEW r \in Requests, Save(r) PROVE IndexSound'
    <3> DEFINE i == target[r]
    <3>1. CASE rows' = rows /\ byEmail' = byEmail
      BY <3>1 DEF IndexSound, ExistsByEmail
    <3>2. CASE /\ rows' = [rows EXCEPT ![i] = Snapshot(r)]
               /\ byEmail' = Reindex(i, rows[i], Snapshot(r).email)
      <4> SUFFICES ASSUME NEW e \in Emails, byEmail'[e] # NoCustomer
                   PROVE  rows'[byEmail'[e]].email = e
        BY DEF IndexSound, ExistsByEmail
      <4>1. i \in Creates
        BY SnapshotType
      <4>2. rows \in [Creates -> Row] /\ byEmail \in [Emails -> Creates \cup {NoCustomer}]
        BY DEF TypeOK, CommandsTypeOK
      <4>3. CASE e = Snapshot(r).email
        BY <3>2, <4>1, <4>2, <4>3 DEF Reindex
      <4>4. CASE e # Snapshot(r).email
        <5>1. e # rows[i].email /\ byEmail'[e] = byEmail[e]
          BY <3>2, <4>4 DEF Reindex
        <5>2. rows[byEmail[e]].email = e
          BY <5>1 DEF IndexSound, ExistsByEmail
        <5> QED BY <3>2, <4>2, <5>1, <5>2
      <4> QED BY <4>3, <4>4
    <3> QED BY <2>1, <3>1, <3>2, SaveEffect
  <2>2. CASE UNCHANGED <<rows, byEmail>>
    BY <2>2 DEF IndexSound, ExistsByEmail
  <2> QED
    BY <2>1, <2>2 DEF Next, RequestStep, Begin, Load, EnsureAvailable, PublishEvents, vars
<1> QED BY <1>1, <1>2, MemoryTypeCorrect, PTL DEF Spec

(* No Save takes a customer back to an older version (Save's comparison).  *)
THEOREM VersionsOnlyGrow == Spec => VersionsNeverGoBack
<1>1. TypeOK /\ [Next]_vars => [\A i \in Creates : rows'[i].version >= rows[i].version]_vars
  <2> SUFFICES ASSUME TypeOK, Next, NEW i \in Creates
               PROVE  rows'[i].version >= rows[i].version
    OBVIOUS
  <2>1. rows[i] \in Row
    BY DEF TypeOK, CommandsTypeOK
  <2>2. ASSUME NEW r \in Requests, Save(r) PROVE rows'[i].version >= rows[i].version
    <3>1. /\ Snapshot(r).version \in Nat
          /\ rows \in [Creates -> Row]
      BY SnapshotType DEF TypeOK, CommandsTypeOK, Row
    <3>2. \/ rows' = rows
          \/ /\ rows' = [rows EXCEPT ![target[r]] = Snapshot(r)]
             /\ rows[target[r]].version <= Snapshot(r).version
      BY <2>2, SaveEffect
    <3>3. rows[i].version \in Nat
      BY <2>1 DEF Row
    <3> QED BY <3>1, <3>2, <3>3
  <2>3. CASE UNCHANGED rows
    BY <2>1, <2>3 DEF Row
  <2> QED BY <2>2, <2>3 DEF Next, RequestStep, Begin, Load, EnsureAvailable, PublishEvents
<1> QED BY <1>1, MemoryTypeCorrect, PTL DEF Spec, VersionsNeverGoBack

-----------------------------------------------------------------------------
(* The announcements. *)

(* What EveryVersionAnnounced asks of one version. *)
Announced(i, v) == \E k \in DOMAIN announced : announced[k].id = i /\ announced[k].version = v
Announces(r, i, v) == pc[r] = "publish" /\ target[r] = i /\ seen[r].version + 1 = v

(* No step lets a request fall behind in this sense.                       *)
LEMMA SeenStep == TypeOK /\ SeenWasWritten /\ [Next]_vars => SeenWasWritten'
<1> SUFFICES ASSUME TypeOK, SeenWasWritten, [Next]_vars, NEW q \in Requests,
                    pc'[q] \in {"idle", "check", "save", "publish"}
             PROVE  seen'[q].version <= rows'[target'[q]].version
  BY DEF SeenWasWritten
<1>1. /\ pc \in [Requests -> {"idle", "load", "check", "save", "index", "publish", "commit", "done", "failed"}]
      /\ rows \in [Creates -> Row] /\ seen \in [Requests -> Row] /\ target[q] \in Creates
      /\ seen[q].version \in Nat /\ rows[target[q]].version \in Nat
  BY SnapshotType DEF TypeOK, CommandsTypeOK, Row
<1>2. pc[q] \in {"idle", "check", "save", "publish"} => seen[q].version <= rows[target[q]].version
  BY DEF SeenWasWritten
<1>3. ASSUME NEW r \in Requests, NEW e \in Emails, Begin(r, e)
      PROVE  seen'[q].version <= rows'[target'[q]].version
  BY <1>1, <1>2, <1>3 DEF Begin
<1>4. ASSUME NEW r \in Requests, Load(r)
      PROVE  seen'[q].version <= rows'[target'[q]].version
  BY <1>1, <1>2, <1>4 DEF Load, FindByID
<1>5. ASSUME NEW r \in Requests, EnsureAvailable(r, ExistsByEmail(email[r]))
      PROVE  seen'[q].version <= rows'[target'[q]].version
  BY <1>1, <1>2, <1>5 DEF EnsureAvailable, request
<1>6. ASSUME NEW r \in Requests, PublishEvents(r, "done")
      PROVE  seen'[q].version <= rows'[target'[q]].version
  BY <1>1, <1>2, <1>6 DEF PublishEvents, request
<1>7. ASSUME NEW r \in Requests, Save(r)
      PROVE  seen'[q].version <= rows'[target'[q]].version
  <2>1. seen' = seen /\ target' = target /\ pc[r] = "save"
    BY <1>7 DEF Save, request
  <2>2. pc[q] \in {"idle", "check", "save", "publish"}
    BY <1>1, <1>7, <2>1 DEF Save
  <2>3. rows'[target[q]].version >= rows[target[q]].version
    <3>1. Snapshot(r).version \in Nat
      BY SnapshotType DEF Row
    <3>2. \/ rows' = rows
          \/ /\ rows' = [rows EXCEPT ![target[r]] = Snapshot(r)]
             /\ rows[target[r]].version <= Snapshot(r).version
      BY <1>7, SaveEffect
    <3> QED BY <1>1, <3>1, <3>2
  <2>4. rows'[target[q]].version \in Nat
    <3>1. Snapshot(r).version \in Nat
      BY SnapshotType DEF Row
    <3>2. rows' = rows \/ rows' = [rows EXCEPT ![target[r]] = Snapshot(r)]
      BY <1>7, SaveEffect
    <3> QED BY <1>1, <3>1, <3>2
  <2> QED BY <1>1, <1>2, <2>1, <2>2, <2>3, <2>4
<1>8. CASE UNCHANGED vars
  BY <1>2, <1>8 DEF vars
<1> QED BY <1>3, <1>4, <1>5, <1>6, <1>7, <1>8 DEF Next, RequestStep

(* Every version has its event, or the request that wrote it is about to   *)
(* publish it (create_customer.go and change_email.go: Save, then Publish).*)
THEOREM VersionsAreAnnounced == Spec => []EveryVersionAnnounced
<1>1. Init => SeenWasWritten /\ EveryVersionAnnounced
  <2> SUFFICES ASSUME Init PROVE SeenWasWritten /\ EveryVersionAnnounced
    OBVIOUS
  <2>1. \A i \in Creates : rows[i].version = 0
    BY DEF Init, CommandsInit, Absent
  <2>2. \A r \in Requests : seen[r].version = 0 /\ target[r] \in Creates
    BY DEF Init, CommandsInit, Absent
  <2>3. 1 .. 0 = {}
    OBVIOUS
  <2> QED BY <2>1, <2>2, <2>3 DEF SeenWasWritten, EveryVersionAnnounced
<1>2. TypeOK /\ SeenWasWritten /\ EveryVersionAnnounced /\ [Next]_vars => EveryVersionAnnounced'
  <2> SUFFICES ASSUME TypeOK, SeenWasWritten, EveryVersionAnnounced, [Next]_vars,
                      NEW i \in Creates, NEW v \in 1 .. rows'[i].version
               PROVE  Announced(i, v)' \/ \E r \in Requests : Announces(r, i, v)'
    BY DEF EveryVersionAnnounced, Announced, Announces
  <2>1. /\ rows \in [Creates -> Row] /\ seen \in [Requests -> Row]
        /\ pc \in [Requests -> {"idle", "load", "check", "save", "index", "publish", "commit", "done", "failed"}]
        /\ announced \in Seq(Event)
        /\ rows[i].version \in Nat
    BY DEF TypeOK, CommandsTypeOK, Row
  <2>2. v \in 1 .. rows[i].version =>
          Announced(i, v) \/ \E r \in Requests : Announces(r, i, v)
    BY DEF EveryVersionAnnounced, Announced, Announces
  <2>3. ASSUME NEW r \in Requests, Save(r)
        PROVE  Announced(i, v)' \/ \E q \in Requests : Announces(q, i, v)'
    <3>1. /\ seen' = seen /\ target' = target /\ announced' = announced
          /\ pc[r] = "save"
      BY <2>3 DEF Save, request
    <3>2. \A q \in Requests : pc[q] = "publish" => pc'[q] = "publish"
      BY <2>1, <2>3, <3>1 DEF Save
    <3>3. CASE v \in 1 .. rows[i].version
      BY <2>2, <3>1, <3>2, <3>3 DEF Announced, Announces
    <3>4. CASE v \notin 1 .. rows[i].version
      <4>1. /\ rows' = [rows EXCEPT ![target[r]] = Snapshot(r)]
            /\ pc' = [pc EXCEPT ![r] = "publish"]
        BY <2>3, <3>4, SaveEffect
      <4>2. i = target[r]
        BY <2>1, <3>4, <4>1
      <4>3. rows'[i].version = seen[r].version + 1
        BY <2>1, <4>1, <4>2, SnapshotType
      <4>4. seen[r].version <= rows[i].version /\ seen[r].version \in Nat
        BY <2>1, <3>1, <4>2, SnapshotType DEF SeenWasWritten, Row
      <4>5. v = seen[r].version + 1
        BY <2>1, <3>4, <4>3, <4>4
      <4>6. pc'[r] = "publish"
        BY <2>1, <4>1
      <4> QED BY <3>1, <4>2, <4>5, <4>6 DEF Announces
    <3> QED BY <3>3, <3>4
  <2>4. ASSUME NEW r \in Requests, PublishEvents(r, "done")
        PROVE  Announced(i, v)' \/ \E q \in Requests : Announces(q, i, v)'
    <3>1. /\ rows' = rows /\ seen' = seen /\ target' = target
          /\ announced' = Append(announced, IntegrationEvent(r))
          /\ pc' = [pc EXCEPT ![r] = "done"]
      BY <2>4 DEF PublishEvents, request
    <3>2. Announced(i, v) => Announced(i, v)'
      BY <2>1, <3>1, AnnouncedAppend, EventType DEF Announced
    <3>3. Announces(r, i, v) => Announced(i, v)'
      <4>1. Announces(r, i, v) => IntegrationEvent(r).id = i /\ IntegrationEvent(r).version = v
        BY SnapshotType DEF Announces, IntegrationEvent
      <4>2. Append(announced, IntegrationEvent(r))[Len(announced) + 1] = IntegrationEvent(r)
        BY <2>1, AnnouncedAppend, EventType
      <4>3. Len(announced) + 1 \in DOMAIN Append(announced, IntegrationEvent(r))
        BY <2>1, AnnouncedAppend, EventType
      <4> QED BY <3>1, <4>1, <4>2, <4>3 DEF Announced
    <3>4. \A q \in Requests \ {r} : Announces(q, i, v) => Announces(q, i, v)'
      BY <2>1, <3>1 DEF Announces
    <3> QED BY <2>2, <3>1, <3>2, <3>3, <3>4
  <2>5. ASSUME NEW r \in Requests, pc[r] # "publish",
               /\ rows' = rows /\ announced' = announced /\ target' = target
               /\ \A q \in Requests \ {r} : pc'[q] = pc[q] /\ seen'[q] = seen[q]
        PROVE  Announced(i, v)' \/ \E q \in Requests : Announces(q, i, v)'
    BY <2>2, <2>5 DEF Announced, Announces
  <2>6. ASSUME NEW r \in Requests, NEW e \in Emails, Begin(r, e)
        PROVE  Announced(i, v)' \/ \E q \in Requests : Announces(q, i, v)'
    BY <2>1, <2>5, <2>6 DEF Begin
  <2>7. ASSUME NEW r \in Requests, Load(r)
        PROVE  Announced(i, v)' \/ \E q \in Requests : Announces(q, i, v)'
    BY <2>1, <2>5, <2>7 DEF Load
  <2>8. ASSUME NEW r \in Requests, EnsureAvailable(r, ExistsByEmail(email[r]))
        PROVE  Announced(i, v)' \/ \E q \in Requests : Announces(q, i, v)'
    BY <2>1, <2>5, <2>8 DEF EnsureAvailable, request
  <2>9. CASE UNCHANGED vars
    BY <2>2, <2>9 DEF vars, Announced, Announces
  <2> QED BY <2>3, <2>4, <2>6, <2>7, <2>8, <2>9 DEF Next, RequestStep
<1> QED BY <1>1, <1>2, SeenStep, MemoryTypeCorrect, PTL DEF Spec
=============================================================================
