--------------------------- MODULE MigrateProofs ---------------------------
(***************************************************************************)
(* What holds of any number of concurrent runs of cmd/migrate, for any     *)
(* migrations, directories, directions and values of -steps.               *)
(*                                                                         *)
(* NoGaps needs the two conditions that the code leaves to those who add   *)
(* migrations, DirectoriesComplete and TextOrderIsNumeric.                 *)
(***************************************************************************)
EXTENDS Migrate, FiniteSetTheorems, TLAPS

(* What is assumed of the constants. *)
LEMMA AssumptionFacts ==
  /\ Versions \subseteq Seq(0 .. 9)
  /\ IsFiniteSet(Versions)
  /\ \A v \in Versions : Number(v) \in Nat
  /\ \A v, w \in Versions : Number(v) = Number(w) => v = w
  /\ Files \in [Runs -> SUBSET Versions]
  /\ Direction \in [Runs -> {"up", "down"}]
  /\ Steps \in [Runs -> Int]
BY MigrateAssumption

(* Type correctness, for every step of every run. *)
THEOREM MigrateTypeCorrect == Spec => []TypeOK
<1>1. Init => TypeOK
  <2> SUFFICES ASSUME Init PROVE TypeOK
    OBVIOUS
  <2>1. applied \in [Versions -> Nat] /\ plan \in [Runs -> SUBSET Versions]
    BY DEF Init
  <2>2. pc \in [Runs -> {"new", "apply", "tx", "done", "failed"}]
    BY DEF Init
  <2>3. \A r \in Runs : plan[r] \subseteq Files[r]
    BY DEF Init
  <2> QED BY <2>1, <2>2, <2>3 DEF Init, TypeOK
<1>2. TypeOK /\ [Next]_vars => TypeOK'
  <2> SUFFICES ASSUME TypeOK, [Next]_vars PROVE TypeOK'
    OBVIOUS
  <2> USE DEF TypeOK
  <2>1. ASSUME NEW r \in Runs, Load(r) PROVE TypeOK'
    <3>1. Plan(r) \subseteq Files[r] /\ Files[r] \subseteq Versions
      BY <2>1, AssumptionFacts DEF Load
    <3>2. mixed' \in BOOLEAN
      BY <2>1 DEF Load
    <3> HIDE DEF Plan
    <3> QED BY <2>1, <3>1, <3>2 DEF Load
  <2>2. ASSUME NEW r \in Runs, NEW v \in Versions, Exec(r, v) PROVE TypeOK'
    BY <2>2 DEF Exec
  <2>3. ASSUME NEW r \in Runs, NEW v \in Versions, Commit(r, v) PROVE TypeOK'
    BY <2>3 DEF Commit, Written
  <2>4. ASSUME NEW r \in Runs, NEW v \in Versions, CommitUnknown(r, v) PROVE TypeOK'
    BY <2>4 DEF CommitUnknown, Written
  <2>5. ASSUME NEW r \in Runs, MissingFile(r) PROVE TypeOK'
    BY <2>5 DEF MissingFile
  <2>6. ASSUME NEW r \in Runs, Fails(r) PROVE TypeOK'
    BY <2>6 DEF Fails
  <2>7. CASE UNCHANGED vars
    BY <2>7 DEF vars
  <2> QED BY <2>1, <2>2, <2>3, <2>4, <2>5, <2>6, <2>7 DEF Next
<1> QED BY <1>1, <1>2, PTL DEF Spec

-----------------------------------------------------------------------------
(* The migration a run is at is one. *)

(* Text order is one way only: at the smaller of the two places where the  *)
(* digits are said to differ they do not differ both ways.                 *)
LEMMA TextAsymmetric ==
  ASSUME NEW v \in Versions, NEW w \in Versions, TextBefore(v, w), TextBefore(w, v)
  PROVE  FALSE
<1>1. /\ v \in Seq(0 .. 9) /\ w \in Seq(0 .. 9)
      /\ Len(v) \in Nat /\ Len(w) \in Nat
      /\ \A i \in 1 .. Len(v) : v[i] \in 0 .. 9
      /\ \A i \in 1 .. Len(w) : w[i] \in 0 .. 9
  BY AssumptionFacts
<1>2. PICK k \in 1 .. Len(w) :
        /\ \A i \in 1 .. k - 1 : i <= Len(v) /\ v[i] = w[i]
        /\ k > Len(v) \/ v[k] < w[k]
  BY DEF TextBefore
<1>3. PICK l \in 1 .. Len(v) :
        /\ \A i \in 1 .. l - 1 : i <= Len(w) /\ w[i] = v[i]
        /\ l > Len(w) \/ w[l] < v[l]
  BY DEF TextBefore
<1>4. CASE k < l
  <2>1. k \in 1 .. l - 1 /\ k \in 1 .. Len(v)
    BY <1>1, <1>4
  <2>2. w[k] = v[k] /\ v[k] < w[k]
    BY <1>1, <1>2, <1>3, <2>1
  <2> QED BY <1>1, <2>1, <2>2
<1>5. CASE l < k
  <2>1. l \in 1 .. k - 1 /\ l \in 1 .. Len(w)
    BY <1>1, <1>5
  <2>2. w[l] = v[l] /\ w[l] < v[l]
    BY <1>1, <1>2, <1>3, <2>1
  <2> QED BY <1>1, <2>1, <2>2
<1>6. CASE k = l
  <2>1. k \in 1 .. Len(v) /\ k \in 1 .. Len(w)
    BY <1>1, <1>6
  <2>2. v[k] < w[k] /\ w[k] < v[k]
    BY <1>1, <1>2, <1>3, <1>6
  <2>3. v[k] \in 0 .. 9 /\ w[k] \in 0 .. 9
    BY <1>1, <2>1
  <2> QED BY <2>2, <2>3
<1> QED BY <1>1, <1>4, <1>5, <1>6

(* A run is at one migration at a time. *)
LEMMA CurrentUnique ==
  ASSUME TypeOK, NEW r \in Runs, NEW v \in Versions, NEW w \in Versions,
         Current(r, v), Current(r, w)
  PROVE  v = w
<1> SUFFICES ASSUME v # w PROVE FALSE
  OBVIOUS
<1>1. CASE Direction[r] = "up"
  BY <1>1, AssumptionFacts DEF Current, Before
<1>2. CASE Direction[r] # "up"
  BY <1>2, TextAsymmetric DEF Current
<1> QED BY <1>1, <1>2

-----------------------------------------------------------------------------
(* One version at a time. *)

(* Two open transactions are never about one version, and one that applies *)
(* a version has not found it recorded.                                    *)
OneTransaction ==
  /\ \A q, r \in Runs : \A v \in Versions : q # r /\ BusyWith(q, v) => ~BusyWith(r, v)
  /\ \A r \in Runs : \A v \in Versions :
       BusyWith(r, v) /\ Direction[r] = "up" => v \notin recorded

(* A step of one run leaves the transactions of the others alone. *)
LEMMA BusyAfter ==
  ASSUME TypeOK, NEW r \in Runs,
         \A q \in Runs \ {r} : pc'[q] = pc[q] /\ plan'[q] = plan[q]
  PROVE  \A q \in Runs \ {r} : \A v \in Versions : BusyWith(q, v)' <=> BusyWith(q, v)
BY DEF BusyWith, Current

(* Closing a transaction, or opening none. *)
LEMMA OneTransactionKept ==
  ASSUME TypeOK, OneTransaction, NEW r \in Runs,
         \A q \in Runs \ {r} : pc'[q] = pc[q] /\ plan'[q] = plan[q],
         pc'[r] # "tx",
         NEW v, \A w \in recorded' : w \in recorded \/ (w = v /\ BusyWith(r, v))
  PROVE  OneTransaction'
<1>1. \A q \in Runs \ {r} : \A w \in Versions : BusyWith(q, w)' <=> BusyWith(q, w)
  BY BusyAfter
<1>2. \A w \in Versions : ~BusyWith(r, w)'
  BY DEF BusyWith
<1> QED BY <1>1, <1>2 DEF OneTransaction

LEMMA OneTransactionStep == TypeOK /\ OneTransaction /\ [Next]_vars => OneTransaction'
<1> SUFFICES ASSUME TypeOK, OneTransaction, [Next]_vars PROVE OneTransaction'
  OBVIOUS
<1>0. /\ pc \in [Runs -> {"new", "apply", "tx", "done", "failed"}]
      /\ plan \in [Runs -> SUBSET Versions]
      /\ \A r \in Runs : \A v \in plan[r] : v \in Versions
  BY DEF TypeOK
<1>1. ASSUME NEW r \in Runs, NEW v \in Versions, Exec(r, v) PROVE OneTransaction'
  <2>1. /\ recorded' = recorded /\ plan' = plan
        /\ \A q \in Runs \ {r} : ~BusyWith(q, v) /\ pc'[q] = pc[q]
        /\ Current(r, v)
        /\ pc'[r] = "tx" /\ Direction[r] = "up" => v \notin recorded
    BY <1>0, <1>1 DEF Exec
  <2>2. \A q \in Runs \ {r} : \A w \in Versions : BusyWith(q, w)' <=> BusyWith(q, w)
    BY <2>1, BusyAfter
  <2>3. \A w \in Versions : BusyWith(r, w)' => w = v
    BY <2>1, CurrentUnique DEF BusyWith, Current
  <2>4. \A w \in Versions : BusyWith(r, w)' /\ Direction[r] = "up" => w \notin recorded
    BY <2>1, <2>3 DEF BusyWith
  <2> QED BY <2>1, <2>2, <2>3, <2>4 DEF OneTransaction
<1>2. ASSUME NEW r \in Runs, NEW v \in Versions, Commit(r, v) PROVE OneTransaction'
  <2>1. /\ \A q \in Runs \ {r} : pc'[q] = pc[q] /\ plan'[q] = plan[q]
        /\ pc'[r] # "tx" /\ BusyWith(r, v)
        /\ \A w \in recorded' : w \in recorded \/ w = v
    BY <1>0, <1>2 DEF Commit, Written, BusyWith
  <2> QED BY <2>1, OneTransactionKept
<1>3. ASSUME NEW r \in Runs, NEW v \in Versions, CommitUnknown(r, v) PROVE OneTransaction'
  <2>1. /\ \A q \in Runs \ {r} : pc'[q] = pc[q] /\ plan'[q] = plan[q]
        /\ pc'[r] # "tx" /\ BusyWith(r, v)
        /\ \A w \in recorded' : w \in recorded \/ w = v
    BY <1>0, <1>3 DEF CommitUnknown, Written, BusyWith
  <2> QED BY <2>1, OneTransactionKept
<1>4. ASSUME NEW r \in Runs, Load(r) \/ MissingFile(r) \/ Fails(r) PROVE OneTransaction'
  <2>1. /\ \A q \in Runs \ {r} : pc'[q] = pc[q] /\ plan'[q] = plan[q]
        /\ pc'[r] # "tx"
        /\ recorded' = recorded
    BY <1>0, <1>4 DEF Load, MissingFile, Fails
  <2> QED BY <2>1, OneTransactionKept
<1>5. CASE UNCHANGED vars
  BY <1>5 DEF vars, OneTransaction, BusyWith, Current
<1> QED BY <1>1, <1>2, <1>3, <1>4, <1>5 DEF Next

LEMMA OneTransactionAlways == Spec => []OneTransaction
<1>1. Init => OneTransaction
  BY DEF Init, OneTransaction, BusyWith
<1> QED BY <1>1, OneTransactionStep, MigrateTypeCorrect, PTL DEF Spec

(* Concurrent runs never apply a migration twice: an up script is          *)
(* committed only for a version that is not recorded (applyOne).           *)
THEOREM NeverAppliedTwice == Spec => AppliedOnce
<1>1. TypeOK /\ OneTransaction /\ [Next]_vars =>
        [\A v \in Versions : applied'[v] > applied[v] => v \notin recorded]_vars
  <2> SUFFICES ASSUME TypeOK, OneTransaction, Next, NEW v \in Versions, applied'[v] > applied[v]
               PROVE  v \notin recorded
    OBVIOUS
  <2>1. applied \in [Versions -> Nat] /\ ~(applied[v] > applied[v])
    BY DEF TypeOK
  <2>2. ASSUME NEW r \in Runs, NEW w \in Versions, Commit(r, w) \/ CommitUnknown(r, w)
        PROVE  v \notin recorded
    <3>1. w = v /\ Direction[r] = "up" /\ BusyWith(r, w)
      BY <2>1, <2>2 DEF Commit, CommitUnknown, Written, BusyWith
    <3> QED BY <3>1 DEF OneTransaction
  <2> QED BY <2>1, <2>2 DEF Next, Load, MissingFile, Fails, Exec
<1> QED BY <1>1, MigrateTypeCorrect, OneTransactionAlways, PTL DEF Spec, AppliedOnce

-----------------------------------------------------------------------------
(* The plans. *)

(* With -steps the first of the pending migrations are planned, so none is *)
(* planned without the pending ones before it.                             *)
LEMMA PendingUpIsPrefix ==
  ASSUME TypeOK, NEW r \in Runs, NEW v \in pendingUp(r), NEW w \in Files[r] \ recorded,
         Before(w, v)
  PROVE  w \in pendingUp(r)
<1> DEFINE pending == Files[r] \ recorded
           earlier(x) == {u \in pending : Before(u, x)}
<1>1. /\ v \in pending /\ w \in pending
      /\ pending \subseteq Versions
      /\ Steps[r] \in Int
  BY AssumptionFacts DEF pendingUp, appliedVersions
<1>2. earlier(w) \subseteq earlier(v)
  BY <1>1, AssumptionFacts DEF Before
<1>3. IsFiniteSet(earlier(v))
  BY <1>1, AssumptionFacts, FS_Subset
<1>4. /\ Cardinality(earlier(w)) <= Cardinality(earlier(v))
      /\ Cardinality(earlier(w)) \in Nat /\ Cardinality(earlier(v)) \in Nat
  BY <1>2, <1>3, FS_Subset, FS_CardinalityType
<1>5. Steps[r] > 0 => Cardinality(earlier(v)) < Steps[r]
  BY DEF pendingUp, appliedVersions
<1>6. Steps[r] > 0 => Cardinality(earlier(w)) < Steps[r]
  BY <1>1, <1>4, <1>5
<1> QED BY <1>1, <1>6 DEF pendingUp, appliedVersions

(* Going down the last ones are planned, by text order. *)
LEMMA PendingDownIsSuffix ==
  ASSUME TypeOK, TextOrderIsNumeric, NEW r \in Runs,
         NEW v \in pendingDown(r), NEW w \in recorded, Before(v, w)
  PROVE  w \in pendingDown(r)
<1> DEFINE later(x) == {u \in recorded : TextBefore(x, u)}
           steps == IF Steps[r] <= 0 THEN 1 ELSE Steps[r]
<1>1. v \in recorded /\ recorded \subseteq Versions /\ steps \in Int
  BY AssumptionFacts DEF pendingDown, appliedVersions, TypeOK
<1>2. later(w) \subseteq later(v)
  <2> SUFFICES ASSUME NEW u \in recorded, TextBefore(w, u) PROVE TextBefore(v, u)
    OBVIOUS
  <2>1. Before(w, u) /\ v \in Versions /\ w \in Versions /\ u \in Versions
    BY <1>1 DEF TextOrderIsNumeric
  <2>2. Before(v, u)
    BY <2>1, AssumptionFacts DEF Before
  <2> QED BY <2>1, <2>2 DEF TextOrderIsNumeric
<1>3. IsFiniteSet(later(v))
  BY <1>1, AssumptionFacts, FS_Subset
<1>4. /\ Cardinality(later(w)) <= Cardinality(later(v))
      /\ Cardinality(later(w)) \in Nat /\ Cardinality(later(v)) \in Nat
  BY <1>2, <1>3, FS_Subset, FS_CardinalityType
<1>5. Cardinality(later(v)) < steps
  BY DEF pendingDown, appliedVersions
<1>6. Cardinality(later(w)) < steps
  BY <1>1, <1>4, <1>5
<1> QED BY <1>6 DEF pendingDown, appliedVersions

(* A run that has loaded has planned, and keeps, all that must happen      *)
(* before each of its migrations.                                          *)
UpPlanned ==
  \A r \in Runs : Active(r) /\ Direction[r] = "up" =>
     \A v \in plan[r], w \in Versions : Before(w, v) => w \in recorded \cup plan[r]
DownPlanned ==
  \A r \in Runs : Active(r) /\ Direction[r] = "down" =>
     \A v \in plan[r], w \in recorded : Before(v, w) => w \in plan[r]
OneDirection ==
  \A q, r \in Runs : Active(q) /\ Active(r) => Direction[q] = Direction[r]

Ordered == ~mixed => UpPlanned /\ DownPlanned /\ OneDirection

(* Loading keeps the order: recorded has no gap, so the plan has none.     *)
LEMMA LoadOrdered ==
  ASSUME TypeOK, Ordered, NoGaps, DirectoriesComplete, TextOrderIsNumeric,
         NEW r \in Runs, Load(r)
  PROVE  Ordered' /\ NoGaps'
<1> SUFFICES ASSUME ~mixed' PROVE (UpPlanned /\ DownPlanned /\ OneDirection)' /\ NoGaps'
  BY DEF Ordered, NoGaps
<1>1. /\ ~mixed /\ recorded' = recorded
      /\ \A q \in Runs : Active(q) => Direction[q] = Direction[r]
      /\ plan' = [plan EXCEPT ![r] = Plan(r)]
      /\ \A q \in Runs \ {r} : plan'[q] = plan[q] /\ (Active(q)' <=> Active(q))
      /\ plan'[r] = Plan(r)
  BY DEF Load, TypeOK, Active
<1>2. UpPlanned /\ DownPlanned /\ OneDirection
  BY <1>1 DEF Ordered
<1>3. OneDirection'
  BY <1>1, <1>2 DEF OneDirection
<1>4. UpPlanned'
  <2> SUFFICES ASSUME Direction[r] = "up", NEW v \in Plan(r), NEW w \in Versions, Before(w, v)
               PROVE  w \in recorded \cup Plan(r)
    BY <1>1, <1>2 DEF UpPlanned, Before
  <2>1. Plan(r) = pendingUp(r) /\ v \in Files[r]
    BY DEF Plan, pendingUp
  <2>2. w \in Files[r]
    BY <2>1 DEF DirectoriesComplete
  <2> QED BY <2>1, <2>2, PendingUpIsPrefix
<1>5. DownPlanned'
  <2> SUFFICES ASSUME Direction[r] = "down", NEW v \in Plan(r), NEW w \in recorded, Before(v, w)
               PROVE  w \in Plan(r)
    BY <1>1, <1>2 DEF DownPlanned, Before
  <2>1. Plan(r) = pendingDown(r)
    BY DEF Plan
  <2> QED BY <2>1, PendingDownIsSuffix
<1> QED BY <1>1, <1>3, <1>4, <1>5 DEF NoGaps

(* So does writing a migration and its row, whether the run learns of it.  *)
LEMMA WrittenOrdered ==
  ASSUME TypeOK, Ordered, NoGaps, TextOrderIsNumeric,
         NEW r \in Runs, NEW v \in Versions, Commit(r, v) \/ CommitUnknown(r, v)
  PROVE  Ordered' /\ NoGaps'
<1> SUFFICES ASSUME ~mixed' PROVE (UpPlanned /\ DownPlanned /\ OneDirection)' /\ NoGaps'
  BY DEF Ordered, NoGaps
<1>1. /\ ~mixed /\ Active(r) /\ Current(r, v) /\ Written(r, v) /\ v \in plan[r]
      /\ \A q \in Runs : Active(q)' => Active(q)
      /\ \A q \in Runs \ {r} : plan'[q] = plan[q]
      /\ plan'[r] \in {plan[r] \ {v}, plan[r]}
      /\ plan'[r] = plan[r] => ~Active(r)' \/ v \notin plan[r]
  BY DEF TypeOK, Commit, CommitUnknown, Active, Current
<1>2. UpPlanned /\ DownPlanned /\ OneDirection
  BY <1>1 DEF Ordered
<1>3. \A w \in recorded : \A x \in Versions : Before(x, w) => x \in recorded
  BY <1>1 DEF NoGaps
<1>4. /\ recorded \subseteq Versions
      /\ \A q \in Runs : plan[q] \subseteq Versions
      /\ \A x, y \in Versions : ~(Before(x, y) /\ Before(y, x))
  BY AssumptionFacts DEF TypeOK, Before
<1>5. OneDirection' /\ \A q \in Runs : Active(q)' => Direction[q] = Direction[r]
  BY <1>1, <1>2 DEF OneDirection
<1>6. CASE Direction[r] = "up"
  <2>1. recorded' = recorded \cup {v}
    BY <1>1, <1>6 DEF Written
  <2>2. \A x \in Versions : Before(x, v) => x \in recorded
    <3> SUFFICES ASSUME NEW x \in Versions, Before(x, v), x \notin recorded PROVE FALSE
      OBVIOUS
    <3>1. x \in plan[r]
      BY <1>1, <1>2, <1>6 DEF UpPlanned
    <3>2. x # v => Before(v, x)
      BY <1>1, <1>6, <3>1 DEF Current
    <3>3. x = v => Before(v, x)
      OBVIOUS
    <3> QED BY <1>4, <3>2, <3>3
  <2>3. NoGaps'
    BY <1>3, <1>4, <2>1, <2>2 DEF NoGaps, Before
  <2>4. UpPlanned'
    <3> SUFFICES ASSUME NEW q \in Runs, Active(q)', Direction[q] = "up", NEW y \in plan'[q],
                        NEW x \in Versions, Before(x, y)
                 PROVE  x \in recorded' \cup plan'[q]
      BY DEF UpPlanned, Before
    <3>1. y \in plan[q] /\ Active(q)
      BY <1>1
    <3>2. x \in recorded \cup plan[q]
      BY <1>2, <3>1 DEF UpPlanned
    <3> QED BY <1>1, <2>1, <3>2
  <2>5. DownPlanned'
    BY <1>5, <1>6 DEF DownPlanned
  <2> QED BY <1>5, <2>3, <2>4, <2>5
<1>7. CASE Direction[r] = "down"
  <2>1. recorded' = recorded \ {v}
    BY <1>1, <1>7 DEF Written
  <2>2. \A x \in recorded : ~Before(v, x)
    <3> SUFFICES ASSUME NEW x \in recorded, Before(v, x) PROVE FALSE
      OBVIOUS
    <3>1. x \in plan[r]
      BY <1>1, <1>2, <1>7 DEF DownPlanned
    <3>2. x # v
      BY <1>4
    <3>3. TextBefore(x, v)
      BY <1>1, <1>7, <3>1, <3>2 DEF Current
    <3>4. Before(x, v)
      BY <1>4, <3>3 DEF TextOrderIsNumeric
    <3> QED BY <1>4, <3>4
  <2>3. NoGaps'
    <3> SUFFICES ASSUME NEW w \in recorded', NEW x \in Versions, Before(x, w)
                 PROVE  x \in recorded'
      BY DEF NoGaps, Before
    <3> QED BY <1>3, <2>1, <2>2
  <2>4. DownPlanned'
    <3> SUFFICES ASSUME NEW q \in Runs, Active(q)', Direction[q] = "down", NEW y \in plan'[q],
                        NEW x \in recorded', Before(y, x)
                 PROVE  x \in plan'[q]
      BY DEF DownPlanned, Before
    <3>1. y \in plan[q] /\ Active(q) /\ x \in recorded /\ x # v
      BY <1>1, <2>1
    <3>2. x \in plan[q]
      BY <1>2, <3>1 DEF DownPlanned
    <3> QED BY <1>1, <3>1, <3>2
  <2>5. UpPlanned'
    BY <1>5, <1>7 DEF UpPlanned
  <2> QED BY <1>5, <2>3, <2>4, <2>5
<1> QED BY <1>6, <1>7, AssumptionFacts

(* As long as up and down runs do not overlap, no migration is recorded    *)
(* without those before it, however runs interleave and wherever they fail.*)
THEOREM NeverAGap ==
  ASSUME DirectoriesComplete, TextOrderIsNumeric
  PROVE  Spec => []NoGaps
<1>1. Init => Ordered /\ NoGaps
  BY DEF Init, Ordered, NoGaps, UpPlanned, DownPlanned, OneDirection, Active
<1>2. TypeOK /\ Ordered /\ NoGaps /\ [Next]_vars => Ordered' /\ NoGaps'
  <2> SUFFICES ASSUME TypeOK, Ordered, NoGaps, [Next]_vars PROVE Ordered' /\ NoGaps'
    OBVIOUS
  <2>1. ASSUME NEW r \in Runs, Load(r) PROVE Ordered' /\ NoGaps'
    BY <2>1, LoadOrdered
  <2>2. ASSUME NEW r \in Runs, NEW v \in Versions, Commit(r, v) \/ CommitUnknown(r, v)
        PROVE  Ordered' /\ NoGaps'
    BY <2>2, WrittenOrdered
  <2>3. ASSUME mixed' = mixed, recorded' = recorded, plan' = plan,
               \A q \in Runs : Active(q)' => Active(q)
        PROVE  Ordered' /\ NoGaps'
    BY <2>3 DEF Ordered, NoGaps, UpPlanned, DownPlanned, OneDirection, Before
  <2>4. ASSUME NEW r \in Runs, MissingFile(r) \/ Fails(r) PROVE Ordered' /\ NoGaps'
    BY <2>3, <2>4 DEF TypeOK, MissingFile, Fails, Active
  <2>5. ASSUME NEW r \in Runs, NEW v \in Versions, Exec(r, v) PROVE Ordered' /\ NoGaps'
    BY <2>3, <2>5 DEF TypeOK, Exec, Active
  <2>6. CASE UNCHANGED vars
    BY <2>3, <2>6 DEF vars, Active
  <2> QED BY <2>1, <2>2, <2>4, <2>5, <2>6 DEF Next
<1> QED BY <1>1, <1>2, MigrateTypeCorrect, PTL DEF Spec

-----------------------------------------------------------------------------
(* The result. *)

(* An up run without -steps has planned all that is missing, and no run    *)
(* that is under way at the same time takes anything back.                 *)
AllPlanned ==
  ~mixed =>
    /\ OneDirection
    /\ \A r \in Runs : Active(r) /\ Direction[r] = "up" /\ Steps[r] <= 0 =>
         Files[r] \subseteq recorded \cup plan[r]

LEMMA AllPlannedStep ==
  ASSUME TypeOK, AllPlanned, [Next]_vars
  PROVE  AllPlanned'
<1> SUFFICES ASSUME ~mixed'
             PROVE  /\ OneDirection'
                    /\ \A q \in Runs : Active(q)' /\ Direction[q] = "up" /\ Steps[q] <= 0 =>
                         Files[q] \subseteq recorded' \cup plan'[q]
  BY DEF AllPlanned
<1>1. /\ ~mixed /\ OneDirection
      /\ \A q \in Runs : Active(q) /\ Direction[q] = "up" /\ Steps[q] <= 0 =>
           Files[q] \subseteq recorded \cup plan[q]
  <2>1. mixed => mixed'
    BY DEF Next, Load, MissingFile, Fails, Exec, Commit, CommitUnknown, vars
  <2> QED BY <2>1 DEF AllPlanned
<1>2. ASSUME NEW r \in Runs, Load(r)
      PROVE  /\ OneDirection'
             /\ \A q \in Runs : Active(q)' /\ Direction[q] = "up" /\ Steps[q] <= 0 =>
                  Files[q] \subseteq recorded' \cup plan'[q]
  <2>1. /\ recorded' = recorded /\ plan'[r] = Plan(r)
        /\ \A q \in Runs : Active(q) => Direction[q] = Direction[r]
        /\ \A q \in Runs \ {r} : plan'[q] = plan[q] /\ (Active(q)' <=> Active(q))
    BY <1>2 DEF Load, TypeOK, Active
  <2>2. Direction[r] = "up" /\ Steps[r] <= 0 => Plan(r) = Files[r] \ recorded
    BY AssumptionFacts DEF Plan, pendingUp, appliedVersions
  <2>3. OneDirection'
    BY <1>1, <2>1 DEF OneDirection
  <2> QED BY <1>1, <2>1, <2>2, <2>3
<1>3. ASSUME NEW r \in Runs, NEW v \in Versions, Commit(r, v) \/ CommitUnknown(r, v)
      PROVE  /\ OneDirection'
             /\ \A q \in Runs : Active(q)' /\ Direction[q] = "up" /\ Steps[q] <= 0 =>
                  Files[q] \subseteq recorded' \cup plan'[q]
  <2>1. /\ Active(r) /\ Written(r, v)
        /\ \A q \in Runs : Active(q)' => Active(q)
        /\ \A q \in Runs : plan[q] \subseteq plan'[q] \cup {v}
        /\ \A q \in Runs \ {r} : plan'[q] = plan[q]
    BY <1>3 DEF TypeOK, Commit, CommitUnknown, Active
  <2>2. OneDirection'
    BY <1>1, <2>1 DEF OneDirection
  <2>3. ASSUME NEW q \in Runs, Active(q)', Direction[q] = "up", Steps[q] <= 0
        PROVE  Files[q] \subseteq recorded' \cup plan'[q]
    <3>1. Active(q) /\ Direction[r] = "up"
      BY <1>1, <2>1, <2>3 DEF OneDirection
    <3>2. recorded' = recorded \cup {v}
      BY <2>1, <3>1 DEF Written
    <3> QED BY <1>1, <2>1, <2>3, <3>1, <3>2
  <2> QED BY <2>2, <2>3
<1>4. ASSUME recorded' = recorded, plan' = plan, \A q \in Runs : Active(q)' => Active(q)
      PROVE  /\ OneDirection'
             /\ \A q \in Runs : Active(q)' /\ Direction[q] = "up" /\ Steps[q] <= 0 =>
                  Files[q] \subseteq recorded' \cup plan'[q]
  BY <1>1, <1>4 DEF OneDirection
<1>5. ASSUME NEW r \in Runs,
             MissingFile(r) \/ Fails(r) \/ \E v \in Versions : Exec(r, v)
      PROVE  /\ OneDirection'
             /\ \A q \in Runs : Active(q)' /\ Direction[q] = "up" /\ Steps[q] <= 0 =>
                  Files[q] \subseteq recorded' \cup plan'[q]
  BY <1>4, <1>5 DEF TypeOK, MissingFile, Fails, Exec, Active
<1>6. CASE UNCHANGED vars
  BY <1>4, <1>6 DEF vars, Active
<1> QED BY <1>2, <1>3, <1>5, <1>6 DEF Next

(* An up run without -steps that ends well leaves its directory applied,   *)
(* unless a down run was under way at the same time (run, applyOne).       *)
THEOREM SuccessApplies == Spec => SuccessMeansApplied
<1>1. Init => AllPlanned
  BY DEF Init, AllPlanned, OneDirection, Active
<1>2. TypeOK /\ AllPlanned /\ [Next]_vars =>
        [\A r \in Runs :
           pc[r] # "done" /\ pc'[r] = "done" /\ Direction[r] = "up" /\ Steps[r] <= 0 /\ ~mixed' =>
             Files[r] \subseteq recorded']_vars
  <2> SUFFICES ASSUME TypeOK, AllPlanned, Next, NEW r \in Runs, pc[r] # "done", pc'[r] = "done",
                      Direction[r] = "up", Steps[r] <= 0, ~mixed'
               PROVE  Files[r] \subseteq recorded'
    OBVIOUS
  <2>1. ASSUME NEW q \in Runs, Load(q) PROVE Files[r] \subseteq recorded'
    <3>1. q = r /\ Plan(r) = {} /\ recorded' = recorded
      BY <2>1 DEF Load, TypeOK
    <3>2. Plan(r) = Files[r] \ recorded
      BY AssumptionFacts DEF Plan, pendingUp, appliedVersions
    <3> QED BY <3>1, <3>2
  <2>2. ASSUME NEW q \in Runs, NEW v \in Versions, Commit(q, v) PROVE Files[r] \subseteq recorded'
    <3>1. q = r /\ plan[r] = {v} /\ Active(r) /\ ~mixed
      BY <2>2 DEF Commit, TypeOK, Active
    <3>2. recorded' = recorded \cup {v}
      BY <2>2, <3>1 DEF Commit, Written
    <3>3. Files[r] \subseteq recorded \cup plan[r]
      BY <3>1 DEF AllPlanned
    <3> QED BY <3>1, <3>2, <3>3
  <2>3. ASSUME NEW q \in Runs,
               \/ MissingFile(q) \/ Fails(q)
               \/ \E v \in Versions : Exec(q, v) \/ CommitUnknown(q, v)
        PROVE  FALSE
    BY <2>3 DEF MissingFile, Fails, Exec, CommitUnknown, TypeOK
  <2> QED BY <2>1, <2>2, <2>3 DEF Next
<1>3. TypeOK /\ AllPlanned /\ [Next]_vars => AllPlanned'
  BY AllPlannedStep
<1> QED BY <1>1, <1>2, <1>3, MigrateTypeCorrect, PTL DEF Spec, SuccessMeansApplied
=============================================================================
