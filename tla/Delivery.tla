------------------------------ MODULE Delivery ------------------------------
(***************************************************************************)
(* What both halves of the event pipeline promise: the outbox to the bus   *)
(* (internal/eventbus/outbox) and the bus to the handlers                  *)
(* (internal/eventbus/kafka).  A carrier accepts events, takes each of     *)
(* them to its destination at least once, and stops being responsible for  *)
(* one only after the destination has it.  It may take the responsibility  *)
(* up again, which is what makes duplicates possible; it may never drop it *)
(* early, which is what makes losses impossible.                           *)
(***************************************************************************)
CONSTANT Events

VARIABLES
  accepted,    \* events handed to the carrier
  delivered,   \* events the destination has taken at least once
  discharged   \* events the carrier will not carry again of its own accord

vars == <<accepted, delivered, discharged>>

Init ==
  /\ accepted = {}
  /\ delivered = {}
  /\ discharged = {}

Accept(e) ==
  /\ accepted' = accepted \cup {e}
  /\ UNCHANGED <<delivered, discharged>>

Deliver(e) ==
  /\ e \in accepted
  /\ delivered' = delivered \cup {e}
  /\ UNCHANGED <<accepted, discharged>>

(* One acknowledgement may cover many events. *)
Discharge(E) ==
  /\ E \subseteq delivered
  /\ discharged' = discharged \cup E
  /\ UNCHANGED <<accepted, delivered>>

Reopen(E) ==
  /\ discharged' = discharged \ E
  /\ UNCHANGED <<accepted, delivered>>

Next ==
  \/ \E e \in Events : Accept(e) \/ Deliver(e)
  \/ \E E \in SUBSET Events : Discharge(E) \/ Reopen(E)

Spec == Init /\ [][Next]_vars
=============================================================================
