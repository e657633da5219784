-------------------------- MODULE CustomerRegister --------------------------
(***************************************************************************)
(* What the write side of the customer context promises: a table of        *)
(* customers in which every create and every change of email takes effect  *)
(* in one step, an email address identifies at most one customer           *)
(* (services/email_uniqueness.go) and every change is made to the version  *)
(* before it (customer_repository.go).                                     *)
(***************************************************************************)
EXTENDS Naturals

CONSTANTS Customers, Emails, Absent

VARIABLE rows

Taken(e) == \E i \in Customers : rows[i].email = e

Init == rows = [i \in Customers |-> Absent]

Create(i, e) ==
  /\ rows[i] = Absent
  /\ ~Taken(e)
  /\ rows' = [rows EXCEPT ![i] = [email |-> e, version |-> 1]]

ChangeEmail(i, e) ==
  /\ rows[i] # Absent
  /\ ~Taken(e)
  /\ rows' = [rows EXCEPT ![i] = [email |-> e, version |-> rows[i].version + 1]]

Next == \E i \in Customers, e \in Emails : Create(i, e) \/ ChangeEmail(i, e)

Spec == Init /\ [][Next]_rows
=============================================================================
