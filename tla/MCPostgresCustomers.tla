------------------------ MODULE MCPostgresCustomers -------------------------
(* Small instances of PostgresCustomers for TLC. *)
EXTENDS PostgresCustomers

(* Customers are only compared, so the first change may as well be about   *)
(* the first of them,                                                      *)
MCInit == Init /\ target["u1"] = "c1"

(* and so are addresses: the first create may as well ask for this one.    *)
AnEmail == CHOOSE e \in Emails : TRUE
MCNext == Next /\ email'["c1"] \in {NoEmail, AnEmail}

MCFairSpec == MCInit /\ [][MCNext]_vars /\ Fairness
=============================================================================
