--------------------------- MODULE MCCustomerFlow ---------------------------
(* Small instances of CustomerFlow for TLC.  Any order will do for Rank:   *)
(* customers arrive in every order.                                        *)
EXTENDS CustomerFlow

CONSTANTS First   \* the customer that changes its address

MCMaxCommands == [c \in Customers |-> IF c = First THEN 2 ELSE 1]

MCRank ==
  CHOOSE f \in [Customers -> 1 .. Cardinality(Customers)] :
    \A c, d \in Customers : f[c] = f[d] => c = d
=============================================================================
