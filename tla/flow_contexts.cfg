\* Two customers, a change of address, a failing handler call, one
\* failing commit, a restart, orders for one of the customers.
SPECIFICATION FairSpec
CONSTANTS
  Customers = {c1, c2}
  First = c1
  MaxCommands <- MCMaxCommands
  MaxAborts = 1
  MaxFailures = 1
  MaxRestarts = 1
  Rank <- MCRank
  Buyers = {c1}
  AskedLimits = {1}
  Relay = relay
  Flushers = {}
  OptBatchSize = 2
INVARIANTS
  TypeOK
  CreationNotForgotten
  OrdersHaveCustomers
  ReadsFollowWrites
  WelcomesBounded
  WalkMissesNothing
PROPERTIES
  CustomersBecomeKnown
