\* One customer, one change of address, one failing handler call.
SPECIFICATION FairSpec
CONSTANTS
  Customers = {c1}
  First = c1
  MaxCommands <- MCMaxCommands
  MaxAborts = 0
  MaxFailures = 1
  MaxRestarts = 0
  Rank <- MCRank
  Buyers = {}
  AskedLimits = {}
  Relay = relay
  Flushers = {}
  OptBatchSize = 2
PROPERTY
  ReadModelCatchesUp
