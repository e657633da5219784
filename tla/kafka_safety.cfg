\* Two processes, one rebalance or crash, one failing write, one retry hop.
SPECIFICATION Spec
CONSTANTS
  Events = {e1, bad}
  Undecodable = {bad}
  Unsubscribed = {}
  Members = {api, worker}
  NoMember = none
  OptMaxRetries = 1
  MaxPublishes = 2
  MaxFaults = 1
  MaxWriteErrs = 1
SYMMETRY MemberSymmetry
INVARIANTS
  TypeOK
  LossesPaidFor
  DeadLetteredAfterAllTries
\* With everything published and committed the readers block in FetchMessage.
CHECK_DEADLOCK FALSE
