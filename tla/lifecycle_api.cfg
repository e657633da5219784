\* cmd/api and cmd/worker, in every profile, with two requests.
SPECIFICATION FairSpec
CONSTANTS
  Launches <- MCLaunches
  Readers = {q1}
  NewRequests = {"r1", "r2"}
  MayBe <- MCMayBe
INVARIANTS
  TypeOK
  ClosedAfterUse
  RequestsDrained
  FailureDecidesExit
  PoolFollowsProcess
  RunsAsConfigured
  RequestsAccountedFor
  NeverStuck
PROPERTIES
  ShutsDown
\* A process that is over takes no step.
CHECK_DEADLOCK FALSE
