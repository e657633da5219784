\* The poll loop with a concurrent caller of DrainOutbox.
SPECIFICATION Spec
CONSTANTS
  EventIDs = {e1, e2, e3, e4}
  Poison = {e1, e2}
  Relay = relay
  Flushers = {flush}
  OptBatchSize = 2
INVARIANTS
  PublishedWasAccepted
  StarvedBehindPoison
PROPERTIES
  ImplementsDelivery
