\* The poll loop alone: four events, one poison, two rows per pass.
SPECIFICATION FairSpec
CONSTANTS
  EventIDs = {e1, e2, e3, e4}
  Poison = {e2}
  Relay = relay
  Flushers = {}
  OptBatchSize = 2
INVARIANTS
  OvertakesOnlyFailed
PROPERTIES
  PublishedIsFinal
  EventuallyPublished
  HealthyIsFetched
