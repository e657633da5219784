\* One process; one write to a retry or dead-letter topic fails.
SPECIFICATION Spec
CONSTANTS
  Events = {e1, e2}
  Undecodable = {}
  Unsubscribed = {}
  Members = {worker}
  NoMember = none
  OptMaxRetries = 1
  MaxPublishes = 2
  MaxFaults = 0
  MaxWriteErrs = 1
INVARIANT
  CommittedIsRecorded
CHECK_DEADLOCK FALSE
