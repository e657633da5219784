\* Two processes, one fault, one retry hop, one event without subscribers.
SPECIFICATION FairSpec
CONSTANTS
  Events = {e1, plain}
  Undecodable = {}
  Unsubscribed = {plain}
  Members = {api, worker}
  NoMember = none
  OptMaxRetries = 1
  MaxPublishes = 2
  MaxFaults = 1
  MaxWriteErrs = 0
PROPERTIES
  ImplementsDelivery
  EventuallySettled
\* With everything published and committed the readers block in FetchMessage.
CHECK_DEADLOCK FALSE
