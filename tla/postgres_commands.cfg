\* Two creates and two changes over three addresses; one failing database
\* call or crash.
SPECIFICATION MCFairSpec
CONSTANTS
  Creates = {"c1", "c2"}
  Changes = {"u1", "u2"}
  Emails = {x, y, z}
  NoEmail = noEmail
  MaxFaults = 1
INVARIANTS
  EmailIdentifiesOne
  EventsEndCurrent
PROPERTIES
  ImplementsRegister
  RequestsFinish
\* With every request finished nothing is left to do.
CHECK_DEADLOCK FALSE
