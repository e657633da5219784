SPECIFICATION Spec
CONSTANTS
  Creates = {c1, c2}
  Changes = {u1, u2, u3}
  Emails = {x, y}
  NoEmail = noEmail
  NoCustomer = noCustomer
SYMMETRY Symmetry
INVARIANTS
  TypeOK
  IndexSound
  EveryVersionAnnounced
PROPERTY
  VersionsNeverGoBack
\* With every request finished nothing is left to do.
CHECK_DEADLOCK FALSE
