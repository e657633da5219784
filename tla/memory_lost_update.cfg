SPECIFICATION Spec
CONSTANTS
  Creates = {c1}
  Changes = {u1, u2}
  Emails = {x, y, z}
  NoEmail = noEmail
  NoCustomer = noCustomer
PROPERTY
  NoLostUpdate
\* With every request finished nothing is left to do.
CHECK_DEADLOCK FALSE
