\* Three up runs, of two releases, and two down runs, in any order.
SPECIFICATION Spec
CONSTANTS
  Versions <- MCVersions
  Runs = {"old", "new", "step", "back", "undo"}
  Files <- MCFiles
  Direction <- MCDirection
  Steps <- MCSteps
INVARIANTS
  TypeOK
  NoGaps
PROPERTIES
  AppliedOnce
  SuccessMeansApplied
\* When every run has ended nothing is left to do.
CHECK_DEADLOCK FALSE
