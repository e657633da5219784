----------------------------- MODULE MCMigrate -----------------------------
(* Small instances of Migrate for TLC: the runs of an older and a newer    *)
(* release, one with -steps, and two that roll back.                       *)
EXTENDS Migrate

V1 == <<0, 1>>
V2 == <<0, 2>>
V10 == <<1, 0>>

MCVersions == {V1, V2, V10}

MCFiles ==
  [r \in Runs |-> IF r = "old" THEN {V1, V2} ELSE IF r = "back" THEN {V1} ELSE MCVersions]

ASSUME ConditionsHold == DirectoriesComplete /\ TextOrderIsNumeric

MCDirection == [r \in Runs |-> IF r \in {"back", "undo"} THEN "down" ELSE "up"]

MCSteps == [r \in Runs |-> CASE r = "step" -> 1 [] r = "undo" -> 2 [] OTHER -> 0]
=============================================================================
