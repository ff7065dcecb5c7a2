------------------------------ MODULE MCUpdater ------------------------------
EXTENDS HostUpdater

Same == [p \in Packages |-> "v1"]
Each == [p \in Packages |-> IF p = "p1" THEN "v1" ELSE "v2"]

Budget(faults, sessions, releases, yes, laters, checks, prefs, pauses, launches, restarts) ==
  [faults |-> faults, sessions |-> sessions, releases |-> releases, yes |-> yes, laters |-> laters,
   checks |-> checks, prefs |-> prefs, pauses |-> pauses, launches |-> launches, restarts |-> restarts]

Scenario(android, version, automatic, budget) ==
  [android |-> android, version |-> version, automatic |-> automatic, left |-> budget]

(* A package is replaced and the session changes around a Yes, on each     *)
(* platform; an installation fails and is undone; Later meets a check.     *)
SomeScenarios ==
  {Scenario(FALSE, Same, FALSE, Budget(0, 1, 1, 1, 0, 2, 0, 0, 0, 0)),
   Scenario(TRUE,  Each, FALSE, Budget(1, 0, 0, 1, 0, 1, 0, 1, 1, 0)),
   Scenario(TRUE,  Each, TRUE,  Budget(0, 0, 0, 0, 1, 2, 0, 0, 0, 1)),
   Scenario(FALSE, Each, FALSE, Budget(2, 0, 0, 2, 0, 1, 0, 0, 0, 1)),
   Scenario(FALSE, Each, FALSE, Budget(0, 0, 0, 1, 0, 1, 1, 0, 0, 0)),
   Scenario(FALSE, Each, TRUE,  Budget(0, 0, 1, 0, 1, 1, 0, 0, 0, 0))}
=============================================================================
