----------------------------- MODULE MCStorage -----------------------------
(***************************************************************************)
(* StorageStartup and WindowsRecords for TLC.  StorageStartup writes a     *)
(* protected record in one step; WindowsRecords shows that a record of     *)
(* several entries may be used so.  A behaviour is one of either layer.    *)
(***************************************************************************)
EXTENDS StorageStartup, WindowsRecords

(* What the old version left, and how often each event may happen. *)
Start(legacy, split, replay, once, twice) ==
  [legacy |-> legacy, split |-> split, replay |-> replay,
   left |-> [e \in Events |-> IF e \in twice THEN 2 ELSE IF e \in once THEN 1 ELSE 0]]

StartScenarios == {
  Start("full", TRUE, FALSE, {"io", "login", "logout", "work", "select", "update"}, {"crash"}),
  Start("bare", FALSE, FALSE, {"io", "logout", "work", "select", "update"}, {"crash", "login"}),
  Start("full", TRUE, TRUE, {"io", "logout", "login", "update"}, {"crash"}),
  Start(None, FALSE, FALSE, {"io", "logout", "work", "select", "update"}, {"crash", "login"}),
  Start(None, FALSE, FALSE, {"outage", "login", "work", "select", "update"}, {})}

NoStart ==
  /\ native = Nothing /\ fallback = Nothing /\ owed = FALSE /\ left = [e \in Events |-> 0]
  /\ disk = [split |-> FALSE, journal |-> None, marker |-> None]
  /\ host = [Down EXCEPT !.pc = "off"]

StorageInit == WrInit /\ (Init \/ NoStart)

StorageNext == (Next /\ UNCHANGED wvars) \/ (At("off") /\ WrNext /\ UNCHANGED vars)

StorageSpec == StorageInit /\ [][StorageNext]_<<vars, wvars>> /\ StartFairness
=============================================================================
