------------------------------ MODULE MCEngine ------------------------------
(***************************************************************************)
(* The instance of EngineDispatcher that TLC checks: on every platform one *)
(* call with two faults and a death, two calls with a fault or with two    *)
(* deaths, three with a timeout; installations with one fault and one      *)
(* death.                                                                  *)
(***************************************************************************)
EXTENDS EngineDispatcher

Platforms == {"linux", "macos", "windows"}

EngineScenarios ==
  [platform : Platforms, faults : {2}, deaths : {1}, requests : {1}, timeouts : {0}, installs : {0}]
    \cup [platform : Platforms, faults : {1}, deaths : {0}, requests : {2}, timeouts : {0},
          installs : {0}]
    \cup [platform : Platforms, faults : {0}, deaths : {2}, requests : {2}, timeouts : {0},
          installs : {0}]
    \cup [platform : Platforms, faults : {0}, deaths : {0}, requests : {3}, timeouts : {1},
          installs : {0}]
    \cup [platform : {"linux", "windows"}, faults : {1}, deaths : {1}, requests : {1}, timeouts : {0},
          installs : {1}]

=============================================================================
