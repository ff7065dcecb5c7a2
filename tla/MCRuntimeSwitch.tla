-------------------------- MODULE MCRuntimeSwitch ---------------------------
(***************************************************************************)
(* Instances of RuntimeSwitch for TLC.                                     *)
(***************************************************************************)
EXTENDS RuntimeSwitch

Budget(s) == [e \in Events |-> IF e \in s THEN 1 ELSE 0]

(* Every choice of three different events of the environment, and a second *)
(* update after one that was cancelled.                                    *)
AnyThree ==
  {Budget(s) : s \in {t \in SUBSET Events : Cardinality(t) = 3}}
    \cup {[Budget({"crash"}) EXCEPT !["update"] = 2]}

=============================================================================
