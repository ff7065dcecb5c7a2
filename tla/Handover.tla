------------------------------ MODULE Handover ------------------------------
(***************************************************************************)
(* What the runtime switch promises, without its journal: the session is   *)
(* in one runtime, it moves to another in one step while no tunnel runs,   *)
(* each move is one generation, and a login begins a later epoch.          *)
(***************************************************************************)
EXTENDS Naturals

CONSTANTS Targets,       \* the runtimes a session can be in
          None           \* no session

VARIABLES session,       \* the confirmed identity: epoch, target, generation
          epoch,         \* the latest authentication epoch
          running        \* a tunnel runs or is being started

vars == <<session, epoch, running>>

Init ==
  /\ session.epoch = epoch
  /\ session.tgt \in Targets
  /\ ~running

Start == session # None /\ ~running /\ running' = TRUE /\ UNCHANGED <<session, epoch>>

Stop == running /\ running' = FALSE /\ UNCHANGED <<session, epoch>>

Move ==
  /\ session # None /\ ~running
  /\ \E t \in Targets : session' = [session EXCEPT !.tgt = t, !.gen = @ + 1]
  /\ UNCHANGED <<epoch, running>>

Logout == session # None /\ session' = None /\ epoch' = epoch + 1 /\ UNCHANGED running

Login ==
  /\ session = None
  /\ epoch' = epoch + 1
  /\ \E t \in Targets : session' = [epoch |-> epoch', tgt |-> t, gen |-> 1]
  /\ running' = FALSE

Next == Start \/ Stop \/ Move \/ Logout \/ Login

Spec == Init /\ [][Next]_vars
=============================================================================
