------------------------- MODULE IntentCoordinator -------------------------
(***************************************************************************)
(* The connection intent of the user, as the desktop client keeps it:      *)
(* ConnectionIntentCoordinator of crates/client-core.  The coordinator is  *)
(* a plain value behind the mutex of its owner; every method is an         *)
(* operator from a coordinator value to the next one.  A generation names  *)
(* one intent: results that carry an older generation are stale.           *)
(*                                                                         *)
(* Wall-clock deadlines are abstracted to None, "later" and "due".         *)
(***************************************************************************)
EXTENDS Integers, Sequences

CONSTANTS
    None,           \* the absent value of every Option
    Templates,      \* connection options (IntentTemplate)
    Leases,         \* connections, named by their lease
    MaxGeneration,  \* stands for u64::MAX: the generation that has no next
    RetryDelays     \* RETRY_DELAYS_SECONDS, as far as 0 and not 0 differ

ASSUME CoordinatorConstants ==
    /\ MaxGeneration \in Nat \ {0}
    /\ None \notin Nat \cup Templates \cup Leases
    /\ None \notin {"later", "due", "start", "quick", "None"}
    /\ RetryDelays \in Seq(Nat)
    /\ Len(RetryDelays) > 0

Generations == 0 .. MaxGeneration
ConnectionIntentStatus == {"None", "Recovering", "BlockedTerminal"}
Deadlines == {None, "later", "due"}

(* retry_index counts on for ever in the code; every value from here on    *)
(* selects the last delay.                                                 *)
LastRetryIndex == Len(RetryDelays)
RetryIndexes == 0 .. LastRetryIndex

Coordinators ==
    [generation : Generations,
     exhausted : BOOLEAN,
     desired : Templates \cup {None},
     status : ConnectionIntentStatus,
     connected : Leases \cup {None},
     attempt_generation : Generations \cup {None},
     retry_index : RetryIndexes,
     network_wakeup_pending : BOOLEAN]

InitCoordinator ==
    [generation |-> 0, exhausted |-> FALSE, desired |-> None,
     status |-> "None", connected |-> None, attempt_generation |-> None,
     retry_index |-> 0, network_wakeup_pending |-> FALSE]

(* The last delay repeats for ever. *)
delay_seconds(i) ==
    RetryDelays[IF i < Len(RetryDelays) THEN i + 1 ELSE Len(RetryDelays)]

(* No attempt in flight and no recovery pending: the kept connection. *)
completed_connection(c) ==
    IF c.status = "None" /\ c.attempt_generation = None THEN c.connected
                                                         ELSE None

(* A new intent: the attempt slot is deliberately not touched. *)
NewIntent(c, t) ==
    [c EXCEPT !.generation = c.generation + 1, !.desired = t,
              !.status = "Recovering", !.connected = None,
              !.retry_index = 0, !.network_wakeup_pending = FALSE]

(* What start_or_resume answers: a disposition, or the error it returns. *)
start_disposition(c, t) ==
    CASE c.desired # None /\ c.desired # t -> "DifferentIntentActive"
      [] c.desired = t /\ c.status # "BlockedTerminal" ->
            IF c.connected # None THEN "Connected" ELSE "Recovering"
      [] c.desired = None /\ c.attempt_generation # None ->
            "AttemptStillActive"
      [] OTHER -> IF c.exhausted \/ c.generation = MaxGeneration
                    THEN "GenerationExhausted" ELSE "Recovering"

(* The coordinator start_or_resume leaves behind. *)
start_or_resume(c, t) ==
    IF /\ start_disposition(c, t) = "Recovering"
       /\ (c.desired = None \/ c.status = "BlockedTerminal")
      THEN NewIntent(c, t)
      ELSE [c EXCEPT !.exhausted =
                @ \/ (/\ c.desired = t /\ c.status = "BlockedTerminal"
                      /\ c.generation = MaxGeneration)]

(* Mutated form: the slot of a running attempt is not looked at. *)
can_begin_attempt_any(c, g) ==
    g = c.generation /\ c.desired # None

can_begin_attempt(c, g) ==
    /\ g = c.generation
    /\ c.desired # None
    /\ c.attempt_generation = None

begin_attempt(c, g) ==
    IF can_begin_attempt(c, g) THEN [c EXCEPT !.attempt_generation = g] ELSE c

(* The result of attempt g still belongs to the current intent. *)
accept_result(c, g) ==
    /\ g = c.generation
    /\ c.desired # None
    /\ c.attempt_generation = g

(* accept_result also frees the slot when it accepts. *)
AcceptedResult(c) == [c EXCEPT !.attempt_generation = None]

can_complete_compensation(c, g) ==
    /\ c.attempt_generation = g
    /\ ~(g = c.generation /\ c.desired # None)

complete_compensation(c, g) ==
    IF can_complete_compensation(c, g)
      THEN [c EXCEPT !.attempt_generation = None] ELSE c

replace_active_options(c, g, t) ==
    IF accept_result(c, g) THEN [c EXCEPT !.desired = t] ELSE c

mark_connected(c, g, l) ==
    IF accept_result(c, g)
      THEN [AcceptedResult(c) EXCEPT !.connected = l, !.status = "None",
                !.retry_index = 0, !.network_wakeup_pending = FALSE]
      ELSE c

mark_terminal(c, g, armed) ==
    IF ~accept_result(c, g) THEN c
    ELSE IF armed
      THEN [AcceptedResult(c) EXCEPT !.status = "BlockedTerminal",
                                     !.network_wakeup_pending = FALSE]
      ELSE [AcceptedResult(c) EXCEPT !.status = "None", !.desired = None,
                !.connected = None, !.network_wakeup_pending = FALSE]

can_cancel_intent(c, g) == g = c.generation /\ c.desired # None

(* The slot of an attempt in flight stays taken until it is compensated. *)
cancel_intent(c, g) ==
    IF ~can_cancel_intent(c, g) THEN c
    ELSE [c EXCEPT
            !.generation = IF c.generation = MaxGeneration
                             THEN c.generation ELSE c.generation + 1,
            !.exhausted = c.exhausted \/ c.generation = MaxGeneration,
            !.desired = None, !.status = "None", !.connected = None,
            !.retry_index = 0, !.network_wakeup_pending = FALSE]

can_handle_stall(c, g, t) == g = c.generation /\ c.desired = t

handle_stall(c, g, t) ==
    IF can_handle_stall(c, g, t)
      THEN [c EXCEPT !.connected = None, !.status = "Recovering",
                     !.retry_index = 0, !.network_wakeup_pending = FALSE]
      ELSE c

can_schedule_retry(c, g) == g = c.generation /\ c.desired # None

(* The deadline schedule_retry answers, and the coordinator it leaves. *)
retry_deadline(c) == IF delay_seconds(c.retry_index) = 0 THEN "due" ELSE "later"

schedule_retry(c, g) ==
    IF can_schedule_retry(c, g)
      THEN [c EXCEPT !.status = "Recovering",
                     !.retry_index = IF @ < LastRetryIndex THEN @ + 1 ELSE @]
      ELSE c

can_wake_for_network_change(c) ==
    /\ c.desired # None
    /\ c.status = "Recovering"
    /\ ~c.network_wakeup_pending

wake_for_network_change(c) ==
    IF can_wake_for_network_change(c)
      THEN [c EXCEPT !.network_wakeup_pending = TRUE] ELSE c

(* Taking the wakeup restarts the schedule at its first non-zero delay. *)
take_network_wakeup(c) ==
    IF c.network_wakeup_pending
      THEN [c EXCEPT !.network_wakeup_pending = FALSE,
                     !.retry_index = IF @ = 0 THEN 0 ELSE 1]
      ELSE c

----------------------------------------------------------------------------
(***************************************************************************)
(* Recovery policy.  An error is known by the class its stable code falls  *)
(* in; the classes are the arms of classify_recovery.                      *)
(***************************************************************************)
ErrorClasses ==
    {"same_operation", "new_operation", "rate_limited", "service_once",
     "profile_once", "reconcile", "stall_not_recyclable", "local_tunnel",
     "terminal"}

PolicyContexts ==
    [service_attempted : BOOLEAN, profile_attempted : BOOLEAN,
     reconcile_attempted : BOOLEAN]

DefaultPolicy ==
    [service_attempted |-> FALSE, profile_attempted |-> FALSE,
     reconcile_attempted |-> FALSE]

classify_recovery(e, p) ==
    CASE e = "same_operation" -> "RetrySameOperation"
      [] e = "new_operation"  -> "RetryNewOperation"
      [] e = "rate_limited"   -> "RetryAfter"
      [] e = "reconcile"      -> "ReconcileThenRetry"
      [] e = "local_tunnel"   -> "RestartLocalTunnel"
      [] e = "service_once" /\ ~p.service_attempted -> "RetryOnce"
      [] e = "profile_once" /\ ~p.profile_attempted -> "RetryOnce"
      [] e = "stall_not_recyclable" /\ ~p.reconcile_attempted ->
            "ReconcileOnce"
      [] OTHER -> "Terminal"
=============================================================================
