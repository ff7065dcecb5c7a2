--------------------------- MODULE DesktopIntent ---------------------------
(***************************************************************************)
(* DesktopConnectionIntent of src-tauri: the tasks that carry out the      *)
(* connection intent.  Start commands, the scheduler loop and the stall    *)
(* handler all end in run_attempt; a Stop command cancels the intent and   *)
(* then stops the core.  Every critical section of the state mutex is one  *)
(* action, and everything between two of them (an await) interleaves.      *)
(* The macOS build is modelled: it is the one with power pauses and stall  *)
(* recovery, and the other desktop builds are the runs without them.       *)
(*                                                                         *)
(* The application and the core are abstracted to the lifecycle gate, the  *)
(* cancellation of the attempt inside it, and the phase and lease the core *)
(* reports; CoreLifecycle models the core itself.                          *)
(***************************************************************************)
EXTENDS IntentCoordinator

CONSTANTS
    Starters,           \* Start commands that can be in flight together
    QuickTemplate,      \* quick_toggle_placeholder_options
    Modes,              \* start modes the panel's capability can give
    Errors,             \* the error classes the environment produces
    MaxNetworkChanges,  \* bound: network changes that wake the scheduler
    PowerPauses         \* whether the machine can go to sleep

ASSUME IntentConstants ==
    /\ QuickTemplate \in Templates
    /\ Modes \subseteq {"Recovery", "Legacy"}
    /\ Errors \subseteq ErrorClasses
    /\ MaxNetworkChanges \in Nat
    /\ PowerPauses \in BOOLEAN
    /\ Starters \cap {"scheduler", "stall", None} = {}

VARIABLES
    coordinator,      \* RuntimeState.coordinator
    state,            \* the other fields of RuntimeState
    wake,             \* the permit of the Notify the scheduler waits on
    pc,               \* where each task is
    task,             \* the locals of each task
    lifecycle,        \* the holder of ApplicationService.lifecycle_gate
    core,             \* phase and lease of CoreState
    stop,             \* where the Stop command is
    asleep,           \* macos_power::defer_reason is Some
    network_changes   \* how many network changes have woken the scheduler

vars == <<coordinator, state, wake, pc, task, lifecycle, core, stop, asleep,
          network_changes>>

Tasks == Starters \cup {"scheduler", "stall"}

AttemptKinds == {"Start", "StallReplacement"}
Preflights == {None, "start", "quick"}
CorePhases == {"Ready", "Connected", "Stopping"}

(* core.accepted records, for the properties only, that the connection the *)
(* core holds was accepted by an intent or belongs to no intent at all.    *)
CoreStates ==
    [phase : CorePhases, lease : Leases \cup {None}, accepted : BOOLEAN]

RuntimeStates ==
    [options : Templates \cup {None},
     policy : PolicyContexts,
     next_retry_at : Deadlines,
     retry_not_before : Deadlines,
     reconcile_before_attempt : BOOLEAN,
     repair_before_attempt : BOOLEAN,
     refresh_capability_before_attempt : BOOLEAN,
     armed : BOOLEAN,
     attempt_kind : AttemptKinds,
     owned_lease : Leases \cup {None},
     initial_preflight : Preflights]

InitState ==
    [options |-> None, policy |-> DefaultPolicy, next_retry_at |-> None,
     retry_not_before |-> None, reconcile_before_attempt |-> FALSE,
     repair_before_attempt |-> FALSE,
     refresh_capability_before_attempt |-> FALSE, armed |-> FALSE,
     attempt_kind |-> "Start", owned_lease |-> None,
     initial_preflight |-> None]

(* The places of run_attempt at which a task holds the attempt slot. *)
AttemptPlaces ==
    {"resolve", "preflight", "legacy_power", "legacy_abandon", "refresh",
     "reconcile", "repair", "power", "enter", "attempting", "stall_failed",
     "failed", "succeeded", "compensating", "compensated"}

Places ==
    {"idle", "observed", "snapped", "ready", "legacy_enter",
     "legacy_starting", "poll", "park", "sleep", "check", "defer", "local"}
      \cup AttemptPlaces

NoTask ==
    [generation |-> 0, options |-> None, observed |-> None, snapshot |-> None,
     kind |-> "Start", preflight |-> None, reconcile |-> FALSE,
     repair |-> FALSE, refresh |-> FALSE, mode |-> None, error |-> None,
     lease |-> None, cancelled |-> FALSE]

TaskLocals ==
    [generation : Generations,
     options : Templates \cup {None},
     observed : Leases \cup {None},
     snapshot : CoreStates \cup {None},
     kind : AttemptKinds,
     preflight : Preflights,
     reconcile : BOOLEAN,
     repair : BOOLEAN,
     refresh : BOOLEAN,
     mode : Modes \cup {None},
     error : ErrorClasses \cup {"deferred", None},
     lease : Leases \cup {None},
     cancelled : BOOLEAN]

Init ==
    /\ coordinator = InitCoordinator
    /\ state = InitState
    /\ wake = FALSE
    /\ pc = [t \in Tasks |-> IF t = "scheduler" THEN "poll" ELSE "idle"]
    /\ task = [t \in Tasks |-> NoTask]
    /\ lifecycle = None
    /\ core = [phase |-> "Ready", lease |-> None, accepted |-> TRUE]
    /\ stop = "idle"
    /\ asleep = FALSE
    /\ network_changes = 0

----------------------------------------------------------------------------
Home(t) == IF t = "scheduler" THEN "poll" ELSE "idle"

Go(t, place, locals) ==
    /\ pc' = [pc EXCEPT ![t] = place]
    /\ task' = [task EXCEPT ![t] = locals]

Return(t) == Go(t, Home(t), NoTask)

Automatic(t) == t \notin Starters

(* attempt_is_current_after_async_boundary answers true. *)
IsCurrent(g) == coordinator.generation = g /\ coordinator.status # "None"

(* ... and when it answers false it has given the slot back, if it may. *)
ReturnStale(t) ==
    /\ ~IsCurrent(task[t].generation)
    /\ coordinator' = complete_compensation(coordinator, task[t].generation)
    /\ Return(t)
    /\ UNCHANGED <<state, wake, lifecycle, core, stop, asleep, network_changes>>

Fail(t, e) == Go(t, "failed", [task[t] EXCEPT !.error = e])

Environment == <<stop, asleep, network_changes>>

----------------------------------------------------------------------------
(* Start command: start_or_resume_internal.                                *)

ObserveCompleted(u) ==
    /\ pc[u] = "idle"
    /\ Go(u, "observed",
          [NoTask EXCEPT !.generation = coordinator.generation,
                         !.observed = completed_connection(coordinator)])
    /\ UNCHANGED <<coordinator, state, wake, lifecycle, core, Environment>>

ReadCoreState(u) ==
    /\ pc[u] = "observed"
    /\ Go(u, "snapped", [task[u] EXCEPT !.snapshot = core])
    /\ UNCHANGED <<coordinator, state, wake, lifecycle, core, Environment>>

connection_matches_core_state(snapshot, lease) ==
    snapshot.phase = "Connected" /\ snapshot.lease = lease

(* start_after_core_observation retires the completed intent it observed. *)
RetiresObserved(l) ==
    /\ l.snapshot.phase = "Ready"
    /\ core.phase # "Stopping"                \* has_pending_stop_cleanup
    /\ l.observed # None
    /\ l.generation = coordinator.generation
    /\ completed_connection(coordinator) = l.observed
    /\ l.snapshot.lease \in {None, l.observed}

(* The kept connection is not the one the core has: replace the intent. *)
ReplacesMismatched(l, t) ==
    /\ start_disposition(coordinator, t) = "Connected"
    /\ ~connection_matches_core_state(l.snapshot, coordinator.connected)

initialize_episode(s, t, p) ==
    [s EXCEPT !.options = t, !.policy = DefaultPolicy,
              !.next_retry_at = None, !.retry_not_before = None,
              !.reconcile_before_attempt = FALSE,
              !.repair_before_attempt = FALSE,
              !.attempt_kind = IF s.armed THEN @ ELSE "Start",
              !.initial_preflight = p]

(* The zero-second entry of the schedule belongs to the attempt that runs. *)
consume_immediate_retry_slot(c, g) == schedule_retry(c, g)

start_or_resume_internal(u) ==
    /\ pc[u] = "snapped"
    /\ \E t \in Templates, p \in {"start", "quick"} :
        LET l       == task[u]
            drops   == RetiresObserved(l) \/ ReplacesMismatched(l, t)
            kept    == IF drops
                         THEN cancel_intent(coordinator, coordinator.generation)
                         ELSE coordinator
            base    == IF drops
                         THEN [state EXCEPT !.armed = FALSE,
                                            !.owned_lease = None,
                                            !.attempt_kind = "Start"]
                         ELSE state
            resumed == start_or_resume(kept, t)
            runs    == /\ start_disposition(kept, t) = "Recovering"
                       /\ resumed.generation # coordinator.generation
        IN /\ p = "quick" => t = QuickTemplate
           /\ IF runs
                THEN /\ coordinator' = consume_immediate_retry_slot(resumed,
                                            resumed.generation)
                     /\ state' = initialize_episode(base, t, p)
                     /\ Go(u, "ready",
                           [NoTask EXCEPT !.generation = resumed.generation])
                ELSE /\ coordinator' = resumed
                     /\ state' = base
                     /\ Return(u)
    /\ UNCHANGED <<wake, lifecycle, core, Environment>>
----------------------------------------------------------------------------
(* The scheduler loop.                                                     *)

retry_at_after_wakeup(not_before) ==
    IF not_before = "later" THEN "later" ELSE "due"

SchedulerPoll ==
    /\ pc["scheduler"] = "poll"
    /\ LET c == take_network_wakeup(coordinator)
           next == IF coordinator.network_wakeup_pending
                     THEN retry_at_after_wakeup(state.retry_not_before)
                     ELSE state.next_retry_at
           place == IF c.status # "Recovering" \/ next = None THEN "park"
                    ELSE IF next = "due" THEN "check" ELSE "sleep"
       IN /\ coordinator' = c
          /\ state' = [state EXCEPT !.next_retry_at = next]
          /\ Go("scheduler", place, NoTask)
    /\ UNCHANGED <<wake, lifecycle, core, Environment>>

SchedulerNotified ==
    /\ pc["scheduler"] \in {"park", "sleep"}
    /\ wake
    /\ wake' = FALSE
    /\ Return("scheduler")
    /\ UNCHANGED <<coordinator, state, lifecycle, core, Environment>>

SchedulerTimer ==
    /\ pc["scheduler"] = "sleep"
    /\ state.next_retry_at # "later"
    /\ Go("scheduler", "check", NoTask)
    /\ UNCHANGED <<coordinator, state, wake, lifecycle, core, Environment>>

SchedulerCheck ==
    /\ pc["scheduler"] = "check"
    /\ IF coordinator.status = "Recovering" /\ state.next_retry_at = "due"
         THEN IF asleep
                THEN Go("scheduler", "defer", NoTask)
                ELSE Go("scheduler", "ready",
                        [NoTask EXCEPT !.generation = coordinator.generation])
         ELSE Return("scheduler")
    /\ UNCHANGED <<coordinator, state, wake, lifecycle, core, Environment>>

(* A power pause ends after a second, or with the permit. *)
SchedulerDefer ==
    /\ pc["scheduler"] = "defer"
    /\ wake' \in {wake, FALSE}
    /\ Return("scheduler")
    /\ UNCHANGED <<coordinator, state, lifecycle, core, Environment>>

----------------------------------------------------------------------------
(* The stall handler.                                                      *)

StallObserved ==
    /\ pc["stall"] = "idle"
    /\ core.phase = "Connected"
    /\ state.options # None
    /\ state.armed /\ coordinator.status = "None"  \* can_begin_stall_recovery
    /\ state.owned_lease = core.lease
    /\ Go("stall", "local",
          [NoTask EXCEPT !.generation = coordinator.generation,
                         !.options = state.options])
    /\ UNCHANGED <<coordinator, state, wake, lifecycle, core, Environment>>

(* A UDP rebind or a restart of the local tunnel was enough. *)
StallRecoveredLocally ==
    /\ pc["stall"] = "local"
    /\ core.phase = "Connected"
    /\ coordinator.generation = task["stall"].generation
    /\ state.armed
    /\ state.owned_lease = core.lease
    /\ Return("stall")
    /\ UNCHANGED <<coordinator, state, wake, lifecycle, core, Environment>>

StallEscalates ==
    /\ pc["stall"] = "local"
    /\ LET l == task["stall"]
       IN IF asleep \/ ~can_handle_stall(coordinator, l.generation, l.options)
            THEN /\ Return("stall")
                 /\ UNCHANGED <<coordinator, state>>
            ELSE /\ coordinator' = consume_immediate_retry_slot(
                        handle_stall(coordinator, l.generation, l.options),
                        l.generation)
                 /\ state' = [state EXCEPT
                        !.attempt_kind = "StallReplacement",
                        !.refresh_capability_before_attempt = TRUE,
                        !.next_retry_at = None, !.retry_not_before = None]
                 /\ Go("stall", "ready",
                       [NoTask EXCEPT !.generation = l.generation])
    /\ UNCHANGED <<wake, lifecycle, core, Environment>>

----------------------------------------------------------------------------
(* run_attempt, one action per critical section or awaited call.           *)

AfterReconcile(l) == IF l.repair THEN "repair" ELSE "power"
AfterRefresh(l) == IF l.reconcile THEN "reconcile" ELSE AfterReconcile(l)
AfterPreflight(l) == IF l.refresh THEN "refresh" ELSE AfterRefresh(l)

(* The attempt takes the scheduled retry and what was to precede it. *)
AttemptBegun(s) ==
    [s EXCEPT !.next_retry_at = None, !.retry_not_before = None,
              !.reconcile_before_attempt = FALSE,
              !.repair_before_attempt = FALSE]

RunAttempt(t) ==
    /\ pc[t] = "ready"
    /\ IF \/ state.options = None
          \/ ~can_begin_attempt(coordinator, task[t].generation)
         THEN /\ Return(t)
              /\ UNCHANGED <<coordinator, state>>
         ELSE LET l == [task[t] EXCEPT
                          !.options = state.options,
                          !.kind = state.attempt_kind,
                          !.preflight = state.initial_preflight,
                          !.reconcile = state.reconcile_before_attempt,
                          !.repair = state.repair_before_attempt,
                          !.refresh = state.refresh_capability_before_attempt]
              IN /\ coordinator' = begin_attempt(coordinator, l.generation)
                 /\ state' = AttemptBegun(state)
                 /\ Go(t, IF l.preflight = None THEN AfterPreflight(l)
                                                ELSE "resolve", l)
    /\ UNCHANGED <<wake, lifecycle, core, Environment>>

(* An awaited call of the attempt answers with an error. *)
StageFails(t) ==
    /\ pc[t] \in {"resolve", "preflight", "refresh"}
    /\ \E e \in Errors : Fail(t, e)
    /\ UNCHANGED <<coordinator, state, wake, lifecycle, core, Environment>>

(* resolve_initial_desktop_start: a bootstrap gives the mode, and for the  *)
(* quick toggle the options that replace the placeholder.                  *)
InitialStartResolved(t) ==
    /\ pc[t] = "resolve"
    /\ \/ ReturnStale(t)
       \/ /\ IsCurrent(task[t].generation)
          /\ \E mode \in Modes, o \in Templates :
                /\ task[t].preflight # "quick" => o = task[t].options
                /\ coordinator' = replace_active_options(coordinator,
                                      task[t].generation, o)
                /\ state' = [state EXCEPT !.options = o]
                /\ Go(t, "preflight",
                      [task[t] EXCEPT !.mode = mode, !.options = o])
          /\ UNCHANGED <<wake, lifecycle, core, Environment>>

InitialPreflightDone(t) ==
    /\ pc[t] = "preflight"
    /\ \/ /\ task[t].mode = "Legacy"
          /\ Go(t, "legacy_power", task[t])
          /\ UNCHANGED <<coordinator, state, wake, lifecycle, core,
                         Environment>>
       \/ /\ task[t].mode = "Recovery"
          /\ ReturnStale(t)
       \/ /\ task[t].mode = "Recovery"
          /\ IsCurrent(task[t].generation)
          /\ state' = [state EXCEPT !.initial_preflight = None]
          /\ Go(t, AfterPreflight(task[t]), task[t])
          /\ UNCHANGED <<coordinator, wake, lifecycle, core, Environment>>

CapabilityRefreshed(t) ==
    /\ pc[t] = "refresh"
    /\ \/ ReturnStale(t)
       \/ /\ IsCurrent(task[t].generation)
          /\ state' = [state EXCEPT !.refresh_capability_before_attempt = FALSE]
          /\ Go(t, AfterRefresh(task[t]), task[t])
          /\ UNCHANGED <<coordinator, wake, lifecycle, core, Environment>>

ReconcileFails(t) ==
    /\ pc[t] = "reconcile"
    /\ state' = [state EXCEPT !.reconcile_before_attempt = TRUE]
    /\ \E e \in Errors : Fail(t, e)
    /\ UNCHANGED <<coordinator, wake, lifecycle, core, Environment>>

OperationReconciled(t) ==
    /\ pc[t] = "reconcile"
    /\ \/ ReturnStale(t)
       \/ /\ IsCurrent(task[t].generation)
          /\ Go(t, AfterReconcile(task[t]), task[t])
          /\ UNCHANGED <<coordinator, state, wake, lifecycle, core,
                         Environment>>

(* wait_for_recovery_power, before a repair, a legacy start or the attempt *)
wait_for_recovery_power(t) ==
    /\ pc[t] \in {"repair", "legacy_power", "power"}
    /\ \/ ReturnStale(t)
       \/ /\ ~(Automatic(t) /\ asleep)
          /\ IsCurrent(task[t].generation)
          /\ Go(t, CASE pc[t] = "repair" -> "power"
                     [] pc[t] = "legacy_power" -> "legacy_abandon"
                     [] pc[t] = "power" -> "enter", task[t])
          /\ UNCHANGED <<coordinator, state, wake, lifecycle, core,
                         Environment>>
EnterAttempt(t) ==
    /\ pc[t] = "enter"
    /\ lifecycle = None
    /\ lifecycle' = t
    /\ Go(t, "attempting", [task[t] EXCEPT !.cancelled = FALSE])
    /\ UNCHANGED <<coordinator, state, wake, core, Environment>>

Connected(l, accepted) ==
    [phase |-> "Connected", lease |-> l, accepted |-> accepted]

(* The core answers with a connection: the one it already has, or, unless  *)
(* a Stop cancelled the attempt inside the core, a new one.                *)
AttemptSucceeds(t) ==
    /\ pc[t] = "attempting"
    /\ \/ /\ task[t].kind = "Start" /\ core.phase = "Connected"
          /\ core' = core
       \/ /\ ~(task[t].kind = "Start" /\ core.phase = "Connected")
          /\ ~task[t].cancelled
          /\ \E l \in Leases : core' = Connected(l, FALSE)
    /\ lifecycle' = None
    /\ Go(t, "succeeded", [task[t] EXCEPT !.lease = core'.lease])
    /\ UNCHANGED <<coordinator, state, wake, Environment>>

(* The attempt fails: cancelled, paused by the power gate, or refused.  It *)
(* leaves what the core had, a stopped core, or a cleanup still pending.   *)
AttemptFails(t) ==
    /\ pc[t] = "attempting"
    /\ core' \in {core} \cup
         IF task[t].kind = "Start" /\ core.phase = "Connected" THEN {}
         ELSE {[core EXCEPT !.phase = "Ready", !.accepted = TRUE]} \cup
              {[phase |-> "Stopping", lease |-> l, accepted |-> TRUE] :
                  l \in Leases}
    /\ \E e \in IF task[t].cancelled THEN {"terminal"}
                ELSE Errors \cup (IF Automatic(t) /\ asleep THEN {"deferred"}
                                                            ELSE {}) :
          Go(t, IF task[t].kind = "Start" THEN "failed" ELSE "stall_failed",
             [task[t] EXCEPT !.error = e])
    /\ lifecycle' = None
    /\ UNCHANGED <<coordinator, state, wake, Environment>>

(* Once the stalled lease is gone, later attempts are plain starts. *)
StalledLeaseChecked(t) ==
    /\ pc[t] = "stall_failed"
    /\ \E gone \in BOOLEAN :
          /\ gone => core.phase = "Ready"
          /\ state' = IF gone THEN [state EXCEPT !.attempt_kind = "Start"]
                              ELSE state
    /\ Go(t, "failed", task[t])
    /\ UNCHANGED <<coordinator, wake, lifecycle, core, Environment>>

(* Mutated form: a stale success gives the slot back and is forgotten. *)
complete_success_discarding(t) ==
    /\ pc[t] = "succeeded"
    /\ LET g == task[t].generation
           l == task[t].lease
       IN IF accept_result(coordinator, g)
            THEN /\ coordinator' = mark_connected(coordinator, g, l)
                 /\ state' = [state EXCEPT !.armed = TRUE, !.owned_lease = l]
                 /\ core' = [core EXCEPT !.accepted = TRUE]
                 /\ Return(t)
            ELSE /\ coordinator' = complete_compensation(coordinator, g)
                 /\ Return(t)
                 /\ UNCHANGED <<state, core>>
    /\ UNCHANGED <<wake, lifecycle, Environment>>

complete_success(t) ==
    /\ pc[t] = "succeeded"
    /\ LET g == task[t].generation
           l == task[t].lease
       IN IF accept_result(coordinator, g)
            THEN /\ coordinator' = mark_connected(coordinator, g, l)
                 /\ state' = [state EXCEPT !.next_retry_at = None,
                        !.retry_not_before = None, !.policy = DefaultPolicy,
                        !.refresh_capability_before_attempt = FALSE,
                        !.armed = TRUE, !.attempt_kind = "Start",
                        !.owned_lease = l, !.initial_preflight = None]
                 /\ core' = [core EXCEPT !.accepted = TRUE]
                 /\ Return(t)
            ELSE /\ Go(t, "compensating", task[t])
                 /\ UNCHANGED <<coordinator, state, core>>
    /\ UNCHANGED <<wake, lifecycle, Environment>>

(* compensate_stale_success retries until the core has given the result up *)
StaleResultUndone(t) ==
    /\ pc[t] = "compensating"
    /\ lifecycle = None
    /\ core' = [core EXCEPT !.phase = "Ready", !.accepted = TRUE]
    /\ Go(t, "compensated", task[t])
    /\ UNCHANGED <<coordinator, state, wake, lifecycle, Environment>>

CompensationFails(t) ==
    /\ pc[t] = "compensating"
    /\ lifecycle = None
    /\ core.phase # "Ready"
    /\ core' = [core EXCEPT !.phase = "Stopping", !.accepted = TRUE]
    /\ UNCHANGED <<coordinator, state, wake, pc, task, lifecycle, Environment>>

(* Mutated form: the compensation ends without giving the slot back. *)
CompensationForgotten(t) ==
    /\ pc[t] = "compensated"
    /\ Return(t)
    /\ UNCHANGED <<coordinator, state, wake, lifecycle, core, Environment>>

CompensationCompleted(t) ==
    /\ pc[t] = "compensated"
    /\ coordinator' = complete_compensation(coordinator, task[t].generation)
    /\ Return(t)
    /\ UNCHANGED <<state, wake, lifecycle, core, Environment>>

update_policy_context(p, e, decision) ==
    [p EXCEPT
       !.service_attempted = @ \/ (decision = "RetryOnce" /\ e = "service_once"),
       !.profile_attempted = @ \/ (decision = "RetryOnce" /\ e = "profile_once"),
       !.reconcile_attempted = @ \/ decision = "ReconcileOnce"]

(* Mutated form: the scheduler is not told of the retry. *)
RetryScheduledSilently(g, e, decision) ==
    /\ coordinator' = schedule_retry(AcceptedResult(coordinator), g)
    /\ state' = [state EXCEPT !.next_retry_at = "later"]
    /\ wake' = wake

(* Mutated form: the server's deadline is noted, but no retry scheduled. *)
RetryForgotten(g, e, decision) ==
    /\ coordinator' = AcceptedResult(coordinator)
    /\ state' = [state EXCEPT !.next_retry_at = None, !.retry_not_before = "later"]
    /\ wake' = TRUE

(* A failed attempt that stays current waits for its next turn. *)
RetryScheduled(g, e, decision) ==
    LET accepted == AcceptedResult(coordinator)
        after == decision = "RetryAfter"
        next == IF after THEN "later" ELSE retry_deadline(accepted)
    IN /\ coordinator' = IF after THEN accepted ELSE schedule_retry(accepted, g)
       /\ state' = [state EXCEPT
            !.refresh_capability_before_attempt =
                @ \/ decision = "RetryNewOperation",
            !.policy = update_policy_context(@, e, decision),
            !.reconcile_before_attempt =
                @ \/ decision \in {"ReconcileThenRetry", "ReconcileOnce"},
            !.repair_before_attempt =
                decision \in {"RetryOnce", "RestartLocalTunnel"},
            !.next_retry_at = next,
            !.retry_not_before = IF after THEN next ELSE None]
       /\ wake' = TRUE

(* A terminal failure ends an intent that never connected; an armed one    *)
(* stays blocked.                                                          *)
TerminalFailure(g) ==
    /\ coordinator' = mark_terminal(coordinator, g, state.armed)
    /\ state' = [state EXCEPT
            !.next_retry_at = None, !.retry_not_before = None,
            !.options = IF state.armed THEN @ ELSE None,
            !.initial_preflight = IF state.armed THEN @ ELSE None]
    /\ wake' = wake

(* The error of a stale attempt only gives the slot back; what the policy  *)
(* learned from it is written before the generation is looked at.          *)
StaleError(g, decision) ==
    /\ coordinator' = complete_compensation(coordinator, g)
    /\ state' = [state EXCEPT !.refresh_capability_before_attempt =
                    @ \/ decision = "RetryNewOperation"]
    /\ wake' = wake

(* Mutated form: a power pause forgets to schedule the attempt again. *)
AttemptDropped ==
    /\ coordinator' = AcceptedResult(coordinator)
    /\ wake' = TRUE
    /\ UNCHANGED state

(* A power pause is not a failure: the schedule is not advanced. *)
AttemptDeferred ==
    /\ coordinator' = AcceptedResult(coordinator)
    /\ state' = [state EXCEPT !.next_retry_at = "later"]
    /\ wake' = TRUE

complete_error(t) ==
    /\ pc[t] = "failed"
    /\ LET g == task[t].generation
           e == task[t].error
           decision == classify_recovery(e, state.policy)
       IN IF ~accept_result(coordinator, g) THEN
               StaleError(g, IF e = "deferred" THEN "deferred" ELSE decision)
          ELSE IF e = "deferred" THEN AttemptDeferred
          ELSE IF decision = "Terminal" THEN TerminalFailure(g)
          ELSE RetryScheduled(g, e, decision)
    /\ Return(t)
    /\ UNCHANGED <<lifecycle, core, Environment>>
----------------------------------------------------------------------------
(* The panel offers no recovery contract: give the intent up, start once.  *)

abandon_initial_intent_for_legacy(t) ==
    /\ pc[t] = "legacy_abandon"
    /\ LET g == task[t].generation
       IN IF can_cancel_intent(coordinator, g)
            THEN /\ coordinator' = complete_compensation(
                                      cancel_intent(coordinator, g), g)
                 /\ state' = [InitState EXCEPT !.armed = state.armed]
                 /\ Go(t, "legacy_enter", NoTask)
            ELSE /\ Return(t)
                 /\ UNCHANGED <<coordinator, state>>
    /\ UNCHANGED <<wake, lifecycle, core, Environment>>

EnterLegacyStart(t) ==
    /\ pc[t] = "legacy_enter"
    /\ lifecycle = None
    /\ lifecycle' = t
    /\ Go(t, "legacy_starting", NoTask)
    /\ UNCHANGED <<coordinator, state, wake, core, Environment>>

LegacyStartReturns(t) ==
    /\ pc[t] = "legacy_starting"
    /\ \/ core' = core
       \/ /\ core.phase # "Connected"
          /\ ~task[t].cancelled
          /\ \E l \in Leases : core' = Connected(l, TRUE)
       \/ /\ core.phase # "Connected"
          /\ core' \in {[phase |-> "Stopping", lease |-> l, accepted |-> TRUE] :
                           l \in Leases}
    /\ lifecycle' = None
    /\ Return(t)
    /\ UNCHANGED <<coordinator, state, wake, Environment>>

----------------------------------------------------------------------------
(* Stop command: cancel the intent, cancel the start inside the core, stop *)

cancel ==
    /\ stop = "idle"
    /\ stop' = "signal"
    /\ IF can_cancel_intent(coordinator, coordinator.generation)
         THEN /\ coordinator' = cancel_intent(coordinator,
                                              coordinator.generation)
              /\ state' = InitState
              /\ wake' = TRUE
         ELSE UNCHANGED <<coordinator, state, wake>>
    /\ UNCHANGED <<pc, task, lifecycle, core, asleep, network_changes>>

signal_start_cancellation ==
    /\ stop = "signal"
    /\ stop' = "stopping"
    /\ task' = [t \in Tasks |->
                  IF pc[t] \in {"attempting", "legacy_starting"}
                    THEN [task[t] EXCEPT !.cancelled = TRUE] ELSE task[t]]
    /\ UNCHANGED <<coordinator, state, wake, pc, lifecycle, core, asleep,
                   network_changes>>

(* The core stops, or keeps a cleanup that the pending-stop worker retries *)
StopApplication ==
    /\ stop = "stopping"
    /\ lifecycle = None
    /\ stop' = "idle"
    /\ \/ core' = [core EXCEPT !.phase = "Ready", !.accepted = TRUE]
       \/ /\ core.phase # "Ready"
          /\ core' = [core EXCEPT !.phase = "Stopping", !.accepted = TRUE]
    /\ UNCHANGED <<coordinator, state, wake, pc, task, lifecycle, asleep,
                   network_changes>>

retry_pending_stop ==
    /\ core.phase = "Stopping"
    /\ lifecycle = None
    /\ core' = [core EXCEPT !.phase = "Ready"]
    /\ UNCHANGED <<coordinator, state, wake, pc, task, lifecycle, Environment>>

----------------------------------------------------------------------------
(* The world outside.                                                      *)

TunnelLost ==
    /\ core.phase = "Connected"
    /\ lifecycle = None
    /\ core' = [core EXCEPT !.phase = "Stopping", !.accepted = TRUE]
    /\ UNCHANGED <<coordinator, state, wake, pc, task, lifecycle, Environment>>

NetworkChanges ==
    /\ network_changes < MaxNetworkChanges
    /\ can_wake_for_network_change(coordinator)
    /\ coordinator' = wake_for_network_change(coordinator)
    /\ wake' = TRUE
    /\ network_changes' = network_changes + 1
    /\ UNCHANGED <<state, pc, task, lifecycle, core, stop, asleep>>

PowerChanges ==
    /\ PowerPauses
    /\ asleep' = ~asleep
    /\ UNCHANGED <<coordinator, state, wake, pc, task, lifecycle, core, stop,
                   network_changes>>

(* Time reaches the pending deadline; the two deadlines are never apart.   *)
TimePasses ==
    /\ "later" \in {state.next_retry_at, state.retry_not_before}
    /\ LET Passed(d) == IF d = "later" THEN "due" ELSE d
       IN state' = [state EXCEPT !.next_retry_at = Passed(@),
                                 !.retry_not_before = Passed(@)]
    /\ UNCHANGED <<coordinator, wake, pc, task, lifecycle, core, Environment>>

----------------------------------------------------------------------------
StarterStep(u) ==
    ObserveCompleted(u) \/ ReadCoreState(u) \/ start_or_resume_internal(u)

SchedulerStep ==
    \/ SchedulerPoll \/ SchedulerNotified \/ SchedulerTimer
    \/ SchedulerCheck \/ SchedulerDefer

StallStep == StallObserved \/ StallRecoveredLocally \/ StallEscalates

AttemptStep(t) ==
    \/ RunAttempt(t) \/ StageFails(t)
    \/ InitialStartResolved(t) \/ InitialPreflightDone(t)
    \/ CapabilityRefreshed(t)
    \/ ReconcileFails(t) \/ OperationReconciled(t)
    \/ wait_for_recovery_power(t)
    \/ EnterAttempt(t) \/ AttemptSucceeds(t) \/ AttemptFails(t)
    \/ StalledLeaseChecked(t) \/ complete_success(t) \/ complete_error(t)
    \/ StaleResultUndone(t) \/ CompensationFails(t) \/ CompensationCompleted(t)
    \/ abandon_initial_intent_for_legacy(t)
    \/ EnterLegacyStart(t) \/ LegacyStartReturns(t)

StopStep == cancel \/ signal_start_cancellation \/ StopApplication

WorldStep ==
    retry_pending_stop \/ TunnelLost \/ NetworkChanges \/ PowerChanges
      \/ TimePasses

Next ==
    \/ \E u \in Starters : StarterStep(u)
    \/ SchedulerStep
    \/ StallStep
    \/ \E t \in Tasks : AttemptStep(t)
    \/ StopStep
    \/ WorldStep

Spec == Init /\ [][Next]_vars
(* What a task does next by itself, once it has something to do.           *)
TaskStep(t) ==
    \/ AttemptStep(t)
    \/ t = "scheduler" /\ SchedulerStep
    \/ t = "stall" /\ (StallEscalates \/ StallRecoveredLocally)
    \/ t \in Starters /\ (ReadCoreState(t) \/ start_or_resume_internal(t))

(* Tasks keep running, time passes, and the endless retries of a           *)
(* compensation meet a panel that answers.                                 *)
Fairness ==
    /\ \A t \in Tasks : WF_vars(TaskStep(t))
    /\ SF_vars(\E t \in Tasks : StaleResultUndone(t))
    /\ WF_vars(signal_start_cancellation \/ StopApplication)
    /\ WF_vars(TimePasses)

FairSpec == Spec /\ Fairness

----------------------------------------------------------------------------
(***************************************************************************)
(* Properties.                                                             *)
(***************************************************************************)

(* The type invariant of the runtime state, the tasks and the core. *)
TypeOK ==
    /\ coordinator \in Coordinators
    /\ state \in RuntimeStates
    /\ wake \in BOOLEAN
    /\ pc \in [Tasks -> Places]
    /\ task \in [Tasks -> TaskLocals]
    /\ lifecycle \in Tasks \cup {None}
    /\ core \in CoreStates
    /\ stop \in {"idle", "signal", "stopping"}
    /\ asleep \in BOOLEAN
    /\ network_changes \in 0 .. MaxNetworkChanges

HoldsSlot(t) == pc[t] \in AttemptPlaces

(* Start commands, the scheduler and the stall handler never run two       *)
(* start/recovery transactions at once: the task inside run_attempt is the *)
(* only one, and the coordinator's slot carries its generation, whatever   *)
(* was cancelled or restarted meanwhile.                                   *)
SingleAttempt ==
    /\ \A t \in Tasks : HoldsSlot(t) =>
          coordinator.attempt_generation = task[t].generation
    /\ \A t, u \in Tasks : HoldsSlot(t) /\ HoldsSlot(u) => t = u

(* A late success of a cancelled intent never leaves the application       *)
(* connected: a connection no intent accepted is still in the hands of the *)
(* task that will hand it over or undo it (complete_success).              *)
NoAbandonedConnection ==
    core.phase = "Connected" /\ ~core.accepted =>
        \E t \in Tasks : pc[t] \in {"succeeded", "compensating"}

(* The schedule of the retries is kept: while the scheduler waits for a    *)
(* notification and a retry is scheduled the permit is there, and no       *)
(* network wakeup makes the retry due while the server's retry_not_before  *)
(* lies ahead.                                                             *)
ScheduleIsKept ==
    /\ /\ pc["scheduler"] = "park"
       /\ coordinator.status = "Recovering"
       /\ state.next_retry_at # None \/ coordinator.network_wakeup_pending
       => wake
    /\ ~(state.retry_not_before = "later" /\ state.next_retry_at = "due")

(* Recovery is always driven by something: an attempt in flight, a task    *)
(* about to begin one, or a scheduled retry; and a slot that is taken has  *)
(* a task that will give it back.  (A network change between the           *)
(* scheduler's check and its attempt leaves recovery to the wakeup, and    *)
(* the hand-over to the legacy Start drops the intent before the slot.)    *)
RecoveryIsDriven ==
    network_changes = 0 =>
        /\ coordinator.status = "Recovering" =>
              \/ state.next_retry_at # None
              \/ \E t \in Tasks : HoldsSlot(t)
              \/ \E t \in Tasks : /\ pc[t] = "ready"
                                  /\ task[t].generation = coordinator.generation
        /\ coordinator.desired # None /\ coordinator.attempt_generation # None =>
              \E t \in Tasks : HoldsSlot(t)

(* Once the machine stays awake, a recovering intent is attempted again,   *)
(* until it is connected, blocked or cancelled: no retry is forgotten by   *)
(* the scheduler and no power pause swallows one.                          *)
RecoveryIsAttempted ==
    <>[]~asleep =>
        (coordinator.status = "Recovering" ~>
            (coordinator.attempt_generation # None
               \/ coordinator.status # "Recovering"))

(* After a cancellation the slot is given back, so that the next Start is  *)
(* accepted: the attempt in flight ends, even in a power pause, and a late *)
(* success is undone.                                                      *)
CancelledSlotIsReleased ==
    (coordinator.desired = None /\ coordinator.attempt_generation # None)
        ~> coordinator.attempt_generation = None
=============================================================================
