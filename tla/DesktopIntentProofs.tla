------------------------ MODULE DesktopIntentProofs ------------------------
(***************************************************************************)
(* For every set of Start commands, every number of generations and every  *)
(* network and power behaviour: the types of DesktopIntent, that attempts  *)
(* never overlap, that no connection is abandoned, that the schedule of    *)
(* retries is kept and that recovery is driven.                            *)
(***************************************************************************)
EXTENDS DesktopIntent, TLAPS

(* The retry schedule is not empty, so it has a first and a second index,  *)
(* and the next index of one that is not the last.                         *)
LEMMA RetryIndexFacts ==
    /\ 0 \in RetryIndexes
    /\ 1 \in RetryIndexes
    /\ \A i \in RetryIndexes : i < LastRetryIndex => i + 1 \in RetryIndexes
<1>1. LastRetryIndex \in Nat \ {0}
  BY CoordinatorConstants DEF LastRetryIndex
<1> QED BY <1>1 DEF RetryIndexes

(* A generation that is not the last has a next one. *)
LEMMA NextGeneration ==
    ASSUME NEW g \in Generations, g # MaxGeneration
    PROVE  g + 1 \in Generations
BY CoordinatorConstants DEF Generations

(* The coordinator's methods that only end in a coordinator of the same    *)
(* type and leave the attempt slot alone.                                  *)
LEMMA SlotKept ==
    ASSUME NEW c \in Coordinators, NEW g, NEW t \in Templates
    PROVE  /\ schedule_retry(c, g) \in Coordinators
           /\ schedule_retry(c, g).attempt_generation = c.attempt_generation
           /\ handle_stall(c, g, t) \in Coordinators
           /\ handle_stall(c, g, t).attempt_generation = c.attempt_generation
           /\ take_network_wakeup(c) \in Coordinators
           /\ take_network_wakeup(c).attempt_generation = c.attempt_generation
           /\ wake_for_network_change(c) \in Coordinators
           /\ wake_for_network_change(c).attempt_generation
                = c.attempt_generation
           /\ cancel_intent(c, g) \in Coordinators
           /\ cancel_intent(c, g).attempt_generation = c.attempt_generation
           /\ replace_active_options(c, g, t) \in Coordinators
           /\ replace_active_options(c, g, t).attempt_generation
                = c.attempt_generation
<1>1. /\ schedule_retry(c, g) \in Coordinators
      /\ schedule_retry(c, g).attempt_generation = c.attempt_generation
  BY Zenon, RetryIndexFacts
     DEF schedule_retry, Coordinators, ConnectionIntentStatus
<1>2. /\ handle_stall(c, g, t) \in Coordinators
      /\ handle_stall(c, g, t).attempt_generation = c.attempt_generation
  BY Zenon, RetryIndexFacts DEF handle_stall, Coordinators, ConnectionIntentStatus
<1>3. /\ take_network_wakeup(c) \in Coordinators
      /\ take_network_wakeup(c).attempt_generation = c.attempt_generation
  BY Zenon, RetryIndexFacts DEF take_network_wakeup, Coordinators
<1>4. /\ wake_for_network_change(c) \in Coordinators
      /\ wake_for_network_change(c).attempt_generation = c.attempt_generation
  BY Zenon DEF wake_for_network_change, Coordinators
<1>5. /\ cancel_intent(c, g) \in Coordinators
      /\ cancel_intent(c, g).attempt_generation = c.attempt_generation
  <2>1. c.generation # MaxGeneration => c.generation + 1 \in Generations
    BY NextGeneration DEF Coordinators
  <2> QED
    BY Zenon, <2>1, RetryIndexFacts
       DEF cancel_intent, Coordinators, ConnectionIntentStatus
<1>6. /\ replace_active_options(c, g, t) \in Coordinators
      /\ replace_active_options(c, g, t).attempt_generation
            = c.attempt_generation
  BY DEF replace_active_options, Coordinators
<1> QED BY <1>1, <1>2, <1>3, <1>4, <1>5, <1>6

(* start_or_resume does not touch the slot either, and a new generation    *)
(* is still one: it is only counted up below the last one.                 *)
LEMMA StartKeepsSlot ==
    ASSUME NEW c \in Coordinators, NEW t \in Templates
    PROVE  /\ start_or_resume(c, t) \in Coordinators
           /\ start_or_resume(c, t).attempt_generation = c.attempt_generation
<1>0. t # None
  BY CoordinatorConstants
<1>1. CASE /\ start_disposition(c, t) = "Recovering"
           /\ (c.desired = None \/ c.status = "BlockedTerminal")
  <2>1. c.generation # MaxGeneration
    BY <1>0, <1>1 DEF start_disposition
  <2>2. c.generation + 1 \in Generations
    BY <2>1, NextGeneration DEF Coordinators
  <2>3. start_or_resume(c, t) = NewIntent(c, t)
    BY <1>1 DEF start_or_resume
  <2> QED
    BY ZenonT(60), <2>2, <2>3, RetryIndexFacts
       DEF NewIntent, Coordinators, ConnectionIntentStatus
<1>2. CASE ~(/\ start_disposition(c, t) = "Recovering"
             /\ (c.desired = None \/ c.status = "BlockedTerminal"))
  BY Zenon, <1>2 DEF start_or_resume, Coordinators
<1> QED BY <1>1, <1>2

(* The methods that end an attempt free the slot of that attempt only. *)
LEMMA SlotFreed ==
    ASSUME NEW c \in Coordinators, NEW g \in Generations,
           NEW l \in Leases \cup {None}, NEW armed \in BOOLEAN
    PROVE  /\ complete_compensation(c, g) \in Coordinators
           /\ complete_compensation(c, g).attempt_generation
                \in {c.attempt_generation, None}
           /\ c.attempt_generation # g =>
                complete_compensation(c, g).attempt_generation
                    = c.attempt_generation
           /\ mark_connected(c, g, l) \in Coordinators
           /\ mark_terminal(c, g, armed) \in Coordinators
           /\ AcceptedResult(c) \in Coordinators
<1>1. /\ complete_compensation(c, g) \in Coordinators
      /\ complete_compensation(c, g).attempt_generation
            \in {c.attempt_generation, None}
      /\ c.attempt_generation # g =>
            complete_compensation(c, g).attempt_generation
                = c.attempt_generation
  BY DEF complete_compensation, can_complete_compensation, Coordinators
<1>2. AcceptedResult(c) \in Coordinators
  BY DEF AcceptedResult, Coordinators
<1>3. mark_connected(c, g, l) \in Coordinators
  BY Zenon, <1>2, RetryIndexFacts DEF mark_connected, Coordinators, ConnectionIntentStatus
<1>4. mark_terminal(c, g, armed) \in Coordinators
  BY ZenonT(60), <1>2 DEF mark_terminal, Coordinators, ConnectionIntentStatus
<1> QED BY <1>1, <1>2, <1>3, <1>4

----------------------------------------------------------------------------
(* What every step keeps: the types, and that attempts do not overlap. *)
IInv == TypeOK /\ SingleAttempt

(* A generation is never the absent value, so a task that holds the slot   *)
(* shows that it is taken.                                                 *)
LEMMA GenerationIsSome == None \notin Generations
BY CoordinatorConstants DEF Generations

(* The task's home is a place outside run_attempt, where it has no locals. *)
LEMMA HomeFacts ==
    ASSUME NEW t \in Tasks
    PROVE  /\ Home(t) \in Places \ AttemptPlaces
           /\ NoTask \in TaskLocals
<1>1. Home(t) \in Places \ AttemptPlaces
  BY DEF Home, Places, AttemptPlaces
<1>2. 0 \in Generations
  BY CoordinatorConstants DEF Generations
<1>3. NoTask \in TaskLocals
  BY <1>2 DEF NoTask, TaskLocals, AttemptKinds, Preflights
<1> QED BY <1>1, <1>3

(* Moving one task leaves the others where they are. *)
LEMMA GoMoves ==
    ASSUME TypeOK, NEW t \in Tasks, NEW place \in Places,
           NEW l \in TaskLocals, Go(t, place, l)
    PROVE  /\ pc' \in [Tasks -> Places]
           /\ task' \in [Tasks -> TaskLocals]
           /\ pc'[t] = place
           /\ task'[t] = l
           /\ \A u \in Tasks \ {t} : pc'[u] = pc[u] /\ task'[u] = task[u]
BY DEF TypeOK, Go

(* A task moves inside run_attempt, or outside it, and the slot is left.   *)
LEMMA MoveKeepsSlot ==
    ASSUME IInv, NEW t \in Tasks, NEW place \in Places,
           NEW l \in TaskLocals, Go(t, place, l),
           place \in AttemptPlaces =>
               HoldsSlot(t) /\ l.generation = task[t].generation,
           coordinator'.attempt_generation = coordinator.attempt_generation
    PROVE  SingleAttempt'
BY GoMoves DEF IInv, SingleAttempt, HoldsSlot

(* A task enters run_attempt when the slot is free. *)
LEMMA MoveTakesSlot ==
    ASSUME IInv, NEW t \in Tasks, NEW place \in Places,
           NEW l \in TaskLocals, Go(t, place, l),
           coordinator.attempt_generation = None,
           coordinator'.attempt_generation = l.generation
    PROVE  SingleAttempt'
<1>1. \A u \in Tasks : ~HoldsSlot(u)
  BY GenerationIsSome DEF IInv, TypeOK, SingleAttempt, TaskLocals
<1> QED BY <1>1, GoMoves DEF IInv, SingleAttempt, HoldsSlot

(* The task that holds the slot leaves run_attempt. *)
LEMMA MoveLeavesSlot ==
    ASSUME IInv, NEW t \in Tasks, NEW place \in Places,
           NEW l \in TaskLocals, Go(t, place, l),
           HoldsSlot(t), place \notin AttemptPlaces
    PROVE  SingleAttempt'
<1>1. \A u \in Tasks \ {t} : ~HoldsSlot(u)
  BY DEF IInv, SingleAttempt
<1> QED BY <1>1, GoMoves DEF IInv, SingleAttempt, HoldsSlot

(* A stale task gives its slot back, if it may, and goes home. *)
LEMMA ReturnStaleStep ==
    ASSUME IInv, NEW t \in Tasks, HoldsSlot(t), ReturnStale(t)
    PROVE  IInv'
<1>1. coordinator' \in Coordinators
  <2>1. complete_compensation(coordinator, task[t].generation) \in Coordinators
    BY DEF complete_compensation, Coordinators, IInv, TypeOK
  <2> QED BY <2>1 DEF ReturnStale
<1>2. Go(t, Home(t), NoTask)
  BY DEF ReturnStale, Return
<1>3. SingleAttempt'
  BY <1>2, HomeFacts, MoveLeavesSlot
<1>4. TypeOK'
  BY <1>1, <1>2, HomeFacts, GoMoves DEF ReturnStale, IInv, TypeOK
<1> QED BY <1>3, <1>4 DEF IInv

----------------------------------------------------------------------------
(* The runtime state an intent starts from, and returns to on cancel. *)
LEMMA InitStateType == InitState \in RuntimeStates
<1>1. DefaultPolicy \in PolicyContexts /\ None \in Deadlines
  BY DEF DefaultPolicy, PolicyContexts, Deadlines
<1> QED
  BY <1>1 DEF InitState, RuntimeStates, AttemptKinds, Preflights

(* The initial state satisfies the invariant. *)
LEMMA InitOK == Init => IInv
<1> SUFFICES ASSUME Init PROVE IInv
  OBVIOUS
<1>1. coordinator \in Coordinators
  <2>1. 0 \in Generations
    BY CoordinatorConstants DEF Generations
  <2> QED
    BY <2>1, RetryIndexFacts
       DEF Init, InitCoordinator, Coordinators, ConnectionIntentStatus
<1>2. state \in RuntimeStates
  BY InitStateType DEF Init
<1>3. /\ pc \in [Tasks -> Places]
      /\ task \in [Tasks -> TaskLocals]
      /\ \A t \in Tasks : pc[t] \notin AttemptPlaces
  BY HomeFacts DEF Init, Home
<1>4. core \in CoreStates
  BY DEF Init, CoreStates, CorePhases
<1>5. network_changes \in 0 .. MaxNetworkChanges
  BY IntentConstants DEF Init
<1>6. TypeOK
  BY Zenon, <1>1, <1>2, <1>3, <1>4, <1>5 DEF Init, TypeOK
<1>7. SingleAttempt
  BY <1>3 DEF SingleAttempt, HoldsSlot
<1> QED BY <1>6, <1>7 DEF IInv

----------------------------------------------------------------------------
(* Start commands. *)
LEMMA StarterStepOK ==
    ASSUME IInv, NEW u \in Starters, StarterStep(u)
    PROVE  IInv'
<1>0. u \in Tasks /\ TypeOK
  BY DEF Tasks, IInv
<1>1. CASE ObserveCompleted(u)
  <2> DEFINE l == [NoTask EXCEPT !.generation = coordinator.generation,
                      !.observed = completed_connection(coordinator)]
  <2>1. l \in TaskLocals
    BY ZenonT(60), <1>0, HomeFacts
       DEF TypeOK, Coordinators, TaskLocals, completed_connection
  <2>2. Go(u, "observed", l) /\ "observed" \in Places \ AttemptPlaces
    BY <1>1 DEF ObserveCompleted, Places, AttemptPlaces
  <2> HIDE DEF l
  <2>3. SingleAttempt'
    BY <1>0, <1>1, <2>1, <2>2, MoveKeepsSlot DEF ObserveCompleted
  <2>4. TypeOK'
    BY <1>0, <1>1, <2>1, <2>2, GoMoves
       DEF ObserveCompleted, Environment, TypeOK
  <2> QED BY <2>3, <2>4 DEF IInv
<1>2. CASE ReadCoreState(u)
  <2> DEFINE l == [task[u] EXCEPT !.snapshot = core]
  <2>1. l \in TaskLocals
    BY <1>0 DEF TypeOK, TaskLocals
  <2>2. Go(u, "snapped", l) /\ "snapped" \in Places \ AttemptPlaces
    BY <1>2 DEF ReadCoreState, Places, AttemptPlaces
  <2> HIDE DEF l
  <2>3. SingleAttempt'
    BY <1>0, <1>2, <2>1, <2>2, MoveKeepsSlot DEF ReadCoreState
  <2>4. TypeOK'
    BY <1>0, <1>2, <2>1, <2>2, GoMoves DEF ReadCoreState, Environment, TypeOK
  <2> QED BY <2>3, <2>4 DEF IInv
<1>3. CASE start_or_resume_internal(u)
  <2> DEFINE
        Kept == {coordinator, cancel_intent(coordinator, coordinator.generation)}
        Base == {state, [state EXCEPT !.armed = FALSE, !.owned_lease = None,
                                      !.attempt_kind = "Start"]}
  <2>1. PICK t \in Templates, p \in {"start", "quick"}, kept \in Kept,
             base \in Base :
          LET resumed == start_or_resume(kept, t)
          IN \/ /\ coordinator' = schedule_retry(resumed, resumed.generation)
                /\ state' = initialize_episode(base, t, p)
                /\ Go(u, "ready",
                      [NoTask EXCEPT !.generation = resumed.generation])
             \/ /\ coordinator' = resumed
                /\ state' = base
                /\ Return(u)
    BY <1>3 DEF start_or_resume_internal, consume_immediate_retry_slot
  <2>2. /\ kept \in Coordinators
        /\ kept.attempt_generation = coordinator.attempt_generation
    BY SMTT(40), <1>0, <2>1, SlotKept DEF TypeOK
  <2> DEFINE resumed == start_or_resume(kept, t)
  <2>3. /\ resumed \in Coordinators
        /\ resumed.attempt_generation = coordinator.attempt_generation
    BY <2>1, <2>2, StartKeepsSlot
  <2>4. /\ schedule_retry(resumed, resumed.generation) \in Coordinators
        /\ schedule_retry(resumed, resumed.generation).attempt_generation
              = coordinator.attempt_generation
    BY <2>1, <2>3, SlotKept
  <2>5. base \in RuntimeStates
    BY ZenonT(60), <1>0, <2>1 DEF TypeOK, RuntimeStates, AttemptKinds
  <2>6. initialize_episode(base, t, p) \in RuntimeStates
    <3>1. /\ t \in Templates /\ p \in Preflights
          /\ DefaultPolicy \in PolicyContexts
          /\ None \in Deadlines
      BY <2>1 DEF Preflights, DefaultPolicy, PolicyContexts, Deadlines
    <3> QED
      BY Zenon, <2>5, <3>1 DEF initialize_episode, RuntimeStates, AttemptKinds
  <2>7. [NoTask EXCEPT !.generation = resumed.generation] \in TaskLocals
    BY <1>0, <2>3, HomeFacts DEF TaskLocals, Coordinators
  <2>8. /\ coordinator' \in Coordinators
        /\ coordinator'.attempt_generation = coordinator.attempt_generation
        /\ state' \in RuntimeStates
    BY <2>1, <2>3, <2>4, <2>5, <2>6
  <2>9. \E place \in Places \ AttemptPlaces, l \in TaskLocals :
            Go(u, place, l)
    <3>1. "ready" \in Places \ AttemptPlaces
      BY DEF Places, AttemptPlaces
    <3> QED BY <1>0, <2>1, <2>7, <3>1, HomeFacts DEF Return
  <2>10. SingleAttempt'
    BY <1>0, <2>8, <2>9, MoveKeepsSlot
  <2>11. TypeOK'
    <3>1. /\ pc' \in [Tasks -> Places]
          /\ task' \in [Tasks -> TaskLocals]
      BY <1>0, <2>9, GoMoves
    <3>2. UNCHANGED <<wake, lifecycle, core, Environment>>
      BY <1>3 DEF start_or_resume_internal
    <3> QED BY <1>0, <2>8, <3>1, <3>2 DEF Environment, TypeOK
  <2> QED BY <2>10, <2>11 DEF IInv
<1> QED BY <1>1, <1>2, <1>3 DEF StarterStep

----------------------------------------------------------------------------
(* The scheduler loop: it never holds the slot outside run_attempt. *)
LEMMA SchedulerStepOK ==
    ASSUME IInv, SchedulerStep
    PROVE  IInv'
<1>0. "scheduler" \in Tasks /\ TypeOK
  BY DEF Tasks, IInv
<1>1. \E place \in Places \ AttemptPlaces, l \in TaskLocals :
          Go("scheduler", place, l)
  <2>1. {"park", "sleep", "check", "defer", "ready"}
            \subseteq Places \ AttemptPlaces
    BY DEF Places, AttemptPlaces
  <2>2. [NoTask EXCEPT !.generation = coordinator.generation] \in TaskLocals
    BY <1>0, HomeFacts DEF TypeOK, TaskLocals, Coordinators
  <2>3. CASE SchedulerPoll
    BY <1>0, <2>1, <2>3, HomeFacts DEF SchedulerPoll
  <2>4. CASE SchedulerNotified \/ SchedulerTimer \/ SchedulerDefer
    BY Zenon, <1>0, <2>1, <2>4, HomeFacts
       DEF SchedulerNotified, SchedulerTimer, SchedulerDefer, Return
  <2>5. CASE SchedulerCheck
    BY <1>0, <2>1, <2>2, <2>5, HomeFacts DEF SchedulerCheck, Return
  <2> QED BY <2>3, <2>4, <2>5 DEF SchedulerStep
<1>2. /\ coordinator' \in Coordinators
      /\ coordinator'.attempt_generation = coordinator.attempt_generation
      /\ state' \in RuntimeStates
      /\ wake' \in BOOLEAN
  <2>1. CASE SchedulerPoll
    <3>1. /\ coordinator' = take_network_wakeup(coordinator)
          /\ \E next \in Deadlines :
                state' = [state EXCEPT !.next_retry_at = next]
          /\ wake' = wake
      BY <1>0, <2>1 DEF SchedulerPoll, retry_at_after_wakeup, TypeOK,
            RuntimeStates, Deadlines
    <3>2. take_network_wakeup(coordinator) \in Coordinators
          /\ take_network_wakeup(coordinator).attempt_generation
                = coordinator.attempt_generation
      BY <1>0, SlotKept, IntentConstants DEF TypeOK
    <3> QED BY <1>0, <3>1, <3>2 DEF TypeOK, RuntimeStates
  <2>2. CASE SchedulerNotified \/ SchedulerDefer
    BY Zenon, <1>0, <2>2 DEF SchedulerNotified, SchedulerDefer, TypeOK
  <2>3. CASE SchedulerTimer \/ SchedulerCheck
    BY <1>0, <2>3 DEF SchedulerTimer, SchedulerCheck, TypeOK
  <2> QED BY <2>1, <2>2, <2>3 DEF SchedulerStep
<1>3. UNCHANGED <<lifecycle, core, stop, asleep, network_changes>>
  BY Zenon DEF SchedulerStep, SchedulerPoll, SchedulerNotified, SchedulerTimer,
         SchedulerCheck, SchedulerDefer, Environment
<1>4. SingleAttempt'
  BY <1>0, <1>1, <1>2, MoveKeepsSlot
<1>5. /\ pc' \in [Tasks -> Places]
      /\ task' \in [Tasks -> TaskLocals]
  BY <1>0, <1>1, GoMoves
<1>6. TypeOK'
  BY <1>0, <1>2, <1>3, <1>5 DEF TypeOK
<1> QED BY <1>4, <1>6 DEF IInv

(* The stall handler, up to run_attempt. *)
LEMMA StallStepOK ==
    ASSUME IInv, StallStep
    PROVE  IInv'
<1>0. "stall" \in Tasks /\ TypeOK
  BY DEF Tasks, IInv
<1>1. \E place \in Places \ AttemptPlaces, l \in TaskLocals :
          Go("stall", place, l)
  <2>1. {"local", "ready"} \subseteq Places \ AttemptPlaces
    BY DEF Places, AttemptPlaces
  <2>2. CASE StallObserved
    <3>1. [NoTask EXCEPT !.generation = coordinator.generation,
                         !.options = state.options] \in TaskLocals
      BY Zenon, <1>0, HomeFacts DEF TypeOK, TaskLocals, Coordinators, RuntimeStates
    <3> QED BY <2>1, <2>2, <3>1 DEF StallObserved
  <2>3. CASE StallRecoveredLocally
    BY <1>0, <2>3, HomeFacts DEF StallRecoveredLocally, Return
  <2>4. CASE StallEscalates
    <3>1. [NoTask EXCEPT !.generation = task["stall"].generation]
            \in TaskLocals
      BY <1>0, HomeFacts DEF TypeOK, TaskLocals
    <3> QED BY <1>0, <2>1, <2>4, <3>1, HomeFacts DEF StallEscalates, Return
  <2> QED BY <2>2, <2>3, <2>4 DEF StallStep
<1>2. /\ coordinator' \in Coordinators
      /\ coordinator'.attempt_generation = coordinator.attempt_generation
      /\ state' \in RuntimeStates
  <2>1. CASE StallObserved \/ StallRecoveredLocally
    BY <1>0, <2>1 DEF StallObserved, StallRecoveredLocally, TypeOK
  <2>2. CASE StallEscalates /\ UNCHANGED <<coordinator, state>>
    BY <1>0, <2>2 DEF TypeOK
  <2>3. CASE StallEscalates /\ ~UNCHANGED <<coordinator, state>>
    <3> DEFINE l == task["stall"]
               c == handle_stall(coordinator, l.generation, l.options)
    <3>1. /\ can_handle_stall(coordinator, l.generation, l.options)
          /\ coordinator' = schedule_retry(c, l.generation)
          /\ state' = [state EXCEPT
                        !.attempt_kind = "StallReplacement",
                        !.refresh_capability_before_attempt = TRUE,
                        !.next_retry_at = None, !.retry_not_before = None]
      BY <2>3 DEF StallEscalates, consume_immediate_retry_slot
    <3>2. c \in Coordinators
          /\ c.attempt_generation = coordinator.attempt_generation
      BY Zenon, <1>0, RetryIndexFacts
         DEF handle_stall, TypeOK, Coordinators, ConnectionIntentStatus
    <3>3. schedule_retry(c, l.generation) \in Coordinators
          /\ schedule_retry(c, l.generation).attempt_generation
                = c.attempt_generation
      BY <3>2, SlotKept, IntentConstants
    <3>4. state' \in RuntimeStates
      BY Zenon, <1>0, <3>1 DEF TypeOK, RuntimeStates, AttemptKinds, Deadlines
    <3> QED BY <3>1, <3>2, <3>3, <3>4
  <2> QED BY <2>1, <2>2, <2>3 DEF StallStep
<1>3. UNCHANGED <<wake, lifecycle, core, stop, asleep, network_changes>>
  BY DEF StallStep, StallObserved, StallRecoveredLocally, StallEscalates,
         Environment
<1>4. SingleAttempt'
  BY <1>0, <1>1, <1>2, MoveKeepsSlot
<1>5. /\ pc' \in [Tasks -> Places]
      /\ task' \in [Tasks -> TaskLocals]
  BY <1>0, <1>1, GoMoves
<1>6. TypeOK'
  BY <1>0, <1>2, <1>3, <1>5 DEF TypeOK
<1> QED BY <1>4, <1>6 DEF IInv

----------------------------------------------------------------------------
(* A Stop command moves no other task. *)
LEMMA StopStepOK ==
    ASSUME IInv, StopStep
    PROVE  IInv'
<1>0. TypeOK /\ SingleAttempt
  BY DEF IInv
<1>1. CASE cancel
  <2>1. /\ coordinator' \in Coordinators
        /\ coordinator'.attempt_generation = coordinator.attempt_generation
    BY <1>0, <1>1, SlotKept, IntentConstants DEF cancel, TypeOK
  <2>2. state' \in RuntimeStates
    BY <1>0, <1>1, InitStateType DEF cancel, TypeOK
  <2>3. /\ wake' \in BOOLEAN /\ stop' = "signal"
        /\ UNCHANGED <<pc, task, lifecycle, core, asleep, network_changes>>
    BY Zenon, <1>0, <1>1 DEF cancel, TypeOK
  <2>4. TypeOK'
    BY <1>0, <2>1, <2>2, <2>3 DEF TypeOK
  <2>5. SingleAttempt'
    BY <1>0, <2>1, <2>3 DEF SingleAttempt, HoldsSlot
  <2> QED BY <2>4, <2>5 DEF IInv
<1>2. CASE signal_start_cancellation
  <2>1. /\ task' \in [Tasks -> TaskLocals]
        /\ \A t \in Tasks : task'[t].generation = task[t].generation
    <3>1. \A l \in TaskLocals :
            /\ [l EXCEPT !.cancelled = TRUE] \in TaskLocals
            /\ [l EXCEPT !.cancelled = TRUE].generation = l.generation
      BY Zenon DEF TaskLocals
    <3> QED BY <1>0, <1>2, <3>1 DEF signal_start_cancellation, TypeOK
  <2>2. TypeOK'
    BY <1>0, <1>2, <2>1 DEF signal_start_cancellation, TypeOK
  <2>3. SingleAttempt'
    BY <1>0, <1>2, <2>1
       DEF signal_start_cancellation, SingleAttempt, HoldsSlot
  <2> QED BY <2>2, <2>3 DEF IInv
<1>3. CASE StopApplication
  <2>1. core' \in CoreStates
    BY Zenon, <1>0, <1>3 DEF StopApplication, TypeOK, CoreStates, CorePhases
  <2>2. TypeOK'
    BY <1>0, <1>3, <2>1 DEF StopApplication, TypeOK
  <2>3. SingleAttempt'
    BY <1>0, <1>3 DEF StopApplication, SingleAttempt, HoldsSlot
  <2> QED BY <2>2, <2>3 DEF IInv
<1> QED BY <1>1, <1>2, <1>3 DEF StopStep

(* Time, power, the network and the pending-stop worker move no task. *)
LEMMA WorldStepOK ==
    ASSUME IInv, WorldStep
    PROVE  IInv'
<1>0. TypeOK /\ SingleAttempt
  BY DEF IInv
<1>1. /\ coordinator' \in Coordinators
      /\ coordinator'.attempt_generation = coordinator.attempt_generation
  <2>1. CASE NetworkChanges
    BY <1>0, <2>1, SlotKept, IntentConstants DEF NetworkChanges, TypeOK
  <2>2. CASE ~NetworkChanges
    BY <1>0, <2>2 DEF WorldStep, retry_pending_stop, TunnelLost,
          PowerChanges, TimePasses, TypeOK
  <2> QED BY <2>1, <2>2
<1>2. /\ wake' \in BOOLEAN
      /\ network_changes' \in 0 .. MaxNetworkChanges
      /\ asleep' \in BOOLEAN
  <2>1. CASE NetworkChanges
    BY <1>0, <2>1, IntentConstants DEF NetworkChanges, TypeOK
  <2>2. CASE PowerChanges
    BY <1>0, <2>2 DEF PowerChanges, TypeOK
  <2>3. CASE ~NetworkChanges /\ ~PowerChanges
    BY <1>0, <2>3 DEF WorldStep, retry_pending_stop, TunnelLost, TimePasses,
          Environment, TypeOK
  <2> QED BY <2>1, <2>2, <2>3
<1>3. state' \in RuntimeStates
  BY ZenonT(60), <1>0 DEF WorldStep, retry_pending_stop, TunnelLost, NetworkChanges,
         PowerChanges, TimePasses, Environment, TypeOK, RuntimeStates,
         Deadlines
<1>4. core' \in CoreStates
  BY Zenon, <1>0 DEF WorldStep, retry_pending_stop, TunnelLost, NetworkChanges,
         PowerChanges, TimePasses, Environment, TypeOK, CoreStates,
         CorePhases
<1>5. UNCHANGED <<pc, task, lifecycle, stop>>
  BY DEF WorldStep, retry_pending_stop, TunnelLost, NetworkChanges,
         PowerChanges, TimePasses, Environment
<1>6. TypeOK'
  BY <1>0, <1>1, <1>2, <1>3, <1>4, <1>5 DEF TypeOK
<1>7. SingleAttempt'
  BY <1>0, <1>1, <1>5 DEF SingleAttempt, HoldsSlot
<1> QED BY <1>6, <1>7 DEF IInv

----------------------------------------------------------------------------
(* The first critical section of run_attempt takes a free slot or none. *)
LEMMA RunAttemptOK ==
    ASSUME IInv, NEW t \in Tasks, RunAttempt(t)
    PROVE  IInv'
<1>0. TypeOK
  BY DEF IInv
<1>1. CASE Return(t) /\ UNCHANGED <<coordinator, state>>
  <2>1. SingleAttempt'
    BY <1>1, HomeFacts, MoveKeepsSlot DEF Return
  <2>2. pc' \in [Tasks -> Places] /\ task' \in [Tasks -> TaskLocals]
    BY <1>0, <1>1, HomeFacts, GoMoves DEF Return
  <2>3. TypeOK'
    BY <1>0, <1>1, <2>2 DEF RunAttempt, Environment, TypeOK
  <2> QED BY <2>1, <2>3 DEF IInv
<1>2. CASE ~(Return(t) /\ UNCHANGED <<coordinator, state>>)
  <2> DEFINE
        l == [task[t] EXCEPT
                !.options = state.options,
                !.kind = state.attempt_kind,
                !.preflight = state.initial_preflight,
                !.reconcile = state.reconcile_before_attempt,
                !.repair = state.repair_before_attempt,
                !.refresh = state.refresh_capability_before_attempt]
        place == IF l.preflight = None THEN AfterPreflight(l) ELSE "resolve"
  <2>1. /\ can_begin_attempt(coordinator, task[t].generation)
        /\ coordinator' = begin_attempt(coordinator, l.generation)
        /\ state' = AttemptBegun(state)
        /\ Go(t, place, l)
    BY <1>2 DEF RunAttempt
  <2>2. l \in TaskLocals /\ l.generation = task[t].generation
    <3>1. /\ state.options \in Templates \cup {None}
          /\ state.attempt_kind \in AttemptKinds
          /\ state.initial_preflight \in Preflights
          /\ state.reconcile_before_attempt \in BOOLEAN
          /\ state.repair_before_attempt \in BOOLEAN
          /\ state.refresh_capability_before_attempt \in BOOLEAN
      BY <1>0 DEF TypeOK, RuntimeStates
    <3>2. task[t] \in TaskLocals
      BY <1>0 DEF TypeOK
    <3> QED BY Zenon, <3>1, <3>2 DEF TaskLocals
  <2>3. place \in AttemptPlaces
    BY DEF AfterPreflight, AfterRefresh, AfterReconcile, AttemptPlaces
  <2>4. /\ coordinator.attempt_generation = None
        /\ coordinator' \in Coordinators
        /\ coordinator'.attempt_generation = l.generation
    BY <1>0, <2>1, <2>2
       DEF TypeOK, can_begin_attempt, begin_attempt, Coordinators
  <2>5. state' \in RuntimeStates
    BY Zenon, <1>0, <2>1 DEF TypeOK, RuntimeStates, Deadlines, AttemptBegun
  <2>6. place \in Places
    BY <2>3 DEF Places
  <2> HIDE DEF l, place
  <2>7. SingleAttempt'
    BY <2>1, <2>2, <2>4, <2>6, MoveTakesSlot
  <2>8. pc' \in [Tasks -> Places] /\ task' \in [Tasks -> TaskLocals]
    BY <1>0, <2>1, <2>2, <2>6, GoMoves
  <2>9. TypeOK'
    BY <1>0, <2>4, <2>5, <2>8 DEF RunAttempt, Environment, TypeOK
  <2> QED BY <2>7, <2>9 DEF IInv
<1> QED BY <1>1, <1>2

(* The steps between two critical sections of an attempt: the awaited      *)
(* calls answer, and the task that holds the slot moves on with it.        *)
AwaitStep(t) ==
    \/ StageFails(t) \/ ReconcileFails(t) \/ EnterAttempt(t)
    \/ AttemptSucceeds(t) \/ AttemptFails(t) \/ StalledLeaseChecked(t)
    \/ StaleResultUndone(t)

(* None of these steps touches the coordinator or leaves the slot. *)
LEMMA AwaitStepOK ==
    ASSUME IInv, NEW t \in Tasks, AwaitStep(t)
    PROVE  IInv'
<1>0. TypeOK
  BY DEF IInv
<1> DEFINE With(e) == [task[t] EXCEPT !.error = e]
<1>1. \A e \in ErrorClasses \cup {"deferred"} :
        With(e) \in TaskLocals /\ With(e).generation = task[t].generation
  BY <1>0 DEF TypeOK, TaskLocals
<1>2. [task[t] EXCEPT !.cancelled = FALSE] \in TaskLocals
      /\ [task[t] EXCEPT !.cancelled = FALSE].generation = task[t].generation
  <2>1. \A l \in TaskLocals :
          /\ [l EXCEPT !.cancelled = FALSE] \in TaskLocals
          /\ [l EXCEPT !.cancelled = FALSE].generation = l.generation
    BY ZenonT(60) DEF TaskLocals
  <2>2. task[t] \in TaskLocals
    BY <1>0 DEF TypeOK
  <2> QED BY <2>1, <2>2
<1>3. {"failed", "attempting", "succeeded", "stall_failed", "compensated"}
        \subseteq AttemptPlaces \cap Places
  BY DEF AttemptPlaces, Places
<1> HIDE DEF With
<1>4. /\ HoldsSlot(t)
      /\ coordinator' = coordinator
      /\ UNCHANGED <<wake, stop, asleep, network_changes>>
  BY Zenon DEF AwaitStep, StageFails, ReconcileFails, EnterAttempt,
         AttemptSucceeds, AttemptFails, StalledLeaseChecked,
         StaleResultUndone, Environment, HoldsSlot, AttemptPlaces
<1>5. \E place \in AttemptPlaces \cap Places, l \in TaskLocals :
        l.generation = task[t].generation /\ Go(t, place, l)
  <2>1. CASE StageFails(t) \/ ReconcileFails(t)
    BY Zenon, <1>1, <1>3, <2>1, IntentConstants
       DEF StageFails, ReconcileFails, Fail, With
  <2>2. CASE EnterAttempt(t)
    BY Zenon, <1>2, <1>3, <2>2 DEF EnterAttempt
  <2>3. CASE AttemptSucceeds(t)
    <3>1. core'.lease \in Leases \cup {None}
      BY <1>0, <2>3 DEF AttemptSucceeds, Connected, TypeOK, CoreStates
    <3> DEFINE l == [task[t] EXCEPT !.lease = core'.lease]
    <3>2. l \in TaskLocals /\ l.generation = task[t].generation
      BY <1>0, <3>1 DEF TypeOK, TaskLocals
    <3> QED BY Zenon, <1>3, <2>3, <3>2 DEF AttemptSucceeds
  <2>4. CASE AttemptFails(t)
    <3>1. PICK e \in Errors \cup {"terminal", "deferred"} :
            Go(t, IF task[t].kind = "Start" THEN "failed"
                                             ELSE "stall_failed", With(e))
      BY <2>4 DEF AttemptFails, With
    <3>2. With(e) \in TaskLocals /\ With(e).generation = task[t].generation
      BY <1>1, <3>1, IntentConstants DEF ErrorClasses
    <3> QED BY <1>3, <3>1, <3>2
  <2>5. CASE StalledLeaseChecked(t) \/ StaleResultUndone(t)
    BY <1>0, <1>3, <2>5 DEF StalledLeaseChecked, StaleResultUndone, TypeOK
  <2> QED BY <2>1, <2>2, <2>3, <2>4, <2>5 DEF AwaitStep
<1>6. SingleAttempt'
  BY <1>4, <1>5, MoveKeepsSlot
<1>7. pc' \in [Tasks -> Places] /\ task' \in [Tasks -> TaskLocals]
  BY <1>0, <1>5, GoMoves
<1>8. state' \in RuntimeStates
  BY ZenonT(60), <1>0 DEF AwaitStep, StageFails, ReconcileFails, EnterAttempt,
         AttemptSucceeds, AttemptFails, StalledLeaseChecked,
         StaleResultUndone, TypeOK, RuntimeStates, AttemptKinds
<1>9. core' \in CoreStates
  <2>1. CASE AttemptSucceeds(t)
    <3>1. \A l \in Leases : Connected(l, FALSE) \in CoreStates
      BY DEF Connected, CoreStates, CorePhases
    <3> QED BY Zenon, <1>0, <2>1, <3>1 DEF AttemptSucceeds, TypeOK
  <2>2. CASE AttemptFails(t)
    <3>1. [core EXCEPT !.phase = "Ready", !.accepted = TRUE] \in CoreStates
      BY Zenon, <1>0 DEF TypeOK, CoreStates, CorePhases
    <3>2. \A l \in Leases :
            [phase |-> "Stopping", lease |-> l, accepted |-> TRUE]
                \in CoreStates
      BY DEF CoreStates, CorePhases
    <3> QED BY <1>0, <2>2, <3>1, <3>2 DEF AttemptFails, TypeOK
  <2>3. CASE ~AttemptSucceeds(t) /\ ~AttemptFails(t)
    BY Zenon, <1>0, <2>3 DEF AwaitStep, StageFails, ReconcileFails, EnterAttempt,
          StalledLeaseChecked, StaleResultUndone, TypeOK, CoreStates,
          CorePhases
  <2> QED BY <2>1, <2>2, <2>3
<1>10. lifecycle' \in Tasks \cup {None}
  BY Zenon, <1>0 DEF AwaitStep, StageFails, ReconcileFails, EnterAttempt,
         AttemptSucceeds, AttemptFails, StalledLeaseChecked,
         StaleResultUndone, TypeOK
<1>11. TypeOK'
  BY <1>0, <1>4, <1>7, <1>8, <1>9, <1>10 DEF TypeOK
<1> QED BY <1>6, <1>11 DEF IInv

(* The boundaries of run_attempt: stale attempts leave, current ones go on *)
BoundaryStep(t) ==
    \/ InitialStartResolved(t) \/ InitialPreflightDone(t)
    \/ CapabilityRefreshed(t) \/ OperationReconciled(t)
    \/ wait_for_recovery_power(t)

(* A boundary keeps the slot for a current attempt and frees a stale one. *)
LEMMA BoundaryStepOK ==
    ASSUME IInv, NEW t \in Tasks, BoundaryStep(t)
    PROVE  IInv'
<1>0. TypeOK
  BY DEF IInv
<1>1. HoldsSlot(t)
  BY Zenon DEF BoundaryStep, InitialStartResolved, InitialPreflightDone,
         CapabilityRefreshed, OperationReconciled, wait_for_recovery_power,
         HoldsSlot, AttemptPlaces
<1>2. CASE ReturnStale(t)
  BY <1>1, <1>2, ReturnStaleStep
<1>3. CASE ~ReturnStale(t)
  <2>1. UNCHANGED <<wake, lifecycle, core, stop, asleep, network_changes>>
    BY Zenon, <1>3 DEF BoundaryStep, InitialStartResolved, InitialPreflightDone,
          CapabilityRefreshed, OperationReconciled, wait_for_recovery_power,
          Environment
  <2>2. \A l : AfterPreflight(l) \in AttemptPlaces \cap Places
               /\ AfterRefresh(l) \in AttemptPlaces \cap Places
               /\ AfterReconcile(l) \in AttemptPlaces \cap Places
    BY DEF AfterPreflight, AfterRefresh, AfterReconcile, AttemptPlaces, Places
  <2>3. {"preflight", "legacy_power", "legacy_abandon", "power", "enter"}
            \subseteq AttemptPlaces \cap Places
    BY DEF AttemptPlaces, Places
  <2>4. task[t] \in TaskLocals
    BY <1>0 DEF TypeOK
  <2>5. CASE InitialStartResolved(t)
    <3>1. PICK mode \in Modes, o \in Templates :
            /\ coordinator' = replace_active_options(coordinator,
                                    task[t].generation, o)
            /\ state' = [state EXCEPT !.options = o]
            /\ Go(t, "preflight",
                  [task[t] EXCEPT !.mode = mode, !.options = o])
      BY Zenon, <1>3, <2>5 DEF InitialStartResolved
    <3> DEFINE l == [task[t] EXCEPT !.mode = mode, !.options = o]
    <3>2. l \in TaskLocals /\ l.generation = task[t].generation
      BY Zenon, <2>4 DEF TaskLocals
    <3>3. /\ coordinator' \in Coordinators
          /\ coordinator'.attempt_generation = coordinator.attempt_generation
      BY <1>0, <3>1, SlotKept DEF TypeOK
    <3>4. state' \in RuntimeStates
      BY <1>0, <3>1 DEF TypeOK, RuntimeStates
    <3> HIDE DEF l
    <3>5. Go(t, "preflight", l)
      BY <3>1 DEF l
    <3>6. SingleAttempt'
      BY <1>1, <2>3, <3>2, <3>3, <3>5, MoveKeepsSlot
    <3>7. pc' \in [Tasks -> Places] /\ task' \in [Tasks -> TaskLocals]
      BY <1>0, <2>3, <3>2, <3>5, GoMoves
    <3>8. TypeOK'
      BY <1>0, <2>1, <3>3, <3>4, <3>7 DEF TypeOK
    <3> QED BY <3>6, <3>8 DEF IInv
  <2>6. CASE ~InitialStartResolved(t)
    <3>1. coordinator' = coordinator /\ state' \in RuntimeStates
      BY Zenon, <1>0, <1>3, <2>6
         DEF BoundaryStep, InitialPreflightDone, CapabilityRefreshed,
             OperationReconciled, wait_for_recovery_power, TypeOK,
             RuntimeStates, Preflights
    <3>2. \E place \in AttemptPlaces \cap Places : Go(t, place, task[t])
      <4>1. CASE InitialPreflightDone(t) \/ CapabilityRefreshed(t)
                   \/ OperationReconciled(t)
        BY <1>3, <2>2, <2>3, <4>1 DEF InitialPreflightDone,
              CapabilityRefreshed, OperationReconciled
      <4>2. CASE wait_for_recovery_power(t)
        BY <1>3, <2>3, <4>2 DEF wait_for_recovery_power
      <4> QED BY <2>6, <4>1, <4>2 DEF BoundaryStep
    <3>3. SingleAttempt'
      BY <1>1, <2>4, <3>1, <3>2, MoveKeepsSlot
    <3>4. pc' \in [Tasks -> Places] /\ task' \in [Tasks -> TaskLocals]
      BY <1>0, <2>4, <3>2, GoMoves
    <3>5. TypeOK'
      BY <1>0, <2>1, <3>1, <3>4 DEF TypeOK
    <3> QED BY <3>3, <3>5 DEF IInv
  <2> QED BY <2>5, <2>6
<1> QED BY <1>2, <1>3

----------------------------------------------------------------------------
(* The end of an attempt with a connection. *)
LEMMA CompleteSuccessOK ==
    ASSUME IInv, NEW t \in Tasks, complete_success(t)
    PROVE  IInv'
<1>0. TypeOK /\ task[t] \in TaskLocals
  BY DEF IInv, TypeOK
<1> DEFINE g == task[t].generation
           l == task[t].lease
<1>1. HoldsSlot(t) /\ UNCHANGED <<wake, lifecycle, stop, asleep, network_changes>>
  BY DEF complete_success, HoldsSlot, AttemptPlaces, Environment
<1>2. CASE accept_result(coordinator, g)
  <2>1. mark_connected(coordinator, g, l) \in Coordinators
    BY <1>0, SlotFreed DEF TypeOK, TaskLocals
  <2>2. state' \in RuntimeStates
    <3>1. DefaultPolicy \in PolicyContexts /\ None \in Deadlines
      BY DEF DefaultPolicy, PolicyContexts, Deadlines
    <3>2. l \in Leases \cup {None}
      BY <1>0 DEF TaskLocals
    <3>3. state' = [state EXCEPT !.next_retry_at = None,
                        !.retry_not_before = None, !.policy = DefaultPolicy,
                        !.refresh_capability_before_attempt = FALSE,
                        !.armed = TRUE, !.attempt_kind = "Start",
                        !.owned_lease = l, !.initial_preflight = None]
      BY <1>2 DEF complete_success
    <3>4. state \in RuntimeStates
      BY <1>0 DEF TypeOK
    <3>5. "Start" \in AttemptKinds /\ None \in Preflights
      BY DEF AttemptKinds, Preflights
    <3> QED BY Zenon, <3>1, <3>2, <3>3, <3>4, <3>5 DEF RuntimeStates
  <2>3. core' \in CoreStates
    BY Zenon, <1>0, <1>2 DEF complete_success, TypeOK, CoreStates
  <2>4. Go(t, Home(t), NoTask) /\ coordinator' \in Coordinators
    BY <1>2, <2>1 DEF complete_success, Return
  <2>5. SingleAttempt'
    BY <1>1, <2>4, HomeFacts, MoveLeavesSlot
  <2>6. pc' \in [Tasks -> Places] /\ task' \in [Tasks -> TaskLocals]
    BY <1>0, <2>4, HomeFacts, GoMoves
  <2>7. TypeOK'
    BY <1>0, <1>1, <2>2, <2>3, <2>4, <2>6 DEF TypeOK
  <2> QED BY <2>5, <2>7 DEF IInv
<1>3. CASE ~accept_result(coordinator, g)
  <2>1. /\ Go(t, "compensating", task[t])
        /\ UNCHANGED <<coordinator, state, core>>
    BY <1>3 DEF complete_success
  <2>2. "compensating" \in Places
    BY DEF Places, AttemptPlaces
  <2>3. SingleAttempt'
    BY <1>0, <1>1, <2>1, <2>2, MoveKeepsSlot
  <2>4. pc' \in [Tasks -> Places] /\ task' \in [Tasks -> TaskLocals]
    BY <1>0, <2>1, <2>2, GoMoves
  <2>5. TypeOK'
    BY <1>0, <1>1, <2>1, <2>4 DEF TypeOK
  <2> QED BY <2>3, <2>5 DEF IInv
<1> QED BY <1>2, <1>3

(* The end of an attempt with an error: whatever is decided, the task      *)
(* leaves run_attempt.                                                     *)
LEMMA CompleteErrorOK ==
    ASSUME IInv, NEW t \in Tasks, complete_error(t)
    PROVE  IInv'
<1>0. TypeOK /\ task[t] \in TaskLocals /\ coordinator \in Coordinators
  BY DEF IInv, TypeOK
<1> DEFINE g == task[t].generation
           e == task[t].error
           decision == classify_recovery(e, state.policy)
<1>1. /\ HoldsSlot(t)
      /\ Go(t, Home(t), NoTask)
      /\ UNCHANGED <<lifecycle, core, stop, asleep, network_changes>>
  BY DEF complete_error, HoldsSlot, AttemptPlaces, Environment, Return
<1>2. /\ coordinator' \in Coordinators
      /\ state' \in RuntimeStates
      /\ wake' \in BOOLEAN
  <2>1. CASE \E d : StaleError(g, d)
    <3>1. complete_compensation(coordinator, g) \in Coordinators
      BY <1>0 DEF complete_compensation, Coordinators
    <3> QED BY Zenon, <1>0, <2>1, <3>1 DEF StaleError, TypeOK, RuntimeStates
  <2>2. CASE AttemptDeferred
    BY <1>0, <2>2
       DEF AttemptDeferred, AcceptedResult, Coordinators, TypeOK,
           RuntimeStates, Deadlines
  <2>3. CASE TerminalFailure(g)
    <3>1. state.armed \in BOOLEAN
      BY <1>0 DEF TypeOK, RuntimeStates
    <3>2. mark_terminal(coordinator, g, state.armed) \in Coordinators
      BY Zenon, <1>0, <3>1 DEF mark_terminal, AcceptedResult, Coordinators,
            ConnectionIntentStatus
    <3> QED BY Zenon, <1>0, <2>3, <3>1, <3>2
          DEF TerminalFailure, TypeOK, RuntimeStates, Deadlines, Preflights
  <2>4. CASE RetryScheduled(g, e, decision)
    <3>1. AcceptedResult(coordinator) \in Coordinators
      BY <1>0 DEF AcceptedResult, Coordinators
    <3>2. schedule_retry(AcceptedResult(coordinator), g) \in Coordinators
      BY <3>1, SlotKept, IntentConstants
    <3>3. update_policy_context(state.policy, e, decision) \in PolicyContexts
      BY Zenon, <1>0 DEF TypeOK, RuntimeStates, update_policy_context, PolicyContexts
    <3>4. retry_deadline(AcceptedResult(coordinator)) \in Deadlines
          /\ {None, "later"} \subseteq Deadlines
      BY DEF retry_deadline, Deadlines
    <3>5. \E refresh, reconcile, repair \in BOOLEAN, next, bound \in Deadlines :
            state' = [state EXCEPT
                !.refresh_capability_before_attempt = refresh,
                !.policy = update_policy_context(@, e, decision),
                !.reconcile_before_attempt = reconcile,
                !.repair_before_attempt = repair,
                !.next_retry_at = next,
                !.retry_not_before = bound]
      <4> DEFINE after == decision = "RetryAfter"
                 next == IF after THEN "later"
                         ELSE retry_deadline(AcceptedResult(coordinator))
                 bound == IF after THEN next ELSE None
      <4>1. next \in Deadlines /\ bound \in Deadlines
        BY <3>4
      <4> HIDE DEF decision
      <4>2. state' = [state EXCEPT
                !.refresh_capability_before_attempt =
                    @ \/ decision = "RetryNewOperation",
                !.policy = update_policy_context(@, e, decision),
                !.reconcile_before_attempt =
                    @ \/ decision \in {"ReconcileThenRetry", "ReconcileOnce"},
                !.repair_before_attempt =
                    decision \in {"RetryOnce", "RestartLocalTunnel"},
                !.next_retry_at = next,
                !.retry_not_before = bound]
        BY <2>4 DEF RetryScheduled
      <4> DEFINE refresh == state.refresh_capability_before_attempt
                              \/ decision = "RetryNewOperation"
                 reconcile == state.reconcile_before_attempt
                   \/ decision \in {"ReconcileThenRetry", "ReconcileOnce"}
                 repair == decision \in {"RetryOnce", "RestartLocalTunnel"}
      <4>3. refresh \in BOOLEAN /\ reconcile \in BOOLEAN /\ repair \in BOOLEAN
        OBVIOUS
      <4>4. state' = [state EXCEPT
                !.refresh_capability_before_attempt = refresh,
                !.policy = update_policy_context(@, e, decision),
                !.reconcile_before_attempt = reconcile,
                !.repair_before_attempt = repair,
                !.next_retry_at = next,
                !.retry_not_before = bound]
        BY <4>2
      <4> HIDE DEF refresh, reconcile, repair, next, bound
      <4> QED BY Zenon, <4>1, <4>3, <4>4
    <3>6. state' \in RuntimeStates
      <4> HIDE DEF decision, e
      <4>1. state \in RuntimeStates
        BY <1>0 DEF TypeOK
      <4> QED BY ZenonT(60), <3>3, <3>5, <4>1 DEF RuntimeStates
    <3> QED BY <2>4, <3>1, <3>2, <3>6 DEF RetryScheduled
  <2> QED BY <2>1, <2>2, <2>3, <2>4 DEF complete_error
<1>3. SingleAttempt'
  BY <1>1, HomeFacts, MoveLeavesSlot
<1>4. pc' \in [Tasks -> Places] /\ task' \in [Tasks -> TaskLocals]
  BY <1>0, <1>1, HomeFacts, GoMoves
<1>5. TypeOK'
  BY <1>0, <1>1, <1>2, <1>4 DEF TypeOK
<1> QED BY <1>3, <1>5 DEF IInv

(* The remaining ends of run_attempt: a compensation, a legacy start. *)
EndStep(t) ==
    \/ CompensationFails(t) \/ CompensationCompleted(t)
    \/ abandon_initial_intent_for_legacy(t)
    \/ EnterLegacyStart(t) \/ LegacyStartReturns(t)

(* A compensation or a legacy start leaves run_attempt, or is outside it. *)
LEMMA EndStepOK ==
    ASSUME IInv, NEW t \in Tasks, EndStep(t)
    PROVE  IInv'
<1>0. TypeOK /\ task[t] \in TaskLocals /\ coordinator \in Coordinators
  BY DEF IInv, TypeOK
<1>1. UNCHANGED <<wake, stop, asleep, network_changes>>
  BY Zenon DEF EndStep, CompensationFails, CompensationCompleted,
         abandon_initial_intent_for_legacy, EnterLegacyStart,
         LegacyStartReturns, Environment
<1>2. {"legacy_enter", "legacy_starting"} \subseteq Places \ AttemptPlaces
  BY DEF Places, AttemptPlaces
<1>3. CASE CompensationFails(t)
  <2>1. core' \in CoreStates
    BY Zenon, <1>0, <1>3 DEF CompensationFails, TypeOK, CoreStates, CorePhases
  <2>2. TypeOK'
    BY <1>0, <1>1, <1>3, <2>1 DEF CompensationFails, TypeOK
  <2>3. SingleAttempt'
    BY <1>3 DEF CompensationFails, IInv, SingleAttempt, HoldsSlot
  <2> QED BY <2>2, <2>3 DEF IInv
<1>4. CASE CompensationCompleted(t)
  <2>1. complete_compensation(coordinator, task[t].generation) \in Coordinators
    BY <1>0 DEF complete_compensation, Coordinators
  <2>2. Go(t, Home(t), NoTask) /\ HoldsSlot(t)
    BY <1>4 DEF CompensationCompleted, Return, HoldsSlot, AttemptPlaces
  <2>3. SingleAttempt'
    BY <2>2, HomeFacts, MoveLeavesSlot
  <2>4. pc' \in [Tasks -> Places] /\ task' \in [Tasks -> TaskLocals]
    BY <1>0, <2>2, HomeFacts, GoMoves
  <2>5. TypeOK'
    BY <1>0, <1>1, <1>4, <2>1, <2>4 DEF CompensationCompleted, TypeOK
  <2> QED BY <2>3, <2>5 DEF IInv
<1>5. CASE abandon_initial_intent_for_legacy(t)
  <2> DEFINE g == task[t].generation
  <2>1. cancel_intent(coordinator, g) \in Coordinators
    BY <1>0, SlotKept, IntentConstants
  <2>2. complete_compensation(cancel_intent(coordinator, g), g)
            \in Coordinators
    BY <2>1 DEF complete_compensation, Coordinators
  <2>3. [InitState EXCEPT !.armed = state.armed] \in RuntimeStates
    BY <1>0, InitStateType DEF TypeOK, RuntimeStates
  <2>4. coordinator' \in Coordinators /\ state' \in RuntimeStates
    BY <1>0, <1>5, <2>2, <2>3
       DEF abandon_initial_intent_for_legacy, TypeOK
  <2>5. HoldsSlot(t) /\ \E place \in Places \ AttemptPlaces :
            Go(t, place, NoTask)
    BY <1>2, <1>5, HomeFacts
       DEF abandon_initial_intent_for_legacy, Return, HoldsSlot, AttemptPlaces
  <2>6. SingleAttempt'
    BY <2>5, HomeFacts, MoveLeavesSlot
  <2>7. pc' \in [Tasks -> Places] /\ task' \in [Tasks -> TaskLocals]
    BY <1>0, <2>5, HomeFacts, GoMoves
  <2>8. TypeOK'
    BY <1>0, <1>1, <1>5, <2>4, <2>7
       DEF abandon_initial_intent_for_legacy, TypeOK
  <2> QED BY <2>6, <2>8 DEF IInv
<1>6. CASE EnterLegacyStart(t) \/ LegacyStartReturns(t)
  <2>1. \E place \in Places \ AttemptPlaces : Go(t, place, NoTask)
    BY Zenon, <1>2, <1>6, HomeFacts DEF EnterLegacyStart, LegacyStartReturns, Return
  <2>2. UNCHANGED <<coordinator, state>> /\ lifecycle' \in Tasks \cup {None}
    BY Zenon, <1>6 DEF EnterLegacyStart, LegacyStartReturns
  <2>3. core' \in CoreStates
    <3>1. \A l \in Leases :
            /\ Connected(l, TRUE) \in CoreStates
            /\ [phase |-> "Stopping", lease |-> l, accepted |-> TRUE]
                  \in CoreStates
      BY DEF Connected, CoreStates, CorePhases
    <3> QED BY Zenon, <1>0, <1>6, <3>1
          DEF EnterLegacyStart, LegacyStartReturns, TypeOK
  <2>4. SingleAttempt'
    BY <2>1, <2>2, HomeFacts, MoveKeepsSlot
  <2>5. pc' \in [Tasks -> Places] /\ task' \in [Tasks -> TaskLocals]
    BY <1>0, <2>1, HomeFacts, GoMoves
  <2>6. TypeOK'
    BY <1>0, <1>1, <2>2, <2>3, <2>5 DEF TypeOK
  <2> QED BY <2>4, <2>6 DEF IInv
<1> QED BY <1>3, <1>4, <1>5, <1>6 DEF EndStep

----------------------------------------------------------------------------
(* Every step of the specification keeps the invariant. *)
LEMMA NextOK == IInv /\ [Next]_vars => IInv'
<1> SUFFICES ASSUME IInv, [Next]_vars PROVE IInv'
  OBVIOUS
<1>1. CASE \E u \in Starters : StarterStep(u)
  BY <1>1, StarterStepOK
<1>2. CASE SchedulerStep
  BY <1>2, SchedulerStepOK
<1>3. CASE StallStep
  BY <1>3, StallStepOK
<1>4. CASE \E t \in Tasks : AttemptStep(t)
  <2>1. PICK t \in Tasks : AttemptStep(t)
    BY <1>4
  <2>2. CASE RunAttempt(t)
    BY <2>2, RunAttemptOK
  <2>3. CASE AwaitStep(t)
    BY <2>3, AwaitStepOK
  <2>4. CASE BoundaryStep(t)
    BY <2>4, BoundaryStepOK
  <2>5. CASE complete_success(t)
    BY <2>5, CompleteSuccessOK
  <2>6. CASE complete_error(t)
    BY <2>6, CompleteErrorOK
  <2>7. CASE EndStep(t)
    BY <2>7, EndStepOK
  <2> QED
    BY <2>1, <2>2, <2>3, <2>4, <2>5, <2>6, <2>7
       DEF AttemptStep, AwaitStep, BoundaryStep, EndStep
<1>5. CASE StopStep
  BY <1>5, StopStepOK
<1>6. CASE WorldStep
  BY <1>6, WorldStepOK
<1>7. CASE UNCHANGED vars
  BY <1>7 DEF vars, IInv, TypeOK, SingleAttempt, HoldsSlot
<1> QED BY <1>1, <1>2, <1>3, <1>4, <1>5, <1>6, <1>7 DEF Next

(* The runtime state, the locals of every task and the core keep their     *)
(* types through every interleaving of starts, stops, stalls and retries.  *)
THEOREM TypeCorrect == Spec => []TypeOK
<1>1. IInv => TypeOK
  BY DEF IInv
<1> QED BY InitOK, NextOK, <1>1, PTL DEF Spec

(* Start commands, the scheduler and the stall handler never run two       *)
(* start/recovery transactions at once, and the slot of the coordinator    *)
(* carries the generation of the one that runs.                            *)
THEOREM AttemptsNeverOverlap == Spec => []SingleAttempt
<1>1. IInv => SingleAttempt
  BY DEF IInv
<1> QED BY InitOK, NextOK, <1>1, PTL DEF Spec

----------------------------------------------------------------------------
(* Connections nobody accepted. *)

(* A task that does not hold a success moves, and the core keeps what it   *)
(* has, or what it gets is accepted or no connection.                      *)
LEMMA HandsKept ==
    ASSUME TypeOK, NoAbandonedConnection, NEW t \in Tasks,
           pc[t] \notin {"succeeded", "compensating"},
           NEW place, NEW l, Go(t, place, l),
           core' = core \/ core'.accepted \/ core'.phase # "Connected"
    PROVE  NoAbandonedConnection'
<1>1. \A u \in Tasks : u # t => pc'[u] = pc[u]
  BY DEF TypeOK, Go
<1> QED BY <1>1 DEF NoAbandonedConnection

(* A stop, a cleanup or a loss leaves no connection behind. *)
LEMMA CoreGivenUp ==
    ASSUME TypeOK, NEW x \in {"Ready", "Stopping"}
    PROVE  /\ [core EXCEPT !.phase = x, !.accepted = TRUE].phase # "Connected"
           /\ [core EXCEPT !.phase = x].phase # "Connected"
BY DEF TypeOK, CoreStates, CorePhases

(* The steps of an attempt. *)
LEMMA AttemptHands ==
    ASSUME TypeOK, NoAbandonedConnection, NEW t \in Tasks, AttemptStep(t)
    PROVE  NoAbandonedConnection'
<1>1. CASE ReturnStale(t) /\ pc[t] \notin {"succeeded", "compensating"}
  BY <1>1, HandsKept DEF ReturnStale, Return
<1>2. CASE RunAttempt(t) \/ StageFails(t) \/ InitialStartResolved(t) \/ InitialPreflightDone(t)
           \/ CapabilityRefreshed(t)
  BY Zenon, <1>1, <1>2, HandsKept
  DEF RunAttempt, StageFails, InitialStartResolved, InitialPreflightDone, CapabilityRefreshed, Return, Fail
<1>3. CASE ReconcileFails(t) \/ OperationReconciled(t) \/ wait_for_recovery_power(t) \/ EnterAttempt(t)
           \/ StalledLeaseChecked(t)
  BY Zenon, <1>1, <1>3, HandsKept
  DEF ReconcileFails, OperationReconciled, wait_for_recovery_power, EnterAttempt, StalledLeaseChecked, Fail
<1>4. CASE AttemptSucceeds(t)
  <2>1. pc'[t] = "succeeded"
    BY <1>4 DEF AttemptSucceeds, Go, TypeOK
  <2> QED BY <2>1 DEF NoAbandonedConnection
<1>5. CASE AttemptFails(t)
  <2>1. \/ core' = core
        \/ core' = [core EXCEPT !.phase = "Ready", !.accepted = TRUE]
        \/ \E l \in Leases : core' = [phase |-> "Stopping", lease |-> l, accepted |-> TRUE]
    <3> DEFINE kept == task[t].kind = "Start" /\ core.phase = "Connected"
               ready == [core EXCEPT !.phase = "Ready", !.accepted = TRUE]
               pending == {[phase |-> "Stopping", lease |-> l, accepted |-> TRUE] : l \in Leases}
    <3>1. core' \in {core} \cup IF kept THEN {} ELSE {ready} \cup pending
      BY <1>5 DEF AttemptFails
    <3>2. core' = core \/ core' = ready \/ core' \in pending
      <4> HIDE DEF kept, ready, pending
      <4>1. CASE kept
        BY <3>1, <4>1
      <4>2. CASE ~kept
        BY <3>1, <4>2
      <4> QED BY <4>1, <4>2
    <3> QED BY <3>2
  <2>2. core' = core \/ core'.phase # "Connected"
    <3>1. ASSUME NEW l \in Leases, core' = [phase |-> "Stopping", lease |-> l, accepted |-> TRUE]
          PROVE  core'.phase # "Connected"
      BY <3>1
    <3> QED BY Zenon, <2>1, <3>1, CoreGivenUp
  <2> QED BY <1>5, <2>2, HandsKept DEF AttemptFails
<1>6. CASE complete_success(t)
  <2>1. CASE accept_result(coordinator, task[t].generation)
    <3>1. core'.accepted
      BY <1>6, <2>1 DEF complete_success, TypeOK, CoreStates
    <3> QED BY <3>1 DEF NoAbandonedConnection
  <2>2. CASE ~accept_result(coordinator, task[t].generation)
    <3>1. pc'[t] = "compensating"
      BY <1>6, <2>2 DEF complete_success, Go, TypeOK
    <3> QED BY <3>1 DEF NoAbandonedConnection
  <2> QED BY <2>1, <2>2
<1>7. CASE StaleResultUndone(t) \/ CompensationFails(t)
  <2>1. core'.phase # "Connected"
    BY Zenon, <1>7, CoreGivenUp DEF StaleResultUndone, CompensationFails
  <2> QED BY <2>1 DEF NoAbandonedConnection
<1>8. CASE complete_error(t) \/ CompensationCompleted(t)
           \/ abandon_initial_intent_for_legacy(t) \/ EnterLegacyStart(t)
  BY <1>8, HandsKept
  DEF complete_error, CompensationCompleted, abandon_initial_intent_for_legacy, EnterLegacyStart, Return
<1>9. CASE LegacyStartReturns(t)
  <2>1. core' = core \/ core'.accepted
    BY <1>9 DEF LegacyStartReturns, Connected
  <2> QED BY <1>9, <2>1, HandsKept DEF LegacyStartReturns, Return
<1> QED BY <1>2, <1>3, <1>4, <1>5, <1>6, <1>7, <1>8, <1>9 DEF AttemptStep

(* Every step keeps a connection nobody accepted in the hands of its task. *)
LEMMA HandsNext ==
    ASSUME TypeOK, NoAbandonedConnection, [Next]_vars
    PROVE  NoAbandonedConnection'
<1>1. ASSUME NEW u \in Starters, StarterStep(u) PROVE NoAbandonedConnection'
  <2>1. u \in Tasks
    BY DEF Tasks
  <2> QED BY Zenon, <1>1, <2>1, HandsKept
      DEF StarterStep, ObserveCompleted, ReadCoreState, start_or_resume_internal, Return
<1>2. CASE SchedulerStep
  <2>1. "scheduler" \in Tasks
    BY DEF Tasks
  <2> QED BY Zenon, <1>2, <2>1, HandsKept
      DEF SchedulerStep, SchedulerPoll, SchedulerNotified, SchedulerTimer, SchedulerCheck, SchedulerDefer, Return
<1>3. CASE StallStep
  <2>1. "stall" \in Tasks
    BY DEF Tasks
  <2> QED BY <1>3, <2>1, HandsKept
      DEF StallStep, StallObserved, StallRecoveredLocally, StallEscalates, Return
<1>4. CASE StopStep \/ WorldStep
  <2>1. pc' = pc /\ (core' = core \/ core'.phase # "Connected")
    BY Zenon, <1>4, CoreGivenUp
    DEF StopStep, cancel, signal_start_cancellation, StopApplication, WorldStep, retry_pending_stop,
        TunnelLost, NetworkChanges, PowerChanges, TimePasses
  <2> QED BY <2>1 DEF NoAbandonedConnection
<1>5. CASE UNCHANGED vars
  BY <1>5 DEF vars, NoAbandonedConnection
<1> QED BY <1>1, <1>2, <1>3, <1>4, <1>5, AttemptHands DEF Next

(* A late success of a cancelled intent never leaves the application       *)
(* connected: a connection that no intent accepted is in the hands of the  *)
(* task that will hand it over or undo it (complete_success).              *)
THEOREM NoConnectionIsAbandoned == Spec => []NoAbandonedConnection
<1>1. Init => NoAbandonedConnection
  BY DEF Init, NoAbandonedConnection
<1>2. TypeOK /\ NoAbandonedConnection /\ [Next]_vars => NoAbandonedConnection'
  BY HandsNext
<1> QED BY <1>1, <1>2, TypeCorrect, PTL DEF Spec

----------------------------------------------------------------------------
(* The schedule of the retries. *)

(* What the coordinator's methods do to the fields the scheduler reads.    *)
LEMMA ScheduleFields ==
    ASSUME NEW c \in Coordinators, NEW g, NEW t, NEW l, NEW armed
    PROVE  /\ schedule_retry(c, g).network_wakeup_pending = c.network_wakeup_pending
           /\ complete_compensation(c, g).status = c.status
           /\ complete_compensation(c, g).network_wakeup_pending = c.network_wakeup_pending
           /\ replace_active_options(c, g, t).status = c.status
           /\ replace_active_options(c, g, t).network_wakeup_pending = c.network_wakeup_pending
           /\ begin_attempt(c, g).status = c.status
           /\ begin_attempt(c, g).network_wakeup_pending = c.network_wakeup_pending
           /\ accept_result(c, g) => mark_connected(c, g, l).status = "None"
           /\ accept_result(c, g) => mark_terminal(c, g, armed).status # "Recovering"
           /\ cancel_intent(c, g) = c \/ cancel_intent(c, g).status = "None"
           /\ take_network_wakeup(c).status = c.status
           /\ ~take_network_wakeup(c).network_wakeup_pending
<1>1. schedule_retry(c, g).network_wakeup_pending = c.network_wakeup_pending
  BY DEF schedule_retry, Coordinators
<1>2. /\ complete_compensation(c, g).status = c.status
      /\ complete_compensation(c, g).network_wakeup_pending = c.network_wakeup_pending
  BY DEF complete_compensation, Coordinators
<1>3. /\ replace_active_options(c, g, t).status = c.status
      /\ replace_active_options(c, g, t).network_wakeup_pending = c.network_wakeup_pending
  BY DEF replace_active_options, Coordinators
<1>4. /\ begin_attempt(c, g).status = c.status
      /\ begin_attempt(c, g).network_wakeup_pending = c.network_wakeup_pending
  BY DEF begin_attempt, Coordinators
<1>5. accept_result(c, g) => mark_connected(c, g, l).status = "None"
  BY DEF mark_connected, AcceptedResult, Coordinators
<1>6. accept_result(c, g) => mark_terminal(c, g, armed).status # "Recovering"
  BY DEF mark_terminal, AcceptedResult, Coordinators
<1>7. cancel_intent(c, g) = c \/ cancel_intent(c, g).status = "None"
  BY DEF cancel_intent, Coordinators
<1>8. take_network_wakeup(c).status = c.status /\ ~take_network_wakeup(c).network_wakeup_pending
  BY DEF take_network_wakeup, Coordinators
<1> QED BY Zenon, <1>1, <1>2, <1>3, <1>4, <1>5, <1>6, <1>7, <1>8

(* A step that gives the scheduler nothing new to do, or notifies it.      *)
LEMMA ScheduleFrame ==
    ASSUME TypeOK, ScheduleIsKept,
           pc'["scheduler"] = "park" => pc["scheduler"] = "park",
           \/ wake'
           \/ coordinator'.status # "Recovering"
           \/ state'.next_retry_at = None /\ ~coordinator'.network_wakeup_pending
           \/ /\ wake' = wake /\ coordinator'.status = coordinator.status
              /\ coordinator'.network_wakeup_pending = coordinator.network_wakeup_pending
              /\ state'.next_retry_at \in {None, state.next_retry_at},
           \/ state'.next_retry_at # "due"
           \/ state'.retry_not_before # "later"
           \/ /\ state'.next_retry_at = state.next_retry_at
              /\ state'.retry_not_before = state.retry_not_before
    PROVE  ScheduleIsKept'
BY DEF ScheduleIsKept

(* A task of the attempt, or another than the scheduler, does not park it. *)
LEMMA NoPark ==
    ASSUME TypeOK, NEW t \in Tasks, NEW place, NEW l, Go(t, place, l),
           place # "park" \/ t # "scheduler"
    PROVE  pc'["scheduler"] = "park" => pc["scheduler"] = "park"
BY DEF TypeOK, Go, Tasks

LEMMA HomeIsNotPark == \A t : Home(t) # "park"
BY DEF Home

(* A Start command. *)
LEMMA StarterSchedule ==
    ASSUME TypeOK, ScheduleIsKept, NEW u \in Starters, StarterStep(u)
    PROVE  ScheduleIsKept'
<1>0. u \in Tasks /\ u # "scheduler" /\ coordinator \in Coordinators /\ state \in RuntimeStates
  BY IntentConstants DEF Tasks, TypeOK
<1>1. CASE ObserveCompleted(u) \/ ReadCoreState(u)
  BY <1>0, <1>1, NoPark, ScheduleFrame DEF ObserveCompleted, ReadCoreState
<1>2. CASE start_or_resume_internal(u)
  <2>0. pc'["scheduler"] = "park" => pc["scheduler"] = "park"
    BY <1>0, <1>2, NoPark DEF start_or_resume_internal, Return
  <2>1. PICK t \in Templates, p \in {"start", "quick"} :
          LET l       == task[u]
              drops   == RetiresObserved(l) \/ ReplacesMismatched(l, t)
              kept    == IF drops
                           THEN cancel_intent(coordinator, coordinator.generation)
                           ELSE coordinator
              base    == IF drops
                           THEN [state EXCEPT !.armed = FALSE,
                                              !.owned_lease = None,
                                              !.attempt_kind = "Start"]
                           ELSE state
              resumed == start_or_resume(kept, t)
              runs    == /\ start_disposition(kept, t) = "Recovering"
                         /\ resumed.generation # coordinator.generation
          IN IF runs
             THEN /\ coordinator' = consume_immediate_retry_slot(resumed, resumed.generation)
                  /\ state' = initialize_episode(base, t, p)
             ELSE coordinator' = resumed /\ state' = base
    BY <1>2 DEF start_or_resume_internal
  <2> DEFINE drops == RetiresObserved(task[u]) \/ ReplacesMismatched(task[u], t)
             kept == IF drops THEN cancel_intent(coordinator, coordinator.generation) ELSE coordinator
             base == IF drops
                       THEN [state EXCEPT !.armed = FALSE, !.owned_lease = None,
                                          !.attempt_kind = "Start"]
                       ELSE state
             resumed == start_or_resume(kept, t)
             runs == /\ start_disposition(kept, t) = "Recovering"
                     /\ resumed.generation # coordinator.generation
  <2>2. kept \in Coordinators /\ (kept = coordinator \/ kept.status = "None")
    BY <1>0, <2>1, SlotKept, ScheduleFields
  <2>3. base \in RuntimeStates /\ base.next_retry_at = state.next_retry_at
        /\ base.retry_not_before = state.retry_not_before
    BY Zenon, <1>0 DEF RuntimeStates, AttemptKinds
  <2>4. resumed \in Coordinators
    BY <2>2, StartKeepsSlot
  <2>5. \/ /\ resumed = NewIntent(kept, t) /\ ~resumed.network_wakeup_pending
           /\ start_disposition(kept, t) = "Recovering"
           /\ resumed.generation = kept.generation + 1
        \/ resumed.status = kept.status /\ resumed.network_wakeup_pending = kept.network_wakeup_pending
    BY Zenon, <2>2 DEF start_or_resume, NewIntent, Coordinators
  <2>6. kept.generation \in Nat /\ coordinator.generation \in Nat
        /\ (kept.generation = coordinator.generation \/ kept.generation = coordinator.generation + 1)
    BY <1>0, <2>2, CoordinatorConstants DEF Coordinators, Generations, cancel_intent
  <2>7. CASE runs
    <3>1. /\ state'.next_retry_at = None
      BY Zenon, <2>1, <2>3, <2>7 DEF initialize_episode, RuntimeStates
    <3>2. coordinator' = schedule_retry(resumed, resumed.generation)
      BY <2>1, <2>7 DEF consume_immediate_retry_slot
    <3>3. coordinator'.network_wakeup_pending = resumed.network_wakeup_pending
      BY Zenon, <2>4, <3>2, ScheduleFields
    <3>4. kept.desired # None => kept = coordinator
      BY <1>0 DEF cancel_intent, Coordinators
    <3>5. resumed = NewIntent(kept, t)
      <4>1. CASE kept.desired = None
        BY <2>7, <4>1 DEF start_or_resume
      <4>2. CASE kept.desired # None
        BY Zenon, <1>0, <2>5, <2>7, <3>4, <4>2 DEF start_or_resume, Coordinators
      <4> QED BY <4>1, <4>2
    <3>6. ~coordinator'.network_wakeup_pending
      <4>1. ~NewIntent(kept, t).network_wakeup_pending
        BY <2>2 DEF NewIntent, Coordinators
      <4> QED BY <3>3, <3>5, <4>1
    <3> QED BY <2>0, <3>1, <3>6, ScheduleFrame, CoordinatorConstants
  <2>8. CASE ~runs
    <3>1. coordinator' = resumed /\ state' = base
      BY <2>1, <2>8
    <3> HIDE DEF resumed, base, kept, drops
    <3>2. resumed.status = kept.status /\ resumed.network_wakeup_pending = kept.network_wakeup_pending
      <4>1. kept.generation + 1 # coordinator.generation
        BY <2>6
      <4> QED BY <2>5, <2>8, <4>1
    <3>3. wake' = wake
      BY <1>2 DEF start_or_resume_internal
    <3> HIDE DEF runs
    <3> QED BY <2>0, <2>2, <2>3, <3>1, <3>2, <3>3, ScheduleFrame
  <2> QED BY <2>7, <2>8
<1> QED BY <1>1, <1>2 DEF StarterStep

(* The scheduler parks itself when it has nothing to wait for. *)
LEMMA SchedulerSchedule ==
    ASSUME TypeOK, ScheduleIsKept, SchedulerStep
    PROVE  ScheduleIsKept'
<1>0. "scheduler" \in Tasks /\ coordinator \in Coordinators /\ state \in RuntimeStates
      /\ pc \in [Tasks -> Places]
  BY DEF Tasks, TypeOK
<1>1. CASE SchedulerPoll
  <2> DEFINE c == take_network_wakeup(coordinator)
             next == IF coordinator.network_wakeup_pending
                       THEN retry_at_after_wakeup(state.retry_not_before)
                       ELSE state.next_retry_at
             place == IF c.status # "Recovering" \/ next = None THEN "park"
                      ELSE IF next = "due" THEN "check" ELSE "sleep"
  <2>1. /\ coordinator' = c /\ state' = [state EXCEPT !.next_retry_at = next]
        /\ Go("scheduler", place, NoTask) /\ wake' = wake
    BY <1>1 DEF SchedulerPoll
  <2>2. ~c.network_wakeup_pending
    BY <1>0 DEF take_network_wakeup, Coordinators
  <2>3. pc'["scheduler"] = place /\ state'.next_retry_at = next
        /\ state'.retry_not_before = state.retry_not_before
    BY <1>0, <2>1 DEF Go, RuntimeStates
  <2>4. pc'["scheduler"] = "park" => coordinator'.status # "Recovering" \/ state'.next_retry_at = None
    BY <2>1, <2>3
  <2>5. ~(state'.retry_not_before = "later" /\ state'.next_retry_at = "due")
    BY <2>3 DEF ScheduleIsKept, retry_at_after_wakeup
  <2> HIDE DEF c, next, place
  <2> QED BY <2>1, <2>2, <2>4, <2>5 DEF ScheduleIsKept
<1>2. CASE SchedulerNotified \/ SchedulerTimer \/ SchedulerCheck \/ SchedulerDefer
  <2>1. pc'["scheduler"] # "park" /\ state' = state
    BY Zenon, <1>0, <1>2 DEF SchedulerNotified, SchedulerTimer, SchedulerCheck, SchedulerDefer, Return, Go, Home
  <2> QED BY <2>1 DEF ScheduleIsKept
<1> QED BY <1>1, <1>2 DEF SchedulerStep

(* The stall handler starts a recovery that it drives itself. *)
LEMMA StallSchedule ==
    ASSUME TypeOK, ScheduleIsKept, StallStep
    PROVE  ScheduleIsKept'
<1>0. "stall" \in Tasks /\ "stall" # "scheduler" /\ coordinator \in Coordinators
      /\ state \in RuntimeStates
  BY DEF Tasks, TypeOK
<1>1. pc'["scheduler"] = "park" => pc["scheduler"] = "park"
  BY <1>0, NoPark DEF StallStep, StallObserved, StallRecoveredLocally, StallEscalates, Return
<1>2. CASE UNCHANGED <<coordinator, state, wake>>
  BY <1>1, <1>2, ScheduleFrame
<1>3. CASE StallEscalates /\ ~UNCHANGED <<coordinator, state, wake>>
  <2> DEFINE l == task["stall"]
             h == handle_stall(coordinator, l.generation, l.options)
  <2>1. /\ can_handle_stall(coordinator, l.generation, l.options)
        /\ coordinator' = schedule_retry(h, l.generation)
        /\ state' = [state EXCEPT !.attempt_kind = "StallReplacement",
                        !.refresh_capability_before_attempt = TRUE,
                        !.next_retry_at = None, !.retry_not_before = None]
    BY <1>3 DEF StallEscalates, consume_immediate_retry_slot
  <2>2. h \in Coordinators /\ ~h.network_wakeup_pending
    BY Zenon, <1>0, <2>1, RetryIndexFacts DEF handle_stall, Coordinators, ConnectionIntentStatus
  <2>3. ~coordinator'.network_wakeup_pending
    <3> HIDE DEF h
    <3> QED BY <2>1, <2>2, ScheduleFields
  <2>4. state'.next_retry_at = None
    BY <1>0, <2>1 DEF RuntimeStates
  <2> QED BY <1>1, <2>3, <2>4, ScheduleFrame, CoordinatorConstants
<1> QED BY <1>2, <1>3 DEF StallStep, StallObserved, StallRecoveredLocally

(* A failed attempt that stays current schedules the next and notifies the *)
(* scheduler; one that ends the recovery leaves nothing to wait for.       *)
LEMMA ErrorSchedule ==
    ASSUME TypeOK, ScheduleIsKept, NEW t \in Tasks, complete_error(t)
    PROVE  ScheduleIsKept'
<1>0. coordinator \in Coordinators /\ state \in RuntimeStates
  BY DEF TypeOK
<1>1. pc'["scheduler"] = "park" => pc["scheduler"] = "park"
  BY NoPark, HomeIsNotPark DEF complete_error, Return
<1> DEFINE g == task[t].generation
           e == task[t].error
           decision == classify_recovery(e, state.policy)
<1>2. \/ StaleError(g, IF e = "deferred" THEN "deferred" ELSE decision)
      \/ AttemptDeferred
      \/ accept_result(coordinator, g) /\ TerminalFailure(g)
      \/ RetryScheduled(g, e, decision)
  BY DEF complete_error
<1> HIDE DEF g, e, decision
<1>3. CASE StaleError(g, IF e = "deferred" THEN "deferred" ELSE decision)
  <2>1. state'.next_retry_at = state.next_retry_at /\ state'.retry_not_before = state.retry_not_before
    BY <1>0, <1>3 DEF StaleError, RuntimeStates
  <2>2. /\ coordinator'.status = coordinator.status /\ wake' = wake
        /\ coordinator'.network_wakeup_pending = coordinator.network_wakeup_pending
    BY <1>0, <1>3, ScheduleFields DEF StaleError
  <2> QED BY Zenon, <1>1, <2>1, <2>2, ScheduleFrame
<1>4. CASE AttemptDeferred
  <2>1. state'.next_retry_at = "later" /\ wake'
    BY <1>0, <1>4 DEF AttemptDeferred, RuntimeStates
  <2> QED BY <1>1, <2>1, ScheduleFrame
<1>5. CASE accept_result(coordinator, g) /\ TerminalFailure(g)
  <2>1. coordinator'.status # "Recovering"
    BY <1>0, <1>5, ScheduleFields DEF TerminalFailure
  <2>2. state'.next_retry_at = None
    BY <1>0, <1>5 DEF TerminalFailure, RuntimeStates
  <2> QED BY <1>1, <2>1, <2>2, ScheduleFrame, CoordinatorConstants
<1>6. CASE RetryScheduled(g, e, decision)
  <2>1. wake'
    BY <1>6 DEF RetryScheduled
  <2>2. state'.next_retry_at # "due" \/ state'.retry_not_before # "later"
    BY <1>0, <1>6, CoordinatorConstants DEF RetryScheduled, RuntimeStates
  <2> QED BY <1>1, <2>1, <2>2, ScheduleFrame
<1> QED BY <1>2, <1>3, <1>4, <1>5, <1>6

(* The other steps of an attempt take the scheduled retry, or leave it. *)
LEMMA AttemptSchedule ==
    ASSUME TypeOK, ScheduleIsKept, NEW t \in Tasks, AttemptStep(t)
    PROVE  ScheduleIsKept'
<1>0. coordinator \in Coordinators /\ state \in RuntimeStates
  BY DEF TypeOK
<1>1. CASE ReturnStale(t)
  <2>1. pc'["scheduler"] = "park" => pc["scheduler"] = "park"
    BY <1>1, NoPark, HomeIsNotPark DEF ReturnStale, Return
  <2>2. /\ coordinator'.status = coordinator.status /\ wake' = wake /\ state' = state
        /\ coordinator'.network_wakeup_pending = coordinator.network_wakeup_pending
    BY Zenon, <1>0, <1>1, ScheduleFields DEF ReturnStale
  <2> QED BY <2>1, <2>2, ScheduleFrame
<1>2. CASE RunAttempt(t)
  <2>1. pc'["scheduler"] = "park" => pc["scheduler"] = "park"
    BY <1>2, NoPark, HomeIsNotPark
    DEF RunAttempt, Return, AfterPreflight, AfterRefresh, AfterReconcile
  <2>2. /\ coordinator'.status = coordinator.status /\ wake' = wake
        /\ coordinator'.network_wakeup_pending = coordinator.network_wakeup_pending
    BY <1>0, <1>2, ScheduleFields DEF RunAttempt
  <2>3. state' = state \/ state'.next_retry_at = None
    BY Zenon, <1>0, <1>2 DEF RunAttempt, AttemptBegun, RuntimeStates
  <2> QED BY <2>1, <2>2, <2>3, ScheduleFrame, CoordinatorConstants
<1>3. CASE InitialStartResolved(t) /\ ~ReturnStale(t)
  <2>0. PICK mode \in Modes, o \in Templates :
          /\ coordinator' = replace_active_options(coordinator, task[t].generation, o)
          /\ state' = [state EXCEPT !.options = o]
          /\ Go(t, "preflight", [task[t] EXCEPT !.mode = mode, !.options = o])
          /\ wake' = wake
    BY Zenon, <1>3 DEF InitialStartResolved
  <2>1. pc'["scheduler"] = "park" => pc["scheduler"] = "park"
    BY <2>0, NoPark
  <2>2. /\ coordinator'.status = coordinator.status /\ wake' = wake
        /\ coordinator'.network_wakeup_pending = coordinator.network_wakeup_pending
    BY <1>0, <2>0, ScheduleFields
  <2>3. state'.next_retry_at = state.next_retry_at /\ state'.retry_not_before = state.retry_not_before
    BY <1>0, <2>0 DEF RuntimeStates
  <2> QED BY <2>1, <2>2, <2>3, ScheduleFrame
<1>4. CASE \/ StageFails(t) \/ ReconcileFails(t) \/ StalledLeaseChecked(t)
           \/ EnterAttempt(t) \/ AttemptSucceeds(t) \/ AttemptFails(t)
           \/ StaleResultUndone(t) \/ CompensationFails(t)
           \/ EnterLegacyStart(t) \/ LegacyStartReturns(t)
  <2>1. pc'["scheduler"] = "park" => pc["scheduler"] = "park"
    BY Zenon, <1>4, NoPark, HomeIsNotPark
    DEF StageFails, ReconcileFails, StalledLeaseChecked, EnterAttempt, AttemptSucceeds, AttemptFails,
        StaleResultUndone, CompensationFails, EnterLegacyStart, LegacyStartReturns, Fail, Return
  <2>2. coordinator' = coordinator /\ wake' = wake
    BY Zenon, <1>4
    DEF StageFails, ReconcileFails, StalledLeaseChecked, EnterAttempt, AttemptSucceeds, AttemptFails,
        StaleResultUndone, CompensationFails, EnterLegacyStart, LegacyStartReturns
  <2>3. state'.next_retry_at = state.next_retry_at /\ state'.retry_not_before = state.retry_not_before
    BY Zenon, <1>0, <1>4
    DEF StageFails, ReconcileFails, StalledLeaseChecked, EnterAttempt, AttemptSucceeds, AttemptFails,
        StaleResultUndone, CompensationFails, EnterLegacyStart, LegacyStartReturns, RuntimeStates
  <2> QED BY <2>1, <2>2, <2>3, ScheduleFrame
<1>5. CASE (InitialPreflightDone(t) \/ CapabilityRefreshed(t) \/ OperationReconciled(t)
             \/ wait_for_recovery_power(t)) /\ ~ReturnStale(t)
  <2>1. pc'["scheduler"] = "park" => pc["scheduler"] = "park"
    BY <1>5, NoPark
    DEF InitialPreflightDone, CapabilityRefreshed, OperationReconciled, wait_for_recovery_power,
        AfterPreflight, AfterRefresh, AfterReconcile
  <2>2. coordinator' = coordinator /\ wake' = wake
    BY <1>5 DEF InitialPreflightDone, CapabilityRefreshed, OperationReconciled, wait_for_recovery_power
  <2>3. state'.next_retry_at = state.next_retry_at /\ state'.retry_not_before = state.retry_not_before
    BY <1>0, <1>5
    DEF InitialPreflightDone, CapabilityRefreshed, OperationReconciled, wait_for_recovery_power, RuntimeStates
  <2> QED BY <2>1, <2>2, <2>3, ScheduleFrame
<1>6. CASE complete_success(t)
  <2>1. pc'["scheduler"] = "park" => pc["scheduler"] = "park"
    BY <1>6, NoPark, HomeIsNotPark DEF complete_success, Return
  <2>2. CASE accept_result(coordinator, task[t].generation)
    <3>1. coordinator'.status # "Recovering"
      BY <1>0, <1>6, <2>2, ScheduleFields DEF complete_success
    <3>2. state'.next_retry_at = None
      BY Zenon, <1>0, <1>6, <2>2 DEF complete_success, RuntimeStates
    <3> QED BY <2>1, <3>1, <3>2, ScheduleFrame, CoordinatorConstants
  <2>3. CASE ~accept_result(coordinator, task[t].generation)
    <3>1. coordinator' = coordinator /\ state' = state /\ wake' = wake
      BY <1>6, <2>3 DEF complete_success
    <3> QED BY <2>1, <3>1, ScheduleFrame
  <2> QED BY <2>2, <2>3
<1>7. CASE CompensationCompleted(t)
  <2>1. pc'["scheduler"] = "park" => pc["scheduler"] = "park"
    BY <1>7, NoPark, HomeIsNotPark DEF CompensationCompleted, Return
  <2>2. /\ coordinator'.status = coordinator.status /\ wake' = wake /\ state' = state
        /\ coordinator'.network_wakeup_pending = coordinator.network_wakeup_pending
    BY Zenon, <1>0, <1>7, ScheduleFields DEF CompensationCompleted
  <2> QED BY <2>1, <2>2, ScheduleFrame
<1>8. CASE abandon_initial_intent_for_legacy(t)
  <2>1. pc'["scheduler"] = "park" => pc["scheduler"] = "park"
    BY <1>8, NoPark, HomeIsNotPark DEF abandon_initial_intent_for_legacy, Return
  <2>2. CASE can_cancel_intent(coordinator, task[t].generation)
    <3> DEFINE c == cancel_intent(coordinator, task[t].generation)
    <3>1. c \in Coordinators
      BY <1>0, SlotKept, IntentConstants
    <3>2. c.status = "None"
      BY <1>0, <2>2 DEF cancel_intent, Coordinators
    <3>3. coordinator' = complete_compensation(c, task[t].generation)
          /\ state'.next_retry_at = None
      BY <1>8, <2>2 DEF abandon_initial_intent_for_legacy, InitState
    <3>4. coordinator'.status # "Recovering"
      <4> HIDE DEF c
      <4> QED BY Zenon, <3>1, <3>2, <3>3, ScheduleFields
    <3> QED BY <2>1, <3>3, <3>4, ScheduleFrame, CoordinatorConstants
  <2>3. CASE ~can_cancel_intent(coordinator, task[t].generation)
    <3>1. coordinator' = coordinator /\ state' = state /\ wake' = wake
      BY <1>8, <2>3 DEF abandon_initial_intent_for_legacy
    <3> QED BY <2>1, <3>1, ScheduleFrame
  <2> QED BY <2>2, <2>3
<1> QED BY <1>1, <1>2, <1>3, <1>4, <1>5, <1>6, <1>7, <1>8, ErrorSchedule DEF AttemptStep

(* Every step keeps the schedule: what gives the parked scheduler something *)
(* to do also leaves it the permit.                                         *)
LEMMA ScheduleNext ==
    ASSUME TypeOK, ScheduleIsKept, [Next]_vars
    PROVE  ScheduleIsKept'
<1>0. coordinator \in Coordinators /\ state \in RuntimeStates
  BY DEF TypeOK
<1>1. CASE cancel
  <2>1. \/ coordinator' = coordinator /\ state' = state /\ wake' = wake
        \/ wake' /\ state'.next_retry_at = None
    <3>1. CASE can_cancel_intent(coordinator, coordinator.generation)
      <4>1. wake'
        BY <1>1, <3>1 DEF cancel
      <4>2. state'.next_retry_at = None
        BY <1>1, <3>1 DEF cancel, InitState
      <4> QED BY <4>1, <4>2
    <3>2. CASE ~can_cancel_intent(coordinator, coordinator.generation)
      BY <1>1, <3>2 DEF cancel
    <3> QED BY <3>1, <3>2
  <2>2. pc' = pc
    BY <1>1 DEF cancel
  <2> QED BY <2>1, <2>2, ScheduleFrame, CoordinatorConstants
<1>2. CASE signal_start_cancellation \/ StopApplication \/ retry_pending_stop \/ TunnelLost \/ PowerChanges
  BY <1>2 DEF signal_start_cancellation, StopApplication, retry_pending_stop, TunnelLost, PowerChanges,
              ScheduleIsKept
<1>3. CASE NetworkChanges
  BY <1>3 DEF NetworkChanges, ScheduleIsKept
<1>4. CASE TimePasses
  <2>1. coordinator' = coordinator /\ wake' = wake /\ pc' = pc
    BY <1>4 DEF TimePasses
  <2>2. /\ state'.next_retry_at = IF state.next_retry_at = "later" THEN "due" ELSE state.next_retry_at
        /\ state'.retry_not_before = IF state.retry_not_before = "later" THEN "due"
                                     ELSE state.retry_not_before
    BY <1>0, <1>4 DEF TimePasses, RuntimeStates
  <2> QED BY <2>1, <2>2, CoordinatorConstants DEF ScheduleIsKept
<1>5. CASE UNCHANGED vars
  BY <1>5 DEF vars, ScheduleIsKept
<1> QED BY <1>1, <1>2, <1>3, <1>4, <1>5, StarterSchedule, SchedulerSchedule, StallSchedule, AttemptSchedule
        DEF Next, StopStep, WorldStep

(* The schedule of the retries is kept: a scheduler that waits for a       *)
(* notification while a retry is scheduled has the permit, and no network  *)
(* wakeup makes the retry due before the server's retry_not_before.        *)
THEOREM RetryScheduleIsKept == Spec => []ScheduleIsKept
<1>1. Init => ScheduleIsKept
  <2>1. InitState.next_retry_at = None /\ InitCoordinator.status = "None"
    BY DEF InitState, InitCoordinator
  <2> QED BY <2>1, CoordinatorConstants DEF Init, ScheduleIsKept
<1>2. TypeOK /\ ScheduleIsKept /\ [Next]_vars => ScheduleIsKept'
  BY ScheduleNext
<1> QED BY <1>1, <1>2, TypeCorrect, PTL DEF Spec

-----------------------------------------------------------------------------
(* Recovery is driven by one task at a time. *)

(* A task drives the current intent: it is about to begin an attempt for   *)
(* it, or inside one.                                                      *)
Drives(t) ==
    /\ pc[t] = "ready" \/ HoldsSlot(t)
    /\ task[t].generation = coordinator.generation

(* No task remembers a generation that is still to come, a stall is that   *)
(* of some connection options, and what recovers is an intent.             *)
Bygone ==
    /\ \A t \in Tasks : pc[t] \in {"ready", "local"} \/ HoldsSlot(t) =>
          task[t].generation <= coordinator.generation
    /\ \A t \in Tasks : pc[t] = "local" => task[t].options # None
    /\ coordinator.status = "Recovering" => coordinator.desired # None

(* Before the first network change a recovering intent has one driver, and *)
(* an intent that does not recover has none.  A scheduled retry excludes   *)
(* every driver but the scheduler that found it due.                       *)
OneDriver ==
    network_changes = 0 =>
      /\ ~coordinator.network_wakeup_pending
      /\ coordinator.desired # None =>
          /\ state.options # None
          /\ coordinator.attempt_generation # None =>
                /\ coordinator.attempt_generation = coordinator.generation
                /\ \E t \in Tasks : HoldsSlot(t)
          /\ \A t \in Tasks : pc[t] \notin {"compensating", "compensated"}
          /\ \A t, u \in Tasks : Drives(t) /\ Drives(u) => t = u
          /\ coordinator.status = "Recovering" =>
                state.next_retry_at # None \/ \E t \in Tasks : Drives(t)
          /\ coordinator.status # "Recovering" =>
                state.next_retry_at = None /\ \A t \in Tasks : ~Drives(t)
          /\ \A t \in Tasks : Drives(t) /\ (HoldsSlot(t) \/ t # "scheduler") =>
                state.next_retry_at = None
          /\ pc["stall"] = "local" /\ task["stall"].generation = coordinator.generation =>
                coordinator.status # "Recovering"

(* The driven intent, with the slot of the attempts. *)
DrInv == IInv /\ Bygone /\ OneDriver

(* The types that the steps below use. *)
LEMMA DriverFacts ==
    ASSUME DrInv
    PROVE  /\ TypeOK /\ Bygone /\ OneDriver /\ SingleAttempt
           /\ coordinator \in Coordinators /\ coordinator.generation \in Nat /\ state \in RuntimeStates
           /\ task \in [Tasks -> TaskLocals]
           /\ \A t \in Tasks : task[t] \in TaskLocals /\ task[t].generation \in Nat
           /\ coordinator.status = "Recovering" => coordinator.desired # None
           /\ network_changes = 0 => ~coordinator.network_wakeup_pending
<1>1. TypeOK /\ Bygone /\ OneDriver /\ SingleAttempt
  BY DEF DrInv, IInv
<1>2. coordinator \in Coordinators /\ state \in RuntimeStates /\ task \in [Tasks -> TaskLocals]
  BY Zenon, <1>1 DEF TypeOK
<1>3. coordinator.generation \in Nat
  BY <1>2, CoordinatorConstants DEF Coordinators, Generations
<1>4. \A t \in Tasks : task[t] \in TaskLocals /\ task[t].generation \in Nat
  BY <1>2, CoordinatorConstants DEF TaskLocals, Generations
<1>5. coordinator.status = "Recovering" => coordinator.desired # None
  BY Zenon, <1>1 DEF Bygone
<1>6. network_changes = 0 => ~coordinator.network_wakeup_pending
  BY Zenon, <1>1 DEF OneDriver
<1> QED BY Zenon, <1>1, <1>2, <1>3, <1>4, <1>5, <1>6

LEMMA NewCoordinator == ASSUME TypeOK' PROVE coordinator' \in Coordinators
  BY Zenon DEF TypeOK

(* The places outside every attempt. *)
LEMMA HomeIsOutside ==
    ASSUME NEW t \in Tasks
    PROVE  Home(t) \notin AttemptPlaces \cup {"ready", "local"}
BY DEF Home, AttemptPlaces

(* What the coordinator's methods do to the intent they are given. *)
LEMMA IntentFields ==
    ASSUME NEW c \in Coordinators, NEW g, NEW t \in Templates, NEW l, NEW armed \in BOOLEAN,
           c.status = "Recovering" => c.desired # None
    PROVE  /\ schedule_retry(c, g).generation = c.generation
           /\ schedule_retry(c, g).desired = c.desired
           /\ schedule_retry(c, g).status \in {c.status, "Recovering"}
           /\ schedule_retry(c, g).status = "Recovering" => c.desired # None
           /\ can_schedule_retry(c, g) => schedule_retry(c, g).status = "Recovering"
           /\ complete_compensation(c, g).generation = c.generation
           /\ complete_compensation(c, g).desired = c.desired
           /\ replace_active_options(c, g, t).generation = c.generation
           /\ replace_active_options(c, g, t).desired = None <=> c.desired = None
           /\ begin_attempt(c, g).generation = c.generation
           /\ begin_attempt(c, g).desired = c.desired
           /\ AcceptedResult(c).generation = c.generation
           /\ AcceptedResult(c).desired = c.desired
           /\ AcceptedResult(c).status = c.status
           /\ AcceptedResult(c).attempt_generation = None
           /\ AcceptedResult(c).network_wakeup_pending = c.network_wakeup_pending
           /\ mark_connected(c, g, l).generation = c.generation
           /\ accept_result(c, g) =>
                 /\ mark_connected(c, g, l).desired = c.desired
                 /\ mark_connected(c, g, l).attempt_generation = None
                 /\ ~mark_connected(c, g, l).network_wakeup_pending
           /\ mark_terminal(c, g, armed).generation = c.generation
           /\ accept_result(c, g) =>
                 /\ mark_terminal(c, g, armed).desired = IF armed THEN c.desired ELSE None
                 /\ mark_terminal(c, g, armed).attempt_generation = None
                 /\ ~mark_terminal(c, g, armed).network_wakeup_pending
           /\ take_network_wakeup(c).generation = c.generation
           /\ take_network_wakeup(c).desired = c.desired
           /\ take_network_wakeup(c).attempt_generation = c.attempt_generation
<1>0. t # None
  BY CoordinatorConstants
<1>1. /\ schedule_retry(c, g).generation = c.generation
      /\ schedule_retry(c, g).desired = c.desired
      /\ schedule_retry(c, g).status \in {c.status, "Recovering"}
      /\ schedule_retry(c, g).status = "Recovering" => c.desired # None
      /\ can_schedule_retry(c, g) => schedule_retry(c, g).status = "Recovering"
  BY DEF schedule_retry, can_schedule_retry, Coordinators
<1>2. /\ complete_compensation(c, g).generation = c.generation
      /\ complete_compensation(c, g).desired = c.desired
  BY DEF complete_compensation, Coordinators
<1>3. /\ replace_active_options(c, g, t).generation = c.generation
      /\ replace_active_options(c, g, t).desired = None <=> c.desired = None
  BY <1>0 DEF replace_active_options, accept_result, Coordinators
<1>4. /\ begin_attempt(c, g).generation = c.generation
      /\ begin_attempt(c, g).desired = c.desired
  BY DEF begin_attempt, Coordinators
<1>5. /\ AcceptedResult(c).generation = c.generation
      /\ AcceptedResult(c).desired = c.desired
      /\ AcceptedResult(c).status = c.status
      /\ AcceptedResult(c).attempt_generation = None
      /\ AcceptedResult(c).network_wakeup_pending = c.network_wakeup_pending
  BY DEF AcceptedResult, Coordinators
<1>6. /\ mark_connected(c, g, l).generation = c.generation
      /\ accept_result(c, g) =>
            /\ mark_connected(c, g, l).desired = c.desired
            /\ mark_connected(c, g, l).attempt_generation = None
            /\ ~mark_connected(c, g, l).network_wakeup_pending
  BY DEF mark_connected, AcceptedResult, Coordinators
<1>7. /\ mark_terminal(c, g, armed).generation = c.generation
      /\ accept_result(c, g) =>
            /\ mark_terminal(c, g, armed).desired = IF armed THEN c.desired ELSE None
            /\ mark_terminal(c, g, armed).attempt_generation = None
            /\ ~mark_terminal(c, g, armed).network_wakeup_pending
  BY DEF mark_terminal, AcceptedResult, Coordinators
<1>8. /\ take_network_wakeup(c).generation = c.generation
      /\ take_network_wakeup(c).desired = c.desired
      /\ take_network_wakeup(c).attempt_generation = c.attempt_generation
  BY DEF take_network_wakeup, Coordinators
<1> QED BY Zenon, <1>1, <1>2, <1>3, <1>4, <1>5, <1>6, <1>7, <1>8

(* The generation of a coordinator is a natural number. *)
LEMMA GenerationIsNat ==
    ASSUME NEW c \in Coordinators
    PROVE  c.generation \in Nat
BY CoordinatorConstants DEF Coordinators, Generations

(* Generations are ordered: an equal one is not older, a later one is      *)
(* neither older nor equal, and what is not newer than one is not newer    *)
(* than a later one.                                                       *)
LEMMA GenerationOrder ==
    ASSUME NEW m \in Nat, NEW n \in Nat
    PROVE  /\ n = m => n >= m /\ n <= m
           /\ n > m => n >= m /\ ~(n <= m)
           /\ n >= m => \A k \in Nat : k <= m => k <= n
OBVIOUS

(* The task inside run_attempt drives an intent that is not given up. *)
LEMMA HolderDrives ==
    ASSUME DrInv, NEW t \in Tasks, HoldsSlot(t), network_changes = 0, coordinator.desired # None
    PROVE  /\ Drives(t)
           /\ coordinator.attempt_generation = coordinator.generation
           /\ coordinator.status = "Recovering"
           /\ state.next_retry_at = None
           /\ \A u \in Tasks : Drives(u) \/ HoldsSlot(u) => u = t
<1>1. coordinator.attempt_generation = task[t].generation
  BY DEF DrInv, IInv, SingleAttempt
<1>2. task[t].generation # None
  BY GenerationIsSome DEF DrInv, IInv, TypeOK, TaskLocals
<1>3. coordinator.attempt_generation = coordinator.generation
  BY <1>1, <1>2 DEF DrInv, OneDriver
<1>4. Drives(t)
  BY <1>1, <1>3 DEF Drives
<1>5. \A u \in Tasks : Drives(u) \/ HoldsSlot(u) => u = t
  BY <1>4 DEF DrInv, IInv, SingleAttempt, OneDriver
<1>6. coordinator.status = "Recovering" /\ state.next_retry_at = None
  BY Zenon, <1>4 DEF DrInv, OneDriver
<1> QED BY Zenon, <1>3, <1>4, <1>5, <1>6

(* An attempt that is not current any more belongs to an intent that was   *)
(* given up.                                                               *)
LEMMA StaleIsGivenUp ==
    ASSUME DrInv, NEW t \in Tasks, HoldsSlot(t), network_changes = 0,
           \/ ~IsCurrent(task[t].generation)
           \/ ~accept_result(coordinator, task[t].generation)
           \/ ~can_cancel_intent(coordinator, task[t].generation)
           \/ pc[t] \in {"compensating", "compensated"}
    PROVE  coordinator.desired = None
<1> SUFFICES ASSUME coordinator.desired # None PROVE FALSE
  OBVIOUS
<1>1. /\ Drives(t) /\ coordinator.attempt_generation = coordinator.generation
      /\ coordinator.status = "Recovering"
  BY Zenon, HolderDrives
<1>2. pc[t] \notin {"compensating", "compensated"}
  BY DEF DrInv, OneDriver
<1> QED BY Zenon, <1>1, <1>2 DEF Drives, IsCurrent, accept_result, can_cancel_intent

(* Nothing is driven once the intent is given up. *)
LEMMA GivenUpDriver ==
    ASSUME coordinator'.desired = None, network_changes' = 0 => ~coordinator'.network_wakeup_pending
    PROVE  OneDriver'
BY DEF OneDriver

(* Generations only grow, so a task that learns none stays in the past. *)
LEMMA BygoneKept ==
    ASSUME TypeOK, Bygone, NEW t \in Tasks, NEW place \in Places, NEW l \in TaskLocals,
           Go(t, place, l), coordinator' \in Coordinators,
           coordinator'.generation >= coordinator.generation,
           place \in {"ready", "local"} \cup AttemptPlaces => l.generation <= coordinator'.generation,
           place = "local" => l.options # None,
           coordinator'.status = "Recovering" => coordinator'.desired # None
    PROVE  Bygone'
<1>1. \A u \in Tasks : task[u].generation \in Nat /\ coordinator.generation \in Nat
                       /\ coordinator'.generation \in Nat
  <2>1. coordinator.generation \in Nat /\ coordinator'.generation \in Nat
    BY Zenon, GenerationIsNat DEF TypeOK
  <2>2. \A u \in Tasks : task[u].generation \in Nat
    BY CoordinatorConstants DEF TypeOK, TaskLocals, Generations
  <2> QED BY Zenon, <2>1, <2>2
<1>2. ASSUME NEW u \in Tasks, (pc[u] \in {"ready", "local"} \/ HoldsSlot(u))'
      PROVE  task'[u].generation <= coordinator'.generation
  <2>1. CASE u = t
    <3>1. pc'[u] = place /\ task'[u] = l
      BY Zenon, <2>1, GoMoves
    <3>2. place \in {"ready", "local"} \cup AttemptPlaces
      BY Zenon, <1>2, <3>1 DEF HoldsSlot
    <3> QED BY Zenon, <3>1, <3>2
  <2>2. CASE u # t
    <3>1. pc'[u] = pc[u] /\ task'[u] = task[u]
      BY Zenon, <2>2, GoMoves
    <3>2. task[u].generation <= coordinator.generation
      BY Zenon, <1>2, <3>1 DEF Bygone, HoldsSlot
    <3> QED BY Zenon, <1>1, <3>1, <3>2, GenerationOrder
  <2> QED BY Zenon, <2>1, <2>2
<1>3. \A u \in Tasks : pc'[u] = "local" => task'[u].options # None
  BY GoMoves DEF Bygone
<1> QED BY Zenon, <1>2, <1>3 DEF Bygone

(* The intent and its schedule are as they were. *)
SameIntent ==
    /\ coordinator'.generation = coordinator.generation
    /\ coordinator'.status = coordinator.status
    /\ coordinator'.attempt_generation = coordinator.attempt_generation
    /\ coordinator'.network_wakeup_pending = coordinator.network_wakeup_pending
    /\ coordinator'.desired = None <=> coordinator.desired = None
    /\ state'.options = None <=> state.options = None
    /\ state'.next_retry_at = None <=> state.next_retry_at = None
    /\ network_changes' = network_changes

(* The driver goes on inside run_attempt. *)
LEMMA DriverMoves ==
    ASSUME TypeOK, OneDriver, SameIntent, NEW t \in Tasks, NEW place \in AttemptPlaces,
           NEW l \in TaskLocals, Go(t, place, l), HoldsSlot(t), l.generation = task[t].generation,
           place \in {"compensating", "compensated"} =>
              (network_changes = 0 => coordinator.desired = None)
    PROVE  OneDriver'
<1>0. place \in Places
  BY DEF Places, AttemptPlaces
<1>1. ASSUME NEW u \in Tasks
      PROVE  /\ HoldsSlot(u)' <=> HoldsSlot(u)
             /\ Drives(u)' <=> Drives(u)
             /\ \/ pc'[u] = pc[u] /\ task'[u] = task[u]
                \/ u = t /\ pc'[u] = place /\ pc[u] \in AttemptPlaces
  <2>1. CASE u = t
    <3>1. pc'[u] = place /\ task'[u] = l /\ pc[u] \in AttemptPlaces
      BY Zenon, <1>0, <2>1, GoMoves DEF HoldsSlot
    <3>2. HoldsSlot(u) /\ HoldsSlot(u)'
      BY Zenon, <3>1 DEF HoldsSlot
    <3> QED BY Zenon, <2>1, <3>1, <3>2 DEF Drives, SameIntent
  <2>2. CASE u # t
    <3>1. pc'[u] = pc[u] /\ task'[u] = task[u]
      BY Zenon, <1>0, <2>2, GoMoves
    <3> QED BY Zenon, <3>1 DEF HoldsSlot, Drives, SameIntent
  <2> QED BY Zenon, <2>1, <2>2
<1>2. pc'["stall"] = "local" => pc["stall"] = "local" /\ task'["stall"] = task["stall"]
  <2>1. place # "local" /\ "stall" \in Tasks
    BY DEF AttemptPlaces, Tasks
  <2> QED BY Zenon, <1>1, <2>1
<1> QED BY Zenon, <1>1, <1>2 DEF OneDriver, SameIntent

(* A task that drives nothing moves, and still drives nothing. *)
LEMMA BystanderMoves ==
    ASSUME TypeOK, OneDriver, SameIntent, NEW t \in Tasks, NEW place \in Places,
           NEW l \in TaskLocals, Go(t, place, l),
           ~Drives(t) /\ ~HoldsSlot(t) /\ place \notin AttemptPlaces,
           place = "ready" => l.generation # coordinator.generation,
           place = "local" /\ l.generation = coordinator.generation =>
              coordinator.status # "Recovering"
    PROVE  OneDriver'
<1>1. ASSUME NEW u \in Tasks
      PROVE  /\ HoldsSlot(u)' <=> HoldsSlot(u)
             /\ Drives(u)' <=> Drives(u)
             /\ \/ pc'[u] = pc[u] /\ task'[u] = task[u]
                \/ u = t /\ pc'[u] = place /\ task'[u] = l
  <2>1. CASE u = t
    <3>1. pc'[u] = place /\ task'[u] = l
      BY Zenon, <2>1, GoMoves
    <3>2. ~HoldsSlot(u)' /\ ~Drives(u)'
      BY Zenon, <3>1 DEF HoldsSlot, Drives, SameIntent
    <3> QED BY Zenon, <2>1, <3>1, <3>2
  <2>2. CASE u # t
    <3>1. pc'[u] = pc[u] /\ task'[u] = task[u]
      BY Zenon, <2>2, GoMoves
    <3> QED BY Zenon, <3>1 DEF HoldsSlot, Drives, SameIntent
  <2> QED BY Zenon, <2>1, <2>2
<1>2. "stall" \in Tasks /\ place \notin {"compensating", "compensated"}
  BY DEF AttemptPlaces, Tasks
<1> QED BY Zenon, <1>1, <1>2 DEF OneDriver, SameIntent

(* A step between typed states moves a task to a typed place. *)
LEMMA GoTypes ==
    ASSUME TypeOK, TypeOK', NEW t \in Tasks, NEW place, NEW l, Go(t, place, l)
    PROVE  /\ place \in Places /\ l \in TaskLocals
           /\ pc'[t] = place /\ task'[t] = l
           /\ \A u \in Tasks \ {t} : pc'[u] = pc[u] /\ task'[u] = task[u]
<1>1. pc'[t] = place /\ task'[t] = l
  BY DEF TypeOK, Go
<1>2. pc'[t] \in Places /\ task'[t] \in TaskLocals
  BY DEF TypeOK
<1>3. \A u \in Tasks \ {t} : pc'[u] = pc[u] /\ task'[u] = task[u]
  BY DEF TypeOK, Go
<1> QED BY Zenon, <1>1, <1>2, <1>3

(* The step of a driver that goes on inside run_attempt. *)
LEMMA DriverStep ==
    ASSUME DrInv, TypeOK', SameIntent, NEW t \in Tasks, NEW place \in AttemptPlaces, NEW l,
           Go(t, place, l), HoldsSlot(t), l.generation = task[t].generation,
           place \in {"compensating", "compensated"} =>
              (network_changes = 0 => coordinator.desired = None)
    PROVE  Bygone' /\ OneDriver'
<1>1. place \in Places /\ l \in TaskLocals /\ coordinator' \in Coordinators
  BY Zenon, GoTypes, DriverFacts, NewCoordinator
<1>2. task[t].generation <= coordinator.generation
  BY DEF DrInv, Bygone
<1>3. /\ coordinator'.generation = coordinator.generation
      /\ coordinator'.status = "Recovering" => coordinator'.desired # None
  BY Zenon DEF SameIntent, DrInv, Bygone
<1>4. coordinator.generation \in Nat
  BY Zenon, DriverFacts
<1>5. TypeOK /\ Bygone /\ OneDriver
  BY Zenon, DriverFacts
<1>6. Bygone'
  <2>1. place # "local"
    BY DEF AttemptPlaces
  <2>2. coordinator'.generation >= coordinator.generation
    BY Zenon, <1>3, <1>4, GenerationOrder
  <2> QED BY Zenon, <1>1, <1>2, <1>3, <1>5, <2>1, <2>2, BygoneKept
<1> QED BY Zenon, <1>1, <1>5, <1>6, DriverMoves

(* The step of a task that drives nothing, before and after. *)
LEMMA BystanderStep ==
    ASSUME DrInv, TypeOK', SameIntent, NEW t \in Tasks, NEW place, NEW l,
           Go(t, place, l),
           ~Drives(t) /\ ~HoldsSlot(t) /\ place \notin AttemptPlaces \cup {"ready"},
           place = "local" => /\ l.generation = coordinator.generation /\ l.options # None
                              /\ coordinator.status # "Recovering"
    PROVE  Bygone' /\ OneDriver'
<1>1. place \in Places /\ l \in TaskLocals /\ coordinator' \in Coordinators
  BY Zenon, GoTypes, DriverFacts, NewCoordinator
<1>3. /\ coordinator'.generation = coordinator.generation
      /\ coordinator'.status = "Recovering" => coordinator'.desired # None
  BY Zenon DEF SameIntent, DrInv, Bygone
<1>4. coordinator.generation \in Nat
  BY Zenon, DriverFacts
<1>5. TypeOK /\ Bygone /\ OneDriver
  BY Zenon, DriverFacts
<1>6. Bygone'
  <2>1. /\ coordinator'.generation >= coordinator.generation
        /\ coordinator.generation <= coordinator'.generation
    BY Zenon, <1>3, <1>4, GenerationOrder
  <2> QED BY Zenon, <1>1, <1>3, <1>5, <2>1, BygoneKept
<1> QED BY Zenon, <1>1, <1>5, <1>6, BystanderMoves

(* The step of a task after which the intent is given up, or the network   *)
(* has changed.                                                            *)
LEMMA GivenUpStep ==
    ASSUME DrInv, TypeOK', NEW t \in Tasks, NEW place, NEW l, Go(t, place, l),
           place \notin AttemptPlaces \cup {"ready", "local"},
           coordinator'.generation >= coordinator.generation,
           coordinator'.status = "Recovering" => coordinator'.desired # None,
           network_changes' = 0 =>
              coordinator'.desired = None /\ ~coordinator'.network_wakeup_pending
    PROVE  Bygone' /\ OneDriver'
<1>1. place \in Places /\ l \in TaskLocals /\ coordinator' \in Coordinators
  BY Zenon, GoTypes, DriverFacts, NewCoordinator
<1>2. TypeOK /\ Bygone
  BY Zenon, DriverFacts
<1>3. Bygone'
  BY Zenon, <1>1, <1>2, BygoneKept
<1>4. OneDriver'
  BY DEF OneDriver
<1> QED BY Zenon, <1>3, <1>4

(* What a Start command does to the intent: a new one, with a generation   *)
(* of its own, in place of none, of a dropped or of a blocked one; nothing *)
(* but the exhausted mark; or it only drops a connection that is gone.     *)
LEMMA StartCases ==
    ASSUME TypeOK, Bygone, NEW u \in Starters, start_or_resume_internal(u)
    PROVE  \/ /\ coordinator.attempt_generation = None
                 \/ (coordinator.desired # None /\ coordinator.status = "BlockedTerminal")
              /\ coordinator'.generation > coordinator.generation
              /\ coordinator'.desired # None /\ coordinator'.status = "Recovering"
              /\ coordinator'.attempt_generation = coordinator.attempt_generation
              /\ ~coordinator'.network_wakeup_pending
              /\ state'.options # None /\ state'.next_retry_at = None
              /\ \E l : Go(u, "ready", l) /\ l.generation = coordinator'.generation
           \/ SameIntent /\ Return(u)
           \/ /\ coordinator'.generation >= coordinator.generation
              /\ coordinator'.desired = None /\ coordinator'.status # "Recovering"
              /\ ~coordinator'.network_wakeup_pending
              /\ Return(u)
<1>0. u \in Tasks /\ coordinator \in Coordinators /\ state \in RuntimeStates
  BY DEF Tasks, TypeOK
<1>1. PICK t \in Templates, p \in {"start", "quick"} :
          LET l       == task[u]
              drops   == RetiresObserved(l) \/ ReplacesMismatched(l, t)
              kept    == IF drops
                           THEN cancel_intent(coordinator, coordinator.generation)
                           ELSE coordinator
              base    == IF drops
                           THEN [state EXCEPT !.armed = FALSE,
                                              !.owned_lease = None,
                                              !.attempt_kind = "Start"]
                           ELSE state
              resumed == start_or_resume(kept, t)
              runs    == /\ start_disposition(kept, t) = "Recovering"
                         /\ resumed.generation # coordinator.generation
          IN IF runs
             THEN /\ coordinator' = consume_immediate_retry_slot(resumed, resumed.generation)
                  /\ state' = initialize_episode(base, t, p)
                  /\ Go(u, "ready", [NoTask EXCEPT !.generation = resumed.generation])
             ELSE coordinator' = resumed /\ state' = base /\ Return(u)
  BY DEF start_or_resume_internal
<1> DEFINE drops == RetiresObserved(task[u]) \/ ReplacesMismatched(task[u], t)
           kept == IF drops THEN cancel_intent(coordinator, coordinator.generation) ELSE coordinator
           base == IF drops
                     THEN [state EXCEPT !.armed = FALSE, !.owned_lease = None,
                                        !.attempt_kind = "Start"]
                     ELSE state
           resumed == start_or_resume(kept, t)
           runs == /\ start_disposition(kept, t) = "Recovering"
                   /\ resumed.generation # coordinator.generation
           new == /\ start_disposition(kept, t) = "Recovering"
                  /\ kept.desired = None \/ kept.status = "BlockedTerminal"
<1>2. /\ runs => /\ coordinator' = schedule_retry(resumed, resumed.generation)
                 /\ state' = initialize_episode(base, t, p)
                 /\ Go(u, "ready", [NoTask EXCEPT !.generation = resumed.generation])
      /\ ~runs => coordinator' = resumed /\ state' = base /\ Return(u)
  BY Zenon, <1>1 DEF consume_immediate_retry_slot
<1>3. /\ kept \in Coordinators
      /\ kept.attempt_generation = coordinator.attempt_generation
      /\ \/ kept = coordinator
         \/ /\ kept.desired = None /\ kept.status = "None" /\ ~kept.network_wakeup_pending
            /\ kept.generation \in {coordinator.generation, coordinator.generation + 1}
  <2>1. LET c == cancel_intent(coordinator, coordinator.generation)
        IN \/ c = coordinator
           \/ /\ c.desired = None /\ c.status = "None" /\ ~c.network_wakeup_pending
              /\ c.generation \in {coordinator.generation, coordinator.generation + 1}
    BY Zenon, <1>0 DEF cancel_intent, Coordinators
  <2>2. kept \in Coordinators /\ kept.attempt_generation = coordinator.attempt_generation
    BY Zenon, <1>0, <1>1, SlotKept
  <2> QED BY Zenon, <2>1, <2>2
<1>4. base \in RuntimeStates /\ base.options = state.options /\ base.next_retry_at = state.next_retry_at
  BY Zenon, <1>0 DEF RuntimeStates, AttemptKinds
<1>5. coordinator.generation \in Nat /\ kept.generation \in Nat
  BY Zenon, <1>0, <1>3, GenerationIsNat
<1>6. /\ resumed \in Coordinators
      /\ resumed.attempt_generation = coordinator.attempt_generation
  BY Zenon, <1>1, <1>3, StartKeepsSlot
<1>7. /\ new => /\ resumed.generation = kept.generation + 1 /\ resumed.desired = t
                /\ resumed.status = "Recovering" /\ ~resumed.network_wakeup_pending
      /\ ~new => /\ resumed.generation = kept.generation /\ resumed.desired = kept.desired
                 /\ resumed.status = kept.status
                 /\ resumed.network_wakeup_pending = kept.network_wakeup_pending
  BY Zenon, <1>3 DEF start_or_resume, NewIntent, Coordinators
<1>8. t # None
  BY Zenon, <1>1, CoordinatorConstants
<1>9. new => kept.attempt_generation = None \/ (kept.desired # None /\ kept.status = "BlockedTerminal")
  BY Zenon, <1>8 DEF start_disposition
<1> HIDE DEF drops, kept, base, resumed
<1>10. runs => new
  <2>1. CASE kept = coordinator
    BY Zenon, <1>7, <2>1
  <2>2. CASE kept.desired = None
    BY Zenon, <2>2
  <2> QED BY Zenon, <1>3, <2>1, <2>2
<1>11. new => runs
  <2>1. kept.generation + 1 # coordinator.generation
    BY <1>3, <1>5
  <2> QED BY Zenon, <1>7, <2>1
<1> HIDE DEF runs, new
<1>12. CASE new
  <2>1. /\ coordinator' = schedule_retry(resumed, resumed.generation)
        /\ state' = initialize_episode(base, t, p)
        /\ Go(u, "ready", [NoTask EXCEPT !.generation = resumed.generation])
    BY Zenon, <1>2, <1>11, <1>12
  <2>2. /\ coordinator'.generation = resumed.generation /\ coordinator'.desired = resumed.desired
        /\ coordinator'.status = "Recovering"
        /\ coordinator'.attempt_generation = resumed.attempt_generation
        /\ coordinator'.network_wakeup_pending = resumed.network_wakeup_pending
    <3>1. resumed.status = "Recovering" => resumed.desired # None
      BY Zenon, <1>7, <1>8, <1>12
    <3>2. schedule_retry(resumed, resumed.generation).status \in {resumed.status, "Recovering"}
      BY Zenon, <1>1, <1>6, <3>1, IntentFields
    <3>3. /\ coordinator'.generation = resumed.generation /\ coordinator'.desired = resumed.desired
          /\ coordinator'.status = "Recovering"
      BY Zenon, <1>1, <1>6, <1>7, <1>12, <2>1, <3>1, <3>2, IntentFields
    <3>4. coordinator'.attempt_generation = resumed.attempt_generation
      BY Zenon, <1>1, <1>6, <2>1, SlotKept
    <3>5. coordinator'.network_wakeup_pending = resumed.network_wakeup_pending
      BY Zenon, <1>6, <2>1, ScheduleFields
    <3> QED BY Zenon, <3>3, <3>4, <3>5
  <2>3. state'.options = t /\ state'.next_retry_at = None
    BY Zenon, <1>4, <2>1 DEF initialize_episode, RuntimeStates
  <2>4. [NoTask EXCEPT !.generation = resumed.generation].generation = resumed.generation
    BY Zenon, HomeFacts, <1>0 DEF TaskLocals
  <2>5. coordinator'.generation > coordinator.generation
    BY <1>3, <1>5, <1>7, <1>12, <2>2
  <2>6. coordinator.attempt_generation = None
          \/ (coordinator.desired # None /\ coordinator.status = "BlockedTerminal")
    BY Zenon, <1>3, <1>9, <1>12
  <2> QED BY Zenon, <1>6, <1>7, <1>8, <1>12, <2>1, <2>2, <2>3, <2>4, <2>5, <2>6
<1>13. CASE ~new
  <2>1. coordinator' = resumed /\ state' = base /\ Return(u)
    BY Zenon, <1>2, <1>10, <1>13
  <2>2. CASE kept = coordinator
    <3>1. network_changes' = network_changes
      BY DEF start_or_resume_internal, Environment
    <3>2. SameIntent
      BY Zenon, <1>4, <1>6, <1>7, <1>13, <2>1, <2>2, <3>1 DEF SameIntent
    <3> QED BY Zenon, <2>1, <3>2
  <2>3. CASE kept # coordinator
    <3>1. kept.generation >= coordinator.generation
      BY <1>3, <1>5, <2>3
    <3> QED BY Zenon, <1>3, <1>7, <1>13, <2>1, <2>3, <3>1
  <2> QED BY Zenon, <2>2, <2>3
<1> QED BY Zenon, <1>12, <1>13

(* Start commands. *)
LEMMA StarterDriver ==
    ASSUME DrInv, TypeOK', NEW u \in Starters, StarterStep(u)
    PROVE  Bygone' /\ OneDriver'
<1>0. /\ u \in Tasks /\ u # "stall" /\ u # "scheduler" /\ TypeOK /\ Bygone /\ OneDriver /\ SingleAttempt
      /\ Home(u) \notin AttemptPlaces \cup {"ready", "local"}
  BY Zenon, IntentConstants, HomeFacts DEF Tasks, DrInv, IInv, Home, AttemptPlaces
<1>1. ~Drives(u) /\ ~HoldsSlot(u)
  BY DEF StarterStep, ObserveCompleted, ReadCoreState, start_or_resume_internal, Drives, HoldsSlot, AttemptPlaces
<1>2. CASE ObserveCompleted(u) \/ ReadCoreState(u)
  <2>1. SameIntent
    BY Zenon, <1>2 DEF ObserveCompleted, ReadCoreState, SameIntent, Environment
  <2>2. PICK place \in {"observed", "snapped"} : \E l : Go(u, place, l)
    BY Zenon, <1>2 DEF ObserveCompleted, ReadCoreState
  <2>3. place \notin AttemptPlaces \cup {"ready", "local"}
    BY DEF AttemptPlaces
  <2> QED BY Zenon, <1>0, <1>1, <2>1, <2>2, <2>3, BystanderStep
<1>3. CASE start_or_resume_internal(u)
  <2>0. network_changes' = network_changes
    BY Zenon, <1>3 DEF start_or_resume_internal, Environment
  <2>1. CASE SameIntent /\ Return(u)
    BY Zenon, <1>0, <1>1, <2>1, BystanderStep DEF Return
  <2>2. CASE /\ coordinator'.generation >= coordinator.generation
             /\ coordinator'.desired = None /\ coordinator'.status # "Recovering"
             /\ ~coordinator'.network_wakeup_pending
             /\ Return(u)
    BY Zenon, <1>0, <2>2, GivenUpStep DEF Return
  <2>3. CASE /\ coordinator.attempt_generation = None
                \/ (coordinator.desired # None /\ coordinator.status = "BlockedTerminal")
             /\ coordinator'.generation > coordinator.generation
             /\ coordinator'.desired # None /\ coordinator'.status = "Recovering"
             /\ coordinator'.attempt_generation = coordinator.attempt_generation
             /\ ~coordinator'.network_wakeup_pending
             /\ state'.options # None /\ state'.next_retry_at = None
             /\ \E l : Go(u, "ready", l) /\ l.generation = coordinator'.generation
    <3>1. PICK l : Go(u, "ready", l) /\ l.generation = coordinator'.generation
      BY Zenon, <2>3
    <3>2. /\ l \in TaskLocals /\ "ready" \in Places /\ coordinator' \in Coordinators
          /\ coordinator.generation \in Nat /\ coordinator'.generation \in Nat
      <4>1. l \in TaskLocals /\ "ready" \in Places
        BY Zenon, <1>0, <3>1, GoTypes
      <4>2. coordinator \in Coordinators /\ coordinator' \in Coordinators
        BY Zenon, DriverFacts, NewCoordinator
      <4> QED BY Zenon, <4>1, <4>2, GenerationIsNat
    <3>3. Bygone'
      <4>1. /\ coordinator'.generation >= coordinator.generation
            /\ l.generation <= coordinator'.generation
        BY Zenon, <2>3, <3>1, <3>2, GenerationOrder
      <4> QED BY Zenon, <1>0, <2>3, <3>1, <3>2, <4>1, BygoneKept
    <3>4. /\ pc'[u] = "ready" /\ task'[u] = l
          /\ \A v \in Tasks \ {u} : pc'[v] = pc[v] /\ task'[v] = task[v]
      <4>1. TypeOK /\ Go(u, "ready", l) /\ u \in Tasks
        BY Zenon, <1>0, <3>1
      <4> QED BY Zenon, <4>1, GoTypes
    <3>5. \A v \in Tasks : v # u => ~Drives(v)'
      <4> SUFFICES ASSUME NEW v \in Tasks, v # u, Drives(v)' PROVE FALSE
        OBVIOUS
      <4>1. pc[v] = "ready" \/ HoldsSlot(v)
        BY Zenon, <3>4 DEF Drives, HoldsSlot
      <4>2. task[v].generation = coordinator'.generation
        BY Zenon, <3>4 DEF Drives
      <4>3. task[v].generation <= coordinator.generation
        BY Zenon, <1>0, <4>1 DEF Bygone
      <4>4. ~(coordinator'.generation <= coordinator.generation)
        BY Zenon, <2>3, <3>2, GenerationOrder
      <4> QED BY Zenon, <4>2, <4>3, <4>4
    <3>6. network_changes = 0 => coordinator.attempt_generation = None
      <4> SUFFICES ASSUME network_changes = 0, coordinator.attempt_generation # None PROVE FALSE
        OBVIOUS
      <4>1. PICK v \in Tasks : HoldsSlot(v)
        BY Zenon, <1>0, <2>3 DEF OneDriver
      <4> QED BY Zenon, <2>3, <4>1, HolderDrives
    <3>7. network_changes = 0 => \A v \in Tasks : ~HoldsSlot(v)
      BY <1>0, <3>6, GenerationIsSome DEF SingleAttempt, TypeOK, TaskLocals
    <3>8. network_changes = 0 => \A v \in Tasks : ~HoldsSlot(v)'
      BY Zenon, <3>4, <3>7 DEF HoldsSlot, AttemptPlaces
    <3>9. Drives(u)'
      BY Zenon, <3>1, <3>4 DEF Drives
    <3>10. ~(pc'["stall"] = "local" /\ task'["stall"].generation = coordinator'.generation)
      <4>1. "stall" \in Tasks \ {u}
        BY Zenon, <1>0 DEF Tasks
      <4>2. pc["stall"] = "local" => task["stall"].generation <= coordinator.generation
        BY Zenon, <1>0, <4>1 DEF Bygone
      <4>3. pc'["stall"] = pc["stall"] /\ task'["stall"] = task["stall"]
        BY Zenon, <3>4, <4>1
      <4>4. ~(coordinator'.generation <= coordinator.generation)
        BY Zenon, <2>3, <3>2, GenerationOrder
      <4> QED BY Zenon, <4>2, <4>3, <4>4
    <3>11. network_changes = 0 => \A v \in Tasks : pc'[v] \notin {"compensating", "compensated"}
      BY Zenon, <3>8 DEF HoldsSlot, AttemptPlaces
    <3>12. OneDriver'
      BY Zenon, <1>0, <2>0, <2>3, <3>5, <3>6, <3>9, <3>10, <3>11 DEF OneDriver
    <3> QED BY Zenon, <3>3, <3>12
  <2> QED BY Zenon, <1>0, <1>3, <2>1, <2>2, <2>3, StartCases
<1> QED BY Zenon, <1>2, <1>3 DEF StarterStep

(* The driver returns: the slot is free, and the intent is given up,       *)
(* settled, or left to a scheduled retry.                                  *)
LEMMA DriverEnds ==
    ASSUME DrInv, TypeOK', NEW t \in Tasks, HoldsSlot(t), Return(t),
           network_changes' = network_changes,
           coordinator'.generation = coordinator.generation,
           coordinator'.status = "Recovering" => coordinator'.desired # None,
           coordinator'.attempt_generation = None,
           network_changes = 0 => ~coordinator'.network_wakeup_pending,
           coordinator'.desired = None \/ coordinator.desired # None,
           coordinator'.desired # None /\ state.options # None => state'.options # None,
           coordinator'.desired # None =>
              (coordinator'.status = "Recovering" <=> state'.next_retry_at # None)
    PROVE  Bygone' /\ OneDriver'
<1>0. /\ TypeOK /\ Bygone /\ OneDriver /\ coordinator' \in Coordinators
      /\ Home(t) \notin AttemptPlaces \cup {"ready", "local"} /\ Home(t) \in Places
      /\ NoTask \in TaskLocals /\ Go(t, Home(t), NoTask)
      /\ coordinator.generation \in Nat
  <2>1. Home(t) \in Places /\ NoTask \in TaskLocals
    BY Zenon, HomeFacts
  <2> QED BY Zenon, <2>1, DriverFacts, NewCoordinator, HomeIsOutside DEF Return
<1>1. Bygone'
  <2>1. coordinator'.generation >= coordinator.generation
    BY Zenon, <1>0, GenerationOrder
  <2> QED BY Zenon, <1>0, <2>1, BygoneKept
<1>2. CASE network_changes # 0 \/ coordinator'.desired = None
  BY Zenon, <1>1, <1>2 DEF OneDriver
<1>3. CASE network_changes = 0 /\ coordinator'.desired # None
  <2>1. /\ coordinator.status = "Recovering"
        /\ \A u \in Tasks : Drives(u) \/ HoldsSlot(u) => u = t
    BY Zenon, <1>3, HolderDrives
  <2>2. /\ pc'[t] = Home(t)
        /\ \A u \in Tasks \ {t} : pc'[u] = pc[u] /\ task'[u] = task[u]
    BY Zenon, <1>0, GoTypes
  <2>3. \A u \in Tasks : ~HoldsSlot(u)' /\ ~Drives(u)'
    <3> SUFFICES ASSUME NEW u \in Tasks PROVE ~HoldsSlot(u)' /\ ~Drives(u)'
      OBVIOUS
    <3>1. CASE u = t
      BY Zenon, <1>0, <2>2, <3>1 DEF HoldsSlot, Drives
    <3>2. CASE u # t
      BY Zenon, <2>1, <2>2, <3>2 DEF HoldsSlot, Drives
    <3> QED BY Zenon, <3>1, <3>2
  <2>4. \A u \in Tasks : pc'[u] \notin {"compensating", "compensated"}
    BY Zenon, <2>3 DEF HoldsSlot, AttemptPlaces
  <2>5. ~(pc'["stall"] = "local" /\ task'["stall"].generation = coordinator'.generation)
    <3>1. "stall" \in Tasks
      BY DEF Tasks
    <3> QED BY Zenon, <1>0, <1>3, <2>1, <2>2, <3>1 DEF OneDriver
  <2>6. state'.options # None
    BY Zenon, <1>0, <1>3 DEF OneDriver
  <2> QED BY Zenon, <1>1, <1>3, <2>3, <2>4, <2>5, <2>6 DEF OneDriver
<1> QED BY Zenon, <1>1, <1>2, <1>3

(* No task moves, and the intent is as it was. *)
LEMMA NobodyMoves ==
    ASSUME DrInv, SameIntent, pc' = pc,
           \A t \in Tasks : /\ task'[t].generation = task[t].generation
                            /\ task'[t].options = task[t].options
    PROVE  Bygone' /\ OneDriver'
<1>1. \A t \in Tasks : (HoldsSlot(t)' <=> HoldsSlot(t)) /\ (Drives(t)' <=> Drives(t))
  BY DEF HoldsSlot, Drives, SameIntent
<1>2. "stall" \in Tasks
  BY DEF Tasks
<1>3. Bygone'
  BY Zenon, <1>1 DEF DrInv, Bygone, SameIntent
<1>4. OneDriver'
  BY Zenon, <1>1, <1>2 DEF DrInv, OneDriver, SameIntent
<1> QED BY Zenon, <1>3, <1>4

(* A task begins to drive an intent that nobody drives. *)
LEMMA DriverBegins ==
    ASSUME DrInv, TypeOK', NEW t \in Tasks, NEW l, Go(t, "ready", l),
           pc[t] \notin AttemptPlaces,
           l.generation = coordinator.generation,
           network_changes' = network_changes,
           coordinator'.generation = coordinator.generation,
           coordinator'.attempt_generation = coordinator.attempt_generation,
           coordinator'.desired = coordinator.desired, coordinator.desired # None,
           coordinator'.status = "Recovering",
           coordinator.network_wakeup_pending = FALSE => ~coordinator'.network_wakeup_pending,
           state'.options = state.options,
           network_changes = 0 =>
              /\ \A u \in Tasks : ~Drives(u)
              /\ state'.next_retry_at = None \/ t = "scheduler"
              /\ t = "stall" \/ coordinator.status = "Recovering"
    PROVE  Bygone' /\ OneDriver'
<1>0. /\ TypeOK /\ Bygone /\ OneDriver /\ coordinator' \in Coordinators /\ coordinator \in Coordinators
      /\ l \in TaskLocals /\ "ready" \in Places /\ pc'[t] = "ready" /\ task'[t] = l
      /\ \A u \in Tasks \ {t} : pc'[u] = pc[u] /\ task'[u] = task[u]
      /\ coordinator.generation \in Nat
  <2>0. TypeOK
    BY Zenon, DriverFacts
  <2>1. "ready" \in Places /\ l \in TaskLocals /\ pc'[t] = "ready" /\ task'[t] = l
    BY <2>0, GoTypes
  <2>2. \A u \in Tasks \ {t} : pc'[u] = pc[u] /\ task'[u] = task[u]
    BY Zenon, <2>0, GoTypes
  <2> QED BY Zenon, <2>1, <2>2, DriverFacts, NewCoordinator
<1>1. Bygone'
  <2>1. coordinator'.generation >= coordinator.generation /\ l.generation <= coordinator'.generation
    BY Zenon, <1>0, GenerationOrder
  <2> QED BY Zenon, <1>0, <2>1, BygoneKept
<1>2. CASE network_changes # 0
  BY Zenon, <1>1, <1>2 DEF OneDriver
<1>3. CASE network_changes = 0
  <2>1. \A u \in Tasks : ~HoldsSlot(u)
    BY Zenon, <1>3, HolderDrives
  <2>2. \A u \in Tasks : ~HoldsSlot(u)'
    BY Zenon, <1>0, <2>1 DEF HoldsSlot, AttemptPlaces
  <2>3. \A u \in Tasks : Drives(u)' <=> u = t
    <3> SUFFICES ASSUME NEW u \in Tasks PROVE Drives(u)' <=> u = t
      OBVIOUS
    <3>1. CASE u = t
      BY Zenon, <1>0, <3>1 DEF Drives
    <3>2. CASE u # t
      BY Zenon, <1>0, <1>3, <3>2 DEF Drives, HoldsSlot
    <3> QED BY Zenon, <3>1, <3>2
  <2>4. coordinator'.attempt_generation = None
    BY Zenon, <1>0, <1>3, <2>1 DEF OneDriver
  <2>5. \A u \in Tasks : pc'[u] \notin {"compensating", "compensated"}
    BY Zenon, <2>2 DEF HoldsSlot, AttemptPlaces
  <2>6. ~(pc'["stall"] = "local" /\ task'["stall"].generation = coordinator'.generation)
    <3>1. "stall" \in Tasks
      BY DEF Tasks
    <3>2. CASE t = "stall"
      BY Zenon, <1>0, <3>2
    <3>3. CASE t # "stall"
      BY Zenon, <1>0, <1>3, <3>1, <3>3 DEF OneDriver
    <3> QED BY Zenon, <3>2, <3>3
  <2>7. ~coordinator'.network_wakeup_pending /\ state'.options # None
    BY Zenon, <1>0, <1>3 DEF OneDriver, Coordinators
  <2> QED BY Zenon, <1>1, <1>3, <2>2, <2>3, <2>4, <2>5, <2>6, <2>7 DEF OneDriver
<1> QED BY Zenon, <1>2, <1>3

(* The scheduler: the retry it finds due is nobody else's. *)
LEMMA SchedulerDriver ==
    ASSUME DrInv, TypeOK', SchedulerStep
    PROVE  Bygone' /\ OneDriver'
<1>0. /\ "scheduler" \in Tasks /\ TypeOK /\ Bygone /\ OneDriver /\ network_changes' = network_changes
      /\ coordinator \in Coordinators /\ state \in RuntimeStates
  BY Zenon DEF Tasks, DrInv, IInv, TypeOK, SchedulerStep, SchedulerPoll, SchedulerNotified, SchedulerTimer,
         SchedulerCheck, SchedulerDefer, Environment
<1>1. ~Drives("scheduler") /\ ~HoldsSlot("scheduler") /\ pc["scheduler"] \notin AttemptPlaces
  BY Zenon DEF SchedulerStep, SchedulerPoll, SchedulerNotified, SchedulerTimer,
         SchedulerCheck, SchedulerDefer, Drives, HoldsSlot, AttemptPlaces
<1>2. Home("scheduler") \notin AttemptPlaces \cup {"ready", "local"}
  BY DEF Home, AttemptPlaces
<1>3. CASE SchedulerPoll
  <2>1. PICK place \in {"park", "check", "sleep"} : Go("scheduler", place, NoTask)
    BY Zenon, <1>3 DEF SchedulerPoll
  <2>2. place \notin AttemptPlaces \cup {"ready", "local"}
    BY DEF AttemptPlaces
  <2>3. coordinator' = take_network_wakeup(coordinator)
    BY Zenon, <1>3 DEF SchedulerPoll
  <2>4. CASE network_changes = 0
    <3>1. ~coordinator.network_wakeup_pending
      BY Zenon, <1>0, <2>4 DEF OneDriver
    <3>2. coordinator' = coordinator
      BY Zenon, <2>3, <3>1 DEF take_network_wakeup
    <3>3. state' = [state EXCEPT !.next_retry_at = state.next_retry_at]
      BY Zenon, <1>3, <3>1 DEF SchedulerPoll
    <3>4. SameIntent
      BY Zenon, <1>0, <3>2, <3>3 DEF SameIntent, RuntimeStates
    <3> QED BY Zenon, <1>0, <1>1, <2>1, <2>2, <3>4, BystanderStep
  <2>5. CASE network_changes # 0
    <3>1. /\ coordinator'.generation = coordinator.generation
          /\ coordinator'.desired = coordinator.desired /\ coordinator'.status = coordinator.status
      BY Zenon, <1>0, <2>3 DEF take_network_wakeup, Coordinators
    <3>2. coordinator.generation \in Nat
      BY Zenon, <1>0, GenerationIsNat
    <3>3. coordinator'.status = "Recovering" => coordinator'.desired # None
      BY Zenon, <1>0, <3>1 DEF Bygone
    <3>4. coordinator'.generation >= coordinator.generation
      BY Zenon, <3>1, <3>2, GenerationOrder
    <3> QED BY Zenon, <1>0, <2>1, <2>2, <2>5, <3>1, <3>3, <3>4, GivenUpStep
  <2> QED BY Zenon, <2>4, <2>5
<1>4. CASE SchedulerNotified \/ SchedulerTimer \/ SchedulerDefer
  <2>1. SameIntent
    BY Zenon, <1>4 DEF SchedulerNotified, SchedulerTimer, SchedulerDefer, SameIntent, Environment
  <2>2. PICK place \in {"check", Home("scheduler")} : Go("scheduler", place, NoTask)
    BY Zenon, <1>4 DEF SchedulerNotified, SchedulerTimer, SchedulerDefer, Return
  <2>3. place \notin AttemptPlaces \cup {"ready", "local"}
    BY Zenon, <1>2 DEF AttemptPlaces
  <2> QED BY Zenon, <1>0, <1>1, <2>1, <2>2, <2>3, BystanderStep
<1>5. CASE SchedulerCheck
  <2>1. UNCHANGED <<coordinator, state, network_changes>> /\ SameIntent
    BY Zenon, <1>5 DEF SchedulerCheck, SameIntent, Environment
  <2> DEFINE l == [NoTask EXCEPT !.generation = coordinator.generation]
  <2>2. CASE /\ coordinator.status = "Recovering" /\ state.next_retry_at = "due"
             /\ Go("scheduler", "ready", l)
    <3>1. l.generation = coordinator.generation
      BY Zenon, HomeFacts, <1>0 DEF TaskLocals
    <3>2. coordinator.desired # None /\ state.next_retry_at # None
      BY Zenon, <1>0, <2>2, CoordinatorConstants DEF Bygone
    <3>3. network_changes = 0 => \A u \in Tasks : ~Drives(u)
      BY Zenon, <1>0, <1>1, <3>2 DEF OneDriver
    <3>4. pc["scheduler"] \notin AttemptPlaces
      BY Zenon, <1>1
    <3> HIDE DEF l
    <3> QED BY Zenon, <1>0, <2>1, <2>2, <3>1, <3>2, <3>3, <3>4, DriverBegins
  <2>3. CASE \E place \in {"defer", Home("scheduler")} : Go("scheduler", place, NoTask)
    <3>1. PICK place \in {"defer", Home("scheduler")} : Go("scheduler", place, NoTask)
      BY Zenon, <2>3
    <3>2. place \notin AttemptPlaces \cup {"ready", "local"}
      BY Zenon, <1>2 DEF AttemptPlaces
    <3> QED BY Zenon, <1>0, <1>1, <2>1, <3>1, <3>2, BystanderStep
  <2> QED BY Zenon, <1>5, <2>2, <2>3 DEF SchedulerCheck, Return
<1> QED BY Zenon, <1>3, <1>4, <1>5 DEF SchedulerStep

(* The stall handler: the connection it escalates has no driver. *)
LEMMA StallDriver ==
    ASSUME DrInv, TypeOK', StallStep
    PROVE  Bygone' /\ OneDriver'
<1>0. /\ "stall" \in Tasks /\ TypeOK /\ Bygone /\ OneDriver /\ network_changes' = network_changes
      /\ coordinator \in Coordinators /\ state \in RuntimeStates
  BY DEF Tasks, DrInv, IInv, TypeOK, StallStep, StallObserved, StallRecoveredLocally, StallEscalates,
         Environment
<1>1. ~Drives("stall") /\ ~HoldsSlot("stall") /\ pc["stall"] \notin AttemptPlaces
  BY DEF StallStep, StallObserved, StallRecoveredLocally, StallEscalates, Drives, HoldsSlot, AttemptPlaces
<1>2. Home("stall") \notin AttemptPlaces \cup {"ready", "local"}
  BY DEF Home, AttemptPlaces
<1>3. CASE StallObserved
  <2> DEFINE l == [NoTask EXCEPT !.generation = coordinator.generation, !.options = state.options]
  <2>1. SameIntent /\ Go("stall", "local", l) /\ coordinator.status # "Recovering"
    BY Zenon, <1>3 DEF StallObserved, SameIntent, Environment
  <2>2. l.generation = coordinator.generation /\ l.options # None
    BY Zenon, <1>0, <1>3, HomeFacts DEF StallObserved, TaskLocals
  <2>3. "local" \notin AttemptPlaces \cup {"ready"}
    BY DEF AttemptPlaces
  <2> HIDE DEF l
  <2> QED BY Zenon, <1>0, <1>1, <2>1, <2>2, <2>3, BystanderStep
<1>4. CASE (StallRecoveredLocally \/ StallEscalates) /\ Return("stall") /\ UNCHANGED <<coordinator, state>>
  <2>1. SameIntent
    BY Zenon, <1>0, <1>4 DEF SameIntent
  <2> QED BY Zenon, <1>0, <1>1, <1>2, <1>4, <2>1, BystanderStep DEF Return
<1>5. CASE StallEscalates /\ ~(Return("stall") /\ UNCHANGED <<coordinator, state>>)
  <2> DEFINE g == task["stall"].generation
             t == task["stall"].options
             h == handle_stall(coordinator, g, t)
             l == [NoTask EXCEPT !.generation = g]
  <2>1. /\ can_handle_stall(coordinator, g, t)
        /\ coordinator' = schedule_retry(h, g)
        /\ state' = [state EXCEPT !.attempt_kind = "StallReplacement",
                        !.refresh_capability_before_attempt = TRUE,
                        !.next_retry_at = None, !.retry_not_before = None]
        /\ Go("stall", "ready", l)
        /\ pc["stall"] = "local"
    BY Zenon, <1>5 DEF StallEscalates, consume_immediate_retry_slot
  <2>2. t \in Templates /\ coordinator.generation = g /\ coordinator.desired = t /\ t # None
    <3>1. t # None
      BY Zenon, <1>0, <2>1 DEF Bygone
    <3>2. coordinator.generation = g /\ coordinator.desired = t
      BY Zenon, <2>1 DEF can_handle_stall
    <3> QED BY Zenon, <1>0, <3>1, <3>2 DEF Coordinators
  <2>3. /\ h \in Coordinators /\ h.attempt_generation = coordinator.attempt_generation
        /\ h.generation = coordinator.generation /\ h.desired = coordinator.desired
        /\ h.status = "Recovering" /\ ~h.network_wakeup_pending
    <3>0. coordinator \in Coordinators /\ t \in Templates
      BY Zenon, <1>0, <2>2
    <3>1. h \in Coordinators /\ h.attempt_generation = coordinator.attempt_generation
      <4> HIDE DEF g, t
      <4> QED BY <3>0, SlotKept
    <3> QED BY Zenon, <1>0, <2>1, <3>1 DEF handle_stall, Coordinators
  <2>4. l.generation = g
    BY Zenon, <1>0, HomeFacts DEF TaskLocals
  <2>5. state'.options = state.options /\ state'.next_retry_at = None
    BY Zenon, <1>0, <2>1 DEF RuntimeStates
  <2>6. network_changes = 0 => \A u \in Tasks : ~Drives(u)
    BY Zenon, <1>0, <2>1, <2>2 DEF OneDriver
  <2> HIDE DEF h, l, g, t
  <2>7. h.status = "Recovering" => h.desired # None
    BY Zenon, <2>2, <2>3
  <2>8. /\ coordinator'.generation = coordinator.generation
        /\ coordinator'.desired = coordinator.desired
        /\ coordinator'.status = "Recovering"
    <3>1. /\ schedule_retry(h, g).generation = h.generation
          /\ schedule_retry(h, g).desired = h.desired
          /\ schedule_retry(h, g).status \in {h.status, "Recovering"}
      BY Zenon, <2>2, <2>3, <2>7, IntentFields
    <3> QED BY Zenon, <2>1, <2>3, <3>1
  <2>9. coordinator'.attempt_generation = coordinator.attempt_generation
    BY Zenon, <2>1, <2>2, <2>3, SlotKept
  <2>10. ~coordinator'.network_wakeup_pending
    BY <2>1, <2>3, ScheduleFields
  <2>11. l.generation = coordinator.generation /\ coordinator.desired # None
    BY Zenon, <2>2, <2>4
  <2>12. /\ Go("stall", "ready", l) /\ pc["stall"] \notin AttemptPlaces
         /\ network_changes' = network_changes /\ "stall" \in Tasks
    BY Zenon, <1>0, <1>1, <2>1
  <2> QED BY Zenon, <2>5, <2>6, <2>8, <2>9, <2>10, <2>11, <2>12, DriverBegins
<1> QED BY Zenon, <1>3, <1>4, <1>5 DEF StallStep, StallRecoveredLocally

(* The driver takes the slot and the scheduled retry. *)
LEMMA RunAttemptDriver ==
    ASSUME DrInv, TypeOK', NEW t \in Tasks, RunAttempt(t)
    PROVE  Bygone' /\ OneDriver'
<1>0. /\ TypeOK /\ Bygone /\ OneDriver /\ SingleAttempt /\ network_changes' = network_changes
      /\ coordinator \in Coordinators /\ state \in RuntimeStates /\ coordinator.generation \in Nat
      /\ coordinator' \in Coordinators
      /\ pc[t] = "ready" /\ ~HoldsSlot(t) /\ Home(t) \notin AttemptPlaces \cup {"ready", "local"}
  <2>1. pc[t] = "ready" /\ network_changes' = network_changes
    BY Zenon DEF RunAttempt, Environment
  <2>2. ~HoldsSlot(t)
    BY Zenon, <2>1 DEF HoldsSlot, AttemptPlaces
  <2> QED BY Zenon, <2>1, <2>2, DriverFacts, NewCoordinator, HomeIsOutside
<1>1. CASE state.options = None \/ ~can_begin_attempt(coordinator, task[t].generation)
  <2>1. Return(t) /\ SameIntent
    BY Zenon, <1>0, <1>1 DEF RunAttempt, SameIntent
  <2>2. CASE ~Drives(t)
    BY Zenon, <1>0, <2>1, <2>2, BystanderStep DEF Return
  <2>3. CASE Drives(t)
    <3>1. network_changes = 0 => coordinator.desired = None
      <4> SUFFICES ASSUME network_changes = 0, coordinator.desired # None PROVE FALSE
        OBVIOUS
      <4>1. state.options # None
        BY Zenon, <1>0 DEF OneDriver
      <4>2. coordinator.attempt_generation # None
        BY Zenon, <1>1, <2>3, <4>1 DEF can_begin_attempt, Drives
      <4>3. PICK h \in Tasks : HoldsSlot(h)
        BY Zenon, <1>0, <4>2 DEF OneDriver
      <4> QED BY Zenon, <1>0, <2>3, <4>3, HolderDrives
    <3>2. coordinator'.generation >= coordinator.generation
      BY Zenon, <1>0, <2>1, GenerationIsNat, GenerationOrder DEF SameIntent
    <3>3. /\ coordinator'.status = "Recovering" => coordinator'.desired # None
          /\ network_changes' = 0 =>
                coordinator'.desired = None /\ ~coordinator'.network_wakeup_pending
      BY Zenon, <1>0, <2>1, <3>1 DEF SameIntent, Bygone, OneDriver
    <3> QED BY Zenon, <1>0, <2>1, <3>2, <3>3, GivenUpStep DEF Return
  <2> QED BY Zenon, <2>2, <2>3
<1>2. CASE state.options # None /\ can_begin_attempt(coordinator, task[t].generation)
  <2>1. PICK place, l :
          /\ Go(t, place, l) /\ place \in AttemptPlaces \ {"compensating", "compensated"}
          /\ l.generation = task[t].generation
          /\ coordinator' = begin_attempt(coordinator, task[t].generation)
          /\ state' = AttemptBegun(state)
    <3> DEFINE l == [task[t] EXCEPT
                          !.options = state.options,
                          !.kind = state.attempt_kind,
                          !.preflight = state.initial_preflight,
                          !.reconcile = state.reconcile_before_attempt,
                          !.repair = state.repair_before_attempt,
                          !.refresh = state.refresh_capability_before_attempt]
               place == IF l.preflight = None THEN AfterPreflight(l) ELSE "resolve"
    <3>1. l.generation = task[t].generation
      BY <1>0 DEF TypeOK, TaskLocals
    <3>2. /\ Go(t, place, l) /\ state' = AttemptBegun(state)
          /\ coordinator' = begin_attempt(coordinator, l.generation)
      BY Zenon, <1>2 DEF RunAttempt
    <3> HIDE DEF l
    <3>3. place \in AttemptPlaces \ {"compensating", "compensated"}
      BY DEF AfterPreflight, AfterRefresh, AfterReconcile, AttemptPlaces
    <3> QED BY Zenon, <3>1, <3>2, <3>3
  <2>2. /\ task[t].generation = coordinator.generation /\ coordinator.desired # None /\ Drives(t)
        /\ coordinator.attempt_generation = None
    BY Zenon, <1>0, <1>2 DEF can_begin_attempt, Drives
  <2>3. /\ coordinator'.generation = coordinator.generation
        /\ coordinator'.desired = coordinator.desired
        /\ coordinator'.status = coordinator.status
        /\ coordinator'.attempt_generation = coordinator.generation
        /\ coordinator'.network_wakeup_pending = coordinator.network_wakeup_pending
    BY Zenon, <1>0, <1>2, <2>1, <2>2 DEF begin_attempt, Coordinators
  <2>4. state'.options = state.options /\ state'.next_retry_at = None
    BY Zenon, <1>0, <2>1 DEF AttemptBegun, RuntimeStates
  <2>5. /\ place \in Places /\ l \in TaskLocals /\ pc'[t] = place /\ task'[t] = l
        /\ \A u \in Tasks \ {t} : pc'[u] = pc[u] /\ task'[u] = task[u]
    BY Zenon, <1>0, <2>1, GoTypes
  <2>6. Bygone'
    <3>1. /\ coordinator'.generation >= coordinator.generation
          /\ l.generation <= coordinator'.generation
          /\ coordinator'.status = "Recovering" => coordinator'.desired # None
      BY Zenon, <1>0, <2>1, <2>2, <2>3, GenerationIsNat, GenerationOrder DEF Bygone, Drives
    <3>2. place # "local"
      BY Zenon, <2>1 DEF AttemptPlaces
    <3> QED BY Zenon, <1>0, <2>1, <2>5, <3>1, <3>2, BygoneKept
  <2>7. CASE network_changes # 0
    BY Zenon, <1>0, <2>6, <2>7 DEF OneDriver
  <2>8. CASE network_changes = 0
    <3>1. coordinator.status = "Recovering" /\ \A u \in Tasks : Drives(u) => u = t
      BY Zenon, <1>0, <2>2, <2>8 DEF OneDriver
    <3>2. HoldsSlot(t)' /\ Drives(t)'
      BY Zenon, <2>1, <2>2, <2>3, <2>5 DEF HoldsSlot, Drives
    <3>3. \A u \in Tasks : Drives(u)' => u = t
      BY Zenon, <2>3, <2>5, <3>1 DEF HoldsSlot, Drives
    <3>4. \A u \in Tasks : pc'[u] \notin {"compensating", "compensated"}
      BY Zenon, <1>0, <2>1, <2>2, <2>5, <2>8 DEF OneDriver
    <3>5. ~(pc'["stall"] = "local" /\ task'["stall"].generation = coordinator'.generation)
      <4>1. "stall" \in Tasks /\ place # "local"
        BY Zenon, <2>1 DEF Tasks, AttemptPlaces
      <4> QED BY Zenon, <1>0, <2>2, <2>3, <2>5, <2>8, <3>1, <4>1 DEF OneDriver
    <3>6. ~coordinator.network_wakeup_pending /\ state.options # None
      BY Zenon, <1>0, <2>2, <2>8 DEF OneDriver
    <3> QED BY Zenon, <1>0, <2>2, <2>3, <2>4, <2>6, <2>8, <3>1, <3>2, <3>3, <3>4, <3>5, <3>6 DEF OneDriver
  <2> QED BY Zenon, <2>7, <2>8
<1> QED BY Zenon, <1>1, <1>2

(* A stale attempt returns: its intent was given up. *)
LEMMA StaleDriver ==
    ASSUME DrInv, TypeOK', NEW t \in Tasks, HoldsSlot(t), ReturnStale(t)
    PROVE  Bygone' /\ OneDriver'
<1>0. /\ TypeOK /\ Bygone /\ OneDriver /\ network_changes' = network_changes
      /\ coordinator \in Coordinators /\ coordinator.generation \in Nat
      /\ Home(t) \notin AttemptPlaces \cup {"ready", "local"} /\ Go(t, Home(t), NoTask)
  <2>1. Go(t, Home(t), NoTask) /\ network_changes' = network_changes
    BY Zenon DEF ReturnStale, Return, Environment
  <2> QED BY Zenon, <2>1, DriverFacts, HomeIsOutside
<1>1. network_changes = 0 => coordinator.desired = None
  BY Zenon, StaleIsGivenUp DEF ReturnStale
<1>2. /\ coordinator'.generation = coordinator.generation /\ coordinator'.desired = coordinator.desired
      /\ coordinator'.status = coordinator.status
      /\ coordinator'.network_wakeup_pending = coordinator.network_wakeup_pending
  BY Zenon, <1>0 DEF ReturnStale, complete_compensation, Coordinators
<1>3. /\ coordinator'.generation >= coordinator.generation
      /\ coordinator'.status = "Recovering" => coordinator'.desired # None
      /\ network_changes' = 0 =>
            coordinator'.desired = None /\ ~coordinator'.network_wakeup_pending
  <2>1. coordinator'.generation >= coordinator.generation
    BY Zenon, <1>0, <1>2, GenerationIsNat, GenerationOrder
  <2> QED BY Zenon, <1>0, <1>1, <1>2, <2>1, DriverFacts
<1> QED BY Zenon, <1>0, <1>3, GivenUpStep

(* The awaited calls of an attempt: the driver goes on, or finds itself    *)
(* stale.                                                                  *)
LEMMA AwaitDriver ==
    ASSUME DrInv, TypeOK', NEW t \in Tasks, ~ReturnStale(t),
           \/ StageFails(t) \/ InitialStartResolved(t) \/ InitialPreflightDone(t)
           \/ CapabilityRefreshed(t) \/ ReconcileFails(t) \/ OperationReconciled(t)
           \/ wait_for_recovery_power(t)
    PROVE  Bygone' /\ OneDriver'
<1>0. /\ coordinator \in Coordinators /\ state \in RuntimeStates /\ task[t] \in TaskLocals
      /\ HoldsSlot(t)
  BY Zenon, DriverFacts DEF HoldsSlot, AttemptPlaces, StageFails, InitialStartResolved,
         InitialPreflightDone, CapabilityRefreshed, ReconcileFails, OperationReconciled,
         wait_for_recovery_power
<1>1. \A e : [task[t] EXCEPT !.error = e].generation = task[t].generation
  BY Zenon, <1>0 DEF TaskLocals
<1>2. CASE StageFails(t) \/ ReconcileFails(t)
  <2>1. SameIntent
    BY Zenon, <1>0, <1>2 DEF StageFails, ReconcileFails, SameIntent, Environment, RuntimeStates
  <2>2. PICK e : Go(t, "failed", [task[t] EXCEPT !.error = e])
    BY Zenon, <1>2 DEF StageFails, ReconcileFails, Fail
  <2>3. "failed" \in AttemptPlaces \ {"compensating", "compensated"}
    BY DEF AttemptPlaces
  <2> DEFINE l == [task[t] EXCEPT !.error = e]
  <2>4. Go(t, "failed", l) /\ l.generation = task[t].generation
    BY Zenon, <1>1, <2>2
  <2> HIDE DEF l
  <2> QED BY Zenon, <1>0, <2>1, <2>3, <2>4, DriverStep
<1>3. CASE InitialStartResolved(t)
  <2>1. PICK mode \in Modes, o \in Templates :
          /\ coordinator' = replace_active_options(coordinator, task[t].generation, o)
          /\ state' = [state EXCEPT !.options = o]
          /\ Go(t, "preflight", [task[t] EXCEPT !.mode = mode, !.options = o])
          /\ network_changes' = network_changes
    BY Zenon, <1>3 DEF InitialStartResolved, Environment
  <2>2. o # None
    BY Zenon, CoordinatorConstants
  <2>3. state'.next_retry_at = state.next_retry_at /\ state'.options = o
    BY Zenon, <1>0, <2>1 DEF RuntimeStates
  <2>4. /\ coordinator'.generation = coordinator.generation /\ coordinator'.status = coordinator.status
        /\ coordinator'.attempt_generation = coordinator.attempt_generation
        /\ coordinator'.network_wakeup_pending = coordinator.network_wakeup_pending
        /\ coordinator'.desired = None <=> coordinator.desired = None
    BY Zenon, <1>0, <2>1, <2>2 DEF replace_active_options, accept_result, Coordinators
  <2> DEFINE l == [task[t] EXCEPT !.mode = mode, !.options = o]
  <2>5. Go(t, "preflight", l) /\ l.generation = task[t].generation
    BY Zenon, <1>0, <2>1 DEF TaskLocals
  <2>6. "preflight" \in AttemptPlaces \ {"compensating", "compensated"}
    BY DEF AttemptPlaces
  <2> HIDE DEF l
  <2>7. CASE network_changes = 0 /\ coordinator.desired # None
    <3>1. state.options # None
      BY Zenon, <2>7 DEF DrInv, OneDriver
    <3>2. SameIntent
      BY Zenon, <2>1, <2>2, <2>3, <2>4, <3>1 DEF SameIntent
    <3> QED BY Zenon, <1>0, <2>5, <2>6, <3>2, DriverStep
  <2>8. CASE network_changes # 0 \/ coordinator.desired = None
    <3>1. OneDriver'
      BY Zenon, <2>1, <2>4, <2>8 DEF OneDriver, DrInv
    <3>2. /\ "preflight" \in Places /\ l \in TaskLocals /\ coordinator' \in Coordinators
          /\ TypeOK /\ Bygone /\ coordinator.generation \in Nat
      BY Zenon, <2>5, GoTypes, DriverFacts, NewCoordinator
    <3>3. /\ coordinator'.generation >= coordinator.generation
          /\ l.generation <= coordinator'.generation
          /\ coordinator'.status = "Recovering" => coordinator'.desired # None
      <4>1. task[t].generation <= coordinator.generation
        BY Zenon, <1>0, <3>2 DEF Bygone
      <4>2. coordinator'.status = "Recovering" => coordinator'.desired # None
        BY Zenon, <2>4, DriverFacts
      <4>3. l.generation = task[t].generation /\ coordinator'.generation = coordinator.generation
        BY Zenon, <2>4, <2>5
      <4>4. coordinator'.generation >= coordinator.generation
        BY Zenon, <3>2, <4>3, GenerationIsNat, GenerationOrder
      <4> QED BY Zenon, <4>1, <4>2, <4>3, <4>4
    <3>4. Bygone'
      BY Zenon, <2>5, <3>2, <3>3, BygoneKept
    <3> QED BY Zenon, <3>1, <3>4
  <2> QED BY Zenon, <2>7, <2>8
<1>4. CASE InitialPreflightDone(t) \/ CapabilityRefreshed(t) \/ OperationReconciled(t)
           \/ wait_for_recovery_power(t)
  <2>1. SameIntent
    BY Zenon, <1>0, <1>4
    DEF InitialPreflightDone, CapabilityRefreshed, OperationReconciled, wait_for_recovery_power,
        SameIntent, Environment, RuntimeStates
  <2>2. PICK place \in AttemptPlaces \ {"compensating", "compensated"} : Go(t, place, task[t])
    BY Zenon, <1>4
    DEF InitialPreflightDone, CapabilityRefreshed, OperationReconciled, wait_for_recovery_power,
        AfterPreflight, AfterRefresh, AfterReconcile, AttemptPlaces
  <2> QED BY Zenon, <1>0, <2>1, <2>2, DriverStep
<1> QED BY Zenon, <1>2, <1>3, <1>4

(* The attempt itself, and what undoes a stale success. *)
LEMMA CoreDriver ==
    ASSUME DrInv, TypeOK', NEW t \in Tasks,
           \/ EnterAttempt(t) \/ AttemptSucceeds(t) \/ AttemptFails(t) \/ StalledLeaseChecked(t)
           \/ StaleResultUndone(t) \/ CompensationFails(t)
           \/ EnterLegacyStart(t) \/ LegacyStartReturns(t)
    PROVE  Bygone' /\ OneDriver'
<1>0. coordinator \in Coordinators /\ state \in RuntimeStates /\ task[t] \in TaskLocals
  BY Zenon, DriverFacts
<1>1. SameIntent
  BY Zenon, <1>0
  DEF EnterAttempt, AttemptSucceeds, AttemptFails, StalledLeaseChecked, StaleResultUndone,
      CompensationFails, EnterLegacyStart, LegacyStartReturns, SameIntent, Environment, RuntimeStates
<1>2. CASE EnterAttempt(t) \/ AttemptSucceeds(t) \/ AttemptFails(t) \/ StalledLeaseChecked(t)
  <2>1. HoldsSlot(t)
    BY Zenon, <1>2 DEF EnterAttempt, AttemptSucceeds, AttemptFails, StalledLeaseChecked, HoldsSlot, AttemptPlaces
  <2>2. PICK place \in AttemptPlaces \ {"compensating", "compensated"} :
          \E l : Go(t, place, l) /\ l.generation = task[t].generation
    <3>1. \A x : /\ [task[t] EXCEPT !.cancelled = x].generation = task[t].generation
                 /\ [task[t] EXCEPT !.lease = x].generation = task[t].generation
                 /\ [task[t] EXCEPT !.error = x].generation = task[t].generation
      BY Zenon, <1>0 DEF TaskLocals
    <3>2. {"attempting", "succeeded", "failed", "stall_failed"}
             \subseteq AttemptPlaces \ {"compensating", "compensated"}
      BY DEF AttemptPlaces
    <3>3. CASE EnterAttempt(t)
      BY Zenon, <3>1, <3>2, <3>3 DEF EnterAttempt
    <3>4. CASE AttemptSucceeds(t)
      BY Zenon, <3>1, <3>2, <3>4 DEF AttemptSucceeds
    <3>5. CASE AttemptFails(t)
      <4>1. PICK e : Go(t, IF task[t].kind = "Start" THEN "failed" ELSE "stall_failed",
                        [task[t] EXCEPT !.error = e])
        BY Zenon, <3>5 DEF AttemptFails
      <4> QED BY Zenon, <3>1, <3>2, <4>1
    <3>6. CASE StalledLeaseChecked(t)
      BY Zenon, <3>2, <3>6 DEF StalledLeaseChecked
    <3> QED BY Zenon, <1>2, <3>3, <3>4, <3>5, <3>6
  <2> QED BY Zenon, <1>1, <2>1, <2>2, DriverStep
<1>3. CASE StaleResultUndone(t)
  <2>1. HoldsSlot(t) /\ Go(t, "compensated", task[t]) /\ "compensated" \in AttemptPlaces
    BY Zenon, <1>3 DEF StaleResultUndone, HoldsSlot, AttemptPlaces
  <2>2. network_changes = 0 => coordinator.desired = None
    BY Zenon, <1>3, <2>1, StaleIsGivenUp DEF StaleResultUndone
  <2> QED BY Zenon, <1>1, <2>1, <2>2, DriverStep
<1>4. CASE CompensationFails(t)
  BY Zenon, <1>1, <1>4, NobodyMoves DEF CompensationFails
<1>5. CASE EnterLegacyStart(t) \/ LegacyStartReturns(t)
  <2>1. PICK place \in {"legacy_starting", Home(t)} : Go(t, place, NoTask)
    BY Zenon, <1>5 DEF EnterLegacyStart, LegacyStartReturns, Return
  <2>2. place \notin AttemptPlaces \cup {"ready", "local"}
    BY DEF AttemptPlaces, Home
  <2>3. ~Drives(t) /\ ~HoldsSlot(t)
    BY Zenon, <1>5 DEF EnterLegacyStart, LegacyStartReturns, Drives, HoldsSlot, AttemptPlaces
  <2>4. place # "local" /\ place \notin AttemptPlaces \cup {"ready"}
    BY Zenon, <2>2
  <2> QED BY Zenon, <1>1, <2>1, <2>3, <2>4, BystanderStep
<1> QED BY Zenon, <1>2, <1>3, <1>4, <1>5

(* A success is handed over or, when its intent was given up, undone. *)
LEMMA SuccessDriver ==
    ASSUME DrInv, TypeOK', NEW t \in Tasks, complete_success(t)
    PROVE  Bygone' /\ OneDriver'
<1>0. /\ coordinator \in Coordinators /\ state \in RuntimeStates
      /\ HoldsSlot(t) /\ network_changes' = network_changes
  BY Zenon, DriverFacts DEF complete_success, HoldsSlot, AttemptPlaces, Environment
<1>1. CASE accept_result(coordinator, task[t].generation)
  <2> DEFINE g == task[t].generation
             l == task[t].lease
  <2>1. coordinator' = mark_connected(coordinator, g, l) /\ Return(t)
    BY Zenon, <1>1 DEF complete_success
  <2>2. state'.next_retry_at = None /\ state'.options = state.options
    BY Zenon, <1>0, <1>1 DEF complete_success, RuntimeStates
  <2>3. /\ coordinator'.generation = coordinator.generation
        /\ coordinator'.desired = coordinator.desired
        /\ coordinator'.attempt_generation = None
        /\ coordinator'.status = "None"
        /\ ~coordinator'.network_wakeup_pending
    BY Zenon, <1>0, <1>1, <2>1 DEF mark_connected, AcceptedResult, Coordinators
  <2> QED BY Zenon, <1>0, <2>1, <2>2, <2>3, DriverEnds
<1>2. CASE ~accept_result(coordinator, task[t].generation)
  <2>1. Go(t, "compensating", task[t]) /\ SameIntent
    BY Zenon, <1>0, <1>2 DEF complete_success, SameIntent
  <2>2. network_changes = 0 => coordinator.desired = None
    BY Zenon, <1>0, <1>2, StaleIsGivenUp
  <2>3. "compensating" \in AttemptPlaces
    BY DEF AttemptPlaces
  <2> QED BY Zenon, <1>0, <2>1, <2>2, <2>3, DriverStep
<1> QED BY Zenon, <1>1, <1>2

(* An error: the driver leaves the intent to a scheduled retry, blocks it  *)
(* or gives it up.                                                         *)
LEMMA ErrorDriver ==
    ASSUME DrInv, TypeOK', NEW t \in Tasks, complete_error(t)
    PROVE  Bygone' /\ OneDriver'
<1>0. /\ coordinator \in Coordinators /\ state \in RuntimeStates /\ task[t] \in TaskLocals
      /\ HoldsSlot(t) /\ network_changes' = network_changes /\ Return(t)
      /\ coordinator.generation \in Nat /\ Bygone /\ OneDriver
  <2>1. HoldsSlot(t) /\ network_changes' = network_changes /\ Return(t)
    BY Zenon DEF complete_error, HoldsSlot, AttemptPlaces, Environment
  <2> QED BY Zenon, <2>1, DriverFacts
<1> DEFINE g == task[t].generation
           e == task[t].error
           decision == classify_recovery(e, state.policy)
<1>1. \/ /\ ~accept_result(coordinator, g)
         /\ StaleError(g, IF e = "deferred" THEN "deferred" ELSE decision)
      \/ accept_result(coordinator, g) /\ AttemptDeferred
      \/ accept_result(coordinator, g) /\ TerminalFailure(g)
      \/ accept_result(coordinator, g) /\ RetryScheduled(g, e, decision)
  BY Zenon DEF complete_error
<1> DEFINE accepted == AcceptedResult(coordinator)
<1>2. /\ accepted \in Coordinators /\ accepted.generation = coordinator.generation
      /\ accepted.desired = coordinator.desired /\ accepted.status = coordinator.status
      /\ accepted.attempt_generation = None
      /\ accepted.network_wakeup_pending = coordinator.network_wakeup_pending
  BY Zenon, <1>0 DEF AcceptedResult, Coordinators
<1>3. accept_result(coordinator, g) => coordinator.desired # None /\ g = coordinator.generation
  BY DEF accept_result
<1>4. network_changes = 0 => ~coordinator.network_wakeup_pending
  BY Zenon, <1>0 DEF OneDriver
<1>5. network_changes = 0 /\ coordinator.desired # None => coordinator.status = "Recovering"
  BY Zenon, <1>0, HolderDrives
<1>6. coordinator.status = "Recovering" => coordinator.desired # None
  BY Zenon, DriverFacts
<1>7. Home(t) \notin AttemptPlaces \cup {"ready", "local"} /\ Go(t, Home(t), NoTask)
  BY Zenon, <1>0, HomeIsOutside DEF Return
<1>8. None # "due" /\ None # "later"
  BY Zenon, CoordinatorConstants
<1>9. CASE /\ ~accept_result(coordinator, g)
           /\ StaleError(g, IF e = "deferred" THEN "deferred" ELSE decision)
  <2>1. coordinator' = complete_compensation(coordinator, g)
    BY Zenon, <1>9 DEF StaleError
  <2>2. /\ coordinator'.generation = coordinator.generation /\ coordinator'.desired = coordinator.desired
        /\ coordinator'.status = coordinator.status
        /\ coordinator'.network_wakeup_pending = coordinator.network_wakeup_pending
    BY Zenon, <1>0, <2>1 DEF complete_compensation, Coordinators
  <2>3. network_changes = 0 => coordinator.desired = None
    BY Zenon, <1>0, <1>9, StaleIsGivenUp
  <2>4. coordinator'.generation >= coordinator.generation
    BY Zenon, <1>0, <2>2, GenerationIsNat, GenerationOrder
  <2> QED BY Zenon, <1>0, <1>4, <1>6, <1>7, <2>2, <2>3, <2>4, GivenUpStep
<1>10. CASE accept_result(coordinator, g) /\ AttemptDeferred
  <2>1. coordinator' = accepted
    BY Zenon, <1>10 DEF AttemptDeferred
  <2>2. state'.next_retry_at = "later" /\ state'.options = state.options
    BY Zenon, <1>0, <1>10 DEF AttemptDeferred, RuntimeStates
  <2> HIDE DEF accepted
  <2>3. CASE network_changes = 0
    <3>1. coordinator.status = "Recovering"
      BY Zenon, <1>3, <1>5, <1>10, <2>3
    <3> QED BY Zenon, <1>0, <1>2, <1>4, <1>6, <1>8, <2>1, <2>2, <3>1, DriverEnds
  <2>4. CASE network_changes # 0
    <3>1. coordinator'.generation >= coordinator.generation
      BY Zenon, <1>0, <1>2, <2>1, GenerationIsNat, GenerationOrder
    <3> QED BY Zenon, <1>0, <1>2, <1>6, <1>7, <2>1, <2>4, <3>1, GivenUpStep
  <2> QED BY Zenon, <2>3, <2>4
<1>11. CASE accept_result(coordinator, g) /\ TerminalFailure(g)
  <2>0. state.armed \in BOOLEAN
    BY Zenon, <1>0 DEF RuntimeStates
  <2>1. coordinator' = mark_terminal(coordinator, g, state.armed)
    BY Zenon, <1>11 DEF TerminalFailure
  <2>2. /\ state'.next_retry_at = None
        /\ state.armed => state'.options = state.options
    BY Zenon, <1>0, <1>11 DEF TerminalFailure, RuntimeStates
  <2>3. /\ coordinator'.generation = coordinator.generation
        /\ coordinator'.desired = IF state.armed THEN coordinator.desired ELSE None
        /\ coordinator'.attempt_generation = None
        /\ coordinator'.status # "Recovering"
        /\ ~coordinator'.network_wakeup_pending
    BY Zenon, <1>0, <1>11, <2>0, <2>1 DEF mark_terminal, AcceptedResult, Coordinators
  <2>4. /\ coordinator'.desired = None \/ coordinator.desired # None
        /\ coordinator'.desired # None /\ state.options # None => state'.options # None
    BY Zenon, <2>2, <2>3
  <2> QED BY Zenon, <1>0, <2>2, <2>3, <2>4, DriverEnds
<1>12. CASE accept_result(coordinator, g) /\ RetryScheduled(g, e, decision)
  <2> DEFINE after == decision = "RetryAfter"
             next == IF after THEN "later" ELSE retry_deadline(accepted)
  <2>1. coordinator' = IF after THEN accepted ELSE schedule_retry(accepted, g)
    BY Zenon, <1>12 DEF RetryScheduled
  <2>2. state'.next_retry_at = next /\ state'.options = state.options
    BY Zenon, <1>0, <1>12 DEF RetryScheduled, RuntimeStates
  <2>3. next # None
    BY Zenon, <1>8 DEF retry_deadline
  <2> HIDE DEF accepted, after, next
  <2>4. /\ schedule_retry(accepted, g).generation = accepted.generation
        /\ schedule_retry(accepted, g).desired = accepted.desired
        /\ schedule_retry(accepted, g).status \in {accepted.status, "Recovering"}
        /\ schedule_retry(accepted, g).attempt_generation = accepted.attempt_generation
        /\ schedule_retry(accepted, g).network_wakeup_pending = accepted.network_wakeup_pending
    BY Zenon, <1>2 DEF schedule_retry, Coordinators
  <2>5. /\ coordinator'.generation = coordinator.generation
        /\ coordinator'.desired = coordinator.desired
        /\ coordinator'.status \in {coordinator.status, "Recovering"}
        /\ coordinator'.attempt_generation = None
        /\ coordinator'.network_wakeup_pending = coordinator.network_wakeup_pending
    BY Zenon, <1>2, <2>1, <2>4
  <2>6. coordinator.desired # None
    BY Zenon, <1>3, <1>12
  <2>7. CASE network_changes = 0
    <3>1. coordinator'.status = "Recovering"
      BY Zenon, <1>5, <2>5, <2>6, <2>7
    <3> QED BY Zenon, <1>0, <1>4, <2>2, <2>3, <2>5, <2>6, <3>1, DriverEnds
  <2>8. CASE network_changes # 0
    <3>1. coordinator'.generation >= coordinator.generation
      BY Zenon, <1>0, <2>5, GenerationIsNat, GenerationOrder
    <3> QED BY Zenon, <1>0, <1>7, <2>5, <2>6, <2>8, <3>1, GivenUpStep
  <2> QED BY Zenon, <2>7, <2>8
<1> QED BY Zenon, <1>1, <1>9, <1>10, <1>11, <1>12

(* An intent that is given up, by the compensation of its late success or  *)
(* for a legacy Start.                                                     *)
LEMMA AbandonDriver ==
    ASSUME DrInv, TypeOK', NEW t \in Tasks,
           CompensationCompleted(t) \/ abandon_initial_intent_for_legacy(t)
    PROVE  Bygone' /\ OneDriver'
<1>0. /\ coordinator \in Coordinators /\ HoldsSlot(t) /\ network_changes' = network_changes
      /\ coordinator.generation \in Nat /\ Bygone /\ OneDriver
  <2>1. HoldsSlot(t) /\ network_changes' = network_changes
    BY Zenon DEF CompensationCompleted, abandon_initial_intent_for_legacy, HoldsSlot, AttemptPlaces,
                 Environment
  <2> QED BY Zenon, <2>1, DriverFacts
<1>1. \E place \in {Home(t), "legacy_enter"} : Go(t, place, NoTask)
  BY DEF CompensationCompleted, abandon_initial_intent_for_legacy, Return
<1>2. \A place \in {Home(t), "legacy_enter"} : place \notin AttemptPlaces \cup {"ready", "local"}
  BY DEF Home, AttemptPlaces
<1>3. network_changes = 0 => ~coordinator.network_wakeup_pending
  BY Zenon, DriverFacts
<1>4. coordinator.status = "Recovering" => coordinator.desired # None
  BY Zenon, DriverFacts
<1>5. CASE CompensationCompleted(t)
  <2>1. /\ coordinator'.generation = coordinator.generation /\ coordinator'.desired = coordinator.desired
        /\ coordinator'.status = coordinator.status
        /\ coordinator'.network_wakeup_pending = coordinator.network_wakeup_pending
    BY Zenon, <1>0, <1>5 DEF CompensationCompleted, complete_compensation, Coordinators
  <2>2. network_changes = 0 => coordinator.desired = None
    BY Zenon, <1>0, <1>5, StaleIsGivenUp DEF CompensationCompleted
  <2>3. coordinator'.generation >= coordinator.generation
    BY Zenon, <1>0, <2>1, GenerationIsNat, GenerationOrder
  <2> QED BY Zenon, <1>0, <1>1, <1>2, <1>3, <1>4, <2>1, <2>2, <2>3, GivenUpStep
<1>6. CASE /\ abandon_initial_intent_for_legacy(t)
           /\ can_cancel_intent(coordinator, task[t].generation)
  <2> DEFINE c == cancel_intent(coordinator, task[t].generation)
  <2>1. /\ c \in Coordinators
        /\ c.desired = None /\ c.status = "None" /\ ~c.network_wakeup_pending
        /\ c.generation \in {coordinator.generation, coordinator.generation + 1}
    <3>1. c \in Coordinators
      BY Zenon, <1>0, SlotKept, IntentConstants
    <3> QED BY Zenon, <1>0, <1>6, <3>1 DEF cancel_intent, Coordinators
  <2>2. coordinator' = complete_compensation(c, task[t].generation)
    BY Zenon, <1>6 DEF abandon_initial_intent_for_legacy
  <2> HIDE DEF c
  <2>3. /\ coordinator'.generation = c.generation /\ coordinator'.desired = None
        /\ coordinator'.status = "None" /\ ~coordinator'.network_wakeup_pending
    BY Zenon, <2>1, <2>2 DEF complete_compensation, Coordinators
  <2>4. coordinator'.generation >= coordinator.generation
    BY <1>0, <2>1, <2>3
  <2> QED BY Zenon, <1>0, <1>1, <1>2, <2>3, <2>4, GivenUpStep
<1>7. CASE /\ abandon_initial_intent_for_legacy(t)
           /\ ~can_cancel_intent(coordinator, task[t].generation)
  <2>1. coordinator' = coordinator
    BY Zenon, <1>7 DEF abandon_initial_intent_for_legacy
  <2>2. network_changes = 0 => coordinator.desired = None
    BY Zenon, <1>0, <1>7, StaleIsGivenUp
  <2>3. coordinator'.generation >= coordinator.generation
    BY Zenon, <1>0, <2>1, GenerationIsNat, GenerationOrder
  <2> QED BY Zenon, <1>0, <1>1, <1>2, <1>3, <1>4, <2>1, <2>2, <2>3, GivenUpStep
<1> QED BY Zenon, <1>5, <1>6, <1>7

(* Stop commands and the world outside. *)
LEMMA OutsideDriver ==
    ASSUME DrInv, TypeOK', StopStep \/ WorldStep
    PROVE  Bygone' /\ OneDriver'
<1>0. /\ TypeOK /\ coordinator \in Coordinators /\ state \in RuntimeStates
      /\ task \in [Tasks -> TaskLocals] /\ network_changes \in Nat
      /\ coordinator.generation \in Nat /\ Bygone /\ OneDriver
      /\ \A t \in Tasks : task[t].generation \in Nat
  <2>1. network_changes \in Nat
    BY IntentConstants, DriverFacts DEF TypeOK
  <2> QED BY Zenon, <2>1, DriverFacts
<1>1. CASE cancel /\ can_cancel_intent(coordinator, coordinator.generation)
  <2>1. /\ coordinator'.desired = None /\ coordinator'.status = "None"
        /\ ~coordinator'.network_wakeup_pending
        /\ coordinator'.generation \in {coordinator.generation, coordinator.generation + 1}
    BY Zenon, <1>0, <1>1 DEF cancel, cancel_intent, Coordinators
  <2>2. pc' = pc /\ task' = task
    BY Zenon, <1>1 DEF cancel
  <2>3. \A t \in Tasks : task[t].generation <= coordinator.generation =>
                         task[t].generation <= coordinator'.generation
    BY <1>0, <2>1
  <2>4. Bygone'
    BY Zenon, <1>0, <2>1, <2>2, <2>3 DEF Bygone, HoldsSlot
  <2> QED BY Zenon, <2>1, <2>4, GivenUpDriver
<1>2. CASE NetworkChanges
  <2>1. network_changes' # 0 /\ pc' = pc /\ task' = task
    BY <1>0, <1>2 DEF NetworkChanges
  <2>2. /\ coordinator'.generation = coordinator.generation /\ coordinator'.desired = coordinator.desired
        /\ coordinator'.status = coordinator.status
    BY Zenon, <1>0, <1>2 DEF NetworkChanges, wake_for_network_change, Coordinators
  <2> QED BY Zenon, <1>0, <2>1, <2>2 DEF Bygone, OneDriver, HoldsSlot
<1>3. CASE signal_start_cancellation
  <2>1. SameIntent /\ pc' = pc
    BY Zenon, <1>3 DEF signal_start_cancellation, SameIntent
  <2>2. \A t \in Tasks : /\ task'[t].generation = task[t].generation
                         /\ task'[t].options = task[t].options
    BY Zenon, <1>0, <1>3 DEF signal_start_cancellation, TaskLocals
  <2> QED BY Zenon, <2>1, <2>2, NobodyMoves
<1>4. CASE TimePasses
  <2>1. /\ state'.next_retry_at = IF state.next_retry_at = "later" THEN "due" ELSE state.next_retry_at
        /\ state'.options = state.options
    BY Zenon, <1>0, <1>4 DEF TimePasses, RuntimeStates
  <2>2. SameIntent /\ pc' = pc /\ task' = task
    BY Zenon, <1>4, <2>1, CoordinatorConstants DEF TimePasses, SameIntent, Environment
  <2> QED BY Zenon, <2>2, NobodyMoves
<1>5. CASE \/ cancel /\ ~can_cancel_intent(coordinator, coordinator.generation)
           \/ StopApplication \/ retry_pending_stop \/ TunnelLost \/ PowerChanges
  <2>1. SameIntent /\ pc' = pc /\ task' = task
    BY Zenon, <1>5 DEF cancel, StopApplication, retry_pending_stop, TunnelLost, PowerChanges, SameIntent,
                Environment
  <2> QED BY Zenon, <2>1, NobodyMoves
<1> QED BY Zenon, <1>1, <1>2, <1>3, <1>4, <1>5 DEF StopStep, WorldStep

(* Every step keeps the one driver. *)
LEMMA DriverNext ==
    ASSUME DrInv, [Next]_vars
    PROVE  DrInv'
<1>1. IInv' /\ TypeOK'
  BY Zenon, NextOK DEF DrInv, IInv
<1>2. ASSUME NEW t \in Tasks, AttemptStep(t) PROVE Bygone' /\ OneDriver'
  <2>1. CASE ReturnStale(t) /\ ~complete_success(t) /\ ~complete_error(t)
             /\ (InitialStartResolved(t) \/ InitialPreflightDone(t) \/ CapabilityRefreshed(t)
                   \/ OperationReconciled(t) \/ wait_for_recovery_power(t))
    <3>1. HoldsSlot(t)
      BY Zenon, <2>1 DEF InitialStartResolved, InitialPreflightDone, CapabilityRefreshed, OperationReconciled,
                  wait_for_recovery_power, HoldsSlot, AttemptPlaces
    <3> QED BY Zenon, <1>1, <2>1, <3>1, StaleDriver
  <2>2. CASE complete_success(t)
    BY Zenon, <1>1, <2>2, SuccessDriver
  <2>3. CASE complete_error(t)
    BY Zenon, <1>1, <2>3, ErrorDriver
  <2>4. CASE RunAttempt(t)
    BY Zenon, <1>1, <2>4, RunAttemptDriver
  <2>5. CASE CompensationCompleted(t) \/ abandon_initial_intent_for_legacy(t)
    BY Zenon, <1>1, <2>5, AbandonDriver
  <2>6. CASE \/ EnterAttempt(t) \/ AttemptSucceeds(t) \/ AttemptFails(t) \/ StalledLeaseChecked(t)
             \/ StaleResultUndone(t) \/ CompensationFails(t)
             \/ EnterLegacyStart(t) \/ LegacyStartReturns(t)
    BY Zenon, <1>1, <2>6, CoreDriver
  <2>7. CASE (StageFails(t) \/ ReconcileFails(t)) /\ ReturnStale(t)
    <3>1. HoldsSlot(t)
      BY Zenon, <2>7 DEF StageFails, ReconcileFails, HoldsSlot, AttemptPlaces
    <3> QED BY Zenon, <1>1, <2>7, <3>1, StaleDriver
  <2>8. CASE /\ ~ReturnStale(t)
             /\ \/ StageFails(t) \/ InitialStartResolved(t) \/ InitialPreflightDone(t)
                \/ CapabilityRefreshed(t) \/ ReconcileFails(t) \/ OperationReconciled(t)
                \/ wait_for_recovery_power(t)
    BY Zenon, <1>1, <2>8, AwaitDriver
  <2> QED BY Zenon, <1>2, <2>1, <2>2, <2>3, <2>4, <2>5, <2>6, <2>7, <2>8 DEF AttemptStep
<1>3. CASE UNCHANGED vars
  <2>1. SameIntent /\ pc' = pc /\ task' = task
    BY Zenon, <1>3 DEF vars, SameIntent
  <2> QED BY Zenon, <1>1, <2>1, NobodyMoves DEF DrInv
<1>4. Bygone' /\ OneDriver'
  BY Zenon, <1>1, <1>2, <1>3, StarterDriver, SchedulerDriver, StallDriver, OutsideDriver DEF Next, DrInv
<1> QED BY Zenon, <1>1, <1>4 DEF DrInv

(* Until the network first changes, no retry is forgotten: a recovering    *)
(* intent always has an attempt in flight, a task about to begin one or a  *)
(* scheduled retry, and a slot that is taken has a task that gives it back.*)
THEOREM RecoveryAlwaysDriven == Spec => []RecoveryIsDriven
<1>1. Init => DrInv
  <2> SUFFICES ASSUME Init PROVE DrInv
    OBVIOUS
  <2>1. \A t \in Tasks : pc[t] \notin AttemptPlaces \cup {"ready", "local"}
    BY DEF Init, AttemptPlaces
  <2>2. /\ coordinator.status = "None" /\ coordinator.desired = None
        /\ coordinator.network_wakeup_pending = FALSE
    BY DEF Init, InitCoordinator
  <2>3. Bygone /\ OneDriver
    BY Zenon, <2>1, <2>2 DEF Bygone, OneDriver, HoldsSlot
  <2> QED BY Zenon, <2>3, InitOK DEF DrInv
<1>2. DrInv /\ [Next]_vars => DrInv'
  BY Zenon, DriverNext
<1>3. DrInv => RecoveryIsDriven
  BY Zenon DEF DrInv, Bygone, OneDriver, RecoveryIsDriven, Drives
<1> QED BY <1>1, <1>2, <1>3, PTL DEF Spec
=============================================================================
