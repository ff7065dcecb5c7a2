---------------------------- MODULE CoreLifecycle ----------------------------
(***************************************************************************)
(* The connection lifecycle of the desktop core (crates/client-core) as    *)
(* the application drives it (crates/client-application).                  *)
(*                                                                         *)
(* Every operation below runs under the application's lifecycle gate, so   *)
(* one of them (`task') is in progress at a time.  What interleaves with   *)
(* it is what does not take the gate: the cancellation signal of a user    *)
(* Stop, the owner's local stop, status polls, the tunnel dying, a crash,  *)
(* and the panel: requests and answers are lost, and a Start request whose *)
(* answer never came may still be applied later.  A step of a task is the  *)
(* code between two of its awaits on the panel or on the tunnel, or        *)
(* between two durable saves.                                              *)
(*                                                                         *)
(* Left out: redundant sessions (contract 2, Android), update and account  *)
(* gates.  Operation ids of Stop requests are not kept: the panel treats   *)
(* Stop of a lease as idempotent.                                          *)
(***************************************************************************)
EXTENDS Naturals, FiniteSets

CONSTANTS
  Leases,      \* lease ids the panel can hand out
  Ops,         \* fresh operation ids (Uuid::new_v4) of Start requests
  Templates,   \* connection options, up to pending_start_matches_options
  Warmable,    \* the templates whose lease is kept warm (all but Tic personal)
  Scenarios,   \* the sets of EventKinds that may happen together in a behaviour
  None         \* Option::None

EventKinds ==
  {"crash",       \* the process ends and restarts
   "lost",        \* a request or its answer is lost
   "delay",       \* a Start request is applied after the client gave up on it
   "rejection",   \* the panel refuses a request, or the answer cannot be used
   "expiry",      \* the panel reaps a lease
   "local",       \* the tunnel fails to open or to close
   "dies",        \* the tunnel ends on its own
   "owner_stop",  \* the owner of the device stops the tunnel locally
   "retired",     \* an attempt succeeds after its intent was retired
   "stalled",     \* a stalled connection is replaced
   "shutdown",    \* the application is asked to exit or to update
   "bootstrap",   \* the client asks the panel for its state
   "offline",     \* the user starts from a cached profile, without the panel
   "pin",         \* the user pins and unpins a connection
   "unbind",      \* the user unbinds the device from its peer
   "personal",    \* the user also asks for connections that are not kept warm
   "legacy"}      \* the panel offers the older start contract only

ASSUME ConstantsAssumption ==
  /\ Scenarios \subseteq SUBSET EventKinds
  /\ Warmable \subseteq Templates
  /\ None \notin Leases \cup Ops \cup Templates
  /\ Leases \cap Ops = {}

VARIABLES
  phase,           \* CoreState.phase
  connection,      \* CoreState.connection: lease, last known status, template
  task,            \* the operation that holds the lifecycle gate, or None
  stop_requested,  \* the Stops that have signalled and wait for the gate: "user", "shutdown"
  stale_result,    \* a finished attempt whose intent was retired: to compensate
  owner_stop,      \* CoreLocalStop has cleared the state and is closing the tunnel
  pending_start,               \* durable: RuntimeStateV1.pending_start
  pending_compensation_stop,   \* durable
  pending_stalled_stop,        \* durable: its lease
  saved_connection,            \* durable: lease and template of the cached profile
  pinned_connection,           \* durable: the same of a pinned one, and whether its handshake timed out
  quarantine,      \* offline_connection_quarantine: leases whose timeout could not be saved
  tunnel,          \* status of the platform tunnel
  leases,          \* panel: status and template of every lease
  operations,      \* panel: the outcome of every Start operation
  cancel_requested, \* panel: the Start operations it was told to cancel
  delayed,         \* Start requests still on their way to the panel
  issued,          \* operation ids already drawn
  events           \* what happens around the core in this behaviour, chosen once

memory == <<phase, connection, task, stop_requested, stale_result, owner_stop>>
profiles == <<saved_connection, pinned_connection, quarantine>>
stored == <<pending_start, pending_compensation_stop, pending_stalled_stop, profiles>>
panel == <<leases, operations, cancel_requested, delayed>>
history == <<issued, events>>
vars == <<memory, stored, tunnel, panel, history>>

Phases == {"SignedOut", "NeedsPeerBinding", "Ready", "Connecting", "Connected", "Stopping",
           "ServerUnavailable", "Error"}
Statuses == {"Connected", "Warm", "Released"}
OpIds == Leases \cup Ops
Contracts == {"Legacy", "RecoveryV1"}

Connection(l, s) ==
  [lease |-> l, status |-> s, template |-> leases[l].template, pinned |-> leases[l].pinned]

\* stored_connection_accepts_warm, by the template of the lease
AcceptsWarm(t) == t \in Warmable

\* mutant: a warm lease also ends the Stop of a stalled connection
Finished_StalledWarm(failure, accept_warm, status) ==
  status = "Released" \/ (accept_warm /\ status = "Warm")

\* compensation_stop_confirms_finished
Finished(failure, accept_warm, status) ==
  \/ status = "Released"
  \/ failure # "stalled" /\ accept_warm /\ status = "Warm"

-----------------------------------------------------------------------------
(* The panel, external: what the core relies on in src.                     *)

\* start_connection: idempotent by operation id; a reused lease id reactivates
\* that lease.  A rejected operation stays rejected.
PanelStart(op, t) ==
  LET lease == IF op \in Leases THEN op ELSE operations[op]
      Answer(r) == [reply |-> r, leases |-> leases, operations |-> operations]
  IN  IF lease = "Cancelled" THEN {Answer("terminal")}
      ELSE IF lease # "Absent"
      THEN CASE leases[lease].status = "Connected" -> {Answer(lease)}
             [] leases[lease].status = "Warm" /\ op \in Leases ->
                  {Answer("no_longer_active"),
                   [Answer(lease) EXCEPT !.leases[lease].status = "Connected"]}
             [] OTHER -> {Answer("no_longer_active")}
      ELSE (IF "rejection" \in events
            THEN {Answer("busy"), [Answer("terminal") EXCEPT !.operations[op] = "Cancelled"]}
            ELSE {})
           \cup {[reply |-> l,
                  leases |-> [leases EXCEPT ![l] = [status |-> "Connected", template |-> t,
                                                     pinned |-> FALSE]],
                  operations |-> [operations EXCEPT ![op] = l]] :
                 l \in {m \in Leases : leases[m].status = "Free"}}

\* stop_connection: the statuses it can leave a lease in ("Connected" while
\* the release is pending)
PanelStop(l) ==
  CASE leases[l].status = "Connected" ->
         {"Connected", "Released"} \cup IF leases[l].template \in Warmable THEN {"Warm"} ELSE {}
    [] leases[l].status = "Warm" -> {"Warm", "Released"}
    [] OTHER -> {"Released"}

\* the panel reaps a lease on its own
PanelExpires(l) ==
  /\ "expiry" \in events
  /\ leases[l].status \in {"Connected", "Warm"}
  /\ leases' = [leases EXCEPT ![l].status = "Released"]
  /\ UNCHANGED <<memory, stored, tunnel, operations, cancel_requested, delayed, history>>

\* a Start request the client has given up on reaches the panel after all
DelayedStartArrives(r) ==
  /\ r \in delayed
  /\ delayed' = delayed \ {r}
  /\ \E a \in PanelStart(r.op, r.template) :
       leases' = a.leases /\ operations' = a.operations
  /\ UNCHANGED <<memory, stored, tunnel, cancel_requested, history>>

-----------------------------------------------------------------------------
(* Calls and small steps shared by the operations.                          *)

NewTask(kind, pc) ==
  [kind |-> kind, pc |-> pc, cancelled |-> FALSE, template |-> None, contract |-> None,
   op |-> None, fresh |-> FALSE, replaced |-> FALSE, lease |-> None, failure |-> None,
   accept_warm |-> FALSE, next |-> None, status |-> None, error |-> None, present |-> FALSE,
   pinned |-> FALSE]

At(pc) == task # None /\ task.pc = pc
Goto(pc) == task' = [task EXCEPT !.pc = pc]
Return == task' = None

\* retry_operation: Stop is answered, or fails, or is applied with its answer lost
StopAnswers(l) ==
  {[status |-> s, error |-> None] : s \in PanelStop(l)}
    \cup (IF "lost" \in events
          THEN {[status |-> s, error |-> "retryable"] : s \in PanelStop(l) \cup {leases[l].status}}
          ELSE {})
    \cup (IF "rejection" \in events
          THEN {[status |-> leases[l].status, error |-> "rejected"]} ELSE {})

\* what that answer leaves behind at the panel
StopApplied(l, answer) ==
  /\ leases' = [leases EXCEPT ![l].status = answer.status]
  /\ UNCHANGED <<operations, cancel_requested, delayed>>

StartReplies == Leases \cup {"retryable", "busy", "terminal", "no_longer_active"}

\* start_connection: answered, lost on the way there or back, or delayed.  A
\* request that reuses a lease id is not delayed past its own timeout.
StartReplied(op, t, reply) ==
  /\ \/ \E a \in PanelStart(op, t) :
          /\ leases' = a.leases /\ operations' = a.operations /\ delayed' = delayed
          /\ reply = a.reply \/ ("lost" \in events /\ reply = "retryable")
     \/ /\ \/ "lost" \in events /\ delayed' = delayed
           \/ "delay" \in events /\ op \in Ops /\ delayed' = delayed \cup {[op |-> op, template |-> t]}
        /\ UNCHANGED <<leases, operations>>
        /\ reply = "retryable"
  /\ UNCHANGED cancel_requested

\* mutant: only a failed tunnel is closed
StopTunnel_Failed(Ok, Err) ==
  /\ tunnel' = IF tunnel = "Failed" THEN "Stopped" ELSE tunnel
  /\ Ok \/ (FALSE /\ Err)

\* tunnel.stop / stop_if_unowned, when the status is not already Stopped
StopTunnel(Ok, Err) ==
  \/ tunnel' = "Stopped" /\ Ok
  \/ "local" \in events /\ tunnel # "Stopped" /\ tunnel' = tunnel /\ Err

\* signal_start_cancellation: every attempt that captured the epoch is cancelled,
\* and a compensation that captured it no longer owns the presentation
Signalled(t) == IF t = None THEN None ELSE [t EXCEPT !.cancelled = TRUE, !.present = FALSE]

\* phase_for_api_error and phase_for_start_error
PhaseFor(error) ==
  CASE error = "retryable" -> "ServerUnavailable"
    [] error \in {"busy", "no_longer_active", "terminal", "rejected"} -> "Error"
    [] OTHER -> "Ready"

\* a failed Stop leaves Stopping, so that the worker retries it, or Error
StopErrorPhase(e) == IF e = "rejected" THEN "Error" ELSE "Stopping"

\* mutant: a lost answer counts as a refusal
Preserves_Busy(error) == error = "busy"

\* start_error_preserves_operation
Preserves(error) == error \in {"retryable", "busy"}

\* pending_compensation_stop_identity: the journal entry, or None for a conflict
CompensationIdentity(l, accept, failure) ==
  LET entry == [lease |-> l, accept_warm |-> accept, failure |-> failure]
  IN  IF pending_compensation_stop \in {None, entry} THEN entry ELSE None

\* clear_pending_start
ClearPendingStart(op) ==
  IF pending_start # None /\ pending_start.op = op THEN None ELSE pending_start

\* reconcile_handshake_timeout_storage: the cached profile of a lease that never
\* completed a handshake is dropped
SavedWithout(l) ==
  IF saved_connection # None /\ saved_connection.lease = l THEN None ELSE saved_connection

\* the whole of it, for a connection c: a pinned profile is kept, to be refreshed
\* by the panel before it is used again
HandshakeTimedOut(c) ==
  /\ saved_connection' = IF c.pinned THEN saved_connection ELSE SavedWithout(c.lease)
  /\ pinned_connection' = IF c.pinned /\ pinned_connection # None /\ pinned_connection.lease = c.lease
                          THEN [pinned_connection EXCEPT !.timed_out = TRUE] ELSE pinned_connection
  /\ quarantine' = quarantine \ {c.lease}

\* the profile of a granted lease is cached by its stored_connection_kind
CacheProfile(c) ==
  /\ saved_connection' = IF c.pinned THEN None ELSE [lease |-> c.lease, template |-> c.template]
  /\ pinned_connection' = IF c.pinned
                          THEN [lease |-> c.lease, template |-> c.template, timed_out |-> FALSE]
                          ELSE pinned_connection
  /\ UNCHANGED quarantine

\* what resume_pending_compensation_stop returns into
AfterResume ==
  IF task.kind \in {"start", "replace"} /\ ~task.cancelled THEN Goto("locked") ELSE Return

-----------------------------------------------------------------------------
(* stop_internal and the operations built on it.                            *)

\* the parameters of a stop_internal call, and where its caller goes on
StopInternal(failure, accept, next) ==
  task' = [task EXCEPT !.pc = "stop_internal", !.failure = failure,
                       !.accept_warm = accept, !.next = next]

\* stop_internal up to the panel request: the tunnel is closed first
StopInternalLocal ==
  /\ At("stop_internal")
  /\ LET warm_requires_stop ==
           /\ connection.status = "Warm"
           /\ phase \in {"Connected", "Stopping"} \/ task.next # "plain"
         finished ==
           /\ ~warm_requires_stop
           /\ Finished(task.failure, task.accept_warm, connection.status)
         current == [task EXCEPT !.lease = connection.lease, !.status = connection.status,
                                 !.pinned = connection.pinned]
     IN  \/ /\ connection = None
            /\ pending_compensation_stop' =
                 IF task.next = "stale" THEN None ELSE pending_compensation_stop
            /\ stale_result' = (stale_result /\ task.next # "stale")
            /\ Return
            /\ UNCHANGED <<phase, tunnel>>
         \/ /\ connection # None
            /\ StopTunnel(
                 /\ phase' = IF finished THEN "Ready" ELSE "Stopping"
                 /\ task' = [current EXCEPT !.pc = IF finished THEN "stopped" ELSE "stop_panel"],
                 /\ phase' = "Stopping"
                 /\ Return)
            /\ UNCHANGED <<pending_compensation_stop, stale_result>>
  /\ UNCHANGED <<connection, stop_requested, owner_stop, pending_start,
                 pending_stalled_stop, profiles, panel, history>>

\* stop_internal from the panel request on.  A confirmed Stop also forgets the
\* pending Start.
StopInternalPanel ==
  /\ At("stop_panel")
  /\ \E answer \in StopAnswers(task.lease) :
       LET finished == Finished(task.failure, task.accept_warm, answer.status)
       IN  /\ StopApplied(task.lease, answer)
           /\ IF answer.error = None
              THEN /\ phase' = IF finished THEN "Ready" ELSE "Stopping"
                   /\ connection' = Connection(task.lease, answer.status)
                   /\ pending_start' = IF finished THEN None ELSE pending_start
                   /\ task' = [task EXCEPT !.pc = "stopped", !.status = answer.status]
              ELSE /\ phase' = StopErrorPhase(answer.error)
                   /\ connection' = [Connection(task.lease, task.status) EXCEPT !.pinned = task.pinned]
                   /\ pending_start' = pending_start
                   /\ Return
  /\ UNCHANGED <<stop_requested, stale_result, owner_stop, pending_compensation_stop,
                 pending_stalled_stop, profiles, tunnel, history>>

\* the caller of stop_internal goes on with its result
StopReturns ==
  /\ At("stopped")
  /\ LET finished == Finished(task.failure, task.accept_warm, task.status)
         handshake == finished /\ task.failure = "handshake"
     IN  \/ /\ task.next = "plain"
            /\ Return
            /\ UNCHANGED <<stored, stale_result>>
         \/ /\ task.next = "stalled"
            /\ pending_stalled_stop' = None
            /\ Return
            /\ UNCHANGED <<pending_start, pending_compensation_stop, profiles, stale_result>>
         \/ /\ task.next = "resume"
            /\ pending_start' = IF handshake THEN None ELSE pending_start
            /\ IF handshake THEN HandshakeTimedOut(Connection(task.lease, task.status)) ELSE UNCHANGED profiles
            /\ pending_compensation_stop' = IF finished THEN None ELSE pending_compensation_stop
            /\ IF finished THEN AfterResume ELSE Return
            /\ UNCHANGED <<pending_stalled_stop, stale_result>>
         \/ /\ task.next = "stale"
            /\ pending_compensation_stop' = IF finished THEN None ELSE pending_compensation_stop
            /\ stale_result' = ~finished
            /\ Return
            /\ UNCHANGED <<pending_start, pending_stalled_stop, profiles>>
         \/ /\ task.next = "replace"
            /\ IF finished
               THEN /\ pending_stalled_stop' =
                         IF task.failure = "stalled" THEN None ELSE pending_stalled_stop
                    /\ IF task.failure = "stalled"
                       THEN /\ saved_connection' = SavedWithout(task.lease)
                            /\ quarantine' = quarantine \ {task.lease}
                            /\ UNCHANGED pinned_connection
                       ELSE UNCHANGED profiles
                    /\ IF task.cancelled THEN Return ELSE Goto("admit")
               ELSE Return /\ UNCHANGED <<pending_stalled_stop, profiles>>
            /\ UNCHANGED <<pending_start, pending_compensation_stop, stale_result>>
  /\ UNCHANGED <<phase, connection, stop_requested, owner_stop, tunnel, panel, history>>

\* resume_pending_compensation_stop
ResumeCompensationStop ==
  /\ At("resume")
  /\ LET journal == pending_compensation_stop
     IN  \/ /\ connection # None
            /\ connection.lease # journal.lease
            /\ Return
            /\ UNCHANGED <<phase, tunnel>>
         \/ /\ connection # None
            /\ connection.lease = journal.lease
            /\ StopInternal(journal.failure, journal.accept_warm, "resume")
            /\ UNCHANGED <<phase, tunnel>>
         \/ /\ connection = None
            /\ phase' = "Stopping"
            /\ StopTunnel(Goto("replay"), Return)
  /\ UNCHANGED <<connection, stop_requested, stale_result, owner_stop, stored, panel, history>>

\* replay_pending_compensation_stop_without_connection, from the panel request on
ReplayCompensationStop ==
  /\ At("replay")
  /\ LET journal == pending_compensation_stop
     IN  \E answer \in StopAnswers(journal.lease) :
           /\ StopApplied(journal.lease, answer)
           /\ IF answer.error = None /\ Finished(journal.failure, journal.accept_warm, answer.status)
              THEN /\ pending_start' = None
                   /\ IF journal.failure = "handshake"
                      THEN HandshakeTimedOut(Connection(journal.lease, answer.status))
                      ELSE UNCHANGED profiles
                   /\ task' = [task EXCEPT !.pc = "replayed", !.lease = journal.lease,
                                           !.status = answer.status]
                   /\ UNCHANGED phase
              ELSE /\ phase' = IF answer.error = None THEN phase ELSE StopErrorPhase(answer.error)
                   /\ Return
                   /\ UNCHANGED <<pending_start, profiles>>
  /\ UNCHANGED <<connection, stop_requested, stale_result, owner_stop,
                 pending_compensation_stop, pending_stalled_stop, tunnel, history>>

\* its last save and the presentation of the stopped connection
CompensationReplayed ==
  /\ At("replayed")
  /\ pending_compensation_stop' = None
  /\ phase' = "Ready"
  /\ connection' = Connection(task.lease, task.status)
  /\ AfterResume
  /\ UNCHANGED <<stop_requested, stale_result, owner_stop, pending_start,
                 pending_stalled_stop, profiles, tunnel, panel, history>>

-----------------------------------------------------------------------------
(* User Stop, the pending-stop worker, shutdown.                            *)

\* Application::stop before the lifecycle gate: the signal
UserStop ==
  /\ stop_requested' = stop_requested \cup {"user"}
  /\ task' = Signalled(task)
  /\ UNCHANGED <<phase, connection, stale_result, owner_stop, stored, tunnel, panel, history>>

\* stop_locally: the identity of the panel Stop is journaled before the tunnel
\* is closed; an unknown Start or a stalled replacement goes through stop
StopLocally ==
  /\ task = None
  /\ "user" \in stop_requested
  /\ stop_requested' = stop_requested \ {"user"}
  /\ \/ /\ connection = None \/ pending_stalled_stop # None
        /\ task' = NewTask("stop", "stop")
        /\ UNCHANGED <<phase, pending_compensation_stop>>
     \/ /\ connection # None
        /\ pending_stalled_stop = None
        /\ LET journal == pending_compensation_stop
               unfinished == \/ connection.status = "Warm" /\ phase \in {"Connected", "Stopping"}
                             \/ ~Finished(None, TRUE, connection.status)
           IN  IF journal # None /\ journal.lease # connection.lease
               THEN UNCHANGED <<task, phase, pending_compensation_stop>>
               ELSE /\ pending_compensation_stop' =
                         IF journal = None /\ unfinished
                         THEN CompensationIdentity(connection.lease, TRUE, None) ELSE journal
                    /\ phase' = "Stopping"
                    /\ task' = NewTask("stop", "stop_locally")
  /\ UNCHANGED <<connection, stale_result, owner_stop, pending_start, pending_stalled_stop,
                 profiles, tunnel, panel, history>>

\* the rest of stop_locally: the panel Stop is left to the worker
StopLocallyTunnel ==
  /\ At("stop_locally")
  /\ StopTunnel(phase' = IF pending_compensation_stop = None THEN "Ready" ELSE phase,
                UNCHANGED phase)
  /\ Return
  /\ UNCHANGED <<connection, stop_requested, stale_result, owner_stop, stored, panel, history>>

\* reconcile_tunnel_state: what the tunnel's own state is shown as
TunnelPhase ==
  CASE tunnel = "Running" -> "Connected"
    [] tunnel = "Stopped" -> "Ready"
    [] tunnel = "Failed" -> "Error"

\* state(): a connection whose tunnel is gone is shown as Stopping; a Connecting
\* that no Start owns follows the tunnel
PollState ==
  /\ \/ /\ phase = "Connected"
        /\ tunnel # "Running"
        /\ phase' = "Stopping"
     \/ /\ phase = "Connecting"
        /\ task = None
        /\ pending_start = None
        /\ phase' = TunnelPhase
  /\ UNCHANGED <<connection, task, stop_requested, stale_result, owner_stop, stored, tunnel,
                 panel, history>>

\* mutant: the worker looks at the phase only
RetryPendingStop_PhaseOnly ==
  /\ task = None
  /\ phase = "Stopping"
  /\ task' = NewTask("stop", "stop")
  /\ UNCHANGED <<phase, connection, stop_requested, stale_result, owner_stop, stored, tunnel,
                 panel, history>>

\* pending_stop_requires_core_stop: a journaled Stop, or a connection left in Stopping
PendingStopRequiresStop == pending_compensation_stop # None \/ phase = "Stopping"

\* retry_pending_stop
RetryPendingStop ==
  /\ task = None
  /\ PendingStopRequiresStop
  /\ task' = NewTask("stop", "stop")
  /\ UNCHANGED <<phase, connection, stop_requested, stale_result, owner_stop, stored, tunnel,
                 panel, history>>

\* stop_for_shutdown signals too; a Start it interrupts is to be stopped
\* whatever the phase says later
ShutdownSignal ==
  /\ "shutdown" \in events
  /\ task # None
  /\ stop_requested' = IF task.kind \in {"start", "replace"} \/ pending_start # None
                       THEN stop_requested \cup {"shutdown"} ELSE stop_requested
  /\ task' = Signalled(task)
  /\ UNCHANGED <<phase, connection, stale_result, owner_stop, stored, tunnel, panel, history>>

\* shutdown_requires_core_stop
ShutdownRequiresStop ==
  \/ "shutdown" \in stop_requested
  \/ pending_start # None
  \/ phase \in {"Connected", "Connecting", "Stopping"}

StopForShutdown ==
  /\ "shutdown" \in events
  /\ task = None
  /\ ShutdownRequiresStop \/ pending_compensation_stop # None
  /\ stop_requested' = stop_requested \ {"shutdown"}
  /\ task' = NewTask("stop", "stop")
  /\ UNCHANGED <<phase, connection, stale_result, owner_stop, stored, tunnel, panel, history>>

\* stop: the journal of an earlier Stop first, then a pending Start, then the
\* connection
Stop ==
  /\ At("stop")
  /\ \/ /\ pending_compensation_stop # None
        /\ Goto("resume")
        /\ UNCHANGED pending_compensation_stop
     \/ /\ pending_compensation_stop = None
        /\ pending_start # None
        /\ connection # None
        /\ pending_compensation_stop' =
             CompensationIdentity(connection.lease, AcceptsWarm(connection.template), None)
        /\ Goto("resume")
     \/ /\ pending_compensation_stop = None
        /\ connection = None
        /\ IF pending_start # None THEN Goto("cancel") ELSE Return
        /\ UNCHANGED pending_compensation_stop
     \/ /\ pending_compensation_stop = None
        /\ pending_start = None
        /\ connection # None
        /\ IF pending_stalled_stop = connection.lease
           THEN StopInternal("stalled", TRUE, "stalled")
           ELSE StopInternal(None, TRUE, "plain")
        /\ UNCHANGED pending_compensation_stop
  /\ UNCHANGED <<phase, connection, stop_requested, stale_result, owner_stop, pending_start,
                 pending_stalled_stop, profiles, tunnel, panel, history>>

-----------------------------------------------------------------------------
(* cancel_pending_start: a Start whose outcome is unknown is cancelled.  The
   explicit legacy Start calls it too, scoped to its own epoch and to a
   stopped tunnel (ensure_pending_cleanup_scope).                            *)

InScope == task.kind # "start" \/ (~task.cancelled /\ tunnel = "Stopped" /\ phase # "Connected")

\* where it returns with the pending Start resolved
Cancelled == IF task.kind = "start" THEN Goto("admit") ELSE Return

\* a live lease was found: its Stop is journaled in the pending Start
\* (pending_cancel_operation_id) before it is sent
StopUnknownLease(l) ==
  /\ pending_start' = [pending_start EXCEPT !.cancelling = TRUE]
  /\ task' = [task EXCEPT !.pc = "cancel_stop", !.lease = l]

\* the pending Start is forgotten, or kept for the next Stop
StartResolved == pending_start' = None /\ phase' = "Ready" /\ Cancelled
StartUnresolved == Return /\ phase' = "Stopping" /\ UNCHANGED pending_start

\* what reconcile_operation answers for the pending Start: its lease, "Absent" or
\* "Cancelled"
Reconciled == IF pending_start.op \in Leases THEN pending_start.op ELSE operations[pending_start.op]

\* reconcile_confirms_terminal_or_absent: nothing of the operation is left
ConfirmsTerminal(lease) ==
  lease = "Cancelled" \/ (lease \in Leases /\ leases[lease].status = "Released")

\* cancel_pending_start with cancel_if_absent: an absent operation is fenced
CancelPendingStart ==
  /\ At("cancel")
  /\ LET op == pending_start.op
         lease == Reconciled
     IN  \/ /\ ~InScope
            /\ Return
            /\ UNCHANGED <<phase, pending_start, panel>>
         \/ /\ InScope
            /\ pending_start.contract = "RecoveryV1"
            /\ \/ /\ cancel_requested' = cancel_requested \cup ({op} \cap Ops)
                  /\ operations' = IF lease = "Absent" THEN [operations EXCEPT ![op] = "Cancelled"]
                                   ELSE operations
                  /\ \/ StartUnresolved
                     \/ /\ lease = "Absent" \/ ConfirmsTerminal(lease)
                        /\ StartResolved
                     \/ /\ lease \in Leases
                        /\ leases[lease].status \in {"Connected", "Warm"}
                        /\ StopUnknownLease(lease)
                        /\ phase' = "Stopping"
               \/ StartUnresolved /\ UNCHANGED <<operations, cancel_requested>>
            /\ UNCHANGED <<leases, delayed>>
  /\ UNCHANGED <<connection, stop_requested, stale_result, owner_stop, pending_compensation_stop,
                 pending_stalled_stop, profiles, tunnel, history>>

\* cancel_unknown_legacy_start: the older contract has nothing to reconcile with, so
\* the Start is sent again to learn its lease
CancelUnknownLegacyStart ==
  /\ At("cancel")
  /\ InScope
  /\ pending_start.contract = "Legacy"
  /\ \E r \in StartReplies :
       /\ StartReplied(pending_start.op, pending_start.template, r)
       /\ CASE r \in Leases -> StopUnknownLease(r) /\ phase' = "Stopping"
            [] r = "no_longer_active" -> StartResolved
            [] r = "terminal" -> StartResolved \/ StartUnresolved
            [] OTHER -> StartUnresolved
  /\ UNCHANGED <<connection, stop_requested, stale_result, owner_stop, pending_compensation_stop,
                 pending_stalled_stop, profiles, tunnel, history>>

\* stop_unknown_pending_lease, from the panel request on
StopUnknownPendingLease ==
  /\ At("cancel_stop")
  /\ \/ /\ ~InScope
        /\ Return
        /\ UNCHANGED <<phase, connection, pending_start, panel>>
     \/ /\ InScope
        /\ \E answer \in StopAnswers(task.lease) :
             /\ StopApplied(task.lease, answer)
             /\ IF answer.error = None
                   /\ Finished(None, AcceptsWarm(pending_start.template), answer.status)
                THEN /\ pending_start' = None
                     /\ phase' = "Ready"
                     /\ connection' = Connection(task.lease, answer.status)
                     /\ Cancelled
                ELSE /\ phase' = IF answer.error = None THEN phase ELSE "Stopping"
                     /\ Return
                     /\ UNCHANGED <<connection, pending_start>>
  /\ UNCHANGED <<stop_requested, stale_result, owner_stop, pending_compensation_stop,
                 pending_stalled_stop, profiles, tunnel, history>>

-----------------------------------------------------------------------------
(* start_internal.                                                          *)

\* what the user may ask for, and the contract the panel's capabilities offer
OfferedTemplates == IF "personal" \in events THEN Templates ELSE Warmable
OfferedContract == IF "legacy" \in events THEN "Legacy" ELSE "RecoveryV1"

\* Application::start (legacy) or connection_intent_attempt (recovery).  A Start
\* that waits behind a Stop was cancelled by it: start captures the epoch before it
\* waits, an attempt finds its intent retired (the lock is granted in order)
BeginStart(t, c) ==
  /\ task = None
  /\ stop_requested = {}
  /\ task' = [NewTask("start", IF c = "Legacy" THEN "prepare" ELSE "admit")
                EXCEPT !.template = t, !.contract = c]
  /\ UNCHANGED <<phase, connection, stop_requested, stale_result, owner_stop, stored, tunnel,
                 panel, history>>

\* pending_start_matches_options
MatchesOptions == pending_start.template = task.template

\* prepare_explicit_start: a new user request supersedes another unresolved Start
PrepareExplicitStart ==
  /\ At("prepare")
  /\ \/ task.cancelled /\ Return
     \/ /\ ~task.cancelled
        /\ IF \/ pending_start = None
              \/ ~pending_start.cancelling /\ MatchesOptions
           THEN Goto("admit")
           ELSE IF InScope THEN Goto("cancel") ELSE Return
  /\ UNCHANGED <<phase, connection, stop_requested, stale_result, owner_stop, stored, tunnel,
                 panel, history>>

StartAdmitted ==
  /\ At("admit")
  /\ IF task.cancelled \/ pending_compensation_stop = None
     THEN (IF task.cancelled THEN Return ELSE Goto("locked")) /\ UNCHANGED phase
     ELSE Goto("resume") /\ phase' = "Stopping"
  /\ UNCHANGED <<connection, stop_requested, stale_result, owner_stop, stored, tunnel, panel, history>>

\* an attempt that succeeded after its intent was retired is handed over to
\* compensate_stale_connection_intent_result
Succeeded ==
  /\ Return
  /\ stale_result' \in {stale_result, stale_result \/ ("retired" \in events
                                                      /\ task.contract = "RecoveryV1")}

\* the connection is held on the panel only
PanelConnectionIsStale ==
  /\ phase # "Connected"
  /\ connection # None
  /\ connection.status = "Connected"
  /\ tunnel # "Running"

\* release_stale_panel_connection_before_start up to the panel request
BeginRelease(t) ==
  LET entry == CompensationIdentity(connection.lease, AcceptsWarm(connection.template), None)
  IN  /\ task' = [t EXCEPT !.pc = "release", !.lease = connection.lease]
      /\ \/ /\ pending_start = None
            /\ UNCHANGED pending_compensation_stop
         \/ /\ pending_start # None
            /\ entry # None
            /\ pending_compensation_stop' = entry

\* under the connection gate: an open connection is returned, a pending Start of
\* other options or under cancellation refuses, a stale lease is released first
StartLocked ==
  /\ At("locked")
  /\ \/ /\ phase = "Connected" /\ connection # None
        /\ Succeeded
        /\ UNCHANGED <<phase, pending_compensation_stop>>
     \/ /\ ~(phase = "Connected" /\ connection # None)
        /\ IF /\ pending_start # None
              /\ pending_start.cancelling \/ ~MatchesOptions
           THEN /\ phase' = IF pending_start.cancelling THEN "Stopping" ELSE "ServerUnavailable"
                /\ Return
                /\ UNCHANGED pending_compensation_stop
           ELSE /\ IF task.cancelled
                   THEN Return /\ UNCHANGED pending_compensation_stop
                   ELSE IF PanelConnectionIsStale THEN BeginRelease(task)
                        ELSE Goto("journal") /\ UNCHANGED pending_compensation_stop
                /\ UNCHANGED phase
        /\ UNCHANGED stale_result
  /\ UNCHANGED <<connection, stop_requested, owner_stop, pending_start, pending_stalled_stop,
                 profiles, tunnel, panel, history>>

\* release_stale_panel_connection_before_start, from the panel request on
ReleaseStaleConnection ==
  /\ At("release")
  /\ \E answer \in StopAnswers(task.lease) :
       /\ StopApplied(task.lease, answer)
       /\ IF answer.error = None
             /\ Finished(None, AcceptsWarm(leases[task.lease].template), answer.status)
          THEN /\ pending_start' = None
               /\ pending_compensation_stop' =
                    IF pending_start = None THEN pending_compensation_stop ELSE None
               /\ phase' = "Ready"
               /\ connection' = Connection(task.lease, answer.status)
               /\ IF task.kind = "bind" THEN Return ELSE Goto("journal")
          ELSE /\ phase' = IF answer.error = None \/ task.kind = "bind" THEN phase
                          ELSE PhaseFor(answer.error)
               /\ Return
               /\ UNCHANGED <<connection, pending_start, pending_compensation_stop>>
  /\ UNCHANGED <<stop_requested, stale_result, owner_stop, pending_stalled_stop,
                 profiles, tunnel, history>>

\* reusable_operation_id: the lease id of a cached profile that is still warm, or of
\* a pinned one past its cooldown
Reusable(t) ==
  {p.lease : p \in {q \in {saved_connection, pinned_connection} :
                       q # None /\ q.template = t /\ t \in Warmable}}

\* the operation id is journaled before the request can be sent; a preflight
\* failure (options, access) returns before that.  A cached profile may have expired.
JournalStart ==
  /\ At("journal")
  /\ \/ Return /\ UNCHANGED <<phase, pending_start, history>>
     \/ /\ ~task.cancelled
        /\ phase' = "Connecting"
        /\ \/ /\ pending_start # None
              /\ task' = [task EXCEPT !.pc = "dispatch", !.op = pending_start.op]
              /\ UNCHANGED <<pending_start, history>>
           \/ /\ pending_start = None
              /\ \E op \in Reusable(task.template) \cup (Ops \ issued) :
                   /\ pending_start' = [op |-> op, template |-> task.template,
                                        contract |-> task.contract, cancelling |-> FALSE]
                   /\ issued' = issued \cup ({op} \cap Ops)
                   /\ UNCHANGED events
                   /\ task' = [task EXCEPT !.pc = "dispatch", !.op = op, !.fresh = TRUE]
  /\ UNCHANGED <<connection, stop_requested, stale_result, owner_stop, pending_compensation_stop,
                 pending_stalled_stop, profiles, tunnel, panel>>

\* the pending Start goes on under another operation id
ReplacePendingStartOperation(op) ==
  pending_start' = [pending_start EXCEPT !.op = op, !.cancelling = FALSE]

\* retry_start: cancelled before the request, answered, or failed.  Only the
\* legacy Start retries inside, and replaces an operation id the panel has retired.
DispatchStart ==
  /\ At("dispatch")
  /\ \/ /\ task.cancelled
        /\ pending_start' = IF task.fresh THEN None ELSE pending_start
        /\ phase' = IF phase = "Connecting" THEN "Ready" ELSE phase
        /\ Return
        /\ UNCHANGED <<panel, history>>
     \/ /\ ~task.cancelled
        /\ \E r \in StartReplies :
            /\ StartReplied(task.op, task.template, r)
            /\ \/ /\ r \in Leases
                  /\ task' = [task EXCEPT !.pc = "granted", !.lease = r]
                  /\ UNCHANGED <<phase, pending_start, history>>
               \/ /\ r \notin Leases
                  /\ ~(r = "no_longer_active" /\ task.contract = "Legacy" /\ ~task.replaced)
                  /\ phase' = PhaseFor(r)
                  /\ task' = [task EXCEPT !.pc = "failed", !.error = r]
                  /\ UNCHANGED <<pending_start, history>>
               \/ /\ r \in {"retryable", "busy"}
                  /\ task.contract = "Legacy"
                  /\ task' = [task EXCEPT !.fresh = FALSE]
                  /\ UNCHANGED <<phase, pending_start, history>>
               \/ /\ r = "no_longer_active"
                  /\ task.contract = "Legacy"
                  /\ ~task.replaced
                  /\ \E op \in Ops \ issued :
                       /\ issued' = issued \cup {op}
                       /\ UNCHANGED events
                       /\ ReplacePendingStartOperation(op)
                       /\ task' = [task EXCEPT !.op = op, !.replaced = TRUE, !.fresh = FALSE]
                  /\ UNCHANGED phase
  /\ UNCHANGED <<connection, stop_requested, stale_result, owner_stop, pending_compensation_stop,
                 pending_stalled_stop, profiles, tunnel>>

\* the error path of start_internal: a cancelled Start leaves its journal to the
\* Stop; an error that is not to be retried forgets the operation
StartFailed ==
  /\ At("failed")
  /\ IF task.cancelled
     THEN /\ phase' = IF phase = "Connecting" THEN "Ready" ELSE phase
          /\ UNCHANGED pending_start
     ELSE /\ phase' = PhaseFor(task.error)
          /\ pending_start' = IF Preserves(task.error) THEN pending_start
                              ELSE ClearPendingStart(task.op)
  /\ Return
  /\ UNCHANGED <<connection, stop_requested, stale_result, owner_stop, pending_compensation_stop,
                 pending_stalled_stop, profiles, tunnel, panel, history>>

\* enter compensate_failed_start.  The presentation is its own while the epoch
\* stands, or after a signal-only cancellation that left Connecting.
Compensate(stage, error) ==
  task' = [task EXCEPT !.pc = "compensate", !.next = stage, !.error = error,
                       !.present = ~task.cancelled \/ phase' = "Connecting"]

\* the panel granted a lease: a cancelled Start or one the client cannot use is
\* compensated; otherwise the profile is cached
StartGranted ==
  /\ At("granted")
  /\ \/ /\ task.cancelled
        /\ UNCHANGED <<phase, connection, profiles>>
        /\ Compensate("preparation", "cancelled")
     \/ /\ ~task.cancelled
        /\ "rejection" \in events
        /\ UNCHANGED <<phase, connection, profiles>>
        /\ Compensate("preparation", "rejected")
     \/ /\ ~task.cancelled
        /\ phase' = "Connecting"
        /\ connection' = Connection(task.lease, "Connected")
        /\ \/ /\ CacheProfile(Connection(task.lease, "Connected"))
              /\ Goto("local")
           \/ /\ "local" \in events
              /\ UNCHANGED profiles
              /\ Compensate("storage", "storage") \/ Compensate("preparation", "rejected")
  /\ UNCHANGED <<stop_requested, stale_result, owner_stop, pending_start,
                 pending_compensation_stop, pending_stalled_stop, tunnel, panel, history>>

\* tunnel.start: an error may leave the tunnel in any state
StartTunnel ==
  /\ At("local")
  /\ \/ tunnel' = "Running" /\ Goto("handshake")
     \/ /\ "local" \in events
        /\ tunnel' \in {"Stopped", "Running", "Failed"}
        /\ task' = [task EXCEPT !.pc = "started", !.error = "tunnel"]
  /\ UNCHANGED <<phase, connection, stop_requested, stale_result, owner_stop, stored, panel, history>>

\* wait_for_handshake: established, or not to be observed (other transports, a
\* tunnel without metrics); cancelled; not in time.  A tunnel that is gone when
\* the metrics fail ends the wait with their error.
WaitForHandshake ==
  /\ At("handshake")
  /\ \/ Goto("started")
     \/ ~task.cancelled /\ "local" \in events /\ Goto("rebind")
     \/ /\ ~task.cancelled /\ tunnel # "Running"
        /\ task' = [task EXCEPT !.pc = "started", !.error = "tunnel"]
  /\ UNCHANGED <<phase, connection, stop_requested, stale_result, owner_stop, stored, tunnel, panel,
                 history>>

\* ensure_awg3_handshake after the first wait: the socket is bound again and the
\* handshake waited for once more; the tunnel stays as it is
RebindUdp ==
  /\ At("rebind")
  /\ \/ Goto("started")
     \/ /\ ~task.cancelled
        /\ \E error \in {"handshake", "tunnel"} :
             task' = [task EXCEPT !.pc = "started", !.error = error]
  /\ UNCHANGED <<phase, connection, stop_requested, stale_result, owner_stop, stored, tunnel, panel,
                 history>>

\* mutant: the epoch is not checked again after the handshake
FinishStart_Unchecked ==
  /\ At("started")
  /\ \/ /\ task.error # None
        /\ UNCHANGED <<phase, connection, pending_start, stale_result, quarantine>>
        /\ Compensate("local", task.error)
     \/ /\ task.error = None
        /\ phase' = "Connected"
        /\ connection' = Connection(task.lease, "Connected")
        /\ pending_start' = ClearPendingStart(task.op)
        /\ quarantine' = quarantine \ {task.lease}
        /\ Succeeded
  /\ UNCHANGED <<stop_requested, owner_stop, pending_compensation_stop, pending_stalled_stop,
                 saved_connection, pinned_connection, tunnel, panel, history>>

\* the epoch is checked a last time with the state locked; the journal is
\* cleared as the connection becomes Connected
FinishStart ==
  /\ At("started")
  /\ task.kind # "offline"
  /\ \/ /\ task.cancelled \/ task.error # None
        /\ UNCHANGED <<phase, connection, pending_start, stale_result, quarantine>>
        /\ Compensate("local", IF task.cancelled THEN "cancelled" ELSE task.error)
     \/ /\ ~task.cancelled
        /\ task.error = None
        /\ phase' = "Connected"
        /\ connection' = Connection(task.lease, "Connected")
        /\ pending_start' = ClearPendingStart(task.op)
        /\ quarantine' = quarantine \ {task.lease}
        /\ Succeeded
  /\ UNCHANGED <<stop_requested, owner_stop, pending_compensation_stop, pending_stalled_stop,
                 saved_connection, pinned_connection, tunnel, panel, history>>

-----------------------------------------------------------------------------
(* start_saved_stray_offline: a Start from a cached profile.  It neither asks
   the panel nor journals anything, and is cancelled by the same epoch.        *)

BeginOfflineStart ==
  /\ "offline" \in events
  /\ task = None
  /\ task' = NewTask("offline", "offline")
  /\ UNCHANGED <<phase, connection, stop_requested, stale_result, owner_stop, stored, tunnel,
                 panel, history>>

\* the profiles it may use: a warm one, or a pinned one whose handshake has not
\* timed out since the panel issued it
OfflineProfiles ==
  {p \in {saved_connection} : p # None /\ AcceptsWarm(p.template)}
    \cup {p \in {pinned_connection} : p # None /\ ~p.timed_out}

\* refused (no profile, an expired one, an update, an unfinished Stop) or shown
\* as Connecting
OfflineStartAdmitted ==
  /\ At("offline")
  /\ \/ Return /\ UNCHANGED <<phase, connection>>
     \/ /\ ~task.cancelled
        /\ pending_compensation_stop = None
        /\ \E p \in OfflineProfiles :
             /\ p.lease \notin quarantine
             /\ phase' = "Connecting"
             /\ connection' = [Connection(p.lease, "Connected") EXCEPT !.pinned = (p = pinned_connection)]
             /\ task' = [task EXCEPT !.pc = "offline_tunnel", !.lease = p.lease,
                                     !.pinned = (p = pinned_connection)]
  /\ UNCHANGED <<stop_requested, stale_result, owner_stop, stored, tunnel, panel, history>>

OfflineConnection == [Connection(task.lease, "Connected") EXCEPT !.pinned = task.pinned]

\* tunnel.start: an error may leave the tunnel in any state
OfflineStartTunnel ==
  /\ At("offline_tunnel")
  /\ \/ tunnel' = "Running" /\ Goto("offline_started")
     \/ /\ "local" \in events
        /\ tunnel' \in {"Stopped", "Running", "Failed"}
        /\ task' = [task EXCEPT !.pc = "offline_started", !.error = "tunnel"]
  /\ UNCHANGED <<phase, connection, stop_requested, stale_result, owner_stop, stored, panel, history>>

\* ensure_offline_start_current: after a cancellation the late tunnel is closed;
\* the presentation belongs to whoever cancelled, unless closing fails
EnsureOfflineStartCurrent(Current) ==
  IF task.cancelled
  THEN StopTunnel(Return /\ UNCHANGED <<phase, connection>>,
                  Return /\ phase' = "Error" /\ connection' = None)
  ELSE Current

OfflineTunnelStarted ==
  /\ At("offline_started")
  /\ EnsureOfflineStartCurrent(
       /\ Goto(IF task.error = None THEN "handshake" ELSE "offline_publish")
       /\ UNCHANGED <<phase, connection, tunnel>>)
  /\ UNCHANGED <<stop_requested, stale_result, owner_stop, stored, panel, history>>

\* after the handshake wait: without one the tunnel is closed and the timeout is
\* recorded in the profile, or the profile quarantined when that cannot be saved
OfflineHandshaken ==
  /\ At("started")
  /\ task.kind = "offline"
  /\ \/ /\ EnsureOfflineStartCurrent(
            /\ task.error = None
            /\ Goto("offline_publish")
            /\ UNCHANGED <<phase, connection, tunnel>>)
        /\ UNCHANGED <<pending_start, profiles>>
     \/ /\ ~task.cancelled
        /\ task.error # None
        /\ Return
        /\ StopTunnel(
             /\ phase' = "Ready"
             /\ connection' = None
             /\ \/ /\ task.error = "handshake"
                   /\ HandshakeTimedOut(OfflineConnection)
                   /\ pending_start' = ClearPendingStart(task.lease)
                \/ /\ task.error = "handshake"
                   /\ "local" \in events
                   /\ quarantine' = quarantine \cup {task.lease}
                   /\ UNCHANGED <<pending_start, saved_connection, pinned_connection>>
                \/ /\ task.error # "handshake"
                   /\ UNCHANGED <<pending_start, profiles>>,
             /\ phase' = "Stopping"
             /\ connection' = OfflineConnection
             /\ UNCHANGED <<pending_start, profiles>>)
  /\ UNCHANGED <<stop_requested, stale_result, owner_stop, pending_compensation_stop,
                 pending_stalled_stop, panel, history>>

\* the last check of the epoch, with the state locked; the tunnel is then left to
\* the operation that cancelled
PublishOfflineStart ==
  /\ At("offline_publish")
  /\ Return
  /\ IF task.cancelled THEN UNCHANGED <<phase, connection>>
     ELSE IF task.error = None THEN phase' = "Connected" /\ connection' = OfflineConnection
     ELSE phase' = "Ready" /\ connection' = None
  /\ UNCHANGED <<stop_requested, stale_result, owner_stop, stored, tunnel, panel, history>>

-----------------------------------------------------------------------------
(* Pinning and the binding of the device.                                    *)

\* pin_stray and unpin_stray up to their request
BeginPin(kind) ==
  /\ "pin" \in events
  /\ task = None
  /\ LET saved == IF kind = "pin" THEN saved_connection ELSE pinned_connection
     IN  /\ saved # None
         /\ kind = "pin" => /\ phase = "Connected"
                            /\ connection # None
                            /\ ~connection.pinned
                            /\ connection.lease = saved.lease
                            /\ AcceptsWarm(connection.template)
         /\ task' = [NewTask(kind, "pin") EXCEPT !.lease = saved.lease]
  /\ UNCHANGED <<phase, connection, stop_requested, stale_result, owner_stop, stored, tunnel,
                 panel, history>>

\* the panel refuses, or (un)pins a live lease and the answer may be lost
PinRequest ==
  /\ At("pin")
  /\ \/ Return /\ UNCHANGED leases
     \/ /\ leases[task.lease].status \in {"Connected", "Warm"}
        /\ leases' = [leases EXCEPT ![task.lease].pinned = (task.kind = "pin")]
        /\ \/ task' = [task EXCEPT !.pc = "pin_answered", !.status = leases[task.lease].status]
           \/ "lost" \in events /\ Return
  /\ UNCHANGED <<phase, connection, stop_requested, stale_result, owner_stop, stored, tunnel,
                 operations, cancel_requested, delayed, history>>

\* pin_stray from the answer on: after a cancellation the stored profile stays what
\* the cleanup needs
PinStray ==
  /\ At("pin_answered")
  /\ task.kind = "pin"
  /\ Return
  /\ IF task.cancelled THEN UNCHANGED <<phase, connection, profiles>>
     ELSE /\ saved_connection' = None
          /\ pinned_connection' = [lease |-> task.lease, template |-> leases[task.lease].template,
                                   timed_out |-> FALSE]
          /\ quarantine' = quarantine \ {task.lease}
          /\ phase' = "Connected"
          /\ connection' = Connection(task.lease, task.status)
  /\ UNCHANGED <<stop_requested, stale_result, owner_stop, pending_start, pending_compensation_stop,
                 pending_stalled_stop, tunnel, panel, history>>

\* unpin_stray from the answer on: another cached profile is not replaced
UnpinStray ==
  /\ At("pin_answered")
  /\ task.kind = "unpin"
  /\ Return
  /\ pinned_connection' = None
  /\ saved_connection' = IF saved_connection # None THEN saved_connection
                         ELSE [lease |-> task.lease, template |-> leases[task.lease].template]
  /\ connection' = IF connection = None \/ connection.lease # task.lease THEN connection
                   ELSE Connection(task.lease, task.status)
  /\ UNCHANGED <<phase, stop_requested, stale_result, owner_stop, pending_start,
                 pending_compensation_stop, pending_stalled_stop, quarantine, tunnel, panel, history>>

\* bind_peer and unbind_peer; prepare_binding_change first releases a connection
\* that only the panel holds
BeginBindingChange ==
  /\ "unbind" \in events
  /\ task = None
  /\ \/ /\ task' = NewTask("unbind", "unbind")
        /\ UNCHANGED pending_compensation_stop
     \/ /\ PanelConnectionIsStale
        /\ BeginRelease(NewTask("bind", "release"))
  /\ UNCHANGED <<phase, connection, stop_requested, stale_result, owner_stop, pending_start,
                 pending_stalled_stop, profiles, tunnel, panel, history>>

\* complete_unbind once the panel has unbound the device: the tunnel first, then
\* every cached profile
CompleteUnbind ==
  /\ At("unbind")
  /\ Return
  /\ \/ UNCHANGED <<phase, connection, profiles, tunnel>>
     \/ StopTunnel(
          /\ saved_connection' = None
          /\ pinned_connection' = None
          /\ quarantine' = {}
          /\ phase' = "NeedsPeerBinding"
          /\ connection' = None,
          UNCHANGED <<phase, connection, profiles>>)
  /\ UNCHANGED <<stop_requested, stale_result, owner_stop, pending_start, pending_compensation_stop,
                 pending_stalled_stop, panel, history>>

-----------------------------------------------------------------------------
(* compensate_failed_start.                                                 *)

\* set_compensation_state
Present(p, c) ==
  IF task.present THEN phase' = p /\ connection' = c ELSE UNCHANGED <<phase, connection>>

\* the identity of the compensating Stop is journaled first
CompensateJournal ==
  /\ At("compensate")
  /\ LET failure == IF task.error = "handshake" THEN "handshake" ELSE None
         entry == CompensationIdentity(task.lease, AcceptsWarm(task.template), failure)
     IN  IF entry = None
         THEN /\ Present(IF task.next = "local" /\ tunnel # "Stopped" THEN "Stopping" ELSE "Ready",
                         Connection(task.lease, "Connected"))
              /\ Return
              /\ UNCHANGED pending_compensation_stop
         ELSE /\ pending_compensation_stop' = entry
              /\ Goto("compensate_local")
              /\ UNCHANGED <<phase, connection>>
  /\ UNCHANGED <<stop_requested, stale_result, owner_stop, pending_start, pending_stalled_stop,
                 profiles, tunnel, panel, history>>

\* mutant: the tunnel a cancelled Start opened is left to the Stop
CompensateLocal_KeepsTunnel ==
  /\ At("compensate_local")
  /\ Goto("compensate_panel")
  /\ UNCHANGED <<phase, connection, stop_requested, stale_result, owner_stop, stored, tunnel,
                 panel, history>>

\* then the tunnel is closed, if the failed Start may have opened it
CompensateLocal ==
  /\ At("compensate_local")
  /\ IF task.next = "local"
     THEN StopTunnel(Goto("compensate_panel") /\ UNCHANGED <<phase, connection>>,
                     Return /\ Present("Stopping", Connection(task.lease, "Connected")))
     ELSE Goto("compensate_panel") /\ UNCHANGED <<phase, connection, tunnel>>
  /\ UNCHANGED <<stop_requested, stale_result, owner_stop, stored, panel, history>>

\* then the panel is told; without its confirmation the journal stays
CompensatePanel ==
  /\ At("compensate_panel")
  /\ LET journal == pending_compensation_stop
     IN  \E answer \in StopAnswers(task.lease) :
           /\ StopApplied(task.lease, answer)
           /\ IF answer.error = None /\ Finished(journal.failure, journal.accept_warm, answer.status)
              THEN /\ pending_start' = ClearPendingStart(task.op)
                   /\ IF task.error = "handshake"
                      THEN HandshakeTimedOut(Connection(task.lease, answer.status))
                      ELSE UNCHANGED profiles
                   /\ task' = [task EXCEPT !.pc = "compensate_clear", !.status = answer.status]
                   /\ UNCHANGED <<phase, connection>>
              ELSE /\ IF answer.error = None
                      THEN Present("Stopping", Connection(task.lease, answer.status))
                      ELSE Present(StopErrorPhase(answer.error), Connection(task.lease, "Connected"))
                   /\ Return
                   /\ UNCHANGED <<pending_start, profiles>>
  /\ UNCHANGED <<stop_requested, stale_result, owner_stop, pending_compensation_stop,
                 pending_stalled_stop, tunnel, history>>

CompensateClear ==
  /\ At("compensate_clear")
  /\ pending_compensation_stop' = None
  /\ Present(PhaseFor(task.error), Connection(task.lease, task.status))
  /\ Return
  /\ UNCHANGED <<stop_requested, stale_result, owner_stop, pending_start, pending_stalled_stop,
                 profiles, tunnel, panel, history>>

-----------------------------------------------------------------------------
(* Recovery of the desktop intent: reconcile, replace, compensate.          *)

\* reconcile_pending_operation_for_retry: journals first; a legacy Start has
\* nothing to reconcile
BeginReconcile ==
  /\ task = None
  /\ \/ pending_compensation_stop # None /\ task' = NewTask("reconcile", "resume")
     \/ /\ pending_compensation_stop = None
        /\ pending_stalled_stop # None
        /\ task' = NewTask("reconcile", "reconcile_stalled")
     \/ /\ pending_compensation_stop = None
        /\ pending_stalled_stop = None
        /\ pending_start # None
        /\ pending_start.contract = "RecoveryV1"
        /\ task' = NewTask("reconcile", "reconcile")
  /\ UNCHANGED <<phase, connection, stop_requested, stale_result, owner_stop, stored, tunnel,
                 panel, history>>

\* its request for a Start, without cancel_if_absent: only an operation that ended
\* on the panel is forgotten; one the panel was told to cancel has its lease stopped
ReconcileStart ==
  /\ At("reconcile")
  /\ \/ Return /\ UNCHANGED pending_start
     \/ /\ ConfirmsTerminal(Reconciled)
        /\ pending_start' = None
        /\ Return
     \/ /\ Reconciled \in Leases
        /\ leases[Reconciled].status \in {"Connected", "Warm"}
        /\ pending_start.op \in cancel_requested
        /\ StopUnknownLease(Reconciled)
  /\ UNCHANGED <<phase, connection, stop_requested, stale_result, owner_stop,
                 pending_compensation_stop, pending_stalled_stop, profiles, tunnel,
                 panel, history>>

\* apply_reconciled_stalled_stop_terminal: to the connection the lease belongs to
ApplyStalledStopTerminal ==
  /\ connection # None
  /\ connection.lease = pending_stalled_stop
  /\ connection' = [connection EXCEPT !.status = "Released"]
  /\ phase' = "Stopping"

\* reconcile_pending_stalled_stop_for_retry: only a lease that ended is settled
ReconcileStalledStop ==
  /\ At("reconcile_stalled")
  /\ Return
  /\ \/ UNCHANGED <<phase, connection, pending_stalled_stop>>
     \/ /\ leases[pending_stalled_stop].status = "Released"
        /\ ApplyStalledStopTerminal
        /\ pending_stalled_stop' = None
  /\ UNCHANGED <<stop_requested, stale_result, owner_stop, pending_start,
                 pending_compensation_stop, profiles, tunnel, panel, history>>

\* pending_stalled_stop_identity: the journal entry, or None for a conflict
StalledStopIdentity(l) == IF pending_stalled_stop \in {None, l} THEN l ELSE None

\* replace_stalled_connection: the Stop of a dynamic lease is journaled under its
\* own identity, and its replacement is started only once the lease has ended
ReplaceStalledConnection ==
  /\ "stalled" \in events
  /\ task = None
  /\ stop_requested = {}
  /\ connection # None
  /\ \E p \in {saved_connection, pinned_connection} : p # None /\ p.lease = connection.lease
  /\ LET t == connection.template
         dynamic == t \in Warmable /\ ~connection.pinned
         begun == [NewTask("replace", "stop_internal") EXCEPT
                     !.template = t, !.contract = "RecoveryV1", !.accept_warm = TRUE,
                     !.failure = IF dynamic THEN "stalled" ELSE None, !.next = "replace"]
     IN  IF dynamic /\ connection.status # "Released"
         THEN /\ StalledStopIdentity(connection.lease) # None
              /\ pending_stalled_stop' = StalledStopIdentity(connection.lease)
              /\ task' = begun
         ELSE task' = begun /\ UNCHANGED pending_stalled_stop
  /\ UNCHANGED <<phase, connection, stop_requested, stale_result, owner_stop, pending_start,
                 pending_compensation_stop, profiles, tunnel, panel, history>>

\* mutant: one try, whatever comes of it
CompensateStaleResult_Once ==
  /\ task = None
  /\ stale_result
  /\ stale_result' = FALSE
  /\ IF connection = None
     THEN pending_compensation_stop' = None /\ UNCHANGED task
     ELSE LET entry == CompensationIdentity(connection.lease, AcceptsWarm(connection.template), None)
          IN  /\ entry # None
              /\ pending_compensation_stop' = entry
              /\ task' = [NewTask("stale", "stop_internal") EXCEPT
                            !.accept_warm = entry.accept_warm, !.next = "stale"]
  /\ UNCHANGED <<phase, connection, stop_requested, owner_stop, pending_start,
                 pending_stalled_stop, profiles, tunnel, panel, history>>

\* compensate_stale_connection_intent_result, until it succeeds
CompensateStaleResult ==
  /\ task = None
  /\ stale_result
  /\ \/ /\ connection = None
        /\ pending_compensation_stop' = None
        /\ stale_result' = FALSE
        /\ UNCHANGED task
     \/ /\ connection # None
        /\ LET entry == CompensationIdentity(connection.lease,
                                             AcceptsWarm(connection.template), None)
           IN  /\ entry # None
               /\ pending_compensation_stop' = entry
               /\ task' = [NewTask("stale", "stop_internal") EXCEPT
                             !.accept_warm = entry.accept_warm, !.next = "stale"]
        /\ UNCHANGED stale_result
  /\ UNCHANGED <<phase, connection, stop_requested, owner_stop, pending_start,
                 pending_stalled_stop, profiles, tunnel, panel, history>>

-----------------------------------------------------------------------------
(* Bootstrap, the owner's local stop, the tunnel, crashes.                   *)

\* bootstrap: the panel's view of the device's connection, a live lease if there
\* is one
BeginBootstrap ==
  /\ "bootstrap" \in events
  /\ task = None
  /\ LET Live == {l \in Leases : leases[l].status = "Connected"}
         Idle == {l \in Leases : leases[l].status \in {"Warm", "Released"}}
     IN  \E l \in IF Live # {} THEN Live ELSE Idle \cup {None} :
           task' = [NewTask("bootstrap", "bootstrap") EXCEPT
                      !.lease = l, !.status = IF l = None THEN None ELSE leases[l].status]
  /\ UNCHANGED <<phase, connection, stop_requested, stale_result, owner_stop, stored, tunnel,
                 panel, history>>

\* complete_bootstrap: a cached profile of another lease is dropped, and the phase
\* follows the tunnel; restore_running_connection_configuration then fetches the
\* profile of a running tunnel with a Start that reuses the lease id
CompleteBootstrap ==
  /\ At("bootstrap")
  /\ IF task.cancelled
     THEN Return /\ UNCHANGED <<phase, connection, profiles>>
     ELSE \/ /\ "lost" \in events
             /\ phase' = "ServerUnavailable"
             /\ Return
             /\ UNCHANGED <<connection, profiles>>
          \/ /\ phase' = IF tunnel = "Running" THEN "Connected" ELSE "Ready"
             /\ connection' = IF task.lease = None THEN None
                              ELSE Connection(task.lease, task.status)
             /\ saved_connection' = IF \/ connection' = None \/ connection'.pinned
                                       \/ saved_connection = None
                                       \/ saved_connection.lease = task.lease
                                    THEN saved_connection ELSE None
             /\ pinned_connection' = IF \/ connection' = None \/ ~connection'.pinned
                                        \/ pinned_connection = None
                                        \/ pinned_connection.lease = task.lease
                                     THEN pinned_connection ELSE None
             /\ UNCHANGED quarantine
             /\ IF /\ phase' = "Connected"
                   /\ connection' # None
                   /\ \A p \in {saved_connection', pinned_connection'} : p = None \/ p.lease # task.lease
                THEN Goto("restore") ELSE Return
  /\ UNCHANGED <<stop_requested, stale_result, owner_stop, pending_start,
                 pending_compensation_stop, pending_stalled_stop, tunnel, panel, history>>

RestoreConfiguration ==
  /\ At("restore")
  /\ Return
  /\ \E r \in StartReplies :
       /\ StartReplied(task.lease, leases[task.lease].template, r)
       /\ IF /\ r = task.lease
             /\ ~task.cancelled
             /\ phase = "Connected"
             /\ connection = Connection(task.lease, task.status)
          THEN CacheProfile(connection) ELSE UNCHANGED profiles
  /\ UNCHANGED <<phase, connection, stop_requested, stale_result, owner_stop, pending_start,
                 pending_compensation_stop, pending_stalled_stop, tunnel, history>>

\* CoreLocalStop: cancellation and presentation first, outside every gate
OwnerStop ==
  /\ "owner_stop" \in events
  /\ ~owner_stop
  /\ owner_stop' = TRUE
  /\ task' = Signalled(task)
  /\ phase' = "Stopping"
  /\ connection' = None
  /\ UNCHANGED <<stop_requested, stale_result, stored, tunnel, panel, history>>

\* then the tunnel; Ready after a transition, Error after a disconnect or a failure
OwnerStopTunnel ==
  /\ owner_stop
  /\ owner_stop' = FALSE
  /\ StopTunnel(phase' \in {"Ready", "Error"} /\ connection' = None,
                phase' = "Error" /\ UNCHANGED connection)
  /\ UNCHANGED <<task, stop_requested, stale_result, stored, panel, history>>

\* the platform tunnel ends on its own
TunnelDies ==
  /\ "dies" \in events
  /\ tunnel = "Running"
  /\ tunnel' \in {"Stopped", "Failed"}
  /\ UNCHANGED <<memory, stored, panel, history>>

\* mutant: the journal of a Stop lives in memory
Crash_LosesJournal ==
  /\ "crash" \in events
  /\ phase' = "SignedOut"
  /\ connection' = None
  /\ task' = None
  /\ pending_compensation_stop' = None
  /\ stop_requested' = {}
  /\ stale_result' = FALSE
  /\ owner_stop' = FALSE
  /\ quarantine' = {}
  /\ UNCHANGED <<pending_start, pending_stalled_stop, saved_connection, pinned_connection, tunnel,
                 panel, history>>

\* the process ends and starts again; what is durable and the tunnel service stay
Crash ==
  /\ "crash" \in events
  /\ phase' = "SignedOut"
  /\ connection' = None
  /\ task' = None
  /\ stop_requested' = {}
  /\ stale_result' = FALSE
  /\ owner_stop' = FALSE
  /\ quarantine' = {}
  /\ UNCHANGED <<pending_start, pending_compensation_stop, pending_stalled_stop, saved_connection,
                 pinned_connection, tunnel, panel, history>>

-----------------------------------------------------------------------------

Init ==
  /\ phase = "Ready"
  /\ connection = None
  /\ task = None
  /\ stop_requested = {}
  /\ stale_result = FALSE
  /\ owner_stop = FALSE
  /\ pending_start = None
  /\ pending_compensation_stop = None
  /\ pending_stalled_stop = None
  /\ saved_connection = None
  /\ pinned_connection = None
  /\ quarantine = {}
  /\ tunnel = "Stopped"
  /\ leases = [l \in Leases |-> [status |-> "Free", template |-> None, pinned |-> FALSE]]
  /\ operations = [o \in Ops |-> "Absent"]
  /\ cancel_requested = {}
  /\ delayed = {}
  /\ issued = {}
  /\ events \in Scenarios

Start == \/ \E t \in OfferedTemplates : BeginStart(t, OfferedContract)
         \/ PrepareExplicitStart \/ StartAdmitted \/ StartLocked \/ ReleaseStaleConnection
         \/ JournalStart \/ DispatchStart \/ StartFailed \/ StartGranted \/ StartTunnel
         \/ WaitForHandshake \/ RebindUdp \/ FinishStart

CompensateFailedStart == CompensateJournal \/ CompensateLocal \/ CompensatePanel \/ CompensateClear

Stopping == \/ StopLocally \/ StopLocallyTunnel \/ RetryPendingStop \/ StopForShutdown \/ Stop
            \/ StopInternalLocal \/ StopInternalPanel \/ StopReturns
            \/ ResumeCompensationStop \/ ReplayCompensationStop \/ CompensationReplayed
            \/ CancelPendingStart \/ CancelUnknownLegacyStart \/ StopUnknownPendingLease

Recovery == \/ BeginReconcile \/ ReconcileStart \/ ReconcileStalledStop
            \/ ReplaceStalledConnection \/ CompensateStaleResult

Environment == \/ UserStop \/ ShutdownSignal \/ OwnerStop \/ OwnerStopTunnel \/ PollState \/ TunnelDies \/ Crash
               \/ \E l \in Leases : PanelExpires(l)
               \/ \E r \in delayed : DelayedStartArrives(r)

OfflineStart == \/ BeginOfflineStart \/ OfflineStartAdmitted \/ OfflineStartTunnel
                \/ OfflineTunnelStarted \/ OfflineHandshaken \/ PublishOfflineStart

Profiles == \/ \E kind \in {"pin", "unpin"} : BeginPin(kind)
            \/ PinRequest \/ PinStray \/ UnpinStray \/ BeginBindingChange \/ CompleteUnbind

Bootstrap == BeginBootstrap \/ CompleteBootstrap \/ RestoreConfiguration

Next == \/ Start \/ CompensateFailedStart \/ Stopping \/ Recovery \/ OfflineStart \/ Profiles
        \/ Bootstrap \/ Environment

Spec == Init /\ [][Next]_vars

\* the steps of the operation in progress
Step == \/ PrepareExplicitStart \/ StartAdmitted \/ StartLocked \/ ReleaseStaleConnection
        \/ JournalStart \/ DispatchStart \/ StartFailed \/ StartGranted \/ StartTunnel
        \/ WaitForHandshake \/ RebindUdp \/ FinishStart \/ CompensateFailedStart \/ StopLocallyTunnel \/ Stop
        \/ StopInternalLocal \/ StopInternalPanel \/ StopReturns
        \/ ResumeCompensationStop \/ ReplayCompensationStop \/ CompensationReplayed
        \/ CancelPendingStart \/ CancelUnknownLegacyStart \/ StopUnknownPendingLease
        \/ ReconcileStart \/ ReconcileStalledStop \/ CompleteBootstrap \/ RestoreConfiguration
        \/ OfflineStartAdmitted \/ OfflineStartTunnel \/ OfflineTunnelStarted \/ OfflineHandshaken
        \/ PublishOfflineStart \/ PinRequest \/ PinStray \/ UnpinStray \/ CompleteUnbind

\* the panel confirms a Stop that is sent again and again
StopConfirmed ==
  /\ pending_compensation_stop # None
  /\ StopInternalPanel \/ ReplayCompensationStop
  /\ task' # None
  /\ Finished(pending_compensation_stop.failure, pending_compensation_stop.accept_warm, task'.status)

Fairness == /\ WF_vars(Step)
            /\ SF_vars(StopLocally)
            /\ SF_vars(RetryPendingStop)
            /\ SF_vars(StopConfirmed)

FairSpec == Spec /\ Fairness

-----------------------------------------------------------------------------

Connections == [lease : Leases, status : Statuses, template : Templates, pinned : BOOLEAN]

\* The state stays within the types of CoreState and RuntimeStateV1: in particular
\* a pending Start always names an operation, and a journaled Stop a lease.
TypeOK ==
  /\ phase \in Phases
  /\ connection \in Connections \cup {None}
  /\ task = None \/ /\ task.template \in Templates \cup {None}
                    /\ task.op \in OpIds \cup {None}
                    /\ task.lease \in Leases \cup {None}
  /\ stop_requested \subseteq {"user", "shutdown"}
  /\ {stale_result, owner_stop} \subseteq BOOLEAN
  /\ pending_start \in [op : OpIds, template : Templates, contract : Contracts,
                        cancelling : BOOLEAN] \cup {None}
  /\ pending_compensation_stop \in [lease : Leases, accept_warm : BOOLEAN,
                                    failure : {"handshake", None}] \cup {None}
  /\ pending_stalled_stop \in Leases \cup {None}
  /\ saved_connection \in [lease : Leases, template : Templates] \cup {None}
  /\ pinned_connection \in [lease : Leases, template : Templates, timed_out : BOOLEAN] \cup {None}
  /\ quarantine \subseteq Leases
  /\ tunnel \in {"Stopped", "Running", "Failed"}
  /\ leases \in [Leases -> [status : Statuses \cup {"Free"}, template : Templates \cup {None},
                         pinned : BOOLEAN]]
  /\ operations \in [Ops -> Leases \cup {"Absent", "Cancelled"}]
  /\ cancel_requested \subseteq Ops
  /\ delayed \subseteq [op : Ops, template : Templates]
  /\ issued \subseteq Ops
  /\ events \in Scenarios

LeaseOf(op) == IF op \in Leases THEN op ELSE operations[op]

\* nothing of the Start operation is left to be settled: it was never sent, the
\* panel refused it or was told to, its lease has ended, or it is the connection
Settled(op) ==
  LET lease == LeaseOf(op)
  IN  \/ lease = "Cancelled"
      \/ lease = "Absent" /\ \A r \in delayed : r.op # op
      \/ lease \in Leases /\ (leases[lease].status # "Connected" \/ Connection(lease, "Connected") = connection)

\* a lease other than the one of the pending Start is held
OtherLeaseHeld ==
  \/ connection # None /\ connection.lease # LeaseOf(pending_start.op)
  \/ pending_compensation_stop # None
     /\ pending_compensation_stop.lease # LeaseOf(pending_start.op)

ForgetsStart(op) ==
  /\ pending_start # None /\ pending_start.op = op
  /\ pending_start' = None \/ pending_start'.op # op

\* While no other lease is in the way, the operation id of a Start leaves durable
\* storage only when nothing of it is left on the panel: no live lease that is not
\* the connection, and no request still on its way (start_internal, stop and
\* cancel_pending_start with lost answers, late requests and crashes).
UnresolvedStartIsKept ==
  [][\A op \in Ops : ForgetsStart(op) /\ ~OtherLeaseHeld => Settled(op)']_vars

\* A journaled Stop is forgotten only when the panel has ended its lease the way
\* the journal asks for (pending_compensation_stop across compensation, replay,
\* crashes and stale results).
CompensationIsKept ==
  [][LET journal == pending_compensation_stop
     IN  journal # None /\ pending_compensation_stop' # journal
           => Finished(journal.failure, journal.accept_warm, leases'[journal.lease].status)]_vars

\* While an operation that a Stop has cancelled is in progress, nothing brings the
\* phase to Connected: neither a late success of a Start nor a poll.
CancelledStartNeverConnects ==
  [][task # None /\ task.cancelled /\ phase # "Connected" => phase' # "Connected"]_vars

\* With no operation in progress, no Stop waiting and nothing journaled, Ready
\* means that the tunnel is not open (stop_internal, compensation, owner stop).
ReadyMeansStopped ==
  /\ TypeOK
  /\ task = None /\ ~owner_stop /\ stop_requested = {} /\ phase = "Ready" /\ pending_compensation_stop = None
     => tunnel # "Running"

\* The replacement of a stalled connection is requested only after the panel has
\* released the stalled lease; a warm one does not do (replace_stalled_connection).
ReplacementWaits ==
  At("dispatch") /\ task.kind = "replace" /\ task.failure = "stalled"
    => leases[task.lease].status = "Released"

\* The result of an attempt whose intent was retired is given up as handled only
\* when its tunnel is closed or the owner is closing it.
StaleResultIsUndone ==
  [][stale_result /\ ~stale_result' /\ phase' # "SignedOut" => tunnel' # "Running" \/ owner_stop']_vars

\* A journaled Stop whose lease is the connection, or with no connection at all,
\* is in the end confirmed and cleared, by the worker (retry_pending_stop), the
\* next Start or the recovery.
JournaledStopIsFinished ==
  /\ pending_compensation_stop # None
  /\ connection = None \/ connection.lease = pending_compensation_stop.lease
  ~> pending_compensation_stop = None

\* A user Stop is served: the tunnel is closed, whatever operation it interrupts
\* and whatever the panel answers.
StopIsServed == "user" \in stop_requested ~> tunnel # "Running"
=============================================================================
