----------------------------- MODULE SplitTunnel -----------------------------
(***************************************************************************)
(* Split tunnelling in the client core (crates/client-core/split_tunnel):  *)
(* the policy the panel publishes is cached, turned into tunnel options,   *)
(* applied to the running tunnel by a restart that rolls back once, and    *)
(* its outcome is reported.  A change of the physical network and a        *)
(* stalled data plane restart the tunnel with the options it already has.  *)
(*                                                                         *)
(* Policy jobs, network polls, local recovery, Start and Stop exclude each *)
(* other (split_tunnel_gate, then connection_gate).  Three things do not   *)
(* wait for the gate: a cancellation moves the epoch, a bootstrap observes *)
(* the tunnel and restores the options, and the process may die.  The      *)
(* tunnel belongs to the privileged helper, or to the Android service, and *)
(* survives the client.                                                    *)
(***************************************************************************)
EXTENDS Integers, FiniteSets

CONSTANTS
  Policies,   \* policies: [hash, routes, domain, enabled, valid]
  Addrs,      \* what a domain may resolve to
  Networks,   \* physical networks
  Leases,
  None,
  SplitScenarios \* platforms and budgets

VARIABLES
  platform,   \* "linux", "windows", "android" (13 or newer), "android12"
  panel,      \* the policy, the forced revision and the results it was told
  store,      \* the split tunnel state on disk
  core,       \* phase, connection, cancellation epoch, saved configuration
  running,    \* RunningSplitTunnelOptions
  detector,   \* PhysicalNetworkChangeDetector
  native,     \* the tunnel
  network,    \* the physical network
  job,        \* the operation that holds the gates
  restore,    \* the bootstrap in progress
  left        \* what may still happen, and the policies and leases of the panel

split_vars == <<platform, panel, store, core, running, detector, native, network,
                job, restore, left>>

Hashes == {p.hash : p \in Policies}

Options == [hash : Hashes \cup {None}, routes : {p.routes : p \in Policies} \cup {None},
            addrs : Addrs \cup {None}, local : BOOLEAN]

DefaultOptions == [hash |-> None, routes |-> None, addrs |-> None, local |-> FALSE]

Results == [hash : Hashes, status : {"applied", "rolled_back", "failed"}]

(* Times are kept as what is asked of them: whether the revision was       *)
(* checked in the last five minutes, the policy fetched within the day,    *)
(* and whether the failed policy still waits for its hour.                 *)
States == [cached : Policies \cup {None}, previous : Policies \cup {None},
           working : Hashes \cup {None}, failed : Hashes \cup {None}, cooling : BOOLEAN,
           checked : BOOLEAN, fresh : BOOLEAN, forced : 0..1, domains : Addrs \cup {None},
           fingerprint : Networks \cup {None}, pending : SUBSET Results]

EmptyState == [cached |-> None, previous |-> None, working |-> None, failed |-> None,
               cooling |-> FALSE, checked |-> FALSE, fresh |-> FALSE, forced |-> 0,
               domains |-> None, fingerprint |-> None, pending |-> {}]

(* `restored` marks options that a bootstrap took from the state. *)
Unavailable == [options |-> DefaultOptions, lease |-> None, epoch |-> 0, confirmed |-> FALSE,
                restored |-> FALSE]

NoDetector == [applied |-> None, candidate |-> None, deferred |-> FALSE, reconnect |-> FALSE]

NoTunnel == [up |-> FALSE, pair |-> FALSE, lease |-> None, options |-> DefaultOptions, network |-> None]

NoJob == [pc |-> "idle", kind |-> "sync", state |-> EmptyState, policy |-> None, epoch |-> 0,
          lease |-> None, session |-> FALSE, owned |-> FALSE, new |-> DefaultOptions,
          previous |-> DefaultOptions, domains |-> None, rolled |-> None, confirmed |-> FALSE,
          answer |-> "ok", status |-> "applied", retried |-> FALSE, configured |-> FALSE, seen |-> None]

NoRestore == [pc |-> "idle", epoch |-> 0, up |-> FALSE, lease |-> None, session |-> FALSE,
              state |-> EmptyState]

SplitInit ==
  \E s \in SplitScenarios :
    /\ platform = s.platform
    /\ left = [changes |-> s.changes, faults |-> s.faults, stops |-> s.stops, starts |-> s.starts,
               deaths |-> s.deaths, bootstraps |-> s.bootstraps, moves |-> s.moves, pair |-> s.pair,
               saves |-> s.saves, offers |-> s.offers, leases |-> s.leases]
    /\ panel \in [policy : {p \in s.offers : p.valid}, force : {0}, reported : {{}}]
    /\ store = EmptyState
    /\ core = [phase |-> "Ready", lease |-> None, session |-> FALSE, epoch |-> 0, saved |-> None,
               stop |-> FALSE]
    /\ running = Unavailable /\ detector = NoDetector /\ native = NoTunnel
    /\ network = CHOOSE n \in Networks : TRUE
    /\ job = NoJob /\ restore = NoRestore

-----------------------------------------------------------------------------
(* Policies and options.                                                   *)

Desktop == platform \in {"linux", "windows"}

(* split_tunnel_active: Android 12 and older run every mode as a full tunnel. *)
Active(policy) == policy.enabled /\ platform # "android12"

(* resolve_policy_domains: Refresh asks again, ResolveMissing only without *)
(* cached addresses, CachedOnly never; a failed lookup keeps the last good *)
(* addresses, and a policy without the domain drops them.                  *)
Resolved(policy, domains, mode, answer) ==
  IF ~(Active(policy) /\ policy.domain) THEN None
  ELSE IF answer # None /\ (mode = "Refresh" \/ (mode = "ResolveMissing" /\ domains = None))
       THEN answer ELSE domains

(* An active policy needs addresses for its domain. *)
Buildable(policy, domains) == Active(policy) /\ policy.domain => domains # None

(* EffectiveSplitTunnelPolicy::build: an inactive policy has no hash. *)
Built(policy, domains) ==
  IF Active(policy)
  THEN [hash |-> policy.hash, routes |-> policy.routes, addrs |-> domains, local |-> Desktop]
  ELSE DefaultOptions

(* fallback_tunnel_options: Windows keeps the local networks outside. *)
Fallback == [DefaultOptions EXCEPT !.local = platform = "windows"]

(* has_same_effective_routes: the hash does not matter. *)
SameRoutes(a, b) == [a EXCEPT !.hash = None] = [b EXCEPT !.hash = None]

(* physical_network_tracking_active *)
Tracked(options) == options.hash # None /\ (options.local \/ options.routes # None)

Lookups == Addrs \cup {None}

Available(lease, epoch) == running.lease = lease /\ running.lease # None /\ running.epoch = epoch

Confirmed(options, lease, epoch) ==
  [options |-> options, lease |-> lease, epoch |-> epoch, confirmed |-> TRUE, restored |-> FALSE]

MarkFailure(state, policy) == [state EXCEPT !.failed = policy.hash, !.cooling = TRUE]

ClearFailure(state) == [state EXCEPT !.failed = None, !.cooling = FALSE]

(* remember_previous_working_policy *)
Remember(state) ==
  IF state.cached # None /\ state.cached.hash = state.working
  THEN [state EXCEPT !.previous = state.cached] ELSE state

(* working_policy *)
WorkingPolicy(state) ==
  IF state.working = None THEN None
  ELSE IF state.cached # None /\ state.cached.hash = state.working THEN state.cached
  ELSE IF state.previous # None /\ state.previous.hash = state.working THEN state.previous
  ELSE None

(* cached_policy_for_start: after a failure the policy that worked, or     *)
(* that last worked; otherwise the cached one.                             *)
CachedPolicyForStart(state) ==
  LET known == IF WorkingPolicy(state) # None THEN WorkingPolicy(state) ELSE state.previous IN
  IF state.cached # None /\ state.cached.hash = state.failed /\ known # None THEN known
  ELSE IF state.cached # None THEN state.cached ELSE state.previous

(* Applying the policy: bookkeeping of a success. *)
Worked(state, policy, domains) ==
  [ClearFailure(state) EXCEPT !.working = policy.hash, !.domains = domains]

-----------------------------------------------------------------------------
(* Steps of the environment.                                               *)

Fault == left.faults > 0 /\ left' = [left EXCEPT !.faults = @ - 1]

NoFault == UNCHANGED left

Idle == job.pc = "idle"

(* The panel publishes another policy or forces a revision. *)
PanelChanges ==
  /\ left.changes > 0 /\ left' = [left EXCEPT !.changes = @ - 1]
  /\ \/ \E p \in left.offers \ {panel.policy} : panel' = [panel EXCEPT !.policy = p]
     \/ panel.force = 0 /\ panel' = [panel EXCEPT !.force = 1]
  /\ UNCHANGED <<platform, store, core, running, detector, native, network, job, restore>>

(* The device moves to another physical network. *)
NetworkChanges ==
  /\ left.moves > 0 /\ left' = [left EXCEPT !.moves = @ - 1]
  /\ network' \in Networks \ {network}
  /\ UNCHANGED <<platform, panel, store, core, running, detector, native, job, restore>>

(* Five minutes, an hour or a day between two operations. *)
TimePasses(span) ==
  /\ Idle /\ restore.pc = "idle" /\ UNCHANGED left
  /\ store' = [store EXCEPT !.checked = FALSE, !.cooling = @ /\ span = "minutes", !.fresh = @ /\ span # "day"]
  /\ detector' = [detector EXCEPT !.deferred = FALSE]
  /\ <<store, detector>>' # <<store, detector>>
  /\ UNCHANGED <<platform, panel, core, running, native, network, job, restore>>

(* The client dies; the tunnel does not. *)
ClientDies ==
  /\ left.deaths > 0 /\ left' = [left EXCEPT !.deaths = @ - 1]
  /\ core' = [core EXCEPT !.phase = "Starting", !.lease = None, !.session = FALSE, !.epoch = 0,
                         !.stop = FALSE]
  /\ running' = Unavailable /\ detector' = NoDetector
  /\ job' = NoJob /\ restore' = NoRestore
  /\ UNCHANGED <<platform, panel, store, native, network>>

(* signal_start_cancellation: Stop and logout, before any gate. *)
SignalStop ==
  /\ left.stops > 0 /\ left' = [left EXCEPT !.stops = @ - 1]
  /\ core.phase # "Starting"
  /\ core' = [core EXCEPT !.epoch = @ + 1, !.stop = TRUE]
  /\ UNCHANGED <<platform, panel, store, running, detector, native, network, job, restore>>

-----------------------------------------------------------------------------
(* Fetching the policy: synchronize_split_tunnel, save_split_tunnel_settings,
   add and remove_split_tunnel_address_rule.                                *)

Scheduled(kind) == kind \in {"sync", "force"}

(* Mutant: a result is dropped from the queue whether or not it was sent. *)
Flushed_All(state, sent) == [state EXCEPT !.pending = {}]

(* flush_pending_apply_results *)
Flushed(state, sent) == [state EXCEPT !.pending = @ \ sent]

(* The gate is taken, the state loaded and the queue of results flushed in *)
(* memory: a send that fails keeps its result.  A scheduled check within   *)
(* five minutes of the last one is skipped.                                *)
BeginPolicy(kind) ==
  /\ Idle /\ core.phase # "Starting"
  /\ kind = "sync" => ~store.checked
  /\ kind # "sync" => left.saves > 0
  /\ \E sent \in SUBSET store.pending :
       /\ sent # store.pending => left.faults > 0
       /\ left' = [left EXCEPT !.saves = IF kind = "sync" THEN @ ELSE @ - 1,
                               !.faults = IF sent = store.pending THEN @ ELSE @ - 1]
       /\ job' = [NoJob EXCEPT !.pc = "fetch", !.kind = kind, !.state = Flushed(store, sent)]
       /\ panel' = [panel EXCEPT !.reported = @ \cup sent]
  /\ UNCHANGED <<platform, store, core, running, detector, native, network, restore>>

(* The full policy is due: forced, none cached, a day old, or the panel's  *)
(* revision, address revision or forced revision is another one.           *)
FullSyncDue ==
  \/ job.kind # "sync" \/ job.state.cached = None \/ ~job.state.fresh
  \/ job.state.cached # panel.policy \/ panel.force > job.state.forced

(* policy_retry_due, for a connected tunnel whose policy is not the cached one. *)
RetryDue(state) ==
  /\ core.phase = "Connected" /\ core.lease # None
  /\ state.cached # None /\ state.working # state.cached.hash
  /\ state.failed = state.cached.hash => ~state.cooling

(* A validated policy replaces the cached one. *)
Cached(state, policy) ==
  LET remembered == Remember(state) IN
  [(IF state.failed = policy.hash THEN remembered ELSE ClearFailure(remembered)) EXCEPT
     !.cached = policy, !.fresh = TRUE, !.checked = TRUE, !.forced = panel.force]

(* Mutant: only a changed policy is applied. *)
NeedsApply_Changed(policy) == job.kind \in {"force", "rule"} \/ job.state.cached # policy

NeedsApply(policy) ==
  \/ job.kind \in {"force", "rule"} \/ job.state.cached # policy
  \/ job.state.working # policy.hash \/ (Scheduled(job.kind) /\ policy.domain)
  \/ (job.kind = "save" /\ core.phase = "Connected")

(* The revision says that nothing is new: the policy is applied again only *)
(* when it is due.                                                         *)
PolicyUnchanged ==
  /\ job.pc = "fetch" /\ ~FullSyncDue
  /\ LET state == [job.state EXCEPT !.checked = TRUE] IN
     \/ /\ RetryDue(state) /\ NoFault
        /\ job' = [job EXCEPT !.pc = "plan", !.state = state, !.policy = state.cached]
        /\ UNCHANGED store
     \/ /\ ~RetryDue(state) /\ NoFault /\ store' = state /\ job' = NoJob
  /\ UNCHANGED <<platform, panel, core, running, detector, native, network, restore>>

(* The panel cannot be reached, or refuses: only an outage is recorded, as *)
(* a check.  A change of settings may have reached the panel.              *)
PolicyUnreachable ==
  /\ job.pc = "fetch" /\ Fault /\ job' = NoJob
  /\ \/ UNCHANGED store
     \/ Scheduled(job.kind) /\ store' = [job.state EXCEPT !.checked = TRUE]
  /\ \/ UNCHANGED panel
     \/ ~Scheduled(job.kind) /\ panel' \in [policy : left.offers, force : {panel.force}, reported : {panel.reported}]
  /\ UNCHANGED <<platform, core, running, detector, native, network, restore>>

(* validate_split_tunnel_policy *)
Supported(policy) == policy.valid

(* The policy arrives; the user's own change is in it.  An unsupported one *)
(* leaves the cache alone.                                                 *)
PolicyFetched ==
  /\ job.pc = "fetch" /\ FullSyncDue
  /\ \E policy \in IF Scheduled(job.kind) THEN {panel.policy} ELSE left.offers :
       /\ panel' = [panel EXCEPT !.policy = policy]
       /\ \/ /\ ~Supported(policy) /\ NoFault /\ job' = NoJob
             /\ store' = IF Scheduled(job.kind) THEN [job.state EXCEPT !.checked = TRUE] ELSE store
          \/ /\ Supported(policy) /\ NoFault
             /\ store' = Cached(job.state, policy)
             /\ job' = IF NeedsApply(policy)
                       THEN [job EXCEPT !.pc = "plan", !.state = Cached(job.state, policy), !.policy = policy]
                       ELSE NoJob
          \/ /\ Supported(policy) /\ Fault /\ job' = NoJob /\ UNCHANGED store
  /\ UNCHANGED <<platform, core, running, detector, native, network, restore>>

-----------------------------------------------------------------------------
(* apply_policy_if_connected                                               *)

(* The epoch and the connection are captured; with no connection there is  *)
(* nothing to apply and the caller saves what it has.                      *)
CaptureConnection ==
  /\ job.pc = "plan" /\ NoFault
  /\ job' = IF core.phase = "Connected" /\ core.lease # None
            THEN [job EXCEPT !.pc = "build", !.epoch = core.epoch, !.lease = core.lease,
                             !.session = core.session, !.configured = core.saved = core.lease]
            ELSE [job EXCEPT !.pc = "save"]
  /\ UNCHANGED <<platform, panel, store, core, running, detector, native, network, restore>>

(* The new options and the ones to roll back to: the options the tunnel    *)
(* was started with, or what the working policy gives when they are not    *)
(* known.  Options that cannot be built count as a failure.                *)
BuildOptions ==
  /\ job.pc = "build"
  /\ \E answer \in Lookups :
       /\ IF answer = None /\ job.policy.domain THEN Fault ELSE NoFault
       /\ LET mode == IF job.kind = "save" THEN "CachedOnly" ELSE "Refresh"
              known == Available(job.lease, job.epoch)
              owned == job.session \/ native.pair
              working == WorkingPolicy(job.state)
              rebuilt == ~owned /\ ~known /\ working # None
              domains == Resolved(job.policy, job.state.domains, mode, answer)
              rolled == IF rebuilt
                        THEN Resolved(working, job.state.domains,
                                      IF mode = "CachedOnly" THEN mode ELSE "ResolveMissing", answer)
                        ELSE job.state.domains
          IN job' = IF ~Buildable(job.policy, domains) \/ (rebuilt /\ ~Buildable(working, rolled))
                    THEN [job EXCEPT !.pc = "save", !.state = MarkFailure(job.state, job.policy)]
                    ELSE [job EXCEPT !.pc = "fence", !.owned = owned,
                            !.new = Built(job.policy, domains), !.domains = domains,
                            !.previous = IF known THEN running.options
                                         ELSE IF rebuilt THEN Built(working, rolled)
                                         ELSE DefaultOptions,
                            !.rolled = rolled, !.confirmed = known /\ running.confirmed]
  /\ UNCHANGED <<platform, panel, store, core, running, detector, native, network, restore>>

Current == job.epoch = core.epoch

(* same_local_recovery_execution, of the connection now published. *)
SameExecution == core.lease = job.lease /\ core.session = job.session

(* The options in force are known to be those of the running tunnel, or    *)
(* the platform ignores them.                                              *)
Attested == job.confirmed \/ (platform = "android12" /\ SameRoutes(job.new, DefaultOptions))

(* retire_split_tunnel_confirmation, before the tunnel is replaced. *)
Retire == running' = [running EXCEPT !.confirmed = FALSE]

(* The fences under the connection gate, in order: a cancellation ends the *)
(* job without saving; another connection ends it; equal routes need no    *)
(* restart; a Windows tunnel that was started without a policy keeps its   *)
(* routes; a native pair applies the policy itself; a single tunnel is     *)
(* restarted, which needs its saved configuration and no new pair.         *)
FencePolicy ==
  /\ job.pc = "fence" /\ NoFault
  /\ LET failed == MarkFailure(job.state, job.policy) IN
     \/ ~Current /\ job' = NoJob /\ UNCHANGED running
     \/ /\ Current /\ ~(core.phase = "Connected" /\ SameExecution)
        /\ job' = [job EXCEPT !.pc = "save"] /\ UNCHANGED running
     \/ /\ Current /\ core.phase = "Connected" /\ SameExecution
        /\ \/ /\ ~job.owned /\ SameRoutes(job.new, job.previous) /\ Attested
              /\ job' = [job EXCEPT !.pc = "report", !.status = "applied",
                           !.state = Worked(@, job.policy, job.domains)]
              /\ UNCHANGED running
           \/ /\ ~job.owned /\ ~(SameRoutes(job.new, job.previous) /\ Attested)
              /\ \/ /\ job.previous.hash = None /\ job.previous.local
                    /\ job' = [job EXCEPT !.pc = "save"] /\ UNCHANGED running
                 \/ /\ ~(job.previous.hash = None /\ job.previous.local)
                    /\ IF native.pair THEN job' = NoJob /\ UNCHANGED running
                       ELSE IF job.configured
                       THEN job' = [job EXCEPT !.pc = "stop"] /\ Retire
                       ELSE /\ job' = [job EXCEPT !.pc = "tell", !.status = "failed", !.state = failed]
                            /\ UNCHANGED running
           \/ /\ job.owned
              /\ IF job.session
                 THEN job' = [job EXCEPT !.pc = "owned"] /\ Retire
                 ELSE /\ job' = [job EXCEPT !.pc = "report", !.status = "failed", !.state = failed]
                      /\ UNCHANGED running
  /\ UNCHANGED <<platform, panel, store, core, detector, native, network, restore>>

(* apply_owned_redundant_policy, in the native service: the pair is        *)
(* replaced, left alone, rolled back or lost; busy and refused start       *)
(* nothing.                                                                *)
OwnedApply ==
  /\ job.pc = "owned"
  /\ \E answer \in {"applied", "rolled_back", "failed", "busy", "refused"} :
       /\ IF answer = "applied" THEN NoFault ELSE Fault
       /\ native' = CASE answer = "applied" -> [native EXCEPT !.options = job.new]
                      [] answer = "failed" -> NoTunnel
                      [] OTHER -> native
       /\ job' = [job EXCEPT !.pc = "replied", !.answer = answer]
  /\ UNCHANGED <<platform, panel, store, core, running, detector, network, restore>>

(* What the reply leaves in the state: a busy pair is neither a success    *)
(* nor a failure, but what it runs is no longer known.                     *)
OwnedState(answer) ==
  CASE answer = "applied" -> [Worked(job.state, job.policy, job.domains) EXCEPT !.fingerprint = None]
    [] answer = "rolled_back" -> MarkFailure([job.state EXCEPT !.domains = job.rolled], job.policy)
    [] answer = "failed" -> MarkFailure([job.state EXCEPT !.fingerprint = None], job.policy)
    [] answer = "busy" -> [job.state EXCEPT !.working = None, !.fingerprint = None]
    [] OTHER -> MarkFailure(job.state, job.policy)

(* The reply, published only for the same execution (publish_owned_policy_state). *)
OwnedReplied ==
  /\ job.pc = "replied" /\ NoFault
  /\ IF Current /\ core.phase \in {"Connected", "Connecting"} /\ SameExecution
     THEN /\ core' = [core EXCEPT !.phase = IF native.up THEN "Connected" ELSE "Stopping"]
          /\ running' = CASE job.answer = "applied" -> Confirmed(job.new, job.lease, job.epoch)
                          [] job.answer \in {"rolled_back", "failed"} -> Unavailable
                          [] OTHER -> running
          /\ detector' = IF job.answer \in {"busy", "refused"} THEN detector ELSE NoDetector
          /\ job' = [job EXCEPT !.state = OwnedState(job.answer),
                       !.pc = IF job.answer = "busy" THEN "save" ELSE "report",
                       !.status = IF job.answer \in {"busy", "refused"} THEN "failed" ELSE job.answer]
     ELSE job' = NoJob /\ UNCHANGED <<core, running, detector>>
  /\ UNCHANGED <<platform, panel, store, native, network, restore>>

-----------------------------------------------------------------------------
(* Restarting the tunnel: for a policy, after a network change, after a    *)
(* stall.                                                                  *)

Applies == job.kind \notin {"poll", "stall", "start"}

Started(options) ==
  [up |-> TRUE, pair |-> FALSE, lease |-> job.lease, options |-> options, network |-> network]

(* ensure_offline_start_current for a job that was cancelled: what it may  *)
(* have started is stopped, and a failure to stop is published.            *)
Compensate ==
  \/ NoFault /\ native' = NoTunnel /\ UNCHANGED core
  \/ Fault /\ core' = [core EXCEPT !.phase = "Error", !.lease = None] /\ UNCHANGED native

(* initialize_physical_network_detector: the baseline is today's network;  *)
(* Android has no fingerprint.                                             *)
Fingerprint == IF Desktop THEN network ELSE None

Baseline(options) ==
  IF Tracked(options) THEN [NoDetector EXCEPT !.applied = Fingerprint] ELSE NoDetector

StopForRestart ==
  /\ job.pc = "stop"
  /\ \/ NoFault /\ native' = NoTunnel /\ job' = [job EXCEPT !.pc = "stopped", !.answer = "ok"]
     \/ /\ Fault /\ native' \in {native, NoTunnel}
        /\ job' = [job EXCEPT !.pc = "stopped", !.answer = "failed"]
  /\ UNCHANGED <<platform, panel, store, core, running, detector, network, restore>>

(* A policy: a stop that fails is a failed application, published by what  *)
(* is left of the tunnel.  A cancelled job just ends.                      *)
PolicyStopped ==
  /\ job.pc = "stopped" /\ Applies /\ NoFault
  /\ \/ ~Current /\ job' = NoJob /\ UNCHANGED core
     \/ /\ Current /\ job.answer = "ok"
        /\ core' = [core EXCEPT !.phase = "Connecting"]
        /\ job' = [job EXCEPT !.pc = "start"]
     \/ /\ Current /\ job.answer = "failed"
        /\ core' = [core EXCEPT !.phase = IF native.up THEN "Connected" ELSE "Stopping",
                                !.lease = job.lease, !.session = job.session]
        /\ job' = [job EXCEPT !.pc = "report", !.status = "failed",
                     !.state = MarkFailure(job.state, job.policy)]
  /\ UNCHANGED <<platform, panel, store, running, detector, native, network, restore>>

(* Recovery: a tunnel that is still there is left alone, and the network   *)
(* restart is put off; another connection ends the job with the tunnel     *)
(* stopped.                                                                *)
RecoveryStopped ==
  /\ job.pc = "stopped" /\ ~Applies
  /\ \/ ~Current /\ Compensate /\ job' = NoJob /\ UNCHANGED detector
     \/ /\ Current /\ NoFault /\ UNCHANGED native
        /\ \/ /\ job.answer = "ok" \/ (job.kind = "stall" /\ ~native.up)
              /\ core' = IF SameExecution THEN [core EXCEPT !.phase = "Connecting"] ELSE core
              /\ job' = IF SameExecution THEN [job EXCEPT !.pc = "start"] ELSE NoJob
              /\ UNCHANGED detector
           \/ /\ job.answer = "failed" /\ job.kind = "poll" /\ ~native.up
              /\ core' = IF SameExecution THEN [core EXCEPT !.phase = "Stopping"] ELSE core
              /\ detector' = IF SameExecution THEN NoDetector ELSE detector
              /\ job' = NoJob
           \/ /\ job.answer = "failed" /\ native.up
              /\ detector' = IF job.kind = "poll" THEN [detector EXCEPT !.deferred = TRUE] ELSE detector
              /\ job' = NoJob /\ UNCHANGED core
  /\ UNCHANGED <<platform, panel, store, running, network, restore>>

(* start_for_restart, with the new options or, to recover, the present ones. *)
StartForRestart ==
  /\ job.pc = "start"
  /\ \/ NoFault /\ native' = Started(job.new) /\ job' = [job EXCEPT !.pc = "started", !.answer = "ok"]
     \/ Fault /\ native' = NoTunnel /\ job' = [job EXCEPT !.pc = "started", !.answer = "failed"]
  /\ UNCHANGED <<platform, panel, store, core, running, detector, network, restore>>

(* The new options run, or the previous ones are tried. *)
PolicyStarted ==
  /\ job.pc = "started" /\ Applies
  /\ \/ ~Current /\ Compensate /\ job' = NoJob /\ UNCHANGED <<running, detector>>
     \/ /\ Current /\ NoFault /\ UNCHANGED <<native, core>>
        /\ IF job.answer = "ok"
           THEN /\ running' = Confirmed(job.new, job.lease, job.epoch)
                /\ detector' = Baseline(job.new)
                /\ job' = [job EXCEPT !.pc = "publish", !.status = "applied",
                             !.state = [Worked(@, job.policy, job.domains)
                                          EXCEPT !.fingerprint = Baseline(job.new).applied]]
           ELSE job' = [job EXCEPT !.pc = "rollback"] /\ UNCHANGED <<running, detector>>
  /\ UNCHANGED <<platform, panel, store, network, restore>>

(* Mutant: the tunnel is rolled back to the default routes. *)
RollbackOptions_Default == DefaultOptions

RollbackOptions == job.previous

(* The second start, with the options of before. *)
RollBack ==
  /\ job.pc = "rollback"
  /\ \/ NoFault /\ native' = Started(RollbackOptions) /\ job' = [job EXCEPT !.pc = "rolled", !.answer = "ok"]
     \/ Fault /\ native' = NoTunnel /\ job' = [job EXCEPT !.pc = "rolled", !.answer = "failed"]
  /\ UNCHANGED <<platform, panel, store, core, running, detector, network, restore>>

RolledBack ==
  /\ job.pc = "rolled"
  /\ \/ ~Current /\ Compensate /\ job' = NoJob /\ UNCHANGED <<running, detector>>
     \/ /\ Current /\ NoFault /\ UNCHANGED <<native, core>>
        /\ LET ok == job.answer = "ok"
               failed == MarkFailure(job.state, job.policy)
           IN /\ running' = IF ok THEN Confirmed(job.previous, job.lease, job.epoch) ELSE Unavailable
              /\ detector' = IF ok THEN Baseline(job.previous) ELSE NoDetector
              /\ job' = [job EXCEPT !.pc = "publish",
                           !.status = IF ok THEN "rolled_back" ELSE "failed",
                           !.state = IF ok THEN [failed EXCEPT !.domains = job.rolled,
                                                   !.fingerprint = Baseline(job.previous).applied]
                                     ELSE [failed EXCEPT !.fingerprint = None]]
  /\ UNCHANGED <<platform, panel, store, network, restore>>

(* publish_local_start_state *)
PublishPolicy ==
  /\ job.pc = "publish"
  /\ \/ ~Current /\ Compensate /\ job' = NoJob
     \/ /\ Current /\ NoFault /\ UNCHANGED native
        /\ core' = [core EXCEPT !.phase = IF job.status = "failed" THEN "Stopping" ELSE "Connected",
                                !.lease = job.lease, !.session = job.session]
        /\ job' = [job EXCEPT !.pc = "report"]
  /\ UNCHANGED <<platform, panel, store, running, detector, network, restore>>

Result == [hash |-> job.policy.hash, status |-> job.status]

(* report_policy_apply_outcome: the state is saved, then the result is     *)
(* sent, or queued in memory.  Without a configuration nothing was done    *)
(* and only the result is told.                                            *)
ReportOutcome ==
  /\ job.pc \in {"report", "tell"}
  /\ store' = IF job.pc = "report" THEN job.state ELSE store
  /\ \/ /\ NoFault /\ panel' = [panel EXCEPT !.reported = @ \cup {Result}]
        /\ job' = [job EXCEPT !.pc = "save"]
     \/ /\ Fault /\ job' = [job EXCEPT !.pc = "save", !.state.pending = @ \cup {Result}]
        /\ UNCHANGED panel
  /\ UNCHANGED <<platform, core, running, detector, native, network, restore>>

(* The caller saves the state; a save that fails is the caller's error. *)
SaveState ==
  /\ job.pc = "save" /\ job' = NoJob
  /\ \/ NoFault /\ store' = job.state
     \/ Fault /\ UNCHANGED store
  /\ UNCHANGED <<platform, panel, core, running, detector, native, network, restore>>

-----------------------------------------------------------------------------
(* Network changes and stalls.                                             *)

(* PhysicalNetworkChangeDetector::observe *)
Observation(seen) ==
  CASE detector.applied = None -> "baseline"
    [] detector.applied # None /\ detector.candidate = seen ->
         IF detector.deferred THEN "deferred" ELSE "confirmed"
    [] detector.applied # None /\ detector.candidate # seen /\ detector.applied = seen ->
         IF detector.reconnect THEN "confirmed" ELSE "unchanged"
    [] OTHER -> "pending"

Observed(seen) ==
  [detector EXCEPT !.reconnect = FALSE, !.deferred = Observation(seen) = "deferred",
     !.applied = IF @ = None THEN seen ELSE @,
     !.candidate = IF Observation(seen) \in {"baseline", "unchanged"} THEN None ELSE seen]

(* The options the tunnel has, to start it again with. *)
Restarts(kind) ==
  /\ job' = [NoJob EXCEPT !.pc = "stop", !.kind = kind, !.epoch = core.epoch, !.lease = core.lease,
                          !.session = core.session, !.new = running.options, !.seen = network]
  /\ Retire

Tracking == Available(core.lease, core.epoch) /\ Tracked(running.options)

(* poll_physical_network_guarded, up to the stop of the tunnel. *)
PollNetwork ==
  /\ Idle /\ core.phase # "Starting"
  /\ IF core.phase = "Connected" /\ core.lease # None
     THEN \/ /\ core.session \/ native.pair
             /\ NoFault /\ UNCHANGED <<detector, running, job>>
          \/ /\ ~core.session /\ ~native.pair
             /\ \/ /\ ~Tracking \/ Fingerprint = None
                   /\ NoFault /\ detector' = NoDetector /\ UNCHANGED <<running, job>>
                \/ /\ Tracking /\ Fingerprint # None /\ Fault
                   /\ detector' \in {detector, [detector EXCEPT !.reconnect = TRUE]}
                   /\ UNCHANGED <<running, job>>
                \/ /\ Tracking /\ Fingerprint # None /\ NoFault
                   /\ IF Observation(network) # "confirmed"
                      THEN detector' = Observed(network) /\ UNCHANGED <<running, job>>
                      ELSE IF core.saved # core.lease
                      THEN /\ detector' = [Observed(network) EXCEPT !.deferred = TRUE]
                           /\ UNCHANGED <<running, job>>
                      ELSE detector' = Observed(network) /\ Restarts("poll")
     ELSE NoFault /\ detector' = NoDetector /\ UNCHANGED <<running, job>>
  /\ UNCHANGED <<platform, panel, store, core, native, network, restore>>

(* recover_stalled_data_plane with RestartLocalTunnel. *)
RecoverStall ==
  /\ Idle /\ core.phase = "Connected" /\ core.lease # None
  /\ core.saved = core.lease /\ Available(core.lease, core.epoch)
  /\ Fault /\ Restarts("stall")
  /\ UNCHANGED <<platform, panel, store, core, detector, native, network, restore>>

(* The restart is tried once more; then the tunnel is given up, as it is   *)
(* when an AmneziaWG 3 tunnel does not shake hands after a stall.          *)
RecoveryStarted ==
  /\ job.pc = "started" /\ ~Applies
  /\ \/ ~Current /\ Compensate /\ job' = NoJob /\ UNCHANGED detector
     \/ /\ Current /\ NoFault /\ UNCHANGED native
        /\ \/ /\ job.answer = "ok" /\ job' = [job EXCEPT !.pc = "recovered"]
              /\ UNCHANGED <<core, detector>>
           \/ /\ job.answer = "failed" /\ ~job.retried
              /\ job' = [job EXCEPT !.pc = "start", !.retried = TRUE]
              /\ UNCHANGED <<core, detector>>
           \/ /\ job.answer = "failed" /\ job.retried /\ job' = NoJob
              /\ core' = IF SameExecution THEN [core EXCEPT !.phase = "Stopping"] ELSE core
              /\ detector' = IF job.kind = "poll" /\ SameExecution THEN NoDetector ELSE detector
     \/ /\ Current /\ job.answer = "ok" /\ job.kind = "stall" /\ Fault
        /\ native' \in {native, NoTunnel} /\ job' = NoJob
        /\ core' = IF SameExecution THEN [core EXCEPT !.phase = "Stopping"] ELSE core
        /\ UNCHANGED detector
  /\ UNCHANGED <<platform, panel, store, running, network, restore>>

(* publish_recovered_split_tunnel_state: the options are confirmed for the *)
(* same execution only; otherwise what was started is stopped.             *)
PublishRecovered ==
  \/ ~Current /\ Compensate /\ UNCHANGED running
  \/ /\ Current /\ ~SameExecution /\ running' = Unavailable
     /\ \/ NoFault /\ native' = NoTunnel /\ core' = [core EXCEPT !.phase = "Stopping"]
        \/ Fault /\ UNCHANGED native /\ core' = [core EXCEPT !.phase = "Error"]
  \/ /\ Current /\ SameExecution /\ NoFault /\ UNCHANGED native
     /\ running' = Confirmed(job.new, job.lease, job.epoch)
     /\ core' = [core EXCEPT !.phase = "Connected"]

(* A network restart makes the network it saw the baseline, in a state     *)
(* loaded again.                                                           *)
Recovered ==
  /\ job.pc = "recovered" /\ job' = NoJob
  /\ PublishRecovered
  /\ IF job.kind = "poll" /\ Current /\ SameExecution
     THEN /\ detector' = [NoDetector EXCEPT !.applied = job.seen]
          /\ store' = [store EXCEPT !.fingerprint = job.seen]
     ELSE UNCHANGED <<detector, store>>
  /\ UNCHANGED <<platform, panel, network, restore>>

-----------------------------------------------------------------------------
(* Start, Stop and logout, as far as they concern split tunnelling.        *)

(* The options of a start: of the cached policy, or of the one that worked *)
(* when the cached one failed; without a policy the fallback.  The domains *)
(* looked up are saved at once.                                            *)
PrepareStart ==
  /\ Idle /\ core.phase \in {"Ready", "Stopping", "Error"} /\ ~core.stop
  /\ left.starts > 0
  /\ \E answer \in Lookups, lease \in left.leases :
       LET policy == CachedPolicyForStart(store)
           domains == IF policy = None THEN store.domains ELSE Resolved(policy, store.domains, "Refresh", answer)
       IN /\ left' = [left EXCEPT !.starts = @ - 1]
          /\ answer = None => (policy # None /\ policy.domain)
          /\ store' = [store EXCEPT !.domains = domains]
          /\ IF policy # None /\ ~Buildable(policy, domains) THEN UNCHANGED <<job, core>>
             ELSE /\ job' = [NoJob EXCEPT !.pc = "dispatch", !.kind = "start", !.policy = policy,
                               !.epoch = core.epoch, !.lease = lease, !.session = left.pair,
                               !.new = IF policy = None THEN Fallback ELSE Built(policy, domains)]
                  /\ core' = [core EXCEPT !.phase = "Connecting", !.lease = lease, !.session = left.pair]
  /\ UNCHANGED <<platform, panel, running, detector, native, network, restore>>

DispatchStart ==
  /\ job.pc = "dispatch"
  /\ \/ /\ NoFault /\ native' = [Started(job.new) EXCEPT !.pair = left.pair]
        /\ job' = [job EXCEPT !.pc = "dispatched"] /\ UNCHANGED core
     \/ /\ Fault /\ native' = NoTunnel /\ job' = NoJob
        /\ core' = [core EXCEPT !.phase = "Ready", !.lease = None, !.session = FALSE]
  /\ UNCHANGED <<platform, panel, store, running, detector, network, restore>>

(* record_started_split_tunnel_policy: only a policy with options counts   *)
(* as working and is reported, from the queue.                             *)
Recorded(state) ==
  IF job.policy = None THEN [state EXCEPT !.fingerprint = None]
  ELSE IF job.new.hash = None THEN [state EXCEPT !.fingerprint = Baseline(job.new).applied]
  ELSE [Remember(state) EXCEPT !.fingerprint = Baseline(job.new).applied, !.working = job.policy.hash,
          !.pending = @ \cup {[hash |-> job.policy.hash, status |-> "applied"]}]

(* The tunnel runs: the connection is published unless it was cancelled,   *)
(* the options are confirmed, the policy recorded.                         *)
RecordStart ==
  /\ job.pc = "dispatched" /\ job' = NoJob
  /\ \/ /\ ~Current /\ NoFault /\ native' = NoTunnel
        /\ core' = [core EXCEPT !.phase = "Stopping"]
        /\ UNCHANGED <<running, detector, store>>
     \/ /\ Current /\ UNCHANGED native
        /\ core' = [core EXCEPT !.phase = "Connected", !.lease = job.lease, !.session = job.session,
                                !.saved = IF left.pair THEN None ELSE job.lease]
        /\ running' = Confirmed(job.new, job.lease, job.epoch)
        /\ detector' = Baseline(job.new)
        /\ \/ NoFault /\ store' = Recorded(store)
           \/ Fault /\ UNCHANGED store
  /\ UNCHANGED <<platform, panel, network, restore>>

(* stop_locally, once it has the gates. *)
StopLocally ==
  /\ Idle /\ core.stop
  /\ \/ /\ NoFault /\ native' = NoTunnel /\ detector' = NoDetector
        /\ core' = [core EXCEPT !.phase = "Ready", !.lease = None, !.session = FALSE, !.stop = FALSE]
        /\ store' = [store EXCEPT !.fingerprint = None]
     \/ /\ Fault /\ core' = [core EXCEPT !.phase = "Stopping", !.stop = FALSE]
        /\ UNCHANGED <<native, detector, store>>
  /\ UNCHANGED <<platform, panel, running, network, job, restore>>

(* reset_split_tunnel_state, at logout and when the account is replaced. *)
ResetState ==
  /\ Idle /\ core.phase = "Ready" /\ ~core.stop /\ store # EmptyState
  /\ left.saves > 0 /\ left' = [left EXCEPT !.saves = @ - 1]
  /\ store' = EmptyState /\ running' = Unavailable /\ detector' = NoDetector
  /\ UNCHANGED <<platform, panel, core, native, network, job, restore>>

-----------------------------------------------------------------------------
(* Bootstrap: complete_bootstrap and restore_running_split_tunnel_options. *)

(* The panel answered and the tunnel's status was read.  The panel may     *)
(* name another lease than the one that runs, or a pair without session.   *)
ObserveTunnel ==
  /\ restore.pc = "idle"
  /\ left.bootstraps > 0 \/ core.phase = "Starting"
  /\ \E lease \in left.leases \cup {None}, session \in BOOLEAN :
       /\ native.up => lease # None
       /\ ~native.up => lease = None /\ ~session
       /\ session => native.pair
       /\ native.up /\ (lease # native.lease \/ session # native.pair) => left.faults > 0
       /\ left' = [left EXCEPT !.bootstraps = IF core.phase = "Starting" THEN @ ELSE @ - 1,
                     !.faults = IF native.up /\ (lease # native.lease \/ session # native.pair) THEN @ - 1 ELSE @]
       /\ restore' = [pc |-> "observed", epoch |-> core.epoch, up |-> native.up, lease |-> lease,
                      session |-> session, state |-> EmptyState]
  /\ UNCHANGED <<platform, panel, store, core, running, detector, native, network, job>>

(* What was read is published unless the epoch moved.  The configuration   *)
(* of another lease is dropped, and that of a single tunnel fetched again. *)
PublishObservation ==
  /\ restore.pc = "observed"
  /\ IF restore.epoch # core.epoch THEN NoFault /\ restore' = NoRestore /\ UNCHANGED core
     ELSE /\ restore' = [restore EXCEPT !.pc = IF restore.up THEN "fence" ELSE "flush"]
          /\ \E saved \in {core.saved, restore.lease, None} :
               /\ saved # None => saved = restore.lease
               /\ saved = None => ~restore.up \/ core.saved # restore.lease
               /\ IF saved = None /\ restore.up /\ ~native.pair THEN Fault ELSE NoFault
               /\ core' = [core EXCEPT !.phase = IF restore.up THEN "Connected" ELSE "Ready",
                                       !.lease = restore.lease, !.session = restore.session,
                                       !.saved = IF restore.up THEN saved ELSE @]
  /\ UNCHANGED <<platform, panel, store, running, detector, native, network, job>>

(* The fences of restore_running_split_tunnel_options. *)
Restorable ==
  /\ restore.epoch = core.epoch /\ core.phase = "Connected"
  /\ core.lease = restore.lease /\ core.session = restore.session
  /\ ~(running.confirmed /\ Available(restore.lease, restore.epoch))

(* Options that nothing confirms are forgotten, and the state loaded,      *)
(* without the gate.                                                       *)
BeginRestore ==
  /\ restore.pc = "fence" /\ NoFault
  /\ IF Restorable
     THEN running' = Unavailable /\ restore' = [restore EXCEPT !.pc = "resolve", !.state = store]
     ELSE restore' = [restore EXCEPT !.pc = "flush"] /\ UNCHANGED running
  /\ UNCHANGED <<platform, panel, store, core, detector, native, network, job>>

(* Only a desktop's tunnel is taken to run what the state says. *)
RestoredIsConfirmed == Desktop

(* The options of the working policy, or the fallback, after the domains   *)
(* were looked up; the state loaded before is saved with them.             *)
RestoreOptions ==
  /\ restore.pc = "resolve" /\ NoFault
  /\ restore' = [NoRestore EXCEPT !.pc = "flush"]
  /\ LET working == WorkingPolicy(restore.state) IN
     \E answer \in IF working # None /\ working.domain /\ restore.state.domains = None THEN Lookups ELSE {None} :
       LET domains == IF working = None THEN None
                      ELSE Resolved(working, restore.state.domains, "ResolveMissing", answer)
           options == IF working = None THEN Fallback ELSE Built(working, domains)
           known == working = None \/ Buildable(working, domains)
       IN /\ store' = IF working = None THEN store ELSE [restore.state EXCEPT !.domains = domains]
          /\ IF known /\ Restorable
             THEN /\ running' = [options |-> options, lease |-> restore.lease, epoch |-> restore.epoch,
                                 confirmed |-> RestoredIsConfirmed, restored |-> TRUE]
                  /\ detector' = IF ~Tracked(options) THEN NoDetector
                                 ELSE [NoDetector EXCEPT !.applied = IF restore.state.fingerprint # None
                                                                     THEN restore.state.fingerprint
                                                                     ELSE "unknown"]
             ELSE UNCHANGED <<running, detector>>
  /\ UNCHANGED <<platform, panel, core, native, network, job>>

(* retry_pending_split_tunnel_results, behind the gate. *)
RetryPending ==
  /\ restore.pc = "flush" /\ Idle /\ restore' = NoRestore
  /\ \E sent \in SUBSET store.pending :
       /\ IF sent = store.pending THEN NoFault ELSE Fault
       /\ store' = Flushed(store, sent)
       /\ panel' = [panel EXCEPT !.reported = @ \cup sent]
  /\ UNCHANGED <<platform, core, running, detector, native, network, job>>

-----------------------------------------------------------------------------
SplitJobs ==
  \/ PolicyUnchanged \/ PolicyUnreachable \/ PolicyFetched \/ CaptureConnection \/ BuildOptions
  \/ FencePolicy \/ OwnedApply \/ OwnedReplied \/ StopForRestart \/ PolicyStopped
  \/ StartForRestart \/ PolicyStarted \/ RollBack \/ RolledBack \/ PublishPolicy
  \/ ReportOutcome \/ SaveState \/ RecoveryStopped
  \/ RecoveryStarted \/ Recovered \/ DispatchStart \/ RecordStart

SplitNext ==
  \/ \E kind \in {"sync", "force", "save", "rule"} : BeginPolicy(kind)
  \/ SplitJobs \/ PollNetwork \/ RecoverStall \/ PrepareStart \/ StopLocally \/ ResetState
  \/ ObserveTunnel \/ PublishObservation \/ BeginRestore \/ RestoreOptions \/ RetryPending
  \/ PanelChanges \/ NetworkChanges \/ ClientDies \/ SignalStop
  \/ \E span \in {"minutes", "hour", "day"} : TimePasses(span)

SplitSpec == SplitInit /\ [][SplitNext]_split_vars

(* An operation that has the gates goes on, the scheduler checks the       *)
(* revision again and again, and a bootstrap ends; nobody has to start,    *)
(* stop or poll.                                                           *)
SplitFairness ==
  /\ WF_split_vars(SplitJobs) /\ WF_split_vars(BeginPolicy("sync")) /\ SF_split_vars(TimePasses("day"))
  /\ WF_split_vars(PublishObservation) /\ WF_split_vars(BeginRestore) /\ WF_split_vars(RestoreOptions)
  /\ SF_split_vars(RetryPending)

-----------------------------------------------------------------------------
(* Properties.                                                             *)

(* The shape of the stored state and of the options.                       *)
SplitTypeOK ==
  /\ store \in States /\ job.state \in States
  /\ native.options \in Options /\ running.options \in Options /\ job.new \in Options
  /\ core.phase \in {"Starting", "Ready", "Connecting", "Connected", "Stopping", "Error"}
  /\ core.lease \in Leases \cup {None} /\ panel.policy \in Policies /\ panel.reported \subseteq Results

(* The options the client calls confirmed are the options of the running   *)
(* tunnel: whatever was restarted, rolled back or overtaken, a policy that *)
(* needs no other routes is never taken as applied on the strength of      *)
(* options that do not run.  What a desktop restored from its state after  *)
(* a restart is not held to this: the state may be older than the tunnel.  *)
ConfirmedOptionsRun ==
  /\ SplitTypeOK
  /\ /\ Idle /\ core.phase = "Connected" /\ native.up
     /\ running.confirmed /\ Available(core.lease, core.epoch)
     /\ Desktop => ~running.restored
     => native.options = running.options

(* A queued result leaves the queue when the panel has it, or with the     *)
(* account; a bootstrap that saves the state it loaded before is not held  *)
(* to this.                                                                *)
QueuedResultIsDelivered ==
  [][restore.pc # "resolve" \/ restore'.pc = "resolve" =>
       \A r \in store.pending : r \in store'.pending \/ r \in panel'.reported \/ store' = EmptyState]_split_vars

(* The panel's policy runs, or cannot: it is unsupported, the tunnel was   *)
(* started without a policy on Windows, its configuration is not at hand,  *)
(* or it is being stopped.                                                 *)
Follows ==
  IF Active(panel.policy) THEN native.options.routes = panel.policy.routes ELSE native.options.routes = None

Excused ==
  \/ ~panel.policy.valid \/ core.stop \/ ~native.up
  \/ native.options.hash = None /\ native.options.local
  \/ IF native.pair THEN ~core.session ELSE core.saved # core.lease

(* A connected tunnel gets the panel's policy: whatever failed, was rolled *)
(* back, queued, restored or overtaken on the way, the scheduler's checks  *)
(* bring it there.                                                         *)
PolicyConverges == []<>(core.phase = "Connected" => Follows \/ Excused)

SplitFairSpec == SplitSpec /\ SplitFairness

=============================================================================
