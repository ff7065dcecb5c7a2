--------------------------- MODULE TunnelBackend ---------------------------
(***************************************************************************)
(* The engine process of the privileged helper: the tunnel backends of     *)
(* Linux, macOS and Windows and the journals that let a later engine undo  *)
(* what a dead one left behind.                                            *)
(*                                                                         *)
(* An engine executes one task at a time.  A task is a sequence of steps   *)
(* (`todo`), one for each change the code makes to the system or to a      *)
(* file; the engine may be killed between any two of them.  A step that    *)
(* removes or adds several routes succeeds for some and fails for others,  *)
(* and a write may fail: both cost one of the `faults` the scenario        *)
(* grants.  A kill in the middle of such a step leaves the system as one   *)
(* of these partial outcomes does.                                         *)
(*                                                                         *)
(* Errors are what the Result of the step is to its caller: a stop collects *)
(* the first error and goes on, a start unwinds, a new engine gives up.    *)
(***************************************************************************)
EXTENDS Naturals, Sequences, FiniteSets, SequencesExt

CONSTANTS
  Routes,    \* the direct routes of an address exclusion plan
  Endpoint,  \* the protected host route of an AmneziaWG peer (Windows)
  Rules,     \* the policy routing entries of a userspace tunnel (Linux)
  None

VARIABLES
  platform,  \* "linux", "macos" or "windows"
  kernel,    \* the system: route table, policy rules, interfaces, DNS
  disk,      \* the helper's files
  engine,    \* the engine process
  faults,    \* how many more commands or writes may fail
  lost       \* what the code itself lost track of (see StrayDaemon and others)

backend_vars == <<platform, kernel, disk, engine, faults, lost>>

Transports == {"wireguard", "amneziawg"}
AllRoutes == Routes \cup {Endpoint}

Kernel == [table : [AllRoutes -> {"free", "ours", "foreign"}],
           rules : SUBSET Rules,
           up : SUBSET Transports,
           dns : {"own", "tunnel"}]

(* The helper's files: routes-state.json, the AmneziaWG route state, the   *)
(* DNS snapshot, and the interface name (macOS) or configuration (Windows).*)
Files == [routes : SUBSET AllRoutes, pending : SUBSET AllRoutes,
          rules : SUBSET Rules, dns : {None, "own", "tunnel"},
          tunnel : Transports \cup {None}]

(* The engine's tasks: "boot" is the constructor, "clear" the stop that    *)
(* begins a start, "undo" the stop that follows a failed one, "exit" the   *)
(* stop at the end of its input.                                           *)
Tasks == {"none", "boot", "idle", "clear", "start", "undo", "stop", "exit"}
Steps == {"unrule", "down", "undns", "unfile", "unroute", "plan", "add", "commit",
          "save_dns", "config", "launch", "configure", "journal", "rule", "dns", "verify"}

Engines == [task : Tasks, todo : Seq(Steps), error : BOOLEAN, orphan : BOOLEAN,
            answer : {None, "ready", "ok", "failed", "stopped"},
            state : {"stopped", "running", "failed"},
            want : [transport : Transports, plan : SUBSET AllRoutes],
            active : Transports \cup {None},
            routes : SUBSET AllRoutes, pending : SUBSET AllRoutes,
            rules : SUBSET Rules, dns : {None, "own", "tunnel"}]

NoEngine == [task |-> "none", todo |-> << >>, error |-> FALSE, orphan |-> FALSE,
             answer |-> None, state |-> "stopped",
             want |-> [transport |-> "wireguard", plan |-> {}], active |-> None,
             routes |-> {}, pending |-> {}, rules |-> {}, dns |-> None]

Alive == engine.task # "none"

-----------------------------------------------------------------------------
(* What the platforms do, in order.                                        *)

(* LinuxBackend::stop_inner. *)
LinuxStop == <<"unrule", "down", "unroute">>

(* MacosBackend::stop_inner. *)
MacosStop == <<"down", "undns", "unfile", "unroute">>

(* WindowsServiceBackend::stop. *)
WindowsStop == <<"down", "unfile", "unroute">>

StopSteps ==
  CASE platform = "linux" -> LinuxStop
    [] platform = "macos" -> MacosStop
    [] platform = "windows" -> WindowsStop

(* RouteManager::apply begins with its own cleanup; an empty plan ends it. *)
ApplySteps(plan) == IF plan = {} THEN <<"unroute">> ELSE <<"unroute", "plan", "add", "commit">>

(* LinuxBackend::start_inner once nothing is left of an earlier tunnel. *)
LinuxStart(want) ==
  ApplySteps(want.plan) \o <<"launch", "configure">>
    \o (IF want.transport = "amneziawg" THEN <<"unrule", "journal", "rule">> ELSE << >>)

(* MacosBackend::start_inner: the DNS settings are saved before the tunnel *)
(* starts and replaced after it is configured.                             *)
MacosStart(want) == ApplySteps(want.plan) \o <<"save_dns", "launch", "configure", "dns">>

(* WindowsServiceBackend::start after its stop. *)
WindowsStart(want) == ApplySteps(want.plan) \o <<"config", "launch", "verify">>

StartSteps(want) ==
  CASE platform = "linux" -> LinuxStart(want)
    [] platform = "macos" -> MacosStart(want)
    [] platform = "windows" -> WindowsStart(want)

(* The unwinding of a start whose step failed.  Inside apply the routes    *)
(* added so far are removed; start_inner stops what it had launched; the   *)
(* caller, start, stops once more on Unix.                                 *)
Unwind(step) ==
  LET own == IF step \in {"add", "commit"} THEN <<"unroute">>
             ELSE IF step = "rule" THEN <<"unrule">> ELSE << >>
      applying == step \in {"unroute", "plan", "add", "commit"}
      inner == \/ platform = "linux" /\ step \in {"configure", "unrule", "journal", "rule"}
               \/ platform = "macos" /\ step \in {"launch", "configure", "dns"}
  IN own \o (IF platform = "windows" THEN IF applying THEN <<"unroute">> ELSE WindowsStop
             ELSE (IF inner THEN StopSteps ELSE << >>) \o StopSteps)

(* The routes of a plan; Windows appends the peer's host route for         *)
(* AmneziaWG (append_protected_endpoint_route).                            *)
PlannedRoutes(transport, exclusions) ==
  exclusions \cup (IF platform = "windows" /\ transport = "amneziawg" THEN {Endpoint} ELSE {})

-----------------------------------------------------------------------------
(* How a step ends.                                                        *)

(* run_engine_channel: a task is answered; at the end of the input the     *)
(* engine stops what it runs and exits.                                    *)
Finished(e, answer) ==
  IF e.orphan THEN [e EXCEPT !.task = "exit", !.todo = StopSteps, !.error = FALSE]
  ELSE [e EXCEPT !.task = "idle", !.answer = answer, !.error = FALSE]

(* A start that failed; a Windows start whose first stop fails has nothing *)
(* to undo.                                                                *)
Undone(e, steps) ==
  IF steps = << >> THEN Finished([e EXCEPT !.state = "failed"], "failed")
  ELSE [e EXCEPT !.task = "undo", !.todo = steps, !.error = FALSE]

(* The last step of a task is done. *)
TaskEnd(e) ==
  CASE e.task = "boot" -> Finished(e, "ready")
    [] e.task = "start" -> Finished([e EXCEPT !.state = "running"], "ok")
    [] e.task = "undo" -> Finished([e EXCEPT !.state = "failed"], "failed")
    [] e.task = "exit" -> NoEngine
    [] e.task = "stop" ->
         Finished([e EXCEPT !.state = IF e.error THEN "failed" ELSE "stopped"],
                  IF e.error THEN "failed" ELSE "stopped")
    [] e.task = "clear" ->
         IF e.error THEN Undone(e, IF platform = "windows" THEN << >> ELSE StopSteps)
         ELSE [e EXCEPT !.task = "start", !.todo = StartSteps(e.want)]

Continue(e) == IF e.todo = << >> THEN TaskEnd(e) ELSE e

Ok(e) == Continue([e EXCEPT !.todo = Tail(@)])

(* A constructor that fails ends the process, a start unwinds, and a stop  *)
(* remembers the error and goes on.                                        *)
Failed(e) ==
  CASE e.task = "boot" -> NoEngine
    [] e.task = "start" -> Undone(e, Unwind(Head(e.todo)))
    [] OTHER -> Continue([e EXCEPT !.todo = Tail(@), !.error = TRUE])

(* MacosBackend::stop_inner returns early when the interface stays. *)
GivesUp(e) ==
  Continue([e EXCEPT !.todo = SubSeq(@, Len(MacosStop) + 1, Len(@)), !.error = TRUE])

At(step) == Alive /\ engine.todo # << >> /\ Head(engine.todo) = step

(* A command or a write fails. *)
Fault == faults > 0 /\ faults' = faults - 1
NoFault == UNCHANGED faults

-----------------------------------------------------------------------------
(* The route journal (RouteManager and WindowsRouteManager).               *)

Present(rs) == {r \in rs : kernel.table[r] # "free"}

Freed(rs) == [kernel EXCEPT !.table = [r \in AllRoutes |-> IF r \in rs THEN "free" ELSE @[r]]]

(* remove_present_routes: without the route table every route is kept,     *)
(* with it the ones whose removal fails.                                   *)
Retained(list, kept, queried) == IF queried THEN list \cap kept ELSE list

(* RouteManager::cleanup: what is left is written back, an empty state     *)
(* removes the file.                                                       *)
Unroute ==
  /\ At("unroute")
  /\ \E queried \in BOOLEAN, saved \in BOOLEAN,
        kept \in SUBSET Present(engine.routes \cup engine.pending) :
       LET routes == Retained(engine.routes, kept, queried)
           pending == Retained(engine.pending, kept, queried)
           removed == IF queried THEN Present(engine.routes \cup engine.pending) \ kept ELSE {}
           clean == queried /\ saved /\ kept = {}
           e == [engine EXCEPT !.routes = routes, !.pending = pending]
       IN /\ queried \/ (kept = {} /\ engine.routes \cup engine.pending # {})
          /\ IF clean THEN NoFault ELSE Fault
          /\ kernel' = Freed(removed)
          /\ disk' = IF saved THEN [disk EXCEPT !.routes = routes, !.pending = pending] ELSE disk
          /\ lost' = lost \ removed
          /\ engine' = IF clean THEN Ok(e) ELSE Failed(e)
  /\ UNCHANGED platform

(* Mutant: the routes are added before the journal is written. *)
PlanRoutes_Unwritten ==
  /\ At("plan")
  /\ IF Present(engine.want.plan) # {}
     THEN NoFault /\ engine' = Failed(engine) /\ UNCHANGED disk
     ELSE NoFault /\ engine' = Ok([engine EXCEPT !.pending = engine.want.plan]) /\ UNCHANGED disk
  /\ UNCHANGED <<platform, kernel, lost>>

(* Mutant: a route that is there already is taken for one of the plan. *)
PlanRoutes_Adopts ==
  /\ At("plan") /\ NoFault
  /\ engine' = Ok([engine EXCEPT !.pending = engine.want.plan])
  /\ disk' = [disk EXCEPT !.routes = {}, !.pending = engine.want.plan]
  /\ UNCHANGED <<platform, kernel, lost>>

(* RouteManager::apply up to the journal: a route of the plan that exists  *)
(* already is somebody else's and refuses the start; otherwise the whole   *)
(* plan is written as pending before the first route is added.             *)
PlanRoutes ==
  /\ At("plan")
  /\ \/ /\ Present(engine.want.plan) # {}
        /\ NoFault /\ engine' = Failed(engine) /\ UNCHANGED disk
     \/ /\ Fault /\ engine' = Failed(engine) /\ UNCHANGED disk
     \/ /\ Present(engine.want.plan) = {}
        /\ LET e == [engine EXCEPT !.pending = engine.want.plan] IN
           \/ /\ NoFault /\ engine' = Ok(e)
              /\ disk' = [disk EXCEPT !.routes = {}, !.pending = engine.want.plan]
           \/ Fault /\ engine' = Failed(e) /\ UNCHANGED disk
  /\ UNCHANGED <<platform, kernel, lost>>

Owned(rs) == [kernel EXCEPT !.table = [r \in AllRoutes |-> IF r \in rs THEN "ours" ELSE @[r]]]

(* RouteManager::apply, adding: the routes added before a failure become   *)
(* the journal.  A command that timed out after the kernel had done it     *)
(* leaves a route the journal no longer names (`late`, Unix only).         *)
AddRoutes ==
  /\ At("add")
  /\ LET plan == engine.pending IN
     \/ /\ Present(plan) = {}
        /\ NoFault /\ kernel' = Owned(plan) /\ engine' = Ok(engine)
        /\ UNCHANGED <<disk, lost>>
     \/ \E added \in SUBSET (plan \ Present(plan)), late \in SUBSET plan, saved \in BOOLEAN :
          /\ added # plan
          /\ Cardinality(late) <= (IF platform = "windows" THEN 0 ELSE 1)
          /\ late \cap (added \cup Present(plan)) = {}
          /\ IF Present(plan) # {} /\ saved /\ late = {} THEN NoFault ELSE Fault
          /\ kernel' = Owned(added \cup late)
          /\ lost' = lost \cup late
          /\ engine' = Failed([engine EXCEPT !.routes = added, !.pending = {}])
          /\ disk' = IF saved THEN [disk EXCEPT !.routes = added, !.pending = {}] ELSE disk
  /\ UNCHANGED platform

(* RouteManager::apply, the end: the pending routes become the owned ones. *)
CommitRoutes ==
  /\ At("commit")
  /\ LET e == [engine EXCEPT !.routes = engine.pending, !.pending = {}] IN
     \/ /\ NoFault /\ engine' = Ok(e)
        /\ disk' = [disk EXCEPT !.routes = engine.pending, !.pending = {}]
     \/ Fault /\ engine' = Failed(e) /\ UNCHANGED disk
  /\ UNCHANGED <<platform, kernel, lost>>

-----------------------------------------------------------------------------
(* The policy rules of a userspace tunnel (LinuxUserspaceRouteManager).    *)

(* apply, first half: no entry of the plan may exist; the whole plan is    *)
(* written before the first entry is added.                                *)
JournalRules ==
  /\ At("journal")
  /\ \/ /\ kernel.rules = {}
        /\ NoFault /\ engine' = Ok([engine EXCEPT !.rules = Rules])
        /\ disk' = [disk EXCEPT !.rules = Rules]
     \/ /\ kernel.rules # {} /\ NoFault
        /\ engine' = Failed(engine) /\ UNCHANGED disk
     \/ Fault /\ engine' = Failed(engine) /\ UNCHANGED disk
  /\ UNCHANGED <<platform, kernel, lost>>

(* apply_state: the link comes up, then the entries one by one. *)
AddRules ==
  /\ At("rule")
  /\ \/ NoFault /\ kernel' = [kernel EXCEPT !.rules = Rules] /\ engine' = Ok(engine)
     \/ \E added \in SUBSET Rules :
          Fault /\ kernel' = [kernel EXCEPT !.rules = added] /\ engine' = Failed(engine)
  /\ UNCHANGED <<platform, disk, lost>>

(* The state survives any error. *)
RulesKept(kept, saved) == IF saved /\ kept = {} THEN {} ELSE engine.rules

(* cleanup: every entry that is ours is removed, and the state with the    *)
(* last of them.                                                           *)
Unrule ==
  /\ At("unrule")
  /\ \/ engine.rules = {} /\ NoFault /\ engine' = Ok(engine) /\ UNCHANGED <<kernel, disk>>
     \/ /\ engine.rules # {}
        /\ \E kept \in SUBSET kernel.rules, saved \in BOOLEAN :
             LET clean == kept = {} /\ saved
                 rules == RulesKept(kept, saved)
                 e == [engine EXCEPT !.rules = rules]
             IN /\ IF clean THEN NoFault ELSE Fault
                /\ kernel' = [kernel EXCEPT !.rules = kept]
                /\ disk' = [disk EXCEPT !.rules = rules]
                /\ engine' = IF clean THEN Ok(e) ELSE Failed(e)
  /\ UNCHANGED <<platform, lost>>

-----------------------------------------------------------------------------
(* The interface.                                                          *)

(* Linux: the kernel interface or the userspace daemon.  A daemon that     *)
(* misses the start timeout may still come up, with nobody to stop it      *)
(* (`lost`); its socket refuses a second one.                              *)
LinuxLaunch ==
  /\ At("launch") /\ platform = "linux"
  /\ LET t == engine.want.transport
         e == [engine EXCEPT !.active = t] IN
     \/ /\ t \notin kernel.up \/ t = "wireguard"
        /\ NoFault /\ engine' = Ok(e)
        /\ kernel' = [kernel EXCEPT !.up = @ \cup {t}] /\ lost' = lost \ {t}
     \/ t \in kernel.up /\ NoFault /\ engine' = Failed(engine) /\ UNCHANGED <<kernel, lost>>
     \/ Fault /\ engine' = Failed(engine) /\ UNCHANGED <<kernel, lost>>
     \/ /\ t = "amneziawg" /\ t \notin kernel.up /\ Fault
        /\ kernel' = [kernel EXCEPT !.up = @ \cup {t}]
        /\ lost' = lost \cup {t} /\ engine' = Failed(engine)
  /\ UNCHANGED <<platform, disk>>

(* macOS: launch_userspace_tunnel; the daemon writes the interface name.   *)
MacosLaunch ==
  /\ At("launch") /\ platform = "macos"
  /\ LET t == engine.want.transport IN
     \/ /\ NoFault /\ engine' = Ok([engine EXCEPT !.active = t])
        /\ kernel' = [kernel EXCEPT !.up = @ \cup {t}]
        /\ disk' = [disk EXCEPT !.tunnel = t] /\ UNCHANGED lost
     \/ Fault /\ engine' = Failed(engine) /\ UNCHANGED <<kernel, disk, lost>>
     \/ /\ Fault /\ engine' = Failed(engine)
        /\ kernel' = [kernel EXCEPT !.up = @ \cup {t}]
        /\ disk' = [disk EXCEPT !.tunnel = t] /\ lost' = lost \cup {t}
  /\ UNCHANGED platform

(* Windows: StartWireguard or StartAmneziawg removes both tunnel services, *)
(* then creates and starts the one asked for.                              *)
WindowsLaunch ==
  /\ At("launch") /\ platform = "windows"
  /\ LET t == engine.want.transport IN
     \/ NoFault /\ engine' = Ok(engine) /\ kernel' = [kernel EXCEPT !.up = {t}]
     \/ \E up \in {kernel.up, {}, {t}} :
          Fault /\ engine' = Failed(engine) /\ kernel' = [kernel EXCEPT !.up = up]
  /\ UNCHANGED <<platform, disk, lost>>

(* Linux forgets the transport before it removes the interface: one that   *)
(* stays is nobody's until a new engine finds it (`lost`).                 *)
LinuxDown ==
  /\ At("down") /\ platform = "linux"
  /\ LET t == engine.active
         e == [engine EXCEPT !.active = None] IN
     \/ t = None /\ NoFault /\ engine' = Ok(e) /\ UNCHANGED <<kernel, lost>>
     \/ /\ t # None /\ NoFault /\ engine' = Ok(e)
        /\ kernel' = [kernel EXCEPT !.up = @ \ {t}] /\ lost' = lost \ {t}
     \/ /\ t # None /\ Fault /\ engine' = Failed(e)
        /\ lost' = lost \cup {t} /\ UNCHANGED kernel
  /\ UNCHANGED <<platform, disk>>

(* macOS keeps the interface it could not remove and returns at once. *)
MacosDown ==
  /\ At("down") /\ platform = "macos"
  /\ LET t == engine.active
         e == [engine EXCEPT !.active = None] IN
     \/ t = None /\ NoFault /\ engine' = Ok(e) /\ UNCHANGED kernel
     \/ t # None /\ NoFault /\ engine' = Ok(e) /\ kernel' = [kernel EXCEPT !.up = @ \ ({t} \ lost)]
     \/ t # None /\ Fault /\ engine' = GivesUp(engine) /\ UNCHANGED kernel
  /\ UNCHANGED <<platform, disk, lost>>

(* Windows: StopServices; the endpoint and transport are forgotten first.  *)
WindowsDown ==
  /\ At("down") /\ platform = "windows"
  /\ LET e == [engine EXCEPT !.active = None] IN
     \/ NoFault /\ engine' = Ok(e) /\ kernel' = [kernel EXCEPT !.up = {}]
     \/ Fault /\ engine' = Failed(e) /\ UNCHANGED kernel
  /\ UNCHANGED <<platform, disk, lost>>

(* Keys, addresses, peer routes, endpoint routes: what an interface takes  *)
(* with it when it goes.                                                   *)
Configure ==
  /\ At("configure")
  /\ \/ NoFault /\ engine' = Ok(engine)
     \/ Fault /\ engine' = Failed(engine)
  /\ UNCHANGED <<platform, kernel, disk, lost>>

(* write_configuration_atomically. *)
WriteConfig ==
  /\ At("config")
  /\ \/ /\ NoFault /\ engine' = Ok([engine EXCEPT !.active = engine.want.transport])
        /\ disk' = [disk EXCEPT !.tunnel = engine.want.transport]
     \/ Fault /\ engine' = Failed(engine) /\ UNCHANGED disk
  /\ UNCHANGED <<platform, kernel, lost>>

(* The interface name or the configuration is removed. *)
RemoveFile ==
  /\ At("unfile")
  /\ \/ NoFault /\ engine' = Ok(engine) /\ disk' = [disk EXCEPT !.tunnel = None]
     \/ disk.tunnel # None /\ Fault /\ engine' = Failed(engine) /\ UNCHANGED disk
  /\ UNCHANGED <<platform, kernel, lost>>

-----------------------------------------------------------------------------
(* The DNS settings of macOS.                                              *)

(* capture_dns: the snapshot is of whatever the system uses now. *)
CaptureDns ==
  /\ At("save_dns")
  /\ \/ /\ NoFault /\ disk' = [disk EXCEPT !.dns = kernel.dns]
        /\ engine' = Ok([engine EXCEPT !.dns = kernel.dns])
     \/ Fault /\ engine' = Failed(engine) /\ UNCHANGED disk
  /\ UNCHANGED <<platform, kernel, lost>>

(* apply_dns; some of the network services may be changed when it fails. *)
ApplyDns ==
  /\ At("dns")
  /\ \/ NoFault /\ kernel' = [kernel EXCEPT !.dns = "tunnel"] /\ engine' = Ok(engine)
     \/ \E dns \in {kernel.dns, "tunnel"} :
          Fault /\ kernel' = [kernel EXCEPT !.dns = dns] /\ engine' = Failed(engine)
  /\ UNCHANGED <<platform, disk, lost>>

(* restore_dns: the snapshot is kept until the settings are back and its   *)
(* file is gone.                                                           *)
RestoreDns ==
  /\ At("undns")
  /\ \/ engine.dns = None /\ NoFault /\ engine' = Ok(engine) /\ UNCHANGED <<kernel, disk>>
     \/ /\ engine.dns # None /\ NoFault
        /\ kernel' = [kernel EXCEPT !.dns = engine.dns]
        /\ disk' = [disk EXCEPT !.dns = None]
        /\ engine' = Ok([engine EXCEPT !.dns = None])
     \/ \E dns \in {kernel.dns, engine.dns} \ {None} :
          /\ engine.dns # None /\ Fault /\ engine' = Failed(engine)
          /\ kernel' = [kernel EXCEPT !.dns = dns] /\ UNCHANGED disk
  /\ UNCHANGED <<platform, lost>>

-----------------------------------------------------------------------------
(* The protected endpoint of Windows.                                      *)

(* verify_protected_endpoint, of the journal `routes`. *)
EndpointVerified(routes) == Endpoint \in routes /\ kernel.table[Endpoint] = "ours"

VerifyEndpoint ==
  /\ At("verify")
  /\ LET protected == engine.active = "amneziawg" IN
     \/ (protected => EndpointVerified(engine.routes)) /\ NoFault /\ engine' = Ok(engine)
     \/ protected /\ ~EndpointVerified(engine.routes) /\ NoFault /\ engine' = Failed(engine)
     \/ protected /\ Fault /\ engine' = Failed(engine)
  /\ UNCHANGED <<platform, kernel, disk, lost>>

(* The AmneziaWG tunnel service looks once a second whether the journal on *)
(* disk still names the endpoint's route and the table still selects it,   *)
(* and exits when not (start_amneziawg_endpoint_route_watchdog).           *)
EndpointWatchdog ==
  /\ platform = "windows" /\ "amneziawg" \in kernel.up
  /\ ~EndpointVerified(disk.routes)
  /\ kernel' = [kernel EXCEPT !.up = @ \ {"amneziawg"}]
  /\ UNCHANGED <<platform, disk, engine, faults, lost>>

(* The network takes the endpoint's route away. *)
EndpointRouteLost ==
  /\ platform = "windows" /\ kernel.table[Endpoint] = "ours" /\ Fault
  /\ kernel' = [kernel EXCEPT !.table[Endpoint] = "free"]
  /\ UNCHANGED <<platform, disk, engine, lost>>

(* Somebody installs a route of the plan that no journal names. *)
ForeignRoute ==
  /\ Fault
  /\ \E r \in Routes :
       /\ kernel.table[r] = "free" /\ r \notin disk.routes \cup disk.pending
       /\ r \notin engine.routes \cup engine.pending
       /\ kernel' = [kernel EXCEPT !.table[r] = "foreign"]
  /\ UNCHANGED <<platform, disk, engine, lost>>

-----------------------------------------------------------------------------
(* The life of an engine.                                                  *)

Loaded == [NoEngine EXCEPT !.task = "boot", !.routes = disk.routes, !.pending = disk.pending,
                           !.rules = disk.rules, !.dns = disk.dns]

Boots(active, steps) ==
  IF active # None THEN [Loaded EXCEPT !.active = active, !.state = "running",
                                       !.task = "idle", !.answer = "ready"]
  ELSE Continue([Loaded EXCEPT !.todo = steps])

(* LinuxBackend::new: an interface that is up is adopted with its routes,  *)
(* two of them are refused, and without one the leftovers are removed.     *)
LinuxBoot ==
  IF kernel.up = Transports THEN NoEngine
  ELSE Boots(IF kernel.up = {} THEN None ELSE CHOOSE t \in kernel.up : TRUE,
             <<"unrule", "unroute">>)

(* MacosBackend::new and recover_api: the daemon whose name is on disk. *)
MacosBoot ==
  Boots(IF disk.tunnel \in kernel.up THEN disk.tunnel ELSE None, <<"unroute", "undns">>)

(* WindowsServiceBackend::new: a tunnel service that is not stopped is     *)
(* adopted; its transport is read back from the configuration.             *)
WindowsBoot ==
  IF kernel.up # {} THEN [Boots("wireguard", << >>) EXCEPT !.active = disk.tunnel]
  ELSE Boots(None, <<"unroute">>)

Booted ==
  CASE platform = "linux" -> LinuxBoot
    [] platform = "macos" -> MacosBoot
    [] platform = "windows" -> WindowsBoot

(* The process starts. *)
EngineStarts ==
  /\ engine' = Booted
  /\ lost' = lost \ {Booted.active}
  /\ disk' = IF platform = "macos" /\ Booted.active = None THEN [disk EXCEPT !.tunnel = None]
             ELSE disk

(* Start: whatever is left of an earlier tunnel is stopped first; Windows  *)
(* stops in any case.                                                      *)
Starting(want) ==
  LET e == [engine EXCEPT !.want = want, !.answer = None, !.error = FALSE]
      held == \/ e.active # None \/ e.routes \cup e.pending # {} \/ e.rules # {}
              \/ platform = "macos" /\ e.dns # None
              \/ platform = "windows"
  IN IF held THEN [e EXCEPT !.task = "clear", !.todo = StopSteps]
     ELSE [e EXCEPT !.task = "start", !.todo = StartSteps(want)]

Stopping == [engine EXCEPT !.task = "stop", !.todo = StopSteps, !.answer = None, !.error = FALSE]

(* status and metrics: on Windows an unsafe endpoint route stops the       *)
(* tunnel; the other platforms only look.                                  *)
Observed ==
  IF platform = "windows" /\ engine.active = "amneziawg" /\ kernel.up # {}
       /\ ~EndpointVerified(engine.routes)
  THEN [engine EXCEPT !.task = "undo", !.todo = StopSteps, !.answer = None]
  ELSE [engine EXCEPT !.answer = "ok"]

(* The end of the input: a cleanup request, then the end of the process. *)
InputEnds(e) ==
  IF e.task = "idle" THEN [e EXCEPT !.orphan = TRUE, !.task = "exit", !.todo = StopSteps,
                                    !.error = FALSE]
  ELSE [e EXCEPT !.orphan = TRUE]

=============================================================================
