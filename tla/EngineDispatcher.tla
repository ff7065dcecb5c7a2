-------------------------- MODULE EngineDispatcher --------------------------
(***************************************************************************)
(* The dispatcher of the privileged helper, its client in the runtime, the *)
(* installer and the service manager around the engine of TunnelBackend.   *)
(*                                                                         *)
(* The dispatcher serves one request at a time under a file lock it shares *)
(* with the installer.  It owns the engine as a child process and a marker *)
(* file that names the engine it started; the marker is there to outlive   *)
(* the dispatcher, so that the next one recovers what was left.  When the  *)
(* dispatcher dies its engine reads the end of its input and begins to     *)
(* stop, but the guardian (Unix) or the job (Windows) kills it.            *)
(*                                                                         *)
(* The client's tunnel controller makes a call of several requests: it     *)
(* asks the dispatcher for its version, starts or stops the engine, and    *)
(* sends the tunnel request through the dispatcher to the engine.  A call  *)
(* that takes too long fails; on Windows its thread goes on all the same   *)
(* (`late`).                                                               *)
(***************************************************************************)
EXTENDS TunnelBackend

CONSTANTS
  Generations,  \* installed releases, published in this order
  Scenarios     \* platforms and budgets: how many faults, deaths, calls, timeouts, installs

VARIABLES
  marker,       \* engine-active: the identity of the engine, or None
  pointer,      \* the published generation
  releases,     \* the generations on disk
  dispatcher,   \* the dispatcher process
  installer,    \* the installer
  client,       \* the tunnel controller of the runtime
  left          \* what may still happen

engine_vars == <<backend_vars, marker, pointer, releases, dispatcher, installer, client, left>>

Identities == [generation : Generations, slot : {"latest", "stable"}]

(* `service` says whether the service is registered and `own` to which     *)
(* generation its program belongs; `pc` is what the process waits for: the *)
(* child process, its first answer, the answer to a stop or to a relayed   *)
(* request, its exit, the removal of the marker.                           *)
Dispatchers == [up : BOOLEAN, service : BOOLEAN, own : Generations, layout : Identities,
                pc : {"idle", "recover", "spawn", "ready", "stop", "relay", "close", "unmark"},
                next : {"start", "stop"}, request : {"client", "recovery", "cleanup"},
                child : BOOLEAN, failed : BOOLEAN]

Installers == [pc : {"idle", "published", "activate", "started"},
               published : Generations, previous : Generations]

(* A call of the controller: "look" stands for the requests that read      *)
(* metrics, fingerprints or diagnostics or rebind the socket; `pc` is the  *)
(* request it sends next or waits for.                                     *)
ServiceOps == {"start", "stop", "status", "look"}
Calls == [op : ServiceOps \cup {"none"}, identity : Identities, retried : BOOLEAN,
          pc : {"idle", "start", "starting", "stop", "stopping", "private", "relayed", "retry"}]

(* `bound` is the engine the runtime is bound to, `told` what its last     *)
(* call returned.                                                          *)
Clients == [bound : Identities \cup {None}, call : Calls, late : Calls,
            told : {None, "running", "stopped", "down", "done", "error"}]

First == CHOOSE g \in Generations : \A h \in Generations : g <= h

NewDispatcher(generation, identity) ==
  [up |-> TRUE, service |-> TRUE, own |-> generation, layout |-> identity, pc |-> "idle", next |-> "start",
   request |-> "client", child |-> FALSE, failed |-> FALSE]

NoCall == [op |-> "none", identity |-> [generation |-> First, slot |-> "latest"],
           retried |-> FALSE, pc |-> "idle"]

EngineInit ==
  \E s \in Scenarios :
    /\ platform = s.platform /\ faults = s.faults
    /\ left = [deaths |-> s.deaths, requests |-> s.requests, installs |-> s.installs,
              timeouts |-> s.timeouts]
    /\ kernel = [table |-> [r \in AllRoutes |-> "free"], rules |-> {}, up |-> {}, dns |-> "own"]
    /\ disk = [routes |-> {}, pending |-> {}, rules |-> {}, dns |-> None, tunnel |-> None]
    /\ engine = NoEngine /\ lost = {}
    /\ marker = None /\ pointer = First /\ releases = {First}
    /\ dispatcher = NewDispatcher(First, [generation |-> First, slot |-> "latest"])
    /\ installer = [pc |-> "idle", published |-> First, previous |-> First]
    /\ client = [bound |-> None, call |-> NoCall, late |-> NoCall, told |-> None]

EngineTypeOK ==
  /\ platform \in {"linux", "macos", "windows"} /\ faults \in Nat
  /\ kernel \in Kernel /\ disk \in Files /\ engine \in Engines
  /\ marker \in Identities \cup {None}
  /\ pointer \in releases /\ releases \subseteq Generations
  /\ dispatcher \in Dispatchers /\ installer \in Installers
  /\ client \in Clients

-----------------------------------------------------------------------------
(* The dispatcher.                                                         *)

(* The child is running and is this dispatcher's. *)
ChildLives == dispatcher.child /\ Alive

(* MutationGuard: the installer holds the lock while it publishes. *)
Unlocked == installer.pc # "published"

Serves == dispatcher.up /\ dispatcher.pc = "idle" /\ Unlocked

Running == ChildLives /\ ~dispatcher.failed

Request == left.requests > 0 /\ left' = [left EXCEPT !.requests = @ - 1]

(* The call that waits learns how its request ended. *)
Waits(c) == c.pc \in {"starting", "stopping", "relayed"}

(* DispatcherResponse::success: a start needs an engine that runs, a stop  *)
(* one that does not.                                                      *)
Continued(c, running) ==
  IF c.pc = "starting" /\ running THEN [c EXCEPT !.pc = "private"]
  ELSE IF Waits(c) THEN NoCall ELSE c

Answered(c, running) ==
  [c EXCEPT !.call = Continued(@, running), !.late = Continued(@, running),
            !.told = IF ~Waits(c.call) \/ (c.call.pc = "starting" /\ running) THEN @
                     ELSE IF c.call.pc = "stopping" /\ ~running THEN "stopped" ELSE "error"]

(* DispatcherResponse::failure, or the connection is gone. *)
Rejected(c) ==
  [c EXCEPT !.call = IF Waits(@) THEN NoCall ELSE @, !.late = IF Waits(@) THEN NoCall ELSE @,
            !.told = IF Waits(c.call) THEN "error" ELSE @]

(* A request ends with an error; a dispatcher whose recovery fails exits,  *)
(* and its engine with it.                                                 *)
Refused(d) == IF d.request = "recovery" THEN [d EXCEPT !.up = FALSE, !.pc = "idle", !.child = FALSE]
              ELSE [d EXCEPT !.pc = "idle", !.request = "client"]

Refuse(d) == dispatcher' = Refused(d) /\ client' = Rejected(client)

Served(d) == [d EXCEPT !.pc = "idle", !.request = "client"]

Serve(d, running) == dispatcher' = Served(d) /\ client' = Answered(client, running)

(* load_slot and authorize: the identity is the one that is installed. *)
Installed(identity) == identity.generation = pointer

(* handle_inner: another identity is selected only with no engine around. *)
Selects(identity) ==
  /\ ~dispatcher.child /\ ~dispatcher.failed /\ marker = None
  /\ Installed(identity)

(* Call w has sent its request and waits. *)
Sent(w) == [client EXCEPT ![w].pc = CASE @ = "start" -> "starting" [] @ = "stop" -> "stopping"
                                       [] OTHER -> "relayed"]

(* Call w ends; what an abandoned one returns nobody hears. *)
Over(w, told) == [client EXCEPT ![w] = NoCall, !.told = IF w = "call" THEN told ELSE @]

(* Start.  An abandoned one may come after a stop (`lost`). *)
DispatcherStart(w) ==
  /\ client[w].pc = "start" /\ Serves
  /\ LET identity == client[w].identity
         d == [dispatcher EXCEPT !.layout = identity] IN
     \/ /\ identity # dispatcher.layout /\ ~Selects(identity)
        /\ client' = Over(w, "error") /\ UNCHANGED <<dispatcher, marker>>
     \/ /\ identity = dispatcher.layout \/ Selects(identity)
        /\ IF d.failed \/ d.child \/ marker # None
           THEN /\ dispatcher' = d /\ UNCHANGED marker
                /\ client' = IF Running THEN [client EXCEPT ![w].pc = "private"] ELSE Over(w, "error")
           ELSE IF Installed(identity)
           THEN /\ dispatcher' = [d EXCEPT !.pc = "spawn", !.next = "start"]
                /\ marker' = identity /\ client' = Sent(w)
           ELSE dispatcher' = d /\ client' = Over(w, "error") /\ UNCHANGED marker
  /\ lost' = IF w = "late" THEN lost \cup {"late"} ELSE lost
  /\ UNCHANGED <<platform, kernel, disk, engine, faults, pointer, releases, installer, left>>

(* command.spawn.  The child process is created; or the guardian is not    *)
(* and the marker stays; or the child is not and the marker is removed,    *)
(* even when it was there before (`lost`).                                 *)
SpawnChild ==
  /\ dispatcher.up /\ dispatcher.pc = "spawn"
  /\ \/ /\ NoFault /\ EngineStarts
        /\ dispatcher' = [dispatcher EXCEPT !.pc = "ready", !.child = TRUE, !.failed = FALSE]
        /\ UNCHANGED <<marker, client>>
     \/ /\ Fault /\ Refuse(dispatcher)
        /\ UNCHANGED <<engine, disk, lost, marker>>
     \/ /\ Fault /\ Refuse(dispatcher)
        /\ marker' = None
        /\ lost' = IF dispatcher.next = "stop" THEN lost \cup {"marker"} ELSE lost
        /\ UNCHANGED <<engine, disk>>
  /\ UNCHANGED <<platform, kernel, pointer, releases, installer, left>>

(* The engine's first answer; a start is done, a recovery goes on to stop. *)
EngineReady ==
  /\ dispatcher.up /\ dispatcher.pc = "ready" /\ engine.answer = "ready"
  /\ IF dispatcher.next = "start"
     THEN Serve(dispatcher, TRUE) /\ engine' = [engine EXCEPT !.answer = None]
     ELSE dispatcher' = [dispatcher EXCEPT !.pc = "stop"] /\ engine' = Stopping /\ UNCHANGED client
  /\ UNCHANGED <<platform, kernel, disk, faults, lost, marker, pointer, releases, installer, left>>

(* exchange: the channel breaks while the dispatcher waits. *)
ChannelFails ==
  /\ dispatcher.up /\ dispatcher.pc \in {"ready", "stop", "relay"} /\ ~Alive
  /\ Refuse([dispatcher EXCEPT !.failed = TRUE])
  /\ UNCHANGED <<backend_vars, marker, pointer, releases, installer, left>>

(* stop: a child whose channel broke is killed; a live one is asked to     *)
(* stop; for a dead one the marker's engine is started again, once no      *)
(* other engine holds the lease.  `asked` is the client's state while it   *)
(* waits.                                                                  *)
StopChild(d, live, asked) ==
  IF live
  THEN /\ dispatcher' = [d EXCEPT !.pc = "stop"] /\ client' = asked
       /\ engine' = Stopping /\ UNCHANGED marker
  ELSE LET gone == [d EXCEPT !.child = FALSE]
           orphan == Alive /\ ~d.child IN
       /\ engine' = IF d.child THEN NoEngine ELSE engine
       /\ IF marker = None
          THEN dispatcher' = Served(gone) /\ client' = Answered(asked, FALSE)
          ELSE IF orphan \/ marker # d.layout \/ ~Installed(marker)
          THEN dispatcher' = Refused(gone) /\ client' = Rejected(asked)
          ELSE dispatcher' = [gone EXCEPT !.pc = "spawn", !.next = "stop"] /\ client' = asked
       /\ UNCHANGED marker

(* Stop. *)
DispatcherStop(w) ==
  /\ client[w].pc = "stop" /\ Serves
  /\ LET identity == client[w].identity IN
     \/ /\ identity # dispatcher.layout /\ ~Selects(identity)
        /\ client' = Over(w, "error") /\ UNCHANGED <<dispatcher, marker, engine>>
     \/ /\ identity = dispatcher.layout \/ Selects(identity)
        /\ StopChild([dispatcher EXCEPT !.layout = identity], Running, Sent(w))
  /\ UNCHANGED <<platform, kernel, disk, faults, lost, pointer, releases, installer, left>>

(* Cleanup: a stop with the collection of old releases behind it. *)
DispatcherCleanup ==
  /\ Serves /\ Request
  /\ \E identity \in Identities :
       /\ identity = dispatcher.layout \/ Selects(identity)
       /\ StopChild([dispatcher EXCEPT !.layout = identity, !.request = "cleanup"], Running, client)
  /\ UNCHANGED <<platform, kernel, disk, faults, lost, pointer, releases, installer>>

(* The answer to a stop: only "stopped" lets the dispatcher close the      *)
(* engine's input and wait for its exit.                                   *)
StopAnswered ==
  /\ dispatcher.up /\ dispatcher.pc = "stop" /\ engine.answer # None
  /\ IF engine.answer = "stopped"
     THEN /\ dispatcher' = [dispatcher EXCEPT !.pc = "close"] /\ engine' = InputEnds(engine)
          /\ UNCHANGED client
     ELSE Refuse(dispatcher)
            /\ engine' = IF dispatcher.request = "recovery" THEN InputEnds(engine)
                         ELSE [engine EXCEPT !.answer = None]
  /\ UNCHANGED <<platform, kernel, disk, faults, lost, marker, pointer, releases, installer, left>>

(* The engine exits, or is killed after three seconds. *)
EngineClosed ==
  /\ dispatcher.up /\ dispatcher.pc = "close"
  /\ engine' = NoEngine
  /\ dispatcher' = [dispatcher EXCEPT !.pc = "unmark", !.child = FALSE]
  /\ UNCHANGED <<platform, kernel, disk, faults, lost, marker, pointer, releases, installer, client,
                 left>>

(* cleanup_previous: every generation goes but the published one and the   *)
(* one the dispatcher's own program runs from.                             *)
Collected == releases \cap {pointer, dispatcher.own}

(* The end of a stop: the marker is removed; Cleanup collects. *)
Unmark ==
  /\ dispatcher.up /\ dispatcher.pc = "unmark"
  /\ \/ /\ NoFault /\ marker' = None
        /\ Serve(dispatcher, FALSE)
        /\ releases' = IF dispatcher.request = "cleanup" THEN Collected ELSE releases
     \/ Fault /\ Refuse(dispatcher) /\ UNCHANGED <<marker, releases>>
  /\ UNCHANGED <<platform, kernel, disk, engine, lost, pointer, installer, left>>

(* relay: a tunnel request goes to the engine. *)
Relay(w) ==
  /\ client[w].pc = "private" /\ Serves /\ dispatcher.child
  /\ dispatcher' = [dispatcher EXCEPT !.pc = "relay"]
  /\ client' = Sent(w)
  /\ IF ~Alive THEN UNCHANGED engine
     ELSE IF client[w].op # "start" THEN engine' = Observed
     ELSE \E transport \in Transports, exclusions \in {{}, Routes} :
            engine' = Starting([transport |-> transport,
                                plan |-> PlannedRoutes(transport, exclusions)])
  /\ UNCHANGED <<platform, kernel, disk, faults, lost, marker, pointer, releases, installer, left>>

(* What the engine's answer means to call c (require_state).               *)
Meaning(c) ==
  CASE engine.answer # "ok" -> "error"
    [] c.op = "start" -> IF engine.state = "running" THEN "running" ELSE "error"
    [] c.op = "status" -> IF engine.state = "running" THEN "running" ELSE "down"
    [] OTHER -> "done"

(* The engine's answer.  On Windows a start whose AmneziaWG service did    *)
(* not come up is made a second time.                                      *)
RelayAnswered ==
  /\ dispatcher.up /\ dispatcher.pc = "relay" /\ engine.answer # None
  /\ dispatcher' = Served(dispatcher)
  /\ \/ \E w \in {"call", "late"} : client[w].pc = "relayed" /\ client' = Over(w, Meaning(client[w]))
     \/ /\ platform = "windows" /\ client.call.pc = "relayed" /\ client.call.op = "start"
        /\ ~client.call.retried /\ Meaning(client.call) = "error"
        /\ client' = [client EXCEPT !.call.pc = "retry"]
     \/ /\ client.call.pc # "relayed" /\ client.late.pc # "relayed"
        /\ UNCHANGED client
  /\ engine' = [engine EXCEPT !.answer = None]
  /\ UNCHANGED <<platform, kernel, disk, faults, lost, marker, pointer, releases, installer, left>>

-----------------------------------------------------------------------------
(* The tunnel controller (UnixTunnelController, WindowsTunnelController)   *)
(* and its transport.                                                      *)

(* The runtime binds its transport to the engine it was started for; until *)
(* then it may only stop and ask.                                          *)
BindEngine ==
  /\ client.bound = None /\ client.call.pc = "idle" /\ client.late.pc = "idle"
  /\ \E identity \in Identities :
       Installed(identity) /\ client' = [client EXCEPT !.bound = identity]
  /\ UNCHANGED <<backend_vars, marker, pointer, releases, dispatcher, installer, left>>

(* exchange_selected: Version is answered without the lock; the engine     *)
(* must be the one the client is bound to.                                 *)
Admitted(op) ==
  /\ dispatcher.up /\ dispatcher.pc = "idle"
  /\ IF client.bound = None THEN op \in {"stop", "status"}
     ELSE /\ client.bound.generation = dispatcher.layout.generation
          /\ Running => client.bound = dispatcher.layout

(* The call goes on to its own request, or ends: without an engine a       *)
(* status is "stopped".                                                    *)
Selected(op, retried) ==
  LET identity == IF client.bound = None THEN dispatcher.layout ELSE client.bound
      goes(pc) == [client EXCEPT !.told = None, !.call = [op |-> op, identity |-> identity,
                                                          retried |-> retried, pc |-> pc]]
  IN IF ~Admitted(op) THEN Over("call", "error")
     ELSE IF op \in {"start", "stop"} THEN goes(op)
     ELSE IF Running THEN goes("private")
     ELSE Over("call", IF op = "status" THEN "down" ELSE "error")

CallService ==
  /\ client.call.pc = "idle" /\ Request
  /\ \E op \in ServiceOps : client' = Selected(op, FALSE)
  /\ UNCHANGED <<backend_vars, marker, pointer, releases, dispatcher, installer>>

(* WindowsTunnelController::start, the second exchange. *)
RetryStart ==
  /\ client.call.pc = "retry"
  /\ client' = Selected("start", TRUE)
  /\ UNCHANGED <<backend_vars, marker, pointer, releases, dispatcher, installer, left>>

(* The dispatcher is gone, busy, locked out or without an engine. *)
ServiceFails(w) ==
  /\ client[w].pc \in {"start", "stop", "private"}
  /\ ~Serves \/ (client[w].pc = "private" /\ ~dispatcher.child)
  /\ client' = Over(w, "error")
  /\ UNCHANGED <<backend_vars, marker, pointer, releases, dispatcher, installer, left>>

(* The exchange takes too long.  On Unix the thread that waits gives up;   *)
(* on Windows it goes on without a caller, who gets an error.              *)
ServiceTimeout ==
  /\ left.timeouts > 0 /\ left' = [left EXCEPT !.timeouts = @ - 1]
  /\ IF platform = "windows"
     THEN /\ client.call.pc \notin {"idle", "retry"} /\ client.late.pc = "idle"
          /\ client' = [Over("call", "error") EXCEPT !.late = client.call]
     ELSE Waits(client.call) /\ client' = Over("call", "error")
  /\ UNCHANGED <<backend_vars, marker, pointer, releases, dispatcher, installer>>

(* The runtime ends with its calls; a new one is not bound yet. *)
ClientDies ==
  /\ Request /\ client.bound # None
  /\ client' = [bound |-> None, call |-> NoCall, late |-> NoCall, told |-> None]
  /\ UNCHANGED <<backend_vars, marker, pointer, releases, dispatcher, installer>>

-----------------------------------------------------------------------------
(* Deaths and restarts.                                                    *)

Death == left.deaths > 0 /\ left' = [left EXCEPT !.deaths = @ - 1]

EngineDies ==
  /\ Alive /\ Death /\ engine' = NoEngine
  /\ UNCHANGED <<platform, kernel, disk, faults, lost, marker, pointer, releases, dispatcher, installer, client>>

(* What the dispatcher's death does to its engine: the job kills it on     *)
(* Windows; on Unix it reads the end of its input until the guardian acts. *)
Orphaned == IF ~Alive \/ platform = "windows" THEN NoEngine ELSE InputEnds(engine)

(* A crash, or the watchdog that ends a process whose request takes more   *)
(* than forty seconds.                                                     *)
DispatcherDies ==
  /\ dispatcher.up /\ Death
  /\ dispatcher' = [dispatcher EXCEPT !.up = FALSE, !.pc = "idle", !.child = FALSE]
  /\ engine' = Orphaned /\ client' = Rejected(client)
  /\ UNCHANGED <<platform, kernel, disk, faults, lost, marker, pointer, releases, installer>>

(* The guardian kills the process group of a dead dispatcher. *)
OrphanKilled ==
  /\ Alive /\ ~dispatcher.child
  /\ engine' = NoEngine
  /\ UNCHANGED <<platform, kernel, disk, faults, lost, marker, pointer, releases, dispatcher,
                 installer, left, client>>

(* Mutant: the new dispatcher waits for a request instead of recovering. *)
DispatcherRestarts_Passive ==
  /\ ~dispatcher.up /\ dispatcher.service
  /\ dispatcher' = NewDispatcher(dispatcher.own, IF marker = None THEN dispatcher.layout ELSE marker)
  /\ UNCHANGED <<backend_vars, marker, pointer, releases, installer, left, client>>

(* The service manager starts the dispatcher; with a marker it recovers    *)
(* before it listens (recover_dispatcher, manager_service_loop).           *)
DispatcherRestarts ==
  /\ ~dispatcher.up /\ dispatcher.service
  /\ marker # None => Installed(marker)
  /\ LET identity == IF marker = None THEN [generation |-> pointer, slot |-> "latest"] ELSE marker
         d == NewDispatcher(dispatcher.own, identity)
     IN dispatcher' = IF marker = None THEN d
                      ELSE [d EXCEPT !.pc = "recover", !.request = "recovery"]
  /\ UNCHANGED <<backend_vars, marker, pointer, releases, installer, left, client>>

DispatcherRecovers ==
  /\ dispatcher.up /\ dispatcher.pc = "recover" /\ Unlocked
  /\ StopChild(dispatcher, FALSE, client)
  /\ UNCHANGED <<platform, kernel, disk, faults, lost, pointer, releases, installer, left>>

-----------------------------------------------------------------------------
(* The installer.                                                          *)

(* Nothing holds the lock and no engine is recorded. *)
InstallAllowed == dispatcher.pc \in {"idle", "recover"} /\ marker = None

(* install up to the publication: the release is staged, verified, renamed *)
(* into place, and the pointer replaced.                                   *)
InstallPublish ==
  /\ installer.pc = "idle" /\ left.installs > 0 /\ InstallAllowed
  /\ \E g \in Generations \ releases :
       /\ left' = [left EXCEPT !.installs = @ - 1]
       /\ releases' = releases \cup {g} /\ pointer' = g
       /\ installer' = [pc |-> "published", published |-> g, previous |-> pointer]
  /\ UNCHANGED <<backend_vars, marker, dispatcher, client>>

(* The published release is loaded and verified; a failure restores the    *)
(* pointer before the lock is released.  The installer may also be killed. *)
InstallVerified ==
  /\ installer.pc = "published"
  /\ \/ NoFault /\ installer' = [installer EXCEPT !.pc = "activate"] /\ UNCHANGED pointer
     \/ Fault /\ installer' = [installer EXCEPT !.pc = "idle"] /\ pointer' = installer.previous
     \/ Fault /\ installer' = [installer EXCEPT !.pc = "idle"] /\ UNCHANGED pointer
  /\ UNCHANGED <<platform, kernel, disk, engine, lost, marker, releases, dispatcher, left, client>>

(* Activation: the service is replaced by the new release's, and started   *)
(* (DispatcherRestarts).                                                   *)
InstallActivate ==
  /\ installer.pc = "activate"
  /\ dispatcher' = [dispatcher EXCEPT !.up = FALSE, !.pc = "idle", !.child = FALSE, !.own = pointer]
  /\ engine' = Orphaned /\ client' = Rejected(client)
  /\ installer' = [installer EXCEPT !.pc = "started"]
  /\ UNCHANGED <<platform, kernel, disk, faults, lost, marker, pointer, releases, left>>

InstallDone ==
  /\ installer.pc = "started" /\ dispatcher.up /\ dispatcher.pc # "recover"
  /\ installer' = [installer EXCEPT !.pc = "idle"]
  /\ UNCHANGED <<backend_vars, marker, pointer, releases, dispatcher, left, client>>

(* rollback_activation: no engine is recorded, and the pointer is still    *)
(* the one that was published.                                             *)
RollbackAllowed ==
  /\ marker = None /\ pointer = installer.published /\ installer.previous \in releases

(* A failed activation: the service is removed and the layout rolled back, *)
(* with the previous service behind it; when the layout cannot be rolled   *)
(* back no service is left.                                                *)
InstallRollback ==
  /\ installer.pc = "started" /\ Fault
  /\ pointer' = IF RollbackAllowed THEN installer.previous ELSE pointer
  /\ dispatcher' = [dispatcher EXCEPT !.up = FALSE, !.pc = "idle", !.child = FALSE,
                                      !.service = RollbackAllowed, !.own = pointer']
  /\ engine' = Orphaned /\ client' = Rejected(client)
  /\ installer' = [installer EXCEPT !.pc = "idle"]
  /\ UNCHANGED <<platform, kernel, disk, lost, marker, releases, left>>

-----------------------------------------------------------------------------
Undisturbed == UNCHANGED <<marker, pointer, releases, dispatcher, installer, client, left>>

EngineSteps ==
  \/ (Unroute /\ Undisturbed) \/ (PlanRoutes /\ Undisturbed)
  \/ (AddRoutes /\ Undisturbed) \/ (CommitRoutes /\ Undisturbed)
  \/ (JournalRules /\ Undisturbed) \/ (AddRules /\ Undisturbed) \/ (Unrule /\ Undisturbed)
  \/ (LinuxLaunch /\ Undisturbed) \/ (MacosLaunch /\ Undisturbed) \/ (WindowsLaunch /\ Undisturbed)
  \/ (LinuxDown /\ Undisturbed) \/ (MacosDown /\ Undisturbed) \/ (WindowsDown /\ Undisturbed)
  \/ (Configure /\ Undisturbed) \/ (WriteConfig /\ Undisturbed) \/ (RemoveFile /\ Undisturbed)
  \/ (CaptureDns /\ Undisturbed) \/ (ApplyDns /\ Undisturbed) \/ (RestoreDns /\ Undisturbed)
  \/ (VerifyEndpoint /\ Undisturbed)

DispatcherSteps ==
  \/ SpawnChild \/ EngineReady \/ ChannelFails \/ StopAnswered \/ EngineClosed \/ Unmark
  \/ RelayAnswered \/ OrphanKilled \/ DispatcherRestarts \/ DispatcherRecovers
  \/ InstallVerified \/ InstallActivate \/ InstallDone

ClientSteps ==
  \/ BindEngine \/ CallService \/ RetryStart \/ ServiceTimeout \/ ClientDies
  \/ \E w \in {"call", "late"} :
       DispatcherStart(w) \/ DispatcherStop(w) \/ Relay(w) \/ ServiceFails(w)

Environment ==
  \/ DispatcherCleanup
  \/ EngineDies \/ DispatcherDies
  \/ InstallPublish \/ InstallRollback
  \/ (EndpointRouteLost /\ Undisturbed) \/ (ForeignRoute /\ Undisturbed)

EngineNext ==
  \/ EngineSteps \/ DispatcherSteps \/ ClientSteps \/ Environment \/ (EndpointWatchdog /\ Undisturbed)

EngineSpec == EngineInit /\ [][EngineNext]_engine_vars

(* Fairness: a live process takes its next step; the guardian kills what a *)
(* dead dispatcher leaves; the service manager restarts the dispatcher     *)
(* (KeepAlive, Restart=always, the SCM's recovery actions).                *)
EngineFairSpec ==
  /\ EngineSpec
  /\ WF_engine_vars(EngineSteps)
  /\ WF_engine_vars(DispatcherSteps)

-----------------------------------------------------------------------------
Ours == {r \in AllRoutes : kernel.table[r] = "ours"}

(* Whatever the engine changes on the machine is written down first, so    *)
(* that the recovery after a crash can undo it: the route journal names    *)
(* every route and rule of ours, the user's own DNS servers are on disk    *)
(* while the tunnel's are set and are never overwritten by them, and the   *)
(* marker is there as long as anything of a tunnel is.  The exceptions are *)
(* the ones `lost` records, among them the marker a failed recovery        *)
(* removes.  And a client that is told its tunnel is stopped can rely on   *)
(* it: no engine is recorded any more, unless a start it gave up on came   *)
(* later.                                                                  *)
ChangesAreRecorded ==
  /\ EngineTypeOK
  /\ Ours \subseteq disk.routes \cup disk.pending \cup lost
  /\ kernel.rules \subseteq disk.rules
  /\ kernel.dns = "tunnel" => disk.dns = "own"
  /\ disk.dns # "tunnel"
  /\ marker = None /\ "marker" \notin lost =>
       /\ Ours \subseteq lost /\ kernel.rules = {}
       /\ kernel.up \subseteq lost /\ kernel.dns = "own"
  /\ client.told = "stopped" /\ "late" \notin lost => marker = None

(* A route somebody else had installed before the helper journaled one of  *)
(* its own is never removed or taken over.                                 *)
ForeignRouteStays ==
  [][\A r \in AllRoutes : kernel.table[r] = "foreign" => kernel'.table[r] = "foreign"]_engine_vars

(* Whatever an interrupted engine left, the dispatcher the service manager *)
(* restarts ends with the marker removed, unless the installer removed the *)
(* service or two interfaces are up at once.                               *)
RecoveryEnds ==
  (marker # None /\ ~dispatcher.up) ~>
    (marker = None \/ dispatcher.child \/ ~dispatcher.service \/ kernel.up = Transports)

=============================================================================
