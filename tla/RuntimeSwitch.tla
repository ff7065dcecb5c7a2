---------------------------- MODULE RuntimeSwitch ----------------------------
(***************************************************************************)
(* The container's runtime switch: the journaled handover of the session   *)
(* and the tunnel from one runtime to another (switch.rs), the selection   *)
(* (selection.rs), the update barrier that stops a runtime before its      *)
(* container is replaced (update.rs), and the parts of the host, the child *)
(* admission and the runtime records they work on.                         *)
(*                                                                         *)
(* Durable: `installed`, `sel`, `journal`, `upd`, `auth`, `rt`.  In memory *)
(* of one incarnation: `host`, `task`, `gate`, `starter`.  `task` is the   *)
(* holder of the coordinator's execution mutex; each of its steps is one   *)
(* durable write, one answer of the panel or one call of the child, and    *)
(* the process may end between any two.  Waiting for the mutex is a call   *)
(* that has not begun.  `gate` is the lifecycle writer gate: a tunnel      *)
(* start holds it from its barrier check to its end, a handoff while it    *)
(* stops the runtime.                                                      *)
(*                                                                         *)
(* The journal's active operation, generation and fingerprint are the      *)
(* frozen request `req`; the cleanup envelope and the receipt follow from  *)
(* the runtime record kept in `snap`.  A retry that is not due is a        *)
(* nondeterministic choice.  `left` bounds the events of the environment.  *)
(***************************************************************************)
EXTENDS TransitionBroker

CONSTANTS Scenarios      \* the budgets of events `left` starts from

VARIABLES installed,     \* the container version on disk
          sel,           \* the persisted selection: container version and slot
          journal,       \* the switch journal
          upd,           \* the update journal
          auth,          \* the protected record, as in TransitionBroker
          rt,            \* the runtime records
          host,          \* the running container
          task,          \* the holder of the execution mutex
          gate,          \* the holder of the lifecycle writer gate
          starter,       \* how far a tunnel start has come
          tunnel,        \* the tunnel runs; it may outlive the process
          installer,     \* the container version an opened installer brings, 0 if none
          panel,         \* the panel (external)
          net,           \* requests sent and not yet handled
          nops,          \* operation ids drawn so far
          left           \* events still to come

durable == <<installed, sel, journal, upd, auth, rt>>
server == <<panel, net>>
vars == <<durable, host, task, gate, starter, tunnel, installer, server, nops, left>>

Events == {"select", "cancel", "update", "start", "crash", "logout", "lost", "busy", "expire",
           "hang", "stray"}

Phases == {"Requested", "CleanupHandedOff", "RuntimeStopping", "LocalStopped",
           "ServerReconciling", "AuthResuming", "Complete"}
Stopped == {"LocalStopped", "ServerReconciling", "AuthResuming"}

(* The runtime a target runs keeps its record: the stable runtime is the   *)
(* same in every container, the latest one is the container's own.         *)
RecordOf(t) == IF t.slot = "stable" THEN 0 ELSE t.cv
Records == {0} \cup Containers

RuntimeRecords == [only : BOOLEAN, scope : Scopes \cup {None}, debt : BOOLEAN]
Empty(r) == [only |-> r, scope |-> None, debt |-> FALSE]

Journals ==
  [op : Ops, src : Scopes, req : Requests, phase : Phases, rid : 0 .. MaxOps,
   dec : Decisions \cup {None}, retry : BOOLEAN, sup : 0 .. MaxOps, suptgt : Targets \cup {None},
   snap : RuntimeRecords, force : BOOLEAN, cancel : BOOLEAN]

UpdateJournals ==
  [op : Ops, src : Scopes, to : Containers, slot : Slots,
   phase : {"Requested", "LocalStopped", "InstallerOpened", "CancelRequested"}]

Wires == [kind : {"reconcile", "recover"}, body : Requests]
           \cup [kind : {"supersede"}, body : Supersedes]
           \cup [kind : {"resume", "replay"}, body : Resumes, epoch : 0 .. MaxEpoch]
           \cup [kind : {"refresh"}, epoch : 0 .. MaxEpoch]

Kinds == {"none", "select", "cancel", "restart", "ready", "start", "update", "undo", "logout"}

Pcs ==
  {"idle", "begin", "source", "handoff", "undo", "requested", "stop", "halt", "stopped",
   "loop", "server", "capture", "intent", "refreshed", "reconciled", "decide", "supersede",
   "superseded", "successor", "acknowledge", "clear", "resume", "resumed", "compare",
   "advance", "bind", "release", "select", "complete", "relaunch", "restore", "finish",
   "erase", "retire", "discharge"}

Replies == {"clean", "retry", "denied", "rejected", "ok", "lost"}

Tasks ==
  [kind : Kinds, slot : Slots, src : Scopes \cup {None}, snap : RuntimeRecords \cup {None},
   wire : Wires \cup {None}, may : BOOLEAN, scope : Scopes \cup {None},
   next : Requests \cup {None}, got : Replies \cup {None}, pc : Pcs]

Idle ==
  [kind |-> "none", slot |-> "latest", src |-> None, snap |-> None, wire |-> None, may |-> FALSE,
   scope |-> None, next |-> None, got |-> None, pc |-> "idle"]

Down == [up |-> "down", cv |-> 1, slot |-> "latest", required |-> FALSE, satisfied |-> FALSE,
         ready |-> FALSE, admitted |-> None]

(* A signed-in session, settled in the latest runtime of container 1.      *)
Home == [epoch |-> 0, tgt |-> [cv |-> 1, slot |-> "latest"], gen |-> 1]

(* The first container is one of the versions, with its latest slot; the   *)
(* absent value and the pending refresh are not records.                   *)
ASSUME SwitchAssumption ==
  /\ 1 \in Containers /\ "latest" \in Slots
  /\ MaxOps \in Nat /\ MaxEpoch \in Nat
  /\ None \notin Resumes /\ Refreshing \notin Resumes /\ None # Refreshing
  /\ None \notin Scopes /\ None \notin Targets /\ None \notin Requests
  /\ None \notin Supersedes /\ None \notin RuntimeRecords /\ None \notin Wires
  /\ None \notin Journals /\ None \notin UpdateJournals /\ None \notin Decisions

Init ==
  /\ installed = 1
  /\ sel = Home.tgt
  /\ journal = None
  /\ upd = None
  /\ auth = [state |-> "Active", epoch |-> 0, tgt |-> Home.tgt, gen |-> 1, auths |-> {},
             pend |-> None, sup |-> None, done |-> None, receipt |-> None]
  /\ rt = [r \in Records |-> IF r = 1 THEN [only |-> FALSE, scope |-> Home, debt |-> FALSE]
                                      ELSE None]
  /\ host = [Down EXCEPT !.up = "up", !.admitted = Home]
  /\ task = Idle
  /\ gate = "free"
  /\ starter = "none"
  /\ tunnel = FALSE
  /\ installer = 0
  /\ panel = [epoch |-> 0, gen |-> 1, tgt |-> Home.tgt, live |-> TRUE, expired |-> FALSE,
              clean |-> {}, next |-> {}, resumed |-> {}]
  /\ net = {}
  /\ nops = 0
  /\ left \in Scenarios

-----------------------------------------------------------------------------
(* What the coordinator reads.                                             *)

Running == host.up = "up"
Here == [cv |-> host.cv, slot |-> host.slot]
Busy == journal # None /\ journal.phase # "Complete"
IsActive == journal.req.op # journal.op
Manifest == [cv : {host.cv}, slot : Slots]

(* desired_slot_from_journal: what an unfinished switch wants of the       *)
(* container version cv.                                                   *)
DesiredSlot(cv) ==
  LET t == IF journal.cancel THEN journal.src.tgt ELSE journal.req.tgt IN
    IF Busy /\ journal.req.tgt.cv = cv /\ t.cv = cv THEN t.slot ELSE sel.slot

Desired == [cv |-> host.cv, slot |-> DesiredSlot(host.cv)]

RestartRequired == Desired # Here \/ sel # Here

StopConfirmed == journal # None /\ journal.phase \in Stopped \cup {"Complete"}

CompletedTarget ==
  IF journal = None \/ journal.phase # "Complete" THEN None
  ELSE IF journal.dec = "apply" THEN journal.req.tgt ELSE journal.src.tgt

(* initial_transition_required: the target required at startup is the slot *)
(* selected then.                                                          *)
InitialRequired ==
  host.required /\ ~host.satisfied /\ CompletedTarget # Here

(* update_start_recovery, and the link of the two journals it validates.   *)
InstalledOther == upd # None /\ host.cv # upd.src.tgt.cv

SwitchLink ==
  LET late == /\ InstalledOther
              /\ upd.phase \in {"LocalStopped", "InstallerOpened"}
              /\ journal.phase \in {"ServerReconciling", "AuthResuming"}
              /\ journal.req.tgt.cv = upd.to \/ (IsActive /\ journal.req.src # journal.src)
      known(t) == t \in Manifest \/ late
  IN  journal # None =>
        /\ journal.op = upd.op
        /\ journal.src = upd.src
        /\ journal.req.tgt = upd.src.tgt \/ known(journal.req.tgt)
        /\ journal.sup = 0 \/ known(journal.suptgt)
        /\ upd.phase \in {"LocalStopped", "InstallerOpened"} => StopConfirmed

UpdateStart ==
  IF upd = None THEN "none"
  ELSE IF ~SwitchLink THEN "invalid"
  ELSE IF InstalledOther THEN "installed"
  ELSE IF upd.phase = "CancelRequested" THEN "cancel" ELSE "blocked"

Provenance ==
  /\ Matches(auth, [op |-> journal.op, src |-> journal.src, tgt |-> journal.src.tgt])
  /\ IsActive => Matches(auth, journal.req)

(* The record cleanup_snapshot_for finds: the one bound to the scope.      *)
Bound(scope) == {r \in Records : rt[r] # None /\ rt[r].scope = scope}

-----------------------------------------------------------------------------
(* Steps of the holder of the mutex.                                       *)

At(pc) == Running /\ task.pc = pc

Go(pc) == task' = [task EXCEPT !.pc = pc, !.wire = None, !.got = None]

Write(j) == journal' = j /\ UNCHANGED <<installed, sel, upd, auth, rt>>
Save(a) == auth' = a /\ UNCHANGED <<installed, sel, journal, upd, rt>>

Keep == UNCHANGED <<host, starter, tunnel, installer>>
Local == UNCHANGED <<gate, server, nops, left>> /\ Keep

Spend(e) == left[e] > 0 /\ left' = [left EXCEPT ![e] = @ - 1]

Fresh == nops < MaxOps /\ nops' = nops + 1

(* The call returns an error or Pending.  prepare_runtime_restart goes on  *)
(* all the same when the stop is confirmed; prepare forgets an update      *)
(* whose switch was never written.                                         *)
Leave ==
  /\ task' = IF task.kind = "restart" /\ RestartRequired /\ StopConfirmed
             THEN [Idle EXCEPT !.kind = "restart", !.pc = "relaunch"] ELSE Idle
  /\ upd' = IF task.kind = "update" /\ ~Busy THEN None ELSE upd
  /\ gate' = IF gate = "switch" THEN "free" ELSE gate
  /\ UNCHANGED <<installed, sel, journal, rt>>

Fail == Leave /\ UNCHANGED <<auth, server, nops, left>> /\ Keep

(* The recovery loop has reached its end.                                  *)
Ready ==
  /\ task' = CASE task.kind \in {"select", "cancel"} -> Idle
               [] task.kind = "undo" -> [task EXCEPT !.pc = "restore"]
               [] task.kind = "restart" ->
                    IF RestartRequired /\ StopConfirmed THEN [task EXCEPT !.pc = "relaunch"]
                                                        ELSE Idle
               [] OTHER -> [task EXCEPT !.pc =
                    IF UpdateStart = "cancel" THEN "restore"
                    ELSE IF InitialRequired THEN "begin" ELSE "finish"]
  /\ UNCHANGED durable /\ Local

-----------------------------------------------------------------------------
(* request_locked and prepare_update_stop: the source, the handoff, the    *)
(* journal, then stop_handoff.                                             *)

(* The guards of request_locked, of a new prepare_update_stop, and of one  *)
(* that finds the update it has already begun.                             *)
RequestAllowed ==
  IF task.kind = "update"
  THEN IF upd = None THEN ~Busy /\ HasSource(auth) /\ auth.tgt = sel
       ELSE /\ Busy /\ journal.op = upd.op
            /\ journal.phase \notin {"ServerReconciling", "AuthResuming"}
  ELSE /\ ~Busy
       /\ upd # None => task.kind \in {"ready", "start"} /\ UpdateStart = "installed"

BeginRequest ==
  /\ At("begin")
  /\ IF RequestAllowed
     THEN /\ Go(IF task.kind = "update" /\ StopConfirmed /\ Busy THEN "finish" ELSE "source")
          /\ UNCHANGED durable /\ Local
     ELSE Fail

TransitionSource ==
  /\ At("source")
  /\ IF HasSource(auth)
     THEN /\ task' = [task EXCEPT !.pc = "handoff", !.src = Scope(auth)]
          /\ UNCHANGED durable /\ Local
     ELSE Fail

(* handoff_cleanup: the child closes its admission and waits for the       *)
(* writers; the snapshot is the record bound to the source.  A recovered   *)
(* stop needs the snapshot it froze.                                       *)
HandoffCleanup ==
  /\ At("handoff")
  /\ gate = "free"
  /\ LET found == Bound(task.src) IN
       IF /\ Cardinality(found) = 1
          /\ RecordOf(task.src.tgt) \in found
          /\ Busy => journal.snap = rt[RecordOf(task.src.tgt)]
       THEN /\ task' = [task EXCEPT !.pc = IF Busy THEN "stop" ELSE "requested",
                                    !.snap = rt[RecordOf(task.src.tgt)]]
            /\ gate' = "switch"
            /\ host' = [host EXCEPT !.admitted = None]
            /\ UNCHANGED <<durable, starter, tunnel, installer, server, nops, left>>
       ELSE /\ Leave
            /\ host' = [host EXCEPT !.admitted = None]
            /\ UNCHANGED <<auth, starter, tunnel, installer, server, nops, left>>

(* SwitchJournalV1::requested.  The update journal is written first, and   *)
(* names the operation the switch journal then begins.                     *)
Requested ==
  /\ At("requested")
  /\ LET op == IF task.kind = "update" /\ upd # None THEN upd.op ELSE nops + 1
         tgt == IF task.kind = "update" THEN task.src.tgt
                                        ELSE [cv |-> host.cv, slot |-> task.slot]
     IN  IF task.kind = "update" /\ upd = None
         THEN /\ Fresh
              /\ \E c \in Containers \ {host.cv} :
                   upd' = [op |-> op, src |-> task.src, to |-> c, slot |-> sel.slot,
                           phase |-> "Requested"]
              /\ task' = task
              /\ UNCHANGED <<installed, sel, journal, auth, rt>>
         ELSE /\ IF task.kind = "update" THEN UNCHANGED nops ELSE Fresh
              /\ Write([op |-> op, src |-> task.src,
                        req |-> [op |-> op, src |-> task.src, tgt |-> tgt],
                        phase |-> "Requested", rid |-> 0, dec |-> None, retry |-> FALSE,
                        sup |-> 0, suptgt |-> None, snap |-> task.snap, force |-> FALSE,
                        cancel |-> FALSE])
              /\ Go("stop")
  /\ UNCHANGED <<gate, server, left>> /\ Keep

StopPhase ==
  /\ At("stop")
  /\ Write([journal EXCEPT !.phase = IF @ = "Requested" THEN "CleanupHandedOff"
                                                       ELSE "RuntimeStopping"])
  /\ Go(IF journal.phase = "Requested" THEN "stop" ELSE "halt")
  /\ Local

(* CoreLocalStop: a stop of the child cancels the start in flight.         *)
CancelStart ==
  /\ starter' = "none"
  /\ gate' = IF gate = "start" THEN "free" ELSE gate

(* The graceful stop, or the forced one when an earlier stop has failed.   *)
StopRuntime ==
  /\ At("halt")
  /\ tunnel' = FALSE
  /\ Go("stopped")
  /\ IF journal.force THEN UNCHANGED <<starter, gate>> ELSE CancelStart
  /\ UNCHANGED <<durable, host, installer, server, nops, left>>

(* The graceful stop fails or runs out of its five seconds, whatever it    *)
(* has stopped; a forced stop that fails ends the call.                    *)
StopFails ==
  /\ At("halt")
  /\ Spend("hang")
  /\ IF journal.force
     THEN Leave /\ UNCHANGED <<auth, tunnel, starter>>
     ELSE /\ tunnel' \in {tunnel, FALSE}
          /\ Write([journal EXCEPT !.force = TRUE])
          /\ CancelStart /\ UNCHANGED task
  /\ UNCHANGED <<host, installer, server, nops>>

(* The receipt and LocalStopped are one write; the handoff is dropped.     *)
StopRecorded ==
  /\ At("stopped")
  /\ Write([journal EXCEPT !.phase = "LocalStopped"])
  /\ Go(IF task.kind = "update" THEN "finish" ELSE "loop")
  /\ gate' = "free"
  /\ UNCHANGED <<server, nops, left>> /\ Keep

-----------------------------------------------------------------------------
(* recover_locked.                                                         *)

Obsolete == journal.phase = "AuthResuming" /\ journal.req.tgt \notin Manifest

RecoverLoop ==
  /\ At("loop")
  /\ IF ~Busy /\ journal = None THEN Ready
     ELSE IF (Obsolete \/ IsActive) /\ UpdateStart \in {"installed", "invalid"}
               /\ ~(UpdateStart = "installed" /\ Provenance)
     THEN Fail
     ELSE LET a == IF Obsolete THEN auth ELSE Retire(auth, journal.op, journal.req.op) IN
            IF ~Busy /\ a = auth THEN Ready
            ELSE /\ CASE journal.phase \in {"Requested", "CleanupHandedOff", "RuntimeStopping"} ->
                           Go("source") /\ Save(a)
                      [] journal.phase = "LocalStopped" ->
                           /\ journal' = [journal EXCEPT !.phase = "ServerReconciling"]
                           /\ auth' = a
                           /\ UNCHANGED <<task, installed, sel, upd, rt>>
                      [] journal.phase = "ServerReconciling" -> Go("server") /\ Save(a)
                      [] journal.phase = "AuthResuming" -> Go("resume") /\ Save(a)
                      [] OTHER -> UNCHANGED task /\ Save(a)
                 /\ Local

(* The retry of the last attempt is not due yet.                           *)
NotDue ==
  /\ At("server")
  /\ journal.retry
  /\ Fail

Reconcile ==
  /\ At("server")
  /\ Write([journal EXCEPT !.retry = TRUE])
  /\ Go("capture")
  /\ Local

(* reconcile_transition: the authority is found or captured.               *)
CaptureAuthority ==
  /\ At("capture")
  /\ LET req == journal.req IN
       IF Holds(auth, req.op)
       THEN IF ~Matches(auth, req) THEN Fail
            ELSE /\ Go(IF Clean(auth, req.op) THEN "decide" ELSE "intent")
                 /\ UNCHANGED durable /\ Local
       ELSE IF ~IsActive /\ MayCapture(auth, req)
            THEN Save(Capture(auth, req)) /\ Go("intent") /\ Local
       ELSE Fail

Send(w) == net' = net \cup {w} /\ UNCHANGED panel

(* The intent is durable before the request is sent.  A rejected access    *)
(* token is first exchanged, once, by a refresh that is not recoverable.   *)
DispatchIntent ==
  /\ At("intent")
  /\ LET req == journal.req
         disp == Authority(auth, req.op).disp
         w == [kind |-> "reconcile", body |-> req]
         r == [kind |-> "refresh", epoch |-> req.src.epoch]
     IN  IF /\ disp \in {"rejected", "captured"}
            /\ ~(HasSource(auth) /\ Scope(auth) = req.src)
         THEN Fail
         ELSE /\ IF disp = "rejected"
                 THEN /\ Save([auth EXCEPT !.pend = Refreshing])
                      /\ task' = [task EXCEPT !.pc = "refreshed", !.wire = r]
                      /\ Send(r)
                 ELSE /\ Save(SetAuthority(auth, req.op, "intent", "none"))
                      /\ task' = [task EXCEPT !.pc = "reconciled", !.wire = w,
                                              !.may = disp \in {"captured", "known"}]
                      /\ Send(w)
              /\ UNCHANGED <<gate, nops, left>> /\ Keep

Reply(pc, set) == At(pc) /\ task.got \in set

Refreshed ==
  /\ Reply("refreshed", {"ok", "rejected", "lost"})
  /\ LET req == journal.req
         w == [kind |-> "reconcile", body |-> req]
     IN  IF task.got = "ok" /\ Active(auth) /\ auth.pend = Refreshing /\ Scope(auth) = req.src
         THEN /\ Save(SetAuthority([auth EXCEPT !.pend = None], req.op, "intent", "none"))
              /\ task' = [task EXCEPT !.pc = "reconciled", !.wire = w, !.got = None, !.may = FALSE]
              /\ Send(w)
              /\ UNCHANGED <<gate, nops, left>> /\ Keep
         ELSE Fail

(* The answer of the panel is saved whatever became of the session: only   *)
(* the authority has to be the one that was sent.                          *)
Reconciled ==
  /\ Reply("reconciled", {"clean", "retry", "denied", "rejected", "lost"})
  /\ LET req == journal.req
         known(rcpt) == SetAuthority(auth, req.op, "known", rcpt)
         unknown == SetAuthority(auth, req.op, "unknown", "none")
         proof == [kind |-> "recover", body |-> req]
     IN  IF ~Matches(auth, req) THEN Fail
         ELSE IF task.got = "clean" THEN Save(known("clean")) /\ Go("decide") /\ Local
         ELSE IF task.got = "denied" /\ task.wire.kind = "reconcile" /\ task.may
         THEN Save(SetAuthority(auth, req.op, "rejected", "none")) /\ Go("intent") /\ Local
         ELSE IF task.got = "denied" /\ task.wire.kind = "reconcile" /\ HasSource(auth)
                   /\ Scope(auth) = req.src
         THEN /\ task' = [task EXCEPT !.wire = proof, !.got = None]
              /\ Send(proof)
              /\ UNCHANGED <<durable, gate, nops, left>> /\ Keep
         ELSE /\ auth' = IF task.got = "retry" THEN known("retry") ELSE unknown
              /\ Leave
              /\ UNCHANGED <<server, nops, left>> /\ Keep

(* What the clean receipt leads to: the prepared resume, or first the      *)
(* supersede of a target the installed container does not want.            *)
Decide ==
  /\ At("decide")
  /\ LET cancel == journal.cancel /\ ~IsActive IN
       IF cancel \/ Desired = journal.req.tgt
       THEN /\ Fresh
            /\ Write([journal EXCEPT !.retry = FALSE, !.rid = nops + 1, !.phase = "AuthResuming",
                                     !.dec = IF cancel THEN "cancel" ELSE "apply"])
            /\ Go("loop")
            /\ UNCHANGED <<gate, server, left>> /\ Keep
       ELSE IF journal.sup = 0
       THEN /\ Fresh
            /\ Write([journal EXCEPT !.sup = nops + 1, !.suptgt = Desired])
            /\ Go("supersede")
            /\ UNCHANGED <<gate, server, left>> /\ Keep
       ELSE IF journal.suptgt = Desired
       THEN Go("supersede") /\ UNCHANGED durable /\ Local
       ELSE Fail

(* supersede_transition: a clean answer that was saved is replayed.        *)
Supersede ==
  /\ At("supersede")
  /\ IF ~MaySupersede(auth, journal.sup, journal.req, journal.suptgt) THEN Fail
     ELSE IF auth.sup # None /\ auth.sup.resp = "clean"
     THEN Go("successor") /\ UNCHANGED durable /\ Local
     ELSE LET t == SupersedeTicket(auth, journal.sup, journal.req, journal.suptgt)
              w == [kind |-> "supersede", body |-> t]
          IN  /\ Save([auth EXCEPT !.sup = t])
              /\ task' = [task EXCEPT !.pc = "superseded", !.wire = w]
              /\ Send(w)
              /\ UNCHANGED <<gate, nops, left>> /\ Keep

SupersedeAnswer ==
  /\ Reply("superseded", {"clean", "retry", "rejected", "lost"})
  /\ IF task.got \in {"clean", "retry"} /\ auth.sup = task.wire.body /\ HasSource(auth)
          /\ Scope(auth) = auth.sup.src
     THEN IF task.got = "retry"
          THEN /\ auth' = [auth EXCEPT !.sup.resp = "retry"]
               /\ Leave
               /\ UNCHANGED <<server, nops, left>> /\ Keep
          ELSE IF Cardinality(auth.auths) < MaxAuthorities
          THEN Save(Superseded(auth, journal.sup)) /\ Go("successor") /\ Local
          ELSE Fail
     ELSE Fail

(* The successor becomes the journal's request, ready to resume.           *)
Successor ==
  /\ At("successor")
  /\ IF HasSource(auth)
     THEN /\ Fresh
          /\ Write([journal EXCEPT !.req = [op |-> journal.sup, src |-> Scope(auth),
                                            tgt |-> journal.suptgt],
                                   !.retry = FALSE, !.rid = nops + 1, !.dec = "apply",
                                   !.phase = "AuthResuming"])
          /\ Go("acknowledge")
          /\ UNCHANGED <<gate, server, left>> /\ Keep
     ELSE Fail

FinishSupersede ==
  /\ At("acknowledge")
  /\ IF auth.sup = None \/ (auth.sup.op = journal.sup /\ auth.sup.resp = "clean")
     THEN Save([auth EXCEPT !.sup = None]) /\ Go("clear") /\ Local
     ELSE Fail

ClearSupersede ==
  /\ At("clear")
  /\ Write([journal EXCEPT !.sup = 0, !.suptgt = None])
  /\ Go("loop")
  /\ Local

-----------------------------------------------------------------------------
(* AuthResuming.                                                           *)

ResumeArgs ==
  [op |-> journal.rid, of |-> journal.req.op, dec |-> journal.dec, gen |-> journal.req.src.gen,
   tgt |-> IF journal.dec = "apply" THEN journal.req.tgt ELSE journal.src.tgt]

Cancellable ==
  journal.cancel /\ journal.dec = "apply" /\ ~IsActive

Undispatched(op) ==
  auth.pend = None /\ Authority(auth, op).ticket = None

(* A prepared resume that was never sent may still become a cancellation.  *)
CancelPrepared ==
  /\ At("resume")
  /\ Cancellable
  /\ Active(auth) /\ Holds(auth, journal.req.op) /\ Undispatched(journal.req.op)
  /\ Fresh
  /\ Write([journal EXCEPT !.dec = "cancel", !.rid = nops + 1, !.retry = FALSE])
  /\ Go("loop")
  /\ UNCHANGED <<gate, server, left>> /\ Keep

(* resume_transition_inner: known evidence is returned, a resume of a      *)
(* session that has ended is replayed with its archived ticket, and only   *)
(* the installed target may dispatch a new one.                            *)
Resume ==
  /\ At("resume")
  /\ LET t == ResumeArgs
         e == Authority(auth, t.of)
         historical == e.req.src # Scope(auth)
         w == [kind |-> IF historical THEN "replay" ELSE "resume", body |-> t,
               epoch |-> e.req.src.epoch]
     IN  IF Cancellable /\ ~(Active(auth) /\ Holds(auth, t.of)) THEN Fail
         ELSE IF Cancellable /\ Undispatched(t.of) THEN FALSE
         ELSE IF journal.sup # 0 /\ IsActive /\ journal.req.tgt = journal.suptgt
         THEN Go("acknowledge") /\ UNCHANGED durable /\ Local
         ELSE IF \/ ~Clean(auth, t.of) \/ e.req.src.gen # t.gen \/ ResumeTarget(e, t.dec) # t.tgt
         THEN Fail
         ELSE IF e.ev
         THEN IF e.ticket.op # t.op \/ e.ticket.dec # t.dec THEN Fail
              ELSE LET current == /\ auth.done # None /\ auth.done.ticket.op = t.op
                                  /\ Scope(auth) = EvidenceScope(e)
                   IN  IF current /\ ~Active(auth) THEN Fail
                       ELSE /\ task' = [task EXCEPT !.pc = "compare",
                                          !.scope = IF current THEN Scope(auth) ELSE None]
                            /\ UNCHANGED durable /\ Local
         ELSE IF \/ historical /\ e.ticket # t
                 \/ ~historical /\ ~MayResume(auth, t, t.tgt = Here)
         THEN Fail
         ELSE /\ Save(IF historical THEN auth ELSE [auth EXCEPT !.pend = t])
              /\ task' = [task EXCEPT !.pc = "resumed", !.wire = w]
              /\ Send(w)
              /\ UNCHANGED <<gate, nops, left>> /\ Keep

(* Mutant: the ticket of a resume without an answer is dropped.            *)
ResumeAnswer_Dropped ==
  /\ Reply("resumed", {"lost"})
  /\ Save([auth EXCEPT !.pend = None])
  /\ Go("loop") /\ Local

ResumeAnswer ==
  /\ Reply("resumed", {"ok", "rejected", "lost"})
  /\ LET t == task.wire.body
         e == Authority(auth, t.of)
     IN  IF task.got = "ok" /\ task.wire.kind = "replay" /\ Holds(auth, t.of) /\ e.ticket = t
              /\ ~e.ev
         THEN /\ Save(WithAuthority(auth, [e EXCEPT !.ev = TRUE]))
              /\ task' = [task EXCEPT !.pc = "compare", !.wire = None, !.got = None, !.scope = None]
              /\ Local
         ELSE IF task.got = "ok" /\ task.wire.kind = "resume" /\ Active(auth) /\ auth.pend = t
         THEN /\ Save(Resumed(auth, t))
              /\ task' = [task EXCEPT !.pc = "compare", !.wire = None, !.got = None,
                                      !.scope = Scope(Resumed(auth, t))]
              /\ Local
         ELSE Fail

(* The session has arrived at a runtime the container no longer wants: a   *)
(* new request from there is captured before the journal names it.         *)
Reprepare ==
  /\ At("compare")
  /\ LET fresh == [op |-> nops + 1, src |-> Scope(auth), tgt |-> Desired] IN
       IF journal.dec = "cancel" \/ ResumeArgs.tgt = Desired
       THEN IF task.scope = None THEN Fail
            ELSE Go("bind") /\ UNCHANGED durable /\ Local
       ELSE IF MayReprepare(auth, journal.req, journal.rid, fresh)
       THEN /\ IF OfScope(auth) = {} THEN Save(Capture(auth, fresh)) /\ Fresh
                                     ELSE Save(auth) /\ UNCHANGED nops
            /\ task' = [task EXCEPT !.pc = "advance", !.next = Reprepared(auth, fresh)]
            /\ UNCHANGED <<gate, server, left>> /\ Keep
       ELSE Fail

(* Mutant: the new request keeps the resume of the one before it.          *)
AdvanceRequest_KeepsResume ==
  /\ At("advance")
  /\ Write([journal EXCEPT !.req = task.next, !.phase = "ServerReconciling"])
  /\ Go("loop") /\ Local

AdvanceRequest ==
  /\ At("advance")
  /\ Write([journal EXCEPT !.req = task.next, !.rid = 0, !.dec = None, !.retry = FALSE, !.sup = 0,
                           !.suptgt = None, !.phase = "ServerReconciling"])
  /\ Go("loop")
  /\ Local

-----------------------------------------------------------------------------
(* complete_cleanup_and_admit, the selection and the end of the switch.    *)

Binding(scope) == [only |-> FALSE, scope |-> scope, debt |-> FALSE]

(* complete_empty_cleanup_and_bind accepts an empty record of nobody.      *)
Bindable(r, scope) == rt[r] # None /\ ~rt[r].debt
                        /\ (rt[r].scope = None \/ rt[r] = Binding(scope))

(* The target is bound before the source is cleared; the lease holds the   *)
(* writers until the grant.  A source that no longer is what was frozen    *)
(* has to be the completed cleanup itself.                                 *)
BindTarget ==
  /\ At("bind")
  /\ gate = "free"
  /\ LET to == RecordOf(Here)
         from == RecordOf(journal.src.tgt)
         ok == IF rt[from] = journal.snap THEN from = to \/ Bindable(to, task.scope)
               ELSE IF from = to THEN rt[to] = Binding(task.scope)
               ELSE rt[from] = Empty(FALSE) /\ Bindable(to, task.scope)
     IN  IF task.scope.tgt = Here /\ ok
         THEN /\ rt' = [rt EXCEPT ![to] = Binding(task.scope)]
              /\ task' = [task EXCEPT !.pc = "release"]
              /\ gate' = "switch"
              /\ host' = [host EXCEPT !.admitted = None]
              /\ UNCHANGED <<installed, sel, journal, upd, auth, starter, tunnel, installer,
                             server, nops, left>>
         ELSE Fail

ReleaseSource ==
  /\ At("release")
  /\ LET to == RecordOf(Here)
         from == RecordOf(journal.src.tgt)
     IN  IF gate = "switch" /\ Active(auth) /\ Scope(auth) = task.scope
         THEN /\ rt' = IF from = to \/ rt[from] # journal.snap THEN rt
                       ELSE [rt EXCEPT ![from] = Empty(FALSE)]
              /\ host' = [host EXCEPT !.admitted = task.scope]
              /\ gate' = "free"
              /\ task' = [task EXCEPT !.pc = "select"]
              /\ UNCHANGED <<installed, sel, journal, upd, auth, starter, tunnel, installer,
                             server, nops, left>>
         ELSE Fail

FinishSelection ==
  /\ At("select")
  /\ sel' = [cv |-> host.cv, slot |-> ResumeArgs.tgt.slot]
  /\ Go("complete")
  /\ UNCHANGED <<installed, journal, upd, auth, rt>> /\ Local

Complete ==
  /\ At("complete")
  /\ Write([journal EXCEPT !.phase = "Complete"])
  /\ Go("loop")
  /\ Local

-----------------------------------------------------------------------------
(* The calls that take the mutex.                                          *)

Call(kind, pc) ==
  /\ Running /\ task = Idle
  /\ task' = [Idle EXCEPT !.kind = kind, !.pc = pc, !.slot = host.slot]

Quiet == UNCHANGED <<durable, gate, server, nops>> /\ Keep

(* RuntimeSelect, which the UI offers for the other slot.                  *)
Select ==
  /\ Running /\ task = Idle
  /\ Spend("select")
  /\ \E slot \in Slots \ {host.slot} :
       task' = [Idle EXCEPT !.kind = "select", !.pc = "begin", !.slot = slot]
  /\ Quiet

(* cancel_pending_for the running target.                                  *)
CancelPending ==
  /\ Spend("cancel")
  /\ upd = None /\ journal # None /\ journal.src.tgt = Here
  /\ IF Busy
     THEN /\ Call("cancel", "loop")
          /\ Write([journal EXCEPT !.cancel = TRUE])
          /\ UNCHANGED <<gate, server, nops>> /\ Keep
     ELSE /\ journal.dec = "apply" /\ journal.req.tgt.slot # host.slot
          /\ Call("cancel", "begin")
          /\ Quiet

(* prepare_runtime_restart, then the relaunch of the process.              *)
Restart ==
  /\ upd = None /\ RestartRequired
  /\ Call("restart", IF StopConfirmed THEN "relaunch" ELSE "loop")
  /\ Quiet /\ UNCHANGED left

Relaunch ==
  /\ At("relaunch")
  /\ sel' = Desired
  /\ task' = Idle
  /\ host' = Down
  /\ gate' = "free"
  /\ starter' = "none"
  /\ UNCHANGED <<installed, journal, upd, auth, rt, tunnel, installer, server, nops, left>>

(* before_tunnel_start_locked_for: a tunnel start gives the running target *)
(* and stops at a required restart.  RuntimeReady gives none, comes after  *)
(* the recovery of a logout and of a pending refresh, and is repeated by   *)
(* the UI while it is not admitted or a switch is under way.               *)
BeforeTunnelStart(kind) ==
  /\ kind = "start" => ~RestartRequired /\ starter = "none" /\ ~tunnel
  /\ kind = "ready" => /\ ~host.ready /\ (host.admitted = None \/ Busy)
                       /\ auth.state # "Pending" => auth.receipt = None
                       /\ auth.pend # Refreshing
  /\ UpdateStart \in {"none", "cancel", "installed"}
  /\ Call(kind, IF UpdateStart = "cancel" THEN "undo" ELSE "loop")
  /\ Quiet

BecomeReady == BeforeTunnelStart("ready") /\ UNCHANGED left

BeginStart == BeforeTunnelStart("start") /\ Spend("start")

(* UpdateBarrier::prepare; an update that is already stopped is left.      *)
PrepareUpdate ==
  /\ Spend("update")
  /\ upd # None => /\ ~InstalledOther /\ SwitchLink
                   /\ upd.phase \in {"Requested", "CancelRequested"}
  /\ Call("update", "begin")
  /\ Quiet

InstallerOpened ==
  /\ Running /\ task.kind \notin {"update", "undo"}
  /\ upd # None /\ upd.phase = "LocalStopped" /\ ~InstalledOther
  /\ SwitchLink /\ journal # None /\ journal.phase = "LocalStopped"
  /\ upd' = [upd EXCEPT !.phase = "InstallerOpened"]
  /\ installer' = upd.to
  /\ UNCHANGED <<installed, sel, journal, auth, rt, host, task, gate, starter, tunnel, server,
                 nops, left>>

(* installer_failed, and recover_before in the container that was to be    *)
(* replaced.                                                               *)
InstallerFailed ==
  /\ upd # None /\ ~InstalledOther
  /\ Call("undo", "undo")
  /\ upd' = [upd EXCEPT !.phase = "CancelRequested"]
  /\ UNCHANGED <<installed, sel, journal, auth, rt, gate, server, nops, left>> /\ Keep

(* cancel_update_stop_locked.                                              *)
CancelUpdateStop ==
  /\ At("undo")
  /\ IF journal = None \/ (journal.op # upd.op /\ ~Busy) \/ (~Busy /\ journal.dec = "cancel")
     THEN Go("restore") /\ UNCHANGED durable /\ Local
     ELSE IF journal.op # upd.op \/ ~Busy THEN Fail
     ELSE Write([journal EXCEPT !.cancel = TRUE]) /\ Go("loop") /\ Local

RestoreSelection ==
  /\ At("restore")
  /\ sel' = [cv |-> host.cv, slot |-> upd.slot]
  /\ Go("finish")
  /\ UNCHANGED <<installed, journal, upd, auth, rt>> /\ Local

(* The last step of an update, of its undoing and of a start's preflight.  *)
Finish ==
  /\ At("finish")
  /\ IF task.kind = "update" /\ ~(upd # None /\ SwitchLink /\ upd.op = journal.op) THEN Fail
     ELSE /\ upd' = IF task.kind = "update" THEN [upd EXCEPT !.phase = "LocalStopped"] ELSE None
          /\ host' = [host EXCEPT !.satisfied = @ \/ (task.kind \in {"ready", "start"}
                                                        /\ UpdateStart # "cancel"),
                                  !.ready = @ \/ task.kind = "ready"]
          /\ starter' = IF task.kind = "start" THEN "checked" ELSE starter
          /\ task' = Idle
          /\ UNCHANGED <<installed, sel, journal, auth, rt, gate, tunnel, installer, server, nops,
                         left>>

-----------------------------------------------------------------------------
(* Admission and the tunnel, outside the mutex.                            *)

(* admit_current_after, at the end of RuntimeReady: an empty record is     *)
(* bound to the session; a record that needs cleanup refuses.              *)
AdmitCurrent ==
  /\ Running /\ host.ready /\ gate = "free"
  /\ LET r == RecordOf(Here)
         scope == Scope(auth)
         bound == rt[r].scope = scope /\ ~rt[r].only
         ok == Active(auth) /\ auth.tgt = Here /\ (bound \/ (~rt[r].only /\ ~rt[r].debt))
     IN  /\ rt' = IF ok /\ ~bound THEN [rt EXCEPT ![r] = Binding(scope)] ELSE rt
         /\ host' = [host EXCEPT !.ready = FALSE, !.admitted = IF ok THEN scope ELSE @]
  /\ UNCHANGED <<installed, sel, journal, upd, auth, task, gate, starter, tunnel, installer, server,
                 nops, left>>

(* check_start_barrier under the writer gate, with the child's own check   *)
(* of its admission.                                                       *)
StartBarrier ==
  /\ Running /\ starter = "checked" /\ gate = "free"
  /\ IF /\ ~Busy /\ upd = None /\ ~InitialRequired
        /\ Active(auth) /\ host.admitted = Scope(auth) /\ auth.tgt = Here
     THEN starter' = "starting" /\ gate' = "start"
     ELSE starter' = "none" /\ gate' = gate
  /\ UNCHANGED <<durable, host, task, tunnel, installer, server, nops, left>>

(* The start leaves a lease in its record and may or may not bring the     *)
(* tunnel up.                                                              *)
StartTunnel ==
  /\ Running /\ starter = "starting"
  /\ tunnel' \in BOOLEAN
  /\ rt' = [rt EXCEPT ![RecordOf(Here)].debt = TRUE]
  /\ starter' = "none"
  /\ gate' = IF gate = "start" THEN "free" ELSE gate
  /\ UNCHANGED <<installed, sel, journal, upd, auth, host, task, installer, server, nops, left>>

StopTunnel ==
  /\ Running /\ gate = "free" /\ host.admitted = Scope(auth) /\ rt[RecordOf(Here)].debt
  /\ tunnel' = FALSE
  /\ rt' = [rt EXCEPT ![RecordOf(Here)].debt = FALSE]
  /\ UNCHANGED <<installed, sel, journal, upd, auth, host, task, gate, starter, installer, server,
                 nops, left>>

-----------------------------------------------------------------------------
(* Logout, its cleanup and the next login.                                 *)

(* logout_inner: the fence revokes the child, whose leases are dropped.    *)
Logout ==
  /\ Running /\ Active(auth) /\ auth.epoch + 2 <= MaxEpoch
  /\ Spend("logout")
  /\ auth' = LogoutFence(auth)
  /\ host' = [host EXCEPT !.admitted = None]
  /\ gate' = IF gate = "switch" THEN "free" ELSE gate
  /\ UNCHANGED <<installed, sel, journal, upd, rt, task, starter, tunnel, installer, server, nops>>

LogoutStops ==
  /\ Running /\ auth.state = "Pending" /\ (tunnel \/ starter # "none")
  /\ tunnel' = FALSE
  /\ CancelStart
  /\ UNCHANGED <<durable, host, task, installer, server, nops, left>>

LogoutAnswered ==
  /\ Running /\ auth.state = "Pending"
  /\ auth' = LogoutDone(auth)
  /\ panel' = [panel EXCEPT !.live = FALSE]
  /\ UNCHANGED <<installed, sel, journal, upd, rt, host, task, gate, starter, tunnel, installer,
                 net, nops, left>>

(* recover_logout: stop, clear the exact record, retire the journal the    *)
(* logout covers, and only then forget the receipt.                        *)
RecoverLogout ==
  /\ auth.state = "LoggedOut" /\ auth.receipt # None
  /\ Call("logout", "erase")
  /\ Quiet /\ UNCHANGED left

CompleteLogout ==
  /\ At("erase") /\ gate = "free"
  /\ LET r == RecordOf(auth.receipt.tgt) IN
       IF auth.state = "LoggedOut" /\ rt[r] # None
            /\ (rt[r] = Empty(FALSE) \/ rt[r].scope = auth.receipt)
       THEN /\ rt' = [rt EXCEPT ![r] = Empty(FALSE)]
            /\ tunnel' = FALSE
            /\ Go("retire")
            /\ gate' = "switch"
            /\ starter' = "none"
            /\ host' = [host EXCEPT !.admitted = None]
            /\ UNCHANGED <<installed, sel, journal, upd, auth, installer, server, nops, left>>
       ELSE Fail

CoveredByLogout ==
  \/ journal.src = auth.receipt
  \/ /\ Holds(auth, journal.op)
     /\ Authority(auth, journal.op).req.src = journal.src
     /\ journal.src.epoch = auth.receipt.epoch

RetireLogoutJournal ==
  /\ At("retire")
  /\ IF auth.receipt = None THEN Fail
     ELSE /\ Go("discharge")
          /\ IF journal # None /\ ~CoveredByLogout
             THEN UNCHANGED <<sel, journal, host>>
             ELSE /\ sel' = [cv |-> host.cv, slot |-> sel.slot]
                  /\ journal' = None
                  /\ host' = [host EXCEPT !.satisfied = TRUE]
          /\ UNCHANGED <<installed, upd, auth, rt, gate, starter, tunnel, installer, server,
                         nops, left>>

FinishLogout ==
  /\ At("discharge")
  /\ auth' = [auth EXCEPT !.receipt = None,
                          !.sup = IF @ # None /\ @.src.epoch = auth.receipt.epoch THEN None ELSE @]
  /\ task' = Idle
  /\ gate' = IF gate = "switch" THEN "free" ELSE gate
  /\ UNCHANGED <<installed, sel, journal, upd, rt, server, nops, left>> /\ Keep

(* A password login: the writers are quiet, the tunnel is stopped first,   *)
(* and the new session is bound if the record takes it.                    *)
Login ==
  /\ Running /\ auth.state = "LoggedOut" /\ gate = "free"
  /\ LET scope == [epoch |-> auth.epoch + 1, tgt |-> Here, gen |-> 1]
         r == RecordOf(Here)
         ok == ~rt[r].only /\ ~rt[r].debt
     IN  /\ auth' = [auth EXCEPT !.state = "Active", !.epoch = scope.epoch, !.tgt = scope.tgt,
                                 !.gen = 1, !.done = None]
         /\ panel' = [panel EXCEPT !.epoch = scope.epoch, !.tgt = scope.tgt, !.gen = 1,
                                   !.live = TRUE, !.expired = FALSE]
         /\ rt' = IF ok THEN [rt EXCEPT ![r] = Binding(scope)] ELSE rt
         /\ host' = [host EXCEPT !.admitted = IF ok THEN scope ELSE None]
  /\ tunnel' = FALSE
  /\ starter' = "none"
  /\ UNCHANGED <<installed, sel, journal, upd, task, gate, installer, net, nops, left>>

-----------------------------------------------------------------------------
(* The process and the panel.                                              *)

Crash ==
  /\ host.up # "down"
  /\ Spend("crash")
  /\ host' = Down
  /\ task' = Idle
  /\ gate' = "free"
  /\ starter' = "none"
  /\ tunnel' \in {tunnel, FALSE}
  /\ UNCHANGED <<durable, installer, server, nops>>

(* The installer ends the processes of the container it replaces.  It may  *)
(* be a stray one, whose update was cancelled while it was open.           *)
Install ==
  /\ installer # 0
  /\ IF upd # None /\ upd.phase = "InstallerOpened" THEN UNCHANGED left ELSE Spend("stray")
  /\ installed' = installer
  /\ installer' = 0
  /\ host' = Down
  /\ task' = Idle
  /\ gate' = "free"
  /\ starter' = "none"
  /\ tunnel' = FALSE
  /\ UNCHANGED <<sel, journal, upd, auth, rt, server, nops>>

(* SelectedInstall::prepare: another container version starts in its       *)
(* latest slot; otherwise the unfinished switch decides.                   *)
BootSlot == IF sel.cv # installed THEN "latest" ELSE DesiredSlot(installed)

(* Storage first: a runtime seen for the first time may only clean up.     *)
BootStorage ==
  /\ host.up = "down"
  /\ LET t == [cv |-> installed, slot |-> BootSlot] IN
       /\ rt' = IF rt[RecordOf(t)] = None THEN [rt EXCEPT ![RecordOf(t)] = Empty(TRUE)] ELSE rt
       /\ host' = [Down EXCEPT !.up = "stored", !.cv = t.cv, !.slot = t.slot,
                               !.required = sel.cv # installed \/ rt[RecordOf(t)] = None
                                              \/ rt[RecordOf(t)].only]
  /\ UNCHANGED <<installed, sel, journal, upd, auth, task, gate, starter, tunnel, installer, server,
                 nops, left>>

BootSelection ==
  /\ host.up = "stored"
  /\ sel' = Here
  /\ host' = [host EXCEPT !.up = "up"]
  /\ UNCHANGED <<installed, journal, upd, auth, rt, task, gate, starter, tunnel, installer, server,
                 nops, left>>

Answers(w) ==
  CASE w.kind = "reconcile" -> PanelReconcile(panel, w.body, "access", left["busy"] > 0)
    [] w.kind = "recover" -> PanelReconcile(panel, w.body, "refresh", left["busy"] > 0)
    [] w.kind = "supersede" -> PanelSupersede(panel, w.body, left["busy"] > 0)
    [] w.kind = "refresh" ->
         {IF panel.live /\ w.epoch = panel.epoch
          THEN <<"ok", [panel EXCEPT !.expired = FALSE]>> ELSE <<"rejected", panel>>}
    [] OTHER -> PanelResume(panel, w.body, w.epoch)

(* A request is handled, while its caller waits or after it has gone.      *)
Handle ==
  \E w \in net : \E answer \in Answers(w) :
    /\ net' = net \ {w}
    /\ panel' = answer[2]
    /\ task' = IF task.wire = w /\ task.got = None THEN [task EXCEPT !.got = answer[1]] ELSE task
    /\ left' = IF answer[1] = "retry" THEN [left EXCEPT !["busy"] = @ - 1] ELSE left
    /\ UNCHANGED <<durable, host, gate, starter, tunnel, installer, nops>>

(* The caller's HTTP request ends without an answer.                       *)
GiveUp ==
  /\ task.wire # None /\ task.got = None
  /\ Spend("lost")
  /\ task' = [task EXCEPT !.got = "lost"]
  /\ UNCHANGED <<durable, host, gate, starter, tunnel, installer, server, nops>>

AccessExpires ==
  /\ ~panel.expired /\ panel.live
  /\ Spend("expire")
  /\ panel' = [panel EXCEPT !.expired = TRUE]
  /\ UNCHANGED <<durable, host, task, gate, starter, tunnel, installer, net, nops>>

-----------------------------------------------------------------------------

Step ==
  \/ BeginRequest \/ TransitionSource \/ HandoffCleanup \/ Requested
  \/ StopPhase \/ StopRuntime \/ StopRecorded
  \/ RecoverLoop \/ Reconcile \/ CaptureAuthority \/ DispatchIntent \/ Refreshed \/ Reconciled
  \/ Decide \/ Supersede \/ SupersedeAnswer \/ Successor \/ FinishSupersede \/ ClearSupersede
  \/ CancelPrepared \/ Resume \/ ResumeAnswer \/ Reprepare \/ AdvanceRequest
  \/ BindTarget \/ ReleaseSource \/ FinishSelection \/ Complete
  \/ Relaunch \/ CancelUpdateStop \/ RestoreSelection \/ Finish
  \/ CompleteLogout \/ RetireLogoutJournal \/ FinishLogout

Recovering ==
  Restart \/ BecomeReady \/ InstallerFailed \/ RecoverLogout \/ AdmitCurrent

Environment ==
  \/ Select \/ CancelPending \/ PrepareUpdate \/ InstallerOpened \/ Install \/ BeginStart
  \/ StartBarrier \/ StartTunnel \/ StopTunnel \/ StopFails \/ NotDue
  \/ Logout \/ LogoutStops \/ LogoutAnswered \/ Login
  \/ Crash \/ BootStorage \/ BootSelection \/ Handle \/ GiveUp \/ AccessExpires

Next == Step \/ Recovering \/ Environment

Spec == Init /\ [][Next]_vars

(* The UI repeats RuntimeReady and relaunches, the broker's requests are   *)
(* answered or time out, a retry becomes due (retry_delay is bounded), and *)
(* a started process boots.                                                *)
Fairness ==
  /\ WF_vars(Step) /\ WF_vars(Handle) /\ WF_vars(BootStorage \/ BootSelection)
  /\ WF_vars(StartBarrier \/ StartTunnel) /\ WF_vars(AdmitCurrent)
  /\ SF_vars(Restart) /\ SF_vars(BecomeReady) /\ SF_vars(InstallerFailed) /\ SF_vars(Reconcile)
  /\ WF_vars(LogoutAnswered) /\ SF_vars(RecoverLogout)

FairSpec == Spec /\ Fairness

-----------------------------------------------------------------------------
(* Properties.                                                             *)

(* The types the records are read back into, and those of the memory.      *)
TypeOK ==
  /\ installed \in Containers /\ sel \in Targets
  /\ journal \in Journals \cup {None}
  /\ upd \in UpdateJournals \cup {None}
  /\ auth \in AuthRecords
  /\ rt \in [Records -> RuntimeRecords \cup {None}]
  /\ task \in Tasks
  /\ panel \in Panels /\ net \subseteq Wires

(* validate_journal and validate_runtime_snapshot, as load_journal applies *)
(* them.                                                                   *)
ValidateJournal ==
  /\ (journal.rid # 0) = (journal.dec # None)
  /\ (journal.sup # 0) = (journal.suptgt # None)
  /\ journal.sup # 0 => journal.phase \in {"ServerReconciling", "AuthResuming"}
  /\ (journal.phase \in {"AuthResuming", "Complete"}) = (journal.rid # 0)
  /\ journal.snap.scope = journal.src /\ ~journal.snap.only

(* What is saved can be loaded: after every durable write, and so after a  *)
(* crash at any point, the switch journal passes validate_journal, the     *)
(* protected record passes AuthStoreV1::validate with the lineage of its   *)
(* superseded authorities, and an update whose switch is still there finds *)
(* it linked (validate_switch_link), in either container.                  *)
SavedStateLoads ==
  /\ TypeOK
  /\ journal # None => ValidateJournal
  /\ ValidateAuth(auth)
  /\ Running /\ upd # None /\ journal # None => (journal.op = upd.op => SwitchLink)

(* Client, panel and runtime agree on the session: the one the client      *)
(* holds and the one the panel knows differ by at most the one resume that *)
(* is pending in the protected record, and once nothing is pending and no  *)
(* first transition is owed the running runtime is the session's own and,  *)
(* within one login, its record is bound to exactly that session           *)
(* (resume, bind_target, release_source).                                  *)
SessionIsAgreed ==
  Active(auth) =>
    /\ auth.epoch = panel.epoch =>
         \/ Scope(auth) = PanelScope(panel)
         \/ /\ auth.pend \in panel.resumed
            /\ panel.gen = auth.gen + 1 /\ panel.tgt = auth.pend.tgt
    /\ Running /\ task = Idle /\ ~Busy /\ upd = None /\ ~InitialRequired =>
         /\ auth.tgt = Here
         /\ auth.epoch = 0 => rt[RecordOf(Here)].scope = Scope(auth)

H == INSTANCE Handover
       WITH session <- IF Active(auth) THEN Scope(auth) ELSE None,
            epoch <- auth.epoch,
            running <- tunnel \/ starter = "starting"

(* The switch with all its durable steps, crashes and lost answers looks   *)
(* like one atomic move of the session between runtimes, and a tunnel runs *)
(* only outside of it (the handshake of switch.rs with auth_broker.rs).    *)
HandoverSpec == H!Spec

(* The source's record is not what the handoff froze: a RuntimeReady that  *)
(* had passed the barrier admitted the runtime again, outside the mutex,   *)
(* and the runtime then cleared its lease.                                 *)
Thawed ==
  /\ Busy
  /\ LET r == rt[RecordOf(journal.src.tgt)] IN r.scope = journal.src /\ r # journal.snap

(* An installer went on although its update was cancelled: the new         *)
(* container cannot send the resume it finds prepared, or finds the update *)
(* journal naming a switch that is over.                                   *)
Stranded ==
  /\ Busy
  /\ \/ upd # None /\ upd.op # journal.op
     \/ journal.phase = "AuthResuming" /\ ResumeArgs.tgt.cv # installed /\ auth.pend # ResumeArgs

(* The refresh of a transition was sent and its answer lost: the pair is   *)
(* spent, and only a logout ends the session.                              *)
Unrefreshed == auth.pend = Refreshing

(* A login was accepted before the cleanup of the logout before it: every  *)
(* later RuntimeReady refuses the old receipt.                             *)
Undischarged == auth.receipt # None

(* The switch of a session that stays signed in ends, whatever answers are *)
(* lost and wherever the process ends, once the UI keeps asking and the    *)
(* panel answers: no journal, authority or record left behind blocks the   *)
(* next attempt, but for the four cases above.                             *)
SwitchEnds ==
  Busy ~> (~Busy \/ ~Active(auth) \/ Thawed \/ Stranded \/ Unrefreshed \/ Undischarged)
=============================================================================
