------------------------- MODULE HostUpdaterProofs -------------------------
(***************************************************************************)
(* For every set of packages and versions, on both platforms and for every *)
(* budget of events: what is handed to the native installer is what the    *)
(* user said Yes to, and Yes, Later and Manual are not lost or overtaken.  *)
(***************************************************************************)
EXTENDS HostUpdater, TLAPS

InstallPcs ==
  {"install_stop", "install_stopping", "install_check", "installing", "install_opened",
   "install_cancel", "install_cancelling", "install_finish"}
PackedPcs ==
  {"drive_cached", "drive_admit", "drive_store", "drive_ready", "drive_fresh", "drive_gate",
   "drive_decide"} \cup InstallPcs
DrivePcs == {"drive_begin", "drive_download", "downloading"} \cup PackedPcs
GatePcs == {"drive_decide", "recover_cancel"} \cup InstallPcs
CheckedPcs == {"check_bootstrap", "check_resolve", "check_publish"}
StoppedPcs == {"install_check", "installing", "install_opened", "install_cancel"}
Pcs ==
  {"none", "check_token", "check_bootstrap", "check_resolve", "check_publish", "check_settle",
   "check_failed", "drive_token", "recover_gate", "recover_cancel", "recover_done",
   "recover_failed", "reset"} \cup DrivePcs

Updaters ==
  [operation : Operations, manual : BOOLEAN, startup : BOOLEAN, checked : BOOLEAN, automatic : BOOLEAN]
Coordinators ==
  [phase : Phases, offer : BoundOffers \cup {None}, prepared : Packages \cup {None},
   consent : BOOLEAN, automatic : BOOLEAN, deferred : Versions \cup {None},
   presented : SUBSET Versions, foreground : BOOLEAN, ids : Nat]
Tasks ==
  [pc : Pcs, access : Accesses \cup {None}, offer : BoundOffers \cup {None},
   package : Packages \cup {None}, ok : BOOLEAN]

Types ==
  /\ setup \in [android : BOOLEAN, version : [Packages -> Versions]]
  /\ auth \in [epoch : Nat, token : Nat, active : BOOLEAN, revoking : BOOLEAN]
  /\ panel \in Packages \cup {None}
  /\ updater \in Updaters /\ coordinator \in Coordinators /\ task \in Tasks
  /\ tail \in SUBSET Operations
  /\ journal \in Journals \cup {None}
  /\ saved \in Versions \cup {None}
  /\ cache \in [Versions -> Packages \cup {None}]
  /\ ui \in BOOLEAN
  /\ ghost \in [yes : Nat, later : BOOLEAN, paused : Versions \cup {None}]

(* Who holds the installation gate, and what it protects. *)
Gated ==
  /\ task.pc \in GatePcs => gate = "task"
  /\ recovery = "cancel" => gate = "host"
  /\ task.pc \in StoppedPcs => journal # None
  /\ task.pc \in CheckedPcs => task.access # None
  /\ task.pc \in DrivePcs => task.offer # None
  /\ task.pc \in PackedPcs => task.package # None

(* An operation that is under way is not begun again. *)
OneOperation == task.pc # "none" => updater.operation # "Idle"

(* What the coordinator has prepared and what the user said Yes to. *)
Bound ==
  /\ coordinator.prepared # None /\ coordinator.offer # None =>
       coordinator.prepared = coordinator.offer.package
  /\ coordinator.consent => coordinator.offer # None /\ coordinator.offer.id = ghost.yes

Driven ==
  /\ task.pc \in DrivePcs => coordinator.offer \in {None, task.offer}
  /\ task.pc \in PackedPcs => task.package = task.offer.package
  /\ task.pc \in InstallPcs => coordinator.phase = "Installing"

Stopped ==
  /\ journal.phase \in {"LocalStopped", "InstallerOpened"}
  /\ journal.version = Version(task.offer.package)

Handed ==
  /\ task.pc \in {"install_check", "installing"} => Stopped
  /\ task.pc = "installing" => task.offer.id = ghost.yes /\ Revalidates(task.package)

Answered ==
  /\ ghost.later => coordinator.deferred # None /\ ~updater.manual
  /\ Android => saved = coordinator.deferred
  /\ ghost.paused # None => ghost.paused \notin coordinator.presented

HuInv == Types /\ Gated /\ OneOperation /\ Bound /\ Driven /\ Handed /\ Answered

FreshPcs == {"check_token", "drive_token", "recover_gate"}
Hosts == [u : Updaters, t : Tasks]

(* What a change of the coordinator keeps that is no new offer, no new Yes *)
(* and no step of the installation.                                        *)
Retains(c, d) ==
  /\ d.offer \in {c.offer, None} /\ d.prepared \in {c.prepared, None}
  /\ d.consent => c.consent /\ d.offer = c.offer
  /\ Terminal(c) => d.phase = c.phase

(* What starting an operation does to the host: nothing to a task that is  *)
(* under way.                                                              *)
Starts(h, g) ==
  /\ g \in Hosts
  /\ \/ g.t = h.t /\ g.u.operation = h.u.operation
     \/ h.u.operation = "Idle" /\ g.u.operation # "Idle" /\ g.t.pc \in FreshPcs

-----------------------------------------------------------------------------
(* The coordinator's operations.                                           *)

(* invalidate keeps the prompt's answers and a terminal phase. *)
LEMMA InvalidateFacts ==
  ASSUME NEW c \in Coordinators
  PROVE  /\ Invalidate(c) \in Coordinators /\ Retains(c, Invalidate(c))
         /\ ~Invalidate(c).consent
         /\ Terminal(Invalidate(c)) = Terminal(c)
         /\ Invalidate(c).deferred = c.deferred /\ Invalidate(c).presented = c.presented
<1>1. CASE Terminal(c)
  <2>1. Invalidate(c) = [c EXCEPT !.consent = FALSE]
    BY <1>1 DEF Invalidate
  <2> QED  BY <2>1 DEF Terminal, Coordinators, Retains
<1>2. CASE ~Terminal(c)
  <2>1. Invalidate(c) = [c EXCEPT !.consent = FALSE, !.offer = None, !.prepared = None, !.phase = "Idle"]
    BY <1>2 DEF Invalidate
  <2>2. /\ Invalidate(c).offer = None /\ Invalidate(c).prepared = None /\ Invalidate(c).phase = "Idle"
        /\ Invalidate(c).consent = FALSE
        /\ Invalidate(c).deferred = c.deferred /\ Invalidate(c).presented = c.presented
    BY <2>1 DEF Coordinators
  <2>3. Invalidate(c) \in Coordinators
    BY <2>1 DEF Coordinators, Phases
  <2> QED  BY <1>2, <2>2, <2>3 DEF Terminal, Retains
<1> QED  BY <1>1, <1>2

(* retain_scope is invalidate or nothing. *)
LEMMA RetainFacts ==
  ASSUME NEW c \in Coordinators
  PROVE  /\ RetainScope(c) \in Coordinators /\ Retains(c, RetainScope(c))
         /\ Terminal(RetainScope(c)) = Terminal(c)
         /\ RetainScope(c).deferred = c.deferred /\ RetainScope(c).presented = c.presented
<1>1. CASE RetainScope(c) = c
  BY <1>1 DEF Retains
<1>2. CASE RetainScope(c) = Invalidate(c)
  BY <1>2, InvalidateFacts
<1> QED  BY <1>1, <1>2 DEF RetainScope

(* What every request does first to the coordinator. *)
LEMMA ObservedFacts ==
  ASSUME coordinator \in Coordinators
  PROVE  /\ Observed \in Coordinators /\ Retains(coordinator, Observed)
         /\ Terminal(Observed) = Terminal(coordinator)
         /\ Observed.deferred = coordinator.deferred /\ Observed.presented = coordinator.presented
  BY InvalidateFacts, RetainFacts DEF Observed

(* The version of an offer is a version. *)
LEMMA VersionFacts ==
  ASSUME setup \in [android : BOOLEAN, version : [Packages -> Versions]]
  PROVE  /\ \A p \in Packages : Version(p) \in Versions
         /\ \A c \in Coordinators : c.offer # None => OfferVersion(c) \in Versions
         /\ Android \in BOOLEAN
  BY DEF Version, OfferVersion, Coordinators, BoundOffers, Android

(* set_ui_lifecycle: a pause takes back an early Yes and its prompt. *)
LEMMA LifecycleFacts ==
  ASSUME NEW c \in Coordinators, NEW f \in BOOLEAN, NEW n \in BOOLEAN,
         Android \in BOOLEAN
  PROVE  LET d == SetUiLifecycle(c, f, n)
         IN  /\ d \in Coordinators /\ Retains(c, d)
             /\ d.presented \subseteq c.presented
             /\ d.deferred = IF Android /\ n THEN None ELSE c.deferred
             /\ Android /\ ~f /\ c.consent /\ ~Terminal(c) /\ c.offer # None
                  => OfferVersion(c) \notin d.presented
<1> DEFINE paused == Android /\ ~f
           early == paused /\ c.consent /\ ~Terminal(c) /\ c.offer # None
           consent == c.consent /\ ~paused
           deferred == IF Android /\ n THEN None ELSE c.deferred
           presented == IF Android /\ n THEN {}
                        ELSE IF early THEN c.presented \ {OfferVersion(c)} ELSE c.presented
           d == SetUiLifecycle(c, f, n)
<1>1. d = [c EXCEPT !.foreground = f, !.consent = consent, !.deferred = deferred, !.presented = presented]
  BY DEF SetUiLifecycle, Coordinators
<1>2. /\ consent \in BOOLEAN /\ (consent => c.consent)
      /\ deferred \in Versions \cup {None}
      /\ presented \in SUBSET Versions /\ presented \subseteq c.presented
      /\ early => OfferVersion(c) \notin presented
  BY DEF Coordinators
<1> HIDE DEF consent, deferred, presented
<1>3. d.consent = consent /\ d.deferred = deferred /\ d.presented = presented /\ d.offer = c.offer
      /\ d.prepared = c.prepared /\ d.phase = c.phase /\ d \in Coordinators
  BY <1>1, <1>2 DEF Coordinators
<1> QED  BY <1>2, <1>3 DEF Retains, deferred

(* request_manual_prompt forgets the answer to the offer's prompt. *)
LEMMA ManualFacts ==
  ASSUME NEW c \in Coordinators
  PROVE  LET d == RequestManualPrompt(c)
         IN  /\ d \in Coordinators /\ Retains(c, d)
             /\ d.offer = c.offer /\ d.phase = c.phase
             /\ d.presented \subseteq c.presented
  BY DEF RequestManualPrompt, Coordinators, Retains

(* observe_resolved: a new offer has no Yes and nothing prepared. *)
LEMMA ObserveFacts ==
  ASSUME NEW c \in Coordinators, NEW p \in Packages \cup {None}, NEW a \in Accesses
  PROVE  LET d == ObserveResolved(c, p, a)
         IN  /\ d \in Coordinators
             /\ d = c \/ (~d.consent /\ d.prepared = None)
             /\ d.deferred = c.deferred /\ d.presented = c.presented
<1>1. CASE ObserveResolved(c, p, a) = c
  BY <1>1
<1>2. CASE p = None /\ ObserveResolved(c, p, a) = [c EXCEPT !.consent = FALSE, !.prepared = None, !.offer = None, !.phase = "Idle"]
  BY <1>2 DEF Coordinators, Phases
<1>3. CASE p # None /\ ObserveResolved(c, p, a) =
             [c EXCEPT !.consent = FALSE, !.prepared = None, !.ids = @ + 1, !.phase = "Available",
                       !.offer = [id |-> c.ids + 1, package |-> p, epoch |-> a.epoch]]
  <2> DEFINE o == [id |-> c.ids + 1, package |-> p, epoch |-> a.epoch]
  <2>1. o \in BoundOffers /\ c.ids + 1 \in Nat
    BY <1>3 DEF Coordinators, BoundOffers, Accesses
  <2> HIDE DEF o
  <2> DEFINE d == ObserveResolved(c, p, a)
  <2>2. d = [c EXCEPT !.consent = FALSE, !.prepared = None, !.ids = c.ids + 1, !.phase = "Available", !.offer = o]
    BY <1>3 DEF o
  <2> HIDE DEF d
  <2>3. d.consent = FALSE /\ d.prepared = None /\ d.deferred = c.deferred /\ d.presented = c.presented
    BY <2>2 DEF Coordinators
  <2>4. d \in Coordinators
    BY <2>1, <2>2 DEF Coordinators, Phases
  <2> QED  BY <2>3, <2>4 DEF d
<1> QED  BY <1>1, <1>2, <1>3 DEF ObserveResolved

(* fail concerns the current offer only. *)
LEMMA FailedFacts ==
  ASSUME NEW c \in Coordinators, NEW o
  PROVE  LET d == Failed(c, o)
         IN  /\ d \in Coordinators
             /\ d.offer = c.offer /\ d.prepared \in {c.prepared, None} /\ (d.consent => c.consent)
             /\ d.deferred = c.deferred /\ d.presented = c.presented
  BY DEF Failed, Coordinators, Phases

-----------------------------------------------------------------------------
(* How operations begin.                                                   *)

(* A host as the updater's state and the task. *)
LEMMA HostFacts ==
  ASSUME updater \in Updaters, task \in Tasks
  PROVE  Host \in Hosts /\ Host.u = updater /\ Host.t = task
  BY DEF Host, Hosts

(* An operation that begins has a task of its own. *)
LEMMA BeginFacts ==
  ASSUME NEW h \in Hosts, NEW op \in Operations \ {"Idle"}, NEW pc \in FreshPcs,
         h.u.operation = "Idle"
  PROVE  /\ Begin(h, op, pc) \in Hosts /\ Starts(h, Begin(h, op, pc))
         /\ Begin(h, op, pc).t.pc = pc
         /\ Begin(h, op, pc).u.operation = op
         /\ Begin(h, op, pc).u.manual = h.u.manual
<1> DEFINE v == [h.u EXCEPT !.operation = op]
           t == [NoTask EXCEPT !.pc = pc]
<1>1. Begin(h, op, pc) = [u |-> v, t |-> t]
  BY DEF Begin
<1>2. v \in Updaters /\ v.operation = op /\ v.manual = h.u.manual
  BY DEF Hosts, Updaters
<1>3. t \in Tasks /\ t.pc = pc
  BY DEF NoTask, Tasks, Pcs, FreshPcs
<1> HIDE DEF t, v
<1>4. Begin(h, op, pc).u = v /\ Begin(h, op, pc).t = t /\ Begin(h, op, pc) \in Hosts
  BY <1>1, <1>2, <1>3 DEF Hosts
<1> QED  BY <1>2, <1>3, <1>4 DEF Starts

(* start_cancel_recovery *)
LEMMA RecoveryStarts ==
  ASSUME NEW h \in Hosts
  PROVE  Starts(h, StartCancelRecovery(h)) /\ StartCancelRecovery(h).u.manual = h.u.manual
<1>1. CASE StartCancelRecovery(h) = h
  BY <1>1 DEF Starts
<1>2. CASE h.u.operation = "Idle" /\ StartCancelRecovery(h) = Begin(h, "Recovering", "recover_gate")
  <2>1. "Recovering" \in Operations \ {"Idle"} /\ "recover_gate" \in FreshPcs
    BY DEF Operations, FreshPcs
  <2> QED  BY <1>2, <2>1, BeginFacts
<1> QED  BY <1>1, <1>2 DEF StartCancelRecovery

(* start_check *)
LEMMA CheckingStarts ==
  ASSUME NEW h \in Hosts, NEW q \in BOOLEAN
  PROVE  Starts(h, StartCheck(h, q)) /\ StartCheck(h, q).u.manual = h.u.manual
<1>1. CASE h.u.operation # "Idle"
  <2>1. StartCheck(h, q) = [h EXCEPT !.u.startup = @ \/ q]
    BY <1>1 DEF StartCheck
  <2> DEFINE v == [h.u EXCEPT !.startup = h.u.startup \/ q]
  <2>2. v \in Updaters /\ v.operation = h.u.operation /\ v.manual = h.u.manual
    BY DEF Hosts, Updaters
  <2>3. StartCheck(h, q) = [h EXCEPT !.u = v]
    BY <2>1 DEF Hosts
  <2> HIDE DEF v
  <2> QED  BY <2>2, <2>3 DEF Starts, Hosts
<1>2. CASE h.u.operation = "Idle"
  <2> DEFINE b == Begin(h, "Refreshing", "check_token")
  <2>1. StartCheck(h, q) = [b EXCEPT !.u.startup = FALSE]
    BY <1>2 DEF StartCheck
  <2>0. "Refreshing" \in Operations \ {"Idle"} /\ "check_token" \in FreshPcs
    BY DEF Operations, FreshPcs
  <2>2. /\ b \in Hosts /\ b.t.pc \in FreshPcs /\ b.u.operation = "Refreshing" /\ b.u.manual = h.u.manual
    BY <1>2, <2>0, BeginFacts
  <2> HIDE DEF b
  <2> DEFINE v == [b.u EXCEPT !.startup = FALSE]
  <2>3. v \in Updaters /\ v.operation = "Refreshing" /\ v.manual = h.u.manual
    BY <2>2 DEF Hosts, Updaters
  <2>4. StartCheck(h, q) = [b EXCEPT !.u = v]
    BY <2>1, <2>2 DEF Hosts
  <2> HIDE DEF v
  <2> QED  BY <1>2, <2>2, <2>3, <2>4 DEF Starts, Hosts
<1> QED  BY <1>1, <1>2

(* What starts in two moves starts. *)
LEMMA StartsTwice ==
  ASSUME NEW h, NEW k, NEW g, Starts(h, k), Starts(k, g)
  PROVE  Starts(h, g)
  BY DEF Starts

(* A request that is only noted starts nothing. *)
LEMMA NotedStarts ==
  ASSUME NEW h \in Hosts, NEW m \in BOOLEAN, NEW s \in BOOLEAN
  PROVE  LET k == [h EXCEPT !.u.manual = m, !.u.startup = s]
         IN  Starts(h, k) /\ k \in Hosts /\ k.u.manual = m
<1> DEFINE v == [h.u EXCEPT !.manual = m, !.startup = s]
           k == [h EXCEPT !.u.manual = m, !.u.startup = s]
<1>1. v \in Updaters /\ v.operation = h.u.operation /\ v.manual = m
  BY DEF Hosts, Updaters
<1>2. k = [h EXCEPT !.u = v]
  BY DEF Hosts, Updaters
<1> HIDE DEF v, k
<1>3. k.u = v /\ k.t = h.t /\ k \in Hosts
  BY <1>1, <1>2 DEF Hosts
<1> QED  BY <1>1, <1>3 DEF Starts, k

(* check *)
LEMMA CheckStarts ==
  ASSUME NEW h \in Hosts, NEW reason \in {"Startup", "Manual", "Foreground", "Timer"}
  PROVE  /\ Starts(h, Check(h, reason))
         /\ Check(h, reason).u.manual = (h.u.manual \/ reason = "Manual")
<1> DEFINE m == h.u.manual \/ reason = "Manual"
           s == h.u.startup \/ (reason = "Startup" /\ ~h.u.checked)
           asked == [h EXCEPT !.u.manual = m, !.u.startup = s]
<1>1. m \in BOOLEAN /\ s \in BOOLEAN
  BY DEF Hosts, Updaters
<1>2. Starts(h, asked) /\ asked \in Hosts /\ asked.u.manual = m
  BY <1>1, NotedStarts
<1>3. Check(h, reason) \in {asked, StartCancelRecovery(asked), StartCheck(asked, reason = "Startup")}
  BY DEF Check
<1>4. /\ Starts(asked, StartCancelRecovery(asked)) /\ StartCancelRecovery(asked).u.manual = m
      /\ Starts(asked, StartCheck(asked, reason = "Startup"))
      /\ StartCheck(asked, reason = "Startup").u.manual = m
  <2>1. (reason = "Startup") \in BOOLEAN
    OBVIOUS
  <2> HIDE DEF asked, m
  <2> QED  BY <1>2, <2>1, RecoveryStarts, CheckingStarts
<1> HIDE DEF asked, m
<1>5. Starts(h, Check(h, reason)) /\ Check(h, reason).u.manual = m
  BY <1>2, <1>3, <1>4, StartsTwice
<1> QED  BY <1>5 DEF m

(* start_drive *)
LEMMA DriveStarts ==
  ASSUME NEW h \in Hosts, NEW c
  PROVE  Starts(h, StartDrive(h, c)) /\ StartDrive(h, c).u.manual = h.u.manual
<1>1. CASE StartDrive(h, c) = h
  BY <1>1 DEF Starts
<1>2. CASE h.u.operation = "Idle" /\ StartDrive(h, c) = Begin(h, "Driving", "drive_token")
  <2>1. "Driving" \in Operations \ {"Idle"} /\ "drive_token" \in FreshPcs
    BY DEF Operations, FreshPcs
  <2> QED  BY <1>2, <2>1, BeginFacts
<1> QED  BY <1>1, <1>2 DEF StartDrive

(* resume_pending_check *)
LEMMA ResumeStarts ==
  ASSUME NEW h \in Hosts
  PROVE  Starts(h, ResumePendingCheck(h)) /\ ResumePendingCheck(h).u.manual = h.u.manual
<1>1. CASE h.u.manual
  <2>1. ResumePendingCheck(h) = StartCheck(h, FALSE)
    BY <1>1 DEF ResumePendingCheck
  <2>2. FALSE \in BOOLEAN
    OBVIOUS
  <2> QED  BY <2>1, <2>2, CheckingStarts
<1>2. CASE ~h.u.manual
  <2> DEFINE swapped == [h EXCEPT !.u.startup = FALSE]
             v == [h.u EXCEPT !.startup = FALSE]
  <2>1. v \in Updaters /\ v.operation = h.u.operation /\ v.manual = h.u.manual
    BY DEF Hosts, Updaters
  <2>2. swapped = [h EXCEPT !.u = v]
    BY DEF Hosts, Updaters
  <2>3. ResumePendingCheck(h) \in {swapped, Check(swapped, "Startup")}
    BY <1>2 DEF ResumePendingCheck
  <2> HIDE DEF v, swapped
  <2>4. swapped.u = v /\ swapped.t = h.t /\ swapped \in Hosts
    BY <2>1, <2>2 DEF Hosts
  <2>5. Starts(h, swapped)
    BY <2>1, <2>4 DEF Starts
  <2>6. Starts(swapped, Check(swapped, "Startup")) /\ Check(swapped, "Startup").u.manual = swapped.u.manual
    <3>1. swapped.u.manual \in BOOLEAN
      BY <2>4 DEF Hosts, Updaters
    <3>2. /\ Starts(swapped, Check(swapped, "Startup"))
          /\ Check(swapped, "Startup").u.manual = (swapped.u.manual \/ "Startup" = "Manual")
      BY <2>4, CheckStarts
    <3> QED  BY <3>1, <3>2
  <2>7. Starts(h, Check(swapped, "Startup"))
    BY <2>5, <2>6, StartsTwice
  <2> QED  BY <2>1, <2>3, <2>4, <2>5, <2>6, <2>7
<1> QED  BY <1>1, <1>2

(* What a task may start after it has reset the operation. *)
LEMMA TailStarts ==
  ASSUME NEW h \in Hosts, NEW operation, NEW c
  PROVE  LET g == IF operation = "Driving" /\ Recovers(h) THEN StartCancelRecovery(h)
                  ELSE IF \/ PendingCheck(h) \/ operation = "Recovering"
                          \/ operation = "Driving" /\ ~c.consent
                       THEN ResumePendingCheck(h)
                  ELSE StartDrive(ResumePendingCheck(h), c)
         IN  Starts(h, g) /\ g.u.manual = h.u.manual
<1>1. Starts(h, StartCancelRecovery(h)) /\ StartCancelRecovery(h).u.manual = h.u.manual
  BY RecoveryStarts
<1>2. Starts(h, ResumePendingCheck(h)) /\ ResumePendingCheck(h).u.manual = h.u.manual
  BY ResumeStarts
<1>3. ResumePendingCheck(h) \in Hosts
  BY <1>2 DEF Starts
<1>4. /\ Starts(ResumePendingCheck(h), StartDrive(ResumePendingCheck(h), c))
      /\ StartDrive(ResumePendingCheck(h), c).u.manual = h.u.manual
  BY <1>2, <1>3, DriveStarts
<1>5. Starts(h, StartDrive(ResumePendingCheck(h), c))
  BY <1>2, <1>4, StartsTwice
<1> QED  BY <1>1, <1>2, <1>4, <1>5

-----------------------------------------------------------------------------
(* What the parts of the invariant depend on.                              *)

(* The task of an operation, as a request or a tail leaves it. *)
TaskKept ==
  \/ task' = task /\ updater'.operation = updater.operation
  \/ updater.operation = "Idle" /\ updater'.operation # "Idle" /\ task'.pc \in FreshPcs

HandoffInv == Gated /\ OneOperation /\ Bound /\ Driven /\ Handed

(* What was prepared, and the Yes, belong to the offer as long as no step  *)
(* makes an offer or says Yes.                                             *)
LEMMA BoundKept ==
  ASSUME Bound, coordinator'.offer \in {coordinator.offer, None},
         coordinator'.prepared \in {coordinator.prepared, None},
         coordinator'.consent => coordinator.consent /\ coordinator'.offer = coordinator.offer,
         ghost'.yes = ghost.yes
  PROVE  Bound'
  BY DEF Bound

(* A step outside the task leaves the handoff alone. *)
LEMMA QuietFrame ==
  ASSUME HuInv, TaskKept, Retains(coordinator, coordinator'), ghost'.yes = ghost.yes,
         UNCHANGED <<setup, recovery, gate, journal, cache>>
  PROVE  HandoffInv'
<1>1. Bound'
  BY BoundKept DEF HuInv, Retains
<1>2. CASE task' = task /\ updater'.operation = updater.operation
  <2>1. Gated' /\ OneOperation'
    BY <1>2 DEF HuInv, Gated, OneOperation
  <2>2. Driven'
    BY <1>2 DEF HuInv, Driven, Retains, Terminal
  <2>3. Handed'
    BY <1>2 DEF HuInv, Handed, Stopped, Revalidates, Version
  <2> QED  BY <1>1, <2>1, <2>2, <2>3 DEF HandoffInv
<1>3. CASE updater.operation = "Idle" /\ updater'.operation # "Idle" /\ task'.pc \in FreshPcs
  BY <1>1, <1>3 DEF HandoffInv, HuInv, Gated, OneOperation, Driven, Handed, FreshPcs, GatePcs, CheckedPcs, StoppedPcs,
       DrivePcs, PackedPcs, InstallPcs
<1> QED  BY <1>2, <1>3 DEF TaskKept

(* A step of the task to a place outside the drive. *)
LEMMA PlainMove ==
  ASSUME HuInv, task.pc # "none", updater'.operation = updater.operation,
         task'.pc \in Pcs \ (DrivePcs \cup GatePcs),
         task'.pc \in CheckedPcs => task'.access # None,
         recovery' = recovery, gate' = gate \/ task.pc \in GatePcs
  PROVE  Gated' /\ OneOperation' /\ Driven' /\ Handed'
  BY DEF HuInv, Gated, OneOperation, Driven, Handed, GatePcs, StoppedPcs, DrivePcs, PackedPcs, InstallPcs

(* What the task keeps when only its place changes. *)
LEMMA Went ==
  ASSUME task \in Tasks, NEW pc \in Pcs, Go(pc)
  PROVE  /\ task' \in Tasks /\ task'.pc = pc /\ task'.access = task.access /\ task'.offer = task.offer
         /\ task'.package = task.package /\ task'.ok = task.ok
  BY DEF Go, Tasks

(* The answers of the user depend on four variables. *)
LEMMA AnsweredKept ==
  ASSUME Answered, UNCHANGED <<setup, saved, ghost>>,
         coordinator'.deferred = coordinator.deferred, coordinator'.presented = coordinator.presented,
         updater'.manual => updater.manual
  PROVE  Answered'
  BY DEF Answered, Android

-----------------------------------------------------------------------------
(* The task of a check.                                                    *)

(* The first three steps look at the session and the panel only. *)
LEMMA CheckingNext ==
  ASSUME HuInv, CheckToken \/ CheckBootstrap \/ CheckResolve
  PROVE  HuInv'
<1>1. UNCHANGED <<setup, auth, panel, tail, recovery, gate, journal, cache, ui, updater, coordinator, saved, ghost>>
  BY DEF CheckToken, CheckBootstrap, CheckResolve, idleCheck
<1>2. task.pc \in {"check_token", "check_bootstrap", "check_resolve"}
  BY DEF CheckToken, CheckBootstrap, CheckResolve, At
<1>3. task \in Tasks /\ auth \in [epoch : Nat, token : Nat, active : BOOLEAN, revoking : BOOLEAN]
      /\ panel \in Packages \cup {None} /\ Access \in Accesses /\ Access # None
  BY UpdaterAssumption DEF HuInv, Types, Access, Accesses
<1>4. task' \in Tasks /\ task'.pc \in {"check_bootstrap", "check_resolve", "check_publish", "check_failed"}
  <2>1. CASE Go("check_failed")
    BY <1>3, <2>1 DEF Go, Tasks, Pcs
  <2>2. CASE task' = [task EXCEPT !.pc = "check_bootstrap", !.access = Access]
    BY <1>3, <2>2 DEF Tasks, Pcs
  <2>3. CASE task' = [task EXCEPT !.pc = IF panel = None THEN "check_publish" ELSE "check_resolve", !.package = panel]
    BY <1>3, <2>3 DEF Tasks, Pcs
  <2>4. CASE task' = [task EXCEPT !.pc = "check_publish", !.package = panel]
    BY <1>3, <2>4 DEF Tasks, Pcs
  <2> QED  BY <2>1, <2>2, <2>3, <2>4 DEF CheckToken, CheckBootstrap, CheckResolve
<1>5. task'.pc \in CheckedPcs => task'.access # None
  <2>1. CASE CheckToken
    BY <1>3, <2>1 DEF CheckToken, CheckedPcs, Go, Tasks
  <2>2. CASE CheckBootstrap
    BY <1>2, <1>3, <2>2 DEF CheckBootstrap, CheckedPcs, Go, At, Tasks, HuInv, Gated
  <2>3. CASE CheckResolve
    BY <1>2, <1>3, <2>3 DEF CheckResolve, CheckedPcs, Go, At, Tasks, HuInv, Gated
  <2> QED  BY <2>1, <2>2, <2>3
<1>6. Types'
  BY <1>1, <1>4 DEF HuInv, Types
<1>7. task'.pc \in Pcs \ (DrivePcs \cup GatePcs) /\ task.pc # "none"
  BY <1>2, <1>4 DEF Pcs, DrivePcs, GatePcs, PackedPcs, InstallPcs
<1>8. Gated' /\ OneOperation' /\ Driven' /\ Handed'
  BY <1>1, <1>5, <1>7, PlainMove
<1>9. Bound' /\ Answered'
  BY <1>1 DEF HuInv, Bound, Answered, Android
<1> QED  BY <1>6, <1>8, <1>9 DEF HuInv

(* A step of the task that leaves the drive, or is outside of it. *)
LEMMA PlainStep ==
  ASSUME HuInv, Types', task.pc # "none", task'.pc \in {"check_settle", "check_failed", "recover_gate", "recover_done", "recover_failed", "reset"},
         updater'.operation = updater.operation, updater'.manual => updater.manual,
         coordinator'.offer \in {coordinator.offer, None},
         coordinator'.prepared \in {coordinator.prepared, None},
         coordinator'.consent => coordinator.consent /\ coordinator'.offer = coordinator.offer,
         coordinator'.deferred = coordinator.deferred, coordinator'.presented = coordinator.presented,
         UNCHANGED <<setup, recovery, saved, ghost>>, gate' = gate \/ task.pc \in GatePcs
  PROVE  HuInv'
<1>1. Bound'
  BY BoundKept DEF HuInv
<1>2. Answered'
  BY AnsweredKept DEF HuInv
<1>3. task'.pc \in Pcs \ (DrivePcs \cup GatePcs) /\ task'.pc \notin CheckedPcs
  BY DEF Pcs, DrivePcs, GatePcs, PackedPcs, InstallPcs, CheckedPcs
<1>4. Gated' /\ OneOperation' /\ Driven' /\ Handed'
  BY <1>3, PlainMove
<1> QED  BY <1>1, <1>2, <1>4 DEF HuInv

(* with_current_access: what a check found is observed, or it fails. *)
LEMMA PublishNext ==
  ASSUME HuInv, CheckPublish
  PROVE  HuInv'
<1>1. UNCHANGED <<setup, auth, panel, tail, recovery, gate, journal, cache, ui, updater, saved, ghost>>
      /\ task.pc = "check_publish"
  BY DEF CheckPublish, idleCheck, At
<1>2. /\ task \in Tasks /\ coordinator \in Coordinators
      /\ task.access \in Accesses /\ task.package \in Packages \cup {None}
  BY <1>1 DEF HuInv, Types, Gated, CheckedPcs, Tasks
<1>3. CASE coordinator' = coordinator /\ Go("check_failed")
  <2>1. task' \in Tasks /\ task'.pc = "check_failed"
    BY <1>2, <1>3, Went DEF Pcs
  <2>2. Types'
    BY <1>1, <1>3, <2>1 DEF HuInv, Types
  <2> QED  BY <1>1, <1>3, <2>1, <2>2, PlainStep
<1>4. CASE coordinator' = ObserveResolved(coordinator, task.package, task.access) /\ Go("check_settle")
  <2>1. task' \in Tasks /\ task'.pc = "check_settle"
    BY <1>2, <1>4, Went DEF Pcs
  <2>2. /\ coordinator' \in Coordinators
        /\ coordinator' = coordinator \/ (~coordinator'.consent /\ coordinator'.prepared = None)
        /\ coordinator'.deferred = coordinator.deferred /\ coordinator'.presented = coordinator.presented
    BY <1>2, <1>4, ObserveFacts
  <2>3. Types'
    BY <1>1, <2>1, <2>2 DEF HuInv, Types
  <2>4. Bound'
    BY <1>1, <2>2 DEF HuInv, Bound
  <2>5. Answered'
    BY <1>1, <2>2, AnsweredKept DEF HuInv
  <2>6. task'.pc \in Pcs \ (DrivePcs \cup GatePcs) /\ task'.pc \notin CheckedPcs
    BY <2>1 DEF Pcs, DrivePcs, GatePcs, PackedPcs, InstallPcs, CheckedPcs
  <2>7. Gated' /\ OneOperation' /\ Driven' /\ Handed'
    BY <1>1, <2>6, PlainMove
  <2> QED  BY <2>3, <2>4, <2>5, <2>7 DEF HuInv
<1> QED  BY <1>3, <1>4 DEF CheckPublish

(* The end of a check: a manual request forgets a Later, and there is none *)
(* after it that the check could overtake.                                 *)
LEMMA SettleNext ==
  ASSUME HuInv, CheckSettle
  PROVE  HuInv'
<1>1. UNCHANGED <<setup, auth, panel, tail, recovery, gate, journal, cache, ui, ghost>>
      /\ task.pc = "check_settle" /\ Go("reset")
  BY DEF CheckSettle, idleCheck, At
<1>2. /\ task \in Tasks /\ coordinator \in Coordinators /\ updater \in Updaters
      /\ saved \in Versions \cup {None}
  BY DEF HuInv, Types
<1>3. task' \in Tasks /\ task'.pc = "reset"
  BY <1>1, <1>2, Went DEF Pcs
<1>4. updater' \in Updaters /\ updater'.operation = updater.operation /\ ~updater'.manual
  BY <1>2 DEF CheckSettle, Updaters
<1>5. /\ coordinator' \in Coordinators
      /\ coordinator'.offer \in {coordinator.offer, None}
      /\ coordinator'.prepared \in {coordinator.prepared, None}
      /\ coordinator'.consent => coordinator.consent /\ coordinator'.offer = coordinator.offer
      /\ coordinator'.presented \subseteq coordinator.presented
      /\ ~updater.manual => coordinator' = coordinator
  <2>1. CASE updater.manual
    BY <1>2, <2>1, ManualFacts DEF CheckSettle, Retains
  <2>2. CASE ~updater.manual
    BY <1>2, <2>2 DEF CheckSettle
  <2> QED  BY <2>1, <2>2
<1>6. saved' = IF updater.manual /\ Android THEN coordinator'.deferred ELSE saved
  BY DEF CheckSettle
<1>7. saved' \in Versions \cup {None}
  BY <1>2, <1>5, <1>6 DEF Coordinators
<1>8. Types'
  BY <1>1, <1>3, <1>4, <1>5, <1>7 DEF HuInv, Types
<1>9. Bound'
  BY <1>1, <1>5, BoundKept DEF HuInv
<1>10. Answered'
  BY <1>1, <1>4, <1>5, <1>6 DEF HuInv, Answered, Android
<1>11. task'.pc \in Pcs \ (DrivePcs \cup GatePcs) /\ task'.pc \notin CheckedPcs
  BY <1>3 DEF Pcs, DrivePcs, GatePcs, PackedPcs, InstallPcs, CheckedPcs
<1>12. Gated' /\ OneOperation' /\ Driven' /\ Handed'
  BY <1>1, <1>4, <1>11, PlainMove
<1> QED  BY <1>8, <1>9, <1>10, <1>12 DEF HuInv

(* A check that failed invalidates the offer. *)
LEMMA CheckFailedNext ==
  ASSUME HuInv, CheckFailed
  PROVE  HuInv'
<1>1. UNCHANGED <<setup, auth, panel, tail, recovery, gate, journal, cache, ui, saved, ghost>>
      /\ task.pc = "check_failed" /\ Go("reset")
  BY DEF CheckFailed, idleCheck, At
<1>2. task \in Tasks /\ coordinator \in Coordinators /\ updater \in Updaters
  BY DEF HuInv, Types
<1>3. task' \in Tasks /\ task'.pc = "reset"
  BY <1>1, <1>2, Went DEF Pcs
<1>4. updater' \in Updaters /\ updater'.operation = updater.operation /\ ~updater'.manual
  BY <1>2 DEF CheckFailed, Updaters
<1>5. coordinator' \in Coordinators /\ Retains(coordinator, coordinator')
      /\ coordinator'.deferred = coordinator.deferred /\ coordinator'.presented = coordinator.presented
  BY <1>2, InvalidateFacts DEF CheckFailed
<1>6. Types'
  BY <1>1, <1>3, <1>4, <1>5 DEF HuInv, Types
<1> QED  BY <1>1, <1>3, <1>4, <1>5, <1>6, PlainStep DEF Retains

-----------------------------------------------------------------------------
(* The task that drives an offer to its installation.                      *)

(* A drive begins with the offer of the moment. *)
LEMMA DriveTokenNext ==
  ASSUME HuInv, DriveToken
  PROVE  HuInv'
<1>1. UNCHANGED <<setup, auth, panel, updater, tail, recovery, saved, ui, gate, journal, cache, ghost>>
      /\ task.pc = "drive_token"
  BY DEF DriveToken, idleDrive, At
<1>2. /\ task \in Tasks /\ coordinator \in Coordinators /\ updater \in Updaters
      /\ Access \in Accesses
  BY DEF HuInv, Types, Access, Accesses
<1>3. CASE coordinator' = Invalidate(coordinator) /\ Go("reset")
  <2>1. task' \in Tasks /\ task'.pc = "reset"
    BY <1>2, <1>3, Went DEF Pcs
  <2>2. coordinator' \in Coordinators /\ Retains(coordinator, coordinator')
        /\ coordinator'.deferred = coordinator.deferred /\ coordinator'.presented = coordinator.presented
    BY <1>2, <1>3, InvalidateFacts
  <2>3. Types'
    BY <1>1, <2>1, <2>2 DEF HuInv, Types
  <2> QED  BY <1>1, <2>1, <2>2, <2>3, PlainStep DEF Retains
<1>4. CASE /\ coordinator' = [coordinator EXCEPT !.automatic = updater.automatic]
           /\ task' = [task EXCEPT !.access = Access, !.offer = coordinator.offer,
                                !.pc = IF Terminal(coordinator) \/ coordinator.offer = None
                                       THEN "reset" ELSE "drive_begin"]
  <2>1. task' \in Tasks /\ task'.offer = coordinator.offer /\ task'.pc \in {"reset", "drive_begin"}
        /\ (task'.pc = "drive_begin" => coordinator.offer # None)
    BY <1>2, <1>4 DEF Tasks, Coordinators, Pcs, DrivePcs
  <2>2. /\ coordinator' \in Coordinators /\ coordinator'.offer = coordinator.offer
        /\ coordinator'.prepared = coordinator.prepared /\ coordinator'.consent = coordinator.consent
        /\ coordinator'.deferred = coordinator.deferred /\ coordinator'.presented = coordinator.presented
    BY <1>2, <1>4 DEF Coordinators, Updaters
  <2>3. Types'
    BY <1>1, <2>1, <2>2 DEF HuInv, Types
  <2>4. CASE task'.pc = "reset"
    BY <1>1, <2>2, <2>3, <2>4, PlainStep
  <2>5. CASE task'.pc = "drive_begin"
    <3>1. Bound'
      BY <1>1, <2>2, BoundKept DEF HuInv
    <3>2. Answered'
      BY <1>1, <2>2, AnsweredKept DEF HuInv
    <3>3. Gated' /\ OneOperation' /\ Driven' /\ Handed'
      BY <1>1, <2>1, <2>2, <2>5 DEF HuInv, Gated, OneOperation, Driven, Handed, GatePcs, StoppedPcs, CheckedPcs,
           DrivePcs, PackedPcs, InstallPcs
    <3> QED  BY <2>3, <3>1, <3>2, <3>3 DEF HuInv
  <2> QED  BY <2>1, <2>4, <2>5
<1> QED  BY <1>3, <1>4 DEF DriveToken

(* A step of the drive before the installation. *)
LEMMA DriveStep ==
  ASSUME HuInv, Types', Bound', task.pc \in DrivePcs \ InstallPcs, task'.pc \in DrivePcs \ InstallPcs,
         task'.offer = task.offer, task'.pc \in PackedPcs => task'.package = task.offer.package,
         coordinator'.offer = coordinator.offer,
         coordinator'.deferred = coordinator.deferred, coordinator'.presented = coordinator.presented,
         UNCHANGED <<setup, updater, recovery, saved, ghost>>,
         gate' = gate \/ gate = None, task'.pc = "drive_decide" => gate' = "task"
  PROVE  HuInv'
<1>1. Answered'
  BY AnsweredKept DEF HuInv
<1>2. task.offer # None /\ task.offer \in BoundOffers /\ task.offer.package # None
  BY UpdaterAssumption DEF HuInv, Gated, Types, Tasks, BoundOffers
<1>3. recovery = "cancel" => gate # None
  BY UpdaterAssumption DEF HuInv, Gated
<1>4. Gated'
  BY <1>2, <1>3 DEF HuInv, Gated, GatePcs, StoppedPcs, CheckedPcs, DrivePcs, PackedPcs, InstallPcs
<1>5. OneOperation' /\ Driven' /\ Handed'
  BY DEF HuInv, OneOperation, Driven, Handed, DrivePcs, PackedPcs, InstallPcs
<1> QED  BY <1>1, <1>4, <1>5 DEF HuInv

(* A drive that ends with an error ends like any task. *)
LEMMA DriveFailsNext ==
  ASSUME HuInv, DriveFails, task.pc # "none", cache' \in [Versions -> Packages \cup {None}],
         UNCHANGED <<setup, auth, panel, updater, tail, recovery, saved, ui, journal, ghost>>,
         gate' = gate \/ task.pc \in GatePcs
  PROVE  HuInv'
<1>1. task' \in Tasks /\ task'.pc = "reset"
  BY Went DEF HuInv, Types, DriveFails, Pcs
<1>2. /\ coordinator' \in Coordinators
      /\ coordinator'.offer = coordinator.offer /\ coordinator'.prepared \in {coordinator.prepared, None}
      /\ coordinator'.consent => coordinator.consent
      /\ coordinator'.deferred = coordinator.deferred /\ coordinator'.presented = coordinator.presented
  BY FailedFacts DEF HuInv, Types, DriveFails
<1>3. Types'
  BY <1>1, <1>2 DEF HuInv, Types
<1> QED  BY <1>1, <1>2, <1>3, PlainStep

(* A drive that is not wanted any more just ends. *)
LEMMA DriveEnds ==
  ASSUME HuInv, Go("reset"), task.pc # "none", gate' = gate,
         UNCHANGED <<setup, auth, panel, updater, tail, recovery, saved, ui, journal, ghost, cache, coordinator>>
  PROVE  HuInv'
<1>1. task' \in Tasks /\ task'.pc = "reset"
  BY Went DEF HuInv, Types, Pcs
<1>2. Types'
  BY <1>1 DEF HuInv, Types
<1> QED  BY <1>1, <1>2, PlainStep

(* The offer of a drive that is current is the coordinator's. *)
LEMMA CurrentOffer ==
  ASSUME HuInv, task.pc \in DrivePcs, Current(task.offer)
  PROVE  coordinator.offer = task.offer
  BY DEF HuInv, Driven, Current

(* A move within the drive that changes nothing else. *)
LEMMA DriveGoes ==
  ASSUME HuInv, NEW pc \in PackedPcs \ InstallPcs, Go(pc), task.pc \in PackedPcs \ InstallPcs,
         pc # "drive_decide", gate' = gate, cache' = cache,
         UNCHANGED <<setup, auth, panel, updater, tail, recovery, saved, ui, journal, ghost, coordinator>>
  PROVE  HuInv'
<1>1. pc \in Pcs /\ pc \in DrivePcs /\ task.pc \in DrivePcs
  BY DEF Pcs, DrivePcs
<1>2. task' \in Tasks /\ task'.pc = pc /\ task'.offer = task.offer /\ task'.package = task.package
  BY <1>1, Went DEF HuInv, Types
<1>3. Types'
  BY <1>2 DEF HuInv, Types
<1>4. Bound' /\ task'.package = task.offer.package
  BY <1>2 DEF HuInv, Bound, Driven
<1> QED  BY <1>1, <1>2, <1>3, <1>4, DriveStep

(* The drive uses what an earlier one prepared only for the same offer. *)
LEMMA DriveBeginNext ==
  ASSUME HuInv, DriveBegin
  PROVE  HuInv'
<1>1. UNCHANGED <<setup, auth, panel, updater, tail, recovery, saved, ui, gate, journal, cache, ghost>>
      /\ task.pc = "drive_begin"
  BY DEF DriveBegin, idleDrive, At
<1>2. CASE Go("reset") /\ UNCHANGED coordinator
  BY <1>1, <1>2, DriveEnds
<1>3. CASE DriveFails
  BY <1>1, <1>3, DriveFailsNext DEF HuInv, Types
<1>4. CASE /\ Authority /\ UNCHANGED coordinator
           /\ task' = [task EXCEPT !.package = coordinator.prepared,
                                   !.pc = IF coordinator.prepared # None THEN "drive_cached" ELSE "drive_download"]
  <2>1. coordinator.offer = task.offer /\ task.offer # None
    BY <1>1, <1>4, CurrentOffer DEF Authority, DrivePcs, HuInv, Gated
  <2>2. /\ task' \in Tasks /\ task'.offer = task.offer /\ task'.pc \in {"drive_cached", "drive_download"}
        /\ task'.pc = "drive_cached" => task'.package = coordinator.prepared /\ coordinator.prepared # None
    BY <1>4 DEF HuInv, Types, Tasks, Coordinators, Pcs, DrivePcs, PackedPcs
  <2>3. task'.pc \in PackedPcs => task'.package = task.offer.package
    BY <2>1, <2>2 DEF HuInv, Bound, PackedPcs, InstallPcs
  <2>4. Types'
    BY <1>1, <1>4, <2>2 DEF HuInv, Types
  <2>5. Bound'
    BY <1>1, <1>4 DEF HuInv, Bound
  <2>6. task.pc \in DrivePcs \ InstallPcs /\ task'.pc \in DrivePcs \ InstallPcs /\ task'.pc # "drive_decide"
    BY <1>1, <2>2 DEF DrivePcs, PackedPcs, InstallPcs
  <2> QED  BY <1>1, <1>4, <2>2, <2>3, <2>4, <2>5, <2>6, DriveStep
<1> QED  BY <1>2, <1>3, <1>4 DEF DriveBegin

(* A prepared file is looked at again before it is used. *)
LEMMA DriveCachedNext ==
  ASSUME HuInv, DriveCached
  PROVE  HuInv'
<1>1. UNCHANGED <<setup, auth, panel, updater, tail, recovery, saved, ui, gate, journal, cache, ghost>>
      /\ task.pc = "drive_cached"
  BY DEF DriveCached, idleDrive, At
<1>2. CASE DriveFails
  BY <1>1, <1>2, DriveFailsNext DEF HuInv, Types
<1>3. CASE Go("drive_ready") /\ UNCHANGED coordinator
  <2>1. /\ "drive_ready" \in PackedPcs \ InstallPcs /\ "drive_ready" # "drive_decide"
        /\ task.pc \in PackedPcs \ InstallPcs
    BY <1>1 DEF PackedPcs, InstallPcs
  <2> QED  BY <1>1, <1>3, <2>1, DriveGoes
<1> QED  BY <1>2, <1>3 DEF DriveCached

(* The download is announced. *)
LEMMA DriveDownloadNext ==
  ASSUME HuInv, DriveDownload
  PROVE  HuInv'
<1>1. UNCHANGED <<setup, auth, panel, updater, tail, recovery, saved, ui, gate, journal, cache, ghost>>
      /\ task.pc = "drive_download" /\ Go("downloading")
  BY DEF DriveDownload, idleDrive, At
<1>2. /\ coordinator' \in Coordinators /\ coordinator'.offer = coordinator.offer
      /\ coordinator'.prepared = coordinator.prepared /\ coordinator'.consent = coordinator.consent
      /\ coordinator'.deferred = coordinator.deferred /\ coordinator'.presented = coordinator.presented
  BY DEF DriveDownload, HuInv, Types, Coordinators, Phases
<1>3. task' \in Tasks /\ task'.pc = "downloading" /\ task'.offer = task.offer
  BY <1>1, Went DEF HuInv, Types, Pcs, DrivePcs
<1>4. Types'
  BY <1>1, <1>2, <1>3 DEF HuInv, Types
<1>5. Bound'
  BY <1>1, <1>2, BoundKept DEF HuInv
<1>6. /\ task.pc \in DrivePcs \ InstallPcs /\ task'.pc \in DrivePcs \ InstallPcs
      /\ task'.pc \notin PackedPcs /\ task'.pc # "drive_decide"
  BY <1>1, <1>3 DEF DrivePcs, PackedPcs, InstallPcs
<1> QED  BY <1>1, <1>2, <1>3, <1>4, <1>5, <1>6, DriveStep

(* The file of the offer's version is the offer's package, or the download *)
(* failed, or nobody wants it any more.                                    *)
LEMMA DownloadingNext ==
  ASSUME HuInv, Downloading
  PROVE  HuInv'
<1>1. UNCHANGED <<setup, auth, panel, updater, tail, recovery, saved, ui, gate, journal, ghost>>
      /\ task.pc = "downloading"
  BY DEF Downloading, idleDrive, At
<1>2. task.offer \in BoundOffers /\ task.offer.package \in Packages
  BY <1>1 DEF HuInv, Types, Gated, Tasks, DrivePcs, BoundOffers
<1>3. CASE /\ cache' = Pruned(task.offer.package) /\ UNCHANGED coordinator
           /\ task' = [task EXCEPT !.pc = "drive_admit", !.package = task.offer.package]
  <2>1. cache' \in [Versions -> Packages \cup {None}]
    BY <1>2, <1>3 DEF Pruned
  <2>2. task' \in Tasks /\ task'.pc = "drive_admit" /\ task'.offer = task.offer
        /\ task'.package = task.offer.package
    BY <1>2, <1>3 DEF HuInv, Types, Tasks, Pcs, DrivePcs, PackedPcs
  <2>3. Types'
    BY <1>1, <1>3, <2>1, <2>2 DEF HuInv, Types
  <2>4. Bound'
    BY <1>1, <1>3 DEF HuInv, Bound
  <2>5. task.pc \in DrivePcs \ InstallPcs /\ task'.pc \in DrivePcs \ InstallPcs /\ task'.pc # "drive_decide"
    BY <1>1, <2>2 DEF DrivePcs, PackedPcs, InstallPcs
  <2> QED  BY <1>1, <1>3, <2>2, <2>3, <2>4, <2>5, DriveStep
<1>4. CASE DriveFails /\ cache' = [cache EXCEPT ![Version(task.offer.package)] = None]
  <2>1. cache' \in [Versions -> Packages \cup {None}]
    BY <1>4 DEF HuInv, Types
  <2> QED  BY <1>1, <1>4, <2>1, DriveFailsNext
<1>5. CASE /\ coordinator' = IF Current(task.offer) THEN [coordinator EXCEPT !.phase = "Available"] ELSE coordinator
           /\ Go("reset") /\ UNCHANGED cache
  <2>1. task' \in Tasks /\ task'.pc = "reset"
    BY <1>5, Went DEF HuInv, Types, Pcs
  <2>2. /\ coordinator' \in Coordinators /\ coordinator'.offer = coordinator.offer
        /\ coordinator'.prepared = coordinator.prepared /\ coordinator'.consent = coordinator.consent
        /\ coordinator'.deferred = coordinator.deferred /\ coordinator'.presented = coordinator.presented
    BY <1>5 DEF HuInv, Types, Coordinators, Phases
  <2>3. Types'
    BY <1>1, <1>5, <2>1, <2>2 DEF HuInv, Types
  <2> QED  BY <1>1, <2>1, <2>2, <2>3, PlainStep
<1> QED  BY <1>3, <1>4, <1>5 DEF Downloading

(* The session and the offer are looked at again after the download. *)
LEMMA DriveAdmitNext ==
  ASSUME HuInv, DriveAdmit
  PROVE  HuInv'
<1>1. UNCHANGED <<setup, auth, panel, updater, tail, recovery, saved, ui, gate, journal, cache, ghost>>
      /\ task.pc = "drive_admit"
  BY DEF DriveAdmit, idleDrive, At
<1>2. CASE DriveFails
  BY <1>1, <1>2, DriveFailsNext DEF HuInv, Types
<1>3. CASE Go("drive_store") /\ UNCHANGED coordinator
  <2>1. /\ "drive_store" \in PackedPcs \ InstallPcs /\ "drive_store" # "drive_decide"
        /\ task.pc \in PackedPcs \ InstallPcs
    BY <1>1 DEF PackedPcs, InstallPcs
  <2> QED  BY <1>1, <1>3, <2>1, DriveGoes
<1> QED  BY <1>2, <1>3 DEF DriveAdmit

(* What is stored as prepared is the package of the offer, if there still  *)
(* is one.                                                                 *)
LEMMA DriveStoreNext ==
  ASSUME HuInv, DriveStore
  PROVE  HuInv'
<1>1. UNCHANGED <<setup, auth, panel, updater, tail, recovery, saved, ui, gate, journal, cache, ghost>>
      /\ task.pc = "drive_store"
  BY DEF DriveStore, idleDrive, At
<1>2. CASE DriveFails
  BY <1>1, <1>2, DriveFailsNext DEF HuInv, Types
<1>3. CASE coordinator' = [coordinator EXCEPT !.prepared = task.package] /\ Go("drive_ready")
  <2>1. task' \in Tasks /\ task'.pc = "drive_ready" /\ task'.offer = task.offer /\ task'.package = task.package
    BY <1>3, Went DEF HuInv, Types, Pcs, DrivePcs, PackedPcs
  <2>2. task.package = task.offer.package /\ coordinator.offer \in {None, task.offer}
    BY <1>1 DEF HuInv, Driven, DrivePcs, PackedPcs
  <2>3. /\ coordinator' \in Coordinators /\ coordinator'.offer = coordinator.offer
        /\ coordinator'.prepared = task.package /\ coordinator'.consent = coordinator.consent
        /\ coordinator'.deferred = coordinator.deferred /\ coordinator'.presented = coordinator.presented
    BY <1>3 DEF HuInv, Types, Tasks, Coordinators
  <2>4. Types'
    BY <1>1, <2>1, <2>3 DEF HuInv, Types
  <2>5. Bound'
    BY <1>1, <2>2, <2>3 DEF HuInv, Bound
  <2>6. task.pc \in DrivePcs \ InstallPcs /\ task'.pc \in DrivePcs \ InstallPcs /\ task'.pc # "drive_decide"
    BY <1>1, <2>1 DEF DrivePcs, PackedPcs, InstallPcs
  <2> QED  BY <1>1, <2>1, <2>2, <2>3, <2>4, <2>5, <2>6, DriveStep
<1> QED  BY <1>2, <1>3 DEF DriveStore

(* Without a Yes the drive ends here. *)
LEMMA DriveReadyNext ==
  ASSUME HuInv, DriveReady
  PROVE  HuInv'
<1>1. UNCHANGED <<setup, auth, panel, updater, tail, recovery, saved, ui, gate, journal, cache, ghost>>
      /\ task.pc = "drive_ready"
  BY DEF DriveReady, idleDrive, At
<1>2. /\ coordinator' \in Coordinators /\ coordinator'.offer = coordinator.offer
      /\ coordinator'.prepared = coordinator.prepared /\ coordinator'.consent = coordinator.consent
      /\ coordinator'.deferred = coordinator.deferred /\ coordinator'.presented = coordinator.presented
  BY DEF DriveReady, HuInv, Types, Coordinators, Phases
<1>3. CASE Go("reset")
  <2>1. task' \in Tasks /\ task'.pc = "reset"
    BY <1>3, Went DEF HuInv, Types, Pcs
  <2>2. Types'
    BY <1>1, <1>2, <2>1 DEF HuInv, Types
  <2> QED  BY <1>1, <1>2, <2>1, <2>2, PlainStep
<1>4. CASE Go("drive_fresh")
  <2>1. task' \in Tasks /\ task'.pc = "drive_fresh" /\ task'.offer = task.offer /\ task'.package = task.package
    BY <1>4, Went DEF HuInv, Types, Pcs, DrivePcs, PackedPcs
  <2>2. task.package = task.offer.package
    BY <1>1 DEF HuInv, Driven, PackedPcs
  <2>3. Types'
    BY <1>1, <1>2, <2>1 DEF HuInv, Types
  <2>4. Bound'
    BY <1>1, <1>2, BoundKept DEF HuInv
  <2>5. task.pc \in DrivePcs \ InstallPcs /\ task'.pc \in DrivePcs \ InstallPcs /\ task'.pc # "drive_decide"
    BY <1>1, <2>1 DEF DrivePcs, PackedPcs, InstallPcs
  <2> QED  BY <1>1, <1>2, <2>1, <2>2, <2>3, <2>4, <2>5, DriveStep
<1> QED  BY <1>3, <1>4 DEF DriveReady

(* The panel must still offer the package. *)
LEMMA DriveFreshNext ==
  ASSUME HuInv, DriveFresh
  PROVE  HuInv'
<1>1. UNCHANGED <<setup, auth, panel, updater, tail, recovery, saved, ui, gate, journal, cache, ghost>>
      /\ task.pc = "drive_fresh"
  BY DEF DriveFresh, idleDrive, At
<1>2. CASE DriveFails
  BY <1>1, <1>2, DriveFailsNext DEF HuInv, Types
<1>3. CASE Go("drive_gate") /\ UNCHANGED coordinator
  <2>1. /\ "drive_gate" \in PackedPcs \ InstallPcs /\ "drive_gate" # "drive_decide"
        /\ task.pc \in PackedPcs \ InstallPcs
    BY <1>1 DEF PackedPcs, InstallPcs
  <2> QED  BY <1>1, <1>3, <2>1, DriveGoes
<1> QED  BY <1>2, <1>3 DEF DriveFresh

(* The installation gate is taken when nobody has it. *)
LEMMA DriveGateNext ==
  ASSUME HuInv, DriveGate
  PROVE  HuInv'
<1>1. UNCHANGED <<setup, auth, panel, updater, tail, recovery, saved, ui, journal, cache, ghost>>
      /\ task.pc = "drive_gate" /\ gate = None
  BY DEF DriveGate, idleDrive, At
<1>2. CASE DriveFails /\ UNCHANGED gate
  BY <1>1, <1>2, DriveFailsNext DEF HuInv, Types
<1>3. CASE gate' = "task" /\ Go("drive_decide") /\ UNCHANGED coordinator
  <2>1. task' \in Tasks /\ task'.pc = "drive_decide" /\ task'.offer = task.offer /\ task'.package = task.package
    BY <1>3, Went DEF HuInv, Types, Pcs, DrivePcs, PackedPcs
  <2>2. task.package = task.offer.package
    BY <1>1 DEF HuInv, Driven, PackedPcs
  <2>3. Types'
    BY <1>1, <1>3, <2>1 DEF HuInv, Types
  <2>4. Bound'
    BY <1>1, <1>3 DEF HuInv, Bound
  <2>5. task.pc \in DrivePcs \ InstallPcs /\ task'.pc \in DrivePcs \ InstallPcs
    BY <1>1, <2>1 DEF DrivePcs, PackedPcs, InstallPcs
  <2> QED  BY <1>1, <1>3, <2>1, <2>2, <2>3, <2>4, <2>5, DriveStep
<1> QED  BY <1>2, <1>3 DEF DriveGate

-----------------------------------------------------------------------------
(* The installation, under the gate.                                       *)

(* A step of the installation keeps the coordinator and the gate. *)
LEMMA InstallStep ==
  ASSUME HuInv, Types', Bound', task.pc \in InstallPcs \cup {"drive_decide"}, task'.pc \in InstallPcs,
         task'.offer = task.offer, task'.package = task.package,
         coordinator'.phase = "Installing", coordinator'.offer = coordinator.offer,
         coordinator'.deferred = coordinator.deferred, coordinator'.presented = coordinator.presented,
         UNCHANGED <<setup, updater, gate, recovery, saved, ghost>>,
         task'.pc \in StoppedPcs => journal' # None, Handed'
  PROVE  HuInv'
<1>1. Answered'
  BY AnsweredKept DEF HuInv
<1>2. task.pc \in PackedPcs /\ task.pc \in DrivePcs /\ task'.pc \in PackedPcs /\ task'.pc \in DrivePcs
      /\ task.pc \in GatePcs /\ task'.pc \in GatePcs
      /\ task'.pc \notin CheckedPcs /\ task'.pc # "none" /\ task.pc # "none"
  BY DEF DrivePcs, PackedPcs, InstallPcs, GatePcs, CheckedPcs
<1>3. Gated'
  BY <1>2 DEF HuInv, Gated
<1>4. OneOperation' /\ Driven'
  BY <1>2 DEF HuInv, OneOperation, Driven
<1> QED  BY <1>1, <1>3, <1>4 DEF HuInv

(* The last look before the stop. *)
LEMMA DriveDecideNext ==
  ASSUME HuInv, DriveDecide
  PROVE  HuInv'
<1>1. UNCHANGED <<setup, auth, panel, updater, tail, recovery, saved, ui, journal, cache>>
      /\ task.pc = "drive_decide"
  BY DEF DriveDecide, idleDrive, At
<1>2. task.pc \in GatePcs /\ task.pc # "none" /\ task.pc \in InstallPcs \cup {"drive_decide"}
  BY <1>1 DEF GatePcs
<1> DEFINE version == Version(task.offer.package)
<1>3. CASE DriveFails /\ gate' = None /\ UNCHANGED ghost
  BY <1>1, <1>2, <1>3, DriveFailsNext DEF HuInv, Types
<1>4. CASE coordinator' = [coordinator EXCEPT !.phase = "Installing"] /\ Go("install_stop") /\ UNCHANGED <<gate, ghost>>
  <2>1. task' \in Tasks /\ task'.pc = "install_stop" /\ task'.offer = task.offer /\ task'.package = task.package
    BY <1>4, Went DEF HuInv, Types, Pcs, DrivePcs, PackedPcs, InstallPcs
  <2>2. /\ coordinator' \in Coordinators /\ coordinator'.offer = coordinator.offer /\ coordinator'.phase = "Installing"
        /\ coordinator'.prepared = coordinator.prepared /\ coordinator'.consent = coordinator.consent
        /\ coordinator'.deferred = coordinator.deferred /\ coordinator'.presented = coordinator.presented
    BY <1>4 DEF HuInv, Types, Coordinators, Phases
  <2>3. Types'
    BY <1>1, <1>4, <2>1, <2>2 DEF HuInv, Types
  <2>4. Bound'
    BY <1>1, <1>4, <2>2, BoundKept DEF HuInv
  <2>5. Handed' /\ task'.pc \in InstallPcs /\ task'.pc \notin StoppedPcs
    BY <2>1 DEF Handed, InstallPcs, StoppedPcs
  <2> QED  BY <1>1, <1>2, <1>4, <2>1, <2>2, <2>3, <2>4, <2>5, InstallStep
<1>5. CASE /\ coordinator' = [coordinator EXCEPT !.consent = FALSE,
                                !.presented = IF coordinator.consent THEN @ \ {version} ELSE @]
           /\ ghost' = [ghost EXCEPT !.paused = IF coordinator.consent THEN version ELSE @]
           /\ gate' = None /\ Go("reset")
  <2> DEFINE shown == IF coordinator.consent THEN coordinator.presented \ {version} ELSE coordinator.presented
             held == IF coordinator.consent THEN version ELSE ghost.paused
  <2>1. version \in Versions
    <3>1. task.offer \in BoundOffers /\ setup \in [android : BOOLEAN, version : [Packages -> Versions]]
      BY <1>1 DEF HuInv, Types, Gated, Tasks, DrivePcs, PackedPcs
    <3> QED  BY <3>1, VersionFacts DEF BoundOffers
  <2>2. /\ shown \in SUBSET Versions /\ held \in Versions \cup {None}
        /\ held # None => held \notin shown
    <3> HIDE DEF version
    <3> QED  BY <2>1 DEF HuInv, Types, Coordinators, Answered
  <2>3. coordinator' = [coordinator EXCEPT !.consent = FALSE, !.presented = shown]
        /\ ghost' = [ghost EXCEPT !.paused = held]
    BY <1>5 DEF HuInv, Types, Coordinators
  <2> HIDE DEF shown, held, version
  <2>4. /\ coordinator' \in Coordinators /\ coordinator'.offer = coordinator.offer /\ ~coordinator'.consent
        /\ coordinator'.prepared = coordinator.prepared
        /\ coordinator'.deferred = coordinator.deferred /\ coordinator'.presented = shown
    BY <2>2, <2>3 DEF HuInv, Types, Coordinators
  <2>5. /\ ghost' \in [yes : Nat, later : BOOLEAN, paused : Versions \cup {None}]
        /\ ghost'.yes = ghost.yes /\ ghost'.later = ghost.later /\ ghost'.paused = held
    BY <2>2, <2>3 DEF HuInv, Types
  <2>6. task' \in Tasks /\ task'.pc = "reset"
    BY <1>5, Went DEF HuInv, Types, Pcs
  <2>7. Types'
    BY <1>1, <2>4, <2>5, <2>6 DEF HuInv, Types
  <2>8. Bound'
    BY <2>4, <2>5, BoundKept DEF HuInv
  <2>9. Answered'
    BY <1>1, <2>2, <2>4, <2>5 DEF HuInv, Answered, Android
  <2>10. task'.pc \in Pcs \ (DrivePcs \cup GatePcs) /\ task'.pc \notin CheckedPcs
    BY <2>6 DEF Pcs, DrivePcs, GatePcs, PackedPcs, InstallPcs, CheckedPcs
  <2>11. Gated' /\ OneOperation' /\ Driven' /\ Handed'
    BY <1>1, <1>2, <2>10, PlainMove
  <2> QED  BY <2>7, <2>8, <2>9, <2>11 DEF HuInv
<1> QED  BY <1>3, <1>4, <1>5 DEF DriveDecide

(* The installation steps that leave the coordinator alone. *)
LEMMA InstallGoes ==
  ASSUME HuInv, task.pc \in InstallPcs, idleInstall, UNCHANGED <<coordinator, gate>>,
         task' \in Tasks, task'.pc \in InstallPcs, task'.offer = task.offer, task'.package = task.package,
         auth' \in [epoch : Nat, token : Nat, active : BOOLEAN, revoking : BOOLEAN],
         journal' \in Journals \cup {None}, cache' \in [Versions -> Packages \cup {None}],
         task'.pc \in StoppedPcs => journal' # None, Handed'
  PROVE  HuInv'
<1>1. Types'
  BY DEF HuInv, Types, idleInstall
<1>2. Bound'
  BY DEF HuInv, Bound, idleInstall
<1>3. coordinator.phase = "Installing"
  BY DEF HuInv, Driven
<1> QED  BY <1>1, <1>2, <1>3, InstallStep DEF idleInstall

(* The task at the end of the installation. *)
LEMMA EndsFacts ==
  ASSUME HuInv, NEW ok \in BOOLEAN, InstallEnds(ok)
  PROVE  /\ task' \in Tasks /\ task'.pc \in InstallPcs /\ task'.offer = task.offer /\ task'.package = task.package
         /\ task'.pc \notin StoppedPcs /\ Handed'
<1>1. task' \in Tasks /\ task'.pc = "install_finish" /\ task'.offer = task.offer /\ task'.package = task.package
  BY DEF HuInv, Types, InstallEnds, Tasks, Pcs, DrivePcs, PackedPcs, InstallPcs
<1> QED  BY <1>1 DEF InstallPcs, StoppedPcs, Handed

(* A step of the installation moves the task only. *)
LEMMA InstallWent ==
  ASSUME HuInv, NEW pc \in InstallPcs, Go(pc)
  PROVE  task' \in Tasks /\ task'.pc = pc /\ task'.offer = task.offer /\ task'.package = task.package
<1>1. pc \in Pcs
  BY DEF Pcs, DrivePcs, PackedPcs
<1> QED  BY <1>1, Went DEF HuInv, Types

(* The offer of an installation has a package and a version. *)
LEMMA InstallOffer ==
  ASSUME HuInv, task.pc \in InstallPcs
  PROVE  /\ task.offer \in BoundOffers /\ task.package = task.offer.package
         /\ task.package \in Packages /\ Version(task.package) \in Versions
<1>1. task.pc \in PackedPcs /\ task.pc \in DrivePcs
  BY DEF PackedPcs, DrivePcs
<1>2. task.offer \in BoundOffers /\ task.package = task.offer.package
  BY <1>1 DEF HuInv, Types, Gated, Driven, Tasks
<1>3. setup \in [android : BOOLEAN, version : [Packages -> Versions]]
  BY DEF HuInv, Types
<1> QED  BY <1>2, <1>3, VersionFacts DEF BoundOffers

(* A journal of the offer's version is a journal. *)
LEMMA JournalFacts ==
  ASSUME HuInv, task.pc \in InstallPcs, NEW phase \in {"Requested", "LocalStopped"}
  PROVE  /\ Journal(phase) \in Journals /\ Journal(phase).phase = phase
         /\ Journal(phase).version = Version(task.offer.package)
  BY InstallOffer DEF Journal, Journals

(* UpdateBarrier::prepare finds a stopped runtime only under a journal of  *)
(* the offer's own version.                                                *)
LEMMA InstallStopNext ==
  ASSUME HuInv, InstallStop
  PROVE  HuInv'
<1>1. idleInstall /\ UNCHANGED <<auth, coordinator, gate, cache>> /\ task.pc = "install_stop"
  BY DEF InstallStop, At
<1>2. task.pc \in InstallPcs
  BY <1>1 DEF InstallPcs
<1>3. /\ auth \in [epoch : Nat, token : Nat, active : BOOLEAN, revoking : BOOLEAN]
      /\ journal \in Journals \cup {None} /\ cache \in [Versions -> Packages \cup {None}]
  BY DEF HuInv, Types
<1>4. CASE journal' = Journal("Requested") /\ Go("install_stopping")
  <2>1. "install_stopping" \in InstallPcs /\ "install_stopping" \notin StoppedPcs
    BY DEF InstallPcs, StoppedPcs
  <2>2. task' \in Tasks /\ task'.pc = "install_stopping" /\ task'.offer = task.offer /\ task'.package = task.package
    BY <1>4, <2>1, InstallWent
  <2>3. journal' \in Journals
    BY <1>2, <1>4, JournalFacts
  <2>4. Handed'
    BY <2>2 DEF Handed
  <2> QED  BY <1>1, <1>2, <1>3, <2>1, <2>2, <2>3, <2>4, InstallGoes
<1>5. CASE UNCHANGED journal /\ InstallEnds(FALSE)
  <2>1. FALSE \in BOOLEAN
    OBVIOUS
  <2>2. /\ task' \in Tasks /\ task'.pc \in InstallPcs /\ task'.offer = task.offer /\ task'.package = task.package
        /\ task'.pc \notin StoppedPcs /\ Handed'
    BY <1>5, <2>1, EndsFacts
  <2> QED  BY <1>1, <1>2, <1>3, <1>5, <2>2, InstallGoes
<1>6. CASE UNCHANGED journal /\ Go("install_stopping")
  <2>1. "install_stopping" \in InstallPcs /\ "install_stopping" \notin StoppedPcs
    BY DEF InstallPcs, StoppedPcs
  <2>2. task' \in Tasks /\ task'.pc = "install_stopping" /\ task'.offer = task.offer /\ task'.package = task.package
    BY <1>6, <2>1, InstallWent
  <2>3. Handed'
    BY <2>2 DEF Handed
  <2> QED  BY <1>1, <1>2, <1>3, <1>6, <2>1, <2>2, <2>3, InstallGoes
<1>7. CASE /\ journal # None /\ journal.version = Version(task.offer.package)
           /\ journal.phase \in {"LocalStopped", "InstallerOpened"}
           /\ UNCHANGED journal /\ Go("install_check")
  <2>1. "install_check" \in InstallPcs
    BY DEF InstallPcs
  <2>2. task' \in Tasks /\ task'.pc = "install_check" /\ task'.offer = task.offer /\ task'.package = task.package
    BY <1>7, <2>1, InstallWent
  <2>3. Handed'
    BY <1>1, <1>7, <2>2 DEF Handed, Stopped, Version, idleInstall
  <2> QED  BY <1>1, <1>2, <1>3, <1>7, <2>1, <2>2, <2>3, InstallGoes
<1> QED  BY <1>4, <1>5, <1>6, <1>7 DEF InstallStop

(* The stop succeeds, and the journal says so, or the installation ends. *)
LEMMA InstallStoppingNext ==
  ASSUME HuInv, InstallStopping
  PROVE  HuInv'
<1>1. idleInstall /\ UNCHANGED <<auth, coordinator, gate, cache>> /\ task.pc = "install_stopping"
  BY DEF InstallStopping, At
<1>2. task.pc \in InstallPcs
  BY <1>1 DEF InstallPcs
<1>3. /\ auth \in [epoch : Nat, token : Nat, active : BOOLEAN, revoking : BOOLEAN]
      /\ journal \in Journals \cup {None} /\ cache \in [Versions -> Packages \cup {None}]
  BY DEF HuInv, Types
<1>4. CASE journal' = Journal("LocalStopped") /\ Go("install_check")
  <2>1. "install_check" \in InstallPcs
    BY DEF InstallPcs
  <2>2. task' \in Tasks /\ task'.pc = "install_check" /\ task'.offer = task.offer /\ task'.package = task.package
    BY <1>4, <2>1, InstallWent
  <2>3. journal' \in Journals /\ journal'.phase = "LocalStopped" /\ journal'.version = Version(task.offer.package)
    BY <1>2, <1>4, JournalFacts
  <2>4. Handed'
    BY <1>1, <2>2, <2>3 DEF Handed, Stopped, Version, idleInstall
  <2>5. journal' # None
    BY <2>3, UpdaterAssumption
  <2> QED  BY <1>1, <1>2, <1>3, <2>1, <2>2, <2>3, <2>4, <2>5, InstallGoes
<1>5. CASE InstallEnds(FALSE) /\ journal' \in {journal, None}
  <2>1. FALSE \in BOOLEAN
    OBVIOUS
  <2>2. /\ task' \in Tasks /\ task'.pc \in InstallPcs /\ task'.offer = task.offer /\ task'.package = task.package
        /\ task'.pc \notin StoppedPcs /\ Handed'
    BY <1>5, <2>1, EndsFacts
  <2> QED  BY <1>1, <1>2, <1>3, <1>5, <2>2, InstallGoes
<1> QED  BY <1>4, <1>5 DEF InstallStopping

(* The native installer is called only for the offer the Yes names, with   *)
(* the bytes of its package.                                               *)
LEMMA InstallCheckNext ==
  ASSUME HuInv, InstallCheck
  PROVE  HuInv'
<1>1. idleInstall /\ UNCHANGED <<auth, coordinator, gate, journal, cache>> /\ task.pc = "install_check"
  BY DEF InstallCheck, At
<1>2. task.pc \in InstallPcs /\ task.pc \in DrivePcs /\ task.pc \in StoppedPcs
  BY <1>1 DEF InstallPcs, DrivePcs, PackedPcs, StoppedPcs
<1>3. /\ auth \in [epoch : Nat, token : Nat, active : BOOLEAN, revoking : BOOLEAN]
      /\ journal \in Journals \cup {None} /\ cache \in [Versions -> Packages \cup {None}]
      /\ journal # None
  BY <1>2 DEF HuInv, Types, Gated
<1>4. CASE Go("install_cancel")
  <2>1. "install_cancel" \in InstallPcs
    BY DEF InstallPcs
  <2>2. task' \in Tasks /\ task'.pc = "install_cancel" /\ task'.offer = task.offer /\ task'.package = task.package
    BY <1>4, <2>1, InstallWent
  <2>3. Handed'
    BY <2>2 DEF Handed
  <2> QED  BY <1>1, <1>2, <1>3, <2>1, <2>2, <2>3, InstallGoes
<1>5. CASE Go("installing") /\ Revalidates(task.package) /\ Current(task.offer) /\ coordinator.consent
  <2>1. "installing" \in InstallPcs
    BY DEF InstallPcs
  <2>2. task' \in Tasks /\ task'.pc = "installing" /\ task'.offer = task.offer /\ task'.package = task.package
    BY <1>5, <2>1, InstallWent
  <2>3. task.offer.id = ghost.yes
    BY <1>2, <1>5, CurrentOffer DEF HuInv, Bound
  <2>4. Handed'
    BY <1>1, <1>5, <2>2, <2>3 DEF HuInv, Handed, Stopped, Revalidates, Version, idleInstall
  <2> QED  BY <1>1, <1>2, <1>3, <2>1, <2>2, <2>4, InstallGoes
<1> QED  BY <1>4, <1>5 DEF InstallCheck

(* The installer ends or is cancelled. *)
LEMMA InstallingNext ==
  ASSUME HuInv, Installing
  PROVE  HuInv'
<1>1. idleInstall /\ UNCHANGED <<auth, coordinator, gate, journal>> /\ task.pc = "installing"
  BY DEF Installing, At
<1>2. task.pc \in InstallPcs /\ task.pc \in StoppedPcs
  BY <1>1 DEF InstallPcs, StoppedPcs
<1>3. /\ auth \in [epoch : Nat, token : Nat, active : BOOLEAN, revoking : BOOLEAN]
      /\ journal \in Journals \cup {None} /\ cache' \in [Versions -> Packages \cup {None}]
      /\ journal # None
  BY <1>2 DEF HuInv, Types, Gated, Installing
<1>4. PICK pc \in {"install_opened", "install_cancel"} : Go(pc)
  BY DEF Installing
<1>5. pc \in InstallPcs
  BY DEF InstallPcs
<1>6. task' \in Tasks /\ task'.pc = pc /\ task'.offer = task.offer /\ task'.package = task.package
  BY <1>4, <1>5, InstallWent
<1>7. Handed'
  BY <1>6 DEF Handed
<1> QED  BY <1>1, <1>2, <1>3, <1>5, <1>6, <1>7, InstallGoes

(* The journal follows the installer, or the installation ends. *)
LEMMA InstallOpenedNext ==
  ASSUME HuInv, InstallOpened
  PROVE  HuInv'
<1>1. idleInstall /\ UNCHANGED <<auth, coordinator, gate, cache>> /\ task.pc = "install_opened"
  BY DEF InstallOpened, At
<1>2. task.pc \in InstallPcs /\ task.pc \in StoppedPcs
  BY <1>1 DEF InstallPcs, StoppedPcs
<1>3. /\ auth \in [epoch : Nat, token : Nat, active : BOOLEAN, revoking : BOOLEAN]
      /\ journal \in Journals /\ cache \in [Versions -> Packages \cup {None}]
  BY <1>2 DEF HuInv, Types, Gated
<1>4. journal' \in Journals
  BY <1>3 DEF InstallOpened, Journals
<1>5. PICK ok \in BOOLEAN : InstallEnds(ok)
  BY DEF InstallOpened
<1>6. /\ task' \in Tasks /\ task'.pc \in InstallPcs /\ task'.offer = task.offer /\ task'.package = task.package
      /\ task'.pc \notin StoppedPcs /\ Handed'
  BY <1>5, EndsFacts
<1> QED  BY <1>1, <1>2, <1>3, <1>4, <1>6, InstallGoes

(* installer_failed writes the cancellation down before it undoes the stop. *)
LEMMA InstallCancelNext ==
  ASSUME HuInv, InstallCancel
  PROVE  HuInv'
<1>1. idleInstall /\ UNCHANGED <<auth, coordinator, gate, cache>> /\ task.pc = "install_cancel"
      /\ Go("install_cancelling")
  BY DEF InstallCancel, At
<1>2. task.pc \in InstallPcs /\ task.pc \in StoppedPcs
  BY <1>1 DEF InstallPcs, StoppedPcs
<1>3. /\ auth \in [epoch : Nat, token : Nat, active : BOOLEAN, revoking : BOOLEAN]
      /\ journal \in Journals /\ cache \in [Versions -> Packages \cup {None}]
  BY <1>2 DEF HuInv, Types, Gated
<1>4. journal' \in Journals
  BY <1>3 DEF InstallCancel, Journals
<1>5. "install_cancelling" \in InstallPcs /\ "install_cancelling" \notin StoppedPcs
  BY DEF InstallPcs, StoppedPcs
<1>6. task' \in Tasks /\ task'.pc = "install_cancelling" /\ task'.offer = task.offer /\ task'.package = task.package
  BY <1>1, <1>5, InstallWent
<1>7. Handed'
  BY <1>6 DEF Handed
<1> QED  BY <1>1, <1>2, <1>3, <1>4, <1>5, <1>6, <1>7, InstallGoes

(* A resumed session is a session. *)
LEMMA ResumedFacts ==
  ASSUME HuInv
  PROVE  /\ Resumed \in [epoch : Nat, token : Nat, active : BOOLEAN, revoking : BOOLEAN]
         /\ auth \in [epoch : Nat, token : Nat, active : BOOLEAN, revoking : BOOLEAN]
<1>1. auth \in [epoch : Nat, token : Nat, active : BOOLEAN, revoking : BOOLEAN]
  BY DEF HuInv, Types
<1> DEFINE e == auth.epoch + 1
           k == auth.token + 1
<1>2. e \in Nat /\ k \in Nat /\ Resumed = [auth EXCEPT !.epoch = e, !.token = k]
  BY <1>1 DEF Resumed
<1> HIDE DEF e, k
<1> QED  BY <1>1, <1>2

(* The stop is undone, or stays to be undone. *)
LEMMA InstallCancellingNext ==
  ASSUME HuInv, InstallCancelling
  PROVE  HuInv'
<1>1. idleInstall /\ UNCHANGED <<coordinator, gate, cache>> /\ task.pc = "install_cancelling"
      /\ InstallEnds(FALSE)
  BY DEF InstallCancelling, At
<1>2. task.pc \in InstallPcs
  BY <1>1 DEF InstallPcs
<1>3. journal' \in Journals \cup {None} /\ cache \in [Versions -> Packages \cup {None}]
  BY DEF HuInv, Types, InstallCancelling
<1>4. auth' \in [epoch : Nat, token : Nat, active : BOOLEAN, revoking : BOOLEAN]
  BY ResumedFacts DEF InstallCancelling
<1>5. FALSE \in BOOLEAN
  OBVIOUS
<1>6. /\ task' \in Tasks /\ task'.pc \in InstallPcs /\ task'.offer = task.offer /\ task'.package = task.package
      /\ task'.pc \notin StoppedPcs /\ Handed'
  BY <1>1, <1>5, EndsFacts
<1> QED  BY <1>1, <1>2, <1>3, <1>4, <1>6, InstallGoes

(* The outcome of the installation is the coordinator's. *)
LEMMA InstallFinishNext ==
  ASSUME HuInv, InstallFinish
  PROVE  HuInv'
<1>1. idleInstall /\ UNCHANGED <<auth, journal, cache>> /\ task.pc = "install_finish" /\ Go("reset")
  BY DEF InstallFinish, At
<1>2. task' \in Tasks /\ task'.pc = "reset"
  BY <1>1, Went DEF HuInv, Types, Pcs
<1>3. task.pc \in GatePcs /\ task.pc # "none"
  BY <1>1 DEF GatePcs, InstallPcs
<1>4. /\ coordinator' \in Coordinators /\ coordinator'.offer = coordinator.offer /\ ~coordinator'.consent
      /\ coordinator'.prepared \in {coordinator.prepared, None}
      /\ coordinator'.deferred = coordinator.deferred /\ coordinator'.presented = coordinator.presented
  BY DEF InstallFinish, HuInv, Types, Coordinators, Phases
<1>5. Types'
  BY <1>1, <1>2, <1>4 DEF HuInv, Types, idleInstall
<1> QED  BY <1>1, <1>2, <1>3, <1>4, <1>5, PlainStep DEF idleInstall

-----------------------------------------------------------------------------
(* The task that completes a cancellation, and the end of every task.      *)

(* A recovery takes the gate when nobody has it. *)
LEMMA RecoverGateNext ==
  ASSUME HuInv, RecoverGate
  PROVE  HuInv'
<1>1. UNCHANGED <<setup, panel, tail, recovery, saved, cache, ui, ghost, auth, updater, coordinator, journal>>
      /\ task.pc = "recover_gate"
  BY DEF RecoverGate, idleRecover, At
<1>2. CASE Go("recover_failed") /\ UNCHANGED gate
  <2>1. task' \in Tasks /\ task'.pc = "recover_failed"
    BY <1>2, Went DEF HuInv, Types, Pcs
  <2>2. Types'
    BY <1>1, <2>1 DEF HuInv, Types
  <2> QED  BY <1>1, <1>2, <2>1, <2>2, PlainStep
<1>3. CASE gate = None /\ gate' = "task" /\ Go("recover_cancel")
  <2>1. task' \in Tasks /\ task'.pc = "recover_cancel"
    BY <1>3, Went DEF HuInv, Types, Pcs
  <2>2. Types'
    BY <1>1, <2>1 DEF HuInv, Types
  <2>3. Bound' /\ Answered'
    BY <1>1 DEF HuInv, Bound, Answered, Android
  <2>4. recovery # "cancel"
    BY <1>3, UpdaterAssumption DEF HuInv, Gated
  <2>5. Gated' /\ OneOperation' /\ Driven' /\ Handed'
    BY <1>1, <1>3, <2>1, <2>4 DEF HuInv, Gated, OneOperation, Driven, Handed, StoppedPcs, CheckedPcs,
         DrivePcs, PackedPcs, InstallPcs
  <2> QED  BY <2>2, <2>3, <2>5 DEF HuInv
<1> QED  BY <1>2, <1>3 DEF RecoverGate

(* The cancellation is completed, or left to the next recovery. *)
LEMMA RecoverCancelNext ==
  ASSUME HuInv, RecoverCancel
  PROVE  HuInv'
<1>1. UNCHANGED <<setup, panel, tail, recovery, saved, cache, ui, ghost, updater, coordinator>>
      /\ task.pc = "recover_cancel"
  BY DEF RecoverCancel, idleRecover, At
<1>2. PICK pc \in {"recover_done", "recover_failed"} : Go(pc)
  BY DEF RecoverCancel
<1>3. pc \in Pcs
  BY DEF Pcs
<1>4. task' \in Tasks /\ task'.pc = pc
  BY <1>2, <1>3, Went DEF HuInv, Types
<1>5. journal' \in Journals \cup {None}
  BY DEF HuInv, Types, RecoverCancel
<1>6. auth' \in [epoch : Nat, token : Nat, active : BOOLEAN, revoking : BOOLEAN]
  BY ResumedFacts DEF RecoverCancel
<1>7. Types'
  BY <1>1, <1>4, <1>5, <1>6 DEF HuInv, Types
<1>8. task.pc \in GatePcs /\ task.pc # "none"
  BY <1>1 DEF GatePcs
<1> QED  BY <1>1, <1>4, <1>7, <1>8, PlainStep

(* A resumed session keeps no Yes. *)
LEMMA RecoverDoneNext ==
  ASSUME HuInv, RecoverDone
  PROVE  HuInv'
<1>1. UNCHANGED <<setup, panel, tail, recovery, saved, cache, ui, ghost, auth, updater, gate, journal>>
      /\ task.pc = "recover_done" /\ Go("reset")
  BY DEF RecoverDone, idleRecover, At
<1>2. task' \in Tasks /\ task'.pc = "reset"
  BY <1>1, Went DEF HuInv, Types, Pcs
<1>3. coordinator' \in Coordinators /\ Retains(coordinator, coordinator')
      /\ coordinator'.deferred = coordinator.deferred /\ coordinator'.presented = coordinator.presented
  BY InvalidateFacts DEF RecoverDone, HuInv, Types
<1>4. Types'
  BY <1>1, <1>2, <1>3 DEF HuInv, Types
<1> QED  BY <1>1, <1>2, <1>3, <1>4, PlainStep DEF Retains

(* A recovery that failed drops the pending checks. *)
LEMMA RecoverFailedNext ==
  ASSUME HuInv, RecoverFailed
  PROVE  HuInv'
<1>1. UNCHANGED <<setup, panel, tail, recovery, saved, cache, ui, ghost, auth, coordinator, gate, journal>>
      /\ task.pc = "recover_failed"
  BY DEF RecoverFailed, idleRecover, At
<1>2. task' \in Tasks /\ task'.pc = "reset"
  BY DEF RecoverFailed, HuInv, Types, Tasks, Pcs
<1>3. updater' \in Updaters /\ updater'.operation = updater.operation /\ ~updater'.manual
  BY DEF RecoverFailed, HuInv, Types, Updaters
<1>4. Types'
  BY <1>1, <1>2, <1>3 DEF HuInv, Types
<1> QED  BY <1>1, <1>2, <1>3, <1>4, PlainStep

(* The operation is Idle again and its task gone. *)
LEMMA ResetNext ==
  ASSUME HuInv, ResetOperation
  PROVE  HuInv'
<1>1. UNCHANGED <<setup, auth, panel, coordinator, recovery, gate, journal, saved, cache, ui, ghost>>
  BY DEF ResetOperation
<1>2. task' \in Tasks /\ task'.pc = "none"
  BY DEF ResetOperation, NoTask, Tasks, Pcs
<1>3. updater' \in Updaters /\ updater'.manual = updater.manual
  BY DEF ResetOperation, HuInv, Types, Updaters, Operations
<1>4. tail' \in SUBSET Operations
  BY DEF ResetOperation, HuInv, Types, Updaters
<1>5. Types'
  BY <1>1, <1>2, <1>3, <1>4 DEF HuInv, Types
<1>6. Bound' /\ Answered'
  BY <1>1, <1>3 DEF HuInv, Bound, Answered, Android
<1>7. Gated' /\ OneOperation' /\ Driven' /\ Handed'
  BY <1>1, <1>2 DEF HuInv, Gated, OneOperation, Driven, Handed, GatePcs, StoppedPcs, CheckedPcs,
       DrivePcs, PackedPcs, InstallPcs
<1> QED  BY <1>5, <1>6, <1>7 DEF HuInv

(* What Becomes makes of a host that starts something. *)
LEMMA BecomesFacts ==
  ASSUME HuInv, NEW g, Starts(Host, g), Becomes(g)
  PROVE  updater' \in Updaters /\ task' \in Tasks /\ TaskKept /\ updater'.manual = g.u.manual
<1>1. Host.u = updater /\ Host.t = task
  BY DEF Host
<1> QED  BY <1>1 DEF Starts, Becomes, TaskKept, Hosts

(* The tail of a task starts an operation only when there is none. *)
LEMMA TailNext ==
  ASSUME HuInv, NEW operation \in Operations, TaskTail(operation)
  PROVE  HuInv'
<1>1. UNCHANGED <<setup, auth, panel, coordinator, recovery, gate, journal, saved, cache, ui, ghost>>
      /\ tail' = tail \ {operation}
  BY DEF TaskTail
<1> DEFINE g == IF operation = "Driving" /\ Recovers(Host) THEN StartCancelRecovery(Host)
                ELSE IF \/ PendingCheck(Host) \/ operation = "Recovering"
                        \/ operation = "Driving" /\ ~coordinator.consent
                     THEN ResumePendingCheck(Host)
                ELSE StartDrive(ResumePendingCheck(Host), coordinator)
<1>2. Host \in Hosts /\ Host.u = updater
  BY HostFacts DEF HuInv, Types
<1>3. Starts(Host, g) /\ g.u.manual = updater.manual
  <2>1. Starts(Host, g) /\ g.u.manual = Host.u.manual
    BY <1>2, TailStarts
  <2> QED  BY <1>2, <2>1
<1>4. Becomes(g)
  BY DEF TaskTail
<1> HIDE DEF g
<1>5. updater' \in Updaters /\ task' \in Tasks /\ TaskKept /\ updater'.manual = updater.manual
  BY <1>3, <1>4, BecomesFacts
<1>6. Types'
  BY <1>1, <1>5 DEF HuInv, Types
<1>7. Retains(coordinator, coordinator')
  BY <1>1 DEF Retains
<1>8. HandoffInv'
  BY <1>1, <1>5, <1>7, QuietFrame
<1>9. Answered'
  BY <1>1, <1>5 DEF HuInv, Answered, Android
<1> QED  BY <1>6, <1>8, <1>9 DEF HuInv, HandoffInv

(* The host's own recovery takes the gate before it touches the journal. *)
LEMMA HostRecoverNext ==
  ASSUME HuInv, BeginRecover \/ EndRecover
  PROVE  HuInv'
<1>1. UNCHANGED <<setup, panel, updater, coordinator, task, tail, saved, cache, ui, ghost>>
  BY DEF BeginRecover, EndRecover, idleHost
<1>2. task.pc \notin GatePcs /\ task.pc \notin StoppedPcs
  <2>1. gate # "task"
    BY UpdaterAssumption DEF HuInv, Gated, BeginRecover, EndRecover
  <2> QED  BY <2>1 DEF HuInv, Gated, GatePcs, StoppedPcs, InstallPcs
<1>3. journal' \in Journals \cup {None}
  BY DEF HuInv, Types, BeginRecover, EndRecover, Journals
<1>4. auth' \in [epoch : Nat, token : Nat, active : BOOLEAN, revoking : BOOLEAN]
  BY ResumedFacts DEF BeginRecover, EndRecover
<1>5. Types'
  BY <1>1, <1>3, <1>4 DEF HuInv, Types
<1>6. Gated'
  BY <1>1, <1>2 DEF HuInv, Gated, BeginRecover, EndRecover
<1>7. OneOperation' /\ Bound' /\ Driven' /\ Answered'
  BY <1>1 DEF HuInv, OneOperation, Bound, Driven, Answered, Android
<1>8. Handed'
  BY <1>1, <1>2 DEF HuInv, Handed, GatePcs, InstallPcs
<1> QED  BY <1>5, <1>6, <1>7, <1>8 DEF HuInv

-----------------------------------------------------------------------------
(* Requests of the UI, the session, the panel and the process.             *)

(* A step outside the task that keeps the coordinator's offer and the      *)
(* user's answers to its prompt.                                           *)
LEMMA OutsideStep ==
  ASSUME HuInv, Types', TaskKept, Retains(coordinator, coordinator'), ghost'.yes = ghost.yes, Answered',
         UNCHANGED <<setup, recovery, gate, journal, cache>>
  PROVE  HuInv'
  BY QuietFrame DEF HuInv, HandoffInv

(* The status and the list of what was presented. *)
LEMMA StatusNext ==
  ASSUME HuInv, RequestStatus \/ Presented
  PROVE  HuInv'
<1>1. UNCHANGED <<setup, auth, panel, updater, task, tail, recovery, gate, journal, saved, cache, ui>>
  BY DEF RequestStatus, Presented, idleUi
<1>2. TaskKept
  BY <1>1 DEF TaskKept
<1>3. coordinator \in Coordinators /\ setup \in [android : BOOLEAN, version : [Packages -> Versions]]
      /\ ghost \in [yes : Nat, later : BOOLEAN, paused : Versions \cup {None}]
  BY DEF HuInv, Types
<1>4. CASE RequestStatus
  <2>1. coordinator' \in Coordinators /\ Retains(coordinator, coordinator') /\ ghost' = ghost
        /\ coordinator'.deferred = coordinator.deferred /\ coordinator'.presented = coordinator.presented
    BY <1>3, <1>4, ObservedFacts DEF RequestStatus
  <2>2. Types'
    BY <1>1, <2>1 DEF HuInv, Types
  <2>3. Answered'
    BY <1>1, <2>1 DEF HuInv, Answered, Android
  <2> QED  BY <1>1, <1>2, <2>1, <2>2, <2>3, OutsideStep
<1>5. CASE Presented
  <2>1. OfferVersion(coordinator) \in Versions
    BY <1>3, <1>5, VersionFacts DEF Presented, PromptPending
  <2>2. /\ coordinator' \in Coordinators /\ Retains(coordinator, coordinator')
        /\ coordinator'.deferred = coordinator.deferred
    BY <1>3, <1>5, <2>1 DEF Presented, Coordinators, Retains
  <2>3. /\ ghost' \in [yes : Nat, later : BOOLEAN, paused : Versions \cup {None}]
        /\ ghost'.yes = ghost.yes /\ ghost'.later = ghost.later /\ ghost'.paused = None
    BY <1>3, <1>5 DEF Presented
  <2>4. Types'
    BY <1>1, <2>2, <2>3 DEF HuInv, Types
  <2>5. Answered'
    BY <1>1, <2>2, <2>3 DEF HuInv, Answered, Android
  <2> QED  BY <1>1, <1>2, <2>2, <2>3, <2>4, <2>5, OutsideStep
<1> QED  BY <1>4, <1>5

(* A check that the user asks for takes back a Later. *)
LEMMA RequestCheckNext ==
  ASSUME HuInv, NEW reason \in {"Startup", "Manual", "Foreground"}, RequestCheck(reason)
  PROVE  HuInv'
<1>1. UNCHANGED <<setup, auth, panel, tail, recovery, gate, journal, saved, cache, ui>>
  BY DEF RequestCheck, idleUi
<1>2. Host \in Hosts /\ Host.u = updater /\ coordinator \in Coordinators
      /\ ghost \in [yes : Nat, later : BOOLEAN, paused : Versions \cup {None}]
  BY HostFacts DEF HuInv, Types
<1>3. Starts(Host, Check(Host, reason)) /\ Check(Host, reason).u.manual = (updater.manual \/ reason = "Manual")
  <2>1. /\ Starts(Host, Check(Host, reason))
        /\ Check(Host, reason).u.manual = (Host.u.manual \/ reason = "Manual")
    BY <1>2, CheckStarts
  <2> QED  BY <1>2, <2>1
<1>4. /\ updater' \in Updaters /\ task' \in Tasks /\ TaskKept
      /\ updater'.manual = (updater.manual \/ reason = "Manual")
  <2>1. Becomes(Check(Host, reason))
    BY DEF RequestCheck
  <2> QED  BY <1>3, <2>1, BecomesFacts
<1>5. coordinator' \in Coordinators /\ Retains(coordinator, coordinator')
      /\ coordinator'.deferred = coordinator.deferred /\ coordinator'.presented = coordinator.presented
  BY <1>2, ObservedFacts DEF RequestCheck
<1>6. /\ ghost' \in [yes : Nat, later : BOOLEAN, paused : Versions \cup {None}]
      /\ ghost'.yes = ghost.yes /\ ghost'.paused = ghost.paused
      /\ ghost'.later => ghost.later /\ reason # "Manual"
  BY <1>2 DEF RequestCheck
<1>7. Types'
  BY <1>1, <1>4, <1>5, <1>6 DEF HuInv, Types
<1>8. Answered'
  BY <1>1, <1>4, <1>5, <1>6 DEF HuInv, Answered, Android
<1> QED  BY <1>1, <1>4, <1>5, <1>6, <1>7, <1>8, OutsideStep

(* The preference, with the check it starts. *)
LEMMA AutomaticNext ==
  ASSUME HuInv, NEW enabled \in BOOLEAN, SetAutomatic(enabled)
  PROVE  HuInv'
<1>1. UNCHANGED <<setup, auth, panel, tail, recovery, gate, journal, saved, cache, ui, ghost>>
  BY DEF SetAutomatic, idleUi
<1> DEFINE h == [Host EXCEPT !.u.automatic = enabled]
           v == [updater EXCEPT !.automatic = enabled]
           g == IF enabled THEN Check(h, "Foreground") ELSE h
<1>2. Host \in Hosts /\ Host.u = updater /\ Host.t = task /\ updater \in Updaters /\ coordinator \in Coordinators
  BY HostFacts DEF HuInv, Types
<1>3. v \in Updaters /\ v.operation = updater.operation /\ v.manual = updater.manual
  BY <1>2 DEF Updaters
<1>4. h = [Host EXCEPT !.u = v]
  BY <1>2 DEF Hosts, Updaters
<1>5. Becomes(g)
  BY DEF SetAutomatic
<1> HIDE DEF v, h
<1>6. h.u = v /\ h.t = task /\ h \in Hosts
  BY <1>2, <1>3, <1>4 DEF Hosts
<1>7. Starts(Host, h)
  BY <1>2, <1>3, <1>6 DEF Starts
<1>8. Starts(h, Check(h, "Foreground")) /\ Check(h, "Foreground").u.manual = updater.manual
  <2>1. h.u.manual \in BOOLEAN
    BY <1>6 DEF Hosts, Updaters
  <2>2. /\ Starts(h, Check(h, "Foreground"))
        /\ Check(h, "Foreground").u.manual = (h.u.manual \/ "Foreground" = "Manual")
    BY <1>6, CheckStarts
  <2> QED  BY <1>3, <1>6, <2>1, <2>2
<1>9. Starts(Host, g) /\ g.u.manual = updater.manual
  BY <1>3, <1>6, <1>7, <1>8, StartsTwice
<1> HIDE DEF g
<1>10. updater' \in Updaters /\ task' \in Tasks /\ TaskKept /\ updater'.manual = updater.manual
  BY <1>5, <1>9, BecomesFacts
<1>11. /\ coordinator' \in Coordinators /\ Retains(coordinator, coordinator')
       /\ coordinator'.deferred = coordinator.deferred /\ coordinator'.presented = coordinator.presented
  <2>1. /\ Observed \in Coordinators /\ Retains(coordinator, Observed)
        /\ Observed.deferred = coordinator.deferred /\ Observed.presented = coordinator.presented
    BY <1>2, ObservedFacts
  <2>2. coordinator' = [Observed EXCEPT !.automatic = enabled]
    BY DEF SetAutomatic
  <2> QED  BY <2>1, <2>2 DEF Coordinators, Retains
<1>12. Types'
  BY <1>1, <1>10, <1>11 DEF HuInv, Types
<1>13. Answered'
  BY <1>1, <1>10, <1>11 DEF HuInv, Answered, Android
<1> QED  BY <1>1, <1>10, <1>11, <1>12, <1>13, OutsideStep

(* The timer starts a check and nothing else. *)
LEMMA TimerNext ==
  ASSUME HuInv, TimerTick
  PROVE  HuInv'
<1>1. UNCHANGED <<setup, auth, panel, tail, recovery, gate, journal, saved, cache, ui, ghost, coordinator>>
  BY DEF TimerTick, idleUi
<1>2. Host \in Hosts /\ Host.u = updater
  BY HostFacts DEF HuInv, Types
<1>3. Starts(Host, Check(Host, "Timer")) /\ Check(Host, "Timer").u.manual = updater.manual
  <2>1. updater.manual \in BOOLEAN
    BY DEF HuInv, Types, Updaters
  <2>2. /\ Starts(Host, Check(Host, "Timer"))
        /\ Check(Host, "Timer").u.manual = (Host.u.manual \/ "Timer" = "Manual")
    BY <1>2, CheckStarts
  <2> QED  BY <1>2, <2>1, <2>2
<1>4. updater' \in Updaters /\ task' \in Tasks /\ TaskKept /\ updater'.manual = updater.manual
  <2>1. Becomes(Check(Host, "Timer"))
    BY DEF TimerTick
  <2> QED  BY <1>3, <2>1, BecomesFacts
<1>5. Types'
  BY <1>1, <1>4 DEF HuInv, Types
<1>6. Answered'
  BY <1>1, <1>4 DEF HuInv, Answered, Android
<1>7. Retains(coordinator, coordinator')
  BY <1>1 DEF Retains
<1> QED  BY <1>1, <1>4, <1>5, <1>6, <1>7, OutsideStep

(* A Yes is for the offer on display, and never reaches an installation    *)
(* that is already under way.                                              *)
LEMMA ConfirmNext ==
  ASSUME HuInv, Confirm
  PROVE  HuInv'
<1>1. UNCHANGED <<setup, auth, panel, tail, recovery, gate, journal, cache, ui>>
  BY DEF Confirm, idleUi
<1>2. Host \in Hosts /\ Host.u = updater /\ coordinator \in Coordinators
  BY HostFacts DEF HuInv, Types
<1>3. /\ Observed \in Coordinators /\ Retains(coordinator, Observed) /\ Terminal(Observed) = Terminal(coordinator)
      /\ Observed.presented = coordinator.presented
      /\ Observed.offer # None /\ ~Terminal(Observed)
  BY <1>2, ObservedFacts DEF Confirm
<1>4. /\ coordinator' \in Coordinators /\ coordinator'.offer = Observed.offer
      /\ coordinator'.prepared = Observed.prepared /\ coordinator'.deferred = None
  BY <1>3 DEF Confirm, Coordinators
<1>5. updater' \in Updaters /\ task' \in Tasks /\ TaskKept /\ updater'.manual = updater.manual
  <2>1. Becomes(StartDrive(Host, coordinator'))
    BY DEF Confirm
  <2>2. Starts(Host, StartDrive(Host, coordinator')) /\ StartDrive(Host, coordinator').u.manual = Host.u.manual
    BY <1>2, DriveStarts
  <2>3. StartDrive(Host, coordinator').u.manual = updater.manual
    BY <1>2, <2>2
  <2> QED  BY <2>1, <2>2, <2>3, BecomesFacts
<1>6. /\ ghost' = [yes |-> Observed.offer.id, later |-> FALSE, paused |-> None]
      /\ saved' = IF Android THEN None ELSE saved
  BY DEF Confirm
<1>7. Observed.offer \in BoundOffers /\ saved' \in Versions \cup {None}
  BY <1>3, <1>6 DEF Coordinators, HuInv, Types
<1>8. ghost' \in [yes : Nat, later : BOOLEAN, paused : Versions \cup {None}]
      /\ ghost'.yes = coordinator'.offer.id /\ ~ghost'.later /\ ghost'.paused = None
  BY <1>4, <1>6, <1>7 DEF BoundOffers
<1>9. Types'
  BY <1>1, <1>4, <1>5, <1>7, <1>8 DEF HuInv, Types
<1>10. Answered'
  BY <1>1, <1>4, <1>6, <1>8 DEF HuInv, Answered, Android
<1>11. Bound'
  BY <1>3, <1>4, <1>8 DEF HuInv, Bound, Retains
<1>12. task.pc \notin InstallPcs
  BY <1>3 DEF HuInv, Driven, Terminal
<1>13. CASE task' = task /\ updater'.operation = updater.operation
  <2>1. Gated' /\ OneOperation'
    BY <1>1, <1>13 DEF HuInv, Gated, OneOperation
  <2>2. Driven'
    BY <1>3, <1>4, <1>12, <1>13 DEF HuInv, Driven, Retains
  <2>3. Handed'
    BY <1>12, <1>13 DEF Handed, InstallPcs
  <2> QED  BY <1>9, <1>10, <1>11, <2>1, <2>2, <2>3 DEF HuInv
<1>14. CASE updater.operation = "Idle" /\ updater'.operation # "Idle" /\ task'.pc \in FreshPcs
  <2>1. Gated' /\ OneOperation' /\ Driven' /\ Handed'
    BY <1>1, <1>14 DEF HuInv, Gated, OneOperation, Driven, Handed, FreshPcs, GatePcs, CheckedPcs, StoppedPcs,
         DrivePcs, PackedPcs, InstallPcs
  <2> QED  BY <1>9, <1>10, <1>11, <2>1 DEF HuInv
<1> QED  BY <1>5, <1>13, <1>14 DEF TaskKept

(* Later supersedes a manual check that is on its way. *)
LEMMA DeferNext ==
  ASSUME HuInv, Defer
  PROVE  HuInv'
<1>1. UNCHANGED <<setup, auth, panel, task, tail, recovery, gate, journal, cache, ui>>
  BY DEF Defer, idleUi
<1>2. /\ coordinator \in Coordinators /\ updater \in Updaters
      /\ setup \in [android : BOOLEAN, version : [Packages -> Versions]]
      /\ ghost \in [yes : Nat, later : BOOLEAN, paused : Versions \cup {None}]
  BY DEF HuInv, Types
<1>3. Observed \in Coordinators /\ Retains(coordinator, Observed)
  BY <1>2, ObservedFacts
<1> DEFINE version == OfferVersion(Observed)
<1>4. version \in Versions /\ version # None
  BY <1>2, <1>3, VersionFacts, UpdaterAssumption DEF Defer
<1>5. coordinator' = [Observed EXCEPT !.consent = FALSE, !.deferred = version, !.presented = @ \cup {version}]
  BY DEF Defer
<1> HIDE DEF version
<1>6. /\ coordinator' \in Coordinators /\ coordinator'.offer = Observed.offer /\ ~coordinator'.consent
      /\ coordinator'.prepared = Observed.prepared /\ coordinator'.phase = Observed.phase
      /\ coordinator'.deferred = version
  BY <1>3, <1>4, <1>5 DEF Coordinators
<1>7. updater' \in Updaters /\ updater'.operation = updater.operation /\ ~updater'.manual
  BY <1>2 DEF Defer, Updaters
<1>8. saved' = IF Android THEN coordinator'.deferred ELSE saved
  BY DEF Defer
<1>9. saved' \in Versions \cup {None}
  BY <1>4, <1>6, <1>8 DEF HuInv, Types
<1>10. /\ ghost' \in [yes : Nat, later : BOOLEAN, paused : Versions \cup {None}]
       /\ ghost'.yes = ghost.yes /\ ghost'.paused = None
  BY <1>2 DEF Defer
<1>11. Types'
  BY <1>1, <1>6, <1>7, <1>9, <1>10 DEF HuInv, Types
<1>12. Answered'
  BY <1>1, <1>4, <1>6, <1>7, <1>8, <1>10 DEF HuInv, Answered, Android
<1>13. TaskKept
  BY <1>1, <1>7 DEF TaskKept
<1>14. Retains(coordinator, coordinator')
  BY <1>3, <1>6 DEF Retains
<1> QED  BY <1>1, <1>10, <1>11, <1>12, <1>13, <1>14, OutsideStep

(* The Yes a pause takes back is noted. *)
LEMMA PausedFacts ==
  ASSUME HuInv
  PROVE  LET d == SetUiLifecycle(coordinator, FALSE, FALSE)
             g == Paused(coordinator)
         IN  /\ g \in [yes : Nat, later : BOOLEAN, paused : Versions \cup {None}]
             /\ g.yes = ghost.yes /\ g.later = ghost.later
             /\ g.paused # None => g.paused \notin d.presented
             /\ d \in Coordinators /\ Retains(coordinator, d) /\ d.deferred = coordinator.deferred
<1> DEFINE d == SetUiLifecycle(coordinator, FALSE, FALSE)
           f == FALSE
           early == Android /\ coordinator.consent /\ ~Terminal(coordinator) /\ coordinator.offer # None
<1>1. /\ coordinator \in Coordinators /\ setup \in [android : BOOLEAN, version : [Packages -> Versions]]
      /\ ghost \in [yes : Nat, later : BOOLEAN, paused : Versions \cup {None}] /\ Android \in BOOLEAN
  BY VersionFacts DEF HuInv, Types
<1>2. f \in BOOLEAN /\ d = SetUiLifecycle(coordinator, f, f) /\ ~f
  OBVIOUS
<1> HIDE DEF f, d
<1>3. /\ d \in Coordinators /\ Retains(coordinator, d) /\ d.presented \subseteq coordinator.presented
      /\ d.deferred = coordinator.deferred
      /\ early => OfferVersion(coordinator) \notin d.presented
  BY <1>1, <1>2, LifecycleFacts
<1>4. CASE early
  <2>1. Paused(coordinator) = [ghost EXCEPT !.paused = OfferVersion(coordinator)]
    BY <1>4 DEF Paused
  <2>2. OfferVersion(coordinator) \in Versions
    BY <1>1, <1>4, VersionFacts
  <2> QED  BY <1>1, <1>3, <1>4, <2>1, <2>2 DEF d
<1>5. CASE ~early
  <2>1. Paused(coordinator) = ghost
    BY <1>5 DEF Paused
  <2> QED  BY <1>1, <1>3, <2>1 DEF d, HuInv, Answered
<1> QED  BY <1>4, <1>5

(* A pause, a lost connection and a new one. *)
LEMMA PausesNext ==
  ASSUME HuInv, UiPaused \/ UiLost \/ UiDisconnected \/ AttachUi
  PROVE  HuInv'
<1>1. UNCHANGED <<setup, auth, panel, updater, task, tail, recovery, gate, journal, saved, cache>>
  BY DEF UiPaused, UiLost, UiDisconnected, AttachUi, idleUi
<1>2. ui' \in BOOLEAN
  BY DEF UiPaused, UiLost, UiDisconnected, AttachUi, HuInv, Types
<1>3. TaskKept
  BY <1>1 DEF TaskKept
<1>4. CASE coordinator' = coordinator /\ ghost' = ghost
  <2>1. Types' /\ Answered'
    BY <1>1, <1>2, <1>4 DEF HuInv, Types, Answered, Android
  <2>2. Retains(coordinator, coordinator')
    BY <1>4 DEF Retains
  <2> QED  BY <1>1, <1>3, <1>4, <2>1, <2>2, OutsideStep
<1>5. CASE coordinator' = SetUiLifecycle(coordinator, FALSE, FALSE) /\ ghost' = Paused(coordinator)
  <2>1. /\ ghost' \in [yes : Nat, later : BOOLEAN, paused : Versions \cup {None}]
        /\ ghost'.yes = ghost.yes /\ ghost'.later = ghost.later
        /\ ghost'.paused # None => ghost'.paused \notin coordinator'.presented
        /\ coordinator' \in Coordinators /\ Retains(coordinator, coordinator')
        /\ coordinator'.deferred = coordinator.deferred
    BY <1>5, PausedFacts
  <2>2. Types'
    BY <1>1, <1>2, <2>1 DEF HuInv, Types
  <2>3. Answered'
    BY <1>1, <2>1 DEF HuInv, Answered, Android
  <2> QED  BY <1>1, <1>3, <2>1, <2>2, <2>3, OutsideStep
<1> QED  BY <1>4, <1>5 DEF UiPaused, UiLost, UiDisconnected, AttachUi

(* The UI returns to the foreground; a new launch asks again. *)
LEMMA ResumedNext ==
  ASSUME HuInv, NEW new_launch \in BOOLEAN, UiResumed(new_launch)
  PROVE  HuInv'
<1>1. UNCHANGED <<setup, auth, panel, tail, recovery, gate, journal, cache, ui>>
  BY DEF UiResumed, idleUi
<1>2. /\ Host \in Hosts /\ Host.u = updater /\ Host.t = task /\ updater \in Updaters /\ coordinator \in Coordinators
      /\ ghost \in [yes : Nat, later : BOOLEAN, paused : Versions \cup {None}] /\ Android \in BOOLEAN
      /\ saved \in Versions \cup {None}
  BY HostFacts, VersionFacts DEF HuInv, Types
<1> DEFINE b == updater.checked /\ ~new_launch
           h == [Host EXCEPT !.u.checked = b]
           v == [updater EXCEPT !.checked = b]
<1>3. b \in BOOLEAN
  BY <1>2 DEF Updaters
<1>4. Becomes(StartCancelRecovery(h))
  BY <1>2 DEF UiResumed, Hosts
<1> HIDE DEF b
<1>5. v \in Updaters /\ v.operation = updater.operation /\ v.manual = updater.manual
  BY <1>2, <1>3 DEF Updaters
<1>6. h = [Host EXCEPT !.u = v]
  BY <1>2 DEF Hosts, Updaters
<1> HIDE DEF v, h
<1>7. h.u = v /\ h.t = task /\ h \in Hosts
  BY <1>2, <1>5, <1>6 DEF Hosts
<1>8. Starts(Host, h)
  BY <1>2, <1>5, <1>7 DEF Starts
<1>9. Starts(Host, StartCancelRecovery(h)) /\ StartCancelRecovery(h).u.manual = updater.manual
  BY <1>5, <1>7, <1>8, RecoveryStarts, StartsTwice
<1>10. updater' \in Updaters /\ task' \in Tasks /\ TaskKept /\ updater'.manual = updater.manual
  BY <1>4, <1>9, BecomesFacts
<1>11. new_launch => Android
  BY DEF UiResumed
<1>12. /\ coordinator' \in Coordinators /\ Retains(coordinator, coordinator')
       /\ coordinator'.presented \subseteq coordinator.presented
       /\ ~new_launch => coordinator'.deferred = coordinator.deferred
  <2>1. CASE Android
    <3> DEFINE f == TRUE
    <3>1. f \in BOOLEAN /\ coordinator' = SetUiLifecycle(coordinator, f, new_launch)
      BY <2>1 DEF UiResumed
    <3> HIDE DEF f
    <3> QED  BY <1>2, <3>1, LifecycleFacts
  <2>2. CASE ~Android
    BY <1>2, <2>2 DEF UiResumed, Retains
  <2> QED  BY <2>1, <2>2
<1>13. saved' = (IF new_launch THEN coordinator'.deferred ELSE saved)
       /\ ghost' = (IF new_launch THEN [ghost EXCEPT !.later = FALSE, !.paused = None] ELSE ghost)
  BY DEF UiResumed
<1>14. saved' \in Versions \cup {None}
  BY <1>2, <1>12, <1>13 DEF Coordinators
<1>15. /\ ghost' \in [yes : Nat, later : BOOLEAN, paused : Versions \cup {None}]
       /\ ghost'.yes = ghost.yes
       /\ new_launch => ~ghost'.later /\ ghost'.paused = None
       /\ ~new_launch => ghost' = ghost
  BY <1>2, <1>13
<1>16. Types'
  BY <1>1, <1>10, <1>12, <1>14, <1>15 DEF HuInv, Types
<1>17. Answered'
  BY <1>1, <1>10, <1>11, <1>12, <1>13, <1>15 DEF HuInv, Answered, Android
<1> QED  BY <1>1, <1>10, <1>12, <1>15, <1>16, <1>17, OutsideStep

(* The session and the panel. *)
LEMMA SessionNext ==
  ASSUME HuInv, RefreshToken \/ Logout \/ AuthRevoked \/ Login \/ PanelChanges
  PROVE  HuInv'
<1>1. UNCHANGED <<setup, task, tail, recovery, gate, journal, cache, ui, ghost, saved>>
  BY DEF RefreshToken, Logout, AuthRevoked, Login, PanelChanges, idleEnv
<1>2. /\ auth \in [epoch : Nat, token : Nat, active : BOOLEAN, revoking : BOOLEAN]
      /\ coordinator \in Coordinators /\ updater \in Updaters /\ panel \in Packages \cup {None}
  BY DEF HuInv, Types
<1>3. auth' \in [epoch : Nat, token : Nat, active : BOOLEAN, revoking : BOOLEAN]
  <2> DEFINE e == auth.epoch + 1
             k == auth.token + 1
  <2>1. e \in Nat /\ k \in Nat
    BY <1>2
  <2>2. \/ auth' \in {auth, [auth EXCEPT !.token = k], [auth EXCEPT !.active = FALSE, !.revoking = TRUE]}
        \/ auth' \in {[auth EXCEPT !.revoking = FALSE], [auth EXCEPT !.active = TRUE, !.epoch = e, !.token = k]}
    BY <1>2 DEF RefreshToken, Logout, AuthRevoked, Login, PanelChanges
  <2> HIDE DEF e, k
  <2> QED  BY <1>2, <2>1, <2>2
<1>4. /\ coordinator' \in Coordinators /\ Retains(coordinator, coordinator')
      /\ coordinator'.deferred = coordinator.deferred /\ coordinator'.presented = coordinator.presented
  <2>1. CASE coordinator' = coordinator
    BY <1>2, <2>1 DEF Retains
  <2>2. CASE coordinator' = Invalidate(coordinator)
    BY <1>2, <2>2, InvalidateFacts
  <2> QED  BY <2>1, <2>2 DEF RefreshToken, Logout, AuthRevoked, Login, PanelChanges
<1>5. updater' \in Updaters /\ updater'.operation = updater.operation /\ updater'.manual = updater.manual
  BY <1>2 DEF RefreshToken, Logout, AuthRevoked, Login, PanelChanges, Updaters
<1>6. panel' \in Packages \cup {None}
  BY <1>2 DEF RefreshToken, Logout, AuthRevoked, Login, PanelChanges
<1>7. Types'
  BY <1>1, <1>3, <1>4, <1>5, <1>6 DEF HuInv, Types
<1>8. Answered'
  BY <1>1, <1>4, <1>5 DEF HuInv, Answered, Android
<1>9. TaskKept
  BY <1>1, <1>5 DEF TaskKept
<1> QED  BY <1>1, <1>4, <1>7, <1>8, <1>9, OutsideStep

(* A new process knows of a Later only what the prompt session's file says. *)
LEMMA RestartNext ==
  ASSUME HuInv, Restart
  PROVE  HuInv'
<1>1. UNCHANGED <<setup, panel, journal, saved, cache>>
      /\ tail' = {} /\ recovery' = "idle" /\ gate' = None /\ ui' = TRUE
  BY DEF Restart
<1>2. /\ coordinator \in Coordinators /\ updater \in Updaters /\ saved \in Versions \cup {None}
      /\ ghost \in [yes : Nat, later : BOOLEAN, paused : Versions \cup {None}]
      /\ auth \in [epoch : Nat, token : Nat, active : BOOLEAN, revoking : BOOLEAN]
      /\ Android \in BOOLEAN
  BY VersionFacts DEF HuInv, Types
<1>3. task' \in Tasks /\ task'.pc = "none"
  BY DEF Restart, NoTask, Tasks, Pcs
<1>4. updater' \in Updaters /\ ~updater'.manual
  BY <1>2 DEF Restart, Updaters, Operations
<1>5. /\ coordinator' \in Coordinators /\ ~coordinator'.consent /\ coordinator'.offer = None
      /\ coordinator'.prepared = None /\ coordinator'.deferred = saved /\ coordinator'.presented = {}
  <2>1. coordinator.ids \in Nat
    BY <1>2 DEF Coordinators
  <2> QED  BY <1>2, <2>1 DEF Restart, NewCoordinator, Coordinators, Phases
<1>6. auth' \in [epoch : Nat, token : Nat, active : BOOLEAN, revoking : BOOLEAN]
  BY <1>2 DEF Restart
<1>7. /\ ghost' \in [yes : Nat, later : BOOLEAN, paused : Versions \cup {None}]
      /\ ghost'.paused = None /\ (ghost'.later => ghost.later /\ Android)
  BY <1>2 DEF Restart
<1>8. Types'
  BY <1>1, <1>3, <1>4, <1>5, <1>6, <1>7 DEF HuInv, Types
<1>9. Answered'
  BY <1>1, <1>4, <1>5, <1>7 DEF HuInv, Answered, Android
<1>10. Bound' /\ OneOperation'
  BY <1>3, <1>5 DEF Bound, OneOperation
<1>11. Gated' /\ Driven' /\ Handed'
  BY <1>1, <1>3 DEF Gated, Driven, Handed, GatePcs, StoppedPcs, CheckedPcs, DrivePcs, PackedPcs, InstallPcs
<1> QED  BY <1>8, <1>9, <1>10, <1>11 DEF HuInv

-----------------------------------------------------------------------------
(* The invariant holds at the start. *)
LEMMA HuInvInit ==
  ASSUME Init
  PROVE  HuInv
<1>1. PICK s \in UpdaterScenarios : setup = [android |-> s.android, version |-> s.version]
        /\ updater = [operation |-> "Idle", manual |-> FALSE, startup |-> FALSE, checked |-> FALSE,
                      automatic |-> s.automatic]
  BY DEF Init
<1>2. setup \in [android : BOOLEAN, version : [Packages -> Versions]] /\ updater \in Updaters /\ ~updater.manual
  BY <1>1, UpdaterAssumption DEF Updaters, Operations
<1>3. /\ auth = [epoch |-> 1, token |-> 1, active |-> TRUE, revoking |-> FALSE]
      /\ panel \in Packages /\ coordinator = NewCoordinator(None) /\ task = NoTask /\ tail = {}
      /\ recovery = "idle" /\ gate = None /\ journal = None /\ saved = None
      /\ cache = [v \in Versions |-> None] /\ ui = TRUE
      /\ ghost = [yes |-> 0, later |-> FALSE, paused |-> None]
  BY DEF Init
<1>4. coordinator \in Coordinators /\ coordinator.deferred = None /\ ~coordinator.consent /\ coordinator.offer = None
  BY <1>3 DEF NewCoordinator, Coordinators, Phases
<1>5. task \in Tasks /\ task.pc = "none"
  BY <1>3 DEF NoTask, Tasks, Pcs
<1>6. Types
  BY <1>2, <1>3, <1>4, <1>5 DEF Types
<1>7. Gated /\ OneOperation /\ Bound /\ Driven /\ Handed
  BY <1>3, <1>4, <1>5 DEF Gated, OneOperation, Bound, Driven, Handed, GatePcs, StoppedPcs, CheckedPcs, DrivePcs,
       PackedPcs, InstallPcs
<1>8. Answered
  BY <1>3, <1>4 DEF Answered
<1> QED  BY <1>6, <1>7, <1>8 DEF HuInv

(* Every step keeps it. *)
LEMMA HuInvNext ==
  ASSUME HuInv, [Next]_vars
  PROVE  HuInv'
<1>1. CASE UNCHANGED vars
  <2>1. Types'
    BY <1>1 DEF vars, HuInv, Types
  <2>2. Gated'
    BY <1>1 DEF vars, HuInv, Gated
  <2>3. OneOperation'
    BY <1>1 DEF vars, HuInv, OneOperation
  <2>4. Bound'
    BY <1>1 DEF vars, HuInv, Bound, Revalidates, Version
  <2>5. Driven'
    BY <1>1 DEF vars, HuInv, Driven
  <2>6. Handed'
    BY <1>1 DEF vars, HuInv, Handed, Stopped, Revalidates, Version
  <2>7. Answered'
    BY <1>1 DEF vars, HuInv, Answered, Android
  <2> QED
    BY <2>1, <2>2, <2>3, <2>4, <2>5, <2>6, <2>7 DEF HuInv
<1>2. CASE TaskStep
  BY <1>2, CheckingNext, PublishNext, SettleNext, CheckFailedNext, DriveTokenNext, DriveBeginNext, DriveCachedNext,
     DriveDownloadNext, DownloadingNext, DriveAdmitNext, DriveStoreNext, DriveReadyNext, DriveFreshNext,
     DriveGateNext, DriveDecideNext, InstallStopNext, InstallStoppingNext, InstallCheckNext, InstallingNext,
     InstallOpenedNext, InstallCancelNext, InstallCancellingNext, InstallFinishNext, RecoverGateNext,
     RecoverCancelNext, RecoverDoneNext, RecoverFailedNext, ResetNext DEF TaskStep
<1>3. CASE UiStep
  BY <1>3, StatusNext, ConfirmNext, DeferNext, PausesNext, RequestCheckNext, AutomaticNext, ResumedNext DEF UiStep
<1>4. CASE \E operation \in Operations : TaskTail(operation)
  BY <1>4, TailNext
<1>5. CASE BeginRecover \/ EndRecover \/ TimerTick \/ Restart
  BY <1>5, HostRecoverNext, TimerNext, RestartNext
<1>6. CASE RefreshToken \/ Logout \/ AuthRevoked \/ Login \/ PanelChanges
  BY <1>6, SessionNext
<1> QED  BY <1>1, <1>2, <1>3, <1>4, <1>5, <1>6 DEF Next

(* The inductive invariant of application updates holds: at most one       *)
(* operation runs, the gate protects the journal, and what is prepared and *)
(* the Yes belong to the offer (HostUpdater, UpdateCoordinator).           *)
THEOREM UpdaterInvariant == UpdaterSpec => []HuInv
<1>1. Init => HuInv
  BY HuInvInit
<1>2. HuInv /\ [Next]_vars => HuInv'
  BY HuInvNext
<1> QED  BY <1>1, <1>2, PTL DEF UpdaterSpec

(* Whatever replaces the package, the session or the UI in between, the    *)
(* native installer gets the package of the offer the last Yes named, with *)
(* that package's bytes, while the runtime is stopped for its version      *)
(* (drive_offer, UpdateBarrier, HostUpdater::recover).                     *)
THEOREM HandoffStaysConfirmed == UpdaterSpec => []HandoffIsConfirmed
<1>1. HuInv => HandoffIsConfirmed
  <2> SUFFICES ASSUME HuInv PROVE HandoffIsConfirmed
    OBVIOUS
  <2>1. UpdaterTypeOK
    BY DEF HuInv, Types, UpdaterTypeOK, Updaters, Coordinators, Tasks
  <2>2. ASSUME task.pc = "installing"
        PROVE  /\ task.offer.id = ghost.yes /\ task.package = task.offer.package
               /\ Revalidates(task.package) /\ gate = "task" /\ journal # None
               /\ journal.phase \in {"LocalStopped", "InstallerOpened"}
               /\ journal.version = Version(task.package)
    <3>1. task.pc \in GatePcs /\ task.pc \in StoppedPcs /\ task.pc \in PackedPcs
      BY <2>2 DEF GatePcs, StoppedPcs, PackedPcs, InstallPcs
    <3> QED  BY <2>2, <3>1 DEF HuInv, Gated, Driven, Handed, Stopped
  <2> QED  BY <2>1, <2>2 DEF HandoffIsConfirmed, At
<1> QED  BY <1>1, UpdaterInvariant, PTL

(* A Later is not overtaken by a check that was on its way, in this        *)
(* process or the next, and a Yes that a pause cancels is asked for again  *)
(* (check, defer, set_ui_lifecycle, drive_offer).                          *)
THEOREM AnswersStayKept == UpdaterSpec => []AnswersAreKept
<1>1. HuInv => AnswersAreKept
  BY DEF HuInv, Answered, AnswersAreKept
<1> QED  BY <1>1, UpdaterInvariant, PTL
=============================================================================
