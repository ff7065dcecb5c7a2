----------------------------- MODULE HostUpdater -----------------------------
(***************************************************************************)
(* Application updates in the container host: the single operation the     *)
(* host updater runs at a time (host_updater.rs), the package-bound        *)
(* consent of the coordinator (client-updater/coordinator.rs), the APK     *)
(* cache (client-updater/android.rs), and the journal of the update        *)
(* barrier (update.rs) as its callers see it.                              *)
(*                                                                         *)
(* `task` is the spawned task of the operation; each of its steps ends at  *)
(* an await or where it gives up a lock.  When it resets the operation to  *)
(* Idle its last instructions are still to come (`tail`), and another      *)
(* operation may begin before them.  `recovery` is the recover call of     *)
(* RuntimeReady and BeforeTunnelStart.  `gate` is the installation gate.   *)
(* How a stop is made and undone is RuntimeSwitch; here it succeeds or is  *)
(* left pending.  `left` bounds the events of the environment.             *)
(***************************************************************************)
EXTENDS Naturals, FiniteSets

CONSTANTS Packages,            \* resolved packages
          Versions,            \* the versions they carry
          UpdaterScenarios,    \* platform, versions and budgets of a behaviour
          None

VARIABLES setup,        \* the platform and the version of each package
          auth,         \* the broker's protected record: epoch, token, signed in
          panel,        \* the package the panel offers, or None
          updater,      \* HostUpdater: operation, pending requests, preference
          coordinator,  \* UpdateCoordinator's State
          task,         \* the operation's task
          tail,         \* tasks that have reset the operation and not yet ended
          recovery,     \* the recover call of the host: "idle" or "cancel"
          gate,         \* the holder of the installation gate
          journal,      \* the update journal
          saved,        \* the deferred version in the prompt session's file
          cache,        \* the package file of each version
          ui,           \* the UI's connection is alive
          ghost,        \* what the user last said, for the properties
          left          \* events still to come

vars == <<setup, auth, panel, updater, coordinator, task, tail, recovery, gate,
          journal, saved, cache, ui, ghost, left>>

Operations == {"Idle", "Refreshing", "Driving", "Recovering"}
Phases == {"Idle", "Available", "Downloading", "ReadyToInstall", "Installing", "ReadyToRestart",
           "AwaitingInstallation", "Failed"}
Accesses == [epoch : Nat, token : Nat]
BoundOffers == [id : Nat, package : Packages, epoch : Nat]
Journals == [phase : {"Requested", "LocalStopped", "InstallerOpened", "CancelRequested"}, version : Versions]

ASSUME UpdaterAssumption ==
  /\ None \notin Packages /\ None \notin Versions /\ None \notin {"task", "host"}
  /\ None \notin BoundOffers /\ None \notin Accesses /\ None \notin Journals
  /\ \A s \in UpdaterScenarios :
       s.android \in BOOLEAN /\ s.automatic \in BOOLEAN /\ s.version \in [Packages -> Versions]

Android == setup.android
Version(p) == setup.version[p]
Access == [epoch |-> auth.epoch, token |-> auth.token]

NoTask == [pc |-> "none", access |-> None, offer |-> None, package |-> None, ok |-> TRUE]
At(pc) == task.pc = pc
Go(pc) == task' = [task EXCEPT !.pc = pc]

NewCoordinator(deferred) ==
  [phase |-> "Idle", offer |-> None, prepared |-> None, consent |-> FALSE, automatic |-> FALSE,
   deferred |-> deferred, presented |-> {}, foreground |-> FALSE, ids |-> 0]

Init ==
  \E s \in UpdaterScenarios :
    /\ setup = [android |-> s.android, version |-> s.version]
    /\ left = s.left
    /\ auth = [epoch |-> 1, token |-> 1, active |-> TRUE, revoking |-> FALSE]
    /\ panel \in Packages
    /\ updater = [operation |-> "Idle", manual |-> FALSE, startup |-> FALSE, checked |-> FALSE,
                  automatic |-> s.automatic]
    /\ coordinator = NewCoordinator(None)
    /\ task = NoTask /\ tail = {} /\ recovery = "idle" /\ gate = None
    /\ journal = None /\ saved = None /\ cache = [v \in Versions |-> None]
    /\ ui = TRUE
    /\ ghost = [yes |-> 0, later |-> FALSE, paused |-> None]

Spend(event) == left[event] > 0 /\ left' = [left EXCEPT ![event] = @ - 1]

-----------------------------------------------------------------------------
(* The coordinator's operations on its state.                              *)

Terminal(c) == c.phase \in {"Installing", "ReadyToRestart", "AwaitingInstallation"}

OfferVersion(c) == Version(c.offer.package)

Invalidate(c) ==
  IF Terminal(c) THEN [c EXCEPT !.consent = FALSE]
  ELSE [c EXCEPT !.consent = FALSE, !.offer = None, !.prepared = None, !.phase = "Idle"]

RetainScope(c) ==
  IF c.offer # None /\ c.offer.epoch # auth.epoch THEN Invalidate(c) ELSE c

(* observe_resolved: the same package in the same scope keeps its id. *)
ObserveResolved(c, package, access) ==
  IF Terminal(c) THEN c
  ELSE IF package # None /\ c.offer # None /\ c.offer.package = package /\ c.offer.epoch = access.epoch
       THEN c
  ELSE IF package = None
       THEN [c EXCEPT !.consent = FALSE, !.prepared = None, !.offer = None, !.phase = "Idle"]
  ELSE [c EXCEPT !.consent = FALSE, !.prepared = None, !.ids = @ + 1, !.phase = "Available",
                 !.offer = [id |-> c.ids + 1, package |-> package, epoch |-> access.epoch]]

(* An early Yes that a pause cancels is asked for again. *)
SetUiLifecycle(c, foreground, new_launch) ==
  LET paused == Android /\ ~foreground
      early == paused /\ c.consent /\ ~Terminal(c) /\ c.offer # None
  IN  [c EXCEPT !.foreground = foreground,
                !.consent = @ /\ ~paused,
                !.deferred = IF Android /\ new_launch THEN None ELSE @,
                !.presented = IF Android /\ new_launch THEN {}
                              ELSE IF early THEN @ \ {OfferVersion(c)} ELSE @]

RequestManualPrompt(c) ==
  IF c.offer = None THEN c
  ELSE [c EXCEPT !.presented = @ \ {OfferVersion(c)}, !.deferred = None]

UiForeground(c) == c.foreground /\ ui

Current(offer) == coordinator.offer # None /\ coordinator.offer.id = offer.id

Wanted(offer) == Current(offer) /\ (coordinator.automatic \/ coordinator.consent)

(* authority: the offer's scope, the broker's exact access, and the offer again. *)
ValidateAuthority(access) == auth.active /\ access = Access
Authority == task.offer.epoch = task.access.epoch /\ Current(task.offer) /\ ValidateAuthority(task.access)

(* revalidate: the file still has the bytes of the package. *)
Revalidates(package) == cache[Version(package)] = package

(* fail: only the current offer fails. *)
Failed(c, offer) ==
  IF c.offer # None /\ c.offer.id = offer.id
  THEN [c EXCEPT !.consent = FALSE, !.prepared = None, !.phase = "Failed"] ELSE c

PromptPending ==
  /\ coordinator.offer # None /\ ~Terminal(coordinator) /\ ~coordinator.consent
  /\ OfferVersion(coordinator) \notin coordinator.presented \cup {coordinator.deferred}

-----------------------------------------------------------------------------
(* How operations begin.  h holds the updater's state and the task.        *)

Host == [u |-> updater, t |-> task]
Begin(h, operation, pc) == [u |-> [h.u EXCEPT !.operation = operation], t |-> [NoTask EXCEPT !.pc = pc]]

CancelRequested == journal # None /\ journal.phase = "CancelRequested"

(* start_cancel_recovery: whether it answers true, and what it starts. *)
Recovers(h) == h.u.operation = "Recovering" \/ (h.u.operation = "Idle" /\ CancelRequested)
StartCancelRecovery(h) ==
  IF h.u.operation = "Idle" /\ CancelRequested THEN Begin(h, "Recovering", "recover_gate") ELSE h

StartCheck(h, queue_startup) ==
  IF h.u.operation # "Idle" THEN [h EXCEPT !.u.startup = @ \/ queue_startup]
  ELSE [Begin(h, "Refreshing", "check_token") EXCEPT !.u.startup = FALSE]

(* Mutant: without automatic updates a check ends before the recovery. *)
Check_PreferenceFirst(h, reason) ==
  LET asked == [h EXCEPT !.u.manual = @ \/ reason = "Manual",
                         !.u.startup = @ \/ (reason = "Startup" /\ ~h.u.checked)]
  IN  IF reason \in {"Timer", "Foreground"} /\ ~h.u.automatic THEN asked
      ELSE IF Recovers(asked) THEN StartCancelRecovery(asked)
      ELSE IF reason = "Startup" /\ h.u.checked THEN asked
      ELSE StartCheck(asked, reason = "Startup")

(* check: an accepted cancellation is completed whatever the preference. *)
Check(h, reason) ==
  LET asked == [h EXCEPT !.u.manual = @ \/ reason = "Manual",
                         !.u.startup = @ \/ (reason = "Startup" /\ ~h.u.checked)]
  IN  IF Recovers(asked) THEN StartCancelRecovery(asked)
      ELSE IF \/ reason = "Startup" /\ h.u.checked
              \/ reason \in {"Timer", "Foreground"} /\ ~h.u.automatic
           THEN asked
      ELSE StartCheck(asked, reason = "Startup")

StartDrive(h, c) ==
  IF (h.u.automatic \/ c.consent) /\ c.offer # None /\ h.u.operation = "Idle"
  THEN Begin(h, "Driving", "drive_token") ELSE h

(* resume_pending_check: whether it answers true, and what it starts. *)
PendingCheck(h) == h.u.manual \/ (h.u.startup /\ ~h.u.checked)
ResumePendingCheck(h) ==
  IF h.u.manual THEN StartCheck(h, FALSE)
  ELSE LET swapped == [h EXCEPT !.u.startup = FALSE]
       IN  IF PendingCheck(h) THEN Check(swapped, "Startup") ELSE swapped

Becomes(h) == updater' = h.u /\ task' = h.t

-----------------------------------------------------------------------------
(* The task of a check.                                                    *)

idleCheck == UNCHANGED <<setup, auth, panel, tail, recovery, gate, journal, cache, ui>>

(* refresh: the access, the panel's answer. *)
CheckToken ==
  /\ At("check_token") /\ idleCheck
  /\ \/ auth.active /\ task' = [task EXCEPT !.pc = "check_bootstrap", !.access = Access] /\ UNCHANGED left
     \/ ~auth.active /\ Go("check_failed") /\ UNCHANGED left
     \/ Spend("faults") /\ Go("check_failed")
  /\ UNCHANGED <<updater, coordinator, saved, ghost>>

(* The bootstrap names the version of the package on offer. *)
CheckBootstrap ==
  /\ At("check_bootstrap") /\ idleCheck
  /\ \/ /\ task' = [task EXCEPT !.pc = IF panel = None THEN "check_publish" ELSE "check_resolve",
                                !.package = panel]
        /\ UNCHANGED left
     \/ Spend("faults") /\ Go("check_failed")
  /\ UNCHANGED <<updater, coordinator, saved, ghost>>

(* resolve: no package, the package of the expected version, or an error. *)
Resolves(package) == panel = None \/ Version(panel) = Version(package)

CheckResolve ==
  /\ At("check_resolve") /\ idleCheck
  /\ \/ /\ IF Resolves(task.package) THEN task' = [task EXCEPT !.pc = "check_publish", !.package = panel]
           ELSE Go("check_failed")
        /\ UNCHANGED left
     \/ Spend("faults") /\ Go("check_failed")
  /\ UNCHANGED <<updater, coordinator, saved, ghost>>

(* with_current_access: an answer for another access is not observed. *)
CheckPublish ==
  /\ At("check_publish") /\ idleCheck
  /\ IF ValidateAuthority(task.access)
     THEN /\ coordinator' = ObserveResolved(coordinator, task.package, task.access)
          /\ Go("check_settle")
     ELSE Go("check_failed") /\ UNCHANGED coordinator
  /\ UNCHANGED <<updater, saved, ghost, left>>

(* The end of a check that succeeded: a manual request asks again. *)
CheckSettle ==
  /\ At("check_settle") /\ idleCheck
  /\ updater' = [updater EXCEPT !.checked = TRUE, !.manual = FALSE]
  /\ coordinator' = IF updater.manual THEN RequestManualPrompt(coordinator) ELSE coordinator
  /\ saved' = IF updater.manual /\ Android THEN coordinator'.deferred ELSE saved
  /\ Go("reset") /\ UNCHANGED <<ghost, left>>

CheckFailed ==
  /\ At("check_failed") /\ idleCheck
  /\ updater' = [updater EXCEPT !.manual = FALSE]
  /\ coordinator' = Invalidate(coordinator)
  /\ Go("reset") /\ UNCHANGED <<saved, ghost, left>>

-----------------------------------------------------------------------------
(* The task that drives an offer to its installation.                      *)

idleDrive == UNCHANGED <<setup, auth, panel, updater, tail, recovery, saved, ui>>

DriveToken ==
  /\ At("drive_token") /\ idleDrive
  /\ \/ /\ auth.active
        /\ coordinator' = [coordinator EXCEPT !.automatic = updater.automatic]
        /\ task' = [task EXCEPT !.access = Access, !.offer = coordinator.offer,
                                !.pc = IF Terminal(coordinator) \/ coordinator.offer = None
                                       THEN "reset" ELSE "drive_begin"]
        /\ UNCHANGED left
     \/ ~auth.active /\ coordinator' = Invalidate(coordinator) /\ Go("reset") /\ UNCHANGED left
     \/ Spend("faults") /\ coordinator' = Invalidate(coordinator) /\ Go("reset")
  /\ UNCHANGED <<gate, journal, cache, ghost>>

(* The step that ends a drive with an error. *)
DriveFails == coordinator' = Failed(coordinator, task.offer) /\ Go("reset")

DriveBegin ==
  /\ At("drive_begin") /\ idleDrive
  /\ IF ~Wanted(task.offer) THEN Go("reset") /\ UNCHANGED coordinator
     ELSE IF ~Authority THEN DriveFails
     ELSE /\ task' = [task EXCEPT !.package = coordinator.prepared,
                                  !.pc = IF coordinator.prepared # None THEN "drive_cached"
                                         ELSE "drive_download"]
          /\ UNCHANGED coordinator
  /\ UNCHANGED <<gate, journal, cache, ghost, left>>

(* The package an earlier drive prepared. *)
DriveCached ==
  /\ At("drive_cached") /\ idleDrive
  /\ IF Revalidates(task.package) THEN Go("drive_ready") /\ UNCHANGED coordinator ELSE DriveFails
  /\ UNCHANGED <<gate, journal, cache, ghost, left>>

(* The phase is set without another look at the offer. *)
DriveDownload ==
  /\ At("drive_download") /\ idleDrive
  /\ coordinator' = [coordinator EXCEPT !.phase = "Downloading"]
  /\ Go("downloading")
  /\ UNCHANGED <<gate, journal, cache, ghost, left>>

(* cached_apk: a file with other bytes than the package's is removed. *)
Cached(package) == cache[Version(package)] = package

(* download: the verified bytes replace the version's file in one rename;  *)
(* cleanup_stale_updates then removes the files of other versions.         *)
Pruned(package) == [v \in Versions |-> IF v = Version(package) THEN package ELSE None]

(* UpdateBackend::prepare: a cached file or a download, which may fail.  A *)
(* decision that makes the package unwanted stops the wait.                *)
Downloading ==
  /\ At("downloading") /\ idleDrive
  /\ \/ /\ cache' = Pruned(task.offer.package)
        /\ task' = [task EXCEPT !.pc = "drive_admit", !.package = task.offer.package]
        /\ UNCHANGED <<coordinator, left>>
     \/ /\ ~Cached(task.offer.package) /\ Spend("faults") /\ DriveFails
        /\ cache' = [cache EXCEPT ![Version(task.offer.package)] = None]
     \/ /\ ~Wanted(task.offer)
        /\ coordinator' = IF Current(task.offer) THEN [coordinator EXCEPT !.phase = "Available"] ELSE coordinator
        /\ Go("reset") /\ UNCHANGED <<cache, left>>
  /\ UNCHANGED <<gate, journal, ghost>>

DriveAdmit ==
  /\ At("drive_admit") /\ idleDrive
  /\ IF Authority THEN Go("drive_store") /\ UNCHANGED coordinator ELSE DriveFails
  /\ UNCHANGED <<gate, journal, cache, ghost, left>>

DriveStore ==
  /\ At("drive_store") /\ idleDrive
  /\ IF Revalidates(task.package)
     THEN coordinator' = [coordinator EXCEPT !.prepared = task.package] /\ Go("drive_ready")
     ELSE DriveFails
  /\ UNCHANGED <<gate, journal, cache, ghost, left>>

DriveReady ==
  /\ At("drive_ready") /\ idleDrive
  /\ coordinator' = [coordinator EXCEPT !.phase =
                       IF coordinator.consent \/ @ # "Failed" THEN "ReadyToInstall" ELSE @]
  /\ Go(IF coordinator.consent THEN "drive_fresh" ELSE "reset")
  /\ UNCHANGED <<gate, journal, cache, ghost, left>>

(* The package named by Yes must still be the one the panel offers. *)
DriveFresh ==
  /\ At("drive_fresh") /\ idleDrive
  /\ \/ /\ IF panel = task.offer.package THEN Go("drive_gate") /\ UNCHANGED coordinator ELSE DriveFails
        /\ UNCHANGED left
     \/ Spend("faults") /\ DriveFails
  /\ UNCHANGED <<gate, journal, cache, ghost>>

DriveGate ==
  /\ At("drive_gate") /\ idleDrive /\ gate = None
  /\ IF Authority THEN gate' = "task" /\ Go("drive_decide") /\ UNCHANGED coordinator
     ELSE DriveFails /\ UNCHANGED gate
  /\ UNCHANGED <<journal, cache, ghost, left>>

(* The last look before the runtime is stopped.  The connection may be     *)
(* lost before the pause is heard of: that cancels an early Yes as well.   *)
DriveDecide ==
  /\ At("drive_decide") /\ idleDrive
  /\ LET go == coordinator.consent /\ (Android => UiForeground(coordinator))
         version == Version(task.offer.package)
     IN  IF ~Revalidates(task.package) THEN DriveFails /\ gate' = None /\ UNCHANGED ghost
         ELSE IF go
         THEN /\ coordinator' = [coordinator EXCEPT !.phase = "Installing"]
              /\ Go("install_stop") /\ UNCHANGED <<gate, ghost>>
         ELSE /\ coordinator' = [coordinator EXCEPT !.consent = FALSE,
                                   !.presented = IF coordinator.consent THEN @ \ {version} ELSE @]
              /\ ghost' = [ghost EXCEPT !.paused = IF coordinator.consent THEN version ELSE @]
              /\ gate' = None /\ Go("reset")
  /\ UNCHANGED <<journal, cache, left>>

-----------------------------------------------------------------------------
(* The installation the drive hands over to, under the gate.               *)

Journal(phase) == [phase |-> phase, version |-> Version(task.offer.package)]

(* A resumed session has another generation, so no offer of the old one    *)
(* is in its scope.                                                        *)
Resumed == [auth EXCEPT !.epoch = @ + 1, !.token = @ + 1]

idleInstall == UNCHANGED <<setup, panel, updater, tail, recovery, saved, ui, ghost>>

InstallEnds(ok) == task' = [task EXCEPT !.pc = "install_finish", !.ok = ok]

(* UpdateBarrier::prepare: the journal of another version is pending, one  *)
(* of a stopped runtime is enough, a new one is Requested first.           *)
InstallStop ==
  /\ At("install_stop") /\ idleInstall
  /\ IF journal = None THEN journal' = Journal("Requested") /\ Go("install_stopping")
     ELSE /\ UNCHANGED journal
          /\ IF journal.version # Version(task.offer.package) THEN InstallEnds(FALSE)
             ELSE Go(IF journal.phase \in {"LocalStopped", "InstallerOpened"} THEN "install_check"
                     ELSE "install_stopping")
  /\ UNCHANGED <<auth, coordinator, gate, cache, left>>

(* A stop that failed before the switch began forgets the journal. *)
InstallStopping ==
  /\ At("install_stopping") /\ idleInstall
  /\ \/ journal' = Journal("LocalStopped") /\ Go("install_check") /\ UNCHANGED left
     \/ Spend("faults") /\ InstallEnds(FALSE) /\ journal' \in {journal, None}
  /\ UNCHANGED <<auth, coordinator, gate, cache>>

(* After the stop: the bytes, the session, the offer, the Yes and the UI. *)
InstallCheck ==
  /\ At("install_check") /\ idleInstall
  /\ Go(IF /\ Revalidates(task.package) /\ ValidateAuthority(task.access)
           /\ Current(task.offer) /\ coordinator.consent
           /\ Android => UiForeground(coordinator)
        THEN "installing" ELSE "install_cancel")
  /\ UNCHANGED <<auth, coordinator, gate, journal, cache, left>>

(* install_prepared (external): the native installer ends or is cancelled. *)
Installing ==
  /\ At("installing") /\ idleInstall
  /\ \/ Go("install_opened") /\ cache' = [cache EXCEPT ![Version(task.package)] = None] /\ UNCHANGED left
     \/ Spend("faults") /\ Go("install_cancel") /\ UNCHANGED cache
  /\ UNCHANGED <<auth, coordinator, gate, journal>>

InstallOpened ==
  /\ At("install_opened") /\ idleInstall
  /\ \/ journal' = [journal EXCEPT !.phase = "InstallerOpened"] /\ InstallEnds(TRUE) /\ UNCHANGED left
     \/ Spend("faults") /\ InstallEnds(FALSE) /\ UNCHANGED journal
  /\ UNCHANGED <<auth, coordinator, gate, cache>>

(* installer_failed: the cancellation is journaled, then the stop undone. *)
InstallCancel ==
  /\ At("install_cancel") /\ idleInstall
  /\ journal' = [journal EXCEPT !.phase = "CancelRequested"]
  /\ Go("install_cancelling")
  /\ UNCHANGED <<auth, coordinator, gate, cache, left>>

InstallCancelling ==
  /\ At("install_cancelling") /\ idleInstall
  /\ \/ journal' = None /\ auth' = Resumed /\ UNCHANGED left
     \/ Spend("faults") /\ UNCHANGED <<journal, auth>>
  /\ InstallEnds(FALSE)
  /\ UNCHANGED <<coordinator, gate, cache>>

InstallFinish ==
  /\ At("install_finish") /\ idleInstall
  /\ coordinator' = [coordinator EXCEPT
       !.consent = FALSE,
       !.prepared = IF task.ok THEN @ ELSE None,
       !.phase = IF ~task.ok THEN "Failed" ELSE IF Android THEN "AwaitingInstallation" ELSE "ReadyToRestart"]
  /\ gate' = None /\ Go("reset")
  /\ UNCHANGED <<auth, journal, cache, left>>

-----------------------------------------------------------------------------
(* The task that completes a cancellation, and the end of every task.      *)

idleRecover == UNCHANGED <<setup, panel, tail, recovery, saved, cache, ui, ghost>>

RecoverGate ==
  /\ At("recover_gate") /\ idleRecover
  /\ \/ gate = None /\ gate' = "task" /\ Go("recover_cancel") /\ UNCHANGED left
     \/ Spend("faults") /\ Go("recover_failed") /\ UNCHANGED gate
  /\ UNCHANGED <<auth, updater, coordinator, journal>>

(* recover_cancel_before: asked again until the deadline. *)
RecoverCancel ==
  /\ At("recover_cancel") /\ idleRecover /\ gate' = None
  /\ \/ journal = None /\ Go("recover_done") /\ UNCHANGED <<auth, journal, left>>
     \/ CancelRequested /\ journal' = None /\ auth' = Resumed /\ Go("recover_done") /\ UNCHANGED left
     \/ journal # None /\ ~CancelRequested /\ Go("recover_failed") /\ UNCHANGED <<auth, journal, left>>
     \/ CancelRequested /\ Spend("faults") /\ Go("recover_failed") /\ UNCHANGED <<auth, journal>>
  /\ UNCHANGED <<updater, coordinator>>

(* A resumed session keeps no consent of its predecessor. *)
RecoverDone ==
  /\ At("recover_done") /\ idleRecover
  /\ coordinator' = Invalidate(coordinator)
  /\ Go("reset") /\ UNCHANGED <<auth, updater, gate, journal, left>>

RecoverFailed ==
  /\ At("recover_failed") /\ idleRecover
  /\ updater' = [updater EXCEPT !.manual = FALSE, !.startup = FALSE]
  /\ task' = [task EXCEPT !.pc = "reset", !.ok = FALSE]
  /\ UNCHANGED <<auth, coordinator, gate, journal, left>>

(* reset_operation.  At most one task of a kind has its tail to run. *)
ResetOperation ==
  /\ At("reset") /\ updater.operation \notin tail
  /\ updater' = [updater EXCEPT !.operation = "Idle"]
  /\ task' = NoTask
  /\ tail' = IF updater.operation = "Recovering" /\ ~task.ok THEN tail ELSE tail \cup {updater.operation}
  /\ UNCHANGED <<setup, auth, panel, coordinator, recovery, gate, journal, saved, cache, ui, ghost, left>>

(* Mutant: a drive that has ended does not look for a late Yes. *)
TaskTail_NoSecondDrive(operation) ==
  /\ operation \in tail /\ tail' = tail \ {operation}
  /\ Becomes(IF operation = "Driving" /\ Recovers(Host) THEN StartCancelRecovery(Host)
             ELSE IF PendingCheck(Host) \/ operation \in {"Recovering", "Driving"} THEN ResumePendingCheck(Host)
             ELSE StartDrive(ResumePendingCheck(Host), coordinator))
  /\ UNCHANGED <<setup, auth, panel, coordinator, recovery, gate, journal, saved, cache, ui, ghost, left>>

(* What each task does after the reset: a drive looks for a cancellation   *)
(* first and drives on only with a Yes, a check drives what it found.      *)
TaskTail(operation) ==
  /\ operation \in tail /\ tail' = tail \ {operation}
  /\ Becomes(IF operation = "Driving" /\ Recovers(Host) THEN StartCancelRecovery(Host)
             ELSE IF \/ PendingCheck(Host) \/ operation = "Recovering"
                     \/ operation = "Driving" /\ ~coordinator.consent
                  THEN ResumePendingCheck(Host)
             ELSE StartDrive(ResumePendingCheck(Host), coordinator))
  /\ UNCHANGED <<setup, auth, panel, coordinator, recovery, gate, journal, saved, cache, ui, ghost, left>>

-----------------------------------------------------------------------------
(* recover, called by RuntimeReady and BeforeTunnelStart: it fails when    *)
(* the gate is taken, and cancels the update the container has not become. *)

idleHost == UNCHANGED <<setup, panel, updater, coordinator, task, tail, saved, cache, ui, ghost>>

(* Mutant: recovery does not ask for the installation gate. *)
BeginRecover_Ungated ==
  /\ recovery = "idle" /\ journal # None
  /\ journal' = [journal EXCEPT !.phase = "CancelRequested"]
  /\ recovery' = "cancel"
  /\ UNCHANGED <<auth, gate, left>> /\ idleHost

BeginRecover ==
  /\ recovery = "idle" /\ gate = None /\ journal # None
  /\ gate' = "host" /\ journal' = [journal EXCEPT !.phase = "CancelRequested"]
  /\ recovery' = "cancel"
  /\ UNCHANGED <<auth, left>> /\ idleHost

EndRecover ==
  /\ recovery = "cancel" /\ recovery' = "idle"
  /\ gate' = IF gate = "host" THEN None ELSE gate
  /\ \/ journal' = None /\ auth' = Resumed /\ UNCHANGED left
     \/ Spend("faults") /\ UNCHANGED <<journal, auth>>
  /\ idleHost

-----------------------------------------------------------------------------
(* Requests of the UI.  A request of an older connection is refused.       *)

idleUi == UNCHANGED <<setup, auth, panel, tail, recovery, gate, journal, cache>>

(* What request_v2_for does before it looks at the request. *)
Observed == IF auth.active THEN RetainScope(coordinator) ELSE Invalidate(coordinator)

RequestStatus ==
  /\ ui /\ Observed # coordinator /\ coordinator' = Observed
  /\ UNCHANGED <<updater, task, saved, ui, ghost, left>> /\ idleUi

RequestCheck(reason) ==
  /\ ui /\ Spend("checks")
  /\ coordinator' = Observed /\ Becomes(Check(Host, reason))
  /\ ghost' = [ghost EXCEPT !.later = @ /\ reason # "Manual"]
  /\ UNCHANGED <<saved, ui>> /\ idleUi

SetAutomatic(enabled) ==
  /\ ui /\ Spend("prefs")
  /\ coordinator' = [Observed EXCEPT !.automatic = enabled]
  /\ LET h == [Host EXCEPT !.u.automatic = enabled] IN Becomes(IF enabled THEN Check(h, "Foreground") ELSE h)
  /\ UNCHANGED <<saved, ui, ghost>> /\ idleUi

(* confirm: the offer on display, and on Android a UI in the foreground. *)
Confirm ==
  /\ ui /\ Spend("yes")
  /\ Observed.offer # None /\ ~Terminal(Observed) /\ (Android => UiForeground(Observed))
  /\ coordinator' = [Observed EXCEPT !.consent = TRUE, !.deferred = None]
  /\ saved' = IF Android THEN None ELSE saved
  /\ Becomes(StartDrive(Host, coordinator'))
  /\ ghost' = [yes |-> Observed.offer.id, later |-> FALSE, paused |-> None]
  /\ UNCHANGED ui /\ idleUi

(* Mutant: Later leaves a manual check that is still on its way. *)
Defer_KeepManual ==
  /\ ui /\ Spend("laters")
  /\ Observed.offer # None /\ ~Terminal(Observed)
  /\ LET version == OfferVersion(Observed)
     IN  coordinator' = [Observed EXCEPT !.consent = FALSE, !.deferred = version, !.presented = @ \cup {version}]
  /\ saved' = IF Android THEN coordinator'.deferred ELSE saved
  /\ ghost' = [ghost EXCEPT !.later = TRUE, !.paused = None]
  /\ UNCHANGED <<updater, task, ui>> /\ idleUi

(* defer supersedes an older manual check, even one during a download. *)
Defer ==
  /\ ui /\ Spend("laters")
  /\ Observed.offer # None /\ ~Terminal(Observed)
  /\ LET version == OfferVersion(Observed)
     IN  coordinator' = [Observed EXCEPT !.consent = FALSE, !.deferred = version, !.presented = @ \cup {version}]
  /\ updater' = [updater EXCEPT !.manual = FALSE]
  /\ saved' = IF Android THEN coordinator'.deferred ELSE saved
  /\ ghost' = [ghost EXCEPT !.later = TRUE, !.paused = None]
  /\ UNCHANGED <<task, ui>> /\ idleUi

Presented ==
  /\ ui /\ PromptPending /\ Observed = coordinator
  /\ coordinator' = [coordinator EXCEPT !.presented = @ \cup {OfferVersion(coordinator)}]
  /\ ghost' = [ghost EXCEPT !.paused = None]
  /\ UNCHANGED <<updater, task, saved, ui, left>> /\ idleUi

(* The Yes a pause cancels, for the property below. *)
Paused(c) ==
  IF Android /\ c.consent /\ ~Terminal(c) /\ c.offer # None THEN [ghost EXCEPT !.paused = OfferVersion(c)]
  ELSE ghost

(* ui_lifecycle in the foreground; a new launch by the user asks again. *)
UiResumed(new_launch) ==
  /\ ui /\ IF new_launch THEN Android /\ Spend("launches") ELSE UNCHANGED left
  /\ new_launch \/ (Android /\ ~coordinator.foreground) \/ (updater.operation = "Idle" /\ CancelRequested)
  /\ coordinator' = IF Android THEN SetUiLifecycle(coordinator, TRUE, new_launch) ELSE coordinator
  /\ saved' = IF new_launch THEN coordinator'.deferred ELSE saved
  /\ Becomes(StartCancelRecovery([Host EXCEPT !.u.checked = @ /\ ~new_launch]))
  /\ ghost' = IF new_launch THEN [ghost EXCEPT !.later = FALSE, !.paused = None] ELSE ghost
  /\ UNCHANGED ui /\ idleUi

UiPaused ==
  /\ ui /\ Android /\ coordinator.foreground /\ Spend("pauses")
  /\ coordinator' = SetUiLifecycle(coordinator, FALSE, FALSE) /\ ghost' = Paused(coordinator)
  /\ UNCHANGED <<updater, task, saved, ui>> /\ idleUi

(* The connection probe fails at once, ui_disconnected comes later. *)
UiLost ==
  /\ ui /\ Spend("pauses") /\ ui' = FALSE
  /\ UNCHANGED <<updater, coordinator, task, saved, ghost>> /\ idleUi

UiDisconnected ==
  /\ ~ui /\ SetUiLifecycle(coordinator, FALSE, FALSE) # coordinator
  /\ coordinator' = SetUiLifecycle(coordinator, FALSE, FALSE) /\ ghost' = Paused(coordinator)
  /\ UNCHANGED <<updater, task, saved, ui, left>> /\ idleUi

(* attach_ui: a new connection starts as one that is not in the foreground. *)
AttachUi ==
  /\ ~ui /\ ui' = TRUE
  /\ coordinator' = SetUiLifecycle(coordinator, FALSE, FALSE) /\ ghost' = Paused(coordinator)
  /\ UNCHANGED <<updater, task, saved, left>> /\ idleUi

-----------------------------------------------------------------------------
(* The timer, the session, the panel and the process.                      *)

(* start_desktop_scheduler: every half hour, which no task spends between  *)
(* its reset and its end.                                                  *)
TimerTick ==
  /\ ~Android /\ tail = {} /\ Check(Host, "Timer") # Host /\ Becomes(Check(Host, "Timer"))
  /\ UNCHANGED <<coordinator, saved, ui, ghost, left>> /\ idleUi

idleEnv == UNCHANGED <<setup, task, tail, recovery, gate, journal, cache, ui, ghost>>

RefreshToken ==
  /\ auth.active /\ Spend("sessions") /\ auth' = [auth EXCEPT !.token = @ + 1]
  /\ UNCHANGED <<panel, updater, coordinator, saved>> /\ idleEnv

Logout ==
  /\ auth.active /\ Spend("sessions") /\ auth' = [auth EXCEPT !.active = FALSE, !.revoking = TRUE]
  /\ UNCHANGED <<panel, updater, coordinator, saved>> /\ idleEnv

AuthRevoked ==
  /\ auth.revoking /\ auth' = [auth EXCEPT !.revoking = FALSE]
  /\ updater' = [updater EXCEPT !.checked = FALSE] /\ coordinator' = Invalidate(coordinator)
  /\ UNCHANGED <<panel, saved, left>> /\ idleEnv

Login ==
  /\ ~auth.active /\ ~auth.revoking
  /\ auth' = [auth EXCEPT !.active = TRUE, !.epoch = @ + 1, !.token = @ + 1]
  /\ UNCHANGED <<panel, updater, coordinator, saved, left>> /\ idleEnv

PanelChanges ==
  /\ Spend("releases") /\ panel' \in (Packages \cup {None}) \ {panel}
  /\ UNCHANGED <<auth, updater, coordinator, saved>> /\ idleEnv

(* The process ends, and the same container starts again. *)
Restart ==
  /\ Spend("restarts") /\ coordinator.phase # "ReadyToRestart"
  /\ updater' = [operation |-> "Idle", manual |-> FALSE, startup |-> FALSE, checked |-> FALSE,
                 automatic |-> updater.automatic]
  /\ coordinator' = [NewCoordinator(saved) EXCEPT !.ids = coordinator.ids]
  /\ task' = NoTask /\ tail' = {} /\ recovery' = "idle" /\ gate' = None /\ ui' = TRUE
  /\ auth' = [auth EXCEPT !.revoking = FALSE]
  /\ ghost' = [ghost EXCEPT !.later = @ /\ Android, !.paused = None]
  /\ UNCHANGED <<setup, panel, journal, saved, cache>>

-----------------------------------------------------------------------------
TaskStep ==
  \/ CheckToken \/ CheckBootstrap \/ CheckResolve \/ CheckPublish \/ CheckSettle \/ CheckFailed
  \/ DriveToken \/ DriveBegin \/ DriveCached \/ DriveDownload \/ Downloading \/ DriveAdmit
  \/ DriveStore \/ DriveReady \/ DriveFresh \/ DriveGate \/ DriveDecide
  \/ InstallStop \/ InstallStopping \/ InstallCheck \/ Installing \/ InstallOpened
  \/ InstallCancel \/ InstallCancelling \/ InstallFinish
  \/ RecoverGate \/ RecoverCancel \/ RecoverDone \/ RecoverFailed
  \/ ResetOperation

UiStep ==
  \/ RequestStatus \/ Confirm \/ Defer \/ Presented \/ UiPaused \/ UiLost \/ UiDisconnected \/ AttachUi
  \/ \E reason \in {"Startup", "Manual", "Foreground"} : RequestCheck(reason)
  \/ \E enabled \in BOOLEAN : SetAutomatic(enabled)
  \/ \E new_launch \in BOOLEAN : UiResumed(new_launch)

Next ==
  \/ TaskStep \/ UiStep \/ BeginRecover \/ EndRecover
  \/ \E operation \in Operations : TaskTail(operation)
  \/ TimerTick \/ RefreshToken \/ Logout \/ AuthRevoked \/ Login \/ PanelChanges \/ Restart

UpdaterSpec == Init /\ [][Next]_vars

(* Spawned tasks run, the timer ticks, a UI that was lost comes back, an   *)
(* Android UI returns to the foreground, and the UI asks for the status    *)
(* after it has sent a decision.                                           *)
UpdaterFairSpec ==
  /\ UpdaterSpec
  /\ WF_vars(TaskStep) /\ SF_vars(DriveGate) /\ SF_vars(RecoverGate)
  /\ \A operation \in Operations : WF_vars(TaskTail(operation))
  /\ WF_vars(EndRecover) /\ WF_vars(AuthRevoked)
  /\ WF_vars(AttachUi) /\ WF_vars(RequestStatus) /\ SF_vars(Android /\ UiResumed(FALSE)) /\ SF_vars(TimerTick)

-----------------------------------------------------------------------------
(* The shape of the coordinator's state and of the operation's task.       *)
UpdaterTypeOK ==
  /\ updater.operation \in Operations
  /\ coordinator.phase \in Phases /\ coordinator.offer \in BoundOffers \cup {None}
  /\ task.offer \in BoundOffers \cup {None} /\ task.access \in Accesses \cup {None}

(* The package given to the native installer is the one the user's last    *)
(* Yes named, its file has that package's bytes, and the runtime is        *)
(* stopped for its version and stays so: no recovery undoes the stop while *)
(* the installer works (drive_offer, UpdateBarrier, HostUpdater::recover). *)
HandoffIsConfirmed ==
  /\ UpdaterTypeOK
  /\ At("installing") =>
       /\ task.offer.id = ghost.yes /\ task.package = task.offer.package
       /\ Revalidates(task.package) /\ gate = "task"
       /\ journal # None /\ journal.phase \in {"LocalStopped", "InstallerOpened"}
       /\ journal.version = Version(task.package)

(* The user's answers are kept.  Later supersedes an older manual check:   *)
(* until the user asks again, says Yes or launches the application anew,   *)
(* no check that was on its way brings the prompt back (manual_pending in  *)
(* check and defer).  A Yes that a pause or a lost connection cancels      *)
(* before the handoff is asked for again on return (set_ui_lifecycle,      *)
(* drive_offer).                                                           *)
AnswersAreKept ==
  /\ ghost.later => coordinator.deferred # None
  /\ ghost.paused # None => ghost.paused \notin coordinator.presented

(* A Yes is never lost: unless a cancelled installation is still to be     *)
(* undone, it is carried out or withdrawn ("A Yes racing with the final    *)
(* ready state must not be lost", start_drive).                            *)
YesIsServed == (coordinator.consent /\ journal = None) ~> (~coordinator.consent \/ journal # None)

(* A cancellation that was journaled is completed, with automatic updates  *)
(* or without them (check, start_cancel_recovery).                         *)
CancelledStopIsUndone == CancelRequested ~> ~CancelRequested
=============================================================================
