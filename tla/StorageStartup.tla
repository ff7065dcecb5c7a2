--------------------------- MODULE StorageStartup ---------------------------
(***************************************************************************)
(* What the container finds on disk when it starts, and what it writes     *)
(* before it hands the records out: prepare_runtime_storage                *)
(* (client-storage/src/startup.rs) and the migration of the records of a   *)
(* version that had no container (client-storage/src/migration.rs).        *)
(*                                                                         *)
(* There are two kinds of storage.  Protected records (the old version's   *)
(* credentials, "auth-v1", one record per runtime, one staged transaction  *)
(* per runtime) are in the system's secret store, and on Linux in files    *)
(* when that store is not available (client-storage/src/lib.rs).  The      *)
(* split-tunnel file, the migration journal and the inventory are plain    *)
(* files.  Every write of any of them is one step, and the process may end *)
(* between any two.                                                        *)
(*                                                                         *)
(* A runtime's record is named by slot and version: record 0 is the stable *)
(* runtime, record c the latest runtime of the c-th container.  The work   *)
(* of the broker and of the switch coordinator between two starts is in    *)
(* AuthBroker and RuntimeSwitch; here it is what they write to the records.*)
(***************************************************************************)
EXTENDS Naturals, FiniteSets

CONSTANTS None,
          Containers,   \* number of container versions that are installed in turn
          Shipped,      \* records a start always looks for (version 0.2.16)
          Scenarios     \* records of Init choices and budgets of events

VARIABLES native,     \* the system's secret store
          fallback,   \* the protected files beside it
          disk,       \* [split, journal, marker]: the plain files
          host,       \* the container process
          owed,       \* the leases and operations of the old version are not yet cleaned up
          left        \* what is left of the scenario's budgets

vars == <<native, fallback, disk, host, owed, left>>

Records == 0 .. Containers
Names == {<<"legacy", 0>>, <<"auth", 0>>} \cup ({"runtime", "staging"} \X Records)
Events == {"crash", "io", "outage", "login", "logout", "work", "select", "update"}

(* What the records hold: "auth-v1" (the installation's secret, a          *)
(* revision, the runtime a session is bound to, whether a logout is not    *)
(* yet complete), a runtime's record (whether it may only be cleaned up,   *)
(* owes a cleanup, is bound to the session), a staged transaction.         *)
AuthRecords == [install : Nat, rev : Nat, at : Records \cup {None}, out : BOOLEAN]
RuntimeRecords == [only : BOOLEAN, debt : BOOLEAN, bound : BOOLEAN]
Pairs == [auth : AuthRecords, runtime : RuntimeRecords]
Transactions == [from : Pairs \cup {None}, auth : AuthRecords, runtime : RuntimeRecords]

Early == {"LegacyRead", "AuthWritten", "RuntimeWritten", "Committed"}
Late == {"Verified", "Tombstoning", "Complete"}
Journals ==
  [phase : Early \cup Late, ns : Records, of : {None, "full", "bare"} \X BOOLEAN,
   pending : Transactions \cup {None}, last : Transactions \cup {None}]
Markers ==
  [committed : BOOLEAN, install : Nat, fresh : Transactions \cup {None}, namespaces : SUBSET Records]

(* None is the code's Option::None.                                        *)
ASSUME StartAssumption ==
  /\ Containers \in Nat \ {0} /\ Shipped \subseteq Records
  /\ None \notin {"full", "bare"} /\ None \notin Records
  /\ None \notin AuthRecords /\ None \notin RuntimeRecords /\ None \notin Pairs
  /\ None \notin Transactions /\ None \notin Journals /\ None \notin Markers
  /\ \A s \in Scenarios : /\ s.legacy \in {None, "full", "bare"}
                          /\ s.split \in BOOLEAN /\ s.replay \in BOOLEAN

(* The credentials of the old version: "full" holds a session, leases and  *)
(* operations, "bare" only the installation's secret.  Secret 0 is theirs; *)
(* a new installation draws another.                                       *)
FromLegacy(secret) == [install |-> secret, rev |-> 0, at |-> None, out |-> FALSE]

(* Mutant: the import forgets what the old version owes. *)
ImportLegacyForgets(legacy) == [only |-> TRUE, debt |-> FALSE, bound |-> FALSE]

ImportLegacy(legacy) == [only |-> TRUE, debt |-> legacy = "full", bound |-> FALSE]

Empty(only) == [only |-> only, debt |-> FALSE, bound |-> FALSE]

(* A transaction over "auth-v1" and one runtime's record.  Its id is a     *)
(* digest of what it changes and to what.                                  *)
Transaction(from, a, r) == [from |-> from, auth |-> a, runtime |-> r]

FreshInstall(secret) == Transaction(None, FromLegacy(secret), Empty(FALSE))

Enrolled == [install |-> 0, rev |-> 1, at |-> 1, out |-> FALSE]
Bound(debt) == [only |-> FALSE, debt |-> debt, bound |-> TRUE]

(* A transaction that a storage session of an earlier version staged and   *)
(* did not carry out: the end of a connection, which changes both records. *)
Projection ==
  Transaction([auth |-> Enrolled, runtime |-> Bound(TRUE)], [Enrolled EXCEPT !.rev = 2], Bound(FALSE))

Down == [pc |-> "down", c |-> 1, sel |-> 1, keyring |-> TRUE, boot |-> FALSE, awaiting |-> FALSE,
         transition |-> FALSE, admitted |-> FALSE, io |-> FALSE, drawn |-> 0]

Nothing == [name \in Names |-> None]

Init ==
  \E s \in Scenarios :
    /\ left = s.left
    /\ fallback = Nothing
    /\ host = Down
    /\ owed = (s.legacy = "full" /\ ~s.replay)
    /\ native = IF s.replay
                THEN [Nothing EXCEPT ![<<"legacy", 0>>] = s.legacy, ![<<"auth", 0>>] = Enrolled,
                                     ![<<"runtime", 1>>] = Bound(TRUE), ![<<"staging", 1>>] = Projection]
                ELSE [Nothing EXCEPT ![<<"legacy", 0>>] = s.legacy]
    /\ disk = [split |-> s.split,
               journal |-> IF s.replay
                           THEN [phase |-> "Verified", ns |-> 1, of |-> <<s.legacy, s.split>>,
                                 pending |-> None, last |-> None]
                           ELSE None,
               marker |-> IF s.replay
                          THEN [committed |-> TRUE, install |-> 0, fresh |-> None, namespaces |-> {1}]
                          ELSE None]

-----------------------------------------------------------------------------
(* The protected records. *)

(* What a load returns: the fallback stands in for a store that is not     *)
(* available, and for a record that the store does not have.               *)
Get(name) == IF host.keyring /\ native[name] # None THEN native[name] ELSE fallback[name]

Put(name, value) ==
  IF host.keyring
  THEN native' = [native EXCEPT ![name] = value] /\ fallback' = [fallback EXCEPT ![name] = None]
  ELSE fallback' = [fallback EXCEPT ![name] = value] /\ UNCHANGED native

Legacy == Get(<<"legacy", 0>>)
Auth == Get(<<"auth", 0>>)
Runtime(n) == Get(<<"runtime", n>>)
Staging(n) == Get(<<"staging", n>>)
Journal == disk.journal
Marker == disk.marker
Sel == host.sel

-----------------------------------------------------------------------------
(* Steps of the process. *)

At(pc) == host.pc = pc
Go(pc) == host' = [host EXCEPT !.pc = pc]
Spend(e) == left[e] > 0 /\ left' = [left EXCEPT ![e] = @ - 1]

SameRecords == UNCHANGED <<native, fallback>>
Quiet == UNCHANGED <<owed, left>>

WriteRecord(name, value) == Put(name, value) /\ UNCHANGED disk /\ Quiet
WriteJournal(j) == disk' = [disk EXCEPT !.journal = j] /\ SameRecords /\ Quiet
WriteMarker(m) == disk' = [disk EXCEPT !.marker = m] /\ SameRecords /\ Quiet

(* A start that fails ends the process; an acknowledgement that fails is   *)
(* an error of the call RuntimeReady.                                      *)
Failure == IF host.boot THEN "failed" ELSE "ready"

-----------------------------------------------------------------------------
(* prepare_runtime_storage: the scan, and which way the start goes. *)

Manifest == {0, host.c}

Known ==
  Shipped \cup Manifest \cup (IF Marker # None THEN Marker.namespaces ELSE {})
          \cup (IF Journal # None THEN {Journal.ns} ELSE {})

Occupied == {n \in Known : Runtime(n) # None}
Pending == {n \in Known : Staging(n) # None}
Listed(n) == Marker # None /\ n \in Marker.namespaces
Committed == Marker # None /\ Marker.committed
MigrationComplete == Journal # None /\ Journal.phase = "Complete"

(* The new process reads every record it knows of; what the fallback holds *)
(* and the store does not is moved to the store.                           *)
Boot(available) ==
  /\ host.pc \in {"down", "failed"}
  /\ available \/ left["outage"] > 0
  /\ left' = IF available THEN left ELSE [left EXCEPT !["outage"] = @ - 1]
  /\ host' = [Down EXCEPT !.pc = "scan", !.c = host.c, !.sel = Sel, !.keyring = available,
                          !.boot = TRUE, !.drawn = host.drawn]
  /\ LET moved == {name \in Names : /\ available /\ native[name] = None /\ fallback[name] # None
                                    /\ name[1] \in {"runtime", "staging"} => name[2] \in Known}
     IN /\ native' = [name \in Names |-> IF name \in moved THEN fallback[name] ELSE native[name]]
        /\ fallback' = [name \in Names |-> IF name \in moved THEN None ELSE fallback[name]]
  /\ UNCHANGED <<disk, owed>>

Migrates == ~MigrationComplete /\ (Legacy # None \/ Journal # None)

MigrationAllowed ==
  /\ Journal # None => Journal.ns = Sel
  /\ \A n \in Occupied \ {Sel} : Committed /\ Listed(n)
  /\ Marker # None => Marker.committed /\ Marker.fresh = None
  /\ Pending = {} \/ (Pending = {Sel} /\ Journal # None)

(* Mutant: a record that was made before the inventory named it is refused. *)
AdoptionAllowedListed ==
  /\ ~disk.split
  /\ Auth # None /\ Auth.install = Marker.install
  /\ \A n \in Occupied \ {Sel} : Listed(n)
  /\ IF Runtime(Sel) = None THEN ~Listed(Sel) /\ Occupied # {} /\ Pending = {} ELSE Listed(Sel)
  /\ Pending = {} \/ (Pending = {Sel} /\ Staging(Sel) = Marker.fresh)

AdoptionAllowed ==
  /\ ~disk.split
  /\ Auth # None /\ Auth.install = Marker.install
  /\ \A n \in Occupied \ {Sel} : Listed(n)
  /\ IF Runtime(Sel) = None
     THEN ~Listed(Sel) /\ Occupied # {} /\ Pending = {}
     ELSE Listed(Sel) \/ Runtime(Sel) = Empty(TRUE)
  /\ Pending = {} \/ (Pending = {Sel} /\ Staging(Sel) = Marker.fresh)

InstallAllowed ==
  /\ ~disk.split
  /\ \/ Pending = {} /\ Marker = None /\ Auth = None /\ Occupied = {}
     \/ /\ Pending = {Sel} /\ Occupied \subseteq {Sel}
        /\ LET t == Staging(Sel)
           IN /\ t.from = None /\ t.runtime = Empty(FALSE) /\ t.auth = FromLegacy(t.auth.install)
              /\ Marker # None => Marker.install = t.auth.install /\ Marker.fresh = t
              /\ Auth \in {None, t.auth}
              /\ Runtime(Sel) \in {None, t.runtime}

Direction ==
  IF Migrates THEN IF ~MigrationAllowed THEN "failed" ELSE IF Pending = {} THEN "migrate" ELSE "replay"
  ELSE IF Committed THEN IF AdoptionAllowed THEN "adopt" ELSE "failed"
  ELSE IF InstallAllowed THEN "install" ELSE "failed"

Scan == At("scan") /\ Go(Direction) /\ SameRecords /\ UNCHANGED disk /\ Quiet

Namespaces == (IF Marker # None THEN Marker.namespaces ELSE {}) \cup Occupied \cup {Sel}

(* The records are handed out to the broker and to the runtime's owner. A  *)
(* record that may only be cleaned up, or a new container, asks for the    *)
(* initial transition.                                                     *)
HandOut(awaiting) ==
  host' = [host EXCEPT !.pc = "ready", !.boot = FALSE, !.awaiting = awaiting,
                       !.transition = Runtime(Sel) # None /\ Runtime(Sel).only]

-----------------------------------------------------------------------------
(* The first start of a new installation. *)

Announced(committed) ==
  [committed |-> committed, install |-> Staging(Sel).auth.install, fresh |-> Staging(Sel),
   namespaces |-> Namespaces]

InstallStage ==
  /\ At("install") /\ Staging(Sel) = None
  /\ Put(<<"staging", Sel>>, FreshInstall(host.drawn + 1))
  /\ host' = [host EXCEPT !.drawn = @ + 1]
  /\ UNCHANGED disk /\ Quiet

InstallAnnounce ==
  /\ At("install") /\ Staging(Sel) # None /\ Marker = None
  /\ WriteMarker(Announced(FALSE)) /\ UNCHANGED host

InstallAuth ==
  /\ At("install") /\ Marker # None /\ Auth = None
  /\ WriteRecord(<<"auth", 0>>, Staging(Sel).auth) /\ UNCHANGED host

InstallRuntime ==
  /\ At("install") /\ Auth # None /\ Runtime(Sel) = None
  /\ WriteRecord(<<"runtime", Sel>>, Staging(Sel).runtime) /\ UNCHANGED host

InstallCommit ==
  /\ At("install") /\ Staging(Sel) # None /\ Marker # None /\ Auth # None /\ Runtime(Sel) # None
  /\ ~Committed
  /\ WriteMarker(Announced(TRUE)) /\ UNCHANGED host

InstallClear ==
  /\ At("install") /\ Committed
  /\ WriteRecord(<<"staging", Sel>>, None) /\ HandOut(FALSE)

-----------------------------------------------------------------------------
(* A start over an inventory that was committed before. *)

AdoptRuntime ==
  /\ At("adopt") /\ Runtime(Sel) = None
  /\ WriteRecord(<<"runtime", Sel>>, Empty(TRUE)) /\ UNCHANGED host

AdoptClear ==
  /\ At("adopt") /\ Runtime(Sel) # None /\ Staging(Sel) # None
  /\ WriteRecord(<<"staging", Sel>>, None) /\ UNCHANGED host

AdoptCommit ==
  /\ At("adopt") /\ Runtime(Sel) # None /\ Staging(Sel) = None
  /\ WriteMarker([Marker EXCEPT !.namespaces = Namespaces]) /\ HandOut(FALSE)

-----------------------------------------------------------------------------
(* The replay of a staged transaction (RuntimeStorageSession.load). *)

Replayable ==
  LET t == Staging(Sel)
  IN /\ Journal.phase = "Verified"
     /\ ~t.runtime.only /\ t.auth.install = 0
     /\ Journal.pending \in {None, t}
     /\ t.from # None
     /\ Auth \in {t.from.auth, t.auth}
     /\ Runtime(Sel) \in {t.from.runtime, t.runtime}

Applied == Journal.pending = None /\ Journal.last = Staging(Sel)

ReplayIntent ==
  /\ At("replay") /\ ~Applied /\ Replayable /\ Journal.pending = None
  /\ WriteJournal([Journal EXCEPT !.pending = Staging(Sel)]) /\ UNCHANGED host

ReplayAuth ==
  /\ At("replay") /\ Replayable /\ Journal.pending # None /\ Auth # Staging(Sel).auth
  /\ WriteRecord(<<"auth", 0>>, Staging(Sel).auth) /\ UNCHANGED host

ReplayRuntime ==
  /\ At("replay") /\ Replayable /\ Journal.pending # None
  /\ Auth = Staging(Sel).auth /\ Runtime(Sel) # Staging(Sel).runtime
  /\ WriteRecord(<<"runtime", Sel>>, Staging(Sel).runtime) /\ UNCHANGED host

ReplayDone ==
  /\ At("replay") /\ Replayable /\ Journal.pending # None
  /\ Auth = Staging(Sel).auth /\ Runtime(Sel) = Staging(Sel).runtime
  /\ WriteJournal([Journal EXCEPT !.pending = None, !.last = Staging(Sel)]) /\ UNCHANGED host

ReplayClear ==
  /\ At("replay") /\ Applied
  /\ WriteRecord(<<"staging", Sel>>, None)
  /\ Go(IF Runtime(Sel) = None \/ Runtime(Sel).only THEN "failed" ELSE "migrate")

-----------------------------------------------------------------------------
(* migrate_legacy_auth. *)

(* The old version's credentials are still what the journal was made from. *)
SourceSame == Legacy # None /\ Journal.of = <<Legacy, disk.split>>

AuthBaseline == Auth = FromLegacy(0)
RuntimeBaseline == Runtime(Sel) = ImportLegacy(Legacy)

(* pair: both records, of one installation, and no write of theirs is open. *)
Paired == Auth # None /\ Runtime(Sel) # None /\ Auth.install = 0 /\ Journal.pending = None

Migratable ==
  IF Journal = None THEN Legacy # None /\ Auth = None /\ Runtime(Sel) = None
  ELSE IF Journal.phase \in Early
  THEN /\ SourceSame
       /\ AuthBaseline \/ (Auth = None /\ Journal.phase = "LegacyRead")
       /\ RuntimeBaseline \/ (Runtime(Sel) = None /\ Journal.phase \in {"LegacyRead", "AuthWritten"})
  ELSE Paired

MigrateBegin ==
  /\ At("migrate") /\ Migratable /\ Journal = None
  /\ WriteJournal([phase |-> "LegacyRead", ns |-> Sel, of |-> <<Legacy, disk.split>>,
                   pending |-> None, last |-> None])
  /\ UNCHANGED host

MigrateAt(phase) == At("migrate") /\ Migratable /\ Journal # None /\ Journal.phase = phase
Advance(phase) == WriteJournal([Journal EXCEPT !.phase = phase]) /\ UNCHANGED host

MigrateAuth ==
  /\ MigrateAt("LegacyRead") /\ Auth = None
  /\ WriteRecord(<<"auth", 0>>, FromLegacy(0)) /\ UNCHANGED host

MigrateRuntime ==
  /\ MigrateAt("AuthWritten") /\ Runtime(Sel) = None
  /\ WriteRecord(<<"runtime", Sel>>, ImportLegacy(Legacy)) /\ UNCHANGED host

MigrateAdvance ==
  \/ MigrateAt("LegacyRead") /\ Auth # None /\ Advance("AuthWritten")
  \/ MigrateAt("AuthWritten") /\ Runtime(Sel) # None /\ Advance("RuntimeWritten")
  \/ MigrateAt("RuntimeWritten") /\ Advance("Committed")
  \/ MigrateAt("Committed") /\ Advance("Verified")

(* Mutant: an acknowledgement that was interrupted is not resumed. *)
MigrateKnownUnfinished ==
  /\ MigrateAt("Verified") \/ MigrateAt("Tombstoning")
  /\ Go("inventory") /\ SameRecords /\ UNCHANGED disk /\ Quiet

(* A migration that was verified waits for its acknowledgement; one that   *)
(* was being acknowledged is acknowledged now.                             *)
MigrateKnown ==
  \/ MigrateAt("Verified") /\ Go("inventory") /\ SameRecords /\ UNCHANGED disk /\ Quiet
  \/ MigrateAt("Tombstoning") /\ Go("acknowledge") /\ SameRecords /\ UNCHANGED disk /\ Quiet

WriteInventory ==
  /\ At("inventory") /\ (Marker # None => Marker.install = Auth.install)
  /\ WriteMarker([committed |-> TRUE, install |-> Auth.install, fresh |-> None,
                  namespaces |-> Namespaces])
  /\ HandOut(Journal.phase = "Verified")

-----------------------------------------------------------------------------
(* acknowledge_migration_bootstrap. *)

Acknowledgeable ==
  /\ Paired
  /\ Auth.at = Sel /\ ~Auth.out
  /\ ~Runtime(Sel).only /\ ~Runtime(Sel).debt
  /\ \/ SourceSame
     \/ Journal.phase = "Tombstoning" /\ Legacy = "bare" /\ disk.split \in {Journal.of[2], FALSE}

Acknowledge ==
  /\ At("acknowledge") /\ Acknowledgeable /\ Journal.phase # "Complete"
  /\ WriteJournal([Journal EXCEPT !.phase = "Tombstoning"]) /\ Go("tombstone")

Tombstone == At("tombstone") /\ WriteRecord(<<"legacy", 0>>, "bare") /\ Go("unsplit")

DeleteSplit ==
  /\ At("unsplit") /\ disk' = [disk EXCEPT !.split = FALSE] /\ Go("complete")
  /\ SameRecords /\ Quiet

CompleteMigration ==
  /\ At("complete")
  /\ WriteJournal([Journal EXCEPT !.phase = "Complete"])
  /\ host' = [host EXCEPT !.pc = IF host.boot THEN "inventory" ELSE "ready", !.admitted = ~host.boot]

(* A second RuntimeReady finds the migration complete. *)
AlreadyComplete ==
  /\ At("acknowledge") /\ Journal.phase = "Complete"
  /\ host' = [host EXCEPT !.pc = "ready", !.admitted = TRUE]
  /\ SameRecords /\ UNCHANGED disk /\ Quiet

(* What the steps above refuse to go on with. *)
Unfit ==
  CASE At("replay") -> ~Applied /\ ~Replayable
    [] At("migrate") -> ~Migratable
    [] At("inventory") -> Marker # None /\ Marker.install # Auth.install
    [] At("acknowledge") -> Journal.phase # "Complete" /\ ~Acknowledgeable
    [] OTHER -> FALSE

Refuse == Unfit /\ Go(Failure) /\ SameRecords /\ UNCHANGED disk /\ Quiet

-----------------------------------------------------------------------------
(* Between two starts: what the broker, the runtime and the installer do   *)
(* to the records.                                                         *)

Bump(a) == [a EXCEPT !.rev = IF @ < 3 THEN @ + 1 ELSE @]
Live == At("ready") /\ UNCHANGED disk

(* A login, or the resume that moves the session to this runtime. *)
Enrol ==
  /\ Live /\ Auth.at # Sel /\ ~(Auth.out /\ Runtime(Sel).bound)
  /\ IF Auth.at = None THEN Spend("login") ELSE UNCHANGED left
  /\ Put(<<"auth", 0>>, [Bump(Auth) EXCEPT !.at = Sel, !.out = FALSE])
  /\ UNCHANGED <<host, owed>>

(* The initial transition cleans up what the record owes and binds it to   *)
(* the session; without one only an empty record is bound.                 *)
Admissible == host.transition \/ (~Runtime(Sel).only /\ ~Runtime(Sel).debt)

CleanAndBind ==
  /\ Live /\ Auth.at = Sel /\ ~Runtime(Sel).bound /\ Admissible
  /\ Put(<<"runtime", Sel>>, Bound(FALSE))
  /\ owed' = (owed /\ ~Runtime(Sel).debt)
  /\ UNCHANGED <<host, left>>

(* RuntimeReady acknowledges a migration before it admits the runtime. *)
RuntimeReady ==
  /\ Live /\ ~host.admitted /\ Auth.at = Sel /\ Runtime(Sel).bound
  /\ host' = IF host.awaiting THEN [host EXCEPT !.pc = "acknowledge"]
             ELSE [host EXCEPT !.admitted = TRUE]
  /\ SameRecords /\ Quiet

Work ==
  /\ Live /\ host.admitted /\ Spend("work")
  /\ Put(<<"runtime", Sel>>, Bound(~Runtime(Sel).debt))
  /\ UNCHANGED <<host, owed>>

(* A logout ends the session; the record that is bound to it is cleared    *)
(* once the runtime has stopped.                                           *)
Logout ==
  /\ Live /\ ~Auth.out /\ Spend("logout")
  /\ Put(<<"auth", 0>>, [Bump(Auth) EXCEPT !.at = None, !.out = TRUE])
  /\ host' = [host EXCEPT !.admitted = FALSE, !.transition = FALSE]
  /\ UNCHANGED owed

CompleteLogout ==
  /\ Live /\ Auth.out /\ Runtime(Sel).bound
  /\ Put(<<"runtime", Sel>>, Empty(FALSE))
  /\ UNCHANGED <<host, owed, left>>

(* The other runtime is selected, or another container is installed; the   *)
(* next start finds it.                                                    *)
Select ==
  /\ Live /\ Spend("select") /\ Auth.at = Sel /\ Runtime(Sel).bound /\ ~Runtime(Sel).debt
  /\ \E n \in Manifest \ {Sel} : host' = [host EXCEPT !.pc = "down", !.sel = n]
  /\ SameRecords /\ UNCHANGED owed

Update ==
  /\ host.pc \in {"ready", "down"} /\ host.c < Containers /\ Spend("update")
  /\ host' = [host EXCEPT !.pc = "down", !.c = @ + 1, !.sel = host.c + 1]
  /\ SameRecords /\ UNCHANGED <<disk, owed>>

Crash ==
  /\ host.pc \notin {"down", "failed"} /\ Spend("crash") /\ Go("down")
  /\ SameRecords /\ UNCHANGED <<disk, owed>>

(* A write fails and changes nothing. *)
WriteFails ==
  /\ host.pc \in {"install", "adopt", "replay", "migrate", "inventory", "acknowledge",
                  "tombstone", "unsplit", "complete"}
  /\ Spend("io")
  /\ host' = [host EXCEPT !.pc = Failure, !.io = host.boot]
  /\ SameRecords /\ UNCHANGED <<disk, owed>>

-----------------------------------------------------------------------------
StartSteps ==
  \/ Scan
  \/ InstallStage \/ InstallAnnounce \/ InstallAuth \/ InstallRuntime \/ InstallCommit \/ InstallClear
  \/ AdoptRuntime \/ AdoptClear \/ AdoptCommit
  \/ ReplayIntent \/ ReplayAuth \/ ReplayRuntime \/ ReplayDone \/ ReplayClear
  \/ MigrateBegin \/ MigrateAuth \/ MigrateRuntime \/ MigrateAdvance \/ MigrateKnown
  \/ WriteInventory
  \/ Acknowledge \/ Tombstone \/ DeleteSplit \/ CompleteMigration
  \/ AlreadyComplete \/ Refuse

Next ==
  \/ Boot(TRUE) \/ Boot(FALSE)
  \/ StartSteps
  \/ Enrol \/ CleanAndBind \/ RuntimeReady \/ Work \/ Logout \/ CompleteLogout
  \/ Select \/ Update \/ Crash \/ WriteFails

Spec == Init /\ [][Next]_vars

(* The user starts a container that is not running; a start runs to its    *)
(* end; the coordinator carries the initial transition through, and the    *)
(* runtime repeats RuntimeReady until it is answered.                      *)
StartFairness ==
  WF_vars(Boot(TRUE)) /\ WF_vars(StartSteps) /\ WF_vars(CleanAndBind) /\ WF_vars(RuntimeReady)

FairSpec == Spec /\ StartFairness

-----------------------------------------------------------------------------
(* What can leave a container unable to start: a migration, a staged       *)
(* transaction or a new record that a start did not finish, for another    *)
(* runtime than the one that is selected now, and an acknowledgement that  *)
(* failed midway before a logout.                                          *)
Stranded ==
  \/ Journal # None /\ Journal.phase # "Complete" /\ Journal.ns # Sel
  \/ \E n \in Known \ {Sel} : Staging(n) # None \/ (Runtime(n) # None /\ ~Listed(n))
  \/ Journal # None /\ Journal.phase = "Tombstoning" /\ Auth # None /\ Auth.out

(* The records that a start hands out belong to one installation: the      *)
(* inventory is committed, names the selected record and the secret of     *)
(* "auth-v1", and where the old version left credentials that secret is    *)
(* theirs; the staged transaction is gone.                                 *)
HandedOut ==
  /\ Committed /\ Sel \in Marker.namespaces
  /\ Auth # None /\ Auth.install = Marker.install
  /\ Legacy # None => Auth.install = 0
  /\ Runtime(Sel) # None /\ Staging(Sel) = None

(* How a start may end.  One that was interrupted at any write can be      *)
(* carried through by the next: prepare_runtime_storage refuses what it    *)
(* finds only when a write fails, the secret store is not available or the *)
(* container is stranded ("Crash-resumable storage migration",             *)
(* migration.rs:1).  What it hands out belongs to one installation.        *)
StartEndsWell ==
  /\ At("failed") => host.io \/ ~host.keyring \/ Stranded
  /\ At("ready") => HandedOut

(* A migration that has imported the runtime's record.                     *)
Imported ==
  Journal # None /\ Journal.phase \in {"RuntimeWritten", "Committed"} \cup Late

(* What is owed is never lost: until the old version's leases are cleaned  *)
(* up they are in the old credentials and, once the migration has imported *)
(* them, in the record it made, which may only be cleaned up; no outage of *)
(* the secret store and no other installation replaces either.  A record   *)
(* that may only be cleaned up stays so through every start, until the     *)
(* broker's cleanup lifts it (startup.rs:124, "never clears cleanup_only").*)
DebtIsKept ==
  [][/\ owed' => native'[<<"legacy", 0>>] = "full"
     /\ owed' /\ Imported' =>
          LET r == native'[<<"runtime", Journal'.ns>>] IN r # None /\ r.only /\ r.debt
     /\ \A n \in Records :
          LET r == native[<<"runtime", n>>]
          IN r # None /\ r.only /\ ~At("ready") => native'[<<"runtime", n>>] = r]_vars

SignedIn == Auth # None /\ Auth.at = Sel /\ ~Auth.out
Barred == At("ready") /\ ~Runtime(Sel).bound /\ ~Admissible

(* A migration whose session was enrolled is completed: the old            *)
(* credentials are erased, unless the session ends first or the container  *)
(* is stranded.                                                            *)
MigrationEnds ==
  (Journal # None /\ SignedIn) ~>
    (MigrationComplete /\ Legacy = "bare" /\ ~disk.split) \/ ~SignedIn \/ Stranded \/ Barred
=============================================================================
