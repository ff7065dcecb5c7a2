--------------------------- MODULE StorageProofs ---------------------------
(***************************************************************************)
(* For every number of containers and every number of crashes, failed      *)
(* writes, outages of the secret store, logins, logouts, selections and    *)
(* updates: what the old version owes is kept, and the records that a      *)
(* start hands out belong to one installation.                             *)
(***************************************************************************)
EXTENDS StorageStartup, TLAPS

HostSteps == {"down", "failed", "scan", "install", "adopt", "replay", "migrate", "inventory",
              "acknowledge", "tombstone", "unsplit", "complete", "ready"}
Hosts == [pc : HostSteps, c : 1 .. Containers, sel : Records, keyring : BOOLEAN, boot : BOOLEAN,
          awaiting : BOOLEAN, transition : BOOLEAN, admitted : BOOLEAN, io : BOOLEAN, drawn : Nat]

(* A record that may only be cleaned up is bound to no session.            *)
RuntimeValues == {r \in RuntimeRecords : ~(r.only /\ r.bound)} \cup {None}

(* A staged transaction is that of a new installation, or Projection.      *)
StagedValues ==
  {t \in Transactions : t = Projection \/ (t.from = None /\ t.auth.install # 0 /\ t.runtime = Empty(FALSE))}
    \cup {None}

Contents == {None, "full", "bare"} \cup AuthRecords \cup RuntimeRecords \cup Transactions

Store(s) ==
  /\ s \in [Names -> Contents]
  /\ s[<<"legacy", 0>>] \in {None, "full", "bare"}
  /\ s[<<"auth", 0>>] \in AuthRecords \cup {None}
  /\ \A n \in Records : s[<<"runtime", n>>] \in RuntimeValues /\ s[<<"staging", n>>] \in StagedValues

StTypeOK ==
  /\ Store(native) /\ Store(fallback)
  /\ disk \in [split : BOOLEAN, journal : Journals \cup {None}, marker : Markers \cup {None}]
  /\ host \in Hosts /\ host.sel \in {0, host.c}
  /\ owed \in BOOLEAN

Import == ImportLegacy("full")

(* What a start writes while the secret store is not available is that of  *)
(* a new installation: nothing of the old version's is in the fallback.    *)
FallbackIsNew ==
  /\ fallback[<<"legacy", 0>>] = None
  /\ fallback[<<"auth", 0>>] # None => fallback[<<"auth", 0>>].install # 0
  /\ \A n \in Records :
       /\ fallback[<<"runtime", n>>] # Import
       /\ fallback[<<"staging", n>>] # None => fallback[<<"staging", n>>].from = None

Ending == {"tombstone", "unsplit", "complete"}

(* What is owed is in the store, and no acknowledgement is under way.      *)
Debt ==
  owed =>
    /\ native[<<"legacy", 0>>] = "full"
    /\ Imported => native[<<"runtime", Journal.ns>>] = Import
    /\ host.pc \notin Ending

(* The migration of the selected runtime is verified, or further.          *)
Migrated ==
  /\ Journal # None /\ Journal.ns = Sel /\ Journal.phase \in Late
  /\ Auth # None /\ Auth.install = 0 /\ Runtime(Sel) # None /\ Staging(Sel) = None

(* What is known at each place of a start. *)
InstallPlace ==
  At("install") =>
    /\ Legacy = None
    /\ Marker # None \/ Auth # None \/ Runtime(Sel) # None => Staging(Sel) # None
    /\ Staging(Sel) # None =>
         /\ Staging(Sel).from = None
         /\ Marker # None => Marker.install = Staging(Sel).auth.install
         /\ Auth \in {None, Staging(Sel).auth}
    /\ Committed => Auth # None /\ Runtime(Sel) # None /\ Sel \in Marker.namespaces

AdoptPlace ==
  At("adopt") =>
    /\ Committed /\ Auth # None /\ Auth.install = Marker.install
    /\ Legacy # None => Auth.install = 0

MigratePlace ==
  /\ At("replay") => Journal # None /\ Staging(Sel) # None
  /\ host.pc \in {"replay", "migrate"} /\ Journal # None => Journal.ns = Sel
  /\ At("migrate") => Staging(Sel) = None

AcknowledgePlace ==
  /\ host.pc \in {"inventory", "acknowledge"} \cup Ending => Migrated
  /\ At("ready") /\ host.awaiting => Migrated
  /\ host.pc \in Ending => host.keyring /\ Journal.phase = "Tombstoning"
  /\ At("acknowledge") /\ host.boot => Journal.phase = "Tombstoning"

ReadyPlace ==
  At("ready") \/ (host.pc \in {"acknowledge"} \cup Ending /\ ~host.boot) => HandedOut

(* A runtime that is admitted, or that is found acknowledged, is not one   *)
(* that may only be cleaned up.                                            *)
AdmittedPlace ==
  \/ At("ready") /\ host.admitted
  \/ At("acknowledge") /\ Journal.phase = "Complete"
  \/ host.pc \in Ending
  => ~Runtime(Sel).only

Flags ==
  /\ host.pc \notin {"ready", "down"} => ~host.admitted
  /\ At("ready") => ~host.boot
  /\ host.pc \in {"scan", "install", "adopt", "replay", "migrate", "inventory"} => host.boot

(* An acknowledged migration has a committed inventory of its own secret.  *)
Inventoried ==
  Journal # None /\ Journal.phase \in {"Tombstoning", "Complete"} => Committed /\ Marker.install = 0

StInv ==
  /\ StTypeOK /\ FallbackIsNew /\ Debt
  /\ InstallPlace /\ AdoptPlace /\ MigratePlace /\ AcknowledgePlace /\ ReadyPlace /\ AdmittedPlace
  /\ Flags /\ Inventoried

-----------------------------------------------------------------------------
(* The records. *)

(* The names of the records are all different. *)
LEMMA NameFacts ==
  /\ <<"legacy", 0>> \in Names /\ <<"auth", 0>> \in Names
  /\ \A n \in Records : <<"runtime", n>> \in Names /\ <<"staging", n>> \in Names
  /\ <<"legacy", 0>> # <<"auth", 0>>
  /\ \A n, m \in Records : /\ <<"runtime", n>> # <<"staging", m>>
                           /\ <<"runtime", n>> = <<"runtime", m>> => n = m
                           /\ <<"staging", n>> = <<"staging", m>> => n = m
                           /\ <<"runtime", n>> \notin {<<"legacy", 0>>, <<"auth", 0>>}
                           /\ <<"staging", n>> \notin {<<"legacy", 0>>, <<"auth", 0>>}
BY DEF Names

(* A write changes one record, and a load then returns what was written,   *)
(* whether the secret store is available or not.                           *)
LEMMA PutStep ==
    ASSUME native \in [Names -> Contents], fallback \in [Names -> Contents], host.keyring \in BOOLEAN,
           NEW name \in Names, NEW v \in Contents, Put(name, v), host'.keyring = host.keyring
    PROVE  /\ native' \in [Names -> Contents] /\ fallback' \in [Names -> Contents]
           /\ \A m \in Names : m # name => native'[m] = native[m] /\ fallback'[m] = fallback[m]
           /\ \A m \in Names : m # name => Get(m)' = Get(m)
           /\ host.keyring => native'[name] = v /\ fallback'[name] = None
           /\ ~host.keyring => native' = native /\ fallback'[name] = v
           /\ Get(name)' = v
<1>1. None \in Contents
  BY DEF Contents
<1>2. CASE host.keyring
  <2>1. /\ native' \in [Names -> Contents] /\ fallback' \in [Names -> Contents]
        /\ \A m \in Names : m # name => native'[m] = native[m] /\ fallback'[m] = fallback[m]
        /\ native'[name] = v /\ fallback'[name] = None
    BY <1>1, <1>2 DEF Put
  <2> QED BY <1>2, <2>1 DEF Get
<1>3. CASE ~host.keyring
  <2>1. /\ native' = native /\ fallback' \in [Names -> Contents]
        /\ \A m \in Names : m # name => fallback'[m] = fallback[m]
        /\ fallback'[name] = v
    BY <1>3 DEF Put
  <2> QED BY <1>3, <2>1 DEF Get
<1> QED BY <1>2, <1>3

(* What the records may hold. *)
LEMMA ValueFacts ==
  /\ None \notin AuthRecords /\ None \notin RuntimeRecords /\ None \notin Transactions
  /\ Import \in RuntimeRecords /\ Import \in RuntimeValues /\ Import # None /\ Import.only /\ Import.debt
  /\ Projection \in Transactions /\ Projection \in StagedValues
  /\ Projection.from # None /\ Projection.auth.install = 0
  /\ ~Projection.from.runtime.only /\ ~Projection.runtime.only
  /\ \A b \in BOOLEAN : /\ Bound(b) \in RuntimeValues /\ Bound(b) # None /\ Bound(b) # Import /\ ~Bound(b).only
                       /\ Empty(b) \in RuntimeValues /\ Empty(b) # None /\ Empty(b) # Import
  /\ ~Empty(FALSE).only
  /\ \A v \in RuntimeValues : v # None => v \in RuntimeRecords /\ ~(v.only /\ v.bound)
  /\ \A v \in StagedValues : v # None => /\ v \in Transactions /\ v.auth \in AuthRecords
                                         /\ v.runtime \in RuntimeRecords
                                         /\ v.from = None => v.auth.install # 0 /\ v.runtime = Empty(FALSE)
                                         /\ v.from # None => v = Projection
  /\ AuthRecords \subseteq Contents /\ RuntimeValues \subseteq Contents /\ StagedValues \subseteq Contents
  /\ None \in Contents /\ None \in RuntimeValues /\ None \in StagedValues
<1>1. None \notin AuthRecords /\ None \notin RuntimeRecords /\ None \notin Transactions /\ None \notin Pairs
  BY StartAssumption
<1>2. Import \in RuntimeRecords /\ Import.only /\ Import.debt /\ ~Import.bound
  BY DEF Import, ImportLegacy, RuntimeRecords
<1>3. /\ Enrolled \in AuthRecords /\ Enrolled.install = 0
      /\ [Enrolled EXCEPT !.rev = 2] \in AuthRecords /\ [Enrolled EXCEPT !.rev = 2].install = 0
  <2>1. 1 \in Records
    BY StartAssumption DEF Records
  <2>2. Enrolled \in AuthRecords /\ Enrolled.install = 0
    BY <2>1 DEF Enrolled, AuthRecords
  <2> QED BY <2>2 DEF AuthRecords
<1>4. \A b \in BOOLEAN : Bound(b) \in RuntimeRecords /\ ~Bound(b).only
  BY DEF Bound, RuntimeRecords
<1>13. \A b \in BOOLEAN : Empty(b) \in RuntimeRecords /\ ~Empty(b).debt /\ ~Empty(b).bound
  BY DEF Empty, RuntimeRecords
<1>5. [auth |-> Enrolled, runtime |-> Bound(TRUE)] \in Pairs
  BY <1>3, <1>4 DEF Pairs
<1>6. /\ Projection \in Transactions /\ Projection.from # None /\ Projection.auth.install = 0
      /\ ~Projection.from.runtime.only /\ ~Projection.runtime.only
  <2>1. /\ Projection.from = [auth |-> Enrolled, runtime |-> Bound(TRUE)]
        /\ Projection.auth = [Enrolled EXCEPT !.rev = 2] /\ Projection.runtime = Bound(FALSE)
        /\ Projection = [from |-> Projection.from, auth |-> Projection.auth, runtime |-> Projection.runtime]
    BY DEF Projection, Transaction
  <2>2. Projection.from \in Pairs /\ Projection.auth \in AuthRecords /\ Projection.runtime \in RuntimeRecords
    BY <1>3, <1>4, <1>5, <2>1
  <2>3. Projection \in Transactions
    BY <2>1, <2>2 DEF Transactions
  <2>4. Projection.from.runtime = Bound(TRUE)
    BY <2>1
  <2> QED BY <1>1, <1>3, <1>4, <2>1, <2>2, <2>3, <2>4
<1> HIDE DEF Projection, Import
<1>7. \A v \in RuntimeValues : v # None => v \in RuntimeRecords /\ ~(v.only /\ v.bound)
  BY DEF RuntimeValues
<1>8. \A v \in StagedValues : v # None => /\ v \in Transactions
                                          /\ \/ v = Projection
                                             \/ /\ v.from = None /\ v.auth.install # 0
                                                /\ v.runtime = Empty(FALSE)
  BY DEF StagedValues
<1>9. \A v \in Transactions : v.auth \in AuthRecords /\ v.runtime \in RuntimeRecords
  BY DEF Transactions
<1>10. Import \in RuntimeValues /\ Projection \in StagedValues
  BY <1>2, <1>6 DEF RuntimeValues, StagedValues
<1>11. Import # None
  BY <1>1, <1>2
<1>12. /\ AuthRecords \subseteq Contents /\ RuntimeValues \subseteq Contents /\ StagedValues \subseteq Contents
       /\ None \in Contents /\ None \in RuntimeValues /\ None \in StagedValues
  BY DEF Contents, RuntimeValues, StagedValues
<1>14. \A b \in BOOLEAN : /\ Bound(b) \in RuntimeValues /\ Bound(b) # None /\ Bound(b) # Import /\ ~Bound(b).only
                          /\ Empty(b) \in RuntimeValues /\ Empty(b) # None /\ Empty(b) # Import
  BY <1>1, <1>2, <1>4, <1>13 DEF RuntimeValues
<1>15. ~Empty(FALSE).only
  BY DEF Empty
<1> QED BY <1>15, <1>1, <1>2, <1>6, <1>7, <1>8, <1>9, <1>10, <1>11, <1>12, <1>14

(* What a load returns. *)
LEMMA Loads ==
    ASSUME StTypeOK
    PROVE  /\ native \in [Names -> Contents] /\ fallback \in [Names -> Contents]
           /\ host \in Hosts /\ host.keyring \in BOOLEAN /\ Sel \in Records
           /\ Legacy \in {None, "full", "bare"} /\ Auth \in AuthRecords \cup {None}
           /\ \A n \in Records : Runtime(n) \in RuntimeValues /\ Staging(n) \in StagedValues
           /\ Journal \in Journals \cup {None} /\ Marker \in Markers \cup {None}
<1>1. native \in [Names -> Contents] /\ fallback \in [Names -> Contents] /\ host \in Hosts
  BY DEF StTypeOK, Store
<1>2. host.keyring \in BOOLEAN /\ Sel \in Records
  BY <1>1 DEF Hosts, Sel
<1>3. Legacy \in {None, "full", "bare"} /\ Auth \in AuthRecords \cup {None}
  BY DEF StTypeOK, Store, Legacy, Auth, Get
<1>4. \A n \in Records : Runtime(n) \in RuntimeValues /\ Staging(n) \in StagedValues
  BY DEF StTypeOK, Store, Runtime, Staging, Get
<1>5. Journal \in Journals \cup {None} /\ Marker \in Markers \cup {None}
  BY DEF StTypeOK, Journal, Marker
<1> QED BY <1>1, <1>2, <1>3, <1>4, <1>5

(* What is the old version's was loaded from the secret store. *)
LEMMA LoadsFrom ==
    ASSUME StTypeOK, FallbackIsNew
    PROVE  /\ Legacy # None => host.keyring
           /\ host.keyring => Legacy = native[<<"legacy", 0>>]
           /\ Auth # None /\ Auth.install = 0 => host.keyring
           /\ \A n \in Records :
                /\ Staging(n) # None /\ Staging(n).from # None => host.keyring /\ Staging(n) = Projection
                /\ Runtime(n) = Import => host.keyring /\ native[<<"runtime", n>>] = Import
                /\ host.keyring /\ native[<<"runtime", n>>] = Import => Runtime(n) = Import
                /\ host.keyring /\ Runtime(n) = None => native[<<"runtime", n>>] = None
<1>1. /\ Legacy # None => host.keyring
      /\ host.keyring => Legacy = native[<<"legacy", 0>>]
  BY DEF FallbackIsNew, Legacy, Get
<1>2. Auth # None /\ Auth.install = 0 => host.keyring
  BY DEF FallbackIsNew, Auth, Get
<1>3. ASSUME NEW n \in Records
      PROVE  /\ Staging(n) # None /\ Staging(n).from # None => host.keyring
             /\ Runtime(n) = Import => host.keyring /\ native[<<"runtime", n>>] = Import
             /\ host.keyring /\ native[<<"runtime", n>>] = Import => Runtime(n) = Import
             /\ host.keyring /\ Runtime(n) = None => native[<<"runtime", n>>] = None
  BY ValueFacts DEF FallbackIsNew, Staging, Runtime, Get
<1>4. \A n \in Records : Staging(n) # None /\ Staging(n).from # None => Staging(n) = Projection
  BY Loads, ValueFacts
<1> QED BY <1>1, <1>2, <1>3, <1>4

(* A step that writes no record changes nothing that a load returns. *)
LEMMA SameLoads ==
    ASSUME SameRecords, host'.keyring = host.keyring
    PROVE  /\ Legacy' = Legacy /\ Auth' = Auth
           /\ \A n : Runtime(n)' = Runtime(n) /\ Staging(n)' = Staging(n)
BY DEF SameRecords, Legacy, Auth, Runtime, Staging, Get

(* A write of "auth-v1". *)
LEMMA PutAuth ==
    ASSUME StTypeOK, FallbackIsNew, NEW v \in AuthRecords, Put(<<"auth", 0>>, v),
           host'.keyring = host.keyring, host.keyring \/ v.install # 0
    PROVE  /\ Store(native)' /\ Store(fallback)' /\ FallbackIsNew'
           /\ Auth' = v /\ Legacy' = Legacy
           /\ \A n \in Records : Runtime(n)' = Runtime(n) /\ Staging(n)' = Staging(n)
           /\ native'[<<"legacy", 0>>] = native[<<"legacy", 0>>]
           /\ \A n \in Records : native'[<<"runtime", n>>] = native[<<"runtime", n>>]
<1>1. v \in Contents /\ <<"auth", 0>> \in Names
  BY ValueFacts, NameFacts
<1>2. /\ native' \in [Names -> Contents] /\ fallback' \in [Names -> Contents]
      /\ \A m \in Names : m # <<"auth", 0>> => native'[m] = native[m] /\ fallback'[m] = fallback[m]
      /\ \A m \in Names : m # <<"auth", 0>> => Get(m)' = Get(m)
      /\ host.keyring => native'[<<"auth", 0>>] = v /\ fallback'[<<"auth", 0>>] = None
      /\ ~host.keyring => native' = native /\ fallback'[<<"auth", 0>>] = v
      /\ Get(<<"auth", 0>>)' = v
  BY <1>1, Loads, PutStep
<1>3. \A n \in Records : /\ native'[<<"runtime", n>>] = native[<<"runtime", n>>]
                         /\ native'[<<"staging", n>>] = native[<<"staging", n>>]
                         /\ fallback'[<<"runtime", n>>] = fallback[<<"runtime", n>>]
                         /\ fallback'[<<"staging", n>>] = fallback[<<"staging", n>>]
                         /\ Runtime(n)' = Runtime(n) /\ Staging(n)' = Staging(n)
  BY <1>2, NameFacts DEF Runtime, Staging
<1>4. /\ native'[<<"legacy", 0>>] = native[<<"legacy", 0>>] /\ Legacy' = Legacy
      /\ fallback'[<<"legacy", 0>>] = fallback[<<"legacy", 0>>]
  BY <1>2, NameFacts DEF Legacy
<1>5. Store(native)' /\ Store(fallback)'
  BY <1>2, <1>3, <1>4 DEF StTypeOK, Store
<1>6. FallbackIsNew'
  BY <1>2, <1>3, <1>4 DEF FallbackIsNew
<1> QED BY <1>2, <1>3, <1>4, <1>5, <1>6 DEF Auth

(* A write of a runtime's record. *)
LEMMA PutRuntime ==
    ASSUME StTypeOK, FallbackIsNew, NEW n \in Records, NEW v \in RuntimeValues,
           Put(<<"runtime", n>>, v), host'.keyring = host.keyring, host.keyring \/ v # Import
    PROVE  /\ Store(native)' /\ Store(fallback)' /\ FallbackIsNew'
           /\ Runtime(n)' = v /\ Legacy' = Legacy /\ Auth' = Auth
           /\ \A m \in Records : Staging(m)' = Staging(m)
           /\ native'[<<"legacy", 0>>] = native[<<"legacy", 0>>]
           /\ \A m \in Records : m # n \/ ~host.keyring => native'[<<"runtime", m>>] = native[<<"runtime", m>>]
           /\ host.keyring => native'[<<"runtime", n>>] = v
<1>1. v \in Contents /\ <<"runtime", n>> \in Names
  BY ValueFacts, NameFacts
<1>2. /\ native' \in [Names -> Contents] /\ fallback' \in [Names -> Contents]
      /\ \A m \in Names : m # <<"runtime", n>> => native'[m] = native[m] /\ fallback'[m] = fallback[m]
      /\ \A m \in Names : m # <<"runtime", n>> => Get(m)' = Get(m)
      /\ host.keyring => native'[<<"runtime", n>>] = v /\ fallback'[<<"runtime", n>>] = None
      /\ ~host.keyring => native' = native /\ fallback'[<<"runtime", n>>] = v
      /\ Get(<<"runtime", n>>)' = v
  BY <1>1, Loads, PutStep
<1>3. \A m \in Records : /\ native'[<<"staging", m>>] = native[<<"staging", m>>]
                         /\ fallback'[<<"staging", m>>] = fallback[<<"staging", m>>]
                         /\ Staging(m)' = Staging(m)
  BY <1>2, NameFacts DEF Staging
<1>4. \A m \in Records : m # n => /\ native'[<<"runtime", m>>] = native[<<"runtime", m>>]
                                  /\ fallback'[<<"runtime", m>>] = fallback[<<"runtime", m>>]
  BY <1>2, NameFacts
<1>5. /\ native'[<<"legacy", 0>>] = native[<<"legacy", 0>>] /\ Legacy' = Legacy
      /\ fallback'[<<"legacy", 0>>] = fallback[<<"legacy", 0>>]
      /\ native'[<<"auth", 0>>] = native[<<"auth", 0>>] /\ Auth' = Auth
      /\ fallback'[<<"auth", 0>>] = fallback[<<"auth", 0>>]
  BY <1>2, NameFacts DEF Legacy, Auth
<1>6. native'[<<"runtime", n>>] \in {v, native[<<"runtime", n>>]} /\ fallback'[<<"runtime", n>>] \in {None, v}
  BY <1>2, Loads
<1>7. Store(native)' /\ Store(fallback)'
  BY <1>2, <1>3, <1>4, <1>5, <1>6, ValueFacts DEF StTypeOK, Store
<1>8. FallbackIsNew'
  BY <1>2, <1>3, <1>4, <1>5, ValueFacts, Loads DEF FallbackIsNew
<1> QED BY <1>2, <1>3, <1>4, <1>5, <1>7, <1>8 DEF Runtime

(* A write or a removal of a staged transaction. *)
LEMMA PutStaging ==
    ASSUME StTypeOK, FallbackIsNew, NEW n \in Records, NEW v \in StagedValues,
           Put(<<"staging", n>>, v), host'.keyring = host.keyring, v = None \/ v.from = None
    PROVE  /\ Store(native)' /\ Store(fallback)' /\ FallbackIsNew'
           /\ Staging(n)' = v /\ Legacy' = Legacy /\ Auth' = Auth
           /\ \A m \in Records : Runtime(m)' = Runtime(m)
           /\ native'[<<"legacy", 0>>] = native[<<"legacy", 0>>]
           /\ \A m \in Records : native'[<<"runtime", m>>] = native[<<"runtime", m>>]
<1>1. v \in Contents /\ <<"staging", n>> \in Names
  BY ValueFacts, NameFacts
<1>2. /\ native' \in [Names -> Contents] /\ fallback' \in [Names -> Contents]
      /\ \A m \in Names : m # <<"staging", n>> => native'[m] = native[m] /\ fallback'[m] = fallback[m]
      /\ \A m \in Names : m # <<"staging", n>> => Get(m)' = Get(m)
      /\ host.keyring => native'[<<"staging", n>>] = v /\ fallback'[<<"staging", n>>] = None
      /\ ~host.keyring => native' = native /\ fallback'[<<"staging", n>>] = v
      /\ Get(<<"staging", n>>)' = v
  BY <1>1, Loads, PutStep
<1>3. \A m \in Records : /\ native'[<<"runtime", m>>] = native[<<"runtime", m>>]
                         /\ fallback'[<<"runtime", m>>] = fallback[<<"runtime", m>>]
                         /\ Runtime(m)' = Runtime(m)
  BY <1>2, NameFacts DEF Runtime
<1>4. \A m \in Records : m # n => /\ native'[<<"staging", m>>] = native[<<"staging", m>>]
                                  /\ fallback'[<<"staging", m>>] = fallback[<<"staging", m>>]
  BY <1>2, NameFacts
<1>5. /\ native'[<<"legacy", 0>>] = native[<<"legacy", 0>>] /\ Legacy' = Legacy
      /\ fallback'[<<"legacy", 0>>] = fallback[<<"legacy", 0>>]
      /\ native'[<<"auth", 0>>] = native[<<"auth", 0>>] /\ Auth' = Auth
      /\ fallback'[<<"auth", 0>>] = fallback[<<"auth", 0>>]
  BY <1>2, NameFacts DEF Legacy, Auth
<1>6. native'[<<"staging", n>>] \in {v, native[<<"staging", n>>]} /\ fallback'[<<"staging", n>>] \in {None, v}
  BY <1>2, Loads
<1>7. Store(native)' /\ Store(fallback)'
  BY <1>2, <1>3, <1>4, <1>5, <1>6, ValueFacts DEF StTypeOK, Store
<1>8. FallbackIsNew'
  BY <1>3, <1>4, <1>5, <1>6 DEF FallbackIsNew
<1> QED BY <1>2, <1>3, <1>5, <1>7, <1>8 DEF Staging

-----------------------------------------------------------------------------
(* The process and the plain files. *)

(* A step to another place. *)
LEMMA GoStep ==
    ASSUME StTypeOK, NEW pc \in HostSteps, Go(pc)
    PROVE  /\ host' \in Hosts /\ host'.sel \in {0, host'.c} /\ host'.pc = pc
           /\ host'.sel = host.sel /\ Sel' = Sel /\ host'.keyring = host.keyring /\ host'.boot = host.boot
           /\ host'.awaiting = host.awaiting /\ host'.admitted = host.admitted
BY DEF StTypeOK, Hosts, Go, Sel

(* The records are handed out. *)
LEMMA HandOutStep ==
    ASSUME StTypeOK, NEW awaiting \in BOOLEAN, HandOut(awaiting)
    PROVE  /\ host' \in Hosts /\ host'.sel \in {0, host'.c} /\ host'.pc = "ready"
           /\ host'.sel = host.sel /\ Sel' = Sel /\ host'.keyring = host.keyring /\ ~host'.boot
           /\ host'.awaiting = awaiting /\ host'.admitted = host.admitted
<1> DEFINE transition == Runtime(Sel) # None /\ Runtime(Sel).only
<1>1. transition \in BOOLEAN
  BY Loads, ValueFacts DEF RuntimeRecords
<1>2. host' = [host EXCEPT !.pc = "ready", !.boot = FALSE, !.awaiting = awaiting, !.transition = transition]
  BY DEF HandOut
<1> HIDE DEF transition
<1> QED BY <1>1, <1>2 DEF StTypeOK, Hosts, HostSteps, Sel

(* What is in the plain files. *)
LEMMA DiskStep ==
    ASSUME StTypeOK
    PROVE  /\ \A j \in Journals : disk' = [disk EXCEPT !.journal = j] =>
                /\ disk' \in [split : BOOLEAN, journal : Journals \cup {None}, marker : Markers \cup {None}]
                /\ Journal' = j /\ Marker' = Marker /\ disk'.split = disk.split
           /\ \A m \in Markers : disk' = [disk EXCEPT !.marker = m] =>
                /\ disk' \in [split : BOOLEAN, journal : Journals \cup {None}, marker : Markers \cup {None}]
                /\ Journal' = Journal /\ Marker' = m /\ disk'.split = disk.split
           /\ disk' = disk => Journal' = Journal /\ Marker' = Marker
BY DEF StTypeOK, Journal, Marker

-----------------------------------------------------------------------------
(* Steps that write nothing. *)

LEMMA QuietStep ==
    ASSUME StInv, SameRecords, UNCHANGED <<disk, owed>>,
           host' \in Hosts, host'.sel \in {0, host'.c}, host'.pc \in Ending => host.pc \in Ending
    PROVE  /\ StTypeOK' /\ FallbackIsNew' /\ Debt' /\ Inventoried'
           /\ Journal' = Journal /\ Marker' = Marker /\ Committed' = Committed
<1>1. StTypeOK'
  BY DEF StInv, StTypeOK, SameRecords, Store
<1>2. FallbackIsNew'
  BY DEF StInv, FallbackIsNew, SameRecords
<1>3. Journal' = Journal /\ Marker' = Marker
  BY DEF Journal, Marker
<1>4. Debt'
  BY <1>3 DEF StInv, Debt, SameRecords, Imported
<1>5. Inventoried' /\ Committed' = Committed
  BY <1>3 DEF StInv, Inventoried, Committed
<1> QED BY <1>1, <1>2, <1>3, <1>4, <1>5

(* The scan. *)
LEMMA SelIsKnown == ASSUME StTypeOK PROVE Sel \in Known
BY DEF StTypeOK, Known, Manifest, Sel

LEMMA ScanInv == ASSUME StInv, Scan PROVE StInv'
<1>1. Direction \in {"failed", "migrate", "replay", "adopt", "install"}
  BY DEF Direction
<1>2. At("scan") /\ Go(Direction) /\ SameRecords /\ UNCHANGED <<disk, owed>> /\ StTypeOK
  BY DEF Scan, Quiet, StInv
<1>3. Direction \in HostSteps
  BY <1>1 DEF HostSteps
<1>4. /\ host' \in Hosts /\ host'.sel \in {0, host'.c} /\ host'.pc = Direction
      /\ Sel' = Sel /\ host'.keyring = host.keyring /\ host'.boot = host.boot
      /\ host'.admitted = host.admitted
  BY <1>2, <1>3, GoStep
<1>5. Direction \notin Ending
  BY <1>1 DEF Ending
<1>6. /\ StTypeOK' /\ FallbackIsNew' /\ Debt' /\ Inventoried'
      /\ Journal' = Journal /\ Marker' = Marker /\ Committed' = Committed
  BY <1>2, <1>4, <1>5, QuietStep
<1>7. /\ Legacy' = Legacy /\ Auth' = Auth
      /\ Runtime(Sel)' = Runtime(Sel) /\ Staging(Sel)' = Staging(Sel)
  BY <1>2, <1>4, SameLoads
<1>8. Sel \in Known /\ Sel \in Records
  BY <1>2, Loads, SelIsKnown
<1>9. Legacy # None /\ ~Migrates => Committed /\ Marker.install = 0
  BY DEF Migrates, MigrationComplete, StInv, Inventoried
<1>10. InstallPlace'
  <2> SUFFICES ASSUME Direction = "install"
               PROVE  /\ Legacy = None
                      /\ Marker # None \/ Auth # None \/ Runtime(Sel) # None => Staging(Sel) # None
                      /\ Staging(Sel) # None =>
                           /\ Staging(Sel).from = None
                           /\ Marker # None => Marker.install = Staging(Sel).auth.install
                           /\ Auth \in {None, Staging(Sel).auth}
                      /\ ~Committed
    BY <1>4, <1>6, <1>7 DEF InstallPlace, At
  <2>1. InstallAllowed /\ ~Migrates /\ ~Committed
    BY DEF Direction
  <2>2. CASE Pending = {} /\ Marker = None /\ Auth = None /\ Occupied = {}
    BY <1>8, <1>9, <2>1, <2>2 DEF Pending, Occupied
  <2>3. CASE Pending = {Sel}
    <3>1. Staging(Sel) # None
      BY <2>3 DEF Pending
    <3> QED BY <1>9, <2>1, <2>3, <3>1 DEF InstallAllowed
  <2> QED BY <2>1, <2>2, <2>3 DEF InstallAllowed
<1>11. AdoptPlace'
  <2> SUFFICES ASSUME Direction = "adopt"
               PROVE  /\ Committed /\ Auth # None /\ Auth.install = Marker.install
                      /\ Legacy # None => Auth.install = 0
    BY <1>4, <1>6, <1>7 DEF AdoptPlace, At
  <2> QED BY <1>9 DEF Direction, AdoptionAllowed
<1>12. MigratePlace'
  <2> SUFFICES ASSUME Direction \in {"replay", "migrate"}
               PROVE  /\ Direction = "replay" => Journal # None /\ Staging(Sel) # None
                      /\ Journal # None => Journal.ns = Sel
                      /\ Direction = "migrate" => Staging(Sel) = None
    BY <1>4, <1>6, <1>7 DEF MigratePlace, At
  <2>1. MigrationAllowed /\ (Direction = "migrate" <=> Pending = {})
    BY DEF Direction
  <2> QED BY <1>8, <2>1 DEF MigrationAllowed, Pending
<1>13. AcknowledgePlace' /\ ReadyPlace' /\ AdmittedPlace'
  BY <1>1, <1>4 DEF AcknowledgePlace, ReadyPlace, AdmittedPlace, At, Ending
<1>14. host.boot /\ ~host.admitted => Flags'
  BY <1>1, <1>4 DEF Flags, At
<1>15. ~host.admitted
  BY <1>2 DEF StInv, Flags, At
<1>16. host.boot
  BY <1>2 DEF StInv, Flags, At
<1> QED BY <1>6, <1>10, <1>11, <1>12, <1>13, <1>14, <1>15, <1>16 DEF StInv

(* The process ends, or a start is given up. *)
LEMMA StopInv ==
    ASSUME StInv, SameRecords, UNCHANGED <<disk, owed>>,
           host' \in Hosts, host'.sel \in {0, host'.c}, host'.pc \in {"down", "failed"},
           host'.pc = "failed" => ~host'.admitted
    PROVE  StInv'
<1>1. host'.pc \notin Ending
  BY DEF Ending
<1>2. StTypeOK' /\ FallbackIsNew' /\ Debt' /\ Inventoried'
  BY <1>1, QuietStep
<1>3. InstallPlace' /\ AdoptPlace' /\ MigratePlace' /\ AcknowledgePlace' /\ ReadyPlace' /\ AdmittedPlace'
  BY <1>1 DEF InstallPlace, AdoptPlace, MigratePlace, AcknowledgePlace, ReadyPlace, AdmittedPlace, At
<1>4. Flags'
  BY DEF Flags, At
<1> QED BY <1>2, <1>3, <1>4 DEF StInv

(* A step that cannot go on: a start fails, an acknowledgement returns. *)
LEMMA GiveUpInv ==
    ASSUME StInv, SameRecords, UNCHANGED <<disk, owed>>, host' \in Hosts, host'.sel \in {0, host'.c},
           host.pc \in {"install", "adopt", "replay", "migrate", "inventory", "acknowledge"} \cup Ending,
           host'.pc = Failure, Sel' = Sel, host'.keyring = host.keyring, host'.boot = host.boot,
           host'.awaiting = host.awaiting, host'.admitted = host.admitted
    PROVE  StInv'
<1>1. ~host.admitted
  BY DEF StInv, Flags, Ending
<1>2. CASE host.boot
  <2>1. host'.pc = "failed"
    BY <1>2 DEF Failure
  <2> QED BY <1>1, <2>1, StopInv
<1>3. CASE ~host.boot
  <2>1. host'.pc = "ready" /\ host.pc \in {"acknowledge"} \cup Ending
    BY <1>3 DEF Failure, StInv, Flags
  <2>2. host'.pc \notin Ending
    BY <2>1 DEF Ending
  <2>3. /\ StTypeOK' /\ FallbackIsNew' /\ Debt' /\ Inventoried'
        /\ Journal' = Journal /\ Marker' = Marker /\ Committed' = Committed
    BY <2>2, QuietStep
  <2>4. /\ Legacy' = Legacy /\ Auth' = Auth
        /\ Runtime(Sel)' = Runtime(Sel) /\ Staging(Sel)' = Staging(Sel)
    BY SameLoads
  <2>5. HandedOut /\ Migrated
    BY <1>3, <2>1 DEF StInv, ReadyPlace, AcknowledgePlace
  <2>6. HandedOut' /\ Migrated'
    BY <2>3, <2>4, <2>5 DEF HandedOut, Migrated
  <2>7. InstallPlace' /\ AdoptPlace' /\ MigratePlace' /\ AcknowledgePlace' /\ ReadyPlace' /\ AdmittedPlace'
    BY <1>1, <2>1, <2>2, <2>6
    DEF InstallPlace, AdoptPlace, MigratePlace, AcknowledgePlace, ReadyPlace, AdmittedPlace, At
  <2>8. Flags'
    BY <1>3, <2>1 DEF Flags, At
  <2> QED BY <2>3, <2>7, <2>8 DEF StInv
<1> QED BY <1>2, <1>3 DEF StInv, StTypeOK, Hosts

LEMMA RefuseInv == ASSUME StInv, Refuse PROVE StInv'
<1>1. host.pc \in {"replay", "migrate", "inventory", "acknowledge"}
  BY DEF Refuse, Unfit, At
<1>2. Failure \in HostSteps
  BY DEF Failure, HostSteps
<1>3. Go(Failure) /\ SameRecords /\ UNCHANGED <<disk, owed>> /\ StTypeOK
  BY DEF Refuse, Quiet, StInv
<1> QED BY <1>1, <1>2, <1>3, GoStep, GiveUpInv

LEMMA WriteFailsInv == ASSUME StInv, WriteFails PROVE StInv'
<1>1. /\ host.pc \in {"install", "adopt", "replay", "migrate", "inventory", "acknowledge"} \cup Ending
      /\ host' = [host EXCEPT !.pc = Failure, !.io = host.boot]
      /\ SameRecords /\ UNCHANGED <<disk, owed>> /\ StTypeOK
  BY DEF WriteFails, Ending, StInv
<1>2. Failure \in HostSteps
  BY DEF Failure, HostSteps
<1>3. /\ host' \in Hosts /\ host'.sel \in {0, host'.c} /\ host'.pc = Failure /\ Sel' = Sel
      /\ host'.keyring = host.keyring /\ host'.boot = host.boot
      /\ host'.awaiting = host.awaiting /\ host'.admitted = host.admitted
  BY <1>1, <1>2 DEF StTypeOK, Hosts, Sel
<1> QED BY <1>1, <1>3, GiveUpInv

LEMMA CrashInv == ASSUME StInv, Crash PROVE StInv'
<1>1. Go("down") /\ "down" \in HostSteps /\ SameRecords /\ UNCHANGED <<disk, owed>> /\ StTypeOK
  BY DEF Crash, HostSteps, StInv
<1>2. host' \in Hosts /\ host'.sel \in {0, host'.c} /\ host'.pc = "down"
  BY <1>1, GoStep
<1> QED BY <1>1, <1>2, StopInv

LEMMA SelectInv == ASSUME StInv, Select PROVE StInv'
<1>1. PICK n \in Manifest : host' = [host EXCEPT !.pc = "down", !.sel = n]
  BY DEF Select
<1>2. SameRecords /\ UNCHANGED <<disk, owed>> /\ StTypeOK
  BY DEF Select, Live, StInv
<1>3. n \in {0, host.c} /\ host.c \in 1 .. Containers /\ Containers \in Nat
  BY <1>2, StartAssumption DEF Manifest, StTypeOK, Hosts
<1>4. n \in Records
  BY <1>3 DEF Records
<1>5. host' \in Hosts /\ host'.sel \in {0, host'.c} /\ host'.pc = "down"
  BY <1>1, <1>2, <1>3, <1>4 DEF StTypeOK, Hosts, HostSteps
<1> QED BY <1>2, <1>5, StopInv

LEMMA UpdateInv == ASSUME StInv, Update PROVE StInv'
<1>1. /\ host' = [host EXCEPT !.pc = "down", !.c = @ + 1, !.sel = host.c + 1] /\ host.c < Containers
      /\ SameRecords /\ UNCHANGED <<disk, owed>> /\ StTypeOK /\ host \in Hosts
  BY DEF Update, StInv, StTypeOK
<1>2. host.c + 1 \in 1 .. Containers /\ host.c + 1 \in Records
  BY <1>1, StartAssumption DEF Hosts, Records
<1>3. host' \in Hosts /\ host'.sel \in {0, host'.c} /\ host'.pc = "down"
  BY <1>1, <1>2 DEF Hosts, HostSteps
<1> QED BY <1>1, <1>3, StopInv

(* A migration that is known to be verified, or acknowledged in part. *)
LEMMA MigrateKnownInv == ASSUME StInv, MigrateKnown PROVE StInv'
<1>1. PICK pc \in {"inventory", "acknowledge"} :
        /\ Go(pc) /\ SameRecords /\ UNCHANGED <<disk, owed>>
        /\ MigrateAt(IF pc = "inventory" THEN "Verified" ELSE "Tombstoning")
  BY DEF MigrateKnown, Quiet
<1>2. pc \in HostSteps /\ pc \notin Ending /\ StTypeOK
  BY DEF HostSteps, Ending, StInv
<1>3. /\ host' \in Hosts /\ host'.sel \in {0, host'.c} /\ host'.pc = pc
      /\ Sel' = Sel /\ host'.keyring = host.keyring /\ host'.boot = host.boot
      /\ host'.admitted = host.admitted
  BY <1>1, <1>2, GoStep
<1>4. /\ StTypeOK' /\ FallbackIsNew' /\ Debt' /\ Inventoried'
      /\ Journal' = Journal /\ Marker' = Marker /\ Committed' = Committed
  BY <1>1, <1>2, <1>3, QuietStep
<1>5. /\ Legacy' = Legacy /\ Auth' = Auth
      /\ Runtime(Sel)' = Runtime(Sel) /\ Staging(Sel)' = Staging(Sel)
  BY <1>1, <1>3, SameLoads
<1>6. /\ At("migrate") /\ Migratable /\ Journal # None
      /\ Journal.phase = IF pc = "inventory" THEN "Verified" ELSE "Tombstoning"
  BY <1>1 DEF MigrateAt
<1>7. Paired
  BY <1>6 DEF Migratable, Early
<1>8. Journal.ns = Sel /\ Staging(Sel) = None /\ host.boot /\ ~host.admitted
  BY <1>6 DEF StInv, MigratePlace, Flags, At
<1>9. Migrated'
  BY <1>3, <1>4, <1>5, <1>6, <1>7, <1>8 DEF Paired, Migrated, Late
<1>10. InstallPlace' /\ AdoptPlace' /\ MigratePlace' /\ AcknowledgePlace' /\ ReadyPlace' /\ AdmittedPlace'
  BY <1>2, <1>3, <1>4, <1>6, <1>8, <1>9
  DEF InstallPlace, AdoptPlace, MigratePlace, AcknowledgePlace, ReadyPlace, AdmittedPlace, At
<1>11. Flags'
  BY <1>3, <1>8 DEF Flags, At
<1> QED BY <1>4, <1>10, <1>11 DEF StInv

(* RuntimeReady is called, and finds the migration complete or not. *)
LEMMA RuntimeReadyInv == ASSUME StInv, RuntimeReady PROVE StInv'
<1>1. /\ At("ready") /\ Runtime(Sel).bound /\ SameRecords /\ UNCHANGED <<disk, owed>> /\ StTypeOK
      /\ ~host.admitted
      /\ host' = IF host.awaiting THEN [host EXCEPT !.pc = "acknowledge"] ELSE [host EXCEPT !.admitted = TRUE]
  BY DEF RuntimeReady, Live, Quiet, StInv
<1>2. /\ host' \in Hosts /\ host'.sel \in {0, host'.c}
      /\ Sel' = Sel /\ host'.keyring = host.keyring /\ host'.boot = host.boot
      /\ host'.awaiting = host.awaiting
      /\ host.awaiting => host'.pc = "acknowledge" /\ ~host'.admitted
      /\ ~host.awaiting => host'.pc = "ready"
  BY <1>1 DEF StTypeOK, Hosts, HostSteps, At, Sel
<1>3. host'.pc \in {"acknowledge", "ready"} /\ host'.pc \notin Ending
  BY <1>1, <1>2 DEF StTypeOK, Hosts, Ending
<1>4. /\ StTypeOK' /\ FallbackIsNew' /\ Debt' /\ Inventoried'
      /\ Journal' = Journal /\ Marker' = Marker /\ Committed' = Committed
  BY <1>1, <1>2, <1>3, QuietStep
<1>5. /\ Legacy' = Legacy /\ Auth' = Auth
      /\ Runtime(Sel)' = Runtime(Sel) /\ Staging(Sel)' = Staging(Sel)
  BY <1>1, <1>2, SameLoads
<1>6. HandedOut /\ ~host.boot /\ (host.awaiting => Migrated)
  BY <1>1 DEF StInv, ReadyPlace, AcknowledgePlace, Flags
<1>7. ~Runtime(Sel).only
  BY <1>1, <1>6, Loads, ValueFacts DEF HandedOut
<1>8. HandedOut' /\ (host.awaiting => Migrated') /\ ~Runtime(Sel)'.only
  BY <1>2, <1>4, <1>5, <1>6, <1>7 DEF HandedOut, Migrated
<1>9. InstallPlace' /\ AdoptPlace' /\ MigratePlace' /\ AcknowledgePlace' /\ ReadyPlace' /\ AdmittedPlace'
  BY <1>2, <1>3, <1>6, <1>8
  DEF InstallPlace, AdoptPlace, MigratePlace, AcknowledgePlace, ReadyPlace, AdmittedPlace, At
<1>10. Flags'
  BY <1>2, <1>3, <1>6 DEF Flags, At
<1> QED BY <1>4, <1>9, <1>10 DEF StInv

LEMMA AlreadyCompleteInv == ASSUME StInv, AlreadyComplete PROVE StInv'
<1>1. /\ At("acknowledge") /\ Journal.phase = "Complete" /\ SameRecords /\ UNCHANGED <<disk, owed>>
      /\ StTypeOK /\ host' = [host EXCEPT !.pc = "ready", !.admitted = TRUE]
  BY DEF AlreadyComplete, Quiet, StInv
<1>2. /\ host' \in Hosts /\ host'.sel \in {0, host'.c} /\ host'.pc = "ready"
      /\ Sel' = Sel /\ host'.keyring = host.keyring /\ host'.boot = host.boot
  BY <1>1 DEF StTypeOK, Hosts, HostSteps, Sel
<1>3. host'.pc \notin Ending
  BY <1>2 DEF Ending
<1>4. /\ StTypeOK' /\ FallbackIsNew' /\ Debt' /\ Inventoried'
      /\ Journal' = Journal /\ Marker' = Marker /\ Committed' = Committed
  BY <1>1, <1>2, <1>3, QuietStep
<1>5. /\ Legacy' = Legacy /\ Auth' = Auth
      /\ Runtime(Sel)' = Runtime(Sel) /\ Staging(Sel)' = Staging(Sel)
  BY <1>1, <1>2, SameLoads
<1>6. Migrated /\ ~host.boot /\ HandedOut /\ ~Runtime(Sel).only
  BY <1>1 DEF StInv, AcknowledgePlace, ReadyPlace, AdmittedPlace, At
<1>7. Migrated' /\ HandedOut' /\ ~Runtime(Sel)'.only
  BY <1>2, <1>4, <1>5, <1>6 DEF HandedOut, Migrated
<1>8. InstallPlace' /\ AdoptPlace' /\ MigratePlace' /\ AcknowledgePlace' /\ ReadyPlace' /\ AdmittedPlace'
  BY <1>2, <1>3, <1>7
  DEF InstallPlace, AdoptPlace, MigratePlace, AcknowledgePlace, ReadyPlace, AdmittedPlace, At
<1>9. Flags'
  BY <1>2, <1>6 DEF Flags, At
<1> QED BY <1>4, <1>8, <1>9 DEF StInv

-----------------------------------------------------------------------------
(* Steps that write the journal. *)

LEMMA JournalStep ==
    ASSUME StInv, NEW j \in Journals, WriteJournal(j),
           host' \in Hosts, host'.sel \in {0, host'.c}, host'.keyring = host.keyring
    PROVE  /\ StTypeOK' /\ FallbackIsNew' /\ owed' = owed /\ native' = native
           /\ Journal' = j /\ Marker' = Marker /\ Committed' = Committed
           /\ Legacy' = Legacy /\ Auth' = Auth
           /\ \A n : Runtime(n)' = Runtime(n) /\ Staging(n)' = Staging(n)
<1>1. SameRecords /\ owed' = owed /\ disk' = [disk EXCEPT !.journal = j] /\ StTypeOK
  BY DEF WriteJournal, Quiet, StInv
<1>2. /\ disk' \in [split : BOOLEAN, journal : Journals \cup {None}, marker : Markers \cup {None}]
      /\ Journal' = j /\ Marker' = Marker
  BY <1>1, DiskStep
<1>3. StTypeOK'
  BY <1>1, <1>2 DEF StTypeOK, SameRecords, Store
<1>4. FallbackIsNew' /\ native' = native
  BY <1>1 DEF StInv, FallbackIsNew, SameRecords
<1>5. Committed' = Committed
  BY <1>2 DEF Committed
<1> QED BY <1>1, <1>2, <1>3, <1>4, <1>5, SameLoads

(* The journal stays a journal. *)
LEMMA JournalFields ==
    ASSUME NEW j \in Journals
    PROVE  /\ \A phase \in Early \cup Late :
                LET k == [j EXCEPT !.phase = phase]
                IN k \in Journals /\ k.phase = phase /\ k.ns = j.ns
           /\ \A t \in Transactions :
                LET k == [j EXCEPT !.pending = t]
                IN k \in Journals /\ k.phase = j.phase /\ k.ns = j.ns
           /\ \A t \in Transactions :
                LET k == [j EXCEPT !.pending = None, !.last = t]
                IN k \in Journals /\ k.phase = j.phase /\ k.ns = j.ns
           /\ j # None
<1>1. j # None
  BY StartAssumption
<1> QED BY <1>1 DEF Journals

LEMMA ReplayJournalInv == ASSUME StInv, ReplayIntent \/ ReplayDone PROVE StInv'
<1>1. At("replay") /\ UNCHANGED host /\ StTypeOK
  BY DEF ReplayIntent, ReplayDone, StInv
<1>2. Journal # None /\ Staging(Sel) # None /\ Journal.ns = Sel
  BY <1>1 DEF StInv, MigratePlace, At
<1>3. Journal \in Journals /\ Staging(Sel) \in Transactions
  BY <1>1, <1>2, Loads, ValueFacts
<1>4. PICK j \in Journals : WriteJournal(j) /\ j.phase = Journal.phase /\ j.ns = Journal.ns
  <2>1. CASE ReplayIntent
    BY <1>3, <2>1, JournalFields DEF ReplayIntent
  <2>2. CASE ReplayDone
    BY <1>3, <2>2, JournalFields DEF ReplayDone
  <2> QED BY <2>1, <2>2
<1>5. j # None
  BY JournalFields
<1>6. /\ host' \in Hosts /\ host'.sel \in {0, host'.c} /\ host'.keyring = host.keyring /\ Sel' = Sel
  BY <1>1 DEF StTypeOK, Sel
<1>7. /\ StTypeOK' /\ FallbackIsNew' /\ owed' = owed /\ native' = native
      /\ Journal' = j /\ Marker' = Marker /\ Committed' = Committed
      /\ Legacy' = Legacy /\ Auth' = Auth
      /\ Runtime(Sel)' = Runtime(Sel) /\ Staging(Sel)' = Staging(Sel)
  BY <1>4, <1>6, JournalStep
<1>8. Debt' /\ Inventoried'
  BY <1>1, <1>2, <1>4, <1>5, <1>7 DEF StInv, Debt, Inventoried, Imported
<1>9. InstallPlace' /\ AdoptPlace' /\ MigratePlace' /\ AcknowledgePlace' /\ ReadyPlace' /\ AdmittedPlace'
  BY <1>1, <1>2, <1>4, <1>5, <1>6, <1>7
  DEF InstallPlace, AdoptPlace, MigratePlace, AcknowledgePlace, ReadyPlace, AdmittedPlace, At, Ending
<1>10. Flags'
  BY <1>1 DEF StInv, Flags, At
<1> QED BY <1>7, <1>8, <1>9, <1>10 DEF StInv

LEMMA MigrateBeginInv == ASSUME StInv, MigrateBegin PROVE StInv'
<1> DEFINE j == [phase |-> "LegacyRead", ns |-> Sel, of |-> <<Legacy, disk.split>>,
                 pending |-> None, last |-> None]
<1>1. At("migrate") /\ UNCHANGED host /\ StTypeOK /\ WriteJournal(j) /\ Journal = None
  BY DEF MigrateBegin, StInv
<1>2. Sel \in Records /\ <<Legacy, disk.split>> \in {None, "full", "bare"} \X BOOLEAN
  BY <1>1, Loads DEF StTypeOK
<1>3. j \in Journals /\ j.ns = Sel /\ j.phase = "LegacyRead"
  BY <1>2 DEF Journals, Early
<1> HIDE DEF j
<1>4. /\ host' \in Hosts /\ host'.sel \in {0, host'.c} /\ host'.keyring = host.keyring /\ Sel' = Sel
  BY <1>1 DEF StTypeOK, Sel
<1>5. /\ StTypeOK' /\ FallbackIsNew' /\ owed' = owed /\ native' = native
      /\ Journal' = j /\ Marker' = Marker /\ Committed' = Committed
      /\ Legacy' = Legacy /\ Auth' = Auth
      /\ Runtime(Sel)' = Runtime(Sel) /\ Staging(Sel)' = Staging(Sel)
  BY <1>1, <1>3, <1>4, JournalStep
<1>6. Debt' /\ Inventoried'
  BY <1>1, <1>3, <1>5 DEF StInv, Debt, Inventoried, Imported, Late
<1>7. Staging(Sel) = None
  BY <1>1 DEF StInv, MigratePlace
<1>8. InstallPlace' /\ AdoptPlace' /\ MigratePlace' /\ AcknowledgePlace' /\ ReadyPlace' /\ AdmittedPlace'
  BY <1>1, <1>3, <1>4, <1>5, <1>7
  DEF InstallPlace, AdoptPlace, MigratePlace, AcknowledgePlace, ReadyPlace, AdmittedPlace, At, Ending
<1>9. Flags'
  BY <1>1 DEF StInv, Flags, At
<1> QED BY <1>5, <1>6, <1>8, <1>9 DEF StInv

(* A migration goes on: it has imported the record before it says so. *)
LEMMA MigrateAdvanceInv == ASSUME StInv, MigrateAdvance PROVE StInv'
<1>1. PICK p \in {"LegacyRead", "AuthWritten", "RuntimeWritten", "Committed"},
           q \in {"AuthWritten", "RuntimeWritten", "Committed", "Verified"} :
        /\ MigrateAt(p) /\ Advance(q)
        /\ q = "AuthWritten" => p = "LegacyRead"
        /\ q = "RuntimeWritten" => p = "AuthWritten" /\ Runtime(Sel) # None
        /\ q \in {"Committed", "Verified"} => p \in {"RuntimeWritten", "Committed"}
  BY DEF MigrateAdvance
<1> DEFINE j == [Journal EXCEPT !.phase = q]
<1>2. /\ At("migrate") /\ Migratable /\ Journal # None /\ Journal.phase = p
      /\ UNCHANGED host /\ StTypeOK /\ WriteJournal(j)
  BY <1>1 DEF MigrateAt, Advance, StInv
<1>3. Journal \in Journals /\ q \in Early \cup Late
  BY <1>2, Loads DEF Early, Late
<1>4. j \in Journals /\ j.ns = Journal.ns /\ j.phase = q
  BY <1>3, JournalFields
<1>5. j # None
  BY <1>4, JournalFields
<1> HIDE DEF j
<1>6. /\ host' \in Hosts /\ host'.sel \in {0, host'.c} /\ host'.keyring = host.keyring /\ Sel' = Sel
  BY <1>2 DEF StTypeOK, Sel
<1>7. /\ StTypeOK' /\ FallbackIsNew' /\ owed' = owed /\ native' = native
      /\ Journal' = j /\ Marker' = Marker /\ Committed' = Committed
      /\ Legacy' = Legacy /\ Auth' = Auth
      /\ Runtime(Sel)' = Runtime(Sel) /\ Staging(Sel)' = Staging(Sel)
  BY <1>2, <1>4, <1>6, JournalStep
<1>8. Journal.ns = Sel /\ Sel \in Records /\ Staging(Sel) = None
  BY <1>2, Loads DEF StInv, MigratePlace, At
<1>9. owed /\ q = "RuntimeWritten" => native[<<"runtime", Sel>>] = Import
  <2> SUFFICES ASSUME owed, q = "RuntimeWritten" PROVE native[<<"runtime", Sel>>] = Import
    OBVIOUS
  <2>1. SourceSame /\ RuntimeBaseline
    BY <1>1, <1>2 DEF Migratable, Early
  <2>2. Legacy = "full"
    BY <1>2, <2>1, LoadsFrom DEF SourceSame, StInv, Debt
  <2>3. Runtime(Sel) = Import
    BY <2>1, <2>2 DEF RuntimeBaseline, Import
  <2> QED BY <1>2, <1>8, <2>3, LoadsFrom DEF StInv
<1>10. Debt'
  BY <1>1, <1>2, <1>4, <1>7, <1>8, <1>9 DEF StInv, Debt, Imported, Late
<1>11. Inventoried'
  BY <1>4, <1>7 DEF Inventoried
<1>12. InstallPlace' /\ AdoptPlace' /\ MigratePlace' /\ AcknowledgePlace' /\ ReadyPlace' /\ AdmittedPlace'
  BY <1>2, <1>4, <1>6, <1>7, <1>8
  DEF InstallPlace, AdoptPlace, MigratePlace, AcknowledgePlace, ReadyPlace, AdmittedPlace, At, Ending
<1>13. Flags'
  BY <1>2 DEF StInv, Flags, At
<1> QED BY <1>7, <1>10, <1>11, <1>12, <1>13 DEF StInv

(* The acknowledgement begins: nothing is owed any more. *)
LEMMA AcknowledgeInv == ASSUME StInv, Acknowledge PROVE StInv'
<1> DEFINE j == [Journal EXCEPT !.phase = "Tombstoning"]
<1>1. At("acknowledge") /\ Acknowledgeable /\ WriteJournal(j) /\ Go("tombstone") /\ StTypeOK
  BY DEF Acknowledge, StInv
<1>2. Migrated
  BY <1>1 DEF StInv, AcknowledgePlace, At
<1>3. Journal \in Journals /\ "Tombstoning" \in Late /\ "tombstone" \in HostSteps /\ "tombstone" \in Ending
  BY <1>1, <1>2, Loads DEF Migrated, Late, HostSteps, Ending
<1>4. j \in Journals /\ j.ns = Journal.ns /\ j.phase = "Tombstoning" /\ j # None
  BY <1>3, JournalFields
<1> HIDE DEF j
<1>5. /\ host' \in Hosts /\ host'.sel \in {0, host'.c} /\ host'.pc = "tombstone"
      /\ Sel' = Sel /\ host'.keyring = host.keyring /\ host'.boot = host.boot
      /\ host'.admitted = host.admitted
  BY <1>1, <1>3, GoStep
<1>6. /\ StTypeOK' /\ FallbackIsNew' /\ owed' = owed /\ native' = native
      /\ Journal' = j /\ Marker' = Marker /\ Committed' = Committed
      /\ Legacy' = Legacy /\ Auth' = Auth
      /\ Runtime(Sel)' = Runtime(Sel) /\ Staging(Sel)' = Staging(Sel)
  BY <1>1, <1>4, <1>5, JournalStep
<1>7. host.keyring /\ Sel \in Records
  BY <1>1, Loads, LoadsFrom DEF Acknowledgeable, Paired, StInv
<1>8. ~owed
  <2> SUFFICES ASSUME owed PROVE FALSE
    OBVIOUS
  <2>1. native[<<"runtime", Sel>>] = Import
    BY <1>2 DEF StInv, Debt, Imported, Migrated
  <2>2. Runtime(Sel) = Import
    BY <1>1, <1>7, <2>1, LoadsFrom DEF StInv
  <2> QED BY <1>1, <2>2, ValueFacts DEF Acknowledgeable
<1>9. Debt'
  BY <1>6, <1>8 DEF Debt
<1>10. Committed /\ Marker.install = 0
  <2>1. CASE host.boot
    BY <1>1, <1>2, <2>1 DEF StInv, AcknowledgePlace, Inventoried, Migrated
  <2>2. CASE ~host.boot
    BY <1>1, <1>2, <2>2 DEF StInv, ReadyPlace, HandedOut, Migrated, At
  <2> QED BY <2>1, <2>2
<1>11. Inventoried'
  BY <1>6, <1>10 DEF Inventoried
<1>12. Migrated' /\ (~host.boot => HandedOut') /\ ~Runtime(Sel)'.only
  <2>1. ~host.boot => HandedOut
    BY <1>1 DEF StInv, ReadyPlace, At
  <2> QED BY <1>1, <1>2, <1>3, <1>4, <1>5, <1>6, <2>1 DEF Migrated, HandedOut, Acknowledgeable
<1>13. InstallPlace' /\ AdoptPlace' /\ MigratePlace' /\ AcknowledgePlace' /\ ReadyPlace' /\ AdmittedPlace'
  BY <1>3, <1>4, <1>5, <1>6, <1>7, <1>12
  DEF InstallPlace, AdoptPlace, MigratePlace, AcknowledgePlace, ReadyPlace, AdmittedPlace, At
<1>14. Flags'
  BY <1>1, <1>5 DEF StInv, Flags, At
<1> QED BY <1>6, <1>9, <1>11, <1>13, <1>14 DEF StInv

LEMMA CompleteMigrationInv == ASSUME StInv, CompleteMigration PROVE StInv'
<1> DEFINE j == [Journal EXCEPT !.phase = "Complete"]
<1>1. At("complete") /\ WriteJournal(j) /\ StTypeOK
      /\ host' = [host EXCEPT !.pc = IF host.boot THEN "inventory" ELSE "ready", !.admitted = ~host.boot]
  BY DEF CompleteMigration, StInv
<1>2. host.pc \in Ending
  BY <1>1 DEF At, Ending
<1>3. /\ Migrated /\ Journal.phase = "Tombstoning" /\ ~Runtime(Sel).only /\ ~owed
      /\ ~host.boot => HandedOut
  BY <1>2 DEF StInv, AcknowledgePlace, AdmittedPlace, ReadyPlace, Debt
<1>4. Journal \in Journals /\ "Complete" \in Late
  BY <1>1, <1>3, Loads DEF Migrated, Late
<1>5. j \in Journals /\ j.ns = Journal.ns /\ j.phase = "Complete" /\ j # None
  BY <1>4, JournalFields
<1> HIDE DEF j
<1>6. /\ host' \in Hosts /\ host'.sel \in {0, host'.c} /\ host'.boot = host.boot
      /\ Sel' = Sel /\ host'.keyring = host.keyring
      /\ host'.pc = IF host.boot THEN "inventory" ELSE "ready"
      /\ host.boot => ~host'.admitted
  BY <1>1 DEF StTypeOK, Hosts, HostSteps, Sel
<1>7. /\ StTypeOK' /\ FallbackIsNew' /\ owed' = owed /\ native' = native
      /\ Journal' = j /\ Marker' = Marker /\ Committed' = Committed
      /\ Legacy' = Legacy /\ Auth' = Auth
      /\ Runtime(Sel)' = Runtime(Sel) /\ Staging(Sel)' = Staging(Sel)
  BY <1>1, <1>5, <1>6, JournalStep
<1>8. Debt' /\ Inventoried'
  BY <1>3, <1>5, <1>7 DEF Debt, StInv, Inventoried, Migrated
<1>9. Migrated' /\ (~host.boot => HandedOut') /\ ~Runtime(Sel)'.only
  BY <1>3, <1>4, <1>5, <1>6, <1>7 DEF Migrated, HandedOut
<1>10. InstallPlace' /\ AdoptPlace' /\ MigratePlace' /\ AcknowledgePlace' /\ ReadyPlace' /\ AdmittedPlace'
  BY <1>6, <1>9
  DEF InstallPlace, AdoptPlace, MigratePlace, AcknowledgePlace, ReadyPlace, AdmittedPlace, At, Ending
<1>11. Flags'
  BY <1>6 DEF Flags, At
<1> QED BY <1>7, <1>8, <1>10, <1>11 DEF StInv

-----------------------------------------------------------------------------
(* Steps that write the inventory. *)

LEMMA MarkerStep ==
    ASSUME StInv, NEW m \in Markers, WriteMarker(m),
           host' \in Hosts, host'.sel \in {0, host'.c}, host'.keyring = host.keyring,
           host'.pc \in Ending => host.pc \in Ending
    PROVE  /\ StTypeOK' /\ FallbackIsNew' /\ Debt'
           /\ Journal' = Journal /\ Marker' = m /\ Committed' = m.committed
           /\ Legacy' = Legacy /\ Auth' = Auth
           /\ \A n : Runtime(n)' = Runtime(n) /\ Staging(n)' = Staging(n)
<1>1. SameRecords /\ owed' = owed /\ disk' = [disk EXCEPT !.marker = m] /\ StTypeOK
  BY DEF WriteMarker, Quiet, StInv
<1>2. /\ disk' \in [split : BOOLEAN, journal : Journals \cup {None}, marker : Markers \cup {None}]
      /\ Journal' = Journal /\ Marker' = m
  BY <1>1, DiskStep
<1>3. StTypeOK'
  BY <1>1, <1>2 DEF StTypeOK, SameRecords, Store
<1>4. FallbackIsNew' /\ native' = native
  BY <1>1 DEF StInv, FallbackIsNew, SameRecords
<1>5. m # None /\ m.committed \in BOOLEAN
  BY StartAssumption DEF Markers
<1>6. Committed' = m.committed
  BY <1>2, <1>5 DEF Committed
<1>7. Debt'
  BY <1>1, <1>2, <1>4 DEF StInv, Debt, Imported
<1> QED BY <1>1, <1>2, <1>3, <1>4, <1>6, <1>7, SameLoads

LEMMA NamespaceFacts == ASSUME StTypeOK PROVE Namespaces \in SUBSET Records /\ Sel \in Namespaces
<1>1. host.c \in Records /\ 0 \in Records
  BY StartAssumption DEF StTypeOK, Hosts, Records
<1>2. Marker # None => Marker.namespaces \subseteq Records
  BY Loads DEF Markers
<1>3. Journal # None => Journal.ns \in Records
  BY Loads DEF Journals
<1>4. Known \subseteq Records
  BY <1>1, <1>2, <1>3, StartAssumption DEF Known, Manifest
<1> QED BY <1>2, <1>4, Loads DEF Namespaces, Occupied

LEMMA AnnouncedFacts ==
    ASSUME StTypeOK, Staging(Sel) # None, NEW committed \in BOOLEAN
    PROVE  /\ Announced(committed) \in Markers /\ Announced(committed).committed = committed
           /\ Announced(committed).install = Staging(Sel).auth.install
           /\ Sel \in Announced(committed).namespaces
<1>1. Staging(Sel) \in Transactions /\ Staging(Sel).auth \in AuthRecords
  BY Loads, ValueFacts
<1>2. Staging(Sel).auth.install \in Nat
  BY <1>1 DEF AuthRecords
<1> QED BY <1>1, <1>2, NamespaceFacts DEF Announced, Markers

LEMMA InstallMarkerInv == ASSUME StInv, InstallAnnounce \/ InstallCommit PROVE StInv'
<1>1. PICK committed \in BOOLEAN :
        /\ WriteMarker(Announced(committed))
        /\ committed => Auth # None /\ Runtime(Sel) # None
  BY DEF InstallAnnounce, InstallCommit
<1>2. At("install") /\ Staging(Sel) # None /\ ~Committed /\ UNCHANGED host /\ StTypeOK
  BY DEF InstallAnnounce, InstallCommit, Committed, StInv
<1> DEFINE m == Announced(committed)
<1>3. /\ m \in Markers /\ m.committed = committed /\ m.install = Staging(Sel).auth.install
      /\ Sel \in m.namespaces
  BY <1>2, AnnouncedFacts
<1> HIDE DEF m
<1>4. /\ host' \in Hosts /\ host'.sel \in {0, host'.c} /\ host'.keyring = host.keyring
      /\ Sel' = Sel /\ host'.pc = host.pc
  BY <1>2 DEF StTypeOK, Sel
<1>5. WriteMarker(m)
  BY <1>1 DEF m
<1>6. /\ StTypeOK' /\ FallbackIsNew' /\ Debt'
      /\ Journal' = Journal /\ Marker' = m /\ Committed' = m.committed
      /\ Legacy' = Legacy /\ Auth' = Auth
      /\ Runtime(Sel)' = Runtime(Sel) /\ Staging(Sel)' = Staging(Sel)
  BY <1>3, <1>4, <1>5, MarkerStep
<1>7. Inventoried'
  BY <1>2, <1>6 DEF StInv, Inventoried
<1>8. InstallPlace'
  BY <1>1, <1>2, <1>3, <1>4, <1>6 DEF StInv, InstallPlace, At
<1>9. AdoptPlace' /\ MigratePlace' /\ AcknowledgePlace' /\ ReadyPlace' /\ AdmittedPlace'
  BY <1>2 DEF AdoptPlace, MigratePlace, AcknowledgePlace, ReadyPlace, AdmittedPlace, At, Ending
<1>10. Flags'
  BY <1>2 DEF StInv, Flags, At
<1> QED BY <1>6, <1>7, <1>8, <1>9, <1>10 DEF StInv

LEMMA AdoptCommitInv == ASSUME StInv, AdoptCommit PROVE StInv'
<1> DEFINE m == [Marker EXCEPT !.namespaces = Namespaces]
<1>1. /\ At("adopt") /\ Runtime(Sel) # None /\ Staging(Sel) = None
      /\ WriteMarker(m) /\ HandOut(FALSE) /\ StTypeOK
  BY DEF AdoptCommit, StInv
<1>2. /\ Committed /\ Auth # None /\ Auth.install = Marker.install
      /\ Legacy # None => Auth.install = 0
  BY <1>1 DEF StInv, AdoptPlace
<1>3. Marker \in Markers
  BY <1>1, <1>2, Loads DEF Committed
<1>4. /\ m \in Markers /\ m.committed = Marker.committed /\ m.install = Marker.install
      /\ m.namespaces = Namespaces
  BY <1>1, <1>3, NamespaceFacts DEF Markers
<1> HIDE DEF m
<1>5. /\ host' \in Hosts /\ host'.sel \in {0, host'.c} /\ host'.pc = "ready"
      /\ Sel' = Sel /\ host'.keyring = host.keyring /\ ~host'.boot
      /\ ~host'.awaiting /\ host'.admitted = host.admitted
  BY <1>1, HandOutStep
<1>6. host'.pc \notin Ending
  BY <1>5 DEF Ending
<1>7. /\ StTypeOK' /\ FallbackIsNew' /\ Debt'
      /\ Journal' = Journal /\ Marker' = m /\ Committed' = m.committed
      /\ Legacy' = Legacy /\ Auth' = Auth
      /\ Runtime(Sel)' = Runtime(Sel) /\ Staging(Sel)' = Staging(Sel)
  BY <1>1, <1>4, <1>5, <1>6, MarkerStep
<1>8. Inventoried'
  BY <1>2, <1>4, <1>7 DEF StInv, Inventoried, Committed
<1>9. HandedOut'
  BY <1>1, <1>2, <1>4, <1>5, <1>7, NamespaceFacts DEF HandedOut, Committed
<1>10. ~host.admitted
  BY <1>1 DEF StInv, Flags, At
<1>11. InstallPlace' /\ AdoptPlace' /\ MigratePlace' /\ AcknowledgePlace' /\ ReadyPlace' /\ AdmittedPlace'
  BY <1>5, <1>6, <1>9, <1>10
  DEF InstallPlace, AdoptPlace, MigratePlace, AcknowledgePlace, ReadyPlace, AdmittedPlace, At
<1>12. Flags'
  BY <1>5 DEF Flags, At
<1> QED BY <1>7, <1>8, <1>11, <1>12 DEF StInv

LEMMA WriteInventoryInv == ASSUME StInv, WriteInventory PROVE StInv'
<1> DEFINE m == [committed |-> TRUE, install |-> Auth.install, fresh |-> None, namespaces |-> Namespaces]
           awaiting == Journal.phase = "Verified"
<1>1. At("inventory") /\ WriteMarker(m) /\ HandOut(awaiting) /\ StTypeOK /\ awaiting \in BOOLEAN
  BY DEF WriteInventory, StInv
<1>2. Migrated /\ ~host.admitted
  BY <1>1 DEF StInv, AcknowledgePlace, Flags, At
<1>3. m \in Markers /\ m.committed = TRUE /\ m.install = 0 /\ m.namespaces = Namespaces
  BY <1>1, <1>2, NamespaceFacts DEF Markers, Migrated
<1> HIDE DEF m, awaiting
<1>4. /\ host' \in Hosts /\ host'.sel \in {0, host'.c} /\ host'.pc = "ready"
      /\ Sel' = Sel /\ host'.keyring = host.keyring /\ ~host'.boot
      /\ host'.awaiting = awaiting /\ host'.admitted = host.admitted
  BY <1>1, HandOutStep
<1>5. host'.pc \notin Ending
  BY <1>4 DEF Ending
<1>6. /\ StTypeOK' /\ FallbackIsNew' /\ Debt'
      /\ Journal' = Journal /\ Marker' = m /\ Committed' = m.committed
      /\ Legacy' = Legacy /\ Auth' = Auth
      /\ Runtime(Sel)' = Runtime(Sel) /\ Staging(Sel)' = Staging(Sel)
  BY <1>1, <1>3, <1>4, <1>5, MarkerStep
<1>7. Inventoried'
  BY <1>3, <1>6 DEF Inventoried
<1>8. HandedOut' /\ Migrated'
  BY <1>1, <1>2, <1>3, <1>4, <1>6, NamespaceFacts DEF HandedOut, Migrated
<1>9. InstallPlace' /\ AdoptPlace' /\ MigratePlace' /\ AcknowledgePlace' /\ ReadyPlace' /\ AdmittedPlace'
  BY <1>2, <1>4, <1>5, <1>8
  DEF InstallPlace, AdoptPlace, MigratePlace, AcknowledgePlace, ReadyPlace, AdmittedPlace, At
<1>10. Flags'
  BY <1>4 DEF Flags, At
<1> QED BY <1>6, <1>7, <1>9, <1>10 DEF StInv

-----------------------------------------------------------------------------
(* Steps that write a protected record. *)

(* What is left as it was when a record is written. *)
LEMMA WriteStep ==
    ASSUME StInv, Store(native)', Store(fallback)', UNCHANGED disk, owed' \in BOOLEAN,
           host' \in Hosts, host'.sel \in {0, host'.c}
    PROVE  /\ StTypeOK' /\ Inventoried'
           /\ Journal' = Journal /\ Marker' = Marker /\ Committed' = Committed
<1>1. StTypeOK'
  BY DEF StInv, StTypeOK
<1>2. Journal' = Journal /\ Marker' = Marker
  BY DEF Journal, Marker
<1> QED BY <1>1, <1>2 DEF StInv, Inventoried, Committed

(* A write that is none of a runtime's record. *)
LEMMA DebtFrame ==
    ASSUME StInv, UNCHANGED <<disk, owed>>, native'[<<"legacy", 0>>] = native[<<"legacy", 0>>],
           \A n \in Records : native'[<<"runtime", n>>] = native[<<"runtime", n>>],
           host'.pc \in Ending => host.pc \in Ending
    PROVE  Debt'
<1>1. Journal' = Journal
  BY DEF Journal
<1>2. Journal # None => Journal.ns \in Records
  BY Loads DEF StInv, Journals
<1> QED BY <1>1, <1>2 DEF StInv, Debt, Imported

(* A write of the selected runtime's record, which is not the import of    *)
(* what is owed.                                                           *)
LEMMA DebtRuntime ==
    ASSUME StInv, UNCHANGED disk, native'[<<"legacy", 0>>] = native[<<"legacy", 0>>],
           \A m \in Records : m # Sel \/ ~host.keyring => native'[<<"runtime", m>>] = native[<<"runtime", m>>],
           owed' => owed /\ Runtime(Sel) # Import, host'.pc = host.pc
    PROVE  Debt'
<1>1. Journal' = Journal
  BY DEF Journal
<1>2. Sel \in Records /\ (Journal # None => Journal.ns \in Records) /\ host.keyring \in BOOLEAN
  BY Loads DEF StInv, Journals
<1>3. owed' /\ Imported /\ host.keyring => Journal.ns # Sel
  BY <1>2, LoadsFrom DEF StInv, Debt, Imported
<1> QED BY <1>1, <1>2, <1>3 DEF StInv, Debt, Imported

LEMMA InstallStageInv == ASSUME StInv, InstallStage PROVE StInv'
<1> DEFINE v == FreshInstall(host.drawn + 1)
<1>1. /\ At("install") /\ Staging(Sel) = None /\ Put(<<"staging", Sel>>, v)
      /\ host' = [host EXCEPT !.drawn = @ + 1] /\ UNCHANGED <<disk, owed>> /\ StTypeOK /\ FallbackIsNew
  BY DEF InstallStage, Quiet, StInv
<1>2. /\ host' \in Hosts /\ host'.sel \in {0, host'.c} /\ Sel' = Sel /\ host'.keyring = host.keyring
      /\ host'.pc = "install" /\ host'.boot = host.boot /\ host'.admitted = host.admitted
  BY <1>1 DEF StTypeOK, Hosts, At, Sel
<1>3. Sel \in Records /\ host.drawn \in Nat
  BY <1>1, Loads DEF Hosts
<1>4. v.from = None /\ v.auth = FromLegacy(host.drawn + 1) /\ v.runtime = Empty(FALSE)
  BY DEF FreshInstall, Transaction
<1>5. v = [from |-> v.from, auth |-> v.auth, runtime |-> v.runtime]
  BY DEF FreshInstall, Transaction
<1> HIDE DEF v
<1>6. v.auth \in AuthRecords /\ v.auth.install # 0 /\ v.runtime \in RuntimeRecords
  <2>1. FromLegacy(host.drawn + 1) \in AuthRecords /\ FromLegacy(host.drawn + 1).install # 0
    BY <1>3 DEF FromLegacy, AuthRecords
  <2>2. Empty(FALSE) \in RuntimeRecords
    BY DEF Empty, RuntimeRecords
  <2> QED BY <1>4, <2>1, <2>2
<1>7. v \in StagedValues /\ v # None
  <2>1. v \in Transactions
    BY <1>4, <1>5, <1>6 DEF Transactions
  <2> QED BY <1>4, <1>6, <2>1, ValueFacts DEF StagedValues
<1>8. /\ Store(native)' /\ Store(fallback)' /\ FallbackIsNew'
      /\ Staging(Sel)' = v /\ Legacy' = Legacy /\ Auth' = Auth
      /\ Runtime(Sel)' = Runtime(Sel)
      /\ native'[<<"legacy", 0>>] = native[<<"legacy", 0>>]
      /\ \A m \in Records : native'[<<"runtime", m>>] = native[<<"runtime", m>>]
  <2>1. Store(native)' /\ Store(fallback)' /\ FallbackIsNew'
    BY <1>1, <1>2, <1>3, <1>4, <1>7, PutStaging
  <2>2. /\ Staging(Sel)' = v /\ Legacy' = Legacy /\ Auth' = Auth
        /\ Runtime(Sel)' = Runtime(Sel)
        /\ native'[<<"legacy", 0>>] = native[<<"legacy", 0>>]
        /\ \A m \in Records : native'[<<"runtime", m>>] = native[<<"runtime", m>>]
    BY <1>1, <1>2, <1>3, <1>4, <1>7, PutStaging DEF Staging, Runtime
  <2> QED BY <2>1, <2>2
<1>9. /\ StTypeOK' /\ Inventoried'
      /\ Journal' = Journal /\ Marker' = Marker /\ Committed' = Committed
  BY <1>1, <1>2, <1>8, WriteStep DEF StTypeOK
<1>10. Debt'
  BY <1>1, <1>2, <1>8, DebtFrame DEF Ending
<1>11. Marker = None /\ Auth = None /\ Runtime(Sel) = None /\ Legacy = None
  BY <1>1 DEF StInv, InstallPlace
<1>12. InstallPlace'
  BY <1>2, <1>4, <1>7, <1>8, <1>9, <1>11 DEF InstallPlace, Committed
<1>13. AdoptPlace' /\ MigratePlace' /\ AcknowledgePlace' /\ ReadyPlace' /\ AdmittedPlace'
  BY <1>2 DEF AdoptPlace, MigratePlace, AcknowledgePlace, ReadyPlace, AdmittedPlace, At, Ending
<1>14. Flags'
  BY <1>1, <1>2 DEF StInv, Flags, At
<1> QED BY <1>8, <1>9, <1>10, <1>12, <1>13, <1>14 DEF StInv

(* The staged transaction of the selected runtime is removed. *)
LEMMA ClearStaging ==
    ASSUME StInv, WriteRecord(<<"staging", Sel>>, None), host' \in Hosts, host'.sel \in {0, host'.c},
           Sel' = Sel, host'.keyring = host.keyring, host'.pc \in Ending => host.pc \in Ending
    PROVE  /\ StTypeOK' /\ FallbackIsNew' /\ Debt' /\ Inventoried'
           /\ Journal' = Journal /\ Marker' = Marker /\ Committed' = Committed
           /\ Staging(Sel)' = None /\ Legacy' = Legacy /\ Auth' = Auth /\ Runtime(Sel)' = Runtime(Sel)
<1>1. /\ Put(<<"staging", Sel>>, None) /\ UNCHANGED <<disk, owed>> /\ StTypeOK /\ FallbackIsNew
      /\ Sel \in Records /\ None \in StagedValues /\ owed' \in BOOLEAN
  BY Loads, ValueFacts DEF WriteRecord, Quiet, StInv, StTypeOK
<1>2. Store(native)' /\ Store(fallback)' /\ FallbackIsNew'
  BY <1>1, PutStaging
<1>3. /\ Staging(Sel)' = None /\ Legacy' = Legacy /\ Auth' = Auth
      /\ Runtime(Sel)' = Runtime(Sel)
      /\ native'[<<"legacy", 0>>] = native[<<"legacy", 0>>]
      /\ \A m \in Records : native'[<<"runtime", m>>] = native[<<"runtime", m>>]
  BY <1>1, PutStaging DEF Staging, Runtime
<1>4. /\ StTypeOK' /\ Inventoried'
      /\ Journal' = Journal /\ Marker' = Marker /\ Committed' = Committed
  BY <1>1, <1>2, WriteStep
<1>5. Debt'
  BY <1>1, <1>3, DebtFrame
<1> QED BY <1>2, <1>3, <1>4, <1>5

LEMMA InstallClearInv == ASSUME StInv, InstallClear PROVE StInv'
<1>1. At("install") /\ Committed /\ WriteRecord(<<"staging", Sel>>, None) /\ HandOut(FALSE) /\ StTypeOK
  BY DEF InstallClear, StInv
<1>2. /\ host' \in Hosts /\ host'.sel \in {0, host'.c} /\ host'.pc = "ready"
      /\ Sel' = Sel /\ host'.keyring = host.keyring /\ ~host'.boot
      /\ ~host'.awaiting /\ host'.admitted = host.admitted
  BY <1>1, HandOutStep
<1>3. host'.pc \notin Ending
  BY <1>2 DEF Ending
<1>4. /\ StTypeOK' /\ FallbackIsNew' /\ Debt' /\ Inventoried'
      /\ Journal' = Journal /\ Marker' = Marker /\ Committed' = Committed
      /\ Staging(Sel)' = None /\ Legacy' = Legacy /\ Auth' = Auth /\ Runtime(Sel)' = Runtime(Sel)
  BY <1>1, <1>2, <1>3, ClearStaging
<1>5. HandedOut'
  BY <1>1, <1>2, <1>4 DEF StInv, InstallPlace, HandedOut, Committed
<1>6. ~host.admitted
  BY <1>1 DEF StInv, Flags, At
<1>7. InstallPlace' /\ AdoptPlace' /\ MigratePlace' /\ AcknowledgePlace' /\ ReadyPlace' /\ AdmittedPlace'
  BY <1>2, <1>3, <1>5, <1>6
  DEF InstallPlace, AdoptPlace, MigratePlace, AcknowledgePlace, ReadyPlace, AdmittedPlace, At
<1>8. Flags'
  BY <1>2 DEF Flags, At
<1> QED BY <1>4, <1>7, <1>8 DEF StInv

LEMMA AdoptClearInv == ASSUME StInv, AdoptClear PROVE StInv'
<1>1. At("adopt") /\ WriteRecord(<<"staging", Sel>>, None) /\ UNCHANGED host /\ StTypeOK
  BY DEF AdoptClear, StInv
<1>2. /\ host' \in Hosts /\ host'.sel \in {0, host'.c} /\ host'.pc = "adopt"
      /\ Sel' = Sel /\ host'.keyring = host.keyring
  BY <1>1 DEF StTypeOK, At, Sel
<1>3. /\ StTypeOK' /\ FallbackIsNew' /\ Debt' /\ Inventoried'
      /\ Journal' = Journal /\ Marker' = Marker /\ Committed' = Committed
      /\ Staging(Sel)' = None /\ Legacy' = Legacy /\ Auth' = Auth /\ Runtime(Sel)' = Runtime(Sel)
  BY <1>1, <1>2, ClearStaging
<1>4. AdoptPlace'
  BY <1>1, <1>3 DEF StInv, AdoptPlace
<1>5. InstallPlace' /\ MigratePlace' /\ AcknowledgePlace' /\ ReadyPlace' /\ AdmittedPlace'
  BY <1>2 DEF InstallPlace, MigratePlace, AcknowledgePlace, ReadyPlace, AdmittedPlace, At, Ending
<1>6. Flags'
  BY <1>1 DEF StInv, Flags, At
<1> QED BY <1>3, <1>4, <1>5, <1>6 DEF StInv

LEMMA ReplayClearInv == ASSUME StInv, ReplayClear PROVE StInv'
<1>1. PICK pc \in {"failed", "migrate"} :
        At("replay") /\ WriteRecord(<<"staging", Sel>>, None) /\ Go(pc) /\ StTypeOK
  BY DEF ReplayClear, StInv
<1>2. pc \in HostSteps /\ pc \notin Ending
  BY DEF HostSteps, Ending
<1>3. /\ host' \in Hosts /\ host'.sel \in {0, host'.c} /\ host'.pc = pc
      /\ Sel' = Sel /\ host'.keyring = host.keyring /\ host'.boot = host.boot
      /\ host'.admitted = host.admitted
  BY <1>1, <1>2, GoStep
<1>4. /\ StTypeOK' /\ FallbackIsNew' /\ Debt' /\ Inventoried'
      /\ Journal' = Journal /\ Marker' = Marker /\ Committed' = Committed
      /\ Staging(Sel)' = None /\ Legacy' = Legacy /\ Auth' = Auth /\ Runtime(Sel)' = Runtime(Sel)
  BY <1>1, <1>2, <1>3, ClearStaging
<1>5. Journal.ns = Sel /\ host.boot /\ ~host.admitted
  BY <1>1 DEF StInv, MigratePlace, Flags, At
<1>6. InstallPlace' /\ AdoptPlace' /\ MigratePlace' /\ AcknowledgePlace' /\ ReadyPlace' /\ AdmittedPlace'
  BY <1>2, <1>3, <1>4, <1>5
  DEF InstallPlace, AdoptPlace, MigratePlace, AcknowledgePlace, ReadyPlace, AdmittedPlace, At
<1>7. Flags'
  BY <1>3, <1>5 DEF Flags, At
<1> QED BY <1>4, <1>6, <1>7 DEF StInv

(* "auth-v1" is written. *)
LEMMA WriteAuth ==
    ASSUME StInv, NEW v \in AuthRecords, Put(<<"auth", 0>>, v), UNCHANGED <<disk, owed>>,
           host' \in Hosts, host'.sel \in {0, host'.c}, Sel' = Sel, host'.keyring = host.keyring,
           host'.pc = host.pc, host.keyring \/ v.install # 0
    PROVE  /\ StTypeOK' /\ FallbackIsNew' /\ Debt' /\ Inventoried'
           /\ Journal' = Journal /\ Marker' = Marker /\ Committed' = Committed
           /\ Auth' = v /\ Legacy' = Legacy
           /\ Staging(Sel)' = Staging(Sel) /\ Runtime(Sel)' = Runtime(Sel)
<1>1. StTypeOK /\ FallbackIsNew /\ Sel \in Records /\ owed' \in BOOLEAN
  BY Loads DEF StInv, StTypeOK
<1>2. Store(native)' /\ Store(fallback)' /\ FallbackIsNew' /\ Auth' = v /\ Legacy' = Legacy
  BY <1>1, PutAuth
<1>3. /\ Staging(Sel)' = Staging(Sel) /\ Runtime(Sel)' = Runtime(Sel)
      /\ native'[<<"legacy", 0>>] = native[<<"legacy", 0>>]
      /\ \A m \in Records : native'[<<"runtime", m>>] = native[<<"runtime", m>>]
  BY <1>1, PutAuth DEF Staging, Runtime
<1>4. /\ StTypeOK' /\ Inventoried'
      /\ Journal' = Journal /\ Marker' = Marker /\ Committed' = Committed
  BY <1>1, <1>2, WriteStep
<1>5. Debt'
  BY <1>3, DebtFrame
<1> QED BY <1>2, <1>3, <1>4, <1>5

LEMMA InstallAuthInv == ASSUME StInv, InstallAuth PROVE StInv'
<1>1. /\ At("install") /\ Marker # None /\ Auth = None /\ UNCHANGED <<host, disk, owed>> /\ StTypeOK
      /\ Put(<<"auth", 0>>, Staging(Sel).auth)
  BY DEF InstallAuth, WriteRecord, Quiet, StInv
<1>2. Staging(Sel) # None /\ Staging(Sel).from = None
  BY <1>1 DEF StInv, InstallPlace
<1>3. Staging(Sel).auth \in AuthRecords /\ Staging(Sel).auth.install # 0
  BY <1>1, <1>2, Loads, ValueFacts
<1>4. /\ host' \in Hosts /\ host'.sel \in {0, host'.c} /\ host'.pc = "install" /\ host.pc = "install"
      /\ Sel' = Sel /\ host'.keyring = host.keyring
  BY <1>1 DEF StTypeOK, At, Sel
<1>5. /\ StTypeOK' /\ FallbackIsNew' /\ Debt' /\ Inventoried'
      /\ Journal' = Journal /\ Marker' = Marker /\ Committed' = Committed
      /\ Auth' = Staging(Sel).auth /\ Legacy' = Legacy
      /\ Staging(Sel)' = Staging(Sel) /\ Runtime(Sel)' = Runtime(Sel)
  BY <1>1, <1>3, <1>4, WriteAuth
<1>6. Staging(Sel).auth # None
  BY <1>3, ValueFacts
<1>7. InstallPlace'
  BY <1>1, <1>2, <1>4, <1>5, <1>6 DEF StInv, InstallPlace
<1>8. AdoptPlace' /\ MigratePlace' /\ AcknowledgePlace' /\ ReadyPlace' /\ AdmittedPlace'
  BY <1>4 DEF AdoptPlace, MigratePlace, AcknowledgePlace, ReadyPlace, AdmittedPlace, At, Ending
<1>9. Flags'
  BY <1>1 DEF StInv, Flags, At
<1> QED BY <1>5, <1>7, <1>8, <1>9 DEF StInv

(* The migration and the replay write "auth-v1" to the secret store. *)
LEMMA MigrateAuthInv == ASSUME StInv, MigrateAuth \/ ReplayAuth PROVE StInv'
<1>1. PICK v \in AuthRecords : Put(<<"auth", 0>>, v) /\ host.keyring
  <2>1. CASE MigrateAuth
    <3>1. FromLegacy(0) \in AuthRecords
      BY DEF FromLegacy, AuthRecords
    <3>2. SourceSame
      BY <2>1 DEF MigrateAuth, MigrateAt, Migratable, Early
    <3>3. host.keyring
      BY <3>2, LoadsFrom DEF SourceSame, StInv
    <3> QED BY <2>1, <3>1, <3>3 DEF MigrateAuth, WriteRecord
  <2>2. CASE ReplayAuth
    <3>1. Staging(Sel) # None /\ Staging(Sel).from # None
      BY <2>2 DEF ReplayAuth, Replayable, StInv, MigratePlace
    <3>2. Staging(Sel).auth \in AuthRecords /\ host.keyring
      BY <3>1, Loads, LoadsFrom, ValueFacts DEF StInv
    <3> QED BY <2>2, <3>2 DEF ReplayAuth, WriteRecord
  <2> QED BY <2>1, <2>2
<1>2. /\ host.pc \in {"replay", "migrate"} /\ UNCHANGED <<host, disk, owed>> /\ StTypeOK
  BY DEF MigrateAuth, MigrateAt, ReplayAuth, WriteRecord, Quiet, StInv, At
<1>3. /\ host' \in Hosts /\ host'.sel \in {0, host'.c} /\ host'.pc = host.pc
      /\ Sel' = Sel /\ host'.keyring = host.keyring
  BY <1>2 DEF StTypeOK, Sel
<1>4. /\ StTypeOK' /\ FallbackIsNew' /\ Debt' /\ Inventoried'
      /\ Journal' = Journal /\ Marker' = Marker /\ Committed' = Committed
      /\ Auth' = v /\ Legacy' = Legacy
      /\ Staging(Sel)' = Staging(Sel) /\ Runtime(Sel)' = Runtime(Sel)
  BY <1>1, <1>2, <1>3, WriteAuth
<1>5. MigratePlace'
  BY <1>2, <1>3, <1>4 DEF StInv, MigratePlace, At
<1>6. InstallPlace' /\ AdoptPlace' /\ AcknowledgePlace' /\ ReadyPlace' /\ AdmittedPlace'
  BY <1>2, <1>3 DEF InstallPlace, AdoptPlace, AcknowledgePlace, ReadyPlace, AdmittedPlace, At, Ending
<1>7. Flags'
  BY <1>2 DEF StInv, Flags, At
<1> QED BY <1>4, <1>5, <1>6, <1>7 DEF StInv

(* A login, and a logout: the session of "auth-v1" changes and its secret  *)
(* does not.                                                               *)
LEMMA SessionInv == ASSUME StInv, Enrol \/ Logout PROVE StInv'
<1> DEFINE Session(at, out) == [Bump(Auth) EXCEPT !.at = at, !.out = out]
<1>1. At("ready") /\ StTypeOK /\ FallbackIsNew /\ UNCHANGED <<disk, owed>>
  BY DEF Enrol, Logout, Live, StInv
<1>2. HandedOut
  BY <1>1 DEF StInv, ReadyPlace
<1>3. Auth \in AuthRecords
  BY <1>1, <1>2, Loads DEF HandedOut
<1>4. Bump(Auth) \in AuthRecords /\ Bump(Auth).install = Auth.install
  BY <1>3 DEF Bump, AuthRecords
<1> HIDE DEF Session
<1>5. ASSUME NEW at \in Records \cup {None}, NEW out \in BOOLEAN
      PROVE  Session(at, out) \in AuthRecords /\ Session(at, out).install = Auth.install
  <2> HIDE DEF Bump
  <2> QED BY <1>4 DEF Session, AuthRecords
<1>6. PICK v \in AuthRecords : Put(<<"auth", 0>>, v) /\ v.install = Auth.install
  <2>1. CASE Enrol
    BY <1>1, <1>5, <2>1, Loads DEF Enrol, Session
  <2>2. CASE Logout
    BY <1>5, <2>2 DEF Logout, Session
  <2> QED BY <2>1, <2>2
<1>7. /\ host' \in Hosts /\ host'.sel \in {0, host'.c} /\ host'.pc = "ready" /\ host'.boot = host.boot
      /\ Sel' = Sel /\ host'.keyring = host.keyring /\ host'.awaiting = host.awaiting
      /\ host'.admitted => host.admitted
  <2>1. CASE Enrol
    BY <1>1, <2>1 DEF Enrol, StTypeOK, At, Sel
  <2>2. CASE Logout
    BY <1>1, <2>2 DEF Logout, StTypeOK, Hosts, At, Sel
  <2> QED BY <2>1, <2>2
<1>8. host.keyring \/ v.install # 0
  BY <1>1, <1>2, <1>6, LoadsFrom DEF HandedOut
<1>9. /\ StTypeOK' /\ FallbackIsNew' /\ Debt' /\ Inventoried'
      /\ Journal' = Journal /\ Marker' = Marker /\ Committed' = Committed
      /\ Auth' = v /\ Legacy' = Legacy
      /\ Staging(Sel)' = Staging(Sel) /\ Runtime(Sel)' = Runtime(Sel)
  BY <1>1, <1>6, <1>7, <1>8, WriteAuth DEF At
<1>10. v # None
  BY ValueFacts
<1>11. HandedOut'
  BY <1>2, <1>6, <1>7, <1>9, <1>10 DEF HandedOut
<1>12. AcknowledgePlace'
  BY <1>1, <1>6, <1>7, <1>9, <1>10 DEF StInv, AcknowledgePlace, Migrated, At, Ending
<1>13. AdmittedPlace'
  BY <1>1, <1>7, <1>9 DEF StInv, AdmittedPlace, At, Ending
<1>14. InstallPlace' /\ AdoptPlace' /\ MigratePlace' /\ ReadyPlace'
  BY <1>7, <1>11 DEF InstallPlace, AdoptPlace, MigratePlace, ReadyPlace, At
<1>15. Flags'
  BY <1>1, <1>7 DEF StInv, Flags, At
<1> QED BY <1>9, <1>12, <1>13, <1>14, <1>15 DEF StInv

(* The selected runtime's record is written. *)
LEMMA WriteRuntime ==
    ASSUME StInv, NEW v \in RuntimeValues, v # None, Put(<<"runtime", Sel>>, v),
           UNCHANGED <<disk, host>>, owed' \in BOOLEAN, host.keyring \/ v # Import,
           owed' => owed /\ Runtime(Sel) # Import, At("install") => Auth # None,
           (At("ready") /\ host.admitted) \/ host.pc \in {"acknowledge"} \cup Ending => ~v.only
    PROVE  StInv'
<1>1. StTypeOK /\ FallbackIsNew /\ Sel \in Records /\ Sel' = Sel /\ host'.keyring = host.keyring
  BY Loads DEF StInv, Sel
<1>2. Store(native)' /\ Store(fallback)' /\ FallbackIsNew' /\ Legacy' = Legacy /\ Auth' = Auth
  BY <1>1, PutRuntime
<1>3. /\ Runtime(Sel)' = v /\ Staging(Sel)' = Staging(Sel)
      /\ native'[<<"legacy", 0>>] = native[<<"legacy", 0>>]
      /\ \A m \in Records : m # Sel \/ ~host.keyring => native'[<<"runtime", m>>] = native[<<"runtime", m>>]
  BY <1>1, PutRuntime DEF Staging, Runtime
<1>4. /\ StTypeOK' /\ Inventoried'
      /\ Journal' = Journal /\ Marker' = Marker /\ Committed' = Committed
  BY <1>1, <1>2, WriteStep DEF StTypeOK
<1>5. Debt'
  BY <1>3, DebtRuntime
<1>6. InstallPlace' /\ AdoptPlace'
  BY <1>1, <1>2, <1>3, <1>4 DEF StInv, InstallPlace, AdoptPlace, At
<1>7. MigratePlace' /\ AcknowledgePlace'
  BY <1>1, <1>2, <1>3, <1>4 DEF StInv, MigratePlace, AcknowledgePlace, Migrated, At
<1>8. ReadyPlace'
  BY <1>1, <1>2, <1>3, <1>4 DEF StInv, ReadyPlace, HandedOut, At
<1>9. AdmittedPlace'
  BY <1>3 DEF AdmittedPlace, At
<1>10. Flags'
  BY DEF StInv, Flags, At
<1> QED BY <1>2, <1>4, <1>5, <1>6, <1>7, <1>8, <1>9, <1>10 DEF StInv

LEMMA InstallRuntimeInv == ASSUME StInv, InstallRuntime PROVE StInv'
<1>1. /\ At("install") /\ Auth # None /\ Runtime(Sel) = None /\ UNCHANGED <<host, disk, owed>> /\ StTypeOK
      /\ Put(<<"runtime", Sel>>, Staging(Sel).runtime)
  BY DEF InstallRuntime, WriteRecord, Quiet, StInv
<1>2. Staging(Sel) # None /\ Staging(Sel).from = None
  BY <1>1 DEF StInv, InstallPlace
<1>3. Staging(Sel).runtime = Empty(FALSE)
  BY <1>1, <1>2, Loads, ValueFacts
<1>4. Empty(FALSE) \in RuntimeValues /\ Empty(FALSE) # None /\ Empty(FALSE) # Import
  BY ValueFacts
<1>5. None # Import /\ owed' \in BOOLEAN /\ host.pc = "install"
  BY <1>1, ValueFacts DEF StTypeOK, At
<1>6. ~((At("ready") /\ host.admitted) \/ host.pc \in {"acknowledge"} \cup Ending)
  BY <1>5 DEF At, Ending
<1> QED BY <1>1, <1>3, <1>4, <1>5, <1>6, WriteRuntime

LEMMA AdoptRuntimeInv == ASSUME StInv, AdoptRuntime PROVE StInv'
<1>1. /\ At("adopt") /\ Runtime(Sel) = None /\ UNCHANGED <<host, disk, owed>> /\ StTypeOK
      /\ Put(<<"runtime", Sel>>, Empty(TRUE))
  BY DEF AdoptRuntime, WriteRecord, Quiet, StInv
<1>2. Empty(TRUE) \in RuntimeValues /\ Empty(TRUE) # None /\ Empty(TRUE) # Import
  BY ValueFacts
<1>3. None # Import /\ owed' \in BOOLEAN /\ host.pc = "adopt"
  BY <1>1, ValueFacts DEF StTypeOK, At
<1>4. ~((At("ready") /\ host.admitted) \/ host.pc \in {"acknowledge"} \cup Ending) /\ ~At("install")
  BY <1>3 DEF At, Ending
<1> QED BY <1>1, <1>2, <1>3, <1>4, WriteRuntime

LEMMA MigrateRuntimeInv == ASSUME StInv, MigrateRuntime PROVE StInv'
<1>1. /\ At("migrate") /\ Runtime(Sel) = None /\ UNCHANGED <<host, disk, owed>> /\ StTypeOK /\ FallbackIsNew
      /\ Put(<<"runtime", Sel>>, ImportLegacy(Legacy)) /\ SourceSame
  BY DEF MigrateRuntime, MigrateAt, Migratable, Early, WriteRecord, Quiet, StInv
<1>2. ImportLegacy(Legacy) \in RuntimeValues /\ ImportLegacy(Legacy) # None
  <2>1. ImportLegacy(Legacy) \in RuntimeRecords /\ ~ImportLegacy(Legacy).bound
    BY DEF ImportLegacy, RuntimeRecords
  <2> HIDE DEF ImportLegacy
  <2> QED BY <2>1, ValueFacts DEF RuntimeValues
<1>3. host.keyring
  BY <1>1, LoadsFrom DEF SourceSame
<1>4. None # Import /\ owed' \in BOOLEAN /\ host.pc = "migrate"
  BY <1>1, ValueFacts DEF StTypeOK, At
<1>5. ~((At("ready") /\ host.admitted) \/ host.pc \in {"acknowledge"} \cup Ending) /\ ~At("install")
  BY <1>4 DEF At, Ending
<1> QED BY <1>1, <1>2, <1>3, <1>4, <1>5, WriteRuntime

(* The replay writes over a record that was not only to be cleaned up. *)
LEMMA ReplayOver ==
    ASSUME StInv, ReplayRuntime
    PROVE  Staging(Sel).runtime = Bound(FALSE) /\ ~Runtime(Sel).only
<1>1. At("replay") /\ Replayable /\ StTypeOK /\ FallbackIsNew
  BY DEF ReplayRuntime, StInv
<1>2. Staging(Sel) # None /\ Staging(Sel).from # None
  BY <1>1 DEF Replayable, StInv, MigratePlace
<1>3. Staging(Sel) = Projection
  BY <1>1, <1>2, Loads, LoadsFrom
<1>4. ~Runtime(Sel).only
  BY <1>1, <1>3, ValueFacts DEF Replayable
<1>5. Projection.runtime = Bound(FALSE)
  BY DEF Projection, Transaction
<1> QED BY <1>3, <1>4, <1>5

LEMMA ReplayRuntimeInv == ASSUME StInv, ReplayRuntime PROVE StInv'
<1>1. /\ At("replay") /\ UNCHANGED <<host, disk, owed>> /\ StTypeOK
      /\ Put(<<"runtime", Sel>>, Staging(Sel).runtime)
  BY DEF ReplayRuntime, WriteRecord, Quiet, StInv
<1>2. Staging(Sel).runtime = Bound(FALSE) /\ Runtime(Sel) # Import
  BY ReplayOver, ValueFacts
<1>3. Bound(FALSE) \in RuntimeValues /\ Bound(FALSE) # None /\ Bound(FALSE) # Import
  BY ValueFacts
<1>4. owed' \in BOOLEAN /\ host.pc = "replay"
  BY <1>1 DEF StTypeOK, At
<1>5. ~((At("ready") /\ host.admitted) \/ host.pc \in {"acknowledge"} \cup Ending) /\ ~At("install")
  BY <1>4 DEF At, Ending
<1> QED BY <1>1, <1>2, <1>3, <1>4, <1>5, WriteRuntime

(* The broker's writes: the cleanup, the runtime's work, a logout's end. *)
LEMMA CleanAndBindInv == ASSUME StInv, CleanAndBind \/ Work \/ CompleteLogout PROVE StInv'
<1>1. At("ready") /\ UNCHANGED <<host, disk>> /\ StTypeOK /\ host.pc = "ready"
  BY DEF CleanAndBind, Work, CompleteLogout, Live, At, StInv
<1>2. HandedOut
  BY <1>1 DEF StInv, ReadyPlace
<1>3. Runtime(Sel) \in RuntimeRecords /\ ~(Runtime(Sel).only /\ Runtime(Sel).bound)
  BY <1>1, <1>2, Loads, ValueFacts DEF HandedOut
<1>4. Runtime(Sel).debt \in BOOLEAN /\ owed \in BOOLEAN
  BY <1>1, <1>3 DEF RuntimeRecords, StTypeOK
<1>5. \A b \in BOOLEAN : Bound(b) \in RuntimeValues /\ Bound(b) # None /\ Bound(b) # Import /\ ~Bound(b).only
  BY ValueFacts
<1>6. /\ Empty(FALSE) \in RuntimeValues /\ Empty(FALSE) # None /\ Empty(FALSE) # Import /\ ~Empty(FALSE).only
  BY ValueFacts
<1>7. /\ Import.only /\ Import.debt /\ ~At("install")
      /\ At("ready") /\ host.admitted => ~Runtime(Sel).only
  BY <1>1, ValueFacts DEF At, StInv, AdmittedPlace
<1>8. CASE CleanAndBind
  <2>1. Put(<<"runtime", Sel>>, Bound(FALSE)) /\ owed' \in BOOLEAN /\ (owed' => owed /\ Runtime(Sel) # Import)
    BY <1>4, <1>7, <1>8 DEF CleanAndBind
  <2> QED BY <1>1, <1>5, <1>7, <2>1, WriteRuntime
<1>9. CASE Work
  <2>1. Put(<<"runtime", Sel>>, Bound(~Runtime(Sel).debt)) /\ owed' = owed /\ Runtime(Sel) # Import
    BY <1>1, <1>7, <1>9 DEF Work
  <2> QED BY <1>1, <1>4, <1>5, <1>7, <2>1, WriteRuntime
<1>10. CASE CompleteLogout
  <2>1. Put(<<"runtime", Sel>>, Empty(FALSE)) /\ owed' = owed /\ Runtime(Sel) # Import
    BY <1>3, <1>7, <1>10 DEF CompleteLogout
  <2> QED BY <1>1, <1>4, <1>6, <1>7, <2>1, WriteRuntime
<1> QED BY <1>8, <1>9, <1>10

(* The old credentials are erased when nothing is owed any more. *)
LEMMA TombstoneInv == ASSUME StInv, Tombstone PROVE StInv'
<1>1. /\ At("tombstone") /\ Put(<<"legacy", 0>>, "bare") /\ Go("unsplit") /\ UNCHANGED <<disk, owed>>
      /\ StTypeOK /\ FallbackIsNew
  BY DEF Tombstone, WriteRecord, Quiet, StInv
<1>2. /\ host' \in Hosts /\ host'.sel \in {0, host'.c} /\ host'.pc = "unsplit" /\ host.pc = "tombstone"
      /\ Sel' = Sel /\ host'.keyring = host.keyring /\ host'.boot = host.boot
      /\ host'.admitted = host.admitted
  BY <1>1, GoStep DEF HostSteps, At
<1>3. Migrated /\ host.keyring /\ Journal.phase = "Tombstoning" /\ ~owed /\ ~Runtime(Sel).only
  BY <1>2 DEF StInv, AcknowledgePlace, Debt, AdmittedPlace, Ending
<1>4. "bare" \in Contents /\ <<"legacy", 0>> \in Names /\ Sel \in Records
  BY <1>1, NameFacts, Loads DEF Contents
<1>5. /\ native' \in [Names -> Contents] /\ fallback' \in [Names -> Contents]
      /\ \A m \in Names : m # <<"legacy", 0>> => native'[m] = native[m] /\ fallback'[m] = fallback[m]
      /\ \A m \in Names : m # <<"legacy", 0>> => Get(m)' = Get(m)
      /\ native'[<<"legacy", 0>>] = "bare" /\ fallback'[<<"legacy", 0>>] = None
  BY <1>1, <1>2, <1>3, <1>4, Loads, PutStep
<1>6. \A n \in Records : /\ native'[<<"runtime", n>>] = native[<<"runtime", n>>]
                         /\ native'[<<"staging", n>>] = native[<<"staging", n>>]
                         /\ fallback'[<<"runtime", n>>] = fallback[<<"runtime", n>>]
                         /\ fallback'[<<"staging", n>>] = fallback[<<"staging", n>>]
  BY <1>5, NameFacts
<1>7. /\ native'[<<"auth", 0>>] = native[<<"auth", 0>>] /\ Auth' = Auth
      /\ fallback'[<<"auth", 0>>] = fallback[<<"auth", 0>>]
  BY <1>5, NameFacts DEF Auth
<1>8. Runtime(Sel)' = Runtime(Sel) /\ Staging(Sel)' = Staging(Sel)
  BY <1>2, <1>4, <1>5, NameFacts DEF Runtime, Staging
<1>9. Store(native)' /\ Store(fallback)'
  BY <1>1, <1>5, <1>6, <1>7 DEF StTypeOK, Store
<1>10. FallbackIsNew'
  BY <1>1, <1>5, <1>6, <1>7 DEF FallbackIsNew
<1>11. /\ StTypeOK' /\ Inventoried'
       /\ Journal' = Journal /\ Marker' = Marker /\ Committed' = Committed
  BY <1>1, <1>2, <1>9, WriteStep DEF StTypeOK
<1>12. Debt'
  BY <1>1, <1>3 DEF Debt
<1>13. Migrated'
  BY <1>2, <1>3, <1>7, <1>8, <1>11 DEF Migrated
<1>14. ReadyPlace'
  BY <1>2, <1>3, <1>7, <1>8, <1>11 DEF StInv, ReadyPlace, HandedOut, Migrated, At, Ending
<1>15. AcknowledgePlace' /\ AdmittedPlace'
  BY <1>2, <1>3, <1>8, <1>11, <1>13 DEF AcknowledgePlace, AdmittedPlace, At
<1>16. InstallPlace' /\ AdoptPlace' /\ MigratePlace'
  BY <1>2 DEF InstallPlace, AdoptPlace, MigratePlace, At
<1>17. Flags'
  BY <1>2 DEF StInv, Flags, At
<1> QED BY <1>10, <1>11, <1>12, <1>14, <1>15, <1>16, <1>17 DEF StInv

LEMMA DeleteSplitInv == ASSUME StInv, DeleteSplit PROVE StInv'
<1>1. /\ At("unsplit") /\ disk' = [disk EXCEPT !.split = FALSE] /\ Go("complete") /\ SameRecords
      /\ UNCHANGED owed /\ StTypeOK
  BY DEF DeleteSplit, Quiet, StInv
<1>2. /\ host' \in Hosts /\ host'.sel \in {0, host'.c} /\ host'.pc = "complete" /\ host.pc = "unsplit"
      /\ Sel' = Sel /\ host'.keyring = host.keyring /\ host'.boot = host.boot
      /\ host'.admitted = host.admitted
  BY <1>1, GoStep DEF HostSteps, At
<1>3. /\ disk' \in [split : BOOLEAN, journal : Journals \cup {None}, marker : Markers \cup {None}]
      /\ Journal' = Journal /\ Marker' = Marker
  BY <1>1 DEF StTypeOK, Journal, Marker
<1>4. StTypeOK' /\ FallbackIsNew'
  BY <1>1, <1>2, <1>3 DEF StInv, StTypeOK, FallbackIsNew, SameRecords, Store
<1>5. Committed' = Committed /\ Inventoried'
  BY <1>3 DEF StInv, Inventoried, Committed
<1>6. ~owed
  BY <1>2 DEF StInv, Debt, Ending
<1>7. Debt'
  BY <1>1, <1>6 DEF Debt
<1>8. /\ Legacy' = Legacy /\ Auth' = Auth /\ Runtime(Sel)' = Runtime(Sel) /\ Staging(Sel)' = Staging(Sel)
  BY <1>1, <1>2, SameLoads DEF Runtime, Staging
<1>9. AcknowledgePlace' /\ AdmittedPlace'
  BY <1>2, <1>3, <1>8 DEF StInv, AcknowledgePlace, AdmittedPlace, Migrated, At, Ending
<1>10. ReadyPlace'
  BY <1>2, <1>3, <1>5, <1>8 DEF StInv, ReadyPlace, HandedOut, At, Ending
<1>11. InstallPlace' /\ AdoptPlace' /\ MigratePlace'
  BY <1>2 DEF InstallPlace, AdoptPlace, MigratePlace, At
<1>12. Flags'
  BY <1>2 DEF StInv, Flags, At
<1> QED BY <1>4, <1>5, <1>7, <1>9, <1>10, <1>11, <1>12 DEF StInv

(* A start moves a record to the secret store only where that has none. *)
LEMMA BootMoves ==
    ASSUME StTypeOK, NEW available \in BOOLEAN, Boot(available)
    PROVE  /\ native' \in [Names -> Contents] /\ fallback' \in [Names -> Contents]
           /\ \A name \in Names : /\ native'[name] \in {native[name], fallback[name]}
                                  /\ fallback'[name] \in {None, fallback[name]}
                                  /\ native[name] # None => native'[name] = native[name]
<1> DEFINE moved == {name \in Names : /\ available /\ native[name] = None /\ fallback[name] # None
                                      /\ name[1] \in {"runtime", "staging"} => name[2] \in Known}
<1>1. /\ native' = [name \in Names |-> IF name \in moved THEN fallback[name] ELSE native[name]]
      /\ fallback' = [name \in Names |-> IF name \in moved THEN None ELSE fallback[name]]
  BY DEF Boot
<1>2. \A name \in moved : native[name] = None
  OBVIOUS
<1>3. native \in [Names -> Contents] /\ fallback \in [Names -> Contents] /\ None \in Contents
  BY Loads, ValueFacts
<1> HIDE DEF moved
<1> QED BY <1>1, <1>2, <1>3

LEMMA BootInv == ASSUME StInv, NEW available \in BOOLEAN, Boot(available) PROVE StInv'
<1>1. /\ host' = [Down EXCEPT !.pc = "scan", !.c = host.c, !.sel = Sel, !.keyring = available,
                              !.boot = TRUE, !.drawn = host.drawn]
      /\ UNCHANGED <<disk, owed>> /\ StTypeOK
  BY DEF Boot, StInv
<1>2. /\ native' \in [Names -> Contents] /\ fallback' \in [Names -> Contents]
      /\ \A name \in Names : /\ native'[name] \in {native[name], fallback[name]}
                             /\ fallback'[name] \in {None, fallback[name]}
                             /\ native[name] # None => native'[name] = native[name]
  BY <1>1, BootMoves
<1>3. /\ host' \in Hosts /\ host'.sel \in {0, host'.c} /\ host'.pc = "scan" /\ host'.boot /\ ~host'.admitted
  BY <1>1 DEF Down, StTypeOK, Hosts, HostSteps, Sel
<1>4. Store(native)'
  BY <1>1, <1>2, NameFacts DEF StTypeOK, Store
<1>5. Store(fallback)'
  BY <1>1, <1>2, NameFacts, ValueFacts DEF StTypeOK, Store
<1>6. FallbackIsNew'
  <2>0. FallbackIsNew
    BY DEF StInv
  <2>1. fallback'[<<"legacy", 0>>] = None
    BY <1>2, <2>0, NameFacts DEF FallbackIsNew
  <2>2. fallback'[<<"auth", 0>>] # None => fallback'[<<"auth", 0>>].install # 0
    BY <1>2, <2>0, NameFacts DEF FallbackIsNew
  <2>3. ASSUME NEW n \in Records
        PROVE /\ fallback'[<<"runtime", n>>] # Import
              /\ fallback'[<<"staging", n>>] # None => fallback'[<<"staging", n>>].from = None
    <3>1. /\ fallback'[<<"runtime", n>>] \in {None, fallback[<<"runtime", n>>]}
          /\ fallback'[<<"staging", n>>] \in {None, fallback[<<"staging", n>>]}
      BY <1>2, NameFacts
    <3>2. Import # None
      BY ValueFacts
    <3> QED BY <2>0, <3>1, <3>2 DEF FallbackIsNew
  <2> QED BY <2>1, <2>2, <2>3 DEF FallbackIsNew
<1>7. /\ StTypeOK' /\ Inventoried'
      /\ Journal' = Journal /\ Marker' = Marker /\ Committed' = Committed
  BY <1>1, <1>3, <1>4, <1>5, WriteStep DEF StTypeOK
<1>8. Debt'
  <2>1. Journal # None => Journal.ns \in Records
    BY <1>1, Loads DEF Journals
  <2>2. "full" # None /\ Import # None
    BY StartAssumption, ValueFacts
  <2>3. host'.pc \notin Ending
    BY <1>3 DEF Ending
  <2> QED BY <1>1, <1>2, <1>7, <2>1, <2>2, <2>3, NameFacts DEF StInv, Debt, Imported
<1>9. InstallPlace' /\ AdoptPlace' /\ MigratePlace' /\ AcknowledgePlace' /\ ReadyPlace' /\ AdmittedPlace'
  BY <1>3
  DEF InstallPlace, AdoptPlace, MigratePlace, AcknowledgePlace, ReadyPlace, AdmittedPlace, At, Ending
<1>10. Flags'
  BY <1>3 DEF Flags, At
<1> QED BY <1>6, <1>7, <1>8, <1>9, <1>10 DEF StInv

-----------------------------------------------------------------------------
(* The invariant. *)

LEMMA StorageInitInv == ASSUME Init PROVE StInv
<1>1. PICK s \in Scenarios :
        /\ fallback = Nothing /\ host = Down /\ owed = (s.legacy = "full" /\ ~s.replay)
        /\ native = IF s.replay
                    THEN [Nothing EXCEPT ![<<"legacy", 0>>] = s.legacy, ![<<"auth", 0>>] = Enrolled,
                                         ![<<"runtime", 1>>] = Bound(TRUE), ![<<"staging", 1>>] = Projection]
                    ELSE [Nothing EXCEPT ![<<"legacy", 0>>] = s.legacy]
        /\ disk = [split |-> s.split,
                   journal |-> IF s.replay
                               THEN [phase |-> "Verified", ns |-> 1, of |-> <<s.legacy, s.split>>,
                                     pending |-> None, last |-> None]
                               ELSE None,
                   marker |-> IF s.replay
                              THEN [committed |-> TRUE, install |-> 0, fresh |-> None, namespaces |-> {1}]
                              ELSE None]
  BY DEF Init
<1>2. s.legacy \in {None, "full", "bare"} /\ s.split \in BOOLEAN /\ s.replay \in BOOLEAN
  BY StartAssumption
<1>3. 1 \in Records /\ 1 \in 1 .. Containers /\ 0 \in Records
  BY StartAssumption DEF Records
<1>4. Enrolled \in AuthRecords
  BY <1>3 DEF Enrolled, AuthRecords
<1>5. /\ Nothing \in [Names -> Contents] /\ \A name \in Names : Nothing[name] = None
  BY ValueFacts DEF Nothing
<1> HIDE DEF Nothing, Enrolled, Bound, Projection
<1>6. /\ Enrolled \in Contents /\ Bound(TRUE) \in Contents /\ Projection \in Contents
      /\ s.legacy \in Contents
  BY <1>2, <1>4, ValueFacts DEF Contents
<1>7. /\ native \in [Names -> Contents] /\ native[<<"legacy", 0>>] = s.legacy
      /\ native[<<"auth", 0>>] \in {None, Enrolled}
      /\ \A n \in Records : /\ native[<<"runtime", n>>] \in {None, Bound(TRUE)}
                            /\ native[<<"staging", n>>] \in {None, Projection}
  <2>1. CASE s.replay
    BY <1>1, <1>3, <1>5, <1>6, <2>1, NameFacts
  <2>2. CASE ~s.replay
    BY <1>1, <1>3, <1>5, <1>6, <2>2, NameFacts
  <2> QED BY <1>2, <2>1, <2>2
<1>8. Store(native) /\ Store(fallback)
  <2>1. /\ Bound(TRUE) \in RuntimeValues /\ Projection \in StagedValues
        /\ None \in RuntimeValues /\ None \in StagedValues
    BY ValueFacts
  <2>2. Store(native)
    BY <1>2, <1>4, <1>7, <2>1 DEF Store
  <2>3. Store(fallback)
    BY <1>1, <1>5, <2>1, NameFacts DEF Store
  <2> QED BY <2>2, <2>3
<1>9. FallbackIsNew
  BY <1>1, <1>5, NameFacts, ValueFacts DEF FallbackIsNew
<1>10. disk \in [split : BOOLEAN, journal : Journals \cup {None}, marker : Markers \cup {None}]
  <2>1. [committed |-> TRUE, install |-> 0, fresh |-> None, namespaces |-> {1}] \in Markers
    BY <1>3 DEF Markers
  <2>2. [phase |-> "Verified", ns |-> 1, of |-> <<s.legacy, s.split>>, pending |-> None, last |-> None]
          \in Journals
    BY <1>2, <1>3 DEF Journals, Late
  <2> QED BY <1>1, <1>2, <2>1, <2>2
<1>11. host \in Hosts /\ host.sel \in {0, host.c} /\ host.pc = "down"
  BY <1>1, <1>3 DEF Down, Hosts, HostSteps
<1>12. StTypeOK
  BY <1>1, <1>2, <1>8, <1>10, <1>11 DEF StTypeOK
<1>13. owed => Journal = None /\ native[<<"legacy", 0>>] = "full"
  BY <1>1, <1>7 DEF Journal
<1>14. Debt
  BY <1>11, <1>13 DEF Debt, Imported, Ending
<1>15. Inventoried
  <2>1. disk.journal # None => disk.journal.phase = "Verified"
    BY <1>1, <1>2
  <2> QED BY <2>1 DEF Inventoried, Journal
<1>16. InstallPlace /\ AdoptPlace /\ MigratePlace /\ AcknowledgePlace /\ ReadyPlace /\ AdmittedPlace
  BY <1>11
  DEF InstallPlace, AdoptPlace, MigratePlace, AcknowledgePlace, ReadyPlace, AdmittedPlace, At, Ending
<1>17. Flags
  BY <1>11 DEF Flags, At
<1> QED BY <1>9, <1>12, <1>14, <1>15, <1>16, <1>17 DEF StInv

LEMMA StartInv == ASSUME StInv, StartSteps PROVE StInv'
<1>1. CASE Scan  BY <1>1, ScanInv
<1>2. CASE InstallStage  BY <1>2, InstallStageInv
<1>3. CASE InstallAnnounce \/ InstallCommit  BY <1>3, InstallMarkerInv
<1>4. CASE InstallAuth  BY <1>4, InstallAuthInv
<1>5. CASE InstallRuntime  BY <1>5, InstallRuntimeInv
<1>6. CASE InstallClear  BY <1>6, InstallClearInv
<1>7. CASE AdoptRuntime  BY <1>7, AdoptRuntimeInv
<1>8. CASE AdoptClear  BY <1>8, AdoptClearInv
<1>9. CASE AdoptCommit  BY <1>9, AdoptCommitInv
<1>10. CASE ReplayIntent \/ ReplayDone  BY <1>10, ReplayJournalInv
<1>11. CASE ReplayAuth \/ MigrateAuth  BY <1>11, MigrateAuthInv
<1>12. CASE ReplayRuntime  BY <1>12, ReplayRuntimeInv
<1>13. CASE ReplayClear  BY <1>13, ReplayClearInv
<1>14. CASE MigrateBegin  BY <1>14, MigrateBeginInv
<1>15. CASE MigrateRuntime  BY <1>15, MigrateRuntimeInv
<1>16. CASE MigrateAdvance  BY <1>16, MigrateAdvanceInv
<1>17. CASE MigrateKnown  BY <1>17, MigrateKnownInv
<1>18. CASE WriteInventory  BY <1>18, WriteInventoryInv
<1>19. CASE Acknowledge  BY <1>19, AcknowledgeInv
<1>20. CASE Tombstone  BY <1>20, TombstoneInv
<1>21. CASE DeleteSplit  BY <1>21, DeleteSplitInv
<1>22. CASE CompleteMigration  BY <1>22, CompleteMigrationInv
<1>23. CASE AlreadyComplete  BY <1>23, AlreadyCompleteInv
<1>24. CASE Refuse  BY <1>24, RefuseInv
<1> QED BY <1>1, <1>2, <1>3, <1>4, <1>5, <1>6, <1>7, <1>8, <1>9, <1>10, <1>11, <1>12, <1>13, <1>14,
           <1>15, <1>16, <1>17, <1>18, <1>19, <1>20, <1>21, <1>22, <1>23, <1>24 DEF StartSteps

LEMMA StorageNextInv == ASSUME StInv, [Next]_vars PROVE StInv'
<1>1. CASE Boot(TRUE) \/ Boot(FALSE)  BY <1>1, BootInv
<1>2. CASE StartSteps  BY <1>2, StartInv
<1>3. CASE Enrol \/ Logout  BY <1>3, SessionInv
<1>4. CASE CleanAndBind \/ Work \/ CompleteLogout  BY <1>4, CleanAndBindInv
<1>5. CASE RuntimeReady  BY <1>5, RuntimeReadyInv
<1>6. CASE Select  BY <1>6, SelectInv
<1>7. CASE Update  BY <1>7, UpdateInv
<1>8. CASE Crash  BY <1>8, CrashInv
<1>9. CASE WriteFails  BY <1>9, WriteFailsInv
<1>10. CASE UNCHANGED vars
  <2>1. SameRecords /\ UNCHANGED <<disk, host, owed>>
    BY <1>10 DEF vars, SameRecords
  <2>2. StTypeOK' /\ FallbackIsNew' /\ Debt' /\ Inventoried'
    BY <2>1, QuietStep DEF StInv, StTypeOK
  <2>3. /\ Journal' = Journal /\ Marker' = Marker /\ Legacy' = Legacy /\ Auth' = Auth /\ Sel' = Sel
        /\ Runtime(Sel)' = Runtime(Sel) /\ Staging(Sel)' = Staging(Sel)
    BY <2>1, SameLoads DEF Journal, Marker, Sel, Runtime, Staging
  <2>4. InstallPlace' /\ AdoptPlace' /\ MigratePlace'
    BY <2>1, <2>3 DEF StInv, InstallPlace, AdoptPlace, MigratePlace, Committed, At
  <2>5. AcknowledgePlace' /\ AdmittedPlace'
    BY <2>1, <2>3 DEF StInv, AcknowledgePlace, AdmittedPlace, Migrated, At
  <2>6. ReadyPlace' /\ Flags'
    BY <2>1, <2>3 DEF StInv, ReadyPlace, HandedOut, Committed, Flags, At
  <2> QED BY <2>2, <2>4, <2>5, <2>6 DEF StInv
<1> QED BY <1>1, <1>2, <1>3, <1>4, <1>5, <1>6, <1>7, <1>8, <1>9, <1>10 DEF Next

LEMMA StorageInvariant == Spec => []StInv
<1>1. Init => StInv
  BY StorageInitInv
<1>2. StInv /\ [Next]_vars => StInv'
  BY StorageNextInv
<1> QED BY <1>1, <1>2, PTL DEF Spec

(* What a start hands out belongs to one installation, however many starts *)
(* before it were interrupted, lacked the secret store or were another     *)
(* container's: prepare_runtime_storage returns only records whose         *)
(* committed inventory names the selected record and the secret of         *)
(* "auth-v1", with no staged transaction left, and that secret is the old  *)
(* version's wherever its credentials are found.                           *)
THEOREM RecordsBelongTogether == Spec => [](At("ready") => HandedOut)
<1>1. StInv => (At("ready") => HandedOut)
  BY DEF StInv, ReadyPlace
<1> QED BY <1>1, StorageInvariant, PTL

-----------------------------------------------------------------------------
(* The debt. *)

(* A write into a record of another name. *)
LEMMA OtherWrite ==
    ASSUME StTypeOK, NEW name \in Names, NEW v, Put(name, v), NEW n \in Records, name # <<"runtime", n>>
    PROVE  native'[<<"runtime", n>>] = native[<<"runtime", n>>]
BY Loads, NameFacts DEF Put

(* A write into the selected runtime's record, which is not only to be     *)
(* cleaned up.                                                             *)
LEMMA RuntimeWrite ==
    ASSUME StTypeOK, FallbackIsNew, NEW v, Put(<<"runtime", Sel>>, v), NEW n \in Records,
           native[<<"runtime", n>>] # None, native[<<"runtime", n>>].only,
           Runtime(Sel) = None \/ ~Runtime(Sel).only
    PROVE  native'[<<"runtime", n>>] = native[<<"runtime", n>>]
<1>1. CASE n = Sel
  <2>1. host.keyring => Runtime(Sel) = native[<<"runtime", n>>]
    BY <1>1 DEF Runtime, Get
  <2>2. ~host.keyring
    BY <2>1
  <2> QED BY <2>2 DEF Put
<1>2. CASE n # Sel
  <2>1. <<"runtime", Sel>> \in Names /\ <<"runtime", Sel>> # <<"runtime", n>>
    BY <1>2, Loads, NameFacts
  <2> QED BY <2>1, OtherWrite
<1> QED BY <1>1, <1>2

(* A record that may only be cleaned up stays so through a start. *)
LEMMA OnlyIsKept ==
    ASSUME StInv, Next, ~At("ready"), NEW n \in Records,
           native[<<"runtime", n>>] # None, native[<<"runtime", n>>].only
    PROVE  native'[<<"runtime", n>>] = native[<<"runtime", n>>]
<1>1. StTypeOK /\ FallbackIsNew /\ Sel \in Records
  BY Loads DEF StInv
<1>2. /\ <<"auth", 0>> \in Names /\ <<"auth", 0>> # <<"runtime", n>>
      /\ <<"legacy", 0>> \in Names /\ <<"legacy", 0>> # <<"runtime", n>>
      /\ <<"staging", Sel>> \in Names /\ <<"staging", Sel>> # <<"runtime", n>> /\ <<"runtime", n>> \in Names
  BY <1>1, NameFacts
<1>3. CASE Boot(TRUE) \/ Boot(FALSE)
  BY <1>1, <1>2, <1>3, BootMoves
<1>4. CASE InstallStage
  BY <1>1, <1>2, <1>4, OtherWrite DEF InstallStage
<1>5. CASE InstallAuth \/ MigrateAuth \/ ReplayAuth
  BY <1>1, <1>2, <1>5, OtherWrite DEF InstallAuth, MigrateAuth, ReplayAuth, WriteRecord
<1>6. CASE InstallClear \/ AdoptClear \/ ReplayClear
  BY <1>1, <1>2, <1>6, OtherWrite DEF InstallClear, AdoptClear, ReplayClear, WriteRecord
<1>7. CASE Tombstone
  BY <1>1, <1>2, <1>7, OtherWrite DEF Tombstone, WriteRecord
<1>8. CASE InstallRuntime \/ AdoptRuntime \/ MigrateRuntime
  BY <1>1, <1>8, RuntimeWrite DEF InstallRuntime, AdoptRuntime, MigrateRuntime, WriteRecord
<1>9. CASE ReplayRuntime
  BY <1>1, <1>9, ReplayOver, RuntimeWrite DEF ReplayRuntime, WriteRecord
<1>10. CASE InstallAnnounce \/ InstallCommit \/ AdoptCommit \/ WriteInventory
  BY <1>10 DEF InstallAnnounce, InstallCommit, AdoptCommit, WriteInventory, WriteMarker, SameRecords
<1>11. CASE ReplayIntent \/ ReplayDone \/ MigrateBegin \/ MigrateAdvance \/ Acknowledge \/ CompleteMigration
  BY <1>11 DEF ReplayIntent, ReplayDone, MigrateBegin, MigrateAdvance, Advance, Acknowledge,
               CompleteMigration, WriteJournal, SameRecords
<1>12. CASE Scan \/ MigrateKnown \/ DeleteSplit \/ AlreadyComplete \/ Refuse
  BY <1>12 DEF Scan, MigrateKnown, DeleteSplit, AlreadyComplete, Refuse, SameRecords
<1>13. CASE Update \/ Crash \/ WriteFails
  BY <1>13 DEF Update, Crash, WriteFails, SameRecords
<1>14. ~(Enrol \/ CleanAndBind \/ RuntimeReady \/ Work \/ Logout \/ CompleteLogout \/ Select)
  BY DEF Enrol, CleanAndBind, RuntimeReady, Work, Logout, CompleteLogout, Select, Live
<1> QED BY <1>3, <1>4, <1>5, <1>6, <1>7, <1>8, <1>9, <1>10, <1>11, <1>12, <1>13, <1>14
        DEF Next, StartSteps

(* What the old version owes is never lost: until it is cleaned up it is   *)
(* in the old credentials, and from RuntimeWritten on in the record the    *)
(* migration made; no start changes a record that may only be cleaned up   *)
(* (startup.rs:124), whatever it finds and wherever it is interrupted.     *)
THEOREM DebtAlwaysKept == Spec => DebtIsKept
<1> DEFINE Step ==
      /\ owed' => native'[<<"legacy", 0>>] = "full"
      /\ owed' /\ Imported' =>
           LET r == native'[<<"runtime", Journal'.ns>>] IN r # None /\ r.only /\ r.debt
      /\ \A n \in Records :
           LET r == native[<<"runtime", n>>]
           IN r # None /\ r.only /\ ~At("ready") => native'[<<"runtime", n>>] = r
<1>1. ASSUME StInv, Next, StInv' PROVE Step
  <2>1. owed' => native'[<<"legacy", 0>>] = "full"
    BY <1>1 DEF StInv, Debt
  <2>2. owed' /\ Imported' => native'[<<"runtime", Journal'.ns>>] = Import
    BY <1>1 DEF StInv, Debt
  <2>3. Import # None /\ Import.only /\ Import.debt
    BY ValueFacts
  <2>4. \A n \in Records : native[<<"runtime", n>>] # None /\ native[<<"runtime", n>>].only /\ ~At("ready")
                             => native'[<<"runtime", n>>] = native[<<"runtime", n>>]
    BY <1>1, OnlyIsKept
  <2> QED BY <2>1, <2>2, <2>3, <2>4
<1>2. StInv /\ StInv' /\ [Next]_vars => [Step]_vars
  BY <1>1
<1> HIDE DEF Step
<1>3. Spec => [][Step]_vars
  BY <1>2, StorageInvariant, PTL DEF Spec
<1> QED BY <1>3 DEF DebtIsKept, Step
============================================================================
