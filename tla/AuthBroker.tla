----------------------------- MODULE AuthBroker -----------------------------
(***************************************************************************)
(* The container's authentication broker (auth_broker.rs) on the desktop:  *)
(* password login, the recoverable refresh of a rotating token pair,       *)
(* logout, and the restart of the owner, against a panel that may answer,  *)
(* fail, or handle a request after its caller has given up.                *)
(*                                                                         *)
(* `auth` is the protected record.  Every section under the broker's state *)
(* mutex is free of awaits, loads the record and saves it at most once, so *)
(* it is one action; the save may fail, which leaves the record as it was. *)
(* `issuance` is the mutex login and refresh hold across their HTTP        *)
(* request and logout never takes.  A login's operation id is drawn with   *)
(* its attempt number, which stands for both.  A token pair is             *)
(* [session, pair]: the panel's session and the number of the rotation.    *)
(* The family, the confirmed identity and the device change together, at   *)
(* an accepted login only, and are one field.                              *)
(*                                                                         *)
(* Runtime transitions (resume, reconcile, supersede) and Android's native *)
(* recovery are not part of this module: the record has no transition      *)
(* authority and no pending recovery here.                                 *)
(***************************************************************************)
EXTENDS Naturals, FiniteSets

CONSTANTS Callers,       \* concurrent calls of the broker
          Accounts,      \* account names given to login
          MaxSessions,   \* bound: sessions the panel creates
          MaxAttempts,   \* the largest next_attempt, u64::MAX in the code
          MaxEpoch,      \* the largest auth_epoch, u64::MAX in the code
          None

VARIABLES auth,          \* the protected record, AuthStoreV1 with its broker metadata
          task,          \* the call each caller is running
          issuance,      \* the holder of the issuance mutex
          refresh_retry, \* in memory: the last refresh operation tried
          sessions,      \* panel: its sessions
          rotations,     \* panel: the pair each refresh operation produced, 0 if none
          in_flight      \* requests whose caller is gone and the panel may yet handle

vars == <<auth, task, issuance, refresh_retry, sessions, rotations, in_flight>>

panel == <<sessions, rotations, in_flight>>

Sessions == 1 .. MaxSessions
Attempts == 1 .. MaxAttempts
Epochs == 0 .. MaxEpoch

Fences == [epoch : Epochs, family : Sessions \cup {None}]
Pairs == [session : Sessions, pair : 1 .. MaxAttempts + 1]
Tickets == [kind : {"Login", "Refresh"}, attempt : Attempts, epoch : Epochs,
            source : Sessions \cup {None}, prior : BOOLEAN]
LogoutProofs == [epoch : Epochs, session : Sessions]
Requests == [kind : {"Login"}, account : Accounts]
              \cup [kind : {"Refresh"}, attempt : Attempts, token : Pairs]
              \cup [kind : {"Logout"}, session : Sessions]

(* None is the code's Option::None.                                        *)
ASSUME BrokerAssumption ==
  /\ MaxSessions \in Nat /\ MaxAttempts \in Nat /\ MaxEpoch \in Nat
  /\ None \notin Callers /\ None \notin Accounts /\ None \notin Sessions
  /\ None \notin Epochs /\ None \notin Fences /\ None \notin Pairs
  /\ None \notin Tickets /\ None \notin LogoutProofs
  /\ None \notin [attempt : Attempts, terminal : BOOLEAN]

AuthRecords ==
  [auth_epoch : Epochs, logout_state : {"Active", "Pending", "LoggedOut"},
   token : Pairs \cup {None}, family : Sessions \cup {None},
   next_attempt : 0 .. MaxAttempts, pending_request : Tickets \cup {None},
   cancelled_login : Tickets \cup {None}, unknown : BOOLEAN,
   account : Accounts \cup {None}, pending_logout : LogoutProofs \cup {None},
   push_cleanup : Epochs \cup {None}]

Places == {"idle", "login_wait", "login_stop", "login_http", "login_error", "login_accept",
           "access_wait", "access_ticket", "refresh_next", "refresh_http", "refresh_accept",
           "logout_wait", "logout_begin", "logout_prepare", "logout_http", "logout_finish"}

Tasks ==
  [kind : {"none", "login", "access", "recover", "logout"}, pc : Places,
   fence : Fences \cup {None}, account : Accounts \cup {None},
   ticket : Tickets \cup {None}, token : Pairs \cup {None}, stale : Pairs \cup {None},
   proof : LogoutProofs \cup {None}, reply : Pairs \cup {None},
   stage : {"none", "recovery", "issuance"}, round : 0 .. 2,
   flag : BOOLEAN, overtaken : BOOLEAN]

(* `flag` is local to a step: a login known not to have been issued, or a  *)
(* refresh reply whose access token has already expired.  `overtaken` is   *)
(* history: a logout has advanced the epoch since the call began (since    *)
(* its request was prepared, for the owner's own recovery).                *)
Idle ==
  [kind |-> "none", pc |-> "idle", fence |-> None, account |-> None, ticket |-> None,
   token |-> None, stale |-> None, proof |-> None, reply |-> None, stage |-> "none", round |-> 0,
   flag |-> FALSE, overtaken |-> FALSE]

(* An install that has never authenticated: new() writes the metadata.     *)
Init ==
  /\ auth = [auth_epoch |-> 0, logout_state |-> "Active", token |-> None, family |-> None,
             next_attempt |-> 0, pending_request |-> None, cancelled_login |-> None,
             unknown |-> FALSE, account |-> None, pending_logout |-> None,
             push_cleanup |-> None]
  /\ task = [c \in Callers |-> Idle]
  /\ issuance = None
  /\ refresh_retry = None
  /\ sessions = [s \in Sessions |-> [status |-> "Absent", account |-> None, pair |-> 1]]
  /\ rotations = [a \in Attempts |-> 0]
  /\ in_flight = {}

-----------------------------------------------------------------------------
(* Helpers of the broker.                                                  *)

Fence(a) == [epoch |-> a.auth_epoch, family |-> a.family]

Active(a) == a.logout_state = "Active" /\ ~a.unknown

Snapshot(a) == Active(a) /\ a.token # None /\ a.family # None

PendingKind(a, kind) == a.pending_request # None /\ a.pending_request.kind = kind

OwnsTicket(a, t) ==
  /\ a.auth_epoch = t.epoch
  /\ a.logout_state = "Active"
  /\ a.family = t.source
  /\ a.next_attempt = t.attempt
  /\ a.pending_request = t

Fenced(a, t) == Active(a) /\ OwnsTicket(a, t)

Ticket(a, kind, prior) ==
  [kind |-> kind, attempt |-> a.next_attempt + 1, epoch |-> a.auth_epoch,
   source |-> a.family, prior |-> prior]

Begin(a, kind, prior) ==
  [a EXCEPT !.next_attempt = @ + 1, !.pending_request = Ticket(a, kind, prior)]

(* A call returns; a held issuance guard is dropped with it.               *)
Return(c) ==
  /\ task' = [task EXCEPT ![c] = Idle]
  /\ issuance' = IF issuance = c THEN None ELSE issuance

Goto(c, pc) == task' = [task EXCEPT ![c].pc = pc]

(* The section fails before anything is saved, because the store does or   *)
(* a checked_add overflows: the record is unchanged and the call returns.  *)
SaveFails(c) == UNCHANGED auth /\ Return(c)

Overtake(tasks) ==
  [d \in Callers |->
     IF \/ tasks[d].kind \in {"login", "access"}
        \/ tasks[d].kind = "recover" /\ tasks[d].ticket # None
     THEN [tasks[d] EXCEPT !.overtaken = TRUE] ELSE tasks[d]]

-----------------------------------------------------------------------------
(* The panel.  A login ends the account's earlier session on this install, *)
(* and an abandoned login of that account is not handled after it.         *)

Live(s) == sessions[s].status = "Live"

NewSession(s) == sessions[s].status = "Absent" /\ \A r \in 1 .. s - 1 : sessions[r].status # "Absent"

PanelLogin(s, account) ==
  /\ NewSession(s)
  /\ sessions' = [r \in Sessions |->
       IF r = s THEN [status |-> "Live", account |-> account, pair |-> 1]
       ELSE IF sessions[r].account = account /\ Live(r)
            THEN [sessions[r] EXCEPT !.status = "Revoked"]
            ELSE sessions[r]]
  /\ in_flight' = {r \in in_flight : r.kind # "Login" \/ r.account # account}
  /\ UNCHANGED rotations

(* The pair a refresh request is answered with, None if it is refused.     *)
RefreshReply(token, attempt) ==
  IF ~Live(token.session) THEN None
  ELSE IF rotations[attempt] # 0 THEN [token EXCEPT !.pair = rotations[attempt]]
  ELSE IF token.pair = sessions[token.session].pair THEN [token EXCEPT !.pair = @ + 1]
  ELSE None

(* An operation already answered is answered again.  A spent refresh token *)
(* under a new operation is taken for theft and revokes the session.       *)
PanelRefresh(token, attempt) ==
  LET s == token.session
      fresh == Live(s) /\ rotations[attempt] = 0
  IN  /\ sessions' =
           IF ~fresh THEN sessions
           ELSE IF token.pair = sessions[s].pair
                THEN [sessions EXCEPT ![s].pair = @ + 1]
                ELSE [sessions EXCEPT ![s].status = "Reused"]
      /\ rotations' =
           IF fresh /\ token.pair = sessions[s].pair
           THEN [rotations EXCEPT ![attempt] = token.pair + 1] ELSE rotations

PanelLogout(s) ==
  /\ sessions' = IF Live(s) THEN [sessions EXCEPT ![s].status = "Revoked"] ELSE sessions
  /\ UNCHANGED rotations

(* The HTTP request a call is waiting for.                                 *)
RequestOf(t) ==
  CASE t.pc = "login_http" -> {[kind |-> "Login", account |-> t.account]}
    [] t.pc = "refresh_http" ->
         {[kind |-> "Refresh", attempt |-> t.ticket.attempt, token |-> t.token]}
    [] t.pc = "logout_http" -> {[kind |-> "Logout", session |-> t.proof.session]}
    [] OTHER -> {}

(* A request without an answer: lost, handled already, or handled later.   *)
GiveUp(c) == in_flight' = in_flight \cup RequestOf(task[c]) /\ UNCHANGED <<sessions, rotations>>

(* The panel handles a request whose caller no longer waits.               *)
HandleLate ==
  /\ \E r \in in_flight :
       CASE r.kind = "Login" -> \E s \in Sessions : PanelLogin(s, r.account)
         [] r.kind = "Refresh" -> PanelRefresh(r.token, r.attempt) /\ in_flight' = in_flight \ {r}
         [] r.kind = "Logout" -> PanelLogout(r.session) /\ in_flight' = in_flight \ {r}
  /\ UNCHANGED <<auth, task, issuance, refresh_retry>>

-----------------------------------------------------------------------------
(* Login.                                                                  *)

(* capture_login_fence, then the wait for issuance.                        *)
BeginLogin(c) ==
  /\ task[c] = Idle
  /\ \E account \in Accounts :
       task' = [task EXCEPT ![c] = [Idle EXCEPT !.kind = "login", !.pc = "login_wait",
                                                !.fence = Fence(auth), !.account = account]]
  /\ UNCHANGED <<auth, issuance, refresh_retry, panel>>

ControlledUnknown == auth.unknown \/ PendingKind(auth, "Login")

(* Mutant: an unknown outcome may be resolved with another account.        *)
LoginAdmitted_AnyAccount(c) ==
  /\ Fence(auth) = task[c].fence
  /\ auth.pending_logout = None
  /\ \/ auth.logout_state = "LoggedOut"
     \/ ControlledUnknown
     \/ auth.logout_state = "Active" /\ auth.token = None /\ auth.family = None

(* Mutant: the fence taken before the wait is not compared after it.       *)
LoginAdmitted_Unfenced(c) ==
  /\ auth.pending_logout = None
  /\ ControlledUnknown => auth.account = task[c].account
  /\ \/ auth.logout_state = "LoggedOut"
     \/ ControlledUnknown
     \/ auth.logout_state = "Active" /\ auth.token = None /\ auth.family = None

LoginAdmitted(c) ==
  /\ Fence(auth) = task[c].fence
  /\ auth.pending_logout = None
  /\ ControlledUnknown => auth.account = task[c].account
  /\ \/ auth.logout_state = "LoggedOut"
     \/ ControlledUnknown
     \/ auth.logout_state = "Active" /\ auth.token = None /\ auth.family = None

LoginLocked(c) ==
  /\ task[c].pc = "login_wait" /\ issuance = None
  /\ IF ~LoginAdmitted(c) THEN UNCHANGED auth /\ Return(c)
     ELSE LET opened == [auth EXCEPT !.auth_epoch = @ + 1, !.logout_state = "Active",
                           !.unknown = FALSE, !.cancelled_login = None,
                           !.account = task[c].account]
          IN  \/ /\ auth.auth_epoch < MaxEpoch /\ auth.next_attempt < MaxAttempts
                 /\ auth' = Begin(opened, "Login", ControlledUnknown)
                 /\ task' = [task EXCEPT ![c].pc = "login_stop",
                                         ![c].ticket = auth'.pending_request]
                 /\ issuance' = c
              \/ SaveFails(c)
  /\ UNCHANGED <<refresh_retry, panel>>

(* The local stop precedes the request; if it fails nothing is sent.       *)
LoginStop(c) ==
  /\ task[c].pc = "login_stop"
  /\ \/ Goto(c, "login_http")
     \/ task' = [task EXCEPT ![c].pc = "login_error", ![c].flag = TRUE]
  /\ UNCHANGED <<auth, issuance, refresh_retry, panel>>

(* The panel accepts, rejects with a login rejection, or does not answer.  *)
LoginAnswer(c) ==
  /\ task[c].pc = "login_http"
  /\ \/ \E s \in Sessions :
          /\ PanelLogin(s, task[c].account)
          /\ task' = [task EXCEPT ![c].pc = "login_accept",
                                  ![c].reply = [session |-> s, pair |-> 1]]
     \/ /\ task' = [task EXCEPT ![c].pc = "login_error", ![c].flag = TRUE]
        /\ UNCHANGED panel
     \/ GiveUp(c) /\ Goto(c, "login_error")
  /\ UNCHANGED <<auth, issuance, refresh_retry>>

LoginError(c) ==
  /\ task[c].pc = "login_error"
  /\ LET t == task[c].ticket
         rejected == [auth EXCEPT !.pending_request = None, !.account = None,
                                  !.unknown = FALSE, !.logout_state = "LoggedOut"]
     IN  \/ /\ auth' = IF ~OwnsTicket(auth, t) THEN auth
                       ELSE IF task[c].flag /\ ~t.prior THEN rejected
                       ELSE [auth EXCEPT !.unknown = TRUE]
            /\ Return(c)
         \/ SaveFails(c)
  /\ UNCHANGED <<refresh_retry, panel>>

(* The answer to a login a logout has cancelled in the meantime.           *)
Cancelled(t) ==
  /\ auth.logout_state = "Pending"
  /\ auth.family = t.source
  /\ auth.auth_epoch = t.epoch + 1
  /\ auth.cancelled_login = t

(* The session of a cancelled or unacceptable answer is to be revoked.     *)
KeepProof(a, session) ==
  [a EXCEPT !.pending_logout = [epoch |-> a.auth_epoch, session |-> session],
            !.cancelled_login = None, !.pending_request = None, !.unknown = FALSE]

AcceptLogin(a, token) ==
  [a EXCEPT !.token = token, !.family = token.session, !.pending_request = None,
            !.account = None, !.push_cleanup = None]

(* The answer is valid, names another identity, or carries no usable proof.*)
LoginAccept(c) ==
  /\ task[c].pc = "login_accept"
  /\ LET t == task[c].ticket
         reply == task[c].reply
         owned == OwnsTicket(auth, t)
         revoked == IF owned THEN [auth EXCEPT !.auth_epoch = @ + 1, !.logout_state = "Pending"]
                    ELSE auth
     IN  \E answer \in {"valid", "mismatch", "proofless"} :
           \/ /\ Cancelled(t) \/ (owned /\ answer # "valid")
              /\ answer # "proofless"
              /\ \/ /\ owned => auth.auth_epoch < MaxEpoch
                    /\ auth' = KeepProof(revoked, reply.session)
                    /\ task' = [task EXCEPT ![c].pc = "logout_begin", ![c].fence = None,
                                            ![c].ticket = None]
                    /\ UNCHANGED issuance
                 \/ SaveFails(c)
           \/ /\ Cancelled(t) \/ owned
              /\ answer = "proofless"
              /\ \/ /\ auth' = IF owned THEN [auth EXCEPT !.unknown = TRUE] ELSE auth
                    /\ Return(c)
                 \/ SaveFails(c)
           \/ /\ ~Cancelled(t)
              /\ answer = "valid"
              /\ \/ /\ auth' = IF Fenced(auth, t) THEN AcceptLogin(auth, reply) ELSE auth
                    /\ Return(c)
                 \/ SaveFails(c)
  /\ UNCHANGED <<refresh_retry, panel>>

-----------------------------------------------------------------------------
(* Access token and recoverable refresh.                                   *)

(* A runtime observes its access and asks for a token, with the one that   *)
(* was refused to it if it holds one.                                      *)
BeginAccess(c) ==
  /\ task[c] = Idle /\ Snapshot(auth)
  /\ \E stale \in {None, auth.token} :
       task' = [task EXCEPT ![c] = [Idle EXCEPT !.kind = "access", !.pc = "access_wait",
                                                !.fence = Fence(auth), !.stale = stale]]
  /\ UNCHANGED <<auth, issuance, refresh_retry, panel>>

(* The owner recovers a refresh left pending, before it admits a runtime.  *)
BeginRecovery(c) ==
  /\ task[c] = Idle
  /\ task' = [task EXCEPT ![c] = [Idle EXCEPT !.kind = "recover", !.pc = "access_wait"]]
  /\ UNCHANGED <<auth, issuance, refresh_retry, panel>>

AccessLocked(c) ==
  /\ task[c].pc = "access_wait" /\ issuance = None
  /\ IF task[c].fence \in {None, Fence(auth)}
     THEN /\ issuance' = c
          /\ task' = [task EXCEPT ![c].pc = "refresh_next", ![c].stage = "recovery",
                                  ![c].round = 1]
     ELSE Return(c)
  /\ UNCHANGED <<auth, refresh_retry, panel>>

(* recover_pending_refresh_locked returned Ok.                             *)
Recovered(c) ==
  IF task[c].kind = "access" /\ task[c].stage = "recovery"
  THEN /\ task' = [task EXCEPT ![c] = [@ EXCEPT !.pc = "access_ticket", !.ticket = None,
                                              !.token = None, !.reply = None]]
       /\ UNCHANGED issuance
  ELSE Return(c)

(* The head of the recovery loop: the pending refresh is sent, unless it   *)
(* was rejected for good or its backoff is still running.                  *)
RefreshNext(c) ==
  /\ task[c].pc = "refresh_next"
  /\ LET t == auth.pending_request
         tried == refresh_retry # None /\ refresh_retry.attempt = t.attempt
     IN  IF ~PendingKind(auth, "Refresh") THEN Recovered(c) /\ UNCHANGED refresh_retry
         ELSE \/ /\ \/ ~Fenced(auth, t)
                    \/ auth.pending_logout # None
                    \/ auth.token = None
                    \/ tried
                 /\ Return(c) /\ UNCHANGED refresh_retry
              \/ /\ Fenced(auth, t) /\ auth.pending_logout = None /\ auth.token # None
                 /\ tried => ~refresh_retry.terminal
                 /\ refresh_retry' = [attempt |-> t.attempt, terminal |-> FALSE]
                 /\ task' = [task EXCEPT ![c].pc = "refresh_http", ![c].ticket = t,
                                         ![c].token = auth.token]
                 /\ UNCHANGED issuance
  /\ UNCHANGED <<auth, panel>>

(* The panel answers, possibly with a pair whose access has expired since  *)
(* it was first issued; or refuses; or the request fails, for good or not. *)
RefreshAnswer(c) ==
  /\ task[c].pc = "refresh_http"
  /\ LET token == task[c].token
         attempt == task[c].ticket.attempt
         reply == RefreshReply(token, attempt)
     IN  \/ /\ reply # None
            /\ PanelRefresh(token, attempt) /\ UNCHANGED in_flight
            /\ \E expired \in {FALSE, rotations[attempt] # 0} :
                 task' = [task EXCEPT ![c].pc = "refresh_accept", ![c].reply = reply,
                                      ![c].flag = expired]
            /\ UNCHANGED <<issuance, refresh_retry>>
         \/ /\ reply = None
            /\ PanelRefresh(token, attempt) /\ UNCHANGED in_flight
            /\ refresh_retry' = [attempt |-> attempt, terminal |-> TRUE]
            /\ Return(c)
         \/ /\ GiveUp(c)
            /\ \E terminal \in BOOLEAN :
                 refresh_retry' = [attempt |-> attempt, terminal |-> terminal]
            /\ Return(c)
  /\ UNCHANGED auth

(* Mutant: the operation is finished and the new pair is not saved.        *)
InstallPair_KeepsOld(a, token) == [a EXCEPT !.pending_request = None]

InstallPair(a, token) == [a EXCEPT !.token = token, !.pending_request = None]

RefreshAccept(c) ==
  /\ task[c].pc = "refresh_accept"
  /\ LET installed == InstallPair(auth, task[c].reply)
     IN  IF ~Fenced(auth, task[c].ticket) THEN Return(c) /\ UNCHANGED <<auth, refresh_retry>>
         ELSE \/ /\ Return(c) /\ UNCHANGED auth   \* the answer names another identity
                 /\ refresh_retry' = [attempt |-> task[c].ticket.attempt, terminal |-> TRUE]
              \/ SaveFails(c) /\ UNCHANGED refresh_retry
              \/ /\ ~task[c].flag
                 /\ auth' = installed
                 /\ refresh_retry' = None
                 /\ Recovered(c)
              \/ /\ task[c].flag /\ auth.next_attempt < MaxAttempts
                 /\ auth' = Begin(installed, "Refresh", FALSE)
                 /\ refresh_retry' = None
                 /\ IF task[c].round = 2 THEN Return(c)
                    ELSE /\ task' = [task EXCEPT ![c] =
                              [@ EXCEPT !.pc = "refresh_next", !.round = 2, !.flag = FALSE,
                                        !.ticket = None, !.token = None, !.reply = None]]
                         /\ UNCHANGED issuance
  /\ UNCHANGED panel

(* With nothing pending, a refresh begins if the current token is the one  *)
(* that was refused.                                                       *)
AccessTicket(c) ==
  /\ task[c].pc = "access_ticket"
  /\ LET refresh == /\ task[c].fence = Fence(auth)
                    /\ Snapshot(auth)
                    /\ auth.pending_request = None
                    /\ task[c].stale = auth.token
     IN  \/ ~refresh /\ UNCHANGED auth /\ Return(c)
         \/ /\ refresh /\ auth.next_attempt < MaxAttempts
            /\ auth' = Begin(auth, "Refresh", FALSE)
            /\ task' = [task EXCEPT ![c].pc = "refresh_next", ![c].stage = "issuance",
                                    ![c].round = 1]
            /\ UNCHANGED issuance
         \/ refresh /\ SaveFails(c)
  /\ UNCHANGED <<refresh_retry, panel>>

-----------------------------------------------------------------------------
(* Logout.  It never waits for issuance.                                   *)

(* The application's own logout, or one a runtime asks for with the scope  *)
(* it last saw.                                                            *)
BeginLogout(c) ==
  /\ task[c] = Idle
  /\ \E scope \in {None, Fence(auth)} :
       task' = [task EXCEPT ![c] = [Idle EXCEPT !.kind = "logout", !.fence = scope,
                  !.pc = IF scope = None THEN "logout_begin" ELSE "logout_wait"]]
  /\ UNCHANGED <<auth, issuance, refresh_retry, panel>>

(* The runtime's request may name its own login that is still running.     *)
LogoutReceived(c) ==
  /\ task[c].pc = "logout_wait"
  /\ \E t \in {None} \cup {task[d].ticket : d \in {d \in Callers :
                             task[d].kind = "login" /\ task[d].fence = task[c].fence}} :
       task' = [task EXCEPT ![c].pc = "logout_begin", ![c].ticket = t]
  /\ UNCHANGED <<auth, issuance, refresh_retry, panel>>

ScopeCovers(c) ==
  LET scope == task[c].fence
      t == task[c].ticket
  IN  \/ scope \in {None, Fence(auth)}
      \/ /\ t # None
         /\ OwnsTicket(auth, t)
         /\ scope = [epoch |-> t.epoch - 1, family |-> t.source]

NeverAuthenticated(a) ==
  /\ a.family = None /\ a.token = None /\ ~a.unknown
  /\ a.pending_request = None /\ a.cancelled_login = None

(* The durable fence of a logout, by the state it finds.                   *)
LogoutFence(a) ==
  LET next == [a EXCEPT !.auth_epoch = @ + 1]
  IN  CASE a.logout_state = "Pending" -> a
        [] a.logout_state = "LoggedOut" ->
             [next EXCEPT !.push_cleanup = IF @ = None THEN None ELSE next.auth_epoch]
        [] a.logout_state = "Active" /\ NeverAuthenticated(a) ->
             [next EXCEPT !.logout_state = "LoggedOut"]
        [] OTHER ->
             [next EXCEPT
                !.logout_state = "Pending",
                !.cancelled_login = IF PendingKind(a, "Login") THEN a.pending_request ELSE @,
                !.unknown = @ \/ PendingKind(a, "Login"),
                !.pending_request = None,
                !.pending_logout = IF a.token = None THEN None
                                   ELSE [epoch |-> next.auth_epoch, session |-> a.token.session]]

(* A logged-out owner with no push cleanup left only repeats the stop.     *)
LogoutBegin(c) ==
  /\ task[c].pc = "logout_begin"
  /\ LET fenced == LogoutFence(auth)
         done == fenced.logout_state = "LoggedOut" /\ fenced.push_cleanup = None
         tasks == IF fenced.auth_epoch = auth.auth_epoch THEN task ELSE Overtake(task)
     IN  IF ~ScopeCovers(c) THEN UNCHANGED auth /\ Return(c)
         ELSE \/ /\ fenced.auth_epoch <= MaxEpoch
                 /\ auth' = fenced
                 /\ task' = [tasks EXCEPT ![c] =
                      IF done THEN Idle
                      ELSE [@ EXCEPT !.pc = "logout_prepare", !.fence = Fence(fenced),
                                     !.proof = fenced.pending_logout, !.ticket = None]]
                 /\ issuance' = IF done /\ issuance = c THEN None ELSE issuance
              \/ SaveFails(c)
  /\ UNCHANGED <<refresh_retry, panel>>

(* prepare_revocation: the native cleanup is journaled for this epoch.     *)
LogoutPrepare(c) ==
  /\ task[c].pc = "logout_prepare"
  /\ LET epoch == task[c].fence.epoch
         current == /\ auth.auth_epoch = epoch
                    /\ \/ auth.logout_state = "Pending"
                       \/ auth.logout_state = "LoggedOut" /\ auth.push_cleanup = epoch
     IN  \/ /\ current
            /\ auth' = [auth EXCEPT !.push_cleanup = epoch]
            /\ IF task[c].proof = None THEN Return(c)
               ELSE Goto(c, "logout_http") /\ UNCHANGED issuance
         \/ SaveFails(c)
  /\ UNCHANGED <<refresh_retry, panel>>

LogoutAnswer(c) ==
  /\ task[c].pc = "logout_http"
  /\ \/ /\ PanelLogout(task[c].proof.session) /\ UNCHANGED in_flight
        /\ Goto(c, "logout_finish") /\ UNCHANGED issuance
     \/ GiveUp(c) /\ Return(c)
  /\ UNCHANGED <<auth, refresh_retry>>

LogoutFinish(c) ==
  /\ task[c].pc = "logout_finish"
  /\ LET current == /\ auth.auth_epoch = task[c].fence.epoch
                    /\ auth.logout_state = "Pending"
                    /\ auth.pending_logout = task[c].proof
     IN  \/ /\ auth' = IF current
                       THEN [auth EXCEPT !.token = None, !.logout_state = "LoggedOut",
                                         !.pending_logout = None, !.account = None]
                       ELSE auth
            /\ Return(c)
         \/ SaveFails(c)
  /\ UNCHANGED <<refresh_retry, panel>>

-----------------------------------------------------------------------------
(* The owner.                                                              *)

(* replay_push_cleanup and the task prepare_revocation spawns.             *)
PushCleanup ==
  /\ auth.push_cleanup # None
  /\ auth' = [auth EXCEPT !.push_cleanup = None]
  /\ UNCHANGED <<task, issuance, refresh_retry, panel>>

(* The caller's deadline drops the future at an await.                     *)
Abandon(c) ==
  /\ task[c] # Idle
  /\ GiveUp(c)
  /\ Return(c)
  /\ UNCHANGED <<auth, refresh_retry>>

(* The process ends; new() marks a login it finds pending.                 *)
Restart ==
  /\ task' = [c \in Callers |-> Idle]
  /\ issuance' = None
  /\ refresh_retry' = None
  /\ auth' = [auth EXCEPT !.unknown = @ \/ PendingKind(auth, "Login")]
  /\ in_flight' = in_flight \cup UNION {RequestOf(task[c]) : c \in Callers}
  /\ UNCHANGED <<sessions, rotations>>

LogoutStep(c) ==
  \/ LogoutReceived(c) \/ LogoutBegin(c) \/ LogoutPrepare(c)
  \/ LogoutAnswer(c) \/ LogoutFinish(c)

Step(c) ==
  \/ BeginLogin(c) \/ LoginLocked(c) \/ LoginStop(c) \/ LoginAnswer(c)
  \/ LoginError(c) \/ LoginAccept(c)
  \/ BeginAccess(c) \/ BeginRecovery(c) \/ AccessLocked(c) \/ RefreshNext(c)
  \/ RefreshAnswer(c) \/ RefreshAccept(c) \/ AccessTicket(c)
  \/ BeginLogout(c) \/ LogoutStep(c)
  \/ Abandon(c)

Next == (\E c \in Callers : Step(c)) \/ HandleLate \/ PushCleanup \/ Restart

Spec == Init /\ [][Next]_vars

-----------------------------------------------------------------------------
(* Properties.                                                             *)

(* A password login whose outcome is not known is written down.            *)
LoginUnresolved == auth.unknown \/ PendingKind(auth, "Login")

(* The shape of the protected record, of a call and of the panel.         *)
TypeOK ==
  /\ auth \in AuthRecords
  /\ task \in [Callers -> Tasks]
  /\ issuance \in Callers \cup {None}
  /\ refresh_retry \in [attempt : Attempts, terminal : BOOLEAN] \cup {None}
  /\ sessions \in [Sessions -> [status : {"Absent", "Live", "Revoked", "Reused"},
                                account : Accounts \cup {None}, pair : 1 .. MaxAttempts + 1]]
  /\ rotations \in [Attempts -> 0 .. MaxAttempts + 1]
  /\ in_flight \subseteq Requests

(* No session is lost: each one alive at the panel is the one the record   *)
(* holds the tokens of, or the one its pending logout will revoke, or the  *)
(* record says that a login of its account has an unknown outcome; and     *)
(* when the record says LoggedOut nothing is alive at the panel.           *)
EverySessionIsAccounted ==
  /\ TypeOK
  /\ \A s \in Sessions : Live(s) =>
       /\ auth.logout_state # "LoggedOut"
       /\ \/ auth.token # None /\ auth.token.session = s
          \/ auth.pending_logout # None /\ auth.pending_logout.session = s
          \/ LoginUnresolved /\ auth.account = sessions[s].account

(* A signed-in broker can always refresh: its pair is the panel's current  *)
(* one, or the record still holds the operation that rotated it; so the    *)
(* panel never sees a spent refresh token under a new operation and never  *)
(* revokes the broker's session as stolen (refresh, Restart).              *)
PairIsRecoverable ==
  \A s \in Sessions :
    /\ sessions[s].status # "Reused"
    /\ Live(s) /\ auth.logout_state = "Active" /\ auth.token # None /\ auth.token.session = s =>
         \/ auth.token.pair = sessions[s].pair
         \/ /\ PendingKind(auth, "Refresh")
            /\ rotations[auth.pending_request.attempt] = sessions[s].pair
            /\ sessions[s].pair = auth.token.pair + 1

(* A call that was overtaken leaves nothing behind: a login or refresh     *)
(* that a logout has overtaken never installs its tokens, be it queued for *)
(* issuance, waiting for the panel, or holding the answer, and a logout    *)
(* that was slow does not stage its push cleanup in the session that       *)
(* followed.                                                               *)
OvertakenCallLeavesNothing ==
  [][/\ auth'.token \notin {None, auth.token} =>
          \E c \in Callers : /\ task[c].pc \in {"login_accept", "refresh_accept"}
                             /\ task[c].reply = auth'.token
                             /\ ~task[c].overtaken
     /\ auth'.logout_state = "Active" /\ auth'.token # None => auth'.push_cleanup = None]_vars
=============================================================================
