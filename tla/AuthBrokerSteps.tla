------------------------- MODULE AuthBrokerSteps --------------------------
(***************************************************************************)
(* The inductive invariant of AuthBroker, the lemmas about the broker's    *)
(* record, its calls and the panel's sessions, and the steps of the panel, *)
(* of its answers, of a restart and of the native cleanup.                 *)
(* AuthBrokerProofs has the other steps and the theorems.                  *)
(***************************************************************************)
EXTENDS AuthBroker, TLAPS

LoginHeld == {"login_stop", "login_http", "login_error", "login_accept"}
RefreshHeld == {"access_ticket", "refresh_next", "refresh_http", "refresh_accept"}

(* What a call at a step holds. *)
Arguments(t) ==
  /\ t.pc = "login_wait" => t.fence # None
  /\ t.pc = "access_wait" =>
       \/ t.kind = "access" /\ t.fence # None
       \/ t.kind = "recover" /\ t.ticket = None
  /\ t.pc \in {"login_wait", "login_stop", "login_http"} => t.account # None /\ ~t.flag
  /\ t.pc \in LoginHeld => t.ticket # None /\ t.ticket.kind = "Login"
  /\ t.pc \in {"refresh_http", "refresh_accept"} => t.ticket # None /\ t.token # None
  /\ t.pc \in {"login_accept", "refresh_accept"} => t.reply # None
  /\ t.pc \in {"logout_prepare", "logout_http", "logout_finish"} => t.fence # None
  /\ t.pc \in {"logout_http", "logout_finish"} => t.proof # None

Issued(s) == sessions[s].status # "Absent"

(* No login of an earlier call can still reach the panel.                  *)
NoLateLogin == \A r \in in_flight : r.kind # "Login"

NothingIssued == NoLateLogin /\ \A s \in Sessions : ~Live(s)

(* A refresh request that may yet rotate the pair of a session that is     *)
(* alive is of the record's last operation, for the record's own pair.     *)
Outstanding(token, attempt) ==
  /\ token.pair < attempt /\ attempt <= auth.next_attempt
  /\ Issued(token.session)
  /\ Live(token.session) /\ rotations[attempt] = 0 =>
       /\ token = auth.token /\ token.pair = sessions[token.session].pair
       /\ attempt = auth.next_attempt
       /\ auth.logout_state = "Pending" \/ PendingKind(auth, "Refresh")

(* The call that holds issuance for a login: the record names its ticket,  *)
(* as pending or as cancelled; the answer it holds is the only session     *)
(* alive; a login that may be reported as not issued was not issued.       *)
LoginTask(c) ==
  task[c].pc \in LoginHeld =>
    /\ task[c].account = auth.account
    /\ \/ OwnsTicket(auth, task[c].ticket) /\ ~auth.unknown
       \/ Cancelled(task[c].ticket) /\ auth.unknown
    /\ task[c].pc = "login_accept" =>
         /\ NoLateLogin
         /\ task[c].reply.pair = 1
         /\ \A s \in Sessions : Live(s) => s = task[c].reply.session /\ sessions[s].pair = 1
    /\ /\ ~task[c].ticket.prior
       /\ \/ task[c].pc \in {"login_stop", "login_http"}
          \/ task[c].pc = "login_error" /\ task[c].flag
       => NothingIssued

(* The call that holds issuance for a refresh sends the record's pair, and *)
(* its answer is what the panel has noted for the operation.               *)
RefreshTask(c) ==
  /\ task[c].pc \in {"refresh_http", "refresh_accept"} =>
       /\ task[c].ticket.attempt <= auth.next_attempt
       /\ OwnsTicket(auth, task[c].ticket) => auth.token = task[c].token
  /\ task[c].pc = "refresh_http" => Outstanding(task[c].token, task[c].ticket.attempt)
  /\ task[c].pc = "refresh_accept" =>
       /\ task[c].reply.session = task[c].token.session
       /\ task[c].reply.pair = rotations[task[c].ticket.attempt]

(* The sessions a call knows exist, and a confirmed revocation is true.    *)
KnownTask(c) ==
  /\ task[c].proof # None => Issued(task[c].proof.session)
  /\ task[c].reply # None => Issued(task[c].reply.session)
  /\ task[c].pc = "logout_finish" => ~Live(task[c].proof.session)

(* An overtaken call holds issuance only while nobody is signed in, and    *)
(* the fence of one that waits is of an earlier epoch.                     *)
OvertakenTask(c) ==
  /\ task[c].pc \in {"login_wait", "access_wait"} /\ task[c].fence # None =>
       task[c].fence.epoch <= auth.auth_epoch
  /\ task[c].overtaken =>
       /\ issuance = c => auth.logout_state # "Active"
       /\ task[c].pc \in {"login_wait", "access_wait"} =>
            task[c].fence # None /\ task[c].fence.epoch < auth.auth_epoch

TaskInv(c) ==
  /\ task[c].pc \in LoginHeld \cup RefreshHeld => issuance = c
  /\ Arguments(task[c])
  /\ LoginTask(c) /\ RefreshTask(c) /\ KnownTask(c) /\ OvertakenTask(c)

(* The fields of the record agree with each other.                         *)
RecordIsSound ==
  /\ auth.logout_state # "Active" => auth.pending_request = None
  /\ auth.logout_state = "LoggedOut" => auth.token = None /\ ~auth.unknown
  /\ LoginUnresolved => auth.token = None /\ auth.pending_logout = None
  /\ auth.pending_logout # None =>
       /\ auth.logout_state = "Pending"
       /\ auth.token # None => auth.token.session = auth.pending_logout.session
       /\ Issued(auth.pending_logout.session)
  /\ auth.pending_request # None => auth.pending_request.attempt = auth.next_attempt
  /\ auth.token # None =>
       /\ Issued(auth.token.session)
       /\ auth.token.pair <= auth.next_attempt
       /\ PendingKind(auth, "Refresh") => auth.token.pair < auth.next_attempt
       /\ auth.logout_state = "Active" => auth.push_cleanup = None

(* A request whose caller is gone is covered by the record.                *)
LateRequests ==
  \A r \in in_flight :
    /\ r.kind = "Login" => LoginUnresolved /\ auth.account = r.account
    /\ r.kind = "Refresh" => Outstanding(r.token, r.attempt)

Rotated == \A a \in Attempts : rotations[a] <= a /\ (a > auth.next_attempt => rotations[a] = 0)

PairIsCurrent ==
  /\ \A s \in Sessions : sessions[s].status # "Reused"
  /\ auth.logout_state = "Active" /\ auth.token # None /\ Live(auth.token.session) =>
       IF PendingKind(auth, "Refresh") /\ rotations[auth.pending_request.attempt] # 0
       THEN /\ sessions[auth.token.session].pair = rotations[auth.pending_request.attempt]
            /\ sessions[auth.token.session].pair = auth.token.pair + 1
       ELSE sessions[auth.token.session].pair = auth.token.pair

Accounted ==
  \A s \in Sessions : Live(s) =>
    /\ auth.logout_state # "LoggedOut"
    /\ \/ auth.token # None /\ auth.token.session = s
       \/ auth.pending_logout # None /\ auth.pending_logout.session = s
       \/ LoginUnresolved /\ auth.account = sessions[s].account

AbInv ==
  /\ TypeOK /\ Accounted
  /\ RecordIsSound /\ LateRequests /\ Rotated /\ PairIsCurrent
  /\ \A c \in Callers : TaskInv(c)

-----------------------------------------------------------------------------
(* The proofs. *)

(* A fresh install satisfies the invariant. *)
LEMMA InitInv == Init => AbInv
<1> SUFFICES ASSUME Init PROVE AbInv
  OBVIOUS
<1>1. Idle \in Tasks
  BY BrokerAssumption DEF Idle, Tasks, Places
<1>2. TypeOK
  BY <1>1, BrokerAssumption
  DEF Init, TypeOK, AuthRecords, Epochs, Attempts
<1>3. Accounted
  BY DEF Init, Accounted, Live
<1>4. RecordIsSound /\ LateRequests /\ Rotated /\ PairIsCurrent
  BY BrokerAssumption DEF Init, RecordIsSound, LateRequests, Rotated, PairIsCurrent, LoginUnresolved,
     PendingKind, Attempts
<1>5. \A c \in Callers : TaskInv(c)
  BY DEF Init, Idle, TaskInv, Arguments, LoginTask, RefreshTask, KnownTask, OvertakenTask,
         LoginHeld, RefreshHeld
<1> QED BY <1>1, <1>2, <1>3, <1>4, <1>5 DEF AbInv

(* A call that has returned is bound by nothing. *)
LEMMA IdleTask == ASSUME NEW c, task'[c] = Idle PROVE TaskInv(c)'
BY DEF Idle, TaskInv, Arguments, LoginTask, RefreshTask, KnownTask, OvertakenTask,
       LoginHeld, RefreshHeld

LEMMA IdleType == Idle \in Tasks
BY BrokerAssumption DEF Idle, Tasks, Places

(* A call stays a call when one of its fields is given a value of its type. *)
LEMMA TaskFields ==
    ASSUME NEW t \in Tasks
    PROVE  /\ \A x \in Places : [t EXCEPT !.pc = x] \in Tasks
           /\ \A x \in {"none", "login", "access", "recover", "logout"} : [t EXCEPT !.kind = x] \in Tasks
           /\ \A x \in Fences \cup {None} : [t EXCEPT !.fence = x] \in Tasks
           /\ \A x \in Accounts \cup {None} : [t EXCEPT !.account = x] \in Tasks
           /\ \A x \in Tickets \cup {None} : [t EXCEPT !.ticket = x] \in Tasks
           /\ \A x \in Pairs \cup {None} : [t EXCEPT !.token = x] \in Tasks
           /\ \A x \in Pairs \cup {None} : [t EXCEPT !.stale = x] \in Tasks
           /\ \A x \in Pairs \cup {None} : [t EXCEPT !.reply = x] \in Tasks
           /\ \A x \in LogoutProofs \cup {None} : [t EXCEPT !.proof = x] \in Tasks
           /\ \A x \in {"none", "recovery", "issuance"} : [t EXCEPT !.stage = x] \in Tasks
           /\ \A x \in 0 .. 2 : [t EXCEPT !.round = x] \in Tasks
           /\ \A x \in BOOLEAN : [t EXCEPT !.flag = x] \in Tasks
           /\ \A x \in BOOLEAN : [t EXCEPT !.overtaken = x] \in Tasks
<1>1. \A x \in Places : [t EXCEPT !.pc = x] \in Tasks
  BY DEF Tasks
<1>2. \A x \in {"none", "login", "access", "recover", "logout"} : [t EXCEPT !.kind = x] \in Tasks
  BY DEF Tasks
<1>3. \A x \in Fences \cup {None} : [t EXCEPT !.fence = x] \in Tasks
  BY DEF Tasks
<1>4. \A x \in Accounts \cup {None} : [t EXCEPT !.account = x] \in Tasks
  BY DEF Tasks
<1>5. \A x \in Tickets \cup {None} : [t EXCEPT !.ticket = x] \in Tasks
  BY DEF Tasks
<1>6. \A x \in Pairs \cup {None} : [t EXCEPT !.token = x] \in Tasks
  BY DEF Tasks
<1>7. \A x \in Pairs \cup {None} : [t EXCEPT !.stale = x] \in Tasks
  BY DEF Tasks
<1>8. \A x \in Pairs \cup {None} : [t EXCEPT !.reply = x] \in Tasks
  BY DEF Tasks
<1>9. \A x \in LogoutProofs \cup {None} : [t EXCEPT !.proof = x] \in Tasks
  BY DEF Tasks
<1>10. \A x \in {"none", "recovery", "issuance"} : [t EXCEPT !.stage = x] \in Tasks
  BY DEF Tasks
<1>11. \A x \in 0 .. 2 : [t EXCEPT !.round = x] \in Tasks
  BY DEF Tasks
<1>12. \A x \in BOOLEAN : [t EXCEPT !.flag = x] \in Tasks
  BY DEF Tasks
<1>13. \A x \in BOOLEAN : [t EXCEPT !.overtaken = x] \in Tasks
  BY DEF Tasks
<1> QED BY <1>1, <1>2, <1>3, <1>4, <1>5, <1>6, <1>7, <1>8, <1>9, <1>10, <1>11, <1>12, <1>13

(* The request a call waits for is a request, and the record covers it. *)
LEMMA RequestCovered ==
    ASSUME AbInv, NEW c \in Callers, NEW r \in RequestOf(task[c])
    PROVE  /\ r \in Requests
           /\ task[c].pc \in {"login_http", "refresh_http", "logout_http"}
           /\ r.kind = "Login" =>
                task[c].pc = "login_http" /\ LoginUnresolved /\ auth.account = r.account
           /\ r.kind = "Refresh" => Outstanding(r.token, r.attempt)
<1>0. task[c] \in Tasks /\ TaskInv(c)
  BY DEF AbInv, TypeOK
<1>1. CASE task[c].pc = "login_http"
  <2>1. r = [kind |-> "Login", account |-> task[c].account]
    BY <1>1 DEF RequestOf
  <2>2. task[c].account # None /\ task[c].account = auth.account /\ LoginUnresolved
    BY <1>0, <1>1 DEF TaskInv, Arguments, LoginTask, LoginHeld, LoginUnresolved, PendingKind, OwnsTicket
  <2>3. task[c].account \in Accounts
    BY <1>0, <2>2 DEF Tasks
  <2> QED BY <1>1, <2>1, <2>2, <2>3 DEF Requests
<1>2. CASE task[c].pc = "refresh_http"
  <2>1. r = [kind |-> "Refresh", attempt |-> task[c].ticket.attempt, token |-> task[c].token]
    BY <1>2 DEF RequestOf
  <2>2. /\ task[c].ticket # None /\ task[c].token # None
        /\ Outstanding(task[c].token, task[c].ticket.attempt)
    BY <1>0, <1>2 DEF TaskInv, Arguments, RefreshTask
  <2>3. task[c].ticket \in Tickets /\ task[c].token \in Pairs
    BY <1>0, <2>2 DEF Tasks
  <2>4. r \in Requests
    BY <2>1, <2>3 DEF Requests, Tickets
  <2> QED BY <1>2, <2>1, <2>2, <2>4
<1>3. CASE task[c].pc = "logout_http"
  <2>1. r = [kind |-> "Logout", session |-> task[c].proof.session]
    BY <1>3 DEF RequestOf
  <2>2. task[c].proof \in LogoutProofs
    BY <1>0, <1>3 DEF TaskInv, Arguments, Tasks
  <2> QED BY <1>3, <2>1, <2>2 DEF Requests, LogoutProofs
<1> QED BY <1>1, <1>2, <1>3 DEF RequestOf

(* A step of one call that leaves the record and the panel alone. *)
LEMMA TaskStep ==
    ASSUME AbInv, NEW c \in Callers, NEW n \in Tasks,
           task' = [task EXCEPT ![c] = n],
           UNCHANGED <<auth, panel>>,
           refresh_retry' \in [attempt : Attempts, terminal : BOOLEAN] \cup {None},
           issuance' = issuance \/ (issuance' = c /\ issuance = None) \/ (issuance' = None /\ issuance = c),
           TaskInv(c)'
    PROVE  AbInv'
<1>1. TypeOK'
  BY DEF AbInv, TypeOK, panel
<1>2. Accounted'
  BY DEF AbInv, Accounted, panel, Live, LoginUnresolved, PendingKind
<1>3. (RecordIsSound /\ LateRequests /\ Rotated /\ PairIsCurrent)'
  BY DEF AbInv, RecordIsSound, LateRequests, Rotated, PairIsCurrent, LoginUnresolved, PendingKind,
         Outstanding, Issued, Live, panel
<1>4. ASSUME NEW d \in Callers, d # c PROVE TaskInv(d)'
  <2>1. task'[d] = task[d] /\ TaskInv(d)
    BY <1>4 DEF AbInv, TypeOK
  <2>2. (task[d].pc \in LoginHeld \cup RefreshHeld => issuance = d)' /\ Arguments(task[d])'
    BY <1>4, <2>1, BrokerAssumption DEF TaskInv, Arguments
  <2>3. LoginTask(d)'
    BY <2>1 DEF TaskInv, LoginTask, panel, Live, OwnsTicket, Cancelled, NoLateLogin, NothingIssued
  <2>5. RefreshTask(d)'
    BY <2>1 DEF TaskInv, RefreshTask, panel, Issued, Live, OwnsTicket, Outstanding, PendingKind
  <2>6. KnownTask(d)'
    BY <2>1 DEF TaskInv, KnownTask, panel, Issued, Live
  <2>4. OvertakenTask(d)'
    BY <1>4, <2>1, BrokerAssumption DEF TaskInv, OvertakenTask
  <2> QED BY <2>2, <2>3, <2>4, <2>5, <2>6 DEF TaskInv
<1> QED BY <1>1, <1>2, <1>3, <1>4 DEF AbInv

(* A call returns and leaves its request, if any, to the panel. *)
LEMMA ReturnStep ==
    ASSUME AbInv, NEW c \in Callers, Return(c),
           UNCHANGED <<auth, sessions, rotations>>,
           in_flight' = in_flight \/ in_flight' = in_flight \cup RequestOf(task[c]),
           refresh_retry' \in [attempt : Attempts, terminal : BOOLEAN] \cup {None}
    PROVE  AbInv'
<1>0. \A r \in in_flight' : r \in in_flight \/ r \in RequestOf(task[c])
  OBVIOUS
<1>1. TypeOK'
  <2>1. in_flight' \subseteq Requests
    BY <1>0, RequestCovered DEF AbInv, TypeOK
  <2> QED
    BY <2>1, IdleType DEF AbInv, TypeOK, Return
<1>2. Accounted'
  BY DEF AbInv, Accounted, Live, LoginUnresolved, PendingKind
<1>3. (RecordIsSound /\ Rotated /\ PairIsCurrent)'
  BY DEF AbInv, RecordIsSound, Rotated, PairIsCurrent, LoginUnresolved, PendingKind, Issued, Live
<1>4. LateRequests'
  <2> SUFFICES ASSUME NEW r \in in_flight'
               PROVE  /\ r.kind = "Login" => LoginUnresolved' /\ auth'.account = r.account
                      /\ r.kind = "Refresh" => Outstanding(r.token, r.attempt)'
    BY DEF LateRequests
  <2>1. /\ r.kind = "Login" => LoginUnresolved /\ auth.account = r.account
        /\ r.kind = "Refresh" => Outstanding(r.token, r.attempt)
    BY <1>0, RequestCovered DEF AbInv, LateRequests
  <2> QED BY <2>1 DEF LoginUnresolved, PendingKind, Outstanding, Issued, Live
<1>5. ASSUME NEW d \in Callers PROVE TaskInv(d)'
  <2>1. CASE d = c
    BY <2>1, IdleTask DEF Return, AbInv, TypeOK
  <2>2. CASE d # c
    <3>1. task'[d] = task[d] /\ TaskInv(d) /\ TaskInv(c)
      BY <2>2 DEF Return, AbInv, TypeOK
    <3>2. (task[d].pc \in LoginHeld \cup RefreshHeld => issuance = d)' /\ Arguments(task[d])'
      BY <2>2, <3>1, BrokerAssumption DEF TaskInv, Arguments, Return
    <3>3. task[d].pc \in LoginHeld => (NoLateLogin => NoLateLogin')
      <4>1. task[d].pc \in LoginHeld => task[c].pc # "login_http"
        BY <2>2, <3>1 DEF TaskInv, LoginHeld
      <4> QED BY <1>0, <4>1, RequestCovered DEF NoLateLogin
    <3>4. LoginTask(d)'
      BY <3>1, <3>3 DEF TaskInv, LoginTask, OwnsTicket, Cancelled, NothingIssued, Live
    <3>5. RefreshTask(d)' /\ KnownTask(d)'
      <4>1. RefreshTask(d)'
        BY Zenon, <3>1 DEF TaskInv, RefreshTask, Issued, Live, OwnsTicket, Outstanding, PendingKind
      <4>2. KnownTask(d)'
        BY Zenon, <3>1 DEF TaskInv, KnownTask, Issued, Live, OwnsTicket, Outstanding, PendingKind
      <4> QED BY <4>1, <4>2
    <3>6. OvertakenTask(d)'
      BY <2>2, <3>1, BrokerAssumption DEF TaskInv, OvertakenTask, Return
    <3> QED BY <3>2, <3>4, <3>5, <3>6 DEF TaskInv
  <2> QED BY <2>1, <2>2
<1> QED BY <1>1, <1>2, <1>3, <1>4, <1>5 DEF AbInv

-----------------------------------------------------------------------------
(* Steps that leave the record and the panel alone. *)

LEMMA BeginLoginInv == ASSUME AbInv, NEW c \in Callers, BeginLogin(c) PROVE AbInv'
<1>1. PICK account \in Accounts :
        task' = [task EXCEPT ![c] = [Idle EXCEPT !.kind = "login", !.pc = "login_wait",
                                                 !.fence = Fence(auth), !.account = account]]
  BY Zenon DEF BeginLogin
<1> DEFINE n == [Idle EXCEPT !.kind = "login", !.pc = "login_wait",
                             !.fence = Fence(auth), !.account = account]
<1>2. Fence(auth) \in Fences
  BY DEF AbInv, TypeOK, AuthRecords, Fence, Fences
<1>3. n \in Tasks
  BY Zenon, <1>2, IdleType DEF Tasks, Places, Idle
<1>4. task'[c] = n
  BY <1>1 DEF AbInv, TypeOK
<1>5. TaskInv(c)'
  BY <1>2, <1>4, BrokerAssumption
  DEF BeginLogin, Idle, Fence, TaskInv, Arguments, LoginTask, RefreshTask, KnownTask, OvertakenTask,
      LoginHeld, RefreshHeld, AbInv, TypeOK, AuthRecords, Epochs
<1> QED BY Zenon, <1>1, <1>3, <1>5, TaskStep DEF BeginLogin, AbInv, TypeOK

LEMMA LoginStopInv == ASSUME AbInv, NEW c \in Callers, LoginStop(c) PROVE AbInv'
<1>0. task \in [Callers -> Tasks] /\ task[c] \in Tasks /\ TaskInv(c)
  BY DEF AbInv, TypeOK
<1> DEFINE Sent == [task[c] EXCEPT !.pc = "login_http"]
           Failed == [task[c] EXCEPT !.pc = "login_error", !.flag = TRUE]
<1>1. PICK n \in {Sent, Failed} : task' = [task EXCEPT ![c] = n]
  BY Zenon, <1>0 DEF LoginStop, Goto
<1>2. n \in Tasks /\ task'[c] = n
  <2>1. Sent \in Tasks /\ Failed \in Tasks
    BY Zenon, <1>0, TaskFields DEF Places
  <2> QED BY <1>0, <1>1, <2>1
<1>3. /\ n.pc \in {"login_http", "login_error"}
      /\ n.pc = "login_http" => n.flag = task[c].flag
      /\ n.account = task[c].account /\ n.ticket = task[c].ticket /\ n.proof = task[c].proof
      /\ n.reply = task[c].reply /\ n.overtaken = task[c].overtaken
  BY Zenon, <1>0, <1>1 DEF Tasks
<1>4. (task[c].pc \in LoginHeld \cup RefreshHeld => issuance = c)' /\ Arguments(task[c])'
  BY <1>0, <1>2, <1>3 DEF LoginStop, TaskInv, Arguments, LoginHeld, RefreshHeld
<1>5. LoginTask(c)'
  BY <1>0, <1>2, <1>3
  DEF LoginStop, TaskInv, LoginTask, panel, LoginHeld, OwnsTicket, Cancelled, NothingIssued, NoLateLogin, Live
<1>6. RefreshTask(c)' /\ KnownTask(c)' /\ OvertakenTask(c)'
  BY <1>0, <1>2, <1>3
  DEF LoginStop, TaskInv, RefreshTask, KnownTask, OvertakenTask, panel, Issued
<1>7. TaskInv(c)'
  BY <1>4, <1>5, <1>6 DEF TaskInv
<1> QED BY Zenon, <1>1, <1>2, <1>7, TaskStep DEF LoginStop, AbInv, TypeOK

LEMMA BeginAccessInv == ASSUME AbInv, NEW c \in Callers, BeginAccess(c) PROVE AbInv'
<1>1. PICK stale \in {None, auth.token} :
        task' = [task EXCEPT ![c] = [Idle EXCEPT !.kind = "access", !.pc = "access_wait",
                                                 !.fence = Fence(auth), !.stale = stale]]
  BY Zenon DEF BeginAccess
<1> DEFINE n == [Idle EXCEPT !.kind = "access", !.pc = "access_wait",
                             !.fence = Fence(auth), !.stale = stale]
<1>2. Fence(auth) \in Fences /\ stale \in Pairs \cup {None}
  BY DEF AbInv, TypeOK, AuthRecords, Fence, Fences
<1>3. n \in Tasks
  BY Zenon, <1>2, IdleType DEF Tasks, Places, Idle
<1>4. task'[c] = n
  BY <1>1 DEF AbInv, TypeOK
<1>5. TaskInv(c)'
  <2>1. /\ n.pc = "access_wait" /\ n.kind = "access" /\ n.fence = Fence(auth)
        /\ n.proof = None /\ n.reply = None /\ n.overtaken = FALSE
    BY DEF Idle
  <2>2. Fence(auth) # None
    BY <1>2, BrokerAssumption DEF Fences
  <2>3. auth' = auth /\ Fence(auth).epoch <= auth.auth_epoch
    BY BrokerAssumption DEF BeginAccess, Fence, AbInv, TypeOK, AuthRecords, Epochs
  <2> HIDE DEF n
  <2>4. (task[c].pc \in LoginHeld \cup RefreshHeld => issuance = c)' /\ Arguments(task[c])'
    BY <1>4, <2>1, <2>2 DEF Arguments, LoginHeld, RefreshHeld
  <2>5. LoginTask(c)' /\ RefreshTask(c)' /\ KnownTask(c)'
    BY <1>4, <2>1 DEF LoginTask, RefreshTask, KnownTask, LoginHeld
  <2>6. OvertakenTask(c)'
    BY Zenon, <1>4, <2>1, <2>3 DEF OvertakenTask
  <2> QED BY <2>4, <2>5, <2>6 DEF TaskInv
<1> QED BY Zenon, <1>1, <1>3, <1>5, TaskStep DEF BeginAccess, AbInv, TypeOK

LEMMA BeginRecoveryInv == ASSUME AbInv, NEW c \in Callers, BeginRecovery(c) PROVE AbInv'
<1> DEFINE n == [Idle EXCEPT !.kind = "recover", !.pc = "access_wait"]
<1>1. task' = [task EXCEPT ![c] = n] /\ n \in Tasks /\ task'[c] = n
  BY Zenon, IdleType DEF BeginRecovery, AbInv, TypeOK, Tasks, Places, Idle
<1>2. TaskInv(c)'
  BY <1>1
  DEF BeginRecovery, Idle, TaskInv, Arguments, LoginTask, RefreshTask, KnownTask, OvertakenTask,
      LoginHeld, RefreshHeld
<1> QED BY Zenon, <1>1, <1>2, TaskStep DEF BeginRecovery, AbInv, TypeOK

LEMMA AccessLockedInv == ASSUME AbInv, NEW c \in Callers, AccessLocked(c) PROVE AbInv'
<1>0. task[c] \in Tasks /\ TaskInv(c)
  BY DEF AbInv, TypeOK
<1>1. CASE task[c].fence \notin {None, Fence(auth)}
  BY <1>1, ReturnStep DEF AccessLocked, AbInv, TypeOK, panel
<1>2. CASE task[c].fence \in {None, Fence(auth)}
  <2> DEFINE n == [task[c] EXCEPT !.pc = "refresh_next", !.stage = "recovery", !.round = 1]
  <2>0. task \in [Callers -> Tasks]
    BY DEF AbInv, TypeOK
  <2>4. task' = [task EXCEPT ![c] = n]
    BY Zenon, <1>2, <2>0 DEF AccessLocked
  <2>5. n \in Tasks
    <3> DEFINE m == [task[c] EXCEPT !.pc = "refresh_next", !.stage = "recovery"]
    <3>1. m \in Tasks
      BY Zenon, <1>0, TaskFields DEF Places
    <3>2. n = [m EXCEPT !.round = 1] /\ 1 \in 0 .. 2
      OBVIOUS
    <3> HIDE DEF m, n
    <3> QED BY Zenon, <3>1, <3>2, TaskFields
  <2>1. task' = [task EXCEPT ![c] = n] /\ n \in Tasks /\ task'[c] = n
    BY <2>0, <2>4, <2>5
  <2>2. ~task[c].overtaken
    BY <1>0, <1>2 DEF AccessLocked, TaskInv, OvertakenTask, Fence, AbInv, TypeOK, AuthRecords, Epochs
  <2>3. TaskInv(c)'
    BY <1>0, <1>2, <2>1, <2>2
    DEF AccessLocked, TaskInv, Arguments, LoginTask, RefreshTask, KnownTask, OvertakenTask, panel,
        LoginHeld, RefreshHeld, Live, Issued
  <2> QED BY Zenon, <1>2, <2>1, <2>3, TaskStep DEF AccessLocked, AbInv, TypeOK
<1> QED BY <1>1, <1>2

LEMMA BeginLogoutInv == ASSUME AbInv, NEW c \in Callers, BeginLogout(c) PROVE AbInv'
<1>1. PICK scope \in {None, Fence(auth)} :
        task' = [task EXCEPT ![c] = [Idle EXCEPT !.kind = "logout", !.fence = scope,
                   !.pc = IF scope = None THEN "logout_begin" ELSE "logout_wait"]]
  BY Zenon DEF BeginLogout
<1> DEFINE pc == IF scope = None THEN "logout_begin" ELSE "logout_wait"
           n == [Idle EXCEPT !.kind = "logout", !.fence = scope, !.pc = pc]
<1>2. scope \in Fences \cup {None}
  BY DEF AbInv, TypeOK, AuthRecords, Fence, Fences
<1>3. n \in Tasks
  <2>1. pc \in Places
    BY DEF Places
  <2>2. [Idle EXCEPT !.kind = "logout", !.fence = scope] \in Tasks
    BY Zenon, <1>2, IdleType, TaskFields
  <2> HIDE DEF pc
  <2> QED BY Zenon, <2>1, <2>2, TaskFields
<1>4. task'[c] = n
  BY <1>1 DEF AbInv, TypeOK
<1>5. TaskInv(c)'
  BY <1>4
  DEF BeginLogout, Idle, TaskInv, Arguments, LoginTask, RefreshTask, KnownTask, OvertakenTask,
      LoginHeld, RefreshHeld
<1> QED BY Zenon, <1>1, <1>3, <1>5, TaskStep DEF BeginLogout, AbInv, TypeOK

LEMMA LogoutReceivedInv == ASSUME AbInv, NEW c \in Callers, LogoutReceived(c) PROVE AbInv'
<1>0. task[c] \in Tasks /\ TaskInv(c)
  BY DEF AbInv, TypeOK
<1>1. PICK t : /\ t \in Tickets \cup {None}
               /\ task' = [task EXCEPT ![c].pc = "logout_begin", ![c].ticket = t]
  <2>1. \A d \in Callers : task[d].ticket \in Tickets \cup {None}
    BY DEF AbInv, TypeOK, Tasks
  <2> DEFINE held == {task[d].ticket : d \in {d \in Callers : task[d].kind = "login" /\ task[d].fence = task[c].fence}}
  <2>2. held \subseteq Tickets \cup {None}
    BY <2>1
  <2>3. \E t \in {None} \cup held : task' = [task EXCEPT ![c].pc = "logout_begin", ![c].ticket = t]
    BY DEF LogoutReceived
  <2> HIDE DEF held
  <2> QED BY <2>2, <2>3
<1> DEFINE n == [task[c] EXCEPT !.pc = "logout_begin", !.ticket = t]
<1>4. task \in [Callers -> Tasks]
  BY DEF AbInv, TypeOK
<1>5. n \in Tasks
  BY Zenon, <1>0, <1>1, TaskFields DEF Places
<1>2. task' = [task EXCEPT ![c] = n] /\ n \in Tasks /\ task'[c] = n
  BY Zenon, <1>1, <1>4, <1>5
<1>6. n.pc = "logout_begin" /\ n.proof = task[c].proof /\ n.reply = task[c].reply
      /\ n.overtaken = task[c].overtaken
  BY <1>0 DEF Tasks
<1> HIDE DEF n
<1>3. TaskInv(c)'
  BY <1>0, <1>2, <1>6
  DEF LogoutReceived, TaskInv, Arguments, LoginTask, RefreshTask, KnownTask, OvertakenTask, panel,
      LoginHeld, RefreshHeld, Issued
<1> QED BY Zenon, <1>2, <1>3, TaskStep DEF LogoutReceived, AbInv, TypeOK

(* recover_pending_refresh_locked returns to access_token, or the call ends. *)
LEMMA RecoveredTask ==
    ASSUME AbInv, NEW c \in Callers, task[c].pc \in RefreshHeld, Recovered(c)
    PROVE  \E n \in Tasks :
             /\ task' = [task EXCEPT ![c] = n] /\ task'[c] = n
             /\ \/ n = Idle /\ issuance' = None
                \/ /\ issuance' = issuance
                   /\ n.pc = "access_ticket" /\ n.proof = task[c].proof /\ n.reply = None
                   /\ n.overtaken = task[c].overtaken
<1>0. task \in [Callers -> Tasks] /\ task[c] \in Tasks /\ issuance = c
  BY DEF AbInv, TypeOK, TaskInv
<1>1. CASE task[c].kind = "access" /\ task[c].stage = "recovery"
  <2> DEFINE m == [task[c] EXCEPT !.pc = "access_ticket", !.ticket = None]
             n == [task[c] EXCEPT !.pc = "access_ticket", !.ticket = None,
                                  !.token = None, !.reply = None]
  <2>1. m \in Tasks
    BY Zenon, <1>0, TaskFields DEF Places
  <2>2. n \in Tasks
    <3>1. n = [m EXCEPT !.token = None, !.reply = None]
      OBVIOUS
    <3> HIDE DEF m, n
    <3> QED BY Zenon, <2>1, <3>1, TaskFields
  <2>3. task' = [task EXCEPT ![c] = n] /\ issuance' = issuance
    BY <1>0, <1>1 DEF Recovered
  <2>4. n.pc = "access_ticket" /\ n.proof = task[c].proof /\ n.reply = None
        /\ n.overtaken = task[c].overtaken
    BY <1>0 DEF Tasks
  <2> HIDE DEF m, n
  <2> QED BY Zenon, <1>0, <2>2, <2>3, <2>4
<1>2. CASE ~(task[c].kind = "access" /\ task[c].stage = "recovery")
  BY <1>0, <1>2, IdleType DEF Recovered, Return
<1> QED BY <1>1, <1>2

LEMMA RefreshNextInv == ASSUME AbInv, NEW c \in Callers, RefreshNext(c) PROVE AbInv'
<1> DEFINE t == auth.pending_request
<1>0. task \in [Callers -> Tasks] /\ task[c] \in Tasks /\ TaskInv(c) /\ issuance = c
  BY DEF AbInv, TypeOK, TaskInv, RefreshNext, RefreshHeld
<1>u. UNCHANGED <<auth, panel>>
  BY DEF RefreshNext
<1>1. CASE ~PendingKind(auth, "Refresh")
  <2>1. Recovered(c) /\ UNCHANGED refresh_retry
    BY <1>1 DEF RefreshNext
  <2>2. PICK n \in Tasks :
             /\ task' = [task EXCEPT ![c] = n] /\ task'[c] = n
             /\ \/ n = Idle /\ issuance' = None
                \/ /\ issuance' = issuance
                   /\ n.pc = "access_ticket" /\ n.proof = task[c].proof /\ n.reply = None
                   /\ n.overtaken = task[c].overtaken
    BY <2>1, RecoveredTask DEF RefreshNext, RefreshHeld
  <2>3. TaskInv(c)'
    <3>1. CASE n = Idle
      BY <2>2, <3>1, IdleTask
    <3>2. CASE n # Idle
      BY Zenon, <1>0, <1>u, <2>2, <3>2
      DEF TaskInv, Arguments, LoginTask, RefreshTask, KnownTask, OvertakenTask, panel,
          LoginHeld, RefreshHeld, Issued
    <3> QED BY <3>1, <3>2
  <2> QED BY Zenon, <1>0, <1>u, <2>1, <2>2, <2>3, TaskStep DEF AbInv, TypeOK
<1>2. CASE PendingKind(auth, "Refresh") /\ task'[c] = Idle /\ Return(c) /\ UNCHANGED refresh_retry
  BY <1>2, <1>u, ReturnStep DEF panel, AbInv, TypeOK
<1>3. CASE /\ PendingKind(auth, "Refresh")
           /\ Fenced(auth, t) /\ auth.pending_logout = None /\ auth.token # None
           /\ refresh_retry' = [attempt |-> t.attempt, terminal |-> FALSE]
           /\ task' = [task EXCEPT ![c].pc = "refresh_http", ![c].ticket = t, ![c].token = auth.token]
           /\ UNCHANGED issuance
  <2> DEFINE m == [task[c] EXCEPT !.pc = "refresh_http", !.ticket = t]
             n == [task[c] EXCEPT !.pc = "refresh_http", !.ticket = t, !.token = auth.token]
  <2>0. t \in Tickets /\ auth.token \in Pairs /\ t.attempt \in Attempts /\ t # None
    BY <1>3 DEF AbInv, TypeOK, AuthRecords, Tickets, PendingKind
  <2>1. n \in Tasks
    <3>1. m \in Tasks
      BY Zenon, <1>0, <2>0, TaskFields DEF Places
    <3>2. n = [m EXCEPT !.token = auth.token]
      OBVIOUS
    <3> HIDE DEF m, n
    <3> QED BY Zenon, <2>0, <3>1, <3>2, TaskFields
  <2>2. task' = [task EXCEPT ![c] = n] /\ task'[c] = n
    BY Zenon, <1>0, <1>3
  <2>3. /\ n.pc = "refresh_http" /\ n.ticket = t /\ n.token = auth.token
        /\ n.proof = task[c].proof /\ n.reply = task[c].reply /\ n.overtaken = task[c].overtaken
    BY <1>0 DEF Tasks
  <2>4. Outstanding(auth.token, t.attempt) /\ t.attempt = auth.next_attempt
    <3>1. auth.next_attempt \in Nat
      BY BrokerAssumption DEF AbInv, TypeOK, AuthRecords
    <3>2. auth.logout_state = "Active" /\ t.attempt = auth.next_attempt
      BY <1>3 DEF Fenced, OwnsTicket
    <3> QED
      BY <1>3, <2>0, <3>1, <3>2 DEF Outstanding, AbInv, RecordIsSound, PairIsCurrent
  <2> HIDE DEF n, m
  <2>5. Outstanding(auth.token, t.attempt)'
    BY <1>u, <2>4 DEF Outstanding, panel, Issued, Live, PendingKind
  <2>6. RefreshTask(c)'
    <3>1. auth'.next_attempt \in Nat /\ auth' = auth
      BY <1>u, BrokerAssumption DEF AbInv, TypeOK, AuthRecords
    <3> QED BY <2>2, <2>3, <2>4, <2>5, <3>1 DEF RefreshTask
  <2>7. TaskInv(c)'
    BY <1>0, <1>3, <1>u, <2>0, <2>2, <2>3, <2>6
    DEF RefreshNext, TaskInv, Arguments, LoginTask, KnownTask, OvertakenTask, panel, LoginHeld, RefreshHeld, Issued
  <2>8. refresh_retry' \in [attempt : Attempts, terminal : BOOLEAN]
    BY <1>3, <2>0
  <2> QED BY Zenon, <1>3, <1>u, <2>1, <2>2, <2>7, <2>8, TaskStep
<1> QED
  BY <1>0, <1>1, <1>2, <1>3 DEF RefreshNext, Return

-----------------------------------------------------------------------------
(* The panel. *)

(* What a call and a late request may rely on across a step of the panel:  *)
(* no session that exists is revived, an operation keeps its answer.       *)
PanelMoves ==
  /\ UNCHANGED auth
  /\ \A s \in Sessions : Issued(s) =>
       /\ Issued(s)' /\ (Live(s)' => Live(s))
       /\ auth.token = None => sessions'[s].pair = sessions[s].pair
  /\ \A a \in Attempts : rotations[a] # 0 => rotations'[a] = rotations[a]
  /\ \A p \in Pairs, a \in Attempts : Outstanding(p, a) => Outstanding(p, a)'

LEMMA OtherTask ==
    ASSUME AbInv, PanelMoves, NEW d \in Callers, task'[d] = task[d],
           issuance' = d <=> issuance = d,
           task[d].pc \in LoginHeld /\ NoLateLogin =>
             NoLateLogin' /\ \A s \in Sessions : Live(s)' => Live(s)
    PROVE  TaskInv(d)'
<1>0. TaskInv(d) /\ task[d] \in Tasks
  BY DEF AbInv, TypeOK
<1>1. (task[d].pc \in LoginHeld \cup RefreshHeld => issuance = d)' /\ Arguments(task[d])'
  BY <1>0 DEF TaskInv, Arguments
<1>2. LoginTask(d)'
  <2>1. task[d].pc \in LoginHeld => auth.token = None
    BY Zenon, <1>0 DEF TaskInv, LoginTask, Arguments, AbInv, RecordIsSound, LoginUnresolved, PendingKind, OwnsTicket
  <2>2. \A s \in Sessions : Live(s) => Issued(s)
    BY DEF Live, Issued
  <2> QED BY <1>0, <2>1, <2>2 DEF TaskInv, LoginTask, PanelMoves, OwnsTicket, Cancelled, NothingIssued
<1>3. RefreshTask(d)'
  <2>1. task[d].pc \in {"refresh_http", "refresh_accept"} =>
          /\ task[d].ticket \in Tickets /\ task[d].token \in Pairs
          /\ task[d].ticket.attempt \in Attempts
    BY <1>0 DEF TaskInv, Arguments, Tasks, Tickets
  <2>2. task[d].pc = "refresh_accept" => task[d].reply.pair # 0
    <3>1. task[d].pc = "refresh_accept" => task[d].reply \in Pairs
      BY <1>0 DEF TaskInv, Arguments, Tasks
    <3> QED BY <3>1 DEF Pairs
  <2> QED BY Zenon, <1>0, <2>1, <2>2 DEF TaskInv, RefreshTask, PanelMoves, OwnsTicket
<1>4. KnownTask(d)'
  <2>1. /\ task[d].proof # None => task[d].proof.session \in Sessions
        /\ task[d].reply # None => task[d].reply.session \in Sessions
        /\ task[d].pc = "logout_finish" => task[d].proof # None
    BY <1>0 DEF TaskInv, Arguments, Tasks, LogoutProofs, Pairs
  <2> QED BY Zenon, <1>0, <2>1 DEF TaskInv, KnownTask, PanelMoves
<1>5. OvertakenTask(d)'
  BY Zenon, <1>0 DEF TaskInv, OvertakenTask, PanelMoves
<1> QED BY <1>1, <1>2, <1>3, <1>4, <1>5 DEF TaskInv

SessionRecords == [status : {"Absent", "Live", "Revoked", "Reused"},
                   account : Accounts \cup {None}, pair : 1 .. MaxAttempts + 1]

(* A login the record knows to be unresolved creates the one session alive. *)
LEMMA PanelLoginOK ==
    ASSUME AbInv, NEW s \in Sessions, NEW account \in Accounts, PanelLogin(s, account),
           LoginUnresolved, auth.account = account, UNCHANGED auth
    PROVE  /\ sessions' \in [Sessions -> SessionRecords] /\ rotations' = rotations
           /\ in_flight' \subseteq in_flight /\ NoLateLogin'
           /\ Issued(s)' /\ sessions'[s].pair = 1
           /\ \A r \in Sessions : Live(r)' => r = s
           /\ PanelMoves
           /\ (Accounted /\ RecordIsSound /\ LateRequests /\ Rotated /\ PairIsCurrent)'
<1>0. /\ sessions \in [Sessions -> SessionRecords] /\ in_flight \subseteq Requests
      /\ auth.token = None /\ auth.pending_logout = None /\ auth.logout_state # "LoggedOut"
  BY DEF AbInv, TypeOK, SessionRecords, RecordIsSound, LoginUnresolved, PendingKind
<1>1. [status |-> "Live", account |-> account, pair |-> 1] \in SessionRecords
  BY BrokerAssumption DEF SessionRecords
<1>2. \A r \in Sessions : [sessions[r] EXCEPT !.status = "Revoked"] \in SessionRecords
  BY <1>0 DEF SessionRecords
<1>3. sessions' \in [Sessions -> SessionRecords]
  BY <1>0, <1>1, <1>2 DEF PanelLogin
<1>4. /\ sessions'[s].status = "Live" /\ sessions'[s].account = account /\ sessions'[s].pair = 1
      /\ sessions[s].status = "Absent"
  BY DEF PanelLogin, NewSession
<1>5. ASSUME NEW r \in Sessions, r # s
      PROVE  /\ sessions'[r].status # "Live"
             /\ sessions'[r].status \in {sessions[r].status, "Revoked"}
             /\ sessions'[r].status = "Absent" => sessions[r].status = "Absent"
             /\ sessions'[r].pair = sessions[r].pair
  <2>1. Live(r) => sessions[r].account = account
    BY <1>0 DEF AbInv, Accounted
  <2> QED BY <1>0, <1>5, <2>1 DEF PanelLogin, Live, SessionRecords
<1>6. in_flight' \subseteq in_flight /\ rotations' = rotations
  BY DEF PanelLogin
<1>7. NoLateLogin'
  <2>1. \A r \in in_flight : r.kind = "Login" => r.account = account
    BY DEF AbInv, LateRequests
  <2> QED BY <2>1 DEF PanelLogin, NoLateLogin
<1>8. \A r \in Sessions : /\ Issued(r) => Issued(r)' /\ ~Live(r)' /\ sessions'[r].pair = sessions[r].pair
                          /\ Live(r)' => r = s
  BY <1>4, <1>5 DEF Issued, Live
<1>9. \A p \in Pairs, a \in Attempts : Outstanding(p, a) => Outstanding(p, a)'
  BY <1>6, <1>8 DEF Outstanding, Pairs, PendingKind
<1>10. PanelMoves
  BY <1>6, <1>8, <1>9 DEF PanelMoves
<1>11. Accounted'
  BY <1>0, <1>4, <1>8 DEF Accounted, LoginUnresolved, PendingKind
<1>12. RecordIsSound'
  BY <1>0 DEF AbInv, RecordIsSound, LoginUnresolved, PendingKind
<1>13. LateRequests'
  BY <1>0, <1>6, <1>7, <1>9 DEF AbInv, LateRequests, NoLateLogin, Requests
<1>14. Rotated' /\ PairIsCurrent'
  <2>1. \A r \in Sessions : sessions'[r].status # "Reused"
    BY <1>4, <1>5 DEF AbInv, PairIsCurrent
  <2> QED BY <1>0, <1>6, <2>1 DEF AbInv, Rotated, PairIsCurrent
<1> QED BY <1>3, <1>4, <1>6, <1>7, <1>8, <1>10, <1>11, <1>12, <1>13, <1>14 DEF Issued

(* A refresh request rotates the record's own pair, or changes nothing.    *)
LEMMA PanelRefreshOK ==
    ASSUME AbInv, NEW p \in Pairs, NEW a \in Attempts, Outstanding(p, a), PanelRefresh(p, a),
           UNCHANGED auth, in_flight' \subseteq in_flight
    PROVE  /\ sessions' \in [Sessions -> SessionRecords]
           /\ rotations' \in [Attempts -> 0 .. MaxAttempts + 1]
           /\ PanelMoves /\ \A s \in Sessions : Live(s)' => Live(s)
           /\ (Accounted /\ RecordIsSound /\ LateRequests /\ Rotated /\ PairIsCurrent)'
           /\ RefreshReply(p, a) # None =>
                /\ RefreshReply(p, a) \in Pairs
                /\ RefreshReply(p, a).session = p.session
                /\ RefreshReply(p, a).pair = rotations'[a]
<1> DEFINE s == p.session
           rotated == Live(s) /\ rotations[a] = 0
<1>0. /\ sessions \in [Sessions -> SessionRecords] /\ in_flight \subseteq Requests
      /\ rotations \in [Attempts -> 0 .. MaxAttempts + 1]
      /\ s \in Sessions /\ p.pair \in Nat /\ a \in Nat /\ a <= MaxAttempts /\ p.pair + 1 <= a
      /\ MaxAttempts \in Nat /\ p.pair \in 1 .. MaxAttempts + 1
      /\ p = [session |-> s, pair |-> p.pair]
  BY BrokerAssumption DEF AbInv, TypeOK, SessionRecords, Pairs, Attempts, Outstanding
<1>1. rotated => p = auth.token /\ p.pair = sessions[s].pair /\ a = auth.next_attempt
                 /\ (auth.logout_state = "Pending" \/ PendingKind(auth, "Refresh"))
  BY DEF Outstanding
<1>2. CASE ~rotated
  <2>1. sessions' = sessions /\ rotations' = rotations
    BY <1>2 DEF PanelRefresh
  <2>2. \A q \in Pairs, b \in Attempts : Outstanding(q, b) => Outstanding(q, b)'
    BY <2>1 DEF Outstanding, Issued, Live, PendingKind
  <2>3. PanelMoves /\ \A r \in Sessions : Live(r)' => Live(r)
    BY <2>1, <2>2 DEF PanelMoves, Issued, Live
  <2>4. LateRequests'
    BY <1>0, <2>2 DEF AbInv, LateRequests, Requests, LoginUnresolved, PendingKind
  <2>5. (Accounted /\ RecordIsSound /\ Rotated /\ PairIsCurrent)'
    BY Zenon, <2>1 DEF AbInv, Accounted, RecordIsSound, Rotated, PairIsCurrent, LoginUnresolved,
                PendingKind, Live, Issued
  <2>6. RefreshReply(p, a) # None => RefreshReply(p, a) = [p EXCEPT !.pair = rotations[a]]
                                     /\ rotations[a] \in 1 .. MaxAttempts + 1
    BY <1>0, <1>2 DEF RefreshReply
  <2>7. RefreshReply(p, a) # None =>
                /\ RefreshReply(p, a) \in Pairs
                /\ RefreshReply(p, a).session = p.session
                /\ RefreshReply(p, a).pair = rotations'[a]
    BY <1>0, <2>1, <2>6 DEF Pairs
  <2> QED BY <1>0, <2>1, <2>3, <2>4, <2>5, <2>7
<1>3. CASE rotated
  <2>1. /\ sessions' = [sessions EXCEPT ![s].pair = @ + 1]
        /\ rotations' = [rotations EXCEPT ![a] = p.pair + 1]
    BY <1>1, <1>3 DEF PanelRefresh
  <2>2. /\ \A r \in Sessions : /\ sessions'[r].status = sessions[r].status
                               /\ sessions'[r].account = sessions[r].account
                               /\ r # s => sessions'[r] = sessions[r]
        /\ sessions'[s].pair = p.pair + 1
    BY <1>0, <1>1, <1>3, <2>1 DEF SessionRecords
  <2>3. /\ \A b \in Attempts : b # a => rotations'[b] = rotations[b]
        /\ rotations'[a] = p.pair + 1
    BY <1>0, <2>1
  <2>4. sessions' \in [Sessions -> SessionRecords] /\ rotations' \in [Attempts -> 0 .. MaxAttempts + 1]
    <3>1. p.pair + 1 \in 0 .. MaxAttempts + 1 /\ p.pair + 1 \in 1 .. MaxAttempts + 1
      BY <1>0
    <3>2. [sessions[s] EXCEPT !.pair = p.pair + 1] \in SessionRecords
      BY <1>0, <3>1 DEF SessionRecords
    <3> QED BY <1>0, <1>1, <1>3, <2>1, <3>1, <3>2
  <2>5. \A q \in Pairs, b \in Attempts : Outstanding(q, b) => Outstanding(q, b)'
    BY <1>0, <1>1, <1>3, <2>2, <2>3 DEF Outstanding, Issued, Live, Pairs
  <2>6. PanelMoves /\ \A r \in Sessions : Live(r)' => Live(r)
    <3>1. auth.token # None
      BY <1>1, <1>3, BrokerAssumption
    <3> QED BY <1>3, <2>2, <2>3, <2>5, <3>1 DEF PanelMoves, Issued, Live
  <2>7. LateRequests'
    BY <1>0, <2>5 DEF AbInv, LateRequests, Requests, LoginUnresolved, PendingKind
  <2>8. Accounted' /\ RecordIsSound'
    <3>1. \A r \in Sessions : (Live(r)' <=> Live(r)) /\ (Issued(r)' <=> Issued(r))
      BY Zenon, <2>2 DEF Live, Issued
    <3>2. /\ auth.token # None => auth.token.session \in Sessions
          /\ auth.pending_logout # None => auth.pending_logout.session \in Sessions
      BY DEF AbInv, TypeOK, AuthRecords, Pairs, LogoutProofs
    <3>3. Accounted'
      BY Zenon, <2>2, <3>1 DEF AbInv, Accounted, LoginUnresolved, PendingKind
    <3>4. RecordIsSound'
      BY Zenon, <3>1, <3>2 DEF AbInv, RecordIsSound, LoginUnresolved, PendingKind
    <3> QED BY <3>3, <3>4
  <2>9. Rotated'
    <3>1. auth' = auth /\ auth.next_attempt = a
      BY <1>1, <1>3
    <3> QED BY <1>0, <2>3, <3>1 DEF AbInv, Rotated
  <2>10. PairIsCurrent'
    <3>1. PendingKind(auth, "Refresh") => auth.pending_request.attempt = a
      BY <1>1, <1>3 DEF AbInv, RecordIsSound, PendingKind
    <3>2. auth.logout_state = "Active" => PendingKind(auth, "Refresh")
      BY <1>1, <1>3
    <3> QED
      BY <1>0, <1>1, <1>3, <2>2, <2>3, <3>1, <3>2 DEF AbInv, PairIsCurrent, PendingKind
  <2>11. RefreshReply(p, a) = [p EXCEPT !.pair = @ + 1]
    BY <1>1, <1>3 DEF RefreshReply
  <2>12. /\ RefreshReply(p, a) \in Pairs
         /\ RefreshReply(p, a).session = p.session
         /\ RefreshReply(p, a).pair = rotations'[a]
    BY <1>0, <2>3, <2>11 DEF Pairs
  <2> QED BY <2>4, <2>6, <2>7, <2>8, <2>9, <2>10, <2>12
<1> QED BY <1>2, <1>3

(* A revocation only ends a session.                                       *)
LEMMA PanelLogoutOK ==
    ASSUME AbInv, NEW s \in Sessions, PanelLogout(s), UNCHANGED auth, in_flight' \subseteq in_flight
    PROVE  /\ sessions' \in [Sessions -> SessionRecords] /\ rotations' = rotations
           /\ ~Live(s)' /\ PanelMoves /\ \A r \in Sessions : Live(r)' => Live(r)
           /\ (Accounted /\ RecordIsSound /\ LateRequests /\ Rotated /\ PairIsCurrent)'
<1>0. /\ sessions \in [Sessions -> SessionRecords] /\ in_flight \subseteq Requests
      /\ rotations' = rotations
  BY DEF AbInv, TypeOK, SessionRecords, PanelLogout
<1>1. [sessions[s] EXCEPT !.status = "Revoked"] \in SessionRecords
  BY <1>0 DEF SessionRecords
<1>2. sessions' \in [Sessions -> SessionRecords]
  BY <1>0, <1>1 DEF PanelLogout
<1>3. /\ \A r \in Sessions : /\ sessions'[r].account = sessions[r].account
                             /\ sessions'[r].pair = sessions[r].pair
                             /\ \/ sessions'[r].status = sessions[r].status
                                \/ r = s /\ Live(s) /\ sessions'[r].status = "Revoked"
      /\ sessions'[s].status # "Live"
  <2>1. CASE Live(s)
    BY <1>0, <2>1 DEF PanelLogout, SessionRecords
  <2>2. CASE ~Live(s)
    BY <2>2 DEF PanelLogout, Live
  <2> QED BY <2>1, <2>2
<1>4. \A q \in Pairs, b \in Attempts : Outstanding(q, b) => Outstanding(q, b)'
  BY <1>0, <1>3 DEF Outstanding, Issued, Live, Pairs, PendingKind
<1>5. ~Live(s)' /\ PanelMoves /\ \A r \in Sessions : Live(r)' => Live(r)
  BY <1>0, <1>3, <1>4 DEF PanelMoves, Issued, Live
<1>6. LateRequests'
  BY <1>0, <1>4 DEF AbInv, LateRequests, Requests, LoginUnresolved, PendingKind
<1>7. Accounted' /\ RecordIsSound'
  <2>1. \A r \in Sessions : (Live(r)' => Live(r)) /\ (Issued(r) => Issued(r)')
    BY Zenon, <1>5 DEF PanelMoves
  <2>2. /\ auth.token # None => auth.token.session \in Sessions
        /\ auth.pending_logout # None => auth.pending_logout.session \in Sessions
    BY DEF AbInv, TypeOK, AuthRecords, Pairs, LogoutProofs
  <2>3. Accounted'
    BY Zenon, <1>3, <2>1 DEF AbInv, Accounted, LoginUnresolved, PendingKind
  <2>4. RecordIsSound'
    BY Zenon, <2>1, <2>2 DEF AbInv, RecordIsSound, LoginUnresolved, PendingKind
  <2> QED BY <2>3, <2>4
<1>8. Rotated' /\ PairIsCurrent'
  BY <1>0, <1>3 DEF AbInv, TypeOK, AuthRecords, Pairs, Rotated, PairIsCurrent, PendingKind, Live
<1> QED BY <1>0, <1>2, <1>5, <1>6, <1>7, <1>8

(* The panel handles a request nobody waits for: it is one the record      *)
(* covers, and no call can mistake its effect for its own.                 *)
LEMMA HandleLateInv == ASSUME AbInv, HandleLate PROVE AbInv'
<1>u. UNCHANGED <<auth, task, issuance, refresh_retry>>
  BY DEF HandleLate
<1>0. PICK r \in in_flight :
       CASE r.kind = "Login" -> \E s \in Sessions : PanelLogin(s, r.account)
         [] r.kind = "Refresh" -> PanelRefresh(r.token, r.attempt) /\ in_flight' = in_flight \ {r}
         [] r.kind = "Logout" -> PanelLogout(r.session) /\ in_flight' = in_flight \ {r}
  BY Zenon DEF HandleLate
<1>1. r \in Requests
  BY DEF AbInv, TypeOK
<1>2. /\ sessions' \in [Sessions -> SessionRecords]
      /\ rotations' \in [Attempts -> 0 .. MaxAttempts + 1]
      /\ in_flight' \subseteq in_flight
      /\ PanelMoves
      /\ NoLateLogin => \A s \in Sessions : Live(s)' => Live(s)
      /\ (Accounted /\ RecordIsSound /\ LateRequests /\ Rotated /\ PairIsCurrent)'
  <2>1. CASE r.kind = "Login"
    <3>1. PICK s \in Sessions : PanelLogin(s, r.account)
      BY <1>0, <2>1
    <3>2. r.account \in Accounts /\ LoginUnresolved /\ auth.account = r.account
      BY <1>1, <2>1 DEF AbInv, LateRequests, Requests
    <3>3. ~NoLateLogin
      BY <2>1 DEF NoLateLogin
    <3> QED BY <1>u, <3>1, <3>2, <3>3, PanelLoginOK DEF AbInv, TypeOK
  <2>2. CASE r.kind = "Refresh"
    <3>1. r.token \in Pairs /\ r.attempt \in Attempts /\ Outstanding(r.token, r.attempt)
      BY <1>1, <2>2 DEF AbInv, LateRequests, Requests
    <3>2. PanelRefresh(r.token, r.attempt) /\ in_flight' \subseteq in_flight
      BY <1>0, <2>2
    <3> QED BY <1>u, <3>1, <3>2, PanelRefreshOK
  <2>3. CASE r.kind = "Logout"
    <3>1. r.session \in Sessions
      BY <1>1, <2>3 DEF Requests
    <3>2. PanelLogout(r.session) /\ in_flight' \subseteq in_flight
      BY <1>0, <2>3
    <3> QED BY <1>u, <3>1, <3>2, PanelLogoutOK DEF AbInv, TypeOK
  <2> QED BY <1>1, <2>1, <2>2, <2>3 DEF Requests
<1>3. TypeOK'
  BY <1>u, <1>2 DEF AbInv, TypeOK, SessionRecords
<1>4. NoLateLogin => NoLateLogin'
  BY <1>2 DEF NoLateLogin
<1>5. ASSUME NEW d \in Callers PROVE TaskInv(d)'
  BY <1>u, <1>2, <1>4, OtherTask
<1> QED BY <1>2, <1>3, <1>5 DEF AbInv

(* The panel's answer to a login. *)
LEMMA LoginAnswerInv == ASSUME AbInv, NEW c \in Callers, LoginAnswer(c) PROVE AbInv'
<1>0. /\ task \in [Callers -> Tasks] /\ task[c] \in Tasks /\ TaskInv(c) /\ issuance = c
      /\ task[c].pc = "login_http" /\ UNCHANGED <<auth, issuance, refresh_retry>>
  BY DEF AbInv, TypeOK, TaskInv, LoginAnswer, LoginHeld
<1>1. /\ task[c].account = auth.account /\ task[c].account \in Accounts /\ LoginUnresolved
      /\ ~task[c].flag
  BY Zenon, <1>0 DEF TaskInv, Arguments, LoginTask, LoginHeld, LoginUnresolved, PendingKind, OwnsTicket, Tasks
<1>2. \A d \in Callers : d # c => task[d].pc \notin LoginHeld
  BY <1>0 DEF AbInv, TaskInv
<1>3. CASE \E s \in Sessions :
             /\ PanelLogin(s, task[c].account)
             /\ task' = [task EXCEPT ![c].pc = "login_accept", ![c].reply = [session |-> s, pair |-> 1]]
  <2>1. PICK s \in Sessions :
             /\ PanelLogin(s, task[c].account)
             /\ task' = [task EXCEPT ![c].pc = "login_accept", ![c].reply = [session |-> s, pair |-> 1]]
    BY Zenon, <1>3
  <2> DEFINE reply == [session |-> s, pair |-> 1]
             n == [task[c] EXCEPT !.pc = "login_accept", !.reply = reply]
  <2>2. /\ sessions' \in [Sessions -> SessionRecords] /\ rotations' = rotations
        /\ in_flight' \subseteq in_flight /\ NoLateLogin'
        /\ Issued(s)' /\ sessions'[s].pair = 1
        /\ \A r \in Sessions : Live(r)' => r = s
        /\ PanelMoves
        /\ (Accounted /\ RecordIsSound /\ LateRequests /\ Rotated /\ PairIsCurrent)'
    BY <1>0, <1>1, <2>1, PanelLoginOK
  <2>3. reply \in Pairs /\ reply # None /\ reply.session = s /\ reply.pair = 1
    BY BrokerAssumption DEF Pairs
  <2>4. n \in Tasks
    <3> HIDE DEF reply
    <3> QED BY Zenon, <1>0, <2>3, TaskFields DEF Places
  <2>5. task' = [task EXCEPT ![c] = n] /\ task'[c] = n /\ \A d \in Callers : d # c => task'[d] = task[d]
    BY Zenon, <1>0, <2>1
  <2>6. /\ n.pc = "login_accept" /\ n.reply = reply
        /\ n.account = task[c].account /\ n.ticket = task[c].ticket /\ n.proof = task[c].proof
        /\ n.overtaken = task[c].overtaken
    BY <1>0 DEF Tasks
  <2> HIDE DEF n, reply
  <2>7. TypeOK'
    BY <1>0, <2>2, <2>4, <2>5 DEF AbInv, TypeOK, SessionRecords
  <2>8. LoginTask(c)'
    BY Zenon, <1>0, <1>1, <2>2, <2>3, <2>5, <2>6 DEF TaskInv, LoginTask, LoginHeld, OwnsTicket, Cancelled, NothingIssued
  <2>9. KnownTask(c)'
    <3>1. task[c].proof # None => task[c].proof.session \in Sessions
      BY <1>0 DEF Tasks, LogoutProofs
    <3> QED BY Zenon, <1>0, <2>2, <2>3, <2>5, <2>6, <3>1 DEF TaskInv, KnownTask, PanelMoves
  <2>10. TaskInv(c)'
    BY Zenon, <1>0, <2>3, <2>5, <2>6, <2>8, <2>9
    DEF TaskInv, Arguments, RefreshTask, OvertakenTask, LoginHeld, RefreshHeld
  <2>11. ASSUME NEW d \in Callers, d # c PROVE TaskInv(d)'
    BY <1>0, <1>2, <2>2, <2>5, <2>11, OtherTask
  <2> QED BY <2>2, <2>7, <2>10, <2>11 DEF AbInv
<1>4. CASE /\ task' = [task EXCEPT ![c].pc = "login_error", ![c].flag = TRUE]
           /\ UNCHANGED panel
  <2> DEFINE n == [task[c] EXCEPT !.pc = "login_error", !.flag = TRUE]
  <2>1. task' = [task EXCEPT ![c] = n] /\ task'[c] = n
    BY Zenon, <1>0, <1>4
  <2>2. n \in Tasks
    BY Zenon, <1>0, TaskFields DEF Places
  <2>3. /\ n.pc = "login_error" /\ n.account = task[c].account /\ n.ticket = task[c].ticket
        /\ n.proof = task[c].proof /\ n.reply = task[c].reply /\ n.overtaken = task[c].overtaken
    BY <1>0 DEF Tasks
  <2> HIDE DEF n
  <2>4. LoginTask(c)'
    BY <1>0, <1>4, <2>1, <2>3
    DEF TaskInv, LoginTask, panel, LoginHeld, OwnsTicket, Cancelled, NothingIssued, NoLateLogin, Live
  <2>5. TaskInv(c)'
    BY <1>0, <1>4, <2>1, <2>3, <2>4
    DEF TaskInv, Arguments, RefreshTask, KnownTask, OvertakenTask, LoginHeld, RefreshHeld, panel, Issued
  <2> QED BY Zenon, <1>0, <1>4, <2>1, <2>2, <2>5, TaskStep DEF AbInv, TypeOK
<1>5. CASE GiveUp(c) /\ Goto(c, "login_error")
  <2> DEFINE n == [task[c] EXCEPT !.pc = "login_error"]
  <2>1. /\ task' = [task EXCEPT ![c] = n] /\ task'[c] = n
        /\ \A d \in Callers : d # c => task'[d] = task[d]
    BY <1>0, <1>5 DEF Goto
  <2>2. n \in Tasks
    BY Zenon, <1>0, TaskFields DEF Places
  <2>3. /\ n.pc = "login_error" /\ n.account = task[c].account /\ n.ticket = task[c].ticket
        /\ n.proof = task[c].proof /\ n.reply = task[c].reply /\ n.overtaken = task[c].overtaken
        /\ n.flag = task[c].flag
    BY <1>0 DEF Tasks
  <2> HIDE DEF n
  <2>4. /\ UNCHANGED <<sessions, rotations>>
        /\ \A r \in in_flight' : r \in in_flight \/ r \in RequestOf(task[c])
    BY <1>5 DEF GiveUp
  <2>5. /\ in_flight' \subseteq Requests
        /\ \A r \in in_flight' : /\ r.kind = "Login" => LoginUnresolved /\ auth.account = r.account
                                 /\ r.kind = "Refresh" => Outstanding(r.token, r.attempt)
    BY <2>4, RequestCovered DEF AbInv, TypeOK, LateRequests
  <2>6. TypeOK'
    BY <1>0, <2>1, <2>2, <2>4, <2>5 DEF AbInv, TypeOK
  <2>7. PanelMoves
    BY <1>0, <2>4 DEF PanelMoves, Issued, Live, Outstanding, PendingKind
  <2>8. LateRequests'
    BY <1>0, <2>4, <2>5 DEF LateRequests, LoginUnresolved, PendingKind, Outstanding, Issued, Live
  <2>9. (Accounted /\ RecordIsSound /\ Rotated /\ PairIsCurrent)'
    BY Zenon, <1>0, <2>4 DEF AbInv, Accounted, RecordIsSound, Rotated, PairIsCurrent, LoginUnresolved, PendingKind,
                      Live, Issued
  <2>10. LoginTask(c)'
    BY Zenon, <1>0, <1>1, <2>1, <2>3 DEF TaskInv, LoginTask, LoginHeld, OwnsTicket, Cancelled
  <2>11. TaskInv(c)'
    BY Zenon, <1>0, <2>1, <2>3, <2>4, <2>10
    DEF TaskInv, Arguments, RefreshTask, KnownTask, OvertakenTask, LoginHeld, RefreshHeld, Issued
  <2>12. ASSUME NEW d \in Callers, d # c PROVE TaskInv(d)'
    BY <1>0, <1>2, <2>1, <2>7, <2>12, OtherTask
  <2> QED BY <2>6, <2>8, <2>9, <2>11, <2>12 DEF AbInv
<1> QED BY <1>3, <1>4, <1>5 DEF LoginAnswer

(* The panel's answer to a refresh. *)
LEMMA RefreshAnswerInv == ASSUME AbInv, NEW c \in Callers, RefreshAnswer(c) PROVE AbInv'
<1> DEFINE token == task[c].token
           attempt == task[c].ticket.attempt
           reply == RefreshReply(token, attempt)
<1>0. /\ task \in [Callers -> Tasks] /\ task[c] \in Tasks /\ TaskInv(c) /\ issuance = c
      /\ task[c].pc = "refresh_http" /\ UNCHANGED auth
  BY DEF AbInv, TypeOK, TaskInv, RefreshAnswer, RefreshHeld
<1>1. token \in Pairs /\ attempt \in Attempts /\ Outstanding(token, attempt)
  BY Zenon, <1>0 DEF TaskInv, Arguments, RefreshTask, Tasks, Tickets
<1>2. \A d \in Callers : d # c => task[d].pc \notin LoginHeld /\ issuance # d
  BY <1>0 DEF AbInv, TaskInv
<1> DEFINE Accepted ==
             /\ reply # None
             /\ \E expired \in {FALSE, rotations[attempt] # 0} :
                  task' = [task EXCEPT ![c].pc = "refresh_accept", ![c].reply = reply, ![c].flag = expired]
             /\ UNCHANGED <<issuance, refresh_retry>>
           Refused == Return(c) /\ refresh_retry' = [attempt |-> attempt, terminal |-> TRUE]
<1>3. CASE PanelRefresh(token, attempt) /\ UNCHANGED in_flight /\ (Accepted \/ Refused)
  <2>1. /\ sessions' \in [Sessions -> SessionRecords]
        /\ rotations' \in [Attempts -> 0 .. MaxAttempts + 1]
        /\ PanelMoves
        /\ (Accounted /\ RecordIsSound /\ LateRequests /\ Rotated /\ PairIsCurrent)'
        /\ reply # None => reply \in Pairs /\ reply.session = token.session /\ reply.pair = rotations'[attempt]
    BY <1>0, <1>1, <1>3, PanelRefreshOK
  <2>2. ASSUME NEW d \in Callers, d # c, task'[d] = task[d], issuance' # d PROVE TaskInv(d)'
    BY <1>2, <2>1, <2>2, OtherTask
  <2>3. CASE Accepted
    <3>1. PICK expired \in BOOLEAN :
            task' = [task EXCEPT ![c].pc = "refresh_accept", ![c].reply = reply, ![c].flag = expired]
      BY Zenon, <2>3
    <3> HIDE DEF reply
    <3> DEFINE m == [task[c] EXCEPT !.pc = "refresh_accept", !.reply = reply]
               n == [task[c] EXCEPT !.pc = "refresh_accept", !.reply = reply, !.flag = expired]
    <3>2. n \in Tasks
      <4>1. m \in Tasks
        BY Zenon, <1>0, <2>1, <2>3, TaskFields DEF Places
      <4>2. n = [m EXCEPT !.flag = expired]
        OBVIOUS
      <4> HIDE DEF m, n
      <4> QED BY Zenon, <4>1, <4>2, TaskFields
    <3>3. task' = [task EXCEPT ![c] = n] /\ task'[c] = n /\ \A d \in Callers : d # c => task'[d] = task[d]
      BY Zenon, <1>0, <3>1
    <3>4. /\ n.pc = "refresh_accept" /\ n.reply = reply /\ n.ticket = task[c].ticket
          /\ n.token = task[c].token /\ n.proof = task[c].proof /\ n.overtaken = task[c].overtaken
      BY <1>0 DEF Tasks
    <3> HIDE DEF n, m
    <3>5. TypeOK'
      BY <1>0, <1>3, <2>1, <2>3, <3>2, <3>3 DEF AbInv, TypeOK, SessionRecords
    <3>6. RefreshTask(c)'
      BY <1>0, <2>1, <2>3, <3>3, <3>4 DEF TaskInv, RefreshTask, OwnsTicket
    <3>7. KnownTask(c)'
      <4>1. token.session \in Sessions /\ Issued(token.session)
        BY <1>1 DEF Pairs, Outstanding
      <4>2. task[c].proof # None => task[c].proof.session \in Sessions
        BY <1>0 DEF Tasks, LogoutProofs
      <4> QED BY <1>0, <2>1, <2>3, <3>3, <3>4, <4>1, <4>2 DEF TaskInv, KnownTask, PanelMoves
    <3>8. TaskInv(c)'
      BY <1>0, <2>3, <3>3, <3>4, <3>6, <3>7
      DEF TaskInv, Arguments, LoginTask, OvertakenTask, LoginHeld, RefreshHeld
    <3> QED BY <1>0, <1>2, <2>1, <2>2, <2>3, <3>3, <3>5, <3>8 DEF AbInv
  <2>4. CASE Refused
    <3>1. /\ task'[c] = Idle /\ task' \in [Callers -> Tasks] /\ issuance' = None
          /\ \A d \in Callers : d # c => task'[d] = task[d]
      BY <1>0, <2>4, IdleType DEF Return
    <3>2. refresh_retry' \in [attempt : Attempts, terminal : BOOLEAN]
      BY <1>1, <2>4
    <3>3. TypeOK'
      BY <1>0, <1>3, <2>1, <3>1, <3>2 DEF AbInv, TypeOK, SessionRecords
    <3>4. TaskInv(c)'
      BY <3>1, IdleTask
    <3> QED BY Zenon, <2>1, <2>2, <3>1, <3>3, <3>4, BrokerAssumption DEF AbInv
  <2> QED BY <1>3, <2>3, <2>4
<1>4. CASE /\ GiveUp(c)
           /\ \E terminal \in BOOLEAN : refresh_retry' = [attempt |-> attempt, terminal |-> terminal]
           /\ Return(c)
  BY <1>0, <1>1, <1>4, ReturnStep DEF GiveUp
<1> QED BY <1>3, <1>4 DEF RefreshAnswer

(* The panel's answer to a revocation. *)
LEMMA LogoutAnswerInv == ASSUME AbInv, NEW c \in Callers, LogoutAnswer(c) PROVE AbInv'
<1>0. /\ task \in [Callers -> Tasks] /\ task[c] \in Tasks /\ TaskInv(c)
      /\ task[c].pc = "logout_http" /\ UNCHANGED <<auth, refresh_retry>>
  BY DEF AbInv, TypeOK, LogoutAnswer
<1>1. CASE /\ PanelLogout(task[c].proof.session) /\ UNCHANGED in_flight
           /\ Goto(c, "logout_finish") /\ UNCHANGED issuance
  <2> DEFINE n == [task[c] EXCEPT !.pc = "logout_finish"]
  <2>0. PICK s \in Sessions : s = task[c].proof.session
    BY Zenon, <1>0 DEF TaskInv, Arguments, Tasks, LogoutProofs
  <2>1. /\ sessions' \in [Sessions -> SessionRecords] /\ rotations' = rotations
        /\ ~Live(s)' /\ PanelMoves /\ \A r \in Sessions : Live(r)' => Live(r)
        /\ (Accounted /\ RecordIsSound /\ LateRequests /\ Rotated /\ PairIsCurrent)'
    BY <1>0, <1>1, <2>0, PanelLogoutOK
  <2>2. task' = [task EXCEPT ![c] = n] /\ task'[c] = n /\ \A d \in Callers : d # c => task'[d] = task[d]
    BY <1>0, <1>1 DEF Goto
  <2>3. n \in Tasks
    BY Zenon, <1>0, TaskFields DEF Places
  <2>4. /\ n.pc = "logout_finish" /\ n.proof = task[c].proof /\ n.fence = task[c].fence
        /\ n.reply = task[c].reply /\ n.overtaken = task[c].overtaken
    BY <1>0 DEF Tasks
  <2> HIDE DEF n
  <2>5. TypeOK'
    BY <1>0, <1>1, <2>1, <2>2, <2>3 DEF AbInv, TypeOK, SessionRecords
  <2>6. KnownTask(c)'
    <3>1. task[c].reply # None => task[c].reply.session \in Sessions
      BY <1>0 DEF Tasks, Pairs
    <3> QED
      BY Zenon, <1>0, <2>0, <2>1, <2>2, <2>4, <3>1 DEF TaskInv, KnownTask, PanelMoves, Live, Issued
  <2>7. TaskInv(c)'
    BY Zenon, <1>0, <1>1, <2>2, <2>4, <2>6
    DEF TaskInv, Arguments, LoginTask, RefreshTask, OvertakenTask, LoginHeld, RefreshHeld
  <2>8. NoLateLogin => NoLateLogin'
    BY <1>1 DEF NoLateLogin
  <2>9. ASSUME NEW d \in Callers, d # c PROVE TaskInv(d)'
    BY <1>1, <2>1, <2>2, <2>8, <2>9, OtherTask
  <2> QED BY <2>1, <2>5, <2>7, <2>9 DEF AbInv
<1>2. CASE GiveUp(c) /\ Return(c)
  BY <1>0, <1>2, ReturnStep DEF GiveUp, AbInv, TypeOK
<1> QED BY <1>1, <1>2 DEF LogoutAnswer

(* A caller's deadline. *)
LEMMA AbandonInv == ASSUME AbInv, NEW c \in Callers, Abandon(c) PROVE AbInv'
BY ReturnStep DEF Abandon, GiveUp, AbInv, TypeOK

-----------------------------------------------------------------------------
(* Steps that save the record. *)

(* The native push cleanup is confirmed. *)
LEMMA PushCleanupInv == ASSUME AbInv, PushCleanup PROVE AbInv'
<1>0. auth \in AuthRecords /\ UNCHANGED <<task, issuance, refresh_retry, panel>>
  BY DEF AbInv, TypeOK, PushCleanup
<1>1. /\ auth' \in AuthRecords
      /\ auth'.auth_epoch = auth.auth_epoch /\ auth'.logout_state = auth.logout_state
      /\ auth'.token = auth.token /\ auth'.family = auth.family
      /\ auth'.next_attempt = auth.next_attempt /\ auth'.pending_request = auth.pending_request
      /\ auth'.cancelled_login = auth.cancelled_login /\ auth'.unknown = auth.unknown
      /\ auth'.account = auth.account /\ auth'.pending_logout = auth.pending_logout
      /\ auth'.push_cleanup = None
  BY <1>0 DEF PushCleanup, AuthRecords
<1>2. TypeOK'
  BY <1>0, <1>1 DEF AbInv, TypeOK, panel
<1>3. (Accounted /\ RecordIsSound /\ LateRequests /\ Rotated /\ PairIsCurrent)'
  <2>1. Accounted' /\ RecordIsSound'
    BY <1>0, <1>1 DEF AbInv, Accounted, RecordIsSound, LoginUnresolved, PendingKind, Issued, Live, panel
  <2>2. LateRequests'
    BY <1>0, <1>1 DEF AbInv, LateRequests, LoginUnresolved, PendingKind, Outstanding, Issued, Live, panel
  <2>3. Rotated' /\ PairIsCurrent'
    BY <1>0, <1>1 DEF AbInv, Rotated, PairIsCurrent, PendingKind, Issued, Live, panel
  <2> QED BY <2>1, <2>2, <2>3
<1>4. ASSUME NEW d \in Callers PROVE TaskInv(d)'
  <2>1. TaskInv(d)
    BY DEF AbInv
  <2>2. LoginTask(d)'
    BY Zenon, <1>0, <1>1, <2>1
    DEF TaskInv, LoginTask, OwnsTicket, Cancelled, NothingIssued, NoLateLogin, Live, panel
  <2>3. RefreshTask(d)' /\ KnownTask(d)'
    BY Zenon, <1>0, <1>1, <2>1
    DEF TaskInv, RefreshTask, KnownTask, OwnsTicket, Outstanding, PendingKind, Live, Issued, panel
  <2> QED BY Zenon, <1>0, <1>1, <2>1, <2>2, <2>3 DEF TaskInv, Arguments, OvertakenTask
<1> QED BY <1>2, <1>3, <1>4 DEF AbInv

(* The record stays a record when one of its fields is given a value of    *)
(* its type.                                                               *)
LEMMA RecordFields ==
    ASSUME NEW a \in AuthRecords
    PROVE  /\ \A x \in Epochs : [a EXCEPT !.auth_epoch = x] \in AuthRecords
           /\ \A x \in {"Active", "Pending", "LoggedOut"} : [a EXCEPT !.logout_state = x] \in AuthRecords
           /\ \A x \in Pairs \cup {None} : [a EXCEPT !.token = x] \in AuthRecords
           /\ \A x \in Sessions \cup {None} : [a EXCEPT !.family = x] \in AuthRecords
           /\ \A x \in 0 .. MaxAttempts : [a EXCEPT !.next_attempt = x] \in AuthRecords
           /\ \A x \in Tickets \cup {None} : [a EXCEPT !.pending_request = x] \in AuthRecords
           /\ \A x \in Tickets \cup {None} : [a EXCEPT !.cancelled_login = x] \in AuthRecords
           /\ \A x \in BOOLEAN : [a EXCEPT !.unknown = x] \in AuthRecords
           /\ \A x \in Accounts \cup {None} : [a EXCEPT !.account = x] \in AuthRecords
           /\ \A x \in LogoutProofs \cup {None} : [a EXCEPT !.pending_logout = x] \in AuthRecords
           /\ \A x \in Epochs \cup {None} : [a EXCEPT !.push_cleanup = x] \in AuthRecords
<1>1. \A x \in Epochs : [a EXCEPT !.auth_epoch = x] \in AuthRecords
  BY DEF AuthRecords
<1>2. \A x \in {"Active", "Pending", "LoggedOut"} : [a EXCEPT !.logout_state = x] \in AuthRecords
  BY DEF AuthRecords
<1>3. \A x \in Pairs \cup {None} : [a EXCEPT !.token = x] \in AuthRecords
  BY DEF AuthRecords
<1>4. \A x \in Sessions \cup {None} : [a EXCEPT !.family = x] \in AuthRecords
  BY DEF AuthRecords
<1>5. \A x \in 0 .. MaxAttempts : [a EXCEPT !.next_attempt = x] \in AuthRecords
  BY DEF AuthRecords
<1>6. \A x \in Tickets \cup {None} : [a EXCEPT !.pending_request = x] \in AuthRecords
  BY DEF AuthRecords
<1>7. \A x \in Tickets \cup {None} : [a EXCEPT !.cancelled_login = x] \in AuthRecords
  BY DEF AuthRecords
<1>8. \A x \in BOOLEAN : [a EXCEPT !.unknown = x] \in AuthRecords
  BY DEF AuthRecords
<1>9. \A x \in Accounts \cup {None} : [a EXCEPT !.account = x] \in AuthRecords
  BY DEF AuthRecords
<1>10. \A x \in LogoutProofs \cup {None} : [a EXCEPT !.pending_logout = x] \in AuthRecords
  BY DEF AuthRecords
<1>11. \A x \in Epochs \cup {None} : [a EXCEPT !.push_cleanup = x] \in AuthRecords
  BY DEF AuthRecords
<1> QED BY <1>1, <1>2, <1>3, <1>4, <1>5, <1>6, <1>7, <1>8, <1>9, <1>10, <1>11

(* A new operation takes the next attempt number. *)
LEMMA BeginOK ==
    ASSUME NEW a \in AuthRecords, NEW kind \in {"Login", "Refresh"}, NEW prior \in BOOLEAN,
           a.next_attempt < MaxAttempts
    PROVE  /\ Begin(a, kind, prior) \in AuthRecords
           /\ Ticket(a, kind, prior) \in Tickets
           /\ Begin(a, kind, prior).next_attempt = a.next_attempt + 1
           /\ Begin(a, kind, prior).pending_request = Ticket(a, kind, prior)
           /\ Begin(a, kind, prior).auth_epoch = a.auth_epoch
           /\ Begin(a, kind, prior).logout_state = a.logout_state
           /\ Begin(a, kind, prior).token = a.token
           /\ Begin(a, kind, prior).family = a.family
           /\ Begin(a, kind, prior).cancelled_login = a.cancelled_login
           /\ Begin(a, kind, prior).unknown = a.unknown
           /\ Begin(a, kind, prior).account = a.account
           /\ Begin(a, kind, prior).pending_logout = a.pending_logout
           /\ Begin(a, kind, prior).push_cleanup = a.push_cleanup
<1>1. a.next_attempt + 1 \in Attempts /\ a.next_attempt + 1 \in 0 .. MaxAttempts
  BY BrokerAssumption DEF AuthRecords, Attempts
<1>2. Ticket(a, kind, prior) \in Tickets
  BY <1>1 DEF Ticket, Tickets, AuthRecords
<1> DEFINE m == [a EXCEPT !.next_attempt = a.next_attempt + 1]
<1>3. m \in AuthRecords
  BY Zenon, <1>1, RecordFields
<1>4. Begin(a, kind, prior) = [m EXCEPT !.pending_request = Ticket(a, kind, prior)]
  BY DEF Begin, AuthRecords
<1>5. Begin(a, kind, prior) \in AuthRecords
  <2>1. [m EXCEPT !.pending_request = Ticket(a, kind, prior)] \in AuthRecords
    <3> HIDE DEF m
    <3>2. \A x \in Tickets \cup {None} : [m EXCEPT !.pending_request = x] \in AuthRecords
      BY Zenon, <1>3, RecordFields
    <3> QED BY <1>2, <3>2
  <2> QED BY <1>4, <2>1
<1>6. /\ m.next_attempt = a.next_attempt + 1 /\ m.auth_epoch = a.auth_epoch
      /\ m.logout_state = a.logout_state /\ m.token = a.token /\ m.family = a.family
      /\ m.cancelled_login = a.cancelled_login /\ m.unknown = a.unknown /\ m.account = a.account
      /\ m.pending_logout = a.pending_logout /\ m.push_cleanup = a.push_cleanup
  BY DEF AuthRecords
<1> DEFINE b == Begin(a, kind, prior)
<1>7. /\ b.pending_request = Ticket(a, kind, prior)
      /\ b.next_attempt = m.next_attempt /\ b.auth_epoch = m.auth_epoch
      /\ b.logout_state = m.logout_state /\ b.token = m.token /\ b.family = m.family
      /\ b.cancelled_login = m.cancelled_login /\ b.unknown = m.unknown /\ b.account = m.account
      /\ b.pending_logout = m.pending_logout /\ b.push_cleanup = m.push_cleanup
  <2> HIDE DEF m
  <2> QED BY <1>3, <1>4 DEF AuthRecords
<1> HIDE DEF m
<1> QED BY <1>2, <1>5, <1>6, <1>7

(* While a call holds issuance, or takes it, the others only wait.         *)
LEMMA WaitingTask ==
    ASSUME AbInv, NEW c \in Callers, NEW d \in Callers, d # c, task'[d] = task[d],
           issuance \in {c, None}, issuance' \in {c, None}, UNCHANGED panel,
           auth'.auth_epoch \in Epochs, auth.auth_epoch <= auth'.auth_epoch
    PROVE  TaskInv(d)'
<1>0. TaskInv(d) /\ task[d] \in Tasks /\ issuance # d /\ issuance' # d
  <2>1. TaskInv(d) /\ task[d] \in Tasks
    BY DEF AbInv, TypeOK
  <2>2. d # None
    BY BrokerAssumption
  <2> QED BY Zenon, <2>1, <2>2
<1>1. task[d].pc \notin LoginHeld \cup RefreshHeld
  BY <1>0 DEF TaskInv
<1>2. Arguments(task[d])' /\ LoginTask(d)' /\ RefreshTask(d)' /\ KnownTask(d)'
  BY Zenon, <1>0, <1>1 DEF TaskInv, Arguments, LoginTask, RefreshTask, KnownTask, LoginHeld, RefreshHeld,
                    panel, Issued, Live
<1>3. OvertakenTask(d)'
  <2>1. auth.auth_epoch \in Nat /\ auth'.auth_epoch \in Nat
        /\ (task[d].fence # None => task[d].fence.epoch \in Nat)
    <3>1. Epochs \subseteq Nat
      BY BrokerAssumption DEF Epochs
    <3>2. auth.auth_epoch \in Epochs
      BY DEF AbInv, TypeOK, AuthRecords
    <3>3. task[d].fence # None => task[d].fence.epoch \in Epochs
      BY <1>0 DEF Tasks, Fences
    <3> QED BY Zenon, <3>1, <3>2, <3>3
  <2> QED BY <1>0, <2>1 DEF TaskInv, OvertakenTask
<1> QED BY <1>0, <1>1, <1>2, <1>3 DEF TaskInv

(* The owner ends and starts again: nothing of its memory is left. *)
LEMMA RestartInv == ASSUME AbInv, Restart PROVE AbInv'
<1>0. /\ auth \in AuthRecords /\ UNCHANGED <<sessions, rotations>>
      /\ \A c \in Callers : task'[c] = Idle
      /\ \A r \in in_flight' : r \in in_flight \/ \E c \in Callers : r \in RequestOf(task[c])
  BY DEF AbInv, TypeOK, Restart
<1>1. /\ auth' \in AuthRecords
      /\ auth'.unknown = (auth.unknown \/ PendingKind(auth, "Login"))
      /\ auth'.auth_epoch = auth.auth_epoch /\ auth'.logout_state = auth.logout_state
      /\ auth'.token = auth.token /\ auth'.family = auth.family
      /\ auth'.next_attempt = auth.next_attempt /\ auth'.pending_request = auth.pending_request
      /\ auth'.cancelled_login = auth.cancelled_login
      /\ auth'.account = auth.account /\ auth'.pending_logout = auth.pending_logout
      /\ auth'.push_cleanup = auth.push_cleanup
  <2>1. auth.unknown \/ PendingKind(auth, "Login") \in BOOLEAN
    BY Zenon, <1>0 DEF AuthRecords, PendingKind
  <2> QED BY <1>0, <2>1 DEF Restart, AuthRecords
<1>2. TypeOK'
  <2>1. in_flight' \subseteq Requests
    BY <1>0, RequestCovered DEF AbInv, TypeOK
  <2> QED BY <1>0, <1>1, <2>1, IdleType DEF AbInv, TypeOK, Restart
<1>3. LoginUnresolved' <=> LoginUnresolved
  BY Zenon, <1>1 DEF LoginUnresolved, PendingKind
<1>4. LateRequests'
  <2> SUFFICES ASSUME NEW r \in in_flight'
               PROVE  /\ r.kind = "Login" => LoginUnresolved' /\ auth'.account = r.account
                      /\ r.kind = "Refresh" => Outstanding(r.token, r.attempt)'
    BY DEF LateRequests
  <2>1. /\ r.kind = "Login" => LoginUnresolved /\ auth.account = r.account
        /\ r.kind = "Refresh" => Outstanding(r.token, r.attempt)
    BY <1>0, RequestCovered DEF AbInv, LateRequests
  <2> QED BY <1>0, <1>1, <1>3, <2>1 DEF PendingKind, Outstanding, Issued, Live
<1>5. Accounted'
  BY Zenon, <1>0, <1>1, <1>3 DEF AbInv, Accounted, Live
<1>6. RecordIsSound' /\ Rotated' /\ PairIsCurrent'
  <2>1. auth.logout_state = "LoggedOut" => ~PendingKind(auth, "Login")
    BY DEF AbInv, RecordIsSound, PendingKind
  <2> QED BY Zenon, <1>0, <1>1, <1>3, <2>1 DEF AbInv, RecordIsSound, Rotated, PairIsCurrent, PendingKind, Issued, Live
<1>7. \A c \in Callers : TaskInv(c)'
  BY <1>0, IdleTask
<1> QED BY <1>2, <1>4, <1>5, <1>6, <1>7 DEF AbInv

=============================================================================
