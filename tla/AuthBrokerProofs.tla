------------------------- MODULE AuthBrokerProofs -------------------------
(***************************************************************************)
(* For every number of callers, accounts, sessions, attempts and epochs:   *)
(* no session of the panel is lost, the broker's pair stays recoverable,   *)
(* and a call that a logout has overtaken installs nothing.                *)
(***************************************************************************)
EXTENDS AuthBrokerSteps

(* A login is admitted: nothing the panel knows of is forgotten, because   *)
(* an unresolved login is only followed by one of the same account.        *)
LEMMA LoginLockedInv == ASSUME AbInv, NEW c \in Callers, LoginLocked(c) PROVE AbInv'
<1>0. /\ task \in [Callers -> Tasks] /\ task[c] \in Tasks /\ TaskInv(c) /\ issuance = None
      /\ task[c].pc = "login_wait" /\ UNCHANGED <<refresh_retry, panel>> /\ auth \in AuthRecords
  BY DEF AbInv, TypeOK, LoginLocked
<1>1. CASE UNCHANGED auth /\ Return(c)
  BY <1>0, <1>1, ReturnStep DEF panel, AbInv, TypeOK
<1> DEFINE unresolved == ControlledUnknown
           opened == [auth EXCEPT !.auth_epoch = @ + 1, !.logout_state = "Active",
                           !.unknown = FALSE, !.cancelled_login = None,
                           !.account = task[c].account]
           t == Ticket(opened, "Login", unresolved)
           n == [task[c] EXCEPT !.pc = "login_stop", !.ticket = t]
<1>2. CASE /\ LoginAdmitted(c)
           /\ auth.auth_epoch < MaxEpoch /\ auth.next_attempt < MaxAttempts
           /\ auth' = Begin(opened, "Login", unresolved)
           /\ task' = [task EXCEPT ![c].pc = "login_stop", ![c].ticket = auth'.pending_request]
           /\ issuance' = c
  <2>0. /\ Fence(auth) = task[c].fence /\ auth.pending_logout = None
        /\ unresolved => auth.account = task[c].account
        /\ auth.token = None
        /\ unresolved <=> LoginUnresolved
        /\ unresolved \in BOOLEAN
    BY <1>0, <1>2 DEF LoginAdmitted, ControlledUnknown, LoginUnresolved, AbInv, RecordIsSound, AuthRecords,
                      PendingKind
  <2>1. task[c].account \in Accounts /\ ~task[c].flag
    BY <1>0 DEF TaskInv, Arguments, Tasks
  <2>2. auth.auth_epoch + 1 \in Epochs /\ auth.auth_epoch \in Nat /\ auth.next_attempt \in Nat
    BY <1>0, <1>2, BrokerAssumption DEF AuthRecords, Epochs
  <2> HIDE DEF unresolved
  <2>3. /\ opened \in AuthRecords
        /\ opened.auth_epoch = auth.auth_epoch + 1 /\ opened.logout_state = "Active"
        /\ opened.token = auth.token /\ opened.family = auth.family
        /\ opened.next_attempt = auth.next_attempt
        /\ opened.cancelled_login = None /\ opened.unknown = FALSE
        /\ opened.account = task[c].account /\ opened.pending_logout = auth.pending_logout
        /\ opened.push_cleanup = auth.push_cleanup
    <3> DEFINE o1 == [auth EXCEPT !.auth_epoch = auth.auth_epoch + 1]
               o2 == [o1 EXCEPT !.logout_state = "Active"]
               o3 == [o2 EXCEPT !.unknown = FALSE]
               o4 == [o3 EXCEPT !.cancelled_login = None]
    <3>1. o1 \in AuthRecords
      BY Zenon, <1>0, <2>2, RecordFields
    <3>2. o2 \in AuthRecords
      <4> HIDE DEF o1
      <4> QED BY Zenon, <3>1, RecordFields
    <3>3. o3 \in AuthRecords
      <4> HIDE DEF o2
      <4> QED BY Zenon, <3>2, RecordFields
    <3>4. o4 \in AuthRecords
      <4> HIDE DEF o3
      <4> QED BY Zenon, <3>3, RecordFields
    <3>5. opened = [o4 EXCEPT !.account = task[c].account]
      BY <1>0 DEF AuthRecords
    <3>6. opened \in AuthRecords
      <4> HIDE DEF o4, opened
      <4> QED BY Zenon, <2>1, <3>4, <3>5, RecordFields
    <3> QED BY <1>0, <3>6 DEF AuthRecords
  <2> HIDE DEF opened
  <2>4. /\ auth' \in AuthRecords /\ t \in Tickets /\ t # None
        /\ auth'.auth_epoch = auth.auth_epoch + 1 /\ auth'.logout_state = "Active"
        /\ auth'.token = None /\ auth'.family = auth.family
        /\ auth'.next_attempt = auth.next_attempt + 1 /\ auth'.pending_request = t
        /\ auth'.cancelled_login = None /\ auth'.unknown = FALSE
        /\ auth'.account = task[c].account /\ auth'.pending_logout = None
    BY <1>2, <2>0, <2>2, <2>3, BeginOK, BrokerAssumption
  <2>5. /\ t.kind = "Login" /\ t.attempt = auth'.next_attempt /\ t.epoch = auth'.auth_epoch
        /\ t.source = auth'.family /\ t.prior = unresolved
    BY <2>3, <2>4 DEF Ticket
  <2> HIDE DEF t
  <2>6. n \in Tasks
    BY Zenon, <1>0, <2>4, TaskFields DEF Places
  <2>7. /\ task' = [task EXCEPT ![c] = n] /\ task'[c] = n
        /\ \A d \in Callers : d # c => task'[d] = task[d]
    BY Zenon, <1>0, <1>2, <2>4
  <2>8. /\ n.pc = "login_stop" /\ n.ticket = t /\ n.account = task[c].account /\ n.flag = task[c].flag
        /\ n.proof = task[c].proof /\ n.reply = task[c].reply /\ n.overtaken = task[c].overtaken
    BY <1>0 DEF Tasks
  <2> HIDE DEF n
  <2>9. TypeOK'
    BY <1>0, <1>2, <2>4, <2>6, <2>7 DEF AbInv, TypeOK, panel
  <2>10. LoginUnresolved'
    BY <2>4, <2>5 DEF LoginUnresolved, PendingKind
  <2>11. Accounted'
    BY Zenon, <1>0, <2>0, <2>4, <2>10 DEF AbInv, Accounted, Live, panel
  <2>12. RecordIsSound'
    BY <1>0, <2>4, <2>5 DEF RecordIsSound
  <2>13. LateRequests'
    <3> SUFFICES ASSUME NEW r \in in_flight
                 PROVE  /\ r.kind = "Login" => LoginUnresolved' /\ auth'.account = r.account
                        /\ r.kind = "Refresh" => Outstanding(r.token, r.attempt)'
      BY Zenon, <1>0 DEF LateRequests, panel
    <3>1. r.kind = "Login" => auth'.account = r.account
      BY <2>0, <2>4 DEF AbInv, LateRequests
    <3>2. r.kind = "Refresh" => /\ Outstanding(r.token, r.attempt)
                                /\ r.token \in Pairs /\ r.attempt \in Nat
      BY BrokerAssumption DEF AbInv, TypeOK, LateRequests, Requests, Attempts
    <3>3. r.kind = "Refresh" => r.token # None
      BY <3>2, BrokerAssumption
    <3> QED BY <1>0, <2>0, <2>2, <2>4, <2>10, <3>1, <3>2, <3>3 DEF Outstanding, Issued, Live, panel
  <2>14. Rotated' /\ PairIsCurrent'
    <3>1. \A a \in Attempts : a \in Nat
      BY BrokerAssumption DEF Attempts
    <3> QED BY <1>0, <2>2, <2>4, <3>1 DEF AbInv, Rotated, PairIsCurrent, panel
  <2>15. LoginTask(c)'
    <3>1. OwnsTicket(auth, task[c].ticket)'
      BY <2>4, <2>5, <2>7, <2>8 DEF OwnsTicket
    <3>2. ~unresolved => NothingIssued
      BY <2>0 DEF AbInv, Accounted, LateRequests, NothingIssued, NoLateLogin
    <3> QED
      BY Zenon, <1>0, <2>4, <2>5, <2>7, <2>8, <3>1, <3>2 DEF LoginTask, NothingIssued, NoLateLogin, Live, panel
  <2>16. ~task[c].overtaken
    BY <1>0, <2>0, <2>2 DEF TaskInv, OvertakenTask, Fence
  <2>17. TaskInv(c)'
    BY <1>0, <1>2, <2>1, <2>4, <2>5, <2>7, <2>8, <2>15, <2>16, BrokerAssumption
    DEF TaskInv, Arguments, RefreshTask, KnownTask, OvertakenTask, LoginHeld, RefreshHeld, panel, Issued
  <2>18. ASSUME NEW d \in Callers, d # c PROVE TaskInv(d)'
    <3>1. auth'.auth_epoch \in Epochs /\ auth.auth_epoch <= auth'.auth_epoch
      BY <2>2, <2>4
    <3> QED BY <1>0, <1>2, <2>7, <2>18, <3>1, WaitingTask
  <2> QED BY <2>9, <2>11, <2>12, <2>13, <2>14, <2>17, <2>18 DEF AbInv
<1> QED BY <1>1, <1>2 DEF LoginLocked, SaveFails

(* A call that holds issuance saves the record and returns. *)
LEMMA HolderReturns ==
    ASSUME AbInv, NEW c \in Callers, issuance = c, Return(c), UNCHANGED panel,
           auth' \in AuthRecords, auth.auth_epoch <= auth'.auth_epoch,
           refresh_retry' \in [attempt : Attempts, terminal : BOOLEAN] \cup {None},
           (Accounted /\ RecordIsSound /\ LateRequests /\ Rotated /\ PairIsCurrent)'
    PROVE  AbInv'
<1>1. /\ task'[c] = Idle /\ task' \in [Callers -> Tasks] /\ issuance' = None
      /\ \A d \in Callers : d # c => task'[d] = task[d]
  BY IdleType DEF AbInv, TypeOK, Return
<1>2. TypeOK'
  BY <1>1 DEF AbInv, TypeOK, panel
<1>3. auth'.auth_epoch \in Epochs
  BY DEF AuthRecords
<1>4. TaskInv(c)'
  BY <1>1, IdleTask
<1>5. ASSUME NEW d \in Callers, d # c PROVE TaskInv(d)'
  BY <1>1, <1>3, <1>5, WaitingTask
<1> QED BY <1>2, <1>4, <1>5 DEF AbInv

(* Nobody is signed in while a login runs: a late refresh cannot rotate    *)
(* the pair of a session that is alive.                                    *)
LEMMA LateRefreshIsSpent ==
    ASSUME AbInv, auth.token = None, NEW p \in Pairs, NEW a \in Attempts, Outstanding(p, a),
           UNCHANGED panel, auth'.next_attempt = auth.next_attempt
    PROVE  Outstanding(p, a)'
<1>1. p # None
  BY BrokerAssumption
<1> QED BY <1>1 DEF Outstanding, Issued, Live, panel

(* The record marks the login it still owns as unknown. *)
LEMMA MarkUnknown ==
    ASSUME AbInv, LoginUnresolved, auth.logout_state # "LoggedOut", UNCHANGED panel,
           auth' = [auth EXCEPT !.unknown = TRUE]
    PROVE  /\ auth' \in AuthRecords /\ auth'.auth_epoch = auth.auth_epoch
           /\ (Accounted /\ RecordIsSound /\ LateRequests /\ Rotated /\ PairIsCurrent)'
<1>0. auth \in AuthRecords
  BY DEF AbInv, TypeOK
<1>1. /\ auth' \in AuthRecords /\ auth'.unknown = TRUE
      /\ auth'.auth_epoch = auth.auth_epoch /\ auth'.logout_state = auth.logout_state
      /\ auth'.token = auth.token /\ auth'.family = auth.family
      /\ auth'.next_attempt = auth.next_attempt /\ auth'.pending_request = auth.pending_request
      /\ auth'.account = auth.account /\ auth'.pending_logout = auth.pending_logout
      /\ auth'.push_cleanup = auth.push_cleanup
  BY Zenon, <1>0 DEF AuthRecords
<1>2. LoginUnresolved'
  BY <1>1 DEF LoginUnresolved
<1>3. Accounted' /\ RecordIsSound'
  BY <1>1, <1>2 DEF AbInv, Accounted, RecordIsSound, PendingKind, Issued, Live, panel
<1>4. LateRequests'
  BY <1>1, <1>2 DEF AbInv, LateRequests, Outstanding, PendingKind, Issued, Live, panel
<1>5. Rotated' /\ PairIsCurrent'
  BY <1>1 DEF AbInv, Rotated, PairIsCurrent, PendingKind, Live, panel
<1> QED BY <1>1, <1>3, <1>4, <1>5

(* A login ends without a session it can use. *)
LEMMA LoginErrorInv == ASSUME AbInv, NEW c \in Callers, LoginError(c) PROVE AbInv'
<1> DEFINE t == task[c].ticket
           rejected == [auth EXCEPT !.pending_request = None, !.account = None,
                                    !.unknown = FALSE, !.logout_state = "LoggedOut"]
<1>0. /\ task[c] \in Tasks /\ TaskInv(c) /\ issuance = c /\ auth \in AuthRecords
      /\ task[c].pc = "login_error" /\ UNCHANGED <<refresh_retry, panel>> /\ Return(c)
  BY DEF AbInv, TypeOK, TaskInv, LoginError, LoginHeld, SaveFails
<1>1. CASE UNCHANGED auth
  BY <1>0, <1>1, ReturnStep DEF AbInv, TypeOK, panel
<1>2. OwnsTicket(auth, t) => LoginUnresolved /\ auth.token = None /\ auth.pending_logout = None
                             /\ auth.logout_state = "Active"
  BY Zenon, <1>0 DEF TaskInv, Arguments, LoginHeld, OwnsTicket, LoginUnresolved, PendingKind, AbInv, RecordIsSound
<1>3. CASE OwnsTicket(auth, t) /\ task[c].flag /\ ~t.prior /\ auth' = rejected
  <2>1. /\ auth' \in AuthRecords /\ auth'.unknown = FALSE /\ auth'.logout_state = "LoggedOut"
        /\ auth'.pending_request = None
        /\ auth'.auth_epoch = auth.auth_epoch /\ auth'.token = auth.token
        /\ auth'.next_attempt = auth.next_attempt /\ auth'.pending_logout = auth.pending_logout
    <3> DEFINE r1 == [auth EXCEPT !.pending_request = None, !.account = None]
               r2 == [r1 EXCEPT !.unknown = FALSE]
    <3>1. r1 \in AuthRecords
      BY Zenon, <1>0, RecordFields
    <3>2. r2 \in AuthRecords
      <4> HIDE DEF r1
      <4> QED BY Zenon, <3>1, RecordFields
    <3>3. rejected = [r2 EXCEPT !.logout_state = "LoggedOut"]
      BY <1>0 DEF AuthRecords
    <3>4. rejected \in AuthRecords
      <4> HIDE DEF r2, rejected
      <4> QED BY Zenon, <3>2, <3>3, RecordFields
    <3> QED BY <1>0, <1>3, <3>4 DEF AuthRecords
  <2>2. NothingIssued
    BY <1>0, <1>3 DEF TaskInv, LoginTask, LoginHeld
  <2>3. Accounted' /\ RecordIsSound'
    BY <1>0, <1>2, <1>3, <2>1, <2>2 DEF Accounted, RecordIsSound, NothingIssued, LoginUnresolved, PendingKind,
       Live, panel
  <2>4. LateRequests'
    <3>1. ASSUME NEW r \in in_flight PROVE r.kind = "Refresh" => Outstanding(r.token, r.attempt)'
      BY <1>0, <1>2, <1>3, <2>1, LateRefreshIsSpent DEF AbInv, TypeOK, LateRequests, Requests
    <3> QED BY Zenon, <1>0, <2>2, <3>1 DEF LateRequests, NothingIssued, NoLateLogin, panel
  <2>5. Rotated' /\ PairIsCurrent'
    BY Zenon, <1>0, <2>1 DEF AbInv, Rotated, PairIsCurrent, panel
  <2>6. auth.auth_epoch <= auth'.auth_epoch
    BY <1>0, <2>1, BrokerAssumption DEF AuthRecords, Epochs
  <2> QED BY Zenon, <1>0, <2>1, <2>3, <2>4, <2>5, <2>6, HolderReturns DEF AbInv, TypeOK
<1>4. CASE OwnsTicket(auth, t) /\ auth' = [auth EXCEPT !.unknown = TRUE]
  <2>1. /\ auth' \in AuthRecords /\ auth'.auth_epoch = auth.auth_epoch
        /\ (Accounted /\ RecordIsSound /\ LateRequests /\ Rotated /\ PairIsCurrent)'
    BY <1>0, <1>2, <1>4, MarkUnknown
  <2>2. auth.auth_epoch <= auth'.auth_epoch
    BY <1>0, <2>1, BrokerAssumption DEF AuthRecords, Epochs
  <2> QED BY <1>0, <2>1, <2>2, HolderReturns DEF AbInv, TypeOK
<1> QED BY <1>1, <1>3, <1>4 DEF LoginError, SaveFails

(* The answer of a login: installed, or kept to be revoked, or unknown. *)
LEMMA LoginAcceptInv == ASSUME AbInv, NEW c \in Callers, LoginAccept(c) PROVE AbInv'
<1> DEFINE t == task[c].ticket
           reply == task[c].reply
           owned == OwnsTicket(auth, t)
           revoked == IF owned THEN [auth EXCEPT !.auth_epoch = @ + 1, !.logout_state = "Pending"]
                      ELSE auth
<1>0. /\ task \in [Callers -> Tasks] /\ task[c] \in Tasks /\ TaskInv(c) /\ issuance = c
      /\ auth \in AuthRecords /\ task[c].pc = "login_accept" /\ UNCHANGED <<refresh_retry, panel>>
  BY DEF AbInv, TypeOK, TaskInv, LoginAccept, LoginHeld
<1>1. /\ reply \in Pairs /\ reply # None /\ reply.session \in Sessions /\ reply.pair = 1
      /\ t \in Tickets /\ t.kind = "Login" /\ t.attempt \in Nat /\ t.attempt >= 1
      /\ NoLateLogin /\ Issued(reply.session)
      /\ \A s \in Sessions : Live(s) => s = reply.session /\ sessions[s].pair = 1
  BY <1>0, BrokerAssumption
  DEF TaskInv, Arguments, LoginTask, KnownTask, LoginHeld, Tasks, Pairs, Tickets, Attempts
<1>2. /\ (owned /\ ~auth.unknown) \/ (Cancelled(t) /\ auth.unknown)
      /\ LoginUnresolved /\ auth.token = None /\ auth.pending_logout = None
  <2>1. (owned /\ ~auth.unknown) \/ (Cancelled(t) /\ auth.unknown)
    BY Zenon, <1>0 DEF TaskInv, LoginTask, LoginHeld
  <2>2. LoginUnresolved
    BY Zenon, <1>1, <2>1, BrokerAssumption DEF LoginUnresolved, PendingKind, OwnsTicket
  <2> QED BY Zenon, <2>1, <2>2 DEF AbInv, RecordIsSound
<1>3. owned => auth.logout_state = "Active" /\ auth.next_attempt = t.attempt
  BY DEF OwnsTicket
<1>4. Cancelled(t) => auth.logout_state = "Pending" /\ ~owned
  BY <1>3 DEF Cancelled
<1>5. auth.auth_epoch \in Nat /\ auth.next_attempt \in Nat
  BY <1>0, BrokerAssumption DEF AuthRecords, Epochs
<1>6. CASE UNCHANGED auth /\ Return(c)
  BY <1>0, <1>6, ReturnStep DEF AbInv, TypeOK, panel
<1>7. ASSUME NEW r \in in_flight, auth'.next_attempt = auth.next_attempt
      PROVE  r.kind # "Login" /\ (r.kind = "Refresh" => Outstanding(r.token, r.attempt)')
  BY Zenon, <1>0, <1>1, <1>2, <1>7, LateRefreshIsSpent DEF AbInv, TypeOK, LateRequests, Requests, NoLateLogin
<1>8. CASE /\ Cancelled(t) \/ owned
           /\ owned => auth.auth_epoch < MaxEpoch
           /\ auth' = KeepProof(revoked, reply.session)
           /\ task' = [task EXCEPT ![c].pc = "logout_begin", ![c].fence = None, ![c].ticket = None]
           /\ UNCHANGED issuance
  <2>1. /\ revoked \in AuthRecords /\ revoked.logout_state = "Pending"
        /\ auth.auth_epoch <= revoked.auth_epoch
        /\ revoked.token = None /\ revoked.next_attempt = auth.next_attempt
        /\ revoked.push_cleanup = auth.push_cleanup
    <3>1. CASE owned
      <4>1. auth.auth_epoch + 1 \in Epochs
        BY <1>5, <1>8, <3>1, BrokerAssumption DEF Epochs
      <4>2. revoked = [auth EXCEPT !.auth_epoch = auth.auth_epoch + 1, !.logout_state = "Pending"]
        BY <3>1
      <4>3. revoked \in AuthRecords
        BY Zenon, <1>0, <4>1, <4>2, RecordFields
      <4> HIDE DEF revoked
      <4>4. /\ revoked.logout_state = "Pending" /\ revoked.auth_epoch = auth.auth_epoch + 1
            /\ revoked.token = auth.token /\ revoked.next_attempt = auth.next_attempt
            /\ revoked.push_cleanup = auth.push_cleanup
        BY <1>0, <4>2 DEF AuthRecords
      <4> QED BY <1>2, <1>5, <4>3, <4>4
    <3>2. CASE ~owned
      BY <1>0, <1>2, <1>4, <1>5, <1>8, <3>2
    <3> QED BY <3>1, <3>2
  <2> HIDE DEF revoked
  <2> DEFINE proof == [epoch |-> revoked.auth_epoch, session |-> reply.session]
             n == [task[c] EXCEPT !.pc = "logout_begin", !.fence = None, !.ticket = None]
  <2>2. proof \in LogoutProofs /\ proof # None /\ proof.session = reply.session
    BY <1>1, <2>1, BrokerAssumption DEF LogoutProofs, AuthRecords
  <2>3. auth' = [revoked EXCEPT !.pending_logout = proof, !.cancelled_login = None,
                                !.pending_request = None, !.unknown = FALSE]
    BY <1>8 DEF KeepProof
  <2> HIDE DEF proof
  <2>4. /\ auth' \in AuthRecords /\ auth'.pending_logout = proof /\ auth'.pending_request = None
        /\ auth'.unknown = FALSE /\ auth'.logout_state = "Pending" /\ auth'.token = None
        /\ auth'.auth_epoch = revoked.auth_epoch /\ auth'.next_attempt = auth.next_attempt
    <3> DEFINE r1 == [revoked EXCEPT !.pending_logout = proof, !.cancelled_login = None]
               r2 == [r1 EXCEPT !.pending_request = None]
    <3>1. r1 \in AuthRecords
      BY Zenon, <2>1, <2>2, RecordFields
    <3>2. r2 \in AuthRecords
      <4> HIDE DEF r1
      <4> QED BY Zenon, <3>1, RecordFields
    <3>3. auth' = [r2 EXCEPT !.unknown = FALSE]
      BY <2>1, <2>3 DEF AuthRecords
    <3>4. auth' \in AuthRecords
      <4> HIDE DEF r2
      <4> QED BY Zenon, <3>2, <3>3, RecordFields
    <3> QED BY <2>1, <2>3, <3>4 DEF AuthRecords
  <2>5. n \in Tasks
    <3> DEFINE m == [task[c] EXCEPT !.pc = "logout_begin", !.fence = None]
    <3>1. m \in Tasks
      BY Zenon, <1>0, TaskFields DEF Places
    <3>2. n = [m EXCEPT !.ticket = None]
      OBVIOUS
    <3> HIDE DEF m, n
    <3> QED BY Zenon, <3>1, <3>2, TaskFields
  <2>6. /\ task' = [task EXCEPT ![c] = n] /\ task'[c] = n
        /\ \A d \in Callers : d # c => task'[d] = task[d]
    BY Zenon, <1>0, <1>8
  <2>7. n.pc = "logout_begin" /\ n.proof = task[c].proof /\ n.reply = reply /\ n.overtaken = task[c].overtaken
    BY <1>0 DEF Tasks
  <2> HIDE DEF n
  <2>8. TypeOK'
    BY <1>0, <1>8, <2>4, <2>5, <2>6 DEF AbInv, TypeOK, panel
  <2>9. Accounted' /\ RecordIsSound'
    BY Zenon, <1>0, <1>1, <2>2, <2>4
    DEF Accounted, RecordIsSound, LoginUnresolved, PendingKind, Live, Issued, panel
  <2>10. LateRequests'
    BY <1>0, <1>7, <2>4 DEF LateRequests, panel
  <2>11. Rotated' /\ PairIsCurrent'
    BY <1>0, <2>4 DEF AbInv, Rotated, PairIsCurrent, panel
  <2>12. TaskInv(c)'
    BY <1>0, <1>8, <2>4, <2>6, <2>7
    DEF TaskInv, Arguments, LoginTask, RefreshTask, KnownTask, OvertakenTask, LoginHeld, RefreshHeld,
        panel, Issued
  <2>13. ASSUME NEW d \in Callers, d # c PROVE TaskInv(d)'
    <3>1. auth'.auth_epoch \in Epochs
      BY <2>4 DEF AuthRecords
    <3> QED BY <1>0, <1>8, <2>1, <2>4, <2>6, <2>13, <3>1, WaitingTask
  <2> QED BY <2>8, <2>9, <2>10, <2>11, <2>12, <2>13 DEF AbInv
<1>9. CASE owned /\ auth' = [auth EXCEPT !.unknown = TRUE] /\ Return(c)
  <2>1. /\ auth' \in AuthRecords /\ auth'.auth_epoch = auth.auth_epoch
        /\ (Accounted /\ RecordIsSound /\ LateRequests /\ Rotated /\ PairIsCurrent)'
    <3>1. LoginUnresolved /\ auth.logout_state # "LoggedOut" /\ UNCHANGED panel
      BY <1>0, <1>2, <1>3, <1>9
    <3>2. auth' = [auth EXCEPT !.unknown = TRUE]
      BY <1>9
    <3> QED BY <3>1, <3>2, MarkUnknown
  <2>2. auth.auth_epoch <= auth'.auth_epoch
    BY <1>5, <2>1
  <2>3. refresh_retry' \in [attempt : Attempts, terminal : BOOLEAN] \cup {None}
    BY <1>0 DEF AbInv, TypeOK
  <2> QED BY Zenon, <1>0, <1>9, <2>1, <2>2, <2>3, HolderReturns
<1>10. CASE ~Cancelled(t) /\ auth' = AcceptLogin(auth, reply) /\ Return(c)
  <2>1. owned /\ ~auth.unknown /\ auth.logout_state = "Active" /\ auth.next_attempt >= 1
    BY Zenon, <1>1, <1>2, <1>3, <1>10
  <2>2. /\ auth' \in AuthRecords /\ auth'.token = reply /\ auth'.pending_request = None
        /\ auth'.push_cleanup = None /\ auth'.unknown = auth.unknown
        /\ auth'.logout_state = auth.logout_state /\ auth'.auth_epoch = auth.auth_epoch
        /\ auth'.next_attempt = auth.next_attempt /\ auth'.pending_logout = auth.pending_logout
    <3> HIDE DEF reply
    <3> DEFINE r1 == [auth EXCEPT !.token = reply, !.family = reply.session]
               r2 == [r1 EXCEPT !.pending_request = None]
               r3 == [r2 EXCEPT !.account = None]
    <3>1. r1 \in AuthRecords
      BY Zenon, <1>0, <1>1, RecordFields
    <3>2. r2 \in AuthRecords
      <4> HIDE DEF r1
      <4> QED BY Zenon, <3>1, RecordFields
    <3>3. r3 \in AuthRecords
      <4> HIDE DEF r2
      <4> QED BY Zenon, <3>2, RecordFields
    <3>4. auth' = [r3 EXCEPT !.push_cleanup = None]
      BY <1>0, <1>10 DEF AcceptLogin, AuthRecords
    <3>5. auth' \in AuthRecords
      <4> HIDE DEF r3
      <4> QED BY Zenon, <3>3, <3>4, RecordFields
    <3> QED BY <1>0, <1>10, <3>5 DEF AuthRecords, AcceptLogin
  <2>3. Accounted' /\ RecordIsSound'
    BY Zenon, <1>0, <1>1, <1>2, <1>5, <2>1, <2>2
    DEF Accounted, RecordIsSound, LoginUnresolved, PendingKind, Live, Issued, panel
  <2>4. LateRequests'
    BY Zenon, <1>0, <1>7, <2>2 DEF LateRequests, panel
  <2>5. Rotated'
    BY <1>0, <2>2 DEF AbInv, Rotated, panel
  <2>6. PairIsCurrent'
    BY Zenon, <1>0, <1>1, <2>2 DEF AbInv, PairIsCurrent, PendingKind, Live, panel
  <2> QED BY <1>0, <1>5, <1>10, <2>2, <2>3, <2>4, <2>5, <2>6, HolderReturns DEF AbInv, TypeOK
<1>11. owned /\ ~auth.unknown => Fenced(auth, t)
  BY <1>3 DEF Fenced, Active
<1> QED BY <1>2, <1>6, <1>8, <1>9, <1>10, <1>11 DEF LoginAccept, SaveFails

(* A refresh begins for the pair the record holds, when no operation on    *)
(* that pair can still rotate it.                                          *)
LEMMA BeginRefreshOK ==
    ASSUME AbInv, NEW prior \in BOOLEAN, NEW a \in AuthRecords,
           a.next_attempt < MaxAttempts, UNCHANGED panel,
           auth' = Begin(a, "Refresh", prior),
           a.next_attempt = auth.next_attempt, a.auth_epoch = auth.auth_epoch,
           a.logout_state = "Active", auth.logout_state = "Active", ~a.unknown,
           auth.pending_logout = None, a.pending_logout = None, a.push_cleanup = None,
           a.token # None, Issued(a.token.session), a.token.pair <= a.next_attempt,
           auth.token # None, auth.token.session = a.token.session, ~LoginUnresolved,
           Live(a.token.session) => sessions[a.token.session].pair = a.token.pair,
           \A p \in Pairs, n \in Attempts :
             Outstanding(p, n) => ~(Live(p.session) /\ rotations[n] = 0)
    PROVE  /\ auth' \in AuthRecords /\ auth'.auth_epoch = auth.auth_epoch
           /\ (Accounted /\ RecordIsSound /\ LateRequests /\ Rotated /\ PairIsCurrent)'
<1>1. /\ auth' \in AuthRecords /\ Ticket(a, "Refresh", prior) \in Tickets
      /\ auth'.next_attempt = auth.next_attempt + 1
      /\ auth'.pending_request = Ticket(a, "Refresh", prior)
      /\ auth'.auth_epoch = auth.auth_epoch /\ auth'.logout_state = "Active"
      /\ auth'.token = a.token /\ ~auth'.unknown
      /\ auth'.pending_logout = None /\ auth'.push_cleanup = None
  <2>1. "Refresh" \in {"Login", "Refresh"}
    OBVIOUS
  <2> DEFINE b == Begin(a, "Refresh", prior)
  <2>2. /\ b \in AuthRecords /\ Ticket(a, "Refresh", prior) \in Tickets
        /\ b.next_attempt = a.next_attempt + 1
        /\ b.pending_request = Ticket(a, "Refresh", prior)
        /\ b.auth_epoch = a.auth_epoch /\ b.logout_state = a.logout_state
        /\ b.token = a.token /\ b.unknown = a.unknown
        /\ b.pending_logout = a.pending_logout /\ b.push_cleanup = a.push_cleanup
    BY Zenon, <2>1, BeginOK
  <2>3. auth' = b
    OBVIOUS
  <2> HIDE DEF b
  <2> QED BY Zenon, <2>2, <2>3
<1> DEFINE t == Ticket(a, "Refresh", prior)
<1>2. t.kind = "Refresh" /\ t.attempt = auth.next_attempt + 1 /\ t # None
  BY Zenon, <1>1, BrokerAssumption DEF Ticket
<1> HIDE DEF t
<1>3. auth'.pending_request = t /\ PendingKind(auth', "Refresh") /\ ~LoginUnresolved'
  <2>1. auth'.pending_request = t
    BY <1>1 DEF t
  <2> QED BY Zenon, <1>1, <1>2, <2>1 DEF PendingKind, LoginUnresolved
<1>4. auth.next_attempt \in Nat /\ a.token.pair \in Nat /\ a.token.session \in Sessions
      /\ auth.next_attempt + 1 \in Attempts
  BY BrokerAssumption DEF AbInv, TypeOK, AuthRecords, Pairs, Attempts
<1>5. Accounted'
  <2>1. \A s \in Sessions : Live(s) => s = a.token.session
    BY Zenon DEF AbInv, Accounted
  <2> QED BY Zenon, <1>1, <2>1 DEF Accounted, Live, panel
<1>6. RecordIsSound'
  <2>1. Issued(auth.token.session)'
    BY <1>1 DEF Issued, panel
  <2>2. auth'.token.pair < auth'.next_attempt /\ auth'.token.pair <= auth'.next_attempt
    BY <1>1, <1>4
  <2> QED BY Zenon, <1>1, <1>2, <1>3, <2>1, <2>2 DEF RecordIsSound
<1>7. LateRequests'
  <2> SUFFICES ASSUME NEW r \in in_flight
               PROVE  r.kind # "Login" /\ (r.kind = "Refresh" => Outstanding(r.token, r.attempt)')
    BY Zenon DEF LateRequests, panel
  <2>1. r.kind # "Login"
    BY DEF AbInv, LateRequests
  <2>2. r.kind = "Refresh" => /\ r.token \in Pairs /\ r.attempt \in Attempts /\ r.attempt \in Nat
                              /\ Outstanding(r.token, r.attempt)
    BY BrokerAssumption DEF AbInv, TypeOK, LateRequests, Requests, Attempts
  <2>3. r.kind = "Refresh" => ~(Live(r.token.session) /\ rotations[r.attempt] = 0)
    BY Zenon, <2>2
  <2>4. r.kind = "Refresh" => r.token.pair < r.attempt /\ r.attempt <= auth.next_attempt
                              /\ Issued(r.token.session)
    BY <2>2 DEF Outstanding
  <2>5. r.kind = "Refresh" => r.attempt <= auth'.next_attempt
    BY <1>1, <1>4, <2>2, <2>4
  <2>6. sessions' = sessions /\ rotations' = rotations
    BY Zenon DEF panel
  <2> QED BY Zenon, <2>1, <2>3, <2>4, <2>5, <2>6 DEF Outstanding, Issued, Live
<1>8. Rotated'
  <2>1. \A x \in Attempts : x \in Nat
    BY BrokerAssumption DEF Attempts
  <2>2. Rotated /\ rotations' = rotations
    BY Zenon DEF AbInv, panel
  <2>3. \A x \in Attempts : x > auth'.next_attempt => x > auth.next_attempt
    BY <1>1, <1>4, <2>1
  <2> QED BY <2>2, <2>3 DEF Rotated
<1>9. PairIsCurrent'
  <2>1. rotations[auth.next_attempt + 1] = 0
    BY <1>4 DEF AbInv, Rotated
  <2> QED BY Zenon, <1>1, <1>2, <1>3, <2>1 DEF AbInv, PairIsCurrent, PendingKind, Live, panel
<1> QED BY Zenon, <1>1, <1>5, <1>6, <1>7, <1>8, <1>9

(* A runtime's token was refused: a refresh begins. *)
LEMMA AccessTicketInv == ASSUME AbInv, NEW c \in Callers, AccessTicket(c) PROVE AbInv'
<1>0. /\ task \in [Callers -> Tasks] /\ task[c] \in Tasks /\ TaskInv(c) /\ issuance = c
      /\ auth \in AuthRecords /\ task[c].pc = "access_ticket" /\ UNCHANGED <<refresh_retry, panel>>
  BY DEF AbInv, TypeOK, TaskInv, AccessTicket, RefreshHeld
<1>1. CASE UNCHANGED auth /\ Return(c)
  BY <1>0, <1>1, ReturnStep DEF AbInv, TypeOK, panel
<1>2. CASE /\ Snapshot(auth) /\ auth.pending_request = None /\ auth.next_attempt < MaxAttempts
           /\ auth' = Begin(auth, "Refresh", FALSE)
           /\ task' = [task EXCEPT ![c].pc = "refresh_next", ![c].stage = "issuance", ![c].round = 1]
           /\ UNCHANGED issuance
  <2>1. /\ auth.logout_state = "Active" /\ auth.unknown = FALSE /\ auth.token # None
        /\ auth.pending_logout = None /\ auth.push_cleanup = None /\ ~LoginUnresolved
        /\ ~PendingKind(auth, "Refresh")
        /\ Issued(auth.token.session) /\ auth.token.pair <= auth.next_attempt
        /\ Live(auth.token.session) => sessions[auth.token.session].pair = auth.token.pair
    BY <1>0, <1>2
    DEF Snapshot, Active, AuthRecords, AbInv, RecordIsSound, PairIsCurrent, PendingKind, LoginUnresolved
  <2>2. \A p \in Pairs, n \in Attempts : Outstanding(p, n) => ~(Live(p.session) /\ rotations[n] = 0)
    BY Zenon, <2>1 DEF Outstanding
  <2>3. /\ auth' \in AuthRecords /\ auth'.auth_epoch = auth.auth_epoch
        /\ (Accounted /\ RecordIsSound /\ LateRequests /\ Rotated /\ PairIsCurrent)'
    BY Zenon, <1>0, <1>2, <2>1, <2>2, BeginRefreshOK
  <2> DEFINE m == [task[c] EXCEPT !.pc = "refresh_next", !.stage = "issuance"]
             n == [task[c] EXCEPT !.pc = "refresh_next", !.stage = "issuance", !.round = 1]
  <2>4. n \in Tasks
    <3>1. m \in Tasks
      BY Zenon, <1>0, TaskFields DEF Places
    <3>2. n = [m EXCEPT !.round = 1] /\ 1 \in 0 .. 2
      OBVIOUS
    <3> HIDE DEF m, n
    <3> QED BY Zenon, <3>1, <3>2, TaskFields
  <2>5. /\ task' = [task EXCEPT ![c] = n] /\ task'[c] = n
        /\ \A d \in Callers : d # c => task'[d] = task[d]
    BY Zenon, <1>0, <1>2
  <2>6. n.pc = "refresh_next" /\ n.proof = task[c].proof /\ n.reply = task[c].reply
        /\ n.overtaken = task[c].overtaken
    BY <1>0 DEF Tasks
  <2> HIDE DEF m, n
  <2>7. TypeOK'
    BY Zenon, <1>0, <1>2, <2>3, <2>4, <2>5 DEF AbInv, TypeOK, panel
  <2>8. TaskInv(c)'
    BY Zenon, <1>0, <1>2, <2>1, <2>5, <2>6
    DEF TaskInv, Arguments, LoginTask, RefreshTask, KnownTask, OvertakenTask, LoginHeld, RefreshHeld,
        panel, Issued
  <2>9. ASSUME NEW d \in Callers, d # c PROVE TaskInv(d)'
    <3>1. auth'.auth_epoch \in Epochs /\ auth.auth_epoch <= auth'.auth_epoch
      BY <1>0, <2>3, BrokerAssumption DEF AuthRecords, Epochs
    <3> QED BY Zenon, <1>0, <1>2, <2>5, <2>9, <3>1, WaitingTask
  <2> QED BY Zenon, <2>3, <2>7, <2>8, <2>9 DEF AbInv
<1> QED BY Zenon, <1>1, <1>2 DEF AccessTicket, SaveFails

(* The answer of a refresh: the new pair replaces the one it was got with. *)
LEMMA RefreshAcceptInv == ASSUME AbInv, NEW c \in Callers, RefreshAccept(c) PROVE AbInv'
<1> DEFINE reply == task[c].reply
           t == task[c].ticket
           installed == InstallPair(auth, reply)
<1>0. /\ task \in [Callers -> Tasks] /\ task[c] \in Tasks /\ TaskInv(c) /\ issuance = c
      /\ auth \in AuthRecords /\ task[c].pc = "refresh_accept" /\ UNCHANGED panel
  BY DEF AbInv, TypeOK, TaskInv, RefreshAccept, RefreshHeld
<1>1. /\ reply \in Pairs /\ reply # None /\ reply.session \in Sessions /\ reply.pair \in Nat \ {0}
      /\ t \in Tickets /\ t # None /\ t.attempt \in Attempts
      /\ task[c].token \in Pairs /\ reply.session = task[c].token.session
      /\ reply.pair = rotations[t.attempt] /\ Issued(reply.session)
  BY <1>0, BrokerAssumption
  DEF TaskInv, Arguments, RefreshTask, KnownTask, Tasks, Pairs, Tickets, Attempts
<1>2. CASE /\ UNCHANGED auth /\ Return(c)
           /\ refresh_retry' \in {refresh_retry, [attempt |-> t.attempt, terminal |-> TRUE]}
  <2>1. refresh_retry' \in [attempt : Attempts, terminal : BOOLEAN] \cup {None}
    <3>1. [attempt |-> t.attempt, terminal |-> TRUE] \in [attempt : Attempts, terminal : BOOLEAN]
      BY Zenon, <1>1
    <3>2. refresh_retry \in [attempt : Attempts, terminal : BOOLEAN] \cup {None}
      BY DEF AbInv, TypeOK
    <3> QED BY Zenon, <1>2, <3>1, <3>2
  <2> QED BY Zenon, <1>0, <1>2, <2>1, ReturnStep DEF panel
<1>3. ASSUME Fenced(auth, t)
      PROVE  /\ auth.logout_state = "Active" /\ auth.unknown = FALSE /\ auth.token # None
             /\ auth.token.session = reply.session
             /\ auth.pending_logout = None /\ auth.push_cleanup = None /\ ~LoginUnresolved
             /\ auth.next_attempt = t.attempt /\ auth.next_attempt \in Nat
             /\ reply.pair <= auth.next_attempt
             /\ Live(reply.session) => sessions[reply.session].pair = reply.pair
             /\ \A p \in Pairs, n \in Attempts : Outstanding(p, n) => ~(Live(p.session) /\ rotations[n] = 0)
  <2>1. /\ auth.logout_state = "Active" /\ auth.unknown = FALSE /\ auth.next_attempt = t.attempt
        /\ auth.pending_request = t /\ OwnsTicket(auth, t)
    BY Zenon, <1>0, <1>3 DEF Fenced, Active, OwnsTicket, AuthRecords
  <2>2. auth.token = task[c].token /\ auth.token # None
    BY Zenon, <1>0, <1>1, <2>1, BrokerAssumption DEF TaskInv, RefreshTask
  <2>3. auth.pending_logout = None /\ auth.push_cleanup = None /\ ~LoginUnresolved
    BY Zenon, <2>1, <2>2 DEF AbInv, RecordIsSound
  <2>4. PendingKind(auth, "Refresh")
    BY Zenon, <1>1, <2>1, <2>3 DEF PendingKind, LoginUnresolved, Tickets
  <2>5. reply.pair <= auth.next_attempt /\ auth.next_attempt \in Nat
    BY <1>0, <1>1, <2>1, BrokerAssumption DEF AbInv, Rotated, AuthRecords
  <2>6. Live(reply.session) => sessions[reply.session].pair = reply.pair
    BY Zenon, <1>1, <2>1, <2>2, <2>4 DEF AbInv, PairIsCurrent
  <2>7. \A p \in Pairs, n \in Attempts : Outstanding(p, n) => ~(Live(p.session) /\ rotations[n] = 0)
    BY Zenon, <1>1, <2>1 DEF Outstanding
  <2> QED BY Zenon, <1>1, <2>1, <2>2, <2>3, <2>5, <2>6, <2>7
<1>4. /\ installed \in AuthRecords /\ installed.token = reply /\ installed.pending_request = None
      /\ installed.auth_epoch = auth.auth_epoch /\ installed.logout_state = auth.logout_state
      /\ installed.next_attempt = auth.next_attempt /\ installed.unknown = auth.unknown
      /\ installed.pending_logout = auth.pending_logout /\ installed.push_cleanup = auth.push_cleanup
  <2>1. installed = [auth EXCEPT !.token = reply, !.pending_request = None]
    BY DEF InstallPair
  <2> HIDE DEF installed, reply
  <2>2. installed \in AuthRecords
    BY Zenon, <1>0, <1>1, <2>1, RecordFields
  <2> QED BY <1>0, <2>1, <2>2 DEF AuthRecords
<1> HIDE DEF installed
<1>5. auth.auth_epoch <= auth.auth_epoch /\ auth.auth_epoch \in Epochs
  BY <1>0, BrokerAssumption DEF AuthRecords, Epochs
<1>6. CASE Fenced(auth, t) /\ auth' = installed /\ refresh_retry' = None /\ Recovered(c)
  <2>1. Accounted' /\ RecordIsSound'
    <3>1. \A s \in Sessions : Live(s) => s = reply.session
      BY Zenon, <1>3, <1>6 DEF AbInv, Accounted
    <3> QED BY Zenon, <1>0, <1>1, <1>3, <1>4, <1>6, <3>1
        DEF Accounted, RecordIsSound, LoginUnresolved, PendingKind, Live, Issued, panel
  <2>2. LateRequests'
    <3> SUFFICES ASSUME NEW r \in in_flight
                 PROVE  r.kind # "Login" /\ (r.kind = "Refresh" => Outstanding(r.token, r.attempt)')
      BY <1>0 DEF LateRequests, panel
    <3>1. r.kind # "Login"
      BY Zenon, <1>3, <1>6 DEF AbInv, LateRequests
    <3>2. r.kind = "Refresh" => r.token \in Pairs /\ r.attempt \in Attempts /\ Outstanding(r.token, r.attempt)
      BY Zenon DEF AbInv, TypeOK, LateRequests, Requests
    <3>3. r.kind = "Refresh" => ~(Live(r.token.session) /\ rotations[r.attempt] = 0)
      BY Zenon, <1>3, <1>6, <3>2
    <3> QED BY Zenon, <1>0, <1>4, <1>6, <3>1, <3>2, <3>3 DEF Outstanding, Issued, Live, panel
  <2>3. Rotated' /\ PairIsCurrent'
    BY Zenon, <1>0, <1>3, <1>4, <1>6 DEF AbInv, Rotated, PairIsCurrent, PendingKind, Live, panel
  <2>4. PICK n \in Tasks :
             /\ task' = [task EXCEPT ![c] = n] /\ task'[c] = n
             /\ \/ n = Idle /\ issuance' = None
                \/ /\ issuance' = issuance
                   /\ n.pc = "access_ticket" /\ n.proof = task[c].proof /\ n.reply = None
                   /\ n.overtaken = task[c].overtaken
    BY <1>0, <1>6, RecoveredTask DEF RefreshHeld
  <2>5. TypeOK'
    BY Zenon, <1>0, <1>4, <1>6, <2>4 DEF AbInv, TypeOK, panel
  <2>6. TaskInv(c)'
    <3>1. CASE n = Idle
      BY <2>4, <3>1, IdleTask
    <3>2. CASE n # Idle
      BY Zenon, <1>0, <1>4, <1>6, <2>4, <3>2
      DEF TaskInv, Arguments, LoginTask, RefreshTask, KnownTask, OvertakenTask, panel,
          LoginHeld, RefreshHeld, Issued
    <3> QED BY <3>1, <3>2
  <2>7. ASSUME NEW d \in Callers, d # c PROVE TaskInv(d)'
    <3>1. task'[d] = task[d] /\ issuance' \in {c, None}
      BY <1>0, <2>4, <2>7
    <3> QED BY Zenon, <1>0, <1>4, <1>5, <1>6, <2>7, <3>1, WaitingTask
  <2> QED BY <2>1, <2>2, <2>3, <2>5, <2>6, <2>7 DEF AbInv
<1>7. CASE /\ Fenced(auth, t) /\ auth.next_attempt < MaxAttempts
           /\ auth' = Begin(installed, "Refresh", FALSE) /\ refresh_retry' = None
           /\ Return(c) \/ (/\ task' = [task EXCEPT ![c] =
                                [@ EXCEPT !.pc = "refresh_next", !.round = 2, !.flag = FALSE,
                                          !.ticket = None, !.token = None, !.reply = None]]
                            /\ UNCHANGED issuance)
  <2>1. /\ auth' \in AuthRecords /\ auth'.auth_epoch = auth.auth_epoch
        /\ (Accounted /\ RecordIsSound /\ LateRequests /\ Rotated /\ PairIsCurrent)'
    <3>1. /\ installed \in AuthRecords /\ installed.next_attempt < MaxAttempts
          /\ auth' = Begin(installed, "Refresh", FALSE)
          /\ installed.next_attempt = auth.next_attempt /\ installed.auth_epoch = auth.auth_epoch
          /\ installed.logout_state = "Active" /\ auth.logout_state = "Active"
          /\ ~installed.unknown /\ installed.pending_logout = None
          /\ auth.pending_logout = None /\ installed.push_cleanup = None
      BY Zenon, <1>3, <1>4, <1>7
    <3>2. /\ installed.token # None /\ Issued(installed.token.session)
          /\ installed.token.pair <= installed.next_attempt
          /\ auth.token # None /\ auth.token.session = installed.token.session
          /\ Live(installed.token.session) =>
               sessions[installed.token.session].pair = installed.token.pair
      BY <1>1, <1>3, <1>4, <1>7
    <3> HIDE DEF reply, t
    <3> QED BY Zenon, <1>0, <1>3, <1>7, <3>1, <3>2, BeginRefreshOK
  <2>2. CASE Return(c)
    BY Zenon, <1>0, <1>5, <1>7, <2>1, <2>2, HolderReturns
  <2>3. CASE /\ task' = [task EXCEPT ![c] =
                  [@ EXCEPT !.pc = "refresh_next", !.round = 2, !.flag = FALSE,
                            !.ticket = None, !.token = None, !.reply = None]]
             /\ UNCHANGED issuance
    <3> DEFINE n0 == [task[c] EXCEPT !.pc = "refresh_next"]
               n1 == [n0 EXCEPT !.round = 2]
               n2 == [n1 EXCEPT !.flag = FALSE, !.ticket = None]
               n == [task[c] EXCEPT !.pc = "refresh_next", !.round = 2, !.flag = FALSE,
                                    !.ticket = None, !.token = None, !.reply = None]
    <3>1. n \in Tasks
      <4>0. n0 \in Tasks
        BY Zenon, <1>0, TaskFields DEF Places
      <4>5. 2 \in 0 .. 2
        OBVIOUS
      <4>1. n1 \in Tasks
        <5> HIDE DEF n0
        <5> QED BY Zenon, <4>0, <4>5, TaskFields
      <4>2. n2 \in Tasks
        <5> HIDE DEF n1
        <5> QED BY Zenon, <4>1, TaskFields
      <4>3. n = [n2 EXCEPT !.token = None, !.reply = None]
        OBVIOUS
      <4> HIDE DEF n2, n
      <4> QED BY Zenon, <4>2, <4>3, TaskFields
    <3>2. /\ task' = [task EXCEPT ![c] = n] /\ task'[c] = n
          /\ \A d \in Callers : d # c => task'[d] = task[d]
      BY <1>0, <2>3
    <3>3. n.pc = "refresh_next" /\ n.proof = task[c].proof /\ n.reply = None
          /\ n.overtaken = task[c].overtaken
      BY <1>0 DEF Tasks
    <3> HIDE DEF n0, n1, n2, n
    <3>4. TypeOK'
      BY Zenon, <1>0, <1>7, <2>1, <2>3, <3>1, <3>2 DEF AbInv, TypeOK, panel
    <3>5. TaskInv(c)'
      BY Zenon, <1>0, <1>3, <1>7, <2>3, <3>2, <3>3
      DEF TaskInv, Arguments, LoginTask, RefreshTask, KnownTask, OvertakenTask, LoginHeld, RefreshHeld,
          panel, Issued
    <3>6. ASSUME NEW d \in Callers, d # c PROVE TaskInv(d)'
      BY <1>0, <1>5, <2>1, <2>3, <3>2, <3>6, WaitingTask
    <3> QED BY <2>1, <3>4, <3>5, <3>6 DEF AbInv
  <2> QED BY <1>7, <2>2, <2>3
<1> QED BY Zenon, <1>2, <1>6, <1>7 DEF RefreshAccept, SaveFails, installed

(* The push cleanup is journaled while nobody is signed in. *)
LEMMA LogoutPrepareInv == ASSUME AbInv, NEW c \in Callers, LogoutPrepare(c) PROVE AbInv'
<1>0. /\ task \in [Callers -> Tasks] /\ task[c] \in Tasks /\ TaskInv(c)
      /\ auth \in AuthRecords /\ task[c].pc = "logout_prepare" /\ UNCHANGED <<refresh_retry, panel>>
  BY DEF AbInv, TypeOK, TaskInv, LogoutPrepare
<1>1. CASE UNCHANGED auth /\ Return(c)
  BY <1>0, <1>1, ReturnStep DEF AbInv, TypeOK, panel
<1>2. CASE /\ auth.logout_state # "Active"
           /\ auth' = [auth EXCEPT !.push_cleanup = task[c].fence.epoch]
           /\ \/ Return(c)
              \/ task[c].proof # None /\ Goto(c, "logout_http") /\ UNCHANGED issuance
  <2>1. task[c].fence.epoch \in Epochs
    BY Zenon, <1>0 DEF TaskInv, Arguments, Tasks, Fences
  <2>2. auth' \in AuthRecords
    BY Zenon, <1>0, <1>2, <2>1, RecordFields
  <2>3. /\ auth'.auth_epoch = auth.auth_epoch /\ auth'.logout_state = auth.logout_state
        /\ auth'.token = auth.token /\ auth'.family = auth.family
        /\ auth'.next_attempt = auth.next_attempt
        /\ auth'.pending_request = auth.pending_request
        /\ auth'.cancelled_login = auth.cancelled_login /\ auth'.unknown = auth.unknown
        /\ auth'.account = auth.account /\ auth'.pending_logout = auth.pending_logout
    BY <1>0, <1>2 DEF AuthRecords
  <2>4. LoginUnresolved' = LoginUnresolved /\ UNCHANGED <<sessions, rotations, in_flight>>
    BY <1>0, <2>3 DEF LoginUnresolved, PendingKind, panel
  <2>5. Accounted' /\ Rotated' /\ PairIsCurrent'
    BY Zenon, <2>3, <2>4 DEF AbInv, Accounted, Rotated, PairIsCurrent, PendingKind, Live
  <2>6. RecordIsSound'
    BY <1>2, <2>3, <2>4 DEF AbInv, RecordIsSound, PendingKind, Issued
  <2>7. \A p, n : Outstanding(p, n) => Outstanding(p, n)'
    BY <2>3, <2>4 DEF Outstanding, Issued, Live, PendingKind
  <2>8. LateRequests'
    BY <2>3, <2>4, <2>7 DEF AbInv, LateRequests
  <2>9. PICK n \in Tasks :
          /\ task' = [task EXCEPT ![c] = n] /\ task'[c] = n
          /\ \/ n = Idle /\ issuance' = IF issuance = c THEN None ELSE issuance
             \/ /\ n.pc = "logout_http" /\ n.proof = task[c].proof /\ n.reply = task[c].reply
                /\ n.overtaken = task[c].overtaken /\ n.fence = task[c].fence
                /\ n.proof # None /\ issuance' = issuance
    <3>1. CASE Return(c)
      BY Zenon, <1>0, <3>1, IdleType DEF Return
    <3>2. CASE task[c].proof # None /\ Goto(c, "logout_http") /\ UNCHANGED issuance
      <4> DEFINE n == [task[c] EXCEPT !.pc = "logout_http"]
      <4>1. n \in Tasks
        BY Zenon, <1>0, TaskFields DEF Places
      <4>2. /\ n.pc = "logout_http" /\ n.proof = task[c].proof /\ n.reply = task[c].reply
            /\ n.overtaken = task[c].overtaken /\ n.fence = task[c].fence
        BY <1>0 DEF Tasks
      <4>3. task' = [task EXCEPT ![c] = n] /\ task'[c] = n
        BY <1>0, <3>2 DEF Goto
      <4> HIDE DEF n
      <4> QED BY Zenon, <3>2, <4>1, <4>2, <4>3
    <3> QED BY <1>2, <3>1, <3>2
  <2>10. TypeOK'
    BY Zenon, <1>0, <2>2, <2>4, <2>9 DEF AbInv, TypeOK
  <2>11. TaskInv(c)'
    <3>1. CASE n = Idle
      BY <2>9, <3>1, IdleTask
    <3>2. CASE n # Idle
      BY Zenon, <1>0, <2>3, <2>4, <2>9, <3>2
      DEF TaskInv, Arguments, LoginTask, RefreshTask, KnownTask, OvertakenTask,
          LoginHeld, RefreshHeld, Issued
    <3> QED BY <3>1, <3>2
  <2>12. ASSUME NEW d \in Callers, d # c PROVE TaskInv(d)'
    <3>1. TaskInv(d) /\ task'[d] = task[d] /\ (issuance' = d <=> issuance = d)
      BY Zenon, <1>0, <2>9, <2>12, BrokerAssumption DEF AbInv
    <3>2. NoLateLogin' = NoLateLogin /\ NothingIssued' = NothingIssued
      BY <2>4 DEF NoLateLogin, NothingIssued, Live
    <3>3. LoginTask(d)'
      BY Zenon, <2>3, <2>4, <3>1, <3>2 DEF TaskInv, LoginTask, OwnsTicket, Cancelled, Live
    <3>4. RefreshTask(d)'
      BY Zenon, <2>3, <2>4, <2>7, <3>1 DEF TaskInv, RefreshTask, OwnsTicket
    <3> QED BY Zenon, <2>3, <2>4, <3>1, <3>3, <3>4 DEF TaskInv, KnownTask, OvertakenTask, Issued, Live
  <2> QED BY <2>5, <2>6, <2>8, <2>10, <2>11, <2>12 DEF AbInv
<1> QED BY <1>0, <1>1, <1>2 DEF LogoutPrepare, SaveFails

(* A confirmed revocation ends the session the logout was for: nothing is  *)
(* left alive, and no late login can reach the panel.                      *)
LEMMA LogoutFinishInv == ASSUME AbInv, NEW c \in Callers, LogoutFinish(c) PROVE AbInv'
<1>0. /\ task \in [Callers -> Tasks] /\ task[c] \in Tasks /\ TaskInv(c)
      /\ auth \in AuthRecords /\ task[c].pc = "logout_finish" /\ UNCHANGED <<refresh_retry, panel>>
  BY DEF AbInv, TypeOK, TaskInv, LogoutFinish
<1>1. CASE UNCHANGED auth /\ Return(c)
  BY <1>0, <1>1, ReturnStep DEF AbInv, TypeOK, panel
<1>2. CASE /\ auth.logout_state = "Pending" /\ auth.pending_logout = task[c].proof
           /\ auth' = [auth EXCEPT !.token = None, !.logout_state = "LoggedOut",
                                   !.pending_logout = None, !.account = None]
           /\ Return(c)
  <2>1. task[c].proof # None /\ ~Live(task[c].proof.session)
    BY Zenon, <1>0 DEF TaskInv, Arguments, KnownTask
  <2>2. ~LoginUnresolved
    BY <1>2, <2>1 DEF AbInv, RecordIsSound
  <2>3. NothingIssued
    BY <1>2, <2>1, <2>2 DEF AbInv, Accounted, RecordIsSound, LateRequests, NothingIssued, NoLateLogin
  <2>4. auth' \in AuthRecords
    <3> DEFINE r1 == [auth EXCEPT !.token = None, !.logout_state = "LoggedOut"]
    <3>1. r1 \in AuthRecords
      BY Zenon, <1>0, RecordFields
    <3>2. auth' = [r1 EXCEPT !.pending_logout = None, !.account = None]
      BY <1>2
    <3> HIDE DEF r1
    <3> QED BY Zenon, <3>1, <3>2, RecordFields
  <2>5. /\ auth'.auth_epoch = auth.auth_epoch /\ auth'.logout_state = "LoggedOut"
        /\ auth'.token = None /\ auth'.family = auth.family
        /\ auth'.next_attempt = auth.next_attempt
        /\ auth'.pending_request = auth.pending_request
        /\ auth'.unknown = auth.unknown /\ auth'.pending_logout = None
    BY <1>0, <1>2 DEF AuthRecords
  <2>6. /\ auth.pending_request = None /\ ~LoginUnresolved' /\ ~auth.unknown
        /\ UNCHANGED <<sessions, rotations, in_flight>>
    BY <1>0, <1>2, <2>2, <2>5 DEF AbInv, RecordIsSound, LoginUnresolved, PendingKind, panel
  <2>7. Accounted' /\ Rotated' /\ PairIsCurrent'
    BY Zenon, <2>3, <2>5, <2>6 DEF AbInv, Accounted, Rotated, PairIsCurrent, NothingIssued, Live
  <2>8. RecordIsSound'
    BY <2>5, <2>6 DEF RecordIsSound
  <2>9. \A p \in Pairs : \A n : Outstanding(p, n) => Outstanding(p, n)'
    BY <2>3, <2>5, <2>6 DEF Outstanding, Issued, Live, NothingIssued, Pairs
  <2>10. LateRequests'
    <3>1. \A r \in in_flight : r.kind = "Refresh" => r.token \in Pairs
      BY DEF AbInv, TypeOK, Requests
    <3> QED BY Zenon, <2>3, <2>6, <2>9, <3>1 DEF AbInv, LateRequests, NothingIssued, NoLateLogin
  <2>11. TypeOK' /\ TaskInv(c)' /\ (\A d \in Callers : d # c => task'[d] = task[d])
    BY <1>0, <1>2, <2>4, <2>6, IdleType, IdleTask DEF AbInv, TypeOK, Return
  <2>12. ASSUME NEW d \in Callers, d # c PROVE TaskInv(d)'
    <3>1. /\ TaskInv(d) /\ task'[d] = task[d] /\ (issuance' = d <=> issuance = d)
          /\ task[d] \in Tasks
      BY <1>0, <1>2, <2>11, <2>12, BrokerAssumption DEF AbInv, Return
    <3>2. task[d].pc \notin LoginHeld
      BY <1>2, <2>6, <3>1 DEF TaskInv, LoginTask, OwnsTicket
    <3>3. LoginTask(d)'
      BY Zenon, <3>1, <3>2 DEF LoginTask
    <3>4. RefreshTask(d)'
      <4>1. task[d].pc = "refresh_http" => task[d].token \in Pairs
        BY Zenon, <3>1 DEF TaskInv, Arguments, Tasks
      <4> QED BY Zenon, <2>5, <2>6, <2>9, <3>1, <4>1 DEF TaskInv, RefreshTask, OwnsTicket
    <3> QED BY Zenon, <2>5, <2>6, <3>1, <3>3, <3>4 DEF TaskInv, KnownTask, OvertakenTask, Issued, Live
  <2> QED BY Zenon, <2>7, <2>8, <2>10, <2>11, <2>12 DEF AbInv
<1> QED BY <1>0, <1>1, <1>2 DEF LogoutFinish, SaveFails

(* The durable fence of a logout leaves nobody signed in. *)
LEMMA LogoutFenceRecord ==
    ASSUME AbInv, auth' = LogoutFence(auth), auth'.auth_epoch <= MaxEpoch
    PROVE  /\ auth' \in AuthRecords /\ auth'.logout_state # "Active"
           /\ auth'.next_attempt = auth.next_attempt /\ auth'.account = auth.account
           /\ auth'.token = auth.token /\ auth'.family = auth.family
           /\ \/ auth.logout_state = "Pending" /\ auth' = auth
              \/ /\ auth.logout_state # "Pending" /\ auth'.auth_epoch = auth.auth_epoch + 1
                 /\ auth'.pending_request = None
                 /\ \/ /\ auth.token = None /\ ~auth.unknown /\ auth.pending_request = None
                       /\ auth'.pending_logout = None /\ ~auth'.unknown
                       /\ auth'.logout_state = "LoggedOut"
                    \/ /\ auth.logout_state = "Active" /\ auth'.logout_state = "Pending"
                       /\ auth'.unknown <=> LoginUnresolved
                       /\ PendingKind(auth, "Login") => auth'.cancelled_login = auth.pending_request
                       /\ IF auth.token = None THEN auth'.pending_logout = None
                          ELSE /\ auth'.pending_logout # None
                               /\ auth'.pending_logout.session = auth.token.session
<1>0. auth \in AuthRecords
  BY DEF AbInv, TypeOK
<1>1. auth.auth_epoch \in Nat
  BY <1>0, BrokerAssumption DEF AuthRecords, Epochs
<1> DEFINE next == [auth EXCEPT !.auth_epoch = auth.auth_epoch + 1]
<1>2. /\ next.auth_epoch = auth.auth_epoch + 1 /\ next.logout_state = auth.logout_state
      /\ next.token = auth.token /\ next.family = auth.family /\ next.unknown = auth.unknown
      /\ next.next_attempt = auth.next_attempt /\ next.pending_request = auth.pending_request
      /\ next.account = auth.account /\ next.pending_logout = auth.pending_logout
      /\ next.push_cleanup = auth.push_cleanup /\ next.cancelled_login = auth.cancelled_login
  BY <1>0 DEF AuthRecords
<1>3. auth.auth_epoch + 1 <= MaxEpoch => next \in AuthRecords /\ next.auth_epoch \in Epochs
  <2>1. auth.auth_epoch + 1 <= MaxEpoch => auth.auth_epoch + 1 \in Epochs
    BY <1>1, BrokerAssumption DEF Epochs
  <2> QED BY Zenon, <1>0, <1>2, <2>1, RecordFields
<1>4. CASE auth.logout_state = "Pending"
  BY <1>0, <1>4 DEF LogoutFence
<1>5. CASE auth.logout_state = "LoggedOut"
  <2> DEFINE x == IF next.push_cleanup = None THEN None ELSE next.auth_epoch
             f == [next EXCEPT !.push_cleanup = x]
  <2>1. auth' = f
    BY <1>5 DEF LogoutFence
  <2> HIDE DEF next, x
  <2>2. f.auth_epoch = next.auth_epoch
    BY DEF f
  <2>3. next \in AuthRecords /\ x \in Epochs \cup {None}
    BY <1>2, <1>3, <2>1, <2>2 DEF x
  <2>4. f \in AuthRecords
    BY Zenon, <2>3, RecordFields
  <2>5. /\ f.logout_state = next.logout_state /\ f.token = next.token /\ f.unknown = next.unknown
        /\ f.next_attempt = next.next_attempt /\ f.pending_request = next.pending_request
        /\ f.account = next.account /\ f.pending_logout = next.pending_logout
        /\ f.family = next.family
    BY <2>3 DEF AuthRecords
  <2>6. /\ auth.token = None /\ ~auth.unknown /\ auth.pending_request = None
        /\ auth.pending_logout = None
    BY Zenon, <1>5 DEF AbInv, RecordIsSound
  <2> HIDE DEF f
  <2> QED BY <1>2, <1>5, <2>1, <2>2, <2>4, <2>5, <2>6
<1>6. CASE auth.logout_state = "Active" /\ NeverAuthenticated(auth)
  <2> DEFINE f == [next EXCEPT !.logout_state = "LoggedOut"]
  <2>1. auth' = f
    BY <1>6 DEF LogoutFence
  <2> HIDE DEF next
  <2>2. f.auth_epoch = next.auth_epoch
    BY DEF f
  <2>3. next \in AuthRecords
    BY <1>2, <1>3, <2>1, <2>2
  <2>4. f \in AuthRecords
    BY Zenon, <2>3, RecordFields
  <2>5. /\ f.logout_state = "LoggedOut" /\ f.token = next.token /\ f.unknown = next.unknown
        /\ f.next_attempt = next.next_attempt /\ f.pending_request = next.pending_request
        /\ f.account = next.account /\ f.pending_logout = next.pending_logout
        /\ f.family = next.family
    BY <2>3 DEF AuthRecords
  <2>6. /\ auth.token = None /\ ~auth.unknown /\ auth.pending_request = None
        /\ auth.pending_logout = None
    BY Zenon, <1>6 DEF AbInv, RecordIsSound, NeverAuthenticated
  <2> HIDE DEF f
  <2> QED BY Zenon, <1>2, <1>6, <2>1, <2>2, <2>4, <2>5, <2>6
<1>7. CASE auth.logout_state = "Active" /\ ~NeverAuthenticated(auth)
  <2> DEFINE cancelled == IF PendingKind(auth, "Login") THEN auth.pending_request ELSE next.cancelled_login
             unknown == next.unknown \/ PendingKind(auth, "Login")
             proof == IF auth.token = None THEN None
                      ELSE [epoch |-> next.auth_epoch, session |-> auth.token.session]
             f1 == [next EXCEPT !.logout_state = "Pending", !.cancelled_login = cancelled]
             f2 == [f1 EXCEPT !.unknown = unknown, !.pending_request = None]
             f == [f2 EXCEPT !.pending_logout = proof]
  <2>1. auth' = f
    BY <1>7 DEF LogoutFence
  <2> HIDE DEF next
  <2>2. f.auth_epoch = next.auth_epoch
    BY DEF f
  <2>3. next \in AuthRecords /\ next.auth_epoch \in Epochs
    BY <1>2, <1>3, <2>1, <2>2
  <2>4. cancelled \in Tickets \cup {None} /\ unknown \in BOOLEAN
    BY <1>0, <2>3 DEF PendingKind, AuthRecords
  <2>5. proof \in LogoutProofs \cup {None}
    BY Zenon, <1>0, <2>3 DEF AuthRecords, Pairs, LogoutProofs
  <2>6. f1 \in AuthRecords
    <3> HIDE DEF cancelled
    <3> QED BY Zenon, <2>3, <2>4, RecordFields
  <2>7. f2 \in AuthRecords
    <3> HIDE DEF f1, unknown
    <3> QED BY Zenon, <2>4, <2>6, RecordFields
  <2>8. f \in AuthRecords
    <3> HIDE DEF f2, proof
    <3> QED BY Zenon, <2>5, <2>7, RecordFields
  <2>9. /\ f.logout_state = "Pending" /\ f.token = next.token /\ f.unknown = unknown
        /\ f.next_attempt = next.next_attempt /\ f.pending_request = None
        /\ f.account = next.account /\ f.pending_logout = proof
        /\ f.family = next.family /\ f.cancelled_login = cancelled
    <3> HIDE DEF cancelled, unknown, proof
    <3> QED BY <2>3 DEF AuthRecords
  <2>10. unknown <=> LoginUnresolved
    BY Zenon, <1>2 DEF LoginUnresolved
  <2>11. auth.token # None => proof # None /\ proof.session = auth.token.session
    BY <2>5, BrokerAssumption, <1>0, <2>3 DEF LogoutProofs, AuthRecords, Pairs
  <2>12. PendingKind(auth, "Login") => cancelled = auth.pending_request
    OBVIOUS
  <2>13. auth.token = None => proof = None
    OBVIOUS
  <2> HIDE DEF f, f1, f2, cancelled, unknown, proof
  <2> QED BY Zenon, <1>2, <1>7, <2>1, <2>2, <2>8, <2>9, <2>10, <2>11, <2>12, <2>13
<1> QED BY Zenon, <1>0, <1>4, <1>5, <1>6, <1>7 DEF AuthRecords

(* What the record covered before the fence it covers after. *)
LEMMA LogoutFenceOK ==
    ASSUME AbInv, auth' = LogoutFence(auth), auth'.auth_epoch <= MaxEpoch, UNCHANGED panel
    PROVE  /\ \A p \in Pairs, n \in Attempts : Outstanding(p, n) => Outstanding(p, n)'
           /\ (Accounted /\ RecordIsSound /\ LateRequests /\ Rotated /\ PairIsCurrent)'
           /\ auth'.pending_logout # None => Issued(auth'.pending_logout.session)
<1>0. auth \in AuthRecords /\ UNCHANGED <<sessions, rotations, in_flight>>
  BY DEF AbInv, TypeOK, panel
<1>1. \A r \in in_flight : r.kind = "Refresh" => r.token \in Pairs /\ r.attempt \in Attempts
  BY Zenon DEF AbInv, TypeOK, Requests
<1>2. CASE auth.logout_state = "Pending" /\ auth' = auth
  <2>1. (Accounted /\ RecordIsSound /\ LateRequests /\ Rotated /\ PairIsCurrent)'
    BY Zenon, <1>0, <1>2 DEF AbInv, Accounted, RecordIsSound, LateRequests, Rotated, PairIsCurrent,
       LoginUnresolved, PendingKind, Outstanding, Issued, Live
  <2>2. \A p \in Pairs, n \in Attempts : Outstanding(p, n) => Outstanding(p, n)'
    BY <1>0, <1>2 DEF Outstanding, Issued, Live, PendingKind
  <2> QED BY Zenon, <1>2, <2>1, <2>2 DEF AbInv, RecordIsSound
<1>3. CASE /\ auth.logout_state # "Pending" /\ auth.token = None /\ ~auth.unknown
           /\ auth.pending_request = None
           /\ auth'.pending_request = None /\ auth'.pending_logout = None /\ ~auth'.unknown
           /\ auth'.logout_state = "LoggedOut"
           /\ auth'.token = auth.token /\ auth'.next_attempt = auth.next_attempt
  <2>1. NothingIssued /\ ~LoginUnresolved /\ ~LoginUnresolved'
    BY Zenon, <1>3
    DEF AbInv, Accounted, RecordIsSound, LateRequests, NothingIssued, NoLateLogin, LoginUnresolved, PendingKind
  <2>2. Accounted' /\ Rotated' /\ PairIsCurrent'
    BY Zenon, <1>0, <1>3, <2>1 DEF AbInv, Accounted, Rotated, PairIsCurrent, NothingIssued, Live
  <2>3. RecordIsSound'
    BY Zenon, <1>3, <2>1 DEF RecordIsSound
  <2>4. \A p \in Pairs, n \in Attempts : Outstanding(p, n) => Outstanding(p, n)'
    BY <1>0, <1>3, <2>1 DEF Outstanding, Issued, Live, NothingIssued, Pairs
  <2>5. LateRequests'
    BY Zenon, <1>0, <1>1, <2>1, <2>4 DEF AbInv, LateRequests, NothingIssued, NoLateLogin
  <2> QED BY Zenon, <1>3, <2>2, <2>3, <2>4, <2>5
<1>4. CASE /\ auth.logout_state = "Active" /\ auth'.logout_state = "Pending"
           /\ auth'.pending_request = None /\ (auth'.unknown <=> LoginUnresolved)
           /\ IF auth.token = None THEN auth'.pending_logout = None
              ELSE /\ auth'.pending_logout # None
                   /\ auth'.pending_logout.session = auth.token.session
           /\ auth'.token = auth.token /\ auth'.next_attempt = auth.next_attempt
           /\ auth'.account = auth.account
  <2>1. (LoginUnresolved' <=> LoginUnresolved) /\ auth.pending_logout = None
    BY Zenon, <1>4 DEF AbInv, RecordIsSound, LoginUnresolved, PendingKind
  <2>2. Accounted'
    BY Zenon, <1>0, <1>4, <2>1 DEF AbInv, Accounted, Live
  <2>3. RecordIsSound'
    BY Zenon, <1>0, <1>4, <2>1 DEF AbInv, RecordIsSound, PendingKind, Issued
  <2>4. Rotated' /\ PairIsCurrent'
    BY Zenon, <1>0, <1>4 DEF AbInv, Rotated, PairIsCurrent
  <2>5. \A p \in Pairs, n \in Attempts : Outstanding(p, n) => Outstanding(p, n)'
    BY Zenon, <1>0, <1>4 DEF Outstanding, Issued, Live
  <2>6. LateRequests'
    BY <1>0, <1>1, <1>4, <2>1, <2>5 DEF AbInv, LateRequests
  <2>7. auth'.pending_logout # None => Issued(auth'.pending_logout.session)
    BY Zenon, <1>4 DEF AbInv, RecordIsSound
  <2> QED BY <2>2, <2>3, <2>4, <2>5, <2>6, <2>7
<1> QED BY Zenon, <1>2, <1>3, <1>4, LogoutFenceRecord

(* A call another call's logout may overtake. *)
LEMMA FencedTask ==
    ASSUME AbInv, auth' = LogoutFence(auth), auth'.auth_epoch <= MaxEpoch, UNCHANGED panel,
           NEW d \in Callers, issuance' = d <=> issuance = d,
           \/ task'[d] = task[d]
           \/ /\ auth'.auth_epoch # auth.auth_epoch
              /\ \/ task[d].kind \in {"login", "access"}
                 \/ task[d].kind = "recover" /\ task[d].ticket # None
              /\ task'[d] = [task[d] EXCEPT !.overtaken = TRUE]
    PROVE  TaskInv(d)'
<1>0. /\ task[d] \in Tasks /\ TaskInv(d) /\ auth \in AuthRecords
      /\ UNCHANGED <<sessions, rotations, in_flight>>
  BY DEF AbInv, TypeOK, panel
<1>1. /\ task'[d].pc = task[d].pc /\ task'[d].kind = task[d].kind /\ task'[d].fence = task[d].fence
      /\ task'[d].account = task[d].account /\ task'[d].ticket = task[d].ticket
      /\ task'[d].token = task[d].token /\ task'[d].proof = task[d].proof
      /\ task'[d].reply = task[d].reply /\ task'[d].flag = task[d].flag
  BY <1>0 DEF Tasks
<1>2. Arguments(task[d])' /\ KnownTask(d)' /\ (task[d].pc \in LoginHeld \cup RefreshHeld => issuance = d)'
  BY <1>0, <1>1 DEF TaskInv, Arguments, KnownTask, Issued, Live
<1>3. LoginTask(d)'
  <2>1. task[d].pc \in LoginHeld /\ OwnsTicket(auth, task[d].ticket) =>
          Cancelled(task[d].ticket)' /\ auth'.unknown
    <3> SUFFICES ASSUME task[d].pc \in LoginHeld, OwnsTicket(auth, task[d].ticket)
                 PROVE  Cancelled(task[d].ticket)' /\ auth'.unknown
      OBVIOUS
    <3>1. auth.pending_request = task[d].ticket /\ auth.logout_state = "Active"
          /\ PendingKind(auth, "Login") /\ LoginUnresolved
      BY <1>0 DEF TaskInv, Arguments, OwnsTicket, PendingKind, LoginUnresolved
    <3>2. /\ auth'.logout_state = "Pending" /\ auth'.cancelled_login = task[d].ticket
          /\ auth'.family = auth.family /\ auth'.auth_epoch = auth.auth_epoch + 1 /\ auth'.unknown
      <4>1. auth.pending_request # None
        BY <3>1 DEF PendingKind
      <4> QED BY <3>1, <4>1, LogoutFenceRecord
    <3> QED BY <1>1, <3>2 DEF Cancelled, OwnsTicket
  <2>2. task[d].pc \in LoginHeld /\ Cancelled(task[d].ticket) => auth' = auth
    BY LogoutFenceRecord DEF Cancelled
  <2>3. auth'.account = auth.account
    BY LogoutFenceRecord
  <2>4. task[d].pc \in LoginHeld =>
          \/ OwnsTicket(auth, task[d].ticket)' /\ ~auth'.unknown
          \/ Cancelled(task[d].ticket)' /\ auth'.unknown
    BY <1>0, <1>1, <2>1, <2>2 DEF TaskInv, LoginTask, OwnsTicket, Cancelled
  <2>5. NoLateLogin' = NoLateLogin /\ NothingIssued' = NothingIssued
    BY <1>0 DEF NoLateLogin, NothingIssued, Live
  <2> QED BY <1>0, <1>1, <2>3, <2>4, <2>5 DEF TaskInv, LoginTask, Live
<1>4. RefreshTask(d)'
  <2>1. task[d].pc \in {"refresh_http", "refresh_accept"} =>
          task[d].token \in Pairs /\ task[d].ticket.attempt \in Attempts
    BY <1>0 DEF TaskInv, Arguments, Tasks, Tickets
  <2>2. auth'.next_attempt = auth.next_attempt /\ auth'.logout_state # "Active"
    BY LogoutFenceRecord
  <2>3. task[d].pc = "refresh_http" => Outstanding(task[d].token, task[d].ticket.attempt)'
    <3> SUFFICES ASSUME task[d].pc = "refresh_http"
                 PROVE  Outstanding(task[d].token, task[d].ticket.attempt)'
      OBVIOUS
    <3>1. PICK p \in Pairs, n \in Attempts : p = task[d].token /\ n = task[d].ticket.attempt
      BY <2>1
    <3>2. Outstanding(p, n)
      BY <1>0, <3>1 DEF TaskInv, RefreshTask
    <3>3. Outstanding(p, n)'
      BY <3>2, LogoutFenceOK
    <3> QED BY <1>1, <3>1, <3>3
  <2> QED BY <1>0, <1>1, <2>2, <2>3 DEF TaskInv, RefreshTask, OwnsTicket
<1>5. OvertakenTask(d)'
  <2>1. /\ auth.auth_epoch \in Nat /\ auth'.auth_epoch \in Nat /\ auth.auth_epoch <= auth'.auth_epoch
        /\ auth'.auth_epoch # auth.auth_epoch => auth.auth_epoch < auth'.auth_epoch
        /\ auth'.logout_state # "Active"
    <3>1. auth.auth_epoch \in Nat
      BY <1>0, BrokerAssumption DEF AuthRecords, Epochs
    <3> QED BY <3>1, LogoutFenceRecord
  <2>2. task[d].fence # None => task[d].fence.epoch \in Nat
    BY <1>0, BrokerAssumption DEF Tasks, Fences, Epochs
  <2>3. task[d].pc \in {"login_wait", "access_wait"} /\ task[d].fence # None =>
          task[d].fence.epoch <= auth'.auth_epoch
    BY <1>0, <2>1, <2>2 DEF TaskInv, OvertakenTask
  <2>4. CASE task'[d] = task[d]
    BY <1>0, <2>1, <2>2, <2>3, <2>4 DEF TaskInv, OvertakenTask
  <2>5. CASE /\ auth'.auth_epoch # auth.auth_epoch
             /\ \/ task[d].kind \in {"login", "access"}
                \/ task[d].kind = "recover" /\ task[d].ticket # None
    <3>1. task[d].pc \in {"login_wait", "access_wait"} => task[d].fence # None
      BY <1>0, <2>5 DEF TaskInv, Arguments
    <3>2. task[d].pc \in {"login_wait", "access_wait"} => task[d].fence.epoch < auth'.auth_epoch
      BY <1>0, <2>1, <2>2, <2>5, <3>1 DEF TaskInv, OvertakenTask
    <3> QED BY <1>1, <2>1, <2>3, <3>1, <3>2 DEF OvertakenTask
  <2> QED BY <2>4, <2>5
<1> QED BY <1>2, <1>3, <1>4, <1>5 DEF TaskInv

(* A logout fences the session and overtakes the calls that run. *)
LEMMA LogoutBeginInv == ASSUME AbInv, NEW c \in Callers, LogoutBegin(c) PROVE AbInv'
<1> DEFINE fenced == LogoutFence(auth)
           done == fenced.logout_state = "LoggedOut" /\ fenced.push_cleanup = None
           tasks == IF fenced.auth_epoch = auth.auth_epoch THEN task ELSE Overtake(task)
           n == [tasks[c] EXCEPT !.pc = "logout_prepare", !.fence = Fence(fenced),
                                 !.proof = fenced.pending_logout, !.ticket = None]
<1>0. /\ task \in [Callers -> Tasks] /\ task[c] \in Tasks /\ TaskInv(c)
      /\ auth \in AuthRecords /\ task[c].pc = "logout_begin" /\ UNCHANGED <<refresh_retry, panel>>
  BY DEF AbInv, TypeOK, TaskInv, LogoutBegin
<1>1. CASE UNCHANGED auth /\ Return(c)
  BY Zenon, <1>0, <1>1, ReturnStep DEF AbInv, TypeOK, panel
<1>2. CASE /\ fenced.auth_epoch <= MaxEpoch
           /\ auth' = fenced
           /\ task' = [tasks EXCEPT ![c] = IF done THEN Idle ELSE n]
           /\ issuance' = IF done /\ issuance = c THEN None ELSE issuance
  <2>1. auth' = LogoutFence(auth) /\ auth'.auth_epoch <= MaxEpoch /\ UNCHANGED panel
    BY <1>0, <1>2
  <2>2. /\ auth' \in AuthRecords /\ auth'.logout_state # "Active"
        /\ (Accounted /\ RecordIsSound /\ LateRequests /\ Rotated /\ PairIsCurrent)'
        /\ auth'.pending_logout # None => Issued(auth'.pending_logout.session)
    BY Zenon, <2>1, LogoutFenceRecord, LogoutFenceOK
  <2>3. /\ tasks \in [Callers -> Tasks]
        /\ \A d \in Callers :
             \/ tasks[d] = task[d]
             \/ /\ auth'.auth_epoch # auth.auth_epoch
                /\ \/ task[d].kind \in {"login", "access"}
                   \/ task[d].kind = "recover" /\ task[d].ticket # None
                /\ tasks[d] = [task[d] EXCEPT !.overtaken = TRUE]
    <3>1. \A d \in Callers : [task[d] EXCEPT !.overtaken = TRUE] \in Tasks
      BY Zenon, <1>0, TaskFields
    <3> QED BY <1>0, <1>2, <3>1 DEF Overtake
  <2> HIDE DEF tasks
  <2>4. /\ tasks[c] \in Tasks /\ tasks[c].reply = task[c].reply
    BY <1>0, <2>3 DEF Tasks
  <2>5. Fence(fenced) \in Fences /\ Fence(fenced) # None /\ fenced.pending_logout \in LogoutProofs \cup {None}
    BY <1>2, <2>2, BrokerAssumption DEF Fence, Fences, AuthRecords
  <2> DEFINE m1 == [tasks[c] EXCEPT !.pc = "logout_prepare", !.fence = Fence(fenced)]
             m2 == [m1 EXCEPT !.proof = fenced.pending_logout, !.ticket = None]
  <2>6. n \in Tasks
    <3>1. m1 \in Tasks
      <4> HIDE DEF fenced
      <4> QED BY Zenon, <2>4, <2>5, TaskFields DEF Places
    <3>2. m2 \in Tasks
      <4> HIDE DEF m1, fenced
      <4> QED BY Zenon, <2>5, <3>1, TaskFields
    <3>3. n = m2
      OBVIOUS
    <3> QED BY <3>2, <3>3
  <2>7. n.pc = "logout_prepare" /\ n.fence # None /\ n.proof = auth'.pending_logout
        /\ n.reply = task[c].reply
    <3> HIDE DEF fenced
    <3> QED BY <1>2, <2>4, <2>5 DEF Tasks
  <2>8. /\ task' \in [Callers -> Tasks] /\ task'[c] \in {Idle, n}
        /\ \A d \in Callers : d # c => task'[d] = tasks[d]
    <3> HIDE DEF n, done
    <3> QED BY <1>2, <2>3, <2>6, IdleType
  <2> HIDE DEF n
  <2>9. /\ issuance' \in {issuance, None} /\ (issuance' = None => issuance \in {None, c})
        /\ (issuance' # issuance => issuance = c)
    BY <1>2
  <2>10. TypeOK'
    BY Zenon, <1>0, <2>2, <2>8, <2>9 DEF AbInv, TypeOK, panel
  <2>11. TaskInv(c)'
    <3>1. CASE task'[c] = Idle
      BY <3>1, IdleTask
    <3>2. CASE task'[c] = n
      <4>1. task[c].reply # None => Issued(task[c].reply.session)
        BY Zenon, <1>0 DEF TaskInv, KnownTask
      <4> QED BY Zenon, <1>0, <2>2, <2>7, <3>2, <4>1
          DEF TaskInv, Arguments, LoginTask, RefreshTask, KnownTask, OvertakenTask,
              LoginHeld, RefreshHeld, Issued, panel
    <3> QED BY <2>8, <3>1, <3>2
  <2>12. ASSUME NEW d \in Callers, d # c PROVE TaskInv(d)'
    <3>1. issuance' = d <=> issuance = d
      BY <2>9, <2>12, BrokerAssumption
    <3> HIDE DEF fenced
    <3> QED BY <2>1, <2>3, <2>8, <2>12, <3>1, FencedTask
  <2> QED BY <2>2, <2>10, <2>11, <2>12 DEF AbInv
<1> QED BY <1>1, <1>2 DEF LogoutBegin, SaveFails

-----------------------------------------------------------------------------
(* The theorems. *)

(* Every step of a caller, of the panel and of the owner keeps the         *)
(* invariant.                                                              *)
LEMMA NextInv == AbInv /\ [Next]_vars => AbInv'
<1> SUFFICES ASSUME AbInv, [Next]_vars PROVE AbInv'
  OBVIOUS
<1>1. ASSUME NEW c \in Callers, Step(c) PROVE AbInv'
  <2>1. CASE BeginLogin(c) \/ LoginLocked(c) \/ LoginStop(c) \/ LoginAnswer(c)
             \/ LoginError(c) \/ LoginAccept(c)
    BY <2>1, BeginLoginInv, LoginLockedInv, LoginStopInv, LoginAnswerInv, LoginErrorInv, LoginAcceptInv
  <2>2. CASE BeginAccess(c) \/ BeginRecovery(c) \/ AccessLocked(c) \/ RefreshNext(c)
             \/ RefreshAnswer(c) \/ RefreshAccept(c) \/ AccessTicket(c)
    BY <2>2, BeginAccessInv, BeginRecoveryInv, AccessLockedInv, RefreshNextInv, RefreshAnswerInv,
       RefreshAcceptInv, AccessTicketInv
  <2>3. CASE BeginLogout(c) \/ LogoutStep(c)
    BY <2>3, BeginLogoutInv, LogoutReceivedInv, LogoutBeginInv, LogoutPrepareInv, LogoutAnswerInv,
       LogoutFinishInv DEF LogoutStep
  <2>4. CASE Abandon(c)
    BY <2>4, AbandonInv
  <2> QED BY <1>1, <2>1, <2>2, <2>3, <2>4 DEF Step
<1>2. CASE HandleLate \/ PushCleanup \/ Restart
  BY <1>2, HandleLateInv, PushCleanupInv, RestartInv
<1>3. CASE UNCHANGED vars
  <2>1. TypeOK' /\ (\A c \in Callers : TaskInv(c))'
    <3>1. TypeOK'
      BY <1>3 DEF vars, AbInv, TypeOK
    <3>2. ASSUME NEW c \in Callers PROVE TaskInv(c)'
      <4>1. TaskInv(c)
        BY DEF AbInv
      <4>2. LoginTask(c)'
        BY Zenon, <1>3, <4>1 DEF vars, TaskInv, LoginTask, Live, OwnsTicket, Cancelled, NoLateLogin, NothingIssued
      <4>3. RefreshTask(c)' /\ KnownTask(c)'
        BY Zenon, <1>3, <4>1 DEF vars, TaskInv, RefreshTask, KnownTask, Issued, Live, OwnsTicket, Outstanding, PendingKind
      <4> QED BY Zenon, <1>3, <4>1, <4>2, <4>3 DEF vars, TaskInv, Arguments, OvertakenTask
    <3> QED BY <3>1, <3>2
  <2>2. (Accounted /\ RecordIsSound /\ LateRequests /\ Rotated /\ PairIsCurrent)'
    BY Zenon, <1>3 DEF vars, AbInv, Accounted, RecordIsSound, LateRequests, Rotated, PairIsCurrent,
       LoginUnresolved, PendingKind, Outstanding, Issued, Live
  <2> QED BY <2>1, <2>2 DEF AbInv
<1> QED BY <1>1, <1>2, <1>3 DEF Next

(* The protected record, the calls and the panel stay in agreement: the    *)
(* inductive invariant holds in every reachable state.                     *)
THEOREM BrokerInvariant == Spec => []AbInv
<1> QED BY InitInv, NextInv, PTL DEF Spec

(* No session is lost: each one alive at the panel is the one the record   *)
(* holds the tokens of, or the one its pending logout will revoke, or one  *)
(* of an account whose login the record says is unresolved; and a          *)
(* logged-out record means that nothing is alive (EverySessionIsAccounted).*)
THEOREM SessionsAreAccounted == Spec => []EverySessionIsAccounted
<1>1. AbInv => EverySessionIsAccounted
  BY DEF AbInv, Accounted, EverySessionIsAccounted
<1> QED BY <1>1, BrokerInvariant, PTL

(* The broker's pair stays recoverable, through lost answers, abandoned    *)
(* requests the panel handles late, failed saves and restarts              *)
(* (PairIsRecoverable): the panel never sees a spent refresh token under a *)
(* new operation.                                                          *)
THEOREM PairStaysRecoverable == Spec => []PairIsRecoverable
<1>1. AbInv => PairIsRecoverable
  BY Zenon DEF AbInv, PairIsCurrent, PairIsRecoverable
<1> QED BY <1>1, BrokerInvariant, PTL

(* Only a call that no logout has overtaken changes the tokens to new ones *)
(* (the sections of login and refresh that accept an answer).              *)
LEMMA InstallsOwnReply ==
    ASSUME AbInv, Next, auth'.token \notin {None, auth.token}
    PROVE  \E c \in Callers : /\ task[c].pc \in {"login_accept", "refresh_accept"}
                              /\ task[c].reply = auth'.token
                              /\ ~task[c].overtaken
<1>0. auth \in AuthRecords
  BY DEF AbInv, TypeOK
<1>1. ASSUME NEW c \in Callers, LoginAccept(c)
      PROVE  Fenced(auth, task[c].ticket) /\ auth'.token = task[c].reply
  <2>1. auth' # auth
    OBVIOUS
  <2>2. (KeepProof([auth EXCEPT !.auth_epoch = @ + 1, !.logout_state = "Pending"], task[c].reply.session)).token
           = auth.token
        /\ (KeepProof(auth, task[c].reply.session)).token = auth.token
        /\ [auth EXCEPT !.unknown = TRUE].token = auth.token
        /\ AcceptLogin(auth, task[c].reply).token = task[c].reply
    BY <1>0 DEF KeepProof, AcceptLogin, AuthRecords
  <2> QED BY Zenon, <1>1, <2>1, <2>2 DEF LoginAccept, SaveFails
<1>2. ASSUME NEW c \in Callers, RefreshAccept(c)
      PROVE  Fenced(auth, task[c].ticket) /\ auth'.token = task[c].reply
  <2>1. InstallPair(auth, task[c].reply).token = task[c].reply
        /\ Begin(InstallPair(auth, task[c].reply), "Refresh", FALSE).token = task[c].reply
    BY <1>0 DEF InstallPair, Begin, AuthRecords
  <2> QED BY Zenon, <1>2, <2>1 DEF RefreshAccept, SaveFails
<1>3. ASSUME NEW c \in Callers, Fenced(auth, task[c].ticket),
             task[c].pc \in {"login_accept", "refresh_accept"}
      PROVE  ~task[c].overtaken
  <2>1. issuance = c /\ OvertakenTask(c)
    BY <1>3 DEF AbInv, TaskInv, LoginHeld, RefreshHeld
  <2> QED BY Zenon, <1>3, <2>1 DEF OvertakenTask, Fenced, Active
<1>4. ASSUME NEW c \in Callers, LoginLocked(c) PROVE auth'.token = auth.token
  <2>1. \A b \in BOOLEAN :
          Begin([auth EXCEPT !.auth_epoch = @ + 1, !.logout_state = "Active", !.unknown = FALSE,
                   !.cancelled_login = None, !.account = task[c].account], "Login", b).token = auth.token
    BY <1>0 DEF Begin, AuthRecords
  <2>2. ControlledUnknown \in BOOLEAN
    BY <1>0 DEF ControlledUnknown, PendingKind, AuthRecords
  <2> QED BY <1>4, <2>1, <2>2 DEF LoginLocked, SaveFails
<1>5. ASSUME NEW c \in Callers, LoginError(c) PROVE auth'.token = auth.token
  BY Zenon, <1>0, <1>5 DEF LoginError, SaveFails, AuthRecords
<1>6. ASSUME NEW c \in Callers, AccessTicket(c) PROVE auth'.token = auth.token
  <2>1. Begin(auth, "Refresh", FALSE).token = auth.token
    BY <1>0 DEF Begin, AuthRecords
  <2> QED BY Zenon, <1>6, <2>1 DEF AccessTicket, SaveFails
<1>7. ASSUME NEW c \in Callers, LogoutBegin(c) PROVE auth'.token = auth.token
  BY <1>7, LogoutFenceRecord DEF LogoutBegin, SaveFails
<1>8. ASSUME NEW c \in Callers, LogoutPrepare(c) \/ LogoutFinish(c)
      PROVE  auth'.token \in {None, auth.token}
  BY Zenon, <1>0, <1>8 DEF LogoutPrepare, LogoutFinish, SaveFails, AuthRecords
<1>9. ASSUME NEW c \in Callers,
             \/ BeginLogin(c) \/ LoginStop(c) \/ LoginAnswer(c) \/ BeginAccess(c) \/ BeginRecovery(c)
             \/ AccessLocked(c) \/ RefreshNext(c) \/ RefreshAnswer(c) \/ BeginLogout(c)
             \/ LogoutReceived(c) \/ LogoutAnswer(c) \/ Abandon(c)
      PROVE  auth' = auth
  BY Zenon, <1>9 DEF BeginLogin, LoginStop, LoginAnswer, BeginAccess, BeginRecovery, AccessLocked, RefreshNext,
     RefreshAnswer, BeginLogout, LogoutReceived, LogoutAnswer, Abandon
<1>10. ASSUME HandleLate \/ PushCleanup \/ Restart PROVE auth'.token = auth.token
  BY Zenon, <1>0, <1>10 DEF HandleLate, PushCleanup, Restart, AuthRecords
<1>11. PICK c \in Callers : LoginAccept(c) \/ RefreshAccept(c)
  BY <1>4, <1>5, <1>6, <1>7, <1>8, <1>9, <1>10 DEF Next, Step, LogoutStep
<1>12. task[c].pc \in {"login_accept", "refresh_accept"}
  BY Zenon, <1>11 DEF LoginAccept, RefreshAccept
<1> QED BY <1>1, <1>2, <1>3, <1>11, <1>12

(* A login or refresh that a logout has overtaken never installs its       *)
(* tokens, and no slow logout stages its push cleanup in the session that  *)
(* followed (OvertakenCallLeavesNothing).                                  *)
THEOREM OvertakenInstallsNothing == Spec => OvertakenCallLeavesNothing
<1> DEFINE A == /\ auth'.token \notin {None, auth.token} =>
                     \E c \in Callers : /\ task[c].pc \in {"login_accept", "refresh_accept"}
                                        /\ task[c].reply = auth'.token
                                        /\ ~task[c].overtaken
                /\ auth'.logout_state = "Active" /\ auth'.token # None => auth'.push_cleanup = None
<1>1. AbInv /\ AbInv' /\ [Next]_vars => [A]_vars
  <2> SUFFICES ASSUME AbInv, AbInv', Next PROVE A
    OBVIOUS
  <2>1. auth'.logout_state = "Active" /\ auth'.token # None => auth'.push_cleanup = None
    BY Zenon DEF AbInv, RecordIsSound
  <2> QED BY <2>1, InstallsOwnReply
<1> QED BY <1>1, BrokerInvariant, PTL DEF Spec, OvertakenCallLeavesNothing
=============================================================================
