--------------------------- MODULE PrivateChannel ---------------------------
(***************************************************************************)
(* The private channel between the container, which owns the session, and  *)
(* the runtime it launched (ipc/remote.rs, ipc/child_admission.rs,         *)
(* ipc/transport.rs), with the owner commands it serves (host.rs) and the  *)
(* runtime record the child admits a session to (runtime_state.rs).        *)
(*                                                                         *)
(* Owner: `broker` is the session as AuthBroker keeps it, cut down to what *)
(* the channel sees; `task` holds one owner operation per caller, waiting  *)
(* for an ack in `ack` where it called the child.  Child: `latch` is       *)
(* ChildAdmission's state, `controls` the controls the pump spawned,       *)
(* `pump` its locals, `client` the callers of PrivateRuntimeAuthClient,    *)
(* `cache` the cached stamp, `start` a tunnel start, which holds the       *)
(* writer gate from its barrier check to its end.                          *)
(*                                                                         *)
(* The owner's frames reach the child in order: `wire`.  The child's       *)
(* frames each wake one owner operation, so their order is the order the   *)
(* operations take their next step in: an ack or a request is delivered to *)
(* its operation at once and lies there until that step.  A scope is the   *)
(* stamp of the session that opened it: logging in and out and resuming a  *)
(* transition draw a new one.  Tokens of one session are not told apart.   *)
(* Counters that only serve to notice a change (the latch's cancel         *)
(* generation and last request, the cache's logout generation, the stop    *)
(* epoch of a start) are flags set on whatever the change overtakes.  A    *)
(* deadline that passes ends the channel; a lease that lapses `Expires`.   *)
(***************************************************************************)
EXTENDS Naturals, Sequences, FiniteSets

CONSTANTS Scenarios,     \* the initial session and the budgets of events
          None

VARIABLES broker,        \* the protected session
          issuance,      \* the operation that holds the broker's issuance lock
          ready_gate,    \* the operation that holds the host's ready gate
          task,          \* the owner's operations
          owner,         \* the owner's end of the channel is closed
          wire,          \* frames on their way to the child
          latch,         \* ChildAdmission
          controls,      \* controls running in the child
          pump,          \* the child's pump and its end of the channel
          client,        \* the runtime's calls
          cache,         \* the runtime's cached stamp
          start,         \* a tunnel start of the runtime
          tunnel,        \* the tunnel runs
          record,        \* the runtime record, durable
          left           \* events still to come

ownerVars == <<broker, issuance, ready_gate, task, owner>>
childVars == <<latch, controls, pump, client, cache, start, tunnel, record>>
vars == <<ownerVars, wire, childVars, left>>

Callers == {"ui", "login", "logout", "ready", "start"}
Workers == Callers \cup {"switch"}
OpsOf(c) == CASE c = "ui"    -> {"state", "access", "recover", "provision", "status"}
              [] c = "start" -> {}
              [] OTHER       -> {c}

(* An owner operation: `ack` is "wait" while it waits for the child,       *)
(* `leased` that it must give its lease back, `peer` that the channel it   *)
(* came from is still there to answer on.                                  *)
NoTask == [op |-> "none", pc |-> "idle", stamp |-> None, ack |-> None, body |-> None,
           leased |-> FALSE, asks |-> FALSE, peer |-> FALSE]

(* A call: `asked` is the request on the wire, which is a State when `op`  *)
(* had no cached stamp; `fenced` that a logout has overtaken it.           *)
NoCall == [pc |-> "idle", op |-> "none", asked |-> "none", stamp |-> None, fenced |-> FALSE,
           body |-> None, got |-> None]

Closed == [held |-> None, admitted |-> None]
NewPump == [confirmed |-> FALSE, observed |-> FALSE, seen |-> FALSE, ended |-> None, granted |-> None]

Init ==
  \E s \in Scenarios :
    /\ broker = [stamp |-> s.session, phase |-> IF s.session = 0 THEN "LoggedOut" ELSE "Active",
                 ticket |-> None, source |-> None, receipt |-> None, frozen |-> None,
                 recovery |-> FALSE]
    /\ record = [scope |-> IF s.session = 0 THEN None ELSE s.session, work |-> {}]
    /\ left = s.left
    /\ issuance = None /\ ready_gate = None
    /\ task = [c \in Workers |-> NoTask]
    /\ owner = "open"
    /\ wire = <<>>
    /\ latch = Closed
    /\ controls = {}
    /\ pump = NewPump
    /\ client = [c \in Callers |-> NoCall]
    /\ cache = [value |-> None, retired |-> None]
    /\ start = [pc |-> "idle", cancelled |-> FALSE]
    /\ tunnel = FALSE

Spend(e) == left[e] > 0 /\ left' = [left EXCEPT ![e] = @ - 1]
Signed == broker.phase = "Active"
SignedAs(s) == Signed /\ broker.stamp = s

(* ensure_transition_issuance_allowed: a transition fences issuing.        *)
Issuable == task["switch"].pc = "idle"

-----------------------------------------------------------------------------
(* The owner's end: frames to the child, acks it waits for, replies.       *)

Frame(k, c) == [k |-> k, by |-> c]
Scoped(k, c, s) == [k |-> k, by |-> c, scope |-> s]
Response(c, b, s) == [k |-> "Response", by |-> c, body |-> b, scope |-> s]

Enqueue(frames) == wire' = IF owner = "open" THEN wire \o frames ELSE wire

(* RemoteOwner::control: on a closed channel it fails at once.             *)
Control(c, t, frames, pc) ==
  /\ Enqueue(frames)
  /\ task' = [task EXCEPT ![c] =
                [t EXCEPT !.pc = pc, !.ack = IF owner = "open" THEN "wait" ELSE "Closed"]]

(* Dropping an AdmissionLease that was not granted sends Abort.            *)
Dropped(t, c) == IF t.leased \/ t.ack = "Prepared" THEN <<Frame("Abort", c)>> ELSE <<>>
Answer(t, c, b, s) == IF t.peer THEN <<Response(c, b, s)>> ELSE <<>>

Finish(c, b, s) ==
  /\ Enqueue(Dropped(task[c], c) \o Answer(task[c], c, b, s))
  /\ task' = [task EXCEPT ![c] = NoTask]
Fail(c) == Finish(c, "Error", None)

Go(c, pc) == task' = [task EXCEPT ![c].pc = pc, ![c].ack = None] /\ UNCHANGED wire
Runs(c, op, pc) == task[c].op = op /\ task[c].pc = pc
Acked(c) == task[c].ack # "wait"
Lease(c) == [task[c] EXCEPT !.leased = TRUE]

-----------------------------------------------------------------------------
(* AuthRequestV1::State.  What was observed is answered later, and other   *)
(* frames may be queued in between.                                        *)

(* A native recovery whose outcome is not known has to be repeated first.  *)
Observed == CASE broker.phase \in {"Login", "Unknown", "Undecided"} -> "Unknown"
              [] Signed /\ broker.recovery -> "Recovery"
              [] OTHER -> broker.phase

OwnerState ==
  \E c \in Callers :
    /\ Runs(c, "state", "new")
    /\ LET t == [task[c] EXCEPT !.stamp = broker.stamp, !.body = Observed] IN
         IF Observed = "Active"
         THEN Control(c, t, <<Scoped("Check", c, broker.stamp)>>, "checked")
         ELSE task' = [task EXCEPT ![c] = [t EXCEPT !.pc = "reply"]] /\ UNCHANGED wire
    /\ UNCHANGED <<broker, issuance, ready_gate, owner, childVars, left>>

OwnerStateReply ==
  \E c \in Callers :
    /\ \/ task[c].pc = "reply" /\ Finish(c, task[c].body, task[c].stamp)
       \/ /\ task[c].pc = "checked" /\ Acked(c)
          /\ Finish(c, IF task[c].ack = "Done" THEN "Active" ELSE "Recovery", task[c].stamp)
    /\ UNCHANGED <<broker, issuance, ready_gate, owner, childVars, left>>

(* AuthRequestV1::AccessToken: the scope is checked with the child before  *)
(* and after the token is issued, and the answer is queued under the       *)
(* broker's lock.                                                          *)
OwnerAccess ==
  \E c \in Callers :
    /\ Runs(c, "access", "new")
    /\ Observed = "Recovery" => issuance = None
    /\ IF task[c].stamp = None \/ Observed \notin {"Active", "LoggedOut"} THEN Fail(c)
       ELSE IF ~Signed
       THEN task' = [task EXCEPT ![c].pc = "reply", ![c].body = "LoggedOut", ![c].stamp = broker.stamp]
            /\ UNCHANGED wire
       ELSE IF ~SignedAs(task[c].stamp) THEN Fail(c)
       ELSE Control(c, task[c], <<Scoped("Check", c, task[c].stamp)>>, "token")
    /\ UNCHANGED <<broker, issuance, ready_gate, owner, childVars, left>>

OwnerToken ==
  \E c \in Callers :
    /\ Runs(c, "access", "token") /\ Acked(c)
    /\ \/ /\ task[c].ack # "Done" \/ ~SignedAs(task[c].stamp) \/ ~Issuable
          /\ Fail(c) /\ UNCHANGED issuance
       \/ /\ task[c].ack = "Done" /\ SignedAs(task[c].stamp) /\ Issuable /\ issuance = None
          /\ IF broker.recovery THEN Fail(c) /\ UNCHANGED issuance
             ELSE issuance' = c /\ Go(c, "refresh")
    /\ UNCHANGED <<broker, ready_gate, owner, childVars, left>>

OwnerRefresh ==
  \E c \in Callers :
    /\ Runs(c, "access", "refresh")
    /\ issuance' = None
    /\ IF SignedAs(task[c].stamp)
       THEN Control(c, task[c], <<Scoped("Check", c, task[c].stamp)>>, "access")
       ELSE Fail(c)
    /\ UNCHANGED <<broker, ready_gate, owner, childVars, left>>

OwnerAccessReply ==
  \E c \in Callers :
    /\ Runs(c, "access", "access") /\ Acked(c)
    /\ IF task[c].ack = "Done" /\ SignedAs(task[c].stamp)
       THEN Finish(c, "Access", task[c].stamp)
       ELSE Fail(c)
    /\ UNCHANGED <<broker, issuance, ready_gate, owner, childVars, left>>

-----------------------------------------------------------------------------
(* Admission: the child binds its record to the scope, then the grant is   *)
(* queued under the broker's lock if the scope is still the session's.     *)
(* It carries the answer of a login or a recovery.                         *)

Commit(c, t, s) ==
  Control(c, [t EXCEPT !.stamp = s], <<Scoped("Commit", c, s)>>, "commit")

Grant(c) ==
  LET t == task[c] IN
    [k |-> "Grant", by |-> c, scope |-> t.stamp, reply |-> t.peer /\ t.body = "Access"]

OwnerGrant ==
  \E c \in Workers :
    /\ task[c].pc = "commit" /\ Acked(c)
    /\ IF task[c].ack = "Committed" /\ SignedAs(task[c].stamp) /\ owner = "open"
       THEN /\ Enqueue(<<Grant(c)>> \o
                         (IF task[c].body = "Access" THEN <<>>
                          ELSE Answer(task[c], c, task[c].body, None)))
            /\ task' = [task EXCEPT ![c] = NoTask]
            /\ broker' = IF c = "switch" THEN [broker EXCEPT !.frozen = None] ELSE broker
       ELSE /\ IF c = "switch"
               THEN /\ Enqueue(Dropped(task[c], c))
                    /\ task' = [task EXCEPT ![c] = [NoTask EXCEPT !.pc = "complete"]]
               ELSE Fail(c)
            /\ UNCHANGED broker
    /\ ready_gate' = IF ready_gate = c THEN None ELSE ready_gate
    /\ UNCHANGED <<issuance, owner, childVars, left>>

-----------------------------------------------------------------------------
(* AuthRequestV1::BackgroundCredential.  Status answers what was observed  *)
(* before the scope was checked.  Recover holds a lease over the native    *)
(* call, Provision only checks the scope.  The call is recorded before it  *)
(* is made.  A refusal of a recovery restores the unchanged scope before   *)
(* the error is answered; an unknown outcome leaves the record and the     *)
(* child closed.  A provision never leaves a record.                       *)

OwnerBackground ==
  \E c \in Callers :
    /\ task[c].op \in {"recover", "provision", "status"} /\ task[c].pc = "new"
    /\ LET t == [task[c] EXCEPT !.body = Observed] IN
         IF t.stamp = None \/ t.stamp # broker.stamp THEN Fail(c)
         ELSE IF t.op = "recover" THEN Control(c, t, <<Frame("Prepare", c)>>, "validate")
         ELSE Control(c, t, <<Scoped("Check", c, t.stamp)>>, "native")
    /\ UNCHANGED <<broker, issuance, ready_gate, owner, childVars, left>>

OwnerValidate ==
  \E c \in Callers :
    /\ Runs(c, "recover", "validate") /\ Acked(c)
    /\ IF task[c].ack = "Prepared"
       THEN Control(c, Lease(c), <<Scoped("Validate", c, task[c].stamp)>>, "native")
       ELSE Fail(c)
    /\ UNCHANGED <<broker, issuance, ready_gate, owner, childVars, left>>

OwnerStatus ==
  \E c \in Callers :
    /\ Runs(c, "status", "native") /\ Acked(c)
    /\ IF task[c].ack = "Done" THEN Finish(c, task[c].body, task[c].stamp) ELSE Fail(c)
    /\ UNCHANGED <<broker, issuance, ready_gate, owner, childVars, left>>

(* begin_native_locked saves the ticket. *)
NativeBegun == [broker EXCEPT !.recovery = TRUE]

OwnerNative ==
  \E c \in Callers :
    /\ task[c].op \in {"recover", "provision"} /\ task[c].pc = "native" /\ Acked(c)
    /\ IF task[c].ack # "Done" THEN Fail(c) /\ UNCHANGED <<broker, issuance>>
       ELSE /\ issuance = None
            /\ IF /\ SignedAs(task[c].stamp) /\ Issuable /\ owner = "open"
                  /\ task[c].op = "provision" => Observed = "Active"
               THEN issuance' = c /\ broker' = NativeBegun /\ Go(c, "dispatch")
               ELSE Fail(c) /\ UNCHANGED <<broker, issuance>>
    /\ UNCHANGED <<ready_gate, owner, childVars, left>>

(* The outcomes of NativeAuthFailure that settle a recovery.               *)
Settles(outcome) == outcome \in {"ok", "refused", "unavailable"}

(* The ticket goes with the outcome unless a logout took it.               *)
NativeSettled(c, outcome) ==
  IF SignedAs(task[c].stamp) /\ (task[c].op = "provision" \/ Settles(outcome))
  THEN [broker EXCEPT !.recovery = FALSE] ELSE broker

OwnerDispatched(outcome) ==
  \E c \in Callers :
    /\ task[c].op \in {"recover", "provision"} /\ task[c].pc = "dispatch"
    /\ issuance' = None
    /\ broker' = NativeSettled(c, outcome)
    /\ LET current == SignedAs(task[c].stamp)
           t == [task[c] EXCEPT !.body = IF outcome = "ok" THEN "Access" ELSE "Error"] IN
         IF task[c].op = "recover" /\ current /\ outcome \in {"ok", "refused"}
         THEN Commit(c, t, t.stamp)
         ELSE IF task[c].op = "provision" /\ current /\ outcome = "ok"
         THEN Finish(c, "Access", t.stamp)
         ELSE Fail(c)
    /\ IF outcome = "ok" THEN UNCHANGED left ELSE Spend("fails")
    /\ UNCHANGED <<ready_gate, owner, childVars>>

-----------------------------------------------------------------------------
(* AuthRequestV1::Login over AuthBroker::login_fenced_with_ticket.  The    *)
(* ticket is the stamp drawn when the request is issued, and the session   *)
(* it opens has a stamp of its own.                                        *)

OwnerLogin ==
  \E c \in Callers :
    /\ Runs(c, "login", "new")
    /\ IF task[c].stamp # None /\ task[c].stamp = broker.stamp
       THEN Control(c, task[c], <<Frame("Prepare", c)>>, "issue")
       ELSE Fail(c)
    /\ UNCHANGED <<broker, issuance, ready_gate, owner, childVars, left>>

OwnerIssue ==
  \E c \in Callers :
    /\ Runs(c, "login", "issue") /\ Acked(c)
    /\ LET may == /\ task[c].ack = "Prepared" /\ owner = "open" /\ Issuable
                  /\ task[c].stamp = broker.stamp
                  /\ broker.phase \in {"LoggedOut", "Unknown", "Undecided"} IN
         \/ /\ task[c].ack = "Prepared" => issuance = None
            /\ ~may /\ Fail(c)
            /\ UNCHANGED <<broker, issuance>>
         \/ /\ may /\ issuance = None
            /\ issuance' = c
            /\ broker' = [broker EXCEPT !.stamp = @ + 1, !.phase = "Login", !.ticket = broker.stamp + 1]
            /\ Control(c, [Lease(c) EXCEPT !.asks = broker.phase # "LoggedOut"],
                       <<Frame("Stop", c)>>, "post")
    /\ UNCHANGED <<ready_gate, owner, childVars, left>>

OwnsTicket(c) == broker.phase = "Login" /\ broker.ticket = task[c].stamp + 1

(* The ticket is given back; an earlier unknown outcome stays unknown.     *)
Returned(c, known) ==
  IF OwnsTicket(c)
  THEN [broker EXCEPT !.phase = IF known /\ ~task[c].asks THEN "LoggedOut" ELSE "Unknown"]
  ELSE broker

OwnerPost ==
  \E c \in Callers :
    /\ Runs(c, "login", "post") /\ Acked(c)
    /\ IF task[c].ack = "Done" /\ owner = "open"
       THEN Go(c, "login") /\ UNCHANGED <<broker, issuance>>
       ELSE Fail(c) /\ broker' = Returned(c, TRUE) /\ issuance' = None
    /\ UNCHANGED <<ready_gate, owner, childVars, left>>

(* The session opens if the ticket still stands.  If a logout cancelled    *)
(* it, the new session is logged out on the server within the same call.   *)
OwnerLoggedIn ==
  \E c \in Callers :
    /\ Runs(c, "login", "login")
    /\ IF OwnsTicket(c)
       THEN /\ broker' = [broker EXCEPT !.stamp = @ + 1, !.phase = "Active", !.ticket = None]
            /\ issuance' = None
            /\ Commit(c, [task[c] EXCEPT !.body = "Access"], broker.stamp + 1)
       ELSE IF broker.phase = "Undecided" /\ broker.ticket = task[c].stamp + 1
       THEN /\ broker' = [broker EXCEPT !.phase = "Pending", !.ticket = None, !.source = None]
            /\ UNCHANGED issuance
            /\ Control(c, [task[c] EXCEPT !.stamp = broker.stamp],
                       <<Frame("Revoke", c), Frame("Stop", c)>>, "out")
       ELSE Fail(c) /\ issuance' = None /\ UNCHANGED broker
    /\ UNCHANGED <<ready_gate, owner, childVars, left>>

(* Rejected by the server, or no answer within the time of the call.  A    *)
(* rejection is answered before the lease is dropped.                      *)
OwnerLoginFails(outcome) ==
  \E c \in Callers :
    /\ Runs(c, "login", "login")
    /\ broker' = Returned(c, outcome = "rejected")
    /\ issuance' = None
    /\ IF outcome = "rejected"
       THEN /\ Enqueue(Answer(task[c], c, "Rejected", None) \o Dropped(task[c], c))
            /\ task' = [task EXCEPT ![c] = NoTask]
       ELSE Fail(c)
    /\ Spend("fails")
    /\ UNCHANGED <<ready_gate, owner, childVars>>

-----------------------------------------------------------------------------
(* AuthRequestV1::Logout over AuthBroker::logout_inner.  It never waits    *)
(* for issuance, its Revoke is queued with the durable change, and it      *)
(* outlives the channel it came from.                                      *)

(* The stamp is the session's, or the one the pending login was sent with. *)
MayLogOut(c) ==
  LET s == task[c].stamp IN
    /\ s # None
    /\ \/ s = broker.stamp
       \/ /\ task[c].asks
          /\ task["login"].op = "login" /\ task["login"].stamp = s
          /\ broker.phase = "Login" /\ broker.ticket = s + 1

LogoutSaved ==
  CASE broker.phase = "LoggedOut" -> [broker EXCEPT !.stamp = @ + 1]
    [] broker.phase = "Active" ->
         [broker EXCEPT !.stamp = @ + 1, !.phase = "Pending", !.source = broker.stamp,
                        !.recovery = FALSE]
    [] broker.phase = "Login" -> [broker EXCEPT !.stamp = @ + 1, !.phase = "Undecided"]
    [] broker.phase = "Unknown" ->
         [broker EXCEPT !.stamp = @ + 1, !.phase = "Undecided", !.ticket = None]
    [] OTHER -> broker

OwnerLogout ==
  \E c \in Callers :
    /\ Runs(c, "logout", "new")
    /\ IF MayLogOut(c)
       THEN /\ broker' = LogoutSaved
            /\ Control(c, [task[c] EXCEPT !.stamp = broker'.stamp],
                       <<Frame("Revoke", c), Frame("Stop", c)>>,
                       CASE broker.phase = "LoggedOut" -> "again"
                         [] broker'.phase = "Pending"  -> "out"
                         [] OTHER                      -> "unknown")
       ELSE Fail(c) /\ UNCHANGED broker
    /\ UNCHANGED <<issuance, ready_gate, owner, childVars, left>>

(* Nothing to revoke on the server.                                        *)
OwnerStopped ==
  \E c \in Callers :
    /\ task[c].pc \in {"again", "unknown"} /\ Acked(c)
    /\ IF task[c].pc = "again" /\ task[c].ack = "Done" THEN Go(c, "ready") ELSE Fail(c)
    /\ UNCHANGED <<broker, issuance, ready_gate, owner, childVars, left>>

(* The stop and the revocation have both come back.  The revocation counts *)
(* even if the stop failed; the receipt names the session it revoked.  A   *)
(* cancelled login ends here, and frees issuance.                          *)
OwnerLoggedOut(revoked) ==
  \E c \in Callers :
    /\ task[c].pc = "out" /\ Acked(c)
    /\ LET current == broker.stamp = task[c].stamp
           settles == revoked /\ current /\ broker.phase = "Pending"
           ok == /\ revoked /\ current /\ broker.phase \in {"Pending", "LoggedOut"}
                 /\ task[c].ack = "Done" IN
         /\ broker' = IF settles
                      THEN [broker EXCEPT !.phase = "LoggedOut", !.receipt = broker.source,
                                          !.source = None]
                      ELSE broker
         /\ IF ok /\ c = "logout" THEN Go(c, "ready") ELSE Fail(c)
    /\ issuance' = IF issuance = c THEN None ELSE issuance
    /\ IF revoked THEN UNCHANGED left ELSE Spend("fails")
    /\ UNCHANGED <<ready_gate, owner, childVars>>

-----------------------------------------------------------------------------
(* HostRequestV1::RuntimeReady, also run at the end of a logout: the       *)
(* record a logout left behind is erased, and the session is admitted.     *)

FailReady(c) == Fail(c) /\ ready_gate' = None

OwnerReady ==
  \E c \in Callers :
    /\ Runs(c, "ready", "new") \/ task[c].pc = "ready"
    /\ ready_gate = None
    /\ ready_gate' = c
    /\ IF broker.receipt = None THEN Go(c, "startup")
       ELSE Control(c, [task[c] EXCEPT !.body = broker.receipt], <<Frame("Prepare", c)>>, "stop")
    /\ UNCHANGED <<broker, issuance, owner, childVars, left>>

(* Mutant: the record is erased without stopping again.                    *)
OwnerStopSkipped ==
  \E c \in Callers :
    /\ task[c].pc = "stop" /\ task[c].ack = "Prepared" /\ issuance = None
    /\ broker.receipt = task[c].body /\ broker.phase = "LoggedOut"
    /\ Control(c, Lease(c), <<Scoped("CompleteLogout", c, task[c].body)>>, "finish")
    /\ UNCHANGED <<broker, issuance, ready_gate, owner, childVars, left>>

(* stop_runtime_logout_cleanup holds issuance over the stop.               *)
OwnerStop ==
  \E c \in Callers :
    /\ task[c].pc = "stop" /\ Acked(c)
    /\ IF task[c].ack # "Prepared" THEN FailReady(c) /\ UNCHANGED issuance
       ELSE /\ issuance = None
            /\ IF broker.receipt = task[c].body /\ broker.phase = "LoggedOut"
               THEN /\ issuance' = c
                    /\ Control(c, Lease(c), <<Frame("Stop", c)>>, "erase")
                    /\ UNCHANGED ready_gate
               ELSE FailReady(c) /\ UNCHANGED issuance
    /\ UNCHANGED <<broker, owner, childVars, left>>

OwnerErase ==
  \E c \in Callers :
    /\ task[c].pc = "erase" /\ Acked(c)
    /\ issuance' = None
    /\ IF task[c].ack = "Done"
       THEN /\ Control(c, task[c], <<Scoped("CompleteLogout", c, task[c].body)>>, "finish")
            /\ UNCHANGED ready_gate
       ELSE FailReady(c)
    /\ UNCHANGED <<broker, owner, childVars, left>>

OwnerErased ==
  \E c \in Callers :
    /\ task[c].pc = "finish" /\ Acked(c)
    /\ LET current == broker.receipt \in {None, task[c].body} IN
         IF task[c].ack = "Done" /\ current
         THEN /\ broker' = [broker EXCEPT !.receipt = None]
              /\ Enqueue(<<Frame("Abort", c)>>)
              /\ task' = [task EXCEPT ![c].pc = "startup", ![c].ack = None, ![c].leased = FALSE]
              /\ UNCHANGED ready_gate
         ELSE FailReady(c) /\ UNCHANGED broker
    /\ UNCHANGED <<issuance, owner, childVars, left>>

(* A transition that has not settled, or a step of recovery that fails,    *)
(* fails the call; nothing is admitted without a session.                  *)
OwnerStartup(ok) ==
  \E c \in Callers :
    /\ task[c].pc = "startup"
    /\ IF ok THEN UNCHANGED left ELSE Spend("fails")
    /\ IF ~ok \/ task["switch"].pc # "idle" THEN FailReady(c)
       ELSE IF Observed # "Active" THEN Finish(c, "Done", None) /\ ready_gate' = None
       ELSE /\ Control(c, [task[c] EXCEPT !.stamp = broker.stamp, !.body = "Done"],
                       <<Scoped("Check", c, broker.stamp)>>, "admit")
            /\ UNCHANGED ready_gate
    /\ UNCHANGED <<broker, issuance, owner, childVars>>

OwnerAdmit ==
  \E c \in Callers :
    /\ task[c].pc = "admit" /\ Acked(c)
    /\ CASE task[c].ack = "Done" /\ SignedAs(task[c].stamp) /\ owner = "open" ->
              Finish(c, "Done", None) /\ ready_gate' = None
         [] task[c].ack = "Error" ->
              Control(c, task[c], <<Frame("Prepare", c)>>, "bind") /\ UNCHANGED ready_gate
         [] OTHER -> FailReady(c)
    /\ UNCHANGED <<broker, issuance, owner, childVars, left>>

OwnerBind ==
  \E c \in Callers :
    /\ task[c].pc = "bind" /\ Acked(c)
    /\ IF task[c].ack = "Prepared" /\ Observed = "Active"
       THEN Commit(c, Lease(c), broker.stamp) /\ UNCHANGED ready_gate
       ELSE FailReady(c)
    /\ UNCHANGED <<broker, issuance, owner, childVars, left>>

-----------------------------------------------------------------------------
(* HostBridge for a runtime transition (RuntimeSwitch models the rest of   *)
(* it): the record is frozen under a lease, the runtime stopped and        *)
(* relaunched, the session resumed under a new stamp, and the frozen work  *)
(* cleared before the new scope is granted.                                *)

Switches(pc) == task["switch"].pc = pc /\ Acked("switch")
SwitchEnds == Fail("switch") /\ broker' = [broker EXCEPT !.frozen = None]

SwitchBegin ==
  /\ task["switch"].pc = "idle" /\ owner = "open"
  /\ Observed = "Active" /\ issuance = None
  /\ Spend("switch")
  /\ Control("switch", NoTask, <<Frame("Prepare", "switch")>>, "handoff")
  /\ UNCHANGED <<broker, issuance, ready_gate, owner, childVars>>

SwitchHandoff ==
  /\ Switches("handoff")
  /\ IF task["switch"].ack = "Prepared" /\ Signed
     THEN /\ Control("switch", Lease("switch"),
                     <<Scoped("CleanupSourceSnapshot", "switch", broker.stamp)>>, "freeze")
          /\ UNCHANGED broker
     ELSE SwitchEnds
  /\ UNCHANGED <<issuance, ready_gate, owner, childVars, left>>

SwitchStops ==
  /\ Switches("freeze")
  /\ IF task["switch"].ack = "Snapshot" /\ Signed
     THEN /\ broker' = [broker EXCEPT !.frozen = task["switch"].body]
          /\ Control("switch", task["switch"], <<Frame("StopForTransition", "switch")>>, "moved")
     ELSE SwitchEnds
  /\ UNCHANGED <<issuance, ready_gate, owner, childVars, left>>

(* The lease goes; a stop that failed is followed by a forced one, and in  *)
(* both cases the runtime is relaunched.                                   *)
SwitchMoves ==
  /\ Switches("moved")
  /\ Enqueue(Dropped(task["switch"], "switch"))
  /\ task' = [task EXCEPT !["switch"] = [NoTask EXCEPT !.pc = "resume"]]
  /\ UNCHANGED <<broker, issuance, ready_gate, owner, childVars, left>>

SwitchResumes ==
  /\ Switches("resume")
  /\ owner = "closed" /\ pump.ended # None
  /\ IF Signed
     THEN broker' = [broker EXCEPT !.stamp = @ + 1] /\ Go("switch", "complete")
     ELSE SwitchEnds
  /\ UNCHANGED <<issuance, ready_gate, owner, childVars, left>>

SwitchCompletes ==
  /\ Switches("complete") /\ owner = "open"
  /\ Spend("admit")
  /\ IF Signed
     THEN Control("switch", task["switch"], <<Frame("Prepare", "switch")>>, "cleanup")
          /\ UNCHANGED broker
     ELSE SwitchEnds
  /\ UNCHANGED <<issuance, ready_gate, owner, childVars>>

SwitchCleans ==
  /\ Switches("cleanup")
  /\ IF task["switch"].ack = "Prepared" /\ Signed
     THEN Control("switch", [Lease("switch") EXCEPT !.stamp = broker.stamp],
                  <<[k |-> "CompleteCleanup", by |-> "switch", scope |-> broker.stamp,
                     work |-> broker.frozen]>>, "commit")
     ELSE /\ Enqueue(Dropped(task["switch"], "switch"))
          /\ task' = [task EXCEPT !["switch"] = [NoTask EXCEPT !.pc = "complete"]]
  /\ UNCHANGED <<broker, issuance, ready_gate, owner, childVars, left>>

-----------------------------------------------------------------------------
(* The child's pump takes the frames in order.                             *)

ChildOpen == pump.ended = None

Receive(k) == ChildOpen /\ wire # <<>> /\ Head(wire).k = k /\ wire' = Tail(wire)

Ack(c, a) ==
  task' = [task EXCEPT ![c].ack = IF @ = "wait" /\ owner = "open" THEN a ELSE @]

Deliver(c, b, s) == client' = [client EXCEPT ![c].pc = "reply", ![c].body = b, ![c].got = s]

(* RuntimeRecordOwner: the scope of the record, and which scope an unused  *)
(* record takes.                                                           *)
CheckScope(s) == record.scope = s
BindEmptyScope(s) == CheckScope(s) \/ record.work = {}

(* ChildAdmission::check                                                   *)
Check(s) == latch.admitted = s /\ CheckScope(s)

HeldBy(c) == latch.held # None /\ latch.held.by = c
Uncommitted(c) == HeldBy(c) /\ latch.held.scope = None

(* A revocation also cancels every prepare that is still waiting.          *)
Overtaken == {[d EXCEPT !.stale = TRUE] : d \in controls}

PumpPrepare ==
  /\ Receive("Prepare")
  /\ pump' = [pump EXCEPT !.observed = FALSE, !.seen = TRUE]
  /\ controls' = controls \cup {[k |-> "prepare", by |-> Head(wire).by, pc |-> "new", stale |-> FALSE]}
  /\ UNCHANGED <<ownerVars, latch, client, cache, start, tunnel, record, left>>

(* ChildAdmission::prepare closes the latch, then waits for the writers.   *)
PrepareBegins ==
  \E d \in controls :
    /\ ChildOpen /\ d.k = "prepare" /\ d.pc = "new"
    /\ IF latch.held # None
       THEN Ack(d.by, "Error") /\ controls' = controls \ {d} /\ UNCHANGED latch
       ELSE /\ latch' = [latch EXCEPT !.admitted = None]
            /\ controls' = {IF e.k = "prepare" /\ e.pc = "quiesce" THEN [e EXCEPT !.stale = TRUE] ELSE e :
                              e \in controls \ {d}}
                           \cup {[d EXCEPT !.pc = "quiesce", !.stale = FALSE]}
            /\ UNCHANGED task
    /\ UNCHANGED <<broker, issuance, ready_gate, owner, wire, pump, client, cache, start, tunnel,
                   record, left>>

Prepared ==
  \E d \in controls :
    /\ ChildOpen /\ d.k = "prepare" /\ d.pc = "quiesce"
    /\ IF d.stale THEN Ack(d.by, "Error") /\ UNCHANGED latch
       ELSE /\ start.pc = "idle" /\ latch.held = None
            /\ latch' = [latch EXCEPT !.held = [by |-> d.by, scope |-> None]]
            /\ Ack(d.by, "Prepared")
    /\ controls' = controls \ {d}
    /\ UNCHANGED <<broker, issuance, ready_gate, owner, wire, pump, client, cache, start, tunnel,
                   record, left>>

(* bind_empty_scope: an unused record takes the scope, a bound one must    *)
(* have it.                                                                *)
PumpCommit ==
  /\ Receive("Commit")
  /\ LET f == Head(wire) IN
       IF Uncommitted(f.by) /\ BindEmptyScope(f.scope)
       THEN /\ latch' = [latch EXCEPT !.held.scope = f.scope]
            /\ record' = [record EXCEPT !.scope = f.scope]
            /\ Ack(f.by, "Committed")
       ELSE Ack(f.by, "Error") /\ UNCHANGED <<latch, record>>
  /\ UNCHANGED <<broker, issuance, ready_gate, owner, controls, pump, client, cache, start, tunnel,
                 left>>

(* A grant whose lease is gone ends the channel.                           *)
Granted(f) == HeldBy(f.by) /\ latch.held.scope = f.scope /\ CheckScope(f.scope)

PumpGrant ==
  /\ Receive("Grant")
  /\ LET f == Head(wire) IN
       /\ Granted(f)
       /\ latch' = [admitted |-> f.scope, held |-> None]
       /\ pump' = [pump EXCEPT !.confirmed = FALSE, !.observed = FALSE, !.seen = TRUE,
                               !.granted = f.scope]
       /\ IF f.reply THEN Deliver(f.by, "Access", f.scope) ELSE UNCHANGED client
  /\ UNCHANGED <<ownerVars, controls, cache, start, tunnel, record, left>>

PumpAbort ==
  /\ Receive("Abort")
  /\ latch' = IF HeldBy(Head(wire).by) THEN Closed ELSE latch
  /\ controls' = IF HeldBy(Head(wire).by) THEN Overtaken ELSE controls
  /\ UNCHANGED <<ownerVars, pump, client, cache, start, tunnel, record, left>>

PumpRevoke ==
  /\ Receive("Revoke")
  /\ pump' = [pump EXCEPT !.confirmed = TRUE]
  /\ latch' = Closed /\ controls' = Overtaken
  /\ UNCHANGED <<ownerVars, client, cache, start, tunnel, record, left>>

(* CheckScope and ValidateScope.                                           *)
PumpCheck ==
  \E k \in {"Check", "Validate"} :
    /\ Receive(k)
    /\ LET f == Head(wire)
           ok == IF k = "Check" THEN Check(f.scope) ELSE HeldBy(f.by) /\ CheckScope(f.scope) IN
         Ack(f.by, IF ok THEN "Done" ELSE "Error")
    /\ UNCHANGED <<broker, issuance, ready_gate, owner, childVars, left>>

PumpSnapshot ==
  /\ Receive("CleanupSourceSnapshot")
  /\ LET f == Head(wire) IN
       task' = IF task[f.by].ack = "wait" /\ owner = "open"
               THEN IF HeldBy(f.by) /\ record.scope = f.scope
                    THEN [task EXCEPT ![f.by].ack = "Snapshot", ![f.by].body = record]
                    ELSE [task EXCEPT ![f.by].ack = "Error"]
               ELSE task
  /\ UNCHANGED <<broker, issuance, ready_gate, owner, childVars, left>>

(* complete_cleanup: the record is the frozen one, or was already cleared  *)
(* and bound by an attempt whose ack was lost.                             *)
PumpCleanup ==
  /\ Receive("CompleteCleanup")
  /\ LET f == Head(wire)
         cleared == [scope |-> f.scope, work |-> {}] IN
       IF Uncommitted(f.by) /\ record \in {f.work, cleared}
       THEN /\ record' = cleared
            /\ latch' = [latch EXCEPT !.held.scope = f.scope]
            /\ Ack(f.by, "Committed")
       ELSE Ack(f.by, "Error") /\ UNCHANGED <<latch, record>>
  /\ UNCHANGED <<broker, issuance, ready_gate, owner, controls, pump, client, cache, start, tunnel,
                 left>>

(* complete_logout: only the record of the session that was revoked.       *)
PumpErase ==
  /\ Receive("CompleteLogout")
  /\ LET f == Head(wire)
         empty == [scope |-> None, work |-> {}] IN
       IF Uncommitted(f.by) /\ (record = empty \/ record.scope = f.scope)
       THEN record' = empty /\ Ack(f.by, "Done")
       ELSE Ack(f.by, "Error") /\ UNCHANGED record
  /\ UNCHANGED <<broker, issuance, ready_gate, owner, latch, controls, pump, client, cache, start,
                 tunnel, left>>

(* Stop and StopForTransition run beside the pump and need no writer gate; *)
(* a start under way is cancelled.                                         *)
PumpStop ==
  \E k \in {"Stop", "StopForTransition"} :
    /\ Receive(k)
    /\ pump' = [pump EXCEPT !.confirmed = @ \/ k = "Stop"]
    /\ controls' = controls \cup {[k |-> "stop", by |-> Head(wire).by, pc |-> "new", stale |-> FALSE]}
    /\ UNCHANGED <<ownerVars, latch, client, cache, start, tunnel, record, left>>

(* Mutant: the stop waits for the writers.                                 *)
StopWaitsForWriters(ok) ==
  \E d \in controls :
    /\ ChildOpen /\ d.k = "stop" /\ latch.held = None
    /\ controls' = controls \ {d}
    /\ start' = [start EXCEPT !.cancelled = start.pc # "idle"]
    /\ IF ok THEN tunnel' = FALSE /\ UNCHANGED left
       ELSE tunnel /\ UNCHANGED tunnel /\ Spend("stopfails")
    /\ Ack(d.by, IF ok THEN "Done" ELSE "Error")
    /\ UNCHANGED <<broker, issuance, ready_gate, owner, wire, latch, pump, client, cache, record>>

StopRuns(ok) ==
  \E d \in controls :
    /\ ChildOpen /\ d.k = "stop"
    /\ controls' = controls \ {d}
    /\ start' = [start EXCEPT !.cancelled = start.pc # "idle"]
    /\ IF ok THEN tunnel' = FALSE /\ UNCHANGED left
       ELSE tunnel /\ UNCHANGED tunnel /\ Spend("stopfails")
    /\ Ack(d.by, IF ok THEN "Done" ELSE "Error")
    /\ UNCHANGED <<broker, issuance, ready_gate, owner, wire, latch, pump, client, cache, record>>

(* Mutant: a delayed State is evidence of a logout at any time.            *)
PumpResponseAnyState ==
  /\ Receive("Response")
  /\ LET f == Head(wire)
         access == f.body = "Access"
         fresh == access /\ Check(f.scope) IN
       /\ pump' = IF fresh
                  THEN [pump EXCEPT !.confirmed = FALSE, !.observed = FALSE, !.seen = TRUE]
                  ELSE [pump EXCEPT !.observed = @ \/ f.body = "LoggedOut"]
       /\ IF access /\ ~fresh THEN Deliver(f.by, "Error", None) ELSE Deliver(f.by, f.body, f.scope)
  /\ UNCHANGED <<ownerVars, latch, controls, cache, start, tunnel, record, left>>

(* A reply: access is only delivered while its scope is admitted, and a    *)
(* State only counts as a logout before any admission was attempted.       *)
PumpResponse ==
  /\ Receive("Response")
  /\ LET f == Head(wire)
         access == f.body = "Access"
         fresh == access /\ Check(f.scope) IN
       /\ pump' = IF fresh
                  THEN [pump EXCEPT !.confirmed = FALSE, !.observed = FALSE, !.seen = TRUE]
                  ELSE [pump EXCEPT !.observed = @ \/ (~pump.seen /\ f.body = "LoggedOut")]
       /\ IF access /\ ~fresh THEN Deliver(f.by, "Error", None) ELSE Deliver(f.by, f.body, f.scope)
  /\ UNCHANGED <<ownerVars, latch, controls, cache, start, tunnel, record, left>>

(* The lease's time is up: the pump's timer gives the writers back.        *)
Expires ==
  /\ ChildOpen /\ latch.held # None
  /\ Spend("expires")
  /\ latch' = Closed /\ controls' = Overtaken
  /\ UNCHANGED <<ownerVars, wire, pump, client, cache, start, tunnel, record>>

-----------------------------------------------------------------------------
(* PrivateRuntimeAuthClient.  A call without a cached stamp asks for the   *)
(* state first.                                                            *)

Asked(op, asked, s) == [NoCall EXCEPT !.pc = "wait", !.op = op, !.asked = asked, !.stamp = s]

(* The request as the owner receives it.                                   *)
Submitted(c, asked, s) ==
  IF owner # "open" THEN task
  ELSE [task EXCEPT ![c] = [NoTask EXCEPT !.op = asked, !.pc = "new", !.stamp = s, !.peer = TRUE,
                                          !.asks = client["login"].asked = "login"]]

NeedsStamp(op) == op \notin {"state", "ready"} /\ cache.value = None

Invoke(c, op) ==
  /\ ChildOpen /\ client[c].pc = "idle" /\ task[c].pc = "idle"
  /\ Spend(op)
  /\ LET asked == IF NeedsStamp(op) THEN "state" ELSE op
         s == IF asked \in {"state", "ready"} THEN None ELSE cache.value IN
       /\ client' = [client EXCEPT ![c] = Asked(op, asked, s)]
       /\ task' = Submitted(c, asked, s)
  /\ UNCHANGED <<broker, issuance, ready_gate, owner, wire, latch, controls, pump, cache, start,
                 tunnel, record>>

(* What a reply does to the cached stamp.  A login or a logout that failed *)
(* and a logout that succeeded forget the stamp they were sent with and    *)
(* fence the replies under way; after that only access that is admitted    *)
(* now may set the stamp.                                                  *)
Fences(r) ==
  \/ r.asked \in {"login", "logout"} /\ r.body \in {"Error", "Rejected"}
  \/ r.asked = "logout" /\ r.body = "Done"

(* Mutant: replies under way are not fenced.                               *)
CacheAfterUnfenced(r) ==
  CASE Fences(r) ->
         [value |-> IF cache.value = r.stamp THEN None ELSE cache.value,
          retired |-> IF r.body = "Done" THEN r.stamp ELSE cache.retired]
    [] r.got # None -> [cache EXCEPT !.value = r.got]
    [] OTHER -> cache

CacheAfter(r) ==
  CASE Fences(r) ->
         [value |-> IF cache.value = r.stamp THEN None ELSE cache.value,
          retired |-> IF r.body = "Done" THEN r.stamp ELSE cache.retired]
    [] r.got # None /\ (~r.fenced \/ (r.body = "Access" /\ Check(r.got))) ->
         [cache EXCEPT !.value = r.got]
    [] OTHER -> cache

(* The calls once the reply of c is taken; a call that asked for the state *)
(* goes on with what the cache then holds.                                 *)
Goes(r) == r.op # r.asked /\ r.body # "Error"
Taken(c, next) ==
  [d \in Callers |->
     IF d = c THEN next
     ELSE IF Fences(client[c]) /\ client[d].pc # "idle" THEN [client[d] EXCEPT !.fenced = TRUE]
     ELSE client[d]]

ClientReply(c) ==
  /\ ChildOpen /\ client[c].pc = "reply" /\ c # "start"
  /\ cache' = CacheAfter(client[c])
  /\ IF Goes(client[c])
     THEN /\ client' = Taken(c, Asked(client[c].op, client[c].op, cache'.value))
          /\ task' = Submitted(c, client[c].op, cache'.value)
     ELSE client' = Taken(c, NoCall) /\ UNCHANGED task
  /\ UNCHANGED <<broker, issuance, ready_gate, owner, wire, latch, controls, pump, start, tunnel,
                 record, left>>

-----------------------------------------------------------------------------
(* A tunnel start: check_start_barrier and all that follows it run under   *)
(* the writer gate.                                                        *)

StartBegins ==
  /\ ChildOpen /\ start.pc = "idle" /\ latch.held = None
  /\ task["start"].pc = "idle" /\ ~tunnel
  /\ cache.value # None /\ Check(cache.value)
  /\ Spend("start")
  /\ start' = [pc |-> "access", cancelled |-> FALSE]
  /\ client' = [client EXCEPT !["start"] = Asked("access", "access", cache.value)]
  /\ task' = Submitted("start", "access", cache.value)
  /\ UNCHANGED <<broker, issuance, ready_gate, owner, wire, latch, controls, pump, cache, tunnel,
                 record>>

StartAccess ==
  /\ ChildOpen /\ start.pc = "access" /\ client["start"].pc = "reply"
  /\ cache' = CacheAfter(client["start"])
  /\ client' = Taken("start", NoCall)
  /\ start' = [start EXCEPT !.pc = IF client["start"].body = "Access" /\ Check(client["start"].got)
                                   THEN "save" ELSE "idle"]
  /\ UNCHANGED <<ownerVars, wire, latch, controls, pump, tunnel, record, left>>

(* The lease is saved before the tunnel comes up.                          *)
StartSaves ==
  /\ start.pc = "save"
  /\ record' = [record EXCEPT !.work = {"lease"}]
  /\ start' = [start EXCEPT !.pc = "native"]
  /\ UNCHANGED <<ownerVars, wire, latch, controls, pump, client, cache, tunnel, left>>

StartNative ==
  /\ start.pc = "native"
  /\ tunnel' = ~start.cancelled
  /\ start' = [pc |-> "idle", cancelled |-> FALSE]
  /\ UNCHANGED <<ownerVars, wire, latch, controls, pump, client, cache, record, left>>

-----------------------------------------------------------------------------
(* Either end closes on a lost peer, a deadline or a broken protocol.      *)

(* OwnerService: the operations of the channel are aborted, a login that   *)
(* was issued with an unknown outcome; a logout and a transition go on.    *)
Survives(c) == task[c].op = "logout" \/ c = "switch"

OwnerCloses ==
  /\ owner = "open"
  /\ IF pump.ended # None \/ task["switch"].pc = "resume" THEN UNCHANGED left ELSE Spend("close")
  /\ owner' = "closed"
  /\ wire' = IF ChildOpen THEN wire ELSE <<>>
  /\ task' = [c \in Workers |->
                IF ~Survives(c) THEN NoTask
                ELSE [task[c] EXCEPT !.peer = FALSE, !.leased = FALSE,
                                     !.ack = IF @ \in {"wait", "Prepared"} THEN "Closed" ELSE @]]
  /\ issuance' = IF issuance # None /\ ~Survives(issuance) THEN None ELSE issuance
  /\ ready_gate' = IF ready_gate # None /\ ~Survives(ready_gate) THEN None ELSE ready_gate
  /\ broker' = IF broker.phase = "Login" THEN [broker EXCEPT !.phase = "Unknown"] ELSE broker
  /\ UNCHANGED childVars

(* The pump's end: nothing is admitted any more, every call fails, and the *)
(* tunnel is stopped; the UI is told signed out only on evidence of it.    *)
ChildEnds(lost) ==
  /\ ChildOpen
  /\ IF lost THEN Spend("close")
     ELSE /\ \/ owner = "closed" /\ wire = <<>>
             \/ /\ wire # <<>> /\ Head(wire).k = "Grant"
                /\ ~Granted(Head(wire))
          /\ UNCHANGED left
  /\ pump' = [pump EXCEPT !.ended = IF pump.confirmed \/ pump.observed THEN "SignedOut" ELSE "Error"]
  /\ latch' = Closed
  /\ controls' = {}
  /\ client' = [c \in Callers |-> NoCall]
  /\ start' = [pc |-> "idle", cancelled |-> FALSE]
  /\ tunnel' = FALSE
  /\ wire' = <<>>
  /\ UNCHANGED <<ownerVars, cache, record>>

(* A new runtime process, with the durable record of the old.              *)
Relaunch ==
  /\ owner = "closed" /\ ~ChildOpen
  /\ Spend("launch")
  /\ owner' = "open"
  /\ pump' = NewPump
  /\ cache' = [value |-> None, retired |-> None]
  /\ UNCHANGED <<broker, issuance, ready_gate, task, wire, latch, controls, client, start, tunnel,
                 record>>

-----------------------------------------------------------------------------
OwnerSteps ==
  \/ OwnerState \/ OwnerStateReply
  \/ OwnerAccess \/ OwnerToken \/ OwnerRefresh \/ OwnerAccessReply
  \/ OwnerBackground \/ OwnerValidate \/ OwnerStatus \/ OwnerNative \/ OwnerDispatched("ok") \/ OwnerGrant
  \/ OwnerLogin \/ OwnerIssue \/ OwnerPost \/ OwnerLoggedIn
  \/ OwnerLogout \/ OwnerStopped \/ OwnerLoggedOut(TRUE)
  \/ OwnerReady \/ OwnerStop \/ OwnerErase \/ OwnerErased \/ OwnerStartup(TRUE)
  \/ OwnerAdmit \/ OwnerBind
  \/ SwitchHandoff \/ SwitchStops \/ SwitchMoves \/ SwitchResumes
  \/ SwitchCompletes \/ SwitchCleans

ChildSteps ==
  \/ PumpPrepare \/ PrepareBegins \/ Prepared
  \/ PumpCommit \/ PumpGrant \/ PumpAbort \/ PumpRevoke \/ PumpCheck
  \/ PumpSnapshot \/ PumpCleanup \/ PumpErase
  \/ PumpStop \/ StopRuns(TRUE) \/ PumpResponse
  \/ \E c \in Callers : ClientReply(c)
  \/ StartAccess \/ StartSaves \/ StartNative

Faults ==
  \/ \E outcome \in {"refused", "unavailable", "unknown"} : OwnerDispatched(outcome)
  \/ OwnerLoginFails("rejected") \/ OwnerLoginFails("lost")
  \/ OwnerLoggedOut(FALSE) \/ OwnerStartup(FALSE)
  \/ StopRuns(FALSE) \/ Expires
  \/ ChildEnds(TRUE)

Next ==
  \/ OwnerSteps \/ ChildSteps \/ Faults
  \/ OwnerCloses \/ ChildEnds(FALSE) \/ Relaunch
  \/ SwitchBegin \/ StartBegins
  \/ \E c \in Callers : \E op \in OpsOf(c) : Invoke(c, op)

Spec == Init /\ [][Next]_vars

(* Both processes keep running their tasks, and an end whose peer is gone  *)
(* notices.  No deadline is needed for a call to end.                      *)
FairSpec ==
  /\ Spec
  /\ WF_vars(OwnerSteps) /\ WF_vars(ChildSteps)
  /\ WF_vars(ChildEnds(FALSE)) /\ WF_vars(OwnerCloses /\ left' = left)

-----------------------------------------------------------------------------
(* The runtime works only for the session that is: the latch               *)
(* (ChildAdmission::check) is open to a scope only while it is the         *)
(* session's, or else the Revoke that closes it is already on its way,     *)
(* because the grant and the Revoke are both queued under the broker's     *)
(* lock; and once the runtime has seen its logout answered with Done that  *)
(* session is over in it for good: a delayed reply does not put its stamp  *)
(* back in the cache, the latch is closed to it and no tunnel runs for it. *)
AdmittedIsCurrent ==
  /\ ChildOpen /\ owner = "open" /\ latch.admitted # None
     => \/ SignedAs(latch.admitted)
        \/ \E i \in DOMAIN wire : wire[i].k = "Revoke"
  /\ cache.retired # None
     => /\ cache.value # cache.retired
        /\ latch.admitted # cache.retired
        /\ ~(tunnel /\ record.scope = cache.retired)

(* A runtime whose channel breaks shows its user as signed out             *)
(* (stop_local instead of stop_local_on_disconnect at the pump's end) only *)
(* if the session it was granted is over, and on the evidence of a State   *)
(* reply alone only if there is no session.                                *)
SignedOutIsReal ==
  [][ChildOpen /\ pump'.ended = "SignedOut"
       => /\ pump.granted # None => ~SignedAs(pump.granted)
          /\ ~pump.confirmed => ~Signed]_vars

(* Work in the runtime record (a lease the server must release) is erased  *)
(* only with the tunnel down and only for the session whose logout the     *)
(* server confirmed, or as the exact record a transition froze             *)
(* (complete_logout, complete_cleanup).                                    *)
ErasedWorkIsStopped ==
  [][record.work # {} /\ record'.work = {}
       => ~tunnel /\ (broker.receipt = record.scope \/ broker.frozen = record)]_vars

Waits == \E c \in Callers : client[c].pc # "idle"

(* The runtime's calls all end, without help from a deadline: the writer   *)
(* gate, the lease, the issuance lock and the ready gate are never waited  *)
(* for in a circle by the two processes.                                   *)
EveryCallEnds == Waits ~> ~Waits
=============================================================================
