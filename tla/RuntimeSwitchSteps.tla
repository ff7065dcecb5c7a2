-------------------------- MODULE RuntimeSwitchSteps -------------------------
(***************************************************************************)
(* Towards RuntimeSwitchProofs: the inductive invariant of the switch, the *)
(* facts about its operators, and the steps of a request until the panel   *)
(* has decided it.                                                         *)
(***************************************************************************)
EXTENDS RuntimeSwitch, TLAPS

-----------------------------------------------------------------------------
(* The inductive invariant.                                                *)

Hosts ==
  [up : {"down", "stored", "up"}, cv : Containers, slot : Slots, required : BOOLEAN,
   satisfied : BOOLEAN, ready : BOOLEAN, admitted : Scopes \cup {None}]

Types ==
  /\ TypeOK
  /\ host \in Hosts
  /\ gate \in {"free", "switch", "start"}
  /\ starter \in {"none", "checked", "starting"}
  /\ tunnel \in BOOLEAN
  /\ installer \in Containers \cup {0}
  /\ nops \in 0 .. MaxOps

(* What the protected record holds besides its types: a pending resume is  *)
(* of the session's generation and has its authority, only a session has a *)
(* pending ticket, and a logout leaves room for the next epoch.            *)
Pending(a) ==
  /\ a.pend \in Resumes => a.pend.gen = a.gen /\ Holds(a, a.pend.of)
  /\ ~Active(a) => a.pend = None /\ a.epoch + 1 <= MaxEpoch

StopPcs == {"stop", "halt", "stopped"}
ServerPcs ==
  {"server", "capture", "intent", "refreshed", "reconciled", "decide", "supersede", "superseded",
   "successor"}
ResumePcs ==
  {"acknowledge", "clear", "resume", "resumed", "compare", "advance", "bind", "release", "select",
   "complete"}

(* A journal whose resume is prepared names it and its decision.           *)
Prepared(j) == j # None /\ j.phase = "AuthResuming" => j.rid # 0 /\ j.dec # None

(* Where the holder of the mutex is, the journal is in the phase its step  *)
(* works in: nobody else writes it.                                        *)
Placed ==
  /\ task.pc \in StopPcs => Busy
  /\ task.pc \in ServerPcs => journal # None /\ journal.phase = "ServerReconciling"
  /\ task.pc \in ResumePcs => journal # None /\ journal.phase = "AuthResuming"
  /\ Prepared(journal)

(* What a step finds in the task and in the record, from the steps before. *)
Carried ==
  /\ task.pc \in {"handoff", "requested"} => task.src # None
  /\ task.pc = "requested" => task.snap # None
  /\ task.pc \in {"intent", "refreshed"} => Holds(auth, journal.req.op)
  /\ task.pc \in {"supersede", "superseded", "successor"} => journal.sup # 0 /\ journal.suptgt # None
  /\ task.pc = "superseded" => task.wire # None /\ task.wire.kind = "supersede"
  /\ task.pc = "resumed" => task.wire # None /\ task.wire.kind \in {"resume", "replay"}
  /\ task.pc = "advance" => task.next # None
  /\ task.pc \in {"bind", "release"} => task.scope # None
  /\ task.pc \in {"undo", "restore"} \/ task.kind = "undo" => upd # None

(* A booted container has the record of the runtime it runs.               *)
Stored == host.up # "down" => rt[RecordOf(Here)] # None

(* No tunnel runs or starts once its runtime is recorded as stopped: the   *)
(* barrier refuses a start while the switch is under way, and a stop that  *)
(* had to be forced has cancelled the start in flight.                     *)
Silent == ~tunnel /\ starter # "starting"

Stilled ==
  /\ Busy /\ journal.phase \in Stopped => Silent
  /\ task.pc = "stopped" => Silent
  /\ Busy /\ journal.force => starter # "starting"

SwInv == Types /\ Pending(auth) /\ Placed /\ Carried /\ Stored /\ Stilled

-----------------------------------------------------------------------------
(* The step of Handover that a step of the switch has to be, or none.      *)
HStep == [H!Next]_(H!vars)

(* The session of the protected record stays what it is.                   *)
SameSession(a, b) ==
  b.state = a.state /\ b.epoch = a.epoch /\ b.tgt = a.tgt /\ b.gen = a.gen

(* A step that keeps the session and starts no tunnel is a stop or         *)
(* nothing to Handover: most steps of the switch are.                      *)
LEMMA Invisible ==
  ASSUME SameSession(auth, auth'),
         tunnel' \/ starter' = "starting" => tunnel \/ starter = "starting"
  PROVE  HStep
<1>1. Active(auth)' = Active(auth) /\ Scope(auth)' = Scope(auth) /\ auth'.epoch = auth.epoch
  BY DEF SameSession, Active, Scope
<1> DEFINE run == tunnel \/ starter = "starting"
<1> DEFINE ses == IF Active(auth) THEN Scope(auth) ELSE None
<1>2. ses' = ses
  BY <1>1
<1>3. CASE run' = run
  BY <1>1, <1>2, <1>3 DEF HStep, H!vars
<1>4. CASE run' # run
  <2>1. run /\ ~run'
    BY <1>4
  <2> QED
    BY <1>1, <1>2, <2>1 DEF HStep, H!Next, H!Stop
<1> QED
  BY <1>3, <1>4

-----------------------------------------------------------------------------
(* What the operators of TransitionBroker return.                          *)

(* The authority of an operation is one of the record's.                   *)
LEMMA AuthorityFacts ==
  ASSUME NEW a \in AuthRecords, NEW op, Holds(a, op)
  PROVE  /\ Authority(a, op) \in a.auths
         /\ Authority(a, op) \in Authorities
         /\ Authority(a, op).req.op = op
<1>1. a.auths \subseteq Authorities
  BY DEF AuthRecords
<1> QED
  BY <1>1 DEF Authority, Holds

(* Replacing or adding one authority keeps the session, the tickets and    *)
(* every other authority.                                                  *)
LEMMA WithAuthorityFacts ==
  ASSUME NEW a \in AuthRecords, NEW e \in Authorities
  PROVE  /\ WithAuthority(a, e) \in AuthRecords
         /\ SameSession(a, WithAuthority(a, e))
         /\ WithAuthority(a, e).pend = a.pend
         /\ \A op : Holds(a, op) => Holds(WithAuthority(a, e), op)
<1> DEFINE s == {f \in a.auths : f.req.op # e.req.op} \cup {e}
<1>1. s \in SUBSET Authorities
  BY DEF AuthRecords
<1>2. \A op : Holds(a, op) => \E f \in s : f.req.op = op
  BY DEF Holds
<1>3. WithAuthority(a, e) = [a EXCEPT !.auths = s]
  BY DEF WithAuthority
<1> HIDE DEF s
<1>4. [a EXCEPT !.auths = s] \in AuthRecords
  BY <1>1 DEF AuthRecords
<1>5. [a EXCEPT !.auths = s].auths = s
  BY DEF AuthRecords
<1>6. SameSession(a, [a EXCEPT !.auths = s]) /\ [a EXCEPT !.auths = s].pend = a.pend
  BY DEF SameSession, AuthRecords
<1> QED
  BY <1>2, <1>3, <1>4, <1>5, <1>6 DEF Holds

(* The same for the new disposition and receipt of an authority.           *)
LEMMA SetAuthorityFacts ==
  ASSUME NEW a \in AuthRecords, NEW op, Holds(a, op),
         NEW d \in {"captured", "intent", "unknown", "rejected", "known"},
         NEW r \in {"none", "retry", "clean"}
  PROVE  /\ SetAuthority(a, op, d, r) \in AuthRecords
         /\ SameSession(a, SetAuthority(a, op, d, r))
         /\ SetAuthority(a, op, d, r).pend = a.pend
         /\ \A o : Holds(a, o) => Holds(SetAuthority(a, op, d, r), o)
<1> DEFINE f == Authority(a, op)
<1> DEFINE e == [f EXCEPT !.disp = d, !.rcpt = r]
<1>1. f \in Authorities
  BY AuthorityFacts
<1> HIDE DEF f
<1>2. e \in Authorities
  BY <1>1 DEF Authorities
<1>3. SetAuthority(a, op, d, r) = WithAuthority(a, e)
  BY DEF SetAuthority, f
<1> HIDE DEF e
<1> QED
  BY <1>2, <1>3, WithAuthorityFacts

(* A save that keeps the session, the ticket and the authorities keeps     *)
(* what the invariant says of the ticket.                                  *)
LEMMA TicketKept ==
  ASSUME NEW a, NEW b, Pending(a), SameSession(a, b), b.pend = a.pend,
         \A op : Holds(a, op) => Holds(b, op)
  PROVE  Pending(b)
  BY DEF Pending, SameSession, Active

(* A new authority of a frozen request is well formed.                     *)
LEMMA NewAuthorityType ==
  ASSUME NEW req \in Requests,
         NEW d \in {"captured", "intent", "unknown", "rejected", "known"},
         NEW r \in {"none", "retry", "clean"}
  PROVE  /\ NewAuthority(req, d, r) \in Authorities
         /\ NewAuthority(req, d, r).req = req
<1>1. 0 \in 0 .. MaxOps
  BY SwitchAssumption
<1> DEFINE f == FALSE
<1>2. f \in BOOLEAN /\ NewAuthority(req, d, r) =
        [req |-> req, by |-> 0, disp |-> d, rcpt |-> r, ticket |-> None, ev |-> f]
  BY DEF NewAuthority
<1> HIDE DEF f
<1> QED
  BY <1>1, <1>2 DEF Authorities

(* A capture adds the authority of the request.                            *)
LEMMA CaptureFacts ==
  ASSUME NEW a \in AuthRecords, NEW req \in Requests
  PROVE  /\ Capture(a, req) \in AuthRecords
         /\ SameSession(a, Capture(a, req))
         /\ Capture(a, req).pend = a.pend
         /\ \A op : Holds(a, op) => Holds(Capture(a, req), op)
         /\ Holds(Capture(a, req), req.op)
<1> DEFINE e == NewAuthority(req, "captured", "none")
<1> DEFINE s == a.auths \cup {e}
<1>1. e \in Authorities /\ e.req = req
  BY NewAuthorityType
<1>2. Capture(a, req) = [a EXCEPT !.auths = s]
  BY DEF Capture
<1> HIDE DEF e
<1>3. s \in SUBSET Authorities
  BY <1>1 DEF AuthRecords
<1>4. /\ \A op : Holds(a, op) => \E f \in s : f.req.op = op
      /\ \E f \in s : f.req.op = req.op
  BY <1>1 DEF Holds
<1> HIDE DEF s
<1>5. [a EXCEPT !.auths = s] \in AuthRecords
  BY <1>3 DEF AuthRecords
<1>6. /\ [a EXCEPT !.auths = s].auths = s
      /\ [a EXCEPT !.auths = s].pend = a.pend
      /\ SameSession(a, [a EXCEPT !.auths = s])
  BY DEF SameSession, AuthRecords
<1> QED
  BY <1>2, <1>4, <1>5, <1>6 DEF Holds

(* Retiring keeps the session and the ticket, and nothing is retired while *)
(* a ticket is pending.                                                    *)
LEMMA RetireFacts ==
  ASSUME NEW a \in AuthRecords, NEW op, NEW active, Pending(a)
  PROVE  /\ Retire(a, op, active) \in AuthRecords
         /\ SameSession(a, Retire(a, op, active))
         /\ Pending(Retire(a, op, active))
<1>1. CASE Retire(a, op, active) = a
  BY <1>1 DEF SameSession
<1>2. CASE Retire(a, op, active) # a
  <2> DEFINE s == {e \in a.auths : e.req.op \in Retained(a, op, active)}
  <2>1. a.pend = None /\ Retire(a, op, active) = [a EXCEPT !.auths = s]
    BY <1>2 DEF Retire
  <2>2. s \in SUBSET Authorities
    BY DEF AuthRecords
  <2> HIDE DEF s
  <2>3. [a EXCEPT !.auths = s] \in AuthRecords
    BY <2>2 DEF AuthRecords
  <2>4. SameSession(a, [a EXCEPT !.auths = s]) /\ [a EXCEPT !.auths = s].pend = None
    BY <2>1 DEF SameSession, AuthRecords
  <2>5. Pending([a EXCEPT !.auths = s])
    BY <2>1, <2>4, SwitchAssumption DEF Pending, SameSession, Active
  <2> QED
    BY <2>1, <2>3, <2>4, <2>5
<1> QED
  BY <1>1, <1>2

(* The clean answer to a supersede links and adds authorities only.        *)
LEMMA SupersededFacts ==
  ASSUME NEW a \in AuthRecords, NEW succ \in Ops, a.sup \in Supersedes
  PROVE  /\ Superseded(a, succ) \in AuthRecords
         /\ SameSession(a, Superseded(a, succ))
         /\ Superseded(a, succ).pend = a.pend
         /\ \A op : Holds(a, op) => Holds(Superseded(a, succ), op)
<1> DEFINE req == [op |-> succ, src |-> Scope(a), tgt |-> a.sup.tgt]
<1> DEFINE n == NewAuthority(req, "known", "clean")
<1> DEFINE link(e) == IF e.req.op = a.sup.of THEN [e EXCEPT !.by = succ] ELSE e
<1> DEFINE s == {link(e) : e \in a.auths} \cup {n}
<1> DEFINE p == [a.sup EXCEPT !.resp = "clean"]
<1>1. Superseded(a, succ) = [a EXCEPT !.sup = p, !.auths = s]
  BY DEF Superseded, AuthRecords
<1>2. req \in Requests
  BY DEF Requests, Scope, Scopes, AuthRecords, Supersedes
<1>3. n \in Authorities
  BY <1>2, NewAuthorityType
<1>4. succ \in 0 .. MaxOps
  BY SwitchAssumption DEF Ops
<1>5. \A e \in a.auths : link(e) \in Authorities /\ link(e).req = e.req
  <2> TAKE e \in a.auths
  <2>1. e \in Authorities
    BY DEF AuthRecords
  <2>2. [e EXCEPT !.by = succ] \in Authorities /\ [e EXCEPT !.by = succ].req = e.req
    BY <1>4, <2>1 DEF Authorities
  <2> QED
    BY <2>1, <2>2
<1>6. p \in Supersedes
  BY DEF Supersedes
<1> HIDE DEF n, link, p
<1>7. s \in SUBSET Authorities
  BY <1>3, <1>5
<1>8. \A op : Holds(a, op) => \E f \in s : f.req.op = op
  BY <1>5 DEF Holds
<1> HIDE DEF s
<1>9. [a EXCEPT !.sup = p, !.auths = s] \in AuthRecords
  BY <1>6, <1>7 DEF AuthRecords
<1>10. /\ [a EXCEPT !.sup = p, !.auths = s].auths = s
       /\ [a EXCEPT !.sup = p, !.auths = s].pend = a.pend
       /\ SameSession(a, [a EXCEPT !.sup = p, !.auths = s])
  BY DEF SameSession, AuthRecords
<1> QED
  BY <1>1, <1>8, <1>9, <1>10 DEF Holds

(* The one save that installs the answer of a resume: the session is at    *)
(* the ticket's target, one generation on, with no ticket.                 *)
LEMMA ResumedFacts ==
  ASSUME NEW a \in AuthRecords, NEW t \in Resumes, Holds(a, t.of), Active(a)
  PROVE  /\ Resumed(a, t) \in AuthRecords
         /\ Resumed(a, t).state = a.state /\ Resumed(a, t).epoch = a.epoch
         /\ Resumed(a, t).tgt = t.tgt /\ Resumed(a, t).gen = t.gen + 1
         /\ Pending(Resumed(a, t))
<1> DEFINE g == t.gen + 1
<1> DEFINE sc == [epoch |-> a.epoch, tgt |-> t.tgt, gen |-> g]
<1> DEFINE d == [ticket |-> t, scope |-> sc]
<1> DEFINE b == [a EXCEPT !.tgt = t.tgt, !.gen = g, !.pend = None, !.done = d]
<1> DEFINE f == Authority(a, t.of)
<1> DEFINE e == [f EXCEPT !.ticket = t, !.ev = TRUE]
<1>1. Resumed(a, t) = WithAuthority(b, e)
  BY DEF Resumed
<1>2. g \in Nat /\ t.tgt \in Targets
  BY DEF Resumes
<1> HIDE DEF g
<1>3. sc \in Scopes
  BY <1>2 DEF Scopes, AuthRecords
<1> HIDE DEF sc
<1>4. d \in [ticket : Resumes, scope : Scopes]
  BY <1>3
<1> HIDE DEF d
<1>5. b \in AuthRecords
  BY <1>2, <1>4 DEF AuthRecords
<1>6. b.state = a.state /\ b.epoch = a.epoch /\ b.tgt = t.tgt /\ b.gen = g /\ b.pend = None
  BY DEF AuthRecords
<1> HIDE DEF b
<1>7. f \in Authorities
  BY AuthorityFacts
<1> HIDE DEF f
<1>8. e \in Authorities
  BY <1>7 DEF Authorities
<1> HIDE DEF e
<1>9. /\ WithAuthority(b, e) \in AuthRecords
      /\ SameSession(b, WithAuthority(b, e))
      /\ WithAuthority(b, e).pend = None
  BY <1>5, <1>6, <1>8, WithAuthorityFacts
<1>10. Pending(WithAuthority(b, e))
  BY <1>6, <1>9, SwitchAssumption DEF Pending, SameSession, Active
<1> QED
  BY <1>1, <1>6, <1>9, <1>10 DEF SameSession, g

(* The fence of a logout: the next epoch, no ticket, the receipt.          *)
LEMMA LogoutFenceFacts ==
  ASSUME NEW a \in AuthRecords, a.epoch + 2 <= MaxEpoch
  PROVE  /\ LogoutFence(a) \in AuthRecords
         /\ LogoutFence(a).state = "Pending" /\ LogoutFence(a).epoch = a.epoch + 1
         /\ Pending(LogoutFence(a))
         /\ \A op : Holds(a, op) => Holds(LogoutFence(a), op)
<1> DEFINE n == a.epoch + 1
<1> DEFINE sc == Scope(a)
<1> DEFINE b == [a EXCEPT !.state = "Pending", !.epoch = n, !.pend = None, !.receipt = sc]
<1>1. n \in 0 .. MaxEpoch /\ n + 1 <= MaxEpoch
  BY SwitchAssumption DEF AuthRecords
<1>2. sc \in Scopes
  BY DEF Scope, Scopes, AuthRecords
<1>3. LogoutFence(a) = IF a.pend \in {None, Refreshing} \/ ~Holds(a, a.pend.of) THEN b
        ELSE WithAuthority(b, [Authority(a, a.pend.of) EXCEPT !.ticket = a.pend])
  BY DEF LogoutFence, AuthRecords
<1> HIDE DEF sc, n
<1>4. b \in AuthRecords
  BY <1>1, <1>2 DEF AuthRecords
<1>5. b.state = "Pending" /\ b.epoch = n /\ b.pend = None /\ b.auths = a.auths
  BY DEF AuthRecords
<1> HIDE DEF b
<1>6. \A op : Holds(a, op) => Holds(b, op)
  BY <1>5 DEF Holds
<1>7. CASE a.pend \in {None, Refreshing} \/ ~Holds(a, a.pend.of)
  BY <1>1, <1>3, <1>4, <1>5, <1>6, <1>7, SwitchAssumption DEF Pending, Active, n
<1>8. CASE ~(a.pend \in {None, Refreshing} \/ ~Holds(a, a.pend.of))
  <2> DEFINE f == Authority(a, a.pend.of)
  <2> DEFINE e == [f EXCEPT !.ticket = a.pend]
  <2>1. a.pend \in Resumes
    BY <1>8 DEF AuthRecords
  <2>2. f \in Authorities
    BY <1>8, AuthorityFacts
  <2>3. LogoutFence(a) = WithAuthority(b, e)
    BY <1>3, <1>8
  <2> HIDE DEF f
  <2>4. e \in Authorities
    BY <2>1, <2>2 DEF Authorities
  <2> HIDE DEF e
  <2>5. /\ WithAuthority(b, e) \in AuthRecords
        /\ SameSession(b, WithAuthority(b, e))
        /\ WithAuthority(b, e).pend = None
        /\ \A op : Holds(b, op) => Holds(WithAuthority(b, e), op)
    BY <1>4, <1>5, <2>4, WithAuthorityFacts
  <2>6. Pending(WithAuthority(b, e))
    BY <1>1, <1>5, <2>5, SwitchAssumption DEF Pending, SameSession, Active
  <2> QED
    BY <1>5, <1>6, <2>3, <2>5, <2>6 DEF SameSession, n
<1> QED
  BY <1>7, <1>8

(* The end of a logout leaves the epoch and has no ticket.                 *)
LEMMA LogoutDoneFacts ==
  ASSUME NEW a \in AuthRecords, Pending(a), a.state = "Pending"
  PROVE  /\ LogoutDone(a) \in AuthRecords
         /\ LogoutDone(a).state = "LoggedOut" /\ LogoutDone(a).epoch = a.epoch
         /\ Pending(LogoutDone(a))
         /\ \A op : Holds(a, op) => Holds(LogoutDone(a), op)
<1> DEFINE b == [a EXCEPT !.state = "LoggedOut", !.done = None]
<1>1. b \in AuthRecords
  BY DEF AuthRecords
<1>2. b.state = "LoggedOut" /\ b.epoch = a.epoch /\ b.pend = a.pend /\ b.auths = a.auths
  BY DEF AuthRecords
<1>3. LogoutDone(a) = b
  BY DEF LogoutDone
<1> HIDE DEF b
<1>4. Pending(b)
  BY <1>2, SwitchAssumption DEF Pending, Active
<1> QED
  BY <1>1, <1>2, <1>3, <1>4 DEF Holds

(* Writing the ticket of a resume, a refresh, or none.                     *)
LEMMA PendFacts ==
  ASSUME NEW a \in AuthRecords, NEW p \in Resumes \cup {None, Refreshing}
  PROVE  /\ [a EXCEPT !.pend = p] \in AuthRecords
         /\ SameSession(a, [a EXCEPT !.pend = p])
         /\ [a EXCEPT !.pend = p].pend = p
         /\ \A op : Holds(a, op) => Holds([a EXCEPT !.pend = p], op)
<1>1. [a EXCEPT !.pend = p] \in AuthRecords
  BY DEF AuthRecords
<1>2. /\ SameSession(a, [a EXCEPT !.pend = p])
      /\ [a EXCEPT !.pend = p].pend = p
      /\ [a EXCEPT !.pend = p].auths = a.auths
  BY DEF SameSession, AuthRecords
<1> QED
  BY <1>1, <1>2 DEF Holds

(* Writing the supersede ticket.                                           *)
LEMMA SupFacts ==
  ASSUME NEW a \in AuthRecords, NEW s \in Supersedes \cup {None}
  PROVE  /\ [a EXCEPT !.sup = s] \in AuthRecords
         /\ SameSession(a, [a EXCEPT !.sup = s])
         /\ [a EXCEPT !.sup = s].pend = a.pend
         /\ \A op : Holds(a, op) => Holds([a EXCEPT !.sup = s], op)
<1>1. [a EXCEPT !.sup = s] \in AuthRecords
  BY DEF AuthRecords
<1>2. /\ SameSession(a, [a EXCEPT !.sup = s])
      /\ [a EXCEPT !.sup = s].pend = a.pend
      /\ [a EXCEPT !.sup = s].auths = a.auths
  BY DEF SameSession, AuthRecords
<1> QED
  BY <1>1, <1>2 DEF Holds

-----------------------------------------------------------------------------
(* The task, the journal and the frames of a step.                         *)

(* Moving the task to a step.                                              *)
LEMMA GoFacts ==
  ASSUME task \in Tasks, NEW pc \in Pcs, Go(pc)
  PROVE  /\ task' \in Tasks
         /\ task'.pc = pc /\ task'.wire = None /\ task'.got = None
         /\ task'.kind = task.kind /\ task'.slot = task.slot /\ task'.src = task.src
         /\ task'.snap = task.snap /\ task'.scope = task.scope /\ task'.next = task.next
<1>1. task' = [task EXCEPT !.pc = pc, !.wire = None, !.got = None]
  BY DEF Go
<1>2. [task EXCEPT !.pc = pc, !.wire = None, !.got = None] \in Tasks
  BY DEF Tasks
<1> QED
  BY <1>1, <1>2 DEF Tasks

(* A call that takes the mutex, and the end of one.                        *)
LEMMA CallFacts ==
  ASSUME NEW k \in Kinds, NEW pc \in Pcs, NEW s \in Slots
  PROVE  /\ [Idle EXCEPT !.kind = k, !.pc = pc, !.slot = s] \in Tasks
         /\ [Idle EXCEPT !.kind = k, !.pc = pc, !.slot = s].kind = k
         /\ [Idle EXCEPT !.kind = k, !.pc = pc, !.slot = s].pc = pc
         /\ Idle \in Tasks
<1>1. "none" \in Kinds /\ "idle" \in Pcs /\ "latest" \in Slots
  BY SwitchAssumption DEF Kinds, Pcs
<1>2. Idle \in Tasks
  BY <1>1 DEF Idle, Tasks
<1> QED
  BY <1>2 DEF Tasks

LEMMA IdleFacts ==
  /\ Idle \in Tasks /\ Idle.pc = "idle" /\ Idle.kind = "none"
  /\ [Idle EXCEPT !.kind = "restart", !.pc = "relaunch"] \in Tasks
  /\ [Idle EXCEPT !.kind = "restart", !.pc = "relaunch"].pc = "relaunch"
  /\ [Idle EXCEPT !.kind = "restart", !.pc = "relaunch"].kind = "restart"
<1>1. "restart" \in Kinds /\ "relaunch" \in Pcs /\ "latest" \in Slots
  BY SwitchAssumption DEF Kinds, Pcs
<1>2. Idle \in Tasks
  BY <1>1, CallFacts
<1>3. Idle.pc = "idle" /\ Idle.kind = "none"
  BY DEF Idle
<1> QED
  BY <1>1, <1>2, <1>3 DEF Tasks

Plain == {"idle", "begin", "source", "loop", "relaunch", "finish", "erase", "retire", "discharge"}

(* A step at which the invariant asks nothing of the journal.              *)
LEMMA PlainFits ==
  ASSUME Prepared(journal'), task'.pc \in Plain, task'.kind = "undo" => upd' # None
  PROVE  Placed' /\ Carried' /\ task'.pc # "stopped"
  BY DEF Placed, Carried, Plain, StopPcs, ServerPcs, ResumePcs

(* Nothing but the task, and the events still to come, moves.              *)
LEMMA QuietMoves ==
  ASSUME SwInv, Quiet, task' \in Tasks, Placed', Carried', task'.pc # "stopped"
  PROVE  SwInv' /\ HStep
<1>1. /\ installed' = installed /\ sel' = sel /\ journal' = journal /\ upd' = upd
      /\ auth' = auth /\ rt' = rt /\ host' = host /\ starter' = starter /\ tunnel' = tunnel
      /\ installer' = installer /\ gate' = gate /\ panel' = panel /\ net' = net /\ nops' = nops
  BY DEF durable, Quiet, Keep, server
<1>2. Types'
  BY <1>1 DEF SwInv, Types, TypeOK
<1>3. Pending(auth)' /\ Stored'
  BY <1>1 DEF SwInv, Pending, Holds, Active, Stored, RecordOf, Here
<1>4. Stilled'
  BY <1>1 DEF SwInv, Stilled, Busy, Silent
<1>5. HStep
  BY <1>1, Invisible DEF SameSession
<1> QED
  BY <1>2, <1>3, <1>4, <1>5 DEF SwInv

LEMMA TaskMoves ==
  ASSUME SwInv, UNCHANGED durable, Local, task' \in Tasks,
         Placed', Carried', task'.pc # "stopped"
  PROVE  SwInv' /\ HStep
<1>1. Quiet
  BY DEF Quiet, Local
<1> QED
  BY <1>1, QuietMoves

(* The journal is written, and ids may be drawn.                           *)
LEMMA JournalWritten ==
  ASSUME SwInv, NEW j \in Journals, Write(j), Keep, UNCHANGED server,
         gate' \in {"free", "switch", "start"}, nops' \in 0 .. MaxOps, task' \in Tasks,
         Placed', Carried', task'.pc # "stopped",
         j.phase \in Stopped => Silent,
         j.phase # "Complete" /\ j.force => starter # "starting"
  PROVE  SwInv' /\ HStep
<1>1. /\ installed' = installed /\ sel' = sel /\ journal' = j /\ upd' = upd
      /\ auth' = auth /\ rt' = rt /\ host' = host /\ starter' = starter /\ tunnel' = tunnel
      /\ installer' = installer /\ panel' = panel /\ net' = net
  BY DEF Write, Keep, server
<1>2. Types'
  BY <1>1 DEF SwInv, Types, TypeOK
<1>3. Pending(auth)' /\ Stored'
  BY <1>1 DEF SwInv, Pending, Holds, Active, Stored, RecordOf, Here
<1>4. Stilled'
  BY <1>1 DEF Stilled, Busy, Silent
<1>5. HStep
  BY <1>1, Invisible DEF SameSession
<1> QED
  BY <1>2, <1>3, <1>4, <1>5 DEF SwInv

(* The protected record is saved, and a request may be sent.               *)
LEMMA RecordSavedKeeps ==
  ASSUME SwInv, NEW a \in AuthRecords, Save(a), Pending(a), Keep,
         gate' = gate, nops' \in 0 .. MaxOps, panel' = panel, net' \subseteq Wires,
         task' \in Tasks, Placed', Carried', task'.pc # "stopped"
  PROVE  SwInv'
<1>1. /\ installed' = installed /\ sel' = sel /\ journal' = journal /\ upd' = upd
      /\ auth' = a /\ rt' = rt /\ host' = host /\ starter' = starter /\ tunnel' = tunnel
      /\ installer' = installer
  BY DEF Save, Keep
<1>2. Types'
  BY <1>1 DEF SwInv, Types, TypeOK
<1>3. Pending(auth)' /\ Stored'
  BY <1>1 DEF SwInv, Pending, Holds, Active, Stored, RecordOf, Here
<1>4. Stilled'
  BY <1>1 DEF SwInv, Stilled, Busy, Silent
<1> QED
  BY <1>2, <1>3, <1>4 DEF SwInv

LEMMA RecordSaved ==
  ASSUME SwInv, NEW a \in AuthRecords, Save(a), Pending(a), SameSession(auth, a), Keep,
         gate' = gate, nops' \in 0 .. MaxOps, panel' = panel, net' \subseteq Wires,
         task' \in Tasks, Placed', Carried', task'.pc # "stopped"
  PROVE  SwInv' /\ HStep
<1>1. auth' = a /\ starter' = starter /\ tunnel' = tunnel
  BY DEF Save, Keep
<1>2. HStep
  BY <1>1, Invisible
<1> QED
  BY <1>2, RecordSavedKeeps

(* The call ends with an error, whatever its last step has saved.          *)
LEMMA Leaves ==
  ASSUME SwInv, Leave, auth' \in AuthRecords, Pending(auth'), SameSession(auth, auth'),
         host' \in Hosts, host'.up = host.up, host'.cv = host.cv, host'.slot = host.slot,
         UNCHANGED <<starter, tunnel, installer, server, nops>>
  PROVE  SwInv' /\ HStep
<1>1. /\ installed' = installed /\ sel' = sel /\ journal' = journal /\ rt' = rt
      /\ starter' = starter /\ tunnel' = tunnel
      /\ installer' = installer /\ panel' = panel /\ net' = net /\ nops' = nops
  BY DEF Leave, server
<1>2. task' \in Tasks /\ task'.pc \in Plain /\ task'.kind # "undo"
  BY IdleFacts DEF Leave, Plain
<1>3. upd' \in UpdateJournals \cup {None} /\ gate' \in {"free", "switch", "start"}
  BY DEF Leave, SwInv, Types, TypeOK
<1>4. Types'
  BY <1>1, <1>2, <1>3 DEF SwInv, Types, TypeOK
<1>5. Placed' /\ Carried' /\ task'.pc # "stopped"
  BY <1>1, <1>2, PlainFits DEF SwInv, Placed
<1>6. Pending(auth)' /\ Stored'
  BY <1>1 DEF SwInv, Pending, Holds, Active, Stored, RecordOf, Here
<1>7. Stilled'
  BY <1>1, <1>5 DEF SwInv, Stilled, Busy, Silent
<1>8. HStep
  BY <1>1, Invisible
<1> QED
  BY <1>4, <1>5, <1>6, <1>7, <1>8 DEF SwInv

LEMMA Fails ==
  ASSUME SwInv, Fail
  PROVE  SwInv' /\ HStep
<1>1. Leave /\ auth' = auth /\ UNCHANGED <<starter, tunnel, installer, server, nops>> /\ host' = host
  BY DEF Fail, Keep, server
<1>2. auth \in AuthRecords /\ Pending(auth) /\ host \in Hosts
  BY DEF SwInv, Types, TypeOK
<1> QED
  BY <1>1, <1>2, Leaves DEF SameSession

(* The types a step starts from.                                           *)
LEMMA Typed ==
  ASSUME SwInv
  PROVE  /\ installed \in Containers /\ sel \in Targets
         /\ journal \in Journals \cup {None} /\ upd \in UpdateJournals \cup {None}
         /\ auth \in AuthRecords /\ Pending(auth)
         /\ rt \in [Records -> RuntimeRecords \cup {None}]
         /\ task \in Tasks /\ panel \in Panels /\ net \subseteq Wires
         /\ host \in Hosts /\ gate \in {"free", "switch", "start"}
         /\ starter \in {"none", "checked", "starting"} /\ tunnel \in BOOLEAN
         /\ installer \in Containers \cup {0} /\ nops \in 0 .. MaxOps
  BY DEF SwInv, Types, TypeOK

LEMMA ScopeType ==
  ASSUME NEW a \in AuthRecords
  PROVE  Scope(a) \in Scopes /\ Scope(a) # None
<1>1. Scope(a) \in Scopes
  BY DEF Scope, Scopes, AuthRecords
<1> QED
  BY <1>1, SwitchAssumption

(* The host, the gate and the runtime records move with the task, in the   *)
(* same container.                                                         *)
LEMMA HostMoves ==
  ASSUME SwInv,
         UNCHANGED <<installed, sel, journal, upd, auth, starter, tunnel, installer, panel, net,
                     nops>>,
         rt' \in [Records -> RuntimeRecords \cup {None}],
         \A r \in Records : rt[r] # None => rt'[r] # None,
         host' \in Hosts, host'.up = host.up, host'.cv = host.cv, host'.slot = host.slot,
         gate' \in {"free", "switch", "start"}, task' \in Tasks,
         Placed', Carried', task'.pc # "stopped"
  PROVE  SwInv' /\ HStep
<1>1. Types'
  BY DEF SwInv, Types, TypeOK
<1>2. Here' = Here /\ RecordOf(Here) \in Records
  BY Typed DEF Here, RecordOf, Records, Hosts
<1>3. Pending(auth)' /\ Stored'
  BY <1>2 DEF SwInv, Pending, Holds, Active, Stored, RecordOf
<1>4. Stilled'
  BY DEF SwInv, Stilled, Busy, Silent
<1>5. HStep
  BY Invisible DEF SameSession
<1> QED
  BY <1>1, <1>3, <1>4, <1>5 DEF SwInv

(* The task goes on to a step that asks nothing.                           *)
LEMMA PlainGo ==
  ASSUME SwInv, NEW pc \in Plain, Go(pc), UNCHANGED durable, Local
  PROVE  SwInv' /\ HStep
<1>1. pc \in Pcs
  BY DEF Plain, Pcs
<1>2. task' \in Tasks /\ task'.pc = pc /\ task'.kind = task.kind
  BY <1>1, Typed, GoFacts
<1>3. journal' = journal /\ upd' = upd
  BY DEF durable
<1>4. Placed' /\ Carried' /\ task'.pc # "stopped"
  BY <1>2, <1>3, PlainFits DEF SwInv, Placed, Carried
<1> QED
  BY <1>2, <1>4, TaskMoves

(* A task that goes to the end of the recovery loop.                       *)
LEMMA ReadyStep ==
  ASSUME SwInv, Ready
  PROVE  SwInv' /\ HStep
<1>1. UNCHANGED durable /\ Local /\ journal' = journal /\ upd' = upd
  BY DEF Ready, durable
<1>2. task \in Tasks
  BY Typed
<1>3. CASE task' = Idle
  <2>1. Placed' /\ Carried' /\ task'.pc # "stopped"
    BY <1>1, <1>3, IdleFacts, PlainFits DEF SwInv, Placed, Plain
  <2> QED
    BY <1>1, <1>3, <2>1, IdleFacts, TaskMoves
<1>4. ASSUME NEW p \in {"relaunch", "begin", "finish"}, task' = [task EXCEPT !.pc = p]
      PROVE  SwInv' /\ HStep
  <2>1. p \in Pcs /\ p \in Plain
    BY <1>4 DEF Pcs, Plain
  <2>2. task' \in Tasks /\ task'.pc = p /\ task'.kind = task.kind
    BY <1>2, <1>4, <2>1 DEF Tasks
  <2>3. Placed' /\ Carried' /\ task'.pc # "stopped"
    BY <1>1, <2>1, <2>2, PlainFits DEF SwInv, Placed, Carried
  <2> QED
    BY <1>1, <2>2, <2>3, TaskMoves
<1>5. ASSUME task' = [task EXCEPT !.pc = "restore"], upd # None
      PROVE  SwInv' /\ HStep
  <2>1. "restore" \in Pcs
    BY DEF Pcs
  <2>2. task' \in Tasks /\ task'.pc = "restore" /\ task'.kind = task.kind
    BY <1>2, <1>5, <2>1 DEF Tasks
  <2>3. Placed' /\ Carried' /\ task'.pc # "stopped"
    BY <1>1, <1>5, <2>2 DEF SwInv, Placed, Carried, StopPcs, ServerPcs, ResumePcs
  <2> QED
    BY <1>1, <2>2, <2>3, TaskMoves
<1>6. \/ task' = Idle
      \/ \E p \in {"relaunch", "begin", "finish"} : task' = [task EXCEPT !.pc = p]
      \/ task' = [task EXCEPT !.pc = "restore"] /\ upd # None
  <2>1. task.kind = "undo" => upd # None
    BY DEF SwInv, Carried
  <2>2. UpdateStart = "cancel" => upd # None
    BY DEF UpdateStart
  <2> QED
    BY <2>1, <2>2 DEF Ready
<1> QED
  BY <1>3, <1>4, <1>5, <1>6

-----------------------------------------------------------------------------
(* request_locked and the stop.                                            *)

LEMMA BeginRequestStep ==
  ASSUME SwInv, BeginRequest
  PROVE  SwInv' /\ HStep
<1>1. CASE RequestAllowed
  <2> DEFINE p == IF task.kind = "update" /\ StopConfirmed /\ Busy THEN "finish" ELSE "source"
  <2>1. p \in Plain
    BY DEF Plain
  <2>2. Go(p) /\ UNCHANGED durable /\ Local
    BY <1>1 DEF BeginRequest
  <2> HIDE DEF p
  <2> QED
    BY <2>1, <2>2, PlainGo
<1>2. CASE ~RequestAllowed
  BY <1>2, Fails DEF BeginRequest
<1> QED
  BY <1>1, <1>2

LEMMA TransitionSourceStep ==
  ASSUME SwInv, TransitionSource
  PROVE  SwInv' /\ HStep
<1>1. CASE HasSource(auth)
  <2> DEFINE sc == Scope(auth)
  <2>1. sc \in Scopes /\ sc # None /\ task \in Tasks /\ "handoff" \in Pcs
    BY Typed, ScopeType DEF Pcs
  <2>2. /\ task' = [task EXCEPT !.pc = "handoff", !.src = sc]
        /\ UNCHANGED durable /\ Local /\ journal' = journal /\ upd' = upd
    BY <1>1 DEF TransitionSource, durable
  <2> HIDE DEF sc
  <2>3. task' \in Tasks /\ task'.pc = "handoff" /\ task'.kind = task.kind /\ task'.src = sc
    BY <2>1, <2>2 DEF Tasks
  <2>4. Placed' /\ Carried'
    BY <2>1, <2>2, <2>3 DEF SwInv, Placed, Carried, StopPcs, ServerPcs, ResumePcs
  <2> QED
    BY <2>2, <2>3, <2>4, TaskMoves
<1>2. CASE ~HasSource(auth)
  BY <1>2, Fails DEF TransitionSource
<1> QED
  BY <1>1, <1>2

(* Closing the admission keeps the rest of the host.                       *)
LEMMA AdmittedFacts ==
  ASSUME host \in Hosts, NEW s \in Scopes \cup {None}
  PROVE  /\ [host EXCEPT !.admitted = s] \in Hosts
         /\ [host EXCEPT !.admitted = s].up = host.up
         /\ [host EXCEPT !.admitted = s].cv = host.cv
         /\ [host EXCEPT !.admitted = s].slot = host.slot
  BY DEF Hosts

LEMMA HandoffCleanupStep ==
  ASSUME SwInv, HandoffCleanup
  PROVE  SwInv' /\ HStep
<1> DEFINE from == RecordOf(task.src.tgt)
<1> DEFINE froze == /\ Cardinality(Bound(task.src)) = 1
                    /\ from \in Bound(task.src)
                    /\ Busy => journal.snap = rt[from]
<1>1. /\ [host EXCEPT !.admitted = None] \in Hosts
      /\ [host EXCEPT !.admitted = None].up = host.up
      /\ [host EXCEPT !.admitted = None].cv = host.cv
      /\ [host EXCEPT !.admitted = None].slot = host.slot
  BY Typed, AdmittedFacts
<1>2. CASE froze
  <2> DEFINE p == IF Busy THEN "stop" ELSE "requested"
  <2> DEFINE s == rt[from]
  <2>1. s \in RuntimeRecords /\ s # None
    BY <1>2, Typed DEF Bound
  <2>2. /\ task' = [task EXCEPT !.pc = p, !.snap = s]
        /\ gate' = "switch" /\ host' = [host EXCEPT !.admitted = None]
        /\ UNCHANGED <<installed, sel, journal, upd, auth, rt, starter, tunnel, installer, panel,
                       net, nops>>
    BY <1>2 DEF HandoffCleanup, durable, server
  <2>3. /\ p \in Pcs /\ task \in Tasks
        /\ p = "stop" \/ p = "requested"
        /\ p = "stop" => Busy
    BY Typed DEF Pcs
  <2> HIDE DEF s, p
  <2>4. /\ task' \in Tasks /\ task'.pc = p /\ task'.kind = task.kind /\ task'.snap = s
        /\ task'.src = task.src
    BY <2>1, <2>2, <2>3 DEF Tasks
  <2>5. task.src # None
    BY DEF HandoffCleanup, At, SwInv, Carried
  <2>6. Placed' /\ Carried'
    BY <2>1, <2>2, <2>3, <2>4, <2>5
       DEF SwInv, Placed, Carried, StopPcs, ServerPcs, ResumePcs, Busy
  <2>7. rt' \in [Records -> RuntimeRecords \cup {None}]
    BY <2>2, Typed
  <2> QED
    BY <1>1, <2>2, <2>3, <2>4, <2>6, <2>7, HostMoves
<1>3. CASE ~froze
  <2>1. /\ Leave /\ host' = [host EXCEPT !.admitted = None]
        /\ auth' = auth /\ UNCHANGED <<starter, tunnel, installer, server, nops>>
    BY <1>3 DEF HandoffCleanup
  <2> QED
    BY <1>1, <2>1, Typed, Leaves DEF SameSession
<1> QED
  BY <1>2, <1>3

(* A fresh operation id is one of the ids.                                 *)
LEMMA FreshFacts ==
  ASSUME nops \in 0 .. MaxOps, Fresh
  PROVE  nops + 1 \in Ops /\ nops' = nops + 1 /\ nops' \in 0 .. MaxOps
  BY SwitchAssumption DEF Fresh, Ops

LEMMA RequestedStep ==
  ASSUME SwInv, Requested
  PROVE  SwInv' /\ HStep
<1> DEFINE op == IF task.kind = "update" /\ upd # None THEN upd.op ELSE nops + 1
<1> DEFINE tgt == IF task.kind = "update" THEN task.src.tgt
                                          ELSE [cv |-> host.cv, slot |-> task.slot]
<1>1. /\ UNCHANGED <<gate, server, left>> /\ Keep /\ task.pc = "requested"
      /\ task \in Tasks /\ gate \in {"free", "switch", "start"} /\ nops \in 0 .. MaxOps
  BY Typed DEF Requested, At
<1>2. task.src \in Scopes /\ task.snap \in RuntimeRecords
  BY <1>1 DEF SwInv, Carried, Tasks
<1>3. tgt \in Targets
  BY <1>1, <1>2, Typed DEF Targets, Scopes, Hosts, Tasks
<1>4. CASE task.kind = "update" /\ upd = None
  <2>1. PICK c \in Containers \ {host.cv} :
          upd' = [op |-> nops + 1, src |-> task.src, to |-> c, slot |-> sel.slot,
                  phase |-> "Requested"]
    BY <1>4 DEF Requested
  <2>2. /\ Fresh /\ task' = task /\ UNCHANGED <<installed, sel, journal, auth, rt>>
    BY <1>4 DEF Requested
  <2>3. nops + 1 \in Ops /\ nops' \in 0 .. MaxOps /\ sel.slot \in Slots
    BY <1>1, <2>2, FreshFacts, Typed DEF Targets
  <2> DEFINE n == nops + 1
  <2> HIDE DEF n
  <2>4. upd' \in UpdateJournals /\ upd' # None
    <3>1. upd' = [op |-> n, src |-> task.src, to |-> c, slot |-> sel.slot, phase |-> "Requested"]
      BY <2>1 DEF n
    <3>2. n \in Ops
      BY <2>3 DEF n
    <3>3. upd' \in UpdateJournals
      BY <1>2, <2>3, <3>1, <3>2 DEF UpdateJournals
    <3> QED
      BY <3>3, SwitchAssumption
  <2>5. Types'
    BY <1>1, <2>2, <2>3, <2>4 DEF SwInv, Types, TypeOK, Keep, server
  <2>6. Placed' /\ Carried'
    BY <2>2, <2>4 DEF SwInv, Placed, Carried, Busy, Holds
  <2>7. Pending(auth)' /\ Stored'
    BY <1>1, <2>2 DEF SwInv, Pending, Holds, Active, Stored, RecordOf, Here, Keep
  <2>8. Stilled'
    BY <1>1, <2>2 DEF SwInv, Stilled, Busy, Silent, Keep
  <2>9. HStep
    BY <1>1, <2>2, Invisible DEF SameSession, Keep
  <2> QED
    BY <2>5, <2>6, <2>7, <2>8, <2>9 DEF SwInv
<1>5. CASE ~(task.kind = "update" /\ upd = None)
  <2> DEFINE req == [op |-> op, src |-> task.src, tgt |-> tgt]
  <2> DEFINE f == FALSE
  <2> DEFINE j == [op |-> op, src |-> task.src, req |-> req, phase |-> "Requested", rid |-> 0,
                   dec |-> None, retry |-> f, sup |-> 0, suptgt |-> None, snap |-> task.snap,
                   force |-> f, cancel |-> f]
  <2>1. /\ IF task.kind = "update" THEN UNCHANGED nops ELSE Fresh
        /\ Write(j) /\ Go("stop")
    BY <1>5 DEF Requested
  <2>2. op \in Ops
    BY <1>1, <1>5, <2>1, FreshFacts, Typed DEF UpdateJournals
  <2>3. nops' \in 0 .. MaxOps
    BY <1>1, <2>1, FreshFacts
  <2> HIDE DEF op, tgt
  <2>4. req \in Requests
    BY <1>2, <1>3, <2>2 DEF Requests
  <2>5. 0 \in 0 .. MaxOps /\ f \in BOOLEAN /\ ~f /\ "Requested" \in Phases
    BY SwitchAssumption DEF Phases
  <2> HIDE DEF req, f
  <2>6. j \in Journals
    BY <1>2, <2>2, <2>4, <2>5 DEF Journals
  <2>7. j.phase = "Requested" /\ j.force = f /\ j # None
    BY <2>6, SwitchAssumption
  <2>8. task' \in Tasks /\ task'.pc = "stop" /\ task'.kind = task.kind
    BY <1>1, <2>1, GoFacts DEF Pcs
  <2>9. journal' = j /\ upd' = upd
    BY <2>1 DEF Write
  <2> HIDE DEF j
  <2>10. Placed' /\ Carried'
    BY <2>7, <2>8, <2>9
       DEF SwInv, Placed, Prepared, Carried, StopPcs, ServerPcs, ResumePcs, Busy
  <2>11. j.phase \notin Stopped
    BY <2>7 DEF Stopped
  <2> QED
    BY <1>1, <2>1, <2>3, <2>5, <2>6, <2>7, <2>8, <2>10, <2>11, JournalWritten
<1> QED
  BY <1>4, <1>5

(* A journal that differs in its phase.                                    *)
LEMMA PhaseFacts ==
  ASSUME NEW j \in Journals, NEW p \in Phases
  PROVE  /\ [j EXCEPT !.phase = p] \in Journals /\ [j EXCEPT !.phase = p] # None
         /\ [j EXCEPT !.phase = p].phase = p /\ [j EXCEPT !.phase = p].force = j.force
         /\ [j EXCEPT !.phase = p].rid = j.rid /\ [j EXCEPT !.phase = p].dec = j.dec
         /\ [j EXCEPT !.phase = p].req = j.req
<1>1. [j EXCEPT !.phase = p] \in Journals
  BY DEF Journals
<1> QED
  BY <1>1, SwitchAssumption DEF Journals

LEMMA StopPhaseStep ==
  ASSUME SwInv, StopPhase
  PROVE  SwInv' /\ HStep
<1> DEFINE p == IF journal.phase = "Requested" THEN "CleanupHandedOff" ELSE "RuntimeStopping"
<1> DEFINE j == [journal EXCEPT !.phase = p]
<1> DEFINE g == IF journal.phase = "Requested" THEN "stop" ELSE "halt"
<1>1. Busy /\ journal \in Journals /\ task \in Tasks
  BY Typed DEF StopPhase, At, SwInv, Placed, StopPcs, Busy
<1>2. Write(j) /\ Go(g) /\ Local
  BY <1>1 DEF StopPhase, Journals
<1>3. p \in Phases /\ p \notin Stopped /\ p # "AuthResuming" /\ p # "Complete"
  BY DEF Phases, Stopped
<1>4. g \in Pcs /\ g \in {"stop", "halt"}
  BY DEF Pcs
<1> HIDE DEF p, g
<1>5. j \in Journals /\ j # None /\ j.phase = p /\ j.force = journal.force
  BY <1>1, <1>3, PhaseFacts
<1>6. task' \in Tasks /\ task'.pc = g /\ task'.kind = task.kind
  BY <1>1, <1>2, <1>4, GoFacts
<1>7. journal' = j /\ upd' = upd
  BY <1>2 DEF Write
<1> HIDE DEF j
<1>8. Placed' /\ Carried'
  BY <1>3, <1>4, <1>5, <1>6, <1>7
     DEF SwInv, Placed, Prepared, Carried, StopPcs, ServerPcs, ResumePcs, Busy
<1>9. gate' \in {"free", "switch", "start"} /\ nops' \in 0 .. MaxOps /\ Keep /\ UNCHANGED server
  BY <1>2, Typed DEF Local
<1>10. j.force => starter # "starting"
  BY <1>1, <1>5 DEF SwInv, Stilled
<1> QED
  BY <1>2, <1>3, <1>4, <1>5, <1>6, <1>8, <1>9, <1>10, JournalWritten

LEMMA StopRuntimeStep ==
  ASSUME SwInv, StopRuntime
  PROVE  SwInv' /\ HStep
<1>1. Busy /\ task \in Tasks
  BY Typed DEF StopRuntime, At, SwInv, Placed, StopPcs
<1>2. /\ tunnel' = FALSE /\ Go("stopped")
      /\ UNCHANGED <<installed, sel, journal, upd, auth, rt, host, installer, panel, net, nops>>
  BY DEF StopRuntime, durable, server
<1>3. /\ starter' \in {"none", "checked", "starting"} /\ starter' # "starting"
      /\ gate' \in {"free", "switch", "start"}
  BY <1>1, Typed DEF StopRuntime, CancelStart, SwInv, Stilled
<1>4. task' \in Tasks /\ task'.pc = "stopped" /\ task'.kind = task.kind
  BY <1>1, <1>2, GoFacts DEF Pcs
<1>5. Types'
  BY <1>2, <1>3, <1>4 DEF SwInv, Types, TypeOK
<1>6. Placed' /\ Carried'
  BY <1>1, <1>2, <1>4 DEF SwInv, Placed, Carried, StopPcs, ServerPcs, ResumePcs, Busy
<1>7. Pending(auth)' /\ Stored'
  BY <1>2 DEF SwInv, Pending, Holds, Active, Stored, RecordOf, Here
<1>8. Stilled'
  BY <1>2, <1>3 DEF Stilled, Silent
<1>9. HStep
  BY <1>2, <1>3, Invisible DEF SameSession
<1> QED
  BY <1>5, <1>6, <1>7, <1>8, <1>9 DEF SwInv

LEMMA StopFailsStep ==
  ASSUME SwInv, StopFails
  PROVE  SwInv' /\ HStep
<1>1. Busy /\ task \in Tasks /\ journal \in Journals /\ task.pc = "halt"
  BY Typed DEF StopFails, At, SwInv, Placed, StopPcs, Busy
<1>2. host' = host /\ installer' = installer /\ UNCHANGED server /\ nops' = nops
  BY DEF StopFails
<1>3. CASE journal.force
  <2>1. Leave /\ auth' = auth /\ tunnel' = tunnel /\ starter' = starter
    BY <1>3 DEF StopFails
  <2> QED
    BY <1>2, <2>1, Typed, Leaves DEF SameSession
<1>4. CASE ~journal.force
  <2> DEFINE j == [journal EXCEPT !.force = TRUE]
  <2>1. tunnel' \in {tunnel, FALSE} /\ Write(j) /\ CancelStart /\ task' = task
    BY <1>4 DEF StopFails
  <2>2. j \in Journals
    BY <1>1 DEF Journals
  <2>3. /\ j # None /\ j.phase = journal.phase /\ j.rid = journal.rid /\ j.dec = journal.dec
    BY <1>1, <2>2, SwitchAssumption DEF Journals
  <2>4. /\ journal' = j /\ UNCHANGED <<installed, sel, upd, auth, rt>> /\ starter' = "none"
        /\ gate' \in {"free", "switch", "start"} /\ tunnel' \in BOOLEAN
    BY <2>1, Typed DEF Write, CancelStart
  <2> HIDE DEF j
  <2>5. Types'
    BY <1>2, <2>1, <2>2, <2>4 DEF SwInv, Types, TypeOK, server
  <2>6. Placed' /\ Carried'
    BY <1>1, <2>1, <2>3, <2>4
       DEF SwInv, Placed, Prepared, Carried, StopPcs, ServerPcs, ResumePcs, Busy
  <2>7. Pending(auth)' /\ Stored'
    BY <1>2, <2>4 DEF SwInv, Pending, Holds, Active, Stored, RecordOf, Here
  <2>8. Stilled'
    BY <1>1, <2>1, <2>3, <2>4 DEF SwInv, Stilled, Silent, Busy
  <2>9. HStep
    BY <2>1, <2>4, Invisible DEF SameSession
  <2> QED
    BY <2>5, <2>6, <2>7, <2>8, <2>9 DEF SwInv
<1> QED
  BY <1>3, <1>4

LEMMA StopRecordedStep ==
  ASSUME SwInv, StopRecorded
  PROVE  SwInv' /\ HStep
<1> DEFINE j == [journal EXCEPT !.phase = "LocalStopped"]
<1> DEFINE g == IF task.kind = "update" THEN "finish" ELSE "loop"
<1>1. journal \in Journals /\ task \in Tasks /\ Silent
  BY Typed DEF StopRecorded, At, SwInv, Placed, StopPcs, Busy, Stilled
<1>2. /\ Write(j) /\ Go(g) /\ gate' = "free" /\ UNCHANGED server /\ Keep
      /\ nops' \in 0 .. MaxOps
  BY Typed DEF StopRecorded
<1>3. g \in Pcs /\ g \in Plain
  BY DEF Pcs, Plain
<1> HIDE DEF g
<1>4. j \in Journals /\ j # None /\ j.phase = "LocalStopped"
  BY <1>1, PhaseFacts DEF Phases
<1>5. task' \in Tasks /\ task'.pc = g /\ task'.kind = task.kind
  BY <1>1, <1>2, <1>3, GoFacts
<1>6. journal' = j /\ upd' = upd
  BY <1>2 DEF Write
<1> HIDE DEF j
<1>7. Placed' /\ Carried' /\ task'.pc # "stopped"
  BY <1>3, <1>4, <1>5, <1>6, PlainFits DEF SwInv, Prepared, Carried
<1>8. starter # "starting"
  BY <1>1 DEF Silent
<1> QED
  BY <1>1, <1>2, <1>4, <1>5, <1>7, <1>8, JournalWritten

-----------------------------------------------------------------------------
(* recover_locked.                                                         *)

LEMMA RecoverLoopStep ==
  ASSUME SwInv, RecoverLoop
  PROVE  SwInv' /\ HStep
<1> DEFINE a == IF Obsolete THEN auth ELSE Retire(auth, journal.op, journal.req.op)
<1>0. CASE Ready
  BY <1>0, ReadyStep
<1>1. CASE Fail
  BY <1>1, Fails
<1>2. ASSUME journal # None, Local,
             \/ /\ journal.phase \in {"Requested", "CleanupHandedOff", "RuntimeStopping"}
                /\ Go("source") /\ Save(a)
             \/ /\ journal.phase = "LocalStopped"
                /\ journal' = [journal EXCEPT !.phase = "ServerReconciling"]
                /\ auth' = a
                /\ UNCHANGED <<task, installed, sel, upd, rt>>
             \/ journal.phase = "ServerReconciling" /\ Go("server") /\ Save(a)
             \/ journal.phase = "AuthResuming" /\ Go("resume") /\ Save(a)
             \/ task' = task /\ Save(a)
      PROVE  SwInv' /\ HStep
  <2>1. /\ journal \in Journals /\ task \in Tasks /\ task.pc = "loop"
        /\ auth \in AuthRecords /\ Pending(auth)
    BY <1>2, Typed DEF RecoverLoop, At
  <2>2. a \in AuthRecords /\ SameSession(auth, a) /\ Pending(a)
    <3>1. CASE Obsolete
      BY <2>1, <3>1 DEF SameSession
    <3>2. CASE ~Obsolete
      BY <2>1, <3>2, RetireFacts
    <3> QED
      BY <3>1, <3>2
  <2> HIDE DEF a
  <2>3. /\ Keep /\ gate' = gate /\ nops' = nops /\ nops' \in 0 .. MaxOps /\ panel' = panel
        /\ net' = net /\ net' \subseteq Wires
    BY <1>2, Typed DEF Local, server
  <2>4. ASSUME Save(a), NEW p \in Pcs, task'.pc = p, task'.kind = task.kind, task' \in Tasks,
               \/ p \in Plain
               \/ p = "server" /\ journal.phase = "ServerReconciling"
               \/ p = "resume" /\ journal.phase = "AuthResuming"
        PROVE  SwInv' /\ HStep
    <3>1. journal' = journal /\ upd' = upd
      BY <2>4 DEF Save
    <3>2. Placed' /\ Carried' /\ task'.pc # "stopped"
      <4>1. CASE p \in Plain
        BY <2>4, <3>1, <4>1, PlainFits DEF SwInv, Placed, Carried
      <4>2. CASE p \in {"server", "resume"}
        BY <1>2, <2>4, <3>1, <4>2
           DEF SwInv, Placed, Carried, StopPcs, ServerPcs, ResumePcs, Plain
      <4> QED
        BY <2>4, <4>1, <4>2
    <3> QED
      BY <2>2, <2>3, <2>4, <3>2, RecordSaved
  <2>5. CASE Go("source") /\ Save(a)
    <3>1. "source" \in Pcs /\ "source" \in Plain
      BY DEF Pcs, Plain
    <3>2. task' \in Tasks /\ task'.pc = "source" /\ task'.kind = task.kind
      BY <2>1, <2>5, <3>1, GoFacts
    <3> QED
      BY <2>4, <2>5, <3>1, <3>2
  <2>6. CASE journal.phase = "ServerReconciling" /\ Go("server") /\ Save(a)
    <3>1. "server" \in Pcs
      BY DEF Pcs
    <3>2. task' \in Tasks /\ task'.pc = "server" /\ task'.kind = task.kind
      BY <2>1, <2>6, <3>1, GoFacts
    <3> QED
      BY <2>4, <2>6, <3>1, <3>2
  <2>7. CASE journal.phase = "AuthResuming" /\ Go("resume") /\ Save(a)
    <3>1. "resume" \in Pcs
      BY DEF Pcs
    <3>2. task' \in Tasks /\ task'.pc = "resume" /\ task'.kind = task.kind
      BY <2>1, <2>7, <3>1, GoFacts
    <3> QED
      BY <2>4, <2>7, <3>1, <3>2
  <2>8. CASE task' = task /\ Save(a)
    <3>1. "loop" \in Pcs /\ "loop" \in Plain
      BY DEF Pcs, Plain
    <3> QED
      BY <2>1, <2>4, <2>8, <3>1
  <2>9. CASE /\ journal.phase = "LocalStopped"
             /\ journal' = [journal EXCEPT !.phase = "ServerReconciling"]
             /\ auth' = a
             /\ UNCHANGED <<task, installed, sel, upd, rt>>
    <3> DEFINE j == [journal EXCEPT !.phase = "ServerReconciling"]
    <3>1. /\ j \in Journals /\ j # None /\ j.phase = "ServerReconciling"
          /\ j.force = journal.force
      BY <2>1, PhaseFacts DEF Phases
    <3>2. /\ journal' = j /\ auth' = a /\ task' = task /\ installed' = installed /\ sel' = sel
          /\ upd' = upd /\ rt' = rt /\ host' = host /\ starter' = starter /\ tunnel' = tunnel
          /\ installer' = installer
      BY <2>3, <2>9 DEF Keep
    <3> HIDE DEF j
    <3>3. Types'
      BY <2>2, <2>3, <3>1, <3>2 DEF SwInv, Types, TypeOK
    <3>4. Placed' /\ Carried'
      BY <2>1, <3>1, <3>2, PlainFits DEF SwInv, Carried, Prepared, Plain
    <3>5. Pending(auth)' /\ Stored'
      BY <2>2, <3>2 DEF SwInv, Pending, Holds, Active, Stored, RecordOf, Here
    <3>6. Silent
      BY <1>2, <2>9 DEF SwInv, Stilled, Busy, Stopped
    <3>7. Stilled'
      BY <3>2, <3>6 DEF Stilled, Silent
    <3>8. HStep
      BY <2>2, <3>2, Invisible
    <3> QED
      BY <3>3, <3>4, <3>5, <3>7, <3>8 DEF SwInv
  <2> QED
    BY <1>2, <2>5, <2>6, <2>7, <2>8, <2>9
<1>3. ASSUME ~Ready, ~Fail
      PROVE  /\ journal # None /\ Local
             /\ \/ /\ journal.phase \in {"Requested", "CleanupHandedOff", "RuntimeStopping"}
                   /\ Go("source") /\ Save(a)
                \/ /\ journal.phase = "LocalStopped"
                   /\ journal' = [journal EXCEPT !.phase = "ServerReconciling"]
                   /\ auth' = a
                   /\ UNCHANGED <<task, installed, sel, upd, rt>>
                \/ journal.phase = "ServerReconciling" /\ Go("server") /\ Save(a)
                \/ journal.phase = "AuthResuming" /\ Go("resume") /\ Save(a)
                \/ task' = task /\ Save(a)
  <2>1. journal = None => ~Busy
    BY DEF Busy
  <2> HIDE DEF a
  <2> QED
    BY <1>3, <2>1 DEF RecoverLoop, a
<1> QED
  BY <1>0, <1>1, <1>2, <1>3

LEMMA NotDueStep ==
  ASSUME SwInv, NotDue
  PROVE  SwInv' /\ HStep
  BY Fails DEF NotDue

LEMMA ReconcileStep ==
  ASSUME SwInv, Reconcile
  PROVE  SwInv' /\ HStep
<1> DEFINE j == [journal EXCEPT !.retry = TRUE]
<1>1. /\ journal \in Journals /\ task \in Tasks /\ journal.phase = "ServerReconciling"
      /\ Busy
  BY Typed DEF Reconcile, At, SwInv, Placed, ServerPcs, Busy
<1>2. Write(j) /\ Go("capture") /\ Local
  BY DEF Reconcile
<1>3. j \in Journals
  BY <1>1 DEF Journals
<1>4. j # None /\ j.phase = "ServerReconciling" /\ j.force = journal.force
  BY <1>1, <1>3, SwitchAssumption DEF Journals
<1>5. task' \in Tasks /\ task'.pc = "capture" /\ task'.kind = task.kind
  BY <1>1, <1>2, GoFacts DEF Pcs
<1>6. journal' = j /\ upd' = upd
  BY <1>2 DEF Write
<1> HIDE DEF j
<1>7. Placed' /\ Carried'
  BY <1>4, <1>5, <1>6
     DEF SwInv, Placed, Prepared, Carried, StopPcs, ServerPcs, ResumePcs
<1>8. gate' \in {"free", "switch", "start"} /\ nops' \in 0 .. MaxOps /\ Keep /\ UNCHANGED server
  BY <1>2, Typed DEF Local
<1>9. Silent /\ (j.force => starter # "starting")
  BY <1>1, <1>4 DEF SwInv, Stilled, Stopped
<1> QED
  BY <1>2, <1>3, <1>5, <1>7, <1>8, <1>9, JournalWritten

(* What the steps that talk to the panel find.                             *)
LEMMA AtServer ==
  ASSUME SwInv, task.pc \in ServerPcs
  PROVE  /\ journal \in Journals /\ journal # None /\ journal.phase = "ServerReconciling"
         /\ journal.req \in Requests /\ journal.op \in Ops /\ Busy /\ Silent
         /\ task \in Tasks /\ auth \in AuthRecords /\ Pending(auth)
<1>1. journal \in Journals /\ journal # None /\ journal.phase = "ServerReconciling"
  BY Typed DEF SwInv, Placed
<1>2. journal.req \in Requests /\ journal.op \in Ops
  BY <1>1 DEF Journals
<1>3. Busy /\ Silent
  BY <1>1 DEF SwInv, Stilled, Busy, Stopped
<1> QED
  BY <1>1, <1>2, <1>3, Typed

(* A step of the server phase after which nothing more is asked.           *)
LEMMA ServerFits ==
  ASSUME SwInv, journal' = journal, upd' = upd, journal # None,
         journal.phase = "ServerReconciling", task'.kind = task.kind,
         task'.pc \in {"capture", "reconciled", "decide"}
  PROVE  Placed' /\ Carried' /\ task'.pc # "stopped"
  BY DEF SwInv, Placed, Carried, StopPcs, ServerPcs, ResumePcs

(* The same with the authority of the request in the record.               *)
LEMMA IntentFits ==
  ASSUME SwInv, journal' = journal, upd' = upd, journal # None,
         journal.phase = "ServerReconciling", task'.kind = task.kind,
         task'.pc \in {"intent", "refreshed"}, Holds(auth', journal.req.op)
  PROVE  Placed' /\ Carried' /\ task'.pc # "stopped"
<1>1. Holds(auth, journal.req.op)'
  BY DEF Holds
<1> QED
  BY <1>1 DEF SwInv, Placed, Carried, StopPcs, ServerPcs, ResumePcs

LEMMA CaptureAuthorityStep ==
  ASSUME SwInv, CaptureAuthority
  PROVE  SwInv' /\ HStep
<1> DEFINE req == journal.req
<1>1. /\ journal \in Journals /\ journal # None /\ journal.phase = "ServerReconciling"
      /\ req \in Requests /\ task \in Tasks /\ auth \in AuthRecords /\ Pending(auth)
  BY AtServer DEF CaptureAuthority, At, ServerPcs
<1>2. CASE Fail
  BY <1>2, Fails
<1>3. CASE ~Fail /\ Holds(auth, req.op)
  <2> DEFINE p == IF Clean(auth, req.op) THEN "decide" ELSE "intent"
  <2>1. Go(p) /\ UNCHANGED durable /\ Local /\ journal' = journal /\ upd' = upd /\ auth' = auth
    BY <1>3 DEF CaptureAuthority, durable
  <2>2. p \in Pcs /\ p \in {"decide", "intent"}
    BY DEF Pcs
  <2> HIDE DEF p
  <2>3. task' \in Tasks /\ task'.pc = p /\ task'.kind = task.kind
    BY <1>1, <2>1, <2>2, GoFacts
  <2>4. Placed' /\ Carried' /\ task'.pc # "stopped"
    BY <1>1, <1>3, <2>1, <2>2, <2>3, ServerFits, IntentFits
  <2> QED
    BY <2>1, <2>3, <2>4, TaskMoves
<1>4. CASE ~Fail /\ ~Holds(auth, req.op)
  <2> DEFINE a == Capture(auth, req)
  <2>1. Save(a) /\ Go("intent") /\ Local
    BY <1>4 DEF CaptureAuthority
  <2>2. a \in AuthRecords /\ SameSession(auth, a) /\ Pending(a) /\ Holds(a, req.op)
    BY <1>1, CaptureFacts, TicketKept
  <2> HIDE DEF a
  <2>3. task' \in Tasks /\ task'.pc = "intent" /\ task'.kind = task.kind
    BY <1>1, <2>1, GoFacts DEF Pcs
  <2>4. journal' = journal /\ upd' = upd /\ auth' = a
    BY <2>1 DEF Save
  <2>5. Placed' /\ Carried' /\ task'.pc # "stopped"
    BY <1>1, <2>2, <2>3, <2>4, IntentFits
  <2>6. /\ Keep /\ gate' = gate /\ nops' \in 0 .. MaxOps /\ panel' = panel
        /\ net' \subseteq Wires
    BY <2>1, Typed DEF Local, server
  <2> QED
    BY <2>1, <2>2, <2>3, <2>5, <2>6, RecordSaved
<1> QED
  BY <1>2, <1>3, <1>4

(* The requests are wires.                                                 *)
LEMMA RequestWires ==
  ASSUME NEW req \in Requests
  PROVE  /\ [kind |-> "reconcile", body |-> req] \in Wires
         /\ [kind |-> "recover", body |-> req] \in Wires
         /\ [kind |-> "refresh", epoch |-> req.src.epoch] \in Wires
<1>1. req.src.epoch \in 0 .. MaxEpoch
  BY DEF Requests, Scopes
<1> QED
  BY <1>1 DEF Wires

(* A task that waits for the answer to a request.                          *)
LEMMA WaitFacts ==
  ASSUME task \in Tasks, NEW pc \in Pcs, NEW w \in Wires
  PROVE  /\ [task EXCEPT !.pc = pc, !.wire = w] \in Tasks
         /\ [task EXCEPT !.pc = pc, !.wire = w].pc = pc
         /\ [task EXCEPT !.pc = pc, !.wire = w].kind = task.kind
         /\ [task EXCEPT !.pc = pc, !.wire = w].wire = w
  BY DEF Tasks

LEMMA DispatchIntentStep ==
  ASSUME SwInv, DispatchIntent
  PROVE  SwInv' /\ HStep
<1> DEFINE req == journal.req
<1> DEFINE disp == Authority(auth, req.op).disp
<1> DEFINE w == [kind |-> "reconcile", body |-> req]
<1> DEFINE r == [kind |-> "refresh", epoch |-> req.src.epoch]
<1>1. /\ journal \in Journals /\ journal # None /\ journal.phase = "ServerReconciling"
      /\ req \in Requests /\ task \in Tasks /\ auth \in AuthRecords /\ Pending(auth)
  BY AtServer DEF DispatchIntent, At, ServerPcs
<1>2. Holds(auth, req.op)
  BY DEF DispatchIntent, At, SwInv, Carried
<1>3. w \in Wires /\ r \in Wires
  BY <1>1, RequestWires
<1>4. CASE Fail
  BY <1>4, Fails
<1>5. CASE ~Fail /\ disp = "rejected"
  <2> DEFINE a == [auth EXCEPT !.pend = Refreshing]
  <2>1. /\ Save(a) /\ task' = [task EXCEPT !.pc = "refreshed", !.wire = r] /\ Send(r)
        /\ gate' = gate /\ nops' = nops /\ Keep /\ HasSource(auth)
    BY <1>5 DEF DispatchIntent
  <2>2. /\ a \in AuthRecords /\ SameSession(auth, a) /\ a.pend = Refreshing
        /\ Holds(a, req.op)
    BY <1>1, <1>2, PendFacts
  <2> HIDE DEF a, r
  <2>3. Pending(a)
    BY <2>1, <2>2, SwitchAssumption DEF Pending, SameSession, HasSource, Active
  <2>4. task' \in Tasks /\ task'.pc = "refreshed" /\ task'.kind = task.kind
    <3>1. "refreshed" \in Pcs /\ r \in Wires
      BY <1>3 DEF Pcs
    <3> QED
      BY <1>1, <2>1, <3>1, WaitFacts
  <2>5. journal' = journal /\ upd' = upd /\ auth' = a
    BY <2>1 DEF Save
  <2>6. Placed' /\ Carried' /\ task'.pc # "stopped"
    BY <1>1, <2>2, <2>4, <2>5, IntentFits
  <2>7. nops' \in 0 .. MaxOps /\ panel' = panel /\ net' \subseteq Wires
    BY <1>3, <2>1, Typed DEF Send
  <2> QED
    BY <2>1, <2>2, <2>3, <2>4, <2>6, <2>7, RecordSaved
<1>6. CASE ~Fail /\ disp # "rejected"
  <2> DEFINE a == SetAuthority(auth, req.op, "intent", "none")
  <2> DEFINE m == disp \in {"captured", "known"}
  <2>1. /\ Save(a) /\ task' = [task EXCEPT !.pc = "reconciled", !.wire = w, !.may = m]
        /\ Send(w) /\ gate' = gate /\ nops' = nops /\ Keep
    BY <1>6 DEF DispatchIntent
  <2>2. a \in AuthRecords /\ SameSession(auth, a) /\ Pending(a)
    BY <1>1, <1>2, SetAuthorityFacts, TicketKept
  <2>3. m \in BOOLEAN /\ "reconciled" \in Pcs
    BY DEF Pcs
  <2> HIDE DEF a, w, m
  <2>4. task' \in Tasks /\ task'.pc = "reconciled" /\ task'.kind = task.kind
    BY <1>1, <1>3, <2>1, <2>3 DEF Tasks
  <2>5. journal' = journal /\ upd' = upd
    BY <2>1 DEF Save
  <2>6. Placed' /\ Carried' /\ task'.pc # "stopped"
    BY <1>1, <2>4, <2>5, ServerFits
  <2>7. nops' \in 0 .. MaxOps /\ panel' = panel /\ net' \subseteq Wires
    BY <1>3, <2>1, Typed DEF Send
  <2> QED
    BY <2>1, <2>2, <2>4, <2>6, <2>7, RecordSaved
<1> QED
  BY <1>4, <1>5, <1>6

LEMMA RefreshedStep ==
  ASSUME SwInv, Refreshed
  PROVE  SwInv' /\ HStep
<1> DEFINE req == journal.req
<1> DEFINE w == [kind |-> "reconcile", body |-> req]
<1>1. /\ journal \in Journals /\ journal # None /\ journal.phase = "ServerReconciling"
      /\ req \in Requests /\ task \in Tasks /\ auth \in AuthRecords /\ Pending(auth)
  BY AtServer DEF Refreshed, Reply, At, ServerPcs
<1>2. Holds(auth, req.op)
  BY DEF Refreshed, Reply, At, SwInv, Carried
<1>3. CASE Fail
  BY <1>3, Fails
<1>4. CASE ~Fail
  <2> DEFINE b == [auth EXCEPT !.pend = None]
  <2> DEFINE a == SetAuthority(b, req.op, "intent", "none")
  <2> DEFINE m == FALSE
  <2>1. /\ Save(a)
        /\ task' = [task EXCEPT !.pc = "reconciled", !.wire = w, !.got = None, !.may = m]
        /\ Send(w) /\ gate' = gate /\ nops' = nops /\ Keep /\ Active(auth)
    BY <1>4 DEF Refreshed
  <2>2. b \in AuthRecords /\ SameSession(auth, b) /\ b.pend = None /\ Holds(b, req.op)
    BY <1>1, <1>2, PendFacts
  <2>3. Pending(b)
    BY <2>1, <2>2, SwitchAssumption DEF Pending, SameSession, Active
  <2> HIDE DEF b
  <2>4. a \in AuthRecords /\ SameSession(b, a) /\ Pending(a)
    BY <2>2, <2>3, SetAuthorityFacts, TicketKept
  <2>5. w \in Wires /\ m \in BOOLEAN /\ "reconciled" \in Pcs
    BY <1>1, RequestWires DEF Pcs
  <2> HIDE DEF a, w, m
  <2>6. task' \in Tasks /\ task'.pc = "reconciled" /\ task'.kind = task.kind
    BY <1>1, <2>1, <2>5 DEF Tasks
  <2>7. journal' = journal /\ upd' = upd /\ SameSession(auth, a)
    BY <2>1, <2>2, <2>4 DEF Save, SameSession
  <2>8. Placed' /\ Carried' /\ task'.pc # "stopped"
    BY <1>1, <2>6, <2>7, ServerFits
  <2>9. nops' \in 0 .. MaxOps /\ panel' = panel /\ net' \subseteq Wires
    BY <2>1, <2>5, Typed DEF Send
  <2> QED
    BY <2>1, <2>4, <2>6, <2>7, <2>8, <2>9, RecordSaved
<1> QED
  BY <1>3, <1>4

LEMMA ReconciledStep ==
  ASSUME SwInv, Reconciled
  PROVE  SwInv' /\ HStep
<1> DEFINE req == journal.req
<1> DEFINE proof == [kind |-> "recover", body |-> req]
<1> DEFINE s(d, r) == SetAuthority(auth, req.op, d, r)
<1>1. /\ journal \in Journals /\ journal # None /\ journal.phase = "ServerReconciling"
      /\ req \in Requests /\ task \in Tasks /\ auth \in AuthRecords /\ Pending(auth)
      /\ task.pc = "reconciled"
  BY AtServer DEF Reconciled, Reply, At, ServerPcs
<1>2. CASE Fail
  BY <1>2, Fails
<1>3. ASSUME Holds(auth, req.op)
      PROVE  \A x \in {s("known", "clean"), s("rejected", "none"), s("known", "retry"),
                        s("unknown", "none")} :
               x \in AuthRecords /\ SameSession(auth, x) /\ Pending(x) /\ Holds(x, req.op)
  <2>1. ASSUME NEW x \in AuthRecords, SameSession(auth, x), x.pend = auth.pend,
               \A op : Holds(auth, op) => Holds(x, op)
        PROVE  Pending(x) /\ Holds(x, req.op)
    BY <1>1, <1>3, <2>1, TicketKept
  <2>2. /\ s("known", "clean") \in AuthRecords /\ SameSession(auth, s("known", "clean"))
        /\ s("known", "clean").pend = auth.pend
        /\ \A op : Holds(auth, op) => Holds(s("known", "clean"), op)
    BY <1>1, <1>3, SetAuthorityFacts
  <2>3. /\ s("rejected", "none") \in AuthRecords /\ SameSession(auth, s("rejected", "none"))
        /\ s("rejected", "none").pend = auth.pend
        /\ \A op : Holds(auth, op) => Holds(s("rejected", "none"), op)
    BY <1>1, <1>3, SetAuthorityFacts
  <2>4. /\ s("known", "retry") \in AuthRecords /\ SameSession(auth, s("known", "retry"))
        /\ s("known", "retry").pend = auth.pend
        /\ \A op : Holds(auth, op) => Holds(s("known", "retry"), op)
    BY <1>1, <1>3, SetAuthorityFacts
  <2>5. /\ s("unknown", "none") \in AuthRecords /\ SameSession(auth, s("unknown", "none"))
        /\ s("unknown", "none").pend = auth.pend
        /\ \A op : Holds(auth, op) => Holds(s("unknown", "none"), op)
    BY <1>1, <1>3, SetAuthorityFacts
  <2> HIDE DEF s
  <2> QED
    BY <2>1, <2>2, <2>3, <2>4, <2>5
<1>4. ASSUME ~Fail
      PROVE  /\ Matches(auth, req)
             /\ \/ Save(s("known", "clean")) /\ Go("decide") /\ Local
                \/ Save(s("rejected", "none")) /\ Go("intent") /\ Local
                \/ /\ task' = [task EXCEPT !.wire = proof, !.got = None] /\ Send(proof)
                   /\ UNCHANGED <<durable, gate, nops, left>> /\ Keep
                \/ /\ auth' = s("known", "retry") \/ auth' = s("unknown", "none")
                   /\ Leave /\ UNCHANGED <<server, nops, left>> /\ Keep
  BY <1>4 DEF Reconciled
<1>5. CASE ~Fail
  <2>1. Holds(auth, req.op)
    BY <1>4, <1>5 DEF Matches, Holds
  <2>2. ASSUME NEW a \in AuthRecords, SameSession(auth, a), Pending(a), Holds(a, req.op),
               NEW p \in {"decide", "intent"}, Save(a), Go(p), Local
        PROVE  SwInv' /\ HStep
    <3>1. p \in Pcs
      BY <2>2 DEF Pcs
    <3>2. task' \in Tasks /\ task'.pc = p /\ task'.kind = task.kind
      BY <1>1, <2>2, <3>1, GoFacts
    <3>3. journal' = journal /\ upd' = upd /\ auth' = a
      BY <2>2 DEF Save
    <3>4. Placed' /\ Carried' /\ task'.pc # "stopped"
      BY <1>1, <2>2, <3>2, <3>3, ServerFits, IntentFits
    <3>5. Keep /\ gate' = gate /\ nops' \in 0 .. MaxOps /\ panel' = panel /\ net' \subseteq Wires
      BY <2>2, Typed DEF Local, server
    <3> QED
      BY <2>2, <3>2, <3>4, <3>5, RecordSaved
  <2>3. \A x \in {s("known", "clean"), s("rejected", "none"), s("known", "retry"),
                   s("unknown", "none")} :
          x \in AuthRecords /\ SameSession(auth, x) /\ Pending(x) /\ Holds(x, req.op)
    BY <1>3, <2>1
  <2> HIDE DEF s, proof
  <2>4. CASE Save(s("known", "clean")) /\ Go("decide") /\ Local
    BY <2>2, <2>3, <2>4
  <2>5. CASE Save(s("rejected", "none")) /\ Go("intent") /\ Local
    BY <2>2, <2>3, <2>5
  <2>6. CASE /\ task' = [task EXCEPT !.wire = proof, !.got = None] /\ Send(proof)
             /\ UNCHANGED <<durable, gate, nops, left>> /\ Keep
    <3>1. proof \in Wires
      BY <1>1, RequestWires DEF proof
    <3>2. task' \in Tasks /\ task'.pc = "reconciled" /\ task'.kind = task.kind
      BY <1>1, <2>6, <3>1 DEF Tasks
    <3>3. Save(auth) /\ journal' = journal /\ upd' = upd
      BY <2>6 DEF durable, Save
    <3>4. Placed' /\ Carried' /\ task'.pc # "stopped"
      BY <1>1, <3>2, <3>3, ServerFits
    <3>5. gate' = gate /\ nops' \in 0 .. MaxOps /\ panel' = panel /\ net' \subseteq Wires
      BY <2>6, <3>1, Typed DEF Send
    <3>6. SameSession(auth, auth)
      BY DEF SameSession
    <3> QED
      BY <1>1, <2>6, <3>2, <3>3, <3>4, <3>5, <3>6, RecordSaved
  <2>7. CASE /\ auth' = s("known", "retry") \/ auth' = s("unknown", "none")
             /\ Leave /\ UNCHANGED <<server, nops, left>> /\ Keep
    <3>1. auth' \in AuthRecords /\ SameSession(auth, auth') /\ Pending(auth')
      BY <2>3, <2>7
    <3>2. host' = host /\ UNCHANGED <<starter, tunnel, installer, server, nops>> /\ host \in Hosts
      BY <2>7, Typed DEF Keep
    <3> QED
      BY <2>7, <3>1, <3>2, Leaves
  <2> QED
    BY <1>4, <1>5, <2>4, <2>5, <2>6, <2>7 DEF s, proof
<1> QED
  BY <1>2, <1>5

(* The running target and the one the container wants are targets.         *)
LEMMA DesiredType ==
  ASSUME SwInv
  PROVE  Desired \in Targets /\ Desired # None /\ Here \in Targets
<1>1. host \in Hosts /\ sel \in Targets /\ journal \in Journals \cup {None}
  BY Typed
<1>2. Busy => journal.src.tgt.slot \in Slots /\ journal.req.tgt.slot \in Slots
  BY <1>1 DEF Busy, Journals, Requests, Scopes, Targets
<1>3. DesiredSlot(host.cv) \in Slots
  BY <1>1, <1>2 DEF DesiredSlot, Targets
<1>4. Desired \in Targets /\ Here \in Targets
  BY <1>1, <1>3 DEF Desired, Here, Targets, Hosts
<1> QED
  BY <1>4, SwitchAssumption

LEMMA DecideStep ==
  ASSUME SwInv, Decide
  PROVE  SwInv' /\ HStep
<1> DEFINE cancel == journal.cancel /\ ~IsActive
<1> DEFINE n == nops + 1
<1>1. /\ journal \in Journals /\ journal # None /\ journal.phase = "ServerReconciling"
      /\ task \in Tasks /\ Busy /\ Silent
  BY AtServer DEF Decide, At, ServerPcs
<1>2. CASE Fail
  BY <1>2, Fails
<1>3. Fresh => n \in Ops /\ n # 0 /\ n \in 0 .. MaxOps /\ nops' \in 0 .. MaxOps
  BY Typed, FreshFacts, SwitchAssumption DEF Ops
<1>4. CASE ~Fail /\ (cancel \/ Desired = journal.req.tgt)
  <2> DEFINE d == IF cancel THEN "cancel" ELSE "apply"
  <2> DEFINE f == FALSE
  <2> DEFINE j == [journal EXCEPT !.retry = f, !.rid = n, !.phase = "AuthResuming", !.dec = d]
  <2>1. Fresh /\ Write(j) /\ Go("loop") /\ gate' = gate /\ UNCHANGED server /\ Keep
    BY <1>4 DEF Decide
  <2>2. d \in Decisions /\ d # None /\ f \in BOOLEAN /\ "AuthResuming" \in Phases
    BY SwitchAssumption DEF Decisions, Phases
  <2> HIDE DEF n, d, f
  <2>3. j \in Journals
    BY <1>1, <1>3, <2>1, <2>2 DEF Journals
  <2>4. j.phase = "AuthResuming" /\ j.rid = n /\ j.dec = d /\ j.force = journal.force
    BY <1>1 DEF Journals
  <2>5. task' \in Tasks /\ task'.pc = "loop" /\ task'.kind = task.kind
    BY <1>1, <2>1, GoFacts DEF Pcs
  <2>6. journal' = j /\ upd' = upd
    BY <2>1 DEF Write
  <2> HIDE DEF j
  <2>7. Placed' /\ Carried' /\ task'.pc # "stopped"
    BY <1>3, <2>1, <2>2, <2>4, <2>5, <2>6, PlainFits DEF SwInv, Carried, Prepared, Plain
  <2>8. gate' \in {"free", "switch", "start"} /\ starter # "starting"
    BY <1>1, <2>1, Typed DEF Silent
  <2> QED
    BY <1>1, <1>3, <2>1, <2>3, <2>5, <2>7, <2>8, JournalWritten
<1>5. CASE ~Fail /\ ~(cancel \/ Desired = journal.req.tgt) /\ journal.sup = 0
  <2> DEFINE t == Desired
  <2> DEFINE j == [journal EXCEPT !.sup = n, !.suptgt = t]
  <2>1. Fresh /\ Write(j) /\ Go("supersede") /\ gate' = gate /\ UNCHANGED server /\ Keep
    BY <1>5 DEF Decide
  <2>2. t \in Targets /\ t # None
    BY DesiredType
  <2> HIDE DEF n, t
  <2>3. j \in Journals
    BY <1>1, <1>3, <2>1, <2>2 DEF Journals
  <2>4. /\ j.phase = "ServerReconciling" /\ j.sup = n /\ j.suptgt = t /\ j.force = journal.force
        /\ j # None
    BY <1>1, <2>3, SwitchAssumption DEF Journals
  <2>5. task' \in Tasks /\ task'.pc = "supersede" /\ task'.kind = task.kind
    BY <1>1, <2>1, GoFacts DEF Pcs
  <2>6. journal' = j /\ upd' = upd
    BY <2>1 DEF Write
  <2> HIDE DEF j
  <2>7. Placed' /\ Carried'
    BY <1>3, <2>1, <2>2, <2>4, <2>5, <2>6
       DEF SwInv, Placed, Prepared, Carried, StopPcs, ServerPcs, ResumePcs
  <2>8. gate' \in {"free", "switch", "start"} /\ starter # "starting"
    BY <1>1, <2>1, Typed DEF Silent
  <2> QED
    BY <1>1, <1>3, <2>1, <2>3, <2>5, <2>7, <2>8, JournalWritten
<1>6. CASE ~Fail /\ ~(cancel \/ Desired = journal.req.tgt) /\ journal.sup # 0
  <2>1. /\ journal.suptgt = Desired /\ Go("supersede") /\ UNCHANGED durable /\ Local
        /\ journal' = journal /\ upd' = upd
    BY <1>6 DEF Decide, durable
  <2>2. task' \in Tasks /\ task'.pc = "supersede" /\ task'.kind = task.kind
    BY <1>1, <2>1, GoFacts DEF Pcs
  <2>3. Placed' /\ Carried'
    BY <1>1, <1>6, <2>1, <2>2, DesiredType
       DEF SwInv, Placed, Carried, StopPcs, ServerPcs, ResumePcs
  <2> QED
    BY <2>1, <2>2, <2>3, TaskMoves
<1> QED
  BY <1>2, <1>4, <1>5, <1>6

LEMMA SupersedeStep ==
  ASSUME SwInv, Supersede
  PROVE  SwInv' /\ HStep
<1>1. /\ journal \in Journals /\ journal # None /\ journal.phase = "ServerReconciling"
      /\ journal.req \in Requests /\ task \in Tasks /\ auth \in AuthRecords /\ Pending(auth)
      /\ task.pc = "supersede"
  BY AtServer DEF Supersede, At, ServerPcs
<1>2. journal.sup # 0 /\ journal.suptgt # None
  BY <1>1 DEF SwInv, Carried
<1>3. CASE Fail
  BY <1>3, Fails
<1>4. ASSUME journal' = journal, upd' = upd, task'.kind = task.kind,
             \/ task'.pc = "successor"
             \/ task'.pc = "superseded" /\ task'.wire # None /\ task'.wire.kind = "supersede"
      PROVE  Placed' /\ Carried' /\ task'.pc # "stopped"
  BY <1>1, <1>2, <1>4 DEF SwInv, Placed, Carried, StopPcs, ServerPcs, ResumePcs
<1>5. CASE ~Fail /\ auth.sup # None /\ auth.sup.resp = "clean"
  <2>1. Go("successor") /\ UNCHANGED durable /\ Local /\ journal' = journal /\ upd' = upd
    BY <1>5 DEF Supersede, durable
  <2>2. task' \in Tasks /\ task'.pc = "successor" /\ task'.kind = task.kind
    BY <1>1, <2>1, GoFacts DEF Pcs
  <2> QED
    BY <1>4, <2>1, <2>2, TaskMoves
<1>6. CASE ~Fail /\ ~(auth.sup # None /\ auth.sup.resp = "clean")
  <2> DEFINE t == SupersedeTicket(auth, journal.sup, journal.req, journal.suptgt)
  <2> DEFINE w == [kind |-> "supersede", body |-> t]
  <2> DEFINE a == [auth EXCEPT !.sup = t]
  <2>1. /\ Save(a) /\ task' = [task EXCEPT !.pc = "superseded", !.wire = w] /\ Send(w)
        /\ gate' = gate /\ nops' = nops /\ Keep
    BY <1>6 DEF Supersede
  <2>2. t \in Supersedes
    <3>1. journal.sup \in Ops /\ journal.suptgt \in Targets /\ journal.req.op \in Ops
      BY <1>1, <1>2, SwitchAssumption DEF Journals, Ops, Requests
    <3>2. Scope(auth) \in Scopes
      BY <1>1, ScopeType
    <3> QED
      BY <3>1, <3>2 DEF SupersedeTicket, Supersedes
  <2> HIDE DEF t
  <2>3. w \in Wires /\ w.kind = "supersede" /\ "superseded" \in Pcs
    BY <2>2 DEF Wires, Pcs
  <2>4. a \in AuthRecords /\ SameSession(auth, a) /\ Pending(a)
    BY <1>1, <2>2, SupFacts, TicketKept
  <2> HIDE DEF w, a
  <2>5. task' \in Tasks /\ task'.pc = "superseded" /\ task'.kind = task.kind /\ task'.wire = w
    BY <1>1, <2>1, <2>3, WaitFacts
  <2>6. journal' = journal /\ upd' = upd /\ w # None
    BY <2>1, <2>3, SwitchAssumption DEF Save
  <2>7. nops' \in 0 .. MaxOps /\ panel' = panel /\ net' \subseteq Wires
    BY <2>1, <2>3, Typed DEF Send
  <2>8. Placed' /\ Carried' /\ task'.pc # "stopped"
    BY <1>4, <2>3, <2>5, <2>6
  <2> QED
    BY <2>1, <2>4, <2>5, <2>7, <2>8, RecordSaved
<1> QED
  BY <1>3, <1>5, <1>6

LEMMA SupersedeAnswerStep ==
  ASSUME SwInv, SupersedeAnswer
  PROVE  SwInv' /\ HStep
<1>1. /\ journal \in Journals /\ journal # None /\ journal.phase = "ServerReconciling"
      /\ task \in Tasks /\ auth \in AuthRecords /\ Pending(auth) /\ task.pc = "superseded"
  BY AtServer DEF SupersedeAnswer, Reply, At, ServerPcs
<1>2. /\ journal.sup # 0 /\ journal.suptgt # None
      /\ task.wire # None /\ task.wire.kind = "supersede"
  BY <1>1 DEF SwInv, Carried
<1>3. task.wire.body \in Supersedes
  <2>1. task.wire \in Wires
    BY <1>1, <1>2 DEF Tasks
  <2> QED
    BY <1>2, <2>1 DEF Wires
<1>4. CASE Fail
  BY <1>4, Fails
<1>5. CASE ~Fail
  <2>1. auth.sup \in Supersedes
    BY <1>3, <1>5 DEF SupersedeAnswer
  <2>2. CASE task.got = "retry"
    <3> DEFINE s == [auth.sup EXCEPT !.resp = "retry"]
    <3>1. auth' = [auth EXCEPT !.sup.resp = "retry"] /\ Leave /\ UNCHANGED <<server, nops>> /\ Keep
      BY <1>5, <2>2 DEF SupersedeAnswer
    <3>2. auth' = [auth EXCEPT !.sup = s]
      BY <1>1, <3>1 DEF AuthRecords
    <3>3. s \in Supersedes
      BY <2>1 DEF Supersedes
    <3> HIDE DEF s
    <3>4. auth' \in AuthRecords /\ SameSession(auth, auth') /\ Pending(auth')
      BY <1>1, <3>2, <3>3, SupFacts, TicketKept
    <3>5. host' = host /\ host \in Hosts /\ UNCHANGED <<starter, tunnel, installer, server, nops>>
      BY <3>1, Typed DEF Keep
    <3> QED
      BY <3>1, <3>4, <3>5, Leaves
  <2>3. CASE task.got # "retry"
    <3> DEFINE a == Superseded(auth, journal.sup)
    <3>1. Save(a) /\ Go("successor") /\ Local
      BY <1>5, <2>3 DEF SupersedeAnswer
    <3>2. journal.sup \in Ops
      BY <1>1, <1>2, SwitchAssumption DEF Journals, Ops
    <3>3. a \in AuthRecords /\ SameSession(auth, a) /\ Pending(a)
      BY <1>1, <2>1, <3>2, SupersededFacts, TicketKept
    <3> HIDE DEF a
    <3>4. task' \in Tasks /\ task'.pc = "successor" /\ task'.kind = task.kind
      BY <1>1, <3>1, GoFacts DEF Pcs
    <3>5. journal' = journal /\ upd' = upd
      BY <3>1 DEF Save
    <3>6. Placed' /\ Carried'
      BY <1>1, <1>2, <3>4, <3>5 DEF SwInv, Placed, Carried, StopPcs, ServerPcs, ResumePcs
    <3>7. /\ Keep /\ gate' = gate /\ nops' \in 0 .. MaxOps /\ panel' = panel
          /\ net' \subseteq Wires
      BY <3>1, Typed DEF Local, server
    <3> QED
      BY <3>1, <3>3, <3>4, <3>6, <3>7, RecordSaved
  <2> QED
    BY <2>2, <2>3
<1> QED
  BY <1>4, <1>5

LEMMA SuccessorStep ==
  ASSUME SwInv, Successor
  PROVE  SwInv' /\ HStep
<1>1. /\ journal \in Journals /\ task \in Tasks /\ auth \in AuthRecords /\ Silent
      /\ task.pc = "successor"
  BY AtServer DEF Successor, At, ServerPcs
<1>2. journal.sup \in Ops /\ journal.suptgt \in Targets
  <2>1. journal.sup # 0 /\ journal.suptgt # None
    BY Zenon, <1>1 DEF SwInv, Carried
  <2>2. journal.sup \in 0 .. MaxOps /\ journal.suptgt \in Targets \cup {None}
    BY Zenon, <1>1 DEF Journals
  <2> QED BY <2>1, <2>2, SwitchAssumption DEF Ops
<1>3. CASE Fail
  BY <1>3, Fails
<1>4. CASE ~Fail
  <2> DEFINE n == nops + 1
  <2> DEFINE f == FALSE
  <2> DEFINE req == [op |-> journal.sup, src |-> Scope(auth), tgt |-> journal.suptgt]
  <2> DEFINE j == [journal EXCEPT !.req = req, !.retry = f, !.rid = n, !.dec = "apply",
                                  !.phase = "AuthResuming"]
  <2>1. Fresh /\ Write(j) /\ Go("acknowledge") /\ gate' = gate /\ UNCHANGED server /\ Keep
    BY <1>4 DEF Successor
  <2>2. n \in 0 .. MaxOps /\ n # 0 /\ nops' \in 0 .. MaxOps
    BY <2>1, Typed, FreshFacts, SwitchAssumption DEF Ops
  <2>3. "apply" \in Decisions /\ "apply" # None /\ f \in BOOLEAN /\ "AuthResuming" \in Phases
    BY SwitchAssumption DEF Decisions, Phases
  <2>4. req \in Requests
    BY <1>1, <1>2, ScopeType DEF Requests
  <2> HIDE DEF n, f, req
  <2>5. j \in Journals
    BY <1>1, <2>2, <2>3, <2>4 DEF Journals
  <2>6. j.phase = "AuthResuming" /\ j.rid = n /\ j.dec = "apply" /\ j # None
    BY <1>1, <2>5, SwitchAssumption DEF Journals
  <2>7. task' \in Tasks /\ task'.pc = "acknowledge" /\ task'.kind = task.kind
    BY <1>1, <2>1, GoFacts DEF Pcs
  <2>8. journal' = j /\ upd' = upd
    BY <2>1 DEF Write
  <2> HIDE DEF j
  <2>9. Placed' /\ Carried'
    BY <2>2, <2>3, <2>6, <2>7, <2>8
       DEF SwInv, Placed, Prepared, Carried, StopPcs, ServerPcs, ResumePcs
  <2>10. gate' \in {"free", "switch", "start"} /\ starter # "starting"
    BY <1>1, <2>1, Typed DEF Silent
  <2> QED
    BY <1>1, <2>1, <2>2, <2>5, <2>7, <2>9, <2>10, JournalWritten
<1> QED
  BY <1>3, <1>4
=============================================================================
