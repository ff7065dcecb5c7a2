------------------------- MODULE RuntimeSwitchProofs -------------------------
(***************************************************************************)
(* Proofs about RuntimeSwitch: the types of everything the switch keeps    *)
(* and sends, and that the switch with all its durable steps implements    *)
(* Handover, for any containers, slots and bounds.  The invariant and the  *)
(* steps of a request until its decision are in RuntimeSwitchSteps.        *)
(***************************************************************************)
EXTENDS RuntimeSwitchSteps

-----------------------------------------------------------------------------
(* AuthResuming.                                                           *)

(* What the steps of a prepared resume find: no tunnel, and a ticket.      *)
LEMMA AtResume ==
  ASSUME SwInv, task.pc \in ResumePcs
  PROVE  /\ journal \in Journals /\ journal # None /\ journal.phase = "AuthResuming"
         /\ journal.rid # 0 /\ journal.dec # None /\ Busy /\ Silent
         /\ ResumeArgs \in Resumes /\ journal.req \in Requests
         /\ task \in Tasks /\ auth \in AuthRecords /\ Pending(auth)
<1>1. /\ journal \in Journals /\ journal # None /\ journal.phase = "AuthResuming"
      /\ journal.rid # 0 /\ journal.dec # None
  BY Typed DEF SwInv, Placed, Prepared
<1>2. Busy /\ Silent
  BY <1>1 DEF SwInv, Stilled, Busy, Stopped
<1>3. /\ journal.rid \in Ops /\ journal.dec \in Decisions /\ journal.req \in Requests
      /\ journal.src.tgt \in Targets
  BY <1>1, SwitchAssumption DEF Journals, Ops, Scopes
<1>4. ResumeArgs \in Resumes
  BY <1>3 DEF ResumeArgs, Resumes, Requests, Scopes
<1> QED
  BY <1>1, <1>2, <1>3, <1>4, Typed

(* A step of the resume phase after which nothing more is asked.           *)
LEMMA ResumeFits ==
  ASSUME SwInv, journal' # None, journal'.phase = "AuthResuming", Prepared(journal'), upd' = upd,
         task'.kind = task.kind,
         task'.pc \in {"acknowledge", "clear", "resume", "compare", "select", "complete"}
  PROVE  Placed' /\ Carried' /\ task'.pc # "stopped"
  BY DEF SwInv, Placed, Carried, StopPcs, ServerPcs, ResumePcs

LEMMA FinishSupersedeStep ==
  ASSUME SwInv, FinishSupersede
  PROVE  SwInv' /\ HStep
<1>1. /\ journal # None /\ journal.phase = "AuthResuming"
      /\ task \in Tasks /\ auth \in AuthRecords /\ Pending(auth)
  BY AtResume DEF FinishSupersede, At, ResumePcs
<1>2. CASE Fail
  BY <1>2, Fails
<1>3. CASE ~Fail
  <2> DEFINE a == [auth EXCEPT !.sup = None]
  <2>1. Save(a) /\ Go("clear") /\ Local
    BY <1>3 DEF FinishSupersede
  <2>2. a \in AuthRecords /\ SameSession(auth, a) /\ Pending(a)
    BY <1>1, SupFacts, TicketKept
  <2> HIDE DEF a
  <2>3. task' \in Tasks /\ task'.pc = "clear" /\ task'.kind = task.kind
    BY <1>1, <2>1, GoFacts DEF Pcs
  <2>4. journal' = journal /\ upd' = upd
    BY <2>1 DEF Save
  <2>5. Placed' /\ Carried' /\ task'.pc # "stopped"
    BY <1>1, <2>3, <2>4, ResumeFits DEF SwInv, Placed
  <2>6. /\ Keep /\ gate' = gate /\ nops' \in 0 .. MaxOps /\ panel' = panel
        /\ net' \subseteq Wires
    BY <2>1, Typed DEF Local, server
  <2> QED
    BY <2>1, <2>2, <2>3, <2>5, <2>6, RecordSaved
<1> QED
  BY <1>2, <1>3

LEMMA ClearSupersedeStep ==
  ASSUME SwInv, ClearSupersede
  PROVE  SwInv' /\ HStep
<1> DEFINE j == [journal EXCEPT !.sup = 0, !.suptgt = None]
<1>1. /\ journal \in Journals /\ journal.phase = "AuthResuming" /\ journal.rid # 0
      /\ journal.dec # None /\ Silent /\ task \in Tasks
  BY AtResume DEF ClearSupersede, At, ResumePcs
<1>2. Write(j) /\ Go("loop") /\ Local
  BY DEF ClearSupersede
<1>3. j \in Journals
  <2>1. 0 \in 0 .. MaxOps
    BY SwitchAssumption
  <2> QED
    BY <1>1, <2>1 DEF Journals
<1>4. j.phase = "AuthResuming" /\ j.rid = journal.rid /\ j.dec = journal.dec
  BY <1>1 DEF Journals
<1>5. task' \in Tasks /\ task'.pc = "loop" /\ task'.kind = task.kind
  BY <1>1, <1>2, GoFacts DEF Pcs
<1>6. journal' = j /\ upd' = upd
  BY <1>2 DEF Write
<1> HIDE DEF j
<1>7. Placed' /\ Carried' /\ task'.pc # "stopped"
  BY <1>1, <1>4, <1>5, <1>6, PlainFits DEF SwInv, Carried, Prepared, Plain
<1>8. /\ gate' \in {"free", "switch", "start"} /\ nops' \in 0 .. MaxOps /\ Keep
      /\ UNCHANGED server /\ starter # "starting"
  BY <1>1, <1>2, Typed DEF Local, Silent
<1> QED
  BY <1>1, <1>2, <1>3, <1>5, <1>7, <1>8, JournalWritten

LEMMA CancelPreparedStep ==
  ASSUME SwInv, CancelPrepared
  PROVE  SwInv' /\ HStep
<1> DEFINE n == nops + 1
<1> DEFINE f == FALSE
<1> DEFINE j == [journal EXCEPT !.dec = "cancel", !.rid = n, !.retry = f]
<1>1. /\ journal \in Journals /\ journal.phase = "AuthResuming" /\ Silent /\ task \in Tasks
  BY AtResume DEF CancelPrepared, At, ResumePcs
<1>2. Fresh /\ Write(j) /\ Go("loop") /\ gate' = gate /\ UNCHANGED server /\ Keep
  BY DEF CancelPrepared
<1>3. n \in 0 .. MaxOps /\ n # 0 /\ nops' \in 0 .. MaxOps
  BY <1>2, Typed, FreshFacts, SwitchAssumption DEF Ops
<1>4. "cancel" \in Decisions /\ "cancel" # None /\ f \in BOOLEAN
  BY SwitchAssumption DEF Decisions
<1> HIDE DEF n, f
<1>5. j \in Journals
  BY <1>1, <1>3, <1>4 DEF Journals
<1>6. j.phase = "AuthResuming" /\ j.rid = n /\ j.dec = "cancel"
  BY <1>1 DEF Journals
<1>7. task' \in Tasks /\ task'.pc = "loop" /\ task'.kind = task.kind
  BY <1>1, <1>2, GoFacts DEF Pcs
<1>8. journal' = j /\ upd' = upd
  BY <1>2 DEF Write
<1> HIDE DEF j
<1>9. Placed' /\ Carried' /\ task'.pc # "stopped"
  BY <1>3, <1>4, <1>6, <1>7, <1>8, PlainFits DEF SwInv, Carried, Prepared, Plain
<1>10. gate' \in {"free", "switch", "start"} /\ starter # "starting"
  BY <1>1, <1>2, Typed DEF Silent
<1> QED
  BY <1>1, <1>2, <1>3, <1>5, <1>7, <1>9, <1>10, JournalWritten

(* A resume is dispatched with the session's own generation, for the       *)
(* authority that was clean.                                               *)
LEMMA ResumeStep ==
  ASSUME SwInv, Resume
  PROVE  SwInv' /\ HStep
<1> DEFINE t == ResumeArgs
<1> DEFINE e == Authority(auth, t.of)
<1> DEFINE historical == e.req.src # Scope(auth)
<1> DEFINE w == [kind |-> IF historical THEN "replay" ELSE "resume", body |-> t,
                 epoch |-> e.req.src.epoch]
<1> DEFINE a == IF historical THEN auth ELSE [auth EXCEPT !.pend = t]
<1> DEFINE compared ==
      \E s \in {Scope(auth), None} :
        /\ task' = [task EXCEPT !.pc = "compare", !.scope = s]
        /\ UNCHANGED durable /\ Local
<1> DEFINE sent ==
      /\ Save(a) /\ task' = [task EXCEPT !.pc = "resumed", !.wire = w] /\ Send(w)
      /\ gate' = gate /\ nops' = nops /\ Keep
      /\ Clean(auth, t.of)
      /\ ~historical => MayResume(auth, t, t.tgt = Here)
<1>1. /\ journal # None /\ journal.phase = "AuthResuming" /\ t \in Resumes
      /\ task \in Tasks /\ auth \in AuthRecords /\ Pending(auth) /\ Prepared(journal)
  BY AtResume DEF Resume, At, ResumePcs, SwInv, Placed
<1>2. \/ Fail
      \/ Go("acknowledge") /\ UNCHANGED durable /\ Local
      \/ compared
      \/ sent
  BY DEF Resume
<1>3. CASE Fail
  BY <1>3, Fails
<1>4. CASE Go("acknowledge") /\ UNCHANGED durable /\ Local
  <2>1. task' \in Tasks /\ task'.pc = "acknowledge" /\ task'.kind = task.kind
    BY <1>1, <1>4, GoFacts DEF Pcs
  <2>2. Placed' /\ Carried' /\ task'.pc # "stopped"
    BY <1>1, <1>4, <2>1, ResumeFits DEF durable
  <2> QED
    BY <1>4, <2>1, <2>2, TaskMoves
<1>5. CASE compared
  <2>1. PICK s \in {Scope(auth), None} :
          task' = [task EXCEPT !.pc = "compare", !.scope = s] /\ UNCHANGED durable /\ Local
    BY <1>5
  <2>2. s \in Scopes \cup {None} /\ "compare" \in Pcs
    BY <1>1, ScopeType DEF Pcs
  <2>3. task' \in Tasks /\ task'.pc = "compare" /\ task'.kind = task.kind
    BY <1>1, <2>1, <2>2 DEF Tasks
  <2>4. Placed' /\ Carried' /\ task'.pc # "stopped"
    BY <1>1, <2>1, <2>3, ResumeFits DEF durable
  <2> QED
    BY <2>1, <2>3, <2>4, TaskMoves
<1>6. CASE sent
  <2>1. Holds(auth, t.of)
    BY <1>6 DEF Clean
  <2>2. e.req.src.epoch \in 0 .. MaxEpoch
    BY <1>1, <2>1, AuthorityFacts DEF Authorities, Requests, Scopes
  <2>3. w \in Wires /\ w.kind \in {"resume", "replay"}
    <3> DEFINE k == IF historical THEN "replay" ELSE "resume"
    <3> DEFINE n == e.req.src.epoch
    <3>1. k \in {"resume", "replay"} /\ n \in 0 .. MaxEpoch /\ w = [kind |-> k, body |-> t, epoch |-> n]
      BY <2>2
    <3> HIDE DEF k, n, t, w
    <3> QED
      BY <1>1, <3>1 DEF Wires
  <2>4. a \in AuthRecords /\ SameSession(auth, a) /\ Pending(a)
    <3>1. CASE historical
      BY <1>1, <3>1 DEF SameSession
    <3>2. CASE ~historical
      <4>1. a = [auth EXCEPT !.pend = t] /\ Active(auth) /\ auth.gen = t.gen
        BY <1>6, <3>2 DEF MayResume
      <4> HIDE DEF t, a
      <4>2. /\ a \in AuthRecords /\ SameSession(auth, a) /\ a.pend = t
            /\ Holds(a, t.of)
        BY <1>1, <2>1, <4>1, PendFacts
      <4>3. Pending(a)
        BY <4>1, <4>2 DEF Pending, SameSession, Active
      <4> QED
        BY <4>2, <4>3
    <3> QED
      BY <3>1, <3>2
  <2>5. /\ Save(a) /\ task' = [task EXCEPT !.pc = "resumed", !.wire = w] /\ Send(w)
        /\ gate' = gate /\ nops' = nops /\ Keep /\ "resumed" \in Pcs
    BY <1>6 DEF Pcs
  <2> HIDE DEF w, a
  <2>6. task' \in Tasks /\ task'.pc = "resumed" /\ task'.kind = task.kind /\ task'.wire = w
    BY <1>1, <2>3, <2>5, WaitFacts
  <2>7. journal' = journal /\ upd' = upd /\ w # None
    BY <2>3, <2>5, SwitchAssumption DEF Save
  <2>8. Placed' /\ Carried'
    BY <1>1, <2>3, <2>6, <2>7 DEF SwInv, Placed, Carried, StopPcs, ServerPcs, ResumePcs
  <2>9. nops' \in 0 .. MaxOps /\ panel' = panel /\ net' \subseteq Wires
    BY <2>3, <2>5, Typed DEF Send
  <2> QED
    BY <2>4, <2>5, <2>6, <2>8, <2>9, RecordSaved
<1> QED
  BY <1>2, <1>3, <1>4, <1>5, <1>6

(* The answer of a resume is the one step that moves the session: no       *)
(* tunnel runs, and the ticket is of the session's generation.             *)
LEMMA ResumeAnswerStep ==
  ASSUME SwInv, ResumeAnswer
  PROVE  SwInv' /\ HStep
<1> DEFINE t == task.wire.body
<1> DEFINE e == Authority(auth, t.of)
<1>1. /\ journal # None /\ journal.phase = "AuthResuming" /\ Silent
      /\ task \in Tasks /\ auth \in AuthRecords /\ Pending(auth) /\ Prepared(journal)
      /\ task.pc = "resumed"
  BY AtResume DEF ResumeAnswer, Reply, At, ResumePcs, SwInv, Placed
<1>2. t \in Resumes
  <2>1. task.wire \in Wires /\ task.wire.kind \in {"resume", "replay"}
    BY <1>1 DEF SwInv, Carried, Tasks
  <2> QED
    BY <2>1 DEF Wires
<1>3. CASE Fail
  BY <1>3, Fails
<1>4. ASSUME NEW a \in AuthRecords, Pending(a), Save(a), Local, NEW s \in Scopes \cup {None},
             task' = [task EXCEPT !.pc = "compare", !.wire = None, !.got = None, !.scope = s]
      PROVE  SwInv'
  <2>1. "compare" \in Pcs /\ journal' = journal /\ upd' = upd
    BY <1>4 DEF Pcs, Save
  <2>2. task' \in Tasks /\ task'.pc = "compare" /\ task'.kind = task.kind
    BY <1>1, <1>4, <2>1 DEF Tasks
  <2>3. Placed' /\ Carried' /\ task'.pc # "stopped"
    BY <1>1, <2>1, <2>2, ResumeFits
  <2>4. Keep /\ gate' = gate /\ nops' \in 0 .. MaxOps /\ panel' = panel /\ net' \subseteq Wires
    BY <1>4, Typed DEF Local, server
  <2> QED
    BY <1>4, <2>2, <2>3, <2>4, RecordSavedKeeps
<1>5. CASE /\ ~Fail
           /\ task.got = "ok" /\ task.wire.kind = "replay" /\ Holds(auth, t.of) /\ e.ticket = t
           /\ ~e.ev
  <2> DEFINE f == [e EXCEPT !.ev = TRUE]
  <2> DEFINE a == WithAuthority(auth, f)
  <2>1. /\ Save(a) /\ Local
        /\ task' = [task EXCEPT !.pc = "compare", !.wire = None, !.got = None, !.scope = None]
    BY <1>5 DEF ResumeAnswer
  <2>2. e \in Authorities
    BY <1>1, <1>5, AuthorityFacts
  <2> HIDE DEF e
  <2>3. f \in Authorities
    BY <2>2 DEF Authorities
  <2> HIDE DEF f
  <2>4. a \in AuthRecords /\ SameSession(auth, a) /\ Pending(a)
    BY <1>1, <2>3, WithAuthorityFacts, TicketKept
  <2> HIDE DEF a
  <2>5. HStep
    BY <2>1, <2>4, Invisible DEF Save, Local, Keep
  <2> QED
    BY <1>4, <2>1, <2>4, <2>5
<1>6. CASE ~Fail /\ ~(/\ task.got = "ok" /\ task.wire.kind = "replay" /\ Holds(auth, t.of)
                      /\ e.ticket = t /\ ~e.ev)
  <2> DEFINE a == Resumed(auth, t)
  <2> DEFINE s == Scope(a)
  <2>1. /\ Save(a) /\ Local /\ Active(auth) /\ auth.pend = t
        /\ task' = [task EXCEPT !.pc = "compare", !.wire = None, !.got = None, !.scope = s]
    BY <1>6 DEF ResumeAnswer
  <2>2. t.gen = auth.gen /\ Holds(auth, t.of)
    BY <1>1, <1>2, <2>1 DEF Pending
  <2> HIDE DEF t
  <2>3. /\ a \in AuthRecords /\ Pending(a) /\ a.state = auth.state /\ a.epoch = auth.epoch
        /\ a.tgt = t.tgt /\ a.gen = t.gen + 1
    BY <1>1, <1>2, <2>1, <2>2, ResumedFacts
  <2>4. s \in Scopes
    BY <2>3, ScopeType
  <2> HIDE DEF a
  <2>5. HStep
    <3> DEFINE ses == IF Active(auth) THEN Scope(auth) ELSE None
    <3> DEFINE run == tunnel \/ starter = "starting"
    <3>1. auth' = a /\ tunnel' = tunnel /\ starter' = starter
      BY <2>1 DEF Save, Local, Keep
    <3>2. ses = Scope(auth) /\ ses # None /\ ~run /\ ~run'
      BY <1>1, <2>1, <3>1, ScopeType DEF Silent
    <3>3. ses' = Scope(a)
      BY <2>1, <2>3, <3>1 DEF Active
    <3>4. Scope(a) = [Scope(auth) EXCEPT !.tgt = t.tgt, !.gen = @ + 1]
      <4> DEFINE g == auth.gen + 1
      <4>1. Scope(auth).gen + 1 = g /\ a.gen = g
        BY <2>2, <2>3 DEF Scope
      <4> HIDE DEF g
      <4>2. [Scope(auth) EXCEPT !.tgt = t.tgt, !.gen = @ + 1] =
              [Scope(auth) EXCEPT !.tgt = t.tgt, !.gen = g]
        BY <4>1
      <4>3. [Scope(auth) EXCEPT !.tgt = t.tgt, !.gen = g] =
              [epoch |-> auth.epoch, tgt |-> t.tgt, gen |-> g]
        <5> DEFINE y == t.tgt
        <5> DEFINE sc == Scope(auth)
        <5>1. sc \in Scopes /\ sc.epoch = auth.epoch
          BY <1>1, ScopeType DEF Scope
        <5> HIDE DEF y, sc
        <5> DEFINE u == [sc EXCEPT !.tgt = y]
        <5>2. u = [epoch |-> sc.epoch, tgt |-> y, gen |-> sc.gen]
          BY <5>1 DEF Scopes
        <5> HIDE DEF u
        <5>3. [u EXCEPT !.gen = g] = [epoch |-> sc.epoch, tgt |-> y, gen |-> g]
          BY <5>2
        <5> QED
          BY <5>1, <5>3 DEF y, sc, u
      <4>4. Scope(a) = [epoch |-> auth.epoch, tgt |-> t.tgt, gen |-> g]
        BY <2>3, <4>1 DEF Scope
      <4> QED
        BY <4>2, <4>3, <4>4
    <3>5. t.tgt \in Targets
      BY <1>2 DEF Resumes
    <3>6. /\ ses # None /\ ~run
          /\ \E x \in Targets : ses' = [ses EXCEPT !.tgt = x, !.gen = @ + 1]
          /\ auth'.epoch = auth.epoch /\ run' = run
      BY <2>3, <3>1, <3>2, <3>3, <3>4, <3>5
    <3>7. H!Move
      BY <3>6 DEF H!Move
    <3> QED
      BY <3>7 DEF HStep, H!Next
  <2> HIDE DEF s
  <2> QED
    BY <1>4, <2>1, <2>3, <2>4, <2>5
<1> QED
  BY <1>3, <1>5, <1>6

LEMMA ReprepareStep ==
  ASSUME SwInv, Reprepare
  PROVE  SwInv' /\ HStep
<1> DEFINE fresh == [op |-> nops + 1, src |-> Scope(auth), tgt |-> Desired]
<1> DEFINE same == journal.dec = "cancel" \/ ResumeArgs.tgt = Desired
<1>1. /\ journal # None /\ journal.phase = "AuthResuming"
      /\ task \in Tasks /\ auth \in AuthRecords /\ Pending(auth) /\ Prepared(journal)
  BY AtResume DEF Reprepare, At, ResumePcs, SwInv, Placed
<1>2. CASE Fail
  BY <1>2, Fails
<1>3. CASE ~Fail /\ same
  <2>1. /\ task.scope # None /\ Go("bind") /\ UNCHANGED durable /\ Local
        /\ journal' = journal /\ upd' = upd
    BY <1>3 DEF Reprepare, durable
  <2>2. task' \in Tasks /\ task'.pc = "bind" /\ task'.kind = task.kind /\ task'.scope = task.scope
    BY <1>1, <2>1, GoFacts DEF Pcs
  <2>3. Placed' /\ Carried'
    BY <1>1, <2>1, <2>2 DEF SwInv, Placed, Carried, StopPcs, ServerPcs, ResumePcs
  <2> QED
    BY <2>1, <2>2, <2>3, TaskMoves
<1>4. CASE ~Fail /\ ~same
  <2> DEFINE next == Reprepared(auth, fresh)
  <2>1. /\ IF OfScope(auth) = {} THEN Save(Capture(auth, fresh)) /\ Fresh
                                 ELSE Save(auth) /\ UNCHANGED nops
        /\ task' = [task EXCEPT !.pc = "advance", !.next = next]
        /\ gate' = gate /\ UNCHANGED server /\ Keep
    BY <1>4 DEF Reprepare
  <2>2. OfScope(auth) = {} => fresh \in Requests /\ nops' \in 0 .. MaxOps
    <3> SUFFICES ASSUME OfScope(auth) = {} PROVE fresh \in Requests /\ nops' \in 0 .. MaxOps
      OBVIOUS
    <3> DEFINE n == nops + 1
    <3>1. n \in Ops /\ nops' \in 0 .. MaxOps
      BY <2>1, Typed, FreshFacts
    <3>2. Scope(auth) \in Scopes /\ Desired \in Targets
      BY <1>1, ScopeType, DesiredType
    <3>3. fresh = [op |-> n, src |-> Scope(auth), tgt |-> Desired]
      OBVIOUS
    <3> HIDE DEF n, fresh
    <3> QED
      BY <3>1, <3>2, <3>3 DEF Requests
  <2> HIDE DEF fresh
  <2>3. next \in Requests
    <3>1. CASE OfScope(auth) = {}
      BY <2>2, <3>1 DEF Reprepared
    <3>2. CASE OfScope(auth) # {}
      <4>1. (CHOOSE x \in OfScope(auth) : TRUE) \in OfScope(auth)
        BY <3>2
      <4>2. (CHOOSE x \in OfScope(auth) : TRUE) \in Authorities
        BY <1>1, <4>1 DEF OfScope, AuthRecords
      <4> QED
        BY <3>2, <4>2 DEF Reprepared, Authorities
    <3> QED
      BY <3>1, <3>2
  <2>4. next # None /\ "advance" \in Pcs
    BY <2>3, SwitchAssumption DEF Pcs
  <2> HIDE DEF next
  <2>5. task' \in Tasks /\ task'.pc = "advance" /\ task'.kind = task.kind /\ task'.next = next
    BY <1>1, <2>1, <2>3, <2>4 DEF Tasks
  <2>6. journal' = journal /\ upd' = upd
    BY <2>1 DEF Save
  <2>7. Placed' /\ Carried'
    BY <1>1, <2>4, <2>5, <2>6 DEF SwInv, Placed, Carried, StopPcs, ServerPcs, ResumePcs
  <2>8. nops' \in 0 .. MaxOps /\ panel' = panel /\ net' \subseteq Wires
    BY <2>1, <2>2, Typed DEF server
  <2>9. CASE OfScope(auth) = {}
    <3> DEFINE a == Capture(auth, fresh)
    <3>1. a \in AuthRecords /\ SameSession(auth, a) /\ Pending(a)
      BY <1>1, <2>2, <2>9, CaptureFacts, TicketKept
    <3>2. Save(a)
      BY <2>1, <2>9
    <3> HIDE DEF a
    <3> QED
      BY <2>1, <2>5, <2>7, <2>8, <3>1, <3>2, RecordSaved
  <2>10. CASE OfScope(auth) # {}
    <3>1. Save(auth) /\ SameSession(auth, auth)
      BY <2>1, <2>10 DEF SameSession
    <3> QED
      BY <1>1, <2>1, <2>5, <2>7, <2>8, <3>1, RecordSaved
  <2> QED
    BY <2>9, <2>10
<1> QED
  BY <1>2, <1>3, <1>4

LEMMA AdvanceRequestStep ==
  ASSUME SwInv, AdvanceRequest
  PROVE  SwInv' /\ HStep
<1> DEFINE f == FALSE
<1> DEFINE j == [journal EXCEPT !.req = task.next, !.rid = 0, !.dec = None, !.retry = f, !.sup = 0,
                                !.suptgt = None, !.phase = "ServerReconciling"]
<1>1. journal \in Journals /\ Silent /\ task \in Tasks /\ task.pc = "advance"
  BY AtResume DEF AdvanceRequest, At, ResumePcs
<1>2. Write(j) /\ Go("loop") /\ Local
  BY DEF AdvanceRequest
<1>3. /\ task.next \in Requests /\ 0 \in 0 .. MaxOps /\ f \in BOOLEAN
      /\ "ServerReconciling" \in Phases
  BY <1>1, SwitchAssumption DEF SwInv, Carried, Tasks, Phases
<1> HIDE DEF f
<1>4. j \in Journals
  BY <1>1, <1>3 DEF Journals
<1>5. j.phase = "ServerReconciling"
  BY <1>1 DEF Journals
<1>6. task' \in Tasks /\ task'.pc = "loop" /\ task'.kind = task.kind
  BY <1>1, <1>2, GoFacts DEF Pcs
<1>7. journal' = j /\ upd' = upd
  BY <1>2 DEF Write
<1> HIDE DEF j
<1>8. Placed' /\ Carried' /\ task'.pc # "stopped"
  BY <1>5, <1>6, <1>7, PlainFits DEF SwInv, Carried, Prepared, Plain
<1>9. /\ gate' \in {"free", "switch", "start"} /\ nops' \in 0 .. MaxOps /\ Keep
      /\ UNCHANGED server /\ starter # "starting"
  BY <1>1, <1>2, Typed DEF Local, Silent
<1> QED
  BY <1>1, <1>2, <1>4, <1>6, <1>8, <1>9, JournalWritten

(* The runtime records that are written are records.                       *)
LEMMA RuntimeRecordTypes ==
  /\ \A s \in Scopes \cup {None} : Binding(s) \in RuntimeRecords
  /\ \A b \in BOOLEAN : Empty(b) \in RuntimeRecords
<1>1. ASSUME NEW s \in Scopes \cup {None}
      PROVE  Binding(s) \in RuntimeRecords
  BY DEF Binding, RuntimeRecords
<1>2. ASSUME NEW b \in BOOLEAN
      PROVE  Empty(b) \in RuntimeRecords
  BY DEF Empty, RuntimeRecords
<1> QED
  BY <1>1, <1>2

(* Writing a runtime record removes none.                                  *)
LEMMA RecordWritten ==
  ASSUME rt \in [Records -> RuntimeRecords \cup {None}], NEW r, NEW v \in RuntimeRecords
  PROVE  /\ [rt EXCEPT ![r] = v] \in [Records -> RuntimeRecords \cup {None}]
         /\ \A x \in Records : rt[x] # None => [rt EXCEPT ![r] = v][x] # None
<1>1. v # None
  BY SwitchAssumption
<1> QED
  BY <1>1

LEMMA BindTargetStep ==
  ASSUME SwInv, BindTarget
  PROVE  SwInv' /\ HStep
<1> DEFINE v == Binding(task.scope)
<1>1. /\ journal # None /\ journal.phase = "AuthResuming" /\ task \in Tasks
      /\ Prepared(journal) /\ task.pc = "bind"
  BY AtResume DEF BindTarget, At, ResumePcs, SwInv, Placed
<1>2. task.scope # None /\ v \in RuntimeRecords
  BY <1>1, RuntimeRecordTypes DEF SwInv, Carried, Tasks
<1>3. CASE Fail
  BY <1>3, Fails
<1>4. CASE ~Fail
  <2> HIDE DEF v
  <2>1. /\ rt' = [rt EXCEPT ![RecordOf(Here)] = v]
        /\ task' = [task EXCEPT !.pc = "release"] /\ gate' = "switch"
        /\ host' = [host EXCEPT !.admitted = None]
        /\ UNCHANGED <<installed, sel, journal, upd, auth, starter, tunnel, installer, panel, net,
                       nops>>
    BY <1>4 DEF BindTarget, server, v
  <2>2. /\ rt' \in [Records -> RuntimeRecords \cup {None}]
        /\ \A r \in Records : rt[r] # None => rt'[r] # None
    BY <1>2, <2>1, Typed, RecordWritten
  <2>3. host' \in Hosts /\ host'.up = host.up /\ host'.cv = host.cv /\ host'.slot = host.slot
    BY <2>1, Typed, AdmittedFacts
  <2>4. "release" \in Pcs
    BY DEF Pcs
  <2>5. /\ task' \in Tasks /\ task'.pc = "release" /\ task'.kind = task.kind
        /\ task'.scope = task.scope
    BY <1>1, <2>1, <2>4 DEF Tasks
  <2>6. Placed' /\ Carried'
    BY <1>1, <1>2, <2>1, <2>5 DEF SwInv, Placed, Carried, StopPcs, ServerPcs, ResumePcs
  <2> QED
    BY <2>1, <2>2, <2>3, <2>5, <2>6, HostMoves
<1> QED
  BY <1>3, <1>4

LEMMA ReleaseSourceStep ==
  ASSUME SwInv, ReleaseSource
  PROVE  SwInv' /\ HStep
<1>1. /\ journal # None /\ journal.phase = "AuthResuming" /\ task \in Tasks
      /\ Prepared(journal) /\ task.pc = "release"
  BY AtResume DEF ReleaseSource, At, ResumePcs, SwInv, Placed
<1>2. task.scope \in Scopes \cup {None}
  BY <1>1 DEF Tasks
<1>3. CASE Fail
  BY <1>3, Fails
<1>4. CASE ~Fail
  <2> DEFINE from == RecordOf(journal.src.tgt)
  <2> DEFINE v == Empty(FALSE)
  <2>1. /\ rt' = rt \/ rt' = [rt EXCEPT ![from] = v]
        /\ task' = [task EXCEPT !.pc = "select"] /\ gate' = "free"
        /\ host' = [host EXCEPT !.admitted = task.scope]
        /\ UNCHANGED <<installed, sel, journal, upd, auth, starter, tunnel, installer, panel, net,
                       nops>>
    BY <1>4 DEF ReleaseSource, server
  <2>2. v \in RuntimeRecords
    BY RuntimeRecordTypes
  <2> HIDE DEF v
  <2>3. /\ rt' \in [Records -> RuntimeRecords \cup {None}]
        /\ \A r \in Records : rt[r] # None => rt'[r] # None
    BY <2>1, <2>2, Typed, RecordWritten
  <2>4. host' \in Hosts /\ host'.up = host.up /\ host'.cv = host.cv /\ host'.slot = host.slot
    BY <1>2, <2>1, Typed, AdmittedFacts
  <2>5. "select" \in Pcs
    BY DEF Pcs
  <2>6. task' \in Tasks /\ task'.pc = "select" /\ task'.kind = task.kind
    BY <1>1, <2>1, <2>5 DEF Tasks
  <2>7. Placed' /\ Carried' /\ task'.pc # "stopped"
    BY <1>1, <2>1, <2>6, ResumeFits
  <2> QED
    BY <2>1, <2>3, <2>4, <2>6, <2>7, HostMoves
<1> QED
  BY <1>3, <1>4

(* The selection is written.                                               *)
LEMMA SelectionWritten ==
  ASSUME SwInv, sel' \in Targets, UNCHANGED <<installed, journal, upd, auth, rt>>, Local,
         task' \in Tasks, Placed', Carried', task'.pc # "stopped"
  PROVE  SwInv' /\ HStep
<1>1. /\ host' = host /\ starter' = starter /\ tunnel' = tunnel
      /\ installer' = installer /\ gate' = gate /\ panel' = panel /\ net' = net /\ nops' = nops
  BY DEF Local, Keep, server
<1>2. Types'
  BY <1>1 DEF SwInv, Types, TypeOK
<1>3. Pending(auth)' /\ Stored'
  BY <1>1 DEF SwInv, Pending, Holds, Active, Stored, RecordOf, Here
<1>4. Stilled'
  BY <1>1 DEF SwInv, Stilled, Busy, Silent
<1>5. HStep
  BY <1>1, Invisible DEF SameSession
<1> QED
  BY <1>2, <1>3, <1>4, <1>5 DEF SwInv

LEMMA FinishSelectionStep ==
  ASSUME SwInv, FinishSelection
  PROVE  SwInv' /\ HStep
<1>1. /\ journal # None /\ journal.phase = "AuthResuming" /\ task \in Tasks
      /\ Prepared(journal) /\ ResumeArgs \in Resumes /\ host \in Hosts
  BY AtResume, Typed DEF FinishSelection, At, ResumePcs, SwInv, Placed
<1>2. /\ sel' = [cv |-> host.cv, slot |-> ResumeArgs.tgt.slot] /\ Go("complete")
      /\ UNCHANGED <<installed, journal, upd, auth, rt>> /\ Local
  BY DEF FinishSelection
<1>3. ResumeArgs.tgt.slot \in Slots
  BY <1>1 DEF Resumes, Targets
<1>4. sel' \in Targets
  BY <1>1, <1>2, <1>3 DEF Targets, Hosts
<1>5. task' \in Tasks /\ task'.pc = "complete" /\ task'.kind = task.kind
  BY <1>1, <1>2, GoFacts DEF Pcs
<1>6. Placed' /\ Carried' /\ task'.pc # "stopped"
  BY <1>1, <1>2, <1>5, ResumeFits
<1> QED
  BY <1>2, <1>4, <1>5, <1>6, SelectionWritten

LEMMA CompleteStep ==
  ASSUME SwInv, Complete
  PROVE  SwInv' /\ HStep
<1> DEFINE j == [journal EXCEPT !.phase = "Complete"]
<1>1. journal \in Journals /\ Silent /\ task \in Tasks
  BY AtResume DEF Complete, At, ResumePcs
<1>2. Write(j) /\ Go("loop") /\ Local
  BY DEF Complete
<1>3. j \in Journals /\ j.phase = "Complete"
  BY <1>1, PhaseFacts DEF Phases
<1>4. task' \in Tasks /\ task'.pc = "loop" /\ task'.kind = task.kind
  BY <1>1, <1>2, GoFacts DEF Pcs
<1>5. journal' = j /\ upd' = upd
  BY <1>2 DEF Write
<1> HIDE DEF j
<1>6. Placed' /\ Carried' /\ task'.pc # "stopped"
  BY <1>3, <1>4, <1>5, PlainFits DEF SwInv, Carried, Prepared, Plain
<1>7. /\ gate' \in {"free", "switch", "start"} /\ nops' \in 0 .. MaxOps /\ Keep
      /\ UNCHANGED server /\ starter # "starting"
  BY <1>1, <1>2, Typed DEF Local, Silent
<1> QED
  BY <1>1, <1>2, <1>3, <1>4, <1>6, <1>7, JournalWritten

-----------------------------------------------------------------------------
(* The calls that take the mutex.                                          *)

(* A call begins at a step that asks nothing.                              *)
LEMMA CallStep ==
  ASSUME SwInv, NEW k \in Kinds \ {"undo"}, NEW pc \in Plain, Call(k, pc), Quiet
  PROVE  SwInv' /\ HStep
<1>1. pc \in Pcs /\ host.slot \in Slots
  BY Typed DEF Plain, Pcs, Hosts
<1>2. task' = [Idle EXCEPT !.kind = k, !.pc = pc, !.slot = host.slot]
  BY DEF Call
<1>k. k \in Kinds
  OBVIOUS
<1>c. /\ [Idle EXCEPT !.kind = k, !.pc = pc, !.slot = host.slot] \in Tasks
      /\ [Idle EXCEPT !.kind = k, !.pc = pc, !.slot = host.slot].kind = k
      /\ [Idle EXCEPT !.kind = k, !.pc = pc, !.slot = host.slot].pc = pc
  BY <1>1, <1>k, IdleFacts DEF Tasks
<1>3. task' \in Tasks /\ task'.pc = pc /\ task'.kind = k
  BY <1>2, <1>c, Zenon
<1>4. journal' = journal /\ upd' = upd
  BY DEF Quiet, durable
<1>5. Placed' /\ Carried' /\ task'.pc # "stopped"
  BY <1>3, <1>4, PlainFits DEF SwInv, Placed
<1> QED
  BY <1>3, <1>5, QuietMoves

LEMMA SelectStep ==
  ASSUME SwInv, Select
  PROVE  SwInv' /\ HStep
<1>1. PICK slot \in Slots \ {host.slot} :
        task' = [Idle EXCEPT !.kind = "select", !.pc = "begin", !.slot = slot]
  BY DEF Select
<1>2. "select" \in Kinds /\ "begin" \in Pcs /\ "begin" \in Plain /\ Quiet
  BY DEF Kinds, Pcs, Plain, Select
<1>s. slot \in Slots
  BY <1>1
<1>c. /\ [Idle EXCEPT !.kind = "select", !.pc = "begin", !.slot = slot] \in Tasks
      /\ [Idle EXCEPT !.kind = "select", !.pc = "begin", !.slot = slot].kind = "select"
      /\ [Idle EXCEPT !.kind = "select", !.pc = "begin", !.slot = slot].pc = "begin"
  BY <1>2, <1>s, IdleFacts DEF Tasks
<1>3. task' \in Tasks /\ task'.pc = "begin" /\ task'.kind = "select"
  BY <1>1, <1>c, Zenon
<1>4. journal' = journal /\ upd' = upd
  BY <1>2 DEF Quiet, durable
<1>5. Placed' /\ Carried' /\ task'.pc # "stopped"
  BY <1>2, <1>3, <1>4, PlainFits DEF SwInv, Placed
<1> QED
  BY <1>2, <1>3, <1>5, QuietMoves

(* The intent to cancel is one more field of the journal.                  *)
LEMMA CancelFacts ==
  ASSUME NEW j \in Journals
  PROVE  /\ [j EXCEPT !.cancel = TRUE] \in Journals
         /\ [j EXCEPT !.cancel = TRUE].phase = j.phase
         /\ [j EXCEPT !.cancel = TRUE].force = j.force
         /\ Prepared(j) => Prepared([j EXCEPT !.cancel = TRUE])
<1>1. [j EXCEPT !.cancel = TRUE] \in Journals
  BY DEF Journals
<1>2. /\ [j EXCEPT !.cancel = TRUE].phase = j.phase /\ [j EXCEPT !.cancel = TRUE].force = j.force
      /\ [j EXCEPT !.cancel = TRUE].rid = j.rid /\ [j EXCEPT !.cancel = TRUE].dec = j.dec
  BY DEF Journals
<1>3. j # None
  BY SwitchAssumption
<1> QED
  BY <1>1, <1>2, <1>3 DEF Prepared

LEMMA CancelPendingStep ==
  ASSUME SwInv, CancelPending
  PROVE  SwInv' /\ HStep
<1>1. journal \in Journals /\ Prepared(journal)
  BY Typed DEF CancelPending, SwInv, Placed
<1>2. CASE Busy
  <2> DEFINE j == [journal EXCEPT !.cancel = TRUE]
  <2>1. Call("cancel", "loop") /\ Write(j) /\ gate' = gate /\ UNCHANGED server /\ nops' = nops /\ Keep
    BY <1>2 DEF CancelPending
  <2>2. j \in Journals /\ j.phase = journal.phase /\ j.force = journal.force /\ Prepared(j)
    BY <1>1, CancelFacts
  <2>3. "cancel" \in Kinds /\ "loop" \in Pcs /\ "loop" \in Plain /\ host.slot \in Slots
    BY Typed DEF Kinds, Pcs, Plain, Hosts
  <2>4. task' \in Tasks /\ task'.pc = "loop" /\ task'.kind = "cancel"
    BY <2>1, <2>3, CallFacts DEF Call
  <2>5. journal' = j
    BY <2>1 DEF Write
  <2> HIDE DEF j
  <2>6. Placed' /\ Carried' /\ task'.pc # "stopped"
    BY <2>2, <2>3, <2>4, <2>5, PlainFits
  <2>7. /\ j.phase \in Stopped => Silent
        /\ j.force => starter # "starting"
    BY <1>2, <2>2 DEF SwInv, Stilled
  <2>8. gate' \in {"free", "switch", "start"} /\ nops' \in 0 .. MaxOps
    BY <2>1, Typed
  <2> QED
    BY <2>1, <2>2, <2>4, <2>6, <2>7, <2>8, JournalWritten
<1>3. CASE ~Busy
  <2>1. Call("cancel", "begin") /\ Quiet /\ "cancel" \in Kinds \ {"undo"} /\ "begin" \in Plain
    BY <1>3 DEF CancelPending, Kinds, Plain
  <2> QED
    BY <2>1, CallStep
<1> QED
  BY <1>2, <1>3

LEMMA RestartStep ==
  ASSUME SwInv, Restart
  PROVE  SwInv' /\ HStep
<1>1. Call("restart", IF StopConfirmed THEN "relaunch" ELSE "loop") /\ Quiet
  BY DEF Restart
<1>2. (IF StopConfirmed THEN "relaunch" ELSE "loop") \in Plain /\ "restart" \in Kinds \ {"undo"}
  BY DEF Plain, Kinds
<1> QED
  BY <1>1, <1>2, CallStep

LEMMA PrepareUpdateStep ==
  ASSUME SwInv, PrepareUpdate
  PROVE  SwInv' /\ HStep
<1>1. Call("update", "begin") /\ Quiet /\ "update" \in Kinds \ {"undo"} /\ "begin" \in Plain
  BY DEF PrepareUpdate, Kinds, Plain
<1> QED
  BY <1>1, CallStep

LEMMA RecoverLogoutStep ==
  ASSUME SwInv, RecoverLogout
  PROVE  SwInv' /\ HStep
<1>1. Call("logout", "erase") /\ Quiet /\ "logout" \in Kinds \ {"undo"} /\ "erase" \in Plain
  BY DEF RecoverLogout, Kinds, Plain
<1> QED
  BY <1>1, CallStep

(* A call that undoes an update has one to undo.                           *)
LEMMA UndoFits ==
  ASSUME SwInv, NEW k \in Kinds, Call(k, "undo"), Keep, upd' \in UpdateJournals,
         UNCHANGED <<installed, sel, journal, auth, rt, gate, server, nops>>
  PROVE  SwInv' /\ HStep
<1>1. "undo" \in Pcs /\ host.slot \in Slots
  BY Typed DEF Pcs, Hosts
<1>2. task' = [Idle EXCEPT !.kind = k, !.pc = "undo", !.slot = host.slot]
  BY DEF Call
<1>3. /\ [Idle EXCEPT !.kind = k, !.pc = "undo", !.slot = host.slot] \in Tasks
      /\ [Idle EXCEPT !.kind = k, !.pc = "undo", !.slot = host.slot].kind = k
      /\ [Idle EXCEPT !.kind = k, !.pc = "undo", !.slot = host.slot].pc = "undo"
  BY <1>1, IdleFacts DEF Tasks
<1>4. task' \in Tasks /\ task'.pc = "undo"
  BY <1>2, <1>3, Zenon
<1>5. upd' # None
  BY SwitchAssumption
<1>6. /\ installed' = installed /\ sel' = sel /\ journal' = journal
      /\ auth' = auth /\ rt' = rt /\ host' = host /\ starter' = starter /\ tunnel' = tunnel
      /\ installer' = installer /\ gate' = gate /\ panel' = panel /\ net' = net /\ nops' = nops
  BY DEF Keep, server
<1>7. Types'
  BY <1>4, <1>6 DEF SwInv, Types, TypeOK
<1>8. Pending(auth)' /\ Stored'
  BY <1>6 DEF SwInv, Pending, Holds, Active, Stored, RecordOf, Here
<1>9. Placed' /\ Carried' /\ Stilled'
  BY <1>4, <1>5, <1>6
     DEF SwInv, Placed, Carried, Stilled, Silent, Busy, Prepared, StopPcs, ServerPcs, ResumePcs
<1>10. HStep
  BY <1>6, Invisible DEF SameSession
<1> QED
  BY <1>7, <1>8, <1>9, <1>10 DEF SwInv

LEMMA BeforeTunnelStartStep ==
  ASSUME SwInv, NEW k \in {"ready", "start"}, BeforeTunnelStart(k)
  PROVE  SwInv' /\ HStep
<1>1. Quiet /\ k \in Kinds \ {"undo"} /\ k \in Kinds
  BY DEF BeforeTunnelStart, Kinds
<1>2. CASE UpdateStart = "cancel"
  <2>1. upd # None /\ upd \in UpdateJournals \cup {None}
    BY <1>2, Typed DEF UpdateStart
  <2>2. Call(k, "undo")
    BY <1>2 DEF BeforeTunnelStart
  <2>3. /\ upd' \in UpdateJournals /\ Keep
        /\ UNCHANGED <<installed, sel, journal, auth, rt, gate, server, nops>>
    BY <1>1, <2>1 DEF Quiet, durable
  <2> QED
    BY <1>1, <2>2, <2>3, UndoFits
<1>3. CASE UpdateStart # "cancel"
  <2>1. Call(k, "loop") /\ "loop" \in Plain
    BY <1>3 DEF BeforeTunnelStart, Plain
  <2> QED
    BY <1>1, <2>1, CallStep
<1> QED
  BY <1>2, <1>3

LEMMA InstallerFailedStep ==
  ASSUME SwInv, InstallerFailed
  PROVE  SwInv' /\ HStep
<1>1. upd \in UpdateJournals /\ "undo" \in Kinds
  BY Typed DEF InstallerFailed, Kinds
<1>2. [upd EXCEPT !.phase = "CancelRequested"] \in UpdateJournals
  BY <1>1 DEF UpdateJournals
<1>3. /\ upd' \in UpdateJournals /\ Call("undo", "undo") /\ Keep
      /\ UNCHANGED <<installed, sel, journal, auth, rt, gate, server, nops>>
  BY <1>2 DEF InstallerFailed
<1> QED
  BY <1>1, <1>3, UndoFits

LEMMA CancelUpdateStopStep ==
  ASSUME SwInv, CancelUpdateStop
  PROVE  SwInv' /\ HStep
<1>1. /\ task \in Tasks /\ upd # None /\ task.pc = "undo" /\ Prepared(journal)
      /\ journal \in Journals \cup {None}
  BY Typed DEF CancelUpdateStop, At, SwInv, Carried, Placed
<1>2. CASE Fail
  BY <1>2, Fails
<1>3. CASE Go("restore") /\ UNCHANGED durable /\ Local
  <2>1. task' \in Tasks /\ task'.pc = "restore"
    BY <1>1, <1>3, GoFacts DEF Pcs
  <2>2. journal' = journal /\ upd' = upd
    BY <1>3 DEF durable
  <2>3. Placed' /\ Carried'
    BY <1>1, <2>1, <2>2 DEF Placed, Carried, Prepared, StopPcs, ServerPcs, ResumePcs
  <2> QED
    BY <1>3, <2>1, <2>3, TaskMoves
<1>4. CASE /\ Write([journal EXCEPT !.cancel = TRUE]) /\ Go("loop") /\ Local
           /\ journal # None /\ Busy
  <2> DEFINE j == [journal EXCEPT !.cancel = TRUE]
  <2>1. journal \in Journals
    BY <1>1, <1>4
  <2>2. j \in Journals /\ j.phase = journal.phase /\ j.force = journal.force /\ Prepared(j)
    BY <1>1, <2>1, CancelFacts
  <2>3. task' \in Tasks /\ task'.pc = "loop" /\ task'.kind = task.kind
    BY <1>1, <1>4, GoFacts DEF Pcs
  <2>4. journal' = j /\ upd' = upd /\ "loop" \in Plain /\ Write(j)
    BY <1>4 DEF Write, Plain
  <2> HIDE DEF j
  <2>5. Placed' /\ Carried' /\ task'.pc # "stopped"
    BY <1>1, <2>2, <2>3, <2>4, PlainFits
  <2>6. /\ j.phase \in Stopped => Silent
        /\ j.force => starter # "starting"
    BY <1>4, <2>2 DEF SwInv, Stilled
  <2>7. /\ gate' \in {"free", "switch", "start"} /\ nops' \in 0 .. MaxOps /\ Keep
        /\ UNCHANGED server
    BY <1>4, Typed DEF Local
  <2> QED
    BY <2>2, <2>3, <2>4, <2>5, <2>6, <2>7, JournalWritten
<1> QED
  BY <1>2, <1>3, <1>4 DEF CancelUpdateStop

LEMMA RestoreSelectionStep ==
  ASSUME SwInv, RestoreSelection
  PROVE  SwInv' /\ HStep
<1>1. /\ task \in Tasks /\ upd \in UpdateJournals /\ upd # None /\ Prepared(journal)
      /\ host \in Hosts
  BY Typed DEF RestoreSelection, At, SwInv, Carried, Placed
<1>2. /\ sel' = [cv |-> host.cv, slot |-> upd.slot] /\ Go("finish")
      /\ UNCHANGED <<installed, journal, upd, auth, rt>> /\ Local
  BY DEF RestoreSelection
<1>3. sel' \in Targets
  BY <1>1, <1>2 DEF Targets, Hosts, UpdateJournals
<1>4. task' \in Tasks /\ task'.pc = "finish" /\ task'.kind = task.kind
  BY <1>1, <1>2, GoFacts DEF Pcs
<1>5. "finish" \in Plain
  BY DEF Plain
<1>6. Placed' /\ Carried' /\ task'.pc # "stopped"
  BY <1>1, <1>2, <1>4, <1>5, PlainFits
<1> QED
  BY <1>2, <1>3, <1>4, <1>6, SelectionWritten

(* A process that is down.                                                 *)
LEMMA DownFacts == Down \in Hosts /\ Down.up = "down"
  BY SwitchAssumption DEF Down, Hosts

(* The process is gone: the mutex, the gate and the start go with it.      *)
LEMMA ProcessEnds ==
  ASSUME SwInv, UNCHANGED <<journal, upd, auth, rt, server, nops>>, installed' \in Containers,
         sel' \in Targets, host' = Down, task' = Idle, gate' = "free", starter' = "none",
         tunnel' \in {tunnel, FALSE}, installer' \in Containers \cup {0}
  PROVE  SwInv' /\ HStep
<1>1. host' \in Hosts /\ host'.up = "down" /\ task' \in Tasks /\ task'.pc = "idle"
      /\ task'.kind = "none"
  BY DownFacts, IdleFacts
<1>2. /\ journal' = journal /\ upd' = upd /\ auth' = auth /\ rt' = rt /\ panel' = panel
      /\ net' = net /\ nops' = nops
  BY DEF server
<1>t. tunnel' => tunnel
  BY Zenon
<1>3. Types'
  BY <1>1, <1>2 DEF SwInv, Types, TypeOK
<1>4. Pending(auth)' /\ Stored'
  BY <1>1, <1>2 DEF SwInv, Pending, Holds, Active, Stored
<1>5. Placed' /\ Carried'
  BY <1>1, <1>2, PlainFits DEF SwInv, Placed, Plain
<1>s. starter' # "starting"
  OBVIOUS
<1>6. Stilled'
  BY <1>1, <1>2, <1>t, <1>s DEF SwInv, Stilled, Silent, Busy
<1>7. HStep
  BY <1>2, <1>t, <1>s, Invisible DEF SameSession
<1> QED
  BY <1>3, <1>4, <1>5, <1>6, <1>7 DEF SwInv

LEMMA RelaunchStep ==
  ASSUME SwInv, Relaunch
  PROVE  SwInv' /\ HStep
<1>1. sel' \in Targets
  BY DesiredType DEF Relaunch
<1> QED
  BY <1>1, ProcessEnds, Typed DEF Relaunch

LEMMA CrashStep ==
  ASSUME SwInv, Crash
  PROVE  SwInv' /\ HStep
  BY ProcessEnds, Typed DEF Crash, durable

LEMMA InstallStep ==
  ASSUME SwInv, Install
  PROVE  SwInv' /\ HStep
<1>1. installer \in Containers
  BY Typed DEF Install
<1> QED
  BY <1>1, ProcessEnds, Typed DEF Install

(* What happens outside the mutex leaves the holder where it is.           *)
LEMMA TaskKept ==
  ASSUME SwInv, journal' = journal, task' = task, upd # None => upd' # None,
         \A op : Holds(auth, op) => Holds(auth', op)
  PROVE  Placed' /\ Carried'
<1>1. Placed'
  BY DEF SwInv, Placed, Busy, Prepared
<1>2. Holds(auth, journal.req.op) => Holds(auth', journal.req.op)
  OBVIOUS
<1>3. Carried'
  BY <1>2 DEF SwInv, Carried
<1> QED
  BY <1>1, <1>3

(* It stops what runs, or leaves it.                                       *)
LEMMA StillKept ==
  ASSUME SwInv, journal' = journal, task' = task, Silent => ~tunnel' /\ starter' # "starting",
         starter' = "starting" => starter = "starting"
  PROVE  Stilled'
  BY DEF SwInv, Stilled, Silent, Busy

LEMMA InstallerOpenedStep ==
  ASSUME SwInv, InstallerOpened
  PROVE  SwInv' /\ HStep
<1>1. upd \in UpdateJournals /\ upd # None
  BY Typed DEF InstallerOpened
<1>2. /\ [upd EXCEPT !.phase = "InstallerOpened"] \in UpdateJournals
      /\ upd.to \in Containers
  BY <1>1 DEF UpdateJournals
<1>3. /\ upd' \in UpdateJournals /\ installer' \in Containers
      /\ installed' = installed /\ sel' = sel /\ journal' = journal /\ auth' = auth /\ rt' = rt
      /\ host' = host /\ task' = task /\ gate' = gate /\ starter' = starter /\ tunnel' = tunnel
      /\ panel' = panel /\ net' = net /\ nops' = nops
  BY <1>2 DEF InstallerOpened, server
<1>4. upd' # None /\ (\A op : Holds(auth, op) => Holds(auth', op))
  BY <1>3, SwitchAssumption
<1>5. Types'
  BY <1>3 DEF SwInv, Types, TypeOK
<1>6. Pending(auth)' /\ Stored'
  BY <1>3 DEF SwInv, Pending, Holds, Active, Stored, RecordOf, Here
<1>7. Placed' /\ Carried'
  BY <1>3, <1>4, TaskKept
<1>8. Stilled'
  BY <1>3, StillKept DEF Silent
<1>9. HStep
  BY <1>3, Invisible DEF SameSession
<1> QED
  BY <1>5, <1>6, <1>7, <1>8, <1>9 DEF SwInv

LEMMA FinishStep ==
  ASSUME SwInv, Finish
  PROVE  SwInv' /\ HStep
<1>1. CASE Fail
  BY <1>1, Fails
<1>2. CASE ~Fail
  <2> DEFINE sat == host.satisfied \/ (task.kind \in {"ready", "start"} /\ UpdateStart # "cancel")
  <2> DEFINE rdy == host.ready \/ task.kind = "ready"
  <2>1. /\ task.kind = "update" => upd # None
        /\ upd' = IF task.kind = "update" THEN [upd EXCEPT !.phase = "LocalStopped"] ELSE None
        /\ host' = [host EXCEPT !.satisfied = sat, !.ready = rdy]
        /\ starter' = IF task.kind = "start" THEN "checked" ELSE starter
        /\ task' = Idle
        /\ UNCHANGED <<installed, sel, journal, auth, rt, gate, tunnel, installer, server, nops>>
    BY <1>2 DEF Finish
  <2>2. sat \in BOOLEAN /\ rdy \in BOOLEAN /\ host \in Hosts
    BY Typed DEF Hosts
  <2> HIDE DEF sat, rdy
  <2>3. host' \in Hosts /\ host'.up = host.up /\ host'.cv = host.cv /\ host'.slot = host.slot
    BY <2>1, <2>2 DEF Hosts
  <2>4. upd' \in UpdateJournals \cup {None}
    <3>1. upd # None => [upd EXCEPT !.phase = "LocalStopped"] \in UpdateJournals
      BY Typed DEF UpdateJournals
    <3> QED
      BY <2>1, <3>1
  <2>5. starter' \in {"none", "checked", "starting"} /\ (starter' = "starting" => starter = "starting")
    BY <2>1, Typed
  <2>6. task' \in Tasks /\ task'.pc = "idle" /\ task'.kind = "none"
    BY <2>1, IdleFacts
  <2>7. /\ installed' = installed /\ sel' = sel /\ journal' = journal /\ auth' = auth /\ rt' = rt
        /\ gate' = gate /\ tunnel' = tunnel /\ installer' = installer
        /\ panel' = panel /\ net' = net /\ nops' = nops
    BY <2>1 DEF server
  <2>8. Types'
    BY <2>3, <2>4, <2>5, <2>6, <2>7 DEF SwInv, Types, TypeOK
  <2>9. Pending(auth)' /\ Stored'
    BY <2>3, <2>7 DEF SwInv, Pending, Holds, Active, Stored, RecordOf, Here
  <2>10. Placed' /\ Carried'
    BY <2>6, <2>7, PlainFits DEF SwInv, Placed, Plain
  <2>11. Stilled'
    BY <2>5, <2>6, <2>7 DEF SwInv, Stilled, Silent, Busy
  <2>12. HStep
    BY <2>5, <2>7, Invisible DEF SameSession
  <2> QED
    BY <2>8, <2>9, <2>10, <2>11, <2>12 DEF SwInv
<1> QED
  BY <1>1, <1>2

-----------------------------------------------------------------------------
(* Admission and the tunnel, outside the mutex.                            *)

(* A step outside the mutex keeps the journals and the holder's place.     *)
LEMMA OutsideMoves ==
  ASSUME SwInv, UNCHANGED <<installed, sel, journal, upd, task, installer, nops>>,
         auth' \in AuthRecords, Pending(auth'), \A op : Holds(auth, op) => Holds(auth', op),
         rt' \in [Records -> RuntimeRecords \cup {None}],
         \A r \in Records : rt[r] # None => rt'[r] # None,
         host' \in Hosts, host'.up = host.up, host'.cv = host.cv, host'.slot = host.slot,
         gate' \in {"free", "switch", "start"}, starter' \in {"none", "checked", "starting"},
         tunnel' \in BOOLEAN, panel' \in Panels, net' \subseteq Wires, Stilled'
  PROVE  SwInv'
<1>1. Types'
  BY DEF SwInv, Types, TypeOK
<1>2. Stored'
  <2>1. RecordOf(Here) \in Records /\ RecordOf(Here)' = RecordOf(Here)
    BY Typed DEF RecordOf, Here, Records, Hosts
  <2> QED
    BY <2>1 DEF SwInv, Stored
<1>3. Placed' /\ Carried'
  BY TaskKept
<1> QED
  BY <1>1, <1>2, <1>3 DEF SwInv

(* The running process has its runtime's record.                           *)
LEMMA OwnRecord ==
  ASSUME SwInv, Running
  PROVE  /\ RecordOf(Here) \in Records
         /\ rt[RecordOf(Here)] \in RuntimeRecords /\ rt[RecordOf(Here)] # None
         /\ Here \in Targets
<1>1. RecordOf(Here) \in Records /\ Here \in Targets
  BY Typed DEF RecordOf, Here, Records, Hosts, Targets
<1>2. rt[RecordOf(Here)] # None
  BY DEF SwInv, Stored, Running
<1> QED
  BY <1>1, <1>2, Typed

LEMMA AdmitCurrentStep ==
  ASSUME SwInv, AdmitCurrent
  PROVE  SwInv' /\ HStep
<1> DEFINE r == RecordOf(Here)
<1> DEFINE scope == Scope(auth)
<1> DEFINE bound == rt[r].scope = scope /\ ~rt[r].only
<1> DEFINE ok == Active(auth) /\ auth.tgt = Here /\ (bound \/ (~rt[r].only /\ ~rt[r].debt))
<1>1. /\ rt' = IF ok /\ ~bound THEN [rt EXCEPT ![r] = Binding(scope)] ELSE rt
      /\ host' = [host EXCEPT !.ready = FALSE, !.admitted = IF ok THEN scope ELSE @]
      /\ installed' = installed /\ sel' = sel /\ journal' = journal /\ upd' = upd /\ auth' = auth
      /\ task' = task /\ gate' = gate /\ starter' = starter /\ tunnel' = tunnel
      /\ installer' = installer /\ panel' = panel /\ net' = net /\ nops' = nops
  BY DEF AdmitCurrent, server
<1>2. scope \in Scopes /\ host \in Hosts /\ rt \in [Records -> RuntimeRecords \cup {None}]
  BY Typed, ScopeType
<1> HIDE DEF ok, bound, scope, r
<1>3. Binding(scope) \in RuntimeRecords
  BY <1>2, RuntimeRecordTypes
<1>4. /\ rt' \in [Records -> RuntimeRecords \cup {None}]
      /\ \A x \in Records : rt[x] # None => rt'[x] # None
  BY <1>1, <1>2, <1>3, RecordWritten
<1>5. host' \in Hosts /\ host'.up = host.up /\ host'.cv = host.cv /\ host'.slot = host.slot
  <2> DEFINE adm == IF ok THEN scope ELSE host.admitted
  <2> DEFINE f == FALSE
  <2>1. adm \in Scopes \cup {None} /\ f \in BOOLEAN
    BY <1>2 DEF Hosts
  <2>2. host' = [host EXCEPT !.ready = f, !.admitted = adm]
    BY <1>1
  <2> HIDE DEF adm, f
  <2> QED
    BY <1>2, <2>1, <2>2 DEF Hosts
<1>6. Stilled'
  BY <1>1, StillKept DEF Silent
<1>7. HStep
  BY <1>1, Invisible DEF SameSession
<1>8. \A op : Holds(auth, op) => Holds(auth', op)
  BY <1>1
<1>9. auth' \in AuthRecords /\ Pending(auth')
  BY <1>1, Typed
<1> QED
  BY <1>1, <1>4, <1>5, <1>6, <1>7, <1>8, <1>9, Typed, OutsideMoves

(* A start passes the barrier only while no switch is under way: it is the *)
(* Start of Handover.                                                      *)
LEMMA StartBarrierStep ==
  ASSUME SwInv, StartBarrier
  PROVE  SwInv' /\ HStep
<1> DEFINE pass == /\ ~Busy /\ upd = None /\ ~InitialRequired
                   /\ Active(auth) /\ host.admitted = Scope(auth) /\ auth.tgt = Here
<1>1. /\ IF pass THEN starter' = "starting" /\ gate' = "start"
                 ELSE starter' = "none" /\ gate' = gate
      /\ installed' = installed /\ sel' = sel /\ journal' = journal /\ upd' = upd /\ auth' = auth
      /\ rt' = rt /\ host' = host /\ task' = task /\ tunnel' = tunnel
      /\ installer' = installer /\ panel' = panel /\ net' = net /\ nops' = nops
  BY DEF StartBarrier, durable, server
<1>2. /\ \A op : Holds(auth, op) => Holds(auth', op)
      /\ auth' \in AuthRecords /\ Pending(auth')
  BY <1>1, Typed
<1>3. gate' \in {"free", "switch", "start"} /\ starter' \in {"none", "checked", "starting"}
  BY <1>1, Typed
<1>4. Stilled' /\ HStep
  <2>1. CASE pass
    <3>1. ~Busy /\ ~Busy' /\ Active(auth) /\ starter' = "starting"
      BY <1>1, <2>1 DEF Busy
    <3>2. task'.pc # "stopped"
      BY <1>1, <3>1 DEF SwInv, Placed, StopPcs
    <3>3. Stilled'
      BY <3>1, <3>2 DEF Stilled
    <3> DEFINE ses == IF Active(auth) THEN Scope(auth) ELSE None
    <3> DEFINE run == tunnel \/ starter = "starting"
    <3>4. ses # None /\ ses' = ses /\ auth'.epoch = auth.epoch
      BY <1>1, <1>2, <3>1, ScopeType, Typed
    <3>5. CASE run
      BY <1>1, <3>3, <3>5, Invisible DEF SameSession
    <3>6. CASE ~run
      <4>1. run' = TRUE
        BY <3>1
      <4> QED
        BY <3>3, <3>4, <3>6, <4>1 DEF HStep, H!Next, H!Start
    <3> QED
      BY <3>5, <3>6
  <2>2. CASE ~pass
    <3>1. starter' = "none"
      BY <1>1, <2>2
    <3>2. Stilled'
      BY <1>1, <3>1, StillKept DEF Silent
    <3>3. HStep
      BY <1>1, <3>1, Invisible DEF SameSession
    <3> QED
      BY <3>2, <3>3
  <2> QED
    BY <2>1, <2>2
<1> QED
  BY <1>1, <1>2, <1>3, <1>4, Typed, OutsideMoves

(* A lease of the running runtime's record appears or goes.                *)
LEMMA LeaseWritten ==
  ASSUME SwInv, Running, NEW b \in BOOLEAN, rt' = [rt EXCEPT ![RecordOf(Here)].debt = b]
  PROVE  /\ rt' \in [Records -> RuntimeRecords \cup {None}]
         /\ \A x \in Records : rt[x] # None => rt'[x] # None
<1> DEFINE r == RecordOf(Here)
<1> DEFINE v == [rt[r] EXCEPT !.debt = b]
<1>1. r \in Records /\ rt[r] \in RuntimeRecords
  BY OwnRecord
<1>2. rt' = [rt EXCEPT ![r] = v]
  OBVIOUS
<1> HIDE DEF r
<1>3. v \in RuntimeRecords
  BY <1>1 DEF RuntimeRecords
<1> HIDE DEF v
<1> QED
  BY <1>2, <1>3, Typed, RecordWritten

LEMMA StartTunnelStep ==
  ASSUME SwInv, StartTunnel
  PROVE  SwInv' /\ HStep
<1> DEFINE t == TRUE
<1>1. /\ t \in BOOLEAN /\ Running /\ rt' = [rt EXCEPT ![RecordOf(Here)].debt = t]
      /\ starter = "starting" /\ starter' = "none" /\ tunnel' \in BOOLEAN
      /\ gate' = IF gate = "start" THEN "free" ELSE gate
      /\ installed' = installed /\ sel' = sel /\ journal' = journal /\ upd' = upd /\ auth' = auth
      /\ host' = host /\ task' = task
      /\ installer' = installer /\ panel' = panel /\ net' = net /\ nops' = nops
  BY DEF StartTunnel, server
<1> HIDE DEF t
<1>2. /\ rt' \in [Records -> RuntimeRecords \cup {None}]
      /\ \A x \in Records : rt[x] # None => rt'[x] # None
  BY <1>1, LeaseWritten
<1>3. /\ \A op : Holds(auth, op) => Holds(auth', op)
      /\ auth' \in AuthRecords /\ Pending(auth')
  BY <1>1, Typed
<1>4. Stilled'
  BY <1>1, StillKept DEF Silent
<1>5. HStep
  BY <1>1, Invisible DEF SameSession
<1>6. gate' \in {"free", "switch", "start"} /\ starter' \in {"none", "checked", "starting"}
  BY <1>1, Typed
<1>7. /\ host' \in Hosts /\ host'.up = host.up /\ host'.cv = host.cv /\ host'.slot = host.slot
      /\ panel' \in Panels /\ net' \subseteq Wires
  BY <1>1, Typed
<1> QED
  BY <1>1, <1>2, <1>3, <1>4, <1>5, <1>6, <1>7, OutsideMoves

LEMMA StopTunnelStep ==
  ASSUME SwInv, StopTunnel
  PROVE  SwInv' /\ HStep
<1> DEFINE f == FALSE
<1>1. /\ f \in BOOLEAN /\ Running /\ rt' = [rt EXCEPT ![RecordOf(Here)].debt = f]
      /\ ~tunnel' /\ tunnel' \in BOOLEAN
      /\ installed' = installed /\ sel' = sel /\ journal' = journal /\ upd' = upd /\ auth' = auth
      /\ host' = host /\ task' = task /\ gate' = gate /\ starter' = starter
      /\ installer' = installer /\ panel' = panel /\ net' = net /\ nops' = nops
  BY DEF StopTunnel, server
<1> HIDE DEF f
<1>2. /\ rt' \in [Records -> RuntimeRecords \cup {None}]
      /\ \A x \in Records : rt[x] # None => rt'[x] # None
  BY <1>1, LeaseWritten
<1>3. /\ \A op : Holds(auth, op) => Holds(auth', op)
      /\ auth' \in AuthRecords /\ Pending(auth')
  BY <1>1, Typed
<1>4. Stilled'
  BY <1>1, StillKept DEF Silent
<1>5. HStep
  BY <1>1, Invisible DEF SameSession
<1>7. /\ host' \in Hosts /\ host'.up = host.up /\ host'.cv = host.cv /\ host'.slot = host.slot
      /\ panel' \in Panels /\ net' \subseteq Wires
  BY <1>1, Typed
<1> QED
  BY <1>1, <1>2, <1>3, <1>4, <1>5, <1>7, Typed, OutsideMoves

-----------------------------------------------------------------------------
(* Logout, its cleanup and the next login.                                 *)

LEMMA NotAdmitted ==
  ASSUME host \in Hosts
  PROVE  /\ [host EXCEPT !.admitted = None] \in Hosts
         /\ [host EXCEPT !.admitted = None].up = host.up
         /\ [host EXCEPT !.admitted = None].cv = host.cv
         /\ [host EXCEPT !.admitted = None].slot = host.slot
  BY DEF Hosts

(* The fence of a logout is the Logout of Handover.                        *)
LEMMA LogoutStep ==
  ASSUME SwInv, Logout
  PROVE  SwInv' /\ HStep
<1>1. /\ Active(auth) /\ auth.epoch + 2 <= MaxEpoch /\ auth' = LogoutFence(auth)
      /\ host' = [host EXCEPT !.admitted = None]
      /\ gate' = IF gate = "switch" THEN "free" ELSE gate
      /\ installed' = installed /\ sel' = sel /\ journal' = journal /\ upd' = upd /\ rt' = rt
      /\ task' = task /\ starter' = starter /\ tunnel' = tunnel
      /\ installer' = installer /\ panel' = panel /\ net' = net /\ nops' = nops
  BY DEF Logout, server
<1>2. auth \in AuthRecords /\ host \in Hosts
  BY Typed
<1>3. /\ auth' \in AuthRecords /\ Pending(auth') /\ auth'.state = "Pending"
      /\ auth'.epoch = auth.epoch + 1 /\ \A op : Holds(auth, op) => Holds(auth', op)
  BY <1>1, <1>2, LogoutFenceFacts
<1>4. host' \in Hosts /\ host'.up = host.up /\ host'.cv = host.cv /\ host'.slot = host.slot
  BY <1>1, <1>2, NotAdmitted
<1>5. Stilled'
  BY <1>1, StillKept DEF Silent
<1>6. gate' \in {"free", "switch", "start"}
  BY <1>1, Typed
<1>7. SwInv'
  BY <1>1, <1>3, <1>4, <1>5, <1>6, Typed, OutsideMoves
<1>8. HStep
  <2> DEFINE ses == IF Active(auth) THEN Scope(auth) ELSE None
  <2> DEFINE run == tunnel \/ starter = "starting"
  <2>1. ses # None /\ ses' = None /\ run' = run
    BY <1>1, <1>2, <1>3, ScopeType DEF Active
  <2> QED
    BY <1>3, <2>1 DEF HStep, H!Next, H!Logout
<1> QED
  BY <1>7, <1>8

LEMMA LogoutStopsStep ==
  ASSUME SwInv, LogoutStops
  PROVE  SwInv' /\ HStep
<1>1. /\ ~tunnel' /\ tunnel' \in BOOLEAN /\ starter' = "none"
      /\ gate' = IF gate = "start" THEN "free" ELSE gate
      /\ installed' = installed /\ sel' = sel /\ journal' = journal /\ upd' = upd /\ auth' = auth
      /\ rt' = rt /\ host' = host /\ task' = task
      /\ installer' = installer /\ panel' = panel /\ net' = net /\ nops' = nops
  BY DEF LogoutStops, CancelStart, durable, server
<1>2. /\ \A op : Holds(auth, op) => Holds(auth', op)
      /\ auth' \in AuthRecords /\ Pending(auth')
  BY <1>1, Typed
<1>3. Stilled'
  BY <1>1, StillKept DEF Silent
<1>4. HStep
  BY <1>1, Invisible DEF SameSession
<1>5. gate' \in {"free", "switch", "start"}
  BY <1>1, Typed
<1> QED
  BY <1>1, <1>2, <1>3, <1>4, <1>5, Typed, OutsideMoves

LEMMA LogoutAnsweredStep ==
  ASSUME SwInv, LogoutAnswered
  PROVE  SwInv' /\ HStep
<1>1. /\ auth.state = "Pending" /\ auth' = LogoutDone(auth)
      /\ panel' = [panel EXCEPT !.live = FALSE]
      /\ installed' = installed /\ sel' = sel /\ journal' = journal /\ upd' = upd /\ rt' = rt
      /\ host' = host /\ task' = task /\ gate' = gate /\ starter' = starter /\ tunnel' = tunnel
      /\ installer' = installer /\ net' = net /\ nops' = nops
  BY DEF LogoutAnswered
<1>2. auth \in AuthRecords /\ Pending(auth) /\ panel \in Panels
  BY Typed
<1>3. /\ auth' \in AuthRecords /\ Pending(auth') /\ auth'.state = "LoggedOut"
      /\ auth'.epoch = auth.epoch /\ \A op : Holds(auth, op) => Holds(auth', op)
  BY <1>1, <1>2, LogoutDoneFacts
<1>4. panel' \in Panels
  BY <1>1, <1>2 DEF Panels
<1>5. Stilled'
  BY <1>1, StillKept DEF Silent
<1>6. SwInv'
  BY <1>1, <1>3, <1>4, <1>5, Typed, OutsideMoves
<1>7. HStep
  <2> DEFINE ses == IF Active(auth) THEN Scope(auth) ELSE None
  <2> DEFINE run == tunnel \/ starter = "starting"
  <2>1. ses = None /\ ses' = None /\ run' = run
    BY <1>1, <1>3 DEF Active
  <2> QED
    BY <1>3, <2>1 DEF HStep, H!vars
<1> QED
  BY <1>6, <1>7

(* A step of the holder that changes several records.                      *)
LEMMA HolderMoves ==
  ASSUME SwInv, UNCHANGED <<installed, upd, installer, server, nops>>,
         sel' \in Targets, journal' \in Journals \cup {None},
         auth' \in AuthRecords, Pending(auth'),
         rt' \in [Records -> RuntimeRecords \cup {None}],
         \A r \in Records : rt[r] # None => rt'[r] # None,
         host' \in Hosts, host'.up = host.up, host'.cv = host.cv, host'.slot = host.slot,
         gate' \in {"free", "switch", "start"}, starter' \in {"none", "checked", "starting"},
         tunnel' \in BOOLEAN, task' \in Tasks, Placed', Carried', Stilled'
  PROVE  SwInv'
<1>1. Types'
  BY DEF SwInv, Types, TypeOK, server
<1>2. Stored'
  <2>1. RecordOf(Here) \in Records /\ RecordOf(Here)' = RecordOf(Here)
    BY Typed DEF RecordOf, Here, Records, Hosts
  <2> QED
    BY <2>1 DEF SwInv, Stored
<1> QED
  BY <1>1, <1>2 DEF SwInv

LEMMA CompleteLogoutStep ==
  ASSUME SwInv, CompleteLogout
  PROVE  SwInv' /\ HStep
<1> DEFINE r == RecordOf(auth.receipt.tgt)
<1>1. CASE Fail
  BY <1>1, Fails
<1>2. CASE ~Fail
  <2>1. /\ rt' = [rt EXCEPT ![r] = Empty(FALSE)] /\ ~tunnel' /\ tunnel' \in BOOLEAN
        /\ Go("retire") /\ gate' = "switch" /\ starter' = "none"
        /\ host' = [host EXCEPT !.admitted = None]
        /\ installed' = installed /\ sel' = sel /\ journal' = journal /\ upd' = upd
        /\ auth' = auth /\ UNCHANGED <<installed, upd, installer, server, nops>>
    BY <1>2 DEF CompleteLogout
  <2> HIDE DEF r
  <2>2. Empty(FALSE) \in RuntimeRecords
    BY RuntimeRecordTypes
  <2>3. /\ rt' \in [Records -> RuntimeRecords \cup {None}]
        /\ \A x \in Records : rt[x] # None => rt'[x] # None
    BY <2>1, <2>2, Typed, RecordWritten
  <2>4. host' \in Hosts /\ host'.up = host.up /\ host'.cv = host.cv /\ host'.slot = host.slot
    BY <2>1, Typed, NotAdmitted
  <2>5. task' \in Tasks /\ task'.pc = "retire" /\ task'.kind = task.kind
    BY <2>1, Typed, GoFacts DEF Pcs
  <2>6. Placed' /\ Carried' /\ task'.pc # "stopped"
    BY <2>1, <2>5, PlainFits DEF SwInv, Carried, Placed, Plain
  <2>7. Stilled'
    BY <2>1, <2>6 DEF Stilled, Silent
  <2>8. HStep
    BY <2>1, Invisible DEF SameSession
  <2>9. SwInv'
    BY <2>1, <2>3, <2>4, <2>5, <2>6, <2>7, Typed, HolderMoves
  <2> QED
    BY <2>8, <2>9
<1> QED
  BY <1>1, <1>2

LEMMA RetireLogoutJournalStep ==
  ASSUME SwInv, RetireLogoutJournal
  PROVE  SwInv' /\ HStep
<1>1. CASE Fail
  BY <1>1, Fails
<1>2. CASE ~Fail
  <2>1. /\ Go("discharge")
        /\ \/ sel' = sel /\ journal' = journal /\ host' = host
           \/ /\ sel' = [cv |-> host.cv, slot |-> sel.slot]
              /\ journal' = None
              /\ host' = [host EXCEPT !.satisfied = TRUE]
        /\ auth' = auth /\ rt' = rt /\ gate' = gate /\ starter' = starter /\ tunnel' = tunnel
        /\ UNCHANGED <<installed, upd, installer, server, nops>> /\ upd' = upd
    BY <1>2 DEF RetireLogoutJournal
  <2>2. host \in Hosts /\ sel \in Targets /\ journal \in Journals \cup {None} /\ task \in Tasks
    BY Typed
  <2>3. [cv |-> host.cv, slot |-> sel.slot] \in Targets
    BY <2>2 DEF Hosts, Targets
  <2>4. /\ [host EXCEPT !.satisfied = TRUE] \in Hosts
        /\ [host EXCEPT !.satisfied = TRUE].up = host.up
        /\ [host EXCEPT !.satisfied = TRUE].cv = host.cv
        /\ [host EXCEPT !.satisfied = TRUE].slot = host.slot
    BY <2>2 DEF Hosts
  <2>5. /\ sel' \in Targets /\ journal' \in {journal, None} /\ host' \in Hosts
        /\ host'.up = host.up /\ host'.cv = host.cv /\ host'.slot = host.slot
    BY <2>1, <2>2, <2>3, <2>4
  <2>6. task' \in Tasks /\ task'.pc = "discharge" /\ task'.kind = task.kind
    BY <2>1, <2>2, GoFacts DEF Pcs
  <2>7. Prepared(journal')
    BY <2>5 DEF SwInv, Placed, Prepared
  <2>8. Placed' /\ Carried' /\ task'.pc # "stopped"
    BY <2>1, <2>6, <2>7, PlainFits DEF SwInv, Carried, Plain
  <2>9. Stilled'
    BY <2>1, <2>5, <2>8 DEF SwInv, Stilled, Silent, Busy
  <2>10. HStep
    BY <2>1, Invisible DEF SameSession
  <2>11. SwInv'
    BY <2>1, <2>2, <2>5, <2>6, <2>8, <2>9, Typed, HolderMoves
  <2> QED
    BY <2>10, <2>11
<1> QED
  BY <1>1, <1>2

LEMMA FinishLogoutStep ==
  ASSUME SwInv, FinishLogout
  PROVE  SwInv' /\ HStep
<1> DEFINE s == IF auth.sup # None /\ auth.sup.src.epoch = auth.receipt.epoch
                THEN None ELSE auth.sup
<1> DEFINE a == [auth EXCEPT !.receipt = None, !.sup = s]
<1>1. /\ auth' = a /\ task' = Idle
      /\ gate' = IF gate = "switch" THEN "free" ELSE gate
      /\ sel' = sel /\ journal' = journal /\ upd' = upd /\ rt' = rt
      /\ host' = host /\ starter' = starter /\ tunnel' = tunnel
      /\ UNCHANGED <<installed, upd, installer, server, nops>>
  BY DEF FinishLogout, Keep
<1>2. auth \in AuthRecords /\ Pending(auth)
  BY Typed
<1>3. s \in Supersedes \cup {None}
  BY <1>2 DEF AuthRecords
<1> HIDE DEF s
<1>4. /\ a \in AuthRecords /\ a.state = auth.state /\ a.epoch = auth.epoch /\ a.tgt = auth.tgt
      /\ a.gen = auth.gen /\ a.pend = auth.pend /\ a.auths = auth.auths
  BY <1>2, <1>3 DEF AuthRecords
<1> HIDE DEF a
<1>5. Pending(a)
  BY <1>2, <1>4 DEF Pending, Holds, Active
<1>6. task' \in Tasks /\ task'.pc = "idle" /\ task'.kind = "none"
  BY <1>1, IdleFacts
<1>7. Placed' /\ Carried' /\ task'.pc # "stopped"
  BY <1>1, <1>6, PlainFits DEF SwInv, Placed, Plain
<1>8. Stilled'
  BY <1>1, <1>7 DEF SwInv, Stilled, Silent, Busy
<1>9. HStep
  BY <1>1, <1>4, Invisible DEF SameSession
<1>10. gate' \in {"free", "switch", "start"}
  BY <1>1, Typed
<1>11. SwInv'
  BY <1>1, <1>4, <1>5, <1>6, <1>7, <1>8, <1>10, Typed, HolderMoves
<1> QED
  BY <1>9, <1>11

(* A login is the Login of Handover: a later epoch, and no tunnel yet.     *)
LEMMA LoginStep ==
  ASSUME SwInv, Login
  PROVE  SwInv' /\ HStep
<1> DEFINE n == auth.epoch + 1
<1> DEFINE scope == [epoch |-> n, tgt |-> Here, gen |-> 1]
<1> DEFINE r == RecordOf(Here)
<1> DEFINE ok == ~rt[r].only /\ ~rt[r].debt
<1> DEFINE adm == IF ok THEN scope ELSE None
<1>1. /\ auth' = [auth EXCEPT !.state = "Active", !.epoch = n, !.tgt = Here, !.gen = 1,
                              !.done = None]
      /\ panel' = [panel EXCEPT !.epoch = n, !.tgt = Here, !.gen = 1, !.live = TRUE,
                                !.expired = FALSE]
      /\ rt' = IF ok THEN [rt EXCEPT ![r] = Binding(scope)] ELSE rt
      /\ host' = [host EXCEPT !.admitted = adm]
      /\ ~tunnel' /\ tunnel' \in BOOLEAN /\ starter' = "none"
      /\ installed' = installed /\ sel' = sel /\ journal' = journal /\ upd' = upd /\ task' = task
      /\ gate' = gate /\ installer' = installer /\ net' = net /\ nops' = nops
      /\ auth.state = "LoggedOut"
  BY DEF Login
<1>2. /\ auth \in AuthRecords /\ Pending(auth) /\ panel \in Panels /\ host \in Hosts
      /\ Here \in Targets /\ rt \in [Records -> RuntimeRecords \cup {None}]
  BY Typed, DesiredType
<1>3. n \in 0 .. MaxEpoch /\ auth.pend = None /\ 1 \in Nat
  <2>1. auth.pend = None /\ auth.epoch + 1 <= MaxEpoch
    BY <1>1, <1>2 DEF Pending, Active
  <2>2. auth.epoch \in 0 .. MaxEpoch
    BY <1>2 DEF AuthRecords
  <2> QED
    BY <2>1, <2>2, SwitchAssumption
<1>4. scope \in Scopes
  BY <1>2, <1>3 DEF Scopes
<1>n. n = auth.epoch + 1
  OBVIOUS
<1> HIDE DEF n
<1> DEFINE h == Here
<1>h. h \in Targets /\ h = Here
  BY <1>2
<1> HIDE DEF h
<1>5. /\ auth' \in AuthRecords /\ auth'.state = "Active" /\ auth'.epoch = n /\ auth'.tgt = Here
      /\ auth'.gen = 1 /\ auth'.pend = auth.pend /\ auth'.auths = auth.auths
  <2>1. auth' = [auth EXCEPT !.state = "Active", !.epoch = n, !.tgt = h, !.gen = 1, !.done = None]
    BY <1>1, <1>h
  <2> QED
    BY <1>2, <1>3, <1>h, <2>1 DEF AuthRecords
<1>6. panel' \in Panels
  <2> DEFINE t == TRUE
  <2> DEFINE f == FALSE
  <2>1. panel' = [panel EXCEPT !.epoch = n, !.tgt = h, !.gen = 1, !.live = t, !.expired = f]
    BY <1>1, <1>h
  <2>2. t \in BOOLEAN /\ f \in BOOLEAN
    OBVIOUS
  <2> HIDE DEF t, f
  <2> QED
    BY <1>2, <1>3, <1>h, <2>1, <2>2 DEF Panels
<1>7. Pending(auth') /\ \A op : Holds(auth, op) => Holds(auth', op)
  <2>1. auth'.pend \notin Resumes
    BY <1>3, <1>5, SwitchAssumption
  <2> QED
    BY <1>5, <2>1 DEF Pending, Active, Holds
<1>8. HStep
  <2> DEFINE ses == IF Active(auth) THEN Scope(auth) ELSE None
  <2> DEFINE run == tunnel \/ starter = "starting"
  <2>1. ses = None /\ ses' = [epoch |-> auth'.epoch, tgt |-> Here, gen |-> 1] /\ run' = FALSE
    BY <1>1, <1>5 DEF Active, Scope
  <2> QED
    BY <1>2, <1>5, <1>n, <2>1 DEF HStep, H!Next, H!Login
<1> HIDE DEF scope
<1>9. adm \in Scopes \cup {None} /\ Binding(scope) \in RuntimeRecords
  BY <1>4, RuntimeRecordTypes
<1> HIDE DEF ok, r
<1>10. /\ rt' \in [Records -> RuntimeRecords \cup {None}]
       /\ \A x \in Records : rt[x] # None => rt'[x] # None
  BY <1>1, <1>2, <1>9, RecordWritten
<1> HIDE DEF adm
<1>11. host' \in Hosts /\ host'.up = host.up /\ host'.cv = host.cv /\ host'.slot = host.slot
  BY <1>1, <1>2, <1>9 DEF Hosts
<1>12. Stilled'
  BY <1>1, StillKept DEF Silent
<1>13. SwInv'
  BY <1>1, <1>5, <1>6, <1>7, <1>10, <1>11, <1>12, Typed, OutsideMoves
<1> QED
  BY <1>8, <1>13

-----------------------------------------------------------------------------
(* The process and the panel.                                              *)

LEMMA BootStorageStep ==
  ASSUME SwInv, BootStorage
  PROVE  SwInv' /\ HStep
<1> DEFINE t == [cv |-> installed, slot |-> BootSlot]
<1> DEFINE q == RecordOf(t)
<1> DEFINE req == sel.cv # installed \/ rt[q] = None \/ rt[q].only
<1>1. /\ rt' = IF rt[q] = None THEN [rt EXCEPT ![q] = Empty(TRUE)] ELSE rt
      /\ host' = [Down EXCEPT !.up = "stored", !.cv = t.cv, !.slot = t.slot, !.required = req]
      /\ installed' = installed /\ sel' = sel /\ journal' = journal /\ upd' = upd /\ auth' = auth
      /\ task' = task /\ gate' = gate /\ starter' = starter /\ tunnel' = tunnel
      /\ installer' = installer /\ panel' = panel /\ net' = net /\ nops' = nops
  BY DEF BootStorage, server
<1>2. /\ installed \in Containers /\ sel \in Targets /\ journal \in Journals \cup {None}
      /\ rt \in [Records -> RuntimeRecords \cup {None}]
  BY Typed
<1>3. BootSlot \in Slots
  <2>1. Busy => journal.src.tgt.slot \in Slots /\ journal.req.tgt.slot \in Slots
    BY <1>2 DEF Busy, Journals, Requests, Scopes, Targets
  <2>2. DesiredSlot(installed) \in Slots
    BY <1>2, <2>1 DEF DesiredSlot, Targets
  <2> QED
    BY <2>2, SwitchAssumption DEF BootSlot
<1>4. q \in Records /\ t.cv = installed /\ t.slot = BootSlot
  BY <1>2 DEF RecordOf, Records
<1>5. req \in BOOLEAN
  <2> QED
    BY <1>2, <1>4 DEF RuntimeRecords
<1> HIDE DEF req
<1>6. /\ host' \in Hosts /\ host'.up = "stored" /\ host'.cv = installed /\ host'.slot = BootSlot
  BY <1>1, <1>2, <1>3, <1>4, <1>5, DownFacts DEF Hosts
<1>7. RecordOf(Here)' = q
  BY <1>4, <1>6 DEF RecordOf, Here
<1> HIDE DEF q, t
<1>8. Empty(TRUE) \in RuntimeRecords /\ Empty(TRUE) # None
  BY RuntimeRecordTypes, SwitchAssumption
<1>9. rt' \in [Records -> RuntimeRecords \cup {None}] /\ rt'[q] # None
  BY <1>1, <1>2, <1>4, <1>8
<1>10. Types'
  BY <1>1, <1>6, <1>9 DEF SwInv, Types, TypeOK
<1>11. Stored' /\ Pending(auth)'
  BY <1>1, <1>7, <1>9 DEF Stored, SwInv, Pending, Holds, Active
<1>12. \A op : Holds(auth, op) => Holds(auth', op)
  BY <1>1
<1>13. Placed' /\ Carried'
  BY <1>1, <1>12, TaskKept
<1>14. Stilled'
  BY <1>1, StillKept DEF Silent
<1>15. HStep
  BY <1>1, Invisible DEF SameSession
<1> QED
  BY <1>10, <1>11, <1>13, <1>14, <1>15 DEF SwInv

LEMMA BootSelectionStep ==
  ASSUME SwInv, BootSelection
  PROVE  SwInv' /\ HStep
<1>1. /\ sel' = Here /\ host' = [host EXCEPT !.up = "up"] /\ host.up = "stored"
      /\ installed' = installed /\ journal' = journal /\ upd' = upd /\ auth' = auth /\ rt' = rt
      /\ task' = task /\ gate' = gate /\ starter' = starter /\ tunnel' = tunnel
      /\ installer' = installer /\ panel' = panel /\ net' = net /\ nops' = nops
  BY DEF BootSelection, server
<1>2. host \in Hosts /\ sel' \in Targets
  BY <1>1, Typed, DesiredType
<1>3. host' \in Hosts /\ host'.cv = host.cv /\ host'.slot = host.slot
  BY <1>1, <1>2 DEF Hosts
<1>4. Types'
  BY <1>1, <1>2, <1>3 DEF SwInv, Types, TypeOK
<1>5. Stored' /\ Pending(auth)'
  BY <1>1, <1>3 DEF Stored, RecordOf, Here, SwInv, Pending, Holds, Active
<1>6. \A op : Holds(auth, op) => Holds(auth', op)
  BY <1>1
<1>7. Placed' /\ Carried'
  BY <1>1, <1>6, TaskKept
<1>8. Stilled'
  BY <1>1, StillKept DEF Silent
<1>9. HStep
  BY <1>1, Invisible DEF SameSession
<1> QED
  BY <1>4, <1>5, <1>7, <1>8, <1>9 DEF SwInv

(* The panel answers, or a call gives up: only what is sent, the panel and *)
(* the answer the holder waits for move.                                   *)
LEMMA ServerMoves ==
  ASSUME SwInv, UNCHANGED durable, host' = host, gate' = gate, starter' = starter,
         tunnel' = tunnel, installer' = installer, nops' = nops,
         panel' \in Panels, net' \subseteq Wires, NEW g \in Replies,
         task' = task \/ task' = [task EXCEPT !.got = g]
  PROVE  SwInv' /\ HStep
<1>1. /\ installed' = installed /\ sel' = sel /\ journal' = journal /\ upd' = upd
      /\ auth' = auth /\ rt' = rt
  BY DEF durable
<1>2. /\ task' \in Tasks /\ task'.pc = task.pc /\ task'.kind = task.kind /\ task'.src = task.src
      /\ task'.snap = task.snap /\ task'.wire = task.wire /\ task'.scope = task.scope
      /\ task'.next = task.next
  <2>1. task \in Tasks
    BY Typed
  <2>2. [task EXCEPT !.got = g] \in Tasks
    BY <2>1 DEF Tasks
  <2> QED
    BY <2>1, <2>2 DEF Tasks
<1>3. Types'
  BY <1>1, <1>2 DEF SwInv, Types, TypeOK
<1>4. Stored' /\ Pending(auth)'
  BY <1>1 DEF Stored, RecordOf, Here, SwInv, Pending, Holds, Active
<1>5. Placed' /\ Carried'
  BY <1>1, <1>2 DEF SwInv, Placed, Carried, Busy, Prepared
<1>6. Stilled'
  BY <1>1, <1>2 DEF SwInv, Stilled, Silent, Busy
<1>7. HStep
  BY <1>1, Invisible DEF SameSession
<1> QED
  BY <1>3, <1>4, <1>5, <1>6, <1>7 DEF SwInv

LEMMA GiveUpStep ==
  ASSUME SwInv, GiveUp
  PROVE  SwInv' /\ HStep
<1>1. "lost" \in Replies
  BY DEF Replies
<1> QED
  BY <1>1, ServerMoves, Typed DEF GiveUp, server

LEMMA AccessExpiresStep ==
  ASSUME SwInv, AccessExpires
  PROVE  SwInv' /\ HStep
<1>1. [panel EXCEPT !.expired = TRUE] \in Panels
  BY Typed DEF Panels
<1>2. "lost" \in Replies
  BY DEF Replies
<1> QED
  BY <1>1, <1>2, ServerMoves, Typed DEF AccessExpires

(* What the panel answers, and what it is after.                           *)
LEMMA ReconcileAnswers ==
  ASSUME NEW p \in Panels, NEW req \in Requests, NEW proof, NEW busy,
         NEW x \in PanelReconcile(p, req, proof, busy)
  PROVE  x[1] \in Replies /\ x[2] \in Panels
<1> DEFINE c == p.clean \cup {req.op}
<1> DEFINE q == [p EXCEPT !.clean = c]
<1>1. c \in SUBSET Ops
  BY DEF Panels, Requests
<1>2. q = [p EXCEPT !.clean = @ \cup {req.op}]
  OBVIOUS
<1> HIDE DEF c
<1>3. q \in Panels
  BY <1>1 DEF Panels
<1> HIDE DEF q
<1>4. x \in {<<"denied", p>>, <<"clean", p>>, <<"rejected", p>>, <<"clean", q>>, <<"retry", p>>}
  BY <1>2 DEF PanelReconcile
<1> QED
  BY <1>3, <1>4 DEF Replies

LEMMA SupersedeAnswers ==
  ASSUME NEW p \in Panels, NEW t \in Supersedes, NEW busy, NEW x \in PanelSupersede(p, t, busy)
  PROVE  x[1] \in Replies /\ x[2] \in Panels
<1> DEFINE c == p.clean \cup {t.op}
<1> DEFINE n == p.next \cup {<<t.of, t.op>>}
<1> DEFINE q == [p EXCEPT !.clean = c, !.next = n]
<1>1. c \in SUBSET Ops /\ n \in SUBSET (Ops \X Ops)
  BY DEF Panels, Supersedes
<1>2. q = [p EXCEPT !.clean = @ \cup {t.op}, !.next = @ \cup {<<t.of, t.op>>}]
  OBVIOUS
<1> HIDE DEF c, n
<1>3. q \in Panels
  BY <1>1 DEF Panels
<1> HIDE DEF q
<1>4. x \in {<<"clean", p>>, <<"rejected", p>>, <<"clean", q>>, <<"retry", p>>}
  BY <1>2 DEF PanelSupersede
<1> QED
  BY <1>3, <1>4 DEF Replies

LEMMA ResumeAnswers ==
  ASSUME NEW p \in Panels, NEW t \in Resumes, NEW epoch, NEW x \in PanelResume(p, t, epoch)
  PROVE  x[1] \in Replies /\ x[2] \in Panels
<1> DEFINE g == p.gen + 1
<1> DEFINE r == p.resumed \cup {t}
<1> DEFINE f == FALSE
<1> DEFINE q == [p EXCEPT !.gen = g, !.tgt = t.tgt, !.expired = f, !.resumed = r]
<1>1. g \in Nat /\ r \in SUBSET Resumes /\ f \in BOOLEAN /\ t.tgt \in Targets
  BY DEF Panels, Resumes
<1>2. q = [p EXCEPT !.gen = @ + 1, !.tgt = t.tgt, !.expired = FALSE, !.resumed = @ \cup {t}]
  OBVIOUS
<1> HIDE DEF g, r, f
<1>3. q \in Panels
  BY <1>1 DEF Panels
<1> HIDE DEF q
<1>4. x \in {<<"ok", p>>, <<"rejected", p>>, <<"ok", q>>}
  BY <1>2 DEF PanelResume
<1> QED
  BY <1>3, <1>4 DEF Replies

LEMMA AnswerFacts ==
  ASSUME SwInv, NEW w \in Wires, NEW x \in Answers(w)
  PROVE  x[1] \in Replies /\ x[2] \in Panels
<1>1. panel \in Panels
  BY Typed
<1>2. CASE w \in [kind : {"reconcile", "recover"}, body : Requests]
  <2>1. w.body \in Requests /\ w.kind \in {"reconcile", "recover"}
    BY <1>2
  <2>2. \/ x \in PanelReconcile(panel, w.body, "access", left["busy"] > 0)
        \/ x \in PanelReconcile(panel, w.body, "refresh", left["busy"] > 0)
    BY <2>1 DEF Answers
  <2> QED
    BY <1>1, <2>1, <2>2, ReconcileAnswers
<1>3. CASE w \in [kind : {"supersede"}, body : Supersedes]
  <2>1. w.body \in Supersedes /\ w.kind = "supersede"
    BY <1>3
  <2>2. x \in PanelSupersede(panel, w.body, left["busy"] > 0)
    BY <2>1 DEF Answers
  <2> QED
    BY <1>1, <2>1, <2>2, SupersedeAnswers
<1>4. CASE w \in [kind : {"resume", "replay"}, body : Resumes, epoch : 0 .. MaxEpoch]
  <2>1. w.body \in Resumes /\ w.kind \in {"resume", "replay"}
    BY <1>4
  <2>2. x \in PanelResume(panel, w.body, w.epoch)
    BY <2>1 DEF Answers
  <2> QED
    BY <1>1, <2>1, <2>2, ResumeAnswers
<1>5. CASE w \in [kind : {"refresh"}, epoch : 0 .. MaxEpoch]
  <2>1. w.kind = "refresh"
    BY <1>5
  <2>2. [panel EXCEPT !.expired = FALSE] \in Panels
    BY <1>1 DEF Panels
  <2>3. x \in {<<"ok", [panel EXCEPT !.expired = FALSE]>>, <<"rejected", panel>>}
    BY <2>1 DEF Answers
  <2> DEFINE q == [panel EXCEPT !.expired = FALSE]
  <2>4. x \in {<<"ok", q>>, <<"rejected", panel>>} /\ q \in Panels
    BY <2>2, <2>3
  <2> HIDE DEF q
  <2> QED
    BY <1>1, <2>4 DEF Replies
<1> QED
  BY <1>2, <1>3, <1>4, <1>5 DEF Wires

LEMMA HandleStep ==
  ASSUME SwInv, Handle
  PROVE  SwInv' /\ HStep
<1>1. PICK w \in net : \E answer \in Answers(w) :
        /\ net' = net \ {w}
        /\ panel' = answer[2]
        /\ task' = IF task.wire = w /\ task.got = None THEN [task EXCEPT !.got = answer[1]] ELSE task
        /\ UNCHANGED <<durable, host, gate, starter, tunnel, installer, nops>>
  BY DEF Handle
<1>2. PICK answer \in Answers(w) :
        /\ net' = net \ {w}
        /\ panel' = answer[2]
        /\ task' = IF task.wire = w /\ task.got = None THEN [task EXCEPT !.got = answer[1]] ELSE task
        /\ UNCHANGED <<durable, host, gate, starter, tunnel, installer, nops>>
  BY <1>1
<1>3. w \in Wires /\ net \subseteq Wires
  BY Typed
<1> DEFINE g == answer[1]
<1>4. g \in Replies /\ panel' \in Panels
  BY <1>2, <1>3, AnswerFacts
<1>5. task' = task \/ task' = [task EXCEPT !.got = g]
  BY <1>2
<1> HIDE DEF g
<1> QED
  BY <1>2, <1>3, <1>4, <1>5, ServerMoves

-----------------------------------------------------------------------------
(* The theorems.                                                           *)

LEMMA InitHolds ==
  ASSUME Init
  PROVE  SwInv /\ H!Init
<1> DEFINE rec == [only |-> FALSE, scope |-> Home, debt |-> FALSE]
<1> DEFINE tgt == [cv |-> 1, slot |-> "latest"]
<1>1. tgt \in Targets /\ Home.tgt = tgt /\ Home \in Scopes
  BY SwitchAssumption DEF Targets, Scopes, Home
<1>2. rec \in RuntimeRecords /\ rec # None
  <2>1. rec \in RuntimeRecords
    BY <1>1 DEF RuntimeRecords
  <2> HIDE DEF rec
  <2> QED
    BY <2>1, SwitchAssumption
<1>3. installed \in Containers /\ sel \in Targets /\ journal = None /\ upd = None
  BY <1>1, SwitchAssumption DEF Init
<1>4. /\ auth \in AuthRecords /\ auth.state = "Active" /\ auth.pend = None /\ auth.epoch = 0
      /\ auth.tgt = Home.tgt
  BY <1>1, SwitchAssumption DEF Init, AuthRecords
<1>5. rt \in [Records -> RuntimeRecords \cup {None}] /\ rt[1] = rec
  <2>1. 1 \in Records
    BY SwitchAssumption DEF Records
  <2> HIDE DEF rec
  <2>2. rt = [r \in Records |-> IF r = 1 THEN rec ELSE None]
    BY DEF Init, rec
  <2> QED
    BY <1>2, <2>1, <2>2
<1>6. host \in Hosts /\ host.cv = 1 /\ host.slot = "latest"
  BY <1>1, DownFacts DEF Init, Hosts, Down
<1>7. task \in Tasks /\ task.pc = "idle" /\ task.kind = "none"
  BY IdleFacts DEF Init
<1>8. panel \in Panels /\ net \subseteq Wires
  <2> DEFINE e == {}
  <2>1. e \in SUBSET Ops /\ e \in SUBSET (Ops \X Ops) /\ e \in SUBSET Resumes
    OBVIOUS
  <2>2. panel = [epoch |-> 0, gen |-> 1, tgt |-> Home.tgt, live |-> TRUE, expired |-> FALSE,
                 clean |-> e, next |-> e, resumed |-> e]
    BY DEF Init
  <2> HIDE DEF e
  <2>3. panel \in Panels
    <3>1. 0 \in 0 .. MaxEpoch /\ 1 \in Nat
      BY SwitchAssumption
    <3>2. Home.tgt \in Targets
      BY Zenon, <1>1
    <3> HIDE DEF tgt
    <3> QED
      BY Zenon, <2>1, <2>2, <3>1, <3>2 DEF Panels
  <2> QED
    BY <2>3 DEF Init
<1>9. /\ gate = "free" /\ starter = "none" /\ ~tunnel /\ tunnel \in BOOLEAN /\ installer = 0
      /\ nops \in 0 .. MaxOps
  <2>1. ~tunnel /\ tunnel \in BOOLEAN
    BY Zenon DEF Init
  <2>2. gate = "free" /\ starter = "none" /\ installer = 0 /\ nops = 0
    BY DEF Init
  <2> QED
    BY <2>1, <2>2, SwitchAssumption
<1>10. Types
  BY <1>3, <1>4, <1>5, <1>6, <1>7, <1>8, <1>9 DEF Types, TypeOK
<1>11. Pending(auth)
  BY <1>4, SwitchAssumption DEF Pending, Active
<1>12. Placed /\ Carried /\ Stilled
  BY <1>3, <1>7, <1>9
     DEF Placed, Carried, Stilled, Silent, Busy, Prepared, StopPcs, ServerPcs, ResumePcs
<1>13. Stored
  BY <1>2, <1>5, <1>6 DEF Stored, RecordOf, Here
<1>14. H!Init
  BY <1>1, <1>4, <1>9 DEF H!Init, Active, Scope
<1> QED
  BY <1>10, <1>11, <1>12, <1>13, <1>14 DEF SwInv

(* Every step keeps the invariant and is a step of Handover, or none.      *)
LEMMA NextHolds ==
  ASSUME SwInv, [Next]_vars
  PROVE  SwInv' /\ HStep
<1>1. CASE Step
  BY <1>1, BeginRequestStep, TransitionSourceStep, HandoffCleanupStep, RequestedStep,
     StopPhaseStep, StopRuntimeStep, StopRecordedStep, RecoverLoopStep, ReconcileStep,
     CaptureAuthorityStep, DispatchIntentStep, RefreshedStep, ReconciledStep, DecideStep,
     SupersedeStep, SupersedeAnswerStep, SuccessorStep, FinishSupersedeStep, ClearSupersedeStep,
     CancelPreparedStep, ResumeStep, ResumeAnswerStep, ReprepareStep, AdvanceRequestStep,
     BindTargetStep, ReleaseSourceStep, FinishSelectionStep, CompleteStep, RelaunchStep,
     CancelUpdateStopStep, RestoreSelectionStep, FinishStep, CompleteLogoutStep,
     RetireLogoutJournalStep, FinishLogoutStep, Zenon
     DEF Step
<1>2. CASE Recovering
  <2>1. CASE BecomeReady
    <3>1. BeforeTunnelStart("ready") /\ "ready" \in {"ready", "start"}
      BY <2>1 DEF BecomeReady
    <3> QED
      BY <3>1, BeforeTunnelStartStep
  <2> QED
    BY <1>2, <2>1, RestartStep, InstallerFailedStep, RecoverLogoutStep, AdmitCurrentStep, Zenon
       DEF Recovering
<1>3. CASE Environment
  <2>1. CASE BeginStart
    <3>1. BeforeTunnelStart("start") /\ "start" \in {"ready", "start"}
      BY <2>1 DEF BeginStart
    <3> QED
      BY <3>1, BeforeTunnelStartStep
  <2> QED
    BY <1>3, <2>1, SelectStep, CancelPendingStep, PrepareUpdateStep, InstallerOpenedStep,
       InstallStep, StartBarrierStep, StartTunnelStep, StopTunnelStep, StopFailsStep, NotDueStep,
       LogoutStep, LogoutStopsStep, LogoutAnsweredStep, LoginStep, CrashStep, BootStorageStep,
       BootSelectionStep, HandleStep, GiveUpStep, AccessExpiresStep, Zenon
       DEF Environment
<1>4. CASE UNCHANGED vars
  <2>1. Quiet /\ task' = task
    BY <1>4 DEF vars, Quiet, Keep, durable, server
  <2>2. /\ installed' = installed /\ sel' = sel /\ journal' = journal /\ upd' = upd
        /\ auth' = auth /\ rt' = rt /\ host' = host /\ task' = task /\ gate' = gate
        /\ starter' = starter /\ tunnel' = tunnel /\ installer' = installer /\ panel' = panel
        /\ net' = net /\ nops' = nops
    BY <1>4 DEF vars, durable, server
  <2>3. \A op : Holds(auth, op) => Holds(auth', op)
    BY <2>2
  <2>4. Stilled'
    BY <2>2, StillKept DEF Silent
  <2>5. HStep
    BY <2>2, Invisible DEF SameSession
  <2>6. SwInv'
    BY <2>2, <2>3, <2>4, Typed, OutsideMoves
  <2> QED
    BY <2>5, <2>6
<1> QED
  BY <1>1, <1>2, <1>3, <1>4 DEF Next

(* The inductive invariant of the switch: its types, the place of the      *)
(* holder of the mutex in its journal, what its step finds of the steps    *)
(* before it, and that nothing runs once the stop is recorded.             *)
THEOREM SwitchInvariant == Spec => []SwInv
<1>1. Init => SwInv
  BY InitHolds
<1>2. SwInv /\ [Next]_vars => SwInv'
  BY NextHolds
<1> QED
  BY <1>1, <1>2, PTL DEF Spec

(* The switch implements Handover: whatever crashes, lost answers,         *)
(* cancelled updates, logouts and starts happen between its durable steps, *)
(* the session moves in one step, by one generation, and while no tunnel   *)
(* runs or starts (the handshake of switch.rs with auth_broker.rs).        *)
THEOREM SwitchIsHandover == Spec => HandoverSpec
<1>1. Init => H!Init
  BY InitHolds
<1>2. SwInv /\ [Next]_vars => [H!Next]_(H!vars)
  BY NextHolds DEF HStep
<1> QED
  BY <1>1, <1>2, SwitchInvariant, PTL DEF Spec, HandoverSpec, H!Spec
=============================================================================
