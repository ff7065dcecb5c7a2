-------------------------- MODULE TransitionBroker --------------------------
(***************************************************************************)
(* What the authentication broker keeps and decides while a session moves  *)
(* from one runtime to another: the transition authorities of the          *)
(* protected record, the resume ticket, the supersede ticket, and the      *)
(* panel that answers them (auth_broker.rs, client-storage auth.rs).       *)
(*                                                                         *)
(* The module has no variables: every operator maps the protected record   *)
(* `a` to what one section under the broker's state mutex returns or       *)
(* saves, and RuntimeSwitch takes the step.                                *)
(*                                                                         *)
(* A target is a container version and a runtime slot.  A scope is the     *)
(* session as the code compares it: `epoch` stands for the auth epoch, the *)
(* login family and the device, which change together at a login; the      *)
(* target and the generation are the confirmed identity.  A frozen request *)
(* is [op, src, tgt], equal exactly when the code's fingerprints are.  The *)
(* operation ids are numbers drawn in order.  Tokens are left out: an      *)
(* ordinary refresh is only asked for by an admitted child (AuthBroker).   *)
(***************************************************************************)
EXTENDS Naturals, FiniteSets

CONSTANTS Containers,    \* versions of the container
          Slots,         \* runtime slots: "latest" and "stable"
          MaxOps,        \* bound: operation ids drawn
          MaxEpoch,      \* bound: logins
          MaxAuthorities,\* MAX_TRANSITION_AUTHORITIES
          None,          \* no value
          Refreshing     \* the pending refresh of a transition's access token

Targets == [cv : Containers, slot : Slots]
Ops == 1 .. MaxOps
Scopes == [epoch : 0 .. MaxEpoch, tgt : Targets, gen : Nat]
Requests == [op : Ops, src : Scopes, tgt : Targets]
Decisions == {"apply", "cancel"}

(* What a resume sends, and the ticket the record keeps of it.             *)
Resumes == [op : Ops, of : Ops, dec : Decisions, tgt : Targets, gen : Nat]

Authorities ==
  [req : Requests, by : 0 .. MaxOps, disp : {"captured", "intent", "unknown", "rejected", "known"},
   rcpt : {"none", "retry", "clean"}, ticket : Resumes \cup {None}, ev : BOOLEAN]

Supersedes ==
  [op : Ops, of : Ops, src : Scopes, tgt : Targets, resp : {"none", "retry", "clean"}]

AuthRecords ==
  [state : {"Active", "Pending", "LoggedOut"}, epoch : 0 .. MaxEpoch, tgt : Targets, gen : Nat,
   auths : SUBSET Authorities, pend : Resumes \cup {None, Refreshing},
   sup : Supersedes \cup {None}, done : [ticket : Resumes, scope : Scopes] \cup {None},
   receipt : Scopes \cup {None}]

-----------------------------------------------------------------------------
(* Reading the protected record.                                           *)

Scope(a) == [epoch |-> a.epoch, tgt |-> a.tgt, gen |-> a.gen]

Active(a) == a.state = "Active"

(* transition_source: the session, when nothing about it is unresolved.    *)
HasSource(a) == Active(a) /\ a.pend = None

Authority(a, op) == CHOOSE e \in a.auths : e.req.op = op

Holds(a, op) == \E e \in a.auths : e.req.op = op

Matches(a, req) == \E e \in a.auths : e.req = req

Clean(a, op) == Holds(a, op) /\ Authority(a, op).rcpt = "clean"

(* The scope a known resume of an authority has produced.                  *)
EvidenceScope(e) ==
  [epoch |-> e.req.src.epoch, tgt |-> e.ticket.tgt, gen |-> e.req.src.gen + 1]

Unresolved(e) == ~e.ev /\ e.by = 0

(* An unresolved authority of the current scope keeps every other          *)
(* operation from drawing new credentials.                                 *)
IssuanceAllowed(a, op) ==
  \A e \in a.auths : Unresolved(e) /\ e.req.src = Scope(a) => e.req.op = op

ResumeTarget(e, dec) == IF dec = "apply" THEN e.req.tgt ELSE e.req.src.tgt

-----------------------------------------------------------------------------
(* Writing the protected record.                                           *)

WithAuthority(a, e) ==
  [a EXCEPT !.auths = {f \in a.auths : f.req.op # e.req.op} \cup {e}]

SetAuthority(a, op, disp, rcpt) ==
  WithAuthority(a, [Authority(a, op) EXCEPT !.disp = disp, !.rcpt = rcpt])

MayCapture(a, req) ==
  /\ Active(a)
  /\ IssuanceAllowed(a, req.op)
  /\ a.pend = None
  /\ a.sup = None
  /\ Cardinality(a.auths) < MaxAuthorities
  /\ req.src = Scope(a)

NewAuthority(req, disp, rcpt) ==
  [req |-> req, by |-> 0, disp |-> disp, rcpt |-> rcpt, ticket |-> None, ev |-> FALSE]

Capture(a, req) == [a EXCEPT !.auths = @ \cup {NewAuthority(req, "captured", "none")}]

(* supersede_transition, before its request: the saved ticket is the same  *)
(* request, whatever answer it already carries.                            *)
SupersedeTicket(a, op, req, tgt) ==
  [op |-> op, of |-> req.op, src |-> Scope(a), tgt |-> tgt, resp |-> "none"]

MaySupersede(a, op, req, tgt) ==
  /\ HasSource(a)
  /\ Matches(a, req)
  /\ Clean(a, req.op)
  /\ LET e == Authority(a, req.op) IN
       e.req.src = Scope(a) \/ (e.ev /\ EvidenceScope(e) = Scope(a))
  /\ a.sup = None \/ [a.sup EXCEPT !.resp = "none"] = SupersedeTicket(a, op, req, tgt)

(* The clean answer: the predecessor is linked, the successor is pushed,   *)
(* and the answer is kept in the ticket, in one save.                      *)
Superseded(a, succ) ==
  [a EXCEPT !.sup.resp = "clean",
            !.auths = {IF e.req.op = a.sup.of THEN [e EXCEPT !.by = succ] ELSE e : e \in @}
                        \cup {NewAuthority([op |-> succ, src |-> Scope(a), tgt |-> a.sup.tgt],
                                           "known", "clean")}]

(* retire_completed_transitions: an authority is terminal when it, or a    *)
(* successor of it, has a known resume.  The journal's, the active one's,  *)
(* the last resume's and everything that succeeds a retained one stay.     *)
Successors(a, op) ==
  LET next == [n \in {e.req.op : e \in a.auths} |-> Authority(a, n).by]
      reach[k \in 0 .. MaxOps, n \in 0 .. MaxOps] ==
        IF k = 0 \/ n \notin DOMAIN next THEN {n} ELSE {n} \cup reach[k - 1, next[n]]
  IN  reach[MaxOps, op] \ {0}

Terminal(a, op) == \E n \in Successors(a, op) : Holds(a, n) /\ Authority(a, n).ev

Retained(a, op, active) ==
  UNION {Successors(a, e.req.op) : e \in {f \in a.auths :
            \/ ~Terminal(a, f.req.op)
            \/ f.req.op \in {op, active}
            \/ a.done # None /\ a.done.ticket.of = f.req.op}}

Retire(a, op, active) ==
  IF a.pend # None \/ a.state = "Pending" \/ a.sup # None \/ a.receipt # None
  THEN a
  ELSE [a EXCEPT !.auths = {e \in @ : e.req.op \in Retained(a, op, active)}]

(* resume_inner: what it checks before it saves the ticket, and the one    *)
(* save that installs the answer.  allow: the target is the installed one. *)
MayResume(a, t, allow) ==
  /\ Active(a)
  /\ IssuanceAllowed(a, t.of)
  /\ a.gen = t.gen
  /\ a.pend = t \/ (a.pend = None /\ allow)

(* Mutant: the answer is installed without the protected evidence.         *)
Resumed_NoEvidence(a, t) ==
  LET scope == [epoch |-> a.epoch, tgt |-> t.tgt, gen |-> t.gen + 1] IN
    [a EXCEPT !.tgt = t.tgt, !.gen = t.gen + 1, !.pend = None,
              !.done = [ticket |-> t, scope |-> scope]]

Resumed(a, t) ==
  LET scope == [epoch |-> a.epoch, tgt |-> t.tgt, gen |-> t.gen + 1] IN
    WithAuthority([a EXCEPT !.tgt = t.tgt, !.gen = t.gen + 1, !.pend = None,
                            !.done = [ticket |-> t, scope |-> scope]],
                  [Authority(a, t.of) EXCEPT !.ticket = t, !.ev = TRUE])

(* prepare_completed_apply_reconcile: the applied resume is the session's  *)
(* current one, and at most one captured request of its scope is reused.   *)
OfScope(a) == {e \in a.auths : Unresolved(e) /\ e.req.src = Scope(a)}

MayReprepare(a, req, resume, fresh) ==
  /\ HasSource(a)
  /\ Matches(a, req)
  /\ LET e == Authority(a, req.op) IN
       /\ e.ev /\ e.by = 0
       /\ e.ticket.op = resume /\ e.ticket.dec = "apply"
       /\ a.done # None /\ a.done.ticket = e.ticket
       /\ EvidenceScope(e) = Scope(a)
  /\ a.sup = None
  /\ a.receipt = None
  /\ \/ \E e \in OfScope(a) : OfScope(a) = {e} /\ e.disp = "captured"
     \/ OfScope(a) = {} /\ MayCapture(a, fresh)

Reprepared(a, fresh) ==
  IF OfScope(a) = {} THEN fresh ELSE (CHOOSE e \in OfScope(a) : TRUE).req

(* Mutant: a logout leaves the epoch to the next login.                    *)
LogoutFence_SameEpoch(a) == [a EXCEPT !.state = "Pending", !.pend = None, !.receipt = Scope(a)]

(* logout_inner: the logout fences the epoch and archives a dispatched     *)
(* resume in its authority; at its end only the source scope is left, as   *)
(* the receipt local cleanup works from.                                   *)
LogoutFence(a) ==
  LET b == [a EXCEPT !.state = "Pending", !.epoch = @ + 1, !.pend = None,
                     !.receipt = Scope(a)]
  IN  IF a.pend \in {None, Refreshing} \/ ~Holds(a, a.pend.of) THEN b
      ELSE WithAuthority(b, [Authority(a, a.pend.of) EXCEPT !.ticket = a.pend])

LogoutDone(a) == [a EXCEPT !.state = "LoggedOut", !.done = None]

(* AuthStoreV1::validate and validate_transition_authority: how the parts  *)
(* of an authority hang together, and the lineage of a superseded one.     *)
ValidateAuthority(e) ==
  /\ (e.disp = "known") = (e.rcpt # "none")
  /\ e.ticket # None => /\ e.rcpt = "clean"
                        /\ e.ticket.of = e.req.op
                        /\ e.ticket.gen = e.req.src.gen
                        /\ e.ticket.tgt = ResumeTarget(e, e.ticket.dec)
  /\ e.ev => e.ticket # None

ValidateAuth(a) ==
  /\ Cardinality(a.auths) <= MaxAuthorities
  /\ \A e, f \in a.auths : e.req.op = f.req.op => e = f
  /\ \A e \in a.auths :
       /\ ValidateAuthority(e)
       /\ e.by # 0 => \E f \in a.auths :
            /\ f.req.op = e.by
            /\ f.req.src.epoch = e.req.src.epoch
            /\ f.req.src = e.req.src \/ (e.ev /\ f.req.src = EvidenceScope(e))

-----------------------------------------------------------------------------
(* The panel, as the broker uses it (external).  `clean` is the operations *)
(* whose leases are retired, `next` the successor a supersede has given an *)
(* operation, `resumed` the answers given to resumes: the three are        *)
(* idempotent by operation id.                                             *)

Panels ==
  [epoch : 0 .. MaxEpoch, gen : Nat, tgt : Targets, live : BOOLEAN, expired : BOOLEAN,
   clean : SUBSET Ops, next : SUBSET (Ops \X Ops), resumed : SUBSET Resumes]

PanelScope(p) == [epoch |-> p.epoch, tgt |-> p.tgt, gen |-> p.gen]

(* The possible answers to a reconcile, with the panel after each.         *)
PanelReconcile(p, req, proof, busy) ==
  IF ~p.live \/ req.src.epoch # p.epoch \/ (proof = "access" /\ p.expired)
  THEN {<<"denied", p>>}
  ELSE IF req.op \in p.clean THEN {<<"clean", p>>}
  ELSE IF req.src # PanelScope(p) THEN {<<"rejected", p>>}
  ELSE {<<"clean", [p EXCEPT !.clean = @ \cup {req.op}]>>}
         \cup (IF busy THEN {<<"retry", p>>} ELSE {})

PanelSupersede(p, t, busy) ==
  LET known == {n \in Ops : <<t.of, n>> \in p.next} IN
    IF ~p.live \/ t.src # PanelScope(p) \/ t.of \notin p.clean THEN {<<"rejected", p>>}
    ELSE IF known # {}
         THEN {<<IF t.op \in known THEN "clean" ELSE "rejected", p>>}
         ELSE {<<"clean", [p EXCEPT !.clean = @ \cup {t.op}, !.next = @ \cup {<<t.of, t.op>>}]>>}
                \cup (IF busy THEN {<<"retry", p>>} ELSE {})

PanelResume(p, t, epoch) ==
  IF t \in p.resumed THEN {<<"ok", p>>} \cup (IF p.live THEN {} ELSE {<<"rejected", p>>})
  ELSE IF ~p.live \/ epoch # p.epoch \/ t.gen # p.gen \/ t.of \notin p.clean
            \/ (\E n \in Ops : <<t.of, n>> \in p.next)
  THEN {<<"rejected", p>>}
  ELSE {<<"ok", [p EXCEPT !.gen = @ + 1, !.tgt = t.tgt, !.expired = FALSE,
                          !.resumed = @ \cup {t}]>>}
=============================================================================
