------------------------ MODULE CertificateLifecycle ------------------------
(***************************************************************************)
(* Enrollment and renewal of a device certificate against the sign server. *)
(*                                                                         *)
(*   zmanager-tzap-hosted/src/auth/certificate_lifecycle.rs  renew, resume,*)
(*                             reconcile, enroll_or_renew, revoke          *)
(*   zmanager-tzap-hosted/src/auth/enrollment_client.rs      enroll,       *)
(*                             reconcile                                   *)
(*                                                                         *)
(* The server issues certificates; a client process journals an operation  *)
(* in its local inventory before it submits one, and after a lost answer   *)
(* or a restart asks the server what became of it.  The inventory is one   *)
(* record that is loaded and saved whole (module IdentityStore is about    *)
(* what a save does); load, network call and save are separate steps.  One *)
(* account, one scope: every key in the inventory matches the session.     *)
(***************************************************************************)
EXTENDS Naturals, FiniteSets

CONSTANTS
    Proc,         \* client processes on one machine
    Key,          \* device signing keys that can be generated
    Cert,         \* certificates the server can issue
    OpId,         \* operation ids of journalled operations
    NoKey, NoCert, NoOp,
    Scenarios     \* what a behaviour starts from; procs: the processes that run;
                  \* keys: those of the inventory (enrollment that did not look for
                  \* the device's key left several); late: whether a request may
                  \* reach the server after its sender gave up; faults: a bound on
                  \* crashes, failed calls, failed saves and revocations

ASSUME NothingAssumption ==
    NoKey \notin Key /\ NoCert \notin Cert /\ "refused" \notin Cert \cup {NoCert}
ASSUME ScenariosAssumption == \A s \in Scenarios :
    s.procs \subseteq Proc /\ s.keys \subseteq Key /\ s.late \in BOOLEAN /\ s.faults \in Nat

VARIABLES
    atServer,  \* certificate |-> state, key and predecessor on the server
    wire,    \* submissions on their way to the server
    inv,     \* the stored inventory: keys, certificates, pending operations
    pc, local,
    faultsLeft,  \* how many may still happen
    late     \* whether a request has outlived its sender's call, or "never" will

certVars == <<atServer, wire, inv, pc, local, faultsLeft, late>>

Op == [id : OpId, kind : {"enroll", "renew"}, key : Key, pred : Cert \cup {NoCert}]
ASSUME NoOpAssumption == NoOp \notin Op
Inventory == [keys : SUBSET Key,
              certs : [Cert -> {"absent", "active", "renewal_pending", "revoked"}],
              ops : SUBSET Op]
ServerCert == [state : {"unissued", "active", "superseded", "revoked"},
               key : Key \cup {NoKey}, pred : Cert \cup {NoCert}]

EmptyInventory == [keys |-> {}, certs |-> [c \in Cert |-> "absent"], ops |-> {}]
Unissued == [state |-> "unissued", key |-> NoKey, pred |-> NoCert]

\* key: the selected key.  snap: a loaded inventory, or the one to save.
\* op: the journalled operation.  answer: the server's answer to it.
\* listed, superseded: what the server's list shows.  next: where to go after the save.
Fresh == [key |-> NoKey, snap |-> EmptyInventory, pred |-> NoCert, op |-> NoOp,
          answer |-> NoCert, listed |-> {},
          superseded |-> FALSE, next |-> "idle"]

CertInit ==
    /\ atServer = [c \in Cert |-> Unissued]
    /\ wire = {}
    /\ local = [p \in Proc |-> Fresh]
    /\ \E s \in Scenarios :
          /\ inv = [EmptyInventory EXCEPT !.keys = s.keys]
          /\ pc = [p \in Proc |-> IF p \in s.procs THEN "idle" ELSE "off"]
          /\ faultsLeft = s.faults
          /\ late = IF s.late THEN "no" ELSE "never"

\* What the step at "to" and those after it still read of the local variables.
Needed(to, l) ==
    CASE to \in {"resume", "choose", "enroll", "bind", "e_challenge"} -> {"key"}
      [] to \in {"precheck", "mark_revoked"}     -> {"key", "pred"}
      [] to = "challenge"                        -> {"key", "pred", "snap"}
      [] to \in {"reconcile", "list"}            -> {"key", "pred", "next"}
      [] to = "detail"                -> {"key", "pred", "next", "listed", "superseded"}
      [] to = "e_list"                           -> {"key", "op", "next"}
      [] to = "e_detail"                         -> {"key", "op", "next", "listed"}
      [] to \in {"submit", "wait"} /\ l.op.kind = "enroll" -> {"key", "op", "answer"}
      [] to \in {"submit", "wait"} /\ l.op.kind = "renew"  -> {"key", "op", "answer", "pred", "snap"}
      [] to = "save" /\ (l.answer \in Cert \/ l.next = "submit") ->
             {"key", "op", "answer", "pred", "snap", "next"}
      [] OTHER                                   -> {"key", "snap", "next"}

Goto(p, to, l) ==
    /\ pc' = [pc EXCEPT ![p] = to]
    /\ local' = [local EXCEPT ![p] = [f \in DOMAIN l |-> IF f \in Needed(to, l) THEN l[f] ELSE Fresh[f]]]
Return(p) == Goto(p, "idle", Fresh)
NoFault == UNCHANGED <<faultsLeft, late>>
Fault == faultsLeft > 0 /\ faultsLeft' = faultsLeft - 1
remote == <<atServer, wire>>

\* A step of the client alone that saves nothing.
Compute(p, to, l) == Goto(p, to, l) /\ UNCHANGED <<remote, inv>> /\ NoFault
Refused(p) == Compute(p, "idle", Fresh)

ActiveCerts(i, k) == {c \in Cert : i.certs[c] = "active" /\ atServer[c].key = k}

\* TzapLocalIdentityInventory::validate, which every save runs first.
Valid(i) ==
    /\ \A o, q \in i.ops : o.key = q.key => o = q
    /\ \A o \in i.ops :
          /\ o.key \in i.keys
          /\ o.kind = "renew" => i.certs[o.pred] = "renewal_pending"
          /\ o.kind = "enroll" => ActiveCerts(i, o.key) = {}

\* save_inventory of what the process computed; it overwrites what is there.
Save(p) ==
    /\ pc[p] = "save"
    /\ Valid(local[p].snap)
    /\ inv' = local[p].snap
    /\ IF local[p].next = "idle" THEN Return(p) ELSE Goto(p, local[p].next, local[p])
    /\ UNCHANGED remote /\ NoFault

\* Where an error goes that is handled like a lost answer.
Reconciles(p) ==
    Goto(p, IF local[p].op.kind = "renew" THEN "reconcile" ELSE "e_list",
         [local[p] EXCEPT !.next = "idle", !.answer = NoCert])

\* The saves whose failure is reconciled: the renewal's journal entry and the
\* commit of an issued certificate.  Other failed saves end the call.
ReconciledSave(p) ==
    \/ local[p].answer \in Cert /\ local[p].next = "bind"
    \/ local[p].next = "submit" /\ local[p].op.kind = "renew"

SaveInvalid(p) ==
    /\ pc[p] = "save"
    /\ ~Valid(local[p].snap)
    /\ IF ReconciledSave(p) THEN Reconciles(p) ELSE Return(p)
    /\ UNCHANGED <<remote, inv>> /\ NoFault

WithoutOp(i, op) == [i EXCEPT !.ops = {o \in @ : o.id # op.id}]
WithoutRenewals(i, c) == [i EXCEPT !.ops = {o \in @ : o.kind # "renew" \/ o.pred # c}]

\* Identifiers, keys and certificates that have left no trace anywhere.  Which
\* of them comes next makes no difference, so one is chosen.
Chosen(S) == IF S = {} THEN {} ELSE {CHOOSE x \in S : TRUE}
FreshIds == Chosen(OpId \ UNION {{o.id : o \in inv.ops \cup local[p].snap.ops}
                                    \cup {r.op.id : r \in wire}
                                    \cup (IF local[p].op = NoOp THEN {} ELSE {local[p].op.id}) : p \in Proc})
FreshKeys == Chosen(Key \ (inv.keys \cup {atServer[c].key : c \in Cert} \cup {r.op.key : r \in wire}
                             \cup UNION {local[p].snap.keys \cup {local[p].key} : p \in Proc}))
FreshCerts == Chosen({c \in Cert : atServer[c] = Unissued})
-----------------------------------------------------------------------------
(* enroll_or_renew_device_certificate *)

\* One matching key is used, more than one is refused.
SelectKey(p) ==
    /\ pc[p] = "idle"
    /\ \E k \in inv.keys : inv.keys = {k} /\ Compute(p, "resume", [Fresh EXCEPT !.key = k])

AmbiguousKey(p) == pc[p] = "idle" /\ Cardinality(inv.keys) > 1 /\ Refused(p)

GenerateKey(p) ==
    /\ pc[p] = "idle"
    /\ inv.keys = {}
    /\ \E k \in FreshKeys :
          Compute(p, "save", [Fresh EXCEPT !.key = k, !.next = "resume",
                                              !.snap = [inv EXCEPT !.keys = @ \cup {k}]])

Pending(i, k, kind) == {o \in i.ops : o.key = k /\ o.kind = kind}

\* resume_pending_renewal
ResumeNothing(p) ==
    /\ pc[p] = "resume"
    /\ Pending(inv, local[p].key, "renew") = {}
    /\ Compute(p, "choose", local[p])

\* Mutant: a journalled renewal is left for later.
ResumeSkips(p) ==
    /\ pc[p] = "resume"
    /\ Pending(inv, local[p].key, "renew") # {}
    /\ Compute(p, "choose", local[p])

Resume(p) ==
    /\ pc[p] = "resume"
    /\ \E o \in Pending(inv, local[p].key, "renew") :
          Compute(p, "reconcile", [local[p] EXCEPT !.pred = o.pred, !.next = "choose"])

\* The current certificate is not due: it is returned as it is.
NotDue(p) ==
    /\ pc[p] = "choose"
    /\ ActiveCerts(inv, local[p].key) # {}
    /\ Compute(p, "bind", local[p])

ChooseRenew(p) ==
    /\ pc[p] = "choose"
    /\ \E c \in ActiveCerts(inv, local[p].key) :
          Compute(p, "precheck", [local[p] EXCEPT !.pred = c, !.next = "idle"])

ChooseEnroll(p) ==
    /\ pc[p] = "choose"
    /\ ActiveCerts(inv, local[p].key) = {}
    /\ Compute(p, "enroll", local[p])

\* The last save of a successful call: the key's hosted binding.
Bind(p) ==
    /\ pc[p] = "bind"
    /\ IF local[p].key \in inv.keys
       THEN Compute(p, "save", [local[p] EXCEPT !.snap = inv, !.next = "idle"])
       ELSE Refused(p)
-----------------------------------------------------------------------------
(* renew_certificate *)

\* precheck_renewal: the inventory loaded here is the one both saves build on.
Precheck(p) ==
    /\ pc[p] = "precheck"
    /\ IF inv.certs[local[p].pred] = "active" /\ local[p].key \in inv.keys
       THEN Compute(p, "challenge", [local[p] EXCEPT !.snap = inv])
       ELSE Refused(p)

\* Mutant: the operation is submitted without a journal entry.
JournalRenewalNot(p) ==
    /\ pc[p] = "challenge"
    /\ \E i \in FreshIds :
          LET op == [id |-> i, kind |-> "renew", key |-> local[p].key, pred |-> local[p].pred]
             IN Compute(p, "submit", [local[p] EXCEPT !.op = op])

\* The challenge is answered; intent is journalled before the submission.
JournalRenewal(p) ==
    /\ pc[p] = "challenge"
    /\ \E i \in FreshIds :
          LET op == [id |-> i, kind |-> "renew", key |-> local[p].key, pred |-> local[p].pred]
                 snap == [local[p].snap EXCEPT !.certs[op.pred] = "renewal_pending",
                                               !.ops = @ \cup {op}]
             IN Compute(p, "save", [local[p] EXCEPT !.op = op, !.snap = snap, !.next = "submit"])

Submit(p) ==
    /\ pc[p] = "submit"
    /\ wire' = wire \cup {[proc |-> p, op |-> local[p].op]}
    /\ Goto(p, "wait", local[p])
    /\ UNCHANGED <<atServer, inv>> /\ NoFault

\* The replacement is saved over the inventory of the precheck.
CommitRenewal(p) ==
    /\ pc[p] = "wait"
    /\ local[p].op.kind = "renew"
    /\ local[p].answer \in Cert
    /\ LET snap == [local[p].snap EXCEPT !.certs[local[p].pred] = "revoked",
                                         !.certs[local[p].answer] = "active"]
       IN Compute(p, "save", [local[p] EXCEPT !.snap = WithoutOp(snap, local[p].op),
                                              !.next = "bind"])

\* is_reconcilable_renewal_failure: the server refuses, or is not heard of.
RenewalUncertain(p) ==
    /\ pc[p] = "wait"
    /\ local[p].op.kind = "renew"
    /\ local[p].answer = "refused"
    /\ Compute(p, "reconcile", [local[p] EXCEPT !.next = "idle"])
-----------------------------------------------------------------------------
(* reconcile_uncertain_renewal *)

\* Only a predecessor that is marked pending is reconciled.
ReconcileLoad(p) ==
    /\ pc[p] = "reconcile"
    /\ IF inv.certs[local[p].pred] = "renewal_pending" /\ local[p].key \in inv.keys
       THEN Compute(p, "list", local[p])
       ELSE Refused(p)

ListCertificates(p) ==
    /\ pc[p] = "list"
    /\ Compute(p, "detail",
               [local[p] EXCEPT !.listed = {c \in Cert : atServer[c].state = "active"},
                                !.superseded = atServer[local[p].pred].state = "superseded"])

\* A listed certificate counts if its detail still says active.
StillActive(p) == {c \in local[p].listed : atServer[c].state = "active"}

\* Replacements: same key, and the server names the predecessor or listed it as
\* superseded.
Replacements(p) == {c \in StillActive(p) \ {local[p].pred} :
    /\ atServer[c].key = local[p].key
    /\ \/ atServer[c].pred = local[p].pred
       \/ local[p].superseded}

\* install_reconciled_replacement
Install(p) ==
    /\ pc[p] = "detail"
    /\ \E c \in Replacements(p) :
          /\ Replacements(p) = {c}
          /\ LET snap == [inv EXCEPT !.certs[local[p].pred] = "revoked", !.certs[c] = "active"]
             IN IF inv.certs[c] = "active"
                THEN Compute(p, "bind", local[p])
                ELSE IF inv.certs[local[p].pred] = "absent" THEN Refused(p)
                ELSE Compute(p, "save",
                       [local[p] EXCEPT !.snap = WithoutRenewals(snap, local[p].pred), !.next = "bind"])

\* Mutant: the operation is settled, its predecessor stays blocked.
RestoreNot(p) ==
    /\ pc[p] = "detail"
    /\ Replacements(p) = {}
    /\ local[p].pred \in StillActive(p)
    /\ inv.certs[local[p].pred] = "renewal_pending"
    /\ Compute(p, "save", [local[p] EXCEPT !.snap = WithoutRenewals(inv, local[p].pred)])

\* restore_pending_renewal: only when the server shows the predecessor active.
\* After a resumed renewal the call goes on, after a failed one it reports.
Restore(p) ==
    /\ pc[p] = "detail"
    /\ Replacements(p) = {}
    /\ local[p].pred \in StillActive(p)
    /\ inv.certs[local[p].pred] = "renewal_pending"
    /\ LET snap == [inv EXCEPT !.certs[local[p].pred] = "active"]
       IN Compute(p, "save", [local[p] EXCEPT !.snap = WithoutRenewals(snap, local[p].pred)])

\* Conflict, still pending, or changed under the reconciliation.
ReconcileRefused(p) ==
    /\ pc[p] = "detail"
    /\ \/ Cardinality(Replacements(p)) > 1
       \/ /\ Replacements(p) = {}
          /\ \/ local[p].pred \notin StillActive(p)
             \/ inv.certs[local[p].pred] # "renewal_pending"
    /\ Refused(p)
-----------------------------------------------------------------------------
(* enroll_device_certificate *)

Enroll(p) ==
    /\ pc[p] = "enroll"
    /\ local[p].key \in inv.keys
    /\ Pending(inv, local[p].key, "renew") = {}
    /\ \/ /\ Pending(inv, local[p].key, "enroll") = {}
          /\ Compute(p, "e_challenge", local[p])
       \/ \E o \in Pending(inv, local[p].key, "enroll") :
             Compute(p, "e_list", [local[p] EXCEPT !.op = o, !.next = "e_challenge"])

EnrollRefused(p) ==
    /\ pc[p] = "enroll"
    /\ local[p].key \notin inv.keys \/ Pending(inv, local[p].key, "renew") # {}
    /\ Refused(p)

\* The inventory is loaded again after the challenge and must still be free
\* of operations on this key.
JournalEnrollment(p) ==
    /\ pc[p] = "e_challenge"
    /\ IF local[p].key \in inv.keys /\ \A o \in inv.ops : o.key # local[p].key
       THEN \E i \in FreshIds :
              LET op == [id |-> i, kind |-> "enroll", key |-> local[p].key, pred |-> NoCert]
                     snap == [inv EXCEPT !.ops = @ \cup {op}]
                 IN Compute(p, "save", [local[p] EXCEPT !.op = op, !.snap = snap, !.next = "submit"])
       ELSE Refused(p)

CommitEnrollment(p) ==
    /\ pc[p] = "wait"
    /\ local[p].op.kind = "enroll"
    /\ local[p].answer \in Cert
    /\ local[p].key \in inv.keys
    /\ LET snap == [inv EXCEPT !.certs[local[p].answer] = IF @ = "absent" THEN "active" ELSE @]
       IN Compute(p, "save", [local[p] EXCEPT !.snap = WithoutOp(snap, local[p].op),
                                              !.next = "bind"])

CommitEnrollmentRefused(p) ==
    /\ pc[p] = "wait"
    /\ local[p].op.kind = "enroll"
    /\ local[p].answer \in Cert
    /\ local[p].key \notin inv.keys
    /\ Refused(p)

EnrollmentUncertain(p) ==
    /\ pc[p] = "wait"
    /\ local[p].op.kind = "enroll"
    /\ local[p].answer = "refused"
    /\ Compute(p, "e_list", [local[p] EXCEPT !.next = "idle"])

\* reconcile_pending_enrollment
EnrollList(p) ==
    /\ pc[p] = "e_list"
    /\ Compute(p, "e_detail",
               [local[p] EXCEPT !.listed = {c \in Cert : atServer[c].state = "active"}])

Candidates(p) == {c \in StillActive(p) : atServer[c].key = local[p].key}

EnrollRecover(p) ==
    /\ pc[p] = "e_detail"
    /\ local[p].key \in inv.keys
    /\ \E c \in Candidates(p) :
          /\ Candidates(p) = {c}
          /\ LET snap == [inv EXCEPT !.certs[c] = IF @ = "absent" THEN "active" ELSE @]
             IN Compute(p, "save", [local[p] EXCEPT !.snap = WithoutOp(snap, local[p].op),
                                                    !.next = "bind"])

\* Nothing was issued: the operation is dropped.  A restarted call enrolls
\* again, a failed one reports.
EnrollDrop(p) ==
    /\ pc[p] = "e_detail"
    /\ local[p].key \in inv.keys
    /\ Candidates(p) = {}
    /\ Compute(p, "save", [local[p] EXCEPT !.snap = WithoutOp(inv, local[p].op)])

EnrollRecoverRefused(p) ==
    /\ pc[p] = "e_detail"
    /\ local[p].key \notin inv.keys \/ Cardinality(Candidates(p)) > 1
    /\ Refused(p)
-----------------------------------------------------------------------------
(* The server, as the client code expects it *)

\* A renewal needs an active predecessor and supersedes it in the same
\* transaction; an enrollment is refused while the key has an active
\* certificate (active_certificate_exists).
Allowed(op) ==
    IF op.kind = "renew"
    THEN atServer[op.pred].state = "active"
    ELSE \A c \in Cert : atServer[c].state = "active" => atServer[c].key # op.key

Answered(r, a) ==
    IF pc[r.proc] = "wait" /\ local[r.proc].op = r.op
    THEN local' = [local EXCEPT ![r.proc].answer = a]
    ELSE local' = local

Issue(r) ==
    /\ Allowed(r.op)
    /\ \E c \in FreshCerts :
          /\ atServer' = [d \in Cert |->
                IF d = c THEN [state |-> "active", key |-> r.op.key, pred |-> r.op.pred]
                ELSE IF d = r.op.pred THEN [atServer[d] EXCEPT !.state = "superseded"]
                ELSE atServer[d]]
          /\ Answered(r, c)
    /\ wire' = wire \ {r}
    /\ UNCHANGED <<inv, pc>> /\ NoFault

\* Also once the server has no certificate left to give.
Decline(r) ==
    /\ ~Allowed(r.op) \/ \A c \in Cert : atServer[c] # Unissued
    /\ Answered(r, "refused")
    /\ wire' = wire \ {r}
    /\ UNCHANGED <<atServer, inv, pc>> /\ NoFault
-----------------------------------------------------------------------------
(* Revocation *)

\* revoke_personal_certificate: the server first, then the local record.  The
\* server also reports success for one that is no longer active.
Revoke(p) ==
    /\ pc[p] = "idle"
    /\ \E c \in Cert :
          /\ inv.certs[c] # "absent"
          /\ atServer' = [atServer EXCEPT ![c].state = IF @ = "active" THEN "revoked" ELSE @]
          /\ Goto(p, "mark_revoked", [Fresh EXCEPT !.pred = c])
    /\ UNCHANGED <<wire, inv, late>> /\ Fault

\* mark_certificate_revoked
MarkRevoked(p) ==
    /\ pc[p] = "mark_revoked"
    /\ LET c == local[p].pred
           snap == [inv EXCEPT !.certs[c] = IF @ = "absent" THEN @ ELSE "revoked"]
       IN Compute(p, "save", [local[p] EXCEPT !.snap = snap, !.next = "idle"])
-----------------------------------------------------------------------------
(* Failures *)

\* Whether the sender's failure also takes its request off the wire.
Abandon(p) ==
    \/ /\ late # "never"
       /\ wire' = wire
       /\ late' = IF \E r \in wire : r.proc = p THEN "yes" ELSE late
    \/ wire' = {r \in wire : r.proc # p} /\ late' = late

\* The answer does not arrive; the request may or may not have.
AnswerLost(p) ==
    /\ pc[p] = "wait"
    /\ Fault
    /\ Abandon(p)
    /\ Reconciles(p)
    /\ UNCHANGED <<atServer, inv>>

\* A crash, or a failed call or save that the code returns as an error.
Crash(p) ==
    /\ pc[p] \notin {"idle", "off"}
    /\ Fault
    /\ Abandon(p)
    /\ Return(p)
    /\ UNCHANGED <<atServer, inv>>

\* Such a save reports failure, whether or not it took effect.
SaveFails(p) ==
    /\ pc[p] = "save"
    /\ Valid(local[p].snap)
    /\ ReconciledSave(p)
    /\ Fault
    /\ inv' \in {inv, local[p].snap}
    /\ Reconciles(p)
    /\ UNCHANGED <<remote, late>>

Renewing(p) ==
    \/ Precheck(p) \/ JournalRenewal(p) \/ CommitRenewal(p) \/ RenewalUncertain(p)
    \/ ReconcileLoad(p) \/ ListCertificates(p) \/ Install(p) \/ Restore(p)
    \/ ReconcileRefused(p)
Enrolling(p) ==
    \/ Enroll(p) \/ EnrollRefused(p) \/ JournalEnrollment(p) \/ CommitEnrollment(p)
    \/ CommitEnrollmentRefused(p) \/ EnrollmentUncertain(p)
    \/ EnrollList(p) \/ EnrollRecover(p) \/ EnrollDrop(p) \/ EnrollRecoverRefused(p)
Provision(p) ==
    \/ SelectKey(p) \/ AmbiguousKey(p) \/ GenerateKey(p) \/ ResumeNothing(p) \/ Resume(p)
    \/ NotDue(p) \/ ChooseRenew(p) \/ ChooseEnroll(p) \/ Bind(p)
    \/ Renewing(p) \/ Enrolling(p) \/ Submit(p) \/ Save(p) \/ SaveInvalid(p) \/ MarkRevoked(p)
Fails(p) == AnswerLost(p) \/ Crash(p) \/ SaveFails(p)

CertNext ==
    \/ \E p \in Proc : Provision(p) \/ Revoke(p) \/ Fails(p)
    \/ \E r \in wire : Issue(r) \/ Decline(r)

CertSpec == CertInit /\ [][CertNext]_certVars

\* A process that has the inventory to itself.
Alone(p) == pc[p] # "off" /\ \A q \in Proc \ {p} : pc[q] = "off"
Single == \E p \in Proc : Alone(p)

\* Callers keep provisioning, a started call runs on, the server serves, and a
\* certificate that stays active locally becomes due.  Of processes that share
\* the inventory nothing is asked that would need their fairness.
Fairness ==
    /\ \A p \in Proc : WF_certVars(Alone(p) /\ Provision(p)) /\ SF_certVars(Alone(p) /\ ChooseRenew(p))
    /\ WF_certVars(\E r \in wire : Issue(r) \/ Decline(r))
FairSpec == CertSpec /\ Fairness
-----------------------------------------------------------------------------
(* Properties *)

\* Every variable keeps the shape of the record it stands for.
CertTypeOK ==
    /\ atServer \in [Cert -> ServerCert]
    /\ wire \subseteq [proc : Proc, op : Op]
    /\ inv \in Inventory
    /\ \A p \in Proc : local[p].snap \in Inventory /\ local[p].listed \subseteq Cert
    /\ faultsLeft \in Nat /\ late \in {"never", "no", "yes"}

\* The journal of pending operations: a certificate that is active on the
\* server is known here, or an operation is pending whose reconciliation will
\* find it - unless a request was delivered after its call had ended.
IssuedIsTracked == late # "yes" => \A c \in Cert : atServer[c].state = "active" =>
    \/ inv.certs[c] # "absent"
    \/ \E o \in inv.ops : o.key = atServer[c].key /\ o.pred = atServer[c].pred

\* renew_certificate and reconcile_uncertain_renewal: a certificate that the
\* server replaced is not active here, so no later renewal selects it (again
\* unless a request outlived its call).
SupersededIsNotActive == late # "yes" => \A c \in Cert :
    inv.certs[c] = "active" => atServer[c].state # "superseded"

\* enroll_or_renew_device_certificate: every certificate issued to this device
\* carries the same key.
OneDeviceKey == \A c, d \in Cert :
    atServer[c].key # NoKey /\ atServer[d].key # NoKey => atServer[c].key = atServer[d].key

\* What the inventory says of the device's certificates is what the server
\* holds, up to operations that are journalled, as long as one process at a time
\* works on it: the inventory is loaded and saved without a lock.
InventoryIsTrue ==
    CertTypeOK /\ (Single => IssuedIsTracked /\ SupersededIsNotActive /\ OneDeviceKey)

\* A renewal whose predecessor was revoked while it was pending: there is
\* neither a replacement nor a certificate to restore, and every later call
\* ends with its reconciliation.
Stuck == \E o \in inv.ops : o.kind = "renew" /\ atServer[o.pred].state = "revoked"

\* Whatever is lost or late, a certificate the server holds active ends up in
\* the inventory as long as calls keep coming, unless it is replaced or revoked
\* or a renewal is stuck.
IssuedIsFound == \A c \in Cert :
    Single /\ atServer[c].state = "active"
        ~> inv.certs[c] # "absent" \/ atServer[c].state # "active" \/ Stuck

\* A predecessor is blocked only while an operation is journalled that will
\* release it: whatever calls overlap, no certificate is left blocked that
\* resume_pending_renewal would never look at.
BlockedHasOperation == \A c \in Cert :
    inv.certs[c] = "renewal_pending" => \E o \in inv.ops : o.kind = "renew" /\ o.pred = c

\* resume_pending_renewal: a renewal that was cut short does not keep its
\* predecessor blocked for good, unless the predecessor is revoked meanwhile.
BlockedIsResolved == \A c \in Cert :
    Single /\ inv.certs[c] = "renewal_pending"
        ~> inv.certs[c] # "renewal_pending" \/ atServer[c].state = "revoked"

\* Reconciliation comes to an end: what was issued is found and what was
\* blocked is resolved.
CertificatesSettle == IssuedIsFound /\ BlockedIsResolved
=============================================================================
