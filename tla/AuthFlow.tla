------------------------------ MODULE AuthFlow ------------------------------
(***************************************************************************)
(* The hosted login slot of one account.                                   *)
(*                                                                         *)
(*   zmanager-tzap-hosted/src/auth/auth_flow_store.rs  the slot            *)
(*   zmanager-tzap-hosted/src/auth/tzap_service.rs     login, callback,    *)
(*                                                     forget              *)
(*   zmanager-tzap-hosted/src/auth/auth_client.rs      the exchange        *)
(*   zmanager-tzap-hosted/src/auth/keyring_store.rs    the session record  *)
(*                                                                         *)
(* A login leaves a pending flow behind: a public metadata file that points*)
(* to a secure record with the PKCE verifier.  A later call, usually of    *)
(* another process, exchanges the one-time code the browser brought for a  *)
(* session.  Every call holds the slot's OS lock from its first access to  *)
(* its return, the network exchange included.  Each storage access is a    *)
(* step, and a call may end at any of them.                                *)
(***************************************************************************)
EXTENDS Naturals

CONSTANTS
    Proc,      \* processes of one OS user: CLI invocations, desktop
    App,       \* contexts: an application with its state directory
    AppOf,     \* the context each process runs in
    NoProc,    \* nobody holds the slot lock
    MaxFlows,  \* bound on logins
    MaxFaults  \* bound on crashes and failed accesses

ASSUME AppAssumption == AppOf \in [Proc -> App]
ASSUME NoProcAssumption == NoProc \notin Proc
ASSUME BoundsAssumption == MaxFlows \in Nat /\ MaxFaults \in Nat

VARIABLES
    lock,      \* holder of the slot's OS lock
    metadata,  \* the public pointer file, or NoBinding
    secure,    \* flow |-> its secure record, or NoBinding
    session,   \* the flow whose session the session slot holds, or 0
    live,      \* the stored session has not expired
    expired,   \* flows whose handoff lifetime is over
    issued,    \* flows created so far: 1 .. issued
    pc,        \* where each process is
    op,        \* the call each process is in
    flow,      \* the binding each process has loaded
    faults,    \* crashes and failed accesses so far
    sent       \* how often each flow's one-time code has been transmitted

vars == <<lock, metadata, secure, session, live, expired, issued, pc, op,
          flow, faults, sent>>
store == <<metadata, secure>>
time == <<live, expired>>

Flow == 1 .. MaxFlows
Phase == {"pending", "exchanging", "persisted"}
NoBinding == [id |-> 0]
Binding == [id : Flow, app : App, phase : Phase]

Op == {"none", "login", "restart", "callback", "forget"}
PC == {"idle", "create", "purge_secret", "purge_meta", "publish", "store",
       "load", "recover", "begin", "begin_meta", "send", "answer", "save",
       "mark", "mark_meta", "clear", "clear_session", "forgotten"}

auth_phase_rank(ph) ==
    CASE ph = "pending" -> 0 [] ph = "exchanging" -> 1 [] ph = "persisted" -> 2

Init ==
    /\ lock = NoProc
    /\ metadata = NoBinding
    /\ secure = [f \in Flow |-> NoBinding]
    /\ session = 0
    /\ live = FALSE
    /\ expired = {}
    /\ issued = 0
    /\ pc = [p \in Proc |-> "idle"]
    /\ op = [p \in Proc |-> "none"]
    /\ flow = [p \in Proc |-> NoBinding]
    /\ faults = 0
    /\ sent = [f \in Flow |-> 0]

Goto(p, to) == pc' = [pc EXCEPT ![p] = to] /\ UNCHANGED <<lock, op, faults>>

\* Drop unlocks the slot; the call's locals are gone.
Return(p) ==
    /\ lock' = NoProc
    /\ pc' = [pc EXCEPT ![p] = "idle"]
    /\ op' = [op EXCEPT ![p] = "none"]
    /\ flow' = [flow EXCEPT ![p] = NoBinding]

\* An early return that changes no record.
Refuse(p) ==
    /\ Return(p)
    /\ UNCHANGED <<store, session, time, issued, faults, sent>>

\* acquire_slot_file: try_lock.  A held lock refuses the call at once
\* ("login_in_progress"), which changes nothing.
Acquire(p, o, to) ==
    /\ pc[p] = "idle"
    /\ lock = NoProc
    /\ lock' = p
    /\ pc' = [pc EXCEPT ![p] = to]
    /\ op' = [op EXCEPT ![p] = o]
    /\ UNCHANGED <<store, session, time, issued, flow, faults, sent>>

Login(p) == \E o \in {"login", "restart"} :
    issued < MaxFlows /\ Acquire(p, o, "create")
Callback(p) == Acquire(p, "callback", "load")
Forget(p) == Acquire(p, "forget", "load")

\* require_same_flow: the pointer still names the loaded flow.
SameFlow(p) == metadata.id = flow[p].id
-----------------------------------------------------------------------------
(* create *)

CreateFresh(p) ==
    /\ pc[p] = "create"
    /\ metadata = NoBinding
    /\ Goto(p, "publish")
    /\ UNCHANGED <<store, session, time, issued, flow, sent>>

\* An existing record is discarded when it expired or on --restart, whatever
\* application left it.
Discards(p) == op[p] = "restart" \/ metadata.id \in expired

CreateOver(p) ==
    /\ pc[p] = "create"
    /\ metadata # NoBinding
    /\ Discards(p)
    /\ flow' = [flow EXCEPT ![p] = metadata]
    /\ Goto(p, "purge_secret")
    /\ UNCHANGED <<store, session, time, issued, sent>>

CreateRefused(p) ==
    /\ pc[p] = "create"
    /\ metadata # NoBinding
    /\ ~Discards(p)
    /\ Refuse(p)

\* Mutant: cleanup refuses to finish when the secure record is missing.
PurgeSecretStrict(p) ==
    /\ pc[p] = "purge_secret"
    /\ IF secure[flow[p].id] = NoBinding
       THEN Refuse(p)
       ELSE /\ secure' = [secure EXCEPT ![flow[p].id] = NoBinding]
            /\ Goto(p, "purge_meta")
            /\ UNCHANGED <<metadata, session, time, issued, flow, sent>>

\* clear_metadata_record deletes the secure record first, if there is one,
\* and unlinks the pointer last.
PurgeSecret(p) ==
    /\ pc[p] = "purge_secret"
    /\ secure' = [secure EXCEPT ![flow[p].id] = NoBinding]
    /\ Goto(p, "purge_meta")
    /\ UNCHANGED <<metadata, session, time, issued, flow, sent>>

\* create goes on to the new flow, forget to the session, callback is done.
PurgeMeta(p) ==
    /\ pc[p] = "purge_meta"
    /\ metadata' = NoBinding
    /\ IF op[p] = "callback"
       THEN Return(p) /\ UNCHANGED faults
       ELSE /\ Goto(p, IF op[p] = "forget" THEN "clear_session" ELSE "publish")
            /\ UNCHANGED flow
    /\ UNCHANGED <<secure, session, time, issued, sent>>

\* Mutant: a phase auth_phase_rank does not know.
FreshUnranked(p) == [id |-> issued + 1, app |-> AppOf[p], phase |-> "created"]

Fresh(p) == [id |-> issued + 1, app |-> AppOf[p], phase |-> "pending"]

\* persist(creating): the pointer, then the secure record.
Publish(p) ==
    /\ pc[p] = "publish"
    /\ issued' = issued + 1
    /\ metadata' = Fresh(p)
    /\ flow' = [flow EXCEPT ![p] = Fresh(p)]
    /\ Goto(p, "store")
    /\ UNCHANGED <<secure, session, time, sent>>

StoreSecret(p) ==
    /\ pc[p] = "store"
    /\ secure' = [secure EXCEPT ![flow[p].id] = flow[p]]
    /\ Return(p)
    /\ UNCHANGED <<metadata, session, time, issued, faults, sent>>
-----------------------------------------------------------------------------
(* load *)

\* The two records agree, or the secure one is ahead in phase only.
Loadable(b, s) ==
    /\ s # NoBinding
    /\ \/ s = b
       \/ /\ s = [b EXCEPT !.phase = s.phase]
          /\ auth_phase_rank(s.phase) > auth_phase_rank(b.phase)

Loads(p) ==
    /\ metadata # NoBinding
    /\ metadata.app = AppOf[p]
    /\ Loadable(metadata, secure[metadata.id])

Load(p) ==
    /\ pc[p] = "load"
    /\ Loads(p)
    /\ flow' = [flow EXCEPT ![p] = secure[metadata.id]]
    /\ Goto(p, IF op[p] = "forget" THEN "clear" ELSE "recover")
    /\ UNCHANGED <<store, session, time, issued, sent>>

\* load_optional: forget goes on when there is no flow at all.
LoadNothing(p) ==
    /\ pc[p] = "load"
    /\ op[p] = "forget"
    /\ metadata = NoBinding
    /\ Goto(p, "clear_session")
    /\ UNCHANGED <<store, session, time, issued, flow, sent>>

LoadRefused(p) ==
    /\ pc[p] = "load"
    /\ ~Loads(p)
    /\ op[p] = "forget" => metadata # NoBinding
    /\ Refuse(p)
-----------------------------------------------------------------------------
(* callback *)

\* The state, redirect URI or endpoint of the callback does not belong to the
\* loaded flow (an answer to an earlier login, for one).
BindingRefused(p) == pc[p] = "recover" /\ Refuse(p)

\* recover_committed_session: a session this very flow committed earlier.
Committed(p) == session = flow[p].id /\ live

Recover(p) ==
    /\ pc[p] = "recover"
    /\ flow[p].phase # "pending"
    /\ SameFlow(p)
    /\ Committed(p)
    /\ Goto(p, "mark")
    /\ UNCHANGED <<store, session, time, issued, flow, sent>>

RecoverRefused(p) ==
    /\ pc[p] = "recover"
    /\ flow[p].phase # "pending"
    /\ ~(SameFlow(p) /\ Committed(p))
    /\ Refuse(p)

\* validate_handoff: the handoff has not expired.
Validate(p) ==
    /\ pc[p] = "recover"
    /\ flow[p].phase = "pending"
    /\ flow[p].id \notin expired
    /\ Goto(p, "begin")
    /\ UNCHANGED <<store, session, time, issued, flow, sent>>

ValidateRefused(p) ==
    /\ pc[p] = "recover"
    /\ flow[p].phase = "pending"
    /\ flow[p].id \in expired
    /\ Refuse(p)

\* Mutant: the intent is kept in memory only.
BeginExchangeVolatile(p) ==
    /\ pc[p] = "begin"
    /\ SameFlow(p)
    /\ flow' = [flow EXCEPT ![p].phase = "exchanging"]
    /\ Goto(p, "send")
    /\ UNCHANGED <<store, session, time, issued, sent>>
\* begin_exchange (phase and pointer checked): the intent reaches the secure record, then the pointer.
BeginExchange(p) ==
    /\ pc[p] = "begin"
    /\ flow[p].phase = "pending"
    /\ SameFlow(p)
    /\ flow' = [flow EXCEPT ![p].phase = "exchanging"]
    /\ secure' = [secure EXCEPT ![flow[p].id] = flow'[p]]
    /\ Goto(p, "begin_meta")
    /\ UNCHANGED <<metadata, session, time, issued, sent>>

PublishIntent(p) ==
    /\ pc[p] = "begin_meta"
    /\ metadata' = flow[p]
    /\ Goto(p, "send")
    /\ UNCHANGED <<secure, session, time, issued, flow, sent>>

\* The code and the verifier go out; the answer may never come.
Transmit(p) ==
    /\ pc[p] = "send"
    /\ sent' = [sent EXCEPT ![flow[p].id] = @ + 1]
    /\ Goto(p, "answer")
    /\ UNCHANGED <<store, session, time, issued, flow>>

\* complete_hosted_handoff_inner looks at the clock again: a session that
\* arrives after the handoff's lifetime is dropped.
Answer(p) ==
    /\ pc[p] = "answer"
    /\ flow[p].id \notin expired
    /\ Goto(p, "save")
    /\ UNCHANGED <<store, session, time, issued, flow, sent>>

\* The server refuses, or the answer fails a check.
AnswerRefused(p) == pc[p] = "answer" /\ Refuse(p)

\* Mutant: the call lets go of the slot during the exchange.
SaveSessionUnlocked(p) ==
    \/ /\ pc[p] = "save"
       /\ session' = flow[p].id
       /\ live' = TRUE
       /\ Goto(p, "mark")
       /\ UNCHANGED <<store, expired, issued, flow, sent>>
    \/ /\ pc[p] = "save"
       /\ lock = p
       /\ lock' = NoProc
       /\ UNCHANGED <<store, session, time, issued, flow, sent, pc, op, faults>>

SaveSession(p) ==
    /\ pc[p] = "save"
    /\ session' = flow[p].id
    /\ live' = TRUE
    /\ Goto(p, "mark")
    /\ UNCHANGED <<store, expired, issued, flow, sent>>

\* mark_persisted; from here on an error is only a cleanup warning.
MarkPersisted(p) ==
    /\ pc[p] = "mark"
    /\ SameFlow(p)
    /\ flow' = [flow EXCEPT ![p].phase = "persisted"]
    /\ secure' = [secure EXCEPT ![flow[p].id] = flow'[p]]
    /\ Goto(p, IF flow[p].phase = "persisted" THEN "clear" ELSE "mark_meta")
    /\ UNCHANGED <<metadata, session, time, issued, sent>>

PublishPersisted(p) ==
    /\ pc[p] = "mark_meta"
    /\ metadata' = flow[p]
    /\ Goto(p, "clear")
    /\ UNCHANGED <<secure, session, time, issued, flow, sent>>

\* clear: require_same_flow, then clear_metadata_record.
Clear(p) ==
    /\ pc[p] = "clear"
    /\ SameFlow(p)
    /\ Goto(p, "purge_secret")
    /\ UNCHANGED <<store, session, time, issued, flow, sent>>
-----------------------------------------------------------------------------
(* forget, and the owner's clear_if_current *)

ClearSession(p) ==
    /\ pc[p] = "clear_session"
    /\ session' = 0
    /\ live' = FALSE
    /\ Goto(p, "forgotten")
    /\ UNCHANGED <<store, expired, issued, flow, sent>>

Forgotten(p) == pc[p] = "forgotten" /\ Refuse(p)

\* TzapSessionSlotOwnership: under the same lock, the session is removed if it
\* is still the one the caller saw.
ClearIfCurrent(p, expected) ==
    /\ pc[p] = "idle"
    /\ lock = NoProc
    /\ session = expected
    /\ session' = 0
    /\ live' = FALSE
    /\ UNCHANGED <<lock, store, expired, issued, pc, op, flow, faults, sent>>
-----------------------------------------------------------------------------
(* The environment *)

\* A crash, or an access that fails and is returned as an error: the code
\* rolls nothing back, so both leave the records as they are and the lock
\* free.  An access that took effect and then failed is the next step's Abort.
Abort(p) ==
    /\ pc[p] # "idle"
    /\ faults < MaxFaults
    /\ faults' = faults + 1
    /\ Return(p)
    /\ UNCHANGED <<store, session, time, issued, sent>>

\* AUTH_HANDOFF_LIFETIME_SECONDS pass for a flow.
HandoffExpires(f) ==
    /\ f \in 1 .. issued \ expired
    /\ expired' = expired \cup {f}
    /\ UNCHANGED <<lock, store, session, live, issued, pc, op, flow, faults, sent>>

SessionExpires ==
    /\ live
    /\ live' = FALSE
    /\ UNCHANGED <<lock, store, session, expired, issued, pc, op, flow, faults, sent>>

Start(p) == Login(p) \/ Callback(p) \/ Forget(p)
Creating(p) ==
    \/ CreateFresh(p) \/ CreateOver(p) \/ CreateRefused(p)
    \/ PurgeSecret(p) \/ PurgeMeta(p) \/ Publish(p) \/ StoreSecret(p)
Loading(p) == Load(p) \/ LoadNothing(p) \/ LoadRefused(p)
Exchanging(p) ==
    \/ BindingRefused(p) \/ Recover(p) \/ RecoverRefused(p)
    \/ Validate(p) \/ ValidateRefused(p)
    \/ BeginExchange(p) \/ PublishIntent(p) \/ Transmit(p)
    \/ Answer(p) \/ AnswerRefused(p) \/ SaveSession(p)
    \/ MarkPersisted(p) \/ PublishPersisted(p)
Clearing(p) == Clear(p) \/ ClearSession(p) \/ Forgotten(p)
Step(p) == Creating(p) \/ Loading(p) \/ Exchanging(p) \/ Clearing(p)

Next ==
    \/ \E p \in Proc :
          \/ Start(p) \/ Step(p) \/ Abort(p)
          \/ \E f \in Flow : ClearIfCurrent(p, f)
    \/ \E f \in Flow : HandoffExpires(f)
    \/ SessionExpires

Spec == Init /\ [][Next]_vars

\* A call that was started runs on until it returns or is aborted.
FairSpec == Spec /\ \A p \in Proc : WF_vars(Step(p))
-----------------------------------------------------------------------------
(* Properties *)

\* Every variable keeps the shape of the record, lock or local it stands for.
TypeOK ==
    /\ lock \in Proc \cup {NoProc}
    /\ metadata \in Binding \cup {NoBinding}
    /\ secure \in [Flow -> Binding \cup {NoBinding}]
    /\ session \in 0 .. MaxFlows
    /\ live \in BOOLEAN
    /\ expired \subseteq Flow
    /\ issued \in 0 .. MaxFlows
    /\ pc \in [Proc -> PC]
    /\ op \in [Proc -> Op]
    /\ flow \in [Proc -> Binding \cup {NoBinding}]
    /\ faults \in Nat
    /\ sent \in [Flow -> Nat]

\* begin_exchange: whatever is interrupted, retried or restarted, in whatever
\* process, the one-time code of a flow is transmitted at most once.
CodeSentOnce == \A f \in Flow : sent[f] <= 1

\* persist and clear_metadata_record: a verifier in the secure store is always
\* the one the pointer file names, so a later login or forget can remove it;
\* and after a crash the secure record is never behind the pointer, so that
\* load never meets a pair it cannot reconcile.
RecordsMatch ==
    /\ \A f \in Flow : secure[f] # NoBinding => metadata.id = f
    /\ metadata # NoBinding /\ secure[metadata.id] # NoBinding
          => Loadable(metadata, secure[metadata.id])

\* tzap_auth_callback_json reports success only when the session in the slot
\* is the one its own flow committed.
GrantIsOwn ==
    \A p \in Proc : pc[p] \in {"mark", "mark_meta"} => session = flow[p].id

\* The slot lock spans the network exchange: a late answer never replaces the
\* session of a newer login.
SessionNeverRegresses ==
    [][session' # session /\ session' # 0 => session' > session /\ session' = metadata.id]_vars

\* tzap_auth_forget_json: when forget reports success nothing of the login is
\* left, neither flow nor verifier nor session.
ForgetForgets ==
    \A p \in Proc : pc[p] = "forgotten" =>
        /\ metadata = NoBinding
        /\ session = 0
        /\ \A f \in Flow : secure[f] = NoBinding

\* The slot at every moment: a code is used once and credited to its own flow,
\* and no verifier is left that a later login or forget would not find.
SlotIsSound == CodeSentOnce /\ RecordsMatch /\ GrantIsOwn /\ ForgetForgets

\* The state a pending login leaves for the callback.
PendingReady ==
    /\ metadata # NoBinding
    /\ metadata.phase = "pending"
    /\ secure[metadata.id] = metadata

\* create with restart repairs the slot from whatever an interrupted call left
\* there: without a further failure it ends with a complete pending flow.
RestartRepairs == \A p \in Proc :
    pc[p] = "create" /\ op[p] = "restart" /\ faults = MaxFaults ~> PendingReady
=============================================================================
