--------------------------- MODULE AuthFlowProofs ---------------------------
(***************************************************************************)
(* What module AuthFlow promises, for any number of processes, contexts,   *)
(* logins, crashes and failed accesses.                                    *)
(***************************************************************************)
EXTENDS AuthFlow, TLAPS

\* A call is under way exactly while it holds the slot lock.
LockInv == \A p \in Proc : pc[p] # "idle" <=> lock = p

\* A login that is going to publish a flow has room for it.
OpInv ==
    \A p \in Proc :
        /\ pc[p] \in {"load", "recover", "begin", "begin_meta", "send", "answer",
                      "save", "mark", "mark_meta", "clear"}
              => op[p] \in {"callback", "forget"}
        /\ pc[p] \in {"create", "publish"} => issued < MaxFlows
        /\ pc[p] \in {"purge_secret", "purge_meta"} /\ op[p] \notin {"callback", "forget"}
              => issued < MaxFlows

\* The pointer names the newest flow, and the session is not newer.
IdInv ==
    /\ metadata # NoBinding => metadata.id = issued
    /\ session <= issued

\* What the holder of the lock has loaded is what is stored.
Loaded == {"recover", "begin", "begin_meta", "send", "answer", "save", "mark",
           "mark_meta", "clear"}

FlowInv ==
    \A p \in Proc :
        /\ pc[p] \in Loaded \cup {"purge_secret", "purge_meta", "store"}
              => flow[p] \in Binding /\ flow[p].id = metadata.id
        /\ pc[p] \in Loaded => secure[flow[p].id] = flow[p]
        /\ pc[p] = "purge_meta" => secure[flow[p].id] = NoBinding
        /\ pc[p] = "store" => /\ flow[p] = metadata /\ flow[p].phase = "pending"
                              /\ sent[flow[p].id] = 0
        /\ pc[p] \in {"publish", "clear_session", "forgotten"} => metadata = NoBinding
        /\ pc[p] \in {"begin_meta", "send"} => sent[flow[p].id] = 0
        /\ pc[p] \in {"begin_meta", "send", "answer", "save", "mark", "mark_meta"}
              => flow[p].phase # "pending"
        /\ pc[p] = "forgotten" => session = 0

\* A code that went out belongs to a flow that is no longer pending.
SentInv ==
    \A f \in Flow :
        /\ sent[f] > 0 => f <= issued
        /\ secure[f] # NoBinding /\ secure[f].phase = "pending" => sent[f] = 0

SlotInv ==
    /\ LockInv /\ OpInv /\ IdInv /\ FlowInv /\ SentInv
    /\ CodeSentOnce /\ RecordsMatch /\ GrantIsOwn

IInv == TypeOK /\ SlotInv
-----------------------------------------------------------------------------
LEMMA BindingFacts ==
  /\ NoBinding \notin Binding /\ NoBinding.id = 0 /\ 0 \notin Flow
  /\ \A b \in Binding : b.id \in Flow /\ b # NoBinding /\ b.phase \in Phase
  /\ \A b \in Binding, ph \in Phase : [b EXCEPT !.phase = ph] \in Binding
  BY BoundsAssumption DEF Binding, NoBinding, Flow

\* A pair that load accepts differs in the phase only, and that goes forward.
LEMMA LoadableFacts ==
  ASSUME NEW b \in Binding, NEW s \in Binding
  PROVE  /\ Loadable(b, s) => s.id = b.id
         /\ Loadable(b, b)
         /\ s.phase = "pending" /\ Loadable(b, s) => b = s
         /\ s.phase = "pending" /\ s = b => Loadable(b, [s EXCEPT !.phase = "exchanging"])
         /\ Loadable(b, s) => Loadable(b, [s EXCEPT !.phase = "persisted"])
<1> USE BindingFacts
<1>1. /\ Loadable(b, s) => s.id = b.id
      /\ Loadable(b, b)
      /\ s.phase = "pending" /\ Loadable(b, s) => b = s
  BY DEF Loadable, Binding, auth_phase_rank, Phase
<1>2. ASSUME s.phase = "pending", s = b
      PROVE  Loadable(b, [s EXCEPT !.phase = "exchanging"])
  BY <1>2 DEF Loadable, Binding, auth_phase_rank, Phase
<1>3. ASSUME Loadable(b, s) PROVE Loadable(b, [s EXCEPT !.phase = "persisted"])
  <2> DEFINE q == [s EXCEPT !.phase = "persisted"]
  <2>1. q \in Binding /\ q.phase = "persisted"
    BY DEF Binding, Phase
  <2>2. q = [b EXCEPT !.phase = q.phase]
    BY <1>3, <2>1 DEF Loadable, Binding
  <2>3. b.phase = "persisted" => q = b
    BY <2>2, <2>1 DEF Binding
  <2>4. b.phase # "persisted" => auth_phase_rank(q.phase) > auth_phase_rank(b.phase)
    BY <2>1 DEF auth_phase_rank, Phase
  <2> HIDE DEF q
  <2>5. Loadable(b, q)
    BY <2>1, <2>2, <2>3, <2>4 DEF Loadable
  <2> QED
    BY <2>5 DEF q
<1> QED
  BY <1>1, <1>2, <1>3

LEMMA InitInv == Init => IInv
<1> SUFFICES ASSUME Init PROVE IInv
  OBVIOUS
<1> USE BindingFacts, BoundsAssumption, NoProcAssumption DEF Init
<1>4. live \in BOOLEAN
  BY Zenon
<1>1. TypeOK
  BY <1>4 DEF TypeOK, PC, Op
<1>2. LockInv /\ OpInv /\ IdInv /\ FlowInv /\ SentInv
  BY DEF LockInv, OpInv, IdInv, FlowInv, SentInv, Loaded
<1>3. CodeSentOnce /\ RecordsMatch /\ GrantIsOwn
  BY DEF CodeSentOnce, RecordsMatch, GrantIsOwn
<1> QED
  BY <1>1, <1>2, <1>3 DEF IInv, SlotInv

\* Only the holder of the lock takes a step, and then every other call is idle.
LEMMA OthersIdle ==
  ASSUME IInv, NEW p \in Proc, pc[p] # "idle" \/ lock = NoProc
  PROVE  \A q \in Proc \ {p} : pc[q] = "idle"
  BY NoProcAssumption DEF IInv, SlotInv, LockInv

\* Every step keeps the types.
LEMMA TypeStep == IInv /\ [Next]_vars => TypeOK'
<1> SUFFICES ASSUME IInv, [Next]_vars PROVE TypeOK'
  OBVIOUS
<1> USE BindingFacts, BoundsAssumption DEF IInv, SlotInv, TypeOK, store, time
<1>1. ASSUME NEW p \in Proc, Start(p) \/ Abort(p) \/ \E f \in Flow : ClearIfCurrent(p, f)
      PROVE  TypeOK'
  <2>1. CASE Start(p) \/ Abort(p)
    BY <2>1 DEF Start, Login, Callback, Forget, Acquire, Abort, Return, PC, Op
  <2>2. CASE \E f \in Flow : ClearIfCurrent(p, f)
    <3>1. live' \in BOOLEAN
      BY <2>2, Zenon DEF ClearIfCurrent
    <3> QED
      BY <2>2, <3>1 DEF ClearIfCurrent
  <2> QED
    BY <1>1, <2>1, <2>2
<1>2. ASSUME NEW p \in Proc, Step(p) PROVE TypeOK'
  <2> USE DEF Goto, Return, Refuse
  <2>p. \A l \in PC : [pc EXCEPT ![p] = l] \in [Proc -> PC]
    OBVIOUS
  <2>f. \A b \in Binding \cup {NoBinding} :
          [flow EXCEPT ![p] = b] \in [Proc -> Binding \cup {NoBinding}]
    OBVIOUS
  <2>r. ASSUME Refuse(p) PROVE TypeOK'
    BY <2>r, <2>p, <2>f DEF PC, Op
  <2>1. CASE Creating(p)
    <3>1. CASE CreateFresh(p) \/ CreateOver(p)
      BY <3>1, <2>p, <2>f DEF CreateFresh, CreateOver, PC
    <3>2. CASE CreateRefused(p)
      BY <3>2, <2>r DEF CreateRefused
    <3>3. CASE PurgeSecret(p)
      BY <3>3, <2>p DEF PurgeSecret, PC
    <3>4. CASE PurgeMeta(p)
      BY <3>4, <2>p, <2>f DEF PurgeMeta, PC, Op
    <3>5. CASE Publish(p)
      <4>1. issued + 1 \in Flow /\ issued' \in 0 .. MaxFlows
        BY <3>5 DEF Publish, OpInv, Flow
      <4>2. Fresh(p) \in Binding
        BY <4>1, AppAssumption DEF Fresh, Binding, Phase
      <4>3. metadata' \in Binding /\ flow' \in [Proc -> Binding \cup {NoBinding}]
        BY <3>5, <2>f, <4>2 DEF Publish
      <4> QED
        BY <3>5, <2>p, <4>1, <4>3 DEF Publish, PC
    <3>6. CASE StoreSecret(p)
      BY <3>6, <2>p, <2>f DEF StoreSecret, PC, Op
    <3> QED
      BY <2>1, <3>1, <3>2, <3>3, <3>4, <3>5, <3>6 DEF Creating
  <2>2. CASE Loading(p)
    BY <2>2, <2>r, <2>p, <2>f DEF Loading, Load, LoadNothing, LoadRefused, Loads, PC
  <2>3. CASE Exchanging(p)
    <3>1. CASE \/ BindingRefused(p) \/ RecoverRefused(p) \/ ValidateRefused(p)
               \/ AnswerRefused(p)
      BY <3>1, <2>r DEF BindingRefused, RecoverRefused, ValidateRefused, AnswerRefused
    <3>2. CASE Recover(p) \/ Validate(p) \/ Answer(p)
      BY <3>2, <2>p DEF Recover, Validate, Answer, PC
    <3>3. CASE BeginExchange(p) \/ MarkPersisted(p)
      <4>1. flow[p] \in Binding
        BY <3>3 DEF BeginExchange, MarkPersisted, FlowInv, Loaded
      <4>2. flow' \in [Proc -> Binding \cup {NoBinding}]
        <5>1. \A ph \in Phase : [flow[p] EXCEPT !.phase = ph] \in Binding
          BY <4>1
        <5>2. \E ph \in Phase : flow' = [flow EXCEPT ![p] = [flow[p] EXCEPT !.phase = ph]]
          BY <3>3 DEF BeginExchange, MarkPersisted, Phase
        <5> QED
          BY <5>1, <5>2, <2>f
      <4>3. secure' \in [Flow -> Binding \cup {NoBinding}]
        BY <3>3, <4>1, <4>2 DEF BeginExchange, MarkPersisted
      <4> QED
        BY <3>3, <4>2, <4>3, <2>p DEF BeginExchange, MarkPersisted, PC
    <3>4. CASE PublishIntent(p) \/ PublishPersisted(p)
      BY <3>4, <2>p DEF PublishIntent, PublishPersisted, PC
    <3>5. CASE Transmit(p)
      <4>1. flow[p].id \in Flow
        BY <3>5 DEF Transmit, FlowInv, Loaded
      <4>2. sent' \in [Flow -> Nat]
        BY <3>5, <4>1 DEF Transmit
      <4> QED
        BY <3>5, <2>p, <4>2 DEF Transmit, PC
    <3>6. CASE SaveSession(p)
      <4>1. live' \in BOOLEAN
        BY <3>6, Zenon DEF SaveSession
      <4>2. session' \in 0 .. MaxFlows
        BY <3>6 DEF SaveSession, FlowInv, Loaded, Flow
      <4> QED
        BY <3>6, <2>p, <4>1, <4>2 DEF SaveSession, PC
    <3> QED
      BY <2>3, <3>1, <3>2, <3>3, <3>4, <3>5, <3>6 DEF Exchanging
  <2>4. CASE Clearing(p)
    <3>1. CASE Clear(p)
      BY <3>1, <2>p DEF Clear, PC
    <3>3. CASE Forgotten(p)
      BY <3>3, <2>r DEF Forgotten
    <3>2. CASE ClearSession(p)
      <4>1. live' \in BOOLEAN
        BY <3>2, Zenon DEF ClearSession
      <4> QED
        BY <3>2, <2>p, <4>1 DEF ClearSession, PC
    <3> QED
      BY <2>4, <3>1, <3>2, <3>3 DEF Clearing
  <2> QED
    BY <1>2, <2>1, <2>2, <2>3, <2>4 DEF Step
<1>3. ASSUME NEW f \in Flow, HandoffExpires(f) PROVE TypeOK'
  BY <1>3 DEF HandoffExpires
<1>4. CASE SessionExpires \/ UNCHANGED vars
  BY <1>4 DEF SessionExpires, vars
<1> QED
  BY <1>1, <1>2, <1>3, <1>4 DEF Next

\* Every step keeps the discipline of lock, records and phases.
LEMMA SlotStep == IInv /\ Next => SlotInv'
<1> SUFFICES ASSUME IInv, Next PROVE SlotInv'
  OBVIOUS
<1> USE BindingFacts, BoundsAssumption, NoProcAssumption
    DEF IInv, TypeOK, store, time, SlotInv, LockInv, OpInv, IdInv, FlowInv, SentInv,
        CodeSentOnce, RecordsMatch, GrantIsOwn, Loaded
<1>1. ASSUME NEW p \in Proc, Start(p) \/ Abort(p) \/ \E f \in Flow : ClearIfCurrent(p, f)
      PROVE  SlotInv'
  BY <1>1, OthersIdle DEF Start, Login, Callback, Forget, Acquire, Abort, Return, ClearIfCurrent
<1>2. ASSUME NEW p \in Proc, Step(p) PROVE SlotInv'
  <2> USE DEF Goto, Return, Refuse
  <2>r. ASSUME Refuse(p), pc[p] # "idle" PROVE SlotInv'
    BY <2>r, OthersIdle
  <2>1. CASE Creating(p)
    <3>1. CASE CreateFresh(p) \/ CreateOver(p)
      BY <3>1, OthersIdle DEF CreateFresh, CreateOver
    <3>2. CASE CreateRefused(p)
      BY <3>2, <2>r DEF CreateRefused
    <3>3. CASE PurgeSecret(p)
      BY <3>3, OthersIdle DEF PurgeSecret
    <3>4. CASE PurgeMeta(p)
      BY <3>4, OthersIdle DEF PurgeMeta
    <3>5. CASE Publish(p)
      <4>1. metadata = NoBinding /\ \A f \in Flow : secure[f] = NoBinding
        BY <3>5 DEF Publish
      <4>2. /\ issued + 1 \in Flow /\ sent[issued + 1] = 0
            /\ \A q \in Proc \ {p} : pc[q] = "idle"
        BY <3>5, OthersIdle, SMTT(30) DEF Publish, Flow
      <4>3. /\ Fresh(p) \in Binding /\ Fresh(p).id = issued + 1
            /\ Fresh(p).phase = "pending"
        BY <4>2, AppAssumption DEF Fresh, Binding, Phase
      <4>4. /\ pc' = [pc EXCEPT ![p] = "store"] /\ issued' = issued + 1
            /\ metadata' = Fresh(p) /\ flow' = [flow EXCEPT ![p] = Fresh(p)]
            /\ UNCHANGED <<secure, session, lock, op, sent>>
        BY <3>5 DEF Publish
      <4>5. LockInv' /\ OpInv' /\ IdInv' /\ GrantIsOwn'
        BY <3>5, <4>2, <4>3, <4>4 DEF Publish
      <4>6. FlowInv'
        BY <4>2, <4>3, <4>4
      <4>7. RecordsMatch'
        BY <4>1, <4>2, <4>3, <4>4
      <4>8. SentInv' /\ CodeSentOnce'
        <5>1. \A f \in Flow : secure'[f] = NoBinding
          BY <4>1, <4>4
        <5>2. \A f \in Flow : sent'[f] <= 1 /\ (sent'[f] > 0 => f <= issued')
          BY <4>4 DEF Flow
        <5> QED
          BY <5>1, <5>2, Zenon
      <4> QED
        BY <4>5, <4>6, <4>7, <4>8
    <3>6. CASE StoreSecret(p)
      <4>1. /\ metadata = flow[p] /\ flow[p] \in Binding /\ flow[p].phase = "pending"
            /\ sent[flow[p].id] = 0
            /\ \A q \in Proc \ {p} : pc[q] = "idle"
        BY <3>6, OthersIdle DEF StoreSecret
      <4>6. Loadable(metadata, flow[p])
        <5> HIDE DEF IInv
        <5> QED
          BY <4>1, LoadableFacts
      <4>2. /\ secure' = [secure EXCEPT ![flow[p].id] = flow[p]]
            /\ lock' = NoProc /\ pc' = [pc EXCEPT ![p] = "idle"]
            /\ UNCHANGED <<metadata, session, issued, sent>>
        BY <3>6 DEF StoreSecret
      <4>3. \A q \in Proc : pc'[q] = "idle"
        BY <4>1, <4>2
      <4>4. LockInv' /\ OpInv' /\ IdInv' /\ GrantIsOwn' /\ FlowInv' /\ CodeSentOnce'
        BY <4>2, <4>3
      <4>5. SentInv' /\ RecordsMatch'
        BY <4>1, <4>2, <4>6
      <4> QED
        BY <4>4, <4>5
    <3> QED
      BY <2>1, <3>1, <3>2, <3>3, <3>4, <3>5, <3>6 DEF Creating
  <2>2. CASE Loading(p)
    <3>1. CASE Load(p)
      <4> DEFINE s == secure[metadata.id]
      <4>1. /\ metadata \in Binding /\ s \in Binding /\ s.id = metadata.id
            /\ \A q \in Proc \ {p} : pc[q] = "idle"
        <5>1. metadata \in Binding /\ s \in Binding /\ Loadable(metadata, s)
          BY <3>1 DEF Load, Loads, Loadable
        <5> QED
          BY <5>1, <3>1, OthersIdle, LoadableFacts DEF Load
      <4>2. /\ flow' = [flow EXCEPT ![p] = s]
            /\ \E l \in {"clear", "recover"} : pc' = [pc EXCEPT ![p] = l]
            /\ UNCHANGED <<metadata, secure, session, issued, sent, lock, op>>
        BY <3>1 DEF Load
      <4> HIDE DEF s
      <4>3. LockInv' /\ OpInv' /\ IdInv' /\ GrantIsOwn' /\ SentInv' /\ CodeSentOnce'
        BY <3>1, <4>1, <4>2 DEF Load
      <4>4. RecordsMatch'
        BY <4>2
      <4>5. flow'[p] = s /\ secure'[s.id] = s
        BY <4>1, <4>2 DEF s
      <4>6. FlowInv'
        BY <4>1, <4>2, <4>5
      <4> QED
        BY <4>3, <4>4, <4>6
    <3>2. CASE LoadNothing(p)
      BY <3>2, OthersIdle DEF LoadNothing
    <3>3. CASE LoadRefused(p)
      BY <3>3, <2>r DEF LoadRefused
    <3> QED
      BY <2>2, <3>1, <3>2, <3>3 DEF Loading
  <2>3. CASE Exchanging(p)
    <3>1. CASE \/ BindingRefused(p) \/ RecoverRefused(p) \/ ValidateRefused(p)
               \/ AnswerRefused(p)
      BY <3>1, <2>r DEF BindingRefused, RecoverRefused, ValidateRefused, AnswerRefused
    <3>2. CASE Recover(p) \/ Validate(p) \/ Answer(p)
      BY <3>2, OthersIdle DEF Recover, Validate, Answer, Committed, SameFlow
    <3>3. CASE BeginExchange(p) 
      <4> DEFINE b == [flow[p] EXCEPT !.phase = "exchanging"]
      <4>1. /\ flow[p] \in Binding /\ flow[p].phase = "pending"
            /\ flow[p].id = metadata.id /\ metadata \in Binding
            /\ secure[flow[p].id] = flow[p]
            /\ \A q \in Proc \ {p} : pc[q] = "idle"
        BY <3>3, OthersIdle DEF BeginExchange
      <4>2. b \in Binding /\ b.id = flow[p].id /\ b.phase = "exchanging"
        BY <4>1 DEF Binding, Phase
      <4>3. Loadable(metadata, b) /\ sent[b.id] = 0
        <5>1. Loadable(metadata, flow[p]) /\ sent[b.id] = 0
          BY <4>1, <4>2
        <5> HIDE DEF IInv
        <5>2. metadata = flow[p]
          BY <5>1, <4>1, LoadableFacts
        <5> QED
          BY <5>1, <5>2, <4>1, LoadableFacts
      <4>4. /\ pc' = [pc EXCEPT ![p] = "begin_meta"] /\ flow' = [flow EXCEPT ![p] = b]
            /\ secure' = [secure EXCEPT ![b.id] = b]
            /\ UNCHANGED <<metadata, session, issued, sent, lock, op>>
        BY <3>3, <4>2 DEF BeginExchange
      <4> HIDE DEF b
      <4>5. LockInv' /\ OpInv' /\ IdInv' /\ GrantIsOwn' /\ CodeSentOnce'
        BY <3>3, <4>1, <4>4 DEF BeginExchange
      <4>6. SentInv' /\ RecordsMatch'
        BY <4>1, <4>2, <4>3, <4>4
      <4>7. FlowInv'
        BY <4>1, <4>2, <4>3, <4>4
      <4> QED
        BY <4>5, <4>6, <4>7
    <3>7. CASE MarkPersisted(p)
      <4> DEFINE b == [flow[p] EXCEPT !.phase = "persisted"]
      <4>1. /\ flow[p] \in Binding /\ flow[p].id = metadata.id /\ metadata \in Binding
            /\ secure[flow[p].id] = flow[p] /\ session = flow[p].id
            /\ op[p] \in {"callback", "forget"}
            /\ \A q \in Proc \ {p} : pc[q] = "idle"
        BY <3>7, OthersIdle DEF MarkPersisted
      <4>2. b \in Binding /\ b.id = flow[p].id /\ b.phase = "persisted"
        BY <4>1 DEF Binding, Phase
      <4>3. Loadable(metadata, b)
        <5>1. Loadable(metadata, flow[p])
          BY <4>1
        <5> HIDE DEF IInv
        <5> QED
          BY <5>1, <4>1, LoadableFacts
      <4>4. /\ \E l \in {"clear", "mark_meta"} : pc' = [pc EXCEPT ![p] = l]
            /\ flow' = [flow EXCEPT ![p] = b]
            /\ secure' = [secure EXCEPT ![b.id] = b]
            /\ UNCHANGED <<metadata, session, issued, sent, lock, op>>
        BY <3>7, <4>2 DEF MarkPersisted
      <4> HIDE DEF b
      <4>5. LockInv' /\ OpInv' /\ IdInv' /\ GrantIsOwn' /\ CodeSentOnce'
        BY <3>7, <4>1, <4>2, <4>4 DEF MarkPersisted
      <4>6. SentInv' /\ RecordsMatch'
        BY <4>1, <4>2, <4>3, <4>4
      <4>7. FlowInv'
        BY <4>1, <4>2, <4>4
      <4> QED
        BY <4>5, <4>6, <4>7
    <3>4. CASE PublishIntent(p) \/ PublishPersisted(p)
      <4>1. /\ flow[p] \in Binding /\ flow[p].id = metadata.id /\ metadata \in Binding
            /\ secure[flow[p].id] = flow[p]
            /\ \A q \in Proc \ {p} : pc[q] = "idle"
        BY <3>4, OthersIdle DEF PublishIntent, PublishPersisted
      <4>3. Loadable(flow[p], flow[p])
        <5> HIDE DEF IInv
        <5> QED
          BY <4>1, LoadableFacts
      <4>2. /\ metadata' = flow[p] /\ flow[p].phase # "pending"
            /\ \/ pc[p] = "begin_meta" /\ pc' = [pc EXCEPT ![p] = "send"]
               \/ pc[p] = "mark_meta" /\ pc' = [pc EXCEPT ![p] = "clear"]
            /\ UNCHANGED <<secure, session, issued, sent, lock, op, flow>>
        BY <3>4 DEF PublishIntent, PublishPersisted
      <4>5. LockInv' /\ OpInv' /\ IdInv' /\ GrantIsOwn' /\ CodeSentOnce' /\ SentInv'
        BY <4>1, <4>2
      <4>6. RecordsMatch'
        BY <4>1, <4>2, <4>3
      <4>7. FlowInv'
        BY <4>1, <4>2
      <4> QED
        BY <4>5, <4>6, <4>7
    <3>5. CASE Transmit(p)
      BY <3>5, OthersIdle DEF Transmit
    <3>6. CASE SaveSession(p)
      BY <3>6, OthersIdle DEF SaveSession
    <3> QED
      BY <2>3, <3>1, <3>2, <3>3, <3>4, <3>5, <3>6, <3>7 DEF Exchanging
  <2>4. CASE Clearing(p)
    BY <2>4, <2>r, OthersIdle DEF Clearing, Clear, ClearSession, Forgotten
  <2> QED
    BY <1>2, <2>1, <2>2, <2>3, <2>4 DEF Step
<1>3. ASSUME NEW f \in Flow, HandoffExpires(f) PROVE SlotInv'
  BY <1>3 DEF HandoffExpires
<1>4. CASE SessionExpires
  BY <1>4 DEF SessionExpires
<1> QED
  BY <1>1, <1>2, <1>3, <1>4 DEF Next

LEMMA InvStep == IInv /\ [Next]_vars => IInv'
<1>1. ASSUME IInv, Next PROVE IInv'
  BY <1>1, TypeStep, SlotStep DEF IInv, SlotInv
<1>2. ASSUME IInv, UNCHANGED vars PROVE IInv'
  BY <1>2 DEF IInv, SlotInv, vars, TypeOK, LockInv, OpInv, IdInv, FlowInv, SentInv, CodeSentOnce,
     RecordsMatch, GrantIsOwn
<1> QED
  BY <1>1, <1>2

\* The inductive invariant holds throughout.
THEOREM Invariance == Spec => []IInv
  BY InitInv, InvStep, PTL DEF Spec

\* Every record, lock and local of the slot keeps its shape.
THEOREM SlotTypeCorrect == Spec => []TypeOK
<1>1. IInv => TypeOK
  BY DEF IInv
<1> QED
  BY <1>1, Invariance, PTL

\* Whatever is interrupted, retried or restarted, in whatever process: a code is
\* transmitted at most once (begin_exchange), no verifier is left that nobody
\* would find (persist, clear_metadata_record), a callback reports the session of
\* its own flow, and forget forgets (tzap_auth_forget_json).
THEOREM SlotSound == Spec => []SlotIsSound
<1>1. IInv => SlotIsSound
  BY BindingFacts DEF IInv, SlotInv, SlotIsSound, ForgetForgets, FlowInv, RecordsMatch
<1> QED
  BY <1>1, Invariance, PTL

\* A late answer never replaces the session of a newer login: the slot lock spans
\* the exchange (tzap_auth_callback_json).
THEOREM SessionMonotone == Spec => SessionNeverRegresses
<1>1. IInv /\ [Next]_vars =>
        [session' # session /\ session' # 0
            => session' > session /\ session' = metadata.id]_vars
  <2> SUFFICES ASSUME IInv, Next, session' # session, session' # 0
               PROVE  session' > session /\ session' = metadata.id
    BY DEF vars
  <2>1. PICK p \in Proc : SaveSession(p)
    BY ZenonT(60) DEF Next, Start, Login, Callback, Forget, Acquire, Step, Creating, Loading,
       Exchanging, Clearing, Abort, Return, Refuse, ClearIfCurrent, HandoffExpires,
       SessionExpires, CreateFresh, CreateOver, CreateRefused, PurgeSecret, PurgeMeta,
       Publish, StoreSecret, Load, LoadNothing, LoadRefused, BindingRefused, Recover,
       RecoverRefused, Validate, ValidateRefused, BeginExchange, PublishIntent, Transmit,
       Answer, AnswerRefused, MarkPersisted, PublishPersisted, Clear, ClearSession,
       Forgotten
  <2> QED
    BY <2>1, BindingFacts, BoundsAssumption
       DEF SaveSession, IInv, SlotInv, TypeOK, FlowInv, IdInv, Loaded, Flow
<1> QED
  BY <1>1, Invariance, PTL DEF Spec, SessionNeverRegresses
=============================================================================
