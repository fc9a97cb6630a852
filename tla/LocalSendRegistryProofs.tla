---------------------- MODULE LocalSendRegistryProofs ----------------------
(***************************************************************************)
(* What module LocalSendRegistry promises, for any number of shell         *)
(* threads, servers, peers and requests, and any length of the queue.      *)
(*                                                                         *)
(* Three arguments meet.  What a sweep hears stays confirmed until it is   *)
(* reported (HeardInv).  A request is in one place at a time: a channel,   *)
(* then a pump or the queue with its responder kept (RequestInv).  And a   *)
(* shell with one thread never has two servers of its own on the air       *)
(* (SoloInv), so it does not meet itself.                                  *)
(***************************************************************************)
EXTENDS LocalSendRegistry, FiniteSetTheorems, SequenceTheorems, TLAPS

Starting == {"start_discovery", "start_store", "start_store_deaf"}
Listening == {"publish", "publish_deaf", "sweep", "sweep_deaf", "report"}
Reported == {"teardown", "clear", "returned"}
PCs == {"off", "idle", "start", "stop", "build", "announce", "listen"}
          \cup Starting \cup Listening \cup Reported
States == {"never", "unsent", "sent", "polled", "answered", "dropped", "stale", "evicted"}
LocalRec == [dev : Server \cup {None}, temp : Server \cup {None}, found : SUBSET Device,
             heard : SUBSET Device, result : SUBSET Device]
Fate == [at : Server \cup {None}, state : States]

TypeInv ==
    /\ server \in Server \cup {None} /\ discovery \in BOOLEAN /\ (discovery => server \in Server)
    /\ active \in Thread \cup {None} /\ announced \subseteq Server
    /\ confirmed \subseteq Device /\ aged \subseteq confirmed
    /\ pending \subseteq Request
    /\ events \in Seq(Event) /\ Len(events) <= MaxQueued
    /\ pc \in [Thread -> PCs] /\ local \in [Thread -> LocalRec]
    /\ up \subseteq Server /\ air \subseteq Server
    /\ chan \in [Server -> Seq(Event)] /\ pump \in [Server -> Event \cup {None}]
    /\ noise \in Nat /\ fate \in [Request -> Fate]

\* A thread at q with locals l, while the devices S are confirmed and not aged.
HeardOK(q, l, S) ==
    /\ q \in {"sweep", "sweep_deaf", "report"} => l.heard \subseteq S
    /\ q \in Reported => l.heard \cap Peer \subseteq l.result
    /\ q \notin {"sweep", "sweep_deaf", "report"} \cup Reported => l.heard = {}
DevOK(q, l) == q \in Starting \cup Listening \cup {"announce", "listen"} => l.dev \in Server
HeardInv ==
    /\ \A t \in Thread : HeardOK(pc[t], local[t], confirmed \ aged) /\ DevOK(pc[t], local[t])
    /\ active \in Thread => Sweeping(active)

\* Request r is in a channel.
InChan(r) == \E s \in Server : \E i \in 1 .. Len(chan[s]) : chan[s][i] = r
Pumped(r) == \E s \in Server : pump[s] = r
RequestInv ==
    /\ \A s, u \in Server : \A i \in 1 .. Len(chan[s]), j \in 1 .. Len(chan[u]) :
          chan[s][i] = chan[u][j] /\ chan[s][i] \in Request => s = u /\ i = j
    /\ \A r \in Request :
          /\ fate[r].state \in {"never", "unsent"} =>
                r \notin pending \cup Queued /\ ~ Pumped(r) /\ ~ InChan(r)
          /\ fate[r].state \notin {"never", "unsent"} => fate[r].at \in Server
          /\ InChan(r) => r \notin pending \cup Queued /\ ~ Pumped(r) /\ fate[r].state = "sent"
          /\ fate[r].state = "sent" /\ (r \in Queued \/ Pumped(r)) => r \in pending
          /\ fate[r].state = "polled" => r \in pending
          /\ r \in pending => /\ fate[r].state \in {"sent", "polled", "evicted"}
                              /\ r \in Queued \/ Pumped(r) \/ fate[r].state \in {"polled", "evicted"}

\* The only thread, at q with locals l; the receiver is v, on the air are A,
\* announced are N, and the requests fared as in f.
SoloOK(q, l, v, A, N, f) ==
    /\ q \in Starting \cup {"start", "build", "teardown", "clear"} => v = None
    /\ q \in Listening \cup {"announce", "listen"} => (l.dev = v /\ l.temp = None) \/ v = None
    /\ q \in Listening \cup {"listen"} => l.dev \in N
    /\ A \subseteq {v} \cup (IF q \in {"start_store", "publish", "sweep"} THEN {l.dev} ELSE {})
    /\ q \in Starting => \A r \in Request : f[r].state \in Gone => f[r].at # l.dev
SelfInv ==
    /\ confirmed \cap Server \subseteq announced
    /\ \A s \in Server : \A i \in 1 .. Len(chan[s]) : chan[s][i] \in Server => chan[s][i] \in announced
    /\ \A t \in Thread : local[t].found \cap Server \subseteq announced /\ local[t].result \cap Server = {}
    /\ \A r \in Request : fate[r].state \in Gone => fate[r].at # server
SoloInv ==
    OneThread =>
        /\ SelfInv
        /\ \A t \in Thread : pc[t] # "off" => SoloOK(pc[t], local[t], server, air, announced, fate)

IInv == TypeInv /\ HeardInv /\ RequestInv /\ SoloInv
-----------------------------------------------------------------------------
LEMMA IdleFacts ==
  /\ Idle \in LocalRec /\ Idle.dev = None /\ Idle.temp = None
  /\ Idle.found = {} /\ Idle.heard = {} /\ Idle.result = {}
  BY DEF Idle, LocalRec

LEMMA IdleWithDev ==
  ASSUME NEW d \in Server \cup {None}
  PROVE  LET l == [Idle EXCEPT !.dev = d]
         IN  l \in LocalRec /\ l.dev = d /\ l.temp = None /\ l.found = {} /\ l.heard = {} /\ l.result = {}
  BY DEF Idle, LocalRec

LEMMA IdleWithTemp ==
  ASSUME NEW d \in Server \cup {None}, NEW e \in Server \cup {None}
  PROVE  LET l == [Idle EXCEPT !.dev = d, !.temp = e]
         IN  l \in LocalRec /\ l.dev = d /\ l.temp = e /\ l.found = {} /\ l.heard = {} /\ l.result = {}
  BY DEF Idle, LocalRec

\* A thread moves and the others stay where they are.
Moves(t, to, l) ==
    /\ pc' \in [Thread -> PCs] /\ local' \in [Thread -> LocalRec]
    /\ pc'[t] = to /\ local'[t] = l
    /\ \A u \in Thread : u # t => pc'[u] = pc[u] /\ local'[u] = local[u]

LEMMA GotoMoves ==
  ASSUME TypeInv, NEW t \in Thread, NEW to \in PCs, NEW l \in LocalRec, Goto(t, to, l)
  PROVE  Moves(t, to, l)
<1>1. /\ pc \in [Thread -> PCs] /\ local \in [Thread -> LocalRec]
      /\ pc' = [pc EXCEPT ![t] = to] /\ local' = [local EXCEPT ![t] = l]
  BY DEF TypeInv, Goto
<1> QED
  BY <1>1 DEF Moves

\* Threads are off for good or never.
LEMMA SameThreads ==
  ASSUME \A u \in Thread : pc'[u] = "off" <=> pc[u] = "off"
  PROVE  OneThread' <=> OneThread
<1>1. {u \in Thread : pc'[u] # "off"} = {u \in Thread : pc[u] # "off"}
  OBVIOUS
<1> QED
  BY <1>1 DEF OneThread

LEMMA OnlyOne ==
  ASSUME OneThread, NEW t \in Thread, pc[t] # "off", NEW u \in Thread, pc[u] # "off"
  PROVE  u = t
<1> DEFINE S == {v \in Thread : pc[v] # "off"}
<1>1. S \in SUBSET Thread /\ IsFiniteSet(Thread) /\ Cardinality(S) = 1 /\ t \in S /\ u \in S
  BY IdentityAssumption DEF OneThread
<1> HIDE DEF S
<1>2. IsFiniteSet(S)
  BY <1>1, FS_Subset
<1>3. \E x : S = {x}
  BY <1>1, <1>2, FS_Singleton
<1> QED
  BY <1>1, <1>3

\* The queues are left alone.
LEMMA RequestSame ==
  ASSUME RequestInv, UNCHANGED <<pending, events, fate, chan, pump>>
  PROVE  RequestInv'
<1>1. \A r : (InChan(r)' <=> InChan(r)) /\ (Pumped(r)' <=> Pumped(r))
  BY DEF InChan, Pumped
<1>2. Queued' = Queued
  BY DEF Queued
<1> QED
  BY <1>1, <1>2 DEF RequestInv

\* A thread moves without touching the devices or the slot.
LEMMA HeardMoves ==
  ASSUME TypeInv, HeardInv, NEW t \in Thread, NEW to, NEW l, Moves(t, to, l),
         UNCHANGED <<confirmed, aged>>, HeardOK(to, l, confirmed \ aged), DevOK(to, l),
         active' \in Thread => Sweeping(active)'
  PROVE  HeardInv'
<1>1. \A u \in Thread : HeardOK(pc'[u], local'[u], confirmed \ aged) /\ DevOK(pc'[u], local'[u])
  BY DEF HeardInv, Moves
<1> QED
  BY <1>1 DEF HeardInv

\* It neither sweeps nor did.
LEMMA SlotKept ==
  ASSUME HeardInv, NEW t \in Thread, NEW to, NEW l, Moves(t, to, l), active' = active, ~ Sweeping(t)
  PROVE  active' \in Thread => Sweeping(active)'
  BY DEF HeardInv, Moves, Sweeping

\* The only thread moves.
LEMMA SoloMoves ==
  ASSUME TypeInv, SoloInv, NEW t \in Thread, NEW to, NEW l, Moves(t, to, l), pc[t] # "off", to # "off",
         OneThread => SelfInv' /\ SoloOK(to, l, server', air', announced', fate')
  PROVE  SoloInv'
<1>1. OneThread' <=> OneThread
  BY SameThreads DEF Moves
<1>2. ASSUME OneThread, NEW u \in Thread, pc'[u] # "off" PROVE u = t
  BY <1>2, OnlyOne DEF Moves
<1>3. pc'[t] = to /\ local'[t] = l
  BY DEF Moves
<1> QED
  BY <1>1, <1>2, <1>3 DEF SoloInv

\* What is known of a thread and of the registry before its step.
LEMMA At ==
  ASSUME IInv, NEW t \in Thread
  PROVE  /\ pc[t] \in PCs /\ local[t] \in LocalRec
         /\ local[t].dev \in Server \cup {None} /\ local[t].temp \in Server \cup {None}
         /\ local[t].found \subseteq Device /\ local[t].heard \subseteq Device
         /\ local[t].result \subseteq Device
         /\ HeardOK(pc[t], local[t], confirmed \ aged) /\ DevOK(pc[t], local[t])
         /\ OneThread => SelfInv
         /\ OneThread /\ pc[t] # "off" => SoloOK(pc[t], local[t], server, air, announced, fate)
         /\ server \in Server \cup {None} /\ None \notin Server /\ discovery \in BOOLEAN
         /\ discovery => server \in Server
         /\ OneThread => \A r \in Request : fate[r].state \in Gone => fate[r].at # server
         /\ active \in Thread \cup {None} /\ None \notin Thread
         /\ announced \subseteq Server /\ up \subseteq Server /\ air \subseteq Server
         /\ noise \in Nat
<1>1. pc[t] \in PCs /\ local[t] \in LocalRec
  BY DEF IInv, TypeInv
<1>2. /\ local[t].dev \in Server \cup {None} /\ local[t].temp \in Server \cup {None}
      /\ local[t].found \subseteq Device /\ local[t].heard \subseteq Device
      /\ local[t].result \subseteq Device
  BY <1>1 DEF LocalRec
<1>3. HeardOK(pc[t], local[t], confirmed \ aged) /\ DevOK(pc[t], local[t])
  BY DEF IInv, HeardInv
<1>4. /\ OneThread => SelfInv
      /\ OneThread /\ pc[t] # "off" => SoloOK(pc[t], local[t], server, air, announced, fate)
  BY DEF IInv, SoloInv
<1>5. /\ server \in Server \cup {None} /\ None \notin Server /\ discovery \in BOOLEAN
      /\ discovery => server \in Server
      /\ active \in Thread \cup {None} /\ None \notin Thread
      /\ announced \subseteq Server /\ up \subseteq Server /\ air \subseteq Server /\ noise \in Nat
  BY NoneAssumption DEF IInv, TypeInv
<1>6. OneThread => \A r \in Request : fate[r].state \in Gone => fate[r].at # server
  BY <1>4 DEF SelfInv
<1> QED
  BY <1>1, <1>2, <1>3, <1>4, <1>5, <1>6

\* A step of a thread that leaves devices, queues and channels alone.
LEMMA ThreadStep ==
  ASSUME IInv, NEW t \in Thread, pc[t] # "off", NEW to \in PCs, to # "off", NEW l \in LocalRec,
         Goto(t, to, l), UNCHANGED <<devices, queue, chan, pump>>, noise' \in Nat,
         server' \in Server \cup {None}, discovery' \in BOOLEAN, discovery' => server' \in Server,
         active' \in Thread \cup {None}, announced' \subseteq Server, announced \subseteq announced',
         up' \subseteq Server, air' \subseteq Server,
         HeardOK(to, l, confirmed \ aged), DevOK(to, l), active' \in Thread => Sweeping(active)',
         OneThread => /\ l.found \cap Server \subseteq announced' /\ l.result \cap Server = {}
                      /\ \A r \in Request : fate[r].state \in Gone => fate[r].at # server'
                      /\ SoloOK(to, l, server', air', announced', fate)
  PROVE  IInv'
<1>1. TypeInv /\ HeardInv /\ RequestInv /\ SoloInv
  BY DEF IInv
<1>2. UNCHANGED <<confirmed, aged, pending, events, fate, chan, pump>>
  BY DEF devices, queue
<1>3. Moves(t, to, l)
  BY <1>1, GotoMoves
<1>4. TypeInv'
  BY <1>1, <1>2, <1>3 DEF TypeInv, Moves
<1>5. HeardInv'
  BY <1>1, <1>2, <1>3, HeardMoves
<1>6. RequestInv'
  BY <1>1, <1>2, RequestSame
<1>7. SelfInv /\ OneThread => SelfInv'
  <2> SUFFICES ASSUME SelfInv, OneThread PROVE SelfInv'
    OBVIOUS
  <2>1. confirmed' \cap Server \subseteq announced'
    BY <1>2 DEF SelfInv
  <2>2. \A s \in Server : \A i \in 1 .. Len(chan'[s]) : chan'[s][i] \in Server => chan'[s][i] \in announced'
    BY <1>2 DEF SelfInv
  <2>3. \A u \in Thread : local'[u].found \cap Server \subseteq announced' /\ local'[u].result \cap Server = {}
    <3> SUFFICES ASSUME NEW u \in Thread
                 PROVE  local'[u].found \cap Server \subseteq announced' /\ local'[u].result \cap Server = {}
      OBVIOUS
    <3>1. CASE u = t
      BY <1>3, <3>1 DEF Moves
    <3>2. CASE u # t
      BY <1>3, <3>2 DEF Moves, SelfInv
    <3> QED
      BY <3>1, <3>2
  <2>4. \A r \in Request : fate'[r].state \in Gone => fate'[r].at # server'
    BY <1>2
  <2> QED
    BY <2>1, <2>2, <2>3, <2>4 DEF SelfInv
<1>8. SoloInv'
  <2>1. OneThread => SelfInv' /\ SoloOK(to, l, server', air', announced', fate')
    BY <1>1, <1>2, <1>7 DEF SoloInv
  <2> QED
    BY <1>1, <1>3, <2>1, SoloMoves
<1> QED
  BY <1>4, <1>5, <1>6, <1>8 DEF IInv

\* A step of it that leaves the slot alone and is not taken while sweeping.
LEMMA QuietStep ==
  ASSUME IInv, NEW t \in Thread, pc[t] # "off", ~ Sweeping(t), NEW to \in PCs, to # "off",
         NEW l \in LocalRec, Goto(t, to, l), UNCHANGED <<devices, queue, chan, pump, noise, active>>,
         server' \in Server \cup {None}, discovery' \in BOOLEAN, discovery' => server' \in Server,
         announced' \subseteq Server, announced \subseteq announced',
         up' \subseteq Server, air' \subseteq Server,
         HeardOK(to, l, confirmed \ aged), DevOK(to, l),
         OneThread => /\ l.found \cap Server \subseteq announced' /\ l.result \cap Server = {}
                      /\ \A r \in Request : fate[r].state \in Gone => fate[r].at # server'
                      /\ SoloOK(to, l, server', air', announced', fate)
  PROVE  IInv'
<1>1. active' = active /\ active \in Thread \cup {None}
  BY At
<1>2. Moves(t, to, l) /\ HeardInv
  BY GotoMoves DEF IInv
<1>3. active' \in Thread => Sweeping(active)'
  BY <1>1, <1>2, SlotKept
<1>4. UNCHANGED <<devices, queue, chan, pump>> /\ noise' \in Nat
  BY At
<1> QED
  BY <1>1, <1>3, <1>4, ThreadStep

-----------------------------------------------------------------------------
(* The receiver *)

LEMMA StartCheckStep ==
  ASSUME IInv, NEW t \in Thread, StartCheck(t)
  PROVE  IInv'
<1>1. /\ pc[t] = "idle" /\ server = None /\ Goto(t, "start", Idle)
      /\ UNCHANGED <<server, discovery, active, announced, devices, queue, up, air, chan, pump, noise>>
  BY DEF StartCheck, shared, network
<1>2. ~ Sweeping(t) /\ "start" \in PCs
  BY <1>1 DEF Sweeping, PCs
<1>3. HeardOK("start", Idle, confirmed \ aged) /\ DevOK("start", Idle)
  BY IdleFacts DEF HeardOK, DevOK, Starting, Listening, Reported
<1>4. OneThread => SoloOK("start", Idle, server, air, announced, fate)
  BY <1>1, At DEF SoloOK, Starting, Listening
<1> QED
  BY <1>1, <1>2, <1>3, <1>4, IdleFacts, At, QuietStep

\* A server that is new has no history.
LEMMA NewServerFacts ==
  ASSUME NEW s \in NewServer
  PROVE  s \in Server /\ \A r \in Request : fate[r].at # s
<1> DEFINE unbuilt == {u \in Server : Unbuilt(u)}
<1>1. s \in (IF unbuilt = {} THEN {} ELSE {CHOOSE u \in unbuilt : TRUE})
  BY DEF NewServer
<1>2. s \in unbuilt
  BY <1>1
<1> QED
  BY <1>2 DEF Unbuilt

LEMMA StartBuildStep ==
  ASSUME IInv, NEW t \in Thread, StartBuild(t)
  PROVE  IInv'
<1>1. PICK s \in NewServer : up' = up \cup {s} /\ Goto(t, "start_discovery", [Idle EXCEPT !.dev = s])
  BY DEF StartBuild
<1>2. /\ pc[t] = "start"
      /\ UNCHANGED <<server, discovery, active, announced, devices, queue, air, chan, pump, noise>>
  BY DEF StartBuild, shared
<1>3. s \in Server /\ \A r \in Request : fate[r].at # s
  BY NewServerFacts
<1> DEFINE l == [Idle EXCEPT !.dev = s]
<1>4. l \in LocalRec /\ l.dev = s /\ l.found = {} /\ l.heard = {} /\ l.result = {}
  BY <1>3, IdleWithDev
<1> HIDE DEF l
<1>5. ~ Sweeping(t) /\ "start_discovery" \in PCs
  BY <1>2 DEF Sweeping, PCs, Starting
<1>6. HeardOK("start_discovery", l, confirmed \ aged) /\ DevOK("start_discovery", l)
  BY <1>3, <1>4 DEF HeardOK, DevOK, Reported
<1>7. OneThread => SoloOK("start_discovery", l, server, air, announced, fate)
  BY <1>2, <1>3, <1>4, At DEF SoloOK, Starting, Listening
<1>8. up' \subseteq Server /\ Goto(t, "start_discovery", l)
  BY <1>1, <1>3, At DEF l
<1> QED
  BY <1>2, <1>4, <1>5, <1>6, <1>7, <1>8, At, QuietStep

\* A thread that gives up, or is done, with nothing of its own left.
LEMMA BackToIdle ==
  ASSUME IInv, NEW t \in Thread, pc[t] \notin {"off", "sweep", "sweep_deaf"}, Goto(t, "idle", Idle),
         UNCHANGED <<server, discovery, active, announced, devices, queue, air, chan, pump, noise>>,
         up' \subseteq Server, OneThread => air \subseteq {server}
  PROVE  IInv'
<1>2. ~ Sweeping(t) /\ "idle" \in PCs
  BY DEF Sweeping, PCs
<1>3. HeardOK("idle", Idle, confirmed \ aged) /\ DevOK("idle", Idle)
  BY IdleFacts DEF HeardOK, DevOK, Starting, Listening, Reported
<1>4. OneThread => SoloOK("idle", Idle, server, air, announced, fate)
  BY DEF SoloOK, Starting, Listening
<1> QED
  BY <1>2, <1>3, <1>4, IdleFacts, At, QuietStep

LEMMA StartFailsStep ==
  ASSUME IInv, NEW t \in Thread, StartFails(t)
  PROVE  IInv'
<1>1. /\ pc[t] = "start" /\ Goto(t, "idle", Idle)
      /\ UNCHANGED <<server, discovery, active, announced, devices, queue, up, air, chan, pump, noise>>
  BY DEF StartFails, shared, network
<1>2. OneThread => air \subseteq {server}
  BY <1>1, At DEF SoloOK
<1> QED
  BY <1>1, <1>2, At, BackToIdle

LEMMA StartDiscoveryStep ==
  ASSUME IInv, NEW t \in Thread, StartDiscovery(t)
  PROVE  IInv'
<1> DEFINE l == local[t]
<1>1. PICK ok \in BOOLEAN :
          /\ air' = IF ok THEN air \cup {l.dev} ELSE air
          /\ Goto(t, IF ok THEN "start_store" ELSE "start_store_deaf", l)
  BY DEF StartDiscovery
<1>2. /\ pc[t] = "start_discovery"
      /\ UNCHANGED <<server, discovery, active, announced, devices, queue, up, chan, pump, noise>>
  BY DEF StartDiscovery
<1> DEFINE to == IF ok THEN "start_store" ELSE "start_store_deaf"
<1>3. /\ l \in LocalRec /\ l.dev \in Server /\ HeardOK("start_discovery", l, confirmed \ aged)
      /\ OneThread => SelfInv /\ SoloOK("start_discovery", l, server, air, announced, fate)
  BY <1>2, At DEF DevOK, Starting
<1>4. ~ Sweeping(t) /\ to \in PCs /\ to # "off" /\ to \in Starting /\ (to = "start_store" <=> ok)
  BY <1>2 DEF Sweeping, PCs, Starting
<1>5. Goto(t, to, l) /\ air' \subseteq Server
  BY <1>1, <1>3, At
<1>6. OneThread => l.found \cap Server \subseteq announced /\ l.result \cap Server = {}
  BY <1>3 DEF SelfInv
<1> HIDE DEF l, to
<1>7. HeardOK(to, l, confirmed \ aged) /\ DevOK(to, l)
  BY <1>3, <1>4 DEF HeardOK, DevOK, Starting, Reported
<1>8. OneThread => SoloOK(to, l, server, air', announced, fate)
  BY <1>1, <1>3, <1>4 DEF SoloOK, Starting, Listening, l
<1> QED
  BY <1>2, <1>3, <1>4, <1>5, <1>6, <1>7, <1>8, At, QuietStep

LEMMA StartStoreStep ==
  ASSUME IInv, NEW t \in Thread, StartStore(t)
  PROVE  IInv'
<1> DEFINE l == local[t]
<1>1. /\ pc[t] \in {"start_store", "start_store_deaf"} /\ server' = l.dev
      /\ discovery' = (pc[t] = "start_store") /\ Goto(t, "idle", Idle)
      /\ UNCHANGED <<active, announced, devices, queue, up, air, chan, pump, noise>>
  BY DEF StartStore, network
<1>2. /\ l.dev \in Server
      /\ OneThread => SoloOK(pc[t], l, server, air, announced, fate)
  BY <1>1, At DEF DevOK, Starting
<1>3. ~ Sweeping(t) /\ "idle" \in PCs
  BY <1>1 DEF Sweeping, PCs
<1>4. HeardOK("idle", Idle, confirmed \ aged) /\ DevOK("idle", Idle)
  BY IdleFacts DEF HeardOK, DevOK, Starting, Listening, Reported
<1>5. OneThread => /\ air \subseteq {l.dev}
                   /\ \A r \in Request : fate[r].state \in Gone => fate[r].at # l.dev
  BY <1>1, <1>2, At DEF SoloOK, Starting
<1>6. OneThread => SoloOK("idle", Idle, server', air, announced, fate)
  BY <1>1, <1>5 DEF SoloOK, Starting, Listening
<1>7. discovery' \in BOOLEAN
  BY <1>1
<1> HIDE DEF l
<1> QED
  BY <1>1, <1>2, <1>3, <1>4, <1>5, <1>6, <1>7, IdleFacts, At, QuietStep

LEMMA StopServerStep ==
  ASSUME IInv, NEW t \in Thread, StopServer(t)
  PROVE  IInv'
<1>1. /\ pc[t] = "stop" /\ up' = up \ {local[t].dev} /\ Goto(t, "idle", Idle)
      /\ UNCHANGED <<server, discovery, active, announced, devices, queue, air, chan, pump, noise>>
  BY DEF StopServer, shared
<1>2. OneThread => air \subseteq {server}
  BY <1>1, At DEF SoloOK
<1>3. up' \subseteq Server
  BY <1>1, At
<1> QED
  BY <1>1, <1>2, <1>3, At, BackToIdle
-----------------------------------------------------------------------------
(* Sweeps *)

LEMMA SweepBeginStep ==
  ASSUME IInv, NEW t \in Thread, SweepBegin(t)
  PROVE  IInv'
<1> DEFINE to == IF server = None THEN "build" ELSE "announce"
           l == [Idle EXCEPT !.dev = server]
<1>1. /\ pc[t] = "idle" /\ Goto(t, to, l)
      /\ UNCHANGED <<server, discovery, active, announced, devices, queue, up, air, chan, pump, noise>>
  BY DEF SweepBegin, shared, network
<1>2. l \in LocalRec /\ l.dev = server /\ l.temp = None /\ l.found = {} /\ l.heard = {} /\ l.result = {}
  BY At, IdleWithDev
<1>3. ~ Sweeping(t) /\ to \in PCs /\ to # "off"
  BY <1>1 DEF Sweeping, PCs
<1>4. to \in {"build", "announce"} /\ (to = "build" => server = None) /\ (to = "announce" => server \in Server)
  BY At
<1> HIDE DEF l, to
<1>5. HeardOK(to, l, confirmed \ aged) /\ DevOK(to, l)
  BY <1>2, <1>4 DEF HeardOK, DevOK, Starting, Listening, Reported
<1>6. OneThread => SoloOK(to, l, server, air, announced, fate)
  BY <1>1, <1>2, <1>4, At DEF SoloOK, Starting, Listening
<1> QED
  BY <1>1, <1>2, <1>3, <1>5, <1>6, At, QuietStep

LEMMA SweepBuildStep ==
  ASSUME IInv, NEW t \in Thread, SweepBuild(t)
  PROVE  IInv'
<1>1. PICK s \in NewServer, bound \in BOOLEAN :
          /\ up' = IF bound THEN up \cup {s} ELSE up
          /\ Goto(t, "announce", [Idle EXCEPT !.dev = s, !.temp = IF bound THEN s ELSE None])
  BY DEF SweepBuild
<1>2. /\ pc[t] = "build"
      /\ UNCHANGED <<server, discovery, active, announced, devices, queue, air, chan, pump, noise>>
  BY DEF SweepBuild, shared
<1>3. s \in Server
  BY NewServerFacts
<1> DEFINE e == IF bound THEN s ELSE None
           l == [Idle EXCEPT !.dev = s, !.temp = e]
<1>4. e \in Server \cup {None}
  BY <1>3
<1>5. up' \subseteq Server /\ Goto(t, "announce", l)
  BY <1>1, <1>3, At
<1> HIDE DEF e
<1>6. l \in LocalRec /\ l.dev = s /\ l.found = {} /\ l.heard = {} /\ l.result = {}
  BY <1>3, <1>4, IdleWithTemp
<1> HIDE DEF l
<1>7. ~ Sweeping(t) /\ "announce" \in PCs
  BY <1>2 DEF Sweeping, PCs
<1>8. HeardOK("announce", l, confirmed \ aged) /\ DevOK("announce", l)
  BY <1>3, <1>6 DEF HeardOK, DevOK, Reported
<1>9. OneThread => SoloOK("announce", l, server, air, announced, fate)
  BY <1>2, At DEF SoloOK, Starting, Listening
<1> QED
  BY <1>2, <1>5, <1>6, <1>7, <1>8, <1>9, At, QuietStep

LEMMA SweepAnnounceStep ==
  ASSUME IInv, NEW t \in Thread, SweepAnnounce(t)
  PROVE  IInv'
<1> DEFINE l == local[t]
<1>1. /\ pc[t] = "announce" /\ announced' = announced \cup {l.dev} /\ Goto(t, "listen", l)
      /\ UNCHANGED <<server, discovery, active, devices, queue, up, air, chan, pump, noise>>
  BY DEF SweepAnnounce, network
<1>2. /\ l \in LocalRec /\ l.dev \in Server /\ HeardOK("announce", l, confirmed \ aged)
      /\ OneThread => SelfInv /\ SoloOK("announce", l, server, air, announced, fate)
  BY <1>1, At DEF DevOK
<1>3. ~ Sweeping(t) /\ "listen" \in PCs
  BY <1>1 DEF Sweeping, PCs
<1>4. OneThread => l.found \cap Server \subseteq announced' /\ l.result \cap Server = {}
  BY <1>1, <1>2 DEF SelfInv
<1>5. announced' \subseteq Server /\ announced \subseteq announced' /\ l.dev \in announced'
  BY <1>1, <1>2, At
<1> HIDE DEF l
<1>6. HeardOK("listen", l, confirmed \ aged) /\ DevOK("listen", l)
  BY <1>2 DEF HeardOK, DevOK, Starting, Listening, Reported
<1>7. OneThread => SoloOK("listen", l, server, air, announced', fate)
  BY <1>2, <1>5 DEF SoloOK, Starting, Listening
<1> QED
  BY <1>1, <1>2, <1>3, <1>4, <1>5, <1>6, <1>7, At, QuietStep

LEMMA SweepListenStep ==
  ASSUME IInv, NEW t \in Thread, SweepListen(t)
  PROVE  IInv'
<1> DEFINE l == local[t]
<1>1. PICK ok \in BOOLEAN :
          /\ air' = IF ok THEN air \cup {l.dev} ELSE air
          /\ Goto(t, IF ok THEN "publish" ELSE "publish_deaf", l)
  BY DEF SweepListen
<1>2. /\ pc[t] = "listen"
      /\ UNCHANGED <<server, discovery, active, announced, devices, queue, up, chan, pump, noise>>
  BY DEF SweepListen
<1> DEFINE to == IF ok THEN "publish" ELSE "publish_deaf"
<1>3. /\ l \in LocalRec /\ l.dev \in Server /\ HeardOK("listen", l, confirmed \ aged)
      /\ OneThread => SelfInv /\ SoloOK("listen", l, server, air, announced, fate)
  BY <1>2, At DEF DevOK
<1>4. ~ Sweeping(t) /\ to \in PCs /\ to \in {"publish", "publish_deaf"} /\ (to = "publish" <=> ok)
  BY <1>2 DEF Sweeping, PCs, Listening
<1>5. Goto(t, to, l) /\ air' \subseteq Server
  BY <1>1, <1>3, At
<1>6. OneThread => l.found \cap Server \subseteq announced /\ l.result \cap Server = {}
  BY <1>3 DEF SelfInv
<1>7. (air' = air \cup {l.dev} /\ to = "publish") \/ air' = air
  BY <1>1, <1>4
<1> HIDE DEF l, to
<1>8. HeardOK(to, l, confirmed \ aged) /\ DevOK(to, l)
  BY <1>3, <1>4 DEF HeardOK, DevOK, Reported
<1>9. OneThread => SoloOK(to, l, server, air', announced, fate)
  BY <1>3, <1>4, <1>7 DEF SoloOK, Starting, Listening
<1> QED
  BY <1>2, <1>3, <1>4, <1>5, <1>6, <1>8, <1>9, At, QuietStep

LEMMA SweepPublishStep ==
  ASSUME IInv, NEW t \in Thread, SweepPublish(t)
  PROVE  IInv'
<1> DEFINE l == local[t]
           to == IF pc[t] = "publish" THEN "sweep" ELSE "sweep_deaf"
<1>1. /\ pc[t] \in {"publish", "publish_deaf"} /\ active' = t /\ Goto(t, to, l)
      /\ UNCHANGED <<server, discovery, announced, devices, queue, up, air, chan, pump, noise>>
  BY DEF SweepPublish, network
<1>2. /\ l \in LocalRec /\ l.dev \in Server /\ HeardOK(pc[t], l, confirmed \ aged)
      /\ OneThread => SelfInv /\ SoloOK(pc[t], l, server, air, announced, fate)
  BY <1>1, At DEF DevOK, Listening
<1>3. to \in PCs /\ to \in {"sweep", "sweep_deaf"} /\ (to = "sweep" <=> pc[t] = "publish")
  BY <1>1 DEF PCs, Listening
<1>4. OneThread => l.found \cap Server \subseteq announced /\ l.result \cap Server = {}
  BY <1>2 DEF SelfInv
<1> HIDE DEF l, to
<1>5. Sweeping(active)'
  BY <1>1, <1>2, <1>3, GotoMoves DEF Moves, Sweeping, IInv
<1>6. l.heard = {}
  BY <1>1, <1>2 DEF HeardOK, Reported
<1>7. HeardOK(to, l, confirmed \ aged) /\ DevOK(to, l)
  BY <1>2, <1>3, <1>6 DEF HeardOK, DevOK, Reported
<1>8. OneThread => SoloOK(to, l, server, air, announced, fate)
  BY <1>1, <1>2, <1>3 DEF SoloOK, Starting, Listening
<1>9. pc[t] # "off" /\ to # "off" /\ active' \in Thread \cup {None}
  BY <1>1, <1>3
<1> QED
  BY <1>1, <1>2, <1>3, <1>4, <1>5, <1>7, <1>8, <1>9, At, ThreadStep

LEMMA FoundMore ==
  ASSUME NEW l \in LocalRec, NEW D \in SUBSET Device
  PROVE  LET m == [l EXCEPT !.found = @ \cup D]
         IN  /\ m \in LocalRec /\ m.dev = l.dev /\ m.temp = l.temp /\ m.found = l.found \cup D
             /\ m.heard = l.heard /\ m.result = l.result
  BY DEF LocalRec

\* Its listener keeps the sweeping thread from hearing itself.
LEMMA HearStep ==
  ASSUME IInv, NEW t \in Thread, Hear(t)
  PROVE  IInv'
<1> DEFINE k == local[t]
<1>1. PICK d \in (Peer \cup air) \ {k.dev} : local' = [local EXCEPT ![t].found = @ \cup {d}]
  BY DEF Hear
<1>2. /\ pc[t] = "sweep" /\ noise > 0 /\ noise' = noise - 1
      /\ UNCHANGED <<server, discovery, active, announced, devices, queue, up, air, chan, pump, pc>>
  BY DEF Hear, shared, Noise
<1>3. /\ k \in LocalRec /\ HeardOK("sweep", k, confirmed \ aged) /\ DevOK("sweep", k)
      /\ OneThread => SelfInv /\ SoloOK("sweep", k, server, air, announced, fate)
  BY <1>2, At
<1>4. {d} \in SUBSET Device /\ noise' \in Nat
  BY <1>1, <1>2, At DEF Device
<1> DEFINE l == [k EXCEPT !.found = @ \cup {d}]
<1>5. /\ l \in LocalRec /\ l.dev = k.dev /\ l.temp = k.temp /\ l.found = k.found \cup {d}
      /\ l.heard = k.heard /\ l.result = k.result
  BY <1>3, <1>4, FoundMore
<1>6. Goto(t, "sweep", l)
  <2>1. pc \in [Thread -> PCs] /\ local \in [Thread -> LocalRec]
    BY DEF IInv, TypeInv
  <2>2. pc' = [pc EXCEPT ![t] = "sweep"]
    BY <1>2, <2>1
  <2>3. local' = [local EXCEPT ![t] = l]
    BY <1>1, <2>1
  <2> QED
    BY <2>2, <2>3 DEF Goto
<1>7. OneThread => k.found \cap Server \subseteq announced /\ k.result \cap Server = {}
  BY <1>3 DEF SelfInv
<1> HIDE DEF k, l
<1>8. OneThread => d \in Peer
  <2>1. OneThread => air \subseteq {server, k.dev} /\ (k.dev = server \/ server = None)
    BY <1>3 DEF SoloOK, Listening
  <2> QED
    BY <1>1, <2>1, At
<1>9. OneThread => l.found \cap Server \subseteq announced /\ l.result \cap Server = {}
  BY <1>5, <1>7, <1>8, IdentityAssumption
<1>10. HeardOK("sweep", l, confirmed \ aged) /\ DevOK("sweep", l)
  BY <1>3, <1>5 DEF HeardOK, DevOK
<1>11. OneThread => SoloOK("sweep", l, server, air, announced, fate)
  BY <1>3, <1>5 DEF SoloOK
<1>12. "sweep" \in PCs /\ (active' \in Thread => Sweeping(active)')
  BY <1>2 DEF PCs, Listening, IInv, HeardInv, Sweeping
<1> QED
  BY <1>2, <1>4, <1>5, <1>6, <1>9, <1>10, <1>11, <1>12, At, ThreadStep

\* What is on the air when a sweep is over.
LEMMA OffTheAir ==
  ASSUME IInv, NEW t \in Thread, Sweeping(t),
         air' = IF local[t].dev = server /\ discovery THEN air ELSE air \ {local[t].dev}
  PROVE  air' \subseteq Server /\ (OneThread => air' \subseteq {server})
<1>1. air' \subseteq air /\ (local[t].dev = server \/ air' = air \ {local[t].dev})
  OBVIOUS
<1>2. OneThread => air \subseteq {server} \cup {local[t].dev}
  BY At DEF SoloOK, Sweeping
<1> QED
  BY <1>1, <1>2, At

LEMMA SweepEndStep ==
  ASSUME IInv, NEW t \in Thread, SweepEnd(t)
  PROVE  IInv'
<1> DEFINE k == local[t]
<1>1. PICK scanned \in {{}, Peer} : Goto(t, "report", [k EXCEPT !.found = @ \cup scanned])
  BY DEF SweepEnd
<1>2. /\ Sweeping(t) /\ active' = None
      /\ UNCHANGED <<server, discovery, announced, devices, queue, up, chan, pump, noise>>
      /\ air' \subseteq Server /\ (OneThread => air' \subseteq {server})
  BY OffTheAir DEF SweepEnd
<1>3. /\ k \in LocalRec /\ HeardOK(pc[t], k, confirmed \ aged) /\ DevOK(pc[t], k)
      /\ OneThread => SelfInv /\ SoloOK(pc[t], k, server, air, announced, fate)
  BY <1>2, At DEF Sweeping
<1>4. scanned \in SUBSET Device /\ scanned \cap Server = {}
  BY IdentityAssumption DEF Device
<1> DEFINE l == [k EXCEPT !.found = @ \cup scanned]
<1>5. /\ l \in LocalRec /\ l.dev = k.dev /\ l.temp = k.temp /\ l.found = k.found \cup scanned
      /\ l.heard = k.heard /\ l.result = k.result
  BY <1>3, <1>4, FoundMore
<1>6. Goto(t, "report", l)
  BY <1>1
<1>7. OneThread => k.found \cap Server \subseteq announced /\ k.result \cap Server = {}
  BY <1>3 DEF SelfInv
<1> HIDE DEF k, l
<1>8. OneThread => l.found \cap Server \subseteq announced /\ l.result \cap Server = {}
  BY <1>4, <1>5, <1>7
<1>9. HeardOK("report", l, confirmed \ aged) /\ DevOK("report", l)
  BY <1>2, <1>3, <1>5 DEF HeardOK, DevOK, Sweeping, Listening, Reported
<1>10. OneThread => SoloOK("report", l, server, air', announced, fate)
  BY <1>2, <1>3, <1>5 DEF SoloOK, Starting, Listening, Sweeping
<1>11. "report" \in PCs /\ pc[t] # "off"
  BY <1>2 DEF PCs, Listening, Sweeping
<1> QED
  BY <1>2, <1>5, <1>6, <1>8, <1>9, <1>10, <1>11, At, ThreadStep

LEMMA SweepFailsStep ==
  ASSUME IInv, NEW t \in Thread, SweepFails(t)
  PROVE  IInv'
<1> DEFINE k == local[t]
           to == IF k.temp = None THEN "returned" ELSE "teardown"
           l == [Idle EXCEPT !.dev = k.dev, !.temp = k.temp]
<1>1. /\ Sweeping(t) /\ active' = None /\ Goto(t, to, l)
      /\ UNCHANGED <<server, discovery, announced, devices, queue, up, chan, pump, noise>>
      /\ air' \subseteq Server /\ (OneThread => air' \subseteq {server})
  BY OffTheAir DEF SweepFails
<1>2. /\ k.dev \in Server \cup {None} /\ k.temp \in Server \cup {None}
      /\ OneThread => SoloOK(pc[t], k, server, air, announced, fate)
  BY <1>1, At DEF Sweeping
<1> HIDE DEF k
<1>3. l \in LocalRec /\ l.dev = k.dev /\ l.temp = k.temp /\ l.found = {} /\ l.heard = {} /\ l.result = {}
  BY <1>2, IdleWithTemp
<1>4. to \in PCs /\ to \in {"returned", "teardown"} /\ pc[t] # "off" /\ (to = "teardown" => k.temp # None)
  BY <1>1 DEF PCs, Reported, Sweeping
<1> HIDE DEF l, to
<1>5. HeardOK(to, l, confirmed \ aged) /\ DevOK(to, l)
  BY <1>3, <1>4 DEF HeardOK, DevOK, Starting, Listening, Reported
<1>6. OneThread => SoloOK(to, l, server, air', announced, fate)
  <2>1. OneThread => k.temp = None \/ server = None
    BY <1>1, <1>2 DEF SoloOK, Listening, Sweeping
  <2> QED
    BY <1>1, <1>4, <2>1 DEF SoloOK, Starting, Listening
<1>7. to # "off"
  BY <1>4
<1> QED
  BY <1>1, <1>3, <1>4, <1>5, <1>6, <1>7, At, ThreadStep

LEMMA SweepTeardownStep ==
  ASSUME IInv, NEW t \in Thread, SweepTeardown(t)
  PROVE  IInv'
<1> DEFINE l == local[t]
<1>1. /\ pc[t] = "teardown" /\ up' = up \ {l.temp} /\ Goto(t, "clear", l)
      /\ UNCHANGED <<server, discovery, active, announced, devices, queue, air, chan, pump, noise>>
  BY DEF SweepTeardown, shared
<1>2. /\ l \in LocalRec /\ HeardOK("teardown", l, confirmed \ aged)
      /\ OneThread => SelfInv /\ SoloOK("teardown", l, server, air, announced, fate)
  BY <1>1, At
<1>3. ~ Sweeping(t) /\ "clear" \in PCs /\ up' \subseteq Server
  BY <1>1, At DEF Sweeping, PCs, Reported
<1>4. OneThread => l.found \cap Server \subseteq announced /\ l.result \cap Server = {}
  BY <1>2 DEF SelfInv
<1> HIDE DEF l
<1>5. HeardOK("clear", l, confirmed \ aged) /\ DevOK("clear", l)
  BY <1>2 DEF HeardOK, DevOK, Starting, Listening, Reported
<1>6. OneThread => SoloOK("clear", l, server, air, announced, fate)
  BY <1>2 DEF SoloOK, Starting, Listening
<1> QED
  BY <1>1, <1>2, <1>3, <1>4, <1>5, <1>6, At, QuietStep

LEMMA SweepReturnStep ==
  ASSUME IInv, NEW t \in Thread, SweepReturn(t)
  PROVE  IInv'
<1>1. /\ pc[t] = "returned" /\ Goto(t, "idle", Idle)
      /\ UNCHANGED <<server, discovery, active, announced, devices, queue, up, air, chan, pump, noise>>
  BY DEF SweepReturn, shared, network
<1>2. OneThread => air \subseteq {server}
  BY <1>1, At DEF SoloOK
<1> QED
  BY <1>1, <1>2, At, BackToIdle

LEMMA Resulting ==
  ASSUME NEW l \in LocalRec, NEW R \in SUBSET Device
  PROVE  LET m == [l EXCEPT !.result = R]
         IN  /\ m \in LocalRec /\ m.dev = l.dev /\ m.temp = l.temp /\ m.found = l.found
             /\ m.heard = l.heard /\ m.result = R
  BY DEF LocalRec

\* What was confirmed and is not aged stays in the store, so that a sweep
\* reports what it heard, and another that still waits loses nothing.
LEMMA SweepReportStep ==
  ASSUME IInv, NEW t \in Thread, SweepReport(t)
  PROVE  IInv'
<1> DEFINE k == local[t]
           seen == k.found \ {k.dev}
           store == (confirmed \ aged) \cup seen
           to == IF k.temp = None THEN "returned" ELSE "teardown"
           R == store \ (announced \cup {k.dev})
           l == [k EXCEPT !.result = R]
<1>1. /\ pc[t] = "report" /\ confirmed' = store /\ aged' = {} /\ Goto(t, to, l)
      /\ UNCHANGED <<server, discovery, active, announced, pending, events, fate, up, air, chan, pump, noise>>
  BY DEF SweepReport, OwnIdentities, shared, queue, network
<1>2. TypeInv /\ HeardInv /\ RequestInv /\ SoloInv
  BY DEF IInv
<1>3. /\ k \in LocalRec /\ k.found \subseteq Device /\ k.dev \in Server /\ k.heard \subseteq confirmed \ aged
      /\ OneThread => SelfInv /\ SoloOK("report", k, server, air, announced, fate)
  BY <1>1, At DEF DevOK, HeardOK, Listening
<1>4. OneThread => k.found \cap Server \subseteq announced
  BY <1>3 DEF SelfInv
<1> HIDE DEF k
<1>5. store \subseteq Device /\ confirmed \ aged \subseteq store /\ R \in SUBSET Device
  BY <1>2, <1>3 DEF TypeInv
<1>6. k.heard \cap Peer \subseteq R
  BY <1>3, IdentityAssumption, At
<1>7. OneThread => store \cap Server \subseteq announced /\ R \cap Server = {}
  <2>1. OneThread => confirmed \cap Server \subseteq announced
    BY <1>3 DEF SelfInv
  <2> QED
    BY <1>4, <2>1
<1> HIDE DEF store, R
<1>8. /\ l \in LocalRec /\ l.dev = k.dev /\ l.temp = k.temp /\ l.found = k.found
      /\ l.heard = k.heard /\ l.result = R
  BY <1>3, <1>5, Resulting
<1>9. to \in PCs /\ to \in {"returned", "teardown"} /\ (to = "teardown" => k.temp # None)
  BY DEF PCs, Reported
<1> HIDE DEF l, to
<1>10. Moves(t, to, l)
  BY <1>1, <1>2, <1>8, <1>9, GotoMoves
<1>11. TypeInv'
  BY <1>1, <1>2, <1>5, <1>10 DEF TypeInv, Moves
<1>12. HeardInv'
  <2>1. HeardOK(to, l, store) /\ DevOK(to, l)
    BY <1>6, <1>8, <1>9 DEF HeardOK, DevOK, Starting, Listening, Reported
  <2>2. ASSUME NEW u \in Thread PROVE HeardOK(pc'[u], local'[u], store) /\ DevOK(pc'[u], local'[u])
    <3>1. CASE u = t
      BY <1>10, <2>1, <3>1 DEF Moves
    <3>2. CASE u # t
      <4>1. pc'[u] = pc[u] /\ local'[u] = local[u] /\ HeardOK(pc[u], local[u], confirmed \ aged) /\ DevOK(pc[u], local[u])
        BY <1>2, <1>10, <3>2 DEF Moves, HeardInv
      <4> QED
        BY <1>5, <4>1 DEF HeardOK
    <3> QED
      BY <3>1, <3>2
  <2>3. confirmed' \ aged' = store
    BY <1>1
  <2>4. active' \in Thread => Sweeping(active)'
    BY <1>1, <1>2, <1>10, SlotKept DEF Sweeping
  <2> QED
    BY <2>2, <2>3, <2>4 DEF HeardInv
<1>13. RequestInv'
  BY <1>1, <1>2, RequestSame
<1>14. OneThread => SelfInv'
  <2> SUFFICES ASSUME OneThread PROVE SelfInv'
    OBVIOUS
  <2>1. SelfInv
    BY <1>3
  <2>2. \A u \in Thread : local'[u].found \cap Server \subseteq announced /\ local'[u].result \cap Server = {}
    BY <1>4, <1>7, <1>8, <1>10, <2>1 DEF Moves, SelfInv
  <2> QED
    BY <1>1, <1>7, <2>1, <2>2 DEF SelfInv
<1>15. OneThread => SoloOK(to, l, server, air, announced, fate)
  BY <1>3, <1>8, <1>9 DEF SoloOK, Starting, Listening
<1>16. SoloInv'
  BY <1>1, <1>2, <1>9, <1>10, <1>14, <1>15, SoloMoves
<1> QED
  BY <1>11, <1>12, <1>13, <1>16 DEF IInv
-----------------------------------------------------------------------------
(* Requests are dropped *)

LEMMA DroppedFacts ==
  ASSUME TypeInv, NEW r \in Request
  PROVE  /\ Dropped(fate, pending) \in [Request -> Fate]
         /\ Dropped(fate, pending)[r].at = fate[r].at
         /\ r \in pending => Dropped(fate, pending)[r].state = "dropped"
         /\ r \notin pending => Dropped(fate, pending)[r] = fate[r]
<1>1. fate \in [Request -> Fate]
  BY DEF TypeInv
<1>2. "dropped" \in States
  BY DEF States
<1> QED
  BY <1>1, <1>2 DEF Dropped, Fate

LEMMA DropRequests ==
  ASSUME TypeInv, RequestInv, pending' = {}, fate' = Dropped(fate, pending), UNCHANGED <<events, chan, pump>>
  PROVE  RequestInv'
<1>1. \A r : (InChan(r)' <=> InChan(r)) /\ (Pumped(r)' <=> Pumped(r))
  BY DEF InChan, Pumped
<1>2. Queued' = Queued
  BY DEF Queued
<1>3. ASSUME NEW r \in Request
      PROVE  /\ fate'[r].state \in {"never", "unsent"} =>
                   r \notin pending' \cup Queued' /\ ~ Pumped(r)' /\ ~ InChan(r)'
             /\ fate'[r].state \notin {"never", "unsent"} => fate'[r].at \in Server
             /\ InChan(r)' => r \notin pending' \cup Queued' /\ ~ Pumped(r)' /\ fate'[r].state = "sent"
             /\ fate'[r].state = "sent" /\ (r \in Queued' \/ Pumped(r)') => r \in pending'
             /\ fate'[r].state = "polled" => r \in pending'
  <2>1. CASE r \in pending
    <3>1. fate'[r].state = "dropped" /\ fate'[r].at = fate[r].at
      BY <2>1, DroppedFacts
    <3> QED
      BY <1>1, <1>2, <2>1, <3>1 DEF RequestInv
  <2>2. CASE r \notin pending
    <3>1. fate'[r] = fate[r]
      BY <2>2, DroppedFacts
    <3> QED
      BY <1>1, <1>2, <2>2, <3>1 DEF RequestInv
  <2> QED
    BY <2>1, <2>2
<1>4. \A s, u \in Server : \A i \in 1 .. Len(chan'[s]), j \in 1 .. Len(chan'[u]) :
          chan'[s][i] = chan'[u][j] /\ chan'[s][i] \in Request => s = u /\ i = j
  BY DEF RequestInv
<1> QED
  BY <1>3, <1>4 DEF RequestInv

\* A thread moves and drops the requests; if it is the only one there is no
\* receiver then.
LEMMA DropStep ==
  ASSUME IInv, NEW t \in Thread, pc[t] # "off", ~ Sweeping(t), NEW to \in PCs \ Starting, to # "off",
         NEW l \in LocalRec, Moves(t, to, l), pending' = {}, fate' = Dropped(fate, pending),
         UNCHANGED <<active, announced, devices, events, up, chan, pump, noise>>,
         server' \in Server \cup {None}, discovery' \in BOOLEAN, discovery' => server' \in Server,
         air' \subseteq Server, HeardOK(to, l, confirmed \ aged), DevOK(to, l),
         OneThread => /\ l.found \cap Server \subseteq announced /\ l.result \cap Server = {}
                      /\ server' = None /\ SoloOK(to, l, server', air', announced, fate)
  PROVE  IInv'
<1>1. TypeInv /\ HeardInv /\ RequestInv /\ SoloInv
  BY DEF IInv
<1>2. UNCHANGED <<confirmed, aged>>
  BY DEF devices
<1>3. fate' \in [Request -> Fate]
  <2>1. CASE Request = {}
    BY <1>1, <2>1 DEF TypeInv, Dropped
  <2>2. CASE Request # {}
    BY <1>1, <2>2, DroppedFacts
  <2> QED
    BY <2>1, <2>2
<1>4. TypeInv'
  BY <1>1, <1>2, <1>3 DEF TypeInv, Moves
<1>5. HeardInv'
  BY <1>1, <1>2, SlotKept, HeardMoves
<1>6. RequestInv'
  BY <1>1, DropRequests
<1>7. OneThread => SelfInv'
  <2> SUFFICES ASSUME OneThread PROVE SelfInv'
    OBVIOUS
  <2>1. SelfInv
    BY <1>1 DEF SoloInv
  <2>2. \A u \in Thread : local'[u].found \cap Server \subseteq announced /\ local'[u].result \cap Server = {}
    BY <2>1 DEF Moves, SelfInv
  <2>3. \A r \in Request : fate'[r].state \in Gone => fate'[r].at # server'
    BY <1>6, NoneAssumption DEF RequestInv, Gone
  <2> QED
    BY <1>2, <2>1, <2>2, <2>3 DEF SelfInv
<1>8. OneThread => SoloOK(to, l, server', air', announced', fate')
  BY DEF SoloOK
<1>9. SoloInv'
  BY <1>1, <1>7, <1>8, SoloMoves
<1> QED
  BY <1>4, <1>5, <1>6, <1>9 DEF IInv

LEMMA StopTakeStep ==
  ASSUME IInv, NEW t \in Thread, StopTake(t)
  PROVE  IInv'
<1>1. /\ pc[t] = "idle" /\ pending' = {} /\ fate' = Dropped(fate, pending)
      /\ server' = None /\ discovery' = FALSE /\ air' = air \ {server}
      /\ UNCHANGED <<active, announced, devices, events, up, chan, pump, noise>>
  BY DEF StopTake
<1>2. TypeInv
  BY DEF IInv
<1>3. /\ ~ Sweeping(t) /\ "idle" \in PCs \ Starting /\ "stop" \in PCs \ Starting
      /\ discovery' \in BOOLEAN /\ air' \subseteq Server
  BY <1>1, At DEF Sweeping, PCs, Starting
<1>4. OneThread => air' = {}
  BY <1>1, At DEF SoloOK
<1>5. CASE server = None
  <2> DEFINE l == local[t]
  <2>1. Moves(t, "idle", l)
    BY <1>1, <1>2, <1>5 DEF StopTake, Moves, threads, TypeInv
  <2>2. l \in LocalRec /\ HeardOK("idle", l, confirmed \ aged) /\ DevOK("idle", l)
    BY <1>1, At
  <2>3. OneThread => l.found \cap Server \subseteq announced /\ l.result \cap Server = {}
    BY At DEF SelfInv
  <2> HIDE DEF l
  <2>4. OneThread => SoloOK("idle", l, server', air', announced, fate)
    BY <1>4 DEF SoloOK, Starting, Listening
  <2> QED
    BY <1>1, <1>3, <2>1, <2>2, <2>3, <2>4, DropStep
<1>6. CASE server # None
  <2> DEFINE l == [Idle EXCEPT !.dev = server]
  <2>1. l \in LocalRec /\ l.found = {} /\ l.heard = {} /\ l.result = {}
    BY At, IdleWithDev
  <2>2. Goto(t, "stop", l)
    BY <1>6 DEF StopTake
  <2> HIDE DEF l
  <2>3. Moves(t, "stop", l)
    BY <1>2, <1>3, <2>1, <2>2, GotoMoves
  <2>4. HeardOK("stop", l, confirmed \ aged) /\ DevOK("stop", l)
    BY <2>1 DEF HeardOK, DevOK, Starting, Listening, Reported
  <2>5. OneThread => SoloOK("stop", l, server', air', announced, fate)
    BY <1>4 DEF SoloOK, Starting, Listening
  <2> QED
    BY <1>1, <1>3, <2>1, <2>3, <2>4, <2>5, DropStep
<1> QED
  BY <1>5, <1>6

LEMMA SweepClearStep ==
  ASSUME IInv, NEW t \in Thread, SweepClear(t)
  PROVE  IInv'
<1> DEFINE l == local[t]
<1>1. /\ pc[t] = "clear" /\ pending' = {} /\ fate' = Dropped(fate, pending) /\ Goto(t, "returned", l)
      /\ UNCHANGED <<server, discovery, active, announced, devices, events, up, air, chan, pump, noise>>
  BY DEF SweepClear, shared, network
<1>2. /\ l \in LocalRec /\ HeardOK("clear", l, confirmed \ aged)
      /\ OneThread => SelfInv /\ SoloOK("clear", l, server, air, announced, fate)
  BY <1>1, At
<1>3. ~ Sweeping(t) /\ "returned" \in PCs \ Starting
  BY <1>1 DEF Sweeping, PCs, Starting, Reported
<1>4. OneThread => l.found \cap Server \subseteq announced /\ l.result \cap Server = {}
  BY <1>2 DEF SelfInv
<1> HIDE DEF l
<1>5. Moves(t, "returned", l)
  BY <1>1, <1>2, <1>3, GotoMoves DEF IInv
<1>6. HeardOK("returned", l, confirmed \ aged) /\ DevOK("returned", l)
  BY <1>2 DEF HeardOK, DevOK, Starting, Listening, Reported
<1>7. OneThread => server = None /\ SoloOK("returned", l, server, air, announced, fate)
  BY <1>2 DEF SoloOK, Starting, Listening
<1> QED
  BY <1>1, <1>2, <1>3, <1>4, <1>5, <1>6, <1>7, At, DropStep
-----------------------------------------------------------------------------
(* Pumps, the queue and the network *)

\* A request that is gone was gone before, at the same server.
Lingers(now, before) == before.state \in Gone /\ now.at = before.at

\* No thread moves, nothing is dropped, and what arrives is a peer or announced.
LEMMA SoloStays ==
  ASSUME SoloInv, UNCHANGED <<pc, server, air, announced>>,
         \A u \in Thread : local'[u].dev = local[u].dev /\ local'[u].temp = local[u].temp,
         \A r \in Request : fate'[r].state \in Gone => Lingers(fate'[r], fate[r]),
         OneThread =>
            /\ confirmed' \cap Server \subseteq announced
            /\ \A s \in Server : \A i \in 1 .. Len(chan'[s]) : chan'[s][i] \in Server => chan'[s][i] \in announced
            /\ \A u \in Thread : local'[u].found \cap Server \subseteq announced /\ local'[u].result \cap Server = {}
  PROVE  SoloInv'
<1>1. OneThread' <=> OneThread
  BY SameThreads
<1> SUFFICES ASSUME OneThread
             PROVE  /\ SelfInv'
                    /\ \A u \in Thread : pc[u] # "off" => SoloOK(pc[u], local'[u], server, air, announced, fate')
  BY <1>1 DEF SoloInv
<1>2. SelfInv /\ \A u \in Thread : pc[u] # "off" => SoloOK(pc[u], local[u], server, air, announced, fate)
  BY DEF SoloInv
<1>3. \A r \in Request : fate'[r].state \in Gone => fate'[r].at # server
  BY <1>2 DEF SelfInv, Lingers
<1>4. SelfInv'
  BY <1>3 DEF SelfInv
<1>5. ASSUME NEW u \in Thread, pc[u] # "off" PROVE SoloOK(pc[u], local'[u], server, air, announced, fate')
  BY <1>2, <1>5 DEF SoloOK, Lingers
<1> QED
  BY <1>4, <1>5

\* Threads, devices and channels are left alone.
LEMMA QueueStep ==
  ASSUME IInv, UNCHANGED <<server, discovery, active, announced, confirmed, aged, pc, local, up, air, chan, noise>>,
         pending' \subseteq Request, events' \in Seq(Event), Len(events') <= MaxQueued,
         pump' \in [Server -> Event \cup {None}], fate' \in [Request -> Fate],
         \A r \in Request : fate'[r].state \in Gone => Lingers(fate'[r], fate[r]), RequestInv'
  PROVE  IInv'
<1>1. TypeInv /\ HeardInv /\ RequestInv /\ SoloInv
  BY DEF IInv
<1>2. TypeInv'
  BY <1>1 DEF TypeInv
<1>3. HeardInv'
  BY <1>1 DEF HeardInv, Sweeping
<1>4. OneThread =>
            /\ confirmed' \cap Server \subseteq announced
            /\ \A s \in Server : \A i \in 1 .. Len(chan'[s]) : chan'[s][i] \in Server => chan'[s][i] \in announced
            /\ \A u \in Thread : local'[u].found \cap Server \subseteq announced /\ local'[u].result \cap Server = {}
  BY <1>1 DEF SoloInv, SelfInv
<1>5. SoloInv'
  BY <1>1, <1>4, SoloStays
<1> QED
  BY <1>2, <1>3, <1>5 DEF IInv

\* What RequestInv says of one request.
Tracked(r, P, Q, pumped, sent, f) ==
    /\ f.state \in {"never", "unsent"} => r \notin P \cup Q /\ ~ pumped /\ ~ sent
    /\ f.state \notin {"never", "unsent"} => f.at \in Server
    /\ sent => r \notin P \cup Q /\ ~ pumped /\ f.state = "sent"
    /\ f.state = "sent" /\ (r \in Q \/ pumped) => r \in P
    /\ f.state = "polled" => r \in P
    /\ r \in P => /\ f.state \in {"sent", "polled", "evicted"}
                  /\ r \in Q \/ pumped \/ f.state \in {"polled", "evicted"}
Distinct ==
    \A s, u \in Server : \A i \in 1 .. Len(chan[s]), j \in 1 .. Len(chan[u]) :
        chan[s][i] = chan[u][j] /\ chan[s][i] \in Request => s = u /\ i = j

LEMMA RequestsTracked ==
  /\ RequestInv <=> Distinct /\ \A r \in Request :
        Tracked(r, pending, Queued, Pumped(r), InChan(r), fate[r])
  /\ RequestInv' <=> Distinct' /\ \A r \in Request :
        Tracked(r, pending', Queued', Pumped(r)', InChan(r)', fate'[r])
  BY DEF RequestInv, Distinct, Tracked

LEMMA Apart ==
  ASSUME Distinct, NEW u \in Server, NEW v \in Server, NEW i \in 1 .. Len(chan[u]), NEW j \in 1 .. Len(chan[v]),
         chan[u][i] = chan[v][j], chan[u][i] \in Request
  PROVE  u = v /\ i = j
  BY DEF Distinct

LEMMA SameChannels ==
  ASSUME UNCHANGED chan
  PROVE  (Distinct' <=> Distinct) /\ \A r : InChan(r)' <=> InChan(r)
  BY DEF Distinct, InChan

LEMMA PollStep ==
  ASSUME IInv, poll_events
  PROVE  IInv'
<1>1. /\ events' = <<>>
      /\ UNCHANGED <<server, discovery, active, announced, confirmed, aged, pc, local, up, air, chan, noise, pending, pump>>
      /\ fate' = [r \in Request |->
            IF r \in Queued THEN [fate[r] EXCEPT !.state = Told(fate[r].state)] ELSE fate[r]]
  BY DEF poll_events, shared, devices, network, threads
<1>2. TypeInv /\ RequestInv
  BY DEF IInv
<1>3. fate \in [Request -> Fate]
  BY <1>2 DEF TypeInv
<1>4. ASSUME NEW r \in Request
      PROVE  /\ fate'[r] \in Fate /\ fate'[r].at = fate[r].at
             /\ \/ fate'[r].state = Told(fate[r].state) /\ r \in Queued
                \/ fate'[r].state = fate[r].state /\ r \notin Queued
  <2>1. fate[r] \in Fate /\ fate[r].state \in States
    BY <1>3 DEF Fate
  <2>2. CASE r \in Queued
    <3>1. Told(fate[r].state) \in States
      BY <2>1 DEF Told, States
    <3>2. fate'[r] = [fate[r] EXCEPT !.state = Told(fate[r].state)]
      BY <1>1, <2>2
    <3>3. fate'[r] \in Fate /\ fate'[r].at = fate[r].at /\ fate'[r].state = Told(fate[r].state)
      BY <2>1, <3>1, <3>2 DEF Fate
    <3> QED
      BY <2>2, <3>3
  <2>3. CASE r \notin Queued
    BY <1>1, <2>1, <2>3
  <2> QED
    BY <2>2, <2>3
<1>5. fate' \in [Request -> Fate]
  BY <1>1, <1>4
<1>6. Queued' = {}
  BY <1>1 DEF Queued
<1>7. ASSUME NEW r \in Request PROVE Tracked(r, pending', Queued', Pumped(r)', InChan(r)', fate'[r])
  <2>1. Tracked(r, pending, Queued, Pumped(r), InChan(r), fate[r])
    BY <1>2, RequestsTracked
  <2>2. (InChan(r)' <=> InChan(r)) /\ (Pumped(r)' <=> Pumped(r))
    BY <1>1, SameChannels DEF Pumped
  <2>3. CASE r \in Queued
    <3>1. fate'[r].state = Told(fate[r].state) /\ fate'[r].at = fate[r].at
      BY <1>4, <2>3
    <3> QED
      BY <1>1, <1>6, <2>1, <2>2, <2>3, <3>1 DEF Tracked, Told
  <2>4. CASE r \notin Queued
    <3>1. fate'[r].state = fate[r].state /\ fate'[r].at = fate[r].at
      BY <1>4, <2>4
    <3> QED
      BY <1>1, <1>6, <2>1, <2>2, <2>4, <3>1 DEF Tracked
  <2> QED
    BY <2>3, <2>4
<1>8. RequestInv'
  BY <1>1, <1>2, <1>7, SameChannels, RequestsTracked
<1>9. events' \in Seq(Event) /\ Len(events') <= MaxQueued
  BY <1>1, QueueAssumption
<1>10. \A r \in Request : fate'[r].state \in Gone => Lingers(fate'[r], fate[r])
  BY <1>4 DEF Gone, Lingers, Told
<1>11. pending' \subseteq Request /\ pump' \in [Server -> Event \cup {None}]
  BY <1>1, <1>2 DEF TypeInv
<1> QED
  BY <1>1, <1>5, <1>8, <1>9, <1>10, <1>11, QueueStep

\* One request fares on.
LEMMA OneFate ==
  ASSUME TypeInv, NEW r \in Request, NEW st \in States, fate' = [fate EXCEPT ![r].state = st]
  PROVE  /\ fate' \in [Request -> Fate] /\ fate'[r].state = st /\ fate'[r].at = fate[r].at
         /\ \A q \in Request : q # r => fate'[q] = fate[q]
<1>1. fate \in [Request -> Fate]
  BY DEF TypeInv
<1> QED
  BY <1>1 DEF Fate

LEMMA RespondStep ==
  ASSUME IInv, NEW r \in Request, respond_to_transfer(r)
  PROVE  IInv'
<1>1. /\ fate[r].state = "polled" /\ pending' = pending \ {r}
      /\ fate' = [fate EXCEPT ![r].state = "answered"]
      /\ UNCHANGED <<server, discovery, active, announced, confirmed, aged, pc, local, up, air, chan, noise, events, pump>>
  BY DEF respond_to_transfer, shared, devices, network, threads
<1>2. TypeInv /\ RequestInv
  BY DEF IInv
<1>3. "answered" \in States
  BY DEF States
<1>4. /\ fate' \in [Request -> Fate] /\ fate'[r].state = "answered" /\ fate'[r].at = fate[r].at
      /\ \A q \in Request : q # r => fate'[q] = fate[q]
  BY <1>1, <1>2, <1>3, OneFate
<1>5. Queued' = Queued
  BY <1>1 DEF Queued
<1>6. ASSUME NEW q \in Request PROVE Tracked(q, pending', Queued', Pumped(q)', InChan(q)', fate'[q])
  <2>1. Tracked(q, pending, Queued, Pumped(q), InChan(q), fate[q])
    BY <1>2, RequestsTracked
  <2>2. (InChan(q)' <=> InChan(q)) /\ (Pumped(q)' <=> Pumped(q))
    BY <1>1, SameChannels DEF Pumped
  <2>3. CASE q = r
    BY <1>1, <1>4, <1>5, <2>1, <2>2, <2>3 DEF Tracked
  <2>4. CASE q # r
    BY <1>1, <1>4, <1>5, <2>1, <2>2, <2>4 DEF Tracked
  <2> QED
    BY <2>3, <2>4
<1>7. RequestInv'
  BY <1>1, <1>2, <1>6, SameChannels, RequestsTracked
<1>8. \A q \in Request : fate'[q].state \in Gone => Lingers(fate'[q], fate[q])
  BY <1>4 DEF Gone, Lingers
<1>9. /\ pending' \subseteq Request /\ pump' \in [Server -> Event \cup {None}]
      /\ events' \in Seq(Event) /\ Len(events') <= MaxQueued
  BY <1>1, <1>2 DEF TypeInv
<1> QED
  BY <1>1, <1>4, <1>7, <1>8, <1>9, QueueStep

\* The queue after push_event: the new event is in it, and only the oldest can
\* have gone.
LEMMA PushedQueue ==
  ASSUME TypeInv, NEW p \in Event,
         events' = Append(IF Len(events) >= MaxQueued THEN Tail(events) ELSE events, p)
  PROVE  /\ events' \in Seq(Event) /\ Len(events') <= MaxQueued
         /\ p \in Queued' /\ Queued' \subseteq Queued \cup {p}
         /\ \A e \in Queued : e \in Queued' \/ (Len(events) >= MaxQueued /\ e = Head(events))
         /\ Len(events) >= MaxQueued => Head(events) \in Queued
<1>1. events \in Seq(Event) /\ Len(events) <= MaxQueued /\ MaxQueued \in Nat \ {0} /\ Len(events) \in Nat
  BY QueueAssumption DEF TypeInv
<1>2. DOMAIN events = 1 .. Len(events)
  BY <1>1
<1>3. CASE Len(events) >= MaxQueued
  <2> DEFINE q == Tail(events)
  <2>1. /\ Len(events) = MaxQueued /\ events # <<>> /\ Head(events) = events[1] /\ 1 \in 1 .. Len(events)
    BY <1>1, <1>3
  <2>2. q \in Seq(Event) /\ Len(q) = Len(events) - 1 /\ \A i \in 1 .. Len(q) : q[i] = events[i + 1]
    BY <1>1, <2>1
  <2>3. events' = Append(q, p)
    BY <1>3
  <2> HIDE DEF q
  <2>4. /\ events' \in Seq(Event) /\ Len(events') = Len(events) /\ DOMAIN events' = 1 .. Len(events)
        /\ events'[Len(events)] = p /\ \A i \in 1 .. Len(events) - 1 : events'[i] = events[i + 1]
    BY <1>1, <2>1, <2>2, <2>3
  <2>5. p \in Queued' /\ Head(events) \in Queued
    BY <1>1, <1>2, <2>1, <2>4 DEF Queued
  <2>6. ASSUME NEW i \in 1 .. Len(events) PROVE events'[i] \in Queued \cup {p}
    <3>1. i = Len(events) \/ (i \in 1 .. Len(events) - 1 /\ i + 1 \in 1 .. Len(events))
      BY <1>1
    <3> QED
      BY <1>2, <2>4, <3>1 DEF Queued
  <2>7. ASSUME NEW i \in 1 .. Len(events) PROVE events[i] \in Queued' \/ i = 1
    <3>1. i = 1 \/ (i - 1 \in 1 .. Len(events) - 1 /\ i - 1 \in 1 .. Len(events) /\ (i - 1) + 1 = i)
      BY <1>1
    <3> QED
      BY <2>4, <3>1 DEF Queued
  <2>8. Queued' \subseteq Queued \cup {p}
    BY <2>4, <2>6 DEF Queued
  <2>9. \A e \in Queued : e \in Queued' \/ e = Head(events)
    BY <1>2, <2>1, <2>7 DEF Queued
  <2> QED
    BY <1>1, <1>3, <2>4, <2>5, <2>8, <2>9
<1>4. CASE ~ (Len(events) >= MaxQueued)
  <2>1. events' = Append(events, p)
    BY <1>4
  <2>2. /\ events' \in Seq(Event) /\ Len(events') = Len(events) + 1 /\ DOMAIN events' = 1 .. Len(events) + 1
        /\ events'[Len(events) + 1] = p /\ \A i \in 1 .. Len(events) : events'[i] = events[i]
    BY <1>1, <2>1
  <2>3. p \in Queued' /\ Queued' \subseteq Queued \cup {p} /\ Queued \subseteq Queued'
    <3>1. Len(events) + 1 \in 1 .. Len(events) + 1 /\ 1 .. Len(events) \subseteq 1 .. Len(events) + 1
      BY <1>1
    <3>2. \A i \in 1 .. Len(events) + 1 : i = Len(events) + 1 \/ i \in 1 .. Len(events)
      BY <1>1
    <3>3. p \in Queued' /\ Queued \subseteq Queued'
      BY <1>2, <2>2, <3>1 DEF Queued
    <3>4. Queued' \subseteq Queued \cup {p}
      BY <1>2, <2>2, <3>2 DEF Queued
    <3> QED
      BY <3>3, <3>4
  <2> QED
    BY <1>1, <1>4, <2>2, <2>3
<1> QED
  BY <1>3, <1>4

LEMMA PushStep ==
  ASSUME IInv, NEW s \in Server, Push(s)
  PROVE  IInv'
<1> DEFINE p == pump[s]
           full == Len(events) >= MaxQueued
<1>1. /\ p # None /\ events' = Append(IF full THEN Tail(events) ELSE events, p)
      /\ fate' = IF full /\ Head(events) \in Request
                 THEN [fate EXCEPT ![Head(events)].state = "evicted"] ELSE fate
      /\ pump' = [pump EXCEPT ![s] = None]
      /\ UNCHANGED <<server, discovery, active, announced, confirmed, aged, pending, pc, local, up, air, chan, noise>>
  BY DEF Push, shared, devices, threads
<1>2. TypeInv /\ RequestInv
  BY DEF IInv
<1>3. p \in Event /\ pump \in [Server -> Event \cup {None}] /\ "evicted" \in States
  BY <1>1, <1>2 DEF TypeInv, States
<1>4. /\ events' \in Seq(Event) /\ Len(events') <= MaxQueued
      /\ p \in Queued' /\ Queued' \subseteq Queued \cup {p}
      /\ \A e \in Queued : e \in Queued' \/ (full /\ e = Head(events))
      /\ full => Head(events) \in Queued
  BY <1>1, <1>2, <1>3, PushedQueue
<1> HIDE DEF full
<1>5. /\ fate' \in [Request -> Fate]
      /\ \A r \in Request : \/ fate'[r] = fate[r] /\ ~ (full /\ r = Head(events))
                            \/ /\ fate'[r].state = "evicted" /\ fate'[r].at = fate[r].at
                               /\ full /\ r = Head(events)
  <2>1. CASE full /\ Head(events) \in Request
    BY <1>1, <1>2, <1>3, <2>1, OneFate
  <2>2. CASE ~ (full /\ Head(events) \in Request)
    BY <1>1, <1>2, <2>2 DEF TypeInv
  <2> QED
    BY <2>1, <2>2
<1>6. /\ pump' \in [Server -> Event \cup {None}] /\ pump'[s] = None
      /\ \A u \in Server : u # s => pump'[u] = pump[u]
  BY <1>1, <1>3
<1>7. ASSUME NEW r \in Request
      PROVE  (Pumped(r)' => Pumped(r)) /\ (Pumped(r) => r = p \/ Pumped(r)') /\ (r = p => Pumped(r))
  BY <1>6, NoneAssumption DEF Pumped
<1> HIDE DEF p
<1>8. ASSUME NEW r \in Request PROVE Tracked(r, pending', Queued', Pumped(r)', InChan(r)', fate'[r])
  <2>1. Tracked(r, pending, Queued, Pumped(r), InChan(r), fate[r])
    BY <1>2, RequestsTracked
  <2>2. (InChan(r)' <=> InChan(r)) /\ pending' = pending
    BY <1>1, SameChannels
  <2>3. CASE full /\ r = Head(events)
    <3>1. r \in Queued /\ fate'[r].state = "evicted" /\ fate'[r].at = fate[r].at
      BY <1>4, <1>5, <2>3
    <3> QED
      BY <2>1, <2>2, <3>1 DEF Tracked
  <2>4. CASE ~ (full /\ r = Head(events))
    <3>1. fate'[r] = fate[r]
      BY <1>5, <2>4
    <3>2. /\ r \in Queued \/ Pumped(r) => r \in Queued' \/ Pumped(r)'
          /\ r \in Queued' \/ Pumped(r)' => r \in Queued \/ Pumped(r)
      BY <1>4, <1>7, <2>4
    <3> QED
      BY <2>1, <2>2, <3>1, <3>2 DEF Tracked
  <2> QED
    BY <2>3, <2>4
<1>9. RequestInv'
  BY <1>1, <1>2, <1>8, SameChannels, RequestsTracked
<1>10. \A r \in Request : fate'[r].state \in Gone => Lingers(fate'[r], fate[r])
  BY <1>5 DEF Gone, Lingers
<1>11. pending' \subseteq Request
  BY <1>1, <1>2 DEF TypeInv
<1> QED
  BY <1>1, <1>4, <1>5, <1>6, <1>9, <1>10, <1>11, QueueStep

\* A request enters a channel that did not hold it.
LEMMA AskStep ==
  ASSUME IInv, NEW r \in Request, NEW s \in Server, Ask(r, s)
  PROVE  IInv'
<1>1. /\ fate[r].state = "unsent" /\ fate' = [fate EXCEPT ![r] = [at |-> s, state |-> "sent"]]
      /\ chan' = [chan EXCEPT ![s] = Append(@, r)]
      /\ UNCHANGED <<server, discovery, active, announced, confirmed, aged, pc, local, up, air, noise, pending, events, pump>>
  BY DEF Ask, shared, devices, threads
<1>2. TypeInv /\ HeardInv /\ RequestInv /\ SoloInv
  BY DEF IInv
<1> DEFINE n == Len(chan[s]) + 1
<1>3. chan \in [Server -> Seq(Event)] /\ chan[s] \in Seq(Event) /\ r \in Event /\ Len(chan[s]) \in Nat
  BY <1>2 DEF TypeInv, Event
<1>4. /\ chan' \in [Server -> Seq(Event)] /\ \A u \in Server : u # s => chan'[u] = chan[u]
      /\ chan'[s] = Append(chan[s], r)
  BY <1>1, <1>3
<1>5. Len(chan'[s]) = n /\ chan'[s][n] = r /\ \A i \in 1 .. Len(chan[s]) : chan'[s][i] = chan[s][i]
  BY <1>3, <1>4
<1>6. \A i \in 1 .. n : i = n \/ i \in 1 .. Len(chan[s])
  BY <1>3
<1> HIDE DEF n
\* Every place of the new channels is an old one, or the new end of this one.
<1>7. ASSUME NEW u \in Server, NEW i \in 1 .. Len(chan'[u])
      PROVE  \/ u = s /\ i = n /\ chan'[u][i] = r
             \/ i \in 1 .. Len(chan[u]) /\ chan'[u][i] = chan[u][i]
  BY <1>4, <1>5, <1>6
<1>8. \A u \in Server : \A i \in 1 .. Len(chan[u]) : chan[u][i] # r
  BY <1>1, <1>2 DEF RequestInv, InChan
<1>9. Distinct'
  <2> SUFFICES ASSUME NEW u \in Server, NEW v \in Server, NEW i \in 1 .. Len(chan'[u]), NEW j \in 1 .. Len(chan'[v]),
                      chan'[u][i] = chan'[v][j], chan'[u][i] \in Request
               PROVE  u = v /\ i = j
    BY DEF Distinct
  <2>1. CASE chan'[u][i] = r
    BY <1>7, <1>8, <2>1, ZenonT(60)
  <2>2. CASE chan'[u][i] # r
    <3>1. i \in 1 .. Len(chan[u]) /\ chan'[u][i] = chan[u][i] /\ j \in 1 .. Len(chan[v]) /\ chan'[v][j] = chan[v][j]
      BY <1>7, <2>2
    <3>2. Distinct
      BY <1>2, RequestsTracked
    <3>3. chan[u][i] = chan[v][j] /\ chan[u][i] \in Request
      BY <3>1
    <3> QED
      BY <3>1, <3>2, <3>3, Apart, Zenon
  <2> QED
    BY <2>1, <2>2
<1>10. \A q \in Request : q # r => (InChan(q)' => InChan(q))
  BY <1>7 DEF InChan
<1>11. /\ fate' \in [Request -> Fate] /\ fate'[r].state = "sent" /\ fate'[r].at = s
       /\ \A q \in Request : q # r => fate'[q] = fate[q]
  BY <1>1, <1>2 DEF TypeInv, Fate, States
<1>12. ASSUME NEW q \in Request PROVE Tracked(q, pending', Queued', Pumped(q)', InChan(q)', fate'[q])
  <2>1. Tracked(q, pending, Queued, Pumped(q), InChan(q), fate[q])
    BY <1>2, RequestsTracked
  <2>2. pending' = pending /\ Queued' = Queued /\ (Pumped(q)' <=> Pumped(q))
    BY <1>1 DEF Pumped, Queued
  <2>3. CASE q = r
    BY <1>1, <1>11, <2>1, <2>2, <2>3 DEF Tracked
  <2>4. CASE q # r
    BY <1>10, <1>11, <2>1, <2>2, <2>4 DEF Tracked
  <2> QED
    BY <2>3, <2>4
<1>13. RequestInv'
  BY <1>9, <1>12, RequestsTracked
<1>14. TypeInv'
  BY <1>1, <1>2, <1>4, <1>11 DEF TypeInv
<1>15. HeardInv'
  BY <1>1, <1>2 DEF HeardInv, Sweeping
<1>16. SoloInv'
  <2>1. OneThread => SelfInv
    BY <1>2 DEF SoloInv
  <2>2. OneThread => \A u \in Server : \A i \in 1 .. Len(chan'[u]) : chan'[u][i] \in Server => chan'[u][i] \in announced
    BY <1>7, <2>1, IdentityAssumption DEF SelfInv
  <2>3. OneThread => /\ confirmed' \cap Server \subseteq announced
                     /\ \A u \in Thread : local'[u].found \cap Server \subseteq announced /\ local'[u].result \cap Server = {}
    BY <1>1, <2>1 DEF SelfInv
  <2>4. \A q \in Request : fate'[q].state \in Gone => Lingers(fate'[q], fate[q])
    BY <1>11 DEF Gone, Lingers
  <2> QED
    BY <1>1, <1>2, <2>2, <2>3, <2>4, SoloStays
<1> QED
  BY <1>13, <1>14, <1>15, <1>16 DEF IInv

\* A lone shell registers with itself only under an identity it announced.
LEMMA RegistrantFacts ==
  ASSUME IInv, NEW s \in Server, NEW d \in Registrants(s)
  PROVE  d \in Device /\ (OneThread /\ d \in Server => d \in announced)
<1>1. CASE d \in Peer
  BY <1>1, IdentityAssumption DEF Device
<1>2. ASSUME NEW u \in Thread, Sweeping(u), d = local[u].dev
      PROVE  d \in Device /\ (OneThread => d \in announced)
  <2>1. d \in Server
    BY <1>2, At DEF DevOK, Sweeping, Listening
  <2>2. OneThread => d \in announced
    BY <1>2, At DEF SoloOK, Sweeping, Listening
  <2> QED
    BY <2>1, <2>2 DEF Device
<1>3. ASSUME discovery, s \in air, d = server, d # s
      PROVE  d \in Device /\ ~ OneThread
  <2>1. server \in Server
    BY <1>3 DEF IInv, TypeInv
  <2>2. ASSUME OneThread PROVE FALSE
    <3>1. {u \in Thread : pc[u] # "off"} # {}
      BY <2>2, FS_EmptySet DEF OneThread
    <3>2. PICK u \in Thread : pc[u] # "off"
      BY <3>1
    <3>3. SoloOK(pc[u], local[u], server, air, announced, fate)
      BY <2>2, <3>2, At
    <3>4. s = local[u].dev /\ pc[u] \in {"start_store", "publish", "sweep"}
      BY <1>3, <3>3 DEF SoloOK
    <3> QED
      BY <1>3, <2>1, <3>3, <3>4, NoneAssumption DEF SoloOK, Starting, Listening
  <2> QED
    BY <1>3, <2>1, <2>2 DEF Device
<1> QED
  BY <1>1, <1>2, <1>3 DEF Registrants

LEMMA RegisterStep ==
  ASSUME IInv, NEW s \in Server, Register(s)
  PROVE  IInv'
<1>1. PICK d \in Registrants(s) : chan' = [chan EXCEPT ![s] = <<d>>]
  BY DEF Register
<1>2. /\ chan[s] = <<>> /\ noise > 0 /\ noise' = noise - 1
      /\ UNCHANGED <<server, discovery, active, announced, confirmed, aged, pc, local, up, air, pending, events, fate, pump>>
  BY DEF Register, shared, devices, queue, threads, Noise
<1>3. TypeInv /\ HeardInv /\ RequestInv /\ SoloInv
  BY DEF IInv
<1>4. d \in Device /\ (OneThread /\ d \in Server => d \in announced)
  BY RegistrantFacts
<1>5. d \in Event /\ d \notin Request
  BY <1>4, IdentityAssumption DEF Event, Device
<1>6. /\ chan' \in [Server -> Seq(Event)] /\ chan'[s] = <<d>>
      /\ \A u \in Server : u # s => chan'[u] = chan[u]
  BY <1>1, <1>3, <1>5 DEF TypeInv
<1>7. ASSUME NEW u \in Server, NEW i \in 1 .. Len(chan'[u])
      PROVE  \/ chan'[u][i] = d
             \/ i \in 1 .. Len(chan[u]) /\ chan'[u][i] = chan[u][i]
  BY <1>6
<1>8. Distinct'
  <2> SUFFICES ASSUME NEW u \in Server, NEW v \in Server, NEW i \in 1 .. Len(chan'[u]), NEW j \in 1 .. Len(chan'[v]),
                      chan'[u][i] = chan'[v][j], chan'[u][i] \in Request
               PROVE  u = v /\ i = j
    BY DEF Distinct
  <2>1. i \in 1 .. Len(chan[u]) /\ chan'[u][i] = chan[u][i] /\ j \in 1 .. Len(chan[v]) /\ chan'[v][j] = chan[v][j]
    BY <1>5, <1>7
  <2>2. Distinct
    BY <1>3, RequestsTracked
  <2>3. chan[u][i] = chan[v][j] /\ chan[u][i] \in Request
    BY <2>1
  <2> QED
    BY <2>1, <2>2, <2>3, Apart, Zenon
<1>9. \A q \in Request : InChan(q)' => InChan(q)
  BY <1>5, <1>7 DEF InChan
<1>10. ASSUME NEW q \in Request PROVE Tracked(q, pending', Queued', Pumped(q)', InChan(q)', fate'[q])
  <2>1. Tracked(q, pending, Queued, Pumped(q), InChan(q), fate[q])
    BY <1>3, RequestsTracked
  <2>2. pending' = pending /\ Queued' = Queued /\ (Pumped(q)' <=> Pumped(q)) /\ fate' = fate
    BY <1>2 DEF Pumped, Queued
  <2> QED
    BY <1>9, <2>1, <2>2 DEF Tracked
<1>11. RequestInv'
  BY <1>8, <1>10, RequestsTracked
<1>12. TypeInv'
  BY <1>2, <1>3, <1>6 DEF TypeInv
<1>13. HeardInv'
  BY <1>2, <1>3 DEF HeardInv, Sweeping
<1>14. SoloInv'
  <2>1. OneThread => SelfInv
    BY <1>3 DEF SoloInv
  <2>2. OneThread => \A u \in Server : \A i \in 1 .. Len(chan'[u]) : chan'[u][i] \in Server => chan'[u][i] \in announced
    BY <1>4, <1>7, <2>1 DEF SelfInv
  <2>3. OneThread => /\ confirmed' \cap Server \subseteq announced
                     /\ \A u \in Thread : local'[u].found \cap Server \subseteq announced /\ local'[u].result \cap Server = {}
    BY <1>2, <2>1 DEF SelfInv
  <2>4. \A r \in Request : fate'[r].state \in Gone => Lingers(fate'[r], fate[r])
    BY <1>2 DEF Lingers
  <2> QED
    BY <1>2, <1>3, <2>2, <2>3, <2>4, SoloStays
<1> QED
  BY <1>11, <1>12, <1>13, <1>14 DEF IInv

\* A confirmation a sweep waits with does not age.
LEMMA AgeStep ==
  ASSUME IInv, NEW d \in Device, Age(d)
  PROVE  IInv'
<1>1. /\ d \in confirmed \ aged /\ aged' = aged \cup {d} /\ noise > 0 /\ noise' = noise - 1
      /\ \A t \in Thread : d \notin local[t].heard
      /\ UNCHANGED <<server, discovery, active, announced, confirmed, pending, events, fate, pc, local, up, air, chan, pump>>
  BY DEF Age, shared, queue, threads, Noise
<1>2. TypeInv /\ HeardInv /\ RequestInv /\ SoloInv
  BY DEF IInv
<1>3. TypeInv'
  BY <1>1, <1>2 DEF TypeInv
<1>4. \A t \in Thread : HeardOK(pc[t], local[t], confirmed \ aged') /\ DevOK(pc[t], local[t])
  BY <1>1, <1>2 DEF HeardInv, HeardOK
<1>5. HeardInv'
  BY <1>1, <1>2, <1>4 DEF HeardInv, Sweeping
<1>6. RequestInv'
  BY <1>1, <1>2, RequestSame
<1>7. OneThread =>
            /\ confirmed' \cap Server \subseteq announced
            /\ \A s \in Server : \A i \in 1 .. Len(chan'[s]) : chan'[s][i] \in Server => chan'[s][i] \in announced
            /\ \A u \in Thread : local'[u].found \cap Server \subseteq announced /\ local'[u].result \cap Server = {}
  BY <1>1, <1>2 DEF SoloInv, SelfInv
<1>8. SoloInv'
  <2>1. \A r \in Request : fate'[r].state \in Gone => Lingers(fate'[r], fate[r])
    BY <1>1 DEF Lingers
  <2> QED
    BY <1>1, <1>2, <1>7, <2>1, SoloStays
<1> QED
  BY <1>3, <1>5, <1>6, <1>8 DEF IInv

\* A channel after its oldest event was taken.
LEMMA Taken ==
  ASSUME TypeInv, Distinct, NEW s \in Server, chan[s] # <<>>, chan' = [chan EXCEPT ![s] = Tail(@)]
  PROVE  /\ Head(chan[s]) = chan[s][1] /\ 1 \in 1 .. Len(chan[s]) /\ Head(chan[s]) \in Event
         /\ chan' \in [Server -> Seq(Event)]
         /\ \A u \in Server : \A i \in 1 .. Len(chan'[u]) : \E j \in 1 .. Len(chan[u]) : chan'[u][i] = chan[u][j]
         /\ Distinct'
         /\ \A r : InChan(r)' => InChan(r)
         /\ \A r \in Request : r = Head(chan[s]) => ~ InChan(r)'
<1>1. chan \in [Server -> Seq(Event)] /\ chan[s] \in Seq(Event) /\ Len(chan[s]) \in Nat
  BY DEF TypeInv
<1>2. /\ Head(chan[s]) = chan[s][1] /\ 1 \in 1 .. Len(chan[s]) /\ Head(chan[s]) \in Event
      /\ Tail(chan[s]) \in Seq(Event) /\ Len(Tail(chan[s])) = Len(chan[s]) - 1
      /\ \A i \in 1 .. Len(chan[s]) - 1 : Tail(chan[s])[i] = chan[s][i + 1]
  BY <1>1
<1>3. chan' \in [Server -> Seq(Event)] /\ chan'[s] = Tail(chan[s]) /\ \A u \in Server : u # s => chan'[u] = chan[u]
  BY <1>1, <1>2
<1> DEFINE old(u, i) == IF u = s THEN i + 1 ELSE i
<1>4. ASSUME NEW u \in Server, NEW i \in 1 .. Len(chan'[u])
      PROVE  /\ old(u, i) \in 1 .. Len(chan[u]) /\ chan'[u][i] = chan[u][old(u, i)]
             /\ u = s => old(u, i) # 1
  <2>1. CASE u = s
    <3>1. i \in 1 .. Len(chan[s]) - 1 /\ i + 1 \in 1 .. Len(chan[s]) /\ i + 1 # 1
      BY <1>1, <1>2, <1>3, <2>1
    <3> QED
      BY <1>2, <1>3, <2>1, <3>1
  <2>2. CASE u # s
    BY <1>3, <2>2
  <2> QED
    BY <2>1, <2>2
<1>5. ASSUME NEW u \in Server, NEW v \in Server, NEW i \in 1 .. Len(chan'[u]), NEW j \in 1 .. Len(chan'[v]),
             chan'[u][i] = chan'[v][j], chan'[u][i] \in Request
      PROVE  u = v /\ i = j
  <2>1. PICK a \in 1 .. Len(chan[u]) : a = old(u, i) /\ chan'[u][i] = chan[u][a]
    BY <1>4
  <2>2. PICK b \in 1 .. Len(chan[v]) : b = old(v, j) /\ chan'[v][j] = chan[v][b]
    BY <1>4
  <2>3. chan[u][a] = chan[v][b] /\ chan[u][a] \in Request
    BY <1>5, <2>1, <2>2
  <2>4. u = v /\ a = b
    BY <2>3, Apart, Zenon
  <2> QED
    BY <2>1, <2>2, <2>4
<1>6. Distinct'
  BY <1>5 DEF Distinct
<1>7. \A r : InChan(r)' => InChan(r)
  BY <1>4 DEF InChan
<1>8. ASSUME NEW r \in Request, r = Head(chan[s]) PROVE ~ InChan(r)'
  <2> SUFFICES ASSUME NEW u \in Server, NEW i \in 1 .. Len(chan'[u]), chan'[u][i] = r
               PROVE  FALSE
    BY DEF InChan
  <2>1. PICK a \in 1 .. Len(chan[u]) : chan[u][a] = r /\ (u = s => a # 1)
    BY <1>4
  <2>2. chan[u][a] = chan[s][1] /\ chan[u][a] \in Request /\ 1 \in 1 .. Len(chan[s])
    BY <1>2, <1>8, <2>1
  <2>3. u = s /\ a = 1
    BY <2>2, Apart, Zenon
  <2> QED
    BY <2>1, <2>3
<1>9. \A u \in Server : \A i \in 1 .. Len(chan'[u]) : \E j \in 1 .. Len(chan[u]) : chan'[u][i] = chan[u][j]
  BY <1>4
<1> QED
  BY <1>2, <1>3, <1>6, <1>7, <1>8, <1>9

\* What a registration adds to the sweeps.
LEMMA HeardFacts ==
  ASSUME TypeInv, NEW d \in Device, local' = Heard(d)
  PROVE  /\ local' \in [Thread -> LocalRec]
         /\ \A u \in Thread :
               /\ local'[u].dev = local[u].dev /\ local'[u].temp = local[u].temp
               /\ local'[u].result = local[u].result
               /\ local'[u].found \subseteq local[u].found \cup {d}
               /\ local'[u].heard = IF Sweeping(u) THEN local[u].heard \cup {d} ELSE local[u].heard
<1>1. \A u \in Thread : local[u] \in LocalRec
  BY DEF TypeInv
<1>2. ASSUME NEW u \in Thread
      PROVE  /\ local'[u] \in LocalRec
             /\ local'[u].dev = local[u].dev /\ local'[u].temp = local[u].temp
             /\ local'[u].result = local[u].result
             /\ local'[u].found \subseteq local[u].found \cup {d}
             /\ local'[u].heard = IF Sweeping(u) THEN local[u].heard \cup {d} ELSE local[u].heard
  <2> DEFINE f == IF u = active THEN local[u].found \cup {d} ELSE local[u].found
             h == IF Sweeping(u) THEN local[u].heard \cup {d} ELSE local[u].heard
  <2>1. local'[u] = [local[u] EXCEPT !.found = f, !.heard = h]
    BY DEF Heard
  <2>2. f \subseteq Device /\ h \subseteq Device /\ f \subseteq local[u].found \cup {d}
    BY <1>1 DEF LocalRec
  <2> HIDE DEF f, h
  <2>3. /\ local'[u] \in LocalRec
        /\ local'[u].dev = local[u].dev /\ local'[u].temp = local[u].temp
        /\ local'[u].result = local[u].result /\ local'[u].found = f /\ local'[u].heard = h
    BY <1>1, <2>1, <2>2 DEF LocalRec
  <2> QED
    BY <2>2, <2>3 DEF h
<1>3. DOMAIN local' = Thread /\ local' = [u \in Thread |-> local'[u]]
  BY DEF Heard
<1> QED
  BY <1>2, <1>3

LEMMA AbsorbStep ==
  ASSUME IInv, NEW s \in Server, Absorb(s)
  PROVE  IInv'
<1>0. PICK e : e = Head(chan[s])
  OBVIOUS
<1>1. /\ pump[s] = None /\ chan[s] # <<>>
      /\ pump' = [pump EXCEPT ![s] = e] /\ chan' = [chan EXCEPT ![s] = Tail(@)]
      /\ UNCHANGED <<server, discovery, active, announced, events, fate, pc, up, air, noise>>
  BY <1>0 DEF Absorb, shared
<1>2. \/ /\ e \in Device
         /\ confirmed' = confirmed \cup {e} /\ aged' = aged \ {e}
         /\ local' = Heard(e) /\ pending' = pending
      \/ /\ e \in Request
         /\ pending' = pending \cup {e}
         /\ UNCHANGED <<confirmed, aged, local>>
  BY <1>0 DEF Absorb, devices
<1>3. TypeInv /\ HeardInv /\ RequestInv /\ SoloInv /\ Distinct
  BY RequestsTracked DEF IInv
<1>4. /\ e = chan[s][1] /\ 1 \in 1 .. Len(chan[s]) /\ e \in Event
      /\ chan' \in [Server -> Seq(Event)]
      /\ \A u \in Server : \A i \in 1 .. Len(chan'[u]) : \E j \in 1 .. Len(chan[u]) : chan'[u][i] = chan[u][j]
      /\ Distinct'
      /\ \A r : InChan(r)' => InChan(r)
      /\ e \in Request => ~ InChan(e)'
  BY <1>0, <1>1, <1>3, Taken
<1>4b. InChan(e)
  BY <1>4 DEF InChan
<1>5. /\ pump' \in [Server -> Event \cup {None}] /\ pump'[s] = e
      /\ \A u \in Server : u # s => pump'[u] = pump[u]
  BY <1>1, <1>3, <1>4 DEF TypeInv
<1>6. ASSUME NEW r \in Request PROVE Pumped(r)' <=> Pumped(r) \/ r = e
  BY <1>1, <1>5, NoneAssumption DEF Pumped
<1>7. ASSUME NEW r \in Request PROVE Tracked(r, pending', Queued', Pumped(r)', InChan(r)', fate'[r])
  <2>1. Tracked(r, pending, Queued, Pumped(r), InChan(r), fate[r])
    BY <1>3, RequestsTracked
  <2>2. Queued' = Queued /\ fate'[r] = fate[r] /\ (InChan(r)' => InChan(r))
    BY <1>1, <1>4 DEF Queued
  <2>3. CASE r = e
    <3>1. InChan(r) /\ ~ InChan(r)' /\ r \in pending' /\ Pumped(r)'
      BY <1>2, <1>4, <1>4b, <1>6, <2>3, IdentityAssumption DEF Device
    <3> QED
      BY <2>1, <2>2, <3>1 DEF Tracked
  <2>4. CASE r # e
    <3>1. (Pumped(r)' <=> Pumped(r)) /\ (r \in pending' <=> r \in pending)
      BY <1>2, <1>6, <2>4
    <3> QED
      BY <2>1, <2>2, <3>1 DEF Tracked
  <2> QED
    BY <2>3, <2>4
<1>8. RequestInv'
  BY <1>4, <1>7, RequestsTracked
<1>9. OneThread => SelfInv /\ \A u \in Server : \A i \in 1 .. Len(chan'[u]) : chan'[u][i] \in Server => chan'[u][i] \in announced
  <2>1. OneThread => SelfInv
    BY <1>3 DEF SoloInv
  <2> QED
    BY <1>4, <2>1 DEF SelfInv
<1>10. OneThread /\ e \in Server => e \in announced
  BY <1>4, <1>9 DEF SelfInv
<1>11. \A r \in Request : fate'[r].state \in Gone => Lingers(fate'[r], fate[r])
  BY <1>1 DEF Gone, Lingers
<1>12. CASE /\ e \in Device
            /\ confirmed' = confirmed \cup {e} /\ aged' = aged \ {e}
            /\ local' = Heard(e) /\ pending' = pending
  <2>1. /\ local' \in [Thread -> LocalRec]
        /\ \A u \in Thread :
               /\ local'[u].dev = local[u].dev /\ local'[u].temp = local[u].temp
               /\ local'[u].result = local[u].result
               /\ local'[u].found \subseteq local[u].found \cup {e}
               /\ local'[u].heard = IF Sweeping(u) THEN local[u].heard \cup {e} ELSE local[u].heard
    BY <1>3, <1>12, HeardFacts
  <2>2. TypeInv'
    BY <1>1, <1>3, <1>4, <1>5, <1>12, <2>1 DEF TypeInv
  <2>3. ASSUME NEW u \in Thread PROVE HeardOK(pc[u], local'[u], confirmed' \ aged') /\ DevOK(pc[u], local'[u])
    <3>1. HeardOK(pc[u], local[u], confirmed \ aged) /\ DevOK(pc[u], local[u])
      BY <1>3 DEF HeardInv
    <3>2. confirmed \ aged \subseteq confirmed' \ aged' /\ e \in confirmed' \ aged'
      BY <1>12
    <3>3. CASE Sweeping(u)
      BY <2>1, <3>1, <3>2, <3>3 DEF HeardOK, DevOK, Sweeping, Reported
    <3>4. CASE ~ Sweeping(u)
      BY <2>1, <3>1, <3>2, <3>4 DEF HeardOK, DevOK
    <3> QED
      BY <3>3, <3>4
  <2>4. HeardInv'
    BY <1>1, <1>3, <2>3 DEF HeardInv, Sweeping
  <2>5. OneThread => /\ confirmed' \cap Server \subseteq announced
                     /\ \A u \in Thread : local'[u].found \cap Server \subseteq announced /\ local'[u].result \cap Server = {}
    BY <1>9, <1>10, <1>12, <2>1 DEF SelfInv
  <2>6. SoloInv'
    BY <1>1, <1>3, <1>9, <1>11, <2>1, <2>5, SoloStays
  <2> QED
    BY <1>8, <2>2, <2>4, <2>6 DEF IInv
<1>13. CASE /\ e \in Request
            /\ pending' = pending \cup {e}
            /\ UNCHANGED <<confirmed, aged, local>>
  <2>1. TypeInv'
    BY <1>1, <1>3, <1>4, <1>5, <1>13 DEF TypeInv
  <2>2. HeardInv'
    BY <1>1, <1>3, <1>13 DEF HeardInv, Sweeping
  <2>3. OneThread => /\ confirmed' \cap Server \subseteq announced
                     /\ \A u \in Thread : local'[u].found \cap Server \subseteq announced /\ local'[u].result \cap Server = {}
    BY <1>9, <1>13 DEF SelfInv
  <2>4. SoloInv'
    BY <1>1, <1>3, <1>9, <1>11, <1>13, <2>3, SoloStays
  <2> QED
    BY <1>8, <2>1, <2>2, <2>4 DEF IInv
<1> QED
  BY <1>2, <1>12, <1>13
-----------------------------------------------------------------------------
(* The invariant and what it implies *)

LEMMA InitInv == Init => IInv
<1> SUFFICES ASSUME Init PROVE IInv
  OBVIOUS
<1>1. /\ server = None /\ discovery = FALSE /\ active = None /\ announced = {}
      /\ confirmed = {} /\ aged = {} /\ pending = {} /\ events = <<>>
      /\ local = [t \in Thread |-> Idle] /\ up = {} /\ air = {}
      /\ chan = [s \in Server |-> <<>>] /\ pump = [s \in Server |-> None]
  BY DEF Init
<1>2. PICK sc \in Scenarios :
          /\ pc = [t \in Thread |-> IF t \in sc.threads THEN "idle" ELSE "off"]
          /\ fate = [r \in Request |->
                [at |-> None, state |-> IF r \in sc.requests THEN "unsent" ELSE "never"]]
          /\ noise = sc.noise
  BY DEF Init
<1>3. \A t \in Thread : pc[t] \in {"idle", "off"} /\ local[t] = Idle
  BY <1>1, <1>2
<1>4. \A r \in Request : fate[r].at = None /\ fate[r].state \in {"unsent", "never"}
  BY <1>2
<1>5. Queued = {} /\ \A r \in Request : ~ Pumped(r) /\ ~ InChan(r)
  BY <1>1, NoneAssumption DEF Queued, Pumped, InChan
<1>6. TypeInv
  <2>1. noise \in Nat
    BY <1>2, ScenarioAssumption
  <2>2. fate \in [Request -> Fate]
    BY <1>2 DEF Fate, States
  <2>3. pc \in [Thread -> PCs] /\ local \in [Thread -> LocalRec]
    BY <1>1, <1>2, IdleFacts DEF PCs
  <2>4. chan \in [Server -> Seq(Event)] /\ pump \in [Server -> Event \cup {None}]
    BY <1>1
  <2>5. events \in Seq(Event) /\ Len(events) <= MaxQueued
    BY <1>1, QueueAssumption
  <2> QED
    BY <1>1, <2>1, <2>2, <2>3, <2>4, <2>5 DEF TypeInv
<1>7. HeardInv
  BY <1>1, <1>3, IdleFacts, NoneAssumption DEF HeardInv, HeardOK, DevOK, Starting, Listening, Reported
<1>8. RequestInv
  <2>1. Distinct
    BY <1>1 DEF Distinct
  <2>2. \A r \in Request : Tracked(r, pending, Queued, Pumped(r), InChan(r), fate[r])
    BY <1>1, <1>4, <1>5 DEF Tracked
  <2> QED
    BY <2>1, <2>2, RequestsTracked
<1>9. SelfInv
  BY <1>1, <1>3, <1>4, IdleFacts DEF SelfInv, Gone
<1>10. ASSUME NEW t \in Thread, pc[t] # "off" PROVE SoloOK(pc[t], local[t], server, air, announced, fate)
  BY <1>1, <1>3, <1>10 DEF SoloOK, Starting, Listening
<1> QED
  BY <1>6, <1>7, <1>8, <1>9, <1>10 DEF IInv, SoloInv

LEMMA Stutter ==
  ASSUME IInv, UNCHANGED vars
  PROVE  IInv'
<1>1. UNCHANGED <<server, discovery, active, announced, confirmed, aged, pc, local, up, air, chan, noise, pending,
                  events, fate, pump>>
  BY DEF vars, shared, devices, queue, network, threads
<1>2. TypeInv /\ RequestInv
  BY DEF IInv
<1>3. RequestInv'
  BY <1>1, <1>2, RequestSame
<1>4. /\ pending' \subseteq Request /\ events' \in Seq(Event) /\ Len(events') <= MaxQueued
      /\ pump' \in [Server -> Event \cup {None}] /\ fate' \in [Request -> Fate]
  BY <1>1, <1>2 DEF TypeInv
<1>5. \A r \in Request : fate'[r].state \in Gone => Lingers(fate'[r], fate[r])
  BY <1>1 DEF Lingers
<1> QED
  BY <1>1, <1>3, <1>4, <1>5, QueueStep

LEMMA InvStep == IInv /\ [Next]_vars => IInv'
<1> SUFFICES ASSUME IInv, [Next]_vars PROVE IInv'
  OBVIOUS
<1>1. ASSUME NEW t \in Thread, Receiver(t) PROVE IInv'
  BY <1>1, StartCheckStep, StartBuildStep, StartFailsStep, StartDiscoveryStep, StartStoreStep,
     StopTakeStep, StopServerStep DEF Receiver
<1>2. ASSUME NEW t \in Thread, Sweep(t) PROVE IInv'
  BY <1>2, SweepBeginStep, SweepBuildStep, SweepAnnounceStep, SweepListenStep, SweepPublishStep, HearStep,
     SweepEndStep, SweepFailsStep, SweepReportStep, SweepTeardownStep, SweepClearStep, SweepReturnStep
     DEF Sweep
<1>3. ASSUME NEW s \in Server, Pumps(s) PROVE IInv'
  BY <1>3, AbsorbStep, PushStep DEF Pumps
<1>4. CASE UNCHANGED vars
  BY <1>4, Stutter
<1> QED
  BY <1>1, <1>2, <1>3, <1>4, RegisterStep, AskStep, PollStep, RespondStep, AgeStep DEF Next

\* The invariant holds in every reachable state of the registry.
THEOREM Invariance == Spec => []IInv
  BY InitInv, InvStep, PTL DEF Spec

\* discover: whatever calls overlap, a sweep returns every peer that registered
\* while it waited, although another sweep may have taken over the slot
\* active_discovery: the confirmed devices, not the slot, carry it.
THEOREM SweepsReportPeers == Spec => []SweepReportsPeers
<1>1. IInv => SweepReportsPeers
  BY DEF IInv, HeardInv, HeardOK, Reported, SweepReportsPeers
<1> QED
  BY <1>1, Invariance, PTL

\* absorb_event, push_event and respond_to_transfer: a shell that calls from one
\* thread is never shown its own device as a peer, can answer every request it
\* was told of unless the server it came in on has been stopped, and loses a
\* responder only with its event or its server.
THEOREM ShellToldTruly == Spec => []ShellIsToldTruly
<1>1. IInv => TypeOK
  <2> SUFFICES ASSUME IInv PROVE TypeOK
    OBVIOUS
  <2>1. \A t \in Thread : local[t].found \cup local[t].heard \cup local[t].result \subseteq Device
    BY At
  <2> QED
    BY <2>1 DEF IInv, TypeInv, TypeOK
<1>2. IInv /\ OneThread => NoSelfReported
  BY DEF IInv, SoloInv, SelfInv, NoSelfReported
<1>3. IInv /\ OneThread => RequestsAnswerable
  <2> SUFFICES ASSUME IInv, OneThread PROVE RequestsAnswerable
    OBVIOUS
  <2>1. \A r \in Request : Tracked(r, pending, Queued, Pumped(r), InChan(r), fate[r])
    BY RequestsTracked DEF IInv
  <2>2. pending \subseteq Request /\ SelfInv
    BY DEF IInv, TypeInv, SoloInv
  <2> QED
    BY <2>1, <2>2 DEF Tracked, Pumped, SelfInv, RequestsAnswerable
<1>4. IInv => ShellIsToldTruly
  BY <1>1, <1>2, <1>3 DEF ShellIsToldTruly
<1> QED
  BY <1>4, Invariance, PTL
=============================================================================
