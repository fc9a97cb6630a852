------------------------- MODULE LocalSendRegistry -------------------------
(***************************************************************************)
(* The process-wide LocalSend registry: the receiver, discovery sweeps,    *)
(* the event queue and incoming transfer requests.                         *)
(*                                                                         *)
(*   zmanager-localsend/src/registry.rs                                    *)
(*                                                                         *)
(* Shell threads call start_receiver, stop_receiver and discover; each     *)
(* takes the registry lock several times and releases it around network    *)
(* calls, so a step here is one critical section.  Every server built has  *)
(* an event pump of its own.  A device identity is the server that         *)
(* announces it (plain HTTP: a new one per server).  Sending files and     *)
(* loopback-only sweeps are not part of this module.                       *)
(***************************************************************************)
EXTENDS Naturals, Sequences, FiniteSets

CONSTANTS
    Thread,     \* shell threads that start, stop and discover
    Server,     \* servers, and identities, that can be built
    Peer,       \* other devices on the network
    Request,    \* transfer requests peers can make
    None,
    MaxQueued,  \* MAX_QUEUED_EVENTS
    Scenarios   \* threads: those the shell calls from.  requests: those that peers
                \* make.  noise: bound on announcements, registrations and expiries

ASSUME NoneAssumption == None \notin Thread \cup Server \cup Peer \cup Request
ASSUME IdentityAssumption ==
    IsFiniteSet(Thread) /\ Peer \cap Server = {} /\ Request \cap (Peer \cup Server) = {}
ASSUME QueueAssumption == MaxQueued \in Nat \ {0}
ASSUME ScenarioAssumption ==
    Scenarios \subseteq [threads : SUBSET Thread, requests : SUBSET Request, noise : Nat]

VARIABLES
    server, discovery,          \* the receiver and whether its discovery runs
    active, announced,          \* active_discovery and announced_fingerprints
    confirmed, aged,            \* confirmed_devices, and those past their TTL
    pending, events,            \* pending_requests and the queue
    pc, local,                  \* of the shell threads
    up, air, chan, pump,        \* servers running, identities on multicast, and
                                \* per server its event channel and its pump
    noise,                      \* what may still happen on the network
    fate                        \* what became of each request

shared == <<server, discovery, active, announced>>
devices == <<confirmed, aged>>
queue == <<pending, events, fate>>
network == <<up, air, chan, pump, noise>>
threads == <<pc, local>>
vars == <<shared, devices, queue, network, threads>>

Device == Peer \cup Server
Event == Device \cup Request
Idle == [dev |-> None, temp |-> None, found |-> {}, heard |-> {}, result |-> {}]

Init ==
    /\ server = None /\ discovery = FALSE
    /\ active = None /\ announced = {}
    /\ confirmed = {} /\ aged = {}
    /\ pending = {} /\ events = <<>>
    /\ local = [t \in Thread |-> Idle]
    /\ up = {} /\ air = {}
    /\ chan = [s \in Server |-> <<>>] /\ pump = [s \in Server |-> None]
    /\ \E sc \in Scenarios :
          /\ pc = [t \in Thread |-> IF t \in sc.threads THEN "idle" ELSE "off"]
          /\ fate = [r \in Request |->
                [at |-> None, state |-> IF r \in sc.requests THEN "unsent" ELSE "never"]]
          /\ noise = sc.noise

Goto(t, to, l) == pc' = [pc EXCEPT ![t] = to] /\ local' = [local EXCEPT ![t] = l]

\* A server that was never built, or of which nothing is left but its name.
Unbuilt(s) ==
    /\ s \notin up \cup air \cup announced \cup confirmed
    /\ s # server /\ chan[s] = <<>> /\ pump[s] = None
    /\ \A t \in Thread : s # local[t].dev /\ s \notin local[t].found \cup local[t].result
    /\ \A r \in Request : fate[r].at # s
    /\ \A i \in DOMAIN events : events[i] # s

\* Identities are interchangeable: one that is unused stands for all.
NewServer ==
    LET unbuilt == {s \in Server : Unbuilt(s)} IN
    IF unbuilt = {} THEN {} ELSE {CHOOSE s \in unbuilt : TRUE}

\* Bound: a call that may build a server starts only while one is left for it.
ServersLeft ==
    Cardinality({s \in Server : Unbuilt(s)}) > Cardinality({t \in Thread : pc[t] \in {"start", "build"}})
-----------------------------------------------------------------------------
(* start_receiver *)

StartCheck(t) ==
    /\ pc[t] = "idle"
    /\ server = None /\ ServersLeft
    /\ Goto(t, "start", Idle)
    /\ UNCHANGED <<shared, devices, queue, network>>

StartBuild(t) ==
    /\ pc[t] = "start"
    /\ \E s \in NewServer :
          /\ up' = up \cup {s}
          /\ Goto(t, "start_discovery", [Idle EXCEPT !.dev = s])
    /\ UNCHANGED <<shared, devices, queue, air, chan, pump, noise>>

\* The port is taken.
StartFails(t) ==
    /\ pc[t] = "start"
    /\ up # {}
    /\ Goto(t, "idle", Idle)
    /\ UNCHANGED <<shared, devices, queue, network>>

StartDiscovery(t) ==
    /\ pc[t] = "start_discovery"
    /\ \E ok \in BOOLEAN :
          /\ air' = IF ok THEN air \cup {local[t].dev} ELSE air
          /\ Goto(t, IF ok THEN "start_store" ELSE "start_store_deaf", local[t])
    /\ UNCHANGED <<server, discovery, active, announced, devices, queue, up, chan, pump, noise>>

StartStore(t) ==
    /\ pc[t] \in {"start_store", "start_store_deaf"}
    /\ server' = local[t].dev
    /\ discovery' = (pc[t] = "start_store")
    /\ Goto(t, "idle", Idle)
    /\ UNCHANGED <<active, announced, devices, queue, network>>
-----------------------------------------------------------------------------
(* stop_receiver *)

\* Pending requests are dropped with the receiver, and also without one.
Dropped(f, rs) == [r \in Request |->
    IF r \in rs THEN [f[r] EXCEPT !.state = "dropped"] ELSE f[r]]

StopTake(t) ==
    /\ pc[t] = "idle"
    /\ pending' = {} /\ fate' = Dropped(fate, pending)
    /\ IF server = None
       THEN UNCHANGED threads
       ELSE Goto(t, "stop", [Idle EXCEPT !.dev = server])
    /\ server' = None /\ discovery' = FALSE
    /\ air' = air \ {server}
    /\ UNCHANGED <<active, announced, devices, events, up, chan, pump, noise>>

StopServer(t) ==
    /\ pc[t] = "stop"
    /\ up' = up \ {local[t].dev}
    /\ Goto(t, "idle", Idle)
    /\ UNCHANGED <<shared, devices, queue, air, chan, pump, noise>>
-----------------------------------------------------------------------------
(* discover *)

\* A running receiver is reused.
SweepBegin(t) ==
    /\ pc[t] = "idle"
    /\ server = None => ServersLeft
    /\ Goto(t, IF server = None THEN "build" ELSE "announce", [Idle EXCEPT !.dev = server])
    /\ UNCHANGED <<shared, devices, queue, network>>

\* A temporary listener for this sweep, or none if it cannot be bound.
SweepBuild(t) ==
    /\ pc[t] = "build"
    /\ \E s \in NewServer, bound \in BOOLEAN :
          /\ up' = IF bound THEN up \cup {s} ELSE up
          /\ Goto(t, "announce", [Idle EXCEPT !.dev = s, !.temp = IF bound THEN s ELSE None])
    /\ UNCHANGED <<shared, devices, queue, air, chan, pump, noise>>

SweepAnnounce(t) ==
    /\ pc[t] = "announce"
    /\ announced' = announced \cup {local[t].dev}
    /\ Goto(t, "listen", local[t])
    /\ UNCHANGED <<server, discovery, active, devices, queue, network>>

SweepListen(t) ==
    /\ pc[t] = "listen"
    /\ \E ok \in BOOLEAN :
          /\ air' = IF ok THEN air \cup {local[t].dev} ELSE air
          /\ Goto(t, IF ok THEN "publish" ELSE "publish_deaf", local[t])
    /\ UNCHANGED <<server, discovery, active, announced, devices, queue, up, chan, pump, noise>>

SweepPublish(t) ==
    /\ pc[t] \in {"publish", "publish_deaf"}
    /\ active' = t
    /\ Goto(t, IF pc[t] = "publish" THEN "sweep" ELSE "sweep_deaf", local[t])
    /\ UNCHANGED <<server, discovery, announced, devices, queue, network>>

\* Bound.
Noise == noise > 0 /\ noise' = noise - 1

Sweeping(t) == pc[t] \in {"sweep", "sweep_deaf"}

\* The multicast listener hears another device announce itself.
Hear(t) ==
    /\ pc[t] = "sweep"
    /\ \E d \in (Peer \cup air) \ {local[t].dev} :
          local' = [local EXCEPT ![t].found = @ \cup {d}]
    /\ Noise
    /\ UNCHANGED <<shared, devices, queue, up, air, chan, pump, pc>>

\* The wait is over; the subnet scan found some peers.
SweepEnd(t) ==
    /\ Sweeping(t)
    /\ \E scanned \in {{}, Peer} :
          Goto(t, "report", [local[t] EXCEPT !.found = @ \cup scanned])
    /\ active' = None
    /\ air' = IF local[t].dev = server /\ discovery THEN air ELSE air \ {local[t].dev}
    /\ UNCHANGED <<server, discovery, announced, devices, queue, up, chan, pump, noise>>

\* The subnet scanner cannot be set up: the sweep returns an error.
SweepFails(t) ==
    /\ Sweeping(t)
    /\ Goto(t, IF local[t].temp = None THEN "returned" ELSE "teardown",
            [Idle EXCEPT !.dev = local[t].dev, !.temp = local[t].temp])
    /\ active' = None
    /\ air' = IF local[t].dev = server /\ discovery THEN air ELSE air \ {local[t].dev}
    /\ UNCHANGED <<server, discovery, announced, devices, queue, up, chan, pump,
                   noise>>

\* Found devices join the store, old ones leave it, and what remains is the
\* result, without this process's own identities.
OwnIdentities(t) == announced \cup {local[t].dev}

\* Mutant: the result is what the sweep itself collected.
SweepReportFound(t) ==
    /\ pc[t] = "report"
    /\ confirmed' = (confirmed \ aged) \cup local[t].found
    /\ aged' = {}
    /\ Goto(t, IF local[t].temp = None THEN "returned" ELSE "teardown",
            [local[t] EXCEPT !.result = local[t].found \ announced])
    /\ UNCHANGED <<shared, queue, network>>

SweepReport(t) ==
    /\ pc[t] = "report"
    /\ LET seen == local[t].found \ {local[t].dev}
           store == (confirmed \ aged) \cup seen
       IN /\ confirmed' = store
          /\ Goto(t, IF local[t].temp = None THEN "returned" ELSE "teardown",
                  [local[t] EXCEPT !.result = store \ OwnIdentities(t)])
    /\ aged' = {}
    /\ UNCHANGED <<shared, queue, network>>

SweepTeardown(t) ==
    /\ pc[t] = "teardown"
    /\ up' = up \ {local[t].temp}
    /\ Goto(t, "clear", local[t])
    /\ UNCHANGED <<shared, devices, queue, air, chan, pump, noise>>

\* Requests made to the temporary listener are dropped, and all others too.
SweepClear(t) ==
    /\ pc[t] = "clear"
    /\ pending' = {} /\ fate' = Dropped(fate, pending)
    /\ Goto(t, "returned", local[t])
    /\ UNCHANGED <<shared, devices, events, network>>

SweepReturn(t) ==
    /\ pc[t] = "returned"
    /\ Goto(t, "idle", Idle)
    /\ UNCHANGED <<shared, devices, queue, network>>
-----------------------------------------------------------------------------
(* The event pump of a server, and the queue *)

Heard(d) == [t \in Thread |->
    [local[t] EXCEPT !.found = IF t = active THEN @ \cup {d} ELSE @,
                     !.heard = IF Sweeping(t) THEN @ \cup {d} ELSE @]]

\* Mutant: a request is described to the shell but its responder is not kept.
AbsorbForgetfully(s) ==
    /\ pump[s] = None /\ chan[s] # <<>>
    /\ pump' = [pump EXCEPT ![s] = Head(chan[s])]
    /\ chan' = [chan EXCEPT ![s] = Tail(@)]
    /\ UNCHANGED <<shared, devices, queue, threads, up, air, noise>>

\* The first critical section of absorb_event.
Absorb(s) ==
    /\ pump[s] = None /\ chan[s] # <<>>
    /\ LET e == Head(chan[s]) IN
          /\ pump' = [pump EXCEPT ![s] = e]
          /\ chan' = [chan EXCEPT ![s] = Tail(@)]
          /\ \/ /\ e \in Device
                /\ confirmed' = confirmed \cup {e} /\ aged' = aged \ {e}
                /\ local' = Heard(e)
                /\ UNCHANGED pending
             \/ /\ e \in Request
                /\ pending' = pending \cup {e}
                /\ UNCHANGED <<devices, local>>
    /\ UNCHANGED <<shared, events, fate, pc, up, air, noise>>

\* Mutant: a full queue refuses what is new.
PushUnlessFull(s) ==
    /\ pump[s] # None
    /\ events' = IF Len(events) < MaxQueued THEN Append(events, pump[s]) ELSE events
    /\ pump' = [pump EXCEPT ![s] = None]
    /\ UNCHANGED <<shared, devices, pending, fate, threads, up, air, chan, noise>>

\* push_event, the second: a full queue loses its oldest event.
Push(s) ==
    /\ pump[s] # None
    /\ LET full == Len(events) >= MaxQueued IN
          /\ events' = Append(IF full THEN Tail(events) ELSE events, pump[s])
          /\ fate' = IF full /\ Head(events) \in Request
                     THEN [fate EXCEPT ![Head(events)].state = "evicted"] ELSE fate
    /\ pump' = [pump EXCEPT ![s] = None]
    /\ UNCHANGED <<shared, devices, pending, threads, up, air, chan, noise>>

Queued == {events[i] : i \in DOMAIN events}

\* What the shell knows of a request once its event is handed out.  Stopping a
\* receiver, or a sweep's temporary listener, clears pending_requests and leaves
\* the queue alone: the shell is then told of a request that
\* respond_to_transfer refuses with UnknownRequestId.
Told(state) ==
    CASE state = "sent" -> "polled"
      [] state = "dropped" -> "stale"
      [] OTHER -> state

poll_events ==
    /\ events # <<>>
    /\ events' = <<>>
    /\ fate' = [r \in Request |->
          IF r \in Queued THEN [fate[r] EXCEPT !.state = Told(fate[r].state)] ELSE fate[r]]
    /\ UNCHANGED <<shared, devices, pending, network, threads>>

respond_to_transfer(r) ==
    /\ fate[r].state = "polled"
    /\ r \in pending
    /\ pending' = pending \ {r}
    /\ fate' = [fate EXCEPT ![r].state = "answered"]
    /\ UNCHANGED <<shared, devices, events, network, threads>>
-----------------------------------------------------------------------------
(* The network *)

\* Who registers with a server that is up: peers; this process, whose subnet scan
\* probes its own host; and the receiver's discovery, which answers whoever
\* announces.
Registrants(s) ==
    Peer \cup {local[t].dev : t \in {u \in Thread : Sweeping(u)}}
         \cup (IF discovery /\ s \in air THEN {server} \ {s} ELSE {})

\* Bound: one registration at a time is on its way to a server.
Register(s) ==
    /\ s \in up
    /\ chan[s] = <<>>
    /\ \E d \in Registrants(s) : chan' = [chan EXCEPT ![s] = <<d>>]
    /\ Noise
    /\ UNCHANGED <<shared, devices, queue, threads, up, air, pump>>

Ask(r, s) ==
    /\ s \in up
    /\ fate[r].state = "unsent"
    /\ fate' = [fate EXCEPT ![r] = [at |-> s, state |-> "sent"]]
    /\ chan' = [chan EXCEPT ![s] = Append(@, r)]
    /\ UNCHANGED <<shared, devices, pending, events, threads, up, air, pump, noise>>

\* A confirmation becomes older than CONFIRMED_DEVICE_TTL; a sweep is shorter
\* than that.
Age(d) ==
    /\ d \in confirmed \ aged
    /\ \A t \in Thread : d \notin local[t].heard
    /\ aged' = aged \cup {d}
    /\ Noise
    /\ UNCHANGED <<shared, confirmed, queue, up, air, chan, pump, threads>>

Receiver(t) ==
    \/ StartCheck(t) \/ StartBuild(t) \/ StartFails(t) \/ StartDiscovery(t) \/ StartStore(t)
    \/ StopTake(t) \/ StopServer(t)
Sweep(t) ==
    \/ SweepBegin(t) \/ SweepBuild(t) \/ SweepAnnounce(t) \/ SweepListen(t)
    \/ SweepPublish(t) \/ Hear(t) \/ SweepEnd(t) \/ SweepFails(t) \/ SweepReport(t) \/ SweepTeardown(t)
    \/ SweepClear(t) \/ SweepReturn(t)
Pumps(s) == Absorb(s) \/ Push(s)

Next ==
    \/ \E t \in Thread : Receiver(t) \/ Sweep(t)
    \/ \E s \in Server : Pumps(s) \/ Register(s) \/ \E r \in Request : Ask(r, s)
    \/ poll_events
    \/ \E r \in Request : respond_to_transfer(r)
    \/ \E d \in Device : Age(d)

Spec == Init /\ [][Next]_vars

\* Pump tasks run, the shell keeps polling.
Fairness == (\A s \in Server : WF_vars(Pumps(s))) /\ WF_vars(poll_events)
FairSpec == Spec /\ Fairness
-----------------------------------------------------------------------------
(* Properties *)

\* Every variable holds what the field it stands for can hold, and the queue
\* stays within its limit.
TypeOK ==
    /\ server \in Server \cup {None} /\ discovery \in BOOLEAN
    /\ active \in Thread \cup {None} /\ announced \subseteq Server
    /\ aged \subseteq confirmed /\ confirmed \subseteq Device
    /\ pending \subseteq Request
    /\ events \in Seq(Event) /\ Len(events) <= MaxQueued
    /\ up \cup air \subseteq Server
    /\ \A t \in Thread : local[t].found \cup local[t].heard \cup local[t].result \subseteq Device

\* discover: whatever other calls overlap, a sweep reports every peer that
\* registered while it waited, although the slot active_discovery may have
\* belonged to another sweep.
SweepReportsPeers == \A t \in Thread :
    pc[t] \in {"teardown", "clear", "returned"} => local[t].heard \cap Peer \subseteq local[t].result

\* announced_fingerprints: this device is never reported to itself as a peer.
NoSelfReported == \A t \in Thread : local[t].result \cap Server = {}

\* absorb_event and respond_to_transfer: the responder of a request the shell
\* was told of is there until the shell answers, except after the server the
\* request came in on was stopped, which drops what is pending and does not take
\* back what is queued.  So a request to the running receiver is neither dropped
\* nor told of in vain.  And a responder is kept only for a request the shell
\* knows of, will be told of, or lost to the limit of the queue.
Gone == {"dropped", "stale"}
RequestsAnswerable ==
    /\ \A r \in Request :
          /\ fate[r].state = "polled" => r \in pending
          /\ fate[r].state \in Gone => fate[r].at # server
    /\ \A r \in pending :
          \/ r \in Queued
          \/ \E s \in Server : pump[s] = r
          \/ fate[r].state \in {"polled", "evicted"}

\* What a shell that calls from one thread is told: no peer that is this
\* device, and, while its receiver runs, no request to it that it cannot answer.
OneThread == Cardinality({t \in Thread : pc[t] # "off"}) = 1
ShellIsToldTruly == TypeOK /\ (OneThread => NoSelfReported /\ RequestsAnswerable)

\* A request that reached a server is polled, unless the queue overflows or the
\* receiver stops.
RequestIsDelivered == \A r \in Request : fate[r].state = "sent" ~> fate[r].state # "sent"
=============================================================================
