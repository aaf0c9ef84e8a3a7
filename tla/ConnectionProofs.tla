-------------------------- MODULE ConnectionProofs --------------------------
(***************************************************************************)
(* Proofs about the components that carry messages, for any number of      *)
(* peers, requests, tools and clients: the agent bus, the connections to   *)
(* MCP servers and the WebSocket hub.                                      *)
(***************************************************************************)
EXTENDS IPCBus, MCPManager, WSHub, TLAPS

-----------------------------------------------------------------------------
(* The agent bus.  The nil sentinel in a reply channel, a caller it woke    *)
(* and an error in the stash belong together in ways that the two sides     *)
(* establish in separate steps; Sound lists them for one request.           *)

\* One request's entries in the two tables, its channel, its caller and its
\* handler agree.
Sound(r) ==
  /\ caller[r] \in {"idle", "found"} => worker[r] = "none"
  /\ worker[r] = "none" => replyCh[r] = <<>>
  /\ worker[r] \in {"none", "running", "failed", "replying"} => r \notin pendingErr
  /\ r \in pending => caller[r] \in {"waiting", "woken", "leaving"}
  /\ caller[r] = "waiting" /\ worker[r] = "stashed" => r \in pendingErr
  /\ caller[r] = "waiting" /\ replyCh[r] = <<"nil">> => r \in pendingErr
  /\ replyCh[r] = <<"nil">> => worker[r] = "ended"
  /\ caller[r] = "woken" => r \in pendingErr /\ worker[r] = "ended"
  /\ outcome[r] = "error" => /\ worker[r] = "ended" /\ r \notin pendingErr
                             /\ caller[r] \in {"leaving", "done"}

BusInv == BusTypeOK /\ \A r \in Requests : Sound(r)

-----------------------------------------------------------------------------
LEMMA BusStarts == BusInit => BusInv
  BY DEF BusInit, BusInv, BusTypeOK, Sound, CallerState, Outcome, WorkerState

\* What push leaves in a channel.
LEMMA PushKeepsChannels ==
  ASSUME BusTypeOK, NEW r \in Requests, NEW m \in Delivery, push(r, m)
  PROVE  /\ replyCh' \in [Requests -> {<<>>} \cup {<<d>> : d \in Delivery}]
         /\ \A q \in Requests \ {r} : replyCh'[q] = replyCh[q]
         /\ replyCh'[r] # replyCh[r] => r \in pending /\ replyCh'[r] = <<m>>
  BY DEF BusTypeOK, push

LEMMA BusStep == BusInv /\ [BusNext]_bus => BusInv'
<1>. SUFFICES ASSUME BusInv, [BusNext]_bus PROVE BusInv'
  OBVIOUS
<1>. USE DEF BusInv
<1>1. ASSUME NEW a \in Peers, Register(a) \/ Unregister(a)
      PROVE  BusInv'
  BY <1>1 DEF Register, Unregister, BusTypeOK, Sound
<1>2. ASSUME NEW r \in Requests, LookUp(r)
      PROVE  BusInv'
  BY <1>2 DEF LookUp, BusTypeOK, Sound, CallerState, Outcome
<1>3. ASSUME NEW r \in Requests, Open(r)
      PROVE  BusInv'
  BY <1>3 DEF Open, BusTypeOK, Sound, CallerState, WorkerState
<1>4. ASSUME NEW r \in Requests, TakeReply(r)
      PROVE  BusInv'
  <2>1. replyCh[r] = <<"reply">> \/ replyCh[r] = <<"nil">>
    BY <1>4 DEF TakeReply, BusTypeOK, Delivery
  <2>2. CASE replyCh[r] = <<"reply">>
    BY <1>4, <2>2 DEF TakeReply, Leave, BusTypeOK, Sound, CallerState, Outcome
  <2>3. CASE replyCh[r] = <<"nil">>
    BY <1>4, <2>3 DEF TakeReply, BusTypeOK, Sound, CallerState, Outcome
  <2>. QED  BY <2>1, <2>2, <2>3
<1>5. ASSUME NEW r \in Requests, TimerFires(r) \/ ContextDone(r)
      PROVE  BusInv'
  BY <1>5 DEF TimerFires, ContextDone, Leave, BusTypeOK, Sound, CallerState, Outcome
<1>6. ASSUME NEW r \in Requests, popError(r)
      PROVE  BusInv'
  BY <1>6 DEF popError, Leave, BusTypeOK, Sound, CallerState, Outcome
<1>7. ASSUME NEW r \in Requests, removePending(r)
      PROVE  BusInv'
  BY <1>7 DEF removePending, BusTypeOK, Sound, CallerState
<1>8. ASSUME NEW r \in Requests, HandlerReturns(r)
      PROVE  BusInv'
  BY <1>8 DEF HandlerReturns, BusTypeOK, Sound, WorkerState
<1>9. ASSUME NEW r \in Requests, stashError(r)
      PROVE  BusInv'
  BY <1>9 DEF stashError, BusTypeOK, Sound, WorkerState
<1>10. ASSUME NEW r \in Requests, deliverReply(r)
       PROVE  BusInv'
  <2>. DEFINE m == IF worker[r] = "stashed" THEN "nil" ELSE "reply"
  <2>1. push(r, m) /\ m \in Delivery
    BY <1>10 DEF deliverReply, Delivery
  <2>. HIDE DEF m
  <2>2. BusTypeOK'
    BY <1>10, <2>1, PushKeepsChannels DEF deliverReply, BusTypeOK, WorkerState
  <2>3. \A q \in Requests \ {r} : Sound(q)'
    BY <1>10, <2>1, PushKeepsChannels DEF deliverReply, BusTypeOK, Sound
  <2>4. replyCh'[r] = <<"nil">> => replyCh[r] = <<"nil">> \/ worker[r] = "stashed"
    <3>1. ASSUME worker[r] # "stashed" PROVE <<m>> # <<"nil">>
      BY <3>1 DEF m
    <3>. QED  BY <2>1, <3>1, PushKeepsChannels
  <2>5. Sound(r)'
    BY <1>10, <2>2, <2>4 DEF deliverReply, BusTypeOK, Sound
  <2>. QED  BY <2>2, <2>3, <2>5
<1>11. ASSUME NEW r \in Requests, Reply(r)
       PROVE  BusInv'
  <2>1. push(r, "reply") /\ "reply" \in Delivery
    BY <1>11 DEF Reply, Delivery
  <2>2. BusTypeOK'
    BY <1>11, <2>1, PushKeepsChannels DEF Reply, BusTypeOK
  <2>3. \A q \in Requests \ {r} : Sound(q)'
    BY <1>11, <2>1, PushKeepsChannels DEF Reply, BusTypeOK, Sound
  <2>4. replyCh'[r] = <<"nil">> => replyCh[r] = <<"nil">>
    <3>1. <<"reply">> # <<"nil">>
      OBVIOUS
    <3>. QED  BY <2>1, <3>1, PushKeepsChannels
  <2>5. Sound(r)'
    BY <1>11, <2>2, <2>4 DEF Reply, BusTypeOK, Sound
  <2>. QED  BY <2>2, <2>3, <2>5
<1>12. CASE UNCHANGED bus
  BY <1>12 DEF bus, BusTypeOK, Sound
<1>. QED
  BY <1>1, <1>2, <1>3, <1>4, <1>5, <1>6, <1>7, <1>8, <1>9, <1>10, <1>11, <1>12
     DEF BusNext, CallerStep

-----------------------------------------------------------------------------
\* The bus's tables, channels and goroutines keep their types.
THEOREM BusTypeCorrect == BusSpec => []BusTypeOK
<1>1. BusInv => BusTypeOK
  BY DEF BusInv
<1>. QED  BY BusStarts, BusStep, <1>1, PTL DEF BusSpec

\* A handler's error reaches the caller that waits for it, and the tables keep
\* nothing for a request that returned but an error that came too late
\* (primitives.go:98, :121).
THEOREM StashServesItsCaller == BusSpec => []StashIsExact
<1>1. BusInv => StashIsExact
  <2>. SUFFICES ASSUME BusInv PROVE StashIsExact
    OBVIOUS
  <2>1. ErrorReachesItsCaller
    BY DEF BusInv, Sound, ErrorReachesItsCaller
  <2>2. OnlyLateErrorsStay
    BY DEF BusInv, Sound, BusTypeOK, WorkerState, OnlyLateErrorsStay
  <2>. QED  BY <2>1, <2>2 DEF StashIsExact
<1>. QED  BY BusStarts, BusStep, <1>1, PTL DEF BusSpec

-----------------------------------------------------------------------------
(* The MCP connections.                                                     *)

\* Of the type invariant, what the argument about open clients needs.
ClientsTyped ==
  /\ client \in [Clients -> {"none", "open", "leaving", "closing", "closed"}]
  /\ connect \in [Clients -> {"idle", "dialed", "registering", "swapped"}]
  /\ stale \in [Clients -> Clients \cup {NoClient}]
  /\ managed \in Clients \cup {NoClient}

ClientInv == ClientsTyped /\ NoClientIsLost

-----------------------------------------------------------------------------
LEMMA ClientsStart == MCPInit => ClientInv
  BY DEF MCPInit, ClientInv, ClientsTyped, NoClientIsLost

\* Steps that leave the clients and what is known of them alone.
LEMMA ClientsRest ==
  ClientInv /\ UNCHANGED <<client, connect, stale, managed>> => ClientInv'
  BY DEF ClientInv, ClientsTyped, NoClientIsLost

LEMMA ClientsStep == ClientInv /\ [MCPNext]_mcp => ClientInv'
<1>. SUFFICES ASSUME ClientInv, [MCPNext]_mcp PROVE ClientInv'
  OBVIOUS
<1>1. ASSUME NEW c \in Clients, Dial(c)
      PROVE  ClientInv'
  BY <1>1 DEF Dial, Connects, ClientInv, ClientsTyped, NoClientIsLost
<1>2. ASSUME NEW c \in Clients, RegisterBegins(c) \/ RegisterTool(c) \/ RegisterFails(c)
      PROVE  ClientInv'
  <2>1. CASE RegisterBegins(c)
    BY <2>1 DEF RegisterBegins, Connects, ClientInv, ClientsTyped, NoClientIsLost
  <2>2. CASE RegisterTool(c)
    BY <2>2, ClientsRest DEF RegisterTool
  <2>3. CASE RegisterFails(c)
    BY <2>3 DEF RegisterFails, Connects, ClientInv, ClientsTyped, NoClientIsLost
  <2>. QED  BY <1>2, <2>1, <2>2, <2>3
<1>3. ASSUME NEW c \in Clients, Swap(c)
      PROVE  ClientInv'
  <2>. USE <1>3 DEF Swap, Connects
  <2>1. ClientsTyped'
    BY DEF ClientInv, ClientsTyped
  <2>2. ASSUME NEW d \in Clients, client'[d] = "open"
        PROVE  \/ managed' = d \/ connect'[d] \in {"dialed", "registering"}
               \/ \E e \in Clients : connect'[e] = "swapped" /\ stale'[e] = d
    \* The client that was managed is the one c has to close now.
    <3>1. CASE d = c
      BY <3>1
    <3>2. CASE d # c /\ managed = d
      <4>1. connect'[c] = "swapped" /\ stale'[c] = d
        BY <3>2 DEF ClientInv, ClientsTyped
      <4>. QED  BY <4>1
    <3>3. CASE d # c /\ managed # d
      BY <2>2, <3>3 DEF ClientInv, ClientsTyped, NoClientIsLost
    <3>. QED  BY <3>1, <3>2, <3>3
  <2>. QED  BY <2>1, <2>2 DEF ClientInv, NoClientIsLost
<1>4. ASSUME NEW c \in Clients, CloseStale(c)
      PROVE  ClientInv'
  BY <1>4 DEF CloseStale, Connects, ClientInv, ClientsTyped, NoClientIsLost
<1>5. CASE Disconnect
  BY <1>5 DEF Disconnect, ClientInv, ClientsTyped, NoClientIsLost
<1>6. ASSUME NEW c \in Clients, CloseBegins(c) \/ CloseEnds(c)
      PROVE  ClientInv'
  BY <1>6 DEF CloseBegins, CloseEnds, ClientInv, ClientsTyped, NoClientIsLost
<1>7. ASSUME NEW c \in Clients, Notified(c) \/ RefreshStep(c)
      PROVE  ClientInv'
  BY <1>7, ClientsRest
     DEF Notified, RefreshStep, Lists, ListFails, RefreshBegins, RefreshEnds, RefreshRestores
<1>8. CASE UNCHANGED mcp
  BY <1>8, ClientsRest DEF mcp
<1>. QED
  BY <1>1, <1>2, <1>3, <1>4, <1>5, <1>6, <1>7, <1>8 DEF MCPNext

\* An open connection always has somebody who manages it or is about to close
\* it, however connects, disconnects and refreshes overlap (manager.go:228).
THEOREM ClientsAreKept == MCPSpec => []NoClientIsLost
<1>1. ClientInv => NoClientIsLost
  BY DEF ClientInv
<1>. QED  BY ClientsStart, ClientsStep, <1>1, PTL DEF MCPSpec

-----------------------------------------------------------------------------
(* The WebSocket hub.  A client passes through the register channel, the   *)
(* hub and the unregister channel at most once each, in whatever order the *)
(* loop handles them: the upgrade handler queues it once, and its read     *)
(* pump ends once.  That is what the close in removeClient rests on.       *)

HubFields ==
  {"loop", "done", "clients", "channels", "register", "unregister", "broadcast",
   "accepted", "open", "reading", "writing", "topics", "send", "closed"}

HubIsRecord == hub = [f \in HubFields |-> hub[f]]

\* A step that changes no other fields than those in F.
OnlyChanges(F) == HubIsRecord' /\ \A f \in HubFields \ F : hub'[f] = hub[f]

HubTyped ==
  /\ hub.accepted \subseteq WSClients
  /\ hub.channels \in [WSTopics -> SUBSET WSClients]
  /\ hub.topics \in [WSClients -> SUBSET WSTopics]

\* Nobody is known anywhere who was not accepted, a client that is queued for
\* registration is not yet in the hub, and one that reads not yet on its way
\* out; a topic has the clients that know of it and are not closed.
EveryClientInPlace ==
  /\ hub.register \subseteq hub.accepted /\ hub.clients \subseteq hub.accepted
  /\ hub.reading \subseteq hub.accepted /\ hub.unregister \subseteq hub.accepted
  /\ hub.closed \subseteq hub.accepted
  /\ hub.register \cap hub.clients = {} /\ hub.reading \cap hub.unregister = {}
  /\ \A c \in WSClients, t \in WSTopics :
       c \in hub.channels[t] <=> t \in hub.topics[c] /\ c \notin hub.closed

HubInv == HubIsRecord /\ HubTyped /\ EveryClientInPlace /\ ClosedIsOutOfReach

LEMMA HubStarts == HubInit => HubInv
<1>. SUFFICES ASSUME HubInit PROVE HubInv
  OBVIOUS
<1>1. HubIsRecord
  BY DEF HubInit, HubIsRecord, HubFields
<1>2. HubTyped /\ EveryClientInPlace /\ ClosedIsOutOfReach
  BY DEF HubInit, HubTyped, EveryClientInPlace, ClosedIsOutOfReach
<1>. QED  BY <1>1, <1>2 DEF HubInv

LEMMA HubStep == HubInv /\ [HubNext]_hub => HubInv'
<1>. SUFFICES ASSUME HubInv, [HubNext]_hub PROVE HubInv'
  OBVIOUS
<1>. USE DEF HubInv
\* Steps of the loop, the messages and the sockets, which say nothing of where
\* a client is.
<1>1. ASSUME OnlyChanges({"loop", "done", "broadcast", "send", "open", "writing"})
      PROVE  HubInv'
  BY <1>1 DEF OnlyChanges, HubFields, HubTyped, EveryClientInPlace, ClosedIsOutOfReach
<1>2. CASE RunHub \/ LoopEnds \/ StopHub
  BY <1>1, <1>2 DEF RunHub, LoopEnds, StopHub, OnlyChanges, HubIsRecord, HubFields
<1>3. CASE TakeBroadcast
  BY <1>1, <1>3 DEF TakeBroadcast, OnlyChanges, HubIsRecord, HubFields
<1>4. ASSUME NEW t \in WSTopics \cup {EveryClient}, BroadcastTo(t)
      PROVE  HubInv'
  BY <1>1, <1>4 DEF BroadcastTo, OnlyChanges, HubIsRecord, HubFields
<1>5. ASSUME NEW c \in WSClients, Ping(c) \/ Write(c) \/ WriteEnds(c)
      PROVE  HubInv'
  BY <1>1, <1>5 DEF Ping, Write, WriteEnds, OnlyChanges, HubIsRecord, HubFields
<1>6. ASSUME NEW c \in WSClients, Accept(c)
      PROVE  HubInv'
  <2>1. /\ c \notin hub.accepted
        /\ OnlyChanges({"accepted", "register", "open", "reading", "writing"})
        /\ hub'.accepted = hub.accepted \cup {c} /\ hub'.register = hub.register \cup {c}
        /\ hub'.open = hub.open \cup {c} /\ hub'.reading = hub.reading \cup {c}
        /\ hub'.writing = hub.writing \cup {c}
    BY <1>6 DEF Accept, OnlyChanges, HubIsRecord, HubFields
  <2>2. HubTyped'
    BY <2>1 DEF OnlyChanges, HubFields, HubTyped
  <2>. QED
    BY <2>1, <2>2 DEF OnlyChanges, HubFields, EveryClientInPlace, ClosedIsOutOfReach
<1>7. ASSUME NEW c \in WSClients, TakeRegister(c)
      PROVE  HubInv'
  <2>1. /\ c \in hub.register /\ OnlyChanges({"register", "clients"})
        /\ hub'.register = hub.register \ {c} /\ hub'.clients = hub.clients \cup {c}
    BY <1>7 DEF TakeRegister, OnlyChanges, HubIsRecord, HubFields
  <2>2. HubTyped'
    BY <2>1 DEF OnlyChanges, HubFields, HubTyped
  <2>. QED
    BY <2>1, <2>2 DEF OnlyChanges, HubFields, EveryClientInPlace, ClosedIsOutOfReach
<1>8. ASSUME NEW c \in WSClients, TakeUnregister(c)
      PROVE  HubInv'
  <2>1. CASE c \in hub.clients
    \* It leaves the topics it knows of, which are all it is in.
    <3>1. /\ c \in hub.unregister
          /\ OnlyChanges({"unregister", "clients", "channels", "closed"})
          /\ hub'.unregister = hub.unregister \ {c} /\ hub'.clients = hub.clients \ {c}
          /\ hub'.closed = hub.closed \cup {c}
          /\ hub'.channels = [t \in WSTopics |-> IF t \in hub.topics[c]
                                THEN hub.channels[t] \ {c} ELSE hub.channels[t]]
      BY <1>8, <2>1 DEF TakeUnregister, OnlyChanges, HubIsRecord, HubFields
    <3>2. HubTyped'
      BY <3>1 DEF OnlyChanges, HubFields, HubTyped
    <3>3. \A d \in WSClients, t \in WSTopics :
            d \in hub'.channels[t] <=> d \in hub.channels[t] /\ d # c
      BY <2>1, <3>1 DEF EveryClientInPlace, HubTyped
    <3>4. EveryClientInPlace'
      BY <2>1, <3>1, <3>3 DEF OnlyChanges, HubFields, EveryClientInPlace
    <3>5. ClosedIsOutOfReach'
      BY <2>1, <3>1, <3>3 DEF OnlyChanges, HubFields, EveryClientInPlace, ClosedIsOutOfReach, HubTyped
    <3>. QED  BY <3>1, <3>2, <3>4, <3>5 DEF OnlyChanges
  <2>2. CASE c \notin hub.clients
    <3>1. OnlyChanges({"unregister"}) /\ hub'.unregister = hub.unregister \ {c}
      BY <1>8, <2>2 DEF TakeUnregister, OnlyChanges, HubIsRecord, HubFields
    <3>2. HubTyped'
      BY <3>1 DEF OnlyChanges, HubFields, HubTyped
    <3>. QED
      BY <3>1, <3>2 DEF OnlyChanges, HubFields, EveryClientInPlace, ClosedIsOutOfReach
  <2>. QED  BY <2>1, <2>2
<1>9. ASSUME NEW c \in WSClients, NEW t \in WSTopics, Subscribe(c, t) \/ Unsubscribe(c, t)
      PROVE  HubInv'
  <2>1. c \in hub.reading /\ OnlyChanges({"topics", "channels"})
    BY <1>9 DEF Subscribe, Unsubscribe, OnlyChanges, HubIsRecord, HubFields
  <2>2. \/ /\ hub'.topics = [hub.topics EXCEPT ![c] = @ \cup {t}]
           /\ hub'.channels = [hub.channels EXCEPT ![t] = @ \cup {c}]
        \/ /\ hub'.topics = [hub.topics EXCEPT ![c] = @ \ {t}]
           /\ hub'.channels = [hub.channels EXCEPT ![t] = @ \ {c}]
    BY <1>9 DEF Subscribe, Unsubscribe, HubIsRecord, HubFields
  <2>3. HubTyped'
    <3>1. hub'.topics \in [WSClients -> SUBSET WSTopics]
      BY <2>2 DEF HubTyped
    <3>2. hub'.channels \in [WSTopics -> SUBSET WSClients]
      BY <2>2 DEF HubTyped
    <3>3. hub'.accepted = hub.accepted
      BY <2>1 DEF OnlyChanges, HubFields
    <3>. QED  BY <3>1, <3>2, <3>3 DEF HubTyped
  <2>4. \A d \in WSClients, u \in WSTopics :
          <<d, u>> # <<c, t>> => /\ d \in hub'.channels[u] <=> d \in hub.channels[u]
                                 /\ u \in hub'.topics[d] <=> u \in hub.topics[d]
    BY <2>2 DEF HubTyped
  <2>5. c \in hub'.channels[t] <=> t \in hub'.topics[c]
    BY <2>2 DEF HubTyped
  <2>6. c \notin hub.closed
    BY <2>1 DEF ClosedIsOutOfReach
  <2>7. EveryClientInPlace'
    BY <2>1, <2>4, <2>5, <2>6 DEF OnlyChanges, HubFields, EveryClientInPlace
  <2>8. ClosedIsOutOfReach'
    BY <2>1, <2>4, <2>6
       DEF OnlyChanges, HubFields, EveryClientInPlace, ClosedIsOutOfReach, HubTyped
  <2>. QED  BY <2>1, <2>3, <2>7, <2>8 DEF OnlyChanges
<1>10. ASSUME NEW c \in WSClients, ReadEnds(c)
       PROVE  HubInv'
  <2>1. /\ c \in hub.reading /\ OnlyChanges({"reading", "unregister", "open"})
        /\ hub'.reading = hub.reading \ {c} /\ hub'.unregister = hub.unregister \cup {c}
        /\ hub'.open = hub.open \ {c}
    BY <1>10 DEF ReadEnds, OnlyChanges, HubIsRecord, HubFields
  <2>2. HubTyped'
    BY <2>1 DEF OnlyChanges, HubFields, HubTyped
  <2>. QED
    BY <2>1, <2>2 DEF OnlyChanges, HubFields, EveryClientInPlace, ClosedIsOutOfReach
<1>11. CASE UNCHANGED hub
  BY <1>11 DEF HubIsRecord, HubTyped, EveryClientInPlace, ClosedIsOutOfReach
<1>. QED
  BY <1>2, <1>3, <1>4, <1>5, <1>6, <1>7, <1>8, <1>9, <1>10, <1>11 DEF HubNext

\* A client whose send channel is closed is out of reach of everything that
\* sends without asking, for any clients, topics and capacities, and whichever
\* of its registration and unregistration the loop handles first
\* (ws_hub.go:174-200).
THEOREM NobodySendsToClosed == HubSpec => []ClosedIsOutOfReach
<1>1. HubInv => ClosedIsOutOfReach
  BY DEF HubInv
<1>. QED  BY HubStarts, HubStep, <1>1, PTL DEF HubSpec

=============================================================================
