------------------------------- MODULE WSHub -------------------------------
(***************************************************************************)
(* The WebSocket hub of the dashboard (internal/dashboard/ws_hub.go): its  *)
(* event loop, the register, unregister and broadcast channels that feed   *)
(* it, and the two pumps of every client.  A message waiting for a client  *)
(* is only counted; what it says is left out.  The loop's select takes     *)
(* from any channel that has something, so a client's unregistration may   *)
(* be handled before its registration.                                     *)
(***************************************************************************)
EXTENDS Naturals, Sequences, FiniteSets

CONSTANTS
  WSClients,     \* the connections the upgrade handler accepts, each once
  WSTopics,      \* the channels a client can subscribe to
  EveryClient,   \* the empty channel of BroadcastAll
  SendCap,       \* capacity of client.send (256 in the code)
  HubCap         \* capacity of the hub's channels (64 and 256 in the code)

ASSUME HubAssumption ==
  EveryClient \notin WSTopics /\ SendCap \in Nat \ {0} /\ HubCap \in Nat \ {0}

VARIABLE hub

HubInit ==
  hub = [loop |-> "new", done |-> FALSE,
         clients |-> {}, channels |-> [t \in WSTopics |-> {}],
         register |-> {}, unregister |-> {}, broadcast |-> <<>>,
         accepted |-> {}, open |-> {}, reading |-> {}, writing |-> {},
         topics |-> [c \in WSClients |-> {}],
         send |-> [c \in WSClients |-> 0], closed |-> {}]

-----------------------------------------------------------------------------
(* Run, and what handleWS does with an upgraded connection: the client is  *)
(* queued for registration, then its pumps start.                          *)
RunHub ==
  /\ hub.loop = "new"
  /\ hub' = [hub EXCEPT !.loop = "running"]

Accept(c) ==
  /\ c \notin hub.accepted /\ Cardinality(hub.register) < HubCap
  /\ hub' = [hub EXCEPT !.accepted = @ \cup {c}, !.register = @ \cup {c},
               !.open = @ \cup {c}, !.reading = @ \cup {c}, !.writing = @ \cup {c}]

TakeRegister(c) ==
  /\ hub.loop = "running" /\ c \in hub.register
  /\ hub' = [hub EXCEPT !.register = @ \ {c}, !.clients = @ \cup {c}]

(* removeClient: the client leaves the topics it knows itself in; one the  *)
(* hub does not know is left as it is.                                     *)
TakeUnregister(c) ==
  /\ hub.loop = "running" /\ c \in hub.unregister
  /\ hub' = IF c \in hub.clients
            THEN [hub EXCEPT !.unregister = @ \ {c}, !.clients = @ \ {c},
                    !.channels = [t \in WSTopics |-> IF t \in hub.topics[c] THEN @[t] \ {c} ELSE @[t]],
                    !.closed = @ \cup {c}]
            ELSE [hub EXCEPT !.unregister = @ \ {c}]

Addressed(t) == IF t = EveryClient THEN hub.clients ELSE hub.channels[t]

(* sendRawToClient: a full buffer drops the message.                       *)
Deliver(S) ==
  [c \in WSClients |->
     IF c \in S /\ hub.send[c] < SendCap THEN hub.send[c] + 1 ELSE hub.send[c]]

TakeBroadcast ==
  /\ hub.loop = "running" /\ hub.broadcast # <<>>
  /\ hub' = [hub EXCEPT !.broadcast = Tail(@), !.send = Deliver(Addressed(Head(hub.broadcast)))]

LoopEnds ==
  /\ hub.loop = "running" /\ hub.done
  /\ hub' = [hub EXCEPT !.loop = "ended"]

StopHub ==
  /\ ~hub.done
  /\ hub' = [hub EXCEPT !.done = TRUE]

(* BroadcastToChannel and BroadcastAll, dropped when the channel is full.  *)
BroadcastTo(t) ==
  /\ Len(hub.broadcast) < HubCap
  /\ hub' = [hub EXCEPT !.broadcast = Append(@, t)]

-----------------------------------------------------------------------------
(* What the read pump does with a message of the peer, which it may have   *)
(* read before the connection was closed.                                  *)
SubscribeUnlisted(c, t) ==
  /\ c \in hub.reading
  /\ hub' = [hub EXCEPT !.channels[t] = @ \cup {c}]

Subscribe(c, t) ==
  /\ c \in hub.reading
  /\ hub' = [hub EXCEPT !.topics[c] = @ \cup {t}, !.channels[t] = @ \cup {c}]

Unsubscribe(c, t) ==
  /\ c \in hub.reading
  /\ hub' = [hub EXCEPT !.topics[c] = @ \ {t}, !.channels[t] = @ \ {c}]

(* The pong, sent under the client's mutex and not the hub's.              *)
Ping(c) ==
  /\ c \in hub.reading
  /\ hub.send[c] < SendCap
  /\ hub' = [hub EXCEPT !.send[c] = @ + 1]

(* A read that fails: the pump queues its client for removal, which may    *)
(* block, and closes the connection.                                       *)
ReadEnds(c) ==
  /\ c \in hub.reading /\ Cardinality(hub.unregister) < HubCap
  /\ hub' = [hub EXCEPT !.reading = @ \ {c}, !.unregister = @ \cup {c}, !.open = @ \ {c}]

(* The write pump takes a message, fails on a broken connection, or finds  *)
(* its channel closed and empty.                                           *)
Write(c) ==
  /\ c \in hub.writing /\ c \in hub.open /\ hub.send[c] > 0
  /\ hub' = [hub EXCEPT !.send[c] = @ - 1]

WriteEnds(c) ==
  /\ c \in hub.writing
  /\ hub' = [hub EXCEPT !.writing = @ \ {c}, !.open = @ \ {c},
               !.send[c] = IF @ > 0 THEN @ - 1 ELSE @]

HubNext ==
  \/ RunHub
  \/ TakeBroadcast
  \/ LoopEnds
  \/ StopHub
  \/ \E t \in WSTopics \cup {EveryClient} : BroadcastTo(t)
  \/ \E c \in WSClients :
       \/ Accept(c) \/ TakeRegister(c) \/ TakeUnregister(c)
       \/ \E t \in WSTopics : Subscribe(c, t) \/ Unsubscribe(c, t)
       \/ Ping(c) \/ ReadEnds(c) \/ Write(c) \/ WriteEnds(c)

HubSpec == HubInit /\ [][HubNext]_hub

-----------------------------------------------------------------------------
(* Once its send channel is closed a client is out of reach of everything  *)
(* that sends without checking: it is in no topic and not in the hub, is   *)
(* not about to come back, and its read pump, which answers pings, has     *)
(* ended (removeClient's close against sendRawToClient and the pong).      *)
ClosedIsOutOfReach ==
  \A c \in hub.closed :
    /\ c \notin hub.clients \cup hub.register \cup hub.unregister \cup hub.reading
    /\ \A t \in WSTopics : c \notin hub.channels[t]

(* "Unregister removes a client from the hub."  It does not when the loop  *)
(* handles it before the registration.                                     *)
UnregisterRemoves ==
  \A c \in hub.clients :
    c \in hub.accepted => c \in hub.reading \cup hub.unregister
=============================================================================
