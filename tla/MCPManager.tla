----------------------------- MODULE MCPManager -----------------------------
(***************************************************************************)
(* The MCP manager (internal/ares_mcp), for one server: connections are    *)
(* opened by Start, by a reload of the configuration and by the activation *)
(* of a skill; the server may announce at any time that its tools changed; *)
(* tools are registered by name in a registry that the builtins share.     *)
(* Critical sections of the manager's lock are steps; dialing, listing and *)
(* closing happen outside it.  A server answers, fails or stays silent.    *)
(***************************************************************************)
EXTENDS Naturals

CONSTANTS
  Tools,        \* tool names the server may offer
  Builtin,      \* the ones the program has of its own
  MaxConnects,  \* bound: connections
  NoClient

ASSUME MCPAssumption == Builtin \subseteq Tools /\ MaxConnects \in Nat

Clients == 1..MaxConnects
OwnTool == 0    \* stands for the program's own registrations

VARIABLES
  client,     \* MCPClient: not there, open, about to be closed, closing, closed
  defs,       \* MCPClient.tools
  names,      \* managedClient.tools, what unregisterTools will remove
  connect,    \* where connectWithTransport stands for each client
  untried,    \* the tools its registerTools has still to register
  stale,      \* the client it replaced
  managed,    \* MCPManager.clients
  registry,   \* which client, or OwnTool, each tool name is bound to
  refresh,    \* where each client's notification goroutine stands
  target      \* the client its RefreshTools found

mcp == <<client, defs, names, connect, untried, stale, managed, registry, refresh, target>>

MCPInit ==
  /\ client = [c \in Clients |-> "none"]
  /\ defs = [c \in Clients |-> {}] /\ names = [c \in Clients |-> {}]
  /\ connect = [c \in Clients |-> "idle"] /\ untried = [c \in Clients |-> {}]
  /\ stale = [c \in Clients |-> NoClient]
  /\ managed = NoClient
  /\ registry = [t \in Tools |-> IF t \in Builtin THEN OwnTool ELSE NoClient]
  /\ refresh = [c \in Clients |-> "idle"] /\ target = [c \in Clients |-> NoClient]

-----------------------------------------------------------------------------
\* registerTools: names that are taken are skipped, whoever has them.  It gives
\* up at the first tool whose schema NewMCPTool cannot convert; ts are the ones
\* it came to.  RefreshTools runs it with the manager's lock held.
Free(c) == {t \in defs[c] : registry[t] = NoClient}
RegistryGains(c, ts) ==
  registry' = [t \in Tools |-> IF t \in ts \cap Free(c) THEN c ELSE registry[t]]

\* unregisterTools: by name, whoever has it now.
RegistryDrops(c) ==
  /\ registry' = [t \in Tools |-> IF t \in names[c] THEN NoClient ELSE registry[t]]
  /\ names' = [names EXCEPT ![c] = {}]

-----------------------------------------------------------------------------
(* ConnectServer. *)

Connects(c, from, to) == connect[c] = from /\ connect' = [connect EXCEPT ![c] = to]

\* Handshake and first ListTools; a failed one leaves nothing behind.
Dial(c) ==
  /\ client[c] = "none" /\ \A d \in 1..(c - 1) : client[d] # "none"
  /\ client' = [client EXCEPT ![c] = "open"]
  /\ \E offered \in SUBSET Tools : defs' = [defs EXCEPT ![c] = offered]
  /\ Connects(c, "idle", "dialed")
  /\ UNCHANGED <<names, untried, stale, managed, registry, refresh, target>>

\* registerTools for a client the manager does not know yet: beside its lock, so
\* two connects take turns tool by tool.  The list of tools is copied first.
RegisterBegins(c) ==
  /\ Connects(c, "dialed", "registering")
  /\ untried' = [untried EXCEPT ![c] = defs[c]]
  /\ UNCHANGED <<client, defs, names, stale, managed, registry, refresh, target>>

RegisterTool(c) ==
  /\ connect[c] = "registering"
  /\ \E t \in untried[c] :
       /\ untried' = [untried EXCEPT ![c] = @ \ {t}]
       /\ IF registry[t] = NoClient
          THEN /\ registry' = [registry EXCEPT ![t] = c]
               /\ names' = [names EXCEPT ![c] = @ \cup {t}]
          ELSE UNCHANGED <<registry, names>>
  /\ UNCHANGED <<client, defs, connect, stale, managed, refresh, target>>

\* A tool cannot be made: the client is closed, and with it go the names of the
\* tools that were registered before.
RegisterFails(c) ==
  /\ untried[c] # {} /\ Connects(c, "registering", "idle")
  /\ client' = [client EXCEPT ![c] = "leaving"]
  /\ untried' = [untried EXCEPT ![c] = {}] /\ names' = [names EXCEPT ![c] = {}]
  /\ UNCHANGED <<defs, stale, managed, registry, refresh, target>>

Swap(c) ==
  /\ untried[c] = {} /\ Connects(c, "registering", "swapped")
  /\ stale' = [stale EXCEPT ![c] = managed]
  /\ managed' = c
  /\ UNCHANGED <<client, defs, names, untried, registry, refresh, target>>

\* A connect that forgets the client it replaced.
ForgetStale(c) ==
  /\ Connects(c, "swapped", "idle")
  /\ stale' = [stale EXCEPT ![c] = NoClient]
  /\ UNCHANGED <<client, defs, names, untried, managed, registry, refresh, target>>

\* Close is called for the client that was replaced; its tools keep their names.
CloseStale(c) ==
  /\ Connects(c, "swapped", "idle")
  /\ client' = [d \in Clients |-> IF d = stale[c] THEN "leaving" ELSE client[d]]
  /\ stale' = [stale EXCEPT ![c] = NoClient]
  /\ UNCHANGED <<defs, names, untried, managed, registry, refresh, target>>

\* DisconnectServer, and Stop for this server.
Disconnect ==
  /\ managed # NoClient
  /\ RegistryDrops(managed)
  /\ client' = [client EXCEPT ![managed] = "leaving"]
  /\ managed' = NoClient
  /\ UNCHANGED <<defs, connect, untried, stale, refresh, target>>

\* MCPClient.Close: not connected from here on, then it waits for the client's
\* own goroutines.
CloseBegins(c) ==
  /\ client[c] = "leaving"
  /\ client' = [client EXCEPT ![c] = "closing"]
  /\ UNCHANGED <<defs, names, connect, untried, stale, managed, registry, refresh, target>>

CloseEnds(c) ==
  /\ client[c] = "closing" /\ refresh[c] = "idle"
  /\ client' = [client EXCEPT ![c] = "closed"]
  /\ UNCHANGED <<defs, names, connect, untried, stale, managed, registry, refresh, target>>

-----------------------------------------------------------------------------
(* A tools/listChanged notification, in a goroutine of the client it came to. *)

Turns(c, from, to) == refresh[c] = from /\ refresh' = [refresh EXCEPT ![c] = to]

Notified(c) ==
  /\ client[c] \in {"open", "leaving"}
  /\ Turns(c, "idle", "notified")
  /\ UNCHANGED <<client, defs, names, connect, untried, stale, managed, registry, target>>

\* ListTools on d, by the goroutine of c.
Lists(c, d, from, to) ==
  /\ client[d] \in {"open", "leaving"}
  /\ Turns(c, from, to)
  /\ \E offered \in SUBSET Tools : defs' = [defs EXCEPT ![d] = offered]
  /\ UNCHANGED <<client, names, connect, untried, stale, managed, registry, target>>

ListFails(c, from, to) ==
  /\ Turns(c, from, to)
  /\ UNCHANGED <<client, defs, names, connect, untried, stale, managed, registry, target>>

\* RefreshTools: it is the managed client that is refreshed.
RefreshBegins(c) ==
  /\ IF managed = NoClient
     THEN Turns(c, "changed", "idle") /\ UNCHANGED <<names, registry, target>>
     ELSE /\ Turns(c, "changed", "unregistered")
          /\ target' = [target EXCEPT ![c] = managed]
          /\ RegistryDrops(managed)
  /\ UNCHANGED <<client, defs, connect, untried, stale, managed>>

\* Whether the client is still managed is not asked.
RefreshEnds(c) ==
  /\ Turns(c, "listed", "idle")
  /\ RegistryGains(target[c], Tools)
  /\ names' = [names EXCEPT ![target[c]] = Free(target[c])]
  /\ target' = [target EXCEPT ![c] = NoClient]
  /\ UNCHANGED <<client, defs, connect, untried, stale, managed>>

\* The names are not kept: of the old tools, which a failed listing restores, or
\* of the new ones when one of them cannot be made.
RefreshRestores(c) ==
  /\ \/ Turns(c, "failed", "idle") /\ RegistryGains(target[c], Tools)
     \/ /\ Turns(c, "failed", "idle") \/ Turns(c, "listed", "idle")
        /\ \E t \in defs[target[c]], ts \in SUBSET Tools :
             RegistryGains(target[c], ts \ {t})
  /\ target' = [target EXCEPT ![c] = NoClient]
  /\ UNCHANGED <<client, defs, names, connect, untried, stale, managed>>

RefreshStep(c) ==
  \/ Lists(c, c, "notified", "changed") \/ ListFails(c, "notified", "idle")
  \/ RefreshBegins(c)
  \/ target[c] # NoClient /\ Lists(c, target[c], "unregistered", "listed")
  \/ ListFails(c, "unregistered", "failed")
  \/ RefreshEnds(c) \/ RefreshRestores(c)

MCPNext ==
  \/ Disconnect
  \/ \E c \in Clients :
       \/ Dial(c) \/ RegisterBegins(c) \/ RegisterTool(c) \/ RegisterFails(c)
       \/ Swap(c) \/ CloseStale(c)
       \/ CloseBegins(c) \/ CloseEnds(c)
       \/ Notified(c) \/ RefreshStep(c)

MCPSpec == MCPInit /\ [][MCPNext]_mcp

-----------------------------------------------------------------------------
MCPTypeOK ==
  /\ client \in [Clients -> {"none", "open", "leaving", "closing", "closed"}]
  /\ defs \in [Clients -> SUBSET Tools] /\ names \in [Clients -> SUBSET Tools]
  /\ connect \in [Clients -> {"idle", "dialed", "registering", "swapped"}]
  /\ untried \in [Clients -> SUBSET Tools]
  /\ stale \in [Clients -> Clients \cup {NoClient}]
  /\ managed \in Clients \cup {NoClient}
  /\ registry \in [Tools -> Clients \cup {NoClient, OwnTool}]
  /\ refresh \in [Clients -> {"idle", "notified", "changed", "unregistered", "listed", "failed"}]
  /\ target \in [Clients -> Clients \cup {NoClient}]

\* An open connection is the managed one, or somebody is about to manage it or
\* to close it: overlapping connects and disconnects orphan no subprocess and
\* no receive loop (manager.go:228-232).
NoClientIsLost ==
  \A c \in Clients : client[c] = "open" =>
    \/ managed = c \/ connect[c] \in {"dialed", "registering"}
    \/ \E d \in Clients : connect[d] = "swapped" /\ stale[d] = c

\* manager.go:117, "Stop disconnects all servers and unregisters their tools":
\* once the server is disconnected and nothing is under way, no tool is left.
NoServerNoTools ==
  /\ managed = NoClient
  /\ \A c \in Clients : connect[c] = "idle" /\ refresh[c] = "idle"
  => \A t \in Tools : registry[t] \in {NoClient, OwnTool}

=============================================================================
