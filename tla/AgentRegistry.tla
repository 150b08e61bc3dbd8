---------------------------- MODULE AgentRegistry ----------------------------
(***************************************************************************)
(* The registry of connected agents (internal/opamp/agents.go) and the two *)
(* connection callbacks of the OpAMP server that use it, onMessage and     *)
(* onDisconnect (internal/opamp/server.go), with the agent's row in the    *)
(* application store that they keep up to date.                            *)
(*                                                                         *)
(* opamp-go runs one goroutine per connection: it reads a message, calls   *)
(* onMessage, and reads the next; when a read fails it calls onDisconnect  *)
(* and ends.  Callbacks of one connection are therefore sequential and     *)
(* those of two connections interleave wherever neither holds agents.mux   *)
(* or is inside one statement of the database.  Each action below is one   *)
(* such atomic section.                                                    *)
(*                                                                         *)
(* What onMessage does to the Agent object itself (grouping, UpdateStatus) *)
(* changes neither the registry nor the status column: AgentSession.tla    *)
(* models it.                                                              *)
(***************************************************************************)
EXTENDS Naturals, Sequences

CONSTANTS
    Agents,     \* instance ids
    Conns,      \* connections; a connection is never reused once closed
    NoConn,     \* "not in agentsById", and the link of an agent that never connected
    Healths,    \* the health reports an agent sends in this instance
    QueueCap,   \* bound: unread messages on one connection
    Overlap,    \* may an agent connect anew before its last connection is cleaned up?
    Crashes     \* may the server process die and restart?

ASSUME RegistryAssumption ==
    /\ NoConn \notin Conns \cup Agents
    /\ Healths \subseteq {"none", "healthy", "unhealthy"}
    /\ QueueCap \in Nat \ {0}
    /\ Overlap \in BOOLEAN
    /\ Crashes \in BOOLEAN

VARIABLES
    connections,  \* Agents.connections: the ids associated with a connection
    agentsById,   \* Agents.agentsById: the conn field of the registered object
    stored,       \* the status column of the agents table
    link,         \* the connection an agent used last (agent side)
    alive,        \* the connections whose agent end is open
    wire,         \* messages sent and not yet read, per connection
    pc,           \* where the goroutine of a connection is
    msg,          \* the message the goroutine of a connection is handling
    toMark        \* agentsToMarkOffline still to be marked by onDisconnect

registry == <<connections, agentsById>>
network  == <<link, alive, wire>>
vars     == <<registry, stored, network, pc, msg, toMark>>

Message   == [agent : Agents, health : Healths]
Connected == {"online", "error"}
Status    == Connected \cup {"offline", "absent"}

\* fresh: not accepted yet; reading: in the read loop; found, create, update:
\* inside onMessage; marking: inside onDisconnect; closed: the goroutine ended.
Handling == {"found", "create", "update"}
Serving  == {"reading", "marking"} \cup Handling
PC       == {"fresh", "closed"} \cup Serving

NoMessage == [agent |-> NoConn, health |-> "none"]

TypeOK ==
    /\ connections \in [Conns -> SUBSET Agents]
    /\ agentsById \in [Agents -> Conns \cup {NoConn}]
    /\ stored \in [Agents -> Status]
    /\ link \in [Agents -> Conns \cup {NoConn}]
    /\ alive \in SUBSET Conns
    /\ wire \in [Conns -> Seq(Message)]
    /\ pc \in [Conns -> PC]
    /\ msg \in [Conns -> Message \cup {NoMessage}]
    /\ toMark \in [Conns -> SUBSET Agents]
    \* a connection is handling a message exactly while it is inside onMessage
    /\ \A c \in Conns : msg[c] \in Message <=> pc[c] \in Handling

Init ==
    /\ connections = [c \in Conns |-> {}]
    /\ agentsById = [a \in Agents |-> NoConn]
    /\ stored = [a \in Agents |-> "absent"]
    /\ link = [a \in Agents |-> NoConn]
    /\ alive = {}
    /\ wire = [c \in Conns |-> <<>>]
    /\ pc = [c \in Conns |-> "fresh"]
    /\ msg = [c \in Conns |-> NoMessage]
    /\ toMark = [c \in Conns |-> {}]

------------------------------------------------------------------------------
(* The agents and the network. *)

\* OnConnecting accepts every connection.  An agent opens a new one, or joins
\* one that is open (connections maps a connection to a SET of ids), only after
\* it gave up its last one.  Without Overlap it also waits until the server has
\* finished onDisconnect for that one, which no agent can know.
Connect(a, c) ==
    /\ link[a] \notin alive
    /\ Overlap \/ link[a] = NoConn \/ (link[a] \in Conns /\ pc[link[a]] = "closed")
    /\ \/ /\ pc[c] = "fresh"
          /\ pc' = [pc EXCEPT ![c] = "reading"]
          /\ alive' = alive \cup {c}
       \/ /\ c \in alive
          /\ UNCHANGED <<pc, alive>>
    /\ link' = [link EXCEPT ![a] = c]
    /\ UNCHANGED <<registry, stored, wire, msg, toMark>>

\* An agent reports over its open connection (a status change or a heartbeat).
Report(a, h) ==
    /\ link[a] \in alive
    /\ Len(wire[link[a]]) < QueueCap
    /\ wire' = [wire EXCEPT ![link[a]] = Append(@, [agent |-> a, health |-> h])]
    /\ UNCHANGED <<registry, stored, link, alive, pc, msg, toMark>>

\* The agent end of a connection goes away; the server has not noticed yet and
\* may still read what was sent before.
Hangup(c) ==
    /\ c \in alive
    /\ alive' = alive \ {c}
    /\ UNCHANGED <<registry, stored, link, wire, pc, msg, toMark>>

------------------------------------------------------------------------------
(* onMessage *)

\* Mutants (definitions named Bug...) are the code with a plausible mistake; no
\* specification uses them, they show that a property notices the mistake.
BugFindOrCreateUnassociated(a, c) ==
    /\ agentsById' = [agentsById EXCEPT ![a] = IF @ = NoConn THEN c ELSE @]
    /\ UNCHANGED connections

BugFindOrCreateMoves(a, c) ==
    /\ agentsById' = [agentsById EXCEPT ![a] = c]
    /\ connections' = [connections EXCEPT ![c] = @ \cup {a}]

\* agents.mux is held: an id that is registered keeps its object, whatever
\* connection the message came in on; a new one is tied to this connection.
FindOrCreateAgent(a, c) ==
    IF agentsById[a] # NoConn
    THEN UNCHANGED registry
    ELSE /\ agentsById' = [agentsById EXCEPT ![a] = c]
         /\ connections' = [connections EXCEPT ![c] = @ \cup {a}]

\* The goroutine reads a message and looks its agent up.
Receive(c) ==
    /\ pc[c] = "reading"
    /\ wire[c] # <<>>
    /\ FindOrCreateAgent(Head(wire[c]).agent, c)
    /\ msg' = [msg EXCEPT ![c] = Head(wire[c])]
    /\ wire' = [wire EXCEPT ![c] = Tail(@)]
    /\ pc' = [pc EXCEPT ![c] = "found"]
    /\ UNCHANGED <<stored, link, alive, toMark>>

BugLookupIgnoresRow(c) ==
    /\ pc[c] = "found"
    /\ pc' = [pc EXCEPT ![c] = "create"]
    /\ UNCHANGED <<registry, stored, network, msg, toMark>>

\* persistAgent reads the agent's row before it decides to insert or to update.
LookupStored(c) ==
    /\ pc[c] = "found"
    /\ pc' = [pc EXCEPT ![c] = IF stored[msg[c].agent] = "absent"
                               THEN "create" ELSE "update"]
    /\ UNCHANGED <<registry, stored, network, msg, toMark>>

\* No health report counts as healthy.
determineAgentStatus(m) == IF m.health = "unhealthy" THEN "error" ELSE "online"

BugCreateKeepsMessage(c) ==
    /\ pc[c] = "create"
    /\ stored' = [stored EXCEPT ![msg[c].agent] = determineAgentStatus(msg[c])]
    /\ pc' = [pc EXCEPT ![c] = "reading"]
    /\ UNCHANGED <<registry, network, msg, toMark>>

\* The INSERT fails on the primary key when another connection has inserted the
\* row since: the error is logged and this message's status is not recorded.
CreateStored(c) ==
    /\ pc[c] = "create"
    /\ LET a == msg[c].agent
       IN stored' = [stored EXCEPT ![a] = IF @ = "absent"
                                          THEN determineAgentStatus(msg[c]) ELSE @]
    /\ pc' = [pc EXCEPT ![c] = "reading"]
    /\ msg' = [msg EXCEPT ![c] = NoMessage]
    /\ UNCHANGED <<registry, network, toMark>>

UpdateStored(c) ==
    /\ pc[c] = "update"
    /\ stored' = [stored EXCEPT ![msg[c].agent] = determineAgentStatus(msg[c])]
    /\ pc' = [pc EXCEPT ![c] = "reading"]
    /\ msg' = [msg EXCEPT ![c] = NoMessage]
    /\ UNCHANGED <<registry, network, toMark>>

------------------------------------------------------------------------------
(* onDisconnect *)

\* The read fails; unread messages are lost.  onDisconnect takes the ids of the
\* connection under agents.mux and releases it.
BeginDisconnect(c) ==
    /\ pc[c] = "reading"
    /\ c \notin alive
    /\ wire' = [wire EXCEPT ![c] = <<>>]
    /\ toMark' = [toMark EXCEPT ![c] = connections[c]]
    /\ pc' = [pc EXCEPT ![c] = "marking"]
    /\ UNCHANGED <<registry, stored, link, alive, msg>>

BugMarkOfflineAgain(c, a) ==
    /\ pc[c] = "marking"
    /\ a \in toMark[c]
    /\ stored' = [stored EXCEPT ![a] = "offline"]
    /\ UNCHANGED <<registry, network, pc, msg, toMark>>

\* One UPDATE per id, in map order.
MarkOffline(c, a) ==
    /\ pc[c] = "marking"
    /\ a \in toMark[c]
    /\ stored' = [stored EXCEPT ![a] = IF @ = "absent" THEN @ ELSE "offline"]
    /\ toMark' = [toMark EXCEPT ![c] = @ \ {a}]
    /\ UNCHANGED <<registry, network, pc, msg>>

BugRemoveKeepsAgents(c) ==
    /\ pc[c] = "marking"
    /\ toMark[c] = {}
    /\ connections' = [connections EXCEPT ![c] = {}]
    /\ pc' = [pc EXCEPT ![c] = "closed"]
    /\ UNCHANGED <<agentsById, stored, network, msg, toMark>>

BugRemoveBeforeMarking(c) ==
    /\ pc[c] = "marking"
    /\ agentsById' = [a \in Agents |-> IF a \in connections[c] THEN NoConn
                                       ELSE agentsById[a]]
    /\ connections' = [connections EXCEPT ![c] = {}]
    /\ toMark' = [toMark EXCEPT ![c] = {}]
    /\ pc' = [pc EXCEPT ![c] = "closed"]
    /\ UNCHANGED <<stored, network, msg>>

\* agents.mux is held: the connection and every id associated with it go.
RemoveConnection(c) ==
    /\ pc[c] = "marking"
    /\ toMark[c] = {}
    /\ agentsById' = [a \in Agents |-> IF a \in connections[c] THEN NoConn
                                       ELSE agentsById[a]]
    /\ connections' = [connections EXCEPT ![c] = {}]
    /\ pc' = [pc EXCEPT ![c] = "closed"]
    /\ UNCHANGED <<stored, network, msg, toMark>>

------------------------------------------------------------------------------
\* The server process dies with all its memory and comes back with an empty
\* registry; the database keeps what it held, nothing resets it at start.
Restart ==
    /\ Crashes
    /\ \E c \in Conns : pc[c] \in Serving
    /\ connections' = [c \in Conns |-> {}]
    /\ agentsById' = [a \in Agents |-> NoConn]
    /\ alive' = {}
    /\ wire' = [c \in Conns |-> <<>>]
    /\ pc' = [c \in Conns |-> IF pc[c] = "fresh" THEN "fresh" ELSE "closed"]
    /\ msg' = [c \in Conns |-> NoMessage]
    /\ toMark' = [c \in Conns |-> {}]
    /\ UNCHANGED <<stored, link>>

onMessage(c)    == Receive(c) \/ LookupStored(c) \/ CreateStored(c) \/ UpdateStored(c)
onDisconnect(c) == \/ BeginDisconnect(c)
                   \/ \E a \in Agents : MarkOffline(c, a)
                   \/ RemoveConnection(c)

Next ==
    \/ \E a \in Agents, c \in Conns : Connect(a, c)
    \/ \E a \in Agents, h \in Healths : Report(a, h)
    \/ \E c \in Conns : Hangup(c)
    \/ \E c \in Conns : onMessage(c)
    \/ \E c \in Conns : onDisconnect(c)
    \/ Restart

Spec == Init /\ [][Next]_vars

\* Goroutines run: a message that was sent is read and handled, a connection
\* whose peer is gone fails its read.  Connected agents send heartbeats, and each of
\* those that share a connection gets its turn.  No one has to connect, hang up or crash.
Fairness ==
    /\ \A c \in Conns : WF_vars(onMessage(c)) /\ WF_vars(onDisconnect(c))
    /\ \A a \in Agents : SF_vars(\E h \in Healths : Report(a, h))

FairSpec == Spec /\ Fairness

------------------------------------------------------------------------------
(* Properties of the registry, whatever the network does. *)

\* agentsById and connections describe one relation: an id is in the set of a
\* connection exactly when its object was made for that connection.  Two maps,
\* four operations and two goroutines could let them drift apart, and then
\* RemoveConnection leaves dead agents behind or removes live ones.
RegistryConsistent ==
    \A a \in Agents, c \in Conns : a \in connections[c] <=> agentsById[a] = c

\* No agent stays registered with a connection whose goroutine has ended: no
\* later callback would ever remove it.
NoClosedRegistration == \A a \in Agents : agentsById[a] # NoConn => pc[agentsById[a]] \in Serving

\* onDisconnect reads the ids, releases agents.mux and marks them one by one: in
\* the meantime none of them becomes the agent of another connection.
MarkingOwnAgents ==
    \A c \in Conns : \A a \in toMark[c] : pc[c] = "marking" /\ agentsById[a] = c

\* The end of one connection never takes away an agent that is registered with a
\* connection still open.
NoEviction ==
    [][\A a \in Agents : agentsById[a] \in alive \cap alive'
                            => agentsById'[a] = agentsById[a]]_vars

\* While an agent stays registered it stays with the same connection, so an
\* object that was found keeps the connection it had.
NeverReassigned ==
    [][\A a \in Agents : agentsById'[a] \in {agentsById[a], NoConn} \/ agentsById[a] = NoConn]_vars

\* The registry implements its abstract specification.
Abstract == INSTANCE Presence WITH None <- NoConn, reg <- agentsById,
                                   ended <- {c \in Conns : pc[c] = "closed"}
Implements == Abstract!PresenceSpec

------------------------------------------------------------------------------
(* Properties of the stored status and of routing. *)

\* If an agent never opens a connection before its last one is cleaned up, an
\* agent that the store shows as connected is registered: commands reach it, and
\* some onDisconnect is still to come that marks it offline.
OnlineIsRegistered == \A a \in Agents : stored[a] \in Connected => agentsById[a] # NoConn

\* ... and it is registered with the connection it really uses.
RoutesToLink == \A a \in Agents : agentsById[a] # NoConn => agentsById[a] = link[a]

\* server.go:145, "Mark all agents on this connection as offline in storage":
\* when every connection has ended, no agent is stored as connected.
NobodyOnlineWhenAllClosed ==
    (\A c \in Conns : pc[c] \notin Serving) => \A a \in Agents : stored[a] \notin Connected

\* The registry repairs itself: an agent that stays on one connection and keeps
\* reporting is eventually registered with that connection, for good, although
\* FindOrCreateAgent keeps a stale registration for as long as it exists.
RegistrationHeals ==
    \A a \in Agents, c \in Conns :
        <>[](link[a] = c /\ c \in alive) => <>[](agentsById[a] = c)

\* So does the store: whatever late onDisconnect or restart came between, it
\* ends up showing such an agent as connected, for good.
StatusHeals ==
    \A a \in Agents : <>[](link[a] \in alive) => <>[](stored[a] \in Connected)

\* The server never stops cleaning up: a connection whose agent end is gone has
\* its goroutine end.
ClosesEveryConnection == \A c \in Conns : (pc[c] \in Serving /\ c \notin alive) ~> pc[c] = "closed"
==============================================================================
