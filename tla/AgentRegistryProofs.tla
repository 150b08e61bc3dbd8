------------------------- MODULE AgentRegistryProofs -------------------------
(***************************************************************************)
(* Theorems about AgentRegistry, for any sets of agents and connections,   *)
(* any queue bound, with or without Overlap and Crashes.                   *)
(***************************************************************************)
EXTENDS AgentRegistry, TLAPS

\* What the head of a connection's queue is.
LEMMA HeadIsMessage ==
    ASSUME TypeOK, NEW c \in Conns, wire[c] # <<>>
    PROVE  /\ Head(wire[c]) \in Message
           /\ Tail(wire[c]) \in Seq(Message)
BY DEF TypeOK

LEMMA NoMessageIsNone == NoMessage \notin Message
BY RegistryAssumption DEF NoMessage, Message

LEMMA InitType == Init => TypeOK
BY RegistryAssumption, NoMessageIsNone DEF Init, TypeOK, PC, Handling, Serving, Status

LEMMA NextType == TypeOK /\ [Next]_vars => TypeOK'
<1> SUFFICES ASSUME TypeOK, [Next]_vars
             PROVE  TypeOK'
    OBVIOUS
<1> USE RegistryAssumption, NoMessageIsNone
    DEF TypeOK, PC, Handling, Serving, Status, Connected, registry, network
<1>1. ASSUME NEW a \in Agents, NEW c \in Conns, Connect(a, c)
      PROVE  TypeOK'
    BY <1>1 DEF Connect
<1>2. ASSUME NEW a \in Agents, NEW h \in Healths, Report(a, h)
      PROVE  TypeOK'
    <2>1. link[a] \in Conns /\ [agent |-> a, health |-> h] \in Message
        BY <1>2 DEF Report, Message
    <2>2. Append(wire[link[a]], [agent |-> a, health |-> h]) \in Seq(Message)
        BY <2>1
    <2> QED
        BY <1>2, <2>1, <2>2 DEF Report
<1>3. ASSUME NEW c \in Conns, Hangup(c)
      PROVE  TypeOK'
    BY <1>3 DEF Hangup
<1>4. ASSUME NEW c \in Conns, Receive(c)
      PROVE  TypeOK'
    <2>1. Head(wire[c]) \in Message /\ Tail(wire[c]) \in Seq(Message)
        BY <1>4, HeadIsMessage DEF Receive
    <2>2. /\ connections' \in [Conns -> SUBSET Agents]
          /\ agentsById' \in [Agents -> Conns \cup {NoConn}]
        <3>1. Head(wire[c]).agent \in Agents
            BY <2>1 DEF Message
        <3>2. CASE agentsById[Head(wire[c]).agent] # NoConn
            BY <1>4, <3>2 DEF Receive, FindOrCreateAgent
        <3>3. CASE agentsById[Head(wire[c]).agent] = NoConn
            <4> DEFINE a == Head(wire[c]).agent
            <4>1. /\ agentsById' = [agentsById EXCEPT ![a] = c]
                  /\ connections' = [connections EXCEPT ![c] = @ \cup {a}]
                BY <1>4, <3>3 DEF Receive, FindOrCreateAgent
            <4> HIDE DEF a
            <4> QED
                BY <3>1, <4>1 DEF a
        <3> QED
            BY <3>2, <3>3
    <2> QED
        BY <1>4, <2>1, <2>2 DEF Receive
<1>5. ASSUME NEW c \in Conns, LookupStored(c)
      PROVE  TypeOK'
    BY <1>5 DEF LookupStored
<1>6. ASSUME NEW c \in Conns, CreateStored(c)
      PROVE  TypeOK'
    BY <1>6 DEF CreateStored, determineAgentStatus
<1>7. ASSUME NEW c \in Conns, UpdateStored(c)
      PROVE  TypeOK'
    BY <1>7 DEF UpdateStored, determineAgentStatus
<1>8. ASSUME NEW c \in Conns, BeginDisconnect(c)
      PROVE  TypeOK'
    BY <1>8 DEF BeginDisconnect
<1>9. ASSUME NEW c \in Conns, NEW a \in Agents, MarkOffline(c, a)
      PROVE  TypeOK'
    BY <1>9 DEF MarkOffline
<1>10. ASSUME NEW c \in Conns, RemoveConnection(c)
       PROVE  TypeOK'
    BY <1>10 DEF RemoveConnection
<1>11. CASE Restart
    BY <1>11 DEF Restart
<1>12. CASE UNCHANGED vars
    BY <1>12 DEF vars
<1> QED
    BY <1>1, <1>2, <1>3, <1>4, <1>5, <1>6, <1>7, <1>8, <1>9, <1>10, <1>11, <1>12
    DEF Next, onMessage, onDisconnect

\* Every variable of the registry keeps its type, and a connection holds a
\* message exactly while its goroutine is inside onMessage.
THEOREM TypeCorrect == Spec => []TypeOK
BY InitType, NextType, PTL DEF Spec

------------------------------------------------------------------------------
(* The registry is consistent. *)

\* The inductive invariant behind the registry's properties.  Its last part is
\* about the network: the server does not start onDisconnect for a connection
\* whose agent end is open.
RegistryInv ==
    /\ TypeOK
    /\ RegistryConsistent
    /\ NoClosedRegistration
    /\ MarkingOwnAgents
    /\ \A c \in alive : pc[c] \in {"reading"} \cup Handling

LEMMA InitRegistryInv == Init => RegistryInv
BY InitType, RegistryAssumption
DEF Init, RegistryInv, RegistryConsistent, NoClosedRegistration, MarkingOwnAgents

LEMMA NextRegistryInv == RegistryInv /\ [Next]_vars => RegistryInv'
<1> SUFFICES ASSUME RegistryInv, [Next]_vars
             PROVE  RegistryInv'
    OBVIOUS
<1>0. TypeOK'
    BY NextType DEF RegistryInv
<1> USE RegistryAssumption DEF RegistryInv, RegistryConsistent, NoClosedRegistration,
        MarkingOwnAgents, TypeOK, Serving, Handling, registry, network
<1>1. ASSUME NEW a \in Agents, NEW c \in Conns, Connect(a, c)
      PROVE  RegistryInv'
    <2>1. CASE pc[c] = "fresh" /\ pc' = [pc EXCEPT ![c] = "reading"] /\ alive' = alive \cup {c}
        <3>1. /\ RegistryConsistent'
              /\ NoClosedRegistration'
              /\ MarkingOwnAgents'
            BY <1>0, <1>1, <2>1 DEF Connect
        <3>2. \A d \in alive' : pc'[d] \in {"reading"} \cup Handling
            BY <1>0, <1>1, <2>1 DEF Connect
        <3> QED
            BY <1>0, <3>1, <3>2
    <2>2. CASE UNCHANGED <<pc, alive>>
        BY <1>0, <1>1, <2>2 DEF Connect
    <2> QED
        BY <1>1, <2>1, <2>2 DEF Connect
<1>2. ASSUME NEW a \in Agents, NEW h \in Healths, Report(a, h)
      PROVE  RegistryInv'
    BY <1>0, <1>2 DEF Report
<1>3. ASSUME NEW c \in Conns, Hangup(c)
      PROVE  RegistryInv'
    BY <1>0, <1>3 DEF Hangup
<1>4. ASSUME NEW c \in Conns, Receive(c)
      PROVE  RegistryInv'
    <2>1. Head(wire[c]).agent \in Agents
        BY <1>4, HeadIsMessage DEF Receive, Message
    <2>2. CASE agentsById[Head(wire[c]).agent] # NoConn
        BY <1>0, <1>4, <2>1, <2>2 DEF Receive, FindOrCreateAgent
    <2>3. CASE agentsById[Head(wire[c]).agent] = NoConn
        <3> DEFINE a == Head(wire[c]).agent
        <3>1. /\ agentsById' = [agentsById EXCEPT ![a] = c]
              /\ connections' = [connections EXCEPT ![c] = @ \cup {a}]
              /\ pc[c] = "reading" /\ pc' = [pc EXCEPT ![c] = "found"]
              /\ UNCHANGED <<alive, toMark>>
            BY <1>4, <2>3 DEF Receive, FindOrCreateAgent
        <3> HIDE DEF a
        <3>2. a \in Agents /\ agentsById[a] = NoConn
            BY <2>1, <2>3 DEF a
        <3>3. RegistryConsistent'
            BY <3>1, <3>2
        <3>4. NoClosedRegistration'
            BY <3>1, <3>2
        <3>5. MarkingOwnAgents'
            BY <3>1, <3>2
        <3>6. \A d \in alive' : pc'[d] \in {"reading"} \cup Handling
            BY <3>1
        <3> QED
            BY <1>0, <3>3, <3>4, <3>5, <3>6
    <2> QED
        BY <2>2, <2>3
<1>5. ASSUME NEW c \in Conns, LookupStored(c)
      PROVE  RegistryInv'
    BY <1>0, <1>5 DEF LookupStored
<1>6. ASSUME NEW c \in Conns, CreateStored(c)
      PROVE  RegistryInv'
    BY <1>0, <1>6 DEF CreateStored
<1>7. ASSUME NEW c \in Conns, UpdateStored(c)
      PROVE  RegistryInv'
    BY <1>0, <1>7 DEF UpdateStored
<1>8. ASSUME NEW c \in Conns, BeginDisconnect(c)
      PROVE  RegistryInv'
    BY <1>0, <1>8 DEF BeginDisconnect
<1>9. ASSUME NEW c \in Conns, NEW a \in Agents, MarkOffline(c, a)
      PROVE  RegistryInv'
    BY <1>0, <1>9 DEF MarkOffline
<1>10. ASSUME NEW c \in Conns, RemoveConnection(c)
       PROVE  RegistryInv'
    BY <1>0, <1>10 DEF RemoveConnection
<1>11. CASE Restart
    BY <1>0, <1>11 DEF Restart
<1>12. CASE UNCHANGED vars
    BY <1>0, <1>12 DEF vars
<1> QED
    BY <1>1, <1>2, <1>3, <1>4, <1>5, <1>6, <1>7, <1>8, <1>9, <1>10, <1>11, <1>12
    DEF Next, onMessage, onDisconnect

LEMMA RegistryInvariant == Spec => []RegistryInv
BY InitRegistryInv, NextRegistryInv, PTL DEF Spec

\* agentsById and connections stay two views of one relation.
THEOREM Consistent == Spec => []RegistryConsistent
BY RegistryInvariant, PTL DEF RegistryInv

\* No agent stays registered with a connection whose goroutine ended.
THEOREM NothingLeaks == Spec => []NoClosedRegistration
BY RegistryInvariant, PTL DEF RegistryInv

\* onDisconnect marks only agents that are still its own.
THEOREM MarksOwnAgents == Spec => []MarkingOwnAgents
BY RegistryInvariant, PTL DEF RegistryInv

------------------------------------------------------------------------------
(* What a step may not do to a registration. *)

\* One step changes a registration in one of three ways only.
LEMMA RegistrationSteps ==
    ASSUME RegistryInv, [Next]_vars
    PROVE  \/ UNCHANGED agentsById
           \/ \E a \in Agents, c \in Conns :
                 /\ pc[c] = "reading" /\ pc' = [pc EXCEPT ![c] = "found"]
                 /\ agentsById[a] = NoConn
                 /\ agentsById' = [agentsById EXCEPT ![a] = c]
           \/ \E c \in Conns :
                 /\ pc[c] = "marking" /\ pc' = [pc EXCEPT ![c] = "closed"]
                 /\ agentsById' = [a \in Agents |-> IF agentsById[a] = c THEN NoConn
                                                    ELSE agentsById[a]]
           \/ Restart
<1> USE DEF registry, network
<1>1. CASE \E c \in Conns : Receive(c)
    <2>1. PICK c \in Conns : Receive(c)
        BY <1>1
    <2>2. Head(wire[c]).agent \in Agents
        BY <2>1, HeadIsMessage DEF Receive, Message, RegistryInv
    <2>3. CASE agentsById[Head(wire[c]).agent] # NoConn
        BY <2>1, <2>3 DEF Receive, FindOrCreateAgent
    <2>4. CASE agentsById[Head(wire[c]).agent] = NoConn
        <3>1. /\ agentsById' = [agentsById EXCEPT ![Head(wire[c]).agent] = c]
              /\ pc[c] = "reading" /\ pc' = [pc EXCEPT ![c] = "found"]
            BY <2>1, <2>4 DEF Receive, FindOrCreateAgent
        <3> QED
            BY <2>2, <2>4, <3>1
    <2> QED
        BY <2>3, <2>4
<1>2. CASE \E c \in Conns : RemoveConnection(c)
    <2>1. PICK c \in Conns : RemoveConnection(c)
        BY <1>2
    <2>2. \A a \in Agents : a \in connections[c] <=> agentsById[a] = c
        BY DEF RegistryInv, RegistryConsistent
    <2>3. agentsById' = [a \in Agents |-> IF agentsById[a] = c THEN NoConn
                                          ELSE agentsById[a]]
        BY <2>1, <2>2 DEF RemoveConnection
    <2> QED
        BY <2>1, <2>3 DEF RemoveConnection
<1>3. CASE /\ ~Restart
           /\ ~\E c \in Conns : Receive(c)
           /\ ~\E c \in Conns : RemoveConnection(c)
    <2>1. UNCHANGED agentsById
        BY <1>3 DEF Next, onMessage, onDisconnect, Connect, Report, Hangup, LookupStored,
           CreateStored, UpdateStored, BeginDisconnect, MarkOffline, vars
    <2> QED
        BY <2>1
<1> QED
    BY <1>1, <1>2, <1>3

\* No onDisconnect takes away an agent of a connection that is still open.
THEOREM NoneEvicted == Spec => NoEviction
<1>1. RegistryInv /\ [Next]_vars =>
         [\A a \in Agents : agentsById[a] \in alive \cap alive' => agentsById'[a] = agentsById[a]]_vars
    <2> SUFFICES ASSUME RegistryInv, [Next]_vars, NEW a \in Agents,
                        agentsById[a] \in alive \cap alive'
                 PROVE  agentsById'[a] = agentsById[a]
        OBVIOUS
    <2>1. ~Restart
        BY DEF Restart
    <2>2. \A c \in Conns : pc[c] = "marking" => agentsById[a] # c
        BY DEF RegistryInv, Handling
    <2>3. agentsById[a] # NoConn /\ agentsById \in [Agents -> Conns \cup {NoConn}]
        BY RegistryAssumption DEF RegistryInv, TypeOK
    <2> QED
        BY <2>1, <2>2, <2>3, RegistrationSteps
<1> QED
    BY RegistryInvariant, <1>1, PTL DEF NoEviction, Spec

\* A registration ends before the agent is registered with another connection.
THEOREM NoneReassigned == Spec => NeverReassigned
<1>1. RegistryInv /\ [Next]_vars =>
         [\A a \in Agents : agentsById'[a] \in {agentsById[a], NoConn} \/ agentsById[a] = NoConn]_vars
    <2> SUFFICES ASSUME RegistryInv, [Next]_vars, NEW a \in Agents
                 PROVE  agentsById'[a] \in {agentsById[a], NoConn} \/ agentsById[a] = NoConn
        OBVIOUS
    <2>1. agentsById \in [Agents -> Conns \cup {NoConn}]
        BY DEF RegistryInv, TypeOK
    <2> QED
        BY <2>1, RegistrationSteps DEF Restart
<1> QED
    BY RegistryInvariant, <1>1, PTL DEF NeverReassigned, Spec

------------------------------------------------------------------------------
(* Refinement. *)

\* The registry, with its two maps and its goroutines, implements Presence.
THEOREM RegistryImplementsPresence == Spec => Implements
<1> DEFINE ended == {c \in Conns : pc[c] = "closed"}
<1>1. Init => Abstract!PresenceInit
    BY DEF Init, Abstract!PresenceInit
<1>2. RegistryInv /\ [Next]_vars => [Abstract!PresenceNext]_(Abstract!presence)
    <2> SUFFICES ASSUME RegistryInv, [Next]_vars
                 PROVE  Abstract!PresenceNext \/ UNCHANGED <<agentsById, ended>>
        BY DEF Abstract!presence
    <2>0. pc \in [Conns -> PC] /\ agentsById \in [Agents -> Conns \cup {NoConn}]
        BY DEF RegistryInv, TypeOK
    <2>1. CASE Restart
        <3>1. Abstract!Reset
            BY <2>0, <2>1 DEF Restart, Abstract!Reset
        <3> QED
            BY <3>1 DEF Abstract!PresenceNext
    <2>2. ASSUME NEW a \in Agents, NEW c \in Conns,
                 pc[c] = "reading", pc' = [pc EXCEPT ![c] = "found"],
                 agentsById[a] = NoConn,
                 agentsById' = [agentsById EXCEPT ![a] = c]
          PROVE  Abstract!PresenceNext
        <3>1. ended' = ended /\ c \notin ended
            BY <2>0, <2>2
        <3>2. Abstract!Register(a, c)
            BY <2>2, <3>1 DEF Abstract!Register
        <3> QED
            BY <3>2 DEF Abstract!PresenceNext
    <2>3. ASSUME NEW c \in Conns,
                 pc[c] = "marking", pc' = [pc EXCEPT ![c] = "closed"],
                 agentsById' = [a \in Agents |-> IF agentsById[a] = c THEN NoConn
                                                 ELSE agentsById[a]]
          PROVE  Abstract!PresenceNext
        <3>1. ended' = ended \cup {c} /\ c \notin ended
            BY <2>0, <2>3
        <3>2. Abstract!End(c)
            BY <2>3, <3>1 DEF Abstract!End
        <3> QED
            BY <3>2 DEF Abstract!PresenceNext
    <2>4. CASE UNCHANGED agentsById /\ ~Restart
        <3>1. CASE \E c \in Conns : RemoveConnection(c)
            <4>1. PICK c \in Conns : RemoveConnection(c)
                BY <3>1
            <4>2. ended' = ended \cup {c} /\ c \notin ended
                BY <2>0, <4>1 DEF RemoveConnection
            <4>3. agentsById' = [a \in Agents |-> IF agentsById[a] = c THEN NoConn
                                                  ELSE agentsById[a]]
                BY <2>0, <4>1 DEF RemoveConnection, RegistryInv, RegistryConsistent
            <4>4. Abstract!End(c)
                BY <4>2, <4>3 DEF Abstract!End
            <4> QED
                BY <4>4 DEF Abstract!PresenceNext
        <3>2. CASE ~\E c \in Conns : RemoveConnection(c)
            <4>1. \A c \in Conns : pc'[c] = "closed" <=> pc[c] = "closed"
                BY <2>0, <2>4, <3>2 DEF Next, onMessage, onDisconnect, Connect, Report, Hangup,
                   Receive, LookupStored, CreateStored, UpdateStored, BeginDisconnect,
                   MarkOffline, vars
            <4> QED
                BY <2>4, <4>1
        <3> QED
            BY <3>1, <3>2
    <2> QED
        BY <2>1, <2>2, <2>3, <2>4, RegistrationSteps
<1> QED
    BY RegistryInvariant, <1>1, <1>2, PTL DEF Implements, Abstract!PresenceSpec, Spec

------------------------------------------------------------------------------
(* When agents wait for the end of their last connection. *)

\* The inductive invariant of agents that never overlap two connections:
\* everything the server holds about an agent in memory (its unread messages, the
\* message being handled, its registration) is about the connection it uses.
SequentialInv ==
    /\ \A c \in Conns : pc[c] \in {"marking", "closed"} => wire[c] = <<>>
    /\ \A c \in Conns : \A i \in 1..Len(wire[c]) : link[wire[c][i].agent] = c
    /\ \A c \in Conns : pc[c] \in Handling
                           => link[msg[c].agent] = c /\ agentsById[msg[c].agent] = c
    /\ RoutesToLink

\* ... and, if the server never dies, what the database holds is too: an agent
\* stored as connected still has its onDisconnect to come, or to be marked by it.
OnlineInv ==
    \A a \in Agents : stored[a] \in Connected
        => /\ agentsById[a] # NoConn
           /\ pc[agentsById[a]] = "marking" => a \in toMark[agentsById[a]]

LEMMA InitSequentialInv == Init => SequentialInv /\ OnlineInv
BY DEF Init, SequentialInv, OnlineInv, RoutesToLink, Handling, Connected

LEMMA NextSequentialInv ==
    ASSUME ~Overlap, RegistryInv, SequentialInv, [Next]_vars
    PROVE  SequentialInv'
<1>0. TypeOK /\ TypeOK'
    BY NextType DEF RegistryInv
<1> USE RegistryAssumption DEF SequentialInv, RoutesToLink, registry, network, Handling
<1>1. ASSUME NEW a \in Agents, NEW c \in Conns, Connect(a, c)
      PROVE  SequentialInv'
    <2>1. \A d \in Conns : wire[d] = wire'[d] /\ (pc'[d] = pc[d] \/ (d = c /\ pc[d] = "fresh" /\ pc'[d] = "reading"))
        BY <1>0, <1>1 DEF Connect, TypeOK
    <2>2. link[a] \notin Conns \/ pc[link[a]] = "closed"
        BY <1>0, <1>1 DEF Connect, TypeOK
    <2>3. \A d \in Conns : \A i \in 1..Len(wire[d]) :
             wire[d][i].agent \in Agents /\ wire[d][i].agent # a
        <3> SUFFICES ASSUME NEW d \in Conns, NEW i \in 1..Len(wire[d])
                     PROVE  wire[d][i].agent \in Agents /\ wire[d][i].agent # a
            OBVIOUS
        <3>1. wire[d] \in Seq(Message)
            BY <1>0 DEF TypeOK
        <3>2. wire[d][i] \in Message
            BY <3>1
        <3>3. wire[d] # <<>>
            BY <3>1
        <3>4. link[wire[d][i].agent] = d /\ pc[d] # "closed"
            BY <3>3
        <3> QED
            BY <2>2, <3>2, <3>4 DEF Message
    <2>4. \A d \in Conns : pc[d] \in Handling => msg[d].agent \in Agents /\ msg[d].agent # a
        BY <1>0, <2>2 DEF TypeOK, Message
    <2>5. agentsById[a] = NoConn
        <3>1. agentsById[a] \in Conns \cup {NoConn}
            BY <1>0 DEF TypeOK
        <3>2. agentsById[a] # NoConn => pc[agentsById[a]] # "closed"
            BY DEF RegistryInv, NoClosedRegistration, Serving
        <3>3. agentsById[a] # NoConn => agentsById[a] = link[a]
            OBVIOUS
        <3> QED
            BY <2>2, <3>1, <3>2, <3>3
    <2>6. \A b \in Agents : b # a => link'[b] = link[b]
        BY <1>0, <1>1 DEF Connect, TypeOK
    <2>7. UNCHANGED <<agentsById, msg, wire>>
        BY <1>1 DEF Connect
    <2> QED
        BY <1>0, <2>1, <2>3, <2>4, <2>5, <2>6, <2>7 DEF TypeOK
<1>2. ASSUME NEW a \in Agents, NEW h \in Healths, Report(a, h)
      PROVE  SequentialInv'
    <2> DEFINE m == [agent |-> a, health |-> h]
    <2>1. /\ link[a] \in Conns /\ wire[link[a]] \in Seq(Message) /\ m \in Message
          /\ wire' = [wire EXCEPT ![link[a]] = Append(@, m)]
          /\ pc[link[a]] \in {"reading"} \cup Handling
          /\ UNCHANGED <<agentsById, link, pc, msg>>
        BY <1>0, <1>2 DEF Report, TypeOK, Message, RegistryInv
    <2>2. \A i \in 1..Len(Append(wire[link[a]], m)) :
             link[Append(wire[link[a]], m)[i].agent] = link[a]
        <3>1. m.agent = a
            OBVIOUS
        <3> HIDE DEF m
        <3> QED
            BY <2>1, <3>1
    <2> HIDE DEF m
    <2>3. wire \in [Conns -> Seq(Message)]
        BY <1>0 DEF TypeOK
    <2>4. \A d \in Conns : wire'[d] = IF d = link[a] THEN Append(wire[d], m) ELSE wire[d]
        BY <2>1, <2>3
    <2> QED
        BY <2>1, <2>2, <2>4
<1>3. ASSUME NEW c \in Conns, Hangup(c)
      PROVE  SequentialInv'
    BY <1>3 DEF Hangup
<1>4. ASSUME NEW c \in Conns, Receive(c)
      PROVE  SequentialInv'
    <2> DEFINE a == Head(wire[c]).agent
    <2>1. a \in Agents /\ link[a] = c
        BY <1>0, <1>4, HeadIsMessage DEF Receive, Message, TypeOK
    <2>2. \A i \in 1..Len(Tail(wire[c])) : link[Tail(wire[c])[i].agent] = c
        <3>1. wire[c] \in Seq(Message) /\ wire[c] # <<>>
            BY <1>0, <1>4 DEF Receive, TypeOK
        <3>2. \A i \in 1..Len(Tail(wire[c])) :
                 i + 1 \in 1..Len(wire[c]) /\ Tail(wire[c])[i] = wire[c][i + 1]
            BY <3>1
        <3> QED
            BY <3>2
    <2>3. agentsById'[a] = c
        <3>1. CASE agentsById[a] = NoConn
            BY <1>0, <1>4, <2>1, <3>1 DEF Receive, FindOrCreateAgent, TypeOK
        <3>2. CASE agentsById[a] # NoConn
            BY <1>0, <1>4, <2>1, <3>2 DEF Receive, FindOrCreateAgent, TypeOK
        <3> QED
            BY <3>1, <3>2
    <2>4. \A b \in Agents : b # a => agentsById'[b] = agentsById[b]
        BY <1>0, <1>4 DEF Receive, FindOrCreateAgent, TypeOK
    <2>5. /\ pc[c] = "reading" /\ pc' = [pc EXCEPT ![c] = "found"]
          /\ wire' = [wire EXCEPT ![c] = Tail(@)]
          /\ msg' = [msg EXCEPT ![c] = Head(wire[c])]
          /\ link' = link
        BY <1>4 DEF Receive
    <2>6. RoutesToLink'
        BY <2>1, <2>3, <2>4, <2>5
    <2>7. \A d \in Conns : pc'[d] \in {"marking", "closed"} => wire'[d] = <<>>
        BY <1>0, <2>5 DEF TypeOK
    <2>8. \A d \in Conns : \A i \in 1..Len(wire'[d]) : link'[wire'[d][i].agent] = d
        BY <1>0, <2>2, <2>5 DEF TypeOK
    <2>9. \A d \in Conns : pc'[d] \in Handling
              => link'[msg'[d].agent] = d /\ agentsById'[msg'[d].agent] = d
        <3> SUFFICES ASSUME NEW d \in Conns, pc'[d] \in Handling
                     PROVE  link'[msg'[d].agent] = d /\ agentsById'[msg'[d].agent] = d
            OBVIOUS
        <3>1. CASE d = c
            BY <1>0, <2>1, <2>3, <2>5, <3>1 DEF TypeOK
        <3>2. CASE d # c
            <4>1. pc[d] \in Handling /\ msg'[d] = msg[d] /\ msg[d].agent \in Agents
                BY <1>0, <2>5, <3>2 DEF TypeOK, Message
            <4>2. link[msg[d].agent] = d /\ agentsById[msg[d].agent] = d
                BY <4>1
            <4> HIDE DEF a
            <4> QED
                BY <2>1, <2>4, <2>5, <3>2, <4>1, <4>2
        <3> QED
            BY <3>1, <3>2
    <2> QED
        BY <2>6, <2>7, <2>8, <2>9
<1>5. ASSUME NEW c \in Conns, LookupStored(c) \/ CreateStored(c) \/ UpdateStored(c)
      PROVE  SequentialInv'
    <2>1. /\ UNCHANGED <<agentsById, wire, link>>
          /\ \A d \in Conns : d # c => pc'[d] = pc[d] /\ msg'[d] = msg[d]
          /\ pc[c] \in Handling
          /\ \/ msg'[c] = msg[c] /\ pc'[c] \in Handling
             \/ pc'[c] = "reading"
        BY <1>0, <1>5 DEF LookupStored, CreateStored, UpdateStored, TypeOK
    <2> QED
        BY <2>1
<1>6. ASSUME NEW c \in Conns, BeginDisconnect(c)
      PROVE  SequentialInv'
    <2>1. /\ UNCHANGED <<agentsById, link, msg>>
          /\ \A d \in Conns : d # c => pc'[d] = pc[d] /\ wire'[d] = wire[d]
          /\ pc'[c] = "marking" /\ wire'[c] = <<>>
        BY <1>0, <1>6 DEF BeginDisconnect, TypeOK
    <2> QED
        BY <2>1
<1>7. ASSUME NEW c \in Conns, NEW a \in Agents, MarkOffline(c, a)
      PROVE  SequentialInv'
    BY <1>7 DEF MarkOffline
<1>8. ASSUME NEW c \in Conns, RemoveConnection(c)
      PROVE  SequentialInv'
    <2>1. /\ UNCHANGED <<link, msg, wire>>
          /\ \A d \in Conns : d # c => pc'[d] = pc[d]
          /\ pc[c] = "marking" /\ pc'[c] = "closed"
          /\ \A b \in Agents : agentsById'[b] = IF agentsById[b] = c THEN NoConn ELSE agentsById[b]
        BY <1>0, <1>8 DEF RemoveConnection, TypeOK, RegistryInv, RegistryConsistent
    <2>2. \A d \in Conns : pc[d] \in Handling => msg[d].agent \in Agents
        BY <1>0 DEF TypeOK, Message
    <2> QED
        BY <2>1, <2>2
<1>9. CASE Restart
    <2>1. \A c \in Conns : wire'[c] = <<>> /\ pc'[c] \notin Handling
        BY <1>0, <1>9 DEF Restart, TypeOK
    <2>2. \A a \in Agents : agentsById'[a] = NoConn
        BY <1>9 DEF Restart
    <2> QED
        BY <2>1, <2>2
<1>10. CASE UNCHANGED vars
    BY <1>10 DEF vars
<1> QED
    BY <1>1, <1>2, <1>3, <1>4, <1>5, <1>6, <1>7, <1>8, <1>9, <1>10
    DEF Next, onMessage, onDisconnect

\* Without overlapping connections, the connection the server would use for an
\* agent is the one the agent uses.
THEOREM CommandsRoutedToLink == ASSUME ~Overlap PROVE Spec => []RoutesToLink
<1>1. RegistryInv /\ SequentialInv /\ [Next]_vars => SequentialInv'
    BY NextSequentialInv
<1>2. SequentialInv => RoutesToLink
    BY DEF SequentialInv
<1> QED
    BY InitSequentialInv, RegistryInvariant, <1>1, <1>2, PTL DEF Spec

LEMMA NextOnlineInv ==
    ASSUME ~Overlap, ~Crashes, RegistryInv, SequentialInv, OnlineInv, [Next]_vars
    PROVE  OnlineInv'
<1>0. TypeOK /\ TypeOK'
    BY NextType DEF RegistryInv
<1> USE RegistryAssumption DEF OnlineInv, registry, network, Handling
<1>1. ASSUME NEW b \in Agents, NEW c \in Conns, Connect(b, c)
      PROVE  OnlineInv'
    BY <1>0, <1>1 DEF Connect, TypeOK, RegistryInv, MarkingOwnAgents, NoClosedRegistration, Serving
<1>2. CASE \/ \E b \in Agents, h \in Healths : Report(b, h)
           \/ \E c \in Conns : Hangup(c)
           \/ UNCHANGED vars
    BY <1>2 DEF Report, Hangup, vars
<1>3. ASSUME NEW c \in Conns, Receive(c)
      PROVE  OnlineInv'
    <2>1. Head(wire[c]).agent \in Agents
        BY <1>0, <1>3, HeadIsMessage DEF Receive, Message
    <2>2. \A a \in Agents : agentsById[a] # NoConn => agentsById'[a] = agentsById[a]
        BY <1>0, <1>3, <2>1 DEF Receive, FindOrCreateAgent, TypeOK
    <2>3. /\ \A d \in Conns : pc'[d] = "marking" => pc[d] = "marking"
          /\ UNCHANGED <<stored, toMark>>
        BY <1>0, <1>3 DEF Receive, TypeOK
    <2> QED
        BY <1>0, <2>2, <2>3 DEF TypeOK
<1>4. ASSUME NEW c \in Conns, LookupStored(c)
      PROVE  OnlineInv'
    BY <1>0, <1>4 DEF LookupStored, TypeOK
<1>5. ASSUME NEW c \in Conns, CreateStored(c) \/ UpdateStored(c)
      PROVE  OnlineInv'
    <2>1. agentsById[msg[c].agent] = c /\ msg[c].agent \in Agents
        BY <1>0, <1>5 DEF CreateStored, UpdateStored, SequentialInv, TypeOK, Message
    <2>2. /\ UNCHANGED <<agentsById, toMark>>
          /\ pc' = [pc EXCEPT ![c] = "reading"]
          /\ \A a \in Agents : a # msg[c].agent => stored'[a] = stored[a]
        BY <1>0, <1>5 DEF CreateStored, UpdateStored, TypeOK
    <2>3. pc'[c] = "reading" /\ \A d \in Conns : d # c => pc'[d] = pc[d]
        BY <1>0, <2>2 DEF TypeOK
    <2> SUFFICES ASSUME NEW a \in Agents, stored'[a] \in Connected
                 PROVE  /\ agentsById[a] # NoConn
                        /\ pc'[agentsById[a]] = "marking" => a \in toMark[agentsById[a]]
        BY <2>2
    <2>4. CASE a = msg[c].agent
        BY <2>1, <2>3, <2>4
    <2>5. CASE a # msg[c].agent
        <3>1. stored[a] \in Connected
            BY <2>2, <2>5
        <3>2. agentsById[a] \in Conns
            BY <1>0, <3>1 DEF TypeOK
        <3> QED
            BY <2>3, <3>1, <3>2
    <2> QED
        BY <2>4, <2>5
<1>6. ASSUME NEW c \in Conns, BeginDisconnect(c)
      PROVE  OnlineInv'
    <2>1. /\ UNCHANGED <<agentsById, stored>>
          /\ \A d \in Conns : d # c => pc'[d] = pc[d] /\ toMark'[d] = toMark[d]
          /\ toMark'[c] = connections[c]
        BY <1>0, <1>6 DEF BeginDisconnect, TypeOK
    <2>2. \A a \in Agents : agentsById[a] = c => a \in connections[c]
        BY DEF RegistryInv, RegistryConsistent
    <2> SUFFICES ASSUME NEW a \in Agents, stored[a] \in Connected
                 PROVE  /\ agentsById[a] # NoConn
                        /\ pc'[agentsById[a]] = "marking" => a \in toMark'[agentsById[a]]
        BY <2>1
    <2>3. agentsById[a] \in Conns
        BY <1>0 DEF TypeOK
    <2> QED
        BY <2>1, <2>2, <2>3
<1>7. ASSUME NEW c \in Conns, NEW b \in Agents, MarkOffline(c, b)
      PROVE  OnlineInv'
    <2>1. /\ UNCHANGED <<agentsById, pc>>
          /\ stored'[b] \notin Connected
          /\ \A a \in Agents : a # b => stored'[a] = stored[a]
          /\ \A d \in Conns : \A a \in Agents : a # b => (a \in toMark'[d] <=> a \in toMark[d])
        BY <1>0, <1>7 DEF MarkOffline, TypeOK, Connected, Status
    <2> SUFFICES ASSUME NEW a \in Agents, stored'[a] \in Connected
                 PROVE  /\ agentsById[a] # NoConn
                        /\ pc[agentsById[a]] = "marking" => a \in toMark'[agentsById[a]]
        BY <2>1
    <2>2. a # b /\ stored[a] \in Connected
        BY <2>1
    <2>3. agentsById[a] \in Conns
        BY <1>0, <2>2 DEF TypeOK
    <2> QED
        BY <2>1, <2>2, <2>3
<1>8. ASSUME NEW c \in Conns, RemoveConnection(c)
      PROVE  OnlineInv'
    <2>1. /\ UNCHANGED <<stored, toMark>>
          /\ pc' = [pc EXCEPT ![c] = "closed"]
          /\ pc[c] = "marking" /\ toMark[c] = {}
          /\ \A a \in Agents : agentsById'[a] = IF agentsById[a] = c THEN NoConn ELSE agentsById[a]
        BY <1>0, <1>8 DEF RemoveConnection, TypeOK, RegistryInv, RegistryConsistent
    <2> SUFFICES ASSUME NEW a \in Agents, stored[a] \in Connected
                 PROVE  /\ agentsById'[a] # NoConn
                        /\ pc'[agentsById'[a]] = "marking" => a \in toMark[agentsById'[a]]
        BY <2>1
    <2>2. agentsById[a] \in Conns /\ agentsById[a] # c
        BY <1>0, <2>1 DEF TypeOK
    <2>3. agentsById'[a] = agentsById[a] /\ pc'[agentsById[a]] = pc[agentsById[a]]
        BY <1>0, <2>1, <2>2 DEF TypeOK
    <2> QED
        BY <2>2, <2>3
<1>9. ~Restart
    BY DEF Restart
<1> QED
    BY <1>1, <1>2, <1>3, <1>4, <1>5, <1>6, <1>7, <1>8, <1>9 DEF Next, onMessage, onDisconnect

\* Without overlapping connections and crashes, an agent the store shows as
\* connected is registered: the status in the database never outlives the agent's
\* place in the registry.
THEOREM OnlineImpliesRegistered ==
    ASSUME ~Overlap, ~Crashes PROVE Spec => []OnlineIsRegistered
<1>1. RegistryInv /\ SequentialInv /\ OnlineInv /\ [Next]_vars => SequentialInv' /\ OnlineInv'
    BY NextSequentialInv, NextOnlineInv
<1>2. OnlineInv => OnlineIsRegistered
    BY DEF OnlineInv, OnlineIsRegistered
<1> QED
    BY InitSequentialInv, RegistryInvariant, <1>1, <1>2, PTL DEF Spec
==============================================================================
