------------------------------- MODULE Presence -------------------------------
(***************************************************************************)
(* What the registry of agents promises its readers (FindAgent, the config *)
(* sender, the gauge), with neither goroutines nor locks: every agent is   *)
(* registered with at most one connection; it is registered with a         *)
(* connection that has not ended; and the end of a connection takes away,  *)
(* at one instant, exactly the agents registered with it.                  *)
(*                                                                         *)
(* AgentRegistry implements it: see Implements there and the theorem       *)
(* RegistryImplementsPresence.                                             *)
(***************************************************************************)
CONSTANTS Agents, Conns, None

VARIABLES
    reg,   \* the connection every agent is registered with, or None
    ended  \* connections that are gone

presence == <<reg, ended>>

PresenceInit ==
    /\ reg = [a \in Agents |-> None]
    /\ ended = {}

Register(a, c) ==
    /\ c \notin ended
    /\ reg[a] = None
    /\ reg' = [reg EXCEPT ![a] = c]
    /\ UNCHANGED ended

End(c) ==
    /\ c \notin ended
    /\ reg' = [a \in Agents |-> IF reg[a] = c THEN None ELSE reg[a]]
    /\ ended' = ended \cup {c}

\* The server restarts: nobody is registered, some connections have ended.
Reset ==
    /\ reg' = [a \in Agents |-> None]
    /\ ended' \in SUBSET Conns
    /\ ended \subseteq ended'

PresenceNext ==
    \/ \E a \in Agents, c \in Conns : Register(a, c)
    \/ \E c \in Conns : End(c)
    \/ Reset

PresenceSpec == PresenceInit /\ [][PresenceNext]_presence
===============================================================================
