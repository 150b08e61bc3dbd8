----------------------------- MODULE AgentSession -----------------------------
(***************************************************************************)
(* One agent and the Agent object the OpAMP server keeps for it            *)
(* (internal/opamp/agent_*.go): which remote config the server wants the   *)
(* agent to run, how it gets there, and what the API requests that push a  *)
(* config (config_sender.go, HandleSendConfigToAgent, HandleAssignConfig)  *)
(* are told.                                                               *)
(*                                                                         *)
(* Three kinds of processes share the object, under agent.mux: the         *)
(* goroutine of the agent's connection, which runs onMessage; the API      *)
(* requests (Senders); and, at a distance, the agent.  An action is one    *)
(* critical section, one database call or one message.                     *)
(*                                                                         *)
(* A config is a member of Configs, DefaultOTelConfig or the empty string. *)
(* Its SHA-256 hash is represented by the config: two configs are equal    *)
(* exactly when their hashes are.                                          *)
(***************************************************************************)
EXTENDS Naturals, Sequences

CONSTANTS
    Senders,   \* API requests that push a config, each one at most once
    Configs,   \* configs that users write
    Default,   \* DefaultOTelConfig
    Empty,     \* the config with an empty body
    NoHash,    \* LastRemoteConfigHash of an agent that never received a config
    None,      \* nil
    Accepts,   \* does the agent have the AcceptsRemoteConfig capability?
    Descrs,    \* ways this agent describes its group: none, by id, by name
    QueueCap,  \* bound: messages under way in one direction
    Events     \* bound: reconnections and changes of description

Contents == Configs \cup {Default, Empty}

ASSUME SessionAssumption ==
    /\ Default \notin Configs \cup {Empty, NoHash, None}
    /\ Empty \notin Configs \cup {NoHash, None}
    /\ NoHash \notin Configs \cup {None}
    /\ None \notin Configs
    /\ Accepts \in BOOLEAN
    /\ Descrs # {} /\ Descrs \subseteq {"none", "byId", "byName"}
    /\ QueueCap \in Nat \ {0}
    /\ Events \in Nat

VARIABLES
    \* the Agent object
    registered,  \* is it in agentsById?
    status,      \* Status: is there one, and the remote config hash and description last reported
    groupID,     \* GroupID: "nil", "" or "g"
    groupName,   \* GroupName: "nil", "" or "n"
    custom,      \* CustomInstanceConfig
    remote,      \* remoteConfig
    watchers,    \* statusUpdateWatchers
    stale,       \* was it made for an earlier connection than the agent's?
    \* the goroutine of the connection, inside onMessage
    pc, msg, picked, reply,
    \* the database
    row,         \* the agent's row: "absent", or the group_id it was created with
    groupRow,    \* is there a group row, named "n" and with id "g" (a user may have created it)?
    agentCfg,    \* the latest config of the agent
    groupCfg,    \* the latest config of the group
    \* the agent and the network
    up, down,
    descr,       \* the group attribute the agent carries
    lastHash,    \* hash of the remote config it received last
    owed,        \* what its next message will carry
    \* the API requests
    at, want, bound, notified,
    events       \* reconnections and redescriptions so far

object  == <<registered, status, groupID, groupName, custom, remote, watchers, stale>>
handler == <<pc, msg, picked, reply>>
store   == <<row, groupRow, agentCfg, groupCfg>>
agent   == <<descr, lastHash, owed>>
senders == <<at, want, bound, notified>>
vars    == <<object, handler, store, up, down, agent, senders, events>>

\* AgentToServer: the description and the remote config status it carries (None:
\* the field is nil), and whether it is a full report.
Report == [descr : Descrs \cup {None}, rc : Contents \cup {NoHash, None}, full : BOOLEAN]

\* ServerToAgent: the remote config it offers and the ReportFullState flag.
Reply == [offer : Contents \cup {None}, full : BOOLEAN]

\* Where a request stands; the last five are answers.
Answers == {"ok", "timeout", "unknownAgent", "rejected", "skipped"}
SenderPC == {"idle", "assigned", "stored", "found", "sending", "waiting"} \cup Answers

NoStatus == [has |-> FALSE, rc |-> None, descr |-> None]

StatusRecord == [has : BOOLEAN, rc : Contents \cup {NoHash, None}, descr : Descrs \cup {None}]
Debt         == [full : BOOLEAN, rc : BOOLEAN, descr : BOOLEAN]

ObjectType ==
    /\ registered \in BOOLEAN /\ stale \in BOOLEAN
    /\ status \in StatusRecord
    /\ groupID \in {"nil", "", "g"} /\ groupName \in {"nil", "", "n"}
    /\ custom \in Contents /\ remote \in Contents \cup {None}
    /\ watchers \in SUBSET Senders

HandlerType ==
    /\ pc \in {"idle", "pick", "install", "status", "finish"}
    /\ msg \in Report /\ picked \in Contents /\ reply \in Reply

StoreType ==
    /\ row \in {"absent", "nil", "", "g"} /\ groupRow \in BOOLEAN
    /\ agentCfg \in Configs \cup {None} /\ groupCfg \in Configs \cup {None}

AgentType ==
    /\ up \in Seq(Report) /\ down \in Seq(Reply)
    /\ descr \in Descrs /\ lastHash \in Contents \cup {NoHash}
    /\ owed \in Debt

SenderType ==
    /\ at \in [Senders -> SenderPC] /\ want \in [Senders -> Configs \cup {None}]
    /\ bound \in SUBSET Senders /\ notified \in SUBSET Senders
    /\ events \in 0..Events

TypeOK == ObjectType /\ HandlerType /\ StoreType /\ AgentType /\ SenderType

NoObject ==
    /\ registered = FALSE /\ stale = FALSE
    /\ status = NoStatus
    /\ groupID = "nil" /\ groupName = "nil"
    /\ custom = Empty /\ remote = None
    /\ watchers = {}

NoReport == [descr |-> None, rc |-> None, full |-> FALSE]
NoReply  == [offer |-> None, full |-> FALSE]
OweNothing == [full |-> FALSE, rc |-> FALSE, descr |-> FALSE]
OweAll     == [OweNothing EXCEPT !.full = TRUE]

Init ==
    /\ NoObject
    /\ pc = "idle" /\ msg = NoReport /\ picked = Empty /\ reply = NoReply
    /\ row = "absent" /\ groupRow \in BOOLEAN /\ agentCfg = None /\ groupCfg = None
    /\ up = <<>> /\ down = <<>>
    /\ descr \in Descrs /\ lastHash = NoHash /\ owed = OweAll
    /\ at = [s \in Senders |-> "idle"] /\ want = [s \in Senders |-> None]
    /\ bound = {} /\ notified = {}
    /\ events = 0

------------------------------------------------------------------------------
(* onMessage *)

hasRemoteConfigCapability == status.has /\ Accepts

groupIDOf(d)   == IF d = "byId" THEN "g" ELSE ""
groupNameOf(d) == IF d = "byName" THEN "n" ELSE ""

groupChanged(d) ==
    CASE groupID = "nil" /\ groupIDOf(d) # "" -> TRUE
      [] groupID # "nil" /\ groupIDOf(d) # groupID -> TRUE
      [] OTHER -> groupName # "nil" /\ groupNameOf(d) # groupName

isFirstConnect == ~status.has \/ custom = Empty

\* FindOrCreateAgent, and processAgentGrouping as far as its first database call:
\* the group the message names replaces the object's, and a config is chosen if
\* the group changed or none was chosen before, unless the agent is not known to
\* accept one.
TakeMessage ==
    /\ pc = "idle" /\ up # <<>>
    /\ up' = Tail(up)
    /\ msg' = Head(up)
    /\ registered' = TRUE
    /\ LET d == Head(up).descr
       IN IF d = None
          THEN pc' = "status" /\ UNCHANGED <<groupID, groupName>>
          ELSE /\ groupID' = groupIDOf(d)
               /\ groupName' = groupNameOf(d)
               /\ pc' = IF (groupChanged(d) \/ isFirstConnect) /\ hasRemoteConfigCapability
                        THEN "pick" ELSE "status"
    /\ UNCHANGED <<status, custom, remote, watchers, stale, picked, reply, store, down,
                   agent, senders, events>>

BugGetConfigNoDefault ==
    IF agentCfg # None THEN agentCfg ELSE groupCfg

\* Priority: agent's config, config of its group, default.
getConfigForAgent ==
    IF agentCfg # None THEN agentCfg
    ELSE IF groupID = "g" /\ groupCfg # None THEN groupCfg
    ELSE Default

\* The database is read outside agent.mux...
PickConfig ==
    /\ pc = "pick"
    /\ picked' = getConfigForAgent
    /\ pc' = "install"
    /\ UNCHANGED <<object, msg, reply, store, up, down, agent, senders, events>>

BugInstallWithoutRecalculating ==
    /\ pc = "install"
    /\ custom' = picked
    /\ picked' = Empty
    /\ pc' = "status"
    /\ UNCHANGED <<registered, status, groupID, groupName, remote, watchers, stale, msg, reply,
                   store, up, down, agent, senders, events>>

\* ... and what was read is installed under it.
InstallConfig ==
    /\ pc = "install"
    /\ custom' = picked /\ remote' = picked
    /\ picked' = Empty
    /\ pc' = "status"
    /\ UNCHANGED <<registered, status, groupID, groupName, watchers, stale, msg, reply, store,
                   up, down, agent, senders, events>>

\* What processStatusUpdate remembers of a message.  The first one is kept whole.
statusAfter(m) ==
    [has   |-> TRUE,
     rc    |-> IF m.rc # None THEN m.rc ELSE status.rc,
     descr |-> IF m.descr # None THEN m.descr ELSE status.descr]

BugDescrChangedOnlyIfSent(m) == m.descr # None /\ m.descr # status.descr

agentDescrChanged(m) == ~status.has \/ (m.descr # None /\ m.descr # status.descr)

BugHashNeverCompared(st, rem) == FALSE

\* Did the agent report the hash of another config than the one it should have?
hashDiffers(st, rem) == st.rc # None /\ st.rc # rem

BugFullStateUnlessSent(m) == ~m.full

\* The server does not know the agent and is told less than everything.
needsFullState(m) == ~status.has /\ ~m.full

\* UpdateStatus, one critical section.  A changed description recomputes the
\* remote config; it is offered if that changed it or if the agent last reported
\* the hash of another one.  A first message that is not a full report is answered
\* with ReportFullState.  Every watcher is notified, whatever the message says.
UpdateStatus ==
    /\ pc = "status"
    /\ status' = statusAfter(msg)
    /\ remote' = IF agentDescrChanged(msg) THEN custom ELSE remote
    /\ LET configChanged == agentDescrChanged(msg) /\ custom # remote
       IN reply' = [offer |-> IF configChanged \/ hashDiffers(status', remote')
                              THEN remote' ELSE None,
                    full  |-> needsFullState(msg)]
    /\ notified' = notified \cup watchers
    /\ watchers' = {}
    /\ msg' = NoReport
    /\ pc' = "finish"
    /\ UNCHANGED <<registered, groupID, groupName, custom, stale, picked, store, up, down,
                   agent, at, want, bound, events>>

\* persistAgent and the answer.  Only the first message of an agent creates its
\* row and finds or creates the group that it names; later ones leave both.
FinishMessage ==
    /\ pc = "finish"
    /\ Len(down) < QueueCap
    /\ IF row = "absent"
       THEN /\ groupID' = IF groupName = "n" THEN "g" ELSE groupID
            /\ groupRow' = (groupRow \/ groupName = "n")
            /\ row' = groupID'
       ELSE UNCHANGED <<groupID, groupRow, row>>
    /\ down' = Append(down, reply)
    /\ reply' = NoReply
    /\ pc' = "idle"
    /\ UNCHANGED <<registered, status, groupName, custom, remote, watchers, stale, msg, picked,
                   agentCfg, groupCfg, up, agent, senders, events>>

------------------------------------------------------------------------------
(* API requests *)

Answer(s, a) == at' = [at EXCEPT ![s] = a]

\* HandleSendConfigToAgent stores the config as the agent's latest version before
\* it delivers it; StoreConfigForAgent refuses an agent it does not know.
StoreForAgent(s, k) ==
    /\ at[s] = "idle"
    /\ IF row = "absent" \/ ~Accepts
       THEN Answer(s, "rejected") /\ UNCHANGED <<agentCfg, want>>
       ELSE /\ agentCfg' = k
            /\ want' = [want EXCEPT ![s] = k]
            /\ Answer(s, "stored")
    /\ UNCHANGED <<object, handler, row, groupRow, groupCfg, up, down, agent, bound, notified, events>>

\* HandleAssignConfig stores the config for the group, with the version after that
\* of the config it was copied from.  The latest config is the one with the highest
\* version, which may be another...
StoreForGroup(s, k) ==
    /\ at[s] = "idle"
    /\ groupRow
    /\ groupCfg' = k \/ (groupCfg # None /\ UNCHANGED groupCfg)
    /\ want' = [want EXCEPT ![s] = k]
    /\ Answer(s, "assigned")
    /\ UNCHANGED <<object, handler, row, groupRow, agentCfg, up, down, agent, bound, notified, events>>

\* ... and delivers it to the registered agents whose object is in the group.
SelectMember(s) ==
    /\ at[s] = "assigned"
    /\ Answer(s, IF registered /\ groupID = "g" THEN "stored" ELSE "skipped")
    /\ UNCHANGED <<object, handler, store, up, down, agent, want, bound, notified, events>>

\* SendConfigToAgent: FindAgent and the capability.
FindAgent(s) ==
    /\ at[s] = "stored"
    /\ IF ~registered THEN Answer(s, "unknownAgent") /\ UNCHANGED bound
       ELSE IF ~hasRemoteConfigCapability THEN Answer(s, "rejected") /\ UNCHANGED bound
       ELSE Answer(s, "found") /\ bound' = bound \cup {s}
    /\ UNCHANGED <<object, handler, store, up, down, agent, want, notified, events>>

BugSetWithoutWatching(s) ==
    /\ at[s] = "found"
    /\ IF s \in bound
       THEN /\ custom' = want[s]
            /\ remote' = want[s]
            /\ Answer(s, IF remote # want[s] THEN "sending" ELSE "ok")
       ELSE UNCHANGED <<custom, remote>> /\ (Answer(s, "sending") \/ Answer(s, "ok"))
    /\ UNCHANGED <<registered, status, groupID, groupName, watchers, stale, handler, store, up, down,
                   agent, want, bound, notified, events>>

\* SetCustomConfig, the critical section.  Without a change the request is
\* notified at once and nothing is sent.  A request whose object was replaced
\* since it found it (s \notin bound) does the same to the object it holds.
SetCustomConfig(s) ==
    /\ at[s] = "found"
    /\ IF s \in bound
       THEN /\ custom' = want[s]
            /\ remote' = want[s]
            /\ IF remote # want[s]
               THEN watchers' = watchers \cup {s} /\ Answer(s, "sending")
               ELSE UNCHANGED watchers /\ Answer(s, "ok")
       ELSE UNCHANGED <<custom, remote, watchers>> /\ (Answer(s, "sending") \/ Answer(s, "ok"))
    /\ UNCHANGED <<registered, status, groupID, groupName, stale, handler, store, up, down, agent,
                   want, bound, notified, events>>

\* SendToAgent, after the mutex is released: two requests may send in the other
\* order than they set.  A connection that is gone swallows the message.
SendToAgent(s) ==
    /\ at[s] = "sending"
    /\ IF s \in bound /\ ~stale
       THEN Len(down) < QueueCap /\ down' = Append(down, [offer |-> want[s], full |-> FALSE])
       ELSE UNCHANGED down
    /\ Answer(s, "waiting")
    /\ UNCHANGED <<object, handler, store, up, agent, want, bound, notified, events>>

WaitForStatus(s) ==
    /\ at[s] = "waiting" /\ s \in notified
    /\ Answer(s, "ok")
    /\ UNCHANGED <<object, handler, store, up, down, agent, want, bound, notified, events>>

\* Thirty seconds pass; select may choose this case although s was notified.
Timeout(s) ==
    /\ at[s] = "waiting"
    /\ Answer(s, "timeout")
    /\ UNCHANGED <<object, handler, store, up, down, agent, want, bound, notified, events>>

------------------------------------------------------------------------------
(* The agent and its connection (external: an OpAMP client over WebSocket, the *)
(* collector's extension or the supervisor of examples/).                      *)

\* A status message carries what changed since the last one, or everything; an
\* agent that owes nothing still sends heartbeats.
AgentSends ==
    /\ Len(up) < QueueCap
    /\ up' = Append(up, [descr |-> IF owed.full \/ owed.descr THEN descr ELSE None,
                         rc    |-> IF Accepts /\ (owed.full \/ owed.rc) THEN lastHash ELSE None,
                         full  |-> owed.full])
    /\ owed' = OweNothing
    /\ UNCHANGED <<object, handler, store, down, descr, lastHash, senders, events>>

\* The agent takes an offered config and owes a report, which names the hash of the
\* config whether it could apply it or not.
AgentReceives ==
    /\ down # <<>>
    /\ down' = Tail(down)
    /\ LET m == Head(down)
           taken == m.offer # None /\ Accepts
       IN /\ lastHash' = IF taken THEN m.offer ELSE lastHash
          /\ owed' = [owed EXCEPT !.rc = @ \/ taken, !.full = @ \/ m.full]
    /\ UNCHANGED <<object, handler, store, up, descr, senders, events>>

\* The agent's resource attributes change.
Redescribe(d) ==
    /\ d # descr /\ events < Events
    /\ descr' = d
    /\ owed' = [owed EXCEPT !.descr = TRUE]
    /\ events' = events + 1
    /\ UNCHANGED <<object, handler, store, up, down, lastHash, senders>>

ForgetObject ==
    /\ registered' = FALSE /\ stale' = FALSE
    /\ status' = NoStatus
    /\ groupID' = "nil" /\ groupName' = "nil"
    /\ custom' = Empty /\ remote' = None
    /\ watchers' = {}
    /\ bound' = {}

\* The connection breaks between two messages and the agent connects anew: what
\* was under way is lost and the agent owes a full report.  Either the server
\* cleans up before the new connection's first message and forgets the object, or
\* it does so later and the object keeps its dead connection meanwhile (see
\* AgentRegistry).
Reconnect ==
    /\ pc = "idle" /\ registered /\ events < Events
    /\ \/ ~stale /\ ForgetObject
       \/ /\ stale' = TRUE
          /\ UNCHANGED <<registered, status, groupID, groupName, custom, remote, watchers, bound>>
    /\ up' = <<>> /\ down' = <<>>
    /\ owed' = OweAll
    /\ events' = events + 1
    /\ UNCHANGED <<handler, store, descr, lastHash, at, want, notified>>

\* onDisconnect of the old connection, at last.
CloseStale ==
    /\ pc = "idle" /\ stale
    /\ ForgetObject
    /\ UNCHANGED <<handler, store, up, down, agent, at, want, notified, events>>

------------------------------------------------------------------------------
onMessage == TakeMessage \/ PickConfig \/ InstallConfig \/ UpdateStatus \/ FinishMessage

Deliver(s) == SelectMember(s) \/ FindAgent(s) \/ SetCustomConfig(s) \/ SendToAgent(s)

Next ==
    \/ onMessage
    \/ \E s \in Senders, k \in Configs : StoreForAgent(s, k) \/ StoreForGroup(s, k)
    \/ \E s \in Senders : Deliver(s) \/ WaitForStatus(s) \/ Timeout(s)
    \/ AgentSends \/ AgentReceives
    \/ \E d \in Descrs : Redescribe(d)
    \/ Reconnect \/ CloseStale

Spec == Init /\ [][Next]_vars

\* Goroutines run, a message sent on a connection that lasts arrives, a connected
\* agent sends heartbeats and reads what it is sent, and a dead connection is
\* noticed.  Nobody has to push, to describe itself anew or to reconnect; and no
\* request is assumed to time out.
Fairness ==
    /\ WF_vars(onMessage) /\ WF_vars(CloseStale)
    /\ WF_vars(AgentSends) /\ WF_vars(AgentReceives)
    /\ \A s \in Senders : WF_vars(Deliver(s)) /\ WF_vars(WaitForStatus(s))

FairSpec == Spec /\ Fairness

------------------------------------------------------------------------------
(* Properties *)

\* agent_status.go:171 reads remoteConfig.ConfigHash without a nil check: once a
\* status is stored, and while one is being stored, the remote config is set.
RemoteConfigNeverNil == status.has => remote # None

\* The remote config is always the one computed from CustomInstanceConfig: none of
\* its writers (a push, a group change, a changed description) leaves the
\* two apart, in whatever order they come.
RemoteFollowsCustom == remote # None => remote = custom

\* No lost wake-up: a request that waits for the agent it changed is on the list of
\* watchers until the next status message takes it off and notifies it.
NoLostWakeup ==
    \A s \in Senders : at[s] \in {"sending", "waiting"} /\ s \in bound
        => (s \in watchers <=> s \notin notified)

\* Whatever is lost, overtaken or replaced on the way: when pushes, descriptions
\* and reconnections come to an end, the agent ends up with the config the server
\* wants it to have.
Converges == Accepts => <>[](registered /\ lastHash = remote)

\* ... and the server stops asking: from some point on its answers neither offer a
\* config nor request a full report, also to an agent that fails to apply what it
\* was offered or that does not accept configs at all.
QuietAtLast == <>[](\A i \in DOMAIN down : down[i] = NoReply)

\* Without any timeout: a request waiting for the current object is notified by the
\* next heartbeat at the latest, or loses its object.
WaitersNotified ==
    \A s \in Senders : at[s] = "waiting" ~> (s \in notified \/ s \notin bound \/ at[s] = "timeout")

------------------------------------------------------------------------------
(* What a comment of the code says and the code does not do. *)

\* server.go:330, "Set initial config based on group membership (or default)" and
\* "Apply config on first connect": once a message with the description of an agent
\* that accepts configs is handled, a config was chosen for it.
ConfiguredOnFirstConnect ==
    Accepts /\ pc = "idle" /\ status.has /\ status.descr # None => custom # Empty
==============================================================================
