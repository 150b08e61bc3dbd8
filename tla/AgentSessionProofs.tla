-------------------------- MODULE AgentSessionProofs --------------------------
(***************************************************************************)
(* The safety properties of AgentSession, proved for any requests, any     *)
(* configs and any number of reconnections, changes of description and     *)
(* messages under way.                                                     *)
(***************************************************************************)
EXTENDS AgentSession, SequenceTheorems, TLAPS

\* What the code's order of steps gives besides the properties: a request that was
\* accepted has a config, and it is on no list before SetCustomConfig put it there.
RequestsInOrder ==
    \A s \in Senders :
        /\ at[s] \in {"assigned", "stored", "found", "sending", "waiting"} => want[s] # None
        /\ at[s] \in {"idle", "assigned", "stored", "found"} => s \notin watchers \cup notified

SessionInv ==
    /\ TypeOK
    /\ RemoteConfigNeverNil
    /\ RemoteFollowsCustom
    /\ NoLostWakeup
    /\ RequestsInOrder

------------------------------------------------------------------------------
LEMMA InitType == Init => TypeOK
<1> SUFFICES ASSUME Init PROVE TypeOK
    OBVIOUS
<1> USE SessionAssumption DEF Init, Contents
<1>1. ObjectType
    BY DEF NoObject, NoStatus, ObjectType, StatusRecord
<1>2. HandlerType
    BY DEF NoReport, NoReply, HandlerType, Report, Reply
<1>3. StoreType
    BY DEF StoreType
<1>4. AgentType
    <2>1. up \in Seq(Report) /\ down \in Seq(Reply)
        BY EmptySeq
    <2>2. owed \in Debt
        BY DEF OweAll, OweNothing, Debt
    <2> QED
        BY <2>1, <2>2 DEF AgentType
<1>5. SenderType
    BY DEF SenderType, SenderPC
<1> QED
    BY <1>1, <1>2, <1>3, <1>4, <1>5 DEF TypeOK

\* A step of the system is one of these.
LEMMA Steps ==
    ASSUME [Next]_vars
    PROVE  \/ TakeMessage \/ PickConfig \/ InstallConfig \/ UpdateStatus \/ FinishMessage
           \/ \E s \in Senders, k \in Configs : StoreForAgent(s, k) \/ StoreForGroup(s, k)
           \/ \E s \in Senders : SelectMember(s) \/ FindAgent(s) \/ WaitForStatus(s) \/ Timeout(s)
           \/ \E s \in Senders : SetCustomConfig(s)
           \/ \E s \in Senders : SendToAgent(s)
           \/ AgentSends \/ AgentReceives
           \/ \E d \in Descrs : Redescribe(d)
           \/ Reconnect \/ CloseStale
           \/ UNCHANGED vars
BY DEF Next, onMessage, Deliver

LEMMA NextObjectType ==
    ASSUME TypeOK, RequestsInOrder, [Next]_vars
    PROVE  ObjectType'
<1> USE SessionAssumption DEF TypeOK, ObjectType, Contents, object
<1>1. CASE TakeMessage
    BY <1>1 DEF TakeMessage, groupIDOf, groupNameOf
<1>2. CASE InstallConfig
    BY <1>2 DEF InstallConfig, HandlerType
<1>3. CASE UpdateStatus
    <2>1. status' \in StatusRecord
        BY <1>3 DEF UpdateStatus, statusAfter, StatusRecord, HandlerType, Report
    <2> QED
        BY <1>3, <2>1 DEF UpdateStatus
<1>4. CASE FinishMessage
    BY <1>4 DEF FinishMessage
<1>5. ASSUME NEW s \in Senders, SetCustomConfig(s)
      PROVE  ObjectType'
    BY <1>5 DEF SetCustomConfig, SenderType, RequestsInOrder
<1>6. CASE Reconnect \/ CloseStale
    <2>1. NoStatus \in StatusRecord
        BY DEF NoStatus, StatusRecord
    <2> QED
        BY <1>6, <2>1 DEF Reconnect, CloseStale, ForgetObject
<1>7. CASE PickConfig \/ AgentSends \/ AgentReceives \/ UNCHANGED vars
    BY <1>7 DEF PickConfig, AgentSends, AgentReceives, vars
<1>8. ASSUME NEW s \in Senders, NEW k \in Configs, StoreForAgent(s, k) \/ StoreForGroup(s, k)
      PROVE  ObjectType'
    BY <1>8 DEF StoreForAgent, StoreForGroup
<1>9. ASSUME NEW s \in Senders, SelectMember(s) \/ FindAgent(s) \/ WaitForStatus(s) \/ Timeout(s)
      PROVE  ObjectType'
    BY <1>9 DEF SelectMember, FindAgent, WaitForStatus, Timeout, Answer
<1>10. ASSUME NEW s \in Senders, SendToAgent(s)
      PROVE  ObjectType'
    BY <1>10 DEF SendToAgent
<1>11. ASSUME NEW d \in Descrs, Redescribe(d)
      PROVE  ObjectType'
    BY <1>11 DEF Redescribe
<1> QED
    BY <1>1, <1>2, <1>3, <1>4, <1>5, <1>6, <1>7, <1>8, <1>9, <1>10, <1>11, Steps

LEMMA NextHandlerType ==
    ASSUME TypeOK, RequestsInOrder, [Next]_vars
    PROVE  HandlerType'
<1> USE SessionAssumption DEF TypeOK, HandlerType, Contents, handler
<1>1. CASE TakeMessage
    <2>1. Head(up) \in Report
        BY <1>1, HeadTailProperties DEF TakeMessage, AgentType
    <2> QED
        BY <1>1, <2>1 DEF TakeMessage
<1>2. CASE PickConfig
    BY <1>2 DEF PickConfig, getConfigForAgent, StoreType
<1>3. CASE InstallConfig
    BY <1>3 DEF InstallConfig
<1>4. CASE UpdateStatus
    <2>1. NoReport \in Report
        BY DEF NoReport, Report
    <2>2. status.has \in BOOLEAN /\ msg.full \in BOOLEAN
        BY DEF ObjectType, StatusRecord, Report
    <2>3. remote' \in Contents \cup {None}
        BY <1>4 DEF UpdateStatus, ObjectType
    <2>4. needsFullState(msg) \in BOOLEAN
        BY <2>2 DEF needsFullState
    <2>5. reply' \in Reply
        BY <1>4, <2>3, <2>4 DEF UpdateStatus, Reply
    <2> QED
        BY <1>4, <2>1, <2>5 DEF UpdateStatus
<1>5. CASE FinishMessage
    <2>1. NoReply \in Reply
        BY DEF NoReply, Reply
    <2> QED
        BY <1>5, <2>1 DEF FinishMessage
<1>6. CASE AgentSends \/ AgentReceives \/ Reconnect \/ CloseStale \/ UNCHANGED vars
    BY <1>6 DEF AgentSends, AgentReceives, Reconnect, CloseStale, vars
<1>7. ASSUME NEW s \in Senders, NEW k \in Configs, StoreForAgent(s, k) \/ StoreForGroup(s, k)
      PROVE  HandlerType'
    BY <1>7 DEF StoreForAgent, StoreForGroup
<1>8. ASSUME NEW s \in Senders, SelectMember(s) \/ FindAgent(s) \/ WaitForStatus(s) \/ Timeout(s)
      PROVE  HandlerType'
    BY <1>8 DEF SelectMember, FindAgent, WaitForStatus, Timeout, Answer
<1>9. ASSUME NEW s \in Senders, SetCustomConfig(s)
      PROVE  HandlerType'
    BY <1>9 DEF SetCustomConfig
<1>10. ASSUME NEW s \in Senders, SendToAgent(s)
      PROVE  HandlerType'
    BY <1>10 DEF SendToAgent
<1>11. ASSUME NEW d \in Descrs, Redescribe(d)
      PROVE  HandlerType'
    BY <1>11 DEF Redescribe
<1> QED
    BY <1>1, <1>2, <1>3, <1>4, <1>5, <1>6, <1>7, <1>8, <1>9, <1>10, <1>11, Steps

LEMMA NextStoreType ==
    ASSUME TypeOK, RequestsInOrder, [Next]_vars
    PROVE  StoreType'
<1> USE SessionAssumption DEF TypeOK, StoreType, store
<1>1. CASE FinishMessage
    BY <1>1 DEF FinishMessage, ObjectType
<1>2. ASSUME NEW s \in Senders, NEW k \in Configs, StoreForAgent(s, k) \/ StoreForGroup(s, k)
      PROVE  StoreType'
    BY <1>2 DEF StoreForAgent, StoreForGroup
<1>3. CASE TakeMessage \/ PickConfig \/ InstallConfig \/ UpdateStatus
    BY <1>3 DEF TakeMessage, PickConfig, InstallConfig, UpdateStatus
<1>4. CASE AgentSends \/ AgentReceives \/ Reconnect \/ CloseStale \/ UNCHANGED vars
    BY <1>4 DEF AgentSends, AgentReceives, Reconnect, CloseStale, vars
<1>5. ASSUME NEW s \in Senders, SelectMember(s) \/ FindAgent(s) \/ WaitForStatus(s) \/ Timeout(s)
      PROVE  StoreType'
    BY <1>5 DEF SelectMember, FindAgent, WaitForStatus, Timeout, Answer
<1>6. ASSUME NEW s \in Senders, SetCustomConfig(s)
      PROVE  StoreType'
    BY <1>6 DEF SetCustomConfig
<1>7. ASSUME NEW s \in Senders, SendToAgent(s)
      PROVE  StoreType'
    BY <1>7 DEF SendToAgent
<1>8. ASSUME NEW d \in Descrs, Redescribe(d)
      PROVE  StoreType'
    BY <1>8 DEF Redescribe
<1> QED
    BY <1>1, <1>2, <1>3, <1>4, <1>5, <1>6, <1>7, <1>8, Steps

LEMMA NextAgentType ==
    ASSUME TypeOK, RequestsInOrder, [Next]_vars
    PROVE  AgentType'
<1> USE SessionAssumption DEF TypeOK, AgentType, agent
<1>1. CASE TakeMessage
    <2>1. up' \in Seq(Report)
        BY <1>1, HeadTailProperties DEF TakeMessage
    <2> QED
        BY <1>1, <2>1 DEF TakeMessage
<1>2. CASE FinishMessage
    <2>1. down' \in Seq(Reply)
        BY <1>2, AppendProperties DEF FinishMessage, HandlerType
    <2> QED
        BY <1>2, <2>1 DEF FinishMessage
<1>3. ASSUME NEW s \in Senders, SendToAgent(s)
      PROVE  AgentType'
    <2>1. CASE s \in bound /\ ~stale
        <3>1. [offer |-> want[s], full |-> FALSE] \in Reply
            BY DEF Reply, SenderType, Contents
        <3>2. down' \in Seq(Reply)
            BY <1>3, <2>1, <3>1, AppendProperties DEF SendToAgent
        <3> QED
            BY <1>3, <3>2 DEF SendToAgent
    <2> QED
        BY <1>3, <2>1 DEF SendToAgent
<1>4. CASE AgentSends
    <2> DEFINE m == [descr |-> IF owed.full \/ owed.descr THEN descr ELSE None,
                     rc    |-> IF Accepts /\ (owed.full \/ owed.rc) THEN lastHash ELSE None,
                     full  |-> owed.full]
    <2>1. m \in Report
        BY DEF Report, Debt, Contents
    <2>2. up' = Append(up, m)
        BY <1>4 DEF AgentSends
    <2>3. OweNothing \in Debt
        BY DEF OweNothing, Debt
    <2> HIDE DEF m
    <2>4. up' \in Seq(Report)
        BY <2>1, <2>2, AppendProperties
    <2> QED
        BY <1>4, <2>3, <2>4 DEF AgentSends
<1>5. CASE AgentReceives
    <2>1. down' \in Seq(Reply) /\ Head(down) \in Reply
        BY <1>5, HeadTailProperties DEF AgentReceives
    <2>2. Head(down).offer \in Contents \cup {None} /\ Head(down).full \in BOOLEAN
        BY <2>1 DEF Reply
    <2>3. lastHash' \in Contents \cup {NoHash}
        BY <1>5, <2>2 DEF AgentReceives
    <2>4. owed' \in Debt
        BY <1>5, <2>2 DEF AgentReceives, Debt
    <2> QED
        BY <1>5, <2>1, <2>3, <2>4 DEF AgentReceives
<1>6. ASSUME NEW d \in Descrs, Redescribe(d)
      PROVE  AgentType'
    <2>1. owed' \in Debt
        BY <1>6 DEF Redescribe, Debt
    <2> QED
        BY <1>6, <2>1 DEF Redescribe
<1>7. CASE Reconnect
    <2>1. up' \in Seq(Report) /\ down' \in Seq(Reply)
        BY <1>7, EmptySeq DEF Reconnect
    <2>2. owed' \in Debt
        BY <1>7 DEF Reconnect, OweAll, OweNothing, Debt
    <2> QED
        BY <1>7, <2>1, <2>2 DEF Reconnect
<1>8. CASE PickConfig \/ InstallConfig \/ UpdateStatus \/ CloseStale \/ UNCHANGED vars
    BY <1>8 DEF PickConfig, InstallConfig, UpdateStatus, CloseStale, vars
<1>9. ASSUME NEW s \in Senders, NEW k \in Configs, StoreForAgent(s, k) \/ StoreForGroup(s, k)
      PROVE  AgentType'
    BY <1>9 DEF StoreForAgent, StoreForGroup
<1>10. ASSUME NEW s \in Senders, SelectMember(s) \/ FindAgent(s) \/ WaitForStatus(s) \/ Timeout(s)
      PROVE  AgentType'
    BY <1>10 DEF SelectMember, FindAgent, WaitForStatus, Timeout, Answer
<1>11. ASSUME NEW s \in Senders, SetCustomConfig(s)
      PROVE  AgentType'
    BY <1>11 DEF SetCustomConfig
<1> QED
    BY <1>1, <1>2, <1>3, <1>4, <1>5, <1>6, <1>7, <1>8, <1>9, <1>10, <1>11, Steps

LEMMA NextSenderType ==
    ASSUME TypeOK, RequestsInOrder, [Next]_vars
    PROVE  SenderType'
<1> USE SessionAssumption DEF TypeOK, SenderType, senders
<1>1. ASSUME NEW s \in Senders, NEW k \in Configs, StoreForAgent(s, k) \/ StoreForGroup(s, k)
      PROVE  SenderType'
    BY <1>1 DEF StoreForAgent, StoreForGroup, Answer, SenderPC, Answers
<1>2. ASSUME NEW s \in Senders, SelectMember(s) \/ FindAgent(s) \/ WaitForStatus(s) \/ Timeout(s)
      PROVE  SenderType'
    BY <1>2 DEF SelectMember, FindAgent, WaitForStatus, Timeout, Answer, SenderPC, Answers
<1>3. ASSUME NEW s \in Senders, SetCustomConfig(s)
      PROVE  SenderType'
    BY <1>3 DEF SetCustomConfig, Answer, SenderPC, Answers
<1>4. ASSUME NEW s \in Senders, SendToAgent(s)
      PROVE  SenderType'
    BY <1>4 DEF SendToAgent, Answer, SenderPC
<1>5. CASE UpdateStatus
    BY <1>5 DEF UpdateStatus, ObjectType
<1>6. ASSUME NEW d \in Descrs, Redescribe(d)
      PROVE  SenderType'
    BY <1>6 DEF Redescribe
<1>7. CASE Reconnect \/ CloseStale
    BY <1>7 DEF Reconnect, CloseStale, ForgetObject
<1>8. CASE TakeMessage \/ PickConfig \/ InstallConfig \/ FinishMessage
    BY <1>8 DEF TakeMessage, PickConfig, InstallConfig, FinishMessage
<1>9. CASE AgentSends \/ AgentReceives \/ UNCHANGED vars
    BY <1>9 DEF AgentSends, AgentReceives, vars
<1> QED
    BY <1>1, <1>2, <1>3, <1>4, <1>5, <1>6, <1>7, <1>8, <1>9, Steps

LEMMA NextType == ASSUME TypeOK, RequestsInOrder, [Next]_vars PROVE TypeOK'
BY NextObjectType, NextHandlerType, NextStoreType, NextAgentType, NextSenderType DEF TypeOK

------------------------------------------------------------------------------
(* The config. *)

\* Who writes the remote config writes a config, and writes the custom one too.
LEMMA NextConfig ==
    ASSUME TypeOK, RequestsInOrder, RemoteConfigNeverNil, RemoteFollowsCustom, [Next]_vars
    PROVE  RemoteConfigNeverNil' /\ RemoteFollowsCustom'
<1> USE SessionAssumption DEF TypeOK, ObjectType, Contents, object, RemoteConfigNeverNil,
        RemoteFollowsCustom
<1>1. CASE TakeMessage
    BY <1>1 DEF TakeMessage
<1>2. CASE InstallConfig
    BY <1>2 DEF InstallConfig, HandlerType
<1>3. CASE UpdateStatus
    <2>1. CASE agentDescrChanged(msg)
        BY <1>3, <2>1 DEF UpdateStatus
    <2>2. CASE ~agentDescrChanged(msg)
        <3>1. status.has
            BY <2>2 DEF agentDescrChanged
        <3> QED
            BY <1>3, <2>2, <3>1 DEF UpdateStatus
    <2> QED
        BY <2>1, <2>2
<1>4. CASE FinishMessage
    BY <1>4 DEF FinishMessage
<1>5. ASSUME NEW s \in Senders, SetCustomConfig(s)
      PROVE  RemoteConfigNeverNil' /\ RemoteFollowsCustom'
    BY <1>5 DEF SetCustomConfig, SenderType, RequestsInOrder
<1>6. CASE Reconnect \/ CloseStale
    <2>1. CASE ForgetObject
        <3>1. NoStatus.has = FALSE
            BY DEF NoStatus
        <3> QED
            BY <2>1, <3>1 DEF ForgetObject
    <2>2. CASE UNCHANGED <<status, custom, remote>>
        BY <2>2
    <2> QED
        BY <1>6, <2>1, <2>2 DEF Reconnect, CloseStale
<1>7. CASE PickConfig \/ AgentSends \/ AgentReceives \/ UNCHANGED vars
    BY <1>7 DEF PickConfig, AgentSends, AgentReceives, vars
<1>8. ASSUME NEW s \in Senders, NEW k \in Configs, StoreForAgent(s, k) \/ StoreForGroup(s, k)
      PROVE  RemoteConfigNeverNil' /\ RemoteFollowsCustom'
    BY <1>8 DEF StoreForAgent, StoreForGroup
<1>9. ASSUME NEW s \in Senders, SelectMember(s) \/ FindAgent(s) \/ WaitForStatus(s) \/ Timeout(s)
      PROVE  RemoteConfigNeverNil' /\ RemoteFollowsCustom'
    BY <1>9 DEF SelectMember, FindAgent, WaitForStatus, Timeout
<1>10. ASSUME NEW s \in Senders, SendToAgent(s)
       PROVE  RemoteConfigNeverNil' /\ RemoteFollowsCustom'
    BY <1>10 DEF SendToAgent
<1>11. ASSUME NEW d \in Descrs, Redescribe(d)
       PROVE  RemoteConfigNeverNil' /\ RemoteFollowsCustom'
    BY <1>11 DEF Redescribe
<1> QED
    BY <1>1, <1>2, <1>3, <1>4, <1>5, <1>6, <1>7, <1>8, <1>9, <1>10, <1>11, Steps

------------------------------------------------------------------------------
(* The requests. *)

\* Only a request's own steps move it; SetCustomConfig puts it on the list in the
\* step in which it starts to wait, UpdateStatus takes it off and notifies it at
\* once, and an object that is forgotten loses its list and its requests together.
LEMMA NextRequests ==
    ASSUME TypeOK, RequestsInOrder, NoLostWakeup, [Next]_vars
    PROVE  RequestsInOrder' /\ NoLostWakeup'
<1> USE SessionAssumption DEF TypeOK, SenderType, object, senders, RequestsInOrder, NoLostWakeup
<1>1. CASE TakeMessage \/ PickConfig \/ InstallConfig \/ FinishMessage
    BY <1>1 DEF TakeMessage, PickConfig, InstallConfig, FinishMessage
<1>2. CASE UpdateStatus
    BY <1>2 DEF UpdateStatus
<1>3. ASSUME NEW s \in Senders, NEW k \in Configs, StoreForAgent(s, k) \/ StoreForGroup(s, k)
      PROVE  RequestsInOrder' /\ NoLostWakeup'
    BY <1>3 DEF StoreForAgent, StoreForGroup, Answer
<1>4. ASSUME NEW s \in Senders, SelectMember(s) \/ FindAgent(s) \/ WaitForStatus(s) \/ Timeout(s)
      PROVE  RequestsInOrder' /\ NoLostWakeup'
    BY <1>4 DEF SelectMember, FindAgent, WaitForStatus, Timeout, Answer
<1>5. ASSUME NEW s \in Senders, SetCustomConfig(s)
      PROVE  RequestsInOrder' /\ NoLostWakeup'
    BY <1>5 DEF SetCustomConfig, Answer
<1>6. ASSUME NEW s \in Senders, SendToAgent(s)
      PROVE  RequestsInOrder' /\ NoLostWakeup'
    BY <1>6 DEF SendToAgent, Answer
<1>7. CASE Reconnect
    BY <1>7 DEF Reconnect, ForgetObject
<1>8. CASE CloseStale
    BY <1>8 DEF CloseStale, ForgetObject
<1>9. CASE AgentSends \/ AgentReceives \/ UNCHANGED vars
    BY <1>9 DEF AgentSends, AgentReceives, vars
<1>10. ASSUME NEW d \in Descrs, Redescribe(d)
       PROVE  RequestsInOrder' /\ NoLostWakeup'
    BY <1>10 DEF Redescribe
<1> QED
    BY <1>1, <1>2, <1>3, <1>4, <1>5, <1>6, <1>7, <1>8, <1>9, <1>10, Steps

------------------------------------------------------------------------------
LEMMA InitSessionInv == Init => SessionInv
BY InitType DEF Init, NoObject, NoStatus, SessionInv, RemoteConfigNeverNil, RemoteFollowsCustom,
   NoLostWakeup, RequestsInOrder

LEMMA NextSessionInv == SessionInv /\ [Next]_vars => SessionInv'
BY NextType, NextConfig, NextRequests DEF SessionInv

\* The strengthened invariant of the session.
THEOREM SessionInvariant == Spec => []SessionInv
BY InitSessionInv, NextSessionInv, PTL DEF Spec

\* Every variable keeps its type: in particular the config that onMessage installs
\* and those it offers are configs, never nil.
THEOREM SessionTypeCorrect == Spec => []TypeOK
<1>1. SessionInv => TypeOK
    BY DEF SessionInv
<1> QED
    BY <1>1, SessionInvariant, PTL

\* processStatusUpdate never dereferences a nil remote config (agent_status.go:171).
THEOREM NeverNil == Spec => []RemoteConfigNeverNil
<1>1. SessionInv => RemoteConfigNeverNil
    BY DEF SessionInv
<1> QED
    BY <1>1, SessionInvariant, PTL

\* calcRemoteConfig is called wherever CustomInstanceConfig is written
\* (agent_config.go:23, server.go:340), so that the two never differ.
THEOREM RemoteIsCustom == Spec => []RemoteFollowsCustom
<1>1. SessionInv => RemoteFollowsCustom
    BY DEF SessionInv
<1> QED
    BY <1>1, SessionInvariant, PTL

\* A request that waits for the object it changed is on the list of watchers until
\* UpdateStatus notifies it (agent_config.go:31, agent_status.go:26).
THEOREM NobodyForgotten == Spec => []NoLostWakeup
<1>1. SessionInv => NoLostWakeup
    BY DEF SessionInv
<1> QED
    BY <1>1, SessionInvariant, PTL
===============================================================================
