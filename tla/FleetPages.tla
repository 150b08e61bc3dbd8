----------------------------- MODULE FleetPages -----------------------------
(***************************************************************************)
(* The two pages that show the fleet: the list of the agents               *)
(* (pages/Agents.tsx) and the topology (pages/Topology.tsx with            *)
(* components/topology), which has a canvas of agents or of groups and,    *)
(* beside it, a sidebar with both.  On either page a click opens the       *)
(* drawer of an agent or of a group; the drawers themselves are in module  *)
(* Drawers.                                                                *)
(*                                                                         *)
(* The server of this commit has no route for /topology, so that there the *)
(* error page is all that is ever seen; the model is of the page given     *)
(* answers.                                                                *)
(***************************************************************************)
EXTENDS ListPage, Integers, SequencesExt

CONSTANTS
    Agents,     \* the ids of agents, numbers
    Groups,     \* the ids of groups
    Labelled    \* pairs of an agent and a group whose labels it all has

VARIABLES
    kind,       \* which of the two pages this is
    loaded      \* what SWR holds under other keys: the groups and, for the
                \* sidebar of the topology, the agents

fvars == <<vars, kind, loaded>>
Kept == UNCHANGED <<kind, loaded>>

Agent == [id : Agents, status : {"online", "offline"}, last_seen : 0..1,
          group_id : Groups \cup {None}]

Drawer == ({"agent"} \X Agents) \cup ({"group"} \X Groups)

\* drawers: those that are open, and what they are about.
Ui == [mounted : BOOLEAN, refreshing : BOOLEAN, drawers : SUBSET Drawer,
       sortOrder : {"desc", "asc"}, showActiveOnly : BOOLEAN,
       topologyLevel : {"instance", "group"}]

Fresh == [mounted |-> TRUE, refreshing |-> FALSE, drawers |-> {}, sortOrder |-> "desc",
          showActiveOnly |-> FALSE, topologyLevel |-> "instance"]

FleetAssumption ==
    /\ ListAssumption /\ IsFiniteSet(Slots)
    /\ IsFiniteSet(Agents) /\ Agents \subseteq Int

TypeOK ==
    /\ ListTypeOK({}, Agent)
    /\ kind \in {"agents", "topology"}
    /\ loaded \in [groups : SUBSET Groups, agents : SUBSET Agent]
    /\ ui \in Ui

-----------------------------------------------------------------------------
(* What is on the screen                                                   *)

\* The error page of either, which replaces all the rest.
ListError == kind = "agents" /\ ui.mounted /\ cache.err
TopologyError == kind = "topology" /\ ui.mounted /\ cache.err
ErrorPage == ListError \/ TopologyError
\* A drawer is modal.
PageShown(k) == kind = k /\ ui.mounted /\ ~cache.err /\ ui.drawers = {}

\* The list of the agents: filter, then order by last_seen; equals stay in the
\* order of the answer, which is by id.  In the k-th place is the agent that
\* k - 1 others come before.
Filtered == {a \in Shown : ui.showActiveOnly => a.status = "online"}

Sooner(a, b) ==
    \/ IF ui.sortOrder = "asc" THEN a.last_seen < b.last_seen ELSE b.last_seen < a.last_seen
    \/ a.last_seen = b.last_seen /\ a.id < b.id

Listed == [k \in 1..Cardinality(Filtered) |->
              CHOOSE a \in Filtered : Cardinality({b \in Filtered : Sooner(b, a)}) = k - 1]

\* The cell of the group: none, a name, or the id when no name is known.
GroupCell(a) ==
    IF a.group_id = None THEN <<"No Group">>
    ELSE IF a.group_id \in loaded.groups THEN <<"name", a.group_id>> ELSE <<"id", a.group_id>>

EmptyState == IF Shown = {} THEN "No Agents Found" ELSE "No Matching Agents"

\* The canvas of the topology, in pixels: four agents in a row, or the groups
\* in one.
AgentAt(k) == [x |-> (k % 4) * 250 + 50, y |-> (k \div 4) * 200 + 150]
GroupAt(k) == [x |-> k * 300 + 50, y |-> 150]

\* The answer lists its nodes in some order; here by id.
Nodes ==
    IF ui.topologyLevel = "group"
    THEN LET groups == SetToSeq({a.group_id : a \in Shown} \ {None})
         IN {[id |-> <<"group", groups[k]>>, at |-> GroupAt(k - 1),
              agent_count |-> Cardinality({a \in Shown : a.group_id = groups[k]})] :
                k \in DOMAIN groups}
    ELSE LET agents == {a.id : a \in Shown}
         IN {[id |-> <<"agent", i>>, at |-> AgentAt(Cardinality({j \in agents : j < i})),
              agent_count |-> 0] : i \in agents}

\* Of the edges of the answer those between two nodes of the level are drawn.
Edges(answered) ==
    LET type == IF ui.topologyLevel = "group" THEN "group" ELSE "agent"
    IN {e \in answered : e[1][1] = type /\ e[2][1] = type}

\* The sidebar.  It counts for a group the agents that have all its labels,
\* where the canvas has the count of the server.
SidebarGroups ==
    {[id |-> <<"group", g>>,
      agents |-> Cardinality({a \in loaded.agents : <<a.id, g>> \in Labelled})] : g \in loaded.groups}

SidebarAgents == {[id |-> <<"agent", a.id>>, status |-> a.status] : a \in loaded.agents}

-----------------------------------------------------------------------------
(* The handlers                                                            *)

Show(u) == ui' = u /\ Kept /\ UNCHANGED <<store, cache, calls, own, fuel>>

\* A click on a row opens the drawer of the agent; one on the name of the group
\* in it, which does not reach the row (stopPropagation), that of the group.
Clicked(a, onGroup) ==
    IF onGroup /\ a.group_id # None THEN {<<"group", a.group_id>>} ELSE {<<"agent", a.id>>}

HandleClick(a, onGroup) ==
    /\ PageShown("agents") /\ a \in Filtered
    /\ Show([ui EXCEPT !.drawers = Clicked(a, onGroup)])

HandleSortToggle ==
    /\ PageShown("agents")
    /\ Show([ui EXCEPT !.sortOrder = IF @ = "desc" THEN "asc" ELSE "desc"])

SetShowActiveOnly == PageShown("agents") /\ Show([ui EXCEPT !.showActiveOnly = ~@])

SetTopologyLevel ==
    /\ PageShown("topology")
    /\ Show([ui EXCEPT !.topologyLevel = IF @ = "group" THEN "instance" ELSE "group"])

OnNodeClick(d) ==
    /\ PageShown("topology") /\ cache.data # 0 /\ d \in {n.id : n \in Nodes}
    /\ Show([ui EXCEPT !.drawers = {d}])

\* In the sidebar.
HandleNodeSelect(d) ==
    /\ PageShown("topology")
    /\ d \in {s.id : s \in SidebarGroups} \cup {s.id : s \in SidebarAgents}
    /\ Show([ui EXCEPT !.drawers = {d}])

CloseDrawer == ui.mounted /\ ~cache.err /\ ui.drawers # {} /\ Show([ui EXCEPT !.drawers = {}])

HandleRefresh(h) ==
    /\ ErrorPage \/ (ui.mounted /\ ui.drawers = {} /\ ~ui.refreshing)
    /\ Reload(h, [ui EXCEPT !.refreshing = TRUE])
    /\ Kept

Refreshed(h) == Reloaded(h, [ui EXCEPT !.refreshing = FALSE]) /\ Kept

\* SWR has an answer under another key; groups come and go.
OthersArrive(groups) ==
    /\ ui.mounted /\ fuel > 0 /\ fuel' = fuel - 1
    /\ loaded' = [groups |-> groups, agents |-> IF kind = "topology" THEN Table ELSE {}]
    /\ loaded' # loaded
    /\ UNCHANGED <<store, cache, calls, ui, own, kind>>

\* An agent connects, disconnects, is seen again, or changes its group.
AgentChanges(a) ==
    /\ a \notin Table /\ Kept
    /\ OthersWrite({b \in Table : b.id # a.id} \cup {a})

-----------------------------------------------------------------------------

\* Bound: the agents that are there at first are online, and were last seen at the
\* same time.
Fleets ==
    {f \in SUBSET {a \in Agent : a.status = "online" /\ a.last_seen = 0} :
        \A a, b \in f : a.id = b.id => a = b}

Init ==
    /\ \E fleet \in Fleets : InitList(fleet)
    /\ kind \in {"agents", "topology"}
    /\ loaded = [groups |-> {}, agents |-> {}]
    /\ ui = Fresh

User ==
    \/ \E a \in Shown, g \in BOOLEAN : HandleClick(a, g)
    \/ \E d \in Drawer : OnNodeClick(d) \/ HandleNodeSelect(d)
    \/ \E h \in Slots : HandleRefresh(h)
    \/ HandleSortToggle \/ SetShowActiveOnly \/ SetTopologyLevel \/ CloseDrawer
    \/ Kept /\ (Leave \/ Return(Fresh))

Next ==
    \/ User
    \/ \E h \in Slots : Refreshed(h)
    \/ Kept /\ (Revalidate \/ PollArrives \/ \E o \in Owners : ServeList(o))
    \/ \E g \in SUBSET Groups : OthersArrive(g)
    \/ \E a \in Agent : AgentChanges(a)

Spec == Init /\ [][Next]_fvars

-----------------------------------------------------------------------------

\* No spinner or disabled button is left behind when its refresh has ended.  The
\* converse is not true: Retry is never disabled, and the first of two refreshes
\* frees the button.
BusyIsTrue == ui.mounted /\ ui.refreshing => UnderWay("refresh") # {}

\* One click opens one drawer, also where one thing that can be clicked lies in
\* another, and whatever drawer the error page or a poll has hidden meanwhile.
OneDrawer == Cardinality(ui.drawers) <= 1

\* The list leaves out no agent that the last answer calls online, whatever the
\* filter and the order, and no agent stands before one that the order puts
\* first; "No Matching Agents" is said only while there are agents, all of them
\* filtered out.
ListIsComplete ==
    LET list == Listed
        seen(k) == list[k].last_seen
    IN
    /\ {a \in Shown : a.status = "online"} \subseteq Range(list)
    /\ Len(list) = Cardinality(Range(list))
    /\ \A j, k \in DOMAIN list :
          j < k => IF ui.sortOrder = "asc" THEN seen(j) <= seen(k) ELSE seen(k) <= seen(j)
    /\ list = <<>> /\ EmptyState = "No Matching Agents" =>
          ui.showActiveOnly /\ \A a \in Shown : a.status = "offline"

\* The least that a box on the canvas takes: min-w-[200px], and four lines.
CanvasWidth == 200
CanvasHeight == 140

Clear(p, q) ==
    \/ p.x + CanvasWidth <= q.x \/ q.x + CanvasWidth <= p.x
    \/ p.y + CanvasHeight <= q.y \/ q.y + CanvasHeight <= p.y

\* On the canvas no box hides another, there is one for each agent or for each
\* group that agents are in, the groups' counts add up, and every edge that is
\* drawn has both its ends on the canvas.
CanvasIsFaithful ==
    LET ids == {n.id : n \in Nodes}
        all == ({"agent"} \X {a.id : a \in Shown})
                 \cup ({"group"} \X ({a.group_id : a \in Shown} \ {None}))
    IN /\ \A m, n \in Nodes : m = n \/ Clear(m.at, n.at)
       /\ Cardinality(Nodes) = Cardinality(ids) /\ ids \subseteq all
       /\ \A e \in Edges(all \X all) : {e[1], e[2]} \subseteq ids
       /\ ui.topologyLevel = "group" =>
             MapThenSumSet(LAMBDA n : n.agent_count, Nodes)
                = Cardinality({a \in Shown : a.group_id # None})

\* All that the two pages show of the fleet.
ShowsTheFleet == OneDrawer /\ ListIsComplete /\ CanvasIsFaithful
=============================================================================
