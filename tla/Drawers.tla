------------------------------ MODULE Drawers ------------------------------
(***************************************************************************)
(* The drawers of the console: AgentDetailsDrawer with the editor of the   *)
(* agent's configuration (agent-details/AgentConfigPipeline.tsx), and      *)
(* GroupDetailsDrawer.  A drawer belongs to a page that has one of each    *)
(* kind for all its rows (pages/Agents.tsx, pages/Groups.tsx): the agent   *)
(* it is about changes under it, and the error page of the list takes it   *)
(* away without closing it.                                                *)
(*                                                                         *)
(* The server of this commit has no route for the topology of an agent or  *)
(* of a group, from which a drawer is filled; the model is of drawers      *)
(* that are given answers.                                                 *)
(***************************************************************************)
EXTENDS Naturals, FiniteSets

CONSTANTS
    Items,      \* the agents, or the groups, that rows of the page stand for
    Remote,     \* the agents that accept a remote configuration
    Slots,      \* the handlers that may be under way at once
    MaxFuel,    \* bound: what happens outside the drawer, in number
    None

DrawersAssumption ==
    /\ Remote \subseteq Items
    /\ IsFiniteSet(Slots)
    /\ MaxFuel \in Nat

VARIABLES
    kind,       \* which of the two drawers this is
    store,      \* of each item: it is online (an agent), has agents (a group)
    cache,      \* of each item: what SWR holds of that ("up": it is and it
                \* accepts restarts), or nothing yet
    calls,      \* the handlers under way
    ui,         \* the state of the page, the drawer and its editor
    sent,       \* history: to whom texts were sent, and for whom they were
    fuel

dvars == <<kind, store, cache, calls, ui, sent, fuel>>

\* selected, open: state of the page.  restarting, message, timers (how many
\* pending timeouts will clear the message): state of the drawer.  tab: the
\* tab on screen, none while there is no data; edited: the item for which the
\* text in the editor was typed; sending: state of the editor.
Ui == [mounted : BOOLEAN, selected : Items \cup {None}, open : BOOLEAN,
       restarting : BOOLEAN, message : {"none", "success", "error"},
       timers : 0..Cardinality(Slots), tab : {"none", "overview", "config"},
       edited : Items \cup {None}, sending : BOOLEAN]

\* mine: the drawer, or the editor, that called the handler is still mounted.
Call == [op : {"none", "restart", "send"}, mine : BOOLEAN]
Idle == [op |-> "none", mine |-> TRUE]

TypeOK ==
    /\ kind \in {"agent", "group"}
    /\ store \in [Items -> BOOLEAN]
    /\ cache \in [Items -> {"none", "up", "down"}]
    /\ calls \in [Slots -> Call]
    /\ ui \in Ui
    /\ sent \subseteq Items \X (Items \cup {None})
    /\ fuel \in 0..MaxFuel

\* Mutant: the edited text is kept in the drawer.
BugNoEditor(u, tab) == [u EXCEPT !.tab = tab, !.sending = FALSE]

\* The editor is unmounted with its tab, the tabs with the data.
NoEditor(u, tab) == [u EXCEPT !.tab = tab, !.edited = None, !.sending = FALSE]

\* Handlers of a component that has been unmounted.
Orphan(ops) == [h \in Slots |-> IF calls[h].op \in ops THEN [calls[h] EXCEPT !.mine = FALSE]
                                                       ELSE calls[h]]
UnderWay(op) == {h \in Slots : calls[h].op = op /\ calls[h].mine}

\* What the drawer knows of its item.  Its key is null while it is closed, so
\* that then it knows nothing, whatever SWR holds.
Data == IF ui.mounted /\ ui.open THEN cache[ui.selected] ELSE "none"

-----------------------------------------------------------------------------
(* Opening and closing                                                     *)

\* A click on a row, which is out of reach while the drawer is open.
HandleClick(i) ==
    /\ ui.mounted /\ ~ui.open
    /\ ui' = [ui EXCEPT !.selected = i, !.open = TRUE,
                        !.tab = IF cache[i] = "none" THEN "none" ELSE "overview"]
    /\ UNCHANGED <<kind, store, cache, calls, sent, fuel>>

Close ==
    /\ ui.mounted /\ ui.open
    /\ ui' = [NoEditor(ui, "none") EXCEPT !.open = FALSE]
    /\ calls' = Orphan({"send"})
    /\ UNCHANGED <<kind, store, cache, sent, fuel>>

\* An answer about an item, asked for while the drawer shows it, at any time
\* after.
TopologyArrives(i) ==
    LET seen == IF store[i] THEN "up" ELSE "down" IN
    /\ ui.selected = i /\ cache[i] # seen
    /\ cache' = [cache EXCEPT ![i] = seen]
    /\ ui' = IF ui.mounted /\ ui.open /\ ui.tab = "none"
             THEN [ui EXCEPT !.tab = "overview"] ELSE ui
    /\ UNCHANGED <<kind, store, calls, sent, fuel>>

ChooseTab(t) ==
    /\ Data # "none" /\ ui.tab # t
    /\ t = "config" => kind = "agent"
    /\ ui' = NoEditor(ui, t)
    /\ calls' = Orphan({"send"})
    /\ UNCHANGED <<kind, store, cache, sent, fuel>>

-----------------------------------------------------------------------------
(* Restarting                                                              *)

\* The button of the agent's drawer is disabled unless the agent is online, and
\* can be restarted, as far as is known; that of the group's is shown only if
\* the group has agents.
AgentRestart == kind = "agent" /\ Data = "up" /\ ~ui.restarting
GroupRestart == kind = "group" /\ Data = "up" /\ ~ui.restarting
CanRestart == AgentRestart \/ GroupRestart

HandleRestart(h) ==
    /\ CanRestart /\ calls[h] = Idle
    /\ calls' = [calls EXCEPT ![h].op = "restart"]
    /\ ui' = [ui EXCEPT !.restarting = TRUE, !.message = "none"]
    /\ UNCHANGED <<kind, store, cache, sent, fuel>>

\* The answer.  A success is shown for some seconds, an error until it is
\* replaced, or until the timer of an earlier success clears it.
Restarted(h, message) ==
    /\ calls[h].op = "restart" /\ calls' = [calls EXCEPT ![h] = Idle]
    /\ ui' = IF calls[h].mine
             THEN [ui EXCEPT !.restarting = FALSE, !.message = message,
                             !.timers = IF message = "success" /\ @ < Cardinality(Slots)
                                        THEN @ + 1 ELSE @]
             ELSE ui
    /\ UNCHANGED <<kind, store, cache, sent, fuel>>

ClearMessage ==
    /\ ui.timers > 0
    /\ ui' = [ui EXCEPT !.timers = @ - 1, !.message = "none"]
    /\ UNCHANGED <<kind, store, cache, calls, sent, fuel>>

-----------------------------------------------------------------------------
(* The editor of the agent's configuration                                 *)

\* The editor is read-only for an agent that accepts no remote configuration.
CanSend == ui.mounted /\ ui.tab = "config" /\ ui.selected \in Remote

\* Typing; an empty text counts as none.
SetEditedConfig(e) ==
    /\ CanSend /\ e \in {None, ui.selected} /\ ui.edited # e
    /\ ui' = [ui EXCEPT !.edited = e]
    /\ UNCHANGED <<kind, store, cache, calls, sent, fuel>>

\* What is sent is the edited text, or else the text the agent runs.
HandleSendConfig(h) ==
    /\ CanSend /\ ~ui.sending /\ calls[h] = Idle
    /\ calls' = [calls EXCEPT ![h].op = "send"]
    /\ sent' = sent \cup {<<ui.selected, IF ui.edited # None THEN ui.edited ELSE ui.selected>>}
    /\ ui' = [ui EXCEPT !.sending = TRUE]
    /\ UNCHANGED <<kind, store, cache, fuel>>

SendEnds(h) ==
    /\ calls[h].op = "send" /\ calls' = [calls EXCEPT ![h] = Idle]
    /\ ui' = IF calls[h].mine THEN [ui EXCEPT !.sending = FALSE] ELSE ui
    /\ UNCHANGED <<kind, store, cache, sent, fuel>>

-----------------------------------------------------------------------------
(* The surroundings                                                        *)

Outside == fuel > 0 /\ fuel' = fuel - 1

\* The list of the page fails: the error page stands in for all the rest, and
\* the drawer loses its state, though not the page, which has it open.
ListFails ==
    /\ ui.mounted /\ Outside
    /\ ui' = [NoEditor(ui, "none") EXCEPT !.mounted = FALSE, !.restarting = FALSE,
                                          !.message = "none", !.timers = 0]
    /\ calls' = Orphan({"restart", "send"})
    /\ UNCHANGED <<kind, store, cache, sent>>

ListRecovers ==
    /\ ~ui.mounted
    /\ ui' = [ui EXCEPT !.mounted = TRUE,
                        !.tab = IF ui.open /\ cache[ui.selected] # "none" THEN "overview" ELSE "none"]
    /\ UNCHANGED <<kind, store, cache, calls, sent, fuel>>

ItemChanges(i) ==
    /\ Outside
    /\ store' = [store EXCEPT ![i] = ~@]
    /\ UNCHANGED <<kind, cache, calls, ui, sent>>

-----------------------------------------------------------------------------

Init ==
    /\ kind \in {"agent", "group"}
    /\ store \in [Items -> BOOLEAN]
    /\ cache = [i \in Items |-> "none"]
    /\ calls = [h \in Slots |-> Idle]
    /\ ui = [mounted |-> TRUE, selected |-> None, open |-> FALSE, restarting |-> FALSE,
             message |-> "none", timers |-> 0, tab |-> "none", edited |-> None,
             sending |-> FALSE]
    /\ sent = {}
    /\ fuel = MaxFuel

User ==
    \/ \E i \in Items : HandleClick(i) \/ SetEditedConfig(i)
    \/ \E t \in {"overview", "config"} : ChooseTab(t)
    \/ \E h \in Slots : HandleRestart(h) \/ HandleSendConfig(h)
    \/ SetEditedConfig(None) \/ Close

Run ==
    \/ \E h \in Slots : SendEnds(h) \/ \E m \in {"success", "error"} : Restarted(h, m)
    \/ \E i \in Items : TopologyArrives(i)
    \/ ClearMessage

Next == User \/ Run \/ ListFails \/ ListRecovers \/ \E i \in Items : ItemChanges(i)

Spec == Init /\ [][Next]_dvars

-----------------------------------------------------------------------------

\* A text that was typed for one agent is never sent to another, although one
\* drawer with one editor serves all agents and SWR may hold the next agent's
\* data already when the drawer opens for it.
SendsOwnText == \A pair \in sent : pair[1] = pair[2]

\* The buttons of the drawer and of its editor are disabled exactly while a
\* handler that they started is under way, and there is one at most: what was
\* started before the error page or another agent came leaves none disabled.
BusyIsTrue ==
    /\ ui.restarting <=> (UnderWay("restart") # {})
    /\ ui.sending <=> (UnderWay("send") # {})
    /\ Cardinality(UnderWay("restart")) <= 1
    /\ Cardinality(UnderWay("send")) <= 1
=============================================================================
