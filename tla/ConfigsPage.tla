---------------------------- MODULE ConfigsPage ----------------------------
(***************************************************************************)
(* The page of the configurations (pages/Configs.tsx): the list, and the   *)
(* editor for a new configuration or a new version of a stored one.  The   *)
(* three routes of the page show one component, which keeps its state from *)
(* route to route.  On the server a version is a row of its own that is    *)
(* never changed, so that what SWR holds for one configuration does not    *)
(* age.  A text is known by the configuration from whose row it was        *)
(* loaded into the editor, whatever is typed or restored on top of it.     *)
(***************************************************************************)
EXTENDS ListPage

CONSTANT Groups

ConfigsAssumption ==
    /\ ListAssumption
    /\ IsFiniteSet(Slots)
    /\ Groups # {}

Ops == {"save"}
Ids == 1..(MaxRev + 1)

\* parent: the row of which this one is a new version, 0 for none; base: the
\* row its text was loaded from, 0 for the text a new configuration begins with.
Row == [id : {0} \cup Ids, group : Groups \cup {None}, version : 1..(MaxRev + 1),
        parent : {0} \cup Ids, base : {0} \cup Ids]

VARIABLE loaded     \* the rows that SWR holds one by one

cvars == <<vars, loaded>>
Kept == UNCHANGED loaded

Ui == [mounted : BOOLEAN, mode : {"list", "create", "edit"}, configId : {0} \cup Ids,
       base : {0} \cup Ids, group : Groups \cup {None}, isSaving : BOOLEAN,
       refreshing : BOOLEAN]

Fresh == [mounted |-> TRUE, mode |-> "list", configId |-> 0, base |-> 0, group |-> None,
          isSaving |-> FALSE, refreshing |-> FALSE]

TypeOK ==
    /\ ListTypeOK(Ops, Row)
    /\ ui \in Ui
    /\ loaded \subseteq Ids

The(id) == CHOOSE c \in Table : c.id = id

-----------------------------------------------------------------------------
(* Routes and the editor                                                   *)

\* Mutant: the effect runs when the data arrive, but not when the route changes
\* to a configuration that is already there.
BugLoadEditor(u, has) ==
    IF u.mode = "edit" /\ u.configId \in has \ loaded
    THEN [u EXCEPT !.base = u.configId, !.group = The(u.configId).group]
    ELSE IF u.mode = "create" THEN [u EXCEPT !.base = 0, !.group = None] ELSE u

\* The effect that loads the editor, run when the mode or the data change.
LoadEditor(u, has) ==
    IF u.mode = "edit" /\ u.configId \in has
    THEN [u EXCEPT !.base = u.configId, !.group = The(u.configId).group]
    ELSE IF u.mode = "create" THEN [u EXCEPT !.base = 0, !.group = None] ELSE u

Navigate(u, mode, id) ==
    LoadEditor([u EXCEPT !.mode = mode, !.configId = id], loaded)

InList == ui.mounted /\ ui.mode = "list"
InEditor == ui.mounted /\ ui.mode # "list"

Show(u) == ui' = u /\ Kept /\ UNCHANGED <<store, cache, calls, own, fuel>>

\* The list gives way to an error page, from which only Retry leads on.
HandleEditConfig(c) == InList /\ ~cache.err /\ c \in Shown /\ Show(Navigate(ui, "edit", c.id))
HandleCreateNew == InList /\ ~cache.err /\ Show(Navigate(ui, "create", 0))

\* Back is not disabled while saving.
HandleBackToList == InEditor /\ Show(Navigate(ui, "list", 0))

\* The answer to getConfig; it may come when the editor is no longer open.
ConfigArrives(id) ==
    /\ ui.mounted /\ ui.mode = "edit" /\ ui.configId = id /\ id \notin loaded
    /\ loaded' = loaded \cup {id}
    /\ \/ ui' = LoadEditor(ui, loaded')
       \/ ui' = [ui EXCEPT !.mode = "list", !.configId = 0]
    /\ UNCHANGED <<store, cache, calls, own, fuel>>

SelectGroup(g) == InEditor /\ ui.group # g /\ Show([ui EXCEPT !.group = g])

-----------------------------------------------------------------------------
(* Saving                                                                  *)

HandleRefresh(h) ==
    /\ InList /\ (cache.err \/ ~ui.refreshing) /\ Kept
    /\ Reload(h, [ui EXCEPT !.refreshing = TRUE])

\* What the handler sends is fixed by the render it was clicked in: a new
\* version if the configuration had been loaded, else a new configuration.
ToSave ==
    IF ui.mode = "edit" /\ ui.configId \in loaded
    THEN [id |-> 0, group |-> The(ui.configId).group, version |-> The(ui.configId).version + 1,
          parent |-> ui.configId, base |-> ui.base]
    ELSE [id |-> 0, group |-> ui.group, version |-> 1, parent |-> 0, base |-> ui.base]

HandleSave(h) ==
    /\ InEditor /\ ~ui.isSaving /\ ui.group # None /\ Kept
    /\ Send(h, "save", ToSave, [ui EXCEPT !.isSaving = TRUE])

\* HandleCreateConfig and HandleUpdateConfig both add a row.
Stored(row) == Table \cup {[row EXCEPT !.id = Cardinality(Table) + 1]}

Serve(h) == Kept /\ (Accept(h, Stored(calls[h].row)) \/ Refuse(h, FALSE))

Succeeded(h) == Kept /\ Mutate(h, ui)

Refreshed(h) ==
    /\ calls[h].op = "refresh" /\ Kept
    /\ Reloaded(h, [ui EXCEPT !.refreshing = FALSE])

\* After the list the handler asks for the versions of the group that is
\* selected by then (the sheet with the versions is not modelled: a version
\* restored from it counts as typed) ...
ListReloaded(h) ==
    /\ calls[h].op = "save" /\ calls[h].st = "reload" /\ Arrived(h) /\ Kept
    /\ cache' = Settles(cache, h)
    /\ calls' = [calls EXCEPT ![h].st = "after"]
    /\ UNCHANGED <<store, ui, own, fuel>>

\* ... and goes to the list, wherever the user has gone meanwhile, from another
\* page as well.
Saved(h) ==
    /\ calls[h].st = "after"
    /\ ui' = IF ui.mounted
             THEN [Navigate(ui, "list", 0) EXCEPT !.isSaving = @ /\ ~calls[h].mine]
             ELSE Fresh
    /\ calls' = [calls EXCEPT ![h] = Idle]
    /\ UNCHANGED <<store, cache, own, fuel, loaded>>

Failed(h) == Kept /\ Caught(h, [ui EXCEPT !.isSaving = FALSE])

-----------------------------------------------------------------------------

\* One configuration of a group, and one that belongs to no group.
Init ==
    /\ InitList({[id |-> 1, group |-> CHOOSE g \in Groups : TRUE, version |-> 1,
                  parent |-> 0, base |-> 1],
                 [id |-> 2, group |-> None, version |-> 1, parent |-> 0, base |-> 2]})
    /\ ui = Fresh
    /\ loaded = {}

User ==
    \/ \E c \in Table : HandleEditConfig(c)
    \/ \E g \in Groups : SelectGroup(g)
    \/ HandleCreateNew \/ HandleBackToList
    \/ \E h \in Slots : HandleRefresh(h) \/ HandleSave(h)
    \/ Kept /\ (Leave \/ Return(Fresh))

Run ==
    \/ \E h \in Slots : Serve(h) \/ Succeeded(h) \/ Refreshed(h) \/ ListReloaded(h)
                        \/ Saved(h) \/ Failed(h)
    \/ \E id \in Ids : ConfigArrives(id)

Next ==
    \/ User \/ Run
    \/ Kept /\ (Revalidate \/ PollArrives \/ \E o \in Owners : ServeList(o))

Spec == Init /\ [][Next]_cvars

-----------------------------------------------------------------------------

\* A new version of a configuration carries a text that was loaded from that
\* configuration, and stays in its group: although the component keeps its text
\* and its group from route to route, and the configuration arrives late, what
\* was in the editor for another one is never stored as a version of this one,
\* nor under the group that the header happens to show.
UpdatesItsOwn ==
    \A c \in Table : c.parent # 0 => c.base = c.parent /\ c.group = The(c.parent).group

\* The Save button is disabled exactly while a save of this page is under way,
\* and there is one at most.
BusyIsTrue ==
    ui.mounted => /\ ui.isSaving <=> (UnderWay("save") # {})
                  /\ Cardinality(UnderWay("save")) <= 1
=============================================================================
