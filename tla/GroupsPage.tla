----------------------------- MODULE GroupsPage -----------------------------
(***************************************************************************)
(* The page of the groups (pages/Groups.tsx): the table, the sheet in      *)
(* which a group is created, the dialog that asks before one is deleted.   *)
(* The drawer that a click on a row opens is in module Drawers.            *)
(***************************************************************************)
EXTENDS ListPage

Ops == {"create", "delete"}

\* The useState of the page; named: the form of the sheet holds a name.
Ui == [mounted : BOOLEAN, createDrawerOpen : BOOLEAN, named : BOOLEAN,
       deleteDialogOpen : BOOLEAN, selectedGroup : Rows \cup {None},
       refreshing : BOOLEAN]

Fresh == [mounted |-> TRUE, createDrawerOpen |-> FALSE, named |-> FALSE,
          deleteDialogOpen |-> FALSE, selectedGroup |-> None, refreshing |-> FALSE]

TypeOK == ListTypeOK(Ops, Rows) /\ ui \in Ui

GroupsAssumption == ListAssumption /\ IsFiniteSet(Slots) /\ Rows # {}

\* The error page replaces the rest; sheet and dialog are modal.
ErrorPage == ui.mounted /\ cache.err
SheetShown == ui.mounted /\ ~cache.err /\ ui.createDrawerOpen
DialogShown == ui.mounted /\ ~cache.err /\ ui.deleteDialogOpen
TableShown == ui.mounted /\ ~cache.err /\ ~ui.createDrawerOpen /\ ~ui.deleteDialogOpen

-----------------------------------------------------------------------------

HandleRefresh(h) ==
    /\ ErrorPage \/ (TableShown /\ ~ui.refreshing)
    /\ Reload(h, [ui EXCEPT !.refreshing = TRUE])

Show(u) == ui' = u /\ UNCHANGED <<store, cache, calls, own, fuel>>

\* The form keeps what was typed when the sheet is closed and opened again.
OpenCreate == TableShown /\ Show([ui EXCEPT !.createDrawerOpen = TRUE])
TypeName == SheetShown /\ ~ui.named /\ Show([ui EXCEPT !.named = TRUE])
CloseCreate == SheetShown /\ Show([ui EXCEPT !.createDrawerOpen = FALSE])

HandleDeleteClick(r) ==
    /\ TableShown /\ r \in Shown
    /\ Show([ui EXCEPT !.selectedGroup = r, !.deleteDialogOpen = TRUE])

CloseDelete == DialogShown /\ Show([ui EXCEPT !.deleteDialogOpen = FALSE])

\* Neither button is disabled while a request is under way.
HandleCreateGroup(h) == SheetShown /\ ui.named /\ Send(h, "create", None, ui)

HandleDeleteGroup(h) ==
    /\ DialogShown /\ ui.selectedGroup # None
    /\ Send(h, "delete", ui.selectedGroup, ui)

Succeeded(h) ==
    Mutate(h, IF calls[h].op = "create"
              THEN [ui EXCEPT !.createDrawerOpen = FALSE, !.named = FALSE]
              ELSE [ui EXCEPT !.deleteDialogOpen = FALSE, !.selectedGroup = None])

Finished(h) ==
    Reloaded(h, IF calls[h].op = "refresh" THEN [ui EXCEPT !.refreshing = FALSE] ELSE ui)

\* A failure is only logged.
Failed(h) == Caught(h, ui)

-----------------------------------------------------------------------------

Init == InitList({CHOOSE r \in Rows : TRUE}) /\ ui = Fresh

User ==
    \/ \E h \in Slots : HandleRefresh(h) \/ HandleCreateGroup(h) \/ HandleDeleteGroup(h)
    \/ OpenCreate \/ TypeName \/ CloseCreate \/ CloseDelete \/ Leave \/ Return(Fresh)
    \/ \E r \in Rows : HandleDeleteClick(r)

Run == \E h \in Slots : Succeeded(h) \/ Finished(h) \/ Failed(h) \/ ServeRow(h)

Next ==
    \/ User \/ Run \/ Revalidate \/ PollArrives
    \/ \E o \in Owners : ServeList(o)
    \/ \E r \in Rows \ Table : OthersWrite(Table \cup {r})

Spec == Init /\ [][Next]_vars
=============================================================================
