--------------------------- MODULE GitSourcesPage ---------------------------
(***************************************************************************)
(* The page of the git sources (pages/GitSources.tsx): the table, the      *)
(* sheet in which a source is created or edited, the dialog that asks      *)
(* before one is deleted, the Sync Now buttons.                            *)
(***************************************************************************)
EXTENDS ListPage

Ops == {"create", "update", "delete", "sync"}

\* The useState of the page: the sheet and the source edited in it (None: a new
\* one), whether the form shows an error, the source the dialog asks about, and
\* the flags that disable buttons.
Ui == [mounted : BOOLEAN, sheetOpen : BOOLEAN, editTarget : Rows \cup {None},
       formError : BOOLEAN, saving : BOOLEAN, deleteTarget : Rows \cup {None},
       syncing : Rows \cup {None}, refreshing : BOOLEAN]

Fresh == [mounted |-> TRUE, sheetOpen |-> FALSE, editTarget |-> None,
          formError |-> FALSE, saving |-> FALSE, deleteTarget |-> None,
          syncing |-> None, refreshing |-> FALSE]

TypeOK == ListTypeOK(Ops, Rows) /\ ui \in Ui

GitSourcesAssumption == ListAssumption /\ IsFiniteSet(Slots) /\ Rows # {}

-----------------------------------------------------------------------------
(* What is on the screen                                                   *)

\* The error page replaces all the rest, the open sheet and dialog included.
ErrorPage == ui.mounted /\ cache.err
SheetShown == ui.mounted /\ ~cache.err /\ ui.sheetOpen
DialogShown == ui.mounted /\ ~cache.err /\ ui.deleteTarget # None
\* Sheet and dialog are modal.
TableShown == ui.mounted /\ ~cache.err /\ ~ui.sheetOpen /\ ui.deleteTarget = None

-----------------------------------------------------------------------------
(* The handlers                                                            *)

\* The Retry button of the error page is never disabled.
HandleRefresh(h) ==
    /\ ErrorPage \/ (TableShown /\ ~ui.refreshing)
    /\ Reload(h, [ui EXCEPT !.refreshing = TRUE])

Show(u) == ui' = u /\ UNCHANGED <<store, cache, calls, own, fuel>>

OpenCreate ==
    /\ TableShown
    /\ Show([ui EXCEPT !.editTarget = None, !.formError = FALSE, !.sheetOpen = TRUE])

OpenEdit(r) ==
    /\ TableShown /\ r \in Shown
    /\ Show([ui EXCEPT !.editTarget = r, !.formError = FALSE, !.sheetOpen = TRUE])

\* Cancel is disabled while saving, but the sheet closes on Escape and on a
\* click beside it as well.
CloseSheet == SheetShown /\ Show([ui EXCEPT !.sheetOpen = FALSE])

AskDelete(r) == TableShown /\ r \in Shown /\ Show([ui EXCEPT !.deleteTarget = r])

CancelDelete == DialogShown /\ Show([ui EXCEPT !.deleteTarget = None])

HandleSave(h) ==
    /\ SheetShown /\ ~ui.saving
    /\ Send(h, IF ui.editTarget = None THEN "create" ELSE "update", ui.editTarget,
            [ui EXCEPT !.saving = TRUE, !.formError = FALSE])

\* The Delete button of the dialog is never disabled.
HandleDelete(h) == DialogShown /\ Send(h, "delete", ui.deleteTarget, ui)

HandleSyncNow(h, r) ==
    /\ TableShown /\ r \in Shown /\ ui.syncing # r
    /\ Send(h, "sync", r, [ui EXCEPT !.syncing = r])

\* Mutant: the list is not asked for anew after a source has been deleted.
BugSucceeded(h) ==
    IF calls[h].op = "delete"
    THEN /\ calls[h].st = "ok"
         /\ ui' = IF calls[h].mine THEN [ui EXCEPT !.deleteTarget = None] ELSE ui
         /\ calls' = [calls EXCEPT ![h] = Idle]
         /\ own' = IF ui.mounted /\ calls[h].rev > own THEN calls[h].rev ELSE own
         /\ UNCHANGED <<store, cache, fuel>>
    ELSE Mutate(h, IF calls[h].op = "sync" THEN ui ELSE [ui EXCEPT !.sheetOpen = FALSE])

\* After the request, before the list is asked for anew.
Succeeded(h) ==
    Mutate(h, CASE calls[h].op \in {"create", "update"} -> [ui EXCEPT !.sheetOpen = FALSE]
                [] calls[h].op = "delete"               -> [ui EXCEPT !.deleteTarget = None]
                [] calls[h].op = "sync"                 -> ui)

\* The finally clause of a handler, or the statement after its await.
Finally(h, u) ==
    CASE calls[h].op \in {"create", "update"} -> [u EXCEPT !.saving = FALSE]
      [] calls[h].op = "sync"                 -> [u EXCEPT !.syncing = None]
      [] calls[h].op = "refresh"              -> [u EXCEPT !.refreshing = FALSE]
      [] OTHER                                -> u

Finished(h) == Reloaded(h, Finally(h, ui))

\* Mutant: the catch clauses are not followed by finally.
BugFailed(h) ==
    Caught(h, [ui EXCEPT !.formError = @ \/ calls[h].op \in {"create", "update"}])

Failed(h) ==
    Caught(h, Finally(h, [ui EXCEPT !.formError = @ \/ calls[h].op \in {"create", "update"}]))

-----------------------------------------------------------------------------

Init == InitList({CHOOSE r \in Rows : TRUE}) /\ ui = Fresh

User ==
    \/ \E h \in Slots : HandleRefresh(h) \/ HandleSave(h) \/ HandleDelete(h)
    \/ \E h \in Slots, r \in Rows : HandleSyncNow(h, r)
    \/ OpenCreate \/ CloseSheet \/ CancelDelete \/ Leave \/ Return(Fresh)
    \/ \E r \in Rows : OpenEdit(r) \/ AskDelete(r)

Run == \E h \in Slots : Succeeded(h) \/ Finished(h) \/ Failed(h) \/ ServeRow(h)

Next ==
    \/ User \/ Run \/ Revalidate \/ PollArrives
    \/ \E o \in Owners : ServeList(o)
    \/ \E r \in Table : OthersWrite(Table \ {r})

Spec == Init /\ [][Next]_vars

-----------------------------------------------------------------------------

\* What keeps a button disabled or spinning is a handler that is under way:
\* the form is being saved exactly while one save is (a second click, also in a
\* sheet opened anew, sends nothing), the row whose Sync Now turns has a sync, and
\* none of these is left behind when its handler has ended, however the handlers
\* of the page overlap, fail, or meet the error page.  The converse is not true of
\* Sync Now and Refresh: one row at a time is marked, so that a click on another
\* row or the end of its sync frees a button whose sync goes on, and the first of
\* two refreshes (Retry is never disabled) frees the button of both.
BusyIsTrue ==
    ui.mounted =>
        /\ ui.saving <=> (UnderWay("create") \cup UnderWay("update") # {})
        /\ Cardinality(UnderWay("create") \cup UnderWay("update")) <= 1
        /\ ui.refreshing => UnderWay("refresh") # {}
        /\ ui.syncing # None => \E h \in UnderWay("sync") : calls[h].row = ui.syncing
=============================================================================
