---------------------------- MODULE AuditLogPage ----------------------------
(***************************************************************************)
(* The page of the audit log (pages/AuditLog.tsx): pages of Limit entries, *)
(* newest first, of one type of event or of all, while events go on being  *)
(* recorded.  SWR holds an answer under the key [page, filter].            *)
(***************************************************************************)
EXTENDS Naturals, FiniteSetsExt

CONSTANTS
    Types,      \* types of events
    Limit,      \* entries on a page (50)
    MaxEvents,  \* bound: events of a type
    MaxFuel,    \* bound: failures
    None        \* the filter that lets all events through

AuditAssumption ==
    /\ IsFiniteSet(Types) /\ Types # {}
    /\ Limit \in Nat \ {0} /\ MaxEvents \in Nat \ {0}
    /\ MaxFuel \in Nat

VARIABLES
    store,      \* how many events of each type are recorded
    cache,      \* of each page and filter: the total as of its last answer
    ui,         \* page, eventFilter, refreshing; select is what the filter
                \* shows, error that the last request failed
    fuel

avars == <<store, cache, ui, fuel>>

Pages == 1..((Cardinality(Types) * MaxEvents + Limit - 1) \div Limit)
Filters == Types \cup {None}
Unknown == Cardinality(Types) * MaxEvents + 1

Recorded(f) == IF f = None THEN MapThenSumSet(LAMBDA t : store[t], Types)
                           ELSE store[f]

TypeOK ==
    /\ store \in [Types -> 0..MaxEvents]
    /\ cache \in [Pages \X Filters -> 0..Unknown]
    /\ ui \in [page : Pages, eventFilter : Filters, select : Filters,
               refreshing : BOOLEAN, error : BOOLEAN]
    /\ fuel \in 0..MaxFuel

-----------------------------------------------------------------------------

Data == cache[<<ui.page, ui.eventFilter>>]
Total == IF Data = Unknown THEN 0 ELSE Data
TotalPages == LET n == (Total + Limit - 1) \div Limit IN IF n > 1 THEN n ELSE 1

\* The table and the filter are on screen unless the error page is, and the
\* buttons that turn the page only if there is more than one.
Loaded == ~ui.error
Turning == Loaded /\ TotalPages > 1

Show(u) == ui' = u /\ UNCHANGED <<store, cache, fuel>>

\* Mutant: the page is not reset.
BugHandleFilterChange(f) ==
    /\ Loaded /\ ui.select # f
    /\ Show([ui EXCEPT !.eventFilter = f, !.select = f])

HandleFilterChange(f) ==
    /\ Loaded /\ ui.select # f
    /\ Show([ui EXCEPT !.eventFilter = f, !.select = f, !.page = 1])

\* Mutant: Next is not disabled on the last page.
BugNext == Turning /\ Show([ui EXCEPT !.page = @ + 1])

Next_ == Turning /\ ui.page < TotalPages /\ Show([ui EXCEPT !.page = @ + 1])

Previous == Turning /\ ui.page > 1 /\ Show([ui EXCEPT !.page = @ - 1])

HandleRefresh == (ui.error \/ ~ui.refreshing) /\ Show([ui EXCEPT !.refreshing = TRUE])

\* An answer for the page on screen, to the interval or to mutate.
Answered ==
    /\ cache' = [cache EXCEPT ![<<ui.page, ui.eventFilter>>] = Recorded(ui.eventFilter)]
    /\ ui' = [ui EXCEPT !.error = FALSE, !.refreshing = FALSE]
    /\ UNCHANGED <<store, fuel>>

\* A request fails.  The error page takes the filter away, and brings it back
\* as it is at first.
Failed ==
    /\ fuel > 0 /\ fuel' = fuel - 1
    /\ ui' = [ui EXCEPT !.error = TRUE, !.refreshing = FALSE, !.select = None]
    /\ UNCHANGED <<store, cache>>

Record(t) ==
    /\ store[t] < MaxEvents
    /\ store' = [store EXCEPT ![t] = @ + 1]
    /\ UNCHANGED <<cache, ui, fuel>>

Init ==
    /\ store \in [Types -> 0..MaxEvents]
    /\ cache = [k \in Pages \X Filters |-> Unknown]
    /\ ui = [page |-> 1, eventFilter |-> None, select |-> None, refreshing |-> FALSE,
             error |-> FALSE]
    /\ fuel = MaxFuel

Next ==
    \/ \E f \in Filters : HandleFilterChange(f)
    \/ Next_ \/ Previous \/ HandleRefresh \/ Answered \/ Failed
    \/ \E t \in Types : Record(t)

Spec == Init /\ [][Next]_avars

-----------------------------------------------------------------------------

\* The page on screen exists, under whatever filter was chosen on the way to
\* it, and once it has loaded the user can turn back from it: without that the
\* table is empty, the buttons are gone, and only another filter helps.
PageExists ==
    /\ ui.page = 1 \/ (ui.page - 1) * Limit < Recorded(ui.eventFilter)
    /\ ui.page > 1 /\ Data # Unknown => TotalPages > 1
=============================================================================
