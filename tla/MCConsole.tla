------------------------------ MODULE MCConsole ------------------------------
(* The pages of the console for TLC, one of which is open.  They share the *)
(* names of their variables; those that a page does not use stay None.     *)
EXTENDS Naturals, Sequences, TLC

CONSTANTS Rows, Slots, ConfigSlots, MaxRev, MaxFuel, None,
          Groups, Main, Items, Remote, DrawerFuel, Agents, Types, Limit, MaxEvents,
          MaxKeys, KeysFuel, Word, otlp, otlp2, batch

VARIABLES page, store, cache, calls, ui, own, fuel, loaded, kind, sent

vars == <<page, store, cache, calls, ui, own, fuel, loaded, kind, sent>>

-----------------------------------------------------------------------------
(* Texts of configurations                                                 *)

PipelineNames == [traces |-> "traces", Traces |-> "traces", logs |-> "logs"]

Body(receivers, processors, exporters) ==
    [receivers |-> receivers, processors |-> processors, exporters |-> exporters]

FirstBodies ==
    {None, Body(Word, <<>>, <<otlp>>)} \cup
    {Body(r, p, e) : r \in {<<>>, <<otlp>>, <<otlp, batch, otlp2>>},
                     p \in {<<>>, <<otlp>>, <<otlp2, otlp>>, <<otlp, otlp>>,
                             <<otlp, otlp2, batch>>},
                     e \in {<<>>, <<otlp2, otlp>>}}

SecondBodies == {None, Body(<<otlp>>, <<>>, <<otlp>>), Body(<<otlp2>>, <<otlp>>, <<>>)}

Pipelines ==
    {None, <<>>} \cup {<<[name |-> "traces", body |-> f]>> : f \in FirstBodies}
    \cup {<<[name |-> "traces", body |-> f], [name |-> n, body |-> g]>> :
            f \in FirstBodies, g \in SecondBodies, n \in {"Traces", "logs"}}

Defines ==
    LET In(Of(_)) == [s \in {"receivers", "processors", "exporters", "connectors", "extensions"} |-> Of(s)]
    IN {In(LAMBDA s : {otlp, otlp2, batch}), In(LAMBDA s : IF s = "processors" THEN {batch} ELSE {}),
        In(LAMBDA s : IF s \in {"receivers", "processors", "extensions"} THEN {otlp} ELSE {}),
        In(LAMBDA s : IF s = "connectors" THEN {otlp, otlp2} ELSE {otlp})}

Mappings(defines, pipelines, uses) ==
    {[form |-> "mapping", defines |-> d, pipelines |-> p, uses |-> u] :
        d \in defines, p \in pipelines, u \in uses}

TypedTexts ==
    {[form |-> f] : f \in {"empty", "blank", "comment", "scalar", "broken"}}
    \cup Mappings(Defines, {<<[name |-> "traces", body |-> Body(<<otlp>>, <<otlp2>>, e)]>> :
                              e \in {<<>>, <<otlp2>>}}, {{otlp}})

AllTexts == TypedTexts \cup Mappings(Defines, Pipelines, {{}, {otlp2}})

-----------------------------------------------------------------------------

Git     == INSTANCE GitSourcesPage WITH MaxRev <- MaxRev + 1
GroupsP == INSTANCE GroupsPage
Configs == INSTANCE ConfigsPage WITH Slots <- ConfigSlots
Drawer  == INSTANCE Drawers WITH MaxFuel <- DrawerFuel
Fleet   == INSTANCE FleetPages WITH Groups <- {Main}, Labelled <- {<<1, Main>>}
Audit   == INSTANCE AuditLogPage
Keys    == INSTANCE ApiKeysPage WITH MaxFuel <- KeysFuel
Editor  == INSTANCE ConfigEditor WITH
               Names <- {otlp, otlp2, batch}, Lower <- PipelineNames,
               Parts <- [n \in {otlp, otlp2, batch} |-> IF n = otlp THEN {otlp, otlp2} ELSE {n}],
               Texts <- AllTexts, Typed <- TypedTexts

ASSUME Fitting ==
    /\ Git!GitSourcesAssumption /\ GroupsP!GroupsAssumption /\ Configs!ConfigsAssumption
    /\ Fleet!FleetAssumption /\ Drawer!DrawersAssumption /\ Audit!AuditAssumption
    /\ Keys!KeysAssumption /\ Editor!EditorAssumption

Unused(x) == x = None

Init ==
    \/ page = "git" /\ Git!Init /\ Unused(loaded) /\ Unused(kind) /\ Unused(sent)
    \/ page = "groups" /\ GroupsP!Init /\ Unused(loaded) /\ Unused(kind) /\ Unused(sent)
    \/ page = "configs" /\ Configs!Init /\ Unused(kind) /\ Unused(sent)
    \/ page = "fleet" /\ Fleet!Init /\ Unused(sent)
    \/ page = "drawers" /\ Drawer!Init /\ Unused(loaded) /\ Unused(own)
    \/ page = "audit" /\ Audit!Init /\ Unused(calls) /\ Unused(own) /\ Unused(loaded)
                      /\ Unused(kind) /\ Unused(sent)
    \/ page = "keys" /\ Keys!Init /\ Unused(cache) /\ Unused(own) /\ Unused(loaded)
                     /\ Unused(kind) /\ Unused(sent)
    \/ page = "editor" /\ Editor!Init /\ Unused(own) /\ Unused(loaded) /\ Unused(kind) /\ Unused(sent)

Next ==
    \/ page = "git" /\ Git!Next /\ UNCHANGED <<page, loaded, kind, sent>>
    \/ page = "groups" /\ GroupsP!Next /\ UNCHANGED <<page, loaded, kind, sent>>
    \/ page = "configs" /\ Configs!Next /\ UNCHANGED <<page, kind, sent>>
    \/ page = "fleet" /\ Fleet!Next /\ UNCHANGED <<page, sent>>
    \/ page = "drawers" /\ Drawer!Next /\ UNCHANGED <<page, loaded, own>>
    \/ page = "audit" /\ Audit!Next /\ UNCHANGED <<page, calls, own, loaded, kind, sent>>
    \/ page = "keys" /\ Keys!Next /\ UNCHANGED <<page, cache, own, loaded, kind, sent>>
    \/ page = "editor" /\ Editor!Next /\ UNCHANGED <<page, own, loaded, kind, sent>>

Spec == Init /\ [][Next]_vars

Symmetry == Permutations(Slots)

-----------------------------------------------------------------------------
(* What holds on the page that is open                                     *)

\* Every page keeps to the types of its state.
TypeOK ==
    /\ page = "git" => Git!TypeOK
    /\ page = "groups" => GroupsP!TypeOK
    /\ page = "configs" => Configs!TypeOK
    /\ page = "fleet" => Fleet!TypeOK
    /\ page = "drawers" => Drawer!TypeOK
    /\ page = "audit" => Audit!TypeOK
    /\ page = "keys" => Keys!TypeOK
    /\ page = "editor" => Editor!TypeOK

\* No page with a table hides what its own user has done (ListPage).
PagesSeeOwnWrites ==
    /\ page = "git" => Git!SeesOwnWrites
    /\ page = "groups" => GroupsP!SeesOwnWrites
    /\ page = "configs" => Configs!SeesOwnWrites

\* No button is left disabled, and no spinner turning, without its handler under
\* way.  The buttons that save, send or restart are disabled all the while, so that
\* there is one such handler at most; Refresh and Sync Now are not, and may be
\* under way twice (GitSourcesPage, ConfigsPage, FleetPages, Drawers).
BusyIsTrue ==
    /\ page = "git" => Git!BusyIsTrue
    /\ page = "configs" => Configs!BusyIsTrue
    /\ page = "fleet" => Fleet!BusyIsTrue
    /\ page = "drawers" => Drawer!BusyIsTrue

\* Texts are stored for the configuration they were loaded from (ConfigsPage).
UpdatesItsOwn == page = "configs" => Configs!UpdatesItsOwn

\* Texts are sent to the agent they were typed for (Drawers).
SendsOwnText == page = "drawers" => Drawer!SendsOwnText

\* The page of the audit log on screen exists (AuditLogPage).
PageExists == page = "audit" => Audit!PageExists

\* A new API key stays on screen until its dialog is closed (ApiKeysPage).
KeysAreShown ==
    [][(page = "keys") => Keys!KeyStays]_vars

\* The badges of the editor speak of the text on screen (ConfigEditor).
VerdictIsCurrent == page = "editor" => Editor!VerdictIsCurrent

\* The markers, where there are any, are those of the text on screen, and lie
\* where the complaints are (ConfigEditor).
MarkersAreRight == page = "editor" => Editor!MarkersAreRight

\* What is drawn or listed is what there is: the pipelines of the text on screen
\* (ConfigEditor), the agents and groups of the last answer (FleetPages).
DrawingIsFaithful ==
    /\ page = "editor" => Editor!DrawingIsFaithful
    /\ page = "fleet" => Fleet!ShowsTheFleet
=============================================================================
