---------------------------- MODULE ConfigEditor ----------------------------
(***************************************************************************)
(* The editor of a configuration (configs/ConfigEditorSideBySide.tsx): the *)
(* text on the left, the drawing of its pipelines on the right, and the    *)
(* badges, which tell what two debounced hooks have made of the text:      *)
(* useYamlParser (300 ms) and useYamlValidation (500 ms), the latter of    *)
(* which also sets markers in the text, if Monaco, the editor proper, has  *)
(* been loaded by then.                                                    *)
(***************************************************************************)
EXTENDS YamlPosition

CONSTANTS
    Texts,      \* the texts the editor may be opened with
    Typed,      \* the texts that may be typed into it
    MaxFuel     \* bound: how often the text changes

\* The texts are texts, and None, which stands for no box, is none.
EditorAssumption ==
    /\ PositionAssumption
    /\ Texts \subseteq Text /\ Typed \subseteq Text /\ MaxFuel \in Nat
    /\ None \notin Stages \X Range(Lower) \X Names

VARIABLES
    store,      \* the text
    cache,      \* parsed: parseResult.valid; result: validationResult; marked:
                \* the text for whose result markers were set last, or None
    calls,      \* the timers that are running
    ui,         \* isParsing, isValidating; crashed: an effect has thrown; mounted:
                \* Monaco has; early: history, the text came before that
    fuel

evars == <<store, cache, calls, ui, fuel>>

TypeOK ==
    /\ store \in Text
    /\ cache.parsed \in BOOLEAN /\ cache.result.valid \in BOOLEAN
    /\ cache.marked = None \/ cache.marked \in Text
    /\ calls \subseteq {"parse", "validate"}
    /\ ui \in [isParsing : BOOLEAN, isValidating : BOOLEAN, crashed : BOOLEAN,
               mounted : BOOLEAN, early : BOOLEAN]
    /\ fuel \in 0..MaxFuel

-----------------------------------------------------------------------------

\* The drawing is on screen while the last parse was good.  It is made anew
\* whenever it appears or the text changes; an exception takes the console down.
DrawingShown == cache.parsed /\ ~ui.crashed

\* Mutant: the validation does not say that it has begun.
BugOnChange(t) ==
    /\ ~ui.crashed /\ t # store
    /\ fuel > 0 /\ fuel' = fuel - 1
    /\ store' = t
    /\ calls' = {"parse", "validate"}
    /\ ui' = [ui EXCEPT !.isParsing = TRUE, !.crashed = DrawingShown /\ GenerateThrows(t),
                        !.early = ~ui.mounted]
    /\ UNCHANGED cache

\* The text is typed, or the page loads another one into the editor, which it
\* may do before Monaco has mounted.  The effects of the hooks clear the timers
\* of the text before.
OnChange(t) ==
    /\ ~ui.crashed /\ t # store
    /\ fuel > 0 /\ fuel' = fuel - 1
    /\ store' = t
    /\ calls' = {"parse", "validate"}
    /\ ui' = [ui EXCEPT !.isParsing = TRUE, !.isValidating = TRUE,
                        !.crashed = DrawingShown /\ GenerateThrows(t), !.early = ~ui.mounted]
    /\ UNCHANGED cache

\* Monaco is loaded meanwhile.  From now on there are an editor, a model and
\* window.monaco; the hooks are not told.
HandleEditorDidMount ==
    /\ ~ui.mounted /\ ~ui.crashed
    /\ ui' = [ui EXCEPT !.mounted = TRUE]
    /\ UNCHANGED <<store, cache, calls, fuel>>

\* White space counts as valid, and returns early: isParsing stays set.
ParseYaml ==
    LET good == store.form # "broken" IN
    /\ "parse" \in calls /\ ~ui.crashed
    /\ calls' = calls \ {"parse"}
    /\ cache' = [cache EXCEPT !.parsed = good]
    /\ ui' = [ui EXCEPT !.isParsing = @ /\ store.form \in {"empty", "blank"},
                        !.crashed = good /\ ~cache.parsed /\ GenerateThrows(store)]
    /\ UNCHANGED <<store, fuel>>

\* What the validators say, or the one error that is the exception of the parser.
Performed(t) ==
    IF t.form \in {"empty", "blank"} THEN [valid |-> TRUE, errors |-> {}]
    ELSE IF t.form = "broken"
    THEN [valid |-> FALSE, errors |-> {Complaint("error", None, "yaml", None)}]
    ELSE ValidateYamlConfig(t)

\* The timer of 500 ms, set with the one of 300 ms, runs out after it.  The
\* markers are set only when the validators have run: those of an earlier text
\* stay when the text becomes white space or cannot be parsed.  Before Monaco
\* has mounted none are set, and nothing sets them afterwards.
PerformValidation ==
    /\ calls = {"validate"} /\ ~ui.crashed
    /\ calls' = {}
    /\ cache' = [cache EXCEPT !.result = Performed(store),
                              !.marked = IF store.form \in {"empty", "blank", "broken"} \/ ~ui.mounted
                                         THEN @ ELSE store]
    /\ ui' = [ui EXCEPT !.isValidating = FALSE]
    /\ UNCHANGED <<store, fuel>>

Init ==
    /\ store \in Texts
    /\ cache = [parsed |-> TRUE, result |-> [valid |-> TRUE, errors |-> {}], marked |-> None]
    /\ calls = {"parse", "validate"}
    /\ ui = [isParsing |-> TRUE, isValidating |-> TRUE, crashed |-> GenerateThrows(store),
             mounted |-> FALSE, early |-> TRUE]
    /\ fuel = MaxFuel

Next == HandleEditorDidMount \/ ParseYaml \/ PerformValidation \/ \E t \in Typed : OnChange(t)

Spec == Init /\ [][Next]_evars

-----------------------------------------------------------------------------
(* What is on screen                                                       *)

Severe(errors) == \E e \in errors : e.severity = "error"

\* The badge above the text.
LeftBadge ==
    IF ui.isParsing \/ ui.isValidating THEN "busy"
    ELSE IF ~cache.parsed THEN "parse error"
    ELSE IF cache.result.errors = {} THEN "none"
    ELSE IF Severe(cache.result.errors) THEN "errors" ELSE "warnings"

\* The badge above the drawing, which does not wait for the hooks.
RightBadge ==
    IF cache.parsed /\ cache.result.valid THEN "Valid"
    ELSE IF cache.parsed /\ cache.result.errors # {} /\ ~Severe(cache.result.errors) THEN "Warnings"
    ELSE "Invalid"

Settled == ~ui.crashed /\ LeftBadge # "busy"

\* Every name the text uses is defined where it has to be.
AllDefined(t) ==
    /\ \A i \in DOMAIN t.pipelines : \A s \in Stages :
           Members(ListOf(t.pipelines[i], s)) \subseteq Defined(t, s)
    /\ t.uses \subseteq t.defines["extensions"]

\* Once neither hook is at work the badges speak of the text on screen,
\* whatever was typed while a timer was running: a text that cannot be parsed
\* is called so, one that uses undefined names is invalid on both sides, one
\* that merely lacks receivers or exporters is valid with a warning.
VerdictIsCurrent ==
    Settled =>
        /\ LeftBadge = "parse error" <=> store.form = "broken"
        /\ RightBadge = IF LeftBadge \in {"parse error", "errors"} THEN "Invalid" ELSE "Valid"
        /\ HasPipelines(store) /\ ~Throws(store) =>
              /\ LeftBadge = "errors" <=> ~AllDefined(store)
              /\ LeftBadge = "warnings" =>
                    \E i \in DOMAIN store.pipelines : <<>> \in {store.pipelines[i].body[s] : s \in Stages}

\* The markers in a settled text are those of this text, and never of another.
\* Only a text that came before Monaco had mounted may have none, whatever the
\* badge says: if its timer was the faster the markers are missing until it
\* changes.  And each complaint is marked where MarksItsLine wants it, under its
\* own pipeline and list however the text is laid out, although the search for the
\* line knows nothing of the nesting of the keys.  Not so for text that has become
\* white space or cannot be parsed, where the markers of another text remain.
MarkersAreRight ==
    Settled /\ store.form \notin {"empty", "blank", "broken"} =>
        /\ cache.marked = store \/ (cache.marked = None /\ ui.early)
        /\ HasPipelines(store) =>
              \A layout \in Layouts : \A e \in cache.result.errors :
                  MarksItsLine(Lines(store, layout), e)

\* The console survives every text whose lists are lists, null pipelines, empty
\* ones and unparsable texts included, in whatever order the drawing and the
\* hooks take them up.
SurvivesLists ==
    ui.crashed => \/ store.form \in {"blank", "comment"}
                  \/ HasPipelines(store) /\ Scalar(store.pipelines)

-----------------------------------------------------------------------------
(* The drawing on screen                                                   *)

Drawing == GeneratePipelineNodes(store)
Drawn == DrawingShown /\ ~GenerateThrows(store) /\ HasPipelines(store)

\* The boxes that arrows lead to from a box, in any number of steps and not by
\* way of `without`.
Reached(edges, from, without) ==
    LET reach[n \in 0..Cardinality(edges)] ==
            IF n = 0 THEN {from} \ {without}
            ELSE LET near == reach[n - 1]
                 IN near \cup {e[2] : e \in {f \in edges : f[1] \in near /\ f[2] # without}}
    IN reach[Cardinality(edges)]

\* Names that differ in lower case, and no processor listed twice.
Unambiguous(pipelines) ==
    /\ \A i, j \in DOMAIN pipelines : Lower[pipelines[i].name] = Lower[pipelines[j].name] => i = j
    /\ \A i \in DOMAIN pipelines :
           Cardinality(Range(ListOf(pipelines[i], "processors"))) = Count(pipelines[i], "processors")

\* The drawing shows how data flow: from a receiver exactly the exporters of
\* its pipeline are reached, every processor of the pipeline is on the way to
\* each of them, and the processors come in the order of the text.
DrawsTheFlow ==
    Drawn /\ Unambiguous(store.pipelines) =>
        \A i \in DOMAIN store.pipelines :
            LET p == store.pipelines[i]
                E == Drawing.edges
                Of(stage) == {Id(stage, p, n) : n \in Range(ListOf(p, stage))}
            IN \A r \in Of("receivers") :
                 /\ {b \in Reached(E, r, None) : b[1] = "exporters"} = Of("exporters")
                 /\ \A x \in Of("processors") : Reached(E, r, x) \cap Of("exporters") = {}
                 /\ \A j, k \in 1..Count(p, "processors") :
                      j < k => Id("processors", p, p.body["processors"][k]) \in
                                   Reached(E, Id("processors", p, p.body["processors"][j]), r)

\* Every arrow joins two boxes, no two boxes of the drawing overlap, and each
\* lies within the section of its pipeline, however many there are.
BoxesFit ==
    Drawn =>
        LET d == Drawing
            Apart(a, b) == \/ a.x + BoxWidth <= b.x \/ b.x + BoxWidth <= a.x
                           \/ a.y + BoxHeight <= b.y \/ b.y + BoxHeight <= a.y
        IN /\ \A e \in d.edges : {e[1], e[2]} \subseteq {n.id : n \in d.nodes}
           /\ \A a, b \in d.nodes : a = b \/ Apart(a, b)
           /\ \A i \in DOMAIN store.pipelines :
                LET p == store.pipelines[i]
                    top == Tops(store.pipelines)
                IN \A b \in Boxes(p, top[i]) :
                     /\ top[i] < b.y /\ b.y + BoxHeight <= top[i] + HeightOf(p)
                     /\ top[i] + HeightOf(p) < top[i + 1]
                     /\ 50 < b.x /\ b.x + BoxWidth <= 50 + SectionWidth(Count(p, "processors"))

\* All that the drawing is there for.
DrawingIsFaithful == SurvivesLists /\ DrawsTheFlow /\ BoxesFit
=============================================================================
