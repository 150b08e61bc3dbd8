--------------------------- MODULE CollectorConfig ---------------------------
(***************************************************************************)
(* What the console makes of the text of a collector configuration: the    *)
(* validators of lib/validation and the drawing of its pipelines           *)
(* (collector-pipeline/PipelineGenerator.tsx).                             *)
(*                                                                         *)
(* A text is known by what yaml.load makes of it: nothing at all ("empty", *)
(* "blank"), a mapping, something else, or an exception ("broken").  Of a  *)
(* mapping the sections count only as the names they define.               *)
(***************************************************************************)
EXTENDS Integers, Sequences, FiniteSets, Functions

CONSTANTS
    Names,      \* the names of components
    Lower,      \* of each name of a pipeline: the name in lower case
    Word,       \* a scalar where a list should be
    None        \* null

Sections == {"receivers", "processors", "exporters", "connectors", "extensions"}
Stages == {"receivers", "processors", "exporters"}

\* An absent list is an empty one to all that read it.
List == Seq(Names) \cup {Word}
Pipeline == [name : DOMAIN Lower, body : [Stages -> List] \cup {None}]

\* The keys of a mapping differ: a text that repeats one is an exception.
Keyed == {ps \in Seq(Pipeline) : \A i, j \in DOMAIN ps : ps[i].name = ps[j].name => i = j}

\* defines: the names in each section; pipelines: service.pipelines in the
\* order of the text, None if there is none; uses: service.extensions.
Mapping == [form : {"mapping"}, defines : [Sections -> SUBSET Names],
            pipelines : Keyed \cup {None}, uses : SUBSET Names]

\* "blank" is white space or comments only, which yaml.load makes nothing of;
\* "comment" stands for the comments, which trim() leaves.
Text == Mapping \cup [form : {"empty", "blank", "comment", "scalar", "broken"}]

HasPipelines(t) == t.form = "mapping" /\ t.pipelines # None

-----------------------------------------------------------------------------
(* Validation                                                              *)

\* Connectors can be used as both receivers and exporters.
Defined(t, stage) ==
    t.defines[stage] \cup (IF stage = "processors" THEN {} ELSE t.defines["connectors"])

\* The members of a scalar are its letters, which no name is.
Members(list) == IF list = Word THEN {Word} ELSE Range(list)

Complaint(severity, pipeline, what, name) ==
    [severity |-> severity, pipeline |-> pipeline, what |-> what, name |-> name]

\* A pipeline that is null makes a validator throw, and all that it has found
\* is lost (validateYamlConfig logs the exception).
Throws(t) == \E i \in DOMAIN t.pipelines : t.pipelines[i].body = None

PipelineErrors(t) ==
    IF ~HasPipelines(t) \/ Throws(t) THEN {}
    ELSE UNION {{Complaint("error", p.name, s, n) : n \in Members(p.body[s]) \ Defined(t, s)} :
                    p \in Range(t.pipelines), s \in Stages}

EmptyPipelineWarnings(t) ==
    IF ~HasPipelines(t) \/ Throws(t) THEN {}
    ELSE {Complaint("warning", ps[1].name, ps[2], None) :
            ps \in {q \in Range(t.pipelines) \X {"receivers", "exporters"} :
                        q[1].body[q[2]] = <<>>}}

ExtensionErrors(t) ==
    IF t.form # "mapping" THEN {}
    ELSE {Complaint("error", None, "extensions", n) : n \in t.uses \ t.defines["extensions"]}

\* A complaint is known by what it says, so that none is listed twice.
ValidateYamlConfig(t) ==
    LET errors == PipelineErrors(t) \cup ExtensionErrors(t) \cup EmptyPipelineWarnings(t)
    IN [valid |-> \A e \in errors : e.severity # "error", errors |-> errors]

-----------------------------------------------------------------------------
(* The drawing                                                             *)

Largest(S) == CHOOSE x \in S : \A y \in S : x >= y

\* Pixels.  The width of a box is the least its style allows.
BoxWidth == 192
BoxHeight == 100

SectionWidth(p) == 850 + (IF p > 1 THEN (p - 1) * 220 ELSE 0)

Stack(n) == IF n > 0 THEN BoxHeight + (n - 1) * 120 ELSE 0
SectionHeight(r, e) == Largest({320, Largest({Stack(r), Stack(e), BoxHeight}) + 160})

\* Mutant: the exporters are not moved to the right of the processors.
BugPosition(stage, k, r, p, e, top) ==
    LET centerY == top + SectionHeight(r, e) \div 2
        Fan(n)  == centerY - (n - 1) * 60 - 30 + k * 120
    IN CASE stage = "receivers"  -> [x |-> 100, y |-> Fan(r)]
         [] stage = "processors" -> [x |-> 350 + k * 220, y |-> centerY - 30]
         [] stage = "exporters"  -> [x |-> 600, y |-> Fan(e)]

\* Where the k-th box of a stage is, from 0, in a section of r receivers, p
\* processors and e exporters whose upper edge is at `top`.
Position(stage, k, r, p, e, top) ==
    LET centerY == top + SectionHeight(r, e) \div 2
        Fan(n)  == centerY - (n - 1) * 60 - 30 + k * 120
    IN CASE stage = "receivers"  -> [x |-> 100, y |-> Fan(r)]
         [] stage = "processors" -> [x |-> 350 + k * 220, y |-> centerY - 30]
         [] stage = "exporters"  -> [x |-> IF p > 0 THEN 350 + (p - 1) * 220 + 250 ELSE 600,
                                     y |-> Fan(e)]

\* The lists of a pipeline, of which a null one has none.
ListOf(pipeline, stage) == IF pipeline.body = None THEN <<>> ELSE pipeline.body[stage]
Count(pipeline, stage) == Len(ListOf(pipeline, stage))
HeightOf(pipeline) == SectionHeight(Count(pipeline, "receivers"), Count(pipeline, "exporters"))

\* The upper edge of each section, and of the one that would come next.
Tops(pipelines) ==
    LET top[i \in 1..(Len(pipelines) + 1)] ==
            IF i = 1 THEN 0 ELSE top[i - 1] + HeightOf(pipelines[i - 1]) + 40
    IN top

Id(stage, pipeline, name) == <<stage, Lower[pipeline.name], name>>

Boxes(pipeline, top) ==
    {LET at == Position(s[1], s[2] - 1, Count(pipeline, "receivers"), Count(pipeline, "processors"),
                        Count(pipeline, "exporters"), top)
     IN [id |-> Id(s[1], pipeline, ListOf(pipeline, s[1])[s[2]]), x |-> at.x, y |-> at.y] :
        s \in {q \in Stages \X (1..Largest({Count(pipeline, z) : z \in Stages} \cup {1})) :
                    q[2] <= Count(pipeline, q[1])}}

\* Fan-in to the first processor, the chain, fan-out from the last one; without
\* processors from every receiver to every exporter.
Arrows(pipeline) ==
    LET receivers  == Range(ListOf(pipeline, "receivers"))
        processors == ListOf(pipeline, "processors")
        exporters  == Range(ListOf(pipeline, "exporters"))
        last       == Len(processors)
    IN IF last > 0
       THEN {<<Id("receivers", pipeline, n), Id("processors", pipeline, processors[1])>> : n \in receivers}
            \cup {<<Id("processors", pipeline, processors[i]), Id("processors", pipeline, processors[i + 1])>> :
                    i \in 1..(last - 1)}
            \cup {<<Id("processors", pipeline, processors[last]), Id("exporters", pipeline, n)>> : n \in exporters}
       ELSE {<<Id("receivers", pipeline, r), Id("exporters", pipeline, e)>> :
                r \in receivers, e \in exporters}

\* generatePipelineNodes: a note instead of a drawing, a drawing, or an
\* exception: nothing has no service, and a scalar no forEach.
Note(note) == [note |-> note, nodes |-> {}, edges |-> {}]

Scalar(pipelines) == \E i \in DOMAIN pipelines : \E s \in Stages : ListOf(pipelines[i], s) = Word

GenerateThrows(t) ==
    \/ t.form \in {"blank", "comment"}
    \/ HasPipelines(t) /\ Scalar(t.pipelines)

GeneratePipelineNodes(t) ==
    IF t.form = "empty" THEN Note("no-config")
    ELSE IF t.form = "broken" THEN Note("parse-error")
    ELSE IF ~HasPipelines(t) THEN Note("no-service")
    ELSE IF t.pipelines = <<>> THEN Note("no-pipelines")
    ELSE [note  |-> "none",
          nodes |-> UNION {Boxes(t.pipelines[i], Tops(t.pipelines)[i]) : i \in DOMAIN t.pipelines},
          edges |-> UNION {Arrows(t.pipelines[i]) : i \in DOMAIN t.pipelines}]
=============================================================================
