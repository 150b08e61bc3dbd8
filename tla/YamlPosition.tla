---------------------------- MODULE YamlPosition ----------------------------
(***************************************************************************)
(* Where in the text the editor marks what the validators complain of      *)
(* (lib/validation/yaml-position.ts): the search for a path of keys, line  *)
(* by line, and then for a name in the list under the last key.            *)
(*                                                                         *)
(* A line is its indentation and what it holds: a key, maybe with a list   *)
(* in brackets, an item of a list, or nothing that counts (white space, a  *)
(* comment).  Columns are not modelled.                                    *)
(***************************************************************************)
EXTENDS CollectorConfig, FiniteSetsExt, SequencesExt

CONSTANT
    Parts       \* of each name: the names in whose text it stands as a word
                \* (\b...\b), itself among them: otlp does in otlp/2

\* The settings of components that are told apart.
Settings == {"timeout", "service", "endpoint"}

\* No component is called like a key of the service, no pipeline like a list or
\* like the service (those of the collector are called after signals), no scalar
\* is an empty list, and None is nothing that a text says.
PositionAssumption ==
    /\ IsFiniteSet(Names)
    /\ Parts \in [Names -> SUBSET Names] /\ \A n \in Names : n \in Parts[n]
    /\ {"service", "pipelines", "extensions"} \cap Names = {}
    /\ (Stages \cup {"service"}) \cap DOMAIN Lower = {}
    /\ Word # <<>>
    /\ None \notin Names \cup DOMAIN Lower \cup Sections \cup Settings \cup {"pipelines"}

Nothing == [indent |-> 0, key |-> None, list |-> <<>>, item |-> None]
Key(indent, key, list) == [Nothing EXCEPT !.indent = indent, !.key = key, !.list = list]
Item(indent, name) == [Nothing EXCEPT !.indent = indent, !.item = name]

\* Mutant: a comment at the left edge counts as the end of what is above it.
BugSkipped(line) == line.key = None /\ line.item = None /\ line.indent > 0

\* White space and comments.
Skipped(line) == line.key = None /\ line.item = None

-----------------------------------------------------------------------------
(* The search                                                              *)

\* The line of the last key of the path, 0 if there is none.  A key that is the
\* next of the path is taken wherever it stands; a line that is further left
\* than the last key taken starts the search anew, with the line after it.
KeyLine(lines, path) ==
    LET scan[i \in 0..Len(lines)] ==
            IF i = 0 THEN [at |-> 0, indent |-> 0, found |-> 0]
            ELSE LET before == scan[i - 1]
                     line == lines[i]
                 IN IF before.found # 0 \/ Skipped(line) THEN before
                    ELSE IF line.key = path[before.at + 1]
                    THEN [at |-> before.at + 1, indent |-> line.indent,
                          found |-> IF before.at + 1 = Len(path) THEN i ELSE 0]
                    ELSE IF line.indent < before.indent
                    THEN [at |-> 0, indent |-> 0, found |-> 0] ELSE before
    IN scan[Len(lines)].found

\* The letters of a scalar are sought like names, and not found.
Matching(name) == IF name = Word THEN {} ELSE Parts[name]

\* The items after the key that stand further right than it, up to the first
\* line that does not.
ItemLines(lines, key, name) ==
    {j \in (key + 1)..Len(lines) :
        /\ lines[j].item \in Matching(name)
        /\ \A k \in (key + 1)..j : Skipped(lines[k]) \/ lines[k].indent > lines[key].indent}

\* The line for the name, or for the key if the name is not found, 0 if the key
\* is not either.
FindYamlPosition(lines, path, name) ==
    LET key == KeyLine(lines, path)
        items == ItemLines(lines, key, name)
    IN IF key = 0 \/ name = None THEN key
       ELSE IF Range(lines[key].list) \cap Matching(name) # {} \/ items = {} THEN key
       ELSE Min(items)

\* The path that a validator gives with its complaint.
PathOf(e) ==
    IF e.what = "extensions" THEN <<"service", "extensions">>
    ELSE IF e.severity = "warning" THEN <<"service", "pipelines", e.pipeline>>
    ELSE <<"service", "pipelines", e.pipeline, e.what>>

\* Line 1 stands in for a position that is not found.
CreateValidationError(lines, e) ==
    LET line == FindYamlPosition(lines, PathOf(e), e.name)
    IN IF line = 0 THEN 1 ELSE line

-----------------------------------------------------------------------------
(* How a configuration may be laid out                                     *)

\* lists: in brackets, or one item to a line, further right than their key or
\* level with it; first: the service comes before the sections; commented: there
\* are comments, at the left edge; setting: a setting that processors have.
Layouts == [lists : {"brackets", "deeper", "level"}, first : BOOLEAN, commented : BOOLEAN,
            setting : Settings \ {"endpoint"}]

ListLines(layout, indent, key, list) ==
    IF list = Word \/ layout.lists = "brackets"
    THEN <<Key(indent, key, IF list = Word THEN <<>> ELSE list)>>
    ELSE <<Key(indent, key, <<>>)>> \o
         [k \in DOMAIN list |-> Item(indent + (IF layout.lists = "deeper" THEN 2 ELSE 0), list[k])]

\* A section with its components, each of which has a setting.
SectionLines(t, layout, s) ==
    LET names == SetToSeq(t.defines[s])
        setting == IF s = "processors" THEN layout.setting ELSE "endpoint"
    IN IF names = <<>> THEN <<>>
       ELSE <<Key(0, s, <<>>)>> \o
            FlattenSeq([k \in DOMAIN names |-> <<Key(2, names[k], <<>>), Key(4, setting, <<>>)>>])

PipelineLines(layout, p) ==
    <<Key(4, p.name, <<>>)>> \o
    (IF p.body = None THEN <<>>
     ELSE FlattenSeq([k \in 1..3 |->
            LET s == <<"receivers", "processors", "exporters">>[k]
            IN IF p.body[s] = <<>> THEN <<>> ELSE ListLines(layout, 6, s, p.body[s])]))

ServiceLines(t, layout) ==
    <<Key(0, "service", <<>>)>>
    \o (IF t.uses = {} THEN <<>> ELSE ListLines(layout, 2, "extensions", SetToSeq(t.uses)))
    \o <<Key(2, "pipelines", <<>>)>>
    \o FlattenSeq([i \in DOMAIN t.pipelines |->
            (IF layout.commented THEN <<Nothing>> ELSE <<>>) \o PipelineLines(layout, t.pipelines[i])])

Lines(t, layout) ==
    LET sections == FlattenSeq([k \in 1..5 |->
            SectionLines(t, layout, <<"receivers", "processors", "exporters", "connectors", "extensions">>[k])])
    IN IF layout.first THEN ServiceLines(t, layout) \o sections
                       ELSE sections \o ServiceLines(t, layout)

-----------------------------------------------------------------------------
(* What the search is meant to find                                        *)

\* By the rules of YAML a key lies under the nearest key before it that is
\* further left, an item under the nearest that is not further right.
Above(lines, i) ==
    {j \in 1..(i - 1) : /\ lines[j].key # None
                        /\ \/ lines[j].indent < lines[i].indent
                           \/ lines[i].item # None /\ lines[j].indent = lines[i].indent}

KeysTo(lines, i) ==
    LET to[j \in 0..i] ==
            IF j = 0 THEN <<>>
            ELSE LET above == IF Above(lines, j) = {} THEN 0 ELSE Max(Above(lines, j))
                 IN IF lines[j].key = None THEN to[above] ELSE Append(to[above], lines[j].key)
    IN to[i]

\* A search that comes upon a setting called service before the service begins
\* there.  What follows the last setting of a section, and is further left, is then
\* passed over if it is the service itself, or taken for the list of extensions
\* if it is the section of that name.
Sidetracked(lines, key) ==
    \E i \in 2..Len(lines) :
        /\ lines[i].key = key /\ lines[i].indent = 0 /\ lines[i - 1].key = "service"
        /\ \A j \in 1..(i - 1) : ~(lines[j].key = "service" /\ lines[j].indent = 0)

Overlooked(lines) == Sidetracked(lines, "service")
Mistaken(lines, e) == PathOf(e)[2] = "extensions" /\ Sidetracked(lines, "extensions")

\* What is marked for a complaint lies under the path that the complaint is
\* about (or is line 1, or a section, when the search was sidetracked), and if the
\* name has a line of its own there, further right than the key of its list, it is
\* that line, unless another name has it as a word in it.  Where the items of a
\* list are level with its key the search ends at the first of them, and it is the
\* key that is marked.
MarksItsLine(lines, e) ==
    LET line == CreateValidationError(lines, e)
        own == {j \in DOMAIN lines : lines[j].item = e.name /\ KeysTo(lines, j) = PathOf(e)}
        sought == /\ e.name \notin {None, Word} /\ own # {}
                  /\ \A j \in own : lines[j].indent > lines[Max(Above(lines, j))].indent
    IN IF Mistaken(lines, e) THEN KeysTo(lines, line) = <<"extensions">>
       ELSE IF Overlooked(lines) THEN line = 1
       ELSE /\ KeysTo(lines, line) = PathOf(e)
            /\ sought => lines[line].item \in Parts[e.name]
            /\ sought /\ Parts[e.name] = {e.name} => line \in own
=============================================================================
