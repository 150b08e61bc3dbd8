------------------------------- MODULE PathRules -------------------------------
(***************************************************************************)
(* Which agents a file of a git repository is for                          *)
(* (internal/gitsync/matcher.go).  A path is the sequence of its segments  *)
(* below the config root, the last one without its extension; the labels   *)
(* of an agent and the selectors of a rule are functions from keys.        *)
(***************************************************************************)
EXTENDS Naturals, Sequences

InEnvironment(p) == Len(p) = 3 /\ p[1] = "environments"
InGroups(p)      == Len(p) = 2 /\ p[1] = "groups"

\* Files elsewhere are ignored.
IsRule(p) == InEnvironment(p) \/ InGroups(p)

\* The keys a rule requires: "default" stands for any environment, "base" and
\* "default" for any role.
RequiredKeys(p) ==
    IF InGroups(p) THEN {"group.id"}
    ELSE {k \in {"deployment.environment", "collector.role"} :
            /\ k = "deployment.environment" => p[2] # "default"
            /\ k = "collector.role" => p[3] \notin {"base", "default"}}

Selectors(p) ==
    [k \in RequiredKeys(p) |-> IF k = "collector.role" THEN p[3] ELSE p[2]]

\* A key that is missing reads as the empty string.
LabelOf(labels, k) == IF k \in DOMAIN labels THEN labels[k] ELSE ""

labelsMatch(required, labels) == \A k \in DOMAIN required : LabelOf(labels, k) = required[k]

Selects(p, labels) == IsRule(p) /\ labelsMatch(Selectors(p), labels)
================================================================================
