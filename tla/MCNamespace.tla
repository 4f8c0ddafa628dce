---------------------------- MODULE MCNamespace ----------------------------
(* Two clients, which create one name with each layout and remove it, or     *)
(* create a file each.                                                       *)
EXTENDS Namespace

CONSTANTS c1, c2, n1, n2

Create(name, layout) == [op |-> "create", name |-> name, layout |-> layout]
Remove == [op |-> "remove", name |-> n1, layout |-> "stuffed"]
Asked(a, b) == [c \in {c1, c2} |-> IF c = c1 THEN a ELSE b]

MCJobs == {Asked(Create(n1, l), Remove) : l \in {"stuffed", "mixed", "remote"}}
          \cup {Asked(Create(n1, "mixed"), Create(n1, "stuffed")), Asked(Remove, Remove)}

MCTwoFiles == {Asked(Create(n1, "stuffed"), Create(n2, "stuffed"))}
=============================================================================
