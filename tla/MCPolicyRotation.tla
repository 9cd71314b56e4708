--------------------------- MODULE MCPolicyRotation ---------------------------
EXTENDS PolicyRotation, TLC

LineParents == [c \in Commits |-> IF c = 1 THEN {} ELSE {c - 1}]
(* Commits 2 and 3 branch off commit 1, commit 4 merges them. *)
DiamondParents == [c \in Commits |-> CASE c = 1 -> {} [] c \in {2, 3} -> {1} [] c = 4 -> {2, 3}]

First == [level |-> 2, meta |-> Files, signers |-> [k \in {"k1"} |-> "alice"],
          attesters |-> {"a1"}, workflow |-> 1]
(* Alice gets a second key, and a second attester is enrolled. *)
Widened == [First EXCEPT !.signers = [k \in {"k1", "k2"} |-> "alice"], !.attesters = {"a1", "a2"}]
(* The second key is Bob's. *)
WithBob == [First EXCEPT !.signers = [k \in {"k1", "k2"} |-> IF k = "k1" THEN "alice" ELSE "bob"]]
(* The first attester is replaced. *)
NewAttester == [First EXCEPT !.attesters = {"a2"}]
(* The guards are lowered, in two ways; the workflow is edited. *)
LowLevel == [First EXCEPT !.level = 1]
Unguarded == [First EXCEPT !.meta = {"policy"}]
Edited == [First EXCEPT !.workflow = 2]

AllTrees == {First, Widened, WithBob, NewAttester, LowLevel, Unguarded, Edited}
WorkflowChanges == {First, Edited}
==============================================================================
