---------------------------- MODULE MCReleaseChain ----------------------------
EXTENDS ReleaseRefinement, TLC

(* A straight line of three commits. *)
LineParents == [c \in Commits |-> IF c = 1 THEN {} ELSE {c - 1}]
(* Two branches off commit 1, merged by commit 5; the project adopts the   *)
(* scheme at commit 2 and already has the tag v1.0.0 on commit 1.          *)
MergeParents == [c \in Commits |-> CASE c = 1 -> {} [] c \in {2, 4} -> {1}
                                     [] c = 3 -> {2} [] c = 5 -> {3, 4}]
LegacyTag == << [name |-> CleanName(<<1, 0, 0>>), oid |-> 9, commit |-> 1] >>
(* Agent-written commits: T0 until reviewed. *)
AgentAuthors == [c \in Commits |-> "agent"]
(* Humans write, but for the second commit. *)
MixedAuthors == [c \in Commits |-> IF c = 2 THEN "agent" ELSE "human"]
(* Humans write, but for the commit after the boundary. *)
BranchAuthors == [c \in Commits |-> IF c = 3 THEN "agent" ELSE "human"]
(* The second commit adds API, the others do not. *)
SomeChanges == [c \in Commits |-> IF c = 2 THEN MinorBump ELSE Patch]
NoLegacy == <<>>
InOrder == {[o \in Ops |-> o]}
AnyOrder == {f \in [Ops -> Ops] : \A a, b \in Ops : f[a] = f[b] => a = b}
==============================================================================
