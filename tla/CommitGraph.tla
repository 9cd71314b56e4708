----------------------------- MODULE CommitGraph -----------------------------
(***************************************************************************)
(* The commit graph a release command reads, and the interval of commits a *)
(* release covers (internal/vcs/interval.go).  A commit is a positive      *)
(* number; its parents have smaller numbers, which is how git builds       *)
(* history.                                                                *)
(***************************************************************************)
EXTENDS Integers

CONSTANTS
    Commits,    \* the commits of the repository
    Parents     \* Parents[c]: the parents of commit c

ASSUME CommitsAssumption ==
    /\ Commits \subseteq Nat \ {0}
    /\ Parents \in [Commits -> SUBSET Commits]
    /\ \A c \in Commits : \A p \in Parents[c] : p < c

(* No commit: the absent boundary, the absent predecessor. *)
NoCommit == 0

(* A commit and everything reachable through its parents (commitReach and  *)
(* its twin ancestryReach): what every set that holds the commit and the   *)
(* parents of its members must hold.                                       *)
ParentClosed(S) == \A c \in S : Parents[c] \subseteq S
Reach == [c \in Commits |->
            {a \in Commits : \A S \in SUBSET Commits : c \in S /\ ParentClosed(S) => a \in S}]

(* MUTANT of GenesisInterval: a first release covers the whole history,    *)
(* boundary or not.                                                        *)
GenesisFromRoot(boundary, to) == Reach[to]

(* SelectInterval, the two genesis modes.  Inception (no boundary) covers  *)
(* everything reachable from TO; adoption covers the boundary itself and   *)
(* what came after it.                                                     *)
GenesisInterval(boundary, to) ==
    IF boundary = NoCommit
    THEN Reach[to]
    ELSE Reach[to] \ UNION {Reach[p] : p \in Parents[boundary]}

GenesisIntervalOK(boundary, to) == boundary # NoCommit => boundary \in Reach[to]

(* SelectInterval, the recurring mode: P..TO, where P is the accepted      *)
(* predecessor's commit.  TO = P is refused as promotion_required.         *)
RecurringInterval(p, to) == Reach[to] \ Reach[p]

RecurringIntervalOK(p, to) == p \in Reach[to] /\ p # to
==============================================================================
