------------------------------ MODULE Aggregation ------------------------------
(***************************************************************************)
(* The end of a verification (internal/verify/verify.go, aggregate.go): the*)
(* guarded paths, the floors of the scopes, then the propagation over the  *)
(* workspace's modules and the component the release is about.             *)
(*                                                                         *)
(* PathScopes and Propagation are the two halves.  The first knows a       *)
(* commit's paths, the second only which directories they lie in.          *)
(***************************************************************************)
EXTENDS PathScopes, Workspace

CONSTANTS
    DirOf,      \* DirOf[path]: the directory a path lies in
    Cases       \* what verifications may be given, a record of sets each:
                \*   scopes    the policies' [scopes] tables
                \*   commits   the classified ranges
                \*   ws        the workspaces exported from the released commit
                \*   policy    the graph adapter, the component the caller asks
                \*             for (or None) and the descriptor's

ASSUME DirsAssumption == DirOf \in [Paths -> Dirs]

ASSUME CasesAssumption ==
    \A c \in Cases :
        /\ \A table \in c.scopes : DOMAIN table \subseteq Seq(STRING)
        /\ c.commits \subseteq Seq(CommitFields)
        /\ \A w \in c.ws : /\ DOMAIN w \subseteq Dirs /\ IsFiniteSet(DOMAIN w)
                           /\ \A d \in DOMAIN w : w[d] \in Modules

VARIABLES
    phase,      \* "scopes", "graph", "reported" or "aborted"
    policy,     \* the adapter and the components, see Cases
    ws, edges, index, low, stack, frames, sccOf, nextSCC    \* of Propagation

DirCommits == {[level |-> commits[i].level, paths |-> {DirOf[p] : p \in commits[i].paths}] :
                 i \in DOMAIN commits}
Graph == INSTANCE Propagation WITH commits <- DirCommits

graphVars == <<ws, edges, index, low, stack, frames, sccOf, nextSCC>>
vars == <<scopeVars, phase, policy, graphVars>>

Init ==
    /\ \E c \in Cases : /\ scopes \in c.scopes /\ commits \in c.commits
                        /\ ws \in c.ws /\ policy \in c.policy
    /\ ScopesBegin
    /\ edges = {}
    /\ Graph!Begin
    /\ phase = "scopes"

ScopePass ==
    /\ phase = "scopes"
    /\ Visit
    /\ UNCHANGED <<phase, policy, graphVars>>

(* A violation ends the verification before any floor is used.             *)
AbortMeta ==
    /\ phase = "scopes"
    /\ Aborted
    /\ phase' = "aborted"
    /\ UNCHANGED <<scopeVars, policy, graphVars>>

(* The modules are read only for the gomod adapter, and may not resolve.   *)
Resolve ==
    /\ phase = "scopes" /\ ScopesDone /\ ~Aborted
    /\ policy.adapter = "gomod"
    /\ IF Resolvable(ws)
       THEN phase' = "graph" /\ edges' = Edges(ws)
       ELSE phase' = "aborted" /\ edges' = edges
    /\ UNCHANGED <<scopeVars, policy, ws, index, low, stack, frames, sccOf, nextSCC>>

Traverse ==
    /\ phase = "graph"
    /\ Graph!Traverse
    /\ UNCHANGED <<scopeVars, phase, policy>>

--------------------------------------------------------------------------------
(* targetComponent: the requested one, the root, or the first by name.     *)
Target(names) ==
    IF policy.requested # None THEN policy.requested
    ELSE IF policy.adapter = "gomod" /\ Root \in names THEN Root
    ELSE IF names # {} THEN Graph!Least(names)
    ELSE None

(* The effective trust of everything reported: of the modules, or without a*)
(* graph of the touched scopes, whose floors it then is (propagateNone).   *)
Names == IF policy.adapter = "gomod" THEN DOMAIN ws ELSE DOMAIN floors
Effective ==
    IF policy.adapter = "gomod" THEN Graph!Effective
    ELSE [s \in DOMAIN floors |-> [level |-> floors[s], source |-> s]]

(* The target is reported if it is among them and is what the descriptor   *)
(* says.                                                                   *)
Report ==
    /\ \/ phase = "graph" /\ Graph!Done
       \/ phase = "scopes" /\ ScopesDone /\ ~Aborted /\ policy.adapter = "none"
    /\ phase' = IF Target(Names) \in Names /\ Target(Names) = policy.component
                THEN "reported" ELSE "aborted"
    /\ UNCHANGED <<scopeVars, policy, graphVars>>

Next == ScopePass \/ AbortMeta \/ Resolve \/ Traverse \/ Report

Spec == Init /\ [][Next]_vars /\ WF_vars(Next)

--------------------------------------------------------------------------------
(* The traversal (tarjan): its stack holds what is unfinished, components  *)
(* are finished after what they depend on, and at the end they are the sets*)
(* of modules that depend on each other.                                   *)
TraversalRight ==
    /\ Graph!StackOK /\ Graph!DependenciesFirst
    /\ phase = "graph" => Graph!ComponentsRight

(* What is reported for modules launders no commit's level, and names where*)
(* each level comes from (Propagate).                                      *)
Propagated == phase = "reported" /\ policy.adapter = "gomod"
LevelsRight == Propagated => Graph!NoLaundering /\ Graph!SourceHolds

(* The two halves agree: a release of the whole workspace is trusted no    *)
(* more than the lowest scope anything was committed to, whatever globs the*)
(* policy has (aggregate.go takes the modules' floors over directories, the*)
(* scopes' over globs).                                                    *)
HeadlineBounded ==
    Propagated /\ policy.component = Root =>
        \A s \in DOMAIN floors : Effective[Root].level <= floors[s]

(* A verification ends, reported or aborted.                               *)
Terminates == <>(phase \in {"reported", "aborted"})

(* Where TraversalRight and LevelsRight hold: no directive replaces another*)
(* version of a path than the one required.  Where one does, what a module *)
(* is built from is not what its edges say (RequiresAreEdges).             *)
Matched(w) ==
    \A d \in DOMAIN w : \A req \in w[d].requires, r \in w[d].replaces :
        r.old = req.path => r.version \in {AnyVersion, req.version}
ReplacesMatch == \A c \in Cases : \A w \in c.ws : Matched(w)

(* In the traversal, what Propagate says of ties, and gomod.go of requires.*)
SmallestSource == Propagated => Graph!SmallestSource
RequiresAreEdges == Propagated => Graph!RequiresAreEdges
==============================================================================
