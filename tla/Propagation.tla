------------------------------ MODULE Propagation ------------------------------
(***************************************************************************)
(* The propagation of trust over a workspace's dependencies                *)
(* (internal/trust/propagate.go): Tarjan's algorithm with an explicit stack*)
(* of frames finds the components that depend on each other; they share    *)
(* one level, the least of their own and of what they depend on.           *)
(*                                                                         *)
(* Descend and Retreat are the two ways one pass of the loop over frames   *)
(* ends.  A frame's cursor is the last dependency looked at, None at first;*)
(* dependencies are looked at in order.  The algorithm is started by       *)
(* Aggregation, once the scopes are done.                                  *)
(***************************************************************************)
EXTENDS Workspace, Sequences

VARIABLES
    ws,         \* the workspace: a function from directories to modules
    edges,      \* its dependencies, consumer first
    commits,    \* the range's commits: levels and changed directories
    index,      \* index[v]: when v was discovered, for the nodes seen
    low,        \* low[v]: the least index known to be reachable from v
    stack,      \* the nodes of unfinished components
    frames,     \* the path of the traversal: nodes with their cursors
    sccOf,      \* sccOf[v]: the component of a finished node
    nextSCC     \* the next component's number

graphVars == <<ws, edges, index, low, stack, frames, sccOf, nextSCC>>

Nodes == DOMAIN ws
OnStack == {stack[i] : i \in DOMAIN stack}
Top == frames[Len(frames)]
Least(S) == CHOOSE x \in S : \A y \in S : x <= y

Begin ==
    /\ index = <<>> /\ low = <<>>
    /\ stack = <<>> /\ frames = <<>>
    /\ sccOf = <<>> /\ nextSCC = 0

(* MUTANT of Start: the traversal is started from the first node only.     *)
StartOnce ==
    /\ frames = <<>> /\ index = <<>>
    /\ frames' = <<[node |-> Least(Nodes), dep |-> None]>>
    /\ UNCHANGED <<ws, edges, index, low, stack, sccOf, nextSCC>>

(* The outer loop: the first node not seen yet becomes a root.             *)
Start ==
    /\ frames = <<>>
    /\ Nodes \ DOMAIN index # {}
    /\ frames' = <<[node |-> Least(Nodes \ DOMAIN index), dep |-> None]>>
    /\ UNCHANGED <<ws, edges, index, low, stack, sccOf, nextSCC>>

(* On its first pass a node is numbered and put on the stack.              *)
Entering == Top.dep = None
Numbered == Cardinality(DOMAIN index)
Indexes ==
    [v \in DOMAIN index \cup {Top.node} |-> IF v \in DOMAIN index THEN index[v] ELSE Numbered]

Stacked == IF Entering THEN Append(stack, Top.node) ELSE stack

Ahead == {w \in Nodes : <<Top.node, w>> \in edges /\ w > Top.dep}
Unseen == {w \in Ahead : w \notin DOMAIN Indexes}

(* The low link of the node on top after looking at some dependencies that *)
(* were all seen before: those still on the stack count.                   *)
LowAfter(scanned) ==
    LET v == Top.node
        back == {Indexes[w] : w \in {x \in scanned : x \in OnStack}}
        first == IF Entering THEN Numbered ELSE low[v]
    IN  Least({first} \cup back)

(* A pass that meets an unseen dependency goes down to it.                 *)
Descend ==
    /\ frames # <<>>
    /\ Unseen # {}
    /\ LET w == Least(Unseen)
           v == Top.node
       IN  /\ frames' = Append([frames EXCEPT ![Len(frames)].dep = w],
                               [node |-> w, dep |-> None])
           /\ low' = [u \in DOMAIN low \cup {v} |->
                IF u = v THEN LowAfter({x \in Ahead : x < w}) ELSE low[u]]
    /\ index' = Indexes
    /\ stack' = Stacked
    /\ UNCHANGED <<ws, edges, sccOf, nextSCC>>

(* MUTANT of Parent: the parent's low link is not lowered.                 *)
ParentKept(lows) == lows

(* Lowers the low link of the frame below the one that is left.            *)
Parent(lows) ==
    IF Len(frames) = 1 THEN lows
    ELSE LET p == frames[Len(frames) - 1].node
         IN  [lows EXCEPT ![p] = Least({@, lows[Top.node]})]

(* Where the stack is cut when the component of its entry at is finished.  *)
Popped(at) == at

(* A pass that meets none leaves the node: with a component, if the node   *)
(* is the first of one.                                                    *)
Retreat ==
    /\ frames # <<>>
    /\ Unseen = {}
    /\ LET v == Top.node
           lows == [u \in DOMAIN low \cup {v} |-> IF u = v THEN LowAfter(Ahead) ELSE low[u]]
           at == Popped(CHOOSE i \in DOMAIN Stacked : Stacked[i] = v)
       IN  /\ low' = Parent(lows)
           /\ IF lows[v] = Indexes[v]
              THEN /\ stack' = SubSeq(Stacked, 1, at - 1)
                   /\ sccOf' = [u \in DOMAIN sccOf \cup {Stacked[i] : i \in at..Len(Stacked)} |->
                        IF u \in DOMAIN sccOf THEN sccOf[u] ELSE nextSCC]
                   /\ nextSCC' = nextSCC + 1
              ELSE stack' = Stacked /\ UNCHANGED <<sccOf, nextSCC>>
    /\ index' = Indexes
    /\ frames' = SubSeq(frames, 1, Len(frames) - 1)
    /\ UNCHANGED <<ws, edges>>

Done == frames = <<>> /\ DOMAIN index = Nodes

Traverse == Start \/ Descend \/ Retreat

--------------------------------------------------------------------------------
Own(v) == FloorOverDir(commits, v)

(* A component's own state: its least own trust and that one's first holder*)
Component(id) ==
    LET members == {v \in Nodes : sccOf[v] = id}
        level == Least({Own(v) : v \in members})
    IN  [level |-> level, source |-> Least({v \in members : Own(v) = level})]

DependsOn(id, other) ==
    id # other /\ \E e \in edges : sccOf[e[1]] = id /\ sccOf[e[2]] = other

(* Whether a dependency's result replaces the best so far.                 *)
Worse(d, best, own) ==
    \/ d.level < best.level
    \/ d.level = best.level /\ best.level < own /\ d.source < best.source

(* The result of a component: over what it depends on, in the order of the *)
(* numbers; these are smaller than its own (DependenciesFirst).            *)
EffOf ==
    LET eff[id \in 0..(nextSCC - 1)] ==
          LET best[k \in 0..id] ==
                IF k = 0 THEN Component(id)
                ELSE IF DependsOn(id, k - 1) /\ Worse(eff[k - 1], best[k - 1], Component(id).level)
                THEN eff[k - 1] ELSE best[k - 1]
          IN  best[id]
    IN  eff

(* Propagate: a node whose own trust is the floor is its own source.       *)
Effective ==
    LET eff == EffOf
    IN  [v \in Nodes |->
          LET e == eff[sccOf[v]]
          IN  [level |-> e.level, source |-> IF Own(v) = e.level THEN v ELSE e.source]]

--------------------------------------------------------------------------------
(* What a module is built from besides itself: for a require that some     *)
(* replacement applies to, the replacement, else the path's module.        *)
BuiltFrom(d) ==
    LET applying(req) == {r \in ws[d].replaces : r.old = req.path /\ r.version \in {AnyVersion, req.version}}
    IN  {e \in Nodes \ {d} : \E req \in ws[d].requires :
            IF applying(req) = {} THEN ws[e].path = req.path
            ELSE \E r \in applying(req) : r.new \in {e, ws[e].path}}

(* All it is built from, directly or not, itself among them.               *)
ReachFrom(v) ==
    LET reach[k \in 0..Cardinality(Nodes)] ==
          IF k = 0 THEN {v} ELSE reach[k - 1] \cup UNION {BuiltFrom(u) : u \in reach[k - 1]}
    IN  reach[Cardinality(Nodes)]

(* The nodes on the stack are the seen ones without a component; no node is*)
(* on it twice, and the traversal's path lies on it, in its order.         *)
StackOK ==
    /\ DOMAIN low = DOMAIN index
    /\ OnStack = DOMAIN index \ DOMAIN sccOf
    /\ \A i, j \in DOMAIN stack : i < j => index[stack[i]] < index[stack[j]]
    /\ \A k \in 1..(Len(frames) - 1) : frames[k].node \in OnStack

(* A finished component never depends on an unfinished one, and its number *)
(* is not below that of one it depends on: eff is well defined (tarjan).   *)
DependenciesFirst ==
    \A e \in edges :
        e[1] \in DOMAIN sccOf => e[2] \in DOMAIN sccOf /\ sccOf[e[2]] <= sccOf[e[1]]

(* In the end two nodes are in one component exactly when each depends on  *)
(* the other (tarjan).                                                     *)
ComponentsRight ==
    Done => \A v, w \in Nodes :
        sccOf[v] = sccOf[w] <=> v \in ReachFrom(w) /\ w \in ReachFrom(v)

(* Trust is not laundered: no module's effective level is above that of a  *)
(* commit of the range to it or to a module it depends on, however far down*)
(* (Propagate, floorOverDir), and an untouched workspace keeps T3.         *)
NoLaundering ==
    Done => LET result == Effective
            IN  \A v \in Nodes :
                 /\ \A w \in ReachFrom(v), c \in commits :
                        CommitUnderDir(c, w) => result[v].level <= c.level
                 /\ result[v].level = 3 \/ \E w \in ReachFrom(v), c \in commits :
                        CommitUnderDir(c, w) /\ c.level = result[v].level

(* The module named as the source of a floor is depended on and has that   *)
(* level itself; a module that attains its floor names itself (Propagate). *)
SourceHolds ==
    Done => LET result == Effective
            IN  \A v \in Nodes :
                 /\ result[v].source \in ReachFrom(v)
                 /\ Own(result[v].source) = result[v].level
                 /\ Own(v) = result[v].level => result[v].source = v

(* What Propagate says of ties: of the modules that attain the floor of one*)
(* that does not attain it itself, the source is the first by name.        *)
SmallestSource ==
    Done => LET result == Effective
            IN  \A v \in Nodes : Own(v) # result[v].level =>
                    result[v].source = Least({w \in ReachFrom(v) : Own(w) = result[v].level})

(* What gomod.go says of a require: one of another workspace module's path *)
(* is an edge; a directive that replaces some other version does not apply.*)
RequiresAreEdges ==
    \A d, e \in Nodes : \A req \in ws[d].requires :
        /\ d # e /\ req.path = ws[e].path
        /\ \A r \in ws[d].replaces : r.old = req.path => r.version \notin {AnyVersion, req.version}
        => <<d, e>> \in edges
==============================================================================
