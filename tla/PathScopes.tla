------------------------------ MODULE PathScopes ------------------------------
(***************************************************************************)
(* Which scopes a commit's paths fall into, the floor each scope gets and  *)
(* the commits that touch a guarded path (internal/trust/scope.go).  The   *)
(* passes are started and followed up by Aggregation.                      *)
(*                                                                         *)
(* Paths and globs are sequences of pieces of text; "/" separates segments *)
(* and a glob also has "*", "?" and "**".  A piece other than the wildcards*)
(* and "/" stands for one character.  A scope is the rank of its name among*)
(* the names, in the order the program sorts names by.                     *)
(***************************************************************************)
EXTENDS TrustDecision, Sequences, FiniteSets

CONSTANTS
    Paths,          \* the paths commits may touch
    MetaGlobs,      \* the [meta] paths of the policy
    RequiredLevel   \* ... and the level they require

ASSUME ScopesAssumption ==
    /\ RequiredLevel \in Levels
    /\ Paths \subseteq Seq(STRING) \ {<<>>} /\ MetaGlobs \subseteq Seq(STRING)

DefaultScope == 100

(* MUTANT of PieceMatches: "*" crosses a separator, as "**" does.          *)
StarCrosses(g, c) == g = c \/ g \in {"*", "**"} \/ (g = "?" /\ c # "/")

(* compileGlob: what one piece of a glob matches of a path; the stars match*)
(* any number of such pieces.                                              *)
PieceMatches(g, c) == g = c \/ g = "**" \/ (g \in {"*", "?"} /\ c # "/")

(* A piece of a glob against the pieces of a path after j up to k.         *)
Covers(g, path, j, k) ==
    IF g \in {"*", "**"}
    THEN \A x \in (j + 1)..k : PieceMatches(g, path[x])
    ELSE k = j + 1 /\ PieceMatches(g, path[k])

(* The whole path against the whole glob (the compiled expression is       *)
(* anchored): ends[i] is where in the path the first i pieces may end.     *)
Matches(glob, path) ==
    LET ends[i \in 0..Len(glob)] ==
          IF i = 0 THEN {0}
          ELSE UNION {{k \in j..Len(path) : Covers(glob[i], path, j, k)} : j \in ends[i - 1]}
    IN  Len(path) \in ends[Len(glob)]

(* scopesOf: every scope with a matching glob, or the default one.         *)
ScopesOf(path, scopes) ==
    LET touched == {scopes[g] : g \in {h \in DOMAIN scopes : Matches(h, path)}}
    IN  IF touched = {} THEN {DefaultScope} ELSE touched

MetaCovers(globs, path) == \E g \in globs : Matches(g, path)

VARIABLES
    scopes,     \* the policy's [scopes] table: a function from globs to names
    commits,    \* the classified commits of the range, newest first
    next,       \* the commit the passes over the range are at
    partition,  \* partition[s]: the commits listed under scope s
    floors,     \* floors[s]: the floor of a touched scope
    violations  \* the commits that touch a meta path below its level

scopeVars == <<scopes, commits, next, partition, floors, violations>>

CommitFields == [level : Levels, paths : SUBSET Paths]
Touched(c) == UNION {ScopesOf(path, scopes) : path \in c.paths}

ScopesBegin ==
    /\ next = 1
    /\ partition = <<>> /\ floors = <<>>
    /\ violations = <<>>

(* A scope's floor after a commit: the first level, or a lower one.        *)
Lower(s, level) ==
    IF s \in DOMAIN floors /\ floors[s] < level THEN floors[s] ELSE level

(* A touched scope's list of commits after one more.                       *)
Enlist(s) == IF s \in DOMAIN partition THEN Append(partition[s], next) ELSE <<next>>

(* MUTANT of Violates: only a commit all of whose paths are meta paths.    *)
ViolatesWholly(c) == c.level < RequiredLevel /\ \A path \in c.paths : MetaCovers(MetaGlobs, path)

(* MetaPathViolations, for one commit.                                     *)
Violates(c) == c.level < RequiredLevel /\ \E path \in c.paths : MetaCovers(MetaGlobs, path)

(* One commit in the passes of PartitionScopes, ScopeFloors and            *)
(* MetaPathViolations.                                                     *)
Visit ==
    /\ next <= Len(commits)
    /\ LET c == commits[next]
           touched == Touched(c)
       IN  /\ partition' = [s \in DOMAIN partition \cup touched |->
                IF s \in touched THEN Enlist(s) ELSE partition[s]]
           /\ floors' = [s \in DOMAIN floors \cup touched |->
                IF s \in touched THEN Lower(s, c.level) ELSE floors[s]]
           /\ violations' = IF Violates(c) THEN Append(violations, next) ELSE violations
    /\ next' = next + 1
    /\ UNCHANGED <<scopes, commits>>

ScopesDone == next > Len(commits)
Aborted == ScopesDone /\ violations # <<>>

--------------------------------------------------------------------------------
(* Every touched scope has a floor, a list of commits that is not empty.   *)
ScopesTypeOK ==
    /\ next \in 1..(Len(commits) + 1)
    /\ DOMAIN floors = DOMAIN partition
    /\ \A s \in DOMAIN floors : floors[s] \in Levels /\ partition[s] # <<>>

(* The weakest link: a scope is never trusted more than the least of the   *)
(* commits reported under it, and is trusted as much as one of them        *)
(* (ScopeFloors and PartitionScopes agree).                                *)
WeakestLink ==
    \A s \in DOMAIN floors :
        /\ \A i \in DOMAIN partition[s] : floors[s] <= commits[partition[s][i]].level
        /\ \E i \in DOMAIN partition[s] : floors[s] = commits[partition[s][i]].level

(* What a pattern describes, as a set of texts: the texts of its parts in  *)
(* a row.  A star describes any text, one of a single segment only.        *)
Texts(glob, n) ==
    LET pieces == UNION {{path[i] : i \in DOMAIN path} : path \in Paths}
        upto(S, k) == UNION {[1..l -> S] : l \in 0..k}
        part(g) == CASE g = "*" -> upto(pieces \ {"/"}, n)
                     [] g = "**" -> upto(pieces, n)
                     [] g = "?" -> {<<p>> : p \in pieces \ {"/"}}
                     [] OTHER -> {<<g>>}
        rows[i \in 0..Len(glob)] ==
            IF i = 0 THEN {<<>>} ELSE {s \o t : s \in rows[i - 1], t \in part(glob[i])}
    IN  rows[Len(glob)]

(* Every path a commit touches falls into the scopes whose patterns        *)
(* describe it, and a path of no scope is never lost: it counts in the     *)
(* default scope (compileGlob, scopesOf).                                  *)
PathsScoped ==
    \A i \in 1..(next - 1) : \A path \in commits[i].paths :
        LET described == {g \in DOMAIN scopes : path \in Texts(g, Len(path))}
            expected == IF described = {} THEN {DefaultScope} ELSE {scopes[g] : g \in described}
        IN  \A s \in expected :
                s \in DOMAIN partition /\ \E k \in DOMAIN partition[s] : partition[s][k] = i

(* Both of them: the floors reported are those of the commits whose paths  *)
(* the policy's patterns describe, none of them lost (ScopeFloors).        *)
ScopesRight == ScopesTypeOK /\ WeakestLink /\ PathsScoped

(* No commit below the required level that touches a guarded path, among   *)
(* whatever else it touches, gets through (MetaPathViolations).            *)
MetaGuarded ==
    ScopesDone /\ ~Aborted =>
        \A i \in DOMAIN commits : \A path \in commits[i].paths :
            (\E g \in MetaGlobs : path \in Texts(g, Len(path))) => commits[i].level >= RequiredLevel

(* What scope.go says of its globs: they are those of gitignore, where a   *)
(* leading "**/" also stands for no directory at all.                      *)
LeadingStars ==
    \A g \in DOMAIN scopes : \A path \in Paths :
        Len(g) > 2 /\ g[1] = "**" /\ g[2] = "/" /\ Matches(SubSeq(g, 3, Len(g)), path)
            => Matches(g, path)
==============================================================================
