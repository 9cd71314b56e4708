------------------------------- MODULE Workspace -------------------------------
(***************************************************************************)
(* A Go workspace (graph/gomod/gomod.go): its modules, named by directory, *)
(* and the dependencies between them, read from the require and replace    *)
(* directives; and the trust each module's own commits give it             *)
(* (internal/verify/aggregate.go).                                         *)
(*                                                                         *)
(* A directory is a number: the rank of its name, in the order the program *)
(* sorts names by.  "." sorts first.                                       *)
(***************************************************************************)
EXTENDS TrustDecision, FiniteSets

CONSTANTS
    Dirs,       \* the directories that may hold a module
    Root,       \* the workspace's root
    Inside,     \* Inside[d]: the directories d contains, d among them
    ModPaths,   \* module paths
    Versions    \* the versions a directive may name

None == 0
AnyVersion == 0

ASSUME WorkspaceAssumption ==
    /\ Dirs \subseteq Nat \ {None} /\ Root \in Dirs
    /\ \A d \in Dirs : Root <= d
    /\ Inside \in [Dirs -> SUBSET Dirs] /\ Inside[Root] = Dirs
    /\ \A d \in Dirs : d \in Inside[d]
    /\ ModPaths \cap Dirs = {}
    /\ AnyVersion \notin Versions

(* A module: what its go.mod says.  A replacement is a directory (a local  *)
(* one, joined to the module's own) or another module path; of several     *)
(* directives for one path the last is kept, so each path has one at most. *)
Modules ==
    {m \in [path : ModPaths,
            requires : SUBSET [path : ModPaths, version : Versions],
            replaces : SUBSET [old : ModPaths, version : Versions \cup {AnyVersion},
                               new : ModPaths \cup Dirs]] :
        \A r, s \in m.replaces : r.old = s.old => r = s}

(* The workspace is refused when it has no module, or two with one path.   *)
Resolvable(ws) ==
    /\ DOMAIN ws # {}
    /\ \A d, e \in DOMAIN ws : ws[d].path = ws[e].path => d = e

ByPath(ws, path) == {d \in DOMAIN ws : ws[d].path = path}

(* MUTANT of ResolveInternal: a local replacement is not followed.         *)
ByPathOnly(ws, d, required) == ByPath(ws, required)

(* The module a required path stands for, if it is one of the workspace.   *)
(* The table of replacements is keyed by the replaced path alone, whatever *)
(* version the directive names.                                            *)
ResolveInternal(ws, d, required) ==
    LET news == {r.new : r \in {s \in ws[d].replaces : s.old = required}}
    IN  IF news # {} THEN (news \cap DOMAIN ws) \cup UNION {ByPath(ws, p) : p \in news}
        ELSE ByPath(ws, required)

(* Resolve: the edges consumer -> dependency, none from a module to itself.*)
Edges(ws) ==
    {e \in (DOMAIN ws) \X (DOMAIN ws) :
        /\ e[1] # e[2]
        /\ \E req \in ws[e[1]].requires : e[2] \in ResolveInternal(ws, e[1], req.path)}

(* MUTANT of CommitUnderDir: only files of the directory itself count.     *)
CommitInDir(c, d) == d \in c.paths

(* A commit changes files of the directories in paths.                     *)
CommitUnderDir(c, d) == c.paths \cap Inside[d] # {}

(* The least level of the commits under a directory; an untouched one is   *)
(* neutral.                                                                *)
FloorOverDir(commits, d) ==
    LET levels == {c.level : c \in {b \in commits : CommitUnderDir(b, d)}}
    IN  IF levels = {} THEN 3 ELSE CHOOSE l \in levels : \A k \in levels : l <= k
==============================================================================
