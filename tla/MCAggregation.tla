----------------------------- MODULE MCAggregation -----------------------------
(***************************************************************************)
(* Small instances of Aggregation: ranges over a tree with two segments    *)
(* named alike, every dependency graph of four modules, and workspaces     *)
(* whose modules replace one another or share a path.                      *)
(***************************************************************************)
EXTENDS Aggregation, TLC

(* The root, the directories b and s, and s/a.                             *)
MCDirs == 1..4
MCInside == [d \in MCDirs |-> IF d = 1 THEN MCDirs ELSE IF d = 3 THEN {3, 4} ELSE {d}]
Path(d) == 10 + d
MCModPaths == {Path(d) : d \in MCDirs}

AtRoot == <<"a">>
InB == <<"b", "/", "a">>
Deep == <<"s", "/", "a", "/", "b">>
ScopePaths == {AtRoot, <<"s", "/", "a">>, <<"s", "/", "a", "z">>, Deep}
MCPaths == ScopePaths \cup {InB}
MCDirOf == [p \in MCPaths |-> CASE p = AtRoot -> 1 [] p = InB -> 2 [] p = Deep -> 4 [] OTHER -> 3]

Segment == <<"s", "/", "*">>
Subtree == <<"s", "/", "a", "/", "**">>
OneMore == <<"s", "/", "a", "?">>
Anywhere == <<"**", "/", "a">>
Everything == <<"**">>

MCScopeMaps == {<<>>, (Segment :> 101), (Segment :> 101) @@ (Subtree :> 102),
                (Subtree :> 101) @@ (OneMore :> 101), (Everything :> 101) @@ (OneMore :> 99)}
MCMetaGlobs == {Segment}

Ranges == UNION {[1..n -> [level : Levels, paths : SUBSET ScopePaths]] : n \in 0..2}

Requiring(d, deps) ==
    [path |-> Path(d), requires |-> {[path |-> Path(e), version |-> 1] : e \in deps}, replaces |-> {}]

(* A module for every directory, every graph between them.                 *)
Workspaces(dirs) ==
    {[d \in dirs |-> Requiring(d, g[d])] : g \in {f \in [dirs -> SUBSET dirs] : \A d \in dirs : d \notin f[d]}}

(* Module 2 requires a path it may replace, for some version or for all; a *)
(* path may be declared twice.                                             *)
Replacing(new, version) ==
    [path |-> Path(2), requires |-> {[path |-> Path(3), version |-> 1]},
     replaces |-> {[old |-> Path(3), version |-> version, new |-> new]}]
Replaced(versions) ==
    {[d \in 1..3 |-> IF d = 2 THEN Replacing(new, version) ELSE Requiring(d, {})] :
        new \in {Path(d) : d \in 1..3} \cup 1..3, version \in versions}
Modules3 == Workspaces(1..3) \cup Replaced({AnyVersion, 1}) \cup {[d \in 1..3 |-> Requiring(2, {})]}

(* Two commits, each to files of some of three modules.                    *)
Spread ==
    {<<[level |-> l[1], paths |-> p], [level |-> l[2], paths |-> q]>> :
        l \in {<<0, 3>>, <<2, 1>>}, p \in SUBSET {AtRoot, InB, Deep}, q \in SUBSET {AtRoot, InB, Deep}}

For(adapter, requested, component) ==
    [adapter |-> adapter, requested |-> requested, component |-> component]

ByScope == [scopes |-> MCScopeMaps, commits |-> Ranges, ws |-> {<<>>}, policy |-> {For("none", None, 101)}]
Requested == [ByScope EXCEPT !.commits = {r \in Ranges : Len(r) = 1}, !.policy = {For("none", 99, 99)}]
AllGraphs == [scopes |-> {<<>>}, commits |-> {<<>>}, ws |-> Workspaces(MCDirs),
              policy |-> {For("gomod", None, Root)}]
AllRanges == [AllGraphs EXCEPT !.scopes = {Segment :> 101}, !.commits = Spread, !.ws = Modules3]
MCCases == {ByScope, Requested, AllGraphs, AllRanges}

ASSUME MatchedAssumption == ReplacesMatch

(* A glob with leading stars; a replacement of another version.            *)
StarCases == {[Requested EXCEPT !.scopes = {Anywhere :> 101}]}
VersionCases == {[AllRanges EXCEPT !.ws = Replaced({2})]}
==============================================================================
