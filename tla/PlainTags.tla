------------------------------- MODULE PlainTags -------------------------------
(***************************************************************************)
(* The plain mode (internal/plain, cmd/semver-trust/plain.go): the tags of *)
(* a repository as versions, the latest of them, and the command that      *)
(* creates the next one, or one by name.                                   *)
(***************************************************************************)
EXTENDS VersionOrder, FiniteSets

CONSTANTS
    Names,      \* tags given by name, or pushed by other tools
    Preids,     \* pre-release names given, sequences of at most one
    MaxTags     \* bounds the repository

ASSUME PlainAssumption ==
    /\ Names \subseteq Tags /\ MaxTags \in Nat
    /\ \A preid \in Preids : preid \in Seq(Idents) /\ Len(preid) <= 1

VARIABLE tags       \* the repository's tags

Init == tags = {}

(* Valid: what list, latest and next take for versions.                    *)
Valid == {VersionOf(t) : t \in {u \in tags : ParsesLeniently(u)}}

(* Another tool, or the release command, writes a tag of any form.         *)
Foreign(name) == tags' = tags \cup {name}

(* tag <name>: refused when it does not parse, or exists.                  *)
TagNamed(name) ==
    /\ ParsesLeniently(name)
    /\ name \notin tags
    /\ tags' = tags \cup {name}

(* Latest: none is above it; versions of several components have none.     *)
IsLatest(v, vs) == v \in vs /\ \A w \in vs : w.component = v.component /\ ~Below(v, w)

(* Where Next starts: the latest, or 0.0.0 when there is nothing.          *)
IsBase(v, vs) == IF vs = {} THEN v = Clean(NoComponent, <<0, 0, 0>>) ELSE IsLatest(v, vs)

Seeds == {{}, {Clean(NoComponent, <<0, 0, 0>>)}}

(* tag: the next version after the tags and a seed, if one is given, in    *)
(* canonical form.  A trust version has no next; an existing tag is refused*)
(* by git.                                                                 *)
TagNext(type, preid, seed) ==
    LET vs == Valid \cup seed
    IN  \E v \in vs \cup {Clean(NoComponent, <<0, 0, 0>>)} :
            /\ IsBase(v, vs)
            /\ v.trust = NoTrust
            /\ TagOf(Increment(v, type, preid)) \notin tags
            /\ tags' = tags \cup {TagOf(Increment(v, type, preid))}

Next ==
    /\ Cardinality(tags) < MaxTags
    /\ \/ \E name \in Names : Foreign(name)
       \/ \E name \in Names : TagNamed(name)
       \/ \E type \in Types, preid \in Preids, seed \in Seeds : TagNext(type, preid, seed)

Spec == Init /\ [][Next]_tags

--------------------------------------------------------------------------------
TypeOK == tags \subseteq Tags

New == tags' \ tags

(* What the next version needs to be above the latest: core numbers that   *)
(* have a successor, and for a further pre-release one that keeps its name,*)
(* is given a name that sorts above the one in use, or that one when only a*)
(* counter follows it that an int holds; and no text that reads as an int  *)
(* (bumpPre).                                                              *)
HasSuccessor(v) == \A i \in 1..3 : v.core[i] < MaxUint
OnlyNumerals(pre) == \A i \in DOMAIN pre : ReadsAsInt(pre[i]) => IsNumeric(pre[i])
IsCounter(id) == IsNumeric(id) /\ ReadsAsInt(id)
KeepsAbove(type, preid, v) ==
    \/ type # "prerelease" \/ v.pre = <<>>
    \/ preid = <<>> /\ OnlyNumerals(v.pre)
    \/ preid # <<>> /\ IdentBelow(v.pre[1], preid[1])
    \/ preid # <<>> /\ Len(v.pre) = 2 /\ v.pre[1] = preid[1] /\ IsCounter(v.pre[2])

(* The next version is above all there are, not just above the latest it   *)
(* is computed from (Next, Increment, bumpPre).                            *)
NextAdvances ==
    [][\A type \in Types, preid \in Preids, seed \in Seeds :
         /\ TagNext(type, preid, seed)
         /\ \A v \in Valid \cup seed :
               IsLatest(v, Valid \cup seed) => HasSuccessor(v) /\ KeepsAbove(type, preid, v)
         => \A t \in New, v \in Valid \cup seed : Below(v, VersionOf(t))]_tags

(* No sequence of plain commands makes a trust version: only tags given by *)
(* name, or by other tools, are ones (ParseLenient, Increment).            *)
NoTrustByNext ==
    [][\A type \in Types, preid \in Preids, seed \in Seeds :
         TagNext(type, preid, seed) /\ (\A name \in Names : ~Foreign(name))
            => \A t \in New : ParsesStrictly(t) => VersionOf(t).trust = NoTrust]_tags

(* What tag says of itself: the version it computes is written in the form *)
(* the grammar admits, malformed trust shapes are refused.                 *)
NextIsCanonical ==
    [][\A type \in Types, preid \in Preids, seed \in Seeds :
         TagNext(type, preid, seed) => \A t \in New : ParsesStrictly(t)]_tags

(* What next says of itself: it gives the version that follows the latest. *)
NextFollowsLatest ==
    [][\A type \in Types, preid \in Preids, seed \in Seeds : TagNext(type, preid, seed) =>
         \A t \in New, v \in Valid : ~Below(VersionOf(t), v)]_tags

(* What bumpPre says of itself: the counter that goes up is the last       *)
(* numeric identifier; texts are kept.                                     *)
TextsKept ==
    [][\A type \in Types, seed \in Seeds : TagNext(type, <<>>, seed) =>
         \A t \in New, v \in Valid : IsLatest(v, Valid) /\ t.core = v.core =>
            \A i \in DOMAIN v.pre : i \in DOMAIN t.pre /\ ~IsNumeric(v.pre[i]) => t.pre[i] = v.pre[i]]_tags
==============================================================================
