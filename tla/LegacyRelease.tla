---------------------------- MODULE LegacyRelease ----------------------------
(***************************************************************************)
(* The release command without a bootstrap descriptor (release/v0.1): the  *)
(* previous release, the component and the iteration are the caller's, the *)
(* tag is written after the attestation is signed and before it is stored, *)
(* and nothing is rolled back.  Several components share one repository;   *)
(* their tags differ by a prefix.                                          *)
(*                                                                         *)
(* Every element of Ops is one invocation.  Its number names the tag object*)
(* it writes and the attestation it signs.                                 *)
(***************************************************************************)
EXTENDS VersionAncestry

CONSTANTS
    Ops,            \* the invocations, numbered in the order they start
    Components,     \* the components the propagation reports
    DefaultTarget,  \* the one it headlines when none is requested
    Touches,        \* Touches[c]: the components commit c changes
    Authors,        \* Authors[c]: the authorship class of commit c
    Changes,        \* Changes[c]: the bump commit c declares
    Reviewable,     \* the commits whose review may get attested
    Boundary,       \* the policy's adoption boundary, or NoCommit
    Threshold, Strategy,
    DifferBumps,    \* what a differ may find; empty when none is configured
    Requests,       \* the components operators ask for, or NoComponent
    Claims, BlastScores, Iterations,    \* what else they supply
    MayCrash, MayFail

NoComponent == "none"       \* no --component; a tag without a prefix

ASSUME LegacyOpsAssumption == Ops \subseteq Nat \ {0}
ASSUME LegacyComponentsAssumption ==
    /\ NoComponent \notin Components /\ DefaultTarget \in Components
    /\ Touches \in [Commits -> SUBSET Components]
    /\ Requests \subseteq Components \cup {NoComponent}
ASSUME LegacyPolicyAssumption ==
    /\ Authors \in [Commits -> Authorships] /\ Changes \in [Commits -> Bumps]
    /\ Reviewable \subseteq Commits
    /\ Boundary \in Commits \cup {NoCommit}
    /\ Threshold \in Levels /\ Strategy \in Strategies /\ DifferBumps \subseteq Bumps
    /\ Claims \subseteq Bumps /\ BlastScores \subseteq Blasts /\ Iterations \subseteq Nat
    /\ MayCrash \in BOOLEAN /\ MayFail \in BOOLEAN

VARIABLES
    reviewed,   \* the commits with an attested review by another human
    tags,       \* a function from the names of existing tags to [oid, commit]
    store,      \* store[o]: the subjects o's attestation is stored under
    pc,         \* where invocation o is
    rel         \* rel[o]: what o decided, or NoRelease

vars == <<reviewed, tags, store, pc, rel>>

NoRelease == <<>>
NoTag == <<>>               \* --from was not given
PCs == {"idle", "decided", "signed", "looked", "tagged", "half", "done", "failed", "dead"}

Lowest(S) == CHOOSE x \in S : \A y \in S : x <= y
Highest(S) == CHOOSE x \in S : \A y \in S : y <= x

Level(c) == AssignLevel(Authors[c], IF c \in reviewed THEN "human_distinct" ELSE "none")

Init ==
    /\ reviewed = {}
    /\ tags = [n \in {} |-> [oid |-> 1, commit |-> NoCommit]]
    /\ store = [o \in Ops |-> {}]
    /\ pc = [o \in Ops |-> "idle"]
    /\ rel = [o \in Ops |-> NoRelease]
------------------------------------------------------------------------------
(* The range of commits, FROM..TO.  A first release starts after the       *)
(* adoption boundary when the policy declares one.  The anchor must be an  *)
(* ancestor of TO.                                                         *)
Anchor(from) == IF from = NoTag THEN Boundary ELSE tags[from].commit

AnchorOK(anchor, to) == anchor # NoCommit => anchor \in Reach[to]

RangeOf(anchor, to) == IF anchor = NoCommit THEN Reach[to] ELSE Reach[to] \ Reach[anchor]

(* MUTANT of EffectiveTrust: the component's best commit speaks for it.    *)
BestTrust(component, range) ==
    LET touching == {c \in range : component \in Touches[c]}
    IN  IF touching = {} THEN 3 ELSE Highest({Level(c) : c \in touching})

(* The component's trust: the floor over the commits that touch it, and    *)
(* neutral when none does (no dependencies between the components here).   *)
EffectiveTrust(component, range) ==
    LET touching == {c \in range : component \in Touches[c]}
    IN  IF touching = {} THEN 3 ELSE Lowest({Level(c) : c \in touching})

(* MUTANT of SemanticFloor: declared intent of the last commit only.       *)
LastIntent(from, range) ==
    { [bump |-> IF range = {} THEN Patch ELSE Changes[Highest(range)], differ |-> FALSE] }

(* The semantic floors step 7 may report: the differ's, which runs only    *)
(* when FROM is given and may fail, or else the declared intent.           *)
SemanticFloor(from, range) ==
    { [bump |-> Highest({Patch} \cup {Changes[c] : c \in range}), differ |-> FALSE] }
    \cup { [bump |-> b, differ |-> TRUE] : b \in IF from = NoTag THEN {} ELSE DifferBumps }

(* The component whose propagation row the decision consumes.              *)
TargetComponent(requested) == IF requested = NoComponent THEN DefaultTarget ELSE requested

(* The version the bump applies to: FROM's, which may lack the prefix, or  *)
(* have one nobody asked for, but not another than --component's.          *)
CurrentOK(from, requested) ==
    from # NoTag => from.prefix = NoComponent \/ requested \in {NoComponent, from.prefix}

CurrentPrefix(from, requested) ==
    IF from = NoTag \/ from.prefix = NoComponent THEN requested ELSE from.prefix
CurrentCore(from) == IF from = NoTag THEN ZeroCore ELSE from.name.core

(* MUTANT of MayContinue: a pre-release is a version like another.         *)
MayContinueAny(from) == TRUE

(* Decide refuses to bump anything but a clean release.                    *)
MayContinue(from) == from # NoTag => IsClean(from.name)

(* Decide: the channel and the exact tag.                                  *)
DecidedName(from, d, iteration) ==
    LET core == BumpCore(CurrentCore(from), EffectiveBump(d))
    IN  IF Channel(d) = "prerelease" THEN PrereleaseName(core, d.effective, iteration)
        ELSE CleanName(core)

(* Another command attests a review of a commit.                           *)
AttestReview(c) ==
    /\ c \notin reviewed
    /\ reviewed' = reviewed \cup {c}
    /\ UNCHANGED <<tags, store, pc, rel>>

(* Verify, decideRelease and the first look at the tag name.  A strategy   *)
(* that inflates has no target for a demoted release and refuses.          *)
Decide(o, from, to, requested, claimed, blast, iteration) ==
    LET range == RangeOf(Anchor(from), to)
        target == TargetComponent(requested)
    IN  /\ pc[o] = "idle" /\ \A q \in Ops : q < o => pc[q] # "idle"
        /\ AnchorOK(Anchor(from), to)
        /\ CurrentOK(from, requested) /\ MayContinue(from) /\ iteration >= 1
        /\ \E floor \in SemanticFloor(from, range) :
           \E d \in {[ effective |-> EffectiveTrust(target, range), threshold |-> Threshold,
                       blast |-> blast, strategy |-> Strategy, differ |-> floor.differ,
                       floor |-> floor.bump, claimed |-> claimed ]} :
           \E tag \in {[ prefix |-> CurrentPrefix(from, requested),
                         name |-> DecidedName(from, d, iteration) ]} :
              /\ Resolved(d)
              /\ tag \notin DOMAIN tags
              /\ rel' = [rel EXCEPT ![o] =
                           [ tag |-> tag, to |-> to, component |-> target,
                             from |-> IF from = NoTag THEN {} ELSE {tags[from].oid},
                             levels |-> [c \in range |-> Level(c)], decision |-> d ]]
        /\ pc' = [pc EXCEPT ![o] = "decided"]
        /\ UNCHANGED <<reviewed, tags, store>>

Goto(o, label) == pc' = [pc EXCEPT ![o] = label]

(* Build, validate, sign and self-verify the envelope: a statement needs   *)
(* at least one commit.                                                    *)
SignStatement(o) ==
    /\ pc[o] = "decided"
    /\ Goto(o, IF DOMAIN rel[o].levels = {} THEN "failed" ELSE "signed")
    /\ UNCHANGED <<reviewed, tags, store, rel>>

(* CreateSignedTag looks the name up again, then writes the reference,     *)
(* whatever it is by then.                                                 *)
LookupTag(o) ==
    /\ pc[o] = "signed"
    /\ Goto(o, IF rel[o].tag \in DOMAIN tags THEN "failed" ELSE "looked")
    /\ UNCHANGED <<reviewed, tags, store, rel>>

(* MUTANT of SetTag: the tag is written when it is already stored under    *)
(* the commit, as the other arm's comment warns against.                   *)
SetTagLate(o) ==
    /\ pc[o] = "looked"
    /\ store' = [store EXCEPT ![o] = {"commit"}]
    /\ Goto(o, "tagged")
    /\ UNCHANGED <<reviewed, tags, rel>>

SetTag(o) ==
    /\ pc[o] = "looked"
    /\ tags' = [n \in DOMAIN tags \cup {rel[o].tag} |->
                  IF n = rel[o].tag THEN [oid |-> o, commit |-> rel[o].to] ELSE tags[n]]
    /\ Goto(o, "tagged")
    /\ UNCHANGED <<reviewed, store, rel>>

(* StoreForSubjects: under the commit, then under the tag name.            *)
PutUnderCommit(o) ==
    /\ pc[o] = "tagged"
    /\ store' = [store EXCEPT ![o] = {"commit"}]
    /\ Goto(o, "half")
    /\ UNCHANGED <<reviewed, tags, rel>>

PutUnderTag(o) ==
    /\ pc[o] = "half"
    /\ store' = [store EXCEPT ![o] = @ \cup {"tag"}]
    /\ Goto(o, "done")
    /\ UNCHANGED <<reviewed, tags, rel>>

(* An error at any of these: the command returns it and undoes nothing.    *)
StepFails(o) ==
    /\ MayFail
    /\ pc[o] \in {"decided", "signed", "looked", "tagged", "half"}
    /\ Goto(o, "failed")
    /\ UNCHANGED <<reviewed, tags, store, rel>>

Crash(o) ==
    /\ MayCrash
    /\ pc[o] \notin {"idle", "done", "failed", "dead"}
    /\ Goto(o, "dead")
    /\ UNCHANGED <<reviewed, tags, store, rel>>

Step(o) ==
    \/ SignStatement(o)
    \/ LookupTag(o)
    \/ SetTag(o)
    \/ PutUnderCommit(o)
    \/ PutUnderTag(o)
    \/ StepFails(o)

Start(o) ==
    \E from \in {NoTag} \cup DOMAIN tags, to \in Commits,
       requested \in Requests, claimed \in Claims,
       blast \in BlastScores, iteration \in Iterations :
        Decide(o, from, to, requested, claimed, blast, iteration)

Next ==
    \/ \E c \in Reviewable : AttestReview(c)
    \/ \E o \in Ops : Start(o) \/ Step(o) \/ Crash(o)

Spec == Init /\ [][Next]_vars
------------------------------------------------------------------------------
(* Every variable has its type.                                            *)
Tag == [prefix : Components \cup {NoComponent}, name : Name]
TypeOK ==
    /\ reviewed \subseteq Commits
    /\ DOMAIN tags \subseteq Tag
    /\ \A n \in DOMAIN tags : tags[n] \in [oid : Ops, commit : Commits]
    /\ store \in [Ops -> SUBSET {"commit", "tag"}] /\ pc \in [Ops -> PCs]
    /\ \A o \in Ops : pc[o] # "idle" =>
          rel[o].tag \in Tag /\ rel[o].to \in Commits /\ rel[o].from \subseteq Ops

(* The releases that one continues, by the FROM of each: its chain.        *)
From(o) == IF pc[o] = "idle" THEN {} ELSE rel[o].from
FromClosed(S) == \A o \in S : From(o) \subseteq S
ChainOf(o) == {q \in Ops : \A S \in SUBSET Ops : o \in S /\ FromClosed(S) => q \in S}

History(o) == IF Boundary = NoCommit THEN Reach[rel[o].to] ELSE Reach[rel[o].to] \ Reach[Boundary]

(* A clean release vouches for its whole history, not only for its range:  *)
(* when the releases it continues are of its own component, every commit   *)
(* that touches the component was at or above the threshold when one of    *)
(* them was decided (trust.Decide with the caller's --from, whatever other *)
(* commands, failures and pre-releases came between).                      *)
CleanHistoryEarned ==
    \A o \in Ops : pc[o] # "idle" /\ IsClean(rel[o].tag.name) =>
        \A chain \in {ChainOf(o)} :
            (\A q \in chain : rel[q].component = rel[o].component) =>
                \A c \in History(o) : rel[o].component \in Touches[c] =>
                    \E q \in chain : c \in DOMAIN rel[q].levels /\ rel[q].levels[c] >= Threshold

(* A breaking commit is always under a major bump: between a clean release *)
(* and any release it descends from by FROM, a commit that declares a      *)
(* breaking change raises the major number (no differ overrules it).       *)
BreakingBumpsMajor ==
    DifferBumps = {} =>
        \A o \in Ops : pc[o] # "idle" => \A q \in ChainOf(o) \ {o} :
            (\E c \in Reach[rel[o].to] \ Reach[rel[q].to] : Changes[c] = Major) =>
                rel[q].tag.name.core[1] < rel[o].tag.name.core[1]

(* An attestation is only ever found for a release whose tag exists: the   *)
(* tag is written first and never removed, whoever dies or fails when.     *)
AttestedIsTagged == \A o \in Ops : store[o] # {} => rel[o].tag \in DOMAIN tags

(* "the only failure mode that can leave a tag without its attestation is  *)
(* a storage write error" (release.go): once its writer has stopped without*)
(* such an error, a tag is attested under both subjects.                   *)
OnlyStoreErrorsOrphan ==
    \A n \in DOMAIN tags : pc[tags[n].oid] \in {"done", "dead"} =>
        store[tags[n].oid] = {"commit", "tag"}

(* "The component path must be consistent between --component and a        *)
(* component-prefixed FROM": the tag names the component whose trust was   *)
(* decided, a tag without a prefix naming the default one.                 *)
ComponentKept ==
    \A o \in Ops : pc[o] # "idle" =>
        rel[o].component = TargetComponent(rel[o].tag.prefix)
==============================================================================
