----------------------------- MODULE ReleaseChain -----------------------------
(***************************************************************************)
(* The release and promote commands of the authenticated chain             *)
(* (cmd/semver-trust/release.go, promote.go) working on one git            *)
(* repository: tags, and an attestation store kept in references.  A       *)
(* command is not atomic.  It reads the chain and decides, looks the tag   *)
(* name up, writes the tag, reads it back and signs the attestation, stores*)
(* the attestation under the commit, then under the tag name; any of these *)
(* may fail, after which it deletes the tag, or the process may die.       *)
(*                                                                         *)
(* Every element of Ops is one invocation of a command.  Its number also   *)
(* names the tag object it writes and the attestation it signs, which are  *)
(* content-addressed and so distinct.                                      *)
(***************************************************************************)
EXTENDS AcceptedChain

CONSTANTS
    Ops,            \* the invocations, numbered in the order they start
    Authors,        \* Authors[c]: the authorship class of commit c
    Changes,        \* Changes[c]: the bump commit c declares, or the differ finds
    Boundary,       \* the adoption boundary, or NoCommit
    Legacy,         \* the descriptor's version predecessor: at most one binding
    Threshold, Strategy, Differ,    \* the policy
    Claims,         \* the bumps operators claim
    BlastScores,    \* the blast-radius scores operators supply
    ReviewKinds,    \* the classes of review that get attested
    Reviewable,     \* bound: the commits that get reviewed
    Ranks,          \* the possible orders of the store's references
    Concurrent,     \* may two commands be in flight at once?
    MayCrash,       \* may a command's process die?
    MayFail,        \* may a signing or a store write fail?
    MayFailDelete   \* may the rollback's tag deletion fail?

ASSUME OpsAssumption == Ops \subseteq Nat \ {0}
ASSUME PolicyAssumption ==
    /\ Authors \in [Commits -> Authorships]
    /\ Changes \in [Commits -> Bumps]
    /\ Boundary \in Commits \cup {NoCommit}
    /\ Threshold \in Levels /\ Strategy \in Strategies /\ Differ \in BOOLEAN
    /\ Claims \subseteq Bumps /\ BlastScores \subseteq Blasts /\ ReviewKinds \subseteq Reviews
    /\ Reviewable \subseteq Commits
    /\ Ranks \subseteq [Ops -> Nat]
ASSUME ModeAssumption ==
    /\ Concurrent \in BOOLEAN /\ MayCrash \in BOOLEAN
    /\ MayFail \in BOOLEAN /\ MayFailDelete \in BOOLEAN
(* The legacy tag is a clean one, whose object no command writes. *)
ASSUME LegacyAssumption ==
    Legacy # <<>> =>
        \E c \in Commits :
            /\ Len(Legacy) = 1 /\ Legacy[1].commit = c
            /\ Legacy = << [name |-> CleanName(Legacy[1].name.core), oid |-> Legacy[1].oid, commit |-> c] >>
            /\ Legacy[1].name.core \in Core /\ Legacy[1].oid \in Nat \ (Ops \cup {0})

VARIABLES
    review,     \* review[c]: the review class commit c is classified with
    refs,       \* the tags: a function from existing names to [oid, commit]
    store,      \* store[o]: the subjects o's attestation is stored under
    pc,         \* where invocation o is
    rel,        \* rel[o]: the release o decided on, or NoRelease
    rank        \* the order in which the store lists the attestations

vars == <<review, refs, store, pc, rel, rank>>

NoRelease == <<>>
Unbound == 0                \* the raw object of a tag that is not yet written
GenesisIntervalID == <<0, 0>>
Subjects == {"commit", "tag"}
InFlightPCs == {"decided", "checked", "tagged", "signed", "half", "rollback"}
PCs == {"idle", "done", "failed", "stranded", "dead"} \cup InFlightPCs

Stored == {o \in Ops : store[o] # {}}
ChainHead == AcceptedHead(Stored, rel, rank, refs)
InFlight(o) == pc[o] \in InFlightPCs

(* What a commit's level is now, and the trust of a set of commits: the    *)
(* weakest one (one component, so its scope floor is its effective trust). *)
Level(c) == AssignLevel(Authors[c], review[c])
Lowest(S) == CHOOSE x \in S : \A y \in S : x <= y
Highest(S) == CHOOSE x \in S : \A y \in S : y <= x
Effective(commits) == Lowest({Level(c) : c \in commits})
SemanticFloor(commits) == Highest({Changes[c] : c \in commits})

Facts(commits, claimed, blast) ==
    [ effective |-> Effective(commits), threshold |-> Threshold, blast |-> blast,
      strategy |-> Strategy, differ |-> Differ,
      floor |-> SemanticFloor(commits), claimed |-> claimed ]

WithTag(name, ref) == [n \in DOMAIN refs \cup {name} |-> IF n = name THEN ref ELSE refs[n]]
WithoutTag(name) == [n \in DOMAIN refs \ {name} |-> refs[n]]

Init ==
    /\ review = [c \in Commits |-> "none"]
    /\ refs = IF Legacy = <<>> THEN [n \in {} |-> Unbound]
              ELSE [n \in {Legacy[1].name} |-> [oid |-> Legacy[1].oid, commit |-> Legacy[1].commit]]
    /\ store = [o \in Ops |-> {}]
    /\ pc = [o \in Ops |-> "idle"]
    /\ rel = [o \in Ops |-> NoRelease]
    /\ rank \in Ranks
------------------------------------------------------------------------------
(* The operators' discipline: unless Concurrent, nobody starts anything    *)
(* while a command is in flight.                                           *)
Quiet == Concurrent \/ \A o \in Ops : ~InFlight(o)

(* attest review --store: an approved review of a range, stored under each *)
(* of its commits in turn; where a store write may fail, only under some.  *)
(* With several reviews of a commit the one whose reference is met first   *)
(* classifies it, so a new one may or may not take effect.                 *)
AttestReview(p, to, kind) ==
    LET covered == IF p = NoCommit THEN Reach[to] ELSE RecurringInterval(p, to)
    IN  /\ Quiet
        /\ p # NoCommit => RecurringIntervalOK(p, to)
        /\ \E taking \in SUBSET (covered \cap Reviewable) :
              /\ ~MayFail => \A c \in covered \cap Reviewable : review[c] = "none" => c \in taking
              /\ review' = [c \in Commits |-> IF c \in taking THEN kind ELSE review[c]]
        /\ review' # review
        /\ UNCHANGED <<refs, store, pc, rel, rank>>

MayBegin(o) ==
    /\ pc[o] = "idle"
    /\ \A q \in Ops : q < o => pc[q] # "idle"
    /\ Quiet

Begin(o, release) ==
    /\ pc' = [pc EXCEPT ![o] = "decided"]
    /\ rel' = [rel EXCEPT ![o] = release]
    /\ UNCHANGED <<review, refs, store, rank>>

(* The release/v0.2 statement a decision leads to (releaseV02Input); its   *)
(* emission binding is filled in once the tag exists.  provenance is the   *)
(* set of classified commits.                                              *)
Statement(action, genesis, to, commits, d, pred, prior, state, name, supersedes) ==
    [ action |-> action, genesis |-> genesis, to |-> to, provenance |-> commits,
      tag |-> [name |-> name, oid |-> Unbound, commit |-> to],
      pred |-> pred, prior |-> prior, result |-> Append(prior, state),
      targetCore |-> state.targetCore, targetBump |-> state.targetBump,
      targetIntervals |-> state.targetIntervals, correctiveFloor |-> state.correctiveFloor,
      supersedes |-> supersedes,
      effective |-> d.effective, claimed |-> d.claimed, blast |-> d.blast ]

VersionStateOf(baseline, baselineCore, core, bump, name, intervals, floor) ==
    [ baseline |-> baseline, baselineCore |-> baselineCore, targetCore |-> core,
      targetBump |-> bump, cleanAccepted |-> IsClean(name), targetIntervals |-> intervals,
      iterations |-> IterationsOf(name), correctiveFloor |-> floor ]

(* release with an empty store: the bootstrap descriptor is the authority. *)
ReleaseGenesis(o, to, claimed, blast) ==
    LET commits == GenesisInterval(Boundary, to)
        d == Facts(commits, claimed, blast)
        base == IF Legacy = <<>> THEN ZeroCore ELSE Legacy[1].name.core
    IN  /\ Stored = {}
        /\ GenesisIntervalOK(Boundary, to)
        /\ \E ancestry \in {BootstrapAncestry(Legacy, Boundary, to, d, refs)} :
              /\ ancestry.ok
              /\ \E name \in {ancestry.name[1]} :
                    Begin(o, Statement("advance", TRUE, to, commits, d, Legacy, <<>>,
                               VersionStateOf(Legacy, base, ancestry.core, EffectiveBump(d), name,
                                              << GenesisIntervalID >>, ancestry.floor),
                               name, <<>>))

(* The version state a release after the selected one continues with: an   *)
(* advance starts a target (keeping the intervals of one that never became *)
(* clean), a recut stays on it.                                            *)
RecurringState(selected, action, d, ancestry, name, interval) ==
    LET st == selected.state
        grown == Append(IF action = "advance" /\ st.cleanAccepted THEN <<>>
                        ELSE st.targetIntervals, interval)
    IN  IF action = "recut"
        THEN VersionStateOf(st.baseline, st.baselineCore, ancestry.core, st.targetBump,
                            name, grown, ancestry.floor)
        ELSE VersionStateOf(<< selected.tag >>, st.targetCore, ancestry.core, EffectiveBump(d),
                            name, grown, ancestry.floor)

(* release after an accepted head h: advance to a new core, or recut h's.  *)
ReleaseRecurring(o, h, selected, action, to, claimed, blast) ==
    LET commits == RecurringInterval(selected.to, to)
        d == Facts(commits, claimed, blast)
    IN  /\ RecurringIntervalOK(selected.to, to)
        /\ \E ancestry \in {PredecessorAncestry(selected, action, to, d, FALSE, refs)} :
              /\ ancestry.ok
              /\ \E name \in {ancestry.name[1]} :
                    Begin(o, Statement(action, FALSE, to, commits, d, << selected.tag >>,
                               rel[h].result,
                               RecurringState(selected, action, d, ancestry, name,
                                              <<selected.to, to>>),
                               name, <<>>))

(* A promotion of h re-evaluates h's own interval, selected as when h was  *)
(* released, from the release before it.                                   *)
AnchorUsable(a, h) ==
    /\ Bound(rel[a].tag, refs) /\ rel[a].tag.commit = rel[a].to
    /\ RecurringIntervalOK(rel[a].to, rel[h].to)

SupersedeInterval(anchor, h) ==
    IF anchor = {} THEN GenesisInterval(Boundary, rel[h].to)
    ELSE UNION {RecurringInterval(rel[a].to, rel[h].to) : a \in anchor}

(* promote: re-evaluate the pre-release head h at its own commit, and land *)
(* its clean tag there.  Anything but the clean channel is refused.        *)
Promote(o, h, selected, blast) ==
    LET st == selected.state
        anchor == SupersedeAnchor(h, Stored, rel, rank)
        commits == SupersedeInterval(anchor, h)
        d == Facts(commits, rel[h].claimed, blast)
        name == CleanName(st.targetCore)
    IN  /\ ~IsClean(rel[h].tag.name)
        /\ IF anchor = {} THEN GenesisIntervalOK(Boundary, rel[h].to)
           ELSE \A a \in anchor : AnchorUsable(a, h)
        /\ \E ancestry \in {SupersededAncestry(selected, selected.to, d, refs)} :
              /\ ancestry.ok /\ ancestry.name = << name >>
              /\ Begin(o, Statement("supersede", FALSE, selected.to, commits, d,
                              << selected.tag >>, rel[h].result,
                              VersionStateOf(st.baseline, st.baselineCore, ancestry.core,
                                             st.targetBump, name, st.targetIntervals,
                                             ancestry.floor),
                              name, << h >>))
------------------------------------------------------------------------------
Goto(o, label) == pc' = [pc EXCEPT ![o] = label]
Failing(o, label) == MayFail /\ pc[o] = label /\ Goto(o, "rollback")
                       /\ UNCHANGED <<review, refs, store, rel, rank>>

(* CreateSignedTag's lookup: an existing name ends the command. *)
LookupTag(o) ==
    /\ pc[o] = "decided"
    /\ Goto(o, IF rel[o].tag.name \in DOMAIN refs THEN "failed" ELSE "checked")
    /\ UNCHANGED <<review, refs, store, rel, rank>>

(* Building or signing the tag object fails: nothing is written yet, so    *)
(* nothing is rolled back.                                                 *)
SignTagFails(o) ==
    /\ MayFail
    /\ pc[o] = "checked"
    /\ Goto(o, "failed")
    /\ UNCHANGED <<review, refs, store, rel, rank>>

(* MUTANT of SetTag: the tag is written without its trust suffix.          *)
SetTagWithoutSuffix(o) ==
    /\ pc[o] = "checked"
    /\ refs' = WithTag(CleanName(rel[o].targetCore), [oid |-> o, commit |-> rel[o].to])
    /\ Goto(o, "tagged")
    /\ UNCHANGED <<review, store, rel, rank>>

(* CreateSignedTag's write: SetReference replaces whatever is there now.   *)
SetTag(o) ==
    /\ pc[o] = "checked"
    /\ refs' = WithTag(rel[o].tag.name, [oid |-> o, commit |-> rel[o].to])
    /\ Goto(o, "tagged")
    /\ UNCHANGED <<review, store, rel, rank>>

(* Read the tag back, bind its object ids and sign; a tag that is gone     *)
(* rolls back.                                                             *)
BindAndSign(o) ==
    /\ pc[o] = "tagged"
    /\ LET name == rel[o].tag.name
       IN  IF name \in DOMAIN refs
           THEN /\ rel' = [rel EXCEPT ![o].tag = BindingOf(name, refs[name])]
                /\ Goto(o, "signed")
           ELSE /\ Goto(o, "rollback")
                /\ UNCHANGED rel
    /\ UNCHANGED <<review, refs, store, rank>>

(* MUTANT of SignFails: the command returns without undoing the tag.       *)
SignFailsNoRollback(o) ==
    /\ MayFail
    /\ pc[o] = "tagged"
    /\ Goto(o, "failed")
    /\ UNCHANGED <<review, refs, store, rel, rank>>

SignFails(o) == Failing(o, "tagged")

(* StoreForSubjects: first the commit, then the tag name. *)
PutUnderCommit(o) ==
    /\ pc[o] = "signed"
    /\ store' = [store EXCEPT ![o] = @ \cup {"commit"}]
    /\ Goto(o, "half")
    /\ UNCHANGED <<review, refs, rel, rank>>

PutUnderCommitFails(o) == Failing(o, "signed")

PutUnderTag(o) ==
    /\ pc[o] = "half"
    /\ store' = [store EXCEPT ![o] = @ \cup {"tag"}]
    /\ Goto(o, "done")
    /\ UNCHANGED <<review, refs, rel, rank>>

(* MUTANT of PutUnderTagFails: the error of the second write is dropped.   *)
PutUnderTagIgnored(o) ==
    /\ MayFail
    /\ pc[o] = "half"
    /\ Goto(o, "done")
    /\ UNCHANGED <<review, refs, store, rel, rank>>

PutUnderTagFails(o) == Failing(o, "half")

(* MUTANT of Rollback: the command ends without reporting the references   *)
(* it wrote, so that nobody prunes them.                                   *)
RollbackUnreported(o) ==
    /\ pc[o] = "rollback"
    /\ refs' = WithoutTag(rel[o].tag.name)
    /\ Goto(o, "dead")
    /\ UNCHANGED <<review, store, rel, rank>>

(* DeleteTag, by name, its own error ignored; the attestation references   *)
(* already written stay.                                                   *)
Rollback(o) ==
    /\ pc[o] = "rollback"
    /\ refs' = WithoutTag(rel[o].tag.name)
    /\ Goto(o, "failed")
    /\ UNCHANGED <<review, store, rel, rank>>

(* The deletion fails: the command reports what it would have otherwise,   *)
(* but its tag has stayed.                                                 *)
RollbackFails(o) ==
    /\ MayFailDelete
    /\ pc[o] = "rollback"
    /\ Goto(o, "stranded")
    /\ UNCHANGED <<review, refs, store, rel, rank>>

Crash(o) ==
    /\ MayCrash
    /\ InFlight(o)
    /\ Goto(o, "dead")
    /\ UNCHANGED <<review, refs, store, rel, rank>>
------------------------------------------------------------------------------
(* What the operator does by hand: prune an attestation the reader aborts  *)
(* on because its tag is absent, once its command has failed, and delete a *)
(* tag that no attestation binds while no command runs.                    *)
Partial(o) ==
    pc[o] \in {"failed", "stranded"} /\ store[o] # {} /\ rel[o].tag.name \notin DOMAIN refs

PruneAttestation(o) ==
    /\ Partial(o)
    /\ store' = [store EXCEPT ![o] = {}]
    /\ UNCHANGED <<review, refs, pc, rel, rank>>

Orphan(name) ==
    /\ \A o \in Ops : InFlight(o) => rel[o].tag.name # name
    /\ \A o \in Stored : rel[o].tag.name # name
    /\ Legacy # <<>> => Legacy[1].name # name

DeleteOrphanTag(name) ==
    /\ \A o \in Ops : ~InFlight(o)
    /\ Orphan(name)
    /\ refs' = WithoutTag(name)
    /\ UNCHANGED <<review, store, pc, rel, rank>>
------------------------------------------------------------------------------
(* One step of an invocation that is under way. *)
Step(o) ==
    \/ LookupTag(o)
    \/ SignTagFails(o)
    \/ SetTag(o)
    \/ BindAndSign(o)
    \/ SignFails(o)
    \/ PutUnderCommit(o)
    \/ PutUnderCommitFails(o)
    \/ PutUnderTag(o)
    \/ PutUnderTagFails(o)
    \/ Rollback(o)
    \/ RollbackFails(o)

StartGenesis(o) ==
    \E to \in Commits, claimed \in Claims, blast \in BlastScores :
        ReleaseGenesis(o, to, claimed, blast)

StartAfter(o, h, selected) ==
    \/ \E blast \in BlastScores : Promote(o, h, selected, blast)
    \/ \E action \in {"advance", "recut"}, to \in Commits, claimed \in Claims, blast \in BlastScores :
          ReleaseRecurring(o, h, selected, action, to, claimed, blast)

Start(o) ==
    /\ MayBegin(o)
    /\ \/ StartGenesis(o)
       \/ \E h \in ChainHead : \E selected \in {SelectedRelease(h, Stored, rel, rank)} :
             StartAfter(o, h, selected)

Next ==
    \/ \E p \in Commits \cup {NoCommit}, to \in Commits, kind \in ReviewKinds :
          AttestReview(p, to, kind)
    \/ \E o \in Ops : Start(o)
    \/ \E o \in Ops : Step(o)
    \/ \E o \in Ops : Crash(o)
    \/ \E o \in Ops : PruneAttestation(o)
    \/ \E name \in DOMAIN refs : DeleteOrphanTag(name)

Spec == Init /\ [][Next]_vars
------------------------------------------------------------------------------
(* The values of the state: the release a command decided on has its name, *)
(* its commit and its chain link; the object it binds is one that a command*)
(* wrote, or none yet.                                                     *)
Ref == [oid : Nat, commit : Commits]

ReleaseFields ==
    {"action", "genesis", "to", "provenance", "tag", "pred", "prior", "result", "targetCore",
     "targetBump", "targetIntervals", "correctiveFloor", "supersedes", "effective", "claimed",
     "blast"}

ReleaseOK(r) ==
    /\ DOMAIN r = ReleaseFields
    /\ r.action \in {"advance", "recut", "supersede"} /\ r.genesis \in BOOLEAN
    /\ r.to \in Commits /\ r.provenance \subseteq Commits
    /\ r.tag \in [name : Name, oid : Nat, commit : Commits]
    /\ r.targetCore \in Core /\ r.targetBump \in Bumps
    /\ r.correctiveFloor = <<>> \/ \E b \in Bumps : r.correctiveFloor = << b >>
    /\ r.effective \in Levels /\ r.claimed \in Bumps /\ r.blast \in Blasts

(* Every variable has its type: tags map names to objects and commits, and *)
(* every command that started has decided on a well-formed release.        *)
TypeOK ==
    /\ review \in [Commits -> Reviews]
    /\ DOMAIN refs \subseteq Name /\ \A n \in DOMAIN refs : refs[n] \in Ref
    /\ store \in [Ops -> SUBSET Subjects]
    /\ pc \in [Ops -> PCs]
    /\ DOMAIN rel = Ops
    /\ \A o \in Ops : IF pc[o] = "idle" THEN rel[o] = NoRelease /\ store[o] = {}
                      ELSE ReleaseOK(rel[o])
    /\ rank \in Ranks

(* The accepted chain now, oldest first; empty when there is none to read. *)
Accepted ==
    IF ChainHead = {} THEN <<>>
    ELSE AcceptedChainOf(CHOOSE h \in ChainHead : TRUE, Stored, rel, rank)
AcceptedOps == UNION {{chain[i] : i \in DOMAIN chain} : chain \in {Accepted}}

(* A command that reported success stays: its attestation is stored under  *)
(* both subjects and its tag still is the object it signed for, whatever   *)
(* later commands, failures, rollbacks, crashes and repairs did.           *)
DoneIsDurable ==
    \A o \in Ops : pc[o] = "done" => store[o] = Subjects /\ Bound(rel[o].tag, refs)

(* ... and whenever the chain can be read, that release is on it.          *)
DoneIsAccepted ==
    ChainHead # {} => {o \in Ops : pc[o] = "done"} \subseteq AcceptedOps

(* A command that failed and rolled its tag back released nothing: its     *)
(* release is never on the chain the next command reads, partial           *)
(* attestation or not.                                                     *)
FailedReleaseNotAccepted == \A o \in Ops : pc[o] = "failed" => o \notin AcceptedOps

(* So what a command reports is what the next one finds (DoneIsAccepted,   *)
(* FailedReleaseNotAccepted).                                              *)
ReportsHold == DoneIsAccepted /\ FailedReleaseNotAccepted

(* Along the accepted chain versions only go forward: a core never         *)
(* decreases, one that has its clean tag is never released again, and      *)
(* within one core no name is cut twice and iterations at a level grow.    *)
VersionFollows(old, new) ==
    \/ CoreLess(old.core, new.core)
    \/ /\ old.core = new.core
       /\ ~IsClean(old)
       /\ ~IsClean(new) /\ LevelOf(old) = LevelOf(new) => IterationOf(old) < IterationOf(new)

AcceptedVersionsAdvance ==
    \A chain \in {Accepted} : \A i, j \in DOMAIN chain :
        i < j => VersionFollows(rel[chain[i]].tag.name, rel[chain[j]].tag.name)

(* What one command read as the accepted history is never contradicted: if *)
(* a chain can be read later, it extends the history that every command    *)
(* decided on, even for commands that ran concurrently or died.            *)
Extends(longer, shorter) ==
    Len(shorter) <= Len(longer) /\ \A i \in DOMAIN shorter : longer[i] = shorter[i]

AcceptedHistoryKept ==
    \A h \in ChainHead : \A o \in Ops :
        pc[o] # "idle" => Extends(rel[h].result, rel[o].prior)

(* With one command at a time a crash never leaves the store unreadable:   *)
(* wherever processes die, the next command finds a chain to continue,     *)
(* unless a command failed half-way through the store, whose operator      *)
(* prunes what it left.                                                    *)
ReadableNow == Readable(Stored, rel, rank, refs)
AlwaysReadable == ReadableNow \/ \E o \in Ops : Partial(o)

(* Every tag has an owner: it is the legacy one, belongs to a running      *)
(* command or to one that could not undo it, or is bound by a stored       *)
(* attestation (the rollback's purpose).                                   *)
NoOrphanTag ==
    \A n \in DOMAIN refs :
        \/ Legacy # <<>> /\ Legacy[1].name = n
        \/ \E o \in Ops : /\ InFlight(o) \/ pc[o] \in {"dead", "stranded"}
                          /\ rel[o].tag.name = n
        \/ \E o \in Stored : Bound(rel[o].tag, refs) /\ rel[o].tag.name = n

(* Nothing is released unclassified and nothing twice: the intervals of the *)
(* accepted chain, promotions aside, tile the history behind the head, down*)
(* to the adoption boundary.                                               *)
IntervalsTile ==
    LET cuts == {o \in AcceptedOps : rel[o].action # "supersede"}
    IN  /\ \A a, b \in cuts : a # b => rel[a].provenance \cap rel[b].provenance = {}
        /\ \A h \in ChainHead :
              UNION {rel[o].provenance : o \in cuts} =
                 {c \in Reach[rel[h].to] :
                     Boundary # NoCommit => c = Boundary \/ c \notin Reach[Boundary]}

(* Release tags are never overwritten (ErrTagExists): while a tag exists,  *)
(* it names the object and the commit it named first.                      *)
TagKeepsObject == \A n \in DOMAIN refs \cap DOMAIN refs' : refs'[n] = refs[n]
TagNeverMoves == [][TagKeepsObject]_refs

(* The commits of the target lineage a decision of o stands on: its own    *)
(* interval and those of the pre-releases since the last clean release.    *)
Pending ==
    {Accepted[i] : i \in {k \in DOMAIN Accepted :
        \A j \in k..Len(Accepted) : ~IsClean(rel[Accepted[j]].tag.name)}}
LineageCommits(r) == r.provenance \cup UNION {rel[o].provenance : o \in Pending}

CleanDecision(o, actions) ==
    /\ pc[o] = "idle" /\ pc'[o] = "decided"
    /\ IsClean(rel'[o].tag.name) /\ rel'[o].action \in actions

(* Skipped pre-releases cannot launder trust: when a release is decided    *)
(* clean, every commit of its target lineage meets the threshold.          *)
ReleaseLineageTrusted ==
    [][\A o \in Ops : CleanDecision(o, {"advance", "recut"}) =>
          \A c \in LineageCommits(rel'[o]) : Level(c) >= Threshold]_vars

(* The same, of a promotion. *)
PromotedLineageTrusted ==
    [][\A o \in Ops : CleanDecision(o, {"supersede"}) =>
          \A c \in LineageCommits(rel'[o]) : Level(c) >= Threshold]_vars

(* Attestation references a failed command left are inert without the tag: *)
(* the chain can be read whenever it can be read without them.             *)
PartialIsInert ==
    \A o \in Stored : pc[o] = "failed" /\ rel[o].tag.name \notin DOMAIN refs =>
        (Readable(Stored \ {o}, rel, rank, refs) => Readable(Stored, rel, rank, refs))

(* Running commands take their steps unless they die, and operators prune  *)
(* what a failed command reported.                                         *)
LiveSpec ==
    Spec /\ \A o \in Ops : WF_vars(Step(o)) /\ WF_vars(PruneAttestation(o))

(* A store that cannot be read is repaired: a later command can continue.  *)
BrokenStoreRepaired == ~ReadableNow ~> ReadableNow
==============================================================================
