---------------------------- MODULE PolicyRotation ----------------------------
(***************************************************************************)
(* A repository whose policy and registries change from commit to commit,  *)
(* and the releases the authenticated chain accepts of it                  *)
(* (internal/verify/verify.go, internal/chain/predecessor.go).  A release  *)
(* of commit TO is verified with the policy in TO's own tree: its signer   *)
(* registry verifies the commits, its attester registry verifies reviews   *)
(* and earlier releases; then the policy transition compares it with the   *)
(* policy the accepted predecessor pins.                                   *)
(***************************************************************************)
EXTENDS PolicyTransition, Sequences

CONSTANTS
    Descriptor,     \* the policy the bootstrap descriptor pins
    Trees,          \* the policies commits may carry
    Classes,        \* the authorship classes of commits
    MaxReleases     \* bound: stored release attestations

ASSUME TreesAssumption ==
    /\ Descriptor \in Policy /\ Trees \subseteq Policy
    /\ Classes \subseteq Authorships
    /\ MaxReleases \in Nat

VARIABLES
    commit,     \* commit[c]: its tree, signing key and authorship, or Unmade
    reviews,    \* stored approvals by a second human: <<commit, attester>>
    releases    \* the stored release attestations, in the order of storing

vars == <<commit, reviews, releases>>

Unmade == <<>>
Made == {c \in Commits : commit[c] # Unmade}
Tree == [c \in Made |-> commit[c].tree]
Ids == 1..Len(releases)
NoRelease == 0

Init ==
    /\ commit = [c \in Commits |-> Unmade]
    /\ reviews = {}
    /\ releases = << >>

MakeCommit(c, tree, key, class) ==
    /\ c \notin Made
    /\ Parents[c] \subseteq Made
    /\ commit' = [commit EXCEPT ![c] = [tree |-> tree, key |-> key, class |-> class]]
    /\ UNCHANGED <<reviews, releases>>

(* attest review --store, by an attester of any registry. *)
StoreReview(c, a) ==
    /\ c \in Made
    /\ <<c, a>> \notin reviews
    /\ reviews' = reviews \cup {<<c, a>>}
    /\ UNCHANGED <<commit, releases>>
------------------------------------------------------------------------------
(* ClassifyCommit, for commit c under policy pol.  It aborts when the key  *)
(* is not enrolled, or when something stored under the commit, a review or *)
(* a release attestation of that commit, does not verify and no approval   *)
(* that does is met before it.  Which is met first, a digest decides: when *)
(* both are there the model leaves it open, a step not taken is an abort.  *)
Classifiable(c, pol) ==
    /\ SignatureOK(pol, commit[c].key)
    /\ \/ \E a \in Attesters : <<c, a>> \in reviews /\ AttestationOK(pol, a)
       \/ /\ \A a \in Attesters : <<c, a>> \in reviews => AttestationOK(pol, a)
          /\ \A i \in Ids : releases[i].to = c => AttestationOK(pol, releases[i].by)

ReviewOf(c) == IF \E a \in Attesters : <<c, a>> \in reviews THEN "human_distinct" ELSE "none"

Row(c, pol) ==
    [ commit |-> c, key |-> commit[c].key, signer |-> pol.signers[commit[c].key],
      level |-> AssignLevel(commit[c].class, ReviewOf(c)),
      paths |-> ChangedPaths(Tree, c) ]

(* verifiedReleasesFor: those whose signer is an attester of pol; the rest *)
(* is skipped.                                                             *)
Verified(pol) == {i \in Ids : AttestationOK(pol, releases[i].by)}

(* selectUniqueHead and the walk back to a genesis release.                *)
Heads(pol) == {i \in Verified(pol) : \A j \in Verified(pol) : releases[j].prior # i}
Chain(i) == CHOOSE S \in SUBSET Ids :
    /\ i \in S /\ \A j \in S : releases[j].prior \in S \cup {NoRelease}
    /\ \A j \in S \ {i} : \E k \in S : releases[k].prior = j

(* MUTANT of AcceptedHead: the walk back stops at a release the registry   *)
(* does not verify instead of refusing the chain.                          *)
AcceptedHeadUnlinked(pol) == {i \in Heads(pol) : Heads(pol) = {i}}

AcceptedHead(pol) == {i \in Heads(pol) : Heads(pol) = {i} /\ Chain(i) \subseteq Verified(pol)}

(* Verify's loop over an interval, its own meta-path check included. *)
IntervalOK(interval, pol) ==
    /\ \A c \in interval : Classifiable(c, pol)
    /\ ~UnderLevel({Row(c, pol) : c \in interval}, pol.meta, pol.level)

(* The policy that governs: the candidate itself while it is what the      *)
(* predecessor pins, otherwise the one in the predecessor's tree.          *)
Active(pins, candidate, predecessorTree) ==
    IF SamePolicy(pins, candidate) THEN candidate ELSE predecessorTree

(* MUTANT of TransitionFrom: the policy in the predecessor's tree is used  *)
(* without being compared with the pins.                                   *)
TransitionUnpinned(pins, candidate, predecessorTree, rows) ==
    TransitionOK(Active(pins, candidate, predecessorTree), candidate, rows)

(* checkPolicyTransition after a predecessor: what governs must be what the*)
(* predecessor pins.                                                       *)
TransitionFrom(pins, candidate, predecessorTree, rows) ==
    /\ SamePolicy(pins, Active(pins, candidate, predecessorTree))
    /\ TransitionOK(Active(pins, candidate, predecessorTree), candidate, rows)

(* checkPolicyTransition of a first release: the released policy is active *)
(* and candidate, and has to be the one the descriptor pins.               *)
TransitionFromDescriptor(pol, rows) ==
    SamePolicy(pol, Descriptor) /\ TransitionOK(pol, pol, rows)

(* The stored attestation pins the policy that governed, and the candidate *)
(* it activates.  a signs it and need not be an attester of any registry:  *)
(* the command checks the signature against a's own key before it stores   *)
(* the attestation, and asks no registry.                                  *)
Store(to, a, prior, active, interval) ==
    LET pol == commit[to].tree
    IN  /\ Len(releases) < MaxReleases
        /\ releases' = Append(releases,
               [to |-> to, by |-> a, prior |-> prior, active |-> active, candidate |-> pol,
                rows |-> {Row(c, pol) : c \in interval}])
        /\ UNCHANGED <<commit, reviews>>

(* release, with no earlier release that verifies. *)
ReleaseGenesis(to, a) ==
    LET pol == commit[to].tree
    IN  /\ Verified(pol) = {}
        /\ IntervalOK(Reach[to], pol)
        /\ TransitionFromDescriptor(pol, {Row(c, pol) : c \in Reach[to]})
        /\ Store(to, a, NoRelease, pol, Reach[to])

(* release, after the accepted head h. *)
ReleaseRecurring(to, h, a) ==
    LET pol == commit[to].tree
        p == releases[h].to
        interval == RecurringInterval(p, to)
    IN  /\ RecurringIntervalOK(p, to)
        /\ IntervalOK(interval, pol)
        /\ TransitionFrom(releases[h].active, pol, commit[p].tree,
                          {Row(c, pol) : c \in interval})
        /\ Store(to, a, h, Active(releases[h].active, pol, commit[p].tree), interval)

(* promote the accepted head h: its own interval again, from the release   *)
(* before it, whose policy pins govern.                                    *)
Promote(h, a) ==
    LET to == releases[h].to
        pol == commit[to].tree
        anchor == releases[h].prior
    IN  IF anchor = NoRelease
        THEN /\ IntervalOK(Reach[to], pol)
             /\ TransitionFromDescriptor(pol, {Row(c, pol) : c \in Reach[to]})
             /\ Store(to, a, h, pol, Reach[to])
        ELSE LET p == releases[anchor].to
                 interval == RecurringInterval(p, to)
             IN  /\ RecurringIntervalOK(p, to)
                 /\ IntervalOK(interval, pol)
                 /\ TransitionFrom(releases[anchor].active, pol, commit[p].tree,
                                   {Row(c, pol) : c \in interval})
                 /\ Store(to, a, h, Active(releases[anchor].active, pol, commit[p].tree), interval)

Next ==
    \/ \E c \in Commits, tree \in Trees, key \in Keys, class \in Classes :
          MakeCommit(c, tree, key, class)
    \/ \E c \in Commits, a \in Attesters : StoreReview(c, a)
    \/ \E to \in Made, a \in Attesters : ReleaseGenesis(to, a)
    \/ \E to \in Made : \E h \in AcceptedHead(commit[to].tree), a \in Attesters :
          ReleaseRecurring(to, h, a)
    \/ \E to \in Made : \E h \in AcceptedHead(commit[to].tree), a \in Attesters :
          releases[h].to = to /\ Promote(h, a)

Spec == Init /\ [][Next]_vars
------------------------------------------------------------------------------
RowFields == [commit : Commits, key : Keys, signer : Principals, level : Levels,
              paths : SUBSET Files]
CommitFields == [tree : Policy, key : Keys, class : Authorships]
ReleaseFields == [to : Commits, by : Attesters, prior : Nat, active : Policy,
                  candidate : Policy, rows : SUBSET RowFields]

(* Every variable has its type, and a release names an earlier one. *)
TypeOK ==
    /\ DOMAIN commit = Commits
    /\ \A c \in Made : commit[c] \in CommitFields /\ Parents[c] \subseteq Made
    /\ reviews \subseteq Made \X Attesters
    /\ releases \in Seq(ReleaseFields)
    /\ \A i \in Ids : releases[i].to \in Made /\ releases[i].prior < i

(* What the code does, which is not what its comments say: the policy that *)
(* governs is compared with the one the predecessor was governed by, never *)
(* with the candidate it announced, so whatever policies the trees carry,  *)
(* every accepted interval is governed by the policy the bootstrap         *)
(* descriptor pins.  RotationActivates below states what the comments say. *)
PolicyPinned == \A i \in Ids : SamePolicy(releases[i].active, Descriptor)

(* A policy never enrols its own author: whoever signed a released commit, *)
(* as the released tree names them, is a principal the descriptor's        *)
(* registry has, however many policy changes lie in between.               *)
SignersKnown ==
    \A i \in Ids : \A row \in releases[i].rows : row.signer \in AuthorizedSigners(Descriptor)

(* Guards are not lowered step by step: no chain of released policies ends *)
(* below the descriptor's required level or leaves a policy file unguarded.*)
GuardsHeld ==
    \A i \in Ids : /\ releases[i].candidate.level >= Descriptor.level
                   /\ MetaCovered(releases[i].candidate)

(* A released commit that changes the policy, a registry or a mandatory    *)
(* workflow had the level the descriptor's policy asks for when released.  *)
MetaChangesReviewed ==
    \A i \in Ids : \A row \in releases[i].rows :
        row.paths # {} => row.level >= Descriptor.level

(* A chain that is accepted leaves nothing out: attesters come and go, and *)
(* a release whose attester a registry does not have is skipped, but when  *)
(* a tree's registry accepts a head, the releases it verifies classify the *)
(* whole history of that head, and nothing beside it.                      *)
Classified(pol) == UNION {{row.commit : row \in releases[i].rows} : i \in Verified(pol)}
HistoryClassified ==
    \A c \in Made : \A h \in AcceptedHead(commit[c].tree) :
        Classified(commit[c].tree) = Reach[releases[h].to]

(* What the comments say and the code does not do: the policy a release    *)
(* announces as its candidate governs the next interval ("the candidate    *)
(* (new) roots activate only for the next interval").                      *)
Follows(i, j) == releases[j].prior = i /\ releases[j].to # releases[i].to
RotationActivates ==
    \A i, j \in Ids : Follows(i, j) => SamePolicy(releases[j].active, releases[i].candidate)

(* Disagrees with the code.  A key only the candidate policy enrols does   *)
(* not sign commits of the interval ("unknown_active_signer rejects a      *)
(* candidate-only key that signs this interval").                          *)
CandidateKeyWaits ==
    \A i \in Ids : \A row \in releases[i].rows : row.key \in DOMAIN releases[i].active.signers

(* Disagrees with the code.  A candidate does not authorize its own        *)
(* enrolment: a released change of the attester registry has the required  *)
(* level by reviews that the policy before it accepts.                     *)
ReviewedBy(c, attesters) ==
    IF \E a \in attesters : <<c, a>> \in reviews THEN "human_distinct" ELSE "none"
EnrolmentIndependent ==
    \A i \in Ids : \A row \in releases[i].rows :
        "attesters" \in row.paths =>
            AssignLevel(commit[row.commit].class,
                        ReviewedBy(row.commit, releases[i].active.attesters))
               >= releases[i].active.level

(* Disagrees with the code.  A stored release that no longer verifies is   *)
(* missed ("a genuinely missing link is caught later as a broken chain"):  *)
(* no two releases continue from one predecessor, or both from none.       *)
MissingLinkCaught ==
    \A i, j \in Ids : releases[i].prior = releases[j].prior => i = j

(* Disagrees with the code.  No change escapes classification (novelPaths  *)
(* "errs toward classifying more of the merge as authored, never less"):   *)
(* what differs between two successive releases, some commit between them  *)
(* changes.                                                                *)
ChangesClassified ==
    \A i, j \in Ids : \A file \in Files :
        Follows(i, j) /\ Content(releases[i].candidate, file) # Content(releases[j].candidate, file)
            => \E row \in releases[j].rows : file \in row.paths
==============================================================================
