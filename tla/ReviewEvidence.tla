---------------------------- MODULE ReviewEvidence ----------------------------
(***************************************************************************)
(* Reviews of commits: how `attest review` makes and files them            *)
(* (cmd/semver-trust/attest.go, internal/attest), and which of the filed   *)
(* ones classifies a commit (internal/verify/review.go, verify.go).        *)
(*                                                                         *)
(* The commits are a line, each the parent of the next.  Attestations are  *)
(* filed per commit under the digest of their bytes, and read in the order *)
(* of the digests, which has nothing to do with the order they were made   *)
(* in.  Filing is a ref per commit, one after the other.                   *)
(***************************************************************************)
EXTENDS Classification, Sequences, FiniteSets

CONSTANTS
    Length,         \* the commits are 1..Length
    Credentials,    \* signing keys, by the principal registries give them
    People,         \* who can hold a credential: people and machines
    Holder,         \* Holder[k]: who holds credential k
    Humans,         \* the people among them
    Policies,       \* the policies a repository may have
    Lines,          \* Lines[pol]: the signers and trailers the commits may
                    \* have under policy pol
    Reviews01,      \* Reviews01[pol]: what may be given to attest review ...
    Reviews02,      \* ... and with --predicate v0.2
    MaxDigests,     \* bounds the number of attestations ...
    MaxMade         \* ... and, MaxMade[pol], of those made under policy pol

NoOne == "no_one"
NoRevision == 0
Commits == 1..Length
Digests == 1..MaxDigests

(* A policy: the attestation-signers registry, the accounts of bots, the   *)
(* canonical actor of some credentials, and whether trailers are mandatory.*)
PolicyType == [attesters : SUBSET Credentials, bots : SUBSET Credentials,
               actors : UNION {[ks -> People] : ks \in SUBSET Credentials},
               required : BOOLEAN]

(* The policy tells the truth about the holders it knows: it lists the     *)
(* machines' credentials and maps a credential to the holder.              *)
Truthful(pol) ==
    /\ pol.bots = {k \in Credentials : Holder[k] \notin Humans}
    /\ \A k \in DOMAIN pol.actors : pol.actors[k] = Holder[k]

ASSUME ReviewAssumption ==
    /\ Length \in Nat \ {0} /\ MaxDigests \in Nat \ {0}
    /\ Holder \in [Credentials -> People] /\ Humans \subseteq People
    /\ NoOne \notin Credentials
    /\ \A pol \in Policies : pol \in PolicyType /\ Truthful(pol)
ASSUME HumansAssumption == IsFiniteSet(Humans)
ASSUME LinesAssumption ==
    \A pol \in Policies : \A line \in Lines[pol] : \A c \in Commits : line[c].signer \in Credentials

VARIABLES
    policy,     \* the repository's policy
    commit,     \* commit[c]: who signed it, and its Provenance trailers
    filed,      \* filed[c]: the attestations filed under commit c
    pending,    \* the commits the running command still files under
    made        \* every attestation made so far

vars == <<policy, commit, filed, pending, made>>

(* identityClass, and the class policy gives an actor.                     *)
IdentityClass(k) == IF k \in policy.bots THEN "agent" ELSE "human"
ActorClass(a) == IF a \in Humans THEN "human" ELSE "agent"
Mapped(k) == k \in DOMAIN policy.actors

(* Trailers.Provenance: the last of the trailers with that key.            *)
Provenance(c) ==
    IF commit[c].trailers = <<>> THEN NoTrailer ELSE commit[c].trailers[Len(commit[c].trailers)]

(* trailersMap: what the report shows for it.                              *)
ReportedProvenance(c) ==
    IF commit[c].trailers = <<>> THEN NoTrailer ELSE Head(commit[c].trailers)

Authorship(c) == ClassifyAuthorship(IdentityClass(commit[c].signer), Provenance(c), policy.required)

(* MUTANT of SubjectCovers: where it was found is enough.                  *)
FoundIsCovered(e, c) == TRUE

(* subjectCovers: a statement counts for the commits it names, wherever it *)
(* was found.                                                              *)
SubjectCovers(e, c) == c \in e.subjects

(* A statement whose signature no enrolled attester made.                  *)
Unverified(e) == e.signer \notin policy.attesters

(* reviewQualification, fail closed: an actor is needed and unknown.       *)
NeedsActor(e, c) ==
    /\ e.predicate = "v0.2" /\ DOMAIN policy.actors # {}
    /\ ~Mapped(e.signer) \/ ~Mapped(commit[c].signer)

(* The statements resolveReview goes past: those of other commits, reviews *)
(* without an approving verdict (reviewFacts), qualified reviews under a   *)
(* policy without actors, and statements that are no reviews.              *)
Skipped(e, c) ==
    \/ ~SubjectCovers(e, c)
    \/ e.predicate = "release"
    \/ e.predicate = "v0.1" /\ e.verdict # "approved"
    \/ e.predicate = "v0.2" /\ DOMAIN policy.actors = {}

(* The statements that end the search through the list.                    *)
Stops(c) == {e \in filed[c] : Unverified(e) \/ ~Skipped(e, c)}

NoStatement == [predicate |-> "none"]
FirstStop(c) ==
    IF Stops(c) = {} THEN NoStatement
    ELSE CHOOSE e \in Stops(c) : \A f \in Stops(c) : e.digest <= f.digest

(* Without an attestation-signers registry nothing can be verified and     *)
(* every commit counts as unreviewed.                                      *)
Consumed(c) == IF policy.attesters = {} THEN NoStatement ELSE FirstStop(c)

(* resolveReview returns an error, and with it the whole verification.     *)
Aborts(c) ==
    LET e == Consumed(c)
    IN  e # NoStatement /\ (Unverified(e) \/ NeedsActor(e, c))

(* reviewFacts and reviewQualification: what a statement says and what its *)
(* signature and the policy show.                                          *)
FactsOf(e, c) ==
    [reviewerClass |-> e.class, reviewer |-> e.identity, signer |-> commit[c].signer,
     separate |-> e.separate]

QualificationOf(e, c) ==
    [reviewerClass |-> ActorClass(policy.actors[e.signer]), reviewerActor |-> e.actor,
     authorActor |-> policy.actors[commit[c].signer], credentialActor |-> policy.actors[e.signer],
     verdict |-> e.verdict, state |-> e.state, effective |-> e.effective,
     coverage |-> e.coverage, approved |-> e.approved, final |-> c, result |-> e.result,
     approvedDiff |-> e.approvedDiff, resultDiff |-> e.resultDiff,
     strategy |-> e.strategy, capture |-> e.capture, separate |-> e.separate]

(* ClassifyWithQualification on one statement.                             *)
ReviewBy(e, c) ==
    IF e.predicate = "v0.1" THEN ClassifyReview(Authorship(c), FactsOf(e, c))
    ELSE IF e.predicate = "v0.2" THEN QualifyReview(Authorship(c), QualificationOf(e, c))
    ELSE NoReview

(* ClassifyCommit, of a commit whose review does not abort.                *)
Level(c) == AssignLevel(Authorship(c), ReviewBy(Consumed(c), c))

--------------------------------------------------------------------------------
Init ==
    /\ policy \in Policies
    /\ commit \in Lines[policy]
    /\ filed = [c \in Commits |-> {}]
    /\ pending = <<>>
    /\ made = {}

(* The subjects of a command: a range of commits, which is walked from its *)
(* newest commit down (resolveSubjects, vcs.Range).                        *)
RangeOf(from, to) == [i \in 1..(to - from) |-> to + 1 - i]
SubjectLists == {RangeOf(from, to) : from \in {f \in 0..Length : f < Length}, to \in Commits} \ {<<>>}

(* An envelope's bytes hold the time, so no two have one digest.           *)
FreeDigests == {d \in Digests : d <= MaxMade[policy] /\ \A f \in made : d # f.digest}

(* A finished envelope; the command begins to file it, newest commit first *)
(* (StoreForSubjects).                                                     *)
Emit(e, subjects) ==
    /\ made' = made \cup {e}
    /\ pending' = [i \in DOMAIN subjects |-> [subject |-> subjects[i], envelope |-> e]]
    /\ UNCHANGED <<policy, commit, filed>>

Members(subjects) == {subjects[i] : i \in DOMAIN subjects}

(* attest review: the class, the identity and the verdict are what the     *)
(* command line says; the command asserts no independence.                 *)
Review01(signer, r, subjects, d) ==
    [predicate |-> "v0.1", digest |-> d, subjects |-> Members(subjects), signer |-> signer,
     identity |-> r.identity, class |-> r.class, verdict |-> r.verdict, separate |-> FALSE]

AttestReview01 ==
    /\ pending = <<>>
    /\ \E d \in FreeDigests, signer \in Credentials, r \in Reviews01[policy], subjects \in SubjectLists :
          Emit(Review01(signer, r, subjects, d), subjects)

(* emitReviewV02: a revision that is not given is the target, and a target *)
(* that is not given is the last subject.                                  *)
TargetRevision(r, subjects) ==
    IF r.target # NoRevision THEN r.target ELSE subjects[Len(subjects)]
OrTarget(revision, r, subjects) ==
    IF revision # NoRevision THEN revision ELSE TargetRevision(r, subjects)

Review02(signer, r, subjects, d) ==
    [predicate |-> "v0.2", digest |-> d, subjects |-> Members(subjects), signer |-> signer,
     actor |-> r.actor, verdict |-> r.verdict, state |-> r.state, effective |-> r.effective, coverage |-> r.coverage,
     target |-> TargetRevision(r, subjects),
     approved |-> OrTarget(r.approved, r, subjects), result |-> OrTarget(r.result, r, subjects),
     approvedDiff |-> r.approvedDiff, resultDiff |-> r.resultDiff,
     strategy |-> r.strategy, capture |-> r.capture, separate |-> r.separate]

AttestReview02 ==
    /\ pending = <<>>
    /\ \E d \in FreeDigests, signer \in Credentials, r \in Reviews02[policy], subjects \in SubjectLists :
          Emit(Review02(signer, r, subjects, d), subjects)

(* A release statement is filed under the released commit, too.            *)
AttestRelease ==
    /\ pending = <<>>
    /\ \E d \in FreeDigests, signer \in Credentials, c \in Commits :
          Emit([predicate |-> "release", digest |-> d, subjects |-> {c}, signer |-> signer], <<c>>)

(* GitRefStore.Put, for the next subject.                                  *)
Put ==
    /\ pending # <<>>
    /\ filed' = [filed EXCEPT ![Head(pending).subject] = @ \cup {Head(pending).envelope}]
    /\ pending' = Tail(pending)
    /\ UNCHANGED <<policy, commit, made>>

(* The command stops between two refs.                                     *)
Crash ==
    /\ pending # <<>>
    /\ pending' = <<>>
    /\ UNCHANGED <<policy, commit, filed, made>>

(* Attestations are refs: whoever may push can file one under any commit.  *)
Refile ==
    /\ \E e \in made, c \in Commits :
         /\ e \notin filed[c]
         /\ filed' = [filed EXCEPT ![c] = @ \cup {e}]
    /\ UNCHANGED <<policy, commit, pending, made>>

Next == AttestReview01 \/ AttestReview02 \/ AttestRelease \/ Put \/ Crash \/ Refile

Spec == Init /\ [][Next]_vars

--------------------------------------------------------------------------------
(* The sets the variables range over; a filed attestation was made, and one*)
(* commit never has two attestations of one digest.                        *)
TypeOK ==
    /\ policy \in Policies /\ commit \in Lines[policy]
    /\ \A c \in Commits : filed[c] \subseteq made
    /\ \A e, f \in made : e.digest = f.digest => e = f
    /\ \A i \in DOMAIN pending : pending[i].envelope \in made

(* Who stands behind a commit: the holder of the key that signed it, when  *)
(* its authorship counts as human, and the holders of the keys that signed *)
(* a review that names it.                                                 *)
StandsBehind(c) ==
    LET reviewers == {e.signer : e \in {f \in made : c \in f.subjects}}
        author    == IF Authorship(c) = "human" THEN {commit[c].signer} ELSE {}
    IN  {Holder[k] : k \in author \cup reviewers} \cap Humans

(* A level never counts more humans than stand behind the commit: with     *)
(* qualified reviews nobody counts twice through a second key, a machine's *)
(* approval never counts as a human's, and a review never counts for a     *)
(* commit it does not name, wherever it is filed (qualify.go, review.go).  *)
HumansCounted ==
    \A c \in Commits :
        ~Aborts(c) /\ Consumed(c).predicate = "v0.2"
            => HumansOf(Level(c)) <= Cardinality(StandsBehind(c))

(* Of all the commits a qualified review names it lifts at most one: the   *)
(* one it says was merged (reviewQualification, PostApprovalChange).       *)
OneResult ==
    \A c, d \in Commits :
        /\ ~Aborts(c) /\ ~Aborts(d) /\ c # d
        /\ Consumed(c).predicate = "v0.2" /\ Consumed(c) = Consumed(d)
        => ReviewBy(Consumed(c), c) = NoReview \/ ReviewBy(Consumed(d), d) = NoReview

(* The level of a commit with the review it has, were it of some author.   *)
LevelBy(author, c) ==
    LET e == Consumed(c)
    IN  AssignLevel(author,
            IF e.predicate = "v0.1" THEN ClassifyReview(author, FactsOf(e, c))
            ELSE IF e.predicate = "v0.2" THEN QualifyReview(author, QualificationOf(e, c))
            ELSE NoReview)

(* Whatever its trailers and its review, a commit never has more than the  *)
(* class of its verified signer supports; and a trailer earns more than    *)
(* leaving it out in one case only, when the policy requires one and a     *)
(* human signer claims to be the author (classifyAuthorship).              *)
TrailersBounded ==
    \A c \in Commits :
        LET signer == IdentityClass(commit[c].signer)
            bare   == ClassifyAuthorship(signer, NoTrailer, policy.required)
        IN  ~Aborts(c) =>
              /\ Level(c) <= LevelBy(signer, c)
              /\ Level(c) > LevelBy(bare, c)
                   => policy.required /\ signer = "human" /\ Provenance(c) = "human"

(* An attestation that does not name a commit cannot change its level, nor *)
(* clear what stops its verification: at worst it stops it (resolveReview).*)
OthersUntouched ==
    [][\A c \in Commits :
         (\A e \in filed'[c] \ filed[c] : c \notin e.subjects)
            => Aborts(c)' \/ (~Aborts(c) /\ Level(c)' = Level(c))]_vars

(* What concepts.md says of a review: a human reviewer's signature adds a  *)
(* human.  A commit with an approving review of a human who did not write  *)
(* it counts that human.                                                   *)
HumanReviewCounts ==
    \A c \in Commits :
        /\ ~Aborts(c) /\ IdentityClass(commit[c].signer) = "human" /\ Authorship(c) = "human"
        /\ \E e \in filed[c] :
             /\ c \in e.subjects /\ e.predicate = "v0.1" /\ e.verdict = "approved"
             /\ e.class = "human" /\ e.identity # commit[c].signer
        => Level(c) = 3

(* What classify.go says of review facts: the reviewer's identity is the   *)
(* verified one.  So nobody counts twice under review/v0.1 either.         *)
ReviewerVerified ==
    \A c \in Commits :
        ~Aborts(c) /\ Consumed(c).predicate = "v0.1"
            => HumansOf(Level(c)) <= Cardinality(StandsBehind(c))

(* What resolveReview says of stored envelopes: each is verified, and any  *)
(* that fails to verify aborts.                                            *)
EachVerified ==
    \A c \in Commits :
        policy.attesters # {} /\ (\E e \in filed[c] : Unverified(e)) => Aborts(c)

(* What the flag --target-revision says of its default: it is the end of   *)
(* the range.                                                              *)
TargetIsRangeEnd ==
    \A e \in made : e.predicate = "v0.2" => \A c \in e.subjects : c <= e.target

(* What trailersMap says of a repeated key: the report shows the value the *)
(* classification read.                                                    *)
ReportMatches == \A c \in Commits : ReportedProvenance(c) = Provenance(c)
==============================================================================
