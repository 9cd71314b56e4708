# semver-trust-go: TLA+ specifications and proofs

`semver-trust` is a command-line program. It decides from a repository's signed history how
far each commit can be trusted, and from that whether a release gets a clean version
(`v1.4.0`) or a pre-release version that carries its trust level (`v1.4.0-t1.2`). It records
every decision as a signed attestation in git references, and each attestation commits to
the one before it. This directory holds the specifications of that program, what has been
model-checked of them and what has been proved.

Nothing in the program runs concurrently with itself. What makes it hard is that several
operators and CI jobs work on one repository, that a command takes many separate steps on
that repository and can stop after any of them, that every input (policy, registries,
reviews, earlier releases) is itself content of the repository and changes with it, and that
the meaning of a release depends on every release before it.

To check a module: `tlc -config <cfg> <module>`; to check proofs: `tlapm <module>Proofs.tla`.

## 1. The system

| component | state | operations | what makes it correct |
|---|---|---|---|
| **release chain commands** `cmd/semver-trust/release.go`, `promote.go` | tags and `refs/attestations/*` of the repository | `release` (advance, recut; with and without a descriptor), `promote` (supersede): verify, decide, tag, sign, store twice, roll back | what is reported released stays released; what failed is not; no orphan or moved tag; versions go forward; a clean version covers trusted commits only |
| **accepted-chain reader** `internal/chain/predecessor.go` | none (reads the store and the tags) | `AcceptedChainHead`, `SupersedeHead` | one head or a refusal; the head it finds extends the head found before |
| **commit intervals** `internal/vcs/interval.go`, `walk.go` | none | `SelectInterval`, `Range` | every commit after the boundary is covered once |
| **version ancestry** `internal/version/ancestry.go`, `state.go` | none; the state travels in attestations | `SelectVersionAncestry`, `CanonicalStateMap` | next core, iteration and name follow from the authenticated state |
| **trust levels and decision** `internal/trust/level.go`, `decide.go` | none | `AssignLevel`, `DecisionCell`, `Decide` | threshold is a hard gate; unavailable differ demotes |
| **tags** `internal/vcs/sign.go`, `tags.go` | `refs/tags/*` | `CreateSignedTag`, `DeleteTag`, `TagRefs` | never overwritten |
| **attestation store** `internal/attest/store.go`, `emit.go` | `refs/attestations/*` | `Put`, `All`, `List`, `StoreForSubjects` | append-only; what is stored can be found |
| **review evidence** `cmd/semver-trust/attest.go`, `internal/verify/review.go`, `internal/trust/qualify.go` | review attestations | `attest review` (v0.1, v0.2), `resolveReview`, `QualifyReview` | a level counts no more people than stand behind the commit |
| **classification** `internal/trust/classify.go`, `internal/vcs/trailers.go` | none | `Classify`, `ClassifyWithQualification` | claims never raise trust above the signature's |
| **scopes and propagation** `internal/trust/scope.go`, `propagate.go`, `graph/gomod`, `internal/verify/aggregate.go` | none | `ScopeFloors`, `MetaPathViolations`, `Resolve`, `Propagate` | effective trust = minimum over everything reachable; guarded paths are guarded |
| **policy and its rotation** `internal/policy`, `internal/verify/metapolicy.go` | the policy and the registries in each commit's tree; pins in attestations | parse, `SelectPolicyTransition` | an unaccepted policy never decides |
| **verification pipeline** `internal/verify` | none | `Verify` (load, enumerate, classify, evidence, aggregate) | abort rather than guess |
| **versions and plain tags** `internal/version`, `internal/plain`, `cmd/semver-trust/plain.go` | `refs/tags/*` | `Parse`, `Compare`, `Increment`; `list`, `latest`, `next`, `tag` | one order; the next version is above what there is |
| **setup** `internal/setup` | git settings of the clone | plan, apply, receipt | all or nothing as a plan, repeatable, reversible |
| **enroll** `internal/enroll` | registries in the working tree | print, append | keeps commit and attestation keys apart, drops no line |
| **doctor** `internal/preflight` | none | read-only checks, a verdict per persona | a clean diagnosis can be relied on |
| **publish profile** `internal/profile` | none | validation of one document | — |
| **signatures, git settings, parsing** `internal/sshsig`, `pgp`, `gitconfig`, ... | none | verify, parse | — |

How they interact: a command calls the *verification pipeline*, which asks the
*accepted-chain reader* for the head, the *policy transition* whether the policy in the
released tree may be used, the *commit intervals* for the commits since the head,
*classification* and *review evidence* for their levels and *scopes and propagation* for the
component's trust. The *decision* and the *version ancestry* turn that into a name. The
command then writes a *tag* and *stores* an attestation; the next command's reader reads
both. There are no locks: the tag name and the digest chain are the only arbiters. *Setup*
and *enroll* write what signing and verification later read, and *doctor* foretells what
verification will say.

The behaviours that are hard to test: the two-part store and its rollback, death of the
process between two steps, two commands that decide from one head, a check-then-write of a
tag name, long alternations of advances, recuts and promotions, whose state must be
reproduced exactly by the reader, a policy that changes underneath the chain it governs,
reviews in any combination and order of one another, and half-finished runs of setup and
enroll. `PROJECT.json` lists each at its line under `hazards`.

## 2. Modules

There are six state machines. The first row of each group is the machine, what follows are
the state-less functions it calls, its proofs and its instances for TLC (`MC...`).

| module | models | notes |
|---|---|---|
| `ReleaseChain` | `release` and `promote` with a descriptor, on one repository, step by step | |
| `AcceptedChain` | `acceptedHead`, `verifyCompleteChain`, `SupersedeHead` | a digest is the sequence of states it commits to |
| `VersionAncestry` | `SelectVersionAncestry` with its three authorities | a refusal is a missing conjunct |
| `TrustDecision` | levels, `decisionTable`, `decisionOutcome`, strategies | levels and bumps are numbers in the code's own order |
| `CommitGraph` | `SelectInterval`, `commitReach` | `Reach[c]` is the least parent-closed set that holds `c` |
| `ReleaseLedger`, `ReleaseRefinement` | what the chain promises its readers, and the mapping to it | abstract specification and refinement |
| `LegacyRelease` | `release` without a descriptor (release/v0.1), several components | extends `VersionAncestry` |
| `PolicyRotation` | releases of a repository whose policy and registries change | extends `PolicyTransition` |
| `PolicyTransition` | `MetaPolicyFromTree`, `SelectPolicyTransition`, changed paths of a commit | |
| `ReviewEvidence` | making, filing and reading review attestations | extends `Classification` |
| `Classification` | `Classify`, `QualifyReview` | |
| `Aggregation` | the end of a verification: guarded paths, scope floors, propagation, headline | extends `PathScopes`, `Workspace`, instantiates `Propagation` |
| `PathScopes` | globs, scopes, floors, guarded paths, one commit of a range at a time | |
| `Workspace` | modules, `require` and `replace`, floors over directories | |
| `Propagation` | Tarjan's algorithm with explicit frames, then the levels | shares `Aggregation`'s variables |
| `PlainTags` | `plain`: latest, next and tag over a repository's tags | extends `VersionOrder` |
| `VersionOrder` | the tag grammar by its parts, precedence, `Increment` | |
| `Bootstrap` | setup, enroll, doctor and people over one clone | extends the next four |
| `GitSetup`, `Enrollment` | the two commands, step by step | |
| `Doctor` | the checks and the verdict, as predicates on any state | |
| `Clone`, `AllowedSigners` | settings, registries, who runs; the resolver of a key | |
| `ReleaseChainProofs`, `ReleaseRefinementProofs`, `PolicyRotationProofs`, `ReviewEvidenceProofs`, `VersionOrderProofs`, `BootstrapProofs`, `LegacyReleaseProofs`, `AggregationProofs` | theorems | checked by TLAPS, section 4 |

`MUTANT` definitions are deliberate mistakes, each the kind of slip that could be made in
the code it is derived from; nothing uses them. With the definition replaced by its mutant
the property named in `PROJECT.json` fails, which shows that the property depends on that code.

### `ReleaseChain`

- `refs`: `refs/tags/*`, each name with the raw object it names and the commit that peels to.
- `store[o]`: under which subjects attestation `o` is filed, `refs/attestations/<commit>/…`
  and `refs/attestations/<tag>/…`. The reader finds it under either.
- `rel[o]`: what attestation `o` signs (`attest.ReleaseV02Input`), reduced to the fields the
  reader or a later decision reads. Its raw tag object is filled in when the tag exists.
- `pc[o]`: how far invocation `o` has come; a local of the process, lost when it dies.
- `review[c]`: the review class that `resolveReview` finds for commit `c`.
- `rank`: the order in which references are iterated, fixed by their names. It decides which
  of two attestations with the same resulting digest the reader keeps.

| action | code |
|---|---|
| `AttestReview` | `attest review --store` |
| `Start` (`ReleaseGenesis`, `ReleaseRecurring`, `Promote`) | everything up to the decision: `Verify`, `AcceptedChainHead`/`SupersedeHead`, `SelectInterval`, `decideReleaseAncestry`/`decidePromote`, `releaseV02Input`. It only reads |
| `LookupTag`, `SignTagFails`, `SetTag` | `CreateSignedTag`: the lookup, a failure to build or sign the object, `SetReference` |
| `BindAndSign`, `SignFails` | `TagRefs`, `Emission.Tag`, `Emit` |
| `PutUnderCommit`, `PutUnderTag` and their failures | `StoreForSubjects`, one `Put` per subject |
| `Rollback`, `RollbackFails` | `_ = vcs.DeleteTag(...)` |
| `Crash` | the process dies at any point after its decision |
| `PruneAttestation` | what the error message asks the operator for: "prune the partial attestation refs" |
| `DeleteOrphanTag` | an operator deletes a tag no attestation binds (external to the program) |

The decision is one step because it writes nothing: other commands' writes during it are
indistinguishable from writes before it or after it, except that its several reads need not
be of one instant. The tag names are re-checked by `LookupTag` and the head by the next
reader, so the model keeps the two reads whose age matters: the decision's and the lookup's.

Not every start is a success: an invocation whose decision is refused writes nothing and is
left out. The same holds of the other machines.

### `LegacyRelease`

`reviewed`, `tags`, `store`, `pc` and `rel` as above, with two differences of the code: the
previous release is the caller's `--from` (any tag, of any component, or none), and the order is
`Start` (verify and decide), `SignStatement`, `LookupTag`, `SetTag`, `PutUnderCommit`,
`PutUnderTag`, with no rollback: `StepFails` and `Crash` leave what is there.

### `PolicyRotation`

- `commit[c]`: its tree (a policy with its registries), the key that signed it, its authorship.
- `reviews`: approvals, each with the attester who signed it.
- `releases`: the stored release attestations in the order of storing, each with the rows it
  covers and the pins of the policy it was governed by.

`MakeCommit` and `StoreReview` are what people do. `ReleaseGenesis`, `ReleaseRecurring` and
`Promote` are whole verifications: `Verified` (which attestations verify with the registry of
the tree released now), `AcceptedHead` over them, `IntervalOK`, `Row` (classification under
that registry), then `TransitionFrom`/`TransitionFromDescriptor`
(`checkPolicyTransition`, `SelectPolicyTransition`). A verification writes nothing before its one
attestation, and the failures of that write are `ReleaseChain`'s subject. `Store` takes an
attestation by anybody: the command checks the signature against the signer's own key
(`emit.go:147`) and asks no registry, so a release whose attester nobody enrolled is stored, and
skipped by the next reader. Where a commit has both an approval and something that does not
verify, a digest decides which is met first; `Classifiable` leaves it open.

### `ReviewEvidence`

- `policy`: attesters, bots and the map of credentials to actors; `commit[c]`: signer and
  `Provenance` trailers.
- `made`: every attestation made; `filed[c]`: those filed under `c`; `pending`: what the
  running command still has to file.

`AttestReview01`, `AttestReview02` and `AttestRelease` make an envelope over a list of
commits, `Put` files it under one, `Crash` stops filing, `Refile` files an existing envelope under
another commit (any pusher can). Reading is `FirstStop` (the loop of `resolveReview` in the
order of digests) and `Level`. Who really holds which key is `Holder`, which the program does
not know and the properties use.

### `Aggregation`

`phase` goes from `scopes` (one `ScopePass` per commit, in `PathScopes`) over `graph`
(`Traverse`: one pass of Tarjan's loop, `Descend` or `Retreat`) to `reported`, or to `aborted` when a
guarded path was changed below the required level or the workspace does not resolve.
Directories and scopes are the ranks of their names, because the program sorts by name.

### `PlainTags`

`tags` is the set of a repository's tags. `TagNamed` is `tag <name>`, `TagNext` is
`tag -i`, `Foreign` any tag another tool pushes. An identifier is a numeral or the rank of a text.
`ReadsAsInt`, `Atoi` and `Itoa` are `strconv`'s: a numeral is read up to the largest int
(`MaxInt`), a text when it is a negative number (`TextInts`), and the largest int plus one wraps.

### `Bootstrap`

- `config`, `fetch`: the managed settings and the fetch refspecs of the clone.
- `work`, `head`: the three registries in the working tree and in the tree of HEAD, each a
  state (absent, broken, outside the fence, parsed) and a sequence of lines.
- `run[p]`: the plan of an invocation and what is left of it; `now`, `edits`: clock and the
  number of changes by hand (bounded by `MaxTime`, `MaxEdits`); `byHand`: lines people put in.

| action | code |
|---|---|
| `SetupPlan` | `newSetupCmd` up to `Apply`: refusals, `Compute`, conflicts, `--dry-run` |
| `SetupWrite`, `SetupAddFetch`, `SetupFails` | `Plan.Apply`: one `git config` each, which may fail |
| `SetupDone` | the receipt |
| `EnrollBuild` | `newEnrollCmd` up to the write: `BuildSSH`, `BuildGPG`, refusals, `--write` or print |
| `EnrollWrite`, `EnrollFails` | `WriteRegistry`: a temporary file and a rename |
| `Die` | the process dies between two steps |
| `Paste`, `Merge`, `Revoke`, `Commit`, `Configure`, `RunReceipt`, `Tick` | people and time (external) |

`Doctor` has no actions: its checks are evaluated in every state.

## 3. What the runs check

Each run names its module and configuration in `PROJECT.json`, with one mutant per property.

| run | instance | shows |
|---|---|---|
| `serial` | `ReleaseChain`, 5 commits with a merge, boundary and legacy tag, 3 commands one at a time, reviews, failing signatures, writes and rollbacks, process death, fairness | `DoneIsDurable`: a success keeps its tag and both copies of its attestation. `ReportsHold`: what a command reports is what the next one finds on the chain. `AlwaysReadable`: wherever a process dies the next command finds an empty store or an accepted head. `AcceptedVersionsAdvance`: no version is reissued or goes back. `NoOrphanTag`, `TagNeverMoves`. `ReleaseLineageTrusted`: an advance or recut to a clean version never covers a commit below the threshold, its unpromoted pre-releases' commits included. `IntervalsTile`: each commit behind the head, down to the boundary, is classified by exactly one advance or recut. `ImplementsLedger`: the refinement below. `BrokenStoreRepaired` (liveness): a store that a failed write made unreadable is made readable again |
| `concurrent` | 3 commands interleaved step by step, process death, every order of references | `AcceptedHistoryKept`: a readable chain always extends every history read earlier. Forks make the chain unreadable; they never rewrite it |
| `legacy` | `LegacyRelease`, 3 concurrent commands on a graph with a merge, failures and death | `CleanHistoryEarned`: when the releases a clean one continues are of its component, every commit of its whole history was at or above the threshold when one of them was decided. `BreakingBumpsMajor`: a breaking commit between a release and one it descends from raises the major number. `AttestedIsTagged`: what is attested has its tag |
| `rotations` | `PolicyRotation`, 3 commits with any of 7 policies each, reviews, 3 releases, each attested by anybody | `PolicyPinned`: every release is governed by the descriptor's policy, which is what the code does and not what it says (see `activation`). `SignersKnown`, `GuardsHeld`, `MetaChangesReviewed`: no chain of releases lets in an unknown signer, lowers a guard, or carries an under-level change of policy, registries or workflow. `HistoryClassified`: when the registry of some tree accepts a head, the releases it verifies have classified the whole history of that head and nothing beside it, whatever attesters come and go |
| `people` | `ReviewEvidence`, two people with three keys and a machine, 2 commits, 6 policies | `HumansCounted`: no level decided by a qualified review counts more humans than stand behind the commit. `OneResult`: a qualified review lifts one commit at most. `TrailersBounded`: whatever its trailers, a commit has no more than its signer's class supports with the same review, and a trailer earns more than leaving it out only where the policy requires one and a human claims to be the author. `OthersUntouched`: what does not name a commit changes nothing of its level |
| `trust` | `Aggregation`, every range of 2 commits over 4 paths and 5 scope tables; every graph of 4 modules; replacing modules; spread ranges | `ScopesRight`: matching, partition and floors against reference definitions. `MetaGuarded`. `TraversalRight`: at the end the components are the strongly connected ones. `LevelsRight`: the levels are the least over everything reachable, with a source that has that level. `HeadlineBounded`: a release of the whole workspace is trusted no more than the lowest scope. `Terminates` (liveness) |
| `next` | `PlainTags`, up to 3 tags of any form | `NextAdvances`: the next version is above all there are. `NoTrustByNext`: a computed tag never claims a trust level |
| `bootstrap` | `Bootstrap`, 8 clones, any two invocations of setup and enroll one after the other, failing or dying between writes, one change by hand | `RerunCompletes`, `ReceiptRestores`: setup can be run again after it stopped and undone after it finished. `SigningKeyKept`, `EnrollOnlyAppends`: no key is replaced, no line dropped. `KeysApart`: no key is in both registries by the program's doing. `CommandsSatisfyDoctor`: what the commands leave, doctor passes. `DiagnosisHolds`: what doctor passes, verification accepts, and a shared key is found |
| `overwrite` | concurrent releases | **violated** `TagNeverMoves` |
| `lineage` | reviews and promotions | **violated** `PromotedLineageTrusted` |
| `prefix` | `LegacyRelease`, two components | **violated** `ComponentKept` |
| `activation` | `PolicyRotation`, as `rotations` with one class of authors | **violated** `RotationActivates` |

The last four are places where the program and what is written about it disagree:

1. *A tag can be overwritten.* `internal/vcs/sign.go:21`: "Release tags are never overwritten".
   `CreateSignedTag` checks, builds and signs, and then sets the reference unconditionally.
2. *Promotion launders skipped pre-releases.* The runbook (`docs/recurring-release-runbook.md:144`)
   says of a target's growing lineage that "skipped prereleases can't launder trust".
   `release` respects that (`ReleaseLineageTrusted`). `promote` re-verifies only the
   interval of the release it promotes. Cut agent commits as `t0.1`, cut a second commit on top as
   `t0.2`, review that second commit, promote: the clean tag covers the unreviewed first one.
3. *A component's tag with another's trust.* `cmd/semver-trust/release.go:491`: "The component path
   must be consistent between --component and a component-prefixed FROM". With no `--component`
   the prefix of FROM is kept and the default component is verified.
4. *A rotated policy never governs.* `internal/verify/verify.go:543`: "the candidate (new) roots
   activate only for the next interval", and `internal/policy/transition.go:89`: "the candidate policy
   at TO is only activated for the next interval". The next interval is compared with the policy that
   governed the predecessor (`PolicyPins`, `predecessor.go:613`) and not with the candidate it
   announced; when the two differ the active policy is read from the predecessor's tree, which
   holds the candidate, and has to be the pinned one. So after a release that rotates the policy, a
   release of a tree that keeps it is refused, and one whose tree has the old policy again succeeds
   under the old policy. This is why `PolicyPinned` holds.

### Further disagreements

Each row is a definition that states what the comment says and that TLC finds violated. No run
lists it; it is reproduced by checking it alone, with the run's configuration and the change named.

| definition | in run | the code does | quoted |
|---|---|---|---|
| `PartialIsInert` | `serial` | one attestation left by a failed write stops every later command until it is pruned (`predecessor.go:137`) | "inert without the tag", `release.go:324`, `promote.go:546` |
| `CandidateKeyWaits` | `rotations` | the signer is looked up by the candidate's registry; a key the candidate enrols under a known principal signs the interval that enrols it (`transition.go:213`) | "rejects a candidate-only key that signs this interval", `verify.go:541` |
| `EnrolmentIndependent` | `rotations` | reviews are verified with the candidate's attesters (`verify.go:866`) | "authorize its own enrollment", `transition.go:88` |
| `MissingLinkCaught` | `rotations` | a newest attestation that does not verify is skipped and the one before it is continued; when it was the only one, its attester unenrolled or removed, a second genesis follows (`predecessor.go:211`) | "a genuinely missing link is caught later", `predecessor.go:204` |
| `ChangesClassified` | `rotations`, `Commits = {1, 2, 3, 4}`, `Parents <- DiamondParents`, `Trees <- WorkflowChanges` | a merge that takes a file from an older parent changes nothing (`walk.go:220`) | "never less", `walk.go:185` |
| `HumanReviewCounts` | `people` | the first covering approved review in digest order classifies (`review.go:146`) | "human reviewer's signature adds a human", `docs/concepts.md:112` |
| `ReviewerVerified` | `people` | the reviewer of a v0.1 review is whom its payload names (`review.go:195`) | "the verified identities used", `classify.go:71` |
| `EachVerified` | `people` | what follows the review that counts is not verified (`review.go:146`) | "each is verified; any that fails", `review.go:90` |
| `TargetIsRangeEnd` | `people` | the last of a range listed from its newest commit is its oldest (`attest.go:312`) | "the last covered commit", `attest.go:214` |
| `ReportMatches` | `people`, `Lines <- TwoTrailers` | the report keeps the first of two trailers, the classification the last (`verify.go:936`, `trailers.go:33`) | "matching Trailers.Get", `verify.go:929` |
| `LeadingStars` | `trust`, `Cases <- StarCases` | `**/a` does not match `a` (`scope.go:53`) | "gitignore-style", `scope.go:27` |
| `SmallestSource` | `trust` | a module at the floor hides a smaller-named one behind it (`propagate.go:91`) | "the lexicographically smallest", `propagate.go:26` |
| `RequiresAreEdges` | `trust`, `Cases <- VersionCases` | a `replace` of one version redirects a `require` of another (`gomod.go:148`) | "A require edge is internal when", `gomod.go:10` |
| `NextIsCanonical` | `next` | a computed name is not parsed again (`plain.go:247`) | "written in canonical §7.1 form", `plain.go:234` |
| `NextFollowsLatest` | `next`; also `Names <- LastNames`, `Preids <- NoPreids`; also `Names <- LargeNames` | another `--preid` may sort below the one in use (`increment.go:185`); the successor of the largest number is zero (`increment.go:151`); the same `--preid` resets a counter no int holds, `alpha.9223372036854775808` to `alpha.0` (`increment.go:181`) | "the version that follows the latest", `plain.go:106`, `cmd/.../plain.go:187` |
| `TextsKept` | `next`, `Names <- MinusNames`, `Preids <- NoPreids` | the text `-1` reads as an int and becomes the numeral `0` (`increment.go:166`) | "the last numeric identifier", `increment.go:154` |
| `OnlyStoreErrorsOrphan` | `legacy` | a process that dies between tag and store leaves the tag; a rerun is refused because it exists (`release.go:371`) | "the only failure mode", `release.go:354` |

Two more follow from a step of a model rather than from a property. When a rollback's deletion
fails (`RollbackFails`) the command still says "the tag was rolled back" (`release.go:332`), and
if one attestation was stored the next command continues from that release. And every run of
setup "ends by printing the commands that reverse it" (`docs/cli/semver-trust_setup.md:17`), but a run
that stops half-way (`SetupFails`) prints none, and the receipt of the run that completes it only
undoes what that second run wrote.

What `doctor` passes has known limits, which `DiagnosisHolds` and `CommandsSatisfyDoctor` state as
exceptions: a registry nobody committed yet, a key whose line does not authorize it now
(`ConfiguredVsEnrolled` reads the first line of a key and neither its namespace nor its window),
and a refspec that `setup --remote` put on another remote than `origin`.

### Bounds

- `ReleaseChain`: three invocations is the least number that gives a chain with an inner member,
  a fork with a common ancestor, and a pre-release, a recut and a promotion of it in one
  behaviour; three commits in a line is the least that lets an advance, a recut and another
  advance each cover something. The graph of `serial` has five: a boundary with history before it,
  and a side branch that starts before the boundary and is merged after it. Agent
  commits are T0 or, reviewed, T2, which straddles the threshold; `serial` reviews one of them
  (`Reviewable`), which is enough for a pre-release to be below the threshold and the next to meet it.
  Blast scores `low` and `high` select a clean and a pre-release cell.
- `LegacyRelease`: three invocations, so that one continues another while a third writes; a
  reviewed breaking change on the main line and a merged side branch.
- `PolicyRotation`: three releases (`MaxReleases`) is a genesis, a rotation and a release after
  it; the policies differ from the first in one respect each.
- `ReviewEvidence`: two commits, two attestations at most (`MaxDigests`, `MaxMade`): two suffice
  for an order. One attestation may be of any kind, two are of a few kinds.
- `Aggregation`: four modules give two components of two modules each; two commits one to lower
  and one to keep a floor.
- `PlainTags`: three tags (`MaxTags`), core numbers up to 15 in place of 2^64 - 1 (`MaxUint`), ints up
  to 3 in place of 2^63 - 1 (`MaxInt`), so that counters at the largest int and beyond it occur.
- `Bootstrap`: two invocations and one change by hand (`MaxEdits`) between, before or after
  them; the clock (`MaxTime`) has one tick, enough to pass a window. With two changes by hand
  the state space is an order of magnitude larger and was not exhausted.

`CHECK_DEADLOCK FALSE` is set throughout: invocations are finitely many (or, in `Aggregation`,
there is one verification), and when all have ended nothing is left to do.

### Fairness

`LiveSpec` of `ReleaseChain` (run `serial`) assumes weak fairness of each invocation's
steps (a process that is not killed goes on; one that is killed is not owed a step) and of
`PruneAttestation` for each failed command (the operator follows the printed instruction,
`release.go:332`, `promote.go:553`). Nobody is assumed to start a command, write a review or
delete a tag. `Aggregation` assumes weak fairness of its only process; `Terminates` then is a
statement about its loops. The other machines have safety properties only: in them nobody
is obliged to act.

### The refinement

`ReleaseLedger` has two variables: the entries (name, commit) and how many of them have been
announced. Entries are appended in version order, announced ones are for ever, and an
unannounced last one may be withdrawn. `ReleaseRefinement` maps to it the chain of the
attestations whose tag is live, announced up to the last one whose command reported success.
A crash or a failed rollback after the first store write leaves an unannounced entry, which the
next command either builds on (announcing it with its own) or not; a failed second write that is
rolled back withdraws it. The run needs `Concurrent = FALSE`, and the first disagreement shows why.

### Concurrency

`ReleaseChain` and `Bootstrap` have a switch `Concurrent`. `FALSE` is the documented discipline of
one release, and one person at one clone, at a time. With `TRUE`, `ReleaseChain` keeps
`AcceptedVersionsAdvance`, `ReleaseLineageTrusted` and, while no command fails,
`AcceptedHistoryKept`. `Bootstrap` keeps `TypeOK` and `DiagnosisHolds`, and neither `KeysApart`, `EnrollOnlyAppends`,
`SigningKeyKept`, `ReceiptRestores` nor `RerunCompletes`: `enroll --write` replaces the registry by
a file it built earlier without a lock, and setup writes what it planned earlier.
`LegacyRelease` always interleaves.

## 4. What is proved

TLAPS checks these for all values of the constants: commits and graphs, policies, keys, people,
reviews, numbers of invocations, orders.

**`ReleaseChainProofs`**
- `TypeCorrect`: `Spec => []TypeOK`, in every mode. Most of the work is in the decision:
  intervals are not empty, so minimum and maximum exist; the core, bump, floor and
  iteration that a release records are of their types, so that the next decision may read
  them. `HeadType` carries this through the reader.
- `SuccessIsDurable` (`DoneIsDurable`), `SerialTagsNeverMove` (`TagNeverMoves`) and
  `RollbackLeavesNoOrphan` (`NoOrphanTag`), for `~Concurrent` and any mode of failure and death.

None of these invariants is inductive. That a rollback never removes someone else's tag, for
example, depends on nobody else holding that name, which depends on a lookup that found it
free and on nobody having written since. `Custody` says all of this: `OneInFlight` (one command
runs at a time), `TagsOwned` (a tag is the legacy one or that of an invocation which has written
it), `CheckedIsFree` (the name just looked up is still free), `HoldersHold` (whoever is between
its write and its end, or has succeeded, still has its tag), `SignedBinds` (what is signed is the
object and the commit that were written) and `StoredInOrder` (how much of an attestation is
stored follows from the invocation's place). `CustodyHolds` proves it inductive together with
`TypeOK`, one lemma per kind of step. `RollbackLeavesNoOrphan` adds `TagsKept`: who wrote an
existing tag still runs, died, could not delete it or succeeded.

`AcceptedAdvance` (`AcceptedVersionsAdvance`), in every mode, however many commands run at once. The
inductive invariant is `Decisions`: every decided release appends to the states it read the one the
reader will reconstruct (`AppendsState`), and either is a first one, with nothing before it, or names
the tag it read and has a name that follows that tag's (`LaterDecision`). It speaks of what a release
signs and not of what is stored, so pruning cannot disturb it. A chain that the reader accepts is
linked by these states, hence its names follow one another, and "follows", made transitive
(`NameFollows`), extends from neighbours to any two.

`CleanLineageTrusted` (`ReleaseLineageTrusted`), in every mode. `LevelsEarned` says that a recorded
level is met by every commit it was computed for, also after later reviews. Along pre-releases the
recorded level never rises (`PendingCarries`) and a clean release's is at most that of the last one, so
the threshold it meets is met by the commits of them all. The hypothesis `ReviewsRaise` says that an attested review never lowers a commit.
It is needed: of several reviews the one met first classifies (`review.go:106`), so a lesser kind
stored later could take a level away. The runs' review kinds satisfy it.

With one command at a time and any failures and deaths: `SerialAlwaysReadable` (`AlwaysReadable`),
`SerialReportsHold` (`ReportsHold`) and `SerialIntervalsTile` (`IntervalsTile`). `HistoryKept`
(`AcceptedHistoryKept`) holds of one command at a time and also of many as long as none fails; of
many that fail it does not, because a rollback can delete the tag that another command's
history rests on. `SerialInv` is `TypeOK`, `Custody`, `Decisions`, `Bounded` (there is a deepest
stored release) and `Lineage`: the stored releases have one depth each (`OneAtEachDepth`), all but the
last are settled, that is stored by a command that cannot withdraw them and bound by their tag
(`SettledBelow`), each continues a settled one (`ContinuesSettled`), a running command's comes on
top (`InFlightOnTop`), and a failed one has lost its tag and stops everything until it is pruned
(`FailedIsPartial`). Of such a line the reader sees every member and its head is the deepest
(`LineRead`), so its chain is the list of the stored releases by depth; the tiling follows by
adding one interval after another (`ChainTiles`).

The module begins with the lemmas about intervals and about the reader. `ChainTo` walks from a head to a genesis by a
recursive function over paths, a CHOOSE whose witness has to be shown: the paths a walk meets are
the least set closed under its step, and where they stop is the function (`WalkExists`).
`ChainToLinked` then says what the walk returns: a path of kept releases, each the prior of the next,
that ends in the head and begins where the walk stops. Induction over places is by least
counterexample (`LeastNat`). `ConsecutiveIntervalsTile`: in every commit graph a first interval and
the recurring interval after it are disjoint and make up the first interval to the later commit.

**`ReleaseRefinementProofs`**, `ChainImplementsLedger` (`ImplementsLedger`), with one command at a time and any
failures: the ledger is the line of live releases (`LiveRead`), and `LedgerNext` maps each step.
`PutUnderCommit` is the ledger's `Release`: the entry goes behind the last one and its name follows
(`NameContinues`). `PutUnderTag` is `Announce`. A rollback of a release that is stored is `Withdraw`:
nothing above it exists and it was not announced. Every other step leaves the ledger as it is,
because what is live stays live with its tag (`StutterStep`).

**`PolicyRotationProofs`**: `RotationNeverCompletes` (`PolicyPinned`), `NoSelfEnrolment`
(`SignersKnown`), `GuardsNeverLowered` (`GuardsHeld`), `PolicyChangesReviewed`
(`MetaChangesReviewed`), `AcceptedChainClassifiesAll` (`HistoryClassified`). The invariant `RotationInv` says
of every stored release that it is `Good`, its active policy is the descriptor's and its transition was
checked against that policy, and that it classifies what the release it continues does not reach
of its history (`Continues`). The first four properties then are consequences for one release. The point is
that the head a release continues is found with the registry of the tree released now, whatever
that registry is, and is Good all the same. For the last property, the walk back from an accepted head
is complete, so its releases classify all that the head reaches (`ChainClassifies`, from the earliest
release that would have missed something), and whatever else the registry verifies lies in the
history of its only head (`HeadReachesAll`). Where a link is missing there is no accepted head.

**`ReviewEvidenceProofs`**: `EvidenceTypes`, `LevelsCountHumans` (`HumansCounted`), `ReviewLiftsOne`
(`OneResult`). The invariant says that what is filed was made and that digests name envelopes.
`LevelsCountHumans` assumes that the policy is `Truthful`: it maps two credentials of one person to
one actor. The classification's cases carry the rest. `SignersBoundTrailers` (`TrailersBounded`): with every
policy, statement and review, a commit has at most what its signer's class supports, and a trailer
lifts it over a commit without one in a single case, a human's claim under a policy that requires
trailers, where leaving it out is ambiguous (`TrailerLifts`). `OthersCannotTouch` (`OthersUntouched`): a step that files only attestations which do not name a
commit neither changes its level nor clears what stops its verification. The
statement that ends the search is the one of least digest among those that would
(`FirstStopLeast`), and all that such a step adds to these are statements whose signer is not enrolled
(`StopsAdded`), which end it with an error.

**`LegacyReleaseProofs`**, `AttestedTagExists` (`AttestedIsTagged`), for any number of commands at once:
an invocation stores nothing before its tag is there, and no step removes a tag (`TaggedFirst`).
`CleanVouches` (`CleanHistoryEarned`) and `BreakingIsMajor` (`BreakingBumpsMajor`): `LegacyInv` says that every
decided release is `Sound`, it covers its history after the boundary or after a clean release it
continues, whose core is not above its own, and that a tag says what its release decided
(`TagsTrue`). The chain of a release is a least fixed point (`ChainIsClosure`); it is settled with
the decision, because what it continues was decided before (`KnownClosed`), so each property has to
be shown only of the release being decided (`DecideSound`).

**`VersionOrderProofs`**: `PrecedenceIrreflexive`, `PrecedenceTransitive`, `PrecedenceTotal`, for
identifier lists of any length. They rest on lemmas about the first place where two lists differ.
Of `PlainTags`, with the same order: `NextIsAbove` (`NextAdvances`), a computed version is above every tag
there is, if the latest has a successor within the integers' width and a further pre-release is
named so that it keeps the order, or keeps its name before a counter that an int holds
(`HasSuccessor`, `KeepsAbove`: what they leave out is where the code does not, see
`NextFollowsLatest`). What reads as an int is followed by what reads as one, also where the addition
wraps (`OneAboveIs`); and `NextEarnsNoTrust` (`NoTrustByNext`), no computed name parses as a
version with a trust level.

**`BootstrapProofs`**, for any number of invocations, clones and changes by hand. However commands
overlap, `BootstrapTypes` (`TypeOK`) and `CleanDiagnosisHolds` (`DiagnosisHolds`). The invariant is `Shape`: a plan
changes each key at most once, to what the call asked for (`WantsAreSound`), what is left of it is
part of it, the lines enroll built are well-formed, and a registry that does not parse has none.
`CleanDiagnosisHolds` then is a statement about the checks: a strict pass excludes every answer of
the resolver but the two exceptions.

With one command at a time, `ReceiptsRestore` (`ReceiptRestores`), `RerunsComplete` (`RerunCompletes`) and
`CommandsPassDoctor` (`CommandsSatisfyDoctor`). They rest on `ProgressInv`, which adds that every run that
goes on, or wrote last, is where its plan says: the settings it found, with the changes it made and
without those it has left (`Written`), likewise for the refspecs (`Fetched`), and the plan is the one
computed from what it found (`PlanSound`). `RerunCompletes` follows because a value that was written
is a change the second plan does not make, and one that was not is the change the first had left
(`Again`).

Also with one command at a time, `EnrollKeepsKeysApart` (`KeysApart`), `EnrollAppends` (`EnrollOnlyAppends`) and
`SetupKeepsSigningKey` (`SigningKeyKept`). `KeysApart` is not inductive: enroll writes a file it built before, so
`RegistryInv` says that what is about to be written is the registry as it is now followed by lines
whose keys the other registry does not have but by hand (`AdditionFresh`), and that a registry the
policy does not declare, which the check across registries skips, holds hand-made lines only
(`UndeclaredByHand`). `SettingsInv` says of what a run of setup has left to write that the signing
key is at most one change of it and finds the setting empty, which is a fact about the plan
(`PlanReady`) that lasts because nothing else runs.

The assumptions are the named ones on the constants, which TLC evaluates in every run.
`CommitsAssumption` numbers parents below children: git history has no cycles. `ClonesAssumption`
says of the clones to begin with that no key is in both registries and that a registry which does
not parse or is not declared has no lines. `NamesAssumption` keeps apart what the code keeps apart:
an absent setting is no value, a person is no invocation, and a line without a window is valid for
longer than any clock of the model runs.

**`AggregationProofs`**, for every tree of directories, workspace, range, policy and set of globs.

The traversal comes first. `Sound` is its invariant over sets: the nodes it is in (the path) lie on
the stack in the order of their numbers; a low link is the number of a node on the stack that is
depended on, and for a node that was left it is a smaller one; a node of the path depends on all
that is above it on the stack; an edge that was looked at is accounted for in a low link; numbered
components are closed under edges. The lemmas `EnterSound`, `LookSound` and the ones for going
down, going up and closing a component show that each part of a pass of the loop keeps it. What makes
Tarjan's algorithm right is `ComponentAbove`: when the low link of the node that is left is its own
number, all above it on the stack depend on each other and on nothing below. `Doing` says the same of
the model's frames, cursors and stack, where the edges not yet looked at are read from the cursors
(`PendOf`), and `AggregationInv` of the whole machine (`AggregationSteps`).

- `TraversalOrdered`: the stack, and the order of the components, for every workspace.
  `TraversalTrusted` (`TraversalRight`): at the end the components are the modules built from each other.
  `ReachIsFrom` shows that the bounded recursion `ReachFrom` computes all a module depends on: after
  each round the set is closed under the edges or has one more member, so as many rounds as there
  are modules are enough.
- `LevelsTrusted` (`LevelsRight`): `EffOf` is a recursion within a recursion; both are shown to exist
  by least counterexample, and `ResultsEarned` that a component's result is at most that of each
  it depends on and the own level of a module that is reached. `EffectiveIsLeast`: a module's level is
  the least of all it depends on.
- `ScopesFloored` (`ScopesRight`) and `MetaChecked` (`MetaGuarded`): `MatchesDescribed` says that the
  matcher, which goes over the glob with a set of places in the path, accepts exactly the texts that the
  pattern describes part by part. `ScopesInv` says that every scope's list holds the commits whose paths
  fall into it and that its floor is the least of theirs.
- `HeadlineTrusted` (`HeadlineBounded`): a floor is the level of some commit listed, which changed some file;
  that file lies inside the root.

`TraversalTrusted` and `LevelsTrusted` assume `ReplacesMatch`: no `replace` directive names another
version than the one required. It is needed: where one does, the code resolves the
requirement by the replacement all the same, and what a module is built from is not what
its edges say (`RequiresAreEdges` above). The `trust` run's workspaces satisfy it, which TLC
evaluates as an assumption. `CasesAssumption` says of the inputs what their types are, and that
a workspace has finitely many modules.

Only model-checked are the two liveness properties, `BrokenStoreRepaired` and `Terminates`: liveness under
fairness is out of this prover's reach. Everything else a passing run checks is proved, for all
values of the constants and, where a hypothesis is named above, under that hypothesis. The
disagreements of section 3 are counterexamples on the small instances.

## 5. What is not modelled

- Cryptography, DSSE, JSON and schemas: a signature verifies or it does not, and a digest is
  modelled by what it hashes; two different contents never have one digest.
- Parsers: the policy file, trailer blocks, `go.mod`, allowed-signers lines and the bootstrap
  descriptor. Their results are the models' inputs, a file that does not parse included where the
  code goes on. The tag grammar is modelled by its parts (fields, prefix, identifiers).
- The API differ, the reading of trees and the rendering of reports.
- Dry runs of the release commands, and `promote` without a descriptor, which has the order of
  steps of `LegacyRelease`.
- `ReleaseChain` has one component of one repository with a constant policy, `PolicyRotation` has no
  failures: the two meet in the stored attestation only.
- Pushing and fetching: tags and attestation references are pushed separately. `ReviewEvidence`
  has attestations filed by others, `ReleaseChain` assumes one repository.
- Of doctor, the checks over staged files, messages, history, the accepted chain, key round trips
  and the forge: each is a predicate on state the models do not have.
- That setup and enroll read their several inputs at different instants; the reads are one step.
- `internal/profile` (publish profile): a validation of one document against a field list, without
  state. The conformance vectors are test data.

## 6. Plan

Next, in this order:

1. `StoreReplication`: clones with some of the tags and attestations; what their readers accept.
2. `ReleaseChain` with a policy that changes (a composition with `PolicyRotation`), and with
   two components.
3. The remaining checks of doctor, and the publish profile.
