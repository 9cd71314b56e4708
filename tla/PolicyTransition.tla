--------------------------- MODULE PolicyTransition ---------------------------
(***************************************************************************)
(* The policy of a repository lives in each commit's tree.  This module    *)
(* holds the functions a release evaluates about it: which commits change  *)
(* it (internal/vcs/walk.go), whom its registries accept                   *)
(* (internal/verify/verify.go, metapolicy.go), and whether the policy that *)
(* governs the interval lets the one in the released tree through          *)
(* (internal/policy/transition.go).                                        *)
(*                                                                         *)
(* A digest is modelled by what it hashes: two policies have one digest iff*)
(* they are equal.                                                         *)
(***************************************************************************)
EXTENDS CommitGraph, TrustDecision

CONSTANTS
    Keys,           \* commit-signing keys
    Principals,     \* the names registries enrol keys under
    Attesters       \* attestation-signing keys

ASSUME IdentitiesAssumption == Keys # {} /\ Principals # {} /\ Attesters # {}

(* The files a policy consists of: itself and its registries; and the      *)
(* workflow every policy has to guard.                                     *)
PolicyFiles == {"policy", "signers", "attesters"}
Mandatory == {"workflow"}
Files == PolicyFiles \cup Mandatory

(* A tree, reduced to its policy: the required level and the guarded paths *)
(* of meta changes, the two registries, the workflow's contents.  The      *)
(* signer registry enrols some keys, each under a principal.               *)
Registry == UNION {[ks -> Principals] : ks \in SUBSET Keys}
Policy == [level : Levels, meta : SUBSET Files, signers : Registry,
           attesters : SUBSET Attesters, workflow : Nat]

(* The policy file itself, and the digests of the registries (MetaPolicy). *)
Document(pol) == <<pol.level, pol.meta>>
TrustMaterial(pol) == <<pol.signers, pol.attesters>>
SamePolicy(a, b) == Document(a) = Document(b) /\ TrustMaterial(a) = TrustMaterial(b)
AuthorizedSigners(pol) == {pol.signers[k] : k \in DOMAIN pol.signers}

(* What the registries of a policy verify: commits signed by an enrolled   *)
(* key (VerifyCommitSignature), statements signed by an attester. An       *)
(* unsigned commit is one whose key nobody enrols.                         *)
SignatureOK(pol, key) == key \in DOMAIN pol.signers
AttestationOK(pol, attester) == attester \in pol.attesters

Content(pol, file) ==
    CASE file = "policy" -> Document(pol)
      [] file = "signers" -> pol.signers
      [] file = "attesters" -> pol.attesters
      [] file = "workflow" -> pol.workflow

(* changedPaths: all files of a root commit, the difference from the parent*)
(* of an ordinary one, and of a merge the files adopted from no parent.    *)
ChangedPaths(tree, c) ==
    {file \in Files : \A p \in Parents[c] : Content(tree[c], file) # Content(tree[p], file)}

(* mandatoryMetaCovered, with the mandatory workflow paths.                *)
MetaCovered(pol) == PolicyFiles \cup Mandatory \subseteq pol.meta

(* MUTANT of UnderLevel: a commit is under level only when all are.        *)
AllUnderLevel(commits, files, required) ==
    \A row \in commits : row.paths \cap files # {} /\ row.level < required

(* A classified commit: the principal its key resolved to, its level and   *)
(* the files it changes.                                                   *)
UnderLevel(commits, files, required) ==
    \E row \in commits : row.paths \cap files # {} /\ row.level < required

(* MUTANT of TransitionOK: signers are looked up in the candidate policy.  *)
TransitionByCandidate(active, candidate, commits) ==
    /\ MetaCovered(active) /\ MetaCovered(candidate)
    /\ candidate.level >= active.level
    /\ \A row \in commits : row.signer \in AuthorizedSigners(candidate)
    /\ ~UnderLevel(commits, active.meta \cup candidate.meta \cup Files, active.level)

(* MUTANT of TransitionOK: a candidate may lower the required level.       *)
TransitionMayLower(active, candidate, commits) ==
    /\ MetaCovered(active) /\ MetaCovered(candidate)
    /\ \A row \in commits : row.signer \in AuthorizedSigners(active)
    /\ ~UnderLevel(commits, active.meta \cup candidate.meta \cup Files, active.level)

(* SelectPolicyTransition, after the checks of its authority: the candidate*)
(* keeps the guards up, every commit is signed by somebody the active      *)
(* policy knows, and changes of guarded files have the level it requires.  *)
TransitionOK(active, candidate, commits) ==
    /\ MetaCovered(active) /\ MetaCovered(candidate)
    /\ candidate.level >= active.level
    /\ \A row \in commits : row.signer \in AuthorizedSigners(active)
    /\ ~UnderLevel(commits, active.meta \cup candidate.meta \cup Files, active.level)
==============================================================================
