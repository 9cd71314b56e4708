---------------------------- MODULE Classification ----------------------------
(***************************************************************************)
(* How a commit is classified from verified facts: its authorship from the *)
(* signer's class and the Provenance trailer, the class of its review by   *)
(* the raw identities of review/v0.1 (internal/trust/classify.go) or by the*)
(* canonical actors of review/v0.2 (internal/trust/qualify.go).            *)
(***************************************************************************)
EXTENDS TrustDecision

IdentityClasses == {"human", "agent"}

(* The values of the Provenance trailer that mean something, the absent    *)
(* trailer, and any other value.                                           *)
NoTrailer == "absent"
Provenances == {NoTrailer, "human", "agent", "mixed", "other"}

NoReview == "none"

(* MUTANT of ClassifyAuthorship: the trailer is believed.                  *)
AuthorshipByTrailer(signer, provenance, required) ==
    IF provenance \in {"human", "agent", "mixed"} THEN provenance
    ELSE IF provenance = NoTrailer /\ ~required THEN signer ELSE "ambiguous"

(* classifyAuthorship: a trailer may concede an agent's part, never claim a*)
(* human's that the signature does not support.                            *)
ClassifyAuthorship(signer, provenance, required) ==
    IF provenance = NoTrailer THEN IF required THEN "ambiguous" ELSE signer
    ELSE IF provenance = "human" THEN IF signer = "human" THEN "human" ELSE "ambiguous"
    ELSE IF provenance \in {"agent", "mixed"} THEN provenance
    ELSE "ambiguous"

(* classifyReview, on the facts of a review/v0.1: the reviewer as the      *)
(* statement names it, the commit's signer as its signature shows it.      *)
ClassifyReview(author, r) ==
    IF r.reviewerClass = "agent"
    THEN IF r.separate /\ r.reviewer # r.signer THEN "agent_independent" ELSE NoReview
    ELSE IF author = "human" /\ r.reviewer = r.signer THEN NoReview ELSE "human_distinct"

(* What the approval is bound to: the revision that was classified, or the *)
(* diff of a squash or rebase captured before it was rewritten.            *)
Bound(q) ==
    \/ q.coverage = "final_revision" /\ q.approved = q.final
    \/ /\ q.coverage = "final_diff"
       /\ q.strategy \in {"squash", "rebase"} /\ q.capture = "pre_rewrite"
       /\ q.approvedDiff = q.resultDiff

(* MUTANT of Qualified: any credential may speak for any actor.            *)
QualifiedByName(q) ==
    /\ q.verdict = "approved" /\ q.state = "active" /\ q.effective
    /\ q.result = q.final
    /\ Bound(q)

(* MUTANT of Qualified: what the review says was merged is not compared.   *)
QualifiedForAnyResult(q) ==
    /\ q.verdict = "approved" /\ q.state = "active" /\ q.effective
    /\ q.credentialActor = q.reviewerActor
    /\ Bound(q)

(* The gates of QualifyReview every review passes.  The statement is signed*)
(* in every qualification the verifier builds, and a change after the      *)
(* approval is a merge result other than the classified commit.            *)
Qualified(q) ==
    /\ q.verdict = "approved" /\ q.state = "active" /\ q.effective
    /\ q.credentialActor = q.reviewerActor
    /\ q.result = q.final
    /\ Bound(q)

(* QualifyReview, with the gates that depend on who reviewed whom.         *)
QualifyReview(author, q) ==
    IF ~Qualified(q) THEN NoReview
    ELSE IF q.reviewerClass = "agent"
    THEN IF q.reviewerActor # q.authorActor /\ q.separate THEN "agent_independent" ELSE NoReview
    ELSE IF author = "human" /\ q.reviewerActor = q.authorActor THEN NoReview
    ELSE "human_distinct"

(* The number of accountable humans a level stands for.                    *)
HumansOf(level) == IF level = 3 THEN 2 ELSE IF level = 2 THEN 1 ELSE 0
==============================================================================
