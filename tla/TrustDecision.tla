---------------------------- MODULE TrustDecision ----------------------------
(***************************************************************************)
(* The pure part of a release decision: the trust level of one commit      *)
(* (internal/trust/level.go), and the channel and bump that a level, a     *)
(* blast-radius score and the policy decide (internal/version/ancestry.go, *)
(* internal/trust/decide.go).                                              *)
(***************************************************************************)
EXTENDS Integers

Levels == 0..3                          \* T0 .. T3
Patch == 0
MinorBump == 1
Major == 2
Bumps == {Patch, MinorBump, Major}      \* ordered as bumpRank orders them
Blasts == {"low", "moderate", "high"}
Strategies == {"demote", "inflate"}
Authorships == {"agent", "mixed", "ambiguous", "human"}
Reviews == {"none", "agent_independent", "human_distinct", "human_same_identity"}

Larger(a, b) == IF a < b THEN b ELSE a

(* The level a commit's authorship and review classes earn: the number of  *)
(* accountable humans, with independent agent review lifting T0 to T1.     *)
AssignLevel(author, review) ==
    LET humans == (IF author = "human" THEN 1 ELSE 0)
                    + (IF review = "human_distinct" THEN 1 ELSE 0)
    IN  IF humans = 2 THEN 3
        ELSE IF humans = 1 THEN 2
        ELSE IF review = "agent_independent" THEN 1 ELSE 0

(* The decision table: what a level may do at a blast-radius score. *)
DecisionCell(level, blast) ==
    IF (level = 3 /\ blast # "high") \/ (level = 2 /\ blast = "low") THEN "clean"
    ELSE IF level = 3 \/ (level = 2 /\ blast = "moderate") THEN "differ_patch"
    ELSE "prerelease"

(* The facts a decision consumes. *)
DecisionInputs ==
    [effective : Levels, threshold : Levels, blast : Blasts, strategy : Strategies,
     differ : BOOLEAN, floor : Bumps, claimed : Bumps]

(* The semantic floor is honored unconditionally. *)
EffectiveBump(d) == Larger(d.claimed, d.floor)

(* The accountability threshold is a hard gate, whatever the table says; a *)
(* cell that needs a differ proof is demoted when there is no differ.      *)
Demoted(d) ==
    LET cell == DecisionCell(d.effective, d.blast)
    IN  \/ d.effective < d.threshold
        \/ cell = "prerelease"
        \/ cell = "differ_patch" /\ EffectiveBump(d) = Patch /\ ~d.differ

(* decisionOutcome: under the inflate strategy a demotion has no target the*)
(* command can resolve; otherwise it moves the release to the pre-release  *)
(* channel.                                                                *)
Resolved(d) == d.strategy = "inflate" => ~Demoted(d)

Channel(d) == IF d.strategy # "inflate" /\ Demoted(d) THEN "prerelease" ELSE "clean"
==============================================================================
