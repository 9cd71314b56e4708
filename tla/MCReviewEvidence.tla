--------------------------- MODULE MCReviewEvidence ---------------------------
(***************************************************************************)
(* Small instances of ReviewEvidence.  Alice holds two keys, Bob one, and a*)
(* machine one; a policy may map all of them, leave out Alice's second key,*)
(* or map none.                                                            *)
(***************************************************************************)
EXTENDS ReviewEvidence, TLC

CONSTANTS alice, alice2, bob, bot,      \* credentials
          Alice, Bob, Machine           \* their holders

MCHolder == (alice :> Alice) @@ (alice2 :> Alice) @@ (bob :> Bob) @@ (bot :> Machine)

PolicyWith(attesters, mapped, required) ==
    [attesters |-> attesters, bots |-> {bot}, actors |-> [k \in mapped |-> MCHolder[k]],
     required |-> required]

(* Under most policies one attestation of any kind is made, under one two  *)
(* of a few kinds.                                                         *)
OneMade == {PolicyWith(Credentials, Credentials, FALSE), PolicyWith(Credentials, Credentials, TRUE),
            PolicyWith(Credentials, Credentials \ {alice2}, FALSE),
            PolicyWith({bob}, Credentials, FALSE), PolicyWith(Credentials, {}, FALSE)}
TwoMade == {PolicyWith({alice, bob}, Credentials, FALSE)}
MCPolicies == OneMade \cup TwoMade
ByPolicy(one, two) == [pol \in MCPolicies |-> IF pol \in OneMade THEN one ELSE two]
MCMaxMade == ByPolicy(1, 2)

Simple == [signer |-> alice, trailers |-> <<>>]
AnyFact == [signer : {alice, bot}, trailers : {<<>>, <<"human">>, <<"agent">>, <<"mixed">>}]
MCLines == ByPolicy({<<Simple, f>> : f \in AnyFact}, {<<Simple, Simple>>})
TwoTrailers ==
    [pol \in MCPolicies |-> {<<Simple, [signer |-> alice, trailers |-> <<"human", "agent">>]>>}]

Plain == [actor |-> Alice, verdict |-> "approved", state |-> "active", effective |-> TRUE,
          coverage |-> "final_revision", target |-> NoRevision, approved |-> NoRevision,
          result |-> NoRevision, approvedDiff |-> "d", resultDiff |-> "d", strategy |-> "squash",
          capture |-> "pre_rewrite", separate |-> TRUE]

(* A review is good, or fails in one respect.                              *)
Failing02 == {[verdict |-> "commented"], [state |-> "withdrawn"], [effective |-> FALSE],
              [result |-> Length], [result |-> 1], [separate |-> FALSE]}
OnDiff == [coverage |-> "final_diff"]
FailingDiff == {OnDiff, OnDiff @@ [resultDiff |-> "other"], OnDiff @@ [strategy |-> "merge"],
                OnDiff @@ [capture |-> "native"], OnDiff @@ [result |-> Length]}
AnyReview02 == {[actor |-> a] @@ f @@ Plain : a \in People, f \in {<<>>} \cup Failing02 \cup FailingDiff}
Approvals02 == {[Plain EXCEPT !.actor = Bob, !.coverage = v, !.result = Length] :
                    v \in {"final_revision", "final_diff"}}
MCReviews02 == ByPolicy(AnyReview02, Approvals02)

AnyReview01 == [identity : {alice, bob, bot}, class : IdentityClasses, verdict : {"approved", "commented"}]
OneReview01 == {[identity |-> bob, class |-> "human", verdict |-> "approved"]}
MCReviews01 == ByPolicy(AnyReview01, OneReview01)
==============================================================================
