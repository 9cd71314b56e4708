---------------------------- MODULE AcceptedChain ----------------------------
(***************************************************************************)
(* The reader of the release chain (internal/chain/predecessor.go): from   *)
(* the release attestations in the store and the tags of the repository,   *)
(* find the accepted head, or refuse.                                      *)
(*                                                                         *)
(* An attestation is an identifier; Rel[id] is what it signs:              *)
(*   action, genesis     advance, recut or supersede; a first release      *)
(*   to, tag             the released commit, and the emitted tag binding  *)
(*   pred                version_state.predecessor: at most one binding    *)
(*   prior, result       prior_state and resulting_state digests           *)
(*   targetCore, targetBump, targetIntervals, correctiveFloor              *)
(*   supersedes          at most one attestation identifier                *)
(*   effective, claimed, blast, intervalFrom    facts of the decision      *)
(* A digest of a version state hashes the state together with the digest   *)
(* before it, so it is modelled by what it commits to: the sequence of all *)
(* the states up to and including its own.  No prior digest is << >>.      *)
(*                                                                         *)
(* Rank is the order in which the store lists its attestations, fixed by   *)
(* the names of their references: of two attestations with one resulting   *)
(* digest, the reader keeps the first it meets.                            *)
(***************************************************************************)
EXTENDS VersionAncestry, FiniteSets

(* verifiedReleasesFor: one attestation per resulting digest. *)
Deduplicated(Stored, Rel, Rank) ==
    {r \in Stored : \A q \in Stored : Rel[q].result = Rel[r].result => Rank[r] <= Rank[q]}

(* selectUniqueHead: the releases no other release names as its prior. *)
ChainHeads(Kept, Rel) == {r \in Kept : \A q \in Kept : Rel[q].prior # Rel[r].result}

(* The first loop of verifyCompleteChain: follow prior digests from the    *)
(* head until a genesis release, or until no kept release has the digest.  *)
(* The result lists the releases oldest first.                             *)
ChainTo(head, Kept, Rel) ==
    LET before(r) == {q \in Kept : Rel[q].result = Rel[r].prior}
        walk[path \in Seq(Kept)] ==
            IF Rel[path[1]].genesis \/ before(path[1]) = {} THEN path
            ELSE walk[<< CHOOSE q \in before(path[1]) : TRUE >> \o path]
    IN  walk[<< head >>]

GenesisOK(r, Rel) == Rel[r].genesis /\ Rel[r].prior = <<>> /\ Rel[r].action = "advance"

(* checkSupersedes: a supersede names the attestation it supersedes. *)
SupersedesOK(prev, cur, Rel) == Rel[cur].supersedes = << prev >>

(* Every member names its predecessor's tag, raw object and commit, and a  *)
(* supersede re-evaluates the same commit.                                 *)
Linked(prev, cur, Rel) ==
    /\ ~Rel[cur].genesis
    /\ Rel[cur].prior # <<>>
    /\ Rel[cur].pred = << Rel[prev].tag >>
    /\ Rel[cur].action \in {"advance", "recut", "supersede"}
    /\ Rel[cur].action = "supersede" =>
          Rel[cur].to = Rel[prev].to /\ SupersedesOK(prev, cur, Rel)

(* MUTANT of CarriedBaseline: the first advance is taken, not the last.    *)
FirstBaseline(chain, i, Rel) ==
    LET advances == {k \in 1..i : Rel[chain[k]].action = "advance"}
        first == CHOOSE k \in advances : \A j \in advances : k <= j
    IN  Rel[chain[first]].pred

(* The baseline member i of a chain carries: the predecessor tag of the    *)
(* last advance up to it (recut and supersede preserve the target).        *)
CarriedBaseline(chain, i, Rel) ==
    LET advances == {k \in 1..i : Rel[chain[k]].action = "advance"}
        last == CHOOSE k \in advances : \A j \in advances : j <= k
    IN  Rel[chain[last]].pred

(* reconstructState: the state a member with this carried baseline must    *)
(* have hashed.  Clean_accepted and the iterations come from its tag.      *)
ReconstructState(r, baseline) ==
    [ baseline        |-> baseline,
      baselineCore    |-> IF baseline = <<>> THEN ZeroCore ELSE baseline[1].name.core,
      targetCore      |-> r.targetCore,
      targetBump      |-> r.targetBump,
      cleanAccepted   |-> IsClean(r.tag.name),
      targetIntervals |-> r.targetIntervals,
      iterations      |-> IterationsOf(r.tag.name),
      correctiveFloor |-> r.correctiveFloor ]

(* verifyCompleteChain: genesis to head, every link, every digest. *)
CompleteChain(chain, Rel) ==
    /\ GenesisOK(chain[1], Rel)
    /\ \A i \in 2..Len(chain) : Linked(chain[i - 1], chain[i], Rel)
    /\ \A i \in DOMAIN chain :
          Rel[chain[i]].result =
             Append(Rel[chain[i]].prior,
                    ReconstructState(Rel[chain[i]], CarriedBaseline(chain, i, Rel)))

(* MUTANT of AcceptedHead: of several heads each is good enough.           *)
SomeHead(Stored, Rel, Rank, Refs) ==
    LET Kept == Deduplicated(Stored, Rel, Rank)
    IN  {h \in ChainHeads(Kept, Rel) :
            /\ \A chain \in {ChainTo(h, Kept, Rel)} : CompleteChain(chain, Rel)
            /\ Bound(Rel[h].tag, Refs)}

(* MUTANT of AcceptedHead: a release that has successors is good enough.   *)
SomeMember(Stored, Rel, Rank, Refs) ==
    LET Kept == Deduplicated(Stored, Rel, Rank)
    IN  {h \in Kept :
            /\ \A chain \in {ChainTo(h, Kept, Rel)} : CompleteChain(chain, Rel)
            /\ Bound(Rel[h].tag, Refs)}

(* acceptedHead: the head when there is exactly one, its chain is complete *)
(* and its tag still resolves to the signed binding (buildPredecessor);    *)
(* otherwise nothing.                                                      *)
AcceptedHead(Stored, Rel, Rank, Refs) ==
    LET Kept == Deduplicated(Stored, Rel, Rank)
    IN  {h \in ChainHeads(Kept, Rel) :
            /\ ChainHeads(Kept, Rel) = {h}
            /\ \A chain \in {ChainTo(h, Kept, Rel)} : CompleteChain(chain, Rel)
            /\ Bound(Rel[h].tag, Refs)}

AcceptedChainOf(h, Stored, Rel, Rank) == ChainTo(h, Deduplicated(Stored, Rel, Rank), Rel)

(* An empty store is the start of a chain; a store that holds releases but *)
(* no accepted head refuses every command.                                 *)
Readable(Stored, Rel, Rank, Refs) ==
    Stored = {} \/ AcceptedHead(Stored, Rel, Rank, Refs) # {}

(* VersionSelected: the head as a version authority. *)
SelectedRelease(h, Stored, Rel, Rank) ==
    LET chain == AcceptedChainOf(h, Stored, Rel, Rank)
    IN  [ to |-> Rel[h].to, tag |-> Rel[h].tag,
          state |-> ReconstructState(Rel[h], CarriedBaseline(chain, Len(chain), Rel)),
          hasSuccessor |-> FALSE ]

(* SupersedeHead: the release a promotion anchors its interval at is the   *)
(* one before the head, whose tag must be live too; none for a genesis.    *)
SupersedeAnchor(h, Stored, Rel, Rank) ==
    LET chain == AcceptedChainOf(h, Stored, Rel, Rank)
    IN  IF Rel[h].genesis THEN {} ELSE {chain[Len(chain) - 1]}
==============================================================================
