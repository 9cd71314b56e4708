-------------------------- MODULE ReleaseRefinement --------------------------
(***************************************************************************)
(* With one command at a time the chain implements the ledger: commands may*)
(* fail and die anywhere, and reviews arrive whenever they like.  The      *)
(* ledger is the chain of the attestations whose tag is live; an entry is  *)
(* announced once its command, or a later one, reported success.           *)
(***************************************************************************)
EXTENDS ReleaseChain, SequencesExt

Live == {o \in Stored : Bound(rel[o].tag, refs)}
LiveHead == AcceptedHead(Live, rel, rank, refs)
LiveChain ==
    CHOOSE chain \in IF LiveHead = {} THEN {<<>>}
                     ELSE {AcceptedChainOf(h, Live, rel, rank) : h \in LiveHead} : TRUE

EntryOf(o) == [name |-> rel[o].tag.name, commit |-> rel[o].tag.commit]
Entries(chain) == [i \in DOMAIN chain |-> EntryOf(chain[i])]
Reported(chain) == {i \in DOMAIN chain : pc[chain[i]] = "done"}

LedgerNow == CHOOSE l \in {Entries(chain) : chain \in {LiveChain}} : TRUE
AnnouncedNow == CHOOSE n \in {Highest({0} \cup Reported(chain)) : chain \in {LiveChain}} : TRUE

Ledger == INSTANCE ReleaseLedger WITH ledger <- LedgerNow, announced <- AnnouncedNow

(* The commands on the repository implement the append-only ledger. *)
ImplementsLedger == Ledger!Spec
==============================================================================
