------------------------ MODULE ReleaseRefinementProofs ------------------------
(***************************************************************************)
(* The refinement, proved: with one command at a time the release and      *)
(* promote commands implement the append-only ledger, for every repository,*)
(* policy, number of invocations and failure mode.  What is live is a line *)
(* (SerialInv), so the ledger is the list of the live releases by depth.   *)
(***************************************************************************)
EXTENDS ReleaseRefinement, ReleaseChainProofs

(* ---- The ledger of a line. ---- *)

(* A sequence that lists what is live, each release at its depth.          *)
Lined(L) ==
    /\ L \in Seq(Live) /\ Len(L) \in Nat /\ DOMAIN L = 1..Len(L)
    /\ \A i \in 1..Len(L) : L[i] \in Live /\ Depth(L[i]) = i
    /\ \A a \in Live : Depth(a) \in 1..Len(L) /\ L[Depth(a)] = a

(* The live releases are listed that way by the chain. *)
LEMMA LiveRead == SerialInv => Lined(LiveChain)
<1> SUFFICES ASSUME SerialInv PROVE Lined(LiveChain)
  OBVIOUS
<1> USE DEF SerialInv
<1>1. CASE Live = {}
  <2>1. LiveHead = {}
    BY <1>1 DEF LiveHead, AcceptedHead, ChainHeads, Deduplicated
  <2>2. LiveChain = <<>>
    BY <2>1 DEF LiveChain
  <2> QED BY <1>1, <2>2 DEF Lined
<1>2. CASE Live # {}
  <2>1. Line(Live)
    <3>1. \A a, b \in Stored : Depth(a) < Depth(b) => a \in Live
      BY DEF Lineage, SettledBelow, Settled, Live
    <3> QED BY <1>2, <3>1 DEF Line, Live
  <2>2. PICK h, chain : h \in Live /\ LineChain(Live, h, chain)
    BY <2>1, LineRead
  <2>3. /\ Deduplicated(Live, rel, rank) = Live /\ ChainHeads(Live, rel) = {h}
        /\ chain = ChainTo(h, Live, rel) /\ CompleteChain(chain, rel)
    BY <2>2 DEF LineChain
  <2>4. LiveHead = {h}
    BY <2>2, <2>3 DEF LiveHead, AcceptedHead, Live
  <2>5. LiveChain = chain
    BY <2>3, <2>4 DEF LiveChain, AcceptedChainOf
  <2>6. Depth(h) \in Nat
    BY <2>2, StoredDecided DEF Live
  <2> QED BY <2>2, <2>5, <2>6 DEF LineChain, Lined, LinkedPath
<1> QED BY <1>1, <1>2

(* The ledger is the entries of that chain. *)
LEMMA LedgerIs ==
    /\ LedgerNow = Entries(LiveChain)
    /\ AnnouncedNow = Highest({0} \cup Reported(LiveChain))
<1>1. LedgerNow = Entries(LiveChain)
  BY DEF LedgerNow
<1>2. AnnouncedNow = Highest({0} \cup Reported(LiveChain))
  BY DEF AnnouncedNow
<1> QED BY <1>1, <1>2

(* Entries, place by place. *)
LEMMA EntriesAre ==
    ASSUME NEW L
    PROVE  DOMAIN Entries(L) = DOMAIN L /\ \A i \in DOMAIN L : Entries(L)[i] = EntryOf(L[i])
BY DEF Entries

(* LiveRead, of the next state. *)
LEMMA LiveReadNext == SerialInv' => Lined(LiveChain)'
BY LiveRead, PTL

(* LedgerIs, of the next state. *)
LEMMA LedgerIsNext ==
    /\ LedgerNow' = Entries(LiveChain)'
    /\ AnnouncedNow' = (Highest({0} \cup Reported(LiveChain)))'
<1>1. LedgerNow' = Entries(LiveChain)'
  BY DEF LedgerNow
<1>2. AnnouncedNow' = (Highest({0} \cup Reported(LiveChain)))'
  BY DEF AnnouncedNow
<1> QED BY <1>1, <1>2

(* What the ledger says of a line: its entries, and which are reported.    *)
LEMMA LedgerOf ==
    ASSUME NEW L, L = LiveChain, Lined(L)
    PROVE  /\ DOMAIN LedgerNow = 1..Len(L)
           /\ LedgerNow = [i \in 1..Len(L) |-> LedgerNow[i]]
           /\ \A i \in 1..Len(L) : LedgerNow[i] = EntryOf(L[i])
           /\ AnnouncedNow = Highest({0} \cup {i \in 1..Len(L) : pc[L[i]] = "done"})
<1>1. LedgerNow = Entries(L) /\ AnnouncedNow = Highest({0} \cup Reported(L))
  BY LedgerIs
<1>2. DOMAIN L = 1..Len(L)
  BY DEF Lined
<1>3. Reported(L) = {i \in 1..Len(L) : pc[L[i]] = "done"}
  BY <1>2 DEF Reported
<1>4. DOMAIN Entries(L) = 1..Len(L) /\ \A i \in 1..Len(L) : Entries(L)[i] = EntryOf(L[i])
  BY <1>2, EntriesAre
<1>5. Entries(L) = [i \in DOMAIN L |-> Entries(L)[i]]
  BY DEF Entries
<1> QED BY <1>1, <1>2, <1>3, <1>4, <1>5

(* The same, of the next state. *)
LEMMA LedgerOfNext ==
    ASSUME NEW M, M = LiveChain', Lined(M)'
    PROVE  /\ DOMAIN LedgerNow' = 1..Len(M)
           /\ LedgerNow' = [i \in 1..Len(M) |-> LedgerNow'[i]]
           /\ \A i \in 1..Len(M) : LedgerNow'[i] = EntryOf(M[i])'
           /\ AnnouncedNow' = Highest({0} \cup {i \in 1..Len(M) : pc'[M[i]] = "done"})
<1>1. LedgerNow' = Entries(M)' /\ AnnouncedNow' = Highest({0} \cup Reported(M)')
  BY LedgerIsNext
<1>2. DOMAIN M = 1..Len(M)
  BY DEF Lined
<1>3. Reported(M)' = {i \in 1..Len(M) : pc'[M[i]] = "done"}
  BY <1>2 DEF Reported
<1>4. DOMAIN Entries(M)' = 1..Len(M) /\ \A i \in 1..Len(M) : Entries(M)'[i] = EntryOf(M[i])'
  BY <1>2 DEF Entries
<1>5. Entries(M)' = [i \in DOMAIN M |-> Entries(M)'[i]]
  BY DEF Entries
<1> QED BY <1>1, <1>2, <1>3, <1>4, <1>5

(* One list lists what is live. *)
LEMMA SameLine ==
    ASSUME NEW L, NEW M, Lined(L), Lined(M)', Live' = Live, \A a \in Live : Depth(a)' = Depth(a)
    PROVE  M = L
<1>1. /\ L \in Seq(Live) /\ Len(L) \in Nat
      /\ \A i \in 1..Len(L) : L[i] \in Live /\ Depth(L[i]) = i
      /\ \A a \in Live : Depth(a) \in 1..Len(L) /\ L[Depth(a)] = a
  BY DEF Lined
<1>2. /\ M \in Seq(Live) /\ Len(M) \in Nat
      /\ \A i \in 1..Len(M) : M[i] \in Live /\ Depth(M[i]) = i
      /\ \A a \in Live : Depth(a) \in 1..Len(M) /\ M[Depth(a)] = a
  BY DEF Lined
<1>3. \A i \in 1..Len(L) : i \in 1..Len(M) /\ M[i] = L[i]
  BY <1>1, <1>2
<1>4. \A i \in 1..Len(M) : i \in 1..Len(L)
  BY <1>1, <1>2
<1>5. Len(L) = Len(M)
  <2>1. Len(L) <= Len(M)
    BY <1>1, <1>2, <1>3
  <2>2. Len(M) <= Len(L)
    BY <1>1, <1>2, <1>4
  <2> QED BY <1>1, <1>2, <2>1, <2>2
<1> QED BY <1>1, <1>2, <1>3, <1>5, SeqEqual

(* While the live releases stay, with their tags, the ledger stays. *)
LEMMA SameEntries ==
    ASSUME SerialInv, SerialInv', Live' = Live,
           \A a \in Live : Depth(a)' = Depth(a) /\ rel'[a].tag = rel[a].tag
    PROVE  LiveChain' = LiveChain /\ LedgerNow' = LedgerNow
<1>1. PICK L, M : L = LiveChain /\ M = LiveChain'
  OBVIOUS
<1>2. Lined(L) /\ Lined(M)'
  BY <1>1, LiveRead, LiveReadNext DEF Lined
<1>3. M = L
  BY <1>2, SameLine
<1>4. \A i \in 1..Len(L) : L[i] \in Live
  BY <1>2 DEF Lined
<1>5. \A i \in 1..Len(L) : EntryOf(L[i])' = EntryOf(L[i])
  BY <1>4 DEF EntryOf
<1>6. PICK l, m : l = LedgerNow /\ m = LedgerNow'
  OBVIOUS
<1>7. L = LiveChain /\ Lined(L) /\ L = LiveChain' /\ Lined(L)'
  BY <1>1, <1>2, <1>3
<1>8. /\ LedgerNow = [i \in 1..Len(L) |-> LedgerNow[i]]
      /\ \A i \in 1..Len(L) : LedgerNow[i] = EntryOf(L[i])
  BY <1>7, LedgerOf
<1>9. /\ LedgerNow' = [i \in 1..Len(L) |-> LedgerNow'[i]]
      /\ \A i \in 1..Len(L) : LedgerNow'[i] = EntryOf(L[i])'
  BY <1>7, LedgerOfNext
<1>10. /\ l = [i \in 1..Len(L) |-> l[i]] /\ m = [i \in 1..Len(L) |-> m[i]]
       /\ \A i \in 1..Len(L) : m[i] = l[i]
  BY <1>5, <1>6, <1>8, <1>9
<1>11. m = l
  BY <1>10
<1> QED BY <1>1, <1>3, <1>6, <1>11

(* While the same ones are reported, as much of it is announced. *)
LEMMA SameAnnounced ==
    ASSUME SerialInv, SerialInv', LiveChain' = LiveChain,
           \A a \in Live : pc'[a] = "done" <=> pc[a] = "done"
    PROVE  AnnouncedNow' = AnnouncedNow
<1>1. PICK L : L = LiveChain /\ L = LiveChain'
  OBVIOUS
<1>2. Lined(L) /\ Lined(L)'
  BY <1>1, LiveRead, LiveReadNext DEF Lined
<1>3. {i \in 1..Len(L) : pc'[L[i]] = "done"} = {i \in 1..Len(L) : pc[L[i]] = "done"}
  BY <1>2 DEF Lined
<1>4. AnnouncedNow = Highest({0} \cup {i \in 1..Len(L) : pc[L[i]] = "done"})
  BY <1>1, <1>2, LedgerOf
<1>5. AnnouncedNow' = Highest({0} \cup {i \in 1..Len(L) : pc'[L[i]] = "done"})
  BY <1>1, <1>2, LedgerOfNext
<1> QED BY <1>3, <1>4, <1>5

(* The last announced entry is a reported one, and none after it is. *)
LEMMA AnnouncedBound ==
    ASSUME NEW L, L = LiveChain, Lined(L), NEW S, S = {i \in 1..Len(L) : pc[L[i]] = "done"}
    PROVE  AnnouncedNow \in {0} \cup S /\ \A i \in {0} \cup S : i <= AnnouncedNow
<1> DEFINE T == {0} \cup S
<1>1. Len(L) \in Nat /\ T \in SUBSET Nat /\ T # {} /\ \A x \in T : x <= Len(L)
  BY DEF Lined
<1>2. AnnouncedNow = Highest(T)
  BY LedgerOf
<1> HIDE DEF T
<1>3. \E x \in T : \A y \in T : y <= x
  BY <1>1, GreatestNat
<1>4. Highest(T) \in T /\ \A y \in T : y <= Highest(T)
  BY <1>3 DEF Highest
<1> QED BY <1>2, <1>4 DEF T

(* The highest of a set of numbers. *)
LEMMA HighestIs ==
    ASSUME NEW T \in SUBSET Nat, NEW x \in T, \A y \in T : y <= x
    PROVE  Highest(T) = x
<1>1. Highest(T) \in T /\ \A y \in T : y <= Highest(T)
  BY DEF Highest
<1>2. PICK h : h = Highest(T)
  OBVIOUS
<1>3. h \in Nat /\ x \in Nat /\ h <= x /\ x <= h
  BY <1>1, <1>2
<1> QED BY <1>2, <1>3

(* ---- What steps change. ---- *)

(* Nothing changes the tag binding of a stored release. *)
LEMMA StoredTagKept ==
    ASSUME TypeOK, Custody, [Next]_vars, NEW a \in Stored
    PROVE  rel'[a].tag = rel[a].tag
<1>1. a \in Ops /\ pc[a] # "idle" /\ pc[a] # "tagged"
  BY DEF Stored, TypeOK, Custody, StoredInOrder
<1>2. ASSUME NEW p, NEW to, NEW kind, AttestReview(p, to, kind)
      PROVE  rel' = rel
  BY <1>2 DEF AttestReview
<1>3. ASSUME NEW o \in Ops, Start(o)
      PROVE  rel'[a] = rel[a]
  BY <1>1, <1>3, StartBegins DEF Begin, MayBegin, TypeOK
<1>4. ASSUME NEW o \in Ops, Step(o) \/ Crash(o)
      PROVE  rel'[a] = rel[a]
  <2>1. CASE BindAndSign(o)
    BY <1>1, <2>1 DEF BindAndSign, TypeOK
  <2>2. CASE ~BindAndSign(o)
    BY <1>4, <2>2 DEF Step, Crash, LookupTag, SignTagFails, SetTag, SignFails, PutUnderCommit,
                PutUnderCommitFails, PutUnderTag, PutUnderTagFails, Rollback, RollbackFails, Failing
  <2> QED BY <2>1, <2>2
<1>5. ASSUME NEW o \in Ops, PruneAttestation(o)
      PROVE  rel' = rel
  BY <1>5 DEF PruneAttestation
<1>6. ASSUME NEW name, DeleteOrphanTag(name)
      PROVE  rel' = rel
  BY <1>6 DEF DeleteOrphanTag
<1>7. UNCHANGED vars => rel' = rel
  BY DEF vars
<1> QED BY <1>2, <1>3, <1>4, <1>5, <1>6, <1>7, Zenon DEF Next

(* Tags change only when one is set, rolled back or deleted as an orphan. *)
LEMMA RefsChange ==
    ASSUME [Next]_vars, refs' # refs
    PROVE  \/ \E o \in Ops : SetTag(o)
           \/ \E o \in Ops : Rollback(o)
           \/ \E name \in DOMAIN refs : DeleteOrphanTag(name)
<1>1. ASSUME NEW p, NEW to, NEW kind, AttestReview(p, to, kind)
      PROVE  FALSE
  BY <1>1 DEF AttestReview
<1>2. ASSUME NEW o \in Ops, Start(o)
      PROVE  FALSE
  BY <1>2, StartBegins DEF Begin
<1>3. ASSUME NEW o \in Ops, Step(o) \/ Crash(o)
      PROVE  SetTag(o) \/ Rollback(o)
  BY <1>3 DEF Step, Crash, LookupTag, SignTagFails, BindAndSign, SignFails, PutUnderCommit,
              PutUnderCommitFails, PutUnderTag, PutUnderTagFails, RollbackFails, Failing
<1>4. ASSUME NEW o \in Ops, PruneAttestation(o)
      PROVE  FALSE
  BY <1>4 DEF PruneAttestation
<1>5. ~UNCHANGED vars
  BY DEF vars
<1> QED BY <1>1, <1>2, <1>3, <1>4, <1>5, Zenon DEF Next

(* A command is done by storing under the tag name. *)
LEMMA DoneBy ==
    ASSUME TypeOK, [Next]_vars, NEW a \in Stored, pc'[a] = "done", pc[a] # "done"
    PROVE  PutUnderTag(a)
<1>1. a \in Ops
  BY DEF Stored
<1>2. ASSUME NEW p, NEW to, NEW kind, AttestReview(p, to, kind)
      PROVE  FALSE
  BY <1>2 DEF AttestReview
<1>3. ASSUME NEW o \in Ops, Start(o)
      PROVE  FALSE
  BY <1>1, <1>3, StartBegins DEF Begin, TypeOK
<1>4. ASSUME NEW o \in Ops, Step(o) \/ Crash(o)
      PROVE  PutUnderTag(a)
  <2>1. o = a
    BY <1>1, <1>4, StepKeepsDecisions
  <2>2. PutUnderTag(o)
    BY <1>1, <1>4, <2>1 DEF Step, Crash, LookupTag, SignTagFails, SetTag, BindAndSign, SignFails,
       PutUnderCommit, PutUnderCommitFails, PutUnderTagFails, Rollback, RollbackFails, Failing,
       Goto, TypeOK
  <2> QED BY <2>1, <2>2
<1>5. ASSUME NEW o \in Ops, PruneAttestation(o)
      PROVE  FALSE
  BY <1>5 DEF PruneAttestation
<1>6. ASSUME NEW name, DeleteOrphanTag(name)
      PROVE  FALSE
  BY <1>6 DEF DeleteOrphanTag
<1>7. ~UNCHANGED vars
  BY DEF vars
<1> QED BY <1>2, <1>3, <1>4, <1>5, <1>6, <1>7, Zenon DEF Next

(* A stored release is live, or its command failed and nobody works.       *)
LEMMA NotLive ==
    ASSUME SerialInv, NEW a \in Stored, a \notin Live
    PROVE  pc[a] = "failed" /\ rel[a].tag.name \notin DOMAIN refs /\ \A q \in Ops : ~InFlight(q)
<1> USE DEF SerialInv
<1>1. ~Bound(rel[a].tag, refs)
  BY DEF Live
<1>2. ~InFlight(a)
  BY <1>1, FlyingBound, StoredStage DEF Holding, Lineage
<1>3. pc[a] = "failed"
  BY <1>1, <1>2 DEF Lineage, EndedSettled, Settled
<1> QED BY <1>3 DEF Lineage, FailedIsPartial

(* The commands that change what is stored are in flight. *)
LEMMA SomeStep ==
    ASSUME NEW o \in Ops, SetTag(o) \/ Rollback(o) \/ PutUnderCommit(o) \/ PutUnderTag(o)
    PROVE  InFlight(o)
BY DEF SetTag, Rollback, PutUnderCommit, PutUnderTag, InFlight, InFlightPCs

(* Only storing under the commit and rolling that back change what is live.*)
LEMMA LiveSame ==
    ASSUME ~Concurrent, SerialInv, [Next]_vars,
           \A o \in Ops : ~PutUnderCommit(o) /\ ~(o \in Stored /\ Rollback(o))
    PROVE  Live' = Live
<1> USE DEF SerialInv
<1>1. ASSUME NEW a \in Live
      PROVE  a \in Live'
  <2>1. a \in Stored /\ a \in Ops /\ Bound(rel[a].tag, refs)
    BY DEF Live, Stored
  <2>2. CASE Settled(a)
    BY <2>1, <2>2, SettledNext DEF Live, Settled, Lineage
  <2>3. CASE ~Settled(a)
    <3>1. InFlight(a)
      BY <2>1, <2>3 DEF Lineage, EndedSettled, FailedIsPartial, Bound
    <3>2. pc[a] \in {"half", "rollback"}
      BY <2>1, <3>1, StoredStage
    <3>3. \A q \in Ops : InFlight(q) => q = a
      BY <2>1, <3>1 DEF Custody, OneInFlight
    <3>4. a \in Stored'
      <4>1. ASSUME NEW o \in Ops, PruneAttestation(o)
            PROVE  o # a
        BY <3>2, <4>1 DEF PruneAttestation, Partial
      <4> QED BY <2>1, <4>1, NextStored
    <3>5. refs' = refs
      <4>1. ASSUME NEW o \in Ops, SetTag(o) \/ Rollback(o)
            PROVE  FALSE
        <5>1. o = a
          BY <3>3, <4>1, SomeStep
        <5> QED BY <2>1, <3>2, <4>1, <5>1 DEF SetTag
      <4>2. ASSUME NEW name, DeleteOrphanTag(name)
            PROVE  FALSE
        BY <2>1, <3>1, <4>2 DEF DeleteOrphanTag
      <4> QED BY <4>1, <4>2, RefsChange
    <3>6. rel'[a].tag = rel[a].tag
      BY <2>1, StoredTagKept
    <3> QED BY <2>1, <3>4, <3>5, <3>6 DEF Live
  <2> QED BY <2>2, <2>3
<1>2. Stored' \subseteq Stored
  <2>1. ASSUME NEW o \in Ops, PutUnderTag(o)
        PROVE  o \in Stored
    BY <2>1 DEF PutUnderTag, Stored, Custody, StoredInOrder
  <2> QED BY <2>1, NextStored
<1>3. ASSUME NEW a \in Live', a \notin Live
      PROVE  FALSE
  <2>1. a \in Stored /\ Bound(rel'[a].tag, refs')
    BY <1>2 DEF Live
  <2>2. rel[a].tag.name \notin DOMAIN refs /\ \A q \in Ops : ~InFlight(q)
    BY <1>3, <2>1, NotLive
  <2>3. DOMAIN refs' \subseteq DOMAIN refs
    <3>1. ASSUME NEW name, DeleteOrphanTag(name)
          PROVE  DOMAIN refs' \subseteq DOMAIN refs
      BY <3>1 DEF DeleteOrphanTag, WithoutTag
    <3> QED BY <2>2, <3>1, RefsChange, SomeStep
  <2>4. rel'[a].tag = rel[a].tag
    BY <2>1, StoredTagKept
  <2> QED BY <2>1, <2>2, <2>3, <2>4 DEF Bound
<1> QED BY <1>1, <1>3

(* What is live keeps its place, its tag and its report. *)
LEMMA LiveKept ==
    ASSUME SerialInv, [Next]_vars, NEW a \in Live
    PROVE  /\ a \in Stored /\ Depth(a)' = Depth(a) /\ rel'[a].tag = rel[a].tag
           /\ pc[a] = "done" => pc'[a] = "done"
           /\ pc'[a] = "done" /\ pc[a] # "done" => PutUnderTag(a)
<1> USE DEF SerialInv
<1>1. a \in Stored /\ Bound(rel[a].tag, refs)
  BY DEF Live
<1>2. Depth(a)' = Depth(a)
  BY <1>1, ResultsKept DEF Depth
<1>3. rel'[a].tag = rel[a].tag
  BY <1>1, StoredTagKept
<1>4. pc[a] = "done" => pc'[a] = "done"
  BY <1>1, TagBoundOnce DEF Settled
<1>5. pc'[a] = "done" /\ pc[a] # "done" => PutUnderTag(a)
  BY <1>1, DoneBy
<1> QED BY <1>1, <1>2, <1>3, <1>4, <1>5

(* Every other step leaves the ledger as it is. *)
LEMMA StutterStep ==
    ASSUME ~Concurrent, SerialInv, SerialInv', [Next]_vars,
           \A o \in Ops : /\ ~PutUnderCommit(o) /\ ~PutUnderTag(o)
                          /\ ~(o \in Stored /\ Rollback(o))
    PROVE  LedgerNow' = LedgerNow /\ AnnouncedNow' = AnnouncedNow
<1>1. Live' = Live
  BY LiveSame
<1>2. \A a \in Live : a \in Ops
  BY DEF Live, Stored
<1>3. \A a \in Live : /\ Depth(a)' = Depth(a) /\ rel'[a].tag = rel[a].tag
                      /\ pc'[a] = "done" <=> pc[a] = "done"
  BY <1>2, LiveKept
<1>4. LiveChain' = LiveChain /\ LedgerNow' = LedgerNow
  BY <1>1, <1>3, SameEntries
<1> QED BY <1>3, <1>4, SameAnnounced

(* ---- The three steps of the ledger. ---- *)

(* The ledger holds one entry for each live release. *)
LEMMA EntriesOf ==
    ASSUME SerialInv, NEW L, L = LiveChain, Lined(L)
    PROVE  LedgerNow \in Seq(Ledger!Entry) /\ Len(LedgerNow) = Len(L)
<1>1. PICK l, n : l = LedgerNow /\ n = Len(L)
  OBVIOUS
<1>2. n \in Nat /\ \A i \in 1..n : L[i] \in Live
  BY <1>1 DEF Lined
<1>3. l = [i \in 1..n |-> l[i]] /\ \A i \in 1..n : l[i] = EntryOf(L[i])
  BY <1>1, LedgerOf
<1>4. ASSUME NEW a \in Live
      PROVE  EntryOf(a) \in Ledger!Entry
  <2>1. ReleaseOK(rel[a])
    BY StoredDecided DEF Live, SerialInv
  <2>2. PICK t : t = rel[a].tag
    OBVIOUS
  <2>3. t \in [name : Name, oid : Nat, commit : Commits]
    BY <2>1, <2>2 DEF ReleaseOK
  <2>4. [name |-> t.name, commit |-> t.commit] \in [name : Name, commit : Commits]
    BY <2>3
  <2>5. Ledger!Entry = [name : Name, commit : Commits]
    BY DEF Ledger!Entry, Name, Ledger!Name, Suffix, Ledger!Suffix, Core, Ledger!Core, Levels, Ledger!Levels
  <2> QED BY <2>2, <2>4, <2>5 DEF EntryOf
<1> DEFINE E == Ledger!Entry
<1>5. \A i \in 1..n : l[i] \in E
  BY <1>2, <1>3, <1>4
<1> HIDE DEF E
<1>6. l \in [1..n -> E]
  BY <1>3, <1>5
<1>7. l \in Seq(E) /\ Len(l) = n
  BY <1>2, <1>6
<1> QED BY <1>1, <1>7 DEF E

(* So it is a sequence of entries, as long as the chain, *)
LEMMA EntriesNow == SerialInv => LedgerNow \in Seq(Ledger!Entry) /\ Len(LedgerNow) = Len(LiveChain)
BY EntriesOf, LiveRead DEF Lined

(* before a step and after it. *)
LEMMA EntriesNext ==
    ASSUME SerialInv'
    PROVE  LedgerNow' \in Seq(Ledger!Entry) /\ Len(LedgerNow') = Len(LiveChain')
<1>1. (SerialInv => LedgerNow \in Seq(Ledger!Entry) /\ Len(LedgerNow) = Len(LiveChain))'
  BY EntriesNow, PTL
<1> QED BY <1>1 DEF Ledger!Entry

(* The stored release of a command under way is the last of the line.      *)
LEMMA TopFlying ==
    ASSUME SerialInv, NEW o \in Stored, InFlight(o), NEW L, Lined(L)
    PROVE  /\ Live = Stored /\ Len(L) \in Nat /\ Len(L) >= 1
           /\ Depth(o) = Len(L) /\ L[Len(L)] = o
           /\ \A i \in 1..Len(L) : L[i] = o => i = Len(L)
<1> USE DEF SerialInv
<1>1. Live = Stored
  <2>1. \A a \in Stored : a \in Live
    BY NotLive DEF Stored
  <2> QED BY <2>1 DEF Live
<1>2. PICK n : n = Len(L)
  OBVIOUS
<1>3. n \in Nat /\ Depth(o) \in 1..n /\ L[Depth(o)] = o
  BY <1>1, <1>2 DEF Lined
<1>4. n \in 1..n
  BY <1>3
<1>5. L[n] \in Stored /\ Depth(L[n]) = n
  BY <1>1, <1>2, <1>4 DEF Lined
<1>6. L[n] # o => Depth(L[n]) < Depth(o)
  BY <1>5 DEF Lineage, InFlightOnTop, Stored
<1>7. L[n] = o
  BY <1>3, <1>5, <1>6
<1>8. \A i \in 1..n : Depth(L[i]) = i
  BY <1>2 DEF Lined
<1> QED BY <1>1, <1>2, <1>3, <1>4, <1>7, <1>8

(* Storing under the tag name announces the last entry. *)
LEMMA AnnounceStep ==
    ASSUME ~Concurrent, SerialInv, SerialInv', [Next]_vars, NEW o \in Ops, PutUnderTag(o)
    PROVE  Ledger!Announce
<1> USE DEF SerialInv
<1>1. pc[o] = "half" /\ pc'[o] = "done" /\ \A q \in Ops \ {o} : pc'[q] = pc[q]
  BY DEF PutUnderTag, Goto, TypeOK
<1>2. o \in Stored /\ InFlight(o)
  BY <1>1 DEF Custody, StoredInOrder, Stored, InFlight, InFlightPCs
<1>3. \A q \in Ops : InFlight(q) => q = o
  BY <1>2 DEF Custody, OneInFlight
<1>4. ASSUME NEW q \in Ops, PutUnderCommit(q) \/ Rollback(q)
      PROVE  FALSE
  <2>1. q = o
    BY <1>3, <1>4, SomeStep
  <2> QED BY <1>1, <1>4, <2>1 DEF PutUnderCommit, Rollback
<1>5. Live' = Live
  BY <1>4, LiveSame
<1>6. \A a \in Live : Depth(a)' = Depth(a) /\ rel'[a].tag = rel[a].tag
  BY LiveKept
<1>7. LiveChain' = LiveChain /\ LedgerNow' = LedgerNow
  BY <1>5, <1>6, SameEntries
<1>8. PICK L : L = LiveChain /\ L = LiveChain'
  BY <1>7
<1>9. Lined(L) /\ Lined(L)'
  BY <1>8, LiveRead, LiveReadNext DEF Lined
<1>10. PICK n : n = Len(L)
  OBVIOUS
<1>11. /\ n \in Nat /\ n >= 1 /\ L[n] = o /\ \A i \in 1..n : L[i] = o => i = n
       /\ \A i \in 1..n : L[i] \in Ops
  BY <1>2, <1>9, <1>10, TopFlying DEF Lined, Live, Stored
<1> DEFINE S == {i \in 1..n : pc[L[i]] = "done"}
           T == {i \in 1..n : pc'[L[i]] = "done"}
<1>12. AnnouncedNow \in {0} \cup S
  BY <1>8, <1>9, <1>10, AnnouncedBound
<1>13. \A i \in S : i < n
  BY <1>1, <1>11
<1>14. AnnouncedNow < n
  BY <1>11, <1>12, <1>13
<1>15. AnnouncedNow' = Highest({0} \cup T)
  BY <1>8, <1>9, <1>10, LedgerOfNext
<1>16. n \in T /\ \A i \in {0} \cup T : i <= n
  BY <1>1, <1>11
<1>17. {0} \cup T \in SUBSET Nat
  BY <1>11
<1> HIDE DEF S, T
<1>18. Highest({0} \cup T) = n
  BY <1>16, <1>17, HighestIs
<1>19. Len(LedgerNow) = n
  BY <1>8, <1>9, <1>10, EntriesOf
<1> QED BY <1>7, <1>14, <1>15, <1>18, <1>19 DEF Ledger!Announce

(* Rolling back a stored release withdraws the last entry, which nobody    *)
(* announced.                                                              *)
LEMMA WithdrawStep ==
    ASSUME ~Concurrent, SerialInv, SerialInv', [Next]_vars, NEW o \in Stored, Rollback(o)
    PROVE  Ledger!Withdraw
<1> USE DEF SerialInv
<1>1. /\ o \in Ops /\ pc[o] = "rollback" /\ pc'[o] = "failed"
      /\ \A q \in Ops \ {o} : pc'[q] = pc[q]
      /\ rel' = rel /\ Stored' = Stored /\ rel[o].tag.name \notin DOMAIN refs'
  BY DEF Rollback, Goto, TypeOK, Stored, WithoutTag
<1>2. InFlight(o)
  BY <1>1 DEF InFlight, InFlightPCs
<1>3. PICK L, M : L = LiveChain /\ M = LiveChain'
  OBVIOUS
<1>4. Lined(L) /\ Lined(M)'
  BY <1>3, LiveRead, LiveReadNext DEF Lined
<1>5. PICK n, m : n = Len(L) /\ m = Len(M)
  OBVIOUS
<1>6. /\ Live = Stored /\ n \in Nat /\ n >= 1 /\ Depth(o) = n /\ L[n] = o
      /\ \A i \in 1..n : L[i] = o => i = n
  BY <1>2, <1>4, <1>5, TopFlying
<1>7. Live' = Live \ {o}
  <2>1. o \notin Live'
    BY <1>1 DEF Live, Bound
  <2>2. ASSUME NEW a \in Stored, a # o
        PROVE  a \in Live'
    <3>1. a \in Ops /\ ~InFlight(a)
      BY <1>1, <1>2, <2>2 DEF Custody, OneInFlight, Stored
    <3>2. Settled(a)
      BY <1>2, <3>1, <1>1 DEF Lineage, EndedSettled, FailedIsPartial
    <3> QED BY <3>2, SettledNext DEF Live, Settled, Lineage
  <2> QED BY <1>1, <1>6, <2>1, <2>2 DEF Live
<1>8. \A q \in Ops : Depth(q)' = Depth(q)
  BY <1>1 DEF Depth
<1>9. /\ \A i \in 1..n : L[i] \in Live /\ Depth(L[i]) = i
      /\ \A a \in Live : Depth(a) \in 1..n /\ L[Depth(a)] = a /\ a \in Ops
  BY <1>4, <1>5 DEF Lined, Live, Stored
<1>10. /\ m \in Nat
       /\ \A i \in 1..m : M[i] \in Live \ {o} /\ Depth(M[i]) = i
       /\ \A a \in Live \ {o} : Depth(a) \in 1..m /\ M[Depth(a)] = a
  <2>1. /\ m \in Nat
        /\ \A i \in 1..m : M[i] \in Live' /\ Depth(M[i])' = i
        /\ \A a \in Live' : Depth(a)' \in 1..m /\ M[Depth(a)'] = a
    BY <1>4, <1>5 DEF Lined
  <2> QED BY <1>7, <1>8, <1>9, <2>1
<1>11. \A i \in 1..(n - 1) : i \in 1..m /\ M[i] = L[i]
  <2> SUFFICES ASSUME NEW i \in 1..(n - 1)
               PROVE  i \in 1..m /\ M[i] = L[i]
    OBVIOUS
  <2>1. i \in 1..n /\ i # n
    BY <1>6
  <2>2. L[i] \in Live \ {o} /\ Depth(L[i]) = i
    BY <1>6, <1>9, <2>1
  <2> QED BY <1>10, <2>2
<1>12. \A i \in 1..m : i \in 1..(n - 1)
  <2> SUFFICES ASSUME NEW i \in 1..m
               PROVE  i \in 1..(n - 1)
    OBVIOUS
  <2>1. i \in 1..n /\ L[i] = M[i] /\ M[i] # o
    BY <1>9, <1>10
  <2> QED BY <1>6, <2>1
<1>13. m = n - 1
  <2>1. n - 1 \in Nat
    BY <1>6
  <2>2. m <= n - 1
    BY <1>10, <1>12, <2>1
  <2>3. n - 1 <= m
    BY <1>10, <1>11, <2>1
  <2> QED BY <1>10, <2>1, <2>2, <2>3
<1>14. PICK l, k : l = LedgerNow /\ k = LedgerNow'
  OBVIOUS
<1>15. /\ l \in Seq(Ledger!Entry) /\ Len(l) = n /\ k \in Seq(Ledger!Entry) /\ Len(k) = m
  BY <1>3, <1>4, <1>5, <1>14, EntriesOf, EntriesNext
<1>16. \A i \in 1..n : l[i] = EntryOf(L[i])
  BY <1>3, <1>4, <1>5, <1>14, LedgerOf
<1>17. \A i \in 1..m : k[i] = EntryOf(M[i])'
  BY <1>3, <1>4, <1>5, <1>14, LedgerOfNext
<1>18. \A i \in 1..m : k[i] = l[i]
  <2> SUFFICES ASSUME NEW i \in 1..m PROVE k[i] = l[i]
    OBVIOUS
  <2>1. i \in 1..(n - 1) /\ i \in 1..n /\ M[i] = L[i]
    BY <1>6, <1>11, <1>12
  <2>2. EntryOf(M[i])' = EntryOf(L[i])
    BY <1>1, <2>1 DEF EntryOf
  <2> QED BY <1>16, <1>17, <2>1, <2>2
<1>19. k = Front(l)
  <2> DEFINE E == Ledger!Entry
             f == SubSeq(l, 1, n - 1)
  <2>0. l \in Seq(E) /\ k \in Seq(E)
    BY <1>15
  <2> HIDE DEF E
  <2>1. \A i \in 1..(n - 1) : l[i] \in E
    <3>1. \A i \in 1..(n - 1) : i \in 1..Len(l)
      BY <1>6, <1>15
    <3> QED BY <2>0, <3>1, ElementOfSeq
  <2>2. 1 \in Int /\ n - 1 \in Int
    BY <1>6
  <2>3. /\ f \in Seq(E) /\ Len(f) = IF 1 <= n - 1 THEN (n - 1) - 1 + 1 ELSE 0
        /\ \A i \in 1..((n - 1) - 1 + 1) : f[i] = l[1 + i - 1]
    BY <2>1, <2>2, SubSeqProperties
  <2> HIDE DEF f
  <2>4. Len(f) = n - 1 /\ \A i \in 1..(n - 1) : f[i] = l[i]
    BY <1>6, <2>3
  <2>5. \A i \in 1..Len(k) : k[i] = f[i]
    BY <1>13, <1>15, <1>18, <2>4
  <2>6. Len(k) = Len(f)
    BY <1>13, <1>15, <2>4
  <2>7. k = f
    BY <2>0, <2>3, <2>5, <2>6, SeqEqual
  <2> QED BY <1>15, <2>7 DEF Front, f
<1> DEFINE S == {i \in 1..n : pc[L[i]] = "done"}
           T == {i \in 1..m : pc'[M[i]] = "done"}
<1>20. AnnouncedNow \in {0} \cup S
  BY <1>3, <1>4, <1>5, AnnouncedBound
<1>21. \A i \in S : i < n
  BY <1>1, <1>6
<1>22. AnnouncedNow < n
  BY <1>6, <1>20, <1>21
<1>23. S = T
  <2>1. \A i \in 1..(n - 1) : L[i] \in Ops \ {o}
    BY <1>6, <1>9
  <2>2. \A i \in 1..(n - 1) : pc'[M[i]] = pc[L[i]]
    BY <1>1, <1>11, <2>1
  <2>3. S = {i \in 1..(n - 1) : pc[L[i]] = "done"}
    BY <1>6, <1>21
  <2>4. T = {i \in 1..(n - 1) : pc'[M[i]] = "done"}
    BY <1>13
  <2> QED BY <2>2, <2>3, <2>4
<1>24. AnnouncedNow' = Highest({0} \cup T) /\ AnnouncedNow = Highest({0} \cup S)
  BY <1>3, <1>4, <1>5, LedgerOf, LedgerOfNext
<1> HIDE DEF S, T
<1>25. AnnouncedNow < Len(LedgerNow)
  BY <1>14, <1>15, <1>22
<1>26. LedgerNow' = Ledger!Front(LedgerNow)
  BY <1>14, <1>19 DEF Front, Ledger!Front
<1>27. AnnouncedNow' = AnnouncedNow
  BY <1>23, <1>24
<1> QED BY <1>25, <1>26, <1>27 DEF Ledger!Withdraw

(* A name that follows is one the ledger may continue with.                *)
LEMMA NameContinues ==
    ASSUME NEW old \in Name, NEW new \in Name, NameFollows(old, new)
    PROVE  \/ Ledger!CoreLess(old.core, new.core)
           \/ old.core = new.core /\ ~Ledger!IsClean(old) /\ new # old
<1>1. CASE CoreLess(old.core, new.core)
  BY <1>1 DEF CoreLess, Ledger!CoreLess
<1>2. CASE old.core = new.core /\ ~IsClean(old) /\ ~CoreLess(old.core, new.core)
  <2>1. ~Ledger!IsClean(old)
    BY <1>2 DEF IsClean, Ledger!IsClean
  <2>2. new # old
    <3>1. CASE IsClean(new)
      BY <1>2, <3>1
    <3>2. CASE ~IsClean(new)
      <4>1. old.suffix \in Levels \X (Nat \ {0})
        BY <1>2 DEF IsClean, Name, Suffix
      <4>2. LevelOf(old) \in Nat /\ IterationOf(old) \in Nat
        BY <4>1 DEF LevelOf, IterationOf, Levels
      <4>3. \/ LevelOf(new) < LevelOf(old)
            \/ LevelOf(new) = LevelOf(old) /\ IterationOf(old) < IterationOf(new)
        BY <1>2, <3>2 DEF NameFollows
      <4>4. ~(LevelOf(old) < LevelOf(old)) /\ ~(IterationOf(old) < IterationOf(old))
        BY <4>2
      <4> QED BY <4>3, <4>4
    <3> QED BY <3>1, <3>2
  <2> QED BY <1>2, <2>1, <2>2
<1> QED BY <1>1, <1>2 DEF NameFollows

(* Storing under the commit puts the release on top of the line.           *)
LEMMA TopStored ==
    ASSUME ~Concurrent, SerialInv, SerialInv', NEW o \in Ops, PutUnderCommit(o),
           NEW L, Lined(L), NEW M, Lined(M)'
    PROVE  /\ Len(L) \in Nat /\ Len(M) = Len(L) + 1 /\ M[Len(M)] = o
           /\ \A i \in 1..Len(L) : M[i] = L[i] /\ L[i] \in Stored
           /\ rel' = rel /\ Depth(o) = Len(L) + 1
<1> USE DEF SerialInv
<1>1. /\ pc[o] = "signed" /\ pc'[o] = "half" /\ rel' = rel /\ refs' = refs
      /\ Stored' = Stored \cup {o} /\ o \notin Stored
  BY DEF PutUnderCommit, Goto, TypeOK, Stored, Custody, StoredInOrder
<1>2. InFlight(o)
  BY <1>1 DEF InFlight, InFlightPCs
<1>3. Live = Stored
  BY <1>2, NotLive DEF Live
<1>4. Bound(rel[o].tag, refs)
  <2>1. WrittenBy(rel[o].tag.name, o) /\ rel[o].tag.name \in DOMAIN refs
    BY <1>1 DEF Custody, HoldersHold, Holding
  <2>2. rel[o].tag.oid = o /\ rel[o].tag.commit = rel[o].to
    BY <1>1 DEF Custody, SignedBinds
  <2> QED BY <2>1, <2>2 DEF WrittenBy, Bound
<1>5. Live' = Live \cup {o}
  BY <1>1, <1>3, <1>4 DEF Live
<1>6. \A q \in Ops : Depth(q)' = Depth(q)
  BY <1>1 DEF Depth
<1>7. PICK n, m : n = Len(L) /\ m = Len(M)
  OBVIOUS
<1>8. /\ n \in Nat /\ \A i \in 1..n : L[i] \in Live /\ Depth(L[i]) = i
      /\ \A a \in Live : Depth(a) \in 1..n /\ L[Depth(a)] = a /\ a \in Ops
  BY <1>7 DEF Lined, Live, Stored
<1>9. /\ m \in Nat
      /\ \A i \in 1..m : M[i] \in Live \cup {o} /\ Depth(M[i]) = i
      /\ \A a \in Live \cup {o} : Depth(a) \in 1..m /\ M[Depth(a)] = a
  <2>1. /\ m \in Nat
        /\ \A i \in 1..m : M[i] \in Live' /\ Depth(M[i])' = i
        /\ \A a \in Live' : Depth(a)' \in 1..m /\ M[Depth(a)'] = a
    BY <1>7 DEF Lined
  <2>2. \A a \in Live' : a \in Ops
    BY <1>5, <1>8
  <2> QED BY <1>5, <1>6, <2>1, <2>2
<1>10. \A a \in Live : Depth(a) < Depth(o)
  BY <1>1, <1>2, <1>3 DEF Lineage, InFlightOnTop
<1>11. PICK d : d = Depth(o)
  OBVIOUS
<1>12. d \in 1..m /\ M[d] = o
  BY <1>9, <1>11
<1>13. \A i \in 1..n : i \in 1..m /\ i < d /\ M[i] = L[i]
  <2> SUFFICES ASSUME NEW i \in 1..n PROVE i \in 1..m /\ i < d /\ M[i] = L[i]
    OBVIOUS
  <2>1. L[i] \in Live /\ Depth(L[i]) = i
    BY <1>8
  <2> QED BY <1>9, <1>10, <1>11, <2>1
<1>14. \A i \in 1..m : i <= d /\ (i # d => i \in 1..n)
  <2> SUFFICES ASSUME NEW i \in 1..m PROVE i <= d /\ (i # d => i \in 1..n)
    OBVIOUS
  <2>1. M[i] \in Live \cup {o} /\ Depth(M[i]) = i
    BY <1>9
  <2>2. CASE M[i] = o
    BY <1>11, <1>12, <2>1, <2>2
  <2>3. CASE M[i] \in Live
    BY <1>8, <1>10, <1>11, <1>12, <2>1, <2>3
  <2> QED BY <2>1, <2>2, <2>3
<1>15. m = d
  <2>1. m \in 1..m
    BY <1>9, <1>12
  <2> QED BY <1>12, <1>14, <2>1
<1>16. d = n + 1
  <2>1. n < d
    <3>1. CASE n = 0
      BY <1>12, <3>1
    <3>2. CASE n # 0
      <4>1. n \in 1..n
        BY <1>8, <3>2
      <4> QED BY <1>13, <4>1
    <3> QED BY <3>1, <3>2
  <2>2. d - 1 <= n
    <3>1. CASE d = 1
      BY <1>8, <3>1
    <3>2. CASE d # 1
      <4>1. d - 1 \in 1..m /\ d - 1 # d
        BY <1>9, <1>12, <3>2
      <4> QED BY <1>14, <4>1
    <3> QED BY <3>1, <3>2
  <2> QED BY <1>8, <1>12, <2>1, <2>2
<1> QED BY <1>1, <1>3, <1>7, <1>8, <1>11, <1>12, <1>13, <1>15, <1>16

(* What is stored on top continues the release below it.                   *)
LEMMA TopContinues ==
    ASSUME SerialInv, NEW o \in Ops, pc[o] # "idle", Depth(o) >= 2,
           rel[o].tag.commit = rel[o].to,
           NEW b \in Stored, Depth(b) = Depth(o) - 1
    PROVE  Ledger!Continues(EntryOf(b), EntryOf(o))
<1> USE DEF SerialInv
<1>1. Decision(rel[o]) /\ ReleaseOK(rel[o])
  BY DEF Decisions, TypeOK
<1>2. IsSequence(rel[o].prior) /\ Depth(o) = Len(rel[o].prior) + 1 /\ Len(rel[o].prior) \in Nat
  BY <1>1, ResultParts DEF Depth
<1>3. ~rel[o].genesis
  <2>1. SUFFICES ASSUME rel[o].genesis PROVE FALSE
    OBVIOUS
  <2>2. rel[o].prior = <<>>
    BY <1>1, <2>1 DEF Decision, FirstDecision
  <2>3. Len(rel[o].prior) = 0
    BY <2>2
  <2> QED BY <1>2, <2>3
<1>4. PICK a \in Stored : Continues(o, a)
  BY <1>3 DEF Lineage, ContinuesSettled
<1>5. Depth(a) = Depth(o) - 1
  BY <1>2, <1>4 DEF Continues, Depth
<1>6. a = b
  BY <1>5 DEF Lineage, OneAtEachDepth
<1>7. PICK old, t : old = rel[b].tag /\ t = rel[o].tag
  OBVIOUS
<1>8. rel[o].pred = << old >>
  BY <1>4, <1>6, <1>7 DEF Continues
<1>9. rel[o].pred[1] = old /\ LaterDecision(rel[o])
  BY <1>1, <1>3, <1>8 DEF Decision
<1>10. NameFollows(old.name, t.name)
  BY <1>7, <1>9 DEF LaterDecision
<1>11. ReleaseOK(rel[b])
  BY StoredDecided
<1>12. /\ old \in [name : Name, oid : Nat, commit : Commits]
       /\ t \in [name : Name, oid : Nat, commit : Commits]
  BY <1>1, <1>7, <1>11 DEF ReleaseOK
<1>13. old.name \in Name /\ t.name \in Name /\ old.commit \in Commits /\ t.commit \in Commits
  BY <1>12
<1>14. old.commit \in Reach[t.commit]
  <2>1. t.commit = rel[o].to
    BY <1>7
  <2>2. rel[o].to = old.commit \/ RecurringIntervalOK(old.commit, rel[o].to)
    BY <1>9 DEF LaterDecision
  <2> QED BY <1>13, <2>1, <2>2, ReachSelf DEF RecurringIntervalOK
<1>15. \/ Ledger!CoreLess(old.name.core, t.name.core)
       \/ old.name.core = t.name.core /\ ~Ledger!IsClean(old.name) /\ t.name # old.name
  BY <1>10, <1>13, NameContinues
<1>16. PICK x, y : x = EntryOf(b) /\ y = EntryOf(o)
  OBVIOUS
<1>17. x.name = old.name /\ x.commit = old.commit /\ y.name = t.name /\ y.commit = t.commit
  BY <1>7, <1>16 DEF EntryOf
<1>18. Ledger!Continues(x, y)
  <2>1. Ledger!Reach = Reach
    BY DEF Ledger!Reach, Reach, Ledger!ParentClosed, ParentClosed
  <2> QED BY <1>14, <1>15, <1>17, <2>1 DEF Ledger!Continues
<1> QED BY <1>16, <1>18

(* Storing under the commit releases an entry that continues the ledger. *)
LEMMA ReleaseStep ==
    ASSUME ~Concurrent, SerialInv, SerialInv', NEW o \in Ops, PutUnderCommit(o)
    PROVE  Ledger!ReleaseAny
<1> USE DEF SerialInv
<1>1. PICK L, M : L = LiveChain /\ M = LiveChain'
  OBVIOUS
<1>2. Lined(L) /\ Lined(M)'
  BY <1>1, LiveRead, LiveReadNext DEF Lined
<1>3. PICK n, m : n = Len(L) /\ m = Len(M)
  OBVIOUS
<1>4. /\ n \in Nat /\ m = n + 1 /\ M[m] = o /\ \A i \in 1..n : M[i] = L[i] /\ L[i] \in Stored
      /\ rel' = rel /\ Depth(o) = n + 1
  BY <1>2, <1>3, TopStored
<1>5. /\ pc[o] = "signed" /\ pc'[o] = "half" /\ \A q \in Ops \ {o} : pc'[q] = pc[q]
      /\ o \notin Stored /\ rel[o].tag.commit = rel[o].to
  BY DEF PutUnderCommit, Goto, TypeOK, Stored, Custody, StoredInOrder, SignedBinds
<1>6. PICK l, k, e : l = LedgerNow /\ k = LedgerNow' /\ e = EntryOf(o)
  OBVIOUS
<1> DEFINE E == Ledger!Entry
<1>7. l \in Seq(E) /\ Len(l) = n /\ k \in Seq(E) /\ Len(k) = m
  BY <1>1, <1>2, <1>3, <1>6, EntriesOf, EntriesNext
<1> HIDE DEF E
<1>8. \A i \in 1..n : l[i] = EntryOf(L[i])
  BY <1>1, <1>2, <1>3, <1>6, LedgerOf
<1>9. \A i \in 1..m : k[i] = EntryOf(M[i])'
  BY <1>1, <1>2, <1>3, <1>6, LedgerOfNext
<1>10. \A q : EntryOf(q)' = EntryOf(q)
  BY <1>4 DEF EntryOf
<1>11. k[m] = e /\ \A i \in 1..n : k[i] = l[i]
  <2>1. m \in 1..m /\ \A i \in 1..n : i \in 1..m
    BY <1>4
  <2> QED BY <1>4, <1>6, <1>8, <1>9, <1>10, <2>1
<1>12. e \in E
  <2>1. m \in 1..Len(k)
    BY <1>4, <1>7
  <2> QED BY <1>7, <1>11, <2>1, ElementOfSeq
<1>13. k = Append(l, e)
  <2>1. /\ Append(l, e) \in Seq(E) /\ Len(Append(l, e)) = n + 1
        /\ Append(l, e)[n + 1] = e /\ \A i \in 1..n : Append(l, e)[i] = l[i]
    BY <1>7, <1>12, AppendProperties
  <2>2. PICK a : a = Append(l, e)
    OBVIOUS
  <2>3. Len(k) = Len(a) /\ \A i \in 1..Len(k) : k[i] = a[i]
    <3>1. \A i \in 1..m : i = m \/ i \in 1..n
      BY <1>4
    <3> QED BY <1>4, <1>7, <1>11, <2>1, <2>2, <3>1
  <2>4. k = a
    BY <1>7, <2>1, <2>2, <2>3, SeqEqual
  <2> QED BY <2>2, <2>4
<1>14. Len(LedgerNow') > Len(LedgerNow) /\ Ledger!Last(LedgerNow') = e
  <2>1. Len(k) > Len(l)
    BY <1>4, <1>7
  <2>2. Ledger!Last(k) = k[m]
    BY <1>7 DEF Ledger!Last
  <2> QED BY <1>6, <1>11, <2>1, <2>2
<1>15. LedgerNow # <<>> => Ledger!Continues(Ledger!Last(LedgerNow), e)
  <2> SUFFICES ASSUME l # <<>> PROVE Ledger!Continues(Ledger!Last(l), e)
    BY <1>6
  <2>1. n # 0
    BY <1>7, EmptySeq
  <2>2. n \in 1..n
    BY <1>4, <2>1
  <2>3. Ledger!Last(l) = EntryOf(L[n]) /\ L[n] \in Stored /\ Depth(L[n]) = n
    BY <1>2, <1>3, <1>4, <1>7, <1>8, <2>2 DEF Ledger!Last, Lined
  <2>4. pc[o] # "idle" /\ Depth(o) >= 2 /\ Depth(L[n]) = Depth(o) - 1
    BY <1>4, <1>5, <2>1, <2>3
  <2> QED BY <1>5, <1>6, <2>3, <2>4, TopContinues
<1> DEFINE S == {i \in 1..n : pc[L[i]] = "done"}
           T == {i \in 1..m : pc'[M[i]] = "done"}
<1>16. S = T
  <2>1. \A i \in 1..n : L[i] \in Ops \ {o}
    BY <1>4, <1>5 DEF Stored
  <2>2. \A i \in 1..n : pc'[M[i]] = pc[L[i]]
    BY <1>4, <1>5, <2>1
  <2>3. T = {i \in 1..n : pc'[M[i]] = "done"}
    BY <1>4, <1>5
  <2> QED BY <2>2, <2>3
<1>17. AnnouncedNow' = Highest({0} \cup T) /\ AnnouncedNow = Highest({0} \cup S)
  BY <1>1, <1>2, <1>3, LedgerOf, LedgerOfNext
<1> HIDE DEF S, T
<1>18. AnnouncedNow' = AnnouncedNow
  BY <1>16, <1>17
<1>19. LedgerNow' = Append(LedgerNow, e)
  BY <1>6, <1>13
<1>20. Ledger!Release(e)
  BY <1>15, <1>18, <1>19 DEF Ledger!Release
<1> QED BY <1>12, <1>14, <1>20 DEF Ledger!ReleaseAny, E

(* The ledger starts empty. *)
LEMMA LedgerInit == Init => Ledger!Init
<1> SUFFICES ASSUME Init PROVE Ledger!Init
  OBVIOUS
<1>1. Live = {}
  BY DEF Init, Live, Stored
<1>2. LiveHead = {}
  BY <1>1 DEF LiveHead, AcceptedHead, ChainHeads, Deduplicated
<1>3. PICK L : L = LiveChain /\ L = <<>>
  BY <1>2 DEF LiveChain
<1>4. LedgerNow = Entries(L) /\ AnnouncedNow = Highest({0} \cup Reported(L))
  BY <1>3, LedgerIs
<1>5. DOMAIN L = {}
  BY <1>3
<1>6. Entries(L) = <<>>
  BY <1>5 DEF Entries
<1>7. Reported(L) = {}
  BY <1>5 DEF Reported
<1>8. Highest({0}) = 0
  BY HighestIs
<1> QED BY <1>4, <1>6, <1>7, <1>8 DEF Ledger!Init

(* Every step of a command is a step of the ledger, or leaves it alone. *)
LEMMA LedgerNext ==
    ASSUME ~Concurrent, SerialInv, SerialInv', [Next]_vars
    PROVE  [Ledger!Next]_<<LedgerNow, AnnouncedNow>>
<1>1. ASSUME NEW o \in Ops, PutUnderCommit(o)
      PROVE  Ledger!ReleaseAny
  BY <1>1, ReleaseStep
<1>2. ASSUME NEW o \in Ops, PutUnderTag(o)
      PROVE  Ledger!Announce
  BY <1>2, AnnounceStep
<1>3. ASSUME NEW o \in Ops, o \in Stored, Rollback(o)
      PROVE  Ledger!Withdraw
  BY <1>3, WithdrawStep
<1>4. CASE \A o \in Ops : /\ ~PutUnderCommit(o) /\ ~PutUnderTag(o)
                          /\ ~(o \in Stored /\ Rollback(o))
  BY <1>4, StutterStep
<1> QED BY <1>1, <1>2, <1>3, <1>4 DEF Ledger!Next

(* With one command at a time the release and promote commands implement   *)
(* the append-only ledger, wherever they fail or die and whatever is       *)
(* repaired: storing under the commit appends an entry that continues the  *)
(* last one, storing under the tag announces it, and a rollback takes back *)
(* only what no command announced.                                         *)
THEOREM ChainImplementsLedger ==
    ASSUME ~Concurrent
    PROVE  Spec => ImplementsLedger
<1>1. SerialInv /\ SerialInv' /\ [Next]_vars => [Ledger!Next]_<<LedgerNow, AnnouncedNow>>
  BY LedgerNext
<1>2. Spec => []SerialInv
  BY SerialHolds
<1>3. Spec => Ledger!Init
  BY LedgerInit DEF Spec
<1> QED BY <1>1, <1>2, <1>3, PTL DEF Spec, ImplementsLedger, Ledger!Spec
================================================================================
