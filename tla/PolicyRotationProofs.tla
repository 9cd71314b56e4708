------------------------- MODULE PolicyRotationProofs -------------------------
(***************************************************************************)
(* What holds of every accepted release, whatever the commit graph, the    *)
(* policies in the trees, the keys and the number of releases.             *)
(***************************************************************************)
EXTENDS PolicyRotation, WellFoundedInduction, TLAPS

(* The level of a commit is a level. *)
LEMMA LevelType == ASSUME NEW a, NEW r PROVE AssignLevel(a, r) \in Levels
  BY DEF AssignLevel, Levels

(* What the transition guarantees of a candidate and of the commits of the *)
(* interval, when the policy that governs is the descriptor's.             *)
LEMMA TransitionGuards ==
  ASSUME NEW active \in Policy, NEW candidate \in Policy, NEW rows \in SUBSET RowFields,
         SamePolicy(active, Descriptor), TransitionOK(active, candidate, rows)
  PROVE  /\ candidate.level >= Descriptor.level
         /\ MetaCovered(candidate)
         /\ \A row \in rows : row.signer \in AuthorizedSigners(Descriptor)
         /\ \A row \in rows : row.paths # {} => row.level >= Descriptor.level
<1>1. active.level = Descriptor.level /\ active.signers = Descriptor.signers
  BY DEF SamePolicy, Document, TrustMaterial
<1>2. AuthorizedSigners(active) = AuthorizedSigners(Descriptor)
  BY <1>1 DEF AuthorizedSigners
<1>3. \A row \in rows : row.paths # {} => row.level >= Descriptor.level
  <2>1. Descriptor.level \in Nat /\ \A row \in rows : row.paths \subseteq Files /\ row.level \in Nat
    BY TreesAssumption DEF Policy, RowFields, Levels
  <2>2. ~UnderLevel(rows, active.meta \cup candidate.meta \cup Files, Descriptor.level)
    BY <1>1 DEF TransitionOK
  <2>3. \A row \in rows : row.paths # {} => ~(row.level < Descriptor.level)
    BY <2>1, <2>2 DEF UnderLevel
  <2>4. QED
    BY <2>1, <2>3
<1>4. QED
  BY <1>1, <1>2, <1>3 DEF TransitionOK

(* The row of a commit that can be classified is well-formed. *)
LEMMA RowType ==
  ASSUME TypeOK, NEW c \in Made, NEW pol \in Policy, Classifiable(c, pol)
  PROVE  Row(c, pol) \in RowFields
<1>1. c \in Commits /\ commit[c] \in CommitFields
  BY DEF TypeOK, Made
<1>2. pol.signers[commit[c].key] \in Principals
  <2>1. PICK ks \in SUBSET Keys : pol.signers \in [ks -> Principals]
    BY DEF Policy, Registry
  <2>2. commit[c].key \in ks
    BY <2>1 DEF Classifiable, SignatureOK
  <2>3. QED
    BY <2>1, <2>2
<1>3. ChangedPaths(Tree, c) \subseteq Files
  BY DEF ChangedPaths
<1>4. AssignLevel(commit[c].class, ReviewOf(c)) \in Levels
  BY LevelType
<1>5. QED
  BY <1>1, <1>2, <1>3, <1>4 DEF Row, RowFields, CommitFields

(* ---- The invariant. ---- *)

(* A release that is about to be stored is governed by the descriptor's    *)
(* policy and passed its transition.                                       *)
Good(r) ==
    /\ SamePolicy(r.active, Descriptor)
    /\ TransitionOK(r.active, r.candidate, r.rows)

(* It classifies commits of its history only, and what the release it      *)
(* continues from does not reach of that history, it classifies itself.    *)
CommitsOf(r) == {row.commit : row \in r.rows}
Continues(r, rels) ==
    /\ CommitsOf(r) \subseteq Reach[r.to]
    /\ r.prior = NoRelease => Reach[r.to] \subseteq CommitsOf(r)
    /\ r.prior # NoRelease =>
         /\ Reach[rels[r.prior].to] \subseteq Reach[r.to]
         /\ Reach[r.to] \subseteq CommitsOf(r) \cup Reach[rels[r.prior].to]

RotationInv ==
    /\ TypeOK
    /\ \A i \in Ids : Good(releases[i])
    /\ \A i \in Ids : Continues(releases[i], releases)

(* Intervals consist of existing commits: history is closed. *)
LEMMA ReachMade == ASSUME TypeOK, NEW c \in Made PROVE Reach[c] \subseteq Made
<1>1. Made \in SUBSET Commits /\ ParentClosed(Made) /\ c \in Commits
  BY DEF TypeOK, Made, ParentClosed
<1>2. QED
  BY <1>1 DEF Reach

(* The history of a commit of the history belongs to it. *)
LEMMA ReachNested ==
  ASSUME NEW c \in Commits, NEW b \in Reach[c]
  PROVE  Reach[b] \subseteq Reach[c]
<1>1. b \in Commits /\ Reach[c] \in SUBSET Commits
  BY DEF Reach
<1>2. ParentClosed(Reach[c])
  <2> SUFFICES ASSUME NEW x \in Reach[c], NEW p \in Parents[x] PROVE p \in Reach[c]
    BY DEF ParentClosed
  <2>1. x \in Commits /\ p \in Commits
    BY <1>1, CommitsAssumption
  <2>2. ASSUME NEW S \in SUBSET Commits, c \in S, ParentClosed(S) PROVE p \in S
    BY <2>2 DEF Reach, ParentClosed
  <2>3. QED
    BY <2>1, <2>2 DEF Reach
<1>3. QED
  BY <1>1, <1>2 DEF Reach

(* A release continues from an earlier one, or from none. *)
LEMMA PriorType ==
  ASSUME TypeOK, NEW i \in Ids
  PROVE  /\ releases[i].prior \in Ids \cup {NoRelease} /\ releases[i].prior < i
         /\ releases[i] \in ReleaseFields /\ releases[i].to \in Made
<1>1. releases[i] \in ReleaseFields /\ releases[i].to \in Made /\ releases[i].prior < i
  BY DEF TypeOK, Ids
<1>2. QED
  BY <1>1 DEF ReleaseFields, Ids, NoRelease, TypeOK

(* Storing a good release keeps the invariant. *)
LEMMA StoreGood ==
  ASSUME RotationInv, NEW to \in Made, NEW a \in Attesters, NEW prior \in Ids \cup {NoRelease},
         NEW active \in Policy, NEW interval \in SUBSET Made,
         \A c \in interval : Classifiable(c, commit[to].tree),
         SamePolicy(active, Descriptor),
         TransitionOK(active, commit[to].tree, {Row(c, commit[to].tree) : c \in interval}),
         interval \subseteq Reach[to],
         prior = NoRelease => interval = Reach[to],
         prior # NoRelease => /\ Reach[releases[prior].to] \subseteq Reach[to]
                              /\ Reach[to] \subseteq interval \cup Reach[releases[prior].to],
         Store(to, a, prior, active, interval)
  PROVE  RotationInv'
<1> DEFINE pol == commit[to].tree
           rows == {Row(c, pol) : c \in interval}
           r == [to |-> to, by |-> a, prior |-> prior, active |-> active, candidate |-> pol,
                 rows |-> rows]
<1>1. TypeOK /\ releases \in Seq(ReleaseFields) /\ Len(releases) \in Nat
  BY DEF RotationInv, TypeOK
<1>2. to \in Commits /\ pol \in Policy
  BY <1>1 DEF TypeOK, Made, CommitFields
<1>3. rows \in SUBSET RowFields
  BY <1>1, <1>2, RowType
<1>4. prior \in Nat /\ prior < Len(releases) + 1
  BY <1>1 DEF Ids, NoRelease
<1>5. r \in ReleaseFields
  BY <1>2, <1>3, <1>4 DEF ReleaseFields
<1>6. releases' = Append(releases, r) /\ UNCHANGED <<commit, reviews>>
  BY DEF Store
<1>7. CommitsOf(r) = interval
  <2>1. \A c \in interval : Row(c, pol).commit = c
    BY DEF Row
  <2>2. QED
    BY <2>1 DEF CommitsOf
<1> HIDE DEF r, rows
<1>8. /\ releases' \in Seq(ReleaseFields)
      /\ Len(releases') = Len(releases) + 1
      /\ \A i \in Ids : releases'[i] = releases[i]
      /\ releases'[Len(releases) + 1] = r
  BY <1>1, <1>5, <1>6 DEF Ids
<1>9. Ids' = Ids \cup {Len(releases) + 1} /\ Made' = Made
  BY <1>1, <1>6, <1>8 DEF Ids, Made
<1>10. TypeOK'
  <2>1. \A i \in Ids' : releases'[i].to \in Made' /\ releases'[i].prior < i
    BY <1>1, <1>4, <1>8, <1>9 DEF TypeOK, r
  <2>2. QED
    BY <1>1, <1>6, <1>8, <1>9, <2>1 DEF TypeOK
<1>11. Good(r)
  BY DEF Good, r, rows
<1>12. \A i \in Ids' : Good(releases'[i])
  BY <1>8, <1>9, <1>11 DEF RotationInv
<1>13. \A i \in Ids' : Continues(releases'[i], releases')
  <2>1. \A i \in Ids : releases[i].prior # NoRelease => releases[i].prior \in Ids
    BY <1>1, PriorType
  <2>2. ASSUME NEW i \in Ids PROVE Continues(releases'[i], releases')
    <3>1. PICK q : q = releases[i] /\ q = releases'[i]
      BY <1>8
    <3>2. q.prior # NoRelease => releases'[q.prior] = releases[q.prior]
      BY <1>8, <2>1, <3>1
    <3>3. Continues(q, releases)
      BY <3>1 DEF RotationInv
    <3>4. Continues(q, releases')
      BY <3>2, <3>3 DEF Continues
    <3>5. QED
      BY <3>1, <3>4
  <2>3. r.to = to /\ r.prior = prior
    BY DEF r
  <2>4. prior # NoRelease => releases'[prior] = releases[prior]
    BY <1>8
  <2>5. Continues(r, releases')
    BY <1>7, <2>3, <2>4 DEF Continues
  <2>6. QED
    BY <1>8, <1>9, <2>2, <2>5
<1>14. QED
  BY <1>10, <1>12, <1>13 DEF RotationInv

(* What governs after a predecessor is what the predecessor pins. *)
LEMMA ActivePinned ==
  ASSUME NEW pins, NEW candidate, NEW old, NEW rows,
         SamePolicy(pins, Descriptor), TransitionFrom(pins, candidate, old, rows)
  PROVE  /\ SamePolicy(Active(pins, candidate, old), Descriptor)
         /\ TransitionOK(Active(pins, candidate, old), candidate, rows)
  BY DEF TransitionFrom, SamePolicy

LEMMA GenesisGood ==
  ASSUME RotationInv, NEW to \in Made, NEW a \in Attesters, ReleaseGenesis(to, a)
  PROVE  RotationInv'
<1> DEFINE pol == commit[to].tree
<1>1. /\ SamePolicy(pol, Descriptor)
      /\ \A c \in Reach[to] : Classifiable(c, pol)
      /\ TransitionOK(pol, pol, {Row(c, pol) : c \in Reach[to]})
      /\ Store(to, a, NoRelease, pol, Reach[to])
  BY DEF ReleaseGenesis, IntervalOK, TransitionFromDescriptor
<1>2. pol \in Policy /\ Reach[to] \in SUBSET Made
  BY ReachMade DEF RotationInv, TypeOK, CommitFields
<1>3. QED
  BY <1>1, <1>2, StoreGood

(* The policy that governs after release h is a policy. *)
LEMMA ActiveType ==
  ASSUME TypeOK, NEW h \in Ids, NEW to \in Made
  PROVE  /\ releases[h].to \in Made /\ releases[h] \in ReleaseFields
         /\ Active(releases[h].active, commit[to].tree, commit[releases[h].to].tree) \in Policy
<1>1. releases[h] \in ReleaseFields /\ releases[h].to \in Made
  BY DEF TypeOK, Ids
<1>2. commit[to].tree \in Policy /\ commit[releases[h].to].tree \in Policy
  BY <1>1 DEF TypeOK, CommitFields
<1>3. QED
  BY <1>1, <1>2 DEF Active

LEMMA RecurringGood ==
  ASSUME RotationInv, NEW to \in Made, NEW h \in Ids, NEW a \in Attesters,
         ReleaseRecurring(to, h, a)
  PROVE  RotationInv'
<1> DEFINE pol == commit[to].tree
           p == releases[h].to
           interval == RecurringInterval(p, to)
           act == Active(releases[h].active, pol, commit[p].tree)
<1>1. /\ \A c \in interval : Classifiable(c, pol)
      /\ TransitionFrom(releases[h].active, pol, commit[p].tree, {Row(c, pol) : c \in interval})
      /\ Store(to, a, h, act, interval)
  BY DEF ReleaseRecurring, IntervalOK
<1>2. interval \in SUBSET Made /\ interval \subseteq Reach[to]
        /\ Reach[p] \subseteq Reach[to] /\ Reach[to] \subseteq interval \cup Reach[p]
  <2>1. to \in Commits /\ p \in Reach[to]
    BY DEF ReleaseRecurring, RecurringIntervalOK, Made
  <2>2. QED
    BY <2>1, ReachMade, ReachNested DEF RecurringInterval, RotationInv
<1>3. act \in Policy
  BY ActiveType DEF RotationInv
<1>4. SamePolicy(releases[h].active, Descriptor)
  BY DEF RotationInv, Good
<1>5. SamePolicy(act, Descriptor) /\ TransitionOK(act, pol, {Row(c, pol) : c \in interval})
  BY <1>1, <1>4, ActivePinned
<1>6. h # NoRelease
  BY DEF Ids, NoRelease
<1>7. releases[h].to = p
  OBVIOUS
<1> HIDE DEF act, interval, p
<1>8. QED
  BY <1>1, <1>2, <1>3, <1>5, <1>6, <1>7, StoreGood

LEMMA PromoteGood ==
  ASSUME RotationInv, NEW h \in Ids, NEW a \in Attesters, Promote(h, a)
  PROVE  RotationInv'
<1> DEFINE to == releases[h].to
           pol == commit[to].tree
           anchor == releases[h].prior
<1>1. to \in Made /\ anchor \in Nat /\ anchor < h /\ h # NoRelease
  <2>1. releases[h] \in ReleaseFields /\ releases[h].to \in Made /\ releases[h].prior < h
    BY DEF RotationInv, TypeOK, Ids
  <2>2. QED
    BY <2>1 DEF ReleaseFields, Ids, NoRelease
<1>2. CASE anchor = NoRelease
  <2>1. /\ SamePolicy(pol, Descriptor)
        /\ \A c \in Reach[to] : Classifiable(c, pol)
        /\ TransitionOK(pol, pol, {Row(c, pol) : c \in Reach[to]})
        /\ Store(to, a, h, pol, Reach[to])
    BY <1>2 DEF Promote, IntervalOK, TransitionFromDescriptor
  <2>2. pol \in Policy /\ Reach[to] \in SUBSET Made
    BY <1>1, ReachMade DEF RotationInv, TypeOK, CommitFields
  <2>3. releases[h].to = to
    OBVIOUS
  <2> HIDE DEF to
  <2>4. QED
    BY <1>1, <2>1, <2>2, <2>3, StoreGood
<1>3. CASE anchor # NoRelease
  <2> DEFINE p == releases[anchor].to
             interval == RecurringInterval(p, to)
             act == Active(releases[anchor].active, pol, commit[p].tree)
  <2>1. /\ \A c \in interval : Classifiable(c, pol)
        /\ TransitionFrom(releases[anchor].active, pol, commit[p].tree,
                          {Row(c, pol) : c \in interval})
        /\ Store(to, a, h, act, interval)
    BY <1>3 DEF Promote, IntervalOK
  <2>2. anchor \in Ids
    BY <1>1, <1>3 DEF Ids, NoRelease, RotationInv, TypeOK
  <2>3. interval \in SUBSET Made /\ interval \subseteq Reach[to]
    BY <1>1, ReachMade DEF RecurringInterval, RotationInv
  <2>4. act \in Policy
    BY <1>1, <2>2, ActiveType DEF RotationInv
  <2>5. SamePolicy(releases[anchor].active, Descriptor)
    BY <2>2 DEF RotationInv, Good
  <2>6. SamePolicy(act, Descriptor) /\ TransitionOK(act, pol, {Row(c, pol) : c \in interval})
    BY <2>1, <2>5, ActivePinned
  <2>7. releases[h].to = to
    OBVIOUS
  <2> HIDE DEF act, interval, p, to
  <2>8. QED
    BY <1>1, <2>1, <2>3, <2>4, <2>6, <2>7, StoreGood
<1>4. QED
  BY <1>2, <1>3

(* Commits and reviews do not touch what is released. *)
LEMMA CommitGood ==
  ASSUME RotationInv, NEW c \in Commits, NEW tree \in Trees, NEW key \in Keys,
         NEW class \in Classes, MakeCommit(c, tree, key, class)
  PROVE  RotationInv'
<1> DEFINE new == [tree |-> tree, key |-> key, class |-> class]
<1>1. new \in CommitFields /\ new # Unmade
  <2>1. tree \in Policy /\ class \in Authorships
    BY TreesAssumption
  <2>2. new \in CommitFields
    BY <2>1 DEF CommitFields
  <2>3. DOMAIN new = {"tree", "key", "class"} /\ DOMAIN Unmade = {}
    BY DEF Unmade
  <2>4. QED
    BY <2>2, <2>3
<1>2. /\ c \notin Made /\ Parents[c] \subseteq Made
      /\ commit' = [commit EXCEPT ![c] = new] /\ UNCHANGED <<reviews, releases>>
  BY DEF MakeCommit
<1>3. DOMAIN commit = Commits
  BY DEF RotationInv, TypeOK
<1> HIDE DEF new
<1>4. Made' = Made \cup {c}
  BY <1>1, <1>2, <1>3 DEF Made
<1>5. TypeOK'
  BY <1>1, <1>2, <1>3, <1>4 DEF RotationInv, TypeOK, Ids
<1>6. QED
  BY <1>2, <1>5 DEF RotationInv, Ids, Good, Continues

LEMMA ReviewGood ==
  ASSUME RotationInv, NEW c \in Commits, NEW a \in Attesters, StoreReview(c, a)
  PROVE  RotationInv'
<1>1. c \in Made /\ reviews' = reviews \cup {<<c, a>>} /\ UNCHANGED <<commit, releases>>
  BY DEF StoreReview
<1>2. TypeOK'
  BY <1>1 DEF RotationInv, TypeOK, Made, Ids
<1>3. QED
  BY <1>1, <1>2 DEF RotationInv, Ids, Good, Continues

LEMMA InitGood == Init => RotationInv
<1> SUFFICES ASSUME Init PROVE RotationInv
  OBVIOUS
<1>1. Made = {} /\ Ids = {} /\ releases \in Seq(ReleaseFields)
  BY DEF Init, Made, Ids
<1>2. QED
  BY <1>1 DEF Init, RotationInv, TypeOK

LEMMA NextGood == RotationInv /\ [Next]_vars => RotationInv'
<1> SUFFICES ASSUME RotationInv, [Next]_vars PROVE RotationInv'
  OBVIOUS
<1>1. CASE UNCHANGED vars
  BY <1>1 DEF vars, RotationInv, TypeOK, Good, Continues, Made, Ids
<1>2. ASSUME NEW c \in Commits, NEW tree \in Trees, NEW key \in Keys, NEW class \in Classes,
             MakeCommit(c, tree, key, class)
      PROVE  RotationInv'
  BY <1>2, CommitGood
<1>3. ASSUME NEW c \in Commits, NEW a \in Attesters, StoreReview(c, a) PROVE RotationInv'
  BY <1>3, ReviewGood
<1>4. ASSUME NEW to \in Made, NEW a \in Attesters, ReleaseGenesis(to, a) PROVE RotationInv'
  BY <1>4, GenesisGood
<1>5. \A pol : AcceptedHead(pol) \subseteq Ids
  BY DEF AcceptedHead, Heads, Verified
<1>6. ASSUME NEW to \in Made, NEW h \in AcceptedHead(commit[to].tree), NEW a \in Attesters,
             ReleaseRecurring(to, h, a)
      PROVE  RotationInv'
  BY <1>5, <1>6, RecurringGood
<1>7. ASSUME NEW to \in Made, NEW h \in AcceptedHead(commit[to].tree), NEW a \in Attesters,
             Promote(h, a)
      PROVE  RotationInv'
  BY <1>5, <1>7, PromoteGood
<1>8. QED
  BY <1>1, <1>2, <1>3, <1>4, <1>6, <1>7 DEF Next

(* The invariant holds of every behaviour. *)
THEOREM RotationInvariant == Spec => []RotationInv
  BY InitGood, NextGood, PTL DEF Spec

(* The variables keep their types. *)
THEOREM RotationTypes == Spec => []TypeOK
  BY RotationInvariant, PTL DEF RotationInv

(* No release is ever governed by a policy other than the descriptor's: a  *)
(* rotation can be announced but never completes.                          *)
THEOREM RotationNeverCompletes == Spec => []PolicyPinned
<1>1. RotationInv => PolicyPinned
  BY DEF RotationInv, PolicyPinned, Good
<1>2. QED
  BY <1>1, RotationInvariant, PTL

(* Nobody the descriptor does not know ever signs a released commit.       *)
THEOREM NoSelfEnrolment == Spec => []SignersKnown
<1>1. RotationInv => SignersKnown
  <2> SUFFICES ASSUME RotationInv, NEW i \in Ids
               PROVE  \A row \in releases[i].rows : row.signer \in AuthorizedSigners(Descriptor)
    BY DEF SignersKnown
  <2>1. releases[i] \in ReleaseFields /\ Good(releases[i])
    BY DEF RotationInv, TypeOK, Ids
  <2>2. QED
    BY <2>1, TransitionGuards DEF Good, ReleaseFields
<1>2. QED
  BY <1>1, RotationInvariant, PTL

(* No chain of releases lowers the guards of the policy.                   *)
THEOREM GuardsNeverLowered == Spec => []GuardsHeld
<1>1. RotationInv => GuardsHeld
  <2> SUFFICES ASSUME RotationInv, NEW i \in Ids
               PROVE  /\ releases[i].candidate.level >= Descriptor.level
                      /\ MetaCovered(releases[i].candidate)
    BY DEF GuardsHeld
  <2>1. releases[i] \in ReleaseFields /\ Good(releases[i])
    BY DEF RotationInv, TypeOK, Ids
  <2>2. QED
    BY <2>1, TransitionGuards DEF Good, ReleaseFields
<1>2. QED
  BY <1>1, RotationInvariant, PTL

(* Every released change of the policy had the level it requires.          *)
THEOREM PolicyChangesReviewed == Spec => []MetaChangesReviewed
<1>1. RotationInv => MetaChangesReviewed
  <2> SUFFICES ASSUME RotationInv, NEW i \in Ids
               PROVE  \A row \in releases[i].rows :
                         row.paths # {} => row.level >= Descriptor.level
    BY DEF MetaChangesReviewed
  <2>1. releases[i] \in ReleaseFields /\ Good(releases[i])
    BY DEF RotationInv, TypeOK, Ids
  <2>2. QED
    BY <2>1, TransitionGuards DEF Good, ReleaseFields
<1>2. QED
  BY <1>1, RotationInvariant, PTL

(* ---- What an accepted chain classifies. ---- *)

(* Every non-empty set of numbers has a least one. *)
LEMMA LeastNumber ==
  ASSUME NEW S \in SUBSET Nat, S # {}
  PROVE  \E x \in S : \A y \in S : x <= y
<1>1. PICK x \in S : \A y \in S : ~(<<y, x>> \in OpToRel(<, Nat))
  BY NatLessThanWellFounded, WFMin
<1>2. \A a, b \in Nat : a < b => <<a, b>> \in OpToRel(<, Nat)
  BY DEF OpToRel
<1>3. \A y \in S : x \in Nat /\ y \in Nat /\ ~(y < x)
  BY <1>1, <1>2
<1>4. QED
  BY <1>3

(* Every non-empty set of releases has an earliest and a latest one. *)
LEMMA EarliestLatest ==
  ASSUME TypeOK, NEW S \in SUBSET Ids, S # {}
  PROVE  /\ \E i \in S : \A j \in S : i <= j
         /\ \E i \in S : \A j \in S : j <= i
<1>1. Len(releases) \in Nat
  BY DEF TypeOK
<1>2. \E i \in S : \A j \in S : i <= j
  BY LeastNumber DEF Ids
<1>3. \E i \in S : \A j \in S : j <= i
  <2> DEFINE n == Len(releases)
             D == {n - i : i \in S}
  <2>1. \A i \in S : i \in Nat /\ n - i \in Nat
    BY <1>1 DEF Ids
  <2>2. PICK d \in D : \A e \in D : d <= e
    <3>1. D \in SUBSET Nat /\ D # {}
      BY <2>1
    <3> HIDE DEF D
    <3>2. QED
      BY <3>1, LeastNumber
  <2>3. PICK i \in S : d = n - i
    BY <2>2
  <2>4. \A j \in S : n - i <= n - j
    BY <2>2, <2>3
  <2>5. QED
    BY <1>1, <2>1, <2>4
<1>4. QED
  BY <1>2, <1>3

(* The walk back from a head exists: it is in every set of releases that   *)
(* holds the head and what its members continue from.                      *)
LEMMA ChainClosed ==
  ASSUME TypeOK, NEW h \in Ids
  PROVE  /\ Chain(h) \subseteq Ids /\ h \in Chain(h)
         /\ \A j \in Chain(h) : releases[j].prior \in Chain(h) \cup {NoRelease}
<1> DEFINE Closed(S) == h \in S /\ \A j \in S : releases[j].prior \in S \cup {NoRelease}
           Walk == {i \in Ids : \A S \in SUBSET Ids : Closed(S) => i \in S}
<1>1. \A i \in Ids : releases[i].prior \in Ids \cup {NoRelease}
  BY PriorType
<1>2. Walk \in SUBSET Ids /\ Closed(Walk)
  <2>1. h \in Walk
    OBVIOUS
  <2>2. ASSUME NEW j \in Walk, releases[j].prior # NoRelease PROVE releases[j].prior \in Walk
    <3>1. releases[j].prior \in Ids
      BY <1>1, <2>2
    <3>2. ASSUME NEW S \in SUBSET Ids, Closed(S) PROVE releases[j].prior \in S
      <4>1. j \in S
        BY <3>2
      <4>2. QED
        BY <2>2, <3>2, <4>1
    <3>3. QED
      BY <3>1, <3>2
  <2>3. QED
    BY <2>1, <2>2
<1>3. ASSUME NEW j \in Walk \ {h} PROVE \E k \in Walk : releases[k].prior = j
  <2> SUFFICES ASSUME \A k \in Walk : releases[k].prior # j PROVE FALSE
    OBVIOUS
  <2>1. Walk \ {j} \in SUBSET Ids /\ Closed(Walk \ {j})
    BY <1>2, <1>3
  <2>2. j \in Walk \ {j}
    BY <1>3, <2>1
  <2>3. QED
    BY <2>2
<1>4. \E S \in SUBSET Ids :
        /\ h \in S /\ \A j \in S : releases[j].prior \in S \cup {NoRelease}
        /\ \A j \in S \ {h} : \E k \in S : releases[k].prior = j
  BY <1>2, <1>3
<1> HIDE DEF Walk
<1>5. QED
  BY <1>4 DEF Chain

(* Every release a registry verifies is of the history of its only head.   *)
LEMMA HeadReachesAll ==
  ASSUME RotationInv, NEW pol, NEW h \in Ids, Heads(pol) = {h}
  PROVE  \A j \in Verified(pol) : Reach[releases[j].to] \subseteq Reach[releases[h].to]
<1> DEFINE Aside == {j \in Verified(pol) : ~(Reach[releases[j].to] \subseteq Reach[releases[h].to])}
<1> SUFFICES ASSUME Aside # {} PROVE FALSE
  OBVIOUS
<1>1. Verified(pol) \in SUBSET Ids /\ Aside \in SUBSET Ids /\ TypeOK
  BY DEF Verified, RotationInv
<1> HIDE DEF Aside
<1>2. PICK j \in Aside : \A k \in Aside : k <= j
  BY <1>1, EarliestLatest
<1> USE DEF Aside
<1>3. j # h /\ j \in Verified(pol)
  BY <1>2
<1>4. PICK k \in Verified(pol) : releases[k].prior = j
  BY <1>3 DEF Heads
<1>5. j < k /\ j \in Nat /\ k \in Nat /\ j # NoRelease
  BY <1>1, <1>3, <1>4, PriorType DEF Ids, NoRelease
<1>6. Reach[releases[j].to] \subseteq Reach[releases[k].to]
  BY <1>1, <1>4, <1>5 DEF RotationInv, Continues
<1>7. k \in Aside
  BY <1>2, <1>4, <1>6
<1>8. QED
  BY <1>2, <1>5, <1>7

(* What a complete chain of verified releases reaches, it classifies. *)
LEMMA ChainClassifies ==
  ASSUME RotationInv, NEW pol, NEW h \in Ids, Chain(h) \subseteq Verified(pol)
  PROVE  Reach[releases[h].to] \subseteq Classified(pol)
<1> DEFINE Missed == {j \in Chain(h) : ~(Reach[releases[j].to] \subseteq Classified(pol))}
<1>1. /\ TypeOK /\ Chain(h) \in SUBSET Ids /\ h \in Chain(h)
      /\ \A j \in Chain(h) : releases[j].prior \in Chain(h) \cup {NoRelease}
  BY ChainClosed DEF RotationInv
<1>2. Missed = {}
  <2> SUFFICES ASSUME Missed # {} PROVE FALSE
    OBVIOUS
  <2>1. Missed \in SUBSET Ids
    BY <1>1
  <2> HIDE DEF Missed
  <2>2. PICK j \in Missed : \A k \in Missed : j <= k
    BY <1>1, <2>1, EarliestLatest
  <2> USE DEF Missed
  <2>3. j \in Ids /\ j \in Verified(pol) /\ j \in Chain(h)
    BY <1>1, <2>2
  <2>4. CommitsOf(releases[j]) \subseteq Classified(pol)
    BY <2>3 DEF Classified, CommitsOf
  <2>5. Continues(releases[j], releases)
    BY <2>3 DEF RotationInv
  <2>6. releases[j].prior # NoRelease
    BY <2>2, <2>4, <2>5 DEF Continues
  <2>7. PICK p : p = releases[j].prior
    OBVIOUS
  <2>8. p \in Chain(h) /\ p \in Nat /\ j \in Nat /\ p < j
    BY <1>1, <2>3, <2>6, <2>7, PriorType DEF Ids
  <2>9. p \notin Missed
    BY <2>2, <2>8
  <2>10. Reach[releases[p].to] \subseteq Classified(pol)
    BY <2>8, <2>9
  <2>11. Reach[releases[j].to] \subseteq CommitsOf(releases[j]) \cup Reach[releases[p].to]
    BY <2>5, <2>6, <2>7 DEF Continues
  <2>12. QED
    BY <2>2, <2>4, <2>10, <2>11
<1>3. QED
  BY <1>1, <1>2

(* Whichever attesters come and go, the releases a registry verifies       *)
(* classify the whole history of the head it accepts and nothing beside it.*)
THEOREM AcceptedChainClassifiesAll == Spec => []HistoryClassified
<1>1. RotationInv => HistoryClassified
  <2> SUFFICES ASSUME RotationInv, NEW pol, NEW h \in AcceptedHead(pol)
               PROVE  Classified(pol) = Reach[releases[h].to]
    BY DEF HistoryClassified
  <2>1. h \in Ids /\ Heads(pol) = {h} /\ Chain(h) \subseteq Verified(pol)
    BY DEF AcceptedHead, Heads, Verified
  <2>2. Reach[releases[h].to] \subseteq Classified(pol)
    BY <2>1, ChainClassifies
  <2>3. ASSUME NEW j \in Verified(pol)
        PROVE  CommitsOf(releases[j]) \subseteq Reach[releases[h].to]
    <3>1. CommitsOf(releases[j]) \subseteq Reach[releases[j].to]
      BY DEF RotationInv, Continues, Verified
    <3>2. QED
      BY <2>1, <3>1, HeadReachesAll
  <2>4. Classified(pol) \subseteq Reach[releases[h].to]
    BY <2>3 DEF Classified, CommitsOf
  <2>5. QED
    BY <2>2, <2>4
<1>2. QED
  BY <1>1, RotationInvariant, PTL
==============================================================================
