-------------------------- MODULE ReleaseChainProofs --------------------------
(***************************************************************************)
(* Proofs about the release and promote commands, for every repository,    *)
(* policy, number of invocations and failure mode.                         *)
(*                                                                         *)
(* What they rest on comes first: the release intervals of every commit    *)
(* graph, and the reader of the release chain on every store.  An interval *)
(* that SelectInterval accepts holds its own commit, and consecutive       *)
(* intervals tile history, whatever branches and merges lie between.  The  *)
(* reader's walk is a recursive function over paths: it is shown to exist, *)
(* and what it returns to be a path of prior links that ends in the head,  *)
(* by least counterexamples (LeastNat).                                    *)
(***************************************************************************)
EXTENDS ReleaseChain, WellFoundedInduction, SequenceTheorems, TLAPS

(* ---- Numbers. ---- *)

(* Every non-empty set of numbers has a least one.                         *)
LEMMA LeastNat ==
    ASSUME NEW S \in SUBSET Nat, S # {}
    PROVE  \E x \in S : \A y \in S : x <= y
<1>1. PICK x \in S : \A y \in S : ~(<<y, x>> \in OpToRel(<, Nat))
  BY NatLessThanWellFounded, WFMin
<1>2. \A a, b \in Nat : a < b => <<a, b>> \in OpToRel(<, Nat)
  BY DEF OpToRel
<1>3. \A y \in S : x \in Nat /\ y \in Nat /\ ~(y < x)
  BY <1>1, <1>2
<1> QED BY <1>3

(* A bounded, non-empty set of numbers has a greatest one.                 *)
LEMMA GreatestNat ==
    ASSUME NEW S \in SUBSET Nat, S # {}, NEW bound \in Nat, \A x \in S : x <= bound
    PROVE  \E x \in S : \A y \in S : y <= x
<1> DEFINE D == {bound - x : x \in S}
<1>1. D \in SUBSET Nat /\ D # {}
  <2>1. \A x \in S : x \in Nat /\ x <= bound
    OBVIOUS
  <2>2. \A x \in S : bound - x \in Nat
    BY <2>1
  <2> QED BY <2>2
<1>2. PICK d \in D : \A e \in D : d <= e
  BY <1>1, LeastNat
<1>3. PICK x \in S : d = bound - x
  BY <1>2
<1>4. \A y \in S : bound - x <= bound - y /\ x \in Nat /\ y \in Nat
  BY <1>2, <1>3
<1> QED BY <1>3, <1>4

(* What holds at the first place of a sequence, and at each place after one*)
(* where it holds, holds everywhere: S is the set of places.               *)
LEMMA PlaceInduction ==
    ASSUME NEW n \in Nat, NEW S, 1 \in S, \A i \in 2..n : i - 1 \in S => i \in S
    PROVE  \A i \in 1..n : i \in S
<1> DEFINE Bad == {i \in 1..n : i \notin S}
<1>1. SUFFICES ASSUME Bad # {} PROVE FALSE
  OBVIOUS
<1>2. PICK i \in Bad : \A j \in Bad : i <= j
  <2>1. Bad \in SUBSET Nat
    OBVIOUS
  <2> HIDE DEF Bad
  <2> QED BY <1>1, <2>1, LeastNat
<1>3. i \in 2..n /\ i - 1 \in 1..n
  BY <1>2
<1>4. i - 1 \notin Bad
  BY <1>2, <1>3
<1> QED BY <1>2, <1>3, <1>4

(* ---- Reachability and intervals. ---- *)

(* A commit is reachable from itself. *)
LEMMA ReachSelf ==
    ASSUME NEW c \in Commits
    PROVE  c \in Reach[c]
BY DEF Reach

(* Whatever is reachable from c is a commit and is not younger than c: the *)
(* commits up to c are a parent-closed set.                                *)
LEMMA ReachBelow ==
    ASSUME NEW c \in Commits, NEW a \in Reach[c]
    PROVE  a \in Commits /\ a <= c
<1> DEFINE Older == {x \in Commits : x <= c}
<1>1. Commits \subseteq Nat /\ Parents \in [Commits -> SUBSET Commits]
        /\ \A x \in Commits : \A p \in Parents[x] : p < x
  BY CommitsAssumption
<1>2. Older \in SUBSET Commits /\ c \in Older
  BY <1>1
<1>3. ParentClosed(Older)
  <2>1. SUFFICES ASSUME NEW x \in Older, NEW p \in Parents[x]
                 PROVE  p \in Commits /\ p <= c
    BY DEF ParentClosed
  <2>2. x \in Commits /\ x <= c /\ p \in Commits /\ p < x
    BY <1>1, <2>1
  <2> QED BY <1>1, <2>2
<1>4. a \in Commits /\ \A S \in SUBSET Commits : c \in S /\ ParentClosed(S) => a \in S
  BY DEF Reach
<1> QED BY <1>2, <1>3, <1>4

(* Reachability is itself closed under parents. *)
LEMMA ReachClosed ==
    ASSUME NEW c \in Commits
    PROVE  Reach[c] \in SUBSET Commits /\ ParentClosed(Reach[c])
<1>1. Reach[c] \in SUBSET Commits
  BY DEF Reach
<1>2. ASSUME NEW x \in Reach[c], NEW p \in Parents[x]
      PROVE  p \in Reach[c]
  <2>1. x \in Commits /\ p \in Commits
    BY <1>1, CommitsAssumption
  <2>2. ASSUME NEW S \in SUBSET Commits, c \in S, ParentClosed(S)
        PROVE  p \in S
    <3>1. x \in S
      BY <2>2 DEF Reach
    <3> QED BY <2>2, <3>1 DEF ParentClosed
  <2> QED BY <2>1, <2>2 DEF Reach
<1> QED BY <1>1, <1>2 DEF ParentClosed

(* What is reachable from a reachable commit is reachable. *)
LEMMA ReachTransitive ==
    ASSUME NEW c \in Commits, NEW b \in Reach[c]
    PROVE  b \in Commits /\ Reach[b] \subseteq Reach[c]
<1>1. b \in Commits
  BY ReachBelow
<1>2. Reach[c] \in SUBSET Commits /\ ParentClosed(Reach[c])
  BY ReachClosed
<1>3. ASSUME NEW a \in Reach[b] PROVE a \in Reach[c]
  BY <1>1, <1>2 DEF Reach
<1> QED BY <1>1, <1>3

(* An accepted recurring interval holds the commit it releases, and none of*)
(* the predecessor's commits.                                              *)
LEMMA RecurringHoldsTo ==
    ASSUME NEW p \in Commits, NEW to \in Commits, RecurringIntervalOK(p, to)
    PROVE  to \in RecurringInterval(p, to) /\ RecurringInterval(p, to) \subseteq Commits
<1>1. Commits \subseteq Nat
  BY CommitsAssumption
<1>2. p <= to /\ p # to
  BY ReachBelow DEF RecurringIntervalOK
<1>3. to \notin Reach[p]
  BY <1>1, <1>2, ReachBelow
<1>4. to \in Reach[to] /\ Reach[to] \in SUBSET Commits
  BY ReachSelf, ReachClosed
<1> QED BY <1>3, <1>4 DEF RecurringInterval

(* So does an accepted genesis interval. *)
LEMMA GenesisHoldsTo ==
    ASSUME NEW boundary \in Commits \cup {NoCommit}, NEW to \in Commits,
           GenesisIntervalOK(boundary, to)
    PROVE  to \in GenesisInterval(boundary, to) /\ GenesisInterval(boundary, to) \subseteq Commits
<1>1. to \in Reach[to] /\ Reach[to] \in SUBSET Commits
  BY ReachSelf, ReachClosed
<1>2. CASE boundary = NoCommit
  BY <1>1, <1>2 DEF GenesisInterval
<1>3. CASE boundary # NoCommit
  <2>1. boundary \in Commits /\ boundary <= to
    BY <1>3, ReachBelow DEF GenesisIntervalOK
  <2>2. ASSUME NEW p \in Parents[boundary] PROVE to \notin Reach[p]
    <3>1. p \in Commits /\ p < boundary /\ Commits \subseteq Nat
      BY <2>1, CommitsAssumption
    <3> QED BY <2>1, <3>1, ReachBelow
  <2> QED BY <1>1, <1>3, <2>2 DEF GenesisInterval
<1> QED BY <1>2, <1>3

(* The commits classified up to a release and those its successor adds are *)
(* exactly the commits classified up to the successor, none of them twice: *)
(* selecting interval after interval (SelectInterval) skips no commit and  *)
(* counts none again, in every history.                                    *)
THEOREM ConsecutiveIntervalsTile ==
    ASSUME NEW boundary \in Commits \cup {NoCommit}, NEW p \in Commits, NEW to \in Commits,
           GenesisIntervalOK(boundary, p), RecurringIntervalOK(p, to)
    PROVE  /\ GenesisInterval(boundary, p) \cap RecurringInterval(p, to) = {}
           /\ GenesisInterval(boundary, p) \cup RecurringInterval(p, to)
                = GenesisInterval(boundary, to)
           /\ GenesisIntervalOK(boundary, to)
<1>1. p \in Reach[to] /\ Reach[p] \subseteq Reach[to]
  BY ReachTransitive DEF RecurringIntervalOK
<1>2. CASE boundary = NoCommit
  BY <1>1, <1>2 DEF GenesisInterval, GenesisIntervalOK, RecurringInterval
<1>3. CASE boundary # NoCommit
  <2> DEFINE Before == UNION {Reach[q] : q \in Parents[boundary]}
  <2>1. boundary \in Reach[p] /\ Reach[boundary] \subseteq Reach[p]
    BY <1>3, ReachTransitive DEF GenesisIntervalOK
  <2>2. ASSUME NEW q \in Parents[boundary] PROVE Reach[q] \subseteq Reach[boundary]
    <3>1. boundary \in Commits
      BY <1>3
    <3>2. q \in Reach[boundary]
      BY <3>1, ReachSelf, ReachClosed DEF ParentClosed
    <3> QED BY <3>1, <3>2, ReachTransitive
  <2>3. Before \subseteq Reach[p]
    BY <2>1, <2>2
  <2>4. /\ GenesisInterval(boundary, p) = Reach[p] \ Before
        /\ GenesisInterval(boundary, to) = Reach[to] \ Before
    BY <1>3 DEF GenesisInterval
  <2>5. GenesisIntervalOK(boundary, to)
    BY <1>1, <2>1 DEF GenesisIntervalOK
  <2> QED BY <1>1, <2>3, <2>4, <2>5 DEF RecurringInterval
<1> QED BY <1>2, <1>3

(* ---- The walk. ---- *)

(* The steps of ChainTo, named.                                            *)
Before(r, Kept, Rel) == {q \in Kept : Rel[q].result = Rel[r].prior}
Stops(path, Kept, Rel) == Rel[path[1]].genesis \/ Before(path[1], Kept, Rel) = {}
Longer(path, Kept, Rel) == << CHOOSE q \in Before(path[1], Kept, Rel) : TRUE >> \o path

(* The recursive function of ChainTo, by its equation. *)
IsWalk(w, Kept, Rel) ==
    w = [path \in Seq(Kept) |->
            IF Stops(path, Kept, Rel) THEN path ELSE w[Longer(path, Kept, Rel)]]

(* ChainTo is the end of the walk from h.                                   *)
LEMMA ChainToIsWalk ==
    ASSUME NEW h, NEW K, NEW R
    PROVE  ChainTo(h, K, R) = (CHOOSE w : IsWalk(w, K, R))[<< h >>]
BY DEF ChainTo, IsWalk, Stops, Longer, Before

(* One more step keeps to the kept releases. *)
LEMMA LongerType ==
    ASSUME NEW K, NEW R, NEW path \in Seq(K), ~Stops(path, K, R)
    PROVE  /\ Longer(path, K, R) \in Seq(K)
           /\ \E q \in Before(path[1], K, R) : Longer(path, K, R) = << q >> \o path
<1>1. PICK q \in K : q \in Before(path[1], K, R) /\ Longer(path, K, R) = << q >> \o path
  BY DEF Stops, Longer, Before
<1> QED BY <1>1

(* The paths the walk meets from a path on. *)
WalksOn(S, Kept, Rel) ==
    \A path \in S : ~Stops(path, Kept, Rel) => Longer(path, Kept, Rel) \in S

(* The paths a walk meets on its way. *)
Met(path, Kept, Rel) ==
    {p \in Seq(Kept) : \A S \in SUBSET Seq(Kept) : path \in S /\ WalksOn(S, Kept, Rel) => p \in S}

(* Where the walk stops. *)
LEMMA MetStop ==
    ASSUME NEW K, NEW R, NEW path \in Seq(K), Stops(path, K, R)
    PROVE  Met(path, K, R) = {path}
<1>1. {path} \in SUBSET Seq(K) /\ WalksOn({path}, K, R)
  BY DEF WalksOn
<1>2. path \in Met(path, K, R)
  BY DEF Met
<1> QED BY <1>1, <1>2 DEF Met

(* Where it goes on. *)
LEMMA MetOn ==
    ASSUME NEW K, NEW R, NEW path \in Seq(K), ~Stops(path, K, R)
    PROVE  Met(path, K, R) = {path} \cup Met(Longer(path, K, R), K, R)
<1> DEFINE next == Longer(path, K, R)
           both == {path} \cup Met(next, K, R)
<1>1. next \in Seq(K)
  BY LongerType
<1>2. WalksOn(Met(next, K, R), K, R)
  <2>1. ASSUME NEW p \in Met(next, K, R), ~Stops(p, K, R)
        PROVE  Longer(p, K, R) \in Met(next, K, R)
    <3>1. p \in Seq(K) /\ Longer(p, K, R) \in Seq(K)
      BY <2>1, LongerType DEF Met
    <3>2. ASSUME NEW S \in SUBSET Seq(K), next \in S, WalksOn(S, K, R)
          PROVE  Longer(p, K, R) \in S
      <4>1. p \in S
        BY <3>2 DEF Met
      <4> QED BY <2>1, <3>2, <4>1 DEF WalksOn
    <3> QED BY <3>1, <3>2 DEF Met
  <2> QED BY <2>1 DEF WalksOn
<1>3. next \in Met(next, K, R)
  BY <1>1 DEF Met
<1>4. both \in SUBSET Seq(K) /\ path \in both /\ WalksOn(both, K, R)
  BY <1>2, <1>3 DEF Met, WalksOn
<1>5. Met(path, K, R) \subseteq both
  BY <1>4 DEF Met
<1>6. ASSUME NEW p \in both PROVE p \in Met(path, K, R)
  <2>1. p \in Seq(K)
    BY <1>4
  <2>2. ASSUME NEW S \in SUBSET Seq(K), path \in S, WalksOn(S, K, R)
        PROVE  p \in S
    <3>1. next \in S
      BY <2>2 DEF WalksOn
    <3> QED BY <1>6, <2>2, <3>1 DEF Met
  <2> QED BY <2>1, <2>2 DEF Met
<1> QED BY <1>5, <1>6

(* There is such a function: where the walk from a path stops, if it does. *)
LEMMA WalkExists ==
    ASSUME NEW K, NEW R
    PROVE  \E w : IsWalk(w, K, R)
<1> DEFINE end(path) == {p \in Met(path, K, R) : Stops(p, K, R)}
           w == [path \in Seq(K) |-> CHOOSE p : p \in end(path)]
<1>1. ASSUME NEW path \in Seq(K)
      PROVE  w[path] = IF Stops(path, K, R) THEN path ELSE w[Longer(path, K, R)]
  <2>1. CASE Stops(path, K, R)
    <3>1. end(path) = {path}
      BY <2>1, MetStop
    <3> HIDE DEF end
    <3>2. (CHOOSE p : p \in end(path)) = path
      BY <3>1
    <3> QED BY <2>1, <3>2
  <2>2. CASE ~Stops(path, K, R)
    <3>1. end(path) = end(Longer(path, K, R)) /\ Longer(path, K, R) \in Seq(K)
      BY <2>2, MetOn, LongerType
    <3> HIDE DEF end
    <3> QED BY <2>2, <3>1
  <2> QED BY <2>1, <2>2
<1> HIDE DEF end
<1>2. PICK v : v = w
  OBVIOUS
<1>3. v = [path \in Seq(K) |-> v[path]]
  BY <1>2
<1> HIDE DEF w
<1>4. \A path \in Seq(K) :
        v[path] = IF Stops(path, K, R) THEN path ELSE v[Longer(path, K, R)]
  BY <1>1, <1>2
<1>5. IsWalk(v, K, R)
  BY <1>3, <1>4 DEF IsWalk
<1> QED BY <1>5

(* A path of kept releases, each the prior of the next, that ends in h.    *)
LinkedPath(path, h, Kept, Rel) ==
    /\ path \in Seq(Kept)
    /\ Len(path) >= 1
    /\ path[Len(path)] = h
    /\ \A i \in 2..Len(path) : Rel[path[i - 1]].result = Rel[path[i]].prior

(* One more step keeps the links. *)
LEMMA LongerLinked ==
    ASSUME NEW K, NEW R, NEW h, NEW path, LinkedPath(path, h, K, R), ~Stops(path, K, R)
    PROVE  /\ LinkedPath(Longer(path, K, R), h, K, R)
           /\ R[Longer(path, K, R)[1]].result = R[path[1]].prior
<1>1. path \in Seq(K) /\ Len(path) \in Nat /\ Len(path) >= 1
  BY DEF LinkedPath
<1>2. PICK q \in Before(path[1], K, R) : Longer(path, K, R) = << q >> \o path
  BY <1>1, LongerType
<1>3. q \in K /\ R[q].result = R[path[1]].prior
  BY DEF Before
<1> DEFINE next == << q >> \o path
<1>4. /\ next \in Seq(K) /\ Len(next) = Len(path) + 1 /\ next[1] = q
      /\ \A i \in 2..Len(next) : next[i] = path[i - 1]
  BY <1>1, <1>3
<1> HIDE DEF next
<1>5. next[Len(next)] = h
  BY <1>1, <1>4 DEF LinkedPath
<1>6. ASSUME NEW i \in 2..Len(next) PROVE R[next[i - 1]].result = R[next[i]].prior
  <2>1. CASE i = 2
    BY <1>1, <1>3, <1>4, <2>1
  <2>2. CASE i # 2
    <3>1. i - 1 \in 2..Len(path) /\ i - 1 \in 2..Len(next)
      BY <1>1, <1>4, <2>2
    <3>2. next[i] = path[i - 1] /\ next[i - 1] = path[(i - 1) - 1]
      BY <1>4, <3>1
    <3> QED BY <3>1, <3>2 DEF LinkedPath
  <2> QED BY <2>1, <2>2
<1> QED BY <1>1, <1>2, <1>3, <1>4, <1>5, <1>6 DEF LinkedPath, next

(* So the walk returns a path of links to the head. *)
LEMMA ChainToLinked ==
    ASSUME NEW K, NEW R, NEW h \in K, NEW M,
           \A r \in K : M[r] \in Nat,
           \A q, r \in K : R[q].result = R[r].prior => M[q] < M[r]
    PROVE  LinkedPath(ChainTo(h, K, R), h, K, R) /\ Stops(ChainTo(h, K, R), K, R)
<1>1. PICK w : IsWalk(w, K, R) /\ ChainTo(h, K, R) = w[<< h >>]
  BY WalkExists, ChainToIsWalk
<1>2. ASSUME NEW path \in Seq(K)
      PROVE  w[path] = IF Stops(path, K, R) THEN path ELSE w[Longer(path, K, R)]
  BY <1>1 DEF IsWalk
<1> DEFINE Ends(path) == LinkedPath(w[path], h, K, R) /\ Stops(w[path], K, R)
           Bad == {M[path[1]] : path \in {p \in Seq(K) : LinkedPath(p, h, K, R) /\ ~Ends(p)}}
<1>3. \A path : LinkedPath(path, h, K, R) => path[1] \in K /\ path \in Seq(K)
  BY DEF LinkedPath
<1>4. Bad = {}
  <2>1. SUFFICES ASSUME Bad # {} PROVE FALSE
    OBVIOUS
  <2>2. Bad \in SUBSET Nat
    BY <1>3
  <2>3. PICK n \in Bad : \A m \in Bad : n <= m
    BY <2>1, <2>2, LeastNat
  <2>4. PICK path \in Seq(K) : LinkedPath(path, h, K, R) /\ ~Ends(path) /\ M[path[1]] = n
    BY <2>3
  <2>5. ~Stops(path, K, R)
    BY <1>2, <2>4
  <2> DEFINE next == Longer(path, K, R)
  <2>6. LinkedPath(next, h, K, R) /\ R[next[1]].result = R[path[1]].prior
    BY <2>4, <2>5, LongerLinked
  <2>7. w[path] = w[next]
    BY <1>2, <2>5
  <2> HIDE DEF next
  <2>8. ~Ends(next) /\ next \in Seq(K)
    BY <1>3, <2>4, <2>6, <2>7
  <2>9. M[next[1]] < M[path[1]] /\ M[next[1]] \in Nat /\ M[path[1]] \in Nat
    BY <1>3, <2>4, <2>6
  <2>10. M[next[1]] \in Bad
    BY <2>6, <2>8
  <2> HIDE DEF Ends, Bad
  <2>11. n <= M[next[1]]
    BY <2>3, <2>10
  <2> QED BY <2>4, <2>9, <2>11
<1>5. << h >> \in Seq(K) /\ LinkedPath(<< h >>, h, K, R)
  BY DEF LinkedPath
<1>6. Ends(<< h >>)
  BY <1>4, <1>5
<1> QED BY <1>1, <1>6

(* A relation T between releases that each place has to the one before it, *)
(* and that is transitive, orders the whole path.                          *)
LEMMA PathOrdered ==
    ASSUME NEW K, NEW path \in Seq(K), NEW T,
           \A i \in 2..Len(path) : <<path[i - 1], path[i]>> \in T,
           \A a, b, c \in K : <<a, b>> \in T /\ <<b, c>> \in T => <<a, c>> \in T
    PROVE  \A i, j \in 1..Len(path) : i < j => <<path[i], path[j]>> \in T
<1>1. Len(path) \in Nat /\ \A i \in 1..Len(path) : path[i] \in K
  OBVIOUS
<1>2. SUFFICES ASSUME NEW i \in 1..Len(path)
               PROVE  \A j \in 1..Len(path) : i < j => <<path[i], path[j]>> \in T
  OBVIOUS
<1> DEFINE S == {j \in Nat : i < j => <<path[i], path[j]>> \in T}
<1>3. 1 \in S
  BY <1>1
<1>4. ASSUME NEW j \in 2..Len(path), j - 1 \in S PROVE j \in S
  <2>1. <<path[j - 1], path[j]>> \in T /\ j - 1 \in 1..Len(path) /\ j \in 1..Len(path)
    BY <1>1
  <2>2. CASE i < j - 1
    <3>1. <<path[i], path[j - 1]>> \in T
      BY <1>4, <2>2
    <3> QED BY <1>1, <2>1, <3>1
  <2>3. CASE i = j - 1
    BY <1>1, <2>1, <2>3
  <2>4. CASE i > j - 1
    BY <1>1, <2>4
  <2> QED BY <1>1, <2>2, <2>3, <2>4
<1> HIDE DEF S
<1>5. \A j \in 1..Len(path) : j \in S
  BY <1>1, <1>3, <1>4, PlaceInduction
<1> QED BY <1>5 DEF S

(* The first member of a chain that begins with an advance carries that    *)
(* member's predecessor; each later one the predecessor of its own advance,*)
(* or what the member before it carries.                                   *)
LEMMA CarriedFirst ==
    ASSUME NEW chain, NEW R, R[chain[1]].action = "advance"
    PROVE  CarriedBaseline(chain, 1, R) = R[chain[1]].pred
<1> DEFINE advances == {k \in 1..1 : R[chain[k]].action = "advance"}
<1>1. advances = {1}
  OBVIOUS
<1> HIDE DEF advances
<1>2. (CHOOSE k \in advances : \A j \in advances : j <= k) = 1
  BY <1>1
<1> QED BY <1>2 DEF CarriedBaseline, advances

(* An advance carries its own baseline; any other release the one of the   *)
(* release before it.                                                      *)
LEMMA CarriedNext ==
    ASSUME NEW chain, NEW R, NEW i \in Nat, i >= 2
    PROVE  CarriedBaseline(chain, i, R) =
             IF R[chain[i]].action = "advance" THEN R[chain[i]].pred
             ELSE CarriedBaseline(chain, i - 1, R)
<1> DEFINE advances(n) == {k \in 1..n : R[chain[k]].action = "advance"}
           last(n) == CHOOSE k \in advances(n) : \A j \in advances(n) : j <= k
<1>0. \A n : CarriedBaseline(chain, n, R) = R[chain[last(n)]].pred
  BY DEF CarriedBaseline
<1>1. CASE R[chain[i]].action = "advance"
  <2>1. i \in advances(i) /\ \A j \in advances(i) : j <= i /\ j \in Nat
    BY <1>1
  <2> HIDE DEF advances
  <2>2. last(i) = i
    BY <2>1
  <2> HIDE DEF last
  <2> QED BY <1>0, <1>1, <2>2
<1>2. CASE R[chain[i]].action # "advance"
  <2>1. advances(i) = advances(i - 1)
    BY <1>2
  <2> HIDE DEF advances
  <2>2. last(i) = last(i - 1)
    BY <2>1
  <2> HIDE DEF last
  <2> QED BY <1>0, <1>2, <2>2
<1> QED BY <1>1, <1>2

--------------------------------------------------------------------------------
(* ---- What the pure part of a decision returns. ---- *)

LEMMA AssignLevelType ==
    ASSUME NEW author, NEW kind
    PROVE  AssignLevel(author, kind) \in Levels
BY DEF AssignLevel, Levels

LEMMA LowestType ==
    ASSUME NEW S \in SUBSET Levels, S # {}
    PROVE  Lowest(S) \in S
<1>1. \E x \in S : \A y \in S : x <= y
  <2>1. CASE 0 \in S BY <2>1 DEF Levels
  <2>2. CASE 0 \notin S /\ 1 \in S BY <2>2 DEF Levels
  <2>3. CASE 0 \notin S /\ 1 \notin S /\ 2 \in S BY <2>3 DEF Levels
  <2>4. CASE 0 \notin S /\ 1 \notin S /\ 2 \notin S /\ 3 \in S BY <2>4 DEF Levels
  <2>5. PICK x \in S : TRUE
    OBVIOUS
  <2>6. x = 0 \/ x = 1 \/ x = 2 \/ x = 3
    BY DEF Levels
  <2> QED BY <2>1, <2>2, <2>3, <2>4, <2>6
<1> QED BY <1>1 DEF Lowest

LEMMA HighestType ==
    ASSUME NEW S \in SUBSET Bumps, S # {}
    PROVE  Highest(S) \in S
<1>1. \E x \in S : \A y \in S : y <= x
  <2>1. CASE 2 \in S BY <2>1 DEF Bumps, Major, MinorBump, Patch
  <2>2. CASE 2 \notin S /\ 1 \in S BY <2>2 DEF Bumps, Major, MinorBump, Patch
  <2>3. CASE 2 \notin S /\ 1 \notin S /\ 0 \in S BY <2>3 DEF Bumps, Major, MinorBump, Patch
  <2> QED BY <2>1, <2>2, <2>3 DEF Bumps, Major, MinorBump, Patch
<1> QED BY <1>1 DEF Highest

(* The facts of a non-empty interval are the inputs a decision expects. *)
LEMMA FactsType ==
    ASSUME NEW commits \in SUBSET Commits, commits # {},
           NEW claimed \in Bumps, NEW blast \in Blasts
    PROVE  Facts(commits, claimed, blast) \in DecisionInputs
<1>1. Effective(commits) \in Levels
  <2> DEFINE S == {Level(c) : c \in commits}
  <2>1. S \in SUBSET Levels /\ S # {}
    BY AssignLevelType DEF Level
  <2>2. Lowest(S) \in Levels
    BY <2>1, LowestType
  <2> QED BY <2>2 DEF Effective
<1>2. SemanticFloor(commits) \in Bumps
  <2> DEFINE S == {Changes[c] : c \in commits}
  <2>1. S \in SUBSET Bumps /\ S # {}
    BY PolicyAssumption
  <2>2. Highest(S) \in Bumps
    BY <2>1, HighestType
  <2> QED BY <2>2 DEF SemanticFloor
<1> QED BY <1>1, <1>2, PolicyAssumption DEF Facts, DecisionInputs

LEMMA EffectiveBumpType ==
    ASSUME NEW d \in DecisionInputs
    PROVE  EffectiveBump(d) \in Bumps
BY DEF EffectiveBump, Larger, DecisionInputs

LEMMA BumpCoreType ==
    ASSUME NEW core \in Core, NEW bump \in Bumps
    PROVE  BumpCore(core, bump) \in Core
<1>1. core[1] \in Nat /\ core[2] \in Nat /\ core[3] \in Nat
  BY DEF Core
<1>2. CASE bump = Major BY <1>1, <1>2 DEF BumpCore, Core, Major, MinorBump, Patch
<1>3. CASE bump = MinorBump BY <1>1, <1>3 DEF BumpCore, Core, Major, MinorBump, Patch
<1>4. CASE bump = Patch BY <1>1, <1>4 DEF BumpCore, Core, Major, MinorBump, Patch
<1> QED BY <1>2, <1>3, <1>4 DEF Bumps

LEMMA CleanNameType ==
    ASSUME NEW core \in Core
    PROVE  CleanName(core) \in Name
BY DEF CleanName, Name, Suffix

(* The iteration a name records is what the next iteration counts from.    *)
Iterations(f) == \A l \in DOMAIN f : f[l] \in Nat

LEMMA IterationsType ==
    ASSUME NEW name \in Name
    PROVE  Iterations(IterationsOf(name))
<1>1. CASE IsClean(name)
  BY <1>1 DEF IterationsOf, NoIterations, Iterations
<1>2. CASE ~IsClean(name)
  <2>1. name.suffix \in Levels \X (Nat \ {0})
    BY <1>2 DEF IsClean, Name, Suffix
  <2>2. IterationOf(name) \in Nat
    BY <2>1 DEF IterationOf
  <2> QED BY <1>2, <2>2 DEF IterationsOf, Iterations
<1> QED BY <1>1, <1>2

(* Evaluations that emit: the core and the emitted name are well-formed,   *)
(* and no name is missing unless the clean tag was accepted before.        *)
Emits(e, cleanAccepted) ==
    e.ok => /\ e.core \in Core
            /\ e.floor = <<>> \/ \E b \in Bumps : e.floor = << b >>
            /\ ~cleanAccepted => \E n \in Name : e.name = << n >>

LEMMA EmitType ==
    ASSUME NEW core \in Core, NEW d \in DecisionInputs, NEW iterations, Iterations(iterations),
           NEW cleanAccepted \in BOOLEAN, NEW tags
    PROVE  Emits(Emit(core, d, iterations, cleanAccepted, tags), cleanAccepted)
<1> DEFINE n == EmittedName(core, d, iterations, cleanAccepted)
<1>1. ~cleanAccepted => \E name \in Name : n = << name >>
  <2>1. CASE Channel(d) = "clean"
    BY <2>1, CleanNameType DEF EmittedName
  <2>2. CASE Channel(d) # "clean"
    <3>1. d.effective \in Levels
      BY DEF DecisionInputs
    <3>2. IterationAt(iterations, d.effective) \in Nat
      BY DEF IterationAt, Iterations
    <3>3. PrereleaseName(core, d.effective, IterationAt(iterations, d.effective) + 1) \in Name
      BY <3>1, <3>2 DEF PrereleaseName, Name, Suffix
    <3> QED BY <2>2, <3>3 DEF EmittedName
  <2> QED BY <2>1, <2>2
<1>2. CASE n # <<>> /\ n[1] \in DOMAIN tags
  BY <1>2 DEF Emit, Emits, Refused
<1>3. CASE ~(n # <<>> /\ n[1] \in DOMAIN tags)
  <2>1. Emit(core, d, iterations, cleanAccepted, tags) = [ok |-> TRUE, core |-> core, name |-> n, floor |-> <<>>]
    BY <1>3 DEF Emit, Verified
  <2> QED BY <1>1, <2>1 DEF Emits
<1> QED BY <1>2, <1>3
FloorOK(floor) == floor = <<>> \/ \E b \in Bumps : floor = << b >>

LEMMA BootstrapType ==
    ASSUME NEW to \in Commits, NEW d \in DecisionInputs, NEW tags
    PROVE  Emits(BootstrapAncestry(Legacy, Boundary, to, d, tags), FALSE)
<1> DEFINE base == IF Legacy = <<>> THEN ZeroCore ELSE Legacy[1].name.core
<1>1. base \in Core
  BY LegacyAssumption DEF ZeroCore, Core
<1>2. BumpCore(base, EffectiveBump(d)) \in Core
  BY <1>1, EffectiveBumpType, BumpCoreType
<1>3. Iterations(NoIterations)
  BY DEF Iterations, NoIterations
<1>4. Emits(Emit(BumpCore(base, EffectiveBump(d)), d, NoIterations, FALSE, tags), FALSE)
  BY <1>2, <1>3, EmitType
<1>5. Emits(Refused, FALSE)
  BY DEF Emits, Refused
<1> QED BY <1>4, <1>5 DEF BootstrapAncestry

(* What the accepted head provides to the next decision. *)
SelectedOK(selected) ==
    /\ selected.to \in Commits
    /\ selected.state.targetCore \in Core
    /\ selected.state.targetBump \in Bumps
    /\ selected.state.cleanAccepted \in BOOLEAN
    /\ Iterations(selected.state.iterations)
    /\ FloorOK(selected.state.correctiveFloor)

LEMMA PredecessorType ==
    ASSUME NEW selected, SelectedOK(selected), NEW action, NEW to, NEW d \in DecisionInputs, NEW tags
    PROVE  Emits(PredecessorAncestry(selected, action, to, d, FALSE, tags), FALSE)
<1> DEFINE st == selected.state
           da == IF action = "advance" THEN WithCorrectiveFloor(d, st.correctiveFloor) ELSE d
<1>1. da \in DecisionInputs
  <2>1. CASE action = "advance" /\ st.correctiveFloor # <<>>
    <3>1. st.correctiveFloor[1] \in Bumps
      BY <2>1 DEF SelectedOK, FloorOK
    <3>2. Larger(d.floor, st.correctiveFloor[1]) \in Bumps
      BY <3>1 DEF Larger, DecisionInputs
    <3>3. da = [d EXCEPT !.floor = Larger(d.floor, st.correctiveFloor[1])]
      BY <2>1 DEF WithCorrectiveFloor
    <3> QED BY <3>2, <3>3 DEF DecisionInputs
  <2>2. CASE ~(action = "advance" /\ st.correctiveFloor # <<>>)
    BY <2>2 DEF WithCorrectiveFloor
  <2> QED BY <2>1, <2>2
<1>2. Emits(Emit(BumpCore(st.targetCore, EffectiveBump(da)), da, NoIterations, FALSE, tags), FALSE)
  <2>1. BumpCore(st.targetCore, EffectiveBump(da)) \in Core
    BY <1>1, EffectiveBumpType, BumpCoreType DEF SelectedOK
  <2>2. Iterations(NoIterations)
    BY DEF Iterations, NoIterations
  <2> HIDE DEF da
  <2> QED BY <1>1, <2>1, <2>2, EmitType
<1>3. Emits(Emit(st.targetCore, d, st.iterations, FALSE, tags), FALSE)
  BY EmitType DEF SelectedOK
<1>4. Emits(Refused, FALSE)
  BY DEF Emits, Refused
<1> QED BY <1>2, <1>3, <1>4 DEF PredecessorAncestry

LEMMA SupersededType ==
    ASSUME NEW selected, SelectedOK(selected), NEW to, NEW d \in DecisionInputs, NEW tags
    PROVE  LET e == SupersededAncestry(selected, to, d, tags)
           IN  e.ok => e.core \in Core /\ FloorOK(e.floor)
<1> DEFINE st == selected.state
<1>1. FloorOK(<<>>)
  BY DEF FloorOK
<1>2. ASSUME NEW floor, FloorOK(floor)
      PROVE  LET e == Verified(st.targetCore, <<>>, floor)
             IN  e.ok => e.core \in Core /\ FloorOK(e.floor)
  BY <1>2 DEF Verified, SelectedOK
<1>3. FloorOK(<< IF st.correctiveFloor = <<>> THEN EffectiveBump(d)
                 ELSE Larger(EffectiveBump(d), st.correctiveFloor[1]) >>)
  <2>1. EffectiveBump(d) \in Bumps
    BY EffectiveBumpType
  <2>2. CASE st.correctiveFloor = <<>>
    BY <2>1, <2>2 DEF FloorOK
  <2>3. CASE st.correctiveFloor # <<>>
    <3>1. st.correctiveFloor[1] \in Bumps
      BY <2>3 DEF SelectedOK, FloorOK
    <3>2. Larger(EffectiveBump(d), st.correctiveFloor[1]) \in Bumps
      BY <2>1, <3>1 DEF Larger
    <3> QED BY <2>3, <3>2 DEF FloorOK
  <2> QED BY <2>2, <2>3
<1>4. LET e == Emit(st.targetCore, d, st.iterations, st.cleanAccepted, tags)
      IN  e.ok => e.core \in Core /\ FloorOK(e.floor)
  BY EmitType DEF SelectedOK, Emits, FloorOK
<1>5. ~Refused.ok
  BY DEF Refused
<1> QED BY <1>1, <1>2, <1>3, <1>4, <1>5 DEF SupersededAncestry

(* ---- Type correctness. ---- *)

(* A decided release is well-formed when its parts are. *)
LEMMA StatementType ==
    ASSUME NEW action \in {"advance", "recut", "supersede"}, NEW genesis \in BOOLEAN,
           NEW to \in Commits, NEW commits \in SUBSET Commits, NEW d \in DecisionInputs,
           NEW pred, NEW prior, NEW state, NEW name \in Name, NEW supersedes,
           state.targetCore \in Core, state.targetBump \in Bumps, FloorOK(state.correctiveFloor)
    PROVE  ReleaseOK(Statement(action, genesis, to, commits, d, pred, prior, state, name, supersedes))
BY DEF Statement, ReleaseOK, ReleaseFields, FloorOK, DecisionInputs, Unbound

LEMMA BeginType ==
    ASSUME TypeOK, NEW o \in Ops, NEW release, ReleaseOK(release), Begin(o, release)
    PROVE  TypeOK'
<1>1. pc' \in [Ops -> PCs]
  BY DEF TypeOK, Begin, PCs, InFlightPCs
<1>2. DOMAIN rel' = Ops
  BY DEF TypeOK, Begin
<1>3. ASSUME NEW q \in Ops
      PROVE  IF pc'[q] = "idle" THEN rel'[q] = NoRelease /\ store'[q] = {} ELSE ReleaseOK(rel'[q])
  <2>1. CASE q = o
    BY <2>1 DEF TypeOK, Begin
  <2>2. CASE q # o
    BY <2>2 DEF TypeOK, Begin
  <2> QED BY <2>1, <2>2
<1> QED BY <1>1, <1>2, <1>3 DEF TypeOK, Begin

(* The accepted head has been decided on, so it is a well-formed release.  *)
LEMMA HeadType ==
    ASSUME TypeOK, NEW h \in ChainHead
    PROVE  h \in Ops /\ ReleaseOK(rel[h]) /\ SelectedOK(SelectedRelease(h, Stored, rel, rank))
<1>1. h \in Stored
  BY DEF ChainHead, AcceptedHead, ChainHeads, Deduplicated
<1>2. h \in Ops /\ ReleaseOK(rel[h])
  BY <1>1 DEF Stored, TypeOK
<1>3. rel[h].tag.name \in Name /\ rel[h].to \in Commits
  BY <1>2 DEF ReleaseOK
<1>4. Iterations(IterationsOf(rel[h].tag.name))
  BY <1>3, IterationsType
<1>5. SelectedOK(SelectedRelease(h, Stored, rel, rank))
  BY <1>2, <1>3, <1>4
  DEF SelectedOK, SelectedRelease, ReconstructState, ReleaseOK, IsClean, FloorOK
<1> QED BY <1>2, <1>5

LEMMA GenesisType ==
    ASSUME TypeOK, NEW o \in Ops, NEW to \in Commits, NEW claimed \in Claims,
           NEW blast \in BlastScores, ReleaseGenesis(o, to, claimed, blast)
    PROVE  TypeOK'
<1> DEFINE commits == GenesisInterval(Boundary, to)
           d == Facts(commits, claimed, blast)
           ancestry == BootstrapAncestry(Legacy, Boundary, to, d, refs)
           base == IF Legacy = <<>> THEN ZeroCore ELSE Legacy[1].name.core
           name == ancestry.name[1]
           state == VersionStateOf(Legacy, base, ancestry.core, EffectiveBump(d), name,
                                   << GenesisIntervalID >>, ancestry.floor)
<1>1. claimed \in Bumps /\ blast \in Blasts /\ Boundary \in Commits \cup {NoCommit}
  BY PolicyAssumption
<1>2. GenesisIntervalOK(Boundary, to)
  BY DEF ReleaseGenesis
<1>3. commits \in SUBSET Commits /\ commits # {}
  BY <1>1, <1>2, GenesisHoldsTo
<1>4. d \in DecisionInputs
  BY <1>1, <1>3, FactsType
<1>5. ancestry.ok
  BY DEF ReleaseGenesis
<1>6. Emits(ancestry, FALSE)
  BY <1>4, BootstrapType
<1>7. ancestry.core \in Core /\ FloorOK(ancestry.floor) /\ name \in Name
  BY <1>5, <1>6 DEF Emits, FloorOK
<1>8. EffectiveBump(d) \in Bumps
  BY <1>4, EffectiveBumpType
<1>9. /\ state.targetCore = ancestry.core /\ state.targetBump = EffectiveBump(d)
      /\ state.correctiveFloor = ancestry.floor
  BY DEF VersionStateOf
<1>10. Begin(o, Statement("advance", TRUE, to, commits, d, Legacy, <<>>, state, name, <<>>))
  BY DEF ReleaseGenesis
<1> HIDE DEF commits, d, ancestry, base, name, state
<1>11. ReleaseOK(Statement("advance", TRUE, to, commits, d, Legacy, <<>>, state, name, <<>>))
  BY <1>3, <1>4, <1>7, <1>8, <1>9, StatementType
<1> QED BY <1>10, <1>11, BeginType

LEMMA RecurringType ==
    ASSUME TypeOK, NEW o \in Ops, NEW h \in ChainHead, NEW selected, SelectedOK(selected),
           NEW action \in {"advance", "recut"}, NEW to \in Commits, NEW claimed \in Claims,
           NEW blast \in BlastScores,
           ReleaseRecurring(o, h, selected, action, to, claimed, blast)
    PROVE  TypeOK'
<1> DEFINE commits == RecurringInterval(selected.to, to)
           d == Facts(commits, claimed, blast)
           ancestry == PredecessorAncestry(selected, action, to, d, FALSE, refs)
           name == ancestry.name[1]
           state == RecurringState(selected, action, d, ancestry, name, <<selected.to, to>>)
<1>1. claimed \in Bumps /\ blast \in Blasts /\ selected.to \in Commits
  BY PolicyAssumption DEF SelectedOK
<1>2. RecurringIntervalOK(selected.to, to)
  BY DEF ReleaseRecurring
<1>3. commits \in SUBSET Commits /\ commits # {}
  BY <1>1, <1>2, RecurringHoldsTo
<1>4. d \in DecisionInputs
  BY <1>1, <1>3, FactsType
<1>5. ancestry.ok
  BY DEF ReleaseRecurring
<1>6. Emits(ancestry, FALSE)
  BY <1>4, PredecessorType
<1>7. ancestry.core \in Core /\ FloorOK(ancestry.floor) /\ name \in Name
  <2> HIDE DEF ancestry
  <2>1. PICK n \in Name : ancestry.name = << n >>
    BY <1>5, <1>6 DEF Emits
  <2>2. name = n
    BY <2>1
  <2> QED BY <1>5, <1>6, <2>2 DEF Emits, FloorOK
<1>8. EffectiveBump(d) \in Bumps /\ selected.state.targetBump \in Bumps
  BY <1>4, EffectiveBumpType DEF SelectedOK
<1>9. /\ state.targetCore = ancestry.core
      /\ state.targetBump \in {EffectiveBump(d), selected.state.targetBump}
      /\ state.correctiveFloor = ancestry.floor
  BY DEF VersionStateOf, RecurringState
<1>10. Begin(o, Statement(action, FALSE, to, commits, d, << selected.tag >>, rel[h].result,
                          state, name, <<>>))
  BY DEF ReleaseRecurring
<1> HIDE DEF commits, d, ancestry, name, state
<1>11. ReleaseOK(Statement(action, FALSE, to, commits, d, << selected.tag >>, rel[h].result,
                           state, name, <<>>))
  BY <1>3, <1>4, <1>7, <1>8, <1>9, StatementType
<1> QED BY <1>10, <1>11, BeginType

LEMMA PromoteType ==
    ASSUME TypeOK, NEW o \in Ops, NEW h \in ChainHead, NEW selected, SelectedOK(selected),
           NEW blast \in BlastScores, Promote(o, h, selected, blast)
    PROVE  TypeOK'
<1> DEFINE st == selected.state
           anchor == SupersedeAnchor(h, Stored, rel, rank)
           commits == SupersedeInterval(anchor, h)
           d == Facts(commits, rel[h].claimed, blast)
           ancestry == SupersededAncestry(selected, selected.to, d, refs)
           name == CleanName(st.targetCore)
           state == VersionStateOf(st.baseline, st.baselineCore, ancestry.core, st.targetBump,
                                   name, st.targetIntervals, ancestry.floor)
<1>1. h \in Ops /\ ReleaseOK(rel[h])
  BY HeadType
<1>2. /\ rel[h].claimed \in Bumps /\ rel[h].to \in Commits
      /\ blast \in Blasts /\ Boundary \in Commits \cup {NoCommit}
  BY <1>1, PolicyAssumption DEF ReleaseOK
<1>3. commits \in SUBSET Commits /\ commits # {}
  <2>1. CASE anchor = {}
    <3>1. GenesisIntervalOK(Boundary, rel[h].to)
      BY <2>1 DEF Promote
    <3> QED BY <1>2, <2>1, <3>1, GenesisHoldsTo DEF SupersedeInterval
  <2>2. CASE anchor # {}
    <3>1. ASSUME NEW a \in anchor
          PROVE  /\ RecurringInterval(rel[a].to, rel[h].to) \in SUBSET Commits
                 /\ RecurringInterval(rel[a].to, rel[h].to) # {}
      <4>1. RecurringIntervalOK(rel[a].to, rel[h].to)
        BY <2>2 DEF Promote, AnchorUsable
      <4>2. rel[a].to \in Commits
        BY <1>2, <4>1, ReachBelow DEF RecurringIntervalOK
      <4> QED BY <1>2, <4>1, <4>2, RecurringHoldsTo
    <3> QED BY <2>2, <3>1 DEF SupersedeInterval
  <2> QED BY <2>1, <2>2
<1>4. d \in DecisionInputs
  BY <1>2, <1>3, FactsType
<1>5. ancestry.ok
  BY DEF Promote
<1>6. ancestry.core \in Core /\ FloorOK(ancestry.floor)
  BY <1>4, <1>5, SupersededType
<1>7. name \in Name /\ selected.to \in Commits /\ st.targetBump \in Bumps
  BY CleanNameType DEF SelectedOK
<1>8. /\ state.targetCore = ancestry.core /\ state.targetBump = st.targetBump
      /\ state.correctiveFloor = ancestry.floor
  BY DEF VersionStateOf
<1>9. Begin(o, Statement("supersede", FALSE, selected.to, commits, d, << selected.tag >>,
                         rel[h].result, state, name, << h >>))
  BY DEF Promote
<1> HIDE DEF st, anchor, commits, d, ancestry, name, state
<1>10. ReleaseOK(Statement("supersede", FALSE, selected.to, commits, d, << selected.tag >>,
                           rel[h].result, state, name, << h >>))
  BY <1>3, <1>4, <1>6, <1>7, <1>8, StatementType
<1> QED BY <1>9, <1>10, BeginType

(* Moving an invocation to another place keeps the types. *)
LEMMA GotoType ==
    ASSUME TypeOK, NEW o \in Ops, pc[o] # "idle", NEW label \in PCs \ {"idle"}, Goto(o, label)
    PROVE  /\ pc' \in [Ops -> PCs]
           /\ \A q \in Ops : pc'[q] = "idle" <=> pc[q] = "idle"
BY DEF TypeOK, Goto

LEMMA TypeInit == Init => TypeOK
<1> SUFFICES ASSUME Init PROVE TypeOK
  OBVIOUS
<1>1. review \in [Commits -> Reviews]
  BY DEF Init, Reviews
<1>2. DOMAIN refs \subseteq Name /\ \A n \in DOMAIN refs : refs[n] \in Ref
  <2>1. CASE Legacy = <<>>
    BY <2>1 DEF Init
  <2>2. CASE Legacy # <<>>
    <3>1. /\ Legacy[1].name = CleanName(Legacy[1].name.core) /\ Legacy[1].name.core \in Core
          /\ Legacy[1].oid \in Nat /\ Legacy[1].commit \in Commits
      BY <2>2, LegacyAssumption
    <3>2. Legacy[1].name \in Name
      BY <3>1, CleanNameType
    <3> QED BY <2>2, <3>1, <3>2 DEF Init, Ref
  <2> QED BY <2>1, <2>2
<1>3. store \in [Ops -> SUBSET Subjects] /\ pc \in [Ops -> PCs]
  BY DEF Init, PCs
<1>4. /\ DOMAIN rel = Ops /\ rank \in Ranks
      /\ \A o \in Ops : pc[o] = "idle" /\ rel[o] = NoRelease /\ store[o] = {}
  BY DEF Init
<1> QED BY <1>1, <1>2, <1>3, <1>4 DEF TypeOK

LEMMA StartType ==
    ASSUME TypeOK, NEW o \in Ops, Start(o)
    PROVE  TypeOK'
<1>1. CASE StartGenesis(o)
  BY <1>1, GenesisType DEF StartGenesis
<1>2. ASSUME NEW h \in ChainHead, StartAfter(o, h, SelectedRelease(h, Stored, rel, rank))
      PROVE  TypeOK'
  <2>1. SelectedOK(SelectedRelease(h, Stored, rel, rank))
    BY HeadType
  <2> QED BY <1>2, <2>1, PromoteType, RecurringType DEF StartAfter
<1> QED BY <1>1, <1>2 DEF Start

LEMMA StepType ==
    ASSUME TypeOK, NEW o \in Ops, Step(o)
    PROVE  TypeOK'
<1> USE DEF PCs, InFlightPCs
<1>1. CASE LookupTag(o)
  <2>1. pc[o] # "idle"
    BY <1>1 DEF LookupTag
  <2>2. PICK label \in {"failed", "checked"} : Goto(o, label)
    BY <1>1 DEF LookupTag
  <2> QED BY <1>1, <2>1, <2>2, GotoType DEF LookupTag, TypeOK
<1>2. CASE SetTag(o)
  <2>1. pc[o] # "idle" /\ Goto(o, "tagged")
    BY <1>2 DEF SetTag
  <2>2. ReleaseOK(rel[o])
    BY <2>1 DEF TypeOK
  <2>3. rel[o].tag.name \in Name /\ [oid |-> o, commit |-> rel[o].to] \in Ref
    BY <2>2, OpsAssumption DEF ReleaseOK, Ref
  <2>4. DOMAIN refs' \subseteq Name /\ \A n \in DOMAIN refs' : refs'[n] \in Ref
    BY <1>2, <2>3 DEF SetTag, WithTag, TypeOK
  <2> QED BY <1>2, <2>1, <2>4, GotoType DEF SetTag, TypeOK
<1>3. CASE BindAndSign(o)
  <2>1. pc[o] # "idle"
    BY <1>3 DEF BindAndSign
  <2>2. PICK label \in {"signed", "rollback"} : Goto(o, label)
    BY <1>3 DEF BindAndSign
  <2>3. ReleaseOK(rel[o])
    BY <2>1 DEF TypeOK
  <2>4. DOMAIN rel' = Ops /\ ReleaseOK(rel'[o]) /\ \A q \in Ops \ {o} : rel'[q] = rel[q]
    <3>1. CASE rel[o].tag.name \in DOMAIN refs
      <4> DEFINE binding == BindingOf(rel[o].tag.name, refs[rel[o].tag.name])
      <4>1. binding \in [name : Name, oid : Nat, commit : Commits]
        BY <3>1 DEF BindingOf, TypeOK, Ref
      <4>2. rel' = [rel EXCEPT ![o] = [rel[o] EXCEPT !.tag = binding]]
        BY <1>3, <3>1 DEF BindAndSign
      <4> HIDE DEF binding
      <4>3. ReleaseOK([rel[o] EXCEPT !.tag = binding])
        BY <2>3, <4>1 DEF ReleaseOK, ReleaseFields
      <4> QED BY <4>2, <4>3 DEF TypeOK
    <3>2. CASE rel[o].tag.name \notin DOMAIN refs
      BY <1>3, <2>3, <3>2 DEF BindAndSign, TypeOK
    <3> QED BY <3>1, <3>2
  <2> QED BY <1>3, <2>1, <2>2, <2>4, GotoType DEF BindAndSign, TypeOK
<1>4. CASE PutUnderCommit(o)
  <2>1. pc[o] # "idle" /\ Goto(o, "half")
    BY <1>4 DEF PutUnderCommit
  <2>2. store' \in [Ops -> SUBSET Subjects] /\ \A q \in Ops \ {o} : store'[q] = store[q]
    BY <1>4 DEF PutUnderCommit, TypeOK, Subjects
  <2> QED BY <1>4, <2>1, <2>2, GotoType DEF PutUnderCommit, TypeOK
<1>5. CASE PutUnderTag(o)
  <2>1. pc[o] # "idle" /\ Goto(o, "done")
    BY <1>5 DEF PutUnderTag
  <2>2. store' \in [Ops -> SUBSET Subjects] /\ \A q \in Ops \ {o} : store'[q] = store[q]
    BY <1>5 DEF PutUnderTag, TypeOK, Subjects
  <2> QED BY <1>5, <2>1, <2>2, GotoType DEF PutUnderTag, TypeOK
<1>6. CASE SignFails(o) \/ PutUnderCommitFails(o) \/ PutUnderTagFails(o)
  <2>1. /\ pc[o] # "idle" /\ Goto(o, "rollback")
        /\ UNCHANGED <<review, refs, store, rel, rank>>
    BY <1>6 DEF SignFails, PutUnderCommitFails, PutUnderTagFails, Failing
  <2> QED BY <2>1, GotoType DEF TypeOK
<1>7. CASE Rollback(o)
  <2>1. pc[o] # "idle" /\ Goto(o, "failed")
    BY <1>7 DEF Rollback
  <2>2. DOMAIN refs' \subseteq Name /\ \A n \in DOMAIN refs' : refs'[n] \in Ref
    BY <1>7 DEF Rollback, WithoutTag, TypeOK
  <2> QED BY <1>7, <2>1, <2>2, GotoType DEF Rollback, TypeOK
<1>8. CASE RollbackFails(o)
  <2>1. pc[o] # "idle" /\ Goto(o, "stranded")
    BY <1>8 DEF RollbackFails
  <2> QED BY <1>8, <2>1, GotoType DEF RollbackFails, TypeOK
<1>9. CASE SignTagFails(o)
  <2>1. pc[o] # "idle" /\ Goto(o, "failed")
    BY <1>9 DEF SignTagFails
  <2> QED BY <1>9, <2>1, GotoType DEF SignTagFails, TypeOK
<1> QED BY <1>1, <1>2, <1>3, <1>4, <1>5, <1>6, <1>7, <1>8, <1>9 DEF Step

LEMMA TypeNext == TypeOK /\ [Next]_vars => TypeOK'
<1> SUFFICES ASSUME TypeOK, [Next]_vars PROVE TypeOK'
  OBVIOUS
<1>1. ASSUME NEW p, NEW to, NEW kind \in ReviewKinds, AttestReview(p, to, kind)
      PROVE  TypeOK'
  <2>1. PICK taking : review' = [c \in Commits |-> IF c \in taking THEN kind ELSE review[c]]
    BY <1>1 DEF AttestReview
  <2>2. kind \in Reviews
    BY PolicyAssumption
  <2>3. review' \in [Commits -> Reviews]
    BY <2>1, <2>2 DEF TypeOK
  <2> QED BY <1>1, <2>3 DEF AttestReview, TypeOK
<1>2. ASSUME NEW o \in Ops, Start(o)
      PROVE  TypeOK'
  BY <1>2, StartType
<1>3. ASSUME NEW o \in Ops, Step(o)
      PROVE  TypeOK'
  BY <1>3, StepType
<1>4. ASSUME NEW o \in Ops, Crash(o)
      PROVE  TypeOK'
  <2>1. pc[o] # "idle" /\ Goto(o, "dead") /\ "dead" \in PCs
    BY <1>4 DEF Crash, InFlight, InFlightPCs, PCs
  <2> QED BY <1>4, <2>1, GotoType DEF Crash, TypeOK
<1>5. ASSUME NEW o \in Ops, PruneAttestation(o)
      PROVE  TypeOK'
  <2>1. store' \in [Ops -> SUBSET Subjects] /\ \A q \in Ops : store[q] = {} => store'[q] = {}
    BY <1>5 DEF PruneAttestation, TypeOK
  <2> QED BY <1>5, <2>1 DEF PruneAttestation, TypeOK
<1>6. ASSUME NEW name \in DOMAIN refs, DeleteOrphanTag(name)
      PROVE  TypeOK'
  <2>1. DOMAIN refs' \subseteq Name /\ \A n \in DOMAIN refs' : refs'[n] \in Ref
    BY <1>6 DEF DeleteOrphanTag, WithoutTag, TypeOK
  <2> QED BY <1>6, <2>1 DEF DeleteOrphanTag, TypeOK
<1>7. CASE UNCHANGED vars
  BY <1>7 DEF vars, TypeOK
<1> QED BY <1>1, <1>2, <1>3, <1>4, <1>5, <1>6, <1>7 DEF Next

(* Whatever the commands, their failures and the operators do, the state   *)
(* keeps its types: in particular every decided tag name is well-formed,   *)
(* because a release interval is never empty and its trust is a level.     *)
THEOREM TypeCorrect == Spec => []TypeOK
BY TypeInit, TypeNext, PTL DEF Spec

(* ---- One command at a time: tags and their attestations. ---- *)

(* The custody of tags.  An existing tag is the legacy one, or was written *)
(* by the invocation whose object it is, under the name it decided on.     *)
Wrote == {"tagged", "signed", "half", "rollback", "done", "failed", "stranded", "dead"}
Holding == {"tagged", "signed", "half", "rollback", "done"}
WrittenBy(n, o) ==
    /\ refs[n] = [oid |-> o, commit |-> rel[o].to]
    /\ rel[o].tag.name = n
    /\ pc[o] \in Wrote

OneInFlight == \A o, q \in Ops : InFlight(o) /\ InFlight(q) => o = q
TagsOwned ==
    \A n \in DOMAIN refs :
        \/ Legacy # <<>> /\ Legacy[1].name = n /\ refs[n].oid \notin Ops
        \/ \E o \in Ops : WrittenBy(n, o)
CheckedIsFree == \A o \in Ops : pc[o] = "checked" => rel[o].tag.name \notin DOMAIN refs
HoldersHold ==
    \A o \in Ops : pc[o] \in Holding =>
        rel[o].tag.name \in DOMAIN refs /\ WrittenBy(rel[o].tag.name, o)
SignedBinds ==
    \A o \in Ops : pc[o] \in {"signed", "half", "done"} =>
        rel[o].tag.oid = o /\ rel[o].tag.commit = rel[o].to
StoredInOrder ==
    \A o \in Ops : /\ pc[o] \in {"idle", "decided", "checked", "tagged", "signed"} => store[o] = {}
                   /\ pc[o] = "half" => store[o] = {"commit"}
                   /\ pc[o] = "done" => store[o] = Subjects

Custody ==
    OneInFlight /\ TagsOwned /\ CheckedIsFree /\ HoldersHold /\ SignedBinds /\ StoredInOrder

LEMMA CustodyInit == Init => Custody
<1> SUFFICES ASSUME Init PROVE Custody
  OBVIOUS
<1>1. \A o \in Ops : pc[o] = "idle" /\ store[o] = {}
  BY DEF Init
<1>2. TagsOwned
  <2>1. CASE Legacy = <<>>
    BY <2>1 DEF Init, TagsOwned
  <2>2. CASE Legacy # <<>>
    <3>1. Legacy[1].oid \notin Ops
      BY <2>2, LegacyAssumption
    <3> QED BY <2>2, <3>1 DEF Init, TagsOwned
  <2> QED BY <2>1, <2>2
<1> QED BY <1>1, <1>2
  DEF Custody, OneInFlight, InFlight, InFlightPCs, CheckedIsFree, HoldersHold, Holding, SignedBinds, StoredInOrder

(* An invocation that only moves on, or stores its attestation.            *)
LEMMA MoveCustody ==
    ASSUME TypeOK, Custody, NEW o \in Ops, NEW label, InFlight(o), Goto(o, label),
           UNCHANGED <<refs, rel>>,
           pc[o] \in Wrote => label \in Wrote,
           label = "checked" => rel[o].tag.name \notin DOMAIN refs,
           label \in Holding => pc[o] \in Holding,
           label \in {"signed", "half", "done"} => pc[o] \in {"signed", "half"},
           \A q \in Ops \ {o} : store'[q] = store[q],
           label \in {"idle", "decided", "checked", "tagged", "signed"} => store'[o] = {},
           label = "half" => store'[o] = {"commit"},
           label = "done" => store'[o] = Subjects
    PROVE  Custody'
<1>1. pc'[o] = label /\ \A q \in Ops \ {o} : pc'[q] = pc[q]
  BY DEF Goto, TypeOK
<1>2. OneInFlight'
  BY <1>1 DEF Custody, OneInFlight, InFlight
<1>3. TagsOwned'
  BY <1>1 DEF Custody, TagsOwned, WrittenBy
<1>4. CheckedIsFree'
  BY <1>1 DEF Custody, CheckedIsFree
<1>5. HoldersHold'
  <2>1. Holding \subseteq Wrote
    BY DEF Holding, Wrote
  <2> QED BY <1>1, <2>1 DEF Custody, HoldersHold, WrittenBy
<1>6. SignedBinds'
  BY <1>1 DEF Custody, SignedBinds
<1>7. StoredInOrder'
  BY <1>1 DEF Custody, StoredInOrder
<1> QED BY <1>2, <1>3, <1>4, <1>5, <1>6, <1>7 DEF Custody

(* Every decision takes the same step.                                     *)
LEMMA StartBegins ==
    ASSUME NEW o \in Ops, Start(o)
    PROVE  MayBegin(o) /\ \E release : Begin(o, release)
<1>1. MayBegin(o)
  BY DEF Start
<1>2. CASE StartGenesis(o)
  BY ZenonT(40), <1>1, <1>2 DEF StartGenesis, ReleaseGenesis
<1>3. ASSUME NEW h \in ChainHead, NEW selected, StartAfter(o, h, selected)
      PROVE  \E release : Begin(o, release)
  <2>1. CASE \E blast \in BlastScores : Promote(o, h, selected, blast)
    BY <2>1 DEF Promote
  <2>2. CASE \E action \in {"advance", "recut"}, to \in Commits, claimed \in Claims, blast \in BlastScores :
                ReleaseRecurring(o, h, selected, action, to, claimed, blast)
    BY ZenonT(40), <2>2 DEF ReleaseRecurring
  <2> QED BY <1>3, <2>1, <2>2 DEF StartAfter
<1> QED BY <1>1, <1>2, <1>3 DEF Start

LEMMA StartCustody ==
    ASSUME ~Concurrent, TypeOK, Custody, NEW o \in Ops, Start(o)
    PROVE  Custody'
<1>1. PICK release : Begin(o, release)
  BY StartBegins
<1>2. pc[o] = "idle" /\ \A q \in Ops : ~InFlight(q)
  BY StartBegins DEF MayBegin, Quiet
<1>3. /\ pc'[o] = "decided" /\ \A q \in Ops \ {o} : pc'[q] = pc[q] /\ rel'[q] = rel[q]
      /\ refs' = refs /\ store' = store
  BY <1>1 DEF Begin, TypeOK
<1>4. OneInFlight'
  BY <1>2, <1>3 DEF OneInFlight, InFlight
<1>5. TagsOwned'
  BY <1>2, <1>3 DEF Custody, TagsOwned, WrittenBy, Wrote
<1>6. CheckedIsFree'
  BY <1>3 DEF Custody, CheckedIsFree
<1>7. HoldersHold'
  BY <1>3 DEF Custody, HoldersHold, WrittenBy, Holding
<1>8. SignedBinds'
  BY <1>3 DEF Custody, SignedBinds
<1>9. StoredInOrder'
  BY <1>2, <1>3 DEF Custody, StoredInOrder
<1> QED BY <1>4, <1>5, <1>6, <1>7, <1>8, <1>9 DEF Custody

LEMMA SetTagCustody ==
    ASSUME ~Concurrent, TypeOK, Custody, NEW o \in Ops, SetTag(o)
    PROVE  Custody'
<1>0. PICK name : name = rel[o].tag.name
  OBVIOUS
<1>1. /\ pc[o] = "checked" /\ pc'[o] = "tagged" /\ \A q \in Ops \ {o} : pc'[q] = pc[q]
      /\ rel' = rel /\ store' = store
  BY DEF SetTag, Goto, TypeOK
<1>2. name \notin DOMAIN refs
  BY <1>0, <1>1 DEF Custody, CheckedIsFree
<1>3. /\ DOMAIN refs' = DOMAIN refs \cup {name}
      /\ refs'[name] = [oid |-> o, commit |-> rel[o].to]
      /\ \A n \in DOMAIN refs : refs'[n] = refs[n]
  BY <1>0, <1>2 DEF SetTag, WithTag
<1>4. OneInFlight'
  BY <1>1 DEF Custody, OneInFlight, InFlight, InFlightPCs
<1>5. \A n \in DOMAIN refs, q \in Ops : WrittenBy(n, q) => WrittenBy(n, q)'
  BY <1>1, <1>3 DEF WrittenBy, Wrote
<1>6. WrittenBy(name, o)'
  BY <1>0, <1>1, <1>3 DEF WrittenBy, Wrote
<1>7. TagsOwned'
  <2>1. ASSUME NEW n \in DOMAIN refs
        PROVE  \/ Legacy # <<>> /\ Legacy[1].name = n /\ refs'[n].oid \notin Ops
               \/ \E q \in Ops : WrittenBy(n, q)'
    BY <1>3, <1>5 DEF Custody, TagsOwned
  <2> QED BY <1>3, <1>6, <2>1 DEF TagsOwned
<1>8. CheckedIsFree'
  <2>1. ASSUME NEW q \in Ops, pc'[q] = "checked" PROVE FALSE
    <3>1. q # o /\ pc[q] = "checked"
      BY <1>1, <2>1
    <3> QED BY <1>1, <3>1 DEF Custody, OneInFlight, InFlight, InFlightPCs
  <2> QED BY <2>1 DEF CheckedIsFree
<1>9. HoldersHold'
  <2>1. ASSUME NEW q \in Ops, pc'[q] \in Holding
        PROVE  rel'[q].tag.name \in DOMAIN refs' /\ WrittenBy(rel[q].tag.name, q)'
    <3>1. CASE q = o
      BY <1>0, <1>1, <1>3, <1>6, <3>1
    <3>2. CASE q # o
      <4>1. rel[q].tag.name \in DOMAIN refs /\ WrittenBy(rel[q].tag.name, q)
        BY <1>1, <2>1, <3>2 DEF Custody, HoldersHold
      <4> QED BY <1>1, <1>3, <1>5, <4>1
    <3> QED BY <3>1, <3>2
  <2> QED BY <1>1, <2>1 DEF HoldersHold, WrittenBy
<1>10. SignedBinds' /\ StoredInOrder'
  BY <1>1 DEF Custody, SignedBinds, StoredInOrder
<1> QED BY <1>4, <1>7, <1>8, <1>9, <1>10 DEF Custody

(* Nothing can have replaced or deleted the tag, so what is read back and  *)
(* signed is the object that was written.                                  *)
LEMMA BindCustody ==
    ASSUME TypeOK, Custody, NEW o \in Ops, BindAndSign(o)
    PROVE  Custody'
<1>0. PICK name : name = rel[o].tag.name
  OBVIOUS
<1>1. pc[o] = "tagged" /\ name \in DOMAIN refs /\ WrittenBy(name, o)
  BY <1>0 DEF BindAndSign, Custody, HoldersHold, Holding
<1>2. /\ pc'[o] = "signed" /\ \A q \in Ops \ {o} : pc'[q] = pc[q]
      /\ refs' = refs /\ store' = store
  BY <1>0, <1>1 DEF BindAndSign, Goto, TypeOK
<1>3. /\ rel'[o].tag = [name |-> name, oid |-> o, commit |-> rel[o].to]
      /\ rel'[o].to = rel[o].to
      /\ \A q \in Ops \ {o} : rel'[q] = rel[q]
  <2>1. DOMAIN rel[o] = ReleaseFields /\ DOMAIN rel = Ops
    BY <1>1 DEF TypeOK, ReleaseOK
  <2>2. BindingOf(name, refs[name]) = [name |-> name, oid |-> o, commit |-> rel[o].to]
    BY <1>1 DEF BindingOf, WrittenBy
  <2>3. rel' = [rel EXCEPT ![o].tag = BindingOf(name, refs[name])]
    BY <1>0, <1>1 DEF BindAndSign
  <2> QED BY <2>1, <2>2, <2>3 DEF ReleaseFields
<1>4. OneInFlight'
  BY <1>1, <1>2 DEF Custody, OneInFlight, InFlight, InFlightPCs
<1>5. \A q \in Ops : rel'[q].tag.name = rel[q].tag.name /\ rel'[q].to = rel[q].to
  BY <1>0, <1>3
<1>6. \A n \in DOMAIN refs, q \in Ops : WrittenBy(n, q) => WrittenBy(n, q)'
  BY <1>2, <1>5 DEF WrittenBy, Wrote
<1>7. TagsOwned'
  BY <1>2, <1>6 DEF Custody, TagsOwned
<1>8. CheckedIsFree'
  BY <1>2, <1>5 DEF Custody, CheckedIsFree
<1>9. HoldersHold'
  <2>1. ASSUME NEW q \in Ops, pc'[q] \in Holding
        PROVE  rel[q].tag.name \in DOMAIN refs /\ WrittenBy(rel[q].tag.name, q)
    BY <1>1, <1>2, <2>1 DEF Custody, HoldersHold, Holding
  <2> QED BY <1>2, <1>5, <2>1 DEF HoldersHold, WrittenBy, Wrote, Holding
<1>10. SignedBinds'
  BY <1>2, <1>3 DEF Custody, SignedBinds
<1>11. StoredInOrder'
  BY <1>1, <1>2 DEF Custody, StoredInOrder
<1> QED BY <1>4, <1>7, <1>8, <1>9, <1>10, <1>11 DEF Custody

(* Two invocations never hold one name, so a rollback deletes its own tag. *)
LEMMA RollbackCustody ==
    ASSUME TypeOK, Custody, NEW o \in Ops, Rollback(o)
    PROVE  Custody'
<1>0. PICK name : name = rel[o].tag.name
  OBVIOUS
<1>1. pc[o] = "rollback" /\ name \in DOMAIN refs /\ WrittenBy(name, o)
  BY <1>0 DEF Rollback, Custody, HoldersHold, Holding
<1>2. /\ pc'[o] = "failed" /\ \A q \in Ops \ {o} : pc'[q] = pc[q]
      /\ rel' = rel /\ store' = store
      /\ DOMAIN refs' = DOMAIN refs \ {name} /\ \A n \in DOMAIN refs' : refs'[n] = refs[n]
  BY <1>0, <1>1 DEF Rollback, Goto, WithoutTag, TypeOK
<1>3. OneInFlight'
  BY <1>2 DEF Custody, OneInFlight, InFlight, InFlightPCs
<1>4. \A n \in DOMAIN refs', q \in Ops : WrittenBy(n, q) => WrittenBy(n, q)'
  BY <1>0, <1>2 DEF WrittenBy, Wrote
<1>5. TagsOwned'
  BY <1>2, <1>4 DEF Custody, TagsOwned
<1>6. CheckedIsFree'
  BY <1>2 DEF Custody, CheckedIsFree
<1>7. HoldersHold'
  <2>1. ASSUME NEW q \in Ops, pc'[q] \in Holding
        PROVE  rel[q].tag.name \in DOMAIN refs' /\ WrittenBy(rel[q].tag.name, q)
    <3>1. q # o /\ pc[q] \in Holding
      BY <1>2, <2>1 DEF Holding
    <3>2. rel[q].tag.name \in DOMAIN refs /\ WrittenBy(rel[q].tag.name, q)
      BY <3>1 DEF Custody, HoldersHold
    <3>3. rel[q].tag.name # name
      BY <1>1, <3>1, <3>2 DEF WrittenBy
    <3> QED BY <1>2, <3>2, <3>3
  <2> QED BY <1>2, <2>1 DEF HoldersHold, WrittenBy, Wrote, Holding
<1>8. SignedBinds' /\ StoredInOrder'
  BY <1>2 DEF Custody, SignedBinds, StoredInOrder
<1> QED BY <1>3, <1>5, <1>6, <1>7, <1>8 DEF Custody

LEMMA StepCustody ==
    ASSUME ~Concurrent, TypeOK, Custody, NEW o \in Ops, Step(o)
    PROVE  Custody'
<1> USE DEF Wrote, Holding, InFlight, InFlightPCs
<1>1. CASE LookupTag(o)
  <2>1. PICK label \in {"failed", "checked"} :
          Goto(o, label) /\ (label = "checked" => rel[o].tag.name \notin DOMAIN refs)
    BY <1>1 DEF LookupTag
  <2>2. pc[o] = "decided" /\ UNCHANGED <<refs, rel, store>> /\ store[o] = {}
    BY <1>1 DEF LookupTag, Custody, StoredInOrder
  <2> QED BY <2>1, <2>2, MoveCustody
<1>2. CASE SetTag(o)
  BY <1>2, SetTagCustody
<1>3. CASE BindAndSign(o)
  BY <1>3, BindCustody
<1>4. CASE PutUnderCommit(o)
  <2>1. pc[o] = "signed" /\ Goto(o, "half") /\ UNCHANGED <<refs, rel>> /\ store[o] = {}
    BY <1>4 DEF PutUnderCommit, Custody, StoredInOrder
  <2>2. store'[o] = {"commit"} /\ \A q \in Ops \ {o} : store'[q] = store[q]
    BY <1>4, <2>1 DEF PutUnderCommit, TypeOK
  <2> QED BY <2>1, <2>2, MoveCustody
<1>5. CASE PutUnderTag(o)
  <2>1. pc[o] = "half" /\ Goto(o, "done") /\ UNCHANGED <<refs, rel>> /\ store[o] = {"commit"}
    BY <1>5 DEF PutUnderTag, Custody, StoredInOrder
  <2>2. store'[o] = Subjects /\ \A q \in Ops \ {o} : store'[q] = store[q]
    BY <1>5, <2>1 DEF PutUnderTag, TypeOK, Subjects
  <2> QED BY <2>1, <2>2, MoveCustody
<1>6. CASE SignFails(o) \/ PutUnderCommitFails(o) \/ PutUnderTagFails(o)
  <2>1. /\ pc[o] \in {"tagged", "signed", "half"} /\ Goto(o, "rollback")
        /\ UNCHANGED <<refs, store, rel>>
    BY <1>6 DEF SignFails, PutUnderCommitFails, PutUnderTagFails, Failing
  <2> QED BY <2>1, MoveCustody
<1>7. CASE Rollback(o)
  BY <1>7, RollbackCustody
<1>8. CASE RollbackFails(o)
  <2>1. pc[o] = "rollback" /\ Goto(o, "stranded") /\ UNCHANGED <<refs, store, rel>>
    BY <1>8 DEF RollbackFails
  <2> QED BY <2>1, MoveCustody
<1>9. CASE SignTagFails(o)
  <2>1. pc[o] = "checked" /\ Goto(o, "failed") /\ UNCHANGED <<refs, store, rel>> /\ store[o] = {}
    BY <1>9 DEF SignTagFails, Custody, StoredInOrder
  <2> QED BY <2>1, MoveCustody
<1> QED BY <1>1, <1>2, <1>3, <1>4, <1>5, <1>6, <1>7, <1>8, <1>9 DEF Step

LEMMA DeleteOrphanCustody ==
    ASSUME TypeOK, Custody, NEW name \in DOMAIN refs, DeleteOrphanTag(name)
    PROVE  Custody'
<1>1. /\ UNCHANGED <<store, pc, rel>> /\ \A q \in Ops : ~InFlight(q)
      /\ DOMAIN refs' = DOMAIN refs \ {name} /\ \A n \in DOMAIN refs' : refs'[n] = refs[n]
  BY DEF DeleteOrphanTag, WithoutTag
<1>2. \A n \in DOMAIN refs', q \in Ops : WrittenBy(n, q) => WrittenBy(n, q)'
  BY <1>1 DEF WrittenBy
<1>3. TagsOwned'
  BY <1>1, <1>2 DEF Custody, TagsOwned
<1>4. HoldersHold'
  <2>1. ASSUME NEW q \in Ops, pc[q] \in Holding
        PROVE  rel[q].tag.name \in DOMAIN refs' /\ WrittenBy(rel[q].tag.name, q)
    <3>1. pc[q] = "done"
      BY <1>1, <2>1 DEF Holding, InFlight, InFlightPCs
    <3>2. q \in Stored
      BY <3>1 DEF Custody, StoredInOrder, Stored, Subjects
    <3>3. rel[q].tag.name # name
      BY <3>2 DEF DeleteOrphanTag, Orphan
    <3> QED BY <1>1, <2>1, <3>3 DEF Custody, HoldersHold
  <2> QED BY <1>1, <2>1 DEF HoldersHold, WrittenBy
<1>5. OneInFlight' /\ CheckedIsFree' /\ SignedBinds' /\ StoredInOrder'
  BY <1>1 DEF Custody, OneInFlight, InFlight, CheckedIsFree, SignedBinds, StoredInOrder
<1> QED BY <1>3, <1>4, <1>5 DEF Custody

LEMMA CustodyNext ==
    ASSUME ~Concurrent
    PROVE  TypeOK /\ Custody /\ [Next]_vars => Custody'
<1> SUFFICES ASSUME TypeOK, Custody, [Next]_vars PROVE Custody'
  OBVIOUS
<1> USE DEF Custody, OneInFlight, InFlight, TagsOwned, WrittenBy, CheckedIsFree, HoldersHold,
            SignedBinds
<1>1. ASSUME NEW p, NEW to, NEW kind, AttestReview(p, to, kind)
      PROVE  Custody'
  BY <1>1 DEF AttestReview, StoredInOrder
<1>2. ASSUME NEW o \in Ops, Start(o)
      PROVE  Custody'
  BY <1>2, StartCustody
<1>3. ASSUME NEW o \in Ops, Step(o)
      PROVE  Custody'
  BY <1>3, StepCustody
<1>4. ASSUME NEW o \in Ops, Crash(o)
      PROVE  Custody'
  <2>1. InFlight(o) /\ Goto(o, "dead") /\ UNCHANGED <<refs, rel, store>>
    BY <1>4 DEF Crash
  <2> QED BY <2>1, MoveCustody DEF Wrote, Holding
<1>5. ASSUME NEW o \in Ops, PruneAttestation(o)
      PROVE  Custody'
  <2>1. /\ UNCHANGED <<refs, pc, rel>>
        /\ \A q \in Ops : pc[q] \notin {"failed", "stranded"} => store'[q] = store[q]
    BY <1>5 DEF PruneAttestation, Partial, TypeOK
  <2>2. StoredInOrder'
    BY <2>1 DEF StoredInOrder
  <2> QED BY <2>1, <2>2
<1>6. ASSUME NEW name \in DOMAIN refs, DeleteOrphanTag(name)
      PROVE  Custody'
  BY <1>6, DeleteOrphanCustody
<1>7. CASE UNCHANGED vars
  BY <1>7 DEF vars, StoredInOrder
<1> QED BY <1>1, <1>2, <1>3, <1>4, <1>5, <1>6, <1>7 DEF Next

LEMMA CustodyHolds ==
    ASSUME ~Concurrent
    PROVE  Spec => [](TypeOK /\ Custody)
<1>1. Init => TypeOK /\ Custody
  BY TypeInit, CustodyInit
<1>2. (TypeOK /\ Custody) /\ [Next]_vars => (TypeOK /\ Custody)'
  BY TypeNext, CustodyNext
<1> QED BY <1>1, <1>2, PTL DEF Spec

(* With one command at a time, a command that reported success stays:      *)
(* both copies of its attestation are stored and its tag is the object it  *)
(* signed for, whatever later commands do, wherever they fail or die, and  *)
(* even if a rollback cannot delete its own tag.                           *)
THEOREM SuccessIsDurable ==
    ASSUME ~Concurrent
    PROVE  Spec => []DoneIsDurable
<1>1. TypeOK /\ Custody => DoneIsDurable
  <2> SUFFICES ASSUME TypeOK, Custody, NEW o \in Ops, pc[o] = "done"
               PROVE  store[o] = Subjects /\ Bound(rel[o].tag, refs)
    BY DEF DoneIsDurable
  <2>1. rel[o].tag.name \in DOMAIN refs /\ WrittenBy(rel[o].tag.name, o)
    BY DEF Custody, HoldersHold, Holding
  <2>2. rel[o].tag.oid = o /\ rel[o].tag.commit = rel[o].to /\ store[o] = Subjects
    BY DEF Custody, SignedBinds, StoredInOrder
  <2> QED BY <2>1, <2>2 DEF Bound, WrittenBy
<1> QED BY <1>1, CustodyHolds, PTL

(* With one command at a time, no release tag is ever overwritten: the     *)
(* lookup and the write of CreateSignedTag, two separate steps, are enough.*)
THEOREM SerialTagsNeverMove ==
    ASSUME ~Concurrent
    PROVE  Spec => TagNeverMoves
<1>1. TypeOK /\ Custody /\ [Next]_vars => [TagKeepsObject]_refs
  <2> SUFFICES ASSUME TypeOK, Custody, [Next]_vars, refs' # refs
               PROVE  TagKeepsObject
    OBVIOUS
  <2>1. ASSUME NEW o \in Ops, SetTag(o) PROVE TagKeepsObject
    <3>1. rel[o].tag.name \notin DOMAIN refs
      BY <2>1 DEF SetTag, Custody, CheckedIsFree
    <3> QED BY <2>1, <3>1 DEF SetTag, WithTag, TagKeepsObject
  <2>2. ASSUME NEW o \in Ops, Rollback(o) PROVE TagKeepsObject
    BY <2>2 DEF Rollback, WithoutTag, TagKeepsObject
  <2>3. ASSUME NEW name \in DOMAIN refs, DeleteOrphanTag(name) PROVE TagKeepsObject
    BY <2>3 DEF DeleteOrphanTag, WithoutTag, TagKeepsObject
  <2>4. ASSUME NEW o \in Ops, Start(o) PROVE refs' = refs
    BY <2>4, StartBegins DEF Begin
  <2>5. ASSUME NEW o \in Ops, Step(o), ~SetTag(o), ~Rollback(o) PROVE refs' = refs
    BY <2>5 DEF Step, LookupTag, SignTagFails, BindAndSign, SignFails, PutUnderCommit, PutUnderCommitFails,
                PutUnderTag, PutUnderTagFails, RollbackFails, Failing
  <2> QED BY <2>1, <2>2, <2>3, <2>4, <2>5
          DEF Next, AttestReview, Crash, PruneAttestation, vars
<1> QED BY <1>1, CustodyHolds, PTL DEF Spec, TagNeverMoves

(* Whoever wrote an existing tag still runs, has succeeded, or ended       *)
(* without undoing it: a command that reported its rollback left no tag.   *)
Leaving == {"dead", "stranded"}
TagsKept == \A n \in DOMAIN refs, o \in Ops : refs[n].oid = o => pc[o] \in Holding \cup Leaving

LEMMA TagsKeptNext ==
    ASSUME TypeOK, Custody, TagsKept, [Next]_vars
    PROVE  TagsKept'
<1>1. ASSUME NEW o \in Ops, NEW label \in PCs, Goto(o, label), UNCHANGED refs,
             pc[o] \in Holding \cup Leaving => label \in Holding \cup Leaving
      PROVE  TagsKept'
  BY <1>1 DEF TagsKept, Goto, TypeOK
<1>2. ASSUME NEW o \in Ops, Start(o) PROVE TagsKept'
  <2>1. Goto(o, "decided") /\ UNCHANGED refs /\ pc[o] = "idle"
    BY <1>2, StartBegins DEF Begin, MayBegin, Goto
  <2> QED BY <1>1, <2>1 DEF PCs, InFlightPCs, Holding, Leaving
<1>3. ASSUME NEW o \in Ops, SetTag(o) PROVE TagsKept'
  <2>1. /\ pc'[o] = "tagged" /\ pc[o] = "checked" /\ \A q \in Ops \ {o} : pc'[q] = pc[q]
        /\ DOMAIN refs' = DOMAIN refs \cup {rel[o].tag.name}
        /\ \A n \in DOMAIN refs' : (refs'[n] = refs[n] /\ n \in DOMAIN refs) \/ refs'[n].oid = o
    BY <1>3 DEF SetTag, WithTag, Goto, TypeOK
  <2> QED BY <2>1 DEF TagsKept, Holding
<1>4. ASSUME NEW o \in Ops, Rollback(o) PROVE TagsKept'
  <2>1. /\ pc[o] = "rollback" /\ \A q \in Ops \ {o} : pc'[q] = pc[q]
        /\ DOMAIN refs' = DOMAIN refs \ {rel[o].tag.name}
        /\ \A n \in DOMAIN refs' : refs'[n] = refs[n]
    BY <1>4 DEF Rollback, WithoutTag, Goto, TypeOK
  <2>2. ASSUME NEW n \in DOMAIN refs, refs[n].oid = o PROVE n = rel[o].tag.name
    BY <2>2 DEF Custody, TagsOwned, WrittenBy
  <2> QED BY <2>1, <2>2 DEF TagsKept
<1>5. ASSUME NEW o \in Ops, Step(o), ~SetTag(o), ~Rollback(o) PROVE TagsKept'
  <2>1. PICK label \in PCs :
          Goto(o, label) /\ (pc[o] \in Holding \cup Leaving => label \in Holding \cup Leaving)
    BY <1>5
    DEF Step, LookupTag, SignTagFails, BindAndSign, SignFails, PutUnderCommit, PutUnderCommitFails, PutUnderTag,
        PutUnderTagFails, RollbackFails, Failing, PCs, InFlightPCs, Holding, Leaving
  <2>2. refs' = refs
    BY <1>5 DEF Step, LookupTag, SignTagFails, BindAndSign, SignFails, PutUnderCommit, PutUnderCommitFails,
                PutUnderTag, PutUnderTagFails, RollbackFails, Failing
  <2> QED BY <1>1, <2>1, <2>2
<1>6. ASSUME NEW name \in DOMAIN refs, DeleteOrphanTag(name) PROVE TagsKept'
  BY <1>6 DEF DeleteOrphanTag, WithoutTag, TagsKept
<1>7. ASSUME NEW o \in Ops, Crash(o) PROVE TagsKept'
  <2>1. Goto(o, "dead") /\ UNCHANGED refs
    BY <1>7 DEF Crash
  <2> QED BY <1>1, <2>1 DEF PCs, Leaving
<1> QED BY <1>2, <1>3, <1>4, <1>5, <1>6, <1>7
        DEF Next, AttestReview, PruneAttestation, vars, TagsKept

(* The rollback keeps its purpose: with one command at a time, no tag ever *)
(* exists without a running command, a command that died or could not      *)
(* delete it, or a stored attestation that binds it, however many signings *)
(* and store writes fail.                                                  *)
THEOREM RollbackLeavesNoOrphan ==
    ASSUME ~Concurrent
    PROVE  Spec => []NoOrphanTag
<1>1. Init => TagsKept
  BY CustodyInit DEF Init, TagsKept, Custody, TagsOwned, WrittenBy, Wrote
<1>2. (TypeOK /\ Custody) /\ TagsKept /\ [Next]_vars => TagsKept'
  BY TagsKeptNext
<1>3. TypeOK /\ Custody /\ TagsKept => NoOrphanTag
  <2> SUFFICES ASSUME TypeOK, Custody, TagsKept, NEW n \in DOMAIN refs,
                      NEW o \in Ops, WrittenBy(n, o)
               PROVE  \/ (InFlight(o) \/ pc[o] \in {"dead", "stranded"}) /\ rel[o].tag.name = n
                      \/ o \in Stored /\ Bound(rel[o].tag, refs) /\ rel[o].tag.name = n
    BY DEF NoOrphanTag, Custody, TagsOwned, Stored
  <2>1. pc[o] \in Holding \cup Leaving /\ rel[o].tag.name = n
    BY DEF TagsKept, WrittenBy
  <2>2. CASE pc[o] # "done"
    BY <2>1, <2>2 DEF Holding, Leaving, InFlight, InFlightPCs
  <2>3. CASE pc[o] = "done"
    <3>1. rel[o].tag.oid = o /\ rel[o].tag.commit = rel[o].to /\ store[o] = Subjects
      BY <2>3 DEF Custody, SignedBinds, StoredInOrder
    <3> QED BY <2>1, <3>1 DEF Bound, WrittenBy, Stored, Subjects
  <2> QED BY <2>1, <2>2, <2>3
<1> QED BY <1>1, <1>2, <1>3, CustodyHolds, PTL DEF Spec

(* ---- What a decision leaves in the chain. ---- *)

(* A name that follows another one: of a larger core, or of the same core  *)
(* while it has no clean tag, at a lower level or a later iteration.  This *)
(* is VersionFollows made transitive.                                      *)
NameFollows(old, new) ==
    \/ CoreLess(old.core, new.core)
    \/ /\ old.core = new.core
       /\ ~IsClean(old)
       /\ ~IsClean(new) =>
             \/ LevelOf(new) < LevelOf(old)
             \/ LevelOf(new) = LevelOf(old) /\ IterationOf(old) < IterationOf(new)

(* A name has a core of three numbers, and a pre-release a level and an    *)
(* iteration.                                                              *)
LEMMA NameParts ==
    ASSUME NEW n \in Name
    PROVE  /\ n.core[1] \in Nat /\ n.core[2] \in Nat /\ n.core[3] \in Nat
           /\ ~IsClean(n) => LevelOf(n) \in Levels /\ IterationOf(n) \in Nat
<1>1. n.core[1] \in Nat /\ n.core[2] \in Nat /\ n.core[3] \in Nat
  BY DEF Name, Core
<1>2. ASSUME ~IsClean(n) PROVE LevelOf(n) \in Levels /\ IterationOf(n) \in Nat
  <2>1. n.suffix \in Levels \X (Nat \ {0})
    BY <1>2 DEF Name, Suffix, IsClean
  <2> QED BY <2>1 DEF LevelOf, IterationOf
<1> QED BY <1>1, <1>2

(* Following is transitive: what the checks of one release against the one *)
(* before it say of the whole chain.                                       *)
LEMMA FollowsTransitive ==
    ASSUME NEW a \in Name, NEW b \in Name, NEW c \in Name, NameFollows(a, b), NameFollows(b, c)
    PROVE  NameFollows(a, c)
<1>1. /\ a.core[1] \in Nat /\ a.core[2] \in Nat /\ a.core[3] \in Nat
      /\ b.core[1] \in Nat /\ b.core[2] \in Nat /\ b.core[3] \in Nat
      /\ c.core[1] \in Nat /\ c.core[2] \in Nat /\ c.core[3] \in Nat
  BY NameParts
<1>2. CASE CoreLess(a.core, b.core) \/ CoreLess(b.core, c.core)
  <2>1. CoreLess(a.core, c.core)
    BY <1>1, <1>2 DEF NameFollows, CoreLess
  <2> QED BY <2>1 DEF NameFollows
<1>3. CASE ~CoreLess(a.core, b.core) /\ ~CoreLess(b.core, c.core)
  <2>1. a.core = c.core /\ ~IsClean(a) /\ ~IsClean(b)
    BY <1>3 DEF NameFollows
  <2>2. ASSUME ~IsClean(c)
        PROVE  \/ LevelOf(c) < LevelOf(a)
               \/ LevelOf(c) = LevelOf(a) /\ IterationOf(a) < IterationOf(c)
    <3>1. /\ LevelOf(a) \in Levels /\ LevelOf(b) \in Levels /\ LevelOf(c) \in Levels
          /\ IterationOf(a) \in Nat /\ IterationOf(b) \in Nat /\ IterationOf(c) \in Nat
      BY <2>1, <2>2, NameParts
    <3>2. LevelOf(b) < LevelOf(a) \/ (LevelOf(b) = LevelOf(a) /\ IterationOf(a) < IterationOf(b))
      BY <1>3, <2>1 DEF NameFollows
    <3>3. LevelOf(c) < LevelOf(b) \/ (LevelOf(c) = LevelOf(b) /\ IterationOf(b) < IterationOf(c))
      BY <1>3, <2>1, <2>2 DEF NameFollows
    <3> QED BY <3>1, <3>2, <3>3 DEF Levels
  <2> QED BY <2>1, <2>2 DEF NameFollows
<1> QED BY <1>2, <1>3

(* Every bump leads to a larger core. *)
LEMMA BumpCoreGreater ==
    ASSUME NEW core \in Core, NEW bump \in Bumps
    PROVE  CoreLess(core, BumpCore(core, bump))
<1>1. core[1] \in Nat /\ core[2] \in Nat /\ core[3] \in Nat
  BY DEF Core
<1>2. CASE bump = Major BY <1>1, <1>2 DEF BumpCore, CoreLess, Major, MinorBump, Patch
<1>3. CASE bump = MinorBump BY <1>1, <1>3 DEF BumpCore, CoreLess, Major, MinorBump, Patch
<1>4. CASE bump = Patch BY <1>1, <1>4 DEF BumpCore, CoreLess, Major, MinorBump, Patch
<1> QED BY <1>2, <1>3, <1>4 DEF Bumps

(* A clean tag is emitted only at or above the threshold, and a pre-release*)
(* tag names the level it was decided at.                                  *)
TagSays(name, d) ==
    /\ IsClean(name) => d.threshold <= d.effective
    /\ ~IsClean(name) => LevelOf(name) = d.effective

(* What an emission says: the target core, the level, and the next         *)
(* iteration.                                                              *)
Saying(e, core, d, iterations) ==
    e.ok => /\ e.name[1].core = core
            /\ TagSays(e.name[1], d)
            /\ ~IsClean(e.name[1]) =>
                  IterationOf(e.name[1]) = IterationAt(iterations, d.effective) + 1

(* Emit says that, whenever the decision resolves. *)
LEMMA EmittedSays ==
    ASSUME NEW core \in Core, NEW d \in DecisionInputs, Resolved(d), NEW iterations,
           Iterations(iterations), NEW tags
    PROVE  Saying(Emit(core, d, iterations, FALSE, tags), core, d, iterations)
<1> SUFFICES ASSUME Emit(core, d, iterations, FALSE, tags).ok
             PROVE  Saying(Emit(core, d, iterations, FALSE, tags), core, d, iterations)
  BY DEF Saying
<1> DEFINE n == EmittedName(core, d, iterations, FALSE)
<1>1. Emit(core, d, iterations, FALSE, tags).name = n
  BY DEF Emit, Refused, Verified
<1>2. PICK next : next = IterationAt(iterations, d.effective) + 1
  OBVIOUS
<1>3. CASE Channel(d) = "clean"
  <2>1. ~Demoted(d)
    BY <1>3 DEF Channel, Resolved
  <2>2. d.threshold <= d.effective
    BY <2>1 DEF Demoted, DecisionInputs, Levels
  <2>3. n = << CleanName(core) >>
    BY <1>3 DEF EmittedName
  <2>4. CleanName(core).core = core /\ IsClean(CleanName(core))
    BY DEF CleanName, IsClean
  <2> HIDE DEF n
  <2>5. n[1].core = core /\ IsClean(n[1])
    BY <2>3, <2>4
  <2> QED BY <1>1, <2>2, <2>5 DEF TagSays, Saying
<1>4. CASE Channel(d) # "clean"
  <2>1. n = << PrereleaseName(core, d.effective, next) >>
    BY <1>2, <1>4 DEF EmittedName
  <2>2. /\ PrereleaseName(core, d.effective, next).core = core
        /\ ~IsClean(PrereleaseName(core, d.effective, next))
        /\ LevelOf(PrereleaseName(core, d.effective, next)) = d.effective
        /\ IterationOf(PrereleaseName(core, d.effective, next)) = next
    BY DEF PrereleaseName, IsClean, LevelOf, IterationOf
  <2> HIDE DEF n
  <2>3. /\ n[1].core = core /\ ~IsClean(n[1]) /\ LevelOf(n[1]) = d.effective
        /\ IterationOf(n[1]) = next
    BY <2>1, <2>2
  <2> QED BY <1>1, <1>2, <2>3 DEF TagSays, Saying
<1> QED BY <1>3, <1>4

(* A selected release whose state says of its tag what the tag says.       *)
StateOfTag(selected) ==
    /\ selected.tag.name \in Name
    /\ selected.state.cleanAccepted = IsClean(selected.tag.name)
    /\ selected.state.iterations = IterationsOf(selected.tag.name)

(* An advance or a recut after a selected release follows its tag, says    *)
(* what the decision says, and does not rise above an unfinished target.   *)
LEMMA PredecessorFollows ==
    ASSUME NEW selected, SelectedOK(selected), StateOfTag(selected),
           NEW action \in {"advance", "recut"}, NEW to, NEW d \in DecisionInputs, NEW tags,
           PredecessorAncestry(selected, action, to, d, FALSE, tags).ok
    PROVE  LET e == PredecessorAncestry(selected, action, to, d, FALSE, tags)
               old == selected.tag.name
           IN  /\ PredecessorUsable(selected, to, tags)
               /\ NameFollows(old, e.name[1])
               /\ TagSays(e.name[1], d)
               /\ ~IsClean(old) => d.effective <= LevelOf(old)
<1> DEFINE st == selected.state
           da == IF action = "advance" THEN WithCorrectiveFloor(d, st.correctiveFloor) ELSE d
           e == PredecessorAncestry(selected, action, to, d, FALSE, tags)
           old == selected.tag.name
<1>1. /\ PredecessorUsable(selected, to, tags) /\ Resolved(d) /\ Resolved(da)
      /\ action = "recut" => RecutOK(st, d)
      /\ LineageTrustOK(selected, action, d, FALSE)
      /\ e.ok
      /\ e = IF action = "advance"
             THEN Emit(BumpCore(st.targetCore, EffectiveBump(da)), da, NoIterations, FALSE, tags)
             ELSE Emit(st.targetCore, d, st.iterations, FALSE, tags)
  BY DEF PredecessorAncestry, Refused
<1>2. old.core = st.targetCore /\ st.targetCore \in Core
  BY <1>1 DEF PredecessorUsable, StateConsistent, SelectedOK
<1>3. action = "recut" => ~IsClean(old)
  BY <1>1 DEF RecutOK, StateOfTag
<1>4. ~IsClean(old) => d.effective <= LevelOf(old)
  BY <1>1 DEF LineageTrustOK, StateOfTag
<1>5. CASE action = "advance"
  <2>1. da \in DecisionInputs /\ da.effective = d.effective /\ da.threshold = d.threshold
    <3>1. CASE st.correctiveFloor = <<>>
      BY <1>5, <3>1 DEF WithCorrectiveFloor
    <3>2. CASE st.correctiveFloor # <<>>
      <4>1. st.correctiveFloor[1] \in Bumps
        BY <3>2 DEF SelectedOK, FloorOK
      <4>2. Larger(d.floor, st.correctiveFloor[1]) \in Bumps
        BY <4>1 DEF Larger, DecisionInputs
      <4>3. da = [d EXCEPT !.floor = Larger(d.floor, st.correctiveFloor[1])]
        BY <1>5, <3>2 DEF WithCorrectiveFloor
      <4> QED BY <4>2, <4>3 DEF DecisionInputs
    <3> QED BY <3>1, <3>2
  <2> DEFINE core == BumpCore(st.targetCore, EffectiveBump(da))
  <2>2. EffectiveBump(da) \in Bumps
    BY <2>1, EffectiveBumpType
  <2>3. core \in Core /\ CoreLess(st.targetCore, core)
    BY <1>2, <2>2, BumpCoreType, BumpCoreGreater
  <2>4. Iterations(NoIterations)
    BY DEF Iterations, NoIterations
  <2>5. e = Emit(core, da, NoIterations, FALSE, tags)
    BY <1>1, <1>5
  <2>8. e.ok /\ Resolved(da)
    BY <1>1
  <2> HIDE DEF core, da, e
  <2>9. Saying(Emit(core, da, NoIterations, FALSE, tags), core, da, NoIterations)
    BY <2>1, <2>3, <2>4, <2>8, EmittedSays
  <2>10. Saying(e, core, da, NoIterations)
    BY <2>5, <2>9
  <2>6. e.name[1].core = core /\ TagSays(e.name[1], da)
    BY <2>10, <2>8 DEF Saying
  <2>7. NameFollows(old, e.name[1]) /\ TagSays(e.name[1], d)
    BY <1>2, <2>1, <2>3, <2>6 DEF NameFollows, TagSays
  <2> QED BY <1>1, <1>4, <2>7 DEF e
<1>6. CASE action = "recut"
  <2>1. Iterations(st.iterations)
    BY DEF SelectedOK
  <2>2. e = Emit(st.targetCore, d, st.iterations, FALSE, tags)
    BY <1>1, <1>6
  <2>6. e.ok /\ Resolved(d) /\ st.targetCore \in Core
    BY <1>1, <1>2
  <2> HIDE DEF e, st
  <2>3. /\ e.name[1].core = st.targetCore /\ TagSays(e.name[1], d)
        /\ ~IsClean(e.name[1]) => IterationOf(e.name[1]) = IterationAt(st.iterations, d.effective) + 1
    <3>1. Saying(Emit(st.targetCore, d, st.iterations, FALSE, tags), st.targetCore, d, st.iterations)
      BY <2>1, <2>6, EmittedSays
    <3>2. Saying(e, st.targetCore, d, st.iterations)
      BY <2>2, <3>1
    <3> QED BY <2>6, <3>2 DEF Saying
  <2>4. ASSUME ~IsClean(e.name[1])
        PROVE  \/ LevelOf(e.name[1]) < LevelOf(old)
               \/ LevelOf(e.name[1]) = LevelOf(old) /\ IterationOf(old) < IterationOf(e.name[1])
    <3>1. LevelOf(old) \in Levels /\ IterationOf(old) \in Nat /\ d.effective \in Levels
      BY <1>3, <1>6, NameParts DEF StateOfTag, DecisionInputs
    <3>2. LevelOf(e.name[1]) = d.effective
      BY <2>3, <2>4 DEF TagSays
    <3>3. d.effective = LevelOf(old) => IterationAt(st.iterations, d.effective) = IterationOf(old)
      BY <1>3, <1>6 DEF StateOfTag, IterationsOf, IterationAt, st
    <3> QED BY <1>3, <1>4, <1>6, <2>3, <2>4, <3>1, <3>2, <3>3 DEF Levels
  <2>5. NameFollows(old, e.name[1])
    BY <1>2, <1>3, <1>6, <2>3, <2>4 DEF NameFollows
  <2> QED BY <1>1, <1>4, <2>3, <2>5 DEF e
<1> QED BY <1>5, <1>6

(* So does a first release. *)
LEMMA BootstrapSays ==
    ASSUME NEW to \in Commits, NEW d \in DecisionInputs, NEW tags,
           BootstrapAncestry(Legacy, Boundary, to, d, tags).ok
    PROVE  TagSays(BootstrapAncestry(Legacy, Boundary, to, d, tags).name[1], d)
<1> DEFINE base == IF Legacy = <<>> THEN ZeroCore ELSE Legacy[1].name.core
           core == BumpCore(base, EffectiveBump(d))
           e == BootstrapAncestry(Legacy, Boundary, to, d, tags)
<1>1. base \in Core
  BY LegacyAssumption DEF ZeroCore, Core
<1>2. core \in Core
  BY <1>1, EffectiveBumpType, BumpCoreType
<1>3. Iterations(NoIterations)
  BY DEF Iterations, NoIterations
<1>4. Resolved(d) /\ e.ok /\ e = Emit(core, d, NoIterations, FALSE, tags)
  BY DEF BootstrapAncestry, Refused
<1> HIDE DEF core, base, e
<1>5. TagSays(e.name[1], d)
  BY <1>2, <1>3, <1>4, EmittedSays DEF Saying
<1> QED BY <1>5 DEF e

(* A sequence, whatever its elements; and the version state a release      *)
(* signs.                                                                  *)
IsSequence(s) == s \in Seq({s[i] : i \in DOMAIN s})
StateOf(r) == r.result[Len(r.prior) + 1]

(* The version states a release signs: it appends one to those it read,    *)
(* the one the reader will reconstruct.                                    *)
AppendsState(r) ==
    /\ IsSequence(r.prior)
    /\ r.result = Append(r.prior, StateOf(r))
    /\ StateOf(r) = ReconstructState(r, StateOf(r).baseline)
    /\ StateOf(r).baseline =
         IF r.action = "advance" THEN r.pred ELSE r.prior[Len(r.prior)].baseline

(* A first release starts from nothing and covers what the descriptor      *)
(* says.                                                                   *)
FirstDecision(r) ==
    /\ r.prior = <<>> /\ r.action = "advance"
    /\ GenesisIntervalOK(Boundary, r.to)
    /\ r.provenance = GenesisInterval(Boundary, r.to)

(* A later release names the tag it read, goes forward from it, and covers *)
(* the interval after it; a promotion stays on its commit.                 *)
LaterDecision(r) ==
    \E old \in {r.pred[1]} :
        /\ r.prior # <<>> /\ r.pred = << old >>
        /\ NameFollows(old.name, r.tag.name)
        /\ IF r.action = "supersede"
           THEN r.to = old.commit /\ IsClean(r.tag.name)
           ELSE /\ RecurringIntervalOK(old.commit, r.to)
                /\ r.provenance = RecurringInterval(old.commit, r.to)
                /\ ~IsClean(old.name) => r.effective <= LevelOf(old.name)

(* The recorded level is the one of the tag name, and a clean tag meets    *)
(* the threshold.                                                          *)
LevelRecorded(r) ==
    /\ ~IsClean(r.tag.name) => r.effective = LevelOf(r.tag.name)
    /\ IsClean(r.tag.name) /\ r.action # "supersede" => Threshold <= r.effective

(* What every decision leaves in the statement it signs. *)
Decision(r) ==
    /\ AppendsState(r)
    /\ IF r.genesis THEN FirstDecision(r) ELSE LaterDecision(r)
    /\ LevelRecorded(r)

Decisions == \A o \in Ops : pc[o] # "idle" => Decision(rel[o])

(* What of a release is decided when its command begins; the tag's object  *)
(* is bound later.                                                         *)
SameDecision(r, s) ==
    /\ s.action = r.action /\ s.genesis = r.genesis /\ s.to = r.to
    /\ s.provenance = r.provenance /\ s.pred = r.pred
    /\ s.prior = r.prior /\ s.result = r.result
    /\ s.targetCore = r.targetCore /\ s.targetBump = r.targetBump
    /\ s.targetIntervals = r.targetIntervals /\ s.correctiveFloor = r.correctiveFloor
    /\ s.supersedes = r.supersedes /\ s.effective = r.effective
    /\ s.tag.name = r.tag.name

(* None of it depends on the object that is bound later. *)
LEMMA DecisionKept ==
    ASSUME NEW r, NEW s, Decision(r), SameDecision(r, s)
    PROVE  Decision(s)
<1>1. AppendsState(s)
  BY DEF Decision, SameDecision, AppendsState, StateOf, ReconstructState
<1>2. IF s.genesis THEN FirstDecision(s) ELSE LaterDecision(s)
  BY DEF Decision, SameDecision, FirstDecision, LaterDecision
<1>3. LevelRecorded(s)
  BY DEF Decision, SameDecision, LevelRecorded
<1> QED BY <1>1, <1>2, <1>3 DEF Decision

(* A step of one invocation leaves the decisions of all as they are.       *)
LEMMA StepKeepsDecisions ==
    ASSUME TypeOK, NEW o \in Ops, Step(o) \/ Crash(o), NEW q \in Ops
    PROVE  /\ pc[o] # "idle" /\ pc'[o] # "idle" /\ (q # o => pc'[q] = pc[q] /\ rel'[q] = rel[q])
           /\ SameDecision(rel[q], rel'[q])
<1>1. CASE BindAndSign(o)
  <2>1. pc[o] = "tagged" /\ DOMAIN rel = Ops /\ DOMAIN rel[o] = ReleaseFields
    BY <1>1 DEF BindAndSign, TypeOK, ReleaseOK
  <2>2. pc'[o] \in {"signed", "rollback"} /\ (q # o => pc'[q] = pc[q])
    BY <1>1 DEF BindAndSign, Goto, TypeOK
  <2>3. CASE rel[o].tag.name \notin DOMAIN refs
    BY <1>1, <2>1, <2>2, <2>3 DEF BindAndSign, SameDecision
  <2>4. CASE rel[o].tag.name \in DOMAIN refs
    <3>1. PICK binding : binding = BindingOf(rel[o].tag.name, refs[rel[o].tag.name])
      OBVIOUS
    <3>2. binding.name = rel[o].tag.name
      BY <3>1 DEF BindingOf
    <3>3. rel' = [rel EXCEPT ![o] = [rel[o] EXCEPT !.tag = binding]]
      BY <1>1, <2>4, <3>1 DEF BindAndSign
    <3>4. q # o => rel'[q] = rel[q]
      BY <2>1, <3>3
    <3>5. rel'[o] = [rel[o] EXCEPT !.tag = binding]
      BY <2>1, <3>3
    <3>6. SameDecision(rel[o], rel'[o])
      BY <2>1, <3>2, <3>5 DEF SameDecision, ReleaseFields
    <3>7. SameDecision(rel[q], rel[q])
      BY DEF SameDecision
    <3> QED BY <2>1, <2>2, <3>4, <3>6, <3>7
  <2> QED BY <2>3, <2>4
<1>2. CASE ~BindAndSign(o)
  <2>1. rel' = rel
    BY <1>2 DEF Step, Crash, LookupTag, SignTagFails, SetTag, SignFails, PutUnderCommit,
                PutUnderCommitFails, PutUnderTag, PutUnderTagFails, Rollback, RollbackFails, Failing
  <2>2. PICK label \in PCs \ {"idle"} : Goto(o, label) /\ pc[o] # "idle"
    BY <1>2 DEF Step, Crash, LookupTag, SignTagFails, SetTag, SignFails, PutUnderCommit,
                PutUnderCommitFails, PutUnderTag, PutUnderTagFails, Rollback, RollbackFails, Failing,
                InFlight, InFlightPCs, PCs
  <2> QED BY <2>1, <2>2 DEF Goto, TypeOK, SameDecision
<1> QED BY <1>1, <1>2

(* A decision is taken by Start, and kept ever after. *)
LEMMA NextKeepsDecisions ==
    ASSUME TypeOK, [Next]_vars, NEW o \in Ops, pc'[o] # "idle"
    PROVE  \/ pc[o] = "idle" /\ Start(o)
           \/ pc[o] # "idle" /\ SameDecision(rel[o], rel'[o])
<1>1. SameDecision(rel[o], rel[o])
  BY DEF SameDecision
<1>2. ASSUME NEW p, NEW to, NEW kind, AttestReview(p, to, kind)
      PROVE  pc[o] # "idle" /\ rel'[o] = rel[o]
  BY <1>2 DEF AttestReview
<1>3. ASSUME NEW q \in Ops, Start(q)
      PROVE  \/ o = q /\ pc[o] = "idle"
             \/ pc[o] # "idle" /\ rel'[o] = rel[o]
  <2>1. PICK release : Begin(q, release)
    BY <1>3, StartBegins
  <2> QED BY <1>3, <2>1, StartBegins DEF Begin, MayBegin, TypeOK
<1>4. ASSUME NEW q \in Ops, Step(q) \/ Crash(q)
      PROVE  pc[o] # "idle" /\ SameDecision(rel[o], rel'[o])
  BY <1>4, StepKeepsDecisions
<1>5. ASSUME NEW q \in Ops, PruneAttestation(q)
      PROVE  pc[o] # "idle" /\ rel'[o] = rel[o]
  BY <1>5 DEF PruneAttestation
<1>6. ASSUME NEW name, DeleteOrphanTag(name)
      PROVE  pc[o] # "idle" /\ rel'[o] = rel[o]
  BY <1>6 DEF DeleteOrphanTag
<1>7. CASE UNCHANGED vars
  BY <1>1, <1>7 DEF vars
<1> QED BY <1>1, <1>2, <1>3, <1>4, <1>5, <1>6, <1>7 DEF Next

(* ---- What the reader finds of it. ---- *)

(* Append, of a sequence whose elements have no common type. *)
LEMMA Appended ==
    ASSUME NEW s, IsSequence(s), NEW x
    PROVE  /\ Len(s) \in Nat /\ DOMAIN s = 1..Len(s)
           /\ DOMAIN Append(s, x) = 1..(Len(s) + 1)
           /\ Len(Append(s, x)) = Len(s) + 1 /\ Append(s, x)[Len(s) + 1] = x
           /\ \A i \in 1..Len(s) : Append(s, x)[i] = s[i]
           /\ IsSequence(Append(s, x))
<1> DEFINE S == {s[i] : i \in DOMAIN s}
           t == Append(s, x)
           T == {t[i] : i \in DOMAIN t}
<1>1. s \in Seq(S) /\ Len(s) \in Nat /\ DOMAIN s = 1..Len(s)
  BY LenProperties DEF IsSequence
<1>2. /\ DOMAIN t = 1..(Len(s) + 1) /\ Len(t) = Len(s) + 1
      /\ t[Len(s) + 1] = x /\ \A i \in 1..Len(s) : t[i] = s[i]
      /\ t \in Seq(S \cup {x})
  <2>1. s \in Seq(S \cup {x})
    BY <1>1, SeqMonotonic
  <2> HIDE DEF S
  <2> QED BY <1>1, <2>1
<1>3. t \in [1..(Len(s) + 1) -> T]
  <2>1. t \in [1..(Len(s) + 1) -> S \cup {x}]
    <3> HIDE DEF S, t
    <3> QED BY <1>2, LenProperties
  <2>2. \A i \in 1..(Len(s) + 1) : t[i] \in T
    BY <1>2
  <2> HIDE DEF S, T, t
  <2> QED BY <2>1, <2>2
<1>4. t \in Seq(T)
  <2> HIDE DEF T, t
  <2> QED BY <1>1, <1>3, SeqDef
<1>5. IsSequence(t)
  BY <1>4 DEF IsSequence
<1> HIDE DEF S, T
<1> QED BY <1>1, <1>2, <1>5

(* The signed history of a release is one state longer than what it read.  *)
LEMMA ResultParts ==
    ASSUME NEW r, Decision(r)
    PROVE  /\ IsSequence(r.prior) /\ Len(r.prior) \in Nat
           /\ IsSequence(r.result) /\ Len(r.result) = Len(r.prior) + 1
           /\ r.result[Len(r.result)] = StateOf(r)
           /\ \A i \in 1..Len(r.prior) : r.result[i] = r.prior[i]
<1>1. IsSequence(r.prior) /\ r.result = Append(r.prior, StateOf(r))
  BY DEF Decision, AppendsState
<1> DEFINE s == r.prior
           x == StateOf(r)
<1> HIDE DEF s, x
<1>2. IsSequence(s)
  BY <1>1 DEF s
<1>3. /\ Len(s) \in Nat
      /\ Len(Append(s, x)) = Len(s) + 1 /\ Append(s, x)[Len(s) + 1] = x
      /\ \A i \in 1..Len(s) : Append(s, x)[i] = s[i]
      /\ IsSequence(Append(s, x))
  BY <1>2, Appended
<1>4. r.result = Append(s, x) /\ s = r.prior /\ x = StateOf(r)
  BY <1>1 DEF s, x
<1> QED BY <1>1, <1>3, <1>4

(* The chain that the reader walks from a stored release. *)
LEMMA StoredChain ==
    ASSUME Decisions, TypeOK, NEW Kept \in SUBSET Stored, NEW h \in Kept
    PROVE  LinkedPath(ChainTo(h, Kept, rel), h, Kept, rel) /\ Stops(ChainTo(h, Kept, rel), Kept, rel)
<1> DEFINE M == [r \in Kept |-> Len(rel[r].result)]
<1>1. ASSUME NEW r \in Kept
      PROVE  Decision(rel[r])
  BY DEF Decisions, Stored, TypeOK
<1>2. ASSUME NEW r \in Kept
      PROVE  M[r] \in Nat
  BY <1>1, ResultParts
<1>3. ASSUME NEW q \in Kept, NEW r \in Kept, rel[q].result = rel[r].prior
      PROVE  M[q] < M[r]
  BY <1>1, <1>3, ResultParts
<1> HIDE DEF M
<1> QED BY <1>2, <1>3, ChainToLinked

(* The head the reader accepts is a decision, and the state it selects is  *)
(* the one that decision signed.                                           *)
LEMMA HeadDecided ==
    ASSUME TypeOK, Decisions, NEW h \in ChainHead, NEW selected,
           selected = SelectedRelease(h, Stored, rel, rank)
    PROVE  /\ h \in Stored /\ Decision(rel[h]) /\ Bound(rel[h].tag, refs)
           /\ LinkedPath(AcceptedChainOf(h, Stored, rel, rank), h, Stored, rel)
           /\ CompleteChain(AcceptedChainOf(h, Stored, rel, rank), rel)
           /\ selected.to = rel[h].to /\ selected.tag = rel[h].tag
           /\ selected.state = StateOf(rel[h])
           /\ StateOfTag(selected)
<1> DEFINE Kept == Deduplicated(Stored, rel, rank)
           chain == ChainTo(h, Kept, rel)
<1>1. /\ Kept \in SUBSET Stored /\ h \in Kept /\ CompleteChain(chain, rel)
      /\ Bound(rel[h].tag, refs)
  BY DEF ChainHead, AcceptedHead, ChainHeads, Deduplicated
<1>2. Decision(rel[h]) /\ ReleaseOK(rel[h]) /\ h \in Ops
  BY <1>1 DEF Decisions, Stored, TypeOK
<1>3. LinkedPath(chain, h, Kept, rel)
  BY <1>1, StoredChain
<1>4. AcceptedChainOf(h, Stored, rel, rank) = chain
  BY DEF AcceptedChainOf
<1>5. LinkedPath(chain, h, Stored, rel)
  <2>1. chain \in Seq(Stored)
    <3> HIDE DEF Kept, chain
    <3> QED BY <1>1, <1>3 DEF LinkedPath
  <2> QED BY <1>3, <2>1 DEF LinkedPath
<1>6. /\ selected.to = rel[h].to /\ selected.tag = rel[h].tag
      /\ selected.state = ReconstructState(rel[h], CarriedBaseline(chain, Len(chain), rel))
  BY <1>4 DEF SelectedRelease
<1> HIDE DEF Kept, chain
<1>7. chain[Len(chain)] = h /\ Len(chain) \in DOMAIN chain
  BY <1>3 DEF LinkedPath
<1>8. rel[h].result = Append(rel[h].prior, selected.state)
  BY <1>1, <1>6, <1>7 DEF CompleteChain
<1>9. selected.state = StateOf(rel[h])
  <2>1. IsSequence(rel[h].prior)
    BY <1>2 DEF Decision, AppendsState
  <2>2. rel[h].result[Len(rel[h].result)] = selected.state
    BY <1>8, <2>1, Appended
  <2> QED BY <1>2, <2>2, ResultParts
<1>10. StateOfTag(selected)
  BY <1>2, <1>6 DEF StateOfTag, ReconstructState, ReleaseOK
<1> QED BY <1>1, <1>2, <1>4, <1>5, <1>6, <1>9, <1>10

(* ---- What commands decide. ---- *)

(* A statement whose state carries the right baseline is what the reader   *)
(* will reconstruct.                                                       *)
LEMMA StatementAppends ==
    ASSUME NEW action, NEW genesis, NEW to, NEW commits, NEW d, NEW pred, NEW prior,
           NEW baseline, NEW baselineCore, NEW core, NEW bump, NEW name, NEW intervals, NEW floor,
           NEW supersedes, NEW state, NEW s,
           state = VersionStateOf(baseline, baselineCore, core, bump, name, intervals, floor),
           s = Statement(action, genesis, to, commits, d, pred, prior, state, name, supersedes),
           IsSequence(prior),
           baselineCore = IF baseline = <<>> THEN ZeroCore ELSE baseline[1].name.core,
           baseline = IF action = "advance" THEN pred ELSE prior[Len(prior)].baseline
    PROVE  AppendsState(s)
<1>1. /\ s.action = action /\ s.pred = pred /\ s.prior = prior /\ s.result = Append(prior, state)
      /\ s.tag.name = name /\ s.targetCore = state.targetCore /\ s.targetBump = state.targetBump
      /\ s.targetIntervals = state.targetIntervals /\ s.correctiveFloor = state.correctiveFloor
  BY DEF Statement
<1>2. Append(prior, state)[Len(prior) + 1] = state
  BY Appended
<1>3. StateOf(s) = state
  BY <1>1, <1>2 DEF StateOf
<1>4. /\ state.baseline = baseline /\ state.baselineCore = baselineCore
      /\ state.cleanAccepted = IsClean(name) /\ state.iterations = IterationsOf(name)
  BY DEF VersionStateOf
<1>5. state = ReconstructState(s, baseline)
  BY <1>1 DEF VersionStateOf, ReconstructState
<1> HIDE DEF StateOf
<1>6. IsSequence(s.prior) /\ s.result = Append(s.prior, StateOf(s))
  BY <1>1, <1>3
<1>7. StateOf(s) = ReconstructState(s, StateOf(s).baseline)
  <2>1. StateOf(s).baseline = baseline
    BY <1>3, <1>4
  <2> QED BY <1>3, <1>5, <2>1
<1>8. StateOf(s).baseline = IF s.action = "advance" THEN s.pred ELSE s.prior[Len(s.prior)].baseline
  <2>1. CASE action = "advance"
    BY <1>1, <1>3, <1>4, <2>1
  <2>2. CASE action # "advance"
    <3>1. s.action # "advance" /\ baseline = prior[Len(prior)].baseline
      BY <1>1, <2>2
    <3>2. prior[Len(prior)].baseline = s.prior[Len(s.prior)].baseline
      BY <1>1
    <3> QED BY <1>3, <1>4, <3>1, <3>2
  <2> QED BY <2>1, <2>2
<1> QED BY <1>6, <1>7, <1>8 DEF AppendsState

(* What a decision rests on when it is made: nothing, or the head.         *)
Follows(r, h) ==
    /\ r.prior = rel[h].result
    /\ r.pred = << rel[h].tag >>
    /\ r.action = "supersede" => r.supersedes = << h >> /\ r.to = rel[h].to

Decided(r) ==
    /\ Decision(r)
    /\ r.effective = Effective(r.provenance)
    /\ r.provenance \in SUBSET Commits /\ r.provenance # {}
    /\ r.tag.commit = r.to /\ r.action \in {"advance", "recut", "supersede"}
    /\ IF r.genesis THEN Stored = {} ELSE \E h \in ChainHead : Follows(r, h)

(* A first release decides so. *)
LEMMA GenesisDecided ==
    ASSUME TypeOK, NEW o \in Ops, NEW to \in Commits, NEW claimed \in Claims,
           NEW blast \in BlastScores, ReleaseGenesis(o, to, claimed, blast)
    PROVE  \E r : Begin(o, r) /\ Decided(r)
<1> DEFINE commits == GenesisInterval(Boundary, to)
           d == Facts(commits, claimed, blast)
           base == IF Legacy = <<>> THEN ZeroCore ELSE Legacy[1].name.core
           e == BootstrapAncestry(Legacy, Boundary, to, d, refs)
           st == VersionStateOf(Legacy, base, e.core, EffectiveBump(d), e.name[1],
                                << GenesisIntervalID >>, e.floor)
           r == Statement("advance", TRUE, to, commits, d, Legacy, <<>>, st, e.name[1], <<>>)
<1>1. e.ok /\ Begin(o, r) /\ Stored = {} /\ GenesisIntervalOK(Boundary, to)
  BY DEF ReleaseGenesis
<1>2. to \in commits /\ commits \subseteq Commits
  BY <1>1, GenesisHoldsTo, PolicyAssumption
<1>3. d \in DecisionInputs
  BY <1>2, FactsType, PolicyAssumption
<1>4. d.effective = Effective(commits) /\ d.threshold = Threshold
  BY DEF Facts
<1>5. TagSays(e.name[1], d)
  <2> HIDE DEF d, commits
  <2> QED BY <1>1, <1>3, BootstrapSays
<1>6. IsSequence(<<>>)
  BY DEF IsSequence
<1> HIDE DEF d, commits
<1>7. AppendsState(r)
  <2>1. base = IF Legacy = <<>> THEN ZeroCore ELSE Legacy[1].name.core
    OBVIOUS
  <2>2. Legacy = IF "advance" = "advance" THEN Legacy ELSE <<>>[Len(<<>>)].baseline
    OBVIOUS
  <2> HIDE DEF base, e
  <2> QED BY <1>6, <2>1, <2>2, StatementAppends
<1> HIDE DEF e, st
<1>8. /\ r.action = "advance" /\ r.genesis = TRUE /\ r.to = to /\ r.provenance = commits
      /\ r.tag.name = e.name[1] /\ r.tag.commit = to
      /\ r.pred = Legacy /\ r.prior = <<>> /\ r.effective = d.effective
  BY DEF r, Statement
<1> HIDE DEF r
<1>9. FirstDecision(r)
  BY <1>1, <1>8 DEF FirstDecision, commits
<1>10. LevelRecorded(r)
  BY <1>4, <1>5, <1>8 DEF LevelRecorded, TagSays
<1>11. Decided(r)
  BY <1>1, <1>2, <1>4, <1>7, <1>8, <1>9, <1>10 DEF Decided, Decision
<1> QED BY <1>1, <1>11

(* So does a release after an accepted head. *)
LEMMA RecurringDecided ==
    ASSUME TypeOK, Decisions, NEW o \in Ops, NEW h \in ChainHead, NEW selected,
           selected = SelectedRelease(h, Stored, rel, rank),
           NEW action \in {"advance", "recut"}, NEW to \in Commits, NEW claimed \in Claims,
           NEW blast \in BlastScores,
           ReleaseRecurring(o, h, selected, action, to, claimed, blast)
    PROVE  \E r : Begin(o, r) /\ Decided(r)
<1> DEFINE commits == RecurringInterval(selected.to, to)
           d == Facts(commits, claimed, blast)
           st == selected.state
           old == selected.tag.name
           e == PredecessorAncestry(selected, action, to, d, FALSE, refs)
           new == RecurringState(selected, action, d, e, e.name[1], <<selected.to, to>>)
           r == Statement(action, FALSE, to, commits, d, << selected.tag >>, rel[h].result, new,
                          e.name[1], <<>>)
<1>1. e.ok /\ Begin(o, r) /\ RecurringIntervalOK(selected.to, to)
  BY DEF ReleaseRecurring
<1>2. /\ h \in Ops /\ Decision(rel[h]) /\ selected.to = rel[h].to /\ selected.tag = rel[h].tag
      /\ selected.state = StateOf(rel[h]) /\ StateOfTag(selected)
      /\ SelectedOK(selected) /\ ReleaseOK(rel[h])
  BY HeadDecided, HeadType
<1>3. selected.to \in Commits
  BY <1>2 DEF ReleaseOK
<1>4. to \in commits /\ commits \subseteq Commits
  BY <1>1, <1>3, RecurringHoldsTo
<1>5. d \in DecisionInputs
  BY <1>4, FactsType, PolicyAssumption
<1>6. d.effective = Effective(commits) /\ d.threshold = Threshold
  BY DEF Facts
<1> HIDE DEF commits, d
<1>7. /\ PredecessorUsable(selected, to, refs) /\ NameFollows(old, e.name[1])
      /\ TagSays(e.name[1], d) /\ (~IsClean(old) => d.effective <= LevelOf(old))
  BY <1>1, <1>2, <1>5, PredecessorFollows
<1>8. selected.tag.commit = selected.to /\ st.targetCore = old.core
  BY <1>7 DEF PredecessorUsable, StateConsistent
<1>9. /\ IsSequence(rel[h].result) /\ rel[h].result # <<>>
      /\ rel[h].result[Len(rel[h].result)] = st
  BY <1>2, ResultParts
<1>10. /\ st = ReconstructState(rel[h], st.baseline)
       /\ st.baselineCore = IF st.baseline = <<>> THEN ZeroCore ELSE st.baseline[1].name.core
  <2>1. st = ReconstructState(rel[h], st.baseline)
    BY <1>2 DEF Decision, AppendsState
  <2> QED BY <2>1 DEF ReconstructState
<1>11. AppendsState(r)
  <2> DEFINE grown == Append(IF action = "advance" /\ st.cleanAccepted THEN <<>>
                             ELSE st.targetIntervals, <<selected.to, to>>)
             prior == rel[h].result
             pred == << selected.tag >>
  <2>1. CASE action = "advance"
    <3>1. new = VersionStateOf(pred, st.targetCore, e.core, EffectiveBump(d), e.name[1], grown, e.floor)
      BY <2>1 DEF RecurringState
    <3>2. pred # <<>> /\ pred[1].name.core = st.targetCore
      BY <1>8
    <3> HIDE DEF e, grown, new, prior, pred
    <3>3. r = Statement(action, FALSE, to, commits, d, pred, prior, new, e.name[1], <<>>)
      BY DEF pred, prior
    <3>5. IsSequence(prior)
      BY <1>9 DEF prior
    <3> HIDE DEF r
    <3>4. st.targetCore = IF pred = <<>> THEN ZeroCore ELSE pred[1].name.core
      BY <3>2
    <3> HIDE DEF st
    <3> QED BY <2>1, <3>1, <3>3, <3>4, <3>5, StatementAppends
  <2>2. CASE action = "recut"
    <3>1. new = VersionStateOf(st.baseline, st.baselineCore, e.core, st.targetBump, e.name[1], grown, e.floor)
      BY <2>2 DEF RecurringState
    <3>2. st.baseline = prior[Len(prior)].baseline
      BY <1>9
    <3> HIDE DEF e, grown, new, prior, pred
    <3>3. r = Statement(action, FALSE, to, commits, d, pred, prior, new, e.name[1], <<>>)
      BY DEF pred, prior
    <3>5. IsSequence(prior)
      BY <1>9 DEF prior
    <3> HIDE DEF r, st
    <3>4. \E b, c : b = st.baseline /\ c = st.baselineCore
      OBVIOUS
    <3>6. PICK b, c : b = st.baseline /\ c = st.baselineCore
      BY <3>4
    <3>7. c = IF b = <<>> THEN ZeroCore ELSE b[1].name.core
      BY <1>10, <3>6
    <3>8. b = IF action = "advance" THEN pred ELSE prior[Len(prior)].baseline
      BY <2>2, <3>2, <3>6
    <3>9. new = VersionStateOf(b, c, e.core, st.targetBump, e.name[1], grown, e.floor)
      BY <3>1, <3>6
    <3> QED BY ZenonT(40), <3>3, <3>5, <3>7, <3>8, <3>9, StatementAppends
  <2> QED BY <2>1, <2>2
<1> HIDE DEF e, new
<1>12. /\ r.action = action /\ r.genesis = FALSE /\ r.to = to /\ r.provenance = commits
       /\ r.tag.name = e.name[1] /\ r.tag.commit = to
       /\ r.pred = << selected.tag >> /\ r.prior = rel[h].result /\ r.effective = d.effective
  BY DEF r, Statement
<1> HIDE DEF r
<1>13. LaterDecision(r)
  <2>1. r.pred[1] = selected.tag
    BY <1>12
  <2> QED BY <1>1, <1>7, <1>8, <1>9, <1>12, <2>1 DEF LaterDecision, commits
<1>14. LevelRecorded(r)
  BY <1>6, <1>7, <1>12 DEF LevelRecorded, TagSays
<1>15. Follows(r, h)
  BY <1>2, <1>12 DEF Follows
<1>16. Decided(r)
  BY <1>4, <1>6, <1>11, <1>12, <1>13, <1>14, <1>15 DEF Decided, Decision
<1> QED BY <1>1, <1>16

(* So does a promotion of it. *)
LEMMA PromoteDecided ==
    ASSUME TypeOK, Decisions, NEW o \in Ops, NEW h \in ChainHead, NEW selected,
           selected = SelectedRelease(h, Stored, rel, rank),
           NEW blast \in BlastScores, Promote(o, h, selected, blast)
    PROVE  \E r : Begin(o, r) /\ Decided(r)
<1> DEFINE st == selected.state
           anchor == SupersedeAnchor(h, Stored, rel, rank)
           commits == SupersedeInterval(anchor, h)
           d == Facts(commits, rel[h].claimed, blast)
           name == CleanName(st.targetCore)
           e == SupersededAncestry(selected, selected.to, d, refs)
           new == VersionStateOf(st.baseline, st.baselineCore, e.core, st.targetBump, name,
                                 st.targetIntervals, e.floor)
           r == Statement("supersede", FALSE, selected.to, commits, d, << selected.tag >>,
                          rel[h].result, new, name, << h >>)
<1>1. /\ e.ok /\ Begin(o, r) /\ ~IsClean(rel[h].tag.name)
      /\ anchor = {} => GenesisIntervalOK(Boundary, rel[h].to)
      /\ anchor # {} => \A a \in anchor : AnchorUsable(a, h)
  BY DEF Promote
<1>2. /\ h \in Ops /\ Decision(rel[h]) /\ selected.to = rel[h].to /\ selected.tag = rel[h].tag
      /\ selected.state = StateOf(rel[h]) /\ ReleaseOK(rel[h])
      /\ LinkedPath(AcceptedChainOf(h, Stored, rel, rank), h, Stored, rel)
      /\ CompleteChain(AcceptedChainOf(h, Stored, rel, rank), rel)
  BY HeadDecided, HeadType
<1>3. rel[h].to \in Commits
  BY <1>2 DEF ReleaseOK
<1>4. rel[h].to \in commits /\ commits \subseteq Commits
  <2>1. CASE anchor = {}
    BY <1>1, <1>3, <2>1, GenesisHoldsTo, PolicyAssumption DEF SupersedeInterval
  <2>2. CASE anchor # {}
    <3>1. ASSUME NEW a \in anchor
          PROVE  /\ rel[h].to \in RecurringInterval(rel[a].to, rel[h].to)
                 /\ RecurringInterval(rel[a].to, rel[h].to) \subseteq Commits
      <4>1. a \in Ops
        <5> DEFINE chain == AcceptedChainOf(h, Stored, rel, rank)
        <5> HIDE DEF chain
        <5>1. /\ ~rel[h].genesis /\ a = chain[Len(chain) - 1]
          BY <3>1, <2>2 DEF SupersedeAnchor, chain
        <5>2. chain \in Seq(Stored) /\ Len(chain) >= 1 /\ chain[Len(chain)] = h
          BY <1>2 DEF LinkedPath, chain
        <5>3. Len(chain) # 1
          BY <1>2, <5>1, <5>2 DEF CompleteChain, GenesisOK, chain
        <5>5. Len(chain) \in Nat
          BY <5>2, LenProperties
        <5>4. Len(chain) - 1 \in 1..Len(chain)
          <6>1. PICK n : n = Len(chain)
            OBVIOUS
          <6>2. n \in Nat /\ n >= 1 /\ n # 1
            BY <5>2, <5>3, <5>5, <6>1
          <6>3. n - 1 \in 1..n
            BY <6>2
          <6> QED BY <6>1, <6>3
        <5> QED BY <5>1, <5>2, <5>4, ElementOfSeq DEF Stored
      <4>2. RecurringIntervalOK(rel[a].to, rel[h].to)
        BY <1>1, <2>2 DEF AnchorUsable
      <4>3. rel[a].to \in Commits
        BY <1>3, <4>2, ReachBelow DEF RecurringIntervalOK
      <4> QED BY <1>3, <4>2, <4>3, RecurringHoldsTo
    <3>2. commits = UNION {RecurringInterval(rel[a].to, rel[h].to) : a \in anchor}
      BY <2>2 DEF SupersedeInterval
    <3> HIDE DEF anchor, commits
    <3> QED BY <2>2, <3>1, <3>2
  <2> QED BY <2>1, <2>2
<1>5. d.effective = Effective(commits) /\ d.threshold = Threshold
  BY DEF Facts
<1> HIDE DEF commits, d
<1>6. SupersededUsable(selected, selected.to, refs)
  BY <1>1 DEF SupersededAncestry, Refused
<1>7. selected.tag.commit = selected.to /\ st.targetCore = selected.tag.name.core
  BY <1>6 DEF SupersededUsable, StateConsistent
<1>8. NameFollows(selected.tag.name, name) /\ IsClean(name)
  BY <1>1, <1>2, <1>7 DEF NameFollows, CleanName, IsClean
<1>9. /\ IsSequence(rel[h].result) /\ rel[h].result # <<>>
      /\ rel[h].result[Len(rel[h].result)] = st
  BY <1>2, ResultParts
<1>10. /\ st = ReconstructState(rel[h], st.baseline)
       /\ st.baselineCore = IF st.baseline = <<>> THEN ZeroCore ELSE st.baseline[1].name.core
  <2>1. st = ReconstructState(rel[h], st.baseline)
    BY <1>2 DEF Decision, AppendsState
  <2> QED BY <2>1 DEF ReconstructState
<1>11. AppendsState(r)
  <2> DEFINE prior == rel[h].result
             pred == << selected.tag >>
             action == "supersede"
  <2>1. st.baseline = prior[Len(prior)].baseline
    BY <1>9
  <2>2. PICK b, c, i, u, to, x :
            /\ b = st.baseline /\ c = st.baselineCore /\ i = st.targetIntervals
            /\ u = st.targetBump /\ to = selected.to /\ x = << h >>
    OBVIOUS
  <2>3. new = VersionStateOf(b, c, e.core, u, name, i, e.floor)
    BY <2>2
  <2>4. action # "advance"
    OBVIOUS
  <2> HIDE DEF e, name, new, prior, pred, action
  <2>5. r = Statement(action, FALSE, to, commits, d, pred, prior, new, name, x)
    BY <2>2 DEF prior, pred, action
  <2>6. IsSequence(prior)
    BY <1>9 DEF prior
  <2> HIDE DEF r, st
  <2>7. c = IF b = <<>> THEN ZeroCore ELSE b[1].name.core
    BY <1>10, <2>2
  <2>8. b = IF action = "advance" THEN pred ELSE prior[Len(prior)].baseline
    BY <2>1, <2>2, <2>4
  <2> QED BY ZenonT(40), <2>3, <2>5, <2>6, <2>7, <2>8, StatementAppends
<1> HIDE DEF e, new, name
<1>12. /\ r.action = "supersede" /\ r.genesis = FALSE /\ r.to = selected.to
       /\ r.provenance = commits
       /\ r.tag.name = name /\ r.tag.commit = selected.to
       /\ r.pred = << selected.tag >> /\ r.prior = rel[h].result /\ r.effective = d.effective
       /\ r.supersedes = << h >>
  BY DEF r, Statement
<1> HIDE DEF r
<1>13. LaterDecision(r)
  <2>1. r.pred[1] = selected.tag
    BY <1>12
  <2> QED BY <1>7, <1>8, <1>9, <1>12, <2>1 DEF LaterDecision
<1>14. LevelRecorded(r)
  BY <1>8, <1>12 DEF LevelRecorded
<1>15. Follows(r, h)
  BY <1>2, <1>12 DEF Follows
<1>16. Decided(r)
  BY <1>4, <1>5, <1>11, <1>12, <1>13, <1>14, <1>15 DEF Decided, Decision
<1> QED BY <1>1, <1>16

(* And so does every command that starts. *)
LEMMA StartDecided ==
    ASSUME TypeOK, Decisions, NEW o \in Ops, Start(o)
    PROVE  \E r : Begin(o, r) /\ Decided(r)
<1>1. CASE StartGenesis(o)
  BY <1>1, GenesisDecided DEF StartGenesis
<1>2. CASE \E h \in ChainHead : \E selected \in {SelectedRelease(h, Stored, rel, rank)} :
              StartAfter(o, h, selected)
  <2>1. PICK h \in ChainHead : \E selected \in {SelectedRelease(h, Stored, rel, rank)} :
              StartAfter(o, h, selected)
    BY <1>2
  <2>2. PICK selected : /\ selected = SelectedRelease(h, Stored, rel, rank)
                        /\ StartAfter(o, h, selected)
    BY <2>1
  <2>3. CASE \E blast \in BlastScores : Promote(o, h, selected, blast)
    BY <2>2, <2>3, PromoteDecided
  <2>4. CASE \E action \in {"advance", "recut"}, to \in Commits, claimed \in Claims,
                blast \in BlastScores :
                ReleaseRecurring(o, h, selected, action, to, claimed, blast)
    BY <2>2, <2>4, RecurringDecided
  <2> QED BY <2>2, <2>3, <2>4 DEF StartAfter
<1> QED BY <1>1, <1>2 DEF Start

(* Every step keeps the decisions that were taken. *)
LEMMA DecisionsNext == TypeOK /\ Decisions /\ [Next]_vars => Decisions'
<1> SUFFICES ASSUME TypeOK, Decisions, [Next]_vars, NEW o \in Ops, pc'[o] # "idle"
             PROVE  Decision(rel'[o])
  BY DEF Decisions, Decision, AppendsState, FirstDecision, LaterDecision, LevelRecorded, StateOf
<1>1. CASE pc[o] = "idle" /\ Start(o)
  <2>1. PICK r : Begin(o, r) /\ Decided(r)
    BY <1>1, StartDecided
  <2>2. rel'[o] = r
    BY <2>1 DEF Begin, TypeOK
  <2> QED BY <2>1, <2>2 DEF Decided
<1>2. CASE pc[o] # "idle" /\ SameDecision(rel[o], rel'[o])
  <2>1. PICK r, s : r = rel[o] /\ s = rel'[o]
    OBVIOUS
  <2>2. Decision(r) /\ SameDecision(r, s)
    BY <1>2, <2>1 DEF Decisions
  <2>3. Decision(s)
    BY <2>2, DecisionKept
  <2> QED BY <2>1, <2>3
<1> QED BY <1>1, <1>2, NextKeepsDecisions

(* Every release ever decided, stored or not, is a well-formed decision.   *)
LEMMA DecisionsHold == Spec => [](TypeOK /\ Decisions)
<1>1. Init => TypeOK /\ Decisions
  BY TypeInit DEF Init, Decisions
<1>2. TypeOK /\ Decisions /\ [Next]_vars => (TypeOK /\ Decisions)'
  BY TypeNext, DecisionsNext
<1> QED BY <1>1, <1>2, PTL DEF Spec

(* ---- Versions on the accepted chain. ---- *)

(* The accepted chain is a complete path of stored releases that ends in   *)
(* the head.                                                               *)
LEMMA AcceptedParts ==
    ASSUME TypeOK, Decisions, NEW h \in ChainHead
    PROVE  /\ ChainHead = {h}
           /\ Accepted = AcceptedChainOf(h, Stored, rel, rank)
           /\ LinkedPath(Accepted, h, Stored, rel)
           /\ CompleteChain(Accepted, rel)
           /\ Len(Accepted) \in Nat /\ Len(Accepted) >= 1 /\ DOMAIN Accepted = 1..Len(Accepted)
           /\ \A i \in DOMAIN Accepted : Accepted[i] \in Stored
           /\ AcceptedOps = {Accepted[i] : i \in DOMAIN Accepted}
<1>1. ChainHead = {h}
  BY DEF ChainHead, AcceptedHead
<1>2. Accepted = AcceptedChainOf(h, Stored, rel, rank)
  BY <1>1 DEF Accepted
<1>3. LinkedPath(Accepted, h, Stored, rel) /\ CompleteChain(Accepted, rel)
  BY <1>2, HeadDecided
<1>4. PICK n, chain : n = Len(Accepted) /\ chain = Accepted
  OBVIOUS
<1>5. chain \in Seq(Stored) /\ n = Len(chain) /\ n >= 1
  BY <1>3, <1>4 DEF LinkedPath
<1>6. n \in Nat /\ DOMAIN chain = 1..n /\ \A i \in DOMAIN chain : chain[i] \in Stored
  BY <1>5, LenProperties, ElementOfSeq
<1>7. AcceptedOps = {chain[i] : i \in DOMAIN chain}
  BY <1>4 DEF AcceptedOps
<1> QED BY <1>1, <1>2, <1>3, <1>4, <1>5, <1>6, <1>7

(* Without a head nothing is accepted. *)
LEMMA NoneAccepted ==
    ASSUME ChainHead = {}
    PROVE  Accepted = <<>> /\ AcceptedOps = {}
BY DEF Accepted, AcceptedOps

(* Along the accepted chain every name follows every earlier one. *)
LEMMA ChainFollows ==
    ASSUME TypeOK, Decisions, NEW h \in ChainHead
    PROVE  \A i, j \in 1..Len(Accepted) : i < j =>
              NameFollows(rel[Accepted[i]].tag.name, rel[Accepted[j]].tag.name)
<1> DEFINE T == {t \in Stored \X Stored : NameFollows(rel[t[1]].tag.name, rel[t[2]].tag.name)}
<1>1. PICK chain, n : chain = Accepted /\ n = Len(chain)
  OBVIOUS
<1>2. /\ chain \in Seq(Stored) /\ n \in Nat /\ \A i \in 1..n : chain[i] \in Stored
      /\ CompleteChain(chain, rel)
  BY <1>1, AcceptedParts DEF LinkedPath
<1>3. ASSUME NEW r \in Stored
      PROVE  Decision(rel[r]) /\ rel[r].tag.name \in Name
  BY DEF Stored, TypeOK, Decisions, ReleaseOK
<1>4. ASSUME NEW i \in 2..Len(chain)
      PROVE  <<chain[i - 1], chain[i]>> \in T
  <2>1. i \in 1..n /\ i - 1 \in 1..n
    BY <1>1, <1>2
  <2>2. PICK p, c : p = chain[i - 1] /\ c = chain[i]
    OBVIOUS
  <2>3. p \in Stored /\ c \in Stored
    BY <1>2, <2>1, <2>2
  <2>4. ~rel[c].genesis /\ rel[c].pred = << rel[p].tag >>
    BY <1>2, <2>2 DEF CompleteChain, Linked
  <2>5. LaterDecision(rel[c]) /\ rel[c].pred[1] = rel[p].tag
    BY <1>3, <2>3, <2>4 DEF Decision
  <2>6. NameFollows(rel[p].tag.name, rel[c].tag.name)
    BY <2>5 DEF LaterDecision
  <2> QED BY <2>2, <2>3, <2>6
<1>5. ASSUME NEW a \in Stored, NEW b \in Stored, NEW c \in Stored, <<a, b>> \in T, <<b, c>> \in T
      PROVE  <<a, c>> \in T
  BY <1>3, <1>5, FollowsTransitive
<1>6. \A i, j \in 1..Len(chain) : i < j => <<chain[i], chain[j]>> \in T
  <2> HIDE DEF T
  <2> QED BY <1>2, <1>4, <1>5, PathOrdered
<1> QED BY <1>1, <1>6

(* To follow is to go forward as AcceptedVersionsAdvance demands. *)
LEMMA FollowsVersion ==
    ASSUME NEW a \in Name, NEW b \in Name, NameFollows(a, b)
    PROVE  VersionFollows(a, b)
<1>1. ASSUME a.core = b.core, ~IsClean(a), ~IsClean(b), LevelOf(b) = LevelOf(a)
      PROVE  IterationOf(a) < IterationOf(b)
  <2>1. LevelOf(b) \in Levels /\ ~CoreLess(a.core, b.core)
    BY <1>1, NameParts DEF CoreLess
  <2> QED BY <1>1, <2>1 DEF NameFollows, Levels
<1> QED BY <1>1 DEF NameFollows, VersionFollows

(* Decisions are inductive, and strong enough for the property. *)
LEMMA DecisionsAdvance ==
    ASSUME TypeOK, Decisions
    PROVE  AcceptedVersionsAdvance
<1> SUFFICES ASSUME NEW i \in DOMAIN Accepted, NEW j \in DOMAIN Accepted, i < j
             PROVE  VersionFollows(rel[Accepted[i]].tag.name, rel[Accepted[j]].tag.name)
  BY DEF AcceptedVersionsAdvance
<1>1. PICK h : h \in ChainHead
  BY NoneAccepted
<1>2. DOMAIN Accepted = 1..Len(Accepted) /\ Accepted[i] \in Stored /\ Accepted[j] \in Stored
  BY <1>1, AcceptedParts
<1>3. PICK a, b : a = rel[Accepted[i]].tag.name /\ b = rel[Accepted[j]].tag.name
  OBVIOUS
<1>4. a \in Name /\ b \in Name
  BY <1>2, <1>3 DEF Stored, TypeOK, ReleaseOK
<1>5. NameFollows(a, b)
  BY <1>1, <1>2, <1>3, ChainFollows
<1> QED BY <1>3, <1>4, <1>5, FollowsVersion

(* Whatever commands run concurrently, fail, die or are repaired, versions *)
(* on the chain the reader accepts only go forward (the ancestry checks of *)
(* SelectVersionAncestry, the links of verifyCompleteChain).               *)
THEOREM AcceptedAdvance == Spec => []AcceptedVersionsAdvance
<1>1. TypeOK /\ Decisions => AcceptedVersionsAdvance
  BY DecisionsAdvance
<1> QED BY <1>1, DecisionsHold, PTL

(* ---- The history a command read. ---- *)

(* How many states a release commits to; no stored release commits to more *)
(* than some number; and what a command read is nothing or what some       *)
(* stored release says.                                                    *)
Depth(o) == Len(rel[o].result)
Bounded == \E n \in Nat : \A o \in Stored : Depth(o) <= n
PriorsStored ==
    \A o \in Ops : pc[o] # "idle" =>
        rel[o].prior = <<>> \/ \E a \in Stored : rel[a].result = rel[o].prior

(* What is known of a stored release. *)
LEMMA StoredDecided ==
    ASSUME TypeOK, Decisions, NEW o \in Stored
    PROVE  /\ o \in Ops /\ pc[o] # "idle" /\ Decision(rel[o]) /\ ReleaseOK(rel[o])
           /\ Depth(o) \in Nat /\ Depth(o) >= 1 /\ DOMAIN rel[o].result = 1..Depth(o)
           /\ DOMAIN rel[o].prior = 1..(Depth(o) - 1) /\ Len(rel[o].prior) = Depth(o) - 1
           /\ Extends(rel[o].result, rel[o].prior)
<1>1. o \in Ops /\ pc[o] # "idle" /\ Decision(rel[o]) /\ ReleaseOK(rel[o])
  BY DEF Stored, TypeOK, Decisions
<1>2. PICK r : r = rel[o]
  OBVIOUS
<1>3. PICK p, s, m, n : p = r.prior /\ s = r.result /\ m = Len(p) /\ n = Len(s)
  OBVIOUS
<1>4. /\ IsSequence(p) /\ m \in Nat /\ IsSequence(s) /\ n = m + 1
      /\ \A i \in 1..m : s[i] = p[i]
  BY <1>1, <1>2, <1>3, ResultParts
<1>5. DOMAIN s = 1..n /\ DOMAIN p = 1..m
  BY <1>3, <1>4, LenProperties DEF IsSequence
<1>6. Extends(s, p)
  BY <1>3, <1>4, <1>5 DEF Extends
<1> QED BY <1>1, <1>2, <1>3, <1>4, <1>5, <1>6 DEF Depth

(* Extension is transitive. *)
LEMMA ExtendsTransitive ==
    ASSUME NEW a, NEW b, NEW c, Len(a) \in Nat, Len(b) \in Nat, Len(c) \in Nat,
           DOMAIN b = 1..Len(b), DOMAIN c = 1..Len(c), Extends(a, b), Extends(b, c)
    PROVE  Extends(a, c)
BY DEF Extends

(* Of the stored releases with one resulting digest, one is kept. *)
LEMMA Representative ==
    ASSUME TypeOK, NEW a \in Stored
    PROVE  \E k \in Deduplicated(Stored, rel, rank) : rel[k].result = rel[a].result
<1> DEFINE same == {q \in Stored : rel[q].result = rel[a].result}
           ranks == {rank[q] : q \in same}
<1>1. \A q \in Stored : rank[q] \in Nat
  BY PolicyAssumption DEF TypeOK, Stored
<1>2. ranks \in SUBSET Nat /\ ranks # {}
  BY <1>1
<1>3. PICK least \in ranks : \A x \in ranks : least <= x
  <2> HIDE DEF ranks
  <2> QED BY <1>2, LeastNat
<1>4. PICK k \in same : rank[k] = least
  OBVIOUS
<1>5. \A q \in Stored : rel[q].result = rel[k].result => rank[k] <= rank[q]
  BY <1>3, <1>4
<1> QED BY <1>4, <1>5 DEF Deduplicated

(* The head has read every release that is kept. *)
LEMMA HeadExtends ==
    ASSUME TypeOK, Decisions, Bounded, NEW h \in ChainHead, NEW a \in Stored
    PROVE  Extends(rel[h].result, rel[a].result)
<1> DEFINE Kept == Deduplicated(Stored, rel, rank)
           above == {r \in Kept : Extends(rel[r].result, rel[a].result)}
           depths == {Depth(r) : r \in above}
<1>1. Kept \subseteq Stored
  BY DEF Deduplicated
<1>2. PICK k \in Kept : rel[k].result = rel[a].result
  BY Representative
<1>3. Extends(rel[k].result, rel[a].result)
  BY <1>2, StoredDecided DEF Extends, Depth
<1>4. PICK n \in Nat : \A o \in Stored : Depth(o) <= n
  BY DEF Bounded
<1>5. depths \in SUBSET Nat /\ depths # {} /\ \A x \in depths : x <= n
  <2>1. \A r \in above : Depth(r) \in Nat /\ Depth(r) <= n
    BY <1>1, <1>4, StoredDecided
  <2> QED BY <1>3, <2>1
<1>6. PICK most \in depths : \A x \in depths : x <= most
  <2> HIDE DEF depths
  <2> QED BY <1>5, GreatestNat
<1>7. PICK r \in above : Depth(r) = most
  OBVIOUS
<1>8. ASSUME NEW q \in Kept, rel[q].prior = rel[r].result
      PROVE  FALSE
  <2>1. r \in Stored /\ q \in Stored
    BY <1>1
  <2>2. /\ Depth(q) \in Nat /\ Depth(r) = Depth(q) - 1 /\ Extends(rel[q].result, rel[r].result)
    BY <1>8, <2>1, StoredDecided DEF Depth
  <2>3. Extends(rel[q].result, rel[a].result)
    <3>1. /\ Len(rel[q].result) \in Nat /\ Len(rel[r].result) \in Nat /\ Len(rel[a].result) \in Nat
          /\ DOMAIN rel[r].result = 1..Len(rel[r].result)
          /\ DOMAIN rel[a].result = 1..Len(rel[a].result)
      BY <2>1, StoredDecided DEF Depth
    <3>2. Extends(rel[r].result, rel[a].result)
      OBVIOUS
    <3> QED BY <2>2, <3>1, <3>2, ExtendsTransitive
  <2>4. Depth(q) <= most
    BY <1>6, <2>3
  <2> QED BY <1>7, <2>2, <2>4
<1>9. r \in ChainHeads(Kept, rel)
  BY <1>8 DEF ChainHeads
<1>10. ChainHeads(Kept, rel) = {h}
  BY DEF ChainHead, AcceptedHead
<1> QED BY <1>9, <1>10

(* When every history that was read is stored, the head extends them all. *)
LEMMA HistoryFromPriors ==
    ASSUME TypeOK, Decisions, Bounded, PriorsStored
    PROVE  AcceptedHistoryKept
<1> SUFFICES ASSUME NEW h \in ChainHead, NEW o \in Ops, pc[o] # "idle"
             PROVE  Extends(rel[h].result, rel[o].prior)
  BY DEF AcceptedHistoryKept
<1>1. CASE rel[o].prior = <<>>
  <2>1. h \in Stored
    BY HeadDecided
  <2>2. Len(rel[h].result) \in Nat
    BY <2>1, StoredDecided DEF Depth
  <2> QED BY <1>1, <2>2 DEF Extends
<1>2. CASE \E a \in Stored : rel[a].result = rel[o].prior
  <2>1. PICK a \in Stored : rel[a].result = rel[o].prior
    BY <1>2
  <2>2. Extends(rel[h].result, rel[a].result)
    BY HeadExtends
  <2> QED BY <2>1, <2>2
<1> QED BY <1>1, <1>2 DEF PriorsStored

(* Only storing and pruning changes what is stored. *)
LEMMA NextStored ==
    ASSUME TypeOK, [Next]_vars
    PROVE  \/ Stored' = Stored /\ store' = store
           \/ \E o \in Ops : PutUnderCommit(o) /\ Stored' = Stored \cup {o} /\ rel' = rel
           \/ \E o \in Ops : PutUnderTag(o) /\ Stored' = Stored \cup {o} /\ rel' = rel
           \/ \E o \in Ops : PruneAttestation(o) /\ Stored' = Stored \ {o} /\ rel' = rel
<1>1. ASSUME NEW p, NEW to, NEW kind, AttestReview(p, to, kind)
      PROVE  store' = store
  BY <1>1 DEF AttestReview
<1>2. ASSUME NEW o \in Ops, Start(o)
      PROVE  store' = store
  BY <1>2, StartBegins DEF Begin
<1>3. ASSUME NEW o \in Ops, PutUnderCommit(o) \/ PutUnderTag(o)
      PROVE  Stored' = Stored \cup {o} /\ rel' = rel
  BY <1>3 DEF PutUnderCommit, PutUnderTag, Stored, TypeOK
<1>4. ASSUME NEW o \in Ops, Step(o) \/ Crash(o), ~PutUnderCommit(o), ~PutUnderTag(o)
      PROVE  store' = store
  BY <1>4 DEF Step, Crash, LookupTag, SignTagFails, SetTag, BindAndSign, SignFails,
              PutUnderCommitFails, PutUnderTagFails, Rollback, RollbackFails, Failing
<1>5. ASSUME NEW o \in Ops, PruneAttestation(o)
      PROVE  Stored' = Stored \ {o} /\ rel' = rel
  BY <1>5 DEF PruneAttestation, Stored, TypeOK
<1>6. ASSUME NEW name, DeleteOrphanTag(name)
      PROVE  store' = store
  BY <1>6 DEF DeleteOrphanTag
<1>8. store' = store => Stored' = Stored
  BY DEF Stored
<1>9. CASE \E o \in Ops : Step(o) \/ Crash(o)
  BY <1>3, <1>4, <1>8, <1>9
<1>10. CASE \E o \in Ops : PruneAttestation(o)
  BY <1>5, <1>10
<1>11. \/ store' = store
       \/ \E o \in Ops : Step(o) \/ Crash(o)
       \/ \E o \in Ops : PruneAttestation(o)
  BY <1>1, <1>2, <1>6, Zenon DEF Next, vars
<1> QED BY <1>8, <1>9, <1>10, <1>11

(* A stored release keeps its states. *)
LEMMA ResultsKept ==
    ASSUME TypeOK, [Next]_vars, NEW o \in Stored
    PROVE  /\ pc[o] # "idle" /\ pc'[o] # "idle"
           /\ SameDecision(rel[o], rel'[o]) /\ rel'[o].result = rel[o].result
<1>1. o \in Ops /\ pc[o] # "idle"
  BY DEF Stored, TypeOK
<1>2. pc'[o] # "idle"
  <2>1. ASSUME NEW q \in Ops, Start(q)
        PROVE  pc'[o] # "idle"
    BY <1>1, <2>1, StartBegins DEF Begin, TypeOK
  <2>2. ASSUME NEW q \in Ops, Step(q) \/ Crash(q)
        PROVE  pc'[o] # "idle"
    BY <1>1, <2>2, StepKeepsDecisions
  <2>3. ASSUME NEW q \in Ops, PruneAttestation(q)
        PROVE  pc' = pc
    BY <2>3 DEF PruneAttestation
  <2>4. ASSUME NEW p, NEW to, NEW kind, AttestReview(p, to, kind)
        PROVE  pc' = pc
    BY <2>4 DEF AttestReview
  <2>5. ASSUME NEW name, DeleteOrphanTag(name)
        PROVE  pc' = pc
    BY <2>5 DEF DeleteOrphanTag
  <2> QED BY <1>1, <2>1, <2>2, <2>3, <2>4, <2>5 DEF Next, vars
<1>3. SameDecision(rel[o], rel'[o])
  BY <1>1, <1>2, NextKeepsDecisions
<1> QED BY <1>1, <1>2, <1>3 DEF SameDecision

(* Every step keeps the bound, or raises it by one. *)
LEMMA BoundedNext == TypeOK /\ Decisions /\ Bounded /\ [Next]_vars => Bounded'
<1> SUFFICES ASSUME TypeOK, Decisions, Bounded, [Next]_vars PROVE Bounded'
  OBVIOUS
<1>1. PICK n \in Nat : \A o \in Stored : Depth(o) <= n
  BY DEF Bounded
<1>2. \A o \in Stored : Depth(o)' = Depth(o)
  BY ResultsKept DEF Depth
<1>3. CASE Stored' \subseteq Stored
  BY <1>1, <1>2, <1>3 DEF Bounded
<1>4. ASSUME NEW q \in Ops, PutUnderCommit(q) \/ PutUnderTag(q), Stored' = Stored \cup {q}, rel' = rel
      PROVE  Bounded'
  <2>1. Depth(q)' = Depth(q)
    BY <1>4 DEF Depth
  <2>2. pc[q] # "idle"
    BY <1>4 DEF PutUnderCommit, PutUnderTag
  <2>3. Depth(q) \in Nat
    BY <2>2, ResultParts DEF Decisions, Depth
  <2>4. PICK m \in Nat : n <= m /\ Depth(q) <= m
    <3>1. CASE n <= Depth(q) BY <2>3, <3>1
    <3>2. CASE ~(n <= Depth(q)) BY <2>3, <3>2
    <3> QED BY <3>1, <3>2
  <2>5. \A o \in Stored : Depth(o) \in Nat /\ Depth(o) <= m
    BY <1>1, <2>4, StoredDecided
  <2> QED BY <1>2, <1>4, <2>1, <2>4, <2>5 DEF Bounded
<1> QED BY <1>3, <1>4, NextStored

(* ---- Without failures nothing that was stored is withdrawn. ---- *)

(* A command that failed stored nothing. *)
FailedEmpty ==
    \A o \in Ops : pc[o] \in {"idle", "decided", "checked", "tagged", "signed", "rollback",
                              "failed", "stranded"} => store[o] = {}

(* Every step keeps that while nothing fails. *)
LEMMA FailedEmptyNext ==
    ASSUME ~MayFail
    PROVE  TypeOK /\ FailedEmpty /\ [Next]_vars => FailedEmpty'
<1> SUFFICES ASSUME TypeOK, FailedEmpty, [Next]_vars, NEW q \in Ops,
                    pc'[q] \in {"idle", "decided", "checked", "tagged", "signed", "rollback",
                                "failed", "stranded"}
             PROVE  store'[q] = {}
  BY DEF FailedEmpty
<1>1. ASSUME NEW p, NEW to, NEW kind, AttestReview(p, to, kind)
      PROVE  store'[q] = {}
  BY <1>1 DEF AttestReview, FailedEmpty
<1>2. ASSUME NEW o \in Ops, Start(o)
      PROVE  store'[q] = {}
  BY <1>2, StartBegins DEF Begin, MayBegin, FailedEmpty, TypeOK
<1>3. ASSUME NEW o \in Ops, Step(o)
      PROVE  store'[q] = {}
  <2>1. CASE LookupTag(o) BY <2>1 DEF LookupTag, Goto, FailedEmpty, TypeOK
  <2>2. CASE SetTag(o) BY <2>2 DEF SetTag, Goto, FailedEmpty, TypeOK
  <2>3. CASE BindAndSign(o)
    <3>1. pc[o] = "tagged" /\ store' = store /\ (q # o => pc'[q] = pc[q])
      BY <2>3 DEF BindAndSign, Goto, TypeOK
    <3> QED BY <3>1 DEF FailedEmpty
  <2>4. CASE PutUnderCommit(o) BY <2>4 DEF PutUnderCommit, Goto, FailedEmpty, TypeOK
  <2>5. CASE PutUnderTag(o) BY <2>5 DEF PutUnderTag, Goto, FailedEmpty, TypeOK
  <2>6. CASE Rollback(o) BY <2>6 DEF Rollback, Goto, FailedEmpty, TypeOK
  <2>7. CASE RollbackFails(o) BY <2>7 DEF RollbackFails, Goto, FailedEmpty, TypeOK
  <2> QED BY <1>3, <2>1, <2>2, <2>3, <2>4, <2>5, <2>6, <2>7
          DEF Step, SignTagFails, SignFails, PutUnderCommitFails, PutUnderTagFails, Failing
<1>4. ASSUME NEW o \in Ops, Crash(o)
      PROVE  store'[q] = {}
  BY <1>4 DEF Crash, Goto, FailedEmpty, TypeOK
<1>5. ASSUME NEW o \in Ops, PruneAttestation(o)
      PROVE  store'[q] = {}
  BY <1>5 DEF PruneAttestation, FailedEmpty, TypeOK
<1>6. ASSUME NEW name, DeleteOrphanTag(name)
      PROVE  store'[q] = {}
  BY <1>6 DEF DeleteOrphanTag, FailedEmpty
<1>7. CASE UNCHANGED vars
  BY <1>7 DEF vars, FailedEmpty
<1> QED BY <1>1, <1>2, <1>3, <1>4, <1>5, <1>6, <1>7 DEF Next

(* And then what was read stays stored. *)
LEMMA PriorsStoredNext ==
    ASSUME TypeOK, Decisions, FailedEmpty, PriorsStored, [Next]_vars
    PROVE  PriorsStored'
<1> SUFFICES ASSUME NEW o \in Ops, pc'[o] # "idle"
             PROVE  rel'[o].prior = <<>> \/ \E a \in Stored' : rel'[a].result = rel'[o].prior
  BY DEF PriorsStored
<1>1. Stored \subseteq Stored'
  <2>1. ASSUME NEW q \in Ops, PruneAttestation(q)
        PROVE  FALSE
    BY <2>1 DEF PruneAttestation, Partial, FailedEmpty
  <2> QED BY <2>1, NextStored
<1>2. \A a \in Stored : rel'[a].result = rel[a].result
  BY ResultsKept
<1>3. CASE pc[o] = "idle" /\ Start(o)
  <2>1. PICK r : Begin(o, r) /\ Decided(r)
    BY <1>3, StartDecided
  <2>2. rel'[o] = r
    BY <2>1 DEF Begin, TypeOK
  <2>3. CASE r.genesis
    BY <2>1, <2>2, <2>3 DEF Decided, Decision, FirstDecision
  <2>4. CASE ~r.genesis
    <3>1. PICK h \in ChainHead : r.prior = rel[h].result
      BY <2>1, <2>4 DEF Decided, Follows
    <3>2. h \in Stored
      BY HeadDecided
    <3> QED BY <1>1, <1>2, <2>2, <3>1, <3>2
  <2> QED BY <2>3, <2>4
<1>4. CASE pc[o] # "idle" /\ SameDecision(rel[o], rel'[o])
  BY <1>1, <1>2, <1>4 DEF PriorsStored, SameDecision
<1> QED BY <1>3, <1>4, NextKeepsDecisions

(* So histories are kept, even by concurrent commands that crash. *)
LEMMA HistoryWithoutFailures ==
    ASSUME ~MayFail
    PROVE  Spec => []AcceptedHistoryKept
<1>1. Init => TypeOK /\ Decisions /\ Bounded /\ FailedEmpty /\ PriorsStored
  BY TypeInit DEF Init, Decisions, Bounded, FailedEmpty, PriorsStored, Stored
<1>2. TypeOK /\ Decisions /\ Bounded /\ FailedEmpty /\ PriorsStored /\ [Next]_vars
        => (TypeOK /\ Decisions /\ Bounded /\ FailedEmpty /\ PriorsStored)'
  BY TypeNext, DecisionsNext, BoundedNext, FailedEmptyNext, PriorsStoredNext
<1>3. TypeOK /\ Decisions /\ Bounded /\ PriorsStored => AcceptedHistoryKept
  BY HistoryFromPriors
<1> QED BY <1>1, <1>2, <1>3, PTL DEF Spec

(* ---- One command at a time: the stored releases are one line. ---- *)

(* A settled release is stored by a command that will not withdraw it, and *)
(* its tag is there.  No two stored releases have one depth, and whatever  *)
(* is below another one is settled.                                        *)
Settled(o) == o \in Stored /\ pc[o] \in {"done", "dead", "stranded"} /\ Bound(rel[o].tag, refs)
OneAtEachDepth == \A a, b \in Stored : Depth(a) = Depth(b) => a = b
SettledBelow == \A a, b \in Stored : Depth(a) < Depth(b) => Settled(a)

(* A release continues another one that it read and names; the one it      *)
(* continues is settled.                                                   *)
Continues(o, a) ==
    /\ rel[a].result = rel[o].prior
    /\ rel[o].pred = << rel[a].tag >>
    /\ rel[o].action = "supersede" => rel[o].supersedes = << a >> /\ rel[o].to = rel[a].to
ContinuesSettled ==
    \A o \in Ops : pc[o] # "idle" /\ ~rel[o].genesis =>
        \E a \in Stored : Settled(a) /\ Continues(o, a)

(* What a running command will store goes on top; what is stored binds its *)
(* own tag; and a command that ended settled its release or failed, in     *)
(* which case its tag is gone and nobody has started since.                *)
InFlightOnTop ==
    \A o \in Ops : InFlight(o) => \A a \in Stored : a # o => Depth(a) < Depth(o)
StoredBinds ==
    \A o \in Stored : rel[o].tag.oid = o /\ rel[o].tag.commit = rel[o].to
EndedSettled ==
    \A o \in Stored : Settled(o) \/ InFlight(o) \/ pc[o] = "failed"
FailedIsPartial ==
    \A o \in Stored : pc[o] = "failed" =>
        rel[o].tag.name \notin DOMAIN refs /\ \A q \in Ops : ~InFlight(q)

(* The inductive invariant of serial commands: the stored releases are one *)
(* line, of which only the last may be unsettled.                          *)
Lineage ==
    /\ OneAtEachDepth /\ SettledBelow /\ ContinuesSettled /\ InFlightOnTop
    /\ StoredBinds /\ EndedSettled /\ FailedIsPartial

(* A settled release keeps its tag binding and its outcome. *)
LEMMA TagBoundOnce ==
    ASSUME TypeOK, [Next]_vars, NEW a \in Stored, Settled(a)
    PROVE  rel'[a].tag = rel[a].tag /\ pc'[a] = pc[a]
<1>1. a \in Ops /\ pc[a] \notin InFlightPCs \cup {"idle"}
  BY DEF Settled, Stored, InFlightPCs
<1>2. ASSUME NEW p, NEW to, NEW kind, AttestReview(p, to, kind)
      PROVE  rel' = rel /\ pc' = pc
  BY <1>2 DEF AttestReview
<1>3. ASSUME NEW o \in Ops, Start(o)
      PROVE  rel'[a] = rel[a] /\ pc'[a] = pc[a]
  BY <1>1, <1>3, StartBegins DEF Begin, MayBegin, TypeOK
<1>4. ASSUME NEW o \in Ops, Step(o) \/ Crash(o)
      PROVE  rel'[a] = rel[a] /\ pc'[a] = pc[a]
  <2>1. InFlight(o)
    BY <1>4 DEF Step, Crash, LookupTag, SignTagFails, SetTag, BindAndSign, SignFails,
                PutUnderCommit, PutUnderCommitFails, PutUnderTag, PutUnderTagFails, Rollback,
                RollbackFails, Failing, InFlight, InFlightPCs
  <2>2. a # o
    BY <1>1, <2>1 DEF InFlight
  <2> QED BY <1>1, <1>4, <2>2, StepKeepsDecisions
<1>5. ASSUME NEW o \in Ops, PruneAttestation(o)
      PROVE  rel' = rel /\ pc' = pc
  BY <1>5 DEF PruneAttestation
<1>6. ASSUME NEW name, DeleteOrphanTag(name)
      PROVE  rel' = rel /\ pc' = pc
  BY <1>6 DEF DeleteOrphanTag
<1>7. UNCHANGED vars => rel' = rel /\ pc' = pc
  BY DEF vars
<1> QED BY <1>2, <1>3, <1>4, <1>5, <1>6, <1>7, Zenon DEF Next

(* A release whose command is over keeps its attestation and its tag.      *)
LEMMA SettledNext ==
    ASSUME ~Concurrent, TypeOK, Custody, StoredBinds, [Next]_vars, NEW a \in Stored, Settled(a)
    PROVE  a \in Stored' /\ Settled(a)'
<1>1. a \in Ops /\ pc[a] \in {"done", "dead", "stranded"} /\ Bound(rel[a].tag, refs)
  BY DEF Settled, Stored
<1>2. rel'[a].tag = rel[a].tag /\ pc'[a] = pc[a]
  BY TagBoundOnce
<1>3. a \in Stored'
  <2>1. ASSUME NEW q \in Ops, PruneAttestation(q)
        PROVE  a # q
    BY <1>1, <2>1 DEF PruneAttestation, Partial, Bound
  <2> QED BY <2>1, NextStored
<1>4. PICK n : n = rel[a].tag.name
  OBVIOUS
<1>5. n \in DOMAIN refs /\ refs[n].oid = a
  BY <1>1, <1>4 DEF Bound, StoredBinds
<1>6. n \in DOMAIN refs' /\ refs'[n] = refs[n]
  <2>1. ASSUME NEW p, NEW to, NEW kind, AttestReview(p, to, kind)
        PROVE  refs' = refs
    BY <2>1 DEF AttestReview
  <2>2. ASSUME NEW o \in Ops, Start(o)
        PROVE  refs' = refs
    BY <2>2, StartBegins DEF Begin
  <2>3. ASSUME NEW o \in Ops, SetTag(o)
        PROVE  n \in DOMAIN refs' /\ refs'[n] = refs[n]
    <3>1. rel[o].tag.name \notin DOMAIN refs
      BY <2>3 DEF SetTag, Custody, CheckedIsFree
    <3> QED BY <1>5, <2>3, <3>1 DEF SetTag, WithTag
  <2>4. ASSUME NEW o \in Ops, Rollback(o)
        PROVE  n \in DOMAIN refs' /\ refs'[n] = refs[n]
    <3>1. pc[o] = "rollback" /\ o # a
      BY <1>1, <2>4 DEF Rollback
    <3>2. refs[rel[o].tag.name].oid = o
      <4>1. WrittenBy(rel[o].tag.name, o)
        BY <3>1 DEF Custody, HoldersHold, Holding
      <4> QED BY <4>1 DEF WrittenBy
    <3> QED BY <1>5, <2>4, <3>1, <3>2 DEF Rollback, WithoutTag
  <2>5. ASSUME NEW o \in Ops, Step(o) \/ Crash(o), ~SetTag(o), ~Rollback(o)
        PROVE  refs' = refs
    BY <2>5 DEF Step, Crash, LookupTag, SignTagFails, BindAndSign, SignFails, PutUnderCommit,
                PutUnderCommitFails, PutUnderTag, PutUnderTagFails, RollbackFails, Failing
  <2>6. ASSUME NEW o \in Ops, PruneAttestation(o)
        PROVE  refs' = refs
    BY <2>6 DEF PruneAttestation
  <2>7. ASSUME NEW name, DeleteOrphanTag(name)
        PROVE  n \in DOMAIN refs' /\ refs'[n] = refs[n]
    <3>1. name # n
      BY <1>4, <2>7 DEF DeleteOrphanTag, Orphan
    <3> QED BY <1>5, <2>7, <3>1 DEF DeleteOrphanTag, WithoutTag
  <2>8. UNCHANGED vars => refs' = refs
    BY DEF vars
  <2>9. refs' = refs => n \in DOMAIN refs' /\ refs'[n] = refs[n]
    BY <1>5
  <2>10. ASSUME NEW o \in Ops, Step(o) \/ Crash(o)
         PROVE  n \in DOMAIN refs' /\ refs'[n] = refs[n]
    BY <2>3, <2>4, <2>5, <2>9, <2>10
  <2> QED BY <2>1, <2>2, <2>6, <2>7, <2>8, <2>9, <2>10, Zenon DEF Next
<1>7. Bound(rel'[a].tag, refs')
  BY <1>1, <1>2, <1>4, <1>6 DEF Bound
<1> QED BY <1>1, <1>2, <1>3, <1>7 DEF Settled

(* An empty store is a line. *)
LEMMA LineageInit == Init => Lineage
<1>1. Init => Stored = {} /\ \A o \in Ops : pc[o] = "idle" /\ ~InFlight(o)
  BY DEF Init, Stored, InFlight, InFlightPCs
<1> QED BY <1>1 DEF Lineage, OneAtEachDepth, SettledBelow, ContinuesSettled, InFlightOnTop,
                    StoredBinds, EndedSettled, FailedIsPartial

(* While a failed command's attestation is stored, nobody has a head to    *)
(* continue.                                                               *)
LEMMA FailedBlocks ==
    ASSUME TypeOK, Decisions, Bounded, Lineage, NEW a \in Stored, pc[a] = "failed",
           NEW h \in ChainHead
    PROVE  FALSE
<1>1. h \in Stored /\ Bound(rel[h].tag, refs)
  BY HeadDecided
<1>2. rel[a].tag.name \notin DOMAIN refs
  BY DEF Lineage, FailedIsPartial
<1>3. Depth(a) <= Depth(h)
  BY HeadExtends DEF Extends, Depth
<1>4. Depth(a) \in Nat /\ Depth(h) \in Nat
  BY <1>1, StoredDecided
<1>5. ~(Depth(a) < Depth(h))
  BY <1>1, <1>2 DEF Lineage, SettledBelow, Settled, Bound
<1>6. a = h
  BY <1>1, <1>3, <1>4, <1>5 DEF Lineage, OneAtEachDepth
<1> QED BY <1>1, <1>2, <1>6 DEF Bound

(* A command starts from the head of the line, which is settled. *)
LEMMA StartLineage ==
    ASSUME ~Concurrent, TypeOK, Custody, Decisions, Bounded, Lineage, NEW o \in Ops, Start(o)
    PROVE  Lineage'
<1>0. [Next]_vars
  BY DEF Next
<1>1. PICK r : Begin(o, r) /\ Decided(r)
  BY StartDecided
<1>2. /\ pc[o] = "idle" /\ \A q \in Ops : ~InFlight(q)
  BY StartBegins DEF MayBegin, Quiet
<1>3. /\ store' = store /\ refs' = refs /\ rel'[o] = r /\ pc'[o] = "decided"
      /\ \A q \in Ops \ {o} : rel'[q] = rel[q] /\ pc'[q] = pc[q]
      /\ Stored' = Stored
  BY <1>1 DEF Begin, TypeOK, Stored
<1>4. o \notin Stored
  BY <1>2 DEF TypeOK, Stored
<1>5. \A a \in Stored : a \in Ops \ {o} /\ rel'[a] = rel[a] /\ pc'[a] = pc[a] /\ Depth(a)' = Depth(a)
  BY <1>3, <1>4 DEF Stored, Depth
<1>6. \A a \in Stored : Settled(a)' = Settled(a) /\ InFlight(a)' = InFlight(a)
  BY <1>3, <1>5 DEF Settled, InFlight
<1>7. OneAtEachDepth' /\ SettledBelow'
  BY <1>3, <1>5, <1>6 DEF Lineage, OneAtEachDepth, SettledBelow
<1>8. StoredBinds' /\ EndedSettled'
  BY <1>3, <1>5, <1>6 DEF Lineage, StoredBinds, EndedSettled
<1>9. CASE r.genesis
  <2>1. Stored = {}
    BY <1>1, <1>9 DEF Decided
  <2>2. ContinuesSettled'
    <3>1. \A q \in Ops : pc'[q] # "idle" => rel'[q].genesis
      BY <1>3, <1>9, <2>1 DEF Lineage, ContinuesSettled
    <3> QED BY <3>1 DEF ContinuesSettled
  <2>3. InFlightOnTop' /\ FailedIsPartial'
    BY <1>3, <2>1 DEF InFlightOnTop, FailedIsPartial
  <2> QED BY <1>7, <1>8, <2>2, <2>3 DEF Lineage
<1>10. CASE ~r.genesis
  <2>1. PICK h \in ChainHead : Follows(r, h)
    BY <1>1, <1>10 DEF Decided
  <2>2. h \in Stored /\ Bound(rel[h].tag, refs) /\ Decision(rel[h])
    BY HeadDecided
  <2>3. \A a \in Stored : pc[a] # "failed"
    BY FailedBlocks, <2>1
  <2>4. Settled(h)
    BY <1>2, <2>2, <2>3 DEF Lineage, EndedSettled, Stored
  <2>5. ContinuesSettled'
    <3> SUFFICES ASSUME NEW q \in Ops, pc'[q] # "idle", ~rel'[q].genesis
                 PROVE  \E a \in Stored' : Settled(a)' /\ Continues(q, a)'
      BY DEF ContinuesSettled
    <3>1. CASE q = o
      <4>1. Continues(q, h)'
        BY <1>3, <1>5, <2>1, <2>2, <3>1 DEF Continues, Follows
      <4> QED BY <1>3, <1>6, <2>2, <2>4, <4>1
    <3>2. CASE q # o
      <4>1. PICK a \in Stored : Settled(a) /\ Continues(q, a)
        BY <1>3, <3>2 DEF Lineage, ContinuesSettled
      <4>2. Continues(q, a)'
        BY <1>3, <1>5, <3>2, <4>1 DEF Continues
      <4> QED BY <1>3, <1>6, <4>1, <4>2
    <3> QED BY <3>1, <3>2
  <2>6. InFlightOnTop'
    <3>1. ASSUME NEW a \in Stored
          PROVE  Depth(a)' < Depth(o)'
      <4>1. Depth(a) <= Depth(h) /\ Depth(a) \in Nat /\ Depth(h) \in Nat
        BY <2>1, <2>2, HeadExtends, StoredDecided DEF Extends, Depth
      <4>2. Len(r.result) = Len(r.prior) + 1 /\ r.prior = rel[h].result
        BY <1>1, <2>1, ResultParts DEF Decided, Follows
      <4>3. Depth(o)' = Depth(h) + 1
        BY <1>3, <4>2 DEF Depth
      <4> QED BY <1>5, <4>1, <4>3
    <3>2. \A q \in Ops : InFlight(q)' => q = o
      BY <1>2, <1>3 DEF InFlight
    <3> QED BY <1>3, <3>1, <3>2 DEF InFlightOnTop
  <2>7. FailedIsPartial'
    BY <1>3, <1>5, <2>3 DEF FailedIsPartial
  <2> QED BY <1>7, <1>8, <2>5, <2>6, <2>7 DEF Lineage
<1> QED BY <1>9, <1>10

(* What a release continues stays settled. *)
LEMMA ContinuesKept ==
    ASSUME ~Concurrent, TypeOK, Custody, Lineage, [Next]_vars,
           NEW q \in Ops, pc[q] # "idle", SameDecision(rel[q], rel'[q]), ~rel'[q].genesis
    PROVE  \E a \in Stored' : Settled(a)' /\ Continues(q, a)'
<1>1. ~rel[q].genesis
  BY DEF SameDecision
<1>2. PICK a \in Stored : Settled(a) /\ Continues(q, a)
  BY <1>1 DEF Lineage, ContinuesSettled
<1>3. a \in Stored' /\ Settled(a)'
  BY <1>2, SettledNext DEF Lineage
<1>4. rel'[a].tag = rel[a].tag /\ rel'[a].result = rel[a].result /\ rel'[a].to = rel[a].to
  BY <1>2, TagBoundOnce, ResultsKept DEF SameDecision
<1>5. Continues(q, a)'
  BY <1>2, <1>4 DEF Continues, SameDecision
<1> QED BY <1>3, <1>5

(* A step of a command that stores nothing keeps the line. *)
LEMMA MoveLineage ==
    ASSUME ~Concurrent, TypeOK, Custody, Lineage, [Next]_vars,
           NEW o \in Ops, Step(o) \/ Crash(o), InFlight(o), Stored' = Stored,
           \A a \in Stored : rel'[a].tag = rel[a].tag,
           o \in Stored =>
              \/ pc'[o] \in InFlightPCs
              \/ pc'[o] \in {"done", "dead", "stranded"} /\ Bound(rel[o].tag, refs')
              \/ pc'[o] = "failed" /\ rel[o].tag.name \notin DOMAIN refs'
    PROVE  Lineage'
<1>1. \A q \in Ops : /\ SameDecision(rel[q], rel'[q])
                     /\ q # o => pc'[q] = pc[q]
                     /\ pc'[q] # "idle" => pc[q] # "idle"
  BY StepKeepsDecisions
<1>2. \A q \in Ops \ {o} : ~InFlight(q) /\ ~InFlight(q)'
  BY <1>1 DEF Custody, OneInFlight, InFlight
<1>3. \A q \in Ops : Depth(q)' = Depth(q) /\ rel'[q].to = rel[q].to
  BY <1>1 DEF Depth, SameDecision
<1>4. \A a \in Stored : a \in Ops /\ Depth(a)' = Depth(a) /\ rel'[a].to = rel[a].to
  BY <1>3 DEF Stored
<1>5. \A a \in Stored : Settled(a) => Settled(a)'
  BY SettledNext DEF Lineage
<1>6. \A a \in Stored : pc[a] # "failed"
  BY DEF Lineage, FailedIsPartial
<1>7. OneAtEachDepth' /\ SettledBelow'
  BY <1>4, <1>5 DEF Lineage, OneAtEachDepth, SettledBelow
<1>8. ContinuesSettled'
  BY <1>1, ContinuesKept DEF ContinuesSettled
<1>9. InFlightOnTop'
  BY <1>2, <1>3, <1>4 DEF Lineage, InFlightOnTop
<1>10. StoredBinds'
  BY <1>4 DEF Lineage, StoredBinds
<1>11. EndedSettled'
  <2> SUFFICES ASSUME NEW a \in Stored
               PROVE  Settled(a)' \/ InFlight(a)' \/ pc'[a] = "failed"
    BY DEF EndedSettled
  <2>1. CASE a = o
    BY <2>1 DEF Settled, InFlight
  <2>2. CASE a # o
    BY <1>2, <1>4, <1>5, <1>6, <2>2 DEF Lineage, EndedSettled
  <2> QED BY <2>1, <2>2
<1>12. FailedIsPartial'
  <2> SUFFICES ASSUME NEW a \in Stored, pc'[a] = "failed"
               PROVE  rel'[a].tag.name \notin DOMAIN refs' /\ \A q \in Ops : ~InFlight(q)'
    BY DEF FailedIsPartial
  <2>1. a = o
    BY <1>1, <1>4, <1>6
  <2>2. pc'[o] = "failed" /\ o \in Stored
    BY <2>1
  <2>3. rel[o].tag.name \notin DOMAIN refs' /\ ~InFlight(o)'
    BY <2>2 DEF InFlight, InFlightPCs
  <2>4. rel'[a].tag = rel[a].tag
    OBVIOUS
  <2> QED BY <1>2, <2>1, <2>3, <2>4
<1> QED BY <1>7, <1>8, <1>9, <1>10, <1>11, <1>12 DEF Lineage

(* Storing under the commit puts the release on top of the line. *)
LEMMA PutLineage ==
    ASSUME ~Concurrent, TypeOK, Custody, Decisions, Lineage, [Next]_vars,
           NEW o \in Ops, PutUnderCommit(o)
    PROVE  Lineage'
<1>1. pc[o] = "signed" /\ pc'[o] = "half" /\ rel' = rel /\ refs' = refs
      /\ \A q \in Ops \ {o} : pc'[q] = pc[q]
  BY DEF PutUnderCommit, Goto, TypeOK
<1>2. Stored' = Stored \cup {o}
  BY DEF PutUnderCommit, Stored, TypeOK
<1>3. InFlight(o) /\ InFlight(o)'
  BY <1>1 DEF InFlight, InFlightPCs
<1>4. \A q \in Ops \ {o} : ~InFlight(q) /\ ~InFlight(q)'
  BY <1>1, <1>3 DEF Custody, OneInFlight, InFlight
<1>5. \A q \in Ops : Depth(q)' = Depth(q)
  BY <1>1 DEF Depth
<1>6. \A a \in Stored : a \in Ops
  BY DEF Stored
<1>7. \A a \in Stored : a # o => Depth(a) < Depth(o) /\ Settled(a) /\ Settled(a)'
  <2> SUFFICES ASSUME NEW a \in Stored, a # o
               PROVE  Depth(a) < Depth(o) /\ Settled(a) /\ Settled(a)'
    OBVIOUS
  <2>1. Depth(a) < Depth(o)
    BY <1>3 DEF Lineage, InFlightOnTop
  <2>2. pc[a] # "failed" /\ ~InFlight(a)
    BY <1>3, <1>4, <1>6 DEF Lineage, FailedIsPartial
  <2>3. Settled(a)
    BY <2>2 DEF Lineage, EndedSettled
  <2> QED BY <2>1, <2>3, SettledNext DEF Lineage
<1>8. Depth(o) \in Nat /\ \A a \in Stored : Depth(a) \in Nat
  BY <1>1, StoredDecided, ResultParts DEF Decisions, Depth
<1>9. OneAtEachDepth'
  BY <1>2, <1>5, <1>6, <1>7, <1>8 DEF Lineage, OneAtEachDepth
<1>10. SettledBelow'
  BY <1>2, <1>5, <1>6, <1>7, <1>8 DEF SettledBelow
<1>11. ContinuesSettled'
  <2>1. \A q \in Ops : SameDecision(rel[q], rel'[q]) /\ (pc'[q] # "idle" => pc[q] # "idle")
    BY StepKeepsDecisions DEF Step
  <2> QED BY <2>1, ContinuesKept DEF ContinuesSettled
<1>12. InFlightOnTop'
  BY <1>2, <1>4, <1>5, <1>6, <1>7 DEF InFlightOnTop
<1>13. StoredBinds'
  BY <1>1, <1>2 DEF Lineage, StoredBinds, Custody, SignedBinds
<1>14. EndedSettled'
  BY <1>2, <1>3, <1>7 DEF EndedSettled
<1>15. FailedIsPartial'
  BY <1>1, <1>2, <1>7 DEF FailedIsPartial, Settled
<1> QED BY <1>9, <1>10, <1>11, <1>12, <1>13, <1>14, <1>15 DEF Lineage

(* Of a stored release that is in flight the tag is there.                 *)
LEMMA FlyingBound ==
    ASSUME Custody, StoredBinds, NEW o \in Stored, pc[o] \in Holding
    PROVE  Bound(rel[o].tag, refs)
<1>1. WrittenBy(rel[o].tag.name, o) /\ rel[o].tag.name \in DOMAIN refs
  BY DEF Custody, HoldersHold, Stored
<1>2. rel[o].tag.oid = o /\ rel[o].tag.commit = rel[o].to
  BY DEF StoredBinds
<1> QED BY <1>1, <1>2 DEF WrittenBy, Bound

(* A command under way that has stored is half-way through, or rolling     *)
(* back.                                                                   *)
LEMMA StoredStage ==
    ASSUME Custody, NEW o \in Stored, InFlight(o)
    PROVE  pc[o] \in {"half", "rollback"}
BY DEF Custody, StoredInOrder, Stored, InFlight, InFlightPCs

(* So every step of a command, and its crash, keeps the line. *)
LEMMA StepLineage ==
    ASSUME ~Concurrent, TypeOK, Custody, Decisions, Lineage, NEW o \in Ops, Step(o) \/ Crash(o)
    PROVE  Lineage'
<1>0. [Next]_vars
  BY DEF Next
<1>1. CASE PutUnderCommit(o)
  BY <1>0, <1>1, PutLineage
<1>2. CASE ~PutUnderCommit(o)
  <2>1. InFlight(o)
    BY DEF Step, Crash, LookupTag, SignTagFails, SetTag, BindAndSign, SignFails,
           PutUnderCommit, PutUnderCommitFails, PutUnderTag, PutUnderTagFails, Rollback,
           RollbackFails, Failing, InFlight, InFlightPCs
  <2>2. Stored' = Stored
    <3>1. CASE PutUnderTag(o)
      BY <3>1 DEF PutUnderTag, Stored, TypeOK, Custody, StoredInOrder
    <3>2. CASE ~PutUnderTag(o)
      <4>1. store' = store
        BY <1>2, <3>2 DEF Step, Crash, LookupTag, SignTagFails, SetTag, BindAndSign, SignFails,
           PutUnderCommitFails, PutUnderTagFails, Rollback, RollbackFails, Failing
      <4> QED BY <4>1 DEF Stored
    <3> QED BY <3>1, <3>2
  <2>3. ASSUME o \in Stored
        PROVE  ~BindAndSign(o) /\ ~LookupTag(o) /\ ~SignTagFails(o) /\ ~SetTag(o)
    <3>1. pc[o] \in {"half", "rollback"}
      BY <2>1, <2>3, StoredStage
    <3> QED BY <3>1 DEF BindAndSign, LookupTag, SignTagFails, SetTag
  <2>4. \A a \in Stored : rel'[a].tag = rel[a].tag
    <3>1. CASE ~BindAndSign(o)
      <4>1. rel' = rel
        BY <1>2, <3>1 DEF Step, Crash, LookupTag, SignTagFails, SetTag, SignFails, PutUnderTag,
           PutUnderCommitFails, PutUnderTagFails, Rollback, RollbackFails, Failing
      <4> QED BY <4>1
    <3>2. CASE BindAndSign(o)
      BY <2>3, <3>2 DEF BindAndSign, TypeOK, Stored
    <3> QED BY <3>1, <3>2
  <2>5. ASSUME o \in Stored
        PROVE  \/ pc'[o] \in InFlightPCs
               \/ pc'[o] \in {"done", "dead", "stranded"} /\ Bound(rel[o].tag, refs')
               \/ pc'[o] = "failed" /\ rel[o].tag.name \notin DOMAIN refs'
    <3>1. pc[o] \in {"half", "rollback"} /\ Bound(rel[o].tag, refs)
      BY <2>1, <2>5, StoredStage, FlyingBound DEF Lineage, Holding
    <3>2. CASE PutUnderTag(o)
      BY <3>1, <3>2 DEF PutUnderTag, Goto, TypeOK
    <3>3. CASE PutUnderTagFails(o) \/ PutUnderCommitFails(o) \/ SignFails(o)
      BY <3>3 DEF PutUnderTagFails, PutUnderCommitFails, SignFails, Failing, Goto, TypeOK, InFlightPCs
    <3>4. CASE Rollback(o)
      BY <3>4 DEF Rollback, Goto, TypeOK, WithoutTag
    <3>5. CASE RollbackFails(o)
      BY <3>1, <3>5 DEF RollbackFails, Goto, TypeOK
    <3>6. CASE Crash(o)
      BY <3>1, <3>6 DEF Crash, Goto, TypeOK
    <3> QED BY <1>2, <2>3, <2>5, <3>2, <3>3, <3>4, <3>5, <3>6 DEF Step
  <2> QED BY <1>0, <2>1, <2>2, <2>4, <2>5, MoveLineage
<1> QED BY <1>1, <1>2

(* Pruning takes an unsettled release off its end. *)
LEMMA PruneLineage ==
    ASSUME ~Concurrent, TypeOK, Custody, Lineage, NEW o \in Ops, PruneAttestation(o)
    PROVE  Lineage'
<1>0. [Next]_vars
  BY DEF Next
<1>1. /\ rel' = rel /\ pc' = pc /\ refs' = refs /\ Stored' = Stored \ {o}
      /\ rel[o].tag.name \notin DOMAIN refs
  BY DEF PruneAttestation, Partial, Stored, TypeOK
<1>2. \A a \in Stored' : a \in Stored /\ Settled(a)' = Settled(a)
  BY <1>1 DEF Settled
<1>3. \A q \in Ops : InFlight(q)' = InFlight(q) /\ Depth(q)' = Depth(q)
  BY <1>1 DEF InFlight, Depth
<1>4. \A a \in Stored : a \in Ops
  BY DEF Stored
<1>5. ContinuesSettled'
  <2>1. \A q \in Ops : SameDecision(rel[q], rel'[q]) /\ pc'[q] = pc[q]
    BY <1>1 DEF SameDecision
  <2> QED BY <1>0, <2>1, ContinuesKept DEF ContinuesSettled
<1>6. OneAtEachDepth' /\ SettledBelow'
  BY <1>2, <1>3, <1>4 DEF Lineage, OneAtEachDepth, SettledBelow
<1>7. InFlightOnTop' /\ StoredBinds'
  BY <1>1, <1>2, <1>3, <1>4 DEF Lineage, InFlightOnTop, StoredBinds
<1>8. EndedSettled' /\ FailedIsPartial'
  BY <1>1, <1>2, <1>3, <1>4 DEF Lineage, EndedSettled, FailedIsPartial
<1> QED BY <1>5, <1>6, <1>7, <1>8 DEF Lineage

(* Reviews leave the line alone. *)
LEMMA SameLineage ==
    ASSUME Lineage, UNCHANGED <<refs, store, pc, rel>>
    PROVE  Lineage'
BY DEF Lineage, OneAtEachDepth, SettledBelow, ContinuesSettled, InFlightOnTop, StoredBinds,
       EndedSettled, FailedIsPartial, Depth, Settled, Stored, InFlight, Continues

(* An operator who deletes an orphan tag deletes none of the line. *)
LEMMA DeleteLineage ==
    ASSUME ~Concurrent, TypeOK, Custody, Lineage, NEW name \in DOMAIN refs, DeleteOrphanTag(name)
    PROVE  Lineage'
<1>0. [Next]_vars
  BY DEF Next
<1>1. /\ rel' = rel /\ pc' = pc /\ store' = store /\ Stored' = Stored
      /\ DOMAIN refs' \subseteq DOMAIN refs
  BY DEF DeleteOrphanTag, WithoutTag, Stored
<1>2. \A a \in Stored : Settled(a) => Settled(a)'
  BY <1>0, SettledNext DEF Lineage
<1>3. \A q \in Ops : InFlight(q)' = InFlight(q) /\ Depth(q)' = Depth(q)
  BY <1>1 DEF InFlight, Depth
<1>4. \A a \in Stored : a \in Ops
  BY DEF Stored
<1>5. ContinuesSettled'
  <2>1. \A q \in Ops : SameDecision(rel[q], rel'[q]) /\ pc'[q] = pc[q]
    BY <1>1 DEF SameDecision
  <2> QED BY <1>0, <2>1, ContinuesKept DEF ContinuesSettled
<1>6. OneAtEachDepth' /\ SettledBelow'
  BY <1>1, <1>2, <1>3, <1>4 DEF Lineage, OneAtEachDepth, SettledBelow
<1>7. InFlightOnTop' /\ StoredBinds'
  BY <1>1, <1>3, <1>4 DEF Lineage, InFlightOnTop, StoredBinds
<1>8. EndedSettled' /\ FailedIsPartial'
  BY <1>1, <1>2, <1>3, <1>4 DEF Lineage, EndedSettled, FailedIsPartial
<1> QED BY <1>5, <1>6, <1>7, <1>8 DEF Lineage

(* The line is kept by every step. *)
LEMMA LineageNext ==
    ASSUME ~Concurrent
    PROVE  TypeOK /\ Custody /\ Decisions /\ Bounded /\ Lineage /\ [Next]_vars => Lineage'
<1> SUFFICES ASSUME TypeOK, Custody, Decisions, Bounded, Lineage, [Next]_vars
             PROVE  Lineage'
  OBVIOUS
<1>1. ASSUME NEW p, NEW to, NEW kind, AttestReview(p, to, kind)
      PROVE  Lineage'
  BY <1>1, SameLineage DEF AttestReview
<1>2. ASSUME NEW o \in Ops, Start(o)
      PROVE  Lineage'
  BY <1>2, StartLineage
<1>3. ASSUME NEW o \in Ops, Step(o) \/ Crash(o)
      PROVE  Lineage'
  BY <1>3, StepLineage
<1>4. ASSUME NEW o \in Ops, PruneAttestation(o)
      PROVE  Lineage'
  BY <1>4, PruneLineage
<1>5. ASSUME NEW name \in DOMAIN refs, DeleteOrphanTag(name)
      PROVE  Lineage'
  BY <1>5, DeleteLineage
<1>6. UNCHANGED vars => Lineage'
  BY SameLineage DEF vars
<1> QED BY <1>1, <1>2, <1>3, <1>4, <1>5, <1>6, Zenon DEF Next

(* Everything that holds of the commands while only one is in flight. *)
SerialInv == TypeOK /\ Custody /\ Decisions /\ Bounded /\ Lineage

(* It does hold. *)
LEMMA SerialHolds ==
    ASSUME ~Concurrent
    PROVE  Spec => []SerialInv
<1>1. Init => SerialInv
  <2>1. Init => Decisions /\ Bounded
    BY DEF Init, Decisions, Bounded, Stored
  <2> QED BY <2>1, TypeInit, CustodyInit, LineageInit DEF SerialInv
<1>2. SerialInv /\ [Next]_vars => SerialInv'
  BY TypeNext, CustodyNext, DecisionsNext, BoundedNext, LineageNext DEF SerialInv
<1> QED BY <1>1, <1>2, PTL DEF Spec

(* ---- Reading a line. ---- *)

(* A line: stored releases among which nothing below one is missing.       *)
Line(S) ==
    /\ S \in SUBSET Stored /\ S # {}
    /\ \A o \in S, a \in Stored : Depth(a) < Depth(o) => a \in S

(* What the reader finds of a line: one head, and the complete chain to    *)
(* it, which is the whole line.                                            *)
LineChain(S, h, chain) ==
    /\ h \in S /\ \A a \in S : Depth(a) <= Depth(h)
    /\ Deduplicated(S, rel, rank) = S /\ ChainHeads(S, rel) = {h}
    /\ chain = ChainTo(h, S, rel)
    /\ LinkedPath(chain, h, S, rel) /\ CompleteChain(chain, rel)
    /\ Len(chain) = Depth(h) /\ DOMAIN chain = 1..Depth(h)
    /\ \A i \in 1..Depth(h) : chain[i] \in S /\ Depth(chain[i]) = i
    /\ \A a \in S : Depth(a) \in 1..Depth(h) /\ chain[Depth(a)] = a

(* A first release is at the bottom; any other one has what it continues   *)
(* directly below it.                                                      *)
LEMMA GenesisDepth ==
    ASSUME TypeOK, Decisions, Lineage, NEW o \in Stored
    PROVE  /\ rel[o].genesis => Depth(o) = 1 /\ GenesisOK(o, rel)
           /\ ~rel[o].genesis => /\ Depth(o) >= 2
                                 /\ \E a \in Stored : Depth(a) = Depth(o) - 1 /\ Continues(o, a)
<1>1. /\ o \in Ops /\ pc[o] # "idle" /\ Decision(rel[o]) /\ Depth(o) \in Nat
      /\ Len(rel[o].prior) = Depth(o) - 1
  BY StoredDecided
<1>2. CASE rel[o].genesis
  <2>1. rel[o].prior = <<>> /\ rel[o].action = "advance"
    BY <1>1, <1>2 DEF Decision, FirstDecision
  <2>2. Len(rel[o].prior) = 0
    BY <2>1
  <2> QED BY <1>1, <1>2, <2>1, <2>2 DEF GenesisOK
<1>3. CASE ~rel[o].genesis
  <2>1. PICK a \in Stored : Continues(o, a)
    BY <1>1, <1>3 DEF Lineage, ContinuesSettled
  <2>2. Depth(a) = Depth(o) - 1
    BY <1>1, <2>1 DEF Continues, Depth
  <2>3. Depth(a) >= 1 /\ Depth(a) \in Nat
    BY StoredDecided
  <2>4. Depth(o) >= 2
    BY <1>1, <2>2, <2>3
  <2> QED BY <1>3, <2>1, <2>2, <2>4
<1> QED BY <1>2, <1>3

(* A stored release that names the digest of another one continues it. *)
LEMMA PriorLinks ==
    ASSUME TypeOK, Decisions, Lineage, NEW p \in Stored, NEW c \in Stored,
           rel[p].result = rel[c].prior
    PROVE  Linked(p, c, rel) /\ Depth(c) = Depth(p) + 1
<1>1. Depth(p) \in Nat /\ Depth(p) >= 1 /\ Depth(c) \in Nat /\ Len(rel[c].prior) = Depth(c) - 1
  BY StoredDecided
<1>2. Depth(c) = Depth(p) + 1
  BY <1>1 DEF Depth
<1>3. ~rel[c].genesis
  BY <1>1, <1>2, GenesisDepth
<1>4. PICK a \in Stored : Depth(a) = Depth(c) - 1 /\ Continues(c, a)
  BY <1>3, GenesisDepth
<1>5. a = p
  BY <1>1, <1>2, <1>4 DEF Lineage, OneAtEachDepth
<1>6. rel[c].prior # <<>>
  BY <1>1, <1>2
<1>7. rel[c].action \in {"advance", "recut", "supersede"}
  BY StoredDecided DEF ReleaseOK
<1> QED BY <1>2, <1>3, <1>4, <1>5, <1>6, <1>7 DEF Linked, Continues, SupersedesOK

(* No release of a line is a duplicate. *)
LEMMA LineDeduplicated ==
    ASSUME TypeOK, Decisions, Lineage, NEW S \in SUBSET Stored
    PROVE  Deduplicated(S, rel, rank) = S
<1>1. ASSUME NEW r \in S, NEW q \in S, rel[q].result = rel[r].result
      PROVE  rank[r] <= rank[q]
  <2>1. q = r
    BY <1>1 DEF Lineage, OneAtEachDepth, Depth
  <2>2. rank[r] \in Nat
    BY PolicyAssumption DEF TypeOK, Stored
  <2> QED BY <2>1, <2>2
<1> QED BY <1>1 DEF Deduplicated

(* The walk down a line meets one release of every depth. *)
LEMMA LineDepths ==
    ASSUME TypeOK, Decisions, Lineage, NEW S, Line(S), NEW h \in S, NEW chain,
           LinkedPath(chain, h, S, rel), Stops(chain, S, rel)
    PROVE  /\ rel[chain[1]].genesis
           /\ Len(chain) = Depth(h) /\ DOMAIN chain = 1..Depth(h)
           /\ \A i \in 1..Depth(h) : chain[i] \in S /\ Depth(chain[i]) = i
<1>1. PICK n : n = Len(chain)
  OBVIOUS
<1>2. /\ chain \in Seq(S) /\ n >= 1 /\ chain[n] = h
      /\ \A i \in 2..n : rel[chain[i - 1]].result = rel[chain[i]].prior
  BY <1>1 DEF LinkedPath
<1>3. n \in Nat /\ DOMAIN chain = 1..n /\ \A i \in 1..n : chain[i] \in S
  BY <1>1, <1>2, LenProperties, ElementOfSeq
<1>4. S \subseteq Stored
  BY DEF Line
<1>5. chain[1] \in S
  BY <1>2, <1>3
<1>6. rel[chain[1]].genesis
  <2>1. SUFFICES ASSUME ~rel[chain[1]].genesis PROVE FALSE
    OBVIOUS
  <2>2. PICK a \in Stored : Depth(a) = Depth(chain[1]) - 1 /\ Continues(chain[1], a)
    BY <1>4, <1>5, <2>1, GenesisDepth
  <2>3. Depth(chain[1]) \in Nat
    BY <1>4, <1>5, StoredDecided
  <2>4. a \in S
    BY <1>5, <2>2, <2>3 DEF Line
  <2> QED BY <2>1, <2>2, <2>4 DEF Stops, Before, Continues
<1> DEFINE right == {i \in 1..n : Depth(chain[i]) = i}
<1>7. 1 \in right
  BY <1>2, <1>3, <1>4, <1>5, <1>6, GenesisDepth
<1>8. ASSUME NEW i \in 2..n, i - 1 \in right
      PROVE  i \in right
  <2>1. chain[i - 1] \in Stored /\ chain[i] \in Stored /\ i \in 1..n
    BY <1>3, <1>4
  <2>2. Depth(chain[i]) = Depth(chain[i - 1]) + 1
    BY <1>2, <2>1, PriorLinks
  <2> QED BY <1>8, <2>1, <2>2
<1>9. \A i \in 1..n : i \in right
  <2> HIDE DEF right
  <2> QED BY <1>3, <1>7, <1>8, PlaceInduction
<1>10. Depth(h) = n
  BY <1>2, <1>3, <1>9
<1> QED BY <1>1, <1>3, <1>6, <1>9, <1>10

(* The chain it returns passes verifyCompleteChain, digests included. *)
LEMMA LineComplete ==
    ASSUME TypeOK, Decisions, Lineage, NEW S \in SUBSET Stored, NEW h \in S, NEW chain,
           LinkedPath(chain, h, S, rel), rel[chain[1]].genesis
    PROVE  CompleteChain(chain, rel)
<1>1. PICK n : n = Len(chain)
  OBVIOUS
<1>2. /\ chain \in Seq(S) /\ n >= 1 /\ chain[n] = h
      /\ \A i \in 2..n : rel[chain[i - 1]].result = rel[chain[i]].prior
  BY <1>1 DEF LinkedPath
<1>3. n \in Nat /\ DOMAIN chain = 1..n /\ \A i \in 1..n : chain[i] \in Stored
  BY <1>1, <1>2, LenProperties, ElementOfSeq
<1>4. GenesisOK(chain[1], rel)
  BY <1>2, <1>3, GenesisDepth
<1>5. \A i \in 2..n : i - 1 \in 1..n /\ i \in 1..n /\ Linked(chain[i - 1], chain[i], rel)
  <2> SUFFICES ASSUME NEW i \in 2..n
               PROVE  i - 1 \in 1..n /\ i \in 1..n /\ Linked(chain[i - 1], chain[i], rel)
    OBVIOUS
  <2>1. i - 1 \in 1..n /\ i \in 1..n
    BY <1>3
  <2> QED BY <1>2, <1>3, <2>1, PriorLinks
<1> DEFINE carries == {i \in 1..n : CarriedBaseline(chain, i, rel) = StateOf(rel[chain[i]]).baseline}
<1>6. 1 \in carries
  <2>1. PICK r : r = rel[chain[1]]
    OBVIOUS
  <2>2. Decision(r) /\ r.action = "advance"
    BY <1>2, <1>3, <1>4, <2>1, StoredDecided DEF GenesisOK
  <2>3. StateOf(r).baseline = r.pred
    BY <2>2 DEF Decision, AppendsState
  <2>4. CarriedBaseline(chain, 1, rel) = r.pred
    BY <2>1, <2>2, CarriedFirst
  <2> QED BY <1>2, <1>3, <2>1, <2>3, <2>4
<1>7. ASSUME NEW i \in 2..n, i - 1 \in carries
      PROVE  i \in carries
  <2>1. PICK r, p : r = rel[chain[i]] /\ p = rel[chain[i - 1]]
    OBVIOUS
  <2>2. Decision(r) /\ Decision(p) /\ p.result = r.prior
    BY <1>2, <1>3, <1>5, <2>1, StoredDecided
  <2>3. p.result[Len(p.result)] = StateOf(p)
    BY <2>2, ResultParts
  <2>4. StateOf(r).baseline = IF r.action = "advance" THEN r.pred
                              ELSE r.prior[Len(r.prior)].baseline
    BY <2>2 DEF Decision, AppendsState
  <2>5. CarriedBaseline(chain, i - 1, rel) = StateOf(p).baseline
    BY <1>7, <2>1
  <2>6. CarriedBaseline(chain, i, rel) = IF r.action = "advance" THEN r.pred
                                         ELSE CarriedBaseline(chain, i - 1, rel)
    BY <2>1, CarriedNext
  <2>7. CarriedBaseline(chain, i, rel) = StateOf(r).baseline
    BY <2>2, <2>3, <2>4, <2>5, <2>6
  <2> QED BY <2>1, <2>7, <1>5
<1>8. \A i \in 1..n : i \in carries
  <2> HIDE DEF carries
  <2> QED BY <1>3, <1>6, <1>7, PlaceInduction
<1>9. ASSUME NEW i \in 1..n
      PROVE  rel[chain[i]].result =
               Append(rel[chain[i]].prior,
                      ReconstructState(rel[chain[i]], CarriedBaseline(chain, i, rel)))
  <2>1. PICK r : r = rel[chain[i]]
    OBVIOUS
  <2>2. Decision(r)
    BY <1>3, <2>1, StoredDecided
  <2>3. CarriedBaseline(chain, i, rel) = StateOf(r).baseline
    BY <1>8, <2>1
  <2>4. r.result = Append(r.prior, ReconstructState(r, StateOf(r).baseline))
    BY <2>2 DEF Decision, AppendsState
  <2> QED BY <2>1, <2>3, <2>4
<1> HIDE DEF carries
<1> QED BY <1>1, <1>3, <1>4, <1>5, <1>9 DEF CompleteChain

(* So the reader finds that of every line. *)
LEMMA LineRead ==
    ASSUME TypeOK, Decisions, Bounded, Lineage, NEW S, Line(S)
    PROVE  \E h \in S : \E chain : LineChain(S, h, chain)
<1> DEFINE depths == {Depth(a) : a \in S}
<1>1. S \in SUBSET Stored /\ \A a \in S : Depth(a) \in Nat
  BY StoredDecided DEF Line
<1>2. PICK n \in Nat : \A x \in depths : x <= n
  BY <1>1 DEF Bounded
<1>3. depths \in SUBSET Nat /\ depths # {}
  BY <1>1 DEF Line
<1>4. PICK most \in depths : \A x \in depths : x <= most
  <2> HIDE DEF depths
  <2> QED BY <1>2, <1>3, GreatestNat
<1>5. PICK h \in S : Depth(h) = most
  OBVIOUS
<1>6. \A a \in S : Depth(a) <= Depth(h)
  BY <1>4, <1>5
<1>7. PICK chain : chain = ChainTo(h, S, rel)
  OBVIOUS
<1>8. LinkedPath(chain, h, S, rel) /\ Stops(chain, S, rel)
  BY <1>1, <1>7, StoredChain
<1>9. /\ rel[chain[1]].genesis /\ Len(chain) = Depth(h) /\ DOMAIN chain = 1..Depth(h)
      /\ \A i \in 1..Depth(h) : chain[i] \in S /\ Depth(chain[i]) = i
  BY <1>8, LineDepths
<1>10. CompleteChain(chain, rel)
  BY <1>1, <1>8, <1>9, LineComplete
<1>11. \A a \in S : Depth(a) \in 1..Depth(h) /\ chain[Depth(a)] = a
  <2> SUFFICES ASSUME NEW a \in S
               PROVE  Depth(a) \in 1..Depth(h) /\ chain[Depth(a)] = a
    OBVIOUS
  <2>1. Depth(a) \in Nat /\ Depth(a) >= 1 /\ Depth(h) \in Nat
    BY <1>1, StoredDecided
  <2>2. Depth(a) \in 1..Depth(h)
    BY <1>6, <2>1
  <2>3. chain[Depth(a)] \in S /\ Depth(chain[Depth(a)]) = Depth(a)
    BY <1>9, <2>2
  <2> QED BY <1>1, <2>2, <2>3 DEF Lineage, OneAtEachDepth
<1>12. ChainHeads(S, rel) = {h}
  <2>1. ASSUME NEW q \in S, rel[q].prior = rel[h].result
        PROVE  FALSE
    <3>1. Depth(q) = Depth(h) + 1
      BY <1>1, <2>1, PriorLinks
    <3> QED BY <1>1, <1>6, <3>1
  <2>2. ASSUME NEW r \in S, r # h
        PROVE  \E q \in S : rel[q].prior = rel[r].result
    <3>1. PICK i : i = Depth(r) + 1
      OBVIOUS
    <3>2. Depth(r) # Depth(h)
      BY <1>1, <2>2 DEF Lineage, OneAtEachDepth
    <3>3. i \in 2..Len(chain) /\ i \in 1..Depth(h) /\ chain[i - 1] = r
      BY <1>1, <1>9, <1>11, <3>1, <3>2
    <3>4. rel[chain[i - 1]].result = rel[chain[i]].prior
      BY <1>8, <3>3 DEF LinkedPath
    <3> QED BY <1>9, <3>3, <3>4
  <2> QED BY <2>1, <2>2 DEF ChainHeads
<1>13. Deduplicated(S, rel, rank) = S
  BY <1>1, LineDeduplicated
<1> HIDE DEF depths
<1> QED BY <1>6, <1>7, <1>8, <1>9, <1>10, <1>11, <1>12, <1>13 DEF LineChain

(* ---- What a reader sees, one command at a time. ---- *)

(* The stored releases are a line; read is the same line once its last tag *)
(* is found.                                                               *)
LEMMA StoredLine ==
    ASSUME TypeOK, Decisions, Bounded, Lineage, Stored # {}
    PROVE  \E h \in Stored : \E chain :
              LineChain(Stored, h, chain) /\ (Bound(rel[h].tag, refs) => ChainHead = {h})
<1>1. Line(Stored)
  BY DEF Line
<1>2. PICK h, chain : h \in Stored /\ LineChain(Stored, h, chain)
  BY <1>1, LineRead
<1>3. Bound(rel[h].tag, refs) => ChainHead = {h}
  BY <1>2 DEF LineChain, ChainHead, AcceptedHead
<1> QED BY <1>2, <1>3

(* When there is an accepted head, everything stored is on its chain. *)
LEMMA AcceptedIsStored ==
    ASSUME TypeOK, Decisions, Bounded, Lineage, NEW h \in ChainHead
    PROVE  AcceptedOps = Stored /\ LineChain(Stored, h, Accepted)
<1>1. h \in Stored
  BY HeadDecided
<1>2. PICK top, chain : top \in Stored /\ LineChain(Stored, top, chain)
  BY <1>1, StoredLine
<1>3. ChainHeads(Stored, rel) = {top} /\ Deduplicated(Stored, rel, rank) = Stored
  BY <1>2 DEF LineChain
<1>4. h = top
  BY <1>3 DEF ChainHead, AcceptedHead
<1>5. Accepted = chain
  BY <1>2, <1>3, <1>4, AcceptedParts DEF LineChain, AcceptedChainOf
<1>6. AcceptedOps = {chain[i] : i \in DOMAIN chain}
  BY <1>5, AcceptedParts
<1> QED BY <1>2, <1>4, <1>5, <1>6 DEF LineChain

(* An unreadable store is one whose last release failed half-way. *)
LEMMA SerialReadable ==
    ASSUME SerialInv
    PROVE  AlwaysReadable
<1> USE DEF SerialInv
<1>1. CASE Stored = {}
  BY <1>1 DEF AlwaysReadable, ReadableNow, Readable
<1>2. CASE Stored # {}
  <2>1. PICK h \in Stored : Bound(rel[h].tag, refs) => ChainHead = {h}
    BY <1>2, StoredLine
  <2>2. CASE Bound(rel[h].tag, refs)
    BY <2>1, <2>2 DEF AlwaysReadable, ReadableNow, Readable, ChainHead
  <2>3. CASE ~Bound(rel[h].tag, refs)
    <3>1. ~InFlight(h)
      BY <2>3, FlyingBound, StoredStage DEF Holding, Lineage
    <3>2. pc[h] = "failed"
      BY <2>3, <3>1 DEF Lineage, EndedSettled, Settled
    <3>3. Partial(h)
      BY <3>2 DEF Partial, Lineage, FailedIsPartial, Stored
    <3> QED BY <3>3 DEF AlwaysReadable, Stored
  <2> QED BY <2>2, <2>3
<1> QED BY <1>1, <1>2

(* What is reported is what is read. *)
LEMMA SerialReports ==
    ASSUME SerialInv
    PROVE  ReportsHold
<1> USE DEF SerialInv
<1>1. DoneIsAccepted
  <2> SUFFICES ASSUME NEW h \in ChainHead, NEW o \in Ops, pc[o] = "done"
               PROVE  o \in AcceptedOps
    BY DEF DoneIsAccepted
  <2>1. o \in Stored
    BY DEF Custody, StoredInOrder, Stored, Subjects
  <2> QED BY <2>1, AcceptedIsStored
<1>2. FailedReleaseNotAccepted
  <2> SUFFICES ASSUME NEW o \in AcceptedOps, pc[o] = "failed"
               PROVE  FALSE
    BY DEF FailedReleaseNotAccepted
  <2>1. PICK h : h \in ChainHead
    BY NoneAccepted
  <2>2. o \in Stored
    BY <2>1, AcceptedIsStored
  <2> QED BY <2>1, <2>2, FailedBlocks
<1> QED BY <1>1, <1>2 DEF ReportsHold

(* What was read stays stored. *)
LEMMA SerialHistory ==
    ASSUME SerialInv
    PROVE  AcceptedHistoryKept
<1> USE DEF SerialInv
<1>1. PriorsStored
  <2> SUFFICES ASSUME NEW o \in Ops, pc[o] # "idle"
               PROVE  rel[o].prior = <<>> \/ \E a \in Stored : rel[a].result = rel[o].prior
    BY DEF PriorsStored
  <2>1. CASE rel[o].genesis
    BY <2>1 DEF Decisions, Decision, FirstDecision
  <2>2. CASE ~rel[o].genesis
    BY <2>2 DEF Lineage, ContinuesSettled, Continues
  <2> QED BY <2>1, <2>2
<1> QED BY <1>1, HistoryFromPriors

(* ---- Intervals. ---- *)

(* A commit's history is itself and the histories of its parents.          *)
LEMMA ReachParents ==
    ASSUME NEW c \in Commits
    PROVE  Reach[c] = {c} \cup UNION {Reach[p] : p \in Parents[c]}
<1> DEFINE S == {c} \cup UNION {Reach[p] : p \in Parents[c]}
<1>1. Parents[c] \subseteq Commits /\ \A a \in Commits : Parents[a] \subseteq Commits
  BY CommitsAssumption
<1>2. S \subseteq Commits
  BY <1>1, ReachClosed
<1>3. ParentClosed(S)
  <2> SUFFICES ASSUME NEW a \in S, NEW b \in Parents[a]
               PROVE  b \in S
    BY DEF ParentClosed
  <2>1. CASE a = c
    <3>1. b \in Parents[c] /\ b \in Commits
      BY <1>1, <2>1
    <3> QED BY <3>1, ReachSelf
  <2>2. CASE a # c
    <3>1. PICK p \in Parents[c] : a \in Reach[p]
      BY <2>2
    <3>2. b \in Reach[p]
      BY <1>1, <3>1, ReachClosed DEF ParentClosed
    <3> QED BY <3>1, <3>2
  <2> QED BY <2>1, <2>2
<1>4. Reach[c] \subseteq S
  BY <1>2, <1>3 DEF Reach
<1>5. S \subseteq Reach[c]
  <2>1. c \in Reach[c]
    BY ReachSelf
  <2>2. ASSUME NEW p \in Parents[c]
        PROVE  Reach[p] \subseteq Reach[c]
    BY <2>1, ReachClosed, ReachTransitive DEF ParentClosed
  <2> QED BY <2>1, <2>2
<1> QED BY <1>4, <1>5

(* What an adoption covers: the boundary, and what is not behind it.       *)
LEMMA GenesisCovers ==
    ASSUME NEW boundary \in Commits \cup {NoCommit}, NEW to \in Commits
    PROVE  GenesisInterval(boundary, to) =
             {c \in Reach[to] : boundary # NoCommit => c = boundary \/ c \notin Reach[boundary]}
<1>1. CASE boundary = NoCommit
  BY <1>1 DEF GenesisInterval
<1>2. CASE boundary # NoCommit
  <2>1. boundary \in Commits
    BY <1>2
  <2>2. Reach[boundary] = {boundary} \cup UNION {Reach[p] : p \in Parents[boundary]}
    BY <2>1, ReachParents
  <2>3. boundary \notin UNION {Reach[p] : p \in Parents[boundary]}
    <3> SUFFICES ASSUME NEW p \in Parents[boundary], boundary \in Reach[p] PROVE FALSE
      OBVIOUS
    <3>1. p \in Commits /\ p < boundary /\ boundary \in Nat /\ p \in Nat
      BY <2>1, CommitsAssumption
    <3>2. boundary <= p
      BY <3>1, ReachBelow
    <3> QED BY <3>1, <3>2
  <2> QED BY <1>2, <2>2, <2>3 DEF GenesisInterval
<1> QED BY <1>1, <1>2

(* Promotions cover nothing new. *)
Cut(o) == rel[o].action # "supersede"

(* The releases of a chain up to one place cover what is behind it once.   *)
CoveredTo(chain, i) ==
    LET cuts == {k \in 1..i : Cut(chain[k])}
    IN  /\ \A j, k \in cuts : j # k => rel[chain[j]].provenance \cap rel[chain[k]].provenance = {}
        /\ UNION {rel[chain[k]].provenance : k \in cuts} =
              GenesisInterval(Boundary, rel[chain[i]].to)
        /\ GenesisIntervalOK(Boundary, rel[chain[i]].to)

(* The chain covers everything up to every place of it. *)
LEMMA ChainCovers ==
    ASSUME TypeOK, Decisions, StoredBinds, NEW chain, CompleteChain(chain, rel),
           NEW n \in Nat, n >= 1, n = Len(chain), \A i \in 1..n : chain[i] \in Stored
    PROVE  CoveredTo(chain, n)
<1> DEFINE covered == {i \in 1..n : CoveredTo(chain, i)}
<1>0. \A i \in 1..n : /\ Decision(rel[chain[i]]) /\ rel[chain[i]].to \in Commits
                      /\ rel[chain[i]].tag.commit = rel[chain[i]].to
  BY StoredDecided DEF ReleaseOK, StoredBinds
<1>1. 1 \in covered
  <2>1. PICK r : r = rel[chain[1]]
    OBVIOUS
  <2>2. FirstDecision(r) /\ r.action = "advance"
    BY <1>0, <2>1 DEF CompleteChain, GenesisOK, Decision
  <2>3. {k \in 1..1 : Cut(chain[k])} = {1}
    BY <2>1, <2>2 DEF Cut
  <2>4. UNION {rel[chain[k]].provenance : k \in {1}} = r.provenance
    BY <2>1
  <2>5. CoveredTo(chain, 1)
    BY <2>1, <2>2, <2>3, <2>4 DEF CoveredTo, FirstDecision
  <2> QED BY <2>5
<1>2. ASSUME NEW i \in 2..n, i - 1 \in covered
      PROVE  i \in covered
  <2>1. i \in 1..n /\ i - 1 \in 1..n /\ i \in Nat /\ i >= 2
    OBVIOUS
  <2>2. PICK r, p : r = rel[chain[i]] /\ p = rel[chain[i - 1]]
    OBVIOUS
  <2>3. /\ Decision(r) /\ r.to \in Commits /\ p.to \in Commits
        /\ ~r.genesis /\ r.pred = << p.tag >> /\ p.tag.commit = p.to
        /\ r.action = "supersede" => r.to = p.to
    BY <1>0, <2>1, <2>2 DEF CompleteChain, Linked
  <2>4. LaterDecision(r) /\ r.pred[1] = p.tag
    BY <2>3 DEF Decision
  <2>5. CoveredTo(chain, i - 1)
    BY <1>2
  <2> DEFINE before == {k \in 1..(i - 1) : Cut(chain[k])}
             upto == {k \in 1..i : Cut(chain[k])}
             P(k) == rel[chain[k]].provenance
  <2>6. /\ \A j, k \in before : j # k => P(j) \cap P(k) = {}
        /\ UNION {P(k) : k \in before} = GenesisInterval(Boundary, p.to)
        /\ GenesisIntervalOK(Boundary, p.to)
    BY <2>2, <2>5 DEF CoveredTo
  <2>7. CASE r.action = "supersede"
    <3>1. upto = before
      BY <2>1, <2>2, <2>7 DEF Cut
    <3>2. r.to = p.to
      BY <2>3, <2>7
    <3>3. CoveredTo(chain, i)
      BY <2>2, <2>6, <3>1, <3>2 DEF CoveredTo
    <3> QED BY <2>1, <3>3
  <2>8. CASE r.action # "supersede"
    <3>1. upto = before \cup {i} /\ i \notin before
      BY <2>1, <2>2, <2>8 DEF Cut
    <3>2. RecurringIntervalOK(p.to, r.to) /\ P(i) = RecurringInterval(p.to, r.to)
      BY <2>2, <2>3, <2>4, <2>8 DEF LaterDecision
    <3>3. /\ GenesisInterval(Boundary, p.to) \cap P(i) = {}
          /\ GenesisInterval(Boundary, p.to) \cup P(i) = GenesisInterval(Boundary, r.to)
          /\ GenesisIntervalOK(Boundary, r.to)
      BY <2>3, <2>6, <3>2, ConsecutiveIntervalsTile, PolicyAssumption
    <3> HIDE DEF P, before, upto
    <3>4. \A k \in before : P(k) \subseteq GenesisInterval(Boundary, p.to)
      BY <2>6
    <3>5. \A j, k \in upto : j # k => P(j) \cap P(k) = {}
      BY <2>6, <3>1, <3>3, <3>4
    <3>6. UNION {P(k) : k \in upto} = GenesisInterval(Boundary, r.to)
      BY <2>6, <3>1, <3>3
    <3>7. CoveredTo(chain, i)
      BY <2>2, <3>3, <3>5, <3>6 DEF CoveredTo, P, upto
    <3> QED BY <2>1, <3>7
  <2> QED BY <2>7, <2>8
<1>3. \A i \in 1..n : i \in covered
  <2> HIDE DEF covered
  <2> QED BY <1>1, <1>2, PlaceInduction
<1> QED BY <1>3

(* So it tiles the history behind its head. *)
LEMMA ChainTiles ==
    ASSUME TypeOK, Decisions, StoredBinds
    PROVE  IntervalsTile
<1>1. CASE ChainHead = {}
  BY <1>1, NoneAccepted DEF IntervalsTile
<1>2. CASE ChainHead # {}
  <2>1. PICK h : h \in ChainHead
    BY <1>2
  <2>2. PICK chain, n : chain = Accepted /\ n = Len(chain)
    OBVIOUS
  <2>3. /\ ChainHead = {h} /\ CompleteChain(chain, rel) /\ chain[n] = h
        /\ n \in Nat /\ n >= 1 /\ DOMAIN chain = 1..n /\ \A i \in 1..n : chain[i] \in Stored
        /\ AcceptedOps = {chain[i] : i \in 1..n}
    BY <2>1, <2>2, AcceptedParts DEF LinkedPath
  <2>4. CoveredTo(chain, n)
    BY <2>2, <2>3, ChainCovers
  <2> DEFINE cuts == {o \in AcceptedOps : Cut(o)}
             places == {k \in 1..n : Cut(chain[k])}
  <2>5. cuts = {chain[k] : k \in places}
    BY <2>3
  <2>6. \A a, b \in cuts : a # b => rel[a].provenance \cap rel[b].provenance = {}
    BY <2>4, <2>5 DEF CoveredTo
  <2>7. UNION {rel[o].provenance : o \in cuts} = UNION {rel[chain[k]].provenance : k \in places}
    BY <2>5
  <2>8. UNION {rel[o].provenance : o \in cuts} = GenesisInterval(Boundary, rel[h].to)
    BY <2>3, <2>4, <2>7 DEF CoveredTo
  <2>9. rel[h].to \in Commits
    BY <2>1, HeadDecided, StoredDecided DEF ReleaseOK
  <2>10. UNION {rel[o].provenance : o \in cuts} =
           {c \in Reach[rel[h].to] : Boundary # NoCommit => c = Boundary \/ c \notin Reach[Boundary]}
    BY <2>8, <2>9, GenesisCovers, PolicyAssumption
  <2>11. cuts = {o \in AcceptedOps : rel[o].action # "supersede"}
    BY DEF Cut
  <2> HIDE DEF cuts
  <2> QED BY <2>3, <2>6, <2>10, <2>11 DEF IntervalsTile
<1> QED BY <1>1, <1>2

(* With one command at a time a crash or a failure anywhere between the    *)
(* tag write and the two store writes leaves a store that                  *)
(* verifiedReleasesFor and selectUniqueHead still read, unless a command   *)
(* reported the references it left half-way (releaseCommand,               *)
(* StoreForSubjects).                                                      *)
THEOREM SerialAlwaysReadable ==
    ASSUME ~Concurrent
    PROVE  Spec => []AlwaysReadable
BY SerialHolds, SerialReadable, PTL

(* With one command at a time what a command reports is what the next one  *)
(* finds: every release reported as done is on the accepted chain, and     *)
(* none that was reported as failed (rollback by DeleteTag, bindingParts). *)
THEOREM SerialReportsHold ==
    ASSUME ~Concurrent
    PROVE  Spec => []ReportsHold
BY SerialHolds, SerialReports, PTL

(* With one command at a time the intervals of the accepted chain classify *)
(* every commit behind the head, down to the adoption boundary, exactly    *)
(* once (SelectInterval, as releaseCommand and the reader chain it).       *)
THEOREM SerialIntervalsTile ==
    ASSUME ~Concurrent
    PROVE  Spec => []IntervalsTile
<1>1. SerialInv => IntervalsTile
  BY ChainTiles DEF SerialInv, Lineage
<1> QED BY <1>1, SerialHolds, PTL

(* The history a command decided on is never contradicted by a chain that  *)
(* can be read later: with one command at a time, whatever fails; or with  *)
(* any number of concurrent commands that may die, as long as no signing   *)
(* or store write fails.  Of two concurrent commands one of which fails    *)
(* half-way the other one could have read what is withdrawn.               *)
THEOREM HistoryKept ==
    ASSUME ~Concurrent \/ ~MayFail
    PROVE  Spec => []AcceptedHistoryKept
<1>1. CASE ~MayFail
  BY <1>1, HistoryWithoutFailures
<1>2. CASE ~Concurrent
  <2>1. Spec => []SerialInv
    BY <1>2, SerialHolds
  <2> QED BY <2>1, SerialHistory, PTL
<1> QED BY <1>1, <1>2

(* ---- Trust along a target lineage. ---- *)

(* Reviews of the kinds that get attested never lower a commit.  Of        *)
(* several reviews the one met first classifies it, so one of a lesser     *)
(* kind might.                                                             *)
ReviewsRaise ==
    \A author \in Authorships, kind \in Reviews, new \in ReviewKinds :
        AssignLevel(author, kind) <= AssignLevel(author, new)

(* A recorded level is met by every commit that was classified for it. *)
LevelsEarned ==
    \A o \in Ops : pc[o] # "idle" => \A c \in rel[o].provenance : rel[o].effective <= Level(c)

(* The effective trust of commits is at most that of each of them. *)
LEMMA EffectiveLowest ==
    ASSUME NEW commits \in SUBSET Commits, NEW c \in commits
    PROVE  Effective(commits) <= Level(c)
<1> DEFINE S == {Level(x) : x \in commits}
<1>1. S \in SUBSET Nat /\ S # {} /\ Level(c) \in S
  BY AssignLevelType DEF Level, Levels
<1> HIDE DEF S
<1>2. \E x \in S : \A y \in S : x <= y
  BY <1>1, LeastNat
<1>3. Lowest(S) <= Level(c)
  BY <1>1, <1>2 DEF Lowest
<1> QED BY <1>3 DEF Effective, S

(* Then no commit loses its level. *)
LEMMA LevelRises ==
    ASSUME ReviewsRaise, TypeOK, [Next]_vars, NEW c \in Commits
    PROVE  Level(c) <= Level(c)'
<1>1. review[c] \in Reviews /\ Authors[c] \in Authorships
  BY PolicyAssumption DEF TypeOK
<1>2. Level(c) \in Nat
  BY AssignLevelType DEF Level, Levels
<1>3. review' = review => Level(c)' = Level(c)
  BY DEF Level
<1>4. ASSUME NEW p, NEW to, NEW kind \in ReviewKinds, AttestReview(p, to, kind)
      PROVE  Level(c) <= Level(c)'
  <2>1. review'[c] \in {review[c], kind}
    BY <1>4 DEF AttestReview
  <2>2. CASE review'[c] = review[c]
    BY <1>2, <2>2 DEF Level
  <2>3. CASE review'[c] = kind
    BY <1>1, <2>3 DEF Level, ReviewsRaise
  <2> QED BY <2>1, <2>2, <2>3
<1>5. ASSUME NEW o \in Ops, Start(o)
      PROVE  review' = review
  BY <1>5, StartBegins DEF Begin
<1>6. ASSUME NEW o \in Ops, Step(o) \/ Crash(o)
      PROVE  review' = review
  BY <1>6 DEF Step, Crash, LookupTag, SignTagFails, SetTag, BindAndSign, SignFails, PutUnderCommit,
              PutUnderCommitFails, PutUnderTag, PutUnderTagFails, Rollback, RollbackFails, Failing
<1>7. ASSUME NEW o \in Ops, PruneAttestation(o)
      PROVE  review' = review
  BY <1>7 DEF PruneAttestation
<1>8. ASSUME NEW name, DeleteOrphanTag(name)
      PROVE  review' = review
  BY <1>8 DEF DeleteOrphanTag
<1>9. UNCHANGED vars => review' = review
  BY DEF vars
<1>10. review' = review => Level(c) <= Level(c)'
  BY <1>2, <1>3
<1> QED BY <1>4, <1>5, <1>6, <1>7, <1>8, <1>9, <1>10, Zenon DEF Next

(* So recorded levels stay earned. *)
LEMMA LevelsEarnedNext ==
    ASSUME ReviewsRaise
    PROVE  TypeOK /\ Decisions /\ LevelsEarned /\ [Next]_vars => LevelsEarned'
<1> SUFFICES ASSUME TypeOK, Decisions, LevelsEarned, [Next]_vars, NEW o \in Ops,
                    pc'[o] # "idle", NEW c \in rel'[o].provenance
             PROVE  rel'[o].effective <= Level(c)'
  BY DEF LevelsEarned
<1>1. TypeOK'
  BY TypeNext
<1>2. c \in Commits /\ rel'[o].effective \in Nat
  BY <1>1 DEF TypeOK, ReleaseOK, Levels
<1>3. Level(c) \in Nat /\ Level(c)' \in Nat /\ Level(c) <= Level(c)'
  BY <1>2, LevelRises, AssignLevelType DEF Level, Levels
<1>4. rel'[o].effective <= Level(c)
  <2>1. CASE pc[o] = "idle" /\ Start(o)
    <3>1. PICK r : Begin(o, r) /\ Decided(r)
      BY <2>1, StartDecided
    <3>2. rel'[o] = r
      BY <3>1 DEF Begin, TypeOK
    <3>3. r.provenance \in SUBSET Commits /\ r.effective = Effective(r.provenance)
      BY <3>1 DEF Decided
    <3> QED BY <3>2, <3>3, EffectiveLowest
  <2>2. CASE pc[o] # "idle" /\ SameDecision(rel[o], rel'[o])
    BY <2>2 DEF LevelsEarned, SameDecision
  <2> QED BY <2>1, <2>2, NextKeepsDecisions
<1> QED BY <1>2, <1>3, <1>4

(* Along pre-releases the recorded level never rises.                      *)
LEMMA PendingCarries ==
    ASSUME TypeOK, Decisions, NEW h \in ChainHead, NEW i \in 1..Len(Accepted),
           \A j \in i..Len(Accepted) : ~IsClean(rel[Accepted[j]].tag.name)
    PROVE  LevelOf(rel[h].tag.name) <= rel[Accepted[i]].effective
<1>1. PICK chain, n : chain = Accepted /\ n = Len(chain)
  OBVIOUS
<1>2. /\ CompleteChain(chain, rel) /\ chain[n] = h
      /\ n \in Nat /\ n >= 1 /\ \A k \in 1..n : chain[k] \in Stored
  BY <1>1, AcceptedParts DEF LinkedPath
<1>3. \A k \in 1..n : Decision(rel[chain[k]]) /\ rel[chain[k]].effective \in Nat
  <2> SUFFICES ASSUME NEW k \in 1..n
               PROVE  Decision(rel[chain[k]]) /\ rel[chain[k]].effective \in Nat
    OBVIOUS
  <2>1. Decision(rel[chain[k]]) /\ ReleaseOK(rel[chain[k]])
    BY <1>2, StoredDecided
  <2> QED BY <2>1 DEF ReleaseOK, Levels
<1> DEFINE low == {k \in 1..n : i <= k => rel[chain[k]].effective <= rel[chain[i]].effective}
<1>4. 1 \in low
  BY <1>1, <1>2, <1>3
<1>5. ASSUME NEW k \in 2..n, k - 1 \in low
      PROVE  k \in low
  <2>1. CASE k <= i
    BY <1>1, <1>3, <2>1
  <2>2. CASE i < k
    <3>1. k \in 1..n /\ k - 1 \in 1..n /\ i <= k - 1 /\ k \in i..n /\ k - 1 \in i..n
      BY <1>1, <1>2, <2>2
    <3>2. PICK r, p : r = rel[chain[k]] /\ p = rel[chain[k - 1]]
      OBVIOUS
    <3>3. /\ Decision(r) /\ Decision(p) /\ ~IsClean(r.tag.name) /\ ~IsClean(p.tag.name)
          /\ r.effective \in Nat /\ p.effective \in Nat
          /\ ~r.genesis /\ r.pred = << p.tag >>
          /\ p.effective <= rel[chain[i]].effective
      BY <1>1, <1>2, <1>3, <1>5, <3>1, <3>2 DEF CompleteChain, Linked
    <3>4. LaterDecision(r) /\ r.pred[1] = p.tag
      BY <3>3 DEF Decision
    <3>5. r.effective <= LevelOf(p.tag.name)
      BY <3>3, <3>4 DEF LaterDecision
    <3>6. p.effective = LevelOf(p.tag.name)
      BY <3>3 DEF Decision, LevelRecorded
    <3>7. r.effective <= rel[chain[i]].effective
      BY <1>1, <1>3, <3>3, <3>5, <3>6
    <3> QED BY <3>1, <3>2, <3>7
  <2> QED BY <1>1, <1>2, <2>1, <2>2
<1>6. \A k \in 1..n : k \in low
  <2> HIDE DEF low
  <2> QED BY <1>2, <1>4, <1>5, PlaceInduction
<1>7. rel[h].effective <= rel[chain[i]].effective
  BY <1>1, <1>2, <1>6
<1>8. ~IsClean(rel[h].tag.name) /\ Decision(rel[h])
  BY <1>1, <1>2, <1>3
<1> QED BY <1>1, <1>7, <1>8 DEF Decision, LevelRecorded

(* A clean release has a level no higher than its pending pre-releases     *)
(* recorded, and it meets the threshold.                                   *)
LEMMA CleanEarned ==
    ASSUME TypeOK, Decisions, LevelsEarned, [Next]_vars, NEW o \in Ops,
           CleanDecision(o, {"advance", "recut"}), NEW c \in LineageCommits(rel'[o])
    PROVE  Level(c) >= Threshold
<1>1. pc[o] = "idle" /\ Start(o)
  BY NextKeepsDecisions DEF CleanDecision
<1>2. PICK r : Begin(o, r) /\ Decided(r)
  BY <1>1, StartDecided
<1>3. r = rel'[o]
  BY <1>2 DEF Begin, TypeOK
<1>4. /\ Decision(r) /\ r.effective = Effective(r.provenance) /\ r.provenance \in SUBSET Commits
      /\ Threshold <= r.effective
  BY <1>2, <1>3 DEF Decided, CleanDecision, Decision, LevelRecorded
<1>5. r.effective \in Nat /\ Threshold \in Nat /\ Level(c) \in Nat
  <2>1. TypeOK' /\ pc'[o] # "idle"
    BY TypeNext DEF CleanDecision
  <2>2. ReleaseOK(r)
    BY <1>3, <2>1 DEF TypeOK
  <2>3. r.effective \in Nat
    BY <2>2 DEF ReleaseOK, Levels
  <2> QED BY <2>3, PolicyAssumption, AssignLevelType DEF Level, Levels
<1>6. CASE c \in r.provenance
  <2>1. r.effective <= Level(c)
    BY <1>4, <1>6, EffectiveLowest
  <2> QED BY <1>4, <1>5, <2>1
<1>7. CASE c \in UNION {rel[q].provenance : q \in Pending}
  <2>1. PICK i \in DOMAIN Accepted :
           /\ c \in rel[Accepted[i]].provenance
           /\ \A j \in i..Len(Accepted) : ~IsClean(rel[Accepted[j]].tag.name)
    BY <1>7 DEF Pending
  <2>2. PICK h : h \in ChainHead
    BY <2>1, NoneAccepted
  <2>3. /\ ChainHead = {h} /\ DOMAIN Accepted = 1..Len(Accepted) /\ Len(Accepted) \in Nat
        /\ Accepted[i] \in Stored /\ h = Accepted[Len(Accepted)] /\ h \in Stored
    BY <2>1, <2>2, AcceptedParts, HeadDecided DEF LinkedPath
  <2>4. i \in 1..Len(Accepted) /\ Len(Accepted) \in i..Len(Accepted)
    BY <2>1, <2>3
  <2>5. LevelOf(rel[h].tag.name) <= rel[Accepted[i]].effective
    BY <2>1, <2>2, <2>4, PendingCarries
  <2>6. ~IsClean(rel[h].tag.name)
    BY <2>1, <2>3, <2>4
  <2>7. ~r.genesis /\ Follows(r, h)
    BY <1>2, <2>3 DEF Decided
  <2>8. LaterDecision(r) /\ r.pred[1] = rel[h].tag /\ r.action # "supersede"
    BY <1>3, <1>4, <2>7 DEF Decision, Follows, CleanDecision
  <2>9. r.effective <= LevelOf(rel[h].tag.name)
    BY <2>6, <2>8 DEF LaterDecision
  <2>10. rel[Accepted[i]].effective <= Level(c) /\ rel[Accepted[i]].effective \in Nat
    BY <2>1, <2>3, StoredDecided DEF LevelsEarned, ReleaseOK, Levels
  <2>11. LevelOf(rel[h].tag.name) \in Nat
    <3>1. rel[h].tag.name \in Name
      BY <2>3, StoredDecided DEF ReleaseOK
    <3> QED BY <2>6, <3>1, NameParts DEF Levels
  <2> QED BY <1>4, <1>5, <2>5, <2>9, <2>10, <2>11
<1> QED BY <1>3, <1>6, <1>7 DEF LineageCommits

(* A clean release is never decided over a commit of its target lineage    *)
(* that is below the threshold, whatever runs concurrently or fails: an    *)
(* advance or a recut cannot exceed the level of the pre-releases it       *)
(* follows (lineage trust, SelectVersionAncestry), which recorded the      *)
(* weakest of their commits (releaseV02Input).                             *)
THEOREM CleanLineageTrusted ==
    ASSUME ReviewsRaise
    PROVE  Spec => ReleaseLineageTrusted
<1>1. Init => TypeOK /\ Decisions /\ LevelsEarned
  BY TypeInit DEF Init, Decisions, LevelsEarned
<1>2. TypeOK /\ Decisions /\ LevelsEarned /\ [Next]_vars => (TypeOK /\ Decisions /\ LevelsEarned)'
  BY TypeNext, DecisionsNext, LevelsEarnedNext
<1>3. TypeOK /\ Decisions /\ LevelsEarned /\ [Next]_vars =>
        [\A o \in Ops : CleanDecision(o, {"advance", "recut"}) =>
            \A c \in LineageCommits(rel'[o]) : Level(c) >= Threshold]_vars
  BY CleanEarned
<1> QED BY <1>1, <1>2, <1>3, PTL DEF Spec, ReleaseLineageTrusted
==============================================================================
