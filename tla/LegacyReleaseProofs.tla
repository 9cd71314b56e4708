-------------------------- MODULE LegacyReleaseProofs --------------------------
(***************************************************************************)
(* What the release/v0.1 arm keeps whatever commands run at once, fail or  *)
(* die, although it never looks back at what it wrote: an attestation is   *)
(* stored for an existing tag only, and what a release vouches for it      *)
(* vouches for through all the releases it continues.                      *)
(***************************************************************************)
EXTENDS LegacyRelease, WellFoundedInduction, SequenceTheorems, TLAPS

(* ---- Numbers and commit graphs. ---- *)

(* Every non-empty set of numbers has a least one.                         *)
LEMMA LeastNat ==
    ASSUME NEW S \in SUBSET Nat, S # {}
    PROVE  \E x \in S : \A y \in S : x <= y
<1>1. PICK x \in S : \A y \in S : ~(<<y, x>> \in OpToRel(<, Nat))
  BY NatLessThanWellFounded, WFMin
<1>2. \A a, b \in Nat : a < b => <<a, b>> \in OpToRel(<, Nat)
  BY DEF OpToRel
<1>3. \A y \in S : x \in Nat /\ y \in Nat /\ ~(y < x)
  BY <1>1, <1>2
<1> QED BY <1>3

(* A bounded, non-empty set of numbers has a greatest one.                 *)
LEMMA GreatestNat ==
    ASSUME NEW S \in SUBSET Nat, S # {}, NEW bound \in Nat, \A x \in S : x <= bound
    PROVE  \E x \in S : \A y \in S : y <= x
<1> DEFINE D == {bound - x : x \in S}
<1>1. D \in SUBSET Nat /\ D # {}
  <2>1. \A x \in S : x \in Nat /\ x <= bound
    OBVIOUS
  <2>2. \A x \in S : bound - x \in Nat
    BY <2>1
  <2> QED BY <2>2
<1>2. PICK d \in D : \A e \in D : d <= e
  BY <1>1, LeastNat
<1>3. PICK x \in S : d = bound - x
  BY <1>2
<1>4. \A y \in S : bound - x <= bound - y /\ x \in Nat /\ y \in Nat
  BY <1>2, <1>3
<1> QED BY <1>3, <1>4

(* Reachability is itself closed under parents. *)
LEMMA ReachClosed ==
    ASSUME NEW c \in Commits
    PROVE  Reach[c] \in SUBSET Commits /\ ParentClosed(Reach[c])
<1>1. Reach[c] \in SUBSET Commits
  BY DEF Reach
<1>2. ASSUME NEW x \in Reach[c], NEW p \in Parents[x]
      PROVE  p \in Reach[c]
  <2>1. x \in Commits /\ p \in Commits
    BY <1>1, CommitsAssumption
  <2>2. ASSUME NEW S \in SUBSET Commits, c \in S, ParentClosed(S)
        PROVE  p \in S
    <3>1. x \in S
      BY <2>2 DEF Reach
    <3> QED BY <2>2, <3>1 DEF ParentClosed
  <2> QED BY <2>1, <2>2 DEF Reach
<1> QED BY <1>1, <1>2 DEF ParentClosed

(* ---- The steps of an invocation. ---- *)

Tagged == {"tagged", "half", "done"}
Untagged == {"idle", "decided", "signed", "looked"}

(* ---- The tag comes first. ---- *)

(* An invocation stores nothing before its tag is there, and what it       *)
(* decided is what it stores.                                              *)
TaggedFirst ==
    /\ DOMAIN store = Ops /\ DOMAIN pc = Ops /\ DOMAIN rel = Ops
    /\ \A o \in Ops : pc[o] \in Tagged \/ store[o] # {} => rel[o].tag \in DOMAIN tags
    /\ \A o \in Ops : pc[o] \in Untagged => store[o] = {}

LEMMA TaggedInit == Init => TaggedFirst
BY DEF Init, TaggedFirst, Tagged, Untagged

(* A step of one invocation that removes no tag: it leaves the others      *)
(* alone, and either has its tag or has stored nothing.                    *)
LEMMA OneMoves ==
    ASSUME TaggedFirst, NEW o \in Ops, DOMAIN tags \subseteq DOMAIN tags',
           DOMAIN store' = Ops, DOMAIN pc' = Ops, DOMAIN rel' = Ops,
           \A q \in Ops \ {o} : store'[q] = store[q] /\ pc'[q] = pc[q] /\ rel'[q] = rel[q],
           pc'[o] \in Tagged \/ store'[o] # {} => rel'[o].tag \in DOMAIN tags',
           pc'[o] \in Untagged => store'[o] = {}
    PROVE  TaggedFirst'
<1>1. \A q \in Ops \ {o} : pc'[q] \in Tagged \/ store'[q] # {} => rel'[q].tag \in DOMAIN tags'
  BY DEF TaggedFirst
<1>2. \A q \in Ops \ {o} : pc'[q] \in Untagged => store'[q] = {}
  BY DEF TaggedFirst
<1> QED BY <1>1, <1>2 DEF TaggedFirst

LEMMA TaggedStep == TaggedFirst /\ [Next]_vars => TaggedFirst'
<1> SUFFICES ASSUME TaggedFirst, [Next]_vars PROVE TaggedFirst'
  OBVIOUS
<1>0. DOMAIN store = Ops /\ DOMAIN pc = Ops /\ DOMAIN rel = Ops
  BY DEF TaggedFirst
<1>1. CASE UNCHANGED <<tags, store, pc, rel>>
  BY <1>1 DEF TaggedFirst
<1>2. ASSUME NEW o \in Ops, Start(o) PROVE TaggedFirst'
  <2>1. pc[o] = "idle" /\ pc' = [pc EXCEPT ![o] = "decided"] /\ UNCHANGED <<tags, store>>
        /\ \E r : rel' = [rel EXCEPT ![o] = r]
    <3>1. PICK from, to, requested, claimed, blast, iteration :
             Decide(o, from, to, requested, claimed, blast, iteration)
      BY <1>2, Zenon DEF Start
    <3>2. pc[o] = "idle" /\ pc' = [pc EXCEPT ![o] = "decided"] /\ UNCHANGED <<tags, store>>
      BY <3>1, Zenon DEF Decide
    <3>3. \E r : rel' = [rel EXCEPT ![o] = r]
      BY <3>1, Zenon DEF Decide
    <3> QED BY <3>2, <3>3
  <2>2. store[o] = {}
    BY <2>1 DEF TaggedFirst, Untagged
  <2> QED BY <1>0, <2>1, <2>2, OneMoves DEF Tagged
(* A step that only goes on: to a place before the tag from another, or to *)
(* an end.                                                                 *)
<1>3. ASSUME NEW o \in Ops, NEW label, Goto(o, label), UNCHANGED <<tags, store, rel>>,
             label \notin Tagged, label \in Untagged => pc[o] \in Untagged
      PROVE  TaggedFirst'
  BY <1>0, <1>3, OneMoves DEF Goto, TaggedFirst
<1>4. ASSUME NEW o \in Ops, SetTag(o) PROVE TaggedFirst'
  <2>1. DOMAIN tags' = DOMAIN tags \cup {rel[o].tag} /\ pc' = [pc EXCEPT ![o] = "tagged"]
        /\ UNCHANGED <<store, rel>>
    BY <1>4 DEF SetTag, Goto
  <2> QED BY <1>0, <2>1, OneMoves DEF Untagged
<1>5. ASSUME NEW o \in Ops, PutUnderCommit(o) \/ PutUnderTag(o) PROVE TaggedFirst'
  <2>1. pc[o] \in Tagged /\ UNCHANGED <<tags, rel>>
        /\ (\E label \in {"half", "done"} : pc' = [pc EXCEPT ![o] = label])
        /\ \E subjects : store' = [store EXCEPT ![o] = subjects]
    BY <1>5 DEF PutUnderCommit, PutUnderTag, Goto, Tagged
  <2>2. rel[o].tag \in DOMAIN tags
    BY <2>1 DEF TaggedFirst
  <2> QED BY <1>0, <2>1, <2>2, OneMoves DEF Untagged
<1>6. ASSUME NEW o \in Ops, SignStatement(o) \/ LookupTag(o) \/ StepFails(o) \/ Crash(o)
      PROVE  TaggedFirst'
  <2>1. CASE SignStatement(o)
    <3>1. PICK label \in {"failed", "signed"} : Goto(o, label)
      BY <2>1 DEF SignStatement
    <3> QED BY <1>3, <2>1, <3>1 DEF SignStatement, Tagged, Untagged
  <2>2. CASE LookupTag(o)
    <3>1. PICK label \in {"failed", "looked"} : Goto(o, label)
      BY <2>2 DEF LookupTag
    <3> QED BY <1>3, <2>2, <3>1 DEF LookupTag, Tagged, Untagged
  <2>3. CASE StepFails(o)
    BY <1>3, <2>3 DEF StepFails, Tagged, Untagged
  <2>4. CASE Crash(o)
    BY <1>3, <2>4 DEF Crash, Tagged, Untagged
  <2> QED BY <1>6, <2>1, <2>2, <2>3, <2>4
<1>7. ASSUME NEW c \in Reviewable, AttestReview(c) PROVE TaggedFirst'
  BY <1>1, <1>7 DEF AttestReview
<1> QED BY <1>1, <1>2, <1>4, <1>5, <1>6, <1>7 DEF Next, Step, vars

(* Whatever commands run at once, fail or die, an attestation is only ever *)
(* stored for a release whose tag exists (newReleaseCmd without a          *)
(* descriptor).                                                            *)
THEOREM AttestedTagExists == Spec => []AttestedIsTagged
<1>1. TaggedFirst => AttestedIsTagged
  BY DEF TaggedFirst, AttestedIsTagged
<1> QED BY <1>1, TaggedInit, TaggedStep, PTL DEF Spec

(* ---- The releases a release continues. ---- *)

(* What x is made of when F[x] are the parts of x: the least set that holds*)
(* x and the parts of its members.                                         *)
Closed(F, S) == \A x \in S : F[x] \subseteq S
Closure(F, x) == {y \in Ops : \A S \in SUBSET Ops : x \in S /\ Closed(F, S) => y \in S}

LEMMA ClosureWithin ==
    ASSUME NEW F, NEW x \in Ops, NEW S \in SUBSET Ops, x \in S, Closed(F, S)
    PROVE  x \in Closure(F, x) /\ Closure(F, x) \subseteq S
BY DEF Closure

LEMMA ClosureClosed ==
    ASSUME NEW F, NEW x \in Ops, \A y \in Ops : F[y] \subseteq Ops
    PROVE  Closed(F, Closure(F, x))
<1> SUFFICES ASSUME NEW y \in Closure(F, x), NEW z \in F[y]
             PROVE  z \in Closure(F, x)
  BY DEF Closed
<1>1. y \in Ops /\ z \in Ops
  BY DEF Closure
<1>2. ASSUME NEW S \in SUBSET Ops, x \in S, Closed(F, S) PROVE z \in S
  <2>1. y \in S
    BY <1>2 DEF Closure
  <2> QED BY <1>2, <2>1 DEF Closed
<1> QED BY <1>1, <1>2 DEF Closure

(* It depends on the parts of the members of a closed set only.            *)
LEMMA ClosureSame ==
    ASSUME NEW F, NEW G, NEW N \in SUBSET Ops, NEW x \in N,
           Closed(F, N), \A y \in N : G[y] = F[y]
    PROVE  Closure(G, x) = Closure(F, x)
<1>1. ASSUME NEW A, NEW B, Closed(A, N), \A y \in N : A[y] = B[y], NEW y \in Closure(B, x)
      PROVE  y \in Closure(A, x)
  <2>1. ASSUME NEW S \in SUBSET Ops, x \in S, Closed(A, S) PROVE y \in S
    <3>1. S \cap N \in SUBSET Ops /\ x \in S \cap N
      BY <2>1
    <3>2. Closed(B, S \cap N)
      BY <1>1, <2>1 DEF Closed
    <3>3. y \in S \cap N
      BY <3>1, <3>2 DEF Closure
    <3> QED BY <3>3
  <2> QED BY <2>1 DEF Closure
<1>2. Closed(G, N)
  BY DEF Closed
<1>3. Closure(F, x) \subseteq Closure(G, x)
  BY <1>1, <1>2
<1>4. Closure(G, x) \subseteq Closure(F, x)
  BY <1>1
<1> QED BY <1>3, <1>4

(* One that is made of another, and of all that one is made of.            *)
LEMMA ClosureGrows ==
    ASSUME NEW F, NEW G, NEW N \in SUBSET Ops, NEW x \in N, NEW o \in Ops, o \notin N,
           Closed(F, N), \A y \in N : G[y] = F[y], G[o] = {x},
           \A y \in Ops : F[y] \subseteq Ops
    PROVE  Closure(G, o) = {o} \cup Closure(F, x)
<1>1. Closure(G, x) = Closure(F, x)
  BY ClosureSame
<1>2. x \in Closure(F, x) /\ Closure(F, x) \subseteq N
  BY ClosureWithin
<1>3. Closed(F, Closure(F, x))
  BY ClosureClosed
<1>4. Closed(G, {o} \cup Closure(F, x))
  BY <1>2, <1>3 DEF Closed
<1>5. Closure(G, o) \subseteq {o} \cup Closure(F, x)
  BY <1>2, <1>4, ClosureWithin
<1>6. ASSUME NEW y \in Closure(F, x) PROVE y \in Closure(G, o)
  <2>1. ASSUME NEW S \in SUBSET Ops, o \in S, Closed(G, S) PROVE y \in S
    <3>1. x \in S
      BY <2>1 DEF Closed
    <3>2. y \in Closure(G, x)
      BY <1>1
    <3> QED BY <2>1, <3>1, <3>2 DEF Closure
  <2> QED BY <1>2, <2>1 DEF Closure
<1>7. o \in Closure(G, o)
  BY DEF Closure
<1> QED BY <1>5, <1>6, <1>7

Froms == [o \in Ops |-> From(o)]

ChainsClosed == \A o \in Ops : ChainOf(o) = Closure(Froms, o)

LEMMA ChainIsClosure == ChainsClosed
<1> SUFFICES ASSUME NEW o \in Ops PROVE ChainOf(o) = Closure(Froms, o)
  BY DEF ChainsClosed
<1>1. \A S \in SUBSET Ops : FromClosed(S) <=> Closed(Froms, S)
  BY DEF FromClosed, Closed, Froms
<1> QED BY <1>1 DEF ChainOf, Closure

(* ---- What a decided release says of itself. ---- *)

Known == {o \in Ops : pc[o] # "idle"}
Touching(r) == {c \in DOMAIN r.levels : r.component \in Touches[c]}

(* It covers its commit's history, after the boundary or after the release *)
(* it continues, which is a clean one with a smaller core; when it is clean*)
(* every commit it covers that touches its component was at the threshold. *)
First(r) ==
    /\ r.from = {}
    /\ Boundary # NoCommit => Boundary \in Reach[r.to]
    /\ DOMAIN r.levels = IF Boundary = NoCommit THEN Reach[r.to] ELSE Reach[r.to] \ Reach[Boundary]
Continues(r, q) ==
    /\ r.from = {q}
    /\ IsClean(rel[q].tag.name) /\ rel[q].to \in Reach[r.to]
    /\ DOMAIN r.levels = Reach[r.to] \ Reach[rel[q].to]
    /\ rel[q].tag.name.core[1] <= r.tag.name.core[1]
    /\ DifferBumps = {} /\ (\E c \in DOMAIN r.levels : Changes[c] = Major)
          => rel[q].tag.name.core[1] < r.tag.name.core[1]
Sound(r) ==
    /\ r.tag \in Tag /\ r.to \in Commits
    /\ IsClean(r.tag.name) => \A c \in Touching(r) : r.levels[c] >= Threshold
    /\ First(r) \/ \E q \in Known : Continues(r, q)

TagsTrue ==
    \A n \in DOMAIN tags :
        /\ tags[n].oid \in Known
        /\ rel[tags[n].oid].tag = n /\ tags[n].commit = rel[tags[n].oid].to

(* The core never falls along a chain.                                     *)
ChainRises ==
    \A o \in Known : \A q \in ChainOf(o) :
        rel[q].tag.name.core[1] <= rel[o].tag.name.core[1]

(* The invariant: what a release vouches for through those it continues is *)
(* settled when it is decided, and nothing that is done later by it or by  *)
(* others changes what any of them decided.                                *)
LegacyInv ==
    /\ TypeOK /\ DOMAIN rel = Ops /\ TagsTrue
    /\ \A o \in Known : Sound(rel[o])
    /\ ChainRises /\ CleanHistoryEarned /\ BreakingBumpsMajor

(* The same, one release at a time. *)
Rises(o, chain) == \A q \in chain : rel[q].tag.name.core[1] <= rel[o].tag.name.core[1]
Earned(o, chain) ==
    IsClean(rel[o].tag.name) /\ (\A q \in chain : rel[q].component = rel[o].component) =>
        \A c \in History(o) : rel[o].component \in Touches[c] =>
            \E q \in chain : c \in DOMAIN rel[q].levels /\ rel[q].levels[c] >= Threshold
Breaks(o, chain) ==
    DifferBumps = {} => \A q \in chain \ {o} :
        (\E c \in Reach[rel[o].to] \ Reach[rel[q].to] : Changes[c] = Major) =>
            rel[q].tag.name.core[1] < rel[o].tag.name.core[1]
OneByOne ==
    \A o \in Known : Rises(o, ChainOf(o)) /\ Earned(o, ChainOf(o)) /\ Breaks(o, ChainOf(o))

LEMMA InvOneByOne == ChainRises /\ CleanHistoryEarned /\ BreakingBumpsMajor <=> OneByOne
<1>1. ChainRises <=> \A o \in Known : Rises(o, ChainOf(o))
  BY DEF ChainRises, Rises
<1>2. CleanHistoryEarned <=> \A o \in Known : Earned(o, ChainOf(o))
  BY DEF CleanHistoryEarned, Earned, Known
<1>3. BreakingBumpsMajor <=> \A o \in Known : Breaks(o, ChainOf(o))
  BY DEF BreakingBumpsMajor, Breaks, Known
<1> QED BY <1>1, <1>2, <1>3 DEF OneByOne

(* The known releases are closed under FROM. *)
LEMMA KnownClosed ==
    ASSUME LegacyInv
    PROVE  /\ Known \in SUBSET Ops /\ Closed(Froms, Known)
           /\ \A o \in Ops : Froms[o] \subseteq Ops
<1>1. ASSUME NEW o \in Ops PROVE Froms[o] \subseteq Known
  <2>1. CASE o \notin Known
    BY <2>1 DEF Froms, From, Known
  <2>2. CASE o \in Known
    <3>1. Froms[o] = rel[o].from
      BY <2>2 DEF Froms, From, Known
    <3>2. First(rel[o]) \/ \E q \in Known : Continues(rel[o], q)
      BY <2>2 DEF LegacyInv, Sound
    <3> QED BY <3>1, <3>2 DEF First, Continues
  <2> QED BY <2>1, <2>2
<1>2. Known \in SUBSET Ops
  BY DEF Known
<1> QED BY <1>1, <1>2 DEF Closed

LEMMA ChainKnown ==
    ASSUME LegacyInv, NEW o \in Known
    PROVE  o \in ChainOf(o) /\ ChainOf(o) \subseteq Known
<1>1. o \in Ops
  BY DEF Known
<1> QED BY <1>1, KnownClosed, ClosureWithin, ChainIsClosure DEF ChainsClosed

(* A step that decides nothing. *)
LEMMA NothingDecided ==
    ASSUME LegacyInv, rel' = rel, Known' = Known, TypeOK', TagsTrue'
    PROVE  LegacyInv'
<1>1. DOMAIN rel' = Ops
  BY DEF LegacyInv
<1>2. \A o \in Known' : Sound(rel[o])'
  <2>1. SUFFICES ASSUME NEW o \in Known PROVE Sound(rel[o])'
    OBVIOUS
  <2>2. Sound(rel[o])
    BY DEF LegacyInv
  <2> QED BY <2>2 DEF Sound, First, Continues, Touching
<1>3. Froms' = Froms
  <2>1. \A o \in Ops : Froms[o] = IF o \in Known THEN rel[o].from ELSE {}
    BY DEF Froms, From, Known
  <2>2. \A o \in Ops : Froms'[o] = IF o \in Known' THEN rel'[o].from ELSE {}
    BY DEF Froms, From, Known
  <2> QED BY <2>1, <2>2 DEF Froms
<1>4. \A o \in Ops : ChainOf(o)' = ChainOf(o)
  <2>1. ChainsClosed'
    BY ChainIsClosure, PTL
  <2> QED BY <1>3, <2>1, ChainIsClosure DEF ChainsClosed, Closure, Closed
<1>5. OneByOne'
  <2>1. OneByOne
    BY InvOneByOne DEF LegacyInv
  <2>2. Known \subseteq Ops
    BY DEF Known
  <2> QED BY <1>4, <2>1, <2>2 DEF OneByOne, Rises, Earned, Breaks, History
<1>6. (ChainRises /\ CleanHistoryEarned /\ BreakingBumpsMajor)'
  <2>1. (ChainRises /\ CleanHistoryEarned /\ BreakingBumpsMajor <=> OneByOne)'
    BY InvOneByOne, PTL
  <2> QED BY <1>5, <2>1
<1> QED BY <1>1, <1>2, <1>6 DEF LegacyInv

(* A release that is decided vouches for what its chain vouches for.       *)
LEMMA DecidedVouches ==
    ASSUME LegacyInv, NEW o \in Ops, o \notin Known, NEW r, Sound(r),
           rel' = [rel EXCEPT ![o] = r], Known' = Known \cup {o}
    PROVE  OneByOne'
<1>1. /\ rel'[o] = r
      /\ \A q \in Known : rel'[q] = rel[q]
  BY DEF LegacyInv, Known
<1>2. /\ \A q \in Known : Froms'[q] = Froms[q]
      /\ Froms'[o] = r.from
  <2>1. \A q \in Ops : Froms[q] = IF q \in Known THEN rel[q].from ELSE {}
    BY DEF Froms, From, Known
  <2>2. \A q \in Ops : Froms'[q] = IF q \in Known' THEN rel'[q].from ELSE {}
    BY DEF Froms, From, Known
  <2>3. Known \subseteq Ops
    BY DEF Known
  <2> QED BY <1>1, <2>1, <2>2, <2>3
<1>3. /\ Known \in SUBSET Ops /\ Closed(Froms, Known)
      /\ \A q \in Ops : Froms[q] \subseteq Ops
  BY KnownClosed
<1>4. \A q \in Ops : ChainOf(q)' = Closure(Froms', q)
  <2>1. ChainsClosed'
    BY ChainIsClosure, PTL
  <2> QED BY <2>1 DEF ChainsClosed, Closure, Closed
<1>5. ASSUME NEW q \in Known PROVE ChainOf(q)' = ChainOf(q)
  <2>1. q \in Ops
    BY <1>3
  <2>2. PICK F, G : F = Froms /\ G = Froms'
    OBVIOUS
  <2>3. Closure(G, q) = Closure(F, q)
    BY <1>2, <1>3, <2>2, ClosureSame
  <2> QED BY <1>4, <2>1, <2>2, <2>3, ChainIsClosure DEF ChainsClosed
<1>6. /\ r.from = {} => ChainOf(o)' = {o}
      /\ \A q \in Known : r.from = {q} => ChainOf(o)' = {o} \cup ChainOf(q)
  <2>1. PICK F, G : F = Froms /\ G = Froms'
    OBVIOUS
  <2>2. ASSUME r.from = {} PROVE Closure(G, o) = {o}
    <3>1. Closed(G, {o})
      BY <1>2, <2>1, <2>2 DEF Closed
    <3> QED BY <3>1, ClosureWithin
  <2>3. ASSUME NEW q \in Known, r.from = {q} PROVE Closure(G, o) = {o} \cup Closure(F, q)
    BY <1>2, <1>3, <2>1, <2>3, ClosureGrows
  <2> QED BY <1>3, <1>4, <2>1, <2>2, <2>3, ChainIsClosure DEF ChainsClosed
<1>7. OneByOne
  BY InvOneByOne DEF LegacyInv
<1>8. ASSUME NEW q \in Known
      PROVE  (Rises(q, ChainOf(q)) /\ Earned(q, ChainOf(q)) /\ Breaks(q, ChainOf(q)))'
  <2>1. Rises(q, ChainOf(q)) /\ Earned(q, ChainOf(q)) /\ Breaks(q, ChainOf(q))
    BY <1>7 DEF OneByOne
  <2>2. q \in ChainOf(q) /\ ChainOf(q) \subseteq Known
    BY ChainKnown
  <2>3. PICK chain : chain = ChainOf(q)
    OBVIOUS
  <2>4. chain \subseteq Known /\ (\A p \in chain : rel'[p] = rel[p]) /\ rel'[q] = rel[q]
    BY <1>1, <2>2, <2>3
  <2>5. Rises(q, chain)'
    BY <2>1, <2>3, <2>4 DEF Rises
  <2>6. Earned(q, chain)'
    BY <2>1, <2>3, <2>4 DEF Earned, History
  <2>7. Breaks(q, chain)'
    BY <2>1, <2>3, <2>4 DEF Breaks
  <2> QED BY <1>5, <2>3, <2>5, <2>6, <2>7 DEF Rises, Earned, Breaks
<1>9. (Rises(o, ChainOf(o)) /\ Earned(o, ChainOf(o)) /\ Breaks(o, ChainOf(o)))'
  <2>1. CASE First(r)
    <3>1. ChainOf(o)' = {o}
      BY <1>6, <2>1 DEF First
    <3>2. Rises(o, {o})'
      <4>1. r.tag.name.core[1] \in Nat
        BY DEF Sound, Tag, Name, Core
      <4> QED BY <1>1, <4>1 DEF Rises
    <3>3. History(o)' = DOMAIN r.levels
      BY <1>1, <2>1 DEF History, First
    <3>4. Earned(o, {o})'
      BY <1>1, <3>3 DEF Earned, Sound, Touching
    <3>5. Breaks(o, {o})'
      BY DEF Breaks
    <3> QED BY <3>1, <3>2, <3>4, <3>5 DEF Rises, Earned, Breaks
  <2>2. ASSUME NEW p \in Known, Continues(r, p)
        PROVE  (Rises(o, ChainOf(o)) /\ Earned(o, ChainOf(o)) /\ Breaks(o, ChainOf(o)))'
    <3>1. PICK chain : chain = ChainOf(p)
      OBVIOUS
    <3>2. ChainOf(o)' = {o} \cup chain
      BY <1>6, <2>2, <3>1 DEF Continues
    <3>3. p \in chain /\ chain \subseteq Known
      BY <3>1, ChainKnown
    <3>4. \A q \in chain : rel'[q] = rel[q] /\ q # o
      BY <1>1, <3>3
    <3>5. Rises(p, chain) /\ Earned(p, chain) /\ Breaks(p, chain)
      BY <1>7, <3>1 DEF OneByOne
    <3>6. \A q \in chain \cup {p} : rel[q].tag.name.core[1] \in Nat
      BY <3>3 DEF LegacyInv, Sound, Tag, Name, Core
    <3>7. r.tag.name.core[1] \in Nat
      BY DEF Sound, Tag, Name, Core
    <3>8. \A q \in chain : rel[q].tag.name.core[1] <= r.tag.name.core[1]
      BY <2>2, <3>5, <3>6, <3>7 DEF Rises, Continues
    <3>9. Rises(o, {o} \cup chain)'
      BY <1>1, <3>4, <3>7, <3>8 DEF Rises
    <3>10. Earned(o, {o} \cup chain)'
      <4>1. SUFFICES ASSUME IsClean(r.tag.name),
                            \A q \in chain : rel[q].component = r.component,
                            NEW c \in History(o)', r.component \in Touches[c]
                     PROVE  \E q \in {o} \cup chain :
                               c \in DOMAIN rel'[q].levels /\ rel'[q].levels[c] >= Threshold
        BY <1>1, <3>4 DEF Earned
      <4>2. CASE c \in DOMAIN r.levels
        BY <1>1, <4>1, <4>2 DEF Sound, Touching
      <4>3. CASE c \notin DOMAIN r.levels
        <5>1. c \in History(p)
          BY <1>1, <2>2, <4>1, <4>3 DEF History, Continues
        <5>2. rel[p].component = r.component
          BY <3>3, <4>1
        <5>3. PICK q \in chain : c \in DOMAIN rel[q].levels /\ rel[q].levels[c] >= Threshold
          BY <2>2, <3>5, <4>1, <5>1, <5>2 DEF Earned, Continues
        <5> QED BY <3>4, <5>3
      <4> QED BY <4>2, <4>3
    <3>11. Breaks(o, {o} \cup chain)'
      <4>1. SUFFICES ASSUME DifferBumps = {}, NEW q \in chain,
                            NEW c \in Reach[r.to] \ Reach[rel[q].to], Changes[c] = Major
                     PROVE  rel[q].tag.name.core[1] < r.tag.name.core[1]
        BY <1>1, <3>4 DEF Breaks
      <4>2. CASE c \notin Reach[rel[p].to]
        <5>1. rel[p].tag.name.core[1] < r.tag.name.core[1]
          BY <2>2, <4>1, <4>2 DEF Continues
        <5>2. rel[q].tag.name.core[1] <= rel[p].tag.name.core[1]
          BY <3>5 DEF Rises
        <5> QED BY <3>3, <3>6, <3>7, <5>1, <5>2
      <4>3. CASE c \in Reach[rel[p].to]
        <5>1. q # p
          BY <4>1, <4>3
        <5>2. rel[q].tag.name.core[1] < rel[p].tag.name.core[1]
          BY <3>5, <4>1, <4>3, <5>1 DEF Breaks
        <5>3. rel[p].tag.name.core[1] <= r.tag.name.core[1]
          BY <2>2 DEF Continues
        <5> QED BY <3>3, <3>6, <3>7, <5>2, <5>3
      <4> QED BY <4>2, <4>3
    <3> QED BY <3>2, <3>9, <3>10, <3>11 DEF Rises, Earned, Breaks
  <2> QED BY <2>1, <2>2 DEF Sound
<1> QED BY <1>8, <1>9 DEF OneByOne

(* ---- What Decide decides. ---- *)

(* The component's trust is a level, and none of its commits is below it.  *)
LEMMA TrustIsFloor ==
    ASSUME NEW component, NEW range \in SUBSET Commits
    PROVE  /\ EffectiveTrust(component, range) \in Levels
           /\ \A c \in range : component \in Touches[c] => EffectiveTrust(component, range) <= Level(c)
<1> DEFINE touching == {c \in range : component \in Touches[c]}
           levels == {Level(c) : c \in touching}
<1>1. \A c \in Commits : Level(c) \in Levels
  BY DEF Level, AssignLevel, Levels
<1>2. levels \in SUBSET Levels
  BY <1>1
<1>3. CASE touching = {}
  <2>1. EffectiveTrust(component, range) = 3
    BY <1>3 DEF EffectiveTrust
  <2> QED BY <1>3, <2>1 DEF Levels
<1>4. CASE touching # {}
  <2>1. levels # {}
    BY <1>4
  <2>2. \E x \in levels : \A y \in levels : x <= y
    <3> HIDE DEF levels
    <3> QED BY <1>2, <2>1, LeastNat DEF Levels
  <2>3. Lowest(levels) \in levels /\ \A y \in levels : Lowest(levels) <= y
    <3> HIDE DEF levels
    <3> QED BY <2>2 DEF Lowest
  <2>4. EffectiveTrust(component, range) = Lowest(levels)
    BY <1>4 DEF EffectiveTrust
  <2> QED BY <1>2, <2>3, <2>4
<1> QED BY <1>3, <1>4

(* The floor is a bump; without a differ, a breaking commit makes it major.*)
LEMMA FloorIsBump ==
    ASSUME NEW from, NEW range \in SUBSET Commits, NEW floor \in SemanticFloor(from, range)
    PROVE  /\ floor.bump \in Bumps
           /\ DifferBumps = {} /\ (\E c \in range : Changes[c] = Major) => floor.bump = Major
<1> DEFINE declared == {Patch} \cup {Changes[c] : c \in range}
<1>1. declared \in SUBSET Bumps /\ declared # {}
  BY LegacyPolicyAssumption DEF Bumps
<1>2. Bumps \subseteq Nat /\ \A b \in Bumps : b <= 2
  BY DEF Bumps, Patch, MinorBump, Major
<1>3. Highest(declared) \in declared /\ \A y \in declared : y <= Highest(declared)
  <2> HIDE DEF declared
  <2>1. \E x \in declared : \A y \in declared : y <= x
    <3>1. declared \in SUBSET Nat /\ \A x \in declared : x <= 2
      BY <1>1, <1>2
    <3> QED BY <1>1, <3>1, GreatestNat
  <2> QED BY <2>1 DEF Highest
<1>4. CASE floor = [bump |-> Highest(declared), differ |-> FALSE]
  <2>1. floor.bump = Highest(declared)
    BY <1>4
  <2>2. (\E c \in range : Changes[c] = Major) => Major \in declared
    OBVIOUS
  <2>3. PICK top : top = Highest(declared)
    OBVIOUS
  <2> HIDE DEF declared
  <2>4. top \in Bumps /\ (Major \in declared => Major <= top)
    BY <1>1, <1>3, <2>3
  <2>5. Major \in declared => top = Major
    BY <2>4 DEF Bumps, Patch, MinorBump, Major
  <2> QED BY <2>1, <2>2, <2>3, <2>4, <2>5
<1>5. CASE \E b \in (IF from = NoTag THEN {} ELSE DifferBumps) : floor = [bump |-> b, differ |-> TRUE]
  <2>1. PICK b \in DifferBumps : floor = [bump |-> b, differ |-> TRUE]
    BY <1>5
  <2> QED BY <2>1, LegacyPolicyAssumption
<1> QED BY <1>4, <1>5 DEF SemanticFloor

(* A decision that is resolved and clean met the threshold.                *)
LEMMA CleanMeetsThreshold ==
    ASSUME NEW d, Resolved(d), Channel(d) # "prerelease",
           d.effective \in Levels, d.threshold \in Levels
    PROVE  d.effective >= d.threshold
<1>1. ~Demoted(d)
  BY DEF Resolved, Channel
<1>2. ~(d.effective < d.threshold)
  BY <1>1 DEF Demoted
<1> QED BY <1>2 DEF Levels

(* The bump that is applied, and the core it makes.                        *)
LEMMA BumpRaises ==
    ASSUME NEW d, d.claimed \in Bumps, d.floor \in Bumps, NEW core \in Core
    PROVE  /\ BumpCore(core, EffectiveBump(d)) \in Core
           /\ core[1] <= BumpCore(core, EffectiveBump(d))[1]
           /\ d.floor = Major => core[1] < BumpCore(core, EffectiveBump(d))[1]
<1>1. PICK bump : bump = EffectiveBump(d)
  OBVIOUS
<1>2. bump \in Bumps /\ (d.floor = Major => bump = Major)
  BY <1>1 DEF EffectiveBump, Larger, Bumps, Patch, MinorBump, Major
<1>3. PICK x \in Nat, y \in Nat, z \in Nat : core = <<x, y, z>>
  BY DEF Core
<1>4. BumpCore(core, bump) \in {<<x + 1, 0, 0>>, <<x, y + 1, 0>>, <<x, y, z + 1>>}
  BY <1>3 DEF BumpCore
<1>5. bump = Major => BumpCore(core, bump) = <<x + 1, 0, 0>>
  BY <1>3 DEF BumpCore
<1> QED BY <1>1, <1>2, <1>3, <1>4, <1>5 DEF Core

LEMMA DecideSound ==
    ASSUME LegacyInv, NEW o \in Ops,
           NEW from \in {NoTag} \cup DOMAIN tags, NEW to \in Commits,
           NEW requested \in Requests, NEW claimed \in Claims, NEW blast \in BlastScores,
           NEW iteration \in Iterations,
           Decide(o, from, to, requested, claimed, blast, iteration)
    PROVE  \E r : rel' = [rel EXCEPT ![o] = r] /\ Sound(r)
<1> DEFINE range == RangeOf(Anchor(from), to)
           target == TargetComponent(requested)
<1>1. range = RangeOf(Anchor(from), to)
  OBVIOUS
<1>2. target = TargetComponent(requested)
  OBVIOUS
<1>3. /\ AnchorOK(Anchor(from), to) /\ MayContinue(from) /\ iteration >= 1
      /\ \E floor \in SemanticFloor(from, range) :
         \E d \in {[ effective |-> EffectiveTrust(target, range), threshold |-> Threshold,
                     blast |-> blast, strategy |-> Strategy, differ |-> floor.differ,
                     floor |-> floor.bump, claimed |-> claimed ]} :
         \E tag \in {[ prefix |-> CurrentPrefix(from, requested),
                       name |-> DecidedName(from, d, iteration) ]} :
            /\ Resolved(d)
            /\ tag \notin DOMAIN tags
            /\ rel' = [rel EXCEPT ![o] =
                         [ tag |-> tag, to |-> to, component |-> target,
                           from |-> IF from = NoTag THEN {} ELSE {tags[from].oid},
                           levels |-> [c \in range |-> Level(c)], decision |-> d ]]
  BY Zenon DEF Decide
<1> HIDE DEF range, target
<1>4. PICK floor \in SemanticFloor(from, range) :
         \E d \in {[ effective |-> EffectiveTrust(target, range), threshold |-> Threshold,
                     blast |-> blast, strategy |-> Strategy, differ |-> floor.differ,
                     floor |-> floor.bump, claimed |-> claimed ]} :
         \E tag \in {[ prefix |-> CurrentPrefix(from, requested),
                       name |-> DecidedName(from, d, iteration) ]} :
            /\ Resolved(d)
            /\ tag \notin DOMAIN tags
            /\ rel' = [rel EXCEPT ![o] =
                         [ tag |-> tag, to |-> to, component |-> target,
                           from |-> IF from = NoTag THEN {} ELSE {tags[from].oid},
                           levels |-> [c \in range |-> Level(c)], decision |-> d ]]
  BY <1>3
<1>5. PICK d : /\ d = [ effective |-> EffectiveTrust(target, range), threshold |-> Threshold,
                        blast |-> blast, strategy |-> Strategy, differ |-> floor.differ,
                        floor |-> floor.bump, claimed |-> claimed ]
               /\ Resolved(d)
               /\ \E tag \in {[ prefix |-> CurrentPrefix(from, requested),
                                name |-> DecidedName(from, d, iteration) ]} :
                    rel' = [rel EXCEPT ![o] =
                         [ tag |-> tag, to |-> to, component |-> target,
                           from |-> IF from = NoTag THEN {} ELSE {tags[from].oid},
                           levels |-> [c \in range |-> Level(c)], decision |-> d ]]
  BY <1>4
<1>6. PICK tag : /\ tag = [ prefix |-> CurrentPrefix(from, requested),
                            name |-> DecidedName(from, d, iteration) ]
                 /\ rel' = [rel EXCEPT ![o] =
                         [ tag |-> tag, to |-> to, component |-> target,
                           from |-> IF from = NoTag THEN {} ELSE {tags[from].oid},
                           levels |-> [c \in range |-> Level(c)], decision |-> d ]]
  BY <1>5
<1>7. PICK r : r = [ tag |-> tag, to |-> to, component |-> target,
                     from |-> IF from = NoTag THEN {} ELSE {tags[from].oid},
                     levels |-> [c \in range |-> Level(c)], decision |-> d ]
  OBVIOUS
<1>8. /\ r.tag = tag /\ r.to = to /\ r.component = target
      /\ r.from = IF from = NoTag THEN {} ELSE {tags[from].oid}
      /\ DOMAIN r.levels = range /\ \A c \in range : r.levels[c] = Level(c)
  BY <1>7
<1>9. range \in SUBSET Commits
  <2>1. Reach[to] \in SUBSET Commits
    BY ReachClosed
  <2> QED BY <1>1, <2>1 DEF RangeOf
<1>10. /\ d.effective \in Levels /\ d.threshold = Threshold
       /\ \A c \in range : target \in Touches[c] => d.effective <= Level(c)
  BY <1>5, <1>9, TrustIsFloor
<1>11. /\ d.claimed \in Bumps /\ d.floor \in Bumps
       /\ DifferBumps = {} /\ (\E c \in range : Changes[c] = Major) => d.floor = Major
  BY <1>5, <1>9, FloorIsBump, LegacyPolicyAssumption
<1>12. from # NoTag => from \in DOMAIN tags /\ from \in Tag /\ tags[from].oid \in Known
                       /\ rel[tags[from].oid].tag = from /\ tags[from].commit = rel[tags[from].oid].to
  BY DEF LegacyInv, TypeOK, TagsTrue
<1>13. CurrentCore(from) \in Core
  BY <1>12 DEF CurrentCore, ZeroCore, Core, Tag, Name
<1>14. PICK core : core = BumpCore(CurrentCore(from), EffectiveBump(d))
  OBVIOUS
<1>15. /\ core \in Core /\ CurrentCore(from)[1] <= core[1]
       /\ d.floor = Major => CurrentCore(from)[1] < core[1]
  BY <1>11, <1>13, <1>14, BumpRaises
<1>16. tag.prefix = CurrentPrefix(from, requested) /\ tag.name = DecidedName(from, d, iteration)
  BY <1>6
<1>17. /\ tag.name.core = core
       /\ tag.name.suffix = IF Channel(d) = "prerelease" THEN <<d.effective, iteration>> ELSE <<>>
       /\ tag.name \in [core : {core}, suffix : {tag.name.suffix}]
  BY <1>14, <1>16 DEF DecidedName, PrereleaseName, CleanName
<1>18. tag \in Tag
  <2>1. CurrentPrefix(from, requested) \in Components \cup {NoComponent}
    BY <1>12, LegacyComponentsAssumption DEF CurrentPrefix, Tag
  <2>2. iteration \in Nat \ {0}
    BY <1>3, LegacyPolicyAssumption
  <2>3. tag.name.suffix \in Suffix
    BY <1>10, <1>17, <2>2 DEF Suffix
  <2>4. tag.name \in Name
    BY <1>15, <1>17, <2>3 DEF Name
  <2> QED BY <1>6, <1>16, <2>1, <2>4 DEF Tag
<1>19. IsClean(tag.name) => \A c \in Touching(r) : r.levels[c] >= Threshold
  <2>1. SUFFICES ASSUME tag.name.suffix = <<>>, NEW c \in range, target \in Touches[c]
                 PROVE  Level(c) >= Threshold
    BY <1>8 DEF IsClean, Touching
  <2>2. Channel(d) # "prerelease"
    <3>1. \A x, y : <<x, y>> # <<>>
      OBVIOUS
    <3> QED BY <1>17, <2>1, <3>1
  <2>3. d.effective >= Threshold
    BY <1>5, <1>10, <2>2, CleanMeetsThreshold, LegacyPolicyAssumption
  <2>4. Level(c) \in Levels
    BY DEF Level, AssignLevel, Levels
  <2> QED BY <1>10, <2>1, <2>3, <2>4, LegacyPolicyAssumption DEF Levels
<1>20. CASE from = NoTag
  <2>1. Anchor(from) = Boundary
    BY <1>20 DEF Anchor
  <2>2. First(r)
    BY <1>1, <1>3, <1>8, <1>20, <2>1 DEF First, AnchorOK, RangeOf
  <2> QED BY <1>6, <1>7, <1>8, <1>18, <1>19, <2>2 DEF Sound
<1>21. CASE from # NoTag
  <2>1. PICK q \in Known : /\ q = tags[from].oid /\ rel[q].tag = from
                           /\ tags[from].commit = rel[q].to
    BY <1>12, <1>21
  <2>2. Anchor(from) = rel[q].to /\ rel[q].to \in Commits
    BY <1>21, <2>1 DEF Anchor, LegacyInv, Sound
  <2>3. rel[q].to # NoCommit
    BY <2>2, CommitsAssumption DEF NoCommit
  <2>4. /\ r.from = {q} /\ IsClean(rel[q].tag.name) /\ rel[q].to \in Reach[r.to]
        /\ DOMAIN r.levels = Reach[r.to] \ Reach[rel[q].to]
    BY <1>1, <1>3, <1>8, <1>21, <2>1, <2>2, <2>3 DEF AnchorOK, RangeOf, MayContinue
  <2>5. CurrentCore(from) = rel[q].tag.name.core
    BY <1>21, <2>1 DEF CurrentCore
  <2>6. /\ rel[q].tag.name.core[1] <= r.tag.name.core[1]
        /\ DifferBumps = {} /\ (\E c \in DOMAIN r.levels : Changes[c] = Major)
              => rel[q].tag.name.core[1] < r.tag.name.core[1]
    BY <1>8, <1>11, <1>15, <1>17, <2>5
  <2>7. Continues(r, q)
    BY <2>4, <2>6 DEF Continues
  <2> QED BY <1>6, <1>7, <1>8, <1>18, <1>19, <2>7 DEF Sound
<1> QED BY <1>20, <1>21

(* ---- Every step keeps the invariant. ---- *)

LEMMA LegacyInit == Init => LegacyInv
<1> SUFFICES ASSUME Init PROVE LegacyInv
  OBVIOUS
<1>1. Known = {} /\ DOMAIN tags = {} /\ DOMAIN rel = Ops
  BY DEF Init, Known
<1>2. TypeOK
  BY <1>1 DEF Init, TypeOK, PCs
<1>3. OneByOne
  BY <1>1 DEF OneByOne
<1> QED BY <1>1, <1>2, <1>3, InvOneByOne DEF LegacyInv, TagsTrue

LEMMA DecideKeeps == ASSUME LegacyInv, NEW o \in Ops, Start(o) PROVE LegacyInv'
<1>1. PICK from \in {NoTag} \cup DOMAIN tags, to \in Commits, requested \in Requests,
           claimed \in Claims, blast \in BlastScores, iteration \in Iterations :
             Decide(o, from, to, requested, claimed, blast, iteration)
  BY Zenon DEF Start
<1>2. pc[o] = "idle" /\ pc' = [pc EXCEPT ![o] = "decided"] /\ UNCHANGED <<reviewed, tags, store>>
  BY <1>1, Zenon DEF Decide
<1>3. PICK r : rel' = [rel EXCEPT ![o] = r] /\ Sound(r)
  BY <1>1, DecideSound
<1>4. Known' = Known \cup {o} /\ o \notin Known
  BY <1>2 DEF Known, LegacyInv, TypeOK
<1>5. OneByOne'
  BY <1>3, <1>4, DecidedVouches
<1>6. (ChainRises /\ CleanHistoryEarned /\ BreakingBumpsMajor)'
  <2>1. (ChainRises /\ CleanHistoryEarned /\ BreakingBumpsMajor <=> OneByOne)'
    BY InvOneByOne, PTL
  <2> QED BY <1>5, <2>1
<1>7. DOMAIN rel' = Ops /\ rel'[o] = r /\ \A q \in Known : rel'[q] = rel[q]
  BY <1>3, <1>4 DEF LegacyInv, Known
<1>8. \A q \in Known' : Sound(rel[q])'
  <2>1. ASSUME NEW x, Sound(x) PROVE Sound(x)'
    BY <1>4, <1>7, <2>1 DEF Sound, First, Continues, Touching
  <2>2. ASSUME NEW q \in Known PROVE Sound(rel[q])'
    <3>1. PICK x : x = rel[q]
      OBVIOUS
    <3>2. Sound(x)'
      BY <2>1, <3>1 DEF LegacyInv
    <3> QED BY <1>7, <3>1, <3>2 DEF Sound, First, Continues, Touching
  <2>3. Sound(rel[o])'
    <3>1. Sound(r)'
      BY <1>3, <2>1
    <3> QED BY <1>7, <3>1 DEF Sound, First, Continues, Touching
  <2> QED BY <1>4, <2>2, <2>3
<1>9. TagsTrue'
  BY <1>2, <1>4, <1>7 DEF LegacyInv, TagsTrue
<1>10. TypeOK'
  <2>1. pc' \in [Ops -> PCs]
    BY <1>2 DEF LegacyInv, TypeOK, PCs
  <2>2. r.tag \in Tag /\ r.to \in Commits /\ r.from \subseteq Ops
    BY <1>3 DEF Sound, First, Continues, Known
  <2>3. \A q \in Ops : pc'[q] # "idle" => q \in Known \/ q = o
    BY <1>2 DEF Known, LegacyInv, TypeOK
  <2>4. \A q \in Known : rel[q].tag \in Tag /\ rel[q].to \in Commits /\ rel[q].from \subseteq Ops
    BY DEF LegacyInv, TypeOK, Known
  <2>5. \A q \in Ops : pc'[q] # "idle" =>
          rel'[q].tag \in Tag /\ rel'[q].to \in Commits /\ rel'[q].from \subseteq Ops
    BY <1>7, <2>2, <2>3, <2>4
  <2> QED BY <1>2, <2>1, <2>5 DEF LegacyInv, TypeOK
<1> QED BY <1>6, <1>7, <1>8, <1>9, <1>10 DEF LegacyInv

(* A step that only goes on, and stores. *)
LEMMA GoesOn ==
    ASSUME LegacyInv, NEW o \in Known, NEW label \in PCs \ {"idle"}, Goto(o, label),
           UNCHANGED <<reviewed, tags, rel>>, store' \in [Ops -> SUBSET {"commit", "tag"}]
    PROVE  LegacyInv'
<1>1. pc' \in [Ops -> PCs] /\ \A q \in Ops : pc'[q] # "idle" <=> pc[q] # "idle"
  BY DEF Goto, LegacyInv, TypeOK, Known
<1>2. Known' = Known
  BY <1>1 DEF Known
<1>3. TypeOK'
  BY <1>1 DEF LegacyInv, TypeOK
<1>4. TagsTrue'
  BY <1>2 DEF LegacyInv, TagsTrue
<1> QED BY <1>2, <1>3, <1>4, NothingDecided

LEMMA LegacyStep == LegacyInv /\ [Next]_vars => LegacyInv'
<1> SUFFICES ASSUME LegacyInv, [Next]_vars PROVE LegacyInv'
  OBVIOUS
<1>0. store \in [Ops -> SUBSET {"commit", "tag"}] /\ pc \in [Ops -> PCs]
  BY DEF LegacyInv, TypeOK
<1>1. ASSUME UNCHANGED <<tags, store, pc, rel>>, reviewed' \subseteq Commits PROVE LegacyInv'
  <2>1. Known' = Known /\ TypeOK' /\ TagsTrue'
    BY <1>1 DEF Known, LegacyInv, TypeOK, TagsTrue
  <2> QED BY <1>1, <2>1, NothingDecided
<1>2. ASSUME NEW o \in Ops, SignStatement(o) PROVE LegacyInv'
  <2>1. PICK label \in {"failed", "signed"} : Goto(o, label)
    BY <1>2 DEF SignStatement
  <2> QED BY <1>0, <1>2, <2>1, GoesOn DEF SignStatement, Known, PCs
<1>3. ASSUME NEW o \in Ops, LookupTag(o) PROVE LegacyInv'
  <2>1. PICK label \in {"failed", "looked"} : Goto(o, label)
    BY <1>3 DEF LookupTag
  <2> QED BY <1>0, <1>3, <2>1, GoesOn DEF LookupTag, Known, PCs
<1>4. ASSUME NEW o \in Ops, SetTag(o) PROVE LegacyInv'
  <2>1. /\ pc[o] = "looked" /\ Goto(o, "tagged") /\ UNCHANGED <<reviewed, store, rel>>
        /\ tags' = [n \in DOMAIN tags \cup {rel[o].tag} |->
                      IF n = rel[o].tag THEN [oid |-> o, commit |-> rel[o].to] ELSE tags[n]]
    BY <1>4 DEF SetTag
  <2>2. pc' \in [Ops -> PCs] /\ Known' = Known /\ o \in Known
    BY <1>0, <2>1 DEF Goto, Known, PCs
  <2>3. rel[o].tag \in Tag /\ rel[o].to \in Commits
    BY <2>1 DEF LegacyInv, TypeOK
  <2>4. \A n \in DOMAIN tags' : tags'[n] \in [oid : Ops, commit : Commits] /\ n \in Tag
    BY <2>1, <2>3 DEF LegacyInv, TypeOK
  <2>5. TypeOK'
    <3>1. \A q \in Ops : pc'[q] # "idle" <=> pc[q] # "idle"
      BY <2>2 DEF Known
    <3> QED BY <2>1, <2>2, <2>4, <3>1 DEF LegacyInv, TypeOK
  <2>6. TagsTrue'
    BY <2>1, <2>2 DEF LegacyInv, TagsTrue
  <2> QED BY <2>1, <2>2, <2>5, <2>6, NothingDecided
<1>5. ASSUME NEW o \in Ops, PutUnderCommit(o) \/ PutUnderTag(o) PROVE LegacyInv'
  <2>1. /\ pc[o] # "idle" /\ UNCHANGED <<reviewed, tags, rel>>
        /\ (\E label \in {"half", "done"} : Goto(o, label))
        /\ store' \in [Ops -> SUBSET {"commit", "tag"}]
    BY <1>0, <1>5 DEF PutUnderCommit, PutUnderTag
  <2> QED BY <2>1, GoesOn DEF Known, PCs
<1>6. ASSUME NEW o \in Ops, StepFails(o) \/ Crash(o) PROVE LegacyInv'
  <2>1. /\ pc[o] # "idle" /\ UNCHANGED <<reviewed, tags, store, rel>>
        /\ \E label \in {"failed", "dead"} : Goto(o, label)
    BY <1>6 DEF StepFails, Crash
  <2> QED BY <1>0, <2>1, GoesOn DEF Known, PCs
<1>7. ASSUME NEW c \in Reviewable, AttestReview(c) PROVE LegacyInv'
  <2>1. UNCHANGED <<tags, store, pc, rel>> /\ reviewed' \subseteq Commits
    BY <1>7, LegacyPolicyAssumption DEF AttestReview, LegacyInv, TypeOK
  <2> QED BY <1>1, <2>1
<1>8. CASE UNCHANGED vars
  BY <1>1, <1>8 DEF vars, LegacyInv, TypeOK
<1> QED
  BY <1>2, <1>3, <1>4, <1>5, <1>6, <1>7, <1>8, DecideKeeps DEF Next, Step

THEOREM LegacyInvariant == Spec => []LegacyInv
BY LegacyInit, LegacyStep, PTL DEF Spec

(* Every variable has its type, whatever commands run at once. *)
THEOREM LegacyTypes == Spec => []TypeOK
<1>1. LegacyInv => TypeOK
  BY DEF LegacyInv
<1> QED BY <1>1, LegacyInvariant, PTL

(* A clean release vouches for the whole history of its component, when the*)
(* releases it continues are of that component: the threshold that Decide  *)
(* enforces on one range holds of all of them, whatever other commands,    *)
(* failures, crashes and pre-releases came between.                        *)
THEOREM CleanVouches == Spec => []CleanHistoryEarned
<1>1. LegacyInv => CleanHistoryEarned
  BY DEF LegacyInv
<1> QED BY <1>1, LegacyInvariant, PTL

(* Without a differ, a commit that declares a breaking change is always    *)
(* under a larger major number than every release before it in the chain.  *)
THEOREM BreakingIsMajor == Spec => []BreakingBumpsMajor
<1>1. LegacyInv => BreakingBumpsMajor
  BY DEF LegacyInv
<1> QED BY <1>1, LegacyInvariant, PTL

=============================================================================
