--------------------------- MODULE AggregationProofs ---------------------------
(***************************************************************************)
(* Proofs about the end of a verification, for every tree of directories,  *)
(* workspace, range, policy and set of globs: that the traversal finds the *)
(* components of the dependency graph, that the levels computed over them  *)
(* launder nothing, that a glob matches what its pattern describes, and    *)
(* that scopes, guarded paths and the headline follow.                     *)
(***************************************************************************)
EXTENDS Aggregation, WellFoundedInduction, FiniteSetTheorems, SequenceTheorems, TLAPS

(* ---- Numbers. ---- *)

(* Every non-empty set of numbers has a least one.                         *)
LEMMA LeastNat ==
    ASSUME NEW S \in SUBSET Nat, S # {}
    PROVE  \E x \in S : \A y \in S : x <= y
<1>1. PICK x \in S : \A y \in S : ~(<<y, x>> \in OpToRel(<, Nat))
  BY NatLessThanWellFounded, WFMin
<1>2. \A a, b \in Nat : a < b => <<a, b>> \in OpToRel(<, Nat)
  BY DEF OpToRel
<1>3. \A y \in S : x \in Nat /\ y \in Nat /\ ~(y < x)
  BY <1>1, <1>2
<1> QED BY <1>3

(* ---- What a node depends on, by the edges. ---- *)

(* All a node depends on: what is in every set that holds it and is closed *)
(* under the edges.                                                        *)
ClosedUnder(E, S) == \A e \in E : e[1] \in S => e[2] \in S
From(E, v) == {y \in Nat : \A S \in SUBSET Nat : v \in S /\ ClosedUnder(E, S) => y \in S}

(* It depends on itself, and on what something it depends on depends on.   *)
LEMMA FromItself == ASSUME NEW E, NEW v \in Nat PROVE v \in From(E, v)
BY DEF From

LEMMA FromFurther ==
    ASSUME NEW E, NEW v, NEW w \in From(E, v), NEW x \in From(E, w)
    PROVE  x \in From(E, v)
BY DEF From

LEMMA FromEdge ==
    ASSUME NEW E, NEW e \in E, e[1] \in Nat, e[2] \in Nat
    PROVE  e[2] \in From(E, e[1])
BY DEF From, ClosedUnder

LEMMA FromWithin ==
    ASSUME NEW E, NEW S \in SUBSET Nat, NEW v \in S, ClosedUnder(E, S)
    PROVE  From(E, v) \subseteq S
BY DEF From

(* ---- The traversal, step by step. ---- *)

(* What a traversal has done: path are the nodes it is in, pend the edges  *)
(* out of them that it has not looked at or is down at, st what is on the  *)
(* stack; ix, lo and sc are index, low and sccOf, n is nextSCC.            *)
Numbering(ix, lo, st, sc) ==
    /\ DOMAIN ix \subseteq Nat /\ IsFiniteSet(DOMAIN ix)
    /\ \A v \in DOMAIN ix : ix[v] \in Nat /\ ix[v] < Cardinality(DOMAIN ix)
    /\ \A v, w \in DOMAIN ix : ix[v] = ix[w] => v = w
    /\ DOMAIN lo = DOMAIN ix /\ \A v \in DOMAIN ix : lo[v] \in Nat
    /\ DOMAIN sc \subseteq DOMAIN ix /\ st = DOMAIN ix \ DOMAIN sc

(* The path lies on the stack in its order, from the stack's bottom on; its*)
(* last node may not be numbered yet.                                      *)
OnPath(E, path, pend, ix, st) ==
    /\ path \in Seq(Nat)
    /\ \A k \in 1..Len(path) : path[k] \in DOMAIN ix => path[k] \in st
    /\ \A k \in 1..(Len(path) - 1) : path[k] \in st /\ <<path[k], path[k + 1]>> \in E \cap pend
    /\ \A j, k \in 1..Len(path) : j < k /\ path[k] \in st => ix[path[j]] < ix[path[k]]
    /\ \A u \in st : path # <<>> /\ path[1] \in st /\ ix[path[1]] <= ix[u]
    /\ \A e \in pend : \E k \in 1..Len(path) : path[k] = e[1]
    /\ \A e \in E : (\E k \in 1..Len(path) : path[k] = e[1]) /\ e[1] \notin DOMAIN ix => e \in pend

(* The part of the stack from a node of the path to the next one.          *)
Above(path, ix, st, k, u) ==
    /\ path[k] \in st /\ ix[path[k]] <= ix[u]
    /\ k < Len(path) /\ path[k + 1] \in st => ix[u] < ix[path[k + 1]]

(* A low link leads down the stack to a node depended on; below itself for *)
(* a node that was left.  A node of the path has the least of its part, and*)
(* depends on all above it.  An edge that was looked at is accounted for.  *)
Lows(E, path, pend, ix, lo, st) ==
    /\ \A u \in st : lo[u] <= ix[u] /\ \E y \in st : ix[y] = lo[u] /\ y \in From(E, u)
    /\ \A u \in st : (\A k \in 1..Len(path) : path[k] # u) => lo[u] < ix[u]
    /\ \A u \in st, k \in 1..Len(path) : Above(path, ix, st, k, u) => lo[path[k]] <= lo[u]
    /\ \A u \in st, k \in 1..Len(path) :
          path[k] \in st /\ ix[path[k]] <= ix[u] => u \in From(E, path[k])
    /\ \A e \in E \ pend : e[1] \in DOMAIN ix =>
          e[2] \in DOMAIN ix /\ (e[1] \in st /\ e[2] \in st => lo[e[1]] <= ix[e[2]])

(* Components are numbered without gaps, after what they depend on, and    *)
(* their nodes depend on each other.                                       *)
Numbers(E, sc, n) ==
    /\ n \in Nat
    /\ \A v \in DOMAIN sc : sc[v] \in Nat /\ sc[v] < n
    /\ \A id \in 0..(n - 1) : \E v \in DOMAIN sc : sc[v] = id
    /\ \A e \in E : e[1] \in DOMAIN sc => e[2] \in DOMAIN sc /\ sc[e[2]] <= sc[e[1]]
    /\ \A v, w \in DOMAIN sc : sc[v] = sc[w] => w \in From(E, v)

(* The invariant of a traversal.                                           *)
Sound(E, path, pend, ix, lo, st, sc, n) ==
    /\ E \subseteq Nat \X Nat
    /\ Numbering(ix, lo, st, sc) /\ OnPath(E, path, pend, ix, st)
    /\ Lows(E, path, pend, ix, lo, st) /\ Numbers(E, sc, n)

(* The last node of the path gets its number and goes on the stack.        *)
LEMMA EnterSound ==
    ASSUME NEW E, NEW path, NEW pend, NEW ix, NEW lo, NEW st, NEW sc, NEW n,
           Sound(E, path, pend, ix, lo, st, sc, n),
           NEW v, path # <<>>, v = path[Len(path)], v \notin DOMAIN ix,
           NEW ix2, NEW lo2,
           DOMAIN ix2 = DOMAIN ix \cup {v}, DOMAIN lo2 = DOMAIN ix2,
           \A u \in DOMAIN ix : ix2[u] = ix[u] /\ lo2[u] = lo[u],
           ix2[v] = Cardinality(DOMAIN ix), lo2[v] = Cardinality(DOMAIN ix),
           NEW st2, st2 = st \cup {v}
    PROVE  Sound(E, path, pend, ix2, lo2, st2, sc, n)
<1> DEFINE N == Cardinality(DOMAIN ix)
           L == Len(path)
<1>1. /\ path \in Seq(Nat) /\ L \in Nat /\ L >= 1 /\ v = path[L] /\ v \in Nat
      /\ \A k \in 1..L : path[k] \in Nat
  BY DEF Sound, OnPath
<1>2. /\ N \in Nat /\ IsFiniteSet(DOMAIN ix2) /\ Cardinality(DOMAIN ix2) = N + 1
  BY FS_AddElement, FS_CardinalityType DEF Sound, Numbering
<1>3. \A u \in DOMAIN ix : ix2[u] = ix[u] /\ lo2[u] = lo[u] /\ ix[u] \in Nat /\ ix[u] < N
  BY DEF Sound, Numbering
<1>4. st \subseteq DOMAIN ix /\ v \notin st
  BY DEF Sound, Numbering
<1>5. Numbering(ix2, lo2, st2, sc)
  <2>1. DOMAIN ix2 \subseteq Nat /\ DOMAIN lo2 = DOMAIN ix2
    BY <1>1 DEF Sound, Numbering
  <2>2. ASSUME NEW u \in DOMAIN ix2
        PROVE  ix2[u] \in Nat /\ ix2[u] < N + 1 /\ lo2[u] \in Nat /\ (ix2[u] = N => u = v)
    <3>1. CASE u = v
      BY <1>2, <3>1
    <3>2. CASE u \in DOMAIN ix
      BY <1>2, <1>3, <3>2 DEF Sound, Numbering
    <3> QED BY <3>1, <3>2
  <2>3. \A u, w \in DOMAIN ix2 : ix2[u] = ix2[w] => u = w
    BY <1>3, <2>2 DEF Sound, Numbering
  <2>4. DOMAIN sc \subseteq DOMAIN ix2 /\ st2 = DOMAIN ix2 \ DOMAIN sc
    BY DEF Sound, Numbering
  <2>5. /\ \A u \in DOMAIN ix2 : ix2[u] \in Nat /\ ix2[u] < Cardinality(DOMAIN ix2)
        /\ \A u \in DOMAIN ix2 : lo2[u] \in Nat
    BY <1>2, <2>2
  <2> QED BY ONLY <1>2, <2>1, <2>3, <2>4, <2>5 DEF Numbering
<1>6. \A k \in 1..L : (k < L => path[k] \in st) /\ path[k] \in st2
  <2>1. \A k \in 1..L : k < L => k \in 1..(L - 1)
    BY <1>1
  <2>2. \A k \in 1..(L - 1) : path[k] \in st
    BY DEF Sound, OnPath
  <2>3. \A k \in 1..L : k < L \/ path[k] = v
    BY <1>1
  <2> QED BY <2>1, <2>2, <2>3
<1>7. \A k \in 1..(L - 1) : path[k] # v
  BY <1>1, <1>4, <1>6
<1>8. OnPath(E, path, pend, ix2, st2)
  <2>1. \A j, k \in 1..L : j < k => ix2[path[j]] < ix2[path[k]]
    <3> SUFFICES ASSUME NEW j \in 1..L, NEW k \in 1..L, j < k
                 PROVE  ix2[path[j]] < ix2[path[k]]
      OBVIOUS
    <3>1. path[j] \in st /\ path[j] \in DOMAIN ix
      BY <1>1, <1>4, <1>6
    <3>2. CASE k = L
      BY <1>1, <1>2, <1>3, <3>1, <3>2
    <3>3. CASE k < L
      <4>1. path[k] \in st
        BY <1>6, <3>3
      <4> QED BY <1>3, <1>4, <3>1, <4>1 DEF Sound, OnPath
    <3> QED BY <1>1, <3>2, <3>3
  <2>2. ASSUME NEW u \in st2 PROVE path[1] \in st2 /\ ix2[path[1]] <= ix2[u]
    <3>1. path[1] \in st2
      BY <1>1, <1>6
    <3>2. CASE u = v
      BY <1>1, <1>2, <1>3, <1>4, <3>1, <3>2
    <3>3. CASE u \in st
      BY <1>3, <1>4, <3>3 DEF Sound, OnPath
    <3> QED BY <3>1, <3>2, <3>3
  <2>3. \A k \in 1..(L - 1) : path[k] \in st2 /\ <<path[k], path[k + 1]>> \in E \cap pend
    BY DEF Sound, OnPath
  <2>4. /\ \A e \in pend : \E k \in 1..L : path[k] = e[1]
        /\ \A e \in E : (\E k \in 1..L : path[k] = e[1]) /\ e[1] \notin DOMAIN ix2 => e \in pend
    BY DEF Sound, OnPath
  <2> QED BY <1>1, <1>6, <2>1, <2>2, <2>3, <2>4 DEF OnPath
<1>9. Lows(E, path, pend, ix2, lo2, st2)
  <2>1. ASSUME NEW u \in st2
        PROVE  lo2[u] <= ix2[u] /\ \E y \in st2 : ix2[y] = lo2[u] /\ y \in From(E, u)
    <3>1. CASE u = v
      BY <1>1, <1>2, <3>1, FromItself
    <3>2. CASE u \in st
      <4>1. PICK y \in st : ix[y] = lo[u] /\ y \in From(E, u) /\ lo[u] <= ix[u]
        BY <3>2 DEF Sound, Lows
      <4> QED BY <1>3, <1>4, <3>2, <4>1
    <3> QED BY <3>1, <3>2
  <2>2. ASSUME NEW u \in st2, \A k \in 1..L : path[k] # u PROVE lo2[u] < ix2[u]
    <3>1. u \in st
      BY <1>1, <2>2
    <3> QED BY <1>3, <1>4, <2>2, <3>1 DEF Sound, Lows
  <2>3. ASSUME NEW u \in st2, NEW k \in 1..L, Above(path, ix2, st2, k, u)
        PROVE  lo2[path[k]] <= lo2[u]
    <3>1. CASE k = L
      <4>1. ix2[u] >= N
        BY <1>1, <2>3, <3>1 DEF Above
      <4>2. u = v
        BY <1>2, <1>3, <1>4, <4>1
      <4> QED BY <1>1, <1>2, <3>1, <4>2
    <3>2. CASE k < L
      <4>1. path[k] \in st /\ k + 1 \in 1..L /\ path[k + 1] \in st2
        BY <1>1, <1>6, <3>2
      <4>2. ix2[u] < ix2[path[k + 1]]
        BY <1>1, <2>3, <3>2, <4>1 DEF Above
      <4>3. u # v
        BY <1>2, <1>3, <1>4, <4>1, <4>2
      <4>4. u \in st /\ ix[path[k]] <= ix[u]
        BY <1>3, <1>4, <2>3, <4>1, <4>3 DEF Above
      <4>5. path[k + 1] \in st => ix[u] < ix[path[k + 1]]
        BY <1>3, <1>4, <4>2, <4>4
      <4>6. Above(path, ix, st, k, u)
        BY <4>1, <4>4, <4>5 DEF Above
      <4> QED BY <1>3, <1>4, <4>1, <4>4, <4>6 DEF Sound, Lows
    <3> QED BY <1>1, <3>1, <3>2
  <2>4. ASSUME NEW u \in st2, NEW k \in 1..L, path[k] \in st2, ix2[path[k]] <= ix2[u]
        PROVE  u \in From(E, path[k])
    <3>1. CASE k = L
      <4>1. u = v
        BY <1>1, <1>2, <1>3, <1>4, <2>4, <3>1
      <4> QED BY <1>1, <3>1, <4>1, FromItself
    <3>2. CASE k < L /\ u = v
      <4>1. path[k] \in st /\ path[L - 1] \in st /\ L - 1 \in 1..L /\ L - 1 \in 1..(L - 1)
        BY SMTT(30), <1>1, <1>6, <3>2
      <4>2. ix[path[k]] <= ix[path[L - 1]]
        <5>1. CASE k = L - 1
          BY <1>3, <1>4, <4>1, <5>1
        <5>2. CASE k < L - 1
          <6>1. ix[path[k]] < ix[path[L - 1]]
            BY <4>1, <5>2 DEF Sound, OnPath
          <6> QED BY <1>3, <1>4, <4>1, <6>1
        <5> QED BY <1>1, <3>2, <5>1, <5>2
      <4>3. path[L - 1] \in From(E, path[k])
        BY <4>1, <4>2 DEF Sound, Lows
      <4>4. <<path[L - 1], v>> \in E
        BY <1>1, <4>1 DEF Sound, OnPath
      <4>5. v \in From(E, path[L - 1])
        <5> DEFINE e == <<path[L - 1], v>>
        <5>1. e \in E /\ e[1] = path[L - 1] /\ e[2] = v /\ e[1] \in Nat /\ e[2] \in Nat
          BY <1>1, <4>1, <4>4
        <5> HIDE DEF e
        <5>2. e[2] \in From(E, e[1])
          BY <5>1, FromEdge
        <5> QED BY <5>1, <5>2
      <4> QED BY <3>2, <4>3, <4>5, FromFurther
    <3>3. CASE k < L /\ u # v
      <4>1. path[k] \in st /\ u \in st
        BY <1>1, <1>6, <3>3
      <4> QED BY <1>3, <1>4, <2>4, <4>1 DEF Sound, Lows
    <3> QED BY <1>1, <3>1, <3>2, <3>3
  <2>5. ASSUME NEW e \in E \ pend, e[1] \in DOMAIN ix2
        PROVE  e[2] \in DOMAIN ix2 /\ (e[1] \in st2 /\ e[2] \in st2 => lo2[e[1]] <= ix2[e[2]])
    <3>1. e[1] # v
      BY <1>1, <2>5 DEF Sound, OnPath
    <3>2. e[1] \in DOMAIN ix /\ e[2] \in DOMAIN ix
      BY <2>5, <3>1 DEF Sound, Lows
    <3>3. e[2] # v
      BY <3>2
    <3> QED BY <1>3, <1>4, <2>5, <3>1, <3>2, <3>3 DEF Sound, Lows
  <2> QED BY <2>1, <2>2, <2>3, <2>4, <2>5 DEF Lows
<1> QED BY <1>5, <1>8, <1>9 DEF Sound

(* The nodes of the path are different, and numbered up to the last one.   *)
LEMMA PathNodes ==
    ASSUME NEW E, NEW path, NEW pend, NEW ix, NEW lo, NEW st, NEW sc, NEW n,
           Sound(E, path, pend, ix, lo, st, sc, n), path # <<>>
    PROVE  /\ path \in Seq(Nat) /\ Len(path) \in Nat /\ Len(path) >= 1
           /\ \A k \in 1..Len(path) : path[k] \in Nat
           /\ \A k \in 1..Len(path) : k < Len(path) => path[k] \in st
           /\ \A k \in 1..Len(path) : path[k] = path[Len(path)] => k = Len(path)
           /\ \A u \in st : /\ u \in DOMAIN ix /\ u \in DOMAIN lo /\ u \in Nat
                            /\ ix[u] \in Nat /\ lo[u] \in Nat
<1>1. path \in Seq(Nat) /\ Len(path) \in Nat /\ Len(path) >= 1
  BY DEF Sound, OnPath
<1>2. \A k \in 1..Len(path) : path[k] \in Nat
  BY <1>1
<1>3. \A k \in 1..(Len(path) - 1) : path[k] \in st
  BY DEF Sound, OnPath
<1>4. \A k \in 1..Len(path) : k < Len(path) => path[k] \in st
  BY <1>1, <1>3
<1>5. \A u \in st : /\ u \in DOMAIN ix /\ u \in DOMAIN lo /\ u \in Nat
                   /\ ix[u] \in Nat /\ lo[u] \in Nat
  BY DEF Sound, Numbering
<1>6. ASSUME NEW k \in 1..Len(path), path[k] = path[Len(path)], k # Len(path)
      PROVE  FALSE
  <2>1. k < Len(path) /\ path[Len(path)] \in st /\ Len(path) \in 1..Len(path)
    BY <1>1, <1>4, <1>6
  <2>2. ix[path[k]] < ix[path[Len(path)]]
    BY <2>1 DEF Sound, OnPath
  <2> QED BY <1>5, <1>6, <2>1, <2>2
<1> QED BY <1>1, <1>2, <1>4, <1>5, <1>6

(* The last node of the path looks at some edges to nodes that are         *)
(* numbered: its low link becomes the least of it and of the numbers of    *)
(* those on the stack.                                                     *)
LEMMA LookSound ==
    ASSUME NEW E, NEW path, NEW pend, NEW ix, NEW lo, NEW st, NEW sc, NEW n,
           Sound(E, path, pend, ix, lo, st, sc, n),
           NEW v, path # <<>>, v = path[Len(path)], v \in st,
           NEW D \in SUBSET (E \cap pend), \A e \in D : e[1] = v /\ e[2] \in DOMAIN ix,
           NEW lo2, DOMAIN lo2 = DOMAIN lo, \A u \in DOMAIN lo : u # v => lo2[u] = lo[u],
           lo2[v] <= lo[v], \A e \in D : e[2] \in st => lo2[v] <= ix[e[2]],
           lo2[v] = lo[v] \/ \E e \in D : e[2] \in st /\ lo2[v] = ix[e[2]]
    PROVE  Sound(E, path, pend \ D, ix, lo2, st, sc, n)
<1> DEFINE L == Len(path)
           pend2 == pend \ D
<1>1. /\ path \in Seq(Nat) /\ L \in Nat /\ L >= 1 /\ v = path[L] /\ v \in Nat
      /\ \A k \in 1..L : path[k] \in Nat
      /\ \A k \in 1..L : path[k] = v => k = L
      /\ \A k \in 1..L : path[k] \in st
      /\ \A u \in st : /\ u \in DOMAIN ix /\ u \in DOMAIN lo /\ u \in Nat
                       /\ ix[u] \in Nat /\ lo[u] \in Nat
  BY PathNodes
<1>2. \A u \in st : lo2[u] \in Nat /\ lo2[u] <= lo[u]
  <2>1. lo2[v] \in Nat /\ lo2[v] <= lo[v]
    <3>1. CASE lo2[v] = lo[v]
      BY <1>1, <3>1
    <3>2. CASE \E e \in D : e[2] \in st /\ lo2[v] = ix[e[2]]
      BY <1>1, <3>2
    <3> QED BY <3>1, <3>2
  <2>2. \A u \in st : u # v => lo2[u] = lo[u] /\ lo[u] \in Nat
    BY <1>1
  <2>3. \A a \in Nat : a <= a
    OBVIOUS
  <2> QED BY <2>1, <2>2, <2>3
<1>3. Numbering(ix, lo2, st, sc)
  <2>1. \A u \in DOMAIN ix : lo2[u] \in Nat
    BY <1>2 DEF Sound, Numbering
  <2> QED BY <2>1 DEF Sound, Numbering
<1>4. OnPath(E, path, pend2, ix, st)
  <2>1. \A k \in 1..(L - 1) : path[k] \in st /\ <<path[k], path[k + 1]>> \in E \cap pend2
    <3> SUFFICES ASSUME NEW k \in 1..(L - 1)
                 PROVE  path[k] \in st /\ <<path[k], path[k + 1]>> \in E \cap pend2
      OBVIOUS
    <3>1. path[k] \in st /\ <<path[k], path[k + 1]>> \in E \cap pend
      BY DEF Sound, OnPath
    <3>2. path[k] # v
      BY <1>1
    <3> QED BY <3>1, <3>2
  <2>2. \A e \in E : (\E k \in 1..L : path[k] = e[1]) => e[1] \in DOMAIN ix
    BY <1>1
  <2> QED BY <1>1, <2>1, <2>2 DEF Sound, OnPath
<1>5. Lows(E, path, pend2, ix, lo2, st)
  <2>1. ASSUME NEW u \in st
        PROVE  lo2[u] <= ix[u] /\ \E y \in st : ix[y] = lo2[u] /\ y \in From(E, u)
    <3>1. PICK y \in st : ix[y] = lo[u] /\ y \in From(E, u) /\ lo[u] <= ix[u]
      BY DEF Sound, Lows
    <3>2. lo2[u] <= ix[u]
      BY <1>1, <1>2, <3>1
    <3>3. CASE lo2[u] = lo[u]
      BY <3>1, <3>2, <3>3
    <3>4. CASE lo2[u] # lo[u]
      <4>1. u = v
        BY <1>1, <3>4
      <4>2. PICK e \in D : e[2] \in st /\ lo2[v] = ix[e[2]]
        BY <3>4, <4>1
      <4>3. e[2] \in From(E, v)
        BY <1>1, <4>2, FromEdge
      <4> QED BY <3>2, <4>1, <4>2, <4>3
    <3> QED BY <3>3, <3>4
  <2>2. ASSUME NEW u \in st, \A k \in 1..L : path[k] # u PROVE lo2[u] < ix[u]
    <3>1. lo[u] < ix[u]
      BY <2>2 DEF Sound, Lows
    <3>2. lo2[u] \in Nat /\ lo2[u] <= lo[u] /\ lo[u] \in Nat /\ ix[u] \in Nat
      BY <1>1, <1>2
    <3> QED BY <3>1, <3>2
  <2>3. ASSUME NEW u \in st, NEW k \in 1..L, Above(path, ix, st, k, u)
        PROVE  lo2[path[k]] <= lo2[u]
    <3>1. lo[path[k]] <= lo[u]
      BY <2>3 DEF Sound, Lows
    <3>2. CASE u # v
      <4>1. path[k] \in st /\ lo2[u] = lo[u]
        BY <1>1, <3>2, <2>3 DEF Above
      <4>2. lo2[path[k]] \in Nat /\ lo2[path[k]] <= lo[path[k]] /\ lo[path[k]] \in Nat /\ lo[u] \in Nat
        BY <1>1, <1>2, <4>1
      <4> QED BY <3>1, <4>1, <4>2
    <3>3. CASE u = v /\ k < L
      <4>1. k + 1 \in 1..L /\ path[k + 1] \in st /\ ix[v] < ix[path[k + 1]]
        BY SMTT(30), <1>1, <2>3, <3>3 DEF Above
      <4>2. k + 1 = L \/ ix[path[k + 1]] < ix[v]
        BY <1>1, <3>3, <4>1 DEF Sound, OnPath
      <4>3. k + 1 = L => path[k + 1] = v
        BY <1>1
      <4>4. ix[v] \in Nat /\ ix[path[k + 1]] \in Nat
        BY <1>1, <4>1
      <4> QED BY <4>1, <4>2, <4>3, <4>4
    <3>4. CASE u = v /\ k = L
      BY <1>1, <1>2, <3>4
    <3> QED BY <1>1, <3>2, <3>3, <3>4
  <2>4. ASSUME NEW u \in st, NEW k \in 1..L, path[k] \in st, ix[path[k]] <= ix[u]
        PROVE  u \in From(E, path[k])
    BY <2>4 DEF Sound, Lows
  <2>5. ASSUME NEW e \in E \ pend2, e[1] \in DOMAIN ix
        PROVE  e[2] \in DOMAIN ix /\ (e[1] \in st /\ e[2] \in st => lo2[e[1]] <= ix[e[2]])
    <3>1. CASE e \in D
      BY <3>1
    <3>2. CASE e \notin pend
      <4>1. e[2] \in DOMAIN ix /\ (e[1] \in st /\ e[2] \in st => lo[e[1]] <= ix[e[2]])
        BY <2>5, <3>2 DEF Sound, Lows
      <4>2. ASSUME e[1] \in st, e[2] \in st PROVE lo2[e[1]] <= ix[e[2]]
        <5>1. /\ lo2[e[1]] \in Nat /\ lo2[e[1]] <= lo[e[1]] /\ lo[e[1]] \in Nat
              /\ ix[e[2]] \in Nat /\ lo[e[1]] <= ix[e[2]]
          BY <1>1, <1>2, <4>1, <4>2
        <5> QED BY <5>1
      <4> QED BY <4>1, <4>2
    <3> QED BY <3>1, <3>2
  <2> QED BY <2>1, <2>2, <2>3, <2>4, <2>5 DEF Lows
<1> QED BY <1>3, <1>4, <1>5 DEF Sound

(* From the last node of the path the traversal goes down to a node that   *)
(* is not numbered.                                                        *)
Pushes(E, path, pend, w, path2, pend2) ==
    path2 = Append(path, w) /\ pend2 = pend \cup {e \in E : e[1] = w}

LEMMA PushSound ==
    ASSUME NEW E, NEW path, NEW pend, NEW ix, NEW lo, NEW st, NEW sc, NEW n,
           Sound(E, path, pend, ix, lo, st, sc, n),
           NEW v, path # <<>>, v = path[Len(path)], v \in st,
           NEW w \in Nat, <<v, w>> \in E, <<v, w>> \in pend, w \notin DOMAIN ix,
           NEW path2, NEW pend2, Pushes(E, path, pend, w, path2, pend2)
    PROVE  Sound(E, path2, pend2, ix, lo, st, sc, n)
<1> USE DEF Pushes
<1> DEFINE L == Len(path)
<1>1. /\ path \in Seq(Nat) /\ L \in Nat /\ L >= 1 /\ v = path[L] /\ v \in Nat
      /\ \A k \in 1..L : path[k] \in Nat
      /\ \A k \in 1..L : path[k] \in st
      /\ \A u \in st : u \in DOMAIN ix
  BY PathNodes
<1>2. /\ path2 \in Seq(Nat) /\ Len(path2) = L + 1 /\ path2[L + 1] = w /\ path2 # <<>>
      /\ \A k \in 1..L : path2[k] = path[k]
  BY SMTT(30), <1>1
<1>3. w \notin st
  BY <1>1
<1>p. \A k \in 1..Len(path2) :
          \/ k \in 1..L /\ path2[k] = path[k] /\ path2[k] \in st
          \/ k = L + 1 /\ path2[k] = w
  <2>1. \A k \in 1..(L + 1) : k \in 1..L \/ k = L + 1
    BY <1>1
  <2> QED BY <1>1, <1>2, <2>1
<1>4. OnPath(E, path2, pend2, ix, st)
  <2>1. ASSUME NEW k \in 1..(Len(path2) - 1)
        PROVE  path2[k] \in st /\ <<path2[k], path2[k + 1]>> \in E \cap pend2
    <3>0. k \in 1..L /\ k + 1 \in 1..(L + 1) /\ path2[k] = path[k] /\ path2[k] \in st
      BY <1>1, <1>2
    <3>1. CASE k = L
      <4>1. path2[k] = v /\ path2[k + 1] = w
        BY <1>1, <1>2, <3>0, <3>1
      <4>2. <<v, w>> \in E \cap pend2
        OBVIOUS
      <4>3. <<path2[k], path2[k + 1]>> \in E \cap pend2
        BY ONLY <4>1, <4>2
      <4> QED BY ONLY <3>0, <4>3
    <3>2. CASE k < L
      <4>1. k \in 1..(L - 1) /\ k + 1 \in 1..L
        BY <1>1, <3>0, <3>2
      <4>2. path[k] \in st /\ <<path[k], path[k + 1]>> \in E \cap pend
        BY <4>1 DEF Sound, OnPath
      <4> QED BY <1>2, <3>0, <4>1, <4>2
    <3>3. k = L \/ k < L
      BY <1>1, <3>0
    <3> QED BY ONLY <3>1, <3>2, <3>3
  <2>2. \A j, k \in 1..Len(path2) : j < k /\ path2[k] \in st => ix[path2[j]] < ix[path2[k]]
    <3> SUFFICES ASSUME NEW j \in 1..Len(path2), NEW k \in 1..Len(path2), j < k, path2[k] \in st
                 PROVE  ix[path2[j]] < ix[path2[k]]
      OBVIOUS
    <3>1. k # L + 1 /\ j \in 1..L /\ k \in 1..L
      <4>1. k # L + 1
        BY <1>3, <1>p
      <4> QED BY <1>1, <1>2, <4>1
    <3> QED BY <1>2, <3>1 DEF Sound, OnPath
  <2>3. \A u \in st : path2[1] \in st /\ ix[path2[1]] <= ix[u]
    <3>1. path2[1] = path[1]
      BY <1>1, <1>2
    <3> QED BY <3>1 DEF Sound, OnPath
  <2>4. \A e \in pend2 : \E k \in 1..Len(path2) : path2[k] = e[1]
    <3> SUFFICES ASSUME NEW e \in pend2 PROVE \E k \in 1..Len(path2) : path2[k] = e[1]
      OBVIOUS
    <3>1. CASE e[1] = w
      BY <1>1, <1>2, <3>1
    <3>2. CASE e \in pend
      <4>1. PICK k \in 1..L : path[k] = e[1]
        BY <3>2 DEF Sound, OnPath
      <4> QED BY <1>1, <1>2, <4>1
    <3> QED BY <3>1, <3>2
  <2>5. \A e \in E : (\E k \in 1..Len(path2) : path2[k] = e[1]) /\ e[1] \notin DOMAIN ix => e \in pend2
    <3> SUFFICES ASSUME NEW e \in E, NEW k \in 1..Len(path2), path2[k] = e[1], e[1] \notin DOMAIN ix
                 PROVE  e[1] = w
      OBVIOUS
    <3>1. k \in 1..L \/ k = L + 1
      BY <1>1, <1>2
    <3> QED BY <1>1, <1>2, <3>1
  <2>6. \A k \in 1..Len(path2) : path2[k] \in DOMAIN ix => path2[k] \in st
    BY <1>p
  <2> QED BY <1>2, <2>1, <2>2, <2>3, <2>4, <2>5, <2>6 DEF OnPath
<1>5. Lows(E, path2, pend2, ix, lo, st)
  <2>1. ASSUME NEW u \in st, \A k \in 1..Len(path2) : path2[k] # u PROVE lo[u] < ix[u]
    <3>1. \A k \in 1..L : path[k] # u
      BY <1>1, <1>2, <2>1
    <3> QED BY <3>1 DEF Sound, Lows
  <2>2. ASSUME NEW u \in st, NEW k \in 1..Len(path2), path2[k] \in st
        PROVE  /\ Above(path2, ix, st, k, u) => lo[path2[k]] <= lo[u]
               /\ ix[path2[k]] <= ix[u] => u \in From(E, path2[k])
    <3>1. k \in 1..L /\ path2[k] = path[k]
      BY <1>p, <1>3, <2>2
    <3>2. Above(path2, ix, st, k, u) => Above(path, ix, st, k, u)
      <4>1. k < L => path2[k + 1] = path[k + 1] /\ k < Len(path2)
        <5>1. k < L => k + 1 \in 1..L /\ k < L + 1
          BY <1>1, <3>1
        <5> QED BY <1>2, <5>1
      <4> QED BY <3>1, <4>1 DEF Above
    <3> QED BY <2>2, <3>1, <3>2 DEF Sound, Lows
  <2>3. ASSUME NEW e \in E \ pend2 PROVE e \in E \ pend
    OBVIOUS
  <2>4. ASSUME NEW u \in st, NEW k \in 1..Len(path2), Above(path2, ix, st, k, u)
        PROVE  lo[path2[k]] <= lo[u]
    BY <2>2, <2>4 DEF Above
  <2>5. /\ \A u \in st : lo[u] <= ix[u] /\ \E y \in st : ix[y] = lo[u] /\ y \in From(E, u)
        /\ \A e \in E \ pend2 : e[1] \in DOMAIN ix =>
              e[2] \in DOMAIN ix /\ (e[1] \in st /\ e[2] \in st => lo[e[1]] <= ix[e[2]])
    BY <2>3 DEF Sound, Lows
  <2> QED BY <2>1, <2>2, <2>4, <2>5 DEF Lows
<1> QED BY <1>4, <1>5 DEF Sound

(* A node that has a link below itself is not the first of the path.       *)
LEMMA HasParent ==
    ASSUME NEW E, NEW path, NEW pend, NEW ix, NEW lo, NEW st, NEW sc, NEW n,
           Sound(E, path, pend, ix, lo, st, sc, n),
           NEW v, path # <<>>, v = path[Len(path)], v \in st, lo[v] < ix[v]
    PROVE  Len(path) >= 2
<1>1. PICK y \in st : ix[y] = lo[v]
  BY DEF Sound, Lows
<1>2. path[1] \in st /\ ix[path[1]] <= ix[y]
  BY DEF Sound, OnPath
<1>3. ix[path[1]] \in Nat /\ ix[v] \in Nat /\ lo[v] \in Nat
  BY <1>2, PathNodes
<1>4. path[1] # v
  BY <1>1, <1>2, <1>3
<1> QED BY <1>4, PathNodes

(* The path without its last node.                                         *)
But1(path) == SubSeq(path, 1, Len(path) - 1)
Shortened(E, path, pend2, ix, st2, path2) ==
    /\ OnPath(E, path2, pend2, ix, st2)
    /\ path2 \in Seq(Nat) /\ Len(path2) = Len(path) - 1
    /\ \A k \in 1..Len(path2) : /\ k \in 1..Len(path) /\ k < Len(path)
                                /\ path2[k] = path[k] /\ path[k] \in st2
                                /\ path[k] # path[Len(path)]
                                /\ ix[path[k]] < ix[path[Len(path)]]

LEMMA ShorterPath ==
    ASSUME NEW E, NEW path, NEW pend, NEW ix, NEW lo, NEW st, NEW sc, NEW n,
           Sound(E, path, pend, ix, lo, st, sc, n),
           NEW v, path # <<>>, v = path[Len(path)], v \in st,
           \A e \in pend : e[1] # v,
           NEW path2, path2 = But1(path),
           NEW pend2 \in SUBSET pend, \A e \in pend \ pend2 : e[2] = v,
           NEW st2 \in SUBSET st, \A u \in st : ix[u] < ix[v] => u \in st2,
           Len(path) = 1 => st2 = {}
    PROVE  Shortened(E, path, pend2, ix, st2, path2)
<1> DEFINE L == Len(path)
<1>1. /\ path \in Seq(Nat) /\ L \in Nat /\ L >= 1 /\ v = path[L]
      /\ \A k \in 1..L : path[k] \in Nat
      /\ \A k \in 1..L : path[k] = v => k = L
      /\ \A k \in 1..L : path[k] \in st
      /\ \A u \in st : u \in DOMAIN ix /\ ix[u] \in Nat
  BY PathNodes
<1>2. /\ path2 \in Seq(Nat) /\ Len(path2) = L - 1
      /\ \A k \in 1..(L - 1) : path2[k] = path[k]
  <2>1. \A k \in 1..(L - 1) : k \in 1..L /\ path[k] \in Nat
    BY <1>1
  <2>2. 1 \in Int /\ L - 1 \in Int
    BY <1>1
  <2>3. /\ path2 \in Seq(Nat) /\ Len(path2) = IF 1 <= L - 1 THEN L - 1 - 1 + 1 ELSE 0
        /\ \A k \in 1..(L - 1 - 1 + 1) : path2[k] = path[1 + k - 1]
    <3> HIDE DEF L
    <3>1. path2 = SubSeq(path, 1, L - 1)
      BY DEF L, But1
    <3> QED BY <2>1, <2>2, <3>1, SubSeqProperties
  <2>4. L \in Nat /\ L >= 1
    BY <1>1
  <2> HIDE DEF L
  <2>5. /\ (IF 1 <= L - 1 THEN L - 1 - 1 + 1 ELSE 0) = L - 1
        /\ L - 1 - 1 + 1 = L - 1
        /\ \A k \in 1..(L - 1) : 1 + k - 1 = k
    BY <2>4
  <2> QED BY <2>3, <2>5
<1>3. \A k \in 1..(L - 1) : k \in 1..L /\ k < L
  BY <1>1
<1>4. \A k \in 1..(L - 1) : ix[path[k]] < ix[v]
  <2> SUFFICES ASSUME NEW k \in 1..(L - 1) PROVE ix[path[k]] < ix[v]
    OBVIOUS
  <2>1. k \in 1..L /\ L \in 1..L /\ k < L /\ path[L] \in st
    BY <1>1
  <2> QED BY <1>1, <2>1 DEF Sound, OnPath
<1>5. \A k \in 1..(L - 1) : path[k] \in st2 /\ path[k] # v
  BY <1>1, <1>3, <1>4
<1>6. OnPath(E, path2, pend2, ix, st2)
  <2>1. ASSUME NEW k \in 1..(Len(path2) - 1)
        PROVE  path2[k] \in st2 /\ <<path2[k], path2[k + 1]>> \in E \cap pend2
    <3>1. k \in 1..(L - 1) /\ k + 1 \in 1..(L - 1)
      BY <1>1, <1>2
    <3>2. <<path[k], path[k + 1]>> \in E \cap pend
      BY <3>1 DEF Sound, OnPath
    <3>3. path[k + 1] # v
      BY <1>5, <3>1
    <3> DEFINE e == <<path[k], path[k + 1]>>
    <3>4. e \in pend /\ e \in E /\ e[2] # v
      BY <3>2, <3>3
    <3> HIDE DEF e
    <3>5. e \in E \cap pend2
      BY <3>4
    <3> QED BY <1>2, <1>5, <3>1, <3>5 DEF e
  <2>2. \A j, k \in 1..Len(path2) : j < k /\ path2[k] \in st2 => ix[path2[j]] < ix[path2[k]]
    <3> SUFFICES ASSUME NEW j \in 1..Len(path2), NEW k \in 1..Len(path2), j < k
                 PROVE  ix[path2[j]] < ix[path2[k]]
      OBVIOUS
    <3>1. j \in 1..L /\ k \in 1..L /\ path2[j] = path[j] /\ path2[k] = path[k] /\ path[k] \in st
      BY <1>1, <1>2, <1>3
    <3> QED BY <3>1 DEF Sound, OnPath
  <2>3. ASSUME NEW u \in st2 PROVE path2 # <<>> /\ path2[1] \in st2 /\ ix[path2[1]] <= ix[u]
    <3>1. L >= 2
      <4>1. L # 1
        BY <2>3
      <4>2. L \in Nat /\ L >= 1
        BY <1>1
      <4> HIDE DEF L
      <4> QED BY <4>1, <4>2
    <3>2. 1 \in 1..(L - 1)
      BY <1>1, <3>1
    <3>3. path2 # <<>>
      <4>1. Len(path2) # 0
        BY <1>1, <1>2, <3>1
      <4> QED BY <4>1
    <3>4. ix[path[1]] <= ix[u]
      BY DEF Sound, OnPath
    <3> QED BY <1>2, <1>5, <3>2, <3>3, <3>4
  <2>4. \A e \in pend2 : \E k \in 1..Len(path2) : path2[k] = e[1]
    <3> SUFFICES ASSUME NEW e \in pend2 PROVE \E k \in 1..Len(path2) : path2[k] = e[1]
      OBVIOUS
    <3>1. PICK k \in 1..L : path[k] = e[1]
      BY DEF Sound, OnPath
    <3>2. k # L
      BY <1>1, <3>1
    <3>3. k \in 1..(L - 1)
      BY <1>1, <3>2
    <3> QED BY <1>2, <3>1, <3>3
  <2>5. \A e \in E : (\E k \in 1..Len(path2) : path2[k] = e[1]) => e[1] \in DOMAIN ix
    BY <1>1, <1>2, <1>5
  <2>6. \A k \in 1..Len(path2) : path2[k] \in st2
    BY <1>2, <1>5
  <2> QED BY <1>2, <2>1, <2>2, <2>3, <2>4, <2>5, <2>6 DEF OnPath
<1> QED BY <1>1, <1>2, <1>3, <1>4, <1>5, <1>6 DEF Shortened

(* The traversal leaves a node that is not the first of its component: what*)
(* the node links to, its parent links to.                                 *)
Leaves(path, pend, lo, v, p, path2, pend2, lo2) ==
    /\ path2 = But1(path) /\ pend2 = pend \ {<<p, v>>}
    /\ DOMAIN lo2 = DOMAIN lo /\ \A u \in DOMAIN lo : u # p => lo2[u] = lo[u]
    /\ lo2[p] <= lo[p] /\ lo2[p] <= lo[v] /\ (lo2[p] = lo[p] \/ lo2[p] = lo[v])

LEMMA LeaveSound ==
    ASSUME NEW E, NEW path, NEW pend, NEW ix, NEW lo, NEW st, NEW sc, NEW n,
           Sound(E, path, pend, ix, lo, st, sc, n),
           NEW v, path # <<>>, v = path[Len(path)], v \in st, lo[v] < ix[v],
           \A e \in pend : e[1] # v,
           NEW p, p = path[Len(path) - 1],
           NEW path2, NEW pend2, NEW lo2, Leaves(path, pend, lo, v, p, path2, pend2, lo2)
    PROVE  Sound(E, path2, pend2, ix, lo2, st, sc, n)
<1> USE DEF Leaves
<1> DEFINE L == Len(path)
<1>1. /\ path \in Seq(Nat) /\ L \in Nat /\ L >= 2 /\ v = path[L] /\ v \in Nat
      /\ \A k \in 1..L : path[k] \in Nat
      /\ \A k \in 1..L : path[k] = v => k = L
      /\ \A k \in 1..L : path[k] \in st
      /\ \A u \in st : /\ u \in DOMAIN ix /\ u \in DOMAIN lo /\ u \in Nat
                       /\ ix[u] \in Nat /\ lo[u] \in Nat
  BY SMTT(30), PathNodes, HasParent
<1>2. pend2 \in SUBSET pend /\ \A e \in pend \ pend2 : e[2] = v
  OBVIOUS
<1>3. /\ OnPath(E, path2, pend2, ix, st)
      /\ path2 \in Seq(Nat) /\ Len(path2) = L - 1
      /\ \A k \in 1..Len(path2) : /\ k \in 1..L /\ k < L
                                  /\ path2[k] = path[k] /\ path[k] \in st /\ path[k] # v
                                  /\ ix[path[k]] < ix[v]
  <2>1. /\ st \in SUBSET st /\ \A u \in st : ix[u] < ix[v] => u \in st
        /\ Len(path) = 1 => st = {}
    BY <1>1
  <2>2. Shortened(E, path, pend2, ix, st, path2)
    BY <1>2, <2>1, ShorterPath
  <2> QED BY <2>2 DEF Shortened
<1>4. p \in st /\ L - 1 \in 1..L /\ p = path[L - 1] /\ <<p, v>> \in E /\ v \in From(E, p)
  <2>1. L - 1 \in 1..(L - 1) /\ L - 1 \in 1..L
    BY <1>1
  <2>2. p \in st /\ <<p, path[L - 1 + 1]>> \in E
    BY <2>1 DEF Sound, OnPath
  <2>3. <<p, v>> \in E
    BY <1>1, <2>2
  <2>4. v \in From(E, p)
    <3> DEFINE e == <<p, v>>
    <3>1. e \in E /\ e[1] = p /\ e[2] = v /\ e[1] \in Nat /\ e[2] \in Nat
      BY <1>1, <2>2, <2>3
    <3> HIDE DEF e
    <3>2. e[2] \in From(E, e[1])
      BY <3>1, FromEdge
    <3> QED BY <3>1, <3>2
  <2> QED BY <2>1, <2>2, <2>3, <2>4
<1>5. \A u \in st : lo2[u] \in Nat /\ lo2[u] <= lo[u]
  <2>1. lo2[p] \in Nat
    BY <1>1, <1>4
  <2>2. \A u \in st : u # p => lo2[u] = lo[u] /\ lo[u] \in Nat /\ lo[u] <= lo[u]
    BY SMTT(30), <1>1
  <2> QED BY <2>1, <2>2
<1>6. Numbering(ix, lo2, st, sc)
  <2>1. \A u \in DOMAIN ix : lo2[u] \in Nat
    BY <1>5 DEF Sound, Numbering
  <2> QED BY <2>1 DEF Sound, Numbering
<1>7. Lows(E, path2, pend2, ix, lo2, st)
  <2>1. ASSUME NEW u \in st
        PROVE  lo2[u] <= ix[u] /\ \E y \in st : ix[y] = lo2[u] /\ y \in From(E, u)
    <3>1. PICK y \in st : ix[y] = lo[u] /\ y \in From(E, u) /\ lo[u] <= ix[u]
      BY DEF Sound, Lows
    <3>2. lo2[u] <= ix[u]
      BY <1>1, <1>5, <3>1
    <3>3. CASE lo2[u] = lo[u]
      BY <3>1, <3>2, <3>3
    <3>4. CASE lo2[u] # lo[u]
      <4>1. u = p /\ lo2[p] = lo[v]
        BY SMTT(30), <1>1, <3>4
      <4>2. PICK z \in st : ix[z] = lo[v] /\ z \in From(E, v)
        BY DEF Sound, Lows
      <4>3. z \in From(E, p)
        BY <1>4, <4>2, FromFurther
      <4> QED BY <3>2, <4>1, <4>2, <4>3
    <3> QED BY <3>3, <3>4
  <2>2. ASSUME NEW u \in st, \A k \in 1..Len(path2) : path2[k] # u PROVE lo2[u] < ix[u]
    <3>1. lo[u] < ix[u]
      <4>1. CASE u = v
        BY <4>1
      <4>2. CASE u # v
        <5>1. \A k \in 1..L : k = L \/ k \in 1..(L - 1)
          BY <1>1
        <5>2. \A k \in 1..L : path[k] # u
          BY <1>1, <1>3, <2>2, <4>2, <5>1
        <5> QED BY <5>2 DEF Sound, Lows
      <4> QED BY <4>1, <4>2
    <3>2. lo2[u] \in Nat /\ lo2[u] <= lo[u] /\ lo[u] \in Nat /\ ix[u] \in Nat
      BY <1>1, <1>5
    <3> QED BY <3>1, <3>2
  <2>3. ASSUME NEW u \in st, NEW k \in 1..Len(path2), Above(path2, ix, st, k, u)
        PROVE  lo2[path2[k]] <= lo2[u]
    <3>1. k \in 1..L /\ k < L /\ path2[k] = path[k] /\ path[k] \in st /\ ix[path[k]] <= ix[u]
      BY <1>3, <2>3 DEF Above
    <3>2. CASE k = L - 1
      <4>1. path[k] = p
        BY <1>1, <3>2
      <4>0. ix[u] \in Nat /\ ix[v] \in Nat
        BY <1>1
      <4>2. CASE u = p
        <5>1. lo2[p] \in Nat
          BY <1>4, <1>5
        <5> QED BY <3>1, <4>1, <4>2, <5>1
      <4>3. CASE u # p /\ ix[u] < ix[v]
        <5>1. Above(path, ix, st, k, u)
          BY <1>1, <3>1, <3>2, <4>3 DEF Above
        <5>2. lo[p] <= lo[u]
          BY <3>1, <4>1, <5>1 DEF Sound, Lows
        <5>3. lo2[u] = lo[u] /\ lo[u] \in Nat /\ lo[p] \in Nat /\ lo2[p] \in Nat
          BY <1>1, <1>4, <1>5, <4>3
        <5> QED BY <3>1, <4>1, <5>2, <5>3
      <4>4. CASE u # p /\ ix[v] <= ix[u]
        <5>1. Above(path, ix, st, L, u) /\ L \in 1..L
          BY SMTT(30), <1>1, <4>4 DEF Above
        <5>2. lo[v] <= lo[u]
          BY <1>1, <5>1 DEF Sound, Lows
        <5>3. lo2[u] = lo[u] /\ lo[u] \in Nat /\ lo[v] \in Nat /\ lo2[p] \in Nat
          BY <1>1, <1>4, <1>5, <4>4
        <5> QED BY SMTT(30), <3>1, <4>1, <5>2, <5>3
      <4> QED BY <4>0, <4>2, <4>3, <4>4
    <3>3. CASE k < L - 1
      <4>1. k + 1 \in 1..Len(path2) /\ k < Len(path2) /\ path2[k + 1] = path[k + 1] /\ path[k + 1] \in st
        <5>1. k + 1 \in 1..(L - 1) /\ k < L - 1
          BY <1>1, <3>1, <3>3
        <5> QED BY <1>3, <5>1
      <4>2. ix[u] < ix[path[k + 1]]
        BY <2>3, <4>1 DEF Above
      <4>3. Above(path, ix, st, k, u)
        BY <3>1, <4>2 DEF Above
      <4>4. lo[path[k]] <= lo[u]
        BY <3>1, <4>3 DEF Sound, Lows
      <4>5. u # p
        <5>1. k + 1 = L - 1 \/ ix[path[k + 1]] < ix[path[L - 1]]
          <6>1. CASE k + 1 < L - 1
            BY <1>1, <1>3, <1>4, <3>3, <4>1, <6>1 DEF Sound, OnPath
          <6> QED BY <1>1, <3>1, <3>3, <6>1
        <5>2. k + 1 = L - 1 => path[k + 1] = p
          BY <1>1
        <5>3. ix[path[k + 1]] \in Nat /\ ix[u] \in Nat /\ ix[p] \in Nat /\ path[L - 1] = p
          BY <1>1, <1>4, <4>1
        <5> QED BY <4>2, <5>1, <5>2, <5>3
      <4>6. lo2[u] = lo[u] /\ lo2[path[k]] <= lo[path[k]] /\ lo2[path[k]] \in Nat
            /\ lo[path[k]] \in Nat /\ lo[u] \in Nat
        BY <1>1, <1>5, <3>1, <4>5
      <4> QED BY <3>1, <4>4, <4>6
    <3> QED BY <1>1, <3>1, <3>2, <3>3
  <2>4. ASSUME NEW u \in st, NEW k \in 1..Len(path2), ix[path2[k]] <= ix[u]
        PROVE  u \in From(E, path2[k])
    <3>1. k \in 1..L /\ path2[k] = path[k] /\ path[k] \in st
      BY <1>3
    <3> QED BY <2>4, <3>1 DEF Sound, Lows
  <2>5. ASSUME NEW e \in E \ pend2, e[1] \in DOMAIN ix
        PROVE  e[2] \in DOMAIN ix /\ (e[1] \in st /\ e[2] \in st => lo2[e[1]] <= ix[e[2]])
    <3>1. CASE e = <<p, v>>
      <4>1. e[1] = p /\ e[2] = v /\ lo[v] \in Nat /\ ix[v] \in Nat /\ lo2[p] \in Nat
        BY <1>1, <1>4, <1>5, <3>1
      <4> QED BY SMTT(30), <1>1, <4>1
    <3>2. CASE e \notin pend
      <4>1. e[2] \in DOMAIN ix /\ (e[1] \in st /\ e[2] \in st => lo[e[1]] <= ix[e[2]])
        BY <2>5, <3>2 DEF Sound, Lows
      <4>2. ASSUME e[1] \in st, e[2] \in st PROVE lo2[e[1]] <= ix[e[2]]
        <5>1. /\ lo2[e[1]] \in Nat /\ lo2[e[1]] <= lo[e[1]] /\ lo[e[1]] \in Nat
              /\ ix[e[2]] \in Nat /\ lo[e[1]] <= ix[e[2]]
          BY <1>1, <1>5, <4>1, <4>2
        <5> QED BY <5>1
      <4> QED BY <4>1, <4>2
    <3> QED BY <3>1, <3>2
  <2> QED BY <2>1, <2>2, <2>3, <2>4, <2>5 DEF Lows
<1> QED BY <1>3, <1>6, <1>7 DEF Sound

(* When nothing of what is above a node on the stack has a link below it,  *)
(* these nodes depend on each other, and on nothing else of the stack.     *)
Onwards(st, ix, v) == {u \in st : ix[v] <= ix[u]}
OneComponent(E, S, sc) ==
    /\ \A u, w \in S : w \in From(E, u)
    /\ \A e \in E : e[1] \in S => e[2] \in S \cup DOMAIN sc

LEMMA ComponentAbove ==
    ASSUME NEW E, NEW path, NEW pend, NEW ix, NEW lo, NEW st, NEW sc, NEW n,
           Sound(E, path, pend, ix, lo, st, sc, n),
           NEW v, path # <<>>, v = path[Len(path)], v \in st, lo[v] = ix[v],
           \A e \in pend : e[1] # v,
           NEW S, S = Onwards(st, ix, v)
    PROVE  OneComponent(E, S, sc)
<1> USE DEF Onwards
<1> DEFINE L == Len(path)
<1>1. /\ path \in Seq(Nat) /\ L \in Nat /\ L >= 1 /\ v = path[L] /\ v \in Nat
      /\ L \in 1..L
      /\ \A k \in 1..L : path[k] = v => k = L
      /\ \A u \in st : /\ u \in DOMAIN ix /\ u \in Nat /\ ix[u] \in Nat /\ lo[u] \in Nat
  BY PathNodes
<1>2. \A u \in S : lo[v] <= lo[u] /\ u \in From(E, v) /\ u \in st
  <2> SUFFICES ASSUME NEW u \in S PROVE lo[v] <= lo[u] /\ u \in From(E, v) /\ u \in st
    OBVIOUS
  <2>1. u \in st /\ ix[v] <= ix[u] /\ Above(path, ix, st, L, u)
    BY <1>1 DEF Above
  <2> QED BY <1>1, <2>1 DEF Sound, Lows
<1>3. ASSUME NEW u \in S, NEW k \in 1..L, path[k] = u PROVE u = v
  <2>1. u \in st /\ ix[v] <= ix[u]
    BY <1>3
  <2>2. k < L => ix[u] < ix[v]
    BY <1>1, <1>3, <2>1 DEF Sound, OnPath
  <2>3. k = L
    BY <1>1, <2>1, <2>2
  <2> QED BY <1>1, <1>3, <2>3
<1>4. \A u \in S : v \in From(E, u)
  <2> DEFINE Bad == {u \in S : v \notin From(E, u)}
             Places == {ix[u] : u \in Bad}
  <2>1. SUFFICES ASSUME Bad # {} PROVE FALSE
    OBVIOUS
  <2>2. Places \in SUBSET Nat /\ Places # {}
    BY <1>1, <2>1
  <2>3. PICK i \in Places : \A j \in Places : i <= j
    <3> HIDE DEF Places
    <3> QED BY <2>2, LeastNat
  <2>4. PICK u \in Bad : i = ix[u]
    BY <2>3
  <2>5. u \in st /\ u # v /\ ix[u] \in Nat
    BY <1>1, <1>2, <2>4, FromItself
  <2>6. lo[u] < ix[u]
    <3>1. \A k \in 1..L : path[k] # u
      BY <1>3, <2>4, <2>5
    <3> QED BY <2>5, <3>1 DEF Sound, Lows
  <2>7. PICK y \in st : ix[y] = lo[u] /\ y \in From(E, u)
    BY <2>5 DEF Sound, Lows
  <2>8. y \in S /\ ix[y] < ix[u] /\ ix[y] \in Nat
    BY <1>1, <1>2, <2>4, <2>6, <2>7
  <2>9. v \in From(E, y)
    <3>1. SUFFICES ASSUME v \notin From(E, y) PROVE FALSE
      OBVIOUS
    <3>2. y \in Bad
      BY <2>8, <3>1
    <3>3. ix[y] \in Places
      BY <3>2
    <3>4. i <= ix[y]
      BY <2>3, <3>3
    <3> QED BY <2>4, <2>5, <2>8, <3>4
  <2>10. v \in From(E, u)
    BY <2>7, <2>9, FromFurther
  <2> QED BY <2>4, <2>10
<1>5. \A u, w \in S : w \in From(E, u)
  BY <1>2, <1>4, FromFurther
<1>6. ASSUME NEW e \in E, e[1] \in S PROVE e[2] \in S \cup DOMAIN sc
  <2>1. e \notin pend
    <3>1. SUFFICES ASSUME e \in pend PROVE FALSE
      OBVIOUS
    <3>2. PICK k \in 1..L : path[k] = e[1]
      BY <3>1 DEF Sound, OnPath
    <3>3. e[1] = v
      BY <1>3, <1>6, <3>2
    <3> QED BY <3>1, <3>3
  <2>2. e[1] \in st /\ e[1] \in DOMAIN ix
    BY <1>1, <1>2, <1>6
  <2>3. e[2] \in DOMAIN ix /\ (e[2] \in st => lo[e[1]] <= ix[e[2]])
    BY <2>1, <2>2 DEF Sound, Lows
  <2>4. CASE e[2] \in st
    <3>1. lo[v] <= lo[e[1]] /\ lo[e[1]] <= ix[e[2]] /\ lo[v] = ix[v]
      BY <1>2, <1>6, <2>3, <2>4
    <3>2. ix[v] \in Nat /\ lo[e[1]] \in Nat /\ ix[e[2]] \in Nat
      BY <1>1, <2>2, <2>4
    <3>3. ix[v] <= ix[e[2]]
      BY <3>1, <3>2
    <3> QED BY <2>4, <3>3
  <2>5. CASE e[2] \notin st
    BY <2>3, <2>5 DEF Sound, Numbering
  <2> QED BY <2>4, <2>5
<1> QED BY <1>5, <1>6 DEF OneComponent

(* The traversal leaves the first node of a component: what is above it on *)
(* the stack gets the component's number.                                  *)
Closes(lo, st, sc, n, S, lo2, st2, sc2) ==
    /\ DOMAIN lo2 = DOMAIN lo /\ \A u \in DOMAIN lo : lo2[u] = lo[u]
    /\ DOMAIN sc2 = DOMAIN sc \cup S
    /\ \A u \in DOMAIN sc : sc2[u] = sc[u]
    /\ \A u \in S : sc2[u] = n
    /\ st2 = st \ S

LEMMA CloseSound ==
    ASSUME NEW E, NEW path, NEW pend, NEW ix, NEW lo, NEW st, NEW sc, NEW n,
           Sound(E, path, pend, ix, lo, st, sc, n),
           NEW v, path # <<>>, v = path[Len(path)], v \in st, lo[v] = ix[v],
           \A e \in pend : e[1] # v,
           NEW path2, path2 = But1(path),
           NEW pend2 \in SUBSET pend, \A e \in pend \ pend2 : e[2] = v,
           NEW S, S = Onwards(st, ix, v),
           NEW lo2, NEW st2, NEW sc2, Closes(lo, st, sc, n, S, lo2, st2, sc2)
    PROVE  Sound(E, path2, pend2, ix, lo2, st2, sc2, n + 1)
<1> USE DEF Closes
<1> DEFINE L == Len(path)
<1>1. /\ path \in Seq(Nat) /\ L \in Nat /\ L >= 1 /\ v = path[L] /\ v \in Nat
      /\ L \in 1..L
      /\ \A k \in 1..L : path[k] = v => k = L
      /\ \A u \in st : /\ u \in DOMAIN ix /\ u \in DOMAIN lo /\ u \in Nat
                       /\ ix[u] \in Nat /\ lo[u] \in Nat
  BY PathNodes
<1>2. /\ \A u, w \in S : w \in From(E, u)
      /\ \A e \in E : e[1] \in S => e[2] \in S \cup DOMAIN sc
  <2>1. OneComponent(E, S, sc)
    BY ComponentAbove
  <2> QED BY <2>1 DEF OneComponent
<1>s. S = {u \in st : ix[v] <= ix[u]}
  BY DEF Onwards
<1>3. st2 \in SUBSET st /\ \A u \in st : u \in st2 <=> ix[u] < ix[v]
  BY <1>1, <1>s
<1>4. L = 1 => st2 = {}
  <2> SUFFICES ASSUME L = 1, NEW u \in st, ix[u] < ix[v] PROVE FALSE
    BY <1>3
  <2>1. ix[path[1]] <= ix[u]
    BY DEF Sound, OnPath
  <2>2. path[1] = v
    BY <1>1
  <2>3. ix[u] \in Nat /\ ix[v] \in Nat
    BY <1>1
  <2> QED BY <2>1, <2>2, <2>3
<1>5. Shortened(E, path, pend2, ix, st2, path2)
  <2>1. /\ st2 \in SUBSET st /\ \A u \in st : ix[u] < ix[v] => u \in st2
        /\ Len(path) = 1 => st2 = {}
    BY <1>3, <1>4
  <2> QED BY <2>1, ShorterPath
<1>6. /\ OnPath(E, path2, pend2, ix, st2) /\ Len(path2) = L - 1
      /\ \A k \in 1..Len(path2) : /\ k \in 1..L /\ k < L /\ path2[k] = path[k]
                                  /\ path[k] \in st2 /\ path[k] # v /\ ix[path[k]] < ix[v]
  BY <1>5 DEF Shortened
<1>7. Numbering(ix, lo2, st2, sc2)
  <2>1. st2 = DOMAIN ix \ DOMAIN sc2 /\ DOMAIN sc2 \subseteq DOMAIN ix
    BY <1>1, <1>s DEF Sound, Numbering
  <2> QED BY <2>1 DEF Sound, Numbering
<1>8. Lows(E, path2, pend2, ix, lo2, st2)
  <2>0. \A u \in st2 : u \in st /\ lo2[u] = lo[u]
    BY <1>1, <1>3
  <2>1. ASSUME NEW u \in st2
        PROVE  lo2[u] <= ix[u] /\ \E y \in st2 : ix[y] = lo2[u] /\ y \in From(E, u)
    <3>1. PICK y \in st : ix[y] = lo[u] /\ y \in From(E, u) /\ lo[u] <= ix[u]
      BY <2>0 DEF Sound, Lows
    <3>2. ix[u] < ix[v] /\ ix[y] < ix[v]
      <4>1. ix[u] < ix[v]
        BY <1>3, <2>0
      <4>2. ix[u] \in Nat /\ ix[v] \in Nat /\ ix[y] \in Nat /\ ix[y] <= ix[u]
        BY <1>1, <2>0, <3>1
      <4> QED BY <4>1, <4>2
    <3> QED BY <1>3, <2>0, <3>1, <3>2
  <2>2. ASSUME NEW u \in st2, \A k \in 1..Len(path2) : path2[k] # u PROVE lo2[u] < ix[u]
    <3>1. u # v
      BY <1>1, <1>3
    <3>2. \A k \in 1..L : k = L \/ k \in 1..(L - 1)
      BY <1>1
    <3>3. \A k \in 1..L : path[k] # u
      BY <1>1, <1>6, <2>2, <3>1, <3>2
    <3>4. lo[u] < ix[u]
      BY <2>0, <3>3 DEF Sound, Lows
    <3> QED BY <2>0, <3>4
  <2>3. ASSUME NEW u \in st2, NEW k \in 1..Len(path2), Above(path2, ix, st2, k, u)
        PROVE  lo2[path2[k]] <= lo2[u]
    <3>1. /\ k \in 1..L /\ k < L /\ path2[k] = path[k] /\ path[k] \in st /\ ix[path[k]] <= ix[u]
          /\ lo2[path[k]] = lo[path[k]] /\ u \in st /\ lo2[u] = lo[u]
      BY <1>6, <2>0, <2>3 DEF Above
    <3>2. ix[u] < ix[path[k + 1]]
      <4>1. CASE k = L - 1
        <5>1. path[k + 1] = v
          BY <1>1, <4>1
        <5> QED BY <1>3, <3>1, <5>1
      <4>2. CASE k < L - 1
        <5>1. k + 1 \in 1..Len(path2) /\ k < Len(path2)
          BY <1>1, <1>6, <3>1, <4>2
        <5>2. path2[k + 1] = path[k + 1] /\ path[k + 1] \in st2
          BY <1>6, <5>1
        <5> QED BY <2>3, <5>1, <5>2 DEF Above
      <4> QED BY <1>1, <3>1, <4>1, <4>2
    <3>3. Above(path, ix, st, k, u)
      BY <3>1, <3>2 DEF Above
    <3> QED BY <3>1, <3>3 DEF Sound, Lows
  <2>4. ASSUME NEW u \in st2, NEW k \in 1..Len(path2), ix[path2[k]] <= ix[u]
        PROVE  u \in From(E, path2[k])
    <3>1. k \in 1..L /\ path2[k] = path[k] /\ path[k] \in st /\ u \in st
      BY <1>6, <2>0
    <3> QED BY <2>4, <3>1 DEF Sound, Lows
  <2>5. ASSUME NEW e \in E \ pend2, e[1] \in DOMAIN ix
        PROVE  e[2] \in DOMAIN ix /\ (e[1] \in st2 /\ e[2] \in st2 => lo2[e[1]] <= ix[e[2]])
    <3>1. CASE e \in pend
      <4>1. e[2] = v /\ v \notin st2 /\ v \in DOMAIN ix
        BY <1>1, <1>3, <3>1
      <4> QED BY <4>1
    <3>2. CASE e \notin pend
      <4>1. e[2] \in DOMAIN ix /\ (e[1] \in st /\ e[2] \in st => lo[e[1]] <= ix[e[2]])
        BY <2>5, <3>2 DEF Sound, Lows
      <4> QED BY <2>0, <4>1
    <3> QED BY <3>1, <3>2
  <2> QED BY <2>1, <2>2, <2>3, <2>4, <2>5 DEF Lows
<1>9. Numbers(E, sc2, n + 1)
  <2>1. /\ n \in Nat
        /\ \A u \in DOMAIN sc : sc[u] \in Nat /\ sc[u] < n
        /\ \A id \in 0..(n - 1) : \E u \in DOMAIN sc : sc[u] = id
        /\ \A e \in E : e[1] \in DOMAIN sc => e[2] \in DOMAIN sc /\ sc[e[2]] <= sc[e[1]]
        /\ \A u, w \in DOMAIN sc : sc[u] = sc[w] => w \in From(E, u)
    BY DEF Sound, Numbers
  <2>2. v \in S
    BY <1>1, <1>s
  <2>3. \A u \in DOMAIN sc2 : \/ u \in S /\ sc2[u] = n
                              \/ u \in DOMAIN sc /\ sc2[u] = sc[u] /\ sc2[u] < n /\ sc2[u] \in Nat
    BY <2>1
  <2>4. \A id \in 0..n : \E u \in DOMAIN sc2 : sc2[u] = id
    <3> SUFFICES ASSUME NEW id \in 0..n PROVE \E u \in DOMAIN sc2 : sc2[u] = id
      OBVIOUS
    <3>1. id = n \/ id \in 0..(n - 1)
      BY <2>1
    <3> QED BY <2>1, <2>2, <3>1
  <2>5. \A u \in DOMAIN sc2 : sc2[u] \in Nat /\ sc2[u] < n + 1
    BY <2>1, <2>3
  <2>6. \A e \in E : e[1] \in DOMAIN sc2 => e[2] \in DOMAIN sc2 /\ sc2[e[2]] <= sc2[e[1]]
    <3> SUFFICES ASSUME NEW e \in E, e[1] \in DOMAIN sc2
                 PROVE  e[2] \in DOMAIN sc2 /\ sc2[e[2]] <= sc2[e[1]]
      OBVIOUS
    <3>1. CASE e[1] \in S
      <4>1. e[2] \in DOMAIN sc2
        BY <1>2, <3>1
      <4>2. sc2[e[1]] = n
        BY <3>1
      <4> QED BY <2>1, <2>3, <4>1, <4>2
    <3>2. CASE e[1] \in DOMAIN sc
      BY <2>1, <3>2
    <3> QED BY <3>1, <3>2
  <2>7. \A u, w \in DOMAIN sc2 : sc2[u] = sc2[w] => w \in From(E, u)
    BY <1>2, <2>1, <2>3
  <2>8. PICK m : m = n + 1
    OBVIOUS
  <2>9. m \in Nat /\ 0..(m - 1) = 0..n
    BY <2>1, <2>8
  <2>10. Numbers(E, sc2, m)
    BY <2>4, <2>5, <2>6, <2>7, <2>8, <2>9 DEF Numbers
  <2> QED BY <2>8, <2>10
<1> QED BY <1>6, <1>7, <1>8, <1>9 DEF Sound

(* ---- The traversal of the model. ---- *)

(* The nodes it is in, and the edges it has not looked at or is down at.   *)
NodesOf(fr) == [k \in 1..Len(fr) |-> fr[k].node]
PendOf(E, fr) ==
    {e \in E : \E k \in 1..Len(fr) :
        fr[k].node = e[1] /\ (fr[k].dep < e[2] \/ (fr[k].dep = e[2] /\ k < Len(fr)))}

Held(stk) == {stk[i] : i \in DOMAIN stk}

(* A stack that holds st, in the order of the numbers.                     *)
Ordered(stk, ix, st) ==
    /\ stk \in Seq(Nat)
    /\ st = Held(stk)
    /\ \A i, j \in DOMAIN stk : i < j => ix[stk[i]] < ix[stk[j]]

(* A frame of the traversal.                                               *)
Frames == [node : Nat \ {None}, dep : Nat]

(* A frame's cursor is where the traversal went down; the last one is where*)
(* it is, None before the node is numbered.                                *)
Framed(fr, ix) ==
    /\ fr \in Seq(Frames)
    /\ \A k \in 1..(Len(fr) - 1) : fr[k].dep = fr[k + 1].node
    /\ fr # <<>> => (fr[Len(fr)].dep = None <=> fr[Len(fr)].node \notin DOMAIN ix)

(* Edges between different nodes.                                          *)
Loopless(E) == \A e \in E : e[1] \in Nat \ {None} /\ e[2] \in Nat \ {None} /\ e[1] # e[2]

(* The invariant of the traversal in the variables of the model.           *)
Doing(E, fr, ix, lo, stk, sc, n) ==
    /\ Loopless(E) /\ Framed(fr, ix)
    /\ ix \in [DOMAIN ix -> Nat]
    /\ Ordered(stk, ix, Held(stk))
    /\ Sound(E, NodesOf(fr), PendOf(E, fr), ix, lo, Held(stk), sc, n)

(* Nothing has been done yet. *)
LEMMA BeginDoing ==
    ASSUME NEW E, E \subseteq Nat \X Nat, Loopless(E)
    PROVE  Doing(E, <<>>, <<>>, <<>>, <<>>, <<>>, 0)
<1>1. NodesOf(<<>>) = <<>> /\ PendOf(E, <<>>) = {} /\ Held(<<>>) = {}
  BY DEF NodesOf, PendOf, Held
<1>2. IsFiniteSet({}) /\ DOMAIN <<>> = {}
  BY FS_EmptySet
<1>3. Numbering(<<>>, <<>>, {}, <<>>)
  BY <1>2 DEF Numbering
<1>4. OnPath(E, <<>>, {}, <<>>, {})
  BY <1>2 DEF OnPath
<1>5. Lows(E, <<>>, {}, <<>>, <<>>, {})
  BY <1>2 DEF Lows
<1>6. Numbers(E, <<>>, 0)
  BY <1>2 DEF Numbers
<1>7. Framed(<<>>, <<>>) /\ Ordered(<<>>, <<>>, {}) /\ <<>> \in [{} -> Nat]
  BY <1>1, <1>2 DEF Framed, Ordered
<1> QED BY <1>1, <1>2, <1>3, <1>4, <1>5, <1>6, <1>7 DEF Doing, Sound

(* A node not seen yet becomes a root. *)
LEMMA RootDoing ==
    ASSUME NEW E, NEW ix, NEW lo, NEW stk, NEW sc, NEW n,
           Doing(E, <<>>, ix, lo, stk, sc, n),
           NEW w \in Nat \ {None}, w \notin DOMAIN ix,
           NEW fr, fr = <<[node |-> w, dep |-> None]>>
    PROVE  Doing(E, fr, ix, lo, stk, sc, n)
<1> DEFINE st == Held(stk)
           pend == {e \in E : e[1] = w}
<1>0. /\ Sound(E, <<>>, {}, ix, lo, st, sc, n)
      /\ Loopless(E) /\ ix \in [DOMAIN ix -> Nat] /\ Ordered(stk, ix, st)
  <2>1. NodesOf(<<>>) = <<>> /\ PendOf(E, <<>>) = {}
    BY DEF NodesOf, PendOf
  <2> QED BY <2>1 DEF Doing
<1> HIDE DEF st
<1>1. /\ Len(fr) = 1 /\ fr[1] = [node |-> w, dep |-> None] /\ fr # <<>>
      /\ fr \in Seq(Frames)
  BY DEF None, Frames
<1>2. NodesOf(fr) = <<w>>
  <2>1. NodesOf(fr) = [k \in 1..1 |-> w]
    BY <1>1 DEF NodesOf
  <2> QED BY <2>1
<1>3. PendOf(E, fr) = pend
  <2>1. \A e \in E : e[2] \in Nat /\ None < e[2]
    BY <1>0 DEF Loopless, None
  <2>2. \A e \in E : e \in PendOf(E, fr) <=> fr[1].node = e[1] /\ fr[1].dep < e[2]
    BY <1>1, <2>1 DEF PendOf
  <2>3. fr[1].node = w /\ fr[1].dep = None
    BY <1>1
  <2>4. \A e \in E : e \in PendOf(E, fr) <=> e[1] = w
    BY <2>1, <2>2, <2>3
  <2> QED BY <2>4 DEF PendOf
<1>4. st = {}
  BY <1>0 DEF Sound, OnPath
<1>5. Framed(fr, ix)
  BY <1>1 DEF Framed
<1>6. OnPath(E, <<w>>, pend, ix, st)
  <2>1. <<w>> \in Seq(Nat) /\ Len(<<w>>) = 1 /\ \A k \in 1..1 : <<w>>[k] = w
    OBVIOUS
  <2> QED BY <1>4, <2>1 DEF OnPath
<1>7. Lows(E, <<w>>, pend, ix, lo, st)
  <2>1. \A e \in E : e[1] \in DOMAIN ix =>
          e[2] \in DOMAIN ix /\ (e[1] \in st /\ e[2] \in st => lo[e[1]] <= ix[e[2]])
    BY <1>0 DEF Sound, Lows
  <2> QED BY <1>4, <2>1 DEF Lows
<1>8. Sound(E, <<w>>, pend, ix, lo, st, sc, n)
  BY <1>0, <1>6, <1>7 DEF Sound
<1> QED BY <1>0, <1>2, <1>3, <1>5, <1>8 DEF Doing, st

LEMMA FrameNodes ==
    ASSUME NEW fr \in Seq(Frames)
    PROVE  /\ NodesOf(fr) \in Seq(Nat) /\ Len(NodesOf(fr)) = Len(fr) /\ Len(fr) \in Nat
           /\ \A k \in 1..Len(fr) : NodesOf(fr)[k] = fr[k].node /\ fr[k].node \in Nat \ {None}
                                    /\ fr[k].dep \in Nat
           /\ (fr # <<>> => NodesOf(fr) # <<>> /\ Len(fr) >= 1)
<1> DEFINE S == NodesOf(fr)
<1>0. \A g \in Frames : g.node \in Nat \ {None} /\ g.dep \in Nat
  BY DEF Frames
<1>1. Len(fr) \in Nat /\ \A k \in 1..Len(fr) : fr[k] \in Frames
  BY <1>0
<1>2. S \in [1..Len(fr) -> Nat]
  BY <1>0, <1>1 DEF NodesOf
<1> HIDE DEF S
<1>3. S \in Seq(Nat) /\ Len(S) = Len(fr)
  BY <1>1, <1>2, SeqDef
<1>4. fr # <<>> => Len(fr) >= 1 /\ S # <<>>
  <2>1. fr # <<>> => Len(fr) # 0
    BY <1>0
  <2> QED BY <1>1, <1>3, <2>1
<1>5. \A k \in 1..Len(fr) : S[k] = fr[k].node
  BY DEF S, NodesOf
<1> QED BY <1>0, <1>1, <1>3, <1>4, <1>5 DEF S

(* The node on top is numbered and stacked when it is new.                 *)
IndexAfter(ix, v) ==
    [u \in DOMAIN ix \cup {v} |-> IF u \in DOMAIN ix THEN ix[u] ELSE Cardinality(DOMAIN ix)]
StackAfter(fr, stk, v) == IF fr[Len(fr)].dep = None THEN Append(stk, v) ELSE stk
FirstLow(fr, ix, lo, v) ==
    IF fr[Len(fr)].dep = None THEN Cardinality(DOMAIN ix) ELSE lo[v]

(* Its low link is its number, and the invariant holds of it being entered. *)
Enters(fr, ix, lo, v, lo2) ==
    /\ DOMAIN lo2 = DOMAIN lo \cup {v} /\ lo2[v] = FirstLow(fr, ix, lo, v)
    /\ \A u \in DOMAIN lo : u # v => lo2[u] = lo[u]
Entered(E, fr, pend, v, ix2, lo2, stk2, sc, n) ==
    /\ Sound(E, NodesOf(fr), pend, ix2, lo2, Held(stk2), sc, n)
    /\ ix2 \in [DOMAIN ix2 -> Nat] /\ Ordered(stk2, ix2, Held(stk2)) /\ v \in Held(stk2)
    /\ NodesOf(fr) # <<>> /\ v = NodesOf(fr)[Len(NodesOf(fr))]

LEMMA EnterDoing ==
    ASSUME NEW E, NEW fr, NEW ix, NEW lo, NEW stk, NEW sc, NEW n,
           Doing(E, fr, ix, lo, stk, sc, n),
           fr # <<>>, NEW v, v = fr[Len(fr)].node,
           NEW lo2, Enters(fr, ix, lo, v, lo2)
    PROVE  /\ Entered(E, fr, PendOf(E, fr), v, IndexAfter(ix, v), lo2, StackAfter(fr, stk, v), sc, n)
           /\ \A u \in Held(StackAfter(fr, stk, v)) : u \in Held(stk) \/ u = v
           /\ Held(stk) \subseteq Held(StackAfter(fr, stk, v))
<1>i. PICK ix2, stk2, st2 :
        ix2 = IndexAfter(ix, v) /\ stk2 = StackAfter(fr, stk, v) /\ st2 = Held(stk2)
  OBVIOUS
<1>e. /\ DOMAIN lo2 = DOMAIN lo \cup {v} /\ lo2[v] = FirstLow(fr, ix, lo, v)
      /\ \A u \in DOMAIN lo : u # v => lo2[u] = lo[u]
  BY DEF Enters
<1>g. /\ Sound(E, NodesOf(fr), PendOf(E, fr), ix2, lo2, st2, sc, n)
      /\ ix2 \in [DOMAIN ix2 -> Nat] /\ Ordered(stk2, ix2, st2)
      /\ v \in st2 /\ st2 = Held(stk) \cup {v}
      /\ NodesOf(fr) # <<>> /\ v = NodesOf(fr)[Len(NodesOf(fr))]
  <2> USE <1>i, <1>e DEF IndexAfter, StackAfter, FirstLow
  <2> DEFINE st == Held(stk)
             N == Cardinality(DOMAIN ix)
  <2>1. /\ Sound(E, NodesOf(fr), PendOf(E, fr), ix, lo, st, sc, n)
        /\ ix \in [DOMAIN ix -> Nat] /\ Framed(fr, ix) /\ stk \in Seq(Nat)
        /\ \A i, j \in DOMAIN stk : i < j => ix[stk[i]] < ix[stk[j]]
    BY DEF Doing, Ordered
  <2>2. /\ NodesOf(fr) # <<>> /\ v = NodesOf(fr)[Len(NodesOf(fr))] /\ v \in Nat /\ Len(fr) \in 1..Len(fr)
        /\ fr[Len(fr)].dep = None <=> v \notin DOMAIN ix
    <3>1. fr \in Seq(Frames)
      BY <2>1 DEF Framed
    <3>2. Len(fr) \in 1..Len(fr) /\ NodesOf(fr) # <<>> /\ Len(NodesOf(fr)) = Len(fr)
      BY <3>1, FrameNodes
    <3>3. NodesOf(fr)[Len(fr)] = v /\ v \in Nat
      BY <3>1, <3>2, FrameNodes
    <3> QED BY <2>1, <3>2, <3>3 DEF Framed
  <2>3. \A u \in st : u \in DOMAIN ix /\ u \in DOMAIN lo /\ ix[u] \in Nat /\ ix[u] < N /\ lo[u] \in Nat
    BY <2>1 DEF Sound, Numbering
  <2>4. N \in Nat
    BY <2>1, FS_CardinalityType DEF Sound, Numbering
  <2>5. DOMAIN lo = DOMAIN ix
    BY <2>1 DEF Sound, Numbering
  <2> HIDE DEF st, N
  <2>6. CASE fr[Len(fr)].dep = None
    <3>1. v \notin DOMAIN ix /\ stk2 = Append(stk, v) /\ lo2[v] = N
      BY <2>2, <2>6 DEF N
    <3>2. /\ DOMAIN ix2 = DOMAIN ix \cup {v} /\ \A u \in DOMAIN ix : ix2[u] = ix[u] /\ lo2[u] = lo[u]
          /\ ix2[v] = N /\ DOMAIN lo2 = DOMAIN ix2
      BY <2>5, <3>1 DEF N
    <3>3. st2 = st \cup {v}
      <4>1. /\ DOMAIN stk2 = DOMAIN stk \cup {Len(stk) + 1} /\ stk2[Len(stk) + 1] = v
            /\ \A i \in DOMAIN stk : stk2[i] = stk[i]
        BY <2>1, <2>2, <3>1
      <4>2. \A u \in st2 : u \in st \cup {v}
        BY <4>1 DEF st, Held
      <4>3. \A u \in st \cup {v} : u \in st2
        BY <4>1 DEF st, Held
      <4> QED BY <4>2, <4>3
    <3>4. Sound(E, NodesOf(fr), PendOf(E, fr), ix2, lo2, st2, sc, n)
      <4>1. DOMAIN ix2 = DOMAIN ix \cup {v}
        BY <3>2
      <4>2. DOMAIN lo2 = DOMAIN ix2
        BY <3>2
      <4>3. \A u \in DOMAIN ix : ix2[u] = ix[u] /\ lo2[u] = lo[u]
        BY <3>2
      <4>4. ix2[v] = Cardinality(DOMAIN ix)
        BY <3>2 DEF N
      <4>5. lo2[v] = Cardinality(DOMAIN ix)
        BY <3>1 DEF N
      <4>6. v \notin DOMAIN ix
        BY <3>1
      <4>7. NodesOf(fr) # <<>>
        BY <2>2
      <4>8. v = NodesOf(fr)[Len(NodesOf(fr))]
        BY <2>2
      <4>9. Sound(E, NodesOf(fr), PendOf(E, fr), ix, lo, st, sc, n)
        BY <2>1
      <4> QED BY ONLY SMTT(30), <3>3, <4>1, <4>2, <4>3, <4>4, <4>5, <4>6, <4>7, <4>8, <4>9, EnterSound
    <3>5. ix2 \in [DOMAIN ix2 -> Nat]
      <4>1. \A u \in DOMAIN ix2 : ix2[u] \in Nat
        BY <2>1, <2>4, <3>2
      <4> QED BY <3>2, <4>1
    <3>6. Ordered(stk2, ix2, st2)
      <4>1. stk2 \in Seq(Nat)
        BY <2>1, <2>2, <3>1
      <4>2. ASSUME NEW i \in DOMAIN stk2, NEW j \in DOMAIN stk2, i < j
            PROVE  ix2[stk2[i]] < ix2[stk2[j]]
        <5>1. DOMAIN stk2 = 1..(Len(stk) + 1) /\ DOMAIN stk = 1..Len(stk) /\ Len(stk) \in Nat
          BY <2>1, <3>1
        <5>2. i \in DOMAIN stk /\ stk2[i] = stk[i] /\ stk[i] \in st
          BY <2>1, <3>1, <4>2, <5>1 DEF st, Held
        <5>3. CASE j \in DOMAIN stk
          <6>1. stk2[j] = stk[j] /\ stk[j] \in st
            BY <2>1, <3>1, <5>1, <5>3 DEF st, Held
          <6> QED BY <2>1, <2>3, <3>2, <4>2, <5>2, <5>3, <6>1
        <5>4. CASE j \notin DOMAIN stk
          <6>1. j = Len(stk) + 1
            BY <5>1, <5>4
          <6>2. stk2[j] = v
            BY <2>1, <2>2, <3>1, <6>1
          <6> QED BY <2>3, <3>2, <5>2, <6>2
        <5> QED BY <5>3, <5>4
      <4> QED BY <4>1, <4>2 DEF Ordered
    <3> QED BY <2>2, <3>3, <3>4, <3>5, <3>6 DEF st
  <2>7. CASE fr[Len(fr)].dep # None
    <3>1. v \in DOMAIN ix /\ stk2 = stk /\ st2 = st /\ lo2[v] = lo[v]
      BY <2>2, <2>7 DEF st
    <3>2. ix2 = ix
      BY <2>1, <3>1
    <3>3. \E k \in 1..Len(NodesOf(fr)) : NodesOf(fr)[k] = v /\ k = Len(NodesOf(fr))
      BY <2>1, <2>2, FrameNodes DEF Framed
    <3>4. v \in st
      BY <2>1, <3>1, <3>3 DEF Sound, OnPath
    <3>5. lo[v] \in Nat /\ lo2[v] <= lo[v]
      BY <2>3, <3>1, <3>4
    <3>6. DOMAIN lo2 = DOMAIN lo
      BY <2>5, <3>1
    <3>7. Sound(E, NodesOf(fr), PendOf(E, fr) \ {}, ix, lo2, st, sc, n)
      BY <2>1, <2>2, <3>1, <3>4, <3>5, <3>6, LookSound
    <3>8. PendOf(E, fr) \ {} = PendOf(E, fr)
      OBVIOUS
    <3>9. Ordered(stk2, ix2, st2)
      BY <2>1, <3>1, <3>2 DEF Ordered, st
    <3> QED BY <2>1, <2>2, <3>1, <3>2, <3>4, <3>7, <3>8, <3>9 DEF st
  <2> QED BY <2>6, <2>7
<1> QED BY <1>i, <1>g DEF Entered

(* A pass over the node on top: it may be new, and looks at some edges to  *)
(* nodes that are numbered.                                                *)
Looks(E, fr, ix, lo, stk, v, D, lo2) ==
    /\ D \in SUBSET E
    /\ \A e \in D : e[1] = v /\ fr[Len(fr)].dep < e[2] /\ e[2] \in DOMAIN IndexAfter(ix, v)
    /\ DOMAIN lo2 = DOMAIN lo \cup {v} /\ \A u \in DOMAIN lo : u # v => lo2[u] = lo[u]
    /\ lo2[v] <= FirstLow(fr, ix, lo, v)
    /\ \A e \in D : e[2] \in Held(stk) => lo2[v] <= IndexAfter(ix, v)[e[2]]
    /\ \/ lo2[v] = FirstLow(fr, ix, lo, v)
       \/ \E e \in D : e[2] \in Held(stk) /\ lo2[v] = IndexAfter(ix, v)[e[2]]

LEMMA PassDoing ==
    ASSUME NEW E, NEW fr, NEW ix, NEW lo, NEW stk, NEW sc, NEW n,
           Doing(E, fr, ix, lo, stk, sc, n),
           fr # <<>>, NEW v, v = fr[Len(fr)].node,
           NEW D, NEW lo2, Looks(E, fr, ix, lo, stk, v, D, lo2)
    PROVE  Entered(E, fr, PendOf(E, fr) \ D, v, IndexAfter(ix, v), lo2, StackAfter(fr, stk, v), sc, n)
<1> DEFINE first == FirstLow(fr, ix, lo, v)
           ix2 == IndexAfter(ix, v)
           stk2 == StackAfter(fr, stk, v)
           st == Held(stk)
           st2 == Held(stk2)
<1>1. PICK lo1 : lo1 = [u \in DOMAIN lo \cup {v} |-> IF u = v THEN first ELSE lo[u]]
  OBVIOUS
<1> HIDE DEF first
<1>2. /\ DOMAIN lo1 = DOMAIN lo \cup {v} /\ lo1[v] = first
      /\ \A u \in DOMAIN lo : u # v => lo1[u] = lo[u]
  BY <1>1
<1>3. /\ Entered(E, fr, PendOf(E, fr), v, ix2, lo1, stk2, sc, n)
      /\ \A u \in st2 : u \in st \/ u = v
      /\ st \subseteq st2
  <2>1. Enters(fr, ix, lo, v, lo1)
    BY <1>2 DEF Enters, first
  <2> QED BY <2>1, EnterDoing
<1> HIDE DEF ix2, stk2, st, st2
<1>l. /\ D \in SUBSET E
      /\ \A e \in D : e[1] = v /\ fr[Len(fr)].dep < e[2] /\ e[2] \in DOMAIN ix2
      /\ DOMAIN lo2 = DOMAIN lo \cup {v} /\ \A u \in DOMAIN lo : u # v => lo2[u] = lo[u]
      /\ lo2[v] <= first
      /\ \A e \in D : e[2] \in st => lo2[v] <= ix2[e[2]]
      /\ lo2[v] = first \/ \E e \in D : e[2] \in st /\ lo2[v] = ix2[e[2]]
  BY DEF Looks, first, ix2, st
<1>4. fr \in Seq(Frames) /\ Loopless(E) /\ Len(fr) \in 1..Len(fr) /\ NodesOf(fr)[Len(fr)] = fr[Len(fr)].node
  <2>1. fr \in Seq(Frames) /\ Loopless(E)
    BY DEF Doing, Framed
  <2>2. Len(fr) \in 1..Len(fr)
    BY <2>1, FrameNodes
  <2> QED BY <2>1, <2>2, FrameNodes
<1>5. D \subseteq PendOf(E, fr)
  BY <1>4, <1>l DEF PendOf
<1>6. \A e \in D : e[2] \in st2 => e[2] \in st
  BY <1>3, <1>4, <1>l DEF Loopless
<1>7. Sound(E, NodesOf(fr), PendOf(E, fr) \ D, ix2, lo2, st2, sc, n)
  <2>1. D \in SUBSET (E \cap PendOf(E, fr))
    BY <1>5
  <2>2. \A e \in D : e[1] = v /\ e[2] \in DOMAIN ix2
    BY <1>l
  <2>3. DOMAIN lo2 = DOMAIN lo1
    BY <1>2, <1>l
  <2>4. \A u \in DOMAIN lo1 : u # v => lo2[u] = lo1[u]
    BY <1>2, <1>l
  <2>5. lo2[v] <= lo1[v]
    BY <1>2, <1>l
  <2>6. \A e \in D : e[2] \in st2 => lo2[v] <= ix2[e[2]]
    BY <1>6, <1>l
  <2>7. lo2[v] = lo1[v] \/ \E e \in D : e[2] \in st2 /\ lo2[v] = ix2[e[2]]
    <3>1. st \subseteq st2
      BY <1>3
    <3> QED BY <1>2, <1>l, <3>1
  <2>8. Sound(E, NodesOf(fr), PendOf(E, fr), ix2, lo1, st2, sc, n)
    BY <1>3 DEF Entered, st2
  <2>9. v \in st2
    BY <1>3 DEF Entered, st2
  <2>10. NodesOf(fr) # <<>>
    BY <1>3 DEF Entered
  <2>11. v = NodesOf(fr)[Len(NodesOf(fr))]
    BY <1>3 DEF Entered
  <2> QED BY ONLY <2>1, <2>2, <2>3, <2>4, <2>5, <2>6, <2>7, <2>8, <2>9, <2>10, <2>11, LookSound
<1> QED BY <1>3, <1>7 DEF Entered, ix2, stk2, st2

(* What is left to look at one node deeper. *)
DownTo(fr, w, fr2) ==
    fr2 = Append([fr EXCEPT ![Len(fr)].dep = w], [node |-> w, dep |-> None])
LookedAt(E, fr, v, w, D) ==
    D \in SUBSET E /\ \A e \in E : e \in D <=> e[1] = v /\ fr[Len(fr)].dep < e[2] /\ e[2] < w

LEMMA DeeperPend ==
    ASSUME NEW E, Loopless(E), NEW fr, fr # <<>>, NEW ix, NEW ix2, Framed(fr, ix),
           NEW v, v = fr[Len(fr)].node, v \in DOMAIN ix2,
           \A k \in 1..Len(fr) : fr[k].node = v => k = Len(fr),
           NEW w \in Nat \ {None}, fr[Len(fr)].dep < w, w \notin DOMAIN ix2,
           NEW fr2, DownTo(fr, w, fr2), NEW D, LookedAt(E, fr, v, w, D)
    PROVE  /\ Framed(fr2, ix2)
           /\ Pushes(E, NodesOf(fr), PendOf(E, fr) \ D, w, NodesOf(fr2), PendOf(E, fr2))
<1> USE DEF DownTo, LookedAt
<1> DEFINE L == Len(fr)
           mid == [fr EXCEPT ![L].dep = w]
<1>1. /\ fr \in Seq(Frames) /\ L \in Nat /\ L >= 1 /\ L \in 1..L /\ v \in Nat \ {None}
      /\ \A k \in 1..L : fr[k] \in Frames /\ fr[k].node \in Nat \ {None} /\ fr[k].dep \in Nat
      /\ \A k \in 1..(L - 1) : fr[k].dep = fr[k + 1].node
  <2>1. fr \in Seq(Frames) /\ \A k \in 1..(L - 1) : fr[k].dep = fr[k + 1].node
    BY DEF Framed
  <2> QED BY <2>1, FrameNodes
<1>2. /\ mid \in Seq(Frames) /\ Len(mid) = L /\ mid[L].node = v /\ mid[L].dep = w
      /\ \A k \in 1..L : mid[k].node = fr[k].node /\ (k # L => mid[k] = fr[k])
  <2>1. [fr[L] EXCEPT !.dep = w] \in Frames /\ [fr[L] EXCEPT !.dep = w].node = v
        /\ [fr[L] EXCEPT !.dep = w].dep = w
    BY <1>1 DEF Frames
  <2>2. mid = [fr EXCEPT ![L] = [fr[L] EXCEPT !.dep = w]]
    OBVIOUS
  <2>3. mid \in Seq(Frames) /\ Len(mid) = L
    BY <1>1, <2>1, <2>2, ExceptSeq
  <2>4. \A k \in 1..L : mid[k] = IF k = L THEN [fr[L] EXCEPT !.dep = w] ELSE fr[k]
    BY <1>1, <2>2
  <2> QED BY <1>1, <2>1, <2>3, <2>4
<1>3. [node |-> w, dep |-> None] \in Frames
  BY DEF Frames, None
<1> HIDE DEF mid
<1>4. /\ fr2 \in Seq(Frames) /\ Len(fr2) = L + 1 /\ fr2[L + 1] = [node |-> w, dep |-> None]
      /\ \A k \in 1..L : fr2[k] = mid[k]
  <2>1. fr2 = Append(mid, [node |-> w, dep |-> None])
    BY DEF mid
  <2> QED BY ONLY <1>1, <1>2, <1>3, <2>1, AppendProperties
<1>5. \A k \in 1..(L + 1) : k \in 1..L \/ k = L + 1
  BY <1>1
<1> DEFINE P == NodesOf(fr)
           P2 == NodesOf(fr2)
<1>6. /\ P \in Seq(Nat) /\ Len(P) = L /\ \A k \in 1..L : P[k] = fr[k].node
      /\ P2 \in Seq(Nat) /\ Len(P2) = L + 1 /\ \A k \in 1..(L + 1) : P2[k] = fr2[k].node
  <2>1. fr \in Seq(Frames) /\ fr2 \in Seq(Frames) /\ Len(fr2) = L + 1
    BY <1>1, <1>4
  <2>2. P \in Seq(Nat) /\ Len(P) = Len(fr) /\ \A k \in 1..Len(fr) : P[k] = fr[k].node
    BY ONLY <2>1, FrameNodes
  <2>3. P2 \in Seq(Nat) /\ Len(P2) = Len(fr2) /\ \A k \in 1..Len(fr2) : P2[k] = fr2[k].node
    BY ONLY <2>1, FrameNodes
  <2> QED BY <2>1, <2>2, <2>3
<1> HIDE DEF P, P2
<1>7. P2 = Append(P, w)
  <2>1. \A k \in 1..(L + 1) : P2[k] = Append(P, w)[k]
    <3> SUFFICES ASSUME NEW k \in 1..(L + 1) PROVE P2[k] = Append(P, w)[k]
      OBVIOUS
    <3>0. /\ Append(P, w)[L + 1] = w /\ w \in Nat
          /\ \A i \in 1..L : Append(P, w)[i] = P[i]
      BY <1>6, AppendProperties
    <3>1. CASE k \in 1..L
      <4>1. P2[k] = fr[k].node
        BY <1>2, <1>4, <1>6, <3>1
      <4> QED BY <1>6, <3>0, <3>1, <4>1
    <3>2. CASE k = L + 1
      BY <1>4, <1>6, <3>0, <3>2
    <3> QED BY <1>5, <3>1, <3>2
  <2>2. Append(P, w) \in Seq(Nat) /\ Len(Append(P, w)) = L + 1
    BY <1>6
  <2> QED BY SMTT(30), <1>6, <2>1, <2>2, SeqEqual
<1>8. Framed(fr2, ix2)
  <2>1. ASSUME NEW k \in 1..(Len(fr2) - 1) PROVE fr2[k].dep = fr2[k + 1].node
    <3>1. k \in 1..L
      BY <1>1, <1>4
    <3>2. CASE k = L
      BY <1>2, <1>4, <3>1, <3>2
    <3>3. CASE k # L
      <4>1. k \in 1..(L - 1) /\ k + 1 \in 1..L
        BY <1>1, <3>1, <3>3
      <4> QED BY <1>1, <1>2, <1>4, <3>1, <3>3, <4>1
    <3> QED BY <3>2, <3>3
  <2>2. fr2 # <<>> /\ fr2[Len(fr2)].dep = None /\ fr2[Len(fr2)].node = w
    BY <1>1, <1>4
  <2> QED BY <1>4, <2>1, <2>2 DEF Framed
<1>9. ASSUME NEW e \in E
      PROVE  e \in PendOf(E, fr2) <=> (e \in PendOf(E, fr) /\ e \notin D) \/ e[1] = w
  <2>0. e[1] \in Nat \ {None} /\ e[2] \in Nat \ {None} /\ None < e[2]
    BY DEF Loopless, None
  <2>1. ASSUME e \in PendOf(E, fr2) PROVE (e \in PendOf(E, fr) /\ e \notin D) \/ e[1] = w
    <3>1. PICK k \in 1..(L + 1) : /\ fr2[k].node = e[1]
                                  /\ fr2[k].dep < e[2] \/ (fr2[k].dep = e[2] /\ k < L + 1)
      BY <1>4, <2>1 DEF PendOf
    <3>2. CASE k = L + 1
      BY <1>4, <3>1, <3>2
    <3>3. CASE k = L
      <4>1. e[1] = v /\ w <= e[2]
        BY <1>1, <1>2, <1>4, <2>0, <3>1, <3>3
      <4>2. fr[L].node = e[1] /\ fr[L].dep < e[2]
        BY SMTT(30), <1>1, <2>0, <4>1
      <4>3. e \in PendOf(E, fr)
        BY <1>1, <4>2 DEF PendOf
      <4>4. e \notin D
        BY <2>0, <4>1
      <4> QED BY <4>3, <4>4
    <3>4. CASE k # L + 1 /\ k # L
      <4>1. k \in 1..L /\ k < L
        BY <1>1, <3>4
      <4>2. fr2[k] = fr[k]
        BY <1>2, <1>4, <3>4, <4>1
      <4>3. e \in PendOf(E, fr)
        BY <3>1, <4>1, <4>2 DEF PendOf
      <4>4. e[1] # v
        BY <3>1, <3>4, <4>1, <4>2
      <4> QED BY <4>3, <4>4
    <3> QED BY <3>2, <3>3, <3>4
  <2>2. ASSUME e \in PendOf(E, fr), e \notin D PROVE e \in PendOf(E, fr2)
    <3>1. PICK k \in 1..L : /\ fr[k].node = e[1]
                            /\ fr[k].dep < e[2] \/ (fr[k].dep = e[2] /\ k < L)
      BY <2>2 DEF PendOf
    <3>2. k \in 1..Len(fr2) /\ fr2[k].node = e[1] /\ k < Len(fr2)
      BY <1>1, <1>2, <1>4, <3>1
    <3>3. CASE k = L
      <4>1. e[1] = v /\ fr[L].dep < e[2] /\ ~(e[2] < w)
        BY <1>1, <2>2, <3>1, <3>3
      <4>2. w < e[2] \/ w = e[2]
        BY <2>0, <4>1
      <4> QED BY SMTT(30), <1>2, <1>4, <3>2, <3>3, <4>2 DEF PendOf
    <3>4. CASE k # L
      <4>1. fr2[k] = fr[k]
        BY <1>2, <1>4, <3>4
      <4> QED BY <3>1, <3>2, <4>1 DEF PendOf
    <3> QED BY <3>3, <3>4
  <2>3. ASSUME e[1] = w PROVE e \in PendOf(E, fr2)
    <3>1. L + 1 \in 1..Len(fr2) /\ fr2[L + 1].node = e[1] /\ fr2[L + 1].dep < e[2]
      BY <1>1, <1>4, <2>0, <2>3
    <3> QED BY <3>1 DEF PendOf
  <2> QED BY <2>1, <2>2, <2>3
<1>10. PendOf(E, fr2) = (PendOf(E, fr) \ D) \cup {e \in E : e[1] = w}
  <2>1. PendOf(E, fr2) \subseteq E /\ PendOf(E, fr) \subseteq E
    BY DEF PendOf
  <2> QED BY ONLY <1>9, <2>1
<1> QED BY <1>7, <1>8, <1>10 DEF P, P2, Pushes

(* The traversal goes down to a node that is not numbered.                 *)
LEMMA DownDoing ==
    ASSUME NEW E, NEW fr, NEW ix, NEW lo, NEW stk, NEW sc, NEW n,
           Doing(E, fr, ix, lo, stk, sc, n),
           fr # <<>>, NEW v, v = fr[Len(fr)].node,
           NEW w, <<v, w>> \in E, fr[Len(fr)].dep < w, w \notin DOMAIN IndexAfter(ix, v),
           NEW D, NEW lo2, Looks(E, fr, ix, lo, stk, v, D, lo2), LookedAt(E, fr, v, w, D),
           NEW fr2, DownTo(fr, w, fr2)
    PROVE  Doing(E, fr2, IndexAfter(ix, v), lo2, StackAfter(fr, stk, v), sc, n)
<1> DEFINE ix2 == IndexAfter(ix, v)
           stk2 == StackAfter(fr, stk, v)
           P == NodesOf(fr)
<1>1. /\ Sound(E, P, PendOf(E, fr) \ D, ix2, lo2, Held(stk2), sc, n)
      /\ ix2 \in [DOMAIN ix2 -> Nat] /\ Ordered(stk2, ix2, Held(stk2)) /\ v \in Held(stk2)
      /\ P # <<>> /\ v = P[Len(P)]
  BY PassDoing DEF Entered
<1> HIDE DEF ix2, stk2
<1>2. /\ Loopless(E) /\ Framed(fr, ix) /\ fr \in Seq(Frames) /\ w \in Nat \ {None}
      /\ Len(fr) \in 1..Len(fr) /\ fr[Len(fr)].dep \in Nat
  <2>1. Loopless(E) /\ Framed(fr, ix) /\ fr \in Seq(Frames)
    BY DEF Doing, Framed
  <2>2. w \in Nat \ {None}
    BY <2>1 DEF Loopless
  <2> QED BY <2>1, <2>2, FrameNodes
<1>3. /\ \A k \in 1..Len(P) : P[k] = v => k = Len(P)
      /\ \A u \in Held(stk2) : u \in DOMAIN ix2
  BY <1>1, PathNodes
<1>4. /\ v \in DOMAIN ix2 /\ Len(P) = Len(fr)
      /\ \A k \in 1..Len(fr) : fr[k].node = v => k = Len(fr)
  <2>1. Len(P) = Len(fr) /\ \A k \in 1..Len(fr) : P[k] = fr[k].node
    BY <1>2, FrameNodes
  <2> QED BY <1>1, <1>3, <2>1
<1>7. w \notin DOMAIN ix2
  BY DEF ix2
<1>8. /\ Framed(fr2, ix2)
      /\ Pushes(E, P, PendOf(E, fr) \ D, w, NodesOf(fr2), PendOf(E, fr2))
  BY <1>2, <1>4, <1>7, DeeperPend
<1>9. Sound(E, NodesOf(fr2), PendOf(E, fr2), ix2, lo2, Held(stk2), sc, n)
  <2>1. <<v, w>> \in E /\ <<v, w>> \in PendOf(E, fr) \ D
    BY <1>2 DEF PendOf, LookedAt
  <2>2. w \in Nat
    BY <1>2
  <2> QED BY <1>1, <1>7, <1>8, <2>1, <2>2, PushSound
<1> QED BY <1>1, <1>2, <1>8, <1>9 DEF Doing, ix2, stk2

LEMMA ShorterSeq ==
    ASSUME NEW T, NEW s \in Seq(T), NEW m \in Nat, m < Len(s)
    PROVE  /\ SubSeq(s, 1, m) \in Seq(T) /\ Len(SubSeq(s, 1, m)) = m
           /\ \A k \in 1..m : SubSeq(s, 1, m)[k] = s[k] /\ k \in 1..Len(s)
<1>1. Len(s) \in Nat /\ \A i \in 1..m : s[i] \in T /\ i \in 1..Len(s)
  OBVIOUS
<1>2. /\ SubSeq(s, 1, m) \in Seq(T) /\ Len(SubSeq(s, 1, m)) = IF 1 <= m THEN m - 1 + 1 ELSE 0
      /\ \A k \in 1..(m - 1 + 1) : SubSeq(s, 1, m)[k] = s[1 + k - 1]
  BY <1>1, SubSeqProperties
<1>3. /\ (IF 1 <= m THEN m - 1 + 1 ELSE 0) = m /\ m - 1 + 1 = m
      /\ \A k \in 1..m : 1 + k - 1 = k
  OBVIOUS
<1> QED BY <1>1, <1>2, <1>3

LEMMA But1Seq ==
    ASSUME NEW s \in Seq(Nat), NEW n, n = Len(s), n \in Nat, n >= 1
    PROVE  But1(s) \in Seq(Nat) /\ Len(But1(s)) = n - 1 /\ \A k \in 1..(n - 1) : But1(s)[k] = s[k]
<1>1. n - 1 \in Nat /\ n - 1 < Len(s)
  OBVIOUS
<1>2. /\ SubSeq(s, 1, n - 1) \in Seq(Nat) /\ Len(SubSeq(s, 1, n - 1)) = n - 1
      /\ \A k \in 1..(n - 1) : SubSeq(s, 1, n - 1)[k] = s[k]
  BY <1>1, ShorterSeq
<1> QED BY <1>2 DEF But1

(* What is left to look at when the node on top is left.                   *)
UpFrom(fr, fr2) == fr2 = SubSeq(fr, 1, Len(fr) - 1)
AllLookedAt(E, fr, v, D) ==
    D \in SUBSET E /\ \A e \in E : e \in D <=> e[1] = v /\ fr[Len(fr)].dep < e[2]

Shallower(fr, v, fr2, pend, pend2) ==
    /\ NodesOf(fr2) = But1(NodesOf(fr))
    /\ \A e \in pend : e[1] # v
    /\ pend2 \subseteq pend
    /\ \A e \in pend : e \notin pend2 <=> /\ Len(fr) >= 2
                                          /\ e[1] = fr[Len(fr) - 1].node /\ e[2] = v

LEMMA ShallowerPend ==
    ASSUME NEW E, Loopless(E), NEW fr, fr # <<>>, NEW ix, NEW ix2, Framed(fr, ix),
           NEW v, v = fr[Len(fr)].node,
           \A j, k \in 1..Len(fr) : fr[j].node = fr[k].node => j = k,
           \A k \in 1..Len(fr) : fr[k].node \in DOMAIN ix2,
           NEW fr2, UpFrom(fr, fr2), NEW D, AllLookedAt(E, fr, v, D)
    PROVE  Framed(fr2, ix2) /\ Shallower(fr, v, fr2, PendOf(E, fr) \ D, PendOf(E, fr2))
<1> USE DEF UpFrom, AllLookedAt
<1> DEFINE L == Len(fr)
<1>1. /\ fr \in Seq(Frames) /\ L \in Nat /\ L >= 1 /\ L \in 1..L /\ v \in Nat \ {None}
      /\ \A k \in 1..L : fr[k] \in Frames /\ fr[k].node \in Nat \ {None} /\ fr[k].dep \in Nat
      /\ \A k \in 1..(L - 1) : fr[k].dep = fr[k + 1].node
  <2>1. fr \in Seq(Frames) /\ \A k \in 1..(L - 1) : fr[k].dep = fr[k + 1].node
    BY DEF Framed
  <2> QED BY <2>1, FrameNodes
<1>2. /\ fr2 \in Seq(Frames) /\ Len(fr2) = L - 1
      /\ \A k \in 1..(L - 1) : fr2[k] = fr[k] /\ k \in 1..L /\ k < L
  <2>1. L - 1 \in Nat /\ L - 1 < L /\ \A k \in 1..(L - 1) : k \in 1..L /\ k < L
    BY <1>1
  <2>2. fr2 = SubSeq(fr, 1, L - 1)
    OBVIOUS
  <2>3. fr2 \in Seq(Frames) /\ Len(fr2) = L - 1
        /\ \A k \in 1..(L - 1) : fr2[k] = fr[k] /\ k \in 1..L
    <3>1. fr \in Seq(Frames) /\ L = Len(fr)
      BY <1>1
    <3> HIDE DEF L
    <3> QED BY ONLY <2>1, <2>2, <3>1, ShorterSeq
  <2> QED BY <2>1, <2>3
<1> DEFINE P == NodesOf(fr)
           P2 == NodesOf(fr2)
<1>3. /\ P \in Seq(Nat) /\ Len(P) = L /\ \A k \in 1..L : P[k] = fr[k].node
      /\ P2 \in Seq(Nat) /\ Len(P2) = L - 1 /\ \A k \in 1..(L - 1) : P2[k] = fr2[k].node
  <2>1. P \in Seq(Nat) /\ Len(P) = L /\ \A k \in 1..L : P[k] = fr[k].node
    BY <1>1, FrameNodes
  <2>2. P2 \in Seq(Nat) /\ Len(P2) = L - 1 /\ \A k \in 1..(L - 1) : P2[k] = fr2[k].node
    <3>1. P2 \in Seq(Nat) /\ Len(P2) = Len(fr2) /\ \A k \in 1..Len(fr2) : P2[k] = fr2[k].node
      BY <1>2, FrameNodes
    <3> QED BY <1>2, <3>1
  <2> QED BY <2>1, <2>2
<1> HIDE DEF P, P2
<1>4. P2 = But1(P)
  <2>1. /\ But1(P) \in Seq(Nat) /\ Len(But1(P)) = L - 1
        /\ \A k \in 1..(L - 1) : But1(P)[k] = P[k]
    <3>1. P \in Seq(Nat) /\ L = Len(P) /\ L \in Nat /\ L >= 1
      BY <1>1, <1>3
    <3> HIDE DEF L
    <3> QED BY ONLY <3>1, But1Seq
  <2>2. \A k \in 1..(L - 1) : P2[k] = But1(P)[k]
    BY <1>2, <1>3, <2>1
  <2>3. P2 \in Seq(Nat) /\ Len(P2) = L - 1
    BY <1>3
  <2> HIDE DEF L
  <2> QED BY ONLY <2>1, <2>2, <2>3, SeqEqual
<1>5. Framed(fr2, ix2)
  <2>1. ASSUME NEW k \in 1..(Len(fr2) - 1) PROVE fr2[k].dep = fr2[k + 1].node
    <3>1. k \in 1..(L - 1) /\ k + 1 \in 1..(L - 1)
      BY <1>1, <1>2
    <3> QED BY <1>1, <1>2, <3>1
  <2>2. ASSUME fr2 # <<>> PROVE fr2[Len(fr2)].dep # None /\ fr2[Len(fr2)].node \in DOMAIN ix2
    <3>1. Len(fr2) \in 1..(L - 1) /\ Len(fr2) + 1 = L
      BY <1>1, <1>2, <2>2
    <3>2. fr2[Len(fr2)] = fr[Len(fr2)] /\ fr[Len(fr2)].dep = v
      BY <1>1, <1>2, <3>1
    <3> QED BY <1>1, <1>2, <3>1, <3>2
  <2> QED BY <1>2, <2>1, <2>2 DEF Framed
<1>6. ASSUME NEW e \in PendOf(E, fr) \ D
      PROVE  /\ e[1] # v
             /\ e \notin PendOf(E, fr2) <=> L >= 2 /\ e[1] = fr[L - 1].node /\ e[2] = v
  <2>0. e \in E /\ e[1] \in Nat \ {None} /\ e[2] \in Nat \ {None}
    BY DEF Loopless, PendOf
  <2>1. PICK k \in 1..L : /\ fr[k].node = e[1]
                          /\ fr[k].dep < e[2] \/ (fr[k].dep = e[2] /\ k < L)
    BY DEF PendOf
  <2>2. k # L
    BY <1>1, <2>0, <2>1
  <2>3. k \in 1..(L - 1) /\ L >= 2 /\ L - 1 \in 1..(L - 1) /\ L - 1 \in 1..L
    BY <1>1, <2>2
  <2>4. e[1] # v
    BY <1>1, <2>1, <2>2
  <2>5. fr2[k] = fr[k] /\ Len(fr2) = L - 1
    BY <1>2, <2>3
  <2>6. ASSUME e[1] = fr[L - 1].node, e[2] = v PROVE e \notin PendOf(E, fr2)
    <3>1. SUFFICES ASSUME NEW i \in 1..(L - 1), fr2[i].node = e[1],
                          fr2[i].dep < e[2] \/ (fr2[i].dep = e[2] /\ i < L - 1)
                   PROVE  FALSE
      BY <2>5 DEF PendOf
    <3>2. fr2[i] = fr[i] /\ i \in 1..L
      BY <1>2
    <3>3. i = L - 1
      BY <2>3, <2>6, <3>1, <3>2
    <3>4. L - 1 + 1 = L
      BY <1>1
    <3>5. fr[L - 1].dep = v
      BY <1>1, <2>3, <3>4
    <3> QED BY <1>1, <2>6, <3>1, <3>2, <3>3, <3>5
  <2>7. ASSUME ~(e[1] = fr[L - 1].node /\ e[2] = v) PROVE e \in PendOf(E, fr2)
    <3>1. CASE k < L - 1
      BY <2>0, <2>1, <2>3, <2>5, <3>1 DEF PendOf
    <3>2. CASE k = L - 1
      <4>1. L - 1 + 1 = L
        BY <1>1
      <4>2. fr[k].dep = v
        BY <1>1, <2>3, <3>2, <4>1
      <4>3. fr[k].dep < e[2]
        BY <2>1, <2>7, <3>2, <4>2
      <4> QED BY <2>0, <2>1, <2>3, <2>5, <4>3 DEF PendOf
    <3> QED BY <1>1, <2>3, <3>1, <3>2
  <2> QED BY <2>3, <2>4, <2>6, <2>7
<1>7. ASSUME NEW e \in PendOf(E, fr2) PROVE e \in PendOf(E, fr) \ D
  <2>1. PICK k \in 1..(L - 1) : /\ fr2[k].node = e[1]
                                /\ fr2[k].dep < e[2] \/ (fr2[k].dep = e[2] /\ k < L - 1)
    BY <1>2 DEF PendOf
  <2>2. fr2[k] = fr[k] /\ k \in 1..L /\ k < L
    BY <1>2
  <2>3. e \in E /\ e \in PendOf(E, fr)
    BY <2>1, <2>2 DEF PendOf
  <2>4. e[1] # v
    BY <1>1, <2>1, <2>2
  <2> QED BY <2>3, <2>4
<1> QED BY <1>4, <1>5, <1>6, <1>7 DEF P, P2, Shallower

(* What is cut off the stack is what was numbered since.                   *)
LEMMA CutStack ==
    ASSUME NEW stk, NEW ix, NEW st, Ordered(stk, ix, st), \A u \in st : ix[u] \in Nat,
           NEW at \in DOMAIN stk, NEW v, v = stk[at]
    PROVE  /\ Ordered(SubSeq(stk, 1, at - 1), ix, Held(SubSeq(stk, 1, at - 1)))
           /\ Held(SubSeq(stk, 1, at - 1)) = st \ Onwards(st, ix, v)
           /\ Onwards(st, ix, v) = {stk[i] : i \in at..Len(stk)}
<1> DEFINE L == Len(stk)
<1>1. /\ stk \in Seq(Nat) /\ L \in Nat /\ DOMAIN stk = 1..L /\ at \in 1..L
      /\ \A i \in 1..L : stk[i] \in st /\ ix[stk[i]] \in Nat
      /\ \A i, j \in 1..L : i < j => ix[stk[i]] < ix[stk[j]]
      /\ \A u \in st : \E i \in 1..L : stk[i] = u
  <2>1. stk \in Seq(Nat) /\ st = Held(stk)
    BY DEF Ordered
  <2>2. L \in Nat /\ DOMAIN stk = 1..L /\ at \in 1..L
    BY <2>1
  <2>3. \A i \in 1..L : stk[i] \in st
    BY <2>1, <2>2 DEF Held
  <2>4. \A u \in st : \E i \in 1..L : stk[i] = u
    BY <2>1, <2>2 DEF Held
  <2> QED BY <2>1, <2>2, <2>3, <2>4 DEF Ordered
<1>2. PICK stk2 : stk2 = SubSeq(stk, 1, at - 1)
  OBVIOUS
<1>3. /\ stk2 \in Seq(Nat) /\ Len(stk2) = at - 1 /\ DOMAIN stk2 = 1..(at - 1)
      /\ \A i \in 1..(at - 1) : stk2[i] = stk[i] /\ i \in 1..L /\ i < at
  <2>1. at - 1 \in Nat /\ at - 1 < L /\ \A i \in 1..(at - 1) : i < at
    BY <1>1
  <2>2. stk2 \in Seq(Nat) /\ Len(stk2) = at - 1
        /\ \A i \in 1..(at - 1) : stk2[i] = stk[i] /\ i \in 1..L
    BY <1>1, <1>2, <2>1, ShorterSeq
  <2> QED BY <2>1, <2>2
<1>4. \A i \in 1..L : i < at \/ i = at \/ at < i
  BY <1>1
<1>5. \A i \in 1..L : stk[i] \in Onwards(st, ix, v) <=> ~(i < at)
  <2> SUFFICES ASSUME NEW i \in 1..L PROVE ix[v] <= ix[stk[i]] <=> ~(i < at)
    BY <1>1 DEF Onwards
  <2> QED BY SMTT(30), <1>1, <1>4
<1>6. Ordered(stk2, ix, Held(stk2))
  BY <1>1, <1>3 DEF Ordered
<1>7. Held(stk2) = st \ Onwards(st, ix, v)
  <2>1. \A u \in Held(stk2) : u \in st \ Onwards(st, ix, v)
    BY <1>1, <1>3, <1>5 DEF Held
  <2>2. ASSUME NEW u \in st \ Onwards(st, ix, v) PROVE u \in Held(stk2)
    <3>1. PICK i \in 1..L : stk[i] = u
      BY <1>1
    <3>2. i \in 1..(at - 1)
      BY <1>1, <1>5, <3>1
    <3> QED BY <1>3, <3>1, <3>2 DEF Held
  <2> QED BY <2>1, <2>2
<1>8. Onwards(st, ix, v) = {stk[i] : i \in at..L}
  <2>1. \A i \in at..L : stk[i] \in Onwards(st, ix, v)
    BY <1>1, <1>5
  <2>2. ASSUME NEW u \in Onwards(st, ix, v) PROVE \E i \in at..L : stk[i] = u
    <3>1. PICK i \in 1..L : stk[i] = u
      BY <1>1 DEF Onwards
    <3>2. i \in at..L
      BY <1>1, <1>5, <3>1
    <3> QED BY <3>1, <3>2
  <2> QED BY <2>1, <2>2
<1> QED BY <1>2, <1>6, <1>7, <1>8

(* The traversal leaves the node on top, and closes a component if nothing *)
(* above it on the stack links below it.                                   *)
Parented(fr, v, lo, lo2) ==
    /\ DOMAIN lo2 = DOMAIN lo
    /\ Len(fr) = 1 => \A u \in DOMAIN lo : lo2[u] = lo[u]
    /\ Len(fr) >= 2 =>
         LET p == fr[Len(fr) - 1].node
         IN  /\ \A u \in DOMAIN lo : u # p => lo2[u] = lo[u]
             /\ lo2[p] <= lo[p] /\ lo2[p] <= lo[v] /\ (lo2[p] = lo[p] \/ lo2[p] = lo[v])
Finished(sc, S, n, sc2) ==
    /\ DOMAIN sc2 = DOMAIN sc \cup S
    /\ \A u \in DOMAIN sc : sc2[u] = sc[u]
    /\ \A u \in S : u \notin DOMAIN sc => sc2[u] = n

Left(E, v, fr2, ix2, lo2, lo3, stk2, sc, n) ==
    /\ lo2[v] # ix2[v] => Doing(E, fr2, ix2, lo3, stk2, sc, n)
    /\ \A at \in DOMAIN stk2 : \A sc2 :
         lo2[v] = ix2[v] /\ stk2[at] = v /\ Finished(sc, {stk2[i] : i \in at..Len(stk2)}, n, sc2)
           => Doing(E, fr2, ix2, lo3, SubSeq(stk2, 1, at - 1), sc2, n + 1)
    /\ v \in Held(stk2)

LEMMA UpDoing ==
    ASSUME NEW E, NEW fr, NEW ix, NEW lo, NEW stk, NEW sc, NEW n,
           Doing(E, fr, ix, lo, stk, sc, n),
           fr # <<>>, NEW v, v = fr[Len(fr)].node,
           NEW D, NEW lo2, Looks(E, fr, ix, lo, stk, v, D, lo2), AllLookedAt(E, fr, v, D),
           NEW fr2, UpFrom(fr, fr2), NEW lo3, Parented(fr, v, lo2, lo3),
           NEW stk2, stk2 = StackAfter(fr, stk, v), NEW ix2, ix2 = IndexAfter(ix, v)
    PROVE  Left(E, v, fr2, ix2, lo2, lo3, stk2, sc, n)
<1> DEFINE P == NodesOf(fr)
           P2 == NodesOf(fr2)
           st == Held(stk2)
           pend == PendOf(E, fr) \ D
           pend2 == PendOf(E, fr2)
<1>1. /\ Sound(E, P, pend, ix2, lo2, st, sc, n)
      /\ ix2 \in [DOMAIN ix2 -> Nat] /\ Ordered(stk2, ix2, st) /\ v \in st
      /\ P # <<>> /\ v = P[Len(P)]
  BY PassDoing DEF Entered
<1>2. /\ Loopless(E) /\ Framed(fr, ix) /\ fr \in Seq(Frames)
      /\ Len(fr) \in Nat /\ Len(fr) >= 1 /\ Len(P) = Len(fr)
      /\ \A k \in 1..Len(fr) : P[k] = fr[k].node
  <2>1. Loopless(E) /\ Framed(fr, ix) /\ fr \in Seq(Frames)
    BY DEF Doing, Framed
  <2> QED BY <2>1, FrameNodes
<1>3. /\ \A k \in 1..Len(P) : P[k] \in st
      /\ \A u \in st : u \in DOMAIN ix2 /\ u \in DOMAIN lo2 /\ ix2[u] \in Nat /\ lo2[u] \in Nat
  <2> HIDE DEF P, st, pend
  <2>1. /\ \A k \in 1..Len(P) : k < Len(P) => P[k] \in st
        /\ \A u \in st : u \in DOMAIN ix2 /\ u \in DOMAIN lo2 /\ ix2[u] \in Nat /\ lo2[u] \in Nat
    BY <1>1, PathNodes
  <2>2. Len(P) \in Nat
    BY <1>2
  <2> QED BY <1>1, <2>1, <2>2
<1>4. \A j, k \in 1..Len(fr) : j < k => ix2[fr[j].node] < ix2[fr[k].node]
  <2>1. \A j, k \in 1..Len(P) : j < k /\ P[k] \in st => ix2[P[j]] < ix2[P[k]]
    BY <1>1 DEF Sound, OnPath
  <2> QED BY <1>2, <1>3, <2>1
<1>5. \A j, k \in 1..Len(fr) : fr[j].node = fr[k].node => j = k
  <2> SUFFICES ASSUME NEW j \in 1..Len(fr), NEW k \in 1..Len(fr), fr[j].node = fr[k].node, j # k
               PROVE  FALSE
    OBVIOUS
  <2>1. j < k \/ k < j
    BY <1>2
  <2>2. fr[j].node \in st /\ ix2[fr[j].node] \in Nat
    BY <1>2, <1>3
  <2> QED BY <1>4, <2>1, <2>2
<1>6. \A k \in 1..Len(fr) : fr[k].node \in DOMAIN ix2
  BY <1>2, <1>3
<1>7. /\ Framed(fr2, ix2) /\ P2 = But1(P)
      /\ \A e \in pend : e[1] # v
      /\ pend2 \subseteq pend
      /\ \A e \in pend : e \notin pend2 <=> /\ Len(fr) >= 2
                                            /\ e[1] = fr[Len(fr) - 1].node /\ e[2] = v
  <2>1. Framed(fr2, ix2) /\ Shallower(fr, v, fr2, PendOf(E, fr) \ D, PendOf(E, fr2))
    <3>1. /\ Loopless(E) /\ Framed(fr, ix) /\ fr # <<>> /\ v = fr[Len(fr)].node
          /\ UpFrom(fr, fr2) /\ AllLookedAt(E, fr, v, D)
      BY <1>2
    <3> QED BY ONLY <1>5, <1>6, <3>1, ShallowerPend
  <2> QED BY <2>1 DEF Shallower
<1>8. lo2[v] <= ix2[v]
  BY <1>1 DEF Sound, Lows
<1> HIDE DEF P, P2, st, pend, pend2
<1>9. ASSUME lo2[v] # ix2[v] PROVE Doing(E, fr2, ix2, lo3, stk2, sc, n)
  <2>1. lo2[v] < ix2[v]
    BY <1>1, <1>3, <1>8, <1>9
  <2>2. Len(fr) >= 2
    BY <1>1, <1>2, <2>1, HasParent
  <2>3. PICK p : p = P[Len(P) - 1] /\ p = fr[Len(fr) - 1].node
    BY <1>2, <2>2
  <2>4. E \subseteq Nat \X Nat /\ pend \subseteq E
    BY <1>1 DEF Sound, pend, PendOf
  <2>5. pend2 = pend \ {<<p, v>>}
    <3>1. \A e \in pend : e = <<e[1], e[2]>>
      BY <2>4
    <3>2. \A e \in pend : e \in pend2 <=> e # <<p, v>>
      <4> SUFFICES ASSUME NEW e \in pend PROVE e \notin pend2 <=> e = <<p, v>>
        OBVIOUS
      <4>1. e = <<p, v>> <=> e[1] = p /\ e[2] = v
        BY <3>1
      <4> QED BY <1>7, <2>2, <2>3, <4>1
    <3> QED BY <1>7, <3>2
  <2>6. Leaves(P, pend, lo2, v, p, P2, pend2, lo3)
    <3>1. /\ DOMAIN lo3 = DOMAIN lo2 /\ \A u \in DOMAIN lo2 : u # p => lo3[u] = lo2[u]
          /\ lo3[p] <= lo2[p] /\ lo3[p] <= lo2[v] /\ (lo3[p] = lo2[p] \/ lo3[p] = lo2[v])
      BY <2>2, <2>3 DEF Parented
    <3> QED BY <1>7, <2>5, <3>1 DEF Leaves
  <2>7. p = P[Len(P) - 1]
    BY <2>3
  <2>8. Sound(E, P2, pend2, ix2, lo3, st, sc, n)
    BY <1>1, <1>7, <2>1, <2>6, <2>7, LeaveSound
  <2> QED BY <1>1, <1>2, <1>7, <2>8 DEF Doing, P2, pend2, st
<1>10. ASSUME NEW at \in DOMAIN stk2, NEW sc2,
              lo2[v] = ix2[v], stk2[at] = v, Finished(sc, {stk2[i] : i \in at..Len(stk2)}, n, sc2)
       PROVE  Doing(E, fr2, ix2, lo3, SubSeq(stk2, 1, at - 1), sc2, n + 1)
  <2>1. PICK stk3, st3, S : /\ stk3 = SubSeq(stk2, 1, at - 1) /\ st3 = Held(stk3)
                            /\ S = Onwards(st, ix2, v)
    OBVIOUS
  <2>2. /\ Ordered(stk3, ix2, st3) /\ st3 = st \ S
        /\ S = {stk2[i] : i \in at..Len(stk2)}
    <3>1. Ordered(stk2, ix2, st)
      BY <1>1
    <3>2. \A u \in st : ix2[u] \in Nat
      BY <1>3
    <3>3. v = stk2[at]
      BY <1>10
    <3>4. at \in DOMAIN stk2
      OBVIOUS
    <3>5. /\ Ordered(SubSeq(stk2, 1, at - 1), ix2, Held(SubSeq(stk2, 1, at - 1)))
          /\ Held(SubSeq(stk2, 1, at - 1)) = st \ Onwards(st, ix2, v)
          /\ Onwards(st, ix2, v) = {stk2[i] : i \in at..Len(stk2)}
      BY ONLY <3>1, <3>2, <3>3, <3>4, CutStack
    <3> QED BY ONLY <2>1, <3>5
  <2>3. \A u \in DOMAIN lo2 : lo3[u] = lo2[u]
    <3>1. CASE Len(fr) = 1
      BY <3>1 DEF Parented
    <3>2. CASE Len(fr) >= 2
      <4>1. PICK p : p = fr[Len(fr) - 1].node
        OBVIOUS
      <4>2. p \in st /\ ix2[p] < ix2[v]
        <5>1. Len(fr) - 1 \in 1..Len(fr) /\ Len(fr) \in 1..Len(fr) /\ Len(fr) - 1 < Len(fr)
          BY <1>2, <3>2
        <5> QED BY <1>2, <1>3, <1>4, <4>1, <5>1
      <4>3. lo2[p] <= ix2[p]
        BY <1>1, <4>2 DEF Sound, Lows
      <4>4. /\ \A u \in DOMAIN lo2 : u # p => lo3[u] = lo2[u]
            /\ lo3[p] <= lo2[p] /\ (lo3[p] = lo2[p] \/ lo3[p] = lo2[v])
        BY <3>2, <4>1 DEF Parented
      <4>5. lo3[p] = lo2[p]
        <5>1. lo2[p] \in Nat /\ ix2[p] \in Nat /\ ix2[v] \in Nat
          BY <1>1, <1>3, <4>2
        <5> QED BY <1>10, <4>2, <4>3, <4>4, <5>1
      <4> QED BY <4>4, <4>5
    <3> QED BY <1>2, <3>1, <3>2
  <2>4. S \subseteq st /\ st \cap DOMAIN sc = {}
    BY <1>1, <2>1 DEF Onwards, Sound, Numbering
  <2>5. Closes(lo2, st, sc, n, S, lo3, st3, sc2)
    <3>1. Finished(sc, S, n, sc2)
      BY <1>10, <2>2
    <3>2. DOMAIN lo3 = DOMAIN lo2
      BY DEF Parented
    <3> QED BY <2>2, <2>3, <2>4, <3>1, <3>2 DEF Closes, Finished
  <2>6. pend2 \in SUBSET pend /\ \A e \in pend \ pend2 : e[2] = v
    BY <1>7
  <2>7. Sound(E, P2, pend2, ix2, lo3, st3, sc2, n + 1)
    BY <1>1, <1>7, <1>10, <2>1, <2>5, <2>6, CloseSound
  <2> QED BY <1>1, <1>2, <1>7, <2>1, <2>2, <2>7 DEF Doing, P2, pend2
<1> QED BY <1>1, <1>9, <1>10 DEF st, Left

(* ---- What the model's steps do. ---- *)

LEMMA LeastOf ==
    ASSUME NEW S \in SUBSET Nat, S # {}
    PROVE  Graph!Least(S) \in S /\ \A y \in S : Graph!Least(S) <= y
BY LeastNat DEF Graph!Least

LEMMA SameCardinality == \A S : Graph!Cardinality(S) = Cardinality(S)
BY DEF Graph!Cardinality, Cardinality

(* The invariant of Propagation: its nodes are modules of the workspace.   *)
Walking ==
    /\ DOMAIN ws \subseteq Nat \ {None} /\ IsFiniteSet(DOMAIN ws)
    /\ edges \subseteq (DOMAIN ws) \X (DOMAIN ws)
    /\ DOMAIN index \subseteq DOMAIN ws
    /\ \A k \in 1..Len(frames) : frames[k].node \in DOMAIN ws
    /\ Doing(edges, frames, index, low, stack, sccOf, nextSCC)

LEMMA StartWalks == Walking /\ Graph!Start => Walking'
<1> SUFFICES ASSUME Walking, Graph!Start PROVE Walking'
  OBVIOUS
<1>1. PICK w : w = Graph!Least(DOMAIN ws \ DOMAIN index)
  OBVIOUS
<1>2. /\ frames = <<>> /\ frames' = <<[node |-> w, dep |-> None]>>
      /\ UNCHANGED <<ws, edges, index, low, stack, sccOf, nextSCC>>
      /\ w \in DOMAIN ws \ DOMAIN index
  <2>1. DOMAIN ws \ DOMAIN index # {} /\ DOMAIN ws \ DOMAIN index \in SUBSET Nat
    BY DEF Graph!Start, Walking, Graph!Nodes
  <2>2. w \in DOMAIN ws \ DOMAIN index
    BY <1>1, <2>1, LeastOf
  <2>3. /\ frames = <<>> /\ frames' = <<[node |-> Graph!Least(DOMAIN ws \ DOMAIN index), dep |-> None]>>
        /\ UNCHANGED <<ws, edges, index, low, stack, sccOf, nextSCC>>
    BY DEF Graph!Start, Graph!Nodes, Graph!None, None
  <2> QED BY <1>1, <2>2, <2>3
<1>3. Doing(edges, frames', index, low, stack, sccOf, nextSCC)
  <2>1. Doing(edges, <<>>, index, low, stack, sccOf, nextSCC) /\ w \in Nat \ {None}
    BY <1>2 DEF Walking
  <2> QED BY <1>2, <2>1, RootDoing
<1>4. \A k \in 1..Len(frames') : (frames')[k].node \in DOMAIN ws
  BY <1>2
<1> QED BY <1>2, <1>3, <1>4 DEF Walking

(* The low link of the model, as a pass of the traversal leaves it.        *)
LEMMA LowAfterLooks ==
    ASSUME Walking, frames # <<>>, NEW v, v = Graph!Top.node,
           NEW X \in SUBSET Graph!Ahead, X \subseteq DOMAIN Graph!Indexes,
           NEW D, D = {e \in edges : e[1] = v /\ e[2] \in X},
           NEW lo2, lo2 = [u \in DOMAIN low \cup {v} |-> IF u = v THEN Graph!LowAfter(X) ELSE low[u]]
    PROVE  /\ Looks(edges, frames, index, low, stack, v, D, lo2)
           /\ Graph!Indexes = IndexAfter(index, v) /\ Graph!Stacked = StackAfter(frames, stack, v)
           /\ v = frames[Len(frames)].node
<1>1. v = frames[Len(frames)].node
  BY DEF Graph!Top
<1>2. Graph!Indexes = IndexAfter(index, frames[Len(frames)].node)
  BY SameCardinality DEF Graph!Indexes, Graph!Top, Graph!Numbered, IndexAfter
<1>3. Graph!Stacked = StackAfter(frames, stack, frames[Len(frames)].node)
  BY DEF Graph!Stacked, Graph!Top, Graph!Entering, StackAfter, Graph!None, None
<1>4. Graph!LowAfter(X) =
        Graph!Least({FirstLow(frames, index, low, v)} \cup {Graph!Indexes[w] : w \in {x \in X : x \in Held(stack)}})
  BY <1>1, SameCardinality DEF Graph!LowAfter, FirstLow, Graph!Top, Graph!Entering, Graph!None, None, Graph!Numbered,
         Graph!OnStack, Held
<1>5. PICK back, first : /\ first = FirstLow(frames, index, low, v)
                         /\ back = {Graph!Indexes[w] : w \in {x \in X : x \in Held(stack)}}
  OBVIOUS
<1>6. /\ Framed(frames, index) /\ frames \in Seq(Frames) /\ v \in Nat \ {None}
      /\ frames[Len(frames)].dep \in Nat /\ Loopless(edges)
      /\ index \in [DOMAIN index -> Nat] /\ IsFiniteSet(DOMAIN index) /\ DOMAIN low = DOMAIN index
      /\ \A u \in DOMAIN index : low[u] \in Nat
      /\ Cardinality(DOMAIN index) \in Nat
  <2>1. /\ Framed(frames, index) /\ frames \in Seq(Frames) /\ Loopless(edges)
        /\ index \in [DOMAIN index -> Nat] /\ IsFiniteSet(DOMAIN index) /\ DOMAIN low = DOMAIN index
        /\ \A u \in DOMAIN index : low[u] \in Nat
    BY DEF Walking, Doing, Framed, Sound, Numbering
  <2>2. Cardinality(DOMAIN index) \in Nat
    BY <2>1, FS_CardinalityType
  <2>3. Len(frames) \in 1..Len(frames)
    BY <2>1, FrameNodes
  <2> QED BY <1>1, <2>1, <2>2, <2>3, FrameNodes
<1>7. first \in Nat
  BY <1>1, <1>5, <1>6 DEF Framed, FirstLow
<1>8. DOMAIN Graph!Indexes = DOMAIN index \cup {v} /\ \A u \in DOMAIN Graph!Indexes : Graph!Indexes[u] \in Nat
  BY <1>1, <1>2, <1>6 DEF IndexAfter
<1>9. {first} \cup back \in SUBSET Nat
  BY <1>5, <1>7, <1>8
<1>10. PICK low1 : low1 = Graph!LowAfter(X)
  OBVIOUS
<1>11. low1 \in {first} \cup back /\ \A y \in {first} \cup back : low1 <= y
  <2>1. low1 = Graph!Least({first} \cup back)
    BY <1>4, <1>5, <1>10
  <2> QED BY <1>9, <2>1, LeastOf
<1>12. \A w \in X : w \in DOMAIN ws /\ <<v, w>> \in edges /\ frames[Len(frames)].dep < w
  <2> SUFFICES ASSUME NEW w \in X
               PROVE  w \in DOMAIN ws /\ <<v, w>> \in edges /\ frames[Len(frames)].dep < w
    OBVIOUS
  <2>1. w \in Graph!Ahead
    OBVIOUS
  <2>2. w \in DOMAIN ws /\ <<v, w>> \in edges /\ w > frames[Len(frames)].dep
    BY <1>1, <2>1 DEF Graph!Ahead, Graph!Top, Graph!Nodes
  <2>3. w \in Nat
    BY <2>2 DEF Walking
  <2> QED BY <1>6, <2>2, <2>3
<1>13. Looks(edges, frames, index, low, stack, v, D, lo2)
  <2> DEFINE ix2 == IndexAfter(index, v)
  <2>1. ix2 = Graph!Indexes
    BY <1>1, <1>2
  <2> HIDE DEF ix2
  <2>2. DOMAIN lo2 = DOMAIN low \cup {v} /\ \A u \in DOMAIN low : u # v => lo2[u] = low[u]
    OBVIOUS
  <2>3. lo2[v] = low1
    BY <1>10
  <2>4. D \in SUBSET edges
        /\ \A e \in D : e[1] = v /\ frames[Len(frames)].dep < e[2] /\ e[2] \in DOMAIN ix2
    BY <1>12, <2>1
  <2>5. low1 <= first /\ \A e \in D : e[2] \in Held(stack) => low1 <= ix2[e[2]]
    <3>1. low1 <= first
      BY <1>11
    <3>2. ASSUME NEW e \in D, e[2] \in Held(stack) PROVE low1 <= ix2[e[2]]
      <4>1. e[2] \in X
        OBVIOUS
      <4>2. Graph!Indexes[e[2]] \in back
        BY <1>5, <3>2, <4>1
      <4> QED BY <1>11, <2>1, <4>2
    <3> QED BY <3>1, <3>2
  <2>6. low1 = first \/ \E e \in D : e[2] \in Held(stack) /\ low1 = ix2[e[2]]
    <3> SUFFICES ASSUME low1 # first PROVE \E e \in D : e[2] \in Held(stack) /\ low1 = ix2[e[2]]
      OBVIOUS
    <3>1. low1 \in back
      BY <1>11
    <3>2. PICK w \in X : w \in Held(stack) /\ low1 = Graph!Indexes[w]
      BY <1>5, <3>1
    <3>3. PICK e \in edges : e[1] = v /\ e[2] = w
      <4>1. <<v, w>> \in edges /\ <<v, w>>[1] = v /\ <<v, w>>[2] = w
        BY <1>12
      <4> QED BY <4>1
    <3>4. e \in D
      BY <3>2, <3>3
    <3> QED BY <2>1, <3>2, <3>3, <3>4
  <2> QED BY <1>5, <2>2, <2>3, <2>4, <2>5, <2>6 DEF Looks, ix2
<1> QED BY <1>1, <1>2, <1>3, <1>13

LEMMA AheadNodes ==
    ASSUME Walking, frames # <<>>, NEW v, v = Graph!Top.node
    PROVE  /\ v = frames[Len(frames)].node /\ v \in DOMAIN ws /\ v \in Nat \ {None}
           /\ frames[Len(frames)].dep \in Nat
           /\ Graph!Ahead \in SUBSET Nat
           /\ \A w : w \in Graph!Ahead <=> <<v, w>> \in edges /\ frames[Len(frames)].dep < w
           /\ \A e \in edges : e = <<e[1], e[2]>> /\ e[1] \in DOMAIN ws /\ e[2] \in DOMAIN ws
                               /\ e[1] \in Nat \ {None} /\ e[2] \in Nat \ {None}
<1>1. v = frames[Len(frames)].node
  BY DEF Graph!Top
<1>2. frames \in Seq(Frames)
  BY DEF Walking, Doing, Framed
<1>3. Len(frames) \in 1..Len(frames) /\ frames[Len(frames)].dep \in Nat
  BY <1>2, FrameNodes
<1>4. v \in DOMAIN ws /\ v \in Nat \ {None}
  BY <1>1, <1>3 DEF Walking
<1>5. \A e \in edges : e = <<e[1], e[2]>> /\ e[1] \in DOMAIN ws /\ e[2] \in DOMAIN ws
                       /\ e[1] \in Nat \ {None} /\ e[2] \in Nat \ {None}
  <2> SUFFICES ASSUME NEW e \in edges
               PROVE  e = <<e[1], e[2]>> /\ e[1] \in DOMAIN ws /\ e[2] \in DOMAIN ws
                      /\ e[1] \in Nat \ {None} /\ e[2] \in Nat \ {None}
    OBVIOUS
  <2>1. e \in (DOMAIN ws) \X (DOMAIN ws) /\ DOMAIN ws \subseteq Nat \ {None}
    BY DEF Walking
  <2> QED BY <2>1
<1>6. \A w : w \in Graph!Ahead <=> w \in DOMAIN ws /\ <<v, w>> \in edges /\ w > frames[Len(frames)].dep
  BY <1>1 DEF Graph!Ahead, Graph!Nodes, Graph!Top
<1>7. \A w : <<v, w>> \in edges => w \in DOMAIN ws /\ w \in Nat
  <2> SUFFICES ASSUME NEW w, <<v, w>> \in edges PROVE w \in DOMAIN ws /\ w \in Nat
    OBVIOUS
  <2>1. <<v, w>>[2] \in DOMAIN ws /\ <<v, w>>[2] \in Nat \ {None}
    BY ONLY <<v, w>> \in edges, <1>5
  <2> QED BY <2>1
<1>8. \A w \in Nat : w > frames[Len(frames)].dep <=> frames[Len(frames)].dep < w
  BY <1>3
<1>9. \A w : w \in Graph!Ahead <=> <<v, w>> \in edges /\ frames[Len(frames)].dep < w
  BY <1>6, <1>7, <1>8
<1>10. Graph!Ahead \in SUBSET Nat
  BY <1>6, <1>7
<1> QED BY <1>1, <1>3, <1>4, <1>5, <1>9, <1>10

LEMMA DescendWalks == Walking /\ Graph!Descend => Walking'
<1> SUFFICES ASSUME Walking, Graph!Descend PROVE Walking'
  OBVIOUS
<1>1. PICK v, w, X, D, lo2 :
        /\ v = Graph!Top.node /\ w = Graph!Least(Graph!Unseen) /\ X = {x \in Graph!Ahead : x < w}
        /\ D = {e \in edges : e[1] = v /\ e[2] \in X}
        /\ lo2 = [u \in DOMAIN low \cup {v} |-> IF u = v THEN Graph!LowAfter(X) ELSE low[u]]
  OBVIOUS
<1>2. /\ frames # <<>> /\ Graph!Unseen # {}
      /\ frames' = Append([frames EXCEPT ![Len(frames)].dep = w], [node |-> w, dep |-> None])
      /\ low' = lo2 /\ index' = Graph!Indexes /\ stack' = Graph!Stacked
      /\ UNCHANGED <<ws, edges, sccOf, nextSCC>>
  BY <1>1 DEF Graph!Descend, Graph!None, None
<1>3. /\ v = frames[Len(frames)].node /\ v \in DOMAIN ws
      /\ Graph!Ahead \in SUBSET Nat
      /\ \A x : x \in Graph!Ahead <=> <<v, x>> \in edges /\ frames[Len(frames)].dep < x
      /\ \A e \in edges : e = <<e[1], e[2]>> /\ e[2] \in DOMAIN ws /\ e[2] \in Nat \ {None}
  BY <1>1, <1>2, AheadNodes
<1>4. /\ w \in Graph!Ahead /\ w \notin DOMAIN Graph!Indexes
      /\ \A x \in Graph!Ahead : x \notin DOMAIN Graph!Indexes => w <= x
  <2>1. Graph!Unseen \in SUBSET Nat
    BY <1>3 DEF Graph!Unseen
  <2>2. w \in Graph!Unseen /\ \A x \in Graph!Unseen : w <= x
    BY <1>1, <1>2, <2>1, LeastOf
  <2> QED BY <2>2 DEF Graph!Unseen
<1>5. X \in SUBSET Graph!Ahead /\ X \subseteq DOMAIN Graph!Indexes
  <2>1. ASSUME NEW x \in X, x \notin DOMAIN Graph!Indexes PROVE FALSE
    <3>1. x \in Graph!Ahead /\ x < w
      BY <1>1
    <3>2. w <= x /\ w \in Nat /\ x \in Nat
      BY <1>3, <1>4, <2>1, <3>1
    <3> QED BY <3>1, <3>2
  <2> QED BY <1>1, <2>1
<1>6. /\ Looks(edges, frames, index, low, stack, v, D, lo2)
      /\ Graph!Indexes = IndexAfter(index, v) /\ Graph!Stacked = StackAfter(frames, stack, v)
  BY <1>1, <1>2, <1>5, LowAfterLooks
<1>7. LookedAt(edges, frames, v, w, D)
  <2>1. ASSUME NEW e \in edges
        PROVE  e \in D <=> e[1] = v /\ frames[Len(frames)].dep < e[2] /\ e[2] < w
    <3>1. e \in D <=> e[1] = v /\ e[2] \in Graph!Ahead /\ e[2] < w
      BY <1>1
    <3>2. e = <<e[1], e[2]>>
      BY <1>3
    <3>3. e[1] = v => (e[2] \in Graph!Ahead <=> frames[Len(frames)].dep < e[2])
      BY <1>3, <3>2
    <3> QED BY <3>1, <3>3
  <2> QED BY <1>1, <2>1 DEF LookedAt
<1>8. DownTo(frames, w, frames')
  BY <1>2 DEF DownTo
<1>9. Doing(edges, frames', IndexAfter(index, v), lo2, StackAfter(frames, stack, v), sccOf, nextSCC)
  <2>1. Doing(edges, frames, index, low, stack, sccOf, nextSCC)
    BY DEF Walking
  <2>2. <<v, w>> \in edges /\ frames[Len(frames)].dep < w /\ w \notin DOMAIN IndexAfter(index, v)
    BY <1>3, <1>4, <1>6
  <2> QED BY ONLY <2>1, <2>2, <1>2, <1>3, <1>6, <1>7, <1>8, DownDoing
<1>10. Doing(edges, frames', index', low', stack', sccOf, nextSCC)
  BY <1>2, <1>6, <1>9
<1>11. DOMAIN index' \subseteq DOMAIN ws
  <2>1. DOMAIN IndexAfter(index, v) = DOMAIN index \cup {v}
    BY DEF IndexAfter
  <2> QED BY <1>2, <1>3, <1>6, <2>1 DEF Walking
<1>12. \A k \in 1..Len(frames') : (frames')[k].node \in DOMAIN ws
  <2>1. w \in DOMAIN ws
    <3>1. <<v, w>> \in edges
      BY <1>3, <1>4
    <3>2. <<v, w>>[2] \in DOMAIN ws
      BY <1>3, <3>1
    <3> QED BY <3>2
  <2>2. frames \in Seq(Frames)
    BY DEF Walking, Doing, Framed
  <2>3. Len(frames) \in Nat /\ Len(frames) >= 1
    BY <1>2, <2>2, FrameNodes
  <2>4. PICK cut : cut = [frames EXCEPT ![Len(frames)].dep = w]
    OBVIOUS
  <2>5. /\ DOMAIN cut = DOMAIN frames /\ DOMAIN frames = 1..Len(frames)
        /\ \A k \in 1..Len(frames) : cut[k].node = frames[k].node
    BY <2>2, <2>3, <2>4 DEF Frames
  <2>6. cut \in Seq(Frames) /\ Len(cut) = Len(frames)
    <3>1. \A k \in 1..Len(frames) : cut[k] \in Frames
      <4>1. w \in Nat
        BY <1>3, <1>4
      <4>2. \A k \in 1..Len(frames) : frames[k] \in Frames
        BY <2>2
      <4> QED BY <2>3, <2>4, <4>1, <4>2 DEF Frames
    <3>2. cut = [k \in 1..Len(frames) |-> cut[k]]
      BY <2>4, <2>5
    <3>3. cut \in Seq(Frames)
      BY <2>3, <3>1, <3>2
    <3> QED BY <2>3, <2>5, <3>3
  <2>7. frames' = Append(cut, [node |-> w, dep |-> None])
    BY <1>2, <2>4
  <2>8. PICK top \in Frames : top = [node |-> w, dep |-> None]
    BY <1>3, <1>4 DEF Frames, None
  <2>9. Len(frames') = Len(frames) + 1
        /\ (\A k \in 1..Len(frames) : (frames')[k] = cut[k])
        /\ (frames')[Len(frames) + 1] = top
    BY ONLY <2>3, <2>6, <2>7, <2>8, AppendProperties
  <2>10. ASSUME NEW k \in 1..Len(frames') PROVE (frames')[k].node \in DOMAIN ws
    <3>1. CASE k \in 1..Len(frames)
      <4>1. (frames')[k] = cut[k] /\ cut[k].node = frames[k].node
        BY <2>5, <2>9, <3>1
      <4>2. frames[k].node \in DOMAIN ws
        BY <3>1 DEF Walking
      <4>3. (frames')[k].node = cut[k].node
        BY <4>1
      <4> QED BY <4>1, <4>2, <4>3
    <3>2. CASE k = Len(frames) + 1
      <4>1. (frames')[k] = top
        BY <2>9, <3>2
      <4>2. top.node = w
        BY <2>8
      <4> QED BY <2>1, <4>1, <4>2
    <3> QED BY <2>3, <2>9, <3>1, <3>2
  <2> QED BY <2>10
<1> QED BY <1>2, <1>10, <1>11, <1>12 DEF Walking

LEMMA ParentLowered ==
    ASSUME Walking, frames # <<>>, NEW v, v = Graph!Top.node,
           NEW D, NEW lo2, Looks(edges, frames, index, low, stack, v, D, lo2)
    PROVE  Parented(frames, v, lo2, Graph!Parent(lo2))
<1>1. /\ v = frames[Len(frames)].node /\ frames \in Seq(Frames)
      /\ Doing(edges, frames, index, low, stack, sccOf, nextSCC)
  BY DEF Graph!Top, Walking, Doing, Framed
<1>2. Entered(edges, frames, PendOf(edges, frames) \ D, v, IndexAfter(index, v), lo2,
              StackAfter(frames, stack, v), sccOf, nextSCC)
  BY <1>1, PassDoing
<1>3. /\ Len(frames) \in Nat /\ Len(frames) >= 1 /\ Len(NodesOf(frames)) = Len(frames)
      /\ \A k \in 1..Len(frames) : NodesOf(frames)[k] = frames[k].node
  BY <1>1, FrameNodes
<1>4. CASE Len(frames) = 1
  <2>1. Graph!Parent(lo2) = lo2
    BY <1>4 DEF Graph!Parent
  <2> QED BY <1>4, <2>1 DEF Parented
<1>5. CASE Len(frames) >= 2
  <2>1. PICK p : p = frames[Len(frames) - 1].node
    OBVIOUS
  <2>2. Graph!Parent(lo2) = [lo2 EXCEPT ![p] = Graph!Least({lo2[p], lo2[v]})]
    <3>1. Len(frames) # 1
      BY <1>3, <1>5
    <3> QED BY <2>1, <3>1, Zenon DEF Graph!Parent
  <2>3. p \in DOMAIN lo2 /\ lo2[p] \in Nat /\ lo2[v] \in Nat
    <3>1. PICK st, pend, ix2 :
            /\ Sound(edges, NodesOf(frames), pend, ix2, lo2, st, sccOf, nextSCC)
            /\ v \in st /\ NodesOf(frames) # <<>>
      BY <1>2 DEF Entered
    <3>2. /\ \A k \in 1..Len(NodesOf(frames)) : k < Len(NodesOf(frames)) => NodesOf(frames)[k] \in st
          /\ \A u \in st : u \in DOMAIN lo2 /\ lo2[u] \in Nat
      BY <3>1, PathNodes
    <3>3. Len(frames) - 1 \in 1..Len(frames) /\ Len(frames) - 1 < Len(frames)
      BY <1>3, <1>5
    <3>4. p \in st
      BY <1>3, <2>1, <3>2, <3>3
    <3> QED BY <3>1, <3>2, <3>4
  <2>4. PICK least : least = Graph!Least({lo2[p], lo2[v]})
    OBVIOUS
  <2>5. least \in {lo2[p], lo2[v]} /\ least <= lo2[p] /\ least <= lo2[v]
    BY <2>3, <2>4, LeastOf
  <2>6. PICK lo3 : lo3 = Graph!Parent(lo2)
    OBVIOUS
  <2>7. DOMAIN lo3 = DOMAIN lo2 /\ lo3[p] = least /\ \A u \in DOMAIN lo2 : u # p => lo3[u] = lo2[u]
    BY <2>2, <2>3, <2>4, <2>6
  <2>8. Parented(frames, v, lo2, lo3)
    <3>1. Len(frames) # 1
      BY <1>3, <1>5
    <3>2. /\ DOMAIN lo3 = DOMAIN lo2
          /\ \A u \in DOMAIN lo2 : u # p => lo3[u] = lo2[u]
          /\ lo3[p] <= lo2[p] /\ lo3[p] <= lo2[v] /\ (lo3[p] = lo2[p] \/ lo3[p] = lo2[v])
      BY <2>5, <2>7
    <3> QED BY ONLY <1>5, <2>1, <3>1, <3>2, Zenon DEF Parented
  <2> QED BY <2>6, <2>8
<1> QED BY <1>3, <1>4, <1>5

LEMMA RetreatWalks == Walking /\ Graph!Retreat => Walking'
<1> SUFFICES ASSUME Walking, Graph!Retreat PROVE Walking'
  OBVIOUS
<1>1. PICK v, X, D, lo2, stk2, ix2 :
        /\ v = Graph!Top.node /\ X = Graph!Ahead
        /\ D = {e \in edges : e[1] = v /\ e[2] \in X}
        /\ lo2 = [u \in DOMAIN low \cup {v} |-> IF u = v THEN Graph!LowAfter(X) ELSE low[u]]
        /\ stk2 = Graph!Stacked /\ ix2 = Graph!Indexes
  OBVIOUS
<1>2. PICK at : at = CHOOSE i \in DOMAIN stk2 : stk2[i] = v
  OBVIOUS
<1>3. PICK sc2 : sc2 = [u \in DOMAIN sccOf \cup {stk2[i] : i \in at..Len(stk2)} |->
                          IF u \in DOMAIN sccOf THEN sccOf[u] ELSE nextSCC]
  OBVIOUS
<1>4. /\ frames # <<>> /\ Graph!Unseen = {}
      /\ frames' = SubSeq(frames, 1, Len(frames) - 1)
      /\ low' = Graph!Parent(lo2) /\ index' = ix2
      /\ lo2[v] = ix2[v] => stack' = SubSeq(stk2, 1, at - 1) /\ sccOf' = sc2 /\ nextSCC' = nextSCC + 1
      /\ lo2[v] # ix2[v] => stack' = stk2 /\ UNCHANGED <<sccOf, nextSCC>>
      /\ UNCHANGED <<ws, edges>>
  BY <1>1, <1>2, <1>3 DEF Graph!Retreat, Graph!Popped
<1>5. /\ v = frames[Len(frames)].node /\ v \in DOMAIN ws
      /\ Graph!Ahead \in SUBSET Nat
      /\ \A x : x \in Graph!Ahead <=> <<v, x>> \in edges /\ frames[Len(frames)].dep < x
      /\ \A e \in edges : e = <<e[1], e[2]>>
  BY <1>1, <1>4, AheadNodes
<1>6. X \in SUBSET Graph!Ahead /\ X \subseteq DOMAIN Graph!Indexes
  BY <1>1, <1>4 DEF Graph!Unseen
<1>7. /\ Looks(edges, frames, index, low, stack, v, D, lo2)
      /\ ix2 = IndexAfter(index, v) /\ stk2 = StackAfter(frames, stack, v)
  BY <1>1, <1>4, <1>6, LowAfterLooks
<1>8. AllLookedAt(edges, frames, v, D)
  <2>1. ASSUME NEW e \in edges
        PROVE  e \in D <=> e[1] = v /\ frames[Len(frames)].dep < e[2]
    <3>1. e \in D <=> e[1] = v /\ e[2] \in Graph!Ahead
      BY <1>1
    <3>2. e = <<e[1], e[2]>>
      BY <1>5
    <3>3. e[1] = v => (e[2] \in Graph!Ahead <=> frames[Len(frames)].dep < e[2])
      BY <1>5, <3>2
    <3> QED BY <3>1, <3>3
  <2> QED BY <1>1, <2>1 DEF AllLookedAt
<1>9. UpFrom(frames, frames')
  BY <1>4 DEF UpFrom
<1>10. Parented(frames, v, lo2, low')
  BY <1>1, <1>4, <1>7, ParentLowered
<1>11. Left(edges, v, frames', ix2, lo2, low', stk2, sccOf, nextSCC)
  <2>1. Doing(edges, frames, index, low, stack, sccOf, nextSCC)
    BY DEF Walking
  <2>2. frames # <<>>
    BY <1>4
  <2>3. v = frames[Len(frames)].node
    BY <1>5
  <2>4. Looks(edges, frames, index, low, stack, v, D, lo2)
    BY <1>7
  <2>5. ix2 = IndexAfter(index, v)
    BY <1>7
  <2>6. stk2 = StackAfter(frames, stack, v)
    BY <1>7
  <2> QED BY ONLY <2>1, <2>2, <2>3, <2>4, <2>5, <2>6, <1>8, <1>9, <1>10, UpDoing
<1>12. at \in DOMAIN stk2 /\ stk2[at] = v
  BY <1>2, <1>11 DEF Held, Left
<1>13. Finished(sccOf, {stk2[j] : j \in at..Len(stk2)}, nextSCC, sc2)
  BY <1>3 DEF Finished
<1>14. Doing(edges, frames', index', low', stack', sccOf', nextSCC')
  <2>1. CASE lo2[v] = ix2[v]
    <3>1. Doing(edges, frames', ix2, low', SubSeq(stk2, 1, at - 1), sc2, nextSCC + 1)
      BY <1>11, <1>12, <1>13, <2>1 DEF Left
    <3> QED BY <1>4, <2>1, <3>1
  <2>2. CASE lo2[v] # ix2[v]
    BY <1>4, <1>11, <2>2 DEF Left
  <2> QED BY <2>1, <2>2
<1>15. DOMAIN index' \subseteq DOMAIN ws
  <2>1. DOMAIN IndexAfter(index, v) = DOMAIN index \cup {v}
    BY DEF IndexAfter
  <2> QED BY <1>4, <1>5, <1>7, <2>1 DEF Walking
<1>16. \A k \in 1..Len(frames') : (frames')[k].node \in DOMAIN ws
  <2>1. frames \in Seq(Frames)
    BY DEF Walking, Doing, Framed
  <2>2. Len(frames) - 1 \in Nat /\ Len(frames) - 1 < Len(frames)
    BY <1>4, <2>1, FrameNodes
  <2>3. PICK fr2 : fr2 = SubSeq(frames, 1, Len(frames) - 1)
    OBVIOUS
  <2>4. Len(fr2) = Len(frames) - 1 /\ \A k \in 1..(Len(frames) - 1) : fr2[k] = frames[k] /\ k \in 1..Len(frames)
    BY <2>1, <2>2, <2>3, ShorterSeq
  <2>5. \A k \in 1..Len(frames) : frames[k].node \in DOMAIN ws
    BY DEF Walking
  <2>6. \A k \in 1..Len(fr2) : fr2[k].node \in DOMAIN ws
    BY <2>4, <2>5
  <2> QED BY <1>4, <2>3, <2>6
<1>17. edges' = edges /\ ws' = ws
  BY <1>4
<1> QED BY <1>14, <1>15, <1>16, <1>17 DEF Walking

(* ---- The steps of Aggregation. ---- *)

WorkspaceTyped ==
    /\ DOMAIN ws \subseteq Dirs /\ IsFiniteSet(DOMAIN ws)
    /\ \A d \in DOMAIN ws : ws[d] \in Modules
CommitsTyped == commits \in Seq(CommitFields)

(* What holds of the graph throughout a verification: its edges are those of *)
(* the workspace from the time it is resolved, the traversal keeps its     *)
(* invariant, is begun before and done when levels are reported.           *)
AggregationInv ==
    /\ WorkspaceTyped /\ CommitsTyped
    /\ phase \in {"scopes", "graph", "reported", "aborted"}
    /\ Walking
    /\ phase = "scopes" => edges = {} /\ Graph!Begin
    /\ phase = "graph" => edges = Edges(ws)
    /\ Propagated => edges = Edges(ws) /\ Graph!Done
    /\ phase = "reported" => policy.component \in Names

LEMMA BeginWalks ==
    ASSUME WorkspaceTyped, Graph!Begin, NEW E, E \subseteq (DOMAIN ws) \X (DOMAIN ws), \A e \in E : e[1] # e[2]
    PROVE  Doing(E, frames, index, low, stack, sccOf, nextSCC)
<1>1. frames = <<>> /\ index = <<>> /\ low = <<>> /\ stack = <<>> /\ sccOf = <<>> /\ nextSCC = 0
  BY DEF Graph!Begin
<1>2. DOMAIN ws \subseteq Nat \ {None}
  BY WorkspaceAssumption DEF WorkspaceTyped
<1>3. E \subseteq Nat \X Nat /\ Loopless(E)
  <2>1. \A e \in E : e \in (DOMAIN ws) \X (DOMAIN ws) /\ e[1] # e[2]
    OBVIOUS
  <2>2. ASSUME NEW e \in E
        PROVE e \in Nat \X Nat /\ e[1] \in Nat \ {None} /\ e[2] \in Nat \ {None} /\ e[1] # e[2]
    BY <1>2, <2>1
  <2> QED BY <2>2 DEF Loopless
<1>4. Doing(E, <<>>, <<>>, <<>>, <<>>, <<>>, 0)
  BY <1>3, BeginDoing
<1> QED BY <1>1, <1>4

LEMMA BeginInv ==
    ASSUME WorkspaceTyped, Graph!Begin, edges \subseteq (DOMAIN ws) \X (DOMAIN ws), \A e \in edges : e[1] # e[2]
    PROVE  Walking
<1>1. DOMAIN ws \subseteq Nat \ {None} /\ IsFiniteSet(DOMAIN ws)
  BY WorkspaceAssumption DEF WorkspaceTyped
<1>2. Doing(edges, frames, index, low, stack, sccOf, nextSCC)
  BY BeginWalks
<1>3. frames = <<>> /\ index = <<>>
  BY DEF Graph!Begin
<1>4. DOMAIN index = {} /\ Len(frames) = 0
  BY <1>3
<1> QED BY <1>1, <1>2, <1>4 DEF Walking

LEMMA EdgesBetween ==
    ASSUME NEW w
    PROVE  Edges(w) \subseteq (DOMAIN w) \X (DOMAIN w) /\ \A e \in Edges(w) : e[1] # e[2]
BY DEF Edges

LEMMA InitInv == Init => AggregationInv
<1> SUFFICES ASSUME Init PROVE AggregationInv
  OBVIOUS
<1>1. PICK c \in Cases : ws \in c.ws /\ commits \in c.commits
  BY DEF Init
<1>2. WorkspaceTyped /\ CommitsTyped
  BY <1>1, CasesAssumption DEF WorkspaceTyped, CommitsTyped
<1>3. edges = {} /\ Graph!Begin /\ phase = "scopes"
  BY DEF Init
<1>4. Walking
  BY <1>2, <1>3, BeginInv
<1> QED BY <1>2, <1>3, <1>4 DEF AggregationInv, Propagated

LEMMA StepInv == AggregationInv /\ [Next]_vars => AggregationInv'
<1> SUFFICES ASSUME AggregationInv, [Next]_vars PROVE AggregationInv'
  OBVIOUS
<1>1. CASE ScopePass
  <2>1. /\ phase = "scopes" /\ phase' = phase /\ policy' = policy /\ UNCHANGED graphVars
        /\ commits' = commits
    BY <1>1 DEF ScopePass, Visit
  <2>2. UNCHANGED <<ws, edges, index, low, stack, frames, sccOf, nextSCC>>
    BY <2>1 DEF graphVars
  <2>3. WorkspaceTyped' /\ CommitsTyped' /\ Walking' /\ (Graph!Begin)'
    BY <2>1, <2>2 DEF AggregationInv, WorkspaceTyped, CommitsTyped, Walking, Graph!Begin
  <2> QED BY <2>1, <2>2, <2>3 DEF AggregationInv, Propagated
<1>2. CASE AbortMeta
  <2>1. phase' = "aborted" /\ UNCHANGED <<scopeVars, graphVars>>
    BY <1>2 DEF AbortMeta
  <2>2. UNCHANGED <<commits, ws, edges, index, low, stack, frames, sccOf, nextSCC>>
    BY <2>1 DEF graphVars, scopeVars
  <2>3. WorkspaceTyped' /\ CommitsTyped' /\ Walking'
    BY <2>2 DEF AggregationInv, WorkspaceTyped, CommitsTyped, Walking
  <2> QED BY <2>1, <2>3 DEF AggregationInv, Propagated
<1>3. CASE Resolve
  <2>1. /\ phase = "scopes" /\ UNCHANGED <<scopeVars, ws, index, low, stack, frames, sccOf, nextSCC>>
        /\ (phase' = "graph" /\ edges' = Edges(ws)) \/ (phase' = "aborted" /\ edges' = edges)
    BY <1>3 DEF Resolve
  <2>2. UNCHANGED <<commits, ws, index, low, stack, frames, sccOf, nextSCC>>
    BY <2>1 DEF scopeVars
  <2>3. WorkspaceTyped' /\ CommitsTyped' /\ (Graph!Begin)'
    BY <2>1, <2>2 DEF AggregationInv, WorkspaceTyped, CommitsTyped, Graph!Begin
  <2>4. edges' \subseteq (DOMAIN ws) \X (DOMAIN ws) /\ \A e \in edges' : e[1] # e[2]
    <3>1. edges = {}
      BY <2>1 DEF AggregationInv
    <3> QED BY <2>1, <3>1, EdgesBetween
  <2>5. Walking'
    <3>1. Doing(edges', frames, index, low, stack, sccOf, nextSCC)
      BY <2>1, <2>4, BeginWalks DEF AggregationInv
    <3>2. edges' \subseteq (DOMAIN ws) \X (DOMAIN ws)
      BY <2>4
    <3> QED BY <2>2, <3>1, <3>2 DEF AggregationInv, Walking
  <2>6. phase' = "graph" => edges' = Edges(ws')
    BY <2>1, <2>2
  <2> QED BY <2>1, <2>3, <2>5, <2>6 DEF AggregationInv, Propagated
<1>4. CASE Traverse
  <2>1. phase = "graph" /\ UNCHANGED <<scopeVars, phase>> /\ Graph!Traverse
    BY <1>4 DEF Traverse
  <2>2. UNCHANGED <<commits, phase, ws, edges>>
    BY <2>1 DEF scopeVars, Graph!Traverse, Graph!Start, Graph!Descend, Graph!Retreat
  <2>3. Walking'
    BY <2>1, StartWalks, DescendWalks, RetreatWalks DEF Graph!Traverse, AggregationInv
  <2>4. WorkspaceTyped' /\ CommitsTyped' /\ edges' = Edges(ws')
    BY <2>1, <2>2 DEF AggregationInv, WorkspaceTyped, CommitsTyped
  <2> QED BY <2>1, <2>2, <2>3, <2>4 DEF AggregationInv, Propagated
<1>5. CASE Report
  <2>1. /\ phase' \in {"reported", "aborted"} /\ UNCHANGED <<scopeVars, policy, graphVars>>
        /\ phase' = "reported" => policy.component \in Names
        /\ (phase = "graph" /\ Graph!Done) \/ policy.adapter = "none"
    BY <1>5 DEF Report
  <2>2. UNCHANGED <<commits, floors, policy, ws, edges, index, low, stack, frames, sccOf, nextSCC>>
    BY <2>1 DEF scopeVars, graphVars
  <2>3. WorkspaceTyped' /\ CommitsTyped' /\ Walking'
    BY <2>2 DEF AggregationInv, WorkspaceTyped, CommitsTyped, Walking
  <2>4. Names' = Names
    BY <2>2 DEF Names
  <2>5. Propagated' => (edges = Edges(ws))' /\ (Graph!Done)'
    BY <2>1, <2>2 DEF AggregationInv, Propagated, Graph!Done, Graph!Nodes
  <2> QED BY <2>1, <2>2, <2>3, <2>4, <2>5 DEF AggregationInv
<1>6. CASE UNCHANGED vars
  <2>1. UNCHANGED <<commits, floors, phase, policy, ws, edges, index, low, stack, frames, sccOf, nextSCC>>
    BY <1>6 DEF vars, scopeVars, graphVars
  <2> QED BY <2>1 DEF AggregationInv, WorkspaceTyped, CommitsTyped, Walking, Graph!Begin, Propagated,
                      Graph!Done, Graph!Nodes, Names
<1> QED BY <1>1, <1>2, <1>3, <1>4, <1>5, <1>6 DEF Next

(* The traversal is where its invariant says throughout a verification.    *)
LEMMA AggregationSteps == Spec => []AggregationInv
BY InitInv, StepInv, PTL DEF Spec

(* ---- What holds of the traversal. ---- *)

LEMMA StackHolds == Walking => Graph!StackOK /\ Graph!DependenciesFirst
<1> SUFFICES ASSUME Walking PROVE Graph!StackOK /\ Graph!DependenciesFirst
  OBVIOUS
<1>1. /\ Sound(edges, NodesOf(frames), PendOf(edges, frames), index, low, Held(stack), sccOf, nextSCC)
      /\ Ordered(stack, index, Held(stack)) /\ frames \in Seq(Frames)
  BY DEF Walking, Doing, Framed
<1>2. Graph!OnStack = Held(stack)
  BY DEF Graph!OnStack, Held
<1>3. DOMAIN low = DOMAIN index /\ Held(stack) = DOMAIN index \ DOMAIN sccOf
  BY <1>1 DEF Sound, Numbering
<1>4. \A i, j \in DOMAIN stack : i < j => index[stack[i]] < index[stack[j]]
  BY <1>1 DEF Ordered
<1>5. \A k \in 1..(Len(frames) - 1) : frames[k].node \in Held(stack)
  <2>1. \A k \in 1..(Len(NodesOf(frames)) - 1) : NodesOf(frames)[k] \in Held(stack)
    BY <1>1 DEF Sound, OnPath
  <2>2. /\ Len(NodesOf(frames)) = Len(frames) /\ Len(frames) \in Nat
        /\ \A k \in 1..Len(frames) : NodesOf(frames)[k] = frames[k].node
    BY <1>1, FrameNodes
  <2>3. \A k \in 1..(Len(frames) - 1) : k \in 1..Len(frames)
    BY <2>2
  <2> QED BY <2>1, <2>2, <2>3
<1>6. Graph!DependenciesFirst
  BY <1>1 DEF Sound, Numbers, Graph!DependenciesFirst
<1> QED BY <1>2, <1>3, <1>4, <1>5, <1>6 DEF Graph!StackOK

(* When it is done every node has a component, and two nodes share one     *)
(* exactly when each depends on the other.                                 *)
Components ==
    /\ DOMAIN sccOf = DOMAIN ws /\ nextSCC \in Nat
    /\ \A v \in DOMAIN ws : sccOf[v] \in 0..(nextSCC - 1)
    /\ \A id \in 0..(nextSCC - 1) : \E v \in DOMAIN ws : sccOf[v] = id
    /\ \A e \in edges : sccOf[e[2]] <= sccOf[e[1]]
    /\ \A v, w \in DOMAIN ws : sccOf[v] = sccOf[w] <=> v \in From(edges, w) /\ w \in From(edges, v)

LEMMA DoneComponents == Walking /\ Graph!Done => Components
<1> SUFFICES ASSUME Walking, Graph!Done PROVE Components
  OBVIOUS
<1>1. frames = <<>> /\ DOMAIN index = DOMAIN ws
  BY DEF Graph!Done, Graph!Nodes
<1>2. PICK P, pend, st : /\ P = NodesOf(frames) /\ st = Held(stack)
                         /\ Sound(edges, P, pend, index, low, st, sccOf, nextSCC)
  BY DEF Walking, Doing
<1>3. P = <<>>
  BY <1>1, <1>2 DEF NodesOf
<1>4. st = {}
  BY <1>2, <1>3 DEF Sound, OnPath
<1>5. DOMAIN sccOf = DOMAIN ws
  BY <1>1, <1>2, <1>4 DEF Sound, Numbering
<1>6. /\ nextSCC \in Nat
      /\ \A v \in DOMAIN ws : sccOf[v] \in Nat /\ sccOf[v] < nextSCC
      /\ \A id \in 0..(nextSCC - 1) : \E v \in DOMAIN ws : sccOf[v] = id
      /\ \A e \in edges : e[1] \in DOMAIN ws => e[2] \in DOMAIN ws /\ sccOf[e[2]] <= sccOf[e[1]]
      /\ \A v, w \in DOMAIN ws : sccOf[v] = sccOf[w] => w \in From(edges, v)
  BY <1>2, <1>5 DEF Sound, Numbers
<1>7. \A v \in DOMAIN ws : sccOf[v] \in 0..(nextSCC - 1)
  BY <1>6
<1>8. \A e \in edges : e[1] \in DOMAIN ws /\ e[2] \in DOMAIN ws
  BY DEF Walking
<1>9. DOMAIN ws \subseteq Nat
  BY DEF Walking
<1>10. ASSUME NEW v \in DOMAIN ws, NEW w \in From(edges, v) PROVE w \in DOMAIN ws /\ sccOf[w] <= sccOf[v]
  <2>1. PICK S : S = {u \in DOMAIN ws : sccOf[u] <= sccOf[v]}
    OBVIOUS
  <2>2. v \in S /\ S \in SUBSET Nat
    BY <1>6, <1>9, <2>1
  <2>3. ClosedUnder(edges, S)
    <3> SUFFICES ASSUME NEW e \in edges, e[1] \in S PROVE e[2] \in S
      BY DEF ClosedUnder
    <3>1. sccOf[e[2]] <= sccOf[e[1]] /\ sccOf[e[1]] <= sccOf[v] /\ e[1] \in DOMAIN ws /\ e[2] \in DOMAIN ws
      BY <1>6, <1>8, <2>1
    <3>2. sccOf[e[2]] \in Nat /\ sccOf[e[1]] \in Nat /\ sccOf[v] \in Nat
      BY <1>6, <3>1
    <3> QED BY <2>1, <3>1, <3>2
  <2>4. w \in S
    BY <2>2, <2>3, FromWithin
  <2> QED BY <2>1, <2>4
<1>11. ASSUME NEW v \in DOMAIN ws, NEW w \in DOMAIN ws
       PROVE sccOf[v] = sccOf[w] <=> v \in From(edges, w) /\ w \in From(edges, v)
  <2>1. sccOf[v] \in Nat /\ sccOf[w] \in Nat
    BY <1>6
  <2>2. sccOf[v] = sccOf[w] => v \in From(edges, w) /\ w \in From(edges, v)
    BY <1>6
  <2>3. v \in From(edges, w) /\ w \in From(edges, v) => sccOf[v] <= sccOf[w] /\ sccOf[w] <= sccOf[v]
    BY <1>10
  <2> QED BY <2>1, <2>2, <2>3
<1> QED BY <1>5, <1>6, <1>7, <1>8, <1>11 DEF Components

(* The recursive function of ReachFrom, over N rounds.                     *)
IsReach(r, N, v) ==
    r = [k \in 0..N |-> IF k = 0 THEN {v}
                        ELSE r[k - 1] \cup UNION {Graph!BuiltFrom(u) : u \in r[k - 1]}]

LEMMA ReachExists ==
    ASSUME NEW v, NEW N \in Nat
    PROVE  \E r : IsReach(r, N, v)
<1> DEFINE Bad == {n \in Nat : ~ \E r : IsReach(r, n, v)}
<1>1. SUFFICES ASSUME Bad # {} PROVE FALSE
  OBVIOUS
<1>2. PICK n \in Bad : \A m \in Bad : n <= m
  BY <1>1, LeastNat
<1>3. CASE n = 0
  <2>1. PICK r : r = [k \in 0..0 |-> {v}]
    OBVIOUS
  <2>2. r = [k \in 0..0 |-> IF k = 0 THEN {v}
                            ELSE r[k - 1] \cup UNION {Graph!BuiltFrom(u) : u \in r[k - 1]}]
    BY <2>1
  <2> QED BY <1>2, <1>3, <2>2 DEF IsReach
<1>4. CASE n # 0
  <2>1. n - 1 \in Nat /\ ~(n <= n - 1)
    BY <1>2, <1>4
  <2>2. PICK r : IsReach(r, n - 1, v)
    BY <1>2, <2>1
  <2> DEFINE step(S) == S \cup UNION {Graph!BuiltFrom(u) : u \in S}
  <2>3. r = [k \in 0..(n - 1) |-> IF k = 0 THEN {v} ELSE step(r[k - 1])]
    BY <2>2 DEF IsReach
  <2> HIDE DEF step
  <2>4. PICK q : q = [k \in 0..n |-> IF k < n THEN r[k] ELSE step(r[n - 1])]
    OBVIOUS
  <2>5. q = [k \in 0..n |-> q[k]]
    BY <2>4
  <2>6. \A k \in 0..n : q[k] = IF k = 0 THEN {v} ELSE step(q[k - 1])
    <3> SUFFICES ASSUME NEW k \in 0..n PROVE q[k] = IF k = 0 THEN {v} ELSE step(q[k - 1])
      OBVIOUS
    <3>1. n \in Nat /\ n >= 1
      BY <1>2, <1>4
    <3>2. CASE k < n
      <4>1. k \in 0..(n - 1) /\ q[k] = r[k]
        BY <2>4, <3>1, <3>2
      <4>2. r[k] = IF k = 0 THEN {v} ELSE step(r[k - 1])
        BY <2>3, <4>1
      <4>3. k # 0 => q[k - 1] = r[k - 1]
        BY <2>4, <3>1, <3>2
      <4> QED BY <4>1, <4>2, <4>3
    <3>3. CASE k = n
      <4>1. q[n] = step(r[n - 1]) /\ q[n - 1] = r[n - 1]
        BY <2>4, <3>1
      <4> QED BY <3>1, <3>3, <4>1
    <3> QED BY <3>1, <3>2, <3>3
  <2>7. q = [k \in 0..n |-> IF k = 0 THEN {v} ELSE step(q[k - 1])]
    BY <2>5, <2>6
  <2>8. IsReach(q, n, v)
    BY <2>7 DEF IsReach, step
  <2> QED BY <1>2, <2>8
<1> QED BY <1>3, <1>4

LEMMA ReachFromIs ==
    ASSUME NEW v, IsFiniteSet(DOMAIN ws)
    PROVE  \E r : IsReach(r, Cardinality(DOMAIN ws), v) /\ Graph!ReachFrom(v) = r[Cardinality(DOMAIN ws)]
<1>1. PICK N : N = Cardinality(DOMAIN ws) /\ N \in Nat
  BY FS_CardinalityType
<1>2. Graph!Cardinality(Graph!Nodes) = N
  BY <1>1, SameCardinality DEF Graph!Nodes
<1>3. PICK r : r = CHOOSE q : IsReach(q, N, v)
  OBVIOUS
<1>4. IsReach(r, N, v)
  BY <1>1, <1>3, ReachExists
<1>5. Graph!ReachFrom(v) = r[N]
  BY <1>2, <1>3 DEF Graph!ReachFrom, IsReach
<1> QED BY <1>1, <1>4, <1>5

(* What a module is built from is what its edges say.                      *)
BuiltByEdges == \A u \in DOMAIN ws : Graph!BuiltFrom(u) = {w \in DOMAIN ws : <<u, w>> \in edges}

(* The recursion of ReachFrom computes all a module depends on.            *)
LEMMA ReachIsFrom ==
    ASSUME WorkspaceTyped, edges \subseteq (DOMAIN ws) \X (DOMAIN ws), BuiltByEdges, NEW v \in DOMAIN ws
    PROVE  Graph!ReachFrom(v) = From(edges, v)
<1>1. PICK N, r : /\ N = Cardinality(DOMAIN ws) /\ N \in Nat
                  /\ IsReach(r, N, v) /\ Graph!ReachFrom(v) = r[N]
  BY ReachFromIs, FS_CardinalityType DEF WorkspaceTyped
<1> DEFINE step(S) == S \cup UNION {Graph!BuiltFrom(u) : u \in S}
<1>2. r[0] = {v} /\ \A k \in 1..N : r[k] = step(r[k - 1])
  <2>1. r = [k \in 0..N |-> IF k = 0 THEN {v} ELSE step(r[k - 1])]
    BY <1>1 DEF IsReach
  <2> HIDE DEF step
  <2>2. \A k \in 0..N : r[k] = IF k = 0 THEN {v} ELSE step(r[k - 1])
    BY <2>1
  <2>3. 0 \in 0..N /\ \A k \in 1..N : k \in 0..N /\ k # 0
    BY <1>1
  <2> QED BY <2>2, <2>3
<1>3. DOMAIN ws \subseteq Nat /\ IsFiniteSet(DOMAIN ws)
      /\ \A e \in edges : e = <<e[1], e[2]>> /\ e[1] \in DOMAIN ws /\ e[2] \in DOMAIN ws
  <2>1. \A e \in edges : e \in (DOMAIN ws) \X (DOMAIN ws)
    OBVIOUS
  <2>2. \A e \in edges : e = <<e[1], e[2]>> /\ e[1] \in DOMAIN ws /\ e[2] \in DOMAIN ws
    BY <2>1
  <2> QED BY <2>2, WorkspaceAssumption DEF WorkspaceTyped
<1>4. ASSUME NEW S \in SUBSET DOMAIN ws
      PROVE  /\ step(S) \in SUBSET DOMAIN ws /\ S \subseteq step(S)
             /\ \A w \in step(S) : w \in S \/ \E e \in edges : e[1] \in S /\ e[2] = w
             /\ \A e \in edges : e[1] \in S => e[2] \in step(S)
  <2>1. \A u \in S : Graph!BuiltFrom(u) = {w \in DOMAIN ws : <<u, w>> \in edges}
    BY DEF BuiltByEdges
  <2>2. \A w \in step(S) : w \in S \/ \E u \in S : w \in DOMAIN ws /\ <<u, w>> \in edges
    BY <2>1
  <2>3. step(S) \in SUBSET DOMAIN ws /\ S \subseteq step(S)
    BY <2>2
  <2>4. ASSUME NEW e \in edges, e[1] \in S PROVE e[2] \in step(S)
    <3>1. <<e[1], e[2]>> \in edges /\ e[2] \in DOMAIN ws
      BY <1>3
    <3>2. e[2] \in Graph!BuiltFrom(e[1])
      BY <2>1, <2>4, <3>1
    <3> QED BY <2>4, <3>2
  <2>5. ASSUME NEW w \in step(S), w \notin S PROVE \E e \in edges : e[1] \in S /\ e[2] = w
    <3>1. PICK u \in S : <<u, w>> \in edges
      BY <2>2, <2>5
    <3>2. <<u, w>>[1] = u /\ <<u, w>>[2] = w
      OBVIOUS
    <3> QED BY <3>1, <3>2
  <2> HIDE DEF step
  <2> QED BY <2>3, <2>4, <2>5
<1> HIDE DEF step
<1>5. \A k \in 0..N : /\ r[k] \in SUBSET DOMAIN ws /\ v \in r[k] /\ r[k] \subseteq From(edges, v)
                      /\ ClosedUnder(edges, r[k]) \/ Cardinality(r[k]) >= k + 1
  <2> DEFINE Good(k) == /\ r[k] \in SUBSET DOMAIN ws /\ v \in r[k] /\ r[k] \subseteq From(edges, v)
                        /\ ClosedUnder(edges, r[k]) \/ Cardinality(r[k]) >= k + 1
             Bad == {k \in 0..N : ~Good(k)}
  <2>1. SUFFICES ASSUME Bad # {} PROVE FALSE
    OBVIOUS
  <2>2. Bad \in SUBSET Nat
    BY <1>1
  <2>3. PICK k \in Bad : \A m \in Bad : k <= m
    BY <2>1, <2>2, LeastNat
  <2>4. k \in Nat /\ k <= N
    BY <1>1
  <2>5. CASE k = 0
    <3>1. r[0] = {v} /\ v \in Nat /\ v \in From(edges, v)
      BY <1>2, <1>3, FromItself
    <3>2. Cardinality({v}) = 1
      BY FS_Singleton
    <3>3. Good(0)
      BY <3>1, <3>2
    <3> HIDE DEF Good
    <3> QED BY <2>3, <2>5, <3>3
  <2>6. CASE k # 0
    <3>1. k - 1 \in 0..N /\ k \in 1..N /\ ~(k <= k - 1)
      BY <1>1, <2>4, <2>6
    <3>2. k - 1 \notin Bad
      BY <2>3, <3>1
    <3>3. Good(k - 1)
      BY <3>1, <3>2
    <3>4. PICK S : S = r[k - 1]
      OBVIOUS
    <3>5. S \in SUBSET DOMAIN ws /\ v \in S /\ S \subseteq From(edges, v)
          /\ (ClosedUnder(edges, S) \/ Cardinality(S) >= k)
      BY <2>4, <3>3, <3>4
    <3>6. r[k] = step(S)
      BY <1>2, <3>1, <3>4
    <3>7. /\ step(S) \in SUBSET DOMAIN ws /\ S \subseteq step(S)
          /\ \A w \in step(S) : w \in S \/ \E e \in edges : e[1] \in S /\ e[2] = w
          /\ \A e \in edges : e[1] \in S => e[2] \in step(S)
      BY <1>4, <3>5
    <3>8. step(S) \subseteq From(edges, v)
      <4> SUFFICES ASSUME NEW w \in step(S), w \notin S PROVE w \in From(edges, v)
        BY <3>5
      <4>1. PICK e \in edges : e[1] \in S /\ e[2] = w
        BY <3>7
      <4>2. e[1] \in Nat /\ e[2] \in Nat
        BY <1>3
      <4>3. w \in From(edges, e[1])
        BY <4>1, <4>2, FromEdge
      <4>4. e[1] \in From(edges, v)
        BY <3>5, <4>1
      <4> QED BY <4>3, <4>4, FromFurther
    <3>9. ClosedUnder(edges, step(S)) \/ Cardinality(step(S)) >= k + 1
      <4>1. CASE ClosedUnder(edges, S)
        <5>1. step(S) = S
          <6>1. \A e \in edges : e[1] \in S => e[2] \in S
            BY <4>1 DEF ClosedUnder
          <6>2. \A w \in step(S) : w \in S
            BY <3>7, <6>1
          <6>3. S \subseteq step(S)
            BY <3>7
          <6> QED BY ONLY <6>2, <6>3
        <5> QED BY <4>1, <5>1
      <4>2. CASE ~ClosedUnder(edges, S)
        <5>1. PICK e \in edges : e[1] \in S /\ e[2] \notin S
          BY <4>2 DEF ClosedUnder
        <5>2. S # step(S) /\ S \subseteq step(S)
          BY <3>7, <5>1
        <5>3. IsFiniteSet(step(S)) /\ IsFiniteSet(S)
          BY <1>3, <3>5, <3>7, FS_Subset
        <5>4. Cardinality(S) < Cardinality(step(S)) /\ Cardinality(S) \in Nat /\ Cardinality(step(S)) \in Nat
          BY <5>2, <5>3, FS_Subset, FS_CardinalityType
        <5> QED BY <2>4, <3>5, <4>2, <5>4
      <4> QED BY <4>1, <4>2
    <3>10. Good(k)
      BY <3>5, <3>6, <3>7, <3>8, <3>9
    <3> HIDE DEF Good
    <3> QED BY <2>3, <3>10
  <2> QED BY <2>5, <2>6
<1>6. r[N] \in SUBSET DOMAIN ws /\ v \in r[N] /\ r[N] \subseteq From(edges, v)
      /\ (ClosedUnder(edges, r[N]) \/ Cardinality(r[N]) >= N + 1)
  BY <1>1, <1>5
<1>7. Cardinality(r[N]) <= N /\ Cardinality(r[N]) \in Nat
  BY <1>1, <1>3, <1>6, FS_Subset, FS_CardinalityType
<1>8. ClosedUnder(edges, r[N])
  BY <1>1, <1>6, <1>7
<1>9. From(edges, v) \subseteq r[N]
  <2>1. r[N] \in SUBSET Nat
    BY <1>3, <1>6
  <2> QED BY <1>6, <1>8, <2>1, FromWithin
<1> QED BY <1>1, <1>6, <1>9

LEMMA MatchedBuilt ==
    ASSUME WorkspaceTyped, Matched(ws), edges = Edges(ws)
    PROVE  BuiltByEdges
<1> SUFFICES ASSUME NEW u \in DOMAIN ws, NEW w
             PROVE  w \in Graph!BuiltFrom(u) <=> w \in DOMAIN ws /\ <<u, w>> \in edges
  BY DEF BuiltByEdges
<1> DEFINE applying(req) ==
             {r \in ws[u].replaces : r.old = req.path /\ r.version \in {AnyVersion, req.version}}
           news(req) == {r.new : r \in {s \in ws[u].replaces : s.old = req.path}}
           fits(req) == IF applying(req) = {} THEN ws[w].path = req.path
                        ELSE \E r \in applying(req) : r.new \in {w, ws[w].path}
<1>1. w \in Graph!BuiltFrom(u) <=> w \in DOMAIN ws \ {u} /\ \E req \in ws[u].requires : fits(req)
  BY DEF Graph!BuiltFrom, Graph!Nodes, Graph!AnyVersion, AnyVersion
<1>2. <<u, w>> \in edges <=>
        w \in DOMAIN ws \ {u} /\ \E req \in ws[u].requires : w \in ResolveInternal(ws, u, req.path)
  <2>1. \A e : e \in edges <=> /\ e \in (DOMAIN ws) \X (DOMAIN ws)
                               /\ e[1] # e[2]
                               /\ \E req \in ws[e[1]].requires : e[2] \in ResolveInternal(ws, e[1], req.path)
    BY DEF Edges
  <2>2. <<u, w>>[1] = u /\ <<u, w>>[2] = w
    OBVIOUS
  <2>3. <<u, w>> \in (DOMAIN ws) \X (DOMAIN ws) <=> w \in DOMAIN ws
    OBVIOUS
  <2> HIDE DEF fits
  <2> QED BY ONLY <2>1, <2>2, <2>3
<1>3. ASSUME NEW req \in ws[u].requires, w \in DOMAIN ws
      PROVE  w \in ResolveInternal(ws, u, req.path) <=> fits(req)
  <2>1. \A r \in ws[u].replaces : r \in applying(req) <=> r.old = req.path
    BY DEF Matched
  <2>2. w \in ResolveInternal(ws, u, req.path) <=>
          IF news(req) # {} THEN \E n \in news(req) : n = w \/ ws[w].path = n ELSE ws[w].path = req.path
    BY <1>3 DEF ResolveInternal, ByPath
  <2>3. \A n : n \in news(req) <=> \E r \in applying(req) : n = r.new
    BY <2>1
  <2>4. news(req) = {} <=> applying(req) = {}
    BY <2>3
  <2> HIDE DEF news, applying
  <2> QED BY <2>2, <2>3, <2>4
<1> HIDE DEF fits
<1> QED BY <1>1, <1>2, <1>3

LEMMA ComponentsHold ==
    ASSUME AggregationInv, Matched(ws), phase = "graph"
    PROVE  Graph!ComponentsRight
<1> SUFFICES ASSUME Graph!Done, NEW v \in DOMAIN ws, NEW w \in DOMAIN ws
             PROVE  sccOf[v] = sccOf[w] <=> v \in Graph!ReachFrom(w) /\ w \in Graph!ReachFrom(v)
  BY DEF Graph!ComponentsRight, Graph!Nodes
<1>1. WorkspaceTyped /\ Walking /\ edges = Edges(ws)
  BY DEF AggregationInv
<1>2. Components
  BY <1>1, DoneComponents
<1>3. BuiltByEdges /\ edges \subseteq (DOMAIN ws) \X (DOMAIN ws)
  BY <1>1, MatchedBuilt, EdgesBetween
<1>4. Graph!ReachFrom(v) = From(edges, v) /\ Graph!ReachFrom(w) = From(edges, w)
  BY <1>1, <1>3, ReachIsFrom
<1> QED BY <1>2, <1>4 DEF Components

LEMMA MatchedAlways == ASSUME ReplacesMatch PROVE Spec => []Matched(ws)
<1>1. Init => Matched(ws)
  BY DEF Init, ReplacesMatch
<1>2. ASSUME Matched(ws), [Next]_vars PROVE Matched(ws)'
  <2>1. ws' = ws
    BY <1>2 DEF Next, ScopePass, AbortMeta, Resolve, Traverse, Report, vars, graphVars,
                Graph!Traverse, Graph!Start, Graph!Descend, Graph!Retreat
  <2> QED BY <1>2, <2>1 DEF Matched
<1> QED BY <1>1, <1>2, PTL DEF Spec

(* With every workspace the traversal's stack holds what is unfinished, and *)
(* components are finished after what they depend on (tarjan).             *)
THEOREM TraversalOrdered == Spec => [](Graph!StackOK /\ Graph!DependenciesFirst)
<1>1. AggregationInv => Graph!StackOK /\ Graph!DependenciesFirst
  BY StackHolds DEF AggregationInv
<1> QED BY <1>1, AggregationSteps, PTL

(* If no directive replaces another version than the one required, the     *)
(* components at the end are also the sets of modules that are built from  *)
(* each other (tarjan).                                                    *)
THEOREM TraversalTrusted == ASSUME ReplacesMatch PROVE Spec => []TraversalRight
<1>1. AggregationInv /\ Matched(ws) => TraversalRight
  <2> SUFFICES ASSUME AggregationInv, Matched(ws) PROVE TraversalRight
    OBVIOUS
  <2>1. Graph!StackOK /\ Graph!DependenciesFirst
    BY StackHolds DEF AggregationInv
  <2> QED BY <2>1, ComponentsHold DEF TraversalRight
<1> QED BY <1>1, AggregationSteps, MatchedAlways, PTL

(* ---- The levels. ---- *)

(* The least level of the commits under a directory.                       *)
LEMMA OwnHolds ==
    ASSUME CommitsTyped, NEW v
    PROVE  /\ Graph!Own(v) \in 0..3
           /\ \A c \in DirCommits : Graph!CommitUnderDir(c, v) => Graph!Own(v) <= c.level
           /\ Graph!Own(v) = 3 \/ \E c \in DirCommits : Graph!CommitUnderDir(c, v) /\ c.level = Graph!Own(v)
<1>1. PICK levels : levels = {c.level : c \in {b \in DirCommits : Graph!CommitUnderDir(b, v)}}
  OBVIOUS
<1>2. \A c \in DirCommits : c.level \in 0..3
  <2> SUFFICES ASSUME NEW c \in DirCommits PROVE c.level \in 0..3
    OBVIOUS
  <2>1. PICK i \in DOMAIN commits : c.level = commits[i].level
    BY DEF DirCommits
  <2>2. commits[i] \in CommitFields
    BY DEF CommitsTyped
  <2> QED BY <2>1, <2>2 DEF CommitFields, Levels
<1>3. levels \in SUBSET (0..3) /\ levels \in SUBSET Nat
  BY <1>1, <1>2
<1>4. Graph!Own(v) = IF levels = {} THEN 3 ELSE CHOOSE l \in levels : \A k \in levels : l <= k
  BY <1>1 DEF Graph!Own, Graph!FloorOverDir
<1>5. \A l : l \in levels <=> \E c \in DirCommits : Graph!CommitUnderDir(c, v) /\ c.level = l
  BY <1>1
<1>6. CASE levels = {}
  <2>1. Graph!Own(v) = 3
    BY <1>4, <1>6
  <2> QED BY <1>5, <1>6, <2>1
<1>7. CASE levels # {}
  <2>1. Graph!Own(v) \in levels /\ \A k \in levels : Graph!Own(v) <= k
    BY <1>3, <1>4, <1>7, LeastNat
  <2> QED BY <1>3, <1>5, <2>1
<1> QED BY <1>6, <1>7

(* A component's own level and the node that has it.                       *)
OwnState(C, id) ==
    /\ C.level \in 0..3 /\ C.source \in DOMAIN ws
    /\ sccOf[C.source] = id /\ Graph!Own(C.source) = C.level
    /\ \A v \in DOMAIN ws : sccOf[v] = id => C.level <= Graph!Own(v)

LEMMA ComponentHolds ==
    ASSUME CommitsTyped, WorkspaceTyped, Components, NEW id \in 0..(nextSCC - 1)
    PROVE  OwnState(Graph!Component(id), id)
<1>1. PICK members : members = {v \in DOMAIN ws : sccOf[v] = id}
  OBVIOUS
<1>2. PICK level : level = Graph!Least({Graph!Own(v) : v \in members})
  OBVIOUS
<1>3. PICK source : source = Graph!Least({v \in members : Graph!Own(v) = level})
  OBVIOUS
<1>4. Graph!Component(id) = [level |-> level, source |-> source]
  BY <1>1, <1>2, <1>3 DEF Graph!Component, Graph!Nodes
<1>5. \A v : Graph!Own(v) \in 0..3
  BY OwnHolds
<1>6. PICK owns : owns = {Graph!Own(v) : v \in members}
  OBVIOUS
<1>7. owns # {} /\ owns \in SUBSET Nat /\ owns \in SUBSET (0..3)
  <2>1. \E v \in members : TRUE
    BY <1>1 DEF Components
  <2>2. owns # {}
    BY <1>6, <2>1
  <2>3. owns \in SUBSET (0..3)
    BY <1>5, <1>6
  <2> QED BY <2>2, <2>3
<1>8. level \in owns /\ \A l \in owns : level <= l
  BY <1>2, <1>6, <1>7, LeastOf
<1>9. PICK holders : holders = {v \in members : Graph!Own(v) = level}
  OBVIOUS
<1>10. holders # {} /\ holders \in SUBSET Nat
  <2>1. holders # {}
    BY <1>6, <1>8, <1>9
  <2>2. DOMAIN ws \subseteq Nat
    BY WorkspaceAssumption DEF WorkspaceTyped
  <2> QED BY <1>1, <1>9, <2>1, <2>2
<1>11. source \in holders
  BY <1>3, <1>9, <1>10, LeastOf
<1>12. source \in DOMAIN ws /\ sccOf[source] = id /\ Graph!Own(source) = level
  BY <1>1, <1>9, <1>11
<1>13. \A v \in DOMAIN ws : sccOf[v] = id => level <= Graph!Own(v)
  BY <1>1, <1>6, <1>8
<1>14. level \in 0..3
  BY <1>7, <1>8
<1> QED BY <1>4, <1>12, <1>13, <1>14 DEF OwnState

(* The recursive functions of EffOf.                                       *)
NextBest(e, b, id, k) ==
    IF Graph!DependsOn(id, k) /\ Graph!Worse(e, b, Graph!Component(id).level) THEN e ELSE b
IsBest(b, eff, id) ==
    b = [k \in 0..id |-> IF k = 0 THEN Graph!Component(id)
                         ELSE IF Graph!DependsOn(id, k - 1) /\ Graph!Worse(eff[k - 1], b[k - 1], Graph!Component(id).level)
                         THEN eff[k - 1] ELSE b[k - 1]]
IsEff(eff, n) == eff = [id \in 0..(n - 1) |-> (CHOOSE b : IsBest(b, eff, id))[id]]

LEMMA BestSteps ==
    ASSUME NEW eff, NEW id \in Nat, NEW b
    PROVE  IsBest(b, eff, id) <=>
             /\ b = [k \in 0..id |-> b[k]]
             /\ b[0] = Graph!Component(id)
             /\ \A k \in 1..id : b[k] = NextBest(eff[k - 1], b[k - 1], id, k - 1)
<1>1. IsBest(b, eff, id) <=>
        b = [k \in 0..id |-> IF k = 0 THEN Graph!Component(id)
                             ELSE NextBest(eff[k - 1], b[k - 1], id, k - 1)]
  BY DEF IsBest, NextBest
<1>2. 0 \in 0..id /\ \A k \in 0..id : k # 0 <=> k \in 1..id
  OBVIOUS
<1> QED BY <1>1, <1>2

LEMMA BestExists ==
    ASSUME NEW eff, NEW id \in Nat
    PROVE  \E b : IsBest(b, eff, id)
<1> DEFINE Is(b, m) == /\ b = [k \in 0..m |-> b[k]]
                       /\ b[0] = Graph!Component(id)
                       /\ \A k \in 1..m : b[k] = NextBest(eff[k - 1], b[k - 1], id, k - 1)
           Bad == {m \in Nat : ~ \E b : Is(b, m)}
<1>1. Bad = {}
  <2> SUFFICES ASSUME Bad # {} PROVE FALSE
    OBVIOUS
  <2>1. PICK m \in Bad : \A l \in Bad : m <= l
    BY LeastNat
  <2>2. CASE m = 0
    <3>1. PICK b : b = [k \in 0..0 |-> Graph!Component(id)]
      OBVIOUS
    <3>2. b = [k \in 0..0 |-> b[k]] /\ b[0] = Graph!Component(id) /\ 1..0 = {}
      BY <3>1
    <3>3. Is(b, 0)
      BY <3>2
    <3> QED BY <2>1, <2>2, <3>3
  <2>3. CASE m # 0
    <3>1. m - 1 \in Nat /\ ~(m <= m - 1) /\ m \in Nat /\ m >= 1
      BY <2>1, <2>3
    <3>2. PICK b : Is(b, m - 1)
      BY <2>1, <3>1
    <3>3. PICK c : c = [k \in 0..m |-> IF k < m THEN b[k] ELSE NextBest(eff[m - 1], b[m - 1], id, m - 1)]
      OBVIOUS
    <3>4. \A k \in 0..(m - 1) : c[k] = b[k]
      BY <3>1, <3>3
    <3>5. c[m] = NextBest(eff[m - 1], b[m - 1], id, m - 1) /\ c = [k \in 0..m |-> c[k]]
      BY <3>1, <3>3
    <3>6. c[0] = Graph!Component(id)
      BY <3>1, <3>2, <3>4
    <3>7. ASSUME NEW k \in 1..m PROVE c[k] = NextBest(eff[k - 1], c[k - 1], id, k - 1)
      <4>1. CASE k = m
        <5>1. c[m - 1] = b[m - 1]
          BY <3>1, <3>4
        <5>2. c[m] = NextBest(eff[m - 1], c[m - 1], id, m - 1)
          BY <3>5, <5>1
        <5> QED BY ONLY <4>1, <5>2
      <4>2. CASE k # m
        <5>1. k \in 1..(m - 1) /\ k \in 0..(m - 1) /\ k - 1 \in 0..(m - 1)
          BY <3>1, <4>2
        <5> QED BY <3>2, <3>4, <5>1
      <4> QED BY <4>1, <4>2
    <3>8. Is(c, m)
      BY <3>5, <3>6, <3>7
    <3> QED BY <2>1, <3>8
  <2> QED BY <2>2, <2>3
<1>2. PICK b : Is(b, id)
  BY <1>1
<1> QED BY <1>2, BestSteps

LEMMA BestUnique ==
    ASSUME NEW eff, NEW eff2, NEW id \in Nat, NEW b, NEW c, IsBest(b, eff, id), IsBest(c, eff2, id),
           \A k \in 0..(id - 1) : eff[k] = eff2[k]
    PROVE  b[id] = c[id]
<1>1. /\ b[0] = c[0]
      /\ \A k \in 1..id : b[k] = NextBest(eff[k - 1], b[k - 1], id, k - 1)
      /\ \A k \in 1..id : c[k] = NextBest(eff2[k - 1], c[k - 1], id, k - 1)
  <2>1. /\ b[0] = Graph!Component(id)
        /\ \A k \in 1..id : b[k] = NextBest(eff[k - 1], b[k - 1], id, k - 1)
    BY BestSteps
  <2>2. /\ c[0] = Graph!Component(id)
        /\ \A k \in 1..id : c[k] = NextBest(eff2[k - 1], c[k - 1], id, k - 1)
    BY BestSteps
  <2> QED BY <2>1, <2>2
<1> DEFINE Bad == {k \in 0..id : b[k] # c[k]}
<1>2. Bad = {}
  <2> SUFFICES ASSUME Bad # {} PROVE FALSE
    OBVIOUS
  <2>1. PICK m \in Bad : \A l \in Bad : m <= l
    <3>1. Bad \in SUBSET Nat
      OBVIOUS
    <3> QED BY <3>1, LeastNat
  <2>2. m # 0 /\ m \in 1..id /\ m - 1 \in 0..id /\ m - 1 \in 0..(id - 1) /\ ~(m <= m - 1)
    BY <1>1, <2>1
  <2>3. b[m - 1] = c[m - 1]
    BY <2>1, <2>2
  <2>4. b[m] = c[m]
    BY <1>1, <2>2, <2>3
  <2> QED BY <2>1, <2>4
<1> QED BY <1>2

LEMMA BestChosen ==
    ASSUME NEW eff, NEW id \in Nat, NEW eff2, \A k \in 0..(id - 1) : eff[k] = eff2[k]
    PROVE  /\ IsBest(CHOOSE b : IsBest(b, eff, id), eff, id)
           /\ (CHOOSE b : IsBest(b, eff, id))[id] = (CHOOSE b : IsBest(b, eff2, id))[id]
<1>1. PICK b : b = CHOOSE b1 : IsBest(b1, eff, id)
  OBVIOUS
<1>2. PICK c : c = CHOOSE b2 : IsBest(b2, eff2, id)
  OBVIOUS
<1>3. IsBest(b, eff, id) /\ IsBest(c, eff2, id)
  BY <1>1, <1>2, BestExists
<1>4. b[id] = c[id]
  BY <1>3, BestUnique
<1> QED BY <1>1, <1>2, <1>3, <1>4

LEMMA EffExists ==
    ASSUME NEW n \in Nat
    PROVE  \E eff : IsEff(eff, n)
<1> DEFINE value(eff, id) == (CHOOSE b : IsBest(b, eff, id))[id]
           Is(eff, m) == eff = [id \in 0..(m - 1) |-> value(eff, id)]
           Bad == {m \in Nat : ~ \E eff : Is(eff, m)}
<1>1. \A id \in Nat : \A eff, eff2 : (\A k \in 0..(id - 1) : eff[k] = eff2[k]) => value(eff, id) = value(eff2, id)
  BY BestChosen
<1> HIDE DEF value
<1>2. Bad = {}
  <2> SUFFICES ASSUME Bad # {} PROVE FALSE
    OBVIOUS
  <2>1. PICK m \in Bad : \A l \in Bad : m <= l
    BY LeastNat
  <2>2. CASE m = 0
    <3>1. PICK eff : eff = [id \in {} |-> 0]
      OBVIOUS
    <3>2. 0..(0 - 1) = {}
      OBVIOUS
    <3>3. eff = [id \in 0..(0 - 1) |-> value(eff, id)]
      BY <3>1, <3>2
    <3> QED BY <2>1, <2>2, <3>3
  <2>3. CASE m # 0
    <3>1. m - 1 \in Nat /\ ~(m <= m - 1) /\ m \in Nat /\ m >= 1
      BY <2>1, <2>3
    <3>2. PICK eff : eff = [id \in 0..((m - 1) - 1) |-> value(eff, id)]
      BY <2>1, <3>1
    <3>3. PICK eff2 : eff2 = [id \in 0..(m - 1) |-> IF id < m - 1 THEN eff[id] ELSE value(eff, m - 1)]
      OBVIOUS
    <3>4. \A k \in 0..((m - 1) - 1) : eff2[k] = eff[k]
      BY <3>1, <3>3
    <3>5. \A id \in 0..(m - 1) : eff2[id] = value(eff2, id)
      <4> SUFFICES ASSUME NEW id \in 0..(m - 1) PROVE eff2[id] = value(eff2, id)
        OBVIOUS
      <4>1. id \in Nat /\ \A k \in 0..(id - 1) : k \in 0..((m - 1) - 1)
        BY <3>1
      <4>2. value(eff2, id) = value(eff, id)
        BY <1>1, <3>4, <4>1
      <4>3. eff2[id] = value(eff, id)
        <5>1. CASE id < m - 1
          <6>1. id \in 0..((m - 1) - 1)
            BY <3>1, <5>1
          <6> QED BY <3>2, <3>4, <6>1
        <5>2. CASE id = m - 1
          BY <3>1, <3>3, <5>2
        <5> QED BY <3>1, <5>1, <5>2
      <4> QED BY <4>2, <4>3
    <3>6. eff2 = [id \in 0..(m - 1) |-> eff2[id]]
      BY <3>3
    <3>7. eff2 = [id \in 0..(m - 1) |-> value(eff2, id)]
      BY <3>5, <3>6
    <3> QED BY <2>1, <3>7
  <2> QED BY <2>2, <2>3
<1>3. PICK eff : Is(eff, n)
  BY <1>2
<1> QED BY <1>3 DEF IsEff, value

LEMMA EffOfIs ==
    ASSUME nextSCC \in Nat
    PROVE  IsEff(Graph!EffOf, nextSCC)
<1>1. PICK eff : eff = CHOOSE e : IsEff(e, nextSCC)
  OBVIOUS
<1>2. IsEff(eff, nextSCC)
  BY <1>1, EffExists
<1>3. Graph!EffOf = eff
  BY <1>1 DEF Graph!EffOf, IsEff, IsBest
<1> QED BY <1>2, <1>3

(* The best so far is the component's own state or that of a dependency,   *)
(* and no worse than any of them looked at.                                *)
BestSoFar(b, eff, id, k) ==
    LET C == Graph!Component(id)
    IN  /\ b[k] = C \/ \E j \in 0..(k - 1) : Graph!DependsOn(id, j) /\ b[k] = eff[j]
        /\ b[k].level <= C.level
        /\ \A j \in 0..(k - 1) : Graph!DependsOn(id, j) => b[k].level <= eff[j].level

LEMMA BestHolds ==
    ASSUME NEW eff, NEW id \in Nat, NEW b, IsBest(b, eff, id),
           Graph!Component(id).level \in Nat,
           \A j \in 0..(id - 1) : Graph!DependsOn(id, j) => eff[j].level \in Nat
    PROVE  BestSoFar(b, eff, id, id)
<1> DEFINE C == Graph!Component(id)
           Bad == {k \in 0..id : ~BestSoFar(b, eff, id, k)}
<1>1. b[0] = C /\ \A k \in 1..id : b[k] = NextBest(eff[k - 1], b[k - 1], id, k - 1)
  BY BestSteps
<1>2. Bad = {}
  <2> SUFFICES ASSUME Bad # {} PROVE FALSE
    OBVIOUS
  <2>1. PICK m \in Bad : \A l \in Bad : m <= l
    <3>1. Bad \in SUBSET Nat
      OBVIOUS
    <3> QED BY <3>1, LeastNat
  <2>2. m \in 0..id /\ ~BestSoFar(b, eff, id, m)
    OBVIOUS
  <2>3. CASE m = 0
    <3>1. C.level <= C.level
      OBVIOUS
    <3>2. 0..(0 - 1) = {}
      OBVIOUS
    <3>3. BestSoFar(b, eff, id, 0)
      BY <1>1, <3>1, <3>2 DEF BestSoFar
    <3> QED BY <2>2, <2>3, <3>3
  <2>4. CASE m # 0
    <3>1. m \in 1..id /\ m - 1 \in 0..id /\ m - 1 \in 0..(id - 1) /\ ~(m <= m - 1) /\ m - 1 \in Nat
      BY <2>2, <2>4
    <3>2. BestSoFar(b, eff, id, m - 1)
      BY <2>1, <3>1
    <3>3. PICK x, y, d : x = b[m - 1] /\ y = b[m] /\ d = eff[m - 1]
      OBVIOUS
    <3>4. y = NextBest(d, x, id, m - 1)
      BY <1>1, <3>1, <3>3
    <3>5. /\ x = C \/ \E j \in 0..((m - 1) - 1) : Graph!DependsOn(id, j) /\ x = eff[j]
          /\ x.level <= C.level
          /\ \A j \in 0..((m - 1) - 1) : Graph!DependsOn(id, j) => x.level <= eff[j].level
      BY <3>2, <3>3 DEF BestSoFar
    <3>6. \A j \in 0..((m - 1) - 1) : j \in 0..(m - 1) /\ j \in 0..(id - 1)
      BY <3>1
    <3>7. x.level \in Nat
      BY <3>5, <3>6
    <3>8. \A j \in 0..(m - 1) : j = m - 1 \/ j \in 0..((m - 1) - 1)
      BY <3>1
    <3>9. CASE Graph!DependsOn(id, m - 1) /\ Graph!Worse(d, x, C.level)
      <4>1. y = d /\ d.level \in Nat
        BY <3>1, <3>3, <3>4, <3>9 DEF NextBest
      <4>2. d.level <= x.level
        BY <3>7, <3>9, <4>1 DEF Graph!Worse
      <4>3. y.level <= C.level
        BY <3>5, <3>7, <4>1, <4>2
      <4>4. \E j \in 0..(m - 1) : Graph!DependsOn(id, j) /\ y = eff[j]
        <5>1. m - 1 \in 0..(m - 1)
          BY <3>1
        <5> QED BY <3>3, <3>9, <4>1, <5>1
      <4>5. ASSUME NEW j \in 0..(m - 1), Graph!DependsOn(id, j) PROVE y.level <= eff[j].level
        <5>1. CASE j = m - 1
          BY <3>3, <4>1, <5>1
        <5>2. CASE j \in 0..((m - 1) - 1)
          <6>1. x.level <= eff[j].level /\ eff[j].level \in Nat
            BY <3>5, <3>6, <4>5, <5>2
          <6> QED BY <3>7, <4>1, <4>2, <6>1
        <5> QED BY <3>8, <5>1, <5>2
      <4> QED BY <2>2, <3>3, <4>3, <4>4, <4>5 DEF BestSoFar
    <3>10. CASE ~(Graph!DependsOn(id, m - 1) /\ Graph!Worse(d, x, C.level))
      <4>1. y = x
        BY <3>4, <3>10 DEF NextBest
      <4>2. y = C \/ \E j \in 0..(m - 1) : Graph!DependsOn(id, j) /\ y = eff[j]
        BY <3>5, <3>6, <4>1
      <4>3. ASSUME NEW j \in 0..(m - 1), Graph!DependsOn(id, j) PROVE y.level <= eff[j].level
        <5>1. CASE j = m - 1
          <6>1. d.level \in Nat /\ d = eff[j] /\ ~Graph!Worse(d, x, C.level)
            BY <3>1, <3>3, <3>10, <4>3, <5>1
          <6>2. ~(d.level < x.level)
            BY <6>1 DEF Graph!Worse
          <6> QED BY <3>7, <4>1, <6>1, <6>2
        <5>2. CASE j \in 0..((m - 1) - 1)
          BY <3>5, <4>1, <4>3, <5>2
        <5> QED BY <3>8, <5>1, <5>2
      <4>4. y.level <= C.level
        BY <3>5, <4>1
      <4> QED BY <2>2, <3>3, <4>2, <4>3, <4>4 DEF BestSoFar
    <3> QED BY <3>9, <3>10
  <2> QED BY <2>3, <2>4
<1>3. id \in 0..id
  OBVIOUS
<1> QED BY <1>2, <1>3

(* What a component's result is: the level of a node it depends on, and no *)
(* higher than those of its nodes and of what it depends on.               *)
Earned(E, id) ==
    /\ E.level \in 0..3 /\ E.source \in DOMAIN ws /\ Graph!Own(E.source) = E.level
    /\ \A v \in DOMAIN ws : sccOf[v] = id => E.source \in From(edges, v) /\ E.level <= Graph!Own(v)

LEMMA ResultsEarned ==
    ASSUME CommitsTyped, WorkspaceTyped, Walking, Components, NEW eff, IsEff(eff, nextSCC)
    PROVE  \A id \in 0..(nextSCC - 1) :
             /\ Earned(eff[id], id)
             /\ \A j \in 0..(id - 1) : Graph!DependsOn(id, j) => eff[id].level <= eff[j].level
<1> DEFINE Right(id) ==
             /\ Earned(eff[id], id)
             /\ \A j \in 0..(id - 1) : Graph!DependsOn(id, j) => eff[id].level <= eff[j].level
           Bad == {id \in 0..(nextSCC - 1) : ~Right(id)}
<1>1. SUFFICES ASSUME Bad # {} PROVE FALSE
  OBVIOUS
<1>2. PICK id \in Bad : \A j \in Bad : id <= j
  <2>1. Bad \in SUBSET Nat
    OBVIOUS
  <2> QED BY <1>1, <2>1, LeastNat
<1>3. id \in 0..(nextSCC - 1) /\ id \in Nat /\ nextSCC \in Nat /\ ~Right(id)
  BY DEF Components
<1>4. \A j \in 0..(id - 1) : j \in 0..(nextSCC - 1) /\ j \in Nat /\ Right(j)
  <2> SUFFICES ASSUME NEW j \in 0..(id - 1) PROVE j \in 0..(nextSCC - 1) /\ j \in Nat /\ Right(j)
    OBVIOUS
  <2>1. j \in 0..(nextSCC - 1) /\ j \in Nat /\ ~(id <= j)
    BY <1>3
  <2> HIDE DEF Right
  <2> QED BY <1>2, <2>1
<1> HIDE DEF Bad
<1>5. PICK C : C = Graph!Component(id) /\ OwnState(C, id)
  BY <1>3, ComponentHolds
<1>6. PICK b : IsBest(b, eff, id) /\ eff[id] = b[id]
  <2>1. eff[id] = (CHOOSE b : IsBest(b, eff, id))[id]
    BY <1>3 DEF IsEff
  <2>2. PICK b : b = CHOOSE c : IsBest(c, eff, id)
    OBVIOUS
  <2>3. IsBest(b, eff, id)
    BY <1>3, <2>2, BestExists
  <2> QED BY <2>1, <2>2, <2>3
<1>7. /\ \A j \in 0..(id - 1) : eff[j].level \in Nat
      /\ C.level \in Nat
  BY <1>4, <1>5 DEF Earned, OwnState
<1>8. BestSoFar(b, eff, id, id)
  BY <1>3, <1>5, <1>6, <1>7, BestHolds
<1>9. PICK E : E = eff[id]
  OBVIOUS
<1>10. /\ E = C \/ \E j \in 0..(id - 1) : Graph!DependsOn(id, j) /\ E = eff[j]
       /\ E.level <= C.level
       /\ \A j \in 0..(id - 1) : Graph!DependsOn(id, j) => E.level <= eff[j].level
  BY <1>5, <1>6, <1>8, <1>9 DEF BestSoFar
<1>11. \A v \in DOMAIN ws : v \in Nat
  BY WorkspaceAssumption DEF WorkspaceTyped
<1>12. E.level \in 0..3 /\ E.source \in DOMAIN ws /\ Graph!Own(E.source) = E.level
       /\ \A v \in DOMAIN ws : sccOf[v] = id => E.source \in From(edges, v)
  <2>1. CASE E = C
    <3>1. \A v \in DOMAIN ws : sccOf[v] = id => C.source \in From(edges, v)
      BY <1>5 DEF OwnState, Components
    <3> QED BY <1>5, <2>1, <3>1 DEF OwnState
  <2>2. ASSUME NEW j \in 0..(id - 1), Graph!DependsOn(id, j), E = eff[j]
        PROVE  E.level \in 0..3 /\ E.source \in DOMAIN ws /\ Graph!Own(E.source) = E.level
               /\ \A v \in DOMAIN ws : sccOf[v] = id => E.source \in From(edges, v)
    <3>1. Earned(E, j)
      BY <1>4, <2>2
    <3>2. PICK e \in edges : sccOf[e[1]] = id /\ sccOf[e[2]] = j
      BY <2>2 DEF Graph!DependsOn
    <3>3. e[1] \in DOMAIN ws /\ e[2] \in DOMAIN ws
      BY DEF Walking
    <3>4. E.source \in From(edges, e[2])
      BY <3>1, <3>2, <3>3 DEF Earned
    <3>5. e[2] \in From(edges, e[1])
      BY <1>11, <3>3, FromEdge
    <3>6. ASSUME NEW v \in DOMAIN ws, sccOf[v] = id PROVE E.source \in From(edges, v)
      <4>1. e[1] \in From(edges, v)
        BY <3>2, <3>3, <3>6 DEF Components
      <4>2. e[2] \in From(edges, v)
        BY <3>5, <4>1, FromFurther
      <4> QED BY <3>4, <4>2, FromFurther
    <3> QED BY <3>1, <3>6 DEF Earned
  <2> QED BY <1>10, <2>1, <2>2
<1>13. \A v \in DOMAIN ws : sccOf[v] = id => E.level <= Graph!Own(v)
  <2> SUFFICES ASSUME NEW v \in DOMAIN ws, sccOf[v] = id PROVE E.level <= Graph!Own(v)
    OBVIOUS
  <2>1. C.level <= Graph!Own(v) /\ Graph!Own(v) \in 0..3
    BY <1>5, OwnHolds DEF OwnState
  <2> QED BY <1>7, <1>10, <1>12, <2>1
<1>14. Right(id)
  BY <1>9, <1>10, <1>12, <1>13 DEF Earned
<1> HIDE DEF Right
<1> QED BY <1>3, <1>14

(* The result of a node is the least level of all it depends on, and its   *)
(* source has it.                                                          *)
LeastOfAll(e, v) ==
    /\ e.level \in 0..3 /\ \A w \in From(edges, v) : w \in DOMAIN ws /\ e.level <= Graph!Own(w)
    /\ e.source \in From(edges, v) /\ Graph!Own(e.source) = e.level
    /\ Graph!Own(v) = e.level => e.source = v

LEMMA EffectiveIsLeast ==
    ASSUME CommitsTyped, WorkspaceTyped, Walking, Components, NEW v \in DOMAIN ws
    PROVE  LeastOfAll(Graph!Effective[v], v)
<1>1. PICK eff : eff = Graph!EffOf
  OBVIOUS
<1>2. \A id \in 0..(nextSCC - 1) :
        /\ Earned(eff[id], id)
        /\ \A j \in 0..(id - 1) : Graph!DependsOn(id, j) => eff[id].level <= eff[j].level
  <2>1. IsEff(eff, nextSCC)
    BY <1>1, EffOfIs DEF Components
  <2> QED BY <2>1, ResultsEarned
<1>3. PICK e : e = eff[sccOf[v]]
  OBVIOUS
<1>4. Graph!Effective[v] = [level |-> e.level, source |-> IF Graph!Own(v) = e.level THEN v ELSE e.source]
  BY <1>1, <1>3 DEF Graph!Effective, Graph!Nodes
<1>5. \A u \in DOMAIN ws : sccOf[u] \in 0..(nextSCC - 1) /\ sccOf[u] \in Nat /\ u \in Nat
  <2>1. \A u \in DOMAIN ws : u \in Nat
    BY WorkspaceAssumption DEF WorkspaceTyped
  <2>2. \A u \in DOMAIN ws : sccOf[u] \in 0..(nextSCC - 1)
    BY DEF Components
  <2>3. nextSCC \in Nat
    BY DEF Components
  <2>4. \A i \in 0..(nextSCC - 1) : i \in Nat
    BY <2>3
  <2> QED BY <2>1, <2>2, <2>4
<1>6. Earned(e, sccOf[v])
  BY <1>2, <1>3, <1>5
<1>7. PICK S : S = {u \in DOMAIN ws : e.level <= eff[sccOf[u]].level}
  OBVIOUS
<1>8. \A u \in DOMAIN ws : eff[sccOf[u]].level \in 0..3
  BY <1>2, <1>5 DEF Earned
<1>9. v \in S /\ S \in SUBSET Nat
  BY <1>3, <1>5, <1>7, <1>8
<1>10. ClosedUnder(edges, S)
  <2> SUFFICES ASSUME NEW x \in edges, x[1] \in S PROVE x[2] \in S
    BY DEF ClosedUnder
  <2>1. x[1] \in DOMAIN ws /\ x[2] \in DOMAIN ws
    BY DEF Walking
  <2>2. PICK i, j : i = sccOf[x[1]] /\ j = sccOf[x[2]]
    OBVIOUS
  <2>3. i \in 0..(nextSCC - 1) /\ j \in Nat /\ i \in Nat /\ j <= i
    BY <1>5, <2>1, <2>2 DEF Components
  <2>4. e.level <= eff[i].level /\ e.level \in 0..3 /\ eff[i].level \in 0..3 /\ eff[j].level \in 0..3
    BY <1>6, <1>7, <1>8, <2>1, <2>2 DEF Earned
  <2>5. CASE i = j
    BY <1>7, <2>1, <2>2, <2>4, <2>5
  <2>6. CASE i # j
    <3>1. Graph!DependsOn(i, j)
      BY <2>2, <2>6 DEF Graph!DependsOn
    <3>2. j \in 0..(i - 1)
      BY <2>3, <2>6
    <3>3. eff[i].level <= eff[j].level
      BY <1>2, <2>3, <3>1, <3>2
    <3>4. e.level <= eff[j].level
      BY <2>4, <3>3
    <3> QED BY <1>7, <2>1, <2>2, <3>4
  <2> QED BY <2>5, <2>6
<1>11. ASSUME NEW w \in From(edges, v) PROVE w \in DOMAIN ws /\ e.level <= Graph!Own(w)
  <2>1. w \in S
    BY <1>9, <1>10, FromWithin
  <2>2. w \in DOMAIN ws /\ e.level <= eff[sccOf[w]].level
    BY <1>7, <2>1
  <2>3. eff[sccOf[w]].level <= Graph!Own(w)
    BY <1>2, <1>5, <2>2 DEF Earned
  <2>4. e.level \in 0..3 /\ eff[sccOf[w]].level \in 0..3 /\ Graph!Own(w) \in 0..3
    BY <1>6, <1>8, <2>2, OwnHolds DEF Earned
  <2> QED BY <2>2, <2>3, <2>4
<1>12. e.source \in From(edges, v) /\ Graph!Own(e.source) = e.level /\ e.level \in 0..3
  BY <1>6 DEF Earned
<1>13. v \in From(edges, v)
  BY <1>5, FromItself
<1>14. PICK r : r = Graph!Effective[v]
  OBVIOUS
<1>15. r.level = e.level /\ r.source = IF Graph!Own(v) = e.level THEN v ELSE e.source
  BY <1>4, <1>14
<1>16. LeastOfAll(r, v)
  BY <1>11, <1>12, <1>13, <1>15 DEF LeastOfAll
<1> QED BY <1>14, <1>16

(* The levels reported launder nothing and have a source.                  *)
LEMMA LevelsHold ==
    ASSUME AggregationInv, Matched(ws), Propagated
    PROVE  Graph!NoLaundering /\ Graph!SourceHolds
<1>1. CommitsTyped /\ WorkspaceTyped /\ Walking /\ edges = Edges(ws) /\ Graph!Done
  BY DEF AggregationInv
<1>2. Components
  BY <1>1, DoneComponents
<1>3. BuiltByEdges /\ edges \subseteq (DOMAIN ws) \X (DOMAIN ws)
  BY <1>1, MatchedBuilt, EdgesBetween
<1>4. \A v \in DOMAIN ws : Graph!ReachFrom(v) = From(edges, v) /\ LeastOfAll(Graph!Effective[v], v)
  BY <1>1, <1>2, <1>3, ReachIsFrom, EffectiveIsLeast
<1>5. PICK result : result = Graph!Effective
  OBVIOUS
<1>6. ASSUME NEW v \in DOMAIN ws
      PROVE  /\ \A w \in Graph!ReachFrom(v), c \in DirCommits :
                  Graph!CommitUnderDir(c, w) => result[v].level <= c.level
             /\ result[v].level = 3 \/ \E w \in Graph!ReachFrom(v), c \in DirCommits :
                  Graph!CommitUnderDir(c, w) /\ c.level = result[v].level
             /\ result[v].source \in Graph!ReachFrom(v)
             /\ Graph!Own(result[v].source) = result[v].level
             /\ Graph!Own(v) = result[v].level => result[v].source = v
  <2>1. PICK r : r = result[v]
    OBVIOUS
  <2>2. /\ r.level \in 0..3 /\ \A w \in From(edges, v) : r.level <= Graph!Own(w)
        /\ r.source \in From(edges, v) /\ Graph!Own(r.source) = r.level
        /\ Graph!Own(v) = r.level => r.source = v
    BY <1>4, <1>5, <2>1 DEF LeastOfAll
  <2>3. ASSUME NEW w \in From(edges, v), NEW c \in DirCommits, Graph!CommitUnderDir(c, w)
        PROVE  r.level <= c.level
    <3>1. Graph!Own(w) \in 0..3 /\ Graph!Own(w) <= c.level
      BY <1>1, <2>3, OwnHolds
    <3>2. c.level \in 0..3
      <4>1. PICK i \in DOMAIN commits : c.level = commits[i].level
        BY DEF DirCommits
      <4>2. commits[i] \in CommitFields
        BY <1>1 DEF CommitsTyped
      <4> QED BY <4>1, <4>2 DEF CommitFields, Levels
    <3>3. r.level <= Graph!Own(w)
      BY <2>2
    <3> QED BY <2>2, <3>1, <3>2, <3>3
  <2>4. r.level = 3 \/ \E w \in From(edges, v), c \in DirCommits :
                          Graph!CommitUnderDir(c, w) /\ c.level = r.level
    BY <1>1, <2>2, OwnHolds
  <2>5. Graph!ReachFrom(v) = From(edges, v)
    BY <1>4
  <2> QED BY <2>1, <2>2, <2>3, <2>4, <2>5
<1>7. Graph!NoLaundering
  BY <1>5, <1>6 DEF Graph!NoLaundering, Graph!Nodes
<1>8. Graph!SourceHolds
  BY <1>5, <1>6 DEF Graph!SourceHolds, Graph!Nodes
<1> QED BY <1>7, <1>8

(* Under the same condition no level reported launders a commit's, however *)
(* far down the graph, and each names a module it comes from (Propagate).  *)
THEOREM LevelsTrusted == ASSUME ReplacesMatch PROVE Spec => []LevelsRight
<1>1. AggregationInv /\ Matched(ws) => LevelsRight
  BY LevelsHold DEF LevelsRight
<1> QED BY <1>1, AggregationSteps, MatchedAlways, PTL

(* ---- What a glob matches. ---- *)

(* The recursive functions of Matches and Texts.                           *)
Further(glob, path, ends, i) ==
    UNION {{k \in j..Len(path) : Covers(glob[i], path, j, k)} : j \in ends}
IsEnds(f, glob, path) ==
    f = [i \in 0..Len(glob) |-> IF i = 0 THEN {0} ELSE Further(glob, path, f[i - 1], i)]

Pieces == UNION {{path[i] : i \in DOMAIN path} : path \in Paths}
Upto(S, k) == UNION {[1..l -> S] : l \in 0..k}
(* The texts of a part of a pattern, and texts made longer by one part.    *)
Part(g, n) == CASE g = "*" -> Upto(Pieces \ {"/"}, n)
                [] g = "**" -> Upto(Pieces, n)
                [] g = "?" -> {<<p>> : p \in Pieces \ {"/"}}
                [] OTHER -> {<<g>>}
Lengthened(glob, n, texts, i) == {s \o t : s \in texts, t \in Part(glob[i], n)}
IsRows(f, glob, n) ==
    f = [i \in 0..Len(glob) |-> IF i = 0 THEN {<<>>} ELSE Lengthened(glob, n, f[i - 1], i)]

LEMMA EndsExists ==
    ASSUME NEW glob, Len(glob) \in Nat, NEW path
    PROVE  \E f : IsEnds(f, glob, path)
<1> DEFINE value(f, i) == IF i = 0 THEN {0} ELSE Further(glob, path, f[i - 1], i)
           Is(f, m) == f = [i \in 0..m |-> value(f, i)]
           Bad == {m \in Nat : ~ \E f : Is(f, m)}
<1>1. \A f, f2 : \A i \in Nat : (i > 0 => f[i - 1] = f2[i - 1]) => value(f, i) = value(f2, i)
  OBVIOUS
<1> HIDE DEF value
<1>2. Bad = {}
  <2> SUFFICES ASSUME Bad # {} PROVE FALSE
    OBVIOUS
  <2>1. PICK m \in Bad : \A l \in Bad : m <= l
    BY LeastNat
  <2>2. CASE m = 0
    <3>1. PICK f : f = [i \in 0..0 |-> value(<<>>, 0)]
      OBVIOUS
    <3>2. value(f, 0) = value(<<>>, 0)
      BY <1>1
    <3>3. \A i \in 0..0 : i = 0
      OBVIOUS
    <3>4. f = [i \in 0..0 |-> value(f, i)]
      BY <3>1, <3>2, <3>3
    <3> QED BY <2>1, <2>2, <3>4
  <2>3. CASE m # 0
    <3>1. m - 1 \in Nat /\ ~(m <= m - 1) /\ m \in Nat /\ m >= 1
      BY <2>1, <2>3
    <3>2. PICK f : f = [i \in 0..(m - 1) |-> value(f, i)]
      BY <2>1, <3>1
    <3>3. PICK f2 : f2 = [i \in 0..m |-> IF i < m THEN f[i] ELSE value(f, m)]
      OBVIOUS
    <3>4. \A i \in 0..(m - 1) : f2[i] = f[i]
      BY <3>1, <3>3
    <3>5. ASSUME NEW i \in 0..m PROVE f2[i] = value(f2, i)
      <4>1. i \in Nat /\ (i > 0 => i - 1 \in 0..(m - 1))
        BY <3>1
      <4>2. value(f2, i) = value(f, i)
        BY <1>1, <3>4, <4>1
      <4>3. CASE i < m
        <5>1. i \in 0..(m - 1)
          BY <3>1, <4>3
        <5> QED BY <3>2, <3>4, <4>2, <5>1
      <4>4. CASE i = m
        BY <3>1, <3>3, <4>2, <4>4
      <4> QED BY <3>1, <4>3, <4>4
    <3>6. f2 = [i \in 0..m |-> f2[i]]
      BY <3>3
    <3>7. f2 = [i \in 0..m |-> value(f2, i)]
      BY <3>5, <3>6
    <3> QED BY <2>1, <3>7
  <2> QED BY <2>2, <2>3
<1>3. PICK f : Is(f, Len(glob))
  BY <1>2
<1> QED BY <1>3 DEF value, IsEnds

LEMMA RowsExists ==
    ASSUME NEW glob, Len(glob) \in Nat, NEW n
    PROVE  \E f : IsRows(f, glob, n)
<1> DEFINE value(f, i) == IF i = 0 THEN {<<>>} ELSE Lengthened(glob, n, f[i - 1], i)
           Is(f, m) == f = [i \in 0..m |-> value(f, i)]
           Bad == {m \in Nat : ~ \E f : Is(f, m)}
<1>1. \A f, f2 : \A i \in Nat : (i > 0 => f[i - 1] = f2[i - 1]) => value(f, i) = value(f2, i)
  OBVIOUS
<1> HIDE DEF value
<1>2. Bad = {}
  <2> SUFFICES ASSUME Bad # {} PROVE FALSE
    OBVIOUS
  <2>1. PICK m \in Bad : \A l \in Bad : m <= l
    BY LeastNat
  <2>2. CASE m = 0
    <3>1. PICK f : f = [i \in 0..0 |-> value(<<>>, 0)]
      OBVIOUS
    <3>2. value(f, 0) = value(<<>>, 0)
      BY <1>1
    <3>3. \A i \in 0..0 : i = 0
      OBVIOUS
    <3>4. f = [i \in 0..0 |-> value(f, i)]
      BY <3>1, <3>2, <3>3
    <3> QED BY <2>1, <2>2, <3>4
  <2>3. CASE m # 0
    <3>1. m - 1 \in Nat /\ ~(m <= m - 1) /\ m \in Nat /\ m >= 1
      BY <2>1, <2>3
    <3>2. PICK f : f = [i \in 0..(m - 1) |-> value(f, i)]
      BY <2>1, <3>1
    <3>3. PICK f2 : f2 = [i \in 0..m |-> IF i < m THEN f[i] ELSE value(f, m)]
      OBVIOUS
    <3>4. \A i \in 0..(m - 1) : f2[i] = f[i]
      BY <3>1, <3>3
    <3>5. ASSUME NEW i \in 0..m PROVE f2[i] = value(f2, i)
      <4>1. i \in Nat /\ (i > 0 => i - 1 \in 0..(m - 1))
        BY <3>1
      <4>2. value(f2, i) = value(f, i)
        BY <1>1, <3>4, <4>1
      <4>3. CASE i < m
        <5>1. i \in 0..(m - 1)
          BY <3>1, <4>3
        <5> QED BY <3>2, <3>4, <4>2, <5>1
      <4>4. CASE i = m
        BY <3>1, <3>3, <4>2, <4>4
      <4> QED BY <3>1, <4>3, <4>4
    <3>6. f2 = [i \in 0..m |-> f2[i]]
      BY <3>3
    <3>7. f2 = [i \in 0..m |-> value(f2, i)]
      BY <3>5, <3>6
    <3> QED BY <2>1, <3>7
  <2> QED BY <2>2, <2>3
<1>3. PICK f : Is(f, Len(glob))
  BY <1>2
<1> QED BY <1>3 DEF value, IsRows

LEMMA MatchesIs ==
    ASSUME NEW glob, Len(glob) \in Nat, NEW path
    PROVE  \E f : IsEnds(f, glob, path) /\ (Matches(glob, path) <=> Len(path) \in f[Len(glob)])
<1>1. PICK f : f = CHOOSE e : IsEnds(e, glob, path)
  OBVIOUS
<1>2. IsEnds(f, glob, path)
  BY <1>1, EndsExists
<1>3. Matches(glob, path) <=> Len(path) \in f[Len(glob)]
  BY <1>1 DEF Matches, IsEnds, Further
<1> QED BY <1>2, <1>3

LEMMA TextsIs ==
    ASSUME NEW glob, Len(glob) \in Nat, NEW n
    PROVE  \E f : IsRows(f, glob, n) /\ Texts(glob, n) = f[Len(glob)]
<1>1. PICK f : f = CHOOSE e : IsRows(e, glob, n)
  OBVIOUS
<1>2. IsRows(f, glob, n)
  BY <1>1, RowsExists
<1>3. Texts(glob, n) = f[Len(glob)]
  BY <1>1 DEF Texts, IsRows, Lengthened, Part, Upto, Pieces
<1> QED BY <1>2, <1>3

(* A text split in two.                                                    *)
Splits(path, k, s, t) ==
    Len(s) <= k /\ s = SubSeq(path, 1, Len(s)) /\ t = SubSeq(path, Len(s) + 1, k)

LEMMA SplitText ==
    ASSUME NEW path \in Seq(STRING), NEW k \in 0..Len(path), NEW s \in Seq(STRING), NEW t \in Seq(STRING)
    PROVE  s \o t = SubSeq(path, 1, k) <=> Splits(path, k, s, t)
<1>1. Len(path) \in Nat /\ Len(s) \in Nat /\ Len(t) \in Nat /\ k \in Nat /\ k <= Len(path)
  OBVIOUS
<1>2. PICK whole : whole = SubSeq(path, 1, k)
  OBVIOUS
<1>3. whole \in Seq(STRING) /\ Len(whole) = k /\ \A x \in 1..k : whole[x] = path[x]
  BY <1>1, <1>2
<1>4. PICK st : st = s \o t
  OBVIOUS
<1>5. /\ st \in Seq(STRING) /\ Len(st) = Len(s) + Len(t)
      /\ \A x \in 1..(Len(s) + Len(t)) : st[x] = IF x <= Len(s) THEN s[x] ELSE t[x - Len(s)]
  BY <1>1, <1>4
<1>6. ASSUME st = whole
      PROVE  Len(s) <= k /\ s = SubSeq(path, 1, Len(s)) /\ t = SubSeq(path, Len(s) + 1, k)
  <2>1. Len(s) + Len(t) = k /\ Len(s) <= k
    BY <1>1, <1>3, <1>5, <1>6
  <2>2. PICK s2, t2 : s2 = SubSeq(path, 1, Len(s)) /\ t2 = SubSeq(path, Len(s) + 1, k)
    OBVIOUS
  <2>3. /\ s2 \in Seq(STRING) /\ Len(s2) = Len(s) /\ \A x \in 1..Len(s) : s2[x] = path[x]
    BY <1>1, <2>1, <2>2
  <2>4. /\ t2 \in Seq(STRING) /\ Len(t2) = Len(t) /\ \A x \in 1..Len(t) : t2[x] = path[Len(s) + x]
    BY <1>1, <2>1, <2>2
  <2>5. \A x \in 1..Len(s) : s[x] = s2[x]
    <3> SUFFICES ASSUME NEW x \in 1..Len(s) PROVE s[x] = s2[x]
      OBVIOUS
    <3>1. x \in 1..(Len(s) + Len(t)) /\ x \in 1..k
      BY <1>1, <2>1
    <3>2. st[x] = s[x] /\ whole[x] = path[x]
      BY <1>3, <1>5, <3>1
    <3> QED BY <1>6, <2>3, <3>2
  <2>6. \A x \in 1..Len(t) : t[x] = t2[x]
    <3> SUFFICES ASSUME NEW x \in 1..Len(t) PROVE t[x] = t2[x]
      OBVIOUS
    <3>1. Len(s) + x \in 1..(Len(s) + Len(t)) /\ Len(s) + x \in 1..k /\ ~(Len(s) + x <= Len(s))
          /\ (Len(s) + x) - Len(s) = x
      BY <1>1, <2>1
    <3>2. st[Len(s) + x] = t[x] /\ whole[Len(s) + x] = path[Len(s) + x]
      BY <1>3, <1>5, <3>1
    <3> QED BY <1>6, <2>4, <3>2
  <2>7. s = s2
    BY <2>3, <2>5, SeqEqual
  <2>8. t = t2
    BY <2>4, <2>6, SeqEqual
  <2> QED BY <2>1, <2>2, <2>7, <2>8
<1>7. ASSUME Len(s) <= k, s = SubSeq(path, 1, Len(s)), t = SubSeq(path, Len(s) + 1, k)
      PROVE  st = whole
  <2>1. Len(t) = k - Len(s) /\ \A x \in 1..Len(t) : t[x] = path[Len(s) + x]
    BY <1>1, <1>7
  <2>2. \A x \in 1..Len(s) : s[x] = path[x]
    BY <1>1, <1>7
  <2>3. Len(st) = Len(whole)
    BY <1>1, <1>3, <1>5, <2>1
  <2>4. \A x \in 1..Len(st) : st[x] = whole[x]
    <3> SUFFICES ASSUME NEW x \in 1..Len(st) PROVE st[x] = whole[x]
      OBVIOUS
    <3>1. x \in 1..(Len(s) + Len(t)) /\ x \in 1..k
      BY <1>3, <1>5, <2>3
    <3>2. CASE x <= Len(s)
      <4>1. x \in 1..Len(s)
        BY <1>1, <3>1, <3>2
      <4> QED BY <1>3, <1>5, <2>2, <3>1, <3>2, <4>1
    <3>3. CASE ~(x <= Len(s))
      <4>1. x - Len(s) \in 1..Len(t) /\ Len(s) + (x - Len(s)) = x
        BY <1>1, <3>1, <3>3
      <4>2. t[x - Len(s)] = path[x]
        BY <2>1, <4>1
      <4> QED BY <1>3, <1>5, <3>1, <3>3, <4>2
    <3> QED BY <3>2, <3>3
  <2> QED BY <1>3, <1>5, <2>3, <2>4, SeqEqual
<1> QED BY <1>2, <1>4, <1>6, <1>7 DEF Splits

LEMMA PieceTypes ==
    /\ Pieces \subseteq STRING
    /\ \A path \in Paths : \A x \in 1..Len(path) : path[x] \in Pieces
<1>1. \A path \in Paths : path \in Seq(STRING)
  BY ScopesAssumption
<1>2. ASSUME NEW path \in Paths, NEW x \in 1..Len(path) PROVE path[x] \in Pieces /\ path[x] \in STRING
  <2>1. path \in Seq(STRING) /\ x \in DOMAIN path
    BY <1>1
  <2> QED BY <2>1 DEF Pieces
<1>3. Pieces \subseteq STRING
  <2> SUFFICES ASSUME NEW p \in Pieces PROVE p \in STRING
    OBVIOUS
  <2>1. PICK path \in Paths : \E x \in DOMAIN path : p = path[x]
    BY DEF Pieces
  <2>2. DOMAIN path = 1..Len(path)
    BY <1>1
  <2> QED BY <1>2, <2>1, <2>2
<1> QED BY <1>2, <1>3

LEMMA UptoTexts ==
    ASSUME NEW S, S \subseteq STRING, NEW n \in Nat, NEW t
    PROVE  t \in Upto(S, n) <=> t \in Seq(S) /\ Len(t) <= n
<1>1. ASSUME t \in Upto(S, n) PROVE t \in Seq(S) /\ Len(t) <= n
  <2>1. PICK l \in 0..n : t \in [1..l -> S]
    BY <1>1 DEF Upto
  <2>2. l \in Nat /\ l <= n
    OBVIOUS
  <2> QED BY <2>1, <2>2
<1>2. ASSUME t \in Seq(S), Len(t) <= n PROVE t \in Upto(S, n)
  <2>1. Len(t) \in 0..n /\ t \in [1..Len(t) -> S]
    BY <1>2
  <2> QED BY <2>1 DEF Upto
<1> QED BY <1>1, <1>2

LEMMA PartIs ==
    ASSUME NEW g, NEW n
    PROVE  /\ g = "*" => Part(g, n) = Upto(Pieces \ {"/"}, n)
           /\ g = "**" => Part(g, n) = Upto(Pieces, n)
           /\ g = "?" => Part(g, n) = {<<p>> : p \in Pieces \ {"/"}}
           /\ g \notin {"*", "**", "?"} => Part(g, n) = {<<g>>}
<1>1. g = "*" => Part(g, n) = Upto(Pieces \ {"/"}, n)
  BY ZenonT(30) DEF Part
<1>2. g = "**" => Part(g, n) = Upto(Pieces, n)
  <2>1. "**" # "*" /\ "**" # "?"
    OBVIOUS
  <2> QED BY <2>1, ZenonT(30) DEF Part
<1>3. g = "?" => Part(g, n) = {<<p>> : p \in Pieces \ {"/"}}
  <2>1. "?" # "*" /\ "?" # "**"
    OBVIOUS
  <2> QED BY <2>1, ZenonT(30) DEF Part
<1>4. g \notin {"*", "**", "?"} => Part(g, n) = {<<g>>}
  BY ZenonT(30) DEF Part
<1> QED BY ONLY <1>1, <1>2, <1>3, <1>4, Zenon

LEMMA SeqWithin ==
    ASSUME NEW S, NEW T, S \subseteq T, NEW t \in Seq(S)
    PROVE  t \in Seq(T)
<1>1. Len(t) \in Nat /\ t = [i \in 1..Len(t) |-> t[i]] /\ \A i \in 1..Len(t) : t[i] \in S
  OBVIOUS
<1>2. \A i \in 1..Len(t) : t[i] \in T
  BY <1>1
<1> QED BY <1>1, <1>2

LEMMA OneText == ASSUME NEW S, NEW p \in S PROVE <<p>> \in Seq(S)
OBVIOUS

LEMMA SingleText ==
    ASSUME NEW S, NEW p \in S, NEW t \in Seq(S)
    PROVE  t = <<p>> <=> Len(t) = 1 /\ t[1] = p
<1>1. <<p>> \in Seq(S) /\ Len(<<p>>) = 1 /\ <<p>>[1] = p
  OBVIOUS
<1>2. ASSUME Len(t) = 1, t[1] = p PROVE t = <<p>>
  <2>1. \A i \in 1..Len(t) : t[i] = <<p>>[i]
    BY <1>1, <1>2
  <2> QED BY <1>1, <1>2, <2>1, SeqEqual
<1> QED BY <1>1, <1>2

(* A piece of a glob and the texts it describes.                           *)
LEMMA PartTexts ==
    ASSUME NEW g \in STRING, NEW n \in Nat, NEW t \in Part(g, n)
    PROVE  t \in Seq(STRING)
<1>1. Pieces \subseteq STRING
  BY PieceTypes
<1>2. CASE g = "*"
  <2>1. t \in Upto(Pieces \ {"/"}, n)
    BY <1>2, PartIs
  <2>2. t \in Seq(Pieces \ {"/"})
    BY <1>1, <2>1, UptoTexts
  <2> QED BY <1>1, <2>2, SeqWithin
<1>3. CASE g = "**"
  <2>1. t \in Upto(Pieces, n)
    BY <1>3, PartIs
  <2>2. t \in Seq(Pieces)
    BY <1>1, <2>1, UptoTexts
  <2> QED BY <1>1, <2>2, SeqWithin
<1>4. CASE g = "?"
  <2>1. PICK p \in Pieces : t = <<p>>
    BY <1>4, PartIs
  <2>2. p \in STRING
    BY <1>1
  <2> QED BY <2>1, <2>2, OneText
<1>5. CASE g \notin {"*", "**", "?"}
  <2>1. t = <<g>>
    BY <1>5, PartIs
  <2> QED BY <2>1, OneText
<1> QED BY <1>2, <1>3, <1>4, <1>5

LEMMA PartCovers ==
    ASSUME NEW path \in Paths, NEW g \in STRING,
           NEW k \in 0..Len(path), NEW j \in 0..k
    PROVE  Covers(g, path, j, k) <=> SubSeq(path, j + 1, k) \in Part(g, Len(path))
<1>1. path \in Seq(STRING) /\ Len(path) \in Nat /\ j \in Nat /\ k \in Nat /\ j <= k /\ k <= Len(path)
  <2>1. path \in Seq(STRING)
    BY ScopesAssumption
  <2> QED BY <2>1
<1>2. Pieces \subseteq STRING /\ \A x \in 1..Len(path) : path[x] \in Pieces
  BY PieceTypes
<1>3. PICK t : t = SubSeq(path, j + 1, k)
  OBVIOUS
<1>4. /\ t \in Seq(STRING) /\ Len(t) = k - j
      /\ \A x \in 1..(k - j) : t[x] = path[j + x]
  BY <1>1, <1>3
<1>5. \A x \in (j + 1)..k : x \in 1..Len(path) /\ x - j \in 1..(k - j) /\ t[x - j] = path[x]
  <2> SUFFICES ASSUME NEW x \in (j + 1)..k
               PROVE  x \in 1..Len(path) /\ x - j \in 1..(k - j) /\ t[x - j] = path[x]
    OBVIOUS
  <2>1. x \in 1..Len(path) /\ x - j \in 1..(k - j) /\ j + (x - j) = x
    BY <1>1
  <2> QED BY <1>4, <2>1
<1>6. \A x \in 1..(k - j) : j + x \in (j + 1)..k /\ j + x \in 1..Len(path)
  BY <1>1
<1>7. ASSUME NEW S, S \subseteq STRING
      PROVE  t \in Upto(S, Len(path)) <=> \A x \in (j + 1)..k : path[x] \in S
  <2>1. t \in Upto(S, Len(path)) <=> t \in Seq(S) /\ Len(t) <= Len(path)
    BY <1>1, <1>7, UptoTexts
  <2>2. Len(t) <= Len(path)
    BY <1>1, <1>4
  <2>3. t \in Seq(S) <=> \A x \in 1..Len(t) : t[x] \in S
    <3>1. t = [x \in 1..Len(t) |-> t[x]] /\ Len(t) \in Nat
      BY <1>4
    <3> QED BY <3>1
  <2>4. (\A x \in 1..Len(t) : t[x] \in S) <=> \A x \in (j + 1)..k : path[x] \in S
    BY <1>4, <1>5, <1>6
  <2> QED BY <2>1, <2>2, <2>3, <2>4
<1>8. CASE g = "*"
  <2>1. Part(g, Len(path)) = Upto(Pieces \ {"/"}, Len(path))
    BY <1>8, PartIs
  <2>2. \A x \in (j + 1)..k : PieceMatches(g, path[x]) <=> path[x] \in Pieces \ {"/"}
    BY <1>2, <1>5, <1>8 DEF PieceMatches
  <2>3. t \in Upto(Pieces \ {"/"}, Len(path)) <=> \A x \in (j + 1)..k : path[x] \in Pieces \ {"/"}
    BY <1>2, <1>7
  <2> QED BY <1>3, <1>8, <2>1, <2>2, <2>3 DEF Covers
<1>9. CASE g = "**"
  <2>1. Part(g, Len(path)) = Upto(Pieces, Len(path))
    BY <1>9, PartIs
  <2>2. \A x \in (j + 1)..k : PieceMatches(g, path[x]) /\ path[x] \in Pieces
    BY <1>2, <1>5, <1>9 DEF PieceMatches
  <2>3. t \in Upto(Pieces, Len(path)) <=> \A x \in (j + 1)..k : path[x] \in Pieces
    BY <1>2, <1>7
  <2> QED BY <1>3, <1>9, <2>1, <2>2, <2>3 DEF Covers
<1>10. ASSUME NEW p \in STRING PROVE t = <<p>> <=> k = j + 1 /\ path[k] = p
  <2>1. t = <<p>> <=> Len(t) = 1 /\ t[1] = p
    BY <1>4, SingleText
  <2>2. k = j + 1 => 1 \in 1..(k - j) /\ j + 1 = k
    BY <1>1
  <2>3. k = j + 1 => t[1] = path[k]
    BY <1>4, <2>2
  <2>4. Len(t) = 1 <=> k = j + 1
    BY <1>1, <1>4
  <2> QED BY <2>1, <2>3, <2>4
<1>11. CASE g = "?"
  <2>1. t \in Part(g, Len(path)) <=> \E p \in Pieces \ {"/"} : t = <<p>>
    BY <1>11, PartIs
  <2>2. t \in Part(g, Len(path)) <=> k = j + 1 /\ path[k] \in Pieces \ {"/"}
    <3>1. \A p \in Pieces \ {"/"} : t = <<p>> <=> k = j + 1 /\ path[k] = p
      BY <1>2, <1>10
    <3> QED BY <2>1, <3>1
  <2>3. k = j + 1 => (path[k] \in Pieces \ {"/"} <=> PieceMatches(g, path[k]))
    <3>1. k = j + 1 => k \in 1..Len(path)
      BY <1>1
    <3> QED BY <1>2, <1>11, <3>1 DEF PieceMatches
  <2> QED BY <1>3, <1>11, <2>2, <2>3 DEF Covers
<1>12. CASE g \notin {"*", "**", "?"}
  <2>1. t \in Part(g, Len(path)) <=> t = <<g>>
    BY <1>12, PartIs
  <2>2. PieceMatches(g, path[k]) <=> path[k] = g
    BY <1>12 DEF PieceMatches
  <2> QED BY <1>3, <1>10, <1>12, <2>1, <2>2 DEF Covers
<1> QED BY <1>8, <1>9, <1>11, <1>12

(* Where the first pieces of a glob may end in a path is where the path's  *)
(* beginning is one of their texts.                                        *)
Agree(f, r, path, i) ==
    /\ f[i] \subseteq 0..Len(path) /\ r[i] \subseteq Seq(STRING)
    /\ \A k \in 0..Len(path) : k \in f[i] <=> SubSeq(path, 1, k) \in r[i]

LEMMA AgreeStep ==
    ASSUME NEW path \in Paths, NEW glob \in Seq(STRING), NEW f, NEW r, NEW i \in 1..Len(glob),
           Agree(f, r, path, i - 1),
           f[i] = Further(glob, path, f[i - 1], i), r[i] = Lengthened(glob, Len(path), r[i - 1], i)
    PROVE  Agree(f, r, path, i)
<1>1. path \in Seq(STRING) /\ Len(path) \in Nat /\ glob[i] \in STRING
  <2>1. path \in Seq(STRING)
    BY ScopesAssumption
  <2> QED BY <2>1
<1>2. PICK F, R, g : F = f[i - 1] /\ R = r[i - 1] /\ g = glob[i]
  OBVIOUS
<1>3. F \subseteq 0..Len(path) /\ R \subseteq Seq(STRING)
      /\ \A k \in 0..Len(path) : k \in F <=> SubSeq(path, 1, k) \in R
  BY <1>2 DEF Agree
<1>4. \A k : k \in f[i] <=> \E j \in F : k \in j..Len(path) /\ Covers(g, path, j, k)
  BY <1>2 DEF Further
<1>5. \A x : x \in r[i] <=> \E s \in R, t \in Part(g, Len(path)) : x = s \o t
  BY <1>2 DEF Lengthened
<1>6. \A t \in Part(g, Len(path)) : t \in Seq(STRING)
  BY <1>1, <1>2, PartTexts
<1>7. r[i] \subseteq Seq(STRING)
  <2>1. \A s \in R, t \in Part(g, Len(path)) : s \o t \in Seq(STRING)
    BY <1>3, <1>6
  <2> SUFFICES ASSUME NEW x \in r[i] PROVE x \in Seq(STRING)
    OBVIOUS
  <2>2. PICK s \in R, t \in Part(g, Len(path)) : x = s \o t
    BY <1>5
  <2> QED BY <2>1, <2>2
<1>8. f[i] \subseteq 0..Len(path)
  BY <1>1, <1>3, <1>4
<1>9. ASSUME NEW k \in 0..Len(path) PROVE k \in f[i] <=> SubSeq(path, 1, k) \in r[i]
  <2>1. ASSUME k \in f[i] PROVE SubSeq(path, 1, k) \in r[i]
    <3>1. PICK j \in F : k \in j..Len(path) /\ Covers(g, path, j, k)
      BY <1>4, <2>1
    <3>2. j \in 0..k /\ j \in 0..Len(path)
      BY <1>1, <1>3, <3>1
    <3>3. PICK s, t : s = SubSeq(path, 1, j) /\ t = SubSeq(path, j + 1, k)
      OBVIOUS
    <3>4. s \in R
      BY <1>3, <3>2, <3>3
    <3>5. t \in Part(g, Len(path))
      BY <1>1, <1>2, <3>1, <3>2, <3>3, PartCovers
    <3>6. Len(s) = j
      BY <1>1, <3>2, <3>3
    <3>7. s \in Seq(STRING) /\ t \in Seq(STRING)
      BY <1>3, <1>6, <3>4, <3>5
    <3>8. Splits(path, k, s, t)
      <4>1. Len(s) <= k
        BY <3>2, <3>6
      <4> QED BY <3>3, <3>6, <4>1 DEF Splits
    <3>9. s \o t = SubSeq(path, 1, k)
      BY <1>1, <3>7, <3>8, SplitText
    <3> QED BY <1>5, <3>4, <3>5, <3>9
  <2>2. ASSUME SubSeq(path, 1, k) \in r[i] PROVE k \in f[i]
    <3>1. PICK s \in R, t \in Part(g, Len(path)) : SubSeq(path, 1, k) = s \o t
      BY <1>5, <2>2
    <3>2. s \in Seq(STRING) /\ t \in Seq(STRING)
      BY <1>3, <1>6
    <3>3. Len(s) <= k /\ s = SubSeq(path, 1, Len(s)) /\ t = SubSeq(path, Len(s) + 1, k)
      <4>1. Splits(path, k, s, t)
        BY <1>1, <3>1, <3>2, SplitText
      <4> QED BY <4>1 DEF Splits
    <3>4. PICK j : j = Len(s)
      OBVIOUS
    <3>5. j \in 0..k /\ j \in 0..Len(path) /\ k \in j..Len(path)
      BY <1>1, <3>2, <3>3, <3>4
    <3>6. j \in F
      <4>1. SubSeq(path, 1, j) \in R
        BY <3>3, <3>4
      <4> QED BY <1>3, <3>5, <4>1
    <3>7. Covers(g, path, j, k)
      <4>1. SubSeq(path, j + 1, k) \in Part(g, Len(path))
        BY <3>3, <3>4
      <4> QED BY <1>1, <1>2, <3>5, <4>1, PartCovers
    <3> QED BY <1>4, <3>5, <3>6, <3>7
  <2> QED BY <2>1, <2>2
<1> QED BY <1>7, <1>8, <1>9 DEF Agree

(* A glob matches a path when its pattern describes the path, by the parts of *)
(* the glob from the left.                                                 *)
LEMMA MatchesDescribed ==
    ASSUME NEW path \in Paths, NEW glob \in Seq(STRING)
    PROVE  Matches(glob, path) <=> path \in Texts(glob, Len(path))
<1>1. path \in Seq(STRING) /\ Len(path) \in Nat /\ Len(glob) \in Nat
  <2>1. path \in Seq(STRING)
    BY ScopesAssumption
  <2> QED BY <2>1
<1>2. PICK f : IsEnds(f, glob, path) /\ (Matches(glob, path) <=> Len(path) \in f[Len(glob)])
  BY <1>1, MatchesIs
<1>3. PICK r : IsRows(r, glob, Len(path)) /\ Texts(glob, Len(path)) = r[Len(glob)]
  BY <1>1, TextsIs
<1>4. /\ f[0] = {0} /\ r[0] = {<<>>}
      /\ \A i \in 1..Len(glob) : /\ f[i] = Further(glob, path, f[i - 1], i)
                                 /\ r[i] = Lengthened(glob, Len(path), r[i - 1], i)
  <2>1. 0 \in 0..Len(glob) /\ \A i \in 1..Len(glob) : i \in 0..Len(glob) /\ i # 0
    BY <1>1
  <2> QED BY <1>2, <1>3, <2>1 DEF IsEnds, IsRows
<1> DEFINE Bad == {i \in 0..Len(glob) : ~Agree(f, r, path, i)}
<1>5. Bad = {}
  <2> SUFFICES ASSUME Bad # {} PROVE FALSE
    OBVIOUS
  <2>1. PICK m \in Bad : \A l \in Bad : m <= l
    <3>1. Bad \in SUBSET Nat
      BY <1>1
    <3> QED BY <3>1, LeastNat
  <2>2. CASE m = 0
    <3>1. f[0] \subseteq 0..Len(path) /\ r[0] \subseteq Seq(STRING)
      BY <1>1, <1>4
    <3>2. ASSUME NEW k \in 0..Len(path) PROVE k \in f[0] <=> SubSeq(path, 1, k) \in r[0]
      <4>1. SubSeq(path, 1, k) \in Seq(STRING) /\ Len(SubSeq(path, 1, k)) = k
        BY <1>1
      <4>2. SubSeq(path, 1, k) = <<>> <=> k = 0
        BY <4>1
      <4> QED BY <1>4, <4>2
    <3>3. Agree(f, r, path, 0)
      BY <3>1, <3>2 DEF Agree
    <3> QED BY <2>1, <2>2, <3>3
  <2>3. CASE m # 0
    <3>1. m \in 1..Len(glob) /\ m - 1 \in 0..Len(glob) /\ ~(m <= m - 1)
      BY <1>1, <2>1, <2>3
    <3>2. Agree(f, r, path, m - 1)
      BY <2>1, <3>1
    <3>3. Agree(f, r, path, m)
      BY <1>4, <3>1, <3>2, AgreeStep
    <3> QED BY <2>1, <3>3
  <2> QED BY <2>2, <2>3
<1>6. Agree(f, r, path, Len(glob))
  <2>1. Len(glob) \in 0..Len(glob)
    BY <1>1
  <2> QED BY <1>5, <2>1
<1>7. Len(path) \in 0..Len(path) /\ SubSeq(path, 1, Len(path)) = path
  BY <1>1
<1>8. Len(path) \in f[Len(glob)] <=> path \in r[Len(glob)]
  BY <1>6, <1>7 DEF Agree
<1> QED BY <1>2, <1>3, <1>8

(* ---- The passes over the range. ---- *)

(* A scope's list of commits and its floor.                                *)
Floored(part, floor, cs) ==
    /\ part \in Seq(1..Len(cs)) /\ part # <<>> /\ floor \in Levels
    /\ \A i \in DOMAIN part : floor <= cs[part[i]].level /\ cs[part[i]].paths # {}
    /\ \E i \in DOMAIN part : floor = cs[part[i]].level
Among(n, part) == \E k \in DOMAIN part : part[k] = n

LEMMA FirstFloored ==
    ASSUME NEW cs \in Seq(CommitFields), NEW n \in 1..Len(cs), cs[n].paths # {},
           NEW part, part = <<n>>, NEW floor, floor = cs[n].level
    PROVE  Floored(part, floor, cs) /\ Among(n, part)
<1>1. floor \in Levels /\ floor \in Nat
  <2>1. cs[n] \in CommitFields
    OBVIOUS
  <2> QED BY <2>1 DEF CommitFields, Levels
<1>2. part \in Seq(1..Len(cs)) /\ part # <<>> /\ DOMAIN part = {1} /\ part[1] = n
  OBVIOUS
<1> QED BY <1>1, <1>2 DEF Floored, Among

LEMMA LevelSteps ==
    ASSUME NEW a \in 0..3, NEW b \in 0..3, NEW c \in 0..3, a <= b, b <= c
    PROVE  a <= c
OBVIOUS

(* One more commit in the list of a scope.                                 *)
Grows(cs, n, part, part2, floor2) ==
    /\ Floored(part2, floor2, cs) /\ Among(n, part2)
    /\ \A m : Among(m, part) => Among(m, part2)

LEMMA NextFloored ==
    ASSUME NEW cs \in Seq(CommitFields), NEW n \in 1..Len(cs), cs[n].paths # {},
           NEW part, NEW floor, Floored(part, floor, cs),
           NEW part2, part2 = Append(part, n),
           NEW floor2, floor2 = IF floor < cs[n].level THEN floor ELSE cs[n].level
    PROVE  Grows(cs, n, part, part2, floor2)
<1>1. /\ part \in Seq(1..Len(cs)) /\ Len(part) \in Nat /\ DOMAIN part = 1..Len(part)
      /\ floor \in 0..3 /\ cs[n].level \in 0..3
  <2>1. cs[n] \in CommitFields
    OBVIOUS
  <2> QED BY <2>1 DEF CommitFields, Levels, Floored
<1>2. /\ part2 \in Seq(1..Len(cs)) /\ DOMAIN part2 = 1..(Len(part) + 1) /\ part2 # <<>>
      /\ \A i \in 1..Len(part) : part2[i] = part[i] /\ i \in 1..(Len(part) + 1)
      /\ part2[Len(part) + 1] = n /\ Len(part) + 1 \in 1..(Len(part) + 1)
      /\ \A i \in 1..(Len(part) + 1) : i \in 1..Len(part) \/ i = Len(part) + 1
  BY <1>1
<1>3. \A i \in 1..Len(part) : cs[part[i]].level \in 0..3
  <2> SUFFICES ASSUME NEW i \in 1..Len(part) PROVE cs[part[i]].level \in 0..3
    OBVIOUS
  <2>1. part[i] \in 1..Len(cs)
    BY <1>1
  <2>2. cs[part[i]] \in CommitFields
    BY <2>1
  <2> QED BY <2>2 DEF CommitFields, Levels
<1>4. floor2 \in 0..3 /\ floor2 <= floor /\ floor2 <= cs[n].level /\ (floor2 = floor \/ floor2 = cs[n].level)
  BY <1>1
<1>5. ASSUME NEW i \in 1..(Len(part) + 1) PROVE floor2 <= cs[part2[i]].level /\ cs[part2[i]].paths # {}
  <2>1. CASE i \in 1..Len(part)
    <3>1. floor <= cs[part[i]].level /\ cs[part[i]].paths # {}
      BY <1>1, <2>1 DEF Floored
    <3>2. floor2 <= cs[part[i]].level
      <4>1. cs[part[i]].level \in 0..3
        BY <1>3, <2>1
      <4>2. floor2 \in 0..3 /\ floor \in 0..3 /\ floor2 <= floor
        BY <1>1, <1>4
      <4> QED BY ONLY <3>1, <4>1, <4>2, LevelSteps
    <3> QED BY <1>2, <2>1, <3>1, <3>2
  <2>2. CASE i = Len(part) + 1
    BY <1>2, <1>4, <2>2
  <2> QED BY <1>2, <2>1, <2>2
<1>6. \E i \in 1..(Len(part) + 1) : floor2 = cs[part2[i]].level
  <2>1. CASE floor2 = floor
    <3>1. PICK i \in 1..Len(part) : floor = cs[part[i]].level
      BY <1>1 DEF Floored
    <3> QED BY <1>2, <2>1, <3>1
  <2>2. CASE floor2 = cs[n].level
    BY <1>2, <2>2
  <2> QED BY <1>4, <2>1, <2>2
<1>7. Floored(part2, floor2, cs)
  BY <1>2, <1>4, <1>5, <1>6 DEF Floored, Levels
<1>8. Among(n, part2) /\ \A m : Among(m, part) => Among(m, part2)
  BY <1>1, <1>2 DEF Among
<1> QED BY <1>7, <1>8 DEF Grows

(* What the passes have done before the commit they are at: every path of an *)
(* earlier commit is listed under its scopes, whose floors are the least of *)
(* the commits listed, and no earlier commit violates while none is recorded. *)
ScopesInv ==
    /\ CommitsTyped /\ DOMAIN scopes \subseteq Seq(STRING)
    /\ next \in 1..(Len(commits) + 1)
    /\ DOMAIN floors = DOMAIN partition
    /\ \A s \in DOMAIN floors : Floored(partition[s], floors[s], commits)
    /\ \A i \in 1..(next - 1) : \A path \in commits[i].paths : \A s \in ScopesOf(path, scopes) :
          s \in DOMAIN partition /\ Among(i, partition[s])
    /\ violations \in Seq(Nat)
    /\ violations = <<>> => \A i \in 1..(next - 1) : ~Violates(commits[i])

LEMMA ScopesBegun == Init => ScopesInv
<1> SUFFICES ASSUME Init PROVE ScopesInv
  OBVIOUS
<1>1. PICK c \in Cases : commits \in c.commits /\ scopes \in c.scopes
  BY DEF Init
<1>2. CommitsTyped /\ DOMAIN scopes \subseteq Seq(STRING)
  BY <1>1, CasesAssumption DEF CommitsTyped
<1>3. next = 1 /\ partition = <<>> /\ floors = <<>> /\ violations = <<>>
  BY DEF Init, ScopesBegin
<1>4. Len(commits) \in Nat
  BY <1>2 DEF CommitsTyped
<1>5. DOMAIN floors = {} /\ DOMAIN partition = {} /\ 1..(next - 1) = {}
      /\ next \in 1..(Len(commits) + 1) /\ violations \in Seq(Nat)
  BY <1>3, <1>4
<1> QED BY <1>2, <1>5 DEF ScopesInv

LEMMA VisitScopes == ScopesInv /\ Visit => ScopesInv'
<1> SUFFICES ASSUME ScopesInv, Visit PROVE ScopesInv'
  OBVIOUS
<1>1. PICK c, touched : c = commits[next] /\ touched = Touched(c)
  OBVIOUS
<1>2. /\ next <= Len(commits) /\ next' = next + 1
      /\ commits' = commits /\ scopes' = scopes
      /\ partition' = [s \in DOMAIN partition \cup touched |->
                         IF s \in touched THEN Enlist(s) ELSE partition[s]]
      /\ floors' = [s \in DOMAIN floors \cup touched |->
                      IF s \in touched THEN Lower(s, c.level) ELSE floors[s]]
      /\ violations' = IF Violates(c) THEN Append(violations, next) ELSE violations
  BY <1>1 DEF Visit
<1>3. PICK n : n = next
  OBVIOUS
<1>4. /\ commits \in Seq(CommitFields) /\ Len(commits) \in Nat /\ n \in 1..Len(commits)
      /\ c = commits[n] /\ c \in CommitFields
  BY <1>1, <1>2, <1>3 DEF ScopesInv, CommitsTyped
<1>5. \A s : s \in touched <=> \E path \in c.paths : s \in ScopesOf(path, scopes)
  BY <1>1 DEF Touched
<1>6. DOMAIN floors' = DOMAIN floors \cup touched /\ DOMAIN partition' = DOMAIN floors'
  BY <1>2 DEF ScopesInv
<1>7. ASSUME NEW s \in DOMAIN floors \cup touched
      PROVE  /\ Floored(partition'[s], floors'[s], commits)
             /\ s \in touched => Among(n, partition'[s])
             /\ s \in DOMAIN floors => \A m : Among(m, partition[s]) => Among(m, partition'[s])
  <2>1. PICK part, floor, part2, floor2 :
          /\ part = partition[s] /\ floor = floors[s] /\ part2 = partition'[s] /\ floor2 = floors'[s]
    OBVIOUS
  <2>2. /\ part2 = IF s \in touched THEN Enlist(s) ELSE part
        /\ floor2 = IF s \in touched THEN Lower(s, c.level) ELSE floor
    BY <1>2, <2>1 DEF ScopesInv
  <2>3. s \in DOMAIN floors => Floored(part, floor, commits)
    BY <2>1 DEF ScopesInv
  <2>4. s \in touched => commits[n].paths # {}
    BY <1>4, <1>5
  <2>5. CASE s \notin touched
    <3>1. part2 = part /\ floor2 = floor /\ s \in DOMAIN floors
      BY <2>2, <2>5
    <3> QED BY <2>1, <2>3, <2>5, <3>1
  <2>6. CASE s \in touched /\ s \in DOMAIN floors
    <3>1. part2 = Append(part, n)
      BY <1>3, <2>1, <2>2, <2>6 DEF Enlist, ScopesInv
    <3>2. floor2 = IF floor < commits[n].level THEN floor ELSE commits[n].level
      BY <1>4, <2>1, <2>2, <2>6 DEF Lower
    <3>3. commits \in Seq(CommitFields)
      BY <1>4
    <3>4. n \in 1..Len(commits)
      BY <1>4
    <3>5. Floored(part, floor, commits)
      BY <2>3, <2>6
    <3>6. commits[n].paths # {}
      BY <2>4, <2>6
    <3>7. Grows(commits, n, part, part2, floor2)
      BY ONLY <3>1, <3>2, <3>3, <3>4, <3>5, <3>6, NextFloored
    <3> QED BY <2>1, <3>7 DEF Grows
  <2>7. CASE s \in touched /\ s \notin DOMAIN floors
    <3>1. part2 = <<n>>
      BY <1>3, <2>1, <2>2, <2>7 DEF Enlist, ScopesInv
    <3>2. floor2 = commits[n].level
      BY <1>4, <2>1, <2>2, <2>7 DEF Lower
    <3>3. Floored(part2, floor2, commits) /\ Among(n, part2)
      BY <1>4, <2>4, <2>7, <3>1, <3>2, FirstFloored
    <3> QED BY <2>1, <2>7, <3>3
  <2> QED BY <2>5, <2>6, <2>7
<1>8. \A s \in DOMAIN floors' : Floored(partition'[s], floors'[s], commits')
  BY <1>2, <1>6, <1>7
<1>9. \A i \in 1..(next' - 1) : i \in 1..(n - 1) \/ i = n
  BY <1>2, <1>3, <1>4
<1>10. ASSUME NEW i \in 1..(next' - 1), NEW path \in commits[i].paths, NEW s \in ScopesOf(path, scopes)
       PROVE  s \in DOMAIN partition' /\ Among(i, partition'[s])
  <2>1. CASE i \in 1..(n - 1)
    <3>1. s \in DOMAIN floors /\ Among(i, partition[s])
      BY <1>3, <2>1 DEF ScopesInv
    <3>2. Among(i, partition'[s])
      BY <1>7, <3>1
    <3> QED BY <1>6, <3>1, <3>2
  <2>2. CASE i = n
    <3>1. s \in touched
      BY <1>4, <1>5, <2>2
    <3> QED BY <1>6, <1>7, <2>2, <3>1
  <2> QED BY <1>9, <2>1, <2>2
<1>11. violations' \in Seq(Nat) /\ (violations' = <<>> => violations = <<>> /\ ~Violates(c))
  <2>1. violations \in Seq(Nat) /\ next \in Nat
    BY DEF ScopesInv
  <2>2. Append(violations, next) \in Seq(Nat) /\ Append(violations, next) # <<>>
    BY ONLY <2>1, AppendProperties
  <2> QED BY <1>2, <2>1, <2>2
<1>12. violations' = <<>> => \A i \in 1..(next' - 1) : ~Violates(commits[i])
  <2> SUFFICES ASSUME violations' = <<>>, NEW i \in 1..(next' - 1) PROVE ~Violates(commits[i])
    OBVIOUS
  <2>1. CASE i \in 1..(n - 1)
    BY <1>3, <1>11, <2>1 DEF ScopesInv
  <2>2. CASE i = n
    BY <1>4, <1>11, <2>2
  <2> QED BY <1>9, <2>1, <2>2
<1>13. next' \in 1..(Len(commits') + 1)
  BY <1>2, <1>3, <1>4
<1>14. CommitsTyped' /\ DOMAIN scopes' \subseteq Seq(STRING)
  BY <1>2 DEF ScopesInv, CommitsTyped
<1>15. violations' = <<>> => \A i \in 1..(next' - 1) : ~Violates(commits'[i])
  BY <1>2, <1>12
<1>16. \A i \in 1..(next' - 1) : \A path \in commits'[i].paths : \A s \in ScopesOf(path, scopes') :
          s \in DOMAIN partition' /\ Among(i, partition'[s])
  BY <1>2, <1>10
<1> QED BY <1>6, <1>8, <1>11, <1>13, <1>14, <1>15, <1>16 DEF ScopesInv, Violates

(* So are the passes over the range.                                       *)
LEMMA ScopesSteps == Spec => []ScopesInv
<1>1. ScopesInv /\ [Next]_vars => ScopesInv'
  <2> SUFFICES ASSUME ScopesInv, [Next]_vars PROVE ScopesInv'
    OBVIOUS
  <2>1. CASE ScopePass
    BY <2>1, VisitScopes DEF ScopePass
  <2>2. CASE ~ScopePass
    <3>1. UNCHANGED scopeVars
      BY <2>2 DEF Next, AbortMeta, Resolve, Traverse, Report, vars
    <3>2. UNCHANGED <<scopes, commits, next, partition, floors, violations>>
      BY <3>1 DEF scopeVars
    <3> QED BY <3>2 DEF ScopesInv, CommitsTyped
  <2> QED BY <2>1, <2>2
<1> QED BY <1>1, ScopesBegun, PTL DEF Spec

LEMMA InScopes ==
    ASSUME ScopesInv, NEW path \in Paths
    PROVE  /\ \A g \in DOMAIN scopes : Matches(g, path) <=> path \in Texts(g, Len(path))
           /\ MetaCovers(MetaGlobs, path) <=> \E g \in MetaGlobs : path \in Texts(g, Len(path))
<1>1. \A g \in DOMAIN scopes : g \in Seq(STRING)
  BY DEF ScopesInv
<1>2. \A g \in MetaGlobs : g \in Seq(STRING)
  BY ScopesAssumption
<1> QED BY <1>1, <1>2, MatchesDescribed DEF MetaCovers

LEMMA ScopesHold == ScopesInv => ScopesRight
<1> SUFFICES ASSUME ScopesInv PROVE ScopesRight
  OBVIOUS
<1>1. ScopesTypeOK
  BY DEF ScopesInv, ScopesTypeOK, Floored
<1>2. WeakestLink
  BY DEF ScopesInv, WeakestLink, Floored
<1>3. ASSUME NEW i \in 1..(next - 1), NEW path \in commits[i].paths
      PROVE  LET described == {g \in DOMAIN scopes : path \in Texts(g, Len(path))}
                 expected == IF described = {} THEN {DefaultScope} ELSE {scopes[g] : g \in described}
             IN  \A s \in expected :
                     s \in DOMAIN partition /\ \E k \in DOMAIN partition[s] : partition[s][k] = i
  <2>1. path \in Paths
    <3>1. Len(commits) \in Nat /\ next \in 1..(Len(commits) + 1) /\ commits \in Seq(CommitFields)
      BY DEF ScopesInv, CommitsTyped
    <3>2. commits[i] \in CommitFields
      BY <3>1
    <3> QED BY <3>2 DEF CommitFields
  <2>2. PICK matching : matching = {h \in DOMAIN scopes : Matches(h, path)}
    OBVIOUS
  <2>3. matching = {g \in DOMAIN scopes : path \in Texts(g, Len(path))}
    BY <2>1, <2>2, InScopes
  <2>4. ScopesOf(path, scopes) = IF matching = {} THEN {DefaultScope} ELSE {scopes[g] : g \in matching}
    <3>1. {scopes[g] : g \in matching} = {} <=> matching = {}
      OBVIOUS
    <3> QED BY <2>2, <3>1 DEF ScopesOf
  <2>5. \A s \in ScopesOf(path, scopes) : s \in DOMAIN partition /\ Among(i, partition[s])
    BY DEF ScopesInv
  <2> QED BY <2>3, <2>4, <2>5 DEF Among
<1>4. PathsScoped
  BY <1>3 DEF PathsScoped
<1> QED BY <1>1, <1>2, <1>4 DEF ScopesRight

LEMMA MetaHolds == ScopesInv => MetaGuarded
<1> SUFFICES ASSUME ScopesInv, ScopesDone, ~Aborted,
                    NEW i \in DOMAIN commits, NEW path \in commits[i].paths,
                    \E g \in MetaGlobs : path \in Texts(g, Len(path))
             PROVE  commits[i].level >= RequiredLevel
  BY DEF MetaGuarded
<1>1. /\ Len(commits) \in Nat /\ next \in 1..(Len(commits) + 1) /\ commits \in Seq(CommitFields)
      /\ violations = <<>> /\ next > Len(commits)
  BY DEF ScopesInv, CommitsTyped, ScopesDone, Aborted
<1>2. i \in 1..(next - 1) /\ commits[i] \in CommitFields
  BY <1>1
<1>3. path \in Paths /\ commits[i].level \in 0..3 /\ RequiredLevel \in 0..3
  BY <1>2, ScopesAssumption DEF CommitFields, Levels
<1>4. MetaCovers(MetaGlobs, path)
  BY <1>3, InScopes
<1>5. ~Violates(commits[i])
  BY <1>1, <1>2 DEF ScopesInv
<1>6. ~(commits[i].level < RequiredLevel)
  BY <1>4, <1>5 DEF Violates
<1> QED BY <1>3, <1>6

(* The floors reported for the scopes are those of the commits whose paths *)
(* the policy's patterns describe, and no path is lost (scope.go).         *)
THEOREM ScopesFloored == Spec => []ScopesRight
BY ScopesSteps, ScopesHold, PTL

(* No commit below the required level that touches a guarded path gets     *)
(* through (MetaPathViolations).                                           *)
THEOREM MetaChecked == Spec => []MetaGuarded
BY ScopesSteps, MetaHolds, PTL

(* The root's level is at most each scope's floor: it is at most that of the *)
(* lowest commit of the list the floor comes from, which is inside the root. *)
LEMMA HeadlineHolds == AggregationInv /\ ScopesInv => HeadlineBounded
<1> SUFFICES ASSUME AggregationInv, ScopesInv, Propagated, policy.component = Root,
                    NEW s \in DOMAIN floors
             PROVE  Effective[Root].level <= floors[s]
  BY DEF HeadlineBounded
<1>1. CommitsTyped /\ WorkspaceTyped /\ Walking /\ Graph!Done
  BY DEF AggregationInv
<1>2. Root \in DOMAIN ws
  BY DEF AggregationInv, Propagated, Names
<1>3. PICK e : e = Graph!Effective[Root]
  OBVIOUS
<1>4. Effective[Root] = e
  BY <1>3 DEF Effective, Propagated
<1>5. e.level \in 0..3 /\ e.level <= Graph!Own(Root)
  <2>1. LeastOfAll(e, Root)
    BY <1>1, <1>2, <1>3, DoneComponents, EffectiveIsLeast
  <2>2. Root \in Nat
    BY WorkspaceAssumption
  <2>3. Root \in From(edges, Root)
    BY <2>2, FromItself
  <2> QED BY <2>1, <2>3 DEF LeastOfAll
<1>6. PICK i \in DOMAIN partition[s] : floors[s] = commits[partition[s][i]].level
  BY DEF ScopesInv, Floored
<1>7. PICK n : n = partition[s][i]
  OBVIOUS
<1>8. n \in DOMAIN commits /\ commits[n].paths # {} /\ commits[n] \in CommitFields
  <2>1. partition[s] \in Seq(1..Len(commits)) /\ commits[n].paths # {}
    BY <1>6, <1>7 DEF ScopesInv, Floored
  <2>2. n \in 1..Len(commits)
    BY <1>6, <1>7, <2>1
  <2> QED BY <1>1, <2>1, <2>2 DEF CommitsTyped
<1>9. PICK c : c = [level |-> commits[n].level, paths |-> {DirOf[p] : p \in commits[n].paths}]
  OBVIOUS
<1>10. c \in DirCommits
  BY <1>8, <1>9 DEF DirCommits
<1>11. Graph!CommitUnderDir(c, Root)
  <2>1. PICK p \in commits[n].paths : TRUE
    BY <1>8
  <2>2. DirOf[p] \in Dirs /\ DirOf[p] \in c.paths
    BY <1>8, <1>9, <2>1, DirsAssumption DEF CommitFields
  <2>3. DirOf[p] \in Inside[Root]
    BY <2>2, WorkspaceAssumption
  <2> QED BY <2>2, <2>3 DEF Graph!CommitUnderDir
<1>12. Graph!Own(Root) \in 0..3 /\ Graph!Own(Root) <= c.level
  BY <1>1, <1>10, <1>11, OwnHolds
<1>13. c.level \in 0..3 /\ c.level = floors[s]
  BY <1>6, <1>7, <1>8, <1>9 DEF CommitFields, Levels
<1>14. e.level <= floors[s]
  BY <1>5, <1>12, <1>13
<1> QED BY <1>4, <1>14

(* A release of the whole workspace is trusted no more than the lowest     *)
(* scope anything was committed to, whatever globs the policy has.         *)
THEOREM HeadlineTrusted == Spec => []HeadlineBounded
BY AggregationSteps, ScopesSteps, HeadlineHolds, PTL
================================================================================
