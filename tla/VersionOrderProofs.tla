-------------------------- MODULE VersionOrderProofs --------------------------
(***************************************************************************)
(* Precedence is a strict total order of the versions of a component, for  *)
(* all core numbers, levels and texts: "the latest" is well defined, and   *)
(* sorting by it is sound.  The next version is above it, and is no trust  *)
(* version.                                                                *)
(***************************************************************************)
EXTENDS PlainTags, WellFoundedInduction, TLAPS

LEMMA IdentOrder ==
  ASSUME NEW a \in Idents, NEW b \in Idents, NEW c \in Idents
  PROVE  /\ ~IdentBelow(a, a)
         /\ IdentBelow(a, b) /\ IdentBelow(b, c) => IdentBelow(a, c)
         /\ a = b \/ IdentBelow(a, b) \/ IdentBelow(b, a)
<1>1. /\ a[1] \in {0, 1} /\ b[1] \in {0, 1} /\ c[1] \in {0, 1}
      /\ a[2] \in Nat /\ b[2] \in Nat /\ c[2] \in Nat
      /\ a = <<a[1], a[2]>> /\ b = <<b[1], b[2]>>
  BY DEF Idents
<1>2. QED
  BY <1>1 DEF IdentBelow

LEMMA SequenceElements ==
  ASSUME NEW s \in Seq(Idents)
  PROVE  Len(s) \in Nat /\ \A i \in Nat : 1 <= i /\ i <= Len(s) => s[i] \in Idents
  OBVIOUS

LEMMA SequenceEqual ==
  ASSUME NEW s \in Seq(Idents), NEW t \in Seq(Idents), Len(s) = Len(t),
         \A i \in 1..Len(s) : s[i] = t[i]
  PROVE  s = t
  OBVIOUS

(* What IdentsBelow says, with the place where the two differ.             *)
DiffersAt(a, b, i) ==
    /\ \A j \in 1..(i - 1) : j <= Len(b) /\ a[j] = b[j]
    /\ i <= Len(b)
    /\ i <= Len(a) => IdentBelow(a[i], b[i])

LEMMA BelowAt ==
  ASSUME NEW a \in Seq(Idents), NEW b \in Seq(Idents)
  PROVE  IdentsBelow(a, b) <=> \E i \in 1..(Len(a) + 1) : DiffersAt(a, b, i)
  BY DEF IdentsBelow, DiffersAt

LEMMA IdentsIrreflexive ==
  ASSUME NEW a \in Seq(Idents) PROVE ~IdentsBelow(a, a)
<1>1. SUFFICES ASSUME NEW i \in 1..(Len(a) + 1), DiffersAt(a, a, i) PROVE FALSE
  BY BelowAt
<1>2. i \in Nat /\ 1 <= i /\ i <= Len(a) /\ IdentBelow(a[i], a[i])
  BY <1>1, SequenceElements DEF DiffersAt
<1>3. QED
  BY <1>2, SequenceElements, IdentOrder

LEMMA IdentsTransitive ==
  ASSUME NEW a \in Seq(Idents), NEW b \in Seq(Idents), NEW c \in Seq(Idents),
         IdentsBelow(a, b), IdentsBelow(b, c)
  PROVE  IdentsBelow(a, c)
<1>1. PICK i \in 1..(Len(a) + 1) : DiffersAt(a, b, i)
  BY BelowAt
<1>2. PICK k \in 1..(Len(b) + 1) : DiffersAt(b, c, k)
  BY BelowAt
<1>3. /\ i \in Nat /\ k \in Nat /\ 1 <= i /\ 1 <= k
      /\ Len(a) \in Nat /\ Len(b) \in Nat /\ Len(c) \in Nat
      /\ i <= Len(a) + 1 /\ k <= Len(b) + 1
  BY SequenceElements
<1>4. CASE i < k
  <2>1. \A j \in 1..(i - 1) : j <= Len(c) /\ a[j] = c[j]
    BY <1>1, <1>2, <1>3, <1>4 DEF DiffersAt
  <2>2. i <= Len(c) /\ b[i] = c[i]
    BY <1>2, <1>3, <1>4 DEF DiffersAt
  <2>3. i <= Len(a) => IdentBelow(a[i], c[i])
    BY <1>1, <2>2 DEF DiffersAt
  <2>4. QED
    BY <2>1, <2>2, <2>3, BelowAt DEF DiffersAt
<1>5. CASE k < i
  <2>1. \A j \in 1..(k - 1) : j <= Len(c) /\ a[j] = c[j]
    BY <1>1, <1>2, <1>3, <1>5 DEF DiffersAt
  <2>2. k <= Len(b) /\ a[k] = b[k] /\ k \in 1..(Len(a) + 1)
    BY <1>1, <1>3, <1>5 DEF DiffersAt
  <2>3. k <= Len(c) /\ IdentBelow(a[k], c[k])
    BY <1>2, <2>2 DEF DiffersAt
  <2>4. QED
    BY <2>1, <2>2, <2>3, BelowAt DEF DiffersAt
<1>6. CASE i = k
  <2>1. \A j \in 1..(i - 1) : j <= Len(c) /\ a[j] = c[j]
    BY <1>1, <1>2, <1>3, <1>6 DEF DiffersAt
  <2>2. i <= Len(c) /\ i <= Len(b) /\ IdentBelow(b[i], c[i])
    BY <1>1, <1>2, <1>6 DEF DiffersAt
  <2>3. ASSUME i <= Len(a) PROVE IdentBelow(a[i], c[i])
    <3>1. IdentBelow(a[i], b[i])
      BY <1>1, <2>3 DEF DiffersAt
    <3>2. a[i] \in Idents /\ b[i] \in Idents /\ c[i] \in Idents
      BY <1>3, <2>2, <2>3, SequenceElements
    <3>3. QED
      BY <2>2, <3>1, <3>2, IdentOrder
  <2>4. QED
    BY <2>1, <2>2, <2>3, BelowAt DEF DiffersAt
<1>7. QED
  BY <1>3, <1>4, <1>5, <1>6

LEMMA LeastNumber ==
  ASSUME NEW S \in SUBSET Nat, S # {}
  PROVE  \E x \in S : \A y \in S : x <= y
<1>1. \E x \in S : \A y \in S : ~(<<y, x>> \in OpToRel(<, Nat))
  BY NatLessThanWellFounded, WFMin
<1>2. \A a, b \in Nat : a < b => <<a, b>> \in OpToRel(<, Nat)
  BY DEF OpToRel
<1>3. PICK x \in S : \A y \in S : ~(<<y, x>> \in OpToRel(<, Nat))
  BY <1>1
<1>4. \A y \in S : x <= y
  <2>1. \A y \in S : x \in Nat /\ y \in Nat /\ ~(y < x)
    BY <1>2, <1>3
  <2>2. QED
    BY <2>1
<1>5. QED
  BY <1>4

LEMMA IdentsTotal ==
  ASSUME NEW a \in Seq(Idents), NEW b \in Seq(Idents), a # b
  PROVE  IdentsBelow(a, b) \/ IdentsBelow(b, a)
<1> DEFINE D == {i \in Nat : 1 <= i /\ (i > Len(a) \/ i > Len(b) \/ a[i] # b[i])}
<1>1. Len(a) \in Nat /\ Len(b) \in Nat
  BY SequenceElements
<1>2. Len(a) + 1 \in D
  BY <1>1
<1>3. PICK i \in D : \A j \in D : i <= j
  <2>1. D \in SUBSET Nat /\ D # {}
    BY <1>2
  <2>2. QED
    BY <2>1, LeastNumber
<1>4. i \in Nat /\ 1 <= i /\ i <= Len(a) + 1 /\ i <= Len(b) + 1
  <2>1. Len(b) + 1 \in D
    BY <1>1
  <2>2. QED
    BY <1>2, <1>3, <2>1
<1>5. \A j \in 1..(i - 1) : j <= Len(a) /\ j <= Len(b) /\ a[j] = b[j]
  <2>1. SUFFICES ASSUME NEW j \in 1..(i - 1)
                 PROVE  j <= Len(a) /\ j <= Len(b) /\ a[j] = b[j]
    OBVIOUS
  <2>2. j \in Nat /\ 1 <= j /\ j \notin D
    BY <1>3, <1>4, <2>1
  <2>3. QED
    BY <1>1, <2>2
<1>6. CASE i > Len(a) /\ i > Len(b)
  <2>1. Len(a) = Len(b) /\ Len(a) = i - 1
    BY <1>1, <1>4, <1>6
  <2>2. \A j \in 1..Len(a) : a[j] = b[j]
    BY <1>5, <2>1
  <2>3. QED
    BY <2>1, <2>2, SequenceEqual
<1>7. CASE i > Len(a) /\ i <= Len(b)
  <2>1. DiffersAt(a, b, i) /\ i \in 1..(Len(a) + 1)
    BY <1>1, <1>4, <1>5, <1>7 DEF DiffersAt
  <2>2. QED
    BY <2>1, BelowAt
<1>8. CASE i <= Len(a) /\ i > Len(b)
  <2>1. DiffersAt(b, a, i) /\ i \in 1..(Len(b) + 1)
    BY <1>1, <1>4, <1>5, <1>8 DEF DiffersAt
  <2>2. QED
    BY <2>1, BelowAt
<1>9. CASE i <= Len(a) /\ i <= Len(b)
  <2>1. a[i] # b[i] /\ a[i] \in Idents /\ b[i] \in Idents
    BY <1>1, <1>3, <1>4, <1>9, SequenceElements
  <2>2. IdentBelow(a[i], b[i]) \/ IdentBelow(b[i], a[i])
    BY <2>1, IdentOrder
  <2>3. /\ IdentBelow(a[i], b[i]) => DiffersAt(a, b, i)
        /\ IdentBelow(b[i], a[i]) => DiffersAt(b, a, i)
        /\ i \in 1..(Len(a) + 1) /\ i \in 1..(Len(b) + 1)
    BY <1>1, <1>4, <1>5, <1>9 DEF DiffersAt
  <2>4. QED
    BY <2>2, <2>3, BelowAt
<1>10. QED
  BY <1>1, <1>4, <1>6, <1>7, <1>8, <1>9

LEMMA PrereleaseIdentsType ==
  ASSUME NEW v \in Versions PROVE PrereleaseIdents(v) \in Seq(Idents)
<1>1. v.pre \in Seq(Idents) /\ v.trust \in Trusts \cup {NoTrust}
  BY DEF Versions
<1>2. CASE v.trust = NoTrust
  BY <1>1, <1>2 DEF PrereleaseIdents
<1>3. CASE v.trust # NoTrust
  <2>1. v.trust.level \in 0..3 /\ v.trust.iteration \in Nat
    BY <1>1, <1>3, VersionAssumption DEF Trusts
  <2>2. LevelTexts[v.trust.level] \in Nat
    BY <2>1, VersionAssumption
  <2>3. <<1, LevelTexts[v.trust.level]>> \in Idents /\ Numeral(v.trust.iteration) \in Idents
    BY <2>1, <2>2 DEF Idents, Numeral
  <2>4. QED
    BY <1>3, <2>3 DEF PrereleaseIdents
<1>4. QED
  BY <1>2, <1>3

LEMMA CoreType ==
  ASSUME NEW v \in Versions PROVE v.core \in [1..3 -> Nat]
  BY VersionAssumption DEF Versions

LEMMA CoreOrder ==
  ASSUME NEW a \in [1..3 -> Nat], NEW b \in [1..3 -> Nat], NEW c \in [1..3 -> Nat]
  PROVE  /\ ~CoreBelow(a, a)
         /\ CoreBelow(a, b) /\ CoreBelow(b, c) => CoreBelow(a, c)
         /\ a = b \/ CoreBelow(a, b) \/ CoreBelow(b, a)
<1>1. /\ a[1] \in Nat /\ a[2] \in Nat /\ a[3] \in Nat
      /\ b[1] \in Nat /\ b[2] \in Nat /\ b[3] \in Nat
      /\ c[1] \in Nat /\ c[2] \in Nat /\ c[3] \in Nat
  OBVIOUS
<1>2. a[1] = b[1] /\ a[2] = b[2] /\ a[3] = b[3] => a = b
  <2>1. ASSUME a[1] = b[1], a[2] = b[2], a[3] = b[3] PROVE \A i \in 1..3 : a[i] = b[i]
    BY <2>1
  <2>2. QED
    BY <2>1
<1>3. QED
  BY <1>1, <1>2 DEF CoreBelow

LEMMA PrereleaseOrder ==
  ASSUME NEW a \in Seq(Idents), NEW b \in Seq(Idents), NEW c \in Seq(Idents)
  PROVE  /\ ~PrereleaseBelow(a, a)
         /\ PrereleaseBelow(a, b) /\ PrereleaseBelow(b, c) => PrereleaseBelow(a, c)
         /\ a = b \/ PrereleaseBelow(a, b) \/ PrereleaseBelow(b, a)
<1>1. ~PrereleaseBelow(a, a)
  BY IdentsIrreflexive DEF PrereleaseBelow
<1>2. PrereleaseBelow(a, b) /\ PrereleaseBelow(b, c) => PrereleaseBelow(a, c)
  BY IdentsTransitive DEF PrereleaseBelow
<1>3. a = b \/ PrereleaseBelow(a, b) \/ PrereleaseBelow(b, a)
  BY IdentsTotal DEF PrereleaseBelow
<1>4. QED
  BY <1>1, <1>2, <1>3

(* No version precedes itself (Compare).                                   *)
THEOREM PrecedenceIrreflexive == \A v \in Versions : ~Below(v, v)
<1>1. SUFFICES ASSUME NEW v \in Versions PROVE ~Below(v, v)
  OBVIOUS
<1>2. v.core \in [1..3 -> Nat]
  BY CoreType
<1>3. QED
  BY <1>2, CoreOrder, PrereleaseOrder, PrereleaseIdentsType DEF Below

(* Precedence is transitive, with trust suffixes, plain pre-releases and   *)
(* releases mixed (Compare, Sort).                                         *)
THEOREM PrecedenceTransitive ==
  \A u, v, w \in Versions : Below(u, v) /\ Below(v, w) => Below(u, w)
<1>1. SUFFICES ASSUME NEW u \in Versions, NEW v \in Versions, NEW w \in Versions,
                      Below(u, v), Below(v, w)
               PROVE  Below(u, w)
  OBVIOUS
<1>2. /\ u.core \in [1..3 -> Nat] /\ v.core \in [1..3 -> Nat] /\ w.core \in [1..3 -> Nat]
      /\ PrereleaseIdents(u) \in Seq(Idents) /\ PrereleaseIdents(v) \in Seq(Idents)
      /\ PrereleaseIdents(w) \in Seq(Idents)
  BY CoreType, PrereleaseIdentsType
<1>3. CASE CoreBelow(u.core, v.core)
  <2>1. CoreBelow(v.core, w.core) \/ v.core = w.core
    BY <1>1 DEF Below
  <2>2. CoreBelow(u.core, w.core)
    BY <1>2, <1>3, <2>1, CoreOrder
  <2>3. QED
    BY <2>2 DEF Below
<1>4. CASE u.core = v.core /\ PrereleaseBelow(PrereleaseIdents(u), PrereleaseIdents(v))
  <2>1. CASE CoreBelow(v.core, w.core)
    BY <1>4, <2>1 DEF Below
  <2>2. CASE v.core = w.core /\ PrereleaseBelow(PrereleaseIdents(v), PrereleaseIdents(w))
    <3>1. PrereleaseBelow(PrereleaseIdents(u), PrereleaseIdents(w))
      BY <1>2, <1>4, <2>2, PrereleaseOrder
    <3>2. QED
      BY <1>4, <2>2, <3>1 DEF Below
  <2>3. QED
    BY <1>1, <2>1, <2>2 DEF Below
<1>5. QED
  BY <1>1, <1>3, <1>4 DEF Below

(* Two versions of which none precedes the other are written alike: the    *)
(* latest of some versions of a component is one tag name (Compare, Latest,*)
(* String).                                                                *)
THEOREM PrecedenceTotal ==
  \A v, w \in Versions : v.component = w.component =>
      Below(v, w) \/ Below(w, v) \/ TagOf(v) = TagOf(w)
<1>1. SUFFICES ASSUME NEW v \in Versions, NEW w \in Versions, v.component = w.component
               PROVE  Below(v, w) \/ Below(w, v) \/ TagOf(v) = TagOf(w)
  OBVIOUS
<1>2. /\ v.core \in [1..3 -> Nat] /\ w.core \in [1..3 -> Nat]
      /\ PrereleaseIdents(v) \in Seq(Idents) /\ PrereleaseIdents(w) \in Seq(Idents)
  BY CoreType, PrereleaseIdentsType
<1>3. CASE v.core # w.core
  BY <1>2, <1>3, CoreOrder DEF Below
<1>4. CASE v.core = w.core /\ PrereleaseIdents(v) # PrereleaseIdents(w)
  BY <1>2, <1>4, PrereleaseOrder DEF Below
<1>5. CASE v.core = w.core /\ PrereleaseIdents(v) = PrereleaseIdents(w)
  BY <1>1, <1>5 DEF TagOf
<1>6. QED
  BY <1>3, <1>4, <1>5

--------------------------------------------------------------------------------
(* ---- The next version. ---- *)

(* Of several places of a sequence one is the last. *)
LEMMA LastPlace ==
  ASSUME NEW n \in Nat, NEW S \in SUBSET (1..n), S # {}
  PROVE  \E i \in S : \A j \in S : j <= i
<1> DEFINE D == {n - i : i \in S}
<1>1. D \subseteq Nat /\ D # {}
  <2>1. \A i \in S : i \in Nat /\ i <= n
    OBVIOUS
  <2>2. \A i \in S : n - i \in Nat
    BY <2>1
  <2> QED BY <2>2
<1>2. PICK d \in D : \A e \in D : d <= e
  <2> HIDE DEF D
  <2> QED BY <1>1, LeastNumber
<1>3. PICK i \in S : d = n - i
  BY <1>2
<1>4. \A j \in S : n - i <= n - j
  BY <1>2, <1>3
<1> QED BY <1>3, <1>4

(* What reads as an int is followed by what reads as one: a numeral, or,   *)
(* below zero and where the addition wraps, a text that is no trust level. *)
LEMMA OneAboveIs ==
  ASSUME NEW id \in Idents, ReadsAsInt(id)
  PROVE  /\ OneAbove(id) \in Idents /\ ReadsAsInt(OneAbove(id))
         /\ OneAbove(id)[1] = 0 \/ OneAbove(id)[2] \notin ShapedTexts
         /\ IsNumeric(id) => IdentBelow(id, OneAbove(id))
<1>1. PICK kind \in {0, 1}, value \in Nat : id = <<kind, value>>
  BY DEF Idents
<1>2. MaxInt \in Nat
  BY VersionAssumption
<1>3. PICK n : n = Atoi(id)
  OBVIOUS
<1>4. n \in (-MaxInt - 1)..MaxInt
  <2>1. CASE kind = 0
    BY <1>1, <1>2, <1>3, <2>1 DEF Atoi, ReadsAsInt, IsNumeric
  <2>2. CASE kind = 1
    <3>1. value \in DOMAIN TextInts /\ n = TextInts[value]
      BY <1>1, <1>3, <2>2 DEF Atoi, ReadsAsInt, IsNumeric
    <3>2. n \in (-MaxInt - 1)..0
      BY <3>1, VersionAssumption
    <3> QED BY <1>2, <3>2
  <2> QED BY <2>1, <2>2
<1>5. PICK m : m = IF n = MaxInt THEN -MaxInt - 1 ELSE n + 1
  OBVIOUS
<1>6. m \in (-MaxInt - 1)..MaxInt
  BY <1>2, <1>4, <1>5
<1>7. OneAbove(id) = Itoa(m)
  BY <1>3, <1>5 DEF OneAbove
<1>8. CASE m >= 0
  <2>1. OneAbove(id) = <<0, m>> /\ m \in Nat /\ m <= MaxInt
    BY <1>2, <1>6, <1>7, <1>8 DEF Itoa, Numeral
  <2>2. IsNumeric(id) => m > value
    BY <1>1, <1>2, <1>3, <1>5, <1>8 DEF Atoi, IsNumeric
  <2> QED BY <1>1, <2>1, <2>2 DEF Idents, ReadsAsInt, IsNumeric, IdentBelow
<1>9. CASE ~(m >= 0)
  <2>1. PICK text : text = MinusTexts[m]
    OBVIOUS
  <2>2. m \in (-MaxInt - 1)..(-1)
    BY <1>2, <1>6, <1>9
  <2>3. text \in DOMAIN TextInts /\ text \in Nat /\ text \notin ShapedTexts
    BY <2>1, <2>2, VersionAssumption
  <2>4. OneAbove(id) = <<1, text>>
    BY <1>7, <1>9, <2>1 DEF Itoa
  <2> QED BY <1>1, <2>3, <2>4 DEF Idents, ReadsAsInt, IsNumeric, IdentBelow
<1> QED BY <1>8, <1>9

(* A counter goes up or is appended: what is before it stays. *)
CountsAt(pre, counted, last) ==
    /\ last \in DOMAIN pre /\ ReadsAsInt(pre[last])
    /\ \A j \in DOMAIN pre : ReadsAsInt(pre[j]) => j <= last
    /\ counted = [pre EXCEPT ![last] = OneAbove(@)]

LEMMA CountedIs ==
  ASSUME NEW pre \in Seq(Idents)
  PROVE  \/ /\ \A j \in DOMAIN pre : ~ReadsAsInt(pre[j])
            /\ Counted(pre) = Append(pre, Numeral(0))
         \/ \E last \in DOMAIN pre : CountsAt(pre, Counted(pre), last)
<1> DEFINE ints == {i \in DOMAIN pre : ReadsAsInt(pre[i])}
<1>1. CASE ints = {}
  BY <1>1 DEF Counted
<1>2. CASE ints # {}
  <2>1. \E i \in ints : \A j \in ints : j <= i
    <3>1. Len(pre) \in Nat /\ ints \in SUBSET (1..Len(pre))
      BY SequenceElements
    <3> HIDE DEF ints
    <3> QED BY <1>2, <3>1, LastPlace
  <2>2. PICK last : last = CHOOSE i \in ints : \A j \in ints : j <= i
    OBVIOUS
  <2>3. last \in ints /\ \A j \in ints : j <= last
    <3> HIDE DEF ints
    <3> QED BY <2>1, <2>2
  <2>4. Counted(pre) = [pre EXCEPT ![last] = OneAbove(@)]
    BY <1>2, <2>2 DEF Counted
  <2> QED BY <2>3, <2>4 DEF CountsAt
<1> QED BY <1>1, <1>2

LEMMA CountedType ==
  ASSUME NEW pre \in Seq(Idents)
  PROVE  /\ Counted(pre) \in Seq(Idents) /\ Counted(pre) # <<>>
         /\ ~TrustShaped(pre) => ~TrustShaped(Counted(pre))
<1>1. \A i \in DOMAIN pre : pre[i] \in Idents
  BY SequenceElements
<1>2. \A id \in Idents : ReadsAsInt(id) =>
         /\ OneAbove(id) \in Idents
         /\ OneAbove(id)[1] = 0 \/ OneAbove(id)[2] \notin ShapedTexts
  BY OneAboveIs
<1>3. Numeral(0) \in Idents /\ Numeral(0)[1] = 0
  BY DEF Numeral, Idents
<1>4. CASE Counted(pre) = Append(pre, Numeral(0))
  <2>1. /\ Counted(pre) \in Seq(Idents) /\ Counted(pre) # <<>>
        /\ Counted(pre)[1] = IF pre = <<>> THEN Numeral(0) ELSE pre[1]
    BY <1>3, <1>4
  <2> QED BY <1>3, <2>1 DEF TrustShaped
<1>5. CASE \E last \in DOMAIN pre : CountsAt(pre, Counted(pre), last)
  <2>1. PICK last \in DOMAIN pre : CountsAt(pre, Counted(pre), last)
    BY <1>5
  <2>2. PICK counted : counted = Counted(pre)
    OBVIOUS
  <2>3. /\ counted = [pre EXCEPT ![last] = OneAbove(pre[last])]
        /\ OneAbove(pre[last]) \in Idents
        /\ OneAbove(pre[last])[1] = 0 \/ OneAbove(pre[last])[2] \notin ShapedTexts
    BY <1>1, <1>2, <2>1, <2>2 DEF CountsAt
  <2>4. counted \in Seq(Idents) /\ Len(counted) = Len(pre)
    BY <2>3
  <2>5. pre # <<>> /\ counted # <<>> /\ 1 \in DOMAIN pre
    BY <2>3, <2>4
  <2>6. counted[1] = IF last = 1 THEN OneAbove(pre[last]) ELSE pre[1]
    BY <2>3, <2>5
  <2> QED BY <2>2, <2>3, <2>4, <2>5, <2>6 DEF TrustShaped
<1> QED BY <1>4, <1>5, CountedIs

(* A counter that only ever counts numerals makes what it counts higher.   *)
LEMMA CountedAbove ==
  ASSUME NEW pre \in Seq(Idents), OnlyNumerals(pre)
  PROVE  IdentsBelow(pre, Counted(pre))
<1>0. Counted(pre) \in Seq(Idents) /\ Len(pre) \in Nat
  BY CountedType, SequenceElements
<1>1. CASE Counted(pre) = Append(pre, Numeral(0))
  <2>1. DiffersAt(pre, Counted(pre), Len(pre) + 1)
    BY <1>0, <1>1 DEF DiffersAt
  <2> QED BY <1>0, <2>1, BelowAt
<1>2. CASE \E last \in DOMAIN pre : CountsAt(pre, Counted(pre), last)
  <2>1. PICK last \in DOMAIN pre : CountsAt(pre, Counted(pre), last)
    BY <1>2
  <2>2. IsNumeric(pre[last]) /\ ReadsAsInt(pre[last]) /\ pre[last] \in Idents
    BY <2>1, SequenceElements DEF CountsAt, OnlyNumerals
  <2>3. IdentBelow(pre[last], OneAbove(pre[last]))
    BY <2>2, OneAboveIs
  <2>4. DiffersAt(pre, Counted(pre), last)
    BY <1>0, <2>1, <2>3 DEF CountsAt, DiffersAt
  <2> QED BY <1>0, <2>1, <2>4, BelowAt
<1> QED BY <1>1, <1>2, CountedIs

(* The pre-release of the next version: counted, or a new name.            *)
LEMMA BumpPreIs ==
  ASSUME NEW v \in Versions, NEW preid \in Seq(Idents), Len(preid) <= 1
  PROVE  /\ BumpPre(v, preid) = [v EXCEPT !.pre = BumpPre(v, preid).pre]
         /\ \/ BumpPre(v, preid).pre = Counted(v.pre)
            \/ preid # <<>> /\ BumpPre(v, preid).pre = <<preid[1], Numeral(0)>>
  BY DEF BumpPre, Versions

(* Unsigned addition stays in range, and goes up where it does not wrap.   *)
LEMMA Plus1Is ==
  ASSUME NEW n \in 0..MaxUint
  PROVE  Plus1(n) \in 0..MaxUint /\ (n < MaxUint => Plus1(n) = n + 1)
<1>1. MaxUint \in Nat
  BY VersionAssumption
<1>2. CASE n < MaxUint
  BY <1>1, <1>2 DEF Plus1
<1>3. CASE n = MaxUint
  BY <1>1, <1>3 DEF Plus1
<1> QED BY <1>1, <1>2, <1>3

(* What a release of a component is: clean, and of that component. *)
Release(v, r) ==
    /\ r \in Versions /\ r.component = v.component
    /\ r.trust = NoTrust /\ r.pre = <<>>

LEMMA CleanIs ==
  ASSUME NEW v \in Versions, NEW core \in [1..3 -> 0..MaxUint]
  PROVE  Release(v, Clean(v.component, core)) /\ Clean(v.component, core).core = core
  BY DEF Release, Clean, Versions

LEMMA CoreBumps ==
  ASSUME NEW v \in Versions, NEW r \in {BumpMajor(v), BumpMinor(v), BumpPatch(v)}
  PROVE  Release(v, r) /\ (HasSuccessor(v) => CoreBelow(v.core, r.core))
<1>1. v.core \in [1..3 -> 0..MaxUint] /\ MaxUint \in Nat
  BY VersionAssumption DEF Versions
<1>2. PICK x \in 0..MaxUint, y \in 0..MaxUint, z \in 0..MaxUint :
         x = v.core[1] /\ y = v.core[2] /\ z = v.core[3]
  BY <1>1
<1>3. /\ Plus1(x) \in 0..MaxUint /\ (x < MaxUint => Plus1(x) = x + 1)
      /\ Plus1(y) \in 0..MaxUint /\ (y < MaxUint => Plus1(y) = y + 1)
      /\ Plus1(z) \in 0..MaxUint /\ (z < MaxUint => Plus1(z) = z + 1)
  BY Plus1Is
<1>4. PICK core : /\ core \in {<<Plus1(x), 0, 0>>, <<x, Plus1(y), 0>>, <<x, y, Plus1(z)>>}
                  /\ r = Clean(v.component, core)
  BY <1>2 DEF BumpMajor, BumpMinor, BumpPatch
<1>5. core \in [1..3 -> 0..MaxUint]
  BY <1>1, <1>3, <1>4
<1>6. Release(v, r) /\ r.core = core
  BY <1>4, <1>5, CleanIs
<1>7. HasSuccessor(v) => CoreBelow(v.core, core)
  BY <1>1, <1>2, <1>3, <1>4 DEF HasSuccessor, CoreBelow
<1> QED BY <1>6, <1>7

LEMMA Settles ==
  ASSUME NEW v \in Versions, v.trust = NoTrust,
         NEW r \in {SettleMajor(v), SettleMinor(v), SettlePatch(v)}
  PROVE  Release(v, r) /\ (HasSuccessor(v) => Below(v, r))
<1>1. CASE r \in {BumpMajor(v), BumpMinor(v), BumpPatch(v)}
  BY <1>1, CoreBumps DEF Below
<1>2. CASE v.pre # <<>> /\ r = Clean(v.component, v.core)
  <2>1. Release(v, r) /\ r.core = v.core
    BY <1>2, CleanIs DEF Versions
  <2>2. PrereleaseIdents(v) = v.pre /\ PrereleaseIdents(r) = <<>>
    BY <2>1 DEF Release, PrereleaseIdents
  <2> QED BY <1>2, <2>1, <2>2 DEF Below, PrereleaseBelow
<1> QED BY <1>1, <1>2 DEF SettleMajor, SettleMinor, SettlePatch

(* A version an increment may start from, and may return: without a trust  *)
(* suffix, and not one that would be read as one.                          *)
Plain(v) == v \in Versions /\ v.trust = NoTrust /\ ~(TrustShaped(v.pre) /\ TrustSuffix(v.pre))

LEMMA ReleaseIsPlain == ASSUME NEW v, NEW r, Release(v, r) PROVE Plain(r) /\ ~TrustShaped(r.pre)
  BY DEF Release, Plain, TrustShaped

LEMMA BumpPrePlain ==
  ASSUME NEW v \in Versions, v.trust = NoTrust, ~TrustShaped(v.pre),
         NEW preid \in Seq(Idents), Len(preid) <= 1
  PROVE  /\ Plain(BumpPre(v, preid)) /\ BumpPre(v, preid).core = v.core
         /\ BumpPre(v, preid).component = v.component
         /\ BumpPre(v, preid).pre # <<>>
<1>1. PICK n : n = BumpPre(v, preid)
  OBVIOUS
<1>2. PICK pre : /\ n = [v EXCEPT !.pre = pre]
                 /\ \/ pre = Counted(v.pre)
                    \/ preid # <<>> /\ pre = <<preid[1], Numeral(0)>>
  BY <1>1, BumpPreIs
<1>3. v.pre \in Seq(Idents)
  BY DEF Versions
<1>4. pre \in Seq(Idents) /\ pre # <<>> /\ ~(TrustShaped(pre) /\ TrustSuffix(pre))
  <2>1. CASE pre = Counted(v.pre)
    BY <1>3, <2>1, CountedType
  <2>2. CASE preid # <<>> /\ pre = <<preid[1], Numeral(0)>>
    <3>1. preid[1] \in Idents /\ Numeral(0) \in Idents
      BY <2>2 DEF Numeral, Idents
    <3>2. pre \in Seq(Idents) /\ pre # <<>> /\ pre[2] = Numeral(0)
      BY <2>2, <3>1
    <3>3. ~TrustSuffix(pre)
      BY <3>2 DEF TrustSuffix, Numeral
    <3> QED BY <3>2, <3>3
  <2> QED BY <1>2, <2>1, <2>2
<1>5. /\ n.component = v.component /\ n.core = v.core /\ n.trust = NoTrust /\ n.pre = pre
      /\ n \in Versions
  BY <1>2, <1>4 DEF Versions
<1> QED BY <1>1, <1>4, <1>5 DEF Plain

(* An increment of a plain version is a plain version of its component.    *)
LEMMA IncrementPlain ==
  ASSUME NEW v \in Versions, v.trust = NoTrust, ~TrustShaped(v.pre), NEW type \in Types,
         NEW preid \in Seq(Idents), Len(preid) <= 1
  PROVE  Plain(Increment(v, type, preid)) /\ Increment(v, type, preid).component = v.component
<1>1. ASSUME NEW r \in Versions, Release(v, r)
      PROVE  Plain(BumpPre(r, preid)) /\ BumpPre(r, preid).component = v.component
  BY <1>1, BumpPrePlain, ReleaseIsPlain DEF Release
<1>2. CASE type = "major" \/ type = "minor" \/ type = "patch"
  <2>1. Increment(v, type, preid) \in {SettleMajor(v), SettleMinor(v), SettlePatch(v)}
    BY <1>2 DEF Increment
  <2> QED BY <2>1, Settles, ReleaseIsPlain DEF Release
<1>3. CASE type = "premajor" \/ type = "preminor" \/ type = "prepatch"
  <2>1. PICK r \in {BumpMajor(v), BumpMinor(v), BumpPatch(v)} :
            Increment(v, type, preid) = BumpPre(r, preid)
    BY <1>3 DEF Increment
  <2>2. Release(v, r)
    BY CoreBumps
  <2> QED BY <1>1, <2>1, <2>2 DEF Release
<1>4. CASE type = "prerelease"
  <2>1. Increment(v, type, preid) = BumpPre(StartPrerelease(v), preid)
    BY <1>4 DEF Increment
  <2>2. CASE v.pre = <<>>
    <3>1. Release(v, SettlePatch(v)) /\ StartPrerelease(v) = SettlePatch(v)
      BY <2>2, Settles DEF StartPrerelease
    <3> QED BY <1>1, <2>1, <3>1 DEF Release
  <2>3. CASE v.pre # <<>>
    BY <2>1, <2>3, BumpPrePlain DEF StartPrerelease
  <2> QED BY <2>2, <2>3
<1> QED BY <1>2, <1>3, <1>4 DEF Types

LEMMA SequenceOf ==
  ASSUME NEW S, NEW n \in Nat, NEW f \in [1..n -> S]
  PROVE  f \in Seq(S) /\ Len(f) = n
  OBVIOUS

(* A version and its tag: what is written is read again.                   *)
LEMMA PlainRead ==
  ASSUME NEW v, Plain(v)
  PROVE  /\ TagOf(v) \in Tags
         /\ VersionOf(TagOf(v)).core = v.core /\ VersionOf(TagOf(v)).pre = v.pre
         /\ VersionOf(TagOf(v)).trust = NoTrust
<1>1. /\ v.component \in Components /\ v.core \in [1..3 -> 0..MaxUint] /\ v.pre \in Seq(Idents)
      /\ v.trust = NoTrust
  BY DEF Plain, Versions
<1>2. v.core \in Seq(0..MaxUint) /\ Len(v.core) = 3
  BY ZenonT(40), <1>1, SequenceOf
<1>3. PICK t : t = TagOf(v)
  OBVIOUS
<1>4. /\ t \in Tags /\ t.core = v.core /\ t.pre = v.pre /\ t.component = v.component
  BY <1>1, <1>2, <1>3 DEF TagOf, PrereleaseIdents, Tags
<1>5. ~(TrustShaped(t.pre) /\ ParsesStrictly(t))
  BY <1>4 DEF Plain, ParsesStrictly
<1>6. PICK core : core = [i \in 1..3 |-> IF i <= Len(t.core) THEN t.core[i] ELSE 0]
  OBVIOUS
<1>7. core = v.core
  BY SMTT(30), <1>1, <1>2, <1>4, <1>6
<1>8. VersionOf(t) = [Clean(t.component, core) EXCEPT !.pre = t.pre]
  BY <1>5, <1>6 DEF VersionOf
<1> QED BY <1>3, <1>4, <1>7, <1>8 DEF Clean

(* ---- The next version is above the one it follows. ---- *)

LEMMA PrereleaseAbove ==
  ASSUME NEW v \in Versions, v.trust = NoTrust, v.pre # <<>>,
         NEW preid \in Seq(Idents), Len(preid) <= 1, KeepsAbove("prerelease", preid, v)
  PROVE  IdentsBelow(v.pre, BumpPre(v, preid).pre)
<1>1. PICK pre \in Seq(Idents) : pre = v.pre
  BY DEF Versions
<1>2. PICK counted \in Seq(Idents) : counted = Counted(pre)
  BY CountedType
<1>3. PICK new : new = BumpPre(v, preid).pre
  OBVIOUS
<1>4. new = IF preid = <<>> \/ (Len(counted) >= 2 /\ counted[1] = preid[1] /\ ReadsAsInt(counted[2]))
            THEN counted ELSE <<preid[1], Numeral(0)>>
  BY <1>1, <1>2, <1>3 DEF BumpPre, Versions
<1>5. Len(pre) \in Nat /\ pre # <<>> /\ Len(pre) >= 1 /\ pre[1] \in Idents
  BY <1>1
<1>6. CASE preid = <<>> /\ OnlyNumerals(pre)
  BY <1>1, <1>2, <1>3, <1>4, <1>6, CountedAbove
<1>7. CASE preid # <<>> /\ IdentBelow(pre[1], preid[1])
  <2>1. preid[1] \in Idents /\ pre[1] # preid[1]
    BY <1>5, <1>7, IdentOrder
  (* A name that is changed is not kept. *)
  <2>2. ASSUME Len(counted) >= 2, counted[1] = preid[1], ReadsAsInt(counted[2]) PROVE FALSE
    <3>1. CASE counted = Append(pre, Numeral(0))
      BY <1>5, <2>1, <2>2, <3>1
    <3>2. ASSUME NEW last \in DOMAIN pre, CountsAt(pre, counted, last) PROVE FALSE
      <4>1. counted = [pre EXCEPT ![last] = OneAbove(pre[last])] /\ last \in 1..Len(pre)
        BY <3>2 DEF CountsAt
      <4>2. Len(pre) >= 2
        BY <2>2, <4>1
      <4>3. CASE last = 1
        <5>1. counted[2] = pre[2] /\ 2 \in DOMAIN pre
          BY <4>1, <4>2, <4>3
        <5>2. 2 <= 1
          BY <2>2, <3>2, <4>3, <5>1 DEF CountsAt
        <5> QED BY <5>2
      <4>4. CASE last # 1
        <5>1. counted[1] = pre[1]
          BY <1>5, <4>1, <4>4
        <5> QED BY <2>1, <2>2, <5>1
      <4> QED BY <4>3, <4>4
    <3> QED BY <1>2, <3>1, <3>2, CountedIs
  <2>3. new = <<preid[1], Numeral(0)>>
    BY <1>4, <1>7, <2>2
  <2>4. new \in Seq(Idents) /\ Len(new) = 2 /\ new[1] = preid[1]
    BY <2>1, <2>3 DEF Numeral, Idents
  <2>5. DiffersAt(pre, new, 1)
    BY <1>7, <2>4 DEF DiffersAt
  <2> QED BY <1>1, <1>3, <1>5, <2>4, <2>5, BelowAt
<1>8. CASE preid # <<>> /\ Len(pre) = 2 /\ pre[1] = preid[1] /\ IsCounter(pre[2])
  <2>0. DOMAIN pre = 1..2 /\ 2 \in DOMAIN pre /\ pre[2] \in Idents
    BY <1>1, <1>8
  <2>1. IsNumeric(pre[2]) /\ ReadsAsInt(pre[2])
    BY <1>8 DEF IsCounter
  <2>2. PICK last \in DOMAIN pre : CountsAt(pre, counted, last)
    BY <1>2, <2>0, <2>1, CountedIs
  <2>3. last = 2
    BY <2>0, <2>1, <2>2 DEF CountsAt
  <2>4. counted = [pre EXCEPT ![2] = OneAbove(pre[2])]
    BY <2>2, <2>3 DEF CountsAt
  <2>5. Len(counted) = 2 /\ counted[1] = pre[1] /\ counted[2] = OneAbove(pre[2])
    BY <1>8, <2>0, <2>4
  <2>6. ReadsAsInt(counted[2]) /\ IdentBelow(pre[2], counted[2])
    BY <2>0, <2>1, <2>5, OneAboveIs
  <2>7. new = counted
    BY <1>4, <1>8, <2>5, <2>6
  <2>8. DiffersAt(pre, counted, 2)
    BY <1>8, <2>5, <2>6 DEF DiffersAt
  <2> QED BY <1>1, <1>3, <1>8, <2>7, <2>8, BelowAt
<1> QED BY <1>1, <1>6, <1>7, <1>8 DEF KeepsAbove

LEMMA IncrementAbove ==
  ASSUME NEW v \in Versions, v.trust = NoTrust, ~TrustShaped(v.pre), NEW type \in Types,
         NEW preid \in Seq(Idents), Len(preid) <= 1, HasSuccessor(v), KeepsAbove(type, preid, v)
  PROVE  Below(v, Increment(v, type, preid))
<1>1. ASSUME NEW r \in Versions, Release(v, r), CoreBelow(v.core, r.core)
      PROVE  Below(v, BumpPre(r, preid))
  <2>1. BumpPre(r, preid).core = r.core
    BY <1>1, BumpPrePlain, ReleaseIsPlain DEF Release
  <2> QED BY <1>1, <2>1 DEF Below
<1>2. CASE type = "major" \/ type = "minor" \/ type = "patch"
  <2>1. Increment(v, type, preid) \in {SettleMajor(v), SettleMinor(v), SettlePatch(v)}
    BY <1>2 DEF Increment
  <2> QED BY <2>1, Settles
<1>3. CASE type = "premajor" \/ type = "preminor" \/ type = "prepatch"
  <2>1. PICK r \in {BumpMajor(v), BumpMinor(v), BumpPatch(v)} :
            Increment(v, type, preid) = BumpPre(r, preid)
    BY <1>3 DEF Increment
  <2>2. Release(v, r) /\ CoreBelow(v.core, r.core)
    BY CoreBumps
  <2> QED BY <1>1, <2>1, <2>2 DEF Release
<1>4. CASE type = "prerelease" /\ v.pre = <<>>
  <2>1. Increment(v, type, preid) = BumpPre(BumpPatch(v), preid)
    BY <1>4 DEF Increment, StartPrerelease, SettlePatch
  <2>2. Release(v, BumpPatch(v)) /\ CoreBelow(v.core, BumpPatch(v).core)
    BY CoreBumps
  <2> QED BY <1>1, <2>1, <2>2 DEF Release
<1>5. CASE type = "prerelease" /\ v.pre # <<>>
  <2>1. PICK n : n = BumpPre(v, preid)
    OBVIOUS
  <2>2. Increment(v, type, preid) = n
    BY <1>5, <2>1 DEF Increment, StartPrerelease
  <2>3. n.core = v.core /\ n.trust = NoTrust /\ n.pre # <<>>
    BY <2>1, BumpPrePlain DEF Plain
  <2>4. IdentsBelow(v.pre, n.pre)
    BY <1>5, <2>1, PrereleaseAbove
  <2> QED BY <1>5, <2>2, <2>3, <2>4 DEF Below, PrereleaseBelow, PrereleaseIdents
<1> QED BY <1>2, <1>3, <1>4, <1>5 DEF Types

(* ---- The tags of a repository. ---- *)

(* The version of a tag that parses; without a trust suffix its pre-release*)
(* has no trust shape.                                                     *)
LEMMA ReadVersion ==
  ASSUME NEW t \in Tags, ParsesLeniently(t)
  PROVE  /\ VersionOf(t) \in Versions /\ VersionOf(t).component = t.component
         /\ VersionOf(t).trust = NoTrust => ~TrustShaped(VersionOf(t).pre)
<1>1. /\ t.component \in Components /\ t.core \in Seq(0..MaxUint) /\ t.pre \in Seq(Idents)
  BY DEF Tags
<1>2. PICK core : core = [i \in 1..3 |-> IF i <= Len(t.core) THEN t.core[i] ELSE 0]
  OBVIOUS
<1>3. core \in [1..3 -> 0..MaxUint]
  BY SMTT(30), <1>1, <1>2, VersionAssumption
<1>4. CASE TrustShaped(t.pre) /\ ParsesStrictly(t)
  <2>1. TrustSuffix(t.pre)
    BY <1>4 DEF ParsesStrictly
  <2>2. PICK level \in 0..3 : level = CHOOSE l \in 0..3 : LevelTexts[l] = t.pre[1][2]
    BY <2>1 DEF TrustSuffix
  <2>3. t.pre[2][2] \in 1..MaxUint
    BY <2>1 DEF TrustSuffix
  <2>4. VersionOf(t) = [component |-> t.component, core |-> core, pre |-> <<>>,
                        trust |-> [level |-> level, iteration |-> t.pre[2][2]]]
    BY <1>2, <1>4, <2>2 DEF VersionOf
  <2>5. [level |-> level, iteration |-> t.pre[2][2]] \in Trusts
    BY <2>3 DEF Trusts
  <2>6. <<>> \in Seq(Idents)
    OBVIOUS
  <2> QED BY <1>1, <1>3, <2>4, <2>5, <2>6 DEF Versions, TrustShaped
<1>5. CASE ~(TrustShaped(t.pre) /\ ParsesStrictly(t))
  <2>1. VersionOf(t) = [Clean(t.component, core) EXCEPT !.pre = t.pre]
    BY <1>2, <1>5 DEF VersionOf
  <2>2. ~TrustShaped(t.pre)
    BY <1>5 DEF ParsesLeniently
  <2> QED BY <1>1, <1>3, <2>1, <2>2 DEF Clean, Versions
<1> QED BY <1>4, <1>5

LEMMA ZeroIs ==
  /\ Clean(NoComponent, <<0, 0, 0>>) \in Versions
  /\ ~TrustShaped(Clean(NoComponent, <<0, 0, 0>>).pre)
<1>1. <<0, 0, 0>> \in [1..3 -> 0..MaxUint] /\ NoComponent \in Components /\ <<>> \in Seq(Idents)
  BY VersionAssumption
<1> QED BY <1>1 DEF Clean, Versions, TrustShaped

LEMMA ValidTyped ==
  ASSUME TypeOK, NEW seed \in Seeds
  PROVE  \A v \in Valid \cup seed \cup {Clean(NoComponent, <<0, 0, 0>>)} :
            v \in Versions /\ (v.trust = NoTrust => ~TrustShaped(v.pre))
<1>1. \A v \in Valid : v \in Versions /\ (v.trust = NoTrust => ~TrustShaped(v.pre))
  BY ReadVersion DEF Valid, TypeOK
<1>2. seed \subseteq {Clean(NoComponent, <<0, 0, 0>>)}
  BY DEF Seeds
<1> QED BY <1>1, <1>2, ZeroIs

(* What the command that makes the next tag does: n follows the base v. *)
Follows(type, preid, seed, v, n) ==
    /\ v \in Versions /\ IsBase(v, Valid \cup seed)
    /\ v.trust = NoTrust /\ ~TrustShaped(v.pre)
    /\ preid \in Seq(Idents) /\ Len(preid) <= 1
    /\ n = Increment(v, type, preid) /\ Plain(n)
    /\ tags' = tags \cup {TagOf(n)}

LEMMA NextIs ==
  ASSUME TypeOK, NEW type \in Types, NEW preid \in Preids, NEW seed \in Seeds,
         TagNext(type, preid, seed)
  PROVE  \E v, n : Follows(type, preid, seed, v, n)
<1>1. PICK v \in Valid \cup seed \cup {Clean(NoComponent, <<0, 0, 0>>)} :
         /\ IsBase(v, Valid \cup seed) /\ v.trust = NoTrust
         /\ tags' = tags \cup {TagOf(Increment(v, type, preid))}
  BY DEF TagNext
<1>2. v \in Versions /\ ~TrustShaped(v.pre)
  BY <1>1, ValidTyped
<1>3. preid \in Seq(Idents) /\ Len(preid) <= 1
  BY PlainAssumption
<1>4. Plain(Increment(v, type, preid))
  BY <1>1, <1>2, <1>3, IncrementPlain
<1>5. Follows(type, preid, seed, v, Increment(v, type, preid))
  BY <1>1, <1>2, <1>3, <1>4 DEF Follows
<1> QED BY <1>5

LEMMA TagsTyped == Spec => []TypeOK
<1>1. Init => TypeOK
  BY DEF Init, TypeOK
<1>2. TypeOK /\ [Next]_tags => TypeOK'
  <2>1. SUFFICES ASSUME TypeOK, [Next]_tags PROVE TypeOK'
    OBVIOUS
  <2>2. ASSUME NEW name \in Names, Foreign(name) \/ TagNamed(name) PROVE TypeOK'
    BY <2>1, <2>2, PlainAssumption DEF Foreign, TagNamed, TypeOK
  <2>3. ASSUME NEW type \in Types, NEW preid \in Preids, NEW seed \in Seeds,
               TagNext(type, preid, seed)
        PROVE  TypeOK'
    <3>1. PICK v, n : Plain(n) /\ tags' = tags \cup {TagOf(n)}
      BY <2>1, <2>3, NextIs DEF Follows
    <3> QED BY <2>1, <3>1, PlainRead DEF TypeOK
  <2>4. CASE UNCHANGED tags
    BY <2>1, <2>4 DEF TypeOK
  <2> QED BY <2>1, <2>2, <2>3, <2>4 DEF Next
<1> QED BY <1>1, <1>2, PTL DEF Spec

(* The version that next computes is above every version there is, for     *)
(* identifier lists of any length, whatever tags other tools wrote (Next,  *)
(* Increment, bumpPre).                                                    *)
THEOREM NextIsAbove == Spec => NextAdvances
<1>1. ASSUME TypeOK, NEW type \in Types, NEW preid \in Preids, NEW seed \in Seeds,
             TagNext(type, preid, seed),
             \A v \in Valid \cup seed :
                IsLatest(v, Valid \cup seed) => HasSuccessor(v) /\ KeepsAbove(type, preid, v)
      PROVE  \A t \in New, w \in Valid \cup seed : Below(w, VersionOf(t))
  <2>0. PICK v, n : Follows(type, preid, seed, v, n)
    BY <1>1, NextIs, Zenon
  <2>1. /\ v \in Versions /\ IsBase(v, Valid \cup seed)
        /\ v.trust = NoTrust /\ ~TrustShaped(v.pre)
        /\ preid \in Seq(Idents) /\ Len(preid) <= 1
        /\ n = Increment(v, type, preid) /\ Plain(n)
        /\ tags' = tags \cup {TagOf(n)}
    BY <2>0 DEF Follows
  <2>2. SUFFICES ASSUME NEW w \in Valid \cup seed PROVE Below(w, VersionOf(TagOf(n)))
    BY <2>1 DEF New
  <2>3. v \in Valid \cup seed /\ w.component = v.component /\ ~Below(v, w)
        /\ IsLatest(v, Valid \cup seed)
    BY <2>1, <2>2 DEF IsBase, IsLatest
  <2>4. Below(v, n)
    BY <1>1, <2>1, <2>3, IncrementAbove
  <2>5. Below(v, VersionOf(TagOf(n))) /\ VersionOf(TagOf(n)).core = n.core
        /\ PrereleaseIdents(VersionOf(TagOf(n))) = n.pre
    BY <2>1, <2>4, PlainRead DEF Below, PrereleaseIdents, Plain
  <2>6. v \in Versions /\ w \in Versions /\ n \in Versions
    BY <1>1, <2>1, <2>2, ValidTyped DEF Plain
  <2>7. Below(w, v) \/ TagOf(v) = TagOf(w)
    BY <2>3, <2>6, PrecedenceTotal
  <2>8. Below(w, n)
    <3>1. CASE Below(w, v)
      BY <2>1, <2>4, <2>6, <3>1, PrecedenceTransitive
    <3>2. CASE TagOf(v) = TagOf(w)
      <4>1. v.core = w.core /\ PrereleaseIdents(v) = PrereleaseIdents(w)
        BY <3>2 DEF TagOf
      <4> QED BY <2>4, <4>1 DEF Below
    <3> QED BY <2>7, <3>1, <3>2
  <2>9. PrereleaseIdents(n) = n.pre
    BY <2>1 DEF Plain, PrereleaseIdents
  <2> QED BY <2>5, <2>8, <2>9 DEF Below
<1>2. TypeOK /\ [Next]_tags => [\A type \in Types, preid \in Preids, seed \in Seeds :
         /\ TagNext(type, preid, seed)
         /\ \A v \in Valid \cup seed :
               IsLatest(v, Valid \cup seed) => HasSuccessor(v) /\ KeepsAbove(type, preid, v)
         => \A t \in New, v \in Valid \cup seed : Below(v, VersionOf(t))]_tags
  BY <1>1
<1> QED BY <1>2, TagsTyped, PTL DEF Spec, NextAdvances

(* The next version never parses as a trust version: no sequence of plain  *)
(* commands makes one (Increment, ParseLenient).                           *)
THEOREM NextEarnsNoTrust == Spec => NoTrustByNext
<1>1. ASSUME TypeOK, NEW type \in Types, NEW preid \in Preids, NEW seed \in Seeds,
             TagNext(type, preid, seed), NEW t \in New
      PROVE  VersionOf(t).trust = NoTrust
  <2>1. PICK v, n : Plain(n) /\ tags' = tags \cup {TagOf(n)}
    BY <1>1, NextIs DEF Follows
  <2> QED BY <1>1, <2>1, PlainRead DEF New
<1>2. TypeOK /\ [Next]_tags => [\A type \in Types, preid \in Preids, seed \in Seeds :
         TagNext(type, preid, seed) /\ (\A name \in Names : ~Foreign(name))
            => \A t \in New : ParsesStrictly(t) => VersionOf(t).trust = NoTrust]_tags
  BY <1>1
<1> QED BY <1>2, TagsTyped, PTL DEF Spec, NoTrustByNext

==============================================================================
