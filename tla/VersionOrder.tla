----------------------------- MODULE VersionOrder -----------------------------
(***************************************************************************)
(* Versions, their precedence and their increments (internal/version), and *)
(* what the tag grammar admits.                                            *)
(*                                                                         *)
(* A pre-release identifier is a pair: <<0, n>> is the numeral n, <<1, r>> *)
(* the text of rank r in ASCII order.                                      *)
(***************************************************************************)
EXTENDS Integers, Sequences

CONSTANTS
    Components,     \* component paths
    NoComponent,    \* ... the absent one among them
    MaxUint,        \* the largest core number (2^64 - 1)
    MaxInt,         \* the largest int (2^63 - 1); the least is -MaxInt - 1
    LevelTexts,     \* LevelTexts[l]: the rank of "t0" .. "t3"
    ShapedTexts,    \* the ranks of all texts that are t and digits
    TextInts,       \* TextInts[r]: the int the text of rank r reads as,
                    \* for those that read as one: "-1", "-07", "-0"
    MinusTexts      \* MinusTexts[n]: the rank of a negative int as written

ASSUME VersionAssumption ==
    /\ NoComponent \in Components
    /\ MaxUint \in Nat /\ MaxInt \in Nat
    /\ ShapedTexts \subseteq Nat /\ LevelTexts \in [0..3 -> ShapedTexts]
    /\ DOMAIN TextInts \subseteq Nat \ ShapedTexts
    /\ \A r \in DOMAIN TextInts : TextInts[r] \in (-MaxInt - 1)..0
    /\ MinusTexts \in [(-MaxInt - 1)..(-1) -> DOMAIN TextInts]
    /\ \A n \in DOMAIN MinusTexts : TextInts[MinusTexts[n]] = n

Idents == {0, 1} \X Nat
Numeral(n) == <<0, n>>
IsNumeric(id) == id[1] = 0

NoTrust == [level |-> 0, iteration |-> 0]
Trusts == [level : 0..3, iteration : 1..MaxUint]

(* A version: clean, with a trust suffix, or with a plain pre-release.     *)
Versions ==
    {v \in [component : Components, core : [1..3 -> 0..MaxUint],
            trust : Trusts \cup {NoTrust}, pre : Seq(Idents)] :
        v.trust = NoTrust \/ v.pre = <<>>}

Clean(component, core) ==
    [component |-> component, core |-> core, trust |-> NoTrust, pre |-> <<>>]

--------------------------------------------------------------------------------
(* compareIdent: a numeral is below any text.                              *)
IdentBelow(a, b) == a[1] < b[1] \/ (a[1] = b[1] /\ a[2] < b[2])

PrereleaseIdents(v) ==
    IF v.trust = NoTrust THEN v.pre
    ELSE <<<<1, LevelTexts[v.trust.level]>>, Numeral(v.trust.iteration)>>

(* The first difference decides; a proper prefix is below.                 *)
IdentsBelow(a, b) ==
    \E i \in 1..(Len(a) + 1) :
        /\ \A j \in 1..(i - 1) : j <= Len(b) /\ a[j] = b[j]
        /\ i <= Len(b)
        /\ i <= Len(a) => IdentBelow(a[i], b[i])

(* comparePrerelease: a release is above its pre-releases.                 *)
PrereleaseBelow(a, b) == a # <<>> /\ (b = <<>> \/ IdentsBelow(a, b))

CoreBelow(a, b) ==
    \/ a[1] < b[1]
    \/ a[1] = b[1] /\ a[2] < b[2]
    \/ a[1] = b[1] /\ a[2] = b[2] /\ a[3] < b[3]

(* compareWithinComponent < 0.                                             *)
Below(v, w) ==
    \/ CoreBelow(v.core, w.core)
    \/ v.core = w.core /\ PrereleaseBelow(PrereleaseIdents(v), PrereleaseIdents(w))

--------------------------------------------------------------------------------
Types == {"major", "minor", "patch", "premajor", "preminor", "prepatch", "prerelease"}

(* Unsigned addition wraps.                                                *)
Plus1(n) == (n + 1) % (MaxUint + 1)

BumpMajor(v) == Clean(v.component, <<Plus1(v.core[1]), 0, 0>>)
BumpMinor(v) == Clean(v.component, <<v.core[1], Plus1(v.core[2]), 0>>)
BumpPatch(v) == Clean(v.component, <<v.core[1], v.core[2], Plus1(v.core[3])>>)

(* A pre-release whose lower fields are zero settles onto its release.     *)
SettleMajor(v) ==
    IF v.core[2] # 0 \/ v.core[3] # 0 \/ v.pre = <<>> THEN BumpMajor(v)
    ELSE Clean(v.component, v.core)
SettleMinor(v) ==
    IF v.core[3] # 0 \/ v.pre = <<>> THEN BumpMinor(v) ELSE Clean(v.component, v.core)
SettlePatch(v) == IF v.pre = <<>> THEN BumpPatch(v) ELSE Clean(v.component, v.core)

(* strconv.Atoi: what it accepts is the range of an int, and texts like    *)
(* "-1"; numerals may be larger.                                           *)
ReadsAsInt(id) == IF IsNumeric(id) THEN id[2] <= MaxInt ELSE id[2] \in DOMAIN TextInts
Atoi(id) == IF IsNumeric(id) THEN id[2] ELSE TextInts[id[2]]
Itoa(n) == IF n >= 0 THEN Numeral(n) ELSE <<1, MinusTexts[n]>>

(* The identifier one above; signed addition wraps.                        *)
OneAbove(id) == Itoa(IF Atoi(id) = MaxInt THEN -MaxInt - 1 ELSE Atoi(id) + 1)

(* The last identifier that reads as an integer goes up; without one, a    *)
(* counter is appended.                                                    *)
Counted(pre) ==
    LET ints == {i \in DOMAIN pre : ReadsAsInt(pre[i])}
        last == CHOOSE i \in ints : \A j \in ints : j <= i
    IN  IF ints = {} THEN Append(pre, Numeral(0)) ELSE [pre EXCEPT ![last] = OneAbove(@)]

(* MUTANT of BumpPre: a pre-release name given always resets the counter.  *)
BumpPreResets(v, preid) ==
    [v EXCEPT !.pre = IF preid = <<>> THEN Counted(v.pre) ELSE <<preid[1], Numeral(0)>>]

(* bumpPre: a changed pre-release name resets the counter.                 *)
BumpPre(v, preid) ==
    LET counted == Counted(v.pre)
        kept == Len(counted) >= 2 /\ counted[1] = preid[1] /\ ReadsAsInt(counted[2])
    IN  [v EXCEPT !.pre = IF preid = <<>> \/ kept THEN counted ELSE <<preid[1], Numeral(0)>>]

(* MUTANT of StartPrerelease: a release gets a pre-release of its own core.*)
StartsBelow(v) == v

(* The base of a prerelease increment: on a release the patch comes first. *)
StartPrerelease(v) == IF v.pre = <<>> THEN SettlePatch(v) ELSE v

(* Increment, of a version without a trust suffix; preid is a sequence of  *)
(* at most one identifier.                                                 *)
Increment(v, type, preid) ==
    CASE type = "major" -> SettleMajor(v)
      [] type = "minor" -> SettleMinor(v)
      [] type = "patch" -> SettlePatch(v)
      [] type = "premajor" -> BumpPre(BumpMajor(v), preid)
      [] type = "preminor" -> BumpPre(BumpMinor(v), preid)
      [] type = "prepatch" -> BumpPre(BumpPatch(v), preid)
      [] type = "prerelease" -> BumpPre(StartPrerelease(v), preid)

--------------------------------------------------------------------------------
(* A tag as written: fields of the core, whether one has a leading zero or *)
(* "v" comes first, pre-release identifiers and whether metadata follow.   *)
Tags ==
    [component : Components, v : BOOLEAN, core : Seq(0..MaxUint), zeros : BOOLEAN,
     pre : Seq(Idents), build : BOOLEAN]

TrustShaped(pre) == pre # <<>> /\ pre[1][1] = 1 /\ pre[1][2] \in ShapedTexts

(* classifyTrustSuffix: exactly a level and a numeral from 1, as large as  *)
(* an unsigned number may be.                                              *)
TrustSuffix(pre) ==
    /\ Len(pre) = 2
    /\ \E l \in 0..3 : pre[1][2] = LevelTexts[l]
    /\ IsNumeric(pre[2]) /\ pre[2][2] \in 1..MaxUint

ParsesStrictly(tag) ==
    /\ tag.v /\ Len(tag.core) = 3 /\ ~tag.zeros /\ ~tag.build
    /\ TrustShaped(tag.pre) => TrustSuffix(tag.pre)

(* MUTANT of ParsesLeniently: a malformed trust suffix passes for a plain  *)
(* pre-release.                                                            *)
ParsesAsDonor(tag) == ParsesStrictly(tag) \/ tag.component = NoComponent

(* ParseLenient: short, v-less, zero-padded and built forms are coerced,   *)
(* with no component, and never with a trust shape.                        *)
ParsesLeniently(tag) ==
    ParsesStrictly(tag) \/ (tag.component = NoComponent /\ ~TrustShaped(tag.pre))

(* The version of a tag that parses.                                       *)
VersionOf(tag) ==
    LET core == [i \in 1..3 |-> IF i <= Len(tag.core) THEN tag.core[i] ELSE 0]
    IN  IF TrustShaped(tag.pre) /\ ParsesStrictly(tag)
        THEN [component |-> tag.component, core |-> core, pre |-> <<>>,
              trust |-> [level |-> CHOOSE l \in 0..3 : LevelTexts[l] = tag.pre[1][2],
                         iteration |-> tag.pre[2][2]]]
        ELSE [Clean(tag.component, core) EXCEPT !.pre = tag.pre]

(* String: the canonical tag of a version.                                 *)
TagOf(v) ==
    [component |-> v.component, v |-> TRUE, core |-> v.core, zeros |-> FALSE,
     pre |-> PrereleaseIdents(v), build |-> FALSE]
==============================================================================
