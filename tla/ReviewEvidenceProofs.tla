------------------------- MODULE ReviewEvidenceProofs -------------------------
(***************************************************************************)
(* What holds of every classified commit, whatever the policies, the keys  *)
(* and their holders, and the attestations that were made and filed.       *)
(***************************************************************************)
EXTENDS ReviewEvidence, FiniteSetTheorems, WellFoundedInduction, TLAPS

(* An attestation has a digest, names commits, and was signed with a key.  *)
Statement(e) ==
    /\ e.digest \in Digests /\ e.subjects \subseteq Commits /\ e.signer \in Credentials
    /\ e.predicate # "none"

(* The invariant: every filed and every pending attestation was made.      *)
IInv ==
    /\ policy \in Policies
    /\ commit \in Lines[policy]
    /\ filed \in [Commits -> SUBSET made]
    /\ pending \in Seq([subject : Commits, envelope : made])
    /\ \A e \in made : Statement(e)
    /\ \A e, f \in made : e.digest = f.digest => e = f

(* Sequences: as functions, and their parts.                               *)
LEMMA SequenceOf ==
  ASSUME NEW S, NEW n \in Nat, NEW f \in [1..n -> S] PROVE f \in Seq(S)
  OBVIOUS

LEMMA SequenceParts ==
  ASSUME NEW S, NEW s \in Seq(S)
  PROVE  /\ \A i \in DOMAIN s : s[i] \in S
         /\ s # <<>> => Head(s) \in S /\ Tail(s) \in Seq(S)
  OBVIOUS

LEMMA RangeMembers ==
  ASSUME NEW subjects \in SubjectLists
  PROVE  /\ subjects \in Seq(Commits) /\ DOMAIN subjects \in SUBSET Nat
         /\ Len(subjects) \in Nat /\ DOMAIN subjects = 1..Len(subjects)
         /\ Members(subjects) \subseteq Commits
<1>1. PICK from \in 0..Length, to \in Commits : subjects = RangeOf(from, to)
  BY DEF SubjectLists
<1>2. Length \in Nat
  BY ReviewAssumption
<1>3. CASE to - from \in Nat
  <2>1. subjects \in [1..(to - from) -> Commits]
    BY <1>1, <1>2, <1>3 DEF RangeOf, Commits
  <2>2. subjects \in Seq(Commits)
    BY <2>1, <1>3
  <2>3. QED
    BY <2>2 DEF Members
<1>4. CASE to - from \notin Nat
  <2>1. 1..(to - from) = {}
    BY <1>1, <1>2, <1>4 DEF Commits
  <2>2. subjects = <<>>
    BY <1>1, <2>1 DEF RangeOf
  <2>3. QED
    BY <2>2 DEF SubjectLists
<1>5. QED
  BY <1>3, <1>4

(* A finished envelope keeps the invariant.                                *)
LEMMA EmitKeeps ==
  ASSUME IInv, NEW e, NEW subjects \in Seq(Commits), Statement(e), Emit(e, subjects),
         \A f \in made : e.digest # f.digest
  PROVE  IInv'
<1>1. /\ policy' = policy /\ commit' = commit /\ filed' = filed
      /\ made' = made \cup {e}
  BY DEF Emit
<1>2. pending' \in Seq([subject : Commits, envelope : made'])
  <2>1. Len(subjects) \in Nat /\ DOMAIN subjects = 1..Len(subjects)
    OBVIOUS
  <2>2. pending' = [i \in 1..Len(subjects) |-> [subject |-> subjects[i], envelope |-> e]]
    BY <2>1 DEF Emit
  <2>3. pending' \in [1..Len(subjects) -> [subject : Commits, envelope : made']]
    BY <1>1, <2>1, <2>2
  <2>4. QED
    BY <2>1, <2>3, SequenceOf
<1>3. filed' \in [Commits -> SUBSET made']
  BY <1>1 DEF IInv
<1>4. \A f \in made' : Statement(f)
  BY <1>1 DEF IInv
<1>5. \A f, g \in made' : f.digest = g.digest => f = g
  BY <1>1 DEF IInv
<1>6. QED
  BY <1>1, <1>2, <1>3, <1>4, <1>5 DEF IInv

(* The sets the variables range over, and the uniqueness of digests, hold  *)
(* in every state.                                                         *)
LEMMA InvariantInit == ASSUME Init PROVE IInv
<1>1. pending \in Seq([subject : Commits, envelope : made])
  BY DEF Init
<1>2. QED
  BY <1>1 DEF Init, IInv

LEMMA InvariantStep == ASSUME IInv, [Next]_vars PROVE IInv'
<1>1. CASE AttestReview01
  <2>1. PICK d \in FreeDigests, signer \in Credentials, r \in Reviews01[policy], subjects \in SubjectLists :
          Emit(Review01(signer, r, subjects, d), subjects)
    BY <1>1 DEF AttestReview01
  <2>2. /\ Statement(Review01(signer, r, subjects, d)) /\ subjects \in Seq(Commits)
        /\ \A f \in made : Review01(signer, r, subjects, d).digest # f.digest
    BY RangeMembers DEF Statement, Review01, FreeDigests
  <2>3. QED
    BY <2>1, <2>2, EmitKeeps
<1>2. CASE AttestReview02
  <2>1. PICK d \in FreeDigests, signer \in Credentials, r \in Reviews02[policy], subjects \in SubjectLists :
          Emit(Review02(signer, r, subjects, d), subjects)
    BY <1>2 DEF AttestReview02
  <2>2. /\ Statement(Review02(signer, r, subjects, d)) /\ subjects \in Seq(Commits)
        /\ \A f \in made : Review02(signer, r, subjects, d).digest # f.digest
    BY RangeMembers DEF Statement, Review02, FreeDigests
  <2>3. QED
    BY <2>1, <2>2, EmitKeeps
<1>3. CASE AttestRelease
  <2>1. PICK d \in FreeDigests, signer \in Credentials, c \in Commits :
          Emit([predicate |-> "release", digest |-> d, subjects |-> {c}, signer |-> signer], <<c>>)
    BY <1>3 DEF AttestRelease
  <2>2. Statement([predicate |-> "release", digest |-> d, subjects |-> {c}, signer |-> signer])
    BY DEF Statement, FreeDigests
  <2>3. <<c>> \in Seq(Commits)
    OBVIOUS
  <2>4. QED
    BY <2>1, <2>2, <2>3, EmitKeeps DEF FreeDigests
<1>4. CASE Put
  <2>1. /\ pending # <<>> /\ pending \in Seq([subject : Commits, envelope : made])
        /\ UNCHANGED <<policy, commit, made>>
        /\ pending' = Tail(pending)
        /\ filed' = [filed EXCEPT ![Head(pending).subject] = @ \cup {Head(pending).envelope}]
    BY <1>4 DEF Put, IInv
  <2>2. Head(pending) \in [subject : Commits, envelope : made]
    BY <2>1, SequenceParts
  <2>3. Tail(pending) \in Seq([subject : Commits, envelope : made])
    BY <2>1, SequenceParts
  <2>4. Head(pending).subject \in Commits /\ Head(pending).envelope \in made
    BY <2>2
  <2>5. filed' \in [Commits -> SUBSET made]
    BY <2>1, <2>4 DEF IInv
  <2>6. QED
    BY <2>1, <2>3, <2>5 DEF IInv
<1>5. CASE Crash
  <2>1. pending' = <<>> /\ UNCHANGED <<policy, commit, filed, made>>
    BY <1>5 DEF Crash
  <2>2. pending' \in Seq([subject : Commits, envelope : made'])
    BY <2>1
  <2>3. QED
    BY <2>1, <2>2 DEF IInv
<1>6. CASE Refile
  BY <1>6 DEF Refile, IInv
<1>7. CASE UNCHANGED vars
  BY <1>7 DEF vars, IInv
<1>8. QED
  BY <1>1, <1>2, <1>3, <1>4, <1>5, <1>6, <1>7 DEF Next

THEOREM EvidenceInvariant == Spec => []IInv
<1>1. Init => IInv
  BY InvariantInit
<1>2. IInv /\ [Next]_vars => IInv'
  BY InvariantStep
<1>3. QED
  BY <1>1, <1>2, PTL DEF Spec

(* Type correctness: what is filed was made, and no two attestations have  *)
(* one digest.                                                             *)
THEOREM EvidenceTypes == Spec => []TypeOK
<1>1. IInv => TypeOK
  <2>1. SUFFICES ASSUME IInv PROVE TypeOK
    OBVIOUS
  <2>2. \A i \in DOMAIN pending : pending[i] \in [subject : Commits, envelope : made]
    BY <2>1, SequenceParts DEF IInv
  <2>3. QED
    BY <2>1, <2>2 DEF IInv, TypeOK
<1>2. QED
  BY <1>1, EvidenceInvariant, PTL

(* Of several digests one is the least.                                    *)
LEMMA LeastDigest ==
  ASSUME NEW S \in SUBSET made, S # {}, \A e \in made : Statement(e)
  PROVE  \E e \in S : \A f \in S : e.digest <= f.digest
<1> DEFINE T == {e.digest : e \in S}
<1>1. T \subseteq Nat /\ T # {}
  BY ReviewAssumption DEF Statement, Digests
<1>2. \E x \in T : \A y \in T : ~(<<y, x>> \in OpToRel(<, Nat))
  <2> HIDE DEF T
  <2>1. QED
    BY <1>1, NatLessThanWellFounded, WFMin
<1>3. PICK x \in T : \A y \in T : ~(<<y, x>> \in OpToRel(<, Nat))
  BY <1>2
<1>4. \A y \in T : x <= y
  <2>1. \A a, b \in Nat : a < b => <<a, b>> \in OpToRel(<, Nat)
    BY DEF OpToRel
  <2>2. x \in Nat /\ \A y \in T : y \in Nat /\ ~(y < x)
    BY <1>1, <1>3, <2>1
  <2>3. QED
    BY <2>2
<1>5. QED
  BY <1>4

(* The statement that classifies a commit is filed under it; when it counts*)
(* as a review it names the commit.                                        *)
LEMMA ConsumedFiled ==
  ASSUME IInv, NEW c \in Commits, ~Aborts(c), Consumed(c).predicate = "v0.2"
  PROVE  /\ Consumed(c) \in made /\ c \in Consumed(c).subjects
         /\ Consumed(c).signer \in DOMAIN policy.actors
         /\ commit[c].signer \in DOMAIN policy.actors
<1>1. Consumed(c) # NoStatement
  BY DEF NoStatement
<1>2. Consumed(c) = FirstStop(c) /\ Stops(c) # {}
  BY <1>1 DEF Consumed, FirstStop
<1>3. Stops(c) \in SUBSET made
  BY DEF Stops, IInv
<1>4. \E e \in Stops(c) : \A f \in Stops(c) : e.digest <= f.digest
  BY <1>2, <1>3, LeastDigest DEF IInv
<1>5. Consumed(c) \in Stops(c)
  BY <1>2, <1>4 DEF FirstStop
<1>6. ~Unverified(Consumed(c)) /\ ~NeedsActor(Consumed(c), c)
  BY <1>1 DEF Aborts
<1>7. ~Skipped(Consumed(c), c)
  BY <1>5, <1>6 DEF Stops
<1>8. QED
  BY <1>3, <1>5, <1>6, <1>7 DEF Skipped, SubjectCovers, NeedsActor, Mapped

(* A human authorship means a human holds the key, an approval that counts *)
(* as a human's means a human made it and, for a commit of a human, another*)
(* one.                                                                    *)
LEMMA WhoCounts ==
  ASSUME IInv, NEW c \in Commits, NEW e \in made, e.predicate = "v0.2",
         commit[c].signer \in Credentials,
         e.signer \in DOMAIN policy.actors, commit[c].signer \in DOMAIN policy.actors
  PROVE  /\ Authorship(c) = "human" => Holder[commit[c].signer] \in Humans
         /\ ReviewBy(e, c) = "human_distinct" => Holder[e.signer] \in Humans
         /\ Authorship(c) = "human" /\ ReviewBy(e, c) = "human_distinct"
              => Holder[e.signer] # Holder[commit[c].signer]
<1>1. Truthful(policy)
  BY ReviewAssumption DEF IInv
<1>2. /\ policy.bots = {k \in Credentials : Holder[k] \notin Humans}
      /\ policy.actors[e.signer] = Holder[e.signer]
      /\ policy.actors[commit[c].signer] = Holder[commit[c].signer]
  BY <1>1 DEF Truthful
<1>3. Authorship(c) = "human" => IdentityClass(commit[c].signer) = "human"
  BY DEF Authorship, ClassifyAuthorship, NoTrailer
<1>4. Authorship(c) = "human" => Holder[commit[c].signer] \in Humans
  BY <1>2, <1>3 DEF IdentityClass
<1>5. ReviewBy(e, c) = QualifyReview(Authorship(c), QualificationOf(e, c))
  BY DEF ReviewBy
<1>6. ASSUME ReviewBy(e, c) = "human_distinct"
      PROVE  /\ QualificationOf(e, c).reviewerClass # "agent"
             /\ Qualified(QualificationOf(e, c))
             /\ Authorship(c) = "human"
                  => QualificationOf(e, c).reviewerActor # QualificationOf(e, c).authorActor
  BY <1>5, <1>6 DEF QualifyReview, NoReview
<1>7. ASSUME ReviewBy(e, c) = "human_distinct"
      PROVE  Holder[e.signer] \in Humans
  BY <1>2, <1>6, <1>7 DEF QualificationOf, ActorClass
<1>8. ASSUME ReviewBy(e, c) = "human_distinct", Authorship(c) = "human"
      PROVE  Holder[e.signer] # Holder[commit[c].signer]
  BY <1>2, <1>6, <1>8 DEF QualificationOf, Qualified
<1>9. QED
  BY <1>4, <1>7, <1>8

(* A set of humans holds as many as are known of it.                       *)
LEMMA AtLeast ==
  ASSUME NEW S \in SUBSET Humans
  PROVE  /\ Cardinality(S) \in Nat
         /\ \A x \in S : Cardinality(S) >= 1
         /\ \A x, y \in S : x # y => Cardinality(S) >= 2
<1>1. IsFiniteSet(S)
  BY HumansAssumption, FS_Subset
<1>2. Cardinality(S) \in Nat
  BY <1>1, FS_CardinalityType
<1>3. ASSUME NEW x \in S PROVE Cardinality(S) >= 1
  BY <1>1, <1>2, FS_EmptySet
<1>4. ASSUME NEW x \in S, NEW y \in S, x # y PROVE Cardinality(S) >= 2
  BY <1>1, <1>2, <1>4, FS_EmptySet, FS_Singleton
<1>5. QED
  BY <1>2, <1>3, <1>4

(* No qualified review makes a level count more humans than stand behind   *)
(* the commit: not through second keys, claimed actors, machines, reviews  *)
(* of other commits or attestations filed where they do not belong.        *)
THEOREM LevelsCountHumans == Spec => []HumansCounted
<1>1. IInv => HumansCounted
  <2>1. SUFFICES ASSUME IInv, NEW c \in Commits, ~Aborts(c), Consumed(c).predicate = "v0.2"
                 PROVE  HumansOf(Level(c)) <= Cardinality(StandsBehind(c))
    BY DEF HumansCounted
  <2> DEFINE e == Consumed(c)
             author == Authorship(c)
             review == ReviewBy(e, c)
  <2>2. /\ e \in made /\ c \in e.subjects
        /\ e.signer \in DOMAIN policy.actors /\ commit[c].signer \in DOMAIN policy.actors
    BY <2>1, ConsumedFiled
  <2>3. commit[c].signer \in Credentials
    BY <2>1, LinesAssumption DEF IInv
  <2>4. /\ author = "human" => Holder[commit[c].signer] \in Humans
        /\ review = "human_distinct" => Holder[e.signer] \in Humans
        /\ author = "human" /\ review = "human_distinct"
              => Holder[e.signer] # Holder[commit[c].signer]
    BY <2>1, <2>2, <2>3, WhoCounts
  <2>5. StandsBehind(c) \in SUBSET Humans
    BY DEF StandsBehind
  <2>6. author = "human" => Holder[commit[c].signer] \in StandsBehind(c)
    BY <2>4 DEF StandsBehind
  <2>7. review = "human_distinct" => Holder[e.signer] \in StandsBehind(c)
    BY <2>2, <2>4 DEF StandsBehind
  <2>8. Level(c) = AssignLevel(author, review)
    BY DEF Level
  <2> HIDE DEF e, author, review
  <2>9. CASE author = "human" /\ review = "human_distinct"
    <3>1. Level(c) = 3
      BY <2>8, <2>9 DEF AssignLevel
    <3>2. Cardinality(StandsBehind(c)) >= 2
      BY <2>4, <2>5, <2>6, <2>7, <2>9, AtLeast
    <3>3. QED
      BY <3>1, <3>2, <2>5, AtLeast DEF HumansOf
  <2>10. CASE (author = "human") # (review = "human_distinct")
    <3>1. Level(c) = 2
      BY <2>8, <2>10 DEF AssignLevel
    <3>2. Cardinality(StandsBehind(c)) >= 1
      BY <2>5, <2>6, <2>7, <2>10, AtLeast
    <3>3. QED
      BY <3>1, <3>2, <2>5, AtLeast DEF HumansOf
  <2>11. CASE author # "human" /\ review # "human_distinct"
    <3>1. Level(c) \in {0, 1}
      BY <2>8, <2>11 DEF AssignLevel
    <3>2. QED
      BY <3>1, <2>5, AtLeast DEF HumansOf
  <2>12. QED
    BY <2>9, <2>10, <2>11
<1>2. QED
  BY <1>1, EvidenceInvariant, PTL

(* A qualified review lifts one commit only, the one it says was merged.   *)
THEOREM ReviewLiftsOne == Spec => []OneResult
<1>1. IInv => OneResult
  <2>1. SUFFICES ASSUME NEW c \in Commits, NEW d \in Commits, c # d,
                        Consumed(c).predicate = "v0.2", Consumed(c) = Consumed(d),
                        ReviewBy(Consumed(c), c) # NoReview, ReviewBy(Consumed(d), d) # NoReview
                 PROVE  FALSE
    BY DEF OneResult
  <2>2. /\ Qualified(QualificationOf(Consumed(c), c))
        /\ Qualified(QualificationOf(Consumed(d), d))
    BY <2>1 DEF ReviewBy, QualifyReview
  <2>3. Consumed(c).result = c /\ Consumed(d).result = d
    BY <2>2 DEF Qualified, QualificationOf
  <2>4. QED
    BY <2>1, <2>3
<1>2. QED
  BY <1>1, EvidenceInvariant, PTL

--------------------------------------------------------------------------------
(* The level of an authorship and a review of a statement, for any author: *)
(* only the signer's class lifts it, whatever trailer and statement say,   *)
(* and what is lost by leaving the trailer out is a required human claim.  *)
TrailerFacts(bound, bare, author, signer, provenance, required) ==
    /\ author <= bound
    /\ author > bare => required /\ signer = "human" /\ provenance = "human"

LEMMA TrailerLifts ==
  ASSUME NEW signer \in IdentityClasses, NEW provenance, NEW required \in BOOLEAN,
         NEW r, NEW q
  PROVE  LET bare   == ClassifyAuthorship(signer, NoTrailer, required)
             author == ClassifyAuthorship(signer, provenance, required)
         IN  /\ TrailerFacts(AssignLevel(signer, NoReview), AssignLevel(bare, NoReview),
                             AssignLevel(author, NoReview), signer, provenance, required)
             /\ TrailerFacts(AssignLevel(signer, ClassifyReview(signer, r)),
                             AssignLevel(bare, ClassifyReview(bare, r)),
                             AssignLevel(author, ClassifyReview(author, r)),
                             signer, provenance, required)
             /\ TrailerFacts(AssignLevel(signer, QualifyReview(signer, q)),
                             AssignLevel(bare, QualifyReview(bare, q)),
                             AssignLevel(author, QualifyReview(author, q)),
                             signer, provenance, required)
<1> DEFINE bare   == ClassifyAuthorship(signer, NoTrailer, required)
           author == ClassifyAuthorship(signer, provenance, required)
<1>1. author = "human" => signer = "human"
  BY DEF ClassifyAuthorship, NoTrailer
<1>2. signer \in {"human", "agent"}
  BY DEF IdentityClasses
<1>3. \/ author # "human"
      \/ bare = "human"
      \/ required /\ signer = "human" /\ provenance = "human"
  BY DEF ClassifyAuthorship, NoTrailer
<1> HIDE DEF bare, author
<1>4. TrailerFacts(AssignLevel(signer, NoReview), AssignLevel(bare, NoReview),
                   AssignLevel(author, NoReview), signer, provenance, required)
  BY <1>1, <1>2, <1>3 DEF AssignLevel, NoReview, TrailerFacts
<1>5. TrailerFacts(AssignLevel(signer, ClassifyReview(signer, r)),
                   AssignLevel(bare, ClassifyReview(bare, r)),
                   AssignLevel(author, ClassifyReview(author, r)), signer, provenance, required)
  BY <1>1, <1>2, <1>3 DEF AssignLevel, ClassifyReview, NoReview, TrailerFacts
<1>6. TrailerFacts(AssignLevel(signer, QualifyReview(signer, q)),
                   AssignLevel(bare, QualifyReview(bare, q)),
                   AssignLevel(author, QualifyReview(author, q)), signer, provenance, required)
  BY <1>1, <1>2, <1>3 DEF AssignLevel, QualifyReview, NoReview, TrailerFacts
<1> QED BY <1>4, <1>5, <1>6 DEF bare, author

(* No trailer earns a commit more than its signer's class supports, and    *)
(* only a required claim of a human signer earns more than silence: with   *)
(* every policy, statement and review.                                     *)
THEOREM SignersBoundTrailers == Spec => []TrailersBounded
<1>1. IInv => TrailersBounded
  <2>1. SUFFICES ASSUME IInv, NEW c \in Commits
                 PROVE  LET signer == IdentityClass(commit[c].signer)
                            bare   == ClassifyAuthorship(signer, NoTrailer, policy.required)
                        IN  TrailerFacts(LevelBy(signer, c), LevelBy(bare, c), Level(c),
                                         signer, Provenance(c), policy.required)
    BY DEF TrailersBounded, TrailerFacts
  <2>2. PICK required \in BOOLEAN : required = policy.required
    BY <2>1, ReviewAssumption DEF IInv, PolicyType
  <2>3. PICK signer \in IdentityClasses : signer = IdentityClass(commit[c].signer)
    BY DEF IdentityClass, IdentityClasses
  <2>4. PICK provenance : provenance = Provenance(c)
    OBVIOUS
  <2>5. PICK e : e = Consumed(c)
    OBVIOUS
  <2>6. PICK r : r = FactsOf(e, c)
    OBVIOUS
  <2>7. PICK q : q = QualificationOf(e, c)
    OBVIOUS
  <2> DEFINE bare == ClassifyAuthorship(signer, NoTrailer, required)
             author == ClassifyAuthorship(signer, provenance, required)
             LevelOf(a) == AssignLevel(a, IF e.predicate = "v0.1" THEN ClassifyReview(a, r)
                                          ELSE IF e.predicate = "v0.2" THEN QualifyReview(a, q)
                                          ELSE NoReview)
  <2>8. LevelBy(signer, c) = LevelOf(signer) /\ LevelBy(bare, c) = LevelOf(bare)
    BY <2>5, <2>6, <2>7 DEF LevelBy
  <2>9. Level(c) = LevelOf(author)
    BY <2>2, <2>3, <2>4, <2>5, <2>6, <2>7 DEF Level, ReviewBy, Authorship
  <2>10. TrailerFacts(LevelOf(signer), LevelOf(bare), LevelOf(author),
                      signer, provenance, required)
    BY TrailerLifts
  <2> QED BY <2>2, <2>3, <2>4, <2>8, <2>9, <2>10
<1>2. QED
  BY <1>1, EvidenceInvariant, PTL

--------------------------------------------------------------------------------
(* The statement that ends the search is one of those that would, with the *)
(* least digest, and no statement at all only when none would.             *)
StopsLeast ==
    \A c \in Commits :
        /\ Stops(c) \subseteq made
        /\ Stops(c) = {} => FirstStop(c) = NoStatement
        /\ Stops(c) # {} =>
              /\ FirstStop(c) \in Stops(c) /\ FirstStop(c) # NoStatement
              /\ \A f \in Stops(c) : FirstStop(c).digest <= f.digest

LEMMA FirstStopLeast == IInv => StopsLeast
<1> SUFFICES ASSUME IInv, NEW c \in Commits
             PROVE  /\ Stops(c) \subseteq made
                    /\ Stops(c) = {} => FirstStop(c) = NoStatement
                    /\ Stops(c) # {} =>
                          /\ FirstStop(c) \in Stops(c) /\ FirstStop(c) # NoStatement
                          /\ \A f \in Stops(c) : FirstStop(c).digest <= f.digest
  BY DEF StopsLeast
<1>1. Stops(c) \in SUBSET made
  BY DEF Stops, IInv
<1>2. Stops(c) = {} => FirstStop(c) = NoStatement
  BY DEF FirstStop
<1>3. ASSUME Stops(c) # {}
      PROVE  /\ FirstStop(c) \in Stops(c) /\ FirstStop(c) # NoStatement
             /\ \A f \in Stops(c) : FirstStop(c).digest <= f.digest
  <2>1. \E e \in Stops(c) : \A f \in Stops(c) : e.digest <= f.digest
    BY <1>1, <1>3, LeastDigest DEF IInv
  <2>2. /\ FirstStop(c) \in Stops(c)
        /\ \A f \in Stops(c) : FirstStop(c).digest <= f.digest
    BY <1>3, <2>1 DEF FirstStop
  <2>3. FirstStop(c).predicate # "none"
    BY <1>1, <2>2 DEF IInv, Statement
  <2> QED BY <2>2, <2>3 DEF NoStatement
<1> QED BY <1>1, <1>2, <1>3

(* A step changes neither the policy nor the commits, and files, never     *)
(* removes.                                                                *)
LEMMA FilingGrows ==
  ASSUME IInv, [Next]_vars
  PROVE  /\ policy' = policy /\ commit' = commit
         /\ \A c \in Commits : filed[c] \subseteq filed'[c]
         /\ made \subseteq made'
<1>1. CASE AttestReview01
  BY <1>1 DEF AttestReview01, Emit
<1>2. CASE AttestReview02
  BY <1>2 DEF AttestReview02, Emit
<1>3. CASE AttestRelease
  BY <1>3 DEF AttestRelease, Emit
<1>4. CASE Put
  BY <1>4 DEF Put, IInv
<1>5. CASE Crash
  BY <1>5 DEF Crash
<1>6. CASE Refile
  BY <1>6 DEF Refile, IInv
<1>7. CASE UNCHANGED vars
  BY <1>7 DEF vars
<1> QED
  BY <1>1, <1>2, <1>3, <1>4, <1>5, <1>6, <1>7 DEF Next

(* When only statements that do not name a commit are filed under it, what *)
(* is added to those that end the search are statements nobody enrolled    *)
(* signed.                                                                 *)
LEMMA StopsAdded ==
  ASSUME policy' = policy, commit' = commit, NEW c \in Commits, filed[c] \subseteq filed'[c],
         \A e \in filed'[c] \ filed[c] : c \notin e.subjects
  PROVE  /\ Stops(c) \subseteq Stops(c)'
         /\ \A e \in Stops(c)' : e \in Stops(c) \/ e.signer \notin policy.attesters
<1>1. \A e : Skipped(e, c)' <=> Skipped(e, c)
  BY DEF Skipped, SubjectCovers
<1>2. \A e : Unverified(e)' <=> Unverified(e)
  BY DEF Unverified
<1>3. \A e \in filed'[c] \ filed[c] : Skipped(e, c)
  BY DEF Skipped, SubjectCovers
<1>4. Stops(c)' = {e \in filed'[c] : Unverified(e) \/ ~Skipped(e, c)}
  BY <1>1, <1>2 DEF Stops
<1> QED BY <1>3, <1>4 DEF Stops, Unverified

(* What others file under a commit never changes its level: either its     *)
(* classification ends at the same statement as before, or verification    *)
(* fails.                                                                  *)
LEMMA OthersStep ==
  ASSUME IInv, [Next]_vars, NEW c \in Commits,
         \A e \in filed'[c] \ filed[c] : c \notin e.subjects
  PROVE  Aborts(c)' \/ (~Aborts(c) /\ Level(c)' = Level(c))
<1>1. policy' = policy /\ commit' = commit /\ filed[c] \subseteq filed'[c] /\ made \subseteq made'
  BY FilingGrows
<1>2. IInv'
  BY InvariantStep
<1>3. /\ Stops(c) \subseteq Stops(c)'
      /\ \A e \in Stops(c)' : e \in Stops(c) \/ e.signer \notin policy.attesters
  BY <1>1, StopsAdded
<1>4. /\ Stops(c) \subseteq made
      /\ Stops(c) = {} => FirstStop(c) = NoStatement
      /\ Stops(c) # {} =>
            /\ FirstStop(c) \in Stops(c) /\ FirstStop(c) # NoStatement
            /\ \A f \in Stops(c) : FirstStop(c).digest <= f.digest
  BY FirstStopLeast DEF StopsLeast
<1>5. /\ Stops(c)' \subseteq made'
      /\ Stops(c)' = {} => FirstStop(c)' = NoStatement
      /\ Stops(c)' # {} =>
            /\ FirstStop(c)' \in Stops(c)' /\ FirstStop(c)' # NoStatement
            /\ \A f \in Stops(c)' : FirstStop(c)'.digest <= f.digest
  <2>1. (IInv => StopsLeast)'
    BY FirstStopLeast, PTL
  <2> QED BY <1>2, <2>1 DEF StopsLeast, Commits
<1>6. ASSUME Consumed(c)' = Consumed(c)
      PROVE  /\ Aborts(c)' <=> Aborts(c)
             /\ Level(c)' = Level(c)
  <2>1. Authorship(c)' = Authorship(c)
    BY <1>1 DEF Authorship, IdentityClass, Provenance
  <2>2. PICK e : e = Consumed(c)
    OBVIOUS
  <2>3. FactsOf(e, c)' = FactsOf(e, c) /\ QualificationOf(e, c)' = QualificationOf(e, c)
    BY <1>1 DEF FactsOf, QualificationOf, ActorClass
  <2>4. ReviewBy(e, c)' = ReviewBy(e, c)
    BY <2>1, <2>3 DEF ReviewBy
  <2>5. Level(c)' = AssignLevel(Authorship(c)', ReviewBy(e, c)') /\ Level(c) = AssignLevel(Authorship(c), ReviewBy(e, c))
    BY <1>6, <2>2 DEF Level, ReviewBy, FactsOf, QualificationOf
  <2>6. (Unverified(e)' <=> Unverified(e)) /\ (NeedsActor(e, c)' <=> NeedsActor(e, c))
    BY <1>1 DEF Unverified, NeedsActor, Mapped
  <2>7. Aborts(c)' <=> (e # NoStatement /\ (Unverified(e)' \/ NeedsActor(e, c)'))
    BY <1>6, <2>2 DEF Aborts, Unverified, NeedsActor, Mapped
  <2>8. Aborts(c) <=> (e # NoStatement /\ (Unverified(e) \/ NeedsActor(e, c)))
    BY <2>2 DEF Aborts
  <2> QED BY <2>1, <2>4, <2>5, <2>6, <2>7, <2>8
<1>7. CASE policy.attesters = {}
  <2>1. Consumed(c)' = Consumed(c)
    BY <1>1, <1>7 DEF Consumed, NoStatement
  <2> QED BY <1>6, <2>1
<1>8. CASE policy.attesters # {} /\ Stops(c)' = {}
  <2>1. FirstStop(c) = NoStatement /\ FirstStop(c)' = NoStatement
    BY <1>3, <1>4, <1>5, <1>8
  <2>2. Consumed(c)' = Consumed(c)
    BY <1>1, <2>1 DEF Consumed
  <2> QED BY <1>6, <2>2
<1>9. CASE policy.attesters # {} /\ Stops(c)' # {} /\ FirstStop(c)' \in Stops(c)
  <2>1. FirstStop(c)'.digest <= FirstStop(c).digest /\ FirstStop(c).digest <= FirstStop(c)'.digest
    BY <1>3, <1>4, <1>5, <1>9
  <2>2. FirstStop(c) \in made /\ FirstStop(c)' \in made
    BY <1>3, <1>4, <1>9
  <2>3. FirstStop(c).digest \in Int /\ FirstStop(c)'.digest \in Int
    BY <2>2, ReviewAssumption DEF IInv, Statement, Digests
  <2>4. FirstStop(c).digest = FirstStop(c)'.digest
    BY <2>1, <2>3
  <2>5. FirstStop(c)' = FirstStop(c)
    BY <2>2, <2>4 DEF IInv
  <2>6. Consumed(c)' = Consumed(c)
    BY <1>1, <2>5 DEF Consumed
  <2> QED BY <1>6, <2>6
<1>10. CASE policy.attesters # {} /\ Stops(c)' # {} /\ FirstStop(c)' \notin Stops(c)
  <2>1. FirstStop(c)' \in Stops(c)' /\ FirstStop(c)' # NoStatement
    BY <1>5, <1>10
  <2>2. FirstStop(c)'.signer \notin policy.attesters
    BY <1>3, <1>10, <2>1
  <2>3. Consumed(c)' = FirstStop(c)'
    BY <1>1, <1>10 DEF Consumed
  <2>4. Aborts(c)'
    BY <1>1, <2>1, <2>2, <2>3 DEF Aborts, Unverified
  <2> QED BY <2>4
<1> QED BY <1>7, <1>8, <1>9, <1>10

(* An attestation that does not name a commit, filed under it by whoever   *)
(* may push, neither changes its level nor clears what stops it.           *)
THEOREM OthersCannotTouch == Spec => OthersUntouched
<1>1. ASSUME IInv, [Next]_vars
      PROVE  [\A c \in Commits :
                (\A e \in filed'[c] \ filed[c] : c \notin e.subjects)
                   => Aborts(c)' \/ (~Aborts(c) /\ Level(c)' = Level(c))]_vars
  BY <1>1, OthersStep
<1>2. QED
  BY <1>1, EvidenceInvariant, PTL DEF Spec, OthersUntouched
==============================================================================
