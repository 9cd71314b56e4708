--------------------------- MODULE BootstrapProofs ---------------------------
(* What setup and enroll never do to a clone, whatever they are given and  *)
(* in whatever order they are run, stopped and run again: the types and    *)
(* the doctor's diagnosis however the commands overlap, the rest one       *)
(* command at a time.                                                      *)
EXTENDS Bootstrap, SequenceTheorems, FiniteSetTheorems, TLAPS

(* ---- registries as sequences of lines ---------------------------------- *)

(* Enrolment formats a line that is one, for the key it was given.         *)
LEMMA EnrolledLine ==
  ASSUME NEW who \in People \cup GPGKeys, NEW ns \in {"git", "attestation", "openpgp"},
         NEW key \in SSHKeys \cup GPGKeys
  PROVE  EnrollmentLine(who, ns, key) \in SignerLine /\ EnrollmentLine(who, ns, key).key = key
<1>1. <<who>> \in Seq(People \cup GPGKeys)
  OBVIOUS
<1>2. 0 \in Nat /\ Never \in Nat
  BY NeverAssumption
<1> QED BY <1>1, <1>2 DEF EnrollmentLine, SignerLine

(* Appending keeps the lines there are, in their places, and adds keys.    *)
LEMMA Appended ==
  ASSUME NEW s \in Seq(SignerLine), NEW t \in Seq(SignerLine)
  PROVE  /\ s \o t \in Seq(SignerLine)
         /\ KeysOf(s \o t) = KeysOf(s) \cup KeysOf(t)
         /\ IsPrefix(s, s \o t)
<1>1. s \o t \in Seq(SignerLine) /\ Len(s \o t) = Len(s) + Len(t)
  BY ConcatProperties
<1>2. \A i \in 1..(Len(s) + Len(t)) :
         (s \o t)[i] = IF i <= Len(s) THEN s[i] ELSE t[i - Len(s)]
  BY ConcatProperties
<1>3. KeysOf(s) \cup KeysOf(t) \subseteq KeysOf(s \o t)
  <2>1. ASSUME NEW i \in DOMAIN s PROVE s[i].key \in KeysOf(s \o t)
    <3>1. i \in DOMAIN (s \o t) /\ (s \o t)[i] = s[i]
      BY <1>1, <1>2
    <3> QED BY <3>1 DEF KeysOf
  <2>2. ASSUME NEW i \in DOMAIN t PROVE t[i].key \in KeysOf(s \o t)
    <3>1. (Len(s) + i) \in DOMAIN (s \o t) /\ (s \o t)[Len(s) + i] = t[i]
      BY <1>1, <1>2
    <3> QED BY <3>1 DEF KeysOf
  <2> QED BY <2>1, <2>2 DEF KeysOf
<1>4. KeysOf(s \o t) \subseteq KeysOf(s) \cup KeysOf(t)
  <2>1. SUFFICES ASSUME NEW i \in DOMAIN (s \o t)
                 PROVE  (s \o t)[i].key \in KeysOf(s) \cup KeysOf(t)
    BY DEF KeysOf
  <2>2. i \in 1..(Len(s) + Len(t))
    BY <1>1
  <2>3. CASE i <= Len(s)
    BY <1>2, <2>2, <2>3 DEF KeysOf
  <2>4. CASE ~(i <= Len(s))
    <3>1. (i - Len(s)) \in DOMAIN t /\ (s \o t)[i] = t[i - Len(s)]
      BY <1>2, <2>2, <2>4
    <3> QED BY <3>1 DEF KeysOf
  <2> QED BY <2>3, <2>4
<1>5. IsPrefix(s, s \o t)
  BY <1>1, <1>2 DEF IsPrefix
<1> QED BY <1>1, <1>3, <1>4, <1>5

LEMMA PrefixOfItself == ASSUME NEW s \in Seq(SignerLine) PROVE IsPrefix(s, s)
BY DEF IsPrefix

(* A line that goes takes no other with it.                                *)
LEMMA Removed ==
  ASSUME NEW s \in Seq(SignerLine), NEW i \in DOMAIN s
  PROVE  RemoveAt(s, i) \in Seq(SignerLine) /\ KeysOf(RemoveAt(s, i)) \subseteq KeysOf(s)
<1> DEFINE a == SubSeq(s, 1, i - 1)
           b == SubSeq(s, i + 1, Len(s))
<1>1. /\ a \in Seq(SignerLine) /\ b \in Seq(SignerLine)
      /\ \A j \in DOMAIN a : j \in DOMAIN s /\ a[j] = s[j]
      /\ \A j \in DOMAIN b : (i + j) \in DOMAIN s /\ b[j] = s[i + j]
  OBVIOUS
<1>2. KeysOf(a) \subseteq KeysOf(s) /\ KeysOf(b) \subseteq KeysOf(s)
  BY <1>1 DEF KeysOf
<1>3. RemoveAt(s, i) = a \o b
  BY DEF RemoveAt
<1> HIDE DEF a, b
<1> QED BY <1>1, <1>2, <1>3, Appended

(* A line whose window is closed keeps its key.                            *)
LEMMA Closed ==
  ASSUME NEW s \in Seq(SignerLine), NEW i \in DOMAIN s, NEW at \in Nat
  PROVE  /\ [s EXCEPT ![i].before = at] \in Seq(SignerLine)
         /\ KeysOf([s EXCEPT ![i].before = at]) = KeysOf(s)
<1> DEFINE t == [s EXCEPT ![i].before = at]
<1>1. s[i] \in SignerLine
  OBVIOUS
<1>2. [s[i] EXCEPT !.before = at] \in SignerLine /\ [s[i] EXCEPT !.before = at].key = s[i].key
  BY <1>1 DEF SignerLine
<1>3. t \in Seq(SignerLine) /\ DOMAIN t = DOMAIN s
  BY <1>2
<1>4. \A j \in DOMAIN s : t[j].key = s[j].key
  BY <1>2
<1> QED BY <1>3, <1>4 DEF KeysOf

(* ---- the invariant of the registries ----------------------------------- *)

Busy(p) == run[p].pc \notin Stopped

(* One command at a time, the fields a command is told by, and registries  *)
(* that are registries.                                                    *)
OneBusy ==
  /\ DOMAIN run = Procs /\ \A p \in Procs : "pc" \in DOMAIN run[p]
  /\ \A p, q \in Procs : Busy(p) /\ Busy(q) => p = q

FilesTyped == clone.email \in People \cup {Unset} /\ work \in [RegistryNames -> RegistryFile]

(* A registry that the policy does not declare holds hand-made lines only. *)
UndeclaredByHand ==
  \A r \in RegistryNames : r \in clone.declares \/
    \A k \in KeysOf(work[r].lines) : <<r, k>> \in byHand

(* The lines a command has built are ones, for a declared registry.        *)
AdditionTyped(a) == a.registry \in clone.declares \cap RegistryNames /\ a.lines \in Seq(SignerLine)

Other(r) == IF r = "signers" THEN "attest" ELSE "signers"

(* What is about to be written is the registry as it is now and the new    *)
(* lines, whose keys the other registry does not have but by hand.         *)
AdditionFresh(a) ==
  /\ a.content = work[a.registry].lines \o a.lines
  /\ a.registry = "keyring" \/
       \A k \in KeysOf(a.lines) \cap KeysOf(work[Other(a.registry)].lines) :
         <<Other(a.registry), k>> \in byHand

AdditionsReady ==
  \A p \in Procs :
    /\ run[p].pc = "shown" /\ run[p].tool = "enroll" =>
         \A a \in run[p].adds : AdditionTyped(a)
    /\ run[p].pc = "write" =>
         \A a \in run[p].adds : AdditionTyped(a) /\ AdditionFresh(a)

RegistryInv == OneBusy /\ FilesTyped /\ UndeclaredByHand /\ AdditionsReady /\ KeysApart

LEMMA RegistryInit == Init => RegistryInv
<1> SUFFICES ASSUME Init PROVE RegistryInv
  OBVIOUS
<1>1. PICK c \in Clones : clone = c.facts /\ work = c.work
  BY DEF Init
<1>2. OneBusy /\ AdditionsReady
  BY DEF Init, OneBusy, AdditionsReady, Busy, Idle, Stopped
<1>3. FilesTyped
  BY <1>1, ClonesAssumption DEF FilesTyped
<1>4. UndeclaredByHand
  <2>1. KeysOf(<<>>) = {}
    BY DEF KeysOf
  <2> QED BY <1>1, <2>1, ClonesAssumption DEF UndeclaredByHand
<1>5. KeysApart
  BY <1>1, ClonesAssumption DEF KeysApart
<1> QED BY <1>2, <1>3, <1>4, <1>5 DEF RegistryInv

(* A command that nothing else runs beside.                                *)
LEMMA QuietMeans == ASSUME ~Concurrent, Quiet PROVE \A p \in Procs : ~Busy(p)
BY DEF Quiet, Busy

(* ---- enroll builds ------------------------------------------------------ *)

(* A line that is built is one, for a declared registry; its key is not in *)
(* the other registry, unless a person put it there.                       *)
LEMMA BuiltLine ==
  ASSUME RegistryInv, NEW inv \in EnrollCalls, ~EnrollRefused(inv), NEW t \in SSHTargets(inv)
  PROVE  /\ t.registry \in clone.declares \cap RegistryNames
         /\ <<NewLine(inv, t)>> \in Seq(SignerLine)
         /\ t.registry # "keyring"
         /\ \A k \in KeysOf(<<NewLine(inv, t)>>) \cap KeysOf(work[Other(t.registry)].lines) :
              <<Other(t.registry), k>> \in byHand
<1>1. /\ t.registry \in {"signers", "attest"} /\ t.namespace \in {"git", "attestation"}
      /\ t.cross = Other(t.registry)
  BY DEF SSHTargets, Other
<1>2. ~BuildRefused(inv, t) /\ Principal(inv) # Unset
  BY DEF EnrollRefused
<1>3. t.registry \in clone.declares /\ t.key \in SSHKeys
      /\ (t.cross \in clone.declares => t.key \notin KeysOf(work[t.cross].lines))
  BY <1>2 DEF BuildRefused
<1>4. Principal(inv) \in People
  BY <1>2, CallsAssumption DEF Principal, RegistryInv, FilesTyped
<1>5. NewLine(inv, t) \in SignerLine /\ NewLine(inv, t).key = t.key
  BY <1>1, <1>3, <1>4, EnrolledLine DEF NewLine
<1>6. <<NewLine(inv, t)>> \in Seq(SignerLine) /\ KeysOf(<<NewLine(inv, t)>>) = {t.key}
  BY <1>5 DEF KeysOf
<1>7. \A k \in KeysOf(work[Other(t.registry)].lines) :
         k = t.key => <<Other(t.registry), k>> \in byHand
  <2>1. Other(t.registry) \in RegistryNames
    BY DEF Other, RegistryNames
  <2>2. CASE Other(t.registry) \in clone.declares
    BY <1>1, <1>3, <2>2
  <2>3. CASE Other(t.registry) \notin clone.declares
    BY <2>1, <2>3 DEF RegistryInv, UndeclaredByHand
  <2> QED BY <2>2, <2>3
<1>8. t.registry \in clone.declares \cap RegistryNames /\ t.registry # "keyring"
  BY <1>1, <1>3 DEF RegistryNames
<1>9. \A k \in KeysOf(<<NewLine(inv, t)>>) \cap KeysOf(work[Other(t.registry)].lines) :
         <<Other(t.registry), k>> \in byHand
  BY <1>6, <1>7, Zenon
<1> QED BY <1>6, <1>8, <1>9, Zenon

LEMMA BuiltKeyring ==
  ASSUME NEW inv \in EnrollCalls, ~EnrollRefused(inv), inv.gpg # <<>>
  PROVE  "keyring" \in clone.declares /\ KeyBlocks(inv.gpg) \in Seq(SignerLine)
<1>1. "keyring" \in clone.declares /\ \A i \in DOMAIN inv.gpg : inv.gpg[i] \in GPGKeys
  BY DEF EnrollRefused, GPGRefused
<1>2. \A i \in DOMAIN inv.gpg : EnrollmentLine(inv.gpg[i], "openpgp", inv.gpg[i]) \in SignerLine
  BY <1>1, EnrolledLine
<1>3. Len(inv.gpg) \in Nat /\ DOMAIN inv.gpg = 1..Len(inv.gpg)
  BY CallsAssumption
<1>4. KeyBlocks(inv.gpg) \in [1..Len(inv.gpg) -> SignerLine]
  BY <1>2, <1>3 DEF KeyBlocks
<1> QED BY <1>1, <1>3, <1>4, SeqDef

(* ---- steps that leave the registries alone ------------------------------ *)

Alone(p) == \A q \in Procs : Busy(q) => q = p

LEMMA OneBusyKept ==
  ASSUME OneBusy, NEW p \in Procs, Alone(p), NEW state, "pc" \in DOMAIN state,
         run' = [run EXCEPT ![p] = state]
  PROVE  OneBusy' /\ run'[p] = state /\ \A q \in Procs \ {p} : run'[q] = run[q]
<1>1. DOMAIN run' = Procs /\ run'[p] = state /\ \A q \in Procs \ {p} : run'[q] = run[q]
  BY DEF OneBusy
<1>2. \A q \in Procs \ {p} : ~Busy(q)'
  BY <1>1 DEF Alone, Busy
<1> QED BY <1>1, <1>2 DEF OneBusy, Busy

LEMMA GotoMeans ==
  ASSUME OneBusy, NEW p \in Procs, Alone(p), NEW pc, Goto(p, pc)
  PROVE  OneBusy' /\ run'[p].pc = pc /\ \A q \in Procs \ {p} : run'[q] = run[q]
<1>1. DOMAIN run' = Procs /\ run'[p] = [run[p] EXCEPT !.pc = pc]
      /\ \A q \in Procs \ {p} : run'[q] = run[q]
  BY DEF Goto, OneBusy
<1>2. run'[p].pc = pc /\ "pc" \in DOMAIN run'[p]
  BY <1>1 DEF OneBusy
<1>3. \A q \in Procs \ {p} : ~Busy(q)'
  BY <1>1 DEF Alone, Busy
<1> QED BY <1>1, <1>2, <1>3 DEF OneBusy, Busy

LEMMA QuietAlone == ASSUME ~Concurrent, Quiet PROVE \A p \in Procs : Alone(p)
BY QuietMeans DEF Alone

LEMMA BusyAlone == ASSUME OneBusy, NEW p \in Procs, Busy(p) PROVE Alone(p)
BY DEF OneBusy, Alone

(* Whoever goes on where they were, or to a place where nothing is about to*)
(* be written or pasted, disturbs nothing.                                 *)
LEMMA RegistriesUntouched ==
  ASSUME RegistryInv, OneBusy', UNCHANGED <<clone, work, byHand>>,
         \A q \in Procs : \/ run'[q] = run[q]
                          \/ /\ run'[q].pc # "write"
                             /\ run'[q].pc = "shown" => run'[q].tool # "enroll"
  PROVE  RegistryInv'
<1>1. FilesTyped' /\ UndeclaredByHand' /\ KeysApart'
  BY DEF RegistryInv, FilesTyped, UndeclaredByHand, KeysApart
<1>2. \A a : AdditionTyped(a)' = AdditionTyped(a) /\ AdditionFresh(a)' = AdditionFresh(a)
  BY DEF AdditionTyped, AdditionFresh
<1>3. ASSUME NEW q \in Procs
      PROVE  /\ run'[q].pc = "shown" /\ run'[q].tool = "enroll" =>
                  \A a \in run'[q].adds : AdditionTyped(a)
             /\ run'[q].pc = "write" =>
                  \A a \in run'[q].adds : AdditionTyped(a) /\ AdditionFresh(a)
  <2>1. CASE run'[q] = run[q]
    BY <2>1 DEF RegistryInv, AdditionsReady
  <2>2. CASE run'[q] # run[q]
    BY <2>2
  <2> QED BY <2>1, <2>2
<1>4. AdditionsReady'
  BY <1>2, <1>3 DEF AdditionsReady
<1> QED BY <1>1, <1>4 DEF RegistryInv

LEMMA SetupKeepsRegistries ==
  ASSUME ~Concurrent, RegistryInv, NEW p \in Procs, SetupStep(p)
  PROVE  RegistryInv'
<1>0. OneBusy
  BY DEF RegistryInv
<1>1. ASSUME NEW inv \in SetupCalls, SetupPlan(p, inv) PROVE RegistryInv'
  <2>1. Alone(p)
    BY <1>1, QuietAlone DEF SetupPlan
  <2> DEFINE plan == Compute(inv, config, fetch)
             state == [pc |-> IF SetupRefused(inv) THEN "refused"
                              ELSE IF inv.dry THEN "shown" ELSE "apply",
                       tool |-> "setup", inv |-> inv, plan |-> plan,
                       left |-> Writes(plan), fetched |-> plan.already,
                       before |-> [config |-> config, fetch |-> fetch]]
  <2>2. run' = [run EXCEPT ![p] = state]
    BY <1>1, Zenon DEF SetupPlan, Start
  <2>3. "pc" \in DOMAIN state /\ state.pc # "write" /\ state.tool = "setup"
    OBVIOUS
  <2> HIDE DEF state
  <2>4. OneBusy' /\ run'[p] = state /\ \A q \in Procs \ {p} : run'[q] = run[q]
    BY <1>0, <2>1, <2>2, <2>3, OneBusyKept
  <2>5. UNCHANGED <<clone, work, byHand>>
    BY <1>1 DEF SetupPlan, setupUnchanged
  <2>6. \A q \in Procs : \/ run'[q] = run[q]
                         \/ /\ run'[q].pc # "write"
                            /\ run'[q].pc = "shown" => run'[q].tool # "enroll"
    BY <2>3, <2>4
  <2> QED BY <2>4, <2>5, <2>6, RegistriesUntouched
<1>2. ASSUME run[p].pc = "apply", NEW state, run' = [run EXCEPT ![p] = state],
             "pc" \in DOMAIN state, state.pc = "apply",
             UNCHANGED <<clone, work, byHand>>
      PROVE  RegistryInv'
  <2>1. Alone(p)
    BY <1>0, <1>2, BusyAlone DEF Busy, Stopped
  <2>2. OneBusy' /\ run'[p] = state /\ \A q \in Procs \ {p} : run'[q] = run[q]
    BY <1>0, <1>2, <2>1, OneBusyKept
  <2>3. \A q \in Procs : \/ run'[q] = run[q]
                         \/ /\ run'[q].pc # "write"
                            /\ run'[q].pc = "shown" => run'[q].tool # "enroll"
    BY <1>2, <2>2
  <2> QED BY <1>2, <2>2, <2>3, RegistriesUntouched
<1>3. CASE SetupWrite(p)
  <2>1. PICK left : run' = [run EXCEPT ![p].left = left]
    BY <1>3 DEF SetupWrite
  <2>2. run' = [run EXCEPT ![p] = [run[p] EXCEPT !.left = left]]
    BY <2>1
  <2>3. run[p].pc = "apply" /\ UNCHANGED <<clone, work, byHand>>
    BY <1>3 DEF SetupWrite, setupUnchanged
  <2>4. "pc" \in DOMAIN [run[p] EXCEPT !.left = left] /\ [run[p] EXCEPT !.left = left].pc = "apply"
    BY <1>0, <2>3 DEF OneBusy
  <2> QED BY <1>2, <2>2, <2>3, <2>4
<1>4. CASE SetupAddFetch(p)
  <2>1. run' = [run EXCEPT ![p] = [run[p] EXCEPT !.fetched = TRUE]]
    BY <1>4 DEF SetupAddFetch
  <2>2. run[p].pc = "apply" /\ UNCHANGED <<clone, work, byHand>>
    BY <1>4 DEF SetupAddFetch, setupUnchanged
  <2>3. "pc" \in DOMAIN [run[p] EXCEPT !.fetched = TRUE] /\ [run[p] EXCEPT !.fetched = TRUE].pc = "apply"
    BY <1>0, <2>2 DEF OneBusy
  <2> QED BY <1>2, <2>1, <2>2, <2>3
<1>5. ASSUME NEW pc \in {"done", "failed"}, run[p].pc = "apply", Goto(p, pc),
             UNCHANGED <<clone, work, byHand>>
      PROVE  RegistryInv'
  <2>1. Alone(p)
    BY <1>0, <1>5, BusyAlone DEF Busy, Stopped
  <2>2. OneBusy' /\ run'[p].pc = pc /\ \A q \in Procs \ {p} : run'[q] = run[q]
    BY <1>0, <1>5, <2>1, GotoMeans
  <2> QED BY <1>5, <2>2, RegistriesUntouched
<1>6. CASE SetupDone(p)
  BY <1>5, <1>6 DEF SetupDone, setupUnchanged
<1>7. CASE SetupFails(p)
  BY <1>5, <1>7 DEF SetupFails, setupUnchanged
<1> QED BY <1>1, <1>3, <1>4, <1>6, <1>7 DEF SetupStep

(* ---- steps that write registries, and those that are about to ----------- *)

LEMMA EnrollKeepsApart ==
  ASSUME ~Concurrent, RegistryInv, NEW p \in Procs, EnrollStep(p)
  PROVE  RegistryInv'
<1>0. OneBusy /\ FilesTyped /\ UndeclaredByHand /\ KeysApart
  BY DEF RegistryInv
<1>1. ASSUME NEW inv \in EnrollCalls, EnrollBuild(p, inv) PROVE RegistryInv'
  <2> DEFINE refused == EnrollRefused(inv)
             adds == IF refused THEN {}
                     ELSE {[registry |-> a.registry, lines |-> a.lines,
                            content |-> Existing(a.registry) \o a.lines] : a \in Additions(inv)}
             state == [pc |-> IF refused THEN "refused"
                              ELSE IF inv.mode = "write" THEN "write" ELSE "shown",
                       tool |-> "enroll", inv |-> inv, adds |-> adds]
  <2>1. Alone(p)
    BY <1>1, QuietAlone DEF EnrollBuild
  <2>2. run' = [run EXCEPT ![p] = state] /\ UNCHANGED <<clone, work, byHand>>
    BY <1>1, Zenon DEF EnrollBuild, Start, enrollUnchanged
  <2>3. "pc" \in DOMAIN state /\ state.adds = adds
    OBVIOUS
  <2>4. ASSUME NEW a \in adds PROVE AdditionTyped(a) /\ AdditionFresh(a)
    <3>1. ~EnrollRefused(inv)
      BY <2>4
    <3> DEFINE Built(b) == [registry |-> b.registry, lines |-> b.lines,
                            content |-> Existing(b.registry) \o b.lines]
    <3>2. PICK b \in Additions(inv) : a = Built(b)
      BY <2>4, <3>1, Zenon
    <3>3. /\ a.registry = b.registry /\ a.lines = b.lines
          /\ a.content = work[a.registry].lines \o a.lines
      BY <3>2 DEF Existing
    <3>4. CASE \E t \in SSHTargets(inv) :
                 b = [registry |-> t.registry, lines |-> <<NewLine(inv, t)>>]
      <4>1. PICK t \in SSHTargets(inv) :
                 b = [registry |-> t.registry, lines |-> <<NewLine(inv, t)>>]
        BY <3>4
      <4>2. a.registry = t.registry /\ a.lines = <<NewLine(inv, t)>>
        BY <3>3, <4>1
      <4> QED BY <3>1, <3>3, <4>2, BuiltLine DEF AdditionTyped, AdditionFresh
    <3>5. CASE inv.gpg # <<>> /\ b = [registry |-> "keyring", lines |-> KeyBlocks(inv.gpg)]
      BY <3>1, <3>3, <3>5, BuiltKeyring DEF AdditionTyped, AdditionFresh, RegistryNames
    <3> QED BY <3>3, <3>4, <3>5 DEF Additions
  <2> HIDE DEF state, adds
  <2>5. OneBusy' /\ run'[p] = state /\ \A q \in Procs \ {p} : run'[q] = run[q]
    BY <1>0, <2>1, <2>2, <2>3, OneBusyKept
  <2>6. FilesTyped' /\ UndeclaredByHand' /\ KeysApart'
    BY <1>0, <2>2 DEF FilesTyped, UndeclaredByHand, KeysApart
  <2>7. \A a : AdditionTyped(a)' = AdditionTyped(a) /\ AdditionFresh(a)' = AdditionFresh(a)
    BY <2>2 DEF AdditionTyped, AdditionFresh
  <2>8. AdditionsReady'
    <3>1. ASSUME NEW q \in Procs
          PROVE  /\ run'[q].pc = "shown" /\ run'[q].tool = "enroll" =>
                      \A a \in run'[q].adds : AdditionTyped(a)
                 /\ run'[q].pc = "write" =>
                      \A a \in run'[q].adds : AdditionTyped(a) /\ AdditionFresh(a)
      <4>1. CASE q = p
        BY <2>3, <2>4, <2>5, <4>1
      <4>2. CASE q # p
        BY <2>5, <4>2 DEF RegistryInv, AdditionsReady
      <4> QED BY <4>1, <4>2
    <3> QED BY <2>7, <3>1 DEF AdditionsReady
  <2> QED BY <2>5, <2>6, <2>8 DEF RegistryInv
<1>2. CASE EnrollWrite(p)
  <2>1. PICK a \in run[p].adds :
           work' = [work EXCEPT ![a.registry] = Registry(a.content)]
    BY <1>2 DEF EnrollWrite
  <2>2. run[p].pc = "write" /\ Goto(p, "done") /\ UNCHANGED <<clone, byHand>>
    BY <1>2 DEF EnrollWrite, enrollUnchanged
  <2>3. AdditionTyped(a) /\ AdditionFresh(a)
    BY <2>1, <2>2 DEF RegistryInv, AdditionsReady
  <2>4. Alone(p)
    BY <1>0, <2>2, BusyAlone DEF Busy, Stopped
  <2>5. OneBusy' /\ run'[p].pc = "done" /\ \A q \in Procs \ {p} : run'[q] = run[q] /\ ~Busy(q)
    BY <1>0, <2>2, <2>4, GotoMeans DEF Alone
  <2> DEFINE r == a.registry
             old == work[r].lines
  <2>6. r \in RegistryNames /\ r \in clone.declares /\ a.lines \in Seq(SignerLine)
        /\ a.content = old \o a.lines /\ old \in Seq(SignerLine)
    BY <1>0, <2>3 DEF AdditionTyped, AdditionFresh, FilesTyped, RegistryFile
  <2>7. a.content \in Seq(SignerLine) /\ KeysOf(a.content) = KeysOf(old) \cup KeysOf(a.lines)
    BY <2>6, Appended
  <2>8. /\ work'[r].lines = a.content
        /\ \A o \in RegistryNames \ {r} : work'[o] = work[o]
    BY <1>0, <2>1, <2>6 DEF FilesTyped, Registry
  <2>9. FilesTyped'
    <3>1. Registry(a.content) \in RegistryFile
      BY <2>7 DEF Registry, RegistryFile, RegistryStates
    <3> QED BY <1>0, <2>1, <2>2, <3>1 DEF FilesTyped
  <2>10. UndeclaredByHand'
    BY <1>0, <2>2, <2>6, <2>8 DEF UndeclaredByHand
  <2>11. KeysApart'
    <3>1. CASE r = "keyring"
      <4>1. work'["signers"] = work["signers"] /\ work'["attest"] = work["attest"]
        BY <2>8, <3>1 DEF RegistryNames
      <4> QED BY <1>0, <2>2, <4>1 DEF KeysApart
    <3>2. CASE r = "signers"
      <4>1. /\ work'["attest"] = work["attest"] /\ work'["signers"].lines = a.content
            /\ \A k \in KeysOf(a.lines) \cap KeysOf(work["attest"].lines) : <<"attest", k>> \in byHand
        BY <2>3, <2>8, <3>2 DEF RegistryNames, AdditionFresh, Other
      <4> QED BY <1>0, <2>2, <2>7, <3>2, <4>1 DEF KeysApart
    <3>3. CASE r = "attest"
      <4>1. /\ work'["signers"] = work["signers"] /\ work'["attest"].lines = a.content
            /\ \A k \in KeysOf(a.lines) \cap KeysOf(work["signers"].lines) : <<"signers", k>> \in byHand
        BY <2>3, <2>8, <3>3 DEF RegistryNames, AdditionFresh, Other
      <4> QED BY <1>0, <2>2, <2>7, <3>3, <4>1 DEF KeysApart
    <3> QED BY <2>6, <3>1, <3>2, <3>3 DEF RegistryNames
  <2>12. AdditionsReady'
    <3>1. ASSUME NEW q \in Procs, NEW b \in run'[q].adds, run'[q].pc = "shown", run'[q].tool = "enroll"
          PROVE  AdditionTyped(b)'
      BY <2>2, <2>5, <3>1 DEF RegistryInv, AdditionsReady, AdditionTyped
    <3>2. \A q \in Procs : run'[q].pc # "write"
      BY <2>5 DEF Busy, Stopped
    <3> QED BY <3>1, <3>2 DEF AdditionsReady
  <2> QED BY <2>5, <2>9, <2>10, <2>11, <2>12 DEF RegistryInv
<1>3. CASE EnrollFails(p)
  <2>1. run[p].pc = "write" /\ Goto(p, "failed") /\ UNCHANGED <<clone, work, byHand>>
    BY <1>3 DEF EnrollFails, enrollUnchanged
  <2>2. Alone(p)
    BY <1>0, <2>1, BusyAlone DEF Busy, Stopped
  <2>3. OneBusy' /\ run'[p].pc = "failed" /\ \A q \in Procs \ {p} : run'[q] = run[q]
    BY <1>0, <2>1, <2>2, GotoMeans
  <2> QED BY <2>1, <2>3, RegistriesUntouched
<1> QED BY <1>1, <1>2, <1>3 DEF EnrollStep

(* ---- what people do ----------------------------------------------------- *)

(* Nothing runs and nothing starts: what is about to be written is nothing,*)
(* and a printed line stays a line.                                        *)
LEMMA AdditionsStay ==
  ASSUME ~Concurrent, RegistryInv, Quiet, UNCHANGED <<clone, run>>
  PROVE  OneBusy' /\ AdditionsReady'
<1>1. \A q \in Procs : run[q].pc # "write"
  BY QuietMeans DEF Busy, Stopped
<1>2. OneBusy'
  BY DEF RegistryInv, OneBusy, Busy
<1>3. \A a : AdditionTyped(a)' = AdditionTyped(a)
  BY DEF AdditionTyped
<1> QED BY <1>1, <1>2, <1>3 DEF RegistryInv, AdditionsReady

LEMMA RevokeMeans ==
  ASSUME work \in [RegistryNames -> RegistryFile], Revoke
  PROVE  \E r \in RegistryNames, lines \in Seq(SignerLine) :
           /\ work[r].lines # <<>> /\ KeysOf(lines) \subseteq KeysOf(work[r].lines)
           /\ work' = [work EXCEPT ![r] = [work[r] EXCEPT !.lines = lines]]
<1>1. PICK r \in {"signers", "attest"} : \E i \in DOMAIN work[r].lines :
         \/ work' = [work EXCEPT ![r].lines[i].before = MaxTime]
         \/ work' = [work EXCEPT ![r].lines = RemoveAt(@, i)]
  BY DEF Revoke
<1>2. PICK i \in DOMAIN work[r].lines :
         \/ work' = [work EXCEPT ![r].lines[i].before = MaxTime]
         \/ work' = [work EXCEPT ![r].lines = RemoveAt(@, i)]
  BY <1>1
<1>3. r \in RegistryNames /\ work[r].lines \in Seq(SignerLine) /\ work[r].lines # <<>>
  BY <1>2 DEF RegistryFile, RegistryNames
<1>4. CASE work' = [work EXCEPT ![r].lines[i].before = MaxTime]
  <2>1. work' = [work EXCEPT ![r] = [work[r] EXCEPT !.lines = [work[r].lines EXCEPT ![i].before = MaxTime]]]
    BY <1>4
  <2> QED BY <1>3, <2>1, Closed, NamesAssumption
<1>5. CASE work' = [work EXCEPT ![r].lines = RemoveAt(@, i)]
  <2>1. work' = [work EXCEPT ![r] = [work[r] EXCEPT !.lines = RemoveAt(work[r].lines, i)]]
    BY <1>5
  <2> QED BY <1>3, <2>1, Removed
<1> QED BY <1>2, <1>4, <1>5

LEMMA PeopleKeepApart ==
  ASSUME ~Concurrent, RegistryInv,
         (\E p \in Procs : Paste(p)) \/ Merge \/ Revoke
  PROVE  RegistryInv'
<1>0. OneBusy /\ FilesTyped /\ UndeclaredByHand /\ KeysApart
  BY DEF RegistryInv
<1>1. Quiet /\ UNCHANGED <<clone, run>>
  BY DEF Paste, Merge, Revoke, Edit, settingsUnchanged
<1>2. OneBusy' /\ AdditionsReady'
  BY <1>1, AdditionsStay
(* Lines a person brings are remembered.                                   *)
<1>3. ASSUME NEW r \in RegistryNames, NEW lines \in Seq(SignerLine),
             work' = [work EXCEPT ![r] = Registry(work[r].lines \o lines)],
             byHand' = byHand \cup {<<r, k>> : k \in KeysOf(lines)}
      PROVE  RegistryInv'
  <2>1. work[r].lines \in Seq(SignerLine)
    BY <1>0 DEF FilesTyped, RegistryFile
  <2>2. /\ work'[r] = Registry(work[r].lines \o lines)
        /\ \A o \in RegistryNames \ {r} : work'[o] = work[o]
    BY <1>0, <1>3 DEF FilesTyped
  <2>3. /\ work[r].lines \o lines \in Seq(SignerLine)
        /\ KeysOf(work[r].lines \o lines) = KeysOf(work[r].lines) \cup KeysOf(lines)
    BY <1>3, <2>1, Appended
  <2>4. Registry(work[r].lines \o lines) \in RegistryFile
    BY <2>3 DEF Registry, RegistryFile, RegistryStates
  <2>5. FilesTyped'
    BY <1>0, <1>1, <1>3, <2>4 DEF FilesTyped
  <2>6. \A o \in RegistryNames : \A k \in KeysOf(work'[o].lines) :
           k \in KeysOf(work[o].lines) \/ <<o, k>> \in byHand'
    <3>1. work'[r].lines = work[r].lines \o lines
      BY <2>2 DEF Registry
    <3>2. \A k \in KeysOf(lines) : <<r, k>> \in byHand'
      BY <1>3
    <3> QED BY <2>2, <2>3, <3>1, <3>2
  <2>7. byHand \subseteq byHand'
    BY <1>3
  <2>8. UndeclaredByHand'
    BY <1>0, <1>1, <2>6, <2>7 DEF UndeclaredByHand
  <2>9. KeysApart'
    BY <1>0, <2>6, <2>7 DEF KeysApart, RegistryNames
  <2> QED BY <1>2, <2>5, <2>8, <2>9 DEF RegistryInv
<1>4. ASSUME NEW p \in Procs, Paste(p) PROVE RegistryInv'
  <2>1. PICK a \in run[p].adds :
           /\ work' = [work EXCEPT ![a.registry] = Registry(work[a.registry].lines \o a.lines)]
           /\ byHand' = byHand \cup {<<a.registry, k>> : k \in KeysOf(a.lines)}
           /\ run[p].pc = "shown" /\ run[p].tool = "enroll"
    <3>1. PICK a \in run[p].adds :
             /\ work' = [work EXCEPT ![a.registry] = Registry(@.lines \o a.lines)]
             /\ byHand' = byHand \cup {<<a.registry, k>> : k \in KeysOf(a.lines)}
      BY <1>4 DEF Paste
    <3> QED BY <1>4, <3>1 DEF Paste
  <2>2. AdditionTyped(a)
    BY <2>1 DEF RegistryInv, AdditionsReady
  <2> QED BY <1>3, <2>1, <2>2 DEF AdditionTyped
<1>5. CASE Merge
  <2>1. PICK t \in TeamLines :
           /\ work' = [work EXCEPT ![t.registry] = Registry(Append(work[t.registry].lines, t.line))]
           /\ byHand' = byHand \cup {<<t.registry, t.line.key>>}
    BY <1>5 DEF Merge
  <2>2. t.registry \in RegistryNames /\ t.line \in SignerLine
    BY CallsAssumption
  <2>3. <<t.line>> \in Seq(SignerLine) /\ KeysOf(<<t.line>>) = {t.line.key}
    BY <2>2 DEF KeysOf
  <2>4. work[t.registry].lines \in Seq(SignerLine)
    BY <1>0, <2>2 DEF FilesTyped, RegistryFile
  <2>5. Append(work[t.registry].lines, t.line) = work[t.registry].lines \o <<t.line>>
    BY <2>2, <2>4, AppendIsConcat
  <2>6. byHand' = byHand \cup {<<t.registry, k>> : k \in KeysOf(<<t.line>>)}
    BY <2>1, <2>3
  <2> QED BY <1>3, <2>1, <2>2, <2>3, <2>5, <2>6
<1>6. CASE Revoke
  <2>3. PICK r \in RegistryNames, lines \in Seq(SignerLine) :
           /\ KeysOf(lines) \subseteq KeysOf(work[r].lines)
           /\ work' = [work EXCEPT ![r] = [work[r] EXCEPT !.lines = lines]]
    BY <1>0, <1>6, RevokeMeans DEF FilesTyped
  <2>2. r \in RegistryNames /\ work[r] \in RegistryFile
    BY <1>0, <2>3 DEF FilesTyped
  <2>4. [work[r] EXCEPT !.lines = lines] \in RegistryFile
        /\ [work[r] EXCEPT !.lines = lines].lines = lines
    BY <2>2 DEF RegistryFile
  <2>5. FilesTyped'
    BY <1>0, <1>1, <2>2, <2>3, <2>4 DEF FilesTyped
  <2>6. \A o \in RegistryNames : KeysOf(work'[o].lines) \subseteq KeysOf(work[o].lines)
    BY <1>0, <2>2, <2>3, <2>4 DEF FilesTyped
  <2>7. UNCHANGED byHand
    BY <1>6 DEF Revoke
  <2>8. UndeclaredByHand' /\ KeysApart'
    BY <1>0, <1>1, <2>6, <2>7 DEF UndeclaredByHand, KeysApart, RegistryNames
  <2> QED BY <1>2, <2>5, <2>8 DEF RegistryInv
<1> QED BY <1>4, <1>5, <1>6

LEMMA RegistryStep ==
  ASSUME ~Concurrent, RegistryInv, [Next]_cloneVars
  PROVE  RegistryInv'
<1>0. OneBusy
  BY DEF RegistryInv
<1>1. CASE UNCHANGED <<clone, work, byHand, run>>
  BY <1>0, <1>1, RegistriesUntouched DEF OneBusy, Busy
<1>2. ASSUME NEW p \in Procs, Die(p) PROVE RegistryInv'
  <2>1. Busy(p) /\ Goto(p, "died") /\ UNCHANGED <<clone, work, byHand>>
    BY <1>2 DEF Die, Busy
  <2>2. Alone(p)
    BY <1>0, <2>1, BusyAlone
  <2>3. OneBusy' /\ run'[p].pc = "died" /\ \A q \in Procs \ {p} : run'[q] = run[q]
    BY <1>0, <2>1, <2>2, GotoMeans
  <2> QED BY <2>1, <2>3, RegistriesUntouched
<1>3. CASE (\E p \in Procs : RunReceipt(p)) \/ Commit \/ Configure \/ Tick
  BY <1>1, <1>3 DEF RunReceipt, Commit, Configure, Tick, registriesUnchanged
<1> QED BY <1>1, <1>2, <1>3, SetupKeepsRegistries, EnrollKeepsApart, PeopleKeepApart
        DEF Next, cloneVars

(* However often enroll is run, with whatever stopped half-way, removed,   *)
(* pasted or merged between its runs: no key signs both commits and        *)
(* attestations unless a person put one of its lines in (BuildSSH).        *)
THEOREM EnrollKeepsKeysApart ==
  ASSUME ~Concurrent PROVE Spec => []KeysApart
<1>1. Init => RegistryInv
  BY RegistryInit
<1>2. RegistryInv /\ [Next]_cloneVars => RegistryInv'
  BY RegistryStep
<1>3. RegistryInv => KeysApart
  BY DEF RegistryInv
<1> QED BY <1>1, <1>2, <1>3, PTL DEF Spec

(* A run of enroll takes out or moves no line, although it replaces the    *)
(* whole file by one it built earlier (WriteFile).                         *)
THEOREM EnrollAppends ==
  ASSUME ~Concurrent PROVE Spec => EnrollOnlyAppends
<1>1. ASSUME RegistryInv, NEW p \in Procs, EnrollStep(p), NEW r \in RegistryNames
      PROVE  IsPrefix(work[r].lines, work'[r].lines)
  <2>0. work[r].lines \in Seq(SignerLine)
    BY <1>1 DEF RegistryInv, FilesTyped, RegistryFile
  <2>1. CASE work' = work
    BY <2>0, <2>1, PrefixOfItself
  <2>2. CASE EnrollWrite(p)
    <3>1. PICK a \in run[p].adds :
             work' = [work EXCEPT ![a.registry] = Registry(a.content)]
      BY <2>2 DEF EnrollWrite
    <3>2. AdditionTyped(a) /\ AdditionFresh(a)
      BY <1>1, <2>2, <3>1 DEF EnrollWrite, RegistryInv, AdditionsReady
    <3>3. CASE r = a.registry
      <4>1. work'[r].lines = work[r].lines \o a.lines /\ a.lines \in Seq(SignerLine)
        BY <1>1, <3>1, <3>2, <3>3 DEF RegistryInv, FilesTyped, AdditionTyped, AdditionFresh, Registry
      <4> QED BY <2>0, <4>1, Appended
    <3>4. CASE r # a.registry
      <4>1. work'[r] = work[r]
        BY <1>1, <3>1, <3>4 DEF RegistryInv, FilesTyped
      <4> QED BY <2>0, <4>1, PrefixOfItself
    <3> QED BY <3>3, <3>4
  <2>3. work' = work \/ EnrollWrite(p)
    BY <1>1 DEF EnrollStep, EnrollBuild, EnrollFails
  <2> QED BY <2>1, <2>2, <2>3
<1>2. Init => RegistryInv
  BY RegistryInit
<1>3. RegistryInv /\ [Next]_cloneVars => RegistryInv'
  BY RegistryStep
<1>4. RegistryInv => [\A p \in Procs : EnrollStep(p) =>
          \A r \in RegistryNames : IsPrefix(work[r].lines, work'[r].lines)]_cloneVars
  BY <1>1
<1> QED BY <1>2, <1>3, <1>4, PTL DEF Spec, EnrollOnlyAppends

(* ---- the signing key ----------------------------------------------------- *)

(* One place of a plan wants the signing key, and all are managed keys.    *)
LEMMA OneSigningKey ==
  ASSUME NEW inv
  PROVE  \A i \in DOMAIN DesiredKeys(inv) :
           /\ DesiredKeys(inv)[i].key \in ManagedKeys
           /\ DesiredKeys(inv)[i].key = "user.signingkey" => i = 2
<1> DEFINE Want(k, v) == [key |-> k, value |-> v]
           keys == IF inv.ssh # Unset
                     THEN <<Want("gpg.format", "ssh"), Want("user.signingkey", inv.ssh)>>
                     ELSE <<Want("gpg.format", "openpgp"), Want("user.signingkey", inv.gpg)>>
           sign == <<Want("commit.gpgsign", "true")>>
           template == IF clone.gitmessage
                         THEN <<Want("commit.template", "gitmessage")>> ELSE <<>>
           signers == IF inv.ssh # Unset /\ work["signers"].state \in {"parsed", "broken"}
                        THEN <<Want("gpg.ssh.allowedSignersFile", "signers")>> ELSE <<>>
           W == [key : ManagedKeys, value : {"ssh", "openpgp", "true", "gitmessage", "signers",
                                              inv.ssh, inv.gpg}]
           Others(q) == \A i \in DOMAIN q : q[i].key # "user.signingkey"
<1>1. DesiredKeys(inv) = ((keys \o sign) \o template) \o signers
  BY DEF DesiredKeys, Want
<1> HIDE DEF Want
<1>2. \A k \in ManagedKeys : \A v \in {"ssh", "openpgp", "true", "gitmessage", "signers",
                                       inv.ssh, inv.gpg} :
         Want(k, v) \in W /\ Want(k, v).key = k
  BY DEF Want
<1>k. {"gpg.format", "user.signingkey", "commit.gpgsign", "commit.template",
       "gpg.ssh.allowedSignersFile"} \subseteq ManagedKeys
  BY DEF ManagedKeys
<1> HIDE DEF W
(* One want that is not of the signing key, or none.                       *)
<1>o. ASSUME NEW q, NEW w \in W, w.key # "user.signingkey", q = <<w>> \/ q = <<>>
      PROVE  q \in Seq(W) /\ Others(q)
  <2>1. CASE q = <<w>>
    BY <1>o, <2>1
  <2>2. CASE q = <<>>
    BY <2>2
  <2> QED BY <1>o, <2>1, <2>2
<1>t. ASSUME NEW q, NEW w \in W, NEW x \in W, w.key # "user.signingkey", q = <<w, x>>
      PROVE  q \in Seq(W) /\ \A i \in DOMAIN q : q[i].key = "user.signingkey" => i = 2
  BY <1>t
<1>7. keys \in Seq(W) /\ \A i \in DOMAIN keys : keys[i].key = "user.signingkey" => i = 2
  <2>1. CASE inv.ssh # Unset
    BY <1>2, <1>k, <1>t, <2>1
  <2>2. CASE ~(inv.ssh # Unset)
    BY <1>2, <1>k, <1>t, <2>2
  <2> QED BY <2>1, <2>2
<1>3. sign \in Seq(W) /\ Others(sign)
  BY <1>2, <1>k, <1>o
<1>4. template \in Seq(W) /\ Others(template)
  <2>1. template = <<Want("commit.template", "gitmessage")>> \/ template = <<>>
    OBVIOUS
  <2> HIDE DEF template
  <2> QED BY <1>2, <1>k, <1>o, <2>1
<1>5. signers \in Seq(W) /\ Others(signers)
  <2>1. signers = <<Want("gpg.ssh.allowedSignersFile", "signers")>> \/ signers = <<>>
    OBVIOUS
  <2> HIDE DEF signers
  <2> QED BY <1>2, <1>k, <1>o, <2>1
<1> HIDE DEF keys, sign, template, signers
(* What follows the first two places moves none of them.                   *)
<1>6. ASSUME NEW s \in Seq(W), NEW t \in Seq(W), Others(t),
             \A i \in DOMAIN s : s[i].key = "user.signingkey" => i = 2
      PROVE  /\ s \o t \in Seq(W)
             /\ \A i \in DOMAIN (s \o t) : (s \o t)[i].key = "user.signingkey" => i = 2
  <2>1. s \o t \in Seq(W) /\ Len(s \o t) = Len(s) + Len(t)
    BY ConcatProperties
  <2>2. \A i \in 1..(Len(s) + Len(t)) :
           (s \o t)[i] = IF i <= Len(s) THEN s[i] ELSE t[i - Len(s)]
    BY ConcatProperties
  <2>3. ASSUME NEW i \in DOMAIN (s \o t), (s \o t)[i].key = "user.signingkey" PROVE i = 2
    <3>1. i \in 1..(Len(s) + Len(t))
      BY <2>1
    <3>2. CASE i <= Len(s)
      BY <1>6, <2>2, <2>3, <3>1, <3>2
    <3>3. CASE ~(i <= Len(s))
      <4>1. (i - Len(s)) \in DOMAIN t /\ (s \o t)[i] = t[i - Len(s)]
        BY <2>2, <3>1, <3>3
      <4> QED BY <1>6, <2>3, <4>1
    <3> QED BY <3>2, <3>3
  <2> QED BY <2>1, <2>3
<1>8. /\ DesiredKeys(inv) \in Seq(W)
      /\ \A i \in DOMAIN DesiredKeys(inv) : DesiredKeys(inv)[i].key = "user.signingkey" => i = 2
  <2>1. /\ keys \o sign \in Seq(W)
        /\ \A i \in DOMAIN (keys \o sign) : (keys \o sign)[i].key = "user.signingkey" => i = 2
    BY <1>3, <1>6, <1>7
  <2>2. /\ (keys \o sign) \o template \in Seq(W)
        /\ \A i \in DOMAIN ((keys \o sign) \o template) :
             ((keys \o sign) \o template)[i].key = "user.signingkey" => i = 2
    BY <1>4, <1>6, <2>1
  <2>3. /\ ((keys \o sign) \o template) \o signers \in Seq(W)
        /\ \A i \in DOMAIN (((keys \o sign) \o template) \o signers) :
             (((keys \o sign) \o template) \o signers)[i].key = "user.signingkey" => i = 2
    BY <1>5, <1>6, <2>2
  <2> QED BY <1>1, <2>3
<1>9. ASSUME NEW s \in Seq(W), NEW i \in DOMAIN s PROVE s[i].key \in ManagedKeys
  <2>1. s[i] \in W
    OBVIOUS
  <2> QED BY <2>1 DEF W
<1> QED BY <1>8, <1>9

(* A change that is left to write has a managed key; the one of the signing*)
(* key finds none there.                                                   *)
ChangesReady ==
  \A p \in Procs : run[p].pc = "apply" => "left" \in DOMAIN run[p] /\
    \A i \in run[p].left :
      /\ run[p].plan.changes[i].key \in ManagedKeys
      /\ run[p].plan.changes[i].key = "user.signingkey" =>
           i = 2 /\ config["user.signingkey"] = Unset

SettingsInv == OneBusy /\ DOMAIN config = ManagedKeys /\ ChangesReady

LEMMA SettingsInit == Init => SettingsInv
<1> SUFFICES ASSUME Init PROVE SettingsInv
  OBVIOUS
<1>1. OneBusy /\ ChangesReady
  BY DEF Init, OneBusy, ChangesReady, Busy, Idle, Stopped
<1>2. DOMAIN config = ManagedKeys
  BY ClonesAssumption DEF Init
<1> QED BY <1>1, <1>2 DEF SettingsInv

(* What a plan writes: the signing key where there is none, with --force or*)
(* without (ActionFor).                                                    *)
LEMMA PlanReady ==
  ASSUME NEW inv, NEW i \in Writes(Compute(inv, config, fetch))
  PROVE  LET c == Compute(inv, config, fetch).changes[i]
         IN  /\ c.key \in ManagedKeys
             /\ c.key = "user.signingkey" => i = 2 /\ config["user.signingkey"] = Unset
<1> DEFINE wants == DesiredKeys(inv)
           Change(j) == [key |-> wants[j].key, desired |-> wants[j].value,
                         current |-> config[wants[j].key],
                         action |-> ActionFor(inv, wants[j], config[wants[j].key])]
<1> HIDE DEF wants
<1>1. Compute(inv, config, fetch).changes = [j \in DOMAIN wants |-> Change(j)]
  BY DEF Compute, wants
<1>2. i \in DOMAIN wants /\ Compute(inv, config, fetch).changes[i] = Change(i)
      /\ Change(i).action \in {"set", "forced"}
  BY <1>1 DEF Writes
<1>3. wants[i].key \in ManagedKeys /\ (wants[i].key = "user.signingkey" => i = 2)
  BY <1>2, OneSigningKey DEF wants
<1>4. ActionFor(inv, wants[i], config[wants[i].key]) \in {"set", "forced"}
  BY <1>2
<1>5. wants[i].key = "user.signingkey" => config[wants[i].key] = Unset
  BY <1>4 DEF ActionFor
<1> QED BY <1>2, <1>3, <1>5

LEMMA SettingsUntouched ==
  ASSUME SettingsInv, OneBusy', UNCHANGED config,
         \A q \in Procs : run'[q] = run[q] \/ run'[q].pc # "apply"
  PROVE  SettingsInv'
<1>1. ASSUME NEW q \in Procs, run'[q].pc = "apply", NEW i \in run'[q].left
      PROVE  /\ run'[q].plan.changes[i].key \in ManagedKeys
             /\ run'[q].plan.changes[i].key = "user.signingkey" =>
                  i = 2 /\ config'["user.signingkey"] = Unset
  <2>1. run'[q] = run[q]
    BY <1>1
  <2> QED BY <1>1, <2>1 DEF SettingsInv, ChangesReady
<1>2. ASSUME NEW q \in Procs, run'[q].pc = "apply" PROVE "left" \in DOMAIN run'[q]
  <2>1. run'[q] = run[q]
    BY <1>2
  <2> QED BY <1>2, <2>1 DEF SettingsInv, ChangesReady
<1>3. ChangesReady'
  BY <1>1, <1>2 DEF ChangesReady
<1> QED BY <1>3 DEF SettingsInv

LEMMA SetupKeepsSettings ==
  ASSUME ~Concurrent, SettingsInv, OneBusy', NEW p \in Procs, SetupStep(p)
  PROVE  /\ SettingsInv'
         /\ config["user.signingkey"] \in {Unset, config'["user.signingkey"]}
<1>0. DOMAIN run = Procs /\ DOMAIN config = ManagedKeys /\ "user.signingkey" \in ManagedKeys
  BY DEF SettingsInv, OneBusy, ManagedKeys
<1>1. ASSUME NEW inv \in SetupCalls, SetupPlan(p, inv)
      PROVE  SettingsInv' /\ UNCHANGED config
  <2> DEFINE plan == Compute(inv, config, fetch)
             state == [pc |-> IF SetupRefused(inv) THEN "refused"
                              ELSE IF inv.dry THEN "shown" ELSE "apply",
                       tool |-> "setup", inv |-> inv, plan |-> plan,
                       left |-> Writes(plan), fetched |-> plan.already,
                       before |-> [config |-> config, fetch |-> fetch]]
  <2>1. run' = [run EXCEPT ![p] = state]
    BY <1>1, Zenon DEF SetupPlan, Start
  <2>2. UNCHANGED config
    BY <1>1 DEF SetupPlan
  <2> HIDE DEF plan
  <2>3. state.left = Writes(plan) /\ state.plan = plan /\ "left" \in DOMAIN state
    OBVIOUS
  <2> HIDE DEF state
  <2>4. run'[p] = state /\ \A q \in Procs \ {p} : run'[q] = run[q]
    BY <1>0, <2>1
  <2>5. \A i \in Writes(plan) :
           /\ plan.changes[i].key \in ManagedKeys
           /\ plan.changes[i].key = "user.signingkey" =>
                i = 2 /\ config["user.signingkey"] = Unset
    BY PlanReady, Zenon DEF plan
  <2>6. \A q \in Procs : run'[q].pc = "apply" => "left" \in DOMAIN run'[q] /\
           \A i \in run'[q].left :
             /\ run'[q].plan.changes[i].key \in ManagedKeys
             /\ run'[q].plan.changes[i].key = "user.signingkey" =>
                  i = 2 /\ config["user.signingkey"] = Unset
    <3>0. \A q \in Procs \ {p} : run'[q].pc = "apply" => "left" \in DOMAIN run'[q]
      BY <2>4 DEF SettingsInv, ChangesReady
    <3>1. ASSUME NEW q \in Procs \ {p}, run'[q].pc = "apply", NEW i \in run'[q].left
          PROVE  /\ run'[q].plan.changes[i].key \in ManagedKeys
                 /\ run'[q].plan.changes[i].key = "user.signingkey" =>
                      i = 2 /\ config["user.signingkey"] = Unset
      BY <2>4, <3>1 DEF SettingsInv, ChangesReady
    <3> QED BY <2>3, <2>4, <2>5, <3>0, <3>1
  <2> QED BY <2>2, <2>6 DEF SettingsInv, ChangesReady
<1>2. ASSUME SetupWrite(p)
      PROVE  SettingsInv' /\ config["user.signingkey"] \in {Unset, config'["user.signingkey"]}
  <2>1. PICK i \in run[p].left :
           /\ config' = [config EXCEPT ![run[p].plan.changes[i].key] = run[p].plan.changes[i].desired]
           /\ run' = [run EXCEPT ![p] = [run[p] EXCEPT !.left = @ \ {i}]]
    BY <1>2 DEF SetupWrite
  <2>2. run[p].pc = "apply"
    BY <1>2 DEF SetupWrite
  <2> DEFINE c == run[p].plan.changes[i]
  <2>3. c.key \in ManagedKeys
        /\ (c.key = "user.signingkey" => i = 2 /\ config["user.signingkey"] = Unset)
    BY <2>1, <2>2 DEF SettingsInv, ChangesReady
  <2>4. DOMAIN config' = ManagedKeys
        /\ (c.key # "user.signingkey" => config'["user.signingkey"] = config["user.signingkey"])
    BY <1>0, <2>1
  <2>5. run'[p] = [run[p] EXCEPT !.left = @ \ {i}] /\ \A q \in Procs \ {p} : run'[q] = run[q]
    BY <1>0, <2>1
  <2>6. /\ run'[p].plan = run[p].plan
        /\ run'[p].left \subseteq run[p].left /\ i \notin run'[p].left
        /\ "left" \in DOMAIN run'[p]
    BY <2>2, <2>5 DEF SettingsInv, ChangesReady
  <2>7. \A q \in Procs \ {p} : run'[q].pc # "apply"
    BY <2>2, <2>5 DEF SettingsInv, OneBusy, Busy, Stopped
  <2>8. ASSUME NEW j \in run'[p].left
        PROVE  /\ run'[p].plan.changes[j].key \in ManagedKeys
               /\ run'[p].plan.changes[j].key = "user.signingkey" =>
                    j = 2 /\ config'["user.signingkey"] = Unset
    <3>1. j \in run[p].left /\ j # i
      BY <2>6, <2>8
    <3>2. /\ run[p].plan.changes[j].key \in ManagedKeys
          /\ run[p].plan.changes[j].key = "user.signingkey" =>
               j = 2 /\ config["user.signingkey"] = Unset
      BY <2>2, <3>1 DEF SettingsInv, ChangesReady
    <3> QED BY <2>3, <2>4, <2>6, <3>1, <3>2
  <2>9. ChangesReady'
    BY <2>6, <2>7, <2>8 DEF ChangesReady
  <2> QED BY <2>3, <2>4, <2>9 DEF SettingsInv
<1>3. ASSUME SetupAddFetch(p) PROVE SettingsInv' /\ UNCHANGED config
  <2>1. run' = [run EXCEPT ![p] = [run[p] EXCEPT !.fetched = TRUE]]
        /\ UNCHANGED config /\ run[p].left = {}
    BY <1>3 DEF SetupAddFetch
  <2>2. \A q \in Procs \ {p} : run'[q] = run[q]
    BY <1>0, <2>1
  <2>3. "left" \in DOMAIN run'[p] /\ run'[p].left = {}
    BY <1>0, <1>3, <2>1 DEF SetupAddFetch, SettingsInv, ChangesReady
  <2>4. \A q \in Procs \ {p} : run'[q].pc = "apply" => "left" \in DOMAIN run'[q] /\
           \A i \in run'[q].left :
             /\ run'[q].plan.changes[i].key \in ManagedKeys
             /\ run'[q].plan.changes[i].key = "user.signingkey" =>
                  i = 2 /\ config["user.signingkey"] = Unset
    BY <2>2 DEF SettingsInv, ChangesReady
  <2> QED BY <2>1, <2>3, <2>4 DEF SettingsInv, ChangesReady
<1>4. ASSUME SetupDone(p) \/ SetupFails(p) PROVE SettingsInv' /\ UNCHANGED config
  <2>1. PICK pc \in {"done", "failed"} : Goto(p, pc) /\ UNCHANGED config
    BY <1>4 DEF SetupDone, SetupFails
  <2>2. Alone(p)
    BY <1>4, BusyAlone DEF SetupDone, SetupFails, SettingsInv, Busy, Stopped
  <2>3. run'[p].pc = pc /\ \A q \in Procs \ {p} : run'[q] = run[q]
    BY <2>1, <2>2, GotoMeans DEF SettingsInv
  <2> QED BY <2>1, <2>3, SettingsUntouched
<1> QED BY <1>1, <1>2, <1>3, <1>4 DEF SetupStep

LEMMA EnrollKeepsSettings ==
  ASSUME ~Concurrent, SettingsInv, OneBusy', NEW p \in Procs, EnrollStep(p)
  PROVE  SettingsInv'
<1>0. OneBusy
  BY DEF SettingsInv
<1>1. ASSUME NEW inv \in EnrollCalls, EnrollBuild(p, inv) PROVE SettingsInv'
  <2>1. UNCHANGED config
    BY <1>1 DEF EnrollBuild, enrollUnchanged
  <2>2. PICK state : run' = [run EXCEPT ![p] = state] /\ state.pc # "apply"
    <3> DEFINE refused == EnrollRefused(inv)
               state == [pc |-> IF refused THEN "refused"
                                ELSE IF inv.mode = "write" THEN "write" ELSE "shown",
                         tool |-> "enroll", inv |-> inv,
                         adds |-> IF refused THEN {}
                                  ELSE {[registry |-> a.registry, lines |-> a.lines,
                                         content |-> Existing(a.registry) \o a.lines] :
                                          a \in Additions(inv)}]
    <3>1. run' = [run EXCEPT ![p] = state]
      BY <1>1, Zenon DEF EnrollBuild, Start
    <3>2. state.pc # "apply"
      OBVIOUS
    <3> HIDE DEF state
    <3> QED BY <3>1, <3>2
  <2>3. \A q \in Procs : run'[q] = run[q] \/ run'[q].pc # "apply"
    BY <1>0, <2>2 DEF OneBusy
  <2> QED BY <2>1, <2>3, SettingsUntouched
<1>2. ASSUME EnrollWrite(p) \/ EnrollFails(p) PROVE SettingsInv'
  <2>1. PICK pc \in {"done", "failed"} : Goto(p, pc) /\ UNCHANGED config
    BY <1>2 DEF EnrollWrite, EnrollFails, enrollUnchanged
  <2>2. Alone(p)
    BY <1>0, <1>2, BusyAlone DEF EnrollWrite, EnrollFails, Busy, Stopped
  <2>3. run'[p].pc = pc /\ \A q \in Procs \ {p} : run'[q] = run[q]
    BY <1>0, <2>1, <2>2, GotoMeans
  <2> QED BY <2>1, <2>3, SettingsUntouched
<1> QED BY <1>1, <1>2 DEF EnrollStep

LEMMA SettingsStep ==
  ASSUME ~Concurrent, SettingsInv, OneBusy', [Next]_cloneVars
  PROVE  SettingsInv'
<1>1. CASE UNCHANGED <<config, run>>
  BY <1>1, SettingsUntouched
<1>2. ASSUME NEW p \in Procs, Die(p) PROVE SettingsInv'
  <2>1. Busy(p) /\ Goto(p, "died") /\ UNCHANGED config
    BY <1>2 DEF Die, Busy
  <2>2. Alone(p)
    BY <2>1, BusyAlone DEF SettingsInv
  <2>3. run'[p].pc = "died" /\ \A q \in Procs \ {p} : run'[q] = run[q]
    BY <2>1, <2>2, GotoMeans DEF SettingsInv
  <2> QED BY <2>1, <2>3, SettingsUntouched
(* A person changes settings when nothing runs.                            *)
<1>3. ASSUME Quiet, UNCHANGED run, DOMAIN config' = ManagedKeys PROVE SettingsInv'
  <2>1. \A q \in Procs : run[q].pc # "apply"
    BY <1>3, QuietMeans DEF Busy, Stopped
  <2> QED BY <1>3, <2>1 DEF SettingsInv, ChangesReady
<1>4. CASE Configure
  <2>1. PICK s \in HandSettings : config' = [config EXCEPT ![s[1]] = s[2]]
    BY <1>4 DEF Configure
  <2>2. DOMAIN config' = ManagedKeys
    BY <2>1, CallsAssumption DEF SettingsInv
  <2> QED BY <1>3, <1>4, <2>2 DEF Configure, Edit
<1>5. ASSUME NEW p \in Procs, RunReceipt(p) PROVE SettingsInv'
  <2>1. DOMAIN config' = ManagedKeys
    BY <1>5 DEF RunReceipt, ReversedSettings
  <2> QED BY <1>3, <1>5, <2>1 DEF RunReceipt, Edit
<1>6. CASE (\E p \in Procs : Paste(p)) \/ Merge \/ Revoke \/ Commit \/ Tick
  BY <1>1, <1>6 DEF Paste, Merge, Revoke, Commit, Tick, settingsUnchanged
<1> QED BY <1>1, <1>2, <1>4, <1>5, <1>6, SetupKeepsSettings, EnrollKeepsSettings
        DEF Next, cloneVars

(* Whatever stopped half-way and was run again, forced or not: a run of    *)
(* setup writes the signing key only where there is none (ActionFor).      *)
THEOREM SetupKeepsSigningKey ==
  ASSUME ~Concurrent PROVE Spec => SigningKeyKept
<1>1. Init => RegistryInv /\ SettingsInv
  BY RegistryInit, SettingsInit
<1>2. RegistryInv /\ SettingsInv /\ [Next]_cloneVars => (RegistryInv /\ SettingsInv)'
  <2>1. RegistryInv /\ [Next]_cloneVars => RegistryInv' /\ OneBusy'
    BY RegistryStep DEF RegistryInv
  <2> QED BY <2>1, SettingsStep
<1>3. RegistryInv /\ SettingsInv /\ [Next]_cloneVars =>
        [\A p \in Procs : SetupStep(p) =>
           config["user.signingkey"] \in {Unset, config'["user.signingkey"]}]_cloneVars
  <2>1. RegistryInv /\ [Next]_cloneVars => OneBusy'
    BY RegistryStep DEF RegistryInv
  <2> QED BY <2>1, SetupKeepsSettings
<1> QED BY <1>1, <1>2, <1>3, PTL DEF Spec, SigningKeyKept

(* ---- what invocations remember ---------------------------------------- *)

(* What setup and enroll begin with.                                       *)
PlanState(inv) ==
  LET plan == Compute(inv, config, fetch)
  IN  [pc |-> IF SetupRefused(inv) THEN "refused"
              ELSE IF inv.dry THEN "shown" ELSE "apply",
       tool |-> "setup", inv |-> inv, plan |-> plan,
       left |-> Writes(plan), fetched |-> plan.already,
       before |-> [config |-> config, fetch |-> fetch]]

BuildState(inv) ==
  [pc |-> IF EnrollRefused(inv) THEN "refused"
          ELSE IF inv.mode = "write" THEN "write" ELSE "shown",
   tool |-> "enroll", inv |-> inv,
   adds |-> IF EnrollRefused(inv) THEN {}
            ELSE {[registry |-> a.registry, lines |-> a.lines,
                   content |-> Existing(a.registry) \o a.lines] :
                    a \in Additions(inv)}]

(* The ways in which an invocation goes on.                                *)
Ends(q) == run[q].pc \notin Stopped /\ \E pc \in {"done", "failed", "died"} :
             /\ run'[q] = [run[q] EXCEPT !.pc = pc]
             /\ run[q].pc = "apply" /\ pc = "done" => run[q].left = {} /\ run[q].fetched
Writing(q) == SetupWrite(q) /\ \E left \in SUBSET run[q].left :
                run'[q] = [run[q] EXCEPT !.left = left]
Fetching(q) == SetupAddFetch(q) /\ run'[q] = [run[q] EXCEPT !.fetched = TRUE]

GoesOn(q) ==
  \/ run'[q] = run[q]
  \/ run[q] = Idle /\ \E inv \in SetupCalls : run'[q] = PlanState(inv)
  \/ run[q] = Idle /\ \E inv \in EnrollCalls : run'[q] = BuildState(inv)
  \/ Ends(q) \/ Writing(q) \/ Fetching(q)

LEMMA StepGoesOn ==
  ASSUME DOMAIN run = Procs, [Next]_cloneVars
  PROVE  clone' = clone /\ DOMAIN run' = Procs /\ \A q \in Procs : GoesOn(q)
<1>1. ASSUME UNCHANGED <<clone, run>>
      PROVE  clone' = clone /\ DOMAIN run' = Procs /\ \A q \in Procs : GoesOn(q)
  BY <1>1 DEF GoesOn
<1>2. ASSUME NEW p \in Procs, NEW state, run' = [run EXCEPT ![p] = state], clone' = clone,
             \/ run[p] = Idle /\ \E inv \in SetupCalls : state = PlanState(inv)
             \/ run[p] = Idle /\ \E inv \in EnrollCalls : state = BuildState(inv)
             \/ /\ run[p].pc \notin Stopped
                /\ \E pc \in {"done", "failed", "died"} :
                     /\ state = [run[p] EXCEPT !.pc = pc]
                     /\ run[p].pc = "apply" /\ pc = "done" => run[p].left = {} /\ run[p].fetched
             \/ SetupWrite(p) /\ \E left \in SUBSET run[p].left :
                                          state = [run[p] EXCEPT !.left = left]
             \/ SetupAddFetch(p) /\ state = [run[p] EXCEPT !.fetched = TRUE]
      PROVE  clone' = clone /\ DOMAIN run' = Procs /\ \A q \in Procs : GoesOn(q)
  <2>1. DOMAIN run' = Procs /\ run'[p] = state /\ \A q \in Procs \ {p} : run'[q] = run[q]
    BY <1>2
  <2>2. GoesOn(p)
    BY <1>2, <2>1 DEF GoesOn, Ends, Writing, Fetching
  <2>3. \A q \in Procs \ {p} : GoesOn(q)
    BY <2>1 DEF GoesOn
  <2> QED BY <1>2, <2>1, <2>2, <2>3
<1>3. ASSUME NEW p \in Procs, NEW inv \in SetupCalls, SetupPlan(p, inv)
      PROVE  clone' = clone /\ DOMAIN run' = Procs /\ \A q \in Procs : GoesOn(q)
  <2>1. run' = [run EXCEPT ![p] = PlanState(inv)]
    BY <1>3, Zenon DEF SetupPlan, Start, PlanState
  <2>2. run[p] = Idle /\ clone' = clone
    BY <1>3 DEF SetupPlan, setupUnchanged
  <2> QED BY <2>1, <2>2, <1>2
<1>4. ASSUME NEW p \in Procs, NEW inv \in EnrollCalls, EnrollBuild(p, inv)
      PROVE  clone' = clone /\ DOMAIN run' = Procs /\ \A q \in Procs : GoesOn(q)
  <2>1. run' = [run EXCEPT ![p] = BuildState(inv)]
    BY <1>4, Zenon DEF EnrollBuild, Start, BuildState
  <2>2. run[p] = Idle /\ clone' = clone
    BY <1>4 DEF EnrollBuild, enrollUnchanged
  <2> QED BY <2>1, <2>2, <1>2
<1>5. ASSUME NEW p \in Procs, SetupWrite(p)
      PROVE  clone' = clone /\ DOMAIN run' = Procs /\ \A q \in Procs : GoesOn(q)
  <2>1. PICK i \in run[p].left : run' = [run EXCEPT ![p] = [run[p] EXCEPT !.left = @ \ {i}]]
    BY <1>5 DEF SetupWrite
  <2>2. [run[p] EXCEPT !.left = @ \ {i}] = [run[p] EXCEPT !.left = run[p].left \ {i}]
    OBVIOUS
  <2>3. clone' = clone
    BY <1>5 DEF SetupWrite, setupUnchanged
  <2> QED BY <1>5, <2>1, <2>2, <2>3, <1>2
<1>6. ASSUME NEW p \in Procs, SetupAddFetch(p)
      PROVE  clone' = clone /\ DOMAIN run' = Procs /\ \A q \in Procs : GoesOn(q)
  BY <1>2, <1>6 DEF SetupAddFetch, setupUnchanged
<1>7. ASSUME NEW p \in Procs, SetupDone(p) \/ SetupFails(p) \/ EnrollWrite(p) \/ EnrollFails(p)
      PROVE  clone' = clone /\ DOMAIN run' = Procs /\ \A q \in Procs : GoesOn(q)
  <2>1. /\ run[p].pc \notin Stopped /\ clone' = clone
        /\ \E pc \in {"done", "failed", "died"} :
              /\ Goto(p, pc)
              /\ run[p].pc = "apply" /\ pc = "done" => run[p].left = {} /\ run[p].fetched
    BY <1>7 DEF Stopped, SetupDone, SetupFails, EnrollWrite, EnrollFails, setupUnchanged, enrollUnchanged
  <2>2. PICK pc \in {"done", "failed", "died"} :
           /\ run' = [run EXCEPT ![p] = [run[p] EXCEPT !.pc = pc]]
           /\ run[p].pc = "apply" /\ pc = "done" => run[p].left = {} /\ run[p].fetched
    BY <2>1 DEF Goto
  <2> QED BY <2>1, <2>2, <1>2
<1>8. ASSUME NEW p \in Procs, Die(p)
      PROVE  clone' = clone /\ DOMAIN run' = Procs /\ \A q \in Procs : GoesOn(q)
  BY <1>2, <1>8 DEF Die, Goto
<1>9. CASE \E p \in Procs : Paste(p) \/ RunReceipt(p)
  BY <1>1, <1>9 DEF Paste, RunReceipt
<1>10. CASE Merge \/ Revoke \/ Commit \/ Configure \/ Tick
  BY <1>1, <1>10 DEF Merge, Revoke, Commit, Configure, Tick
<1>11. CASE UNCHANGED cloneVars
  BY <1>1, <1>11 DEF cloneVars
<1> QED BY <1>3, <1>4, <1>5, <1>6, <1>7, <1>8, <1>9, <1>10, <1>11 DEF Next, SetupStep, EnrollStep
(* ---- what a plan of setup wants --------------------------------------- *)

Want == [key : ManagedKeys, value : Settings \ {Unset}]
Wants(q) == {q[i] : i \in DOMAIN q}
OneEach(q) == \A i, j \in DOMAIN q : q[i].key = q[j].key => i = j

LEMMA WantAdded ==
  ASSUME NEW q \in Seq(Want), OneEach(q), NEW w \in Want, \A v \in Wants(q) : v.key # w.key
  PROVE  q \o <<w>> \in Seq(Want) /\ OneEach(q \o <<w>>) /\ Wants(q \o <<w>>) = Wants(q) \cup {w}
<1>1. <<w>> \in Seq(Want) /\ Len(<<w>>) = 1 /\ <<w>>[1] = w
  OBVIOUS
<1> DEFINE r == q \o <<w>>
<1>2. r \in Seq(Want) /\ Len(r) = Len(q) + 1 /\ Len(q) \in Nat
      /\ \A i \in 1..Len(r) : r[i] = IF i <= Len(q) THEN q[i] ELSE <<w>>[i - Len(q)]
  BY <1>1, ConcatProperties
<1>3. /\ \A i \in DOMAIN q : i \in DOMAIN r /\ r[i] = q[i]
      /\ Len(q) + 1 \in DOMAIN r /\ r[Len(q) + 1] = w
      /\ \A i \in DOMAIN r : i \in DOMAIN q \/ i = Len(q) + 1
  BY <1>1, <1>2
<1> HIDE DEF r
<1>4. Wants(r) = Wants(q) \cup {w}
  BY <1>3 DEF Wants
<1>5. OneEach(r)
  <2>1. \A i \in DOMAIN q : q[i].key # w.key
    BY DEF Wants
  <2> QED BY <1>3, <2>1 DEF OneEach
<1> QED BY <1>2, <1>4, <1>5 DEF r

LEMMA TwoWants == ASSUME NEW v, NEW w PROVE <<v>> \o <<w>> = <<v, w>>
<1> DEFINE one == <<v>>
           other == <<w>>
           two == <<v, w>>
<1>1. /\ one \in Seq({v, w}) /\ Len(one) = 1 /\ one[1] = v
      /\ other \in Seq({v, w}) /\ Len(other) = 1 /\ other[1] = w
      /\ two \in Seq({v, w}) /\ Len(two) = 2 /\ two[1] = v /\ two[2] = w
  OBVIOUS
<1> HIDE DEF one, other, two
<1>2. one \o other \in Seq({v, w}) /\ Len(one \o other) = 2
      /\ (one \o other)[1] = v /\ (one \o other)[2] = w
  BY <1>1, ConcatProperties
<1>3. one \o other = two
  BY <1>1, <1>2, SeqEqual
<1> QED BY <1>3 DEF one, other, two

Key(inv) == IF inv.ssh # Unset THEN inv.ssh ELSE inv.gpg
Format(inv) == IF inv.ssh # Unset THEN "ssh" ELSE "openpgp"

(* Each managed key is wanted once at most, and signing is always wanted.  *)
LEMMA WantsAreSound ==
  ASSUME NEW inv, inv.ssh # Unset => inv.ssh \in SSHKeys, inv.gpg \in GPGKeys \cup {Unset},
         ~EnvironmentRefused(inv)
  PROVE  /\ DesiredKeys(inv) \in Seq(Want) /\ OneEach(DesiredKeys(inv))
         /\ {[key |-> "gpg.format", value |-> Format(inv)],
             [key |-> "user.signingkey", value |-> Key(inv)],
             [key |-> "commit.gpgsign", value |-> "true"]} \subseteq Wants(DesiredKeys(inv))
<1> DEFINE W(k, v) == [key |-> k, value |-> v]
           format == W("gpg.format", Format(inv))
           key == W("user.signingkey", Key(inv))
           gpgsign == W("commit.gpgsign", "true")
           template == W("commit.template", "gitmessage")
           signers == W("gpg.ssh.allowedSignersFile", "signers")
           a == <<format>> \o <<key>>
           b == a \o <<gpgsign>>
           c == b \o (IF clone.gitmessage THEN <<template>> ELSE <<>>)
           d == c \o (IF inv.ssh # Unset /\ work["signers"].state \in {"parsed", "broken"}
                        THEN <<signers>> ELSE <<>>)
<1>1. Key(inv) \in Settings \ {Unset} /\ Format(inv) \in Settings \ {Unset}
  BY NamesAssumption DEF Key, Format, Settings, EnvironmentRefused
<1>2. \A v \in {"true", "gitmessage", "signers"} : v \in Settings \ {Unset}
  BY NamesAssumption DEF Settings
<1>3. format \in Want /\ key \in Want /\ gpgsign \in Want /\ template \in Want /\ signers \in Want
  BY <1>1, <1>2 DEF Want, ManagedKeys
<1>4. /\ format.key = "gpg.format" /\ key.key = "user.signingkey" /\ gpgsign.key = "commit.gpgsign"
      /\ template.key = "commit.template" /\ signers.key = "gpg.ssh.allowedSignersFile"
  OBVIOUS
<1>5. DesiredKeys(inv) = d
  <2>1. CASE inv.ssh # Unset
    <3>1. a = <<W("gpg.format", "ssh"), W("user.signingkey", inv.ssh)>>
      <4>1. format = W("gpg.format", "ssh") /\ key = W("user.signingkey", inv.ssh)
        BY <2>1 DEF Format, Key
      <4> HIDE DEF format, key, W
      <4> QED BY <4>1, TwoWants
    <3> QED BY <2>1, <3>1 DEF DesiredKeys
  <2>2. CASE inv.ssh = Unset
    <3>1. a = <<W("gpg.format", "openpgp"), W("user.signingkey", inv.gpg)>>
      <4>1. format = W("gpg.format", "openpgp") /\ key = W("user.signingkey", inv.gpg)
        BY <2>2 DEF Format, Key
      <4> HIDE DEF format, key, W
      <4> QED BY <4>1, TwoWants
    <3> QED BY <2>2, <3>1 DEF DesiredKeys
  <2> QED BY <2>1, <2>2
<1> HIDE DEF W, format, key, gpgsign, template, signers
<1>6. <<format>> \in Seq(Want) /\ OneEach(<<format>>) /\ Wants(<<format>>) = {format}
  BY <1>3 DEF OneEach, Wants
<1>7. a \in Seq(Want) /\ OneEach(a) /\ Wants(a) = {format, key}
  BY <1>3, <1>4, <1>6, WantAdded
<1> HIDE DEF a
<1>8. b \in Seq(Want) /\ OneEach(b) /\ Wants(b) = {format, key, gpgsign}
  BY <1>3, <1>4, <1>7, WantAdded
<1> HIDE DEF b
<1>9. /\ c \in Seq(Want) /\ OneEach(c) /\ Wants(b) \subseteq Wants(c)
      /\ Wants(c) \subseteq {format, key, gpgsign, template}
  <2>1. CASE clone.gitmessage
    BY <1>3, <1>4, <1>8, <2>1, WantAdded
  <2>2. CASE ~clone.gitmessage
    <3>1. c = b
      BY <1>8, <2>2
    <3> HIDE DEF c
    <3> QED BY <1>8, <3>1
  <2> QED BY <2>1, <2>2
<1> HIDE DEF c
<1>10. d \in Seq(Want) /\ OneEach(d) /\ Wants(b) \subseteq Wants(d)
  <2>1. CASE inv.ssh # Unset /\ work["signers"].state \in {"parsed", "broken"}
    BY <1>3, <1>4, <1>9, <2>1, WantAdded
  <2>2. CASE ~(inv.ssh # Unset /\ work["signers"].state \in {"parsed", "broken"})
    <3>1. d = c
      BY <1>9, <2>2
    <3> HIDE DEF d
    <3> QED BY <1>9, <3>1
  <2> QED BY <2>1, <2>2
<1> HIDE DEF d
<1>11. {format, key, gpgsign} \subseteq Wants(DesiredKeys(inv))
  BY <1>5, <1>8, <1>10
<1> QED BY <1>5, <1>10, <1>11 DEF format, key, gpgsign, W
(* ---- the shape of a clone and of what runs over it, in every mode ----- *)

(* What a run of setup that was not refused found and planned: each change  *)
(* of a key of its own and away from a value that is not in conflict.      *)
ChangeSound(r, c) ==
  /\ c.key \in ManagedKeys /\ c.desired \in Settings \ {Unset}
  /\ c.current = r.before.config[c.key]
  /\ c.action = ActionFor(r.inv, [key |-> c.key, value |-> c.desired], c.current)
  /\ c.action # "conflict"

Signs(r) ==
  /\ \E i \in DOMAIN r.plan.changes : r.plan.changes[i].key = "gpg.format"
                                    /\ r.plan.changes[i].desired = Format(r.inv)
  /\ \E i \in DOMAIN r.plan.changes : r.plan.changes[i].key = "user.signingkey"
                                    /\ r.plan.changes[i].desired = Key(r.inv)
  /\ \E i \in DOMAIN r.plan.changes : r.plan.changes[i].key = "commit.gpgsign"
                                    /\ r.plan.changes[i].desired = "true"

PlanSound(r) ==
  /\ ~EnvironmentRefused(r.inv) /\ (r.inv.ssh # Unset => r.inv.ssh \in SSHKeys)
  /\ r.before.config \in [ManagedKeys -> Settings] /\ r.before.fetch \in [Remotes -> SUBSET Refspecs]
  /\ r.plan.remote = r.inv.remote /\ r.inv.remote \in Remotes
  /\ r.plan.already = Already(r.inv, r.before.fetch)
  /\ DOMAIN r.plan.changes \subseteq Nat
  /\ \A i \in DOMAIN r.plan.changes : ChangeSound(r, r.plan.changes[i])
  /\ OneEach(r.plan.changes)
  /\ Signs(r)

SetupRun(r) ==
  /\ DOMAIN r = {"pc", "tool", "inv", "plan", "left", "fetched", "before"} /\ r.tool = "setup"
  /\ r.pc \in Stopped \cup {"apply"}
  /\ \/ r.pc \in {"refused", "shown"}
     \/ PlanSound(r) /\ r.left \subseteq Writes(r.plan)

(* What a run of enroll has built are lines, each resolving in its own     *)
(* namespace if it is one of a registry of keys.                           *)
AddSound(a) ==
  /\ a.registry \in RegistryNames /\ a.lines \in Seq(SignerLine) /\ a.content \in Seq(SignerLine)
  /\ \/ a.registry = "keyring"
     \/ \E who \in People, ns \in {"git", "attestation"}, key \in SSHKeys :
          a.lines = <<EnrollmentLine(who, ns, key)>>

EnrollRun(r) ==
  /\ DOMAIN r = {"pc", "tool", "inv", "adds"} /\ r.tool = "enroll"
  /\ r.pc \in Stopped \cup {"write"}
  /\ \A a \in r.adds : AddSound(a)
  /\ r.pc = "write" => Cardinality(r.adds) = 1

RunSound(r) == r = Idle \/ SetupRun(r) \/ EnrollRun(r)

RegistriesSound(w) ==
  /\ w \in [RegistryNames -> RegistryFile]
  /\ \A r \in RegistryNames : w[r].state # "parsed" => w[r].lines = <<>>

RunsSound == DOMAIN run = Procs /\ \A p \in Procs : RunSound(run[p])

SettingsSound ==
  /\ config \in [ManagedKeys -> Settings] /\ fetch \in [Remotes -> SUBSET Refspecs]
  /\ last \in Procs \cup {"person"}

FilesSound ==
  /\ clone.email \in People \cup {Unset}
  /\ RegistriesSound(work) /\ RegistriesSound(head)
  /\ now \in 0..MaxTime /\ edits \in 0..MaxEdits

Shape == RunsSound /\ SettingsSound /\ FilesSound

LEMMA SoundStays ==
  ASSUME clone' = clone PROVE \A r : PlanSound(r) => PlanSound(r)'
<1>1. \A inv : EnvironmentRefused(inv)' = EnvironmentRefused(inv)
  BY DEF EnvironmentRefused
<1>2. \A inv, want, current : ActionFor(inv, want, current)' = ActionFor(inv, want, current)
  BY DEF ActionFor
<1>3. \A r, c : ChangeSound(r, c)' = ChangeSound(r, c)
  BY <1>2 DEF ChangeSound
<1> QED BY <1>1, <1>3, Zenon DEF PlanSound

LEMMA PlanBegins ==
  ASSUME SettingsSound, NEW inv \in SetupCalls
  PROVE  RunSound(PlanState(inv))
<1> DEFINE wants == DesiredKeys(inv)
           plan == Compute(inv, config, fetch)
           r == PlanState(inv)
           Change(i) == [key |-> wants[i].key, desired |-> wants[i].value,
                         current |-> config[wants[i].key],
                         action |-> ActionFor(inv, wants[i], config[wants[i].key])]
<1>1. /\ DOMAIN r = {"pc", "tool", "inv", "plan", "left", "fetched", "before"} /\ r.tool = "setup"
      /\ r.inv = inv /\ r.plan = plan /\ r.left = Writes(plan)
      /\ r.before.config = config /\ r.before.fetch = fetch
      /\ r.pc = IF SetupRefused(inv) THEN "refused" ELSE IF inv.dry THEN "shown" ELSE "apply"
  BY DEF PlanState
<1>2. r.pc \in Stopped \cup {"apply"}
  BY <1>1 DEF Stopped
<1>3. /\ plan.changes = [i \in DOMAIN wants |-> Change(i)]
      /\ plan.remote = inv.remote /\ plan.already = Already(inv, fetch)
  BY DEF Compute
<1> HIDE DEF r, plan
<1>4. ASSUME ~SetupRefused(inv) PROVE PlanSound(r)
  <2>1. /\ ~EnvironmentRefused(inv) /\ (inv.ssh # Unset => inv.ssh \in SSHKeys)
        /\ Conflicts(plan) = {}
    BY <1>4 DEF SetupRefused, InputRefused, plan
  <2>2. inv.remote \in Remotes /\ inv.gpg \in GPGKeys \cup {Unset}
    BY CallsAssumption
  <2>3. /\ wants \in Seq(Want) /\ OneEach(wants)
        /\ {[key |-> "gpg.format", value |-> Format(inv)],
            [key |-> "user.signingkey", value |-> Key(inv)],
            [key |-> "commit.gpgsign", value |-> "true"]} \subseteq Wants(wants)
    BY <2>1, <2>2, WantsAreSound
  <2> HIDE DEF wants
  <2>4. DOMAIN plan.changes = DOMAIN wants /\ DOMAIN wants \subseteq Nat
        /\ \A i \in DOMAIN wants : plan.changes[i] = Change(i) /\ wants[i] \in Want
    BY <1>3, <2>3
  <2>c. \A i : Change(i).key = wants[i].key /\ Change(i).desired = wants[i].value
    OBVIOUS
  <2>5. ASSUME NEW i \in DOMAIN plan.changes PROVE ChangeSound(r, plan.changes[i])
    <3>1. wants[i].key \in ManagedKeys /\ wants[i].value \in Settings \ {Unset}
          /\ wants[i] = [key |-> wants[i].key, value |-> wants[i].value]
      BY <2>4, <2>5 DEF Want
    <3>2. plan.changes[i] = Change(i) /\ Change(i).action # "conflict"
      BY <2>1, <2>4, <2>5 DEF Conflicts
    <3>3. /\ Change(i).key = wants[i].key /\ Change(i).desired = wants[i].value
          /\ Change(i).current = config[wants[i].key]
          /\ Change(i).action = ActionFor(inv, wants[i], config[wants[i].key])
      OBVIOUS
    <3> HIDE DEF Change
    <3> QED BY <1>1, <3>1, <3>2, <3>3 DEF ChangeSound
  <2> HIDE DEF Change
  <2>6. OneEach(plan.changes)
    BY <2>3, <2>4, <2>c DEF OneEach
  <2>7. Signs(r)
    <3>1. ASSUME NEW key, NEW value, [key |-> key, value |-> value] \in Wants(wants)
          PROVE  \E i \in DOMAIN plan.changes : plan.changes[i].key = key /\ plan.changes[i].desired = value
      <4>1. PICK i \in DOMAIN wants : wants[i] = [key |-> key, value |-> value]
        BY <3>1 DEF Wants
      <4> QED BY <2>4, <2>c, <4>1
    <3> QED BY <1>1, <2>3, <3>1 DEF Signs
  <2> QED BY <1>1, <1>3, <2>1, <2>2, <2>4, <2>5, <2>6, <2>7 DEF PlanSound, SettingsSound
<1> QED BY <1>1, <1>2, <1>4 DEF RunSound, SetupRun, r
(* The lines enroll builds from registries that are ones.                  *)
LEMMA AddedLines ==
  ASSUME FilesSound, NEW inv \in EnrollCalls, ~EnrollRefused(inv), NEW a \in Additions(inv)
  PROVE  /\ a.registry \in RegistryNames /\ a.lines \in Seq(SignerLine)
         /\ \/ a.registry = "keyring"
            \/ \E who \in People, ns \in {"git", "attestation"}, key \in SSHKeys :
                 a.lines = <<EnrollmentLine(who, ns, key)>>
<1>1. ASSUME NEW t \in SSHTargets(inv), a = [registry |-> t.registry, lines |-> <<NewLine(inv, t)>>]
      PROVE  /\ a.registry \in RegistryNames /\ a.lines \in Seq(SignerLine)
             /\ \E who \in People, ns \in {"git", "attestation"}, key \in SSHKeys :
                  a.lines = <<EnrollmentLine(who, ns, key)>>
  <2>1. t.registry \in RegistryNames /\ t.namespace \in {"git", "attestation"}
    BY <1>1 DEF SSHTargets, RegistryNames
  <2>2. t.key \in SSHKeys /\ Principal(inv) # Unset
    BY <1>1 DEF EnrollRefused, BuildRefused
  <2>3. Principal(inv) \in People
    BY <2>2, CallsAssumption DEF Principal, FilesSound
  <2>4. a.registry = t.registry /\ a.lines = <<NewLine(inv, t)>>
        /\ NewLine(inv, t) = EnrollmentLine(Principal(inv), t.namespace, t.key)
    BY <1>1 DEF NewLine
  <2>5. NewLine(inv, t) \in SignerLine
    BY <2>1, <2>2, <2>3, <2>4, EnrolledLine
  <2>6. a.lines \in Seq(SignerLine)
    BY <2>4, <2>5
  <2>7. a.lines = <<EnrollmentLine(Principal(inv), t.namespace, t.key)>>
    BY <2>4
  <2> QED BY <2>1, <2>2, <2>3, <2>4, <2>6, <2>7
<1>2. ASSUME inv.gpg # <<>>, a = [registry |-> "keyring", lines |-> KeyBlocks(inv.gpg)]
      PROVE  a.registry = "keyring" /\ a.registry \in RegistryNames /\ a.lines \in Seq(SignerLine)
  BY <1>2, BuiltKeyring DEF RegistryNames
<1>3. CASE \E t \in SSHTargets(inv) : a = [registry |-> t.registry, lines |-> <<NewLine(inv, t)>>]
  BY <1>1, <1>3
<1>4. CASE inv.gpg # <<>> /\ a = [registry |-> "keyring", lines |-> KeyBlocks(inv.gpg)]
  BY <1>2, <1>4
<1> QED BY <1>3, <1>4 DEF Additions

(* A run of enroll that writes has one target: batches are refused.        *)
LEMMA OneTarget ==
  ASSUME NEW inv, ~EnrollRefused(inv), inv.mode = "write"
  PROVE  \E a : Additions(inv) = {a}
<1>1. Targets(inv) # 0 /\ ~(Targets(inv) > 1)
  BY DEF EnrollRefused
<1>2. PICK s, t : SSHTargets(inv) \subseteq {s, t}
  BY DEF SSHTargets
<1>3. IsFiniteSet(SSHTargets(inv)) /\ Cardinality(SSHTargets(inv)) \in Nat
  <2>1. IsFiniteSet({s} \cup {t}) /\ {s} \cup {t} = {s, t}
    BY FS_Singleton, FS_AddElement
  <2> QED BY <1>2, <2>1, FS_Subset, FS_CardinalityType
<1>4. CASE inv.gpg = <<>>
  <2>1. Cardinality(SSHTargets(inv)) = 1
    BY <1>1, <1>3, <1>4 DEF Targets
  <2>2. PICK target : SSHTargets(inv) = {target}
    BY <1>3, <2>1, FS_Singleton
  <2>3. Additions(inv) = {[registry |-> target.registry, lines |-> <<NewLine(inv, target)>>]}
    BY <1>4, <2>2 DEF Additions
  <2> QED BY <2>3
<1>5. CASE inv.gpg # <<>>
  <2>1. Cardinality(SSHTargets(inv)) = 0
    BY <1>1, <1>3, <1>5 DEF Targets
  <2>2. SSHTargets(inv) = {}
    BY <1>3, <2>1, FS_EmptySet
  <2>3. Additions(inv) = {[registry |-> "keyring", lines |-> KeyBlocks(inv.gpg)]}
    BY <1>5, <2>2 DEF Additions
  <2> QED BY <2>3
<1> QED BY <1>4, <1>5

LEMMA BuildBegins ==
  ASSUME FilesSound, NEW inv \in EnrollCalls
  PROVE  RunSound(BuildState(inv))
<1> DEFINE r == BuildState(inv)
           Built(a) == [registry |-> a.registry, lines |-> a.lines,
                        content |-> Existing(a.registry) \o a.lines]
<1>1. /\ DOMAIN r = {"pc", "tool", "inv", "adds"} /\ r.tool = "enroll"
      /\ r.pc = IF EnrollRefused(inv) THEN "refused"
                ELSE IF inv.mode = "write" THEN "write" ELSE "shown"
      /\ r.adds = IF EnrollRefused(inv) THEN {} ELSE {Built(a) : a \in Additions(inv)}
  BY DEF BuildState
<1>2. r.pc \in Stopped \cup {"write"}
  BY <1>1 DEF Stopped
<1> HIDE DEF r
<1>3. ASSUME ~EnrollRefused(inv), NEW a \in Additions(inv) PROVE AddSound(Built(a))
  <2>1. /\ a.registry \in RegistryNames /\ a.lines \in Seq(SignerLine)
        /\ \/ a.registry = "keyring"
           \/ \E who \in People, ns \in {"git", "attestation"}, key \in SSHKeys :
                a.lines = <<EnrollmentLine(who, ns, key)>>
    BY <1>3, AddedLines
  <2>2. work[a.registry].lines \in Seq(SignerLine)
    BY <2>1 DEF FilesSound, RegistriesSound, RegistryFile
  <2>3. Existing(a.registry) \o a.lines \in Seq(SignerLine)
    BY <2>1, <2>2, Appended DEF Existing
  <2>4. Built(a).registry = a.registry /\ Built(a).lines = a.lines
        /\ Built(a).content = Existing(a.registry) \o a.lines
    OBVIOUS
  <2> HIDE DEF Built
  <2> QED BY <2>1, <2>3, <2>4 DEF AddSound
<1> HIDE DEF Built
<1>4. \A b \in r.adds : AddSound(b)
  BY <1>1, <1>3
<1>5. ASSUME r.pc = "write" PROVE Cardinality(r.adds) = 1
  <2>1. ~EnrollRefused(inv) /\ inv.mode = "write"
    BY <1>1, <1>5
  <2>2. PICK a : Additions(inv) = {a}
    BY <2>1, OneTarget
  <2>3. r.adds = {Built(a)}
    BY <1>1, <2>1, <2>2
  <2> QED BY <2>3, FS_Singleton
<1> QED BY <1>1, <1>2, <1>4, <1>5 DEF RunSound, EnrollRun, r

LEMMA SamePlan ==
  ASSUME NEW r, PlanSound(r), NEW s, s.inv = r.inv, s.plan = r.plan, s.before = r.before
  PROVE  PlanSound(s)
BY SMTT(30) DEF PlanSound, ChangeSound, Signs

(* ---- runs stay sound -------------------------------------------------- *)

LEMMA RunsStaySound ==
  ASSUME Shape, [Next]_cloneVars
  PROVE  RunsSound'
<1>1. clone' = clone /\ DOMAIN run' = Procs /\ \A q \in Procs : GoesOn(q)
  BY StepGoesOn DEF Shape, RunsSound
<1>2. \A r : RunSound(r) => RunSound(r)'
  <2>1. \A r : PlanSound(r) => PlanSound(r)'
    BY <1>1, SoundStays
  <2>2. \A r : SetupRun(r) => SetupRun(r)'
    BY <2>1, Zenon DEF SetupRun
  <2>3. \A r : EnrollRun(r)' = EnrollRun(r)
    BY DEF EnrollRun, AddSound
  <2> QED BY <2>2, <2>3 DEF RunSound
<1>3. ASSUME NEW q \in Procs PROVE RunSound(run'[q])
  <2>0. RunSound(run[q])
    BY DEF Shape, RunsSound
  <2>1. CASE run'[q] = run[q]
    BY <2>0, <2>1
  <2>2. CASE run[q] = Idle /\ \E inv \in SetupCalls : run'[q] = PlanState(inv)
    BY <2>2, PlanBegins DEF Shape
  <2>3. CASE run[q] = Idle /\ \E inv \in EnrollCalls : run'[q] = BuildState(inv)
    BY <2>3, BuildBegins DEF Shape
  <2>4. CASE Ends(q)
    <3>1. PICK pc \in {"done", "failed", "died"} : run'[q] = [run[q] EXCEPT !.pc = pc]
      BY <2>4 DEF Ends
    <3>2. run[q].pc \notin Stopped
      BY <2>4 DEF Ends
    <3>3. run[q] # Idle /\ run[q].pc \notin {"refused", "shown"} /\ pc \in Stopped
      BY <3>2 DEF Idle, Stopped
    <3>4. CASE SetupRun(run[q])
      <4>1. SetupRun(run'[q])
        <5>1. PlanSound(run[q]) /\ run[q].left \subseteq Writes(run[q].plan)
          BY <3>3, <3>4 DEF SetupRun
        <5>2. /\ DOMAIN run'[q] = DOMAIN run[q] /\ run'[q].pc = pc /\ run'[q].tool = run[q].tool
              /\ run'[q].inv = run[q].inv /\ run'[q].plan = run[q].plan
              /\ run'[q].before = run[q].before /\ run'[q].left = run[q].left
          BY <3>1, <3>4 DEF SetupRun
        <5> QED BY <3>3, <3>4, <5>1, <5>2, SamePlan DEF SetupRun
      <4> QED BY <4>1 DEF RunSound
    <3>5. CASE EnrollRun(run[q])
      <4>1. EnrollRun(run'[q])
        BY <3>1, <3>3, <3>5 DEF EnrollRun
      <4> QED BY <4>1 DEF RunSound
    <3> QED BY <2>0, <3>3, <3>4, <3>5 DEF RunSound
  <2>5. CASE Writing(q) \/ Fetching(q)
    <3>1. SetupRun(run[q])
      BY SMTT(30), <2>0, <2>5 DEF RunSound, EnrollRun, Writing, Fetching, SetupWrite, SetupAddFetch, Idle, Stopped
    <3>2. PICK left \in SUBSET run[q].left :
             run'[q] = [run[q] EXCEPT !.left = left] \/ run'[q] = [run[q] EXCEPT !.fetched = TRUE]
      BY <2>5 DEF Writing, Fetching
    <3>3. SetupRun(run'[q])
      <4>1. run[q].pc = "apply"
        BY <2>5 DEF Writing, Fetching, SetupWrite, SetupAddFetch
      <4>2. PlanSound(run[q]) /\ run[q].left \subseteq Writes(run[q].plan)
        BY <3>1, <4>1 DEF SetupRun
      <4>3. /\ DOMAIN run'[q] = DOMAIN run[q] /\ run'[q].pc = run[q].pc
            /\ run'[q].tool = run[q].tool /\ run'[q].inv = run[q].inv
            /\ run'[q].plan = run[q].plan /\ run'[q].before = run[q].before
            /\ run'[q].left \subseteq run[q].left
        BY <3>1, <3>2 DEF SetupRun
      <4> QED BY <3>1, <4>1, <4>2, <4>3, SamePlan DEF SetupRun
    <3> QED BY <3>3 DEF RunSound
  <2> QED BY <1>1, <2>1, <2>2, <2>3, <2>4, <2>5 DEF GoesOn
<1> QED BY <1>1, <1>2, <1>3 DEF RunsSound
LEMMA RegistryReplaced ==
  ASSUME NEW w, RegistriesSound(w), NEW r \in RegistryNames, NEW lines \in Seq(SignerLine)
  PROVE  /\ RegistriesSound([w EXCEPT ![r] = Registry(lines)])
         /\ w[r].lines \in Seq(SignerLine)
         /\ w[r].lines # <<>> => RegistriesSound([w EXCEPT ![r] = [w[r] EXCEPT !.lines = lines]])
<1>1. Registry(lines) \in RegistryFile /\ Registry(lines).state = "parsed"
  BY DEF Registry, RegistryFile, RegistryStates
<1>2. w[r] \in RegistryFile
  BY DEF RegistriesSound
<1>3. /\ [w[r] EXCEPT !.lines = lines] \in RegistryFile
      /\ [w[r] EXCEPT !.lines = lines].state = w[r].state
  BY <1>2 DEF RegistryFile
<1>4. w[r].lines # <<>> => w[r].state = "parsed"
  BY DEF RegistriesSound
<1> QED BY <1>1, <1>2, <1>3, <1>4 DEF RegistriesSound, RegistryFile

LEMMA FilesStaySound ==
  ASSUME Shape, [Next]_cloneVars
  PROVE  FilesSound'
<1>0. FilesSound /\ RegistriesSound(work) /\ RegistriesSound(head) /\ MaxEdits \in Nat /\ MaxTime \in Nat
  BY NamesAssumption DEF Shape, FilesSound
<1>c. clone' = clone
  BY StepGoesOn DEF Shape, RunsSound
<1>1. CASE UNCHANGED <<work, head, now, edits>>
  BY <1>0, <1>c, <1>1 DEF FilesSound
(* Commands write one registry.                                            *)
<1>2. ASSUME NEW p \in Procs, EnrollWrite(p) PROVE FilesSound'
  <2>1. PICK a \in run[p].adds : work' = [work EXCEPT ![a.registry] = Registry(a.content)]
    BY <1>2 DEF EnrollWrite
  <2>2. AddSound(a)
    <3>1. run[p].pc = "write" /\ RunSound(run[p])
      BY <1>2 DEF EnrollWrite, Shape, RunsSound
    <3> QED BY <3>1 DEF RunSound, SetupRun, EnrollRun, Idle, Stopped
  <2>3. RegistriesSound(work')
    BY <1>0, <2>1, <2>2, RegistryReplaced DEF AddSound
  <2> QED BY <1>0, <1>2, <1>c, <2>3 DEF FilesSound, EnrollWrite, enrollUnchanged
(* People bring lines.                                                     *)
<1>3. ASSUME Edit PROVE edits' \in 0..MaxEdits
  BY <1>0, <1>3 DEF Edit, FilesSound
<1>4. ASSUME NEW p \in Procs, Paste(p) PROVE FilesSound'
  <2>1. PICK a \in run[p].adds : work' = [work EXCEPT ![a.registry] = Registry(work[a.registry].lines \o a.lines)]
    <3>1. PICK a \in run[p].adds : work' = [work EXCEPT ![a.registry] = Registry(@.lines \o a.lines)]
      BY <1>4 DEF Paste
    <3> QED BY <3>1
  <2>2. AddSound(a)
    <3>1. run[p].pc = "shown" /\ run[p].tool = "enroll" /\ RunSound(run[p])
      BY <1>4 DEF Paste, Shape, RunsSound
    <3> QED BY <3>1 DEF RunSound, SetupRun, EnrollRun, Idle
  <2>3. work[a.registry].lines \o a.lines \in Seq(SignerLine)
    BY <1>0, <2>2, RegistryReplaced, Appended DEF AddSound
  <2>4. RegistriesSound(work')
    BY <1>0, <2>1, <2>2, <2>3, RegistryReplaced DEF AddSound
  <2>5. edits' \in 0..MaxEdits /\ head' = head /\ now' = now
    BY <1>3, <1>4 DEF Paste
  <2> QED BY <1>0, <1>c, <2>4, <2>5 DEF FilesSound
<1>5. CASE Merge
  <2>1. PICK t \in TeamLines :
           /\ work[t.registry] = head[t.registry]
           /\ work' = [work EXCEPT ![t.registry] = Registry(Append(work[t.registry].lines, t.line))]
           /\ head' = [head EXCEPT ![t.registry] = Registry(Append(work[t.registry].lines, t.line))]
    BY <1>5 DEF Merge
  <2>2. t.registry \in RegistryNames /\ t.line \in SignerLine
    BY CallsAssumption
  <2>3. work[t.registry].lines \in Seq(SignerLine)
    BY <1>0, <2>2 DEF RegistriesSound, RegistryFile
  <2>4. Append(work[t.registry].lines, t.line) \in Seq(SignerLine)
    BY <2>2, <2>3
  <2>5. RegistriesSound(work') /\ RegistriesSound(head')
    BY <1>0, <2>1, <2>2, <2>4, RegistryReplaced
  <2> QED BY <1>0, <1>3, <1>5, <1>c, <2>5 DEF FilesSound, Merge
<1>6. CASE Revoke
  <2>1. PICK r \in RegistryNames, lines \in Seq(SignerLine) :
           work[r].lines # <<>> /\ work' = [work EXCEPT ![r] = [work[r] EXCEPT !.lines = lines]]
    BY <1>0, <1>6, RevokeMeans DEF RegistriesSound
  <2>2. RegistriesSound(work')
    BY <1>0, <2>1, RegistryReplaced
  <2> QED BY <1>0, <1>3, <1>6, <1>c, <2>2 DEF FilesSound, Revoke
<1>7. CASE Commit
  BY <1>0, <1>7, <1>c DEF FilesSound, Commit
<1>8. CASE Tick
  BY <1>0, <1>8, <1>c DEF FilesSound, Tick, registriesUnchanged
<1>9. CASE Configure \/ \E p \in Procs : RunReceipt(p)
  BY <1>0, <1>3, <1>9, <1>c DEF FilesSound, Configure, RunReceipt, registriesUnchanged
<1>10. CASE \E p \in Procs : SetupStep(p) \/ Die(p)
  BY <1>1, <1>10 DEF SetupStep, SetupPlan, SetupWrite, SetupAddFetch, SetupDone, SetupFails, Die,
                     setupUnchanged
<1>11. CASE \E p \in Procs : EnrollStep(p)
  <2>1. CASE \E p \in Procs : EnrollWrite(p)
    BY <1>2, <2>1
  <2>2. CASE \E p \in Procs : EnrollFails(p) \/ \E inv \in EnrollCalls : EnrollBuild(p, inv)
    BY <1>1, <2>2 DEF EnrollFails, EnrollBuild, enrollUnchanged
  <2> QED BY <1>11, <2>1, <2>2 DEF EnrollStep
<1>12. CASE UNCHANGED cloneVars
  BY <1>1, <1>12 DEF cloneVars
<1> QED BY <1>4, <1>5, <1>6, <1>7, <1>8, <1>9, <1>10, <1>11, <1>12 DEF Next

(* ---- the settings ----------------------------------------------------- *)

LEMMA LeastOfOne == ASSUME NEW i \in Nat PROVE Min({i}) = i
BY DEF Min

(* A plan writes a key in one place.                                       *)
LEMMA OneWrite ==
  ASSUME NEW r, PlanSound(r), NEW i \in Writes(r.plan)
  PROVE  /\ i \in DOMAIN r.plan.changes /\ ChangeSound(r, r.plan.changes[i])
         /\ LET of == {j \in Writes(r.plan) : r.plan.changes[j].key = r.plan.changes[i].key}
            IN  of = {i} /\ Min(of) = i
<1>1. Writes(r.plan) \subseteq DOMAIN r.plan.changes /\ DOMAIN r.plan.changes \subseteq Nat
  BY DEF Writes, PlanSound
<1>2. {j \in Writes(r.plan) : r.plan.changes[j].key = r.plan.changes[i].key} = {i}
  BY <1>1 DEF PlanSound, OneEach
<1>3. i \in Nat /\ Min({i}) = i
  BY <1>1, LeastOfOne
<1>4. ChangeSound(r, r.plan.changes[i])
  BY <1>1 DEF PlanSound
<1> QED BY <1>1, <1>2, <1>3, <1>4

(* What a receipt gives back to each key.                                  *)
LEMMA ReceiptGives ==
  ASSUME NEW r, PlanSound(r), NEW settings, NEW k \in ManagedKeys
  PROVE  /\ (\E i \in Writes(r.plan) : r.plan.changes[i].key = k) =>
              ReversedSettings(r.plan, settings)[k] = r.before.config[k]
         /\ (\A i \in Writes(r.plan) : r.plan.changes[i].key # k) =>
              ReversedSettings(r.plan, settings)[k] = settings[k]
<1>1. ASSUME NEW i \in Writes(r.plan), r.plan.changes[i].key = k
      PROVE  ReversedSettings(r.plan, settings)[k] = r.before.config[k]
  <2>1. {j \in Writes(r.plan) : r.plan.changes[j].key = k} = {i} /\ Min({i}) = i
    BY <1>1, OneWrite
  <2>2. ReversedSettings(r.plan, settings)[k] = Restored(r.plan.changes[i])
    BY <2>1 DEF ReversedSettings
  <2>3. ChangeSound(r, r.plan.changes[i]) /\ r.plan.changes[i].action \in {"set", "forced"}
    BY OneWrite DEF Writes
  <2>4. Restored(r.plan.changes[i]) = r.plan.changes[i].current
    BY <2>3 DEF Restored, ChangeSound, ActionFor
  <2> QED BY <1>1, <2>2, <2>3, <2>4 DEF ChangeSound
<1>2. ASSUME \A i \in Writes(r.plan) : r.plan.changes[i].key # k
      PROVE  ReversedSettings(r.plan, settings)[k] = settings[k]
  <2>1. {j \in Writes(r.plan) : r.plan.changes[j].key = k} = {}
    BY <1>2
  <2> QED BY <2>1 DEF ReversedSettings
<1> QED BY <1>1, <1>2
LEMMA AttestationsAreRefs == AttestationRefspec \in Refspecs
BY DEF AttestationRefspec, Refspecs, RefPlaces

LEMMA SettingsStaySound ==
  ASSUME Shape, [Next]_cloneVars
  PROVE  SettingsSound'
<1>0. SettingsSound
  BY DEF Shape
<1>1. CASE UNCHANGED <<config, fetch, last>>
  BY <1>0, <1>1 DEF SettingsSound
<1>2. ASSUME NEW p \in Procs, SetupWrite(p) PROVE SettingsSound'
  <2>1. PICK i \in run[p].left :
           config' = [config EXCEPT ![run[p].plan.changes[i].key] = run[p].plan.changes[i].desired]
    BY <1>2 DEF SetupWrite
  <2>2. PlanSound(run[p]) /\ run[p].left \subseteq Writes(run[p].plan)
    <3>1. run[p].pc = "apply" /\ RunSound(run[p])
      BY <1>2 DEF SetupWrite, Shape, RunsSound
    <3> QED BY <3>1 DEF RunSound, SetupRun, EnrollRun, Idle, Stopped
  <2>3. ChangeSound(run[p], run[p].plan.changes[i])
    BY <2>2, OneWrite
  <2> QED BY <1>0, <1>2, <2>1, <2>3 DEF SettingsSound, ChangeSound, SetupWrite
<1>3. ASSUME NEW p \in Procs, SetupAddFetch(p) PROVE SettingsSound'
  BY <1>0, <1>3, AttestationsAreRefs DEF SettingsSound, SetupAddFetch
<1>4. CASE Configure
  BY <1>0, <1>4, CallsAssumption DEF SettingsSound, Configure
<1>5. ASSUME NEW p \in Procs, RunReceipt(p) PROVE SettingsSound'
  <2>1. PlanSound(run[p])
    <3>1. run[p].pc = "done" /\ run[p].tool = "setup" /\ RunSound(run[p])
      BY <1>5 DEF RunReceipt, Shape, RunsSound
    <3> QED BY <3>1 DEF RunSound, SetupRun, EnrollRun, Idle
  <2>2. ASSUME NEW k \in ManagedKeys PROVE ReversedSettings(run[p].plan, config)[k] \in Settings
    <3>1. config[k] \in Settings /\ run[p].before.config[k] \in Settings
      BY <1>0, <2>1 DEF SettingsSound, PlanSound
    <3> QED BY <2>1, <3>1, ReceiptGives
  <2>3. config' \in [ManagedKeys -> Settings]
    <3>1. config' = ReversedSettings(run[p].plan, config)
      BY <1>5 DEF RunReceipt
    <3>2. ReversedSettings(run[p].plan, config)
            = [k \in ManagedKeys |-> ReversedSettings(run[p].plan, config)[k]]
      BY DEF ReversedSettings
    <3> QED BY <2>2, <3>1, <3>2
  <2>4. fetch' \in [Remotes -> SUBSET Refspecs] /\ last' = "person"
    BY <1>0, <1>5 DEF SettingsSound, RunReceipt, ReversedRefspecs
  <2> QED BY <2>3, <2>4 DEF SettingsSound
<1>6. CASE (\E p \in Procs : Paste(p)) \/ Merge \/ Revoke \/ Commit \/ Tick
  BY <1>1, <1>6 DEF Paste, Merge, Revoke, Commit, Tick, settingsUnchanged
<1>7. CASE \E p \in Procs : SetupStep(p)
  <2>1. CASE \E p \in Procs : SetupWrite(p) \/ SetupAddFetch(p)
    BY <1>2, <1>3, <2>1
  <2>2. CASE \E p \in Procs : SetupDone(p) \/ SetupFails(p) \/ \E inv \in SetupCalls : SetupPlan(p, inv)
    BY <1>1, <2>2 DEF SetupDone, SetupFails, SetupPlan
  <2> QED BY <1>7, <2>1, <2>2 DEF SetupStep
<1>8. CASE \E p \in Procs : EnrollStep(p) \/ Die(p)
  BY <1>1, <1>8 DEF EnrollStep, EnrollBuild, EnrollWrite, EnrollFails, Die, enrollUnchanged
<1>9. CASE UNCHANGED cloneVars
  BY <1>1, <1>9 DEF cloneVars
<1> QED BY <1>2, <1>3, <1>4, <1>5, <1>6, <1>7, <1>8, <1>9 DEF Next

LEMMA ShapeBegins == Init => Shape
<1> SUFFICES ASSUME Init PROVE Shape
  OBVIOUS
<1>1. PICK c \in Clones : /\ clone = c.facts /\ config = c.config /\ fetch = c.fetch
                          /\ work = c.work /\ head = c.head
  BY DEF Init
<1>2. RunsSound
  BY DEF Init, RunsSound, RunSound
<1>3. SettingsSound
  BY <1>1, ClonesAssumption DEF Init, SettingsSound
<1>4. RegistriesSound(work) /\ RegistriesSound(head)
  BY <1>1, ClonesAssumption DEF RegistriesSound
<1>5. FilesSound
  BY <1>1, <1>4, ClonesAssumption, NamesAssumption DEF Init, FilesSound
<1> QED BY <1>2, <1>3, <1>5 DEF Shape

LEMMA ShapeHolds == Spec => []Shape
<1>1. Shape /\ [Next]_cloneVars => Shape'
  BY RunsStaySound, SettingsStaySound, FilesStaySound DEF Shape
<1> QED BY <1>1, ShapeBegins, PTL DEF Spec

(* Settings, registries and runs keep their shape, whatever happens at the  *)
(* same time; a run that is about to write has one registry to write.      *)
THEOREM BootstrapTypes == Spec => []TypeOK
<1>1. Shape => TypeOK
  <2>1. SUFFICES ASSUME Shape PROVE TypeOK
    OBVIOUS
  <2>2. ASSUME NEW p \in Procs
        PROVE  /\ run[p].pc \in Stopped \cup {"apply", "write"}
               /\ run[p].pc = "write" => Cardinality(run[p].adds) = 1
    <3>1. RunSound(run[p])
      BY <2>1 DEF Shape, RunsSound
    <3> QED BY <3>1 DEF RunSound, SetupRun, EnrollRun, Idle, Stopped
  <2>3. DOMAIN work = RegistryNames /\ DOMAIN head = RegistryNames
        /\ \A r \in RegistryNames : /\ work[r].state \in RegistryStates
                                    /\ work[r].state # "parsed" => work[r].lines = <<>>
    BY <2>1 DEF Shape, FilesSound, RegistriesSound, RegistryFile
  <2> QED BY <2>1, <2>2, <2>3 DEF TypeOK, Shape, SettingsSound, FilesSound
<1> QED BY <1>1, ShapeHolds, PTL

(* ---- what doctor promises --------------------------------------------- *)

LEMMA ForetellsAlways == DoctorForetells
<1>1. SUFFICES ASSUME NEW persona \in {"maintainer", "contributor"}, SigningPubkey # Unset,
                      Passes(persona, TRUE), head["signers"].state # "absent",
                      \A i \in DOMAIN head["signers"].lines :
                         head["signers"].lines[i].key = SigningPubkey =>
                            Authorizes(head["signers"].lines[i], "git", now)
               PROVE  SimulateCommit = "PASS"
  BY DEF DoctorForetells
<1>2. \A check \in {PolicyParse, RegistryParse, ConfiguredVsEnrolled(persona)} :
         check # "FAIL" /\ check # "WARN"
  BY <1>1 DEF Passes, Catalog
<1>3. clone.policy = "parsed"
  BY <1>2 DEF PolicyParse
<1>4. ~Fails("signers")
      /\ {i \in DOMAIN Lines("signers") : Lines("signers")[i].key = SigningPubkey} # {}
  <2>1. CASE Declares("signers")
    BY <1>1, <1>2, <1>3, <2>1, Zenon DEF RegistryParse, ConfiguredVsEnrolled, Missing
  <2>2. CASE ~Declares("signers")
    <3>1. ~Fails("signers")
      BY <2>2 DEF Fails
    <3> QED BY <1>1, <1>2, <1>3, <3>1, Zenon DEF ConfiguredVsEnrolled, Missing
  <2> QED BY <2>1, <2>2
<1>5. Declares("signers") /\ Lines("signers") = work["signers"].lines
  BY <1>4 DEF Lines
<1>6. head["signers"] = work["signers"] /\ work["signers"].state = "parsed"
  BY <1>1, <1>2, <1>4, <1>5 DEF RegistryParse, Fails
<1>7. PICK i \in DOMAIN head["signers"].lines : head["signers"].lines[i].key = SigningPubkey
  BY <1>4, <1>5, <1>6
<1>8. Resolve(SigningPubkey, head["signers"].lines, "git", now).outcome = "resolved"
  BY <1>1, <1>7 DEF Resolve
<1> QED BY <1>3, <1>6, <1>8 DEF SimulateCommit

LEMMA SharedKeyFound == ASSUME FilesSound PROVE DoctorFindsSharedKey
<1>1. SUFFICES ASSUME NEW i \in DOMAIN Lines("attest"), Lines("attest")[i].key = SigningPubkey,
                      NEW j \in DOMAIN Lines("attest")[i].principals,
                      Lines("attest")[i].principals[j] = clone.email
               PROVE  ~Passes(ResolvePersona, FALSE)
  BY DEF DoctorFindsSharedKey
<1>2. Declares("attest") /\ Lines("attest") = work["attest"].lines
  BY <1>1 DEF Lines
<1>3. work["attest"].lines \in Seq(SignerLine)
  BY DEF FilesSound, RegistriesSound, RegistryNames, RegistryFile
<1>4. work["attest"].lines[i] \in SignerLine
  BY <1>1, <1>2, <1>3
<1>5. SigningPubkey \in SSHKeys \cup GPGKeys /\ clone.email \in People \cup GPGKeys
  BY <1>1, <1>2, <1>4 DEF SignerLine
<1>6. SigningPubkey # Unset /\ clone.email # Unset
  BY <1>5, NamesAssumption
<1>7. clone.email \in PrincipalsOf(work["attest"].lines)
  BY <1>1, <1>2 DEF PrincipalsOf
<1>8. SigningPubkey \in KeysOf(work["attest"].lines)
  BY <1>1, <1>2 DEF KeysOf
<1>9. ResolvePersona = "maintainer"
  BY <1>2, <1>6, <1>7 DEF ResolvePersona
<1>10. AttestationDistinct = "FAIL"
  BY <1>2, <1>6, <1>8 DEF AttestationDistinct
<1> QED BY <1>9, <1>10 DEF Passes, Catalog

(* A clean strict diagnosis foretells that verification accepts this clone's *)
(* commits, but for the two exceptions it names, and a shared key is found,  *)
(* in every state of the clone (Verdict, SimulateCommit).                  *)
THEOREM CleanDiagnosisHolds == Spec => []DiagnosisHolds
<1>1. Shape => DiagnosisHolds
  BY ForetellsAlways, SharedKeyFound DEF Shape, DiagnosisHolds
<1> QED BY <1>1, ShapeHolds, PTL
(* ---- what a run of setup has done so far ------------------------------ *)

(* What is written of a plan is in the settings, the rest is as it was.    *)
Written(r) ==
  /\ \A i \in Writes(r.plan) \ r.left : config[r.plan.changes[i].key] = r.plan.changes[i].desired
  /\ \A k \in ManagedKeys :
       (\A i \in Writes(r.plan) \ r.left : r.plan.changes[i].key # k) => config[k] = r.before.config[k]

Fetched(r) ==
  /\ r.plan.already => r.fetched
  /\ fetch = IF r.fetched /\ ~r.plan.already
               THEN [r.before.fetch EXCEPT ![r.plan.remote] = @ \cup {AttestationRefspec}]
               ELSE r.before.fetch

Progress(r) ==
  /\ PlanSound(r) /\ r.left \subseteq Writes(r.plan)
  /\ Written(r) /\ Fetched(r)
  /\ r.pc = "done" => r.left = {} /\ r.fetched

(* The run that goes on, or that wrote last, is where its plan says.       *)
Owns(p) ==
  \/ run[p].pc = "apply"
  \/ run[p].pc \in {"done", "failed", "died"} /\ run[p].tool = "setup" /\ last = p

InProgress == \A p \in Procs : Owns(p) => Progress(run[p])

ProgressInv == Shape /\ OneBusy /\ InProgress

LEMMA ProgressBegins == Init => InProgress
BY DEF Init, InProgress, Owns, Idle

LEMMA ProgressStays ==
  ASSUME clone' = clone, UNCHANGED <<config, fetch>>, NEW r, Progress(r),
         NEW s, s.inv = r.inv, s.plan = r.plan, s.before = r.before, s.left = r.left,
         s.fetched = r.fetched, s.pc = "done" => s.left = {} /\ s.fetched
  PROVE  Progress(s)'
<1>1. PlanSound(s)'
  BY SamePlan, SoundStays DEF Progress
<1>2. s.left \subseteq Writes(s.plan) /\ Written(s) /\ Fetched(s)
  BY DEF Progress, Written, Fetched
<1>3. Written(s)' /\ Fetched(s)'
  BY <1>2 DEF Written, Fetched
<1> QED BY <1>1, <1>2, <1>3 DEF Progress

(* A run whose plan is sound and of which nothing is written.              *)
LEMMA ProgressOfPlan ==
  ASSUME SettingsSound, NEW inv \in SetupCalls, PlanState(inv).pc = "apply"
  PROVE  Progress(PlanState(inv))
<1> DEFINE r == PlanState(inv)
<1>1. /\ r.pc = "apply" /\ r.left = Writes(r.plan) /\ r.fetched = r.plan.already
      /\ r.before.config = config /\ r.before.fetch = fetch /\ r.tool = "setup"
  BY DEF PlanState
<1>2. RunSound(r)
  BY PlanBegins
<1> HIDE DEF r
<1>3. PlanSound(r)
  BY <1>1, <1>2 DEF RunSound, SetupRun, EnrollRun, Idle, Stopped
<1>4. Written(r) /\ Fetched(r)
  BY <1>1 DEF Written, Fetched
<1> QED BY <1>1, <1>3, <1>4 DEF Progress, r

LEMMA ProgressOfWrite ==
  ASSUME ProgressInv, NEW p \in Procs, SetupWrite(p)
  PROVE  Progress(run[p])' 
<1>1. PICK i \in run[p].left :
         /\ config' = [config EXCEPT ![run[p].plan.changes[i].key] = run[p].plan.changes[i].desired]
         /\ run' = [run EXCEPT ![p] = [run[p] EXCEPT !.left = run[p].left \ {i}]]
  <2>1. PICK i \in run[p].left :
           /\ config' = [config EXCEPT ![run[p].plan.changes[i].key] = run[p].plan.changes[i].desired]
           /\ run' = [run EXCEPT ![p].left = @ \ {i}]
    BY DEF SetupWrite
  <2> QED BY <2>1
<1>2. PICK r : r = run[p]
  OBVIOUS
<1>3. PICK s : s = run'[p]
  OBVIOUS
<1>4. /\ r.pc = "apply" /\ RunSound(r) /\ DOMAIN run = Procs
      /\ fetch' = fetch /\ clone' = clone /\ config \in [ManagedKeys -> Settings]
  BY <1>2 DEF SetupWrite, setupUnchanged, ProgressInv, Shape, RunsSound, SettingsSound
<1>5. Progress(r) /\ SetupRun(r)
  BY <1>2, <1>4 DEF ProgressInv, InProgress, Owns, RunSound, EnrollRun, Idle, Stopped
<1>6. /\ s.pc = "apply" /\ s.inv = r.inv /\ s.plan = r.plan /\ s.before = r.before
      /\ s.fetched = r.fetched /\ s.left = r.left \ {i}
  BY <1>1, <1>2, <1>3, <1>4, <1>5 DEF SetupRun
<1>7. PlanSound(r) /\ r.left \subseteq Writes(r.plan) /\ Written(r) /\ Fetched(r)
  BY <1>5 DEF Progress
<1>8. i \in r.left /\ i \in Writes(r.plan)
  BY <1>1, <1>2, <1>7
<1>9. ChangeSound(r, r.plan.changes[i])
      /\ \A j \in Writes(r.plan) : r.plan.changes[j].key = r.plan.changes[i].key => j = i
  <2>1. i \in Nat /\ \A j \in Writes(r.plan) : j \in DOMAIN r.plan.changes
    BY <1>7, <1>8, OneWrite DEF PlanSound
  <2> QED BY <1>7, <1>8, <2>1, OneWrite DEF PlanSound, OneEach
<1>10. /\ config'[r.plan.changes[i].key] = r.plan.changes[i].desired
       /\ \A k \in ManagedKeys : k # r.plan.changes[i].key => config'[k] = config[k]
  BY <1>1, <1>2, <1>4, <1>9 DEF ChangeSound
<1>11. Writes(s.plan) \ s.left = (Writes(r.plan) \ r.left) \cup {i}
  BY <1>6, <1>8
<1>12. \A j \in Writes(s.plan) \ s.left :
          config'[s.plan.changes[j].key] = s.plan.changes[j].desired
  <2>1. ASSUME NEW j \in Writes(r.plan) \ r.left
        PROVE  config'[r.plan.changes[j].key] = r.plan.changes[j].desired
    <3>1. r.plan.changes[j].key # r.plan.changes[i].key
      BY <1>8, <1>9
    <3>2. r.plan.changes[j].key \in ManagedKeys
      BY <1>7, OneWrite DEF ChangeSound
    <3> QED BY <1>7, <1>10, <3>1, <3>2 DEF Written
  <2> QED BY <1>6, <1>10, <1>11, <2>1
<1>13. \A k \in ManagedKeys :
          (\A j \in Writes(s.plan) \ s.left : s.plan.changes[j].key # k) => config'[k] = s.before.config[k]
  BY <1>6, <1>7, <1>10, <1>11 DEF Written
<1>14. PlanSound(s)'
  BY <1>4, <1>6, <1>7, SamePlan, SoundStays
<1>15. Fetched(s)'
  BY <1>4, <1>6, <1>7 DEF Fetched
<1>16. Progress(s)'
  BY <1>6, <1>7, <1>12, <1>13, <1>14, <1>15 DEF Progress, Written
<1> QED BY <1>3, <1>16

LEMMA ProgressOfFetch ==
  ASSUME ProgressInv, NEW p \in Procs, SetupAddFetch(p)
  PROVE  Progress(run[p])'
<1>2. PICK r : r = run[p]
  OBVIOUS
<1>3. PICK s : s = run'[p]
  OBVIOUS
<1>4. /\ r.pc = "apply" /\ RunSound(r) /\ DOMAIN run = Procs
      /\ config' = config /\ clone' = clone /\ ~r.fetched
      /\ fetch' = [fetch EXCEPT ![r.plan.remote] = @ \cup {AttestationRefspec}]
      /\ run' = [run EXCEPT ![p] = [r EXCEPT !.fetched = TRUE]]
  BY <1>2 DEF SetupAddFetch, setupUnchanged, ProgressInv, Shape, RunsSound
<1>5. Progress(r) /\ SetupRun(r)
  BY <1>2, <1>4 DEF ProgressInv, InProgress, Owns, RunSound, EnrollRun, Idle, Stopped
<1>6. /\ s.pc = "apply" /\ s.inv = r.inv /\ s.plan = r.plan /\ s.before = r.before
      /\ s.fetched = TRUE /\ s.left = r.left
  BY <1>2, <1>3, <1>4, <1>5 DEF SetupRun
<1>7. PlanSound(r) /\ r.left \subseteq Writes(r.plan) /\ Written(r) /\ Fetched(r)
  BY <1>5 DEF Progress
<1>8. PlanSound(s)' /\ Written(s)'
  BY <1>4, <1>6, <1>7, SamePlan, SoundStays DEF Written
<1>9. Fetched(s)'
  BY <1>4, <1>6, <1>7 DEF Fetched
<1>10. Progress(s)'
  BY <1>6, <1>7, <1>8, <1>9 DEF Progress
<1> QED BY <1>3, <1>10
(* Who changes the settings: a step of setup, or a person when nothing runs.  *)
LEMMA WhoWrites ==
  ASSUME [Next]_cloneVars
  PROVE  \/ UNCHANGED <<config, fetch, last>>
         \/ \E p \in Procs : SetupWrite(p) \/ SetupAddFetch(p)
         \/ Quiet /\ last' = "person" /\ UNCHANGED run
<1>1. CASE \E p \in Procs : SetupStep(p)
  BY <1>1 DEF SetupStep, SetupPlan, SetupDone, SetupFails
<1>2. CASE \E p \in Procs : EnrollStep(p) \/ Die(p)
  BY <1>2 DEF EnrollStep, EnrollBuild, EnrollWrite, EnrollFails, Die, enrollUnchanged
<1>3. CASE (\E p \in Procs : Paste(p)) \/ Merge \/ Revoke \/ Commit \/ Tick
  BY <1>3 DEF Paste, Merge, Revoke, Commit, Tick, settingsUnchanged
<1>4. CASE Configure \/ \E p \in Procs : RunReceipt(p)
  BY <1>4 DEF Configure, RunReceipt, Edit
<1>5. CASE UNCHANGED cloneVars
  BY <1>5 DEF cloneVars
<1> QED BY <1>1, <1>2, <1>3, <1>4, <1>5 DEF Next

LEMMA ProgressStep ==
  ASSUME ~Concurrent, ProgressInv, [Next]_cloneVars
  PROVE  InProgress'
<1>1. clone' = clone /\ DOMAIN run = Procs /\ \A q \in Procs : GoesOn(q)
  BY StepGoesOn DEF ProgressInv, Shape, RunsSound
<1>2. SUFFICES ASSUME NEW q \in Procs, Owns(q)' PROVE Progress(run[q])'
  BY DEF InProgress
<1>w. CASE SetupWrite(q)
  BY <1>w, ProgressOfWrite
<1>f. CASE SetupAddFetch(q)
  BY <1>f, ProgressOfFetch
<1>3. PICK r : r = run[q]
  OBVIOUS
<1>4. PICK s : s = run'[q]
  OBVIOUS
<1>5. RunSound(r)
  BY <1>3 DEF ProgressInv, Shape, RunsSound
<1>6. CASE UNCHANGED <<config, fetch, last>> /\ ~SetupWrite(q) /\ ~SetupAddFetch(q)
  <2>1. CASE s = r
    <3>1. Progress(r)
      BY <1>2, <1>3, <1>4, <1>6, <2>1 DEF Owns, ProgressInv, InProgress
    <3>2. Progress(s)'
      BY <1>1, <1>6, <2>1, <3>1, ProgressStays DEF Progress
    <3> QED BY <1>4, <3>2
  <2>2. ASSUME NEW inv \in SetupCalls, s = PlanState(inv) PROVE Progress(s)'
    <3>1. s.pc = "apply"
      BY <1>2, <1>4, <2>2 DEF Owns, PlanState
    <3>2. Progress(s)
      BY <2>2, <3>1, ProgressOfPlan DEF ProgressInv, Shape
    <3> QED BY <1>1, <1>6, <3>2, ProgressStays DEF Progress
  <2>3. ASSUME NEW inv \in EnrollCalls, s = BuildState(inv) PROVE FALSE
    BY <1>2, <1>4, <2>3 DEF Owns, BuildState
  <2>4. CASE Ends(q)
    <3>1. PICK pc \in {"done", "failed", "died"} :
             /\ s = [r EXCEPT !.pc = pc]
             /\ r.pc = "apply" /\ pc = "done" => r.left = {} /\ r.fetched
      BY <1>3, <1>4, <2>4 DEF Ends
    <3>2. r.pc \notin Stopped
      BY <1>3, <2>4 DEF Ends
    <3>3. SetupRun(r) /\ r.pc = "apply"
      <4>1. CASE EnrollRun(r)
        <5>1. s.tool = "enroll" /\ s.pc = pc
          BY <3>1, <4>1 DEF EnrollRun
        <5> QED BY <1>2, <1>4, <5>1 DEF Owns
      <4>2. SetupRun(r)
        BY <1>5, <3>2, <4>1 DEF RunSound, Idle, Stopped
      <4> QED BY <3>2, <4>2 DEF SetupRun
    <3>4. Progress(r)
      BY <1>3, <3>3 DEF Owns, ProgressInv, InProgress
    <3>5. /\ s.pc = pc /\ s.inv = r.inv /\ s.plan = r.plan /\ s.before = r.before
          /\ s.left = r.left /\ s.fetched = r.fetched
      BY <3>1, <3>3 DEF SetupRun
    <3>6. Progress(s)'
      BY <1>1, <1>6, <3>1, <3>3, <3>4, <3>5, ProgressStays
    <3> QED BY <1>4, <3>6
  <2> QED BY <1>1, <1>3, <1>4, <1>6, <2>1, <2>2, <2>3, <2>4 DEF GoesOn, Writing, Fetching
(* Another run's write makes the settings its own.                         *)
<1>7. ASSUME NEW p \in Procs, p # q, SetupWrite(p) \/ SetupAddFetch(p) PROVE FALSE
  <2>1. last' = p /\ run[p].pc = "apply" /\ run'[q] = run[q]
    BY <1>1, <1>7 DEF SetupWrite, SetupAddFetch
  <2>2. run[q].pc = "apply"
    BY <1>2, <1>7, <2>1 DEF Owns
  <2> QED BY <1>7, <2>1, <2>2 DEF ProgressInv, OneBusy, Busy, Stopped
<1>8. ASSUME Quiet, last' = "person", UNCHANGED run PROVE FALSE
  <2>1. run[q].pc = "apply"
    BY <1>2, <1>8, NamesAssumption DEF Owns
  <2> QED BY <1>8, <2>1, QuietMeans DEF Busy, Stopped
<1> QED BY <1>6, <1>7, <1>8, <1>w, <1>f, WhoWrites

LEMMA ProgressHolds == ASSUME ~Concurrent PROVE Spec => []ProgressInv
<1>1. Init => RegistryInv /\ ProgressInv
  BY RegistryInit, ShapeBegins, ProgressBegins DEF ProgressInv, RegistryInv
<1>2. RegistryInv /\ ProgressInv /\ [Next]_cloneVars => (RegistryInv /\ ProgressInv)'
  <2>1. RegistryInv /\ [Next]_cloneVars => RegistryInv' /\ OneBusy'
    BY RegistryStep DEF RegistryInv
  <2>2. ProgressInv /\ [Next]_cloneVars => Shape' /\ InProgress'
    BY RunsStaySound, SettingsStaySound, FilesStaySound, ProgressStep DEF ProgressInv, Shape
  <2> QED BY <2>1, <2>2 DEF ProgressInv
<1> QED BY <1>1, <1>2, PTL DEF Spec
(* ---- what that says of setup ------------------------------------------ *)

(* What is written or not of a place of the plan.                          *)
LEMMA PlaceOf ==
  ASSUME NEW r, Progress(r), NEW i \in DOMAIN r.plan.changes
  PROVE  /\ ChangeSound(r, r.plan.changes[i])
         /\ i \in Writes(r.plan) \ r.left => config[r.plan.changes[i].key] = r.plan.changes[i].desired
         /\ i \notin Writes(r.plan) \ r.left =>
              config[r.plan.changes[i].key] = r.before.config[r.plan.changes[i].key]
<1>1. ChangeSound(r, r.plan.changes[i]) /\ Written(r) /\ PlanSound(r)
  BY DEF Progress, PlanSound
<1>2. r.plan.changes[i].key \in ManagedKeys
  BY <1>1 DEF ChangeSound
<1>3. \A j \in Writes(r.plan) : r.plan.changes[j].key = r.plan.changes[i].key => j = i
  BY <1>1 DEF PlanSound, OneEach, Writes
<1> QED BY <1>1, <1>2, <1>3 DEF Written

LEMMA Restores ==
  ASSUME Shape, NEW r, Progress(r), r.pc = "done"
  PROVE  /\ ReversedSettings(r.plan, config) = r.before.config
         /\ ReversedRefspecs(r.plan, fetch) = r.before.fetch
<1>1. PlanSound(r) /\ Written(r) /\ Fetched(r) /\ r.left = {} /\ r.fetched
  BY DEF Progress
<1>2. ReversedSettings(r.plan, config) = r.before.config
  <2>1. ASSUME NEW k \in ManagedKeys PROVE ReversedSettings(r.plan, config)[k] = r.before.config[k]
    <3>1. CASE \E i \in Writes(r.plan) : r.plan.changes[i].key = k
      <4>1. PlanSound(r)
        BY <1>1
      <4> QED BY <3>1, <4>1, ReceiptGives
    <3>2. CASE \A i \in Writes(r.plan) : r.plan.changes[i].key # k
      <4>1. config[k] = r.before.config[k]
        BY <1>1, <3>2 DEF Written
      <4> QED BY <1>1, <3>2, <4>1, ReceiptGives
    <3> QED BY <3>1, <3>2
  <2>2. ReversedSettings(r.plan, config) = [k \in ManagedKeys |-> ReversedSettings(r.plan, config)[k]]
    BY DEF ReversedSettings
  <2>3. r.before.config = [k \in ManagedKeys |-> r.before.config[k]]
    BY <1>1 DEF PlanSound
  <2> QED BY <2>1, <2>2, <2>3
<1>3. ReversedRefspecs(r.plan, fetch) = r.before.fetch
  <2>1. CASE r.plan.already
    BY <1>1, <2>1 DEF Fetched, ReversedRefspecs
  <2>2. CASE ~r.plan.already
    <3> DEFINE remote == r.plan.remote
               old == r.before.fetch
    <3>1. remote \in Remotes /\ DOMAIN old = Remotes
          /\ \A rs \in old[remote] : ~RefspecEquivalent(rs, AttestationRefspec)
      BY <1>1, <2>2 DEF PlanSound, Already
    <3>2. fetch = [old EXCEPT ![remote] = @ \cup {AttestationRefspec}]
      BY <1>1, <2>2 DEF Fetched
    <3>3. RefspecEquivalent(AttestationRefspec, AttestationRefspec)
      BY DEF RefspecEquivalent
    <3>4. fetch[remote] = old[remote] \cup {AttestationRefspec}
      BY <3>1, <3>2
    <3>5. {rs \in fetch[remote] : RefspecEquivalent(rs, AttestationRefspec)} = {AttestationRefspec}
      BY <3>1, <3>3, <3>4
    <3>6. Cardinality({AttestationRefspec}) = 1
      BY FS_Singleton
    <3>7. ReversedRefspecs(r.plan, fetch) = [fetch EXCEPT ![remote] = fetch[remote] \ {AttestationRefspec}]
      BY <2>2, <3>5, <3>6 DEF ReversedRefspecs
    <3>8. fetch[remote] \ {AttestationRefspec} = old[remote]
      BY <3>1, <3>3, <3>4
    <3>f. old = [x \in Remotes |-> old[x]]
      BY <1>1 DEF Fetched, PlanSound
    <3> QED BY SMTT(30), <3>1, <3>2, <3>7, <3>8, <3>f
  <2> QED BY <2>1, <2>2
<1> QED BY <1>2, <1>3
(* Whatever a complete run of setup wrote, forced or not, its receipt undoes: *)
(* settings and refspecs are as the run found them (Receipt).              *)
THEOREM ReceiptsRestore == ASSUME ~Concurrent PROVE Spec => []ReceiptRestores
<1>1. ProgressInv => ReceiptRestores
  <2>1. SUFFICES ASSUME ProgressInv, NEW p \in Procs,
                        run[p].pc = "done", run[p].tool = "setup", last = p
                 PROVE  /\ ReversedSettings(run[p].plan, config) = run[p].before.config
                        /\ ReversedRefspecs(run[p].plan, fetch) = run[p].before.fetch
    BY DEF ReceiptRestores
  <2>2. Progress(run[p])
    BY <2>1 DEF ProgressInv, InProgress, Owns
  <2> QED BY <2>1, <2>2, Restores DEF ProgressInv
<1> QED BY <1>1, ProgressHolds, PTL

(* What a plan leaves a key at.                                            *)
LEMMA PlanLeaves ==
  ASSUME NEW plan, DOMAIN plan.changes \subseteq Nat, OneEach(plan.changes), NEW settings,
         NEW k \in ManagedKeys
  PROVE  /\ \A i \in Writes(plan) : plan.changes[i].key = k =>
              AppliedSettings(plan, settings)[k] = plan.changes[i].desired
         /\ (\A i \in Writes(plan) : plan.changes[i].key # k) =>
              AppliedSettings(plan, settings)[k] = settings[k]
<1>1. ASSUME NEW i \in Writes(plan), plan.changes[i].key = k
      PROVE  AppliedSettings(plan, settings)[k] = plan.changes[i].desired
  <2>1. {j \in Writes(plan) : plan.changes[j].key = k} = {i} /\ Min({i}) = i
    BY <1>1, LeastOfOne DEF Writes, OneEach
  <2> QED BY <2>1 DEF AppliedSettings
<1>2. ASSUME \A i \in Writes(plan) : plan.changes[i].key # k
      PROVE  AppliedSettings(plan, settings)[k] = settings[k]
  <2>1. {j \in Writes(plan) : plan.changes[j].key = k} = {}
    BY <1>2
  <2> QED BY <2>1 DEF AppliedSettings
<1> QED BY <1>1, <1>2

(* A second run of the same plan has the rest of it left to write.         *)
LEMMA Again ==
  ASSUME NEW r, Progress(r), DesiredKeys(r.inv) = Wanted(r.plan)
  PROVE  LET again == Compute(r.inv, config, fetch)
         IN  /\ Conflicts(again) = {} /\ Writes(again) = r.left
             /\ DOMAIN again.changes = DOMAIN r.plan.changes
             /\ \A i \in DOMAIN again.changes :
                  /\ again.changes[i].key = r.plan.changes[i].key
                  /\ again.changes[i].desired = r.plan.changes[i].desired
<1> DEFINE again == Compute(r.inv, config, fetch)
           Place(i) == r.plan.changes[i]
           Asked(i) == [key |-> Place(i).key, value |-> Place(i).desired]
<1>1. /\ DOMAIN again.changes = DOMAIN r.plan.changes
      /\ \A i \in DOMAIN r.plan.changes :
           /\ again.changes[i].key = Place(i).key /\ again.changes[i].desired = Place(i).desired
           /\ again.changes[i].action = ActionFor(r.inv, Asked(i), config[Place(i).key])
  <2>1. PICK wants : wants = DesiredKeys(r.inv)
    OBVIOUS
  <2>2. DOMAIN wants = DOMAIN r.plan.changes /\ \A i \in DOMAIN wants : wants[i] = Asked(i)
    BY <2>1 DEF Wanted
  <2>3. again.changes = [i \in DOMAIN wants |->
                           [key |-> wants[i].key, desired |-> wants[i].value,
                            current |-> config[wants[i].key],
                            action |-> ActionFor(r.inv, wants[i], config[wants[i].key])]]
    BY <2>1 DEF Compute
  <2>4. \A i : Asked(i).key = Place(i).key /\ Asked(i).value = Place(i).desired
    OBVIOUS
  <2> HIDE DEF again, Asked, Place
  <2>5. DOMAIN again.changes = DOMAIN r.plan.changes
    BY <2>2, <2>3
  <2>6. ASSUME NEW i \in DOMAIN r.plan.changes
        PROVE  /\ again.changes[i].key = Place(i).key /\ again.changes[i].desired = Place(i).desired
               /\ again.changes[i].action = ActionFor(r.inv, Asked(i), config[Place(i).key])
    BY <2>2, <2>3, <2>4
  <2> QED BY <2>5, <2>6
<1> HIDE DEF again
<1>2. ASSUME NEW i \in DOMAIN r.plan.changes
      PROVE  /\ again.changes[i].action # "conflict"
             /\ again.changes[i].action \in {"set", "forced"} <=> i \in r.left
  <2>1. ChangeSound(r, Place(i)) /\ r.left \subseteq Writes(r.plan)
        /\ (i \in Writes(r.plan) <=> Place(i).action \in {"set", "forced"})
    BY PlaceOf DEF Progress, Writes
  <2>2. CASE i \in Writes(r.plan) \ r.left
    <3>1. config[Place(i).key] = Asked(i).value
      BY <2>2, PlaceOf
    <3>2. again.changes[i].action = "ok"
      BY <1>1, <3>1 DEF ActionFor
    <3> QED BY <2>2, <3>2
  <2>3. CASE i \notin Writes(r.plan) \ r.left
    <3>1. config[Place(i).key] = Place(i).current
      BY <2>1, <2>3, PlaceOf DEF ChangeSound
    <3>2. again.changes[i].action = Place(i).action
      BY <1>1, <2>1, <3>1 DEF ChangeSound
    <3> QED BY <2>1, <2>3, <3>2 DEF ChangeSound
  <2> QED BY <2>2, <2>3
<1>3. r.left \subseteq DOMAIN r.plan.changes
  BY DEF Progress, Writes
<1>4. Conflicts(again) = {} /\ Writes(again) = r.left
  BY <1>1, <1>2, <1>3 DEF Conflicts, Writes
<1> QED BY <1>1, <1>4 DEF again

(* A run of setup that stopped half-way, failed or killed, can be run again:  *)
(* what it wrote is no conflict, and the second run ends where the first was  *)
(* to end (Compute, ActionFor).                                            *)
THEOREM RerunsComplete == ASSUME ~Concurrent PROVE Spec => []RerunCompletes
<1>1. ProgressInv => RerunCompletes
  <2>1. SUFFICES ASSUME ProgressInv, NEW p \in Procs, run[p].pc \in {"failed", "died"},
                        run[p].tool = "setup", last = p,
                        DesiredKeys(run[p].inv) = Wanted(run[p].plan)
                 PROVE  LET again == Compute(run[p].inv, config, fetch)
                        IN  /\ Conflicts(again) = {}
                            /\ AppliedSettings(again, config)
                                 = AppliedSettings(run[p].plan, run[p].before.config)
    BY DEF RerunCompletes
  <2>2. PICK r : r = run[p]
    OBVIOUS
  <2>3. Progress(r) /\ DesiredKeys(r.inv) = Wanted(r.plan)
    BY <2>1, <2>2 DEF ProgressInv, InProgress, Owns
  <2>4. PICK again : again = Compute(r.inv, config, fetch)
    OBVIOUS
  <2>5. /\ Conflicts(again) = {} /\ Writes(again) = r.left
        /\ DOMAIN again.changes = DOMAIN r.plan.changes
        /\ \A i \in DOMAIN again.changes :
             /\ again.changes[i].key = r.plan.changes[i].key
             /\ again.changes[i].desired = r.plan.changes[i].desired
    BY <2>3, <2>4, Again
  <2>6. /\ PlanSound(r) /\ Written(r) /\ r.left \subseteq Writes(r.plan)
        /\ OneEach(r.plan.changes) /\ DOMAIN r.plan.changes \subseteq Nat
    BY <2>3 DEF Progress, PlanSound
  <2>7. OneEach(again.changes)
    BY <2>5, <2>6 DEF OneEach
  <2>8. ASSUME NEW k \in ManagedKeys
        PROVE  AppliedSettings(again, config)[k] = AppliedSettings(r.plan, r.before.config)[k]
    <3>1. ASSUME NEW i \in r.left, r.plan.changes[i].key = k
          PROVE  AppliedSettings(again, config)[k] = AppliedSettings(r.plan, r.before.config)[k]
      <4>1. AppliedSettings(r.plan, r.before.config)[k] = r.plan.changes[i].desired
        BY <2>6, <3>1, PlanLeaves
      <4>2. i \in Writes(again) /\ i \in DOMAIN again.changes
        BY <2>5, <2>6 DEF Writes
      <4>3. AppliedSettings(again, config)[k] = again.changes[i].desired
        BY <2>5, <2>6, <2>7, <3>1, <4>2, PlanLeaves
      <4> QED BY <2>5, <4>1, <4>2, <4>3
    <3>2. ASSUME \A i \in r.left : r.plan.changes[i].key # k
          PROVE  AppliedSettings(again, config)[k] = AppliedSettings(r.plan, r.before.config)[k]
      <4>1. \A i \in Writes(again) : again.changes[i].key # k
        BY <2>5, <2>6, <3>2 DEF Writes
      <4>2. AppliedSettings(again, config)[k] = config[k]
        BY <2>5, <2>6, <2>7, <4>1, PlanLeaves
      <4>3. ASSUME NEW i \in Writes(r.plan), r.plan.changes[i].key = k
            PROVE  config[k] = AppliedSettings(r.plan, r.before.config)[k]
        <5>1. i \in Writes(r.plan) \ r.left
          BY <3>2, <4>3
        <5>2. config[k] = r.plan.changes[i].desired
          BY <2>6, <4>3, <5>1 DEF Written
        <5>3. AppliedSettings(r.plan, r.before.config)[k] = r.plan.changes[i].desired
          BY <2>6, <4>3, PlanLeaves
        <5> QED BY <5>2, <5>3
      <4>4. ASSUME \A i \in Writes(r.plan) : r.plan.changes[i].key # k
            PROVE  config[k] = AppliedSettings(r.plan, r.before.config)[k]
        <5>1. config[k] = r.before.config[k]
          BY <2>6, <4>4 DEF Written
        <5>2. AppliedSettings(r.plan, r.before.config)[k] = r.before.config[k]
          BY <2>6, <4>4, PlanLeaves
        <5> QED BY <5>1, <5>2
      <4> QED BY <4>2, <4>3, <4>4
    <3> QED BY <3>1, <3>2
  <2>9. AppliedSettings(again, config) = AppliedSettings(r.plan, r.before.config)
    <3>1. \A plan, settings : AppliedSettings(plan, settings)
             = [k \in ManagedKeys |-> AppliedSettings(plan, settings)[k]]
      BY DEF AppliedSettings
    <3>2. AppliedSettings(again, config) = [k \in ManagedKeys |-> AppliedSettings(again, config)[k]]
      BY <3>1
    <3>3. AppliedSettings(r.plan, r.before.config)
             = [k \in ManagedKeys |-> AppliedSettings(r.plan, r.before.config)[k]]
      BY <3>1
    <3> QED BY <2>8, <3>2, <3>3
  <2> QED BY <2>2, <2>4, <2>5, <2>9
<1> QED BY <1>1, ProgressHolds, PTL

(* The line enroll builds resolves in its namespace, at every instant.     *)
LEMMA BuiltLineResolves ==
  ASSUME FilesSound, NEW who, NEW ns, NEW key
  PROVE  EnrollmentLineCheck(<<EnrollmentLine(who, ns, key)>>) = "PASS"
<1> DEFINE line == EnrollmentLine(who, ns, key)
           lines == <<line>>
<1>1. line.key = key /\ line.namespaces = {ns} /\ line.authority = FALSE
      /\ line.after = 0 /\ line.before = Never
  BY DEF EnrollmentLine
<1>2. now \in Nat /\ now < Never
  BY NamesAssumption, NeverAssumption DEF FilesSound
<1>3. Authorizes(line, ns, now)
  BY <1>1, <1>2 DEF Authorizes, ForNamespace, ValidAt
<1> HIDE DEF line
<1>4. DOMAIN lines = {1} /\ lines[1] = line /\ lines # <<>>
  OBVIOUS
<1> HIDE DEF lines
<1>5. Resolve(key, lines, ns, now).outcome = "resolved"
  <2>1. {i \in {j \in DOMAIN lines : lines[j].key = key} : Authorizes(lines[i], ns, now)} # {}
    BY <1>1, <1>3, <1>4
  <2> QED BY <2>1, Zenon DEF Resolve
<1> QED BY <1>1, <1>4, <1>5 DEF EnrollmentLineCheck, lines, line
LEMMA SignsAndFetches ==
  ASSUME Shape, NEW r, Progress(r), r.pc = "done", ~clone.includes, r.inv.remote = "origin"
  PROVE  /\ SigningEnabled = "PASS" /\ SigningKeyLoads # "FAIL"
         /\ FetchRefspec = "PASS"
<1>1. PlanSound(r) /\ Written(r) /\ Fetched(r) /\ r.left = {} /\ r.fetched
  BY DEF Progress
<1>2. ASSUME NEW i \in DOMAIN r.plan.changes
      PROVE  Effective(r.plan.changes[i].key) = r.plan.changes[i].desired
  <2> DEFINE c == r.plan.changes[i]
  <2>1. /\ c.desired # Unset /\ c.action # "conflict" /\ c.current = r.before.config[c.key]
        /\ c.action = ActionFor(r.inv, [key |-> c.key, value |-> c.desired], c.current)
    BY <1>1 DEF PlanSound, ChangeSound
  <2>2. config[c.key] = c.desired
    <3>1. CASE i \in Writes(r.plan)
      BY <1>1, <3>1, PlaceOf
    <3>2. CASE i \notin Writes(r.plan)
      <4>1. c.action \notin {"set", "forced"}
        BY <3>2 DEF Writes
      <4>2. c.current = c.desired
        BY <2>1, <4>1 DEF ActionFor
      <4>3. config[c.key] = r.before.config[c.key]
        BY <3>2, PlaceOf
      <4> QED BY <2>1, <4>2, <4>3
    <3> QED BY <3>1, <3>2
  <2> QED BY <2>1, <2>2 DEF Effective
<1>3. /\ Effective("gpg.format") = Format(r.inv) /\ Effective("user.signingkey") = Key(r.inv)
      /\ Effective("commit.gpgsign") = "true"
  BY <1>1, <1>2 DEF PlanSound, Signs
<1>4. /\ ~clone.bare /\ Key(r.inv) # Unset
      /\ Format(r.inv) = "ssh" => Key(r.inv) \in SSHKeys
  BY <1>1, NamesAssumption DEF PlanSound, EnvironmentRefused, Key, Format
<1>5. SigningEnabled = "PASS"
  BY <1>3, <1>4 DEF SigningEnabled
<1>6. SigningKeyLoads # "FAIL"
  <2>1. CASE Format(r.inv) = "ssh"
    <3>1. SigningPubkey = Key(r.inv)
      BY <1>3, <1>4, <2>1 DEF SigningPubkey
    <3> QED BY <1>3, <1>4, <2>1, <3>1 DEF SigningKeyLoads
  <2>2. CASE Format(r.inv) # "ssh"
    BY <1>3, <1>4, <2>2 DEF SigningKeyLoads
  <2> QED BY <2>1, <2>2
<1>7. FetchRefspec = "PASS"
  <2>1. \E rs \in fetch["origin"] : RefspecEquivalent(rs, AttestationRefspec)
    <3>1. CASE r.plan.already
      BY <1>1, <3>1 DEF PlanSound, Already, Fetched
    <3>2. CASE ~r.plan.already
      <4>1. "origin" \in DOMAIN r.before.fetch /\ r.plan.remote = "origin"
        BY <1>1 DEF PlanSound
      <4>2. fetch["origin"] = r.before.fetch["origin"] \cup {AttestationRefspec}
        BY <1>1, <3>2, <4>1 DEF Fetched
      <4>3. RefspecEquivalent(AttestationRefspec, AttestationRefspec)
        BY DEF RefspecEquivalent
      <4> QED BY <4>2, <4>3
    <3> QED BY <3>1, <3>2
  <2>2. AttestationRefspec.src = "attestations" /\ AttestationRefspec.dst = "attestations"
    BY DEF AttestationRefspec
  <2> QED BY <2>1, <2>2 DEF FetchRefspec, RefspecEquivalent
<1> QED BY <1>5, <1>6, <1>7

(* What a run of setup leaves behind signs and fetches as doctor asks, and    *)
(* the lines enroll prints pass doctor's check of candidate lines, however    *)
(* much later (Compute; BuildSSH, CheckEnrollmentLine).                    *)
THEOREM CommandsPassDoctor == ASSUME ~Concurrent PROVE Spec => []CommandsSatisfyDoctor
<1>1. ProgressInv => SetupSatisfiesDoctor
  <2>1. SUFFICES ASSUME ProgressInv, NEW p \in Procs,
                        run[p].pc = "done", run[p].tool = "setup", last = p,
                        ~clone.includes, run[p].inv.remote = "origin"
                 PROVE  /\ SigningEnabled = "PASS" /\ SigningKeyLoads # "FAIL"
                        /\ FetchRefspec = "PASS"
    BY DEF SetupSatisfiesDoctor
  <2>2. Progress(run[p])
    BY <2>1 DEF ProgressInv, InProgress, Owns
  <2> QED BY <2>1, <2>2, SignsAndFetches DEF ProgressInv
<1>2. ProgressInv => PrintedLinesPass
  <2>1. SUFFICES ASSUME ProgressInv, NEW p \in Procs, run[p].pc # "idle", run[p].tool = "enroll",
                        NEW a \in run[p].adds, a.registry # "keyring"
                 PROVE  EnrollmentLineCheck(a.lines) = "PASS"
    BY DEF PrintedLinesPass
  <2>2. RunSound(run[p]) /\ FilesSound
    BY <2>1 DEF ProgressInv, Shape, RunsSound
  <2>3. AddSound(a)
    BY <2>1, <2>2 DEF RunSound, SetupRun, EnrollRun, Idle
  <2>4. PICK who \in People, ns \in {"git", "attestation"}, key \in SSHKeys :
           a.lines = <<EnrollmentLine(who, ns, key)>>
    BY <2>1, <2>3 DEF AddSound
  <2> QED BY <2>2, <2>4, BuiltLineResolves
<1> QED BY <1>1, <1>2, ProgressHolds, PTL DEF CommandsSatisfyDoctor
=============================================================================
