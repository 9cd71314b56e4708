----------------------------- MODULE Bootstrap -----------------------------
(* The bootstrap family over one clone: invocations of setup and enroll,   *)
(* the diagnosis of doctor in every state between their steps, and people  *)
(* who paste, merge, revoke and commit lines, edit settings by hand and    *)
(* run a receipt.                                                          *)
EXTENDS GitSetup, Enrollment, Doctor, SequencesExt

CONSTANTS
  Clones,        \* the clones to begin with: facts, settings and registries
  SetupCalls,    \* the invocations of setup
  EnrollCalls,   \* the invocations of enroll
  TeamLines,     \* lines a teammate's merged change may bring
  HandSettings   \* settings a person may make: <<key, value>>

(* What a managed key may be set to.                                       *)
Settings == {Unset, "ssh", "openpgp", "true", "false", "gitmessage", "signers"}
             \cup SSHKeys \cup GPGKeys

(* A setting that is not there is none of the values, and "person" is no   *)
(* invocation; Never is later than every instant.                          *)
ASSUME NamesAssumption ==
  /\ Unset \notin {"ssh", "openpgp", "true", "gitmessage", "signers"}
                   \cup People \cup SSHKeys \cup GPGKeys
  /\ "person" \notin Procs
  /\ MaxTime \in Nat /\ MaxTime < Never /\ MaxEdits \in Nat

(* To begin with nothing is wrong: a registry the policy does not declare  *)
(* has no lines, and no key is in both.                                    *)
ASSUME ClonesAssumption ==
  \A c \in Clones :
    /\ c.facts.email \in People \cup {Unset}
    /\ c.config \in [ManagedKeys -> Settings]
    /\ c.fetch \in [Remotes -> SUBSET Refspecs]
    /\ c.work \in [RegistryNames -> RegistryFile] /\ c.head \in [RegistryNames -> RegistryFile]
    /\ \A r \in RegistryNames : /\ c.work[r].state # "parsed" => c.work[r].lines = <<>>
                                /\ c.head[r].state # "parsed" => c.head[r].lines = <<>>
    /\ \A r \in RegistryNames : r \in c.facts.declares \/ c.work[r].lines = <<>>
    /\ KeysOf(c.work["signers"].lines) \cap KeysOf(c.work["attest"].lines) = {}

ASSUME CallsAssumption ==
  /\ \A inv \in SetupCalls : inv.remote \in Remotes /\ inv.gpg \in GPGKeys \cup {Unset}
  /\ \A inv \in EnrollCalls : /\ inv.email \in People \cup {Unset}
                               /\ Len(inv.gpg) \in Nat /\ DOMAIN inv.gpg = 1..Len(inv.gpg)
  /\ \A t \in TeamLines : t.registry \in RegistryNames /\ t.line \in SignerLine
  /\ \A s \in HandSettings : s[1] \in ManagedKeys /\ s[2] \in Settings

Init ==
  /\ \E c \in Clones : /\ clone = c.facts /\ config = c.config /\ fetch = c.fetch
                       /\ work = c.work /\ head = c.head
  /\ now = 0 /\ edits = 0 /\ last = "person" /\ byHand = {}
  /\ run = [p \in Procs |-> Idle]

(* ---- people ------------------------------------------------------------ *)

Edit == Quiet /\ edits < MaxEdits /\ edits' = edits + 1

registriesUnchanged == <<work, head, byHand>>
settingsUnchanged == <<config, fetch, last>>

(* A printed line is pasted into its registry, whatever happened since.    *)
Paste(p) ==
  /\ run[p].pc = "shown" /\ run[p].tool = "enroll" /\ Edit
  /\ \E a \in run[p].adds :
       /\ Readable(a.registry)
       /\ work' = [work EXCEPT ![a.registry] = Registry(@.lines \o a.lines)]
       /\ byHand' = byHand \cup {<<a.registry, k>> : k \in KeysOf(a.lines)}
  /\ UNCHANGED <<clone, head, now, run, settingsUnchanged>>

(* A change of a teammate is pulled into a clean registry.                 *)
Merge ==
  /\ Edit
  /\ \E t \in TeamLines :
       /\ Readable(t.registry) /\ work[t.registry] = head[t.registry]
       /\ LET merged == Registry(Append(work[t.registry].lines, t.line))
          IN  /\ work' = [work EXCEPT ![t.registry] = merged]
              /\ head' = [head EXCEPT ![t.registry] = merged]
       /\ byHand' = byHand \cup {<<t.registry, t.line.key>>}
  /\ UNCHANGED <<clone, now, run, settingsUnchanged>>

(* A line's window is closed, or the line is removed.                      *)
Revoke ==
  /\ Edit
  /\ \E r \in {"signers", "attest"} : \E i \in DOMAIN work[r].lines :
       \/ work' = [work EXCEPT ![r].lines[i].before = MaxTime]
       \/ work' = [work EXCEPT ![r].lines = RemoveAt(@, i)]
  /\ UNCHANGED <<clone, head, byHand, now, run, settingsUnchanged>>

(* git commit of the trust material.                                       *)
Commit ==
  /\ Quiet /\ work # head
  /\ head' = work
  /\ UNCHANGED <<clone, work, byHand, now, run, edits, settingsUnchanged>>

Configure ==
  /\ Edit
  /\ \E s \in HandSettings : /\ config[s[1]] # s[2]
                             /\ config' = [config EXCEPT ![s[1]] = s[2]]
  /\ last' = "person"
  /\ UNCHANGED <<clone, fetch, registriesUnchanged, now, run>>

(* Somebody runs the commands of a receipt.                                *)
RunReceipt(p) ==
  /\ run[p].pc = "done" /\ run[p].tool = "setup" /\ Edit
  /\ config' = ReversedSettings(run[p].plan, config)
  /\ fetch' = ReversedRefspecs(run[p].plan, fetch)
  /\ last' = "person"
  /\ UNCHANGED <<clone, registriesUnchanged, now, run>>

Tick ==
  /\ Quiet /\ now < MaxTime
  /\ now' = now + 1
  /\ UNCHANGED <<clone, registriesUnchanged, run, edits, settingsUnchanged>>

SetupStep(p) ==
  \/ \E inv \in SetupCalls : SetupPlan(p, inv)
  \/ SetupWrite(p) \/ SetupAddFetch(p) \/ SetupDone(p) \/ SetupFails(p)

EnrollStep(p) ==
  \/ \E inv \in EnrollCalls : EnrollBuild(p, inv)
  \/ EnrollWrite(p) \/ EnrollFails(p)

Next ==
  \/ \E p \in Procs : SetupStep(p) \/ EnrollStep(p) \/ Die(p) \/ Paste(p) \/ RunReceipt(p)
  \/ Merge \/ Revoke \/ Commit \/ Configure \/ Tick

Spec == Init /\ [][Next]_cloneVars

(* ---- properties --------------------------------------------------------- *)

(* Settings, registries and commands keep their shape; in particular a run *)
(* that is about to write a registry has one registry to write, as the     *)
(* refusal of batches means it to.                                         *)
TypeOK ==
  /\ config \in [ManagedKeys -> Settings]
  /\ DOMAIN fetch = Remotes /\ DOMAIN work = RegistryNames /\ DOMAIN head = RegistryNames
  /\ \A r \in RegistryNames : /\ work[r].state \in RegistryStates
                              /\ work[r].state # "parsed" => work[r].lines = <<>>
  /\ now \in 0..MaxTime /\ edits \in 0..MaxEdits /\ last \in Procs \cup {"person"}
  /\ \A p \in Procs : /\ run[p].pc \in Stopped \cup {"apply", "write"}
                      /\ run[p].pc = "write" => Cardinality(run[p].adds) = 1

(* No run of setup replaces a signing key that is there, forced or not: it *)
(* writes the key where none was, in however many steps and runs.          *)
SigningKeyKept ==
  [][\A p \in Procs : SetupStep(p) =>
       config["user.signingkey"] \in {Unset, config'["user.signingkey"]}]_cloneVars

(* A run of setup that stopped half-way can be run again: what it wrote is *)
(* no conflict for the second run, which completes to the settings the     *)
(* first was meant to leave.                                               *)
RerunCompletes ==
  \A p \in Procs :
    /\ run[p].pc \in {"failed", "died"} /\ run[p].tool = "setup" /\ last = p
    /\ DesiredKeys(run[p].inv) = Wanted(run[p].plan)
    => LET again == Compute(run[p].inv, config, fetch)
       IN  /\ Conflicts(again) = {}
           /\ AppliedSettings(again, config)
                = AppliedSettings(run[p].plan, run[p].before.config)

(* The receipt of a complete run undoes that run: forced values come back, *)
(* new ones go, and the refspec goes if the run brought it.                *)
ReceiptRestores ==
  \A p \in Procs :
    run[p].pc = "done" /\ run[p].tool = "setup" /\ last = p =>
      /\ ReversedSettings(run[p].plan, config) = run[p].before.config
      /\ ReversedRefspecs(run[p].plan, fetch) = run[p].before.fetch

(* What setup leaves behind is what doctor asks for: signing is on with a  *)
(* key that loads, and attestations are fetched to where they are read.    *)
SetupSatisfiesDoctor ==
  \A p \in Procs :
    /\ run[p].pc = "done" /\ run[p].tool = "setup" /\ last = p
    /\ ~clone.includes /\ run[p].inv.remote = "origin"
    => /\ SigningEnabled = "PASS" /\ SigningKeyLoads # "FAIL"
       /\ FetchRefspec = "PASS"

(* No key signs both commits and attestations, unless a person put one of  *)
(* its lines in: two runs of enroll --write never bring it about, in any   *)
(* order and with any removal between them.                                *)
KeysApart ==
  \A k \in KeysOf(work["signers"].lines) \cap KeysOf(work["attest"].lines) :
    <<"signers", k>> \in byHand \/ <<"attest", k>> \in byHand

(* A run of enroll leaves every line that is there, committed or not, in   *)
(* its place: only people take lines out.                                  *)
EnrollOnlyAppends ==
  [][\A p \in Procs : EnrollStep(p) =>
       \A r \in RegistryNames : IsPrefix(work[r].lines, work'[r].lines)]_cloneVars

(* A line enroll prints passes doctor's check of candidate lines, however  *)
(* much later the check is made.                                           *)
PrintedLinesPass ==
  \A p \in Procs : run[p].pc # "idle" /\ run[p].tool = "enroll" =>
    \A a \in run[p].adds : a.registry = "keyring" \/ EnrollmentLineCheck(a.lines) = "PASS"

(* Setup and enroll leave what doctor asks for.                            *)
CommandsSatisfyDoctor == SetupSatisfiesDoctor /\ PrintedLinesPass

(* What a clean strict diagnosis promises: a commit this clone signs with  *)
(* an SSH key verifies against the registry of HEAD.  Two cases are known  *)
(* not to be covered by the checks, a registry nobody committed yet and a  *)
(* line of the key that does not authorize it now.                         *)
DoctorForetells ==
  \A persona \in {"maintainer", "contributor"} :
    SigningPubkey # Unset /\ Passes(persona, TRUE) =>
      \/ SimulateCommit = "PASS"
      \/ head["signers"].state = "absent"
      \/ \E i \in DOMAIN head["signers"].lines :
           /\ head["signers"].lines[i].key = SigningPubkey
           /\ ~Authorizes(head["signers"].lines[i], "git", now)

(* Setup and enroll each refuse a key the other registry holds, but a key  *)
(* that is only configured is in none: enrolled for attestations under the *)
(* clone's own address it makes the next plain doctor run fail.            *)
DoctorFindsSharedKey ==
  \A i \in DOMAIN Lines("attest") :
    /\ Lines("attest")[i].key = SigningPubkey
    /\ \E j \in DOMAIN Lines("attest")[i].principals : Lines("attest")[i].principals[j] = clone.email
    => ~Passes(ResolvePersona, FALSE)

(* A clean diagnosis can be relied on, in both respects.                   *)
DiagnosisHolds == DoctorForetells /\ DoctorFindsSharedKey
=============================================================================
