---------------------------- MODULE Enrollment ----------------------------
(* semver-trust enroll: build the line (or the keyring) with a registry it *)
(* would extend, print it, and under --write put the whole new file in     *)
(* place of the old one.                                                   *)
EXTENDS Clone

(* An SSH target: the registry a flag writes, the registry its key must    *)
(* not be in, and the namespace it is for.                                 *)
SSHTargets(inv) ==
  {t \in {[key |-> inv.commit, registry |-> "signers", cross |-> "attest",
           namespace |-> "git"],
          [key |-> inv.attest, registry |-> "attest", cross |-> "signers",
           namespace |-> "attestation"]} : t.key # Unset}

(* MUTANT of Targets: a keyring is not counted.                            *)
SSHOnly(inv) == IF SSHTargets(inv) = {} /\ inv.gpg # <<>> THEN 1 ELSE Cardinality(SSHTargets(inv))

Targets(inv) == Cardinality(SSHTargets(inv)) + (IF inv.gpg = <<>> THEN 0 ELSE 1)

Principal(inv) == IF inv.email # Unset THEN inv.email ELSE clone.email

(* A registry that is not there yet reads as empty.                        *)
Readable(r) == work[r].state \in {"parsed", "absent"}

(* MUTANT of BuildRefused: the other registry is not looked at.            *)
NoCrossCheck(inv, t) ==
  \/ t.registry \notin clone.declares \/ t.key \notin SSHKeys
  \/ ~Readable(t.registry) \/ t.key \in KeysOf(work[t.registry].lines)

(* BuildSSH and what feeds it: the registry must be declared and parse,    *)
(* and neither it nor the other one may hold the key.                      *)
BuildRefused(inv, t) ==
  \/ t.registry \notin clone.declares \/ t.key \notin SSHKeys
  \/ ~Readable(t.registry) \/ t.key \in KeysOf(work[t.registry].lines)
  \/ /\ t.cross \in clone.declares
     /\ ~Readable(t.cross) \/ t.key \in KeysOf(work[t.cross].lines)

NewLine(inv, t) == EnrollmentLine(Principal(inv), t.namespace, t.key)

(* The verifier's own resolver must accept the appended line.              *)
SelfCheckFails(inv, t) ==
  Resolve(t.key, Append(work[t.registry].lines, NewLine(inv, t)), t.namespace,
          now).outcome # "resolved"

(* An OpenPGP candidate is public key blocks of which one at least is new; *)
(* it is appended as it is, known keys included.                           *)
GPGRefused(inv) ==
  \/ "keyring" \notin clone.declares
  \/ \E i \in DOMAIN inv.gpg : inv.gpg[i] \notin GPGKeys
  \/ ~Readable("keyring")
  \/ \A i \in DOMAIN inv.gpg : inv.gpg[i] \in KeysOf(work["keyring"].lines)

KeyBlocks(gpg) == [i \in DOMAIN gpg |-> EnrollmentLine(gpg[i], "openpgp", gpg[i])]

(* Every reason to stop before anything is printed.  The two lines of one  *)
(* run may not carry one key, which neither registry could show yet.       *)
EnrollRefused(inv) ==
  \/ clone.policy # "parsed"
  \/ Targets(inv) = 0
  \/ SSHTargets(inv) # {} /\ Principal(inv) = Unset
  \/ inv.mode # "print" /\ Targets(inv) > 1
  \/ \E t \in SSHTargets(inv) : BuildRefused(inv, t) \/ SelfCheckFails(inv, t)
  \/ inv.commit # Unset /\ inv.commit = inv.attest
  \/ inv.gpg # <<>> /\ GPGRefused(inv)

(* What each target would add: a registry and the lines appended to it.    *)
Additions(inv) ==
  {[registry |-> t.registry, lines |-> <<NewLine(inv, t)>>] : t \in SSHTargets(inv)}
  \cup (IF inv.gpg = <<>> THEN {}
        ELSE {[registry |-> "keyring", lines |-> KeyBlocks(inv.gpg)]})

(* MUTANT of Existing: the new file is built on the committed registry.    *)
CommittedRegistry(r) == head[r].lines

Existing(r) == work[r].lines

enrollUnchanged == <<clone, config, fetch, head, now, edits, last, byHand>>

(* Read the registries, build and check; without --write only print.       *)
EnrollBuild(p, inv) ==
  /\ run[p] = Idle /\ Quiet
  /\ LET refused == EnrollRefused(inv)
     IN  Start(p, [pc |-> IF refused THEN "refused"
                          ELSE IF inv.mode = "write" THEN "write" ELSE "shown",
                   tool |-> "enroll", inv |-> inv,
                   adds |-> IF refused THEN {}
                            ELSE {[registry |-> a.registry, lines |-> a.lines,
                                   content |-> Existing(a.registry) \o a.lines] :
                                    a \in Additions(inv)}])
  /\ UNCHANGED <<enrollUnchanged, work>>

(* The rename puts the file built earlier in place, whatever is there now. *)
EnrollWrite(p) ==
  /\ run[p].pc = "write"
  /\ \E a \in run[p].adds :
       /\ work[a.registry].state # "fenced"
       /\ work' = [work EXCEPT ![a.registry] = Registry(a.content)]
  /\ Goto(p, "done")
  /\ UNCHANGED enrollUnchanged

(* The temporary file cannot be made, written or renamed.                  *)
EnrollFails(p) ==
  /\ run[p].pc = "write"
  /\ Goto(p, "failed")
  /\ UNCHANGED <<enrollUnchanged, work>>
=============================================================================
