----------------------------- MODULE GitSetup -----------------------------
(* semver-trust setup: one plan over the settings of the clone, refused as *)
(* a whole or written one git command at a time, then a receipt.           *)
EXTENDS Clone

(* A refspec by what fetching compares: source, destination and force.     *)
RefPlaces == {"heads", "remotes", "attestations"}
Refspecs == [force : BOOLEAN, src : RefPlaces, dst : RefPlaces]

AttestationRefspec ==
  [force |-> FALSE, src |-> "attestations", dst |-> "attestations"]

(* MUTANT of RefspecEquivalent: only the source is compared.               *)
SameSource(a, b) == a.src = b.src

(* The force sign changes how refs move, not which.                        *)
RefspecEquivalent(a, b) == a.src = b.src /\ a.dst = b.dst

(* ---- what the command finds ------------------------------------------- *)

(* Root, a redirected git and a bare repository are refused, and exactly   *)
(* one kind of key must be offered.                                        *)
EnvironmentRefused(inv) ==
  \/ clone.root \/ clone.redirected \/ clone.bare
  \/ (inv.ssh = Unset <=> inv.gpg = Unset)

(* A policy is optional, one that is there must load; an offered SSH key   *)
(* must load, and the path of the registry to wire must be inside.         *)
InputRefused(inv) ==
  \/ clone.policy = "broken"
  \/ inv.ssh # Unset /\ (inv.ssh \notin SSHKeys \/ work["signers"].state = "fenced")

(* The two-key check: an attestation registry the policy declares must be  *)
(* readable and must not hold the offered key.                             *)
KeyRefused(inv) ==
  /\ inv.ssh # Unset /\ clone.policy = "parsed" /\ "attest" \in clone.declares
  /\ \/ work["attest"].state # "parsed"
     \/ inv.ssh \in KeysOf(work["attest"].lines)

DesiredKeys(inv) ==
  (IF inv.ssh # Unset
     THEN <<[key |-> "gpg.format", value |-> "ssh"],
            [key |-> "user.signingkey", value |-> inv.ssh]>>
     ELSE <<[key |-> "gpg.format", value |-> "openpgp"],
            [key |-> "user.signingkey", value |-> inv.gpg]>>)
  \o <<[key |-> "commit.gpgsign", value |-> "true"]>>
  \o (IF clone.gitmessage
        THEN <<[key |-> "commit.template", value |-> "gitmessage"]>> ELSE <<>>)
  \o (IF inv.ssh # Unset /\ work["signers"].state \in {"parsed", "broken"}
        THEN <<[key |-> "gpg.ssh.allowedSignersFile", value |-> "signers"]>>
        ELSE <<>>)

(* MUTANT of ActionFor: --force overwrites the signing key as well.        *)
ForceSigningKey(inv, want, current) ==
  IF current = want.value THEN "ok"
  ELSE IF current = Unset THEN IF clone.includes THEN "manual" ELSE "set"
  ELSE IF inv.force THEN "forced" ELSE "conflict"

(* MUTANT of ActionFor: a value that is already right is a conflict.       *)
SameIsConflict(inv, want, current) ==
  IF current = Unset THEN IF clone.includes THEN "manual" ELSE "set"
  ELSE IF inv.force /\ want.key # "user.signingkey" THEN "forced"
  ELSE "conflict"

(* What setup does with one key.  An unset key is left to the person when  *)
(* the settings include other files; the signing key is never overwritten. *)
ActionFor(inv, want, current) ==
  IF current = want.value THEN "ok"
  ELSE IF current = Unset THEN IF clone.includes THEN "manual" ELSE "set"
  ELSE IF inv.force /\ want.key # "user.signingkey" THEN "forced"
  ELSE "conflict"

(* Whether the refspec is there already, forced or not.                    *)
Already(inv, refspecs) ==
  \E rs \in refspecs[inv.remote] : RefspecEquivalent(rs, AttestationRefspec)

Compute(inv, settings, refspecs) ==
  LET wants == DesiredKeys(inv)
  IN  [changes |-> [i \in DOMAIN wants |->
                      [key |-> wants[i].key, desired |-> wants[i].value,
                       current |-> settings[wants[i].key],
                       action |-> ActionFor(inv, wants[i], settings[wants[i].key])]],
       remote |-> inv.remote,
       already |-> Already(inv, refspecs)]

Conflicts(plan) ==
  {i \in DOMAIN plan.changes : plan.changes[i].action = "conflict"}

(* The changes that are to be written, by their places in the plan.        *)
Writes(plan) ==
  {i \in DOMAIN plan.changes : plan.changes[i].action \in {"set", "forced"}}

Wanted(plan) ==
  [i \in DOMAIN plan.changes |-> [key |-> plan.changes[i].key,
                                  value |-> plan.changes[i].desired]]

(* The settings once every write of a plan is made.                        *)
AppliedSettings(plan, settings) ==
  [k \in ManagedKeys |->
     LET of == {i \in Writes(plan) : plan.changes[i].key = k}
     IN  IF of = {} THEN settings[k] ELSE plan.changes[Min(of)].desired]

(* ---- the receipt ------------------------------------------------------ *)

(* MUTANT of Restored: the receipt unsets what was forced.                 *)
RestoredUnset(c) == Unset

(* The value one receipt line gives a key back.                            *)
Restored(c) == IF c.action = "forced" THEN c.current ELSE Unset

ReversedSettings(plan, settings) ==
  [k \in ManagedKeys |->
     LET of == {i \in Writes(plan) : plan.changes[i].key = k}
     IN  IF of = {} THEN settings[k] ELSE Restored(plan.changes[Min(of)])]

(* git --unset takes a pattern, which the forced form matches too, and     *)
(* removes nothing when several values match.                              *)
ReversedRefspecs(plan, refspecs) ==
  LET matching == {rs \in refspecs[plan.remote] :
                     RefspecEquivalent(rs, AttestationRefspec)}
  IN  IF plan.already \/ Cardinality(matching) # 1 THEN refspecs
      ELSE [refspecs EXCEPT ![plan.remote] = @ \ matching]

(* ---- the steps -------------------------------------------------------- *)

setupUnchanged == <<clone, work, head, now, edits, byHand>>

SetupRefused(inv) ==
  \/ EnvironmentRefused(inv) \/ InputRefused(inv) \/ KeyRefused(inv)
  \/ Conflicts(Compute(inv, config, fetch)) # {}

(* Read everything, plan, and refuse or go on; --dry-run only prints.      *)
SetupPlan(p, inv) ==
  /\ run[p] = Idle /\ Quiet
  /\ LET plan == Compute(inv, config, fetch)
     IN  Start(p, [pc |-> IF SetupRefused(inv) THEN "refused"
                          ELSE IF inv.dry THEN "shown" ELSE "apply",
                   tool |-> "setup", inv |-> inv, plan |-> plan,
                   left |-> Writes(plan), fetched |-> plan.already,
                   before |-> [config |-> config, fetch |-> fetch]])
  /\ UNCHANGED <<setupUnchanged, config, fetch, last>>

(* One git config command, for the first change that is left.              *)
SetupWrite(p) ==
  /\ run[p].pc = "apply"
  /\ \E i \in run[p].left :
       /\ \A j \in run[p].left : i <= j
       /\ LET c == run[p].plan.changes[i] IN config' = [config EXCEPT ![c.key] = c.desired]
       /\ run' = [run EXCEPT ![p].left = @ \ {i}]
  /\ last' = p
  /\ UNCHANGED <<setupUnchanged, fetch>>

SetupAddFetch(p) ==
  /\ run[p].pc = "apply" /\ run[p].left = {} /\ ~run[p].fetched
  /\ fetch' = [fetch EXCEPT ![run[p].plan.remote] = @ \cup {AttestationRefspec}]
  /\ run' = [run EXCEPT ![p].fetched = TRUE]
  /\ last' = p
  /\ UNCHANGED <<setupUnchanged, config>>

(* Nothing is left to write: the run ends with its receipt.                *)
SetupDone(p) ==
  /\ run[p].pc = "apply" /\ run[p].left = {} /\ run[p].fetched
  /\ Goto(p, "done")
  /\ UNCHANGED <<setupUnchanged, config, fetch, last>>

(* git refuses a write: the run ends there, without a receipt.             *)
SetupFails(p) ==
  /\ run[p].pc = "apply" /\ (run[p].left # {} \/ ~run[p].fetched)
  /\ Goto(p, "failed")
  /\ UNCHANGED <<setupUnchanged, config, fetch, last>>
=============================================================================
