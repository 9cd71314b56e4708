------------------------------- MODULE Doctor -------------------------------
(* semver-trust doctor: a read-only diagnosis of the clone.  Each check is *)
(* a function of the state that yields a severity; the persona selects the *)
(* checks and colours some.  Checks over staged files, messages, history,  *)
(* the accepted chain and the forge are left out.                          *)
EXTENDS Clone

Personas == {"maintainer", "contributor", "agent"}

Declares(r) == clone.policy = "parsed" /\ r \in clone.declares

(* The lines a check reads from a registry: none, when it is not declared. *)
Lines(r) == IF Declares(r) THEN work[r].lines ELSE <<>>
Fails(r) == Declares(r) /\ work[r].state # "parsed"

(* The SSH key commits are signed with, or Unset: an OpenPGP key, a key    *)
(* that does not load and no key at all are the same to the checks.        *)
SigningPubkey ==
  IF Effective("gpg.format") = "ssh" /\ Effective("user.signingkey") \in SSHKeys
    THEN Effective("user.signingkey") ELSE Unset

(* ---- config, policy and registry as files ----------------------------- *)

Identity == IF clone.bare THEN "SKIP" ELSE IF clone.email = Unset THEN "FAIL" ELSE "PASS"

SigningEnabled ==
  IF clone.bare THEN "SKIP"
  ELSE IF Effective("user.signingkey") = Unset \/ Effective("commit.gpgsign") # "true"
    THEN "FAIL" ELSE "PASS"

IsSet(k) == IF Effective(k) = Unset THEN "WARN" ELSE "PASS"

Hook == IF clone.hooks THEN "PASS" ELSE "WARN"

PolicyParse == IF clone.policy = "parsed" THEN "PASS" ELSE "FAIL"

(* MUTANT of RegistryParse: the working tree is not compared with HEAD.    *)
NotCompared ==
  IF ~Declares("signers") THEN "SKIP"
  ELSE IF Fails("signers") THEN "FAIL" ELSE "PASS"

(* The registry in the working tree must read, and be the committed one; a *)
(* registry nobody committed yet has nothing to differ from.               *)
RegistryParse ==
  IF ~Declares("signers") THEN "SKIP"
  ELSE IF Fails("signers") THEN "FAIL"
  ELSE IF head["signers"].state # "absent" /\ head["signers"] # work["signers"]
    THEN "WARN" ELSE "PASS"

(* ---- keys and registries ---------------------------------------------- *)

SigningKeyLoads ==
  IF Effective("user.signingkey") = Unset \/ Effective("gpg.format") # "ssh" THEN "SKIP"
  ELSE IF SigningPubkey = Unset THEN "FAIL" ELSE "PASS"

(* The key commits are signed with must not be an attestation key, and a   *)
(* registry that cannot be read is a failure.                              *)
AttestationDistinct ==
  IF ~Declares("attest") \/ SigningPubkey = Unset THEN "SKIP"
  ELSE IF Fails("attest") \/ SigningPubkey \in KeysOf(Lines("attest")) THEN "FAIL"
  ELSE "PASS"

Missing(persona) == IF persona = "contributor" THEN "WARN" ELSE "FAIL"

(* A registry without lines, or one that does not read, is skipped here.   *)
PrincipalEnrolled(persona) ==
  IF clone.email = Unset \/ Lines("signers") = <<>> THEN "SKIP"
  ELSE IF clone.email \in PrincipalsOf(Lines("signers")) THEN "PASS" ELSE Missing(persona)

(* The first line of the signing key decides, whatever it authorizes.      *)
ConfiguredVsEnrolled(persona) ==
  LET held == {i \in DOMAIN Lines("signers") : Lines("signers")[i].key = SigningPubkey}
  IN  IF SigningPubkey = Unset \/ clone.policy # "parsed" \/ Fails("signers") THEN "SKIP"
      ELSE IF held = {} THEN Missing(persona)
      ELSE IF clone.email \in PrincipalsOf(<<Lines("signers")[Min(held)]>>)
        THEN "PASS" ELSE "WARN"

GPGKeyring ==
  IF ~Declares("keyring") THEN "SKIP"
  ELSE IF Fails("keyring") \/ Lines("keyring") = <<>> THEN "FAIL" ELSE "PASS"

BotAccounts ==
  IF clone.policy # "parsed" \/ clone.bots = {} THEN "SKIP"
  ELSE IF clone.bots \subseteq PrincipalsOf(Lines("signers")) THEN "PASS" ELSE "WARN"

(* Only the remote named origin is looked at, in either form.              *)
FetchRefspec ==
  IF \E rs \in fetch["origin"] : rs.src = "attestations" /\ rs.dst = "attestations"
    THEN "PASS" ELSE "WARN"

(* ---- questions put to a run -------------------------------------------- *)

(* Candidate lines must name their namespaces and resolve in each now.     *)
EnrollmentLineCheck(lines) ==
  IF lines = <<>> THEN "SKIP"
  ELSE IF \A i \in DOMAIN lines :
            /\ lines[i].namespaces # {}
            /\ \A ns \in lines[i].namespaces :
                 Resolve(lines[i].key, lines, ns, now).outcome = "resolved"
    THEN "PASS" ELSE "FAIL"

(* Verifying a commit made by this clone: the registry is HEAD's.          *)
SimulateCommit ==
  IF clone.policy # "parsed" THEN "SKIP"
  ELSE IF /\ head["signers"].state = "parsed"
          /\ Resolve(SigningPubkey, head["signers"].lines, "git", now).outcome = "resolved"
    THEN "PASS" ELSE "FAIL"

(* ---- the run ----------------------------------------------------------- *)

(* Who is enrolled as an attester is taken for a maintainer.               *)
ResolvePersona ==
  IF Declares("attest") /\ clone.email # Unset
     /\ clone.email \in PrincipalsOf(work["attest"].lines)
    THEN "maintainer" ELSE "contributor"

Catalog(persona) ==
  {SigningEnabled, PolicyParse}
  \cup (IF persona = "agent" THEN {} ELSE
        {Identity, RegistryParse, SigningKeyLoads, FetchRefspec,
         PrincipalEnrolled(persona), ConfiguredVsEnrolled(persona)})
  \cup (IF persona = "contributor"
          THEN {IsSet("commit.template"), IsSet("gpg.ssh.allowedSignersFile"), Hook}
          ELSE {})
  \cup (IF persona = "maintainer"
          THEN {AttestationDistinct, GPGKeyring, BotAccounts} ELSE {})

(* The exit status: a failure, or under --strict a warning, is an error.   *)
Passes(persona, strict) ==
  /\ "FAIL" \notin Catalog(persona)
  /\ ~strict \/ "WARN" \notin Catalog(persona)
=============================================================================
