---------------------------- MODULE MCBootstrap ----------------------------
(* A handful of clones and invocations for Bootstrap.                      *)
EXTENDS Bootstrap

Refspec(src, dst) == [force |-> FALSE, src |-> src, dst |-> dst]
Heads == Refspec("heads", "remotes")
Elsewhere == Refspec("attestations", "heads")
Forced == [AttestationRefspec EXCEPT !.force = TRUE]

NoSettings == [k \in ManagedKeys |-> Unset]

Facts ==
  [email |-> "alice", policy |-> "parsed", declares |-> RegistryNames, bots |-> {},
   root |-> FALSE, redirected |-> FALSE, bare |-> FALSE, includes |-> FALSE,
   gitmessage |-> TRUE, hooks |-> TRUE, global |-> NoSettings]

Line(who, ns, key) == EnrollmentLine(who, ns, key)
NoRegistries == [r \in RegistryNames |-> Unreadable("absent")]
TeamRegistries ==
  [r \in RegistryNames |->
     CASE r = "signers" -> Registry(<<Line("bob", "git", "k3")>>)
       [] r = "attest"  -> Registry(<<Line("bob", "attestation", "k4")>>)
       [] OTHER         -> Registry(<<Line("g1", "openpgp", "g1")>>)]

CloneWith(facts, config0, refspecs, registries) ==
  [facts |-> facts, config |-> config0, work |-> registries, head |-> registries,
   fetch |-> [r \in Remotes |-> IF r = "origin" THEN refspecs ELSE {}]]

(* A first clone, a clone of a team with old settings, one whose settings  *)
(* come from elsewhere, and those the commands refuse.                     *)
MCClones ==
  {CloneWith(Facts, NoSettings, {Heads}, NoRegistries),
   CloneWith(Facts,
             [NoSettings EXCEPT !["gpg.format"] = "openpgp", !["commit.gpgsign"] = "false"],
             {Heads, Elsewhere}, TeamRegistries),
   CloneWith([Facts EXCEPT !.includes = TRUE, !.email = "bob", !.gitmessage = FALSE,
                           !.global = [NoSettings EXCEPT !["gpg.format"] = "ssh",
                                                         !["user.signingkey"] = "k1",
                                                         !["commit.gpgsign"] = "true"]],
             NoSettings, {Forced}, TeamRegistries),
   CloneWith([Facts EXCEPT !.bots = {"bot"}],
             [NoSettings EXCEPT !["user.signingkey"] = "k2"], {}, TeamRegistries),
   CloneWith([Facts EXCEPT !.policy = "broken"], NoSettings, {}, NoRegistries),
   CloneWith([Facts EXCEPT !.bare = TRUE], NoSettings, {}, TeamRegistries),
   CloneWith(Facts, NoSettings, {}, [TeamRegistries EXCEPT !["attest"] = Unreadable("broken")]),
   CloneWith(Facts, NoSettings, {}, [TeamRegistries EXCEPT !["signers"] = Unreadable("fenced")])}

Setup(ssh, gpg, force, remote, dry) ==
  [ssh |-> ssh, gpg |-> gpg, force |-> force, remote |-> remote, dry |-> dry]
MCSetupCalls ==
  {Setup("k1", Unset, f, "origin", FALSE) : f \in BOOLEAN}
  \cup {Setup("k1", Unset, FALSE, "upstream", FALSE), Setup("k1", Unset, FALSE, "origin", TRUE),
        Setup(Unset, "g1", TRUE, "origin", FALSE)}

Enroll(commit, attest, gpg, mode) ==
  [commit |-> commit, attest |-> attest, gpg |-> gpg, email |-> Unset, mode |-> mode]
MCEnrollCalls ==
  {Enroll("k1", Unset, <<>>, m) : m \in {"print", "write"}}
  \cup {Enroll(Unset, "k1", <<>>, m) : m \in {"print", "write"}}
  \cup {Enroll("k1", "k1", <<>>, "print"), Enroll("k2", "k1", <<>>, "print"),
        Enroll(Unset, Unset, <<"g1", "g2">>, "write"), Enroll("k2", Unset, <<"g2">>, "write"),
        [Enroll(Unset, "k2", <<>>, "write") EXCEPT !.email = "carol"]}

MCTeamLines ==
  {[registry |-> "signers", line |-> Line("bot", "git", "k2")],
   [registry |-> "attest", line |-> Line("alice", "attestation", "k1")]}

MCHandSettings == {<<"user.signingkey", "k2">>, <<"commit.gpgsign", "false">>}
=============================================================================
