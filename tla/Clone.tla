------------------------------- MODULE Clone -------------------------------
(* One clone of a repository as the bootstrap commands find it: its git    *)
(* settings, the registries of trust material in the working tree and in   *)
(* the tree of HEAD, and the commands running over it.                     *)
EXTENDS AllowedSigners

CONSTANTS
  Procs,         \* the invocations of setup and enroll
  SSHKeys,       \* SSH keys that load
  GPGKeys,       \* ids of OpenPGP keys
  People,        \* e-mail addresses
  Remotes,
  Concurrent,    \* whether commands and people may act during a command
  Unset,         \* a setting that is not there, a flag that is not given
  MaxTime,       \* bound on the clock
  MaxEdits       \* bound on what people do by hand

(* The keys setup may read and write, and nothing else.                    *)
ManagedKeys == {"gpg.format", "user.signingkey", "commit.gpgsign",
                "commit.template", "gpg.ssh.allowedSignersFile"}

RegistryNames == {"signers", "attest", "keyring"}

(* A line of a registry, and a registry as reading it yields it.           *)
SignerLine ==
  [principals : Seq(People \cup GPGKeys), key : SSHKeys \cup GPGKeys,
   namespaces : SUBSET {"git", "attestation", "openpgp"}, authority : BOOLEAN,
   after : Nat, before : Nat]
RegistryFile == [state : RegistryStates, lines : Seq(SignerLine)]

VARIABLES
  clone,    \* what no command changes: identity, policy, kind of repository
  config,   \* repo-local value of each managed key
  fetch,    \* fetch refspecs of each remote
  work,     \* registries in the working tree
  head,     \* registries in the tree of HEAD
  now,      \* the clock
  run,      \* what each invocation is doing
  edits,    \* number of changes people made by hand
  last,     \* who wrote settings last: an invocation or a person
  byHand    \* registry lines people put in themselves: <<registry, key>>

cloneVars == <<clone, config, fetch, work, head, now, run, edits, last,
               byHand>>

Idle == [pc |-> "idle"]
Stopped == {"idle", "refused", "shown", "done", "failed", "died"}

(* A command starts, and a person acts, when nothing else is under way.    *)
Quiet == Concurrent \/ \A q \in Procs : run[q].pc \in Stopped

Start(p, state) == run' = [run EXCEPT ![p] = state]
Goto(p, pc) == run' = [run EXCEPT ![p].pc = pc]

(* What git answers for a key: the local value, else the inherited one.    *)
Effective(k) == IF config[k] # Unset THEN config[k] ELSE clone.global[k]

(* The process of a command dies between two of its steps.                 *)
Die(p) ==
  /\ run[p].pc \notin Stopped
  /\ Goto(p, "died")
  /\ UNCHANGED <<clone, config, fetch, work, head, now, edits, last, byHand>>
=============================================================================
