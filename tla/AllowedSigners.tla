-------------------------- MODULE AllowedSigners --------------------------
(* The allowed-signers registry and its resolver (internal/sshsig): who a  *)
(* signing key belongs to, in which namespace and at which instant.        *)
(*                                                                         *)
(* A registry is what reading its file yields: "parsed" with its lines,    *)
(* "broken" when one line does not parse (the whole file is then refused), *)
(* "absent", or "fenced" when the path leaves the repository or crosses a  *)
(* symbolic link.  A line keeps what the resolver tells apart; an instant  *)
(* is a number, valid-after 0 and valid-before Never stand for options     *)
(* that are not written.                                                   *)
EXTENDS Naturals, Sequences, FiniteSetsExt

CONSTANT Never

ASSUME NeverAssumption == Never \in Nat \ {0}

RegistryStates == {"parsed", "broken", "absent", "fenced"}

Registry(lines) == [state |-> "parsed", lines |-> lines]
Unreadable(state) == [state |-> state, lines |-> <<>>]

KeysOf(lines) == {lines[i].key : i \in DOMAIN lines}
PrincipalsOf(lines) ==
  UNION {{lines[i].principals[j] : j \in DOMAIN lines[i].principals} :
           i \in DOMAIN lines}

ValidAt(line, at) == line.after <= at /\ at < line.before

ForNamespace(line, ns) == line.namespaces = {} \/ ns \in line.namespaces

(* Whether a line lets its key sign in a namespace at an instant.          *)
Authorizes(line, ns, at) ==
  ~line.authority /\ ForNamespace(line, ns) /\ ValidAt(line, at)

(* The first line of the key that authorizes decides; a key with lines of  *)
(* which none does is revoked, which is not the same as unknown.           *)
Resolve(key, lines, ns, at) ==
  LET held == {i \in DOMAIN lines : lines[i].key = key}
      good == {i \in held : Authorizes(lines[i], ns, at)}
  IN  IF good # {} THEN [outcome |-> "resolved",
                         principal |-> lines[Min(good)].principals[1]]
      ELSE [outcome |-> IF held # {} THEN "revoked" ELSE "unknown",
            principal |-> ""]

(* The line enrolment writes: one principal, one namespace, no window.     *)
EnrollmentLine(principal, namespace, key) ==
  [principals |-> <<principal>>, key |-> key, namespaces |-> {namespace},
   authority |-> FALSE, after |-> 0, before |-> Never]
=============================================================================
