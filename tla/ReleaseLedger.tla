---------------------------- MODULE ReleaseLedger ----------------------------
(***************************************************************************)
(* What the release chain promises to whoever reads it: an append-only     *)
(* ledger of released versions.  An entry never changes; each one continues*)
(* the version line and the history of the one before it; and an entry can *)
(* be taken back only as long as no command has reported it as released.   *)
(***************************************************************************)
EXTENDS VersionAncestry, SequencesExt

VARIABLES
    ledger,     \* the entries, oldest first: [name, commit]
    announced   \* how many of them, from the start, have been reported

Entry == [name : Name, commit : Commits]

(* A new version goes forward: a larger core, or the same target core while*)
(* it has no clean release, on the same or on a descendant commit.         *)
Continues(old, new) ==
    /\ old.commit \in Reach[new.commit]
    /\ \/ CoreLess(old.name.core, new.name.core)
       \/ old.name.core = new.name.core /\ ~IsClean(old.name) /\ new.name # old.name

Init == ledger = <<>> /\ announced = 0

Release(entry) ==
    /\ ledger # <<>> => Continues(Last(ledger), entry)
    /\ ledger' = Append(ledger, entry)
    /\ UNCHANGED announced

Announce ==
    /\ announced < Len(ledger)
    /\ announced' = Len(ledger)
    /\ UNCHANGED ledger

Withdraw ==
    /\ announced < Len(ledger)
    /\ ledger' = Front(ledger)
    /\ UNCHANGED announced

(* Release of some entry, stated without enumerating the names. *)
ReleaseAny ==
    /\ Len(ledger') > Len(ledger)
    /\ Last(ledger') \in Entry
    /\ Release(Last(ledger'))

Next == ReleaseAny \/ Announce \/ Withdraw

Spec == Init /\ [][Next]_<<ledger, announced>>
==============================================================================
