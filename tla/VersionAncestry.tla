--------------------------- MODULE VersionAncestry ---------------------------
(***************************************************************************)
(* SelectVersionAncestry (internal/version/ancestry.go): from an           *)
(* authenticated authority -- the bootstrap descriptor, the accepted       *)
(* predecessor, or the release a promotion supersedes -- derive the target *)
(* core, the iteration and the exact tag of a release, or refuse.          *)
(*                                                                         *)
(* Every reason for which the code refuses is a missing conjunct here: the *)
(* wording of the reason is left out.  The checks that compare two copies  *)
(* of the repository, component and tag-prefix names are left out too: one *)
(* component of one repository is modelled.                                *)
(***************************************************************************)
EXTENDS CommitGraph, TrustDecision, Sequences

Core == Nat \X Nat \X Nat
ZeroCore == <<0, 0, 0>>

BumpCore(core, bump) ==
    IF bump = Major THEN <<core[1] + 1, 0, 0>>
    ELSE IF bump = MinorBump THEN <<core[1], core[2] + 1, 0>>
    ELSE <<core[1], core[2], core[3] + 1>>

CoreLess(a, b) ==
    \/ a[1] < b[1]
    \/ a[1] = b[1] /\ a[2] < b[2]
    \/ a[1] = b[1] /\ a[2] = b[2] /\ a[3] < b[3]

(* A tag name: a core, and for a pre-release the trust suffix -tL.N. *)
Suffix == {<<>>} \cup (Levels \X (Nat \ {0}))
Name == [core : Core, suffix : Suffix]
CleanName(core) == [core |-> core, suffix |-> <<>>]
PrereleaseName(core, level, iter) == [core |-> core, suffix |-> <<level, iter>>]
IsClean(name) == name.suffix = <<>>
LevelOf(name) == name.suffix[1]
IterationOf(name) == name.suffix[2]

(* What a signed binding says of a tag (Binding): the raw ref object id    *)
(* and the commit it peels to.  Refs is what the repository says, a        *)
(* function from the names that exist to [oid, commit].                    *)
BindingOf(name, ref) == [name |-> name, oid |-> ref.oid, commit |-> ref.commit]

(* bindingParts: the tag still exists, was not recreated and has not moved.*)
Bound(binding, refs) ==
    /\ binding.name \in DOMAIN refs
    /\ refs[binding.name] = [oid |-> binding.oid, commit |-> binding.commit]

(* A VersionState carries baseline, baselineCore, targetCore, targetBump,  *)
(* cleanAccepted, targetIntervals, iterations and correctiveFloor.  Baseline*)
(* and correctiveFloor are optional: a sequence of at most one.            *)
NoIterations == [l \in {} |-> 1]
IterationsOf(name) ==
    IF IsClean(name) THEN NoIterations ELSE [l \in {LevelOf(name)} |-> IterationOf(name)]

IterationAt(iterations, level) == IF level \in DOMAIN iterations THEN iterations[level] ELSE 0

(* The consistency a selected predecessor's state must have, with the tag  *)
(* it emitted and with the ref set.                                        *)
StateConsistent(selected, refs) ==
    LET st == selected.state
        name == selected.tag.name
    IN  /\ st.correctiveFloor # <<>> => st.correctiveFloor[1] > st.targetBump
        /\ st.targetIntervals # <<>>
        /\ \A i, j \in DOMAIN st.targetIntervals :
              st.targetIntervals[i] = st.targetIntervals[j] => i = j
        /\ st.targetCore = name.core
        /\ IF IsClean(name)
           THEN st.cleanAccepted
           ELSE ~st.cleanAccepted
                  /\ IterationAt(st.iterations, LevelOf(name)) = IterationOf(name)
        /\ IF st.baseline = <<>>
           THEN st.baselineCore = ZeroCore
           ELSE /\ Bound(st.baseline[1], refs)
                /\ st.baseline[1].name.core = st.baselineCore
                /\ st.baseline[1].commit \in Reach[selected.to]
        /\ BumpCore(st.baselineCore, st.targetBump) = st.targetCore

(* A selected predecessor or superseded release: [to, tag, state, and      *)
(* hasSuccessor when a later release already moved past it].               *)
PredecessorUsable(selected, to, refs) ==
    /\ Bound(selected.tag, refs)
    /\ selected.tag.commit = selected.to
    /\ RecurringIntervalOK(selected.to, to)
    /\ StateConsistent(selected, refs)

SupersededUsable(selected, to, refs) ==
    /\ Bound(selected.tag, refs)
    /\ selected.tag.commit = selected.to
    /\ selected.to = to
    /\ StateConsistent(selected, refs)

(* The semantic floor an advance must honor: a pending corrective floor    *)
(* raises it.                                                              *)
WithCorrectiveFloor(d, floor) ==
    IF floor = <<>> THEN d ELSE [d EXCEPT !.floor = Larger(@, floor[1])]

(* MUTANT of LineageTrustOK: only a recut is taken to carry the target's   *)
(* history; an advance past a pre-release starts clean.                    *)
LineageTrustOfRecuts(selected, action, d, reevaluated) ==
    action = "recut" => reevaluated \/ d.effective <= LevelOf(selected.tag.name)

(* Raising the trust of a target that already has a pre-release takes an   *)
(* authenticated re-evaluation of its whole lineage.  Reevaluated is true  *)
(* when the caller supplies one.                                           *)
LineageTrustOK(selected, action, d, reevaluated) ==
    LET carries == action = "recut" \/ (action = "advance" /\ ~selected.state.cleanAccepted)
    IN  carries => reevaluated \/ d.effective <= LevelOf(selected.tag.name)

RecutOK(state, d) ==
    /\ state.correctiveFloor = <<>>
    /\ ~state.cleanAccepted
    /\ EffectiveBump(d) <= state.targetBump

(* What a verified evaluation returns: the target core, the emitted name   *)
(* (none for an attestation-only supersede), and the corrective floor.     *)
Verified(core, names, floor) == [ok |-> TRUE, core |-> core, name |-> names, floor |-> floor]
Refused == [ok |-> FALSE, core |-> ZeroCore, name |-> <<>>, floor |-> <<>>]

(* MUTANT of EmittedName: the last iteration is emitted, not the next.     *)
EmittedNameNotAdvanced(core, d, iterations, cleanAccepted) ==
    IF Channel(d) = "clean"
    THEN IF cleanAccepted THEN <<>> ELSE << CleanName(core) >>
    ELSE << PrereleaseName(core, d.effective, IterationAt(iterations, d.effective)) >>

(* The emitted name: the clean tag of the core, unless one was already     *)
(* accepted, or the next iteration at the effective level.                 *)
EmittedName(core, d, iterations, cleanAccepted) ==
    IF Channel(d) = "clean"
    THEN IF cleanAccepted THEN <<>> ELSE << CleanName(core) >>
    ELSE << PrereleaseName(core, d.effective, IterationAt(iterations, d.effective) + 1) >>

Emit(core, d, iterations, cleanAccepted, refs) ==
    LET names == EmittedName(core, d, iterations, cleanAccepted)
    IN  IF names # <<>> /\ names[1] \in DOMAIN refs
        THEN Refused                            \* version_output_tag_exists
        ELSE Verified(core, names, <<>>)

(* The bootstrap authority: legacy is the descriptor's version predecessor,*)
(* a sequence of at most one clean binding, reachable from the boundary    *)
(* (adoption) or from TO (inception).                                      *)
BootstrapAncestry(legacy, boundary, to, d, refs) ==
    LET anchor == IF boundary = NoCommit THEN to ELSE boundary
        usable == legacy # <<>> =>
                    /\ IsClean(legacy[1].name)
                    /\ Bound(legacy[1], refs)
                    /\ GenesisIntervalOK(boundary, to)
                    /\ legacy[1].commit \in Reach[anchor]
        base == IF legacy = <<>> THEN ZeroCore ELSE legacy[1].name.core
    IN  IF Resolved(d) /\ usable
        THEN Emit(BumpCore(base, EffectiveBump(d)), d, NoIterations, FALSE, refs)
        ELSE Refused

(* MUTANT of PredecessorAncestry: an advance bumps the baseline of the     *)
(* accepted target instead of the target.                                  *)
AdvanceFromBaseline(selected, action, to, d, reevaluated, refs) ==
    LET st == selected.state
        da == IF action = "advance" THEN WithCorrectiveFloor(d, st.correctiveFloor) ELSE d
        usable == /\ Resolved(d)
                  /\ PredecessorUsable(selected, to, refs)
                  /\ action = "recut" => RecutOK(st, d)
                  /\ LineageTrustOK(selected, action, d, reevaluated)
                  /\ Resolved(da)
    IN  IF ~usable THEN Refused
        ELSE IF action = "advance"
        THEN Emit(BumpCore(st.baselineCore, EffectiveBump(da)), da, NoIterations, FALSE, refs)
        ELSE Emit(st.targetCore, d, st.iterations, FALSE, refs)

(* The predecessor authority: advance to a new core, or recut the target.  *)
PredecessorAncestry(selected, action, to, d, reevaluated, refs) ==
    LET st == selected.state
        da == IF action = "advance" THEN WithCorrectiveFloor(d, st.correctiveFloor) ELSE d
        usable == /\ Resolved(d)
                  /\ PredecessorUsable(selected, to, refs)
                  /\ action = "recut" => RecutOK(st, d)
                  /\ LineageTrustOK(selected, action, d, reevaluated)
                  /\ Resolved(da)
    IN  IF ~usable THEN Refused
        ELSE IF action = "advance"
        THEN Emit(BumpCore(st.targetCore, EffectiveBump(da)), da, NoIterations, FALSE, refs)
        ELSE Emit(st.targetCore, d, st.iterations, FALSE, refs)

(* The superseded authority re-evaluates one release at its own commit: it *)
(* promotes a pre-release to its clean tag, or records that the release is *)
(* behind, under-bumped (a corrective floor) or demoted.                   *)
SupersededAncestry(selected, to, d, refs) ==
    LET st == selected.state
    IN  IF ~(Resolved(d) /\ SupersededUsable(selected, to, refs)) THEN Refused
        ELSE IF selected.hasSuccessor THEN Verified(st.targetCore, <<>>, <<>>)
        ELSE IF EffectiveBump(d) > st.targetBump
        THEN Verified(st.targetCore, <<>>,
                      << IF st.correctiveFloor = <<>> THEN EffectiveBump(d)
                         ELSE Larger(EffectiveBump(d), st.correctiveFloor[1]) >>)
        ELSE IF st.cleanAccepted /\ Channel(d) = "prerelease"
        THEN Verified(st.targetCore, <<>>, <<>>)
        ELSE Emit(st.targetCore, d, st.iterations, st.cleanAccepted, refs)
==============================================================================
