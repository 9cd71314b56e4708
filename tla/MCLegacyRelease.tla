--------------------------- MODULE MCLegacyRelease ---------------------------
(* Small instances of LegacyRelease.                                       *)
EXTENDS LegacyRelease, TLC

(* Commit 2 is an agent's, breaks the interface and may get reviewed; 3 is *)
(* on a side branch, merged by 4.                                          *)
MCParents == 1 :> {} @@ 2 :> {1} @@ 3 :> {1} @@ 4 :> {2, 3}
MCAuthors == 1 :> "human" @@ 2 :> "agent" @@ 3 :> "human" @@ 4 :> "human"
MCChanges == 1 :> Patch @@ 2 :> Major @@ 3 :> MinorBump @@ 4 :> Patch
OneComponent == {"root"}
OneTouches == [c \in Commits |-> {"root"}]
TwoComponents == {"lib", "root"}
TwoTouches == 1 :> {"root"} @@ 2 :> {"lib"} @@ 3 :> {"root"} @@ 4 :> {"root"}
==============================================================================
