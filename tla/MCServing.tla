------------------------------ MODULE MCServing ------------------------------
(***************************************************************************)
(* Small instances of Serving for TLC.                                     *)
(***************************************************************************)
EXTENDS Serving

CONSTANTS r1, p1, acme, v100

OneEntry == <<r1>>
OnePackage == [r \in Repos |-> p1]
OneOwner == [p \in Packages |-> acme]
AllTrack == [r \in Repos |-> TRUE]
GoodManifests == [k \in Commits |-> [pkg |-> p1, valid |-> TRUE, readme |-> TRUE]]

(* "1.0.0" is another spelling of version 1.                                *)
Canonically == [s \in Spellings |-> IF s = v100 THEN 1 ELSE s]

(* No ?range=: every stable version.                                        *)
DefaultRange == {Stable}

=============================================================================
