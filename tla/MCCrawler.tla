------------------------------ MODULE MCCrawler ------------------------------
(***************************************************************************)
(* Small instances of Crawler for TLC.                                     *)
(***************************************************************************)
EXTENDS Crawler

CONSTANTS r1, r2, p1, p2, acme, other

OnePackage == [r \in Repos |-> p1]
OneOwner == [p \in Packages |-> acme]
AllTrack == [r \in Repos |-> TRUE]
NoneTrack == [r \in Repos |-> FALSE]

OneEntry == <<r1>>
TwoEntries == <<r1, r2>>

(* Every commit is valid and names the package of the URL.                  *)
GoodManifests == [k \in Commits |-> [pkg |-> p1, valid |-> TRUE, readme |-> TRUE]]

(* Two repositories of two owners, each with its own package ...            *)
TwoOwners == [p \in Packages |-> IF p = p1 THEN acme ELSE other]

TwoPackages == [r \in Repos |-> IF r = r1 THEN p1 ELSE p2]

(* ... where commit 1 belongs to the first one and commit 2 to the second.  *)
OneEach ==
  [k \in Commits |-> [pkg |-> IF k = 1 THEN p1 ELSE p2, valid |-> TRUE, readme |-> TRUE]]

(* Commit 2 lost its README.                                                *)
MissingReadme ==
  [k \in Commits |-> [pkg |-> p1, valid |-> TRUE, readme |-> k # 2]]

=============================================================================
