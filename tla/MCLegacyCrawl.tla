---------------------------- MODULE MCLegacyCrawl ----------------------------
(***************************************************************************)
(* A small instance of LegacyCrawl for TLC.                                *)
(***************************************************************************)
EXTENDS LegacyCrawl

CONSTANTS r1, r2, s1, s2

BadFirst == <<r2, r1>>

(* r1 makes one good commit after another; r2 has one that the crawl        *)
(* refuses, and then one with the name of r1's tool.                        *)
TwoEach == [k \in Commits |-> IF k <= 2 THEN r1 ELSE r2]
Clash == [k \in Commits |-> [name |-> IF k = 3 THEN s2 ELSE s1, valid |-> k # 3]]

=============================================================================
