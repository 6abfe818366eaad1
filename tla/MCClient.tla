------------------------------- MODULE MCClient -------------------------------
(***************************************************************************)
(* Small instances of Client for TLC.                                      *)
(***************************************************************************)
EXTENDS Client, TLC

CONSTANTS p1, p2, b1, k1, k2

(* Manifests named @owner/slug.                                            *)
Qualified == [p \in Packages |-> p]

AllMCP == [p \in Packages |-> "mcp"]
Mixed ==
  [p \in Packages |-> IF p = b1 THEN "bundle" ELSE IF p = p1 THEN "mcp" ELSE "cli"]

(* The one command-line tool calls its executable by another name.          *)
OneTool == [p \in Packages |-> "tool"]

Nothing == [p \in Packages |-> [v \in Versions |-> << >>]]
Latest(p) == [pkg |-> p, spec |-> Versions]

(* p1 at first recommends p2.                                              *)
Recommended ==
  [p \in Packages |-> [v \in Versions |->
     IF p = p1 /\ v = 0 THEN <<Latest(p2)>> ELSE << >>]]

(* A bundle, at first of p2 alone, that p1 joins later.                    *)
Growing ==
  [p \in Packages |-> [v \in Versions |->
     IF p # b1 THEN << >>
     ELSE IF v = 0 THEN <<[pkg |-> p2, spec |-> {0}]>>
     ELSE <<Latest(p1), [pkg |-> p2, spec |-> {0}]>>]]

(* v0.0.0, v1.0.0, v1.1.0 and v2.0.0; the default range and the oldest.       *)
Majors == [v \in Versions |-> IF v <= 1 THEN v ELSE v - 1]
Minors == [v \in Versions |-> IF v = 2 THEN 1 ELSE 0]
Flat == [v \in Versions |-> 0]
LatestOrFirst == {Versions, {1}}
LatestOnly == {Versions}

(* Nothing tells one harness from another.                                  *)
Alike == Permutations(Harnesses)

=============================================================================
