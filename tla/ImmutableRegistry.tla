-------------------------- MODULE ImmutableRegistry --------------------------
(***************************************************************************)
(* What the crawler promises to readers of the corpus and of the artifact  *)
(* store (docs/architecture.md, "Key properties"): a version appears whole *)
(* and at once, and is never rewritten or withdrawn from disk, except the  *)
(* synthetic v0.0.0, which may be retracted and published anew; the        *)
(* pointer latest.json is only ever set to a version that is published.    *)
(***************************************************************************)
CONSTANTS Packages, Versions, Synthetic, Contents, None

VARIABLES
  published,   \* published[p][v]: the snapshot served for that version
  pointer      \* pointer[p]: the version latest.json names

Init ==
  /\ published = [p \in Packages |-> [v \in Versions |-> None]]
  /\ pointer = [p \in Packages |-> None]

Publish(p, v, snapshot) ==
  /\ published[p][v] = None
  /\ published' = [published EXCEPT ![p][v] = snapshot]
  /\ UNCHANGED pointer

Retract(p) ==
  /\ published[p][Synthetic] # None
  /\ published' = [published EXCEPT ![p][Synthetic] = None]
  /\ UNCHANGED pointer

Point(p, v) ==
  /\ published[p][v] # None
  /\ pointer' = [pointer EXCEPT ![p] = v]
  /\ UNCHANGED published

Next ==
  \E p \in Packages :
    \/ \E v \in Versions, s \in Contents : Publish(p, v, s)
    \/ Retract(p)
    \/ \E v \in Versions : Point(p, v)

Spec == Init /\ [][Next]_<<published, pointer>>

=============================================================================
