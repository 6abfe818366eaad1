------------------------------ MODULE MCPublish ------------------------------
(***************************************************************************)
(* A small instance of Publish for TLC: the tools.yaml entry before the    *)
(* publisher's names a repository whose manifests belong to another owner, *)
(* so that every run of the crawler fails on it first.                     *)
(***************************************************************************)
EXTENDS Publish, MCCrawler

CONSTANT u1

BadFirst == <<r2, r1>>
CloneOfFirst == [u \in Publishers |-> r1]

=============================================================================
