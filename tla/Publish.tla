------------------------------- MODULE Publish -------------------------------
(***************************************************************************)
(* inguma publish (internal/clicmd/publish.go) against the crawler: the    *)
(* command tags a release in the publisher's clone, pushes the tag, and    *)
(* asks apid for the version until the crawler has ingested it.            *)
(*                                                                         *)
(* A publisher works in a clone of a listed repository, at a commit whose  *)
(* inguma.yaml declares a version.  Runs that end before the tag is looked *)
(* for (no version, a bare name, a dirty tree) change nothing and are left *)
(* out.  The tool page is one step here: the files of a tagged version     *)
(* only ever appear, so reading them one by one finds no more.             *)
(***************************************************************************)
EXTENDS Crawler

CONSTANTS
  Publishers,   \* clones in which inguma publish is run
  CloneOf       \* the repository each of them clones

ASSUME PublishersAssumption == CloneOf \in [Publishers -> Repos]

VARIABLES
  local,   \* local[u][v] is the commit of refs/tags/v in the clone
  pub      \* the control state of publish in each clone

pubVars == <<local, pub>>
allVars == <<vars, pubVars>>

PubPcs == {"idle", "tag", "push", "poll"}
PubJobs == [pc : PubPcs, version : Versions \cup {None}, commit : Commits \cup {None}]
NotPublishing == [pc |-> "idle", version |-> None, commit |-> None]

PubAt(u, pc) == pub[u].pc = pc
PubGoto(u, pc) == pub' = [pub EXCEPT ![u].pc = pc]
PubReturn(u) == pub' = [pub EXCEPT ![u] = NotPublishing]

PubInit ==
  /\ local = [u \in Publishers |-> [v \in Versions |-> None]]
  /\ pub = [u \in Publishers |-> NotPublishing]

(* The manifest is read and the tree is clean.  A tag that the clone        *)
(* already has ends the command, also after a push that failed.             *)
BeginPublish(u, v, k) ==
  /\ PubAt(u, "idle")
  /\ v \in TagVersions
  /\ local[u][v] = None
  /\ pub' = [pub EXCEPT ![u] = [pc |-> "tag", version |-> v, commit |-> k]]
  /\ UNCHANGED <<vars, local>>

GitTag(u) ==
  /\ PubAt(u, "tag")
  /\ local' = [local EXCEPT ![u][pub[u].version] = pub[u].commit]
  /\ PubGoto(u, "push")
  /\ UNCHANGED <<vars>>

(* The remote takes a tag that it does not have or has at this commit.      *)
Takes(u) == tags[CloneOf[u]][pub[u].version] \in {None, local[u][pub[u].version]}

Pushed(u) ==
  tags' = [tags EXCEPT ![CloneOf[u]][pub[u].version] = local[u][pub[u].version]]

(* Mutant of GitPush: the branch is pushed without the tag.                 *)
GitPushWithoutTag(u) ==
  PubAt(u, "push") /\ PubGoto(u, "poll") /\ UNCHANGED <<vars, local>>

GitPush(u) ==
  /\ PubAt(u, "push")
  /\ IF Takes(u) THEN Pushed(u) /\ PubGoto(u, "poll")
                 ELSE UNCHANGED tags /\ PubReturn(u)
  /\ UNCHANGED <<head, branch, disk, job, faults, local>>

(* The push fails or is interrupted, before or after the remote has taken   *)
(* the tag.                                                                 *)
PushFails(u) ==
  /\ PubAt(u, "push")
  /\ UNCHANGED tags \/ (Takes(u) /\ Pushed(u))
  /\ PubReturn(u)
  /\ UNCHANGED <<head, branch, disk, job, faults, local>>

PollPackage(u) == Manifest[pub[u].commit].pkg

(* Mutant of PageFound: manifest.json is enough.                            *)
PageStarted(u) == file[<<PollPackage(u), pub[u].version, "manifest">>] # None

(* GET /api/tools/@owner/slug/@version: ReadVersion finds its three files.  *)
PageFound(u) ==
  \A k \in CorpusKinds : file[<<PollPackage(u), pub[u].version, k>>] # None

(* A 404 is polled again; 200 ends the command.                             *)
PollIngested(u) ==
  /\ PubAt(u, "poll")
  /\ PageFound(u)
  /\ PubReturn(u)
  /\ UNCHANGED <<vars, local>>

(* Any other answer, the deadline or an interrupt ends the command, which   *)
(* takes nothing back.                                                      *)
PollGivesUp(u) ==
  /\ PubAt(u, "poll")
  /\ PubReturn(u)
  /\ UNCHANGED <<vars, local>>

(* git tag fails, or the command is interrupted before it.                  *)
TagFails(u) ==
  /\ PubAt(u, "tag")
  /\ PubReturn(u)
  /\ UNCHANGED <<vars, local>>

PublishStep(u) ==
  \/ \E v \in Versions, k \in Commits : BeginPublish(u, v, k)
  \/ GitTag(u) \/ GitPush(u) \/ PushFails(u)
  \/ PollIngested(u) \/ PollGivesUp(u) \/ TagFails(u)

PublishInit == Init /\ PubInit

PublishNext ==
  \/ Next /\ UNCHANGED pubVars
  \/ \E u \in Publishers : PublishStep(u)

(* The crawler is as fair as without publishers; a publisher may stop       *)
(* anywhere, but one who polls does not stop polling.                       *)
PublishFairness ==
  Fairness /\ \A u \in Publishers : WF_allVars(PollIngested(u))

PublishSpec == PublishInit /\ [][PublishNext]_allVars /\ PublishFairness

-----------------------------------------------------------------------------
PublishTypeOK ==
  /\ local \in [Publishers -> [Versions -> Commits \cup {None}]]
  /\ pub \in [Publishers -> PubJobs]

(* What publish reports as ingested is the publisher's own commit, whole:   *)
(* the page, the sum and the artifact, and not a release under the same tag *)
(* that somebody else got in first (publish.go:113-116).                    *)
AnnouncedIsMine ==
  [][\A u \in Publishers : PollIngested(u) =>
       \A kind \in FileKinds :
         file[<<PollPackage(u), pub[u].version, kind>>] = Content(pub[u].commit, None)]_allVars

(* A publisher of a valid commit who does not give up hears of it: every    *)
(* tag that publish pushes is one the crawler finds, whatever the entries   *)
(* before it do, and the page publish asks for is the one that appears.     *)
PollingEnds ==
  \A u \in Publishers, k \in Commits :
    Accepted(CloneOf[u], k) /\ Manifest[k].readme =>
      (PubAt(u, "poll") /\ pub[u].commit = k) ~> ~PubAt(u, "poll")

=============================================================================
