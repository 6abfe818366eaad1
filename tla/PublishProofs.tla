---------------------------- MODULE PublishProofs ----------------------------
(***************************************************************************)
(* Theorems about publish next to one crawler process, for any number of   *)
(* publishers, registry, failed git commands and crashes.                  *)
(***************************************************************************)
EXTENDS Publish, CrawlerProofs

USE PublishersAssumption

-----------------------------------------------------------------------------
(***************************************************************************)
(* Publish pushes tags and does nothing else to what the crawler reads.    *)
(***************************************************************************)
(* What the publisher u knows: the version and commit in hand, and from     *)
(* `git tag' on the tag in the clone.                                       *)
PubOK(u) ==
  /\ ~PubAt(u, "idle") => pub[u].version \in TagVersions /\ pub[u].commit \in Commits
  /\ pub[u].pc \in {"push", "poll"} => local[u][pub[u].version] = pub[u].commit

PubControl == PublishTypeOK /\ \A u \in Publishers : PubOK(u)

(* One publisher moves on, with a well-formed job and local tags.           *)
LEMMA PubMoves ==
  ASSUME PubControl, NEW u \in Publishers, NEW q \in PubJobs,
         pub' = [pub EXCEPT ![u] = q], UNCHANGED local,
         q.pc # "idle" => q.version \in TagVersions /\ q.commit \in Commits,
         q.pc \in {"push", "poll"} => local[u][q.version] = q.commit
  PROVE  PubControl'
<1>1. pub \in [Publishers -> PubJobs] BY DEF PubControl, PublishTypeOK
<1>2. PublishTypeOK' BY DEF PubControl, PublishTypeOK
<1>3. pub'[u] = q /\ \A w \in Publishers \ {u} : pub'[w] = pub[w] BY <1>1
<1>4. ASSUME NEW w \in Publishers PROVE PubOK(w)'
  <2>1. CASE w = u BY <1>3, <2>1 DEF PubOK, PubAt
  <2>2. CASE w # u BY <1>3, <2>2 DEF PubControl, PubOK, PubAt
  <2>. QED BY <2>1, <2>2
<1>. QED BY <1>2, <1>4 DEF PubControl

LEMMA PubFacts ==
  ASSUME PubControl, NEW u \in Publishers
  PROVE  /\ pub \in [Publishers -> PubJobs] /\ pub[u] \in PubJobs
         /\ local \in [Publishers -> [Versions -> Commits \cup {None}]]
         /\ CloneOf[u] \in Repos
         /\ PubOK(u)
BY DEF PubControl, PublishTypeOK

LEMMA PubReturns ==
  ASSUME PubControl, NEW u \in Publishers, PubReturn(u), UNCHANGED local
  PROVE  PubControl'
<1>1. PICK q : q = NotPublishing OBVIOUS
<1>2. q \in PubJobs /\ q.pc = "idle" BY <1>1 DEF NotPublishing, PubJobs, PubPcs
<1>3. pub' = [pub EXCEPT ![u] = q] BY <1>1 DEF PubReturn
<1>. QED BY <1>2, <1>3, PubMoves

LEMMA PubGoes ==
  ASSUME PubControl, NEW u \in Publishers, NEW pc \in PubPcs, PubGoto(u, pc),
         PubAt(u, "push"), pc = "poll", UNCHANGED local
  PROVE  PubControl'
<1>1. PICK q : q = [pub[u] EXCEPT !.pc = pc] OBVIOUS
<1>2. /\ q \in PubJobs /\ q.pc = pc /\ q.version = pub[u].version
      /\ q.commit = pub[u].commit
  BY <1>1, PubFacts DEF PubJobs
<1>3. pub' = [pub EXCEPT ![u] = q] BY <1>1 DEF PubGoto
<1>4. PubOK(u) BY DEF PubControl
<1>5. /\ q.version \in TagVersions /\ q.commit \in Commits
      /\ local[u][q.version] = q.commit
  BY <1>2, <1>4 DEF PubOK, PubAt
<1>. QED BY <1>2, <1>3, <1>5, PubMoves

LEMMA PublishKeeps ==
  ASSUME PubControl, NEW u \in Publishers, PublishStep(u)
  PROVE  PubControl'
<1>1. ASSUME NEW v \in Versions, NEW k \in Commits, BeginPublish(u, v, k)
      PROVE  PubControl'
  <2>1. PICK q : q = [pc |-> "tag", version |-> v, commit |-> k] OBVIOUS
  <2>2. /\ q \in PubJobs /\ q.pc = "tag" /\ q.version = v /\ q.commit = k
    BY <2>1 DEF PubJobs, PubPcs
  <2>3. v \in TagVersions /\ pub' = [pub EXCEPT ![u] = q] /\ UNCHANGED local
    BY <1>1, <2>1 DEF BeginPublish
  <2>. QED BY <2>2, <2>3, PubMoves
<1>2. CASE GitTag(u)
  <2>1. PICK v \in TagVersions, k \in Commits : v = pub[u].version /\ k = pub[u].commit
    BY <1>2, PubFacts DEF GitTag, PubAt, PubOK
  <2>2. v \in Versions BY <2>1, VersionFacts
  <2>3. local' = [local EXCEPT ![u][v] = k] BY <1>2, <2>1 DEF GitTag
  <2>4. PICK q : q = [pub[u] EXCEPT !.pc = "push"] OBVIOUS
  <2>5. q \in PubJobs /\ q.pc = "push" /\ q.version = v /\ q.commit = k
    BY <2>1, <2>4, PubFacts DEF PubJobs, PubPcs
  <2>6. pub' = [pub EXCEPT ![u] = q] BY <1>2, <2>4 DEF GitTag, PubGoto
  <2>7. /\ local' \in [Publishers -> [Versions -> Commits \cup {None}]]
        /\ local'[u][v] = k
        /\ \A w \in Publishers \ {u} : local'[w] = local[w]
    BY <2>2, <2>3, PubFacts
  <2>8. pub' \in [Publishers -> PubJobs] /\ pub'[u] = q
        /\ \A w \in Publishers \ {u} : pub'[w] = pub[w]
    BY <2>5, <2>6, PubFacts
  <2>9. ASSUME NEW w \in Publishers PROVE PubOK(w)'
    <3>1. CASE w = u BY <2>1, <2>5, <2>7, <2>8, <3>1 DEF PubOK, PubAt
    <3>2. CASE w # u BY <2>7, <2>8, <3>2 DEF PubControl, PubOK, PubAt
    <3>. QED BY <3>1, <3>2
  <2>. QED BY <2>7, <2>8, <2>9 DEF PubControl, PublishTypeOK
<1>3. CASE GitPush(u)
  <2>1. PubAt(u, "push") /\ UNCHANGED local /\ (PubGoto(u, "poll") \/ PubReturn(u))
    BY <1>3 DEF GitPush
  <2>. QED BY <2>1, PubGoes, PubReturns DEF PubPcs
<1>4. CASE PushFails(u) \/ PollIngested(u) \/ PollGivesUp(u) \/ TagFails(u)
  BY <1>4, PubReturns DEF PushFails, PollIngested, PollGivesUp, TagFails
<1>. QED BY <1>1, <1>2, <1>3, <1>4 DEF PublishStep

LEMMA PubInitOK == PublishInit => PubControl
BY DEF PublishInit, PubInit, PubControl, PublishTypeOK, PubOK, PubAt, NotPublishing,
       PubJobs, PubPcs

LEMMA PubControlStep == PubControl /\ [PublishNext]_allVars => PubControl'
<1>. SUFFICES ASSUME PubControl, [PublishNext]_allVars PROVE PubControl' OBVIOUS
<1>1. CASE UNCHANGED pubVars
  BY <1>1 DEF pubVars, PubControl, PublishTypeOK, PubOK, PubAt
<1>2. ASSUME NEW u \in Publishers, PublishStep(u) PROVE PubControl'
  BY <1>2, PublishKeeps
<1>. QED BY <1>1, <1>2 DEF PublishNext, allVars

(* To the crawler, the push of a publisher is the push of a tag.            *)
LEMMA PushIsPushTag ==
  ASSUME Control, PubControl, NEW u \in Publishers, PubAt(u, "push"), Takes(u), Pushed(u),
         UNCHANGED <<head, branch, disk, job, faults>>
  PROVE  [Next]_vars
<1>1. PICK r \in Repos : r = CloneOf[u] BY PubFacts
<1>2. PICK v \in TagVersions, k \in Commits :
        v = pub[u].version /\ k = pub[u].commit /\ local[u][v] = k
  BY PubFacts DEF PubAt, PubOK
<1>3. v \in Versions BY <1>2, VersionFacts
<1>4. tags[r][v] \in {None, k} /\ tags' = [tags EXCEPT ![r][v] = k]
  BY <1>1, <1>2 DEF Takes, Pushed
<1>5. CASE tags[r][v] = k
  <2>1. tags \in [Repos -> [Versions -> Commits \cup {None}]] BY DEF Control, TypeOK
  <2>2. tags' = tags BY <1>3, <1>4, <1>5, <2>1
  <2>. QED BY <2>2 DEF vars, disk
<1>6. CASE tags[r][v] = None
  <2>1. None # k BY <1>2, NoneAssumption
  <2>2. PushTag(r, v, k) BY <1>2, <1>4, <1>6, <2>1 DEF PushTag, disk
  <2>. QED BY <1>3, <2>2 DEF Next, Maintainers
<1>. QED BY <1>4, <1>5, <1>6

LEMMA PublishIsNext ==
  Control /\ PubControl /\ [PublishNext]_allVars => [Next]_vars
<1>. SUFFICES ASSUME Control, PubControl, [PublishNext]_allVars PROVE [Next]_vars
  OBVIOUS
<1>1. ASSUME NEW u \in Publishers, PublishStep(u) PROVE [Next]_vars
  <2>1. CASE UNCHANGED vars BY <2>1
  <2>2. CASE GitPush(u) \/ PushFails(u)
    <3>1. PubAt(u, "push") /\ UNCHANGED <<head, branch, disk, job, faults>>
      BY <2>2 DEF GitPush, PushFails
    <3>2. CASE Takes(u) /\ Pushed(u) BY <3>1, <3>2, PushIsPushTag
    <3>3. CASE UNCHANGED tags BY <3>1, <3>3 DEF vars, disk
    <3>. QED BY <2>2, <3>2, <3>3 DEF GitPush, PushFails
  <2>. QED
    BY <1>1, <2>1, <2>2
       DEF PublishStep, BeginPublish, GitTag, PollIngested, PollGivesUp, TagFails
<1>. QED BY <1>1 DEF PublishNext, allVars

(* The crawler with its publishers is the crawler with its maintainers, so  *)
(* that every theorem about Spec is one about PublishSpec.                  *)
THEOREM PublishersAreMaintainers == PublishSpec => Spec
<1>1. PublishInit => Init /\ Control /\ PubControl
  BY InitControl, PubInitOK DEF PublishInit
<1>2. Control /\ PubControl /\ [PublishNext]_allVars => [Next]_vars
  BY PublishIsNext
<1>3. Control /\ [Next]_vars => Control' BY ControlStep
<1>4. PubControl /\ [PublishNext]_allVars => PubControl' BY PubControlStep
<1>. QED BY <1>1, <1>2, <1>3, <1>4, PTL DEF PublishSpec, Spec

(* The clones and the runs of publish keep their types.                     *)
THEOREM PublishTypeCorrect == PublishSpec => []PublishTypeOK
<1>1. PubControl => PublishTypeOK BY DEF PubControl
<1>. QED BY <1>1, PubInitOK, PubControlStep, PTL DEF PublishSpec

-----------------------------------------------------------------------------
(***************************************************************************)
(* What is announced.                                                      *)
(***************************************************************************)
(* The tag that a publisher polls for is the one that the remote has.       *)
Landed ==
  \A u \in Publishers :
    PubAt(u, "poll") => tags[CloneOf[u]][pub[u].version] = pub[u].commit

LEMMA NextKeepsTags ==
  ASSUME Control, Rewrites = FALSE, [Next]_vars
  PROVE  TagsKept
<1>1. CASE Maintainers BY <1>1, MaintainersKeepTags
<1>2. ASSUME NEW c \in Crawlers, CrawlerStep(c) PROVE TagsKept
  BY <1>2, CrawlerStepJobs DEF upstream, TagsKept
<1>3. CASE UNCHANGED vars BY <1>3 DEF vars, TagsKept
<1>. QED BY <1>1, <1>2, <1>3 DEF Next

LEMMA LandedStep ==
  ASSUME Rewrites = FALSE, Control, PubControl, Landed, [PublishNext]_allVars
  PROVE  Landed'
<1>1. TagsKept BY NextKeepsTags, PublishIsNext
<1>. SUFFICES ASSUME NEW u \in Publishers, PubAt(u, "poll")'
              PROVE  tags'[CloneOf[u]][pub'[u].version] = pub'[u].commit
  BY DEF Landed
<1>2. CASE pub'[u] = pub[u]
  <2>1. PubAt(u, "poll") BY <1>2 DEF PubAt
  <2>2. /\ CloneOf[u] \in Repos /\ pub[u].version \in Versions
        /\ pub[u].commit # None
    BY <2>1, PubFacts, VersionFacts, NoneAssumption DEF PubOK, PubAt
  <2>3. tags[CloneOf[u]][pub[u].version] = pub[u].commit BY <2>1 DEF Landed
  <2>. QED BY <1>1, <1>2, <2>2, <2>3 DEF TagsKept
<1>3. CASE pub'[u] # pub[u]
  <2>1. PICK w \in Publishers : PublishStep(w)
    BY <1>3 DEF PublishNext, allVars, pubVars
  <2>2. pub \in [Publishers -> PubJobs] /\ pub[u] \in PubJobs BY PubFacts
  <2>3. w = u
    <3>1. \E q : pub' = [pub EXCEPT ![w] = q]
      BY <2>1 DEF PublishStep, BeginPublish, GitTag, GitPush, PushFails, PollIngested,
                  PollGivesUp, TagFails, PubGoto, PubReturn
    <3>. QED BY <1>3, <2>2, <3>1
  <2>4. ~PubReturn(u)
    <3>1. PubReturn(u) => pub'[u].pc = "idle" BY <2>2 DEF PubReturn, NotPublishing
    <3>. QED BY <3>1 DEF PubAt
  <2>5. ~GitTag(u)
    <3>1. GitTag(u) => pub'[u] = [pub[u] EXCEPT !.pc = "push"]
      BY <2>2 DEF GitTag, PubGoto
    <3>2. [pub[u] EXCEPT !.pc = "push"].pc = "push" BY <2>2 DEF PubJobs
    <3>. QED BY <3>1, <3>2 DEF PubAt
  <2>6. ASSUME NEW v, NEW k, BeginPublish(u, v, k) PROVE FALSE
    <3>1. pub'[u] = [pc |-> "tag", version |-> v, commit |-> k]
      BY <2>2, <2>6 DEF BeginPublish
    <3>. QED BY <3>1 DEF PubAt
  <2>7. GitPush(u) /\ Takes(u) /\ Pushed(u) /\ PubGoto(u, "poll")
    BY <2>1, <2>3, <2>4, <2>5, <2>6
       DEF PublishStep, GitPush, PushFails, PollIngested, PollGivesUp, TagFails
  <2>8. pub'[u] = [pub[u] EXCEPT !.pc = "poll"] BY <2>2, <2>7 DEF PubGoto
  <2>9. pub'[u].version = pub[u].version /\ pub'[u].commit = pub[u].commit
    BY <2>2, <2>8 DEF PubJobs
  <2>10. /\ local[u][pub[u].version] = pub[u].commit
         /\ pub[u].version \in Versions
         /\ CloneOf[u] \in Repos
    BY <2>7, PubFacts, VersionFacts DEF GitPush, PubOK, PubAt
  <2>11. tags \in [Repos -> [Versions -> Commits \cup {None}]] BY DEF Control, TypeOK
  <2>12. tags'[CloneOf[u]][pub[u].version] = pub[u].commit
    BY <2>7, <2>10, <2>11 DEF Pushed
  <2>. QED BY <2>9, <2>12
<1>. QED BY <1>2, <1>3

(* Publishers run inguma publish at commits whose manifest names a package  *)
(* of their own repository: the command itself does not check it.           *)
OwnCommits ==
  \A u \in Publishers : ~PubAt(u, "idle") => Accepted(CloneOf[u], pub[u].commit)

LEMMA AnnouncedFiles ==
  ASSUME OneRepoPerPackage, NoTagV000, Inv, SumBehindCorpus, ReleaseInv, PubControl,
         Landed, OwnCommits, NEW u \in Publishers, PollIngested(u), NEW m \in FileKinds
  PROVE  file[<<PollPackage(u), pub[u].version, m>>] = Content(pub[u].commit, None)
<1>1. PICK p : p = PollPackage(u) OBVIOUS
<1>2. PICK v : v = pub[u].version OBVIOUS
<1>3. PICK k : k = pub[u].commit OBVIOUS
<1>4. PubAt(u, "poll") /\ PageFound(u) BY DEF PollIngested
<1>5. /\ v \in TagVersions \ {Synthetic} /\ v \in Versions \ {Synthetic}
      /\ k \in Commits /\ CloneOf[u] \in Repos
  BY <1>2, <1>3, <1>4, PubFacts, VersionFacts DEF PubAt, PubOK, NoTagV000
<1>6. p \in Packages BY <1>1, <1>3, <1>5, ManifestAssumption DEF PollPackage, ManifestInfo
<1>7. tags[CloneOf[u]][v] = k /\ Accepted(CloneOf[u], k)
  BY <1>2, <1>3, <1>4 DEF Landed, OwnCommits, PubAt
<1>8. Supplied(p, v, k)
  BY <1>1, <1>3, <1>5, <1>7 DEF Supplied, PollPackage
<1>9. \A n \in CorpusKinds : file[<<p, v, n>>] # None
  BY <1>1, <1>2, <1>4 DEF PageFound
<1>10. \A n \in FileKinds : file[<<p, v, n>>] \notin {None, Torn}
  <2>1. "sha" \in CorpusKinds /\ CorpusKinds \subseteq FileKinds
        /\ FileKinds = CorpusKinds \cup {"tgz", "tgzsha"}
    BY DEF CorpusKinds, FileKinds
  <2>2. file[<<p, v, "tgz">>] # None
    BY <1>5, <1>6, <1>9, <2>1 DEF Inv, DiskOK, CorpusBackedByArtifact
  <2>3. file[<<p, v, "tgzsha">>] \notin {None, Torn}
    BY <1>5, <1>6, <1>9, <2>1 DEF SumBehindCorpus
  <2>4. \A n \in FileKinds : file[<<p, v, n>>] = Torn => n = "tgzsha"
    BY <1>5, <1>6 DEF Inv, DiskOK, ContentOfItsKind
  <2>. QED BY <1>9, <2>1, <2>2, <2>3, <2>4
<1>11. PICK l \in Commits : Supplied(p, v, l) /\ file[<<p, v, m>>] = Content(l, None)
  BY <1>5, <1>6, <1>10 DEF ReleaseInv, FromTags, FileFromTag
<1>12. l = k BY <1>5, <1>8, <1>11, SuppliedOnce
<1>. QED BY <1>1, <1>2, <1>3, <1>11, <1>12

(* What publish reports as ingested is the publisher's own commit, whole,   *)
(* whatever fails on either side: while tags stay in place, no two          *)
(* repositories supply the same package, and publishers name their own.     *)
THEOREM AnnouncedIsTheirs ==
  ASSUME SingleCrawler, NoTagV000, RemovalsFail = FALSE, Rewrites = FALSE,
         OneRepoPerPackage
  PROVE  PublishSpec /\ []OwnCommits => AnnouncedIsMine
<1>. DEFINE Mine == \A u \in Publishers : PollIngested(u) =>
       \A kind \in FileKinds :
         file[<<PollPackage(u), pub[u].version, kind>>] = Content(pub[u].commit, None)
<1>1. PublishInit => PubControl /\ Landed
  BY PubInitOK DEF PublishInit, PubInit, Landed, PubAt, NotPublishing
<1>2. PubControl /\ [PublishNext]_allVars => PubControl' BY PubControlStep
<1>3. Inv /\ PubControl /\ Landed /\ [PublishNext]_allVars => Landed'
  BY LandedStep DEF Inv
<1>4. OwnCommits /\ Inv /\ SumBehindCorpus /\ ReleaseInv /\ PubControl /\ Landed => Mine
  BY AnnouncedFiles
<1>5. Inv <=> IndInv BY InvIsIndInv
<1>. HIDE DEF Mine
<1>6. PublishSpec /\ []OwnCommits => [][Mine]_allVars
  BY <1>1, <1>2, <1>3, <1>4, <1>5, PublishersAreMaintainers, CrawlerInvariant,
     ListedHasSum, ReleasesFollowTags, PTL DEF PublishSpec
<1>. QED BY <1>6 DEF AnnouncedIsMine, Mine

=============================================================================
