---------------------------- MODULE CrawlerProofs ----------------------------
(***************************************************************************)
(* Theorems about the crawler, for any registry, any set of packages,      *)
(* commits and versions, and any number of crashes and failed writes: first *)
(* one process at a time, at the end several on the same directories.      *)
(***************************************************************************)
EXTENDS Crawler, TLAPS

(* One crawler at a time, as the oneshot unit of docs/crawler.md runs it;   *)
(* v0.0.0 is not tagged; removals succeed.                                  *)
SingleCrawler == \A c, d \in Crawlers : c = d
NoTagV000 == Synthetic \notin TagVersions

USE CommitsAssumption, VersionsAssumption, RegistryAssumption, RepoAssumption,
    ManifestAssumption, FaultsAssumption, NoneAssumption

-----------------------------------------------------------------------------
LEMMA VersionFacts == Synthetic \in Versions /\ TagVersions \subseteq Versions
BY DEF Synthetic, Versions

(* The entry of a running job is a repository of the registry.              *)
LEMMA RepoType ==
  ASSUME NEW j \in Jobs, j.entry \in 1 .. Len(Registry)
  PROVE  Repo(j) \in Repos
BY DEF Repo

LEMMA PkgType == ASSUME NEW j \in Jobs, j.commit \in Commits
                 PROVE  Pkg(j) \in Packages
BY DEF Pkg, ManifestInfo

LEMMA BuiltType == ASSUME NEW j \in Jobs, j.commit \in Commits
                   PROVE  Built(j) \in Contents
BY DEF Built, Content, Contents, Jobs

LEMMA IdleJobOK == IdleJob \in Jobs /\ IdleJob.entry = 0 /\ JobOK(IdleJob)
BY DEF IdleJob, Jobs, Pcs, WritePcs, JobOK, PutPcs, RemovePcs, Versions

(* Moving on to the next entry leaves a well-formed job that writes nothing.*)
LEMMA NextEntryOK ==
  ASSUME NEW j \in Jobs, j.entry \in 0 .. Len(Registry)
  PROVE  /\ NextEntry(j) \in Jobs
         /\ NextEntry(j).entry \in 0 .. Len(Registry)
         /\ NextEntry(j).pc \in {"idle", "tags"}
         /\ JobOK(NextEntry(j))
<1>1. Len(Registry) \in Nat OBVIOUS
<1>2. CASE j.entry < Len(Registry)
  <2>1. NextEntry(j) = [IdleJob EXCEPT !.pc = "tags", !.entry = j.entry + 1]
    BY <1>2 DEF NextEntry
  <2>2. NextEntry(j) = [pc |-> "tags", entry |-> j.entry + 1, todo |-> {},
                        version |-> None, head |-> None, commit |-> None]
    BY <2>1 DEF IdleJob
  <2>. QED
    BY <1>1, <1>2, <2>2 DEF Jobs, Pcs, WritePcs, JobOK, PutPcs, RemovePcs
<1>3. CASE ~(j.entry < Len(Registry))
  BY <1>1, <1>3, IdleJobOK DEF NextEntry, IdleJob
<1>. QED BY <1>2, <1>3

(* So does returning from an ingest.                                        *)
LEMMA ReturnedOK ==
  ASSUME NEW j \in Jobs, j.entry \in 0 .. Len(Registry), j.pc # "idle", JobOK(j)
  PROVE  /\ Returned(j) \in Jobs
         /\ Returned(j).entry \in 0 .. Len(Registry)
         /\ Returned(j).pc \in {"idle", "tags", "next"}
         /\ JobOK(Returned(j))
<1>1. CASE j.head = None
  <2>1. Returned(j) = [pc |-> "next", entry |-> j.entry, todo |-> j.todo \ {j.version},
                       version |-> None, head |-> None, commit |-> None]
    BY <1>1 DEF Returned, Jobs
  <2>. QED
    BY <2>1 DEF Jobs, Pcs, WritePcs, JobOK, PutPcs, RemovePcs
<1>2. CASE j.head # None
  BY <1>2, NextEntryOK DEF Returned
<1>. QED BY <1>1, <1>2

-----------------------------------------------------------------------------
(***************************************************************************)
(* Control: types, and what each control point knows of its own job.       *)
(***************************************************************************)
TagsTaggable == \A r \in Repos, v \in Versions : tags[r][v] # None => v \in TagVersions
JobsOK == \A c \in Crawlers : JobOK(job[c])
Control == TypeOK /\ TagsTaggable /\ JobsOK

LEMMA InitControl == Init => Control
<1>. SUFFICES ASSUME Init PROVE Control OBVIOUS
<1>1. TypeOK
  BY IdleJobOK DEF Init, TypeOK, Files
<1>2. TagsTaggable BY DEF Init, TagsTaggable
<1>3. JobsOK BY IdleJobOK DEF Init, JobsOK
<1>. QED BY <1>1, <1>2, <1>3 DEF Control

(* A step that replaces one job by a well-formed one keeps the jobs typed.  *)
JobsTyped == /\ job \in [Crawlers -> Jobs]
             /\ \A c \in Crawlers : job[c].entry \in 0 .. Len(Registry)
             /\ JobsOK

LEMMA JobStep ==
  ASSUME Control, NEW c \in Crawlers, NEW j \in Jobs,
         j.entry \in 0 .. Len(Registry), JobOK(j), job' = [job EXCEPT ![c] = j]
  PROVE  JobsTyped'
BY DEF Control, TypeOK, JobsOK, JobsTyped

LEMMA GotoStep ==
  ASSUME Control, NEW c \in Crawlers, NEW pc \in Pcs, Goto(c, pc),
         JobOK([job[c] EXCEPT !.pc = pc])
  PROVE  JobsTyped'
<1>. DEFINE j == [job[c] EXCEPT !.pc = pc]
<1>1. job[c] \in Jobs /\ job[c].entry \in 0 .. Len(Registry) BY DEF Control, TypeOK
<1>2. j \in Jobs /\ j.entry \in 0 .. Len(Registry) BY <1>1 DEF Jobs
<1>3. job' = [job EXCEPT ![c] = j] BY DEF Goto
<1>. QED BY <1>2, <1>3, JobStep

LEMMA ReturnStep ==
  ASSUME Control, NEW c \in Crawlers, job[c].pc # "idle", Return(c)
  PROVE  JobsTyped'
<1>1. job[c] \in Jobs /\ job[c].entry \in 0 .. Len(Registry) /\ JobOK(job[c])
  BY DEF Control, TypeOK, JobsOK
<1>. DEFINE j == Returned(job[c])
<1>2. j \in Jobs /\ j.entry \in 0 .. Len(Registry) /\ JobOK(j) BY <1>1, ReturnedOK
<1>3. job' = [job EXCEPT ![c] = j] BY DEF Return
<1>. HIDE DEF j
<1>. QED BY <1>2, <1>3, JobStep

(* What Control says of one crawler, for the proofs of its steps.           *)
LEMMA JobFacts ==
  ASSUME Control, NEW c \in Crawlers
  PROVE  /\ job[c] \in Jobs
         /\ job[c].entry \in 0 .. Len(Registry)
         /\ JobOK(job[c])
         /\ job[c].pc # "idle" => Repo(job[c]) \in Repos
         /\ job[c].pc \in {"check"} \cup WritePcs =>
              /\ Pkg(job[c]) \in Packages
              /\ Built(job[c]) \in Contents
         /\ job[c].pc \in WritePcs => job[c].version \in Versions
<1>1. job[c] \in Jobs /\ job[c].entry \in 0 .. Len(Registry) /\ JobOK(job[c])
  BY DEF Control, TypeOK, JobsOK
<1>2. job[c].pc # "idle" => Repo(job[c]) \in Repos
  BY <1>1, RepoType DEF JobOK
<1>3. job[c].pc \in {"check"} \cup WritePcs => job[c].commit \in Commits
  BY <1>1 DEF JobOK
<1>4. job[c].pc \in WritePcs => job[c].version \in Versions
  <2>1. WritePcs = RemovePcs \cup {"stat"} \cup PutPcs
    BY DEF WritePcs, RemovePcs, PutPcs
  <2>. QED BY <1>1, <2>1, VersionFacts DEF JobOK
<1>. QED BY <1>1, <1>2, <1>3, <1>4, PkgType, BuiltType

(* A remote operation leaves well-formed jobs.                              *)
LEMMA RemoteStepJobs ==
  ASSUME Control, NEW c \in Crawlers, RemoteStep(c)
  PROVE  JobsTyped'
<1>. USE JobFacts
<1>1. CASE ListTags(c)
  <2>. DEFINE found == {v \in Versions : tags[Repo(job[c])][v] # None}
              j == [job[c] EXCEPT !.todo = found,
                                  !.pc = IF found = {} THEN "head" ELSE "next"]
  <2>1. job' = [job EXCEPT ![c] = j] BY <1>1 DEF ListTags
  <2>2. found \subseteq TagVersions
    BY <1>1 DEF ListTags, At, Control, TagsTaggable
  <2>3. j \in Jobs /\ j.entry \in 0 .. Len(Registry)
    BY <2>2 DEF Jobs, Pcs
  <2>4. JobOK(j)
    BY <1>1, <2>2 DEF ListTags, At, Jobs, JobOK, WritePcs, PutPcs, RemovePcs
  <2>. HIDE DEF j
  <2>. QED BY <2>1, <2>3, <2>4, JobStep
<1>2. CASE HeadCommit(c)
  <2>. DEFINE j == [job[c] EXCEPT !.head = head[Repo(job[c])],
                                  !.version = Synthetic, !.pc = "fetchRef"]
  <2>1. job' = [job EXCEPT ![c] = j] BY <1>2 DEF HeadCommit
  <2>2. head[Repo(job[c])] \in Commits
    BY <1>2 DEF HeadCommit, At, Control, TypeOK
  <2>3. j \in Jobs /\ j.entry \in 0 .. Len(Registry)
    BY <2>2, VersionFacts DEF Jobs, Pcs
  <2>4. JobOK(j)
    BY <1>2, <2>2 DEF HeadCommit, At, Jobs, JobOK, WritePcs, PutPcs, RemovePcs
  <2>. HIDE DEF j
  <2>. QED BY <2>1, <2>3, <2>4, JobStep
<1>3. CASE Fetch(c)
  <2>. DEFINE k == tags[Repo(job[c])][job[c].version]
              j == [job[c] EXCEPT !.commit = k, !.pc = "stat"]
  <2>1. CASE Return(c) BY <1>3, <2>1, ReturnStep DEF Fetch, At
  <2>2. CASE k # None /\ job' = [job EXCEPT ![c] = j]
    <3>1. job[c].version \in TagVersions /\ job[c].head = None
      BY <1>3 DEF Fetch, At, JobOK
    <3>2. k \in Commits
      BY <1>3, <2>2, <3>1 DEF Fetch, At, Control, TypeOK
    <3>3. j \in Jobs /\ j.entry \in 0 .. Len(Registry)
      BY <3>2, ZenonT(30) DEF Jobs, Pcs, WritePcs
    <3>4. JobOK(j)
      BY <1>3, <3>1, <3>2 DEF Fetch, At, Jobs, JobOK, WritePcs, PutPcs, RemovePcs
    <3>. HIDE DEF j
    <3>. QED BY <2>2, <3>3, <3>4, JobStep
  <2>. QED BY <1>3, <2>1, <2>2 DEF Fetch
<1>4. CASE FetchRef(c)
  <2>. DEFINE k == branch[Repo(job[c])]
              j == [job[c] EXCEPT !.commit = k, !.pc = "check"]
  <2>1. CASE Return(c) BY <1>4, <2>1, ReturnStep DEF FetchRef, At
  <2>2. CASE job' = [job EXCEPT ![c] = j]
    <3>1. k \in Commits
      BY <1>4 DEF FetchRef, At, Control, TypeOK
    <3>2. j \in Jobs /\ j.entry \in 0 .. Len(Registry)
      BY <3>1 DEF Jobs, Pcs
    <3>3. JobOK(j)
      BY <1>4, <3>1 DEF FetchRef, At, Jobs, JobOK, WritePcs, PutPcs, RemovePcs
    <3>. HIDE DEF j
    <3>. QED BY <2>2, <3>2, <3>3, JobStep
  <2>. QED BY <1>4, <2>1, <2>2 DEF FetchRef
<1>. QED BY <1>1, <1>2, <1>3, <1>4 DEF RemoteStep

(* Advancing the control point of a job whose version and commit are known. *)
LEMMA AdvanceStep ==
  ASSUME Control, NEW c \in Crawlers,
         NEW pc \in WritePcs, Goto(c, pc),
         \/ job[c].pc \in {"stat"} \cup PutPcs /\ pc \in PutPcs
         \/ job[c].pc \in {"check"} \cup RemovePcs /\ pc \in RemovePcs \cup {"stat"}
  PROVE  JobsTyped'
<1>1. job[c] \in Jobs /\ JobOK(job[c]) BY JobFacts
<1>2. pc \in Pcs BY DEF Pcs
<1>3. JobOK([job[c] EXCEPT !.pc = pc])
  BY <1>1 DEF Jobs, JobOK, WritePcs, PutPcs, RemovePcs
<1>. QED BY <1>2, <1>3, GotoStep

(* So does every step on the disk of the crawler.                           *)
LEMMA LocalStepJobs ==
  ASSUME Control, NEW c \in Crawlers, LocalStep(c)
  PROVE  JobsTyped'
<1>. USE JobFacts
<1>1. CASE Start(c)
  <2>. DEFINE j == NextEntry(IdleJob)
  <2>1. job' = [job EXCEPT ![c] = j] BY <1>1 DEF Start
  <2>2. IdleJob \in Jobs /\ IdleJob.entry \in 0 .. Len(Registry) BY IdleJobOK
  <2>3. j \in Jobs /\ j.entry \in 0 .. Len(Registry) /\ JobOK(j)
    BY <2>2, NextEntryOK
  <2>. HIDE DEF j
  <2>. QED BY <2>1, <2>3, JobStep
<1>2. CASE VersionsDone(c)
  <2>. DEFINE j == NextEntry(job[c])
  <2>1. job' = [job EXCEPT ![c] = j] BY <1>2 DEF VersionsDone
  <2>2. j \in Jobs /\ j.entry \in 0 .. Len(Registry) /\ JobOK(j) BY NextEntryOK
  <2>. HIDE DEF j
  <2>. QED BY <2>1, <2>2, JobStep
<1>3. CASE HasVersion(c)
  <2>1. PICK v \in job[c].todo :
          \/ job' = [job EXCEPT ![c].todo = @ \ {v}]
          \/ job' = [job EXCEPT ![c].version = v, ![c].pc = "fetch"]
    BY <1>3 DEF HasVersion
  <2>2. v \in TagVersions /\ v \in Versions BY VersionFacts DEF JobOK
  <2>. DEFINE j == [job[c] EXCEPT !.todo = @ \ {v}]
              k == [job[c] EXCEPT !.version = v, !.pc = "fetch"]
  <2>3. CASE job' = [job EXCEPT ![c] = j]
    <3>1. j \in Jobs /\ j.entry \in 0 .. Len(Registry) BY DEF Jobs
    <3>2. JobOK(j)
      BY <1>3 DEF HasVersion, At, Jobs, JobOK, WritePcs, PutPcs, RemovePcs
    <3>. HIDE DEF j
    <3>. QED BY <2>3, <3>1, <3>2, JobStep
  <2>4. CASE job' = [job EXCEPT ![c] = k]
    <3>1. k \in Jobs /\ k.entry \in 0 .. Len(Registry) BY <2>2 DEF Jobs, Pcs
    <3>2. JobOK(k)
      BY <1>3, <2>2 DEF HasVersion, At, Jobs, JobOK, WritePcs, PutPcs, RemovePcs
    <3>. HIDE DEF k
    <3>. QED BY <2>4, <3>1, <3>2, JobStep
  <2>. QED BY <2>1, <2>3, <2>4
<1>4. CASE CheckSyntheticRef(c)
  <2>1. CASE Return(c) BY <1>4, <2>1, ReturnStep DEF CheckSyntheticRef, At
  <2>2. CASE Goto(c, "removeDir")
    BY <1>4, <2>2, AdvanceStep DEF CheckSyntheticRef, At, WritePcs, RemovePcs
  <2>. QED BY <1>4, <2>1, <2>2 DEF CheckSyntheticRef
<1>5. CASE RemoveDir(c)
  <2>1. CASE Goto(c, "removeTgz")
    BY <1>5, <2>1, AdvanceStep DEF RemoveDir, At, WritePcs, RemovePcs
  <2>2. CASE UNCHANGED job BY <2>2 DEF Control, TypeOK, JobsOK, JobsTyped
  <2>. QED BY <1>5, <2>1, <2>2 DEF RemoveDir
<1>6. CASE RemoveTgz(c)
  BY <1>6, AdvanceStep DEF RemoveTgz, At, WritePcs, RemovePcs
<1>7. CASE RemoveSum(c)
  <2>1. CASE Goto(c, "stat")
    BY <1>7, <2>1, AdvanceStep DEF RemoveSum, At, WritePcs, RemovePcs
  <2>2. CASE Return(c) BY <1>7, <2>2, ReturnStep DEF RemoveSum, At
  <2>. QED BY <1>7, <2>1, <2>2 DEF RemoveSum, AfterRemoval, Goto, Return
<1>8. CASE PutStat(c)
  <2>1. CASE Goto(c, "rename")
    BY <1>8, <2>1, AdvanceStep DEF PutStat, At, WritePcs, PutPcs
  <2>2. CASE Return(c) BY <1>8, <2>2, ReturnStep DEF PutStat, At
  <2>. QED BY <1>8, <2>1, <2>2 DEF PutStat
<1>9. CASE PutRename(c) \/ PutCreateSum(c) \/ PutWriteSum(c) \/ MkdirVersion(c)
  BY <1>9, AdvanceStep
     DEF PutRename, PutCreateSum, PutWriteSum, MkdirVersion, At, WritePcs, PutPcs
<1>10. ASSUME NEW kind \in CorpusKinds, NEW next \in {"index", "sha", "latest"},
              WriteCorpusFile(c, kind, next)
       PROVE  JobsTyped'
  <2>1. CASE Goto(c, next)
    BY <1>10, <2>1, AdvanceStep DEF WriteCorpusFile, At, WritePcs, PutPcs, CorpusKinds
  <2>2. CASE Return(c)
    BY <1>10, <2>2, ReturnStep DEF WriteCorpusFile, At, CorpusKinds
  <2>. QED BY <1>10, <2>1, <2>2 DEF WriteCorpusFile
<1>11. CASE WriteLatest(c) BY <1>11, ReturnStep DEF WriteLatest, At
<1>. QED
  BY <1>1, <1>2, <1>3, <1>4, <1>5, <1>6, <1>7, <1>8, <1>9, <1>10, <1>11
     DEF LocalStep, CorpusKinds

LEMMA FailureStepJobs ==
  ASSUME Control, NEW c \in Crawlers, RemoteFails(c) \/ Fault(c)
  PROVE  JobsTyped'
<1>. USE JobFacts
<1>1. CASE job' = [job EXCEPT ![c] = NextEntry(@)]
  <2>. DEFINE j == NextEntry(job[c])
  <2>1. job' = [job EXCEPT ![c] = j] BY <1>1
  <2>2. j \in Jobs /\ j.entry \in 0 .. Len(Registry) /\ JobOK(j) BY NextEntryOK
  <2>. HIDE DEF j
  <2>. QED BY <2>1, <2>2, JobStep
<1>2. CASE job[c].pc # "idle" /\ Return(c) BY <1>2, ReturnStep
<1>3. CASE RemoveFails(c)
  <2>1. CASE At(c, "removeSum") /\ job' = [job EXCEPT ![c] = AfterRemoval(@)]
    <3>1. CASE Goto(c, "stat") BY <2>1, <3>1, AdvanceStep DEF At, WritePcs, RemovePcs
    <3>2. CASE Return(c) BY <2>1, <3>2, ReturnStep DEF At
    <3>. QED BY <2>1, <3>1, <3>2 DEF AfterRemoval, Goto, Return
  <2>2. CASE \/ At(c, "removeDir") /\ Goto(c, "removeTgz")
             \/ At(c, "removeTgz") /\ Goto(c, "removeSum")
    BY <2>2, AdvanceStep DEF At, WritePcs, RemovePcs
  <2>. QED BY <1>3, <2>1, <2>2 DEF RemoveFails
<1>4. CASE job' = [job EXCEPT ![c] = IdleJob]
  <2>1. IdleJob \in Jobs /\ IdleJob.entry \in 0 .. Len(Registry) /\ JobOK(IdleJob)
    BY IdleJobOK
  <2>. QED BY <1>4, <2>1, JobStep
<1>. QED
  BY <1>1, <1>2, <1>3, <1>4
     DEF RemoteFails, Fault, WriteFails, Crash, At, WritePcs

LEMMA CrawlerStepJobs ==
  ASSUME Control, NEW c \in Crawlers, CrawlerStep(c)
  PROVE  JobsTyped' /\ UNCHANGED upstream
<1>1. JobsTyped'
  BY RemoteStepJobs, LocalStepJobs, FailureStepJobs DEF CrawlerStep
<1>2. UNCHANGED upstream
  BY DEF CrawlerStep, RemoteStep, LocalStep, RemoteFails, Fault,
         ListTags, HeadCommit, Fetch, FetchRef, Start, VersionsDone, HasVersion,
         CheckSyntheticRef, RemoveDir, RemoveTgz, RemoveSum, PutStat, PutRename,
         PutCreateSum, PutWriteSum, MkdirVersion, WriteCorpusFile, WriteLatest,
         WriteFails, RemoveFails, Crash
<1>. QED BY <1>1, <1>2

(* What a step of crawler c may do to the disk: write or remove one file of *)
(* the version it works on, its directory, or latest.json.                  *)
DiskTyped == /\ dirs \subseteq Packages \X Versions
             /\ file \in [Files -> Contents \cup {None, Torn}]
             /\ latest \in [Packages -> Versions \cup {None}]
             /\ faults \in 0 .. MaxFaults

(* file' differs from file in one file only.                                *)
Wrote(p, v, k, x) ==
  \A q \in Packages, w \in Versions, m \in FileKinds :
    file'[<<q, w, m>>] = IF q = p /\ w = v /\ m = k THEN x ELSE file[<<q, w, m>>]

LEMMA FileUpdate ==
  ASSUME Control, NEW p \in Packages, NEW v \in Versions, NEW k \in FileKinds,
         NEW x \in Contents \cup {None, Torn},
         file' = [file EXCEPT ![<<p, v, k>>] = x]
  PROVE  /\ file' \in [Files -> Contents \cup {None, Torn}]
         /\ Wrote(p, v, k, x)
BY DEF Control, TypeOK, Files, Wrote

LEMMA CrawlerStepDisk ==
  ASSUME Control, NEW c \in Crawlers, CrawlerStep(c)
  PROVE  DiskTyped'
<1>0. DiskTyped BY DEF Control, TypeOK, DiskTyped
<1>1. CASE UNCHANGED <<disk, faults>> BY <1>0, <1>1 DEF disk, DiskTyped
<1>2. CASE Fault(c)
  <2>1. UNCHANGED disk /\ faults < MaxFaults /\ faults' = faults + 1
    BY <1>2 DEF Fault, WriteFails, RemoveFails, Crash
  <2>. QED BY <1>0, <2>1 DEF disk, DiskTyped
<1>. DEFINE p == Pkg(job[c])
            v == job[c].version
<1>3. ASSUME job[c].pc \in WritePcs
      PROVE  p \in Packages /\ v \in Versions /\ Built(job[c]) \in Contents
  BY <1>3, JobFacts
<1>. HIDE DEF p, v
<1>4. ASSUME job[c].pc \in WritePcs, NEW k \in FileKinds,
             NEW x \in Contents \cup {None, Torn},
             file' = [file EXCEPT ![<<p, v, k>>] = x],
             dirs' \subseteq dirs, UNCHANGED <<latest, faults>>
      PROVE  DiskTyped'
  BY <1>0, <1>3, <1>4, FileUpdate DEF DiskTyped
<1>5. CASE RemoveDir(c)
  <2>1. job[c].pc \in WritePcs /\ v = Synthetic
    BY <1>5, JobFacts DEF RemoveDir, At, WritePcs, JobOK, RemovePcs, v
  <2>2. CASE \E k \in CorpusKinds : file' = [file EXCEPT ![<<p, v, k>>] = None]
    BY <1>4, <1>5, <2>1, <2>2 DEF RemoveDir, CorpusKinds, FileKinds
  <2>3. CASE UNCHANGED file
    BY <1>0, <1>5, <2>3 DEF RemoveDir, DiskTyped
  <2>. QED BY <1>5, <2>1, <2>2, <2>3 DEF RemoveDir, p
<1>6. CASE RemoveTgz(c) \/ RemoveSum(c)
  <2>1. job[c].pc \in WritePcs /\ v = Synthetic
    BY <1>6, JobFacts DEF RemoveTgz, RemoveSum, At, WritePcs, JobOK, RemovePcs, v
  <2>2. "tgz" \in FileKinds /\ "tgzsha" \in FileKinds BY DEF FileKinds
  <2>. QED
    BY <1>4, <1>6, <2>1, <2>2 DEF RemoveTgz, RemoveSum, p
<1>7. CASE PutRename(c) \/ PutCreateSum(c) \/ PutWriteSum(c)
  <2>1. job[c].pc \in WritePcs
    BY <1>7 DEF PutRename, PutCreateSum, PutWriteSum, At, WritePcs
  <2>2. "tgz" \in FileKinds /\ "tgzsha" \in FileKinds BY DEF FileKinds
  <2>3. dirs' = dirs /\ UNCHANGED <<latest, faults>>
    BY <1>7 DEF PutRename, PutCreateSum, PutWriteSum
  <2>4. CASE PutRename(c)
    BY <1>3, <1>4, <2>1, <2>2, <2>3, <2>4 DEF PutRename, Target, p, v
  <2>5. CASE PutCreateSum(c)
    BY <1>4, <2>1, <2>2, <2>3, <2>5 DEF PutCreateSum, Target, p, v
  <2>6. CASE PutWriteSum(c)
    <3>. DEFINE x == IF file[Target(c, "tgzsha")] = None THEN None ELSE Built(job[c])
    <3>1. file' = [file EXCEPT ![<<p, v, "tgzsha">>] = x]
      BY <2>6 DEF PutWriteSum, Target, p, v
    <3>2. x \in Contents \cup {None, Torn} BY <1>3, <2>1
    <3>. QED BY <1>4, <2>1, <2>2, <2>3, <3>1, <3>2
  <2>. QED BY <1>7, <2>4, <2>5, <2>6
<1>8. CASE MkdirVersion(c)
  <2>1. job[c].pc \in WritePcs BY <1>8 DEF MkdirVersion, At, WritePcs
  <2>2. dirs' = dirs \cup {<<p, v>>} /\ UNCHANGED <<file, latest, faults>>
    BY <1>8 DEF MkdirVersion, p, v
  <2>. QED BY <1>0, <1>3, <2>1, <2>2 DEF DiskTyped
<1>9. ASSUME NEW k \in CorpusKinds, NEW next, WriteCorpusFile(c, k, next)
      PROVE  DiskTyped'
  <2>1. job[c].pc \in WritePcs /\ k \in FileKinds
    BY <1>9 DEF WriteCorpusFile, At, WritePcs, CorpusKinds, FileKinds
  <2>2. CASE UNCHANGED file
    BY <1>0, <1>9, <2>2 DEF WriteCorpusFile, DiskTyped
  <2>3. CASE file' = [file EXCEPT ![<<p, v, k>>] = Built(job[c])]
    BY <1>3, <1>4, <1>9, <2>1, <2>3 DEF WriteCorpusFile
  <2>. QED BY <1>9, <2>2, <2>3 DEF WriteCorpusFile, Target, p, v
<1>10. CASE WriteLatest(c)
  <2>1. job[c].pc \in WritePcs BY <1>10 DEF WriteLatest, At, WritePcs
  <2>2. latest' = [latest EXCEPT ![p] = v] /\ UNCHANGED <<dirs, file, faults>>
    BY <1>10 DEF WriteLatest, p, v
  <2>. QED BY <1>0, <1>3, <2>1, <2>2 DEF DiskTyped
<1>11. CASE RemoteStep(c) \/ RemoteFails(c) \/ Start(c) \/ VersionsDone(c)
            \/ HasVersion(c) \/ CheckSyntheticRef(c) \/ PutStat(c)
  BY <1>1, <1>11 DEF RemoteStep, ListTags, HeadCommit, Fetch, FetchRef, RemoteFails,
     Start, VersionsDone, HasVersion, CheckSyntheticRef, PutStat
<1>. QED
  BY <1>2, <1>5, <1>6, <1>7, <1>8, <1>9, <1>10, <1>11
     DEF CrawlerStep, LocalStep, CorpusKinds

LEMMA MaintainersControl ==
  ASSUME Control, Maintainers
  PROVE  Control' /\ UNCHANGED <<dirs, file, latest, job, faults>>
<1>1. ASSUME NEW r \in Repos, NEW v \in Versions,
             NEW k \in Commits \cup {None}, v \in TagVersions \/ k = None,
             tags' = [tags EXCEPT ![r][v] = k],
             UNCHANGED <<head, branch, dirs, file, latest, job, faults>>
      PROVE  Control'
  <2>1. tags' \in [Repos -> [Versions -> Commits \cup {None}]] /\ TagsTaggable'
    BY <1>1 DEF Control, TypeOK, TagsTaggable
  <2>. QED BY <1>1, <2>1 DEF Control, TypeOK, JobsOK
<1>2. ASSUME NEW r \in Repos, NEW v \in Versions, NEW k \in Commits, PushTag(r, v, k)
      PROVE  Control' /\ UNCHANGED <<dirs, file, latest, job, faults>>
  BY <1>1, <1>2 DEF PushTag
<1>3. ASSUME NEW r \in Repos, NEW v \in Versions, DeleteTag(r, v)
      PROVE  Control' /\ UNCHANGED <<dirs, file, latest, job, faults>>
  BY <1>1, <1>3 DEF DeleteTag
<1>4. ASSUME NEW r \in Repos, NEW k \in Commits, PushHead(r, k) \/ PushBranch(r, k)
      PROVE  Control' /\ UNCHANGED <<dirs, file, latest, job, faults>>
  <2>1. UNCHANGED <<tags, dirs, file, latest, job, faults>>
    BY <1>4 DEF PushHead, PushBranch
  <2>2. head' \in [Repos -> Commits] /\ branch' \in [Repos -> Commits]
    <3>1. head \in [Repos -> Commits] /\ branch \in [Repos -> Commits]
      BY DEF Control, TypeOK
    <3>2. head' = head \/ head' = [head EXCEPT ![r] = k]
      BY <1>4 DEF PushHead, PushBranch
    <3>3. branch' = branch \/ branch' = [branch EXCEPT ![r] = k]
      BY <1>4 DEF PushHead, PushBranch
    <3>. QED BY <3>1, <3>2, <3>3
  <2>3. TypeOK' BY <2>1, <2>2 DEF Control, TypeOK
  <2>4. TagsTaggable' /\ JobsOK' BY <2>1 DEF Control, TagsTaggable, JobsOK
  <2>. QED BY <2>1, <2>3, <2>4 DEF Control
<1>. QED BY <1>2, <1>3, <1>4 DEF Maintainers

LEMMA ControlStep == Control /\ [Next]_vars => Control'
<1>. SUFFICES ASSUME Control, [Next]_vars PROVE Control' OBVIOUS
<1>1. CASE Maintainers BY <1>1, MaintainersControl
<1>2. ASSUME NEW c \in Crawlers, CrawlerStep(c) PROVE Control'
  <2>1. JobsTyped' /\ DiskTyped' /\ UNCHANGED upstream
    BY <1>2, CrawlerStepJobs, CrawlerStepDisk
  <2>2. TypeOK'
    BY <2>1 DEF Control, TypeOK, JobsTyped, DiskTyped, upstream
  <2>3. TagsTaggable' BY <2>1 DEF Control, TagsTaggable, upstream
  <2>. QED BY <2>1, <2>2, <2>3 DEF Control, JobsTyped
<1>3. CASE UNCHANGED vars
  BY <1>3 DEF Control, TypeOK, TagsTaggable, JobsOK, vars
<1>. QED BY <1>1, <1>2, <1>3 DEF Next

(* Type correctness, for any number of crawlers, faults and entries: every  *)
(* control point finds its repository, commit and version in hand.          *)
THEOREM TypeCorrect == Spec => []TypeOK
<1>1. Control => TypeOK BY DEF Control
<1>. QED BY <1>1, InitControl, ControlStep, PTL DEF Spec

-----------------------------------------------------------------------------
(***************************************************************************)
(* The files of a version, with one crawler.                               *)
(***************************************************************************)
DiskOK == /\ ContentOfItsKind
          /\ SumFollowsArtifact
          /\ CorpusBackedByArtifact
          /\ FilesAgree
          /\ LatestIsComplete

Writing(c) == job[c].pc \in WritePcs => Progress(job[c], Pkg(job[c]), job[c].version)

(* When a write or a removal of one file keeps what holds of all versions.  *)
LEMMA FileStep ==
  ASSUME Control, DiskOK,
         NEW p \in Packages, NEW v \in Versions, NEW k \in FileKinds,
         NEW x \in Contents \cup {None, Torn},
         Wrote(p, v, k, x), UNCHANGED latest,
         x = Torn => k = "tgzsha",
         x \in Contents => (x.ref = None <=> v # Synthetic),
         v # Synthetic /\ k = "tgzsha" => x = None \/ file[<<p, v, "tgz">>] # None,
         v # Synthetic /\ k = "tgz" => x # None,
         k \in CorpusKinds => x = None \/ file[<<p, v, "tgz">>] # None,
         k = "tgz" /\ x = None => NoCorpus(p, v),
         k # "tgz" => file[<<p, v, "tgz">>] = None
                        \/ x \in {None, Torn, file[<<p, v, "tgz">>]},
         k = "tgz" /\ x # None =>
           \A m \in FileKinds \ {"tgz"} : file[<<p, v, m>>] \in {None, Torn, x},
         v # Synthetic => latest[p] # v \/ x \notin {None, Torn}
  PROVE  DiskOK'
<1>1. ASSUME NEW q \in Packages, NEW w \in Versions, NEW m \in FileKinds
      PROVE  file'[<<q, w, m>>] =
               IF q = p /\ w = v /\ m = k THEN x ELSE file[<<q, w, m>>]
  BY DEF Wrote
<1>2. ContentOfItsKind'
  <2>. SUFFICES ASSUME NEW q \in Packages, NEW w \in Versions, NEW m \in FileKinds
                PROVE  /\ file'[<<q, w, m>>] = Torn => m = "tgzsha"
                       /\ file'[<<q, w, m>>] \in Contents =>
                            (file'[<<q, w, m>>].ref = None <=> w # Synthetic)
    BY DEF ContentOfItsKind
  <2>1. CASE q = p /\ w = v /\ m = k BY <1>1, <2>1
  <2>2. CASE ~(q = p /\ w = v /\ m = k)
    BY <1>1, <2>2 DEF DiskOK, ContentOfItsKind
  <2>. QED BY <2>1, <2>2
<1>3. SumFollowsArtifact'
  <2>. SUFFICES ASSUME NEW q \in Packages, NEW w \in Versions \ {Synthetic},
                       file'[<<q, w, "tgz">>] = None
                PROVE  file'[<<q, w, "tgzsha">>] = None
    BY DEF SumFollowsArtifact
  <2>1. "tgz" \in FileKinds /\ "tgzsha" \in FileKinds BY DEF FileKinds
  <2>2. file[<<q, w, "tgz">>] = None => file[<<q, w, "tgzsha">>] = None
    BY DEF DiskOK, SumFollowsArtifact
  <2>3. /\ file'[<<q, w, "tgz">>] =
             IF q = p /\ w = v /\ "tgz" = k THEN x ELSE file[<<q, w, "tgz">>]
        /\ file'[<<q, w, "tgzsha">>] =
             IF q = p /\ w = v /\ "tgzsha" = k THEN x ELSE file[<<q, w, "tgzsha">>]
    BY <1>1, <2>1
  <2>. QED BY <2>2, <2>3
<1>4. CorpusBackedByArtifact'
  <2>. SUFFICES ASSUME NEW q \in Packages, NEW w \in Versions, NEW m \in CorpusKinds,
                       file'[<<q, w, m>>] # None
                PROVE  file'[<<q, w, "tgz">>] # None
    BY DEF CorpusBackedByArtifact
  <2>1. "tgz" \in FileKinds /\ m \in FileKinds /\ m # "tgz"
    BY DEF FileKinds, CorpusKinds
  <2>2. file[<<q, w, m>>] # None => file[<<q, w, "tgz">>] # None
    BY DEF DiskOK, CorpusBackedByArtifact
  <2>3. /\ file'[<<q, w, "tgz">>] =
             IF q = p /\ w = v /\ "tgz" = k THEN x ELSE file[<<q, w, "tgz">>]
        /\ file'[<<q, w, m>>] =
             IF q = p /\ w = v /\ m = k THEN x ELSE file[<<q, w, m>>]
    BY <1>1, <2>1
  <2>. QED BY <2>1, <2>2, <2>3 DEF NoCorpus
<1>5. FilesAgree'
  <2>. SUFFICES ASSUME NEW q \in Packages, NEW w \in Versions, NEW m \in FileKinds,
                       file'[<<q, w, "tgz">>] # None
                PROVE  file'[<<q, w, m>>] \in {None, Torn, file'[<<q, w, "tgz">>]}
    BY DEF FilesAgree, AgreeAt
  <2>1. "tgz" \in FileKinds BY DEF FileKinds
  <2>2. /\ file'[<<q, w, "tgz">>] =
             IF q = p /\ w = v /\ "tgz" = k THEN x ELSE file[<<q, w, "tgz">>]
        /\ file'[<<q, w, m>>] =
             IF q = p /\ w = v /\ m = k THEN x ELSE file[<<q, w, m>>]
    BY <1>1, <2>1
  <2>3. file[<<q, w, "tgz">>] # None =>
          file[<<q, w, m>>] \in {None, Torn, file[<<q, w, "tgz">>]}
    BY DEF DiskOK, FilesAgree, AgreeAt
  <2>. QED BY <2>2, <2>3
<1>6. LatestIsComplete'
  <2>. SUFFICES ASSUME NEW q \in Packages, latest[q] \notin {None, Synthetic},
                       NEW m \in FileKinds
                PROVE  file'[<<q, latest[q], m>>] \notin {None, Torn}
    BY DEF LatestIsComplete, Complete
  <2>1. latest[q] \in Versions BY DEF Control, TypeOK
  <2>2. file[<<q, latest[q], m>>] \notin {None, Torn}
    BY DEF DiskOK, LatestIsComplete, Complete
  <2>. QED BY <1>1, <2>1, <2>2
<1>. QED BY <1>2, <1>3, <1>4, <1>5, <1>6 DEF DiskOK

(* Only the control point moves: the job still writes the same version.     *)
LEMMA GotoFacts ==
  ASSUME Control, NEW c \in Crawlers, NEW pc, Goto(c, pc)
  PROVE  /\ job'[c].pc = pc
         /\ Pkg(job[c])' = Pkg(job[c])
         /\ job'[c].version = job[c].version
         /\ Built(job[c])' = Built(job[c])
<1>1. job \in [Crawlers -> Jobs] BY DEF Control, TypeOK
<1>2. job'[c] = [job[c] EXCEPT !.pc = pc] BY <1>1 DEF Goto
<1>3. job[c] \in Jobs BY <1>1
<1>4. /\ job'[c].pc = pc /\ job'[c].version = job[c].version
      /\ job'[c].commit = job[c].commit /\ job'[c].head = job[c].head
  BY <1>2, <1>3 DEF Jobs
<1>. QED BY <1>4 DEF Pkg, Built

LEMMA ReturnFacts ==
  ASSUME Control, NEW c \in Crawlers, job[c].pc # "idle", Return(c)
  PROVE  job'[c].pc \notin WritePcs
<1>1. job'[c] = Returned(job[c]) BY DEF Return, Control, TypeOK
<1>2. Returned(job[c]).pc \in {"idle", "tags", "next"} BY JobFacts, ReturnedOK
<1>. QED BY <1>1, <1>2 DEF WritePcs

LEMMA DiskUnchanged == DiskOK /\ UNCHANGED <<file, latest>> => DiskOK'
BY DEF DiskOK, ContentOfItsKind, SumFollowsArtifact, CorpusBackedByArtifact,
       FilesAgree, AgreeAt, LatestIsComplete, Complete

(* Steps that leave the disk alone.                                         *)
LEMMA ReadingSteps ==
  ASSUME Control, DiskOK, NoTagV000, NEW c \in Crawlers, Writing(c),
         \/ RemoteStep(c) \/ RemoteFails(c) \/ WriteFails(c) \/ Crash(c)
         \/ Start(c) \/ VersionsDone(c) \/ HasVersion(c)
         \/ CheckSyntheticRef(c) \/ PutStat(c)
  PROVE  DiskOK' /\ Writing(c)'
<1>1. UNCHANGED disk
  BY DEF RemoteStep, ListTags, HeadCommit, Fetch, FetchRef, RemoteFails, WriteFails,
         Crash, Start, VersionsDone, HasVersion, CheckSyntheticRef, PutStat
<1>2. DiskOK' BY <1>1, DiskUnchanged DEF disk
<1>3. job \in [Crawlers -> Jobs] BY DEF Control, TypeOK
<1>4. CASE Return(c) /\ job[c].pc # "idle"
  BY <1>2, <1>4, ReturnFacts DEF Writing
<1>5. CASE job' = [job EXCEPT ![c] = NextEntry(@)] \/ job' = [job EXCEPT ![c] = IdleJob]
           \/ job' = [job EXCEPT ![c] = NextEntry(IdleJob)]
  <2>1. NextEntry(job[c]).pc \in {"idle", "tags"} BY JobFacts, NextEntryOK
  <2>2. IdleJob.pc = "idle" /\ NextEntry(IdleJob).pc \in {"idle", "tags"}
    BY IdleJobOK, NextEntryOK DEF IdleJob
  <2>3. job'[c].pc \in {"idle", "tags"} BY <1>3, <1>5, <2>1, <2>2
  <2>. QED BY <1>2, <2>3 DEF Writing, WritePcs
<1>6. CASE ListTags(c) \/ HeadCommit(c) \/ FetchRef(c) \/ HasVersion(c)
  <2>0. job[c] \in Jobs BY <1>3
  <2>1. job'[c].pc \notin WritePcs \/ Return(c)
    <3>1. CASE ListTags(c)
      <4>1. PICK t : job' = [job EXCEPT ![c] =
                       [@ EXCEPT !.todo = t, !.pc = IF t = {} THEN "head" ELSE "next"]]
        BY <3>1, ZenonT(60) DEF ListTags
      <4>2. PICK j : j = [job[c] EXCEPT !.todo = t, !.pc = IF t = {} THEN "head" ELSE "next"]
        OBVIOUS
      <4>3. j.pc \in {"head", "next"} BY <2>0, <4>2 DEF Jobs
      <4>4. job' = [job EXCEPT ![c] = j] BY <4>1, <4>2
      <4>. QED BY <1>3, <4>3, <4>4 DEF WritePcs
    <3>2. CASE HeadCommit(c) BY <1>3, <2>0, <3>2 DEF HeadCommit, WritePcs, Jobs
    <3>3. CASE FetchRef(c) BY <1>3, <2>0, <3>3 DEF FetchRef, WritePcs, Jobs
    <3>4. CASE HasVersion(c)
      <4>1. PICK v : \/ job' = [job EXCEPT ![c].todo = @ \ {v}]
                     \/ job' = [job EXCEPT ![c].version = v, ![c].pc = "fetch"]
        BY <3>4 DEF HasVersion
      <4>2. job[c].pc = "next" BY <3>4 DEF HasVersion, At
      <4>3. CASE job' = [job EXCEPT ![c].todo = @ \ {v}]
        <5>1. job'[c].pc = job[c].pc BY <1>3, <2>0, <4>3 DEF Jobs
        <5>. QED BY <4>2, <5>1 DEF WritePcs
      <4>4. CASE job' = [job EXCEPT ![c].version = v, ![c].pc = "fetch"]
        <5>1. job'[c].pc = "fetch" BY <1>3, <2>0, <4>4 DEF Jobs
        <5>. QED BY <5>1 DEF WritePcs
      <4>. QED BY <4>1, <4>3, <4>4
    <3>. QED BY <1>6, <3>1, <3>2, <3>3, <3>4
  <2>2. job[c].pc # "idle"
    BY <1>6 DEF ListTags, HeadCommit, FetchRef, HasVersion, At
  <2>. QED BY <1>2, <1>4, <2>1, <2>2 DEF Writing
<1>7. CASE Fetch(c)
  <2>1. CASE job'[c].pc = "stat" /\ job'[c].version # Synthetic
    BY <1>2, <2>1 DEF Writing, Progress, PutPcs
  <2>2. job[c].version # Synthetic
    BY <1>7, JobFacts DEF Fetch, At, JobOK, NoTagV000
  <2>3. Return(c) \/ (job'[c].pc = "stat" /\ job'[c].version = job[c].version)
    BY <1>3, <1>7 DEF Fetch, Jobs
  <2>. QED BY <1>4, <1>7, <2>1, <2>2, <2>3 DEF Fetch, At
<1>8. CASE CheckSyntheticRef(c)
  <2>1. CASE Goto(c, "removeDir")
    BY <1>2, <2>1, GotoFacts DEF Writing, Progress, PutPcs
  <2>. QED BY <1>4, <1>8, <2>1 DEF CheckSyntheticRef, At
<1>9. CASE PutStat(c)
  <2>. DEFINE p == Pkg(job[c])
              v == job[c].version
  <2>1. CASE Goto(c, "rename") /\ file[<<p, v, "tgz">>] = None
    <3>1. job[c].pc = "stat" /\ job[c].pc \in WritePcs
      BY <1>9 DEF PutStat, At, WritePcs
    <3>2. p \in Packages /\ v \in Versions BY <3>1, JobFacts
    <3>3. Progress(job[c], p, v) BY <3>1 DEF Writing
    <3>4. \A k \in CorpusKinds : file[<<p, v, k>>] = None
      BY <2>1, <3>2 DEF DiskOK, CorpusBackedByArtifact
    <3>5. v # Synthetic => file[<<p, v, "tgzsha">>] = None
      BY <2>1, <3>2 DEF DiskOK, SumFollowsArtifact
    <3>6. v = Synthetic => file[<<p, v, "tgzsha">>] = None
      BY <3>1, <3>3 DEF Progress, FileKinds
    <3>7. \A k \in FileKinds : file[<<p, v, k>>] = None
      BY <2>1, <3>4, <3>5, <3>6 DEF FileKinds, CorpusKinds
    <3>8. job'[c].pc = "rename" /\ Pkg(job[c])' = p /\ job'[c].version = v
      BY <2>1, GotoFacts
    <3>9. UNCHANGED file BY <1>1 DEF disk
    <3>. QED BY <1>2, <3>7, <3>8, <3>9 DEF Writing, Progress, PutPcs
  <2>. QED BY <1>4, <1>9, <2>1 DEF PutStat, At, Target
<1>. QED
  BY <1>4, <1>5, <1>6, <1>7, <1>8, <1>9
     DEF RemoteStep, RemoteFails, WriteFails, Crash, Start, VersionsDone, At, WritePcs

(* What a writing crawler knows of the version it writes.                   *)
LEMMA WriteFacts ==
  ASSUME Control, DiskOK, NoTagV000, NEW c \in Crawlers, Writing(c),
         job[c].pc \in WritePcs
  PROVE  /\ Pkg(job[c]) \in Packages
         /\ job[c].version \in Versions
         /\ Built(job[c]) \in Contents
         /\ job[c].pc \in RemovePcs => job[c].version = Synthetic
         /\ job[c].pc \in PutPcs =>
              (Built(job[c]).ref = None <=> job[c].version # Synthetic)
         /\ Progress(job[c], Pkg(job[c]), job[c].version)
<1>1. job[c] \in Jobs /\ JobOK(job[c]) BY JobFacts
<1>2. job[c].pc \in PutPcs =>
        (Built(job[c]).ref = None <=> job[c].version # Synthetic)
  BY <1>1 DEF Built, Content, JobOK, NoTagV000
<1>. QED BY <1>1, <1>2, JobFacts DEF JobOK, Writing

(* The five files of the version written, after the step.                   *)
LEMMA WroteKinds ==
  ASSUME NEW p \in Packages, NEW v \in Versions, NEW k \in FileKinds, NEW x,
         Wrote(p, v, k, x)
  PROVE  /\ file'[<<p, v, k>>] = x
         /\ \A m \in FileKinds \ {k} : file'[<<p, v, m>>] = file[<<p, v, m>>]
BY DEF Wrote

(* A version without corpus files is not the one latest.json names.         *)
LEMMA NotLatest ==
  ASSUME DiskOK, NEW p \in Packages, NEW v \in Versions, NoCorpus(p, v),
         v # Synthetic
  PROVE  latest[p] # v
<1>1. file[<<p, v, "sha">>] = None /\ "sha" \in FileKinds
  BY DEF NoCorpus, CorpusKinds, FileKinds
<1>2. v # None BY NoneAssumption
<1>. QED BY <1>1, <1>2 DEF DiskOK, LatestIsComplete, Complete

LEMMA RemoveDirStep ==
  ASSUME Control, DiskOK, NoTagV000, NEW c \in Crawlers, Writing(c), RemoveDir(c)
  PROVE  DiskOK' /\ Writing(c)'
<1>. DEFINE p == Pkg(job[c])
            v == job[c].version
<1>1. job[c].pc = "removeDir" /\ job[c].pc \in WritePcs
  BY DEF RemoveDir, At, WritePcs
<1>2. /\ p \in Packages /\ v = Synthetic /\ v \in Versions
      /\ Progress(job[c], p, v)
  BY <1>1, WriteFacts DEF RemovePcs
<1>3. ASSUME NEW k \in CorpusKinds, UNCHANGED job,
             file' = [file EXCEPT ![<<p, Synthetic, k>>] = None]
      PROVE  DiskOK' /\ Writing(c)'
  <2>1. k \in FileKinds /\ k \notin {"tgz", "tgzsha"}
    BY DEF CorpusKinds, FileKinds
  <2>2. Wrote(p, v, k, None) BY <1>2, <1>3, <2>1, FileUpdate
  <2>3. UNCHANGED latest BY DEF RemoveDir
  <2>4. DiskOK' BY <1>2, <2>1, <2>2, <2>3, FileStep
  <2>5. Writing(c)' BY <1>1, <1>3 DEF Writing, Progress, PutPcs
  <2>. QED BY <2>4, <2>5
<1>4. ASSUME \A k \in CorpusKinds : file[<<p, Synthetic, k>>] = None,
             Goto(c, "removeTgz"), UNCHANGED file
      PROVE  DiskOK' /\ Writing(c)'
  <2>1. DiskOK' BY <1>4, DiskUnchanged DEF RemoveDir
  <2>2. job'[c].pc = "removeTgz" /\ Pkg(job[c])' = p /\ job'[c].version = v
    BY <1>4, GotoFacts
  <2>3. Writing(c)' BY <1>2, <1>4, <2>2 DEF Writing, Progress, NoCorpus, PutPcs
  <2>. QED BY <2>1, <2>3
<1>. QED BY <1>3, <1>4 DEF RemoveDir

LEMMA RemoveTgzStep ==
  ASSUME Control, DiskOK, NoTagV000, NEW c \in Crawlers, Writing(c), RemoveTgz(c)
  PROVE  DiskOK' /\ Writing(c)'
<1>. DEFINE p == Pkg(job[c])
            v == job[c].version
<1>1. job[c].pc = "removeTgz" /\ job[c].pc \in WritePcs
  BY DEF RemoveTgz, At, WritePcs
<1>2. /\ p \in Packages /\ v = Synthetic /\ v \in Versions /\ NoCorpus(p, v)
  BY <1>1, WriteFacts DEF RemovePcs, Progress
<1>3. "tgz" \in FileKinds /\ CorpusKinds \subseteq FileKinds \ {"tgz"}
  BY DEF FileKinds, CorpusKinds
<1>4. Wrote(p, v, "tgz", None) BY <1>2, <1>3, FileUpdate DEF RemoveTgz
<1>5. UNCHANGED latest BY DEF RemoveTgz
<1>6. DiskOK' BY <1>2, <1>3, <1>4, <1>5, FileStep
<1>7. file'[<<p, v, "tgz">>] = None /\ \A k \in CorpusKinds : file'[<<p, v, k>>] = None
  BY <1>2, <1>3, <1>4, WroteKinds DEF NoCorpus
<1>8. job'[c].pc = "removeSum" /\ Pkg(job[c])' = p /\ job'[c].version = v
  BY GotoFacts DEF RemoveTgz
<1>9. Writing(c)' BY <1>7, <1>8 DEF Writing, Progress, NoCorpus, PutPcs
<1>. QED BY <1>6, <1>9

LEMMA RemoveSumStep ==
  ASSUME Control, DiskOK, NoTagV000, NEW c \in Crawlers, Writing(c), RemoveSum(c)
  PROVE  DiskOK' /\ Writing(c)'
<1>. DEFINE p == Pkg(job[c])
            v == job[c].version
<1>1. job[c].pc = "removeSum" /\ job[c].pc \in WritePcs /\ job[c].pc # "idle"
  BY DEF RemoveSum, At, WritePcs
<1>2. /\ p \in Packages /\ v = Synthetic /\ v \in Versions /\ NoCorpus(p, v)
      /\ file[<<p, v, "tgz">>] = None
  BY <1>1, WriteFacts DEF RemovePcs, Progress
<1>3. "tgzsha" \in FileKinds /\ CorpusKinds \cup {"tgz"} = FileKinds \ {"tgzsha"}
  BY DEF FileKinds, CorpusKinds
<1>4. Wrote(p, v, "tgzsha", None) BY <1>2, <1>3, FileUpdate DEF RemoveSum
<1>5. UNCHANGED latest BY DEF RemoveSum
<1>6. DiskOK' BY <1>2, <1>3, <1>4, <1>5, FileStep DEF CorpusKinds
<1>7. \A k \in FileKinds : file'[<<p, v, k>>] = None
  <2>1. /\ file'[<<p, v, "tgzsha">>] = None
        /\ \A k \in FileKinds \ {"tgzsha"} : file'[<<p, v, k>>] = file[<<p, v, k>>]
    BY <1>2, <1>3, <1>4, WroteKinds
  <2>2. \A k \in FileKinds \ {"tgzsha"} : file[<<p, v, k>>] = None
    BY <1>2 DEF NoCorpus, FileKinds, CorpusKinds
  <2>. QED BY <2>1, <2>2
<1>8. Goto(c, "stat") \/ Return(c)
  BY DEF RemoveSum, AfterRemoval, Goto, Return
<1>9. CASE Goto(c, "stat")
  <2>1. job'[c].pc = "stat" /\ Pkg(job[c])' = p /\ job'[c].version = v
    BY <1>9, GotoFacts
  <2>. QED BY <1>6, <1>7, <2>1 DEF Writing, Progress, PutPcs
<1>10. CASE Return(c) BY <1>1, <1>6, <1>10, ReturnFacts DEF Writing
<1>. QED BY <1>8, <1>9, <1>10

(* Put writes the tarball of a version that has no file yet.                *)
LEMMA PutRenameStep ==
  ASSUME Control, DiskOK, NoTagV000, NEW c \in Crawlers, Writing(c), PutRename(c)
  PROVE  DiskOK' /\ Writing(c)'
<1>. DEFINE p == Pkg(job[c])
            v == job[c].version
            x == Built(job[c])
<1>1. job[c].pc = "rename" /\ job[c].pc \in WritePcs
  BY DEF PutRename, At, WritePcs
<1>2. /\ p \in Packages /\ v \in Versions /\ x \in Contents
      /\ x.ref = None <=> v # Synthetic
      /\ \A k \in FileKinds : file[<<p, v, k>>] = None
  BY <1>1, WriteFacts DEF PutPcs, Progress
<1>3. "tgz" \in FileKinds /\ CorpusKinds \subseteq FileKinds \ {"tgz"}
  BY DEF FileKinds, CorpusKinds
<1>4. Wrote(p, v, "tgz", x) BY <1>2, <1>3, FileUpdate DEF PutRename, Target
<1>5. UNCHANGED latest BY DEF PutRename
<1>6. x \notin {None, Torn} BY <1>2
<1>. HIDE DEF x
<1>7. DiskOK' BY <1>2, <1>3, <1>4, <1>5, <1>6, FileStep
<1>8. file'[<<p, v, "tgz">>] = x /\ \A k \in CorpusKinds : file'[<<p, v, k>>] = None
  BY <1>2, <1>3, <1>4, WroteKinds
<1>9. /\ job'[c].pc = "createSum" /\ Pkg(job[c])' = p /\ job'[c].version = v
      /\ Built(job[c])' = x
  BY GotoFacts DEF PutRename, x
<1>10. Writing(c)' BY <1>8, <1>9 DEF Writing, Progress, NoCorpus, PutPcs
<1>. QED BY <1>7, <1>10

LEMMA PutCreateSumStep ==
  ASSUME Control, DiskOK, NoTagV000, NEW c \in Crawlers, Writing(c), PutCreateSum(c)
  PROVE  DiskOK' /\ Writing(c)'
<1>. DEFINE p == Pkg(job[c])
            v == job[c].version
            x == Built(job[c])
<1>1. job[c].pc = "createSum" /\ job[c].pc \in WritePcs
  BY DEF PutCreateSum, At, WritePcs
<1>2. /\ p \in Packages /\ v \in Versions /\ x \in Contents
      /\ NoCorpus(p, v) /\ file[<<p, v, "tgz">>] = x
  BY <1>1, WriteFacts DEF PutPcs, Progress
<1>3. /\ "tgz" \in FileKinds /\ "tgzsha" \in FileKinds
      /\ CorpusKinds \subseteq FileKinds \ {"tgzsha"} /\ "tgzsha" \notin CorpusKinds
  BY DEF FileKinds, CorpusKinds
<1>4. Wrote(p, v, "tgzsha", Torn) BY <1>2, <1>3, FileUpdate DEF PutCreateSum, Target
<1>5. UNCHANGED latest BY DEF PutCreateSum
<1>6. x # None BY <1>2
<1>7. v # Synthetic => latest[p] # v BY <1>2, NotLatest
<1>. HIDE DEF x
<1>8. DiskOK' BY <1>2, <1>3, <1>4, <1>5, <1>6, <1>7, FileStep
<1>9. /\ file'[<<p, v, "tgzsha">>] = Torn /\ file'[<<p, v, "tgz">>] = x
      /\ \A k \in CorpusKinds : file'[<<p, v, k>>] = None
  BY <1>2, <1>3, <1>4, WroteKinds DEF NoCorpus
<1>10. /\ job'[c].pc = "writeSum" /\ Pkg(job[c])' = p /\ job'[c].version = v
       /\ Built(job[c])' = x
  BY GotoFacts DEF PutCreateSum, x
<1>11. Writing(c)' BY <1>9, <1>10 DEF Writing, Progress, NoCorpus, PutPcs
<1>. QED BY <1>8, <1>11

LEMMA PutWriteSumStep ==
  ASSUME Control, DiskOK, NoTagV000, NEW c \in Crawlers, Writing(c), PutWriteSum(c)
  PROVE  DiskOK' /\ Writing(c)'
<1>. DEFINE p == Pkg(job[c])
            v == job[c].version
            x == Built(job[c])
<1>1. job[c].pc = "writeSum" /\ job[c].pc \in WritePcs
  BY DEF PutWriteSum, At, WritePcs
<1>2. /\ p \in Packages /\ v \in Versions /\ x \in Contents
      /\ x.ref = None <=> v # Synthetic
      /\ NoCorpus(p, v) /\ file[<<p, v, "tgz">>] = x /\ file[<<p, v, "tgzsha">>] = Torn
  BY <1>1, WriteFacts DEF PutPcs, Progress
<1>3. /\ "tgz" \in FileKinds /\ "tgzsha" \in FileKinds
      /\ CorpusKinds \subseteq FileKinds \ {"tgzsha"} /\ "tgzsha" \notin CorpusKinds
  BY DEF FileKinds, CorpusKinds
<1>4. file' = [file EXCEPT ![<<p, v, "tgzsha">>] = x]
  <2>1. file[<<p, v, "tgzsha">>] # None BY <1>2
  <2>. QED BY <2>1 DEF PutWriteSum, Target
<1>5. Wrote(p, v, "tgzsha", x) BY <1>2, <1>3, <1>4, FileUpdate
<1>6. UNCHANGED latest BY DEF PutWriteSum
<1>7. x \notin {None, Torn} BY <1>2
<1>. HIDE DEF x
<1>8. DiskOK' BY <1>2, <1>3, <1>5, <1>6, <1>7, FileStep
<1>9. /\ file'[<<p, v, "tgzsha">>] = x /\ file'[<<p, v, "tgz">>] = x
      /\ \A k \in CorpusKinds : file'[<<p, v, k>>] = None
  BY <1>2, <1>3, <1>5, WroteKinds DEF NoCorpus
<1>10. /\ job'[c].pc = "mkdir" /\ Pkg(job[c])' = p /\ job'[c].version = v
       /\ Built(job[c])' = x
  BY GotoFacts DEF PutWriteSum, x
<1>11. Writing(c)' BY <1>9, <1>10 DEF Writing, Progress, NoCorpus, PutPcs
<1>. QED BY <1>8, <1>11

LEMMA MkdirStep ==
  ASSUME Control, DiskOK, NoTagV000, NEW c \in Crawlers, Writing(c), MkdirVersion(c)
  PROVE  DiskOK' /\ Writing(c)'
<1>. DEFINE p == Pkg(job[c])
            v == job[c].version
            x == Built(job[c])
<1>1. job[c].pc = "mkdir" /\ job[c].pc \in WritePcs
  BY DEF MkdirVersion, At, WritePcs
<1>2. NoCorpus(p, v) /\ file[<<p, v, "tgz">>] = x /\ file[<<p, v, "tgzsha">>] = x
  BY <1>1, WriteFacts DEF PutPcs, Progress
<1>3. UNCHANGED <<file, latest>> /\ <<p, v>> \in dirs'
  BY DEF MkdirVersion
<1>4. DiskOK' BY <1>3, DiskUnchanged
<1>5. /\ job'[c].pc = "manifest" /\ Pkg(job[c])' = p /\ job'[c].version = v
      /\ Built(job[c])' = x
  BY GotoFacts DEF MkdirVersion
<1>6. Writing(c)' BY <1>2, <1>3, <1>5 DEF Writing, Progress, NoCorpus, PutPcs
<1>. QED BY <1>4, <1>6

(* WriteVersion writes one of its three files.                              *)
LEMMA WriteCorpusFileDisk ==
  ASSUME Control, DiskOK, NoTagV000, NEW c \in Crawlers, Writing(c),
         NEW kind \in CorpusKinds, NEW next,
         WriteCorpusFile(c, kind, next)
  PROVE  /\ DiskOK'
         /\ \/ Goto(c, next) /\ Wrote(Pkg(job[c]), job[c].version, kind, Built(job[c]))
            \/ Return(c)
<1>. DEFINE p == Pkg(job[c])
            v == job[c].version
            x == Built(job[c])
<1>1. job[c].pc = kind /\ job[c].pc \in WritePcs \cap PutPcs
  BY DEF WriteCorpusFile, At, WritePcs, PutPcs, CorpusKinds
<1>2. /\ p \in Packages /\ v \in Versions /\ x \in Contents
      /\ x.ref = None <=> v # Synthetic
      /\ Progress(job[c], p, v)
  BY <1>1, WriteFacts
<1>3. /\ kind \in FileKinds /\ kind \notin {"tgz", "tgzsha"}
  BY DEF FileKinds, CorpusKinds
<1>4. file[<<p, v, "tgz">>] = x
  BY <1>1, <1>2 DEF Progress, PutPcs, CorpusKinds
<1>5. x \notin {None, Torn} BY <1>2
<1>6. UNCHANGED latest BY DEF WriteCorpusFile
<1>. HIDE DEF x
<1>7. CASE file' = [file EXCEPT ![<<p, v, kind>>] = x] /\ Goto(c, next)
  <2>1. Wrote(p, v, kind, x) BY <1>2, <1>3, <1>7, FileUpdate
  <2>2. DiskOK' BY <1>2, <1>3, <1>4, <1>5, <1>6, <2>1, FileStep
  <2>. QED BY <1>7, <2>1, <2>2 DEF x
<1>8. CASE UNCHANGED file /\ Return(c) BY <1>6, <1>8, DiskUnchanged
<1>. QED BY <1>7, <1>8 DEF WriteCorpusFile, Target, x

LEMMA WriteManifestStep ==
  ASSUME Control, DiskOK, NoTagV000, NEW c \in Crawlers, Writing(c),
         WriteCorpusFile(c, "manifest", "index")
  PROVE  DiskOK' /\ Writing(c)'
<1>. DEFINE p == Pkg(job[c])
            v == job[c].version
            x == Built(job[c])
<1>1. job[c].pc = "manifest" /\ job[c].pc \in WritePcs /\ job[c].pc # "idle"
  BY DEF WriteCorpusFile, At, WritePcs
<1>2. /\ p \in Packages /\ v \in Versions
      /\ Progress(job[c], p, v)
  BY <1>1, WriteFacts
<1>3. DiskOK' /\ ((Goto(c, "index") /\ Wrote(p, v, "manifest", x)) \/ Return(c))
  BY WriteCorpusFileDisk DEF CorpusKinds
<1>4. CASE Return(c) BY <1>1, <1>3, <1>4, ReturnFacts DEF Writing
<1>5. CASE Goto(c, "index") /\ Wrote(p, v, "manifest", x)
  <2>1. "manifest" \in FileKinds BY DEF FileKinds
  <2>2. /\ file[<<p, v, "tgz">>] = x /\ file[<<p, v, "tgzsha">>] = x
        /\ <<p, v>> \in dirs
    BY <1>1, <1>2 DEF Progress, PutPcs
  <2>3. /\ file'[<<p, v, "manifest">>] = x
        /\ \A m \in FileKinds \ {"manifest"} : file'[<<p, v, m>>] = file[<<p, v, m>>]
    BY <1>2, <1>5, <2>1, WroteKinds
  <2>4. /\ file'[<<p, v, "tgz">>] = x /\ file'[<<p, v, "tgzsha">>] = x
    BY <2>2, <2>3 DEF FileKinds
  <2>5. /\ job'[c].pc = "index" /\ Pkg(job[c])' = p /\ job'[c].version = v
        /\ Built(job[c])' = x
    BY <1>5, GotoFacts
  <2>6. dirs' = dirs BY DEF WriteCorpusFile
  <2>7. Writing(c)' BY <2>2, <2>3, <2>4, <2>5, <2>6 DEF Writing, Progress, PutPcs
  <2>. QED BY <1>3, <2>7
<1>. QED BY <1>3, <1>4, <1>5

LEMMA WriteIndexStep ==
  ASSUME Control, DiskOK, NoTagV000, NEW c \in Crawlers, Writing(c),
         WriteCorpusFile(c, "index", "sha")
  PROVE  DiskOK' /\ Writing(c)'
<1>. DEFINE p == Pkg(job[c])
            v == job[c].version
            x == Built(job[c])
<1>1. job[c].pc = "index" /\ job[c].pc \in WritePcs /\ job[c].pc # "idle"
  BY DEF WriteCorpusFile, At, WritePcs
<1>2. /\ p \in Packages /\ v \in Versions
      /\ Progress(job[c], p, v)
  BY <1>1, WriteFacts
<1>3. DiskOK' /\ ((Goto(c, "sha") /\ Wrote(p, v, "index", x)) \/ Return(c))
  BY WriteCorpusFileDisk DEF CorpusKinds
<1>4. CASE Return(c) BY <1>1, <1>3, <1>4, ReturnFacts DEF Writing
<1>5. CASE Goto(c, "sha") /\ Wrote(p, v, "index", x)
  <2>1. "index" \in FileKinds BY DEF FileKinds
  <2>2. /\ file[<<p, v, "tgz">>] = x /\ file[<<p, v, "tgzsha">>] = x
        /\ <<p, v>> \in dirs
        /\ file[<<p, v, "manifest">>] = x
    BY <1>1, <1>2 DEF Progress, PutPcs
  <2>3. /\ file'[<<p, v, "index">>] = x
        /\ \A m \in FileKinds \ {"index"} : file'[<<p, v, m>>] = file[<<p, v, m>>]
    BY <1>2, <1>5, <2>1, WroteKinds
  <2>4. /\ file'[<<p, v, "tgz">>] = x /\ file'[<<p, v, "tgzsha">>] = x
        /\ file'[<<p, v, "manifest">>] = x
    BY <2>2, <2>3 DEF FileKinds
  <2>5. /\ job'[c].pc = "sha" /\ Pkg(job[c])' = p /\ job'[c].version = v
        /\ Built(job[c])' = x
    BY <1>5, GotoFacts
  <2>6. dirs' = dirs BY DEF WriteCorpusFile
  <2>7. Writing(c)' BY <2>2, <2>3, <2>4, <2>5, <2>6 DEF Writing, Progress, PutPcs
  <2>. QED BY <1>3, <2>7
<1>. QED BY <1>3, <1>4, <1>5

LEMMA WriteShaStep ==
  ASSUME Control, DiskOK, NoTagV000, NEW c \in Crawlers, Writing(c),
         WriteCorpusFile(c, "sha", "latest")
  PROVE  DiskOK' /\ Writing(c)'
<1>. DEFINE p == Pkg(job[c])
            v == job[c].version
            x == Built(job[c])
<1>1. job[c].pc = "sha" /\ job[c].pc \in WritePcs /\ job[c].pc # "idle"
  BY DEF WriteCorpusFile, At, WritePcs
<1>2. /\ p \in Packages /\ v \in Versions
      /\ Progress(job[c], p, v)
  BY <1>1, WriteFacts
<1>3. DiskOK' /\ ((Goto(c, "latest") /\ Wrote(p, v, "sha", x)) \/ Return(c))
  BY WriteCorpusFileDisk DEF CorpusKinds
<1>4. CASE Return(c) BY <1>1, <1>3, <1>4, ReturnFacts DEF Writing
<1>5. CASE Goto(c, "latest") /\ Wrote(p, v, "sha", x)
  <2>1. "sha" \in FileKinds BY DEF FileKinds
  <2>2. /\ file[<<p, v, "tgz">>] = x /\ file[<<p, v, "tgzsha">>] = x
        /\ <<p, v>> \in dirs
        /\ file[<<p, v, "manifest">>] = x
        /\ file[<<p, v, "index">>] = x
    BY <1>1, <1>2 DEF Progress, PutPcs
  <2>3. /\ file'[<<p, v, "sha">>] = x
        /\ \A m \in FileKinds \ {"sha"} : file'[<<p, v, m>>] = file[<<p, v, m>>]
    BY <1>2, <1>5, <2>1, WroteKinds
  <2>4. /\ file'[<<p, v, "tgz">>] = x /\ file'[<<p, v, "tgzsha">>] = x
        /\ file'[<<p, v, "manifest">>] = x
        /\ file'[<<p, v, "index">>] = x
    BY <2>2, <2>3 DEF FileKinds
  <2>5. /\ job'[c].pc = "latest" /\ Pkg(job[c])' = p /\ job'[c].version = v
        /\ Built(job[c])' = x
    BY <1>5, GotoFacts
  <2>6. dirs' = dirs BY DEF WriteCorpusFile
  <2>7. Writing(c)' BY <2>2, <2>3, <2>4, <2>5, <2>6 DEF Writing, Progress, PutPcs
  <2>. QED BY <1>3, <2>7
<1>. QED BY <1>3, <1>4, <1>5

(* latest.json comes last, when the five files are there.                   *)
LEMMA WriteLatestStep ==
  ASSUME Control, DiskOK, NoTagV000, NEW c \in Crawlers, Writing(c), WriteLatest(c)
  PROVE  DiskOK' /\ Writing(c)'
<1>. DEFINE p == Pkg(job[c])
            v == job[c].version
            x == Built(job[c])
<1>1. job[c].pc = "latest" /\ job[c].pc \in WritePcs /\ job[c].pc # "idle"
  BY DEF WriteLatest, At, WritePcs
<1>2. /\ p \in Packages /\ v \in Versions /\ x \in Contents
      /\ Progress(job[c], p, v)
  BY <1>1, WriteFacts
<1>3. Complete(p, v)
  <2>1. \A k \in FileKinds : file[<<p, v, k>>] = x
    BY <1>1, <1>2 DEF Progress, PutPcs, FileKinds
  <2>. QED BY <1>2, <2>1 DEF Complete
<1>4. UNCHANGED file /\ latest' = [latest EXCEPT ![p] = v]
  BY DEF WriteLatest
<1>5. LatestIsComplete'
  <2>. SUFFICES ASSUME NEW q \in Packages, latest'[q] \notin {None, Synthetic},
                       NEW k \in FileKinds
                PROVE  file'[<<q, latest'[q], k>>] \notin {None, Torn}
    BY DEF LatestIsComplete, Complete
  <2>1. latest'[q] = IF q = p THEN v ELSE latest[q]
    BY <1>2, <1>4 DEF Control, TypeOK
  <2>2. CASE q = p BY <1>3, <1>4, <2>1, <2>2 DEF Complete
  <2>3. CASE q # p BY <1>4, <2>1, <2>3 DEF DiskOK, LatestIsComplete, Complete
  <2>. QED BY <2>2, <2>3
<1>6. DiskOK'
  BY <1>4, <1>5 DEF DiskOK, ContentOfItsKind, SumFollowsArtifact,
     CorpusBackedByArtifact, FilesAgree, AgreeAt
<1>7. Return(c) BY DEF WriteLatest
<1>. QED BY <1>1, <1>6, <1>7, ReturnFacts DEF Writing

-----------------------------------------------------------------------------
(* The inductive invariant, in the named parts of the proof.                *)
Inv == Control /\ DiskOK /\ \A c \in Crawlers : Writing(c)

LEMMA InvIsIndInv == Inv <=> IndInv
BY DEF Inv, IndInv, Control, TagsTaggable, JobsOK, DiskOK, Writing

LEMMA InitInv == Init => Inv
<1>. SUFFICES ASSUME Init PROVE Inv OBVIOUS
<1>1. Control BY InitControl
<1>2. \A f \in Files : file[f] = None BY DEF Init
<1>3. ContentOfItsKind /\ SumFollowsArtifact /\ CorpusBackedByArtifact /\ FilesAgree
  BY <1>2 DEF ContentOfItsKind, SumFollowsArtifact, CorpusBackedByArtifact,
     FilesAgree, AgreeAt, Files, FileKinds, CorpusKinds
<1>4. LatestIsComplete BY DEF Init, LatestIsComplete
<1>5. \A c \in Crawlers : Writing(c) BY DEF Init, IdleJob, Writing, WritePcs
<1>. QED BY <1>1, <1>3, <1>4, <1>5 DEF Inv, DiskOK

LEMMA CrawlerStepInv ==
  ASSUME Inv, NoTagV000, RemovalsFail = FALSE, NEW c \in Crawlers, CrawlerStep(c)
  PROVE  DiskOK' /\ Writing(c)'
<1>1. Control /\ DiskOK /\ Writing(c) BY DEF Inv
<1>2. ~RemoveFails(c) BY DEF RemoveFails
<1>. QED
  BY <1>1, <1>2, ReadingSteps, RemoveDirStep, RemoveTgzStep, RemoveSumStep,
     PutRenameStep, PutCreateSumStep, PutWriteSumStep, MkdirStep,
     WriteManifestStep, WriteIndexStep, WriteShaStep, WriteLatestStep
     DEF CrawlerStep, LocalStep, Fault

LEMMA InvStep ==
  ASSUME SingleCrawler, NoTagV000, RemovalsFail = FALSE, Inv, [Next]_vars
  PROVE  Inv'
<1>1. Control' BY ControlStep DEF Inv
<1>2. CASE Maintainers
  <2>1. UNCHANGED <<dirs, file, latest, job, faults>>
    BY <1>2, MaintainersControl DEF Inv
  <2>2. DiskOK' BY <2>1, DiskUnchanged DEF Inv
  <2>3. \A c \in Crawlers : Writing(c)'
    BY <2>1, ZenonT(30) DEF Inv, Writing, Progress, NoCorpus, Pkg, Built
  <2>. QED BY <1>1, <2>2, <2>3 DEF Inv
<1>3. ASSUME NEW c \in Crawlers, CrawlerStep(c) PROVE Inv'
  <2>1. DiskOK' /\ Writing(c)' BY <1>3, CrawlerStepInv
  <2>2. \A d \in Crawlers : d = c BY DEF SingleCrawler
  <2>. QED BY <1>1, <2>1, <2>2 DEF Inv
<1>4. CASE UNCHANGED vars
  <2>1. UNCHANGED <<dirs, file, latest, job>> BY <1>4 DEF vars
  <2>2. DiskOK' BY <2>1, DiskUnchanged DEF Inv
  <2>3. \A c \in Crawlers : Writing(c)'
    BY <2>1, ZenonT(30) DEF Inv, Writing, Progress, NoCorpus, Pkg, Built
  <2>. QED BY <1>1, <2>2, <2>3 DEF Inv
<1>. QED BY <1>2, <1>3, <1>4 DEF Next

(* The invariant of one crawler is inductive: whatever was interrupted, the *)
(* files of each version are a prefix of one ingest of one commit.          *)
THEOREM CrawlerInvariant ==
  ASSUME SingleCrawler, NoTagV000, RemovalsFail = FALSE
  PROVE  Spec => []IndInv
<1>1. Inv /\ [Next]_vars => Inv' BY InvStep
<1>2. Inv => IndInv BY InvIsIndInv
<1>. QED BY <1>1, <1>2, InitInv, PTL DEF Spec

(* Across crashes, failed writes, moved tags and re-ingested HEADs, the     *)
(* files of a version describe one commit.                                  *)
THEOREM FilesOfOneCommit ==
  ASSUME SingleCrawler, NoTagV000, RemovalsFail = FALSE
  PROVE  Spec => []FilesAgree
<1>1. IndInv => FilesAgree BY DEF IndInv
<1>. QED BY <1>1, CrawlerInvariant, PTL

(* A version the corpus lists has its artifact in the store.                *)
THEOREM ArtifactBehindCorpus ==
  ASSUME SingleCrawler, NoTagV000, RemovalsFail = FALSE
  PROVE  Spec => []CorpusBackedByArtifact
<1>1. IndInv => CorpusBackedByArtifact BY DEF IndInv
<1>. QED BY <1>1, CrawlerInvariant, PTL

(* latest.json names only released versions that are whole.                 *)
THEOREM LatestWhole ==
  ASSUME SingleCrawler, NoTagV000, RemovalsFail = FALSE
  PROVE  Spec => []LatestIsComplete
<1>1. IndInv => LatestIsComplete BY DEF IndInv
<1>. QED BY <1>1, CrawlerInvariant, PTL

-----------------------------------------------------------------------------
(* A step leaves the artifacts alone, or renames one into place where there *)
(* was none, or removes a synthetic one.                                    *)
LEMMA ArtifactStep ==
  ASSUME Inv, NoTagV000, NEW c \in Crawlers, CrawlerStep(c),
         NEW p \in Packages, NEW v \in Versions,
         file[<<p, v, "tgz">>] # None, file[<<p, v, "tgz">>].ref = None
  PROVE  file'[<<p, v, "tgz">>] = file[<<p, v, "tgz">>]
<1>. DEFINE q == Pkg(job[c])
            w == job[c].version
<1>1. Control /\ DiskOK /\ Writing(c) BY DEF Inv
<1>2. "tgz" \in FileKinds /\ "tgzsha" \in FileKinds BY DEF FileKinds
<1>3. file \in [Files -> Contents \cup {None, Torn}] BY <1>1 DEF Control, TypeOK
<1>4. v # Synthetic
  <2>1. file[<<p, v, "tgz">>] # Torn
    BY <1>1, <1>2 DEF DiskOK, ContentOfItsKind
  <2>2. file[<<p, v, "tgz">>] \in Contents BY <1>2, <1>3, <2>1 DEF Files
  <2>. QED BY <1>1, <1>2, <2>2 DEF DiskOK, ContentOfItsKind
<1>5. job[c].pc \in WritePcs => q \in Packages /\ w \in Versions /\ Built(job[c]) \in Contents
  BY <1>1, JobFacts
<1>6. ASSUME job[c].pc \in WritePcs, NEW k \in FileKinds,
             NEW x \in Contents \cup {None, Torn},
             file' = [file EXCEPT ![<<q, w, k>>] = x],
             k # "tgz" \/ file[<<q, w, "tgz">>] = None \/ w = Synthetic
      PROVE  file'[<<p, v, "tgz">>] = file[<<p, v, "tgz">>]
  <2>1. Wrote(q, w, k, x) BY <1>1, <1>5, <1>6, FileUpdate
  <2>. HIDE DEF q, w
  <2>. QED BY <1>2, <1>4, <1>6, <2>1 DEF Wrote
<1>7. CASE UNCHANGED file BY <1>7
<1>8. CASE RemoveDir(c)
  <2>1. job[c].pc \in WritePcs /\ w = Synthetic
    BY <1>1, <1>8, JobFacts DEF RemoveDir, At, WritePcs, RemovePcs, JobOK
  <2>2. ASSUME NEW k \in CorpusKinds, file' = [file EXCEPT ![<<q, w, k>>] = None]
        PROVE  file'[<<p, v, "tgz">>] = file[<<p, v, "tgz">>]
    BY <1>6, <2>1, <2>2 DEF CorpusKinds, FileKinds
  <2>. QED BY <1>7, <1>8, <2>1, <2>2 DEF RemoveDir
<1>9. CASE RemoveTgz(c) \/ RemoveSum(c)
  <2>1. job[c].pc \in WritePcs /\ w = Synthetic
    BY <1>1, <1>9, JobFacts DEF RemoveTgz, RemoveSum, At, WritePcs, RemovePcs, JobOK
  <2>. QED BY <1>2, <1>6, <1>9, <2>1 DEF RemoveTgz, RemoveSum
<1>10. CASE PutRename(c)
  <2>1. job[c].pc = "rename" /\ job[c].pc \in WritePcs
    BY <1>10 DEF PutRename, At, WritePcs
  <2>2. file[<<q, w, "tgz">>] = None
    BY <1>1, <1>2, <2>1, WriteFacts, NoTagV000 DEF Progress
  <2>. QED BY <1>2, <1>5, <1>6, <1>10, <2>1, <2>2 DEF PutRename, Target
<1>11. CASE PutCreateSum(c)
  <2>1. job[c].pc \in WritePcs BY <1>11 DEF PutCreateSum, At, WritePcs
  <2>. QED BY <1>2, <1>6, <1>11, <2>1 DEF PutCreateSum, Target
<1>12. CASE PutWriteSum(c)
  <2>1. job[c].pc \in WritePcs BY <1>12 DEF PutWriteSum, At, WritePcs
  <2>. DEFINE x == IF file[<<q, w, "tgzsha">>] = None THEN None ELSE Built(job[c])
  <2>2. x \in Contents \cup {None, Torn} BY <1>5, <2>1
  <2>3. file' = [file EXCEPT ![<<q, w, "tgzsha">>] = x]
    BY <1>12 DEF PutWriteSum, Target
  <2>. QED BY <1>2, <1>6, <2>1, <2>2, <2>3
<1>13. ASSUME NEW k \in CorpusKinds, NEW next, WriteCorpusFile(c, k, next)
       PROVE  file'[<<p, v, "tgz">>] = file[<<p, v, "tgz">>]
  <2>1. job[c].pc \in WritePcs /\ k \in FileKinds /\ k # "tgz"
    BY <1>13 DEF WriteCorpusFile, At, WritePcs, CorpusKinds, FileKinds
  <2>2. CASE file' = [file EXCEPT ![<<q, w, k>>] = Built(job[c])]
    BY <1>5, <1>6, <2>1, <2>2
  <2>. QED BY <1>7, <1>13, <2>2 DEF WriteCorpusFile, Target
<1>14. RemoteStep(c) \/ RemoteFails(c) \/ Fault(c) \/ Start(c) \/ VersionsDone(c)
       \/ HasVersion(c) \/ CheckSyntheticRef(c) \/ PutStat(c) \/ MkdirVersion(c)
       \/ WriteLatest(c) => UNCHANGED file
  BY DEF RemoteStep, ListTags, HeadCommit, Fetch, FetchRef, RemoteFails, Fault,
     WriteFails, RemoveFails, Crash, Start, VersionsDone, HasVersion,
     CheckSyntheticRef, PutStat, MkdirVersion, WriteLatest, disk
<1>. QED
  BY <1>7, <1>8, <1>9, <1>10, <1>11, <1>12, <1>13, <1>14
     DEF CrawlerStep, LocalStep, CorpusKinds

(* The tarball of a tagged version is never replaced or removed.            *)
THEOREM ReleasesAreImmutable ==
  ASSUME SingleCrawler, NoTagV000, RemovalsFail = FALSE
  PROVE  Spec => ArtifactImmutable
<1>. DEFINE Step == \A p \in Packages, v \in Versions :
       LET f == <<p, v, "tgz">> IN
       file[f] # None /\ file[f].ref = None => file'[f] = file[f]
<1>1. Inv /\ [Next]_vars => [Step]_vars
  <2>. SUFFICES ASSUME Inv, Next PROVE Step
    OBVIOUS
  <2>1. CASE Maintainers
    <3>1. UNCHANGED file BY <2>1, MaintainersControl DEF Inv
    <3>. QED BY <3>1
  <2>2. ASSUME NEW c \in Crawlers, CrawlerStep(c) PROVE Step
    BY <2>2, ArtifactStep
  <2>. QED BY <2>1, <2>2 DEF Next
<1>2. Inv /\ [Next]_vars => Inv' BY InvStep
<1>. QED BY <1>1, <1>2, InitInv, PTL DEF Spec, ArtifactImmutable

-----------------------------------------------------------------------------
(***************************************************************************)
(* The crawler implements ImmutableRegistry.                               *)
(***************************************************************************)
PublishedAt(p, v) == IF Complete(p, v) THEN file[<<p, v, "tgz">>] ELSE None
RegistryStep == [Promise!Next]_<<Published, latest>>

(* A step that rewrites one file changes what is published of one version.  *)
LEMMA PublishedWrote ==
  ASSUME NEW p \in Packages, NEW v \in Versions, NEW k \in FileKinds, NEW x,
         Wrote(p, v, k, x)
  PROVE  Published' = [Published EXCEPT ![p][v] = PublishedAt(p, v)']
<1>1. Published = [q \in Packages |-> [w \in Versions |-> PublishedAt(q, w)]]
  BY DEF Published, PublishedAt
<1>2. Published' = [q \in Packages |-> [w \in Versions |-> PublishedAt(q, w)']]
  BY DEF Published, PublishedAt
<1>3. ASSUME NEW q \in Packages, NEW w \in Versions, ~(q = p /\ w = v)
      PROVE  PublishedAt(q, w)' = PublishedAt(q, w)
  <2>1. \A m \in FileKinds : file'[<<q, w, m>>] = file[<<q, w, m>>]
    BY <1>3 DEF Wrote
  <2>2. "tgz" \in FileKinds BY DEF FileKinds
  <2>. QED BY <2>1, <2>2 DEF PublishedAt, Complete
<1>. HIDE DEF PublishedAt
<1>. QED BY <1>1, <1>2, <1>3

LEMMA PublishedFacts ==
  ASSUME NEW p \in Packages, NEW v \in Versions
  PROVE  Published[p][v] = PublishedAt(p, v)
BY DEF Published, PublishedAt

LEMMA PublishedStutter ==
  ASSUME NEW p \in Packages, NEW v \in Versions, NEW k \in FileKinds, NEW x,
         Wrote(p, v, k, x), PublishedAt(p, v)' = PublishedAt(p, v)
  PROVE  Published' = Published
<1>. DEFINE y == PublishedAt(p, v)
<1>1. Published' = [Published EXCEPT ![p][v] = y] BY PublishedWrote
<1>2. Published[p][v] = y BY PublishedFacts
<1>3. /\ Published = [q \in Packages |-> Published[q]]
      /\ \A q \in Packages : Published[q] = [w \in Versions |-> Published[q][w]]
  BY DEF Published
<1>. HIDE DEF y
<1>. QED BY <1>1, <1>2, <1>3

(* Removing a file of a synthetic version retracts it, if it was whole.     *)
LEMMA RemovalRetracts ==
  ASSUME NEW p \in Packages, NEW k \in FileKinds, Synthetic \in Versions,
         Wrote(p, Synthetic, k, None), UNCHANGED latest
  PROVE  RegistryStep
<1>. DEFINE v == Synthetic
<1>1. file'[<<p, v, k>>] = None BY WroteKinds
<1>2. PublishedAt(p, v)' = None BY <1>1 DEF PublishedAt, Complete
<1>3. CASE PublishedAt(p, v) = None
  BY <1>2, <1>3, PublishedStutter DEF RegistryStep
<1>4. CASE PublishedAt(p, v) # None
  <2>1. Published[p][v] # None BY <1>4, PublishedFacts
  <2>2. Published' = [Published EXCEPT ![p][v] = None] BY <1>2, PublishedWrote
  <2>. QED BY <2>1, <2>2 DEF RegistryStep, Promise!Next, Promise!Retract
<1>. QED BY <1>3, <1>4

(* Writing one file while another is missing publishes nothing.             *)
LEMMA StillIncomplete ==
  ASSUME NEW p \in Packages, NEW v \in Versions, NEW k \in FileKinds, NEW x,
         Wrote(p, v, k, x), UNCHANGED latest,
         NEW m \in FileKinds \ {k}, file[<<p, v, m>>] = None
  PROVE  RegistryStep
<1>1. file'[<<p, v, m>>] = None BY DEF Wrote
<1>2. PublishedAt(p, v) = None BY DEF PublishedAt, Complete
<1>3. PublishedAt(p, v)' = None BY <1>1 DEF PublishedAt, Complete
<1>. QED BY <1>2, <1>3, PublishedStutter DEF RegistryStep

(* Writing a file of the commit of the tarball may publish the version.     *)
LEMMA WritePublishes ==
  ASSUME NEW p \in Packages, NEW v \in Versions, NEW k \in FileKinds \ {"tgz"},
         NEW x \in Contents, file[<<p, v, "tgz">>] = x,
         Wrote(p, v, k, x), UNCHANGED latest
  PROVE  RegistryStep
<1>1. file'[<<p, v, "tgz">>] = x /\ "tgz" \in FileKinds
  BY DEF Wrote, FileKinds
<1>2. PublishedAt(p, v) \in {None, x} BY DEF PublishedAt
<1>3. PublishedAt(p, v)' \in {None, x} BY <1>1 DEF PublishedAt
<1>4. CASE PublishedAt(p, v) = PublishedAt(p, v)'
  BY <1>4, PublishedStutter DEF RegistryStep
<1>5. CASE PublishedAt(p, v) = x /\ PublishedAt(p, v)' # x
  <2>1. Complete(p, v) BY <1>5 DEF PublishedAt
  <2>2. x \notin {None, Torn} OBVIOUS
  <2>3. ASSUME NEW m \in FileKinds PROVE file'[<<p, v, m>>] \notin {None, Torn}
    BY <2>1, <2>2 DEF Wrote, Complete
  <2>4. Complete(p, v)' BY <2>3 DEF Complete
  <2>. QED BY <1>1, <1>5, <2>4 DEF PublishedAt
<1>6. CASE PublishedAt(p, v) = None /\ PublishedAt(p, v)' = x
  <2>1. Published[p][v] = None BY <1>6, PublishedFacts
  <2>2. Published' = [Published EXCEPT ![p][v] = x] BY <1>6, PublishedWrote
  <2>. QED BY <2>1, <2>2 DEF RegistryStep, Promise!Next, Promise!Publish
<1>. QED BY <1>2, <1>3, <1>4, <1>5, <1>6

LEMMA RefinementStep ==
  ASSUME Inv, NoTagV000, RemovalsFail = FALSE, NEW c \in Crawlers, CrawlerStep(c)
  PROVE  RegistryStep
<1>. DEFINE p == Pkg(job[c])
            v == job[c].version
            x == Built(job[c])
<1>0. Control /\ DiskOK /\ Writing(c) /\ ~RemoveFails(c) BY DEF Inv, RemoveFails
<1>1. CASE UNCHANGED <<file, latest>>
  BY <1>1 DEF RegistryStep, Published, Complete
<1>2. job[c].pc \in WritePcs =>
        /\ p \in Packages /\ v \in Versions /\ x \in Contents
        /\ job[c].pc \in RemovePcs => v = Synthetic
        /\ Progress(job[c], p, v)
  BY <1>0, WriteFacts
<1>3. /\ "tgz" \in FileKinds /\ "tgzsha" \in FileKinds /\ "sha" \in FileKinds
      /\ "sha" \in CorpusKinds /\ CorpusKinds \subseteq FileKinds
  BY DEF FileKinds, CorpusKinds
<1>4. ASSUME job[c].pc \in RemovePcs, NEW k \in FileKinds, UNCHANGED latest,
             file' = [file EXCEPT ![<<p, Synthetic, k>>] = None]
      PROVE  RegistryStep
  <2>1. job[c].pc \in WritePcs BY <1>4 DEF RemovePcs, WritePcs
  <2>2. p \in Packages BY <1>2, <2>1
  <2>. HIDE DEF p
  <2>3. Wrote(p, Synthetic, k, None)
    BY <1>0, <1>4, <2>2, VersionFacts, FileUpdate
  <2>. QED BY <1>4, <2>2, <2>3, VersionFacts, RemovalRetracts
<1>5. CASE RemoveDir(c)
  <2>1. job[c].pc \in RemovePcs BY <1>5 DEF RemoveDir, At, RemovePcs
  <2>2. ASSUME NEW k \in CorpusKinds, file' = [file EXCEPT ![<<p, Synthetic, k>>] = None]
        PROVE  RegistryStep
    BY <1>3, <1>4, <1>5, <2>1, <2>2 DEF RemoveDir
  <2>. QED BY <1>1, <1>5, <2>2 DEF RemoveDir
<1>6. CASE RemoveTgz(c) \/ RemoveSum(c)
  <2>1. job[c].pc \in RemovePcs
    BY <1>6 DEF RemoveTgz, RemoveSum, At, RemovePcs
  <2>. QED BY <1>3, <1>4, <1>6, <2>1 DEF RemoveTgz, RemoveSum
<1>7. ASSUME job[c].pc \in {"rename", "createSum", "writeSum"},
             NEW k \in {"tgz", "tgzsha"}, NEW y \in Contents \cup {None, Torn},
             UNCHANGED latest, file' = [file EXCEPT ![<<p, v, k>>] = y]
      PROVE  RegistryStep
  <2>1. job[c].pc \in WritePcs BY <1>7 DEF WritePcs
  <2>2. p \in Packages /\ v \in Versions BY <1>2, <2>1
  <2>3. file[<<p, v, "sha">>] = None
    BY <1>2, <1>3, <1>7, <2>1 DEF Progress, NoCorpus
  <2>4. k \in FileKinds /\ "sha" \in FileKinds \ {k} BY <1>3, <1>7
  <2>. HIDE DEF p, v
  <2>5. Wrote(p, v, k, y) BY <1>0, <1>7, <2>2, <2>4, FileUpdate
  <2>. QED BY <1>7, <2>2, <2>3, <2>4, <2>5, StillIncomplete
<1>8. CASE PutRename(c)
  <2>1. job[c].pc = "rename" BY <1>8 DEF PutRename, At
  <2>2. x \in Contents BY <1>2, <2>1 DEF WritePcs
  <2>. QED BY <1>7, <1>8, <2>1, <2>2 DEF PutRename, Target
<1>9. CASE PutCreateSum(c)
  BY <1>7, <1>9 DEF PutCreateSum, Target, At
<1>10. CASE PutWriteSum(c)
  <2>1. job[c].pc = "writeSum" BY <1>10 DEF PutWriteSum, At
  <2>2. x \in Contents BY <1>2, <2>1 DEF WritePcs
  <2>. DEFINE y == IF file[<<p, v, "tgzsha">>] = None THEN None ELSE x
  <2>3. y \in Contents \cup {None, Torn} BY <2>2
  <2>4. file' = [file EXCEPT ![<<p, v, "tgzsha">>] = y] /\ UNCHANGED latest
    BY <1>10 DEF PutWriteSum, Target
  <2>. HIDE DEF y
  <2>. QED BY <1>7, <2>1, <2>3, <2>4
<1>11. ASSUME NEW k \in CorpusKinds, NEW next, WriteCorpusFile(c, k, next)
       PROVE  RegistryStep
  <2>1. job[c].pc \in WritePcs \cap (PutPcs \ {"rename"})
    BY <1>11 DEF WriteCorpusFile, At, WritePcs, PutPcs, CorpusKinds
  <2>2. p \in Packages /\ v \in Versions /\ x \in Contents BY <1>2, <2>1
  <2>3. file[<<p, v, "tgz">>] = x BY <1>2, <2>1 DEF Progress
  <2>4. k \in FileKinds \ {"tgz"} BY DEF CorpusKinds, FileKinds
  <2>5. UNCHANGED latest BY <1>11 DEF WriteCorpusFile
  <2>6. CASE file' = [file EXCEPT ![<<p, v, k>>] = x]
    <3>. HIDE DEF p, v, x
    <3>1. Wrote(p, v, k, x) BY <1>0, <2>2, <2>4, <2>6, FileUpdate
    <3>. QED BY <2>2, <2>3, <2>4, <2>5, <3>1, WritePublishes
  <2>. QED BY <1>1, <1>11, <2>5, <2>6 DEF WriteCorpusFile, Target
<1>12. CASE WriteLatest(c)
  <2>1. job[c].pc = "latest" BY <1>12 DEF WriteLatest, At
  <2>2. p \in Packages /\ v \in Versions /\ x \in Contents /\ Progress(job[c], p, v)
    BY <1>2, <2>1 DEF WritePcs
  <2>3. \A k \in FileKinds : file[<<p, v, k>>] = x
    BY <2>1, <2>2 DEF Progress, PutPcs, FileKinds
  <2>4. PublishedAt(p, v) # None
    BY <1>3, <2>2, <2>3 DEF PublishedAt, Complete
  <2>5. Published[p][v] # None BY <2>2, <2>4, PublishedFacts
  <2>6. latest' = [latest EXCEPT ![p] = v] /\ UNCHANGED file
    BY <1>12 DEF WriteLatest
  <2>7. UNCHANGED Published BY <2>6 DEF Published, Complete
  <2>. QED BY <2>2, <2>5, <2>6, <2>7 DEF RegistryStep, Promise!Next, Promise!Point
<1>13. RemoteStep(c) \/ RemoteFails(c) \/ Fault(c) \/ Start(c) \/ VersionsDone(c)
       \/ HasVersion(c) \/ CheckSyntheticRef(c) \/ PutStat(c) \/ MkdirVersion(c)
       => UNCHANGED <<file, latest>>
  BY DEF RemoteStep, ListTags, HeadCommit, Fetch, FetchRef, RemoteFails, Fault,
     WriteFails, RemoveFails, Crash, Start, VersionsDone, HasVersion,
     CheckSyntheticRef, PutStat, MkdirVersion, disk
<1>. QED
  BY <1>1, <1>5, <1>6, <1>8, <1>9, <1>10, <1>11, <1>12, <1>13
     DEF CrawlerStep, LocalStep, CorpusKinds

(* The file-by-file crawler implements the registry in which versions       *)
(* appear whole and stay.                                                   *)
THEOREM CrawlerImplementsRegistry ==
  ASSUME SingleCrawler, NoTagV000, RemovalsFail = FALSE
  PROVE  Spec => ImplementsRegistry
<1>1. Init => Promise!Init
  <2>. SUFFICES ASSUME Init PROVE Promise!Init OBVIOUS
  <2>1. ASSUME NEW p \in Packages, NEW v \in Versions PROVE ~Complete(p, v)
    <3>1. <<p, v, "tgz">> \in Files /\ "tgz" \in FileKinds BY DEF Files, FileKinds
    <3>2. file[<<p, v, "tgz">>] = None BY <3>1 DEF Init
    <3>. QED BY <3>1, <3>2 DEF Complete
  <2>2. Published = [p \in Packages |-> [v \in Versions |-> None]]
    BY <2>1 DEF Published
  <2>. QED BY <2>2 DEF Init, Promise!Init
<1>2. Inv /\ [Next]_vars => RegistryStep
  <2>. SUFFICES ASSUME Inv, [Next]_vars PROVE RegistryStep OBVIOUS
  <2>1. CASE UNCHANGED <<file, latest>>
    BY <2>1 DEF RegistryStep, Published, Complete
  <2>2. CASE Maintainers BY <2>1, <2>2, MaintainersControl DEF Inv
  <2>3. ASSUME NEW c \in Crawlers, CrawlerStep(c) PROVE RegistryStep
    BY <2>3, RefinementStep
  <2>. QED BY <2>1, <2>2, <2>3 DEF Next, vars
<1>3. Inv /\ [Next]_vars => Inv' BY InvStep
<1>. QED
  BY <1>1, <1>2, <1>3, InitInv, PTL
     DEF Spec, ImplementsRegistry, Promise!Spec, RegistryStep

-----------------------------------------------------------------------------
(***************************************************************************)
(* Releases, with any number of crawlers on the same directories, whatever *)
(* fails, while tags stay where they are.                                  *)
(***************************************************************************)
(* No two repositories supply the same package.                             *)
OneRepoPerPackage ==
  \A r, s \in Repos, k, l \in Commits :
    Accepted(r, k) /\ Accepted(s, l) /\ Manifest[k].pkg = Manifest[l].pkg => r = s

(* Commit k is what the tag v of a repository supplies as package p.        *)
Supplied(p, v, k) ==
  \E r \in Repos : tags[r][v] = k /\ Accepted(r, k) /\ Manifest[k].pkg = p

(* Every file of a release holds what a tag supplies; only the sidecar may  *)
(* be torn.                                                                 *)
FileFromTag(p, v, m) ==
  \/ file[<<p, v, m>>] = None
  \/ file[<<p, v, m>>] = Torn /\ m = "tgzsha"
  \/ \E k \in Commits : Supplied(p, v, k) /\ file[<<p, v, m>>] = Content(k, None)

FromTags ==
  \A p \in Packages, v \in TagVersions \ {Synthetic}, m \in FileKinds : FileFromTag(p, v, m)

(* A crawler that writes a release has the commit of its tag in hand.       *)
InHand(j) ==
  j.pc \in {"stat"} \cup PutPcs /\ j.head = None =>
    tags[Repo(j)][j.version] = j.commit /\ Accepted(Repo(j), j.commit)

ReleaseInv == Control /\ FromTags /\ \A c \in Crawlers : InHand(job[c])

LEMMA SuppliedOnce ==
  ASSUME OneRepoPerPackage, NEW p, NEW v, NEW k \in Commits, NEW l \in Commits,
         Supplied(p, v, k), Supplied(p, v, l)
  PROVE  k = l
BY DEF OneRepoPerPackage, Supplied

(* Tags stay where they are.                                                *)
TagsKept == \A r \in Repos, v \in Versions : tags[r][v] # None => tags'[r][v] = tags[r][v]

LEMMA MaintainersKeepTags ==
  ASSUME Control, Rewrites = FALSE, Maintainers
  PROVE  TagsKept
<1>1. tags \in [Repos -> [Versions -> Commits \cup {None}]] BY DEF Control, TypeOK
<1>2. ASSUME NEW r \in Repos, NEW v \in Versions, NEW k \in Commits, PushTag(r, v, k)
      PROVE  TagsKept
  BY <1>1, <1>2 DEF PushTag, TagsKept
<1>3. ASSUME NEW r \in Repos, NEW k \in Commits, PushHead(r, k) \/ PushBranch(r, k)
      PROVE  TagsKept
  BY <1>3 DEF PushHead, PushBranch, TagsKept
<1>4. ASSUME NEW r \in Repos, NEW v \in Versions, DeleteTag(r, v) PROVE FALSE
  BY <1>4 DEF DeleteTag
<1>. QED BY <1>2, <1>3, <1>4 DEF Maintainers

LEMMA SuppliedStays ==
  ASSUME TagsKept, NEW p, NEW v \in Versions, NEW k \in Commits, Supplied(p, v, k)
  PROVE  Supplied(p, v, k)'
<1>1. k # None BY NoneAssumption
<1>2. PICK r \in Repos : tags[r][v] = k /\ Accepted(r, k) /\ Manifest[k].pkg = p
  BY DEF Supplied
<1>3. tags'[r][v] = k BY <1>1, <1>2 DEF TagsKept
<1>. QED BY <1>2, <1>3 DEF Supplied, Accepted

LEMMA FileStays ==
  ASSUME TagsKept, NEW p, NEW v \in Versions, NEW m, FileFromTag(p, v, m),
         file'[<<p, v, m>>] = file[<<p, v, m>>]
  PROVE  FileFromTag(p, v, m)'
<1>1. CASE file[<<p, v, m>>] = None \/ (file[<<p, v, m>>] = Torn /\ m = "tgzsha")
  BY <1>1 DEF FileFromTag
<1>2. ASSUME NEW k \in Commits, Supplied(p, v, k), file[<<p, v, m>>] = Content(k, None)
      PROVE  FileFromTag(p, v, m)'
  <2>1. Supplied(p, v, k)' BY <1>2, SuppliedStays
  <2>. QED BY <1>2, <2>1 DEF FileFromTag, Content
<1>. QED BY <1>1, <1>2 DEF FileFromTag

(* What a step of crawler c writes belongs to the job in its hands.         *)
WritesOwn(c) ==
  \E m \in FileKinds, x \in Contents \cup {None, Torn} :
    /\ Wrote(Pkg(job[c]), job[c].version, m, x)
    /\ job[c].pc \in WritePcs
    /\ \/ job[c].version = Synthetic /\ x = None
       \/ x \in {None, Torn} /\ m = "tgzsha"
       \/ x = Built(job[c]) /\ job[c].pc \in PutPcs

LEMMA OwnWrite ==
  ASSUME Control, NEW c \in Crawlers, job[c].pc \in WritePcs,
         NEW m \in FileKinds, NEW x \in Contents \cup {None, Torn},
         file' = [file EXCEPT ![<<Pkg(job[c]), job[c].version, m>>] = x],
         \/ job[c].version = Synthetic /\ x = None
         \/ x \in {None, Torn} /\ m = "tgzsha"
         \/ x = Built(job[c]) /\ job[c].pc \in PutPcs
  PROVE  WritesOwn(c)
<1>1. PICK p : p = Pkg(job[c]) OBVIOUS
<1>2. PICK v : v = job[c].version OBVIOUS
<1>3. p \in Packages /\ v \in Versions BY <1>1, <1>2, JobFacts
<1>4. Wrote(p, v, m, x) BY <1>1, <1>2, <1>3, FileUpdate
<1>. QED BY <1>1, <1>2, <1>4 DEF WritesOwn

LEMMA StepWritesOwn ==
  ASSUME Control, NEW c \in Crawlers, CrawlerStep(c)
  PROVE  UNCHANGED file \/ WritesOwn(c)
<1>0. "tgz" \in FileKinds /\ "tgzsha" \in FileKinds BY DEF FileKinds
<1>1. CASE RemoveDir(c)
  <2>1. job[c].pc \in WritePcs /\ job[c].version = Synthetic
    BY <1>1, JobFacts DEF RemoveDir, At, WritePcs, RemovePcs, JobOK
  <2>2. ASSUME NEW m \in CorpusKinds,
               file' = [file EXCEPT ![<<Pkg(job[c]), Synthetic, m>>] = None]
        PROVE  WritesOwn(c)
    <3>1. m \in FileKinds BY DEF CorpusKinds, FileKinds
    <3>. QED BY <2>1, <2>2, <3>1, OwnWrite
  <2>. QED BY <1>1, <2>2 DEF RemoveDir
<1>2. CASE RemoveTgz(c) \/ RemoveSum(c)
  <2>1. job[c].pc \in WritePcs /\ job[c].version = Synthetic
    BY <1>2, JobFacts DEF RemoveTgz, RemoveSum, At, WritePcs, RemovePcs, JobOK
  <2>2. PICK m \in FileKinds :
          file' = [file EXCEPT ![<<Pkg(job[c]), Synthetic, m>>] = None]
    BY <1>0, <1>2 DEF RemoveTgz, RemoveSum
  <2>. QED BY <2>1, <2>2, OwnWrite
<1>3. CASE PutRename(c)
  <2>1. job[c].pc \in WritePcs /\ job[c].pc \in PutPcs
    BY <1>3 DEF PutRename, At, WritePcs, PutPcs
  <2>2. Built(job[c]) \in Contents BY <2>1, JobFacts
  <2>3. file' = [file EXCEPT ![<<Pkg(job[c]), job[c].version, "tgz">>] = Built(job[c])]
    BY <1>3 DEF PutRename, Target
  <2>. QED BY <1>0, <2>1, <2>2, <2>3, OwnWrite
<1>4. CASE PutCreateSum(c)
  <2>1. job[c].pc \in WritePcs BY <1>4 DEF PutCreateSum, At, WritePcs
  <2>2. file' = [file EXCEPT ![<<Pkg(job[c]), job[c].version, "tgzsha">>] = Torn]
    BY <1>4 DEF PutCreateSum, Target
  <2>. QED BY <1>0, <2>1, <2>2, OwnWrite
<1>5. CASE PutWriteSum(c)
  <2>1. job[c].pc \in WritePcs /\ job[c].pc \in PutPcs
    BY <1>5 DEF PutWriteSum, At, WritePcs, PutPcs
  <2>2. PICK x : x = IF file[Target(c, "tgzsha")] = None THEN None ELSE Built(job[c])
    OBVIOUS
  <2>3. x \in Contents \cup {None, Torn} /\ (x = None \/ x = Built(job[c]))
    BY <2>1, <2>2, JobFacts
  <2>4. file' = [file EXCEPT ![<<Pkg(job[c]), job[c].version, "tgzsha">>] = x]
    BY <1>5, <2>2 DEF PutWriteSum, Target
  <2>. QED BY <1>0, <2>1, <2>3, <2>4, OwnWrite
<1>6. ASSUME NEW m \in CorpusKinds, NEW next, WriteCorpusFile(c, m, next)
      PROVE  UNCHANGED file \/ WritesOwn(c)
  <2>1. job[c].pc \in WritePcs /\ job[c].pc \in PutPcs /\ m \in FileKinds
    BY <1>6 DEF WriteCorpusFile, At, WritePcs, PutPcs, CorpusKinds, FileKinds
  <2>2. Built(job[c]) \in Contents BY <2>1, JobFacts
  <2>3. CASE file' = [file EXCEPT ![<<Pkg(job[c]), job[c].version, m>>] = Built(job[c])]
    BY <2>1, <2>2, <2>3, OwnWrite
  <2>. QED BY <1>6, <2>3 DEF WriteCorpusFile, Target
<1>7. RemoteStep(c) \/ RemoteFails(c) \/ Fault(c) \/ Start(c) \/ VersionsDone(c)
      \/ HasVersion(c) \/ CheckSyntheticRef(c) \/ PutStat(c) \/ MkdirVersion(c)
      \/ WriteLatest(c) => UNCHANGED file
  BY DEF RemoteStep, ListTags, HeadCommit, Fetch, FetchRef, RemoteFails, Fault,
     WriteFails, RemoveFails, Crash, Start, VersionsDone, HasVersion,
     CheckSyntheticRef, PutStat, MkdirVersion, WriteLatest, disk
<1>. QED
  BY <1>1, <1>2, <1>3, <1>4, <1>5, <1>6, <1>7 DEF CrawlerStep, LocalStep, CorpusKinds

LEMMA StepLeavesOthers ==
  ASSUME Control, NEW c \in Crawlers, CrawlerStep(c), NEW d \in Crawlers, d # c
  PROVE  job'[d] = job[d]
<1>1. job \in [Crawlers -> Jobs] BY DEF Control, TypeOK
<1>2. UNCHANGED job \/ \E j : job' = [job EXCEPT ![c] = j]
  BY DEF CrawlerStep, RemoteStep, LocalStep, RemoteFails, Fault,
         ListTags, HeadCommit, Fetch, FetchRef, Start, VersionsDone, HasVersion,
         CheckSyntheticRef, RemoveDir, RemoveTgz, RemoveSum, PutStat, PutRename,
         PutCreateSum, PutWriteSum, MkdirVersion, WriteCorpusFile, WriteLatest,
         WriteFails, RemoveFails, Crash, Goto, Return
<1>. QED BY <1>1, <1>2

(* What a crawler writes of a release is what the tag supplies.             *)
LEMMA WriteFromTag ==
  ASSUME Control, FromTags, NEW c \in Crawlers, InHand(job[c]), WritesOwn(c),
         UNCHANGED tags
  PROVE  FromTags'
<1>. SUFFICES ASSUME NEW p \in Packages, NEW v \in TagVersions \ {Synthetic},
                     NEW m \in FileKinds
              PROVE  FileFromTag(p, v, m)'
  BY DEF FromTags
<1>1. v \in Versions /\ TagsKept /\ FileFromTag(p, v, m)
  BY VersionFacts DEF TagsKept, FromTags
<1>2. PICK n \in FileKinds, x \in Contents \cup {None, Torn} :
        /\ Wrote(Pkg(job[c]), job[c].version, n, x)
        /\ job[c].pc \in WritePcs
        /\ \/ job[c].version = Synthetic /\ x = None
           \/ x \in {None, Torn} /\ n = "tgzsha"
           \/ x = Built(job[c]) /\ job[c].pc \in PutPcs
  BY DEF WritesOwn
<1>3. CASE p = Pkg(job[c]) /\ v = job[c].version /\ m = n
  <2>1. file'[<<p, v, m>>] = x BY <1>1, <1>2, <1>3 DEF Wrote
  <2>2. CASE x \in {None, Torn} /\ m = "tgzsha"
    BY <2>1, <2>2 DEF FileFromTag
  <2>3. CASE x = Built(job[c]) /\ job[c].pc \in PutPcs
    <3>1. /\ job[c] \in Jobs /\ JobOK(job[c]) /\ Repo(job[c]) \in Repos
          /\ job[c].commit \in Commits
      BY <1>2, JobFacts DEF JobOK, WritePcs
    <3>2. job[c].head = None BY <1>3, <2>3, <3>1 DEF JobOK
    <3>3. tags[Repo(job[c])][v] = job[c].commit /\ Accepted(Repo(job[c]), job[c].commit)
      BY <1>3, <2>3, <3>2 DEF InHand
    <3>4. Supplied(p, v, job[c].commit)
      BY <1>3, <3>1, <3>3 DEF Supplied, Pkg
    <3>6. PICK k \in Commits : k = job[c].commit BY <3>1
    <3>7. Supplied(p, v, k)' BY <1>1, <3>4, <3>6, SuppliedStays
    <3>8. file'[<<p, v, m>>] = Content(k, None)
      BY <2>1, <2>3, <3>2, <3>6 DEF Built
    <3>. QED BY <3>7, <3>8 DEF FileFromTag, Content
  <2>. QED BY <1>2, <1>3, <2>2, <2>3
<1>4. CASE ~(p = Pkg(job[c]) /\ v = job[c].version /\ m = n)
  <2>1. file'[<<p, v, m>>] = file[<<p, v, m>>] BY <1>1, <1>2, <1>4 DEF Wrote
  <2>. QED BY <1>1, <2>1, FileStays
<1>. QED BY <1>3, <1>4

(* The commit in hand is fetched from the tag, and stays in hand.           *)
LEMMA InHandStep ==
  ASSUME Control, NEW c \in Crawlers, InHand(job[c]), CrawlerStep(c)
  PROVE  InHand(job[c])'
<1>. DEFINE Puts == {"stat"} \cup PutPcs
<1>0. /\ job \in [Crawlers -> Jobs] /\ job[c] \in Jobs /\ JobOK(job[c])
      /\ UNCHANGED tags
  BY JobFacts, CrawlerStepJobs DEF Control, TypeOK, upstream
<1>1. ASSUME job'[c].pc \notin Puts PROVE InHand(job[c])'
  BY <1>1 DEF InHand
<1>2. ASSUME NEW pc, Goto(c, pc), job[c].pc \in Puts \/ job[c].head # None
      PROVE  InHand(job[c])'
  <2>1. job'[c] = [job[c] EXCEPT !.pc = pc] BY <1>0, <1>2 DEF Goto
  <2>2. /\ job'[c].entry = job[c].entry /\ job'[c].version = job[c].version
        /\ job'[c].commit = job[c].commit /\ job'[c].head = job[c].head
    BY <1>0, <2>1 DEF Jobs
  <2>. QED BY <1>0, <1>2, <2>2 DEF InHand, Repo, Accepted
<1>3. ASSUME Return(c), job[c].pc # "idle" PROVE InHand(job[c])'
  <2>1. job'[c].pc \notin WritePcs BY <1>3, ReturnFacts
  <2>2. Puts \subseteq WritePcs BY DEF PutPcs, WritePcs
  <2>. QED BY <1>1, <2>1, <2>2
<1>4. CASE Fetch(c)
  <2>1. CASE Return(c) BY <1>3, <1>4, <2>1 DEF Fetch, At
  <2>2. PICK r : r = Repo(job[c]) OBVIOUS
  <2>3. PICK k : k = tags[r][job[c].version] OBVIOUS
  <2>4. CASE Accepted(r, k) /\ job' = [job EXCEPT ![c].commit = k, ![c].pc = "stat"]
    <3>1. job'[c] = [job[c] EXCEPT !.commit = k, !.pc = "stat"] BY <1>0, <2>4
    <3>2. /\ job'[c].entry = job[c].entry /\ job'[c].version = job[c].version
          /\ job'[c].commit = k
      BY <1>0, <3>1 DEF Jobs
    <3>. QED BY <1>0, <2>2, <2>3, <2>4, <3>2 DEF InHand, Repo, Accepted
  <2>. QED BY <1>4, <2>1, <2>2, <2>3, <2>4 DEF Fetch
<1>5. CASE ListTags(c) \/ HeadCommit(c) \/ FetchRef(c) \/ HasVersion(c)
  <2>1. CASE Return(c) /\ FetchRef(c) BY <1>3, <2>1 DEF FetchRef, At
  <2>2. CASE ListTags(c)
    <3>1. job'[c].pc \in {"head", "next"} BY <1>0, <2>2 DEF ListTags, Jobs
    <3>. QED BY <1>1, <3>1 DEF PutPcs
  <2>3. CASE HeadCommit(c)
    <3>1. job'[c].pc = "fetchRef" BY <1>0, <2>3 DEF HeadCommit, Jobs
    <3>. QED BY <1>1, <3>1 DEF PutPcs
  <2>4. CASE FetchRef(c) /\ ~Return(c)
    <3>1. job'[c].pc = "check" BY <1>0, <2>4 DEF FetchRef, Jobs
    <3>. QED BY <1>1, <3>1 DEF PutPcs
  <2>5. CASE HasVersion(c)
    <3>1. PICK v : \/ job' = [job EXCEPT ![c].todo = @ \ {v}]
                   \/ job' = [job EXCEPT ![c].version = v, ![c].pc = "fetch"]
      BY <2>5 DEF HasVersion
    <3>2. job'[c].pc \in {"next", "fetch"} BY <1>0, <2>5, <3>1 DEF HasVersion, At, Jobs
    <3>. QED BY <1>1, <3>2 DEF PutPcs
  <2>. QED BY <1>5, <2>1, <2>2, <2>3, <2>4, <2>5
<1>6. CASE job' = [job EXCEPT ![c] = NextEntry(@)] \/ job' = [job EXCEPT ![c] = IdleJob]
           \/ job' = [job EXCEPT ![c] = NextEntry(IdleJob)]
  <2>1. NextEntry(job[c]).pc \in {"idle", "tags"} BY JobFacts, NextEntryOK
  <2>2. IdleJob.pc = "idle" /\ NextEntry(IdleJob).pc \in {"idle", "tags"}
    BY IdleJobOK, NextEntryOK DEF IdleJob
  <2>3. job'[c].pc \in {"idle", "tags"} BY <1>0, <1>6, <2>1, <2>2
  <2>. QED BY <1>1, <2>3 DEF PutPcs
<1>7. CASE UNCHANGED job
  BY <1>0, <1>7 DEF InHand, Repo, Accepted
<1>8. CASE CheckSyntheticRef(c) \/ RemoveDir(c) \/ RemoveTgz(c) \/ RemoveSum(c)
           \/ RemoveFails(c)
  <2>0. job[c].pc \in {"check"} \cup RemovePcs
    BY <1>8
       DEF CheckSyntheticRef, RemoveDir, RemoveTgz, RemoveSum, RemoveFails, At, RemovePcs
  <2>1. job[c].head # None /\ job[c].pc # "idle"
    <3>1. job[c].head \in Commits BY <1>0, <2>0 DEF JobOK
    <3>2. job[c].pc # "idle" BY <2>0 DEF RemovePcs
    <3>. QED BY <3>1, <3>2, NoneAssumption
  <2>2. UNCHANGED job \/ Return(c) \/ \E pc : Goto(c, pc)
    BY <1>8 DEF CheckSyntheticRef, RemoveDir, RemoveTgz, RemoveSum, RemoveFails,
                AfterRemoval, Goto, Return
  <2>. QED BY <1>2, <1>3, <1>7, <2>1, <2>2
<1>9. CASE PutStat(c) \/ PutRename(c) \/ PutCreateSum(c) \/ PutWriteSum(c)
           \/ MkdirVersion(c) \/ WriteLatest(c) \/ WriteFails(c)
  <2>1. CASE Return(c)
    BY <1>3, <1>9, <2>1
       DEF PutStat, PutRename, PutCreateSum, PutWriteSum, MkdirVersion, WriteLatest,
           WriteFails, At, WritePcs
  <2>2. ASSUME ~Return(c)
        PROVE  job[c].pc \in Puts /\ \E pc : Goto(c, pc)
    BY <1>9, <2>2
       DEF PutStat, PutRename, PutCreateSum, PutWriteSum, MkdirVersion, WriteLatest,
           WriteFails, At, PutPcs
  <2>. QED BY <1>2, <2>1, <2>2
<1>10. ASSUME NEW m \in CorpusKinds, NEW next, WriteCorpusFile(c, m, next)
       PROVE  InHand(job[c])'
  <2>1. job[c].pc = m /\ m \in Puts /\ m # "idle"
    BY <1>10 DEF WriteCorpusFile, At, CorpusKinds, PutPcs
  <2>. QED BY <1>2, <1>3, <1>10, <2>1 DEF WriteCorpusFile
<1>11. CASE RemoteFails(c)
  BY <1>3, <1>6, <1>11 DEF RemoteFails, At
<1>. QED
  BY <1>4, <1>5, <1>6, <1>8, <1>9, <1>10, <1>11
     DEF CrawlerStep, RemoteStep, LocalStep, Fault, CorpusKinds, Start, VersionsDone, Crash

LEMMA ReleaseInit == Init => ReleaseInv
<1>. SUFFICES ASSUME Init PROVE ReleaseInv OBVIOUS
<1>1. Control BY InitControl
<1>2. \A f \in Files : file[f] = None BY DEF Init
<1>3. FromTags BY <1>2, VersionFacts DEF FromTags, FileFromTag, Files
<1>4. \A c \in Crawlers : InHand(job[c])
  BY DEF Init, InHand, IdleJob, PutPcs
<1>. QED BY <1>1, <1>3, <1>4 DEF ReleaseInv

LEMMA ReleaseStep ==
  ASSUME Rewrites = FALSE, ReleaseInv, [Next]_vars
  PROVE  ReleaseInv'
<1>1. Control /\ Control' BY ControlStep DEF ReleaseInv
<1>2. ASSUME TagsKept, UNCHANGED <<file, job>> PROVE ReleaseInv'
  <2>1. FromTags' BY <1>2, FileStays, VersionFacts DEF ReleaseInv, FromTags
  <2>2. ASSUME NEW c \in Crawlers PROVE InHand(job[c])'
    <3>. SUFFICES ASSUME job[c].pc \in {"stat"} \cup PutPcs, job[c].head = None
                  PROVE  /\ tags'[Repo(job[c])][job[c].version] = job[c].commit
                         /\ Accepted(Repo(job[c]), job[c].commit)
      BY <1>2 DEF InHand, Repo, Accepted
    <3>1. /\ tags[Repo(job[c])][job[c].version] = job[c].commit
          /\ Accepted(Repo(job[c]), job[c].commit)
      BY DEF ReleaseInv, InHand
    <3>2. /\ Repo(job[c]) \in Repos /\ job[c].version \in Versions
          /\ job[c].commit \in Commits
      BY <1>1, JobFacts DEF JobOK, WritePcs, PutPcs
    <3>3. job[c].commit # None BY <3>2, NoneAssumption
    <3>. QED BY <1>2, <3>1, <3>2, <3>3 DEF TagsKept
  <2>. QED BY <1>1, <2>1, <2>2 DEF ReleaseInv
<1>3. CASE Maintainers
  BY <1>1, <1>2, <1>3, MaintainersControl, MaintainersKeepTags
<1>4. CASE UNCHANGED vars BY <1>2, <1>4 DEF vars, TagsKept
<1>5. ASSUME NEW c \in Crawlers, CrawlerStep(c) PROVE ReleaseInv'
  <2>1. UNCHANGED tags BY <1>1, <1>5, CrawlerStepJobs DEF upstream
  <2>2. FromTags'
    <3>1. CASE UNCHANGED file
      <4>1. TagsKept BY <2>1 DEF TagsKept
      <4>. QED BY <3>1, <4>1, FileStays, VersionFacts DEF ReleaseInv, FromTags
    <3>. QED BY <1>1, <1>5, <2>1, <3>1, StepWritesOwn, WriteFromTag DEF ReleaseInv
  <2>3. InHand(job[c])' BY <1>1, <1>5, InHandStep DEF ReleaseInv
  <2>4. ASSUME NEW d \in Crawlers, d # c PROVE InHand(job[d])'
    <3>1. job'[d] = job[d] BY <1>1, <1>5, <2>4, StepLeavesOthers
    <3>. QED BY <2>1, <3>1 DEF ReleaseInv, InHand, Repo, Accepted
  <2>. QED BY <1>1, <2>2, <2>3, <2>4 DEF ReleaseInv
<1>. QED BY <1>3, <1>4, <1>5 DEF Next

(* Several crawlers on the same directories, as when the timer fires during *)
(* a run by hand: while tags stay where they are, every file of a release   *)
(* holds what its tag supplies, whatever fails or is interrupted.           *)
THEOREM ReleasesFollowTags ==
  ASSUME Rewrites = FALSE
  PROVE  Spec => []ReleaseInv
<1>1. ReleaseInv /\ [Next]_vars => ReleaseInv' BY ReleaseStep
<1>. QED BY <1>1, ReleaseInit, PTL DEF Spec

(* So that the files of a release agree, when no two repositories supply    *)
(* the same package.                                                        *)
THEOREM ReleasesAgree ==
  ASSUME Rewrites = FALSE, OneRepoPerPackage
  PROVE  Spec => []ReleaseFilesAgree
<1>1. ReleaseInv => ReleaseFilesAgree
  <2>. SUFFICES ASSUME ReleaseInv, NEW p \in Packages, NEW v \in TagVersions \ {Synthetic},
                       file[<<p, v, "tgz">>] # None, NEW m \in FileKinds
                PROVE  file[<<p, v, m>>] \in {None, Torn, file[<<p, v, "tgz">>]}
    BY DEF ReleaseFilesAgree, AgreeAt
  <2>1. FileFromTag(p, v, "tgz") /\ FileFromTag(p, v, m)
    BY DEF ReleaseInv, FromTags, FileKinds
  <2>2. PICK k \in Commits : Supplied(p, v, k) /\ file[<<p, v, "tgz">>] = Content(k, None)
    BY <2>1 DEF FileFromTag
  <2>3. ASSUME NEW l \in Commits, Supplied(p, v, l), file[<<p, v, m>>] = Content(l, None)
        PROVE  file[<<p, v, m>>] = file[<<p, v, "tgz">>]
    BY <2>2, <2>3, SuppliedOnce
  <2>. QED BY <2>1, <2>3 DEF FileFromTag
<1>. QED BY <1>1, ReleasesFollowTags, PTL

(* Nor is any of them ever replaced by another or removed, although both    *)
(* crawlers may find no tarball and both rename theirs into place.          *)
SyntheticKind ==
  \A p \in Packages :
    LET x == file[<<p, Synthetic, "tgz">>] IN x = None \/ (x \in Contents /\ x.ref # None)

LEMMA SyntheticKindStep ==
  ASSUME Control, NoTagV000, SyntheticKind, NEW c \in Crawlers, CrawlerStep(c)
  PROVE  SyntheticKind'
<1>1. CASE UNCHANGED file BY <1>1 DEF SyntheticKind
<1>2. CASE WritesOwn(c)
  <2>0. "tgz" \in FileKinds /\ "tgz" # "tgzsha" /\ Synthetic \in Versions
    BY VersionFacts DEF FileKinds
  <2>1. PICK n \in FileKinds, x \in Contents \cup {None, Torn} :
          /\ Wrote(Pkg(job[c]), job[c].version, n, x)
          /\ \/ job[c].version = Synthetic /\ x = None
             \/ x \in {None, Torn} /\ n = "tgzsha"
             \/ x = Built(job[c]) /\ job[c].pc \in PutPcs
    BY <1>2 DEF WritesOwn
  <2>. SUFFICES ASSUME NEW p \in Packages, n = "tgz", p = Pkg(job[c]),
                       job[c].version = Synthetic, x # None
                PROVE  x \in Contents /\ x.ref # None
    BY <2>0, <2>1 DEF Wrote, SyntheticKind
  <2>2. x = Built(job[c]) /\ job[c].pc \in PutPcs BY <2>0, <2>1
  <2>3. job[c].head \in Commits /\ Built(job[c]) \in Contents
    BY <2>2, JobFacts DEF JobOK, NoTagV000, Jobs, WritePcs, PutPcs
  <2>. QED BY <2>2, <2>3, NoneAssumption DEF Built, Content
<1>. QED BY <1>1, <1>2, StepWritesOwn

LEMMA TarballKept ==
  ASSUME OneRepoPerPackage, ReleaseInv, ReleaseInv', SyntheticKind,
         NEW c \in Crawlers, CrawlerStep(c), NEW p \in Packages, NEW v \in Versions,
         file[<<p, v, "tgz">>] # None, file[<<p, v, "tgz">>].ref = None
  PROVE  file'[<<p, v, "tgz">>] = file[<<p, v, "tgz">>]
<1>0. "tgz" \in FileKinds /\ "tgz" # "tgzsha" BY DEF FileKinds
<1>1. Control BY DEF ReleaseInv
<1>2. UNCHANGED tags BY <1>1, CrawlerStepJobs DEF upstream
<1>3. v # Synthetic BY DEF SyntheticKind
<1>4. CASE WritesOwn(c)
  <2>1. PICK n \in FileKinds, x \in Contents \cup {None, Torn} :
          /\ Wrote(Pkg(job[c]), job[c].version, n, x)
          /\ job[c].pc \in WritePcs
          /\ \/ job[c].version = Synthetic /\ x = None
             \/ x \in {None, Torn} /\ n = "tgzsha"
             \/ x = Built(job[c]) /\ job[c].pc \in PutPcs
    BY <1>4 DEF WritesOwn
  <2>2. CASE p = Pkg(job[c]) /\ v = job[c].version /\ n = "tgz"
    <3>1. x = Built(job[c]) /\ job[c].pc \in PutPcs BY <1>0, <1>3, <2>1, <2>2
    <3>2. v \in TagVersions \ {Synthetic}
      BY <1>1, <1>3, <2>2, <3>1, JobFacts DEF JobOK
    <3>3. file'[<<p, v, "tgz">>] = x /\ x \in Contents
      <4>1. x \in Contents BY <1>1, <2>1, <3>1, JobFacts
      <4>. QED BY <1>0, <2>1, <2>2, <4>1 DEF Wrote
    <3>4. FileFromTag(p, v, "tgz") /\ FileFromTag(p, v, "tgz")'
      BY <1>0, <3>2 DEF ReleaseInv, FromTags
    <3>5. PICK k \in Commits :
            Supplied(p, v, k) /\ file[<<p, v, "tgz">>] = Content(k, None)
      BY <1>0, <3>4 DEF FileFromTag
    <3>6. PICK l \in Commits :
            Supplied(p, v, l)' /\ file'[<<p, v, "tgz">>] = Content(l, None)
      BY <1>0, <3>3, <3>4, NoneAssumption DEF FileFromTag, Content
    <3>7. Supplied(p, v, l) BY <1>2, <3>6 DEF Supplied, Accepted
    <3>. QED BY <3>5, <3>6, <3>7, SuppliedOnce
  <2>3. CASE ~(p = Pkg(job[c]) /\ v = job[c].version /\ n = "tgz")
    BY <1>0, <2>1, <2>3 DEF Wrote
  <2>. QED BY <2>2, <2>3
<1>. QED BY <1>1, <1>4, StepWritesOwn

THEOREM OverlappingRunsKeepReleases ==
  ASSUME Rewrites = FALSE, OneRepoPerPackage, NoTagV000
  PROVE  Spec => ArtifactImmutable
<1>. DEFINE Step == \A p \in Packages, v \in Versions :
       LET f == <<p, v, "tgz">> IN
       file[f] # None /\ file[f].ref = None => file'[f] = file[f]
<1>1. Init => SyntheticKind
  <2>. SUFFICES ASSUME Init PROVE SyntheticKind OBVIOUS
  <2>1. \A f \in Files : file[f] = None BY DEF Init
  <2>. QED BY <2>1, VersionFacts DEF SyntheticKind, Files, FileKinds
<1>2. ReleaseInv /\ [Next]_vars => ReleaseInv' BY ReleaseStep
<1>3. ReleaseInv /\ SyntheticKind /\ [Next]_vars => SyntheticKind'
  <2>. SUFFICES ASSUME ReleaseInv, SyntheticKind, [Next]_vars PROVE SyntheticKind'
    OBVIOUS
  <2>1. CASE UNCHANGED file BY <2>1 DEF SyntheticKind
  <2>2. CASE Maintainers BY <2>1, <2>2, MaintainersControl DEF ReleaseInv
  <2>3. ASSUME NEW c \in Crawlers, CrawlerStep(c) PROVE SyntheticKind'
    BY <2>3, SyntheticKindStep DEF ReleaseInv
  <2>. QED BY <2>1, <2>2, <2>3 DEF Next, vars
<1>4. ReleaseInv /\ SyntheticKind /\ [Next]_vars => [Step]_vars
  <2>. SUFFICES ASSUME ReleaseInv, SyntheticKind, Next PROVE Step OBVIOUS
  <2>1. ReleaseInv' BY ReleaseStep
  <2>2. CASE Maintainers
    <3>1. UNCHANGED file BY <2>2, MaintainersControl DEF ReleaseInv
    <3>. QED BY <3>1
  <2>3. ASSUME NEW c \in Crawlers, CrawlerStep(c) PROVE Step
    BY <2>1, <2>3, TarballKept
  <2>. QED BY <2>2, <2>3 DEF Next
<1>. QED BY <1>1, <1>2, <1>3, <1>4, ReleaseInit, PTL DEF Spec, ArtifactImmutable

-----------------------------------------------------------------------------
(* A release that the corpus lists has its whole sum next to the artifact.  *)
SumBehindCorpus ==
  \A p \in Packages, v \in Versions \ {Synthetic}, k \in CorpusKinds :
    file[<<p, v, k>>] # None => file[<<p, v, "tgzsha">>] \notin {None, Torn}

LEMMA SumKept ==
  ASSUME SumBehindCorpus, NEW p \in Packages, NEW v \in Versions,
         NEW m \in FileKinds, NEW x, Wrote(p, v, m, x),
         \/ v = Synthetic
         \/ m = "tgz"
         \/ m = "tgzsha" /\ NoCorpus(p, v)
         \/ m \in CorpusKinds /\ file[<<p, v, "tgzsha">>] \in Contents
  PROVE  SumBehindCorpus'
<1>1. "tgzsha" \in FileKinds /\ "tgz" \notin CorpusKinds /\ "tgzsha" \notin CorpusKinds
      /\ CorpusKinds \subseteq FileKinds
  BY DEF FileKinds, CorpusKinds
<1>. SUFFICES ASSUME NEW q \in Packages, NEW w \in Versions \ {Synthetic},
                     NEW k \in CorpusKinds, file'[<<q, w, k>>] # None
              PROVE  file'[<<q, w, "tgzsha">>] \notin {None, Torn}
  BY DEF SumBehindCorpus
<1>2. /\ file'[<<q, w, k>>] = IF q = p /\ w = v /\ k = m THEN x ELSE file[<<q, w, k>>]
      /\ file'[<<q, w, "tgzsha">>] =
           IF q = p /\ w = v /\ "tgzsha" = m THEN x ELSE file[<<q, w, "tgzsha">>]
  BY <1>1 DEF Wrote
<1>3. CASE q = p /\ w = v /\ k = m
  BY <1>1, <1>2, <1>3, NoneAssumption
<1>4. CASE q = p /\ w = v /\ m = "tgzsha"
  BY <1>1, <1>2, <1>4 DEF NoCorpus
<1>5. CASE ~(q = p /\ w = v /\ k = m) /\ ~(q = p /\ w = v /\ m = "tgzsha")
  BY <1>2, <1>5 DEF SumBehindCorpus
<1>. QED BY <1>3, <1>4, <1>5

LEMMA SumStep ==
  ASSUME Inv, NoTagV000, SumBehindCorpus, NEW c \in Crawlers, CrawlerStep(c)
  PROVE  SumBehindCorpus'
<1>. DEFINE q == Pkg(job[c])
            w == job[c].version
<1>1. Control /\ DiskOK /\ Writing(c) BY DEF Inv
<1>2. "tgz" \in FileKinds /\ "tgzsha" \in FileKinds /\ CorpusKinds \subseteq FileKinds
  BY DEF FileKinds, CorpusKinds
<1>3. ASSUME job[c].pc \in WritePcs
      PROVE  /\ q \in Packages /\ w \in Versions /\ Built(job[c]) \in Contents
             /\ Progress(job[c], q, w)
             /\ job[c].pc \in RemovePcs => w = Synthetic
  BY <1>1, <1>3, WriteFacts
<1>4. ASSUME job[c].pc \in WritePcs, NEW m \in FileKinds,
             NEW x \in Contents \cup {None, Torn},
             file' = [file EXCEPT ![<<q, w, m>>] = x],
             \/ w = Synthetic
             \/ m = "tgz"
             \/ m = "tgzsha" /\ NoCorpus(q, w)
             \/ m \in CorpusKinds /\ file[<<q, w, "tgzsha">>] \in Contents
      PROVE  SumBehindCorpus'
  <2>1. q \in Packages /\ w \in Versions BY <1>3, <1>4
  <2>. HIDE DEF q, w
  <2>2. Wrote(q, w, m, x) BY <1>1, <1>4, <2>1, FileUpdate
  <2>. QED BY <1>4, <2>1, <2>2, SumKept
<1>5. CASE UNCHANGED file BY <1>5 DEF SumBehindCorpus
<1>6. CASE RemoveDir(c)
  <2>1. job[c].pc \in WritePcs /\ job[c].pc \in RemovePcs
    BY <1>6 DEF RemoveDir, At, WritePcs, RemovePcs
  <2>2. ASSUME NEW k \in CorpusKinds, file' = [file EXCEPT ![<<q, Synthetic, k>>] = None]
        PROVE  SumBehindCorpus'
    BY <1>2, <1>3, <1>4, <2>1, <2>2
  <2>. QED BY <1>5, <1>6, <2>2 DEF RemoveDir
<1>7. CASE RemoveTgz(c) \/ RemoveSum(c)
  <2>1. job[c].pc \in WritePcs /\ job[c].pc \in RemovePcs
    BY <1>7 DEF RemoveTgz, RemoveSum, At, WritePcs, RemovePcs
  <2>2. PICK m \in FileKinds : file' = [file EXCEPT ![<<q, Synthetic, m>>] = None]
    BY <1>2, <1>7 DEF RemoveTgz, RemoveSum
  <2>. QED BY <1>3, <1>4, <2>1, <2>2
<1>8. CASE PutRename(c)
  <2>1. job[c].pc \in WritePcs BY <1>8 DEF PutRename, At, WritePcs
  <2>. QED BY <1>2, <1>3, <1>4, <1>8, <2>1 DEF PutRename, Target
<1>9. CASE PutCreateSum(c)
  <2>1. job[c].pc \in WritePcs /\ job[c].pc = "createSum"
    BY <1>9 DEF PutCreateSum, At, WritePcs
  <2>2. NoCorpus(q, w) BY <1>3, <2>1 DEF Progress
  <2>. QED BY <1>2, <1>4, <1>9, <2>1, <2>2 DEF PutCreateSum, Target
<1>10. CASE PutWriteSum(c)
  <2>1. job[c].pc \in WritePcs /\ job[c].pc = "writeSum"
    BY <1>10 DEF PutWriteSum, At, WritePcs
  <2>2. NoCorpus(q, w) BY <1>3, <2>1 DEF Progress
  <2>3. PICK x : x = IF file[<<q, w, "tgzsha">>] = None THEN None ELSE Built(job[c])
    OBVIOUS
  <2>4. x \in Contents \cup {None, Torn} BY <1>3, <2>1, <2>3
  <2>5. file' = [file EXCEPT ![<<q, w, "tgzsha">>] = x]
    BY <1>10, <2>3 DEF PutWriteSum, Target
  <2>. QED BY <1>2, <1>4, <2>1, <2>2, <2>4, <2>5
<1>11. ASSUME NEW k \in CorpusKinds, NEW next, WriteCorpusFile(c, k, next)
       PROVE  SumBehindCorpus'
  <2>1. job[c].pc \in WritePcs /\ job[c].pc \in {"manifest", "index", "sha"}
    BY <1>11 DEF WriteCorpusFile, At, WritePcs, CorpusKinds
  <2>2. file[<<q, w, "tgzsha">>] = Built(job[c]) /\ Built(job[c]) \in Contents
    BY <1>3, <2>1 DEF Progress
  <2>3. CASE file' = [file EXCEPT ![<<q, w, k>>] = Built(job[c])]
    BY <1>2, <1>4, <2>1, <2>2, <2>3
  <2>. QED BY <1>5, <1>11, <2>3 DEF WriteCorpusFile, Target
<1>12. RemoteStep(c) \/ RemoteFails(c) \/ Fault(c) \/ Start(c) \/ VersionsDone(c)
       \/ HasVersion(c) \/ CheckSyntheticRef(c) \/ PutStat(c) \/ MkdirVersion(c)
       \/ WriteLatest(c) => UNCHANGED file
  BY DEF RemoteStep, ListTags, HeadCommit, Fetch, FetchRef, RemoteFails, Fault,
     WriteFails, RemoveFails, Crash, Start, VersionsDone, HasVersion,
     CheckSyntheticRef, PutStat, MkdirVersion, WriteLatest, disk
<1>. QED
  BY <1>5, <1>6, <1>7, <1>8, <1>9, <1>10, <1>11, <1>12
     DEF CrawlerStep, LocalStep, CorpusKinds

(* One crawler: what the corpus lists of a release can be verified, since   *)
(* WriteVersion comes after the sidecar is whole and no release is put      *)
(* twice.                                                                   *)
THEOREM ListedHasSum ==
  ASSUME SingleCrawler, NoTagV000, RemovalsFail = FALSE
  PROVE  Spec => []SumBehindCorpus
<1>1. Init => SumBehindCorpus
  <2>. SUFFICES ASSUME Init PROVE SumBehindCorpus OBVIOUS
  <2>1. \A f \in Files : file[f] = None BY DEF Init
  <2>. QED BY <2>1 DEF SumBehindCorpus, Files, CorpusKinds, FileKinds
<1>2. Inv /\ SumBehindCorpus /\ [Next]_vars => SumBehindCorpus'
  <2>. SUFFICES ASSUME Inv, SumBehindCorpus, [Next]_vars PROVE SumBehindCorpus'
    OBVIOUS
  <2>1. CASE UNCHANGED file BY <2>1 DEF SumBehindCorpus
  <2>2. CASE Maintainers BY <2>1, <2>2, MaintainersControl DEF Inv
  <2>3. ASSUME NEW c \in Crawlers, CrawlerStep(c) PROVE SumBehindCorpus'
    BY <2>3, SumStep
  <2>. QED BY <2>1, <2>2, <2>3 DEF Next, vars
<1>3. Inv /\ [Next]_vars => Inv' BY InvStep
<1>. QED BY <1>1, <1>2, <1>3, InitInv, PTL DEF Spec

=============================================================================
