------------------------------- MODULE Crawler -------------------------------
(***************************************************************************)
(* The versioned pass of cmd/crawler (internal/crawl/versioned.go) over    *)
(* the artifact store (internal/artifacts/store.go) and the versioned      *)
(* corpus (internal/corpus/versioned.go).                                  *)
(*                                                                         *)
(* A package is one directory corpus/<owner>/<slug> and its twin under     *)
(* artifacts/.  A version is a number: 0 is v0.0.0, the others are the     *)
(* semver tags in ascending order.  A commit stands for the bytes it       *)
(* holds, so that the snapshot built from it (artifacts.Build is           *)
(* deterministic) and the SHA-256 of that snapshot are both the value      *)
(* Content(commit, synthetic_ref).                                         *)
(*                                                                         *)
(* Every file operation is a step of its own: another crawler, a reader or *)
(* a crash may come between any two of them.                               *)
(***************************************************************************)
EXTENDS Naturals, Sequences

CONSTANTS
  Repos,          \* repositories named by registry/tools.yaml
  Packages,       \* <owner>/<slug> directories
  Owners,         \* owners of packages
  Commits,        \* commits of the repositories, numbered in history order
  MaxVersion,     \* versions are 0 .. MaxVersion
  TagVersions,    \* versions that maintainers may tag
  Crawlers,       \* processes running cmd/crawler on the same directories
  Registry,       \* the entries of tools.yaml, a sequence of repositories
  HintOf,         \* OwnerSlugFromRepo: the package named by the repository URL
  OwnerOf,        \* the owner of each package
  Manifest,       \* what inguma.yaml at a commit says
  TracksHead,     \* whether entry.Ref is the repository's default branch
  Rewrites,       \* whether maintainers move or delete tags and force-push
  MaxFaults,      \* bound on crashes and failed file operations
  RemovalsFail,   \* whether a removal may fail (the code ignores it)
  None,           \* an absent file, tag, commit or version
  Torn            \* a file created by os.WriteFile and not yet written

Versions == 0 .. MaxVersion
Synthetic == 0

FileKinds == {"manifest", "index", "sha", "tgz", "tgzsha"}
CorpusKinds == {"manifest", "index", "sha"}

Contents == [commit : Commits, ref : Commits \cup {None}]
Content(k, h) == [commit |-> k, ref |-> h]

ManifestInfo == [pkg : Packages, valid : BOOLEAN, readme : BOOLEAN]

ASSUME CommitsAssumption == Commits \subseteq Nat /\ Commits # {}
ASSUME VersionsAssumption == MaxVersion \in Nat /\ TagVersions \subseteq Versions
ASSUME RegistryAssumption == Registry \in Seq(Repos) /\ Registry # << >>
ASSUME RepoAssumption ==
  /\ HintOf \in [Repos -> Packages]
  /\ OwnerOf \in [Packages -> Owners]
  /\ TracksHead \in [Repos -> BOOLEAN]
  /\ Rewrites \in BOOLEAN
ASSUME ManifestAssumption == Manifest \in [Commits -> ManifestInfo]
ASSUME FaultsAssumption == MaxFaults \in Nat /\ RemovalsFail \in BOOLEAN
ASSUME NoneAssumption ==
  /\ None \notin Commits /\ None \notin Versions
  /\ None \notin Contents /\ Torn \notin Contents /\ None # Torn

VARIABLES
  tags,     \* upstream: tags[r][v] is the commit tag v of r points to
  head,     \* upstream: the commit HEAD of r points to
  branch,   \* upstream: the commit entry.Ref of r points to
  dirs,     \* corpus version directories that exist
  file,     \* file[<<p, v, kind>>] is the content of that file
  latest,   \* latest[p] is the version latest.json names
  job,      \* the control state of each crawler process
  faults    \* crashes and failed writes so far

upstream == <<tags, head, branch>>
disk == <<dirs, file, latest>>
vars == <<tags, head, branch, dirs, file, latest, job, faults>>

Files == Packages \X Versions \X FileKinds

(***************************************************************************)
(* The control state of processVersionedEntry and what it calls.  todo is  *)
(* the rest of the loop over the listed versions, head the HEAD commit     *)
(* read for a synthetic ingest (None while real tags are ingested), commit *)
(* the commit of the clone in hand.                                        *)
(***************************************************************************)
WritePcs == {"removeDir", "removeTgz", "removeSum", "stat", "rename",
             "createSum", "writeSum", "mkdir", "manifest", "index", "sha",
             "latest"}
Pcs == {"idle", "tags", "next", "fetch", "head", "fetchRef", "check"} \cup WritePcs

Jobs == [pc : Pcs, entry : Nat, todo : SUBSET Versions,
         version : Versions \cup {None},
         head : Commits \cup {None}, commit : Commits \cup {None}]

IdleJob == [pc |-> "idle", entry |-> 0, todo |-> {}, version |-> None,
            head |-> None, commit |-> None]

Repo(j) == Registry[j.entry]
Pkg(j) == Manifest[j.commit].pkg
Built(j) == Content(j.commit, j.head)

(* ParseFile, ValidateWithOwner and resolveSlug succeed on commit k of r.   *)
Accepted(r, k) == /\ Manifest[k].valid
                  /\ OwnerOf[Manifest[k].pkg] = OwnerOf[HintOf[r]]

(* Mutant of NextEntry: a run ends with its first entry.                    *)
NextEntryNone(j) ==
  IF j.entry = 0 THEN [IdleJob EXCEPT !.pc = "tags", !.entry = 1] ELSE IdleJob

(* RunVersioned takes the next entry, after processVersionedEntry returned. *)
NextEntry(j) ==
  IF j.entry < Len(Registry)
  THEN [IdleJob EXCEPT !.pc = "tags", !.entry = j.entry + 1]
  ELSE IdleJob

(* ingestVersion or ingestSynthetic returned, with or without an error.     *)
Returned(j) ==
  IF j.head = None
  THEN [j EXCEPT !.pc = "next", !.todo = @ \ {j.version},
                 !.version = None, !.commit = None]
  ELSE NextEntry(j)

At(c, pc) == job[c].pc = pc
Goto(c, pc) == job' = [job EXCEPT ![c].pc = pc]
Return(c) == job' = [job EXCEPT ![c] = Returned(@)]

-----------------------------------------------------------------------------
Init ==
  /\ tags \in [Repos -> [Versions -> {None}]]
  /\ head \in [Repos -> Commits]
  /\ branch \in [Repos -> Commits]
  /\ \A r \in Repos : TracksHead[r] => branch[r] = head[r]
  /\ dirs = {}
  /\ file = [f \in Files |-> None]
  /\ latest = [p \in Packages |-> None]
  /\ job = [c \in Crawlers |-> IdleJob]
  /\ faults = 0

(***************************************************************************)
(* Maintainers.                                                            *)
(***************************************************************************)

(* A tag is pushed, or, when history may be rewritten, moved.               *)
PushTag(r, v, k) ==
  /\ v \in TagVersions
  /\ tags[r][v] = None \/ Rewrites
  /\ tags[r][v] # k
  /\ tags' = [tags EXCEPT ![r][v] = k]
  /\ UNCHANGED <<head, branch, dirs, file, latest, job, faults>>

DeleteTag(r, v) ==
  /\ Rewrites
  /\ tags[r][v] # None
  /\ tags' = [tags EXCEPT ![r][v] = None]
  /\ UNCHANGED <<head, branch, dirs, file, latest, job, faults>>

(* A commit is pushed to the default branch, or to another entry.Ref.       *)
PushHead(r, k) ==
  /\ k > head[r] \/ (Rewrites /\ k # head[r])
  /\ head' = [head EXCEPT ![r] = k]
  /\ branch' = IF TracksHead[r] THEN [branch EXCEPT ![r] = k] ELSE branch
  /\ UNCHANGED <<tags, dirs, file, latest, job, faults>>

PushBranch(r, k) ==
  /\ ~TracksHead[r]
  /\ k > branch[r] \/ (Rewrites /\ k # branch[r])
  /\ branch' = [branch EXCEPT ![r] = k]
  /\ UNCHANGED <<tags, head, dirs, file, latest, job, faults>>

Maintainers ==
  \E r \in Repos :
    \/ \E v \in Versions, k \in Commits : PushTag(r, v, k)
    \/ \E v \in Versions : DeleteTag(r, v)
    \/ \E k \in Commits : PushHead(r, k) \/ PushBranch(r, k)

(***************************************************************************)
(* RunVersioned and processVersionedEntry.                                 *)
(***************************************************************************)
Start(c) ==
  /\ At(c, "idle")
  /\ job' = [job EXCEPT ![c] = NextEntry(IdleJob)]
  /\ UNCHANGED <<upstream, disk, faults>>

(* ListTags and ScanTags; without versions the repository is synthetic.     *)
ListTags(c) ==
  /\ At(c, "tags")
  /\ LET found == {v \in Versions : tags[Repo(job[c])][v] # None}
     IN  job' = [job EXCEPT ![c].todo = found,
                            ![c].pc = IF found = {} THEN "head" ELSE "next"]
  /\ UNCHANGED <<upstream, disk, faults>>

HeadCommit(c) ==
  /\ At(c, "head")
  /\ job' = [job EXCEPT ![c].head = head[Repo(job[c])],
                         ![c].version = Synthetic, ![c].pc = "fetchRef"]
  /\ UNCHANGED <<upstream, disk, faults>>

(* The loop is over: the next entry.                                        *)
VersionsDone(c) ==
  /\ At(c, "next")
  /\ job[c].todo = {}
  /\ job' = [job EXCEPT ![c] = NextEntry(@)]
  /\ UNCHANGED <<upstream, disk, faults>>

(* The next version in ascending order.  HasVersion looks for manifest.json *)
(* under the slug of the URL, whatever slug the manifest will name.         *)
HasVersion(c) ==
  /\ At(c, "next")
  /\ \E v \in job[c].todo :
       /\ \A w \in job[c].todo : v <= w
       /\ IF file[<<HintOf[Repo(job[c])], v, "manifest">>] # None
          THEN job' = [job EXCEPT ![c].todo = @ \ {v}]
          ELSE job' = [job EXCEPT ![c].version = v, ![c].pc = "fetch"]
  /\ UNCHANGED <<upstream, disk, faults>>

(* ls-remote or clone fails: the entry or the version is recorded Failed.   *)
RemoteFails(c) ==
  /\ \/ /\ job[c].pc \in {"tags", "head", "fetchRef"}
        /\ job' = [job EXCEPT ![c] = NextEntry(@)]
     \/ At(c, "fetch") /\ Return(c)
  /\ UNCHANGED <<upstream, disk, faults>>

(* Mutant of Fetch: the branch is cloned in place of the tag.               *)
FetchBranch(c) ==
  /\ At(c, "fetch")
  /\ job' = [job EXCEPT ![c].commit = branch[Repo(job[c])], ![c].pc = "stat"]
  /\ UNCHANGED <<upstream, disk, faults>>

(***************************************************************************)
(* ingestVersion, up to Put: clone the tag as it is now, parse, validate,  *)
(* read the README of the clone, build the snapshot.  A tag deleted since  *)
(* it was listed cannot be cloned.                                         *)
(***************************************************************************)
Fetch(c) ==
  /\ At(c, "fetch")
  /\ LET r == Repo(job[c])
         k == tags[r][job[c].version]
     IN  IF k # None /\ Accepted(r, k) /\ Manifest[k].readme
         THEN job' = [job EXCEPT ![c].commit = k, ![c].pc = "stat"]
         ELSE Return(c)
  /\ UNCHANGED <<upstream, disk, faults>>

(***************************************************************************)
(* ingestSynthetic, up to Put: clone entry.Ref, compare the synthetic_ref  *)
(* on disk with the HEAD read before, remove the previous entry, and only  *)
(* then read the README.                                                   *)
(***************************************************************************)
FetchRef(c) ==
  /\ At(c, "fetchRef")
  /\ LET r == Repo(job[c])
     IN  IF Accepted(r, branch[r])
         THEN job' = [job EXCEPT ![c].commit = branch[r], ![c].pc = "check"]
         ELSE Return(c)
  /\ UNCHANGED <<upstream, disk, faults>>

(* Mutants of CheckSyntheticRef: the corpus directory is left in place; any *)
(* synthetic entry is up to date.                                           *)
CheckKeepsDir(c) ==
  /\ At(c, "check")
  /\ LET existing == file[<<Pkg(job[c]), Synthetic, "manifest">>]
     IN  IF existing # None /\ existing.ref = job[c].head
         THEN Return(c)
         ELSE Goto(c, "removeTgz")
  /\ UNCHANGED <<upstream, disk, faults>>
CheckAnyPresent(c) ==
  /\ At(c, "check")
  /\ IF file[<<Pkg(job[c]), Synthetic, "manifest">>] # None
     THEN Return(c) ELSE Goto(c, "removeDir")
  /\ UNCHANGED <<upstream, disk, faults>>

CheckSyntheticRef(c) ==
  /\ At(c, "check")
  /\ LET existing == file[<<Pkg(job[c]), Synthetic, "manifest">>]
     IN  IF existing # None /\ existing.ref = job[c].head
         THEN Return(c)
         ELSE Goto(c, "removeDir")
  /\ UNCHANGED <<upstream, disk, faults>>

(* os.RemoveAll deletes the files of the directory one by one, in directory *)
(* order, and then the directory.                                           *)
RemoveDir(c) ==
  /\ At(c, "removeDir")
  /\ LET p == Pkg(job[c])
         left == {k \in CorpusKinds : file[<<p, Synthetic, k>>] # None}
     IN  \/ /\ \E k \in left :
                 file' = [file EXCEPT ![<<p, Synthetic, k>>] = None]
            /\ UNCHANGED <<dirs, job>>
         \/ /\ left = {}
            /\ dirs' = dirs \ {<<p, Synthetic>>}
            /\ Goto(c, "removeTgz")
            /\ UNCHANGED file
  /\ UNCHANGED <<upstream, latest, faults>>

RemoveTgz(c) ==
  /\ At(c, "removeTgz")
  /\ file' = [file EXCEPT ![<<Pkg(job[c]), Synthetic, "tgz">>] = None]
  /\ Goto(c, "removeSum")
  /\ UNCHANGED <<upstream, dirs, latest, faults>>

AfterRemoval(j) ==
  IF Manifest[j.commit].readme THEN [j EXCEPT !.pc = "stat"] ELSE Returned(j)

RemoveSum(c) ==
  /\ At(c, "removeSum")
  /\ file' = [file EXCEPT ![<<Pkg(job[c]), Synthetic, "tgzsha">>] = None]
  /\ job' = [job EXCEPT ![c] = AfterRemoval(@)]
  /\ UNCHANGED <<upstream, dirs, latest, faults>>

(***************************************************************************)
(* fsStore.Put.                                                            *)
(***************************************************************************)
Target(c, kind) == <<Pkg(job[c]), job[c].version, kind>>

(* Mutant of PutStat: an existing artifact is overwritten.                  *)
PutAlways(c) ==
  At(c, "stat") /\ Goto(c, "rename") /\ UNCHANGED <<upstream, disk, faults>>

(* os.Stat: an artifact that exists is immutable, and Put fails.            *)
PutStat(c) ==
  /\ At(c, "stat")
  /\ IF file[Target(c, "tgz")] # None THEN Return(c) ELSE Goto(c, "rename")
  /\ UNCHANGED <<upstream, disk, faults>>

PutRename(c) ==
  /\ At(c, "rename")
  /\ file' = [file EXCEPT ![Target(c, "tgz")] = Built(job[c])]
  /\ Goto(c, "createSum")
  /\ UNCHANGED <<upstream, dirs, latest, faults>>

(* os.WriteFile truncates or creates the sidecar, then fills it, unless it  *)
(* has been unlinked in between.                                            *)
PutCreateSum(c) ==
  /\ At(c, "createSum")
  /\ file' = [file EXCEPT ![Target(c, "tgzsha")] = Torn]
  /\ Goto(c, "writeSum")
  /\ UNCHANGED <<upstream, dirs, latest, faults>>

PutWriteSum(c) ==
  /\ At(c, "writeSum")
  /\ file' = [file EXCEPT ![Target(c, "tgzsha")] =
                IF @ = None THEN None ELSE Built(job[c])]
  /\ Goto(c, "mkdir")
  /\ UNCHANGED <<upstream, dirs, latest, faults>>

(***************************************************************************)
(* corpus.WriteVersion: manifest.json, index.md, artifact.sha256, and then *)
(* latest.json, whatever version it named.                                 *)
(***************************************************************************)
(* Mutant of MkdirVersion: latest.json is written before the version.       *)
MkdirThenLatest(c) ==
  /\ At(c, "mkdir")
  /\ dirs' = dirs \cup {<<Pkg(job[c]), job[c].version>>}
  /\ latest' = [latest EXCEPT ![Pkg(job[c])] = job[c].version]
  /\ Goto(c, "manifest")
  /\ UNCHANGED <<upstream, file, faults>>

MkdirVersion(c) ==
  /\ At(c, "mkdir")
  /\ dirs' = dirs \cup {<<Pkg(job[c]), job[c].version>>}
  /\ Goto(c, "manifest")
  /\ UNCHANGED <<upstream, file, latest, faults>>

(* atomicWrite of one file; it fails when the directory is gone.            *)
WriteCorpusFile(c, kind, next) ==
  /\ At(c, kind)
  /\ IF <<Pkg(job[c]), job[c].version>> \in dirs
     THEN /\ file' = [file EXCEPT ![Target(c, kind)] = Built(job[c])]
          /\ Goto(c, next)
     ELSE Return(c) /\ UNCHANGED file
  /\ UNCHANGED <<upstream, dirs, latest, faults>>

WriteLatest(c) ==
  /\ At(c, "latest")
  /\ latest' = [latest EXCEPT ![Pkg(job[c])] = job[c].version]
  /\ Return(c)
  /\ UNCHANGED <<upstream, dirs, file, faults>>

(***************************************************************************)
(* Faults.  A failed write makes Put or WriteVersion return an error; a    *)
(* failed removal is ignored; a crash loses the control state.             *)
(***************************************************************************)
WriteFails(c) ==
  /\ job[c].pc \in WritePcs \ {"removeDir", "removeTgz", "removeSum", "stat"}
  /\ faults < MaxFaults
  /\ faults' = faults + 1
  /\ Return(c)
  /\ UNCHANGED <<upstream, disk>>

RemoveFails(c) ==
  /\ RemovalsFail
  /\ faults < MaxFaults
  /\ faults' = faults + 1
  /\ \/ At(c, "removeDir") /\ Goto(c, "removeTgz")
     \/ At(c, "removeTgz") /\ Goto(c, "removeSum")
     \/ At(c, "removeSum") /\ job' = [job EXCEPT ![c] = AfterRemoval(@)]
  /\ UNCHANGED <<upstream, disk>>

Crash(c) ==
  /\ job[c].pc # "idle"
  /\ faults < MaxFaults
  /\ faults' = faults + 1
  /\ job' = [job EXCEPT ![c] = IdleJob]
  /\ UNCHANGED <<upstream, disk>>

-----------------------------------------------------------------------------
RemoteStep(c) == ListTags(c) \/ HeadCommit(c) \/ Fetch(c) \/ FetchRef(c)

LocalStep(c) ==
  \/ Start(c) \/ VersionsDone(c) \/ HasVersion(c)
  \/ CheckSyntheticRef(c) \/ RemoveDir(c) \/ RemoveTgz(c) \/ RemoveSum(c)
  \/ PutStat(c) \/ PutRename(c) \/ PutCreateSum(c) \/ PutWriteSum(c)
  \/ MkdirVersion(c)
  \/ WriteCorpusFile(c, "manifest", "index")
  \/ WriteCorpusFile(c, "index", "sha")
  \/ WriteCorpusFile(c, "sha", "latest")
  \/ WriteLatest(c)

Fault(c) == WriteFails(c) \/ RemoveFails(c) \/ Crash(c)

CrawlerStep(c) == RemoteStep(c) \/ LocalStep(c) \/ RemoteFails(c) \/ Fault(c)

Next == Maintainers \/ \E c \in Crawlers : CrawlerStep(c)

Spec == Init /\ [][Next]_vars

(* The timer starts a run every hour and a run is never suspended; a remote *)
(* operation that is tried again and again does not fail every time.        *)
Fairness ==
  \A c \in Crawlers :
    /\ WF_vars(LocalStep(c))
    /\ \A r \in Repos :
         /\ SF_vars(At(c, "tags") /\ Repo(job[c]) = r /\ ListTags(c))
         /\ SF_vars(At(c, "head") /\ Repo(job[c]) = r /\ HeadCommit(c))
         /\ SF_vars(At(c, "fetchRef") /\ Repo(job[c]) = r /\ FetchRef(c))
         /\ \A v \in TagVersions :
              SF_vars(/\ At(c, "fetch") /\ Repo(job[c]) = r
                      /\ job[c].version = v /\ Fetch(c))

FairSpec == Spec /\ Fairness

-----------------------------------------------------------------------------
(***************************************************************************)
(* Properties.                                                             *)
(***************************************************************************)
TypeOK ==
  /\ tags \in [Repos -> [Versions -> Commits \cup {None}]]
  /\ head \in [Repos -> Commits]
  /\ branch \in [Repos -> Commits]
  /\ dirs \subseteq Packages \X Versions
  /\ file \in [Files -> Contents \cup {None, Torn}]
  /\ latest \in [Packages -> Versions \cup {None}]
  /\ job \in [Crawlers -> Jobs]
  /\ \A c \in Crawlers : job[c].entry \in 0 .. Len(Registry)
  /\ faults \in 0 .. MaxFaults

(* All five files of a version are on disk and whole.                       *)
Complete(p, v) == \A k \in FileKinds : file[<<p, v, k>>] \notin {None, Torn}

(* The corpus never lists a version whose artifact is not in the store: Put *)
(* comes before WriteVersion, and a synthetic version loses its corpus      *)
(* files before its tarball.                                                *)
CorpusBackedByArtifact ==
  \A p \in Packages, v \in Versions, k \in CorpusKinds :
    file[<<p, v, k>>] # None => file[<<p, v, "tgz">>] # None

(* Whatever files of a version are on disk, they come from one commit: the  *)
(* manifest, the page, the recorded SHA-256 and the sidecar describe the    *)
(* tarball next to them, across failed ingests, crashes and re-ingests of a *)
(* synthetic version.                                                       *)
AgreeAt(p, v) ==
  file[<<p, v, "tgz">>] # None =>
    \A k \in FileKinds : file[<<p, v, k>>] \in {None, Torn, file[<<p, v, "tgz">>]}

FilesAgree == \A p \in Packages, v \in Versions : AgreeAt(p, v)

(* The same for tagged versions alone, when crawlers overlap: both may pass *)
(* the os.Stat of Put, and both rename the same deterministic tarball.      *)
ReleaseFilesAgree ==
  \A p \in Packages, v \in TagVersions \ {Synthetic} : AgreeAt(p, v)

(* latest.json never names a released version that cannot be served: it is  *)
(* the last file WriteVersion writes.                                       *)
LatestIsComplete ==
  \A p \in Packages :
    latest[p] \notin {None, Synthetic} => Complete(p, latest[p])

(* The tarball of a tagged version is never replaced or removed, although   *)
(* tags move, ingests fail and the crawler restarts (architecture.md:124).  *)
ArtifactImmutable ==
  [][\A p \in Packages, v \in Versions :
       LET f == <<p, v, "tgz">> IN
       file[f] # None /\ file[f].ref = None => file'[f] = file[f]]_vars

(* Readers see versions appear whole and stay, as ImmutableRegistry says.   *)
Published ==
  [p \in Packages |-> [v \in Versions |->
     IF Complete(p, v) THEN file[<<p, v, "tgz">>] ELSE None]]

Promise == INSTANCE ImmutableRegistry WITH published <- Published, pointer <- latest

ImplementsRegistry == Promise!Spec

(***************************************************************************)
(* The inductive invariant of one crawler process: what each control point *)
(* knows of the files of the version it is writing, and what holds of all  *)
(* the others.                                                             *)
(***************************************************************************)
PutPcs == {"rename", "createSum", "writeSum", "mkdir", "manifest", "index",
           "sha", "latest"}
RemovePcs == {"removeDir", "removeTgz", "removeSum"}

JobOK(j) ==
  /\ j.pc # "idle" => j.entry \in 1 .. Len(Registry)
  /\ j.todo \subseteq TagVersions
  /\ j.pc \in {"idle", "tags", "next", "head", "fetch"} => j.head = None
  /\ j.pc = "fetch" => j.version \in TagVersions
  /\ j.pc \in {"fetchRef", "check"} \cup RemovePcs =>
       j.version = Synthetic /\ j.head \in Commits
  /\ j.pc \in {"stat"} \cup PutPcs =>
       IF j.head = None THEN j.version \in TagVersions ELSE j.version = Synthetic
  /\ j.pc \in {"check"} \cup WritePcs => j.commit \in Commits

NoCorpus(p, v) == \A k \in CorpusKinds : file[<<p, v, k>>] = None

(* What the crawler has done so far to version v of p, which it writes.     *)
Progress(j, p, v) ==
  /\ j.pc \in {"removeTgz", "removeSum"} => NoCorpus(p, v)
  /\ j.pc = "removeSum" => file[<<p, v, "tgz">>] = None
  /\ j.pc = "rename" \/ (j.pc = "stat" /\ v = Synthetic) =>
       \A k \in FileKinds : file[<<p, v, k>>] = None
  /\ j.pc \in {"createSum", "writeSum", "mkdir", "manifest"} => NoCorpus(p, v)
  /\ j.pc \in PutPcs \ {"rename"} => file[<<p, v, "tgz">>] = Built(j)
  /\ j.pc = "writeSum" => file[<<p, v, "tgzsha">>] = Torn
  /\ j.pc \in {"mkdir", "manifest", "index", "sha", "latest"} =>
       file[<<p, v, "tgzsha">>] = Built(j)
  /\ j.pc \in {"manifest", "index", "sha"} => <<p, v>> \in dirs
  /\ j.pc \in {"index", "sha", "latest"} => file[<<p, v, "manifest">>] = Built(j)
  /\ j.pc \in {"sha", "latest"} => file[<<p, v, "index">>] = Built(j)
  /\ j.pc = "latest" => file[<<p, v, "sha">>] = Built(j)

(* Released and synthetic content never share a version.                    *)
ContentOfItsKind ==
  \A p \in Packages, v \in Versions, k \in FileKinds :
    LET x == file[<<p, v, k>>] IN
    /\ x = Torn => k = "tgzsha"
    /\ x \in Contents => (x.ref = None <=> v # Synthetic)

SumFollowsArtifact ==
  \A p \in Packages, v \in Versions \ {Synthetic} :
    file[<<p, v, "tgz">>] = None => file[<<p, v, "tgzsha">>] = None

IndInv ==
  /\ TypeOK
  /\ \A r \in Repos, v \in Versions : tags[r][v] # None => v \in TagVersions
  /\ \A c \in Crawlers : JobOK(job[c])
  /\ \A c \in Crawlers :
       job[c].pc \in WritePcs => Progress(job[c], Pkg(job[c]), job[c].version)
  /\ ContentOfItsKind
  /\ SumFollowsArtifact
  /\ CorpusBackedByArtifact
  /\ FilesAgree
  /\ LatestIsComplete

(* A tag that points for ever to a valid commit is ingested in the end.     *)
EveryTagIngested ==
  \A r \in Repos, v \in TagVersions, k \in Commits :
    Accepted(r, k) /\ Manifest[k].readme =>
      (<>[](tags[r][v] = k) => <>Complete(Manifest[k].pkg, v))

(* A tag that stays is in the corpus in the end: the crawler ingests every  *)
(* tag that is not already present (versioned.go:45-46).                    *)
EveryTagReachesCorpus ==
  \A r \in Repos, v \in TagVersions, k \in Commits :
    Accepted(r, k) /\ Manifest[k].readme =>
      (<>[](tags[r][v] = k) => <>(file[<<Manifest[k].pkg, v, "manifest">>] # None))

(* The synthetic version settles on the commit HEAD settles on, when        *)
(* entry.Ref is the default branch and no tag appears.                      *)
SyntheticConverges ==
  \A r \in Repos, k \in Commits :
    TracksHead[r] /\ Accepted(r, k) /\ Manifest[k].readme =>
      (<>[](head[r] = k /\ \A v \in Versions : tags[r][v] = None)
        => <>[](/\ Complete(Manifest[k].pkg, Synthetic)
                /\ file[<<Manifest[k].pkg, Synthetic, "tgz">>] = Content(k, k)))

=============================================================================
