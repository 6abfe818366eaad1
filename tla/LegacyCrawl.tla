---------------------------- MODULE LegacyCrawl ----------------------------
(***************************************************************************)
(* The crawl of bare slugs that the crawler runs before the versioned one  *)
(* (internal/crawl/crawl.go, internal/corpus/writer.go), and the pages and *)
(* lists that apid reads out of its files (internal/api: tools, install,   *)
(* categories and search).                                                 *)
(*                                                                         *)
(* Each run clones the branch of every entry of tools.yaml and writes the  *)
(* page of its tool again, then the index, the summary and, through marrow,*)
(* the search index.  Nothing is ever removed, and os.WriteFile truncates  *)
(* a file before it fills it.  A commit stands for what it holds.          *)
(*                                                                         *)
(* Slugs are bare names: the page of a tool that has a unique @owner/slug  *)
(* in the versioned corpus is a redirect there, and left out.              *)
(***************************************************************************)
EXTENDS Integers, Sequences, FiniteSets

CONSTANTS
  Repos,
  Registry,   \* tools.yaml, a sequence of repositories
  Commits,    \* the commits of the branches, numbered in order
  Of,         \* the repository of each commit
  Slugs,      \* names of manifests
  Manifest,   \* what a commit holds: name, and whether the crawl accepts it
  Visitors,   \* clients of the API
  MaxFaults,  \* bound on crashes and failed writes
  None, Torn

Manifests == [name : Slugs, valid : BOOLEAN]

ASSUME RegistryAssumption == Registry \in Seq(Repos)
ASSUME CommitsAssumption ==
  /\ Commits \subseteq Nat
  /\ Of \in [Commits -> Repos]
  /\ \A r \in Repos : \E k \in Commits : Of[k] = r
ASSUME ManifestAssumption == Manifest \in [Commits -> Manifests]
ASSUME FaultsAssumption == MaxFaults \in Nat
ASSUME AbsenceAssumption ==
  /\ None # Torn /\ {None, Torn} \cap Commits = {}
  /\ None \notin Slugs \cup {200, 404}

VARIABLES
  branch,  \* the commit that the branch of each repository is at
  disk,    \* disk[f]: the content of each file of the corpus
  marrow,  \* what marrow has indexed: the index.md files of its last sync
  job,     \* the run of the crawler
  visit,   \* the requests of each visitor: a list, and a page out of it
  faults

vars == <<branch, disk, marrow, job, visit, faults>>

Page(s, file) == <<s, file>>
Index == <<None, "_index.json">>
Summary == <<None, "_crawl.json">>
Pages == Slugs \X {"manifest.json", "index.md"}
Files == Pages \cup {Index, Summary}

Name(k) == Manifest[k].name
Found(f) == disk[f] \notin {None, Torn}

Idle == [pc |-> "idle", pos |-> 1, commit |-> None, file |-> None,
         entries |-> {}, failed |-> {}]
Nobody == [pc |-> "idle", hits |-> {}, seen |-> None, manifest |-> None, status |-> None]

Init ==
  /\ branch \in {b \in [Repos -> Commits] : \A r \in Repos : Of[b[r]] = r}
  /\ disk = [f \in Files |-> None]
  /\ marrow = {}
  /\ job = Idle
  /\ visit = [v \in Visitors |-> Nobody]
  /\ faults = 0

PushBranch(r, k) ==
  /\ Of[k] = r /\ k > branch[r]
  /\ branch' = [branch EXCEPT ![r] = k]
  /\ UNCHANGED <<disk, marrow, job, visit, faults>>

(***************************************************************************)
(* Run.                                                                    *)
(***************************************************************************)
Start ==
  /\ job.pc = "idle"
  /\ job' = [Idle EXCEPT !.pc = "entry"]
  /\ UNCHANGED <<branch, disk, marrow, visit, faults>>

Entry == Registry[job.pos]

(* The entry is left out of the index, and the crawl goes on.               *)
Skipped(j) ==
  [j EXCEPT !.pc = "entry", !.pos = @ + 1, !.commit = None, !.file = None,
            !.failed = @ \cup {Registry[j.pos]}]

(* Mutant of Failed: a bad entry ends the run.                              *)
FailedAborts(j) == Idle

(* Mutant of Failed: a tool whose files could not be written is listed.     *)
FailedListed(j) ==
  IF j.file \in {Index, Summary} \/ j.pc = "sync" THEN Idle
  ELSE [Skipped(j) EXCEPT !.entries = @ \cup ({j.commit} \ {None})]

(* What an error makes of the run: an entry that fails is skipped, a failed *)
(* write of the index or the summary ends the crawler before its versioned  *)
(* pass, and a failed sync is only logged.                                  *)
Failed(j) ==
  IF j.file \in {Index, Summary} \/ j.pc = "sync" THEN Idle ELSE Skipped(j)

(* processOne: a clone of the branch, whose manifest must parse and         *)
(* validate and whose README must be there.                                 *)
Process(r) ==
  /\ job.pc = "entry" /\ job.pos <= Len(Registry) /\ Entry = r
  /\ LET k == branch[r]
     IN  job' = IF Manifest[k].valid
                THEN [job EXCEPT !.pc = "open", !.commit = k,
                                 !.file = Page(Name(k), "manifest.json")]
                ELSE Failed(job)
  /\ UNCHANGED <<branch, disk, marrow, visit, faults>>

FetchFails ==
  /\ job.pc = "entry" /\ job.pos <= Len(Registry)
  /\ job' = Failed(job)
  /\ UNCHANGED <<branch, disk, marrow, visit, faults>>

EntriesDone ==
  /\ job.pc = "entry" /\ job.pos > Len(Registry)
  /\ job' = [job EXCEPT !.pc = "open", !.file = Index]
  /\ UNCHANGED <<branch, disk, marrow, visit, faults>>

(* os.WriteFile: open with O_TRUNC ...                                      *)
Open ==
  /\ job.pc = "open"
  /\ disk' = [disk EXCEPT ![job.file] = Torn]
  /\ job' = [job EXCEPT !.pc = "fill"]
  /\ UNCHANGED <<branch, marrow, visit, faults>>

Written(j) ==
  CASE j.file = Index   -> j.entries
    [] j.file = Summary -> j.failed
    [] OTHER            -> j.commit

(* Mutant of Done: the index describes the branch as it is by now.          *)
DoneReread(j) ==
  [j EXCEPT !.pc = "entry", !.pos = @ + 1, !.commit = None, !.file = None,
            !.entries = @ \cup {branch[Registry[j.pos]]}]

(* The entry goes into the index.                                           *)
Done(j) ==
  [j EXCEPT !.pc = "entry", !.pos = @ + 1, !.commit = None, !.file = None,
            !.entries = @ \cup {j.commit}]

(* WriteTool writes two files of each tool; WriteIndex and                  *)
(* WriteCrawlSummary write their files behind all of them.                  *)
After(j) ==
  CASE j.file = Index   -> [j EXCEPT !.pc = "open", !.file = Summary]
    [] j.file = Summary -> [j EXCEPT !.pc = "sync", !.file = None]
    [] OTHER            ->
         IF j.file[2] = "manifest.json"
         THEN [j EXCEPT !.pc = "open", !.file = Page(j.file[1], "index.md")]
         ELSE Done(j)

(* ... and the content.                                                     *)
Fill ==
  /\ job.pc = "fill"
  /\ disk' = [disk EXCEPT ![job.file] = Written(job)]
  /\ job' = After(job)
  /\ UNCHANGED <<branch, marrow, visit, faults>>

WriteFails ==
  /\ job.pc \in {"open", "fill"}
  /\ faults < MaxFaults
  /\ faults' = faults + 1
  /\ job' = Failed(job)
  /\ UNCHANGED <<branch, disk, marrow, visit>>

(* marrow sync indexes the index.md of every directory.                     *)
MarrowSync ==
  /\ job.pc = "sync"
  /\ marrow' = {s \in Slugs : Found(Page(s, "index.md"))}
  /\ job' = Idle
  /\ UNCHANGED <<branch, disk, visit, faults>>

MarrowFails ==
  /\ job.pc = "sync"
  /\ job' = Failed(job)
  /\ UNCHANGED <<branch, disk, marrow, visit, faults>>

Crash ==
  /\ job.pc # "idle"
  /\ faults < MaxFaults
  /\ faults' = faults + 1
  /\ job' = Idle
  /\ UNCHANGED <<branch, disk, marrow, visit>>

Crawl ==
  \/ EntriesDone \/ Open \/ Fill
  \/ \E r \in Repos : Process(r)

-----------------------------------------------------------------------------
(***************************************************************************)
(* The API.                                                                *)
(***************************************************************************)
Answer(v, w) ==
  /\ visit' = [visit EXCEPT ![v] = w]
  /\ UNCHANGED <<branch, disk, marrow, job, faults>>

(* handleSearch: marrow ranks ...                                           *)
Search(v) ==
  /\ visit[v].pc = "idle"
  /\ Answer(v, [Nobody EXCEPT !.pc = "hits", !.hits = marrow])

(* handleBrowse and handleCategories have no ranking.                       *)
Browse(v) ==
  /\ visit[v].pc = "idle"
  /\ Answer(v, [Nobody EXCEPT !.pc = "hits", !.hits = Slugs])

(* ... and what the index does not have is passed over.  Kinds, categories, *)
(* harnesses and platforms choose among the rest.                           *)
Listed(v) == {k \in disk[Index] : Name(k) \in visit[v].hits}

(* ReadIndex answers 503 when the file is missing or does not decode.  Out  *)
(* of a list, the visitor asks for the page of a tool.                      *)
ReadIndex(v) ==
  /\ visit[v].pc = "hits"
  /\ IF Found(Index) /\ Listed(v) # {}
     THEN \E k \in Listed(v) : Answer(v, [Nobody EXCEPT !.pc = "manifest", !.seen = k])
     ELSE Answer(v, Nobody)

Slug(v) == Name(visit[v].seen)

(* handleTool and handleInstall, ReadTool: a missing manifest.json is a     *)
(* 404, an empty one does not decode (500) ...                              *)
ReadManifest(v) ==
  /\ visit[v].pc = "manifest"
  /\ LET got == disk[Page(Slug(v), "manifest.json")]
     IN  CASE got = None -> Answer(v, [visit[v] EXCEPT !.pc = "done", !.status = 404])
           [] got = Torn -> Answer(v, Nobody)
           [] OTHER      -> Answer(v, [visit[v] EXCEPT !.pc = "readme", !.manifest = got])

(* ... while an empty index.md is a page without a text.                    *)
ReadReadme(v) ==
  /\ visit[v].pc = "readme"
  /\ LET missing == disk[Page(Slug(v), "index.md")] = None
     IN  Answer(v, [visit[v] EXCEPT !.pc = "done", !.status = IF missing THEN 404 ELSE 200])

Leave(v) ==
  /\ visit[v].pc = "done"
  /\ Answer(v, Nobody)

Visit(v) ==
  \/ Search(v) \/ Browse(v) \/ ReadIndex(v)
  \/ ReadManifest(v) \/ ReadReadme(v) \/ Leave(v)

-----------------------------------------------------------------------------
Next ==
  \/ \E r \in Repos, k \in Commits : PushBranch(r, k)
  \/ Start \/ Crawl \/ FetchFails \/ WriteFails \/ MarrowSync \/ MarrowFails \/ Crash
  \/ \E v \in Visitors : Visit(v)

Spec == Init /\ [][Next]_vars

(* The timer starts the crawler again and again (docs/crawler.md:92), no    *)
(* repository refuses to be cloned for ever, and marrow does not fail for   *)
(* ever.                                                                    *)
FairSpec ==
  /\ Spec
  /\ WF_vars(Start) /\ WF_vars(Crawl)
  /\ SF_vars(MarrowSync)
  /\ \A r \in Repos : SF_vars(Process(r))

-----------------------------------------------------------------------------
(***************************************************************************)
(* Properties.                                                             *)
(***************************************************************************)
Bodies == Commits \cup (SUBSET Commits) \cup (SUBSET Repos) \cup {None, Torn}
Jobs ==
  [pc : {"idle", "entry", "open", "fill", "sync"}, pos : 1 .. Len(Registry) + 1,
   commit : Commits \cup {None}, file : Files \cup {None},
   entries : SUBSET Commits, failed : SUBSET Repos]
Visits ==
  [pc : {"idle", "hits", "manifest", "readme", "done"}, hits : SUBSET Slugs,
   seen : Commits \cup {None}, manifest : Commits \cup {None}, status : {None, 200, 404}]

TypeOK ==
  /\ branch \in [Repos -> Commits]
  /\ disk \in [Files -> Bodies]
  /\ \A f \in Pages : disk[f] \in Commits \cup {None, Torn}
  /\ disk[Index] \in (SUBSET Commits) \cup {None, Torn}
  /\ disk[Summary] \in (SUBSET Repos) \cup {None, Torn}
  /\ marrow \subseteq Slugs
  /\ job \in Jobs
  /\ visit \in [Visitors -> Visits]
  /\ faults \in 0 .. MaxFaults

(* What a list or a search showed has a page: whatever the crawler rewrites *)
(* or fails at afterwards, and wherever it is interrupted, the page of the  *)
(* tool is not missing (handleTool answers 404 only to what was never       *)
(* there).                                                                  *)
ListedIsFound == \A v \in Visitors : visit[v].status # 404

(* A page is never older than the list it was found in: the index follows   *)
(* the files that it names.                                                 *)
PageNotOlderThanList ==
  \A v \in Visitors :
    LET w == visit[v]
    IN  w.status = 200 /\ Of[w.manifest] = Of[w.seen] => w.manifest >= w.seen

(* One bad manifest cannot poison the index (docs/architecture.md:52): an   *)
(* entry whose branch stays at a good commit, with a name of its own, is    *)
(* listed, has its page and is found by a search again and again, whatever  *)
(* the others hold and however often they fail.                             *)
Shown(k) ==
  /\ Found(Index) /\ k \in disk[Index]
  /\ \A f \in {"manifest.json", "index.md"} : disk[Page(Name(k), f)] = k
  /\ Name(k) \in marrow
OnlyOne(k) == \A r \in Repos \ {Of[k]} : Name(branch[r]) # Name(k)
GoodToolsAreShown ==
  \A k \in {k \in Commits : Manifest[k].valid} :
    <>[](branch[Of[k]] = k /\ OnlyOne(k)) => []<>Shown(k)

=============================================================================
