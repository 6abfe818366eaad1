-------------------------- MODULE LegacyCrawlProofs --------------------------
(***************************************************************************)
(* Proofs about LegacyCrawl, for any registry, manifests, visitors and     *)
(* faults.                                                                 *)
(***************************************************************************)
EXTENDS LegacyCrawl, TLAPS

PageOf(k) == Page(Name(k), "manifest.json")
TextOf(k) == Page(Name(k), "index.md")

(* A commit that a list may show: its page is there, and neither the page   *)
(* nor the one that the crawler is about to write is of an older commit of  *)
(* its repository.                                                          *)
Showable(k) ==
  /\ k <= branch[Of[k]]
  /\ disk[PageOf(k)] # None /\ disk[TextOf(k)] # None
  /\ disk[PageOf(k)] \in Commits /\ Of[disk[PageOf(k)]] = Of[k] => disk[PageOf(k)] >= k
  /\ job.commit \in Commits /\ Of[job.commit] = Of[k] => job.commit >= k

(* What the program counter of the crawler knows.                           *)
Writing == job.pc \in {"open", "fill"}
JobOK ==
  /\ Writing => job.file \in Files
  /\ Writing /\ job.file \in Pages =>
       /\ job.pos <= Len(Registry) /\ job.commit \in Commits
       /\ job.file[1] = Name(job.commit)
       /\ job.file[2] = "index.md" => disk[PageOf(job.commit)] = job.commit
  /\ job.pc = "entry" => job.file = None /\ job.commit = None
  /\ job.commit \in Commits => job.commit <= branch[Of[job.commit]]
  /\ \A k \in job.entries : Showable(k)

(* What a visitor has been told.                                            *)
VisitOK(w) ==
  /\ w.pc \in {"manifest", "readme", "done"} => w.seen \in Commits /\ Showable(w.seen)
  /\ w.pc = "readme" \/ w.status = 200 =>
       /\ w.manifest \in Commits
       /\ Of[w.manifest] = Of[w.seen] => w.manifest >= w.seen
  /\ w.pc # "done" => w.status = None
  /\ w.status # 404

(* The inductive invariant: whatever is listed, or will be, is showable.    *)
ListInv ==
  /\ TypeOK
  /\ \A r \in Repos : Of[branch[r]] = r
  /\ JobOK
  /\ Found(Index) => \A k \in disk[Index] : Showable(k)
  /\ \A v \in Visitors : VisitOK(visit[v])

-----------------------------------------------------------------------------
LEMMA FileFacts ==
  /\ Index \notin Pages /\ Summary \notin Pages /\ Index # Summary
  /\ Index \in Files /\ Summary \in Files /\ Pages \subseteq Files
  /\ None \notin Commits /\ Torn \notin Commits /\ None # Torn
  /\ \A k \in Commits : /\ k \in Nat /\ Of[k] \in Repos /\ Name(k) \in Slugs
                        /\ PageOf(k) \in Pages /\ TextOf(k) \in Pages
                        /\ PageOf(k) # TextOf(k)
  /\ \A f \in Pages : /\ f[1] \in Slugs /\ f[2] \in {"manifest.json", "index.md"}
                      /\ f = Page(f[1], f[2])
<1>1. \A k \in Commits : k \in Nat /\ Of[k] \in Repos /\ Name(k) \in Slugs
  BY CommitsAssumption, ManifestAssumption DEF Name, Manifests
<1>2. None \notin Slugs /\ None \notin Commits /\ Torn \notin Commits /\ None # Torn
  BY AbsenceAssumption
<1>3. Index \notin Pages /\ Summary \notin Pages
  BY <1>2 DEF Index, Summary, Pages
<1>4. Index # Summary
  BY DEF Index, Summary
<1>5. \A k \in Commits : /\ PageOf(k) \in Pages /\ TextOf(k) \in Pages
                         /\ PageOf(k) # TextOf(k)
  BY <1>1 DEF PageOf, TextOf, Page, Pages
<1>6. \A f \in Pages : /\ f[1] \in Slugs /\ f[2] \in {"manifest.json", "index.md"}
                       /\ f = Page(f[1], f[2])
  BY DEF Page, Pages
<1> QED
  BY <1>1, <1>2, <1>3, <1>4, <1>5, <1>6 DEF Files

LEMMA RegistryFacts ==
  /\ Len(Registry) \in Nat
  /\ \A i \in 1 .. Len(Registry) : Registry[i] \in Repos
BY RegistryAssumption

(* A commit stays showable while branches go forward, and while pages are   *)
(* truncated or get the commit in hand.                                     *)
LEMMA ShowableKept ==
  ASSUME TypeOK, TypeOK', NEW k \in Commits, Showable(k),
         \A r \in Repos : branch'[r] >= branch[r],
         \A f \in Pages : \/ disk'[f] = disk[f] \/ disk'[f] = Torn
                          \/ disk'[f] = job.commit /\ job.commit \in Commits,
         job'.commit \in {job.commit, None}
  PROVE  Showable(k)'
<1>1. /\ k \in Nat /\ Of[k] \in Repos /\ PageOf(k) \in Pages /\ TextOf(k) \in Pages
      /\ None \notin Commits /\ Torn \notin Commits /\ None # Torn
  BY FileFacts
<1>2. branch[Of[k]] \in Nat /\ branch'[Of[k]] \in Nat
  BY <1>1, CommitsAssumption DEF TypeOK
<1>3. k <= branch'[Of[k]]
  BY <1>1, <1>2 DEF Showable
<1>4. disk'[PageOf(k)] # None /\ disk'[TextOf(k)] # None
  BY <1>1 DEF Showable
<1>5. disk'[PageOf(k)] \in Commits /\ Of[disk'[PageOf(k)]] = Of[k] => disk'[PageOf(k)] >= k
  BY <1>1 DEF Showable
<1>6. job'.commit \in Commits /\ Of[job'.commit] = Of[k] => job'.commit >= k
  BY <1>1 DEF Showable
<1> QED
  BY <1>3, <1>4, <1>5, <1>6 DEF Showable, PageOf, TextOf

(* The commit that the crawler clones is newer than what was listed.        *)
LEMMA ShowableWhenCloned ==
  ASSUME TypeOK, NEW k \in Commits, Showable(k), NEW r \in Repos,
         \A q \in Repos : Of[branch[q]] = q,
         branch' = branch, disk' = disk, job'.commit = branch[r]
  PROVE  Showable(k)'
BY FileFacts DEF Showable, PageOf, TextOf, TypeOK

(* Visitors keep what they know.                                            *)
LEMMA VisitsKept ==
  ASSUME ListInv, visit' = visit, \A k \in Commits : Showable(k) => Showable(k)'
  PROVE  \A v \in Visitors : VisitOK(visit[v])'
BY DEF ListInv, VisitOK

-----------------------------------------------------------------------------
(* Type correctness.                                                        *)
LEMMA SkippedType ==
  ASSUME NEW j \in Jobs, j.pos <= Len(Registry), NEW q, q = Skipped(j)
  PROVE  /\ q \in Jobs /\ q.pc = "entry" /\ q.file = None /\ q.commit = None
         /\ q.entries = j.entries
<1>1. j.pos \in 1 .. Len(Registry) /\ Len(Registry) \in Nat /\ Registry[j.pos] \in Repos
  BY RegistryFacts DEF Jobs
<1>2. PICK n \in 1 .. Len(Registry) + 1 : n = j.pos + 1
  BY <1>1
<1>3. PICK e \in SUBSET Repos : e = j.failed \cup {Registry[j.pos]}
  BY <1>1 DEF Jobs
<1>4. q = [j EXCEPT !.pc = "entry", !.pos = n, !.commit = None, !.file = None, !.failed = e]
  BY <1>2, <1>3 DEF Skipped
<1> QED
  BY <1>4 DEF Jobs

LEMMA IdleType ==
  /\ Idle \in Jobs /\ Idle.pc = "idle" /\ Idle.commit = None /\ Idle.file = None
  /\ Idle.entries = {}
BY RegistryFacts DEF Idle, Jobs

(* An error ends the run or moves on to the next entry.                     *)
LEMMA FailedType ==
  ASSUME NEW j \in Jobs, NEW q, q = Failed(j),
         j.file \notin {Index, Summary} /\ j.pc # "sync" => j.pos <= Len(Registry)
  PROVE  /\ q \in Jobs /\ q.commit = None /\ q.file = None
         /\ q.pc \in {"idle", "entry"} /\ q.entries \subseteq j.entries
BY SkippedType, IdleType DEF Failed

LEMMA DoneType ==
  ASSUME NEW j \in Jobs, j.pos <= Len(Registry), j.commit \in Commits, NEW q, q = Done(j)
  PROVE  /\ q \in Jobs /\ q.pc = "entry" /\ q.file = None /\ q.commit = None
         /\ q.entries = j.entries \cup {j.commit}
<1>1. j.pos \in 1 .. Len(Registry) /\ Len(Registry) \in Nat
  BY RegistryFacts DEF Jobs
<1>2. PICK n \in 1 .. Len(Registry) + 1 : n = j.pos + 1
  BY <1>1
<1>3. PICK e \in SUBSET Commits : e = j.entries \cup {j.commit}
  BY <1>1 DEF Jobs
<1>4. q = [j EXCEPT !.pc = "entry", !.pos = n, !.commit = None, !.file = None, !.entries = e]
  BY <1>2, <1>3 DEF Done
<1> QED
  BY <1>3, <1>4 DEF Jobs

-----------------------------------------------------------------------------
(* Every step keeps the inductive invariant.                                *)
LEMMA PushBranchKeeps ==
  ASSUME ListInv, NEW r \in Repos, NEW k \in Commits, PushBranch(r, k)
  PROVE  ListInv'
<1>1. /\ branch' = [branch EXCEPT ![r] = k] /\ Of[k] = r /\ k > branch[r]
      /\ disk' = disk /\ marrow' = marrow /\ job' = job /\ visit' = visit
      /\ faults' = faults
  BY DEF PushBranch
<1>2. TypeOK'
  BY <1>1 DEF ListInv, TypeOK, Found
<1>3. \A q \in Repos : branch'[q] >= branch[q] /\ branch'[q] \in Nat /\ branch[q] \in Nat
  BY <1>1, FileFacts DEF ListInv, TypeOK
<1>4. \A q \in Repos : Of[branch'[q]] = q
  BY <1>1 DEF ListInv, TypeOK
<1>5. \A c \in Commits : Showable(c) => Showable(c)'
  BY <1>1, <1>2, <1>3, ShowableKept DEF ListInv
<1>6. job.commit \in Commits => job.commit <= branch'[Of[job.commit]]
  BY <1>3, FileFacts DEF ListInv, JobOK
<1>7. JobOK'
  BY <1>1, <1>5, <1>6 DEF ListInv, JobOK, Writing, TypeOK, Jobs
<1>8. Found(Index)' => \A c \in disk'[Index] : Showable(c)'
  BY <1>1, <1>5 DEF ListInv, Found, TypeOK
<1>9. \A v \in Visitors : VisitOK(visit[v])'
  BY <1>1, <1>5, VisitsKept
<1> QED
  BY <1>2, <1>4, <1>7, <1>8, <1>9 DEF ListInv

(* A job between two entries, at rest, or about to write the index.         *)
Resting(j) ==
  /\ j \in Jobs /\ j.commit = None
  /\ \/ j.pc \in {"idle", "entry"} /\ j.file = None
     \/ j.pc = "open" /\ j.file = Index

(* A step of the crawler that leaves the files alone, and has no commit in  *)
(* hand afterwards but the one it had.                                      *)
LEMMA CrawlerMoves ==
  ASSUME ListInv, branch' = branch, disk' = disk, visit' = visit,
         marrow' \subseteq Slugs, faults' \in 0 .. MaxFaults,
         Resting(job'), job'.entries \subseteq job.entries
  PROVE  ListInv'
<1>1. TypeOK'
  BY DEF ListInv, TypeOK, Resting
<1>2. \A c \in Commits : Showable(c) => Showable(c)'
  <2>1. \A r \in Repos : branch'[r] >= branch[r]
    BY FileFacts DEF ListInv, TypeOK
  <2> QED
    BY <1>1, <2>1, ShowableKept DEF ListInv, Resting
<1>3. JobOK'
  BY <1>2, FileFacts DEF ListInv, JobOK, Writing, TypeOK, Jobs, Resting
<1>4. Found(Index)' => \A c \in disk'[Index] : Showable(c)'
  BY <1>2 DEF ListInv, Found, TypeOK
<1>5. \A v \in Visitors : VisitOK(visit[v])'
  BY <1>2, VisitsKept
<1> QED
  BY <1>1, <1>3, <1>4, <1>5 DEF ListInv

LEMMA ProcessKeeps ==
  ASSUME ListInv, NEW r \in Repos, Process(r)
  PROVE  ListInv'
<1> DEFINE k == branch[r]
<1>1. /\ job \in Jobs /\ job.pc = "entry" /\ job.pos <= Len(Registry)
      /\ branch' = branch /\ disk' = disk /\ marrow' = marrow /\ visit' = visit
      /\ faults' = faults /\ k \in Commits /\ Of[k] = r
      /\ marrow \subseteq Slugs /\ faults \in 0 .. MaxFaults
  BY DEF Process, ListInv, TypeOK
<1>2. CASE ~Manifest[k].valid
  <2>1. job' = Failed(job)
    BY <1>2 DEF Process
  <2>2. Resting(job') /\ job'.entries \subseteq job.entries
    BY <1>1, <2>1, FailedType DEF Resting
  <2> QED
    BY <1>1, <2>2, CrawlerMoves
<1>3. CASE Manifest[k].valid
  <2>1. job' = [job EXCEPT !.pc = "open", !.commit = k, !.file = Page(Name(k), "manifest.json")]
    BY <1>3 DEF Process
  <2>2. Page(Name(k), "manifest.json") \in Pages
    BY <1>1, FileFacts DEF PageOf
  <2>3. /\ job' \in Jobs /\ job'.commit = k /\ job'.pc = "open" /\ job'.pos = job.pos
        /\ job'.file = Page(Name(k), "manifest.json") /\ job'.entries = job.entries
    BY <1>1, <2>1, <2>2, FileFacts DEF Jobs
  <2>4. TypeOK'
    BY <1>1, <2>3 DEF ListInv, TypeOK
  <2>5. \A c \in Commits : Showable(c) => Showable(c)'
    BY <1>1, <2>3, ShowableWhenCloned DEF ListInv
  <2>6. job'.file[1] = Name(k) /\ job'.file[2] = "manifest.json"
    BY <2>3 DEF Page
  <2>7. k <= branch[Of[k]]
    BY <1>1, FileFacts
  <2>8. JobOK'
    BY <1>1, <2>2, <2>3, <2>5, <2>6, <2>7, FileFacts DEF ListInv, JobOK, Writing, Jobs
  <2>9. Found(Index)' => \A c \in disk'[Index] : Showable(c)'
    BY <1>1, <2>5 DEF ListInv, Found, TypeOK
  <2>10. \A v \in Visitors : VisitOK(visit[v])'
    BY <1>1, <2>5, VisitsKept
  <2> QED
    BY <1>1, <2>4, <2>8, <2>9, <2>10 DEF ListInv
<1> QED
  BY <1>2, <1>3

(* An error, wherever it comes from.                                        *)
LEMMA FailedKeeps ==
  ASSUME ListInv, job' = Failed(job), job.pc \in {"entry", "open", "fill", "sync"},
         job.pc = "entry" => job.pos <= Len(Registry),
         branch' = branch, disk' = disk, marrow' = marrow, visit' = visit,
         faults' \in 0 .. MaxFaults
  PROVE  ListInv'
<1>1. job.file \notin {Index, Summary} /\ job.pc # "sync" => job.pos <= Len(Registry)
  BY DEF ListInv, JobOK, Writing, Files
<1>2. job \in Jobs /\ marrow' \subseteq Slugs
  BY DEF ListInv, TypeOK
<1>3. Resting(job') /\ job'.entries \subseteq job.entries
  BY <1>1, <1>2, FailedType DEF Resting
<1> QED
  BY <1>2, <1>3, CrawlerMoves

LEMMA FetchFailsKeeps ==
  ASSUME ListInv, FetchFails
  PROVE  ListInv'
BY FailedKeeps DEF FetchFails, ListInv, TypeOK

LEMMA WriteFailsKeeps ==
  ASSUME ListInv, WriteFails
  PROVE  ListInv'
<1>1. faults' \in 0 .. MaxFaults
  BY FaultsAssumption DEF WriteFails, ListInv, TypeOK
<1> QED
  BY <1>1, FailedKeeps DEF WriteFails

LEMMA MarrowFailsKeeps ==
  ASSUME ListInv, MarrowFails
  PROVE  ListInv'
BY FailedKeeps DEF MarrowFails, ListInv, TypeOK

(* The run begins, ends, or breaks off.                                     *)
LEMMA IdleKeeps ==
  ASSUME ListInv, job' = Idle, branch' = branch, disk' = disk, visit' = visit,
         marrow' \subseteq Slugs, faults' \in 0 .. MaxFaults
  PROVE  ListInv'
<1>1. Resting(job') /\ job'.entries \subseteq job.entries
  BY IdleType DEF Resting
<1> QED
  BY <1>1, CrawlerMoves

LEMMA MarrowSyncKeeps ==
  ASSUME ListInv, MarrowSync
  PROVE  ListInv'
<1>1. /\ job' = Idle /\ branch' = branch /\ disk' = disk /\ visit' = visit
      /\ marrow' \subseteq Slugs /\ faults' \in 0 .. MaxFaults
  BY DEF MarrowSync, ListInv, TypeOK
<1> QED
  BY <1>1, IdleKeeps

LEMMA CrashKeeps ==
  ASSUME ListInv, Crash
  PROVE  ListInv'
<1>1. /\ job' = Idle /\ branch' = branch /\ disk' = disk /\ visit' = visit
      /\ marrow' \subseteq Slugs /\ faults' \in 0 .. MaxFaults
  BY FaultsAssumption DEF Crash, ListInv, TypeOK
<1> QED
  BY <1>1, IdleKeeps

LEMMA StartKeeps ==
  ASSUME ListInv, Start
  PROVE  ListInv'
<1>1. job' = [Idle EXCEPT !.pc = "entry"]
  BY DEF Start
<1>2. Resting(job') /\ job'.entries \subseteq job.entries
  BY <1>1, IdleType DEF Jobs, Resting
<1>3. /\ branch' = branch /\ disk' = disk /\ visit' = visit
      /\ marrow' \subseteq Slugs /\ faults' \in 0 .. MaxFaults
  BY DEF Start, ListInv, TypeOK
<1> QED
  BY <1>2, <1>3, CrawlerMoves

LEMMA EntriesDoneKeeps ==
  ASSUME ListInv, EntriesDone
  PROVE  ListInv'
<1>1. job' = [job EXCEPT !.pc = "open", !.file = Index] /\ job \in Jobs
  BY DEF EntriesDone, ListInv, TypeOK
<1>2. Resting(job') /\ job'.entries \subseteq job.entries
  BY <1>1, FileFacts DEF Jobs, EntriesDone, ListInv, JobOK, Resting
<1>3. /\ branch' = branch /\ disk' = disk /\ visit' = visit
      /\ marrow' \subseteq Slugs /\ faults' \in 0 .. MaxFaults
  BY DEF EntriesDone, ListInv, TypeOK
<1> QED
  BY <1>2, <1>3, CrawlerMoves

(* Open truncates: what is showable stays so, for a torn file is there.     *)
LEMMA OpenKeeps ==
  ASSUME ListInv, Open
  PROVE  ListInv'
<1>1. /\ branch' = branch /\ marrow' = marrow /\ visit' = visit /\ faults' = faults
      /\ disk' = [disk EXCEPT ![job.file] = Torn] /\ job' = [job EXCEPT !.pc = "fill"]
      /\ job.pc = "open" /\ job.file \in Files /\ job \in Jobs
  BY DEF Open, ListInv, TypeOK, JobOK, Writing
<1>2. /\ job' \in Jobs /\ job'.pc = "fill" /\ job'.file = job.file /\ job'.pos = job.pos
      /\ job'.commit = job.commit /\ job'.entries = job.entries
  BY <1>1 DEF Jobs
<1>3. \A f \in Files : disk'[f] = disk[f] \/ disk'[f] = Torn
  BY <1>1 DEF ListInv, TypeOK
<1>4. disk' \in [Files -> Bodies]
  <2>1. Torn \in Bodies
    BY Zenon DEF Bodies
  <2>2. disk \in [Files -> Bodies]
    BY DEF ListInv, TypeOK
  <2> QED
    BY <1>1, <2>1, <2>2
<1>5. TypeOK'
  BY <1>1, <1>2, <1>3, <1>4, FileFacts DEF ListInv, TypeOK
<1>6. \A c \in Commits : Showable(c) => Showable(c)'
  <2>1. \A r \in Repos : branch'[r] >= branch[r]
    BY <1>1, FileFacts DEF ListInv, TypeOK
  <2> QED
    BY <1>2, <1>3, <1>5, <2>1, FileFacts, ShowableKept DEF ListInv
<1>7. job.file \in Pages /\ job.file[2] = "index.md" =>
        disk'[PageOf(job.commit)] = job.commit
  <2>1. SUFFICES ASSUME job.file \in Pages, job.file[2] = "index.md"
                 PROVE  disk'[PageOf(job.commit)] = job.commit
    OBVIOUS
  <2>2. job.commit \in Commits /\ disk[PageOf(job.commit)] = job.commit
    BY <1>1, <2>1 DEF ListInv, JobOK, Writing
  <2>3. PageOf(job.commit) # job.file
    BY <2>1 DEF PageOf, Page
  <2>4. PageOf(job.commit) \in Files
    BY <2>2, FileFacts
  <2> QED
    BY <1>1, <2>2, <2>3, <2>4 DEF ListInv, TypeOK
<1>8. JobOK'
  BY <1>1, <1>2, <1>6, <1>7 DEF ListInv, JobOK, Writing, Jobs, PageOf
<1>9. Found(Index)' => \A c \in disk'[Index] : Showable(c)'
  BY <1>3, <1>6, FileFacts DEF ListInv, Found, TypeOK
<1>10. \A v \in Visitors : VisitOK(visit[v])'
  BY <1>1, <1>6, VisitsKept
<1> QED
  BY <1>1, <1>5, <1>8, <1>9, <1>10 DEF ListInv

(* Fill, when the file is the page of a tool: the commit in hand.           *)
LEMMA PageFilled ==
  ASSUME ListInv, Fill, job.file \in Pages
  PROVE  /\ job.commit \in Commits /\ job.pos <= Len(Registry) /\ job \in Jobs
         /\ disk' = [disk EXCEPT ![job.file] = job.commit]
         /\ branch' = branch /\ marrow' = marrow /\ visit' = visit /\ faults' = faults
         /\ disk' \in [Files -> Bodies]
         /\ \A f \in Files : \/ disk'[f] = disk[f]
                             \/ f \in Pages /\ disk'[f] = job.commit
<1>1. /\ job.commit \in Commits /\ job.pos <= Len(Registry) /\ job \in Jobs
      /\ branch' = branch /\ marrow' = marrow /\ visit' = visit /\ faults' = faults
  BY DEF ListInv, Fill, JobOK, Writing, TypeOK
<1>2. disk' = [disk EXCEPT ![job.file] = job.commit]
  BY FileFacts DEF Fill, Written
<1>3. job.commit \in Bodies
  BY <1>1, Zenon DEF Bodies
<1>4. disk \in [Files -> Bodies] /\ job.file \in Files
  BY FileFacts DEF ListInv, TypeOK
<1> QED
  BY <1>1, <1>2, <1>3, <1>4

(* ... with the page just written, and another page or the next entry next. *)
LEMMA PageFilledKeeps ==
  ASSUME ListInv, Fill, job.file \in Pages, job' \in Jobs,
         job'.commit \in {job.commit, None}, JobOK'
  PROVE  ListInv'
<1>1. /\ job.commit \in Commits /\ branch' = branch /\ marrow' = marrow /\ visit' = visit
      /\ faults' = faults /\ disk' \in [Files -> Bodies]
      /\ \A f \in Files : \/ disk'[f] = disk[f]
                          \/ f \in Pages /\ disk'[f] = job.commit
  BY PageFilled
<1>2. TypeOK'
  BY <1>1, FileFacts DEF ListInv, TypeOK
<1>3. \A c \in Commits : Showable(c) => Showable(c)'
  <2>1. \A r \in Repos : branch'[r] >= branch[r]
    BY <1>1, FileFacts DEF ListInv, TypeOK
  <2> QED
    BY <1>1, <1>2, <2>1, FileFacts, ShowableKept DEF ListInv
<1>4. Found(Index)' => \A c \in disk'[Index] : Showable(c)'
  BY <1>1, <1>3, FileFacts DEF ListInv, Found, TypeOK
<1>5. \A v \in Visitors : VisitOK(visit[v])'
  BY <1>1, <1>3, VisitsKept
<1> QED
  BY <1>1, <1>2, <1>4, <1>5 DEF ListInv

LEMMA FillPageKeeps ==
  ASSUME ListInv, Fill, job.file \in Pages
  PROVE  ListInv'
<1>1. /\ job.commit \in Commits /\ job.pos <= Len(Registry) /\ job \in Jobs
      /\ disk' = [disk EXCEPT ![job.file] = job.commit]
      /\ branch' = branch /\ disk' \in [Files -> Bodies]
      /\ \A f \in Files : \/ disk'[f] = disk[f]
                          \/ f \in Pages /\ disk'[f] = job.commit
  BY PageFilled
<1>2. job.file[1] = Name(job.commit) /\ job.file = Page(job.file[1], job.file[2])
      /\ job.file[2] \in {"manifest.json", "index.md"}
  BY FileFacts DEF ListInv, JobOK, Writing, Fill
<1>3. disk \in [Files -> Bodies] /\ Pages \subseteq Files
  BY FileFacts DEF ListInv, TypeOK
<1>4. job.commit <= branch[Of[job.commit]]
  BY <1>1 DEF ListInv, JobOK
<1>5. \A f \in Pages : \/ disk'[f] = disk[f] \/ disk'[f] = Torn
                       \/ disk'[f] = job.commit /\ job.commit \in Commits
  BY <1>1, <1>3
<1>6. ASSUME job' \in Jobs, job'.commit \in {job.commit, None}, NEW k \in Commits, Showable(k)
      PROVE  Showable(k)'
  <2>1. TypeOK'
    BY <1>6, PageFilled, FileFacts DEF ListInv, TypeOK
  <2>2. \A r \in Repos : branch'[r] >= branch[r]
    BY <1>1, FileFacts DEF ListInv, TypeOK
  <2> QED
    BY <1>5, <1>6, <2>1, <2>2, ShowableKept DEF ListInv
<1>7. CASE job.file[2] = "manifest.json"
  <2>1. job' = [job EXCEPT !.pc = "open", !.file = Page(job.file[1], "index.md")]
    BY <1>7, FileFacts DEF Fill, After
  <2>2. Page(job.file[1], "index.md") = TextOf(job.commit) /\ TextOf(job.commit) \in Pages
    BY <1>1, <1>2, FileFacts DEF TextOf
  <2>3. /\ job' \in Jobs /\ job'.pc = "open" /\ job'.commit = job.commit
        /\ job'.pos = job.pos /\ job'.file = TextOf(job.commit)
        /\ job'.entries = job.entries
    BY <1>1, <1>3, <2>1, <2>2 DEF Jobs
  <2>4. disk'[PageOf(job.commit)] = job.commit
    BY <1>1, <1>2, <1>3, <1>7 DEF PageOf
  <2>5. TextOf(job.commit)[1] = Name(job.commit)
    BY DEF TextOf, Page
  <2>6. \A c \in job'.entries : Showable(c)'
    BY <1>1, <1>6, <2>3 DEF ListInv, JobOK, Jobs
  <2>7. JobOK'
    BY <1>1, <1>3, <1>4, <2>2, <2>3, <2>4, <2>5, <2>6 DEF JobOK, Writing, PageOf
  <2> QED
    BY <2>3, <2>7, PageFilledKeeps
<1>8. CASE job.file[2] = "index.md"
  <2>1. job' = Done(job)
    BY <1>8, FileFacts DEF Fill, After
  <2>2. /\ job' \in Jobs /\ job'.pc = "entry" /\ job'.file = None /\ job'.commit = None
        /\ job'.entries = job.entries \cup {job.commit}
    BY <1>1, <2>1, DoneType
  <2>3. disk[PageOf(job.commit)] = job.commit
    BY <1>8 DEF ListInv, JobOK, Writing, Fill
  <2>4. /\ PageOf(job.commit) \in Pages /\ TextOf(job.commit) = job.file
        /\ PageOf(job.commit) # job.file
    BY <1>1, <1>2, <1>8, FileFacts DEF TextOf
  <2>5. disk'[PageOf(job.commit)] = job.commit /\ disk'[TextOf(job.commit)] = job.commit
    BY <1>1, <1>3, <2>3, <2>4
  <2>6. branch[Of[job.commit]] \in Nat /\ job.commit \in Nat
    BY <1>1, FileFacts DEF ListInv, TypeOK
  <2>7. ASSUME NEW k \in Commits, k = job.commit
        PROVE  Showable(k)'
    BY <1>1, <1>4, <2>2, <2>5, <2>6, <2>7, FileFacts DEF Showable, PageOf, TextOf
  <2>8. \A c \in job'.entries : Showable(c)'
    BY <1>1, <1>6, <2>2, <2>7 DEF ListInv, JobOK, Jobs
  <2>9. JobOK'
    BY <2>2, <2>8, FileFacts DEF JobOK, Writing
  <2> QED
    BY <2>2, <2>9, PageFilledKeeps
<1> QED
  BY <1>2, <1>7, <1>8

(* Fill, when the file is the index or the summary: no page is touched.     *)
LEMMA FillListKeeps ==
  ASSUME ListInv, Fill, job.file \in {Index, Summary}
  PROVE  ListInv'
<1>1. /\ branch' = branch /\ marrow' = marrow /\ visit' = visit /\ faults' = faults
      /\ job \in Jobs /\ disk \in [Files -> Bodies] /\ job.pc = "fill"
      /\ disk' = [disk EXCEPT ![job.file] = Written(job)]
  BY DEF Fill, ListInv, TypeOK
<1>2. Written(job) = IF job.file = Index THEN job.entries ELSE job.failed
  BY FileFacts DEF Written
<1>3. job.entries \in Bodies /\ job.failed \in Bodies
  <2>1. job.entries \in SUBSET Commits /\ job.failed \in SUBSET Repos
    BY <1>1 DEF Jobs
  <2> QED
    BY <2>1, Zenon DEF Bodies
<1>4. /\ disk' \in [Files -> Bodies] /\ \A f \in Pages : disk'[f] = disk[f]
      /\ disk'[Index] = IF job.file = Index THEN job.entries ELSE disk[Index]
      /\ disk'[Summary] = IF job.file = Summary THEN job.failed ELSE disk[Summary]
  BY <1>1, <1>2, <1>3, FileFacts
<1>5. /\ job' \in Jobs /\ job'.commit = job.commit /\ job'.entries = job.entries
      /\ \/ job'.pc = "open" /\ job'.file = Summary
         \/ job'.pc = "sync"
  <2>1. CASE job.file = Index
    <3>1. job' = [job EXCEPT !.pc = "open", !.file = Summary]
      BY <2>1, FileFacts DEF Fill, After
    <3> QED
      BY <1>1, <3>1, FileFacts DEF Jobs
  <2>2. CASE job.file = Summary
    <3>1. job' = [job EXCEPT !.pc = "sync", !.file = None]
      BY <2>2, FileFacts DEF Fill, After
    <3> QED
      BY <1>1, <3>1, FileFacts DEF Jobs
  <2> QED
    BY <2>1, <2>2
<1>6. TypeOK'
  <2>1. job.entries \in SUBSET Commits /\ job.failed \in SUBSET Repos
    BY <1>1 DEF Jobs
  <2> QED
    BY <1>1, <1>4, <1>5, <2>1 DEF ListInv, TypeOK
<1>7. \A c \in Commits : Showable(c) => Showable(c)'
  <2>1. \A r \in Repos : branch'[r] >= branch[r]
    BY <1>1, FileFacts DEF ListInv, TypeOK
  <2> QED
    BY <1>4, <1>5, <1>6, <2>1, ShowableKept DEF ListInv
<1>8. JobOK'
  BY <1>1, <1>5, <1>7, FileFacts DEF ListInv, JobOK, Writing, Jobs
<1>9. Found(Index)' => \A c \in disk'[Index] : Showable(c)'
  BY <1>1, <1>4, <1>7 DEF ListInv, Found, TypeOK, JobOK, Jobs
<1>10. \A v \in Visitors : VisitOK(visit[v])'
  BY <1>1, <1>7, VisitsKept
<1> QED
  BY <1>1, <1>6, <1>8, <1>9, <1>10 DEF ListInv

LEMMA FillKeeps ==
  ASSUME ListInv, Fill
  PROVE  ListInv'
<1>1. job.file \in Pages \/ job.file \in {Index, Summary}
  BY DEF ListInv, JobOK, Writing, Fill, Files
<1> QED
  BY <1>1, FillPageKeeps, FillListKeeps

-----------------------------------------------------------------------------
(* Visitors: each only changes its own requests, and no file.               *)
LEMMA AnswerKeeps ==
  ASSUME ListInv, NEW v \in Visitors, NEW w \in Visits, VisitOK(w), Answer(v, w)
  PROVE  ListInv'
<1>1. /\ branch' = branch /\ disk' = disk /\ marrow' = marrow /\ job' = job
      /\ faults' = faults /\ visit' = [visit EXCEPT ![v] = w]
  BY DEF Answer
<1>2. TypeOK'
  BY <1>1 DEF ListInv, TypeOK, Found
<1>3. \A k : Showable(k)' <=> Showable(k)
  BY <1>1 DEF Showable
<1>4. JobOK'
  BY <1>1, <1>3 DEF ListInv, JobOK, Writing
<1>5. Found(Index)' => \A c \in disk'[Index] : Showable(c)'
  BY <1>1, <1>3 DEF ListInv, Found
<1>6. \A u \in Visitors : VisitOK(visit[u])'
  BY <1>1, <1>3 DEF ListInv, VisitOK, TypeOK
<1> QED
  BY <1>1, <1>2, <1>4, <1>5, <1>6 DEF ListInv

LEMMA NotAStatus == None # 200 /\ None # 404
BY AbsenceAssumption

(* A visitor who has only found names.                                      *)
LEMMA HitsOK ==
  ASSUME NEW S \in SUBSET Slugs, NEW q, q = [Nobody EXCEPT !.pc = "hits", !.hits = S]
  PROVE  q \in Visits /\ VisitOK(q)
<1>1. q = [pc |-> "hits", hits |-> S, seen |-> None, manifest |-> None, status |-> None]
  BY DEF Nobody
<1>2. q \in Visits
  BY <1>1 DEF Visits
<1>3. q.pc = "hits" /\ q.status = None
  BY ONLY <1>1
<1>4. q.status # 200 /\ q.status # 404
  BY ONLY <1>3, NotAStatus
<1>5. q.pc \notin {"manifest", "readme", "done"} /\ q.pc # "readme"
  BY ONLY <1>3
<1> QED
  BY <1>2, <1>3, <1>4, <1>5, Zenon DEF VisitOK

LEMMA NobodyOK ==
  Nobody \in Visits /\ VisitOK(Nobody)
BY AbsenceAssumption DEF Nobody, Visits, VisitOK

LEMMA VisitKeeps ==
  ASSUME ListInv, NEW v \in Visitors, Visit(v)
  PROVE  ListInv'
<1> DEFINE w == visit[v]
<1>1. w \in Visits /\ VisitOK(w)
  BY DEF ListInv, TypeOK
<1>2. CASE Search(v)
  <2>1. PICK q : q = [Nobody EXCEPT !.pc = "hits", !.hits = marrow] /\ Answer(v, q)
    BY <1>2 DEF Search
  <2>2. q \in Visits /\ VisitOK(q)
    <3>1. marrow \in SUBSET Slugs
      BY DEF ListInv, TypeOK
    <3> QED
      BY <2>1, <3>1, HitsOK
  <2> QED
    BY <2>1, <2>2, AnswerKeeps
<1>3. CASE Browse(v)
  <2>1. PICK q : q = [Nobody EXCEPT !.pc = "hits", !.hits = Slugs] /\ Answer(v, q)
    BY <1>3 DEF Browse
  <2>2. q \in Visits /\ VisitOK(q)
    BY <2>1, HitsOK
  <2> QED
    BY <2>1, <2>2, AnswerKeeps
<1>4. CASE ReadIndex(v)
  <2>1. CASE Found(Index) /\ Listed(v) # {}
    <3>1. PICK k \in Listed(v) : Answer(v, [Nobody EXCEPT !.pc = "manifest", !.seen = k])
      BY <1>4, <2>1 DEF ReadIndex
    <3>2. k \in Commits /\ Showable(k)
      BY <2>1, <3>1, FileFacts DEF Listed, ListInv, TypeOK, Found
    <3>3. PICK q : q = [Nobody EXCEPT !.pc = "manifest", !.seen = k] /\ Answer(v, q)
      BY <3>1
    <3>4. q \in Visits /\ VisitOK(q)
      <4>1. q = [pc |-> "manifest", hits |-> {}, seen |-> k, manifest |-> None,
                 status |-> None]
        BY <3>3 DEF Nobody
      <4>2. q \in Visits
        BY <3>2, <4>1 DEF Visits
      <4> QED
        BY <3>2, <4>1, <4>2, AbsenceAssumption DEF VisitOK
    <3> QED
      BY <3>3, <3>4, AnswerKeeps
  <2>2. CASE ~(Found(Index) /\ Listed(v) # {})
    BY <1>4, <2>2, NobodyOK, AnswerKeeps DEF ReadIndex
  <2> QED
    BY <2>1, <2>2
<1>5. CASE ReadManifest(v)
  <2> DEFINE got == disk[Page(Slug(v), "manifest.json")]
  <2>1. w.pc = "manifest" /\ w.seen \in Commits /\ Showable(w.seen) /\ w.status = None
    BY <1>1, <1>5 DEF ReadManifest, VisitOK
  <2>2. got = disk[PageOf(w.seen)] /\ PageOf(w.seen) \in Pages
    BY <2>1, FileFacts DEF PageOf, Slug
  <2>3. got # None /\ got \in Commits \cup {Torn}
    BY <2>1, <2>2 DEF Showable, ListInv, TypeOK
  <2>4. CASE got = Torn
    <3>1. Answer(v, Nobody)
      BY <1>5, <2>3, <2>4 DEF ReadManifest
    <3> QED
      BY <3>1, NobodyOK, AnswerKeeps
  <2>5. CASE got # Torn
    <3>1. PICK q : q = [w EXCEPT !.pc = "readme", !.manifest = got] /\ Answer(v, q)
      BY <1>5, <2>3, <2>5 DEF ReadManifest
    <3>2. got \in Commits /\ (Of[got] = Of[w.seen] => got >= w.seen)
      BY <2>1, <2>2, <2>3, <2>5 DEF Showable
    <3>3. q \in Visits
      <4>1. w = [pc |-> w.pc, hits |-> w.hits, seen |-> w.seen, manifest |-> w.manifest,
                 status |-> w.status]
        BY <1>1 DEF Visits
      <4>2. q = [pc |-> "readme", hits |-> w.hits, seen |-> w.seen, manifest |-> got,
                 status |-> w.status]
        BY <3>1, <4>1
      <4>3. w.hits \in SUBSET Slugs /\ w.seen \in Commits \cup {None}
            /\ w.status \in {None, 200, 404}
        BY <1>1 DEF Visits
      <4> QED
        BY <3>2, <4>2, <4>3 DEF Visits
    <3>4. /\ q.pc = "readme" /\ q.seen = w.seen /\ q.manifest = got /\ q.status = None
      BY <1>1, <2>1, <3>1 DEF Visits
    <3>5. VisitOK(q)
      BY <2>1, <3>2, <3>4, AbsenceAssumption DEF VisitOK
    <3> QED
      BY <3>1, <3>3, <3>5, AnswerKeeps
  <2> QED
    BY <2>4, <2>5
<1>6. CASE ReadReadme(v)
  <2>1. /\ w.pc = "readme" /\ w.seen \in Commits /\ Showable(w.seen)
        /\ w.manifest \in Commits /\ (Of[w.manifest] = Of[w.seen] => w.manifest >= w.seen)
    BY <1>1, <1>6 DEF ReadReadme, VisitOK
  <2>2. disk[Page(Slug(v), "index.md")] # None
    BY <2>1 DEF Showable, TextOf, Slug
  <2>3. PICK q : q = [w EXCEPT !.pc = "done", !.status = 200] /\ Answer(v, q)
    BY <1>6, <2>2 DEF ReadReadme
  <2>4. q \in Visits
    <3>1. w = [pc |-> w.pc, hits |-> w.hits, seen |-> w.seen, manifest |-> w.manifest,
               status |-> w.status]
      BY <1>1 DEF Visits
    <3>2. q = [pc |-> "done", hits |-> w.hits, seen |-> w.seen, manifest |-> w.manifest,
               status |-> 200]
      BY <2>3, <3>1
    <3>3. w.hits \in SUBSET Slugs /\ w.seen \in Commits \cup {None}
          /\ w.manifest \in Commits \cup {None}
      BY <1>1 DEF Visits
    <3> QED
      BY <3>2, <3>3 DEF Visits
  <2>5. q.pc = "done" /\ q.seen = w.seen /\ q.manifest = w.manifest /\ q.status = 200
    BY <1>1, <2>3 DEF Visits
  <2>6. VisitOK(q)
    BY <2>1, <2>5 DEF VisitOK
  <2> QED
    BY <2>3, <2>4, <2>6, AnswerKeeps
<1>7. CASE Leave(v)
  BY <1>7, NobodyOK, AnswerKeeps DEF Leave
<1> QED
  BY <1>2, <1>3, <1>4, <1>5, <1>6, <1>7 DEF Visit

-----------------------------------------------------------------------------
LEMMA ListInvInit == Init => ListInv
<1> SUFFICES ASSUME Init PROVE ListInv
  OBVIOUS
<1>1. branch \in [Repos -> Commits] /\ \A r \in Repos : Of[branch[r]] = r
  BY DEF Init
<1>2. disk \in [Files -> Bodies] /\ \A f \in Files : disk[f] = None
  <2>1. None \in Bodies
    BY Zenon DEF Bodies
  <2> QED
    BY <2>1 DEF Init
<1>3. TypeOK
  BY <1>1, <1>2, FileFacts, IdleType, NobodyOK, FaultsAssumption DEF Init, TypeOK
<1>4. JobOK
  BY IdleType, FileFacts DEF Init, JobOK, Writing
<1>5. ~Found(Index)
  BY <1>2, FileFacts DEF Found
<1>6. \A v \in Visitors : VisitOK(visit[v])
  BY NobodyOK DEF Init
<1> QED
  BY <1>1, <1>3, <1>4, <1>5, <1>6 DEF ListInv

LEMMA ListInvNext == ListInv /\ [Next]_vars => ListInv'
<1> SUFFICES ASSUME ListInv, [Next]_vars PROVE ListInv'
  OBVIOUS
<1>1. CASE \E r \in Repos, k \in Commits : PushBranch(r, k)
  BY <1>1, PushBranchKeeps
<1>2. CASE Start
  BY <1>2, StartKeeps
<1>3. CASE Crawl
  BY <1>3, EntriesDoneKeeps, OpenKeeps, FillKeeps, ProcessKeeps DEF Crawl
<1>4. CASE FetchFails \/ WriteFails \/ MarrowFails
  BY <1>4, FetchFailsKeeps, WriteFailsKeeps, MarrowFailsKeeps
<1>5. CASE MarrowSync \/ Crash
  BY <1>5, MarrowSyncKeeps, CrashKeeps
<1>6. CASE \E v \in Visitors : Visit(v)
  BY <1>6, VisitKeeps
<1>7. CASE UNCHANGED vars
  BY <1>7 DEF vars, ListInv, TypeOK, JobOK, Writing, Showable, VisitOK, Found
<1> QED
  BY <1>1, <1>2, <1>3, <1>4, <1>5, <1>6, <1>7 DEF Next

(* What the crawler and the visitors know of each other always holds.       *)
THEOREM ListInvariant == Spec => []ListInv
BY ListInvInit, ListInvNext, PTL DEF Spec

(* The variables keep their types.                                          *)
THEOREM TypeCorrect == Spec => []TypeOK
<1>1. ListInv => TypeOK
  BY DEF ListInv
<1> QED
  BY <1>1, ListInvariant, PTL

(* What a list or a search showed has a page, however often the crawler     *)
(* rewrites the tool, fails at it or dies (handleTool never answers 404).   *)
THEOREM ListedToolsAreFound == Spec => []ListedIsFound
<1>1. ListInv => ListedIsFound
  BY DEF ListInv, VisitOK, ListedIsFound
<1> QED
  BY <1>1, ListInvariant, PTL

(* A page is never older than the list it was found in.                     *)
THEOREM PagesFollowLists == Spec => []PageNotOlderThanList
<1>1. ListInv => PageNotOlderThanList
  BY DEF ListInv, VisitOK, PageNotOlderThanList
<1> QED
  BY <1>1, ListInvariant, PTL

=============================================================================
