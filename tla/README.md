# Verification of Inguma

Inguma is a package manager for LLM tools. A crawler reads a registry of git
repositories, builds one immutable snapshot per semver tag and writes it to a
directory (the *corpus*) and an artifact store; an HTTP server (`apid`) answers
from those directories and from a SQLite file in which moderators withdraw,
yank and deprecate versions; a command line client (`inguma`) installs
versions into the configuration files of editors and agents (*harnesses*) and
pins them in `inguma.lock`.

This directory holds TLA+ models of those parts, TLC configurations that check
them on small instances, and TLAPS proofs. Paths such as `crawl/versioned.go`
are under `src/internal/` unless they start with `src/` or `docs/`.
`PROJECT.json` maps every definition to the lines it stands for.

## 1. The system

| Component | State | Operations | Talks to |
|---|---|---|---|
| versioned crawler (`crawl/versioned.go`) | none of its own; a cursor over the registry and its tags | `RunVersioned`, `processVersionedEntry`, `ingestVersion`, `ingestSynthetic` | git remotes, corpus, artifact store |
| versioned corpus (`corpus/versioned.go`) | `versions/<v>/manifest.json`, `index.md`, `artifact.sha256`; `latest.json` per package | `WriteVersion`, `HasVersion`, `ListVersions`, `ReadVersion` | written by the crawler, read by apid |
| artifact store (`artifacts/store.go`, `snapshot.go`) | `<v>.tgz`, `<v>.tgz.sha256` | `Put`, `Get`, deterministic `Build` | the same |
| versions and ranges (`versioning/`) | none | `ParseVersion`, `ParseRange`, `Matches`, `HighestMatch`, `ScanTags` | crawler, apid |
| read API (`api/versioned_*.go`, `api/artifacts.go`) | `downloads` table | install, tool page, artifact download | corpus, store, `package_state` |
| moderation (`api/admin.go`, `pkgstate/`) | tables `package_state`, `audit` | yank, unyank, deprecate, withdraw | read by the read API |
| CLI (`clicmd/`) | per-process copies of what it read | install, install --frozen, upgrade, uninstall | read API, lockfile, state, adapters |
| lockfile (`lockfile/`) | `inguma.lock` | `ReadFile`, `WriteFile`, `Upsert` | CLI |
| install state (`state/`) | `state.json` | `Load`, `Save`, `Record`, `Remove` | CLI |
| harness adapters (`adapters/`) | one configuration file per harness | `Install`, `Uninstall` | CLI |
| bundles (`bundles/`) | none | `Expand` | CLI |
| sign-in (`auth/`, `api/auth.go`, `clicmd/auth.go`) | sessions, device codes, local token | device flow, logout | GitHub |
| publish (`clicmd/publish.go`) | a tag, locally and on the remote | check, tag, push, poll | git, read API |
| advisories (`advisories/`, `clicmd/audit.go`) | table `advisories` | match, audit | read API, CLI |
| apid and its migrations (`src/cmd/apid/main.go`, `db/db.go`) | the tables, `schema_version`, a port | `Open`, `migrate`, listen, shut down | SQLite |
| tool fetching (`toolfetch/`) | `~/.inguma/bin` | `Install`, `fetchBinary` | CLI |
| legacy crawl (`crawl/crawl.go`, `corpus/writer.go`) | `<slug>/manifest.json`, `index.md`; `_index.json`, `_crawl.json` | `Run`, `WriteTool`, `WriteIndex` | git, marrow |
| legacy pages and search (`api/tools.go`, `categories.go`, `search.go`, `marrow/`) | none | tool page, browse, search | the v1 corpus, marrow |

The registry loader, manifest validation, permissions, trust, the flags of the
commands and the web site keep no state that a property is about.

### What is hard

* **Files are the database.** The crawler, and apid next to it, work on the
  same directories without a lock. A version is five files written one after
  the other, the synthetic `v0.0.0` is removed and written again, and readers
  open files one by one. Every file operation is therefore a step of its own.
* **Crashes and partial failures.** The crawler runs from a timer and may die
  between any two files; the CLI may die, or an adapter may fail, between the
  configuration files, `state.json` and the lock. Errors of removals and of
  audit inserts are dropped.
* **The upstream moves.** Maintainers push, move and delete tags between
  `ls-remote` and clone.
* **Two statements without a transaction** change `package_state` and `audit`;
  a migration is several, and its record one more.
* **Several processes** (two crawlers, two CLIs, two apids) share files and a
  database without locks.
* **Readers of files that are rewritten in place**: v1 pages and lists, the
  lock, the token, an executable.
* **Things must eventually happen**: a tag is ingested, a publisher hears of
  it, a good tool is listed, a pin reaches the newest release, apid serves.

### What makes each component correct

* *Crawler, corpus, store*: whatever files of a version are on disk come from
  one commit; a version in the corpus has its artifact; a released artifact is
  never replaced; `latest.json` names a version that is whole; a tag that stays
  is ingested.
* *Versions and ranges*: a range resolves to the newest version that the
  documentation says it means; upgrades rise, stay in the major version, and
  settle in one call; a new release never makes a range resolve lower; the tool
  page is not ahead of what an install gets.
* *Read API*: an answer about a release is of one commit and stays true; after
  a takedown no request gets the version, however it spells it.
* *Publish*: what is announced as ingested is the publisher's own commit, whole;
  a pushed tag is heard of.
* *Legacy crawl*: what a list shows has its page, no older than the list; one
  bad entry does not keep the others from being listed.
* *Moderation*: the audit log never says that something is in force that is
  not, and replaying it gives the table back; restarts change nothing of that.
* *apid*: whoever serves, or drains its last requests, has all tables, and in
  the end somebody serves.
* *Advisories*: a clause matches the versions it spells; an upgrade to the fix
  is the remedy that an audit accepts.
* *Sign-in*: whoever a process is signed in as approved its code; an approval
  makes one session; changes are made by users with the scope, on requests sent
  while the session held; logout revokes; an approved login ends signed in.
* *CLI*: the lock pins only what was applied; `state.json` tells what is in the
  harnesses; a frozen install puts the pinned versions, servers and executables
  alike, in place; a bundle is
  pinned after its members; upgrades converge and never lower or lose a pin.

`PROJECT.json` lists the hazards behind these, each at the line where it bites.

## 2. Modules

    ImmutableRegistry          what the registry promises its readers
        ^ refinement
    Crawler  <-- CrawlerProofs, MCCrawler
        ^ EXTENDS         ^ EXTENDS
        |             Publish  <-- PublishProofs, MCPublish   inguma publish next to the crawler
    Serving  <-- ServingProofs, MCServing   the read API next to the crawler ...
        | INSTANCE
        v                      ... and to moderation
    PackageState               yank, deprecate, withdraw and their audit log
        ^ EXTENDS
    Apid  <-- ApidProofs, MCApid   the processes around the admin handlers (the
                               proofs about PackageState are there, too)
    Versioning
        ^ EXTENDS
    Advisories  <-- VersioningProofs   ranges of advisories, audit against upgrade
    LegacyCrawl  <-- LegacyCrawlProofs, MCLegacyCrawl   the v1 crawl and its pages
    Client  <-- ClientProofs, MCClient   the CLI against a registry that publishes
    Session  <-- SessionProofs, MCSession   sign-in, between CLI or browser, apid, GitHub

**Crawler.** `file[<<p, v, kind>>]` is the content of one of the five files of
a version, `dirs` the version directories, `latest` the `latest.json` files,
`tags`, `head` and `branch` the upstream repositories, `job[c]` the program
counter and local variables of crawler process `c`. A commit stands for the
bytes it holds: `artifacts.Build` is deterministic, so that the tarball and its
SHA-256 are both the value `Content(commit, synthetic_ref)`. Versions are
numbers, 0 is `v0.0.0`. One action per git call and per file operation:
`ListTags`, `HasVersion`, `Fetch` (clone, checks, README), `HeadCommit`,
`FetchRef`, `CheckSyntheticRef`, `RemoveDir`, `RemoveTgz`, `RemoveSum`,
`PutStat`, `PutRename`, `PutCreateSum`, `PutWriteSum`, `MkdirVersion`,
`WriteCorpusFile` (three files), `WriteLatest`, and the faults `RemoteFails`,
`WriteFails`, `RemoveFails`, `Crash`. `Maintainers` moves the upstream.

**ImmutableRegistry.** The abstract promise: versions appear whole, a released
version never changes, and the latest pointer only ever names one that was
published (or the synthetic one). `Crawler!ImplementsRegistry` maps a version to
*published* when all its files are on disk, which is the moment its last file is
written.

**Publish** extends Crawler. `local[u]` are the tags of the clone that publisher
`u` works in, `pub[u]` the control state of the command: `BeginPublish` (the
manifest and the two git checks), `GitTag`, `GitPush`, `PollIngested`, and the
ways out `TagFails`, `PushFails` (before or after the remote took the tag) and
`PollGivesUp`. The crawler's actions stay what they are, with the tags that
publishers push.

**PackageState.** One handler per request: `Post` (authorised and parsed),
`Exec` or `ExecFails` (the statement on `package_state`), `AuditInsert` or
`AuditFails`, and `Lose`, the requests that a process of apid takes with it when
it ends. The version of a row is what the path spells (`Names`): the admin
handlers do not parse it. The history variable `disturbed` collects the rows
that two requests addressed at once or whose log entry was lost.

**Apid** extends PackageState. `tables` and `recorded` are the database,
`proc[o]` what process `o` does, `listener` the process that has the port.
`Start`, `Check`, `ExecStatement` (each statement of a migration is a
transaction) and `Record` open the database, `Listen` takes the port or leaves
the process deaf. `Accept` gives an admin request to the process that has the
port (`server[h]`), `Handle` is a step of it there. `Terminate` is SIGTERM: the
port is free at once and the process drains what it serves until `Exit` (all is
answered, or 5 s are over and the rest is lost); `Kill` loses the requests at
once. Requests of a process that drains go on next to those of its successor.
Two writers at one moment may find the database locked (`Writes`).

**LegacyCrawl.** `disk[f]` is the content of each file of the v1 corpus (a
commit, `Torn` between truncation and write, or `None`), `marrow` what the last
sync indexed, `job` the run of the crawler: `Process` (clone, parse, validate,
README), `Open` and `Fill` for each file, `MarrowSync`, and the faults
`FetchFails`, `WriteFails`, `MarrowFails`, `Crash`. `Failed` is what an error
makes of the run. A visitor gets a list (`Search` or `Browse`, then
`ReadIndex`) and opens a page of it (`ReadManifest`, `ReadReadme`). Slugs are
bare names.

**Serving** extends Crawler and instantiates PackageState. `req[r]` is what the
handler of request `r` has read so far. Each directory listing, file read and
query is an action (`ListVersions`, `ReadLatest`, `ReadManifest`, `ReadIndex`,
`ReadSha`, `Gate`, `OpenArtifact`, `ReadSum`, `CountDownload`). `replies` keeps
the answers, with what was true when the request arrived. A path may spell a
version with or without its `v`: a request asks for what `ParseVersion` makes of
it (`Canonical`), while a takedown is stored as it was spelled (`Spellings`), and
the gate looks up the canonical spelling.

**Versioning** is data: `Compare`, `ParseRange`, `Matches`, `HighestMatch`,
`PickLatest`, `Page` and the upgrade's range over records of three numbers, a
prerelease rank and build metadata. Its variables are the corpus of one package,
which `Ingest` extends in any order, and its `latest.json`, which names the
version ingested last (a run may stop before it does) or a `v0.0.0` written anew
(`Replace`). `ParsesAsBound` is what `normalizeBound` makes of a short bound with
a suffix: `^1.2-beta` is refused. The properties compare all this with a second
definition written from `docs/versioning.md`.

**Advisories** extends Versioning with the clauses and ranges of advisories
(`Satisfies`, `MatchClause`, `MatchRange`), the order of severities and the
verdict of `inguma audit` (`AuditFails`). It is its own model-checking module:
its constants are plain sets.

**Client.** `lock`, `state`, `config[h]` and `bins` (the executables, by the
`cli.bin` of the manifest, `BinOf`) are the
files; `published` the registry; `proc[c]` the command that process `c` runs:
the copies it has read, and a stack of nested installs, each with the indices of
the members (of a bundle) or companions that it has yet to install.
What a bundle includes and a package recommends is up to each version
(`Includes[p][v]`, `Companions[p][v]`); `upgrade` moves the pin of a bundle
without expanding it.
`applied` is history. A lock may be `Torn` (created and not written) or
`Corrupt` (two writers of different lengths). One action per API call or file
operation: `Resolve`, `FetchTool`, `CreateBinary`, `WriteBinary`, `LoadState`, `ReadConfig`, `WriteConfig`,
`SaveState`, `LoadCompanions`, `InstallNext`, `ReadLock`, `CreateLock`,
`WriteLock`, `NextEntry`, `LoopDone`, and the faults `ApiFails`,
`AdapterFails`, `Crash`.

**Session.** `github` and `codes` are the two sides of a device code, `sessions`
the table (a token is the index of its row, and deleted rows stay as dead
ones), `file` and `cookie` the places where tokens are kept, `cli[c]` the command
of a process. `srv[<<c, "now">>]` is the request that the process waits for,
`srv[<<c, "left">>]` one whose connection broke and that the server still works
on. `PollDevice` is `SelectCode`, `AskGitHub`, `Identify` (`GetUser`,
`ListOrgs`), `CreateSession`, `StoreToken`; the web sign-in enters at
`Identify`. When `ListOrgs` fails the session is made all the same, without the
scopes of the organisations (`Entitled`). `Lookup`, `Delete` and `Act` are the requests that carry a token.
Faults: `LoginFails`, `StepFails`, `AnswerLost`, `Resent` (Go's transport
repeats a GET), `ProcessCrash`, `ServerCrash`. GitHub is external: it gives the
access token of an approved code once, and codes are numbered as it hands them
out.

## 3. Model checking

Run `tlc -config <run>.cfg <module>`; the module of each run is in
`PROJECT.json`. Every property has a mutant, a bug one could plausibly write in
a mapped definition, under which its run finds the property violated. Each
module states its type invariant (`TypeOK`, `PublishTypeOK`, `ApidTypeOK`). Those
of Crawler (inside `IndInv`), PackageState, Apid (in `DatabaseInv`), Versioning,
LegacyCrawl, Session and Client are proved, and so is what Serving adds to
Crawler's (in `ServingInv`). Each may also be added to the `INVARIANTS` of a run.

| Run | Shows | Bounds, and why they are enough |
|---|---|---|
| `crawler_faults` | `CorpusBackedByArtifact`, `FilesAgree`, `LatestIsComplete`, `ArtifactImmutable`, `IndInv`, and the refinement `ImplementsRegistry` | one package, `v0.0.0` and one tag that moves and goes, two commits, two faults: one to leave a partial version and one while the next run meets it. The proofs remove the bounds. |
| `crawler_pair` | `ReleaseFilesAgree`: the files of a release agree although two crawlers interleave | two processes, two commits of which one has no README, one fault, failed removals, a branch that is not HEAD; tags are not moved, see 5. |
| `publish` | `AnnouncedIsMine`, `PollingEnds`, and of the crawler `EveryTagIngested`, `SyntheticConverges` | two registry entries of two owners, the first of them bad, so that one must not starve the other; one publisher, two commits, one version: a tag to be refused, a retry, and a commit whose tag never comes |
| `apid` | `ServesMigrated`, `ServesInTheEnd`; `AuditReplays` for the undisturbed rows, `AuditedHolds` | two processes (one to be stopped or killed anywhere, to drain or to be left deaf, one to race and take over), all three migrations, a database at any of them; two handlers, two requests, one loss: enough for an overlap, within a process or of one that drains with its successor |
| `serving` | `AnswersStayTrue`, `DownloadsWereServed`, `WithdrawnStaysGone` | one request of any kind, one takedown, under the canonical spelling, another one or `*` (`Requested`: a yank or a deprecation is only copied into an answer) and a query that may fail, next to a crawler that ingests a tag and a `v0.0.0` that moves, with one crash or failed write. Requests share nothing but the counter, so that one at a time meets every interleaving with crawler and moderator. |
| `sessions` | `SignedInAsGranter`, `OneSessionPerGrant`, `OnlyManagersAct`, `LogoutRevokes`, `LoginCompletes` | one process and one browser, two sign-ins of either kind by a member of an organisation and by an admin, requests for a package of that organisation and for what only admins may do, one fault (of `ListOrgs`, too): users with and without each scope, two codes to mix up, and one resend, loss or crash at any step of either |
| `client_serial` | `StateMatchesHarnesses`, `FrozenReproducesLock`, `BundlePinnedLast` | one user, all four commands, a server that recommends a command-line tool, a bundle that at first has the tool only and of which the second version adds the server, two harnesses, two versions, one crash or failed adapter. The harnesses are symmetric. |
| `client_pair` | `PinsWhatWasApplied` | two processes, four versions, two contents, one crash: enough for a lock torn by one and read by the other |
| `client_upgrades` | `UpgradesConverge`, `UpgradeOnlyMovesForward` | `v0.0.0`, `v1.0.0`, `v1.1.0`, `v2.0.0`: a step within and one across a major version |
| `advisories` | `ResolvesAsDocumented`, `UpgradeSettles`, `PageNotAhead`, `NeverDowngrades`; `ClausesMatchAsSpelled`, `UpgradePassesAudit` | numbers 0 and 1, one prerelease, two builds, all corpora of at most three versions in any order: the two that compete and one that distracts; all specs and bounds, short ones with a suffix included. The proofs remove the bounds. |
| `legacy` | `ListedIsFound`, `PageNotOlderThanList`, `GoodToolsAreShown` | two entries of which one is bad at first and takes the other's name later, so that pages are skipped, rewritten and overwritten; two crashes or failed writes; one visitor, as visitors share nothing |
| `crawler_wedged` | `EveryTagReachesCorpus` is **violated** | see 5 |

`apid`, `serving` and `advisories` switch the deadlock check off: `MaxCalls`
and `MaxRequests` bound the requests of a behaviour, which then ends, or the
corpus is full. The other runs check deadlock.

Conditions worth knowing: `StateMatchesHarnesses` speaks of the time before the
first fault, because an interrupted install leaves configurations behind (5);
`WithdrawnStaysGone` excepts a request whose query of `package_state` failed,
because the code drops that error, and is about takedowns under the canonical
spelling, because those under another one take nothing down (5);
`ResolvesAsDocumented` lets an exact spec resolve to any build where the corpus
has the version with other build metadata, because the code compares without it
(5); `PageNotAhead` lets the page name an older version or a prerelease, because
`latest.json` follows the order of ingestion (5); `BundlePinnedLast` speaks of the
members of the version that was installed, because an upgrade moves the pin
without installing those of the new one (5); `FrozenReproducesLock` and
`StateMatchesHarnesses` are checked with manifest names that differ between
packages, `PinsWhatWasApplied` without replacements of `v0.0.0` (5);
`LogoutRevokes` speaks of the time before the first fault, because logout drops
the error of the server call (5); `publish` has no two publishers of one
package and version (5); `GoodToolsAreShown` speaks of tools whose name no other
entry has (5).

### Fairness

* `Crawler!FairSpec`: the timer starts a run every hour and a process is not
  suspended for ever (weak fairness of the local steps); a git operation that
  is tried again in run after run does not fail every time (strong fairness of
  each remote operation per repository and tag). Maintainers are not fair, and
  faults are not either.
* `Publish!PublishSpec` adds that a publisher who polls does not stop polling
  (the timeout is `PollGivesUp`, which ends the wait as well). Publishers need
  not start, tag or push.
* `Apid!ApidSpec`: a process that is down is started again, a start goes on,
  and `Shutdown`, which waits 5 s at most, returns (weak fairness of `OpenStep`
  and `Exit` of each process). Processes may be stopped and killed for
  ever; `ServesInTheEnd` assumes that from some time on they are not. Requests
  are not fair.
* `LegacyCrawl!FairSpec`: the timer (`docs/crawler.md:92`) starts a run again
  and again and a run goes on; a repository does not refuse to be cloned every
  time, and marrow does not fail every time (strong fairness).
* `Client!FairSpec`: a command that runs goes on; an API call that is tried
  again and again succeeds sometimes; users keep running `inguma upgrade
  <name>` for each pinned package. Without the name the property fails: an
  entry that the API always refuses ends the loop before the lock is written,
  so that the pins visited before it never move.

* `Session!FairSpec`: the server answers the request that a process waits for,
  and a process goes on with the command it runs. Nobody has to give a command
  or decide on a code, and no clock has to pass its deadline; polls that find
  the code undecided go on for ever.

## 4. Proofs

TLAPS checks the following for all values of the constants.

**CrawlerProofs.** `TypeCorrect` needs only the assumptions on constants. The
next ones are for one crawler process whose removals do not fail, in a registry
where nobody tags `v0.0.0` (`SingleCrawler`, `NoTagV000`, `RemovalsFail =
FALSE`): without the first, `Put`'s check and rename interleave; without the
second, a released version is removed as synthetic; without the third, an old
tarball stays under new corpus files. Crashes and failed writes are
unrestricted, and so are the packages, tags, commits and the registry.
`FilesAgree` alone is not inductive: a crawler about to write `manifest.json`
preserves it only if the tarball on disk is the one it built. `IndInv` adds
`Progress`, what each program counter knows of the version being written,
`JobOK`, the shape of the local variables, and `ContentOfItsKind` and
`SumFollowsArtifact`, which tie released and synthetic content and the sidecar
to the version. From `CrawlerInvariant` follow `FilesOfOneCommit`,
`ArtifactBehindCorpus`, `LatestWhole`, the action property
`ReleasesAreImmutable`, and `CrawlerImplementsRegistry`: every step of the
crawler is a step of `ImmutableRegistry` or changes nothing a reader sees.
`ListedHasSum` adds that what the corpus lists of a release has its whole sum.

Several crawlers on the same directories may interleave anywhere, even fail to
remove, and they write into one version at a time. What holds then rests on the
tags: `ReleasesFollowTags` says that every file of a release holds what its tag
supplies, because each crawler that writes one has the commit of the tag in
hand (`InHand`) and tags stay where they are (`Rewrites = FALSE`). If no two
repositories supply the same package (`OneRepoPerPackage`), that is one commit:
`ReleasesAgree` and, without a tag `v0.0.0`, `OverlappingRunsKeepReleases`, that
the tarballs of releases are immutable although both crawlers rename theirs into
place. The sidecar is the exception: the second crawler truncates it, so that
`ListedHasSum` is about one crawler only.

**PublishProofs.** `PublishersAreMaintainers`: a push of `inguma publish` is the
push of a tag or changes nothing that the crawler reads, so that every theorem
about `Spec` is one about `PublishSpec`. `AnnouncedIsTheirs` puts together what
the crawler has in a version that is found (`ListedHasSum`, the invariant of one
crawler), where it comes from (`ReleasesFollowTags`) and that the tag a
publisher polls for is the one that the remote took (`Landed`). It needs the
conditions of each, and that publishers run the command at commits that the
crawler accepts for their own repository (`OwnCommits`): publish polls for the
name in the manifest, whoever supplies the package of that name, and does not
compare its owner with the remote (publish.go:79-85).

**ServingProofs.** `AnswersTrue`, `TakedownsHold` and `CountsAreServed`, for any
number of readers, requests, packages, versions, ranges and takedowns. The
invariant `ServingInv` puts four parts next to the crawler's `IndInv`:
`Moderated` (the table and the admin calls stay well-formed), `Asking` (what the
handler of a request knows at each read of the version it has come to: that the
sidecar it has read belongs to the manifest, that a version it has resolved was
not withdrawn, under its canonical spelling, when it asked), `Answered` (the same of what was sent) and
`Counted`. What a reader has read of a *release* cannot change under it, because
`IndInv` says that the files of a version agree and `ReleasesAreImmutable` that
they stay; of `v0.0.0` an answer promises nothing. The assumptions are the
crawler's, of which a reader inherits the consequences: two crawlers that
interleave may replace a release between two reads. That the counter does not
exceed the downloads needs the cardinality of a finite set of readers.

**VersioningProofs.** `RangesResolveAsDocumented`: the code's comparison and
range matching define the same resolution as the documentation's table, for
all numbers, prereleases, builds and corpora, but for an exact spec whose
version has several builds; `UpgradesSettle`, `ResolutionOnlyRises`, and
`PageBehindInstall`, for any order of ingestion and runs that stop anywhere: it
needs of the state that `latest.json` names what the corpus holds
(`CorpusHoldsVersions`). Of the clauses of advisories,
`ClausesMatch`: a comparison matches what it spells on the order of semver and a
spec what it means in an install. `UpgradesPassAudits` needs that an upgrade
finds something at all, which is the greatest of a finite set of versions; it is
taken as the least of a set of naturals, by well-foundedness.

**ApidProofs**, about PackageState: `TypeCorrect`, and `AuditedStaysInForce` for any number
of handlers, crashes and lost inserts. The invariant `Moderated` adds that what
is *about* to be logged is already in force, and that a deprecation carries a
message; without them the step that logs could log too early. `AuditReconstructs`
is about the replay of the whole log, a recursive function over its length: one
more entry is one more application of it, so that an invariant of every
behaviour, not an induction over logs, carries the equality. That invariant,
`Explained`, says that the replay is the row of the table where nothing is
disturbed or unlogged (`LoggedRows`), and that a row whose request has run and
is about to be logged is ahead by exactly that request (`AheadRows`); two such
requests at one row disturb it, so that there is one at each of the others
(`OneEach`).

About Apid: `DatabaseIsMigrated` for any number of processes.
`ServesMigrated` alone is not inductive: the step to `listen` relies on what the
process has skipped or run before. `DatabaseInv` adds `Migrated`: a process at
migration `next` finds the tables of all earlier ones, and those of the `done`
statements it has run. Tables are never dropped, so that no step of another
process disturbs it, whoever wins the insert into `schema_version`.
`AuditedSurvivesRestarts` and `AuditReconstructsAcrossRestarts` carry the theorems
about PackageState over to processes that start, drain and die: every step of
Apid is one of PackageState (`Accept`, `Handle`, and `Lose` for the requests that
end with a process) or leaves its variables alone.

**LegacyCrawlProofs.** `ListInvariant`, and from it `ListedToolsAreFound` and
`PagesFollowLists`, for any registry, crash, failed write and failing clone.
`ListedIsFound` relates what a visitor saw to pages that the crawler rewrites in
place meanwhile; `ListInv` says of everything that is listed on disk, indexed by
marrow, in the crawler's memory on its way to the index, or in a visitor's
hands, that its page is `Showable`: there, perhaps torn, and no older. Pages are
never removed and never go back, so that `Showable` holds on.

**SessionProofs.** `SessionInvariant` for any number of clients, users, codes,
crashes, lost answers and repeated requests. Who holds a code, a device row, an
access token or a session token got it along the flow from one grant; `OneGrant`
says that no two of them got it from the same one, which is what a repeated
poll or a lost answer would break, and what it is that a request still under way
at the server may yet do. From it follow `LoginIsTheGranters`,
`GrantMakesOneSession`, `ActsAreManaged` and `LogoutEndsSession`.

**ClientProofs.** `ClientInvariant`, `TypeCorrect` and `PinsHold` are for any
number of processes that share the files, and wherever they are interrupted.
`ClientInv` says of every command that its stack is made of resolved installs
(all but the innermost ones applied already), that the entry it carries is the
one its innermost install resolved, and that any lock it has in memory to write
pins only what was applied; what is known of the registry and of what was
applied stays known (`Grows`), whatever other processes write. `PinsHold` is
without replacements of `v0.0.0` (5).

The others are for one process (`Alone`), whose commands follow one another
after any crash: inguma takes no lock, and of two commands at once the last
writer wins, with the pins, records or servers that it has read before. Each
adds an invariant to `ClientInv`:

* `UpgradesMoveForward`: the lock in the memory of an upgrade is `Ahead` of the
  one on disk, and the install under way is above the pin it replaces.
* `BundlesPinnedLast`: the lock that is on disk or about to be written
  (`Current`) has the members of each bundle it pins, of the version pinned
  (`Installed`) or of an older one from which an upgrade moved the pin (`Moved`);
  each member of a bundle on the stack is done, yet to come, or the install above
  it (`Covered`). That an upgrade only rises, the invariant of `UpgradesMoveForward`,
  keeps the older version older and of the same major version.
* `StateTalliesWithHarnesses`: the records that a command is about to save are
  right for every name but the one it deals with, and for that one in the
  harnesses behind it (`Tallied`). `KindsApart`, no server shares its manifest
  name with something else, is needed because both files go by bare names (5).
* `FrozenReproduces`: the entries that a frozen install has visited are in
  place, and the one it is at in the harnesses behind it (`Visited`, `Placing`).
  `NamesApart`, the stronger form of the same condition: of two packages with
  one manifest name, or two tools with one `cli.bin`, the second takes the place
  of the first.

The type and step lemmas of that module describe each action field by field
(`ResolveEffect`, `SaveStateEffect` ...), and the four invariants cite those.

Only model-checked: liveness, which is out of the prover's reach, as is
`ENABLED`: `EveryTagIngested`, `SyntheticConverges`,
`PollingEnds`, `ServesInTheEnd`, `LoginCompletes`, `UpgradesConverge` and
`GoodToolsAreShown`.

## 5. Where the code and its documents disagree

Checked as a run that must find a violation:

* `crawler_wedged`: `ingestVersion` puts the artifact first and takes
  `ErrImmutable` for a failure (`crawl/versioned.go:183`). A crash between
  `Put` and `manifest.json` leaves a tag that every later run refuses, although
  the crawler "ingests every v<semver> tag that is not already present in the
  corpus" (`crawl/versioned.go:45`).

Read off the code while modelling, and the reason for a condition of a property
or a constant of a run; no run is devoted to them:

* `latest.json` follows the order of ingestion: `v1.0.1` ingested after
  `v2.0.0` becomes the latest, and so does a prerelease (`corpus/versioned.go:39`;
  `docs/versioning.md` says "bump `latest.json` if this is now the newest"). The
  tool page reads it first and shows the older version, while an install gets
  `v2.0.0` (`api/versioned_tools.go:112`): `PageNotAhead` is what remains.
* `HasVersion` looks under the slug of the repository URL and `WriteVersion`
  under that of the manifest: when they differ, every run builds the version
  again (`crawl/versioned.go:110`).
* `Put` checks for the artifact with `Stat` and renames later: two crawlers and
  a moved tag replace a released artifact (`artifacts/store.go:32`;
  `docs/architecture.md:124`). Therefore `crawler_pair` keeps tags in place.
* `ingestSynthetic` removes a released `v0.0.0` once its tag is gone
  (`crawl/versioned.go:227`): `NoTagV000`.
* Two untagged repositories that name one package replace its `v0.0.0` in turn,
  in every run (`crawl/versioned.go:221`; `docs/crawler.md:117`).
* `synthetic_ref` is the HEAD that `ls-remote` saw before the clone
  (`crawl/versioned.go:233`; `docs/architecture.md:50`).
* Two admin requests for one version may be logged in the other order than
  they took effect (`api/admin.go:52`): `disturbed`.
* `parseVersionAt` keeps the spelling of the path and parses nothing: a POST that
  withdraws `1.0.0` succeeds and is logged, and `v1.0.0` stays served, although
  "withdrawn versions return `410 Gone`" (`api/admin.go:24`;
  `docs/roadmap.md:37`). `package_state` then has a row that no reader looks up.
* The error of `PkgState.Get` is dropped and reads as a clean state
  (`api/versioned_install.go:150`, `api/artifacts.go:42`).
* `Get` opens the tarball and then reads the sidecar: the header may describe
  another `v0.0.0` (`artifacts/store.go:62`).
* `installByName` picks the highest version directory and answers 404 when its
  manifest is not written yet, although an older release satisfies the range
  (`api/versioned_install.go:103`, `docs/api.md:77`).
* An install without a range takes the highest stable version and never reads
  `latest.json` (`api/versioned_install.go:97`; `docs/versioning.md:49`).
* An exact range `1.2.3` accepts `v1.2.3+build`, and resolves to either where
  the corpus has both (`versioning/ranges.go:64`; `docs/versioning.md:35` says
  "only v1.2.3"): the exception in `ResolvesAsDocumented`.
* `^1.2-beta` is refused as a range and matches nothing as a clause: the missing
  number is appended behind the suffix (`versioning/ranges.go:49`).
* `applyInstall` ends at the first adapter that fails and takes nothing back
  (`clicmd/install.go:317`; `docs/architecture.md:125`).
* The SHA-256 and the manifest of an install come from two requests
  (`clicmd/install.go:141`), and a frozen install compares neither with the
  lock (`clicmd/install.go:227`): a replaced `v0.0.0` slips in.
* Configurations and `state.json` are keyed by the bare manifest name
  (`adapters/claudecode/install.go:45`), the lock by `@owner/slug`.
* `upgrade` asks for `^major.minor`, which takes later minor versions
  (`clicmd/upgrade.go:79`; `docs/cli.md:67` says "within its locked
  major.minor").
* A plain `install` moves an existing pin forward (`clicmd/install.go:175`;
  `docs/lockfile.md:39`).
* Two installs at once may lose one of the pins (`clicmd/install.go:452`).
* A companion that cannot be installed ends the command after the package was
  applied and before it was pinned (`clicmd/install.go:169`).
* `upgrade` applies and pins a new version of a bundle without expanding it: a
  member that the release adds is neither installed nor pinned
  (`clicmd/upgrade.go:102`).
* Two tools whose manifests have one `cli.bin` overwrite each other's executable
  (`toolfetch/fetch.go:85`).
* A member that is a bundle is expanded in turn, without an end when bundles
  include each other (`clicmd/install.go:394`; `bundles/bundles.go:4`).

* `upgrade` applies and pins the new version of a command-line tool without
  fetching it: the lock and the executable disagree until the next
  `install --frozen` (`clicmd/upgrade.go:112`). `go install ...@latest` and
  `npm install -g` take the newest release whatever the pin is
  (`toolfetch/fetch.go:66`, `:74`). `FrozenReproducesLock` is about binaries.
* A failed push leaves the local tag, and a second `inguma publish` is refused
  because of it (`clicmd/publish.go:95`, `:103`).
* `publish` announces whatever release of that name and version appears: when
  another repository of the owner names the same package, it may be that one's
  (`clicmd/publish.go:112`).
* Of two apids started on a new database, one may fail on the primary key of
  `schema_version` or on a locked database (`db/db.go:37`, `:74`). One whose
  port is taken logs that and stays up (`src/cmd/apid/main.go:81`).
* An advisory range with a short bound such as `<1.2` matches nothing, and
  `POST /api/advisories` accepts it, as it does an unknown severity, which ranks
  below all (`advisories/ranges.go:47`, `advisories/advisories.go:133`). An audit
  passes over packages whose advisories it cannot fetch (`clicmd/audit.go:53`).
* A failing clone takes a good tool out of the index until the next run
  (`crawl/crawl.go:56`), although its page stays.
* Each crawl truncates pages, index and summary before it writes them: readers
  meanwhile get 500, 503 or a page without text (`corpus/writer.go:61`).
* Two entries whose manifests have one name overwrite each other's page and are
  both listed (`corpus/writer.go:52`): `OnlyOne`.
* A failed write of the index ends the crawler before its versioned pass
  (`crawl/crawl.go:65`, `src/cmd/crawler/main.go`).
* When a call fails after GitHub has given the access token, the code can never
  sign in, and a session nobody holds may stay (`auth/auth.go:251`).
* `inguma logout` ignores the answer of the server, and removes the token file
  although another process may have saved a new token in it
  (`clicmd/auth.go:138`): that session stays until it expires.

## 6. Not modelled

* Loss of power and `fsync`: a file operation that returned is durable.
* Two tags of one version (`1.2.3` and `v1.2.3`), and the git cache directory
  that repositories share.
* Text that does not parse, and what only decorates an answer (version lists,
  advisories, the trust pill). Moderation starts after the scope was checked;
  the check itself is in Session.
* The insert of an advisory, publisher pages and redirects: single statements
  or reads without a second state to disagree with.
* Intervals of the login loop (`slow_down`) and of publish, and requests without
  a token.
* Bare-slug installs of v1, `--dry-run`, `--lock-dir -`, `--harness`; the
  kind and the name of a package changing from version to version.
  `ResolveConflicts` and `permissions.Merge` have no caller, and nothing verifies
  a signature.
* The counts of `/api/_health`.
* Backups and snippets of the adapters, npm and go as sources of a tool.
* The redirect of a bare slug to its `@owner/slug`, ranking and filters of a
  search.
* The rules of `manifest.Validate`: a manifest is accepted or not.
* The components that `PROJECT.json` lists as not modelled: permissions, trust
  and signatures (text for prompts, and a verifier without a caller) and the
  web site, which reads the API.

## 7. Plan

Done: Crawler, ImmutableRegistry, Publish, PackageState, Apid, Serving,
Versioning, Advisories, LegacyCrawl, Client, Session; proofs about all of them,
for every property of the runs that is not about liveness.

Next:

1. `AnswersTrue` next to several crawlers while tags stay in place, from
   `ReleasesFollowTags`: all but the sum, which the second crawler truncates.
2. A run with two untagged repositories that name one package, whose `v0.0.0`
   never comes to rest.
3. `FrozenReproduces` with a weaker condition than `NamesApart`: only the
   packages that one lock pins need distinct names.
