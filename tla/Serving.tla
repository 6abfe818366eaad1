------------------------------- MODULE Serving -------------------------------
(***************************************************************************)
(* apid answering installs, tool pages and artifact downloads              *)
(* (internal/api) while the crawler writes the corpus and the artifact     *)
(* store it reads, and while versions are withdrawn.                       *)
(*                                                                         *)
(* The handlers take no lock: each directory listing, file read and query  *)
(* is a step of its own.  Paths that fail to parse are refused before any  *)
(* read and are left out, and so is the end of apid: a request it drops is *)
(* one whose reader takes no further step.                                 *)
(*                                                                         *)
(* A version has several spellings ("1.0.0" for v1.0.0).  The read         *)
(* handlers parse what a path spells and go on with the version; the       *)
(* handlers of moderation do not, so a row of package_state is keyed by    *)
(* the spelling that an admin used.                                        *)
(***************************************************************************)
EXTENDS Crawler, FiniteSets

CONSTANTS
  Readers,      \* requests in flight
  Spellings,    \* what requests may spell and ParseVersion takes
  Canonical,    \* the version of each spelling: its own is the canonical one
  Asked,        \* spellings in the paths of requests
  Ranges,       \* ?range= specifications, as the sets of versions they match
  Prereleases,  \* versions with a prerelease tag
  Whole, Messages, Handlers, MaxCalls, MaxLosses,  \* see PackageState
  Requested,    \* the moderation that admins ask for, of PackageState's Ops
  MaxRequests   \* bound on the requests of a behaviour

Stable == Versions \ Prereleases

ASSUME RangesAssumption ==
  Prereleases \subseteq Versions /\ Ranges \subseteq SUBSET Versions
ASSUME SpellingsAssumption ==
  /\ Canonical \in [Spellings -> Versions]
  /\ Versions \subseteq Spellings /\ \A v \in Versions : Canonical[v] = v
  /\ Asked \subseteq Spellings
ASSUME RequestsAssumption == MaxRequests \in Nat /\ IsFiniteSet(Readers)

VARIABLES
  rows, audit, calls, started, losses, disturbed,   \* see PackageState
  req,         \* the request each reader is serving
  replies,     \* the answers given, in order
  downloads    \* the downloads table, summed over days

Moderation == INSTANCE PackageState WITH Names <- Spellings

moderation == <<rows, audit, calls, started, losses, disturbed>>
serving == <<req, replies, downloads>>
allVars == <<vars, moderation, serving>>

(* The row that the gate looks up: that of the canonical spelling.          *)
Withdrawn(p, v) == rows[<<p, v>>].withdrawn

(* A request: what is asked for, and what the handler has read so far.      *)
(* gone and failed are for the properties: the versions withdrawn when it   *)
(* arrived, and whether the gate was passed by a query that failed.         *)
IdleReq ==
  [pc |-> "idle", kind |-> None, pkg |-> None, ask |-> None, range |-> {},
   list |-> {}, latest |-> None, version |-> None,
   tgz |-> None, manifest |-> None, sha |-> None,
   gone |-> {}, failed |-> FALSE]

InFlight == Cardinality({r \in Readers : req[r].pc \notin {"idle", "count"}})

Arrives(r, kind, p, ask, range, pc) ==
  /\ req[r].pc = "idle"
  /\ Len(replies) + InFlight < MaxRequests
  /\ req' = [req EXCEPT ![r] =
       [IdleReq EXCEPT
          !.pc = pc, !.kind = kind, !.pkg = p, !.ask = ask, !.range = range,
          !.gone = {v \in Versions : Withdrawn(p, v)}]]
  /\ UNCHANGED <<vars, moderation, replies, downloads>>

(* The request is answered, and the reader goes on to pc.                   *)
Reply(r, q, status, pc) ==
  /\ replies' = Append(replies, [q EXCEPT !.pc = status, !.list = {}])
  /\ req' = [req EXCEPT ![r] = IF pc = "idle" THEN IdleReq ELSE [q EXCEPT !.pc = pc]]

Goes(r, q, pc) == req' = [req EXCEPT ![r] = [q EXCEPT !.pc = pc]]

(* HighestMatch, and pickLatest, which falls back on prereleases.           *)
Highest(S) == CHOOSE v \in S : \A w \in S : w <= v
PickLatest(S) == IF S \cap Stable # {} THEN Highest(S \cap Stable) ELSE Highest(S)

-----------------------------------------------------------------------------
ServingInit ==
  /\ Init /\ Moderation!Init
  /\ req = [r \in Readers |-> IdleReq]
  /\ replies = << >>
  /\ downloads = [p \in Packages |-> [v \in Versions |-> 0]]

(* GET /api/install/@owner/slug, with a range or a version.                 *)
InstallRequest(r, p, ask, range) ==
  /\ ask = None \/ range = {}
  /\ Arrives(r, "install", p, ask, range, "list")

(* GET /api/tools/@owner/slug, with or without a version.                   *)
ToolRequest(r, p, ask) == Arrives(r, "tool", p, ask, {}, "list")

(* GET /api/artifacts/@owner/slug/@version.                                 *)
ArtifactRequest(r, p, ask) == Arrives(r, "artifact", p, ask, {}, "gate")

(* installByName and writeVersionResponse list the version directories.     *)
ListVersions(r) ==
  /\ req[r].pc = "list"
  /\ LET q == req[r]
         found == {v \in Versions : <<q.pkg, v>> \in dirs}
         asked == IF q.ask # None THEN {q.ask} ELSE found \cap q.range
     IN  CASE found = {} \/ (q.kind = "install" /\ asked = {}) ->
                Reply(r, q, 404, "idle")
           [] found # {} /\ q.kind = "install" /\ asked # {} ->
                /\ Goes(r, [q EXCEPT !.version = Highest(asked)], "manifest")
                /\ UNCHANGED replies
           [] found # {} /\ q.kind = "tool" ->
                /\ Goes(r, [q EXCEPT !.list = found], "latest")
                /\ UNCHANGED replies
  /\ UNCHANGED <<vars, moderation, downloads>>

(* writeVersionResponse reads latest.json.                                  *)
ReadLatest(r) ==
  /\ req[r].pc = "latest"
  /\ LET q == req[r]
         named == latest[q.pkg]
         newest == IF named # None THEN named ELSE PickLatest(q.list)
     IN  Goes(r, [q EXCEPT !.latest = newest,
                           !.version = IF q.ask # None THEN q.ask ELSE newest],
              "manifest")
  /\ UNCHANGED <<vars, moderation, replies, downloads>>

(* corpus.ReadVersion reads the three files of the version one by one.      *)
ReadManifest(r) ==
  /\ req[r].pc = "manifest"
  /\ LET q == req[r]
         body == file[<<q.pkg, q.version, "manifest">>]
     IN  IF body = None
         THEN Reply(r, q, 404, "idle")
         ELSE Goes(r, [q EXCEPT !.manifest = body], "index") /\ UNCHANGED replies
  /\ UNCHANGED <<vars, moderation, downloads>>

ReadIndex(r) ==
  /\ req[r].pc = "index"
  /\ LET q == req[r]
     IN  IF file[<<q.pkg, q.version, "index">>] = None
         THEN Reply(r, q, 404, "idle")
         ELSE Goes(r, q, "sha") /\ UNCHANGED replies
  /\ UNCHANGED <<vars, moderation, downloads>>

(* Mutant of ReadSha: the SHA-256 of the newest version.                    *)
ReadShaOfLatest(r) ==
  /\ req[r].pc = "sha"
  /\ LET q == req[r]
         newest == IF latest[q.pkg] = None THEN q.version ELSE latest[q.pkg]
         body == file[<<q.pkg, newest, "sha">>]
     IN  IF body = None THEN Reply(r, q, 404, "idle")
         ELSE Reply(r, [q EXCEPT !.sha = body], 200, "idle")
  /\ UNCHANGED <<vars, moderation, downloads>>

ReadSha(r) ==
  /\ req[r].pc = "sha"
  /\ LET q == req[r]
         body == file[<<q.pkg, q.version, "sha">>]
         read == [q EXCEPT !.sha = body]
     IN  CASE body = None -> Reply(r, q, 404, "idle")
           [] body # None /\ q.kind = "tool" -> Reply(r, read, 200, "idle")
           [] body # None /\ q.kind = "install" ->
                Goes(r, read, "gate") /\ UNCHANGED replies
  /\ UNCHANGED <<vars, moderation, downloads>>

(* Mutant of Refused: takedowns bind downloads only.                       *)
RefusedDownload(q) == q.kind = "artifact" /\ Withdrawn(q.pkg, q.version)

Refused(q) == Withdrawn(q.pkg, q.version)

(* PkgState.Get: the last gate of an install, the first of a download.  The *)
(* error of a query that fails is dropped, and the version then passes for  *)
(* a clean one.                                                             *)
Gate(r) ==
  /\ req[r].pc = "gate"
  /\ LET q == IF req[r].kind = "artifact"
              THEN [req[r] EXCEPT !.version = req[r].ask] ELSE req[r]
         clean == [q EXCEPT !.failed = Refused(q)]
     IN  \/ Refused(q) /\ Reply(r, q, 410, "idle")
         \/ IF q.kind = "install"
            THEN Reply(r, clean, 200, "idle")
            ELSE Goes(r, clean, "open") /\ UNCHANGED replies
  /\ UNCHANGED <<vars, moderation, downloads>>

(* fsStore.Get opens the tarball, which the handler then streams whatever   *)
(* happens to its name, and reads the sidecar, of any length.               *)
OpenArtifact(r) ==
  /\ req[r].pc = "open"
  /\ LET q == req[r]
         body == file[<<q.pkg, q.version, "tgz">>]
     IN  IF body = None
         THEN Reply(r, q, 404, "idle")
         ELSE Goes(r, [q EXCEPT !.tgz = body], "sum") /\ UNCHANGED replies
  /\ UNCHANGED <<vars, moderation, downloads>>

ReadSum(r) ==
  /\ req[r].pc = "sum"
  /\ LET q == req[r]
         body == file[<<q.pkg, q.version, "tgzsha">>]
     IN  IF body = None
         THEN Reply(r, [q EXCEPT !.tgz = None], 404, "idle")
         ELSE Reply(r, [q EXCEPT !.sha = body], 200, "count")
  /\ UNCHANGED <<vars, moderation, downloads>>

(* Mutant of CountDownload: an insert that succeeded may be tried again.    *)
CountRetried(r) ==
  /\ req[r].pc = "count"
  /\ LET q == req[r]
     IN downloads' = [downloads EXCEPT ![q.pkg][q.version] = @ + 1]
  /\ req' \in {req, [req EXCEPT ![r] = IdleReq]}
  /\ UNCHANGED <<vars, moderation, replies>>

(* The insert is retried by nobody: when it fails the count stays.          *)
CountDownload(r) ==
  /\ req[r].pc = "count"
  /\ LET q == req[r]
     IN downloads' \in {downloads, [downloads EXCEPT ![q.pkg][q.version] = @ + 1]}
  /\ req' = [req EXCEPT ![r] = IdleReq]
  /\ UNCHANGED <<vars, moderation, replies>>

Serve(r) ==
  \/ \E p \in Packages :
       \/ \E s \in Asked : LET v == Canonical[s] IN
            InstallRequest(r, p, v, {}) \/ ArtifactRequest(r, p, v) \/ ToolRequest(r, p, v)
       \/ \E range \in Ranges : InstallRequest(r, p, None, range)
       \/ ToolRequest(r, p, None)
  \/ ListVersions(r) \/ ReadLatest(r)
  \/ ReadManifest(r) \/ ReadIndex(r) \/ ReadSha(r)
  \/ Gate(r) \/ OpenArtifact(r) \/ ReadSum(r) \/ CountDownload(r)

ServingNext ==
  \/ Next /\ UNCHANGED <<moderation, serving>>
  \/ /\ Moderation!Next
     /\ \A h \in Handlers : calls'[h].pc = "exec" => calls'[h].action.op \in Requested
     /\ UNCHANGED <<vars, serving>>
  \/ \E r \in Readers : Serve(r)

ServingSpec == ServingInit /\ [][ServingNext]_allVars

-----------------------------------------------------------------------------
(* The answers with status 200 ...                                          *)
Served == {i \in DOMAIN replies : replies[i].pc = 200}

(* ... and what each says of the content of its version.                    *)
Describes(i) == IF replies[i].kind = "artifact" THEN replies[i].tgz ELSE replies[i].sha

(* What the API told a client of a released version, and the bytes it gave  *)
(* it, are whole, of one commit, and stay those of the artifact: the        *)
(* SHA-256 that a lockfile recorded is the one of every later download,     *)
(* although crawls crash between two files and the answer was put together  *)
(* from several reads.  (That a tag which moves leaves the artifact alone   *)
(* is ArtifactImmutable of Crawler.)                                        *)
AnswersStayTrue ==
  \A i \in Served :
    LET q == replies[i]
    IN  q.version # Synthetic =>
          /\ Describes(i) = file[<<q.pkg, q.version, "tgz">>]
          /\ q.kind # "artifact" => q.sha = q.manifest

(* No request that arrives after the takedown of a version under its        *)
(* canonical spelling installs or downloads it, however the request spells  *)
(* it, but for a query of package_state that fails.  And nothing is refused *)
(* as gone for another takedown: that of "*", or of "1.0.0" for v1.0.0,     *)
(* is recorded and takes nothing down (see README.md).                      *)
WithdrawnStaysGone ==
  /\ \A i \in Served :
       replies[i].kind # "tool" /\ ~replies[i].failed =>
         replies[i].version \notin replies[i].gone
  /\ \A i \in DOMAIN replies :
       replies[i].pc = 410 => Withdrawn(replies[i].pkg, replies[i].version)

(* Only downloads that were served are counted.                             *)
DownloadsWereServed ==
  \A p \in Packages, v \in Versions :
    downloads[p][v] <= Cardinality({i \in Served :
      <<replies[i].kind, replies[i].pkg, replies[i].version>> = <<"artifact", p, v>>})

=============================================================================
