-------------------------------- MODULE Client --------------------------------
(***************************************************************************)
(* The inguma CLI: install, install --frozen, upgrade and uninstall        *)
(* (internal/clicmd) over inguma.lock (internal/lockfile), state.json      *)
(* (internal/state), the harness configurations (internal/adapters) and    *)
(* the executables of command-line tools (internal/toolfetch).             *)
(*                                                                         *)
(* Commands run as processes that share those files and take no lock.      *)
(* Every file operation and every API call is a step.  An error of any     *)
(* step ends the whole command, nested installs included, and undoes       *)
(* nothing.                                                                *)
(*                                                                         *)
(* A command-line tool has a binary source whose address names its version; *)
(* npm and go install what their registries call latest, and are left out. *)
(* A package has one kind, manifest name and name of its executable for    *)
(* all its versions; what it includes or recommends is up to each version.  *)
(* --dry-run and --lock-dir - are left out, and so are the bare-slug        *)
(* installs of v1.                                                         *)
(***************************************************************************)
EXTENDS Naturals, Sequences, FiniteSets

CONSTANTS
  Packages,      \* @owner/slug
  Names,         \* names of manifests, the keys of configurations and state
  NameOf,        \* the name in the manifest of each package
  Bins,          \* names of executables, the files of ~/.inguma/bin
  BinOf,         \* the cli.bin in the manifest of each package
  Kind,          \* "mcp", "bundle", "cli", or "other"; adapters write "mcp"
  Includes,      \* the includes of each version of a bundle, in order
  Companions,    \* the companions of each version of a package, in order
  MaxVersion,    \* versions are 0 .. MaxVersion; 0 is v0.0.0
  Major, Minor,  \* of each version
  Contents,      \* what a version may hold
  Republished,   \* whether v0.0.0 is replaced in place by the crawler
  Harnesses,     \* the harnesses that a command targets
  Clients,       \* processes
  Commands,      \* the commands that users run
  Specs,         \* what they ask for, as sets of versions
  MaxDepth,      \* bound on nested installs
  MaxFaults,     \* bound on crashes and failed writes of configurations
  HarnessFails,  \* whether an adapter may fail
  None, Torn, Corrupt

Versions == 0 .. MaxVersion
Synthetic == 0

Modes == {"install", "frozen", "upgrade", "uninstall"}
Requests == [pkg : Packages, spec : SUBSET Versions]
Pins == [version : Versions, sha : Contents]
Locks == [Packages -> Pins \cup {None}]
Entries == [pkg : Packages, version : Versions, content : Contents]

ASSUME NamesAssumption ==
  NameOf \in [Packages -> Names] /\ BinOf \in [Packages -> Bins]
ASSUME KindAssumption == Kind \in [Packages -> {"mcp", "bundle", "cli", "other"}]
ASSUME MembersAssumption ==
  /\ Includes \in [Packages -> [Versions -> Seq(Requests)]]
  /\ Companions \in [Packages -> [Versions -> Seq(Requests)]]
ASSUME ClientVersionsAssumption ==
  /\ MaxVersion \in Nat
  /\ Major \in [Versions -> Nat] /\ Minor \in [Versions -> Nat]
  /\ Specs \subseteq SUBSET Versions
ASSUME CommandsAssumption == Commands \subseteq Modes
ASSUME LimitsAssumption ==
  /\ MaxDepth \in Nat /\ MaxFaults \in Nat
  /\ Republished \in BOOLEAN /\ HarnessFails \in BOOLEAN
ASSUME TargetsAssumption == Harnesses # {}
ASSUME AbsenceAssumption ==
  /\ None \notin Contents \cup Packages \cup Names \cup Harnesses \cup Versions
  /\ None \notin Modes \cup Pins
  /\ None # Torn /\ Torn # Corrupt /\ Corrupt # None
  /\ \A x \in {None, Torn, Corrupt} : x \notin Locks /\ x \notin Entries

VARIABLES
  published,  \* the registry: the content of each version, None if absent
  config,     \* config[h][n]: the entry of name n in the file of harness h
  state,      \* the <<name, harness>> records of state.json
  lock,       \* inguma.lock: None, Torn, Corrupt or a pin of each package
  bins,       \* bins[x]: the executable ~/.inguma/bin/x
  proc,       \* the commands in progress
  applied,    \* history: <<package, version, content>> of completed applies
  faults

files == <<config, state, lock, bins>>
vars == <<published, config, state, lock, bins, proc, applied, faults>>

NoPins == [p \in Packages |-> None]
Readable(l) == l \notin {None, Torn, Corrupt}

(* lockfile.ReadFile of a file that exists: the empty file that os.Create   *)
(* leaves behind decodes as a lock without packages.                        *)
Decoded(l) == IF l = Torn THEN NoPins ELSE l
Pinned(l) == {p \in Packages : l[p] # None}

(***************************************************************************)
(* The control state of a command.  stack holds the nested installs, the   *)
(* innermost one first, and more the indices of the members that each has  *)
(* yet to install; targets the lock entries of a frozen install or an      *)
(* upgrade, todo those yet to visit; lk, st and cfg what was read of the   *)
(* three files; name and entry what goes into the harnesses that are left. *)
(***************************************************************************)
Frames == [pkg : Packages, spec : SUBSET Versions, version : Versions \cup {None},
           sha : Contents \cup {None}, more : SUBSET Nat, nested : BOOLEAN]
Frame(q, nested) ==
  [pkg |-> q.pkg, spec |-> q.spec, version |-> None, sha |-> None,
   more |-> {}, nested |-> nested]

(* What a nested install is for: a bundle has includes, others companions.  *)
Members(p, v) == IF Kind[p] = "bundle" THEN Includes[p][v] ELSE Companions[p][v]
First(S) == CHOOSE i \in S : \A k \in S : i <= k

Idle == [pc |-> "idle", mode |-> None, stack |-> << >>, targets |-> {}, todo |-> {}, lk |-> NoPins,
         changed |-> FALSE, st |-> {}, left |-> {}, harness |-> None,
         cfg |-> None, name |-> None, entry |-> None]

At(c, pc) == proc[c].pc = pc
Top(c) == Head(proc[c].stack)
WithTop(j, f) == [j EXCEPT !.stack = <<f>> \o Tail(@)]

(* The innermost install is over.                                           *)
Popped(j) ==
  LET rest == Tail(j.stack)
  IN  IF rest # << >> THEN [j EXCEPT !.stack = rest, !.pc = "more"]
      ELSE IF j.mode = "install" THEN Idle
      ELSE [j EXCEPT !.stack = << >>, !.pc = "next"]

Step(c, j) == proc' = [proc EXCEPT ![c] = j]
Fail(c) == Step(c, Idle)

Greatest(S) == CHOOSE v \in S : \A w \in S : w <= v

-----------------------------------------------------------------------------
Init ==
  /\ published = [p \in Packages |-> [v \in Versions |-> None]]
  /\ config = [h \in Harnesses |-> [n \in Names |-> None]]
  /\ state = {}
  /\ lock = None
  /\ bins = [x \in Bins |-> None]
  /\ proc = [c \in Clients |-> Idle]
  /\ applied = {}
  /\ faults = 0

(* The crawler releases a version, or replaces v0.0.0.                      *)
Publish(p, v, k) ==
  /\ published[p][v] = None \/ (v = Synthetic /\ Republished)
  /\ published[p][v] # k
  /\ published' = [published EXCEPT ![p][v] = k]
  /\ UNCHANGED <<files, proc, applied, faults>>

(***************************************************************************)
(* The commands.                                                           *)
(***************************************************************************)
Install(c, q) ==
  /\ At(c, "idle")
  /\ "install" \in Commands
  /\ Step(c, [Idle EXCEPT !.pc = "resolve", !.mode = "install",
                          !.stack = <<Frame(q, FALSE)>>])
  /\ UNCHANGED <<published, files, applied, faults>>

(* A frozen install and an upgrade start by reading the lock, and refuse    *)
(* one that is missing or does not parse.  They visit one entry or all.     *)
Listed == IF lock \in {None, Corrupt} THEN {} ELSE Pinned(Decoded(lock))
OverLock(c, mode, entries) ==
  /\ At(c, "idle")
  /\ mode \in Commands
  /\ entries # {}
  /\ Step(c, [Idle EXCEPT !.pc = "next", !.mode = mode, !.lk = Decoded(lock),
                          !.targets = entries, !.todo = entries])
  /\ UNCHANGED <<published, files, applied, faults>>

(* Uninstall targets the harnesses that state.json lists for the name.      *)
Uninstall(c, n) ==
  LET recorded == {h \in Harnesses : <<n, h>> \in state}
  IN  /\ At(c, "idle")
      /\ "uninstall" \in Commands
      /\ recorded # {}
      /\ Step(c, [Idle EXCEPT !.pc = "harness", !.mode = "uninstall", !.name = n,
                              !.st = state, !.left = recorded])
      /\ UNCHANGED <<published, files, applied, faults>>

(* Mutant of Asked: upgrade asks for the latest version.                    *)
AskedLatest(j, p) ==
  IF j.mode = "frozen" THEN {j.lk[p].version} ELSE Versions

(* What the loop over the lock asks for: the pinned version, or every       *)
(* version in the caret range of its major and minor.                       *)
Asked(j, p) ==
  LET v == j.lk[p].version
  IN  IF j.mode = "frozen" THEN {v}
      ELSE {w \in Versions : Major[w] = Major[v] /\ Minor[w] >= Minor[v]}

(* A frozen install reads the lock again for each entry, and gives up when  *)
(* it no longer pins that version.                                          *)
StillPinned(j, p) ==
  /\ lock \notin {None, Corrupt}
  /\ Decoded(lock)[p] # None
  /\ Decoded(lock)[p].version = j.lk[p].version

NextEntry(c) ==
  /\ At(c, "next")
  /\ \E p \in proc[c].todo :
       IF proc[c].mode = "frozen" /\ ~StillPinned(proc[c], p)
       THEN Fail(c)
       ELSE Step(c, [proc[c] EXCEPT !.todo = @ \ {p}, !.pc = "resolve",
                  !.stack = <<Frame([pkg |-> p, spec |-> Asked(proc[c], p)], FALSE)>>])
  /\ UNCHANGED <<published, files, applied, faults>>

(* Mutant of LoopDone: the lock is not written.                             *)
LoopDoneUnsaved(c) ==
  /\ At(c, "next")
  /\ proc[c].todo = {}
  /\ Step(c, Idle)
  /\ UNCHANGED <<published, files, applied, faults>>

(* The loop is over; an upgrade that changed something writes the lock.     *)
LoopDone(c) ==
  /\ At(c, "next")
  /\ proc[c].todo = {}
  /\ Step(c, IF proc[c].changed THEN [proc[c] EXCEPT !.pc = "lockCreate"] ELSE Idle)
  /\ UNCHANGED <<published, files, applied, faults>>

(***************************************************************************)
(* One install.                                                            *)
(***************************************************************************)
(* GetVersionedInstall: the highest version of the range.  An upgrade goes  *)
(* on only when it is newer than the pin.                                   *)
Resolve(c) ==
  /\ At(c, "resolve")
  /\ LET f == Top(c)
         found == {v \in f.spec : published[f.pkg][v] # None}
         v == Greatest(found)
     IN  IF found = {} THEN Fail(c)
         ELSE IF proc[c].mode = "upgrade" /\ v <= proc[c].lk[f.pkg].version
         THEN Step(c, Popped(proc[c]))
         ELSE Step(c, WithTop([proc[c] EXCEPT !.pc = "tool"],
                [f EXCEPT !.version = v, !.sha = published[f.pkg][v]]))
  /\ UNCHANGED <<published, files, applied, faults>>

(* bundles.Expand refuses self-includes and duplicates.                     *)
Expands(p, v) ==
  LET inc == Includes[p][v]
  IN  /\ \A i \in DOMAIN inc : inc[i].pkg # p
      /\ \A i, k \in DOMAIN inc : inc[i].pkg = inc[k].pkg => i = k

(* Mutant of AfterTool: only a plain install fetches the tool.              *)
AfterToolInstall(j) ==
  IF Kind[Head(j.stack).pkg] = "cli" /\ j.mode = "install" THEN "binary" ELSE "apply"

(* applyInstall fetches a command-line tool before anything else; an        *)
(* upgrade does not call it.                                                *)
AfterTool(j) ==
  IF Kind[Head(j.stack).pkg] = "cli" /\ j.mode # "upgrade" THEN "binary" ELSE "apply"

(* GetVersionedTool: the manifest of the resolved version.  Only a plain    *)
(* install expands a bundle.                                                *)
FetchTool(c) ==
  /\ At(c, "tool")
  /\ LET f == Top(c)
         entry == [pkg |-> f.pkg, version |-> f.version,
                   content |-> published[f.pkg][f.version]]
     IN  IF proc[c].mode = "install" /\ Kind[f.pkg] = "bundle"
         THEN IF Expands(f.pkg, f.version)
              THEN Step(c, WithTop([proc[c] EXCEPT !.pc = "more"],
                                   [f EXCEPT !.more = DOMAIN Includes[f.pkg][f.version]]))
              ELSE Fail(c)
         ELSE Step(c, [proc[c] EXCEPT !.pc = AfterTool(proc[c]), !.entry = entry,
                                      !.name = NameOf[f.pkg]])
  /\ UNCHANGED <<published, files, applied, faults>>

(* toolfetch.Install of a binary source: once it is downloaded and its      *)
(* checksum, if it has one, is right, os.WriteFile truncates the executable *)
(* that cli.bin names, whichever package put one there before ...           *)
CreateBinary(c) ==
  /\ At(c, "binary")
  /\ bins' = [bins EXCEPT ![BinOf[proc[c].entry.pkg]] = Torn]
  /\ Step(c, [proc[c] EXCEPT !.pc = "binaryWrite"])
  /\ UNCHANGED <<published, config, state, lock, applied, faults>>

(* ... and fills it.                                                        *)
WriteBinary(c) ==
  /\ At(c, "binaryWrite")
  /\ bins' = [bins EXCEPT ![BinOf[proc[c].entry.pkg]] = proc[c].entry]
  /\ Step(c, [proc[c] EXCEPT !.pc = "apply"])
  /\ UNCHANGED <<published, config, state, lock, applied, faults>>

(* Mutant of ApiFails: a member that cannot be installed is passed over.    *)
ApiFailsSkips(c) ==
  /\ proc[c].pc \in {"resolve", "tool", "binary", "apply"}
  /\ Step(c, IF proc[c].mode = "install" THEN Popped(proc[c]) ELSE Idle)
  /\ UNCHANGED <<published, files, applied, faults>>

(* The server, the network or the download of a binary fails.               *)
ApiFails(c) ==
  /\ proc[c].pc \in {"resolve", "tool", "binary", "apply"}
  /\ Fail(c)
  /\ UNCHANGED <<published, files, applied, faults>>

(* Mutant of LoadState: what is recorded already is not applied again.      *)
LoadStateSkips(c) ==
  /\ At(c, "apply")
  /\ Step(c, IF proc[c].mode = "install" /\ {proc[c].name} \X Harnesses \subseteq state
             THEN [proc[c] EXCEPT !.pc = "companions", !.name = None, !.entry = None]
             ELSE [proc[c] EXCEPT !.pc = "harness", !.st = state, !.left = Harnesses])
  /\ UNCHANGED <<published, files, applied, faults>>

(* applyInstall loads the state ...                                         *)
LoadState(c) ==
  /\ At(c, "apply")
  /\ Step(c, [proc[c] EXCEPT !.pc = "harness", !.st = state, !.left = Harnesses])
  /\ UNCHANGED <<published, files, applied, faults>>

(* Mutant of Recorded: uninstall leaves the record of a harness.            *)
RecordedOnly(j, h) ==
  [j EXCEPT !.left = @ \ {h}, !.pc = "harness", !.harness = None, !.cfg = None,
            !.st = IF j.mode = "uninstall" THEN @ ELSE @ \cup {<<j.name, h>>}]

Recorded(j, h) ==
  [j EXCEPT !.left = @ \ {h}, !.pc = "harness", !.harness = None, !.cfg = None,
            !.st = IF j.mode = "uninstall" THEN @ \ {<<j.name, h>>}
                   ELSE @ \cup {<<j.name, h>>}]

(* An adapter installs nothing but servers, and uninstalls any name.        *)
Materialises(j) == j.mode = "uninstall" \/ Kind[j.entry.pkg] = "mcp"

(* ... and visits the targets: an adapter reads its configuration file ...  *)
ReadConfig(c) ==
  /\ At(c, "harness")
  /\ \E h \in proc[c].left :
       IF Materialises(proc[c])
       THEN Step(c, [proc[c] EXCEPT !.pc = "write", !.harness = h, !.cfg = config[h]])
       ELSE Step(c, Recorded(proc[c], h))
  /\ UNCHANGED <<published, files, applied, faults>>

(* The other servers of the file stay; an uninstall writes no entry.        *)
Servers(j) == [j.cfg EXCEPT ![j.name] = j.entry]

(* ... and replaces it, by rename, with what it read plus or minus a server.*)
WriteConfig(c) ==
  /\ At(c, "write")
  /\ LET j == proc[c]
     IN  /\ config' = [config EXCEPT ![j.harness] = Servers(j)]
         /\ Step(c, Recorded(j, j.harness))
  /\ UNCHANGED <<published, state, lock, bins, applied, faults>>

(* An adapter cannot read, decode or replace the file of its harness.       *)
AdapterFails(c) ==
  /\ proc[c].pc \in {"harness", "write"} /\ proc[c].left # {}
  /\ HarnessFails /\ faults < MaxFaults
  /\ faults' = faults + 1
  /\ Fail(c)
  /\ UNCHANGED <<published, files, applied>>

Upserted(l, f) == [l EXCEPT ![f.pkg] = [version |-> f.version, sha |-> f.sha]]

(* State.Save, by rename.  An upgrade then updates its copy of the lock.    *)
SaveState(c) ==
  /\ At(c, "harness")
  /\ proc[c].left = {}
  /\ state' = proc[c].st
  /\ LET j == [proc[c] EXCEPT !.name = None, !.entry = None, !.st = {}]
     IN  CASE j.mode = "uninstall" -> Step(c, Idle)
           [] j.mode = "install"   -> Step(c, [j EXCEPT !.pc = "companions"])
           [] j.mode = "frozen"    -> Step(c, Popped(j))
           [] j.mode = "upgrade"   ->
                Step(c, Popped([j EXCEPT !.lk = Upserted(@, Top(c)), !.changed = TRUE]))
  /\ applied' = IF proc[c].entry = None THEN applied
                ELSE applied \cup {<<proc[c].entry.pkg, proc[c].entry.version,
                                     proc[c].entry.content>>}
  /\ UNCHANGED <<published, config, lock, bins, faults>>

(* handleCompanions --with-companions=all, of the outermost install: those  *)
(* without a record under their @owner/slug.                                *)
LoadCompanions(c) ==
  /\ At(c, "companions")
  /\ LET f == Top(c)
         recorded(q) == \E h \in Harnesses : <<q.pkg, h>> \in state
         companions == Companions[f.pkg][f.version]
         missing == {i \in DOMAIN companions : ~recorded(companions[i])}
     IN  Step(c, WithTop([proc[c] EXCEPT !.pc = "more"],
                         [f EXCEPT !.more = IF f.nested THEN {} ELSE missing]))
  /\ UNCHANGED <<published, files, applied, faults>>

(* The next companion or bundle member.  Members of a bundle install their  *)
(* own companions, companions do not.                                       *)
InstallNext(c) ==
  /\ At(c, "more")
  /\ Top(c).more # {}
  /\ Len(proc[c].stack) < MaxDepth
  /\ LET f == Top(c)
         i == First(f.more)
         nested == f.nested \/ Kind[f.pkg] # "bundle"
     IN  Step(c, [proc[c] EXCEPT !.pc = "resolve",
                    !.stack = <<Frame(Members(f.pkg, f.version)[i], nested),
                                [f EXCEPT !.more = @ \ {i}]>> \o Tail(@)])
  /\ UNCHANGED <<published, files, applied, faults>>

(* writeLockEntry.                                                          *)
ReadLock(c) ==
  /\ At(c, "more")
  /\ Top(c).more = {}
  /\ IF lock = Corrupt THEN Fail(c)
     ELSE LET l == IF lock = None THEN NoPins ELSE Decoded(lock)
          IN  Step(c, [proc[c] EXCEPT !.pc = "lockCreate", !.lk = Upserted(l, Top(c))])
  /\ UNCHANGED <<published, files, applied, faults>>

(* lockfile.WriteFile: os.Create truncates the file ...                     *)
CreateLock(c) ==
  /\ At(c, "lockCreate")
  /\ lock' = Torn
  /\ Step(c, [proc[c] EXCEPT !.pc = "lockWrite"])
  /\ UNCHANGED <<published, config, state, bins, applied, faults>>

(* ... and the encoder fills it from the start.  What another process wrote *)
(* meanwhile may stick out behind.                                          *)
WriteLock(c) ==
  /\ At(c, "lockWrite")
  /\ lock' \in {proc[c].lk} \cup IF lock = Torn THEN {} ELSE {Corrupt}
  /\ Step(c, IF proc[c].stack = << >> THEN Idle
             ELSE Popped([proc[c] EXCEPT !.lk = NoPins]))
  /\ UNCHANGED <<published, config, state, bins, applied, faults>>

(* The command is interrupted.                                              *)
Crash(c) ==
  /\ ~At(c, "idle")
  /\ faults < MaxFaults
  /\ faults' = faults + 1
  /\ Fail(c)
  /\ UNCHANGED <<published, files, applied>>

-----------------------------------------------------------------------------
Local(c) ==
  \/ NextEntry(c) \/ LoopDone(c)
  \/ CreateBinary(c) \/ WriteBinary(c)
  \/ LoadState(c) \/ ReadConfig(c) \/ WriteConfig(c) \/ SaveState(c)
  \/ LoadCompanions(c) \/ InstallNext(c)
  \/ ReadLock(c) \/ CreateLock(c) \/ WriteLock(c)

Run(c) ==
  \/ \E p \in Packages, spec \in Specs : Install(c, [pkg |-> p, spec |-> spec])
  \/ \E mode \in {"frozen", "upgrade"}, entries \in {Listed} \cup {{p} : p \in Listed} :
       OverLock(c, mode, entries)
  \/ \E n \in Names : Uninstall(c, n)

Next ==
  \/ \E p \in Packages, v \in Versions, k \in Contents : Publish(p, v, k)
  \/ \E c \in Clients :
       Run(c) \/ Resolve(c) \/ FetchTool(c) \/ Local(c)
         \/ ApiFails(c) \/ AdapterFails(c) \/ Crash(c)

Spec == Init /\ [][Next]_vars

(* A command that runs goes on, the API does not fail for ever, and users   *)
(* keep upgrading each package by name.  (Without a name, an entry that the *)
(* API refuses ends the loop, and what was upgraded before is not pinned.)  *)
FairSpec ==
  /\ Spec
  /\ \A c \in Clients :
       /\ WF_vars(Local(c))
       /\ \A p \in Packages :
            /\ SF_vars(p \in Listed /\ OverLock(c, "upgrade", {p}))
            /\ SF_vars(At(c, "resolve") /\ Top(c).pkg = p /\ Resolve(c))
            /\ SF_vars(At(c, "tool") /\ Top(c).pkg = p /\ FetchTool(c))
            /\ SF_vars(At(c, "apply") /\ Top(c).pkg = p /\ LoadState(c))

-----------------------------------------------------------------------------
(***************************************************************************)
(* Properties.                                                             *)
(***************************************************************************)
ConfigOf == [Names -> Entries \cup {None}]
Procs ==
  [pc : {"idle", "next", "resolve", "tool", "binary", "binaryWrite", "apply", "harness", "write",
         "companions", "more", "lockCreate", "lockWrite"},
   mode : Modes \cup {None},
   stack : Seq(Frames), targets : SUBSET Packages, todo : SUBSET Packages, lk : Locks, changed : BOOLEAN,
   st : SUBSET (Names \X Harnesses), left : SUBSET Harnesses,
   harness : Harnesses \cup {None}, cfg : ConfigOf \cup {None},
   name : Names \cup {None}, entry : Entries \cup {None}]

TypeOK ==
  /\ published \in [Packages -> [Versions -> Contents \cup {None}]]
  /\ config \in [Harnesses -> ConfigOf]
  /\ state \subseteq Names \X Harnesses
  /\ lock \in Locks \cup {None, Torn, Corrupt}
  /\ bins \in [Bins -> Entries \cup {None, Torn}]
  /\ proc \in [Clients -> Procs]
  /\ applied \subseteq Packages \X Versions \X Contents
  /\ faults \in 0 .. MaxFaults

Quiet == \A c \in Clients : At(c, "idle")

(* What the lock pins was applied to every target harness before, with the  *)
(* content whose SHA-256 it records, whatever other commands do and         *)
(* wherever they are interrupted.                                           *)
PinsWhatWasApplied ==
  Readable(lock) =>
    \A p \in Pinned(lock) :
      Kind[p] # "bundle" => <<p, lock[p].version, lock[p].sha>> \in applied

(* Until a command is interrupted or an adapter fails, state.json lists     *)
(* between commands exactly the entries that are in the harnesses, so that  *)
(* uninstall can take back what install did (docs/architecture.md:125).     *)
StateMatchesHarnesses ==
  Quiet /\ faults = 0 =>
    \A p \in Packages, h \in Harnesses :
      Kind[p] = "mcp" =>
        (<<NameOf[p], h>> \in state <=> config[h][NameOf[p]] # None)

(* A frozen install that reaches its end has left every harness, and the    *)
(* directory of executables, with the pinned version of each entry, all     *)
(* installed side by side (docs/lockfile.md:31), whatever versions an       *)
(* upgrade or a torn download left there before.                            *)
FrozenDone(c) == proc[c].mode = "frozen" /\ At(c, "next") /\ proc[c].todo = {}
IsPinned(e, p, v) == e \notin {None, Torn} /\ e.pkg = p /\ e.version = v
FrozenReproducesLock ==
  \A c \in Clients : FrozenDone(c) =>
    \A p \in proc[c].targets :
      LET v == proc[c].lk[p].version
      IN  /\ Kind[p] = "mcp" =>
               \A h \in Harnesses : IsPinned(config[h][NameOf[p]], p, v)
          /\ Kind[p] = "cli" => IsPinned(bins[BinOf[p]], p, v)

(* An upgrade has no pin to lose, to lower or to take over a major version, *)
(* whatever is released or fails while it visits the entries.               *)
UpgradeOnlyMovesForward ==
  \A c \in Clients : proc[c].mode = "upgrade" /\ Readable(lock) =>
    \A p \in Pinned(lock) :
      LET new == proc[c].lk[p]
      IN  /\ new # None
          /\ new.version >= lock[p].version
          /\ Major[new.version] = Major[lock[p].version]

(* A bundle is pinned behind all the members of the version installed:      *)
(* whatever fails on the way, a lock that pins the bundle pins each of      *)
(* them, and each was applied unless it is a bundle in turn.  The installed *)
(* version is the pinned one, or an older one of the same major version     *)
(* where an upgrade, which applies a bundle without expanding it, has moved *)
(* the pin (upgrade.go:102-141): a member added since is then not there.    *)
MembersThere(b, v) ==
  \A i \in DOMAIN Includes[b][v] :
    LET q == Includes[b][v][i]
    IN  /\ lock[q.pkg] # None
        /\ Kind[q.pkg] # "bundle" => \E e \in applied : e[1] = q.pkg /\ e[2] \in q.spec
BundlePinnedLast ==
  Readable(lock) =>
    \A b \in Pinned(lock) :
      Kind[b] = "bundle" =>
        \E v \in Versions :
          /\ MembersThere(b, v)
          /\ v # lock[b].version =>
               /\ v < lock[b].version /\ Major[v] = Major[lock[b].version]
               /\ \E e \in applied : e[1] = b /\ e[2] = lock[b].version

(* When users stop installing and keep upgrading package by package, every  *)
(* pin ends up at the newest release of its major version, although the API *)
(* fails again and again.                                                   *)
Newest(p, v) ==
  \A w \in Versions :
    published[p][w] # None /\ Major[w] = Major[v] /\ Minor[w] >= Minor[v] => w <= v
UpgradesConverge ==
  <>[](\A c \in Clients :
         proc[c].mode # "install" /\ Cardinality(proc[c].targets) <= 1) =>
    \A p \in Packages :
      [](Readable(lock) /\ lock[p] # None =>
           <>(Readable(lock) /\ lock[p] # None /\ Newest(p, lock[p].version)))

=============================================================================
