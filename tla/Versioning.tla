------------------------------ MODULE Versioning ------------------------------
(***************************************************************************)
(* Versions, their order and ranges (internal/versioning), over the        *)
(* versions a package has in the corpus.                                   *)
(*                                                                         *)
(* A version is what golang.org/x/mod/semver parses: three numbers, a      *)
(* prerelease and build metadata.  Prereleases are numbered in the order   *)
(* of their precedence, and Released comes after all of them.  A spec may  *)
(* leave numbers out at the end.  Text that is no such thing is refused    *)
(* and left out.  That v0.0.0 is replaced file by file is Crawler's.       *)
(***************************************************************************)
EXTENDS Integers, FiniteSets

CONSTANTS
  Numbers,      \* what major, minor and patch may be
  Prereleases,  \* the number of prereleases of a version
  Builds,       \* build metadata, with NoBuild for none
  NoBuild,
  Absent,       \* a number that was left out
  None,         \* what a latest.json that is not there names
  MaxVersions   \* bound on the versions of the package

ASSUME NumbersAssumption == Numbers \subseteq Nat /\ 0 \in Numbers /\ Absent \notin Numbers
ASSUME BuildsAssumption == NoBuild \in Builds
ASSUME PrereleasesAssumption == Prereleases \in Nat /\ MaxVersions \in Nat

Released == Prereleases + 1

Versions ==
  [major : Numbers, minor : Numbers, patch : Numbers, pre : 1 .. Released, build : Builds]
Synthetic == [major |-> 0, minor |-> 0, patch |-> 0, pre |-> Released, build |-> NoBuild]

ASSUME NoneAssumption == None \notin Versions

(* What tags and the bounds of ranges may spell.                            *)
Spelled ==
  {s \in [major : Numbers, minor : Numbers \cup {Absent}, patch : Numbers \cup {Absent},
          pre : 1 .. Released, build : Builds] :
     s.minor = Absent => s.patch = Absent}
Latest == [kind |-> "latest", bound |-> Synthetic]   \* "" too; it has no bound
Specs == {Latest} \cup [kind : {"exact", "caret", "tilde"}, bound : Spelled]

VARIABLES
  corpus,   \* the versions in corpus/<owner>/<slug>/versions
  latest    \* the version that its latest.json names

vars == <<corpus, latest>>

-----------------------------------------------------------------------------
(* ParseVersion refuses anything but a full triple.                         *)
ParsesAsVersion(s) == s.minor # Absent /\ s.patch # Absent

IsPrerelease(v) == v.pre # Released

Sign(a, b) == IF a < b THEN -1 ELSE IF a > b THEN 1 ELSE 0

(* semver.Compare: build metadata does not count.                           *)
Compare(v, w) ==
  CASE v.major # w.major -> Sign(v.major, w.major)
    [] v.major = w.major /\ v.minor # w.minor -> Sign(v.minor, w.minor)
    [] v.major = w.major /\ v.minor = w.minor /\ v.patch # w.patch -> Sign(v.patch, w.patch)
    [] OTHER -> Sign(v.pre, w.pre)

(* normalizeBound: numbers left out are 0.                                  *)
OrZero(n) == IF n = Absent THEN 0 ELSE n
NormalizeBound(s) ==
  [major |-> s.major, minor |-> OrZero(s.minor), patch |-> OrZero(s.patch),
   pre |-> s.pre, build |-> s.build]

(* It appends them to the text, behind a prerelease or a build: "^1.2-beta" *)
(* becomes v1.2-beta.0, which ParseVersion refuses.                         *)
ParsesAsBound(s) == ParsesAsVersion(s) \/ (s.pre = Released /\ s.build = NoBuild)

(* Mutant of ParsesAsRange: the numbers are filled in before the suffix.    *)
ParsesSuffixed(spec) == spec.kind = "exact" => ParsesAsVersion(spec.bound)

ParsesAsRange(spec) ==
  \/ spec.kind = "latest"
  \/ spec.kind = "exact" /\ ParsesAsVersion(spec.bound)
  \/ spec.kind \in {"caret", "tilde"} /\ ParsesAsBound(spec.bound)
ParseRange(spec) == [kind |-> spec.kind, bound |-> NormalizeBound(spec.bound)]

(* Mutant of Matches: a tilde range is bounded by its major version.        *)
MatchesLoosely(r, v) ==
  CASE r.kind = "latest" -> ~IsPrerelease(v)
    [] r.kind = "exact"  -> Compare(v, r.bound) = 0
    [] OTHER -> ~IsPrerelease(v) /\ v.major = r.bound.major /\ Compare(v, r.bound) >= 0

Matches(r, v) ==
  CASE r.kind = "latest" -> ~IsPrerelease(v)
    [] r.kind = "exact"  -> Compare(v, r.bound) = 0
    [] r.kind = "caret"  ->
         ~IsPrerelease(v) /\ v.major = r.bound.major /\ Compare(v, r.bound) >= 0
    [] r.kind = "tilde"  ->
         /\ ~IsPrerelease(v)
         /\ v.major = r.bound.major /\ v.minor = r.bound.minor
         /\ Compare(v, r.bound) >= 0

(* Mutant of HighestMatch: the bound of the range when it is there.         *)
FirstMatch(r, all) ==
  IF r.bound \in all /\ Matches(r, r.bound) THEN {r.bound}
  ELSE {v \in all : Matches(r, v) /\ \A w \in all : Matches(r, w) => Compare(v, w) >= 0}

(* HighestMatch sorts the matches and takes the last one.  sort.Slice may   *)
(* leave any of the versions that compare equal there.                      *)
HighestMatch(r, all) ==
  {v \in all : Matches(r, v) /\ \A w \in all : Matches(r, w) => Compare(v, w) >= 0}

(* Mutant of PickLatest: the last one.                                      *)
PickLast(all) == {v \in all : \A w \in all : Compare(v, w) >= 0}

(* pickLatest of the API: the last one that is stable, or else the last one. *)
PickLatest(all) ==
  LET stable == {v \in all : ~IsPrerelease(v)}
      from == IF stable # {} THEN stable ELSE all
  IN  {v \in from : \A w \in from : Compare(v, w) >= 0}

(* What the tool page of the package shows.                                 *)
Page == IF latest # None THEN {latest} ELSE PickLatest(corpus)

(* What GET /api/install answers to ?range=spec, and what upgrade asks for. *)
Resolved(spec, all) == HighestMatch(ParseRange(spec), all)
UpgradeRange(pin) ==
  [kind |-> "caret", bound |-> [major |-> pin.major, minor |-> pin.minor, patch |-> 0,
                              pre |-> Released, build |-> NoBuild]]

(* Mutant of Upgraded: the pinned version is not left out.                  *)
UpgradedAgain(pin, all) ==
  {v \in HighestMatch(UpgradeRange(pin), all) : Compare(v, pin) >= 0}

Upgraded(pin, all) ==
  {v \in HighestMatch(UpgradeRange(pin), all) : Compare(v, pin) > 0}

-----------------------------------------------------------------------------
Init == corpus = {} /\ latest = None

(* The crawler ingests a tag; ScanTags drops those that are no version.     *)
(* latest.json names it in the end, whatever it named before, unless the    *)
(* run stops: the tag is then in the corpus and not ingested again.         *)
Ingest(tag) ==
  /\ ParsesAsVersion(tag) /\ tag \notin corpus
  /\ Cardinality(corpus) < MaxVersions
  /\ corpus' = corpus \cup {tag}
  /\ latest' \in {latest, tag}

(* A new commit of a repository that has no tags, or none any more.         *)
Replace ==
  /\ Synthetic \in corpus
  /\ latest' = Synthetic
  /\ UNCHANGED corpus

Next == Replace \/ \E tag \in Spelled : Ingest(tag)

Spec == Init /\ [][Next]_vars

TypeOK == corpus \subseteq Versions /\ latest \in corpus \cup {None}

-----------------------------------------------------------------------------
(***************************************************************************)
(* What docs/versioning.md says.                                           *)
(***************************************************************************)
(* Standard semver order: the first number that differs decides.            *)
Precedence(v) == <<v.major, v.minor, v.patch, v.pre>>
Newer(v, w) ==
  \E i \in 1 .. 4 :
    /\ Precedence(v)[i] > Precedence(w)[i]
    /\ \A k \in 1 .. i - 1 : Precedence(v)[k] = Precedence(w)[k]

(* The table of ranges: "^1.2.3" is the highest 1.x.y where y >= 3 when x   *)
(* is 2, up to the next major; "~1.2" the highest 1.2.x; and prereleases    *)
(* come out only of specs that name them.                                   *)
Given(n, m) == n # Absent => n = m
FromPatch(b, v) ==
  b.patch # Absent /\ v.minor = b.minor =>
    v.patch > b.patch \/ (v.patch = b.patch /\ v.pre >= b.pre)
Documented(spec, v) ==
  LET b == spec.bound
  IN  CASE spec.kind = "latest" -> v.pre = Released
        [] spec.kind = "exact"  -> v = b
        [] spec.kind = "caret"  ->
             /\ v.pre = Released /\ v.major = b.major
             /\ b.minor # Absent => v.minor >= b.minor
             /\ FromPatch(b, v)
        [] spec.kind = "tilde"  ->
             /\ v.pre = Released /\ v.major = b.major
             /\ IF b.minor = Absent THEN v.minor = 0 ELSE v.minor = b.minor
             /\ FromPatch(b, v)

(* Resolution is what the documentation says, whatever the corpus holds:    *)
(* the newest of the versions that the range means (docs/versioning.md:43). *)
(* But an exact spec means "only v1.2.3" (docs/versioning.md:35), and where *)
(* the corpus has v1.2.3 with other build metadata than the spec, it        *)
(* resolves to any of the builds.                                           *)
BuildsOf(spec) == {v \in corpus : Precedence(v) = Precedence(spec.bound)}
ResolvesAsDocumented ==
  \A spec \in Specs : ParsesAsRange(spec) =>
    LET meant == {v \in corpus : Documented(spec, v)}
    IN  Resolved(spec, corpus) =
          IF spec.kind = "exact" /\ BuildsOf(spec) \ {spec.bound} # {}
          THEN BuildsOf(spec)
          ELSE {v \in meant : ~ \E w \in meant : Newer(w, v)}

(* An upgrade is worth one call: it leaves nothing to upgrade to, stays in  *)
(* the major version of the pin, and leaves a stable pin at a stable one.   *)
UpgradeSettles ==
  \A pin \in corpus : \A v \in Upgraded(pin, corpus) :
    /\ Upgraded(v, corpus) = {}
    /\ v.major = pin.major /\ Newer(v, pin) /\ ~IsPrerelease(v)

(* The tool page names a version that is in the corpus and, unless that is  *)
(* a prerelease, none newer than what an install without a range resolves   *)
(* to; without a latest.json it names one of the same precedence.  This     *)
(* holds in whatever order versions are ingested and wherever a run stops.  *)
(* (The page may show an older version, or a prerelease: see README.md.)    *)
PageNotAhead ==
  \A v \in Page :
    /\ v \in corpus
    /\ \A w \in Resolved(Latest, corpus) :
         /\ ~IsPrerelease(v) => ~Newer(v, w)
         /\ latest = None => Compare(v, w) = 0

(* A release never makes a range resolve to an older version than before,   *)
(* or to nothing.                                                           *)
NeverDowngrades ==
  [][\A spec \in Specs : ParsesAsRange(spec) =>
       \A v \in Resolved(spec, corpus) :
         /\ Resolved(spec, corpus') # {}
         /\ \A w \in Resolved(spec, corpus') : ~Newer(v, w)]_corpus

=============================================================================
