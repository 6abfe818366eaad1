--------------------------- MODULE VersioningProofs ---------------------------
(***************************************************************************)
(* Proofs about Versioning and Advisories, for any numbers, prereleases    *)
(* and builds and for a corpus of any size.                                *)
(***************************************************************************)
EXTENDS Advisories, TLAPS

LEMMA VersionTypes ==
  ASSUME NEW v \in Versions
  PROVE  /\ v.major \in Nat /\ v.minor \in Nat /\ v.patch \in Nat /\ v.pre \in Nat
         /\ v.pre <= Released
<1>1. v.major \in Numbers /\ v.minor \in Numbers /\ v.patch \in Numbers
  BY DEF Versions
<1>2. v.pre \in 1 .. Released
  BY DEF Versions
<1> QED
  <2>1. Released \in Nat
    BY PrereleasesAssumption DEF Released
  <2>2. v.pre \in Nat /\ v.pre <= Released
    BY <1>2, <2>1
  <2>3. v.major \in Nat /\ v.minor \in Nat /\ v.patch \in Nat
    BY <1>1, NumbersAssumption
  <2> QED
    BY <2>2, <2>3

LEMMA BoundTypes ==
  ASSUME NEW spec \in Specs, NEW b, b = spec.bound
  PROVE  /\ spec.kind \in {"latest", "exact", "caret", "tilde"}
         /\ b.major \in Nat /\ b.pre \in Nat /\ b.pre <= Released
         /\ b.minor = Absent \/ b.minor \in Numbers
         /\ b.patch = Absent \/ b.patch \in Numbers
         /\ b.minor = Absent => b.patch = Absent
<1>1. spec.kind \in {"latest", "exact", "caret", "tilde"} /\ b \in Spelled
  <2>1. Released \in 1 .. Released
    BY PrereleasesAssumption DEF Released
  <2>2. Synthetic \in Spelled
    BY <2>1, NumbersAssumption, BuildsAssumption DEF Spelled, Synthetic
  <2>3. CASE spec = Latest
    BY <2>2, <2>3 DEF Latest
  <2>4. CASE spec \in [kind : {"exact", "caret", "tilde"}, bound : Spelled]
    BY <2>4
  <2> QED
    BY <2>3, <2>4 DEF Specs
<1>2. /\ b \in [major : Numbers, minor : Numbers \cup {Absent},
               patch : Numbers \cup {Absent}, pre : 1 .. Released, build : Builds]
      /\ b.minor = Absent => b.patch = Absent
  BY <1>1 DEF Spelled
<1>3. b.major \in Numbers /\ b.pre \in 1 .. Released
      /\ b.minor \in Numbers \cup {Absent} /\ b.patch \in Numbers \cup {Absent}
  BY <1>2
<1> QED
  <2>1. Released \in Nat
    BY PrereleasesAssumption DEF Released
  <2>2. b.pre \in Nat /\ b.pre <= Released
    BY <1>3, <2>1
  <2>3. b.major \in Nat
    BY <1>3, NumbersAssumption
  <2> QED
    BY <1>1, <1>2, <1>3, <2>2, <2>3

(* semver.Compare orders versions as the documentation says: the first      *)
(* number that differs decides.                                             *)
LEMMA CompareIsPrecedence ==
  ASSUME NEW v \in Versions, NEW w \in Versions
  PROVE  /\ Compare(v, w) \in {-1, 0, 1}
         /\ Compare(v, w) > 0 <=> Newer(v, w)
         /\ Compare(v, w) >= 0 <=> ~Newer(w, v)
         /\ Compare(v, w) = 0 <=> Precedence(v) = Precedence(w)
<1> DEFINE P == Precedence(v)
           Q == Precedence(w)
<1>1. /\ v.major \in Nat /\ v.minor \in Nat /\ v.patch \in Nat /\ v.pre \in Nat
      /\ w.major \in Nat /\ w.minor \in Nat /\ w.patch \in Nat /\ w.pre \in Nat
  BY VersionTypes
<1>2. /\ P[1] = v.major /\ P[2] = v.minor /\ P[3] = v.patch /\ P[4] = v.pre
      /\ Q[1] = w.major /\ Q[2] = w.minor /\ Q[3] = w.patch /\ Q[4] = w.pre
  BY DEF Precedence
<1>3. Newer(v, w) <=> \/ v.major > w.major
                      \/ v.major = w.major /\ v.minor > w.minor
                      \/ v.major = w.major /\ v.minor = w.minor /\ v.patch > w.patch
                      \/ v.major = w.major /\ v.minor = w.minor /\ v.patch = w.patch
                           /\ v.pre > w.pre
  BY <1>1, <1>2, SMTT(30) DEF Newer
<1>4. Newer(w, v) <=> \/ w.major > v.major
                      \/ w.major = v.major /\ w.minor > v.minor
                      \/ w.major = v.major /\ w.minor = v.minor /\ w.patch > v.patch
                      \/ w.major = v.major /\ w.minor = v.minor /\ w.patch = v.patch
                           /\ w.pre > v.pre
  BY <1>1, <1>2, SMTT(30) DEF Newer
<1>5. P = Q <=> /\ v.major = w.major /\ v.minor = w.minor
                /\ v.patch = w.patch /\ v.pre = w.pre
  BY <1>2 DEF Precedence
<1> QED
  BY <1>1, <1>3, <1>4, <1>5 DEF Compare, Sign

(* What a range accepts is what its spelling means, an exact one up to the  *)
(* build metadata.                                                          *)
LEMMA MatchesDocumented ==
  ASSUME NEW spec \in Specs, ParsesAsRange(spec), NEW v \in Versions
  PROVE  Matches(ParseRange(spec), v) <=>
           IF spec.kind = "exact" THEN Precedence(v) = Precedence(spec.bound)
           ELSE Documented(spec, v)
<1> DEFINE b == spec.bound
           r == ParseRange(spec)
<1>1. /\ v.major \in Nat /\ v.minor \in Nat /\ v.patch \in Nat /\ v.pre \in Nat
      /\ v.pre <= Released /\ Released \in Nat
  BY VersionTypes, PrereleasesAssumption DEF Released
<1>2. /\ b.major \in Nat /\ b.pre \in Nat /\ b.pre <= Released
      /\ b.minor = Absent \/ b.minor \in Numbers
      /\ b.patch = Absent \/ b.patch \in Numbers
      /\ b.minor = Absent => b.patch = Absent
      /\ spec.kind \in {"latest", "exact", "caret", "tilde"}
  BY BoundTypes
<1>3. /\ r.kind = spec.kind
      /\ r.bound.major = b.major /\ r.bound.pre = b.pre
      /\ r.bound.minor = OrZero(b.minor) /\ r.bound.patch = OrZero(b.patch)
  BY DEF ParseRange, NormalizeBound
<1>4. /\ OrZero(b.minor) \in Nat /\ OrZero(b.patch) \in Nat
      /\ b.minor # Absent => OrZero(b.minor) = b.minor /\ b.minor \in Nat
      /\ b.patch # Absent => OrZero(b.patch) = b.patch /\ b.patch \in Nat
      /\ b.minor = Absent => OrZero(b.minor) = 0
      /\ b.patch = Absent => OrZero(b.patch) = 0
  BY <1>2, NumbersAssumption DEF OrZero
<1>5. /\ Compare(v, r.bound) >= 0 <=>
            \/ v.major > b.major
            \/ v.major = b.major /\ v.minor > OrZero(b.minor)
            \/ /\ v.major = b.major /\ v.minor = OrZero(b.minor)
               /\ v.patch > OrZero(b.patch)
            \/ /\ v.major = b.major /\ v.minor = OrZero(b.minor)
               /\ v.patch = OrZero(b.patch) /\ v.pre >= b.pre
      /\ Compare(v, r.bound) = 0 <=>
            /\ v.major = b.major /\ v.minor = OrZero(b.minor)
            /\ v.patch = OrZero(b.patch) /\ v.pre = b.pre
  BY <1>1, <1>2, <1>3, <1>4 DEF Compare, Sign
<1>6. IsPrerelease(v) <=> v.pre # Released
  BY DEF IsPrerelease
<1>7. CASE spec.kind = "latest"
  BY <1>3, <1>6, <1>7 DEF Matches, Documented
<1>8. CASE spec.kind = "exact"
  <2>1. b.minor # Absent /\ b.patch # Absent
    BY <1>8 DEF ParsesAsRange, ParsesAsVersion
  <2>2. Precedence(v) = Precedence(b) <=>
          /\ v.major = b.major /\ v.minor = b.minor /\ v.patch = b.patch /\ v.pre = b.pre
    BY DEF Precedence
  <2> QED
    BY <1>3, <1>4, <1>5, <1>8, <2>1, <2>2 DEF Matches
<1>9. CASE spec.kind = "caret"
  BY <1>1, <1>2, <1>3, <1>4, <1>5, <1>6, <1>9 DEF Matches, Documented, FromPatch
<1>10. CASE spec.kind = "tilde"
  BY <1>1, <1>2, <1>3, <1>4, <1>5, <1>6, <1>10 DEF Matches, Documented, FromPatch
<1> QED
  BY <1>2, <1>7, <1>8, <1>9, <1>10

(* Compare is a preorder: two versions, or one and what is below another.   *)
LEMMA CompareOrders ==
  ASSUME NEW u \in Versions, NEW v \in Versions, NEW w \in Versions
  PROVE  /\ Compare(u, v) >= 0 /\ Compare(v, w) >= 0 => Compare(u, w) >= 0
         /\ Compare(u, v) > 0 /\ Compare(v, w) >= 0 => Compare(u, w) > 0
         /\ Compare(u, v) >= 0 <=> Compare(v, u) <= 0
         /\ Compare(u, v) > 0 <=> Compare(v, u) < 0
<1>1. /\ u.major \in Nat /\ u.minor \in Nat /\ u.patch \in Nat /\ u.pre \in Nat
      /\ v.major \in Nat /\ v.minor \in Nat /\ v.patch \in Nat /\ v.pre \in Nat
      /\ w.major \in Nat /\ w.minor \in Nat /\ w.patch \in Nat /\ w.pre \in Nat
  BY VersionTypes
<1> QED
  BY <1>1, SMTT(30) DEF Compare, Sign

(* The corpus holds versions only: short tags are not ingested.  What       *)
(* latest.json names is among them.                                         *)
THEOREM CorpusHoldsVersions == Spec => []TypeOK
<1>1. Init => TypeOK
  BY DEF Init, TypeOK
<1>2. TypeOK /\ [Next]_vars => TypeOK'
  <2> SUFFICES ASSUME TypeOK, [Next]_vars PROVE TypeOK'
    OBVIOUS
  <2>1. ASSUME NEW tag \in Spelled, Ingest(tag) PROVE TypeOK'
    <3>1. tag \in Versions
      BY <2>1 DEF Ingest, ParsesAsVersion, Spelled, Versions
    <3> QED
      BY <2>1, <3>1 DEF TypeOK, Ingest
  <2>2. CASE Replace
    BY <2>2 DEF TypeOK, Replace
  <2>3. CASE UNCHANGED vars
    BY <2>3 DEF TypeOK, vars
  <2> QED
    BY <2>1, <2>2, <2>3 DEF Next
<1> QED
  BY <1>1, <1>2, PTL DEF Spec

(* Every range resolves to the newest of the versions that its spelling     *)
(* means in the documentation; an exact one to the version it names, unless *)
(* there are other builds of it.                                            *)
THEOREM RangesResolveAsDocumented == Spec => []ResolvesAsDocumented
<1>1. TypeOK => ResolvesAsDocumented
  <2> SUFFICES ASSUME TypeOK, NEW spec \in Specs, ParsesAsRange(spec)
               PROVE  Resolved(spec, corpus)
                        = IF spec.kind = "exact" /\ BuildsOf(spec) \ {spec.bound} # {}
                          THEN BuildsOf(spec)
                          ELSE {v \in {u \in corpus : Documented(spec, u)} :
                             ~ \E w \in {u \in corpus : Documented(spec, u)} : Newer(w, v)}
    BY DEF ResolvesAsDocumented
  <2> DEFINE b == spec.bound
  <2>1. \A v \in corpus : v \in Versions
    BY DEF TypeOK
  <2>2. \A v, w \in corpus : /\ Compare(v, w) >= 0 <=> ~Newer(w, v)
                             /\ Precedence(v) = Precedence(w) <=> Compare(v, w) = 0
    BY <2>1, CompareIsPrecedence
  <2>3. CASE spec.kind # "exact"
    <3>1. \A v \in corpus : Matches(ParseRange(spec), v) <=> Documented(spec, v)
      BY <2>1, <2>3, MatchesDocumented
    <3> DEFINE meant == {u \in corpus : Documented(spec, u)}
    <3>2. Resolved(spec, corpus) = {v \in meant : \A w \in meant : Compare(v, w) >= 0}
      BY <3>1 DEF Resolved, HighestMatch
    <3>3. \A v, w \in meant : Compare(v, w) >= 0 <=> ~Newer(w, v)
      BY <2>2
    <3> HIDE DEF meant
    <3>4. Resolved(spec, corpus) = {v \in meant : ~ \E w \in meant : Newer(w, v)}
      BY <3>2, <3>3
    <3> QED
      BY <2>3, <3>4 DEF meant
  <2>4. CASE spec.kind = "exact"
    <3>1. \A v \in corpus : Matches(ParseRange(spec), v) <=> Precedence(v) = Precedence(b)
      BY <2>1, <2>4, MatchesDocumented
    <3>2. \A v, w \in corpus :
            Precedence(v) = Precedence(b) /\ Precedence(w) = Precedence(b) => Compare(v, w) >= 0
      <4> SUFFICES ASSUME NEW v \in corpus, NEW w \in corpus,
                          Precedence(v) = Precedence(b), Precedence(w) = Precedence(b)
                   PROVE  Compare(v, w) >= 0
        OBVIOUS
      <4>1. Precedence(v) = Precedence(w)
        OBVIOUS
      <4>2. Compare(v, w) = 0
        BY ONLY <2>2, <4>1, v \in corpus, w \in corpus
      <4> QED
        BY ONLY <4>2
    <3>3. Resolved(spec, corpus) = BuildsOf(spec)
      BY <3>1, <3>2 DEF Resolved, HighestMatch, BuildsOf
    <3>4. \A v \in corpus : Documented(spec, v) <=> v = b
      BY <2>4 DEF Documented
    <3>5. CASE BuildsOf(spec) \ {b} # {}
      BY <2>4, <3>3, <3>5
    <3>6. CASE BuildsOf(spec) \ {b} = {}
      <4>1. BuildsOf(spec) = {u \in corpus : Documented(spec, u)}
        BY <3>4, <3>6 DEF BuildsOf
      <4>2. \A v, w \in BuildsOf(spec) : ~Newer(w, v)
        <5> SUFFICES ASSUME NEW v \in BuildsOf(spec), NEW w \in BuildsOf(spec)
                     PROVE  ~Newer(w, v)
          OBVIOUS
        <5>1. /\ v \in corpus /\ Precedence(v) = Precedence(b)
              /\ w \in corpus /\ Precedence(w) = Precedence(b)
          BY DEF BuildsOf
        <5>2. Compare(v, w) >= 0
          BY ONLY <3>2, <5>1
        <5> QED
          BY ONLY <2>2, <5>1, <5>2
      <4> QED
        BY <2>4, <3>3, <3>6, <4>1, <4>2
    <3> QED
      BY <3>5, <3>6
  <2> QED
    BY <2>3, <2>4
<1> QED
  BY <1>1, CorpusHoldsVersions, PTL

(* An upgrade leaves nothing to upgrade to, in the same major version.      *)
THEOREM UpgradesSettle == Spec => []UpgradeSettles
<1>1. TypeOK => UpgradeSettles
  <2> SUFFICES ASSUME TypeOK, NEW pin \in corpus, NEW v \in Upgraded(pin, corpus)
               PROVE  /\ Upgraded(v, corpus) = {}
                      /\ v.major = pin.major /\ Newer(v, pin) /\ ~IsPrerelease(v)
    BY DEF UpgradeSettles
  <2> DEFINE r == UpgradeRange(pin)
  <2>1. pin \in Versions /\ v \in Versions /\ v \in corpus
    BY DEF TypeOK, Upgraded, HighestMatch
  <2>2. /\ Compare(v, pin) > 0 /\ Matches(r, v)
        /\ \A w \in corpus : Matches(r, w) => Compare(v, w) >= 0
    BY DEF Upgraded, HighestMatch
  <2>3. r.kind = "caret" /\ r.bound \in Versions /\ r.bound.major = pin.major
    <3>1. Released \in 1 .. Released
      BY PrereleasesAssumption DEF Released
    <3> QED
      BY <2>1, <3>1, NumbersAssumption, BuildsAssumption DEF UpgradeRange, Versions
  <2>4. ~IsPrerelease(v) /\ v.major = pin.major /\ Compare(v, r.bound) >= 0
    BY <2>2, <2>3 DEF Matches
  <2>5. Newer(v, pin)
    BY <2>1, <2>2, CompareIsPrecedence
  <2>6. ASSUME NEW w \in Upgraded(v, corpus) PROVE FALSE
    <3>1. w \in corpus /\ w \in Versions /\ Compare(w, v) > 0
          /\ Matches(UpgradeRange(v), w)
      BY DEF TypeOK, Upgraded, HighestMatch
    <3>2. ~IsPrerelease(w) /\ w.major = v.major
      BY <3>1 DEF Matches, UpgradeRange
    <3>3. Compare(w, r.bound) > 0
      BY <2>1, <2>3, <2>4, <3>1, CompareOrders
    <3>4. Compare(w, r.bound) >= 0
      BY <2>3, <3>1, <3>3, CompareIsPrecedence
    <3>5. Matches(r, w)
      BY <2>3, <2>4, <3>2, <3>4 DEF Matches
    <3>6. Compare(v, w) >= 0
      BY <2>2, <3>1, <3>5
    <3> QED
      BY <2>1, <3>1, <3>6, CompareOrders, CompareIsPrecedence
  <2> QED
    BY <2>4, <2>5, <2>6
<1> QED
  BY <1>1, CorpusHoldsVersions, PTL

(* The tool page names a version of the corpus, and no stable version newer *)
(* than the default install; without latest.json the two are the same, up   *)
(* to build metadata.                                                       *)
THEOREM PageBehindInstall == Spec => []PageNotAhead
<1>1. TypeOK => PageNotAhead
  <2> SUFFICES ASSUME TypeOK, NEW v \in Page
               PROVE  /\ v \in corpus
                      /\ \A w \in Resolved(Latest, corpus) :
                           /\ ~IsPrerelease(v) => ~Newer(v, w)
                           /\ latest = None => Compare(v, w) = 0
    BY DEF PageNotAhead
  <2> DEFINE stable == {u \in corpus : ~IsPrerelease(u)}
  <2>1. \A u : Matches(ParseRange(Latest), u) <=> ~IsPrerelease(u)
    BY DEF Matches, ParseRange, Latest
  <2>2. v \in corpus
    <3>1. CASE latest # None
      BY <3>1 DEF Page, TypeOK
    <3>2. CASE latest = None
      BY <3>2 DEF Page, PickLatest
    <3> QED
      BY <3>1, <3>2
  <2>3. ASSUME NEW w \in Resolved(Latest, corpus)
        PROVE  /\ ~IsPrerelease(v) => ~Newer(v, w)
               /\ latest = None => Compare(v, w) = 0
    <3>1. w \in stable /\ \A u \in stable : Compare(w, u) >= 0
      BY <2>1 DEF Resolved, HighestMatch
    <3>2. v \in Versions /\ w \in Versions
      BY <2>2, <3>1 DEF TypeOK
    <3>3. ~IsPrerelease(v) => ~Newer(v, w)
      BY <2>2, <3>1, <3>2, CompareIsPrecedence
    <3>4. ASSUME latest = None PROVE Compare(v, w) = 0
      <4>1. v \in stable /\ \A u \in stable : Compare(v, u) >= 0
        BY <3>1, <3>4 DEF Page, PickLatest
      <4>2. Compare(v, w) >= 0 /\ Compare(w, v) >= 0
        BY <3>1, <4>1
      <4>3. Compare(v, w) <= 0 /\ Compare(v, w) \in {-1, 0, 1}
        BY <3>2, <4>2, CompareOrders, CompareIsPrecedence
      <4> QED
        BY <4>2, <4>3
    <3> QED
      BY <3>3, <3>4
  <2> QED
    BY <2>2, <2>3
<1> QED
  BY <1>1, CorpusHoldsVersions, PTL

(* New releases never make a range resolve to an older version.             *)
THEOREM ResolutionOnlyRises == Spec => NeverDowngrades
<1> DEFINE Rises ==
      \A spec \in Specs : ParsesAsRange(spec) =>
        \A v \in Resolved(spec, corpus) :
          /\ Resolved(spec, corpus') # {}
          /\ \A w \in Resolved(spec, corpus') : ~Newer(v, w)
<1>1. TypeOK /\ TypeOK' /\ [Next]_vars => [Rises]_corpus
  <2> SUFFICES ASSUME TypeOK, TypeOK', Next, corpus' # corpus,
                      NEW spec \in Specs, ParsesAsRange(spec),
                      NEW v \in Resolved(spec, corpus)
               PROVE  /\ Resolved(spec, corpus') # {}
                      /\ \A w \in Resolved(spec, corpus') : ~Newer(v, w)
    BY DEF vars
  <2> DEFINE r == ParseRange(spec)
  <2>1. PICK tag : corpus' = corpus \cup {tag}
    BY DEF Next, Ingest, Replace
  <2>2. /\ v \in corpus /\ Matches(r, v)
        /\ \A u \in corpus : Matches(r, u) => Compare(v, u) >= 0
    BY DEF Resolved, HighestMatch
  <2>3. v \in Versions /\ tag \in Versions /\ \A u \in corpus : u \in Versions
    BY <2>1, <2>2 DEF TypeOK
  <2>4. \A w \in Resolved(spec, corpus') : ~Newer(v, w)
    <3> SUFFICES ASSUME NEW w \in Resolved(spec, corpus') PROVE ~Newer(v, w)
      OBVIOUS
    <3>1. w \in Versions /\ Compare(w, v) >= 0
      BY <2>1, <2>2 DEF TypeOK, Resolved, HighestMatch
    <3> QED
      BY <2>3, <3>1, CompareIsPrecedence
  <2>5. Resolved(spec, corpus') # {}
    <3>1. CASE Matches(r, tag) /\ Compare(tag, v) >= 0
      <4>1. \A u \in corpus : Matches(r, u) => Compare(tag, u) >= 0
        BY <2>2, <2>3, <3>1, CompareOrders
      <4>2. Compare(tag, tag) >= 0
        BY <2>3, CompareIsPrecedence
      <4>3. tag \in Resolved(spec, corpus')
        BY <2>1, <3>1, <4>1, <4>2 DEF Resolved, HighestMatch
      <4> QED
        BY <4>3
    <3>2. CASE Matches(r, tag) => ~(Compare(tag, v) >= 0)
      <4>1. Matches(r, tag) => Compare(v, tag) >= 0
        BY <2>3, <3>2, CompareIsPrecedence, CompareOrders
      <4>2. v \in Resolved(spec, corpus')
        BY <2>1, <2>2, <4>1 DEF Resolved, HighestMatch
      <4> QED
        BY <4>2
    <3> QED
      BY <3>1, <3>2
  <2> QED
    BY <2>4, <2>5
<1> QED
  BY <1>1, CorpusHoldsVersions, PTL DEF Spec, NeverDowngrades

-----------------------------------------------------------------------------
(* A bound that parses as a version is one.                                 *)
LEMMA FullBoundIsVersion ==
  ASSUME NEW s \in Spelled, ParsesAsVersion(s)
  PROVE  s \in Versions
<1>1. /\ s \in [major : Numbers, minor : Numbers \cup {Absent},
               patch : Numbers \cup {Absent}, pre : 1 .. Released, build : Builds]
      /\ s.minor # Absent /\ s.patch # Absent
  BY DEF Spelled, ParsesAsVersion
<1>2. /\ s = [major |-> s.major, minor |-> s.minor, patch |-> s.patch,
              pre |-> s.pre, build |-> s.build]
      /\ s.major \in Numbers /\ s.minor \in Numbers /\ s.patch \in Numbers
      /\ s.pre \in 1 .. Released /\ s.build \in Builds
  BY <1>1
<1> QED
  BY <1>2 DEF Versions

(* The signs of the comparison mean what the operators of a clause spell.   *)
LEMMA SignsSpell ==
  ASSUME NEW v \in Versions, NEW w \in Versions
  PROVE  /\ Compare(v, w) < 0 <=> Newer(w, v)
         /\ Compare(v, w) > 0 <=> Newer(v, w)
         /\ Compare(v, w) <= 0 <=> ~Newer(v, w)
         /\ Compare(v, w) >= 0 <=> ~Newer(w, v)
         /\ Compare(v, w) = 0 <=> ~Newer(v, w) /\ ~Newer(w, v)
BY CompareIsPrecedence

(* A comparison matches the versions that it spells.                        *)
LEMMA ComparisonsMatch ==
  ASSUME NEW c \in Comparisons, NEW v \in Versions
  PROVE  MatchClause(c, v) <=> (ParsesAsVersion(c.bound) /\ Spells(c, v))
<1>1. c.op \in {"<=", ">=", "<", ">", "="} /\ c.bound \in Spelled
  BY DEF Comparisons
<1>2. MatchClause(c, v) <=> Satisfies(c, v)
  BY <1>1 DEF MatchClause
<1>3. CASE ~ParsesAsVersion(c.bound)
  BY <1>2, <1>3 DEF Satisfies
<1>4. CASE ParsesAsVersion(c.bound)
  <2> DEFINE order == Compare(v, c.bound)
  <2>1. c.bound \in Versions
    BY <1>1, <1>4, FullBoundIsVersion
  <2>2. /\ order < 0 <=> Newer(c.bound, v)
        /\ order > 0 <=> Newer(v, c.bound)
        /\ order <= 0 <=> ~Newer(v, c.bound)
        /\ order >= 0 <=> ~Newer(c.bound, v)
        /\ order = 0 <=> ~Newer(v, c.bound) /\ ~Newer(c.bound, v)
    BY <2>1, SignsSpell
  <2>3. Satisfies(c, v) <=>
          CASE c.op = "<=" -> order <= 0 [] c.op = ">=" -> order >= 0
            [] c.op = "<" -> order < 0 [] c.op = ">" -> order > 0
            [] c.op = "=" -> order = 0
    BY <1>4 DEF Satisfies
  <2> HIDE DEF order
  <2>4. Satisfies(c, v) <=> Spells(c, v)
    BY <1>1, <2>2, <2>3 DEF Spells
  <2> QED
    BY <1>2, <1>4, <2>4
<1> QED
  BY <1>3, <1>4

(* A spec in a clause matches what it means.                                *)
LEMMA SpecClausesMatch ==
  ASSUME NEW c \in SpecClauses, NEW v \in Versions
  PROVE  MatchClause(c, v) <=> MeantBy(c.spec, v)
<1> DEFINE spec == c.spec
           b == spec.bound
<1>1. c.op = "spec" /\ spec \in Specs
  BY DEF SpecClauses
<1>2. MatchClause(c, v) <=> ParsesAsRange(spec) /\ Matches(ParseRange(spec), v)
  BY <1>1 DEF MatchClause
<1>3. ParsesAsRange(spec) =>
        (Matches(ParseRange(spec), v) <=>
           IF spec.kind = "exact" THEN Precedence(v) = Precedence(b)
           ELSE Documented(spec, v))
  BY <1>1, MatchesDocumented
<1>4. spec.kind \in {"latest", "exact", "caret", "tilde"}
  BY <1>1, BoundTypes
<1>5. ParsesAsVersion(b) <=> ~(b.minor = Absent \/ b.patch = Absent)
  BY DEF ParsesAsVersion
<1>6. ParsesAsBound(b) <=>
        ((b.minor = Absent \/ b.patch = Absent) => b.pre = Released /\ b.build = NoBuild)
  BY <1>5 DEF ParsesAsBound
<1>7. CASE spec.kind = "latest"
  BY <1>2, <1>3, <1>7 DEF MeantBy, ParsesAsRange
<1>8. CASE spec.kind = "exact"
  BY <1>2, <1>3, <1>5, <1>8 DEF MeantBy, ParsesAsRange
<1>9. CASE spec.kind \in {"caret", "tilde"}
  BY <1>2, <1>3, <1>6, <1>9 DEF MeantBy, ParsesAsRange
<1> QED
  BY <1>4, <1>7, <1>8, <1>9

(* Clauses match as they are spelled, in every corpus.                      *)
THEOREM ClausesMatch == Spec => []ClausesMatchAsSpelled
<1>1. TypeOK => ClausesMatchAsSpelled
  <2> SUFFICES ASSUME TypeOK, NEW v \in corpus
               PROVE  /\ \A c \in Comparisons :
                           MatchClause(c, v) <=> (ParsesAsVersion(c.bound) /\ Spells(c, v))
                      /\ \A c \in SpecClauses : MatchClause(c, v) <=> MeantBy(c.spec, v)
    BY DEF ClausesMatchAsSpelled
  <2>1. v \in Versions
    BY DEF TypeOK
  <2> QED
    BY <2>1, ComparisonsMatch, SpecClausesMatch
<1> QED
  BY <1>1, CorpusHoldsVersions, PTL

(* Any versions of the corpus have a newest one among them: there are only  *)
(* finitely many, since they come one by one.                               *)
Topped ==
  \A S \in SUBSET corpus : S # {} => \E v \in S : \A w \in S : Compare(v, w) >= 0

LEMMA AlwaysTopped == Spec => []Topped
<1>1. Init => Topped
  BY DEF Init, Topped
<1>2. TypeOK /\ TypeOK' /\ Topped /\ [Next]_vars => Topped'
  <2> SUFFICES ASSUME TypeOK, TypeOK', Topped, [Next]_vars,
                      NEW S \in SUBSET corpus', S # {}
               PROVE  \E v \in S : \A w \in S : Compare(v, w) >= 0
    BY DEF Topped
  <2>1. CASE S \subseteq corpus
    BY <2>1 DEF Topped
  <2>2. CASE ~(S \subseteq corpus)
    <3>1. PICK tag : corpus' = corpus \cup {tag}
      BY <2>2 DEF Next, Ingest, Replace, vars
    <3>2. tag \in S /\ S \subseteq Versions /\ S \ {tag} \subseteq corpus
      BY <2>2, <3>1 DEF TypeOK
    <3>3. Compare(tag, tag) >= 0
      BY <3>2, CompareIsPrecedence
    <3>4. CASE S \ {tag} = {}
      BY <3>2, <3>3, <3>4
    <3>5. CASE S \ {tag} # {}
      <4>1. PICK t \in S \ {tag} : \A w \in S \ {tag} : Compare(t, w) >= 0
        BY <3>2, <3>5 DEF Topped
      <4>2. CASE Compare(t, tag) >= 0
        BY <4>1, <4>2
      <4>3. CASE ~(Compare(t, tag) >= 0)
        <5>1. Compare(tag, t) >= 0
          BY <3>2, <4>1, <4>3, CompareOrders, CompareIsPrecedence
        <5>2. \A w \in S \ {tag} : Compare(tag, w) >= 0
          BY <3>2, <4>1, <5>1, CompareOrders
        <5> QED
          BY <3>2, <3>3, <5>2
      <4> QED
        BY <4>2, <4>3
    <3> QED
      BY <3>4, <3>5
  <2> QED
    BY <2>1, <2>2
<1> QED
  BY <1>1, <1>2, CorpusHoldsVersions, PTL DEF Spec

(* The advisory "<fix" matches what is older than the fix.                  *)
LEMMA OlderThanFixMatches ==
  ASSUME NEW v \in Versions, NEW fix \in Versions
  PROVE  MatchRange({[op |-> "<", bound |-> fix]}, v) <=> Compare(v, fix) < 0
<1> DEFINE c == [op |-> "<", bound |-> fix]
<1>1. c.op = "<" /\ c.bound = fix
  OBVIOUS
<1>2. ParsesAsVersion(fix)
  BY NumbersAssumption DEF Versions, ParsesAsVersion
<1>3. Satisfies(c, v) <=> Compare(v, fix) < 0
  BY <1>1, <1>2 DEF Satisfies
<1>4. MatchClause(c, v) <=> Satisfies(c, v)
  BY <1>1 DEF MatchClause
<1> QED
  BY <1>3, <1>4 DEF MatchRange

(* A stable fix of the same major version is in the range of the upgrade.   *)
LEMMA FixInUpgradeRange ==
  ASSUME NEW pin \in Versions, NEW fix \in Versions,
         ~IsPrerelease(fix), fix.major = pin.major, Newer(fix, pin)
  PROVE  Matches(UpgradeRange(pin), fix)
<1> DEFINE r == UpgradeRange(pin)
<1>1. /\ pin.major \in Nat /\ pin.minor \in Nat /\ pin.patch \in Nat /\ pin.pre \in Nat
      /\ fix.major \in Nat /\ fix.minor \in Nat /\ fix.patch \in Nat /\ fix.pre \in Nat
      /\ Released \in Nat
  BY VersionTypes, PrereleasesAssumption DEF Released
<1>2. /\ r.kind = "caret" /\ r.bound.major = pin.major /\ r.bound.minor = pin.minor
      /\ r.bound.patch = 0 /\ r.bound.pre = Released
  BY DEF UpgradeRange
<1>3. fix.pre = Released /\ Compare(fix, pin) > 0
  BY CompareIsPrecedence DEF IsPrerelease
<1>4. fix.minor > pin.minor \/ (fix.minor = pin.minor /\ fix.patch >= pin.patch)
  BY <1>1, <1>3 DEF Compare, Sign
<1>5. Compare(fix, r.bound) >= 0
  BY <1>1, <1>2, <1>3, <1>4 DEF Compare, Sign
<1> QED
  BY <1>2, <1>5 DEF Matches

(* An upgrade past a fix clears every audit for it, and before it the       *)
(* default audit fails on a severity of high or critical.                   *)
THEOREM UpgradesPassAudits == Spec => []UpgradePassesAudit
<1>1. TypeOK /\ Topped => UpgradePassesAudit
  <2> SUFFICES ASSUME TypeOK, Topped, NEW pin \in corpus, NEW fix \in corpus,
                      NEW severity \in Severities,
                      ~IsPrerelease(fix), fix.major = pin.major, Newer(fix, pin)
               PROVE  LET row == [range |-> {[op |-> "<", bound |-> fix]},
                                  severity |-> severity]
                      IN  /\ AuditFails(pin, {row}, "high") <=> severity \in {"high", "critical"}
                          /\ Upgraded(pin, corpus) # {}
                          /\ \A v \in Upgraded(pin, corpus) : ~AuditFails(v, {row}, "unknown")
    BY DEF UpgradePassesAudit
  <2>0. PICK row : row = [range |-> {[op |-> "<", bound |-> fix]}, severity |-> severity]
    OBVIOUS
  <2> DEFINE S == {v \in corpus : Matches(UpgradeRange(pin), v)}
  <2>1. pin \in Versions /\ fix \in Versions /\ corpus \subseteq Versions
    BY DEF TypeOK
  <2>2. row.severity = severity /\ row.range = {[op |-> "<", bound |-> fix]}
    BY <2>0
  <2>3. \A v \in corpus : MatchRange(row.range, v) <=> Compare(v, fix) < 0
    BY <2>1, <2>2, OlderThanFixMatches
  <2>4. Compare(pin, fix) < 0
    BY <2>1, CompareIsPrecedence, CompareOrders
  <2>5. SeverityRank(severity) >= SeverityRank("high") <=> severity \in {"high", "critical"}
    BY DEF Severities, SeverityRank
  <2>6. fix \in S
    BY <2>1, FixInUpgradeRange
  <2>7. ASSUME NEW v \in S, \A w \in S : Compare(v, w) >= 0
        PROVE  Compare(v, fix) >= 0 /\ Compare(v, pin) > 0
    <3>1. Compare(fix, pin) > 0
      BY <2>1, CompareIsPrecedence
    <3>2. Compare(v, fix) >= 0 /\ v \in Versions
      BY <2>1, <2>6, <2>7
    <3>3. Compare(pin, v) < 0
      <4>1. Compare(v, pin) >= 0
        BY <2>1, <3>1, <3>2, CompareOrders, CompareIsPrecedence
      <4> QED
        BY <2>1, <3>1, <3>2, <4>1, CompareOrders, CompareIsPrecedence
    <3> QED
      BY <2>1, <3>2, <3>3, CompareOrders
  <2>8. Upgraded(pin, corpus) # {}
    <3>1. PICK v \in S : \A w \in S : Compare(v, w) >= 0
      BY <2>6 DEF Topped
    <3>2. v \in Upgraded(pin, corpus)
      BY <2>7, <3>1 DEF Upgraded, HighestMatch
    <3> QED
      BY <3>2
  <2>9. ASSUME NEW v \in Upgraded(pin, corpus)
        PROVE  ~AuditFails(v, {row}, "unknown")
    <3>1. v \in S /\ \A w \in S : Compare(v, w) >= 0
      BY DEF Upgraded, HighestMatch
    <3>2. Compare(v, fix) >= 0 /\ v \in Versions
      BY <2>1, <2>7, <3>1
    <3>3. ~(Compare(v, fix) < 0)
      BY <2>1, <3>2, CompareIsPrecedence
    <3> QED
      BY <2>3, <3>1, <3>3 DEF AuditFails
  <2>10. AuditFails(pin, {row}, "high") <=> severity \in {"high", "critical"}
    BY <2>2, <2>3, <2>4, <2>5 DEF AuditFails
  <2> QED
    BY <2>0, <2>8, <2>9, <2>10
<1> QED
  BY <1>1, AlwaysTopped, CorpusHoldsVersions, PTL

=============================================================================
