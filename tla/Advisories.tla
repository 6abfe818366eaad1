------------------------------ MODULE Advisories ------------------------------
(***************************************************************************)
(* Security advisories: the ranges they name (internal/advisories/         *)
(* ranges.go), the order of severities, and the verdict of inguma audit    *)
(* (internal/clicmd/audit.go) on a pinned version, next to the upgrades of *)
(* Versioning.                                                             *)
(*                                                                         *)
(* A range is a set of clauses that all have to hold; "*" and the empty    *)
(* range are the empty set.  A clause is a comparison with a bound, or a   *)
(* spec that ParseRange reads.                                             *)
(***************************************************************************)
EXTENDS Versioning

Comparisons == [op : {"<=", ">=", "<", ">", "="}, bound : Spelled]
SpecClauses == [op : {"spec"}, spec : Specs]

Severities == {"low", "medium", "high", "critical", "unknown"}

(* Any other word ranks below them all: POST /api/advisories takes it.      *)
SeverityRank(severity) ==
  CASE severity = "low" -> 1 [] severity = "medium" -> 2
    [] severity = "high" -> 3 [] severity = "critical" -> 4 [] OTHER -> 0

(* Mutant of Satisfies: "<" takes the bound in.                            *)
SatisfiesLoosely(c, v) ==
  /\ ParsesAsVersion(c.bound)
  /\ LET order == Compare(v, c.bound)
     IN  CASE c.op \in {"<=", "<"} -> order <= 0
           [] c.op \in {">=", ">"} -> order >= 0
           [] c.op = "=" -> order = 0

(* matchClause, for a comparison: a bound that is no full version matches   *)
(* nothing.                                                                 *)
Satisfies(c, v) ==
  /\ ParsesAsVersion(c.bound)
  /\ LET order == Compare(v, c.bound)
     IN  CASE c.op = "<=" -> order <= 0 [] c.op = ">=" -> order >= 0
           [] c.op = "<" -> order < 0 [] c.op = ">" -> order > 0
           [] c.op = "=" -> order = 0

MatchClause(c, v) ==
  IF c.op = "spec"
  THEN ParsesAsRange(c.spec) /\ Matches(ParseRange(c.spec), v)
  ELSE Satisfies(c, v)

MatchRange(range, v) == \A c \in range : MatchClause(c, v)

(* Whether audit fails on a pin: one of the rows it fetched for the package *)
(* matches and ranks at the cutoff or above.                                *)
AuditFails(pin, rows, cutoff) ==
  \E row \in rows :
    /\ MatchRange(row.range, pin)
    /\ SeverityRank(row.severity) >= SeverityRank(cutoff)

-----------------------------------------------------------------------------
(* The comparison that a clause spells, on the order of semver.             *)
Spells(c, v) ==
  LET newer == Newer(v, c.bound)
      older == Newer(c.bound, v)
  IN  CASE c.op = "<" -> older [] c.op = ">" -> newer
        [] c.op = "<=" -> ~newer [] c.op = ">=" -> ~older
        [] c.op = "=" -> ~newer /\ ~older

(* A spec in a clause: a version means each of its builds, and leaving out  *)
(* numbers is for "^" and "~", without a prerelease or a build.             *)
MeantBy(spec, v) ==
  LET b == spec.bound
      short == b.minor = Absent \/ b.patch = Absent
  IN  CASE spec.kind = "latest" -> Documented(spec, v)
        [] spec.kind = "exact"  -> ~short /\ Precedence(v) = Precedence(b)
        [] OTHER -> (short => b.pre = Released /\ b.build = NoBuild) /\ Documented(spec, v)

(* A comparison with a full version matches the versions that it spells,    *)
(* prereleases of the bound included below it, and one with a short version *)
(* ("<1.2") matches none.  A spec matches the versions that it means in a   *)
(* range of an install, an exact one every build of them, as "=" does       *)
(* (ranges.go:13-19), and a short one with a prerelease ("^1.2-beta") none. *)
ClausesMatchAsSpelled ==
  \A v \in corpus :
    /\ \A c \in Comparisons :
         MatchClause(c, v) <=> (ParsesAsVersion(c.bound) /\ Spells(c, v))
    /\ \A c \in SpecClauses :
         MatchClause(c, v) <=> MeantBy(c.spec, v)

(* The remedy works: with a stable fix of the same major version in the     *)
(* corpus, an upgrade moves every pin the advisory "<fix" names to one that *)
(* an audit with any cutoff lets pass, and before it the default audit      *)
(* fails just when the severity is high or critical (docs/roadmap.md:47).   *)
UpgradePassesAudit ==
  \A pin \in corpus, fix \in corpus, severity \in Severities :
    ~IsPrerelease(fix) /\ fix.major = pin.major /\ Newer(fix, pin) =>
      LET row == [range |-> {[op |-> "<", bound |-> fix]}, severity |-> severity]
      IN  /\ AuditFails(pin, {row}, "high") <=> severity \in {"high", "critical"}
          /\ Upgraded(pin, corpus) # {}
          /\ \A v \in Upgraded(pin, corpus) : ~AuditFails(v, {row}, "unknown")

=============================================================================
