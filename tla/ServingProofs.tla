----------------------------- MODULE ServingProofs -----------------------------
(***************************************************************************)
(* Proofs about Serving, for one crawler and any number of readers, for    *)
(* any registry, packages, versions, ranges and moderation.                *)
(***************************************************************************)
EXTENDS Serving, CrawlerProofs, FiniteSetTheorems, WellFoundedInduction

(* The fields of a request that the handlers set, and those of an answer,   *)
(* whose pc is the status.                                                  *)
Queries(pcs) ==
  [pc : pcs, kind : {None, "install", "tool", "artifact"}, pkg : Packages \cup {None},
   ask : Versions \cup {None}, range : SUBSET Versions, list : SUBSET Versions,
   latest : Versions \cup {None}, version : Versions \cup {None},
   tgz : Contents \cup {None, Torn}, manifest : Contents \cup {None, Torn},
   sha : Contents \cup {None, Torn}, gone : SUBSET Versions, failed : BOOLEAN]

Requests == Queries({"idle", "list", "latest", "manifest", "index", "sha", "gate",
                     "open", "sum", "count"})
Answers == Queries({200, 404, 410})

Tarball(p, v) == file[<<p, v, "tgz">>]

(* x is the content of version v of p, which stays, if v was released.      *)
Released(p, v, x) == v # Synthetic => x # None /\ x = Tarball(p, v)

(* What a handler knows of the version it has come to.                      *)
RequestOK(q) ==
  /\ q.pc # "idle" =>
       /\ q.pkg \in Packages
       /\ \A v \in q.gone : Withdrawn(q.pkg, v)
  /\ q.pc \in {"list", "latest", "manifest", "index", "sha"} => q.kind \in {"install", "tool"}
  /\ q.pc = "gate" => q.kind \in {"install", "artifact"}
  /\ q.pc \in {"open", "sum", "count"} => q.kind = "artifact"
  /\ q.pc = "gate" /\ q.kind = "artifact" => q.ask \in Versions
  /\ q.pc = "latest" => q.list # {}
  /\ q.pc \in {"manifest", "index", "sha", "open", "sum", "count"} => q.version \in Versions
  /\ q.pc = "gate" /\ q.kind = "install" => q.version \in Versions
  /\ q.pc \in {"index", "sha"} => Released(q.pkg, q.version, q.manifest)
  /\ q.pc = "gate" /\ q.kind = "install" =>
       Released(q.pkg, q.version, q.manifest) /\ Released(q.pkg, q.version, q.sha)
  /\ q.pc = "sum" => Released(q.pkg, q.version, q.tgz)
  /\ q.pc \in {"open", "sum", "count"} /\ ~q.failed => q.version \notin q.gone

(* What an answer says.                                                     *)
Answerable(q) ==
  /\ q.pkg \in Packages /\ q.version \in Versions
  /\ q.kind \in {"install", "tool", "artifact"}
  /\ q.kind = "artifact" => Released(q.pkg, q.version, q.tgz)
  /\ q.kind # "artifact" =>
       Released(q.pkg, q.version, q.manifest) /\ Released(q.pkg, q.version, q.sha)
  /\ q.kind # "tool" /\ ~q.failed => q.version \notin q.gone

Gone(q) == q.pkg \in Packages /\ q.version \in Versions /\ Withdrawn(q.pkg, q.version)

AnswerOK(a) == (a.pc = 200 => Answerable(a)) /\ (a.pc = 410 => Gone(a))

(* The downloads of a version that were served, and those yet to count.     *)
ServedOf(p, v) ==
  {i \in Served : <<replies[i].kind, replies[i].pkg, replies[i].version>> = <<"artifact", p, v>>}
Counting(p, v) ==
  {r \in Readers : req[r].pc = "count" /\ req[r].pkg = p /\ req[r].version = v}

Moderated == rows \in [Moderation!Keys -> Moderation!Rows] /\ calls \in [Handlers -> Moderation!Calls]
Asking == req \in [Readers -> Requests] /\ \A r \in Readers : RequestOK(req[r])
Answered == replies \in Seq(Answers) /\ \A i \in DOMAIN replies : AnswerOK(replies[i])
Counted ==
  /\ downloads \in [Packages -> [Versions -> Nat]]
  /\ \A p \in Packages, v \in Versions :
       downloads[p][v] + Cardinality(Counting(p, v)) <= Cardinality(ServedOf(p, v))

(* The inductive invariant.                                                 *)
ServingInv == Inv /\ Moderated /\ Asking /\ Answered /\ Counted

-----------------------------------------------------------------------------
(* Lemmas about the operators.                                              *)
LEMMA LeastNatural ==
  ASSUME NEW T \in SUBSET Nat, T # {}
  PROVE  \E n \in T : \A m \in T : n <= m
<1> DEFINE R == OpToRel(<, Nat)
<1>1. IsWellFoundedOn(R, Nat)
  BY NatLessThanWellFounded
<1>2. \A x, y \in Nat : <<y, x>> \in R <=> y < x
  BY DEF OpToRel
<1> HIDE DEF R
<1>3. PICK n \in T : \A y \in T : ~(<<y, n>> \in R)
  BY <1>1, WFMin
<1>4. ASSUME NEW m \in T PROVE n <= m
  <2>1. m \in Nat /\ n \in Nat /\ ~(<<m, n>> \in R)
    BY <1>3
  <2>2. ~(m < n)
    BY <1>2, <2>1
  <2> QED
    BY <2>1, <2>2
<1> QED
  BY <1>4

LEMMA HighestIn ==
  ASSUME NEW S \in SUBSET Versions, S # {}
  PROVE  Highest(S) \in S
<1>1. \A v \in S : v \in Nat /\ v <= MaxVersion /\ MaxVersion - v \in Nat
  BY VersionsAssumption DEF Versions
<1>2. PICK T \in SUBSET Nat : T = {MaxVersion - v : v \in S}
  BY <1>1
<1>3. PICK n \in T : \A m \in T : n <= m
  <2>1. T # {}
    BY <1>2
  <2> QED
    BY <2>1, LeastNatural
<1>4. PICK v \in S : n = MaxVersion - v
  BY <1>2
<1>5. \A w \in S : w <= v
  BY <1>1, <1>2, <1>3, <1>4, VersionsAssumption
<1> QED
  BY <1>5 DEF Highest

LEMMA PickLatestIn ==
  ASSUME NEW S \in SUBSET Versions, S # {}
  PROVE  PickLatest(S) \in Versions
<1>1. CASE S \cap Stable # {}
  BY <1>1, HighestIn DEF PickLatest
<1>2. CASE S \cap Stable = {}
  BY <1>2, HighestIn DEF PickLatest
<1> QED
  BY <1>1, <1>2

(* The files of a released version that is listed are those of its tarball. *)
LEMMA FilesOfRelease ==
  ASSUME Inv, NEW p \in Packages, NEW v \in Versions, NEW k \in CorpusKinds,
         file[<<p, v, k>>] # None
  PROVE  Released(p, v, file[<<p, v, k>>])
<1>1. FilesAgree /\ CorpusBackedByArtifact /\ ContentOfItsKind
  BY DEF Inv, DiskOK
<1>2. Tarball(p, v) # None /\ k \in FileKinds /\ k # "tgzsha"
  BY <1>1 DEF CorpusBackedByArtifact, Tarball, CorpusKinds, FileKinds
<1>3. file[<<p, v, k>>] \in {None, Torn, Tarball(p, v)}
  BY <1>1, <1>2 DEF FilesAgree, AgreeAt, Tarball
<1>4. file[<<p, v, k>>] # Torn
  BY <1>1, <1>2 DEF ContentOfItsKind
<1> QED
  BY <1>2, <1>3, <1>4 DEF Released

LEMMA FileType ==
  ASSUME Inv, NEW p \in Packages, NEW v \in Versions, NEW k \in FileKinds
  PROVE  file[<<p, v, k>>] \in Contents \cup {None, Torn}
BY DEF Inv, Control, TypeOK, Files

LEMMA Kinds == CorpusKinds \subseteq FileKinds /\ "tgz" \in FileKinds /\ "tgzsha" \in FileKinds
  /\ "manifest" \in CorpusKinds /\ "index" \in CorpusKinds /\ "sha" \in CorpusKinds
BY DEF CorpusKinds, FileKinds

-----------------------------------------------------------------------------
(* Released tarballs stay, and so do takedowns.                             *)
TarballsStay ==
  \A p \in Packages, v \in Versions \ {Synthetic} :
    Tarball(p, v) # None => Tarball(p, v)' = Tarball(p, v)
TakedownsStay ==
  \A p \in Packages, v \in Versions : Withdrawn(p, v) => Withdrawn(p, v)'
Stays == TarballsStay /\ TakedownsStay

LEMMA ReleasedStays ==
  ASSUME TarballsStay, NEW p \in Packages, NEW v \in Versions, NEW x, Released(p, v, x)
  PROVE  Released(p, v, x)'
BY DEF TarballsStay, Released

LEMMA RequestStays ==
  ASSUME Stays, NEW q \in Requests, RequestOK(q)
  PROVE  RequestOK(q)'
<1>1. q.gone \in SUBSET Versions
  BY DEF Requests, Queries
<1>2. q.pc # "idle" => \A v \in q.gone : Withdrawn(q.pkg, v)'
  BY <1>1 DEF RequestOK, Stays, TakedownsStay
<1>3. q.pc \in {"index", "sha"} => Released(q.pkg, q.version, q.manifest)'
  BY ReleasedStays DEF RequestOK, Stays
<1>4. q.pc = "gate" /\ q.kind = "install" =>
        Released(q.pkg, q.version, q.manifest)' /\ Released(q.pkg, q.version, q.sha)'
  BY ReleasedStays DEF RequestOK, Stays
<1>5. q.pc = "sum" => Released(q.pkg, q.version, q.tgz)'
  BY ReleasedStays DEF RequestOK, Stays
<1> QED
  BY <1>2, <1>3, <1>4, <1>5 DEF RequestOK

LEMMA AnswerStays ==
  ASSUME Stays, NEW a, AnswerOK(a)
  PROVE  AnswerOK(a)'
<1>1. a.pc = 200 /\ a.kind = "artifact" => Released(a.pkg, a.version, a.tgz)'
  BY ReleasedStays DEF AnswerOK, Answerable, Stays
<1>2. a.pc = 200 /\ a.kind # "artifact" =>
        Released(a.pkg, a.version, a.manifest)' /\ Released(a.pkg, a.version, a.sha)'
  BY ReleasedStays DEF AnswerOK, Answerable, Stays
<1>3. a.pc = 410 => Gone(a)'
  BY DEF AnswerOK, Gone, Stays, TakedownsStay
<1> QED
  BY <1>1, <1>2, <1>3 DEF AnswerOK, Answerable

(* The crawler leaves the tarballs of releases alone.                       *)
LEMMA CrawlStays ==
  ASSUME Inv, NoTagV000, [Next]_vars
  PROVE  TarballsStay
<1> SUFFICES ASSUME NEW p \in Packages, NEW v \in Versions, v # Synthetic,
                    file[<<p, v, "tgz">>] # None
             PROVE  file'[<<p, v, "tgz">>] = file[<<p, v, "tgz">>]
  BY DEF TarballsStay, Tarball
<1>1. file[<<p, v, "tgz">>].ref = None
  <2>1. ContentOfItsKind /\ file[<<p, v, "tgz">>] \in Contents \cup {None, Torn}
    BY FileType, Kinds DEF Inv, DiskOK
  <2>2. file[<<p, v, "tgz">>] # Torn
    BY <2>1, Kinds DEF ContentOfItsKind
  <2> QED
    BY <2>1, <2>2, Kinds DEF ContentOfItsKind
<1>2. CASE Maintainers
  BY <1>2, MaintainersControl DEF Inv
<1>3. ASSUME NEW c \in Crawlers, CrawlerStep(c)
      PROVE  file'[<<p, v, "tgz">>] = file[<<p, v, "tgz">>]
  BY <1>1, <1>3, ArtifactStep
<1>4. CASE UNCHANGED vars
  BY <1>4 DEF vars
<1> QED
  BY <1>2, <1>3, <1>4 DEF Next

(* No admin action takes a takedown back.                                   *)
LEMMA ModerationStays ==
  ASSUME Moderated, Moderation!Next
  PROVE  Moderated' /\ TakedownsStay
<1> USE DEF Moderated
<1>1. ASSUME NEW h \in Handlers, Moderation!Exec(h)
      PROVE  Moderated' /\ TakedownsStay
  <2>1. PICK a : a = calls[h].action
    OBVIOUS
  <2>2. /\ calls[h].pc = "exec"
        /\ rows' = [rows EXCEPT ![a.key] = Moderation!Apply(rows[a.key], a)]
        /\ calls' = [calls EXCEPT ![h] = [calls[h] EXCEPT !.pc = "audit"]]
    BY <1>1, <2>1 DEF Moderation!Exec, Moderation!Executed
  <2>3. calls[h] \in Moderation!Calls
    OBVIOUS
  <2>4. a \in Moderation!Actions /\ calls[h] = [pc |-> "exec", action |-> a]
    BY <2>1, <2>2, <2>3 DEF Moderation!Calls
  <2>5. a.key \in Moderation!Keys /\ a.op \in Moderation!Ops
    BY <2>4 DEF Moderation!Actions
  <2>6. PICK row \in Moderation!Rows : row = rows[a.key]
    BY <2>5
  <2>7. PICK new : new = Moderation!Apply(row, a)
    OBVIOUS
  <2>8. new \in Moderation!Rows /\ (row.withdrawn => new.withdrawn)
    BY <2>4, <2>5, <2>6, <2>7
       DEF Moderation!Apply, Moderation!Ops, Moderation!Rows, Moderation!Actions
  <2>9. rows' = [rows EXCEPT ![a.key] = new]
    BY <2>2, <2>6, <2>7
  <2>10. TakedownsStay
    <3>1. \A p \in Packages, v \in Versions : <<p, v>> \in Moderation!Keys
      BY SpellingsAssumption DEF Moderation!Keys
    <3> QED
      BY <2>5, <2>6, <2>8, <2>9, <3>1 DEF TakedownsStay, Withdrawn
  <2>11. [calls[h] EXCEPT !.pc = "audit"] = [pc |-> "audit", action |-> a]
    BY <2>4
  <2>12. [pc |-> "audit", action |-> a] \in Moderation!Calls
    BY <2>4 DEF Moderation!Calls
  <2> QED
    BY <2>2, <2>5, <2>8, <2>9, <2>10, <2>11, <2>12
<1>2. CASE rows' = rows /\ calls' \in [Handlers -> Moderation!Calls]
  BY <1>2 DEF TakedownsStay, Withdrawn
<1>3. ASSUME Moderation!Next, ~(\E h \in Handlers : Moderation!Exec(h))
      PROVE  rows' = rows /\ calls' \in [Handlers -> Moderation!Calls]
  <2>1. Moderation!NoCall \in Moderation!Calls
    BY DEF Moderation!NoCall, Moderation!Calls
  <2>2. ASSUME NEW h \in Handlers, NEW a \in Moderation!Actions, Moderation!Post(h, a)
        PROVE  rows' = rows /\ calls' \in [Handlers -> Moderation!Calls]
    <3>1. [pc |-> "exec", action |-> a] \in Moderation!Calls
      BY DEF Moderation!Calls
    <3> QED
      BY <2>2, <3>1 DEF Moderation!Post
  <2> QED
    BY <1>3, <2>1, <2>2 DEF Moderation!Next, Moderation!ExecFails, Moderation!AuditInsert,
       Moderation!AuditFails, Moderation!Lose
<1> QED
  BY <1>1, <1>2, <1>3

-----------------------------------------------------------------------------
(* The parts of the invariant.                                              *)
Calm == SingleCrawler /\ NoTagV000 /\ RemovalsFail = FALSE

LEMMA CorpusKept ==
  ASSUME Calm, ServingInv, UNCHANGED <<vars, moderation>>
  PROVE  Inv' /\ Moderated' /\ Stays
<1>1. Inv'
  BY InvStep DEF ServingInv, Calm
<1>2. Moderated'
  BY DEF ServingInv, Moderated, moderation
<1>3. Stays
  BY DEF Stays, TarballsStay, TakedownsStay, Withdrawn, Tarball, vars, moderation
<1> QED
  BY <1>1, <1>2, <1>3

LEMMA AskingKept ==
  ASSUME ServingInv, Stays, NEW r \in Readers, NEW n \in Requests, RequestOK(n),
         req' = [req EXCEPT ![r] = n]
  PROVE  Asking'
<1>1. req \in [Readers -> Requests] /\ Requests' = Requests
  BY DEF ServingInv, Asking, Requests, Queries
<1>2. ASSUME NEW s \in Readers PROVE RequestOK(req[s])'
  <2>1. PICK x \in Requests : x = req'[s] /\ RequestOK(x)
    BY <1>1 DEF ServingInv, Asking
  <2>2. RequestOK(x)' /\ x = req'[s]
    BY <2>1, RequestStays
  <2> QED
    BY <2>2
<1> QED
  BY <1>1, <1>2 DEF Asking

LEMMA AnsweredKept ==
  ASSUME ServingInv, Stays,
         replies' = replies \/ \E a \in Answers : AnswerOK(a) /\ replies' = Append(replies, a)
  PROVE  Answered'
<1>1. replies \in Seq(Answers) /\ Answers' = Answers
  BY DEF ServingInv, Answered, Answers, Queries
<1>2. replies' \in Seq(Answers)
  BY <1>1
<1>3. ASSUME NEW i \in DOMAIN replies' PROVE AnswerOK(replies[i])'
  <2>1. PICK x : x = replies'[i] /\ AnswerOK(x)
    <3>1. CASE replies' = replies
      BY <3>1 DEF ServingInv, Answered
    <3>2. ASSUME NEW a \in Answers, AnswerOK(a), replies' = Append(replies, a)
          PROVE  AnswerOK(replies'[i])
      BY <1>1, <3>2 DEF ServingInv, Answered
    <3> QED
      BY <3>1, <3>2
  <2>2. AnswerOK(x)' /\ x = replies'[i]
    BY <2>1, AnswerStays
  <2> QED
    BY <2>2
<1> QED
  BY <1>1, <1>2, <1>3 DEF Answered

LEMMA FiniteCounts ==
  ASSUME replies \in Seq(Answers), NEW p, NEW v
  PROVE  /\ IsFiniteSet(Counting(p, v)) /\ Cardinality(Counting(p, v)) \in Nat
         /\ IsFiniteSet(ServedOf(p, v)) /\ Cardinality(ServedOf(p, v)) \in Nat
<1>1. IsFiniteSet(Counting(p, v))
  BY RequestsAssumption, FS_Subset DEF Counting
<1>2. IsFiniteSet(1 .. Len(replies)) /\ ServedOf(p, v) \subseteq 1 .. Len(replies)
  BY FS_Interval DEF ServedOf, Served
<1>3. IsFiniteSet(ServedOf(p, v))
  BY <1>2, FS_Subset
<1> QED
  BY <1>1, <1>3, FS_CardinalityType

(* A new answer keeps the old ones.                                         *)
LEMMA ServedGrows ==
  ASSUME replies \in Seq(Answers), NEW a \in Answers, replies' = Append(replies, a),
         NEW p, NEW v
  PROVE  ServedOf(p, v)' = ServedOf(p, v) \cup
           IF a.pc = 200 /\ <<a.kind, a.pkg, a.version>> = <<"artifact", p, v>>
           THEN {Len(replies) + 1} ELSE {}
<1>1. /\ DOMAIN replies = 1 .. Len(replies) /\ Len(replies) \in Nat
      /\ DOMAIN replies' = 1 .. (Len(replies) + 1)
      /\ \A i \in DOMAIN replies : replies'[i] = replies[i]
      /\ replies'[Len(replies) + 1] = a
  OBVIOUS
<1>2. DOMAIN replies' = DOMAIN replies \cup {Len(replies) + 1}
  BY <1>1
<1>3. /\ ServedOf(p, v) = {i \in DOMAIN replies : replies[i].pc = 200 /\
             <<replies[i].kind, replies[i].pkg, replies[i].version>> = <<"artifact", p, v>>}
      /\ ServedOf(p, v)' = {i \in DOMAIN replies' : replies'[i].pc = 200 /\
             <<replies'[i].kind, replies'[i].pkg, replies'[i].version>> = <<"artifact", p, v>>}
  BY DEF ServedOf, Served
<1> QED
  BY <1>1, <1>2, <1>3

LEMMA CountedKept ==
  ASSUME ServingInv, downloads' = downloads,
         replies' = replies \/ \E a \in Answers : replies' = Append(replies, a),
         \A r \in Readers : req'[r].pc = "count" => req'[r] = req[r]
  PROVE  Counted'
<1>1. replies \in Seq(Answers) /\ replies' \in Seq(Answers)
  BY DEF ServingInv, Answered
<1>2. ASSUME NEW p \in Packages, NEW v \in Versions
      PROVE  downloads'[p][v] + Cardinality(Counting(p, v)') <= Cardinality(ServedOf(p, v)')
  <2>1. Counting(p, v)' \subseteq Counting(p, v)
    BY DEF Counting
  <2>2. ServedOf(p, v) \subseteq ServedOf(p, v)'
    <3>1. CASE replies' = replies
      BY <3>1 DEF ServedOf, Served
    <3>2. ASSUME NEW a \in Answers, replies' = Append(replies, a)
          PROVE  ServedOf(p, v) \subseteq ServedOf(p, v)'
      BY <1>1, <3>2, ServedGrows
    <3> QED
      BY <3>1, <3>2
  <2>3. /\ IsFiniteSet(Counting(p, v)) /\ Cardinality(Counting(p, v)) \in Nat
        /\ IsFiniteSet(ServedOf(p, v)) /\ Cardinality(ServedOf(p, v)) \in Nat
    BY <1>1, FiniteCounts
  <2>4. IsFiniteSet(ServedOf(p, v)') /\ Cardinality(ServedOf(p, v)') \in Nat
    <3>1. Len(replies') \in Nat /\ DOMAIN replies' = 1 .. Len(replies')
      BY <1>1
    <3>2. ServedOf(p, v)' \subseteq 1 .. Len(replies')
      BY <3>1 DEF ServedOf, Served
    <3>3. IsFiniteSet(1 .. Len(replies'))
      <4>1. PICK n \in Nat : n = Len(replies')
        BY <3>1
      <4>2. 1 \in Int /\ n \in Int
        OBVIOUS
      <4>3. IsFiniteSet(1 .. n)
        BY ONLY <4>2, FS_Interval
      <4> QED
        BY <4>1, <4>3
    <3> QED
      BY <3>2, <3>3, FS_Subset, FS_CardinalityType
  <2>5. /\ Cardinality(Counting(p, v)') <= Cardinality(Counting(p, v))
        /\ Cardinality(ServedOf(p, v)) <= Cardinality(ServedOf(p, v)')
        /\ Cardinality(Counting(p, v)') \in Nat
    BY <2>1, <2>2, <2>3, <2>4, FS_Subset, FS_CardinalityType
  <2>6. downloads[p][v] \in Nat
        /\ downloads[p][v] + Cardinality(Counting(p, v)) <= Cardinality(ServedOf(p, v))
    BY DEF ServingInv, Counted
  <2> QED
    BY <2>3, <2>4, <2>5, <2>6
<1> QED
  BY <1>2 DEF ServingInv, Counted

-----------------------------------------------------------------------------
(* Steps of a reader.                                                       *)
LEMMA IdleReqOK == IdleReq \in Requests /\ RequestOK(IdleReq) /\ IdleReq.pc = "idle"
BY DEF IdleReq, Requests, Queries, RequestOK

LEMMA MovesOn ==
  ASSUME Calm, ServingInv, UNCHANGED <<vars, moderation, downloads, replies>>,
         NEW r \in Readers, NEW n \in Requests, RequestOK(n), n.pc # "count",
         req' = [req EXCEPT ![r] = n]
  PROVE  ServingInv'
<1>1. Inv' /\ Moderated' /\ Stays
  BY CorpusKept
<1>2. Asking' /\ Answered'
  BY <1>1, AskingKept, AnsweredKept
<1>3. \A s \in Readers : req'[s].pc = "count" => req'[s] = req[s]
  BY DEF ServingInv, Asking
<1>4. Counted'
  BY <1>3, CountedKept
<1> QED
  BY <1>1, <1>2, <1>4 DEF ServingInv

LEMMA AnswersKeep ==
  ASSUME Calm, ServingInv, UNCHANGED <<vars, moderation, downloads>>,
         NEW r \in Readers, req' = [req EXCEPT ![r] = IdleReq],
         NEW a \in Answers, AnswerOK(a), replies' = Append(replies, a)
  PROVE  ServingInv'
<1>1. Inv' /\ Moderated' /\ Stays
  BY CorpusKept
<1>2. Asking' /\ Answered'
  BY <1>1, IdleReqOK, AskingKept, AnsweredKept
<1>3. \A s \in Readers : req'[s].pc = "count" => req'[s] = req[s]
  BY IdleReqOK DEF ServingInv, Asking
<1>4. Counted'
  BY <1>3, CountedKept
<1> QED
  BY <1>1, <1>2, <1>4 DEF ServingInv

LEMMA ArrivesKeeps ==
  ASSUME Calm, ServingInv, NEW r \in Readers, NEW p \in Packages,
         NEW kind, NEW pc, NEW ask \in Versions \cup {None}, NEW range \in SUBSET Versions,
         \/ kind \in {"install", "tool"} /\ pc = "list"
         \/ kind = "artifact" /\ pc = "gate" /\ ask \in Versions,
         Arrives(r, kind, p, ask, range, pc)
  PROVE  ServingInv'
<1>1. PICK gone : gone = {v \in Versions : Withdrawn(p, v)}
  OBVIOUS
<1>2. PICK n : n = [IdleReq EXCEPT !.pc = pc, !.kind = kind, !.pkg = p, !.ask = ask,
                                   !.range = range, !.gone = gone]
  OBVIOUS
<1>3. req' = [req EXCEPT ![r] = n]
      /\ UNCHANGED <<vars, moderation, downloads, replies>>
  BY <1>1, <1>2 DEF Arrives
<1>4. gone \in SUBSET Versions
  BY <1>1
<1>5. /\ n \in Requests /\ n.pc = pc /\ n.kind = kind /\ n.pkg = p /\ n.ask = ask
      /\ n.gone = gone
  BY <1>2, <1>4 DEF IdleReq, Requests, Queries
<1>6. RequestOK(n) /\ n.pc # "count"
  BY <1>1, <1>5 DEF RequestOK
<1> QED
  BY <1>3, <1>5, <1>6, MovesOn

(* A request is answered.                                                   *)
Answering(q, status) ==
  \E a \in Answers :
    /\ replies' = Append(replies, a) /\ a.pc = status
    /\ a.kind = q.kind /\ a.pkg = q.pkg /\ a.version = q.version
    /\ Answerable(q) => Answerable(a)
LEMMA ReplyIs ==
  ASSUME NEW r, NEW q \in Requests, NEW status \in {200, 404, 410}, NEW pc,
         Reply(r, q, status, pc)
  PROVE  Answering(q, status)
<1>1. PICK a : a = [q EXCEPT !.pc = status, !.list = {}]
  OBVIOUS
<1>2. replies' = Append(replies, a)
  BY <1>1 DEF Reply
<1>3. /\ a \in Answers /\ a.pc = status /\ a.kind = q.kind /\ a.pkg = q.pkg
      /\ a.version = q.version /\ a.tgz = q.tgz /\ a.manifest = q.manifest
      /\ a.sha = q.sha /\ a.failed = q.failed /\ a.gone = q.gone
  <2>1. /\ q = [pc |-> q.pc, kind |-> q.kind, pkg |-> q.pkg, ask |-> q.ask,
                range |-> q.range, list |-> q.list, latest |-> q.latest,
                version |-> q.version, tgz |-> q.tgz, manifest |-> q.manifest,
                sha |-> q.sha, gone |-> q.gone, failed |-> q.failed]
    BY DEF Requests, Queries
  <2>2. a = [pc |-> status, kind |-> q.kind, pkg |-> q.pkg, ask |-> q.ask,
             range |-> q.range, list |-> {}, latest |-> q.latest,
             version |-> q.version, tgz |-> q.tgz, manifest |-> q.manifest,
             sha |-> q.sha, gone |-> q.gone, failed |-> q.failed]
    BY <1>1, <2>1
  <2> QED
    BY <2>2 DEF Requests, Answers, Queries
<1>4. Answerable(q) => Answerable(a)
  BY <1>3 DEF Answerable
<1> QED
  BY <1>2, <1>3, <1>4 DEF Answering

LEMMA ReplyKeeps ==
  ASSUME Calm, ServingInv, UNCHANGED <<vars, moderation, downloads>>,
         NEW r \in Readers, NEW q \in Requests, NEW status \in {200, 404, 410},
         Reply(r, q, status, "idle"), status = 200 => Answerable(q), status = 410 => Gone(q)
  PROVE  ServingInv'
<1>1. q \in Requests /\ status \in {200, 404, 410} /\ Reply(r, q, status, "idle")
  OBVIOUS
<1>2. Answering(q, status)
  BY ONLY <1>1, ReplyIs
<1>3. PICK a \in Answers :
        /\ replies' = Append(replies, a) /\ a.pc = status
        /\ a.kind = q.kind /\ a.pkg = q.pkg /\ a.version = q.version
        /\ Answerable(q) => Answerable(a)
  BY <1>2 DEF Answering
<1>4. AnswerOK(a)
  BY <1>3 DEF AnswerOK, Gone
<1>5. req' = [req EXCEPT ![r] = IdleReq]
  BY DEF Reply
<1> QED
  BY <1>3, <1>4, <1>5, AnswersKeep

LEMMA ReqFacts ==
  ASSUME ServingInv, NEW r \in Readers
  PROVE  req[r] \in Requests /\ RequestOK(req[r])
BY DEF ServingInv, Asking

LEMMA ListVersionsKeeps ==
  ASSUME Calm, ServingInv, NEW r \in Readers, ListVersions(r)
  PROVE  ServingInv'
<1>1. PICK q : q = req[r]
  OBVIOUS
<1>2. PICK found, asked :
        /\ found = {v \in Versions : <<q.pkg, v>> \in dirs}
        /\ asked = IF q.ask # None THEN {q.ask} ELSE found \cap q.range
  OBVIOUS
<1>3. /\ q \in Requests /\ RequestOK(q) /\ q.pc = "list" /\ q.kind \in {"install", "tool"}
      /\ UNCHANGED <<vars, moderation, downloads>>
  BY <1>1, ReqFacts DEF ListVersions, RequestOK
<1>4. found \in SUBSET Versions /\ asked \in SUBSET Versions
  BY <1>2, <1>3 DEF Requests, Queries
<1>5. CASE found = {} \/ (q.kind = "install" /\ asked = {})
  <2>1. Reply(r, q, 404, "idle")
    BY <1>1, <1>2, <1>5 DEF ListVersions
  <2> QED
    BY <1>3, <2>1, ReplyKeeps
<1>6. CASE found # {} /\ q.kind = "install" /\ asked # {}
  <2>1. PICK v, n : v = Highest(asked) /\ n = [q EXCEPT !.version = v, !.pc = "manifest"]
    OBVIOUS
  <2>2. req' = [req EXCEPT ![r] = n] /\ replies' = replies
    BY <1>1, <1>2, <1>6, <2>1 DEF ListVersions, Goes
  <2>3. v \in Versions
    BY <1>4, <1>6, <2>1, HighestIn
  <2>4. /\ n \in Requests /\ n.pc = "manifest" /\ n.version = v /\ n.kind = q.kind
        /\ n.pkg = q.pkg /\ n.gone = q.gone
    BY <1>3, <2>1, <2>3, ZenonT(30) DEF Requests, Queries
  <2>5. RequestOK(n) /\ n.pc # "count"
    BY <1>3, <2>3, <2>4 DEF RequestOK
  <2> QED
    BY <1>3, <2>2, <2>4, <2>5, MovesOn
<1>7. CASE found # {} /\ q.kind = "tool"
  <2>1. PICK n : n = [q EXCEPT !.list = found, !.pc = "latest"]
    OBVIOUS
  <2>2. req' = [req EXCEPT ![r] = n] /\ replies' = replies
    BY <1>1, <1>2, <1>7, <2>1 DEF ListVersions, Goes
  <2>3. /\ n \in Requests /\ n.pc = "latest" /\ n.list = found /\ n.kind = q.kind
        /\ n.pkg = q.pkg /\ n.gone = q.gone
    BY <1>3, <1>4, <2>1 DEF Requests, Queries
  <2>4. RequestOK(n) /\ n.pc # "count"
    BY <1>3, <1>7, <2>3 DEF RequestOK
  <2> QED
    BY <1>3, <2>2, <2>3, <2>4, MovesOn
<1> QED
  BY <1>3, <1>5, <1>6, <1>7

LEMMA ReadLatestKeeps ==
  ASSUME Calm, ServingInv, NEW r \in Readers, ReadLatest(r)
  PROVE  ServingInv'
<1>1. PICK q : q = req[r]
  OBVIOUS
<1>2. /\ q \in Requests /\ RequestOK(q) /\ q.pc = "latest" /\ q.kind \in {"install", "tool"}
      /\ q.pkg \in Packages /\ q.list \in SUBSET Versions /\ q.list # {}
      /\ UNCHANGED <<vars, moderation, replies, downloads>>
  BY <1>1, ReqFacts DEF ReadLatest, RequestOK, Requests, Queries
<1>3. PICK newest :
        newest = IF latest[q.pkg] # None THEN latest[q.pkg] ELSE PickLatest(q.list)
  OBVIOUS
<1>4. newest \in Versions
  <2>1. latest[q.pkg] \in Versions \cup {None}
    BY <1>2 DEF ServingInv, Inv, Control, TypeOK
  <2>2. PickLatest(q.list) \in Versions
    BY <1>2, PickLatestIn
  <2> QED
    BY <1>3, <2>1, <2>2
<1>5. PICK v : v = IF q.ask # None THEN q.ask ELSE newest
  OBVIOUS
<1>6. v \in Versions
  BY <1>2, <1>4, <1>5 DEF Requests, Queries
<1>7. PICK n : n = [q EXCEPT !.latest = newest, !.version = v, !.pc = "manifest"]
  OBVIOUS
<1>8. req' = [req EXCEPT ![r] = n]
  BY <1>1, <1>3, <1>5, <1>7 DEF ReadLatest, Goes
<1>9. /\ n \in Requests /\ n.pc = "manifest" /\ n.version = v /\ n.kind = q.kind
      /\ n.pkg = q.pkg /\ n.gone = q.gone
  BY <1>2, <1>4, <1>6, <1>7 DEF Requests, Queries
<1>10. RequestOK(n) /\ n.pc # "count"
  BY <1>2, <1>6, <1>9 DEF RequestOK
<1> QED
  BY <1>2, <1>8, <1>9, <1>10, MovesOn

LEMMA ReadManifestKeeps ==
  ASSUME Calm, ServingInv, NEW r \in Readers, ReadManifest(r)
  PROVE  ServingInv'
<1>1. PICK q : q = req[r]
  OBVIOUS
<1>2. /\ q \in Requests /\ RequestOK(q) /\ q.pc = "manifest" /\ q.kind \in {"install", "tool"}
      /\ q.pkg \in Packages /\ q.version \in Versions
      /\ UNCHANGED <<vars, moderation, downloads>>
  BY <1>1, ReqFacts DEF ReadManifest, RequestOK
<1>3. PICK body : body = file[<<q.pkg, q.version, "manifest">>]
  OBVIOUS
<1>4. CASE body = None
  <2>1. Reply(r, q, 404, "idle")
    BY <1>1, <1>3, <1>4 DEF ReadManifest
  <2> QED
    BY <1>2, <2>1, ReplyKeeps
<1>5. CASE body # None
  <2>1. PICK n : n = [q EXCEPT !.manifest = body, !.pc = "index"]
    OBVIOUS
  <2>2. req' = [req EXCEPT ![r] = n] /\ replies' = replies
    BY <1>1, <1>3, <1>5, <2>1 DEF ReadManifest, Goes
  <2>3. body \in Contents \cup {None, Torn} /\ Released(q.pkg, q.version, body)
    BY <1>2, <1>3, <1>5, Kinds, FileType, FilesOfRelease DEF ServingInv
  <2>4. /\ n \in Requests /\ n.pc = "index" /\ n.manifest = body /\ n.version = q.version
        /\ n.kind = q.kind /\ n.pkg = q.pkg /\ n.gone = q.gone
    BY <1>2, <2>1, <2>3 DEF Requests, Queries
  <2>5. RequestOK(n) /\ n.pc # "count"
    BY <1>2, <2>3, <2>4 DEF RequestOK
  <2> QED
    BY <1>2, <2>2, <2>4, <2>5, MovesOn
<1> QED
  BY <1>4, <1>5

LEMMA ReadIndexKeeps ==
  ASSUME Calm, ServingInv, NEW r \in Readers, ReadIndex(r)
  PROVE  ServingInv'
<1>1. PICK q : q = req[r]
  OBVIOUS
<1>2. /\ q \in Requests /\ RequestOK(q) /\ q.pc = "index"
      /\ UNCHANGED <<vars, moderation, downloads>>
  BY <1>1, ReqFacts DEF ReadIndex
<1>3. CASE file[<<q.pkg, q.version, "index">>] = None
  <2>1. Reply(r, q, 404, "idle")
    BY <1>1, <1>3 DEF ReadIndex
  <2> QED
    BY <1>2, <2>1, ReplyKeeps
<1>4. CASE file[<<q.pkg, q.version, "index">>] # None
  <2>1. PICK n : n = [q EXCEPT !.pc = "sha"]
    OBVIOUS
  <2>2. req' = [req EXCEPT ![r] = n] /\ replies' = replies
    BY <1>1, <1>4, <2>1 DEF ReadIndex, Goes
  <2>3. /\ n \in Requests /\ n.pc = "sha" /\ n.manifest = q.manifest
        /\ n.version = q.version /\ n.kind = q.kind /\ n.pkg = q.pkg /\ n.gone = q.gone
    BY <1>2, <2>1 DEF Requests, Queries
  <2>4. RequestOK(n) /\ n.pc # "count"
    BY <1>2, <2>3 DEF RequestOK
  <2> QED
    BY <1>2, <2>2, <2>3, <2>4, MovesOn
<1> QED
  BY <1>3, <1>4

LEMMA ReadShaKeeps ==
  ASSUME Calm, ServingInv, NEW r \in Readers, ReadSha(r)
  PROVE  ServingInv'
<1>1. PICK q : q = req[r]
  OBVIOUS
<1>2. /\ q \in Requests /\ RequestOK(q) /\ q.pc = "sha" /\ q.kind \in {"install", "tool"}
      /\ q.pkg \in Packages /\ q.version \in Versions
      /\ Released(q.pkg, q.version, q.manifest)
      /\ UNCHANGED <<vars, moderation, downloads>>
  BY <1>1, ReqFacts DEF ReadSha, RequestOK
<1>3. PICK body : body = file[<<q.pkg, q.version, "sha">>]
  OBVIOUS
<1>4. PICK read : read = [q EXCEPT !.sha = body]
  OBVIOUS
<1>5. body \in Contents \cup {None, Torn}
      /\ (body # None => Released(q.pkg, q.version, body))
  BY <1>2, <1>3, Kinds, FileType, FilesOfRelease DEF ServingInv
<1>6. /\ read \in Requests /\ read.sha = body /\ read.manifest = q.manifest
      /\ read.version = q.version /\ read.kind = q.kind /\ read.pkg = q.pkg
      /\ read.gone = q.gone
  BY <1>2, <1>4, <1>5 DEF Requests, Queries
<1>7. CASE body = None
  <2>1. Reply(r, q, 404, "idle")
    BY <1>1, <1>3, <1>7 DEF ReadSha
  <2> QED
    BY <1>2, <2>1, ReplyKeeps
<1>8. CASE body # None /\ q.kind = "tool"
  <2>1. Reply(r, read, 200, "idle")
    BY <1>1, <1>3, <1>4, <1>8 DEF ReadSha
  <2>2. Answerable(read)
    BY <1>2, <1>5, <1>6, <1>8 DEF Answerable
  <2> QED
    BY <1>2, <1>6, <2>1, <2>2, ReplyKeeps
<1>9. CASE body # None /\ q.kind = "install"
  <2>1. PICK n : n = [read EXCEPT !.pc = "gate"]
    OBVIOUS
  <2>2. req' = [req EXCEPT ![r] = n] /\ replies' = replies
    BY <1>1, <1>3, <1>4, <1>9, <2>1 DEF ReadSha, Goes
  <2>3. /\ n \in Requests /\ n.pc = "gate" /\ n.sha = body /\ n.manifest = q.manifest
        /\ n.version = q.version /\ n.kind = q.kind /\ n.pkg = q.pkg /\ n.gone = q.gone
    BY <1>6, <2>1 DEF Requests, Queries
  <2>4. RequestOK(n) /\ n.pc # "count"
    BY <1>2, <1>5, <1>9, <2>3 DEF RequestOK
  <2> QED
    BY <1>2, <2>2, <2>3, <2>4, MovesOn
<1> QED
  BY <1>2, <1>7, <1>8, <1>9

(* The gate: a version that was withdrawn when the request arrived still is.*)
LEMMA GateKeeps ==
  ASSUME Calm, ServingInv, NEW r \in Readers, Gate(r)
  PROVE  ServingInv'
<1>1. PICK p : p = req[r]
  OBVIOUS
<1>2. PICK q : q = IF p.kind = "artifact" THEN [p EXCEPT !.version = p.ask] ELSE p
  OBVIOUS
<1>3. PICK failed \in BOOLEAN : failed = Withdrawn(q.pkg, q.version)
  <2>1. p \in Requests /\ RequestOK(p) /\ p.pc = "gate"
    BY <1>1, ReqFacts DEF Gate
  <2>2. q.pkg = p.pkg /\ p.pkg \in Packages
    BY <1>2, <2>1 DEF Requests, Queries, RequestOK
  <2>3. q.version \in Versions
    BY <1>2, <2>1 DEF Requests, Queries, RequestOK
  <2>4. <<q.pkg, q.version>> \in Moderation!Keys
    BY <2>2, <2>3, SpellingsAssumption DEF Moderation!Keys
  <2>5. rows[<<q.pkg, q.version>>] \in Moderation!Rows
    BY <2>4 DEF ServingInv, Moderated
  <2> QED
    BY <2>5 DEF Withdrawn, Moderation!Rows
<1>4. PICK clean : clean = [q EXCEPT !.failed = failed]
  OBVIOUS
<1>5. /\ p \in Requests /\ RequestOK(p) /\ p.pc = "gate" /\ p.pkg \in Packages
      /\ p.kind \in {"install", "artifact"} /\ p.gone \in SUBSET Versions
      /\ \A v \in p.gone : Withdrawn(p.pkg, v)
      /\ UNCHANGED <<vars, moderation, downloads>>
  <2>1. p \in Requests /\ RequestOK(p) /\ p.pc = "gate"
        /\ UNCHANGED <<vars, moderation, downloads>>
    BY <1>1, ReqFacts DEF Gate
  <2> QED
    BY <2>1 DEF RequestOK, Requests, Queries
<1>6. /\ q \in Requests /\ q.pc = p.pc /\ q.pkg = p.pkg /\ q.kind = p.kind
      /\ q.gone = p.gone /\ q.manifest = p.manifest /\ q.sha = p.sha
      /\ q.version \in Versions /\ (p.kind = "install" => q.version = p.version)
  <2>1. p.kind = "artifact" => p.ask \in Versions
    BY <1>5 DEF RequestOK
  <2>2. p.kind = "install" => p.version \in Versions
    BY <1>5 DEF RequestOK
  <2> QED
    BY <1>2, <1>5, <2>1, <2>2 DEF Requests, Queries
<1>7. /\ clean \in Requests /\ clean.pc = p.pc /\ clean.pkg = p.pkg /\ clean.kind = p.kind
      /\ clean.gone = p.gone /\ clean.manifest = p.manifest /\ clean.sha = p.sha
      /\ clean.version = q.version /\ clean.failed = failed
  BY <1>4, <1>6 DEF Requests, Queries
<1>8. ~failed => clean.version \notin clean.gone
  BY <1>3, <1>5, <1>6, <1>7
<1>9. \/ Withdrawn(q.pkg, q.version) /\ Reply(r, q, 410, "idle")
      \/ p.kind = "install" /\ Reply(r, clean, 200, "idle")
      \/ p.kind # "install" /\ Goes(r, clean, "open") /\ replies' = replies
  BY <1>1, <1>2, <1>3, <1>4, <1>6 DEF Gate, Refused
<1>10. CASE Withdrawn(q.pkg, q.version) /\ Reply(r, q, 410, "idle")
  <2>1. Gone(q)
    BY <1>5, <1>6, <1>10 DEF Gone
  <2> QED
    BY <1>5, <1>6, <1>10, <2>1, ReplyKeeps
<1>11. CASE p.kind = "install" /\ Reply(r, clean, 200, "idle")
  <2>1. Released(p.pkg, p.version, p.manifest) /\ Released(p.pkg, p.version, p.sha)
    BY <1>5, <1>11 DEF RequestOK
  <2>2. Answerable(clean)
    BY <1>5, <1>6, <1>7, <1>8, <1>11, <2>1 DEF Answerable
  <2> QED
    BY <1>5, <1>7, <1>11, <2>2, ReplyKeeps
<1>12. CASE p.kind # "install" /\ Goes(r, clean, "open") /\ replies' = replies
  <2>1. PICK n : n = [clean EXCEPT !.pc = "open"]
    OBVIOUS
  <2>2. req' = [req EXCEPT ![r] = n]
    BY <1>12, <2>1 DEF Goes
  <2>3. /\ n \in Requests /\ n.pc = "open" /\ n.pkg = p.pkg /\ n.kind = p.kind
        /\ n.gone = p.gone /\ n.version = q.version /\ n.failed = failed
    BY <1>7, <2>1 DEF Requests, Queries
  <2>4. RequestOK(n) /\ n.pc # "count"
    BY <1>5, <1>6, <1>7, <1>8, <1>12, <2>3 DEF RequestOK
  <2> QED
    BY <1>5, <1>12, <2>2, <2>3, <2>4, MovesOn
<1> QED
  BY <1>9, <1>10, <1>11, <1>12

LEMMA OpenArtifactKeeps ==
  ASSUME Calm, ServingInv, NEW r \in Readers, OpenArtifact(r)
  PROVE  ServingInv'
<1>1. PICK q : q = req[r]
  OBVIOUS
<1>2. /\ q \in Requests /\ RequestOK(q) /\ q.pc = "open"
      /\ q.pkg \in Packages /\ q.version \in Versions
      /\ UNCHANGED <<vars, moderation, downloads>>
  BY <1>1, ReqFacts DEF OpenArtifact, RequestOK
<1>3. PICK body : body = file[<<q.pkg, q.version, "tgz">>]
  OBVIOUS
<1>4. CASE body = None
  <2>1. Reply(r, q, 404, "idle")
    BY <1>1, <1>3, <1>4 DEF OpenArtifact
  <2> QED
    BY <1>2, <2>1, ReplyKeeps
<1>5. CASE body # None
  <2>1. PICK n : n = [q EXCEPT !.tgz = body, !.pc = "sum"]
    OBVIOUS
  <2>2. req' = [req EXCEPT ![r] = n] /\ replies' = replies
    BY <1>1, <1>3, <1>5, <2>1 DEF OpenArtifact, Goes
  <2>3. body \in Contents \cup {None, Torn} /\ Released(q.pkg, q.version, body)
    BY <1>2, <1>3, <1>5, Kinds, FileType DEF ServingInv, Released, Tarball
  <2>4. /\ n \in Requests /\ n.pc = "sum" /\ n.tgz = body /\ n.version = q.version
        /\ n.kind = q.kind /\ n.pkg = q.pkg /\ n.gone = q.gone /\ n.failed = q.failed
    BY <1>2, <2>1, <2>3 DEF Requests, Queries
  <2>5. RequestOK(n) /\ n.pc # "count"
    BY <1>2, <2>3, <2>4 DEF RequestOK
  <2> QED
    BY <1>2, <2>2, <2>4, <2>5, MovesOn
<1> QED
  BY <1>4, <1>5

(* One more of a finite set.                                                *)
LEMMA OneMore ==
  ASSUME NEW S, IsFiniteSet(S), NEW x, x \notin S
  PROVE  Cardinality(S \cup {x}) = Cardinality(S) + 1
BY ONLY IsFiniteSet(S), x \notin S, FS_AddElement

(* The answer that serves a download.                                       *)
LEMMA DownloadAnswer ==
  ASSUME NEW r, NEW q \in Requests, q.kind = "artifact", Answerable(q),
         Reply(r, q, 200, "count")
  PROVE  \E a \in Answers :
           /\ replies' = Append(replies, a) /\ a.pc = 200 /\ a.kind = "artifact"
           /\ a.pkg = q.pkg /\ a.version = q.version /\ Answerable(a)
<1>1. PICK status \in {200, 404, 410}, pc \in {"count"} :
        status = 200 /\ Reply(r, q, status, pc)
  OBVIOUS
<1>2. q \in Requests /\ status \in {200, 404, 410} /\ Reply(r, q, status, pc)
  BY <1>1
<1>3. Answering(q, status)
  BY ONLY <1>2, ReplyIs
<1> QED
  BY <1>1, <1>3 DEF Answering

(* A download is served, and its count is due: the answer and the request   *)
(* that has its count ahead of it are of the same version.                  *)
DownloadIsDue(r, n, a) ==
  /\ ServingInv
  /\ downloads' = downloads
  /\ r \in Readers /\ req[r].pc # "count"
  /\ n.pc = "count" /\ req' = [req EXCEPT ![r] = n]
  /\ a \in Answers /\ replies' = Append(replies, a)
  /\ a.pc = 200 /\ a.kind = "artifact" /\ a.pkg = n.pkg /\ a.version = n.version

LEMMA DownloadDue ==
  ASSUME NEW r, NEW n, NEW a, DownloadIsDue(r, n, a)
  PROVE  Counted'
<1> USE DEF DownloadIsDue
<1>1. replies \in Seq(Answers) /\ req \in [Readers -> Requests]
  BY DEF ServingInv, Answered, Asking
<1>2. ASSUME NEW p \in Packages, NEW v \in Versions
      PROVE  downloads'[p][v] + Cardinality(Counting(p, v)') <= Cardinality(ServedOf(p, v)')
  <2>1. /\ IsFiniteSet(Counting(p, v)) /\ Cardinality(Counting(p, v)) \in Nat
        /\ IsFiniteSet(ServedOf(p, v)) /\ Cardinality(ServedOf(p, v)) \in Nat
    BY <1>1, FiniteCounts
  <2>2. downloads[p][v] \in Nat
        /\ downloads[p][v] + Cardinality(Counting(p, v)) <= Cardinality(ServedOf(p, v))
    BY DEF ServingInv, Counted
  <2>3. r \notin Counting(p, v) /\ Len(replies) + 1 \notin ServedOf(p, v)
    BY <1>1 DEF Counting, ServedOf, Served
  <2>4. ServedOf(p, v)' = ServedOf(p, v) \cup
          IF a.pc = 200 /\ <<a.kind, a.pkg, a.version>> = <<"artifact", p, v>>
          THEN {Len(replies) + 1} ELSE {}
    BY <1>1, ServedGrows
  <2>5. CASE n.pkg = p /\ n.version = v
    <3>1. Counting(p, v)' = Counting(p, v) \cup {r}
      BY <1>1, <2>5 DEF Counting
    <3>2. ServedOf(p, v)' = ServedOf(p, v) \cup {Len(replies) + 1}
      BY <2>4, <2>5
    <3>3. Cardinality(Counting(p, v) \cup {r}) = Cardinality(Counting(p, v)) + 1
      BY ONLY <2>1, <2>3, OneMore
    <3>4. Cardinality(ServedOf(p, v) \cup {Len(replies) + 1}) = Cardinality(ServedOf(p, v)) + 1
      BY ONLY <2>1, <2>3, OneMore
    <3> QED
      BY <2>1, <2>2, <3>1, <3>2, <3>3, <3>4
  <2>6. CASE ~(n.pkg = p /\ n.version = v)
    <3>1. Counting(p, v)' = Counting(p, v)
      BY <1>1, <2>3, <2>6 DEF Counting
    <3>2. ServedOf(p, v)' = ServedOf(p, v)
      BY <2>4, <2>6
    <3> QED
      BY <2>2, <3>1, <3>2
  <2> QED
    BY <2>5, <2>6
<1> QED
  BY <1>2 DEF ServingInv, Counted

LEMMA ReadSumKeeps ==
  ASSUME Calm, ServingInv, NEW r \in Readers, ReadSum(r)
  PROVE  ServingInv'
<1>1. PICK q : q = req[r]
  OBVIOUS
<1>2. /\ q \in Requests /\ RequestOK(q) /\ q.pc = "sum" /\ q.kind = "artifact"
      /\ q.pkg \in Packages /\ q.version \in Versions
      /\ Released(q.pkg, q.version, q.tgz) /\ (~q.failed => q.version \notin q.gone)
      /\ UNCHANGED <<vars, moderation, downloads>>
  BY <1>1, ReqFacts DEF ReadSum, RequestOK
<1>3. PICK body : body = file[<<q.pkg, q.version, "tgzsha">>]
  OBVIOUS
<1>4. body \in Contents \cup {None, Torn}
  BY <1>2, <1>3, Kinds, FileType DEF ServingInv
<1>5. CASE body = None
  <2>1. PICK left : left = [q EXCEPT !.tgz = None]
    OBVIOUS
  <2>2. Reply(r, left, 404, "idle")
    BY <1>1, <1>3, <1>5, <2>1 DEF ReadSum
  <2>3. left \in Requests
    BY <1>2, <2>1 DEF Requests, Queries
  <2> QED
    BY <1>2, <2>2, <2>3, ReplyKeeps
<1>6. CASE body # None
  <2>1. PICK read : read = [q EXCEPT !.sha = body]
    OBVIOUS
  <2>2. PICK n : n = [read EXCEPT !.pc = "count"]
    OBVIOUS
  <2>3. Reply(r, read, 200, "count")
    BY <1>1, <1>3, <1>6, <2>1 DEF ReadSum
  <2>4. req' = [req EXCEPT ![r] = n]
    BY <2>2, <2>3 DEF Reply
  <2>5. /\ read \in Requests /\ read.kind = q.kind /\ read.pkg = q.pkg
        /\ read.version = q.version /\ read.tgz = q.tgz /\ read.gone = q.gone
        /\ read.failed = q.failed
    BY <1>2, <1>4, <2>1 DEF Requests, Queries
  <2>6. Answerable(read)
    BY <1>2, <2>5 DEF Answerable
  <2>7. PICK a \in Answers :
          /\ replies' = Append(replies, a) /\ a.pc = 200 /\ a.kind = "artifact"
          /\ a.pkg = read.pkg /\ a.version = read.version /\ Answerable(a)
    <3>1. read.kind = "artifact"
      BY <1>2, <2>5
    <3> QED
      BY <2>3, <2>5, <2>6, <3>1, DownloadAnswer
  <2>8. /\ n \in Requests /\ n.pc = "count" /\ n.kind = q.kind /\ n.pkg = q.pkg
        /\ n.version = q.version /\ n.gone = q.gone /\ n.failed = q.failed
    BY <2>2, <2>5 DEF Requests, Queries
  <2>9. RequestOK(n)
    BY <1>2, <2>8 DEF RequestOK
  <2>10. Inv' /\ Moderated' /\ Stays
    BY <1>2, CorpusKept
  <2>11. Asking'
    BY <2>4, <2>8, <2>9, <2>10, AskingKept
  <2>12. Answered'
    BY <2>6, <2>7, <2>10, AnsweredKept DEF AnswerOK
  <2>13. Counted'
    <3>1. req[r].pc # "count" /\ downloads' = downloads
      BY <1>1, <1>2
    <3>2. n.pc = "count" /\ a.pkg = n.pkg /\ a.version = n.version
      BY <2>5, <2>7, <2>8
    <3>3. DownloadIsDue(r, n, a)
      BY <2>4, <2>7, <3>1, <3>2 DEF DownloadIsDue
    <3> QED
      BY ONLY <3>3, DownloadDue
  <2> QED
    BY <2>10, <2>11, <2>12, <2>13 DEF ServingInv
<1> QED
  BY <1>5, <1>6

LEMMA CountDownloadKeeps ==
  ASSUME Calm, ServingInv, NEW r \in Readers, CountDownload(r)
  PROVE  ServingInv'
<1>1. PICK q : q = req[r]
  OBVIOUS
<1>2. /\ q \in Requests /\ RequestOK(q) /\ q.pc = "count"
      /\ q.pkg \in Packages /\ q.version \in Versions
      /\ req' = [req EXCEPT ![r] = IdleReq] /\ replies' = replies
      /\ UNCHANGED <<vars, moderation>>
  BY <1>1, ReqFacts DEF CountDownload, RequestOK
<1>3. PICK new : new = [downloads EXCEPT ![q.pkg][q.version] = @ + 1]
  OBVIOUS
<1>4. downloads' = downloads \/ downloads' = new
  BY <1>1, <1>3 DEF CountDownload
<1>5. downloads \in [Packages -> [Versions -> Nat]]
  BY DEF ServingInv, Counted
<1>6. /\ new \in [Packages -> [Versions -> Nat]]
      /\ \A p \in Packages, v \in Versions :
           new[p][v] = IF p = q.pkg /\ v = q.version THEN downloads[p][v] + 1 ELSE downloads[p][v]
  BY <1>2, <1>3, <1>5
<1>7. Inv' /\ Moderated' /\ Stays
  BY <1>2, CorpusKept
<1>8. Asking' /\ Answered'
  BY <1>2, <1>7, IdleReqOK, AskingKept, AnsweredKept
<1>9. ASSUME NEW p \in Packages, NEW v \in Versions
      PROVE  downloads'[p][v] + Cardinality(Counting(p, v)') <= Cardinality(ServedOf(p, v)')
  <2>1. replies \in Seq(Answers) /\ req \in [Readers -> Requests]
    BY DEF ServingInv, Answered, Asking
  <2>2. /\ IsFiniteSet(Counting(p, v)) /\ Cardinality(Counting(p, v)) \in Nat
        /\ Cardinality(ServedOf(p, v)) \in Nat
    BY <2>1, FiniteCounts
  <2>3. downloads[p][v] \in Nat
        /\ downloads[p][v] + Cardinality(Counting(p, v)) <= Cardinality(ServedOf(p, v))
    BY DEF ServingInv, Counted
  <2>4. ServedOf(p, v)' = ServedOf(p, v)
    BY <1>2 DEF ServedOf, Served
  <2>5. Counting(p, v)' = Counting(p, v) \ {r}
    BY <1>2, <2>1, IdleReqOK DEF Counting
  <2>6. CASE p = q.pkg /\ v = q.version
    <3>1. r \in Counting(p, v)
      BY <1>1, <1>2, <2>6 DEF Counting
    <3>2. Cardinality(Counting(p, v)') = Cardinality(Counting(p, v)) - 1
      BY <2>2, <2>5, <3>1, FS_RemoveElement
    <3>3. downloads'[p][v] <= downloads[p][v] + 1 /\ downloads'[p][v] \in Nat
      BY <1>4, <1>6, <2>3, <2>6
    <3> QED
      BY <2>2, <2>3, <2>4, <3>2, <3>3
  <2>7. CASE ~(p = q.pkg /\ v = q.version)
    <3>1. Counting(p, v)' = Counting(p, v)
      BY <1>1, <2>5, <2>7 DEF Counting
    <3>2. downloads'[p][v] = downloads[p][v]
      BY <1>4, <1>6, <2>7
    <3> QED
      BY <2>3, <2>4, <3>1, <3>2
  <2> QED
    BY <2>6, <2>7
<1>10. Counted'
  BY <1>4, <1>5, <1>6, <1>9 DEF Counted
<1> QED
  BY <1>7, <1>8, <1>10 DEF ServingInv

-----------------------------------------------------------------------------
LEMMA ServeKeeps ==
  ASSUME Calm, ServingInv, NEW r \in Readers, Serve(r)
  PROVE  ServingInv'
<1>1. ASSUME NEW p \in Packages, NEW ask \in Versions \cup {None},
             NEW range \in Ranges \cup {{}},
             InstallRequest(r, p, ask, range) \/ ToolRequest(r, p, ask)
      PROVE  ServingInv'
  <2>1. ask \in Versions \cup {None} /\ range \in SUBSET Versions /\ {} \in SUBSET Versions
    BY RangesAssumption
  <2> QED
    BY <1>1, <2>1, ArrivesKeeps DEF InstallRequest, ToolRequest
<1>2. ASSUME NEW p \in Packages, NEW ask \in Versions, ArtifactRequest(r, p, ask)
      PROVE  ServingInv'
  <2>1. ask \in Versions /\ {} \in SUBSET Versions
    BY RangesAssumption
  <2> QED
    BY <1>2, <2>1, ArrivesKeeps DEF ArtifactRequest
<1>3. CASE \/ ListVersions(r) \/ ReadLatest(r) \/ ReadManifest(r) \/ ReadIndex(r)
           \/ ReadSha(r) \/ Gate(r) \/ OpenArtifact(r) \/ ReadSum(r) \/ CountDownload(r)
  BY <1>3, ListVersionsKeeps, ReadLatestKeeps, ReadManifestKeeps, ReadIndexKeeps,
     ReadShaKeeps, GateKeeps, OpenArtifactKeeps, ReadSumKeeps, CountDownloadKeeps
<1>4. \A s \in Asked : Canonical[s] \in Versions
  BY SpellingsAssumption
<1> QED
  BY <1>1, <1>2, <1>3, <1>4 DEF Serve

(* The crawler and the admins leave requests, answers and downloads alone.  *)
LEMMA OthersKeep ==
  ASSUME ServingInv, Inv', Moderated', Stays, UNCHANGED serving
  PROVE  ServingInv'
<1>1. req' = req /\ replies' = replies /\ downloads' = downloads
  BY DEF serving
<1>2. Asking'
  <2>1. req \in [Readers -> Requests] /\ Requests' = Requests
    BY DEF ServingInv, Asking, Requests, Queries
  <2>2. ASSUME NEW s \in Readers PROVE RequestOK(req[s])'
    <3>1. PICK x \in Requests : x = req'[s] /\ RequestOK(x)
      BY <1>1, <2>1 DEF ServingInv, Asking
    <3>2. RequestOK(x)' /\ x = req'[s]
      BY <3>1, RequestStays
    <3> QED
      BY <3>2
  <2> QED
    BY <1>1, <2>1, <2>2 DEF Asking
<1>3. Answered'
  BY <1>1, AnsweredKept
<1>4. Counted'
  BY <1>1, CountedKept
<1> QED
  BY <1>2, <1>3, <1>4 DEF ServingInv

LEMMA ServingStep ==
  ASSUME Calm, ServingInv, [ServingNext]_allVars
  PROVE  ServingInv'
<1>1. CASE Next /\ UNCHANGED <<moderation, serving>>
  <2>1. Inv' /\ TarballsStay
    BY <1>1, InvStep, CrawlStays DEF Calm, ServingInv
  <2>2. Moderated' /\ TakedownsStay
    BY <1>1 DEF ServingInv, Moderated, moderation, TakedownsStay, Withdrawn
  <2> QED
    BY <1>1, <2>1, <2>2, OthersKeep DEF Stays
<1>2. CASE Moderation!Next /\ UNCHANGED <<vars, serving>>
  <2>1. Inv' /\ TarballsStay
    BY <1>2, InvStep, CrawlStays DEF Calm, ServingInv
  <2>2. Moderated' /\ TakedownsStay
    BY <1>2, ModerationStays DEF ServingInv
  <2> QED
    BY <1>2, <2>1, <2>2, OthersKeep DEF Stays
<1>3. CASE \E r \in Readers : Serve(r)
  BY <1>3, ServeKeeps
<1>4. CASE UNCHANGED allVars
  <2>1. UNCHANGED <<vars, moderation, serving>>
    BY <1>4 DEF allVars
  <2> QED
    BY <2>1, CorpusKept, OthersKeep
<1> QED
  BY <1>1, <1>2, <1>3, <1>4 DEF ServingNext

LEMMA InitServing == ServingInit => ServingInv
<1> SUFFICES ASSUME ServingInit PROVE ServingInv
  OBVIOUS
<1> USE DEF ServingInit
<1>1. Inv
  BY InitInv
<1>2. Moderated
  BY DEF Moderated, Moderation!Init, Moderation!Rows, Moderation!Clean, Moderation!Calls,
         Moderation!NoCall
<1>3. Asking
  BY IdleReqOK DEF Asking
<1>4. Answered
  BY DEF Answered
<1>5. Counted
  <2>1. \A p, v : Counting(p, v) = {} /\ ServedOf(p, v) = {}
    BY IdleReqOK DEF Counting, ServedOf, Served
  <2>2. Cardinality({}) = 0
    BY FS_EmptySet
  <2>3. /\ downloads \in [Packages -> [Versions -> Nat]]
        /\ \A p \in Packages, v \in Versions : downloads[p][v] = 0
    OBVIOUS
  <2>4. ASSUME NEW p \in Packages, NEW v \in Versions
        PROVE  downloads[p][v] + Cardinality(Counting(p, v)) <= Cardinality(ServedOf(p, v))
    <3>1. Counting(p, v) = {} /\ ServedOf(p, v) = {}
      BY ONLY <2>1
    <3>2. Cardinality(Counting(p, v)) = 0 /\ Cardinality(ServedOf(p, v)) = 0
      BY ONLY <3>1, <2>2
    <3>3. downloads[p][v] = 0
      BY ONLY <2>3, p \in Packages, v \in Versions
    <3> QED
      BY ONLY <3>2, <3>3
  <2> QED
    BY <2>3, <2>4 DEF Counted
<1> QED
  BY <1>1, <1>2, <1>3, <1>4, <1>5 DEF ServingInv

(* Each handler knows the content of the version it has come to, and each   *)
(* answer tells it, while crawls are interrupted and versions withdrawn.    *)
THEOREM ServingInvariant ==
  ASSUME SingleCrawler, NoTagV000, RemovalsFail = FALSE
  PROVE  ServingSpec => []ServingInv
<1>1. Calm
  BY DEF Calm
<1>2. ServingInv /\ [ServingNext]_allVars => ServingInv'
  BY <1>1, ServingStep
<1> QED
  BY <1>2, InitServing, PTL DEF ServingSpec

(* What the API said of a released version stays true of its artifact.      *)
THEOREM AnswersTrue ==
  ASSUME SingleCrawler, NoTagV000, RemovalsFail = FALSE
  PROVE  ServingSpec => []AnswersStayTrue
<1>1. ServingInv => AnswersStayTrue
  BY DEF ServingInv, Answered, AnswerOK, Answerable, Released, Tarball, AnswersStayTrue,
         Served, Describes
<1> QED
  BY <1>1, ServingInvariant, PTL

(* Nothing that arrives after the takedown of a version, under its          *)
(* canonical spelling, gets it, unless a query failed; and no takedown of   *)
(* another row refuses anything.                                            *)
THEOREM TakedownsHold ==
  ASSUME SingleCrawler, NoTagV000, RemovalsFail = FALSE
  PROVE  ServingSpec => []WithdrawnStaysGone
<1>1. ServingInv => WithdrawnStaysGone
  BY DEF ServingInv, Answered, AnswerOK, Answerable, Gone, WithdrawnStaysGone, Served
<1> QED
  BY <1>1, ServingInvariant, PTL

(* The download count never runs ahead of the downloads that were served.   *)
THEOREM CountsAreServed ==
  ASSUME SingleCrawler, NoTagV000, RemovalsFail = FALSE
  PROVE  ServingSpec => []DownloadsWereServed
<1>1. ServingInv => DownloadsWereServed
  <2> SUFFICES ASSUME ServingInv, NEW p \in Packages, NEW v \in Versions
               PROVE  downloads[p][v] <= Cardinality(ServedOf(p, v))
    BY DEF DownloadsWereServed, ServedOf
  <2>1. replies \in Seq(Answers)
    BY DEF ServingInv, Answered
  <2>2. Cardinality(Counting(p, v)) \in Nat /\ Cardinality(ServedOf(p, v)) \in Nat
    BY <2>1, FiniteCounts
  <2> QED
    BY <2>2 DEF ServingInv, Counted
<1> QED
  BY <1>1, ServingInvariant, PTL

=============================================================================
