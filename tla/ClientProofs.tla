----------------------------- MODULE ClientProofs -----------------------------
(***************************************************************************)
(* Proofs about Client, for any registry, packages, bundles, companions,   *)
(* harnesses, crashes and failures.  ClientInv, and with it what the lock  *)
(* pins, holds for any number of processes.  The other theorems are for    *)
(* one process, whose commands follow one another: inguma takes no lock,   *)
(* and of two commands at once the last to write a file wins.              *)
(***************************************************************************)
EXTENDS Client, WellFoundedInduction, TLAPS

(***************************************************************************)
(* What a process knows.                                                   *)
(***************************************************************************)
(* The registry has version v of p, and it is the k that was read.          *)
Has(p, v, k) == published[p][v] # None /\ (~Republished => published[p][v] = k)

(* Version v of p was applied, with the content k that its pin records.     *)
WasApplied(p, v, k) == \E x \in Contents : <<p, v, x>> \in applied /\ (~Republished => x = k)

(* The version that an install asks for is resolved; it is applied.         *)
Resolved(f) ==
  /\ f.version \in Versions /\ f.version \in f.spec /\ f.sha \in Contents
  /\ Has(f.pkg, f.version, f.sha)
  /\ f.more \subseteq DOMAIN Members(f.pkg, f.version)
Done(f) == Resolved(f) /\ (Kind[f.pkg] # "bundle" => WasApplied(f.pkg, f.version, f.sha))

PinsApplied(l) ==
  \A p \in Pinned(l) : Kind[p] # "bundle" => WasApplied(p, l[p].version, l[p].sha)

(* The entry on its way into the harnesses is that of the innermost install.*)
Applying(j) ==
  j.pc \in {"binary", "binaryWrite", "apply", "harness", "write"} /\ j.mode # "uninstall"
Carries(j, f) ==
  /\ j.entry \in Entries /\ j.entry.pkg = f.pkg /\ j.entry.version = f.version
  /\ j.name = NameOf[f.pkg]
  /\ ~Republished => j.entry.content = f.sha
  /\ j.mode = "install" => Kind[f.pkg] # "bundle"

(* The shape of a command at each program counter.                          *)
Nested(j) == j.stack # << >>
Shape(j) ==
  /\ j.pc = "idle" => j.mode = None
  /\ j.pc = "next" => j.mode \in {"frozen", "upgrade"} /\ ~Nested(j)
  /\ j.pc \in {"resolve", "tool", "binary", "binaryWrite", "apply"} =>
       j.mode \in {"install", "frozen", "upgrade"} /\ Nested(j)
  /\ j.pc = "resolve" => Head(j.stack).more = {}
  /\ j.pc \in {"harness", "write"} => j.mode # None /\ (j.mode = "uninstall" <=> ~Nested(j))
  /\ j.pc \in {"companions", "more"} => j.mode = "install" /\ Nested(j)
  /\ j.pc = "companions" => Kind[Head(j.stack).pkg] # "bundle"
  /\ j.pc \in {"lockCreate", "lockWrite"} =>
       j.mode \in {"install", "upgrade"} /\ (j.mode = "upgrade" <=> ~Nested(j))
  /\ j.mode = "uninstall" => j.pc \in {"harness", "write"} /\ j.name \in Names /\ j.entry = None
  /\ j.mode \in {"frozen", "upgrade"} =>
       /\ j.todo \subseteq j.targets /\ j.targets \subseteq Pinned(j.lk)
       /\ Nested(j) => Tail(j.stack) = << >> /\ Head(j.stack).pkg \in j.targets
  /\ j.changed => j.mode = "upgrade"
  /\ Applying(j) => Carries(j, Head(j.stack))
  /\ j.pc = "write" => j.harness \in j.left /\ j.cfg \in ConfigOf

Knows(j) ==
  /\ Nested(j) /\ j.pc # "resolve" => Resolved(Head(j.stack))
  /\ Nested(j) /\ j.pc \in {"companions", "more", "lockCreate", "lockWrite"} =>
       Done(Head(j.stack))
  /\ \A i \in 2 .. Len(j.stack) : Done(j.stack[i])
  /\ j.pc \in {"lockCreate", "lockWrite"} \/ j.mode \in {"frozen", "upgrade"} =>
       PinsApplied(j.lk)

CommandOK(j) == j \in Procs /\ Shape(j) /\ Knows(j)

FilesOK ==
  /\ published \in [Packages -> [Versions -> Contents \cup {None}]]
  /\ config \in [Harnesses -> ConfigOf]
  /\ state \subseteq Names \X Harnesses
  /\ lock \in Locks \cup {None, Torn, Corrupt}
  /\ bins \in [Bins -> Entries \cup {None, Torn}]
  /\ applied \subseteq Packages \X Versions \X Contents
  /\ faults \in 0 .. MaxFaults
  /\ Readable(lock) => PinsApplied(lock)

(* The inductive invariant, for any number of processes.                    *)
ClientInv ==
  /\ FilesOK
  /\ proc \in [Clients -> Procs]
  /\ \A c \in Clients : CommandOK(proc[c])

-----------------------------------------------------------------------------
(* Lemmas about sequences.                                                  *)
LEMMA TopFacts ==
  ASSUME NEW F, NEW s \in Seq(F), s # << >>
  PROVE  /\ Head(s) \in F /\ Tail(s) \in Seq(F) /\ Len(s) \in Nat \ {0}
         /\ Head(s) = s[1] /\ Len(Tail(s)) = Len(s) - 1
         /\ \A i \in 1 .. Len(Tail(s)) : Tail(s)[i] = s[i + 1]
OBVIOUS

LEMMA ReplaceTop ==
  ASSUME NEW F, NEW s \in Seq(F), s # << >>, NEW f \in F, NEW t, t = <<f>> \o Tail(s)
  PROVE  /\ t \in Seq(F) /\ t # << >> /\ Len(t) = Len(s) /\ Head(t) = f
         /\ \A i \in 2 .. Len(t) : t[i] = s[i]
<1>1. Tail(s) \in Seq(F) /\ <<f>> \in Seq(F) /\ Len(<<f>>) = 1 /\ Len(s) \in Nat \ {0}
  OBVIOUS
<1>2. t \in Seq(F) /\ Len(t) = Len(s)
  BY <1>1
<1>3. t[1] = f
  BY <1>1
<1>4. \A i \in 2 .. Len(t) : t[i] = s[i]
  BY <1>1, <1>2
<1> QED
  BY <1>1, <1>2, <1>3, <1>4

LEMMA PushTop ==
  ASSUME NEW F, NEW s \in Seq(F), s # << >>, NEW f \in F, NEW g \in F,
         NEW t, t = <<g, f>> \o Tail(s)
  PROVE  /\ t \in Seq(F) /\ t # << >> /\ Len(t) = Len(s) + 1 /\ Head(t) = g
         /\ t[2] = f /\ \A i \in 3 .. Len(t) : t[i] = s[i - 1]
<1>1. Tail(s) \in Seq(F) /\ <<g, f>> \in Seq(F) /\ Len(<<g, f>>) = 2 /\ Len(s) \in Nat \ {0}
  OBVIOUS
<1>2. t \in Seq(F) /\ Len(t) = Len(s) + 1
  BY <1>1
<1>3. t[1] = g /\ t[2] = f
  BY <1>1
<1>4. \A i \in 3 .. Len(t) : t[i] = s[i - 1]
  BY <1>1, <1>2
<1> QED
  BY <1>1, <1>2, <1>3, <1>4

-----------------------------------------------------------------------------
(* Lemmas about versions.                                                   *)
LEMMA LeastNatural ==
  ASSUME NEW T \in SUBSET Nat, T # {}
  PROVE  \E n \in T : \A m \in T : n <= m
<1> DEFINE R == OpToRel(<, Nat)
<1>1. IsWellFoundedOn(R, Nat)
  BY NatLessThanWellFounded
<1>2. \A x, y \in Nat : <<y, x>> \in R <=> y < x
  BY DEF OpToRel
<1> HIDE DEF R
<1>3. PICK n \in T : \A y \in T : ~(<<y, n>> \in R)
  BY <1>1, WFMin
<1>4. ASSUME NEW m \in T PROVE n <= m
  <2>1. m \in Nat /\ n \in Nat /\ ~(<<m, n>> \in R)
    BY <1>3
  <2>2. ~(m < n)
    BY <1>2, <2>1
  <2> QED
    BY <2>1, <2>2
<1> QED
  BY <1>4

(* GetVersionedInstall resolves to the highest version of the range.        *)
LEMMA GreatestIn ==
  ASSUME NEW S \in SUBSET Versions, S # {}
  PROVE  Greatest(S) \in S /\ \A w \in S : w <= Greatest(S)
<1>1. \A v \in S : v \in Nat /\ v <= MaxVersion /\ MaxVersion - v \in Nat
  BY ClientVersionsAssumption DEF Versions
<1>2. PICK T \in SUBSET Nat : T = {MaxVersion - v : v \in S}
  BY <1>1
<1>3. PICK n \in T : \A m \in T : n <= m
  <2>1. T # {}
    BY <1>2
  <2> QED
    BY <2>1, LeastNatural
<1>4. PICK v \in S : n = MaxVersion - v
  BY <1>2
<1>5. \A w \in S : w <= v
  BY <1>1, <1>2, <1>3, <1>4, ClientVersionsAssumption
<1> QED
  BY <1>5 DEF Greatest

-----------------------------------------------------------------------------
(* What is known stays known: the registry and what was applied only grow.  *)
Grows ==
  /\ \A p \in Packages, v \in Versions :
       published[p][v] # None =>
         published'[p][v] # None /\ (~Republished => published'[p][v] = published[p][v])
  /\ applied \subseteq applied'

LEMMA KnownStays ==
  ASSUME Grows
  PROVE  /\ \A p \in Packages, v \in Versions : \A k : Has(p, v, k) => Has(p, v, k)'
         /\ \A p, v, k : WasApplied(p, v, k) => WasApplied(p, v, k)'
<1>1. ASSUME NEW p \in Packages, NEW v \in Versions, NEW k, Has(p, v, k)
      PROVE  Has(p, v, k)'
  BY <1>1 DEF Grows, Has
<1>2. ASSUME NEW p, NEW v, NEW k, WasApplied(p, v, k) PROVE WasApplied(p, v, k)'
  BY <1>2 DEF Grows, WasApplied
<1> QED
  BY <1>1, <1>2

LEMMA FrameStays ==
  ASSUME Grows, NEW f \in Frames
  PROVE  (Resolved(f) => Resolved(f)') /\ (Done(f) => Done(f)')
<1>1. f.pkg \in Packages
  BY DEF Frames
<1>2. ASSUME Resolved(f) PROVE Resolved(f)'
  <2>1. Has(f.pkg, f.version, f.sha)'
    BY <1>1, <1>2, KnownStays DEF Resolved
  <2> QED
    BY <1>2, <2>1 DEF Resolved
<1>3. ASSUME Done(f) PROVE Done(f)'
  <2>1. Kind[f.pkg] # "bundle" => WasApplied(f.pkg, f.version, f.sha)'
    BY <1>3, KnownStays DEF Done
  <2> QED
    BY <1>2, <1>3, <2>1 DEF Done
<1> QED
  BY <1>2, <1>3

LEMMA PinsStay ==
  ASSUME Grows, NEW l, PinsApplied(l)
  PROVE  PinsApplied(l)'
BY KnownStays DEF PinsApplied, Pinned

LEMMA CommandStays ==
  ASSUME Grows, NEW j, CommandOK(j)
  PROVE  CommandOK(j)'
<1>1. j.stack \in Seq(Frames)
  BY DEF CommandOK, Procs
<1>2. Nested(j) => Head(j.stack) \in Frames
  BY <1>1, TopFacts DEF Nested
<1>3. \A i \in 2 .. Len(j.stack) : j.stack[i] \in Frames
  BY <1>1
<1>4. \A i \in 2 .. Len(j.stack) : Done(j.stack[i])'
  <2> SUFFICES ASSUME NEW i \in 2 .. Len(j.stack) PROVE Done(j.stack[i])'
    OBVIOUS
  <2>1. Done(j.stack[i])
    BY DEF CommandOK, Knows
  <2> QED
    BY <1>3, <2>1, FrameStays
<1>5. PinsApplied(j.lk) => PinsApplied(j.lk)'
  BY PinsStay
<1>6. Nested(j) /\ Resolved(Head(j.stack)) => Resolved(Head(j.stack))'
  BY <1>2, FrameStays
<1>7. Nested(j) /\ Done(Head(j.stack)) => Done(Head(j.stack))'
  BY <1>2, FrameStays
<1>8. Knows(j)'
  BY <1>4, <1>5, <1>6, <1>7 DEF CommandOK, Knows
<1> QED
  BY <1>8 DEF CommandOK

(* A step of one process keeps the invariant if it leaves it in order.      *)
LEMMA StepKeeps ==
  ASSUME ClientInv, Grows, NEW c \in Clients, NEW k,
         proc' = [proc EXCEPT ![c] = k], CommandOK(k)', FilesOK'
  PROVE  ClientInv'
<1>1. k \in Procs
  BY DEF CommandOK
<1>2. ASSUME NEW d \in Clients PROVE CommandOK(proc[d])'
  <2>1. CASE d = c
    <3>1. PICK q : q = proc'[d]
      OBVIOUS
    <3>2. q = k
      BY <2>1, <3>1 DEF ClientInv
    <3> QED
      BY <3>1, <3>2
  <2>2. CASE d # c
    <3>1. PICK q : q = proc[d]
      OBVIOUS
    <3>2. CommandOK(q)'
      BY <3>1, CommandStays DEF ClientInv
    <3>3. proc'[d] = q
      BY <2>2, <3>1 DEF ClientInv
    <3> QED
      BY <3>2, <3>3
  <2> QED
    BY <2>1, <2>2
<1> QED
  BY <1>1, <1>2 DEF ClientInv

(* A step that touches no file.                                             *)
LEMMA LocalStep ==
  ASSUME ClientInv, NEW c \in Clients, NEW k, proc' = [proc EXCEPT ![c] = k],
         UNCHANGED <<published, files, applied, faults>>, CommandOK(k)
  PROVE  ClientInv'
<1>1. Grows
  BY DEF Grows
<1>2. FilesOK'
  BY PinsStay, <1>1 DEF ClientInv, FilesOK, files
<1>3. CommandOK(k)'
  BY <1>1, CommandStays
<1> QED
  BY <1>1, <1>2, <1>3, StepKeeps

LEMMA NoPinsFacts == NoPins \in Locks /\ Pinned(NoPins) = {} /\ PinsApplied(NoPins)
BY DEF NoPins, Locks, Pinned, PinsApplied

LEMMA IdleFacts ==
  /\ Idle \in Procs /\ Idle.pc = "idle" /\ Idle.mode = None /\ Idle.stack = << >>
  /\ Idle.changed = FALSE /\ Idle.lk = NoPins /\ Idle.targets = {} /\ Idle.todo = {}
  /\ Idle.name = None /\ Idle.entry = None
BY NoPinsFacts DEF Idle, Procs

LEMMA IdleOK == CommandOK(Idle)
<1>1. None \notin {"install", "upgrade", "frozen", "uninstall"}
  BY AbsenceAssumption DEF Modes
<1> QED
  BY <1>1, IdleFacts DEF CommandOK, Shape, Knows, Nested, Applying

LEMMA FailKeeps ==
  ASSUME ClientInv, NEW c \in Clients, Fail(c),
         UNCHANGED <<published, files, applied, faults>>
  PROVE  ClientInv'
BY IdleOK, LocalStep DEF Fail, Step

-----------------------------------------------------------------------------
(***************************************************************************)
(* What each step makes of a command, field by field.                      *)
(***************************************************************************)
SameLoop(k, j) ==
  /\ k.mode = j.mode /\ k.targets = j.targets /\ k.todo = j.todo /\ k.lk = j.lk
  /\ k.changed = j.changed
SameEntry(k, j) == k.name = j.name /\ k.entry = j.entry
SameVisit(k, j) == k.st = j.st /\ k.left = j.left /\ k.harness = j.harness /\ k.cfg = j.cfg

SameLower(k, j) ==
  Len(k.stack) = Len(j.stack) /\ \A i \in 2 .. Len(k.stack) : k.stack[i] = j.stack[i]

Quietly == UNCHANGED <<published, files, applied, faults>>

LEMMA CommandFacts ==
  ASSUME ClientInv, NEW c \in Clients
  PROVE  proc[c] \in Procs /\ CommandOK(proc[c])
BY DEF ClientInv

LEMMA FrameFacts ==
  ASSUME NEW q \in Requests, NEW nested \in BOOLEAN
  PROVE  /\ Frame(q, nested) \in Frames /\ Frame(q, nested).pkg = q.pkg
         /\ Frame(q, nested).spec = q.spec /\ Frame(q, nested).more = {}
         /\ Frame(q, nested).nested = nested
         /\ <<Frame(q, nested)>> \in Seq(Frames)
BY DEF Frame, Frames, Requests

LEMMA InstallStep ==
  ASSUME NEW c \in Clients, NEW q \in Requests, Install(c, q)
  PROVE  \E k \in Procs :
           /\ proc' = [proc EXCEPT ![c] = k] /\ Quietly
           /\ k.pc = "resolve" /\ k.mode = "install" /\ k.changed = FALSE
           /\ k.stack = <<Frame(q, FALSE)>>
<1>1. PICK k : k = [Idle EXCEPT !.pc = "resolve", !.mode = "install",
                                !.stack = <<Frame(q, FALSE)>>]
  OBVIOUS
<1>2. <<Frame(q, FALSE)>> \in Seq(Frames)
  BY FrameFacts
<1>3. /\ k \in Procs /\ k.pc = "resolve" /\ k.mode = "install" /\ k.changed = FALSE
      /\ k.stack = <<Frame(q, FALSE)>>
  BY <1>1, <1>2, IdleFacts DEF Procs, Modes
<1>4. proc' = [proc EXCEPT ![c] = k] /\ Quietly
  BY <1>1 DEF Install, Step, Quietly
<1> QED
  BY <1>3, <1>4

OverLockEffect(c, mode, entries) ==
  \E k \in Procs :
    /\ proc' = [proc EXCEPT ![c] = k]
    /\ k.pc = "next" /\ k.mode = mode /\ k.changed = FALSE /\ k.stack = << >>
    /\ k.lk = lock /\ k.targets = entries /\ k.todo = entries

LEMMA OverLockStep ==
  ASSUME ClientInv, NEW c \in Clients, NEW mode \in {"frozen", "upgrade"},
         NEW entries \in SUBSET Listed, OverLock(c, mode, entries)
  PROVE  /\ Quietly /\ lock \in Locks /\ entries \subseteq Pinned(lock)
         /\ OverLockEffect(c, mode, entries)
<1>1. Listed # {}
  BY DEF OverLock
<1>2. lock \in Locks /\ Decoded(lock) = lock /\ Listed = Pinned(lock)
  BY <1>1, NoPinsFacts DEF Listed, Decoded, ClientInv, FilesOK
<1>3. entries \subseteq Pinned(lock) /\ Pinned(lock) \subseteq Packages
  BY <1>2 DEF Pinned
<1>4. PICK k : k = [Idle EXCEPT !.pc = "next", !.mode = mode, !.lk = lock,
                                !.targets = entries, !.todo = entries]
  OBVIOUS
<1>5. /\ k \in Procs /\ k.pc = "next" /\ k.mode = mode /\ k.changed = FALSE
      /\ k.stack = << >> /\ k.lk = lock /\ k.targets = entries /\ k.todo = entries
  BY ZenonT(40), <1>2, <1>3, <1>4, IdleFacts DEF Procs, Modes
<1>6. proc' = [proc EXCEPT ![c] = k] /\ Quietly
  BY <1>2, <1>4 DEF OverLock, Step, Quietly
<1> QED
  BY <1>2, <1>3, <1>5, <1>6 DEF OverLockEffect

LEMMA UninstallStep ==
  ASSUME ClientInv, NEW c \in Clients, NEW n \in Names, Uninstall(c, n)
  PROVE  \E k \in Procs :
           /\ proc' = [proc EXCEPT ![c] = k] /\ Quietly
           /\ k.pc = "harness" /\ k.mode = "uninstall" /\ k.changed = FALSE /\ k.stack = << >>
           /\ k.name = n /\ k.entry = None /\ k.st = state
           /\ k.left = {h \in Harnesses : <<n, h>> \in state}
<1>1. PICK left \in SUBSET Harnesses : left = {h \in Harnesses : <<n, h>> \in state}
  OBVIOUS
<1>2. PICK k : k = [Idle EXCEPT !.pc = "harness", !.mode = "uninstall", !.name = n,
                                !.st = state, !.left = left]
  OBVIOUS
<1>3. state \in SUBSET (Names \X Harnesses)
  BY DEF ClientInv, FilesOK
<1>4. /\ k \in Procs /\ k.pc = "harness" /\ k.mode = "uninstall" /\ k.changed = FALSE
      /\ k.stack = << >> /\ k.name = n /\ k.entry = None /\ k.st = state /\ k.left = left
  BY <1>2, <1>3, IdleFacts DEF Procs, Modes
<1>5. proc' = [proc EXCEPT ![c] = k] /\ Quietly
  BY <1>1, <1>2 DEF Uninstall, Step, Quietly
<1> QED
  BY <1>1, <1>4, <1>5

NextEntryEffect(c, j) ==
  \E p \in j.todo, k \in Procs :
    /\ proc' = [proc EXCEPT ![c] = k]
    /\ k.pc = "resolve" /\ k.mode = j.mode /\ k.changed = j.changed
    /\ k.targets = j.targets /\ k.todo = j.todo \ {p} /\ k.lk = j.lk
    /\ Asked(j, p) \in SUBSET Versions
    /\ k.stack = <<Frame([pkg |-> p, spec |-> Asked(j, p)], FALSE)>>

LEMMA NextEntryStep ==
  ASSUME ClientInv, NEW c \in Clients, NEW j, j = proc[c], NextEntry(c)
  PROVE  j.pc = "next" /\ Quietly /\ (Fail(c) \/ NextEntryEffect(c, j))
<1>1. j \in Procs /\ j.pc = "next" /\ Quietly
  BY CommandFacts DEF NextEntry, At, Quietly
<1>2. CASE ~Fail(c)
  <2>1. PICK p \in j.todo :
          Step(c, [j EXCEPT !.todo = @ \ {p}, !.pc = "resolve",
                     !.stack = <<Frame([pkg |-> p, spec |-> Asked(j, p)], FALSE)>>])
    BY <1>2 DEF NextEntry
  <2>2. p \in Packages /\ p \in Pinned(j.lk)
    BY <1>1, CommandFacts DEF CommandOK, Shape, Procs, Pinned
  <2>3. Asked(j, p) \in SUBSET Versions
    <3>1. j.lk[p].version \in Versions
      BY <1>1, <2>2 DEF Procs, Locks, Pins, Pinned
    <3> QED
      BY <3>1 DEF Asked
  <2>4. PICK q : q = [pkg |-> p, spec |-> Asked(j, p)]
    OBVIOUS
  <2>5. q \in Requests
    BY <2>2, <2>3, <2>4 DEF Requests
  <2>6. <<Frame(q, FALSE)>> \in Seq(Frames)
    BY <2>5, FrameFacts
  <2>7. PICK k : k = [j EXCEPT !.todo = @ \ {p}, !.pc = "resolve",
                               !.stack = <<Frame(q, FALSE)>>]
    OBVIOUS
  <2>8. /\ k \in Procs /\ k.pc = "resolve" /\ k.mode = j.mode /\ k.changed = j.changed
        /\ k.targets = j.targets /\ k.todo = j.todo \ {p} /\ k.lk = j.lk
        /\ k.stack = <<Frame(q, FALSE)>>
    BY ZenonT(40), <1>1, <2>6, <2>7 DEF Procs
  <2>9. proc' = [proc EXCEPT ![c] = k]
    BY <2>1, <2>4, <2>7 DEF Step
  <2> QED
    BY <1>1, <2>3, <2>4, <2>8, <2>9 DEF NextEntryEffect
<1> QED
  BY <1>1, <1>2

LEMMA LoopDoneStep ==
  ASSUME ClientInv, NEW c \in Clients, NEW j, j = proc[c], LoopDone(c)
  PROVE  /\ j.pc = "next" /\ Quietly
         /\ \/ Fail(c)
            \/ \E k \in Procs :
                 /\ proc' = [proc EXCEPT ![c] = k] /\ j.changed
                 /\ k.pc = "lockCreate" /\ k.stack = j.stack
                 /\ SameLoop(k, j) /\ SameEntry(k, j) /\ SameVisit(k, j)
<1>1. j \in Procs /\ j.pc = "next" /\ Quietly
  BY CommandFacts DEF LoopDone, At, Quietly
<1>2. CASE ~j.changed
  BY <1>1, <1>2 DEF LoopDone, Fail
<1>3. CASE j.changed
  <2>1. PICK k : k = [j EXCEPT !.pc = "lockCreate"]
    OBVIOUS
  <2>2. proc' = [proc EXCEPT ![c] = k]
    BY <1>3, <2>1 DEF LoopDone, Step
  <2>3. /\ k \in Procs /\ k.pc = "lockCreate" /\ k.stack = j.stack
        /\ SameLoop(k, j) /\ SameEntry(k, j) /\ SameVisit(k, j)
    BY <1>1, <2>1 DEF Procs, SameLoop, SameEntry, SameVisit
  <2> QED
    BY <1>1, <1>3, <2>2, <2>3
<1> QED
  BY <1>2, <1>3


(* The innermost install is over.                                           *)
LEMMA PoppedFacts ==
  ASSUME NEW j \in Procs, Nested(j), NEW k, k = Popped(j)
  PROVE  /\ k \in Procs
         /\ Tail(j.stack) # << >> =>
              k.pc = "more" /\ k.stack = Tail(j.stack) /\ SameLoop(k, j)
         /\ Tail(j.stack) = << >> /\ j.mode = "install" => k = Idle
         /\ Tail(j.stack) = << >> /\ j.mode # "install" =>
              k.pc = "next" /\ k.stack = << >> /\ SameLoop(k, j)
<1>1. j.stack \in Seq(Frames) /\ j.stack # << >>
  BY DEF Procs, Nested
<1>2. PICK rest \in Seq(Frames) : rest = Tail(j.stack)
  BY <1>1, TopFacts
<1>3. CASE rest # << >>
  <2>1. k = [j EXCEPT !.stack = rest, !.pc = "more"]
    BY <1>2, <1>3 DEF Popped
  <2>2. k \in Procs /\ k.pc = "more" /\ k.stack = rest /\ SameLoop(k, j)
    BY ZenonT(40), <2>1 DEF Procs, SameLoop
  <2> QED
    BY <1>2, <1>3, <2>2
<1>4. CASE rest = << >> /\ j.mode = "install"
  BY <1>2, <1>4, IdleFacts DEF Popped
<1>5. CASE rest = << >> /\ j.mode # "install"
  <2>0. << >> \in Seq(Frames)
    OBVIOUS
  <2>1. PICK none \in Seq(Frames) : none = << >>
    BY <2>0
  <2>2. k = [j EXCEPT !.stack = none, !.pc = "next"]
    BY <1>2, <1>5, <2>1 DEF Popped
  <2>3. k \in Procs /\ k.pc = "next" /\ k.stack = none /\ SameLoop(k, j)
    BY ZenonT(40), <2>2 DEF Procs, SameLoop
  <2> QED
    BY <1>2, <1>5, <2>1, <2>3
<1> QED
  BY <1>3, <1>4, <1>5

LEMMA TopFrame ==
  ASSUME NEW j \in Procs, Nested(j)
  PROVE  /\ j.stack \in Seq(Frames) /\ j.stack # << >> /\ Head(j.stack) \in Frames
         /\ Head(j.stack).pkg \in Packages /\ Head(j.stack).spec \in SUBSET Versions
<1>1. j.stack \in Seq(Frames) /\ j.stack # << >>
  BY DEF Procs, Nested
<1>2. PICK f : f = Head(j.stack)
  OBVIOUS
<1>3. f \in Frames
  BY <1>1, <1>2, TopFacts
<1>4. f.pkg \in Packages /\ f.spec \in SUBSET Versions
  BY <1>3 DEF Frames
<1> QED
  BY <1>1, <1>2, <1>3, <1>4

(* The innermost install changes, and the others do not.                    *)
TopReplaced(k, j, f) ==
  /\ k \in Procs /\ k.pc = j.pc /\ Nested(k) /\ Head(k.stack) = f
  /\ Len(k.stack) = Len(j.stack) /\ Tail(k.stack) = Tail(j.stack)
  /\ \A i \in 2 .. Len(k.stack) : k.stack[i] = j.stack[i]
  /\ SameLoop(k, j)

LEMMA WithTopFacts ==
  ASSUME NEW j \in Procs, Nested(j), NEW f \in Frames, NEW k, k = WithTop(j, f)
  PROVE  TopReplaced(k, j, f)
<1>1. j.stack \in Seq(Frames) /\ j.stack # << >>
  BY TopFrame
<1>2. PICK t : t = <<f>> \o Tail(j.stack)
  OBVIOUS
<1>3. /\ t \in Seq(Frames) /\ t # << >> /\ Len(t) = Len(j.stack) /\ Head(t) = f
      /\ \A i \in 2 .. Len(t) : t[i] = j.stack[i]
  BY <1>1, <1>2, ReplaceTop
<1>4. Tail(t) = Tail(j.stack)
  BY <1>1, <1>2, TopFacts
<1>5. k = [j EXCEPT !.stack = t]
  BY <1>2 DEF WithTop
<1>6. k \in Procs /\ k.pc = j.pc /\ k.stack = t /\ SameLoop(k, j)
  <2>1. j \in Procs /\ t \in Seq(Frames)
    BY <1>3
  <2>2. k \in Procs
    BY ONLY SMTT(30), <1>5, <2>1 DEF Procs
  <2>3. k.pc = j.pc /\ k.stack = t /\ SameLoop(k, j)
    BY ONLY SMTT(30), <1>5, <2>1 DEF Procs, SameLoop
  <2> QED
    BY ONLY <2>2, <2>3
<1>7. /\ k.stack # << >> /\ Len(k.stack) = Len(j.stack) /\ Head(k.stack) = f
      /\ \A i \in 2 .. Len(k.stack) : k.stack[i] = j.stack[i]
      /\ Tail(k.stack) = Tail(j.stack)
  BY ONLY <1>3, <1>4, <1>6
<1> QED
  BY ONLY <1>6, <1>7 DEF Nested, TopReplaced

ResolveEffect(c, j, f) ==
  \/ Fail(c)
  \/ j.mode = "upgrade" /\ proc' = [proc EXCEPT ![c] = Popped(j)]
  \/ \E k \in Procs, g \in Frames :
       /\ proc' = [proc EXCEPT ![c] = k]
       /\ g.pkg = f.pkg /\ g.spec = f.spec /\ g.more = f.more
       /\ g.version \in f.spec /\ g.version \in Versions
       /\ g.sha = published[f.pkg][g.version] /\ g.sha \in Contents
       /\ j.mode = "upgrade" => ~(g.version <= j.lk[f.pkg].version)
       /\ k.pc = "tool" /\ Nested(k) /\ Head(k.stack) = g
       /\ Tail(k.stack) = Tail(j.stack) /\ SameLower(k, j) /\ SameLoop(k, j)

LEMMA ResolveStep ==
  ASSUME ClientInv, NEW c \in Clients, NEW j, j = proc[c], NEW f, f = Head(j.stack),
         Resolve(c)
  PROVE  j.pc = "resolve" /\ Nested(j) /\ Quietly /\ ResolveEffect(c, j, f)
<1>1. j \in Procs /\ j.pc = "resolve" /\ Nested(j) /\ Quietly
  BY CommandFacts DEF Resolve, At, Quietly, CommandOK, Shape
<1>2. f \in Frames /\ f.pkg \in Packages /\ f.spec \in SUBSET Versions
  BY <1>1, TopFrame
<1>3. PICK found \in SUBSET Versions : found = {w \in f.spec : published[f.pkg][w] # None}
  BY <1>2
<1>4. Top(c) = f
  BY DEF Top
<1>5. CASE found = {}
  BY <1>1, <1>3, <1>4, <1>5 DEF Resolve, ResolveEffect
<1>6. CASE found # {}
  <2>1. PICK v \in found : v = Greatest(found)
    BY <1>6, GreatestIn
  <2>2. v \in Versions /\ v \in f.spec /\ published[f.pkg][v] \in Contents
    BY <1>2, <1>3, <2>1 DEF ClientInv, FilesOK
  <2>3. CASE j.mode = "upgrade" /\ v <= j.lk[f.pkg].version
    BY <1>1, <1>3, <1>4, <1>6, <2>1, <2>3 DEF Resolve, Step, ResolveEffect
  <2>4. CASE ~(j.mode = "upgrade" /\ v <= j.lk[f.pkg].version)
    <3>1. PICK g : g = [f EXCEPT !.version = v, !.sha = published[f.pkg][v]]
      OBVIOUS
    <3>2. /\ g \in Frames /\ g.pkg = f.pkg /\ g.spec = f.spec /\ g.more = f.more
          /\ g.version = v /\ g.sha = published[f.pkg][v]
      BY <1>2, <2>2, <3>1 DEF Frames
    <3>3. PICK q : q = [j EXCEPT !.pc = "tool"]
      OBVIOUS
    <3>4. /\ q \in Procs /\ q.pc = "tool" /\ q.stack = j.stack /\ SameLoop(q, j)
      BY <1>1, <3>3 DEF Procs, SameLoop
    <3>5. Nested(q)
      BY <1>1, <3>4 DEF Nested
    <3>6. PICK k : k = WithTop(q, g)
      OBVIOUS
    <3>10. /\ k \in Procs /\ k.pc = q.pc /\ Nested(k) /\ Head(k.stack) = g
           /\ Len(k.stack) = Len(q.stack) /\ Tail(k.stack) = Tail(q.stack)
           /\ \A i \in 2 .. Len(k.stack) : k.stack[i] = q.stack[i]
           /\ SameLoop(k, q)
      <4>1. q \in Procs /\ Nested(q) /\ g \in Frames
        BY <3>2, <3>4, <3>5
      <4>2. TopReplaced(k, q, g)
        BY ONLY <3>6, <4>1, WithTopFacts
      <4> QED
        BY ONLY <4>2 DEF TopReplaced
    <3>7. /\ k \in Procs /\ k.pc = "tool" /\ Nested(k) /\ Head(k.stack) = g
          /\ Len(k.stack) = Len(j.stack) /\ Tail(k.stack) = Tail(j.stack)
          /\ \A i \in 2 .. Len(k.stack) : k.stack[i] = j.stack[i]
          /\ SameLoop(k, q)
      BY ONLY <3>4, <3>10
    <3>8. proc' = [proc EXCEPT ![c] = k]
      BY ZenonT(40), <1>3, <1>4, <1>6, <2>1, <2>4, <3>1, <3>3, <3>6 DEF Resolve, Step
    <3>9. SameLoop(k, j)
      BY <3>4, <3>7 DEF SameLoop
    <3>11. SameLower(k, j) /\ Tail(k.stack) = Tail(j.stack)
      BY ONLY <3>7 DEF SameLower
    <3> QED
      BY <1>1, <2>2, <2>4, <3>2, <3>7, <3>8, <3>9, <3>11 DEF ResolveEffect
  <2> QED
    BY <2>3, <2>4
<1> QED
  BY <1>1, <1>5, <1>6


FetchToolEffect(c, j, f) ==
  \/ Fail(c)
  \/ \E k \in Procs, g \in Frames :
       /\ proc' = [proc EXCEPT ![c] = k]
       /\ j.mode = "install" /\ Kind[f.pkg] = "bundle"
       /\ g.pkg = f.pkg /\ g.spec = f.spec /\ g.version = f.version /\ g.sha = f.sha
       /\ g.more = DOMAIN Includes[f.pkg][f.version]
       /\ k.pc = "more" /\ Nested(k) /\ Head(k.stack) = g
       /\ Tail(k.stack) = Tail(j.stack) /\ SameLower(k, j) /\ SameLoop(k, j)
  \/ \E k \in Procs :
       /\ proc' = [proc EXCEPT ![c] = k]
       /\ ~(j.mode = "install" /\ Kind[f.pkg] = "bundle")
       /\ k.pc = AfterTool(j) /\ k.stack = j.stack /\ SameLoop(k, j)
       /\ k.name = NameOf[f.pkg]
       /\ k.entry = [pkg |-> f.pkg, version |-> f.version,
                     content |-> published[f.pkg][f.version]]

LEMMA FetchToolStep ==
  ASSUME ClientInv, NEW c \in Clients, NEW j, j = proc[c], NEW f, f = Head(j.stack),
         FetchTool(c)
  PROVE  j.pc = "tool" /\ Nested(j) /\ Quietly /\ FetchToolEffect(c, j, f)
<1>1. j \in Procs /\ j.pc = "tool" /\ Nested(j) /\ Quietly /\ Resolved(f)
  BY CommandFacts DEF FetchTool, At, Quietly, CommandOK, Shape, Knows
<1>2. f \in Frames /\ f.pkg \in Packages /\ f.version \in Versions
  BY <1>1, TopFrame DEF Resolved
<1>3. Top(c) = f
  BY DEF Top
<1>4. published[f.pkg][f.version] \in Contents
  BY <1>1, <1>2 DEF Resolved, Has, ClientInv, FilesOK
<1>5. CASE j.mode = "install" /\ Kind[f.pkg] = "bundle"
  <2>1. DOMAIN Includes[f.pkg][f.version] \in SUBSET Nat
    <3>1. PICK s \in Seq(Requests) : s = Includes[f.pkg][f.version]
      BY <1>2, MembersAssumption
    <3>2. DOMAIN s = 1 .. Len(s) /\ Len(s) \in Nat
      BY ONLY s \in Seq(Requests)
    <3>3. 1 .. Len(s) \subseteq Nat
      BY <3>2
    <3> QED
      BY <3>1, <3>2, <3>3
  <2>2. PICK g : g = [f EXCEPT !.more = DOMAIN Includes[f.pkg][f.version]]
    OBVIOUS
  <2>3. /\ g \in Frames /\ g.pkg = f.pkg /\ g.spec = f.spec /\ g.version = f.version
        /\ g.sha = f.sha /\ g.more = DOMAIN Includes[f.pkg][f.version]
    BY <1>2, <2>1, <2>2 DEF Frames
  <2>4. PICK q : q = [j EXCEPT !.pc = "more"]
    OBVIOUS
  <2>5. q \in Procs /\ q.pc = "more" /\ q.stack = j.stack /\ SameLoop(q, j)
    BY <1>1, <2>4 DEF Procs, SameLoop
  <2>6. PICK k : k = WithTop(q, g)
    OBVIOUS
  <2>7. /\ k \in Procs /\ k.pc = q.pc /\ Nested(k) /\ Head(k.stack) = g
        /\ Len(k.stack) = Len(q.stack) /\ Tail(k.stack) = Tail(q.stack)
        /\ \A i \in 2 .. Len(k.stack) : k.stack[i] = q.stack[i]
        /\ SameLoop(k, q)
    <3>1. q \in Procs /\ Nested(q) /\ g \in Frames
      BY <1>1, <2>3, <2>5 DEF Nested
    <3>2. TopReplaced(k, q, g)
      BY ONLY <2>6, <3>1, WithTopFacts
    <3> QED
      BY ONLY <3>2 DEF TopReplaced
  <2>8. /\ k \in Procs /\ k.pc = "more" /\ Nested(k) /\ Head(k.stack) = g
        /\ Len(k.stack) = Len(j.stack) /\ Tail(k.stack) = Tail(j.stack)
        /\ \A i \in 2 .. Len(k.stack) : k.stack[i] = j.stack[i]
        /\ SameLoop(k, j)
    <3>1. SameLoop(k, j)
      BY ONLY <2>5, <2>7 DEF SameLoop
    <3> QED
      BY ONLY <2>5, <2>7, <3>1
  <2>10. SameLower(k, j) /\ Tail(k.stack) = Tail(j.stack)
    BY ONLY <2>8 DEF SameLower
  <2>9. proc' = [proc EXCEPT ![c] = k] \/ Fail(c)
    BY <1>3, <1>5, <2>2, <2>4, <2>6 DEF FetchTool, Step
  <2> QED
    BY <1>1, <1>5, <2>3, <2>8, <2>9, <2>10 DEF FetchToolEffect
<1>6. CASE ~(j.mode = "install" /\ Kind[f.pkg] = "bundle")
  <2>1. PICK e \in Entries : e = [pkg |-> f.pkg, version |-> f.version,
                                  content |-> published[f.pkg][f.version]]
    BY <1>2, <1>4 DEF Entries
  <2>2. NameOf[f.pkg] \in Names
    BY <1>2, NamesAssumption
  <2>3. PICK pc \in {"binary", "apply"} : pc = AfterTool(j)
    BY DEF AfterTool
  <2>4. PICK k : k = [j EXCEPT !.pc = pc, !.entry = e, !.name = NameOf[f.pkg]]
    OBVIOUS
  <2>5. /\ k \in Procs /\ k.pc = pc /\ k.stack = j.stack /\ SameLoop(k, j)
        /\ k.name = NameOf[f.pkg] /\ k.entry = e
    BY ZenonT(40), <1>1, <2>2, <2>4 DEF Procs, SameLoop
  <2>6. proc' = [proc EXCEPT ![c] = k]
    BY <1>3, <1>6, <2>1, <2>3, <2>4 DEF FetchTool, Step
  <2> QED
    BY <1>1, <1>6, <2>1, <2>3, <2>5, <2>6 DEF FetchToolEffect
<1> QED
  BY <1>5, <1>6

(* The steps of toolfetch.                                                  *)
BinaryEffect(c, j) ==
  \E k \in Procs :
    /\ proc' = [proc EXCEPT ![c] = k] /\ k.stack = j.stack
    /\ SameLoop(k, j) /\ SameEntry(k, j)
    /\ \/ k.pc = "binaryWrite" /\ bins' = [bins EXCEPT ![BinOf[j.entry.pkg]] = Torn]
       \/ k.pc = "apply" /\ bins' = [bins EXCEPT ![BinOf[j.entry.pkg]] = j.entry]

LEMMA BinaryStep ==
  ASSUME ClientInv, NEW c \in Clients, NEW j, j = proc[c], CreateBinary(c) \/ WriteBinary(c)
  PROVE  /\ UNCHANGED <<published, config, state, lock, applied, faults>>
         /\ Applying(j) /\ Nested(j) /\ j.name \in Names /\ j.entry \in Entries
         /\ j.pc \in {"binary", "binaryWrite"} /\ BinaryEffect(c, j)
<1>1. /\ j \in Procs /\ j.pc \in {"binary", "binaryWrite"}
      /\ UNCHANGED <<published, config, state, lock, applied, faults>>
  BY CommandFacts DEF CreateBinary, WriteBinary, At
<1>2. Applying(j) /\ Nested(j) /\ Carries(j, Head(j.stack))
  BY <1>1, CommandFacts DEF CommandOK, Shape, Applying
<1>3. j.name \in Names /\ j.entry \in Entries
  BY <1>1, <1>2, TopFrame, NamesAssumption DEF Carries
<1>4. CASE CreateBinary(c)
  <2>1. PICK k : k = [j EXCEPT !.pc = "binaryWrite"]
    OBVIOUS
  <2>2. /\ k \in Procs /\ k.pc = "binaryWrite" /\ k.stack = j.stack
        /\ SameLoop(k, j) /\ SameEntry(k, j)
    BY <1>1, <2>1 DEF Procs, SameLoop, SameEntry
  <2>3. proc' = [proc EXCEPT ![c] = k] /\ bins' = [bins EXCEPT ![BinOf[j.entry.pkg]] = Torn]
    BY <1>4, <2>1 DEF CreateBinary, Step
  <2> QED
    BY <1>1, <1>2, <1>3, <2>2, <2>3 DEF BinaryEffect
<1>5. CASE WriteBinary(c)
  <2>1. PICK k : k = [j EXCEPT !.pc = "apply"]
    OBVIOUS
  <2>2. k \in Procs /\ k.pc = "apply" /\ k.stack = j.stack /\ SameLoop(k, j) /\ SameEntry(k, j)
    BY <1>1, <2>1 DEF Procs, SameLoop, SameEntry
  <2>3. proc' = [proc EXCEPT ![c] = k] /\ bins' = [bins EXCEPT ![BinOf[j.entry.pkg]] = j.entry]
    BY <1>5, <2>1 DEF WriteBinary, Step
  <2> QED
    BY <1>1, <1>2, <1>3, <2>2, <2>3 DEF BinaryEffect
<1> QED
  BY <1>4, <1>5

LEMMA LoadStateStep ==
  ASSUME ClientInv, NEW c \in Clients, NEW j, j = proc[c], LoadState(c)
  PROVE  /\ j.pc = "apply" /\ Quietly
         /\ \E k \in Procs :
              /\ proc' = [proc EXCEPT ![c] = k] /\ k.pc = "harness" /\ k.stack = j.stack
              /\ SameLoop(k, j) /\ SameEntry(k, j) /\ k.st = state /\ k.left = Harnesses
<1>1. j \in Procs /\ j.pc = "apply" /\ Quietly
  BY CommandFacts DEF LoadState, At, Quietly
<1>2. state \in SUBSET (Names \X Harnesses)
  BY DEF ClientInv, FilesOK
<1>3. PICK k : k = [j EXCEPT !.pc = "harness", !.st = state, !.left = Harnesses]
  OBVIOUS
<1>4. /\ k \in Procs /\ k.pc = "harness" /\ k.stack = j.stack
      /\ SameLoop(k, j) /\ SameEntry(k, j) /\ k.st = state /\ k.left = Harnesses
  BY ZenonT(40), <1>1, <1>2, <1>3 DEF Procs, SameLoop, SameEntry
<1>5. proc' = [proc EXCEPT ![c] = k]
  BY <1>3 DEF LoadState, Step
<1> QED
  BY <1>1, <1>4, <1>5


(* The records of a command once it has dealt with harness h.               *)
Marked(j, h) ==
  IF j.mode = "uninstall" THEN j.st \ {<<j.name, h>>} ELSE j.st \cup {<<j.name, h>>}

LEMMA RecordedFacts ==
  ASSUME NEW j \in Procs, NEW h \in Harnesses, j.name \in Names, NEW k, k = Recorded(j, h)
  PROVE  /\ k \in Procs /\ k.pc = "harness" /\ k.stack = j.stack
         /\ SameLoop(k, j) /\ SameEntry(k, j) /\ k.left = j.left \ {h}
         /\ k.st = Marked(j, h)
<1>1. j.st \in SUBSET (Names \X Harnesses) /\ <<j.name, h>> \in Names \X Harnesses
  BY DEF Procs
<1>2. PICK st : st = Marked(j, h)
  OBVIOUS
<1>3. st \in SUBSET (Names \X Harnesses)
  BY <1>1, <1>2 DEF Marked
<1>7. PICK left \in SUBSET Harnesses : left = j.left \ {h}
  BY DEF Procs
<1>4. k = [j EXCEPT !.left = left, !.pc = "harness", !.harness = None, !.cfg = None,
                    !.st = st]
  BY <1>2, <1>7 DEF Recorded, Marked
<1>8. k.pc = "harness" /\ k.stack = j.stack /\ k.left = left /\ k.st = st
  BY <1>4 DEF Procs
<1>9. k \in Procs
  BY ZenonT(40), <1>3, <1>4 DEF Procs
<1>5. k \in Procs /\ k.pc = "harness" /\ k.stack = j.stack /\ k.left = j.left \ {h} /\ k.st = st
  BY <1>7, <1>8, <1>9
<1>6. SameLoop(k, j) /\ SameEntry(k, j)
  BY <1>4 DEF Procs, SameLoop, SameEntry
<1> QED
  BY <1>2, <1>5, <1>6

(* A command that visits harnesses has a name, and an entry or none.        *)
LEMMA VisitFacts ==
  ASSUME NEW j, CommandOK(j), j.pc \in {"harness", "write"}
  PROVE  /\ j \in Procs /\ j.name \in Names
         /\ j.mode = "uninstall" => j.entry = None
         /\ j.mode # "uninstall" => Nested(j) /\ j.entry \in Entries /\ Carries(j, Head(j.stack))
<1>1. j \in Procs /\ Shape(j)
  BY DEF CommandOK
<1>2. CASE j.mode = "uninstall"
  BY <1>1, <1>2 DEF Shape
<1>3. CASE j.mode # "uninstall"
  <2>1. Nested(j) /\ Carries(j, Head(j.stack))
    BY <1>1, <1>3 DEF Shape, Applying
  <2>2. Head(j.stack).pkg \in Packages
    BY <1>1, <2>1, TopFrame
  <2>3. j.name \in Names /\ j.entry \in Entries
    BY <2>1, <2>2, NamesAssumption DEF Carries
  <2> QED
    BY <1>1, <1>3, <2>1, <2>3
<1> QED
  BY <1>2, <1>3

ReadConfigEffect(c, j) ==
  \E h \in j.left, k \in Procs :
    /\ proc' = [proc EXCEPT ![c] = k] /\ k.stack = j.stack
    /\ SameLoop(k, j) /\ SameEntry(k, j) /\ h \in Harnesses
    /\ \/ /\ Materialises(j)
          /\ k.pc = "write" /\ k.harness = h /\ k.cfg = config[h] /\ k.cfg \in ConfigOf
          /\ k.left = j.left /\ k.st = j.st
       \/ /\ ~Materialises(j)
          /\ k.pc = "harness" /\ k.left = j.left \ {h}
          /\ k.st = Marked(j, h)

LEMMA ReadConfigStep ==
  ASSUME ClientInv, NEW c \in Clients, NEW j, j = proc[c], ReadConfig(c)
  PROVE  j.pc = "harness" /\ Quietly /\ ReadConfigEffect(c, j)
<1>1. j \in Procs /\ j.pc = "harness" /\ Quietly /\ j.name \in Names
  BY CommandFacts, VisitFacts DEF ReadConfig, At, Quietly
<1>2. PICK h \in j.left :
        IF Materialises(j)
        THEN Step(c, [j EXCEPT !.pc = "write", !.harness = h, !.cfg = config[h]])
        ELSE Step(c, Recorded(j, h))
  BY DEF ReadConfig
<1>3. h \in Harnesses
  BY <1>1 DEF Procs
<1>4. CASE Materialises(j)
  <2>1. PICK cfg \in ConfigOf : cfg = config[h]
    BY <1>3 DEF ClientInv, FilesOK
  <2>2. PICK k : k = [j EXCEPT !.pc = "write", !.harness = h, !.cfg = cfg]
    OBVIOUS
  <2>3. /\ k \in Procs /\ k.pc = "write" /\ k.stack = j.stack
        /\ SameLoop(k, j) /\ SameEntry(k, j) /\ k.harness = h /\ k.cfg = cfg
        /\ k.left = j.left /\ k.st = j.st
    BY ZenonT(40), <1>1, <1>3, <2>2 DEF Procs, SameLoop, SameEntry
  <2>4. proc' = [proc EXCEPT ![c] = k]
    BY <1>2, <1>4, <2>1, <2>2 DEF Step
  <2> QED
    BY <1>1, <1>3, <1>4, <2>1, <2>3, <2>4 DEF ReadConfigEffect
<1>5. CASE ~Materialises(j)
  <2>1. PICK k : k = Recorded(j, h)
    OBVIOUS
  <2>2. /\ k \in Procs /\ k.pc = "harness" /\ k.stack = j.stack
        /\ SameLoop(k, j) /\ SameEntry(k, j) /\ k.left = j.left \ {h}
        /\ k.st = Marked(j, h)
    BY <1>1, <1>3, <2>1, RecordedFacts
  <2>3. proc' = [proc EXCEPT ![c] = k]
    BY <1>2, <1>5, <2>1 DEF Step
  <2> QED
    BY <1>1, <1>3, <1>5, <2>2, <2>3 DEF ReadConfigEffect
<1> QED
  BY <1>4, <1>5

WriteConfigEffect(c, j) ==
  \E k \in Procs :
    /\ proc' = [proc EXCEPT ![c] = k] /\ k.stack = j.stack
    /\ SameLoop(k, j) /\ SameEntry(k, j)
    /\ k.pc = "harness" /\ k.left = j.left \ {j.harness}
    /\ k.st = Marked(j, j.harness)

LEMMA WriteConfigStep ==
  ASSUME ClientInv, NEW c \in Clients, NEW j, j = proc[c], WriteConfig(c)
  PROVE  /\ j.pc = "write" /\ UNCHANGED <<published, state, lock, bins, applied, faults>>
         /\ j.harness \in j.left /\ j.harness \in Harnesses
         /\ config' = [config EXCEPT ![j.harness] = Servers(j)] /\ Servers(j) \in ConfigOf
         /\ WriteConfigEffect(c, j)
<1>1. /\ j \in Procs /\ j.pc = "write" /\ j.name \in Names /\ CommandOK(j)
      /\ UNCHANGED <<published, state, lock, bins, applied, faults>>
  BY CommandFacts, VisitFacts DEF WriteConfig, At
<1>2. j.harness \in j.left /\ j.cfg \in ConfigOf
  BY <1>1 DEF CommandOK, Shape
<1>3. j.harness \in Harnesses
  BY <1>1, <1>2 DEF Procs
<1>4. j.entry \in Entries \cup {None}
  BY <1>1 DEF Procs
<1>5. Servers(j) \in ConfigOf
  BY <1>2, <1>4 DEF Servers, ConfigOf
<1>6. PICK k : k = Recorded(j, j.harness)
  OBVIOUS
<1>7. /\ k \in Procs /\ k.pc = "harness" /\ k.stack = j.stack
      /\ SameLoop(k, j) /\ SameEntry(k, j) /\ k.left = j.left \ {j.harness}
      /\ k.st = Marked(j, j.harness)
  BY <1>1, <1>3, <1>6, RecordedFacts
<1>8. proc' = [proc EXCEPT ![c] = k] /\ config' = [config EXCEPT ![j.harness] = Servers(j)]
  BY <1>6 DEF WriteConfig, Step
<1> QED
  BY <1>1, <1>2, <1>3, <1>5, <1>7, <1>8 DEF WriteConfigEffect

LEMMA UpsertedFacts ==
  ASSUME NEW l \in Locks, NEW f \in Frames, Resolved(f), NEW m, m = Upserted(l, f)
  PROVE  /\ m \in Locks /\ m[f.pkg] = [version |-> f.version, sha |-> f.sha]
         /\ m[f.pkg] # None /\ f.pkg \in Packages
         /\ m[f.pkg].version = f.version /\ m[f.pkg].sha = f.sha
         /\ \A p \in Packages : p # f.pkg => m[p] = l[p]
         /\ Pinned(m) = Pinned(l) \cup {f.pkg}
<1>1. PICK pin \in Pins : pin = [version |-> f.version, sha |-> f.sha]
  BY DEF Resolved, Pins
<1>2. f.pkg \in Packages /\ pin # None
  BY AbsenceAssumption DEF Frames
<1>3. m = [l EXCEPT ![f.pkg] = pin]
  BY <1>1 DEF Upserted
<1>4. m \in Locks /\ m[f.pkg] = pin /\ \A p \in Packages : p # f.pkg => m[p] = l[p]
  BY <1>2, <1>3 DEF Locks
<1>5. Pinned(m) = Pinned(l) \cup {f.pkg}
  BY <1>2, <1>4 DEF Pinned
<1> QED
  BY <1>1, <1>2, <1>4, <1>5


SaveStateEffect(c, j, f) ==
  \/ j.mode = "uninstall" /\ proc' = [proc EXCEPT ![c] = Idle]
  \/ \E k \in Procs :
       /\ proc' = [proc EXCEPT ![c] = k] /\ Nested(j)
       /\ k.mode = j.mode /\ k.targets = j.targets /\ k.todo = j.todo
       /\ \/ /\ j.mode = "install" /\ k.pc = "companions" /\ k.stack = j.stack
             /\ k.lk = j.lk /\ k.changed = j.changed
          \/ /\ j.mode = "frozen" /\ k.pc = "next" /\ k.stack = << >>
             /\ k.lk = j.lk /\ k.changed = j.changed
          \/ /\ j.mode = "upgrade" /\ k.pc = "next" /\ k.stack = << >>
             /\ k.lk = Upserted(j.lk, f) /\ k.changed

LEMMA SaveStateStep ==
  ASSUME ClientInv, NEW c \in Clients, NEW j, j = proc[c], NEW f, f = Head(j.stack),
         SaveState(c)
  PROVE  /\ j.pc = "harness" /\ j.left = {} /\ state' = j.st
         /\ UNCHANGED <<published, config, lock, bins, faults>>
         /\ applied' = IF j.entry = None THEN applied
                       ELSE applied \cup {<<j.entry.pkg, j.entry.version, j.entry.content>>}
         /\ SaveStateEffect(c, j, f)
<1>1. /\ j \in Procs /\ CommandOK(j) /\ j.pc = "harness" /\ j.left = {}
      /\ UNCHANGED <<published, config, lock, bins, faults>>
  BY CommandFacts DEF SaveState, At
<1>2. /\ state' = j.st
      /\ applied' = IF j.entry = None THEN applied
                    ELSE applied \cup {<<j.entry.pkg, j.entry.version, j.entry.content>>}
  BY DEF SaveState
<1>3. j.mode \in Modes /\ (j.mode # "uninstall" => Nested(j))
  BY <1>1 DEF CommandOK, Shape, Procs
<1>4. PICK q : q = [j EXCEPT !.name = None, !.entry = None, !.st = {}]
  OBVIOUS
<1>5. q \in Procs /\ q.pc = "harness" /\ q.stack = j.stack /\ SameLoop(q, j)
  BY ZenonT(40), <1>1, <1>4 DEF Procs, SameLoop
<1>6. /\ q.mode = "uninstall" => Step(c, Idle)
      /\ q.mode = "install" => Step(c, [q EXCEPT !.pc = "companions"])
      /\ q.mode = "frozen" => Step(c, Popped(q))
      /\ q.mode = "upgrade" =>
           Step(c, Popped([q EXCEPT !.lk = Upserted(@, f), !.changed = TRUE]))
  BY <1>4 DEF SaveState, Top
<1>7. q.mode = j.mode
  BY <1>5 DEF SameLoop
<1>8. CASE j.mode = "uninstall"
  <2>1. proc' = [proc EXCEPT ![c] = Idle]
    BY <1>6, <1>7, <1>8 DEF Step
  <2> QED
    BY <1>1, <1>2, <1>8, <2>1 DEF SaveStateEffect
<1>9. CASE j.mode = "install"
  <2>1. PICK k : k = [q EXCEPT !.pc = "companions"]
    OBVIOUS
  <2>2. k \in Procs /\ k.pc = "companions" /\ k.stack = q.stack /\ SameLoop(k, q)
    BY <1>5, <2>1 DEF Procs, SameLoop
  <2>3. proc' = [proc EXCEPT ![c] = k]
    BY <1>6, <1>7, <1>9, <2>1 DEF Step
  <2>4. /\ k.mode = j.mode /\ k.targets = j.targets /\ k.todo = j.todo /\ k.lk = j.lk
        /\ k.changed = j.changed /\ k.stack = j.stack
    BY <1>5, <2>2 DEF SameLoop
  <2> QED
    BY <1>1, <1>2, <1>3, <1>9, <2>2, <2>3, <2>4 DEF SaveStateEffect
<1>10. j.mode \in {"frozen", "upgrade"} => Tail(j.stack) = << >> /\ Nested(q)
  BY <1>1, <1>3, <1>5 DEF CommandOK, Shape, Nested
<1>11. CASE j.mode = "frozen"
  <2>1. PICK k : k = Popped(q)
    OBVIOUS
  <2>2. Tail(q.stack) = << >> /\ q.mode # "install" /\ Nested(q)
    BY <1>5, <1>7, <1>10, <1>11
  <2>3. k \in Procs /\ k.pc = "next" /\ k.stack = << >> /\ SameLoop(k, q)
    BY ONLY <1>5, <2>1, <2>2, PoppedFacts
  <2>4. /\ k.mode = j.mode /\ k.targets = j.targets /\ k.todo = j.todo /\ k.lk = j.lk
        /\ k.changed = j.changed
    BY <1>5, <2>3 DEF SameLoop
  <2>5. proc' = [proc EXCEPT ![c] = k]
    BY <1>6, <1>7, <1>11, <2>1 DEF Step
  <2> QED
    BY <1>1, <1>2, <1>3, <1>11, <2>3, <2>4, <2>5 DEF SaveStateEffect
<1>12. CASE j.mode = "upgrade"
  <2>1. Resolved(f) /\ f \in Frames /\ j.lk \in Locks
    BY <1>1, <1>3, <1>12, TopFrame DEF CommandOK, Knows, Procs
  <2>2. PICK m \in Locks : m = Upserted(j.lk, f)
    BY <2>1, UpsertedFacts
  <2>3. PICK u : u = [q EXCEPT !.lk = m, !.changed = TRUE]
    OBVIOUS
  <2>4. /\ u \in Procs /\ u.stack = q.stack /\ u.mode = q.mode /\ u.targets = q.targets
        /\ u.todo = q.todo /\ u.lk = m /\ u.changed = TRUE
    BY <1>5, <2>3 DEF Procs
  <2>5. PICK k : k = Popped(u)
    OBVIOUS
  <2>6. Tail(u.stack) = << >> /\ u.mode # "install" /\ Nested(u)
    BY <1>5, <1>7, <1>10, <1>12, <2>4 DEF Nested
  <2>7. k \in Procs /\ k.pc = "next" /\ k.stack = << >> /\ SameLoop(k, u)
    BY ONLY <2>4, <2>5, <2>6, PoppedFacts
  <2>8. /\ k.mode = j.mode /\ k.targets = j.targets /\ k.todo = j.todo /\ k.lk = m
        /\ k.changed = TRUE
    BY <1>5, <2>4, <2>7 DEF SameLoop
  <2>9. q.lk = j.lk
    BY <1>5 DEF SameLoop
  <2>10. proc' = [proc EXCEPT ![c] = k]
    BY <1>6, <1>7, <1>12, <2>2, <2>3, <2>5, <2>9 DEF Step
  <2> QED
    BY <1>1, <1>2, <1>3, <1>12, <2>2, <2>7, <2>8, <2>10 DEF SaveStateEffect
<1> QED
  BY <1>3, <1>8, <1>9, <1>11, <1>12 DEF Modes

LoadCompanionsEffect(c, j, f) ==
  \E k \in Procs, g \in Frames :
    /\ proc' = [proc EXCEPT ![c] = k]
    /\ g.pkg = f.pkg /\ g.spec = f.spec /\ g.version = f.version /\ g.sha = f.sha
    /\ g.more \subseteq DOMAIN Companions[f.pkg][f.version]
    /\ k.pc = "more" /\ Nested(k) /\ Head(k.stack) = g
    /\ Tail(k.stack) = Tail(j.stack) /\ SameLower(k, j) /\ SameLoop(k, j)

LEMMA LoadCompanionsStep ==
  ASSUME ClientInv, NEW c \in Clients, NEW j, j = proc[c], NEW f, f = Head(j.stack),
         LoadCompanions(c)
  PROVE  j.pc = "companions" /\ Quietly /\ LoadCompanionsEffect(c, j, f)
<1>1. j \in Procs /\ j.pc = "companions" /\ Nested(j) /\ Quietly /\ Resolved(f)
  BY CommandFacts DEF LoadCompanions, At, Quietly, CommandOK, Shape, Knows
<1>2. f \in Frames /\ f.pkg \in Packages /\ f.version \in Versions
  BY <1>1, TopFrame DEF Resolved
<1>3. PICK more :
        /\ more \subseteq DOMAIN Companions[f.pkg][f.version]
        /\ Step(c, WithTop([j EXCEPT !.pc = "more"], [f EXCEPT !.more = more]))
  BY DEF LoadCompanions, Top
<1>4. more \in SUBSET Nat
  <2>1. PICK s \in Seq(Requests) : s = Companions[f.pkg][f.version]
    BY <1>2, MembersAssumption
  <2>2. DOMAIN s \subseteq Nat
    BY ONLY s \in Seq(Requests)
  <2>3. more \subseteq DOMAIN s
    BY ONLY <1>3, <2>1
  <2> QED
    BY ONLY <2>2, <2>3
<1>5. PICK g : g = [f EXCEPT !.more = more]
  OBVIOUS
<1>6. /\ g \in Frames /\ g.pkg = f.pkg /\ g.spec = f.spec /\ g.version = f.version
      /\ g.sha = f.sha /\ g.more = more
  BY <1>2, <1>4, <1>5 DEF Frames
<1>7. PICK q : q = [j EXCEPT !.pc = "more"]
  OBVIOUS
<1>8. q \in Procs /\ q.pc = "more" /\ q.stack = j.stack /\ SameLoop(q, j)
  BY <1>1, <1>7 DEF Procs, SameLoop
<1>9. PICK k : k = WithTop(q, g)
  OBVIOUS
<1>10. /\ k \in Procs /\ k.pc = q.pc /\ Nested(k) /\ Head(k.stack) = g
       /\ Len(k.stack) = Len(q.stack) /\ Tail(k.stack) = Tail(q.stack)
       /\ \A i \in 2 .. Len(k.stack) : k.stack[i] = q.stack[i]
       /\ SameLoop(k, q)
  <2>1. q \in Procs /\ Nested(q) /\ g \in Frames
    BY <1>1, <1>6, <1>8 DEF Nested
  <2>2. TopReplaced(k, q, g)
    BY ONLY <1>9, <2>1, WithTopFacts
  <2> QED
    BY ONLY <2>2 DEF TopReplaced
<1>11. SameLoop(k, j)
  BY ONLY <1>8, <1>10 DEF SameLoop
<1>13. SameLower(k, j) /\ Tail(k.stack) = Tail(j.stack)
  BY ONLY <1>8, <1>10 DEF SameLower
<1>12. proc' = [proc EXCEPT ![c] = k]
  BY <1>3, <1>5, <1>7, <1>9 DEF Step
<1> QED
  BY <1>1, <1>3, <1>6, <1>8, <1>10, <1>11, <1>12, <1>13 DEF LoadCompanionsEffect


InstallNextEffect(c, j, f) ==
  \E k \in Procs, g \in Frames, n \in Frames, i \in f.more :
    /\ proc' = [proc EXCEPT ![c] = k]
    /\ g.pkg = f.pkg /\ g.spec = f.spec /\ g.version = f.version /\ g.sha = f.sha
    /\ g.more = f.more \ {i}
    /\ i \in DOMAIN Members(f.pkg, f.version) /\ Members(f.pkg, f.version)[i] \in Requests
    /\ n.pkg = Members(f.pkg, f.version)[i].pkg /\ n.spec = Members(f.pkg, f.version)[i].spec
    /\ n.more = {}
    /\ k.pc = "resolve" /\ Nested(k) /\ Head(k.stack) = n /\ k.stack[2] = g
    /\ Len(k.stack) = Len(j.stack) + 1
    /\ \A x \in 3 .. Len(k.stack) : k.stack[x] = j.stack[x - 1]
    /\ SameLoop(k, j)

LEMMA InstallNextStep ==
  ASSUME ClientInv, NEW c \in Clients, NEW j, j = proc[c], NEW f, f = Head(j.stack),
         InstallNext(c)
  PROVE  j.pc = "more" /\ Nested(j) /\ Quietly /\ InstallNextEffect(c, j, f)
<1>1. j \in Procs /\ j.pc = "more" /\ Nested(j) /\ Quietly /\ Resolved(f)
  BY CommandFacts DEF InstallNext, At, Quietly, CommandOK, Shape, Knows
<1>2. f \in Frames /\ f.pkg \in Packages /\ f.more \in SUBSET Nat /\ f.nested \in BOOLEAN
      /\ j.stack \in Seq(Frames) /\ j.stack # << >> /\ f.version \in Versions
  BY <1>1, TopFrame DEF Frames, Resolved
<1>3. f.more # {}
  BY DEF InstallNext, Top
<1>4. PICK i \in f.more : i = First(f.more)
  <2>1. PICK i \in f.more : \A x \in f.more : i <= x
    BY <1>2, <1>3, LeastNatural
  <2> QED
    BY <2>1 DEF First
<1>5. PICK q \in Requests : q = Members(f.pkg, f.version)[i]
  <2>1. Members(f.pkg, f.version) \in Seq(Requests)
    BY <1>2, MembersAssumption DEF Members
  <2>2. i \in DOMAIN Members(f.pkg, f.version)
    BY <1>1, <1>4 DEF Resolved
  <2> QED
    BY <2>1, <2>2
<1>6. PICK nested \in BOOLEAN : nested = (f.nested \/ Kind[f.pkg] # "bundle")
  OBVIOUS
<1>7. PICK n : n = Frame(q, nested)
  OBVIOUS
<1>8. n \in Frames /\ n.pkg = q.pkg /\ n.spec = q.spec /\ n.more = {}
  BY <1>7, FrameFacts
<1>9. PICK g : g = [f EXCEPT !.more = @ \ {i}]
  OBVIOUS
<1>10. /\ g \in Frames /\ g.pkg = f.pkg /\ g.spec = f.spec /\ g.version = f.version
       /\ g.sha = f.sha /\ g.more = f.more \ {i}
  BY <1>2, <1>9 DEF Frames
<1>11. PICK t : t = <<n, g>> \o Tail(j.stack)
  OBVIOUS
<1>12. /\ t \in Seq(Frames) /\ t # << >> /\ Len(t) = Len(j.stack) + 1 /\ Head(t) = n
       /\ t[2] = g /\ \A x \in 3 .. Len(t) : t[x] = j.stack[x - 1]
  BY ONLY <1>2, <1>8, <1>10, <1>11, PushTop
<1>13. PICK k : k = [j EXCEPT !.pc = "resolve", !.stack = t]
  OBVIOUS
<1>14. k \in Procs /\ k.pc = "resolve" /\ k.stack = t /\ SameLoop(k, j)
  BY ZenonT(40), <1>1, <1>12, <1>13 DEF Procs, SameLoop
<1>15. proc' = [proc EXCEPT ![c] = k]
  BY <1>4, <1>5, <1>6, <1>7, <1>9, <1>11, <1>13 DEF InstallNext, Top, Step
<1>16. /\ i \in DOMAIN Members(f.pkg, f.version) /\ Members(f.pkg, f.version)[i] \in Requests
       /\ n.pkg = Members(f.pkg, f.version)[i].pkg /\ n.spec = Members(f.pkg, f.version)[i].spec
  BY <1>1, <1>4, <1>5, <1>8 DEF Resolved
<1>17. /\ Nested(k) /\ Head(k.stack) = n /\ k.stack[2] = g
       /\ Len(k.stack) = Len(j.stack) + 1
       /\ \A x \in 3 .. Len(k.stack) : k.stack[x] = j.stack[x - 1]
  BY ONLY <1>12, <1>14 DEF Nested
<1>18. k \in Procs /\ n \in Frames /\ g \in Frames /\ i \in f.more
  BY <1>4, <1>8, <1>10, <1>14
<1>19. n.more = {} /\ k.pc = "resolve" /\ SameLoop(k, j)
  BY <1>8, <1>14
<1> QED
  BY <1>1, <1>10, <1>15, <1>16, <1>17, <1>18, <1>19 DEF InstallNextEffect

ReadLockEffect(c, j, f) ==
  \/ Fail(c)
  \/ \E k \in Procs, l \in Locks :
       /\ proc' = [proc EXCEPT ![c] = k]
       /\ l = lock \/ (~Readable(lock) /\ l = NoPins)
       /\ k.pc = "lockCreate" /\ k.stack = j.stack
       /\ k.mode = j.mode /\ k.targets = j.targets /\ k.todo = j.todo
       /\ k.changed = j.changed /\ k.lk = Upserted(l, f)

LEMMA ReadLockStep ==
  ASSUME ClientInv, NEW c \in Clients, NEW j, j = proc[c], NEW f, f = Head(j.stack),
         ReadLock(c)
  PROVE  /\ j.pc = "more" /\ Nested(j) /\ Quietly /\ f.more = {}
         /\ ReadLockEffect(c, j, f)
<1>1. j \in Procs /\ j.pc = "more" /\ Nested(j) /\ Quietly /\ Resolved(f)
  BY CommandFacts DEF ReadLock, At, Quietly, CommandOK, Shape, Knows
<1>2. f \in Frames /\ f.more = {}
  BY <1>1, TopFrame DEF ReadLock, Top
<1>3. CASE lock = Corrupt
  BY <1>1, <1>2, <1>3 DEF ReadLock, ReadLockEffect
<1>4. CASE lock # Corrupt
  <2>1. PICK l : l = IF lock = None THEN NoPins ELSE Decoded(lock)
    OBVIOUS
  <2>2. l \in Locks /\ (l = lock \/ (~Readable(lock) /\ l = NoPins))
    BY <1>4, <2>1, NoPinsFacts DEF Decoded, Readable, ClientInv, FilesOK
  <2>3. PICK m \in Locks : m = Upserted(l, f)
    BY <1>1, <1>2, <2>2, UpsertedFacts
  <2>4. PICK k : k = [j EXCEPT !.pc = "lockCreate", !.lk = m]
    OBVIOUS
  <2>5. /\ k \in Procs /\ k.pc = "lockCreate" /\ k.stack = j.stack
        /\ k.mode = j.mode /\ k.targets = j.targets /\ k.todo = j.todo
        /\ k.changed = j.changed /\ k.lk = m
    BY ZenonT(40), <1>1, <2>4 DEF Procs
  <2>6. proc' = [proc EXCEPT ![c] = k]
    BY <1>4, <2>1, <2>3, <2>4 DEF ReadLock, Top, Step
  <2> QED
    BY <1>1, <1>2, <2>2, <2>3, <2>5, <2>6 DEF ReadLockEffect
<1> QED
  BY <1>3, <1>4

LEMMA CreateLockStep ==
  ASSUME ClientInv, NEW c \in Clients, NEW j, j = proc[c], CreateLock(c)
  PROVE  /\ j.pc = "lockCreate" /\ lock' = Torn
         /\ UNCHANGED <<published, config, state, bins, applied, faults>>
         /\ \E k \in Procs :
              /\ proc' = [proc EXCEPT ![c] = k]
              /\ k.pc = "lockWrite" /\ k.stack = j.stack /\ SameLoop(k, j)
<1>1. /\ j \in Procs /\ j.pc = "lockCreate" /\ lock' = Torn
      /\ UNCHANGED <<published, config, state, bins, applied, faults>>
  BY CommandFacts DEF CreateLock, At
<1>2. PICK k : k = [j EXCEPT !.pc = "lockWrite"]
  OBVIOUS
<1>3. k \in Procs /\ k.pc = "lockWrite" /\ k.stack = j.stack /\ SameLoop(k, j)
  BY <1>1, <1>2 DEF Procs, SameLoop
<1>4. proc' = [proc EXCEPT ![c] = k]
  BY <1>2 DEF CreateLock, Step
<1> QED
  BY <1>1, <1>3, <1>4

WriteLockEffect(c, j) ==
  \/ proc' = [proc EXCEPT ![c] = Idle]
  \/ \E k \in Procs :
       /\ proc' = [proc EXCEPT ![c] = k] /\ j.mode = "install"
       /\ Nested(j) /\ Tail(j.stack) # << >>
       /\ k.pc = "more" /\ k.stack = Tail(j.stack) /\ k.mode = "install"
       /\ k.changed = j.changed

LEMMA WriteLockStep ==
  ASSUME ClientInv, NEW c \in Clients, NEW j, j = proc[c], WriteLock(c)
  PROVE  /\ j.pc = "lockWrite" /\ lock' \in {j.lk, Corrupt}
         /\ lock = Torn => lock' = j.lk
         /\ UNCHANGED <<published, config, state, bins, applied, faults>>
         /\ WriteLockEffect(c, j)
<1>1. /\ j \in Procs /\ j.pc = "lockWrite" /\ lock' \in {j.lk, Corrupt} /\ CommandOK(j)
      /\ lock = Torn => lock' = j.lk
      /\ UNCHANGED <<published, config, state, bins, applied, faults>>
  BY CommandFacts DEF WriteLock, At
<1>2. CASE ~Nested(j)
  BY <1>1, <1>2 DEF WriteLock, Step, Nested, WriteLockEffect
<1>3. CASE Nested(j)
  <2>1. j.mode = "install"
    BY <1>1, <1>3 DEF CommandOK, Shape
  <2>2. PICK q : q = [j EXCEPT !.lk = NoPins]
    OBVIOUS
  <2>3. q \in Procs /\ q.stack = j.stack /\ q.mode = j.mode /\ q.changed = j.changed
    BY SMTT(30), <1>1, <2>2, NoPinsFacts DEF Procs
  <2>4. PICK k : k = Popped(q)
    OBVIOUS
  <2>5. q \in Procs /\ Nested(q)
    BY <1>3, <2>3 DEF Nested
  <2>6. /\ k \in Procs
        /\ Tail(q.stack) # << >> =>
             k.pc = "more" /\ k.stack = Tail(q.stack) /\ SameLoop(k, q)
        /\ Tail(q.stack) = << >> /\ q.mode = "install" => k = Idle
    BY ONLY <2>4, <2>5, PoppedFacts
  <2>7. proc' = [proc EXCEPT ![c] = k]
    BY <1>3, <2>2, <2>4 DEF WriteLock, Step, Nested
  <2>8. CASE Tail(q.stack) = << >>
    BY <1>1, <2>1, <2>3, <2>6, <2>7, <2>8 DEF WriteLockEffect
  <2>9. CASE Tail(q.stack) # << >>
    <3>1. k.mode = "install" /\ k.changed = j.changed
      BY <2>1, <2>3, <2>6, <2>9 DEF SameLoop
    <3> QED
      BY <1>1, <1>3, <2>1, <2>3, <2>6, <2>7, <2>9, <3>1 DEF WriteLockEffect
  <2> QED
    BY <2>8, <2>9
<1> QED
  BY <1>2, <1>3


-----------------------------------------------------------------------------
(***************************************************************************)
(* Every step keeps the invariant.                                         *)
(***************************************************************************)
LEMMA FreshStack ==
  ASSUME NEW q \in Requests, NEW nested \in BOOLEAN, NEW s, s = <<Frame(q, nested)>>
  PROVE  /\ s \in Seq(Frames) /\ s # << >> /\ Tail(s) = << >> /\ Len(s) = 1
         /\ Head(s).pkg = q.pkg /\ Head(s).spec = q.spec /\ Head(s).more = {}
         /\ \A i \in 2 .. Len(s) : FALSE
<1>1. PICK f \in Frames : f = Frame(q, nested)
  BY FrameFacts
<1>2. f.pkg = q.pkg /\ f.spec = q.spec /\ f.more = {}
  BY <1>1, FrameFacts
<1>3. s = <<f>>
  BY <1>1
<1>4. s \in Seq(Frames) /\ s # << >> /\ Tail(s) = << >> /\ Len(s) = 1 /\ Head(s) = f
  BY <1>3
<1> QED
  BY <1>2, <1>4

LEMMA InstallKeeps ==
  ASSUME ClientInv, NEW c \in Clients, NEW q \in Requests, Install(c, q)
  PROVE  ClientInv'
<1>1. PICK k \in Procs :
        /\ proc' = [proc EXCEPT ![c] = k] /\ Quietly
        /\ k.pc = "resolve" /\ k.mode = "install" /\ k.changed = FALSE
        /\ k.stack = <<Frame(q, FALSE)>>
  BY InstallStep
<1>2. k.stack # << >> /\ Head(k.stack).more = {} /\ \A i \in 2 .. Len(k.stack) : FALSE
  BY <1>1, FreshStack
<1>3. Shape(k)
  BY <1>1, <1>2 DEF Shape, Nested, Applying
<1>4. Knows(k)
  BY <1>1, <1>2 DEF Knows, Nested
<1> QED
  BY <1>1, <1>3, <1>4, LocalStep DEF CommandOK, Quietly

LEMMA OverLockKeeps ==
  ASSUME ClientInv, NEW c \in Clients, NEW mode \in {"frozen", "upgrade"},
         NEW entries \in SUBSET Listed, OverLock(c, mode, entries)
  PROVE  ClientInv'
<1>0. /\ Quietly /\ lock \in Locks /\ entries \subseteq Pinned(lock)
      /\ OverLockEffect(c, mode, entries)
  BY OverLockStep
<1>1. PICK k \in Procs :
        /\ proc' = [proc EXCEPT ![c] = k]
        /\ k.pc = "next" /\ k.mode = mode /\ k.changed = FALSE /\ k.stack = << >>
        /\ k.lk = lock /\ k.targets = entries /\ k.todo = entries
  BY <1>0 DEF OverLockEffect
<1>2. Readable(lock)
  BY <1>0, AbsenceAssumption DEF Readable
<1>3. PinsApplied(k.lk)
  BY <1>1, <1>2 DEF ClientInv, FilesOK
<1>4. Shape(k)
  BY <1>0, <1>1 DEF Shape, Nested, Applying
<1>5. Knows(k)
  BY <1>1, <1>3 DEF Knows, Nested
<1> QED
  BY <1>0, <1>1, <1>4, <1>5, LocalStep DEF CommandOK, Quietly

LEMMA UninstallKeeps ==
  ASSUME ClientInv, NEW c \in Clients, NEW n \in Names, Uninstall(c, n)
  PROVE  ClientInv'
<1>1. PICK k \in Procs :
        /\ proc' = [proc EXCEPT ![c] = k] /\ Quietly
        /\ k.pc = "harness" /\ k.mode = "uninstall" /\ k.changed = FALSE /\ k.stack = << >>
        /\ k.name = n /\ k.entry = None /\ k.st = state
        /\ k.left = {h \in Harnesses : <<n, h>> \in state}
  BY ONLY ZenonT(40), ClientInv, c \in Clients, n \in Names, Uninstall(c, n), UninstallStep
<1>2. None # "uninstall"
  BY AbsenceAssumption DEF Modes
<1>3. Shape(k)
  BY <1>1, <1>2 DEF Shape, Nested, Applying
<1>4. Knows(k)
  BY <1>1 DEF Knows, Nested
<1> QED
  BY <1>1, <1>3, <1>4, LocalStep DEF CommandOK, Quietly

LEMMA NextEntryKeeps ==
  ASSUME ClientInv, NEW c \in Clients, NextEntry(c)
  PROVE  ClientInv'
<1>1. PICK j : j = proc[c]
  OBVIOUS
<1>2. CommandOK(j) /\ j \in Procs
  BY <1>1, CommandFacts
<1>3. CASE Fail(c)
  BY <1>1, <1>3, NextEntryStep, FailKeeps DEF Quietly
<1>4. CASE ~Fail(c)
  <2>0. j.pc = "next" /\ Quietly
    BY <1>1, NextEntryStep
  <2>1. PICK p \in j.todo, k \in Procs :
          /\ proc' = [proc EXCEPT ![c] = k]
          /\ k.pc = "resolve" /\ k.mode = j.mode /\ k.changed = j.changed
          /\ k.targets = j.targets /\ k.todo = j.todo \ {p} /\ k.lk = j.lk
          /\ Asked(j, p) \in SUBSET Versions
          /\ k.stack = <<Frame([pkg |-> p, spec |-> Asked(j, p)], FALSE)>>
    <3>1. NextEntryEffect(c, j)
      BY <1>1, <1>4, NextEntryStep
    <3> QED
      BY <3>1 DEF NextEntryEffect
  <2>2. /\ j.mode \in {"frozen", "upgrade"} /\ j.todo \subseteq j.targets
        /\ j.targets \subseteq Pinned(j.lk) /\ PinsApplied(j.lk) /\ p \in Packages
        /\ (j.changed => j.mode = "upgrade")
    BY <1>2, <2>0, <2>1 DEF CommandOK, Shape, Knows, Pinned
  <2>3. PICK q \in Requests : q = [pkg |-> p, spec |-> Asked(j, p)] /\ q.pkg = p
    BY <2>1, <2>2 DEF Requests
  <2>4. /\ k.stack # << >> /\ Head(k.stack).more = {} /\ Head(k.stack).pkg = p
        /\ Tail(k.stack) = << >> /\ \A i \in 2 .. Len(k.stack) : FALSE
    <3>1. PICK s : s = k.stack
      OBVIOUS
    <3>2. s = <<Frame(q, FALSE)>>
      BY <2>1, <2>3, <3>1
    <3>3. s # << >> /\ Head(s).more = {} /\ Head(s).pkg = q.pkg
          /\ Tail(s) = << >> /\ \A i \in 2 .. Len(s) : FALSE
      BY ONLY <3>2, q \in Requests, FreshStack
    <3> QED
      BY <2>3, <3>1, <3>3
  <2>5. Shape(k)
    BY <2>1, <2>2, <2>4 DEF Shape, Nested, Applying
  <2>6. Knows(k)
    BY <2>1, <2>2, <2>4 DEF Knows, Nested
  <2> QED
    BY <2>0, <2>1, <2>5, <2>6, LocalStep DEF CommandOK, Quietly
<1> QED
  BY <1>3, <1>4

LEMMA LoopDoneKeeps ==
  ASSUME ClientInv, NEW c \in Clients, LoopDone(c)
  PROVE  ClientInv'
<1>1. PICK j : j = proc[c]
  OBVIOUS
<1>2. CommandOK(j) /\ j \in Procs
  BY <1>1, CommandFacts
<1>3. CASE Fail(c)
  BY <1>1, <1>3, LoopDoneStep, FailKeeps DEF Quietly
<1>4. CASE ~Fail(c)
  <2>1. PICK k \in Procs :
          /\ proc' = [proc EXCEPT ![c] = k] /\ j.changed /\ j.pc = "next" /\ Quietly
          /\ k.pc = "lockCreate" /\ k.stack = j.stack
          /\ SameLoop(k, j) /\ SameEntry(k, j) /\ SameVisit(k, j)
    BY <1>1, <1>4, LoopDoneStep
  <2>2. /\ j.mode = "upgrade" /\ j.todo \subseteq j.targets
        /\ j.targets \subseteq Pinned(j.lk) /\ PinsApplied(j.lk) /\ j.stack = << >>
    BY <1>2, <2>1 DEF CommandOK, Shape, Knows, Nested
  <2>3. Shape(k)
    BY <2>1, <2>2 DEF Shape, Nested, Applying, SameLoop
  <2>4. Knows(k)
    BY <2>1, <2>2 DEF Knows, Nested, SameLoop
  <2> QED
    BY <2>1, <2>3, <2>4, LocalStep DEF CommandOK, Quietly
<1> QED
  BY <1>3, <1>4

(* What a loop over the lock has to do, and what is below the innermost     *)
(* install, is in order.                                                    *)
LoopOK(j) ==
  /\ j.mode \in {"frozen", "upgrade"} =>
       /\ j.todo \subseteq j.targets /\ j.targets \subseteq Pinned(j.lk)
       /\ Nested(j) => Tail(j.stack) = << >> /\ Head(j.stack).pkg \in j.targets
       /\ PinsApplied(j.lk)
  /\ j.changed => j.mode = "upgrade"
LowerDone(j) == \A i \in 2 .. Len(j.stack) : Done(j.stack[i])

LEMMA LoopFacts ==
  ASSUME NEW j, CommandOK(j)
  PROVE  LoopOK(j) /\ LowerDone(j) /\ j \in Procs
BY DEF CommandOK, Shape, Knows, LoopOK, LowerDone

SameTop(k, j) ==
  /\ Nested(k) => Nested(j) /\ Tail(k.stack) = Tail(j.stack)
  /\ Nested(k) => Head(k.stack).pkg = Head(j.stack).pkg

LEMMA LoopStays ==
  ASSUME NEW j, NEW k, LoopOK(j), SameLoop(k, j), SameTop(k, j)
  PROVE  LoopOK(k)
BY DEF LoopOK, SameLoop, SameTop

LEMMA SameStack ==
  ASSUME NEW j, NEW k, k.stack = j.stack
  PROVE  SameTop(k, j) /\ (LowerDone(j) => LowerDone(k)) /\ (Nested(k) <=> Nested(j))
BY DEF SameTop, LowerDone, Nested

LEMMA LowerStays ==
  ASSUME NEW j, NEW k, LowerDone(j), SameLower(k, j)
  PROVE  LowerDone(k)
BY DEF LowerDone, SameLower

(* The parts of CommandOK at the program counters of one install.           *)
LEMMA InstallOK ==
  ASSUME NEW k \in Procs, LoopOK(k), LowerDone(k), k.mode \in {"install", "frozen", "upgrade"},
         Nested(k), k.pc # "resolve" => Resolved(Head(k.stack)),
         \/ k.pc = "resolve" /\ Head(k.stack).more = {}
         \/ k.pc = "tool"
         \/ k.pc \in {"binary", "binaryWrite", "apply", "harness"} /\ Carries(k, Head(k.stack))
         \/ /\ k.pc = "write" /\ Carries(k, Head(k.stack))
            /\ k.harness \in k.left /\ k.cfg \in ConfigOf
         \/ /\ k.mode = "install" /\ Done(Head(k.stack))
            /\ \/ k.pc = "companions" /\ Kind[Head(k.stack).pkg] # "bundle"
               \/ k.pc = "more"
               \/ k.pc \in {"lockCreate", "lockWrite"} /\ PinsApplied(k.lk)
  PROVE  CommandOK(k)
<1>1. None \notin {"install", "frozen", "upgrade"}
  BY AbsenceAssumption DEF Modes
<1>2. Shape(k)
  BY <1>1 DEF Shape, Applying, LoopOK
<1>3. Knows(k)
  BY DEF Knows, LoopOK, LowerDone
<1> QED
  BY <1>2, <1>3 DEF CommandOK

(* ... and of a loop over the lock, between two entries and at its end.     *)
LEMMA LoopCommandOK ==
  ASSUME NEW k \in Procs, LoopOK(k), k.stack = << >>,
         \/ k.pc = "next" /\ k.mode \in {"frozen", "upgrade"}
         \/ k.pc \in {"lockCreate", "lockWrite"} /\ k.mode = "upgrade"
  PROVE  CommandOK(k)
<1>1. Shape(k)
  BY DEF Shape, Applying, LoopOK, Nested
<1>2. Knows(k)
  BY DEF Knows, LoopOK, Nested
<1> QED
  BY <1>1, <1>2 DEF CommandOK

LEMMA ResolveKeeps ==
  ASSUME ClientInv, NEW c \in Clients, Resolve(c)
  PROVE  ClientInv'
<1>1. PICK j : j = proc[c]
  OBVIOUS
<1>2. PICK f : f = Head(j.stack)
  OBVIOUS
<1>3. /\ CommandOK(j) /\ LoopOK(j) /\ LowerDone(j) /\ j \in Procs
      /\ j.pc = "resolve" /\ Nested(j) /\ Quietly /\ ResolveEffect(c, j, f)
  BY <1>1, <1>2, CommandFacts, LoopFacts, ResolveStep
<1>4. j.mode \in {"install", "frozen", "upgrade"} /\ f.more = {} /\ f.pkg \in Packages
  BY <1>2, <1>3, TopFrame DEF CommandOK, Shape
<1>5. CASE Fail(c)
  BY <1>3, <1>5, FailKeeps DEF Quietly
<1>6. CASE j.mode = "upgrade" /\ proc' = [proc EXCEPT ![c] = Popped(j)]
  <2>1. Tail(j.stack) = << >>
    BY <1>3, <1>6 DEF LoopOK
  <2>2. PICK k : k = Popped(j)
    OBVIOUS
  <2>3. k \in Procs /\ k.pc = "next" /\ k.stack = << >> /\ SameLoop(k, j)
    BY <1>3, <1>6, <2>1, <2>2, PoppedFacts
  <2>4. SameTop(k, j) /\ k.mode = "upgrade"
    BY <1>6, <2>3 DEF SameTop, Nested, SameLoop
  <2>5. CommandOK(k)
    BY <1>3, <2>3, <2>4, LoopStays, LoopCommandOK
  <2> QED
    BY <1>3, <1>6, <2>2, <2>5, LocalStep DEF Quietly
<1>7. CASE ~Fail(c) /\ ~(j.mode = "upgrade" /\ proc' = [proc EXCEPT ![c] = Popped(j)])
  <2>1. PICK k \in Procs, g \in Frames :
          /\ proc' = [proc EXCEPT ![c] = k]
          /\ g.pkg = f.pkg /\ g.spec = f.spec /\ g.more = f.more
          /\ g.version \in f.spec /\ g.version \in Versions
          /\ g.sha = published[f.pkg][g.version] /\ g.sha \in Contents
          /\ j.mode = "upgrade" => ~(g.version <= j.lk[f.pkg].version)
          /\ k.pc = "tool" /\ Nested(k) /\ Head(k.stack) = g
          /\ Tail(k.stack) = Tail(j.stack) /\ SameLower(k, j) /\ SameLoop(k, j)
    BY <1>3, <1>7 DEF ResolveEffect
  <2>2. SameTop(k, j) /\ k.mode = j.mode
    BY <1>2, <1>3, <2>1 DEF SameTop, SameLoop
  <2>3. Resolved(g)
    <3>1. g.sha # None
      BY <2>1, AbsenceAssumption
    <3>2. Has(g.pkg, g.version, g.sha)
      BY <2>1, <3>1 DEF Has
    <3> QED
      BY <1>4, <2>1, <3>2 DEF Resolved
  <2>4. LoopOK(k) /\ LowerDone(k)
    BY <1>3, <2>1, <2>2, LoopStays, LowerStays
  <2>5. CommandOK(k)
    BY <1>4, <2>1, <2>2, <2>3, <2>4, InstallOK
  <2> QED
    BY <1>3, <2>1, <2>5, LocalStep DEF Quietly
<1> QED
  BY <1>5, <1>6, <1>7

(* The members still to install say nothing about the install itself.       *)
LEMMA OtherMembers ==
  ASSUME NEW f, NEW g, Resolved(f), g.pkg = f.pkg, g.spec = f.spec, g.version = f.version,
         g.sha = f.sha, g.more \subseteq DOMAIN Members(f.pkg, f.version)
  PROVE  Resolved(g) /\ (Done(f) => Done(g))
BY DEF Resolved, Done

LEMMA FetchToolKeeps ==
  ASSUME ClientInv, NEW c \in Clients, FetchTool(c)
  PROVE  ClientInv'
<1>1. PICK j : j = proc[c]
  OBVIOUS
<1>2. PICK f : f = Head(j.stack)
  OBVIOUS
<1>3. /\ CommandOK(j) /\ LoopOK(j) /\ LowerDone(j) /\ j \in Procs
      /\ j.pc = "tool" /\ Nested(j) /\ Quietly /\ FetchToolEffect(c, j, f)
  BY <1>1, <1>2, CommandFacts, LoopFacts, FetchToolStep
<1>4. /\ j.mode \in {"install", "frozen", "upgrade"} /\ f.pkg \in Packages
      /\ Resolved(f)
  BY <1>2, <1>3, TopFrame DEF CommandOK, Shape, Knows
<1>5. CASE Fail(c)
  BY <1>3, <1>5, FailKeeps DEF Quietly
<1>6. CASE ~Fail(c) /\ j.mode = "install" /\ Kind[f.pkg] = "bundle"
  <2>1. PICK k \in Procs, g \in Frames :
          /\ proc' = [proc EXCEPT ![c] = k]
          /\ g.pkg = f.pkg /\ g.spec = f.spec /\ g.version = f.version /\ g.sha = f.sha
          /\ g.more = DOMAIN Includes[f.pkg][f.version]
          /\ k.pc = "more" /\ Nested(k) /\ Head(k.stack) = g
          /\ Tail(k.stack) = Tail(j.stack) /\ SameLower(k, j) /\ SameLoop(k, j)
    BY <1>3, <1>6 DEF FetchToolEffect
  <2>2. SameTop(k, j) /\ k.mode = "install"
    BY <1>2, <1>3, <1>6, <2>1 DEF SameTop, SameLoop
  <2>3. Done(g)
    <3>1. g.more \subseteq DOMAIN Members(f.pkg, f.version)
      BY <1>6, <2>1 DEF Members
    <3>2. Resolved(g)
      BY <1>4, <2>1, <3>1, OtherMembers
    <3> QED
      BY <1>6, <2>1, <3>2 DEF Done
  <2>4. LoopOK(k) /\ LowerDone(k) /\ Resolved(g)
    BY <1>3, <2>1, <2>2, <2>3, LoopStays, LowerStays DEF Done
  <2>5. CommandOK(k)
    BY <2>1, <2>2, <2>3, <2>4, InstallOK
  <2> QED
    BY <1>3, <2>1, <2>5, LocalStep DEF Quietly
<1>7. CASE ~Fail(c) /\ ~(j.mode = "install" /\ Kind[f.pkg] = "bundle")
  <2>1. PICK k \in Procs :
          /\ proc' = [proc EXCEPT ![c] = k]
          /\ k.pc = AfterTool(j) /\ k.stack = j.stack /\ SameLoop(k, j)
          /\ k.name = NameOf[f.pkg]
          /\ k.entry = [pkg |-> f.pkg, version |-> f.version,
                        content |-> published[f.pkg][f.version]]
    BY <1>3, <1>7 DEF FetchToolEffect
  <2>2. /\ SameTop(k, j) /\ k.mode = j.mode /\ Nested(k) /\ Head(k.stack) = f
        /\ LowerDone(k) /\ k.pc \in {"binary", "apply"}
    BY <1>2, <1>3, <2>1, SameStack DEF SameLoop, AfterTool
  <2>3. Carries(k, f)
    <3>1. PICK x \in Contents : x = published[f.pkg][f.version]
      BY <1>4 DEF Resolved, Has, ClientInv, FilesOK
    <3>2. ~Republished => x = f.sha
      BY <1>4, <3>1 DEF Resolved, Has
    <3>3. PICK e \in Entries :
            e = k.entry /\ e.pkg = f.pkg /\ e.version = f.version /\ e.content = x
      BY <1>4, <2>1, <3>1 DEF Entries, Resolved
    <3> QED
      BY <1>7, <2>1, <2>2, <3>2, <3>3 DEF Carries
  <2>4. LoopOK(k)
    BY <1>3, <2>1, <2>2, LoopStays
  <2>5. CommandOK(k)
    BY <1>4, <2>2, <2>3, <2>4, InstallOK
  <2> QED
    BY <1>3, <2>1, <2>5, LocalStep DEF Quietly
<1> QED
  BY <1>5, <1>6, <1>7

LEMMA BinaryKeeps ==
  ASSUME ClientInv, NEW c \in Clients, CreateBinary(c) \/ WriteBinary(c)
  PROVE  ClientInv'
<1>1. PICK j : j = proc[c]
  OBVIOUS
<1>2. PICK f : f = Head(j.stack)
  OBVIOUS
<1>3. /\ CommandOK(j) /\ LoopOK(j) /\ LowerDone(j) /\ j \in Procs
      /\ UNCHANGED <<published, config, state, lock, applied, faults>>
      /\ Applying(j) /\ Nested(j) /\ j.name \in Names /\ j.entry \in Entries
      /\ j.pc \in {"binary", "binaryWrite"} /\ BinaryEffect(c, j)
  BY <1>1, CommandFacts, LoopFacts, BinaryStep
<1>4. PICK k \in Procs :
        /\ proc' = [proc EXCEPT ![c] = k] /\ k.stack = j.stack
        /\ SameLoop(k, j) /\ SameEntry(k, j)
        /\ \/ k.pc = "binaryWrite" /\ bins' = [bins EXCEPT ![BinOf[j.entry.pkg]] = Torn]
           \/ k.pc = "apply" /\ bins' = [bins EXCEPT ![BinOf[j.entry.pkg]] = j.entry]
  BY <1>3 DEF BinaryEffect
<1>5. /\ j.mode \in {"install", "frozen", "upgrade"} /\ Resolved(f) /\ Carries(j, f)
  BY <1>2, <1>3 DEF CommandOK, Shape, Knows
<1>6. /\ SameTop(k, j) /\ LowerDone(k) /\ Nested(k) /\ k.mode = j.mode /\ Head(k.stack) = f
      /\ Carries(k, f)
  BY <1>2, <1>3, <1>4, <1>5, SameStack DEF SameLoop, SameEntry, Carries
<1>7. LoopOK(k)
  BY <1>3, <1>4, <1>6, LoopStays
<1>8. CommandOK(k)
  BY <1>4, <1>5, <1>6, <1>7, InstallOK
<1>9. Grows
  BY <1>3 DEF Grows
<1>10. FilesOK'
  <2>1. Readable(lock') => PinsApplied(lock)'
    BY <1>3, <1>9, PinsStay DEF ClientInv, FilesOK
  <2>2. bins' \in [Bins -> Entries \cup {None, Torn}]
    BY <1>3, <1>4 DEF ClientInv, FilesOK
  <2> QED
    BY <1>3, <2>1, <2>2 DEF ClientInv, FilesOK
<1>11. CommandOK(k)'
  BY <1>8, <1>9, CommandStays
<1> QED
  BY <1>4, <1>9, <1>10, <1>11, StepKeeps

LEMMA LoadStateKeeps ==
  ASSUME ClientInv, NEW c \in Clients, LoadState(c)
  PROVE  ClientInv'
<1>1. PICK j : j = proc[c]
  OBVIOUS
<1>2. PICK f : f = Head(j.stack)
  OBVIOUS
<1>3. CommandOK(j) /\ LoopOK(j) /\ LowerDone(j) /\ j \in Procs /\ j.pc = "apply" /\ Quietly
  BY <1>1, CommandFacts, LoopFacts, LoadStateStep
<1>4. PICK k \in Procs :
        /\ proc' = [proc EXCEPT ![c] = k] /\ k.pc = "harness" /\ k.stack = j.stack
        /\ SameLoop(k, j) /\ SameEntry(k, j) /\ k.st = state /\ k.left = Harnesses
  BY <1>1, LoadStateStep
<1>5. /\ j.mode \in {"install", "frozen", "upgrade"} /\ Resolved(f) /\ Carries(j, f)
      /\ Nested(j)
  BY <1>2, <1>3 DEF CommandOK, Shape, Knows, Applying
<1>6. /\ SameTop(k, j) /\ LowerDone(k) /\ Nested(k) /\ k.mode = j.mode /\ Head(k.stack) = f
      /\ Carries(k, f)
  BY <1>2, <1>3, <1>4, <1>5, SameStack DEF SameLoop, SameEntry, Carries
<1>7. LoopOK(k)
  BY <1>3, <1>4, <1>6, LoopStays
<1>8. CommandOK(k)
  BY <1>4, <1>5, <1>6, <1>7, InstallOK
<1> QED
  BY <1>3, <1>4, <1>8, LocalStep DEF Quietly

LEMMA UninstallOK ==
  ASSUME NEW k \in Procs, k.mode = "uninstall", k.stack = << >>, ~k.changed,
         k.name \in Names, k.entry = None,
         k.pc = "harness" \/ (k.pc = "write" /\ k.harness \in k.left /\ k.cfg \in ConfigOf)
  PROVE  CommandOK(k)
<1>1. None # "uninstall"
  BY AbsenceAssumption DEF Modes
<1>2. Shape(k)
  BY <1>1 DEF Shape, Applying, Nested
<1>3. Knows(k)
  BY DEF Knows, Nested
<1> QED
  BY <1>2, <1>3 DEF CommandOK

(* A command goes on visiting harnesses.                                    *)
LEMMA VisitStays ==
  ASSUME NEW j, CommandOK(j), j.pc \in {"harness", "write"}, NEW k \in Procs,
         k.stack = j.stack, SameLoop(k, j), SameEntry(k, j),
         k.pc = "harness" \/ (k.pc = "write" /\ k.harness \in k.left /\ k.cfg \in ConfigOf)
  PROVE  CommandOK(k)
<1>1. j \in Procs /\ LoopOK(j) /\ LowerDone(j) /\ j.name \in Names
  BY LoopFacts, VisitFacts
<1>2. k.mode = j.mode /\ k.name = j.name /\ k.entry = j.entry /\ k.changed = j.changed
  BY DEF SameLoop, SameEntry
<1>3. j.mode \in Modes /\ (j.mode = "uninstall" <=> ~Nested(j))
  BY <1>1 DEF CommandOK, Shape, Procs
<1>4. CASE j.mode = "uninstall"
  <2>1. ~k.changed /\ k.name \in Names /\ k.entry = None /\ k.stack = << >>
    BY <1>1, <1>2, <1>3, <1>4, VisitFacts DEF LoopOK, Nested
  <2> QED
    BY <1>2, <1>4, <2>1, UninstallOK
<1>5. CASE j.mode # "uninstall"
  <2>1. PICK f : f = Head(j.stack)
    OBVIOUS
  <2>2. Nested(j) /\ Carries(j, f) /\ Resolved(f)
    BY <1>3, <1>5, <2>1, VisitFacts DEF CommandOK, Knows
  <2>3. /\ SameTop(k, j) /\ LowerDone(k) /\ Nested(k) /\ Head(k.stack) = f
    BY <1>1, <2>1, <2>2, SameStack
  <2>4. Carries(k, f)
    BY <1>2, <2>2 DEF Carries
  <2>5. LoopOK(k)
    BY <1>1, <2>3, LoopStays
  <2>6. k.mode \in {"install", "frozen", "upgrade"}
    BY <1>2, <1>3, <1>5 DEF Modes
  <2> QED
    BY <2>2, <2>3, <2>4, <2>5, <2>6, InstallOK
<1> QED
  BY <1>4, <1>5

LEMMA ReadConfigKeeps ==
  ASSUME ClientInv, NEW c \in Clients, ReadConfig(c)
  PROVE  ClientInv'
<1>1. PICK j : j = proc[c]
  OBVIOUS
<1>2. CommandOK(j) /\ j.pc = "harness" /\ Quietly /\ ReadConfigEffect(c, j)
  BY <1>1, CommandFacts, ReadConfigStep
<1>3. PICK h \in j.left, k \in Procs :
        /\ proc' = [proc EXCEPT ![c] = k] /\ k.stack = j.stack
        /\ SameLoop(k, j) /\ SameEntry(k, j) /\ h \in Harnesses
        /\ \/ /\ Materialises(j)
              /\ k.pc = "write" /\ k.harness = h /\ k.cfg = config[h] /\ k.cfg \in ConfigOf
              /\ k.left = j.left /\ k.st = j.st
           \/ /\ ~Materialises(j)
              /\ k.pc = "harness" /\ k.left = j.left \ {h}
              /\ k.st = Marked(j, h)
  BY <1>2 DEF ReadConfigEffect
<1>4. k.pc = "harness" \/ (k.pc = "write" /\ k.harness \in k.left /\ k.cfg \in ConfigOf)
  BY <1>3
<1>5. CommandOK(k)
  BY <1>2, <1>3, <1>4, VisitStays
<1> QED
  BY <1>2, <1>3, <1>5, LocalStep DEF Quietly

LEMMA WriteConfigKeeps ==
  ASSUME ClientInv, NEW c \in Clients, WriteConfig(c)
  PROVE  ClientInv'
<1>1. PICK j : j = proc[c]
  OBVIOUS
<1>2. /\ CommandOK(j) /\ j.pc = "write"
      /\ UNCHANGED <<published, state, lock, bins, applied, faults>>
      /\ j.harness \in j.left /\ j.harness \in Harnesses
      /\ config' = [config EXCEPT ![j.harness] = Servers(j)] /\ Servers(j) \in ConfigOf
      /\ WriteConfigEffect(c, j)
  BY <1>1, CommandFacts, WriteConfigStep
<1>3. PICK k \in Procs :
        /\ proc' = [proc EXCEPT ![c] = k] /\ k.stack = j.stack
        /\ SameLoop(k, j) /\ SameEntry(k, j)
        /\ k.pc = "harness" /\ k.left = j.left \ {j.harness}
        /\ k.st = Marked(j, j.harness)
  BY <1>2 DEF WriteConfigEffect
<1>4. CommandOK(k)
  BY <1>2, <1>3, VisitStays
<1>5. Grows
  BY <1>2 DEF Grows
<1>6. FilesOK'
  <2>1. Readable(lock') => PinsApplied(lock)'
    BY <1>2, <1>5, PinsStay DEF ClientInv, FilesOK
  <2>2. config' \in [Harnesses -> ConfigOf]
    BY <1>2 DEF ClientInv, FilesOK
  <2> QED
    BY <1>2, <2>1, <2>2 DEF ClientInv, FilesOK
<1>7. CommandOK(k)'
  BY <1>4, <1>5, CommandStays
<1> QED
  BY <1>3, <1>5, <1>6, <1>7, StepKeeps

LEMMA SaveStateKeeps ==
  ASSUME ClientInv, NEW c \in Clients, SaveState(c)
  PROVE  ClientInv'
<1>1. PICK j : j = proc[c]
  OBVIOUS
<1>2. PICK f : f = Head(j.stack)
  OBVIOUS
<1>3. /\ CommandOK(j) /\ LoopOK(j) /\ LowerDone(j) /\ j \in Procs
      /\ j.pc = "harness" /\ state' = j.st
      /\ UNCHANGED <<published, config, lock, bins, faults>>
      /\ applied' = IF j.entry = None THEN applied
                    ELSE applied \cup {<<j.entry.pkg, j.entry.version, j.entry.content>>}
      /\ SaveStateEffect(c, j, f)
  BY <1>1, <1>2, CommandFacts, LoopFacts, SaveStateStep
<1>4. applied \subseteq applied' /\ applied' \subseteq Packages \X Versions \X Contents
  <2>1. applied \subseteq Packages \X Versions \X Contents
    BY DEF ClientInv, FilesOK
  <2>2. CASE j.entry = None
    BY <1>3, <2>1, <2>2
  <2>3. CASE j.entry # None
    <3>1. j.entry \in Entries
      BY <1>3, <2>3 DEF Procs
    <3>2. <<j.entry.pkg, j.entry.version, j.entry.content>> \in Packages \X Versions \X Contents
      BY <3>1 DEF Entries
    <3> QED
      BY <1>3, <2>1, <2>3, <3>2
  <2> QED
    BY <2>2, <2>3
<1>5. Grows
  BY <1>3, <1>4 DEF Grows
<1>6. FilesOK'
  <2>1. Readable(lock') => PinsApplied(lock)'
    BY <1>3, <1>5, PinsStay DEF ClientInv, FilesOK
  <2>2. state' \subseteq Names \X Harnesses
    BY <1>3 DEF Procs
  <2> QED
    BY <1>3, <1>4, <2>1, <2>2 DEF ClientInv, FilesOK
<1>7. CASE j.mode = "uninstall"
  <2>1. proc' = [proc EXCEPT ![c] = Idle]
    <3>1. ~Nested(j)
      BY <1>3, <1>7 DEF CommandOK, Shape
    <3> QED
      BY <1>3, <3>1 DEF SaveStateEffect
  <2>2. CommandOK(Idle)'
    BY <1>5, IdleOK, CommandStays
  <2> QED
    BY <1>5, <1>6, <2>1, <2>2, StepKeeps
<1>8. CASE j.mode # "uninstall"
  <2>1. /\ Nested(j) /\ j.entry \in Entries /\ Carries(j, f) /\ Resolved(f) /\ f \in Frames
    BY <1>2, <1>3, <1>8, VisitFacts, TopFrame DEF CommandOK, Knows
  <2>2. Done(f)'
    <3>1. Resolved(f)'
      BY <1>5, <2>1, FrameStays
    <3>2. j.entry # None
      BY <2>1, AbsenceAssumption
    <3>3. PICK x \in Contents : x = j.entry.content
      BY <2>1 DEF Entries
    <3>4. <<f.pkg, f.version, x>> \in applied' /\ (~Republished => x = f.sha)
      BY <1>3, <2>1, <3>2, <3>3 DEF Carries
    <3>5. WasApplied(f.pkg, f.version, f.sha)'
      BY <3>4 DEF WasApplied
    <3> QED
      BY <3>1, <3>5 DEF Done
  <2>3. PICK k \in Procs :
          /\ proc' = [proc EXCEPT ![c] = k] /\ Nested(j)
          /\ k.mode = j.mode /\ k.targets = j.targets /\ k.todo = j.todo
          /\ \/ /\ j.mode = "install" /\ k.pc = "companions" /\ k.stack = j.stack
                /\ k.lk = j.lk /\ k.changed = j.changed
             \/ /\ j.mode = "frozen" /\ k.pc = "next" /\ k.stack = << >>
                /\ k.lk = j.lk /\ k.changed = j.changed
             \/ /\ j.mode = "upgrade" /\ k.pc = "next" /\ k.stack = << >>
                /\ k.lk = Upserted(j.lk, f) /\ k.changed
    BY <1>3, <1>8 DEF SaveStateEffect
  <2>4. CASE j.mode = "install"
    <3>1. k.pc = "companions" /\ k.stack = j.stack /\ k.lk = j.lk /\ k.changed = j.changed
      BY <2>3, <2>4
    <3>2. /\ Nested(k) /\ SameTop(k, j) /\ SameLoop(k, j) /\ LowerDone(k)
          /\ Head(k.stack) = f
      BY <1>2, <1>3, <2>1, <2>3, <3>1, SameStack DEF SameLoop
    <3>3. LoopOK(k)
      BY <1>3, <3>2, LoopStays
    <3>4. LoopOK(k)' /\ LowerDone(k)'
      <4>1. \A i \in 2 .. Len(k.stack) : k.stack[i] \in Frames
        <5>1. k.stack \in Seq(Frames)
          BY DEF Procs
        <5> QED
          BY <5>1
      <4>2. LowerDone(k)'
        BY <1>5, <3>2, <4>1, FrameStays DEF LowerDone
      <4>3. PinsApplied(k.lk) => PinsApplied(k.lk)'
        BY <1>5, PinsStay
      <4> QED
        BY <3>3, <4>2, <4>3 DEF LoopOK
    <3>5. Kind[f.pkg] # "bundle" /\ Resolved(f)'
      BY <2>1, <2>2, <2>4 DEF Carries, Done
    <3>6. Shape(k)
      <4>1. k.mode = "install" /\ "install" # None
        BY <2>3, <2>4, AbsenceAssumption DEF Modes
      <4> QED
        BY <3>1, <3>2, <3>3, <3>5, <4>1 DEF Shape, Applying, LoopOK
    <3>7. Knows(k)'
      BY <2>2, <2>3, <2>4, <3>1, <3>2, <3>4, <3>5 DEF Knows, LoopOK, LowerDone
    <3> QED
      BY <1>5, <1>6, <2>3, <3>6, <3>7, StepKeeps DEF CommandOK
  <2>5. CASE j.mode = "frozen"
    <3>1. k.pc = "next" /\ k.stack = << >> /\ SameLoop(k, j) /\ k.mode = "frozen"
      BY <2>3, <2>5 DEF SameLoop
    <3>2. SameTop(k, j)
      BY <3>1 DEF SameTop, Nested
    <3>3. CommandOK(k)
      BY <1>3, <3>1, <3>2, LoopStays, LoopCommandOK
    <3>4. CommandOK(k)'
      BY <1>5, <3>3, CommandStays
    <3> QED
      BY <1>5, <1>6, <2>3, <3>4, StepKeeps
  <2>6. CASE j.mode = "upgrade"
    <3>1. /\ k.pc = "next" /\ k.stack = << >> /\ k.mode = "upgrade"
          /\ k.lk = Upserted(j.lk, f)
      BY <2>3, <2>6
    <3>2. /\ j.todo \subseteq j.targets /\ j.targets \subseteq Pinned(j.lk)
          /\ PinsApplied(j.lk) /\ j.lk \in Locks
      BY <1>3, <2>6 DEF LoopOK, Procs
    <3>3. PICK m : m = Upserted(j.lk, f)
      OBVIOUS
    <3>8. j.lk \in Locks /\ f \in Frames /\ Resolved(f)
      BY <2>1, <3>2
    <3>4. /\ m \in Locks /\ f.pkg \in Packages /\ m[f.pkg].version = f.version
          /\ m[f.pkg].sha = f.sha /\ Pinned(m) = Pinned(j.lk) \cup {f.pkg}
          /\ \A p \in Packages : p # f.pkg => m[p] = j.lk[p]
      <4>1. PICK l : l = j.lk
        OBVIOUS
      <4>2. l \in Locks /\ f \in Frames /\ Resolved(f) /\ m = Upserted(l, f)
        BY <3>3, <3>8, <4>1
      <4>3. /\ m \in Locks /\ m[f.pkg] = [version |-> f.version, sha |-> f.sha]
            /\ m[f.pkg] # None /\ f.pkg \in Packages
            /\ m[f.pkg].version = f.version /\ m[f.pkg].sha = f.sha
            /\ \A p \in Packages : p # f.pkg => m[p] = l[p]
            /\ Pinned(m) = Pinned(l) \cup {f.pkg}
        BY ONLY <4>2, UpsertedFacts
      <4> QED
        BY <4>1, <4>3
    <3>5. PinsApplied(m)'
      <4>1. PinsApplied(j.lk)'
        BY <1>5, <3>2, PinsStay
      <4>2. ASSUME NEW p \in Pinned(m), Kind[p] # "bundle"
            PROVE  WasApplied(p, m[p].version, m[p].sha)'
        <5>1. CASE p = f.pkg
          BY <2>2, <3>4, <4>2, <5>1 DEF Done
        <5>2. CASE p # f.pkg
          <6>1. p \in Pinned(j.lk) /\ m[p] = j.lk[p]
            BY <3>4, <5>2 DEF Pinned
          <6> QED
            BY <4>1, <4>2, <6>1 DEF PinsApplied
        <5> QED
          BY <5>1, <5>2
      <4> QED
        BY <4>2 DEF PinsApplied, Pinned
    <3>6. LoopOK(k)'
      BY <2>3, <3>1, <3>2, <3>3, <3>4, <3>5 DEF LoopOK, Nested
    <3>7. Shape(k) /\ Knows(k)'
      BY <3>1, <3>6 DEF Shape, Applying, Knows, LoopOK, Nested
    <3> QED
      BY <1>5, <1>6, <2>3, <3>7, StepKeeps DEF CommandOK
  <2> QED
    BY <2>3, <2>4, <2>5, <2>6
<1> QED
  BY <1>7, <1>8

(* The lock that a command goes on to write.                                *)
LEMMA UpsertedApplied ==
  ASSUME NEW l \in Locks, NEW f \in Frames, Done(f), PinsApplied(l)
  PROVE  PinsApplied(Upserted(l, f))
<1>1. PICK m : m = Upserted(l, f)
  OBVIOUS
<1>2. Resolved(f) /\ (Kind[f.pkg] # "bundle" => WasApplied(f.pkg, f.version, f.sha))
  BY DEF Done
<1>3. /\ m \in Locks /\ m[f.pkg] = [version |-> f.version, sha |-> f.sha]
      /\ m[f.pkg] # None /\ f.pkg \in Packages
      /\ m[f.pkg].version = f.version /\ m[f.pkg].sha = f.sha
      /\ \A p \in Packages : p # f.pkg => m[p] = l[p]
      /\ Pinned(m) = Pinned(l) \cup {f.pkg}
  BY ONLY l \in Locks, f \in Frames, <1>1, <1>2, UpsertedFacts
<1>4. ASSUME NEW p \in Pinned(m), Kind[p] # "bundle"
      PROVE  WasApplied(p, m[p].version, m[p].sha)
  <2>1. CASE p = f.pkg
    BY <1>2, <1>3, <1>4, <2>1
  <2>2. CASE p # f.pkg
    <3>1. p \in Pinned(l) /\ m[p] = l[p]
      BY <1>3, <2>2 DEF Pinned
    <3> QED
      BY <1>4, <3>1 DEF PinsApplied
  <2> QED
    BY <2>1, <2>2
<1> QED
  BY <1>1, <1>4 DEF PinsApplied

(* The install below the innermost one.                                     *)
LEMMA LowerTail ==
  ASSUME NEW j \in Procs, NEW k, LowerDone(j), Nested(j), Tail(j.stack) # << >>,
         k.stack = Tail(j.stack)
  PROVE  LowerDone(k) /\ Done(Head(k.stack)) /\ Nested(k)
<1>1. PICK s \in Seq(Frames) : s = j.stack
  BY DEF Procs
<1>2. PICK t : t = Tail(s)
  OBVIOUS
<1>3. s # << >> /\ t # << >>
  BY <1>1, <1>2 DEF Nested
<1>4. /\ t \in Seq(Frames) /\ Len(s) \in Nat \ {0} /\ Len(t) = Len(s) - 1
      /\ \A i \in 1 .. Len(t) : t[i] = s[i + 1]
  BY ONLY s \in Seq(Frames), <1>2, <1>3, TopFacts
<1>5. Head(t) = t[1] /\ Len(t) \in Nat \ {0}
  BY ONLY <1>3, <1>4, TopFacts
<1>6. \A i \in 2 .. Len(s) : Done(s[i])
  BY <1>1 DEF LowerDone
<1>7. \A i \in 1 .. Len(t) : Done(t[i])
  <2> SUFFICES ASSUME NEW i \in 1 .. Len(t) PROVE Done(t[i])
    OBVIOUS
  <2>1. i + 1 \in 2 .. Len(s)
    BY <1>4, <1>5
  <2>2. Done(s[i + 1])
    BY <1>6, <2>1
  <2> QED
    BY <1>4, <2>2
<1>8. k.stack = t
  BY <1>1, <1>2
<1>9. \A i \in 2 .. Len(t) : Done(t[i])
  BY <1>5, <1>7
<1>10. Done(Head(t))
  BY <1>5, <1>7
<1> QED
  BY <1>3, <1>8, <1>9, <1>10 DEF LowerDone, Nested

LEMMA LoadCompanionsKeeps ==
  ASSUME ClientInv, NEW c \in Clients, LoadCompanions(c)
  PROVE  ClientInv'
<1>1. PICK j : j = proc[c]
  OBVIOUS
<1>2. PICK f : f = Head(j.stack)
  OBVIOUS
<1>3. /\ CommandOK(j) /\ LoopOK(j) /\ LowerDone(j) /\ j \in Procs
      /\ j.pc = "companions" /\ Quietly /\ LoadCompanionsEffect(c, j, f)
  BY <1>1, <1>2, CommandFacts, LoopFacts, LoadCompanionsStep
<1>4. /\ j.mode = "install" /\ Nested(j) /\ Done(f) /\ Resolved(f)
      /\ Kind[f.pkg] # "bundle"
  BY <1>2, <1>3 DEF CommandOK, Shape, Knows
<1>5. PICK k \in Procs, g \in Frames :
        /\ proc' = [proc EXCEPT ![c] = k]
        /\ g.pkg = f.pkg /\ g.spec = f.spec /\ g.version = f.version /\ g.sha = f.sha
        /\ g.more \subseteq DOMAIN Companions[f.pkg][f.version]
        /\ k.pc = "more" /\ Nested(k) /\ Head(k.stack) = g
        /\ Tail(k.stack) = Tail(j.stack) /\ SameLower(k, j) /\ SameLoop(k, j)
  BY <1>3 DEF LoadCompanionsEffect
<1>6. SameTop(k, j) /\ k.mode = "install"
  BY <1>2, <1>4, <1>5 DEF SameTop, SameLoop
<1>7. Done(g) /\ Resolved(g)
  <2>1. g.more \subseteq DOMAIN Members(f.pkg, f.version)
    BY <1>4, <1>5 DEF Members
  <2> QED
    BY <1>4, <1>5, <2>1, OtherMembers
<1>8. LoopOK(k) /\ LowerDone(k)
  BY <1>3, <1>5, <1>6, LoopStays, LowerStays
<1>9. CommandOK(k)
  BY <1>5, <1>6, <1>7, <1>8, InstallOK
<1> QED
  BY <1>3, <1>5, <1>9, LocalStep DEF Quietly

LEMMA InstallNextKeeps ==
  ASSUME ClientInv, NEW c \in Clients, InstallNext(c)
  PROVE  ClientInv'
<1>1. PICK j : j = proc[c]
  OBVIOUS
<1>2. PICK f : f = Head(j.stack)
  OBVIOUS
<1>3. /\ CommandOK(j) /\ LoopOK(j) /\ LowerDone(j) /\ j \in Procs
      /\ j.pc = "more" /\ Nested(j) /\ Quietly /\ InstallNextEffect(c, j, f)
  BY <1>1, <1>2, CommandFacts, LoopFacts, InstallNextStep
<1>4. j.mode = "install" /\ Done(f) /\ Resolved(f) /\ j.stack \in Seq(Frames)
  BY <1>2, <1>3 DEF CommandOK, Shape, Knows, Procs
<1>5. PICK k \in Procs, g \in Frames, n \in Frames, i \in f.more :
        /\ proc' = [proc EXCEPT ![c] = k]
        /\ g.pkg = f.pkg /\ g.spec = f.spec /\ g.version = f.version /\ g.sha = f.sha
        /\ g.more = f.more \ {i}
        /\ i \in DOMAIN Members(f.pkg, f.version) /\ Members(f.pkg, f.version)[i] \in Requests
        /\ n.pkg = Members(f.pkg, f.version)[i].pkg /\ n.spec = Members(f.pkg, f.version)[i].spec
        /\ n.more = {}
        /\ k.pc = "resolve" /\ Nested(k) /\ Head(k.stack) = n /\ k.stack[2] = g
        /\ Len(k.stack) = Len(j.stack) + 1
        /\ \A x \in 3 .. Len(k.stack) : k.stack[x] = j.stack[x - 1]
        /\ SameLoop(k, j)
  BY <1>3 DEF InstallNextEffect
<1>6. Done(g)
  <2>1. g.more \subseteq DOMAIN Members(f.pkg, f.version)
    BY <1>4, <1>5 DEF Resolved
  <2> QED
    BY <1>4, <1>5, <2>1, OtherMembers
<1>7. LowerDone(k)
  <2> SUFFICES ASSUME NEW x \in 2 .. Len(k.stack) PROVE Done(k.stack[x])
    BY DEF LowerDone
  <2>1. Len(j.stack) \in Nat
    BY <1>4
  <2>2. CASE x = 2
    BY <1>5, <1>6, <2>2
  <2>3. CASE x # 2
    <3>1. x \in 3 .. Len(k.stack) /\ x - 1 \in 2 .. Len(j.stack)
      BY <1>5, <2>1, <2>3
    <3>2. Done(j.stack[x - 1])
      BY <1>3, <3>1 DEF LowerDone
    <3> QED
      BY <1>5, <3>1, <3>2
  <2> QED
    BY <2>2, <2>3
<1>8. k.mode = "install" /\ LoopOK(k)
  BY <1>3, <1>4, <1>5 DEF LoopOK, SameLoop
<1>9. CommandOK(k)
  BY <1>5, <1>7, <1>8, InstallOK
<1> QED
  BY <1>3, <1>5, <1>9, LocalStep DEF Quietly

LEMMA ReadLockKeeps ==
  ASSUME ClientInv, NEW c \in Clients, ReadLock(c)
  PROVE  ClientInv'
<1>1. PICK j : j = proc[c]
  OBVIOUS
<1>2. PICK f : f = Head(j.stack)
  OBVIOUS
<1>3. /\ CommandOK(j) /\ LoopOK(j) /\ LowerDone(j) /\ j \in Procs
      /\ j.pc = "more" /\ Nested(j) /\ Quietly /\ ReadLockEffect(c, j, f)
  BY <1>1, <1>2, CommandFacts, LoopFacts, ReadLockStep
<1>4. j.mode = "install" /\ Done(f) /\ Resolved(f) /\ f \in Frames
  BY <1>2, <1>3, TopFrame DEF CommandOK, Shape, Knows
<1>5. CASE Fail(c)
  BY <1>3, <1>5, FailKeeps DEF Quietly
<1>6. CASE ~Fail(c)
  <2>1. PICK k \in Procs, l \in Locks :
          /\ proc' = [proc EXCEPT ![c] = k]
          /\ l = lock \/ (~Readable(lock) /\ l = NoPins)
          /\ k.pc = "lockCreate" /\ k.stack = j.stack
          /\ k.mode = j.mode /\ k.targets = j.targets /\ k.todo = j.todo
          /\ k.changed = j.changed /\ k.lk = Upserted(l, f)
    BY <1>3, <1>6 DEF ReadLockEffect
  <2>2. PinsApplied(l)
    <3>1. CASE Readable(lock) /\ l = lock
      BY <3>1 DEF ClientInv, FilesOK
    <3>2. CASE l = NoPins
      BY <3>2, NoPinsFacts
    <3>3. l = lock => Readable(lock)
      BY AbsenceAssumption DEF Readable
    <3> QED
      BY <2>1, <3>1, <3>2, <3>3
  <2>3. PinsApplied(k.lk)
    BY <1>4, <2>1, <2>2, UpsertedApplied
  <2>4. /\ SameTop(k, j) /\ LowerDone(k) /\ Nested(k) /\ Head(k.stack) = f
    BY <1>2, <1>3, <2>1, SameStack
  <2>5. k.mode = "install" /\ LoopOK(k)
    BY <1>3, <1>4, <2>1 DEF LoopOK
  <2>6. CommandOK(k)
    BY <1>4, <2>1, <2>3, <2>4, <2>5, InstallOK
  <2> QED
    BY <1>3, <2>1, <2>6, LocalStep DEF Quietly
<1> QED
  BY <1>5, <1>6

LEMMA CreateLockKeeps ==
  ASSUME ClientInv, NEW c \in Clients, CreateLock(c)
  PROVE  ClientInv'
<1>1. PICK j : j = proc[c]
  OBVIOUS
<1>2. /\ CommandOK(j) /\ LoopOK(j) /\ LowerDone(j) /\ j \in Procs
      /\ j.pc = "lockCreate" /\ lock' = Torn
      /\ UNCHANGED <<published, config, state, bins, applied, faults>>
  BY <1>1, CommandFacts, LoopFacts, CreateLockStep
<1>3. PICK k \in Procs :
        /\ proc' = [proc EXCEPT ![c] = k]
        /\ k.pc = "lockWrite" /\ k.stack = j.stack /\ SameLoop(k, j)
  BY <1>1, CreateLockStep
<1>4. /\ SameTop(k, j) /\ LowerDone(k) /\ (Nested(k) <=> Nested(j)) /\ k.mode = j.mode
      /\ k.lk = j.lk
  BY <1>2, <1>3, SameStack DEF SameLoop
<1>5. LoopOK(k)
  BY <1>2, <1>3, <1>4, LoopStays
<1>6. /\ j.mode \in {"install", "upgrade"} /\ (j.mode = "upgrade" <=> ~Nested(j))
      /\ PinsApplied(j.lk)
      /\ Nested(j) => Done(Head(j.stack)) /\ Resolved(Head(j.stack))
  BY <1>2 DEF CommandOK, Shape, Knows
<1>7. CommandOK(k)
  <2>1. CASE Nested(j)
    BY <1>3, <1>4, <1>5, <1>6, <2>1, InstallOK
  <2>2. CASE ~Nested(j)
    BY <1>3, <1>4, <1>5, <1>6, <2>2, LoopCommandOK DEF Nested
  <2> QED
    BY <2>1, <2>2
<1>8. Grows
  BY <1>2 DEF Grows
<1>9. FilesOK'
  BY <1>2 DEF ClientInv, FilesOK, Readable
<1>10. CommandOK(k)'
  BY <1>7, <1>8, CommandStays
<1> QED
  BY <1>3, <1>8, <1>9, <1>10, StepKeeps

LEMMA WriteLockKeeps ==
  ASSUME ClientInv, NEW c \in Clients, WriteLock(c)
  PROVE  ClientInv'
<1>1. PICK j : j = proc[c]
  OBVIOUS
<1>2. /\ CommandOK(j) /\ LoopOK(j) /\ LowerDone(j) /\ j \in Procs
      /\ j.pc = "lockWrite" /\ lock' \in {j.lk, Corrupt}
      /\ UNCHANGED <<published, config, state, bins, applied, faults>>
      /\ WriteLockEffect(c, j)
  BY <1>1, CommandFacts, LoopFacts, WriteLockStep
<1>3. Grows
  BY <1>2 DEF Grows
<1>4. FilesOK'
  <2>1. j.lk \in Locks /\ PinsApplied(j.lk)
    BY <1>2 DEF CommandOK, Knows, Procs
  <2>2. PinsApplied(j.lk)'
    BY <1>3, <2>1, PinsStay
  <2>3. PICK l : l = lock'
    OBVIOUS
  <2>4. l \in Locks \cup {None, Torn, Corrupt} /\ (Readable(l) => PinsApplied(l)')
    BY <1>2, <2>1, <2>2, <2>3 DEF Readable
  <2>5. (Readable(lock) => PinsApplied(lock))'
    BY <2>3, <2>4 DEF Readable, PinsApplied, WasApplied, Pinned
  <2> QED
    BY <1>2, <2>3, <2>4, <2>5 DEF ClientInv, FilesOK
<1>5. CASE proc' = [proc EXCEPT ![c] = Idle]
  <2>1. CommandOK(Idle)'
    BY <1>3, IdleOK, CommandStays
  <2> QED
    BY <1>3, <1>4, <1>5, <2>1, StepKeeps
<1>6. CASE proc' # [proc EXCEPT ![c] = Idle]
  <2>1. PICK k \in Procs :
          /\ proc' = [proc EXCEPT ![c] = k] /\ j.mode = "install"
          /\ Nested(j) /\ Tail(j.stack) # << >>
          /\ k.pc = "more" /\ k.stack = Tail(j.stack) /\ k.mode = "install"
          /\ k.changed = j.changed
    BY <1>2, <1>6 DEF WriteLockEffect
  <2>2. LoopOK(k)
    BY <1>2, <2>1 DEF LoopOK
  <2>3. LowerDone(k) /\ Done(Head(k.stack)) /\ Nested(k)
    BY <1>2, <2>1, LowerTail
  <2>4. CommandOK(k)
    BY <2>1, <2>2, <2>3, InstallOK DEF Done
  <2>5. CommandOK(k)'
    BY <1>3, <2>4, CommandStays
  <2> QED
    BY <1>3, <1>4, <2>1, <2>5, StepKeeps
<1> QED
  BY <1>5, <1>6

LEMMA PublishKeeps ==
  ASSUME ClientInv, NEW p \in Packages, NEW v \in Versions, NEW x \in Contents, Publish(p, v, x)
  PROVE  ClientInv'
<1>1. /\ published[p][v] = None \/ Republished
      /\ published' = [published EXCEPT ![p][v] = x]
      /\ UNCHANGED <<files, proc, applied, faults>>
  BY DEF Publish
<1>2. published \in [Packages -> [Versions -> Contents \cup {None}]]
  BY DEF ClientInv, FilesOK
<1>3. x # None
  BY AbsenceAssumption
<1>4. published' \in [Packages -> [Versions -> Contents \cup {None}]]
  BY <1>1, <1>2
<1>5. ASSUME NEW q \in Packages, NEW w \in Versions, published[q][w] # None
      PROVE  /\ published'[q][w] # None
             /\ ~Republished => published'[q][w] = published[q][w]
  <2>1. CASE q = p /\ w = v
    BY <1>1, <1>2, <1>3, <1>5, <2>1
  <2>2. CASE ~(q = p /\ w = v)
    BY <1>1, <1>2, <1>5, <2>2
  <2> QED
    BY <2>1, <2>2
<1>6. Grows
  BY <1>1, <1>5 DEF Grows
<1>7. FilesOK'
  BY <1>1, <1>4, <1>6, PinsStay DEF ClientInv, FilesOK, files
<1>8. ASSUME NEW c \in Clients PROVE CommandOK(proc[c])'
  <2>1. PICK j : j = proc[c]
    OBVIOUS
  <2>2. CommandOK(j)'
    BY <1>6, <2>1, CommandFacts, CommandStays
  <2>3. proc'[c] = j
    BY <1>1, <2>1
  <2> QED
    BY <2>2, <2>3
<1> QED
  BY <1>1, <1>7, <1>8 DEF ClientInv

(* An interrupted command leaves everything as it is.                       *)
LEMMA FaultKeeps ==
  ASSUME ClientInv, NEW c \in Clients, AdapterFails(c) \/ Crash(c)
  PROVE  ClientInv'
<1>1. /\ faults < MaxFaults /\ faults' = faults + 1
      /\ proc' = [proc EXCEPT ![c] = Idle] /\ UNCHANGED <<published, files, applied>>
  BY DEF AdapterFails, Crash, Fail, Step
<1>2. Grows
  BY <1>1 DEF Grows
<1>3. faults' \in 0 .. MaxFaults
  BY <1>1, LimitsAssumption DEF ClientInv, FilesOK
<1>4. FilesOK'
  BY <1>1, <1>2, <1>3, PinsStay DEF ClientInv, FilesOK, files
<1>5. CommandOK(Idle)'
  BY <1>2, IdleOK, CommandStays
<1> QED
  BY <1>1, <1>2, <1>4, <1>5, StepKeeps

LEMMA RunKeeps ==
  ASSUME ClientInv, NEW c \in Clients, Run(c), Specs \subseteq SUBSET Versions
  PROVE  ClientInv'
<1>1. ASSUME NEW p \in Packages, NEW spec \in Specs, Install(c, [pkg |-> p, spec |-> spec])
      PROVE  ClientInv'
  <2>1. PICK q : q = [pkg |-> p, spec |-> spec]
    OBVIOUS
  <2>2. q \in Requests
    BY <2>1 DEF Requests
  <2> QED
    BY <1>1, <2>1, <2>2, InstallKeeps
<1>2. ASSUME NEW mode \in {"frozen", "upgrade"},
             NEW entries \in {Listed} \cup {{p} : p \in Listed}, OverLock(c, mode, entries)
      PROVE  ClientInv'
  <2>1. entries \in SUBSET Listed
    BY <1>2
  <2> QED
    BY <1>2, <2>1, OverLockKeeps
<1>3. ASSUME NEW n \in Names, Uninstall(c, n) PROVE ClientInv'
  BY <1>3, UninstallKeeps
<1> QED
  BY <1>1, <1>2, <1>3 DEF Run

LEMMA LocalKeeps ==
  ASSUME ClientInv, NEW c \in Clients, Local(c)
  PROVE  ClientInv'
BY NextEntryKeeps, LoopDoneKeeps, BinaryKeeps, LoadStateKeeps, ReadConfigKeeps,
   WriteConfigKeeps, SaveStateKeeps, LoadCompanionsKeeps, InstallNextKeeps, ReadLockKeeps,
   CreateLockKeeps, WriteLockKeeps DEF Local

LEMMA StutterKeeps ==
  ASSUME ClientInv, UNCHANGED vars
  PROVE  ClientInv'
<1>1. Grows /\ UNCHANGED <<published, config, state, lock, bins, applied, faults, proc>>
  BY DEF vars, files, Grows
<1>2. FilesOK'
  BY <1>1, PinsStay DEF ClientInv, FilesOK
<1>3. ASSUME NEW c \in Clients PROVE CommandOK(proc[c])'
  <2>1. PICK j : j = proc[c]
    OBVIOUS
  <2>2. CommandOK(j)'
    BY <1>1, <2>1, CommandFacts, CommandStays
  <2>3. proc'[c] = j
    BY <1>1, <2>1
  <2> QED
    BY <2>2, <2>3
<1> QED
  BY <1>1, <1>2, <1>3 DEF ClientInv

LEMMA InitEstablishes ==
  ASSUME Init
  PROVE  ClientInv
<1>1. FilesOK
  <2>1. 0 \in 0 .. MaxFaults
    BY LimitsAssumption
  <2> QED
    BY <2>1 DEF Init, FilesOK, ConfigOf, Readable
<1>2. ASSUME NEW c \in Clients PROVE proc[c] = Idle
  BY DEF Init
<1>3. proc \in [Clients -> Procs]
  BY IdleFacts DEF Init
<1> QED
  BY <1>1, <1>2, <1>3, IdleOK DEF ClientInv

LEMMA NextKeeps ==
  ASSUME ClientInv, Next
  PROVE  ClientInv'
<1>1. CASE \E p \in Packages, v \in Versions, k \in Contents : Publish(p, v, k)
  BY <1>1, PublishKeeps
<1>2. ASSUME NEW c \in Clients, ApiFails(c) PROVE ClientInv'
  BY <1>2, FailKeeps DEF ApiFails
<1>3. ASSUME NEW c \in Clients,
             Run(c) \/ Resolve(c) \/ FetchTool(c) \/ Local(c)
               \/ ApiFails(c) \/ AdapterFails(c) \/ Crash(c)
      PROVE  ClientInv'
  BY <1>2, <1>3, RunKeeps, ResolveKeeps, FetchToolKeeps, LocalKeeps, FaultKeeps,
     ClientVersionsAssumption
<1> QED
  BY <1>1, <1>3 DEF Next

(* Whatever the commands do at the same time, every command is in order:    *)
(* its stack is made of resolved installs, what it carries into the         *)
(* harnesses is what it resolved, and each lock that it is about to write   *)
(* pins only what was applied.                                              *)
THEOREM ClientInvariant == Spec => []ClientInv
<1>1. Init => ClientInv
  BY InitEstablishes
<1>2. ClientInv /\ [Next]_vars => ClientInv'
  BY NextKeeps, StutterKeeps
<1> QED
  BY <1>1, <1>2, PTL DEF Spec

(* Every file and every command keeps its type.                             *)
THEOREM TypeCorrect == Spec => []TypeOK
<1>1. ClientInv => TypeOK
  BY DEF ClientInv, FilesOK, TypeOK
<1> QED
  BY <1>1, ClientInvariant, PTL

(* Unless v0.0.0 is replaced in place, what inguma.lock pins was applied to *)
(* every target harness before, with the content that the pin records, for  *)
(* any number of processes, and wherever they are interrupted.              *)
THEOREM PinsHold ==
  ASSUME Republished = FALSE
  PROVE  Spec => []PinsWhatWasApplied
<1>1. ClientInv => PinsWhatWasApplied
  BY DEF ClientInv, FilesOK, PinsApplied, WasApplied, PinsWhatWasApplied
<1> QED
  BY <1>1, ClientInvariant, PTL

-----------------------------------------------------------------------------
(***************************************************************************)
(* Commands that are run one after the other.                              *)
(***************************************************************************)
Alone == \E c : Clients = {c}

LEMMA AloneStep ==
  ASSUME Alone, ClientInv, NEW c \in Clients, NEW k, proc' = [proc EXCEPT ![c] = k]
  PROVE  \A d \in Clients : proc'[d] = k
BY DEF Alone, ClientInv

(***************************************************************************)
(* What an upgrade holds is ahead of the lock, and it installs only what is *)
(* ahead of what it holds.                                                 *)
(***************************************************************************)
Ahead(new, old) ==
  \A p \in Pinned(old) :
    /\ new[p] # None /\ new[p].version >= old[p].version
    /\ Major[new[p].version] = Major[old[p].version]
Forward(j) ==
  j.mode = "upgrade" =>
    /\ Readable(lock) => Ahead(j.lk, lock)
    /\ Nested(j) =>
         /\ \A w \in Head(j.stack).spec : Major[w] = Major[j.lk[Head(j.stack).pkg].version]
         /\ j.pc # "resolve" => Head(j.stack).version > j.lk[Head(j.stack).pkg].version
ForwardInv == \A c \in Clients : Forward(proc[c])

LEMMA ForwardTo ==
  ASSUME Alone, ClientInv, NEW c \in Clients, NEW k, proc' = [proc EXCEPT ![c] = k], Forward(k)'
  PROVE  ForwardInv'
<1>1. ASSUME NEW d \in Clients PROVE Forward(proc[d])'
  <2>1. PICK q : q = proc'[d]
    OBVIOUS
  <2>2. q = k
    BY <2>1, AloneStep
  <2> QED
    BY <2>1, <2>2
<1> QED
  BY <1>1 DEF ForwardInv

LEMMA ForwardStays ==
  ASSUME Alone, ClientInv, ForwardInv, NEW c \in Clients, NEW j, j = proc[c], NEW k,
         proc' = [proc EXCEPT ![c] = k], lock' = lock,
         k.stack = j.stack, SameLoop(k, j), k.pc # "resolve" => j.pc # "resolve"
  PROVE  ForwardInv'
<1>1. Forward(j)
  BY DEF ForwardInv
<1>2. Forward(k)'
  BY <1>1 DEF Forward, SameLoop, Nested
<1> QED
  BY <1>2, ForwardTo

LEMMA ForwardOther ==
  ASSUME Alone, ClientInv, NEW c \in Clients, NEW k,
         proc' = [proc EXCEPT ![c] = k], k.mode # "upgrade"
  PROVE  ForwardInv'
<1>1. Forward(k)'
  BY DEF Forward
<1> QED
  BY <1>1, ForwardTo

LEMMA ForwardFail ==
  ASSUME Alone, ClientInv, NEW c \in Clients, Fail(c)
  PROVE  ForwardInv'
<1>1. Idle.mode # "upgrade"
  BY IdleFacts, AbsenceAssumption DEF Modes
<1> QED
  BY <1>1, ForwardOther DEF Fail, Step

LEMMA ForwardUnmoved ==
  ASSUME ForwardInv, UNCHANGED <<lock, proc>>
  PROVE  ForwardInv'
BY DEF ForwardInv, Forward, Ahead, Pinned

LEMMA ForwardRun ==
  ASSUME Alone, ClientInv, NEW c \in Clients, Run(c)
  PROVE  ForwardInv'
<1>1. ASSUME NEW p \in Packages, NEW spec \in Specs, Install(c, [pkg |-> p, spec |-> spec])
      PROVE  ForwardInv'
  <2>1. PICK q : q = [pkg |-> p, spec |-> spec]
    OBVIOUS
  <2>2. q \in Requests
    BY <2>1, ClientVersionsAssumption DEF Requests
  <2>3. PICK k \in Procs :
          /\ proc' = [proc EXCEPT ![c] = k] /\ Quietly
          /\ k.pc = "resolve" /\ k.mode = "install" /\ k.changed = FALSE
          /\ k.stack = <<Frame(q, FALSE)>>
    BY <1>1, <2>1, <2>2, InstallStep
  <2> QED
    BY <2>3, ForwardOther
<1>2. ASSUME NEW mode \in {"frozen", "upgrade"},
             NEW entries \in {Listed} \cup {{p} : p \in Listed}, OverLock(c, mode, entries)
      PROVE  ForwardInv'
  <2>1. entries \in SUBSET Listed
    BY <1>2
  <2>2. Quietly /\ lock \in Locks /\ OverLockEffect(c, mode, entries)
    BY <1>2, <2>1, OverLockStep
  <2>3. PICK k \in Procs :
          /\ proc' = [proc EXCEPT ![c] = k]
          /\ k.pc = "next" /\ k.mode = mode /\ k.changed = FALSE /\ k.stack = << >>
          /\ k.lk = lock /\ k.targets = entries /\ k.todo = entries
    BY <2>2 DEF OverLockEffect
  <2>4. Ahead(lock, lock)
    <3>1. ASSUME NEW p \in Pinned(lock)
          PROVE  lock[p] # None /\ lock[p].version >= lock[p].version
      <4>1. lock[p] \in Pins /\ lock[p] # None
        BY <2>2 DEF Pinned, Locks
      <4>2. lock[p].version \in Nat
        BY <4>1, ClientVersionsAssumption DEF Pins, Versions
      <4> QED
        BY <4>1, <4>2
    <3> QED
      BY <3>1 DEF Ahead
  <2>5. lock' = lock
    BY <2>2 DEF Quietly, files
  <2>6. Forward(k)'
    BY <2>3, <2>4, <2>5 DEF Forward, Nested, Ahead, Pinned
  <2> QED
    BY <2>3, <2>6, ForwardTo
<1>3. ASSUME NEW n \in Names, Uninstall(c, n) PROVE ForwardInv'
  <2>1. PICK k \in Procs :
        /\ proc' = [proc EXCEPT ![c] = k] /\ Quietly
        /\ k.pc = "harness" /\ k.mode = "uninstall" /\ k.changed = FALSE /\ k.stack = << >>
        /\ k.name = n /\ k.entry = None /\ k.st = state
        /\ k.left = {h \in Harnesses : <<n, h>> \in state}
    BY ONLY ZenonT(40), ClientInv, c \in Clients, n \in Names, <1>3, UninstallStep
  <2> QED
    BY <2>1, ForwardOther
<1> QED
  BY <1>1, <1>2, <1>3 DEF Run

LEMMA ForwardLoop ==
  ASSUME Alone, ClientInv, ForwardInv, NEW c \in Clients, NextEntry(c) \/ LoopDone(c)
  PROVE  ForwardInv'
<1>1. PICK j : j = proc[c]
  OBVIOUS
<1>2. Forward(j) /\ j \in Procs /\ LoopOK(j) /\ CommandOK(j)
  BY <1>1, CommandFacts, LoopFacts DEF ForwardInv
<1>3. CASE Fail(c)
  BY <1>3, ForwardFail
<1>4. CASE NextEntry(c) /\ ~Fail(c)
  <2>1. j.pc = "next" /\ Quietly /\ NextEntryEffect(c, j)
    BY <1>1, <1>4, NextEntryStep
  <2>2. PICK p \in j.todo, k \in Procs :
          /\ proc' = [proc EXCEPT ![c] = k]
          /\ k.pc = "resolve" /\ k.mode = j.mode /\ k.changed = j.changed
          /\ k.targets = j.targets /\ k.todo = j.todo \ {p} /\ k.lk = j.lk
          /\ Asked(j, p) \in SUBSET Versions
          /\ k.stack = <<Frame([pkg |-> p, spec |-> Asked(j, p)], FALSE)>>
    BY <2>1 DEF NextEntryEffect
  <2>3. CASE j.mode # "upgrade"
    BY <2>2, <2>3, ForwardOther
  <2>4. CASE j.mode = "upgrade"
    <3>1. PICK q \in Requests : q.pkg = p /\ q.spec = Asked(j, p)
                                /\ k.stack = <<Frame(q, FALSE)>>
      <4>1. p \in Packages
        BY <1>2, <2>2, <2>4 DEF LoopOK, Pinned
      <4>2. PICK q : q = [pkg |-> p, spec |-> Asked(j, p)]
        OBVIOUS
      <4>3. q \in Requests /\ q.pkg = p /\ q.spec = Asked(j, p)
        BY <2>2, <4>1, <4>2 DEF Requests
      <4> QED
        BY <2>2, <4>2, <4>3
    <3>2. PICK s : s = k.stack
      OBVIOUS
    <3>3. Head(s).pkg = q.pkg /\ Head(s).spec = q.spec
      BY <3>1, <3>2, FreshStack
    <3>4. \A w \in Asked(j, p) : Major[w] = Major[j.lk[p].version]
      BY <2>4 DEF Asked
    <3>5. lock' = lock
      BY <2>1 DEF Quietly, files
    <3>6. (Readable(lock) => Ahead(k.lk, lock))'
      BY <1>2, <2>2, <2>4, <3>5 DEF Forward, Readable, Ahead, Pinned
    <3>7. \A w \in Head(k.stack).spec : Major[w] = Major[k.lk[Head(k.stack).pkg].version]
      BY <2>2, <3>1, <3>2, <3>3, <3>4
    <3>8. Forward(k)'
      BY <2>2, <3>6, <3>7 DEF Forward
    <3> QED
      BY <2>2, <3>8, ForwardTo
  <2> QED
    BY <2>3, <2>4
<1>5. CASE LoopDone(c) /\ ~Fail(c)
  <2>1. PICK k \in Procs :
          /\ proc' = [proc EXCEPT ![c] = k] /\ j.changed /\ j.pc = "next" /\ Quietly
          /\ k.pc = "lockCreate" /\ k.stack = j.stack
          /\ SameLoop(k, j) /\ SameEntry(k, j) /\ SameVisit(k, j)
    BY <1>1, <1>5, LoopDoneStep
  <2>2. lock' = lock /\ j.pc # "resolve"
    BY <2>1 DEF Quietly, files
  <2> QED
    BY <1>1, <2>1, <2>2, ForwardStays
<1> QED
  BY <1>3, <1>4, <1>5

LEMMA ForwardResolve ==
  ASSUME Alone, ClientInv, ForwardInv, NEW c \in Clients, Resolve(c)
  PROVE  ForwardInv'
<1>1. PICK j : j = proc[c]
  OBVIOUS
<1>2. PICK f : f = Head(j.stack)
  OBVIOUS
<1>3. /\ Forward(j) /\ j \in Procs /\ LoopOK(j)
      /\ j.pc = "resolve" /\ Nested(j) /\ Quietly /\ ResolveEffect(c, j, f)
  BY <1>1, <1>2, CommandFacts, LoopFacts, ResolveStep DEF ForwardInv
<1>4. CASE Fail(c)
  BY <1>4, ForwardFail
<1>5. lock' = lock
  BY <1>3 DEF Quietly, files
<1>6. CASE j.mode = "upgrade" /\ proc' = [proc EXCEPT ![c] = Popped(j)]
  <2>1. Tail(j.stack) = << >>
    BY <1>3, <1>6 DEF LoopOK
  <2>2. PICK k : k = Popped(j)
    OBVIOUS
  <2>3. k \in Procs /\ k.pc = "next" /\ k.stack = << >> /\ SameLoop(k, j)
    BY <1>3, <1>6, <2>1, <2>2, PoppedFacts
  <2>4. Forward(k)'
    BY <1>3, <1>5, <1>6, <2>3 DEF Forward, Nested, Ahead, Pinned, SameLoop
  <2> QED
    BY <1>6, <2>2, <2>4, ForwardTo
<1>7. CASE ~Fail(c) /\ ~(j.mode = "upgrade" /\ proc' = [proc EXCEPT ![c] = Popped(j)])
  <2>1. PICK k \in Procs, g \in Frames :
          /\ proc' = [proc EXCEPT ![c] = k]
          /\ g.pkg = f.pkg /\ g.spec = f.spec /\ g.more = f.more
          /\ g.version \in f.spec /\ g.version \in Versions
          /\ g.sha = published[f.pkg][g.version] /\ g.sha \in Contents
          /\ j.mode = "upgrade" => ~(g.version <= j.lk[f.pkg].version)
          /\ k.pc = "tool" /\ Nested(k) /\ Head(k.stack) = g
          /\ Tail(k.stack) = Tail(j.stack) /\ SameLower(k, j) /\ SameLoop(k, j)
    BY <1>3, <1>7 DEF ResolveEffect
  <2>2. CASE j.mode # "upgrade"
    BY <2>1, <2>2, ForwardOther DEF SameLoop
  <2>3. CASE j.mode = "upgrade"
    <3>1. f.pkg \in Pinned(j.lk) /\ j.lk \in Locks
      BY <1>2, <1>3, <2>3 DEF LoopOK, Procs
    <3>2. j.lk[f.pkg].version \in Nat /\ g.version \in Nat
      BY <2>1, <3>1, ClientVersionsAssumption DEF Pinned, Locks, Pins, Versions
    <3>3. g.version > j.lk[f.pkg].version
      BY <2>1, <2>3, <3>2
    <3>4. \A w \in g.spec : Major[w] = Major[j.lk[g.pkg].version]
      BY <1>2, <1>3, <2>1, <2>3 DEF Forward
    <3>5. k.lk = j.lk /\ (Readable(lock) => Ahead(k.lk, lock))
      BY <1>3, <2>1, <2>3 DEF Forward, SameLoop
    <3>6. (Readable(lock) => Ahead(k.lk, lock))'
      BY <1>5, <3>5 DEF Readable, Ahead, Pinned
    <3>7. /\ \A w \in Head(k.stack).spec : Major[w] = Major[k.lk[Head(k.stack).pkg].version]
          /\ Head(k.stack).version > k.lk[Head(k.stack).pkg].version
      BY <2>1, <3>3, <3>4, <3>5
    <3>8. Forward(k)'
      BY <3>6, <3>7 DEF Forward
    <3> QED
      BY <2>1, <3>8, ForwardTo
  <2> QED
    BY <2>2, <2>3
<1> QED
  BY <1>4, <1>6, <1>7

LEMMA ForwardFetchTool ==
  ASSUME Alone, ClientInv, ForwardInv, NEW c \in Clients, FetchTool(c)
  PROVE  ForwardInv'
<1>1. PICK j : j = proc[c]
  OBVIOUS
<1>2. PICK f : f = Head(j.stack)
  OBVIOUS
<1>3. j.pc = "tool" /\ Nested(j) /\ Quietly /\ FetchToolEffect(c, j, f)
  BY <1>1, <1>2, FetchToolStep
<1>4. CASE Fail(c)
  BY <1>4, ForwardFail
<1>5. CASE ~Fail(c) /\ j.mode = "install" /\ Kind[f.pkg] = "bundle"
  <2>1. PICK k \in Procs, g \in Frames :
          /\ proc' = [proc EXCEPT ![c] = k]
          /\ g.pkg = f.pkg /\ g.spec = f.spec /\ g.version = f.version /\ g.sha = f.sha
          /\ g.more = DOMAIN Includes[f.pkg][f.version]
          /\ k.pc = "more" /\ Nested(k) /\ Head(k.stack) = g
          /\ Tail(k.stack) = Tail(j.stack) /\ SameLower(k, j) /\ SameLoop(k, j)
    BY <1>3, <1>5 DEF FetchToolEffect
  <2> QED
    BY <1>5, <2>1, ForwardOther DEF SameLoop
<1>6. CASE ~Fail(c) /\ ~(j.mode = "install" /\ Kind[f.pkg] = "bundle")
  <2>1. PICK k \in Procs :
          /\ proc' = [proc EXCEPT ![c] = k]
          /\ k.pc = AfterTool(j) /\ k.stack = j.stack /\ SameLoop(k, j)
          /\ k.name = NameOf[f.pkg]
          /\ k.entry = [pkg |-> f.pkg, version |-> f.version,
                        content |-> published[f.pkg][f.version]]
    BY <1>3, <1>6 DEF FetchToolEffect
  <2>2. lock' = lock /\ j.pc # "resolve"
    BY <1>3 DEF Quietly, files
  <2> QED
    BY <1>1, <2>1, <2>2, ForwardStays
<1> QED
  BY <1>4, <1>5, <1>6

LEMMA ForwardVisit ==
  ASSUME Alone, ClientInv, ForwardInv, NEW c \in Clients,
         CreateBinary(c) \/ WriteBinary(c) \/ LoadState(c) \/ ReadConfig(c) \/ WriteConfig(c)
  PROVE  ForwardInv'
<1>1. PICK j : j = proc[c]
  OBVIOUS
<1>2. CASE CreateBinary(c) \/ WriteBinary(c)
  <2>1. lock' = lock /\ j.pc \in {"binary", "binaryWrite"} /\ BinaryEffect(c, j)
    BY <1>1, <1>2, BinaryStep
  <2>2. PICK k \in Procs :
          /\ proc' = [proc EXCEPT ![c] = k] /\ k.stack = j.stack
          /\ SameLoop(k, j) /\ SameEntry(k, j)
          /\ \/ k.pc = "binaryWrite" /\ bins' = [bins EXCEPT ![BinOf[j.entry.pkg]] = Torn]
             \/ k.pc = "apply" /\ bins' = [bins EXCEPT ![BinOf[j.entry.pkg]] = j.entry]
    BY <2>1 DEF BinaryEffect
  <2> QED
    BY <1>1, <2>1, <2>2, ForwardStays
<1>3. CASE LoadState(c)
  <2>1. PICK k \in Procs :
          /\ proc' = [proc EXCEPT ![c] = k] /\ k.pc = "harness" /\ k.stack = j.stack
          /\ SameLoop(k, j) /\ SameEntry(k, j) /\ k.st = state /\ k.left = Harnesses
    BY <1>1, <1>3, LoadStateStep
  <2>2. lock' = lock /\ j.pc # "resolve"
    BY <1>1, <1>3, LoadStateStep DEF Quietly, files
  <2> QED
    BY <1>1, <2>1, <2>2, ForwardStays
<1>4. CASE ReadConfig(c)
  <2>1. j.pc = "harness" /\ Quietly /\ ReadConfigEffect(c, j)
    BY <1>1, <1>4, ReadConfigStep
  <2>2. PICK h \in j.left, k \in Procs :
          /\ proc' = [proc EXCEPT ![c] = k] /\ k.stack = j.stack
          /\ SameLoop(k, j) /\ SameEntry(k, j) /\ h \in Harnesses
          /\ \/ /\ Materialises(j)
                /\ k.pc = "write" /\ k.harness = h /\ k.cfg = config[h] /\ k.cfg \in ConfigOf
                /\ k.left = j.left /\ k.st = j.st
             \/ /\ ~Materialises(j)
                /\ k.pc = "harness" /\ k.left = j.left \ {h}
                /\ k.st = Marked(j, h)
    BY <2>1 DEF ReadConfigEffect
  <2>3. lock' = lock /\ j.pc # "resolve"
    BY <2>1 DEF Quietly, files
  <2> QED
    BY <1>1, <2>2, <2>3, ForwardStays
<1>5. CASE WriteConfig(c)
  <2>1. lock' = lock /\ j.pc = "write" /\ WriteConfigEffect(c, j)
    BY <1>1, <1>5, WriteConfigStep
  <2>2. PICK k \in Procs :
          /\ proc' = [proc EXCEPT ![c] = k] /\ k.stack = j.stack
          /\ SameLoop(k, j) /\ SameEntry(k, j)
          /\ k.pc = "harness" /\ k.left = j.left \ {j.harness}
          /\ k.st = Marked(j, j.harness)
    BY <2>1 DEF WriteConfigEffect
  <2> QED
    BY <1>1, <2>1, <2>2, ForwardStays
<1> QED
  BY <1>2, <1>3, <1>4, <1>5

LEMMA ForwardSave ==
  ASSUME Alone, ClientInv, ForwardInv, NEW c \in Clients, SaveState(c)
  PROVE  ForwardInv'
<1>1. PICK j : j = proc[c]
  OBVIOUS
<1>2. PICK f : f = Head(j.stack)
  OBVIOUS
<1>3. /\ Forward(j) /\ j \in Procs /\ LoopOK(j) /\ CommandOK(j)
      /\ j.pc = "harness" /\ lock' = lock /\ SaveStateEffect(c, j, f)
  BY <1>1, <1>2, CommandFacts, LoopFacts, SaveStateStep DEF ForwardInv
<1>4. CASE proc' = [proc EXCEPT ![c] = Idle]
  BY <1>4, ForwardFail DEF Fail, Step
<1>5. CASE proc' # [proc EXCEPT ![c] = Idle]
  <2>1. PICK k \in Procs :
          /\ proc' = [proc EXCEPT ![c] = k] /\ Nested(j)
          /\ k.mode = j.mode /\ k.targets = j.targets /\ k.todo = j.todo
          /\ \/ /\ j.mode = "install" /\ k.pc = "companions" /\ k.stack = j.stack
                /\ k.lk = j.lk /\ k.changed = j.changed
             \/ /\ j.mode = "frozen" /\ k.pc = "next" /\ k.stack = << >>
                /\ k.lk = j.lk /\ k.changed = j.changed
             \/ /\ j.mode = "upgrade" /\ k.pc = "next" /\ k.stack = << >>
                /\ k.lk = Upserted(j.lk, f) /\ k.changed
    BY <1>3, <1>5 DEF SaveStateEffect
  <2>2. CASE j.mode # "upgrade"
    BY <2>1, <2>2, ForwardOther
  <2>3. CASE j.mode = "upgrade"
    <3>1. k.stack = << >> /\ k.lk = Upserted(j.lk, f)
      BY <2>1, <2>3
    <3>2. PICK old \in Locks : old = j.lk
      BY <1>3 DEF Procs
    <3>3. PICK new : new = Upserted(old, f)
      OBVIOUS
    <3>4. f \in Frames /\ Resolved(f) /\ f.pkg \in Pinned(old)
      BY <1>2, <1>3, <2>1, <2>3, <3>2, TopFrame DEF CommandOK, Knows, LoopOK
    <3>5. /\ new \in Locks /\ new[f.pkg] = [version |-> f.version, sha |-> f.sha]
          /\ new[f.pkg] # None /\ f.pkg \in Packages
          /\ new[f.pkg].version = f.version /\ new[f.pkg].sha = f.sha
          /\ \A p \in Packages : p # f.pkg => new[p] = old[p]
          /\ Pinned(new) = Pinned(old) \cup {f.pkg}
      BY ONLY <3>2, <3>3, <3>4, UpsertedFacts
    <3>6. /\ f.version > old[f.pkg].version /\ f.version \in f.spec
          /\ Major[f.version] = Major[old[f.pkg].version]
      BY <1>2, <1>3, <2>1, <2>3, <3>2, <3>4 DEF Forward, Resolved
    <3>7. ASSUME Readable(lock) PROVE Ahead(new, lock)
      <4>1. Ahead(old, lock) /\ lock \in Locks
        BY <1>3, <2>3, <3>2, <3>7 DEF Forward, ClientInv, FilesOK, Readable
      <4>2. ASSUME NEW p \in Pinned(lock)
            PROVE  /\ new[p] # None /\ new[p].version >= lock[p].version
                   /\ Major[new[p].version] = Major[lock[p].version]
        <5>1. /\ old[p] # None /\ old[p].version >= lock[p].version
              /\ Major[old[p].version] = Major[lock[p].version] /\ p \in Packages
          BY <4>1 DEF Ahead, Pinned
        <5>2. CASE p = f.pkg
          <6>1. /\ lock[p].version \in Nat /\ old[p].version \in Nat /\ f.version \in Nat
            BY <3>4, <4>1, <4>2, <5>1, ClientVersionsAssumption
            DEF Pinned, Locks, Pins, Versions, Resolved
          <6>2. f.version >= lock[p].version
            BY <3>6, <5>1, <5>2, <6>1
          <6> QED
            BY <3>5, <3>6, <5>1, <5>2, <6>2
        <5>3. CASE p # f.pkg
          BY <3>5, <5>1, <5>3
        <5> QED
          BY <5>2, <5>3
      <4> QED
        BY <4>2 DEF Ahead
    <3>8. (Readable(lock) => Ahead(k.lk, lock))'
      BY <1>3, <3>1, <3>2, <3>3, <3>7 DEF Readable, Ahead, Pinned
    <3>9. Forward(k)'
      BY <3>1, <3>8 DEF Forward, Nested
    <3> QED
      BY <2>1, <3>9, ForwardTo
  <2> QED
    BY <2>2, <2>3
<1> QED
  BY <1>4, <1>5

LEMMA ForwardNested ==
  ASSUME Alone, ClientInv, NEW c \in Clients, LoadCompanions(c) \/ InstallNext(c) \/ ReadLock(c)
  PROVE  ForwardInv'
<1>1. PICK j : j = proc[c]
  OBVIOUS
<1>2. PICK f : f = Head(j.stack)
  OBVIOUS
<1>3. CommandOK(j) /\ j.pc \in {"companions", "more"}
  BY <1>1, CommandFacts DEF LoadCompanions, InstallNext, ReadLock, At
<1>4. j.mode = "install"
  BY <1>3 DEF CommandOK, Shape
<1>5. CASE LoadCompanions(c)
  <2>1. LoadCompanionsEffect(c, j, f)
    BY <1>1, <1>2, <1>5, LoadCompanionsStep
  <2>2. PICK k \in Procs, g \in Frames :
          /\ proc' = [proc EXCEPT ![c] = k]
          /\ g.pkg = f.pkg /\ g.spec = f.spec /\ g.version = f.version /\ g.sha = f.sha
          /\ g.more \subseteq DOMAIN Companions[f.pkg][f.version]
          /\ k.pc = "more" /\ Nested(k) /\ Head(k.stack) = g
          /\ Tail(k.stack) = Tail(j.stack) /\ SameLower(k, j) /\ SameLoop(k, j)
    BY <2>1 DEF LoadCompanionsEffect
  <2> QED
    BY <1>4, <2>2, ForwardOther DEF SameLoop
<1>6. CASE InstallNext(c)
  <2>1. InstallNextEffect(c, j, f)
    BY <1>1, <1>2, <1>6, InstallNextStep
  <2>2. PICK k \in Procs : proc' = [proc EXCEPT ![c] = k] /\ SameLoop(k, j)
    BY ZenonT(40), <2>1 DEF InstallNextEffect
  <2> QED
    BY <1>4, <2>2, ForwardOther DEF SameLoop
<1>7. CASE ReadLock(c)
  <2>1. ReadLockEffect(c, j, f)
    BY <1>1, <1>2, <1>7, ReadLockStep
  <2>2. CASE Fail(c)
    BY <2>2, ForwardFail
  <2>3. CASE ~Fail(c)
    <3>1. PICK k \in Procs : proc' = [proc EXCEPT ![c] = k] /\ k.mode = j.mode
      BY <2>1, <2>3 DEF ReadLockEffect
    <3> QED
      BY <1>4, <3>1, ForwardOther
  <2> QED
    BY <2>2, <2>3
<1> QED
  BY <1>5, <1>6, <1>7

LEMMA ForwardLock ==
  ASSUME Alone, ClientInv, ForwardInv, NEW c \in Clients, CreateLock(c) \/ WriteLock(c)
  PROVE  ForwardInv'
<1>1. PICK j : j = proc[c]
  OBVIOUS
<1>2. CASE CreateLock(c)
  <2>1. j.pc = "lockCreate" /\ lock' = Torn
    BY <1>1, <1>2, CreateLockStep
  <2>2. PICK k \in Procs :
          /\ proc' = [proc EXCEPT ![c] = k]
          /\ k.pc = "lockWrite" /\ k.stack = j.stack /\ SameLoop(k, j)
    BY <1>1, <1>2, CreateLockStep
  <2>3. k.mode = "upgrade" => ~Nested(k)
    <3>1. j.mode = "upgrade" => ~Nested(j)
      BY <1>1, <2>1, CommandFacts DEF CommandOK, Shape
    <3> QED
      BY <2>2, <3>1 DEF SameLoop, Nested
  <2>4. Forward(k)'
    BY <2>1, <2>3 DEF Forward, Readable
  <2> QED
    BY <2>2, <2>4, ForwardTo
<1>3. CASE WriteLock(c)
  <2>1. WriteLockEffect(c, j)
    BY <1>1, <1>3, WriteLockStep
  <2>2. CASE proc' = [proc EXCEPT ![c] = Idle]
    BY <2>2, ForwardFail DEF Fail, Step
  <2>3. CASE proc' # [proc EXCEPT ![c] = Idle]
    <3>1. PICK k \in Procs : proc' = [proc EXCEPT ![c] = k] /\ k.mode = "install"
      BY <2>1, <2>3 DEF WriteLockEffect
    <3> QED
      BY <3>1, ForwardOther
  <2> QED
    BY <2>2, <2>3
<1> QED
  BY <1>2, <1>3

(* What an upgrade has resolved, and its copy of the lock, are ahead of it. *)
LEMMA ForwardAlways ==
  ASSUME Alone
  PROVE  Spec => []ForwardInv
<1>1. Init => ForwardInv
  <2>1. Idle.mode # "upgrade"
    BY IdleFacts, AbsenceAssumption DEF Modes
  <2> QED
    BY <2>1 DEF Init, ForwardInv, Forward
<1>2. ClientInv /\ ForwardInv /\ [Next]_vars => ForwardInv'
  <2> SUFFICES ASSUME ClientInv, ForwardInv, [Next]_vars PROVE ForwardInv'
    OBVIOUS
  <2>1. ASSUME NEW p \in Packages, NEW v \in Versions, NEW k \in Contents, Publish(p, v, k)
        PROVE  ForwardInv'
    BY <2>1, ForwardUnmoved DEF Publish, files
  <2>2. ASSUME NEW c \in Clients, ApiFails(c) \/ AdapterFails(c) \/ Crash(c)
        PROVE  ForwardInv'
    BY <2>2, ForwardFail DEF ApiFails, AdapterFails, Crash
  <2>3. ASSUME NEW c \in Clients, Local(c) PROVE ForwardInv'
    BY <2>3, ForwardLoop, ForwardVisit, ForwardSave, ForwardNested, ForwardLock DEF Local
  <2>4. CASE UNCHANGED vars
    BY <2>4, ForwardUnmoved DEF vars, files
  <2> QED
    BY <2>1, <2>2, <2>3, <2>4, ForwardRun, ForwardResolve, ForwardFetchTool DEF Next
<1> QED
  BY <1>1, <1>2, ClientInvariant, PTL DEF Spec

(* One command at a time: an upgrade has no pin to lose, to lower or to     *)
(* take over a major version, whatever is released, fails or is interrupted *)
(* while it visits the entries.                                             *)
THEOREM UpgradesMoveForward ==
  ASSUME Alone
  PROVE  Spec => []UpgradeOnlyMovesForward
<1>1. ForwardInv => UpgradeOnlyMovesForward
  BY DEF ForwardInv, Forward, Ahead, UpgradeOnlyMovesForward
<1> QED
  BY <1>1, ForwardAlways, PTL

-----------------------------------------------------------------------------
(***************************************************************************)
(* A bundle is pinned behind its members: those of the version installed   *)
(* that are not to install any more are pinned, or are the install on top  *)
(* of the bundle.  An upgrade moves the pin on without them.               *)
(***************************************************************************)
MemberDone(l, q) ==
  /\ l[q.pkg] # None
  /\ Kind[q.pkg] # "bundle" => \E e \in applied : e[1] = q.pkg /\ e[2] \in q.spec
Installed(l, b, v) == \A i \in DOMAIN Includes[b][v] : MemberDone(l, Includes[b][v][i])
Moved(b, v, u) ==
  v # u => v < u /\ Major[v] = Major[u] /\ \E e \in applied : e[1] = b /\ e[2] = u
BundleOK(l, b) == \E v \in Versions : Installed(l, b, v) /\ Moved(b, v, l[b].version)
BundlesOK(l) == \A b \in Pinned(l) : Kind[b] = "bundle" => BundleOK(l, b)

(* The lock once a command has finished what it is writing.                 *)
Writing(j) == j.pc \in {"lockCreate", "lockWrite"}
Current(j) == IF Writing(j) THEN j.lk ELSE IF Readable(lock) THEN lock ELSE NoPins

Pending(j) ==
  j.pc \in {"resolve", "tool", "binary", "binaryWrite", "apply", "harness", "write", "companions"}
Above(j, x, q) == x > 1 /\ j.stack[x - 1].pkg = q.pkg /\ j.stack[x - 1].spec = q.spec
IncludesOf(f) == Includes[f.pkg][f.version]
CoveredAt(j, x, f) ==
  Kind[f.pkg] = "bundle" =>
    /\ f.version \in Versions
    /\ \A i \in DOMAIN IncludesOf(f) \ f.more :
         MemberDone(Current(j), IncludesOf(f)[i]) \/ Above(j, x, IncludesOf(f)[i])
Covered(j, x) == CoveredAt(j, x, j.stack[x])

InOrder(j) ==
  /\ BundlesOK(Current(j))
  /\ j.mode \in {"frozen", "upgrade"} => BundlesOK(j.lk)
  /\ \A x \in 1 .. Len(j.stack) : x > 1 \/ ~Pending(j) => Covered(j, x)
  /\ j.pc = "lockWrite" => lock = Torn
  /\ Writing(j) /\ Nested(j) => j.lk[Head(j.stack).pkg] # None
BundleInv ==
  /\ Readable(lock) => BundlesOK(lock)
  /\ \A c \in Clients : InOrder(proc[c])

LEMMA MembersOf ==
  ASSUME NEW b \in Packages, NEW v \in Versions, NEW i \in DOMAIN Includes[b][v]
  PROVE  Includes[b][v][i] \in Requests /\ Includes[b][v][i].pkg \in Packages
<1>1. PICK s \in Seq(Requests) : s = Includes[b][v]
  BY MembersAssumption
<1>2. s[i] \in Requests
  BY <1>1
<1> QED
  BY <1>1, <1>2 DEF Requests

(* More pins and more applied versions do a member no harm.                 *)
LEMMA MemberStays ==
  ASSUME applied \subseteq applied', NEW l, NEW m,
         \A p \in Packages : l[p] # None => m[p] # None,
         NEW q, q.pkg \in Packages, MemberDone(l, q)
  PROVE  MemberDone(m, q)'
BY DEF MemberDone

LEMMA InstalledStays ==
  ASSUME applied \subseteq applied', NEW l, NEW m,
         \A p \in Packages : l[p] # None => m[p] # None,
         NEW b \in Packages, NEW v \in Versions, Installed(l, b, v)
  PROVE  Installed(m, b, v)'
<1>1. ASSUME NEW i \in DOMAIN Includes[b][v] PROVE MemberDone(m, Includes[b][v][i])'
  <2>1. PICK q : q = Includes[b][v][i] /\ q.pkg \in Packages
    BY MembersOf
  <2>2. MemberDone(l, q)
    BY <2>1 DEF Installed
  <2>3. MemberDone(m, q)'
    BY <2>1, <2>2, MemberStays
  <2> QED
    BY <2>1, <2>3
<1> QED
  BY <1>1 DEF Installed

LEMMA BundleStaysOK ==
  ASSUME applied \subseteq applied', NEW l, NEW m,
         \A p \in Packages : l[p] # None => m[p] # None,
         NEW b \in Packages, m[b].version = l[b].version, BundleOK(l, b)
  PROVE  BundleOK(m, b)'
<1>1. PICK v \in Versions : Installed(l, b, v) /\ Moved(b, v, l[b].version)
  BY DEF BundleOK
<1>2. Installed(m, b, v)'
  BY <1>1, InstalledStays
<1>3. Moved(b, v, m[b].version)'
  BY <1>1 DEF Moved
<1> QED
  BY <1>2, <1>3 DEF BundleOK

LEMMA BundlesStay ==
  ASSUME applied \subseteq applied', NEW l, BundlesOK(l)
  PROVE  BundlesOK(l)'
<1>1. ASSUME NEW b \in Pinned(l), Kind[b] = "bundle" PROVE BundleOK(l, b)'
  <2>1. b \in Packages /\ BundleOK(l, b)
    BY <1>1 DEF Pinned, BundlesOK
  <2> QED
    BY <2>1, BundleStaysOK
<1> QED
  BY <1>1 DEF BundlesOK, Pinned

(* The same lock under another name.                                        *)
LEMMA SameBundles ==
  ASSUME NEW l, BundlesOK(l)', NEW j, Current(j)' = l
  PROVE  BundlesOK(Current(j))'
BY DEF BundlesOK, BundleOK, Installed, Moved, MemberDone, Pinned

LEMMA NoPinsOK == BundlesOK(NoPins)
BY NoPinsFacts DEF BundlesOK

(* A step of the one process that leaves the lock and the command in order. *)
LEMMA BundleTo ==
  ASSUME Alone, ClientInv, NEW c \in Clients, NEW k, proc' = [proc EXCEPT ![c] = k],
         InOrder(k)', (Readable(lock) => BundlesOK(lock))'
  PROVE  BundleInv'
<1>1. ASSUME NEW d \in Clients PROVE InOrder(proc[d])'
  <2>1. PICK q : q = proc'[d]
    OBVIOUS
  <2>2. q = k
    BY <2>1, AloneStep
  <2> QED
    BY <2>1, <2>2
<1> QED
  BY <1>1 DEF BundleInv

LEMMA SameLockOK ==
  ASSUME BundleInv, lock' = lock, applied \subseteq applied'
  PROVE  (Readable(lock) => BundlesOK(lock))'
<1>1. PICK l : l = lock
  OBVIOUS
<1>2. Readable(l) => BundlesOK(l)'
  BY <1>1, BundlesStay DEF BundleInv
<1>3. lock' = l
  BY <1>1
<1> QED
  BY <1>2, <1>3 DEF Readable

(* A command that has no install below another, and no members to install.  *)
LEMMA InOrderFlat ==
  ASSUME (Readable(lock) => BundlesOK(lock))', NEW k, ~Writing(k),
         \A x \in 1 .. Len(k.stack) : ~(x > 1 \/ ~Pending(k)),
         k.mode \in {"frozen", "upgrade"} => BundlesOK(k.lk)'
  PROVE  InOrder(k)'
<1>1. PICK l : l = lock'
  OBVIOUS
<1>2. PICK m : m = IF Readable(l) THEN l ELSE NoPins
  OBVIOUS
<1>3. BundlesOK(m)'
  <2>1. CASE Readable(l)
    <3>1. BundlesOK(l)'
      BY <1>1, <2>1 DEF Readable, BundlesOK, BundleOK, Installed, Moved, MemberDone, Pinned
    <3> QED
      BY <1>2, <2>1, <3>1
  <2>2. CASE ~Readable(l)
    <3>1. Pinned(NoPins) = {}
      BY NoPinsFacts
    <3> QED
      BY <1>2, <2>2, <3>1 DEF BundlesOK, Pinned
  <2> QED
    BY <2>1, <2>2
<1>4. Current(k)' = m
  BY <1>1, <1>2 DEF Current, Readable, Writing
<1>5. BundlesOK(Current(k))'
  BY <1>3, <1>4, SameBundles
<1>6. k.pc # "lockWrite"
  BY DEF Writing
<1> QED
  BY <1>5, <1>6 DEF InOrder

LEMMA BundleIdle ==
  ASSUME Alone, ClientInv, BundleInv, NEW c \in Clients, Fail(c),
         lock' = lock, applied \subseteq applied'
  PROVE  BundleInv'
<1>1. (Readable(lock) => BundlesOK(lock))'
  BY SameLockOK
<1>2. /\ Len(Idle.stack) = 0 /\ ~Writing(Idle) /\ Idle.mode \notin {"frozen", "upgrade"}
      /\ 1 .. 0 = {}
  BY IdleFacts, AbsenceAssumption DEF Writing, Modes
<1>3. InOrder(Idle)'
  BY <1>1, <1>2, InOrderFlat
<1> QED
  BY <1>1, <1>3, BundleTo DEF Fail, Step

LEMMA BundleUnmoved ==
  ASSUME BundleInv, UNCHANGED <<lock, proc, applied>>
  PROVE  BundleInv'
<1>1. \A l, q : MemberDone(l, q)' <=> MemberDone(l, q)
  BY DEF MemberDone
<1>2. \A l : BundlesOK(l)' <=> BundlesOK(l)
  BY DEF BundlesOK, BundleOK, Installed, Moved, MemberDone, Pinned
<1>3. \A j : Current(j)' = Current(j)
  BY DEF Current, Readable, Writing
<1>4. \A j, x : Covered(j, x)' <=> Covered(j, x)
  BY <1>1, <1>3 DEF Covered, CoveredAt, Above
<1>5. \A j : InOrder(j)' <=> InOrder(j)
  BY <1>2, <1>3, <1>4 DEF InOrder, Pending, Writing, Nested
<1>6. (Readable(lock) => BundlesOK(lock))'
  BY SameLockOK
<1>7. ASSUME NEW c \in Clients PROVE InOrder(proc[c])'
  <2>1. PICK j : j = proc[c]
    OBVIOUS
  <2>2. InOrder(j)'
    BY <1>5, <2>1 DEF BundleInv
  <2> QED
    BY <2>1, <2>2
<1> QED
  BY <1>6, <1>7 DEF BundleInv

(* The innermost install goes on, or its members are yet to be installed.   *)
SameHead(k, j) ==
  /\ Nested(k) <=> Nested(j)
  /\ Nested(k) => Head(k.stack).pkg = Head(j.stack).pkg /\ Head(k.stack).spec = Head(j.stack).spec
  /\ SameLower(k, j)
FreshHead(f) ==
  Kind[f.pkg] = "bundle" => f.version \in Versions /\ f.more = DOMAIN IncludesOf(f)

LEMMA InOrderStays ==
  ASSUME BundleInv, NEW j \in Procs, NEW k \in Procs, InOrder(j),
         lock' = lock, applied \subseteq applied', ~Writing(j), ~Writing(k),
         SameLoop(k, j), SameHead(k, j), Pending(k) \/ (Nested(k) => FreshHead(Head(k.stack)))
  PROVE  InOrder(k)'
<1>1. PICK l : l = Current(j)
  OBVIOUS
<1>2. Current(k)' = l /\ Current(k) = l
  BY <1>1 DEF Current, Writing, Readable
<1>3. BundlesOK(l)' /\ (k.mode \in {"frozen", "upgrade"} => BundlesOK(k.lk)')
  BY <1>1, BundlesStay DEF InOrder, SameLoop
<1>4. BundlesOK(Current(k))'
  BY <1>2, <1>3, SameBundles
<1>5. PICK s \in Seq(Frames) : s = j.stack
  BY DEF Procs
<1>6. PICK t \in Seq(Frames) : t = k.stack
  BY DEF Procs
<1>7. /\ Len(t) = Len(s) /\ Len(s) \in Nat /\ \A x \in 2 .. Len(t) : t[x] = s[x]
      /\ Len(t) > 0 => t[1].pkg = s[1].pkg /\ t[1].spec = s[1].spec
  <2>1. Len(t) = Len(s) /\ Len(s) \in Nat /\ \A x \in 2 .. Len(t) : t[x] = s[x]
    BY <1>5, <1>6 DEF SameHead, SameLower
  <2>2. ASSUME Len(t) > 0 PROVE t[1].pkg = s[1].pkg /\ t[1].spec = s[1].spec
    <3>1. t # << >> /\ s # << >> /\ Head(t) = t[1] /\ Head(s) = s[1]
      BY <2>1, <2>2
    <3> QED
      BY <1>5, <1>6, <3>1 DEF SameHead, Nested
  <2> QED
    BY <2>1, <2>2
<1>8. ASSUME NEW x \in 1 .. Len(t), x > 1 \/ ~Pending(k) PROVE Covered(k, x)'
  <2>1. CASE x = 1
    <3>1. t # << >> /\ Head(t) = t[1]
      BY <1>7, <1>8
    <3>2. FreshHead(t[1])
      BY <1>6, <1>8, <2>1, <3>1 DEF Nested
    <3> QED
      BY <1>6, <2>1, <3>2 DEF Covered, CoveredAt, FreshHead
  <2>2. CASE x # 1
    <3>1. x \in 1 .. Len(s) /\ x > 1 /\ t[x] = s[x] /\ x - 1 \in 1 .. Len(s)
      BY <1>7, <1>8, <2>2
    <3>2. t[x - 1].pkg = s[x - 1].pkg /\ t[x - 1].spec = s[x - 1].spec
      <4>1. CASE x = 2
        BY <1>7, <3>1, <4>1
      <4>2. CASE x # 2
        BY <1>7, <3>1, <4>2
      <4> QED
        BY <4>1, <4>2
    <3>3. PICK b \in Frames : b = s[x] /\ b.pkg \in Packages
      <4>1. s[x] \in Frames
        BY <3>1
      <4> QED
        BY <4>1 DEF Frames
    <3>5. CoveredAt(j, x, b)
      BY <1>5, <3>1, <3>3 DEF InOrder, Covered
    <3>4. ASSUME Kind[b.pkg] = "bundle", NEW i \in DOMAIN IncludesOf(b) \ b.more
          PROVE  (MemberDone(Current(k), IncludesOf(b)[i]) \/ Above(k, x, IncludesOf(b)[i]))'
      <4>1. PICK q : q = IncludesOf(b)[i] /\ q.pkg \in Packages
        BY <3>3, <3>4, <3>5, MembersOf DEF CoveredAt, IncludesOf
      <4>2. MemberDone(l, q) \/ Above(j, x, q)
        BY <1>1, <3>4, <3>5, <4>1 DEF CoveredAt
      <4>3. CASE MemberDone(l, q)
        <5>1. MemberDone(l, q)'
          BY <4>1, <4>3, MemberStays
        <5> QED
          BY <1>2, <4>1, <5>1 DEF MemberDone
      <4>4. CASE Above(j, x, q)
        BY <1>5, <1>6, <3>2, <4>1, <4>4 DEF Above
      <4> QED
        BY <4>2, <4>3, <4>4
    <3> QED
      BY <1>6, <3>1, <3>3, <3>4, <3>5 DEF Covered, CoveredAt, IncludesOf
  <2> QED
    BY <2>1, <2>2
<1>9. k.pc # "lockWrite"
  BY DEF Writing
<1> QED
  BY <1>3, <1>4, <1>6, <1>8, <1>9 DEF InOrder

LEMMA BundleStays ==
  ASSUME Alone, ClientInv, BundleInv, NEW c \in Clients, NEW j, j = proc[c], NEW k \in Procs,
         proc' = [proc EXCEPT ![c] = k],
         lock' = lock, applied \subseteq applied', ~Writing(j), ~Writing(k),
         SameLoop(k, j), SameHead(k, j), Pending(k) \/ (Nested(k) => FreshHead(Head(k.stack)))
  PROVE  BundleInv'
<1>1. j \in Procs /\ InOrder(j)
  BY CommandFacts DEF BundleInv
<1>2. InOrder(k)'
  BY <1>1, InOrderStays
<1>3. (Readable(lock) => BundlesOK(lock))'
  BY SameLockOK
<1> QED
  BY <1>2, <1>3, BundleTo

LEMMA SameStackHead ==
  ASSUME NEW j, NEW k, k.stack = j.stack
  PROVE  SameHead(k, j)
BY DEF SameHead, SameLower, Nested

LEMMA BundleRun ==
  ASSUME Alone, ClientInv, BundleInv, NEW c \in Clients, Run(c)
  PROVE  BundleInv'
<1>1. ASSUME NEW p \in Packages, NEW spec \in Specs, Install(c, [pkg |-> p, spec |-> spec])
      PROVE  BundleInv'
  <2>1. PICK q : q = [pkg |-> p, spec |-> spec]
    OBVIOUS
  <2>2. q \in Requests
    BY <2>1, ClientVersionsAssumption DEF Requests
  <2>3. PICK k \in Procs :
          /\ proc' = [proc EXCEPT ![c] = k] /\ Quietly
          /\ k.pc = "resolve" /\ k.mode = "install" /\ k.changed = FALSE
          /\ k.stack = <<Frame(q, FALSE)>>
    BY <1>1, <2>1, <2>2, InstallStep
  <2>4. Len(k.stack) = 1
    BY <2>3
  <2>5. (Readable(lock) => BundlesOK(lock))'
    BY <2>3, SameLockOK DEF Quietly, files
  <2>7. \A x \in 1 .. Len(k.stack) : ~(x > 1 \/ ~Pending(k))
    BY <2>3, <2>4 DEF Pending
  <2>6. InOrder(k)'
    BY <2>3, <2>5, <2>7, InOrderFlat, AbsenceAssumption DEF Writing
  <2> QED
    BY <2>3, <2>5, <2>6, BundleTo
<1>2. ASSUME NEW mode \in {"frozen", "upgrade"},
             NEW entries \in {Listed} \cup {{p} : p \in Listed}, OverLock(c, mode, entries)
      PROVE  BundleInv'
  <2>1. entries \in SUBSET Listed
    BY <1>2
  <2>2. Quietly /\ lock \in Locks /\ OverLockEffect(c, mode, entries)
    BY <1>2, <2>1, OverLockStep
  <2>3. PICK k \in Procs :
          /\ proc' = [proc EXCEPT ![c] = k]
          /\ k.pc = "next" /\ k.mode = mode /\ k.changed = FALSE /\ k.stack = << >>
          /\ k.lk = lock /\ k.targets = entries /\ k.todo = entries
    BY <2>2 DEF OverLockEffect
  <2>4. applied \subseteq applied' /\ lock' = lock
    BY <2>2 DEF Quietly, files
  <2>5. (Readable(lock) => BundlesOK(lock))'
    BY <2>4, SameLockOK
  <2>6. BundlesOK(k.lk)'
    <3>1. BundlesOK(k.lk)
      BY <2>2, <2>3, AbsenceAssumption DEF BundleInv, Readable
    <3> QED
      BY <2>4, <3>1, BundlesStay
  <2>7. InOrder(k)'
    BY <2>3, <2>5, <2>6, InOrderFlat DEF Writing
  <2> QED
    BY <2>3, <2>5, <2>7, BundleTo
<1>3. ASSUME NEW n \in Names, Uninstall(c, n) PROVE BundleInv'
  <2>1. PICK k \in Procs :
        /\ proc' = [proc EXCEPT ![c] = k] /\ Quietly
        /\ k.pc = "harness" /\ k.mode = "uninstall" /\ k.changed = FALSE /\ k.stack = << >>
        /\ k.name = n /\ k.entry = None /\ k.st = state
        /\ k.left = {h \in Harnesses : <<n, h>> \in state}
    BY ONLY ZenonT(40), ClientInv, c \in Clients, n \in Names, <1>3, UninstallStep
  <2>2. (Readable(lock) => BundlesOK(lock))'
    BY <2>1, SameLockOK DEF Quietly, files
  <2>3. InOrder(k)'
    BY <2>1, <2>2, InOrderFlat DEF Writing
  <2> QED
    BY <2>1, <2>2, <2>3, BundleTo
<1> QED
  BY <1>1, <1>2, <1>3 DEF Run

LEMMA BundleLoop ==
  ASSUME Alone, ClientInv, BundleInv, NEW c \in Clients, NextEntry(c) \/ LoopDone(c)
  PROVE  BundleInv'
<1>1. PICK j : j = proc[c]
  OBVIOUS
<1>2. InOrder(j) /\ j \in Procs /\ CommandOK(j)
  BY <1>1, CommandFacts DEF BundleInv
<1>3. lock' = lock /\ applied \subseteq applied' /\ j.pc = "next"
  BY <1>1, NextEntryStep, LoopDoneStep DEF Quietly, files
<1>4. j.mode \in {"frozen", "upgrade"} /\ BundlesOK(j.lk)' /\ ~Nested(j)
  BY <1>2, <1>3, BundlesStay DEF CommandOK, Shape, InOrder
<1>5. (Readable(lock) => BundlesOK(lock))'
  BY <1>3, SameLockOK
<1>6. CASE Fail(c)
  BY <1>3, <1>6, BundleIdle
<1>7. CASE NextEntry(c) /\ ~Fail(c)
  <2>1. NextEntryEffect(c, j)
    BY <1>1, <1>7, NextEntryStep
  <2>2. PICK p \in j.todo, k \in Procs :
          /\ proc' = [proc EXCEPT ![c] = k]
          /\ k.pc = "resolve" /\ k.mode = j.mode /\ k.changed = j.changed
          /\ k.targets = j.targets /\ k.todo = j.todo \ {p} /\ k.lk = j.lk
          /\ Asked(j, p) \in SUBSET Versions
          /\ k.stack = <<Frame([pkg |-> p, spec |-> Asked(j, p)], FALSE)>>
    BY <2>1 DEF NextEntryEffect
  <2>3. Len(k.stack) = 1
    BY <2>2
  <2>5. \A x \in 1 .. Len(k.stack) : ~(x > 1 \/ ~Pending(k))
    BY <2>2, <2>3 DEF Pending
  <2>4. InOrder(k)'
    <3>1. k.mode \in {"frozen", "upgrade"} => BundlesOK(k.lk)'
      BY <1>4, <2>2
    <3> QED
      BY <1>5, <2>2, <2>5, <3>1, InOrderFlat DEF Writing
  <2> QED
    BY <1>5, <2>2, <2>4, BundleTo
<1>8. CASE LoopDone(c) /\ ~Fail(c)
  <2>1. PICK k \in Procs :
          /\ proc' = [proc EXCEPT ![c] = k] /\ j.changed /\ j.pc = "next" /\ Quietly
          /\ k.pc = "lockCreate" /\ k.stack = j.stack
          /\ SameLoop(k, j) /\ SameEntry(k, j) /\ SameVisit(k, j)
    BY <1>1, <1>8, LoopDoneStep
  <2>2. k.stack = << >> /\ k.lk = j.lk /\ ~Nested(k) /\ Len(k.stack) = 0
    BY <1>4, <2>1 DEF Nested, SameLoop
  <2>3. Current(k)' = j.lk
    BY <2>1, <2>2 DEF Current, Writing
  <2>4. BundlesOK(Current(k))' /\ BundlesOK(k.lk)'
    BY <1>4, <2>2, <2>3, SameBundles
  <2>5. InOrder(k)'
    BY <2>1, <2>2, <2>4 DEF InOrder
  <2> QED
    BY <1>5, <2>1, <2>5, BundleTo
<1> QED
  BY <1>6, <1>7, <1>8

LEMMA BundleResolve ==
  ASSUME Alone, ClientInv, BundleInv, NEW c \in Clients, Resolve(c)
  PROVE  BundleInv'
<1>1. PICK j : j = proc[c]
  OBVIOUS
<1>2. PICK f : f = Head(j.stack)
  OBVIOUS
<1>3. /\ InOrder(j) /\ j \in Procs /\ LoopOK(j)
      /\ j.pc = "resolve" /\ Nested(j) /\ Quietly /\ ResolveEffect(c, j, f)
  BY <1>1, <1>2, CommandFacts, LoopFacts, ResolveStep DEF BundleInv
<1>4. lock' = lock /\ applied \subseteq applied' /\ ~Writing(j)
  BY <1>3 DEF Quietly, files, Writing
<1>5. CASE Fail(c)
  BY <1>4, <1>5, BundleIdle
<1>6. CASE j.mode = "upgrade" /\ proc' = [proc EXCEPT ![c] = Popped(j)]
  <2>1. Tail(j.stack) = << >>
    BY <1>3, <1>6 DEF LoopOK
  <2>2. PICK k : k = Popped(j)
    OBVIOUS
  <2>3. k \in Procs /\ k.pc = "next" /\ k.stack = << >> /\ SameLoop(k, j)
    BY <1>3, <1>6, <2>1, <2>2, PoppedFacts
  <2>4. (Readable(lock) => BundlesOK(lock))' /\ BundlesOK(k.lk)'
    BY <1>3, <1>4, <1>6, <2>3, SameLockOK, BundlesStay DEF InOrder, SameLoop
  <2>5. InOrder(k)'
    BY <2>3, <2>4, InOrderFlat DEF Writing
  <2> QED
    BY <1>6, <2>2, <2>4, <2>5, BundleTo
<1>7. CASE ~Fail(c) /\ ~(j.mode = "upgrade" /\ proc' = [proc EXCEPT ![c] = Popped(j)])
  <2>1. PICK k \in Procs, g \in Frames :
          /\ proc' = [proc EXCEPT ![c] = k]
          /\ g.pkg = f.pkg /\ g.spec = f.spec /\ g.more = f.more
          /\ g.version \in f.spec /\ g.version \in Versions
          /\ g.sha = published[f.pkg][g.version] /\ g.sha \in Contents
          /\ j.mode = "upgrade" => ~(g.version <= j.lk[f.pkg].version)
          /\ k.pc = "tool" /\ Nested(k) /\ Head(k.stack) = g
          /\ Tail(k.stack) = Tail(j.stack) /\ SameLower(k, j) /\ SameLoop(k, j)
    BY <1>3, <1>7 DEF ResolveEffect
  <2>2. SameHead(k, j) /\ ~Writing(k) /\ Pending(k)
    BY <1>2, <1>3, <2>1 DEF SameHead, Writing, Pending
  <2> QED
    BY <1>1, <1>4, <2>1, <2>2, BundleStays
<1> QED
  BY <1>5, <1>6, <1>7

LEMMA BundleFetchTool ==
  ASSUME Alone, ClientInv, BundleInv, NEW c \in Clients, FetchTool(c)
  PROVE  BundleInv'
<1>1. PICK j : j = proc[c]
  OBVIOUS
<1>2. PICK f : f = Head(j.stack)
  OBVIOUS
<1>3. j.pc = "tool" /\ Nested(j) /\ Quietly /\ FetchToolEffect(c, j, f) /\ CommandOK(j)
  BY <1>1, <1>2, FetchToolStep, CommandFacts
<1>4. lock' = lock /\ applied \subseteq applied' /\ ~Writing(j) /\ f.version \in Versions
  BY <1>2, <1>3 DEF Quietly, files, Writing, CommandOK, Knows, Resolved
<1>5. CASE Fail(c)
  BY <1>4, <1>5, BundleIdle
<1>6. CASE ~Fail(c) /\ j.mode = "install" /\ Kind[f.pkg] = "bundle"
  <2>1. PICK k \in Procs, g \in Frames :
          /\ proc' = [proc EXCEPT ![c] = k]
          /\ g.pkg = f.pkg /\ g.spec = f.spec /\ g.version = f.version /\ g.sha = f.sha
          /\ g.more = DOMAIN Includes[f.pkg][f.version]
          /\ k.pc = "more" /\ Nested(k) /\ Head(k.stack) = g
          /\ Tail(k.stack) = Tail(j.stack) /\ SameLower(k, j) /\ SameLoop(k, j)
    BY <1>3, <1>6 DEF FetchToolEffect
  <2>2. SameHead(k, j) /\ ~Writing(k) /\ FreshHead(Head(k.stack))
    BY <1>2, <1>3, <1>4, <2>1 DEF SameHead, Writing, FreshHead, IncludesOf
  <2> QED
    BY <1>1, <1>4, <2>1, <2>2, BundleStays
<1>7. CASE ~Fail(c) /\ ~(j.mode = "install" /\ Kind[f.pkg] = "bundle")
  <2>1. PICK k \in Procs :
          /\ proc' = [proc EXCEPT ![c] = k]
          /\ k.pc = AfterTool(j) /\ k.stack = j.stack /\ SameLoop(k, j)
          /\ k.name = NameOf[f.pkg]
          /\ k.entry = [pkg |-> f.pkg, version |-> f.version,
                        content |-> published[f.pkg][f.version]]
    BY <1>3, <1>7 DEF FetchToolEffect
  <2>2. SameHead(k, j) /\ ~Writing(k) /\ Pending(k)
    BY <2>1, SameStackHead DEF Writing, Pending, AfterTool
  <2> QED
    BY <1>1, <1>4, <2>1, <2>2, BundleStays
<1> QED
  BY <1>5, <1>6, <1>7

LEMMA BundleVisit ==
  ASSUME Alone, ClientInv, BundleInv, NEW c \in Clients,
         CreateBinary(c) \/ WriteBinary(c) \/ LoadState(c) \/ ReadConfig(c) \/ WriteConfig(c)
  PROVE  BundleInv'
<1>1. PICK j : j = proc[c]
  OBVIOUS
<1>2. CASE CreateBinary(c) \/ WriteBinary(c)
  <2>1. /\ UNCHANGED <<lock, applied>> /\ j.pc \in {"binary", "binaryWrite"}
        /\ BinaryEffect(c, j)
    BY <1>1, <1>2, BinaryStep
  <2>2. PICK k \in Procs :
          /\ proc' = [proc EXCEPT ![c] = k] /\ k.stack = j.stack
          /\ SameLoop(k, j) /\ SameEntry(k, j)
          /\ \/ k.pc = "binaryWrite" /\ bins' = [bins EXCEPT ![BinOf[j.entry.pkg]] = Torn]
             \/ k.pc = "apply" /\ bins' = [bins EXCEPT ![BinOf[j.entry.pkg]] = j.entry]
    BY <2>1 DEF BinaryEffect
  <2>3. SameHead(k, j) /\ ~Writing(k) /\ Pending(k) /\ ~Writing(j)
    BY <2>1, <2>2, SameStackHead DEF Writing, Pending
  <2> QED
    BY <1>1, <2>1, <2>2, <2>3, BundleStays
<1>3. CASE LoadState(c)
  <2>1. j.pc = "apply" /\ Quietly
    BY <1>1, <1>3, LoadStateStep
  <2>2. PICK k \in Procs :
          /\ proc' = [proc EXCEPT ![c] = k] /\ k.pc = "harness" /\ k.stack = j.stack
          /\ SameLoop(k, j) /\ SameEntry(k, j) /\ k.st = state /\ k.left = Harnesses
    BY <1>1, <1>3, LoadStateStep
  <2>3. /\ SameHead(k, j) /\ ~Writing(k) /\ Pending(k) /\ ~Writing(j)
        /\ lock' = lock /\ applied \subseteq applied'
    BY <2>1, <2>2, SameStackHead DEF Writing, Pending, Quietly, files
  <2> QED
    BY <1>1, <2>2, <2>3, BundleStays
<1>4. CASE ReadConfig(c)
  <2>1. j.pc = "harness" /\ Quietly /\ ReadConfigEffect(c, j)
    BY <1>1, <1>4, ReadConfigStep
  <2>2. PICK h \in j.left, k \in Procs :
          /\ proc' = [proc EXCEPT ![c] = k] /\ k.stack = j.stack
          /\ SameLoop(k, j) /\ SameEntry(k, j) /\ h \in Harnesses
          /\ \/ /\ Materialises(j)
                /\ k.pc = "write" /\ k.harness = h /\ k.cfg = config[h] /\ k.cfg \in ConfigOf
                /\ k.left = j.left /\ k.st = j.st
             \/ /\ ~Materialises(j)
                /\ k.pc = "harness" /\ k.left = j.left \ {h}
                /\ k.st = Marked(j, h)
    BY <2>1 DEF ReadConfigEffect
  <2>3. /\ SameHead(k, j) /\ ~Writing(k) /\ Pending(k) /\ ~Writing(j)
        /\ lock' = lock /\ applied \subseteq applied'
    BY <2>1, <2>2, SameStackHead DEF Writing, Pending, Quietly, files
  <2> QED
    BY <1>1, <2>2, <2>3, BundleStays
<1>5. CASE WriteConfig(c)
  <2>1. UNCHANGED <<lock, applied>> /\ j.pc = "write" /\ WriteConfigEffect(c, j)
    BY <1>1, <1>5, WriteConfigStep
  <2>2. PICK k \in Procs :
          /\ proc' = [proc EXCEPT ![c] = k] /\ k.stack = j.stack
          /\ SameLoop(k, j) /\ SameEntry(k, j)
          /\ k.pc = "harness" /\ k.left = j.left \ {j.harness}
          /\ k.st = Marked(j, j.harness)
    BY <2>1 DEF WriteConfigEffect
  <2>3. SameHead(k, j) /\ ~Writing(k) /\ Pending(k) /\ ~Writing(j)
    BY <2>1, <2>2, SameStackHead DEF Writing, Pending
  <2> QED
    BY <1>1, <2>1, <2>2, <2>3, BundleStays
<1> QED
  BY <1>2, <1>3, <1>4, <1>5

LEMMA BundleSave ==
  ASSUME Alone, ClientInv, ForwardInv, BundleInv, NEW c \in Clients, SaveState(c)
  PROVE  BundleInv'
<1>1. PICK j : j = proc[c]
  OBVIOUS
<1>2. PICK f : f = Head(j.stack)
  OBVIOUS
<1>3. /\ InOrder(j) /\ j \in Procs /\ LoopOK(j) /\ CommandOK(j) /\ Forward(j)
      /\ j.pc = "harness" /\ lock' = lock /\ SaveStateEffect(c, j, f)
      /\ applied' = IF j.entry = None THEN applied
                    ELSE applied \cup {<<j.entry.pkg, j.entry.version, j.entry.content>>}
  BY <1>1, <1>2, CommandFacts, LoopFacts, SaveStateStep DEF BundleInv, ForwardInv
<1>7. applied \subseteq applied'
  BY <1>3
<1>4. (Readable(lock) => BundlesOK(lock))'
  BY <1>3, <1>7, SameLockOK
<1>5. CASE proc' = [proc EXCEPT ![c] = Idle]
  BY <1>3, <1>5, <1>7, BundleIdle DEF Fail, Step
<1>6. CASE proc' # [proc EXCEPT ![c] = Idle]
  <2>1. PICK k \in Procs :
          /\ proc' = [proc EXCEPT ![c] = k] /\ Nested(j)
          /\ k.mode = j.mode /\ k.targets = j.targets /\ k.todo = j.todo
          /\ \/ /\ j.mode = "install" /\ k.pc = "companions" /\ k.stack = j.stack
                /\ k.lk = j.lk /\ k.changed = j.changed
             \/ /\ j.mode = "frozen" /\ k.pc = "next" /\ k.stack = << >>
                /\ k.lk = j.lk /\ k.changed = j.changed
             \/ /\ j.mode = "upgrade" /\ k.pc = "next" /\ k.stack = << >>
                /\ k.lk = Upserted(j.lk, f) /\ k.changed
    BY <1>3, <1>6 DEF SaveStateEffect
  <2>2. CASE j.mode = "install"
    <3>1. /\ SameHead(k, j) /\ SameLoop(k, j) /\ ~Writing(k) /\ Pending(k) /\ ~Writing(j)
      BY <1>3, <2>1, <2>2, SameStackHead DEF Writing, Pending, SameLoop
    <3> QED
      BY <1>1, <1>3, <1>7, <2>1, <3>1, BundleStays
  <2>3. CASE j.mode = "frozen"
    <3>1. k.lk = j.lk /\ k.stack = << >> /\ k.pc = "next"
      BY <2>1, <2>3
    <3>2. BundlesOK(k.lk)'
      BY <1>3, <1>7, <2>3, <3>1, BundlesStay DEF InOrder
    <3>3. InOrder(k)'
      BY <1>4, <3>1, <3>2, InOrderFlat DEF Writing
    <3> QED
      BY <1>4, <2>1, <3>3, BundleTo
  <2>4. CASE j.mode = "upgrade"
    <3>1. k.lk = Upserted(j.lk, f) /\ k.stack = << >> /\ k.pc = "next"
      BY <2>1, <2>4
    <3>2. PICK old \in Locks : old = j.lk
      BY <1>3 DEF Procs
    <3>3. PICK new : new = Upserted(old, f)
      OBVIOUS
    <3>4. f \in Frames /\ Resolved(f) /\ f.pkg \in Pinned(old)
      BY <1>2, <1>3, <2>1, <2>4, <3>2, TopFrame DEF CommandOK, Knows, LoopOK
    <3>5. /\ new \in Locks /\ new[f.pkg] = [version |-> f.version, sha |-> f.sha]
          /\ new[f.pkg] # None /\ f.pkg \in Packages
          /\ new[f.pkg].version = f.version /\ new[f.pkg].sha = f.sha
          /\ \A p \in Packages : p # f.pkg => new[p] = old[p]
          /\ Pinned(new) = Pinned(old) \cup {f.pkg}
      BY ONLY <3>2, <3>3, <3>4, UpsertedFacts
    <3>6. BundlesOK(old)
      BY <1>3, <2>4, <3>2 DEF InOrder
    <3>7. \A p \in Packages : old[p] # None => new[p] # None
      BY <3>5
    <3>10. ASSUME NEW b \in Pinned(new), Kind[b] = "bundle" PROVE BundleOK(new, b)'
      <4>1. b \in Packages /\ b \in Pinned(old) /\ BundleOK(old, b)
        BY <3>4, <3>5, <3>6, <3>10 DEF Pinned, BundlesOK
      <4>2. CASE b # f.pkg
        <5>1. new[b].version = old[b].version
          BY <3>5, <4>1, <4>2
        <5> QED
          BY <1>7, <3>7, <4>1, <5>1, BundleStaysOK
      <4>3. CASE b = f.pkg
        <5>1. PICK v \in Versions : Installed(old, b, v) /\ Moved(b, v, old[b].version)
          BY <4>1 DEF BundleOK
        <5>2. Installed(new, b, v)'
          BY <1>7, <3>7, <4>1, <5>1, InstalledStays
        <5>3. /\ f.version > old[b].version /\ Major[f.version] = Major[old[b].version]
          BY <1>2, <1>3, <2>1, <2>4, <3>2, <3>4, <4>3 DEF Forward, Resolved
        <5>4. v \in Nat /\ f.version \in Nat /\ old[b].version \in Nat
          BY <3>4, <4>1, ClientVersionsAssumption
          DEF Pinned, Locks, Pins, Versions, Resolved
        <5>5. v < f.version /\ Major[v] = Major[f.version]
          BY <5>1, <5>3, <5>4 DEF Moved
        <5>6. \E e \in applied' : e[1] = b /\ e[2] = f.version
          <6>1. Carries(j, f)
            BY <1>2, <1>3, <2>1, <2>4, AbsenceAssumption DEF CommandOK, Shape, Applying, Modes
          <6>2. j.entry # None /\ j.entry.pkg = b /\ j.entry.version = f.version
            BY <4>3, <6>1, AbsenceAssumption DEF Carries
          <6>3. PICK e \in applied' : e = <<j.entry.pkg, j.entry.version, j.entry.content>>
            BY <1>3, <6>2
          <6> QED
            BY <6>2, <6>3
        <5>7. Moved(b, v, new[b].version)'
          BY <3>5, <4>3, <5>5, <5>6 DEF Moved
        <5> QED
          BY <5>2, <5>7 DEF BundleOK
      <4> QED
        BY <4>2, <4>3
    <3>8. BundlesOK(k.lk)'
      BY <3>1, <3>2, <3>3, <3>10 DEF BundlesOK, Pinned
    <3>9. InOrder(k)'
      BY <1>4, <3>1, <3>8, InOrderFlat DEF Writing
    <3> QED
      BY <1>4, <2>1, <3>9, BundleTo
  <2> QED
    BY <2>1, <2>2, <2>3, <2>4
<1> QED
  BY <1>5, <1>6

LEMMA BundleCompanions ==
  ASSUME Alone, ClientInv, BundleInv, NEW c \in Clients, LoadCompanions(c)
  PROVE  BundleInv'
<1>1. PICK j : j = proc[c]
  OBVIOUS
<1>2. PICK f : f = Head(j.stack)
  OBVIOUS
<1>3. j.pc = "companions" /\ Quietly /\ LoadCompanionsEffect(c, j, f) /\ CommandOK(j)
  BY <1>1, <1>2, LoadCompanionsStep, CommandFacts
<1>4. /\ lock' = lock /\ applied \subseteq applied' /\ ~Writing(j)
      /\ Nested(j) /\ Kind[f.pkg] # "bundle"
  BY <1>2, <1>3 DEF Quietly, files, Writing, CommandOK, Shape
<1>5. PICK k \in Procs, g \in Frames :
        /\ proc' = [proc EXCEPT ![c] = k]
        /\ g.pkg = f.pkg /\ g.spec = f.spec /\ g.version = f.version /\ g.sha = f.sha
        /\ g.more \subseteq DOMAIN Companions[f.pkg][f.version]
        /\ k.pc = "more" /\ Nested(k) /\ Head(k.stack) = g
        /\ Tail(k.stack) = Tail(j.stack) /\ SameLower(k, j) /\ SameLoop(k, j)
  BY <1>3 DEF LoadCompanionsEffect
<1>6. SameHead(k, j) /\ ~Writing(k) /\ FreshHead(Head(k.stack))
  BY <1>2, <1>4, <1>5 DEF SameHead, Writing, FreshHead
<1> QED
  BY <1>1, <1>4, <1>5, <1>6, BundleStays

LEMMA BundleNext ==
  ASSUME Alone, ClientInv, BundleInv, NEW c \in Clients, InstallNext(c)
  PROVE  BundleInv'
<1>1. PICK j : j = proc[c]
  OBVIOUS
<1>2. PICK f : f = Head(j.stack)
  OBVIOUS
<1>3. /\ j.pc = "more" /\ Nested(j) /\ Quietly /\ InstallNextEffect(c, j, f)
      /\ InOrder(j) /\ CommandOK(j) /\ j \in Procs
  BY <1>1, <1>2, InstallNextStep, CommandFacts DEF BundleInv
<1>4. lock' = lock /\ applied \subseteq applied' /\ j.mode = "install"
  BY <1>3 DEF Quietly, files, CommandOK, Shape
<1>17. f.version \in Versions
  BY <1>2, <1>3 DEF CommandOK, Knows, Resolved
<1>5. PICK k \in Procs, g \in Frames, n \in Frames, i \in f.more :
        /\ proc' = [proc EXCEPT ![c] = k]
        /\ g.pkg = f.pkg /\ g.spec = f.spec /\ g.version = f.version /\ g.sha = f.sha
        /\ g.more = f.more \ {i}
        /\ i \in DOMAIN Members(f.pkg, f.version) /\ Members(f.pkg, f.version)[i] \in Requests
        /\ n.pkg = Members(f.pkg, f.version)[i].pkg /\ n.spec = Members(f.pkg, f.version)[i].spec
        /\ n.more = {}
        /\ k.pc = "resolve" /\ Nested(k) /\ Head(k.stack) = n /\ k.stack[2] = g
        /\ Len(k.stack) = Len(j.stack) + 1
        /\ \A x \in 3 .. Len(k.stack) : k.stack[x] = j.stack[x - 1]
        /\ SameLoop(k, j)
  BY <1>3 DEF InstallNextEffect
<1>6. PICK l : l = Current(j)
  OBVIOUS
<1>7. Current(k)' = l /\ Pending(k) /\ k.mode = "install" /\ k.pc = "resolve" /\ ~Writing(k)
  BY <1>3, <1>4, <1>5, <1>6 DEF Current, Writing, Readable, Pending, SameLoop
<1>8. BundlesOK(Current(k))'
  <2>1. BundlesOK(l)'
    BY <1>3, <1>4, <1>6, BundlesStay DEF InOrder
  <2> QED
    BY <1>7, <2>1, SameBundles
<1>9. PICK s \in Seq(Frames) : s = j.stack /\ s # << >>
  BY <1>3 DEF Procs, Nested
<1>10. PICK t \in Seq(Frames) : t = k.stack /\ t # << >>
  BY <1>5 DEF Procs, Nested
<1>11. /\ Len(s) \in Nat \ {0} /\ Len(t) = Len(s) + 1 /\ t[1] = n /\ t[2] = g /\ s[1] = f
       /\ \A x \in 3 .. Len(t) : t[x] = s[x - 1]
  BY SMTT(30), <1>2, <1>5, <1>9, <1>10
<1>12. Covered(k, 2)'
  <2> SUFFICES ASSUME Kind[f.pkg] = "bundle", NEW x \in DOMAIN IncludesOf(f) \ g.more
               PROVE  (MemberDone(Current(k), IncludesOf(f)[x]) \/ Above(k, 2, IncludesOf(f)[x]))'
    BY <1>5, <1>10, <1>11, <1>17 DEF Covered, CoveredAt, IncludesOf
  <2>1. f.pkg \in Packages
    BY <1>5 DEF Frames
  <2>2. PICK q : q = IncludesOf(f)[x] /\ q.pkg \in Packages
    BY <1>17, <2>1, MembersOf DEF IncludesOf
  <2>3. CASE x = i
    <3>1. q = Members(f.pkg, f.version)[i]
      BY <2>2, <2>3 DEF Members, IncludesOf
    <3>2. Above(k, 2, q)
      BY <1>5, <1>10, <1>11, <3>1 DEF Above
    <3> QED
      BY <2>2, <3>2 DEF Above
  <2>4. CASE x # i
    <3>1. x \notin f.more
      BY <1>5, <2>4
    <3>2. Covered(j, 1)
      BY <1>3, <1>9, <1>11 DEF InOrder, Pending
    <3>3. MemberDone(l, q)
      BY <1>6, <1>9, <1>11, <2>2, <3>1, <3>2 DEF Covered, CoveredAt, Above
    <3>4. MemberDone(l, q)'
      BY <1>4, <2>2, <3>3, MemberStays
    <3> QED
      BY <1>7, <2>2, <3>4 DEF MemberDone
  <2> QED
    BY <2>3, <2>4
<1>13. ASSUME NEW x \in 3 .. Len(t) PROVE Covered(k, x)'
  <2>1. x - 1 \in 2 .. Len(s) /\ t[x] = s[x - 1] /\ x - 1 > 1 /\ x > 1
    BY <1>11
  <2>2. t[x - 1].pkg = s[x - 1 - 1].pkg /\ t[x - 1].spec = s[x - 1 - 1].spec
    <3>1. CASE x = 3
      <4>1. t[x - 1] = g /\ s[x - 1 - 1] = f
        BY <1>11, <3>1
      <4> QED
        BY <1>5, <4>1
    <3>2. CASE x # 3
      <4>1. x - 1 \in 3 .. Len(t)
        BY <1>11, <3>2
      <4>2. t[x - 1] = s[x - 1 - 1]
        BY <1>11, <4>1
      <4> QED
        BY <4>2
    <3> QED
      BY <3>1, <3>2
  <2>3. PICK b \in Frames : b = t[x] /\ b.pkg \in Packages
    <3>1. t[x] \in Frames
      BY <1>13
    <3> QED
      BY <3>1 DEF Frames
  <2>4. CoveredAt(j, x - 1, b)
    <3>1. x - 1 \in 1 .. Len(j.stack)
      BY <1>9, <1>11, <2>1
    <3>2. Covered(j, x - 1)
      BY <1>3, <2>1, <3>1 DEF InOrder
    <3> QED
      BY <1>9, <2>1, <2>3, <3>2 DEF Covered
  <2>5. ASSUME Kind[b.pkg] = "bundle", NEW y \in DOMAIN IncludesOf(b) \ b.more
        PROVE  (MemberDone(Current(k), IncludesOf(b)[y]) \/ Above(k, x, IncludesOf(b)[y]))'
    <3>1. PICK q : q = IncludesOf(b)[y] /\ q.pkg \in Packages
      BY <2>3, <2>4, <2>5, MembersOf DEF CoveredAt, IncludesOf
    <3>2. MemberDone(l, q) \/ Above(j, x - 1, q)
      BY <1>6, <2>4, <2>5, <3>1 DEF CoveredAt
    <3>3. CASE MemberDone(l, q)
      <4>1. MemberDone(l, q)'
        BY <1>4, <3>1, <3>3, MemberStays
      <4> QED
        BY <1>7, <3>1, <4>1 DEF MemberDone
    <3>4. CASE Above(j, x - 1, q)
      BY <1>9, <1>10, <2>1, <2>2, <3>1, <3>4 DEF Above
    <3> QED
      BY <3>2, <3>3, <3>4
  <2> QED
    BY <1>10, <2>3, <2>4, <2>5 DEF Covered, CoveredAt, IncludesOf
<1>14. \A x \in 1 .. Len(k.stack) : x > 1 \/ ~Pending(k) => Covered(k, x)'
  BY <1>7, <1>10, <1>11, <1>12, <1>13
<1>15. InOrder(k)'
  BY <1>7, <1>8, <1>14 DEF InOrder, Pending
<1>16. (Readable(lock) => BundlesOK(lock))'
  BY <1>4, SameLockOK
<1> QED
  BY <1>5, <1>15, <1>16, BundleTo

LEMMA BundleReadLock ==
  ASSUME Alone, ClientInv, BundleInv, NEW c \in Clients, ReadLock(c)
  PROVE  BundleInv'
<1>1. PICK j : j = proc[c]
  OBVIOUS
<1>2. PICK f : f = Head(j.stack)
  OBVIOUS
<1>3. /\ j.pc = "more" /\ Nested(j) /\ Quietly /\ ReadLockEffect(c, j, f) /\ f.more = {}
      /\ InOrder(j) /\ CommandOK(j) /\ j \in Procs
  BY <1>1, <1>2, ReadLockStep, CommandFacts DEF BundleInv
<1>4. /\ lock' = lock /\ applied \subseteq applied' /\ j.mode = "install"
      /\ f \in Frames /\ Resolved(f)
  BY <1>2, <1>3, TopFrame DEF Quietly, files, CommandOK, Shape, Knows
<1>5. CASE Fail(c)
  BY <1>4, <1>5, BundleIdle
<1>6. CASE ~Fail(c)
  <2>1. PICK k \in Procs, old \in Locks :
          /\ proc' = [proc EXCEPT ![c] = k]
          /\ old = lock \/ (~Readable(lock) /\ old = NoPins)
          /\ k.pc = "lockCreate" /\ k.stack = j.stack
          /\ k.mode = j.mode /\ k.targets = j.targets /\ k.todo = j.todo
          /\ k.changed = j.changed /\ k.lk = Upserted(old, f)
    BY <1>3, <1>6 DEF ReadLockEffect
  <2>2. Current(j) = old
    <3>1. old = lock => Readable(lock)
      BY AbsenceAssumption DEF Readable
    <3> QED
      BY <1>3, <2>1, <3>1 DEF Current, Writing
  <2>3. PICK new : new = Upserted(old, f)
    OBVIOUS
  <2>4. /\ new \in Locks /\ new[f.pkg] = [version |-> f.version, sha |-> f.sha]
        /\ new[f.pkg] # None /\ f.pkg \in Packages
        /\ new[f.pkg].version = f.version /\ new[f.pkg].sha = f.sha
        /\ \A p \in Packages : p # f.pkg => new[p] = old[p]
        /\ Pinned(new) = Pinned(old) \cup {f.pkg}
    BY ONLY old \in Locks, <1>4, <2>3, UpsertedFacts
  <2>5. \A p \in Packages : old[p] # None => new[p] # None
    BY <2>4
  <2>6. Current(k)' = new /\ ~Pending(k)
    BY <2>1, <2>3 DEF Current, Writing, Pending
  <2>7. PICK s \in Seq(Frames) : s = j.stack /\ s # << >>
    BY <1>3 DEF Procs, Nested
  <2>8. Len(s) \in Nat \ {0} /\ s[1] = f
    BY <1>2, <2>7
  <2>9. ASSUME NEW x \in 1 .. Len(s) PROVE Covered(k, x)'
    <3>1. PICK b \in Frames : b = s[x] /\ b.pkg \in Packages
      <4>1. s[x] \in Frames
        BY <2>9
      <4> QED
        BY <4>1 DEF Frames
    <3>2. CoveredAt(j, x, b)
      BY <1>3, <2>7, <2>9, <3>1 DEF InOrder, Pending, Covered
    <3>3. ASSUME Kind[b.pkg] = "bundle", NEW y \in DOMAIN IncludesOf(b) \ b.more
          PROVE  (MemberDone(Current(k), IncludesOf(b)[y]) \/ Above(k, x, IncludesOf(b)[y]))'
      <4>1. PICK q : q = IncludesOf(b)[y] /\ q.pkg \in Packages
        BY <3>1, <3>2, <3>3, MembersOf DEF CoveredAt, IncludesOf
      <4>2. MemberDone(old, q) \/ Above(j, x, q)
        BY <2>2, <3>2, <3>3, <4>1 DEF CoveredAt
      <4>3. CASE MemberDone(old, q)
        <5>1. MemberDone(new, q)'
          BY <1>4, <2>5, <4>1, <4>3, MemberStays
        <5> QED
          BY <2>6, <4>1, <5>1 DEF MemberDone
      <4>4. CASE Above(j, x, q)
        BY <2>1, <4>1, <4>4 DEF Above
      <4> QED
        BY <4>2, <4>3, <4>4
    <3> QED
      BY <2>1, <2>7, <3>1, <3>2, <3>3 DEF Covered, CoveredAt, IncludesOf
  <2>10. ASSUME NEW b \in Pinned(new), Kind[b] = "bundle" PROVE BundleOK(new, b)'
    <3>1. b \in Packages
      BY DEF Pinned
    <3>2. CASE b = f.pkg
      <4>1. CoveredAt(j, 1, f)
        BY <1>3, <2>7, <2>8 DEF InOrder, Pending, Covered
      <4>2. f.version \in Versions
        BY <1>4 DEF Resolved
      <4>3. ASSUME NEW y \in DOMAIN IncludesOf(f) PROVE MemberDone(old, IncludesOf(f)[y])
        BY <1>3, <2>2, <2>10, <3>2, <4>1, <4>3 DEF CoveredAt, Above
      <4>4. Installed(old, b, f.version)
        BY <3>2, <4>3 DEF Installed, IncludesOf
      <4>5. Installed(new, b, f.version)'
        BY <1>4, <2>5, <3>1, <4>2, <4>4, InstalledStays
      <4>6. Moved(b, f.version, new[b].version)'
        BY <2>4, <3>2 DEF Moved
      <4> QED
        BY <4>2, <4>5, <4>6 DEF BundleOK
    <3>3. CASE b # f.pkg
      <4>1. b \in Pinned(old) /\ new[b].version = old[b].version
        BY <2>4, <3>1, <3>3
      <4>2. BundleOK(old, b)
        BY <1>3, <2>2, <2>10, <4>1 DEF InOrder, BundlesOK
      <4> QED
        BY <1>4, <2>5, <3>1, <4>1, <4>2, BundleStaysOK
    <3> QED
      BY <3>2, <3>3
  <2>11. BundlesOK(Current(k))'
    <3>1. BundlesOK(new)'
      BY <2>10 DEF BundlesOK, Pinned
    <3> QED
      BY <2>6, <3>1, SameBundles
  <2>12. \A x \in 1 .. Len(k.stack) : Covered(k, x)'
    BY <2>1, <2>7, <2>9
  <2>13. k.lk[Head(k.stack).pkg] # None /\ k.mode \notin {"frozen", "upgrade"}
    BY <1>2, <1>4, <2>1, <2>3, <2>4
  <2>14. InOrder(k)'
    BY <2>1, <2>11, <2>12, <2>13 DEF InOrder
  <2>15. (Readable(lock) => BundlesOK(lock))'
    BY <1>4, SameLockOK
  <2> QED
    BY <2>1, <2>14, <2>15, BundleTo
<1> QED
  BY <1>5, <1>6

LEMMA BundleCreateLock ==
  ASSUME Alone, ClientInv, BundleInv, NEW c \in Clients, CreateLock(c)
  PROVE  BundleInv'
<1>1. PICK j : j = proc[c]
  OBVIOUS
<1>2. /\ j.pc = "lockCreate" /\ lock' = Torn /\ applied' = applied /\ InOrder(j)
  BY <1>1, CreateLockStep DEF BundleInv
<1>3. PICK k \in Procs :
        /\ proc' = [proc EXCEPT ![c] = k]
        /\ k.pc = "lockWrite" /\ k.stack = j.stack /\ SameLoop(k, j)
  BY <1>1, CreateLockStep
<1>4. k.mode = j.mode /\ k.lk = j.lk /\ ~Pending(j)
  BY <1>2, <1>3 DEF SameLoop, Pending
<1>5. Current(k)' = j.lk /\ Current(j) = j.lk
  BY <1>2, <1>3, <1>4 DEF Current, Writing
<1>6. \A l, q : MemberDone(l, q)' <=> MemberDone(l, q)
  BY <1>2 DEF MemberDone
<1>7. BundlesOK(Current(k))' /\ (k.mode \in {"frozen", "upgrade"} => BundlesOK(k.lk)')
  <2>1. PICK l : l = j.lk
    OBVIOUS
  <2>2. BundlesOK(l)'
    BY <1>2, <1>5, <2>1, BundlesStay DEF InOrder
  <2>3. BundlesOK(Current(k))'
    BY <1>5, <2>1, <2>2, SameBundles
  <2> QED
    BY <1>4, <2>1, <2>2, <2>3
<1>8. \A x \in 1 .. Len(k.stack) : Covered(j, x)
  BY <1>2, <1>3, <1>4 DEF InOrder
<1>9. \A x \in 1 .. Len(k.stack) : Covered(k, x)'
  BY <1>3, <1>5, <1>6, <1>8 DEF Covered, CoveredAt, Above
<1>10. Nested(k) => k.lk[Head(k.stack).pkg] # None
  BY <1>2, <1>3, <1>4 DEF InOrder, Writing, Nested
<1>11. InOrder(k)'
  BY <1>2, <1>7, <1>9, <1>10 DEF InOrder
<1>12. (Readable(lock) => BundlesOK(lock))'
  BY <1>2 DEF Readable
<1> QED
  BY <1>3, <1>11, <1>12, BundleTo

LEMMA BundleWriteLock ==
  ASSUME Alone, ClientInv, BundleInv, NEW c \in Clients, WriteLock(c)
  PROVE  BundleInv'
<1>1. PICK j : j = proc[c]
  OBVIOUS
<1>2. /\ j.pc = "lockWrite" /\ (lock = Torn => lock' = j.lk) /\ applied' = applied
      /\ WriteLockEffect(c, j) /\ InOrder(j) /\ CommandOK(j) /\ j \in Procs
  BY <1>1, WriteLockStep, CommandFacts DEF BundleInv
<1>3. PICK l \in Locks : l = j.lk
  BY <1>2 DEF Procs
<1>4. lock' = l /\ Current(j) = l /\ Readable(l)
  BY <1>2, <1>3, AbsenceAssumption DEF InOrder, Current, Writing, Readable
<1>5. \A m, q : MemberDone(m, q)' <=> MemberDone(m, q)
  BY <1>2 DEF MemberDone
<1>6. BundlesOK(l)'
  BY <1>2, <1>4, BundlesStay DEF InOrder
<1>7. (Readable(lock) => BundlesOK(lock))'
  BY <1>4, <1>6 DEF BundlesOK, BundleOK, Installed, Moved, MemberDone, Pinned
<1>8. CASE proc' = [proc EXCEPT ![c] = Idle]
  <2>1. /\ Len(Idle.stack) = 0 /\ ~Writing(Idle) /\ Idle.mode \notin {"frozen", "upgrade"}
        /\ 1 .. 0 = {}
    BY IdleFacts, AbsenceAssumption DEF Writing, Modes
  <2>2. InOrder(Idle)'
    BY <1>7, <2>1, InOrderFlat
  <2> QED
    BY <1>7, <1>8, <2>2, BundleTo
<1>9. CASE proc' # [proc EXCEPT ![c] = Idle]
  <2>1. PICK k \in Procs :
          /\ proc' = [proc EXCEPT ![c] = k] /\ j.mode = "install"
          /\ Nested(j) /\ Tail(j.stack) # << >>
          /\ k.pc = "more" /\ k.stack = Tail(j.stack) /\ k.mode = "install"
          /\ k.changed = j.changed
    BY <1>2, <1>9 DEF WriteLockEffect
  <2>2. Current(k)' = l
    BY <1>4, <2>1 DEF Current, Writing, Readable
  <2>3. PICK s \in Seq(Frames) : s = j.stack /\ s # << >>
    BY <1>2, <2>1 DEF Procs, Nested
  <2>4. PICK t \in Seq(Frames) : t = k.stack /\ t = Tail(s)
    BY <2>1, <2>3 DEF Procs
  <2>5. /\ Len(s) \in Nat \ {0} /\ Len(t) = Len(s) - 1 /\ Head(s) = s[1]
        /\ \A x \in 1 .. Len(t) : t[x] = s[x + 1]
    BY ONLY s \in Seq(Frames), <2>3, <2>4, TopFacts
  <2>6. PICK f \in Frames : f = s[1]
    BY <2>5
  <2>7. Done(f) /\ l[f.pkg] # None
    BY <1>2, <1>3, <2>1, <2>3, <2>5, <2>6 DEF CommandOK, Knows, InOrder, Writing
  <2>8. ASSUME NEW q, q.pkg = f.pkg, q.spec = f.spec PROVE MemberDone(l, q)
    <3>1. ASSUME Kind[f.pkg] # "bundle"
          PROVE  \E e \in applied : e[1] = f.pkg /\ e[2] \in f.spec
      <4>1. PICK x \in Contents : <<f.pkg, f.version, x>> \in applied
        BY <2>7, <3>1 DEF Done, WasApplied
      <4>2. f.version \in f.spec
        BY <2>7 DEF Done, Resolved
      <4>3. PICK e \in applied : e = <<f.pkg, f.version, x>>
        BY <4>1
      <4> QED
        BY <4>2, <4>3
    <3> QED
      BY <2>7, <2>8, <3>1 DEF MemberDone
  <2>9. ASSUME NEW x \in 1 .. Len(t) PROVE Covered(k, x)'
    <3>1. x + 1 \in 1 .. Len(s) /\ t[x] = s[x + 1] /\ x + 1 > 1 /\ x \in Nat
      BY <2>5
    <3>2. PICK b \in Frames : b = t[x] /\ b.pkg \in Packages
      <4>1. t[x] \in Frames
        BY <2>9
      <4> QED
        BY <4>1 DEF Frames
    <3>3. CoveredAt(j, x + 1, b)
      BY <1>2, <2>3, <3>1, <3>2 DEF InOrder, Covered
    <3>4. ASSUME Kind[b.pkg] = "bundle", NEW y \in DOMAIN IncludesOf(b) \ b.more
          PROVE  (MemberDone(Current(k), IncludesOf(b)[y]) \/ Above(k, x, IncludesOf(b)[y]))'
      <4>1. PICK q : q = IncludesOf(b)[y] /\ q.pkg \in Packages
        BY <3>2, <3>3, <3>4, MembersOf DEF CoveredAt, IncludesOf
      <4>2. MemberDone(l, q) \/ Above(j, x + 1, q)
        BY <1>4, <3>3, <3>4, <4>1 DEF CoveredAt
      <4>3. CASE MemberDone(l, q)
        BY <1>5, <2>2, <4>1, <4>3 DEF MemberDone
      <4>4. CASE Above(j, x + 1, q)
        <5>1. s[x].pkg = q.pkg /\ s[x].spec = q.spec
          BY <2>3, <3>1, <4>4 DEF Above
        <5>2. CASE x = 1
          <6>1. MemberDone(l, q)
            BY <2>6, <2>8, <5>1, <5>2
          <6> QED
            BY <1>5, <2>2, <4>1, <6>1 DEF MemberDone
        <5>3. CASE x # 1
          <6>1. x - 1 \in 1 .. Len(t) /\ t[x - 1] = s[x - 1 + 1] /\ x - 1 + 1 = x /\ x > 1
            BY <2>5, <5>3
          <6>2. t[x - 1] = s[x]
            BY <6>1
          <6> QED
            BY <2>4, <4>1, <5>1, <6>1, <6>2 DEF Above
        <5> QED
          BY <5>2, <5>3
      <4> QED
        BY <4>2, <4>3, <4>4
    <3> QED
      BY <2>4, <3>2, <3>3, <3>4 DEF Covered, CoveredAt, IncludesOf
  <2>10. BundlesOK(Current(k))'
    BY <1>6, <2>2, SameBundles
  <2>11. InOrder(k)'
    BY <2>1, <2>4, <2>9, <2>10 DEF InOrder, Writing
  <2> QED
    BY <1>7, <2>1, <2>11, BundleTo
<1> QED
  BY <1>8, <1>9

(* One command at a time: a lock that pins a bundle pins each member of the *)
(* version installed, which was applied unless it is a bundle in turn,      *)
(* however deep bundles nest, and whatever fails or is interrupted on the   *)
(* way.  That version is the pinned one, or an older one of its major       *)
(* version from which an upgrade has moved the pin.                         *)
THEOREM BundlesPinnedLast ==
  ASSUME Alone
  PROVE  Spec => []BundlePinnedLast
<1>1. Init => BundleInv
  <2> SUFFICES ASSUME Init PROVE BundleInv
    OBVIOUS
  <2>1. ~Readable(lock)
    BY DEF Init, Readable
  <2>2. /\ Idle.stack = << >> /\ ~Writing(Idle) /\ Idle.pc # "lockWrite"
        /\ Idle.mode \notin {"frozen", "upgrade"} /\ Len(Idle.stack) = 0 /\ 1 .. 0 = {}
    BY IdleFacts, AbsenceAssumption DEF Writing, Modes
  <2>3. BundlesOK(Current(Idle))
    BY <2>1, <2>2, NoPinsOK DEF Current
  <2>4. InOrder(Idle)
    BY <2>2, <2>3 DEF InOrder
  <2> QED
    BY <2>1, <2>4 DEF Init, BundleInv
<1>2. ClientInv /\ ForwardInv /\ BundleInv /\ [Next]_vars => BundleInv'
  <2> SUFFICES ASSUME ClientInv, ForwardInv, BundleInv, [Next]_vars PROVE BundleInv'
    OBVIOUS
  <2>1. ASSUME NEW p \in Packages, NEW v \in Versions, NEW k \in Contents, Publish(p, v, k)
        PROVE  BundleInv'
    BY <2>1, BundleUnmoved DEF Publish, files
  <2>2. ASSUME NEW c \in Clients, ApiFails(c) \/ AdapterFails(c) \/ Crash(c)
        PROVE  BundleInv'
    <3>1. Fail(c) /\ lock' = lock /\ applied \subseteq applied'
      BY <2>2 DEF ApiFails, AdapterFails, Crash, files
    <3> QED
      BY <3>1, BundleIdle
  <2>3. ASSUME NEW c \in Clients, Local(c) PROVE BundleInv'
    BY <2>3, BundleLoop, BundleVisit, BundleSave, BundleCompanions, BundleNext, BundleReadLock,
       BundleCreateLock, BundleWriteLock DEF Local
  <2>4. CASE UNCHANGED vars
    BY <2>4, BundleUnmoved DEF vars, files
  <2> QED
    BY <2>1, <2>2, <2>3, <2>4, BundleRun, BundleResolve, BundleFetchTool DEF Next
<1>3. BundleInv => BundlePinnedLast
  BY DEF BundleInv, BundlesOK, BundleOK, Installed, Moved, MemberDone, BundlePinnedLast,
         MembersThere
<1> QED
  BY <1>1, <1>2, <1>3, ClientInvariant, ForwardAlways, PTL DEF Spec

-----------------------------------------------------------------------------
(***************************************************************************)
(* state.json and the harnesses.  What a command that visits harnesses has *)
(* read of state.json is right for every name but the one it deals with,   *)
(* and for that one in the harnesses that are behind it.                   *)
(***************************************************************************)
ServerNames == {NameOf[p] : p \in {q \in Packages : Kind[q] = "mcp"}}

(* No package that is a server shares its manifest name with one that is    *)
(* none: configurations and records go by that name.                        *)
KindsApart ==
  \A p, q \in Packages : Kind[p] = "mcp" /\ NameOf[q] = NameOf[p] => Kind[q] = "mcp"

Visiting(j) == j.pc \in {"harness", "write"}
(* What is left of a configuration is what was read of it.                  *)
Fresh(j) == j.pc = "write" => j.cfg = config[j.harness]
Tallied(j) ==
  \A n \in ServerNames, h \in Harnesses :
    IF Visiting(j)
    THEN n # j.name \/ h \notin j.left => (<<n, h>> \in j.st <=> config[h][n] # None)
    ELSE <<n, h>> \in state <=> config[h][n] # None
TallyInv == faults = 0 => \A c \in Clients : Tallied(proc[c]) /\ Fresh(proc[c])

LEMMA TallyTo ==
  ASSUME Alone, ClientInv, NEW c \in Clients, NEW k, proc' = [proc EXCEPT ![c] = k],
         faults' = 0 => Tallied(k)' /\ Fresh(k)'
  PROVE  TallyInv'
<1>1. ASSUME NEW d \in Clients, faults' = 0 PROVE (Tallied(proc[d]) /\ Fresh(proc[d]))'
  <2>1. PICK q : q = proc'[d]
    OBVIOUS
  <2>2. q = k
    BY <2>1, AloneStep
  <2> QED
    BY <1>1, <2>1, <2>2
<1> QED
  BY <1>1 DEF TallyInv

LEMMA TallyUnmoved ==
  ASSUME TallyInv, UNCHANGED <<config, state, faults, proc>>
  PROVE  TallyInv'
BY DEF TallyInv, Tallied, Fresh, Visiting

(* A step between two commands that are not at the harnesses.               *)
Away(c) ==
  /\ UNCHANGED <<config, state, faults>> /\ ~Visiting(proc[c])
  /\ \E k : proc' = [proc EXCEPT ![c] = k] /\ ~Visiting(k)

LEMMA TallyAway ==
  ASSUME Alone, ClientInv, TallyInv, NEW c \in Clients, Away(c)
  PROVE  TallyInv'
<1>1. PICK k : proc' = [proc EXCEPT ![c] = k] /\ ~Visiting(k)
  BY DEF Away
<1>2. PICK j : j = proc[c]
  OBVIOUS
<1>3. ~Visiting(j) /\ UNCHANGED <<config, state, faults>>
  BY <1>2 DEF Away
<1>4. ASSUME faults' = 0 PROVE Tallied(k)' /\ Fresh(k)'
  <2>1. Tallied(j)
    BY <1>2, <1>3, <1>4 DEF TallyInv
  <2>2. Tallied(k)'
    BY <1>1, <1>3, <2>1 DEF Tallied, Visiting
  <2> QED
    BY <1>1, <2>2 DEF Fresh, Visiting
<1> QED
  BY <1>1, <1>4, TallyTo

LEMMA AwayFail ==
  ASSUME NEW c \in Clients, ~Visiting(proc[c]), Quietly, Fail(c)
  PROVE  Away(c)
<1>1. ~Visiting(Idle)
  BY IdleFacts DEF Visiting
<1> QED
  BY <1>1 DEF Away, Fail, Step, Quietly, files

LEMMA AwayRun ==
  ASSUME ClientInv, NEW c \in Clients, NEW p \in Packages, NEW spec \in Specs,
         Install(c, [pkg |-> p, spec |-> spec])
  PROVE  Away(c)
<1>1. PICK q : q = [pkg |-> p, spec |-> spec]
  OBVIOUS
<1>2. q \in Requests
  BY <1>1, ClientVersionsAssumption DEF Requests
<1>3. PICK k \in Procs :
        /\ proc' = [proc EXCEPT ![c] = k] /\ Quietly
        /\ k.pc = "resolve" /\ k.mode = "install" /\ k.changed = FALSE
        /\ k.stack = <<Frame(q, FALSE)>>
  BY <1>1, <1>2, InstallStep
<1>4. ~Visiting(proc[c])
  BY <1>1 DEF Install, At, Visiting
<1> QED
  BY <1>3, <1>4 DEF Away, Visiting, Quietly, files

LEMMA AwayOverLock ==
  ASSUME ClientInv, NEW c \in Clients, NEW mode \in {"frozen", "upgrade"},
         NEW entries \in SUBSET Listed, OverLock(c, mode, entries)
  PROVE  Away(c)
<1>1. Quietly /\ OverLockEffect(c, mode, entries)
  BY OverLockStep
<1>2. PICK k \in Procs : proc' = [proc EXCEPT ![c] = k] /\ k.pc = "next"
  BY <1>1 DEF OverLockEffect
<1>3. ~Visiting(proc[c])
  BY DEF OverLock, At, Visiting
<1> QED
  BY <1>1, <1>2, <1>3 DEF Away, Visiting, Quietly, files

LEMMA AwayLoop ==
  ASSUME ClientInv, NEW c \in Clients, NextEntry(c) \/ LoopDone(c)
  PROVE  Away(c)
<1>1. PICK j : j = proc[c]
  OBVIOUS
<1>2. j.pc = "next" /\ ~Visiting(j) /\ Quietly
  BY <1>1, NextEntryStep, LoopDoneStep DEF Visiting
<1>3. CASE Fail(c)
  BY <1>1, <1>2, <1>3, AwayFail
<1>4. CASE ~Fail(c) /\ NextEntry(c)
  <2>1. NextEntryEffect(c, j)
    BY <1>1, <1>4, NextEntryStep
  <2>2. PICK k \in Procs : proc' = [proc EXCEPT ![c] = k] /\ k.pc = "resolve"
    BY <2>1 DEF NextEntryEffect
  <2> QED
    BY <1>1, <1>2, <2>2 DEF Away, Visiting, Quietly, files
<1>5. CASE ~Fail(c) /\ LoopDone(c)
  <2>1. PICK k \in Procs :
          /\ proc' = [proc EXCEPT ![c] = k] /\ j.changed
          /\ k.pc = "lockCreate" /\ k.stack = j.stack
          /\ SameLoop(k, j) /\ SameEntry(k, j) /\ SameVisit(k, j)
    BY <1>1, <1>5, LoopDoneStep
  <2> QED
    BY <1>1, <1>2, <2>1 DEF Away, Visiting, Quietly, files
<1> QED
  BY <1>3, <1>4, <1>5

LEMMA AwayResolve ==
  ASSUME ClientInv, NEW c \in Clients, Resolve(c)
  PROVE  Away(c)
<1>1. PICK j : j = proc[c]
  OBVIOUS
<1>2. PICK f : f = Head(j.stack)
  OBVIOUS
<1>3. j \in Procs /\ j.pc = "resolve" /\ Nested(j) /\ Quietly /\ ResolveEffect(c, j, f)
  BY <1>1, <1>2, CommandFacts, ResolveStep
<1>4. ~Visiting(j)
  BY <1>3 DEF Visiting
<1>5. CASE Fail(c)
  BY <1>1, <1>3, <1>4, <1>5, AwayFail
<1>6. CASE j.mode = "upgrade" /\ proc' = [proc EXCEPT ![c] = Popped(j)]
  <2>1. PICK k : k = Popped(j)
    OBVIOUS
  <2>2. k.pc \in {"more", "next", "idle"}
    BY <1>3, <2>1, PoppedFacts, IdleFacts
  <2> QED
    BY <1>1, <1>3, <1>4, <1>6, <2>1, <2>2 DEF Away, Visiting, Quietly, files
<1>7. CASE ~Fail(c) /\ ~(j.mode = "upgrade" /\ proc' = [proc EXCEPT ![c] = Popped(j)])
  <2>1. PICK k \in Procs : proc' = [proc EXCEPT ![c] = k] /\ k.pc = "tool"
    BY <1>3, <1>7 DEF ResolveEffect
  <2> QED
    BY <1>1, <1>3, <1>4, <2>1 DEF Away, Visiting, Quietly, files
<1> QED
  BY <1>5, <1>6, <1>7

LEMMA AwayFetchTool ==
  ASSUME ClientInv, NEW c \in Clients, FetchTool(c)
  PROVE  Away(c)
<1>1. PICK j : j = proc[c]
  OBVIOUS
<1>2. PICK f : f = Head(j.stack)
  OBVIOUS
<1>3. j.pc = "tool" /\ Quietly /\ FetchToolEffect(c, j, f)
  BY <1>1, <1>2, FetchToolStep
<1>4. ~Visiting(j)
  BY <1>3 DEF Visiting
<1>5. CASE Fail(c)
  BY <1>1, <1>3, <1>4, <1>5, AwayFail
<1>6. CASE ~Fail(c)
  <2>1. PICK k \in Procs :
          proc' = [proc EXCEPT ![c] = k] /\ k.pc \in {"more", "binary", "apply"}
    BY <1>3, <1>6 DEF FetchToolEffect, AfterTool
  <2> QED
    BY <1>1, <1>3, <1>4, <2>1 DEF Away, Visiting, Quietly, files
<1> QED
  BY <1>5, <1>6

LEMMA AwayBinary ==
  ASSUME ClientInv, NEW c \in Clients, CreateBinary(c) \/ WriteBinary(c)
  PROVE  Away(c)
<1>1. PICK j : j = proc[c]
  OBVIOUS
<1>2. /\ j.pc \in {"binary", "binaryWrite"} /\ BinaryEffect(c, j)
      /\ UNCHANGED <<published, config, state, lock, applied, faults>>
  BY <1>1, BinaryStep
<1>3. PICK k \in Procs : proc' = [proc EXCEPT ![c] = k] /\ k.pc \in {"binaryWrite", "apply"}
  BY <1>2 DEF BinaryEffect
<1> QED
  BY <1>1, <1>2, <1>3 DEF Away, Visiting

LEMMA AwayNested ==
  ASSUME ClientInv, NEW c \in Clients, LoadCompanions(c) \/ InstallNext(c) \/ ReadLock(c)
  PROVE  Away(c)
<1>1. PICK j : j = proc[c]
  OBVIOUS
<1>2. PICK f : f = Head(j.stack)
  OBVIOUS
<1>3. j.pc \in {"companions", "more"} /\ ~Visiting(j) /\ Quietly
  BY <1>1, <1>2, LoadCompanionsStep, InstallNextStep, ReadLockStep DEF Visiting
<1>4. CASE Fail(c)
  BY <1>1, <1>3, <1>4, AwayFail
<1>5. CASE ~Fail(c)
  <2>1. LoadCompanionsEffect(c, j, f) \/ InstallNextEffect(c, j, f) \/ ReadLockEffect(c, j, f)
    BY <1>1, <1>2, LoadCompanionsStep, InstallNextStep, ReadLockStep
  <2>2. PICK k \in Procs :
          proc' = [proc EXCEPT ![c] = k] /\ k.pc \in {"more", "resolve", "lockCreate"}
    BY <1>5, <2>1 DEF LoadCompanionsEffect, InstallNextEffect, ReadLockEffect
  <2> QED
    BY <1>1, <1>3, <2>2 DEF Away, Visiting, Quietly, files
<1> QED
  BY <1>4, <1>5

LEMMA AwayLock ==
  ASSUME ClientInv, NEW c \in Clients, CreateLock(c) \/ WriteLock(c)
  PROVE  Away(c)
<1>1. PICK j : j = proc[c]
  OBVIOUS
<1>2. /\ j.pc \in {"lockCreate", "lockWrite"}
      /\ UNCHANGED <<published, config, state, bins, applied, faults>>
  BY <1>1, CreateLockStep, WriteLockStep
<1>3. ~Visiting(Idle)
  BY IdleFacts DEF Visiting
<1>4. CASE CreateLock(c)
  <2>1. PICK k \in Procs :
          /\ proc' = [proc EXCEPT ![c] = k]
          /\ k.pc = "lockWrite" /\ k.stack = j.stack /\ SameLoop(k, j)
    BY <1>1, <1>4, CreateLockStep
  <2> QED
    BY <1>1, <1>2, <2>1 DEF Away, Visiting
<1>5. CASE WriteLock(c)
  <2>1. WriteLockEffect(c, j)
    BY <1>1, <1>5, WriteLockStep
  <2>2. PICK k : proc' = [proc EXCEPT ![c] = k] /\ ~Visiting(k)
    BY <1>3, <2>1 DEF WriteLockEffect, Visiting
  <2> QED
    BY <1>1, <1>2, <2>2 DEF Away, Visiting
<1> QED
  BY <1>4, <1>5

LEMMA TallyUninstall ==
  ASSUME Alone, ClientInv, TallyInv, NEW c \in Clients, NEW n \in Names, Uninstall(c, n)
  PROVE  TallyInv'
<1>1. PICK k \in Procs :
        /\ proc' = [proc EXCEPT ![c] = k] /\ Quietly
        /\ k.pc = "harness" /\ k.mode = "uninstall" /\ k.changed = FALSE /\ k.stack = << >>
        /\ k.name = n /\ k.entry = None /\ k.st = state
        /\ k.left = {h \in Harnesses : <<n, h>> \in state}
  BY ONLY ZenonT(40), ClientInv, c \in Clients, n \in Names, Uninstall(c, n), UninstallStep
<1>2. PICK j : j = proc[c]
  OBVIOUS
<1>3. ~Visiting(j) /\ UNCHANGED <<config, state, faults>>
  BY <1>1, <1>2 DEF Uninstall, At, Visiting, Quietly, files
<1>4. ASSUME faults' = 0 PROVE Tallied(k)' /\ Fresh(k)'
  <2>1. Tallied(j)
    BY <1>2, <1>3, <1>4 DEF TallyInv
  <2>2. \A m \in ServerNames, h \in Harnesses : <<m, h>> \in state <=> config[h][m] # None
    BY <1>3, <2>1 DEF Tallied
  <2>3. Tallied(k)'
    BY <1>1, <1>3, <2>2 DEF Tallied, Visiting
  <2> QED
    BY <1>1, <2>3 DEF Fresh
<1> QED
  BY <1>1, <1>4, TallyTo

LEMMA TallyLoadState ==
  ASSUME Alone, ClientInv, TallyInv, NEW c \in Clients, LoadState(c)
  PROVE  TallyInv'
<1>1. PICK j : j = proc[c]
  OBVIOUS
<1>2. PICK k \in Procs :
        /\ proc' = [proc EXCEPT ![c] = k] /\ k.pc = "harness" /\ k.stack = j.stack
        /\ SameLoop(k, j) /\ SameEntry(k, j) /\ k.st = state /\ k.left = Harnesses
  BY <1>1, LoadStateStep
<1>3. ~Visiting(j) /\ UNCHANGED <<config, state, faults>>
  BY <1>1, LoadStateStep DEF Visiting, Quietly, files
<1>4. ASSUME faults' = 0 PROVE Tallied(k)' /\ Fresh(k)'
  <2>1. Tallied(j)
    BY <1>1, <1>3, <1>4 DEF TallyInv
  <2>2. \A n \in ServerNames, h \in Harnesses : <<n, h>> \in state <=> config[h][n] # None
    BY <1>3, <2>1 DEF Tallied
  <2>3. Tallied(k)'
    BY <1>2, <1>3, <2>2 DEF Tallied, Visiting
  <2> QED
    BY <1>2, <2>3 DEF Fresh
<1> QED
  BY <1>2, <1>4, TallyTo

LEMMA TallyReadConfig ==
  ASSUME Alone, KindsApart, ClientInv, TallyInv, NEW c \in Clients, ReadConfig(c)
  PROVE  TallyInv'
<1>1. PICK j : j = proc[c]
  OBVIOUS
<1>2. j.pc = "harness" /\ ReadConfigEffect(c, j) /\ UNCHANGED <<config, state, faults>>
  BY <1>1, ReadConfigStep DEF Quietly, files
<1>3. PICK h \in j.left, k \in Procs :
        /\ proc' = [proc EXCEPT ![c] = k] /\ k.stack = j.stack
        /\ SameLoop(k, j) /\ SameEntry(k, j) /\ h \in Harnesses
        /\ \/ /\ Materialises(j)
              /\ k.pc = "write" /\ k.harness = h /\ k.cfg = config[h] /\ k.cfg \in ConfigOf
              /\ k.left = j.left /\ k.st = j.st
           \/ /\ ~Materialises(j)
              /\ k.pc = "harness" /\ k.left = j.left \ {h}
              /\ k.st = Marked(j, h)
  BY <1>2 DEF ReadConfigEffect
<1>4. ASSUME faults' = 0 PROVE Tallied(k)' /\ Fresh(k)'
  <2>1. Tallied(j)
    BY <1>1, <1>2, <1>4 DEF TallyInv
  <2>2. \A n \in ServerNames, g \in Harnesses :
          n # j.name \/ g \notin j.left => (<<n, g>> \in j.st <=> config[g][n] # None)
    BY <1>2, <2>1 DEF Tallied, Visiting
  <2>3. CASE Materialises(j)
    BY <1>2, <1>3, <2>2, <2>3 DEF Tallied, Visiting, SameEntry, Fresh
  <2>4. CASE ~Materialises(j)
    <3>1. j.mode # "uninstall" /\ Kind[j.entry.pkg] # "mcp"
      BY <2>4 DEF Materialises
    <3>2. j.name = NameOf[j.entry.pkg] /\ j.entry.pkg \in Packages
      BY <1>1, <1>2, <3>1, CommandFacts, VisitFacts DEF Carries, Entries
    <3>3. j.name \notin ServerNames
      BY <3>1, <3>2 DEF ServerNames, KindsApart
    <3>4. k.pc = "harness" /\ k.name = j.name /\ k.st = j.st \cup {<<j.name, h>>}
      BY <1>3, <2>4, <3>1 DEF SameEntry, Marked
    <3>5. \A n \in ServerNames, g \in Harnesses : <<n, g>> \in k.st <=> config[g][n] # None
      BY <2>2, <3>3, <3>4
    <3>6. Tallied(k)'
      BY <1>2, <3>4, <3>5 DEF Tallied, Visiting
    <3> QED
      BY <3>4, <3>6 DEF Fresh
  <2> QED
    BY <2>3, <2>4
<1> QED
  BY <1>3, <1>4, TallyTo

LEMMA TallyWriteConfig ==
  ASSUME Alone, ClientInv, TallyInv, NEW c \in Clients, WriteConfig(c)
  PROVE  TallyInv'
<1>1. PICK j : j = proc[c]
  OBVIOUS
<1>2. /\ j.pc = "write" /\ UNCHANGED <<published, state, lock, bins, applied, faults>>
      /\ j.harness \in j.left /\ j.harness \in Harnesses
      /\ config' = [config EXCEPT ![j.harness] = Servers(j)] /\ Servers(j) \in ConfigOf
      /\ WriteConfigEffect(c, j)
  BY <1>1, WriteConfigStep
<1>3. PICK k \in Procs :
        /\ proc' = [proc EXCEPT ![c] = k] /\ k.stack = j.stack
        /\ SameLoop(k, j) /\ SameEntry(k, j)
        /\ k.pc = "harness" /\ k.left = j.left \ {j.harness}
        /\ k.st = Marked(j, j.harness)
  BY <1>2 DEF WriteConfigEffect
<1>4. /\ j.name \in Names /\ j.cfg \in ConfigOf
      /\ j.mode = "uninstall" <=> j.entry = None
  <2>1. CommandOK(j) /\ None \notin Entries
    BY <1>1, CommandFacts, AbsenceAssumption
  <2>2. j.cfg \in ConfigOf
    BY <1>2, <2>1 DEF CommandOK, Shape
  <2> QED
    BY <1>2, <2>1, <2>2, VisitFacts
<1>5. ASSUME faults' = 0 PROVE Tallied(k)' /\ Fresh(k)'
  <2>1. Tallied(j) /\ j.cfg = config[j.harness]
    BY <1>1, <1>2, <1>5 DEF TallyInv, Fresh
  <2>2. \A n \in ServerNames, g \in Harnesses :
          n # j.name \/ g \notin j.left => (<<n, g>> \in j.st <=> config[g][n] # None)
    BY <1>2, <2>1 DEF Tallied, Visiting
  <2>3. \A n \in Names : Servers(j)[n] = IF n = j.name THEN j.entry ELSE config[j.harness][n]
    BY <1>4, <2>1 DEF Servers, ConfigOf
  <2>4. \A g \in Harnesses :
          config'[g] = IF g = j.harness THEN Servers(j) ELSE config[g]
    BY <1>2 DEF ClientInv, FilesOK
  <2>5. ASSUME NEW n \in ServerNames, NEW g \in Harnesses, n # k.name \/ g \notin k.left
        PROVE  <<n, g>> \in k.st <=> config'[g][n] # None
    <3>1. n \in Names
      BY NamesAssumption DEF ServerNames
    <3>2. k.name = j.name
      BY <1>3 DEF SameEntry
    <3>3. CASE n = j.name /\ g = j.harness
      <4>1. config'[g][n] = j.entry
        BY <2>3, <2>4, <3>1, <3>3
      <4>2. <<n, g>> \in k.st <=> j.mode # "uninstall"
        BY <1>3, <3>3 DEF Marked
      <4> QED
        BY <1>4, <4>1, <4>2
    <3>4. CASE ~(n = j.name /\ g = j.harness)
      <4>1. config'[g][n] = config[g][n]
        BY <2>3, <2>4, <3>1, <3>4
      <4>2. <<n, g>> \in k.st <=> <<n, g>> \in j.st
        BY <1>3, <3>4 DEF Marked
      <4>3. n # j.name \/ g \notin j.left
        BY <1>3, <2>5, <3>2, <3>4
      <4> QED
        BY <2>2, <4>1, <4>2, <4>3
    <3> QED
      BY <3>3, <3>4
  <2>6. Tallied(k)'
    BY <1>3, <2>5 DEF Tallied, Visiting
  <2> QED
    BY <1>3, <2>6 DEF Fresh
<1> QED
  BY <1>3, <1>5, TallyTo

LEMMA TallySave ==
  ASSUME Alone, ClientInv, TallyInv, NEW c \in Clients, SaveState(c)
  PROVE  TallyInv'
<1>1. PICK j : j = proc[c]
  OBVIOUS
<1>2. PICK f : f = Head(j.stack)
  OBVIOUS
<1>3. /\ j.pc = "harness" /\ j.left = {} /\ state' = j.st
      /\ UNCHANGED <<published, config, lock, bins, faults>> /\ SaveStateEffect(c, j, f)
  BY <1>1, <1>2, SaveStateStep
<1>4. PICK k : proc' = [proc EXCEPT ![c] = k] /\ k.pc \in {"idle", "companions", "next"}
  BY <1>3, IdleFacts DEF SaveStateEffect
<1>5. ASSUME faults' = 0 PROVE Tallied(k)' /\ Fresh(k)'
  <2>1. Tallied(j)
    BY <1>1, <1>3, <1>5 DEF TallyInv
  <2>2. \A n \in ServerNames, h \in Harnesses : <<n, h>> \in j.st <=> config[h][n] # None
    BY <1>3, <2>1 DEF Tallied, Visiting
  <2>3. Tallied(k)'
    BY <1>3, <1>4, <2>2 DEF Tallied, Visiting
  <2> QED
    BY <1>4, <2>3 DEF Fresh
<1> QED
  BY <1>4, <1>5, TallyTo

LEMMA TallyFaults ==
  ASSUME Alone, ClientInv, TallyInv, NEW c \in Clients,
         ApiFails(c) \/ AdapterFails(c) \/ Crash(c)
  PROVE  TallyInv'
<1>1. CASE ApiFails(c)
  <2>1. ~Visiting(proc[c]) /\ Quietly /\ Fail(c)
    BY <1>1 DEF ApiFails, Visiting, Quietly
  <2> QED
    BY <2>1, AwayFail, TallyAway
<1>2. CASE AdapterFails(c) \/ Crash(c)
  <2>1. faults' = faults + 1 /\ faults \in Nat
    BY <1>2, LimitsAssumption DEF AdapterFails, Crash, ClientInv, FilesOK
  <2> QED
    BY <2>1 DEF TallyInv
<1> QED
  BY <1>1, <1>2

(* One command at a time, and manifest names that tell servers from the     *)
(* rest: until a command is interrupted or an adapter fails, state.json     *)
(* lists between commands exactly the servers that are in the harnesses,    *)
(* whatever the API refuses on the way.                                     *)
THEOREM StateTalliesWithHarnesses ==
  ASSUME Alone, KindsApart
  PROVE  Spec => []StateMatchesHarnesses
<1>1. Init => TallyInv
  <2>1. ~Visiting(Idle)
    BY IdleFacts DEF Visiting
  <2>2. \A n \in ServerNames : n \in Names
    BY NamesAssumption DEF ServerNames
  <2> QED
    BY <2>1, <2>2 DEF Init, TallyInv, Tallied, Fresh, Visiting
<1>2. ClientInv /\ TallyInv /\ [Next]_vars => TallyInv'
  <2> SUFFICES ASSUME ClientInv, TallyInv, [Next]_vars PROVE TallyInv'
    OBVIOUS
  <2>1. ASSUME NEW p \in Packages, NEW v \in Versions, NEW k \in Contents, Publish(p, v, k)
        PROVE  TallyInv'
    BY <2>1, TallyUnmoved DEF Publish, files
  <2>2. ASSUME NEW c \in Clients, Run(c) PROVE TallyInv'
    <3>1. ASSUME NEW p \in Packages, NEW spec \in Specs, Install(c, [pkg |-> p, spec |-> spec])
          PROVE  TallyInv'
      BY <3>1, AwayRun, TallyAway
    <3>2. ASSUME NEW mode \in {"frozen", "upgrade"},
                 NEW entries \in {Listed} \cup {{p} : p \in Listed}, OverLock(c, mode, entries)
          PROVE  TallyInv'
      <4>1. entries \in SUBSET Listed
        BY <3>2
      <4> QED
        BY <3>2, <4>1, AwayOverLock, TallyAway
    <3>3. ASSUME NEW n \in Names, Uninstall(c, n) PROVE TallyInv'
      BY <3>3, TallyUninstall
    <3> QED
      BY <2>2, <3>1, <3>2, <3>3 DEF Run
  <2>3. ASSUME NEW c \in Clients, Local(c) PROVE TallyInv'
    <3>1. CASE NextEntry(c) \/ LoopDone(c) \/ CreateBinary(c) \/ WriteBinary(c)
                 \/ LoadCompanions(c) \/ InstallNext(c) \/ ReadLock(c)
                 \/ CreateLock(c) \/ WriteLock(c)
      BY <3>1, AwayLoop, AwayBinary, AwayNested, AwayLock, TallyAway
    <3> QED
      BY <2>3, <3>1, TallyLoadState, TallyReadConfig, TallyWriteConfig, TallySave DEF Local
  <2>4. ASSUME NEW c \in Clients, Resolve(c) \/ FetchTool(c) PROVE TallyInv'
    BY <2>4, AwayResolve, AwayFetchTool, TallyAway
  <2>5. CASE UNCHANGED vars
    BY <2>5, TallyUnmoved DEF vars, files
  <2> QED
    BY <2>1, <2>2, <2>3, <2>4, <2>5, TallyFaults DEF Next
<1>3. ClientInv /\ TallyInv => StateMatchesHarnesses
  <2> SUFFICES ASSUME TallyInv, Quiet, faults = 0, NEW p \in Packages, NEW h \in Harnesses,
                      Kind[p] = "mcp"
               PROVE  <<NameOf[p], h>> \in state <=> config[h][NameOf[p]] # None
    BY DEF StateMatchesHarnesses
  <2>1. PICK c \in Clients : TRUE
    BY DEF Alone
  <2>2. NameOf[p] \in ServerNames
    BY DEF ServerNames
  <2>3. Tallied(proc[c]) /\ proc[c].pc = "idle"
    BY DEF TallyInv, Quiet, At
  <2> QED
    BY <2>2, <2>3 DEF Tallied, Visiting
<1> QED
  BY <1>1, <1>2, <1>3, ClientInvariant, PTL DEF Spec

-----------------------------------------------------------------------------
(***************************************************************************)
(* Frozen installs.  The entries that one has visited are in place, and    *)
(* so is the one that it is at, in the harnesses that are behind it.       *)
(***************************************************************************)
(* No two packages share a manifest name, nor two tools an executable.      *)
NamesApart ==
  \A p, q \in Packages :
    /\ NameOf[p] = NameOf[q] => p = q
    /\ Kind[p] = "cli" /\ Kind[q] = "cli" /\ BinOf[p] = BinOf[q] => p = q

Fetched(p, v) == Kind[p] = "cli" => IsPinned(bins[BinOf[p]], p, v)
Configured(p, v, hs) ==
  Kind[p] = "mcp" => \A h \in hs : IsPinned(config[h][NameOf[p]], p, v)
Placed(p, v) == Fetched(p, v) /\ Configured(p, v, Harnesses)

Visited(j) ==
  \A p \in j.targets \ j.todo :
    (Nested(j) => p # Head(j.stack).pkg) => Placed(p, j.lk[p].version)
Downloading(j) == j.pc \in {"binary", "binaryWrite"}
Placing(j, f) ==
  LET v == j.lk[f.pkg].version
  IN  /\ f.spec = {v}
      /\ Downloading(j) => Kind[f.pkg] = "cli"
      /\ j.pc \in {"apply", "harness", "write"} => Fetched(f.pkg, v)
      /\ Visiting(j) => Configured(f.pkg, v, Harnesses \ j.left)
FrozenOK(j) ==
  j.mode = "frozen" => Visited(j) /\ Fresh(j) /\ (Nested(j) => Placing(j, Head(j.stack)))
FrozenInv == \A c \in Clients : FrozenOK(proc[c])

LEMMA FrozenTo ==
  ASSUME Alone, ClientInv, NEW c \in Clients, NEW k, proc' = [proc EXCEPT ![c] = k],
         FrozenOK(k)'
  PROVE  FrozenInv'
<1>1. ASSUME NEW d \in Clients PROVE FrozenOK(proc[d])'
  <2>1. PICK q : q = proc'[d]
    OBVIOUS
  <2>2. q = k
    BY <2>1, AloneStep
  <2> QED
    BY <2>1, <2>2
<1> QED
  BY <1>1 DEF FrozenInv

LEMMA FrozenOther ==
  ASSUME Alone, ClientInv, NEW c \in Clients, NEW k, proc' = [proc EXCEPT ![c] = k],
         k.mode # "frozen"
  PROVE  FrozenInv'
<1>1. FrozenOK(k)'
  BY DEF FrozenOK
<1> QED
  BY <1>1, FrozenTo

LEMMA FrozenFail ==
  ASSUME Alone, ClientInv, NEW c \in Clients, Fail(c)
  PROVE  FrozenInv'
<1>1. Idle.mode # "frozen"
  BY IdleFacts, AbsenceAssumption DEF Modes
<1> QED
  BY <1>1, FrozenOther DEF Fail, Step

LEMMA PlacedStays ==
  ASSUME UNCHANGED <<config, bins>>
  PROVE  /\ \A p, v : Fetched(p, v)' <=> Fetched(p, v)
         /\ \A p, v, hs : Configured(p, v, hs)' <=> Configured(p, v, hs)
         /\ \A p, v : Placed(p, v)' <=> Placed(p, v)
<1>1. \A p, v : Fetched(p, v)' <=> Fetched(p, v)
  BY DEF Fetched
<1>2. \A p, v, hs : Configured(p, v, hs)' <=> Configured(p, v, hs)
  BY DEF Configured
<1>3. ASSUME NEW p, NEW v PROVE Placed(p, v)' <=> Placed(p, v)
  BY <1>1, <1>2 DEF Placed
<1> QED
  BY <1>1, <1>2, <1>3

LEMMA FrozenUnmoved ==
  ASSUME FrozenInv, UNCHANGED <<config, bins, proc>>
  PROVE  FrozenInv'
<1>1. ASSUME NEW c \in Clients PROVE FrozenOK(proc[c])'
  <2>1. PICK j : j = proc[c]
    OBVIOUS
  <2>2. FrozenOK(j)
    BY <2>1 DEF FrozenInv
  <2>3. Visited(j)' <=> Visited(j)
    BY PlacedStays DEF Visited
  <2>4. Placing(j, Head(j.stack))' <=> Placing(j, Head(j.stack))
    BY PlacedStays DEF Placing, Downloading
  <2>5. Fresh(j)' <=> Fresh(j)
    BY DEF Fresh
  <2>6. FrozenOK(j)'
    BY <2>2, <2>3, <2>4, <2>5 DEF FrozenOK
  <2> QED
    BY <2>1, <2>6
<1> QED
  BY <1>1 DEF FrozenInv

(* A step of the innermost install that touches neither the harnesses nor   *)
(* the executables.                                                         *)
LEMMA FrozenSame ==
  ASSUME Alone, ClientInv, FrozenInv, NEW c \in Clients, NEW j, j = proc[c],
         NEW f, f = Head(j.stack), NEW k, proc' = [proc EXCEPT ![c] = k],
         UNCHANGED <<config, bins>>, SameLoop(k, j), Nested(j), Nested(k),
         Head(k.stack).pkg = f.pkg, Head(k.stack).spec = f.spec,
         j.mode = "frozen" =>
           /\ Downloading(k) => Kind[f.pkg] = "cli"
           /\ k.pc \in {"apply", "harness", "write"} => Fetched(f.pkg, j.lk[f.pkg].version)
           /\ Visiting(k) => Configured(f.pkg, j.lk[f.pkg].version, Harnesses \ k.left)
           /\ Fresh(k)
  PROVE  FrozenInv'
<1>1. CASE j.mode # "frozen"
  BY <1>1, FrozenOther DEF SameLoop
<1>2. CASE j.mode = "frozen"
  <2>1. /\ Visited(j) /\ Placing(j, f)
        /\ k.lk = j.lk /\ k.targets = j.targets /\ k.todo = j.todo
    BY <1>2 DEF FrozenInv, FrozenOK, SameLoop
  <2>2. Visited(k)'
    <3>1. ASSUME NEW p \in k.targets \ k.todo, p # Head(k.stack).pkg
          PROVE  Placed(p, k.lk[p].version)'
      <4>1. Placed(p, j.lk[p].version)
        BY <2>1, <3>1 DEF Visited
      <4> QED
        BY <2>1, <4>1, PlacedStays
    <3> QED
      BY <3>1 DEF Visited
  <2>3. Placing(k, Head(k.stack))'
    <3>1. Head(k.stack).spec = {k.lk[f.pkg].version}
      BY <2>1 DEF Placing
    <3>2. k.pc \in {"apply", "harness", "write"} => Fetched(f.pkg, k.lk[f.pkg].version)'
      BY <1>2, <2>1, PlacedStays
    <3>3. Visiting(k) => Configured(f.pkg, k.lk[f.pkg].version, Harnesses \ k.left)'
      BY <1>2, <2>1, PlacedStays
    <3> QED
      BY <1>2, <3>1, <3>2, <3>3 DEF Placing, Downloading
  <2>4. Fresh(k)'
    BY <1>2 DEF Fresh
  <2>5. FrozenOK(k)'
    BY <2>2, <2>3, <2>4 DEF FrozenOK
  <2> QED
    BY <2>5, FrozenTo
<1> QED
  BY <1>1, <1>2

LEMMA FrozenRun ==
  ASSUME Alone, ClientInv, NEW c \in Clients, Run(c)
  PROVE  FrozenInv'
<1>1. ASSUME NEW p \in Packages, NEW spec \in Specs, Install(c, [pkg |-> p, spec |-> spec])
      PROVE  FrozenInv'
  <2>1. PICK q : q = [pkg |-> p, spec |-> spec]
    OBVIOUS
  <2>2. q \in Requests
    BY <2>1, ClientVersionsAssumption DEF Requests
  <2>3. PICK k \in Procs :
          /\ proc' = [proc EXCEPT ![c] = k] /\ Quietly
          /\ k.pc = "resolve" /\ k.mode = "install" /\ k.changed = FALSE
          /\ k.stack = <<Frame(q, FALSE)>>
    BY <1>1, <2>1, <2>2, InstallStep
  <2> QED
    BY <2>3, FrozenOther
<1>2. ASSUME NEW mode \in {"frozen", "upgrade"},
             NEW entries \in {Listed} \cup {{p} : p \in Listed}, OverLock(c, mode, entries)
      PROVE  FrozenInv'
  <2>1. entries \in SUBSET Listed
    BY <1>2
  <2>2. OverLockEffect(c, mode, entries)
    BY <1>2, <2>1, OverLockStep
  <2>3. PICK k \in Procs :
          /\ proc' = [proc EXCEPT ![c] = k]
          /\ k.pc = "next" /\ k.mode = mode /\ k.changed = FALSE /\ k.stack = << >>
          /\ k.lk = lock /\ k.targets = entries /\ k.todo = entries
    BY <2>2 DEF OverLockEffect
  <2>4. FrozenOK(k)'
    BY <2>3 DEF FrozenOK, Visited, Fresh, Nested
  <2> QED
    BY <2>3, <2>4, FrozenTo
<1>3. ASSUME NEW n \in Names, Uninstall(c, n) PROVE FrozenInv'
  <2>1. PICK k \in Procs :
        /\ proc' = [proc EXCEPT ![c] = k] /\ Quietly
        /\ k.pc = "harness" /\ k.mode = "uninstall" /\ k.changed = FALSE /\ k.stack = << >>
        /\ k.name = n /\ k.entry = None /\ k.st = state
        /\ k.left = {h \in Harnesses : <<n, h>> \in state}
    BY ONLY ZenonT(40), ClientInv, c \in Clients, n \in Names, <1>3, UninstallStep
  <2> QED
    BY <2>1, FrozenOther
<1> QED
  BY <1>1, <1>2, <1>3 DEF Run

LEMMA FrozenLoop ==
  ASSUME Alone, ClientInv, FrozenInv, NEW c \in Clients, NextEntry(c) \/ LoopDone(c)
  PROVE  FrozenInv'
<1>1. PICK j : j = proc[c]
  OBVIOUS
<1>2. /\ j \in Procs /\ CommandOK(j) /\ FrozenOK(j) /\ j.pc = "next" /\ Quietly
  BY <1>1, CommandFacts, NextEntryStep, LoopDoneStep DEF FrozenInv
<1>3. CASE Fail(c)
  BY <1>3, FrozenFail
<1>4. CASE ~Fail(c) /\ NextEntry(c)
  <2>1. NextEntryEffect(c, j)
    BY <1>1, <1>4, NextEntryStep
  <2>2. PICK p \in j.todo, k \in Procs :
          /\ proc' = [proc EXCEPT ![c] = k]
          /\ k.pc = "resolve" /\ k.mode = j.mode /\ k.changed = j.changed
          /\ k.targets = j.targets /\ k.todo = j.todo \ {p} /\ k.lk = j.lk
          /\ Asked(j, p) \in SUBSET Versions
          /\ k.stack = <<Frame([pkg |-> p, spec |-> Asked(j, p)], FALSE)>>
    BY <2>1 DEF NextEntryEffect
  <2>3. CASE j.mode # "frozen"
    BY <2>2, <2>3, FrozenOther
  <2>4. CASE j.mode = "frozen"
    <3>1. p \in Packages /\ Asked(j, p) = {j.lk[p].version} /\ ~Nested(j)
      BY <1>2, <2>4 DEF CommandOK, Shape, Procs, Asked
    <3>2. PICK q : q = [pkg |-> p, spec |-> Asked(j, p)]
      OBVIOUS
    <3>3. q \in Requests /\ q.pkg = p /\ q.spec = {j.lk[p].version}
      BY <2>2, <3>1, <3>2 DEF Requests
    <3>4. PICK g : g = Head(k.stack)
      OBVIOUS
    <3>5. Nested(k) /\ g.pkg = p /\ g.spec = {k.lk[p].version}
      <4>1. PICK s : s = <<Frame(q, FALSE)>>
        OBVIOUS
      <4>2. s # << >> /\ Head(s).pkg = q.pkg /\ Head(s).spec = q.spec
        BY <3>3, <4>1, FreshStack
      <4>3. k.stack = s
        BY <2>2, <3>2, <4>1
      <4> QED
        BY <2>2, <3>3, <3>4, <4>2, <4>3 DEF Nested
    <3>6. Visited(k)'
      <4>1. ASSUME NEW r \in k.targets \ k.todo, r # p PROVE Placed(r, k.lk[r].version)'
        <5>1. Placed(r, j.lk[r].version)
          BY <1>2, <2>2, <2>4, <3>1, <4>1 DEF FrozenOK, Visited
        <5> QED
          BY <1>2, <2>2, <5>1, PlacedStays DEF Quietly, files
      <4> QED
        BY <3>4, <3>5, <4>1 DEF Visited
    <3>7. Placing(k, g)'
      BY <2>2, <3>5 DEF Placing, Visiting, Downloading
    <3>8. FrozenOK(k)'
      BY <2>2, <3>4, <3>6, <3>7 DEF FrozenOK, Fresh
    <3> QED
      BY <2>2, <3>8, FrozenTo
  <2> QED
    BY <2>3, <2>4
<1>5. CASE ~Fail(c) /\ LoopDone(c)
  <2>1. PICK k \in Procs :
          /\ proc' = [proc EXCEPT ![c] = k] /\ j.changed
          /\ k.pc = "lockCreate" /\ k.stack = j.stack
          /\ SameLoop(k, j) /\ SameEntry(k, j) /\ SameVisit(k, j)
    BY <1>1, <1>5, LoopDoneStep
  <2>2. k.mode # "frozen"
    BY <1>2, <2>1 DEF CommandOK, Shape, SameLoop
  <2> QED
    BY <2>1, <2>2, FrozenOther
<1> QED
  BY <1>3, <1>4, <1>5

LEMMA FrozenResolve ==
  ASSUME Alone, ClientInv, FrozenInv, NEW c \in Clients, Resolve(c)
  PROVE  FrozenInv'
<1>1. PICK j : j = proc[c]
  OBVIOUS
<1>2. PICK f : f = Head(j.stack)
  OBVIOUS
<1>3. /\ j \in Procs /\ Nested(j) /\ ResolveEffect(c, j, f)
      /\ UNCHANGED <<config, bins>>
  BY <1>1, <1>2, CommandFacts, ResolveStep DEF Quietly, files
<1>4. CASE Fail(c)
  BY <1>4, FrozenFail
<1>5. CASE j.mode = "upgrade" /\ proc' = [proc EXCEPT ![c] = Popped(j)]
  <2>1. PICK k : k = Popped(j)
    OBVIOUS
  <2>2. k.mode # "frozen"
    BY <1>3, <1>5, <2>1, PoppedFacts, IdleFacts, AbsenceAssumption DEF SameLoop, Modes
  <2> QED
    BY <1>5, <2>1, <2>2, FrozenOther
<1>6. CASE ~Fail(c) /\ ~(j.mode = "upgrade" /\ proc' = [proc EXCEPT ![c] = Popped(j)])
  <2>1. PICK k \in Procs, g \in Frames :
          /\ proc' = [proc EXCEPT ![c] = k]
          /\ g.pkg = f.pkg /\ g.spec = f.spec
          /\ k.pc = "tool" /\ Nested(k) /\ Head(k.stack) = g /\ SameLoop(k, j)
    BY <1>3, <1>6 DEF ResolveEffect
  <2>2. ~Visiting(k) /\ Fresh(k) /\ k.pc \notin {"apply", "harness", "write"}
    BY <2>1 DEF Visiting, Fresh
  <2>3. ~Downloading(k)
    BY <2>1 DEF Downloading
  <2> QED
    BY <1>1, <1>2, <1>3, <2>1, <2>2, <2>3, FrozenSame
<1> QED
  BY <1>4, <1>5, <1>6

LEMMA FrozenFetchTool ==
  ASSUME Alone, ClientInv, FrozenInv, NEW c \in Clients, FetchTool(c)
  PROVE  FrozenInv'
<1>1. PICK j : j = proc[c]
  OBVIOUS
<1>2. PICK f : f = Head(j.stack)
  OBVIOUS
<1>3. Nested(j) /\ FetchToolEffect(c, j, f) /\ UNCHANGED <<config, bins>>
  BY <1>1, <1>2, FetchToolStep DEF Quietly, files
<1>4. CASE Fail(c)
  BY <1>4, FrozenFail
<1>5. CASE ~Fail(c) /\ j.mode = "install"
  <2>1. PICK k : proc' = [proc EXCEPT ![c] = k] /\ SameLoop(k, j)
    BY <1>3, <1>5 DEF FetchToolEffect
  <2> QED
    BY <1>5, <2>1, FrozenOther DEF SameLoop
<1>6. CASE ~Fail(c) /\ j.mode # "install"
  <2>1. PICK k \in Procs :
          /\ proc' = [proc EXCEPT ![c] = k]
          /\ k.pc = AfterTool(j) /\ k.stack = j.stack /\ SameLoop(k, j)
    BY <1>3, <1>6 DEF FetchToolEffect
  <2>2. ~Visiting(k) /\ Fresh(k)
    BY <2>1 DEF Visiting, Fresh, AfterTool
  <2>3. j.mode = "frozen" /\ k.pc = "apply" => Kind[f.pkg] # "cli"
    BY <1>2, <2>1 DEF AfterTool
  <2>4. j.mode = "frozen" =>
          (k.pc \in {"apply", "harness", "write"} => Fetched(f.pkg, j.lk[f.pkg].version))
    BY <2>2, <2>3 DEF Fetched, Visiting
  <2>5. Nested(k) /\ Head(k.stack) = f
    BY <1>2, <1>3, <2>1 DEF Nested
  <2>6. Downloading(k) => Kind[f.pkg] = "cli"
    BY <1>2, <2>1 DEF AfterTool, Downloading
  <2> QED
    BY <1>1, <1>2, <1>3, <2>1, <2>2, <2>4, <2>5, <2>6, FrozenSame
<1> QED
  BY <1>4, <1>5, <1>6

(* What a frozen install carries is the pinned version of the entry.        *)
LEMMA FrozenCarries ==
  ASSUME NEW j, CommandOK(j), FrozenOK(j), Applying(j), j.mode = "frozen",
         NEW f, f = Head(j.stack)
  PROVE  /\ Nested(j) /\ f.pkg \in Packages /\ j.name = NameOf[f.pkg] /\ j.entry.pkg = f.pkg
         /\ IsPinned(j.entry, f.pkg, j.lk[f.pkg].version)
<1>1. Nested(j) /\ Carries(j, f) /\ Resolved(f) /\ Placing(j, f) /\ j \in Procs
  BY DEF CommandOK, Shape, Knows, Applying, FrozenOK
<1>2. f.pkg \in Packages
  BY <1>1, TopFrame
<1>3. f.version = j.lk[f.pkg].version
  BY <1>1 DEF Resolved, Placing
<1> QED
  BY <1>1, <1>2, <1>3, AbsenceAssumption DEF Carries, IsPinned

(* What is written under one name leaves the other packages alone.          *)
Spares(q) == \A p \in Packages : \A v : p # q /\ Placed(p, v) => Placed(p, v)'
Changes(q, h, s) == \A n \in Names : n # NameOf[q] => s[n] = config[h][n]

LEMMA OtherBinaries ==
  ASSUME NamesApart, ClientInv, NEW q \in Packages, Kind[q] = "cli", NEW e,
         bins' = [bins EXCEPT ![BinOf[q]] = e], config' = config
  PROVE  Spares(q) /\ bins'[BinOf[q]] = e
<1>1. ASSUME NEW p \in Packages, NEW v, p # q, Placed(p, v) PROVE Placed(p, v)'
  <2>1. Configured(p, v, Harnesses)'
    BY <1>1 DEF Placed, Configured
  <2>2. ASSUME Kind[p] = "cli" PROVE bins'[BinOf[p]] = bins[BinOf[p]]
    <3>1. BinOf[p] # BinOf[q]
      BY <1>1, <2>2 DEF NamesApart
    <3> QED
      BY <3>1, NamesAssumption DEF ClientInv, FilesOK
  <2>3. Fetched(p, v)'
    BY <1>1, <2>2 DEF Placed, Fetched
  <2> QED
    BY <2>1, <2>3 DEF Placed
<1>2. bins'[BinOf[q]] = e
  BY NamesAssumption DEF ClientInv, FilesOK
<1> QED
  BY <1>1, <1>2 DEF Spares

LEMMA OtherServers ==
  ASSUME NamesApart, ClientInv, NEW q \in Packages, NEW h \in Harnesses, NEW s,
         config' = [config EXCEPT ![h] = s], bins' = bins,
         Changes(q, h, s)
  PROVE  /\ Spares(q) /\ config'[h] = s
         /\ \A g \in Harnesses : g # h => config'[g] = config[g]
<1>1. config'[h] = s /\ \A g \in Harnesses : g # h => config'[g] = config[g]
  BY DEF ClientInv, FilesOK
<1>2. ASSUME NEW p \in Packages, NEW v, p # q, Placed(p, v) PROVE Placed(p, v)'
  <2>1. NameOf[p] # NameOf[q] /\ NameOf[p] \in Names
    BY <1>2, NamesAssumption DEF NamesApart
  <2>2. \A g \in Harnesses : config'[g][NameOf[p]] = config[g][NameOf[p]]
    BY <1>1, <2>1 DEF Changes
  <2> QED
    BY <1>2, <2>2 DEF Placed, Fetched, Configured
<1> QED
  BY <1>1, <1>2 DEF Spares

(* A step of the innermost install that changes only what it is to place.   *)
LEMMA FrozenPlaces ==
  ASSUME Alone, ClientInv, FrozenInv, NEW c \in Clients, NEW j, j = proc[c],
         NEW f, f = Head(j.stack), NEW k, proc' = [proc EXCEPT ![c] = k],
         k.stack = j.stack, SameLoop(k, j), Nested(j),
         j.mode = "frozen" =>
           /\ Downloading(k) => Kind[f.pkg] = "cli"
           /\ Spares(f.pkg)
           /\ k.pc \in {"apply", "harness", "write"} => Fetched(f.pkg, j.lk[f.pkg].version)'
           /\ Visiting(k) => Configured(f.pkg, j.lk[f.pkg].version, Harnesses \ k.left)'
           /\ k.pc # "write"
  PROVE  FrozenInv'
<1>1. CASE j.mode # "frozen"
  BY <1>1, FrozenOther DEF SameLoop
<1>2. CASE j.mode = "frozen"
  <2>1. /\ Visited(j) /\ Placing(j, f) /\ j.targets \subseteq Packages
        /\ k.lk = j.lk /\ k.targets = j.targets /\ k.todo = j.todo /\ Nested(k)
        /\ Head(k.stack) = f
    BY <1>2, CommandFacts DEF FrozenInv, FrozenOK, SameLoop, Procs, Nested
  <2>2. Visited(k)'
    <3>1. ASSUME NEW p \in k.targets \ k.todo, p # f.pkg PROVE Placed(p, k.lk[p].version)'
      <4>1. Placed(p, j.lk[p].version) /\ p \in Packages
        BY <2>1, <3>1 DEF Visited
      <4> QED
        BY <1>2, <2>1, <3>1, <4>1 DEF Spares
    <3> QED
      BY <2>1, <3>1 DEF Visited
  <2>3. Placing(k, Head(k.stack))'
    BY <1>2, <2>1 DEF Placing, Downloading
  <2>4. FrozenOK(k)'
    BY <1>2, <2>2, <2>3 DEF FrozenOK, Fresh
  <2> QED
    BY <2>4, FrozenTo
<1> QED
  BY <1>1, <1>2

LEMMA FrozenBinary ==
  ASSUME Alone, NamesApart, ClientInv, FrozenInv, NEW c \in Clients,
         CreateBinary(c) \/ WriteBinary(c)
  PROVE  FrozenInv'
<1>1. PICK j : j = proc[c]
  OBVIOUS
<1>2. PICK f : f = Head(j.stack)
  OBVIOUS
<1>3. /\ config' = config /\ Applying(j) /\ Nested(j) /\ BinaryEffect(c, j)
      /\ CommandOK(j) /\ FrozenOK(j)
      /\ j.pc \in {"binary", "binaryWrite"}
  BY <1>1, BinaryStep, CommandFacts DEF FrozenInv
<1>4. PICK k \in Procs :
        /\ proc' = [proc EXCEPT ![c] = k] /\ k.stack = j.stack
        /\ SameLoop(k, j) /\ SameEntry(k, j)
        /\ \/ k.pc = "binaryWrite" /\ bins' = [bins EXCEPT ![BinOf[j.entry.pkg]] = Torn]
           \/ k.pc = "apply" /\ bins' = [bins EXCEPT ![BinOf[j.entry.pkg]] = j.entry]
  BY <1>3 DEF BinaryEffect
<1>5. ASSUME j.mode = "frozen"
      PROVE  /\ Downloading(k) => Kind[f.pkg] = "cli"
             /\ Spares(f.pkg)
             /\ k.pc \in {"apply", "harness", "write"} =>
                  Fetched(f.pkg, j.lk[f.pkg].version)'
             /\ ~Visiting(k) /\ k.pc # "write"
  <2>1. /\ f.pkg \in Packages /\ j.entry.pkg = f.pkg /\ Kind[f.pkg] = "cli"
        /\ IsPinned(j.entry, f.pkg, j.lk[f.pkg].version)
    BY <1>2, <1>3, <1>5, FrozenCarries DEF FrozenOK, Placing, Downloading
  <2>2. PICK e : bins' = [bins EXCEPT ![BinOf[f.pkg]] = e] /\ (k.pc = "apply" => e = j.entry)
    BY <1>4, <2>1
  <2>3. /\ Spares(f.pkg) /\ bins'[BinOf[f.pkg]] = e
    BY <1>3, <2>1, <2>2, OtherBinaries
  <2>4. k.pc = "apply" => Fetched(f.pkg, j.lk[f.pkg].version)'
    BY <2>1, <2>2, <2>3 DEF Fetched, IsPinned
  <2> QED
    BY <1>4, <2>1, <2>3, <2>4 DEF Visiting
<1> QED
  BY <1>1, <1>2, <1>3, <1>4, <1>5, FrozenPlaces

LEMMA FrozenLoadState ==
  ASSUME Alone, ClientInv, FrozenInv, NEW c \in Clients, LoadState(c)
  PROVE  FrozenInv'
<1>1. PICK j : j = proc[c]
  OBVIOUS
<1>2. PICK f : f = Head(j.stack)
  OBVIOUS
<1>3. j.pc = "apply" /\ UNCHANGED <<config, bins>> /\ CommandOK(j) /\ FrozenOK(j)
  BY <1>1, LoadStateStep, CommandFacts DEF FrozenInv, Quietly, files
<1>4. PICK k \in Procs :
        /\ proc' = [proc EXCEPT ![c] = k] /\ k.pc = "harness" /\ k.stack = j.stack
        /\ SameLoop(k, j) /\ SameEntry(k, j) /\ k.st = state /\ k.left = Harnesses
  BY <1>1, LoadStateStep
<1>5. Nested(j) /\ Nested(k) /\ Head(k.stack) = f
  BY <1>2, <1>3, <1>4 DEF CommandOK, Shape, Nested
<1>6. j.mode = "frozen" =>
        /\ Fetched(f.pkg, j.lk[f.pkg].version)
        /\ Configured(f.pkg, j.lk[f.pkg].version, Harnesses \ k.left)
  BY <1>2, <1>3, <1>4, <1>5 DEF FrozenOK, Placing, Configured
<1>7. Fresh(k) /\ ~Downloading(k)
  BY <1>4 DEF Fresh, Downloading
<1> QED
  BY <1>1, <1>2, <1>3, <1>4, <1>5, <1>6, <1>7, FrozenSame

LEMMA FrozenReadConfig ==
  ASSUME Alone, ClientInv, FrozenInv, NEW c \in Clients, ReadConfig(c)
  PROVE  FrozenInv'
<1>1. PICK j : j = proc[c]
  OBVIOUS
<1>2. PICK f : f = Head(j.stack)
  OBVIOUS
<1>3. /\ j.pc = "harness" /\ UNCHANGED <<config, bins>> /\ CommandOK(j) /\ FrozenOK(j)
      /\ ReadConfigEffect(c, j)
  BY <1>1, ReadConfigStep, CommandFacts DEF FrozenInv, Quietly, files
<1>4. PICK h \in j.left, k \in Procs :
        /\ proc' = [proc EXCEPT ![c] = k] /\ k.stack = j.stack
        /\ SameLoop(k, j) /\ SameEntry(k, j) /\ h \in Harnesses
        /\ \/ /\ Materialises(j)
              /\ k.pc = "write" /\ k.harness = h /\ k.cfg = config[h] /\ k.cfg \in ConfigOf
              /\ k.left = j.left /\ k.st = j.st
           \/ /\ ~Materialises(j)
              /\ k.pc = "harness" /\ k.left = j.left \ {h}
              /\ k.st = Marked(j, h)
  BY <1>3 DEF ReadConfigEffect
<1>5. CASE j.mode # "frozen"
  BY <1>4, <1>5, FrozenOther DEF SameLoop
<1>6. CASE j.mode = "frozen"
  <2>1. /\ Nested(j) /\ j.entry.pkg = f.pkg /\ Placing(j, f)
    <3>1. j.mode # "uninstall" /\ Applying(j)
      BY <1>3, <1>6 DEF Applying
    <3> QED
      BY <1>2, <1>3, <1>6, <3>1, FrozenCarries DEF FrozenOK
  <2>2. Fetched(f.pkg, j.lk[f.pkg].version)
        /\ Configured(f.pkg, j.lk[f.pkg].version, Harnesses \ j.left)
    BY <1>3, <2>1 DEF Placing, Visiting
  <2>3. Configured(f.pkg, j.lk[f.pkg].version, Harnesses \ k.left)
    <3>1. CASE Materialises(j)
      BY <1>4, <2>2, <3>1
    <3>2. CASE ~Materialises(j)
      BY <2>1, <3>2 DEF Materialises, Configured
    <3> QED
      BY <3>1, <3>2
  <2>4. Fresh(k) /\ ~Downloading(k)
    BY <1>4 DEF Fresh, Downloading
  <2>5. Nested(k) /\ Head(k.stack) = f
    BY <1>2, <1>4, <2>1 DEF Nested
  <2> QED
    BY <1>1, <1>2, <1>3, <1>4, <2>1, <2>2, <2>3, <2>4, <2>5, FrozenSame
<1> QED
  BY <1>5, <1>6

LEMMA FrozenWriteConfig ==
  ASSUME Alone, NamesApart, ClientInv, FrozenInv, NEW c \in Clients, WriteConfig(c)
  PROVE  FrozenInv'
<1>1. PICK j : j = proc[c]
  OBVIOUS
<1>2. PICK f : f = Head(j.stack)
  OBVIOUS
<1>3. /\ j.pc = "write" /\ bins' = bins /\ j.harness \in Harnesses
      /\ config' = [config EXCEPT ![j.harness] = Servers(j)]
      /\ WriteConfigEffect(c, j) /\ CommandOK(j) /\ FrozenOK(j)
  BY <1>1, WriteConfigStep, CommandFacts DEF FrozenInv
<1>4. PICK k \in Procs :
        /\ proc' = [proc EXCEPT ![c] = k] /\ k.stack = j.stack
        /\ SameLoop(k, j) /\ SameEntry(k, j)
        /\ k.pc = "harness" /\ k.left = j.left \ {j.harness}
        /\ k.st = Marked(j, j.harness)
  BY <1>3 DEF WriteConfigEffect
<1>5. CASE j.mode # "frozen"
  BY <1>4, <1>5, FrozenOther DEF SameLoop
<1>6. CASE j.mode = "frozen"
  <2>1. Applying(j)
    BY <1>3, <1>6 DEF Applying
  <2>2. /\ Nested(j) /\ f.pkg \in Packages /\ j.name = NameOf[f.pkg]
        /\ IsPinned(j.entry, f.pkg, j.lk[f.pkg].version)
    BY <1>2, <1>3, <1>6, <2>1, FrozenCarries
  <2>3. /\ Fetched(f.pkg, j.lk[f.pkg].version)
        /\ Configured(f.pkg, j.lk[f.pkg].version, Harnesses \ j.left)
        /\ j.cfg = config[j.harness] /\ j.cfg \in ConfigOf
    BY <1>2, <1>3, <1>6, <2>2 DEF FrozenOK, Placing, Visiting, Fresh, CommandOK, Shape
  <2>4. PICK s : s = Servers(j)
    OBVIOUS
  <2>5. /\ \A n \in Names : n # NameOf[f.pkg] => s[n] = config[j.harness][n]
        /\ s[NameOf[f.pkg]] = j.entry
    BY <2>2, <2>3, <2>4, NamesAssumption DEF Servers, ConfigOf
  <2>6. /\ Spares(f.pkg) /\ config'[j.harness] = s
        /\ \A g \in Harnesses : g # j.harness => config'[g] = config[g]
    <3>1. PICK q \in Packages : q = f.pkg
      BY <2>2
    <3>2. PICK h \in Harnesses : h = j.harness
      BY <1>3
    <3>3. config' = [config EXCEPT ![h] = s] /\ bins' = bins
      BY <1>3, <2>4, <3>2
    <3>4. Changes(q, h, s)
      BY <2>5, <3>1, <3>2 DEF Changes
    <3>5. /\ Spares(q) /\ config'[h] = s
          /\ \A g \in Harnesses : g # h => config'[g] = config[g]
      BY ONLY NamesApart, ClientInv, q \in Packages, h \in Harnesses, <3>3, <3>4, OtherServers
    <3> QED
      BY <3>1, <3>2, <3>5
  <2>7. Configured(f.pkg, j.lk[f.pkg].version, Harnesses \ k.left)'
    <3>1. ASSUME Kind[f.pkg] = "mcp", NEW h \in Harnesses \ k.left
          PROVE  IsPinned(config'[h][NameOf[f.pkg]], f.pkg, j.lk[f.pkg].version)
      <4>1. CASE h = j.harness
        BY <2>2, <2>5, <2>6, <4>1
      <4>2. CASE h # j.harness
        <5>1. h \in Harnesses \ j.left
          BY <1>4, <3>1, <4>2
        <5> QED
          BY <2>3, <2>6, <3>1, <4>2, <5>1 DEF Configured
      <4> QED
        BY <4>1, <4>2
    <3> QED
      BY <3>1 DEF Configured, IsPinned
  <2>8. Fetched(f.pkg, j.lk[f.pkg].version)'
    BY <1>3, <2>3 DEF Fetched
  <2>9. /\ proc' = [proc EXCEPT ![c] = k] /\ k.stack = j.stack /\ SameLoop(k, j)
        /\ k.pc # "write" /\ ~Downloading(k)
    BY <1>4 DEF Downloading
  <2> QED
    BY ONLY Alone, ClientInv, FrozenInv, c \in Clients, <1>1, <1>2, <2>2, <2>6, <2>7, <2>8,
       <2>9, FrozenPlaces
<1> QED
  BY <1>5, <1>6

LEMMA FrozenSave ==
  ASSUME Alone, ClientInv, FrozenInv, NEW c \in Clients, SaveState(c)
  PROVE  FrozenInv'
<1>1. PICK j : j = proc[c]
  OBVIOUS
<1>2. PICK f : f = Head(j.stack)
  OBVIOUS
<1>3. /\ j.pc = "harness" /\ j.left = {} /\ UNCHANGED <<config, bins>>
      /\ SaveStateEffect(c, j, f) /\ FrozenOK(j)
  BY <1>1, <1>2, SaveStateStep DEF FrozenInv
<1>4. CASE proc' = [proc EXCEPT ![c] = Idle]
  BY <1>4, FrozenFail DEF Fail, Step
<1>5. CASE proc' # [proc EXCEPT ![c] = Idle]
  <2>1. PICK k \in Procs :
          /\ proc' = [proc EXCEPT ![c] = k] /\ Nested(j)
          /\ k.mode = j.mode /\ k.targets = j.targets /\ k.todo = j.todo
          /\ \/ /\ j.mode = "install" /\ k.pc = "companions" /\ k.stack = j.stack
                /\ k.lk = j.lk /\ k.changed = j.changed
             \/ /\ j.mode = "frozen" /\ k.pc = "next" /\ k.stack = << >>
                /\ k.lk = j.lk /\ k.changed = j.changed
             \/ /\ j.mode = "upgrade" /\ k.pc = "next" /\ k.stack = << >>
                /\ k.lk = Upserted(j.lk, f) /\ k.changed
    BY <1>3, <1>5 DEF SaveStateEffect
  <2>2. CASE j.mode # "frozen"
    BY <2>1, <2>2, FrozenOther
  <2>3. CASE j.mode = "frozen"
    <3>1. k.pc = "next" /\ k.stack = << >> /\ k.lk = j.lk
      BY <2>1, <2>3
    <3>2. Placed(f.pkg, j.lk[f.pkg].version) /\ Visited(j)
      <4>1. Placing(j, f) /\ Visited(j)
        BY <1>2, <1>3, <2>1, <2>3 DEF FrozenOK
      <4>2. Fetched(f.pkg, j.lk[f.pkg].version)
            /\ Configured(f.pkg, j.lk[f.pkg].version, Harnesses)
        BY <1>3, <4>1 DEF Placing, Visiting
      <4> QED
        BY <4>1, <4>2 DEF Placed
    <3>3. ASSUME NEW p \in k.targets \ k.todo PROVE Placed(p, k.lk[p].version)'
      <4>1. Placed(p, j.lk[p].version)
        BY <1>2, <2>1, <3>2, <3>3 DEF Visited
      <4> QED
        BY <1>3, <3>1, <4>1, PlacedStays
    <3>4. Visited(k)'
      BY <3>3 DEF Visited
    <3>5. FrozenOK(k)'
      BY <3>1, <3>4 DEF FrozenOK, Fresh, Nested
    <3> QED
      BY <2>1, <3>5, FrozenTo
  <2> QED
    BY <2>2, <2>3
<1> QED
  BY <1>4, <1>5

LEMMA FrozenNested ==
  ASSUME Alone, ClientInv, NEW c \in Clients,
         \/ LoadCompanions(c) \/ InstallNext(c) \/ ReadLock(c)
         \/ CreateLock(c) \/ WriteLock(c)
  PROVE  FrozenInv'
<1>1. PICK j : j = proc[c]
  OBVIOUS
<1>2. PICK f : f = Head(j.stack)
  OBVIOUS
<1>3. CommandOK(j) /\ j.pc \in {"companions", "more", "lockCreate", "lockWrite"}
  BY <1>1, CommandFacts
  DEF LoadCompanions, InstallNext, ReadLock, CreateLock, WriteLock, At
<1>4. j.mode # "frozen"
  BY <1>3 DEF CommandOK, Shape
<1>5. CASE Fail(c)
  BY <1>5, FrozenFail
<1>6. CASE ~Fail(c) /\ (LoadCompanions(c) \/ InstallNext(c) \/ ReadLock(c))
  <2>1. LoadCompanionsEffect(c, j, f) \/ InstallNextEffect(c, j, f) \/ ReadLockEffect(c, j, f)
    BY <1>1, <1>2, <1>6, LoadCompanionsStep, InstallNextStep, ReadLockStep
  <2>2. PICK k : proc' = [proc EXCEPT ![c] = k] /\ k.mode = j.mode
    BY <1>6, <2>1 DEF LoadCompanionsEffect, InstallNextEffect, ReadLockEffect, SameLoop
  <2> QED
    BY <1>4, <2>2, FrozenOther
<1>7. CASE ~Fail(c) /\ CreateLock(c)
  <2>1. PICK k \in Procs :
          /\ proc' = [proc EXCEPT ![c] = k]
          /\ k.pc = "lockWrite" /\ k.stack = j.stack /\ SameLoop(k, j)
    BY <1>1, <1>7, CreateLockStep
  <2> QED
    BY <1>4, <2>1, FrozenOther DEF SameLoop
<1>8. CASE ~Fail(c) /\ WriteLock(c)
  <2>1. WriteLockEffect(c, j)
    BY <1>1, <1>8, WriteLockStep
  <2>2. PICK k : proc' = [proc EXCEPT ![c] = k] /\ k.mode = "install"
    BY <1>8, <2>1 DEF WriteLockEffect, Fail, Step
  <2> QED
    BY <2>2, FrozenOther
<1> QED
  BY <1>3, <1>5, <1>6, <1>7, <1>8

(* One command at a time, no two packages of the same manifest name and no  *)
(* two tools of the same executable: a frozen install that reaches its end  *)
(* has left each entry in every harness or among the executables at the     *)
(* pinned version, all side by side, whatever upgrades, crashes and torn    *)
(* downloads left there before.                                             *)
THEOREM FrozenReproduces ==
  ASSUME Alone, NamesApart
  PROVE  Spec => []FrozenReproducesLock
<1>1. Init => FrozenInv
  <2>1. Idle.mode # "frozen"
    BY IdleFacts, AbsenceAssumption DEF Modes
  <2> QED
    BY <2>1 DEF Init, FrozenInv, FrozenOK
<1>2. ClientInv /\ FrozenInv /\ [Next]_vars => FrozenInv'
  <2> SUFFICES ASSUME ClientInv, FrozenInv, [Next]_vars PROVE FrozenInv'
    OBVIOUS
  <2>1. ASSUME NEW p \in Packages, NEW v \in Versions, NEW k \in Contents, Publish(p, v, k)
        PROVE  FrozenInv'
    BY <2>1, FrozenUnmoved DEF Publish, files
  <2>2. ASSUME NEW c \in Clients, ApiFails(c) \/ AdapterFails(c) \/ Crash(c)
        PROVE  FrozenInv'
    BY <2>2, FrozenFail DEF ApiFails, AdapterFails, Crash
  <2>3. ASSUME NEW c \in Clients, Local(c) PROVE FrozenInv'
    BY <2>3, FrozenLoop, FrozenBinary, FrozenLoadState, FrozenReadConfig, FrozenWriteConfig,
       FrozenSave, FrozenNested DEF Local
  <2>4. CASE UNCHANGED vars
    BY <2>4, FrozenUnmoved DEF vars, files
  <2> QED
    BY <2>1, <2>2, <2>3, <2>4, FrozenRun, FrozenResolve, FrozenFetchTool DEF Next
<1>3. ClientInv /\ FrozenInv => FrozenReproducesLock
  <2> SUFFICES ASSUME ClientInv, FrozenInv, NEW c \in Clients, FrozenDone(c),
                      NEW p \in proc[c].targets
               PROVE  /\ Kind[p] = "mcp" =>
                           \A h \in Harnesses :
                             IsPinned(config[h][NameOf[p]], p, proc[c].lk[p].version)
                      /\ Kind[p] = "cli" =>
                           IsPinned(bins[BinOf[p]], p, proc[c].lk[p].version)
    BY DEF FrozenReproducesLock
  <2>1. CommandOK(proc[c]) /\ FrozenOK(proc[c])
    BY CommandFacts DEF FrozenInv
  <2>2. Visited(proc[c]) /\ ~Nested(proc[c]) /\ proc[c].todo = {}
    BY <2>1 DEF FrozenDone, FrozenOK, CommandOK, Shape, At
  <2>3. Placed(p, proc[c].lk[p].version)
    BY <2>2 DEF Visited
  <2> QED
    BY <2>3 DEF Placed, Fetched, Configured
<1> QED
  BY <1>1, <1>2, <1>3, ClientInvariant, PTL DEF Spec

=============================================================================
