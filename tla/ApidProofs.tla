------------------------------ MODULE ApidProofs ------------------------------
(***************************************************************************)
(* Proofs about moderation and the process it runs in, for any packages,   *)
(* handlers, processes and bounds: first PackageState for itself, then     *)
(* Apid, across restarts and migrations.                                   *)
(***************************************************************************)
EXTENDS Apid, TLAPS

-----------------------------------------------------------------------------
(***************************************************************************)
(* PackageState.                                                           *)
(***************************************************************************)
(* What a withdrawal or a deprecation has done to its row.                  *)
InForce(table, a) ==
  /\ a.op = "withdraw" => table[a.key].withdrawn
  /\ a.op = "deprecate" => table[a.key].deprecated # None

(* The inductive invariant: what is logged, and what is about to be logged, *)
(* is in force, and a deprecation in flight carries a message.              *)
Moderated ==
  /\ \A i \in 1 .. Len(audit) : InForce(rows, audit[i])
  /\ \A h \in Handlers : calls[h].pc = "audit" => InForce(rows, calls[h].action)
  /\ \A h \in Handlers :
       calls[h].pc # "idle" /\ calls[h].action.op = "deprecate" => calls[h].action.msg # None

(* A statement keeps the table well-formed ...                              *)
LEMMA ExecutedType ==
  ASSUME NEW table \in [Keys -> Rows], NEW a \in Actions
  PROVE  Executed(table, a) \in [Keys -> Rows]
<1>1. a.op \in Ops /\ a.key \in Keys /\ a.msg \in Messages \cup {None}
  BY DEF Actions
<1>2. table[a.key] \in Rows
  BY <1>1
<1>3. Apply(table[a.key], a) \in Rows
  BY <1>1, <1>2 DEF Apply, Rows, Ops
<1> QED
  BY <1>1, <1>3 DEF Executed

(* ... takes back no withdrawal and no deprecation of any row, provided it  *)
(* carries a message when it deprecates ...                                 *)
LEMMA ExecutedKeeps ==
  ASSUME NEW table \in [Keys -> Rows], NEW a \in Actions, NEW b \in Actions,
         a.op = "deprecate" => a.msg # None,
         InForce(table, b)
  PROVE  InForce(Executed(table, a), b)
<1>1. a.op \in Ops /\ a.key \in Keys /\ b.key \in Keys
  BY DEF Actions
<1>2. table[a.key] \in Rows
  BY <1>1
<1>3. Executed(table, a)[b.key] = IF b.key = a.key THEN Apply(table[a.key], a)
                                                   ELSE table[b.key]
  BY <1>1 DEF Executed
<1>4. /\ table[a.key].withdrawn => Apply(table[a.key], a).withdrawn
      /\ table[a.key].deprecated # None => Apply(table[a.key], a).deprecated # None
  BY <1>1, <1>2 DEF Apply, Rows, Ops
<1> QED
  BY <1>3, <1>4 DEF InForce

(* ... and puts what it says in force.                                      *)
LEMMA ExecutedInForce ==
  ASSUME NEW table \in [Keys -> Rows], NEW a \in Actions,
         a.op = "deprecate" => a.msg # None
  PROVE  InForce(Executed(table, a), a)
<1>1. a.op \in Ops /\ a.key \in Keys
  BY DEF Actions
<1>2. table[a.key] \in Rows
  BY <1>1
<1>3. Executed(table, a)[a.key] = Apply(table[a.key], a)
  BY <1>1 DEF Executed
<1>4. /\ a.op = "withdraw" => Apply(table[a.key], a).withdrawn
      /\ a.op = "deprecate" => Apply(table[a.key], a).deprecated # None
  BY <1>1, <1>2 DEF Apply, Rows, Ops
<1> QED
  BY <1>3, <1>4 DEF InForce

(* The state stays well-typed.                                              *)
THEOREM TypeCorrect == Spec => []TypeOK
<1>1. Init => TypeOK
  <2> SUFFICES ASSUME Init PROVE TypeOK
    OBVIOUS
  <2>1. Clean \in Rows
    BY DEF Clean, Rows
  <2>2. NoCall \in Calls
    BY DEF NoCall, Calls
  <2> QED
    BY <2>1, <2>2, BoundsAssumption DEF Init, TypeOK
<1>2. TypeOK /\ [Next]_vars => TypeOK'
  <2> SUFFICES ASSUME TypeOK, [Next]_vars PROVE TypeOK'
    OBVIOUS
  <2> USE DEF TypeOK
  <2>0. NoCall \in Calls
    BY DEF NoCall, Calls
  <2>8. \A g \in Handlers : calls[g].pc # "idle" =>
          calls[g].action \in Actions /\ calls[g].action.key \in Keys
    <3> SUFFICES ASSUME NEW g \in Handlers, calls[g].pc # "idle"
                 PROVE  calls[g].action \in Actions /\ calls[g].action.key \in Keys
      OBVIOUS
    <3>1. calls[g].action \in Actions
      BY DEF Calls
    <3> QED
      BY <3>1 DEF Actions
  <2>1. ASSUME NEW h \in Handlers, NEW a \in Actions, Post(h, a) PROVE TypeOK'
    <3>1. [pc |-> "exec", action |-> a] \in Calls
      BY DEF Calls
    <3>2. a.key \in Keys
      BY DEF Actions
    <3>3. disturbed' \subseteq Keys
      BY <2>1, <3>2 DEF Post
    <3> QED
      BY <2>1, <3>1, <3>3, BoundsAssumption DEF Post
  <2>2. ASSUME NEW h \in Handlers, Exec(h) PROVE TypeOK'
    <3>1. calls[h].action \in Actions
      BY <2>2 DEF Exec, Calls
    <3>2. [calls[h] EXCEPT !.pc = "audit"] \in Calls
      BY <2>2 DEF Exec, Calls
    <3>3. rows' \in [Keys -> Rows]
      BY <2>2, <3>1, ExecutedType DEF Exec
    <3> QED
      BY <2>2, <3>2, <3>3 DEF Exec
  <2>3. ASSUME NEW h \in Handlers, ExecFails(h) PROVE TypeOK'
    BY <2>0, <2>3 DEF ExecFails
  <2>4. ASSUME NEW h \in Handlers, AuditInsert(h) PROVE TypeOK'
    <3>1. calls[h].action \in Actions
      BY <2>4 DEF AuditInsert, Calls
    <3> QED
      BY <2>0, <2>4, <3>1 DEF AuditInsert
  <2>5. ASSUME NEW h \in Handlers, AuditFails(h) PROVE TypeOK'
    <3>1. disturbed' \subseteq Keys
      BY <2>5, <2>8 DEF AuditFails
    <3> QED
      BY <2>0, <2>5, <3>1, BoundsAssumption DEF AuditFails
  <2>6. ASSUME NEW H \in SUBSET Handlers, Lose(H) PROVE TypeOK'
    <3>1. disturbed' \subseteq Keys
      BY <2>6, <2>8 DEF Lose, UnloggedBy
    <3> QED
      BY <2>0, <2>6, <3>1, BoundsAssumption DEF Lose
  <2>7. CASE UNCHANGED vars
    BY <2>7 DEF vars
  <2> QED
    BY <2>1, <2>2, <2>3, <2>4, <2>5, <2>6, <2>7 DEF Next
<1> QED
  BY <1>1, <1>2, PTL DEF Spec

(* What the audit log says was withdrawn or deprecated is, whatever other   *)
(* requests run, fail or are lost.                                          *)
THEOREM AuditedStaysInForce == Spec => []AuditedHolds
<1>1. Init => Moderated
  BY DEF Init, Moderated, NoCall
<1>2. TypeOK /\ Moderated /\ [Next]_vars => Moderated'
  <2> SUFFICES ASSUME TypeOK, Moderated, [Next]_vars PROVE Moderated'
    OBVIOUS
  <2> DEFINE Logged == \A i \in 1 .. Len(audit) : InForce(rows, audit[i])
             Done == \A h \in Handlers :
                       calls[h].pc = "audit" => InForce(rows, calls[h].action)
             Messaged == \A h \in Handlers :
                calls[h].pc # "idle" /\ calls[h].action.op = "deprecate"
                  => calls[h].action.msg # None
  <2>0. /\ Logged /\ Done /\ Messaged
        /\ \A h \in Handlers : calls[h] \in Calls
        /\ rows \in [Keys -> Rows] /\ audit \in Seq(Actions)
        /\ calls \in [Handlers -> Calls]
    BY DEF Moderated, TypeOK
  <2>1. ASSUME NEW h \in Handlers, NEW a \in Actions, Post(h, a) PROVE Moderated'
    <3>1. calls' = [calls EXCEPT ![h] = [pc |-> "exec", action |-> a]]
          /\ rows' = rows /\ audit' = audit /\ (a.op = "deprecate" => a.msg # None)
      BY <2>1 DEF Post
    <3> QED
      BY <2>0, <3>1 DEF Moderated
  <2>2. ASSUME NEW h \in Handlers, Exec(h) PROVE Moderated'
    <3> DEFINE a == calls[h].action
    <3>1. /\ calls[h].pc = "exec" /\ audit' = audit /\ rows' = Executed(rows, a)
          /\ calls' = [calls EXCEPT ![h] = [calls[h] EXCEPT !.pc = "audit"]]
      BY <2>2 DEF Exec
    <3>2. a \in Actions /\ (a.op = "deprecate" => a.msg # None)
      BY <2>0, <3>1 DEF Calls
    <3>3. \A b \in Actions : InForce(rows, b) => InForce(rows', b)
      BY <2>0, <3>1, <3>2, ExecutedKeeps
    <3>4. InForce(rows', a)
      BY <2>0, <3>1, <3>2, ExecutedInForce
    <3>5. /\ calls'[h].pc = "audit" /\ calls'[h].action = a
          /\ \A g \in Handlers \ {h} : calls'[g] = calls[g]
      BY <2>0, <3>1 DEF Calls
    <3>6. Logged'
      BY <2>0, <3>1, <3>3
    <3>7. ASSUME NEW g \in Handlers, calls'[g].pc = "audit"
          PROVE  InForce(rows', calls'[g].action)
      <4>1. CASE g = h
        BY <3>4, <3>5, <4>1
      <4>2. CASE g # h
        <5>1. calls[g].action \in Actions /\ InForce(rows, calls[g].action)
          BY <2>0, <3>5, <3>7, <4>2 DEF Calls
        <5> QED
          BY <3>3, <3>5, <4>2, <5>1
      <4> QED
        BY <4>1, <4>2
    <3>8. Messaged'
      BY <2>0, <3>2, <3>5
    <3> QED
      BY <3>6, <3>7, <3>8 DEF Moderated
  <2>3. ASSUME NEW h \in Handlers, ExecFails(h) PROVE Moderated'
    BY <2>0, <2>3 DEF ExecFails, Moderated, NoCall
  <2>4. ASSUME NEW h \in Handlers, AuditInsert(h) PROVE Moderated'
    <3>1. /\ calls[h].pc = "audit" /\ rows' = rows
          /\ audit' = Append(audit, calls[h].action)
          /\ calls' = [calls EXCEPT ![h] = NoCall]
      BY <2>4 DEF AuditInsert
    <3>2. calls[h].action \in Actions /\ InForce(rows, calls[h].action)
      BY <2>0, <3>1 DEF Calls
    <3>3. Logged'
      <4> SUFFICES ASSUME NEW i \in 1 .. Len(audit') PROVE InForce(rows', audit'[i])
        OBVIOUS
      <4>1. CASE i \in 1 .. Len(audit)
        <5>1. audit'[i] = audit[i]
          BY <2>0, <3>1, <3>2, <4>1
        <5> QED
          BY <2>0, <3>1, <4>1, <5>1
      <4>2. CASE i = Len(audit) + 1
        <5>1. audit'[i] = calls[h].action
          BY <2>0, <3>1, <3>2, <4>2
        <5> QED
          BY <3>1, <3>2, <5>1
      <4> QED
        BY <2>0, <3>1, <3>2, <4>1, <4>2
    <3>4. Done' /\ Messaged'
      BY <2>0, <3>1 DEF NoCall
    <3> QED
      BY <3>3, <3>4 DEF Moderated
  <2>5. ASSUME NEW h \in Handlers, AuditFails(h) PROVE Moderated'
    BY <2>0, <2>5 DEF AuditFails, Moderated, NoCall
  <2>6. ASSUME NEW H \in SUBSET Handlers, Lose(H) PROVE Moderated'
    BY <2>0, <2>6 DEF Lose, Moderated, NoCall
  <2>7. CASE UNCHANGED vars
    BY <2>0, <2>7 DEF vars, Moderated
  <2> QED
    BY <2>1, <2>2, <2>3, <2>4, <2>5, <2>6, <2>7 DEF Next
<1>3. Moderated => AuditedHolds
  BY DEF Moderated, AuditedHolds, InForce
<1> QED
  BY <1>1, <1>2, <1>3, TypeCorrect, PTL DEF Spec

-----------------------------------------------------------------------------
(* The tables that a replay of a log goes through.                          *)
Blank == [k \in Keys |-> Clean]
Runs(f, log) ==
  f = [i \in 0 .. Len(log) |->
         IF i = 0 THEN Blank ELSE Executed(f[i - 1], log[i])]

(* There is one such run.  It is carried along as the log grows.            *)
Replayable(log) ==
  /\ \E f : Runs(f, log)
  /\ \A f, g : Runs(f, log) /\ Runs(g, log) => f = g

LEMMA ReplayIsRun ==
  ASSUME NEW log \in Seq(Actions), Replayable(log), NEW f, Runs(f, log)
  PROVE  Replay(log) = f[Len(log)]
<1> DEFINE table == CHOOSE t : Runs(t, log)
<1>1. Runs(table, log)
  BY DEF Replayable
<1>2. table = f
  BY <1>1 DEF Replayable
<1>3. Replay(log) = table[Len(log)]
  BY DEF Replay, Runs, Blank
<1> QED
  BY <1>2, <1>3

(* The empty log leaves the table blank ...                                 *)
LEMMA ReplayEmpty ==
  Replayable(<< >>) /\ Replay(<< >>) = Blank
<1>0. << >> \in Seq(Actions) /\ Len(<< >>) = 0
  OBVIOUS
<1>1. PICK e \in Seq(Actions) : e = << >> /\ Len(e) = 0
  BY <1>0
<1>2. PICK f : f = [i \in 0 .. 0 |-> Blank]
  OBVIOUS
<1>3. \A g : Runs(g, e) <=> g = f
  <2>1. \A i \in 0 .. 0 : i = 0
    OBVIOUS
  <2> QED
    BY <1>1, <1>2, <2>1 DEF Runs
<1>4. Replayable(e)
  BY <1>3 DEF Replayable
<1>5. f[0] = Blank
  BY <1>2
<1> QED
  BY <1>1, <1>3, <1>4, <1>5, ReplayIsRun

(* ... and one more action is executed on what the ones before it made.     *)
LEMMA RunPrefix ==
  ASSUME NEW log \in Seq(Actions), NEW a \in Actions, NEW f, Runs(f, Append(log, a))
  PROVE  /\ Runs([i \in 0 .. Len(log) |-> f[i]], log)
         /\ f = [i \in 0 .. Len(log) + 1 |-> f[i]]
         /\ f[Len(log) + 1] = Executed(f[Len(log)], a)
<1> DEFINE n == Len(log)
           long == Append(log, a)
           F == [i \in 0 .. n |-> f[i]]
<1>1. n \in Nat /\ Len(long) = n + 1 /\ long[n + 1] = a /\ \A i \in 1 .. n : long[i] = log[i]
  OBVIOUS
<1>2. f = [i \in 0 .. n + 1 |-> IF i = 0 THEN Blank ELSE Executed(f[i - 1], long[i])]
  BY <1>1 DEF Runs
<1> HIDE DEF n, long
<1>3. \A i \in 0 .. n + 1 : f[i] = IF i = 0 THEN Blank ELSE Executed(f[i - 1], long[i])
  BY <1>2
<1>4. f = [i \in 0 .. n + 1 |-> f[i]]
  BY <1>2
<1>5. f[n + 1] = Executed(f[n], a)
  <2>1. n + 1 \in 0 .. n + 1 /\ n + 1 # 0 /\ (n + 1) - 1 = n
    BY <1>1
  <2> QED
    BY <1>1, <1>3, <2>1
<1>6. \A i \in 0 .. n : F[i] = IF i = 0 THEN Blank ELSE Executed(F[i - 1], log[i])
  <2> SUFFICES ASSUME NEW i \in 0 .. n
               PROVE  F[i] = IF i = 0 THEN Blank ELSE Executed(F[i - 1], log[i])
    OBVIOUS
  <2>1. F[i] = f[i] /\ i \in 0 .. n + 1
    BY <1>1
  <2>2. CASE i = 0
    BY <1>3, <2>1, <2>2
  <2>3. CASE i # 0
    <3>1. i - 1 \in 0 .. n /\ i \in 1 .. n
      BY <1>1, <2>3
    <3>2. F[i - 1] = f[i - 1] /\ long[i] = log[i]
      BY <1>1, <3>1
    <3> QED
      BY <1>3, <2>1, <2>3, <3>2
  <2> QED
    BY <2>2, <2>3
<1>7. Runs(F, log)
  BY <1>6 DEF Runs, n
<1> QED
  BY <1>4, <1>5, <1>7 DEF n

LEMMA ReplayAppend ==
  ASSUME NEW log \in Seq(Actions), NEW a \in Actions, Replayable(log)
  PROVE  /\ Replayable(Append(log, a))
         /\ Replay(Append(log, a)) = Executed(Replay(log), a)
<1> DEFINE n == Len(log)
           long == Append(log, a)
<1>1. /\ n \in Nat /\ long \in Seq(Actions) /\ Len(long) = n + 1 /\ long[n + 1] = a
      /\ \A i \in 1 .. n : long[i] = log[i]
  OBVIOUS
<1>2. PICK f : Runs(f, log)
  BY DEF Replayable
<1>3. PICK g : g = [i \in 0 .. n + 1 |-> IF i = n + 1 THEN Executed(f[n], a) ELSE f[i]]
  OBVIOUS
<1>4. \A i \in 0 .. n : f[i] = IF i = 0 THEN Blank ELSE Executed(f[i - 1], log[i])
  BY <1>2 DEF Runs
<1>5. Runs(g, long)
  <2> SUFFICES ASSUME NEW i \in 0 .. n + 1
               PROVE  g[i] = IF i = 0 THEN Blank ELSE Executed(g[i - 1], long[i])
    BY <1>1, <1>3 DEF Runs
  <2>1. CASE i = 0
    <3>1. i \in 0 .. n /\ i # n + 1
      BY <1>1, <2>1
    <3> QED
      BY <1>3, <1>4, <2>1, <3>1
  <2>2. CASE i \in 1 .. n
    <3>1. i \in 0 .. n /\ i # n + 1 /\ i # 0 /\ i - 1 \in 0 .. n /\ i - 1 # n + 1
          /\ i - 1 \in 0 .. n + 1
      BY <1>1, <2>2
    <3>2. g[i] = f[i] /\ g[i - 1] = f[i - 1] /\ long[i] = log[i]
      BY <1>1, <1>3, <2>2, <3>1
    <3> QED
      BY <1>4, <3>1, <3>2
  <2>3. CASE i = n + 1
    <3>1. i # 0 /\ i - 1 = n /\ n \in 0 .. n + 1 /\ n # n + 1
      BY <1>1, <2>3
    <3>2. g[i] = Executed(f[n], a) /\ g[i - 1] = f[n] /\ long[i] = a
      BY <1>1, <1>3, <2>3, <3>1
    <3> QED
      BY <3>1, <3>2
  <2> QED
    BY <1>1, <2>1, <2>2, <2>3
<1>6. ASSUME NEW x, NEW y, Runs(x, long), Runs(y, long)
      PROVE  x = y
  <2> DEFINE X == [i \in 0 .. n |-> x[i]]
             Y == [i \in 0 .. n |-> y[i]]
  <2>1. /\ Runs(X, log) /\ x = [i \in 0 .. n + 1 |-> x[i]]
        /\ x[n + 1] = Executed(x[n], a)
    BY <1>6, RunPrefix
  <2>2. /\ Runs(Y, log) /\ y = [i \in 0 .. n + 1 |-> y[i]]
        /\ y[n + 1] = Executed(y[n], a)
    BY <1>6, RunPrefix
  <2>3. X = Y
    BY <2>1, <2>2 DEF Replayable
  <2>4. \A i \in 0 .. n : x[i] = y[i]
    BY <2>3
  <2>5. \A i \in 0 .. n + 1 : x[i] = y[i]
    <3>1. \A i \in 0 .. n + 1 : i \in 0 .. n \/ i = n + 1
      BY <1>1
    <3>2. n \in 0 .. n
      BY <1>1
    <3> QED
      BY <2>1, <2>2, <2>4, <3>1, <3>2
  <2> QED
    BY <2>1, <2>2, <2>5
<1>7. Replayable(long)
  BY <1>5, <1>6 DEF Replayable
<1>8. Replay(long) = g[n + 1] /\ Replay(log) = f[n]
  BY <1>1, <1>2, <1>5, <1>7, ReplayIsRun
<1>9. g[n + 1] = Executed(f[n], a)
  BY <1>1, <1>3
<1> QED
  BY <1>7, <1>8, <1>9

(* The inductive invariant: the table is what the log replays to, but for   *)
(* the row of a request that has run and is about to be logged, which is    *)
(* ahead by that request; and requests at the same row disturb it.          *)
Runnable == Replayable(audit) /\ Replay(audit) \in [Keys -> Rows]
OneEach ==
  \A g, h \in Handlers :
    /\ g # h /\ calls[g].pc # "idle" /\ calls[h].pc # "idle"
    /\ calls[g].action.key = calls[h].action.key
    => calls[g].action.key \in disturbed
LoggedRows == \A k \in Keys \ (disturbed \cup Unlogged) : Replay(audit)[k] = rows[k]
AheadRows ==
  \A h \in Handlers : calls[h].pc = "audit" /\ calls[h].action.key \notin disturbed =>
    rows[calls[h].action.key] = Apply(Replay(audit)[calls[h].action.key], calls[h].action)
Explained == Runnable /\ OneEach /\ LoggedRows /\ AheadRows

(* What a request in flight addresses.                                      *)
LEMMA CallTypes ==
  ASSUME TypeOK, NEW h \in Handlers, calls[h].pc # "idle"
  PROVE  /\ calls[h].pc \in {"exec", "audit"} /\ calls[h].action \in Actions
         /\ calls[h].action.key \in Keys
<1>1. calls[h] \in Calls
  BY DEF TypeOK
<1>2. calls[h].pc \in {"exec", "audit"} /\ calls[h].action \in Actions
  BY <1>1 DEF Calls
<1> QED
  BY <1>2 DEF Actions

(* A statement changes the row it addresses and no other.                   *)
LEMMA ExecutedRow ==
  ASSUME NEW table \in [Keys -> Rows], NEW a \in Actions
  PROVE  /\ Executed(table, a) \in [Keys -> Rows]
         /\ Executed(table, a)[a.key] = Apply(table[a.key], a)
         /\ \A k \in Keys \ {a.key} : Executed(table, a)[k] = table[k]
<1>1. a.key \in Keys
  BY DEF Actions
<1> QED
  BY <1>1, ExecutedType DEF Executed

(* One step of one request.                                                 *)
LEMMA PostExplained ==
  ASSUME TypeOK, Explained, NEW h \in Handlers, NEW a \in Actions, Post(h, a)
  PROVE  Explained'
<1>1. /\ calls[h].pc = "idle" /\ rows' = rows /\ audit' = audit
      /\ calls' = [calls EXCEPT ![h] = [pc |-> "exec", action |-> a]]
      /\ disturbed' = disturbed \cup ({a.key} \cap Busy)
  BY DEF Post
<1>2. /\ calls'[h].pc = "exec" /\ calls'[h].action = a
      /\ \A g \in Handlers \ {h} : calls'[g] = calls[g]
  BY <1>1 DEF TypeOK
<1>3. Unlogged' = Unlogged
  BY <1>1, <1>2 DEF Unlogged, UnloggedBy
<1>4. OneEach'
  <2> SUFFICES ASSUME NEW f \in Handlers, NEW g \in Handlers, f # g,
                      calls'[f].pc # "idle", calls'[g].pc # "idle",
                      calls'[f].action.key = calls'[g].action.key
               PROVE  calls'[f].action.key \in disturbed'
    BY DEF OneEach
  <2>1. CASE f # h /\ g # h
    BY <1>1, <1>2, <2>1 DEF Explained, OneEach
  <2>2. CASE f = h
    <3>1. calls[g].pc # "idle" /\ calls[g].action.key = a.key
      BY <1>2, <2>2
    <3>2. a.key \in Busy
      BY <3>1 DEF Busy
    <3> QED
      BY <1>1, <1>2, <2>2, <3>2
  <2>3. CASE g = h
    <3>1. calls[f].pc # "idle" /\ calls[f].action.key = a.key
      BY <1>2, <2>3
    <3>2. a.key \in Busy
      BY <3>1 DEF Busy
    <3> QED
      BY <1>1, <1>2, <2>3, <3>1, <3>2
  <2> QED
    BY <2>1, <2>2, <2>3
<1>5. LoggedRows' /\ Runnable'
  BY <1>1, <1>3 DEF Explained, LoggedRows, Runnable
<1>6. AheadRows'
  BY <1>1, <1>2 DEF Explained, AheadRows
<1> QED
  BY <1>4, <1>5, <1>6 DEF Explained

LEMMA ExecExplained ==
  ASSUME TypeOK, Explained, NEW h \in Handlers, Exec(h)
  PROVE  Explained'
<1> DEFINE a == calls[h].action
<1>1. /\ calls[h].pc = "exec" /\ rows' = Executed(rows, a) /\ audit' = audit
      /\ calls' = [calls EXCEPT ![h] = [calls[h] EXCEPT !.pc = "audit"]]
      /\ disturbed' = disturbed
  BY DEF Exec
<1>2. a \in Actions /\ a.key \in Keys /\ calls[h] \in Calls
  BY <1>1, CallTypes DEF TypeOK
<1>3. /\ calls'[h].pc = "audit" /\ calls'[h].action = a
      /\ \A g \in Handlers \ {h} : calls'[g] = calls[g]
  BY <1>1, <1>2 DEF TypeOK, Calls
<1>4. /\ rows'[a.key] = Apply(rows[a.key], a)
      /\ \A k \in Keys \ {a.key} : rows'[k] = rows[k]
  BY <1>1, <1>2, ExecutedRow DEF TypeOK
<1>5. Unlogged' = Unlogged \cup {a.key}
  <2>1. \A g \in Handlers : calls'[g].pc = "audit" <=> g = h \/ calls[g].pc = "audit"
    BY <1>1, <1>3
  <2>2. \A g \in Handlers : calls'[g].pc = "audit" => calls'[g].action = calls[g].action
    BY <1>3
  <2> QED
    BY <1>3, <2>1, <2>2 DEF Unlogged, UnloggedBy
<1>6. \A g \in Handlers \ {h} : calls[g].pc # "idle" /\ a.key \notin disturbed =>
         calls[g].action.key # a.key
  BY <1>1 DEF Explained, OneEach
<1>7. OneEach'
  BY <1>1, <1>3 DEF Explained, OneEach
<1>8. LoggedRows' /\ Runnable'
  BY <1>1, <1>4, <1>5 DEF Explained, LoggedRows, Runnable
<1>9. AheadRows'
  <2> SUFFICES ASSUME NEW g \in Handlers, calls'[g].pc = "audit",
                      calls'[g].action.key \notin disturbed'
               PROVE  rows'[calls'[g].action.key]
                        = Apply(Replay(audit')[calls'[g].action.key], calls'[g].action)
    BY DEF AheadRows
  <2>1. CASE g = h
    <3>1. a.key \notin Unlogged
      BY <1>1, <1>3, <1>6, <2>1 DEF Unlogged, UnloggedBy
    <3>2. Replay(audit)[a.key] = rows[a.key]
      BY <1>1, <1>2, <1>3, <2>1, <3>1 DEF Explained, LoggedRows
    <3> QED
      BY <1>1, <1>3, <1>4, <2>1, <3>2
  <2>2. CASE g # h
    <3>1. calls[g].pc = "audit" /\ calls'[g] = calls[g] /\ calls[g].action.key \in Keys
      BY <1>3, <2>2, CallTypes
    <3>2. calls[g].action.key # a.key
      BY <1>1, <1>6, <2>2, <3>1
    <3> QED
      BY <1>1, <1>4, <3>1, <3>2 DEF Explained, AheadRows
  <2> QED
    BY <2>1, <2>2
<1> QED
  BY <1>7, <1>8, <1>9 DEF Explained

LEMMA ExecFailsExplained ==
  ASSUME TypeOK, Explained, NEW h \in Handlers, ExecFails(h)
  PROVE  Explained'
<1>1. /\ calls[h].pc = "exec" /\ rows' = rows /\ audit' = audit /\ disturbed' = disturbed
      /\ calls'[h].pc = "idle" /\ \A g \in Handlers \ {h} : calls'[g] = calls[g]
  BY DEF ExecFails, TypeOK, NoCall
<1>2. Unlogged' = Unlogged
  BY <1>1 DEF Unlogged, UnloggedBy
<1> QED
  BY <1>1, <1>2 DEF Explained, Runnable, OneEach, LoggedRows, AheadRows

LEMMA AuditInsertExplained ==
  ASSUME TypeOK, Explained, NEW h \in Handlers, AuditInsert(h)
  PROVE  Explained'
<1> DEFINE a == calls[h].action
<1>1. /\ calls[h].pc = "audit" /\ rows' = rows /\ disturbed' = disturbed
      /\ audit' = Append(audit, a)
      /\ calls'[h].pc = "idle" /\ \A g \in Handlers \ {h} : calls'[g] = calls[g]
  BY DEF AuditInsert, TypeOK, NoCall
<1>2. a \in Actions /\ a.key \in Keys /\ audit \in Seq(Actions)
  BY <1>1, CallTypes DEF TypeOK
<1>3. Replayable(audit') /\ Replay(audit') = Executed(Replay(audit), a)
  BY <1>1, <1>2, ReplayAppend DEF Explained, Runnable
<1>4. /\ Replay(audit') \in [Keys -> Rows]
      /\ Replay(audit')[a.key] = Apply(Replay(audit)[a.key], a)
      /\ \A k \in Keys \ {a.key} : Replay(audit')[k] = Replay(audit)[k]
  BY <1>2, <1>3, ExecutedRow DEF Explained, Runnable
<1>5. Unlogged \subseteq Unlogged' \cup {a.key}
  <2>1. \A g \in Handlers \ {h} : calls'[g].pc = calls[g].pc
                                   /\ calls'[g].action = calls[g].action
    BY <1>1
  <2> QED
    BY <1>1, <2>1 DEF Unlogged, UnloggedBy
<1>6. Runnable'
  BY <1>3, <1>4 DEF Runnable
<1>7. OneEach'
  BY <1>1 DEF Explained, OneEach
<1>8. LoggedRows'
  <2> SUFFICES ASSUME NEW k \in Keys, k \notin disturbed', k \notin Unlogged'
               PROVE  Replay(audit')[k] = rows'[k]
    BY DEF LoggedRows
  <2>1. CASE k = a.key
    BY <1>1, <1>4, <2>1 DEF Explained, AheadRows
  <2>2. CASE k # a.key
    BY <1>1, <1>4, <1>5, <2>2 DEF Explained, LoggedRows
  <2> QED
    BY <2>1, <2>2
<1>9. AheadRows'
  <2> SUFFICES ASSUME NEW g \in Handlers, calls'[g].pc = "audit",
                      calls'[g].action.key \notin disturbed'
               PROVE  rows'[calls'[g].action.key]
                        = Apply(Replay(audit')[calls'[g].action.key], calls'[g].action)
    BY DEF AheadRows
  <2>1. g # h /\ calls'[g] = calls[g] /\ calls[g].pc = "audit"
    BY <1>1
  <2>2. calls[g].action.key \in Keys /\ calls[g].action.key # a.key
    BY <1>1, <2>1, CallTypes DEF Explained, OneEach
  <2> QED
    BY <1>1, <1>4, <2>1, <2>2 DEF Explained, AheadRows
<1> QED
  BY <1>6, <1>7, <1>8, <1>9 DEF Explained

LEMMA AuditFailsExplained ==
  ASSUME TypeOK, Explained, NEW h \in Handlers, AuditFails(h)
  PROVE  Explained'
<1>1. /\ calls[h].pc = "audit" /\ rows' = rows /\ audit' = audit
      /\ disturbed' = disturbed \cup {calls[h].action.key}
      /\ calls'[h].pc = "idle" /\ \A g \in Handlers \ {h} : calls'[g] = calls[g]
  BY DEF AuditFails, TypeOK, NoCall
<1>2. Unlogged \subseteq Unlogged' \cup disturbed'
  <2>1. \A g \in Handlers \ {h} : calls'[g].pc = calls[g].pc
                                   /\ calls'[g].action = calls[g].action
    BY <1>1
  <2> QED
    BY <1>1, <2>1 DEF Unlogged, UnloggedBy
<1> QED
  BY <1>1, <1>2 DEF Explained, Runnable, OneEach, LoggedRows, AheadRows

LEMMA LoseExplained ==
  ASSUME TypeOK, Explained, NEW H \in SUBSET Handlers, Lose(H)
  PROVE  Explained'
<1>1. /\ rows' = rows /\ audit' = audit /\ disturbed' = disturbed \cup UnloggedBy(H)
      /\ \A g \in H : calls'[g].pc = "idle"
      /\ \A g \in Handlers \ H : calls'[g] = calls[g]
  BY DEF Lose, NoCall
<1>2. Unlogged \subseteq Unlogged' \cup disturbed'
  <2> SUFFICES ASSUME NEW g \in Handlers, calls[g].pc = "audit"
               PROVE  calls[g].action.key \in Unlogged' \cup disturbed'
    BY DEF Unlogged, UnloggedBy
  <2>1. CASE g \in H
    BY <1>1, <2>1 DEF UnloggedBy
  <2>2. CASE g \notin H
    <3>1. calls'[g].pc = "audit" /\ calls'[g].action = calls[g].action
      BY <1>1, <2>2
    <3> QED
      BY <3>1 DEF Unlogged, UnloggedBy
  <2> QED
    BY <2>1, <2>2
<1>3. \A g \in Handlers : calls'[g].pc # "idle" => calls'[g] = calls[g]
  BY <1>1
<1>4. OneEach'
  BY <1>1, <1>3 DEF Explained, OneEach
<1>5. LoggedRows' /\ Runnable'
  BY <1>1, <1>2 DEF Explained, LoggedRows, Runnable
<1>6. AheadRows'
  BY <1>1, <1>3 DEF Explained, AheadRows
<1> QED
  BY <1>4, <1>5, <1>6 DEF Explained

(* The audit log reconstructs every row, except those that two requests     *)
(* wrote at once or whose log entry was lost.                               *)
THEOREM AuditReconstructs == Spec => []AuditReplays
<1>1. Init => Explained
  <2> SUFFICES ASSUME Init PROVE Explained
    OBVIOUS
  <2>1. Clean \in Rows
    BY DEF Clean, Rows
  <2>2. Runnable /\ Replay(audit) = Blank
    BY <2>1, ReplayEmpty DEF Init, Runnable, Blank
  <2> QED
    BY <2>2 DEF Init, Explained, OneEach, LoggedRows, AheadRows, NoCall, Blank
<1>2. TypeOK /\ Explained /\ [Next]_vars => Explained'
  <2> SUFFICES ASSUME TypeOK, Explained, [Next]_vars PROVE Explained'
    OBVIOUS
  <2>1. ASSUME NEW h \in Handlers, NEW a \in Actions, Post(h, a) PROVE Explained'
    BY <2>1, PostExplained
  <2>2. ASSUME NEW h \in Handlers, Exec(h) \/ ExecFails(h) PROVE Explained'
    BY <2>2, ExecExplained, ExecFailsExplained
  <2>3. ASSUME NEW h \in Handlers, AuditInsert(h) \/ AuditFails(h) PROVE Explained'
    BY <2>3, AuditInsertExplained, AuditFailsExplained
  <2>4. ASSUME NEW H \in SUBSET Handlers, Lose(H) PROVE Explained'
    BY <2>4, LoseExplained
  <2>5. CASE UNCHANGED vars
    BY <2>5 DEF vars, Explained, Runnable, OneEach, LoggedRows, AheadRows, Unlogged, UnloggedBy
  <2> QED
    BY <2>1, <2>2, <2>3, <2>4, <2>5 DEF Next
<1>3. Explained => AuditReplays
  BY DEF Explained, LoggedRows, AuditReplays
<1> QED
  BY <1>1, <1>2, <1>3, TypeCorrect, PTL DEF Spec

-----------------------------------------------------------------------------
(***************************************************************************)
(* Apid.                                                                   *)
(***************************************************************************)
(* The tables of the migrations before n are there.                         *)
BackedUpTo(n) == \A m \in Migrations : m < n => TablesOf(m) \subseteq tables

(* How far the process o is with opening the database.                      *)
Migrated(o) ==
  /\ proc[o].pc \in OpeningPcs => proc[o].next \in 1 .. 4 /\ BackedUpTo(proc[o].next)
  /\ proc[o].pc \in {"exec", "record"} => proc[o].next \in Migrations
  /\ proc[o].pc = "exec" =>
       /\ proc[o].done < Len(Creates[proc[o].next])
       /\ \A i \in 1 .. proc[o].done : Creates[proc[o].next][i] \in tables
  /\ proc[o].pc = "record" => TablesOf(proc[o].next) \subseteq tables
  /\ proc[o].pc \in {"listen", "serve", "drain"} => AllTables \subseteq tables

(* The inductive invariant: a row of schema_version, the progress of a      *)
(* process and the port stand for tables that are there.                    *)
DatabaseInv ==
  /\ tables \subseteq AllTables
  /\ recorded \subseteq Migrations
  /\ \A m \in recorded : TablesOf(m) \subseteq tables
  /\ proc \in [Processes -> Procs]
  /\ \A o \in Processes : Migrated(o)
  /\ listener # None => AllTables \subseteq tables

-----------------------------------------------------------------------------
(* A process is its three fields ...                                        *)
LEMMA ProcFields ==
  ASSUME NEW p \in Procs
  PROVE  /\ p = [pc |-> p.pc, next |-> p.next, done |-> p.done]
         /\ p.next \in Nat /\ p.done \in Nat
BY DEF Procs

(* ... and a statement that it has run changes two of them.                 *)
LEMMA ProcAdvances ==
  ASSUME NEW p \in Procs, NEW pc \in OpeningPcs, NEW n \in Nat,
         NEW q, q = [p EXCEPT !.done = n, !.pc = pc]
  PROVE  q = [pc |-> pc, next |-> p.next, done |-> n]
<1>1. /\ p = [pc |-> p.pc, next |-> p.next, done |-> p.done]
      /\ p.next \in Nat /\ p.done \in Nat
  BY ProcFields
<1> QED
  BY <1>1

(* The scripts have statements, and each creates a table of its migration.  *)
LEMMA Scripts ==
  ASSUME NEW m \in Migrations
  PROVE  /\ Len(Creates[m]) \in Nat \ {0}
         /\ TablesOf(m) = {Creates[m][i] : i \in 1 .. Len(Creates[m])}
         /\ TablesOf(m) \subseteq AllTables
         /\ \A i \in 1 .. Len(Creates[m]) : Creates[m][i] \in TablesOf(m)
<1>1. m = 1 \/ m = 2 \/ m = 3
  BY DEF Migrations
<1>2. Len(Creates[m]) \in Nat \ {0} /\ DOMAIN Creates[m] = 1 .. Len(Creates[m])
  BY <1>1 DEF Creates
<1>3. TablesOf(m) = {Creates[m][i] : i \in 1 .. Len(Creates[m])}
  BY <1>2 DEF TablesOf
<1>4. TablesOf(m) \subseteq AllTables
  BY DEF AllTables
<1> QED
  BY <1>2, <1>3, <1>4

(* A process keeps its progress while tables are added.                     *)
LEMMA ProgressKept ==
  ASSUME NEW o \in Processes, Migrated(o), tables \subseteq tables',
         proc'[o] = proc[o]
  PROVE  Migrated(o)'
BY DEF Migrated, BackedUpTo

(* A process that is down, or whose start has failed, has none to keep.     *)
LEMMA EndedIsMigrated ==
  ASSUME NEW o \in Processes, proc'[o] = Down \/ proc'[o] = Failed
  PROVE  Migrated(o)' /\ proc'[o] \in Procs
BY DEF Migrated, Down, Failed, Procs, OpeningPcs, EndedPcs

(* A write leaves the others where they are, or makes their start fail.     *)
LEMMA WritesProcs ==
  ASSUME DatabaseInv, NEW o \in Processes, NEW state \in Procs, Writes(o, state),
         tables \subseteq tables'
  PROVE  /\ proc' \in [Processes -> Procs] /\ proc'[o] = state
         /\ \A q \in Processes \ {o} : Migrated(q)'
<1>1. PICK locked \in SUBSET (Processes \ {o}) :
        proc' = [q \in Processes |->
          IF q = o THEN state ELSE IF q \in locked THEN Failed ELSE proc[q]]
  BY DEF Writes
<1>2. Failed \in Procs
  BY DEF Failed, Down, Procs, EndedPcs
<1>3. proc' \in [Processes -> Procs] /\ proc'[o] = state
  BY <1>1, <1>2 DEF DatabaseInv
<1>4. ASSUME NEW q \in Processes \ {o} PROVE Migrated(q)'
  <2>1. CASE q \in locked
    BY <1>1, <2>1, EndedIsMigrated
  <2>2. CASE q \notin locked
    BY <1>1, <2>2, ProgressKept DEF DatabaseInv
  <2> QED
    BY <2>1, <2>2
<1> QED
  BY <1>3, <1>4

-----------------------------------------------------------------------------
(* Every step keeps the inductive invariant.                                *)
LEMMA StartKeeps ==
  ASSUME DatabaseInv, NEW o \in Processes, Start(o)
  PROVE  DatabaseInv'
<1> DEFINE state == [pc |-> "check", next |-> 1, done |-> 0]
<1>1. /\ proc' = [proc EXCEPT ![o] = state]
      /\ tables' = tables /\ recorded' = recorded /\ listener' = listener
  BY DEF Start, database
<1>2. proc' \in [Processes -> Procs]
  BY <1>1 DEF DatabaseInv, Procs, OpeningPcs
<1>3. proc'[o] = state
  BY <1>1 DEF DatabaseInv
<1>4. Migrated(o)'
  BY <1>1, <1>3 DEF Migrated, BackedUpTo, Migrations
<1>5. \A q \in Processes \ {o} : Migrated(q)'
  BY <1>1, ProgressKept DEF DatabaseInv
<1> QED
  BY <1>1, <1>2, <1>4, <1>5 DEF DatabaseInv

LEMMA CheckKeeps ==
  ASSUME DatabaseInv, NEW o \in Processes, Check(o)
  PROVE  DatabaseInv'
<1> DEFINE m == proc[o].next
<1>1. /\ tables' = tables /\ recorded' = recorded /\ listener' = listener
      /\ proc[o] \in Procs /\ proc[o].pc = "check" /\ Migrated(o)
  BY DEF Check, database, DatabaseInv
<1>2. m \in 1 .. 4 /\ BackedUpTo(m)
  BY <1>1 DEF Migrated, OpeningPcs
<1>3. proc' = [proc EXCEPT ![o] =
                 IF m \notin Migrations THEN [proc[o] EXCEPT !.pc = "listen"]
                 ELSE IF m \in recorded THEN [proc[o] EXCEPT !.next = m + 1]
                 ELSE [proc[o] EXCEPT !.pc = "exec", !.done = 0]]
  BY DEF Check
<1>4. \A q \in Processes \ {o} : Migrated(q)'
  BY <1>1, <1>3, ProgressKept DEF DatabaseInv
<1>5. Migrated(o)' /\ proc'[o] \in Procs
  <2>1. CASE m \notin Migrations
    <3>1. proc'[o] = [proc[o] EXCEPT !.pc = "listen"]
      BY <1>3, <2>1 DEF DatabaseInv
    <3>2. m = 4
      BY <1>2, <2>1 DEF Migrations
    <3>3. AllTables \subseteq tables
      BY <1>2, <3>2 DEF AllTables, BackedUpTo, Migrations
    <3>4. proc'[o].pc = "listen" /\ proc'[o].next = m
      BY <1>1, <3>1 DEF Procs
    <3> QED
      BY <1>1, <1>2, <3>1, <3>3, <3>4 DEF Migrated, BackedUpTo, Procs, OpeningPcs
  <2>2. CASE m \in recorded
    <3>0. m \in Migrations
      BY <2>2 DEF DatabaseInv
    <3>1. proc'[o] = [proc[o] EXCEPT !.next = m + 1]
      BY <1>3, <2>2, <3>0 DEF DatabaseInv
    <3>2. TablesOf(m) \subseteq tables
      BY <2>2 DEF DatabaseInv
    <3>3. proc'[o].pc = "check" /\ proc'[o].next = m + 1
      BY <1>1, <3>1 DEF Procs
    <3>4. BackedUpTo(m + 1)
      BY <1>2, <3>2 DEF BackedUpTo, Migrations
    <3>5. m + 1 \in 1 .. 4 /\ proc'[o] \in Procs
      BY <1>1, <3>0, <3>1 DEF Migrations, Procs
    <3> QED
      BY <1>1, <3>3, <3>4, <3>5 DEF Migrated, BackedUpTo
  <2>3. CASE m \in Migrations \ recorded
    <3>1. proc'[o] = [proc[o] EXCEPT !.pc = "exec", !.done = 0]
      BY <1>3, <2>3 DEF DatabaseInv
    <3>2. /\ proc[o] = [pc |-> proc[o].pc, next |-> m, done |-> proc[o].done]
          /\ m \in Nat
      BY <1>1, ProcFields
    <3>3. proc'[o] = [pc |-> "exec", next |-> m, done |-> 0]
      BY <3>1, <3>2
    <3>4. /\ proc'[o].pc = "exec" /\ proc'[o].next = m /\ proc'[o].done = 0
          /\ proc'[o] \in Procs
      BY <3>2, <3>3 DEF Procs, OpeningPcs
    <3>5. 0 < Len(Creates[m])
      BY <2>3, Scripts
    <3> QED
      BY <1>1, <1>2, <2>3, <3>4, <3>5 DEF Migrated, BackedUpTo
  <2> QED
    BY <2>1, <2>2, <2>3
<1>6. proc' \in [Processes -> Procs]
  BY <1>3, <1>5 DEF DatabaseInv
<1> QED
  BY <1>1, <1>4, <1>5, <1>6 DEF DatabaseInv

LEMMA ExecStatementKeeps ==
  ASSUME DatabaseInv, NEW o \in Processes, ExecStatement(o)
  PROVE  DatabaseInv'
<1> DEFINE m == proc[o].next
           i == proc[o].done + 1
           state == AfterStatement(o)
<1>1. /\ proc[o].pc = "exec" /\ proc[o] \in Procs /\ Migrated(o)
      /\ tables' = tables \cup {Creates[m][i]} /\ Writes(o, state)
      /\ recorded' = recorded /\ listener' = listener
  BY DEF ExecStatement, Creating, DatabaseInv
<1>2. /\ m \in Migrations /\ BackedUpTo(m) /\ m \in 1 .. 4
      /\ proc[o].done \in Nat /\ i \in 1 .. Len(Creates[m])
      /\ \A k \in 1 .. proc[o].done : Creates[m][k] \in tables
  BY <1>1, Scripts DEF Migrated, OpeningPcs, Procs
<1>3. Creates[m][i] \in AllTables
  BY <1>2, Scripts
<1>4. tables \subseteq tables' /\ tables' \subseteq AllTables
  BY <1>1, <1>3 DEF DatabaseInv
<1>5. state = [proc[o] EXCEPT !.done = i,
                 !.pc = IF i = Len(Creates[m]) THEN "record" ELSE "exec"]
  BY DEF AfterStatement
<1>6. /\ state \in Procs /\ state.next = m /\ state.done = i
      /\ state.pc = IF i = Len(Creates[m]) THEN "record" ELSE "exec"
  <2>1. PICK pc \in OpeningPcs : pc = IF i = Len(Creates[m]) THEN "record" ELSE "exec"
    BY DEF OpeningPcs
  <2>2. PICK p : p = proc[o] /\ p \in Procs
    BY <1>1
  <2>3. PICK n \in Nat : n = i
    BY <1>2
  <2>4. PICK q : q = state
    OBVIOUS
  <2>5. q = [pc |-> pc, next |-> p.next, done |-> n]
    <3>1. q = [p EXCEPT !.done = n, !.pc = pc]
      BY <1>5, <2>1, <2>2, <2>3, <2>4
    <3> HIDE DEF state
    <3> QED
      BY <2>2, <3>1, ProcAdvances
  <2>6. state = [pc |-> pc, next |-> m, done |-> i]
    BY <2>2, <2>3, <2>4, <2>5
  <2>7. state \in Procs
    BY <1>2, <2>1, <2>6 DEF Procs
  <2> QED
    BY <2>1, <2>6, <2>7
<1>7. /\ proc' \in [Processes -> Procs] /\ proc'[o] = state
      /\ \A q \in Processes \ {o} : Migrated(q)'
  BY <1>1, <1>4, <1>6, WritesProcs
<1>8. Migrated(o)'
  <2>1. \A k \in 1 .. i : Creates[m][k] \in tables'
    BY <1>1, <1>2
  <2>2. \A k \in Migrations : k < m => TablesOf(k) \subseteq tables'
    BY <1>2, <1>4 DEF BackedUpTo
  <2>3. CASE i = Len(Creates[m])
    <3>1. TablesOf(m) \subseteq tables'
      BY <1>2, <2>1, <2>3, Scripts
    <3> QED
      BY <1>2, <1>6, <1>7, <2>2, <2>3, <3>1 DEF Migrated, BackedUpTo, OpeningPcs
  <2>4. CASE i # Len(Creates[m])
    <3>1. i < Len(Creates[m])
      BY <1>2, <2>4, Scripts
    <3> QED
      BY <1>2, <1>6, <1>7, <2>1, <2>2, <2>4, <3>1 DEF Migrated, BackedUpTo, OpeningPcs
  <2> QED
    BY <2>3, <2>4
<1> QED
  BY <1>1, <1>4, <1>7, <1>8 DEF DatabaseInv

LEMMA RecordKeeps ==
  ASSUME DatabaseInv, NEW o \in Processes, Record(o)
  PROVE  DatabaseInv'
<1> DEFINE m == proc[o].next
           state == NextMigration(o)
<1>1. /\ proc[o].pc = "record" /\ proc[o] \in Procs /\ Migrated(o)
      /\ tables' = tables /\ listener' = listener
  BY DEF Record, DatabaseInv
<1>2. m \in Migrations /\ BackedUpTo(m) /\ TablesOf(m) \subseteq tables
  BY <1>1 DEF Migrated, OpeningPcs
<1>3. CASE m \in recorded
  <2>1. recorded' = recorded /\ proc' = [proc EXCEPT ![o] = Failed]
    BY <1>3 DEF Record
  <2>2. proc' \in [Processes -> Procs] /\ proc'[o] = Failed
    BY <2>1 DEF DatabaseInv, Failed, Down, Procs, EndedPcs
  <2>3. \A q \in Processes \ {o} : Migrated(q)'
    BY <1>1, <2>1, ProgressKept DEF DatabaseInv
  <2>4. Migrated(o)'
    BY <2>2, EndedIsMigrated
  <2> QED
    BY <1>1, <2>1, <2>2, <2>3, <2>4 DEF DatabaseInv
<1>4. CASE m \notin recorded
  <2>1. recorded' = recorded \cup {m} /\ Writes(o, state)
    BY <1>4 DEF Record
  <2>2. /\ state = [pc |-> "check", next |-> m + 1, done |-> 0]
        /\ m + 1 \in 1 .. 4 /\ state \in Procs
    BY <1>2 DEF NextMigration, Migrations, Procs, OpeningPcs
  <2>3. /\ proc' \in [Processes -> Procs] /\ proc'[o] = state
        /\ \A q \in Processes \ {o} : Migrated(q)'
    BY <1>1, <2>1, <2>2, WritesProcs
  <2>4. \A k \in Migrations : k < m + 1 => TablesOf(k) \subseteq tables'
    BY <1>1, <1>2 DEF BackedUpTo, Migrations
  <2>5. Migrated(o)'
    BY <2>2, <2>3, <2>4 DEF Migrated, BackedUpTo
  <2> QED
    BY <1>1, <1>2, <2>1, <2>3, <2>5 DEF DatabaseInv
<1> QED
  BY <1>3, <1>4

LEMMA ListenKeeps ==
  ASSUME DatabaseInv, NEW o \in Processes, Listen(o)
  PROVE  DatabaseInv'
<1>1. /\ proc[o].pc = "listen" /\ proc[o] \in Procs /\ AllTables \subseteq tables
      /\ tables' = tables /\ recorded' = recorded
  BY DEF Listen, database, DatabaseInv, Migrated
<1>2. PICK pc \in {"serve", "deaf"} : proc' = [proc EXCEPT ![o].pc = pc]
  BY DEF Listen
<1>3. /\ proc'[o] = [proc[o] EXCEPT !.pc = pc] /\ proc'[o].pc = pc
      /\ proc'[o] \in Procs /\ proc' \in [Processes -> Procs]
  BY <1>1, <1>2 DEF DatabaseInv, Procs
<1>4. Migrated(o)'
  BY <1>1, <1>3 DEF Migrated, OpeningPcs
<1>5. \A q \in Processes \ {o} : Migrated(q)'
  BY <1>1, <1>2, ProgressKept DEF DatabaseInv
<1> QED
  BY <1>1, <1>3, <1>4, <1>5 DEF DatabaseInv

LEMMA EndsKeeps ==
  ASSUME DatabaseInv, NEW o \in Processes, Ends(o)
  PROVE  DatabaseInv'
<1>1. /\ proc' = [proc EXCEPT ![o] = Down]
      /\ tables' = tables /\ recorded' = recorded
      /\ listener' # None => listener # None
  BY DEF Ends, database
<1>2. proc' \in [Processes -> Procs] /\ proc'[o] = Down
  BY <1>1 DEF DatabaseInv, Down, Procs, EndedPcs
<1>3. \A q \in Processes \ {o} : Migrated(q)'
  BY <1>1, ProgressKept DEF DatabaseInv
<1>4. Migrated(o)'
  BY <1>2, EndedIsMigrated
<1> QED
  BY <1>1, <1>2, <1>3, <1>4 DEF DatabaseInv

LEMMA TerminateKeeps ==
  ASSUME DatabaseInv, NEW o \in Processes, Terminate(o)
  PROVE  DatabaseInv'
<1>1. /\ tables' = tables /\ recorded' = recorded
      /\ listener' # None => listener # None
  BY DEF Terminate, database
<1>2. PICK state : /\ state = IF listener = o THEN [proc[o] EXCEPT !.pc = "drain"] ELSE Down
                   /\ proc' = [proc EXCEPT ![o] = state]
  BY DEF Terminate
<1>3. proc'[o] = state
  BY <1>2 DEF DatabaseInv
<1>4. state \in Procs /\ Migrated(o)'
  <2>1. CASE state = Down
    BY <1>3, <2>1, EndedIsMigrated
  <2>2. CASE listener = o /\ state = [proc[o] EXCEPT !.pc = "drain"]
    <3>1. proc[o] \in Procs
      BY DEF DatabaseInv
    <3>2. state \in Procs /\ state.pc = "drain"
      BY <2>2, <3>1 DEF Procs
    <3>3. AllTables \subseteq tables'
      BY <1>1, <2>2, ProcessesAssumption DEF DatabaseInv
    <3> QED
      BY <1>3, <3>2, <3>3 DEF Migrated, OpeningPcs
  <2> QED
    BY <1>2, <2>1, <2>2
<1>5. proc' \in [Processes -> Procs]
  BY <1>2, <1>4 DEF DatabaseInv
<1>6. \A q \in Processes \ {o} : Migrated(q)'
  BY <1>1, <1>2, ProgressKept DEF DatabaseInv
<1> QED
  BY <1>1, <1>4, <1>5, <1>6 DEF DatabaseInv

(* Whatever was interrupted, started twice or left half done, a process     *)
(* that serves, or answers its last requests, finds every table, and        *)
(* schema_version claims no migration whose tables are not all there.       *)
THEOREM DatabaseIsMigrated == ApidSpec => []ServesMigrated
<1>1. ApidInit => DatabaseInv
  <2> SUFFICES ASSUME ApidInit PROVE DatabaseInv
    OBVIOUS
  <2>1. PICK n \in {0} \cup Migrations :
          recorded = 1 .. n /\ tables = UNION {TablesOf(m) : m \in 1 .. n}
    BY DEF ApidInit
  <2>2. 1 .. n \subseteq Migrations
    BY DEF Migrations
  <2>3. tables \subseteq AllTables
    BY <2>1, <2>2, Scripts
  <2>4. proc = [o \in Processes |-> Down] /\ listener = None
    BY DEF ApidInit
  <2>5. proc \in [Processes -> Procs] /\ \A o \in Processes : Migrated(o)
    BY <2>4 DEF Migrated, Down, Procs, OpeningPcs, EndedPcs
  <2> QED
    BY <2>1, <2>2, <2>3, <2>4, <2>5 DEF DatabaseInv
<1>2. DatabaseInv /\ [ApidNext]_apidVars => DatabaseInv'
  <2> SUFFICES ASSUME DatabaseInv, [ApidNext]_apidVars PROVE DatabaseInv'
    OBVIOUS
  <2>1. ASSUME NEW h \in Handlers, Accept(h) \/ Handle(h) PROVE DatabaseInv'
    BY <2>1 DEF Accept, Handle, database, DatabaseInv, Migrated, BackedUpTo
  <2>2. ASSUME NEW o \in Processes, OpenStep(o) PROVE DatabaseInv'
    BY <2>2, StartKeeps, CheckKeeps, ExecStatementKeeps, RecordKeeps, ListenKeeps
       DEF OpenStep
  <2>3. ASSUME NEW o \in Processes, Terminate(o) \/ Kill(o) \/ Exit(o) PROVE DatabaseInv'
    BY <2>3, TerminateKeeps, EndsKeeps DEF Kill, Exit
  <2>4. CASE UNCHANGED apidVars
    BY <2>4 DEF apidVars, DatabaseInv, Migrated, BackedUpTo
  <2> QED
    BY <2>1, <2>2, <2>3, <2>4 DEF ApidNext
<1>3. DatabaseInv => ServesMigrated
  BY DEF DatabaseInv, ServesMigrated, Migrated, ServingPcs
<1> QED
  BY <1>1, <1>2, <1>3, PTL DEF ApidSpec

(* Around PackageState: a request that a process takes or goes on with is a *)
(* step of it, starts and stops are none, and the end of a process loses    *)
(* the requests it had.                                                     *)
LEMMA ApidIsModeration == ApidSpec => Spec
<1>1. ApidInit => Init
  BY DEF ApidInit
<1>2. [ApidNext]_apidVars => [Next]_vars
  <2> SUFFICES ASSUME [ApidNext]_apidVars PROVE [Next]_vars
    OBVIOUS
  <2>1. ASSUME NEW h \in Handlers, Accept(h) \/ Handle(h) PROVE Next
    BY <2>1 DEF Accept, Handle, Next
  <2>2. ASSUME NEW o \in Processes, OpenStep(o) \/ Terminate(o) PROVE UNCHANGED vars
    BY <2>2 DEF OpenStep, Start, Check, ExecStatement, Record, Listen, Terminate
  <2>3. ASSUME NEW o \in Processes, Ends(o) PROVE Next \/ UNCHANGED vars
    <3>1. {h \in Handlers : server[h] = o} \in SUBSET Handlers
      OBVIOUS
    <3> QED
      BY <2>3, <3>1 DEF Ends, Next
  <2>4. CASE UNCHANGED apidVars
    BY <2>4 DEF apidVars, vars
  <2> QED
    BY <2>1, <2>2, <2>3, <2>4 DEF ApidNext, Kill, Exit
<1> QED
  BY <1>1, <1>2, PTL DEF ApidSpec, Spec

(* What the audit log says was withdrawn or deprecated is in force, across  *)
(* restarts of apid and interrupted migrations.                             *)
THEOREM AuditedSurvivesRestarts == ApidSpec => []AuditedHolds
BY ApidIsModeration, AuditedStaysInForce, PTL

(* ... and the log still replays to the table.                              *)
THEOREM AuditReconstructsAcrossRestarts == ApidSpec => []AuditReplays
BY ApidIsModeration, AuditReconstructs, PTL

=============================================================================
