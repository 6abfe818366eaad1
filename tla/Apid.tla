--------------------------------- MODULE Apid ---------------------------------
(***************************************************************************)
(* The life of apid (cmd/apid/main.go) around the admin handlers of        *)
(* PackageState: a process opens the database and migrates it (internal/   *)
(* db), listens, serves, and is stopped or killed, next to other processes *)
(* started on the same database.                                           *)
(*                                                                         *)
(* A migration is a script of CREATE ... IF NOT EXISTS statements, each of *)
(* them a transaction, and the row that records it in schema_version is    *)
(* one more.  Indices go with their table.  The server logs the error of a *)
(* port that is taken and stays up without serving: it is deaf.  SIGTERM   *)
(* frees the port at once; the requests in flight then have 5 s to end.    *)
(***************************************************************************)
EXTENDS PackageState

CONSTANT Processes   \* apid processes on one database and one port

ASSUME ProcessesAssumption == None \notin Processes

VARIABLES
  tables,     \* the tables of the database
  recorded,   \* the migrations with a row in schema_version
  proc,       \* the control state of each process
  listener,   \* the process that has the port
  server      \* the process that serves each admin request

database == <<tables, recorded>>
apidVars == <<vars, tables, recorded, proc, listener, server>>

Migrations == 1 .. 3
Creates ==
  << <<"downloads", "audit">>,
     <<"sessions", "device_codes", "package_state", "redirects">>,
     <<"advisories", "signatures">> >>
TablesOf(m) == {Creates[m][i] : i \in DOMAIN Creates[m]}
AllTables == UNION {TablesOf(m) : m \in Migrations}

OpeningPcs == {"check", "exec", "record", "listen"}
EndedPcs == {"down", "failed"}
ServingPcs == {"serve", "drain"}
Procs ==
  [pc : {"serve", "drain", "deaf"} \cup EndedPcs \cup OpeningPcs, next : Nat, done : Nat]
Down == [pc |-> "down", next |-> 0, done |-> 0]
Failed == [Down EXCEPT !.pc = "failed"]   \* db.Open failed: exit status 1

ApidInit ==
  /\ Init
  /\ \E n \in {0} \cup Migrations :
       /\ recorded = 1 .. n
       /\ tables = UNION {TablesOf(m) : m \in 1 .. n}
  /\ proc = [o \in Processes |-> Down]
  /\ listener = None
  /\ server = [h \in Handlers |-> None]

-----------------------------------------------------------------------------
(* Opening the database: next is the migration in hand, done the number of  *)
(* its statements that were run.                                            *)
Start(o) ==
  /\ proc[o].pc \in EndedPcs
  /\ proc' = [proc EXCEPT ![o] = [pc |-> "check", next |-> 1, done |-> 0]]
  /\ UNCHANGED <<vars, database, listener, server>>

(* Mutant of Check: a migration is recorded before its script is run.       *)
CheckAndRecord(o) ==
  /\ proc[o].pc = "check"
  /\ LET m == proc[o].next
     IN  /\ proc' = [proc EXCEPT ![o] =
              IF m \notin Migrations THEN [@ EXCEPT !.pc = "listen"]
              ELSE IF m \in recorded THEN [@ EXCEPT !.next = m + 1]
              ELSE [@ EXCEPT !.pc = "exec", !.done = 0]]
         /\ recorded' = recorded \cup ({m} \cap Migrations)
  /\ UNCHANGED <<vars, tables, listener, server>>

Check(o) ==
  /\ proc[o].pc = "check"
  /\ LET m == proc[o].next
     IN  proc' = [proc EXCEPT ![o] =
           IF m \notin Migrations THEN [@ EXCEPT !.pc = "listen"]
           ELSE IF m \in recorded THEN [@ EXCEPT !.next = m + 1]
           ELSE [@ EXCEPT !.pc = "exec", !.done = 0]]
  /\ UNCHANGED <<vars, database, listener, server>>

Creating(o) == Creates[proc[o].next][proc[o].done + 1]
IsWriting(o) ==
  proc[o].pc = "record" \/ (proc[o].pc = "exec" /\ Creating(o) \notin tables)

(* One process writes; any other that tries to at that moment may find the  *)
(* database locked (no busy_timeout is set), and its start fails.  CREATE   *)
(* of a table that exists only reads.                                       *)
Writes(o, state) ==
  \E locked \in SUBSET (IF IsWriting(o) THEN {q \in Processes \ {o} : IsWriting(q)} ELSE {}) :
    proc' = [q \in Processes |->
      IF q = o THEN state ELSE IF q \in locked THEN Failed ELSE proc[q]]

AfterStatement(o) ==
  LET i == proc[o].done + 1
  IN  [proc[o] EXCEPT !.done = i,
         !.pc = IF i = Len(Creates[proc[o].next]) THEN "record" ELSE "exec"]

(* Mutant of ExecStatement: CREATE TABLE without IF NOT EXISTS.             *)
ExecCreate(o) ==
  /\ proc[o].pc = "exec"
  /\ IF Creating(o) \in tables
     THEN UNCHANGED tables /\ proc' = [proc EXCEPT ![o] = Failed]
     ELSE tables' = tables \cup {Creating(o)} /\ Writes(o, AfterStatement(o))
  /\ UNCHANGED <<vars, recorded, listener, server>>

ExecStatement(o) ==
  /\ proc[o].pc = "exec"
  /\ tables' = tables \cup {Creating(o)}
  /\ Writes(o, AfterStatement(o))
  /\ UNCHANGED <<vars, recorded, listener, server>>

NextMigration(o) == [pc |-> "check", next |-> proc[o].next + 1, done |-> 0]

(* The version is the primary key: the row of another process that ran the  *)
(* migration meanwhile makes the insert, and the whole start, fail.         *)
Record(o) ==
  /\ proc[o].pc = "record"
  /\ LET m == proc[o].next
     IN  IF m \in recorded
         THEN UNCHANGED recorded /\ proc' = [proc EXCEPT ![o] = Failed]
         ELSE recorded' = recorded \cup {m} /\ Writes(o, NextMigration(o))
  /\ UNCHANGED <<vars, tables, listener, server>>

Listen(o) ==
  /\ proc[o].pc = "listen"
  /\ IF listener = None
     THEN listener' = o /\ proc' = [proc EXCEPT ![o].pc = "serve"]
     ELSE UNCHANGED listener /\ proc' = [proc EXCEPT ![o].pc = "deaf"]
  /\ UNCHANGED <<vars, database, server>>

(* SIGTERM or SIGINT.  Shutdown closes the listener and waits; a process    *)
(* that does not serve just ends.                                           *)
Terminate(o) ==
  /\ proc[o].pc \notin EndedPcs \cup {"drain"}
  /\ proc' = [proc EXCEPT ![o] = IF listener = o THEN [@ EXCEPT !.pc = "drain"] ELSE Down]
  /\ listener' = IF listener = o THEN None ELSE listener
  /\ UNCHANGED <<vars, database, server>>

(* A process ends.  Its requests in flight are lost with it.                *)
Ends(o) ==
  LET lost == {h \in Handlers : server[h] = o}
  IN  /\ proc' = [proc EXCEPT ![o] = Down]
      /\ listener' = IF listener = o THEN None ELSE listener
      /\ IF lost = {} THEN UNCHANGED vars ELSE Lose(lost)
      /\ server' = [h \in Handlers |-> IF h \in lost THEN None ELSE server[h]]
      /\ UNCHANGED database

Kill(o) == proc[o].pc \notin EndedPcs \cup {"drain"} /\ Ends(o)

(* All is answered, the 5 s are over, or the process is killed meanwhile.   *)
Exit(o) == proc[o].pc = "drain" /\ Ends(o)

Stop(o) == Terminate(o) \/ Kill(o)

OpenStep(o) ==
  Start(o) \/ Check(o) \/ ExecStatement(o) \/ Record(o) \/ Listen(o)

(* The process that listens takes the requests, and goes on with them when  *)
(* it is told to stop.                                                      *)
Accept(h) ==
  /\ listener # None
  /\ \E a \in Actions : Post(h, a)
  /\ server' = [server EXCEPT ![h] = listener]
  /\ UNCHANGED <<database, proc, listener>>

Handle(h) ==
  /\ Exec(h) \/ ExecFails(h) \/ AuditInsert(h) \/ AuditFails(h)
  /\ server' = [server EXCEPT ![h] = IF calls'[h].pc = "idle" THEN None ELSE @]
  /\ UNCHANGED <<database, proc, listener>>

ApidNext ==
  \/ \E h \in Handlers : Accept(h) \/ Handle(h)
  \/ \E o \in Processes : OpenStep(o) \/ Terminate(o) \/ Kill(o) \/ Exit(o)

(* A process that is down is started again, a start goes on, and Shutdown   *)
(* returns.                                                                 *)
ApidSpec ==
  /\ ApidInit /\ [][ApidNext]_apidVars
  /\ \A o \in Processes : WF_apidVars(OpenStep(o)) /\ WF_apidVars(Exit(o))

-----------------------------------------------------------------------------
ApidTypeOK ==
  /\ tables \subseteq AllTables /\ recorded \subseteq Migrations
  /\ proc \in [Processes -> Procs]
  /\ listener \in Processes \cup {None}
  /\ {o \in Processes : proc[o].pc = "serve"} = {listener} \ {None}
  /\ \A h \in Handlers :
       IF calls[h].pc = "idle" THEN server[h] = None
       ELSE server[h] \in Processes /\ proc[server[h]].pc \in ServingPcs

(* Whatever was interrupted, started twice or left half done, a process     *)
(* that serves, or answers its last requests, finds every table its         *)
(* handlers use, and schema_version never claims a migration whose tables   *)
(* are not all there (db.go:63-79).                                         *)
ServesMigrated ==
  /\ \A m \in recorded : TablesOf(m) \subseteq tables
  /\ \A o \in Processes : proc[o].pc \in ServingPcs => tables = AllTables

(* An interrupted migration is finished by a later start: when processes    *)
(* that are down are started again, and from some time on none is stopped,  *)
(* one of them serves for good, although two of them may race on the same   *)
(* migration, one that found the port taken stays deaf, and one that was    *)
(* told to stop is still answering.                                         *)
ServesInTheEnd ==
  <>[][\A o \in Processes : ~Stop(o)]_apidVars => <>[](listener # None)

=============================================================================
