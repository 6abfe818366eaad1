---------------------------- MODULE PackageState ----------------------------
(***************************************************************************)
(* Moderation: the admin handlers of internal/api/admin.go over the        *)
(* package_state table (internal/pkgstate) and the audit table             *)
(* (internal/db).                                                          *)
(*                                                                         *)
(* A handler runs one SQL statement on package_state and then one on       *)
(* audit, with no transaction around them.  Requests refused by            *)
(* requireManage or requireAdmin change nothing and are left out.  A row   *)
(* that does not exist reads like a clean one (State{}), and is one here.  *)
(***************************************************************************)
EXTENDS Naturals, Sequences

CONSTANTS
  Packages,     \* <owner>/<slug>, lower-cased by every query
  Names,        \* the version column: what a request spells, a version or not
  Whole,        \* the version column "*" of a whole-package deprecation
  Messages,     \* deprecation messages; "" is one
  Handlers,     \* requests in flight
  MaxCalls,     \* bound on the admin requests of a behaviour
  MaxLosses,    \* bound on failed inserts into audit
  None

ASSUME NamesAssumption == Whole \notin Names /\ None \notin Messages
ASSUME BoundsAssumption == MaxCalls \in Nat /\ MaxLosses \in Nat

VARIABLES
  rows,      \* rows[<<p, name>>]: one row of package_state
  audit,     \* the rows of audit in the order of their ids
  calls,     \* the admin requests in flight
  started,   \* admin requests so far
  losses,    \* failed inserts so far
  disturbed  \* history: rows written by two requests at once, or unlogged

vars == <<rows, audit, calls, started, losses, disturbed>>

Keys == Packages \X (Names \cup {Whole})
Rows == [yanked : BOOLEAN, deprecated : Messages \cup {None}, withdrawn : BOOLEAN]
Clean == [yanked |-> FALSE, deprecated |-> None, withdrawn |-> FALSE]

(* The statements of pkgstate.Store, on the row they address.               *)
Ops == {"yank", "unyank", "deprecate", "withdraw"}
Actions == [op : Ops, key : Keys, msg : Messages \cup {None}]

Apply(row, a) ==
  CASE a.op = "yank"      -> [row EXCEPT !.yanked = TRUE]
    [] a.op = "unyank"    -> [row EXCEPT !.yanked = FALSE]
    [] a.op = "deprecate" -> [row EXCEPT !.deprecated = a.msg]
    [] a.op = "withdraw"  -> [row EXCEPT !.withdrawn = TRUE]

Executed(table, a) == [table EXCEPT ![a.key] = Apply(@, a)]

Calls == [pc : {"idle"}] \cup [pc : {"exec", "audit"}, action : Actions]
NoCall == [pc |-> "idle"]

(* The rows that the requests in flight address, and those that a request   *)
(* of H has already changed without having logged it.                       *)
Busy == {calls[h].action.key : h \in {g \in Handlers : calls[g].pc # "idle"}}
UnloggedBy(H) == {calls[h].action.key : h \in {g \in H : calls[g].pc = "audit"}}
Unlogged == UnloggedBy(Handlers)

Init ==
  /\ rows = [k \in Keys |-> Clean]
  /\ audit = << >>
  /\ calls = [h \in Handlers |-> NoCall]
  /\ started = 0
  /\ losses = 0
  /\ disturbed = {}

(* An authorised POST.  What it spells for a version is stored as it is,    *)
(* whether or not it is one, and "*" too.  Only deprecate has a message.    *)
Post(h, a) ==
  /\ calls[h].pc = "idle"
  /\ started < MaxCalls
  /\ (a.op = "deprecate") <=> (a.msg # None)
  /\ started' = started + 1
  /\ calls' = [calls EXCEPT ![h] = [pc |-> "exec", action |-> a]]
  /\ disturbed' = disturbed \cup ({a.key} \cap Busy)
  /\ UNCHANGED <<rows, audit, losses>>

Exec(h) ==
  /\ calls[h].pc = "exec"
  /\ rows' = Executed(rows, calls[h].action)
  /\ calls' = [calls EXCEPT ![h].pc = "audit"]
  /\ UNCHANGED <<audit, started, losses, disturbed>>

(* Mutant of ExecFails: the action is recorded all the same.                *)
ExecFailsAudited(h) ==
  /\ calls[h].pc = "exec"
  /\ calls' = [calls EXCEPT ![h].pc = "audit"]
  /\ UNCHANGED <<rows, audit, started, losses, disturbed>>

(* The statement fails: 500, and nothing is recorded.                       *)
ExecFails(h) ==
  /\ calls[h].pc = "exec"
  /\ calls' = [calls EXCEPT ![h] = NoCall]
  /\ UNCHANGED <<rows, audit, started, losses, disturbed>>

(* Mutant of AuditInsert: deprecations are not recorded.                    *)
AuditSkipsDeprecate(h) ==
  /\ calls[h].pc = "audit"
  /\ audit' = IF calls[h].action.op = "deprecate" THEN audit
              ELSE Append(audit, calls[h].action)
  /\ calls' = [calls EXCEPT ![h] = NoCall]
  /\ UNCHANGED <<rows, started, losses, disturbed>>

AuditInsert(h) ==
  /\ calls[h].pc = "audit"
  /\ audit' = Append(audit, calls[h].action)
  /\ calls' = [calls EXCEPT ![h] = NoCall]
  /\ UNCHANGED <<rows, started, losses, disturbed>>

(* The insert into audit fails, and audit() ignores the error.              *)
AuditFails(h) ==
  /\ calls[h].pc = "audit"
  /\ losses < MaxLosses
  /\ losses' = losses + 1
  /\ calls' = [calls EXCEPT ![h] = NoCall]
  /\ disturbed' = disturbed \cup {calls[h].action.key}
  /\ UNCHANGED <<rows, audit, started>>

(* A process of apid ends before it has answered the requests H: they are   *)
(* lost, and SQLite keeps what it committed.                                *)
Lose(H) ==
  /\ H # {} /\ \A h \in H : calls[h].pc # "idle"
  /\ calls' = [h \in Handlers |-> IF h \in H THEN NoCall ELSE calls[h]]
  /\ disturbed' = disturbed \cup UnloggedBy(H)
  /\ UNCHANGED <<rows, audit, started, losses>>

Next ==
  \/ \E h \in Handlers :
       \/ \E a \in Actions : Post(h, a)
       \/ Exec(h) \/ ExecFails(h) \/ AuditInsert(h) \/ AuditFails(h)
  \/ \E H \in SUBSET Handlers : Lose(H)

Spec == Init /\ [][Next]_vars

-----------------------------------------------------------------------------
TypeOK ==
  /\ rows \in [Keys -> Rows]
  /\ audit \in Seq(Actions)
  /\ calls \in [Handlers -> Calls]
  /\ started \in 0 .. MaxCalls
  /\ losses \in 0 .. MaxLosses
  /\ disturbed \subseteq Keys

(* Running the audit log again on an empty table.                           *)
Replay(log) ==
  LET table[i \in 0 .. Len(log)] ==
        IF i = 0 THEN [k \in Keys |-> Clean] ELSE Executed(table[i - 1], log[i])
  IN  table[Len(log)]

(* The audit log reconstructs package_state: re-emitting the logged actions *)
(* in order gives every row back, except those that two requests wrote at   *)
(* once, or whose log entry the end of a process or a failed insert lost.   *)
(* A request disturbs no row but its own.                                   *)
AuditReplays ==
  \A k \in Keys \ (disturbed \cup Unlogged) : Replay(audit)[k] = rows[k]

(* A logged takedown or deprecation is in force, whatever other requests    *)
(* run, fail or are lost: the log never runs ahead of the table, and no     *)
(* other action takes it back.                                              *)
AuditedHolds ==
  \A i \in 1 .. Len(audit) :
    /\ audit[i].op = "withdraw" => rows[audit[i].key].withdrawn
    /\ audit[i].op = "deprecate" => rows[audit[i].key].deprecated # None

=============================================================================
