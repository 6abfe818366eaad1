------------------------------- MODULE Session -------------------------------
(***************************************************************************)
(* Signing in: inguma login, logout and the commands that need a token     *)
(* (internal/clicmd), the web sign-in, the handlers of internal/api/auth.go *)
(* and the sessions and device_codes tables (internal/auth).               *)
(*                                                                         *)
(* Each SQL statement and each call to GitHub is a step of its own: no     *)
(* transaction joins them.  Every process has one request under way, and   *)
(* may have left one behind that the server still works on, whose answer   *)
(* nobody hears.  Requests without a token change nothing and are left out. *)
(***************************************************************************)
EXTENDS Naturals, Sequences, FiniteSets

CONSTANTS
  Processes,   \* inguma processes of one machine, which share ~/.inguma/token
  Browser,     \* a browser, which keeps its token in the inguma_session cookie
  Codes,       \* device codes, numbered as GitHub hands them out
  Users, Orgs, \* GitHub logins and organisations: the owners of packages
  OrgsOf,      \* the organisations of a user
  Admins,      \* the users in INGUMA_ADMINS
  Admin,       \* the admin scope
  Needs,       \* the scopes that requests need
  MaxSignIns,  \* bound on the sign-ins of a behaviour
  MaxFaults,   \* bound on failed calls, lost answers, resends and crashes
  None, Torn

ASSUME UsersAssumption ==
  /\ OrgsOf \in [Users -> SUBSET Orgs] /\ Admins \subseteq Users
  /\ Codes \subseteq Nat /\ None \notin Users /\ Admin \notin Users \cup Orgs
  /\ Needs \subseteq Users \cup Orgs \cup {Admin}
ASSUME ProcessesAssumption == Browser \notin Processes
ASSUME TokensAssumption == None \notin Nat /\ Torn \notin Nat \cup {None}
ASSUME BoundsAssumption == MaxSignIns \in Nat /\ MaxFaults \in Nat

VARIABLES
  github,    \* what GitHub knows of a device code, and who decided on it
  codes,     \* the rows of device_codes
  sessions,  \* the rows of sessions, a token being the index of its row
  file,      \* ~/.inguma/token
  cookie,    \* the cookie of the browser
  cli,       \* the command each process runs
  srv,       \* the requests the server works on
  signIns, faults

vars == <<github, codes, sessions, file, cookie, cli, srv, signIns, faults>>

Clients == Processes \cup {Browser}
Slots == Clients \X {"now", "left"}
Scopes == Users \cup Orgs \cup {Admin}
Tokens == 1 .. Len(sessions)

(* A row of sessions.  Deleted rows stay here, dead, and code says which    *)
(* device code the row was made for.                                        *)
Rows == [user : Users, orgs : SUBSET Orgs, scopes : SUBSET Scopes,
         code : Codes \cup {None}, expired : BOOLEAN, live : BOOLEAN]

NoRequest ==
  [pc |-> "idle", kind |-> None, code |-> None, token |-> None, user |-> None,
   orgs |-> {}, need |-> None, gone |-> FALSE]

NoCommand == [pc |-> "idle", code |-> None, token |-> None, end |-> None]

(* The scopes of a session of user u, for whom GitHub listed orgs.          *)
Entitled(u, orgs) == {u} \cup orgs \cup (IF u \in Admins THEN {Admin} ELSE {})

(* Mutant of May: whoever is signed in may do everything.                   *)
MayIfSignedIn(scopes, need) == scopes # {}

(* CanManage, and IsAdmin when need is Admin.                               *)
May(scopes, need) == need \in scopes \/ Admin \in scopes

Init ==
  /\ github = [d \in Codes |-> [state |-> "new", by |-> None]]
  /\ codes = [d \in Codes |-> [token |-> None, expired |-> FALSE]]
  /\ sessions = << >>
  /\ file = None /\ cookie = None
  /\ cli = [c \in Clients |-> NoCommand]
  /\ srv = [s \in Slots |-> NoRequest]
  /\ signIns = 0 /\ faults = 0

-----------------------------------------------------------------------------
(* GitHub, its users, and time.                                             *)
Approve(d, u) ==
  /\ github[d].state = "pending"
  /\ github' = [github EXCEPT ![d] = [state |-> "approved", by |-> u]]
  /\ UNCHANGED <<codes, sessions, file, cookie, cli, srv, signIns, faults>>

Deny(d) ==
  /\ github[d].state = "pending"
  /\ github' = [github EXCEPT ![d].state = "denied"]
  /\ UNCHANGED <<codes, sessions, file, cookie, cli, srv, signIns, faults>>

CodeExpires(d) ==
  /\ github[d].state # "new" /\ ~codes[d].expired
  /\ codes' = [codes EXCEPT ![d].expired = TRUE]
  /\ UNCHANGED <<github, sessions, file, cookie, cli, srv, signIns, faults>>

SessionExpires(t) ==
  /\ sessions[t].live /\ ~sessions[t].expired
  /\ sessions' = [sessions EXCEPT ![t].expired = TRUE]
  /\ UNCHANGED <<github, codes, file, cookie, cli, srv, signIns, faults>>

-----------------------------------------------------------------------------
(* Mutant of Heard: the loop ends at the first answer.                      *)
HeardOnce(p, status, token) ==
  CASE p.pc = "polling" /\ status = "ok" -> [p EXCEPT !.pc = "in", !.token = token]
    [] p.pc = "polling" /\ status # "ok" -> [NoCommand EXCEPT !.end = "failed"]
    [] p.pc = "naming" -> [p EXCEPT !.pc = "save"]
    [] p.pc = "leaving" -> [p EXCEPT !.pc = "remove"]
    [] p.pc \in {"asking", "entering"} -> NoCommand

(* What a command does with the answer to its request: a poll loop goes on, *)
(* ends or has its token, and everybody else ignores what went wrong.       *)
Heard(p, status, token) ==
  CASE p.pc = "polling" /\ status = "ok" -> [p EXCEPT !.pc = "in", !.token = token]
    [] p.pc = "polling" /\ status = "pending" -> [p EXCEPT !.pc = "wait"]
    [] p.pc = "polling" /\ status \notin {"ok", "pending"} ->
         [NoCommand EXCEPT !.end = "failed"]
    [] p.pc = "naming" -> [p EXCEPT !.pc = "save"]
    [] p.pc = "leaving" -> [p EXCEPT !.pc = "remove"]
    [] p.pc \in {"asking", "entering"} -> NoCommand

(* The cookie after an answer to the browser.                               *)
Jar(kind, status, token) ==
  CASE kind = "visit" /\ status = "ok" -> token
    [] kind = "logout" /\ status = "done" -> None
    [] OTHER -> cookie

(* The server answers the request in slot s.                                *)
Reply(s, status, token) ==
  /\ srv' = [srv EXCEPT ![s] = NoRequest]
  /\ cli' = IF s[2] = "left" THEN cli
            ELSE [cli EXCEPT ![s[1]] = Heard(@, status, token)]
  /\ cookie' = IF s = <<Browser, "now">> THEN Jar(srv[s].kind, status, token) ELSE cookie

(* Process c sends a request and waits.                                     *)
Sends(c, pc, request) ==
  /\ srv' = [srv EXCEPT ![<<c, "now">>] = request]
  /\ cli' = [cli EXCEPT ![c] = [@ EXCEPT !.pc = pc, !.end = None]]

-----------------------------------------------------------------------------
(* The commands.  Login starts a device flow.  The code is known to nobody  *)
(* before the answer, so that GitHub's answer and the insert are one step.  *)
SignIn == signIns < MaxSignIns /\ signIns' = signIns + 1

(* GitHub hands out the device code d.                                      *)
HandsOut(d) ==
  /\ \A e \in Codes : e < d <=> github[e].state # "new"
  /\ github' = [github EXCEPT ![d].state = "pending"]

Login(c, d) ==
  /\ cli[c].pc = "idle" /\ HandsOut(d) /\ SignIn
  /\ cli' = [cli EXCEPT ![c] = [NoCommand EXCEPT !.pc = "wait", !.code = d]]
  /\ UNCHANGED <<codes, sessions, file, cookie, srv, faults>>

Poll(c) ==
  /\ cli[c].pc = "wait"
  /\ Sends(c, "polling",
           [NoRequest EXCEPT !.pc = "select", !.kind = "poll", !.code = cli[c].code])
  /\ UNCHANGED <<github, codes, sessions, file, cookie, signIns, faults>>

(* The clock of the process passes its own deadline.                        *)
Deadline(c) ==
  /\ cli[c].pc = "wait"
  /\ cli' = [cli EXCEPT ![c] = [NoCommand EXCEPT !.end = "late"]]
  /\ UNCHANGED <<github, codes, sessions, file, cookie, srv, signIns, faults>>

Bearing(t, kind, need) ==
  [NoRequest EXCEPT !.pc = "lookup", !.kind = kind, !.token = t, !.need = need,
                    !.gone = sessions[t].expired \/ ~sessions[t].live]

(* The login it got, for the token file.                                    *)
AskMe(c) ==
  /\ cli[c].pc = "in"
  /\ Sends(c, "naming", Bearing(cli[c].token, "me", None))
  /\ UNCHANGED <<github, codes, sessions, file, cookie, signIns, faults>>

(* saveToken: os.WriteFile truncates, and then writes.                      *)
Truncate(c) ==
  /\ cli[c].pc = "save"
  /\ file' = Torn
  /\ cli' = [cli EXCEPT ![c].pc = "write"]
  /\ UNCHANGED <<github, codes, sessions, cookie, srv, signIns, faults>>

Write(c) ==
  /\ cli[c].pc = "write"
  /\ file' = cli[c].token
  /\ cli' = [cli EXCEPT ![c] = [NoCommand EXCEPT !.end = "in"]]
  /\ UNCHANGED <<github, codes, sessions, cookie, srv, signIns, faults>>

(* A command with the token of the file, or a page with that of the cookie: *)
(* whoami (me), or a request that needs a scope.                            *)
Held(c) == IF c = Browser THEN cookie ELSE file

Ask(c, kind, need) ==
  /\ cli[c].pc = "idle" /\ Held(c) \notin {None, Torn}
  /\ Sends(c, "asking", Bearing(Held(c), kind, need))
  /\ UNCHANGED <<github, codes, sessions, file, cookie, signIns, faults>>

Logout(c) ==
  /\ cli[c].pc = "idle"
  /\ IF Held(c) \in {None, Torn}
     THEN /\ c # Browser
          /\ cli' = [cli EXCEPT ![c].pc = "remove"]
          /\ UNCHANGED srv
     ELSE /\ srv' = [srv EXCEPT ![<<c, "now">>] = Bearing(Held(c), "logout", None)]
          /\ cli' = [cli EXCEPT ![c] =
               IF c = Browser THEN [@ EXCEPT !.pc = "asking"]
               ELSE [@ EXCEPT !.pc = "leaving", !.token = file]]
  /\ UNCHANGED <<github, codes, sessions, file, cookie, signIns, faults>>

(* The token file goes, whatever the server answered.                       *)
Remove(c) ==
  /\ cli[c].pc = "remove"
  /\ file' = None
  /\ cli' = [cli EXCEPT ![c] = NoCommand]
  /\ UNCHANGED <<github, codes, sessions, cookie, srv, signIns, faults>>

(* The browser comes back from GitHub's page of user u.                     *)
Visit(u) ==
  /\ cli[Browser].pc = "idle" /\ SignIn
  /\ Sends(Browser, "entering",
           [NoRequest EXCEPT !.pc = "identify", !.kind = "visit", !.user = u])
  /\ UNCHANGED <<github, codes, sessions, file, cookie, faults>>

-----------------------------------------------------------------------------
(* PollDevice: the row of the code, then GitHub.                            *)
SelectCode(s) ==
  /\ srv[s].pc = "select"
  /\ LET row == codes[srv[s].code]
     IN  CASE row.expired -> Reply(s, "expired_token", None)
           [] ~row.expired /\ row.token # None -> Reply(s, "ok", row.token)
           [] ~row.expired /\ row.token = None ->
                srv' = [srv EXCEPT ![s].pc = "github"] /\ UNCHANGED <<cli, cookie>>
  /\ UNCHANGED <<github, codes, sessions, file, signIns, faults>>

(* GitHub gives an access token for an approved code once.                  *)
Redeemed(d) == [github EXCEPT ![d].state = "used"]

AskGitHub(s) ==
  /\ srv[s].pc = "github"
  /\ LET d == srv[s].code
     IN  CASE github[d].state = "approved" ->
                /\ github' = Redeemed(d)
                /\ srv' = [srv EXCEPT ![s] = [@ EXCEPT !.pc = "identify",
                                                       !.user = github[d].by]]
                /\ UNCHANGED <<cli, cookie>>
           [] github[d].state = "pending" -> Reply(s, "pending", None) /\ UNCHANGED github
           [] github[d].state \in {"denied", "used"} ->
                Reply(s, "error", None) /\ UNCHANGED github
  /\ UNCHANGED <<codes, sessions, file, signIns, faults>>

(* GetUser and ListOrgs.  A session without the scopes of the organisations *)
(* is made when ListOrgs fails.                                             *)
Identify(s) ==
  /\ srv[s].pc = "identify"
  /\ \E orgs \in {OrgsOf[srv[s].user], {}} :
       /\ srv' = [srv EXCEPT ![s] = [@ EXCEPT !.pc = "mint",
                                              !.orgs = orgs]]
       /\ faults' = IF orgs = OrgsOf[srv[s].user] THEN faults ELSE faults + 1
       /\ faults' <= MaxFaults
  /\ UNCHANGED <<github, codes, sessions, file, cookie, cli, signIns>>

Minted(r) ==
  [user |-> r.user, orgs |-> r.orgs, scopes |-> Entitled(r.user, r.orgs),
   code |-> r.code, expired |-> FALSE, live |-> TRUE]

CreateSession(s) ==
  /\ srv[s].pc = "mint"
  /\ sessions' = Append(sessions, Minted(srv[s]))
  /\ IF srv[s].kind = "poll"
     THEN /\ srv' = [srv EXCEPT ![s] = [@ EXCEPT !.pc = "store", !.token = Len(sessions) + 1]]
          /\ UNCHANGED <<cli, cookie>>
     ELSE Reply(s, "ok", Len(sessions) + 1)
  /\ UNCHANGED <<github, codes, file, signIns, faults>>

(* Mutant of Stored: the update without its WHERE.                          *)
StoredEverywhere(d, t) == [e \in Codes |-> [codes[e] EXCEPT !.token = t]]

Stored(d, t) == [codes EXCEPT ![d].token = t]

StoreToken(s) ==
  /\ srv[s].pc = "store"
  /\ codes' = Stored(srv[s].code, srv[s].token)
  /\ Reply(s, "ok", srv[s].token)
  /\ UNCHANGED <<github, sessions, file, signIns, faults>>

(* Mutant of Found: sessions do not expire.                                 *)
FoundExpired(t) == sessions[t].live

(* Lookup: the row of a token that has not expired.                         *)
Found(t) == sessions[t].live /\ ~sessions[t].expired

(* currentSession deletes an expired row, and the handler goes on with what *)
(* it found: logout deletes it, requireManage and requireAdmin check it.    *)
Lookup(s) ==
  /\ srv[s].pc = "lookup"
  /\ LET q == srv[s]
     IN  CASE ~Found(q.token) ->
                /\ sessions' = [sessions EXCEPT ![q.token].live = FALSE]
                /\ Reply(s, "done", None)
           [] Found(q.token) /\ (q.kind = "logout" \/
                (q.kind = "act" /\ May(sessions[q.token].scopes, q.need))) ->
                /\ srv' = [srv EXCEPT ![s].pc = q.kind]
                /\ UNCHANGED <<sessions, cli, cookie>>
           [] Found(q.token) /\ (q.kind = "me" \/
                (q.kind = "act" /\ ~May(sessions[q.token].scopes, q.need))) ->
                Reply(s, "done", None) /\ UNCHANGED sessions
  /\ UNCHANGED <<github, codes, file, signIns, faults>>

(* Mutant of Delete: logout clears the cookie only.                         *)
DeleteNothing(s) ==
  /\ srv[s].pc = "logout"
  /\ Reply(s, "done", None)
  /\ UNCHANGED <<github, codes, sessions, file, signIns, faults>>

Delete(s) ==
  /\ srv[s].pc = "logout"
  /\ sessions' = [sessions EXCEPT ![srv[s].token].live = FALSE]
  /\ Reply(s, "done", None)
  /\ UNCHANGED <<github, codes, file, signIns, faults>>

(* What the caller of requireManage or requireAdmin goes on to do.          *)
Act(s) ==
  /\ srv[s].pc = "act"
  /\ Reply(s, "done", None)
  /\ UNCHANGED <<github, codes, sessions, file, signIns, faults>>

-----------------------------------------------------------------------------
(* What goes wrong.  The device flow does not start, or the process never   *)
(* hears that it did.                                                       *)
Fault == faults < MaxFaults /\ faults' = faults + 1

LoginFails(c, d) ==
  /\ Fault
  /\ cli[c].pc = "idle" /\ HandsOut(d) /\ SignIn
  /\ cli' = [cli EXCEPT ![c] = [NoCommand EXCEPT !.end = "failed"]]
  /\ UNCHANGED <<codes, sessions, file, cookie, srv>>

(* Mutant of StepFails: the session is made anew when its token is not kept. *)
StepStartsOver(s) ==
  /\ Fault
  /\ srv[s].pc = "store"
  /\ srv' = [srv EXCEPT ![s].pc = "mint"]
  /\ UNCHANGED <<github, codes, sessions, file, cookie, cli, signIns>>

(* A statement or a call to GitHub fails.  Only logout ignores it; GitHub   *)
(* may have given the token whose answer was lost.                          *)
StepFails(s) ==
  /\ Fault
  /\ srv[s].pc \notin {"idle", "act"}
  /\ github' \in IF srv[s].pc = "github" /\ github[srv[s].code].state = "approved"
                 THEN {github, Redeemed(srv[s].code)} ELSE {github}
  /\ Reply(s, IF srv[s].kind = "logout" THEN "done" ELSE "error", None)
  /\ UNCHANGED <<codes, sessions, file, signIns>>

(* The connection breaks: the server works on and the process hears of an   *)
(* error ...                                                                *)
Leaves(c) ==
  /\ srv[<<c, "now">>].pc # "idle" /\ srv[<<c, "left">>].pc = "idle"
  /\ Fault

AnswerLost(c) ==
  /\ Leaves(c)
  /\ srv' = [srv EXCEPT ![<<c, "left">>] = srv[<<c, "now">>],
                        ![<<c, "now">>] = NoRequest]
  /\ cli' = [cli EXCEPT ![c] = Heard(@, "error", None)]
  /\ UNCHANGED <<github, codes, sessions, file, cookie, signIns>>

(* ... or net/http sends the poll, a GET, again.                            *)
Resent(c) ==
  /\ Leaves(c)
  /\ srv[<<c, "now">>].kind = "poll"
  /\ srv' = [srv EXCEPT ![<<c, "left">>] = srv[<<c, "now">>],
                        ![<<c, "now">>] =
                          [NoRequest EXCEPT !.pc = "select", !.kind = "poll",
                                            !.code = srv[<<c, "now">>].code]]
  /\ UNCHANGED <<github, codes, sessions, file, cookie, cli, signIns>>

(* A process is killed.  The server works on.                               *)
ProcessCrash(c) ==
  /\ Fault
  /\ cli[c].pc # "idle" /\ srv[<<c, "left">>].pc = "idle"
  /\ cli' = [cli EXCEPT ![c] = [NoCommand EXCEPT !.end = "failed"]]
  /\ srv' = [srv EXCEPT ![<<c, "left">>] = srv[<<c, "now">>],
                        ![<<c, "now">>] = NoRequest]
  /\ UNCHANGED <<github, codes, sessions, file, cookie, signIns>>

(* apid is killed: the database stays.                                      *)
ServerCrash ==
  /\ Fault
  /\ srv' = [s \in Slots |-> NoRequest]
  /\ cli' = [c \in Clients |-> IF srv[<<c, "now">>].pc = "idle" THEN cli[c]
                               ELSE Heard(cli[c], "error", None)]
  /\ UNCHANGED <<github, codes, sessions, file, cookie, signIns>>

-----------------------------------------------------------------------------
Handle(s) ==
  \/ SelectCode(s) \/ AskGitHub(s) \/ Identify(s) \/ CreateSession(s) \/ StoreToken(s)
  \/ Lookup(s) \/ Delete(s) \/ Act(s)

Run(c) == Poll(c) \/ AskMe(c) \/ Truncate(c) \/ Write(c) \/ Remove(c)

Command(c) ==
  \/ Logout(c) \/ Ask(c, "me", None)
  \/ \E need \in Needs : Ask(c, "act", need)

World ==
  \/ \E d \in Codes : CodeExpires(d) \/ Deny(d) \/ \E u \in Users : Approve(d, u)
  \/ \E t \in Tokens : SessionExpires(t)
  \/ \E u \in Users : Visit(u)

Faulty ==
  \/ \E c \in Processes, d \in Codes : LoginFails(c, d)
  \/ \E c \in Processes : ProcessCrash(c)
  \/ \E c \in Clients : AnswerLost(c) \/ Resent(c)
  \/ \E s \in Slots : StepFails(s)
  \/ ServerCrash

Next ==
  \/ World \/ Faulty
  \/ \E c \in Processes : Deadline(c) \/ \E d \in Codes : Login(c, d)
  \/ \E c \in Clients : Run(c) \/ Command(c)
  \/ \E s \in Slots : Handle(s)

Spec == Init /\ [][Next]_vars

(* The server answers and a process goes on; no command is given for sure,  *)
(* no user has to decide, and no clock has to pass a deadline.              *)
FairSpec ==
  /\ Spec
  /\ \A c \in Processes : WF_vars(Handle(<<c, "now">>)) /\ WF_vars(Run(c))

-----------------------------------------------------------------------------
Grants ==
  [state : {"new", "pending", "approved", "denied", "used"}, by : Users \cup {None}]
DeviceRows == [token : Tokens \cup {None}, expired : BOOLEAN]
Commands ==
  [pc : {"idle", "wait", "polling", "in", "naming", "save", "write",
         "asking", "entering", "leaving", "remove"},
   code : Codes \cup {None}, token : Tokens \cup {None},
   end : {None, "in", "late", "failed"}]
Requests ==
  [pc : {"idle", "select", "github", "identify", "mint", "store",
         "lookup", "logout", "act"},
   kind : {None, "poll", "visit", "me", "act", "logout"},
   code : Codes \cup {None}, token : Tokens \cup {None},
   user : Users \cup {None}, orgs : SUBSET Orgs,
   need : Needs \cup {None}, gone : BOOLEAN]

TypeOK ==
  /\ github \in [Codes -> Grants]
  /\ codes \in [Codes -> DeviceRows]
  /\ sessions \in Seq(Rows)
  /\ file \in Tokens \cup {None, Torn} /\ cookie \in Tokens \cup {None}
  /\ cli \in [Clients -> Commands]
  /\ srv \in [Slots -> Requests]
  /\ signIns \in 0 .. MaxSignIns /\ faults \in 0 .. MaxFaults

(* Whoever a process is signed in as approved the code which that process   *)
(* showed, and the token kept with a code belongs to whoever approved it.   *)
SignedInAsGranter ==
  /\ \A d \in Codes :
       codes[d].token # None => sessions[codes[d].token].user = github[d].by
  /\ \A c \in Processes :
       cli[c].pc \in {"in", "naming", "save", "write"} =>
         sessions[cli[c].token].user = github[cli[c].code].by

(* However often a code is polled, resent, or polled again after a failure, *)
(* its approval makes one session, and the token kept with the code is that *)
(* of this session (internal/auth/auth_test.go:116).                        *)
OneSessionPerGrant ==
  /\ \A t, u \in Tokens :
       sessions[t].code # None /\ sessions[t].code = sessions[u].code => t = u
  /\ \A d \in Codes : codes[d].token # None => sessions[codes[d].token].code = d

(* A change to the packages of an owner is made by that owner, by a member  *)
(* of the organisation whom GitHub listed as one at the sign-in of this     *)
(* session, or by an admin; a sign-in for which GitHub did not list the     *)
(* organisations lets nobody act for one (internal/auth/auth.go:246-249).   *)
(* And the request was sent before the session was logged out or expired.   *)
OnlyManagersAct ==
  \A s \in Slots :
    LET q == srv[s]
        row == sessions[q.token]
    IN  q.pc = "act" => /\ q.need \in {row.user} \cup row.orgs \/ row.user \in Admins
                        /\ ~q.gone

(* When inguma logout removes the token file, the session whose token it    *)
(* had read is gone from the server, unless something failed on the way.    *)
LogoutRevokes ==
  \A c \in Processes :
    cli[c].pc = "remove" /\ cli[c].token # None /\ faults = 0 =>
      ~sessions[cli[c].token].live

(* A login whose code is approved, sooner or later, ends with its token on  *)
(* disk: if nothing fails on the way, only time can keep it from there.     *)
LoginCompletes ==
  \A c \in Processes, d \in Codes :
    cli[c].pc = "wait" /\ cli[c].code = d /\ <>(github[d].by # None) ~>
      cli[c].end \in {"in", "late"} \/ codes[d].expired \/ faults > 0

=============================================================================
