----------------------------- MODULE SessionProofs -----------------------------
(***************************************************************************)
(* Proofs about Session, for any processes, codes, users, organisations,   *)
(* scopes and bounds.                                                      *)
(***************************************************************************)
EXTENDS Session, TLAPS

(* t is the session that the code d was approved for.                       *)
Holds(t, d) == t \in Tokens /\ d \in Codes /\ sessions[t].code = d

(* The user of a row, or an organisation it was made with, has the scope.   *)
Manages(row, need) == need \in {row.user} \cup row.orgs \/ row.user \in Admins

(* A session has the scopes of its user and of the organisations that GitHub *)
(* listed, and its user approved its code if it has one.                    *)
SessionOK(r) ==
  /\ r.scopes = Entitled(r.user, r.orgs)
  /\ r.code # None => github[r.code].state = "used" /\ r.user = github[r.code].by

(* A request that redeemed the approval of its code, and has no session yet.*)
Granted(q) == q.pc \in {"identify", "mint"} /\ q.kind = "poll"

(* What the server knows while it works on a request.                       *)
RequestOK(q) ==
  /\ q.code # None => github[q.code].state # "new"
  /\ q.pc \in {"select", "github", "store"} => q.kind = "poll" /\ q.code \in Codes
  /\ q.pc \in {"identify", "mint"} =>
       /\ q.user \in Users /\ q.kind \in {"poll", "visit"}
       /\ q.kind = "poll" =>
            q.code \in Codes /\ github[q.code].state = "used" /\ q.user = github[q.code].by
       /\ q.kind = "visit" => q.code = None
  /\ q.pc = "store" => Holds(q.token, q.code)
  /\ q.pc \in {"lookup", "logout", "act"} =>
       /\ q.token \in Tokens /\ q.kind \in {"me", "act", "logout"}
       /\ q.gone => sessions[q.token].expired \/ ~sessions[q.token].live
  /\ q.pc = "logout" => q.kind = "logout"
  /\ q.pc = "act" =>
       q.kind = "act" /\ ~q.gone /\ Manages(sessions[q.token], q.need)

(* What a process knows.                                                    *)
CommandOK(p) ==
  /\ p.code # None => github[p.code].state # "new"
  /\ p.pc \in {"wait", "polling"} => p.code \in Codes
  /\ p.pc \in {"in", "naming", "save", "write"} => Holds(p.token, p.code)
  /\ p.pc \in {"idle", "asking", "entering"} => p.token = None
  /\ p.pc = "leaving" => p.token \in Tokens
  /\ p.pc = "remove" /\ p.token # None /\ faults = 0 =>
       p.token \in Tokens /\ ~sessions[p.token].live

(* A request under way is what its process waits for.                       *)
Talks(p, q) ==
  q.pc # "idle" =>
    \/ p.pc = "polling" /\ q.kind = "poll" /\ q.code = p.code
    \/ p.pc = "naming" /\ q.kind = "me"
    \/ p.pc = "asking" /\ q.kind \in {"me", "act", "logout"}
    \/ p.pc = "entering" /\ q.kind = "visit"
    \/ p.pc = "leaving" /\ q.kind = "logout" /\ q.token = p.token

(* An approval is redeemed by one request, which makes one session of it.   *)
OneGrant ==
  /\ \A t, u \in Tokens :
       sessions[t].code # None /\ sessions[t].code = sessions[u].code => t = u
  /\ \A s, r \in Slots :
       s # r /\ Granted(srv[s]) /\ Granted(srv[r]) => srv[s].code # srv[r].code
  /\ \A s \in Slots : Granted(srv[s]) =>
       \A t \in Tokens : sessions[t].code # srv[s].code

(* The inductive invariant.                                                 *)
SessionInv ==
  /\ TypeOK
  /\ \A d \in Codes : github[d].state = "approved" => github[d].by \in Users
  /\ \A t \in Tokens : SessionOK(sessions[t])
  /\ \A d \in Codes : codes[d].token # None => Holds(codes[d].token, d)
  /\ \A s \in Slots : RequestOK(srv[s])
  /\ \A c \in Clients : CommandOK(cli[c]) /\ Talks(cli[c], srv[<<c, "now">>])
  /\ OneGrant

-----------------------------------------------------------------------------
LEMMA NoneFacts ==
  /\ None \notin Codes /\ None \notin Users /\ \A t \in Tokens : None # t /\ Torn # t
  /\ None # Torn /\ Codes \subseteq Nat
  /\ \A u \in Users : OrgsOf[u] \in SUBSET Orgs
  /\ \A t \in Nat : None # t /\ Torn # t
<1>1. \A t \in Nat : None # t /\ Torn # t
  BY TokensAssumption
<1>2. \A t \in Tokens : t \in Nat
  BY DEF Tokens
<1> QED
  BY <1>1, <1>2, UsersAssumption, TokensAssumption

LEMMA ClientFacts ==
  /\ \A c \in Clients : <<c, "now">> \in Slots /\ <<c, "left">> \in Slots
                        /\ <<c, "now">> # <<c, "left">>
  /\ \A s \in Slots : s[1] \in Clients /\ s[2] \in {"now", "left"} /\ s = <<s[1], s[2]>>
  /\ \A c \in Processes : c \in Clients /\ c # Browser
  /\ Browser \in Clients
BY ProcessesAssumption DEF Clients, Slots

LEMMA NoRequestOK ==
  /\ NoRequest.pc = "idle" /\ NoRequest \in Requests /\ RequestOK(NoRequest)
  /\ ~Granted(NoRequest)
BY DEF NoRequest, Requests, RequestOK, Granted

LEMMA NoCommandOK ==
  NoCommand \in Commands /\ CommandOK(NoCommand) /\ NoCommand.pc = "idle"
BY DEF NoCommand, Commands, CommandOK

(* Sessions are added and end, but never change hands or come back; GitHub  *)
(* takes no code back and keeps who approved it.                            *)
SessionsGrow ==
  /\ sessions' \in Seq(Rows)
  /\ \A t \in Tokens :
       /\ t \in Tokens'
       /\ sessions'[t].code = sessions[t].code
       /\ sessions'[t].user = sessions[t].user
       /\ sessions'[t].orgs = sessions[t].orgs
       /\ sessions'[t].scopes = sessions[t].scopes
       /\ sessions'[t].live => sessions[t].live
       /\ sessions[t].expired => sessions'[t].expired
GitHubMoves ==
  /\ github' \in [Codes -> Grants]
  /\ \A d \in Codes :
       /\ github[d].state # "new" => github'[d].state # "new"
       /\ github[d].state = "used" => github'[d].state = "used" /\ github'[d].by = github[d].by
       /\ github'[d].state = "approved" => github'[d].by \in Users
FaultsRise == faults' \in 0 .. MaxFaults /\ faults' >= faults
Grown == SessionsGrow /\ GitHubMoves /\ FaultsRise

LEMMA TokensGrow ==
  ASSUME SessionsGrow
  PROVE  /\ Tokens \subseteq Tokens' /\ Requests \subseteq Requests'
         /\ Commands \subseteq Commands' /\ DeviceRows \subseteq DeviceRows'
<1>1. Tokens \subseteq Tokens'
  BY DEF SessionsGrow
<1>2. Requests \subseteq Requests'
  <2> SUFFICES ASSUME NEW q \in Requests PROVE q \in Requests'
    OBVIOUS
  <2> QED
    BY <1>1 DEF Requests
<1>3. Commands \subseteq Commands'
  <2> SUFFICES ASSUME NEW p \in Commands PROVE p \in Commands'
    OBVIOUS
  <2> QED
    BY <1>1 DEF Commands
<1>4. DeviceRows \subseteq DeviceRows'
  <2> SUFFICES ASSUME NEW d \in DeviceRows PROVE d \in DeviceRows'
    OBVIOUS
  <2> QED
    BY <1>1 DEF DeviceRows
<1> QED
  BY <1>1, <1>2, <1>3, <1>4

(* What server and processes know stays true.                               *)
LEMMA HoldsStays ==
  ASSUME SessionsGrow, NEW t, NEW d, Holds(t, d)
  PROVE  Holds(t, d)'
BY DEF SessionsGrow, Holds

LEMMA RequestStays ==
  ASSUME Grown, NEW q \in Requests, RequestOK(q)
  PROVE  RequestOK(q)'
<1>1. q.code \in Codes \cup {None} /\ q.token \in Tokens \cup {None}
  BY DEF Requests
<1>2. q.code # None => github'[q.code].state # "new"
  BY <1>1 DEF Grown, GitHubMoves, RequestOK
<1>3. q.pc \in {"identify", "mint"} /\ q.kind = "poll" =>
        github'[q.code].state = "used" /\ q.user = github'[q.code].by
  BY DEF Grown, GitHubMoves, RequestOK
<1>4. q.pc = "store" => Holds(q.token, q.code)'
  BY HoldsStays DEF Grown, RequestOK
<1>5. q.pc \in {"lookup", "logout", "act"} =>
        /\ q.token \in Tokens'
        /\ sessions'[q.token].user = sessions[q.token].user
        /\ sessions'[q.token].orgs = sessions[q.token].orgs
        /\ q.gone => sessions'[q.token].expired \/ ~sessions'[q.token].live
  BY DEF Grown, SessionsGrow, RequestOK
<1>6. q.pc = "act" => Manages(sessions'[q.token], q.need)
  BY <1>5 DEF RequestOK, Manages
<1> QED
  BY <1>2, <1>3, <1>4, <1>5, <1>6 DEF RequestOK, Manages

LEMMA CommandStays ==
  ASSUME TypeOK, Grown, NEW p \in Commands, CommandOK(p)
  PROVE  CommandOK(p)'
<1>1. p.code \in Codes \cup {None} /\ p.token \in Tokens \cup {None}
  BY DEF Commands
<1>2. p.code # None => github'[p.code].state # "new"
  BY <1>1 DEF Grown, GitHubMoves, CommandOK
<1>3. p.pc \in {"in", "naming", "save", "write"} => Holds(p.token, p.code)'
  BY HoldsStays DEF Grown, CommandOK
<1>4. faults' = 0 => faults = 0
  BY BoundsAssumption DEF TypeOK, Grown, FaultsRise
<1>5. p.pc = "leaving" => p.token \in Tokens'
  BY DEF Grown, SessionsGrow, CommandOK
<1>6. p.pc = "remove" /\ p.token # None /\ faults' = 0 =>
        p.token \in Tokens' /\ ~sessions'[p.token].live
  BY <1>4 DEF Grown, SessionsGrow, CommandOK
<1> QED
  BY <1>2, <1>3, <1>5, <1>6 DEF CommandOK

LEMMA SessionStays ==
  ASSUME TypeOK, Grown, \A t \in Tokens : SessionOK(sessions[t]), NEW t \in Tokens
  PROVE  SessionOK(sessions[t])'
<1>1. sessions[t] \in Rows
  BY DEF TypeOK, Tokens
<1>2. sessions[t].code \in Codes \cup {None}
  BY <1>1 DEF Rows
<1> QED
  BY <1>2 DEF Grown, SessionsGrow, GitHubMoves, SessionOK

-----------------------------------------------------------------------------
(* The parts of the invariant.                                              *)
Database ==
  /\ codes \in [Codes -> DeviceRows]
  /\ file \in Tokens \cup {None, Torn} /\ cookie \in Tokens \cup {None}
  /\ signIns \in 0 .. MaxSignIns
  /\ \A t \in Tokens : SessionOK(sessions[t])
  /\ \A d \in Codes : codes[d].token # None => Holds(codes[d].token, d)
Requesting == srv \in [Slots -> Requests] /\ \A s \in Slots : RequestOK(srv[s])
Commanding == cli \in [Clients -> Commands] /\ \A c \in Clients : CommandOK(cli[c])
Talking == \A c \in Clients : Talks(cli[c], srv[<<c, "now">>])

LEMMA PartsMakeInv ==
  ASSUME Grown, Database', Requesting', Commanding', Talking', OneGrant'
  PROVE  SessionInv'
BY DEF SessionInv, TypeOK, Database, Requesting, Commanding, Talking,
       Grown, SessionsGrow, GitHubMoves, FaultsRise

LEMMA InvHasParts ==
  ASSUME SessionInv
  PROVE  TypeOK /\ Database /\ Requesting /\ Commanding /\ Talking /\ OneGrant
BY DEF SessionInv, TypeOK, Database, Requesting, Commanding, Talking

LEMMA QuietGrows ==
  ASSUME SessionInv, github' = github, sessions' = sessions, FaultsRise
  PROVE  Grown /\ Tokens' = Tokens
BY DEF SessionInv, TypeOK, Grown, SessionsGrow, GitHubMoves, Tokens

LEMMA FaultRises ==
  ASSUME SessionInv, Fault
  PROVE  FaultsRise
BY BoundsAssumption DEF SessionInv, TypeOK, FaultsRise, Fault

LEMMA NoFaultRises ==
  ASSUME SessionInv, faults' = faults
  PROVE  FaultsRise
BY BoundsAssumption DEF SessionInv, TypeOK, FaultsRise

LEMMA DatabaseKept ==
  ASSUME SessionInv, Grown, Tokens' = Tokens, codes' \in [Codes -> DeviceRows],
         \A d \in Codes : codes'[d].token = codes[d].token,
         file' \in Tokens \cup {None, Torn}, cookie' \in Tokens \cup {None},
         signIns' \in 0 .. MaxSignIns
  PROVE  Database'
<1>1. \A t \in Tokens : SessionOK(sessions[t])'
  BY SessionStays DEF SessionInv
<1>2. \A d \in Codes : codes'[d].token # None => Holds(codes[d].token, d)'
  <2> SUFFICES ASSUME NEW d \in Codes, codes'[d].token # None
               PROVE  Holds(codes[d].token, d)'
    OBVIOUS
  <2>1. Holds(codes[d].token, d)
    BY DEF SessionInv
  <2> QED
    BY <2>1 DEF Holds, Grown, SessionsGrow
<1>3. DeviceRows' = DeviceRows
  BY DEF DeviceRows
<1> QED
  BY <1>1, <1>2, <1>3 DEF Database

LEMMA RequestPut ==
  ASSUME SessionInv, Grown, NEW s \in Slots, NEW q, q \in Requests', RequestOK(q)',
         srv' = [srv EXCEPT ![s] = q]
  PROVE  Requesting'
<1>1. \A r \in Slots : srv[r] \in Requests /\ RequestOK(srv[r])
  BY DEF SessionInv, TypeOK
<1>2. srv \in [Slots -> Requests] /\ Requests \subseteq Requests'
  BY TokensGrow DEF Grown, SessionInv, TypeOK
<1>3. srv' \in [Slots -> Requests']
  BY <1>2
<1>4. ASSUME NEW r \in Slots PROVE RequestOK(srv[r])'
  <2>1. CASE r = s
    <3>1. q = srv'[r]
      BY <1>2, <2>1
    <3> QED
      BY <3>1
  <2>2. CASE r # s
    <3>1. PICK x \in Requests : x = srv[r] /\ RequestOK(x)
      BY <1>1
    <3>2. RequestOK(x)' /\ x = srv'[r]
      BY <1>2, <2>2, <3>1, RequestStays
    <3> QED
      BY <3>2
  <2> QED
    BY <2>1, <2>2
<1> QED
  BY <1>3, <1>4 DEF Requesting

LEMMA RequestsKept ==
  ASSUME SessionInv, Grown, srv' = srv
  PROVE  Requesting'
<1>1. srv \in [Slots -> Requests'] /\ Requests \subseteq Requests'
  BY TokensGrow DEF Grown, SessionInv, TypeOK
<1>2. ASSUME NEW r \in Slots PROVE RequestOK(srv[r])'
  <2>1. PICK x \in Requests : x = srv[r] /\ RequestOK(x)
    BY DEF SessionInv, TypeOK
  <2>2. RequestOK(x)' /\ x = srv'[r]
    BY <2>1, RequestStays
  <2> QED
    BY <2>2
<1> QED
  BY <1>1, <1>2 DEF Requesting

LEMMA CommandPut ==
  ASSUME SessionInv, Grown, NEW c \in Clients, NEW p, p \in Commands', CommandOK(p)',
         cli' = [cli EXCEPT ![c] = p]
  PROVE  Commanding'
<1>1. \A b \in Clients : cli[b] \in Commands /\ CommandOK(cli[b])
  BY DEF SessionInv, TypeOK
<1>2. cli \in [Clients -> Commands] /\ Commands \subseteq Commands'
  BY TokensGrow DEF Grown, SessionInv, TypeOK
<1>3. cli' \in [Clients -> Commands']
  BY <1>2
<1>4. ASSUME NEW b \in Clients PROVE CommandOK(cli[b])'
  <2>1. CASE b = c
    <3>1. p = cli'[b]
      BY <1>2, <2>1
    <3> QED
      BY <3>1
  <2>2. CASE b # c
    <3>1. PICK x \in Commands : x = cli[b] /\ CommandOK(x)
      BY <1>1
    <3>2. CommandOK(x)' /\ x = cli'[b]
      BY <1>2, <2>2, <3>1, CommandStays DEF SessionInv
    <3> QED
      BY <3>2
  <2> QED
    BY <2>1, <2>2
<1> QED
  BY <1>3, <1>4 DEF Commanding

LEMMA CommandsKept ==
  ASSUME SessionInv, Grown, cli' = cli
  PROVE  Commanding'
<1>1. cli \in [Clients -> Commands'] /\ Commands \subseteq Commands'
  BY TokensGrow DEF Grown, SessionInv, TypeOK
<1>2. ASSUME NEW b \in Clients PROVE CommandOK(cli[b])'
  <2>1. PICK x \in Commands : x = cli[b] /\ CommandOK(x)
    BY DEF SessionInv, TypeOK
  <2>2. CommandOK(x)' /\ x = cli'[b]
    BY <2>1, CommandStays DEF SessionInv
  <2> QED
    BY <2>2
<1> QED
  BY <1>1, <1>2 DEF Commanding

(* Nothing is granted and no session made.                                  *)
LEMMA GrantsKept ==
  ASSUME SessionInv, Grown, Tokens' = Tokens,
         \A s \in Slots : Granted(srv'[s]) => Granted(srv[s]) /\ srv'[s].code = srv[s].code
  PROVE  OneGrant'
<1>1. \A t \in Tokens : sessions'[t].code = sessions[t].code
  BY DEF Grown, SessionsGrow
<1>2. \A s \in Slots : Granted(srv[s])' <=> Granted(srv'[s])
  BY DEF Granted
<1>3. \A t, u \in Tokens' :
        sessions'[t].code # None /\ sessions'[t].code = sessions'[u].code => t = u
  BY <1>1 DEF SessionInv, OneGrant
<1>4. \A s, r \in Slots :
        s # r /\ Granted(srv'[s]) /\ Granted(srv'[r]) => srv'[s].code # srv'[r].code
  BY DEF SessionInv, OneGrant
<1>5. \A s \in Slots : Granted(srv'[s]) =>
        \A t \in Tokens' : sessions'[t].code # srv'[s].code
  BY <1>1 DEF SessionInv, OneGrant
<1> QED
  BY <1>2, <1>3, <1>4, <1>5 DEF OneGrant

-----------------------------------------------------------------------------
(* GitHub, its users and time leave commands and requests alone.            *)
LEMMA WorldKeeps ==
  ASSUME SessionInv, Grown, Tokens' = Tokens, codes' \in [Codes -> DeviceRows],
         \A d \in Codes : codes'[d].token = codes[d].token,
         UNCHANGED <<file, cookie, cli, srv, signIns>>
  PROVE  SessionInv'
<1>1. Database'
  BY DatabaseKept DEF SessionInv, TypeOK
<1>2. Requesting' /\ Commanding' /\ Talking'
  BY RequestsKept, CommandsKept DEF SessionInv, Talking, Talks
<1>3. OneGrant'
  BY GrantsKept
<1> QED
  BY <1>1, <1>2, <1>3, PartsMakeInv

LEMMA ApproveKeeps ==
  ASSUME SessionInv, NEW d \in Codes, NEW u \in Users, Approve(d, u)
  PROVE  SessionInv'
<1>1. /\ github' = [github EXCEPT ![d] = [state |-> "approved", by |-> u]]
      /\ github[d].state = "pending" /\ github \in [Codes -> Grants]
      /\ UNCHANGED <<codes, sessions, file, cookie, cli, srv, signIns, faults>>
  BY DEF Approve, SessionInv, TypeOK
<1>2. [state |-> "approved", by |-> u] \in Grants
  BY DEF Grants
<1>3. GitHubMoves
  BY <1>1, <1>2 DEF GitHubMoves, SessionInv
<1>4. Grown /\ Tokens' = Tokens
  BY <1>1, <1>3, NoFaultRises DEF SessionInv, TypeOK, Grown, SessionsGrow, Tokens
<1> QED
  BY <1>1, <1>4, WorldKeeps DEF SessionInv, TypeOK

LEMMA DenyKeeps ==
  ASSUME SessionInv, NEW d \in Codes, Deny(d)
  PROVE  SessionInv'
<1>1. /\ github' = [github EXCEPT ![d] = [github[d] EXCEPT !.state = "denied"]]
      /\ github[d].state = "pending" /\ github \in [Codes -> Grants]
      /\ UNCHANGED <<codes, sessions, file, cookie, cli, srv, signIns, faults>>
  BY DEF Deny, SessionInv, TypeOK
<1>2. [github[d] EXCEPT !.state = "denied"] \in Grants
  BY <1>1 DEF Grants
<1>3. GitHubMoves
  BY <1>1, <1>2 DEF GitHubMoves, Grants, SessionInv
<1>4. Grown /\ Tokens' = Tokens
  BY <1>1, <1>3, NoFaultRises DEF SessionInv, TypeOK, Grown, SessionsGrow, Tokens
<1> QED
  BY <1>1, <1>4, WorldKeeps DEF SessionInv, TypeOK

LEMMA CodeExpiresKeeps ==
  ASSUME SessionInv, NEW d \in Codes, CodeExpires(d)
  PROVE  SessionInv'
<1>1. /\ codes' = [codes EXCEPT ![d] = [codes[d] EXCEPT !.expired = TRUE]]
      /\ codes \in [Codes -> DeviceRows]
      /\ UNCHANGED <<github, sessions, file, cookie, cli, srv, signIns, faults>>
  BY DEF CodeExpires, SessionInv, TypeOK
<1>2. PICK row : row = [codes[d] EXCEPT !.expired = TRUE]
  OBVIOUS
<1>3. codes[d] \in DeviceRows
  BY <1>1
<1>4. row \in DeviceRows /\ row.token = codes[d].token
  BY <1>2, <1>3 DEF DeviceRows
<1>5. /\ codes' \in [Codes -> DeviceRows]
      /\ \A e \in Codes : codes'[e].token = codes[e].token
  BY <1>1, <1>2, <1>4
<1>6. Grown /\ Tokens' = Tokens
  BY <1>1, NoFaultRises, QuietGrows
<1> QED
  BY <1>1, <1>5, <1>6, WorldKeeps

(* A row of sessions ends.                                                  *)
LEMMA RowEnds ==
  ASSUME SessionInv, github' = github, FaultsRise, NEW t \in Tokens, NEW row,
         row \in {[sessions[t] EXCEPT !.expired = TRUE], [sessions[t] EXCEPT !.live = FALSE]},
         sessions' = [sessions EXCEPT ![t] = row]
  PROVE  Grown /\ Tokens' = Tokens /\ sessions'[t] = row
<1>1. sessions \in Seq(Rows) /\ sessions[t] \in Rows /\ t \in 1 .. Len(sessions)
  BY DEF SessionInv, TypeOK, Tokens
<1>2. /\ row \in Rows /\ row.user = sessions[t].user /\ row.scopes = sessions[t].scopes
      /\ row.orgs = sessions[t].orgs /\ row.code = sessions[t].code /\ (row.live => sessions[t].live)
      /\ (sessions[t].expired => row.expired)
  BY <1>1 DEF Rows
<1>3. /\ sessions' \in Seq(Rows) /\ Len(sessions') = Len(sessions)
      /\ \A u \in 1 .. Len(sessions) : sessions'[u] = IF u = t THEN row ELSE sessions[u]
  BY <1>1, <1>2
<1>4. SessionsGrow
  BY <1>2, <1>3 DEF SessionsGrow, Tokens
<1>5. GitHubMoves
  BY DEF GitHubMoves, SessionInv, TypeOK
<1> QED
  BY <1>1, <1>3, <1>4, <1>5 DEF Grown, Tokens

LEMMA SessionExpiresKeeps ==
  ASSUME SessionInv, NEW t \in Tokens, SessionExpires(t)
  PROVE  SessionInv'
<1>1. /\ sessions' = [sessions EXCEPT ![t] = [sessions[t] EXCEPT !.expired = TRUE]]
      /\ UNCHANGED <<github, codes, file, cookie, cli, srv, signIns, faults>>
  BY DEF SessionExpires
<1>2. Grown /\ Tokens' = Tokens
  BY <1>1, RowEnds, NoFaultRises
<1> QED
  BY <1>1, <1>2, WorldKeeps DEF SessionInv, TypeOK

-----------------------------------------------------------------------------
(* Processes.                                                               *)
LEMMA NotWaiting ==
  ASSUME SessionInv, NEW c \in Clients,
         cli[c].pc \notin {"polling", "naming", "asking", "entering", "leaving"}
  PROVE  srv[<<c, "now">>].pc = "idle"
BY DEF SessionInv, Talks

(* One of them goes on, and leaves the server alone.                        *)
LEMMA CommandKeeps ==
  ASSUME SessionInv, Grown, Tokens' = Tokens, codes' = codes, cookie' = cookie, srv' = srv,
         file' \in Tokens \cup {None, Torn}, signIns' \in 0 .. MaxSignIns,
         NEW c \in Clients, NEW p \in Commands, CommandOK(p)',
         cli' = [cli EXCEPT ![c] = p],
         cli[c].pc \notin {"polling", "naming", "asking", "entering", "leaving"}
  PROVE  SessionInv'
<1>1. Database'
  BY DatabaseKept DEF SessionInv, TypeOK
<1>2. Requesting'
  BY RequestsKept
<1>3. Commanding'
  <2>1. p \in Commands'
    BY TokensGrow DEF Grown
  <2> QED
    BY <2>1, CommandPut
<1>4. Talking'
  <2>1. srv[<<c, "now">>].pc = "idle"
    BY NotWaiting
  <2>2. \A b \in Clients \ {c} : cli'[b] = cli[b]
    BY DEF SessionInv, TypeOK
  <2> QED
    BY <2>1, <2>2 DEF SessionInv, Talking, Talks
<1>5. OneGrant'
  BY GrantsKept
<1> QED
  BY <1>1, <1>2, <1>3, <1>4, <1>5, PartsMakeInv

(* GitHub hands out a code that it has not handed out before.               *)
LEMMA CodeIsNew ==
  ASSUME SessionInv, NEW d \in Codes, HandsOut(d), sessions' = sessions, FaultsRise
  PROVE  Grown /\ Tokens' = Tokens /\ github'[d].state # "new"
<1>1. /\ github' = [github EXCEPT ![d] = [github[d] EXCEPT !.state = "pending"]]
      /\ github \in [Codes -> Grants]
  BY DEF HandsOut, SessionInv, TypeOK
<1>2. github[d].state = "new"
  <2>1. ~(d < d)
    BY NoneFacts
  <2> QED
    BY <2>1 DEF HandsOut
<1>3. [github[d] EXCEPT !.state = "pending"] \in Grants
      /\ [github[d] EXCEPT !.state = "pending"].state = "pending"
  BY <1>1 DEF Grants
<1>4. GitHubMoves /\ github'[d].state # "new"
  BY <1>1, <1>2, <1>3 DEF GitHubMoves, SessionInv
<1> QED
  BY <1>4 DEF SessionInv, TypeOK, Grown, SessionsGrow, Tokens

LEMMA LoginKeeps ==
  ASSUME SessionInv, NEW c \in Processes, NEW d \in Codes, Login(c, d)
  PROVE  SessionInv'
<1>1. PICK p : p = [NoCommand EXCEPT !.pc = "wait", !.code = d]
  OBVIOUS
<1>2. /\ cli' = [cli EXCEPT ![c] = p] /\ HandsOut(d) /\ cli[c].pc = "idle"
      /\ UNCHANGED <<codes, sessions, file, cookie, srv, faults>>
      /\ signIns' \in 0 .. MaxSignIns /\ file \in Tokens \cup {None, Torn}
  BY <1>1, BoundsAssumption DEF Login, SignIn, SessionInv, TypeOK
<1>3. p \in Commands /\ p.pc = "wait" /\ p.code = d
  BY <1>1 DEF NoCommand, Commands
<1>4. Grown /\ Tokens' = Tokens /\ github'[d].state # "new"
  BY <1>2, CodeIsNew, NoFaultRises
<1>5. CommandOK(p)'
  BY <1>3, <1>4 DEF CommandOK
<1> QED
  BY <1>2, <1>3, <1>4, <1>5, ClientFacts, CommandKeeps

(* An ended command.                                                        *)
LEMMA EndedOK ==
  ASSUME NEW e \in {"in", "late", "failed"}, NEW p, p = [NoCommand EXCEPT !.end = e]
  PROVE  p \in Commands /\ CommandOK(p) /\ CommandOK(p)' /\ p.pc = "idle"
<1>1. p \in Commands /\ p.pc = "idle" /\ p.code = None /\ p.token = None
  BY DEF NoCommand, Commands
<1> QED
  BY <1>1 DEF CommandOK

LEMMA LoginFailsKeeps ==
  ASSUME SessionInv, NEW c \in Processes, NEW d \in Codes, LoginFails(c, d)
  PROVE  SessionInv'
<1>1. PICK p : p = [NoCommand EXCEPT !.end = "failed"]
  OBVIOUS
<1>2. /\ cli' = [cli EXCEPT ![c] = p] /\ HandsOut(d) /\ cli[c].pc = "idle"
      /\ UNCHANGED <<codes, sessions, file, cookie, srv>>
      /\ signIns' \in 0 .. MaxSignIns /\ file \in Tokens \cup {None, Torn}
  BY <1>1, BoundsAssumption DEF LoginFails, SignIn, SessionInv, TypeOK
<1>3. p \in Commands /\ CommandOK(p)'
  BY <1>1, EndedOK
<1>4. Grown /\ Tokens' = Tokens
  BY <1>2, CodeIsNew, FaultRises DEF LoginFails
<1> QED
  BY <1>2, <1>3, <1>4, ClientFacts, CommandKeeps

LEMMA DeadlineKeeps ==
  ASSUME SessionInv, NEW c \in Processes, Deadline(c)
  PROVE  SessionInv'
<1>1. PICK p : p = [NoCommand EXCEPT !.end = "late"]
  OBVIOUS
<1>2. /\ cli' = [cli EXCEPT ![c] = p] /\ cli[c].pc = "wait"
      /\ UNCHANGED <<github, codes, sessions, file, cookie, srv, signIns, faults>>
      /\ signIns \in 0 .. MaxSignIns /\ file \in Tokens \cup {None, Torn}
  BY <1>1 DEF Deadline, SessionInv, TypeOK
<1>3. p \in Commands /\ CommandOK(p)'
  BY <1>1, EndedOK
<1>4. Grown /\ Tokens' = Tokens
  BY <1>2, NoFaultRises, QuietGrows
<1> QED
  BY <1>2, <1>3, <1>4, ClientFacts, CommandKeeps

LEMMA TruncateKeeps ==
  ASSUME SessionInv, NEW c \in Clients, Truncate(c)
  PROVE  SessionInv'
<1>1. PICK p : p = [cli[c] EXCEPT !.pc = "write"]
  OBVIOUS
<1>2. /\ cli' = [cli EXCEPT ![c] = p] /\ cli[c].pc = "save" /\ file' = Torn
      /\ UNCHANGED <<github, codes, sessions, cookie, srv, signIns, faults>>
      /\ signIns \in 0 .. MaxSignIns /\ cli[c] \in Commands /\ CommandOK(cli[c])
  BY <1>1 DEF Truncate, SessionInv, TypeOK
<1>3. p \in Commands /\ p.pc = "write" /\ p.code = cli[c].code /\ p.token = cli[c].token
  BY <1>1, <1>2 DEF Commands
<1>4. CommandOK(p)
  BY <1>2, <1>3 DEF CommandOK
<1>5. Grown /\ Tokens' = Tokens
  BY <1>2, NoFaultRises, QuietGrows
<1>6. CommandOK(p)'
  BY <1>3, <1>4, <1>5, CommandStays DEF SessionInv
<1> QED
  BY <1>2, <1>3, <1>5, <1>6, CommandKeeps

LEMMA WriteKeeps ==
  ASSUME SessionInv, NEW c \in Clients, Write(c)
  PROVE  SessionInv'
<1>1. PICK p : p = [NoCommand EXCEPT !.end = "in"]
  OBVIOUS
<1>2. /\ cli' = [cli EXCEPT ![c] = p] /\ cli[c].pc = "write" /\ file' = cli[c].token
      /\ UNCHANGED <<github, codes, sessions, cookie, srv, signIns, faults>>
      /\ signIns \in 0 .. MaxSignIns /\ CommandOK(cli[c])
  BY <1>1 DEF Write, SessionInv, TypeOK
<1>3. p \in Commands /\ CommandOK(p)'
  BY <1>1, EndedOK
<1>4. Grown /\ Tokens' = Tokens
  BY <1>2, NoFaultRises, QuietGrows
<1>5. file' \in Tokens \cup {None, Torn}
  BY <1>2 DEF CommandOK, Holds
<1> QED
  BY <1>2, <1>3, <1>4, <1>5, CommandKeeps

LEMMA RemoveKeeps ==
  ASSUME SessionInv, NEW c \in Clients, Remove(c)
  PROVE  SessionInv'
<1>1. /\ cli' = [cli EXCEPT ![c] = NoCommand] /\ cli[c].pc = "remove" /\ file' = None
      /\ UNCHANGED <<github, codes, sessions, cookie, srv, signIns, faults>>
      /\ signIns \in 0 .. MaxSignIns
  BY DEF Remove, SessionInv, TypeOK
<1>2. Grown /\ Tokens' = Tokens
  BY <1>1, NoFaultRises, QuietGrows
<1>3. CommandOK(NoCommand)'
  BY DEF CommandOK, NoCommand
<1> QED
  BY <1>1, <1>2, <1>3, NoCommandOK, CommandKeeps

(* Requests.                                                                *)
LEMMA SendsKeeps ==
  ASSUME SessionInv, UNCHANGED <<github, codes, sessions, file, cookie, faults>>,
         signIns' \in 0 .. MaxSignIns,
         NEW c \in Clients, NEW p \in Commands, NEW q \in Requests,
         cli' = [cli EXCEPT ![c] = p], srv' = [srv EXCEPT ![<<c, "now">>] = q],
         CommandOK(p), RequestOK(q), Talks(p, q), ~Granted(q)
  PROVE  SessionInv'
<1>1. Grown /\ Tokens' = Tokens
  BY NoFaultRises, QuietGrows
<1>2. /\ cli \in [Clients -> Commands] /\ srv \in [Slots -> Requests]
      /\ <<c, "now">> \in Slots
  BY ClientFacts DEF SessionInv, TypeOK
<1>3. Database'
  BY <1>1, DatabaseKept DEF SessionInv, TypeOK
<1>4. Requesting'
  <2>1. q \in Requests' /\ RequestOK(q)'
    BY <1>1, TokensGrow, RequestStays DEF Grown
  <2> QED
    BY <1>1, <1>2, <2>1, RequestPut
<1>5. Commanding'
  <2>1. p \in Commands' /\ CommandOK(p)'
    BY <1>1, TokensGrow, CommandStays DEF Grown, SessionInv
  <2> QED
    BY <1>1, <2>1, CommandPut
<1>6. Talking'
  <2> SUFFICES ASSUME NEW b \in Clients PROVE Talks(cli'[b], srv'[<<b, "now">>])
    BY DEF Talking, Talks
  <2>1. CASE b = c
    BY <1>2, <2>1
  <2>2. CASE b # c
    <3>1. cli'[b] = cli[b] /\ srv'[<<b, "now">>] = srv[<<b, "now">>]
      BY <1>2, <2>2, ClientFacts
    <3> QED
      BY <3>1 DEF SessionInv
  <2> QED
    BY <2>1, <2>2
<1>7. OneGrant'
  <2>1. \A s \in Slots : Granted(srv'[s]) => Granted(srv[s]) /\ srv'[s].code = srv[s].code
    BY <1>2
  <2> QED
    BY <1>1, <2>1, GrantsKept
<1> QED
  BY <1>1, <1>3, <1>4, <1>5, <1>6, <1>7, PartsMakeInv

LEMMA BearingOK ==
  ASSUME SessionInv, NEW t \in Tokens, NEW kind \in {"me", "act", "logout"},
         NEW need \in Needs \cup {None}, NEW q, q = Bearing(t, kind, need)
  PROVE  q \in Requests /\ RequestOK(q) /\ ~Granted(q)
         /\ q.kind = kind /\ q.token = t
<1>1. PICK gone \in BOOLEAN : gone = (sessions[t].expired \/ ~sessions[t].live)
  OBVIOUS
<1>2. q = [NoRequest EXCEPT !.pc = "lookup", !.kind = kind, !.token = t, !.need = need,
                            !.gone = gone]
  BY <1>1, Zenon DEF Bearing
<1>3. /\ q \in Requests /\ q.pc = "lookup" /\ q.kind = kind /\ q.token = t
      /\ q.code = None /\ q.gone = gone
  BY <1>2 DEF NoRequest, Requests
<1> QED
  BY <1>1, <1>3 DEF RequestOK, Granted

LEMMA PollKeeps ==
  ASSUME SessionInv, NEW c \in Clients, Poll(c)
  PROVE  SessionInv'
<1>1. PICK p, q :
        /\ p = [cli[c] EXCEPT !.pc = "polling", !.end = None]
        /\ q = [NoRequest EXCEPT !.pc = "select", !.kind = "poll", !.code = cli[c].code]
  OBVIOUS
<1>2. /\ cli' = [cli EXCEPT ![c] = p] /\ srv' = [srv EXCEPT ![<<c, "now">>] = q]
      /\ cli[c].pc = "wait" /\ cli[c] \in Commands /\ CommandOK(cli[c])
      /\ UNCHANGED <<github, codes, sessions, file, cookie, signIns, faults>>
      /\ signIns \in 0 .. MaxSignIns
  BY <1>1 DEF Poll, Sends, SessionInv, TypeOK
<1>3. cli[c].code \in Codes /\ github[cli[c].code].state # "new" /\ cli[c].code # None
  BY <1>2, NoneFacts DEF CommandOK
<1>4. p \in Commands /\ p.pc = "polling" /\ p.code = cli[c].code /\ p.token = cli[c].token
  BY <1>1, <1>2 DEF Commands
<1>5. CommandOK(p)
  BY <1>3, <1>4 DEF CommandOK
<1>6. /\ q \in Requests /\ q.pc = "select" /\ q.kind = "poll" /\ q.code = cli[c].code
  BY <1>1, <1>3 DEF NoRequest, Requests
<1>7. RequestOK(q) /\ ~Granted(q) /\ Talks(p, q)
  BY <1>3, <1>4, <1>6 DEF RequestOK, Granted, Talks
<1> QED
  BY <1>2, <1>4, <1>5, <1>6, <1>7, SendsKeeps

LEMMA AskMeKeeps ==
  ASSUME SessionInv, NEW c \in Clients, AskMe(c)
  PROVE  SessionInv'
<1>1. PICK p, q : /\ p = [cli[c] EXCEPT !.pc = "naming", !.end = None]
                  /\ q = Bearing(cli[c].token, "me", None)
  OBVIOUS
<1>2. /\ cli' = [cli EXCEPT ![c] = p] /\ srv' = [srv EXCEPT ![<<c, "now">>] = q]
      /\ cli[c].pc = "in" /\ cli[c] \in Commands /\ CommandOK(cli[c])
      /\ UNCHANGED <<github, codes, sessions, file, cookie, signIns, faults>>
      /\ signIns \in 0 .. MaxSignIns
  BY <1>1 DEF AskMe, Sends, SessionInv, TypeOK
<1>3. Holds(cli[c].token, cli[c].code) /\ cli[c].token \in Tokens
  BY <1>2 DEF CommandOK, Holds
<1>4. p \in Commands /\ p.pc = "naming" /\ p.code = cli[c].code /\ p.token = cli[c].token
  BY <1>1, <1>2 DEF Commands
<1>5. CommandOK(p)
  BY <1>2, <1>3, <1>4 DEF CommandOK
<1>6. q \in Requests /\ RequestOK(q) /\ ~Granted(q) /\ q.kind = "me"
  BY <1>1, <1>3, BearingOK
<1>7. Talks(p, q)
  BY <1>4, <1>6 DEF Talks
<1> QED
  BY <1>2, <1>4, <1>5, <1>6, <1>7, SendsKeeps

(* A command with the token of the file, or a page with that of the cookie. *)
LEMMA HeldType ==
  ASSUME SessionInv, NEW c \in Clients, Held(c) \notin {None, Torn}
  PROVE  Held(c) \in Tokens
BY DEF Held, SessionInv, TypeOK

LEMMA AskKeeps ==
  ASSUME SessionInv, NEW c \in Clients, NEW kind \in {"me", "act"},
         NEW need \in Needs \cup {None}, Ask(c, kind, need)
  PROVE  SessionInv'
<1>1. PICK p, q : /\ p = [cli[c] EXCEPT !.pc = "asking", !.end = None]
                  /\ q = Bearing(Held(c), kind, need)
  OBVIOUS
<1>2. /\ cli' = [cli EXCEPT ![c] = p] /\ srv' = [srv EXCEPT ![<<c, "now">>] = q]
      /\ cli[c].pc = "idle" /\ cli[c] \in Commands /\ CommandOK(cli[c])
      /\ UNCHANGED <<github, codes, sessions, file, cookie, signIns, faults>>
      /\ signIns \in 0 .. MaxSignIns /\ Held(c) \in Tokens
  BY <1>1, HeldType DEF Ask, Sends, SessionInv, TypeOK
<1>4. p \in Commands /\ p.pc = "asking" /\ p.code = cli[c].code /\ p.token = cli[c].token
  BY <1>1, <1>2 DEF Commands
<1>5. CommandOK(p)
  BY <1>2, <1>4 DEF CommandOK
<1>6. q \in Requests /\ RequestOK(q) /\ ~Granted(q) /\ q.kind = kind
  BY <1>1, <1>2, BearingOK
<1>7. Talks(p, q)
  BY <1>4, <1>6 DEF Talks
<1> QED
  BY <1>2, <1>4, <1>5, <1>6, <1>7, SendsKeeps

LEMMA VisitKeeps ==
  ASSUME SessionInv, NEW u \in Users, Visit(u)
  PROVE  SessionInv'
<1>1. PICK p, q :
        /\ p = [cli[Browser] EXCEPT !.pc = "entering", !.end = None]
        /\ q = [NoRequest EXCEPT !.pc = "identify", !.kind = "visit", !.user = u]
  OBVIOUS
<1>2. /\ cli' = [cli EXCEPT ![Browser] = p] /\ srv' = [srv EXCEPT ![<<Browser, "now">>] = q]
      /\ cli[Browser].pc = "idle" /\ cli[Browser] \in Commands /\ CommandOK(cli[Browser])
      /\ UNCHANGED <<github, codes, sessions, file, cookie, faults>>
      /\ signIns' \in 0 .. MaxSignIns
  BY <1>1, ClientFacts, BoundsAssumption DEF Visit, SignIn, Sends, SessionInv, TypeOK
<1>4. /\ p \in Commands /\ p.pc = "entering" /\ p.code = cli[Browser].code
      /\ p.token = cli[Browser].token
  BY <1>1, <1>2 DEF Commands
<1>5. CommandOK(p)
  BY <1>2, <1>4 DEF CommandOK
<1>6. /\ q \in Requests /\ q.pc = "identify" /\ q.kind = "visit" /\ q.user = u
      /\ q.code = None
  BY <1>1 DEF NoRequest, Requests
<1>7. RequestOK(q) /\ ~Granted(q) /\ Talks(p, q)
  BY <1>4, <1>6 DEF RequestOK, Granted, Talks
<1> QED
  BY <1>2, <1>4, <1>5, <1>6, <1>7, ClientFacts, SendsKeeps

LEMMA LogoutKeeps ==
  ASSUME SessionInv, NEW c \in Clients, Logout(c)
  PROVE  SessionInv'
<1>1. /\ cli[c].pc = "idle" /\ cli[c] \in Commands /\ CommandOK(cli[c])
      /\ UNCHANGED <<github, codes, sessions, file, cookie, signIns, faults>>
      /\ signIns \in 0 .. MaxSignIns /\ file \in Tokens \cup {None, Torn}
      /\ cli[c].token = None
  BY DEF Logout, SessionInv, TypeOK, CommandOK
<1>2. CASE Held(c) \in {None, Torn}
  <2>1. PICK p : p = [cli[c] EXCEPT !.pc = "remove"]
    OBVIOUS
  <2>2. cli' = [cli EXCEPT ![c] = p] /\ srv' = srv
    BY <1>2, <2>1 DEF Logout
  <2>3. p \in Commands /\ p.pc = "remove" /\ p.token = None /\ p.code = cli[c].code
    BY <1>1, <2>1 DEF Commands
  <2>4. CommandOK(p)
    BY <1>1, <2>3 DEF CommandOK
  <2>5. Grown /\ Tokens' = Tokens
    BY <1>1, NoFaultRises, QuietGrows
  <2>6. CommandOK(p)'
    BY <2>3, <2>4, <2>5, CommandStays DEF SessionInv
  <2> QED
    BY <1>1, <2>2, <2>3, <2>5, <2>6, CommandKeeps
<1>3. CASE Held(c) \notin {None, Torn}
  <2>1. PICK q : q = Bearing(Held(c), "logout", None)
    OBVIOUS
  <2>2. srv' = [srv EXCEPT ![<<c, "now">>] = q] /\ Held(c) \in Tokens
    BY <1>3, <2>1, HeldType DEF Logout
  <2>3. q \in Requests /\ RequestOK(q) /\ ~Granted(q) /\ q.kind = "logout"
        /\ q.token = Held(c)
    BY <2>1, <2>2, BearingOK
  <2>4. CASE c = Browser
    <3>1. PICK p : p = [cli[c] EXCEPT !.pc = "asking"]
      OBVIOUS
    <3>2. cli' = [cli EXCEPT ![c] = p]
      BY <1>3, <2>4, <3>1 DEF Logout
    <3>3. p \in Commands /\ p.pc = "asking" /\ p.token = None /\ p.code = cli[c].code
      BY <1>1, <3>1 DEF Commands
    <3>4. CommandOK(p) /\ Talks(p, q)
      BY <1>1, <2>3, <3>3 DEF CommandOK, Talks
    <3> QED
      BY <1>1, <2>2, <2>3, <3>2, <3>3, <3>4, SendsKeeps
  <2>5. CASE c # Browser
    <3>1. PICK p : p = [cli[c] EXCEPT !.pc = "leaving", !.token = file]
      OBVIOUS
    <3>2. cli' = [cli EXCEPT ![c] = p] /\ file \in Tokens /\ q.token = file
      BY <1>3, <2>2, <2>3, <2>5, <3>1 DEF Logout, Held
    <3>3. p \in Commands /\ p.pc = "leaving" /\ p.token = file /\ p.code = cli[c].code
      BY <1>1, <3>1, <3>2 DEF Commands
    <3>4. CommandOK(p) /\ Talks(p, q)
      BY <1>1, <2>3, <3>2, <3>3 DEF CommandOK, Talks
    <3> QED
      BY <1>1, <2>2, <2>3, <3>2, <3>3, <3>4, SendsKeeps
  <2> QED
    BY <2>4, <2>5
<1> QED
  BY <1>2, <1>3

-----------------------------------------------------------------------------
(* The server.  What a process makes of an answer: the token of a poll is   *)
(* that of the code it polled for, and an answer to a logout means that the *)
(* session is gone, unless something failed.                                *)
LEMMA HeardOK ==
  ASSUME SessionInv, Grown, NEW p \in Commands, CommandOK(p),
         NEW q \in Requests, q.pc # "idle", Talks(p, q),
         NEW status, NEW token,
         q.kind = "poll" /\ status = "ok" => Holds(token, q.code)',
         q.kind = "logout" => faults' # 0 \/ ~sessions'[q.token].live,
         NEW r, r = Heard(p, status, token)
  PROVE  r \in Commands' /\ CommandOK(r)'
<1>1. p \in Commands' /\ CommandOK(p)'
  BY TokensGrow, CommandStays DEF Grown, SessionInv
<1>2. CASE p.pc = "polling" /\ status = "ok"
  <2>1. r = [p EXCEPT !.pc = "in", !.token = token]
    BY <1>2 DEF Heard
  <2>2. Holds(token, p.code)' /\ token \in Tokens'
    BY <1>2 DEF Talks, Holds
  <2>3. r \in Commands' /\ r.pc = "in" /\ r.token = token /\ r.code = p.code
    BY <1>1, <2>1, <2>2 DEF Commands
  <2> QED
    BY <1>1, <2>2, <2>3 DEF CommandOK
<1>3. CASE p.pc = "polling" /\ status = "pending"
  <2>1. r = [p EXCEPT !.pc = "wait"]
    BY <1>3 DEF Heard
  <2>2. r \in Commands' /\ r.pc = "wait" /\ r.token = p.token /\ r.code = p.code
    BY <1>1, <2>1 DEF Commands
  <2> QED
    BY <1>1, <1>3, <2>2 DEF CommandOK
<1>4. CASE p.pc = "polling" /\ status \notin {"ok", "pending"}
  <2>1. r = [NoCommand EXCEPT !.end = "failed"]
    BY <1>4 DEF Heard
  <2>2. r \in Commands /\ CommandOK(r)'
    BY <2>1, EndedOK
  <2> QED
    BY <2>2, TokensGrow DEF Grown
<1>5. CASE p.pc = "naming"
  <2>1. r = [p EXCEPT !.pc = "save"]
    BY <1>5 DEF Heard
  <2>2. r \in Commands' /\ r.pc = "save" /\ r.token = p.token /\ r.code = p.code
    BY <1>1, <2>1 DEF Commands
  <2> QED
    BY <1>1, <1>5, <2>2 DEF CommandOK
<1>6. CASE p.pc = "leaving"
  <2>1. r = [p EXCEPT !.pc = "remove"]
    BY <1>6 DEF Heard
  <2>2. r \in Commands' /\ r.pc = "remove" /\ r.token = p.token /\ r.code = p.code
    BY <1>1, <2>1 DEF Commands
  <2>3. q.token = p.token /\ q.kind = "logout"
    BY <1>6 DEF Talks
  <2> QED
    BY <1>1, <1>6, <2>2, <2>3 DEF CommandOK
<1>7. CASE p.pc \in {"asking", "entering"}
  <2>1. r = NoCommand
    BY <1>7 DEF Heard
  <2>2. CommandOK(NoCommand)'
    BY DEF CommandOK, NoCommand
  <2> QED
    BY <2>1, <2>2, NoCommandOK, TokensGrow DEF Grown
<1>8. p.pc \in {"polling", "naming", "leaving", "asking", "entering"}
  BY DEF Talks
<1> QED
  BY <1>2, <1>3, <1>4, <1>5, <1>6, <1>7, <1>8

(* The request is answered.                                                 *)
LEMMA ReplyKeeps ==
  ASSUME SessionInv, Grown, NEW s \in Slots, NEW q, q = srv[s], q.pc # "idle",
         NEW status, NEW token, Reply(s, status, token),
         q.kind = "poll" /\ status = "ok" => Holds(token, q.code)',
         q.kind = "visit" /\ status = "ok" => token \in Tokens',
         q.kind = "logout" => faults' # 0 \/ ~sessions'[q.token].live
  PROVE  /\ Requesting' /\ Commanding' /\ Talking' /\ cookie' \in Tokens' \cup {None}
         /\ \A r \in Slots : Granted(srv'[r]) =>
              r # s /\ Granted(srv[r]) /\ srv'[r].code = srv[r].code
<1>1. /\ srv' = [srv EXCEPT ![s] = NoRequest] /\ srv \in [Slots -> Requests]
      /\ cli' = IF s[2] = "left" THEN cli
                ELSE [cli EXCEPT ![s[1]] = Heard(cli[s[1]], status, token)]
      /\ cookie' = IF s = <<Browser, "now">> THEN Jar(srv[s].kind, status, token) ELSE cookie
      /\ cli \in [Clients -> Commands]
  BY DEF Reply, SessionInv, TypeOK
<1>2. srv'[s] = NoRequest /\ \A r \in Slots \ {s} : srv'[r] = srv[r]
  BY <1>1
<1>3. Requesting'
  <2>1. RequestOK(NoRequest)'
    BY DEF RequestOK, NoRequest
  <2>2. NoRequest \in Requests'
    BY NoRequestOK, TokensGrow DEF Grown
  <2> QED
    BY <1>1, <2>1, <2>2, RequestPut
<1>4. Commanding' /\ Talking'
  <2>1. CASE s[2] = "left"
    <3>1. cli' = cli
      BY <1>1, <2>1
    <3>2. \A b \in Clients : srv'[<<b, "now">>] = srv[<<b, "now">>]
      BY <1>2, <2>1, ClientFacts
    <3> QED
      BY <3>1, <3>2, CommandsKept DEF SessionInv, Talking, Talks
  <2>2. CASE s[2] # "left"
    <3> DEFINE c == s[1]
    <3>1. c \in Clients /\ s = <<c, "now">>
      BY <2>2, ClientFacts
    <3>2. PICK r : r = Heard(cli[c], status, token) /\ cli' = [cli EXCEPT ![c] = r]
      BY <1>1, <2>2
    <3>3. PICK p \in Commands :
            p = cli[c] /\ CommandOK(p) /\ q \in Requests /\ Talks(p, q)
      BY <1>1, <3>1 DEF SessionInv
    <3>4. r = Heard(p, status, token)
      BY <3>2, <3>3
    <3>5. r \in Commands' /\ CommandOK(r)'
      BY <3>3, <3>4, HeardOK
    <3>7. Commanding'
      BY <3>1, <3>2, <3>5, CommandPut
    <3>6. Talking'
      <4> SUFFICES ASSUME NEW b \in Clients PROVE Talks(cli'[b], srv'[<<b, "now">>])
        BY DEF Talking, Talks
      <4>1. CASE b = c
        BY <1>2, <3>1, <4>1, NoRequestOK DEF Talks
      <4>2. CASE b # c
        <5>1. cli'[b] = cli[b] /\ srv'[<<b, "now">>] = srv[<<b, "now">>]
          BY <1>1, <1>2, <3>1, <3>2, <4>2, ClientFacts
        <5> QED
          BY <5>1 DEF SessionInv
      <4> QED
        BY <4>1, <4>2
    <3> QED
      BY <3>6, <3>7
  <2> QED
    BY <2>1, <2>2
<1>5. cookie' \in Tokens' \cup {None}
  <2>1. cookie \in Tokens' \cup {None}
    BY TokensGrow DEF Grown, SessionInv, TypeOK
  <2> QED
    BY <1>1, <2>1 DEF Jar
<1>6. \A r \in Slots : Granted(srv'[r]) =>
        r # s /\ Granted(srv[r]) /\ srv'[r].code = srv[r].code
  BY <1>2, NoRequestOK
<1> QED
  BY <1>3, <1>4, <1>5, <1>6

LEMMA AnsweredKeeps ==
  ASSUME SessionInv, Grown, Tokens' = Tokens, UNCHANGED <<codes, file, signIns>>,
         NEW s \in Slots, NEW q, q = srv[s], q.pc # "idle",
         NEW status, NEW token, Reply(s, status, token),
         q.kind = "poll" /\ status = "ok" => Holds(token, q.code)',
         q.kind = "visit" /\ status = "ok" => token \in Tokens',
         q.kind = "logout" => faults' # 0 \/ ~sessions'[q.token].live
  PROVE  SessionInv'
<1>1. /\ Requesting' /\ Commanding' /\ Talking' /\ cookie' \in Tokens' \cup {None}
      /\ \A r \in Slots : Granted(srv'[r]) => Granted(srv[r]) /\ srv'[r].code = srv[r].code
  BY ReplyKeeps
<1>2. Database'
  BY <1>1, DatabaseKept DEF SessionInv, TypeOK
<1>3. OneGrant'
  BY <1>1, GrantsKept
<1> QED
  BY <1>1, <1>2, <1>3, PartsMakeInv

(* The request goes on, for the same process and code.                      *)
Follows(q, old) ==
  q.kind = old.kind /\ q.code = old.code /\ (q.kind = "logout" => q.token = old.token)

LEMMA ProgressKeeps ==
  ASSUME SessionInv, Grown, NEW s \in Slots, NEW old, old = srv[s], old.pc # "idle",
         NEW q, q \in Requests', RequestOK(q)', srv' = [srv EXCEPT ![s] = q], cli' = cli,
         Follows(q, old)
  PROVE  /\ Requesting' /\ Commanding' /\ Talking'
         /\ srv'[s] = q /\ \A r \in Slots \ {s} : srv'[r] = srv[r]
<1>1. srv'[s] = q /\ \A r \in Slots \ {s} : srv'[r] = srv[r]
  BY DEF SessionInv, TypeOK
<1>2. Requesting' /\ Commanding'
  BY RequestPut, CommandsKept
<1>3. Talking'
  <2> SUFFICES ASSUME NEW b \in Clients PROVE Talks(cli'[b], srv'[<<b, "now">>])
    BY DEF Talking, Talks
  <2>1. CASE s = <<b, "now">>
    <3>1. Talks(cli[b], old)
      BY <2>1 DEF SessionInv
    <3> QED
      BY <1>1, <2>1, <3>1 DEF Talks, Follows
  <2>2. CASE s # <<b, "now">>
    <3>1. srv'[<<b, "now">>] = srv[<<b, "now">>]
      BY <1>1, <2>2, ClientFacts
    <3> QED
      BY <3>1 DEF SessionInv
  <2> QED
    BY <2>1, <2>2
<1> QED
  BY <1>1, <1>2, <1>3

(* ... with no approval redeemed and no session made.                       *)
LEMMA GoesOnKeeps ==
  ASSUME SessionInv, Grown, Tokens' = Tokens, UNCHANGED <<codes, file, cookie, cli, signIns>>,
         NEW s \in Slots, NEW old, old = srv[s], old.pc # "idle",
         NEW q \in Requests, RequestOK(q)', srv' = [srv EXCEPT ![s] = q],
         Follows(q, old),
         Granted(q) => Granted(old)
  PROVE  SessionInv'
<1>1. q \in Requests'
  BY TokensGrow DEF Grown
<1>2. /\ Requesting' /\ Commanding' /\ Talking'
      /\ srv'[s] = q /\ \A r \in Slots \ {s} : srv'[r] = srv[r]
  <2>1. cli' = cli
    OBVIOUS
  <2> QED
    BY <1>1, <2>1, ProgressKeeps
<1>3. Database'
  BY DatabaseKept DEF SessionInv, TypeOK
<1>4. OneGrant'
  <2>1. \A r \in Slots : Granted(srv'[r]) => Granted(srv[r]) /\ srv'[r].code = srv[r].code
    BY <1>2 DEF Follows
  <2> QED
    BY <2>1, GrantsKept
<1> QED
  BY <1>2, <1>3, <1>4, PartsMakeInv

LEMMA SelectCodeKeeps ==
  ASSUME SessionInv, NEW s \in Slots, SelectCode(s)
  PROVE  SessionInv'
<1>1. PICK q : q = srv[s]
  OBVIOUS
<1>2. /\ q.pc = "select" /\ q \in Requests /\ RequestOK(q) /\ q.kind = "poll"
      /\ q.code \in Codes
      /\ UNCHANGED <<github, codes, sessions, file, signIns, faults>>
  BY <1>1 DEF SelectCode, SessionInv, TypeOK, RequestOK
<1>3. Grown /\ Tokens' = Tokens
  BY <1>2, NoFaultRises, QuietGrows
<1>4. PICK row : row = codes[q.code] /\ row.expired \in BOOLEAN
  BY <1>2 DEF SessionInv, TypeOK, DeviceRows
<1>5. CASE row.expired
  <2>1. Reply(s, "expired_token", None)
    BY <1>1, <1>4, <1>5 DEF SelectCode
  <2> QED
    BY <1>1, <1>2, <1>3, <2>1, AnsweredKeeps
<1>6. CASE ~row.expired /\ row.token # None
  <2>1. Reply(s, "ok", row.token)
    BY <1>1, <1>4, <1>6 DEF SelectCode
  <2>2. Holds(row.token, q.code)
    BY <1>2, <1>4, <1>6 DEF SessionInv
  <2>3. Holds(row.token, q.code)'
    BY <1>3, <2>2, HoldsStays DEF Grown
  <2> QED
    BY <1>1, <1>2, <1>3, <2>1, <2>3, AnsweredKeeps
<1>7. CASE ~row.expired /\ row.token = None
  <2>1. PICK n : n = [q EXCEPT !.pc = "github"]
    OBVIOUS
  <2>2. srv' = [srv EXCEPT ![s] = n] /\ cli' = cli /\ cookie' = cookie
    BY <1>1, <1>4, <1>7, <2>1 DEF SelectCode
  <2>3. n \in Requests /\ n.pc = "github" /\ n.kind = q.kind /\ n.code = q.code
    BY <1>2, <2>1 DEF Requests
  <2>4. RequestOK(n)
    BY <1>2, <2>3 DEF RequestOK
  <2>5. RequestOK(n)' /\ ~Granted(n)
    BY <1>3, <2>3, <2>4, RequestStays DEF Granted
  <2>6. Follows(n, q)
    BY <1>2, <2>3 DEF Follows
  <2> QED
    BY <1>1, <1>2, <1>3, <2>2, <2>3, <2>5, <2>6, GoesOnKeeps
<1> QED
  BY <1>4, <1>5, <1>6, <1>7

(* GitHub redeems an approved code.                                         *)
LEMMA Redeems ==
  ASSUME SessionInv, NEW d \in Codes, github[d].state = "approved",
         github' = Redeemed(d), sessions' = sessions, FaultsRise
  PROVE  /\ Grown /\ Tokens' = Tokens
         /\ github'[d].state = "used" /\ github'[d].by = github[d].by
<1>1. /\ github' = [github EXCEPT ![d] = [github[d] EXCEPT !.state = "used"]]
      /\ github \in [Codes -> Grants]
  BY DEF Redeemed, SessionInv, TypeOK
<1>2. PICK g : g = [github[d] EXCEPT !.state = "used"]
  OBVIOUS
<1>3. github[d] \in Grants
  BY <1>1
<1>4. g \in Grants /\ g.state = "used" /\ g.by = github[d].by
  BY <1>2, <1>3 DEF Grants
<1>5. GitHubMoves /\ github'[d] = g
  BY <1>1, <1>2, <1>4 DEF GitHubMoves, SessionInv
<1> QED
  BY <1>4, <1>5 DEF SessionInv, TypeOK, Grown, SessionsGrow, Tokens

LEMMA NewGrant ==
  ASSUME SessionInv, Grown, Tokens' = Tokens, NEW s \in Slots, NEW d \in Codes,
         github[d].state # "used", srv'[s].code = d,
         \A r \in Slots \ {s} : srv'[r] = srv[r]
  PROVE  OneGrant'
<1>1. \A t \in Tokens : sessions'[t].code = sessions[t].code
  BY DEF Grown, SessionsGrow
<1>2. \A r \in Slots : Granted(srv[r])' <=> Granted(srv'[r])
  BY DEF Granted
<1>3. \A t \in Tokens : sessions[t].code # d
  BY NoneFacts DEF SessionInv, SessionOK
<1>4. \A r \in Slots : Granted(srv[r]) => srv[r].code # d
  BY DEF SessionInv, RequestOK, Granted
<1>5. \A t, u \in Tokens' :
        sessions'[t].code # None /\ sessions'[t].code = sessions'[u].code => t = u
  BY <1>1 DEF SessionInv, OneGrant
<1>6. \A a, r \in Slots :
        a # r /\ Granted(srv'[a]) /\ Granted(srv'[r]) => srv'[a].code # srv'[r].code
  BY <1>4 DEF SessionInv, OneGrant
<1>7. \A r \in Slots : Granted(srv'[r]) =>
        \A t \in Tokens' : sessions'[t].code # srv'[r].code
  BY <1>1, <1>3 DEF SessionInv, OneGrant
<1> QED
  BY <1>2, <1>5, <1>6, <1>7 DEF OneGrant

LEMMA AskGitHubKeeps ==
  ASSUME SessionInv, NEW s \in Slots, AskGitHub(s)
  PROVE  SessionInv'
<1>1. PICK q : q = srv[s]
  OBVIOUS
<1>2. /\ q.pc = "github" /\ q \in Requests /\ RequestOK(q) /\ q.kind = "poll"
      /\ q.code \in Codes
      /\ UNCHANGED <<codes, sessions, file, signIns, faults>>
  BY <1>1 DEF AskGitHub, SessionInv, TypeOK, RequestOK
<1>3. FaultsRise
  BY <1>2, NoFaultRises
<1>4. github[q.code].state \in {"approved", "pending", "denied", "used"}
  <2>1. github[q.code] \in Grants /\ github[q.code].state # "new"
    BY <1>2, NoneFacts DEF RequestOK, SessionInv, TypeOK
  <2> QED
    BY <2>1 DEF Grants
<1>5. CASE github[q.code].state = "approved"
  <2>1. PICK n : n = [q EXCEPT !.pc = "identify", !.user = github[q.code].by]
    OBVIOUS
  <2>2. /\ srv' = [srv EXCEPT ![s] = n] /\ cli' = cli /\ cookie' = cookie
        /\ github' = Redeemed(q.code)
    BY <1>1, <1>5, <2>1 DEF AskGitHub
  <2>3. github[q.code].by \in Users
    BY <1>2, <1>5 DEF SessionInv
  <2>4. /\ n \in Requests /\ n.pc = "identify" /\ n.kind = q.kind /\ n.code = q.code
        /\ n.user = github[q.code].by
    BY <1>2, <2>1, <2>3 DEF Requests
  <2>5. /\ Grown /\ Tokens' = Tokens
        /\ github'[q.code].state = "used" /\ github'[q.code].by = github[q.code].by
    BY <1>2, <1>3, <1>5, <2>2, Redeems
  <2>6. RequestOK(n)' /\ Follows(n, q)
    BY <1>2, <2>3, <2>4, <2>5 DEF RequestOK, Follows
  <2>7. n \in Requests'
    BY <2>4, <2>5, TokensGrow DEF Grown
  <2>8. /\ Requesting' /\ Commanding' /\ Talking'
        /\ srv'[s] = n /\ \A r \in Slots \ {s} : srv'[r] = srv[r]
    BY <1>1, <1>2, <2>2, <2>5, <2>6, <2>7, ProgressKeeps
  <2>9. Database'
    BY <1>2, <2>2, <2>5, DatabaseKept DEF SessionInv, TypeOK
  <2>10. OneGrant'
    BY <1>2, <1>5, <2>4, <2>5, <2>8, NewGrant
  <2> QED
    BY <2>5, <2>8, <2>9, <2>10, PartsMakeInv
<1>6. CASE github[q.code].state = "pending"
  <2>1. Reply(s, "pending", None) /\ github' = github
    BY <1>1, <1>6 DEF AskGitHub
  <2>2. Grown /\ Tokens' = Tokens
    BY <1>2, <1>3, <2>1, QuietGrows
  <2> QED
    BY <1>1, <1>2, <2>1, <2>2, AnsweredKeeps
<1>7. CASE github[q.code].state \in {"denied", "used"}
  <2>1. Reply(s, "error", None) /\ github' = github
    BY <1>1, <1>7 DEF AskGitHub
  <2>2. Grown /\ Tokens' = Tokens
    BY <1>2, <1>3, <2>1, QuietGrows
  <2> QED
    BY <1>1, <1>2, <2>1, <2>2, AnsweredKeeps
<1> QED
  BY <1>4, <1>5, <1>6, <1>7

LEMMA EntitledType ==
  ASSUME NEW u \in Users, NEW orgs \in SUBSET Orgs
  PROVE  /\ Entitled(u, orgs) \in SUBSET Scopes
         /\ \A need : May(Entitled(u, orgs), need) =>
              need \in {u} \cup orgs \/ u \in Admins
BY UsersAssumption DEF Entitled, Scopes, May

LEMMA IdentifyKeeps ==
  ASSUME SessionInv, NEW s \in Slots, Identify(s)
  PROVE  SessionInv'
<1>1. PICK q : q = srv[s]
  OBVIOUS
<1>2. /\ q.pc = "identify" /\ q \in Requests /\ RequestOK(q) /\ q.user \in Users
      /\ q.kind \in {"poll", "visit"}
      /\ UNCHANGED <<github, codes, sessions, file, cookie, cli, signIns>>
  BY <1>1 DEF Identify, SessionInv, TypeOK, RequestOK
<1>3. PICK orgs \in {OrgsOf[q.user], {}} :
        /\ srv' = [srv EXCEPT ![s] = [q EXCEPT !.pc = "mint", !.orgs = orgs]]
        /\ faults' = IF orgs = OrgsOf[q.user] THEN faults ELSE faults + 1
        /\ faults' <= MaxFaults
  BY <1>1 DEF Identify
<1>5. orgs \in SUBSET Orgs
  BY <1>2, <1>3, NoneFacts
<1>6. PICK n : n = [q EXCEPT !.pc = "mint", !.orgs = orgs]
  OBVIOUS
<1>7. /\ n \in Requests /\ n.pc = "mint" /\ n.kind = q.kind /\ n.code = q.code
      /\ n.user = q.user
  BY <1>2, <1>5, <1>6 DEF Requests
<1>8. FaultsRise
  BY <1>3, BoundsAssumption DEF SessionInv, TypeOK, FaultsRise
<1>9. Grown /\ Tokens' = Tokens
  BY <1>2, <1>8, QuietGrows
<1>10. RequestOK(n)
  BY <1>2, <1>7 DEF RequestOK
<1>11. RequestOK(n)' /\ Follows(n, q) /\ (Granted(n) => Granted(q))
  BY <1>2, <1>7, <1>9, <1>10, RequestStays DEF Follows, Granted
<1>12. srv' = [srv EXCEPT ![s] = n]
  BY <1>3, <1>6
<1> QED
  BY <1>1, <1>2, <1>7, <1>9, <1>11, <1>12, GoesOnKeeps

(* Sessions are made, and kept with codes.                                  *)
LEMMA DatabaseMoves ==
  ASSUME SessionInv, Grown, codes' \in [Codes -> DeviceRows'],
         \A d \in Codes : codes'[d].token # codes[d].token => Holds(codes[d].token, d)',
         \A t \in Tokens' \ Tokens : SessionOK(sessions[t])',
         file' \in Tokens' \cup {None, Torn}, cookie' \in Tokens' \cup {None},
         signIns' \in 0 .. MaxSignIns
  PROVE  Database'
<1>1. ASSUME NEW t \in Tokens' PROVE SessionOK(sessions[t])'
  BY SessionStays DEF SessionInv
<1>2. ASSUME NEW d \in Codes, codes'[d].token # None PROVE Holds(codes[d].token, d)'
  <2>1. CASE codes'[d].token = codes[d].token
    <3>1. PICK x : x = codes[d].token
      OBVIOUS
    <3>2. Holds(x, d)
      BY <1>2, <2>1, <3>1 DEF SessionInv
    <3>3. Holds(x, d)'
      BY <3>2, HoldsStays DEF Grown
    <3>4. x = codes'[d].token
      BY <2>1, <3>1
    <3> QED
      BY <3>3, <3>4
  <2> QED
    BY <1>2, <2>1
<1> QED
  BY <1>1, <1>2 DEF Database

LEMMA SessionMade ==
  ASSUME SessionInv, NEW q \in Requests, RequestOK(q), q.pc = "mint",
         sessions' = Append(sessions, Minted(q)), UNCHANGED <<github, faults>>,
         NEW t, t = Len(sessions) + 1
  PROVE  /\ Grown /\ t \notin Tokens /\ Tokens' = Tokens \cup {t} /\ t \in Tokens'
         /\ sessions'[t].code = q.code /\ SessionOK(sessions[t])'
<1>1. PICK row : row = Minted(q)
  OBVIOUS
<1>2. /\ row \in Rows /\ row.user = q.user /\ row.code = q.code /\ q.user \in Users
      /\ row.scopes = Entitled(row.user, row.orgs)
  <2>1. /\ q.user \in Users /\ q.orgs \in SUBSET Orgs /\ q.code \in Codes \cup {None}
    BY DEF Requests, RequestOK
  <2>2. Entitled(q.user, q.orgs) \in SUBSET Scopes
    BY <2>1, EntitledType
  <2> QED
    BY <1>1, <2>1, <2>2 DEF Minted, Rows
<1>3. /\ sessions' \in Seq(Rows) /\ Len(sessions') = Len(sessions) + 1
      /\ \A u \in 1 .. Len(sessions) : sessions'[u] = sessions[u]
      /\ sessions'[t] = row /\ Len(sessions) \in Nat
  BY <1>1, <1>2 DEF SessionInv, TypeOK
<1>4. t \notin Tokens /\ Tokens' = Tokens \cup {t}
  BY <1>3 DEF Tokens
<1>5. SessionsGrow
  BY <1>3, <1>4 DEF SessionsGrow, Tokens
<1>6. GitHubMoves /\ FaultsRise
  BY NoFaultRises DEF GitHubMoves, SessionInv, TypeOK
<1>7. q.code # None =>
        github'[q.code].state = "used" /\ q.user = github'[q.code].by
  BY DEF RequestOK
<1>8. SessionOK(row)'
  BY <1>2, <1>7 DEF SessionOK, RequestOK
<1>9. SessionOK(sessions[t])'
  BY <1>3, <1>8
<1> QED
  BY <1>2, <1>3, <1>4, <1>5, <1>6, <1>9 DEF Grown

(* The one session of an approval.                                          *)
LEMMA GrantSpent ==
  ASSUME SessionInv, Grown, NEW s \in Slots, NEW q, q = srv[s], q.pc = "mint",
         NEW t, t \notin Tokens, Tokens' = Tokens \cup {t}, sessions'[t].code = q.code,
         \A r \in Slots : Granted(srv'[r]) =>
           r # s /\ Granted(srv[r]) /\ srv'[r].code = srv[r].code
  PROVE  OneGrant'
<1>1. \A u \in Tokens : sessions'[u].code = sessions[u].code
  BY DEF Grown, SessionsGrow
<1>2. \A r \in Slots : Granted(srv[r])' <=> Granted(srv'[r])
  BY DEF Granted
<1>3. q.code # None => Granted(srv[s])
  BY DEF SessionInv, RequestOK, Granted
<1>4. q.code # None => \A u \in Tokens : sessions[u].code # q.code
  BY <1>3 DEF SessionInv, OneGrant
<1>5. ASSUME NEW r \in Slots, Granted(srv'[r]) PROVE srv'[r].code # q.code
  <2>1. srv'[r].code = srv[r].code /\ r # s /\ Granted(srv[r])
    BY <1>5
  <2>2. srv[r].code \in Codes
    BY <2>1 DEF SessionInv, RequestOK, Granted
  <2>3. q.code # None => srv[r].code # srv[s].code
    BY <1>3, <2>1 DEF SessionInv, OneGrant
  <2> QED
    BY <2>1, <2>2, <2>3, NoneFacts
<1>6. \A a, u \in Tokens' :
        sessions'[a].code # None /\ sessions'[a].code = sessions'[u].code => a = u
  BY <1>1, <1>4 DEF SessionInv, OneGrant
<1>7. \A a, r \in Slots :
        a # r /\ Granted(srv'[a]) /\ Granted(srv'[r]) => srv'[a].code # srv'[r].code
  BY DEF SessionInv, OneGrant
<1>8. \A r \in Slots : Granted(srv'[r]) =>
        \A u \in Tokens' : sessions'[u].code # srv'[r].code
  BY <1>1, <1>5 DEF SessionInv, OneGrant
<1> QED
  BY <1>2, <1>6, <1>7, <1>8 DEF OneGrant

LEMMA CreateSessionKeeps ==
  ASSUME SessionInv, NEW s \in Slots, CreateSession(s)
  PROVE  SessionInv'
<1>1. PICK q, t : q = srv[s] /\ t = Len(sessions) + 1
  OBVIOUS
<1>2. /\ q.pc = "mint" /\ q \in Requests /\ RequestOK(q) /\ q.kind \in {"poll", "visit"}
      /\ sessions' = Append(sessions, Minted(q))
      /\ UNCHANGED <<github, codes, file, signIns, faults>>
  BY <1>1 DEF CreateSession, SessionInv, TypeOK, RequestOK
<1>3. /\ Grown /\ t \notin Tokens /\ Tokens' = Tokens \cup {t} /\ t \in Tokens'
      /\ sessions'[t].code = q.code /\ SessionOK(sessions[t])'
  BY <1>1, <1>2, SessionMade
<1>4. ASSUME cookie' \in Tokens' \cup {None} PROVE Database'
  <2>1. codes' \in [Codes -> DeviceRows'] /\ file' \in Tokens' \cup {None, Torn}
    BY <1>2, <1>3, TokensGrow DEF SessionInv, TypeOK, Grown
  <2>2. \A u \in Tokens' \ Tokens : SessionOK(sessions[u])'
    BY <1>3
  <2>3. signIns' \in 0 .. MaxSignIns /\ codes' = codes
    BY <1>2 DEF SessionInv, TypeOK
  <2> QED
    BY <1>3, <1>4, <2>1, <2>2, <2>3, DatabaseMoves
<1>5. CASE q.kind = "poll"
  <2>1. PICK n : n = [q EXCEPT !.pc = "store", !.token = t]
    OBVIOUS
  <2>2. srv' = [srv EXCEPT ![s] = n] /\ cli' = cli /\ cookie' = cookie
    BY <1>1, <1>5, <2>1 DEF CreateSession
  <2>3. q \in Requests'
    BY <1>2, <1>3, TokensGrow DEF Grown
  <2>4. /\ n \in Requests' /\ n.pc = "store" /\ n.kind = q.kind /\ n.code = q.code
        /\ n.token = t
    BY <1>3, <2>1, <2>3 DEF Requests
  <2>5. RequestOK(q)' /\ q.code \in Codes
    BY <1>2, <1>3, <1>5, RequestStays DEF RequestOK
  <2>6. Holds(t, q.code)'
    BY <1>3, <2>5 DEF Holds
  <2>7. RequestOK(n)' /\ Follows(n, q) /\ ~Granted(n)
    BY <1>5, <2>4, <2>5, <2>6 DEF RequestOK, Follows, Granted
  <2>8. /\ Requesting' /\ Commanding' /\ Talking'
        /\ srv'[s] = n /\ \A r \in Slots \ {s} : srv'[r] = srv[r]
    BY <1>1, <1>2, <1>3, <2>2, <2>4, <2>7, ProgressKeeps
  <2>9. cookie' \in Tokens' \cup {None}
    BY <1>3, <2>2 DEF SessionInv, TypeOK
  <2>10. \A r \in Slots : Granted(srv'[r]) =>
           r # s /\ Granted(srv[r]) /\ srv'[r].code = srv[r].code
    BY <2>7, <2>8
  <2>11. OneGrant'
    BY <1>1, <1>2, <1>3, <2>10, GrantSpent
  <2> QED
    BY <1>3, <1>4, <2>8, <2>9, <2>11, PartsMakeInv
<1>6. CASE q.kind = "visit"
  <2>1. Reply(s, "ok", t)
    BY <1>1, <1>6 DEF CreateSession
  <2>2. /\ Requesting' /\ Commanding' /\ Talking' /\ cookie' \in Tokens' \cup {None}
        /\ \A r \in Slots : Granted(srv'[r]) =>
             r # s /\ Granted(srv[r]) /\ srv'[r].code = srv[r].code
    BY <1>1, <1>2, <1>3, <1>6, <2>1, ReplyKeeps
  <2>3. OneGrant'
    BY <1>1, <1>2, <1>3, <2>2, GrantSpent
  <2> QED
    BY <1>3, <1>4, <2>2, <2>3, PartsMakeInv
<1> QED
  BY <1>2, <1>5, <1>6

LEMMA StoreTokenKeeps ==
  ASSUME SessionInv, NEW s \in Slots, StoreToken(s)
  PROVE  SessionInv'
<1>1. PICK q : q = srv[s]
  OBVIOUS
<1>2. /\ q.pc = "store" /\ q \in Requests /\ RequestOK(q) /\ q.kind = "poll"
      /\ q.code \in Codes /\ Holds(q.token, q.code) /\ q.token \in Tokens
      /\ codes' = Stored(q.code, q.token) /\ Reply(s, "ok", q.token)
      /\ UNCHANGED <<github, sessions, file, signIns, faults>>
  BY <1>1 DEF StoreToken, SessionInv, TypeOK, RequestOK, Holds
<1>3. Grown /\ Tokens' = Tokens
  BY <1>2, NoFaultRises, QuietGrows
<1>4. Holds(q.token, q.code)'
  BY <1>2, <1>3, HoldsStays DEF Grown
<1>5. /\ Requesting' /\ Commanding' /\ Talking' /\ cookie' \in Tokens' \cup {None}
      /\ \A r \in Slots : Granted(srv'[r]) => Granted(srv[r]) /\ srv'[r].code = srv[r].code
  BY <1>1, <1>2, <1>3, <1>4, ReplyKeeps
<1>6. PICK row : row = [codes[q.code] EXCEPT !.token = q.token]
  OBVIOUS
<1>7. codes' = [codes EXCEPT ![q.code] = row] /\ codes \in [Codes -> DeviceRows]
  BY <1>2, <1>6 DEF Stored, SessionInv, TypeOK
<1>8. codes[q.code] \in DeviceRows
  BY <1>2, <1>7
<1>9. row \in DeviceRows /\ row.token = q.token
  BY <1>2, <1>6, <1>8 DEF DeviceRows
<1>10. DeviceRows' = DeviceRows
  BY <1>3 DEF DeviceRows
<1>11. codes' \in [Codes -> DeviceRows']
  BY <1>7, <1>9, <1>10
<1>12. ASSUME NEW d \in Codes, codes'[d].token # codes[d].token
       PROVE  Holds(codes[d].token, d)'
  <2>1. d = q.code /\ codes'[d].token = q.token
    BY <1>7, <1>9, <1>12
  <2>2. PICK x : x = q.token
    OBVIOUS
  <2>3. Holds(x, d)' /\ x = codes'[d].token
    BY <1>4, <2>1, <2>2
  <2> QED
    BY <2>3
<1>13. file' \in Tokens' \cup {None, Torn} /\ signIns' \in 0 .. MaxSignIns
  BY <1>2, <1>3 DEF SessionInv, TypeOK
<1>14. \A u \in Tokens' \ Tokens : SessionOK(sessions[u])'
  BY <1>3
<1>15. Database'
  BY <1>3, <1>5, <1>11, <1>12, <1>13, <1>14, DatabaseMoves
<1>16. OneGrant'
  BY <1>3, <1>5, GrantsKept
<1> QED
  BY <1>3, <1>5, <1>15, <1>16, PartsMakeInv

LEMMA LookupKeeps ==
  ASSUME SessionInv, NEW s \in Slots, Lookup(s)
  PROVE  SessionInv'
<1>1. PICK q : q = srv[s]
  OBVIOUS
<1>2. /\ q.pc = "lookup" /\ q \in Requests /\ RequestOK(q) /\ q.token \in Tokens
      /\ q.kind \in {"me", "act", "logout"}
      /\ UNCHANGED <<github, codes, file, signIns, faults>>
  BY <1>1 DEF Lookup, SessionInv, TypeOK, RequestOK
<1>3. FaultsRise
  BY <1>2, NoFaultRises
<1>4. CASE ~Found(q.token)
  <2>1. PICK row : row = [sessions[q.token] EXCEPT !.live = FALSE]
    OBVIOUS
  <2>2. sessions' = [sessions EXCEPT ![q.token] = row] /\ Reply(s, "done", None)
    BY <1>1, <1>4, <2>1 DEF Lookup
  <2>3. Grown /\ Tokens' = Tokens /\ sessions'[q.token] = row
    BY <1>2, <1>3, <2>1, <2>2, RowEnds
  <2>4. sessions[q.token] \in Rows
    BY <1>2 DEF SessionInv, TypeOK, Tokens
  <2>5. ~row.live
    BY <2>1, <2>4 DEF Rows
  <2> QED
    BY <1>1, <1>2, <2>2, <2>3, <2>5, AnsweredKeeps
<1>5. CASE Found(q.token) /\ (q.kind = "logout" \/
             (q.kind = "act" /\ May(sessions[q.token].scopes, q.need)))
  <2>1. PICK n : n = [q EXCEPT !.pc = q.kind]
    OBVIOUS
  <2>2. /\ srv' = [srv EXCEPT ![s] = n] /\ sessions' = sessions
        /\ cli' = cli /\ cookie' = cookie
    BY <1>1, <1>5, <2>1 DEF Lookup
  <2>3. Grown /\ Tokens' = Tokens
    BY <1>2, <1>3, <2>2, QuietGrows
  <2>4. /\ n \in Requests /\ n.pc = q.kind /\ n.kind = q.kind /\ n.code = q.code
        /\ n.token = q.token /\ n.need = q.need /\ n.gone = q.gone
    BY <1>2, <1>5, <2>1 DEF Requests
  <2>5. PICK row : row = sessions[q.token]
    OBVIOUS
  <2>6. /\ row.user \in Users /\ row.orgs \in SUBSET Orgs
        /\ row.scopes = Entitled(row.user, row.orgs)
    <3>1. row \in Rows /\ SessionOK(row)
      BY <1>2, <2>5 DEF SessionInv, TypeOK, Tokens
    <3> QED
      BY <3>1 DEF SessionOK, Rows
  <2>7. q.kind = "act" => ~q.gone /\ Manages(row, q.need)
    BY <1>2, <1>5, <2>5, <2>6, EntitledType DEF Found, RequestOK, Manages
  <2>8. RequestOK(n)
    BY <1>2, <1>5, <2>4, <2>5, <2>7 DEF RequestOK
  <2>9. RequestOK(n)' /\ Follows(n, q) /\ ~Granted(n)
    BY <1>2, <2>3, <2>4, <2>8, RequestStays DEF Follows, Granted
  <2> QED
    BY <1>1, <1>2, <2>2, <2>3, <2>4, <2>9, GoesOnKeeps
<1>6. CASE Found(q.token) /\ (q.kind = "me" \/
             (q.kind = "act" /\ ~May(sessions[q.token].scopes, q.need)))
  <2>1. Reply(s, "done", None) /\ sessions' = sessions
    BY <1>1, <1>6 DEF Lookup
  <2>2. Grown /\ Tokens' = Tokens
    BY <1>2, <1>3, <2>1, QuietGrows
  <2> QED
    BY <1>1, <1>2, <1>6, <2>1, <2>2, AnsweredKeeps
<1> QED
  BY <1>2, <1>4, <1>5, <1>6

LEMMA DeleteKeeps ==
  ASSUME SessionInv, NEW s \in Slots, Delete(s)
  PROVE  SessionInv'
<1>1. PICK q : q = srv[s]
  OBVIOUS
<1>2. PICK row : row = [sessions[q.token] EXCEPT !.live = FALSE]
  OBVIOUS
<1>3. /\ q.pc = "logout" /\ q \in Requests /\ RequestOK(q) /\ q.token \in Tokens
      /\ q.kind = "logout" /\ Reply(s, "done", None)
      /\ sessions' = [sessions EXCEPT ![q.token] = row]
      /\ UNCHANGED <<github, codes, file, signIns, faults>>
  BY <1>1, <1>2 DEF Delete, SessionInv, TypeOK, RequestOK
<1>4. Grown /\ Tokens' = Tokens /\ sessions'[q.token] = row
  BY <1>2, <1>3, NoFaultRises, RowEnds
<1>5. sessions[q.token] \in Rows
  BY <1>3 DEF SessionInv, TypeOK, Tokens
<1>6. ~row.live
  BY <1>2, <1>5 DEF Rows
<1> QED
  BY <1>1, <1>3, <1>4, <1>6, AnsweredKeeps

LEMMA ActKeeps ==
  ASSUME SessionInv, NEW s \in Slots, Act(s)
  PROVE  SessionInv'
<1>1. PICK q : q = srv[s]
  OBVIOUS
<1>2. /\ q.pc = "act" /\ q.kind = "act" /\ Reply(s, "done", None)
      /\ UNCHANGED <<github, codes, sessions, file, signIns, faults>>
  BY <1>1 DEF Act, SessionInv, RequestOK
<1>3. Grown /\ Tokens' = Tokens
  BY <1>2, NoFaultRises, QuietGrows
<1> QED
  BY <1>1, <1>2, <1>3, AnsweredKeeps

-----------------------------------------------------------------------------
(* What goes wrong.                                                         *)
LEMMA StepFailsKeeps ==
  ASSUME SessionInv, NEW s \in Slots, StepFails(s)
  PROVE  SessionInv'
<1>1. PICK q, status :
        q = srv[s] /\ status = IF q.kind = "logout" THEN "done" ELSE "error"
  OBVIOUS
<1>2. /\ q.pc # "idle" /\ q \in Requests /\ RequestOK(q) /\ Reply(s, status, None)
      /\ Fault /\ status # "ok"
      /\ github' \in IF q.pc = "github" /\ github[q.code].state = "approved"
                     THEN {github, Redeemed(q.code)} ELSE {github}
      /\ UNCHANGED <<codes, sessions, file, signIns>>
  BY <1>1 DEF StepFails, SessionInv, TypeOK
<1>3. FaultsRise /\ faults' # 0
  BY <1>2, FaultRises DEF Fault, SessionInv, TypeOK
<1>4. Grown /\ Tokens' = Tokens
  <2>1. CASE github' = github
    BY <1>2, <1>3, <2>1, QuietGrows
  <2>2. CASE /\ q.pc = "github" /\ github[q.code].state = "approved"
             /\ github' = Redeemed(q.code)
    <3>1. q.code \in Codes
      BY <1>2, <2>2 DEF RequestOK
    <3> QED
      BY <1>2, <1>3, <2>2, <3>1, Redeems
  <2> QED
    BY <1>2, <2>1, <2>2
<1> QED
  BY <1>1, <1>2, <1>3, <1>4, AnsweredKeeps

(* A process goes on while the server works on the request it left behind.  *)
LEMMA LeavingKeeps ==
  ASSUME SessionInv, UNCHANGED <<github, codes, sessions, file, cookie, signIns>>, Fault,
         NEW c \in Clients, srv[<<c, "left">>].pc = "idle",
         NEW old, old = srv[<<c, "now">>],
         NEW q \in Requests, RequestOK(q), ~Granted(q),
         srv' = [srv EXCEPT ![<<c, "left">>] = old, ![<<c, "now">>] = q],
         NEW p \in Commands, CommandOK(p)', Talks(p, q), cli' = [cli EXCEPT ![c] = p]
  PROVE  SessionInv'
<1>1. Grown /\ Tokens' = Tokens
  BY FaultRises, QuietGrows
<1>2. /\ cli \in [Clients -> Commands] /\ srv \in [Slots -> Requests]
      /\ <<c, "now">> \in Slots /\ <<c, "left">> \in Slots /\ <<c, "now">> # <<c, "left">>
      /\ old \in Requests /\ RequestOK(old)
  BY ClientFacts DEF SessionInv, TypeOK
<1>3. /\ srv'[<<c, "now">>] = q /\ srv'[<<c, "left">>] = old
      /\ \A r \in Slots \ {<<c, "now">>, <<c, "left">>} : srv'[r] = srv[r]
  BY <1>2
<1>4. Database'
  BY <1>1, DatabaseKept DEF SessionInv, TypeOK
<1>5. Requesting'
  <2>1. q \in Requests' /\ RequestOK(q)' /\ old \in Requests' /\ RequestOK(old)'
    BY <1>1, <1>2, TokensGrow, RequestStays DEF Grown
  <2>2. Requests \subseteq Requests'
    BY <1>1, TokensGrow DEF Grown
  <2>3. srv' \in [Slots -> Requests']
    BY <1>2, <2>1, <2>2
  <2>4. ASSUME NEW r \in Slots PROVE RequestOK(srv[r])'
    <3>1. PICK x \in Requests : x = srv'[r] /\ RequestOK(x)
      BY <1>2, <1>3 DEF SessionInv
    <3>2. RequestOK(x)' /\ x = srv'[r]
      BY <1>1, <3>1, RequestStays
    <3> QED
      BY <3>2
  <2> QED
    BY <2>3, <2>4 DEF Requesting
<1>6. Commanding'
  <2>1. p \in Commands'
    BY <1>1, TokensGrow DEF Grown
  <2> QED
    BY <1>1, <2>1, CommandPut
<1>7. Talking'
  <2> SUFFICES ASSUME NEW b \in Clients PROVE Talks(cli'[b], srv'[<<b, "now">>])
    BY DEF Talking, Talks
  <2>1. CASE b = c
    BY <1>2, <1>3, <2>1
  <2>2. CASE b # c
    <3>1. cli'[b] = cli[b] /\ srv'[<<b, "now">>] = srv[<<b, "now">>]
      BY <1>2, <1>3, <2>2, ClientFacts
    <3> QED
      BY <3>1 DEF SessionInv
  <2> QED
    BY <2>1, <2>2
<1>8. OneGrant'
  <2> DEFINE Was(r) == IF r = <<c, "left">> THEN <<c, "now">> ELSE r
  <2>1. \A r \in Slots : Granted(srv'[r]) =>
          /\ r # <<c, "now">> /\ Was(r) \in Slots
          /\ Granted(srv[Was(r)]) /\ srv'[r].code = srv[Was(r)].code
    BY <1>2, <1>3
  <2>2. \A a, r \in Slots : a # r /\ Granted(srv'[a]) /\ Granted(srv'[r]) => Was(a) # Was(r)
    BY <2>1
  <2> HIDE DEF Was
  <2>3. \A t \in Tokens : sessions'[t].code = sessions[t].code
    OBVIOUS
  <2>4. \A r \in Slots : Granted(srv[r])' <=> Granted(srv'[r])
    BY DEF Granted
  <2>5. \A t, u \in Tokens' :
          sessions'[t].code # None /\ sessions'[t].code = sessions'[u].code => t = u
    BY <1>1 DEF SessionInv, OneGrant
  <2>6. /\ \A a, r \in Slots :
             a # r /\ Granted(srv[a]) /\ Granted(srv[r]) => srv[a].code # srv[r].code
        /\ \A r \in Slots : Granted(srv[r]) =>
             \A t \in Tokens : sessions[t].code # srv[r].code
    BY DEF SessionInv, OneGrant
  <2>7. ASSUME NEW a \in Slots, NEW r \in Slots,
               a # r, Granted(srv'[a]), Granted(srv'[r])
        PROVE  srv'[a].code # srv'[r].code
    <3>1. Was(a) \in Slots /\ Was(r) \in Slots /\ Was(a) # Was(r)
      BY <2>1, <2>2, <2>7
    <3>2. Granted(srv[Was(a)]) /\ Granted(srv[Was(r)])
      BY <2>1, <2>7
    <3>3. srv[Was(a)].code # srv[Was(r)].code
      BY <2>6, <3>1, <3>2
    <3> QED
      BY <2>1, <2>7, <3>3
  <2>8. ASSUME NEW r \in Slots, Granted(srv'[r]), NEW t \in Tokens'
        PROVE  sessions'[t].code # srv'[r].code
    <3>1. Was(r) \in Slots /\ Granted(srv[Was(r)]) /\ srv'[r].code = srv[Was(r)].code
      BY <2>1, <2>8
    <3>2. t \in Tokens /\ sessions'[t].code = sessions[t].code
      BY <1>1, <2>3
    <3> QED
      BY <2>6, <3>1, <3>2
  <2> QED
    BY <2>4, <2>5, <2>7, <2>8 DEF OneGrant
<1> QED
  BY <1>1, <1>4, <1>5, <1>6, <1>7, <1>8, PartsMakeInv

(* A process hears of an error.                                             *)
LEMMA ErrorHeard ==
  ASSUME SessionInv, Grown, faults' # 0, NEW c \in Clients,
         srv[<<c, "now">>].pc # "idle", NEW r, r = Heard(cli[c], "error", None)
  PROVE  r \in Commands' /\ CommandOK(r)'
<1>1. PICK p \in Commands, q \in Requests :
        p = cli[c] /\ q = srv[<<c, "now">>] /\ CommandOK(p) /\ Talks(p, q)
  BY ClientFacts DEF SessionInv, TypeOK
<1>2. q.pc # "idle" /\ r = Heard(p, "error", None)
  BY <1>1
<1> QED
  BY <1>1, <1>2, HeardOK

LEMMA AnswerLostKeeps ==
  ASSUME SessionInv, NEW c \in Clients, AnswerLost(c)
  PROVE  SessionInv'
<1>1. PICK p, old : p = Heard(cli[c], "error", None) /\ old = srv[<<c, "now">>]
  OBVIOUS
<1>2. /\ cli' = [cli EXCEPT ![c] = p]
      /\ srv' = [srv EXCEPT ![<<c, "left">>] = old, ![<<c, "now">>] = NoRequest]
      /\ old.pc # "idle" /\ srv[<<c, "left">>].pc = "idle" /\ Fault
      /\ UNCHANGED <<github, codes, sessions, file, cookie, signIns>>
  BY <1>1 DEF AnswerLost, Leaves, SessionInv, TypeOK
<1>3. Grown /\ faults' # 0 /\ Tokens' = Tokens
  BY <1>2, FaultRises, QuietGrows DEF Fault, SessionInv, TypeOK
<1>4. p \in Commands' /\ CommandOK(p)'
  BY <1>1, <1>2, <1>3, ErrorHeard
<1>5. Commands' = Commands
  BY <1>3 DEF Commands
<1>6. Talks(p, NoRequest)
  BY NoRequestOK DEF Talks
<1> QED
  BY <1>1, <1>2, <1>4, <1>5, <1>6, NoRequestOK, LeavingKeeps

LEMMA ResentKeeps ==
  ASSUME SessionInv, NEW c \in Clients, Resent(c)
  PROVE  SessionInv'
<1>1. PICK old : old = srv[<<c, "now">>]
  OBVIOUS
<1>2. PICK q : q = [NoRequest EXCEPT !.pc = "select", !.kind = "poll", !.code = old.code]
  OBVIOUS
<1>3. /\ srv' = [srv EXCEPT ![<<c, "left">>] = old, ![<<c, "now">>] = q]
      /\ old.pc # "idle" /\ old.kind = "poll" /\ srv[<<c, "left">>].pc = "idle" /\ Fault
      /\ cli' = cli /\ UNCHANGED <<github, codes, sessions, file, cookie, signIns>>
  BY <1>1, <1>2 DEF Resent, Leaves
<1>4. PICK p \in Commands : p = cli[c] /\ CommandOK(p) /\ Talks(p, old)
  BY <1>1 DEF SessionInv, TypeOK
<1>5. /\ p.pc = "polling" /\ old.code = p.code /\ p.code \in Codes
      /\ github[p.code].state # "new"
  BY <1>3, <1>4, NoneFacts DEF Talks, CommandOK
<1>6. q \in Requests /\ q.pc = "select" /\ q.kind = "poll" /\ q.code = p.code
  BY <1>2, <1>5 DEF NoRequest, Requests
<1>7. RequestOK(q) /\ ~Granted(q) /\ Talks(p, q)
  BY <1>5, <1>6 DEF RequestOK, Granted, Talks
<1>8. cli' = [cli EXCEPT ![c] = p]
  BY <1>3, <1>4 DEF SessionInv, TypeOK
<1>9. CommandOK(p)'
  BY <1>3, <1>4, FaultRises, QuietGrows, CommandStays DEF SessionInv
<1> QED
  BY <1>1, <1>3, <1>4, <1>6, <1>7, <1>8, <1>9, LeavingKeeps

LEMMA ProcessCrashKeeps ==
  ASSUME SessionInv, NEW c \in Clients, ProcessCrash(c)
  PROVE  SessionInv'
<1>1. PICK p, old : p = [NoCommand EXCEPT !.end = "failed"] /\ old = srv[<<c, "now">>]
  OBVIOUS
<1>2. /\ cli' = [cli EXCEPT ![c] = p]
      /\ srv' = [srv EXCEPT ![<<c, "left">>] = old, ![<<c, "now">>] = NoRequest]
      /\ srv[<<c, "left">>].pc = "idle" /\ Fault
      /\ UNCHANGED <<github, codes, sessions, file, cookie, signIns>>
  BY <1>1 DEF ProcessCrash
<1>3. p \in Commands /\ CommandOK(p)'
  BY <1>1, EndedOK
<1>4. Talks(p, NoRequest)
  BY NoRequestOK DEF Talks
<1> QED
  BY <1>1, <1>2, <1>3, <1>4, NoRequestOK, LeavingKeeps

LEMMA ServerCrashKeeps ==
  ASSUME SessionInv, ServerCrash
  PROVE  SessionInv'
<1>1. /\ srv' = [s \in Slots |-> NoRequest] /\ Fault
      /\ cli' = [c \in Clients |-> IF srv[<<c, "now">>].pc = "idle" THEN cli[c]
                                   ELSE Heard(cli[c], "error", None)]
      /\ UNCHANGED <<github, codes, sessions, file, cookie, signIns>>
  BY DEF ServerCrash
<1>2. Grown /\ faults' # 0 /\ Tokens' = Tokens
  BY <1>1, FaultRises, QuietGrows DEF Fault, SessionInv, TypeOK
<1>3. Database'
  BY <1>1, <1>2, DatabaseKept DEF SessionInv, TypeOK
<1>4. \A s \in Slots : srv'[s] = NoRequest
  BY <1>1
<1>5. Requesting'
  <2>1. NoRequest \in Requests'
    BY <1>2, NoRequestOK, TokensGrow DEF Grown
  <2>2. ASSUME NEW r \in Slots PROVE RequestOK(srv[r])'
    <3>1. PICK x : x = NoRequest
      OBVIOUS
    <3>2. RequestOK(x)'
      BY <3>1 DEF RequestOK, NoRequest
    <3>3. x = srv'[r]
      BY <1>4, <3>1
    <3> QED
      BY <3>2, <3>3
  <2>3. srv' \in [Slots -> Requests']
    BY <1>1, <2>1
  <2> QED
    BY <2>2, <2>3 DEF Requesting
<1>6. ASSUME NEW c \in Clients PROVE cli'[c] \in Commands' /\ CommandOK(cli[c])'
  <2>1. CASE srv[<<c, "now">>].pc = "idle"
    <3>1. PICK p \in Commands : p = cli[c] /\ CommandOK(p)
      BY DEF SessionInv, TypeOK
    <3>2. p \in Commands' /\ CommandOK(p)'
      BY <1>2, <3>1, TokensGrow, CommandStays DEF Grown, SessionInv
    <3>3. p = cli'[c]
      BY <1>1, <2>1, <3>1
    <3> QED
      BY <3>2, <3>3
  <2>2. CASE srv[<<c, "now">>].pc # "idle"
    <3>1. PICK p : p = Heard(cli[c], "error", None)
      OBVIOUS
    <3>2. p \in Commands' /\ CommandOK(p)'
      BY <1>2, <2>2, <3>1, ErrorHeard
    <3>3. p = cli'[c]
      BY <1>1, <2>2, <3>1
    <3> QED
      BY <3>2, <3>3
  <2> QED
    BY <2>1, <2>2
<1>7. Commanding'
  <2>1. cli' \in [Clients -> Commands']
    BY <1>1, <1>6
  <2> QED
    BY <1>6, <2>1 DEF Commanding
<1>8. Talking'
  <2> SUFFICES ASSUME NEW b \in Clients PROVE Talks(cli'[b], srv'[<<b, "now">>])
    BY DEF Talking, Talks
  <2> QED
    BY <1>4, ClientFacts, NoRequestOK DEF Talks
<1>9. OneGrant'
  BY <1>2, <1>4, NoRequestOK, GrantsKept
<1> QED
  BY <1>2, <1>3, <1>5, <1>7, <1>8, <1>9, PartsMakeInv

-----------------------------------------------------------------------------
LEMMA InitInv == Init => SessionInv
<1> SUFFICES ASSUME Init PROVE SessionInv
  OBVIOUS
<1> USE DEF Init
<1>1. /\ [state |-> "new", by |-> None] \in Grants
      /\ [token |-> None, expired |-> FALSE] \in DeviceRows
  BY DEF Grants, DeviceRows
<1>2. sessions \in Seq(Rows) /\ Tokens = {}
  BY DEF Tokens
<1>3. TypeOK
  BY <1>1, <1>2, NoRequestOK, NoCommandOK, BoundsAssumption DEF TypeOK
<1>4. \A d \in Codes : github[d].state = "new" /\ codes[d].token = None
  OBVIOUS
<1>5. \A s \in Slots : srv[s] = NoRequest
  OBVIOUS
<1>6. \A s \in Slots : RequestOK(srv[s]) /\ ~Granted(srv[s])
  BY <1>5, NoRequestOK
<1>7. \A c \in Clients : CommandOK(cli[c]) /\ Talks(cli[c], srv[<<c, "now">>])
  BY <1>5, NoCommandOK, NoRequestOK, ClientFacts DEF Talks
<1>8. OneGrant
  BY <1>2, <1>6 DEF OneGrant
<1> QED
  BY <1>2, <1>3, <1>4, <1>6, <1>7, <1>8 DEF SessionInv

LEMMA WorldStep ==
  ASSUME SessionInv, World
  PROVE  SessionInv'
BY ApproveKeeps, DenyKeeps, CodeExpiresKeeps, SessionExpiresKeeps, VisitKeeps DEF World

LEMMA FaultyStep ==
  ASSUME SessionInv, Faulty
  PROVE  SessionInv'
BY LoginFailsKeeps, ProcessCrashKeeps, AnswerLostKeeps, ResentKeeps, StepFailsKeeps,
   ServerCrashKeeps, ClientFacts DEF Faulty

LEMMA RunStep ==
  ASSUME SessionInv, NEW c \in Clients, Run(c) \/ Command(c)
  PROVE  SessionInv'
BY PollKeeps, AskMeKeeps, TruncateKeeps, WriteKeeps, RemoveKeeps, LogoutKeeps, AskKeeps
   DEF Run, Command

LEMMA HandleStep ==
  ASSUME SessionInv, NEW s \in Slots, Handle(s)
  PROVE  SessionInv'
BY SelectCodeKeeps, AskGitHubKeeps, IdentifyKeeps, CreateSessionKeeps, StoreTokenKeeps,
   LookupKeeps, DeleteKeeps, ActKeeps DEF Handle

LEMMA StutterKeeps ==
  ASSUME SessionInv, UNCHANGED vars
  PROVE  SessionInv'
<1>1. /\ UNCHANGED <<github, codes, sessions, file, cookie, cli, srv, signIns, faults>>
      /\ codes' \in [Codes -> DeviceRows]
  BY DEF vars, SessionInv, TypeOK
<1>2. Grown /\ Tokens' = Tokens
  BY <1>1, NoFaultRises, QuietGrows
<1> QED
  BY <1>1, <1>2, WorldKeeps

LEMMA StepKeepsInv == SessionInv /\ [Next]_vars => SessionInv'
<1> SUFFICES ASSUME SessionInv, [Next]_vars PROVE SessionInv'
  OBVIOUS
<1>1. CASE World
  BY <1>1, WorldStep
<1>2. CASE Faulty
  BY <1>2, FaultyStep
<1>3. ASSUME NEW c \in Processes, Deadline(c) \/ \E d \in Codes : Login(c, d)
      PROVE  SessionInv'
  BY <1>3, DeadlineKeeps, LoginKeeps
<1>4. ASSUME NEW c \in Clients, Run(c) \/ Command(c) PROVE SessionInv'
  BY <1>4, RunStep
<1>5. ASSUME NEW s \in Slots, Handle(s) PROVE SessionInv'
  BY <1>5, HandleStep
<1>6. CASE UNCHANGED vars
  BY <1>6, StutterKeeps
<1> QED
  BY <1>1, <1>2, <1>3, <1>4, <1>5, <1>6 DEF Next

(* Sessions, grants, requests and commands fit together, as the inductive   *)
(* invariant says, whatever is lost, resent, crashes or expires.            *)
THEOREM SessionInvariant == Spec => []SessionInv
<1>1. Init => SessionInv
  BY InitInv
<1>2. SessionInv /\ [Next]_vars => SessionInv'
  BY StepKeepsInv
<1> QED
  BY <1>1, <1>2, PTL DEF Spec

(* The variables of the sign-in keep their types.                           *)
THEOREM TypeCorrect == Spec => []TypeOK
<1>1. SessionInv => TypeOK
  BY DEF SessionInv
<1> QED
  BY <1>1, SessionInvariant, PTL

(* inguma login is signed in as whoever approved the code it showed: the    *)
(* session it holds was made for this code, by the one request that         *)
(* redeemed the approval.                                                   *)
THEOREM LoginIsTheGranters == Spec => []SignedInAsGranter
<1>1. SessionInv => SignedInAsGranter
  <2> SUFFICES ASSUME SessionInv PROVE SignedInAsGranter
    OBVIOUS
  <2>1. ASSUME NEW t, NEW d, Holds(t, d)
        PROVE  sessions[t].user = github[d].by
    <3>1. t \in Tokens /\ d \in Codes /\ sessions[t].code = d /\ SessionOK(sessions[t])
      BY <2>1 DEF Holds, SessionInv
    <3> QED
      BY <3>1, NoneFacts DEF SessionOK
  <2>2. \A d \in Codes : codes[d].token # None => Holds(codes[d].token, d)
    BY DEF SessionInv
  <2>3. \A c \in Processes : cli[c].pc \in {"in", "naming", "save", "write"} =>
          Holds(cli[c].token, cli[c].code)
    BY ClientFacts DEF SessionInv, CommandOK
  <2> QED
    BY <2>1, <2>2, <2>3 DEF SignedInAsGranter
<1> QED
  BY <1>1, SessionInvariant, PTL

(* An approval makes one session, however often its code is polled or       *)
(* resent, and the token kept with the code is that of this session.        *)
THEOREM GrantMakesOneSession == Spec => []OneSessionPerGrant
<1>1. SessionInv => OneSessionPerGrant
  BY DEF SessionInv, OneGrant, Holds, OneSessionPerGrant
<1> QED
  BY <1>1, SessionInvariant, PTL

(* Nobody acts with a scope that signing in did not give, or on a request   *)
(* sent after the session had ended.                                        *)
THEOREM ActsAreManaged == Spec => []OnlyManagersAct
<1>1. SessionInv => OnlyManagersAct
  BY DEF SessionInv, RequestOK, Manages, OnlyManagersAct
<1> QED
  BY <1>1, SessionInvariant, PTL

(* When inguma logout removes the token file the session is gone from the   *)
(* server, unless something failed.                                         *)
THEOREM LogoutEndsSession == Spec => []LogoutRevokes
<1>1. SessionInv => LogoutRevokes
  BY ClientFacts DEF SessionInv, CommandOK, LogoutRevokes
<1> QED
  BY <1>1, SessionInvariant, PTL

=============================================================================
