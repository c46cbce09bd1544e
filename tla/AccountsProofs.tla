--------------------------- MODULE AccountsProofs ---------------------------
(***************************************************************************)
(* Proofs about sessions, the alias limit and reply tokens (Accounts), for *)
(* every number of users, browsers, requests, forwarding tasks, aliases    *)
(* and faults.                                                             *)
(***************************************************************************)
EXTENDS Accounts, FiniteSetTheorems, TLAPS

UserRow == [exists : BOOLEAN, bypass : BOOLEAN, firsthand : BOOLEAN]
Session == [user : Users \cup {None}, token : Nat]
Cookies == [sid : 0..MaxLogins, token : Nat, user : Users \cup {None}]
AliasRow == [state : {"unused", "live", "gone"}, user : Users \cup {None}, domain : Domains \cup {None},
             name : Names \cup {None}, forward : BOOLEAN]
Task == [alias : AliasIds \cup {None}, sender : Senders \cup {None}, pc : {"idle", "select", "insert"}]
Arguments == {None} \cup (Domains \X Names) \cup AliasIds \cup (AliasIds \X BOOLEAN) \cup Users
               \cup Domains \cup Keys
OperationNames == AdminOperations \cup {"view", "logout", "compose", "create", "delete", "set_forward"}
Places == {"idle", "user", "establish", "respond", "session", "permissions", "limit", "available",
           "insert", "execute"}
Request == [op : OperationNames \cup {"idle", "login"}, arg : Arguments, browser : Browsers \cup {None},
            sid : 0..MaxLogins, token : Nat, sender : Users \cup {None}, pc : Places,
            user : Users \cup {None}]

TypeInv ==
  /\ users \in [Users -> UserRow]
  /\ store \in [0..MaxLogins -> Session]
  /\ logins \in 0..MaxLogins
  /\ browser \in [Browsers -> Cookies]
  /\ request \in [Requests -> Request]
  /\ alias \in [AliasIds -> AliasRow]
  /\ keys \in [Keys -> Users \cup {None}]
  /\ mapping \in [AliasIds \X Senders -> Nat]
  /\ tokens \in Nat
  /\ forward \in [Forwards -> Task]
  /\ faults \in 0..MaxFaults
  /\ exempt \subseteq Users

(* Where a request is says which fields it has filled in. *)
PlaceOf(r) ==
  /\ r.pc \in {"user", "establish"} => r.op = "login" /\ r.sender = None /\ r.user \in Users
  /\ r.op = "login" => r.pc \in {"user", "establish", "respond"} /\ r.user \in Users
  /\ r.op = "create" => r.arg \in Domains \X Names
  /\ r.op = "set_forward" => r.arg \in AliasIds \X BOOLEAN
  /\ r.pc \in {"limit", "available", "insert"} => r.op = "create"
  /\ r.pc \in {"session", "permissions"} => r.op # "login"
  /\ r.pc = "session" => r.user = None
  /\ r.pc = "respond" /\ r.op # "login" => r.op = "logout"

RequestInv == \A q \in Requests : PlaceOf(request[q])

(* A session id was given to one user: every session, every browser, every response under
   way and every request that carries it agree on who that is. *)
Agrees(owner) ==
  /\ \A s \in 0..MaxLogins : store[s] # NoSession => s \in 1..logins /\ store[s].user = owner[s]
  /\ \A b \in Browsers : browser[b].user # None =>
       browser[b].sid \in 1..logins /\ browser[b].user = owner[browser[b].sid]
  /\ \A q \in Requests :
       /\ request[q].pc = "respond" /\ request[q].op = "login" =>
            request[q].sid \in 1..logins /\ request[q].user = owner[request[q].sid]
       /\ request[q].pc = "session" =>
            request[q].sid \in 1..logins /\ request[q].sender = owner[request[q].sid]

SessionInv == NoFault => ActsForItsSender /\ \E owner \in [1..MaxLogins -> Users] : Agrees(owner)

(* Whoever may bypass the limit is on the list of those who once could. *)
ExemptInv ==
  /\ Admin \in exempt
  /\ \A u \in Users : users[u].bypass => u \in exempt

(* A token is handed out for an alias that has been created; one that is gone never
   comes back. *)
TokenInv ==
  /\ \A f \in Forwards : forward[f].pc # "idle" =>
       /\ forward[f].alias \in AliasIds /\ forward[f].sender \in Senders
       /\ alias[forward[f].alias].state # "unused"
  /\ \A h \in handed :
       /\ h \in AliasIds \X Senders \X (Nat \ {0})
       /\ alias[h[1]].state # "unused"
  /\ TokensKeepTheirMeaning

IndInv == TypeInv /\ RequestInv /\ SessionInv /\ ExemptInv /\ TokenInv

-----------------------------------------------------------------------------
(* What the steps do to the request they are about. *)

Others(q) == \A k \in Requests : k # q => request'[k] = request[k]

(* The empty slot is a request, at no place in particular. *)
LEMMA IdleRequest == Idle \in Request /\ PlaceOf(Idle)
  BY AccountsAssumption DEF Idle, Request, Places, OperationNames, Arguments, PlaceOf

(* GoTo moves one request on and leaves its other fields alone. *)
LEMMA Goes ==
  ASSUME TypeInv, NEW q \in Requests, NEW pc \in Places, GoTo(q, pc)
  PROVE  /\ request' \in [Requests -> Request]
         /\ Others(q)
         /\ request'[q] = [request[q] EXCEPT !.pc = pc]
         /\ request'[q].pc = pc /\ request'[q].op = request[q].op /\ request'[q].arg = request[q].arg
         /\ request'[q].sid = request[q].sid /\ request'[q].user = request[q].user
         /\ request'[q].sender = request[q].sender /\ request'[q].browser = request[q].browser
  BY DEF TypeInv, GoTo, Others, Request

(* End empties the slot. *)
LEMMA Ends ==
  ASSUME TypeInv, NEW q \in Requests, End(q)
  PROVE  /\ request' \in [Requests -> Request]
         /\ Others(q)
         /\ request'[q] = Idle
  BY IdleRequest DEF TypeInv, End, Others

(* The slot is filled. *)
LEMMA Fills ==
  ASSUME TypeInv, NEW q \in Requests, NEW r \in Request, request' = [request EXCEPT ![q] = r]
  PROVE  /\ request' \in [Requests -> Request]
         /\ Others(q)
         /\ request'[q] = r
  BY DEF TypeInv, Others

(* A login form on its way. *)
LEMMA LoginRequest ==
  ASSUME TypeInv, NEW b \in Browsers, NEW u \in Users
  PROVE  LET r == [Idle EXCEPT !.op = "login", !.browser = b, !.sid = browser[b].sid, !.user = u,
                               !.pc = "user"]
         IN /\ r \in Request /\ PlaceOf(r)
            /\ r.op = "login" /\ r.user = u /\ r.pc = "user" /\ r.sender = None
  BY DEF TypeInv, Idle, Request, Cookies, Places, OperationNames, Arguments, PlaceOf

(* A request with the cookies of its browser. *)
LEMMA SentRequest ==
  ASSUME TypeInv, NEW b \in Browsers, NEW o \in Operations
  PROVE  LET r == [Idle EXCEPT !.op = o.op, !.arg = o.arg, !.browser = b, !.sid = browser[b].sid,
                      !.token = browser[b].token, !.sender = browser[b].user, !.pc = "session"]
         IN /\ r \in Request /\ PlaceOf(r)
            /\ r.pc = "session" /\ r.user = None /\ r.sid = browser[b].sid /\ r.sender = browser[b].user
  <1>1. /\ o.op \in OperationNames /\ o.arg \in Arguments
        /\ o.op = "create" => o.arg \in Domains \X Names
        /\ o.op = "set_forward" => o.arg \in AliasIds \X BOOLEAN
    BY DEF Operations, OperationNames, AdminOperations, Arguments
  <1>2. o.op # "login"
    BY <1>1 DEF OperationNames, AdminOperations
  <1>3. QED
    BY <1>1, <1>2 DEF TypeInv, Idle, Request, Cookies, Places, PlaceOf

(* A request with an API key. *)
LEMMA ApiRequest ==
  ASSUME TypeInv, NEW k \in Keys, NEW arg \in AliasIds \X BOOLEAN
  PROVE  LET r == [Idle EXCEPT !.op = "set_forward", !.arg = arg, !.user = keys[k],
                               !.sender = keys[k], !.pc = "execute"]
         IN /\ r \in Request /\ PlaceOf(r)
            /\ r.pc = "execute" /\ r.op = "set_forward" /\ r.user = r.sender
  <1>1. arg \in Arguments /\ keys[k] \in Users \cup {None}
    BY DEF Arguments, TypeInv
  <1>2. /\ "set_forward" \in OperationNames /\ "execute" \in Places /\ 0 \in 0..MaxLogins /\ 0 \in Nat
    BY AccountsAssumption DEF OperationNames, Places
  <1>3. QED
    BY <1>1, <1>2 DEF Idle, Request, PlaceOf

(* Where CheckSession, LoadUser and the checks of create_alias_handler leave a request. *)
LEMMA CheckedRequest ==
  ASSUME TypeInv, RequestInv, NEW q \in Requests,
         CheckSession(q) \/ LoadUser(q) \/ CheckLimit(q) \/ CheckAvailable(q)
  PROVE  /\ request' \in [Requests -> Request]
         /\ Others(q)
         /\ PlaceOf(request'[q])
         /\ request'[q].pc \notin {"respond", "session"}
         /\ request'[q] = Idle \/
              /\ request'[q].sender = request[q].sender /\ request'[q].sid = request[q].sid
              /\ request'[q].op = request[q].op
              /\ \/ request'[q].user = request[q].user
                 \/ /\ request[q].pc = "session" /\ request'[q].pc = "permissions"
                    /\ store[request[q].sid] # NoSession
                    /\ request'[q].user = store[request[q].sid].user
  <1> USE DEF Places
  <1>0. request[q] \in Request /\ PlaceOf(request[q])
    BY DEF TypeInv, RequestInv
  <1>1. CASE End(q)
    BY <1>1, Ends, IdleRequest DEF Idle
  <1>2. CASE CheckSession(q) /\ ~End(q)
    <2>1. /\ request[q].pc = "session" /\ store[request[q].sid] # NoSession
          /\ request' = [request EXCEPT ![q].user = store[request[q].sid].user, ![q].pc = "permissions"]
      BY <1>2 DEF CheckSession, At
    <2>2. store[request[q].sid].user \in Users \cup {None}
      BY <1>0 DEF TypeInv, Session, Request
    <2>3. /\ request'[q] = [request[q] EXCEPT !.user = store[request[q].sid].user, !.pc = "permissions"]
          /\ Others(q)
      BY <2>1 DEF TypeInv, Others
    <2>4. /\ request'[q] \in Request /\ request'[q].pc = "permissions"
          /\ request'[q].user = store[request[q].sid].user
          /\ request'[q].op = request[q].op /\ request'[q].arg = request[q].arg
          /\ request'[q].sender = request[q].sender /\ request'[q].sid = request[q].sid
      BY <2>2, <2>3, <1>0 DEF Request
    <2>5. request' \in [Requests -> Request]
      BY <2>1, <2>3, <2>4 DEF TypeInv, Others
    <2>6. PlaceOf(request'[q])
      BY <2>1, <2>4, <1>0 DEF PlaceOf
    <2>7. QED
      BY <2>1, <2>3, <2>4, <2>5, <2>6
  <1>3. CASE ~CheckSession(q) /\ ~End(q)
    <2>1. \/ /\ request[q].pc = "permissions"
             /\ \/ request[q].op # "create" /\ GoTo(q, "execute")
                \/ request[q].op = "create" /\ (GoTo(q, "available") \/ GoTo(q, "limit"))
          \/ request[q].pc = "limit" /\ GoTo(q, "available")
          \/ request[q].pc = "available" /\ GoTo(q, "insert")
      <3>1. CASE LoadUser(q)
        <4>1. GoTo(q, CASE request[q].op # "create" -> "execute"
                        [] request[q].op = "create" /\ CanBypass(request[q].user) -> "available"
                        [] OTHER -> "limit")
          BY <3>1, <1>3 DEF LoadUser
        <4>2. request[q].op # "create" => GoTo(q, "execute")
          BY <4>1
        <4>3. request[q].op = "create" => GoTo(q, "available") \/ GoTo(q, "limit")
          BY <4>1
        <4>4. QED
          BY <3>1, <4>2, <4>3 DEF LoadUser, At
      <3>2. CASE CheckLimit(q)
        BY <3>2, <1>3 DEF CheckLimit, At
      <3>3. CASE CheckAvailable(q)
        BY <3>3, <1>3 DEF CheckAvailable, At
      <3>4. QED
        BY <1>3, <3>1, <3>2, <3>3
    <2>2. QED
      BY <2>1, <1>0, Goes DEF PlaceOf
  <1>4. QED
    BY <1>1, <1>2, <1>3

(* establish_session answers with a session id that it has just written, or not at all. *)
LEMMA Established ==
  ASSUME TypeInv, RequestInv, NEW q \in Requests, Establish(q)
  PROVE  /\ logins' = logins + 1 /\ logins' \in 1..MaxLogins
         /\ request[q].user \in Users
         /\ request' \in [Requests -> Request]
         /\ store' \in [0..MaxLogins -> Session]
         /\ Others(q)
         /\ PlaceOf(request'[q])
         /\ request'[q].pc # "session"
         /\ request'[q] = Idle \/ (request'[q].user = request[q].user /\ request'[q].sender = None)
         /\ faults' = faults =>
              /\ request'[q].sid = logins'
              /\ \A s \in 0..MaxLogins : s # logins' => store'[s] \in {store[s], NoSession}
              /\ store'[logins'].user = request[q].user
  <1>0. /\ request[q] \in Request /\ PlaceOf(request[q])
        /\ request[q].op = "login" /\ request[q].sender = None /\ request[q].user \in Users
    BY DEF TypeInv, RequestInv, PlaceOf, Establish, At
  <1>1. /\ logins' = logins + 1 /\ logins' \in 1..MaxLogins /\ logins' \in 0..MaxLogins
        /\ logins' \in Nat
    BY AccountsAssumption DEF TypeInv, Establish
  <1> DEFINE new == [user |-> request[q].user, token |-> logins']
             cycled == [s \in DOMAIN store |-> IF s = request[q].sid THEN NoSession ELSE store[s]]
             RespondWith(s) == request' = [request EXCEPT ![q].pc = "respond", ![q].sid = s,
                                                          ![q].token = logins']
  <1>2. /\ new \in Session /\ NoSession \in Session
        /\ cycled \in [0..MaxLogins -> Session]
        /\ \A s \in 0..MaxLogins : cycled[s] \in {store[s], NoSession}
    BY <1>0, <1>1 DEF TypeInv, Session, NoSession
  <1>3. ASSUME NEW s \in 0..MaxLogins, RespondWith(s)
        PROVE  /\ request' \in [Requests -> Request]
               /\ Others(q)
               /\ PlaceOf(request'[q])
               /\ request'[q].pc = "respond" /\ request'[q].sid = s
               /\ request'[q].user = request[q].user /\ request'[q].sender = None
    <2>1. /\ request'[q] = [request[q] EXCEPT !.pc = "respond", !.sid = s, !.token = logins']
          /\ Others(q)
      BY <1>3 DEF TypeInv, Others
    <2>2. /\ request'[q] \in Request /\ request'[q].pc = "respond" /\ request'[q].sid = s
          /\ request'[q].user = request[q].user /\ request'[q].sender = request[q].sender
          /\ request'[q].op = request[q].op /\ request'[q].arg = request[q].arg
      BY <2>1, <1>0, <1>1, AccountsAssumption DEF Request, Places
    <2>3. request' \in [Requests -> Request]
      BY <1>3, <2>1, <2>2 DEF TypeInv, Others
    <2>4. QED
      BY <2>1, <2>2, <2>3, <1>0 DEF PlaceOf
  <1>4. CASE Succeeds /\ store' = [cycled EXCEPT ![logins'] = new] /\ RespondWith(logins')
    <2>1. /\ store' \in [0..MaxLogins -> Session] /\ store'[logins'] = new
          /\ \A s \in 0..MaxLogins : s # logins' => store'[s] = cycled[s]
      BY <1>4, <1>2, <1>1
    <2>2. QED
      BY <1>0, <1>1, <1>2, <1>3, <1>4, <2>1
  <1>5. CASE Fault("db")
    <2>1. faults' # faults
      BY <1>5 DEF Fault, TypeInv
    <2>2. /\ request[q].sid \in 0..MaxLogins
          /\ \/ store' = [store EXCEPT ![logins'] = new] /\ RespondWith(logins')
             \/ store' = [store EXCEPT ![request[q].sid] = new] /\ RespondWith(request[q].sid)
             \/ store' = cycled /\ End(q)
             \/ store' = [cycled EXCEPT ![logins'] = new] /\ RespondWith(logins')
      BY <1>5, <1>0 DEF Establish, Request
    <2>3. store' \in [0..MaxLogins -> Session]
      BY <2>2, <1>1, <1>2 DEF TypeInv
    <2>4. CASE End(q)
      <3>1. request'[q] = Idle /\ Idle.pc # "session" /\ request' \in [Requests -> Request] /\ Others(q)
        BY <2>4, Ends DEF Idle
      <3>2. QED
        BY <2>1, <2>3, <3>1, <1>0, <1>1, IdleRequest
    <2>5. CASE \E s \in 0..MaxLogins : RespondWith(s)
      <3> HIDE DEF new, cycled, RespondWith
      <3>1. QED
        BY <2>5, <2>1, <2>3, <1>0, <1>1, <1>3
    <2>6. QED
      BY <2>2, <2>4, <2>5, <1>1
  <1>6. QED
    BY <1>4, <1>5 DEF Establish

(* Every step of a request keeps to its own slot and leaves it at a place of the code. *)
LEMMA RequestEffect ==
  ASSUME TypeInv, RequestInv, NEW q \in Requests, RequestStep(q)
  PROVE  /\ request' \in [Requests -> Request]
         /\ Others(q)
         /\ PlaceOf(request'[q])
  <1> USE DEF Places
  <1>0. request[q] \in Request /\ PlaceOf(request[q])
    BY DEF TypeInv, RequestInv
  <1>1. CASE \E b \in Browsers, u \in Users : SendLogin(q, b, u)
    <2>1. PICK b \in Browsers, u \in Users : SendLogin(q, b, u)
      BY <1>1
    <2> DEFINE r == [Idle EXCEPT !.op = "login", !.browser = b, !.sid = browser[b].sid, !.user = u,
                                 !.pc = "user"]
    <2>2. r \in Request /\ PlaceOf(r) /\ request' = [request EXCEPT ![q] = r]
      BY <2>1, LoginRequest DEF SendLogin
    <2> HIDE DEF r
    <2>3. QED
      BY <2>2, Fills
  <1>2. CASE \E b \in Browsers, o \in Operations : SendRequest(q, b, o)
    <2>1. PICK b \in Browsers, o \in Operations : SendRequest(q, b, o)
      BY <1>2
    <2> DEFINE r == [Idle EXCEPT !.op = o.op, !.arg = o.arg, !.browser = b, !.sid = browser[b].sid,
                       !.token = browser[b].token, !.sender = browser[b].user, !.pc = "session"]
    <2>2. r \in Request /\ PlaceOf(r) /\ request' = [request EXCEPT ![q] = r]
      BY <2>1, SentRequest DEF SendRequest
    <2> HIDE DEF r
    <2>3. QED
      BY <2>2, Fills
  <1>3. CASE \E k \in Keys, arg \in AliasIds \X BOOLEAN : SendApiRequest(q, k, arg)
    <2>1. PICK k \in Keys, arg \in AliasIds \X BOOLEAN : SendApiRequest(q, k, arg)
      BY <1>3
    <2> DEFINE r == [Idle EXCEPT !.op = "set_forward", !.arg = arg, !.user = keys[k],
                                 !.sender = keys[k], !.pc = "execute"]
    <2>2. r \in Request /\ PlaceOf(r) /\ request' = [request EXCEPT ![q] = r]
      BY <2>1, ApiRequest DEF SendApiRequest
    <2> HIDE DEF r
    <2>3. QED
      BY <2>2, Fills
  <1>4. CASE End(q)
    BY <1>4, Ends, IdleRequest
  <1>5. CASE FindUser(q) /\ ~End(q)
    <2>1. request[q].pc = "user" /\ GoTo(q, "establish")
      BY <1>5 DEF FindUser, At
    <2>2. QED
      BY <2>1, <1>0, Goes DEF PlaceOf
  <1>6. CASE Establish(q)
    BY <1>6, Established
  <1>7. CASE CheckSession(q) \/ LoadUser(q) \/ CheckLimit(q) \/ CheckAvailable(q)
    BY <1>7, CheckedRequest
  <1>8. CASE Logout(q)
    <2>1. request[q].pc = "execute" /\ request[q].op = "logout" /\ GoTo(q, "respond")
      BY <1>8 DEF Logout, At
    <2>2. QED
      BY <2>1, <1>0, Goes DEF PlaceOf
  <1>9. Respond(q) \/ InsertAlias(q) \/ Execute(q) => End(q)
    BY DEF Respond, InsertAlias, Execute
  <1>10. QED
    BY <1>1, <1>2, <1>3, <1>4, <1>5, <1>6, <1>7, <1>8, <1>9 DEF RequestStep

(* A failing statement is paid from the budget of faults. *)
LEMMA FaultTypes ==
  ASSUME faults \in 0..MaxFaults, NEW kind, Fault(kind)
  PROVE  faults' \in 0..MaxFaults /\ faults' # MaxFaults
  BY AccountsAssumption DEF Fault

(* A row of aliases is created once; deleting it is for good, and takes its mappings along. *)
AliasesMove ==
  /\ alias' \in [AliasIds -> AliasRow]
  /\ mapping' \in [AliasIds \X Senders -> Nat]
  /\ \A a \in AliasIds : alias[a].state # "unused" => alias'[a].state # "unused"
  /\ \A a \in AliasIds : alias[a].state = "gone" => alias'[a].state = "gone"
  /\ \A a \in AliasIds, s \in Senders : alias'[a].state = "live" => mapping'[<<a, s>>] = mapping[<<a, s>>]

LEMMA RemovedAliases ==
  ASSUME TypeInv, NEW S, RemoveAliases(S), \A a \in S : a \in AliasIds /\ Live(a)
  PROVE  AliasesMove /\ \A u : AliasesOf(u)' \subseteq AliasesOf(u)
  <1>1. [NoAlias EXCEPT !.state = "gone"] \in AliasRow /\ [NoAlias EXCEPT !.state = "gone"].state = "gone"
    BY DEF NoAlias, AliasRow
  <1>2. \A a \in AliasIds : alias'[a] = IF a \in S THEN [NoAlias EXCEPT !.state = "gone"] ELSE alias[a]
    BY DEF RemoveAliases
  <1>3. alias' \in [AliasIds -> AliasRow]
    BY <1>1 DEF RemoveAliases, TypeInv
  <1>4. \A a \in AliasIds : alias'[a] = alias[a] \/ (a \in S /\ alias'[a].state = "gone")
    BY <1>1, <1>2
  <1>5. /\ mapping' \in [AliasIds \X Senders -> Nat]
        /\ \A a \in AliasIds, s \in Senders : a \notin S => mapping'[<<a, s>>] = mapping[<<a, s>>]
    BY DEF RemoveAliases, TypeInv
  <1>6. AliasesMove
    BY <1>3, <1>4, <1>5, <1>1, <1>2 DEF AliasesMove, Live
  <1>7. QED
    BY <1>4, <1>6 DEF AliasesOf, Live

(* The statements of the handlers. *)
LEMMA AppliedEffect ==
  ASSUME TypeInv, RequestInv, ExemptInv, NEW q \in Requests, Applied(q)
  PROVE  /\ users' \in [Users -> UserRow] /\ keys' \in [Keys -> Users \cup {None}]
         /\ exempt \subseteq exempt' /\ exempt' \subseteq Users
         /\ \A u \in Users : users'[u].bypass => u \in exempt'
         /\ AliasesMove
         /\ \A u : AliasesOf(u)' \subseteq AliasesOf(u)
  <1> DEFINE u == request[q].user
             arg == request[q].arg
  <1>1. u \in Users \cup {None} /\ (request[q].op = "set_forward" => arg \in AliasIds \X BOOLEAN)
    BY DEF TypeInv, Request, RequestInv, PlaceOf
  <1>2. /\ UNCHANGED <<alias, mapping>> => AliasesMove /\ \A v : AliasesOf(v)' \subseteq AliasesOf(v)
        /\ UNCHANGED <<users, exempt>> =>
             /\ users' \in [Users -> UserRow] /\ exempt \subseteq exempt' /\ exempt' \subseteq Users
             /\ \A v \in Users : users'[v].bypass => v \in exempt'
        /\ UNCHANGED keys => keys' \in [Keys -> Users \cup {None}]
    BY DEF TypeInv, ExemptInv, AliasesMove, AliasesOf, Live
  <1> HIDE DEF u, arg
  <1>3. CASE DeleteAlias(u, arg)
    <2>1. RemoveAliases({arg} \cap AliasesOf(u)) /\ UNCHANGED <<users, exempt>> /\ UNCHANGED keys
      BY <1>3 DEF DeleteAlias
    <2>2. \A a \in {arg} \cap AliasesOf(u) : a \in AliasIds /\ Live(a)
      BY DEF AliasesOf
    <2>3. QED
      BY <2>1, <2>2, <1>2, RemovedAliases
  <1>4. CASE request[q].op = "set_forward" /\ SetForward(u, arg[1], arg[2])
    <2>1. arg[1] \in AliasIds /\ arg[2] \in BOOLEAN
      BY <1>1, <1>4
    <2>2. /\ alias' \in [AliasIds -> AliasRow]
          /\ \A a \in AliasIds : alias'[a].state = alias[a].state /\ alias'[a].user = alias[a].user
      <3>1. PICK on \in BOOLEAN : alias' = [alias EXCEPT ![arg[1]].forward = on]
        BY <1>4, <2>1 DEF SetForward, TypeInv, AliasRow
      <3>2. alias[arg[1]] \in AliasRow
        BY <2>1 DEF TypeInv
      <3>3. /\ [alias[arg[1]] EXCEPT !.forward = on] \in AliasRow
            /\ [alias[arg[1]] EXCEPT !.forward = on].state = alias[arg[1]].state
            /\ [alias[arg[1]] EXCEPT !.forward = on].user = alias[arg[1]].user
        BY <3>2 DEF AliasRow
      <3>4. alias' = [alias EXCEPT ![arg[1]] = [alias[arg[1]] EXCEPT !.forward = on]]
        BY <3>1
      <3>5. QED
        BY <3>3, <3>4, <2>1 DEF TypeInv
    <2>3. UNCHANGED mapping /\ UNCHANGED <<users, exempt>> /\ UNCHANGED keys
      BY <1>4 DEF SetForward
    <2>4. AliasesMove /\ \A v : AliasesOf(v)' \subseteq AliasesOf(v)
      BY <2>2, <2>3 DEF AliasesMove, AliasesOf, Live, TypeInv
    <2>5. QED
      BY <1>2, <2>3, <2>4
  <1>5. CASE ToggleBypass(arg)
    <2>1. users' \in [Users -> UserRow]
      <3>1. \A v \in Users : [users[v] EXCEPT !.bypass = ~@] \in UserRow /\ users[v] \in UserRow
        BY DEF TypeInv, UserRow
      <3>2. users' = [users EXCEPT ![arg] = [users[arg] EXCEPT !.bypass = IF users[arg].exists THEN ~@ ELSE @]]
        BY <1>5 DEF ToggleBypass
      <3>3. users' \in {[users EXCEPT ![arg] = [users[arg] EXCEPT !.bypass = ~@]], users}
        BY <3>2 DEF TypeInv, UserRow
      <3>4. QED
        BY <3>1, <3>3 DEF TypeInv
    <2>2. exempt' = exempt \cup {v \in Users : users'[v].bypass}
      BY <1>5 DEF ToggleBypass
    <2>3. UNCHANGED <<alias, mapping>> /\ UNCHANGED keys
      BY <1>5 DEF ToggleBypass
    <2>4. QED
      BY <1>2, <2>1, <2>2, <2>3 DEF TypeInv
  <1>6. CASE ToggleFirsthand(arg)
    <2>1. /\ users' \in [Users -> UserRow]
          /\ \A v \in Users : users'[v].bypass = users[v].bypass
      BY <1>6 DEF ToggleFirsthand, TypeInv, UserRow
    <2>2. UNCHANGED <<alias, mapping>> /\ UNCHANGED keys /\ exempt' = exempt
      BY <1>6 DEF ToggleFirsthand
    <2>3. QED
      BY <1>2, <2>1, <2>2 DEF TypeInv, ExemptInv
  <1>7. CASE AddDomain(arg)
    BY <1>7, <1>2 DEF AddDomain
  <1>8. CASE DeleteDomain(arg)
    <2>1. /\ RemoveAliases({a \in AliasIds : Live(a) /\ alias[a].domain = arg})
          /\ UNCHANGED <<users, exempt>> /\ UNCHANGED keys
      BY <1>8 DEF DeleteDomain
    <2>2. QED
      BY <2>1, <1>2, RemovedAliases
  <1>9. CASE AddKey(u, arg)
    <2>1. keys' \in [Keys -> Users \cup {None}]
      BY <1>9, <1>1 DEF AddKey, TypeInv
    <2>2. QED
      BY <1>9, <2>1, <1>2 DEF AddKey
  <1>10. CASE DeleteKey(u, arg)
    <2>1. keys' \in [Keys -> Users \cup {None}]
      BY <1>10 DEF DeleteKey, TypeInv
    <2>2. QED
      BY <1>10, <2>1, <1>2 DEF DeleteKey
  <1>11. CASE UNCHANGED <<users, aliasVars, mapping, exempt>>
    BY <1>11, <1>2 DEF aliasVars
  <1>12. QED
    BY <1>3, <1>4, <1>5, <1>6, <1>7, <1>8, <1>9, <1>10, <1>11 DEF Applied, u, arg

(* The new row of InsertAlias. *)
LEMMA InsertEffect ==
  ASSUME TypeInv, RequestInv, NEW q \in Requests, InsertAlias(q)
  PROVE  /\ request[q].pc = "insert" /\ request[q].op = "create" /\ request'[q] = Idle
         /\ AliasesMove /\ UNCHANGED mapping
         /\ \/ UNCHANGED alias
            \/ \E a \in AliasIds :
                 /\ alias[a].state = "unused"
                 /\ alias'[a].state = "live" /\ alias'[a].user = request[q].user
                 /\ \A b \in AliasIds : b # a => alias'[b] = alias[b]
  <1>1. /\ request[q].pc = "insert" /\ request[q].op = "create" /\ request'[q] = Idle
        /\ UNCHANGED mapping
    BY Ends DEF InsertAlias, At, RequestInv, PlaceOf, forwardVars
  <1>2. UNCHANGED alias \/ \E a \in AliasIds : NewAlias(a, q)
    BY DEF InsertAlias
  <1>3. CASE UNCHANGED alias
    BY <1>1, <1>3 DEF AliasesMove, TypeInv
  <1>4. ASSUME NEW a \in AliasIds, NewAlias(a, q)
        PROVE  /\ AliasesMove
               /\ alias[a].state = "unused"
               /\ alias'[a].state = "live" /\ alias'[a].user = request[q].user
               /\ \A b \in AliasIds : b # a => alias'[b] = alias[b]
    <2>1. PICK on \in BOOLEAN :
            alias' = [alias EXCEPT ![a] = [state |-> "live", user |-> request[q].user,
                        domain |-> request[q].arg[1], name |-> request[q].arg[2], forward |-> on]]
      BY <1>4 DEF NewAlias
    <2>2. /\ request[q].user \in Users \cup {None}
          /\ request[q].arg[1] \in Domains /\ request[q].arg[2] \in Names
      BY <1>1 DEF TypeInv, Request, RequestInv, PlaceOf
    <2>3. [state |-> "live", user |-> request[q].user, domain |-> request[q].arg[1],
           name |-> request[q].arg[2], forward |-> on] \in AliasRow
      BY <2>2 DEF AliasRow
    <2>4. /\ alias' \in [AliasIds -> AliasRow]
          /\ alias'[a].state = "live" /\ alias'[a].user = request[q].user
          /\ \A b \in AliasIds : b # a => alias'[b] = alias[b]
      BY <2>1, <2>3 DEF TypeInv
    <2>5. alias[a].state = "unused"
      BY <1>4 DEF NewAlias
    <2>6. AliasesMove
      BY <2>4, <2>5, <1>1 DEF AliasesMove, TypeInv
    <2>7. QED
      BY <2>4, <2>5, <2>6
  <1>5. QED
    BY <1>1, <1>2, <1>3, <1>4

(* What steps of requests do to users, sessions' browsers and aliases. *)
LEMMA RequestFrame ==
  ASSUME TypeInv, RequestInv, ExemptInv, NEW q \in Requests, RequestStep(q)
  PROVE  /\ UNCHANGED <<tokens, forward, handed>>
         /\ users' \in [Users -> UserRow] /\ keys' \in [Keys -> Users \cup {None}]
         /\ exempt \subseteq exempt' /\ exempt' \subseteq Users
         /\ \A u \in Users : users'[u].bypass => u \in exempt'
         /\ AliasesMove
         /\ store' \in [0..MaxLogins -> Session] /\ logins' \in 0..MaxLogins
         /\ browser' \in [Browsers -> Cookies] \/ Respond(q)
         /\ faults' \in 0..MaxFaults /\ (faults' = MaxFaults => faults' = faults)
  <1> USE DEF accountVars, aliasVars, forwardVars
  <1>0. /\ \A kind : Fault(kind) => faults' \in 0..MaxFaults /\ faults' # MaxFaults
        /\ Succeeds => faults' \in 0..MaxFaults /\ faults' = faults
    BY FaultTypes DEF Succeeds, TypeInv
  <1>1. /\ UNCHANGED <<alias, mapping>> => AliasesMove
        /\ UNCHANGED <<users, exempt>> =>
             /\ users' \in [Users -> UserRow] /\ exempt \subseteq exempt' /\ exempt' \subseteq Users
             /\ \A v \in Users : users'[v].bypass => v \in exempt'
        /\ UNCHANGED keys => keys' \in [Keys -> Users \cup {None}]
        /\ UNCHANGED <<store, logins>> => store' \in [0..MaxLogins -> Session] /\ logins' \in 0..MaxLogins
        /\ UNCHANGED browser => browser' \in [Browsers -> Cookies]
        /\ UNCHANGED faults => faults' \in 0..MaxFaults
    BY DEF TypeInv, ExemptInv, AliasesMove
  <1>2. CASE \/ \E b \in Browsers, u \in Users : SendLogin(q, b, u)
             \/ \E b \in Browsers, o \in Operations : SendRequest(q, b, o)
             \/ \E k \in Keys, arg \in AliasIds \X BOOLEAN : SendApiRequest(q, k, arg)
    BY <1>1, <1>2 DEF SendLogin, SendRequest, SendApiRequest
  <1>3. CASE FindUser(q)
    <2>1. users' \in [Users -> UserRow] /\ \A v \in Users : users'[v].bypass => v \in exempt
      <3>1. NewUser \in UserRow /\ ~NewUser.bypass
        BY DEF NewUser, NoUser, UserRow
      <3>2. users' = users \/ users' = [users EXCEPT ![request[q].user] = NewUser]
        BY <1>3 DEF FindUser
      <3>3. QED
        BY <3>1, <3>2 DEF TypeInv, ExemptInv
    <2>2. QED
      BY <1>1, <1>3, <2>1 DEF FindUser, TypeInv
  <1>4. CASE Establish(q)
    <2>1. store' \in [0..MaxLogins -> Session] /\ logins' \in 0..MaxLogins
      BY <1>4, Established
    <2>2. QED
      BY <1>0, <1>1, <1>4, <2>1 DEF Establish
  <1>5. CASE Respond(q)
    BY <1>1, <1>5 DEF Respond
  <1>6. CASE CheckSession(q)
    BY <1>0, <1>1, <1>6 DEF CheckSession
  <1>7. CASE LoadUser(q)
    BY <1>0, <1>1, <1>7 DEF LoadUser
  <1>8. CASE CheckLimit(q) \/ CheckAvailable(q)
    BY <1>0, <1>1, <1>8 DEF CheckLimit, CheckAvailable
  <1>9. CASE InsertAlias(q)
    BY <1>0, <1>1, <1>9, InsertEffect DEF InsertAlias
  <1>10. CASE Execute(q)
    <2>1. /\ UNCHANGED <<store, logins>> /\ UNCHANGED browser /\ UNCHANGED <<tokens, forward, handed>>
          /\ Succeeds \/ Fault("db")
          /\ Applied(q) \/ UNCHANGED <<users, aliasVars, mapping, exempt>>
      BY <1>10 DEF Execute
    <2>2. CASE Applied(q)
      BY <2>1, <2>2, <1>0, <1>1, AppliedEffect
    <2>3. CASE UNCHANGED <<users, aliasVars, mapping, exempt>>
      BY <2>1, <2>3, <1>0, <1>1
    <2>4. QED
      BY <2>1, <2>2, <2>3
  <1>11. CASE Logout(q)
    <2>1. store' \in [0..MaxLogins -> Session] /\ logins' \in 0..MaxLogins
      BY <1>11 DEF Logout, TypeInv, Session, NoSession
    <2>2. QED
      BY <1>0, <1>1, <1>11, <2>1 DEF Logout
  <1>12. QED
    BY <1>2, <1>3, <1>4, <1>5, <1>6, <1>7, <1>8, <1>9, <1>10, <1>11 DEF RequestStep

(* The cookies of a response. *)
LEMMA RespondEffect ==
  ASSUME TypeInv, RequestInv, NEW q \in Requests, Respond(q)
  PROVE  /\ browser' \in [Browsers -> Cookies]
         /\ \A b \in Browsers : \/ browser'[b] = browser[b]
                                \/ browser'[b].user = None
                                \/ /\ request[q].op = "login"
                                   /\ browser'[b].sid = request[q].sid /\ browser'[b].user = request[q].user
  <1>1. /\ request[q] \in Request
        /\ request[q].op = "login" \/ request[q].op = "logout"
    BY DEF TypeInv, RequestInv, PlaceOf, Respond, At
  <1>2. NoCookies \in Cookies /\ NoCookies.user = None
    BY AccountsAssumption DEF NoCookies, Cookies
  <1>3. [sid |-> request[q].sid, token |-> request[q].token, user |-> request[q].user] \in Cookies
    BY <1>1 DEF Request, Cookies
  <1>4. QED
    BY <1>1, <1>2, <1>3 DEF TypeInv, Respond

-----------------------------------------------------------------------------
(* Reply tokens *)

(* Rows of aliases that come and go keep the meaning of every token. *)
LEMMA TokensMove ==
  ASSUME TypeInv, TokenInv, AliasesMove, UNCHANGED handed,
         \A f \in Forwards : forward'[f].pc # "idle" => forward'[f] = forward[f]
  PROVE  TokenInv'
  <1>1. ASSUME NEW h \in handed
        PROVE  /\ h \in AliasIds \X Senders \X (Nat \ {0})
               /\ alias'[h[1]].state # "unused"
               /\ Live(h[1])' => mapping'[<<h[1], h[2]>>] = h[3]
    <2>1. /\ h \in AliasIds \X Senders \X (Nat \ {0}) /\ alias[h[1]].state # "unused"
          /\ Live(h[1]) => mapping[<<h[1], h[2]>>] = h[3]
      BY DEF TokenInv, TokensKeepTheirMeaning
    <2>2. h[1] \in AliasIds /\ h[2] \in Senders
      BY <2>1
    <2>3. alias[h[1]].state \in {"unused", "live", "gone"}
      BY <2>2 DEF TypeInv, AliasRow
    <2>4. QED
      BY <2>1, <2>2, <2>3 DEF AliasesMove, Live
  <1>2. ASSUME NEW f \in Forwards, forward'[f].pc # "idle"
        PROVE  /\ forward'[f].alias \in AliasIds /\ forward'[f].sender \in Senders
               /\ alias'[forward'[f].alias].state # "unused"
    BY <1>2 DEF TokenInv, AliasesMove
  <1>3. QED
    BY <1>1, <1>2 DEF TokenInv, TokensKeepTheirMeaning

(* A forwarding task writes a mapping only where none was, and hands out what is written. *)
LEMMA ForwardEffect ==
  ASSUME TypeInv, TokenInv, NEW f \in Forwards, ForwardStep(f)
  PROVE  /\ TokenInv'
         /\ mapping' \in [AliasIds \X Senders -> Nat] /\ tokens' \in Nat
         /\ forward' \in [Forwards -> Task]
         /\ faults' \in 0..MaxFaults /\ (faults' = MaxFaults => faults' = faults)
         /\ UNCHANGED <<accountVars, aliasVars, request, exempt>>
  <1> DEFINE a == forward[f].alias
             s == forward[f].sender
  <1>1. /\ \A kind : Fault(kind) => faults' \in 0..MaxFaults /\ faults' # MaxFaults
        /\ UNCHANGED faults => faults' \in 0..MaxFaults
    BY FaultTypes DEF TypeInv
  <1>2. NoForward \in Task /\ NoForward.pc = "idle"
    BY DEF NoForward, Task
  <1>3. CASE \E b \in AliasIds, t \in Senders : ForwardStart(f, b, t)
    <2>1. PICK b \in AliasIds, t \in Senders : ForwardStart(f, b, t)
      BY <1>3
    <2>2. /\ [alias |-> b, sender |-> t, pc |-> "select"] \in Task
          /\ alias[b].state = "live"
          /\ forward' = [forward EXCEPT ![f] = [alias |-> b, sender |-> t, pc |-> "select"]]
          /\ UNCHANGED <<accountVars, aliasVars, request, mapping, tokens, handed, faults, exempt>>
      BY <2>1 DEF ForwardStart, Live, Task
    <2>3. forward' \in [Forwards -> Task]
      BY <2>2 DEF TypeInv
    <2>4. TokenInv'
      BY <2>2 DEF TypeInv, TokenInv, TokensKeepTheirMeaning, Live, aliasVars
    <2>5. QED
      BY <1>1, <2>2, <2>3, <2>4 DEF TypeInv
  <1>4. CASE ForwardSelect(f) \/ ForwardInsert(f)
    <2>1. /\ a \in AliasIds /\ s \in Senders /\ alias[a].state # "unused" /\ <<a, s>> \in AliasIds \X Senders
          /\ forward[f] \in Task
      BY <1>4 DEF ForwardSelect, ForwardInsert, TokenInv, TypeInv
    <2>2. UNCHANGED <<accountVars, aliasVars, request, exempt>> /\ UNCHANGED alias
      BY <1>4 DEF ForwardSelect, ForwardInsert, aliasVars
    <2>3. mapping[<<a, s>>] \in Nat
      BY <2>1 DEF TypeInv
    <2>4. CASE ForwardPlain(f)
      <3>1. /\ forward' \in [Forwards -> Task]
            /\ \A g \in Forwards : forward'[g].pc # "idle" => forward'[g] = forward[g]
            /\ UNCHANGED handed
        BY <2>4, <1>2 DEF ForwardPlain, TypeInv
      <3>2. CASE UNCHANGED mapping
        <4>1. AliasesMove
          BY <3>2, <2>2 DEF AliasesMove, TypeInv
        <4>2. tokens' \in Nat /\ (UNCHANGED faults \/ Fault("db"))
          BY <1>4 DEF ForwardSelect, ForwardInsert, Succeeds, TypeInv
        <4>3. QED
          BY <1>1, <2>2, <3>1, <3>2, <4>1, <4>2, TokensMove DEF TypeInv
      <3>3. CASE ~UNCHANGED mapping
        <4> DEFINE t == TokenOnConflict(mapping[<<a, s>>], tokens + 1)
        <4>0. t \in Nat /\ (mapping[<<a, s>>] # 0 => t = mapping[<<a, s>>])
          BY <2>3 DEF TokenOnConflict, TypeInv
        <4>1. /\ tokens' = tokens + 1 /\ (UNCHANGED faults \/ Fault("db"))
              /\ mapping' = [mapping EXCEPT ![<<a, s>>] = t]
          BY <1>4, <3>3 DEF ForwardSelect, ForwardInsert, MappingOf, Succeeds
        <4> HIDE DEF t
        <4>2. /\ mapping' \in [AliasIds \X Senders -> Nat]
              /\ \A m \in AliasIds \X Senders : mapping[m] # 0 => mapping'[m] = mapping[m]
          BY <4>0, <4>1, <2>1 DEF TypeInv
        <4>3. TokenInv'
          BY <4>2, <3>1, <2>2 DEF TokenInv, TokensKeepTheirMeaning, Live
        <4>4. QED
          BY <1>1, <2>2, <3>1, <4>1, <4>2, <4>3 DEF TypeInv
      <3>4. QED
        BY <3>2, <3>3
    <2>5. ASSUME NEW t \in Nat \ {0}, ForwardWith(f, t),
                 /\ mapping' \in [AliasIds \X Senders -> Nat]
                 /\ \A m \in AliasIds \X Senders : mapping[m] # 0 => mapping'[m] = mapping[m]
                 /\ mapping'[<<a, s>>] = t
          PROVE  TokenInv' /\ forward' \in [Forwards -> Task]
      <3>1. /\ forward' \in [Forwards -> Task]
            /\ \A g \in Forwards : forward'[g].pc # "idle" => forward'[g] = forward[g]
            /\ handed' = handed \cup {<<a, s, t>>}
        BY <2>5, <1>2 DEF ForwardWith, TypeInv
      <3>2. \A h \in handed' :
              /\ h \in AliasIds \X Senders \X (Nat \ {0})
              /\ alias[h[1]].state # "unused"
              /\ Live(h[1]) => mapping'[<<h[1], h[2]>>] = h[3]
        <4> TAKE h \in handed'
        <4>1. CASE h \in handed
          BY <4>1, <2>5 DEF TokenInv, TokensKeepTheirMeaning
        <4>2. CASE h = <<a, s, t>>
          BY <4>2, <2>5, <2>1
        <4>3. QED
          BY <4>1, <4>2, <3>1
      <3>3. QED
        BY <3>1, <3>2, <2>2 DEF TokenInv, TokensKeepTheirMeaning, Live
    <2>6. CASE ForwardSelect(f) /\ ~ForwardPlain(f)
      <3>1. CASE mapping[<<a, s>>] # 0 /\ ForwardWith(f, mapping[<<a, s>>])
        <4>1. /\ UNCHANGED mapping /\ UNCHANGED tokens /\ UNCHANGED faults
          BY <2>6 DEF ForwardSelect, Succeeds, ForwardPlain
        <4>2. TokenInv' /\ forward' \in [Forwards -> Task]
          BY <3>1, <4>1, <2>3, <2>5 DEF TypeInv
        <4>3. QED
          BY <4>1, <4>2, <2>2, <1>1 DEF TypeInv
      <3>2. CASE forward' = [forward EXCEPT ![f].pc = "insert"] /\ UNCHANGED handed
        <4>1. /\ UNCHANGED mapping /\ UNCHANGED tokens /\ UNCHANGED faults
          BY <2>6 DEF ForwardSelect, Succeeds, ForwardPlain
        <4>2. /\ forward' \in [Forwards -> Task]
              /\ \A g \in Forwards : forward'[g].alias = forward[g].alias
                                       /\ forward'[g].sender = forward[g].sender
              /\ \A g \in Forwards : g # f => forward'[g] = forward[g]
          BY <3>2, <2>1 DEF TypeInv, Task
        <4>3. TokenInv'
          BY <4>1, <4>2, <3>2, <2>1, <2>2 DEF TokenInv, TokensKeepTheirMeaning, Live
        <4>4. QED
          BY <4>1, <4>2, <4>3, <2>2, <1>1 DEF TypeInv
      <3>3. QED
        BY <2>6, <3>1, <3>2 DEF ForwardSelect, MappingOf
    <2>7. CASE ForwardInsert(f) /\ ~ForwardPlain(f)
      <3> DEFINE t == TokenOnConflict(mapping[<<a, s>>], tokens + 1)
      <3>1. /\ tokens' = tokens + 1 /\ UNCHANGED faults
            /\ mapping' = [mapping EXCEPT ![<<a, s>>] = t]
            /\ ForwardWith(f, t)
        BY <2>7 DEF ForwardInsert, MappingOf, Succeeds
      <3>2. t \in Nat \ {0} /\ (mapping[<<a, s>>] # 0 => t = mapping[<<a, s>>])
        BY <2>3 DEF TokenOnConflict, TypeInv
      <3> HIDE DEF t
      <3>3. /\ mapping' \in [AliasIds \X Senders -> Nat]
            /\ \A m \in AliasIds \X Senders : mapping[m] # 0 => mapping'[m] = mapping[m]
            /\ mapping'[<<a, s>>] = t
        BY <3>1, <3>2, <2>1 DEF TypeInv
      <3>4. QED
        BY <3>1, <3>2, <3>3, <2>2, <2>5, <1>1 DEF TypeInv
    <2>8. QED
      BY <1>4, <2>4, <2>6, <2>7
  <1>5. QED
    BY <1>3, <1>4 DEF ForwardStep

-----------------------------------------------------------------------------
(* Types, requests, exemptions and tokens *)

(* Session expiry. *)
LEMMA ExpireEffect ==
  ASSUME TypeInv, NEW s \in 1..MaxLogins, Expire(s)
  PROVE  /\ store' \in [0..MaxLogins -> Session]
         /\ \A r \in 0..MaxLogins : store'[r] \in {store[r], NoSession}
         /\ UNCHANGED <<users, logins, browser, request, domains, alias, keys, mapping, tokens,
                        forward, faults, handed, exempt>>
  BY DEF TypeInv, Expire, Session, NoSession, aliasVars, forwardVars

(* A restart. *)
LEMMA RestartEffect ==
  ASSUME TypeInv, ExemptInv, Restart
  PROVE  /\ \A q \in Requests : request'[q] = Idle
         /\ request' \in [Requests -> Request]
         /\ \A f \in Forwards : forward'[f].pc = "idle"
         /\ forward' \in [Forwards -> Task]
         /\ users' \in [Users -> UserRow]
         /\ \A u \in Users : users'[u].bypass => u \in exempt
         /\ faults' \in 0..MaxFaults /\ faults' # MaxFaults
         /\ UNCHANGED <<store, logins, browser, domains, alias, keys, mapping, tokens, handed, exempt>>
  <1>1. Seeded \in UserRow /\ NoForward \in Task /\ NoForward.pc = "idle"
    BY DEF Seeded, UserRow, NoForward, Task
  <1>2. faults' \in 0..MaxFaults /\ faults' # MaxFaults
    BY FaultTypes DEF Restart, TypeInv
  <1>3. QED
    BY <1>1, <1>2, IdleRequest DEF Restart, TypeInv, ExemptInv, aliasVars

LEMMA TypeInit == Init => TypeInv /\ RequestInv /\ ExemptInv /\ TokenInv
  <1> SUFFICES ASSUME Init PROVE TypeInv /\ RequestInv /\ ExemptInv /\ TokenInv
    OBVIOUS
  <1>1. /\ Seeded \in UserRow /\ NoUser \in UserRow /\ ~NoUser.bypass
        /\ NoSession \in Session /\ NoAlias \in AliasRow
        /\ NoForward \in Task /\ NoForward.pc = "idle"
    BY DEF Seeded, NoUser, UserRow, NoSession, Session, NoAlias, AliasRow, NoForward, Task
  <1>2. NoCookies \in Cookies
    BY AccountsAssumption DEF NoCookies, Cookies
  <1>3. TypeInv
    BY <1>1, <1>2, IdleRequest, AccountsAssumption DEF Init, TypeInv
  <1>4. RequestInv
    BY IdleRequest DEF Init, RequestInv
  <1>5. ExemptInv
    BY <1>1 DEF Init, ExemptInv
  <1>6. TokenInv
    BY <1>1 DEF Init, TokenInv, TokensKeepTheirMeaning
  <1>7. QED
    BY <1>3, <1>4, <1>5, <1>6

LEMMA TypeStep ==
  ASSUME TypeInv, RequestInv, ExemptInv, TokenInv, Next
  PROVE  /\ TypeInv' /\ RequestInv' /\ ExemptInv' /\ TokenInv'
         /\ faults' = MaxFaults => faults' = faults
         /\ exempt \subseteq exempt'
  <1>1. CASE \E q \in Requests : RequestStep(q)
    <2>1. PICK q \in Requests : RequestStep(q)
      BY <1>1
    <2>2. browser' \in [Browsers -> Cookies]
      BY <2>1, RequestFrame, RespondEffect
    <2>3. TypeInv'
      BY <2>1, <2>2, RequestFrame, RequestEffect DEF TypeInv, AliasesMove
    <2>4. RequestInv'
      BY <2>1, RequestEffect DEF RequestInv, Others
    <2>5. ExemptInv' /\ exempt \subseteq exempt'
      BY <2>1, RequestFrame DEF ExemptInv
    <2>6. TokenInv'
      BY <2>1, RequestFrame, TokensMove
    <2>7. QED
      BY <2>1, <2>3, <2>4, <2>5, <2>6, RequestFrame
  <1>2. CASE \E f \in Forwards : ForwardStep(f)
    <2>1. PICK f \in Forwards : ForwardStep(f)
      BY <1>2
    <2>2. UNCHANGED <<users, store, logins, browser, request, alias, keys, exempt>>
      BY <2>1, ForwardEffect DEF accountVars, aliasVars
    <2>3. TypeInv'
      BY <2>1, <2>2, ForwardEffect DEF TypeInv
    <2>4. RequestInv' /\ ExemptInv'
      BY <2>2 DEF RequestInv, ExemptInv
    <2>5. QED
      BY <2>1, <2>2, <2>3, <2>4, ForwardEffect
  <1>3. CASE \E s \in 1..MaxLogins : Expire(s)
    <2>1. PICK s \in 1..MaxLogins : Expire(s)
      BY <1>3
    <2>2. TypeInv'
      BY <2>1, ExpireEffect DEF TypeInv
    <2>3. UNCHANGED <<users, request, alias, mapping, forward, handed, exempt, faults>>
      BY <2>1, ExpireEffect
    <2>4. QED
      BY <2>2, <2>3 DEF RequestInv, ExemptInv, TokenInv, TokensKeepTheirMeaning, Live
  <1>4. CASE Restart
    <2>1. TypeInv'
      BY <1>4, RestartEffect DEF TypeInv
    <2>2. RequestInv' /\ ExemptInv'
      BY <1>4, RestartEffect, IdleRequest DEF RequestInv, ExemptInv
    <2>3. TokenInv'
      BY <1>4, RestartEffect DEF TokenInv, TokensKeepTheirMeaning, Live
    <2>4. QED
      BY <1>4, <2>1, <2>2, <2>3, RestartEffect
  <1>5. QED
    BY <1>1, <1>2, <1>3, <1>4 DEF Next

-----------------------------------------------------------------------------
(* Sessions *)

(* A step that adds no carrier of a session id and acts for nobody new. *)
LEMMA AgreementKept ==
  ASSUME NEW owner, Agrees(owner), ActsForItsSender, NoFault, logins' = logins,
         \A s \in 0..MaxLogins : store'[s] \in {store[s], NoSession},
         \A b \in Browsers :
           browser'[b].user # None =>
             \/ browser'[b].sid = browser[b].sid /\ browser'[b].user = browser[b].user
             \/ \E q \in Requests :
                  /\ request[q].pc = "respond" /\ request[q].op = "login"
                  /\ browser'[b].sid = request[q].sid /\ browser'[b].user = request[q].user,
         \A q \in Requests :
           \/ request'[q] = request[q]
           \/ /\ ~(request'[q].pc = "respond" /\ request'[q].op = "login")
              /\ request'[q].pc = "session" =>
                   \E b \in Browsers : /\ request'[q].sid = browser[b].sid
                                       /\ request'[q].sender = browser[b].user /\ browser[b].user # None
              /\ \/ request'[q].sender = None \/ request'[q].user = None
                 \/ request'[q].user = request'[q].sender
                 \/ request'[q].user = request[q].user /\ request'[q].sender = request[q].sender
                 \/ /\ request[q].pc = "session" /\ store[request[q].sid] # NoSession
                    /\ request[q].sid \in 0..MaxLogins
                    /\ request'[q].sender = request[q].sender
                    /\ request'[q].user = store[request[q].sid].user
  PROVE  Agrees(owner)' /\ (NoFault' => ActsForItsSender')
  BY DEF Agrees, ActsForItsSender

(* A step of a request, other than establish_session, that no fault hits. *)
LEMMA RequestAgrees ==
  ASSUME TypeInv, RequestInv, NEW owner, Agrees(owner), ActsForItsSender, NoFault, NoFault',
         NEW q \in Requests, RequestStep(q), ~Establish(q)
  PROVE  Agrees(owner)' /\ ActsForItsSender'
  <1> USE DEF Places, accountVars
  <1>0. /\ request[q] \in Request /\ PlaceOf(request[q]) /\ request[q].sid \in 0..MaxLogins
        /\ Others(q)
    BY RequestEffect DEF TypeInv, RequestInv, Request
  <1>1. CASE \E b \in Browsers, u \in Users : SendLogin(q, b, u)
    <2>1. PICK b \in Browsers, u \in Users : SendLogin(q, b, u)
      BY <1>1
    <2> DEFINE r == [Idle EXCEPT !.op = "login", !.browser = b, !.sid = browser[b].sid, !.user = u,
                                 !.pc = "user"]
    <2>2. r \in Request /\ r.pc = "user" /\ r.sender = None /\ request' = [request EXCEPT ![q] = r]
      BY <2>1, LoginRequest DEF SendLogin
    <2> HIDE DEF r
    <2>3. /\ request'[q].pc = "user" /\ request'[q].sender = None
          /\ UNCHANGED <<logins, store, browser>>
      BY <2>1, <2>2, Fills DEF SendLogin
    <2>4. QED
      BY <2>3, <1>0, AgreementKept DEF Others
  <1>2. CASE \E b \in Browsers, o \in Operations : SendRequest(q, b, o)
    <2>1. PICK b \in Browsers, o \in Operations : SendRequest(q, b, o)
      BY <1>2
    <2> DEFINE r == [Idle EXCEPT !.op = o.op, !.arg = o.arg, !.browser = b, !.sid = browser[b].sid,
                       !.token = browser[b].token, !.sender = browser[b].user, !.pc = "session"]
    <2>2. /\ r \in Request /\ r.pc = "session" /\ r.user = None /\ r.sid = browser[b].sid
          /\ r.sender = browser[b].user /\ request' = [request EXCEPT ![q] = r]
      BY <2>1, SentRequest DEF SendRequest
    <2> HIDE DEF r
    <2>3. /\ request'[q].pc = "session" /\ request'[q].user = None /\ request'[q].sid = browser[b].sid
          /\ request'[q].sender = browser[b].user /\ browser[b].user # None
          /\ UNCHANGED <<logins, store, browser>>
      BY <2>1, <2>2, Fills DEF SendRequest
    <2>4. QED
      BY <2>3, <1>0, AgreementKept DEF Others
  <1>3. CASE \E k \in Keys, arg \in AliasIds \X BOOLEAN : SendApiRequest(q, k, arg)
    <2>1. PICK k \in Keys, arg \in AliasIds \X BOOLEAN : SendApiRequest(q, k, arg)
      BY <1>3
    <2> DEFINE r == [Idle EXCEPT !.op = "set_forward", !.arg = arg, !.user = keys[k],
                                 !.sender = keys[k], !.pc = "execute"]
    <2>2. r \in Request /\ r.pc = "execute" /\ r.user = r.sender /\ request' = [request EXCEPT ![q] = r]
      BY <2>1, ApiRequest DEF SendApiRequest
    <2> HIDE DEF r
    <2>3. /\ request'[q].pc = "execute" /\ request'[q].user = request'[q].sender
          /\ UNCHANGED <<logins, store, browser>>
      BY <2>1, <2>2, Fills DEF SendApiRequest
    <2>4. QED
      BY <2>3, <1>0, AgreementKept DEF Others
  <1>4. CASE FindUser(q) /\ ~End(q)
    <2>1. request[q].pc = "user" /\ GoTo(q, "establish") /\ UNCHANGED <<logins, store, browser>>
      BY <1>4 DEF FindUser, At
    <2>2. /\ request'[q].pc = "establish" /\ request'[q].sender = request[q].sender
          /\ request'[q].user = request[q].user
      BY <2>1, Goes
    <2>3. QED
      BY <2>1, <2>2, <1>0, AgreementKept DEF Others
  <1>5. CASE CheckSession(q) \/ LoadUser(q) \/ CheckLimit(q) \/ CheckAvailable(q)
    <2>1. UNCHANGED <<logins, store, browser>>
      BY <1>5 DEF CheckSession, LoadUser, CheckLimit, CheckAvailable
    <2>2. /\ request'[q].pc \notin {"respond", "session"}
          /\ \/ request'[q].sender = None
             \/ request'[q].user = request[q].user /\ request'[q].sender = request[q].sender
             \/ /\ request[q].pc = "session" /\ store[request[q].sid] # NoSession
                /\ request'[q].sender = request[q].sender
                /\ request'[q].user = store[request[q].sid].user
      BY <1>5, CheckedRequest DEF Idle
    <2>3. QED
      BY <2>1, <2>2, <1>0, AgreementKept DEF Others
  <1>6. CASE Logout(q)
    <2>1. /\ request[q].op = "logout" /\ GoTo(q, "respond") /\ UNCHANGED <<logins, browser>>
          /\ \A s \in 0..MaxLogins : store'[s] \in {store[s], NoSession}
      BY <1>6 DEF Logout, TypeInv
    <2>2. /\ request'[q].pc = "respond" /\ request'[q].op = "logout"
          /\ request'[q].sender = request[q].sender /\ request'[q].user = request[q].user
      BY <2>1, Goes
    <2>3. QED
      BY <2>1, <2>2, <1>0, AgreementKept DEF Others
  <1>7. CASE Respond(q)
    <2>1. request[q].pc = "respond" /\ UNCHANGED <<logins, store>> /\ request'[q] = Idle
      BY <1>7, Ends DEF Respond, At
    <2>2. Idle.pc = "idle" /\ Idle.sender = None
      BY DEF Idle
    <2>3. QED
      BY <1>7, <2>1, <2>2, <1>0, RespondEffect, AgreementKept DEF Others
  <1>8. CASE End(q) /\ UNCHANGED <<logins, store, browser>>
    <2>1. request'[q].pc = "idle" /\ request'[q].sender = None
      BY <1>8, Ends DEF Idle
    <2>2. QED
      BY <1>8, <2>1, <1>0, AgreementKept DEF Others
  <1>9. (FindUser(q) /\ End(q)) \/ InsertAlias(q) \/ Execute(q) => End(q) /\ UNCHANGED <<logins, store, browser>>
    BY DEF FindUser, InsertAlias, Execute
  <1>10. QED
    BY <1>1, <1>2, <1>3, <1>4, <1>5, <1>6, <1>7, <1>8, <1>9 DEF RequestStep

(* establish_session gives its user an id that nobody carries. *)
LEMMA EstablishAgrees ==
  ASSUME TypeInv, RequestInv, NEW owner \in [1..MaxLogins -> Users], Agrees(owner),
         ActsForItsSender, NoFault, NoFault', NEW q \in Requests, Establish(q)
  PROVE  ActsForItsSender' /\ \E next \in [1..MaxLogins -> Users] : Agrees(next)'
  <1> DEFINE u == request[q].user
  <1>0. faults' = faults /\ UNCHANGED browser /\ logins \in Nat
    BY DEF NoFault, TypeInv, Establish
  <1>1. /\ logins \in Nat /\ logins' = logins + 1 /\ logins' \in 1..MaxLogins /\ u \in Users
        /\ Others(q) /\ faults' = faults
        /\ request'[q] = Idle \/ (request'[q].user = u /\ request'[q].sender = None)
        /\ request'[q].pc # "session"
        /\ request'[q].sid = logins'
        /\ \A s \in 0..MaxLogins : s # logins' => store'[s] \in {store[s], NoSession}
        /\ store'[logins'].user = u
        /\ UNCHANGED browser
    BY <1>0, Established
  <1>2. PICK next \in [1..MaxLogins -> Users] :
          next[logins'] = u /\ \A s \in 1..logins : next[s] = owner[s]
    <2>1. /\ [owner EXCEPT ![logins'] = u] \in [1..MaxLogins -> Users]
          /\ [owner EXCEPT ![logins'] = u][logins'] = u
          /\ \A s \in 1..logins : [owner EXCEPT ![logins'] = u][s] = owner[s]
      BY <1>1
    <2>2. QED
      BY <2>1
  <1>3. Idle.pc = "idle" /\ Idle.sender = None
    BY DEF Idle
  <1> HIDE DEF u
  <1>4. \A s \in 0..MaxLogins : store'[s] # NoSession => s \in 1..logins' /\ store'[s].user = next[s]
    BY <1>1, <1>2 DEF Agrees
  <1>5. \A b \in Browsers : browser'[b].user # None =>
          browser'[b].sid \in 1..logins' /\ browser'[b].user = next[browser'[b].sid]
    BY <1>1, <1>2 DEF Agrees
  <1>6. \A k \in Requests :
          /\ request'[k].pc = "respond" /\ request'[k].op = "login" =>
               request'[k].sid \in 1..logins' /\ request'[k].user = next[request'[k].sid]
          /\ request'[k].pc = "session" =>
               request'[k].sid \in 1..logins' /\ request'[k].sender = next[request'[k].sid]
    <2> TAKE k \in Requests
    <2>1. CASE k = q
      BY <2>1, <1>1, <1>2, <1>3
    <2>2. CASE k # q
      BY <2>2, <1>1, <1>2 DEF Agrees, Others
    <2>3. QED
      BY <2>1, <2>2
  <1>7. Agrees(next)'
    BY <1>4, <1>5, <1>6 DEF Agrees
  <1>8. ActsForItsSender'
    <2>1. \A k \in Requests : request'[k].sender # None /\ request'[k].user # None =>
                                 request'[k].user = request'[k].sender
      BY <1>1, <1>3 DEF ActsForItsSender, Others
    <2>2. QED
      BY <2>1 DEF ActsForItsSender
  <1>9. QED
    BY <1>2, <1>7, <1>8

LEMMA SessionStep ==
  ASSUME TypeInv, RequestInv, SessionInv, ExemptInv, TokenInv, Next
  PROVE  SessionInv'
  <1> SUFFICES ASSUME NoFault'
               PROVE  ActsForItsSender' /\ \E next \in [1..MaxLogins -> Users] : Agrees(next)'
    BY DEF SessionInv
  <1>1. NoFault
    BY TypeStep DEF NoFault
  <1>2. PICK owner \in [1..MaxLogins -> Users] : Agrees(owner)
    BY <1>1 DEF SessionInv
  <1>3. ActsForItsSender
    BY <1>1 DEF SessionInv
  <1>4. CASE \E q \in Requests : RequestStep(q)
    BY <1>1, <1>2, <1>3, <1>4, RequestAgrees, EstablishAgrees
  <1>5. CASE \E f \in Forwards : ForwardStep(f)
    <2>1. UNCHANGED <<store, logins, browser, request>>
      BY <1>5, ForwardEffect DEF accountVars
    <2>2. Agrees(owner)' /\ ActsForItsSender'
      BY <2>1, <1>1, <1>2, <1>3 DEF Agrees, ActsForItsSender
    <2>3. QED
      BY <2>2, <1>2
  <1>6. CASE \E s \in 1..MaxLogins : Expire(s)
    <2>1. /\ UNCHANGED <<logins, browser, request>>
          /\ \A r \in 0..MaxLogins : store'[r] \in {store[r], NoSession}
      BY <1>6, ExpireEffect
    <2>2. Agrees(owner)' /\ ActsForItsSender'
      BY <2>1, <1>1, <1>2, <1>3 DEF Agrees, ActsForItsSender
    <2>3. QED
      BY <2>2, <1>2
  <1>7. CASE Restart
    <2>1. ~NoFault'
      BY <1>7, RestartEffect DEF NoFault
    <2>2. QED
      BY <2>1
  <1>8. QED
    BY <1>4, <1>5, <1>6, <1>7 DEF Next

LEMMA SessionInit == Init => SessionInv
  <1> SUFFICES ASSUME Init PROVE SessionInv
    OBVIOUS
  <1>1. Idle.sender = None /\ Idle.pc = "idle" /\ NoCookies.user = None
    BY DEF Idle, NoCookies
  <1>2. [s \in 1..MaxLogins |-> Admin] \in [1..MaxLogins -> Users]
    BY AccountsAssumption
  <1>3. \A owner : Agrees(owner)
    BY <1>1 DEF Init, Agrees
  <1>4. ActsForItsSender
    BY <1>1 DEF Init, ActsForItsSender
  <1>5. QED
    BY <1>2, <1>3, <1>4 DEF SessionInv

-----------------------------------------------------------------------------
(* The limit of aliases *)

Bounded(u) == Cardinality(AliasesOf(u)) + Cardinality(Creating(u)) < MaxAliases + Cardinality(Requests)

(* The counts are numbers. *)
LEMMA Counts ==
  ASSUME NEW u
  PROVE  /\ IsFiniteSet(AliasesOf(u)) /\ IsFiniteSet(Creating(u))
         /\ Cardinality(AliasesOf(u)) \in Nat /\ Cardinality(Creating(u)) \in Nat
         /\ Cardinality(Requests) \in Nat /\ Cardinality(Requests) > 0
         /\ Cardinality(Creating(u)) <= Cardinality(Requests)
         /\ MaxAliases \in Nat
  <1>1. AliasesOf(u) \subseteq AliasIds /\ Creating(u) \subseteq Requests
    BY DEF AliasesOf, Creating
  <1>2. IsFiniteSet(AliasIds) /\ IsFiniteSet(Requests) /\ Requests # {} /\ MaxAliases \in Nat
    BY AccountsAssumption
  <1>3. IsFiniteSet(AliasesOf(u)) /\ IsFiniteSet(Creating(u))
        /\ Cardinality(Creating(u)) <= Cardinality(Requests)
    BY <1>1, <1>2, FS_Subset
  <1>4. Cardinality(Requests) \in Nat /\ Cardinality(Requests) # 0
    BY <1>2, FS_CardinalityType, FS_EmptySet
  <1>5. QED
    BY <1>2, <1>3, <1>4, FS_CardinalityType

(* The same after a step. *)
LEMMA CountsNext ==
  ASSUME NEW u
  PROVE  /\ IsFiniteSet(AliasesOf(u)') /\ IsFiniteSet(Creating(u)')
         /\ Cardinality(AliasesOf(u)') \in Nat /\ Cardinality(Creating(u)') \in Nat
         /\ Cardinality(Creating(u)') <= Cardinality(Requests)
  <1>1. AliasesOf(u)' \subseteq AliasIds /\ Creating(u)' \subseteq Requests
    BY DEF AliasesOf, Creating
  <1>2. IsFiniteSet(AliasIds) /\ IsFiniteSet(Requests)
    BY AccountsAssumption
  <1>3. IsFiniteSet(AliasesOf(u)') /\ IsFiniteSet(Creating(u)')
        /\ Cardinality(Creating(u)') <= Cardinality(Requests)
    BY <1>1, <1>2, FS_Subset
  <1>4. QED
    BY <1>3, FS_CardinalityType

(* Fewer aliases and fewer requests keep the bound. *)
LEMMA LimitShrinks ==
  ASSUME NEW u, Bounded(u), AliasesOf(u)' \subseteq AliasesOf(u), Creating(u)' \subseteq Creating(u)
  PROVE  Bounded(u)'
  <1>1. /\ Cardinality(AliasesOf(u)') <= Cardinality(AliasesOf(u))
        /\ Cardinality(Creating(u)') <= Cardinality(Creating(u))
    BY Counts, FS_Subset
  <1>2. QED
    BY <1>1, Counts, CountsNext DEF Bounded

(* A count below the limit makes room for every request that can be at work. *)
LEMMA LimitFound ==
  ASSUME NEW u, BelowLimit(u), AliasesOf(u)' \subseteq AliasesOf(u)
  PROVE  Bounded(u)'
  <1>1. Cardinality(AliasesOf(u)') <= Cardinality(AliasesOf(u))
    BY Counts, FS_Subset
  <1>2. QED
    BY <1>1, Counts, CountsNext DEF Bounded, BelowLimit

(* The request that inserts an alias was counted among those at work. *)
LEMMA LimitUsed ==
  ASSUME NEW u, Bounded(u), NEW a, AliasesOf(u)' \subseteq AliasesOf(u) \cup {a},
         NEW q \in Creating(u), Creating(u)' \subseteq Creating(u) \ {q}
  PROVE  Bounded(u)'
  <1>0. IsFiniteSet(AliasesOf(u)) /\ Cardinality(AliasesOf(u)) \in Nat
    BY Counts
  <1>1. /\ Cardinality(AliasesOf(u) \cup {a}) <= Cardinality(AliasesOf(u)) + 1
        /\ IsFiniteSet(AliasesOf(u) \cup {a})
    <2>1. /\ IsFiniteSet(AliasesOf(u) \cup {a})
          /\ Cardinality(AliasesOf(u) \cup {a}) =
               IF a \in AliasesOf(u) THEN Cardinality(AliasesOf(u)) ELSE Cardinality(AliasesOf(u)) + 1
      BY <1>0, FS_AddElement
    <2>2. QED
      BY <2>1, <1>0
  <1>2. Cardinality(AliasesOf(u)') <= Cardinality(AliasesOf(u)) + 1
    BY <1>1, Counts, CountsNext, FS_Subset, FS_CardinalityType
  <1>3. /\ Cardinality(Creating(u) \ {q}) = Cardinality(Creating(u)) - 1
        /\ IsFiniteSet(Creating(u) \ {q})
    BY Counts, FS_RemoveElement
  <1>4. Cardinality(Creating(u)') <= Cardinality(Creating(u)) - 1
    BY <1>3, FS_Subset
  <1>5. QED
    BY <1>2, <1>4, Counts, CountsNext DEF Bounded

LEMMA LimitInit == Init => AliasLimit
  <1> SUFFICES ASSUME Init, NEW u \in Users PROVE Bounded(u)
    BY DEF AliasLimit, Bounded
  <1>1. NoAlias.state = "unused" /\ Idle.op = "idle"
    BY DEF NoAlias, Idle
  <1>2. AliasesOf(u) = {} /\ Creating(u) = {}
    BY <1>1 DEF Init, AliasesOf, Live, Creating
  <1>3. QED
    BY <1>2, Counts, FS_EmptySet DEF Bounded

(* The limit through the steps of a request, for a user who never could bypass it. *)
LEMMA RequestLimit ==
  ASSUME TypeInv, RequestInv, ExemptInv, NEW u \in Users, u \notin exempt, Bounded(u),
         NoFault, NoFault', NEW q \in Requests, RequestStep(q)
  PROVE  Bounded(u)'
  <1> USE DEF Places, aliasVars
  <1>0. Others(q) /\ request[q] \in Request /\ ~Fault("db")
    BY RequestEffect, FaultTypes DEF TypeInv, NoFault
  <1> DEFINE Past(r) == r.user = u /\ r.op = "create" /\ r.pc \in {"available", "insert"}
  <1>1. (Past(request'[q]) => Past(request[q])) => Creating(u)' \subseteq Creating(u)
    BY <1>0 DEF Creating, Others
  <1>2. UNCHANGED alias => AliasesOf(u)' \subseteq AliasesOf(u)
    BY DEF AliasesOf, Live
  <1>3. End(q) => Creating(u)' \subseteq Creating(u)
    <2>1. Idle.op = "idle"
      BY DEF Idle
    <2>2. QED
      BY <1>1, <2>1, Ends
  <1>4. CASE \/ \E b \in Browsers, v \in Users : SendLogin(q, b, v)
             \/ \E b \in Browsers, o \in Operations : SendRequest(q, b, o)
             \/ \E k \in Keys, arg \in AliasIds \X BOOLEAN : SendApiRequest(q, k, arg)
    <2>1. request'[q].pc \in {"user", "session", "execute"}
      <3>1. q \in DOMAIN request
        BY DEF TypeInv
      <3>2. CASE \E b \in Browsers, v \in Users : SendLogin(q, b, v)
        BY <3>1, <3>2 DEF SendLogin, Idle
      <3>3. CASE \E b \in Browsers, o \in Operations : SendRequest(q, b, o)
        BY <3>1, <3>3 DEF SendRequest, Idle
      <3>4. CASE \E k \in Keys, arg \in AliasIds \X BOOLEAN : SendApiRequest(q, k, arg)
        BY <3>1, <3>4 DEF SendApiRequest, Idle
      <3>5. QED
        BY <1>4, <3>2, <3>3, <3>4
    <2>2. UNCHANGED alias
      BY <1>4 DEF SendLogin, SendRequest, SendApiRequest
    <2>3. QED
      BY <1>1, <1>2, <2>1, <2>2, LimitShrinks
  <1>5. CASE FindUser(q) \/ Logout(q)
    <2>1. End(q) \/ GoTo(q, "establish") \/ GoTo(q, "respond")
      BY <1>5 DEF FindUser, Logout
    <2>2. UNCHANGED alias
      BY <1>5 DEF FindUser, Logout
    <2>3. Creating(u)' \subseteq Creating(u)
      BY <1>1, <1>3, <2>1, Goes
    <2>4. QED
      BY <1>2, <2>2, <2>3, LimitShrinks
  <1>6. CASE Establish(q)
    <2>1. PlaceOf(request'[q]) /\ request[q].op = "login" /\ UNCHANGED alias
      BY <1>6, Established DEF Establish, RequestInv, PlaceOf, At
    <2>2. request'[q].op \in {"idle", "login"}
      BY <1>6, <2>1, <1>0 DEF Establish, End, Idle, TypeInv, Request
    <2>3. QED
      BY <1>1, <1>2, <2>1, <2>2, LimitShrinks
  <1>7. CASE Respond(q)
    BY <1>2, <1>3, <1>7, LimitShrinks DEF Respond
  <1>8. CASE CheckSession(q)
    <2>1. UNCHANGED alias /\ (End(q) \/ request'[q].pc = "permissions")
      BY <1>8 DEF CheckSession, TypeInv, Request
    <2>2. QED
      BY <1>1, <1>2, <1>3, <2>1, LimitShrinks
  <1>9. CASE LoadUser(q)
    <2>1. UNCHANGED alias
      BY <1>9 DEF LoadUser
    <2>2. CASE End(q)
      BY <2>1, <2>2, <1>2, <1>3, LimitShrinks
    <2>3. CASE ~End(q)
      <3>1. GoTo(q, CASE request[q].op # "create" -> "execute"
                      [] request[q].op = "create" /\ CanBypass(request[q].user) -> "available"
                      [] OTHER -> "limit")
        BY <1>9, <2>3 DEF LoadUser
      <3>2. request[q].op = "create" /\ CanBypass(request[q].user) => GoTo(q, "available")
        BY <3>1
      <3>3. request[q].op # "create" => GoTo(q, "execute")
        BY <3>1
      <3>4. request[q].op = "create" /\ ~CanBypass(request[q].user) => GoTo(q, "limit")
        BY <3>1
      <3>5. CanBypass(request[q].user) => request[q].user # u
        BY DEF CanBypass, ExemptInv
      <3>6. Creating(u)' \subseteq Creating(u)
        BY <1>1, <3>2, <3>3, <3>4, <3>5, Goes
      <3>7. QED
        BY <2>1, <3>6, <1>2, LimitShrinks
    <2>4. QED
      BY <2>2, <2>3
  <1>10. CASE CheckLimit(q)
    <2>1. UNCHANGED alias /\ (End(q) \/ (BelowLimit(request[q].user) /\ GoTo(q, "available")))
      BY <1>0, <1>10 DEF CheckLimit
    <2>2. CASE request[q].user = u /\ BelowLimit(u)
      BY <2>1, <2>2, <1>2, LimitFound
    <2>3. CASE ~(request[q].user = u /\ BelowLimit(u))
      <3>1. Creating(u)' \subseteq Creating(u)
        BY <2>1, <2>3, <1>1, <1>3, Goes
      <3>2. QED
        BY <2>1, <3>1, <1>2, LimitShrinks
    <2>4. QED
      BY <2>2, <2>3
  <1>11. CASE CheckAvailable(q)
    <2>1. UNCHANGED alias /\ request[q].pc = "available" /\ (End(q) \/ GoTo(q, "insert"))
      BY <1>11 DEF CheckAvailable, At
    <2>2. Creating(u)' \subseteq Creating(u)
      BY <2>1, <1>1, <1>3, Goes
    <2>3. QED
      BY <2>1, <2>2, <1>2, LimitShrinks
  <1>12. CASE InsertAlias(q)
    <2>1. End(q) /\ Creating(u)' \subseteq Creating(u) \ {q}
      <3>1. Idle.op = "idle" /\ request'[q] = Idle
        BY <1>12, InsertEffect DEF Idle
      <3>2. q \notin Creating(u)'
        BY <3>1 DEF Creating
      <3>3. QED
        BY <1>3, <1>12, <3>2 DEF InsertAlias
    <2>2. request[q].user = u => q \in Creating(u)
      BY <1>12, InsertEffect DEF Creating
    <2>3. CASE UNCHANGED alias
      BY <2>1, <2>3, <1>2, LimitShrinks
    <2>4. CASE ~UNCHANGED alias
      <3>1. PICK a \in AliasIds :
              /\ alias'[a].user = request[q].user
              /\ \A b \in AliasIds : b # a => alias'[b] = alias[b]
        BY <1>12, <2>4, InsertEffect
      <3>2. AliasesOf(u)' \subseteq AliasesOf(u) \cup {a}
        BY <3>1 DEF AliasesOf, Live
      <3>3. request[q].user # u => AliasesOf(u)' \subseteq AliasesOf(u)
        BY <3>1 DEF AliasesOf, Live
      <3>4. QED
        BY <2>1, <2>2, <3>2, <3>3, LimitShrinks, LimitUsed
    <2>5. QED
      BY <2>3, <2>4
  <1>13. CASE Execute(q)
    <2>1. Applied(q) \/ UNCHANGED alias
      BY <1>13 DEF Execute
    <2>2. AliasesOf(u)' \subseteq AliasesOf(u)
      BY <2>1, <1>2, AppliedEffect
    <2>3. QED
      BY <1>3, <1>13, <2>2, LimitShrinks DEF Execute
  <1>14. QED
    BY <1>4, <1>5, <1>6, <1>7, <1>8, <1>9, <1>10, <1>11, <1>12, <1>13 DEF RequestStep

LEMMA LimitStep ==
  ASSUME TypeInv, RequestInv, ExemptInv, TokenInv, AliasLimit, Next
  PROVE  AliasLimit'
  <1> SUFFICES ASSUME NoFault', NEW u \in Users, u \notin exempt' PROVE Bounded(u)'
    BY DEF AliasLimit, Bounded
  <1>1. NoFault /\ u \notin exempt
    BY TypeStep DEF NoFault
  <1>2. Bounded(u)
    BY <1>1 DEF AliasLimit, Bounded
  <1>3. UNCHANGED <<alias, request>> => Bounded(u)'
    <2>1. UNCHANGED <<alias, request>> => AliasesOf(u)' \subseteq AliasesOf(u) /\ Creating(u)' \subseteq Creating(u)
      BY DEF AliasesOf, Live, Creating
    <2>2. QED
      BY <1>2, <2>1, LimitShrinks
  <1>4. CASE \E q \in Requests : RequestStep(q)
    BY <1>1, <1>2, <1>4, RequestLimit
  <1>5. CASE \E f \in Forwards : ForwardStep(f)
    BY <1>3, <1>5, ForwardEffect DEF aliasVars
  <1>6. CASE \E s \in 1..MaxLogins : Expire(s)
    BY <1>3, <1>6, ExpireEffect
  <1>7. CASE Restart
    <2>1. ~NoFault'
      BY <1>7, RestartEffect DEF NoFault
    <2>2. QED
      BY <2>1
  <1>8. QED
    BY <1>4, <1>5, <1>6, <1>7 DEF Next

-----------------------------------------------------------------------------
(* IndInv and the limit hold in every state the program can be in. *)
THEOREM Invariance == Spec => [](IndInv /\ AliasLimit)
  <1>1. Init => IndInv /\ AliasLimit
    BY TypeInit, SessionInit, LimitInit DEF IndInv
  <1>2. IndInv /\ AliasLimit /\ Next => (IndInv /\ AliasLimit)'
    BY TypeStep, SessionStep, LimitStep DEF IndInv
  <1>3. IndInv /\ AliasLimit /\ UNCHANGED vars => (IndInv /\ AliasLimit)'
    <2>1. UNCHANGED vars => (TypeInv = TypeInv') /\ (RequestInv = RequestInv') /\ (ExemptInv = ExemptInv')
      BY DEF vars, TypeInv, RequestInv, ExemptInv
    <2>2. UNCHANGED vars => (SessionInv = SessionInv')
      BY DEF vars, SessionInv, Agrees, ActsForItsSender, NoFault
    <2>3. UNCHANGED vars => (TokenInv = TokenInv')
      BY DEF vars, TokenInv, TokensKeepTheirMeaning, Live
    <2>4. UNCHANGED vars => (AliasLimit = AliasLimit')
      BY DEF vars, AliasLimit, AliasesOf, Live, Creating, NoFault
    <2>5. QED
      BY <2>1, <2>2, <2>3, <2>4 DEF IndInv
  <1>4. QED
    BY <1>1, <1>2, <1>3, PTL DEF Spec

(* Without a fault, a request that has been authenticated acts for the user who was logged
   in to the browser that sent it, whatever logins, logouts and expiries come between. *)
THEOREM RequestsActForTheirSender == Spec => []ActsForItsSender
  <1>1. IndInv => ActsForItsSender
    BY DEF IndInv, SessionInv, ActsForItsSender
  <1>2. QED
    BY <1>1, Invariance, PTL

(* Without a fault, requests at work together exceed the limit of aliases by less than
   their number. *)
THEOREM AliasesAreLimited == Spec => []AliasLimit
  BY Invariance, PTL

(* A reply token that mail was forwarded with keeps its alias and its sender for as long
   as the alias lives, through every race of two tasks, failure and restart. *)
THEOREM TokensAreStable == Spec => []TokensKeepTheirMeaning
  <1>1. IndInv => TokensKeepTheirMeaning
    BY DEF IndInv, TokenInv
  <1>2. QED
    BY <1>1, Invariance, PTL
=============================================================================
