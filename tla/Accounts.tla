------------------------------ MODULE Accounts ------------------------------
(* Users, browser sessions with their CSRF tokens, permissions, API keys, domains,
   aliases with their limit, and the reply mappings of forwarded mail.

   A request carries the cookies its browser had when it was sent, is authenticated
   against the session store, loads its user's permissions and then runs its handler; a
   step ends at an await.  Responses reach the browser in any order.  A login gets a
   number that stands for its session id and for its CSRF token.  Passwords, pages and
   the audit log are left out. *)
EXTENDS Naturals, FiniteSets

CONSTANTS
  Users, Admin,           \* email addresses; the one of ADMIN_EMAIL
  Browsers, Requests, Forwards,  \* browsers, slots for requests and for forwarding tasks
  AliasIds, Names, Reserved, Domains, Senders, Keys,  \* Reserved: names only for the administrator
  MaxAliases,             \* MAX_ALIASES_PER_USER
  MaxLogins, MaxUses,     \* bounds on logins and on requests and forwards
  FaultKinds, MaxFaults,  \* of {"db", "crash"}, and how many of them
  None

ASSUME AccountsAssumption ==
  /\ Admin \in Users
  /\ Reserved \subseteq Names
  /\ IsFiniteSet(AliasIds) /\ IsFiniteSet(Requests) /\ Requests # {}
  /\ MaxAliases \in Nat /\ MaxLogins \in Nat /\ MaxUses \in Nat /\ MaxFaults \in Nat
  /\ FaultKinds \subseteq {"db", "crash"}

VARIABLES
  users,      \* rows of users: the permissions that an administrator can switch
  store,      \* the session store: user and token of a session
  logins,     \* numbers given to logins so far
  browser,    \* session cookie, csrf_token cookie, and who is logged in (history)
  request,    \* the requests at work
  domains,    \* rows of domains: "unused", "live" or "gone"
  alias,      \* rows of aliases
  keys,       \* api_keys: the user of a key
  mapping,    \* reply_mappings: the token of an alias and a sender
  tokens,     \* tokens generated so far
  forward,    \* tasks that look for or create a mapping
  uses, faults,
  handed,     \* history: tokens that forwarded mail was sent with
  exempt      \* history: users that could bypass the limit at some time

vars == <<users, store, logins, browser, request, domains, alias, keys, mapping, tokens,
          forward, uses, faults, handed, exempt>>

NoUser == [exists |-> FALSE, bypass |-> FALSE, firsthand |-> FALSE]
NewUser == [NoUser EXCEPT !.exists = TRUE]
Seeded == [exists |-> TRUE, bypass |-> TRUE, firsthand |-> TRUE]
NoSession == [user |-> None, token |-> 0]
NoCookies == [sid |-> 0, token |-> 0, user |-> None]
NoAlias == [state |-> "unused", user |-> None, domain |-> None, name |-> None, forward |-> FALSE]
NoForward == [alias |-> None, sender |-> None, pc |-> "idle"]
Idle == [op |-> "idle", arg |-> None, browser |-> None, sid |-> 0, token |-> 0, sender |-> None,
         pc |-> "idle", user |-> None]

Fault(kind) == kind \in FaultKinds /\ faults > 0 /\ faults' = faults - 1
Succeeds == UNCHANGED faults
Use == uses > 0 /\ uses' = uses - 1

Live(a) == alias[a].state = "live"
DomainLive(d) == domains[d] = "live"
AliasesOf(u) == {a \in AliasIds : Live(a) /\ alias[a].user = u}
Taken(d, n) == \E a \in AliasIds : Live(a) /\ alias[a].domain = d /\ alias[a].name = n

GoTo(q, pc) == request' = [request EXCEPT ![q].pc = pc]
End(q) == request' = [request EXCEPT ![q] = Idle]
At(q, pc) == request[q].pc = pc

accountVars == <<users, store, logins, browser>>
aliasVars == <<domains, alias, keys>>
forwardVars == <<mapping, tokens, forward, handed>>

-----------------------------------------------------------------------------
(* Login, registration, logout *)

(* A form without authentication; the session that comes with it is cycled later.  *)
SendLogin(q, b, u) ==
  /\ Use /\ request[q] = Idle /\ logins < MaxLogins
  /\ request' = [request EXCEPT ![q] =
       [Idle EXCEPT !.op = "login", !.browser = b, !.sid = browser[b].sid, !.user = u, !.pc = "user"]]
  /\ UNCHANGED <<accountVars, aliasVars, forwardVars, faults, exempt>>

(* login_handler finds the user; register_handler inserts it, or finds its email taken.  *)
FindUser(q) ==
  /\ At(q, "user")
  /\ LET u == request[q].user
     IN \/ users[u].exists /\ GoTo(q, "establish") /\ UNCHANGED users
        \/ ~users[u].exists /\ GoTo(q, "establish") /\ users' = [users EXCEPT ![u] = NewUser]
        \/ End(q) /\ UNCHANGED users
  /\ UNCHANGED <<store, logins, browser, aliasVars, forwardVars, uses, faults, exempt>>

EstablishSameId(q) ==
  /\ At(q, "establish")
  /\ logins < MaxLogins /\ logins' = logins + 1
  /\ LET sid == IF request[q].sid = 0 THEN logins' ELSE request[q].sid
     IN /\ Succeeds
        /\ store' = [store EXCEPT ![sid] = [user |-> request[q].user, token |-> logins']]
        /\ request' = [request EXCEPT ![q].pc = "respond", ![q].sid = sid, ![q].token = logins']
  /\ UNCHANGED <<users, browser, aliasVars, forwardVars, uses, exempt>>

(* establish_session: the old session is deleted, the new one saved at the end of the
   request.  When the old session cannot be read, cycling it fails and the login goes on
   under the old id; when it cannot be deleted, under the new one; when saving fails the
   response is an error without cookies.  *)
Establish(q) ==
  /\ At(q, "establish")
  /\ logins < MaxLogins /\ logins' = logins + 1
  /\ LET new == [user |-> request[q].user, token |-> logins']
         cycled == [s \in DOMAIN store |-> IF s = request[q].sid THEN NoSession ELSE store[s]]
         RespondWith(s) == request' = [request EXCEPT ![q].pc = "respond", ![q].sid = s,
                                                      ![q].token = logins']
     IN \/ Succeeds /\ store' = [cycled EXCEPT ![logins'] = new] /\ RespondWith(logins')
        \/ Fault("db") /\ store' = [store EXCEPT ![logins'] = new] /\ RespondWith(logins')
        \/ /\ Fault("db") /\ store[request[q].sid] # NoSession
           /\ store' = [store EXCEPT ![request[q].sid] = new] /\ RespondWith(request[q].sid)
        \/ Fault("db") /\ store' = cycled /\ End(q)
  /\ UNCHANGED <<users, browser, aliasVars, forwardVars, uses, exempt>>

(* Both cookies come with one response; after a logout it clears them.  *)
Respond(q) ==
  /\ At(q, "respond")
  /\ browser' = [browser EXCEPT ![request[q].browser] =
       IF request[q].op = "logout" THEN NoCookies
       ELSE [sid |-> request[q].sid, token |-> request[q].token, user |-> request[q].user]]
  /\ End(q)
  /\ UNCHANGED <<users, store, logins, aliasVars, forwardVars, uses, faults, exempt>>

Expire(s) ==
  /\ store[s] # NoSession
  /\ store' = [store EXCEPT ![s] = NoSession]
  /\ UNCHANGED <<users, logins, browser, request, aliasVars, forwardVars, uses, faults, exempt>>

-----------------------------------------------------------------------------
(* Authentication *)

(* What a request can ask for, with its argument.  *)
Operations ==
  [op : {"view", "logout", "compose"}, arg : {None}]
    \cup [op : {"create"}, arg : Domains \X Names]
    \cup [op : {"delete"}, arg : AliasIds]
    \cup [op : {"set_forward"}, arg : AliasIds \X BOOLEAN]
    \cup [op : {"bypass", "firsthand"}, arg : Users]
    \cup [op : {"add_domain", "delete_domain"}, arg : Domains]
    \cup [op : {"add_key", "delete_key"}, arg : Keys]

AdminOperations == {"bypass", "firsthand", "add_domain", "delete_domain", "add_key", "delete_key"}

SendRequest(q, b, o) ==
  /\ Use /\ request[q] = Idle /\ browser[b].user # None
  /\ request' = [request EXCEPT ![q] =
       [Idle EXCEPT !.op = o.op, !.arg = o.arg, !.browser = b, !.sid = browser[b].sid,
                    !.token = browser[b].token, !.sender = browser[b].user, !.pc = "session"]]
  /\ UNCHANGED <<accountVars, aliasVars, forwardVars, faults, exempt>>

(* validate_csrf_token: a GET needs no token.  *)
TokenValid(q) ==
  request[q].op = "view" \/ (request[q].token # 0 /\ request[q].token = store[request[q].sid].token)

(* AuthenticatedUser: the session, then the token.  *)
CheckSession(q) ==
  /\ At(q, "session")
  /\ LET session == store[request[q].sid]
     IN \/ /\ Succeeds /\ session # NoSession /\ TokenValid(q)
           /\ request' = [request EXCEPT ![q].user = session.user, ![q].pc = "permissions"]
        \/ Succeeds /\ (session = NoSession \/ ~TokenValid(q)) /\ End(q)
        \/ Fault("db") /\ End(q)
  /\ UNCHANGED <<accountVars, aliasVars, forwardVars, uses, exempt>>

(* can_bypass_alias_limit *)
CanBypass(u) == u = Admin \/ users[u].bypass

(* AdminUser and FirsthandSenderUser *)
Permitted(u, op) ==
  /\ op \in AdminOperations => u = Admin
  /\ op = "compose" => u = Admin \/ users[u].firsthand

(* The permissions are read for each request, and decide its way through the handler.  *)
LoadUser(q) ==
  /\ At(q, "permissions")
  /\ LET u == request[q].user
     IN \/ /\ Succeeds /\ Permitted(u, request[q].op)
           /\ GoTo(q, CASE request[q].op # "create" -> "execute"
                        [] request[q].op = "create" /\ CanBypass(u) -> "available"
                        [] OTHER -> "limit")
        \/ Succeeds /\ ~Permitted(u, request[q].op) /\ End(q)
        \/ Fault("db") /\ End(q)
  /\ UNCHANGED <<accountVars, aliasVars, forwardVars, uses, exempt>>

(* ApiUser: the key's user, without session, token or permission.  *)
SendApiRequest(q, k, arg) ==
  /\ Use /\ request[q] = Idle /\ keys[k] # None
  /\ request' = [request EXCEPT ![q] =
       [Idle EXCEPT !.op = "set_forward", !.arg = arg, !.user = keys[k], !.sender = keys[k], !.pc = "execute"]]
  /\ UNCHANGED <<accountVars, aliasVars, forwardVars, faults, exempt>>

-----------------------------------------------------------------------------
(* create_alias_handler *)

BelowLimitByOneMore(u) == Cardinality(AliasesOf(u)) <= MaxAliases

BelowLimit(u) == Cardinality(AliasesOf(u)) < MaxAliases

(* A count that fails counts as zero.  *)
CheckLimit(q) ==
  /\ At(q, "limit")
  /\ \/ Succeeds /\ BelowLimit(request[q].user) /\ GoTo(q, "available")
     \/ Succeeds /\ ~BelowLimit(request[q].user) /\ End(q)
     \/ Fault("db") /\ (MaxAliases > 0) /\ GoTo(q, "available")
  /\ UNCHANGED <<accountVars, aliasVars, forwardVars, uses, exempt>>

(* validate_alias *)
Valid(u, n) == n \in Reserved => u = Admin

CheckAvailable(q) ==
  /\ At(q, "available")
  /\ LET ok == Valid(request[q].user, request[q].arg[2]) /\ ~Taken(request[q].arg[1], request[q].arg[2])
     IN \/ Succeeds /\ ok /\ GoTo(q, "insert")
        \/ Succeeds /\ ~ok /\ End(q)
        \/ Fault("db") /\ End(q)
  /\ UNCHANGED <<accountVars, aliasVars, forwardVars, uses, exempt>>

(* The constraints of the table: the domain exists, the address is new.  *)
Insertable(d, n) == DomainLive(d) /\ ~Taken(d, n)

NewAlias(a, q) ==
  /\ Insertable(request[q].arg[1], request[q].arg[2])
  /\ alias[a].state = "unused"
  /\ \E on \in BOOLEAN :
       alias' = [alias EXCEPT ![a] = [state |-> "live", user |-> request[q].user,
                   domain |-> request[q].arg[1], name |-> request[q].arg[2], forward |-> on]]

InsertAlias(q) ==
  /\ At(q, "insert")
  /\ \/ Succeeds /\ \E a \in AliasIds : NewAlias(a, q)
     \/ Succeeds /\ ~Insertable(request[q].arg[1], request[q].arg[2]) /\ UNCHANGED alias
     \/ Fault("db") /\ (UNCHANGED alias \/ \E a \in AliasIds : NewAlias(a, q))
  /\ End(q)
  /\ UNCHANGED <<accountVars, domains, keys, forwardVars, uses, exempt>>

-----------------------------------------------------------------------------
(* The other handlers: one statement each, restricted to the user's own rows. *)

(* Deleting rows of aliases takes their mappings along.  *)
RemoveAliases(S) ==
  /\ alias' = [a \in AliasIds |-> IF a \in S THEN [NoAlias EXCEPT !.state = "gone"] ELSE alias[a]]
  /\ mapping' = [m \in DOMAIN mapping |-> IF m[1] \in S THEN 0 ELSE mapping[m]]

DeleteAlias(u, a) ==
  /\ RemoveAliases({a} \cap AliasesOf(u))
  /\ UNCHANGED <<users, domains, keys, exempt>>

SetForward(u, a, on) ==
  /\ alias' = [alias EXCEPT ![a].forward = IF a \in AliasesOf(u) THEN on ELSE @]
  /\ UNCHANGED <<users, domains, keys, mapping, exempt>>

ToggleBypass(u) ==
  /\ users' = [users EXCEPT ![u].bypass = IF users[u].exists THEN ~@ ELSE @]
  /\ exempt' = exempt \cup {v \in Users : users'[v].bypass}
  /\ UNCHANGED <<domains, alias, keys, mapping>>

ToggleFirsthand(u) ==
  /\ users' = [users EXCEPT ![u].firsthand = IF users[u].exists THEN ~@ ELSE @]
  /\ UNCHANGED <<domains, alias, keys, mapping, exempt>>

AddDomain(d) ==
  /\ domains' = [domains EXCEPT ![d] = IF @ = "unused" THEN "live" ELSE @]
  /\ UNCHANGED <<users, alias, keys, mapping, exempt>>

DeleteDomain(d) ==
  /\ domains' = [domains EXCEPT ![d] = IF @ = "live" THEN "gone" ELSE @]
  /\ RemoveAliases({a \in AliasIds : Live(a) /\ alias[a].domain = d})
  /\ UNCHANGED <<users, keys, exempt>>

AddKey(u, k) ==
  /\ keys' = [keys EXCEPT ![k] = IF @ = None THEN u ELSE @]
  /\ UNCHANGED <<users, domains, alias, mapping, exempt>>

DeleteKey(u, k) ==
  /\ keys' = [keys EXCEPT ![k] = IF @ = u THEN None ELSE @]
  /\ UNCHANGED <<users, domains, alias, mapping, exempt>>

Applied(q) ==
  LET u == request[q].user
      arg == request[q].arg
  IN CASE request[q].op = "delete" -> DeleteAlias(u, arg)
       [] request[q].op = "set_forward" -> SetForward(u, arg[1], arg[2])
       [] request[q].op = "bypass" -> ToggleBypass(arg)
       [] request[q].op = "firsthand" -> ToggleFirsthand(arg)
       [] request[q].op = "add_domain" -> AddDomain(arg)
       [] request[q].op = "delete_domain" -> DeleteDomain(arg)
       [] request[q].op = "add_key" -> AddKey(u, arg)
       [] request[q].op = "delete_key" -> DeleteKey(u, arg)
       [] OTHER -> UNCHANGED <<users, aliasVars, mapping, exempt>>

Execute(q) ==
  /\ At(q, "execute") /\ request[q].op # "logout"
  /\ \/ Succeeds /\ Applied(q)
     \/ Fault("db") /\ UNCHANGED <<users, aliasVars, mapping, exempt>>
     \/ Fault("db") /\ Applied(q)
  /\ End(q)
  /\ UNCHANGED <<store, logins, browser, tokens, forward, handed, uses>>

(* logout_handler: a deletion that fails is repeated by the session layer.  *)
Logout(q) ==
  /\ At(q, "execute") /\ request[q].op = "logout"
  /\ Succeeds \/ Fault("db")
  /\ store' = [store EXCEPT ![request[q].sid] = NoSession]
  /\ GoTo(q, "respond")
  /\ UNCHANGED <<users, logins, browser, aliasVars, forwardVars, uses, exempt>>

-----------------------------------------------------------------------------
(* Forwarding: get_or_create_reply_mapping in a task of its own *)

(* The session looked the alias up at RCPT; the task runs after DATA.  *)
ForwardStart(f, a, s) ==
  /\ Use /\ forward[f] = NoForward /\ Live(a) /\ alias[a].forward
  /\ forward' = [forward EXCEPT ![f] = [alias |-> a, sender |-> s, pc |-> "select"]]
  /\ UNCHANGED <<accountVars, aliasVars, request, mapping, tokens, handed, faults, exempt>>

(* Without a mapping the mail is forwarded under the server's own address.  *)
ForwardPlain(f) == forward' = [forward EXCEPT ![f] = NoForward] /\ UNCHANGED handed

ForwardWith(f, t) ==
  /\ forward' = [forward EXCEPT ![f] = NoForward]
  /\ handed' = handed \cup {<<forward[f].alias, forward[f].sender, t>>}

MappingOf(f) == mapping[<<forward[f].alias, forward[f].sender>>]

ForwardSelect(f) ==
  /\ forward[f].pc = "select"
  /\ \/ Succeeds /\ MappingOf(f) # 0 /\ ForwardWith(f, MappingOf(f))
     \/ Succeeds /\ MappingOf(f) = 0 /\ forward' = [forward EXCEPT ![f].pc = "insert"] /\ UNCHANGED handed
     \/ Fault("db") /\ ForwardPlain(f)
  /\ UNCHANGED <<accountVars, aliasVars, request, mapping, tokens, uses, exempt>>

TokenOnConflictNew(old, new) == new

(* ON CONFLICT DO UPDATE SET alias_id: the row that is there keeps its token.  *)
TokenOnConflict(old, new) == IF old = 0 THEN new ELSE old

ForwardInsert(f) ==
  /\ forward[f].pc = "insert"
  /\ LET a == forward[f].alias
         t == TokenOnConflict(MappingOf(f), tokens + 1)
         written == mapping' = [mapping EXCEPT ![<<a, forward[f].sender>>] = t]
     IN \/ Succeeds /\ Live(a) /\ written /\ ForwardWith(f, t)
        \/ Succeeds /\ ~Live(a) /\ UNCHANGED mapping /\ ForwardPlain(f)
        \/ Fault("db") /\ UNCHANGED mapping /\ ForwardPlain(f)
        \/ Fault("db") /\ Live(a) /\ written /\ ForwardPlain(f)
  /\ tokens' = tokens + 1
  /\ UNCHANGED <<accountVars, aliasVars, request, uses, exempt>>

-----------------------------------------------------------------------------
(* A restart ends what is at work; sessions stay, and the administrator is seeded again. *)
Restart ==
  /\ Fault("crash")
  /\ request' = [q \in Requests |-> Idle]
  /\ forward' = [f \in Forwards |-> NoForward]
  /\ users' = [users EXCEPT ![Admin] = Seeded]
  /\ UNCHANGED <<store, logins, browser, aliasVars, mapping, tokens, handed, uses, exempt>>

Init ==
  /\ users = [u \in Users |-> IF u = Admin THEN Seeded ELSE NoUser]
  /\ store = [s \in 0..MaxLogins |-> NoSession]
  /\ logins = 0
  /\ browser = [b \in Browsers |-> NoCookies]
  /\ request = [q \in Requests |-> Idle]
  /\ domains \in [Domains -> {"unused", "live"}]
  /\ alias = [a \in AliasIds |-> NoAlias]
  /\ keys = [k \in Keys |-> None]
  /\ mapping = [m \in AliasIds \X Senders |-> 0]
  /\ tokens = 0
  /\ forward = [f \in Forwards |-> NoForward]
  /\ uses = MaxUses /\ faults = MaxFaults
  /\ handed = {} /\ exempt = {Admin}

RequestStep(q) ==
  \/ \E b \in Browsers :
       \/ \E u \in Users : SendLogin(q, b, u)
       \/ \E o \in Operations : SendRequest(q, b, o)
  \/ \E k \in Keys, arg \in AliasIds \X BOOLEAN : SendApiRequest(q, k, arg)
  \/ FindUser(q) \/ Establish(q) \/ Respond(q)
  \/ CheckSession(q) \/ LoadUser(q)
  \/ CheckLimit(q) \/ CheckAvailable(q) \/ InsertAlias(q)
  \/ Execute(q) \/ Logout(q)

ForwardStep(f) ==
  \/ \E a \in AliasIds, s \in Senders : ForwardStart(f, a, s)
  \/ ForwardSelect(f) \/ ForwardInsert(f)

Next ==
  \/ \E q \in Requests : RequestStep(q)
  \/ \E f \in Forwards : ForwardStep(f)
  \/ \E s \in 1..MaxLogins : Expire(s)
  \/ Restart

Spec == Init /\ [][Next]_vars

-----------------------------------------------------------------------------
NoFault == faults = MaxFaults

(* Without a fault, a request that has been authenticated acts for the user who was logged
   in to the browser when it was sent, whatever logins, logouts and expiries come between:
   a session id is never given to another user (establish_session cycles it).  *)
ActsForItsSender ==
  NoFault => \A q \in Requests :
    request[q].sender # None /\ request[q].user # None => request[q].user = request[q].sender

(* The requests of a user that are past the check of the limit.  *)
Creating(u) ==
  {q \in Requests : request[q].user = u /\ request[q].op = "create" /\ request[q].pc \in {"available", "insert"}}

(* The count and the insert are separate statements, so requests at work together may
   exceed the limit, but never by more than the requests that can be at work with the one
   that found room.  Users who could once bypass the limit are left out.  *)
AliasLimit ==
  NoFault => \A u \in Users \ exempt :
    Cardinality(AliasesOf(u)) + Cardinality(Creating(u)) < MaxAliases + Cardinality(Requests)

(* A reply token that mail was forwarded with leads to the same alias and sender for as
   long as the alias lives, also when two tasks created the mapping at once.  *)
TokensKeepTheirMeaning ==
  \A h \in handed : Live(h[1]) => mapping[<<h[1], h[2]>>] = h[3]
=============================================================================
