-------------------------------- MODULE Access --------------------------------
(* Who may do what: accounts, the tokens the login issues, and the two checks *)
(* every request under /api passes (service/security.go Login, middleware     *)
(* Authenticate and RequireRoles, the roles of router.go and of the handlers' *)
(* Register).  A request is a call in flight: the account row is read once,   *)
(* and what was read is used later.                                           *)
EXTENDS Naturals, FiniteSets

CONSTANTS Username,          \* login names
          Role,              \* the roles that occur in the instance
          Route,             \* the groups of routes that are called
          Call,              \* requests in flight at once
          None,              \* no user, no role
          Seed,              \* the accounts at first, of distinct ids
          TTL,               \* lifetime of a token (config TokenTTL)
          MaxNow,            \* bound on the clock
          MaxId,             \* bound on the ids of accounts
          MaxChanges,        \* bound on the changes to accounts
          MaxFaults          \* bound on the requests that fail

\* Handlers answer a route of a group only to these roles; "session" stands for
\* every route that asks for a valid account alone.
RouteRoles(r) ==
  CASE r = "session"  -> {"viewer", "operator", "reviewer", "admin"}
    [] r = "write"    -> {"operator", "admin"}
    [] r = "directive transition" -> {"operator", "reviewer", "admin"}
    [] r = "delete"   -> {"admin"}
    [] r = "audit"    -> {"reviewer", "admin"}
    [] OTHER          -> {}

ASSUME AccessConstants ==
  /\ None \notin Username /\ None \notin Role
  /\ Role \subseteq RouteRoles("session")
  /\ TTL \in Nat \ {0} /\ MaxNow \in Nat /\ MaxId \in Nat \ {0}
  /\ MaxChanges \in Nat /\ MaxFaults \in Nat
  /\ "login" \notin Route
  /\ IsFiniteSet(Username) /\ Cardinality(Username) <= MaxId
  /\ Seed \in [Username -> [id: 1..Cardinality(Username), role: Role, active: BOOLEAN]]
  /\ \A u, v \in Username : u # v => Seed[u].id # Seed[v].id

VARIABLES account,           \* the users table, by its unique user name
          nextId,            \* the id the next account gets
          now,               \* the clock of server and browsers
          call,              \* requests in flight
          changes, faults    \* what used up the bounds

accessVars == <<account, nextId, now, call, changes, faults>>

\* Id 0: no account of that name.
Account == [id: 0..MaxId, role: Role, active: BOOLEAN]

\* What a token claims, and what the middleware makes of it.
Claims == [sub: 0..MaxId, username: Username \cup {None}, role: Role \cup {None},
           exp: 0..(MaxNow + TTL)]

NoToken == [sub |-> 0, username |-> None, role |-> None, exp |-> 0]

\* held: the roles the token's account held since the request was sent.
\* as: the principal of a request, the token of a login.
Request == [stage: {"idle", "sent", "admitted", "answered"},
            route: Route \cup {"login"}, token: Claims, as: Claims,
            held: SUBSET Role, applied: BOOLEAN,
            answer: {"none", "ok", "unauthorized", "forbidden", "failed"}]

Idle == [stage |-> "idle", route |-> "login", token |-> NoToken, as |-> NoToken,
         held |-> {}, applied |-> FALSE, answer |-> "none"]

AccessTypeOK ==
  /\ account \in [Username -> Account]
  /\ nextId \in 1..(MaxId + 1)
  /\ now \in 0..MaxNow
  /\ call \in [Call -> Request]
  /\ changes \in 0..MaxChanges /\ faults \in 0..MaxFaults

-----------------------------------------------------------------------------
\* FindUserByUsername: the row of an active account of that name.
Found(u) == u \in Username /\ account[u].id # 0 /\ account[u].active

\* The roles that a token stands for, given the accounts and the time.
Rights(token, accounts, time) ==
  {r \in Role : /\ token.username \in Username
                /\ accounts[token.username] = [id |-> token.sub, role |-> r, active |-> TRUE]
                /\ token.sub # 0
                /\ time < token.exp}

\* A request leaves the browser with the token it found there.
CanSend == \E c \in Call : call[c] = Idle

Free == CHOOSE c \in Call : call[c] = Idle

Send(route, token) ==
  /\ CanSend
  /\ call' = [call EXCEPT ![Free] = [Idle EXCEPT !.stage = "sent", !.route = route,
                                    !.token = token, !.held = Rights(token, account, now)]]

Answer(c, answer) ==
  call' = [call EXCEPT ![c].stage = "answered", ![c].answer = answer]

\* Mutants: the subject is not compared; the role is the claimed one.
AcceptsByName(token) ==
  token # NoToken /\ now < token.exp /\ Found(token.username)

PrincipalOfClaims(token) == token

\* The signature and expiry of the token, then the current row of its account:
\* the role is the row's, not the claim's.
Accepts(token) ==
  /\ token # NoToken
  /\ now < token.exp
  /\ Found(token.username)
  /\ account[token.username].id = token.sub

Principal(token) == [token EXCEPT !.role = account[token.username].role]

Authenticate(c) ==
  /\ call[c].stage = "sent" /\ call[c].route # "login"
  /\ \/ /\ Accepts(call[c].token)
        /\ call' = [call EXCEPT ![c].stage = "admitted",
                                ![c].as = Principal(call[c].token)]
     \/ /\ ~Accepts(call[c].token)
        /\ Answer(c, "unauthorized")
  /\ UNCHANGED <<account, nextId, now, changes, faults>>

\* RequireRoles and the handler: the role is the one the middleware read.
Serve(c) ==
  /\ call[c].stage = "admitted" /\ call[c].route # "login"
  /\ \/ /\ call[c].as.role \in RouteRoles(call[c].route)
        /\ call' = [call EXCEPT ![c].stage = "answered", ![c].answer = "ok",
                                ![c].applied = TRUE]
     \/ /\ call[c].as.role \notin RouteRoles(call[c].route)
        /\ Answer(c, "forbidden")
  /\ UNCHANGED <<account, nextId, now, changes, faults>>

\* Login reads the account, ...
Lookup(c) ==
  LET u == call[c].token.username IN
  /\ call[c].stage = "sent" /\ call[c].route = "login"
  /\ \/ /\ Found(u)
        /\ call' = [call EXCEPT ![c].stage = "admitted",
                                ![c].as = [sub |-> account[u].id, username |-> u,
                                           role |-> account[u].role, exp |-> 0]]
     \/ /\ ~Found(u)
        /\ Answer(c, "unauthorized")
  /\ UNCHANGED <<account, nextId, now, changes, faults>>

\* ... compares the password, and signs a token about the row it read.
Sign(c) ==
  /\ call[c].stage = "admitted" /\ call[c].route = "login"
  /\ \/ call' = [call EXCEPT ![c].stage = "answered", ![c].answer = "ok",
                             ![c].as.exp = now + TTL]
     \/ Answer(c, "unauthorized")
  /\ UNCHANGED <<account, nextId, now, changes, faults>>

\* An error of the account look-up is answered like an account that is gone, by
\* the middleware and by the login alike.
LookupFails(c) ==
  /\ call[c].stage = "sent"
  /\ faults < MaxFaults
  /\ faults' = faults + 1
  /\ Answer(c, "unauthorized")
  /\ UNCHANGED <<account, nextId, now, changes>>

\* The limiter refuses the request, the handler fails, or the connection is
\* lost before the answer arrives: the browser sees neither success nor a 401.
Fail(c) ==
  /\ call[c].stage \in {"sent", "admitted", "answered"} /\ call[c].answer # "failed"
  /\ faults < MaxFaults
  /\ faults' = faults + 1
  /\ Answer(c, "failed")
  /\ UNCHANGED <<account, nextId, now, changes>>

-----------------------------------------------------------------------------
\* Accounts change in the database itself; no endpoint does it.
Alter(u, row) ==
  /\ changes < MaxChanges
  /\ changes' = changes + 1
  /\ account' = [account EXCEPT ![u] = row]
  /\ call' = [c \in Call |->
       IF call[c].stage \in {"sent", "admitted"}
       THEN [call[c] EXCEPT !.held = @ \cup Rights(call[c].token, account', now)]
       ELSE call[c]]
  /\ UNCHANGED <<now, faults>>

SetRole(u, r) ==
  /\ account[u].id # 0 /\ account[u].role # r
  /\ Alter(u, [account[u] EXCEPT !.role = r])
  /\ UNCHANGED nextId

SetActive(u) ==
  /\ account[u].id # 0
  /\ Alter(u, [account[u] EXCEPT !.active = ~@])
  /\ UNCHANGED nextId

\* The account is deleted and one of the same name is made.
Replace(u, r) ==
  /\ nextId <= MaxId
  /\ Alter(u, [id |-> nextId, role |-> r, active |-> TRUE])
  /\ nextId' = nextId + 1

Tick ==
  /\ now < MaxNow
  /\ now' = now + 1
  /\ UNCHANGED <<account, nextId, call, changes, faults>>

AccessInit ==
  /\ account = Seed
  /\ nextId = Cardinality(Username) + 1
  /\ now = 0
  /\ call = [c \in Call |-> Idle]
  /\ changes = 0 /\ faults = 0

Handle(c) == Authenticate(c) \/ Serve(c) \/ Lookup(c) \/ Sign(c)

External ==
  \/ \E u \in Username, r \in Role : SetRole(u, r) \/ Replace(u, r)
  \/ \E u \in Username : SetActive(u)
  \/ Tick

-----------------------------------------------------------------------------
\* RightsAreCurrent: a request took effect only if, at some moment since it was
\* sent, its unexpired token named an active account of that very id whose role
\* in the table was one the route asks for.  A request sent after an account
\* was deactivated, demoted or replaced has no such moment, whatever its token
\* claims (README.md:26; Authenticate, RequireRoles).
RightsAreCurrent ==
  \A c \in Call : call[c].applied => call[c].held \cap RouteRoles(call[c].route) # {}
=============================================================================
