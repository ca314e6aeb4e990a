-------------------------------- MODULE Session --------------------------------
(* The signed-in user in the browser: hooks/useAuth.ts, api/client.ts,        *)
(* api/auth.ts, router/index.ts and main.ts.  Tabs share the session that the *)
(* browser stores; each keeps the one it shows.  Code runs between two awaits *)
(* without interruption in its tab, and answers of the server (Access) arrive *)
(* in any order.                                                              *)
EXTENDS Access

CONSTANTS Tab,
          MaxOpens,          \* bound on the pages opened and reloaded
          MaxSends           \* bound on the sign-ins and requests

ASSUME SessionConstants ==
  None \notin Tab /\ MaxOpens \in Nat /\ MaxSends \in Nat /\ "session" \in Route

VARIABLES stored,            \* the session in localStorage
          tab,               \* what each tab shows, and what it waits for
          owner,             \* the tab that waits for the answer of a call
          writer,            \* the tab that wrote the stored session
          opens, sends       \* what used up the bounds

vars == <<accessVars, stored, tab, owner, writer, opens, sends>>

UserSession == [token: Claims, username: Username \cup {None},
                role: Role \cup {None}, expiresAt: 0..(MaxNow + TTL)]

NoSession == [token |-> NoToken, username |-> None, role |-> None, expiresAt |-> 0]

\* captured: the session that bootstrapAuth read before it asked the server.
TabState == [phase: {"closed", "booting", "ready", "signing"},
             shown: UserSession, captured: UserSession]

TypeOK ==
  /\ AccessTypeOK
  /\ stored \in UserSession
  /\ tab \in [Tab -> TabState]
  /\ owner \in [Call -> Tab \cup {None}]
  /\ writer \in Tab \cup {None}
  /\ opens \in 0..MaxOpens /\ sends \in 0..MaxSends

Init ==
  /\ AccessInit
  /\ stored = NoSession
  /\ tab = [t \in Tab |-> [phase |-> "closed", shown |-> NoSession, captured |-> NoSession]]
  /\ owner = [c \in Call |-> None]
  /\ writer = None
  /\ opens = 0 /\ sends = 0

-----------------------------------------------------------------------------
\* loadSession drops a session that has expired, also from the store.
LoadSession == IF stored.expiresAt > now THEN stored ELSE NoSession

SaveSession(t, s) == stored' = s /\ writer' = t

ClearSession == stored' = NoSession /\ writer' = writer

\* The calls that nobody waits for once the page of t is gone.
Orphaned(t) == [c \in Call |-> IF owner[c] = t THEN None ELSE owner[c]]

\* A page is opened or reloaded: the module reads the store, and bootstrapAuth
\* asks the server about what it found before anything is mounted.
Open(t) ==
  LET s == LoadSession IN
  /\ opens < MaxOpens
  /\ opens' = opens + 1
  /\ stored' = s
  /\ \/ /\ s = NoSession
        /\ tab' = [tab EXCEPT ![t] = [phase |-> "ready", shown |-> s, captured |-> s]]
        /\ owner' = Orphaned(t)
        /\ call' = call
     \/ /\ s # NoSession
        /\ tab' = [tab EXCEPT ![t] = [phase |-> "booting", shown |-> s, captured |-> s]]
        /\ Send("session", s.token)
        /\ owner' = [Orphaned(t) EXCEPT ![Free] = t]
  /\ UNCHANGED <<account, nextId, now, changes, faults, writer, sends>>

\* The router shows the login page only where no session is shown.
SignIn(t, u) ==
  /\ tab[t].phase = "ready" /\ tab[t].shown = NoSession
  /\ sends < MaxSends
  /\ sends' = sends + 1
  /\ stored' = LoadSession
  /\ Send("login", [NoToken EXCEPT !.username = u])
  /\ owner' = [owner EXCEPT ![Free] = t]
  /\ tab' = [tab EXCEPT ![t].phase = "signing"]
  /\ UNCHANGED <<account, nextId, now, changes, faults, writer, opens>>

\* Any other request of a page: the token is the stored one, whoever is shown.
Work(t, route) ==
  /\ tab[t].phase = "ready" /\ tab[t].shown # NoSession
  /\ sends < MaxSends
  /\ sends' = sends + 1
  /\ stored' = LoadSession
  /\ Send(route, LoadSession.token)
  /\ owner' = [owner EXCEPT ![Free] = t]
  /\ UNCHANGED <<account, nextId, now, changes, faults, tab, writer, opens>>

\* Mutant: signing out forgets the store.
SignOutShownOnly(t) ==
  /\ tab[t].phase = "ready" /\ tab[t].shown # NoSession
  /\ tab' = [tab EXCEPT ![t].shown = NoSession]
  /\ UNCHANGED <<accessVars, stored, writer, owner, opens, sends>>

SignOut(t) ==
  /\ tab[t].phase = "ready" /\ tab[t].shown # NoSession
  /\ ClearSession
  /\ tab' = [tab EXCEPT ![t].shown = NoSession]
  /\ UNCHANGED <<accessVars, owner, opens, sends>>

-----------------------------------------------------------------------------
Settle(c) ==
  /\ call[c].stage = "answered"
  /\ call' = [call EXCEPT ![c] = Idle]
  /\ owner' = [owner EXCEPT ![c] = None]
  /\ UNCHANGED <<account, nextId, now, changes, faults, opens, sends>>

\* Mutant: the store is read when the answer arrives.
RefreshedStored(t, c) ==
  [stored EXCEPT !.username = call[c].as.username, !.role = call[c].as.role]

\* The stored session as it was when the page loaded, with the user and role
\* that the server answered.
Refreshed(t, c) ==
  [tab[t].captured EXCEPT !.username = call[c].as.username, !.role = call[c].as.role]

\* Mutant: only a success ends the loading.
BootedOnSuccess(t, c) ==
  /\ owner[c] = t /\ tab[t].phase = "booting" /\ Settle(c)
  /\ \/ /\ call[c].answer = "ok"
        /\ SaveSession(t, Refreshed(t, c))
        /\ tab' = [tab EXCEPT ![t].phase = "ready", ![t].shown = Refreshed(t, c)]
     \/ /\ call[c].answer # "ok"
        /\ ClearSession
        /\ tab' = [tab EXCEPT ![t].shown = NoSession]

\* bootstrapAuth: any answer but a success signs the browser out.
Booted(t, c) ==
  /\ owner[c] = t /\ tab[t].phase = "booting" /\ Settle(c)
  /\ \/ /\ call[c].answer = "ok"
        /\ SaveSession(t, Refreshed(t, c))
        /\ tab' = [tab EXCEPT ![t].phase = "ready", ![t].shown = Refreshed(t, c)]
     \/ /\ call[c].answer # "ok"
        /\ ClearSession
        /\ tab' = [tab EXCEPT ![t].phase = "ready", ![t].shown = NoSession]

\* Mutant: the lifetime is counted from the expiry of the token.
IssuedLate(c) == [token |-> call[c].as, username |-> call[c].as.username,
                  role |-> call[c].as.role, expiresAt |-> call[c].as.exp + TTL]

\* The lifetime of the session starts when the answer arrives.
Issued(c) == [token |-> call[c].as, username |-> call[c].as.username,
              role |-> call[c].as.role, expiresAt |-> now + TTL]

\* authenticate; a 401 clears the store, also of another tab's session.
SignedIn(t, c) ==
  /\ owner[c] = t /\ call[c].route = "login" /\ Settle(c)
  /\ \/ /\ call[c].answer = "ok"
        /\ SaveSession(t, Issued(c))
        /\ tab' = [tab EXCEPT ![t].phase = "ready", ![t].shown = Issued(c)]
     \/ /\ call[c].answer = "unauthorized"
        /\ ClearSession
        /\ tab' = [tab EXCEPT ![t].phase = "ready"]
     \/ /\ call[c].answer = "failed"
        /\ tab' = [tab EXCEPT ![t].phase = "ready"]
        /\ UNCHANGED <<stored, writer>>

\* Any other answer: a 401 clears the store and leaves what the tab shows.
Answered(t, c) ==
  /\ owner[c] = t /\ call[c].route # "login" /\ tab[t].phase # "booting" /\ Settle(c)
  /\ IF call[c].answer = "unauthorized" THEN ClearSession ELSE UNCHANGED <<stored, writer>>
  /\ UNCHANGED tab

\* The answer to a page that is gone.
Lost(c) == owner[c] = None /\ Settle(c) /\ UNCHANGED <<stored, writer, tab>>

Receive(c) ==
  \/ \E t \in Tab : Booted(t, c) \/ SignedIn(t, c) \/ Answered(t, c)
  \/ Lost(c)

Server == /\ \/ \E c \in Call : Handle(c) \/ LookupFails(c) \/ Fail(c)
             \/ External
          /\ UNCHANGED <<stored, tab, owner, writer, opens, sends>>

Next ==
  \/ Server
  \/ \E t \in Tab : \/ Open(t) \/ SignOut(t)
                    \/ \E u \in Username : SignIn(t, u)
                    \/ \E r \in Route \ {"session"} : Work(t, r)
  \/ \E c \in Call : Receive(c)

Spec == Init /\ [][Next]_vars

\* The server gets on with every request, and the browser with every answer.
Fairness ==
  \A c \in Call :
    /\ WF_vars(Handle(c) /\ UNCHANGED <<stored, tab, owner, writer, opens, sends>>)
    /\ WF_vars(Receive(c))

FairSpec == Spec /\ Fairness

-----------------------------------------------------------------------------
\* OneAccountEach: the session in the store, and the one a tab shows, names the
\* account of its own token, although tabs signed in as different users write
\* the same store and a page merges the answer about one token into the session
\* it read before it asked (bootstrapAuth, saveSession).
OneAccountEach ==
  /\ stored.username = stored.token.username
  /\ \A t \in Tab : tab[t].shown.username = tab[t].shown.token.username

\* WriterShowsStore: what is stored is what the tab that wrote it shows, after
\* any order of sign-ins, reloads, late answers and refusals: a tab is never
\* left signed out over a session of its own that the next reload brings back
\* (authenticate, logout, bootstrapAuth).
WriterShowsStore ==
  stored # NoSession => writer \in Tab /\ tab[writer].shown = stored

\* The requests of tab t by route r that it has no answer to.
Asked(t, r) == {c \in Call : owner[c] = t /\ call[c].stage # "idle" /\ call[c].route = r}

\* LoadingAwaitsOne: a page is in the loading screen exactly while one request of
\* its own is under way, the question about its session or its sign-in: no order
\* of reloads and answers leaves it there with nothing to wait for, or lets two
\* answers decide (busy, loading and the finally blocks of useAuth.ts).
LoadingAwaitsOne ==
  \A t \in Tab :
    /\ tab[t].phase = "booting" <=> Asked(t, "session") # {}
    /\ tab[t].phase = "signing" <=> Asked(t, "login") # {}
    /\ \A r \in {"session", "login"} : \A c, d \in Asked(t, r) : c = d

\* LoadingEnds: a page that waits for its session, or for a sign-in, gets out of
\* the loading screen again, whatever the server answers, unless it is reloaded
\* (the finally blocks of useAuth.ts).
LoadingEnds ==
  \A t \in Tab : tab[t].phase \in {"booting", "signing"} ~> tab[t].phase = "ready"
=============================================================================
