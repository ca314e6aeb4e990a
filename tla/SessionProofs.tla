----------------------------- MODULE SessionProofs -----------------------------
(* Proofs about the browser's session and the server's checks, for any number *)
(* of tabs, users, calls and any bounds.                                      *)
EXTENDS Session, FiniteSetTheorems, TLAPS

USE DEF accessVars

-----------------------------------------------------------------------------
(* Types.                                                                     *)

\* A free call, where there is one, is idle.
LEMMA FreeIsIdle == CanSend => Free \in Call /\ call[Free] = Idle
BY DEF CanSend, Free

\* The empty token, request and session have the types of full ones.
LEMMA Empty == NoToken \in Claims /\ Idle \in Request /\ NoSession \in UserSession
BY AccessConstants DEF NoToken, Claims, Idle, Request, NoSession, UserSession

\* The answer to a call is of the type of calls.
LEMMA AnswerType ==
  ASSUME call \in [Call -> Request], NEW c \in Call,
         NEW a \in {"none", "ok", "unauthorized", "forbidden", "failed"}, Answer(c, a)
  PROVE  call' \in [Call -> Request]
<1>1. [call[c] EXCEPT !.stage = "answered", !.answer = a] \in Request
  BY DEF Request
<1>2. call' = [call EXCEPT ![c] = [call[c] EXCEPT !.stage = "answered", !.answer = a]]
  BY DEF Answer, Request
<1> QED
  BY <1>1, <1>2

\* A request is sent with the token it is given.
LEMMA SendType ==
  ASSUME call \in [Call -> Request], NEW r \in Route \cup {"login"}, NEW tk \in Claims,
         Send(r, tk)
  PROVE  call' \in [Call -> Request]
<1>1. Free \in Call
  BY FreeIsIdle DEF Send
<1>2. Rights(tk, account, now) \in SUBSET Role
  BY DEF Rights
<1>3. [Idle EXCEPT !.stage = "sent", !.route = r, !.token = tk,
                   !.held = Rights(tk, account, now)] \in Request
  BY <1>2, Empty DEF Idle, Request
<1> QED
  BY <1>1, <1>3 DEF Send

\* The login makes a token about the row it read.
LEMMA PrincipalType ==
  ASSUME AccessTypeOK, NEW tk \in Claims, tk.username \in Username
  PROVE  Principal(tk) \in Claims
BY DEF Principal, Claims, AccessTypeOK, Account

\* A step of the server on a call keeps the types.
LEMMA HandleType ==
  ASSUME AccessTypeOK, NEW c \in Call, Handle(c)
  PROVE  AccessTypeOK'
<1> USE AccessConstants
<1>0. call \in [Call -> Request] /\ call[c] \in Request
      /\ call[c].token \in Claims /\ call[c].as \in Claims
  BY DEF AccessTypeOK, Request
<1>1. CASE Authenticate(c)
  <2>1. call' \in [Call -> Request]
    <3>1. CASE Accepts(call[c].token)
      <4>1. Principal(call[c].token) \in Claims
        BY <1>0, <3>1, PrincipalType DEF Accepts, Found
      <4> QED
        BY <1>0, <1>1, <3>1, <4>1 DEF Authenticate, Request
    <3>2. CASE ~Accepts(call[c].token)
      BY <1>0, <1>1, <3>2, AnswerType DEF Authenticate
    <3> QED
      BY <3>1, <3>2
  <2> QED
    BY <1>1, <2>1 DEF Authenticate, AccessTypeOK
<1>2. CASE Serve(c)
  <2>1. call' \in [Call -> Request]
    <3>1. CASE call[c].as.role \in RouteRoles(call[c].route)
      BY <1>0, <1>2, <3>1 DEF Serve, Request
    <3>2. CASE call[c].as.role \notin RouteRoles(call[c].route)
      BY <1>0, <1>2, <3>2, AnswerType DEF Serve
    <3> QED
      BY <3>1, <3>2
  <2> QED
    BY <1>2, <2>1 DEF Serve, AccessTypeOK
<1>3. CASE Lookup(c)
  <2> DEFINE u == call[c].token.username
             tk == [sub |-> account[u].id, username |-> u, role |-> account[u].role, exp |-> 0]
  <2>1. call' \in [Call -> Request]
    <3>1. CASE Found(u)
      <4>1. tk \in Claims
        BY <3>1 DEF Found, Claims, AccessTypeOK, Account
      <4>2. call' = [call EXCEPT ![c].stage = "admitted", ![c].as = tk]
        BY <1>3, <3>1 DEF Lookup
      <4> HIDE DEF tk
      <4> QED
        BY <1>0, <4>1, <4>2 DEF Request
    <3>2. CASE ~Found(u)
      BY <1>0, <1>3, <3>2, AnswerType DEF Lookup
    <3> QED
      BY <3>1, <3>2
  <2> QED
    BY <1>3, <2>1 DEF Lookup, AccessTypeOK
<1>4. CASE Sign(c)
  <2>1. now + TTL \in 0..(MaxNow + TTL)
    BY DEF AccessTypeOK
  <2>2. [call[c].as EXCEPT !.exp = now + TTL] \in Claims
    BY <1>0, <2>1 DEF Claims
  <2>3. call' \in [Call -> Request]
    <3>1. CASE Answer(c, "unauthorized")
      BY <1>0, <3>1, AnswerType
    <3>2. CASE call' = [call EXCEPT ![c].stage = "answered", ![c].answer = "ok",
                                    ![c].as.exp = now + TTL]
      <4>1. call' = [call EXCEPT ![c] =
                      [call[c] EXCEPT !.stage = "answered", !.answer = "ok",
                                      !.as = [call[c].as EXCEPT !.exp = now + TTL]]]
        BY <1>0, <3>2 DEF Request
      <4>2. [call[c] EXCEPT !.stage = "answered", !.answer = "ok",
                            !.as = [call[c].as EXCEPT !.exp = now + TTL]] \in Request
        BY <1>0, <2>2 DEF Request
      <4> QED
        BY <1>0, <4>1, <4>2
    <3> QED
      BY <1>4, <3>1, <3>2 DEF Sign
  <2> QED
    BY <1>4, <2>3 DEF Sign, AccessTypeOK
<1> QED
  BY <1>1, <1>2, <1>3, <1>4 DEF Handle

\* A failure keeps the types.
LEMMA FailType ==
  ASSUME AccessTypeOK, NEW c \in Call, LookupFails(c) \/ Fail(c)
  PROVE  AccessTypeOK'
<1>1. call' \in [Call -> Request]
  BY AnswerType DEF AccessTypeOK, Fail, LookupFails
<1>2. faults' \in 0..MaxFaults
  BY AccessConstants DEF AccessTypeOK, Fail, LookupFails
<1> QED
  BY <1>1, <1>2 DEF AccessTypeOK, Fail, LookupFails

\* A change to a row keeps the types.
LEMMA AlterType ==
  ASSUME AccessTypeOK, NEW u \in Username, NEW row \in Account, Alter(u, row)
  PROVE  /\ account' \in [Username -> Account]
         /\ call' \in [Call -> Request]
         /\ changes' \in 0..MaxChanges
<1>1. account' \in [Username -> Account]
  BY DEF AccessTypeOK, Alter
<1>2. call' \in [Call -> Request]
  <2> SUFFICES ASSUME NEW c \in Call
               PROVE  call'[c] \in Request
    BY DEF Alter
  <2>1. call[c] \in Request
    BY DEF AccessTypeOK
  <2>2. Rights(call[c].token, account', now) \in SUBSET Role
    BY DEF Rights
  <2>3. call'[c] = IF call[c].stage \in {"sent", "admitted"}
                   THEN [call[c] EXCEPT !.held = call[c].held \cup Rights(call[c].token, account', now)]
                   ELSE call[c]
    BY DEF Alter
  <2> QED
    BY <2>1, <2>2, <2>3 DEF Request
<1>3. changes' \in 0..MaxChanges
  BY AccessConstants DEF AccessTypeOK, Alter
<1> QED
  BY <1>1, <1>2, <1>3

\* What happens to accounts and the clock keeps the types.
LEMMA ExternalType ==
  ASSUME AccessTypeOK, External
  PROVE  AccessTypeOK'
<1> USE AccessConstants
<1>1. ASSUME NEW u \in Username, NEW r \in Role, SetRole(u, r)
      PROVE  AccessTypeOK'
  <2>1. [account[u] EXCEPT !.role = r] \in Account
    BY DEF AccessTypeOK, Account
  <2> QED
    BY <1>1, <2>1, AlterType DEF SetRole, Alter, AccessTypeOK
<1>2. ASSUME NEW u \in Username, NEW r \in Role, Replace(u, r)
      PROVE  AccessTypeOK'
  <2>1. [id |-> nextId, role |-> r, active |-> TRUE] \in Account
    BY <1>2 DEF AccessTypeOK, Account, Replace
  <2>2. nextId' \in 1..(MaxId + 1)
    BY <1>2 DEF AccessTypeOK, Replace
  <2> QED
    BY <1>2, <2>1, <2>2, AlterType DEF Replace, Alter, AccessTypeOK
<1>3. ASSUME NEW u \in Username, SetActive(u)
      PROVE  AccessTypeOK'
  <2>1. [account[u] EXCEPT !.active = ~@] \in Account
    BY DEF AccessTypeOK, Account
  <2> QED
    BY <1>3, <2>1, AlterType DEF SetActive, Alter, AccessTypeOK
<1>4. CASE Tick
  BY <1>4 DEF Tick, AccessTypeOK
<1> QED
  BY <1>1, <1>2, <1>3, <1>4 DEF External

\* The session that a page loads has the type of sessions.
LEMMA LoadType == TypeOK => LoadSession \in UserSession /\ LoadSession.token \in Claims
BY Empty DEF TypeOK, LoadSession, UserSession, NoSession

\* Orphaned calls have no owner, the others keep theirs.
LEMMA OrphanedType ==
  ASSUME TypeOK, NEW t \in Tab
  PROVE  Orphaned(t) \in [Call -> Tab \cup {None}]
BY DEF TypeOK, Orphaned

\* Reading an answer frees its call.
LEMMA SettleType ==
  ASSUME TypeOK, NEW c \in Call, Settle(c)
  PROVE  AccessTypeOK' /\ owner' \in [Call -> Tab \cup {None}] /\ UNCHANGED <<opens, sends>>
BY Empty DEF TypeOK, AccessTypeOK, Settle

\* The sessions that answers make have the type of sessions.
LEMMA SessionsType ==
  ASSUME TypeOK, NEW t \in Tab, NEW c \in Call
  PROVE  Refreshed(t, c) \in UserSession /\ Issued(c) \in UserSession
<1>1. call[c].as \in Claims /\ tab[t].captured \in UserSession
  BY DEF TypeOK, AccessTypeOK, Request, TabState
<1>2. now + TTL \in 0..(MaxNow + TTL)
  BY AccessConstants DEF TypeOK, AccessTypeOK
<1> QED
  BY <1>1, <1>2 DEF Refreshed, Issued, UserSession, Claims

\* Opening a page keeps the types.
LEMMA OpenType ==
  ASSUME TypeOK, NEW t \in Tab, Open(t)
  PROVE  TypeOK'
<1> DEFINE s == LoadSession
<1>1. s \in UserSession /\ s.token \in Claims
  BY LoadType
<1>2. stored' = s /\ opens' \in 0..MaxOpens
  BY SessionConstants DEF Open, TypeOK
<1>3. tab' \in [Tab -> TabState]
  <2>1. PICK p \in {"ready", "booting"} :
          tab' = [tab EXCEPT ![t] = [phase |-> p, shown |-> s, captured |-> s]]
    BY DEF Open
  <2>2. [phase |-> p, shown |-> s, captured |-> s] \in TabState
    BY <1>1 DEF TabState
  <2> HIDE DEF s
  <2> QED
    BY <2>1, <2>2 DEF TypeOK
<1>4. call' \in [Call -> Request] /\ owner' \in [Call -> Tab \cup {None}]
  <2>1. Orphaned(t) \in [Call -> Tab \cup {None}]
    BY OrphanedType
  <2>2. CASE s = NoSession
    BY <2>1, <2>2 DEF Open, TypeOK, AccessTypeOK
  <2>3. CASE s # NoSession
    <3>1. Send("session", s.token) /\ owner' = [Orphaned(t) EXCEPT ![Free] = t]
      BY <2>3 DEF Open
    <3>2. call' \in [Call -> Request]
      BY <1>1, <3>1, SendType, SessionConstants DEF TypeOK, AccessTypeOK
    <3> QED
      BY <2>1, <3>1, <3>2
  <2> QED
    BY <2>2, <2>3
<1> QED
  BY <1>1, <1>2, <1>3, <1>4 DEF Open, TypeOK, AccessTypeOK

\* Sending a sign-in or a request keeps the types.
LEMMA SendingType ==
  ASSUME TypeOK, NEW t \in Tab,
         \/ \E u \in Username : SignIn(t, u)
         \/ \E r \in Route \ {"session"} : Work(t, r)
  PROVE  TypeOK'
<1>1. LoadSession \in UserSession /\ LoadSession.token \in Claims
  BY LoadType
<1>2. ASSUME NEW u \in Username, SignIn(t, u)
      PROVE  TypeOK'
  <2>1. [NoToken EXCEPT !.username = u] \in Claims
    BY Empty DEF Claims
  <2>2. call' \in [Call -> Request]
    BY <1>2, <2>1, SendType DEF SignIn, TypeOK, AccessTypeOK
  <2>3. tab' \in [Tab -> TabState]
    BY <1>2 DEF SignIn, TypeOK, TabState
  <2>4. sends' \in 0..MaxSends
    BY <1>2, SessionConstants DEF SignIn, TypeOK
  <2> QED
    BY <1>1, <1>2, <2>2, <2>3, <2>4 DEF SignIn, TypeOK, AccessTypeOK
<1>3. ASSUME NEW r \in Route \ {"session"}, Work(t, r)
      PROVE  TypeOK'
  <2>1. call' \in [Call -> Request]
    BY <1>1, <1>3, SendType DEF Work, TypeOK, AccessTypeOK
  <2>2. sends' \in 0..MaxSends
    BY <1>3, SessionConstants DEF Work, TypeOK
  <2> QED
    BY <1>1, <1>3, <2>1, <2>2 DEF Work, TypeOK, AccessTypeOK
<1> QED
  BY <1>2, <1>3

\* Receiving an answer keeps the types.
LEMMA ReceiveType ==
  ASSUME TypeOK, NEW c \in Call, Receive(c)
  PROVE  TypeOK'
<1>1. Settle(c)
  BY DEF Receive, Booted, SignedIn, Answered, Lost
<1>2. AccessTypeOK' /\ owner' \in [Call -> Tab \cup {None}] /\ UNCHANGED <<opens, sends>>
  BY <1>1, SettleType
<1>3. ASSUME NEW t \in Tab, Booted(t, c) \/ SignedIn(t, c) \/ Answered(t, c)
      PROVE  /\ stored' \in UserSession /\ writer' \in Tab \cup {None}
             /\ tab' \in [Tab -> TabState]
  <2>1. Refreshed(t, c) \in UserSession /\ Issued(c) \in UserSession
    BY SessionsType
  <2>2. CASE Booted(t, c)
    BY <2>1, <2>2, Empty DEF Booted, SaveSession, ClearSession, TypeOK, TabState
  <2>3. CASE SignedIn(t, c)
    BY <2>1, <2>3, Empty DEF SignedIn, SaveSession, ClearSession, TypeOK, TabState
  <2>4. CASE Answered(t, c)
    BY <2>4, Empty DEF Answered, ClearSession, TypeOK
  <2> QED
    BY <1>3, <2>2, <2>3, <2>4
<1>4. CASE Lost(c)
  BY <1>2, <1>4 DEF Lost, TypeOK
<1> QED
  BY <1>2, <1>3, <1>4 DEF Receive, TypeOK

\* A row of the seed is an account.
LEMMA SeedRow ==
  ASSUME NEW n \in Nat, MaxId \in Nat, n <= MaxId,
         NEW row \in [id: 1..n, role: Role, active: BOOLEAN]
  PROVE  row \in Account
BY DEF Account

\* SessionTypeCorrect: every variable of the browser and of the server's checks
\* keeps its type, for any number of tabs, users and calls.
THEOREM SessionTypeCorrect == Spec => []TypeOK
<1>1. Init => TypeOK
  <2> SUFFICES ASSUME Init PROVE TypeOK
    OBVIOUS
  <2>1. account \in [Username -> Account]
    <3>1. Cardinality(Username) \in Nat /\ Cardinality(Username) <= MaxId
      BY AccessConstants, FS_CardinalityType
    <3>2. ASSUME NEW u \in Username
          PROVE  Seed[u] \in Account
      <4>1. Seed[u] \in [id: 1..Cardinality(Username), role: Role, active: BOOLEAN]
        BY AccessConstants
      <4>2. MaxId \in Nat
        BY AccessConstants
      <4> QED
        BY <3>1, <4>1, <4>2, SeedRow
    <3>3. Seed = [u \in Username |-> Seed[u]]
      BY AccessConstants
    <3> QED
      BY <3>2, <3>3 DEF Init, AccessInit
  <2>2. nextId \in 1..(MaxId + 1)
    <3>1. Cardinality(Username) \in Nat /\ Cardinality(Username) <= MaxId
      BY AccessConstants, FS_CardinalityType
    <3> QED
      BY <3>1, AccessConstants DEF Init, AccessInit
  <2>3. tab \in [Tab -> TabState]
    BY Empty DEF Init, TabState
  <2> QED
    BY <2>1, <2>2, <2>3, Empty, AccessConstants, SessionConstants
    DEF Init, AccessInit, TypeOK, AccessTypeOK
<1>2. TypeOK /\ [Next]_vars => TypeOK'
  <2> SUFFICES ASSUME TypeOK, [Next]_vars PROVE TypeOK'
    OBVIOUS
  <2>1. CASE Server
    <3>1. AccessTypeOK'
      BY <2>1, HandleType, FailType, ExternalType DEF Server, TypeOK
    <3> QED
      BY <2>1, <3>1 DEF Server, TypeOK
  <2>2. ASSUME NEW t \in Tab, Open(t)
        PROVE  TypeOK'
    BY <2>2, OpenType
  <2>3. ASSUME NEW t \in Tab, SignOut(t)
        PROVE  TypeOK'
    BY <2>3, Empty DEF SignOut, ClearSession, TypeOK, AccessTypeOK, TabState
  <2>4. ASSUME NEW t \in Tab,
               \/ \E u \in Username : SignIn(t, u)
               \/ \E r \in Route \ {"session"} : Work(t, r)
        PROVE  TypeOK'
    BY <2>4, SendingType
  <2>5. ASSUME NEW c \in Call, Receive(c)
        PROVE  TypeOK'
    BY <2>5, ReceiveType
  <2>6. CASE UNCHANGED vars
    BY <2>6 DEF vars, TypeOK, AccessTypeOK
  <2> QED
    BY <2>1, <2>2, <2>3, <2>4, <2>5, <2>6 DEF Next
<1> QED
  BY <1>1, <1>2, PTL DEF Spec

-----------------------------------------------------------------------------
(* RightsAreCurrent: the role that the middleware read is one of those held   *)
(* since the request was sent, until the handler uses it.                     *)

RightsInv ==
  \A c \in Call :
    /\ call[c].stage = "admitted" /\ call[c].route # "login" => call[c].as.role \in call[c].held
    /\ call[c].applied => call[c].held \cap RouteRoles(call[c].route) # {}
    /\ call[c].stage = "sent" => Rights(call[c].token, account, now) \subseteq call[c].held

\* A token that is accepted gives the role of its row, which it stands for.
LEMMA AcceptedIsRight ==
  ASSUME AccessTypeOK, NEW tk \in Claims, Accepts(tk)
  PROVE  Principal(tk).role \in Rights(tk, account, now)
<1>1. tk.username \in Username /\ account[tk.username] \in Account
  BY DEF AccessTypeOK, Accepts, Found
<1>2. account[tk.username] = [id |-> tk.sub, role |-> account[tk.username].role, active |-> TRUE]
  BY <1>1 DEF Account, Accepts, Found
<1>3. Principal(tk).role = account[tk.username].role
  BY DEF Principal, Claims
<1> QED
  BY <1>1, <1>2, <1>3 DEF Rights, Accepts, Found, Account

\* A step of the server on a call keeps the rights.
LEMMA HandleRights ==
  ASSUME AccessTypeOK, RightsInv, NEW c \in Call,
         Handle(c) \/ LookupFails(c) \/ Fail(c)
  PROVE  RightsInv'
<1>0. call \in [Call -> Request] /\ call[c].token \in Claims
  BY DEF AccessTypeOK, Request
<1>1. UNCHANGED <<account, now>>
  BY DEF Handle, Authenticate, Serve, Lookup, Sign, LookupFails, Fail
<1>2. \A d \in Call \ {c} : call'[d] = call[d]
  BY <1>0 DEF Handle, Authenticate, Serve, Lookup, Sign, LookupFails, Fail, Answer
<1>3. /\ call'[c].route = call[c].route /\ call'[c].held = call[c].held
      /\ call'[c].token = call[c].token /\ call'[c].stage # "sent"
  BY <1>0 DEF Handle, Authenticate, Serve, Lookup, Sign, LookupFails, Fail, Answer, Request
<1>4. call'[c].stage = "admitted" /\ call[c].route # "login"
        => call'[c].as.role \in call[c].held
  <2> SUFFICES ASSUME call'[c].stage = "admitted", call[c].route # "login"
               PROVE  call'[c].as.role \in call[c].held
    OBVIOUS
  <2>1. Authenticate(c) /\ Accepts(call[c].token) /\ call[c].stage = "sent"
    BY <1>0 DEF Handle, Authenticate, Serve, Lookup, Sign, LookupFails, Fail, Answer, Request
  <2>2. call'[c].as = Principal(call[c].token)
    BY <1>0, <2>1 DEF Authenticate, Answer, Request
  <2> QED
    BY <1>0, <2>1, <2>2, AcceptedIsRight DEF RightsInv
<1>5. call'[c].applied => call[c].held \cap RouteRoles(call[c].route) # {}
  <2> SUFFICES ASSUME call'[c].applied, ~call[c].applied
               PROVE  call[c].held \cap RouteRoles(call[c].route) # {}
    BY DEF RightsInv
  <2>1. Serve(c) /\ call[c].as.role \in RouteRoles(call[c].route)
    BY <1>0 DEF Handle, Authenticate, Serve, Lookup, Sign, LookupFails, Fail, Answer, Request
  <2> QED
    BY <2>1 DEF Serve, RightsInv
<1> QED
  BY <1>1, <1>2, <1>3, <1>4, <1>5 DEF RightsInv

\* A change to an account, or of the clock, keeps the rights.
LEMMA ExternalRights ==
  ASSUME AccessTypeOK, RightsInv, External
  PROVE  RightsInv'
<1>1. CASE Tick
  <2>1. now \in Nat /\ now' = now + 1 /\ account' = account /\ call' = call
    BY <1>1, AccessConstants DEF Tick, AccessTypeOK
  <2>2. \A c \in Call : call[c].token.exp \in Int
    BY AccessConstants DEF AccessTypeOK, Request, Claims
  <2>3. \A c \in Call : Rights(call[c].token, account, now') \subseteq Rights(call[c].token, account, now)
    BY <2>1, <2>2 DEF Rights
  <2> QED
    BY <2>1, <2>3 DEF RightsInv
<1>2. ASSUME NEW u \in Username, NEW row, Alter(u, row)
      PROVE  RightsInv'
  <2> SUFFICES ASSUME NEW c \in Call
               PROVE  RightsInv!(c)'
    BY DEF RightsInv
  <2>0. call[c] \in Request /\ now' = now
    BY <1>2 DEF AccessTypeOK, Alter
  <2>1. CASE call[c].stage \in {"sent", "admitted"}
    <3>1. call'[c] = [call[c] EXCEPT !.held = call[c].held \cup Rights(call[c].token, account', now)]
      BY <1>2, <2>1 DEF Alter
    <3> QED
      BY <2>0, <3>1 DEF RightsInv, Request
  <2>2. CASE call[c].stage \notin {"sent", "admitted"}
    <3>1. call'[c] = call[c]
      BY <1>2, <2>2 DEF Alter
    <3> QED
      BY <2>2, <3>1 DEF RightsInv
  <2> QED
    BY <2>1, <2>2
<1> QED
  BY <1>1, <1>2 DEF External, SetRole, SetActive, Replace

\* Sending a request starts its rights.
LEMMA SendRights ==
  ASSUME AccessTypeOK, RightsInv, NEW r, NEW tk, Send(r, tk), UNCHANGED <<account, now>>
  PROVE  RightsInv'
<1>1. Free \in Call /\ call \in [Call -> Request]
  BY FreeIsIdle DEF Send, AccessTypeOK
<1>2. call'[Free] = [Idle EXCEPT !.stage = "sent", !.route = r, !.token = tk,
                                 !.held = Rights(tk, account, now)]
  BY <1>1 DEF Send
<1>3. \A d \in Call \ {Free} : call'[d] = call[d]
  BY <1>1 DEF Send
<1>4. call'[Free].stage = "sent" /\ ~call'[Free].applied
      /\ call'[Free].held = Rights(tk, account, now) /\ call'[Free].token = tk
  BY <1>2 DEF Idle
<1> QED
  BY <1>3, <1>4 DEF RightsInv

\* RightsKept: whoever's token a request carries, it takes effect only if the
\* account named in it could do that at some moment since it was sent.
THEOREM RightsKept == Spec => []RightsAreCurrent
<1>1. Init => RightsInv
  BY DEF Init, AccessInit, RightsInv, Idle
<1>2. TypeOK /\ RightsInv /\ [Next]_vars => RightsInv'
  <2> SUFFICES ASSUME TypeOK, RightsInv, [Next]_vars PROVE RightsInv'
    OBVIOUS
  <2>0. AccessTypeOK
    BY DEF TypeOK
  <2>1. CASE Server
    BY <2>0, <2>1, HandleRights, ExternalRights DEF Server
  <2>2. ASSUME NEW t \in Tab, Open(t)
        PROVE  RightsInv'
    <3>1. CASE LoadSession = NoSession
      BY <2>2, <3>1 DEF Open, RightsInv
    <3>2. CASE LoadSession # NoSession
      BY <2>0, <2>2, <3>2, SendRights DEF Open
    <3> QED
      BY <3>1, <3>2
  <2>3. ASSUME NEW t \in Tab, SignOut(t)
        PROVE  RightsInv'
    BY <2>3 DEF SignOut, RightsInv
  <2>4. ASSUME NEW t \in Tab, NEW u \in Username, SignIn(t, u)
        PROVE  RightsInv'
    BY <2>0, <2>4, SendRights DEF SignIn
  <2>5. ASSUME NEW t \in Tab, NEW r \in Route, Work(t, r)
        PROVE  RightsInv'
    BY <2>0, <2>5, SendRights DEF Work
  <2>6. ASSUME NEW c \in Call, Receive(c)
        PROVE  RightsInv'
    <3>1. Settle(c)
      BY <2>6 DEF Receive, Booted, SignedIn, Answered, Lost
    <3>2. call' = [call EXCEPT ![c] = Idle] /\ account' = account /\ now' = now
      BY <3>1 DEF Settle
    <3>3. call'[c].stage = "idle" /\ ~call'[c].applied /\ \A d \in Call \ {c} : call'[d] = call[d]
      BY <2>0, <3>2 DEF AccessTypeOK, Idle
    <3> QED
      BY <3>2, <3>3 DEF RightsInv
  <2>7. CASE UNCHANGED vars
    BY <2>7 DEF vars, RightsInv
  <2> QED
    BY <2>1, <2>2, <2>3, <2>4, <2>5, <2>6, <2>7 DEF Next
<1>3. RightsInv => RightsAreCurrent
  BY DEF RightsInv, RightsAreCurrent
<1> QED
  BY <1>1, <1>2, <1>3, SessionTypeCorrect, PTL DEF Spec

-----------------------------------------------------------------------------
(* WriterShowsStore is inductive: only the writer's own steps change what it  *)
(* shows, and they write, load or clear the store with it.                    *)

\* WriterKept: what the store holds is what the tab that wrote it shows.
THEOREM WriterKept == Spec => []WriterShowsStore
<1>1. Init => WriterShowsStore
  BY DEF Init, WriterShowsStore
<1>2. TypeOK /\ WriterShowsStore /\ [Next]_vars => WriterShowsStore'
  <2> SUFFICES ASSUME TypeOK, WriterShowsStore, [Next]_vars, stored' # NoSession
               PROVE  writer' \in Tab /\ tab'[writer'].shown = stored'
    BY DEF WriterShowsStore
  <2>0. tab \in [Tab -> TabState]
    BY DEF TypeOK
  <2>1. CASE Server \/ UNCHANGED vars
    BY <2>1 DEF Server, vars, WriterShowsStore
  <2>2. ASSUME NEW t \in Tab, Open(t)
        PROVE  writer' \in Tab /\ tab'[writer'].shown = stored'
    <3>1. stored' = stored /\ writer' = writer /\ stored = LoadSession
      BY <2>2 DEF Open, LoadSession
    <3>2. PICK p \in {"ready", "booting"} :
            tab' = [tab EXCEPT ![t] = [phase |-> p, shown |-> stored, captured |-> stored]]
      BY <2>2, <3>1 DEF Open
    <3> QED
      BY <2>0, <3>1, <3>2 DEF WriterShowsStore
  <2>3. ASSUME NEW t \in Tab, SignOut(t)
        PROVE  FALSE
    BY <2>3 DEF SignOut, ClearSession
  <2>4. ASSUME NEW t \in Tab,
               \/ \E u \in Username : SignIn(t, u)
               \/ \E r \in Route : Work(t, r)
        PROVE  writer' \in Tab /\ tab'[writer'].shown = stored'
    <3>1. stored' = stored /\ writer' = writer
      BY <2>4 DEF SignIn, Work, LoadSession
    <3>2. \A x \in Tab : tab'[x].shown = tab[x].shown
      BY <2>0, <2>4 DEF SignIn, Work, TabState
    <3> QED
      BY <3>1, <3>2 DEF WriterShowsStore
  <2>5. ASSUME NEW t \in Tab, NEW c \in Call, Booted(t, c)
        PROVE  writer' \in Tab /\ tab'[writer'].shown = stored'
    BY <2>0, <2>5 DEF Booted, SaveSession, ClearSession, TabState
  <2>6. ASSUME NEW t \in Tab, NEW c \in Call, SignedIn(t, c)
        PROVE  writer' \in Tab /\ tab'[writer'].shown = stored'
    <3>1. CASE call[c].answer = "ok"
      BY <2>0, <2>6, <3>1 DEF SignedIn, SaveSession, TabState
    <3>2. CASE call[c].answer # "ok"
      <4>1. stored' = stored /\ writer' = writer /\ tab' = [tab EXCEPT ![t].phase = "ready"]
        BY <2>6, <3>2 DEF SignedIn, ClearSession
      <4>2. \A x \in Tab : tab'[x].shown = tab[x].shown
        BY <2>0, <4>1 DEF TabState
      <4> QED
        BY <4>1, <4>2 DEF WriterShowsStore
    <3> QED
      BY <3>1, <3>2
  <2>7. ASSUME NEW t \in Tab, NEW c \in Call, Answered(t, c)
        PROVE  writer' \in Tab /\ tab'[writer'].shown = stored'
    BY <2>7 DEF Answered, ClearSession, WriterShowsStore
  <2>8. ASSUME NEW c \in Call, Lost(c)
        PROVE  writer' \in Tab /\ tab'[writer'].shown = stored'
    BY <2>8 DEF Lost, WriterShowsStore
  <2> QED
    BY <2>1, <2>2, <2>3, <2>4, <2>5, <2>6, <2>7, <2>8 DEF Next, Receive
<1> QED
  BY <1>1, <1>2, SessionTypeCorrect, PTL DEF Spec

-----------------------------------------------------------------------------
(* OneAccountEach: a booting page waits for the one call that carries the     *)
(* token of the session it captured, and the server's answer names the        *)
(* account of that token.                                                     *)

BootInv ==
  /\ OneAccountEach
  /\ \A c \in Call :
       /\ call[c].answer = "ok" /\ call[c].route # "login"
            => call[c].as.username = call[c].token.username
       /\ call[c].stage = "admitted" /\ call[c].route # "login"
            => call[c].as.username = call[c].token.username
       /\ \A t \in Tab : owner[c] = t /\ tab[t].phase = "booting" =>
            /\ call[c].route # "login"
            /\ call[c].token = tab[t].captured.token

\* A call keeps its route and token in a step, and gets no principal but the
\* user of its token unless it is a login.
KeepsUser(d) ==
  /\ call'[d].route = call[d].route /\ call'[d].token = call[d].token
  /\ \/ call'[d].route = "login"
     \/ call'[d].as.username = call[d].token.username
     \/ call'[d].answer # "ok" /\ call'[d].stage # "admitted"
     \/ call'[d].as = call[d].as /\ call'[d].answer = call[d].answer /\ call'[d].stage = call[d].stage

\* The server keeps the token and route of a call, and answers about its user.
LEMMA HandleBoot ==
  ASSUME TypeOK, BootInv, Server
  PROVE  BootInv'
<1>0. call \in [Call -> Request]
  BY DEF TypeOK, AccessTypeOK
<1>1. UNCHANGED <<stored, tab, owner>>
  BY DEF Server
<1>2. ASSUME NEW d \in Call
      PROVE  KeepsUser(d)
  <2>1. ASSUME NEW c \in Call, Handle(c) \/ LookupFails(c) \/ Fail(c)
        PROVE  KeepsUser(d)
    <3>1. CASE c # d
      <4>1. call'[d] = call[d]
        BY <1>0, <2>1, <3>1
        DEF Handle, Authenticate, Serve, Lookup, Sign, LookupFails, Fail, Answer
      <4> QED
        BY <4>1 DEF KeepsUser
    <3>2. CASE c = d
      <4>0. call[c] \in Request /\ call[c].token \in Claims
        BY <1>0 DEF Request
      <4>1. CASE Authenticate(c)
        <5>1. CASE Accepts(call[c].token)
          <6>1. call' = [call EXCEPT ![c].stage = "admitted", ![c].as = Principal(call[c].token)]
            BY <4>1, <5>1 DEF Authenticate
          <6>2. Principal(call[c].token).username = call[c].token.username
            BY <4>0 DEF Principal, Claims
          <6> QED
            BY <1>0, <3>2, <4>1, <6>1, <6>2 DEF Request, KeepsUser
        <5>2. CASE ~Accepts(call[c].token)
          BY <1>0, <3>2, <4>1, <5>2 DEF KeepsUser, Authenticate, Answer, Request
        <5> QED
          BY <5>1, <5>2
      <4>2. CASE Serve(c)
        BY <1>0, <3>2, <4>2 DEF KeepsUser, Serve, Answer, Request, BootInv
      <4>3. CASE Lookup(c) \/ Sign(c)
        BY <1>0, <3>2, <4>3 DEF KeepsUser, Lookup, Sign, Answer, Request
      <4>4. CASE LookupFails(c) \/ Fail(c)
        BY <1>0, <3>2, <4>4 DEF KeepsUser, LookupFails, Fail, Answer, Request
      <4> QED
        BY <2>1, <4>1, <4>2, <4>3, <4>4 DEF Handle
    <3> QED
      BY <3>1, <3>2
  <2>2. ASSUME NEW u \in Username, NEW row, Alter(u, row)
        PROVE  KeepsUser(d)
    <3>1. \/ call'[d] = call[d]
          \/ call'[d] = [call[d] EXCEPT !.held = call[d].held \cup Rights(call[d].token, account', now)]
      BY <2>2 DEF Alter
    <3>2. call[d] \in Request
      BY <1>0
    <3> QED
      BY <3>1, <3>2 DEF Request, KeepsUser
  <2>3. CASE Tick
    BY <2>3 DEF Tick, KeepsUser
  <2> QED
    BY <2>1, <2>2, <2>3 DEF Server, External, SetRole, SetActive, Replace
<1> QED
  BY <1>1, <1>2 DEF BootInv, OneAccountEach, KeepsUser

\* A call that is sent has no answer and no principal yet.
LEMMA SendBoot ==
  ASSUME TypeOK, NEW r, NEW tk, Send(r, tk)
  PROVE  /\ Free \in Call
         /\ call'[Free].route = r /\ call'[Free].token = tk
         /\ call'[Free].stage = "sent" /\ call'[Free].answer = "none"
         /\ \A d \in Call \ {Free} : call'[d] = call[d]
<1>1. Free \in Call /\ call \in [Call -> Request]
  BY FreeIsIdle DEF Send, TypeOK, AccessTypeOK
<1>2. call'[Free] = [Idle EXCEPT !.stage = "sent", !.route = r, !.token = tk,
                                 !.held = Rights(tk, account, now)]
  BY <1>1 DEF Send
<1>3. \A d \in Call \ {Free} : call'[d] = call[d]
  BY <1>1 DEF Send
<1> QED
  BY <1>1, <1>2, <1>3 DEF Idle

\* Loading the store gives a session of one account.
LEMMA LoadOne == BootInv => LoadSession.username = LoadSession.token.username
BY DEF BootInv, OneAccountEach, LoadSession, NoSession, NoToken

\* A page that opens waits for the call about the session it captured.
LEMMA OpenBoot ==
  ASSUME TypeOK, BootInv, NEW t \in Tab, Open(t)
  PROVE  BootInv'
<1> DEFINE s == LoadSession
<1>0. s.username = s.token.username /\ stored' = s
  BY LoadOne DEF Open
<1>1. tab \in [Tab -> TabState] /\ owner \in [Call -> Tab \cup {None}] /\ None \notin Tab
  BY SessionConstants DEF TypeOK
<1>2. PICK p \in {"ready", "booting"} :
        tab' = [tab EXCEPT ![t] = [phase |-> p, shown |-> s, captured |-> s]]
  BY DEF Open
<1> HIDE DEF s
<1>3. tab'[t].shown = s /\ tab'[t].captured = s /\ \A x \in Tab \ {t} : tab'[x] = tab[x]
  BY <1>1, <1>2
<1>4. OneAccountEach'
  BY <1>0, <1>3 DEF BootInv, OneAccountEach
<1>5. CASE s = NoSession
  <2>1. owner' = Orphaned(t) /\ call' = call
    BY <1>5 DEF Open, s
  <2>2. \A c \in Call, x \in Tab : owner'[c] = x => owner[c] = x /\ x # t
    BY <1>1, <2>1 DEF Orphaned
  <2> QED
    BY <1>3, <1>4, <2>1, <2>2 DEF BootInv
<1>6. CASE s # NoSession
  <2>1. Send("session", s.token) /\ owner' = [Orphaned(t) EXCEPT ![Free] = t]
    BY <1>6 DEF Open, s
  <2>2. /\ Free \in Call
        /\ call'[Free].route = "session" /\ call'[Free].token = s.token
        /\ call'[Free].stage = "sent" /\ call'[Free].answer = "none"
        /\ \A d \in Call \ {Free} : call'[d] = call[d]
    BY <2>1, SendBoot
  <2>3. \A c \in Call \ {Free}, x \in Tab : owner'[c] = x => owner[c] = x /\ x # t
    BY <1>1, <2>1 DEF Orphaned
  <2>4. owner'[Free] = t
    BY <2>1, <2>2 DEF Orphaned
  <2> QED
    BY <1>3, <1>4, <2>2, <2>3, <2>4 DEF BootInv
<1> QED
  BY <1>5, <1>6

\* A request of another tab leaves the booting ones alone.
LEMMA SendingBoot ==
  ASSUME TypeOK, BootInv, NEW t \in Tab,
         \/ \E u \in Username : SignIn(t, u)
         \/ \E r \in Route : Work(t, r)
  PROVE  BootInv'
<1>1. tab \in [Tab -> TabState] /\ owner \in [Call -> Tab \cup {None}]
  BY DEF TypeOK
<1>2. PICK way, tk : Send(way, tk)
  BY DEF SignIn, Work
<1>3. /\ Free \in Call
      /\ call'[Free].stage = "sent" /\ call'[Free].answer = "none"
      /\ \A d \in Call \ {Free} : call'[d] = call[d]
  BY <1>2, SendBoot
<1>4. stored' = LoadSession /\ owner' = [owner EXCEPT ![Free] = t]
  BY DEF SignIn, Work
<1>5. /\ \A x \in Tab : tab'[x].shown = tab[x].shown /\ tab'[x].captured = tab[x].captured
      /\ \A x \in Tab \ {t} : tab'[x].phase = tab[x].phase
      /\ tab'[t].phase # "booting"
  <2>1. CASE \E u \in Username : SignIn(t, u)
    <3>1. tab' = [tab EXCEPT ![t].phase = "signing"]
      BY <2>1 DEF SignIn
    <3> QED
      BY <1>1, <3>1 DEF TabState
  <2>2. CASE \E r \in Route : Work(t, r)
    BY <2>2 DEF Work
  <2> QED
    BY <2>1, <2>2
<1>6. \A c \in Call \ {Free} : owner'[c] = owner[c]
  BY <1>1, <1>4
<1>7. owner'[Free] = t
  BY <1>1, <1>3, <1>4
<1> QED
  BY <1>3, <1>4, <1>5, <1>6, <1>7, LoadOne DEF BootInv, OneAccountEach

\* A session made from an answer is about the account of its token.
LEMMA ReceiveBoot ==
  ASSUME TypeOK, BootInv, NEW c \in Call, Receive(c)
  PROVE  BootInv'
<1>0. /\ call \in [Call -> Request] /\ tab \in [Tab -> TabState]
      /\ owner \in [Call -> Tab \cup {None}] /\ None \notin Tab
  BY SessionConstants DEF TypeOK, AccessTypeOK
<1>1. Settle(c)
  BY DEF Receive, Booted, SignedIn, Answered, Lost
<1>2. /\ call'[c].answer = "none" /\ call'[c].stage = "idle" /\ owner'[c] = None
      /\ \A d \in Call \ {c} : call'[d] = call[d] /\ owner'[d] = owner[d]
  BY <1>0, <1>1 DEF Settle, Idle
<1> DEFINE NoBoot == \A x \in Tab :
             /\ tab'[x].captured = tab[x].captured
             /\ tab'[x].phase = "booting" => tab[x].phase = "booting"
<1>3. NoBoot
  <2>1. ASSUME NEW t \in Tab, Booted(t, c) \/ SignedIn(t, c)
        PROVE  NoBoot
    <3>1. \/ tab' = [tab EXCEPT ![t].phase = "ready"]
          \/ \E s : tab' = [tab EXCEPT ![t].phase = "ready", ![t].shown = s]
      BY <2>1 DEF Booted, SignedIn
    <3> QED
      BY <1>0, <3>1 DEF TabState
  <2>2. ASSUME tab' = tab
        PROVE  NoBoot
    BY <2>2
  <2> QED
    BY <2>1, <2>2 DEF Receive, Answered, Lost
<1>4. NoSession.username = NoSession.token.username
  BY DEF NoSession, NoToken
<1>5. OneAccountEach'
  <2>0. OneAccountEach
    BY DEF BootInv
  <2>1. ASSUME NEW t \in Tab, Booted(t, c)
        PROVE  OneAccountEach'
    <3>1. CASE call[c].answer = "ok"
      <4>1. Refreshed(t, c).username = Refreshed(t, c).token.username
        <5>1. call[c].route # "login" /\ call[c].token = tab[t].captured.token
              /\ call[c].as.username = call[c].token.username
          BY <2>1, <3>1 DEF Booted, BootInv
        <5>2. tab[t].captured \in UserSession
          BY <1>0 DEF TabState
        <5> QED
          BY <5>1, <5>2 DEF Refreshed, UserSession
      <4>2. stored' = Refreshed(t, c)
            /\ tab' = [tab EXCEPT ![t].phase = "ready", ![t].shown = Refreshed(t, c)]
        BY <2>1, <3>1 DEF Booted, SaveSession
      <4>3. tab'[t].shown = Refreshed(t, c) /\ \A x \in Tab \ {t} : tab'[x] = tab[x]
        BY <1>0, <4>2 DEF TabState
      <4> QED
        BY <2>0, <4>1, <4>2, <4>3 DEF OneAccountEach
    <3>2. CASE call[c].answer # "ok"
      <4>1. stored' = NoSession
            /\ tab' = [tab EXCEPT ![t].phase = "ready", ![t].shown = NoSession]
        BY <2>1, <3>2 DEF Booted, ClearSession
      <4>2. tab'[t].shown = NoSession /\ \A x \in Tab \ {t} : tab'[x] = tab[x]
        BY <1>0, <4>1 DEF TabState
      <4> QED
        BY <1>4, <2>0, <4>1, <4>2 DEF OneAccountEach
    <3> QED
      BY <3>1, <3>2
  <2>2. ASSUME NEW t \in Tab, SignedIn(t, c)
        PROVE  OneAccountEach'
    <3>1. CASE call[c].answer = "ok"
      <4>1. Issued(c).username = Issued(c).token.username
        BY DEF Issued
      <4>2. stored' = Issued(c)
            /\ tab' = [tab EXCEPT ![t].phase = "ready", ![t].shown = Issued(c)]
        BY <2>2, <3>1 DEF SignedIn, SaveSession
      <4>3. tab'[t].shown = Issued(c) /\ \A x \in Tab \ {t} : tab'[x] = tab[x]
        BY <1>0, <4>2 DEF TabState
      <4> QED
        BY <2>0, <4>1, <4>2, <4>3 DEF OneAccountEach
    <3>2. CASE call[c].answer # "ok"
      <4>1. stored' \in {stored, NoSession} /\ tab' = [tab EXCEPT ![t].phase = "ready"]
        BY <2>2, <3>2 DEF SignedIn, ClearSession
      <4>2. \A x \in Tab : tab'[x].shown = tab[x].shown
        BY <1>0, <4>1 DEF TabState
      <4> QED
        BY <1>4, <2>0, <4>1, <4>2 DEF OneAccountEach
    <3> QED
      BY <3>1, <3>2
  <2>3. CASE (\E t \in Tab : Answered(t, c)) \/ Lost(c)
    BY <1>4, <2>0, <2>3 DEF Answered, Lost, ClearSession, OneAccountEach
  <2> QED
    BY <2>1, <2>2, <2>3 DEF Receive
<1> QED
  BY <1>0, <1>2, <1>3, <1>5 DEF BootInv

\* OneAccountKept: the store and every tab name the account of their own token,
\* whatever order tabs sign in, reload and hear from the server in.
THEOREM OneAccountKept == Spec => []OneAccountEach
<1>1. Init => BootInv
  BY DEF Init, AccessInit, BootInv, OneAccountEach, NoSession, NoToken, Idle
<1>2. TypeOK /\ BootInv /\ [Next]_vars => BootInv'
  <2> SUFFICES ASSUME TypeOK, BootInv, [Next]_vars PROVE BootInv'
    OBVIOUS
  <2>1. CASE Server
    BY <2>1, HandleBoot
  <2>2. ASSUME NEW t \in Tab, Open(t)
        PROVE  BootInv'
    BY <2>2, OpenBoot
  <2>3. ASSUME NEW t \in Tab, SignOut(t)
        PROVE  BootInv'
    <3>1. tab' = [tab EXCEPT ![t].shown = NoSession] /\ stored' = NoSession
          /\ call' = call /\ owner' = owner
      BY <2>3 DEF SignOut, ClearSession
    <3>2. /\ tab'[t].shown = NoSession /\ tab'[t].phase = tab[t].phase
          /\ tab'[t].captured = tab[t].captured
          /\ \A x \in Tab \ {t} : tab'[x] = tab[x]
      BY <3>1 DEF TypeOK, TabState
    <3> QED
      BY <3>1, <3>2 DEF BootInv, OneAccountEach, NoSession, NoToken
  <2>4. ASSUME NEW t \in Tab,
               \/ \E u \in Username : SignIn(t, u)
               \/ \E r \in Route \ {"session"} : Work(t, r)
        PROVE  BootInv'
    BY <2>4, SendingBoot
  <2>5. ASSUME NEW c \in Call, Receive(c)
        PROVE  BootInv'
    BY <2>5, ReceiveBoot
  <2>6. CASE UNCHANGED vars
    BY <2>6 DEF vars, BootInv, OneAccountEach
  <2> QED
    BY <2>1, <2>2, <2>3, <2>4, <2>5, <2>6 DEF Next
<1>3. BootInv => OneAccountEach
  BY DEF BootInv
<1> QED
  BY <1>1, <1>2, <1>3, SessionTypeCorrect, PTL DEF Spec

-----------------------------------------------------------------------------
(* LoadingAwaitsOne: the calls of a tab, and what it is doing.  Besides its    *)
(* one question, a tab that is booting has no calls at all.                    *)

\* Tab t asked call c by route r.
Asks(t, c, r) == owner[c] = t /\ call[c].route = r

AskInv ==
  /\ \A c \in Call : owner[c] # None => call[c].stage # "idle"
  /\ \A t \in Tab, c \in Call :
       /\ owner[c] = t /\ tab[t].phase = "booting" => call[c].route = "session"
       /\ Asks(t, c, "session") => tab[t].phase = "booting"
       /\ Asks(t, c, "login") => tab[t].phase = "signing"
  /\ \A t \in Tab :
       /\ tab[t].phase = "booting" => \E c \in Call : Asks(t, c, "session")
       /\ tab[t].phase = "signing" => \E c \in Call : Asks(t, c, "login")
       /\ \A r \in {"session", "login"}, c \in Call, d \in Call :
            Asks(t, c, r) /\ Asks(t, d, r) => c = d

\* The invariant says what the property does.
LEMMA AskedOne == AskInv => LoadingAwaitsOne
<1> SUFFICES ASSUME AskInv, NEW t \in Tab
             PROVE  /\ tab[t].phase = "booting" <=> Asked(t, "session") # {}
                    /\ tab[t].phase = "signing" <=> Asked(t, "login") # {}
                    /\ \A r \in {"session", "login"} : \A c, d \in Asked(t, r) : c = d
  BY DEF LoadingAwaitsOne
<1>1. t # None
  BY SessionConstants
<1>2. \A r \in {"session", "login"} : Asked(t, r) = {c \in Call : Asks(t, c, r)}
  BY <1>1 DEF Asked, Asks, AskInv
<1> QED
  BY <1>2 DEF AskInv

\* The server answers a call and leaves it to whom it belongs.
LEMMA ServerAsks ==
  ASSUME TypeOK, Server, NEW d \in Call
  PROVE  /\ call'[d].route = call[d].route
         /\ call'[d].stage = "idle" <=> call[d].stage = "idle"
<1>0. call \in [Call -> Request] /\ call[d] \in Request
  BY DEF TypeOK, AccessTypeOK
<1>1. ASSUME NEW c \in Call, Handle(c) \/ LookupFails(c) \/ Fail(c)
      PROVE  /\ call'[d].route = call[d].route
             /\ call'[d].stage = "idle" <=> call[d].stage = "idle"
  <2>1. CASE c # d
    BY <1>0, <1>1, <2>1
    DEF Handle, Authenticate, Serve, Lookup, Sign, LookupFails, Fail, Answer
  <2>2. CASE c = d
    <3>1. CASE Authenticate(c)
      BY <1>0, <2>2, <3>1 DEF Authenticate, Answer, Request
    <3>2. CASE Serve(c)
      BY <1>0, <2>2, <3>2 DEF Serve, Answer, Request
    <3>3. CASE Lookup(c) \/ Sign(c)
      BY <1>0, <2>2, <3>3 DEF Lookup, Sign, Answer, Request
    <3>4. CASE LookupFails(c) \/ Fail(c)
      BY <1>0, <2>2, <3>4 DEF LookupFails, Fail, Answer, Request
    <3> QED
      BY <1>1, <3>1, <3>2, <3>3, <3>4 DEF Handle
  <2> QED
    BY <2>1, <2>2
<1>2. ASSUME NEW u \in Username, NEW row, Alter(u, row)
      PROVE  /\ call'[d].route = call[d].route
             /\ call'[d].stage = "idle" <=> call[d].stage = "idle"
  <2>1. \/ call'[d] = call[d]
        \/ call'[d] = [call[d] EXCEPT !.held = call[d].held \cup Rights(call[d].token, account', now)]
    BY <1>2 DEF Alter
  <2> QED
    BY <1>0, <2>1 DEF Request
<1>3. CASE Tick
  BY <1>3 DEF Tick
<1> QED
  BY <1>1, <1>2, <1>3 DEF Server, External, SetRole, SetActive, Replace

\* A page that opens forgets its calls, and asks about the session it found.
LEMMA OpenAsks ==
  ASSUME TypeOK, AskInv, NEW t \in Tab, Open(t)
  PROVE  AskInv'
<1>0. /\ tab \in [Tab -> TabState] /\ owner \in [Call -> Tab \cup {None}] /\ None \notin Tab
  BY SessionConstants DEF TypeOK
<1>1. \A c \in Call : Orphaned(t)[c] = IF owner[c] = t THEN None ELSE owner[c]
  BY DEF Orphaned
<1>2. CASE LoadSession = NoSession
  <2>1. /\ tab'[t].phase = "ready" /\ \A x \in Tab \ {t} : tab'[x] = tab[x]
        /\ owner' = Orphaned(t) /\ call' = call
    BY <1>0, <1>2 DEF Open
  <2> QED
    BY <1>0, <1>1, <2>1 DEF AskInv, Asks
<1>3. CASE LoadSession # NoSession
  <2>1. /\ tab'[t].phase = "booting" /\ \A x \in Tab \ {t} : tab'[x] = tab[x]
        /\ Send("session", LoadSession.token) /\ owner' = [Orphaned(t) EXCEPT ![Free] = t]
    BY <1>0, <1>3 DEF Open
  <2>2. /\ Free \in Call /\ call'[Free].route = "session" /\ call'[Free].stage = "sent"
        /\ \A d \in Call \ {Free} : call'[d] = call[d]
    BY <2>1, SendBoot
  <2>3. owner[Free] = None
    <3>1. call[Free].stage = "idle"
      BY <2>1, FreeIsIdle DEF Send, Idle
    <3> QED
      BY <2>2, <3>1 DEF AskInv
  <2>4. owner'[Free] = t /\ \A d \in Call \ {Free} : owner'[d] = Orphaned(t)[d]
    BY <1>0, <2>1, <2>2 DEF Orphaned
  <2>5. \A d \in Call \ {Free} : owner'[d] # t /\ owner'[d] \in {owner[d], None}
    BY <1>0, <1>1, <2>4
  <2>6. \A d \in Call, x \in Tab \ {t} : owner[d] = x => d # Free /\ owner'[d] = x
    BY <1>0, <1>1, <2>3, <2>4
  <2>7. \A d \in Call, x \in Tab \ {t} : owner'[d] = x => d # Free /\ owner[d] = x
    BY <1>0, <2>4, <2>5
  <2> QED
    BY <1>0, <2>1, <2>2, <2>4, <2>5, <2>6, <2>7 DEF AskInv, Asks
<1> QED
  BY <1>2, <1>3

\* A ready tab that signs in asks once; its other requests are no questions.
LEMMA SendingAsks ==
  ASSUME TypeOK, AskInv, NEW t \in Tab,
         \/ \E u \in Username : SignIn(t, u)
         \/ \E r \in Route \ {"session"} : Work(t, r)
  PROVE  AskInv'
<1>0. /\ tab \in [Tab -> TabState] /\ owner \in [Call -> Tab \cup {None}] /\ None \notin Tab
  BY SessionConstants DEF TypeOK
<1>1. tab[t].phase = "ready" /\ owner' = [owner EXCEPT ![Free] = t] /\ CanSend
  BY DEF SignIn, Work, Send
<1>2. Free \in Call /\ call[Free].stage = "idle"
  BY <1>1, FreeIsIdle DEF Idle
<1>3. owner[Free] = None
  BY <1>2 DEF AskInv
<1>4. owner'[Free] = t /\ \A d \in Call \ {Free} : owner'[d] = owner[d]
  BY <1>0, <1>1, <1>2
<1>5. CASE \E u \in Username : SignIn(t, u)
  <2>1. PICK tk : Send("login", tk)
    BY <1>5 DEF SignIn
  <2>2. /\ call'[Free].route = "login" /\ call'[Free].stage = "sent"
        /\ \A d \in Call \ {Free} : call'[d] = call[d]
    BY <2>1, SendBoot
  <2>3. tab'[t].phase = "signing" /\ \A x \in Tab \ {t} : tab'[x] = tab[x]
    BY <1>0, <1>5 DEF SignIn, TabState
  <2> QED
    BY <1>0, <1>1, <1>2, <1>3, <1>4, <2>2, <2>3 DEF AskInv, Asks
<1>6. CASE \E r \in Route \ {"session"} : Work(t, r)
  <2>1. PICK r \in Route \ {"session"} : \E tk : Send(r, tk) /\ tab' = tab
    BY <1>6 DEF Work
  <2>2. /\ call'[Free].route \notin {"session", "login"} /\ call'[Free].stage = "sent"
        /\ \A d \in Call \ {Free} : call'[d] = call[d]
    BY <2>1, SendBoot, AccessConstants
  <2> QED
    BY <1>0, <1>1, <1>2, <1>3, <1>4, <2>1, <2>2 DEF AskInv, Asks
<1> QED
  BY <1>5, <1>6

\* The answer to its question makes a tab ready, and no other answer does.
LEMMA ReceiveAsks ==
  ASSUME TypeOK, AskInv, NEW c \in Call, Receive(c)
  PROVE  AskInv'
<1>0. /\ call \in [Call -> Request] /\ tab \in [Tab -> TabState]
      /\ owner \in [Call -> Tab \cup {None}] /\ None \notin Tab
  BY SessionConstants DEF TypeOK, AccessTypeOK
<1>1. Settle(c)
  BY DEF Receive, Booted, SignedIn, Answered, Lost
<1>2. /\ owner'[c] = None
      /\ \A d \in Call \ {c} : call'[d] = call[d] /\ owner'[d] = owner[d]
  BY <1>0, <1>1 DEF Settle
<1>3. ASSUME NEW t \in Tab, Booted(t, c) \/ SignedIn(t, c)
      PROVE  AskInv'
  <2>1. /\ owner[c] = t
        /\ \/ tab[t].phase = "booting" /\ call[c].route = "session"
           \/ tab[t].phase = "signing" /\ call[c].route = "login"
    BY <1>3 DEF Booted, SignedIn, AskInv, Asks
  <2>2. tab'[t].phase = "ready" /\ \A x \in Tab \ {t} : tab'[x] = tab[x]
    <3>1. \/ tab' = [tab EXCEPT ![t].phase = "ready"]
          \/ \E s : tab' = [tab EXCEPT ![t].phase = "ready", ![t].shown = s]
      BY <1>3 DEF Booted, SignedIn
    <3> QED
      BY <1>0, <3>1 DEF TabState
  <2>3. \A d \in Call \ {c} : ~Asks(t, d, "session") /\ ~Asks(t, d, "login")
    BY <1>0, <2>1 DEF AskInv, Asks
  <2> QED
    BY <1>0, <1>2, <2>1, <2>2, <2>3 DEF AskInv, Asks
<1>4. ASSUME (\E t \in Tab : Answered(t, c)) \/ Lost(c)
      PROVE  AskInv'
  <2>1. tab' = tab
    BY <1>4 DEF Answered, Lost
  <2>2. \A x \in Tab : ~Asks(x, c, "session") /\ ~Asks(x, c, "login")
    BY <1>0, <1>4 DEF Answered, Lost, AskInv, Asks
  <2> QED
    BY <1>0, <1>2, <2>1, <2>2 DEF AskInv, Asks
<1> QED
  BY <1>3, <1>4 DEF Receive

\* LoadingAwaited: no tab is left in the loading screen without a request under
\* way, and none has two, for any number of tabs, users and calls.
THEOREM LoadingAwaited == Spec => []LoadingAwaitsOne
<1>1. Init => AskInv
  BY SessionConstants DEF Init, AskInv, Asks
<1>2. TypeOK /\ AskInv /\ [Next]_vars => AskInv'
  <2> SUFFICES ASSUME TypeOK, AskInv, [Next]_vars PROVE AskInv'
    OBVIOUS
  <2>1. CASE Server
    <3>1. tab' = tab /\ owner' = owner
      BY <2>1 DEF Server
    <3> QED
      BY <2>1, <3>1, ServerAsks DEF AskInv, Asks
  <2>2. ASSUME NEW t \in Tab, Open(t)
        PROVE  AskInv'
    BY <2>2, OpenAsks
  <2>3. ASSUME NEW t \in Tab, SignOut(t)
        PROVE  AskInv'
    <3>1. tab' = [tab EXCEPT ![t].shown = NoSession] /\ call' = call /\ owner' = owner
      BY <2>3 DEF SignOut
    <3>2. \A x \in Tab : tab'[x].phase = tab[x].phase
      BY <3>1 DEF TypeOK, TabState
    <3> QED
      BY <3>1, <3>2 DEF AskInv, Asks
  <2>4. ASSUME NEW t \in Tab,
               \/ \E u \in Username : SignIn(t, u)
               \/ \E r \in Route \ {"session"} : Work(t, r)
        PROVE  AskInv'
    BY <2>4, SendingAsks
  <2>5. ASSUME NEW c \in Call, Receive(c)
        PROVE  AskInv'
    BY <2>5, ReceiveAsks
  <2>6. CASE UNCHANGED vars
    BY <2>6 DEF vars, AskInv, Asks
  <2> QED
    BY <2>1, <2>2, <2>3, <2>4, <2>5, <2>6 DEF Next
<1> QED
  BY <1>1, <1>2, AskedOne, SessionTypeCorrect, PTL DEF Spec
=============================================================================
