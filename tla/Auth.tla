-------------------------------- MODULE Auth --------------------------------
(* packages/vais-web/packages/auth: createAuth and the useSession signals of *)
(* one view (au), the refresh tokens of a SessionManager (sm), and the       *)
(* decisions of the request middleware, one request at a time (am).          *)
EXTENDS Naturals, FiniteSets, Sequences, SequencesExt

CONSTANTS Users, SignIns,  \* sign-in attempts of the view
          Hydrates,        \* whether the page carries a server-side session
          MaxTokens,       \* bound: refresh tokens issued
          Refreshes,       \* callers of refreshSession
          MaxTime          \* bound: clock ticks

\* Of the constants, for the proofs.
AuthAssumption == MaxTokens \in Nat /\ MaxTime \in Nat

VARIABLES au, sm, am
authVars == <<au, sm, am>>

None == [user |-> "none", expires |-> 0]
Session == [user : Users, expires : 0 .. 2 * MaxTime + 1]
MaxAge == 1
AuthInit == au = [current |-> None, session |-> None, status |-> "loading", mounted |-> FALSE,
                  sessionCallback |-> None, now |-> 0, wrong |-> FALSE, providers |-> <<"app">>,
                  pending |-> [o \in SignIns |-> "idle"]]

\* The session callback that a hydration leaves behind replaces any session.
CreateSession(s, user) ==
  IF s.sessionCallback # None THEN s.sessionCallback
  ELSE [user |-> user, expires |-> s.now + MaxAge]

GetSession(s) == IF s.now > s.current.expires THEN [s EXCEPT !.current = None] ELSE s
Show(s, session) == [s EXCEPT !.session = session,
                              !.status = IF session = None THEN "unauthenticated" ELSE "authenticated"]

HydrateSession ==
  /\ Hydrates /\ ~au.mounted /\ au.current = None
  /\ \E u \in Users : LET session == [user |-> u, expires |-> au.now + MaxAge]
       IN au' = [au EXCEPT !.sessionCallback = session, !.current = session]
UseSession ==
  /\ ~au.mounted
  /\ LET s == GetSession(au)
     IN au' = [(IF s.current = None THEN [s EXCEPT !.status = "unauthenticated"]
                ELSE Show(s, s.current)) EXCEPT !.mounted = TRUE]
SignIn(o) == /\ au.mounted /\ au.pending[o] = "idle"
             /\ au' = [au EXCEPT !.pending[o] = "authorizing", !.status = "loading"]
\* The provider accepts a user.
Authorized(o, user) ==
  /\ au.pending[o] = "authorizing"
  /\ LET session == CreateSession(au, user)
     IN au' = [Show([au EXCEPT !.current = session], session)
                 EXCEPT !.pending[o] = "done", !.wrong = @ \/ session.user # user]
\* No user, a sign-in callback that refuses, an unknown provider, an OAuth one
\* or an exception: the signals are cleared, the session of createAuth is not.
NotAuthorized(o) == /\ au.pending[o] = "authorizing"
                    /\ au' = [Show(au, None) EXCEPT !.pending[o] = "done"]
SignOut == /\ au.mounted /\ au.current # None
           /\ au' = Show([au EXCEPT !.current = None], None)
Refresh == /\ au.mounted
           /\ LET s == GetSession(au) IN au' = Show(s, s.current)
Tick == au.now < MaxTime /\ au' = [au EXCEPT !.now = @ + 1]
AuthNext ==
  \/ HydrateSession \/ UseSession \/ SignOut \/ Refresh \/ Tick
  \/ \E o \in SignIns : SignIn(o) \/ NotAuthorized(o) \/ \E u \in Users : Authorized(o, u)

----------------------------------------------------------------------------
(* SessionManager: the token is its own session id.  Signing runs on another *)
(* thread, so a refresh is two steps.                                        *)
Tokens == 1 .. MaxTokens
\* line is history: a login starts one, and so does a refresh that begins while
\* another of the same token is being signed.
RefreshRecord == [chain : 0 .. MaxTokens, line : Nat, expiresAt : 0 .. MaxTime + 1, revoked : BOOLEAN]
Gone == [chain |-> 0, line |-> 0, expiresAt |-> 0, revoked |-> TRUE]
SMInit == sm = [refreshTokenStore |-> [t \in Tokens |-> Gone], next |-> 1, now |-> 0, lines |-> 0,
                signing |-> [r \in Refreshes |-> Gone], old |-> [r \in Refreshes |-> 0]]

Live(t) == sm.refreshTokenStore[t].chain # 0 /\ ~sm.refreshTokenStore[t].revoked
NewSession ==
  /\ sm.next <= MaxTokens
  /\ sm' = [sm EXCEPT !.next = @ + 1, !.lines = @ + 1, !.refreshTokenStore[sm.next] =
              [chain |-> sm.next, line |-> sm.lines + 1, expiresAt |-> sm.now + MaxAge, revoked |-> FALSE]]
\* refreshSession() up to its await.
RefreshSession(r, t) ==
  /\ sm.signing[r] = Gone /\ Live(t) /\ sm.now <= sm.refreshTokenStore[t].expiresAt
  /\ sm' = IF \E o \in Refreshes : sm.old[o] = t
           THEN [sm EXCEPT !.signing[r] = [sm.refreshTokenStore[t] EXCEPT !.line = sm.lines + 1],
                           !.old[r] = t, !.lines = @ + 1]
           ELSE [sm EXCEPT !.signing[r] = sm.refreshTokenStore[t], !.old[r] = t]
\* Broken variant: the old refresh token is not revoked.
SignedKeepingOld(r) ==
  /\ sm.old[r] # 0 /\ sm.next <= MaxTokens
  /\ sm' = [sm EXCEPT !.refreshTokenStore[sm.next] = [sm.signing[r] EXCEPT !.revoked = FALSE],
                      !.next = @ + 1, !.signing[r] = Gone, !.old[r] = 0]
Signed(r) ==
  /\ sm.old[r] # 0 /\ sm.next <= MaxTokens
  /\ sm' = [sm EXCEPT !.refreshTokenStore =
              [t \in Tokens |-> CASE t = sm.next -> [sm.signing[r] EXCEPT !.revoked = FALSE]
                                  [] t = sm.old[r] /\ t # sm.next ->
                                       [sm.refreshTokenStore[t] EXCEPT !.revoked = TRUE]
                                  [] OTHER -> sm.refreshTokenStore[t]],
              !.next = @ + 1, !.signing[r] = Gone, !.old[r] = 0]
\* destroySession(), revokeRefreshToken(): a refresh under way goes on.
DestroySession(t) ==
  /\ sm.refreshTokenStore[t] # Gone
  /\ sm' = [sm EXCEPT !.refreshTokenStore[t] = Gone]
ClockTick == sm.now < MaxTime /\ sm' = [sm EXCEPT !.now = @ + 1]
SMNext == \/ NewSession \/ ClockTick
          \/ \E t \in Tokens : DestroySession(t) \/ \E r \in Refreshes : RefreshSession(r, t)
          \/ \E r \in Refreshes : Signed(r)

----------------------------------------------------------------------------
(* The middleware.  A token is absent, garbage, expired, or a user's.        *)
CandidateTokens == {"absent", "garbage", "expired", "alice"}
MiddlewareContext ==
  [bearer : CandidateTokens, cookie : CandidateTokens, object : {"absent", "alice"},
   memory : {"none", "bob"}, roles : {{}, {"admin"}}, method : {"GET", "POST", "TRACE"},
   submitted : {<<>>, <<1>>, <<1, 0>>}, expected : {<<>>, <<1>>}]

Sha256(data) == <<"sha256", data>>   \* taken to be free of collisions
HmacSha256(secret, message) == Sha256(<<secret, "o", Sha256(<<secret, "i", message>>)>>)
EncodeJWT(payload, secret) == [payload |-> payload, sig |-> HmacSha256(secret, payload)]
VerifyJWT(token, secret, now) ==
  IF token.sig = HmacSha256(secret, token.payload) /\ now <= token.payload.exp
  THEN token.payload.sub ELSE "none"
TokenOf(t) == EncodeJWT([sub |-> "alice", exp |-> IF t = "expired" THEN 0 ELSE 1],
                        IF t = "garbage" THEN "other" ELSE "secret")

\* A payload that cannot be decoded falls back to the session in memory.
ResolveSessionFromToken(t, memory) ==
  CASE t = "expired" -> "none" [] t = "garbage" -> memory [] OTHER -> t
Protect(c) ==
  LET bearer == IF c.bearer = "absent" THEN "none" ELSE ResolveSessionFromToken(c.bearer, c.memory)
      cookie == IF c.cookie = "absent" THEN "none" ELSE ResolveSessionFromToken(c.cookie, c.memory)
  IN CASE bearer # "none" -> bearer [] bearer = "none" /\ cookie # "none" -> cookie
       [] OTHER -> c.memory
RequireRole(c, user, roles) == CASE user = "none" -> 401
                                 [] user # "none" /\ c.roles \cap roles = {} -> 403
                                 [] OTHER -> 200
\* compose(protect(), requireRole(roles))
Compose(c, roles) == IF Protect(c) = "none" THEN 401 ELSE RequireRole(c, Protect(c), roles)

GetServerSession(c) ==
  LET verify(t) == IF t = "absent" THEN "none" ELSE VerifyJWT(TokenOf(t), "secret", 1)
  IN CASE verify(c.cookie) # "none" -> verify(c.cookie)
       [] verify(c.cookie) = "none" /\ verify(c.bearer) # "none" -> verify(c.bearer)
       [] OTHER -> verify(c.object)

Padded(x, len) == [i \in 1 .. len |-> IF i <= Len(x) THEN x[i] ELSE 0]
TimingSafeEqual(a, b) ==
  LET len == IF Len(a) > Len(b) THEN Len(a) ELSE Len(b)
  IN Len(a) = Len(b) /\ \A i \in 1 .. len : Padded(a, len)[i] = Padded(b, len)[i]
CsrfMiddleware(c) ==
  CASE c.method \notin {"POST", "PUT", "DELETE", "PATCH"} -> "valid"
    [] OTHER -> CASE c.submitted = <<>> -> "missing"
                  [] c.submitted # <<>> /\ c.expected = <<>> -> "no session"
                  [] OTHER -> IF TimingSafeEqual(c.submitted, c.expected) THEN "valid" ELSE "invalid"

AMInit == am \in MiddlewareContext

----------------------------------------------------------------------------
\* The view alone.
ViewInit == AuthInit /\ SMInit /\ am = (CHOOSE c \in MiddlewareContext : TRUE)
ViewNext == AuthNext /\ UNCHANGED <<sm, am>>
ViewSpec == ViewInit /\ [][ViewNext]_authVars

----------------------------------------------------------------------------
AuthTypes ==
  /\ {au.current, au.session, au.sessionCallback} \subseteq Session \cup {None}
  /\ au.status \in {"loading", "authenticated", "unauthenticated"}
  /\ \A t \in Tokens : sm.refreshTokenStore[t] \in RefreshRecord
  /\ am \in MiddlewareContext

\* With no sign-in under way the view is settled, and what it shows is the
\* session createAuth holds, or one that has expired since (session.ts:85).
SignedInShown ==
  (au.mounted /\ \A o \in SignIns : au.pending[o] # "authorizing") =>
     /\ au.status = IF au.session = None THEN "unauthenticated" ELSE "authenticated"
     /\ au.session # None => au.current = au.session \/ au.now > au.session.expires

\* Signing in gives a session of the user who signed in.
SignInIsOwn == ~au.wrong

\* A login has at most one live refresh token and one more for each of its
\* refreshes that began while another of the same token was between the check and
\* the revocation (session.ts:275 and 292), whatever is signed out meanwhile; and
\* refreshing never extends it.
OneLiveToken ==
  \A t, u \in Tokens :
    LET a == sm.refreshTokenStore[t]
        b == sm.refreshTokenStore[u]
    IN Live(t) /\ Live(u) => /\ a.line = b.line => t = u
                             /\ a.chain = b.chain => a.expiresAt = b.expiresAt

\* What the guards decide for a request, whatever it carries at once.
DecisionsRight ==
  LET valid(t) == t = "alice"
  IN /\ GetServerSession(am) = IF \E t \in {am.bearer, am.cookie, am.object} : valid(t)
                               THEN "alice" ELSE "none"
     /\ (Protect(am) = "none") = (~valid(am.bearer) /\ ~valid(am.cookie) /\ am.memory = "none")
     /\ (Compose(am, {"admin"}) = 200) = (Protect(am) # "none" /\ "admin" \in am.roles)
     /\ (CsrfMiddleware(am) = "valid") = (am.method # "POST" \/ (am.submitted = am.expected
                                                                /\ am.expected # <<>>))
=============================================================================
