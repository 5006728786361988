----------------------------- MODULE AdminAuth -----------------------------
(***************************************************************************)
(* Signing in to and out of the admin console: internal/auth (session.go,  *)
(* auth.go, oidc.go, local.go) with the browsers that carry its cookies    *)
(* and the identity provider of OIDC mode.  A request takes the cookies    *)
(* along when it is sent; its answer sets cookies when it arrives, if it   *)
(* arrives.  Requests of one browser (several tabs) run side by side.      *)
(*                                                                         *)
(* Tokens from crypto/rand are numbers that are never given out twice, and *)
(* a cookie's signature cannot be wrong: a session cookie is its session   *)
(* id.  state, nonce and PKCE verifier of one login are minted, set and    *)
(* read together, so the number of the login stands for all three.         *)
(***************************************************************************)
EXTENDS Integers, FiniteSets

CONSTANTS
    Procs,      \* goroutines serving /admin requests
    Browsers,
    Users,      \* those who can authenticate
    Admins,     \* members of the admin group, or the local credentials
    Modes,      \* configurations: [oidc, rpLogout], see below
    TTL,        \* auth.sessionTTL
    Null,
    MaxClock, MaxSids, MaxLogins   \* bounds

ASSUME UsersAssumption == Admins \subseteq Users
\* oidc: auth.mode is "oidc", else "local".  rpLogout: the provider and the
\* configuration know a logout redirect.
ASSUME ModesAssumption ==
    /\ Modes \subseteq [oidc : BOOLEAN, rpLogout : BOOLEAN]
    /\ \A m \in Modes : m.rpLogout => m.oidc
ASSUME TTLAssumption == TTL \in Nat \ {0}
ASSUME BoundsAssumption == MaxClock \in Nat /\ MaxSids \in Nat /\ MaxLogins \in Nat

VARIABLES
    mode,       \* the configuration
    sessions,   \* byID: [sid, user, expiry]
    lastSid,    \* session ids minted
    lastLogin,  \* OIDC logins started
    clock,      \* time.Now()
    job,        \* job[p]: the request goroutine p serves
    jar,        \* jar[b]: cookies of browser b, [sid, temp], 0 for none
    nav,        \* nav[b]: where the tab of b that signs out stands
    asked,      \* logins whose redirect has reached the provider
    codes,      \* callback URLs the provider sent out: [login, user, spent]
    begun,      \* history: [login, b], which browser began a login
    born,       \* history: sessions created, with the browser and the login
    ended       \* history: the ids a Logout has revoked

server == <<mode, lastSid, lastLogin>>
jobVars == <<server, job>>
userVars == <<jar, nav, asked, codes>>
history == <<begun, born, ended>>
vars == <<sessions, jobVars, clock, userVars, history>>

Session == [sid : Nat, user : Users, expiry : Nat]

Job == [pc    : {"idle", "state", "exchange", "verify", "create",
                 "gate", "work", "live", "revoke", "reply"},
        b     : Browsers \cup {Null},
        sid   : Nat,   \* session cookie: presented, or to be set
        temp  : Nat,   \* temporary cookies presented
        login : Nat,   \* the login a callback URL belongs to, or one begun
        user  : Users \cup {Null},
        exp   : Nat,   \* expiry of the session to be created
        had   : BOOLEAN,
        then  : {"none", "denied", "page", "idp", "console", "endsession", "signedout"}]

IdleJob == [pc |-> "idle", b |-> Null, sid |-> 0, temp |-> 0, login |-> 0,
            user |-> Null, exp |-> 0, had |-> FALSE, then |-> "none"]

----------------------------------------------------------------------------
(***************************************************************************)
(* The session store.  Every method is one critical section.               *)
(***************************************************************************)
\* time.Now().After(sess.expiry)
Over(s) == clock > s.expiry

\* Wrong variant: minus for plus.
ExpiryBefore == clock - TTL

\* create's expiry
Expiry == clock + TTL

Live(sid) == \E s \in sessions : s.sid = sid /\ ~Over(s)

\* Wrong variant: a session that is used gets another TTL.
AfterGetRenewed(sid) ==
    {IF s.sid = sid THEN [s EXCEPT !.expiry = clock + TTL] ELSE s
       : s \in {s \in sessions : ~(s.sid = sid /\ Over(s))}}

\* get: an expired session is dropped when it is asked for.
AfterGet(sid) == {s \in sessions : ~(s.sid = sid /\ Over(s))}

\* create: insert, then sweepLocked
AfterCreate(new) == {s \in sessions \cup {new} : ~Over(s)}

\* Wrong variant: every session of the user.
AfterRevokeUser(sid) ==
    {s \in sessions : \A t \in sessions : t.sid = sid => t.user # s.user}

\* revoke
AfterRevoke(sid) == {s \in sessions : s.sid # sid}

\* Wrong variant: any user who can authenticate.
IsAnyone(u) == u \in Users

\* contains(groups, AdminGroup), or admins[user] with the right password
IsAdmin(u) == u \in Admins

\* Wrong variant: the redirect does not depend on the session.
ToProviderAlways(had) == mode.rpLogout

\* Logout's redirect to the provider.
ToProvider(had) == mode.rpLogout /\ had

----------------------------------------------------------------------------
Init ==
    /\ mode \in Modes
    /\ sessions = {}
    /\ lastSid = 0 /\ lastLogin = 0
    /\ clock = 0
    /\ job = [p \in Procs |-> IdleJob]
    /\ jar = [b \in Browsers |-> [sid |-> 0, temp |-> 0]]
    /\ nav = [b \in Browsers |-> "other"]
    /\ asked = {} /\ codes = {}
    /\ begun = {} /\ born = {} /\ ended = {}

Become(p, j) == job' = [job EXCEPT ![p] = j]
Answer(p, then) == Become(p, [job[p] EXCEPT !.pc = "reply", !.then = then])

\* A request leaves browser b with the cookies it has now.
Send(p, b, r) ==
    /\ job[p].pc = "idle"
    /\ Become(p, [r EXCEPT !.b = b, !.sid = jar[b].sid, !.temp = jar[b].temp])

(***************************************************************************)
(* Signing in.                                                             *)
(***************************************************************************)
\* oidcProvider.login: state, nonce and verifier are minted.
Login(p, b) ==
    /\ mode.oidc
    /\ lastLogin < MaxLogins
    /\ lastLogin' = lastLogin + 1
    /\ Send(p, b, [IdleJob EXCEPT !.pc = "reply", !.login = lastLogin', !.then = "idp"])
    /\ begun' = begun \cup {[login |-> lastLogin', b |-> b]}
    /\ UNCHANGED <<sessions, mode, lastSid, clock, userVars, born, ended>>

\* The provider authenticates the user and redirects to /admin/callback.
Authorize(n, u) ==
    /\ n \in asked
    /\ \A c \in codes : c.login = n => c.user # u
    /\ codes' = codes \cup {[login |-> n, user |-> u, spent |-> FALSE]}
    /\ UNCHANGED <<sessions, jobVars, clock, jar, nav, asked, history>>

\* Wrong variant: state and verifier are taken from the URL.
CallbackTrustsUrl(p, b, c) ==
    /\ job[p].pc = "idle"
    /\ Become(p, [IdleJob EXCEPT !.pc = "state", !.b = b, !.temp = c.login,
                                 !.login = c.login, !.user = c.user])
    /\ UNCHANGED <<sessions, server, clock, userVars, history>>

\* A browser opens a callback URL: the redirect, a reload, or the address
\* copied to another browser.
Callback(p, b, c) ==
    /\ Send(p, b, [IdleJob EXCEPT !.pc = "state", !.login = c.login, !.user = c.user])
    /\ UNCHANGED <<sessions, server, clock, userVars, history>>

\* The query's state against the cookie; the provider may also have reported
\* an error instead of a code.
CheckState(p) ==
    /\ job[p].pc = "state"
    /\ \/ /\ job[p].temp # 0 /\ job[p].temp = job[p].login
          /\ Become(p, [job[p] EXCEPT !.pc = "exchange"])
       \/ Answer(p, "denied")
    /\ UNCHANGED <<sessions, server, clock, userVars, history>>

\* Exchange: the provider takes a code once, and with the verifier of the
\* login it belongs to.  Its answer may be lost.
Exchange(p) ==
    /\ job[p].pc = "exchange"
    /\ \/ \E c \in codes :
             /\ c.login = job[p].login /\ c.user = job[p].user
             /\ ~c.spent /\ c.login = job[p].temp
             /\ codes' = (codes \ {c}) \cup {[c EXCEPT !.spent = TRUE]}
             /\ \/ Become(p, [job[p] EXCEPT !.pc = "verify"])
                \/ Answer(p, "denied")
       \/ Answer(p, "denied") /\ UNCHANGED codes
    /\ UNCHANGED <<sessions, server, clock, jar, nav, asked, history>>

\* localProvider: the form is posted.
Submit(p, b, u) ==
    /\ ~mode.oidc
    /\ Send(p, b, [IdleJob EXCEPT !.pc = "verify", !.user = u])
    /\ UNCHANGED <<sessions, server, clock, userVars, history>>

\* ID token, nonce and groups; or the password.  create reads the time before
\* it queues for the lock.
Verify(p) ==
    /\ job[p].pc = "verify"
    /\ \/ /\ IsAdmin(job[p].user)
          /\ Become(p, [job[p] EXCEPT !.pc = "create", !.exp = Expiry])
       \/ Answer(p, "denied")
    /\ UNCHANGED <<sessions, server, clock, userVars, history>>

Create(p) ==
    LET j   == job[p]
        new == [sid |-> lastSid + 1, user |-> j.user, expiry |-> j.exp]
    IN /\ j.pc = "create"
       /\ lastSid < MaxSids
       /\ lastSid' = lastSid + 1
       /\ sessions' = AfterCreate(new)
       /\ Become(p, [j EXCEPT !.pc = "reply", !.sid = new.sid, !.then = "console"])
       /\ born' = born \cup {[sid |-> new.sid, user |-> j.user, expiry |-> j.exp,
                              b |-> j.b, login |-> j.login]}
       /\ UNCHANGED <<mode, lastLogin, clock, userVars, begun, ended>>

(***************************************************************************)
(* The gates, and the handlers behind them.                                *)
(***************************************************************************)
Visit(p, b) ==
    /\ Send(p, b, [IdleJob EXCEPT !.pc = "gate"])
    /\ UNCHANGED <<sessions, server, clock, userVars, history>>

\* GateUI, GateAPI
Gate(p) ==
    /\ job[p].pc = "gate"
    /\ sessions' = AfterGet(job[p].sid)
    /\ IF Live(job[p].sid) THEN Become(p, [job[p] EXCEPT !.pc = "work"])
                           ELSE Answer(p, "denied")
    /\ UNCHANGED <<server, clock, userVars, history>>

\* The handler; adminListPastes asks for the identity once more at its end.
Work(p) ==
    /\ job[p].pc = "work"
    /\ sessions' \in {sessions, AfterGet(job[p].sid)}
    /\ Answer(p, "page")
    /\ UNCHANGED <<server, clock, userVars, history>>

(***************************************************************************)
(* Signing out.                                                            *)
(***************************************************************************)
Leaving(b) == nav[b] \in {"logout", "endsession"}

\* The user asks for /admin/logout, or the provider sends the browser back.
Logout(p, b) ==
    /\ nav[b] # "logout"
    /\ Send(p, b, [IdleJob EXCEPT !.pc = "live"])
    /\ nav' = [nav EXCEPT ![b] = "logout"]
    /\ UNCHANGED <<sessions, server, clock, jar, asked, codes, history>>

LogoutGet(p) ==
    /\ job[p].pc = "live"
    /\ sessions' = AfterGet(job[p].sid)
    /\ Become(p, [job[p] EXCEPT !.pc = "revoke", !.had = Live(job[p].sid)])
    /\ UNCHANGED <<server, clock, userVars, history>>

LogoutRevoke(p) ==
    /\ job[p].pc = "revoke"
    /\ sessions' = AfterRevoke(job[p].sid)
    /\ Answer(p, IF ToProvider(job[p].had) THEN "endsession" ELSE "signedout")
    /\ ended' = ended \cup {job[p].sid}
    /\ UNCHANGED <<server, clock, userVars, begun, born>>

(***************************************************************************)
(* Answers, and what else happens to browsers and to the process.          *)
(***************************************************************************)
\* The Set-Cookie headers of an answer.  callback's deferred clearTempCookie
\* calls run after http.Redirect or http.Error have written the header and
\* add nothing to it.
NewJar(j) ==
    CASE j.then = "idp"     -> [jar[j.b] EXCEPT !.temp = j.login]
      [] j.then = "console" -> [jar[j.b] EXCEPT !.sid = j.sid]
      [] j.then \in {"endsession", "signedout"} -> [jar[j.b] EXCEPT !.sid = 0]
      [] OTHER -> jar[j.b]

Deliver(p) ==
    LET j == job[p]
    IN /\ j.pc = "reply"
       /\ jar' = [jar EXCEPT ![j.b] = NewJar(j)]
       /\ nav' = [nav EXCEPT ![j.b] = IF j.then \in {"endsession", "signedout"}
                                      THEN j.then ELSE @]
       /\ asked' = IF j.then = "idp" THEN asked \cup {j.login} ELSE asked
       /\ Become(p, IdleJob)
       /\ UNCHANGED <<sessions, server, clock, codes, history>>

SigningOut(j) == j.pc \in {"live", "revoke"} \/ j.then \in {"endsession", "signedout"}

\* The connection breaks; the answer is not seen.
Lost(p) ==
    LET j == job[p]
    IN /\ j.pc = "reply"
       /\ nav' = [nav EXCEPT ![j.b] = IF SigningOut(j) THEN "other" ELSE @]
       /\ Become(p, IdleJob)
       /\ UNCHANGED <<sessions, server, clock, jar, asked, codes, history>>

\* MaxAge is over, or the user clears cookies.
Forget(b) ==
    /\ jar' \in {[jar EXCEPT ![b].sid = 0], [jar EXCEPT ![b].temp = 0]}
    /\ jar' # jar
    /\ UNCHANGED <<sessions, jobVars, clock, nav, asked, codes, history>>

\* Sessions live only in memory; the configuration is the same.
Restart ==
    /\ sessions' = {}
    /\ job' = [p \in Procs |-> IdleJob]
    /\ nav' = [b \in Browsers |-> IF nav[b] = "logout" THEN "other" ELSE nav[b]]
    /\ UNCHANGED <<server, clock, jar, asked, codes, history>>

Tick ==
    /\ clock < MaxClock
    /\ clock' = clock + 1
    /\ UNCHANGED <<sessions, jobVars, userVars, history>>

Step(p) ==
    \/ CheckState(p) \/ Exchange(p) \/ Verify(p) \/ Create(p)
    \/ Gate(p) \/ Work(p)
    \/ LogoutGet(p) \/ LogoutRevoke(p)
    \/ Deliver(p)

Ask(p, b) ==
    \/ Login(p, b)
    \/ \E c \in codes : Callback(p, b, c)
    \/ \E u \in Users : Submit(p, b, u)
    \/ Visit(p, b)
    \/ Logout(p, b)

Next ==
    \/ \E p \in Procs :
          \/ \E b \in Browsers : Ask(p, b)
          \/ Step(p)
          \/ Lost(p)
    \/ \E n \in asked, u \in Users : Authorize(n, u)
    \/ \E b \in Browsers : Forget(b)
    \/ Restart
    \/ Tick

Spec == Init /\ [][Next]_vars

\* Requests are served and answered, and a redirect back from the provider is
\* followed when there is a goroutine for it.
FairSpec ==
    /\ Spec
    /\ \A p \in Procs : WF_vars(Step(p))
    /\ \A b \in Browsers :
          SF_vars(nav[b] = "endsession" /\ \E p \in Procs : Logout(p, b))

----------------------------------------------------------------------------
(***************************************************************************)
(* Properties.                                                             *)
(***************************************************************************)
TypeOK ==
    /\ mode \in Modes
    /\ sessions \in SUBSET Session
    /\ \A s, t \in sessions : s.sid = t.sid => s = t
    /\ lastSid \in Nat /\ lastLogin \in Nat /\ clock \in Nat
    /\ job \in [Procs -> Job]
    /\ \A p \in Procs : job[p].pc # "idle" => job[p].b \in Browsers
    /\ jar \in [Browsers -> [sid : 0..lastSid, temp : 0..lastLogin]]
    /\ nav \in [Browsers -> {"other", "logout", "endsession", "signedout"}]
    /\ asked \subseteq 1..lastLogin
    /\ codes \subseteq [login : asked, user : Users, spent : BOOLEAN]

\* oidc.go: a session is made only for a member of the admin group, and in
\* OIDC mode only in the browser that began the login, once per code -
\* whatever tabs overwrite each other's temporary cookies, callbacks are
\* reloaded or opened elsewhere, and answers get lost.
SessionsAreEarned ==
    \A s \in born :
        /\ s.user \in Admins
        /\ s.login = 0 => \E m \in Modes : ~m.oidc
        /\ s.login # 0 =>
              /\ [login |-> s.login, b |-> s.b] \in begun
              /\ \A t \in born : (s.login = t.login /\ s.user = t.user) => s = t

\* docs/DESIGN.md: "logout/expiry revoke immediately".  A gate lets nobody
\* through on a session that has been revoked or is older than its TTL, and
\* no use of a session makes it last longer.
AdmittedInTime ==
    [][\A p \in Procs :
          (job[p].pc = "gate" /\ job'[p].pc = "work") =>
             /\ job[p].sid \notin ended
             /\ \E s \in born : s.sid = job[p].sid /\ clock <= s.expiry]_vars

\* A session ends because its time is over, because somebody signs out with
\* it or because the process restarts: not because of another administrator's
\* login and its sweep, or another one's logout.
SessionEndsForCause ==
    [][\A s \in sessions : (\A t \in sessions' : t.sid # s.sid) =>
          \/ clock > s.expiry
          \/ \E p \in Procs : job[p].pc = "revoke" /\ job[p].sid = s.sid
          \/ \A p \in Procs : job'[p] = IdleJob]_vars

\* auth.go: Logout "lands back here with no session and renders the
\* logged-out page (no redirect loop)".
LogoutLands == \A b \in Browsers : Leaving(b) ~> ~Leaving(b)

=============================================================================
