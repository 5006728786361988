--------------------------- MODULE AdminAuthProofs ---------------------------
(***************************************************************************)
(* Proofs about AdminAuth, for any goroutines, browsers, users, admins,    *)
(* modes and session lifetimes: every interleaving of tabs, lost answers,  *)
(* reloaded callbacks, sweeps, logouts and restarts.                       *)
(***************************************************************************)
EXTENDS AdminAuth, TLAPS

USE UsersAssumption, ModesAssumption, TTLAssumption, BoundsAssumption
    DEF UsersAssumption, ModesAssumption, TTLAssumption, BoundsAssumption

-----------------------------------------------------------------------------
(***************************************************************************)
(* The inductive invariant.                                                *)
(***************************************************************************)
Begun(n, b) == [login |-> n, b |-> b] \in begun

\* What a request knows is true: its temporary cookies were minted for its
\* browser, and from the exchange on it belongs to the login of those cookies.
GoodJob(j) ==
    /\ j \in Job
    /\ j.sid <= lastSid /\ j.temp <= lastLogin /\ j.login <= lastLogin
    /\ j.pc # "idle" => j.b \in Browsers
    /\ j.pc # "idle" /\ j.temp # 0 => Begun(j.temp, j.b)
    /\ j.pc = "reply" /\ j.then = "idp" => j.login # 0 /\ Begun(j.login, j.b)
    /\ j.pc \in {"state", "exchange"} => j.login # 0 /\ j.user \in Users
    /\ j.pc = "exchange" => j.temp = j.login
    /\ j.pc \in {"verify", "create"} =>
          /\ j.user \in Users
          /\ j.login = 0 => ~mode.oidc
          /\ j.login # 0 => Begun(j.login, j.b)
    /\ j.pc = "create" => j.user \in Admins

\* A cookie jar has only temporary cookies that its own browser was given.
CookiesKnown ==
    \A b \in Browsers : jar[b].temp # 0 => Begun(jar[b].temp, b)

\* A session was born under its id with its expiry, and nobody has signed out
\* with it.
SessionsKnown ==
    /\ born \subseteq [sid : 1..lastSid, user : Users, expiry : Nat,
                       b : Browsers, login : Nat]
    /\ ended \subseteq 0..lastSid
    /\ \A s \in sessions : /\ s.sid \in 1..lastSid /\ s.sid \notin ended
                           /\ \E t \in born : t.sid = s.sid /\ t.expiry = s.expiry

\* A request that has redeemed a code for login n and user u.
Holds(j, n, u) == j.pc \in {"verify", "create"} /\ j.login = n /\ j.user = u

Redeemed(n, u) == \E c \in codes : c.login = n /\ c.user = u /\ c.spent

\* A code is spent once, and what came of it is one request or one session.
CodesOnce ==
    /\ \A c, d \in codes : c.login = d.login /\ c.user = d.user => c = d
    /\ \A n \in 1..lastLogin, u \in Users :
          /\ \A p \in Procs : Holds(job[p], n, u) => Redeemed(n, u)
          /\ \A p, q \in Procs : Holds(job[p], n, u) /\ Holds(job[q], n, u) => p = q
          /\ \A s \in born : s.login = n /\ s.user = u =>
                Redeemed(n, u) /\ \A p \in Procs : ~Holds(job[p], n, u)

AuthInv ==
    /\ TypeOK
    /\ \A p \in Procs : GoodJob(job[p])
    /\ CookiesKnown
    /\ SessionsKnown
    /\ CodesOnce
    /\ \A s \in born : s.login <= lastLogin
    /\ SessionsAreEarned

-----------------------------------------------------------------------------
(***************************************************************************)
(* Steps that move one request along.                                      *)
(***************************************************************************)
\* A request of which nothing is known but what Job says.
LEMMA JobFields ==
    ASSUME NEW j \in Job
    PROVE  /\ j.b \in Browsers \cup {Null} /\ j.sid \in Nat /\ j.temp \in Nat
           /\ j.login \in Nat /\ j.user \in Users \cup {Null} /\ j.exp \in Nat
           /\ j.had \in BOOLEAN
BY DEF Job

\* What is known of one request survives new sessions, logins and logouts.
LEMMA GoodJobStays ==
    ASSUME NEW j, GoodJob(j), mode' = mode, lastSid \in Nat, lastLogin \in Nat,
           lastSid' \in Nat, lastLogin' \in Nat, lastSid <= lastSid',
           lastLogin <= lastLogin', begun \subseteq begun'
    PROVE  GoodJob(j)'
<1>1. j.sid \in Nat /\ j.temp \in Nat /\ j.login \in Nat
  BY JobFields DEF GoodJob
<1>2. j.sid <= lastSid' /\ j.temp <= lastLogin' /\ j.login <= lastLogin'
  BY <1>1 DEF GoodJob
<1> QED BY <1>2 DEF GoodJob, Begun

\* Replacing one goroutine's request by a good one.
LEMMA OneJob ==
    ASSUME TypeOK, \A q \in Procs : GoodJob(job[q]), NEW p \in Procs, NEW j, GoodJob(j),
           job' = [job EXCEPT ![p] = j], mode' = mode,
           lastSid' \in Nat, lastLogin' \in Nat, lastSid <= lastSid',
           lastLogin <= lastLogin', begun \subseteq begun'
    PROVE  /\ job' \in [Procs -> Job] /\ job'[p] = j
           /\ \A q \in Procs \ {p} : job'[q] = job[q]
           /\ \A q \in Procs : job'[q].pc # "idle" => job'[q].b \in Browsers
           /\ (\A q \in Procs : GoodJob(job[q]))'
<1>1. j \in Job /\ (j.pc # "idle" => j.b \in Browsers)
  BY DEF GoodJob
<1>2. /\ job' \in [Procs -> Job] /\ job'[p] = j
      /\ \A q \in Procs \ {p} : job'[q] = job[q]
  BY <1>1 DEF TypeOK
<1>3. \A q \in Procs : job'[q].pc # "idle" => job'[q].b \in Browsers
  BY <1>1, <1>2 DEF TypeOK
<1>4. ASSUME NEW q \in Procs PROVE GoodJob(job[q])'
  <2>1. PICK k : k = job'[q]
    OBVIOUS
  <2>2. GoodJob(k)
    BY <1>2, <2>1
  <2>3. GoodJob(k)'
    BY <2>2, GoodJobStays DEF TypeOK
  <2> QED BY <2>1, <2>3 DEF GoodJob, Begun
<1> QED BY <1>2, <1>3, <1>4

\* A step that does nothing but move a request along, revoke and drop sessions
\* and move the tab that signs out.  Only a new redemption needs more.
LEMMA QuietStep ==
    ASSUME AuthInv, NEW p \in Procs, NEW j, GoodJob(j),
           job' = [job EXCEPT ![p] = j],
           j.pc \in {"verify", "create"} =>
              \/ j.login = 0
              \/ Holds(job[p], j.login, j.user),
           sessions' \in SUBSET sessions,
           \/ ended' = ended
           \/ ended' = ended \cup {job[p].sid} /\ \A s \in sessions' : s.sid # job[p].sid,
           nav' \in [Browsers -> {"other", "logout", "endsession", "signedout"}],
           UNCHANGED <<mode, lastSid, lastLogin, clock, jar, asked, codes, begun, born>>
    PROVE  AuthInv'
<1>0. TypeOK /\ \A q \in Procs : GoodJob(job[q])
  BY DEF AuthInv
<1>1. /\ job' \in [Procs -> Job] /\ job'[p] = j
      /\ \A q \in Procs \ {p} : job'[q] = job[q]
      /\ \A q \in Procs : job'[q].pc # "idle" => job'[q].b \in Browsers
      /\ (\A q \in Procs : GoodJob(job[q]))'
  <2>1. /\ mode' = mode /\ begun \subseteq begun'
        /\ lastSid' \in Nat /\ lastLogin' \in Nat /\ lastSid <= lastSid'
        /\ lastLogin <= lastLogin'
    BY <1>0 DEF TypeOK
  <2> HIDE DEF TypeOK
  <2> QED BY <1>0, <2>1, OneJob, Zenon
<1>2. TypeOK'
  BY <1>0, <1>1 DEF TypeOK
<1>3. CookiesKnown' /\ SessionsAreEarned' /\ (\A s \in born : s.login <= lastLogin)'
  BY DEF AuthInv, CookiesKnown, Begun, SessionsAreEarned
<1>4. SessionsKnown'
  <2>1. job[p].sid \in 0..lastSid
    BY <1>0, JobFields DEF GoodJob, TypeOK
  <2> QED BY <2>1 DEF AuthInv, SessionsKnown
<1>5. CodesOnce'
  <2>1. ASSUME NEW q \in Procs, NEW n \in 1..lastLogin, NEW u \in Users, Holds(job'[q], n, u)
        PROVE  Holds(job[q], n, u)
    BY <1>1, <2>1 DEF Holds
  <2> QED BY <2>1 DEF AuthInv, CodesOnce, Holds, Redeemed
<1> QED BY <1>1, <1>2, <1>3, <1>4, <1>5 DEF AuthInv

-----------------------------------------------------------------------------
(***************************************************************************)
(* The actions, one lemma each.                                            *)
(***************************************************************************)
\* An answer other than the redirect to the provider needs nothing.
LEMMA GoodAnswer ==
    ASSUME NEW k, GoodJob(k), k.pc # "idle",
           NEW t \in {"denied", "page", "endsession", "signedout"}
    PROVE  /\ GoodJob([k EXCEPT !.pc = "reply", !.then = t])
           /\ [k EXCEPT !.pc = "reply", !.then = t].pc = "reply"
<1> DEFINE j == [k EXCEPT !.pc = "reply", !.then = t]
<1>1. /\ j \in Job /\ j.pc = "reply" /\ j.then = t /\ j.b = k.b /\ j.sid = k.sid
      /\ j.temp = k.temp /\ j.login = k.login /\ j.user = k.user
  BY DEF GoodJob, Job
<1> HIDE DEF j
<1>2. GoodJob(j)
  BY <1>1 DEF GoodJob
<1> QED BY <1>1, <1>2 DEF j

\* A step that answers and may drop sessions that are over or revoked.
LEMMA AnswerStep ==
    ASSUME AuthInv, NEW p \in Procs, job[p].pc # "idle",
           NEW t \in {"denied", "page", "endsession", "signedout"}, Answer(p, t),
           sessions' \in SUBSET sessions,
           \/ ended' = ended
           \/ ended' = ended \cup {job[p].sid} /\ \A s \in sessions' : s.sid # job[p].sid,
           UNCHANGED <<mode, lastSid, lastLogin, clock, jar, nav, asked, codes, begun, born>>
    PROVE  AuthInv'
<1>1. GoodJob(job[p])
  BY DEF AuthInv
<1> DEFINE j == [job[p] EXCEPT !.pc = "reply", !.then = t]
<1>2. GoodJob(j) /\ j.pc = "reply"
  BY <1>1, GoodAnswer
<1>3. job' = [job EXCEPT ![p] = j]
  BY DEF Answer, Become
<1> HIDE DEF j
<1>4. nav' \in [Browsers -> {"other", "logout", "endsession", "signedout"}]
  BY DEF AuthInv, TypeOK
<1> QED BY <1>2, <1>3, <1>4, QuietStep

LEMMA IdleIsJob ==
    /\ IdleJob \in Job /\ IdleJob.pc = "idle" /\ IdleJob.temp = 0 /\ IdleJob.login = 0
    /\ IdleJob.sid = 0
BY DEF IdleJob, Job

\* A request as it is before the browser adds its cookies.
Asks(r) ==
    /\ r \in Job /\ r.pc \in {"state", "verify", "gate", "live"}
    /\ r.login <= lastLogin
    /\ r.pc = "state" => r.login # 0 /\ r.user \in Users
    /\ r.pc = "verify" => r.login = 0 /\ ~mode.oidc /\ r.user \in Users

\* A request that leaves a browser, or the user's tab that signs out.
LEMMA SendStep ==
    ASSUME AuthInv, NEW p \in Procs, NEW b \in Browsers, NEW r, Asks(r), Send(p, b, r),
           nav' \in [Browsers -> {"other", "logout", "endsession", "signedout"}],
           UNCHANGED <<sessions, server, clock, jar, asked, codes, history>>
    PROVE  AuthInv'
<1> DEFINE j == [r EXCEPT !.b = b, !.sid = jar[b].sid, !.temp = jar[b].temp]
<1>1. /\ jar[b].sid \in Nat /\ jar[b].sid <= lastSid
      /\ jar[b].temp \in Nat /\ jar[b].temp <= lastLogin
      /\ jar[b].temp # 0 => Begun(jar[b].temp, b)
  BY DEF AuthInv, TypeOK, CookiesKnown
<1>2. /\ j \in Job /\ j.pc = r.pc /\ j.then = r.then /\ j.b = b /\ j.sid = jar[b].sid
      /\ j.temp = jar[b].temp /\ j.login = r.login /\ j.user = r.user
  BY <1>1 DEF Job, Asks
<1>3. job' = [job EXCEPT ![p] = j]
  BY DEF Send, Become
<1> HIDE DEF j
<1>4. j.pc \in {"state", "verify", "gate", "live"}
  BY <1>2 DEF Asks
<1>5. GoodJob(j)
  BY <1>1, <1>2, <1>4 DEF GoodJob, Asks
<1>6. j.pc \in {"verify", "create"} => j.login = 0
  BY <1>2 DEF Asks
<1>7. /\ sessions' \in SUBSET sessions /\ ended' = ended
      /\ UNCHANGED <<mode, lastSid, lastLogin, clock, jar, asked, codes, begun, born>>
  BY DEF server, history
<1> QED BY <1>3, <1>5, <1>6, <1>7, QuietStep

LEMMA VisitStep ==
    ASSUME AuthInv, NEW p \in Procs, NEW b \in Browsers, Visit(p, b)
    PROVE  AuthInv'
<1> DEFINE r == [IdleJob EXCEPT !.pc = "gate"]
<1>1. r \in Job
  BY IdleIsJob DEF Job, AuthInv, TypeOK
<1>2. r.pc = "gate" /\ r.login = 0
  BY IdleIsJob DEF Job
<1>3. Send(p, b, r)
  BY DEF Visit
<1> HIDE DEF r
<1>4. Asks(r)
  BY <1>1, <1>2 DEF Asks, AuthInv, TypeOK, Visit
<1>5. /\ nav' \in [Browsers -> {"other", "logout", "endsession", "signedout"}]
      /\ UNCHANGED <<sessions, server, clock, jar, asked, codes, history>>
  BY DEF AuthInv, TypeOK, Visit, userVars
<1> QED BY <1>3, <1>4, <1>5, SendStep

LEMMA CallbackStep ==
    ASSUME AuthInv, NEW p \in Procs, NEW b \in Browsers, NEW c \in codes, Callback(p, b, c)
    PROVE  AuthInv'
<1> DEFINE r == [IdleJob EXCEPT !.pc = "state", !.login = c.login, !.user = c.user]
<1>0. c.login \in Nat \ {0} /\ c.login <= lastLogin /\ c.user \in Users
  <2>1. c.login \in asked /\ c.user \in Users
    BY DEF AuthInv, TypeOK
  <2>2. c.login \in 1..lastLogin /\ lastLogin \in Nat
    BY <2>1 DEF AuthInv, TypeOK
  <2> QED BY <2>1, <2>2
<1>1. r \in Job
  BY <1>0, IdleIsJob DEF Job
<1>2. r.pc = "state" /\ r.login = c.login /\ r.user = c.user
  BY IdleIsJob DEF Job
<1>3. Send(p, b, r)
  BY DEF Callback
<1> HIDE DEF r
<1>4. Asks(r)
  BY <1>0, <1>1, <1>2 DEF Asks
<1>5. /\ nav' \in [Browsers -> {"other", "logout", "endsession", "signedout"}]
      /\ UNCHANGED <<sessions, server, clock, jar, asked, codes, history>>
  BY DEF AuthInv, TypeOK, Callback, userVars
<1> QED BY <1>3, <1>4, <1>5, SendStep

LEMMA SubmitStep ==
    ASSUME AuthInv, NEW p \in Procs, NEW b \in Browsers, NEW u \in Users, Submit(p, b, u)
    PROVE  AuthInv'
<1> DEFINE r == [IdleJob EXCEPT !.pc = "verify", !.user = u]
<1>1. r \in Job
  BY IdleIsJob DEF Job, AuthInv, TypeOK
<1>2. r.pc = "verify" /\ r.login = 0 /\ r.user = u
  BY IdleIsJob DEF Job
<1>3. Send(p, b, r)
  BY DEF Submit
<1> HIDE DEF r
<1>4. Asks(r)
  BY <1>1, <1>2 DEF Asks, AuthInv, TypeOK, Submit
<1>5. /\ nav' \in [Browsers -> {"other", "logout", "endsession", "signedout"}]
      /\ UNCHANGED <<sessions, server, clock, jar, asked, codes, history>>
  BY DEF AuthInv, TypeOK, Submit, userVars
<1> QED BY <1>3, <1>4, <1>5, SendStep

LEMMA LogoutStep ==
    ASSUME AuthInv, NEW p \in Procs, NEW b \in Browsers, Logout(p, b)
    PROVE  AuthInv'
<1> DEFINE r == [IdleJob EXCEPT !.pc = "live"]
<1>1. r \in Job
  BY IdleIsJob DEF Job, AuthInv, TypeOK
<1>2. r.pc = "live" /\ r.login = 0
  BY IdleIsJob DEF Job
<1>3. Send(p, b, r)
  BY DEF Logout
<1> HIDE DEF r
<1>4. Asks(r)
  BY <1>1, <1>2 DEF Asks, AuthInv, TypeOK, Logout
<1>5. /\ nav' \in [Browsers -> {"other", "logout", "endsession", "signedout"}]
      /\ UNCHANGED <<sessions, server, clock, jar, asked, codes, history>>
  BY DEF AuthInv, TypeOK, Logout, userVars
<1> QED BY <1>3, <1>4, <1>5, SendStep

\* A step of one goroutine that only moves its request along and drops
\* sessions that are over.
LEMMA MoveStep ==
    ASSUME AuthInv, NEW p \in Procs, NEW j, GoodJob(j), Become(p, j),
           j.pc \in {"verify", "create"} =>
              \/ j.login = 0
              \/ Holds(job[p], j.login, j.user),
           sessions' \in SUBSET sessions,
           nav' \in [Browsers -> {"other", "logout", "endsession", "signedout"}],
           UNCHANGED <<server, clock, jar, asked, codes, history>>
    PROVE  AuthInv'
<1>1. /\ job' = [job EXCEPT ![p] = j] /\ ended' = ended
      /\ UNCHANGED <<mode, lastSid, lastLogin, clock, jar, asked, codes, begun, born>>
  BY DEF Become, server, history
<1> QED BY <1>1, QuietStep

LEMMA NavTyped ==
    ASSUME AuthInv, nav' = nav
    PROVE  nav' \in [Browsers -> {"other", "logout", "endsession", "signedout"}]
BY DEF AuthInv, TypeOK

LEMMA AnswerOnly ==
    ASSUME AuthInv, NEW p \in Procs, job[p].pc # "idle",
           NEW t \in {"denied", "page", "endsession", "signedout"}, Answer(p, t),
           sessions' \in SUBSET sessions,
           UNCHANGED <<server, clock, userVars, history>>
    PROVE  AuthInv'
<1>1. UNCHANGED <<mode, lastSid, lastLogin, clock, jar, nav, asked, codes, begun, born, ended>>
  BY DEF server, userVars, history
<1> QED BY <1>1, AnswerStep

LEMMA CheckStateStep ==
    ASSUME AuthInv, NEW p \in Procs, CheckState(p)
    PROVE  AuthInv'
<1> DEFINE k == job[p]
           j == [k EXCEPT !.pc = "exchange"]
<1>0. k.pc = "state" /\ GoodJob(k) /\ sessions' = sessions
      /\ UNCHANGED <<server, clock, userVars, history>>
  BY DEF CheckState, AuthInv
<1>1. CASE k.temp # 0 /\ k.temp = k.login /\ Become(p, j)
  <2>1. /\ j \in Job /\ j.pc = "exchange" /\ j.then = k.then /\ j.b = k.b
        /\ j.sid = k.sid /\ j.temp = k.temp /\ j.login = k.login /\ j.user = k.user
    BY <1>0 DEF GoodJob, Job
  <2> HIDE DEF j
  <2>2. GoodJob(j) /\ j.pc \notin {"verify", "create"}
    BY <1>0, <1>1, <2>1 DEF GoodJob
  <2>3. /\ nav' \in [Browsers -> {"other", "logout", "endsession", "signedout"}]
        /\ UNCHANGED <<server, clock, jar, asked, codes, history>>
    BY <1>0, NavTyped DEF userVars
  <2> QED BY <1>0, <1>1, <2>2, <2>3, MoveStep
<1>2. CASE Answer(p, "denied")
  BY <1>0, <1>2, AnswerOnly
<1> QED BY <1>1, <1>2 DEF CheckState

LEMMA VerifyStep ==
    ASSUME AuthInv, NEW p \in Procs, Verify(p)
    PROVE  AuthInv'
<1> DEFINE k == job[p]
           j == [k EXCEPT !.pc = "create", !.exp = Expiry]
<1>0. k.pc = "verify" /\ GoodJob(k) /\ sessions' = sessions
      /\ UNCHANGED <<server, clock, userVars, history>>
  BY DEF Verify, AuthInv
<1>1. CASE IsAdmin(k.user) /\ Become(p, j)
  <2>0. Expiry \in Nat
    BY DEF Expiry, AuthInv, TypeOK
  <2>1. /\ j \in Job /\ j.pc = "create" /\ j.then = k.then /\ j.b = k.b
        /\ j.sid = k.sid /\ j.temp = k.temp /\ j.login = k.login /\ j.user = k.user
    BY <1>0, <2>0 DEF GoodJob, Job
  <2> HIDE DEF j
  <2>2. GoodJob(j) /\ Holds(k, j.login, j.user)
    BY <1>0, <1>1, <2>1 DEF GoodJob, Holds, IsAdmin
  <2>3. /\ nav' \in [Browsers -> {"other", "logout", "endsession", "signedout"}]
        /\ UNCHANGED <<server, clock, jar, asked, codes, history>>
    BY <1>0, NavTyped DEF userVars
  <2> QED BY <1>0, <1>1, <2>2, <2>3, MoveStep
<1>2. CASE Answer(p, "denied")
  BY <1>0, <1>2, AnswerOnly
<1> QED BY <1>1, <1>2 DEF Verify

LEMMA GateStep ==
    ASSUME AuthInv, NEW p \in Procs, Gate(p)
    PROVE  AuthInv'
<1> DEFINE k == job[p]
           j == [k EXCEPT !.pc = "work"]
<1>0. k.pc = "gate" /\ GoodJob(k) /\ sessions' \in SUBSET sessions
      /\ UNCHANGED <<server, clock, userVars, history>>
  BY DEF Gate, AuthInv, AfterGet
<1>1. CASE Become(p, j)
  <2>1. /\ j \in Job /\ j.pc = "work" /\ j.then = k.then /\ j.b = k.b
        /\ j.sid = k.sid /\ j.temp = k.temp /\ j.login = k.login /\ j.user = k.user
    BY <1>0 DEF GoodJob, Job
  <2> HIDE DEF j
  <2>2. GoodJob(j) /\ j.pc \notin {"verify", "create"}
    BY <1>0, <2>1 DEF GoodJob
  <2>3. /\ nav' \in [Browsers -> {"other", "logout", "endsession", "signedout"}]
        /\ UNCHANGED <<server, clock, jar, asked, codes, history>>
    BY <1>0, NavTyped DEF userVars
  <2> QED BY <1>0, <1>1, <2>2, <2>3, MoveStep
<1>2. CASE Answer(p, "denied")
  BY <1>0, <1>2, AnswerOnly
<1> QED BY <1>1, <1>2 DEF Gate

LEMMA WorkStep ==
    ASSUME AuthInv, NEW p \in Procs, Work(p)
    PROVE  AuthInv'
<1>1. job[p].pc # "idle" /\ Answer(p, "page") /\ sessions' \in SUBSET sessions
      /\ UNCHANGED <<server, clock, userVars, history>>
  BY DEF Work, AfterGet
<1> QED BY <1>1, AnswerOnly

LEMMA LogoutGetStep ==
    ASSUME AuthInv, NEW p \in Procs, LogoutGet(p)
    PROVE  AuthInv'
<1> DEFINE k == job[p]
           j == [k EXCEPT !.pc = "revoke", !.had = Live(k.sid)]
<1>0. k.pc = "live" /\ GoodJob(k) /\ sessions' \in SUBSET sessions
      /\ Become(p, j) /\ UNCHANGED <<server, clock, userVars, history>>
  BY DEF LogoutGet, AuthInv, AfterGet
<1>1. Live(k.sid) \in BOOLEAN
  BY DEF Live
<1>2. /\ j \in Job /\ j.pc = "revoke" /\ j.then = k.then /\ j.b = k.b
      /\ j.sid = k.sid /\ j.temp = k.temp /\ j.login = k.login /\ j.user = k.user
  BY <1>0, <1>1 DEF GoodJob, Job
<1> HIDE DEF j
<1>3. GoodJob(j) /\ j.pc \notin {"verify", "create"}
  BY <1>0, <1>2 DEF GoodJob
<1>4. /\ nav' \in [Browsers -> {"other", "logout", "endsession", "signedout"}]
      /\ UNCHANGED <<server, clock, jar, asked, codes, history>>
  BY <1>0, NavTyped DEF userVars
<1> QED BY <1>0, <1>3, <1>4, MoveStep

LEMMA LogoutRevokeStep ==
    ASSUME AuthInv, NEW p \in Procs, LogoutRevoke(p)
    PROVE  AuthInv'
<1>1. /\ job[p].pc # "idle" /\ sessions' \in SUBSET sessions
      /\ ended' = ended \cup {job[p].sid} /\ \A s \in sessions' : s.sid # job[p].sid
      /\ UNCHANGED <<mode, lastSid, lastLogin, clock, jar, nav, asked, codes, begun, born>>
  BY DEF LogoutRevoke, AfterRevoke, server, userVars
<1>2. PICK t \in {"denied", "page", "endsession", "signedout"} : Answer(p, t)
  BY DEF LogoutRevoke
<1> QED BY <1>1, <1>2, AnswerStep

-----------------------------------------------------------------------------
(***************************************************************************)
(* The steps that change more than one request.                            *)
(***************************************************************************)
LEMMA GoodIdle ==
    ASSUME TypeOK
    PROVE  GoodJob(IdleJob) /\ \A n, u : ~Holds(IdleJob, n, u)
BY IdleIsJob DEF GoodJob, TypeOK, Holds

LEMMA LostStep ==
    ASSUME AuthInv, NEW p \in Procs, Lost(p)
    PROVE  AuthInv'
<1>1. GoodJob(IdleJob) /\ IdleJob.pc \notin {"verify", "create"}
  BY GoodIdle, IdleIsJob DEF AuthInv
<1>2. nav' \in [Browsers -> {"other", "logout", "endsession", "signedout"}]
  BY DEF AuthInv, TypeOK, Lost
<1>3. Become(p, IdleJob) /\ sessions' \in SUBSET sessions
      /\ UNCHANGED <<server, clock, jar, asked, codes, history>>
  BY DEF Lost
<1> QED BY <1>1, <1>2, <1>3, MoveStep

\* The answer sets cookies: only the redirect to the provider sets temporary
\* ones, in the browser that began the login.
LEMMA DeliverStep ==
    ASSUME AuthInv, NEW p \in Procs, Deliver(p)
    PROVE  AuthInv'
<1> DEFINE j == job[p]
<1>0. TypeOK /\ \A q \in Procs : GoodJob(job[q])
  BY DEF AuthInv
<1>1. GoodJob(j) /\ j.pc = "reply" /\ j.b \in Browsers
  BY <1>0 DEF GoodJob, Deliver
<1>2. /\ UNCHANGED <<sessions, mode, lastSid, lastLogin, clock, codes, begun, born, ended>>
      /\ job' = [job EXCEPT ![p] = IdleJob]
  BY DEF Deliver, server, history, Become
<1>3. GoodJob(IdleJob) /\ \A n, u : ~Holds(IdleJob, n, u)
  BY <1>0, GoodIdle
<1>4. /\ job' \in [Procs -> Job] /\ job'[p] = IdleJob
      /\ \A q \in Procs \ {p} : job'[q] = job[q]
      /\ \A q \in Procs : job'[q].pc # "idle" => job'[q].b \in Browsers
      /\ (\A q \in Procs : GoodJob(job[q]))'
  <2>1. /\ mode' = mode /\ begun \subseteq begun'
        /\ lastSid' \in Nat /\ lastLogin' \in Nat /\ lastSid <= lastSid'
        /\ lastLogin <= lastLogin'
    BY <1>0, <1>2 DEF TypeOK
  <2> QED BY <1>0, <1>2, <1>3, <2>1, OneJob, Zenon
<1>5. /\ NewJar(j) \in [sid : 0..lastSid, temp : 0..lastLogin]
      /\ NewJar(j).temp # 0 => Begun(NewJar(j).temp, j.b)
  <2>1. /\ jar[j.b] \in [sid : 0..lastSid, temp : 0..lastLogin]
        /\ jar[j.b].temp # 0 => Begun(jar[j.b].temp, j.b)
    BY <1>0, <1>1 DEF TypeOK, AuthInv, CookiesKnown
  <2>2. j.sid \in 0..lastSid /\ j.login \in 0..lastLogin /\ 0 \in 0..lastSid
    BY <1>0, <1>1, JobFields DEF GoodJob, TypeOK
  <2>3. CASE j.then = "idp"
    <3>1. NewJar(j) = [jar[j.b] EXCEPT !.temp = j.login]
      BY <2>3 DEF NewJar
    <3>2. Begun(j.login, j.b)
      BY <1>1, <2>3 DEF GoodJob
    <3>3. [jar[j.b] EXCEPT !.temp = j.login].temp = j.login
      BY <2>1
    <3>4. [jar[j.b] EXCEPT !.temp = j.login] \in [sid : 0..lastSid, temp : 0..lastLogin]
      BY <2>1, <2>2
    <3> QED BY <3>1, <3>2, <3>3, <3>4
  <2>4. CASE j.then # "idp"
    <3>1. PICK n \in 0..lastSid : NewJar(j) \in {jar[j.b], [jar[j.b] EXCEPT !.sid = n]}
      BY <2>2, <2>4 DEF NewJar
    <3>2. /\ [jar[j.b] EXCEPT !.sid = n] \in [sid : 0..lastSid, temp : 0..lastLogin]
          /\ [jar[j.b] EXCEPT !.sid = n].temp = jar[j.b].temp
      BY <2>1
    <3> QED BY <2>1, <3>1, <3>2
  <2> QED BY <2>3, <2>4
<1>6. /\ jar' = [jar EXCEPT ![j.b] = NewJar(j)]
      /\ nav' \in [Browsers -> {"other", "logout", "endsession", "signedout"}]
      /\ asked \subseteq asked' /\ asked' \subseteq 1..lastLogin
  <2>1. j.then = "idp" => j.login \in 1..lastLogin
    BY <1>0, <1>1, JobFields DEF GoodJob, TypeOK
  <2> QED BY <1>0, <2>1 DEF Deliver, TypeOK
<1> HIDE DEF j
<1>7. /\ jar' \in [Browsers -> [sid : 0..lastSid, temp : 0..lastLogin]]
      /\ CookiesKnown'
  <2>1. jar' \in [Browsers -> [sid : 0..lastSid, temp : 0..lastLogin]]
    BY <1>0, <1>1, <1>5, <1>6 DEF TypeOK
  <2>2. ASSUME NEW b \in Browsers, jar'[b].temp # 0 PROVE Begun(jar'[b].temp, b)
    <3>1. jar'[b] = IF b = j.b THEN NewJar(j) ELSE jar[b]
      BY <1>0, <1>6 DEF TypeOK
    <3> QED BY <1>5, <2>2, <3>1 DEF AuthInv, CookiesKnown
  <2> QED BY <1>2, <2>1, <2>2 DEF CookiesKnown, Begun
<1>8. TypeOK'
  <2>1. codes' \subseteq [login : asked', user : Users, spent : BOOLEAN]
    BY <1>0, <1>2, <1>6 DEF TypeOK
  <2> QED BY <1>0, <1>2, <1>4, <1>6, <1>7, <2>1 DEF TypeOK
<1>9. SessionsKnown' /\ SessionsAreEarned' /\ (\A s \in born : s.login <= lastLogin)'
  BY <1>2 DEF AuthInv, SessionsKnown, SessionsAreEarned
<1>10. CodesOnce'
  <2>1. ASSUME NEW q \in Procs, NEW n \in 1..lastLogin, NEW u \in Users, Holds(job'[q], n, u)
        PROVE  Holds(job[q], n, u)
    BY <1>3, <1>4, <2>1
  <2> QED BY <1>2, <2>1 DEF AuthInv, CodesOnce, Holds, Redeemed
<1> QED BY <1>4, <1>7, <1>8, <1>9, <1>10 DEF AuthInv

LEMMA ForgetStep ==
    ASSUME AuthInv, NEW b \in Browsers, Forget(b)
    PROVE  AuthInv'
<1>0. TypeOK
  BY DEF AuthInv
<1>1. UNCHANGED <<sessions, mode, lastSid, lastLogin, job, clock, nav, asked, codes,
                  begun, born, ended>>
  BY DEF Forget, jobVars, server, history
<1>2. PICK f \in [sid : 0..lastSid, temp : 0..lastLogin] :
         jar' = [jar EXCEPT ![b] = f] /\ f.temp \in {0, jar[b].temp}
  <2>1. jar[b] \in [sid : 0..lastSid, temp : 0..lastLogin] /\ 0 \in 0..lastSid
        /\ 0 \in 0..lastLogin
    BY <1>0 DEF TypeOK
  <2>2. /\ [jar[b] EXCEPT !.sid = 0] \in [sid : 0..lastSid, temp : 0..lastLogin]
        /\ [jar[b] EXCEPT !.sid = 0].temp = jar[b].temp
    BY <2>1
  <2>3. /\ [jar[b] EXCEPT !.temp = 0] \in [sid : 0..lastSid, temp : 0..lastLogin]
        /\ [jar[b] EXCEPT !.temp = 0].temp = 0
    BY <2>1
  <2> QED BY <2>2, <2>3 DEF Forget
<1>3. jar' \in [Browsers -> [sid : 0..lastSid, temp : 0..lastLogin]]
  BY <1>0, <1>2 DEF TypeOK
<1>4. CookiesKnown'
  <2>1. \A c \in Browsers : jar'[c] = IF c = b THEN f ELSE jar[c]
    BY <1>0, <1>2 DEF TypeOK
  <2> QED BY <1>1, <1>2, <2>1 DEF AuthInv, CookiesKnown, Begun
<1>5. TypeOK'
  BY <1>0, <1>1, <1>3 DEF TypeOK
<1>6. (\A p \in Procs : GoodJob(job[p]))'
  BY <1>1 DEF AuthInv, GoodJob, Begun
<1>7. /\ SessionsKnown' /\ SessionsAreEarned' /\ CodesOnce'
      /\ (\A s \in born : s.login <= lastLogin)'
  BY <1>1 DEF AuthInv, SessionsKnown, SessionsAreEarned, CodesOnce, Holds, Redeemed
<1> QED BY <1>4, <1>5, <1>6, <1>7 DEF AuthInv

\* Nothing a request knows depends on the jars, the clock or the sessions.
LEMMA RestartStep ==
    ASSUME AuthInv, Restart
    PROVE  AuthInv'
<1>0. TypeOK /\ GoodJob(IdleJob) /\ \A n, u : ~Holds(IdleJob, n, u)
  BY GoodIdle DEF AuthInv
<1>1. /\ UNCHANGED <<mode, lastSid, lastLogin, clock, jar, asked, codes, begun, born, ended>>
      /\ sessions' = {} /\ \A p \in Procs : job'[p] = IdleJob
  BY DEF Restart, server, history
<1>2. TypeOK'
  <2>1. job' \in [Procs -> Job] /\ \A p \in Procs : job'[p].pc = "idle"
    BY IdleIsJob DEF Restart
  <2>2. nav' \in [Browsers -> {"other", "logout", "endsession", "signedout"}]
    BY <1>0 DEF Restart, TypeOK
  <2> QED BY <1>0, <1>1, <2>1, <2>2 DEF TypeOK
<1>3. (\A p \in Procs : GoodJob(job[p]))'
  <2>1. ASSUME NEW p \in Procs PROVE GoodJob(job[p])'
    <3>1. PICK k : k = job'[p]
      OBVIOUS
    <3>2. GoodJob(k)
      BY <1>0, <1>1, <3>1
    <3> QED BY <1>1, <3>1, <3>2 DEF GoodJob, Begun
  <2> QED BY <2>1
<1>4. CookiesKnown' /\ SessionsKnown' /\ SessionsAreEarned'
      /\ (\A s \in born : s.login <= lastLogin)'
  BY <1>1 DEF AuthInv, CookiesKnown, Begun, SessionsKnown, SessionsAreEarned
<1>5. CodesOnce'
  <2>1. \A q \in Procs : \A n, u : ~Holds(job'[q], n, u)
    BY <1>0, <1>1
  <2>2. \A n \in 1..lastLogin, u \in Users : \A s \in born :
           s.login = n /\ s.user = u => Redeemed(n, u)
    BY DEF AuthInv, CodesOnce
  <2>3. \A c, d \in codes : c.login = d.login /\ c.user = d.user => c = d
    BY DEF AuthInv, CodesOnce
  <2>4. \A q \in Procs : \A n, u : ~Holds(job[q], n, u)'
    BY <2>1 DEF Holds
  <2> QED BY <1>1, <2>2, <2>3, <2>4 DEF CodesOnce, Redeemed
<1> QED BY <1>2, <1>3, <1>4, <1>5 DEF AuthInv

LEMMA TickStep ==
    ASSUME AuthInv, clock' \in Nat, UNCHANGED <<sessions, jobVars, userVars, history>>
    PROVE  AuthInv'
<1>1. UNCHANGED <<sessions, mode, lastSid, lastLogin, job, jar, nav, asked, codes,
                  begun, born, ended>>
  BY DEF jobVars, server, userVars, history
<1>2. TypeOK'
  BY <1>1 DEF AuthInv, TypeOK
<1>3. (\A p \in Procs : GoodJob(job[p]))'
  BY <1>1 DEF AuthInv, GoodJob, Begun
<1>4. /\ CookiesKnown' /\ SessionsKnown' /\ SessionsAreEarned' /\ CodesOnce'
      /\ (\A s \in born : s.login <= lastLogin)'
  BY <1>1 DEF AuthInv, CookiesKnown, Begun, SessionsKnown, SessionsAreEarned, CodesOnce,
              Holds, Redeemed
<1> QED BY <1>2, <1>3, <1>4 DEF AuthInv

\* A new login belongs to the browser that asked for it.
LEMMA LoginStep ==
    ASSUME AuthInv, NEW p \in Procs, NEW b \in Browsers, Login(p, b)
    PROVE  AuthInv'
<1> DEFINE r == [IdleJob EXCEPT !.pc = "reply", !.login = lastLogin', !.then = "idp"]
           j == [r EXCEPT !.b = b, !.sid = jar[b].sid, !.temp = jar[b].temp]
<1>0. TypeOK /\ \A q \in Procs : GoodJob(job[q])
  BY DEF AuthInv
<1>1. /\ lastLogin \in Nat /\ lastLogin' = lastLogin + 1
      /\ begun' = begun \cup {[login |-> lastLogin', b |-> b]}
      /\ UNCHANGED <<sessions, mode, lastSid, clock, jar, nav, asked, codes, born, ended>>
  BY <1>0 DEF Login, userVars, TypeOK
<1>2. /\ jar[b].sid \in Nat /\ jar[b].sid <= lastSid
      /\ jar[b].temp \in Nat /\ jar[b].temp <= lastLogin
      /\ jar[b].temp # 0 => Begun(jar[b].temp, b)
  BY <1>0 DEF AuthInv, TypeOK, CookiesKnown
<1>3. r \in Job
  <2>1. lastLogin' \in Nat
    BY <1>1
  <2> QED BY <2>1, IdleIsJob DEF Job
<1>4. r.pc = "reply" /\ r.then = "idp" /\ r.login = lastLogin'
  BY IdleIsJob DEF Job
<1>5. job' = [job EXCEPT ![p] = j]
  BY DEF Login, Send, Become
<1> HIDE DEF r
<1>6. /\ j \in Job /\ j.pc = "reply" /\ j.then = "idp" /\ j.b = b
      /\ j.sid = jar[b].sid /\ j.temp = jar[b].temp /\ j.login = lastLogin'
  BY <1>2, <1>3, <1>4 DEF Job
<1> HIDE DEF j
<1>15. PICK k : k = j
  OBVIOUS
<1>7. GoodJob(k)'
  <2>1. /\ k.sid <= lastSid' /\ k.temp <= lastLogin' /\ k.login <= lastLogin' /\ k.login # 0
    BY <1>1, <1>2, <1>6, <1>15
  <2>2. [login |-> k.login, b |-> k.b] \in begun'
    BY <1>1, <1>6, <1>15
  <2>3. k.temp # 0 => [login |-> k.temp, b |-> k.b] \in begun'
    BY <1>1, <1>2, <1>6, <1>15 DEF Begun
  <2> QED BY <1>6, <1>15, <2>1, <2>2, <2>3 DEF GoodJob, Begun
<1>8. /\ job' \in [Procs -> Job] /\ job'[p] = k
      /\ \A q \in Procs \ {p} : job'[q] = job[q]
  BY <1>0, <1>5, <1>6, <1>15 DEF TypeOK
<1>9. (\A q \in Procs : GoodJob(job[q]))'
  <2>1. ASSUME NEW q \in Procs PROVE GoodJob(job[q])'
    <3>1. PICK i : i = job'[q]
      OBVIOUS
    <3>2. CASE q = p
      BY <1>7, <1>8, <3>1, <3>2 DEF GoodJob, Begun
    <3>3. CASE q # p
      <4>1. GoodJob(i)
        BY <1>0, <1>8, <3>1, <3>3
      <4>2. /\ mode' = mode /\ lastSid \in Nat /\ lastSid' \in Nat /\ lastLogin' \in Nat
            /\ lastSid <= lastSid' /\ lastLogin <= lastLogin' /\ begun \subseteq begun'
        BY <1>0, <1>1 DEF TypeOK
      <4>3. GoodJob(i)'
        BY <1>1, <4>1, <4>2, GoodJobStays
      <4> QED BY <3>1, <4>3 DEF GoodJob, Begun
    <3> QED BY <3>2, <3>3
  <2> QED BY <2>1
<1>10. TypeOK'
  <2>1. \A q \in Procs : job'[q].pc # "idle" => job'[q].b \in Browsers
    BY <1>0, <1>6, <1>8, <1>15 DEF TypeOK
  <2>2. /\ jar' \in [Browsers -> [sid : 0..lastSid', temp : 0..lastLogin']]
        /\ asked' \subseteq 1..lastLogin'
    <3>1. 0..lastLogin \subseteq 0..lastLogin' /\ 1..lastLogin \subseteq 1..lastLogin'
      BY <1>1
    <3> QED BY <1>0, <1>1, <3>1 DEF TypeOK
  <2> QED BY <1>0, <1>1, <1>8, <2>1, <2>2 DEF TypeOK
<1>11. /\ CookiesKnown' /\ SessionsKnown' /\ SessionsAreEarned'
  BY <1>1 DEF AuthInv, CookiesKnown, Begun, SessionsKnown, SessionsAreEarned
<1>12. (\A s \in born : s.login <= lastLogin)'
  BY <1>1 DEF AuthInv, SessionsKnown
<1>13. CodesOnce'
  <2>1. ASSUME NEW q \in Procs, NEW n, NEW u, Holds(job'[q], n, u)
        PROVE  Holds(job[q], n, u) /\ n <= lastLogin
    <3>1. job'[q] = job[q]
      BY <1>6, <1>8, <1>15, <2>1 DEF Holds
    <3> QED BY <1>0, <2>1, <3>1 DEF Holds, GoodJob
  <2>2. \A s \in born : s.login <= lastLogin
    BY DEF AuthInv
  <2>3. \A n \in 1..lastLogin' : n <= lastLogin => n \in 1..lastLogin
    BY <1>1
  <2>4. \A n \in 1..lastLogin', u \in Users : \A q \in Procs : Holds(job'[q], n, u) =>
           n \in 1..lastLogin /\ Holds(job[q], n, u)
    BY <2>1, <2>3
  <2>5. \A n \in 1..lastLogin', u \in Users :
           /\ \A q \in Procs : Holds(job'[q], n, u) => Redeemed(n, u)
           /\ \A q, o \in Procs : Holds(job'[q], n, u) /\ Holds(job'[o], n, u) => q = o
    BY <2>4 DEF AuthInv, CodesOnce
  <2>6. \A n \in 1..lastLogin', u \in Users : \A s \in born : s.login = n /\ s.user = u =>
                Redeemed(n, u) /\ \A q \in Procs : ~Holds(job'[q], n, u)
    BY <2>2, <2>3, <2>4 DEF AuthInv, CodesOnce
  <2> QED BY <1>1, <2>5, <2>6 DEF AuthInv, CodesOnce, Redeemed, Holds
<1> QED BY <1>9, <1>10, <1>11, <1>12, <1>13 DEF AuthInv

\* The provider answers a login of a user once.
LEMMA AuthorizeStep ==
    ASSUME AuthInv, NEW n \in asked, NEW u \in Users, Authorize(n, u)
    PROVE  AuthInv'
<1> DEFINE d == [login |-> n, user |-> u, spent |-> FALSE]
<1>0. TypeOK
  BY DEF AuthInv
<1>1. /\ codes' = codes \cup {d}
      /\ \A c \in codes : c.login = n => c.user # u
      /\ UNCHANGED <<sessions, mode, lastSid, lastLogin, job, clock, jar, nav, asked,
                     begun, born, ended>>
  BY DEF Authorize, jobVars, server, history
<1>2. d \in [login : asked, user : Users, spent : BOOLEAN]
      /\ d.login = n /\ d.user = u /\ ~d.spent
  OBVIOUS
<1> HIDE DEF d
<1>3. TypeOK'
  BY <1>0, <1>1, <1>2 DEF TypeOK
<1>4. (\A p \in Procs : GoodJob(job[p]))'
  BY <1>1 DEF AuthInv, GoodJob, Begun
<1>5. CookiesKnown' /\ SessionsKnown' /\ SessionsAreEarned'
      /\ (\A s \in born : s.login <= lastLogin)'
  BY <1>1 DEF AuthInv, CookiesKnown, Begun, SessionsKnown, SessionsAreEarned
<1>6. CodesOnce'
  <2>1. \A c, e \in codes' : c.login = e.login /\ c.user = e.user => c = e
    BY <1>1, <1>2 DEF AuthInv, CodesOnce
  <2>2. \A m, v : Redeemed(m, v) => Redeemed(m, v)'
    BY <1>1 DEF Redeemed
  <2> QED BY <1>1, <2>1, <2>2 DEF AuthInv, CodesOnce, Holds
<1> QED BY <1>3, <1>4, <1>5, <1>6 DEF AuthInv

\* A code that is not spent has no holder and no session; afterwards it has
\* at most the one that took it to the provider.
LEMMA ExchangeStep ==
    ASSUME AuthInv, NEW p \in Procs, Exchange(p)
    PROVE  AuthInv'
<1> DEFINE k == job[p]
<1>0. TypeOK /\ (\A q \in Procs : GoodJob(job[q])) /\ GoodJob(k) /\ k.pc = "exchange"
  BY DEF AuthInv, Exchange
<1>1. UNCHANGED <<sessions, mode, lastSid, lastLogin, clock, jar, nav, asked,
                  begun, born, ended>>
  BY DEF Exchange, server, history
<1>2. CASE Answer(p, "denied") /\ UNCHANGED codes
  <2>1. UNCHANGED <<server, clock, userVars, history>>
    BY <1>1, <1>2 DEF server, userVars, history
  <2> QED BY <1>0, <1>1, <1>2, <2>1, AnswerOnly
<1>3. CASE \E c \in codes :
             /\ c.login = k.login /\ c.user = k.user
             /\ ~c.spent /\ c.login = k.temp
             /\ codes' = (codes \ {c}) \cup {[c EXCEPT !.spent = TRUE]}
             /\ \/ Become(p, [k EXCEPT !.pc = "verify"])
                \/ Answer(p, "denied")
  <2>1. PICK c \in codes :
             /\ c.login = k.login /\ c.user = k.user
             /\ ~c.spent /\ c.login = k.temp
             /\ codes' = (codes \ {c}) \cup {[c EXCEPT !.spent = TRUE]}
             /\ \/ Become(p, [k EXCEPT !.pc = "verify"])
                \/ Answer(p, "denied")
    BY <1>3
  <2> DEFINE d == [c EXCEPT !.spent = TRUE]
  <2>2. /\ d \in [login : asked, user : Users, spent : BOOLEAN]
        /\ d.login = c.login /\ d.user = c.user /\ d.spent
    BY <1>0 DEF TypeOK
  <2>3. codes' = (codes \ {c}) \cup {d}
    BY <2>1
  <2> HIDE DEF d
  <2>4. PICK j : /\ GoodJob(j) /\ job' = [job EXCEPT ![p] = j]
                 /\ j.pc \in {"verify", "reply"}
                 /\ j.login = c.login /\ j.user = c.user
    <3>1. CASE Become(p, [k EXCEPT !.pc = "verify"])
      <4> DEFINE i == [k EXCEPT !.pc = "verify"]
      <4>1. /\ i \in Job /\ i.pc = "verify" /\ i.then = k.then /\ i.b = k.b
            /\ i.sid = k.sid /\ i.temp = k.temp /\ i.login = k.login /\ i.user = k.user
        BY <1>0 DEF GoodJob, Job
      <4>2. job' = [job EXCEPT ![p] = i]
        BY <3>1 DEF Become
      <4> HIDE DEF i
      <4>3. GoodJob(i)
        BY <1>0, <4>1 DEF GoodJob
      <4> QED BY <2>1, <4>1, <4>2, <4>3
    <3>2. CASE Answer(p, "denied")
      <4> DEFINE i == [k EXCEPT !.pc = "reply", !.then = "denied"]
      <4>1. GoodJob(i) /\ i.pc = "reply"
        BY <1>0, GoodAnswer
      <4>2. i.login = k.login /\ i.user = k.user
        BY <1>0 DEF GoodJob, Job
      <4>3. job' = [job EXCEPT ![p] = i]
        BY <3>2 DEF Answer, Become
      <4> HIDE DEF i
      <4> QED BY <2>1, <4>1, <4>2, <4>3
    <3> QED BY <2>1, <3>1, <3>2
  <2>5. /\ job' \in [Procs -> Job] /\ job'[p] = j
        /\ \A q \in Procs \ {p} : job'[q] = job[q]
        /\ \A q \in Procs : job'[q].pc # "idle" => job'[q].b \in Browsers
        /\ (\A q \in Procs : GoodJob(job[q]))'
    <3>1. /\ mode' = mode /\ begun \subseteq begun'
          /\ lastSid' \in Nat /\ lastLogin' \in Nat /\ lastSid <= lastSid'
          /\ lastLogin <= lastLogin'
      BY <1>0, <1>1 DEF TypeOK
    <3> QED BY <1>0, <2>4, <3>1, OneJob, Zenon
  <2>6. TypeOK'
    <3>1. codes' \subseteq [login : asked, user : Users, spent : BOOLEAN]
      BY <1>0, <2>2, <2>3 DEF TypeOK
    <3> QED BY <1>0, <1>1, <2>5, <3>1 DEF TypeOK
  <2>7. CookiesKnown' /\ SessionsKnown' /\ SessionsAreEarned'
        /\ (\A s \in born : s.login <= lastLogin)'
    BY <1>1 DEF AuthInv, CookiesKnown, Begun, SessionsKnown, SessionsAreEarned
  <2>8. \A e, f \in codes' : e.login = f.login /\ e.user = f.user => e = f
    BY <2>2, <2>3 DEF AuthInv, CodesOnce
  <2>9. \A n, u : Redeemed(n, u) => Redeemed(n, u)'
    <3>1. \A e \in codes : e.spent => e \in codes'
      BY <2>1, <2>3
    <3> QED BY <3>1 DEF Redeemed
  <2>10. Redeemed(c.login, c.user)'
    BY <2>2, <2>3 DEF Redeemed
  <2>11. ~Redeemed(c.login, c.user)
    BY <2>1 DEF AuthInv, CodesOnce, Redeemed
  <2>12. c.login \in 1..lastLogin /\ c.user \in Users
    BY <1>0 DEF TypeOK
  <2>13. /\ \A q \in Procs : ~Holds(job[q], c.login, c.user)
         /\ \A s \in born : ~(s.login = c.login /\ s.user = c.user)
    BY <2>11, <2>12 DEF AuthInv, CodesOnce
  <2>14. ASSUME NEW q \in Procs, NEW n, NEW u, Holds(job'[q], n, u)
         PROVE  \/ q # p /\ Holds(job[q], n, u)
                \/ q = p /\ n = c.login /\ u = c.user
    BY <2>4, <2>5, <2>14 DEF Holds
  <2>15. CodesOnce'
    <3>1. \A n \in 1..lastLogin, u \in Users : \A q \in Procs :
             Holds(job'[q], n, u) => Redeemed(n, u)'
      BY <2>9, <2>10, <2>14 DEF AuthInv, CodesOnce
    <3>2. \A n \in 1..lastLogin, u \in Users : \A q, o \in Procs :
             Holds(job'[q], n, u) /\ Holds(job'[o], n, u) => q = o
      BY <2>13, <2>14 DEF AuthInv, CodesOnce
    <3>3. \A n \in 1..lastLogin, u \in Users : \A s \in born : s.login = n /\ s.user = u =>
             Redeemed(n, u)' /\ \A q \in Procs : ~Holds(job'[q], n, u)
      BY <2>9, <2>13, <2>14 DEF AuthInv, CodesOnce
    <3> QED BY <1>1, <2>8, <3>1, <3>2, <3>3 DEF CodesOnce, Holds
  <2> QED BY <2>5, <2>6, <2>7, <2>15 DEF AuthInv
<1> QED BY <1>2, <1>3 DEF Exchange

\* The session of a redeemed code is the only one it will have.
LEMMA CreateStep ==
    ASSUME AuthInv, NEW p \in Procs, Create(p)
    PROVE  AuthInv'
<1> DEFINE k   == job[p]
           new == [sid |-> lastSid + 1, user |-> k.user, expiry |-> k.exp]
           birth == [sid |-> lastSid + 1, user |-> k.user, expiry |-> k.exp,
                     b |-> k.b, login |-> k.login]
           i == [k EXCEPT !.pc = "reply", !.sid = new.sid, !.then = "console"]
<1>0. TypeOK /\ (\A q \in Procs : GoodJob(job[q])) /\ GoodJob(k) /\ k.pc = "create"
      /\ lastSid \in Nat
  BY DEF AuthInv, Create, TypeOK
<1>1. /\ lastSid' = lastSid + 1 /\ sessions' \subseteq sessions \cup {new}
      /\ job' = [job EXCEPT ![p] = i] /\ born' = born \cup {birth}
      /\ UNCHANGED <<mode, lastLogin, clock, jar, nav, asked, codes, begun, ended>>
  BY DEF Create, AfterCreate, Become, userVars
<1>2. /\ k.user \in Users /\ k.user \in Admins /\ k.exp \in Nat /\ k.b \in Browsers
      /\ k.login \in Nat /\ k.login <= lastLogin
      /\ k.login = 0 => ~mode.oidc
      /\ k.login # 0 => Begun(k.login, k.b)
  BY <1>0, JobFields DEF GoodJob
<1>3. new \in Session /\ new.sid = lastSid + 1 /\ new.expiry = k.exp
  BY <1>0, <1>2 DEF Session
<1>4. /\ birth \in [sid : Nat, user : Users, expiry : Nat, b : Browsers, login : Nat]
      /\ birth.sid = lastSid + 1 /\ birth.user = k.user /\ birth.expiry = k.exp
      /\ birth.b = k.b /\ birth.login = k.login
  BY <1>0, <1>2
<1> HIDE DEF birth
<1>5. PICK j : /\ job' = [job EXCEPT ![p] = j] /\ GoodJob(j)' /\ j.pc = "reply"
               /\ j.b \in Browsers /\ j \in Job
  <2>1. new.sid \in Nat
    BY <1>0, <1>3
  <2>2. /\ i \in Job /\ i.pc = "reply" /\ i.then = "console" /\ i.b = k.b
        /\ i.sid = new.sid /\ i.temp = k.temp /\ i.login = k.login /\ i.user = k.user
    BY <1>0, <2>1 DEF GoodJob, Job
  <2>3. PICK j : j = i
    OBVIOUS
  <2> HIDE DEF i, new
  <2>4. GoodJob(j)'
    BY <1>0, <1>1, <1>3, <2>2, <2>3 DEF GoodJob, Begun
  <2> QED BY <1>1, <1>2, <2>2, <2>3, <2>4
<1> HIDE DEF i, new
<1>6. /\ job' \in [Procs -> Job] /\ job'[p] = j
      /\ \A q \in Procs \ {p} : job'[q] = job[q]
  BY <1>0, <1>5 DEF TypeOK
<1>7. (\A q \in Procs : GoodJob(job[q]))'
  <2>1. ASSUME NEW q \in Procs PROVE GoodJob(job[q])'
    <3>1. PICK e : e = job'[q]
      OBVIOUS
    <3>2. CASE q = p
      <4>1. e = j
        BY <1>6, <3>1, <3>2
      <4> QED BY <1>5, <3>1, <4>1 DEF GoodJob, Begun
    <3>3. CASE q # p
      <4>1. GoodJob(e)
        BY <1>0, <1>6, <3>1, <3>3
      <4>2. /\ mode' = mode /\ lastSid \in Nat /\ lastLogin \in Nat
            /\ lastSid' \in Nat /\ lastLogin' \in Nat
            /\ lastSid <= lastSid' /\ lastLogin <= lastLogin' /\ begun \subseteq begun'
        BY <1>0, <1>1 DEF TypeOK
      <4>3. GoodJob(e)'
        BY <4>1, <4>2, GoodJobStays
      <4> QED BY <3>1, <4>3 DEF GoodJob, Begun
    <3> QED BY <3>2, <3>3
  <2> QED BY <2>1
<1>8. TypeOK'
  <2>1. \A q \in Procs : job'[q].pc # "idle" => job'[q].b \in Browsers
    BY <1>0, <1>5, <1>6 DEF TypeOK
  <2>2. jar' \in [Browsers -> [sid : 0..lastSid', temp : 0..lastLogin']]
    <3>1. 0..lastSid \subseteq 0..lastSid'
      BY <1>0, <1>1
    <3> QED BY <1>0, <1>1, <3>1 DEF TypeOK
  <2>3. sessions' \in SUBSET Session
    BY <1>0, <1>1, <1>3 DEF TypeOK
  <2>4. \A s \in sessions : s.sid # new.sid
    <3>1. \A s \in sessions : s.sid \in 1..lastSid
      BY DEF AuthInv, SessionsKnown
    <3> QED BY <1>0, <1>3, <3>1
  <2>5. \A s, t \in sessions' : s.sid = t.sid => s = t
    BY <1>0, <1>1, <2>4 DEF TypeOK
  <2> QED BY <1>0, <1>1, <1>6, <2>1, <2>2, <2>3, <2>5 DEF TypeOK
<1>9. SessionsKnown'
  <2>1. 1..lastSid \subseteq 1..lastSid' /\ 0..lastSid \subseteq 0..lastSid'
        /\ lastSid + 1 \in 1..lastSid' /\ lastSid + 1 \notin 0..lastSid
    BY <1>0, <1>1
  <2>2. birth \in [sid : 1..lastSid', user : Users, expiry : Nat, b : Browsers, login : Nat]
    BY <1>4, <2>1
  <2>3. born' \subseteq [sid : 1..lastSid', user : Users, expiry : Nat, b : Browsers, login : Nat]
    <3>1. [sid : 1..lastSid, user : Users, expiry : Nat, b : Browsers, login : Nat]
            \subseteq [sid : 1..lastSid', user : Users, expiry : Nat, b : Browsers, login : Nat]
      BY <2>1
    <3> QED BY <1>1, <2>2, <3>1 DEF AuthInv, SessionsKnown
  <2>4. ASSUME NEW s \in sessions'
        PROVE  /\ s.sid \in 1..lastSid' /\ s.sid \notin ended'
               /\ \E t \in born' : t.sid = s.sid /\ t.expiry = s.expiry
    <3>1. CASE s \in sessions
      BY <1>1, <2>1, <3>1 DEF AuthInv, SessionsKnown
    <3>2. CASE s = new
      BY <1>1, <1>3, <1>4, <2>1, <3>2 DEF AuthInv, SessionsKnown
    <3> QED BY <1>1, <3>1, <3>2
  <2> QED BY <1>1, <2>1, <2>3, <2>4 DEF AuthInv, SessionsKnown
<1>10. CookiesKnown' /\ (\A s \in born : s.login <= lastLogin)'
  BY <1>1, <1>2, <1>4 DEF AuthInv, CookiesKnown, Begun
<1>11. ASSUME NEW q \in Procs, NEW n, NEW u, Holds(job'[q], n, u)
       PROVE  q # p /\ Holds(job[q], n, u)
  BY <1>5, <1>6, <1>11 DEF Holds
<1>12. Holds(k, k.login, k.user)
  BY <1>0 DEF Holds
<1>13. CodesOnce'
  <2>1. \A n, u : Redeemed(n, u) = Redeemed(n, u)'
    BY <1>1 DEF Redeemed
  <2>2. \A n \in 1..lastLogin, u \in Users :
           /\ \A q \in Procs : Holds(job'[q], n, u) => Redeemed(n, u)
           /\ \A q, o \in Procs : Holds(job'[q], n, u) /\ Holds(job'[o], n, u) => q = o
    BY <1>11 DEF AuthInv, CodesOnce
  <2>3. ASSUME NEW n \in 1..lastLogin, NEW u \in Users, NEW s \in born',
               s.login = n, s.user = u
        PROVE  Redeemed(n, u) /\ \A q \in Procs : ~Holds(job'[q], n, u)
    <3>1. CASE s \in born
      BY <1>11, <2>3, <3>1 DEF AuthInv, CodesOnce
    <3>2. CASE s = birth
      <4>1. Holds(job[p], n, u)
        BY <1>4, <1>12, <2>3, <3>2
      <4> QED BY <1>11, <4>1 DEF AuthInv, CodesOnce
    <3> QED BY <1>1, <3>1, <3>2
  <2>4. \A c, d \in codes : c.login = d.login /\ c.user = d.user => c = d
    BY DEF AuthInv, CodesOnce
  <2> QED BY <1>1, <2>1, <2>2, <2>3, <2>4 DEF CodesOnce, Holds
<1>14. SessionsAreEarned'
  <2>1. k.login # 0 => \A t \in born : ~(t.login = k.login /\ t.user = k.user)
    BY <1>2, <1>12 DEF AuthInv, CodesOnce, TypeOK
  <2>2. ASSUME NEW s \in born'
        PROVE  /\ s.user \in Admins
               /\ s.login = 0 => \E m \in Modes : ~m.oidc
               /\ s.login # 0 =>
                     /\ Begun(s.login, s.b)
                     /\ \A t \in born' : (s.login = t.login /\ s.user = t.user) => s = t
    <3>1. CASE s \in born
      BY <1>1, <1>4, <2>1, <3>1 DEF AuthInv, SessionsAreEarned, Begun
    <3>2. CASE s = birth
      BY <1>0, <1>1, <1>2, <1>4, <2>1, <3>2 DEF TypeOK
    <3> QED BY <1>1, <3>1, <3>2
  <2> QED BY <1>1, <2>2 DEF SessionsAreEarned, Begun
<1> QED BY <1>7, <1>8, <1>9, <1>10, <1>13, <1>14 DEF AuthInv

-----------------------------------------------------------------------------
(***************************************************************************)
(* The theorems.                                                           *)
(***************************************************************************)
LEMMA AuthInit == Init => AuthInv
<1> SUFFICES ASSUME Init PROVE AuthInv
  OBVIOUS
<1>1. TypeOK /\ \A p \in Procs : job[p] = IdleJob
  BY IdleIsJob DEF Init, TypeOK
<1>2. (\A p \in Procs : GoodJob(job[p])) /\ \A p \in Procs : \A n, u : ~Holds(job[p], n, u)
  BY <1>1, GoodIdle
<1> QED
  BY <1>1, <1>2 DEF Init, AuthInv, CookiesKnown, SessionsKnown, SessionsAreEarned, CodesOnce

LEMMA AuthNext == AuthInv /\ [Next]_vars => AuthInv'
<1> SUFFICES ASSUME AuthInv, [Next]_vars PROVE AuthInv'
  OBVIOUS
<1>1. ASSUME NEW p \in Procs, NEW b \in Browsers, Ask(p, b) PROVE AuthInv'
  BY <1>1, LoginStep, CallbackStep, SubmitStep, VisitStep, LogoutStep DEF Ask
<1>2. ASSUME NEW p \in Procs, Step(p) PROVE AuthInv'
  BY <1>2, CheckStateStep, ExchangeStep, VerifyStep, CreateStep, GateStep, WorkStep,
     LogoutGetStep, LogoutRevokeStep, DeliverStep DEF Step
<1>3. ASSUME NEW p \in Procs, Lost(p) PROVE AuthInv'
  BY <1>3, LostStep
<1>4. ASSUME NEW n \in asked, NEW u \in Users, Authorize(n, u) PROVE AuthInv'
  BY <1>4, AuthorizeStep
<1>5. ASSUME NEW b \in Browsers, Forget(b) PROVE AuthInv'
  BY <1>5, ForgetStep
<1>6. CASE Restart
  BY <1>6, RestartStep
<1>7. CASE Tick \/ UNCHANGED vars
  <2>1. clock' \in Nat
    BY <1>7 DEF Tick, vars, AuthInv, TypeOK
  <2>2. UNCHANGED <<sessions, jobVars, userVars, history>>
    BY <1>7 DEF Tick, vars
  <2> QED BY <2>1, <2>2, TickStep
<1> QED BY <1>1, <1>2, <1>3, <1>4, <1>5, <1>6, <1>7 DEF Next

\* The inductive invariant holds: every request knows what its handler has
\* established, and a code has one holder or one session.
THEOREM AuthInvariant == Spec => []AuthInv
<1>1. Init => AuthInv
  BY AuthInit
<1>2. AuthInv /\ [Next]_vars => AuthInv'
  BY AuthNext
<1> QED BY <1>1, <1>2, PTL DEF Spec

\* The sessions, requests, cookies and codes keep their shape, and no two
\* stored sessions share an id.
THEOREM AuthTypeCorrect == Spec => []TypeOK
<1>1. AuthInv => TypeOK
  BY DEF AuthInv
<1> QED BY <1>1, AuthInvariant, PTL

\* auth.go, oidc.go, local.go: a session is made only for an administrator,
\* and in OIDC mode only in the browser that began the login, once per code.
THEOREM AuthSessionsAreEarned == Spec => []SessionsAreEarned
<1>1. AuthInv => SessionsAreEarned
  BY DEF AuthInv
<1> QED BY <1>1, AuthInvariant, PTL

\* Nothing but the gate lets a request through to its handler.
LEMMA OnlyGateAdmits ==
    ASSUME AuthInv, [Next]_vars, NEW p \in Procs, job[p].pc = "gate", job'[p].pc = "work"
    PROVE  Gate(p)
<1>0. job \in [Procs -> Job]
  BY DEF AuthInv, TypeOK
<1>1. ASSUME NEW q \in Procs, NEW j, Become(q, j)
      PROVE  \A o \in Procs \ {q} : job'[o] = job[o]
  BY <1>0, <1>1 DEF Become
<1>2. ASSUME NEW q \in Procs, NEW b \in Browsers, Ask(q, b) PROVE FALSE
  <2>1. job[q].pc = "idle" /\ \A o \in Procs \ {q} : job'[o] = job[o]
    BY <1>1, <1>2 DEF Ask, Login, Callback, Submit, Visit, Logout, Send
  <2> QED BY <2>1
<1>3. ASSUME NEW q \in Procs, Step(q) PROVE Gate(p)
  <2>1. \A o \in Procs \ {q} : job'[o] = job[o]
    BY <1>1, <1>3 DEF Step, CheckState, Exchange, Verify, Create, Gate, Work, LogoutGet,
                      LogoutRevoke, Deliver, Answer
  <2>2. q = p
    BY <2>1
  <2> QED BY <1>3, <2>2 DEF Step, CheckState, Exchange, Verify, Create, Work, LogoutGet,
                            LogoutRevoke, Deliver
<1>4. ASSUME NEW q \in Procs, Lost(q) PROVE FALSE
  <2>1. job[q].pc = "reply" /\ \A o \in Procs \ {q} : job'[o] = job[o]
    BY <1>1, <1>4 DEF Lost
  <2> QED BY <2>1
<1>5. ASSUME job' = job PROVE FALSE
  BY <1>5
<1>6. CASE Restart
  BY <1>6, IdleIsJob DEF Restart
<1> QED BY <1>2, <1>3, <1>4, <1>5, <1>6 DEF Next, Authorize, Forget, Tick, vars, jobVars

\* auth.go, GateUI and GateAPI: nobody passes a gate on a session that was
\* revoked or is older than the lifetime it was born with.
THEOREM AuthAdmittedInTime == Spec => AdmittedInTime
<1> DEFINE A == \A p \in Procs :
          (job[p].pc = "gate" /\ job'[p].pc = "work") =>
             /\ job[p].sid \notin ended
             /\ \E s \in born : s.sid = job[p].sid /\ clock <= s.expiry
<1>1. AuthInv /\ [Next]_vars => [A]_vars
  <2> SUFFICES ASSUME AuthInv, [Next]_vars, NEW p \in Procs, job[p].pc = "gate",
                      job'[p].pc = "work"
               PROVE  /\ job[p].sid \notin ended
                      /\ \E s \in born : s.sid = job[p].sid /\ clock <= s.expiry
    OBVIOUS
  <2>0. TypeOK /\ job \in [Procs -> Job]
    BY DEF AuthInv, TypeOK
  <2>1. Live(job[p].sid)
    <3>1. Gate(p)
      BY OnlyGateAdmits
    <3>2. ~(job'[p].pc = "reply")
      OBVIOUS
    <3>3. CASE ~Live(job[p].sid)
      <4>1. job'[p] = [job[p] EXCEPT !.pc = "reply", !.then = "denied"]
        BY <2>0, <3>1, <3>3 DEF Gate, Answer, Become
      <4> QED BY <2>0, <3>2, <4>1 DEF Job
    <3> QED BY <3>3
  <2>2. PICK s \in sessions : s.sid = job[p].sid /\ ~(clock > s.expiry)
    BY <2>1 DEF Live, Over
  <2>3. s.expiry \in Nat /\ clock \in Nat
    BY <2>0 DEF TypeOK, Session
  <2>4. s.sid \notin ended /\ \E t \in born : t.sid = s.sid /\ t.expiry = s.expiry
    BY DEF AuthInv, SessionsKnown
  <2> QED BY <2>2, <2>3, <2>4
<1>2. Spec => []AuthInv
  BY AuthInvariant
<1> QED BY <1>1, <1>2, PTL DEF Spec, AdmittedInTime

\* session.go: a session leaves the store because its time is over, because a
\* logout took its id or because the process restarts: the sweep of another
\* login and the look-ups of other requests leave it alone.
THEOREM AuthSessionEndsForCause == Spec => SessionEndsForCause
<1> DEFINE A == \A s \in sessions : (\A t \in sessions' : t.sid # s.sid) =>
          \/ clock > s.expiry
          \/ \E p \in Procs : job[p].pc = "revoke" /\ job[p].sid = s.sid
          \/ \A p \in Procs : job'[p] = IdleJob
<1>1. [Next]_vars => [A]_vars
  <2> SUFFICES ASSUME [Next]_vars, NEW s \in sessions, \A t \in sessions' : t.sid # s.sid
               PROVE  \/ clock > s.expiry
                      \/ \E p \in Procs : job[p].pc = "revoke" /\ job[p].sid = s.sid
                      \/ \A p \in Procs : job'[p] = IdleJob
    OBVIOUS
  <2>1. ASSUME sessions' = sessions PROVE FALSE
    BY <2>1
  <2>2. ASSUME NEW sid, sessions' = AfterGet(sid) PROVE clock > s.expiry
    BY <2>2 DEF AfterGet, Over
  <2>3. ASSUME NEW p \in Procs, NEW b \in Browsers, Ask(p, b) PROVE sessions' = sessions
    BY <2>3 DEF Ask, Login, Callback, Submit, Visit, Logout
  <2>4. ASSUME NEW p \in Procs, Create(p) PROVE clock > s.expiry
    <3>1. PICK new : sessions' = AfterCreate(new)
      BY <2>4 DEF Create
    <3> QED BY <3>1 DEF AfterCreate, Over
  <2>5. ASSUME NEW p \in Procs, Gate(p) \/ Work(p) \/ LogoutGet(p) PROVE clock > s.expiry
    BY <2>1, <2>2, <2>5 DEF Gate, Work, LogoutGet
  <2>6. ASSUME NEW p \in Procs, LogoutRevoke(p)
        PROVE  job[p].pc = "revoke" /\ job[p].sid = s.sid
    BY <2>6 DEF LogoutRevoke, AfterRevoke
  <2>7. ASSUME NEW p \in Procs, Step(p)
        PROVE  clock > s.expiry \/ (job[p].pc = "revoke" /\ job[p].sid = s.sid)
    <3>1. CheckState(p) \/ Exchange(p) \/ Verify(p) \/ Deliver(p) => sessions' = sessions
      BY DEF CheckState, Exchange, Verify, Deliver
    <3> QED BY <2>1, <2>4, <2>5, <2>6, <2>7, <3>1 DEF Step
  <2>8. CASE Restart
    <3>1. \A p \in Procs : job'[p] = IdleJob
      BY <2>8 DEF Restart
    <3> QED BY <3>1
  <2>9. CASE UNCHANGED vars
    BY <2>1, <2>9 DEF vars
  <2>10. ASSUME NEW p \in Procs, Lost(p) PROVE sessions' = sessions
    BY <2>10 DEF Lost
  <2>11. ASSUME NEW n \in asked, NEW u \in Users, Authorize(n, u) PROVE sessions' = sessions
    BY <2>11 DEF Authorize
  <2>12. ASSUME NEW b \in Browsers, Forget(b) PROVE sessions' = sessions
    BY <2>12 DEF Forget
  <2>13. Tick => sessions' = sessions
    BY DEF Tick
  <2> QED BY <2>1, <2>3, <2>7, <2>8, <2>9, <2>10, <2>11, <2>12, <2>13 DEF Next
<1> QED BY <1>1, PTL DEF Spec, SessionEndsForCause

=============================================================================
