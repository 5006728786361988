---------------------------- MODULE PasteService ----------------------------
(***************************************************************************)
(* The paste service over a SQL store: the process's start and stop        *)
(* (cmd/gopaste/main.go) and the request handlers of                       *)
(* internal/handler/handler.go and admin.go, each request a goroutine that *)
(* makes one Store call after another.  The Store calls and their          *)
(* statements are SqlStore's; here is what the handlers do between them:   *)
(* which keys they draw, which calls they make, which answer they give.    *)
(***************************************************************************)
EXTENDS SqlStore

CONSTANTS
    Main,       \* the main goroutine
    Drawn,      \* the keys the key generator can produce
    AboutKey,   \* "about"
    AboutBody,  \* the embedded about.md
    Texts       \* what visitors save

ASSUME MainAssumption == Main \in Procs
ASSUME AboutAssumption == AboutKey \in Keys /\ AboutBody \in Bodies
ASSUME DrawnAssumption == Drawn \subseteq Keys /\ Texts \subseteq Bodies

Handlers == Procs \ {Main}

VARIABLES
    srv,      \* the process: "down", "loading" (preloadDocuments), "up",
              \* "draining" (Shutdown waits) or "closed" (after st.Close)
    static,   \* staticKeys
    req,      \* req[p]: the request goroutine p serves
    acked,    \* history: the pastes a 201 promised, [id, key, body]
    gone      \* history: the ids of rows a delete named, or a purge found expired

serviceVars == <<srv, static, req, acked, gone>>
vars == <<storeVars, serviceVars>>

Request == [st   : {"idle", "draw", "probe", "keyed", "store",
                    "get", "delete", "purge", "done"},
            key  : Keys \cup {Null},
            body : Bodies \cup {Null},   \* submitted, or answered
            code : {0, 200, 201, 400, 403, 404, 429, 500}]

IdleReq == [st |-> "idle", key |-> Null, body |-> Null, code |-> 0]

Paste == [id : Nat, key : Keys, body : Bodies]

----------------------------------------------------------------------------
(***************************************************************************)
(* Start and stop.                                                         *)
(***************************************************************************)
ServiceInit ==
    /\ StoreInit
    /\ srv = "down"
    /\ static = {}
    /\ req = [p \in Procs |-> IdleReq]
    /\ acked = {} /\ gone = {}

\* run: the store is open, preloadDocuments calls Set("about", ...)
Boot ==
    /\ srv = "down"
    /\ SetCall(Main, AboutKey, AboutBody)
    /\ srv' = "loading"
    /\ UNCHANGED <<static, req, acked, gone>>

\* preloadDocuments gets its answer, and the listener starts.  On any other
\* error the server comes up without the document.
Preloaded ==
    /\ srv = "loading"
    /\ static' = IF call[Main].out \in {"ok", "exists"} THEN {AboutKey} ELSE {}
    /\ srv' = "up"
    /\ Return(Main)
    /\ UNCHANGED <<req, acked, gone>>

\* SIGINT or SIGTERM: Shutdown closes the listener and waits for the handlers.
Signal ==
    /\ srv = "up"
    /\ srv' = "draining"
    /\ UNCHANGED <<storeVars, static, req, acked, gone>>

\* run returns, and its deferred call closes the store: because all handlers
\* are done, ...
Drained ==
    /\ srv = "draining"
    /\ \A p \in Handlers : req[p].st = "idle"
    /\ srv' = "closed"
    /\ UNCHANGED <<storeVars, static, req, acked, gone>>

\* ... because the 10 seconds are over, or because the listener has failed.
CutShort ==
    /\ srv \in {"up", "draining"}
    /\ srv' = "closed"
    /\ UNCHANGED <<storeVars, static, req, acked, gone>>

Stop ==
    /\ Restart
    /\ srv' = "down"
    /\ static' = {}
    /\ req' = [p \in Procs |-> IdleReq]
    /\ UNCHANGED <<acked, gone>>

\* main returns, whatever handlers are still doing.
Exit == srv = "closed" /\ Stop

\* A crash, or a start that fails after the store is open.
Halt == srv # "down" /\ Stop

----------------------------------------------------------------------------
(***************************************************************************)
(* The handlers.                                                           *)
(***************************************************************************)
\* Wrong variant: the listener stays open while the server drains.
AcceptDraining(p) == srv \in {"up", "draining"} /\ req[p].st = "idle"

Accept(p) == srv = "up" /\ req[p].st = "idle"

Become(p, r) == req' = [req EXCEPT ![p] = r]

Respond(p, code) == Become(p, [req[p] EXCEPT !.st = "done", !.code = code])

\* A method of a closed store returns an error; statements that have begun end.
ClosedCall(p) ==
    /\ call[p].pc = "idle"
    /\ call' = [call EXCEPT ![p] = [IdleCall EXCEPT !.pc = "ret", !.out = "err"]]
    /\ UNCHANGED <<rows, lastId, clock, expire>>

\* Handler p is waiting for the store call of phase st, and it has returned.
Answered(p, st) == req[p].st = st /\ Return(p)

\* handlePost's early returns: origin, unreadable body, too long, empty,
\* byte budget - and the rate limiter in front of it.
PostRefused(p) ==
    /\ Accept(p)
    /\ \E code \in {400, 403, 429, 500} : Respond(p, code)
    /\ UNCHANGED <<storeVars, srv, static, acked, gone>>

PostBegin(p, b) ==
    /\ Accept(p)
    /\ Become(p, [IdleReq EXCEPT !.st = "draw", !.body = b])
    /\ UNCHANGED <<storeVars, srv, static, acked, gone>>

\* Wrong variant: the existence probe slides.
DrawSliding(p, k) ==
    /\ req[p].st = "draw"
    /\ GetCall(p, k, TRUE)
    /\ Become(p, [req[p] EXCEPT !.st = "probe", !.key = k])
    /\ UNCHANGED <<srv, static, acked, gone>>

\* chooseKey: CreateKey, then the existence probe, which must not slide.
Draw(p, k) ==
    /\ req[p].st = "draw"
    /\ IF srv = "closed" THEN ClosedCall(p) ELSE GetCall(p, k, FALSE)
    /\ Become(p, [req[p] EXCEPT !.st = "probe", !.key = k])
    /\ UNCHANGED <<srv, static, acked, gone>>

\* CreateKey panics when crypto/rand fails; recoverPanic answers.
Panic(p) ==
    /\ req[p].st = "draw"
    /\ Respond(p, 500)
    /\ UNCHANGED <<storeVars, srv, static, acked, gone>>

\* Wrong variant: a probe that failed is tried again.
ProbedAgain(p) ==
    /\ Answered(p, "probe")
    /\ IF call[p].out = "miss" THEN Become(p, [req[p] EXCEPT !.st = "keyed"])
                               ELSE Become(p, [req[p] EXCEPT !.st = "draw"])
    /\ UNCHANGED <<srv, static, acked, gone>>

\* chooseKey: taken, draw again; free, that is the key; an error ends the
\* request.
Probed(p) ==
    /\ Answered(p, "probe")
    /\ CASE call[p].out = "hit"  -> Become(p, [req[p] EXCEPT !.st = "draw"])
         [] call[p].out = "miss" -> Become(p, [req[p] EXCEPT !.st = "keyed"])
         [] OTHER                -> Respond(p, 500)
    /\ UNCHANGED <<srv, static, acked, gone>>

Store(p) ==
    /\ req[p].st = "keyed"
    /\ IF srv = "closed" THEN ClosedCall(p)
                         ELSE SetCall(p, req[p].key, req[p].body)
    /\ Become(p, [req[p] EXCEPT !.st = "store"])
    /\ UNCHANGED <<srv, static, acked, gone>>

\* Wrong variant: a collision reported as a conflict.
StoreCodeConflict(out) == CASE out = "ok" -> 201 [] out = "exists" -> 409 [] OTHER -> 500

\* Wrong variant: ErrKeyExists taken for success, as preloadDocuments does.
StoreCodeLenient(out) == IF out \in {"ok", "exists"} THEN 201 ELSE 500

\* handlePost's last part: every error of Set, ErrKeyExists included, is 500.
StoreCode(out) == IF out = "ok" THEN 201 ELSE 500

Stored(p) ==
    /\ Answered(p, "store")
    /\ Respond(p, StoreCode(call[p].out))
    /\ acked' = IF StoreCode(call[p].out) = 201
                THEN acked \cup {[id |-> call[p].id, key |-> req[p].key,
                                  body |-> req[p].body]}
                ELSE acked
    /\ UNCHANGED <<srv, static, gone>>

\* handleGet and handleRawGet: reads of preloaded documents do not slide.
View(p, k) ==
    /\ Accept(p)
    /\ GetCall(p, k, k \notin static)
    /\ Become(p, [IdleReq EXCEPT !.st = "get", !.key = k])
    /\ UNCHANGED <<srv, static, acked, gone>>

FoundCode(out) == CASE out \in {"hit", "done"} -> 200
                    [] out = "miss" -> 404
                    [] OTHER -> 500

Viewed(p) ==
    /\ Answered(p, "get")
    /\ LET code == FoundCode(call[p].out)
       IN Become(p, [req[p] EXCEPT !.st = "done", !.code = code,
                       !.body = IF code = 200 THEN call[p].body ELSE Null])
    /\ UNCHANGED <<srv, static, acked, gone>>

\* adminDeletePaste, for an authenticated caller.
DeleteStatic(p, k) ==
    /\ Accept(p)
    /\ k \in static
    /\ Become(p, [IdleReq EXCEPT !.st = "done", !.key = k, !.code = 403])
    /\ UNCHANGED <<storeVars, srv, static, acked, gone>>

\* Wrong variant: the test for preloaded documents dropped.
DeleteUnguarded(p, k) ==
    /\ Accept(p)
    /\ DeleteCall(p, k)
    /\ Become(p, [IdleReq EXCEPT !.st = "delete", !.key = k])
    /\ UNCHANGED <<srv, static, acked, gone>>

Delete(p, k) ==
    /\ Accept(p)
    /\ k \notin static
    /\ DeleteCall(p, k)
    /\ Become(p, [IdleReq EXCEPT !.st = "delete", !.key = k])
    /\ UNCHANGED <<srv, static, acked, gone>>

Deleted(p) ==
    /\ Answered(p, "delete")
    /\ Respond(p, FoundCode(call[p].out))
    /\ UNCHANGED <<srv, static, acked, gone>>

\* adminPurge
Purge(p) ==
    /\ Accept(p)
    /\ PurgeCall(p)
    /\ Become(p, [IdleReq EXCEPT !.st = "purge"])
    /\ UNCHANGED <<srv, static, acked, gone>>

Purged(p) ==
    /\ Answered(p, "purge")
    /\ Respond(p, FoundCode(call[p].out))
    /\ UNCHANGED <<srv, static, acked, gone>>

\* The response is written; the goroutine is free for another request.
Reply(p) ==
    /\ req[p].st = "done"
    /\ Become(p, IdleReq)
    /\ UNCHANGED <<storeVars, srv, static, acked, gone>>

\* The statements of p's store call.  The history notes the rows that p was
\* told to remove: those with the slug, those past their deadline by now.
Doomed(p) ==
    {r.id : r \in {r \in rows :
        \/ call[p].pc = "delete" /\ r.slug = call[p].key
        \/ call[p].pc = "purge" /\ ~Live(r, clock)}}

StoreStep(p) ==
    /\ Statement(p)
    /\ gone' = gone \cup Doomed(p)
    /\ UNCHANGED <<srv, static, req, acked>>

TimePasses == Tick /\ UNCHANGED serviceVars

Continue(p) ==
    \/ Probed(p) \/ Store(p) \/ Stored(p) \/ Viewed(p)
    \/ Deleted(p) \/ Purged(p) \/ Reply(p)

Serve(p) ==
    \/ PostRefused(p)
    \/ \E b \in Texts : PostBegin(p, b)
    \/ \E k \in Drawn : Draw(p, k)
    \/ Panic(p)
    \/ \E k \in Keys : View(p, k) \/ DeleteStatic(p, k) \/ Delete(p, k)
    \/ Purge(p)
    \/ Continue(p)

ServiceNext ==
    \/ Boot \/ Preloaded \/ Signal \/ Drained \/ CutShort \/ Exit \/ Halt
    \/ TimePasses
    \/ \E p \in Handlers : Serve(p)
    \/ \E p \in Procs : StoreStep(p)

ServiceSpec == ServiceInit /\ [][ServiceNext]_vars

(***************************************************************************)
(* Fairness.  A started request goes on (the Go scheduler), a statement is *)
(* answered, if only with an error (the driver), and a generator that      *)
(* draws uniformly does not miss the free keys forever.  Shutdown notices  *)
(* idle connections, and main returns.  That the 10 seconds pass is not    *)
(* assumed.                                                                *)
(***************************************************************************)
Fairness ==
    /\ \A p \in Procs : WF_vars(StoreStep(p))
    /\ \A p \in Handlers :
          /\ WF_vars(Continue(p))
          /\ SF_vars(\E k \in Drawn : ~Taken(k) /\ Draw(p, k))
    /\ WF_vars(Drained) /\ WF_vars(Exit)

FairServiceSpec == ServiceSpec /\ Fairness

----------------------------------------------------------------------------
(***************************************************************************)
(* Properties.                                                             *)
(***************************************************************************)
ServiceTypeOK ==
    /\ TypeOK
    /\ srv \in {"down", "loading", "up", "draining", "closed"}
    /\ static \subseteq {AboutKey}
    /\ req \in [Procs -> Request]
    /\ acked \subseteq Paste
    /\ gone \subseteq Nat

\* A 201 is a promise: the paste is in the table under its key with the
\* submitted content until somebody deletes that key or its deadline passes
\* and it is purged - across any interleaving of other requests, failed
\* statements and restarts.
AckedPasteStays ==
    \A a \in acked : a.id \notin gone =>
        \E r \in rows : r.id = a.id /\ r.slug = a.key /\ r.body = a.body

\* Only a visitor's GET of an ordinary paste moves a deadline: neither the
\* existence probes of chooseKey, however often they hit, nor reads of a
\* preloaded document do.
OnlyVisitorsSlide ==
    [][\A r \in rows, s \in rows' :
          (r.id = s.id /\ r.expires_at # s.expires_at) =>
             \E p \in Handlers : /\ req[p].st = "get"
                                 /\ req[p].key = s.slug
                                 /\ s.slug \notin static]_vars

\* A preloaded document leaves the table only by age: no administrator, however
\* the delete interleaves with the start of the server, removes one that the
\* server takes for preloaded.
StaticLeavesByAge ==
    [][(AboutKey \in static /\ srv' # "down") =>
          \A r \in rows : (r.slug = AboutKey /\ \A s \in rows' : s.id # r.id) =>
              ~Live(r, clock)]_vars

\* main.go: preloadDocuments seeds the document "so it is always reachable
\* at a stable key"; handler.go: preloaded docs "never expire".  Violated
\* when storage.expire is set.
StaticAlwaysReachable ==
    (srv = "up" /\ AboutKey \in static) =>
        \E r \in rows : r.slug = AboutKey /\ Live(r, clock)

\* Every request is answered (or the process stops): chooseKey's unbounded
\* loop ends as long as free keys remain.
EveryRequestAnswered ==
    \A p \in Handlers : req[p].st # "idle" ~> req[p].st \in {"done", "idle"}

\* A shutdown ends by itself: requests under way finish, chooseKey's loop
\* included, and no new ones keep the server busy, so that it does not need its
\* 10 seconds to stop.
ShutdownEnds == srv \in {"draining", "closed"} ~> srv = "down"

=============================================================================
