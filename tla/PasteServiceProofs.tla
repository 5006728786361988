------------------------- MODULE PasteServiceProofs -------------------------
(***************************************************************************)
(* Proofs about PasteService, for every set of handlers, keys, generators, *)
(* bodies and expiries.  The store's own invariants come from              *)
(* SqlStoreProofs; what is added here is how the handlers use the store.   *)
(***************************************************************************)
EXTENDS PasteService, SqlStoreProofs

USE ExpiresAssumption, NullAssumption, BoundsAssumption, MainAssumption,
    AboutAssumption, DrawnAssumption
    DEF ExpiresAssumption, NullAssumption, BoundsAssumption, MainAssumption,
        AboutAssumption, DrawnAssumption, Handlers

(***************************************************************************)
(* The inductive invariant.                                                *)
(***************************************************************************)
\* The paste is in the table under its key, or somebody was entitled to
\* remove it.
Kept(id, k, b) ==
    id \notin gone => \E r \in rows : r.id = id /\ r.slug = k /\ r.body = b

\* A handler's store call is the one its phase asked for: only a visitor's GET
\* may slide, nobody deletes what is preloaded, and the row of an INSERT that
\* has not been reported yet is already kept.
GoodHandler(p) ==
    /\ req[p].st \in {"draw", "probe", "keyed", "store"} => req[p].body \in Bodies
    /\ req[p].st \in {"probe", "keyed", "store"} => req[p].key \in Keys
    /\ call[p].pc \in {"select", "bump"} /\ call[p].bump =>
          req[p].st = "get" /\ call[p].key = req[p].key /\ call[p].key \notin static
    /\ call[p].pc = "bump" => call[p].bump
    /\ call[p].pc = "delete" => call[p].key \notin static
    /\ req[p].st = "store" =>
          /\ call[p].pc \in {"insert", "ret"}
          /\ call[p].pc = "insert" => call[p].key = req[p].key /\ call[p].body = req[p].body
          /\ call[p].pc = "ret" /\ call[p].out = "ok" =>
                Kept(call[p].id, req[p].key, req[p].body)

\* Nobody is served before the preload has been answered.
Quiet == \A p \in Handlers : call[p].pc = "idle" /\ req[p].st = "idle"

ServiceInv ==
    /\ ServiceTypeOK /\ TableConsistent /\ StampsNotAhead
    /\ \A p \in Handlers : GoodHandler(p)
    /\ call[Main].pc \in {"idle", "insert", "ret"}
    /\ srv \in {"down", "loading"} => Quiet
    /\ AckedPasteStays

-----------------------------------------------------------------------------
(***************************************************************************)
(* The store under the service.                                            *)
(***************************************************************************)
\* Every step of the service is a step of the store, or finds the store closed.
LEMMA StoreSteps ==
    ASSUME ServiceInv, [ServiceNext]_vars
    PROVE  [StoreNext]_storeVars \/ \E p \in Procs : ClosedCall(p)
<1>1. ASSUME NEW p \in Handlers, Serve(p)
      PROVE  [StoreNext]_storeVars \/ ClosedCall(p)
  <2>1. ASSUME NEW k \in Drawn, Draw(p, k)
        PROVE  Invoke(p) \/ ClosedCall(p)
    BY <2>1 DEF Draw, Invoke
  <2>2. ASSUME Store(p)
        PROVE  Invoke(p) \/ ClosedCall(p)
    <3>1. req[p].key \in Keys /\ req[p].body \in Bodies
      BY <2>2 DEF ServiceInv, GoodHandler, Store
    <3> QED BY <2>2, <3>1 DEF Store, Invoke
  <2>3. ASSUME NEW k \in Keys, View(p, k) \/ Delete(p, k)
        PROVE  Invoke(p)
    BY <2>3 DEF View, Delete, Invoke
  <2>4. ASSUME Purge(p) PROVE Invoke(p)
    BY <2>4 DEF Purge, Invoke
  <2>5. ASSUME Probed(p) \/ Stored(p) \/ Viewed(p) \/ Deleted(p) \/ Purged(p)
        PROVE  Return(p)
    BY <2>5 DEF Probed, Stored, Viewed, Deleted, Purged, Answered
  <2>6. ASSUME \/ PostRefused(p) \/ Panic(p) \/ Reply(p)
               \/ \E b \in Texts : PostBegin(p, b)
               \/ \E k \in Keys : DeleteStatic(p, k)
        PROVE  UNCHANGED storeVars
    BY <2>6 DEF PostRefused, Panic, Reply, PostBegin, DeleteStatic
  <2>7. Invoke(p) \/ ClosedCall(p) \/ Return(p) \/ UNCHANGED storeVars
    BY <1>1, <2>1, <2>2, <2>3, <2>4, <2>5, <2>6 DEF Serve, Continue
  <2> QED BY <2>7 DEF StoreNext
<1>2. ASSUME NEW p \in Procs, StoreStep(p) PROVE StoreNext
  BY <1>2 DEF StoreStep, StoreNext
<1>3. CASE Boot
  BY <1>3 DEF Boot, StoreNext, Invoke
<1>4. CASE Preloaded
  BY <1>4 DEF Preloaded, StoreNext
<1>5. CASE Signal \/ Drained \/ CutShort
  BY <1>5 DEF Signal, Drained, CutShort
<1>6. CASE Exit \/ Halt
  BY <1>6 DEF Exit, Halt, Stop, StoreNext
<1>7. CASE TimePasses
  BY <1>7 DEF TimePasses, StoreNext
<1>8. CASE UNCHANGED vars
  BY <1>8 DEF vars
<1> QED BY <1>1, <1>2, <1>3, <1>4, <1>5, <1>6, <1>7, <1>8 DEF ServiceNext

\* What a call of a closed store leaves.
LEMMA ClosedCallStep ==
    ASSUME TypeOK, NEW p \in Procs, ClosedCall(p)
    PROVE  /\ call' \in [Procs -> Call]
           /\ call'[p].pc = "ret" /\ call'[p].out = "err" /\ call'[p].now = 0
           /\ \A q \in Procs \ {p} : call'[q] = call[q]
           /\ UNCHANGED <<rows, lastId, clock, expire>>
<1>1. PICK c \in Call : c = [IdleCall EXCEPT !.pc = "ret", !.out = "err"]
  BY DEF IdleCall, Call
<1>2. c.pc = "ret" /\ c.out = "err" /\ c.now = 0
  BY <1>1 DEF IdleCall
<1>3. call' = [call EXCEPT ![p] = c] /\ UNCHANGED <<rows, lastId, clock, expire>>
  BY <1>1 DEF ClosedCall
<1> QED BY <1>2, <1>3 DEF TypeOK

\* The store's invariants hold under the service too.
LEMMA BaseStep ==
    ASSUME ServiceInv, [ServiceNext]_vars
    PROVE  TypeOK' /\ TableConsistent' /\ StampsNotAhead'
<1>0. TypeOK /\ TableConsistent /\ StampsNotAhead
  BY DEF ServiceInv, ServiceTypeOK
<1>1. CASE [StoreNext]_storeVars
  BY <1>0, <1>1, TypeStep, TableStep, StampStep
<1>2. ASSUME NEW p \in Procs, ClosedCall(p)
      PROVE  TypeOK' /\ TableConsistent' /\ StampsNotAhead'
  <2>1. /\ call' \in [Procs -> Call]
        /\ call'[p].pc = "ret" /\ call'[p].now = 0
        /\ \A q \in Procs \ {p} : call'[q] = call[q]
        /\ UNCHANGED <<rows, lastId, clock, expire>>
    BY <1>0, <1>2, ClosedCallStep
  <2>2. TypeOK'
    BY <1>0, <2>1 DEF TypeOK
  <2>3. TableConsistent'
    BY <1>0, <2>1, TableShrinks
  <2>4. StampsNotAhead'
    BY <1>0, <2>1 DEF StampsNotAhead, TypeOK
  <2> QED BY <2>2, <2>3, <2>4
<1> QED BY <1>1, <1>2, StoreSteps

-----------------------------------------------------------------------------
(***************************************************************************)
(* The statements.                                                         *)
(***************************************************************************)
\* A row leaves the table only when the history takes note.
LEMMA RowStays ==
    ASSUME TypeOK, StampsNotAhead, NEW p \in Procs, Statement(p), NEW r \in rows
    PROVE  \/ r.id \in Doomed(p)
           \/ \E s \in rows' : s.id = r.id /\ s.slug = r.slug /\ s.body = r.body
<1>0. r \in Row
  BY DEF TypeOK
<1>1. CASE rows \subseteq rows'
  BY <1>1
<1>2. CASE GetBump(p)
  <2> DEFINE s == IF r.id = call[p].id
                  THEN [r EXCEPT !.expires_at = call[p].now + expire] ELSE r
  <2>1. s \in rows'
    BY <1>2 DEF GetBump, Slid
  <2>2. s.id = r.id /\ s.slug = r.slug /\ s.body = r.body
    BY <1>0 DEF Row
  <2> QED BY <2>1, <2>2
<1>3. CASE DeleteExec(p)
  <2>1. CASE r.slug = call[p].key
    BY <1>3, <2>1 DEF DeleteExec, Doomed
  <2>2. CASE r.slug # call[p].key
    BY <1>3, <2>2 DEF DeleteExec
  <2> QED BY <2>1, <2>2
<1>4. CASE PurgeExec(p)
  <2>1. CASE r \in Purgeable(call[p].now)
    <3>1. r.expires_at \in Nat /\ r.expires_at <= call[p].now
      BY <1>0, <2>1 DEF Purgeable, Row
    <3>2. call[p].now <= clock /\ call[p].now \in Nat /\ clock \in Nat
      BY DEF StampsNotAhead, TypeOK, Call
    <3>3. ~Live(r, clock)
      BY <3>1, <3>2 DEF Live
    <3> QED BY <1>4, <3>3 DEF PurgeExec, Doomed
  <2>2. CASE r \notin Purgeable(call[p].now)
    BY <1>4, <2>2 DEF PurgeExec
  <2> QED BY <2>1, <2>2
<1> QED
  BY <1>1, <1>2, <1>3, <1>4
  DEF Statement, SelectMiss, SelectHit, SetExists, SetInsert, StmtFails

\* What is kept stays kept.
LEMMA KeptStays ==
    ASSUME TypeOK, StampsNotAhead, NEW p \in Procs, StoreStep(p),
           NEW id, NEW k, NEW b, Kept(id, k, b)
    PROVE  Kept(id, k, b)'
<1> SUFFICES ASSUME id \notin gone'
             PROVE  \E s \in rows' : s.id = id /\ s.slug = k /\ s.body = b
  BY DEF Kept
<1>1. id \notin gone /\ id \notin Doomed(p) /\ Statement(p)
  BY DEF StoreStep
<1>2. PICK r \in rows : r.id = id /\ r.slug = k /\ r.body = b
  BY <1>1 DEF Kept
<1> QED BY <1>1, <1>2, RowStays

\* A handler that takes no part in a step remains as it is.
LEMMA OthersStay ==
    ASSUME NEW p \in Procs, GoodHandler(p), static' = static,
           call'[p] = call[p], req'[p] = req[p],
           ASSUME NEW id, NEW k, NEW b, Kept(id, k, b) PROVE Kept(id, k, b)'
    PROVE  GoodHandler(p)'
BY DEF GoodHandler

\* A statement keeps the whole invariant.
LEMMA StatementKeeps ==
    ASSUME ServiceInv, NEW p \in Procs, StoreStep(p)
    PROVE  ServiceInv'
<1>0. /\ TypeOK /\ TableConsistent /\ StampsNotAhead
      /\ Statement(p) /\ UNCHANGED <<srv, static, req, acked>>
  BY DEF ServiceInv, ServiceTypeOK, StoreStep
<1>1. TypeOK' /\ TableConsistent' /\ StampsNotAhead'
  BY BaseStep DEF ServiceNext
<1>2. /\ \A q \in Procs \ {p} : call'[q] = call[q]
      /\ call[p].pc \notin {"idle", "ret"}
      /\ call'[p].pc \in {"bump", "ret"}
      /\ call'[p].key = call[p].key /\ call'[p].bump = call[p].bump
      /\ call'[p].pc = "bump" => call[p].pc = "select" /\ call[p].bump
      /\ call'[p].pc = "ret" /\ call'[p].out = "ok" =>
            SetInsert(p) /\ call'[p].id = NextId
  BY <1>0, StatementStep
<1>3. Doomed(p) \subseteq Nat
  BY <1>0 DEF Doomed, TypeOK, Row
<1>4. ServiceTypeOK'
  BY <1>0, <1>1, <1>3 DEF ServiceInv, ServiceTypeOK, StoreStep
<1>5. ASSUME NEW id, NEW k, NEW b, Kept(id, k, b) PROVE Kept(id, k, b)'
  BY <1>0, <1>5, KeptStays
<1>6. ASSUME NEW q \in Handlers, q # p PROVE GoodHandler(q)'
  BY <1>0, <1>2, <1>5, <1>6, OthersStay DEF ServiceInv
<1>7. ASSUME p \in Handlers PROVE GoodHandler(p)'
  <2>1. GoodHandler(p)
    BY <1>7 DEF ServiceInv
  <2>2. ASSUME req[p].st = "store"
        PROVE  /\ call'[p].pc = "ret"
               /\ call'[p].out = "ok" => Kept(call[p].id, req[p].key, req[p].body)'
    <3>1. call[p].pc = "insert" /\ call[p].key = req[p].key /\ call[p].body = req[p].body
      BY <1>2, <2>1, <2>2 DEF GoodHandler
    <3>2. call'[p].pc = "ret"
      BY <1>2, <3>1
    <3>3. ASSUME call'[p].out = "ok"
          PROVE  Kept(call[p].id, req[p].key, req[p].body)'
      <4>1. SetInsert(p) /\ call'[p].id = NextId
        BY <1>2, <3>2, <3>3
      <4>2. NewRow(call[p]) \in rows'
        BY <4>1 DEF SetInsert
      <4>3. /\ NewRow(call[p]).id = NextId /\ NewRow(call[p]).slug = req[p].key
            /\ NewRow(call[p]).body = req[p].body
        BY <3>1 DEF NewRow
      <4> QED BY <1>0, <4>1, <4>2, <4>3 DEF Kept
    <3> QED BY <3>2, <3>3
  <2>3. req'[p] = req[p] /\ static' = static
    BY <1>0
  <2> QED BY <1>2, <2>1, <2>2, <2>3 DEF GoodHandler
<1>8. call'[Main].pc \in {"idle", "insert", "ret"}
  BY <1>2 DEF ServiceInv
<1>9. srv' \in {"down", "loading"} => Quiet'
  BY <1>0, <1>2 DEF ServiceInv, Quiet
<1>10. AckedPasteStays'
  <2> SUFFICES ASSUME NEW a \in acked PROVE Kept(a.id, a.key, a.body)'
    BY <1>0 DEF AckedPasteStays, Kept
  <2>1. Kept(a.id, a.key, a.body)
    BY DEF ServiceInv, AckedPasteStays, Kept
  <2> QED BY <1>5, <2>1
<1> QED BY <1>1, <1>4, <1>6, <1>7, <1>8, <1>9, <1>10 DEF ServiceInv

-----------------------------------------------------------------------------
(***************************************************************************)
(* The handlers.                                                           *)
(***************************************************************************)
\* Before the preload is answered no handler is served.
LEMMA ServedLater ==
    ASSUME ServiceInv, NEW p \in Handlers, Serve(p)
    PROVE  srv \notin {"down", "loading"}
<1> SUFFICES ASSUME srv \in {"down", "loading"} PROVE FALSE
  OBVIOUS
<1>1. call[p].pc = "idle" /\ req[p].st = "idle"
  BY DEF ServiceInv, Quiet
<1> QED
  BY <1>1
  DEF Serve, PostRefused, PostBegin, Draw, Panic, View, DeleteStatic, Delete, Purge,
      Continue, Probed, Store, Stored, Viewed, Deleted, Purged, Reply, Accept, Answered

\* The requests handlers make of the ones they have.
Phases == {"idle", "draw", "probe", "keyed", "store", "get", "delete", "purge", "done"}
Codes == {0, 200, 201, 400, 403, 404, 429, 500}

LEMMA RequestFields == Request = [st : Phases, key : Keys \cup {Null},
                                  body : Bodies \cup {Null}, code : Codes]
BY DEF Request, Phases, Codes

\* p's request, and no other, has turned to phase st.
Became(p, st) ==
    /\ req' \in [Procs -> Request] /\ req'[p].st = st
    /\ \A q \in Procs \ {p} : req'[q] = req[q]

LEMMA BecomePhase ==
    ASSUME req \in [Procs -> Request], NEW p \in Procs, NEW r \in Request,
           NEW st \in Phases,
           Become(p, [r EXCEPT !.st = st])
    PROVE  Became(p, st) /\ req'[p].key = r.key /\ req'[p].body = r.body
<1> DEFINE s == [r EXCEPT !.st = st]
<1>1. s \in Request /\ s.st = st /\ s.key = r.key /\ s.body = r.body
  BY RequestFields DEF Phases
<1>2. Become(p, s)
  OBVIOUS
<1> HIDE DEF s
<1> QED BY <1>1, <1>2 DEF Become, Became

LEMMA BecomeKeyed ==
    ASSUME req \in [Procs -> Request], NEW p \in Procs, NEW r \in Request,
           NEW st \in Phases, NEW k \in Keys,
           Become(p, [r EXCEPT !.st = st, !.key = k])
    PROVE  Became(p, st) /\ req'[p].key = k /\ req'[p].body = r.body
<1> DEFINE s == [r EXCEPT !.st = st, !.key = k]
<1>1. s \in Request /\ s.st = st /\ s.key = k /\ s.body = r.body
  BY RequestFields DEF Phases
<1>2. Become(p, s)
  OBVIOUS
<1> HIDE DEF s
<1> QED BY <1>1, <1>2 DEF Become, Became

LEMMA BecomeBody ==
    ASSUME req \in [Procs -> Request], NEW p \in Procs, NEW r \in Request,
           NEW st \in Phases, NEW b \in Bodies,
           Become(p, [r EXCEPT !.st = st, !.body = b])
    PROVE  Became(p, st) /\ req'[p].body = b
<1> DEFINE s == [r EXCEPT !.st = st, !.body = b]
<1>1. s \in Request /\ s.st = st /\ s.body = b
  BY RequestFields DEF Phases
<1>2. Become(p, s)
  OBVIOUS
<1> HIDE DEF s
<1> QED BY <1>1, <1>2 DEF Become, Became

LEMMA BecomeDone ==
    ASSUME req \in [Procs -> Request], NEW p \in Procs, NEW r \in Request,
           NEW code \in Codes,
           Become(p, [r EXCEPT !.st = "done", !.code = code])
    PROVE  Became(p, "done")
<1> DEFINE s == [r EXCEPT !.st = "done", !.code = code]
<1>1. s \in Request /\ s.st = "done"
  BY RequestFields DEF Phases
<1>2. Become(p, s)
  OBVIOUS
<1> HIDE DEF s
<1> QED BY <1>1, <1>2 DEF Become, Became

LEMMA BecomeViewed ==
    ASSUME req \in [Procs -> Request], NEW p \in Procs, NEW r \in Request,
           NEW code \in Codes, NEW b \in Bodies \cup {Null},
           Become(p, [r EXCEPT !.st = "done", !.code = code, !.body = b])
    PROVE  Became(p, "done")
<1> DEFINE s == [r EXCEPT !.st = "done", !.code = code, !.body = b]
<1>1. s \in Request /\ s.st = "done"
  BY RequestFields DEF Phases
<1>2. Become(p, s)
  OBVIOUS
<1> HIDE DEF s
<1> QED BY <1>1, <1>2 DEF Become, Became

LEMMA BecomeStatic ==
    ASSUME req \in [Procs -> Request], NEW p \in Procs, NEW r \in Request,
           NEW code \in Codes, NEW k \in Keys,
           Become(p, [r EXCEPT !.st = "done", !.key = k, !.code = code])
    PROVE  Became(p, "done")
<1> DEFINE s == [r EXCEPT !.st = "done", !.key = k, !.code = code]
<1>1. s \in Request /\ s.st = "done"
  BY RequestFields DEF Phases
<1>2. Become(p, s)
  OBVIOUS
<1> HIDE DEF s
<1> QED BY <1>1, <1>2 DEF Become, Became

\* What p's step leaves as the invariant wants it, when it does not touch the table.
Served(p) ==
    /\ UNCHANGED <<rows, gone, static, srv>>
    /\ \A q \in Procs \ {p} : call'[q] = call[q] /\ req'[q] = req[q]
    /\ req' \in [Procs -> Request] /\ acked' \subseteq Paste
    /\ GoodHandler(p)'
    /\ AckedPasteStays'

\* A handler gets its answer.
LEMMA ReturnStep ==
    ASSUME TypeOK, NEW p \in Procs, Return(p)
    PROVE  /\ call'[p].pc = "idle" /\ UNCHANGED rows
           /\ \A q \in Procs \ {p} : call'[q] = call[q]
BY DEF Return, IdleCall, TypeOK

\* The steps that make no store call and wait for none.
LEMMA AloneServed ==
    ASSUME ServiceInv, NEW p \in Handlers,
           \/ PostRefused(p) \/ Panic(p) \/ Reply(p)
           \/ \E b \in Texts : PostBegin(p, b)
           \/ \E k \in Keys : DeleteStatic(p, k)
    PROVE  Served(p)
<1>1. req \in [Procs -> Request] /\ req[p] \in Request /\ call \in [Procs -> Call]
  BY DEF ServiceInv, ServiceTypeOK, TypeOK
<1>2. UNCHANGED <<storeVars, srv, static, acked, gone>>
  BY DEF PostRefused, Panic, Reply, PostBegin, DeleteStatic
<1>3. IdleReq \in Request
  BY DEF IdleReq, Request
<1>4. /\ req' \in [Procs -> Request]
      /\ \A q \in Procs \ {p} : req'[q] = req[q]
      /\ req'[p].st \in {"idle", "draw", "done"}
      /\ req'[p].st = "draw" => req'[p].body \in Bodies
  <2>1. CASE PostRefused(p) \/ Panic(p)
    <3>1. PICK code \in Codes : Respond(p, code)
      BY <2>1 DEF PostRefused, Panic, Codes
    <3>2. Became(p, "done")
      BY <1>1, <3>1, BecomeDone DEF Respond
    <3> QED BY <3>2 DEF Became
  <2>2. CASE Reply(p)
    BY <1>1, <1>3, <2>2 DEF Reply, Become, IdleReq
  <2>3. CASE \E b \in Texts : PostBegin(p, b)
    <3>1. PICK b \in Bodies : Become(p, [IdleReq EXCEPT !.st = "draw", !.body = b])
      BY <2>3 DEF PostBegin
    <3>2. Became(p, "draw") /\ req'[p].body = b
      BY <1>1, <1>3, <3>1, BecomeBody DEF Phases
    <3> QED BY <3>2 DEF Became
  <2>4. CASE \E k \in Keys : DeleteStatic(p, k)
    <3>1. PICK k \in Keys : Become(p, [IdleReq EXCEPT !.st = "done", !.key = k, !.code = 403])
      BY <2>4 DEF DeleteStatic
    <3>2. Became(p, "done")
      <4>1. 403 \in Codes
        BY DEF Codes
      <4> QED BY <1>1, <1>3, <3>1, <4>1, BecomeStatic, Zenon
    <3> QED BY <3>2 DEF Became
  <2> QED BY <2>1, <2>2, <2>3, <2>4
<1>5. ~ (call[p].pc \in {"select", "bump"} /\ call[p].bump)
  BY DEF ServiceInv, GoodHandler, PostRefused, Panic, Reply, PostBegin, DeleteStatic, Accept
<1>6. GoodHandler(p)'
  BY <1>2, <1>4, <1>5 DEF storeVars, ServiceInv, GoodHandler
<1>7. AckedPasteStays' /\ acked' \subseteq Paste
  BY <1>2 DEF storeVars, ServiceInv, ServiceTypeOK, AckedPasteStays
<1> QED BY <1>2, <1>4, <1>6, <1>7 DEF storeVars, Served

\* p's call alone has begun, or ended; the table is as it was.
Called(p, pc) ==
    /\ call'[p].pc = pc /\ UNCHANGED rows
    /\ \A q \in Procs \ {p} : call'[q] = call[q]

\* The calls that handlers make.
LEMMA GetStep ==
    ASSUME TypeOK, NEW p \in Procs, NEW k \in Keys, NEW bump \in BOOLEAN, GetCall(p, k, bump)
    PROVE  Called(p, "select") /\ call'[p].key = k /\ call'[p].bump = bump
<1> DEFINE c == [IdleCall EXCEPT !.pc = "select", !.key = k, !.bump = bump]
<1>1. c \in Call /\ c.pc = "select" /\ c.key = k /\ c.bump = bump
  BY DEF IdleCall, Call
<1>2. Begin(p, c)
  BY DEF GetCall
<1> HIDE DEF c
<1> QED BY <1>1, <1>2, BeginStep DEF Called

LEMMA SetStep ==
    ASSUME TypeOK, NEW p \in Procs, NEW k \in Keys, NEW b \in Bodies, SetCall(p, k, b)
    PROVE  Called(p, "insert") /\ call'[p].key = k /\ call'[p].body = b
<1> DEFINE c == [IdleCall EXCEPT !.pc = "insert", !.key = k, !.body = b]
<1>1. c \in Call /\ c.pc = "insert" /\ c.key = k /\ c.body = b
  BY DEF IdleCall, Call
<1>2. Begin(p, c)
  BY DEF SetCall
<1> HIDE DEF c
<1> QED BY <1>1, <1>2, BeginStep DEF Called

LEMMA DeleteStep ==
    ASSUME TypeOK, NEW p \in Procs, NEW k \in Keys, DeleteCall(p, k)
    PROVE  Called(p, "delete") /\ call'[p].key = k
<1> DEFINE c == [IdleCall EXCEPT !.pc = "delete", !.key = k]
<1>1. c \in Call /\ c.pc = "delete" /\ c.key = k
  BY DEF IdleCall, Call
<1>2. Begin(p, c)
  BY DEF DeleteCall
<1> HIDE DEF c
<1> QED BY <1>1, <1>2, BeginStep DEF Called

LEMMA PurgeStep ==
    ASSUME TypeOK, NEW p \in Procs, PurgeCall(p)
    PROVE  Called(p, "purge")
<1> DEFINE c == [IdleCall EXCEPT !.pc = "purge"]
<1>1. c \in Call /\ c.pc = "purge"
  BY DEF IdleCall, Call
<1>2. Begin(p, c)
  BY DEF PurgeCall
<1> HIDE DEF c
<1> QED BY <1>1, <1>2, BeginStep DEF Called

\* What is left to show of a step that does not answer a POST.
LEMMA ServedBy ==
    ASSUME ServiceInv, NEW p \in Handlers, NEW st, Became(p, st),
           UNCHANGED <<rows, gone, static, srv, acked>>,
           \A q \in Procs \ {p} : call'[q] = call[q],
           GoodHandler(p)'
    PROVE  Served(p)
BY DEF Served, Became, ServiceInv, ServiceTypeOK, AckedPasteStays

\* The steps that make a store call.
LEMMA CallingServed ==
    ASSUME ServiceInv, NEW p \in Handlers,
           \/ \E k \in Drawn : Draw(p, k)
           \/ Store(p) \/ Purge(p)
           \/ \E k \in Keys : View(p, k) \/ Delete(p, k)
    PROVE  Served(p)
<1>0. /\ req \in [Procs -> Request] /\ req[p] \in Request /\ TypeOK /\ GoodHandler(p)
      /\ IdleReq \in Request
      /\ {"probe", "store", "get", "delete", "purge"} \subseteq Phases
  BY DEF ServiceInv, ServiceTypeOK, IdleReq, Request, Phases
<1>1. ASSUME NEW k \in Drawn, Draw(p, k) PROVE Served(p)
  <2>1. Became(p, "probe") /\ req'[p].key = k /\ req'[p].body = req[p].body
    BY <1>0, <1>1, BecomeKeyed DEF Draw
  <2>2. req[p].body \in Bodies
    BY <1>0, <1>1 DEF Draw, GoodHandler
  <2>3. Called(p, "ret") \/ (Called(p, "select") /\ ~ call'[p].bump)
    BY <1>0, <1>1, GetStep, ClosedCallStep DEF Draw, Called
  <2>4. GoodHandler(p)'
    BY <2>1, <2>2, <2>3 DEF Became, Called, GoodHandler
  <2> QED BY <1>1, <2>1, <2>3, <2>4, ServedBy DEF Draw, Called
<1>2. CASE Store(p)
  <2>1. req[p].key \in Keys /\ req[p].body \in Bodies
    BY <1>0, <1>2 DEF Store, GoodHandler
  <2>2. Became(p, "store") /\ req'[p].key = req[p].key /\ req'[p].body = req[p].body
    BY <1>0, <1>2, BecomePhase DEF Store
  <2>3. \/ Called(p, "ret") /\ call'[p].out = "err"
        \/ Called(p, "insert") /\ call'[p].key = req[p].key /\ call'[p].body = req[p].body
    <3>1. CASE srv = "closed"
      <4>1. ClosedCall(p)
        BY <1>2, <3>1 DEF Store
      <4> QED BY <1>0, <4>1, ClosedCallStep DEF Called
    <3>2. CASE srv # "closed"
      <4>1. SetCall(p, req[p].key, req[p].body)
        BY <1>2, <3>2 DEF Store
      <4> QED BY <1>0, <2>1, <4>1, SetStep
    <3> QED BY <3>1, <3>2
  <2>4. GoodHandler(p)'
    BY <2>1, <2>2, <2>3 DEF Became, Called, GoodHandler
  <2> QED BY <1>2, <2>2, <2>3, <2>4, ServedBy DEF Store, Called
<1>3. ASSUME NEW k \in Keys, View(p, k) PROVE Served(p)
  <2>1. Became(p, "get") /\ req'[p].key = k
    BY <1>0, <1>3, BecomeKeyed DEF View
  <2>2. Called(p, "select") /\ call'[p].key = k /\ call'[p].bump = (k \notin static)
    BY <1>0, <1>3, GetStep DEF View
  <2>3. GoodHandler(p)'
    BY <1>3, <2>1, <2>2 DEF Became, Called, GoodHandler, View
  <2> QED BY <1>3, <2>1, <2>2, <2>3, ServedBy DEF View, Called
<1>4. ASSUME NEW k \in Keys, Delete(p, k) PROVE Served(p)
  <2>1. Became(p, "delete")
    BY <1>0, <1>4, BecomeKeyed DEF Delete
  <2>2. Called(p, "delete") /\ call'[p].key = k
    BY <1>0, <1>4, DeleteStep DEF Delete
  <2>3. GoodHandler(p)'
    BY <1>4, <2>1, <2>2 DEF Became, Called, GoodHandler, Delete
  <2> QED BY <1>4, <2>1, <2>2, <2>3, ServedBy DEF Delete, Called
<1>5. CASE Purge(p)
  <2>1. Became(p, "purge")
    BY <1>0, <1>5, BecomePhase DEF Purge
  <2>2. Called(p, "purge")
    BY <1>0, <1>5, PurgeStep DEF Purge
  <2>3. GoodHandler(p)'
    BY <2>1, <2>2 DEF Became, Called, GoodHandler
  <2> QED BY <1>5, <2>1, <2>2, <2>3, ServedBy DEF Purge, Called
<1> QED BY <1>1, <1>2, <1>3, <1>4, <1>5

\* The steps that get an answer.  Stored is the one that promises something.
LEMMA AnsweredServed ==
    ASSUME ServiceInv, NEW p \in Handlers,
           Probed(p) \/ Stored(p) \/ Viewed(p) \/ Deleted(p) \/ Purged(p)
    PROVE  Served(p)
<1>0. /\ req \in [Procs -> Request] /\ req[p] \in Request /\ TypeOK /\ GoodHandler(p)
      /\ call[p] \in Call
  BY DEF ServiceInv, ServiceTypeOK, TypeOK
<1>1. Called(p, "idle")
  <2>1. Return(p)
    BY DEF Probed, Stored, Viewed, Deleted, Purged, Answered
  <2> QED BY <1>0, <2>1, ReturnStep DEF Called
<1>2. CASE Probed(p)
  <2>1. req[p].body \in Bodies /\ req[p].key \in Keys
    BY <1>0, <1>2 DEF Probed, Answered, GoodHandler
  <2>2. \/ Became(p, "draw") /\ req'[p].body = req[p].body
        \/ Became(p, "keyed") /\ req'[p].body = req[p].body /\ req'[p].key = req[p].key
        \/ Became(p, "done")
    <3>1. CASE call[p].out = "hit"
      BY <1>0, <1>2, <3>1, BecomePhase DEF Probed, Phases
    <3>2. CASE call[p].out = "miss"
      BY <1>0, <1>2, <3>2, BecomePhase DEF Probed, Phases
    <3>3. CASE call[p].out \notin {"hit", "miss"}
      <4>1. Respond(p, 500)
        BY <1>2, <3>3 DEF Probed
      <4>2. 500 \in Codes
        BY DEF Codes
      <4>3. Become(p, [req[p] EXCEPT !.st = "done", !.code = 500])
        BY <4>1, Zenon DEF Respond
      <4>4. Became(p, "done")
        BY <1>0, <4>2, <4>3, BecomeDone, Zenon
      <4> QED BY <4>4
    <3> QED BY <3>1, <3>2, <3>3
  <2>3. GoodHandler(p)'
    BY <1>1, <2>1, <2>2 DEF Became, Called, GoodHandler
  <2> QED BY <1>1, <1>2, <2>2, <2>3, ServedBy DEF Probed, Answered, Called
<1>3. CASE Stored(p)
  <2>1. Became(p, "done")
    <3>1. PICK code \in Codes : Respond(p, code)
      BY <1>3 DEF Stored, StoreCode, Codes
    <3> QED BY <1>0, <3>1, BecomeDone DEF Respond
  <2>2. GoodHandler(p)'
    BY <1>1, <2>1 DEF Became, Called, GoodHandler
  <2>3. /\ req[p].key \in Keys /\ req[p].body \in Bodies /\ call[p].id \in Nat
        /\ call[p].out = "ok" => Kept(call[p].id, req[p].key, req[p].body)
    BY <1>0, <1>3 DEF Stored, Answered, Return, GoodHandler, Call
  <2>4. /\ UNCHANGED <<rows, gone, static, srv>>
        /\ \/ acked' = acked
           \/ /\ call[p].out = "ok"
              /\ acked' = acked \cup {[id |-> call[p].id, key |-> req[p].key,
                                       body |-> req[p].body]}
    BY <1>1, <1>3 DEF Stored, StoreCode, Called
  <2>5. acked' \subseteq Paste
    BY <2>3, <2>4 DEF Paste, ServiceInv, ServiceTypeOK
  <2>6. AckedPasteStays'
    BY <2>3, <2>4 DEF Kept, AckedPasteStays, ServiceInv
  <2> QED BY <1>1, <2>1, <2>2, <2>4, <2>5, <2>6 DEF Served, Called, Became
<1>4. CASE Viewed(p) \/ Deleted(p) \/ Purged(p)
  <2>1. FoundCode(call[p].out) \in Codes
    BY DEF FoundCode, Codes
  <2>2. Became(p, "done")
    <3>1. CASE Viewed(p)
      <4> DEFINE b == IF FoundCode(call[p].out) = 200 THEN call[p].body ELSE Null
      <4>1. Become(p, [req[p] EXCEPT !.st = "done", !.code = FoundCode(call[p].out),
                                     !.body = b])
        BY <3>1 DEF Viewed
      <4>2. b \in Bodies \cup {Null}
        BY <1>0 DEF Call
      <4> HIDE DEF b
      <4> QED BY <1>0, <2>1, <4>1, <4>2, BecomeViewed
    <3>2. CASE Deleted(p) \/ Purged(p)
      BY <1>0, <2>1, <3>2, BecomeDone DEF Deleted, Purged, Respond
    <3> QED BY <1>4, <3>1, <3>2
  <2>3. GoodHandler(p)'
    BY <1>1, <2>2 DEF Became, Called, GoodHandler
  <2> QED BY <1>1, <1>4, <2>2, <2>3, ServedBy DEF Viewed, Deleted, Purged, Called
<1> QED BY <1>2, <1>3, <1>4

\* A handler's step keeps the whole invariant.
LEMMA ServeKeeps ==
    ASSUME ServiceInv, NEW p \in Handlers, Serve(p)
    PROVE  ServiceInv'
<1>1. Served(p)
  BY AloneServed, CallingServed, AnsweredServed DEF Serve, Continue
<1>2. TypeOK' /\ TableConsistent' /\ StampsNotAhead'
  BY BaseStep DEF ServiceNext
<1>3. ServiceTypeOK'
  BY <1>1, <1>2 DEF Served, ServiceInv, ServiceTypeOK
<1>4. ASSUME NEW q \in Handlers, q # p PROVE GoodHandler(q)'
  BY <1>1, <1>4, OthersStay DEF Served, Kept, ServiceInv
<1>5. call'[Main].pc \in {"idle", "insert", "ret"}
  BY <1>1 DEF Served, ServiceInv
<1>6. srv' \notin {"down", "loading"}
  BY <1>1, ServedLater DEF Served
<1> QED BY <1>1, <1>2, <1>3, <1>4, <1>5, <1>6 DEF Served, ServiceInv

-----------------------------------------------------------------------------
(***************************************************************************)
(* The process.                                                            *)
(***************************************************************************)
\* Boot and Preloaded: main is alone.
LEMMA StartKeeps ==
    ASSUME ServiceInv, Boot \/ Preloaded
    PROVE  ServiceInv'
<1>0. TypeOK /\ Quiet /\ UNCHANGED <<req, acked, gone>>
  BY DEF ServiceInv, ServiceTypeOK, Boot, Preloaded
<1>1. TypeOK' /\ TableConsistent' /\ StampsNotAhead'
  BY BaseStep DEF ServiceNext
<1>2. Called(Main, "insert") \/ Called(Main, "idle")
  <2>1. CASE Boot
    BY <1>0, <2>1, SetStep DEF Boot
  <2>2. CASE Preloaded
    BY <1>0, <2>2, ReturnStep DEF Preloaded, Called
  <2> QED BY <2>1, <2>2
<1>3. static' \subseteq {AboutKey} /\ srv' \in {"loading", "up"}
  BY DEF ServiceInv, ServiceTypeOK, Boot, Preloaded
<1>4. Quiet'
  BY <1>0, <1>2 DEF Quiet, Called
<1>5. \A p \in Handlers : GoodHandler(p)'
  BY <1>4 DEF Quiet, GoodHandler
<1>6. ServiceTypeOK'
  BY <1>0, <1>1, <1>3 DEF ServiceInv, ServiceTypeOK
<1>7. AckedPasteStays'
  BY <1>0, <1>2 DEF Called, ServiceInv, AckedPasteStays
<1>8. call'[Main].pc \in {"idle", "insert", "ret"}
  BY <1>2 DEF Called
<1> QED BY <1>1, <1>4, <1>5, <1>6, <1>7, <1>8 DEF ServiceInv

\* The other steps of the process, and time.
LEMMA ProcessKeeps ==
    ASSUME ServiceInv,
           \/ Signal \/ Drained \/ CutShort \/ Exit \/ Halt \/ TimePasses
           \/ UNCHANGED vars
    PROVE  ServiceInv'
<1>1. TypeOK' /\ TableConsistent' /\ StampsNotAhead'
  BY BaseStep DEF ServiceNext
<1>2. CASE Exit \/ Halt
  <2>1. /\ call' = [p \in Procs |-> IdleCall] /\ req' = [p \in Procs |-> IdleReq]
        /\ srv' = "down" /\ static' = {} /\ UNCHANGED <<rows, acked, gone>>
    BY <1>2 DEF Exit, Halt, Stop, Restart
  <2>2. \A p \in Procs : call'[p].pc = "idle" /\ req'[p].st = "idle"
    BY <2>1 DEF IdleCall, IdleReq
  <2>3. ServiceTypeOK'
    <3>1. IdleReq \in Request
      BY DEF IdleReq, Request
    <3> QED BY <1>1, <2>1, <3>1 DEF ServiceInv, ServiceTypeOK
  <2>4. AckedPasteStays'
    BY <2>1 DEF ServiceInv, AckedPasteStays
  <2>5. \A p \in Handlers : GoodHandler(p)'
    BY <2>2 DEF GoodHandler
  <2> QED BY <1>1, <2>2, <2>3, <2>4, <2>5 DEF ServiceInv, Quiet
<1>3. CASE \/ Signal \/ Drained \/ CutShort \/ TimePasses
           \/ UNCHANGED vars
  <2>1. /\ UNCHANGED <<rows, call, req, static, acked, gone>>
        /\ srv' \in {"draining", "closed"} \/ srv' = srv
    BY <1>3
    DEF Signal, Drained, CutShort, TimePasses, Tick, serviceVars, storeVars, vars
  <2>2. ServiceTypeOK' /\ AckedPasteStays'
    BY <1>1, <2>1 DEF ServiceInv, ServiceTypeOK, AckedPasteStays
  <2>3. \A p \in Handlers : GoodHandler(p)'
    BY <2>1 DEF ServiceInv, GoodHandler, Kept
  <2> QED BY <1>1, <2>1, <2>2, <2>3 DEF ServiceInv, Quiet
<1> QED BY <1>2, <1>3

-----------------------------------------------------------------------------
(***************************************************************************)
(* The theorems.                                                           *)
(***************************************************************************)
\* ServiceInv is inductive.
THEOREM ServiceInvariant == ServiceSpec => []ServiceInv
<1>1. ServiceInit => ServiceInv
  <2> SUFFICES ASSUME ServiceInit PROVE ServiceInv
    OBVIOUS
  <2>1. TypeOK /\ TableConsistent /\ StampsNotAhead
    BY TypeInit
    DEF ServiceInit, StoreInit, IdleCall, TableConsistent, SlugUnique, IdUnique, IdsGiven,
        ReaderKnowsItsRow, StampsNotAhead
  <2>2. \A p \in Procs : call[p].pc = "idle" /\ req[p].st = "idle"
    BY DEF ServiceInit, StoreInit, IdleCall, IdleReq
  <2>3. ServiceTypeOK /\ AckedPasteStays
    <3>1. IdleReq \in Request
      BY DEF IdleReq, Request
    <3> QED BY <2>1, <3>1 DEF ServiceInit, ServiceTypeOK, AckedPasteStays
  <2>4. \A p \in Handlers : GoodHandler(p)
    BY <2>2 DEF GoodHandler
  <2> QED BY <2>1, <2>2, <2>3, <2>4 DEF ServiceInv, Quiet
<1>2. ServiceInv /\ [ServiceNext]_vars => ServiceInv'
  BY StatementKeeps, ServeKeeps, StartKeeps, ProcessKeeps DEF ServiceNext
<1> QED BY <1>1, <1>2, PTL DEF ServiceSpec

\* The process, the requests and the histories keep their types.
THEOREM ServiceTypeCorrect == ServiceSpec => []ServiceTypeOK
BY ServiceInvariant, PTL DEF ServiceInv

\* A 201 is kept: whatever other requests, failing statements, shutdowns and
\* restarts come between, the paste is there until it is deleted or has expired
\* and is purged.
THEOREM ServiceAckedPasteStays == ServiceSpec => []AckedPasteStays
BY ServiceInvariant, PTL DEF ServiceInv

\* Only a visitor's GET of an ordinary paste moves a deadline.
THEOREM ServiceOnlyVisitorsSlide == ServiceSpec => OnlyVisitorsSlide
<1>1. ASSUME ServiceInv, [ServiceNext]_vars,
             NEW r \in rows, NEW s \in rows', r.id = s.id, r.expires_at # s.expires_at
      PROVE  \E p \in Handlers : /\ req[p].st = "get"
                                 /\ req[p].key = s.slug
                                 /\ s.slug \notin static
  <2>0. TypeOK /\ TableConsistent
    BY <1>1 DEF ServiceInv, ServiceTypeOK
  <2>1. [StoreNext]_storeVars
    <3>1. ASSUME NEW q \in Procs, ClosedCall(q) PROVE FALSE
      BY <1>1, <2>0, <3>1 DEF ClosedCall, TableConsistent, IdUnique
    <3> QED BY <1>1, <3>1, StoreSteps
  <2>2. PICK p \in Procs :
          /\ GetBump(p) /\ call[p].id = r.id
          /\ s = [r EXCEPT !.expires_at = call[p].now + expire]
    BY <1>1, <2>0, <2>1, RowChange
  <2>3. call[p].pc = "bump" /\ p \in Handlers
    BY <1>1, <2>2 DEF GetBump, ServiceInv
  <2>4. req[p].st = "get" /\ call[p].key = req[p].key /\ call[p].key \notin static
    BY <1>1, <2>3 DEF ServiceInv, GoodHandler
  <2>5. r.slug = call[p].key
    BY <1>1, <2>0, <2>2, <2>3 DEF TableConsistent, ReaderKnowsItsRow
  <2>6. s.slug = r.slug
    BY <1>1, <2>0, <2>2 DEF TypeOK, Row
  <2> QED BY <2>3, <2>4, <2>5, <2>6
<1>2. ServiceInv /\ [ServiceNext]_vars =>
        [\A r \in rows, s \in rows' :
          (r.id = s.id /\ r.expires_at # s.expires_at) =>
             \E p \in Handlers : /\ req[p].st = "get"
                                 /\ req[p].key = s.slug
                                 /\ s.slug \notin static]_vars
  BY <1>1
<1> QED BY <1>2, ServiceInvariant, PTL DEF ServiceSpec, OnlyVisitorsSlide

\* What the server takes for preloaded leaves only by age: a Delete under way
\* was begun for another key.
THEOREM ServiceStaticLeavesByAge == ServiceSpec => StaticLeavesByAge
<1>1. ASSUME ServiceInv, [ServiceNext]_vars, AboutKey \in static,
             NEW r \in rows, r.slug = AboutKey, \A s \in rows' : s.id # r.id
      PROVE  ~Live(r, clock)
  <2>0. TypeOK /\ StampsNotAhead
    BY <1>1 DEF ServiceInv, ServiceTypeOK
  <2>1. ASSUME rows' = rows PROVE FALSE
    BY <1>1, <2>1
  <2>2. PICK p \in Procs : StoreStep(p)
    <3>1. CASE \E p \in Handlers : Serve(p)
      <4>1. PICK p \in Handlers : Serve(p)
        BY <3>1
      <4>2. Served(p)
        BY <1>1, <4>1, AloneServed, CallingServed, AnsweredServed DEF Serve, Continue
      <4> QED BY <2>1, <4>2 DEF Served
    <3>2. CASE Boot \/ Preloaded
      BY <2>1, <3>2 DEF Boot, SetCall, Begin, Preloaded, Return
    <3>3. CASE Signal \/ Drained \/ CutShort \/ Exit \/ Halt \/ TimePasses \/ UNCHANGED vars
      BY <2>1, <3>3 DEF Signal, Drained, CutShort, Exit, Halt, Stop, Restart, TimePasses,
                        Tick, storeVars, vars
    <3> QED BY <1>1, <3>1, <3>2, <3>3 DEF ServiceNext
  <2>3. Statement(p)
    BY <2>2 DEF StoreStep
  <2>4. r.id \in Doomed(p)
    BY <1>1, <2>0, <2>3, RowStays
  <2>5. \/ call[p].pc = "delete" /\ r.slug = call[p].key
        \/ call[p].pc = "purge" /\ ~Live(r, clock)
    BY <1>1, <2>4 DEF Doomed, ServiceInv, TableConsistent, IdUnique
  <2>6. ASSUME call[p].pc = "delete" PROVE r.slug # call[p].key
    BY <1>1, <2>6 DEF ServiceInv, GoodHandler
  <2> QED BY <2>5, <2>6
<1>2. ServiceInv /\ [ServiceNext]_vars =>
        [(AboutKey \in static /\ srv' # "down") =>
          \A r \in rows : (r.slug = AboutKey /\ \A s \in rows' : s.id # r.id) =>
              ~Live(r, clock)]_vars
  BY <1>1
<1> QED BY <1>2, ServiceInvariant, PTL DEF ServiceSpec, StaticLeavesByAge

-----------------------------------------------------------------------------
(***************************************************************************)
(* The handlers, the preload and the shutdown over the Store interface.    *)
(***************************************************************************)
\* A call that finds the store closed is the board's refusal.
LEMMA ClosedCallShuts ==
    ASSUME TypeOK, TypeOK', NEW p \in Procs, ClosedCall(p)
    PROVE  Board!Shut(p)
<1> DEFINE c == [IdleCall EXCEPT !.pc = "ret", !.out = "err"]
<1>1. call' = [call EXCEPT ![p] = c] /\ UNCHANGED <<rows, clock>> /\ call[p].pc = "idle"
  BY DEF ClosedCall
<1>2. call'[p] = c /\ \A q \in Procs \ {p} : call'[q] = call[q]
  BY <1>1 DEF TypeOK
<1>3. OneOp(c) = [Board!IdleOp EXCEPT !.st = "done", !.out = "err"]
  <2> DEFINE a == Board!IdleOp
             o == [a EXCEPT !.st = "done", !.out = "err"]
  <2>1. IdleCall \in Call
    BY DEF IdleCall, Call
  <2>2. c \in Call /\ c.pc = "ret" /\ c.out = "err" /\ c.key = IdleCall.key
        /\ c.body = IdleCall.body /\ c.bump = IdleCall.bump /\ c.now = IdleCall.now
    BY <2>1 DEF Call
  <2>3. a \in Operation /\ a.key = IdleCall.key /\ a.body = IdleCall.body
        /\ a.bump = IdleCall.bump /\ a.since = IdleCall.now
    BY <2>1, IdleStands, OneOpType
  <2> HIDE DEF a
  <2>4. /\ o \in Operation /\ o.st = "done" /\ o.out = "err" /\ o.key = a.key
        /\ o.body = a.body /\ o.bump = a.bump /\ o.since = a.since
    BY <2>3 DEF Operation
  <2> HIDE DEF c, o
  <2>5. OneOp(c) \in Operation /\ OneOp(c).st = "done" /\ OneOp(c).out = "err"
        /\ OneOp(c).key = c.key /\ OneOp(c).body = c.body /\ OneOp(c).bump = c.bump
        /\ OneOp(c).since = c.now
    BY <2>2, OneOpType DEF StOf
  <2>6. OneOp(c) = o
    BY <2>2, <2>3, <2>4, <2>5, SameOp
  <2> QED BY <2>6 DEF o, a
<1>4. OneOp(call'[p]) = [Board!IdleOp EXCEPT !.st = "done", !.out = "err"]
  BY <1>2, <1>3
<1>5. OpOf' = [OpOf EXCEPT ![p] = [Board!IdleOp EXCEPT !.st = "done", !.out = "err"]]
  BY <1>2, <1>4, OneChanges
<1>6. OpOf[p].st = "idle"
  BY <1>1, OpFields DEF StOf
<1>7. BoardOf' = BoardOf /\ UNCHANGED clock
  BY <1>1, BoardSame
<1> QED BY <1>5, <1>6, <1>7 DEF Board!Shut

\* No handler slides but a visitor's read, and main never does.
LEMMA ServiceRefInv == ServiceInv => RefInv
<1> SUFFICES ASSUME ServiceInv, NEW p \in Procs, call[p].pc = "bump" PROVE call[p].bump
  BY DEF ServiceInv, ServiceTypeOK, RefInv, BumpMeant
<1>1. p \in Handlers
  BY DEF ServiceInv
<1> QED BY <1>1 DEF ServiceInv, GoodHandler

\* gopaste as a whole uses its store as the Store interface (store.go) promises
\* it: under requests that probe, save, read, delete and purge at once, the
\* preload, a shutdown that closes the store under them and any crash, what
\* they see and do is a board with one paste per key, one instant per operation.
THEOREM ServiceImplementsBoard == ServiceSpec => ImplementsBoard
<1>1. ServiceInit => Board!BoardInit
  BY InitBoard DEF ServiceInit
<1>2. ServiceInv /\ ServiceInv' /\ [ServiceNext]_vars => [Board!BoardNext]_(Board!boardVars)
  <2> SUFFICES ASSUME ServiceInv, ServiceInv', [ServiceNext]_vars
               PROVE  [Board!BoardNext]_(Board!boardVars)
    OBVIOUS
  <2>1. RefInv /\ RefInv'
    BY ServiceRefInv, PTL
  <2>2. CASE [StoreNext]_storeVars
    BY <2>1, <2>2, BoardStep
  <2>3. ASSUME NEW p \in Procs, ClosedCall(p) PROVE Board!BoardNext
    BY <2>1, <2>3, ClosedCallShuts DEF RefInv, Board!BoardNext
  <2> QED BY <2>2, <2>3, StoreSteps
<1> QED BY <1>1, <1>2, ServiceInvariant, PTL DEF ServiceSpec, ImplementsBoard, Board!BoardSpec

=============================================================================
