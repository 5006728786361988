------------------------------ MODULE SqlStore ------------------------------
(***************************************************************************)
(* The SQL backends of the paste store, internal/store/sqlite.go and       *)
(* internal/store/postgres.go.  Both keep one table                        *)
(*     pastes(id, slug UNIQUE, body, created_at, expires_at)               *)
(* and run every Store method as one statement on it, except Get, which    *)
(* runs a SELECT and then, outside any transaction, an UPDATE that slides  *)
(* the deadline.  Each method reads time.Now() before its first statement, *)
(* so that stamp may be old when a statement runs: the connection pool     *)
(* (one connection for sqlite) makes callers queue.                        *)
(*                                                                         *)
(* A statement is atomic.  The steps of different callers interleave.  A   *)
(* statement may fail without effect, or take effect and still be reported *)
(* as an error (the caller's context is cancelled, the connection breaks   *)
(* before the answer).  The process may stop at any point and start again  *)
(* with another expiry configured; rows survive, calls do not.             *)
(***************************************************************************)
EXTENDS Integers, FiniteSets

CONSTANTS
    Procs,     \* goroutines that call the store
    Keys,      \* slugs
    Bodies,    \* paste contents
    Expires,   \* values storage.expire may be configured with; 0 disables expiry
    Null,      \* SQL NULL, and "no value"
    MaxClock,  \* bound on the clock
    MaxId      \* bound on the number of rows ever inserted

ASSUME ExpiresAssumption == Expires \subseteq Nat /\ Expires # {}
ASSUME NullAssumption == Null \notin Keys \cup Bodies \cup Nat
\* Null is not mistaken for a paste either.
ASSUME PasteAssumption == Null \notin [body : Bodies, exp : Nat \cup {Null}]
ASSUME BoundsAssumption == MaxClock \in Nat /\ MaxId \in Nat

VARIABLES
    rows,      \* the table pastes (created_at is written and never compared)
    lastId,    \* the AUTOINCREMENT / sequence counter of the id column
    clock,     \* time.Now().Unix()
    expire,    \* the store's expire field, fixed from start to stop
    call       \* call[p]: the Store method goroutine p is executing

storeVars == <<rows, lastId, clock, expire, call>>

Row == [id : Nat, slug : Keys, body : Bodies, expires_at : Nat \cup {Null}]

Call == [pc   : {"idle", "select", "bump", "insert", "delete", "purge", "ret"},
         key  : Keys \cup {Null},
         body : Bodies \cup {Null},
         bump : BOOLEAN,
         now  : Nat,       \* the method's time stamp
         id   : Nat,       \* the row a Get read, or a Set inserted; 0 for none
         out  : {"none", "hit", "miss", "ok", "exists", "done", "err"}]

IdleCall == [pc |-> "idle", key |-> Null, body |-> Null, bump |-> FALSE,
             now |-> 0, id |-> 0, out |-> "none"]

(***************************************************************************)
(* The statements.                                                         *)
(***************************************************************************)
\* expires_at IS NULL OR expires_at > now
Live(r, now) == r.expires_at = Null \/ r.expires_at > now

\* Wrong variant: the live condition forgotten.
AnyMatch(k, now) == {r \in rows : r.slug = k}

\* SELECT ... WHERE slug = k AND live
Matches(k, now) == {r \in rows : r.slug = k /\ Live(r, now)}

\* Wrong variant: expiresAt.Valid not tested.
SlidesAny(c, r) == c.bump /\ expire > 0

\* The bump condition of Get, on the row it read.
Slides(c, r) == c.bump /\ expire > 0 /\ r.expires_at # Null

\* Wrong variant: the UPDATE finds its row by slug.
SlidBySlug(c) == {IF r.slug = c.key THEN [r EXCEPT !.expires_at = c.now + expire] ELSE r
                    : r \in rows}

\* Wrong variant: the UPDATE adds to the old deadline.
SlidFurther(c) == {IF r.id = c.id THEN [r EXCEPT !.expires_at = r.expires_at + expire] ELSE r
                     : r \in rows}

\* UPDATE pastes SET expires_at = now + expire WHERE id = c.id
Slid(c) == {IF r.id = c.id THEN [r EXCEPT !.expires_at = c.now + expire] ELSE r
              : r \in rows}

\* Wrong variant: -1 in place of NULL.
DeadlineSentinel(now) == IF expire > 0 THEN now + expire ELSE -1

\* expires_at of a new row
Deadline(now) == IF expire > 0 THEN now + expire ELSE Null

\* The id of a new row: AUTOINCREMENT (sqlite) or the sequence (postgres)
\* never gives an id out twice, not even that of a deleted row.
NextId == lastId + 1

\* Wrong variant: uniqueness among the live rows only.
TakenByLive(k) == Matches(k, clock) # {}

\* The UNIQUE constraint on slug: an expired row still holds its slug.
Taken(k) == \E r \in rows : r.slug = k

NewRow(c) == [id |-> NextId, slug |-> c.key, body |-> c.body,
              expires_at |-> Deadline(c.now)]

\* Wrong variant: the NULL test turned round.
PurgeableOrTimeless(now) == {r \in rows : r.expires_at = Null \/ r.expires_at <= now}

\* DELETE ... WHERE expires_at IS NOT NULL AND expires_at <= now
Purgeable(now) == {r \in rows : r.expires_at # Null /\ r.expires_at <= now}

----------------------------------------------------------------------------
StoreInit ==
    /\ rows = {}
    /\ lastId = 0
    /\ clock = 0
    /\ expire \in Expires
    /\ call = [p \in Procs |-> IdleCall]

Begin(p, c) ==
    /\ call[p].pc = "idle"
    /\ call' = [call EXCEPT ![p] = [c EXCEPT !.now = clock]]
    /\ UNCHANGED <<rows, lastId, clock, expire>>

\* The method is over; its caller finds out (and, for a Get, the body).
Answer(p, out) == call' = [call EXCEPT ![p] = [@ EXCEPT !.pc = "ret", !.out = out]]

GetCall(p, k, bump) ==
    Begin(p, [IdleCall EXCEPT !.pc = "select", !.key = k, !.bump = bump])

SetCall(p, k, b) ==
    Begin(p, [IdleCall EXCEPT !.pc = "insert", !.key = k, !.body = b])

DeleteCall(p, k) == Begin(p, [IdleCall EXCEPT !.pc = "delete", !.key = k])

PurgeCall(p) == Begin(p, [IdleCall EXCEPT !.pc = "purge"])

\* Get's SELECT finds no live row.
SelectMiss(p) ==
    /\ call[p].pc = "select"
    /\ Matches(call[p].key, call[p].now) = {}
    /\ Answer(p, "miss")
    /\ UNCHANGED <<rows, lastId, clock, expire>>

\* Get's SELECT finds the row; the UPDATE comes later or not at all.
SelectHit(p) ==
    /\ call[p].pc = "select"
    /\ \E r \in Matches(call[p].key, call[p].now) :
          LET read == [call[p] EXCEPT !.id = r.id, !.body = r.body]
          IN call' = [call EXCEPT ![p] =
                        IF Slides(call[p], r)
                        THEN [read EXCEPT !.pc = "bump"]
                        ELSE [read EXCEPT !.pc = "ret", !.out = "hit"]]
    /\ UNCHANGED <<rows, lastId, clock, expire>>

GetBump(p) ==
    /\ call[p].pc = "bump"
    /\ rows' = Slid(call[p])
    /\ \E out \in {"hit", "err"} : Answer(p, out)
    /\ UNCHANGED <<lastId, clock, expire>>

SetExists(p) ==
    /\ call[p].pc = "insert"
    /\ Taken(call[p].key)
    /\ Answer(p, "exists")
    /\ UNCHANGED <<rows, lastId, clock, expire>>

SetInsert(p) ==
    /\ call[p].pc = "insert"
    /\ ~Taken(call[p].key)
    /\ lastId < MaxId
    /\ rows' = rows \cup {NewRow(call[p])}
    /\ lastId' = NextId
    /\ \E out \in {"ok", "err"} :
          call' = [call EXCEPT ![p] =
                     [@ EXCEPT !.pc = "ret", !.out = out, !.id = NextId]]
    /\ UNCHANGED <<clock, expire>>

\* DELETE FROM pastes WHERE slug = k.  "miss" stands for found = false.
DeleteExec(p) ==
    /\ call[p].pc = "delete"
    /\ rows' = {r \in rows : r.slug # call[p].key}
    /\ \E out \in {IF Taken(call[p].key) THEN "done" ELSE "miss", "err"} :
          Answer(p, out)
    /\ UNCHANGED <<lastId, clock, expire>>

PurgeExec(p) ==
    /\ call[p].pc = "purge"
    /\ rows' = rows \ Purgeable(call[p].now)
    /\ \E out \in {"done", "err"} : Answer(p, out)
    /\ UNCHANGED <<lastId, clock, expire>>

\* A statement fails without effect.
StmtFails(p) ==
    /\ call[p].pc \notin {"idle", "ret"}
    /\ Answer(p, "err")
    /\ UNCHANGED <<rows, lastId, clock, expire>>

Return(p) ==
    /\ call[p].pc = "ret"
    /\ call' = [call EXCEPT ![p] = IdleCall]
    /\ UNCHANGED <<rows, lastId, clock, expire>>

Tick ==
    /\ clock < MaxClock
    /\ clock' = clock + 1
    /\ UNCHANGED <<rows, lastId, expire, call>>

\* The process stops, by Close or by a crash, and is started again: the
\* table survives, open calls do not, storage.expire is read again.
Restart ==
    /\ call' = [p \in Procs |-> IdleCall]
    /\ expire' \in Expires
    /\ UNCHANGED <<rows, lastId, clock>>

\* The steps of a method once it has been called.
Statement(p) ==
    \/ SelectMiss(p) \/ SelectHit(p) \/ GetBump(p)
    \/ SetExists(p) \/ SetInsert(p)
    \/ DeleteExec(p) \/ PurgeExec(p)
    \/ StmtFails(p)

Invoke(p) ==
    \/ \E k \in Keys, bump \in BOOLEAN : GetCall(p, k, bump)
    \/ \E k \in Keys, b \in Bodies : SetCall(p, k, b)
    \/ \E k \in Keys : DeleteCall(p, k)
    \/ PurgeCall(p)

StoreNext ==
    \/ \E p \in Procs : Invoke(p) \/ Statement(p) \/ Return(p)
    \/ Tick
    \/ Restart

StoreSpec == StoreInit /\ [][StoreNext]_storeVars

----------------------------------------------------------------------------
(***************************************************************************)
(* Properties.                                                             *)
(***************************************************************************)
\* The shape of the table and of the calls.
TypeOK ==
    /\ rows \in SUBSET Row
    /\ lastId \in Nat
    /\ clock \in Nat
    /\ expire \in Expires
    /\ call \in [Procs -> Call]
    /\ \A p \in Procs :
          /\ call[p].pc \in {"select", "bump", "insert", "delete"} => call[p].key \in Keys
          /\ call[p].pc \in {"bump", "insert"} => call[p].body \in Bodies

\* slug is UNIQUE: at most one paste can answer a read of a key.
SlugUnique == \A r, s \in rows : r.slug = s.slug => r = s

\* id is a key of the table and is never given out again.
IdUnique == \A r, s \in rows : r.id = s.id => r = s
IdsGiven == \A r \in rows : r.id \in 1..lastId

\* What a Get that is about to slide a deadline knows of its row still holds
\* if the row is still there, although other statements ran in between.
ReaderKnowsItsRow ==
    \A p \in Procs : call[p].pc = "bump" =>
        /\ call[p].id \in 1..lastId
        /\ expire > 0
        /\ \A r \in rows : r.id = call[p].id =>
              /\ r.slug = call[p].key
              /\ r.body = call[p].body
              /\ r.expires_at # Null

StampsNotAhead == \A p \in Procs : call[p].now <= clock

TableConsistent ==
    SlugUnique /\ IdUnique /\ IdsGiven /\ ReaderKnowsItsRow

\* No paste is kept longer than one expiry from now: reads slide a deadline
\* to (time of the read) + expire and never add to the old deadline, so any
\* number of concurrent reads cannot pile up more.
DeadlineWithinOneExpiry ==
    \A r \in rows : r.expires_at # Null =>
        \E e \in Expires : r.expires_at <= clock + e

\* A deadline is only ever moved by a Get that is delivering that very paste,
\* the same slug and the same content: not the paste somebody saved under the
\* key after the one that was read had been deleted.
SlideFollowsRead ==
    [][\A r \in rows, s \in rows' :
          (r.id = s.id /\ r # s) =>
             /\ s = [r EXCEPT !.expires_at = s.expires_at]
             /\ \E p \in Procs : /\ call[p].pc = "bump"
                                 /\ call[p].key = s.slug
                                 /\ call[p].body = s.body]_storeVars

\* A paste saved without a deadline never acquires one, even when the
\* process is restarted with an expiry and the paste is read again.
TimelessStaysTimeless ==
    [][\A r \in rows, s \in rows' :
          (r.id = s.id /\ r.expires_at = Null) => s.expires_at = Null]_storeVars

\* A paste leaves the table only for a Delete of its slug that is in progress
\* or for a purge, and then only past its deadline: however late the purge
\* runs after reading the time, and whatever slid the deadline meanwhile.
LeavesForCause ==
    [][\A r \in rows :
          (\A s \in rows' : s.id # r.id) =>
             \/ \E p \in Procs : call[p].pc = "delete" /\ call[p].key = r.slug
             \/ /\ \E p \in Procs : call[p].pc = "purge"
                /\ r.expires_at # Null
                /\ r.expires_at <= clock]_storeVars

----------------------------------------------------------------------------
(***************************************************************************)
(* Refinement: the table implements the board of PasteBoard.  The rows are *)
(* looked up by slug; a Get whose SELECT has run has its answer, and its   *)
(* pending UPDATE is the board's Slide.                                    *)
(***************************************************************************)
BoardOf ==
    [k \in Keys |-> IF Taken(k)
                    THEN LET r == CHOOSE r \in rows : r.slug = k
                         IN [body |-> r.body, exp |-> r.expires_at]
                    ELSE Null]

StOf(pc) == CASE pc = "select" -> "get"
              [] pc = "insert" -> "set"
              [] pc \in {"bump", "ret"} -> "done"
              [] OTHER -> pc

OpOf ==
    [p \in Procs |->
        [st |-> StOf(call[p].pc), key |-> call[p].key, body |-> call[p].body,
         bump |-> call[p].bump, since |-> call[p].now,
         out |-> IF call[p].pc = "bump" THEN "hit" ELSE call[p].out]]

Board == INSTANCE PasteBoard WITH board <- BoardOf, op <- OpOf

\* The SQL backends implement the Store interface: every method is atomic at
\* some instant of its call although Get runs two statements and every stamp
\* may be stale.
ImplementsBoard == Board!BoardSpec

=============================================================================
