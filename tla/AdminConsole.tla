---------------------------- MODULE AdminConsole ----------------------------
(***************************************************************************)
(* The administrator's page, web/admin/app.js: the array pastes, the rows  *)
(* and counts on the screen, and fetches whose answers come in any order.  *)
(* A click on delete turns its row into a question, and any rendering      *)
(* turns it back.  load() shows what it gets; loadStats(), which follows   *)
(* every delete, takes list and counts and does not render.                *)
(*                                                                         *)
(* A list answer is read in two steps.  List gives the names of one moment *)
(* but those it cannot stat or that go before it looks, and of these the   *)
(* newest ListLimit; then Stats counts, without a limit, what is there by  *)
(* that time.  A DELETE removes a paste that is there, a purge nothing     *)
(* that is listed.  Others save, delete and let expire meanwhile, and a    *)
(* session may end at any time, with a restart too: then every request     *)
(* that comes is answered 401, and what the next start preloads nobody     *)
(* here sees.                                                              *)
(***************************************************************************)
EXTENDS Integers, FiniteSets

CONSTANTS
    Keys, Builtin,   \* keys; those of preloaded documents
    Filters,         \* what the filter box can say, as the set of keys it lets through
    Missable,        \* keys that an answer may miss
    Null,
    ListLimit,       \* DefaultListLimit: what List(ctx, 0) gives at most
    MaxFlight        \* bound on requests under way

ASSUME KeysAssumption == Builtin \subseteq Keys /\ Null \notin Keys /\ Keys \in Filters
\* A generator draws its keys from finitely many, and the documents are listed.
ASSUME FiniteAssumption == IsFiniteSet(Keys)
ASSUME FlightAssumption == MaxFlight \in Nat \ {0}
ASSUME LimitAssumption == ListLimit \in Nat \ {0}

VARIABLES
    server,   \* keys of the pastes there are
    spent,    \* keys that were given out: a key is given out once
    session,  \* the administrator is logged in
    page,     \* "console", or "login" once a 401 came
    pastes,   \* the array, as the set of its keys
    filter,   \* the filter box
    rows,     \* the table: the keys shown
    asking,   \* rows that ask "delete this paste?"
    count,    \* the count shown, Null before the first answer
    toast,    \* the message shown last tells of an "error", or it does not: "none"
    fetches,  \* requests under way
    stale,    \* history: a loadStats failed, and no list has come since
    done,     \* history: keys whose delete was answered, and no list under way has them
    drift     \* history: what the list and the count shown can differ by

vars == <<server, spent, session, page, pastes, filter, rows, asking, count, toast, fetches,
          stale, done, drift>>

World   == <<server, spent, session>>
History == <<stale, done, drift>>
Screen  == <<pastes, filter, rows, asking, count, History>>

\* st: "sent", for a list "listed" when the server has the keys and not yet the
\* count, then the status; snap and cnt: the keys and the count of a list answer;
\* drift, a history: keys saved or removed between the two, or that one missed.
Fetch == [n : 1..MaxFlight, kind : {"load", "stats", "delete", "purge"},
          key : Keys \cup {Null}, st : {"sent", "listed", "ok", "401", "error"},
          snap : SUBSET Keys, cnt : 0..Cardinality(Keys), drift : SUBSET Keys]

Request(n, kind, k) ==
    [n |-> n, kind |-> kind, key |-> k, st |-> "sent", snap |-> {}, cnt |-> 0, drift |-> {}]

\* api(): one request more, if the bound allows.
Api(kind, k, others) ==
    /\ Cardinality(others) < MaxFlight
    /\ LET n == CHOOSE n \in 1..MaxFlight : \A f \in others : f.n # n
       IN fetches' = others \cup {Request(n, kind, k)}

\* render()
Render(list, q) ==
    /\ pastes' = list
    /\ filter' = q
    /\ rows' = list \cap q
    /\ asking' = {}

----------------------------------------------------------------------------
(***************************************************************************)
(* The administrator.                                                      *)
(***************************************************************************)
Init ==
    /\ server \in {S \in SUBSET Keys : Builtin \subseteq S}
    /\ spent = server
    /\ session = TRUE /\ page = "console"
    /\ pastes = {} /\ filter = Keys /\ rows = {} /\ asking = {} /\ count = Null
    /\ toast = "none" /\ stale = FALSE /\ done = {} /\ drift = {}
    /\ fetches = {Request(1, "load", Null)}

\* Wrong variant: built-in documents have a button as the others do.
DeletableAll == rows

\* Rows with a working delete button.
Deletable == rows \ Builtin

\* confirmDelete
ClickDelete(k) ==
    /\ page = "console" /\ k \in Deletable \ asking
    /\ asking' = asking \cup {k}
    /\ UNCHANGED <<World, page, pastes, filter, rows, count, toast, fetches, History>>

\* The button stays while the DELETE is under way.
ClickConfirm(k) ==
    /\ page = "console" /\ k \in asking
    /\ Api("delete", k, fetches)
    /\ UNCHANGED <<World, page, Screen, toast>>

\* Cancel, and the refresh button.
ClickLoad ==
    /\ page = "console"
    /\ Api("load", Null, fetches)
    /\ UNCHANGED <<World, page, Screen, toast>>

ClickPurge ==
    /\ page = "console"
    /\ Api("purge", Null, fetches)
    /\ UNCHANGED <<World, page, Screen, toast>>

\* Another text may let the same keys through.
TypeFilter(q) ==
    /\ page = "console"
    /\ Render(pastes, q)
    /\ UNCHANGED <<World, page, count, toast, fetches, History>>

----------------------------------------------------------------------------
(***************************************************************************)
(* The server and the world.                                               *)
(***************************************************************************)
\* An answer without a list.
Answered(f, st) == [Request(f.n, f.kind, f.key) EXCEPT !.st = st]

Settle(f, st) == fetches' = (fetches \ {f}) \cup {Answered(f, st)}

\* Lists whose count is still to be read, and a key that came or went.
Drifted(fs, k) == {IF f.st = "listed" THEN [f EXCEPT !.drift = @ \cup {k}] ELSE f : f \in fs}

\* GateAPI
ServeRefused(f) ==
    /\ f \in fetches /\ f.st = "sent" /\ ~ session
    /\ Settle(f, "401")
    /\ UNCHANGED <<World, page, Screen, toast>>

\* sort, and cut to the limit
NewestOf(found) ==
    {list \in SUBSET found : \/ Cardinality(list) = ListLimit
                             \/ list = found /\ Cardinality(list) < ListLimit}

\* adminListPastes, store.List
ServeList(f) ==
    /\ f \in fetches /\ f.st = "sent" /\ f.kind \in {"load", "stats"} /\ session
    /\ \E missed \in SUBSET (server \cap Missable) : \E list \in NewestOf(server \ missed) :
          fetches' = (fetches \ {f}) \cup {[f EXCEPT !.st = "listed", !.snap = list,
                                                    !.drift = missed]}
    /\ UNCHANGED <<World, page, Screen, toast>>

\* adminListPastes, store.Stats; the session is not looked at again.
ServeCount(f) ==
    /\ f \in fetches /\ f.st = "listed"
    /\ \E missed \in SUBSET (server \cap Missable) :
          fetches' = (fetches \ {f}) \cup {[f EXCEPT !.st = "ok", !.drift = f.drift \cup missed,
                                                    !.cnt = Cardinality(server \ missed)]}
    /\ UNCHANGED <<World, page, Screen, toast>>

\* adminDeletePaste: 403 for a built-in document, 404 if there is no such paste.
ServeDelete(f) ==
    /\ f \in fetches /\ f.st = "sent" /\ f.kind = "delete" /\ session
    /\ \/ /\ f.key \in server \ Builtin
          /\ server' = server \ {f.key}
          /\ fetches' = Drifted(fetches \ {f}, f.key) \cup {Answered(f, "ok")}
       \/ f.key \notin server \ Builtin /\ Settle(f, "error") /\ UNCHANGED server
    /\ UNCHANGED <<spent, session, page, Screen, toast>>

\* adminPurge
ServePurge(f) ==
    /\ f \in fetches /\ f.st = "sent" /\ f.kind = "purge" /\ session
    /\ Settle(f, "ok")
    /\ UNCHANGED <<World, page, Screen, toast>>

\* A 500, or no answer at all; a delete may have been done.
ServeFails(f) ==
    /\ f \in fetches /\ f.st \in {"sent", "listed"}
    /\ \/ Settle(f, "error") /\ UNCHANGED server
       \/ /\ f.kind = "delete" /\ session /\ f.key \in server \ Builtin
          /\ server' = server \ {f.key}
          /\ fetches' = Drifted(fetches \ {f}, f.key) \cup {Answered(f, "error")}
    /\ UNCHANGED <<spent, session, page, Screen, toast>>

Serve(f) ==
    \/ ServeRefused(f) \/ ServeList(f) \/ ServeCount(f) \/ ServeDelete(f) \/ ServePurge(f)
    \/ ServeFails(f)

\* What others do is followed as long as the page is there to see it.
Save(k) ==
    /\ page = "console" /\ k \notin spent
    /\ server' = server \cup {k} /\ spent' = spent \cup {k}
    /\ fetches' = Drifted(fetches, k)
    /\ UNCHANGED <<session, page, Screen, toast>>

\* Another administrator deletes it, or it expires, as a built-in document does
\* where pastes expire.
Vanish(k) ==
    /\ page = "console" /\ k \in server
    /\ server' = server \ {k}
    /\ fetches' = Drifted(fetches, k)
    /\ UNCHANGED <<spent, session, page, Screen, toast>>

SessionEnds ==
    /\ page = "console" /\ session
    /\ session' = FALSE
    /\ UNCHANGED <<server, spent, page, Screen, toast, fetches>>

----------------------------------------------------------------------------
(***************************************************************************)
(* Answers, in any order.                                                  *)
(***************************************************************************)
Arrives(f, kind, st) == page = "console" /\ f \in fetches /\ f.kind = kind /\ f.st = st

\* load()
Loaded(f) ==
    /\ Arrives(f, "load", "ok")
    /\ Render(f.snap, filter)
    /\ count' = f.cnt
    /\ stale' = FALSE /\ drift' = f.drift
    /\ fetches' = fetches \ {f}
    /\ UNCHANGED <<World, page, toast, done>>

\* Wrong variant: only the count is taken.
StatsLoadedCount(f) ==
    /\ Arrives(f, "stats", "ok")
    /\ count' = f.cnt
    /\ stale' = FALSE /\ drift' = f.drift
    /\ fetches' = fetches \ {f}
    /\ UNCHANGED <<World, page, pastes, filter, rows, asking, toast, done>>

\* loadStats()
StatsLoaded(f) ==
    /\ Arrives(f, "stats", "ok")
    /\ pastes' = f.snap
    /\ count' = f.cnt
    /\ stale' = FALSE /\ drift' = f.drift
    /\ fetches' = fetches \ {f}
    /\ UNCHANGED <<World, page, filter, rows, asking, toast, done>>

\* No list under way was read before the delete.
BroughtBack(fs, k) == \E f \in fs : k \in f.snap

\* Wrong variant: the row waits for the next list.
DeleteDoneLater(f) ==
    /\ Arrives(f, "delete", "ok")
    /\ Render(pastes, filter)
    /\ Api("stats", Null, fetches \ {f})
    /\ done' = IF BroughtBack(fetches, f.key) THEN done ELSE done \cup {f.key}
    /\ toast' = "none"
    /\ UNCHANGED <<World, page, count, stale, drift>>

\* The row goes at once, the counts when loadStats has its answer.
DeleteDone(f) ==
    /\ Arrives(f, "delete", "ok")
    /\ Render(pastes \ {f.key}, filter)
    /\ Api("stats", Null, fetches \ {f})
    /\ done' = IF BroughtBack(fetches, f.key) THEN done ELSE done \cup {f.key}
    /\ toast' = "none"
    /\ UNCHANGED <<World, page, count, stale, drift>>

PurgeDone(f) ==
    /\ Arrives(f, "purge", "ok")
    /\ Api("load", Null, fetches \ {f})
    /\ toast' = "none"
    /\ UNCHANGED <<World, page, Screen>>

\* Wrong variant: a delete that failed says nothing.
FetchFailedSilently(f) ==
    /\ page = "console" /\ f \in fetches /\ f.st = "error"
    /\ stale' = (stale \/ f.kind = "stats")
    /\ fetches' = fetches \ {f}
    /\ UNCHANGED <<World, page, pastes, filter, rows, asking, count, toast, done, drift>>

\* Everything but loadStats says so.
FetchFailed(f) ==
    /\ page = "console" /\ f \in fetches /\ f.st = "error"
    /\ toast' = IF f.kind = "stats" THEN toast ELSE "error"
    /\ stale' = (stale \/ f.kind = "stats")
    /\ fetches' = fetches \ {f}
    /\ UNCHANGED <<World, page, pastes, filter, rows, asking, count, done, drift>>

\* location.href = "/admin/login"
Bounced(f) ==
    /\ page = "console" /\ f \in fetches /\ f.st = "401"
    /\ page' = "login"
    /\ fetches' = {}
    /\ UNCHANGED <<World, Screen, toast>>

Answer(f) ==
    \/ Loaded(f) \/ StatsLoaded(f) \/ DeleteDone(f) \/ PurgeDone(f)
    \/ FetchFailed(f) \/ Bounced(f)

Next ==
    \/ \E k \in Keys : ClickDelete(k) \/ ClickConfirm(k) \/ Save(k) \/ Vanish(k)
    \/ \E q \in Filters : TypeFilter(q)
    \/ ClickLoad \/ ClickPurge \/ SessionEnds
    \/ \E f \in fetches : Serve(f) \/ Answer(f)

\* Requests are answered, and answers reach the page.
Fairness ==
    \A n \in 1..MaxFlight :
        /\ WF_vars(\E f \in fetches : f.n = n /\ Serve(f))
        /\ WF_vars(\E f \in fetches : f.n = n /\ Answer(f))

Spec == Init /\ [][Next]_vars /\ Fairness

----------------------------------------------------------------------------
TypeOK ==
    /\ server \subseteq spent /\ spent \subseteq Keys
    /\ session \in BOOLEAN /\ page \in {"console", "login"}
    /\ pastes \in SUBSET Keys /\ filter \in Filters
    /\ rows \subseteq filter /\ asking \subseteq rows \ Builtin
    /\ count \in 0..Cardinality(Keys) \cup {Null}
    /\ toast \in {"none", "error"} /\ stale \in BOOLEAN
    /\ done \in SUBSET Keys /\ drift \in SUBSET Keys
    /\ fetches \in SUBSET Fetch /\ Cardinality(fetches) <= MaxFlight

\* The count n is that of the list but for the keys of d, or the list is full.
CountFits(list, n, d) ==
    /\ Cardinality(list) <= n + Cardinality(d)
    /\ n <= Cardinality(list) + Cardinality(d) \/ Cardinality(list) = ListLimit

(* As soon as every refresh that a delete set off has come back, in whatever   *)
(* order deletes, lists and refreshes were answered, the count on the screen   *)
(* is again that of the page's list, because loadStats takes the list together *)
(* with the counts.  They differ by no more than the pastes that came or went  *)
(* between the server's two reads or that one of these missed (drift); the     *)
(* count is larger without bound only if the list is full; and a refresh that  *)
(* failed, silently, leaves them apart until the next list (stale).            *)
CountFitsList ==
    /\ page = "console" /\ count # Null /\ ~ stale
    /\ ~ \E f \in fetches : f.kind = "stats"
    => CountFits(pastes, count, drift)

(* A row whose delete was answered does not come back, neither in the table    *)
(* nor when the filter shows the list anew, unless a list that was read before *)
(* the delete is still under way when the delete's answer comes: only such a   *)
(* list can, whatever other loads and refreshes are under way.                 *)
DeletedStaysAway == (rows \cup pastes) \cap done = {}

(* Every confirmed delete is settled before the administrator: its request     *)
(* ends, and the very step that ends it takes the row away, tells him that it  *)
(* failed, or sends him to log in.                                             *)
DeleteIsSettled ==
    /\ \A n \in 1..MaxFlight :
          LET Deleting == \E f \in fetches : f.n = n /\ f.kind = "delete"
          IN (page = "console" /\ Deleting) ~> ~ Deleting
    /\ [][\A f \in fetches : f.kind = "delete" /\ f.st \in {"ok", "401", "error"} /\ f \notin fetches'
             => f.key \notin rows' \/ toast' = "error" \/ page' = "login"]_vars

=============================================================================
