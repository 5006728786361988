-------------------------- MODULE AdminConsoleProofs --------------------------
(***************************************************************************)
(* Proofs about AdminConsole, for any finite set of keys, any built-in     *)
(* documents, any filters, any limit of a list, any keys that an answer    *)
(* may miss and any number of requests under way.                          *)
(***************************************************************************)
EXTENDS AdminConsole, FiniteSetTheorems, TLAPS

-----------------------------------------------------------------------------
(***************************************************************************)
(* The inductive invariant.                                                *)
(***************************************************************************)
\* A list is what there is but for the keys of d, or it is full.
Near(list, there, d) ==
    /\ list \subseteq there \cup d
    /\ there \subseteq list \cup d \/ Cardinality(list) = ListLimit

\* A request under way brings nothing back that was deleted for good: a delete
\* that was answered has removed its key from a server that does not give it out
\* again.  A list still to be counted is near what there is now, and once it is
\* counted its count fits.
FetchFits(f) ==
    /\ f.snap \cap done = {}
    /\ f.kind = "delete" /\ f.st = "ok" => f.key \in spent \ server
    /\ f.st = "listed" => f.kind \in {"load", "stats"} /\ Near(f.snap, server, f.drift)
    /\ f.kind \in {"load", "stats"} /\ f.st = "ok" => CountFits(f.snap, f.cnt, f.drift)

ConsoleInv ==
    /\ TypeOK /\ IsFiniteSet(fetches)
    /\ done \subseteq spent \ server
    /\ \A f \in fetches : FetchFits(f)
    /\ CountFitsList
    /\ DeletedStaysAway

-----------------------------------------------------------------------------
(***************************************************************************)
(* Requests and their numbers.                                             *)
(***************************************************************************)
\* A new request is one of the model's.
LEMMA RequestTyped ==
    ASSUME NEW n \in 1..MaxFlight, NEW kind \in {"load", "stats", "delete", "purge"},
           NEW k \in Keys \cup {Null}
    PROVE  /\ Request(n, kind, k) \in Fetch
           /\ LET f == Request(n, kind, k)
              IN f.kind = kind /\ f.key = k /\ f.st = "sent" /\ f.snap = {}
<1>1. 0 \in 0..Cardinality(Keys)
  BY FiniteAssumption, FS_CardinalityType
<1> QED BY <1>1 DEF Request, Fetch

\* Fewer requests than numbers leave a number free.
LEMMA FreeNumber ==
    ASSUME NEW F, IsFiniteSet(F), Cardinality(F) < MaxFlight
    PROVE  \E n \in 1..MaxFlight : \A f \in F : f.n # n
<1> SUFFICES ASSUME \A n \in 1..MaxFlight : \E f \in F : f.n = n
             PROVE  FALSE
  OBVIOUS
<1> DEFINE N == 1..MaxFlight
           g == [n \in N |-> CHOOSE f \in F : f.n = n]
<1>1. MaxFlight \in Nat /\ IsFiniteSet(N) /\ Cardinality(N) = MaxFlight
  BY FlightAssumption, FS_Interval
<1>2. \A n \in N : g[n] \in F /\ g[n].n = n
  OBVIOUS
<1>3. g \in [N -> F]
  BY <1>2
<1> HIDE DEF N, g
<1>4. \E m, n \in N : m # n /\ g[m] = g[n]
  BY <1>1, <1>3, FS_PigeonHole
<1> QED BY <1>2, <1>4

LEMMA OneMore ==
    ASSUME NEW S, NEW x, IsFiniteSet(S)
    PROVE  IsFiniteSet(S \cup {x}) /\ Cardinality(S \cup {x}) <= Cardinality(S) + 1
<1>1. Cardinality(S) \in Nat
  BY FS_CardinalityType
<1> QED BY <1>1, FS_AddElement

Sends(kind, k, others) ==
    \E f : /\ fetches' = others \cup {f}
           /\ f.kind = kind /\ f.key = k /\ f.st = "sent" /\ f.snap = {}

\* api(): the new request is one of the model's, and there is room for it.
LEMMA ApiAdds ==
    ASSUME NEW kind \in {"load", "stats", "delete", "purge"}, NEW k \in Keys \cup {Null},
           NEW others \in SUBSET Fetch, IsFiniteSet(others), Api(kind, k, others)
    PROVE  /\ fetches' \in SUBSET Fetch /\ IsFiniteSet(fetches')
           /\ Cardinality(fetches') <= MaxFlight
           /\ Sends(kind, k, others)
<1> DEFINE n == CHOOSE n \in 1..MaxFlight : \A f \in others : f.n # n
           f == Request(n, kind, k)
<1>1. Cardinality(others) < MaxFlight /\ fetches' = others \cup {f}
  BY DEF Api
<1>2. n \in 1..MaxFlight
  BY <1>1, FreeNumber
<1> HIDE DEF n
<1>3. f \in Fetch
  BY <1>2, RequestTyped
<1>4. f.kind = kind /\ f.key = k /\ f.st = "sent" /\ f.snap = {}
  BY <1>2, RequestTyped
<1> HIDE DEF f
<1>5. IsFiniteSet(fetches') /\ Cardinality(fetches') <= Cardinality(others) + 1
  BY Zenon, <1>1, OneMore
<1>6. Cardinality(fetches') <= MaxFlight
  <2>1. Cardinality(others) \in Nat /\ MaxFlight \in Nat /\ Cardinality(fetches') \in Nat
    BY <1>5, FS_CardinalityType, FlightAssumption
  <2> QED BY <1>1, <1>5, <2>1
<1>7. Sends(kind, k, others)
  BY <1>1, <1>4 DEF Sends
<1> QED BY <1>1, <1>3, <1>5, <1>6, <1>7

\* One request less.
LEMMA RequestLeaves ==
    ASSUME NEW F \in SUBSET Fetch, IsFiniteSet(F), NEW f \in F, Cardinality(F) <= MaxFlight
    PROVE  /\ F \ {f} \in SUBSET Fetch /\ IsFiniteSet(F \ {f})
           /\ Cardinality(F \ {f}) \in Nat /\ Cardinality(F \ {f}) + 1 <= MaxFlight
<1>1. Cardinality(F) \in Nat /\ IsFiniteSet(F \ {f}) /\ Cardinality(F \ {f}) = Cardinality(F) - 1
  BY FS_CardinalityType, FS_RemoveElement
<1>2. Cardinality(F \ {f}) \in Nat
  BY <1>1, FS_CardinalityType
<1> QED BY <1>1, <1>2, FlightAssumption

\* Another record takes the place of one of them, or of one of those that the
\* rest has become.
LEMMA OneReplaced ==
    ASSUME NEW F \in SUBSET Fetch, IsFiniteSet(F), NEW f \in F, Cardinality(F) <= MaxFlight,
           NEW G \in SUBSET Fetch, IsFiniteSet(G), Cardinality(G) <= Cardinality(F \ {f}),
           NEW g \in Fetch
    PROVE  /\ G \cup {g} \in SUBSET Fetch /\ IsFiniteSet(G \cup {g})
           /\ Cardinality(G \cup {g}) <= MaxFlight
<1>1. IsFiniteSet(F \ {f}) /\ Cardinality(F \ {f}) \in Nat /\ Cardinality(F \ {f}) + 1 <= MaxFlight
  BY RequestLeaves
<1>2. IsFiniteSet(G \cup {g}) /\ Cardinality(G \cup {g}) <= Cardinality(G) + 1
  BY Zenon, OneMore
<1>3. Cardinality(G) \in Nat /\ Cardinality(G \cup {g}) \in Nat /\ MaxFlight \in Nat
  BY <1>2, FS_CardinalityType, FlightAssumption
<1> QED BY <1>1, <1>2, <1>3

\* What a request becomes when a key comes or goes.
DriftOf(f, k) == IF f.st = "listed" THEN [f EXCEPT !.drift = @ \cup {k}] ELSE f

LEMMA DriftedTyped ==
    ASSUME NEW F \in SUBSET Fetch, IsFiniteSet(F), NEW k \in Keys
    PROVE  /\ Drifted(F, k) \in SUBSET Fetch /\ IsFiniteSet(Drifted(F, k))
           /\ Cardinality(Drifted(F, k)) <= Cardinality(F)
<1> DEFINE G == Drifted(F, k)
           h == [f \in F |-> DriftOf(f, k)]
<1>1. G = {DriftOf(f, k) : f \in F}
  BY DEF Drifted, DriftOf
<1>2. \A f \in Fetch : DriftOf(f, k) \in Fetch
  BY DEF DriftOf, Fetch
<1>3. G \in SUBSET Fetch
  BY <1>1, <1>2
<1>4. h \in Surjection(F, G)
  BY <1>1 DEF Surjection
<1> HIDE DEF G, h
<1>5. IsFiniteSet(G) /\ Cardinality(G) <= Cardinality(F)
  BY <1>4, FS_Surjection
<1> QED BY <1>3, <1>5 DEF G

\* A set of listed keys is finite, and no larger than a count can be.
LEMMA CountTyped ==
    ASSUME NEW S \in SUBSET Keys
    PROVE  IsFiniteSet(S) /\ Cardinality(S) \in Nat /\ Cardinality(S) \in 0..Cardinality(Keys)
<1>1. IsFiniteSet(S) /\ Cardinality(S) <= Cardinality(Keys)
  BY FiniteAssumption, FS_Subset
<1>2. Cardinality(S) \in Nat /\ Cardinality(Keys) \in Nat
  BY <1>1, FiniteAssumption, FS_CardinalityType
<1> QED BY <1>1, <1>2

\* Of two sets, one of which holds the other but for a third.
LEMMA CardinalityWithin ==
    ASSUME NEW S \in SUBSET Keys, NEW T \in SUBSET Keys, NEW D \in SUBSET Keys, S \subseteq T \cup D
    PROVE  Cardinality(S) <= Cardinality(T) + Cardinality(D)
<1>1. /\ IsFiniteSet(T) /\ IsFiniteSet(D) /\ IsFiniteSet(T \cup D)
      /\ Cardinality(S) \in Nat /\ Cardinality(T) \in Nat /\ Cardinality(D) \in Nat
      /\ Cardinality(T \cup D) \in Nat /\ Cardinality(T \cap D) \in Nat
  BY CountTyped
<1>2. Cardinality(T \cup D) = Cardinality(T) + Cardinality(D) - Cardinality(T \cap D)
  BY <1>1, FS_Union
<1>3. Cardinality(S) <= Cardinality(T \cup D)
  BY <1>1, FS_Subset
<1> QED BY <1>1, <1>2, <1>3

\* Stats counts what is near the list: the count fits.
LEMMA NearFits ==
    ASSUME NEW list \in SUBSET Keys, NEW there \in SUBSET Keys, NEW d \in SUBSET Keys,
           NEW missed \in SUBSET there, Near(list, there, d)
    PROVE  CountFits(list, Cardinality(there \ missed), d \cup missed)
<1> DEFINE seen == there \ missed
           e == d \cup missed
<1>1. seen \in SUBSET Keys /\ e \in SUBSET Keys /\ list \subseteq seen \cup e
  BY DEF Near
<1>2. seen \subseteq list \cup e \/ Cardinality(list) = ListLimit
  BY DEF Near
<1> HIDE DEF seen, e
<1>3. Cardinality(list) <= Cardinality(seen) + Cardinality(e)
  BY <1>1, CardinalityWithin
<1>4. Cardinality(seen) <= Cardinality(list) + Cardinality(e) \/ Cardinality(list) = ListLimit
  BY <1>1, <1>2, CardinalityWithin
<1> QED BY <1>3, <1>4 DEF CountFits, seen, e

-----------------------------------------------------------------------------
(***************************************************************************)
(* One lemma for each kind of step.                                        *)
(***************************************************************************)
USE KeysAssumption DEF KeysAssumption

LEMMA ConsoleInit == Init => ConsoleInv
<1> SUFFICES ASSUME Init PROVE ConsoleInv
  OBVIOUS
<1> DEFINE f == Request(1, "load", Null)
<1>1. MaxFlight \in Nat /\ 1 <= MaxFlight
  BY FlightAssumption
<1>2. fetches = {f}
  BY DEF Init
<1>3. f \in Fetch /\ f.kind = "load" /\ f.st = "sent" /\ f.snap = {}
  BY <1>1, RequestTyped
<1> HIDE DEF f
<1>4. IsFiniteSet(fetches) /\ Cardinality(fetches) = 1
  BY <1>2, FS_Singleton
<1>5. TypeOK
  BY <1>1, <1>2, <1>3, <1>4 DEF Init, TypeOK
<1>6. \A g \in fetches : FetchFits(g)
  BY <1>2, <1>3 DEF FetchFits
<1> QED BY <1>4, <1>5, <1>6 DEF Init, ConsoleInv, CountFitsList, DeletedStaysAway

\* Clicks that only change the screen.
LEMMA ScreenStep ==
    ASSUME ConsoleInv, \/ \E k \in Keys : ClickDelete(k)
                       \/ \E q \in Filters : TypeFilter(q)
    PROVE  ConsoleInv'
<1>1. UNCHANGED <<server, spent, session, page, pastes, count, toast, fetches, stale, done, drift>>
  BY DEF ClickDelete, TypeFilter, Render, World, History
<1>2. /\ filter' \in Filters /\ rows' \subseteq filter' /\ asking' \subseteq rows' \ Builtin
      /\ rows' \subseteq rows \cup pastes
  BY DEF ConsoleInv, TypeOK, ClickDelete, TypeFilter, Render, Deletable
<1>3. TypeOK' /\ IsFiniteSet(fetches')
  BY <1>1, <1>2 DEF ConsoleInv, TypeOK
<1>4. CountFitsList' /\ DeletedStaysAway'
  BY <1>1, <1>2 DEF ConsoleInv, CountFitsList, DeletedStaysAway
<1>5. \A f \in fetches' : FetchFits(f)'
  BY <1>1 DEF ConsoleInv, FetchFits
<1> QED BY <1>1, <1>3, <1>4, <1>5 DEF ConsoleInv

\* Clicks that send a request.
LEMMA RequestStep ==
    ASSUME ConsoleInv, (\E k \in Keys : ClickConfirm(k)) \/ ClickLoad \/ ClickPurge
    PROVE  ConsoleInv'
<1>1. PICK kind \in {"load", "stats", "delete", "purge"}, k \in Keys \cup {Null} :
         Api(kind, k, fetches)
  BY DEF ClickConfirm, ClickLoad, ClickPurge
<1>2. UNCHANGED <<World, page, Screen, toast>>
  BY DEF ClickConfirm, ClickLoad, ClickPurge
<1>3. UNCHANGED <<server, spent, session, page, pastes, filter, rows, asking, count, toast,
                  stale, done, drift>>
  BY <1>2 DEF World, Screen, History
<1>4. fetches \in SUBSET Fetch /\ IsFiniteSet(fetches)
  BY DEF ConsoleInv, TypeOK
<1>5. /\ fetches' \in SUBSET Fetch /\ IsFiniteSet(fetches') /\ Cardinality(fetches') <= MaxFlight
      /\ Sends(kind, k, fetches)
  BY <1>1, <1>4, ApiAdds
<1>6. PICK f : fetches' = fetches \cup {f} /\ f.kind = kind /\ f.st = "sent" /\ f.snap = {}
  BY <1>5 DEF Sends
<1>7. TypeOK'
  BY <1>3, <1>5 DEF ConsoleInv, TypeOK
<1>8. \A g \in fetches' : FetchFits(g)'
  BY <1>3, <1>6 DEF ConsoleInv, FetchFits
<1>9. CountFitsList' /\ DeletedStaysAway'
  BY <1>3, <1>6 DEF ConsoleInv, CountFitsList, DeletedStaysAway
<1> QED BY <1>3, <1>5, <1>7, <1>8, <1>9 DEF ConsoleInv

\* Requests are what they were when a key came or went, if a list still to be
\* counted takes note of it.
LEMMA DriftedFits ==
    ASSUME ConsoleInv, NEW F \in SUBSET fetches, NEW k \in Keys,
           UNCHANGED done, spent \subseteq spent',
           server' \in {server \cup {k}, server \ {k}}, k \in server' => k \notin spent
    PROVE  \A g \in Drifted(F, k) : FetchFits(g)'
<1> SUFFICES ASSUME NEW f \in F PROVE FetchFits(DriftOf(f, k))'
  BY DEF Drifted, DriftOf
<1>1. f \in Fetch /\ FetchFits(f)
  BY DEF ConsoleInv, TypeOK
<1> DEFINE g == DriftOf(f, k)
<1>2. /\ g.kind = f.kind /\ g.key = f.key /\ g.st = f.st /\ g.snap = f.snap /\ g.cnt = f.cnt
      /\ g.drift = IF f.st = "listed" THEN f.drift \cup {k} ELSE f.drift
  BY <1>1 DEF DriftOf, Fetch
<1> HIDE DEF g
<1>3. f.kind = "delete" /\ f.st = "ok" => f.key \in spent' \ server'
  BY <1>1 DEF FetchFits
<1>4. f.st = "listed" => Near(f.snap, server', f.drift \cup {k})
  BY <1>1 DEF FetchFits, Near
<1> QED BY <1>1, <1>2, <1>3, <1>4 DEF FetchFits, g

\* The world without a request.
LEMMA WorldStep ==
    ASSUME ConsoleInv, (\E k \in Keys : Save(k) \/ Vanish(k)) \/ SessionEnds
    PROVE  ConsoleInv'
<1>1. UNCHANGED <<page, pastes, filter, rows, asking, count, toast, stale, done, drift>>
  BY DEF Save, Vanish, SessionEnds, Screen, History
<1>2. /\ server' \subseteq spent' /\ spent' \subseteq Keys /\ session' \in BOOLEAN
      /\ spent \ server \subseteq spent' \ server'
  BY DEF ConsoleInv, TypeOK, Save, Vanish, SessionEnds
<1>3. fetches \in SUBSET Fetch /\ IsFiniteSet(fetches) /\ Cardinality(fetches) <= MaxFlight
  BY DEF ConsoleInv, TypeOK
<1>4. /\ fetches' \in SUBSET Fetch /\ IsFiniteSet(fetches') /\ Cardinality(fetches') <= MaxFlight
      /\ \A f \in fetches' : FetchFits(f)'
      /\ (\E f \in fetches' : f.kind = "stats") \/ ~ \E f \in fetches : f.kind = "stats"
  <2>1. CASE SessionEnds
    <3>1. UNCHANGED <<fetches, server, spent>>
      BY <2>1 DEF SessionEnds
    <3> QED BY <1>1, <1>3, <3>1 DEF ConsoleInv, FetchFits
  <2>2. ASSUME NEW k \in Keys, Save(k) \/ Vanish(k)
        PROVE  /\ fetches' \in SUBSET Fetch /\ IsFiniteSet(fetches')
               /\ Cardinality(fetches') <= MaxFlight
               /\ \A f \in fetches' : FetchFits(f)'
               /\ (\E f \in fetches' : f.kind = "stats") \/ ~ \E f \in fetches : f.kind = "stats"
    <3>1. /\ fetches' = Drifted(fetches, k) /\ server' \in {server \cup {k}, server \ {k}}
          /\ spent \subseteq spent' /\ (k \in server' => k \notin spent)
      BY <2>2 DEF Save, Vanish
    <3>2. /\ fetches' \in SUBSET Fetch /\ IsFiniteSet(fetches')
          /\ Cardinality(fetches') <= Cardinality(fetches)
      BY <1>3, <3>1, DriftedTyped
    <3>3. Cardinality(fetches') <= MaxFlight
      <4>1. Cardinality(fetches) \in Nat /\ Cardinality(fetches') \in Nat /\ MaxFlight \in Nat
        BY <1>3, <3>2, FS_CardinalityType, FlightAssumption
      <4> QED BY <1>3, <3>2, <4>1
    <3>4. \A f \in fetches' : FetchFits(f)'
      <4>1. \A g \in Drifted(fetches, k) : FetchFits(g)'
        BY <1>1, <3>1, DriftedFits
      <4> QED BY <3>1, <4>1
    <3>5. (\E f \in fetches' : f.kind = "stats") \/ ~ \E f \in fetches : f.kind = "stats"
      <4>1. \A f \in fetches : DriftOf(f, k) \in fetches' /\ DriftOf(f, k).kind = f.kind
        BY <1>3, <3>1 DEF Drifted, DriftOf, Fetch
      <4> QED BY <4>1
    <3> QED BY <3>2, <3>3, <3>4, <3>5
  <2> QED BY <2>1, <2>2
<1>5. TypeOK'
  BY <1>1, <1>2, <1>4 DEF ConsoleInv, TypeOK
<1>6. CountFitsList' /\ DeletedStaysAway'
  BY <1>1, <1>4 DEF ConsoleInv, CountFitsList, DeletedStaysAway
<1> QED BY <1>1, <1>2, <1>4, <1>5, <1>6 DEF ConsoleInv

\* The server answers, or fails to, in a step that leaves the pastes alone.
LEMMA ReadStep ==
    ASSUME ConsoleInv, NEW f \in fetches, NEW g \in Fetch,
           fetches' = (fetches \ {f}) \cup {g}, UNCHANGED <<World, page, Screen, toast>>,
           g.kind = f.kind, FetchFits(g)
    PROVE  ConsoleInv'
<1>1. UNCHANGED <<server, spent, session, page, pastes, filter, rows, asking, count, toast,
                  stale, done, drift>>
  BY DEF World, Screen, History
<1>2. fetches \in SUBSET Fetch /\ IsFiniteSet(fetches) /\ Cardinality(fetches) <= MaxFlight
  BY DEF ConsoleInv, TypeOK
<1>3. fetches \ {f} \in SUBSET Fetch /\ IsFiniteSet(fetches \ {f}) /\ Cardinality(fetches \ {f}) \in Nat
  BY <1>2, RequestLeaves
<1>4. fetches' \in SUBSET Fetch /\ IsFiniteSet(fetches') /\ Cardinality(fetches') <= MaxFlight
  BY <1>2, <1>3, OneReplaced
<1>5. TypeOK'
  BY <1>1, <1>4 DEF ConsoleInv, TypeOK
<1>6. \A h \in fetches' : FetchFits(h)'
  BY <1>1 DEF ConsoleInv, FetchFits
<1>7. CountFitsList' /\ DeletedStaysAway'
  BY <1>1 DEF ConsoleInv, CountFitsList, DeletedStaysAway
<1> QED BY <1>1, <1>4, <1>5, <1>6, <1>7 DEF ConsoleInv

\* The server removes a paste, answering or not.
LEMMA RemovalStep ==
    ASSUME ConsoleInv, NEW f \in fetches, NEW st \in {"ok", "error"},
           f.kind = "delete", f.key \in server \ Builtin, server' = server \ {f.key},
           fetches' = Drifted(fetches \ {f}, f.key) \cup {Answered(f, st)},
           UNCHANGED <<spent, session, page, Screen, toast>>
    PROVE  ConsoleInv'
<1> DEFINE k == f.key
           g == Answered(f, st)
           others == Drifted(fetches \ {f}, k)
<1>1. UNCHANGED <<spent, session, page, pastes, filter, rows, asking, count, toast,
                  stale, done, drift>>
  BY DEF Screen, History
<1>2. /\ fetches \in SUBSET Fetch /\ IsFiniteSet(fetches) /\ Cardinality(fetches) <= MaxFlight
      /\ server \subseteq spent /\ spent \subseteq Keys /\ f \in Fetch
  BY DEF ConsoleInv, TypeOK
<1>3. k \in Keys /\ k \in spent /\ k \notin server'
  BY <1>2
<1>4. g \in Fetch /\ g.kind = "delete" /\ g.key = k /\ g.st = st /\ g.snap = {}
  <2>1. f.n \in 1..MaxFlight /\ f.key \in Keys \cup {Null}
    BY <1>2 DEF Fetch
  <2>2. /\ Request(f.n, f.kind, f.key) \in Fetch
        /\ LET q == Request(f.n, f.kind, f.key)
           IN q.kind = f.kind /\ q.key = f.key /\ q.st = "sent" /\ q.snap = {}
    BY <2>1, RequestTyped
  <2> QED BY <2>2 DEF Answered, Fetch
<1>5. fetches \ {f} \in SUBSET Fetch /\ IsFiniteSet(fetches \ {f}) /\ Cardinality(fetches \ {f}) \in Nat
  BY <1>2, RequestLeaves
<1>6. others \in SUBSET Fetch /\ IsFiniteSet(others) /\ Cardinality(others) <= Cardinality(fetches \ {f})
  BY <1>3, <1>5, DriftedTyped
<1>7. \A h \in others : FetchFits(h)'
  BY <1>1, <1>3, DriftedFits
<1>8. \A h \in others : \E e \in fetches : h.kind = e.kind
  BY <1>2 DEF Drifted, Fetch
<1>9. \A e \in fetches : e.kind = "stats" => \E h \in others : h.kind = "stats"
  <2>1. \A e \in fetches \ {f} : DriftOf(e, k) \in others /\ DriftOf(e, k).kind = e.kind
    BY <1>2 DEF Drifted, DriftOf, Fetch
  <2> QED BY <2>1
<1>10. fetches' = others \cup {g}
  OBVIOUS
<1> HIDE DEF k, g, others
<1>11. fetches' \in SUBSET Fetch /\ IsFiniteSet(fetches') /\ Cardinality(fetches') <= MaxFlight
  <2>1. /\ others \cup {g} \in SUBSET Fetch /\ IsFiniteSet(others \cup {g})
        /\ Cardinality(others \cup {g}) <= MaxFlight
    BY <1>2, <1>4, <1>6, OneReplaced
  <2> QED BY <1>10, <2>1
<1>12. TypeOK'
  BY <1>1, <1>2, <1>11 DEF ConsoleInv, TypeOK
<1>13. FetchFits(g)'
  BY <1>1, <1>3, <1>4 DEF FetchFits
<1>14. CountFitsList' /\ DeletedStaysAway'
  BY <1>1, <1>9, <1>10 DEF ConsoleInv, CountFitsList, DeletedStaysAway
<1> QED BY <1>1, <1>7, <1>10, <1>11, <1>12, <1>13, <1>14 DEF ConsoleInv

\* The server's steps: a list is what it has at that moment, but for what it
\* misses or cuts, and its count is read later.
LEMMA ServeStep ==
    ASSUME ConsoleInv, NEW f \in fetches, Serve(f)
    PROVE  ConsoleInv'
<1>1. /\ f \in Fetch /\ FetchFits(f) /\ server \in SUBSET Keys /\ done \cap server = {}
  BY DEF ConsoleInv, TypeOK
<1>2. /\ f.n \in 1..MaxFlight /\ f.key \in Keys \cup {Null} /\ f.snap \in SUBSET Keys
      /\ f.drift \in SUBSET Keys /\ f.kind \in {"load", "stats", "delete", "purge"}
  BY <1>1 DEF Fetch
<1>3. ASSUME NEW st \in {"ok", "401", "error"}, Settle(f, st),
             UNCHANGED <<World, page, Screen, toast>>, f.kind \in {"delete", "purge"} \/ st # "ok",
             f.kind # "delete" \/ st # "ok"
      PROVE  ConsoleInv'
  <2> DEFINE g == Answered(f, st)
  <2>1. g \in Fetch /\ g.kind = f.kind /\ g.st = st /\ g.snap = {}
    <3>1. /\ Request(f.n, f.kind, f.key) \in Fetch
          /\ LET q == Request(f.n, f.kind, f.key)
             IN q.kind = f.kind /\ q.key = f.key /\ q.st = "sent" /\ q.snap = {}
      BY <1>2, RequestTyped
    <3> QED BY <3>1 DEF Answered, Fetch
  <2>2. fetches' = (fetches \ {f}) \cup {g}
    BY <1>3 DEF Settle
  <2> HIDE DEF g
  <2>3. FetchFits(g)
    BY <1>3, <2>1 DEF FetchFits
  <2> QED BY <1>3, <2>1, <2>2, <2>3, ReadStep
<1>4. CASE ServeRefused(f)
  BY <1>3, <1>4 DEF ServeRefused
<1>5. CASE ServeList(f)
  <2>1. PICK missed \in SUBSET (server \cap Missable) : \E list \in NewestOf(server \ missed) :
           fetches' = (fetches \ {f}) \cup {[f EXCEPT !.st = "listed", !.snap = list,
                                                     !.drift = missed]}
    BY <1>5 DEF ServeList
  <2>0. PICK list \in NewestOf(server \ missed) :
           fetches' = (fetches \ {f}) \cup {[f EXCEPT !.st = "listed", !.snap = list,
                                                     !.drift = missed]}
    BY <2>1
  <2> DEFINE g == [f EXCEPT !.st = "listed", !.snap = list, !.drift = missed]
  <2>2. /\ list \subseteq server /\ list \in SUBSET Keys /\ missed \in SUBSET Keys
        /\ Near(list, server, missed)
    BY <1>1 DEF NewestOf, Near
  <2>3. /\ g \in Fetch /\ g.kind = f.kind /\ g.st = "listed" /\ g.snap = list /\ g.drift = missed
    BY <1>1, <2>2 DEF Fetch
  <2>4. fetches' = (fetches \ {f}) \cup {g} /\ f.kind \in {"load", "stats"}
    BY <1>5, <2>0 DEF ServeList
  <2> HIDE DEF g
  <2>5. FetchFits(g)
    BY <1>1, <2>2, <2>3, <2>4 DEF FetchFits
  <2>6. UNCHANGED <<World, page, Screen, toast>>
    BY <1>5 DEF ServeList
  <2> QED BY <2>3, <2>4, <2>5, <2>6, ReadStep
<1>6. CASE ServeCount(f)
  <2>1. PICK missed \in SUBSET (server \cap Missable) :
           fetches' = (fetches \ {f}) \cup {[f EXCEPT !.st = "ok", !.drift = f.drift \cup missed,
                                                     !.cnt = Cardinality(server \ missed)]}
    BY <1>6 DEF ServeCount
  <2> DEFINE n == Cardinality(server \ missed)
             g == [f EXCEPT !.st = "ok", !.drift = f.drift \cup missed, !.cnt = n]
  <2>2. f.kind \in {"load", "stats"} /\ Near(f.snap, server, f.drift)
    BY <1>1, <1>6 DEF ServeCount, FetchFits
  <2>3. CountFits(f.snap, n, f.drift \cup missed)
    BY <1>1, <1>2, <2>2, NearFits
  <2>4. n \in 0..Cardinality(Keys)
    BY <1>1, CountTyped
  <2>5. fetches' = (fetches \ {f}) \cup {g}
    BY <2>1
  <2> HIDE DEF n
  <2>6. /\ g \in Fetch /\ g.kind = f.kind /\ g.st = "ok" /\ g.snap = f.snap /\ g.cnt = n
        /\ g.drift = f.drift \cup missed
    BY <1>1, <2>4 DEF Fetch
  <2> HIDE DEF g
  <2>7. FetchFits(g)
    BY <1>1, <2>2, <2>3, <2>6 DEF FetchFits
  <2>8. UNCHANGED <<World, page, Screen, toast>>
    BY <1>6 DEF ServeCount
  <2> QED BY <2>5, <2>6, <2>7, <2>8, ReadStep
<1>7. CASE ServeDelete(f)
  <2>1. CASE f.key \in server \ Builtin
    BY <1>7, <2>1, RemovalStep DEF ServeDelete
  <2>2. CASE f.key \notin server \ Builtin
    BY <1>3, <1>7, <2>2 DEF ServeDelete, World
  <2> QED BY <2>1, <2>2
<1>8. CASE ServePurge(f)
  BY <1>3, <1>8 DEF ServePurge
<1>9. CASE ServeFails(f)
  <2>1. CASE Settle(f, "error") /\ UNCHANGED server
    BY <1>3, <1>9, <2>1 DEF ServeFails, World
  <2>2. CASE ~ (Settle(f, "error") /\ UNCHANGED server)
    BY <1>9, <2>2, RemovalStep DEF ServeFails
  <2> QED BY <2>1, <2>2
<1> QED BY <1>4, <1>5, <1>6, <1>7, <1>8, <1>9 DEF Serve

\* A list arrives: the array becomes a list no deleted key is in, and the count
\* that came with it fits.
LEMMA ListStep ==
    ASSUME ConsoleInv, NEW f \in fetches, Loaded(f) \/ StatsLoaded(f)
    PROVE  ConsoleInv'
<1>1. UNCHANGED <<server, spent, session, page, filter, toast, done>>
  BY DEF Loaded, StatsLoaded, Render, World
<1>2. /\ pastes' = f.snap /\ count' = f.cnt /\ drift' = f.drift /\ stale' = FALSE
      /\ fetches' = fetches \ {f} /\ f.kind \in {"load", "stats"} /\ f.st = "ok"
      /\ rows' \subseteq filter' /\ asking' \subseteq rows' \ Builtin /\ rows' \subseteq rows \cup f.snap
  BY DEF ConsoleInv, TypeOK, Loaded, StatsLoaded, Render, Arrives
<1>3. fetches \in SUBSET Fetch /\ IsFiniteSet(fetches) /\ Cardinality(fetches) <= MaxFlight
  BY DEF ConsoleInv, TypeOK
<1>4. MaxFlight \in Nat
  BY FlightAssumption
<1>5. /\ fetches' \in SUBSET Fetch /\ IsFiniteSet(fetches')
      /\ Cardinality(fetches') \in Nat /\ Cardinality(fetches') + 1 <= MaxFlight
  BY <1>2, <1>3, <1>4, RequestLeaves
<1>6. /\ f.snap \in SUBSET Keys /\ f.snap \cap done = {} /\ f.drift \in SUBSET Keys
      /\ f.cnt \in 0..Cardinality(Keys) /\ CountFits(f.snap, f.cnt, f.drift)
  BY <1>2, <1>3 DEF Fetch, ConsoleInv, FetchFits
<1>7. TypeOK'
  <2>1. Cardinality(fetches') <= MaxFlight
    BY <1>4, <1>5
  <2> QED BY <1>1, <1>2, <1>5, <1>6, <2>1 DEF ConsoleInv, TypeOK
<1>8. \A g \in fetches' : FetchFits(g)'
  BY <1>1, <1>2 DEF ConsoleInv, FetchFits
<1>9. CountFitsList'
  BY <1>2, <1>6 DEF CountFitsList, CountFits
<1>10. DeletedStaysAway'
  BY <1>1, <1>2, <1>6 DEF ConsoleInv, DeletedStaysAway
<1> QED BY <1>1, <1>5, <1>7, <1>8, <1>9, <1>10 DEF ConsoleInv

\* A delete was answered: its row goes, and if no list under way has it no list
\* will bring it back; the refresh it sets off is under way.
LEMMA DeleteStep ==
    ASSUME ConsoleInv, NEW f \in fetches, DeleteDone(f)
    PROVE  ConsoleInv'
<1>1. /\ UNCHANGED <<server, spent, session, page, count, stale, drift, filter>>
      /\ f.kind = "delete" /\ f.st = "ok" /\ toast' = "none"
      /\ pastes' = pastes \ {f.key} /\ rows' = pastes' \cap filter /\ asking' = {}
      /\ Api("stats", Null, fetches \ {f})
      /\ done' = IF BroughtBack(fetches, f.key) THEN done ELSE done \cup {f.key}
  BY DEF DeleteDone, Arrives, Render, World
<1>2. fetches \in SUBSET Fetch /\ IsFiniteSet(fetches) /\ Cardinality(fetches) <= MaxFlight
  BY DEF ConsoleInv, TypeOK
<1>3. fetches \ {f} \in SUBSET Fetch /\ IsFiniteSet(fetches \ {f})
  BY <1>2, FlightAssumption, RequestLeaves
<1> DEFINE others == fetches \ {f}
<1>4. others \in SUBSET Fetch /\ IsFiniteSet(others) /\ Api("stats", Null, others)
  BY <1>1, <1>3
<1> HIDE DEF others
<1>5. fetches' \in SUBSET Fetch /\ IsFiniteSet(fetches') /\ Cardinality(fetches') <= MaxFlight
  BY <1>4, ApiAdds
<1>6. PICK g : /\ fetches' = others \cup {g}
               /\ g.kind = "stats" /\ g.st = "sent" /\ g.snap = {}
  BY <1>4, ApiAdds DEF Sends
<1>7. f.key \in spent \ server /\ spent \subseteq Keys
  BY <1>1 DEF ConsoleInv, TypeOK, FetchFits
<1>8. done' \subseteq spent' \ server' /\ done' \subseteq Keys
  BY <1>1, <1>7 DEF ConsoleInv
<1>9. TypeOK'
  BY <1>1, <1>5, <1>8 DEF ConsoleInv, TypeOK
<1>10. \A h \in fetches' : FetchFits(h)'
  <2>1. FetchFits(g)'
    BY <1>6 DEF FetchFits
  <2>2. ASSUME NEW h \in fetches PROVE FetchFits(h)'
    <3>1. FetchFits(h)
      BY DEF ConsoleInv
    <3>2. h.snap \cap done' = {}
      BY <1>1, <3>1 DEF FetchFits, BroughtBack
    <3> QED BY <1>1, <3>1, <3>2 DEF FetchFits
  <2> QED BY <1>6, <2>1, <2>2 DEF others
<1>11. CountFitsList'
  BY <1>6 DEF CountFitsList
<1>12. DeletedStaysAway'
  BY <1>1 DEF ConsoleInv, DeletedStaysAway
<1> QED BY <1>5, <1>8, <1>9, <1>10, <1>11, <1>12 DEF ConsoleInv

\* A purge was answered: the list is loaded again.
LEMMA PurgeStep ==
    ASSUME ConsoleInv, NEW f \in fetches, PurgeDone(f)
    PROVE  ConsoleInv'
<1>1. /\ UNCHANGED <<server, spent, session, page, pastes, filter, rows, asking, count, stale, done, drift>>
      /\ f.kind = "purge" /\ toast' = "none" /\ Api("load", Null, fetches \ {f})
  BY DEF PurgeDone, Arrives, World, Screen, History
<1>2. fetches \in SUBSET Fetch /\ IsFiniteSet(fetches) /\ Cardinality(fetches) <= MaxFlight
  BY DEF ConsoleInv, TypeOK
<1> DEFINE others == fetches \ {f}
<1>3. others \in SUBSET Fetch /\ IsFiniteSet(others) /\ Api("load", Null, others)
  BY <1>1, <1>2, FlightAssumption, RequestLeaves
<1> HIDE DEF others
<1>4. fetches' \in SUBSET Fetch /\ IsFiniteSet(fetches') /\ Cardinality(fetches') <= MaxFlight
  BY <1>3, ApiAdds
<1>5. PICK g : /\ fetches' = others \cup {g}
               /\ g.kind = "load" /\ g.st = "sent" /\ g.snap = {}
  BY <1>3, ApiAdds DEF Sends
<1>6. TypeOK'
  BY <1>1, <1>4 DEF ConsoleInv, TypeOK
<1>7. \A h \in fetches' : FetchFits(h)'
  BY <1>1, <1>5 DEF ConsoleInv, FetchFits, others
<1>8. CountFitsList' /\ DeletedStaysAway'
  BY <1>1, <1>5 DEF ConsoleInv, CountFitsList, DeletedStaysAway, others
<1> QED BY <1>1, <1>4, <1>6, <1>7, <1>8 DEF ConsoleInv

\* An answer that brings nothing: an error, or a 401 that ends the page.
LEMMA RefusedStep ==
    ASSUME ConsoleInv, NEW f \in fetches, FetchFailed(f) \/ Bounced(f)
    PROVE  ConsoleInv'
<1>1. UNCHANGED <<server, spent, session, pastes, filter, rows, asking, count, done, drift>>
  BY DEF FetchFailed, Bounced, World, Screen, History
<1>2. /\ toast' \in {"none", "error"} /\ stale' \in BOOLEAN /\ page' \in {"console", "login"}
      /\ fetches' \in {fetches \ {f}, {}}
      /\ page' = "console" => fetches' = fetches \ {f} /\ page = "console"
                              /\ stale' = (stale \/ f.kind = "stats")
  BY DEF ConsoleInv, TypeOK, FetchFailed, Bounced, Screen, History
<1>3. fetches \in SUBSET Fetch /\ IsFiniteSet(fetches) /\ Cardinality(fetches) <= MaxFlight
  BY DEF ConsoleInv, TypeOK
<1>4. fetches' \in SUBSET Fetch /\ IsFiniteSet(fetches') /\ Cardinality(fetches') <= MaxFlight
  <2>1. MaxFlight \in Nat
    BY FlightAssumption
  <2>2. CASE fetches' = {}
    BY <2>1, <2>2, FS_EmptySet
  <2>3. CASE fetches' = fetches \ {f}
    <3>1. /\ fetches \ {f} \in SUBSET Fetch /\ IsFiniteSet(fetches \ {f})
          /\ Cardinality(fetches \ {f}) \in Nat /\ Cardinality(fetches \ {f}) + 1 <= MaxFlight
      BY <1>3, <2>1, RequestLeaves
    <3> QED BY <2>1, <2>3, <3>1
  <2> QED BY <1>2, <2>2, <2>3
<1>5. TypeOK'
  BY <1>1, <1>2, <1>4 DEF ConsoleInv, TypeOK
<1>6. \A h \in fetches' : FetchFits(h)'
  BY <1>1, <1>2 DEF ConsoleInv, FetchFits
<1>7. CountFitsList' /\ DeletedStaysAway'
  BY <1>1, <1>2 DEF ConsoleInv, CountFitsList, DeletedStaysAway
<1> QED BY <1>1, <1>4, <1>5, <1>6, <1>7 DEF ConsoleInv

LEMMA ConsoleNext == ConsoleInv /\ [Next]_vars => ConsoleInv'
<1> SUFFICES ASSUME ConsoleInv, [Next]_vars PROVE ConsoleInv'
  OBVIOUS
<1>1. CASE UNCHANGED vars
  <2>1. UNCHANGED <<server, spent, session, page, pastes, filter, rows, asking, count, toast,
                    fetches, stale, done, drift>>
    BY <1>1 DEF vars
  <2>2. TypeOK'
    BY <2>1 DEF ConsoleInv, TypeOK
  <2>3. \A f \in fetches' : FetchFits(f)'
    BY <2>1 DEF ConsoleInv, FetchFits
  <2>4. CountFitsList' /\ DeletedStaysAway'
    BY <2>1 DEF ConsoleInv, CountFitsList, DeletedStaysAway
  <2> QED BY <2>1, <2>2, <2>3, <2>4 DEF ConsoleInv
<1>2. ASSUME NEW f \in fetches, Answer(f) PROVE ConsoleInv'
  BY <1>2, ListStep, DeleteStep, PurgeStep, RefusedStep DEF Answer
<1> QED BY <1>1, <1>2, ScreenStep, RequestStep, WorldStep, ServeStep DEF Next

-----------------------------------------------------------------------------
(***************************************************************************)
(* The theorems.                                                           *)
(***************************************************************************)
\* The administrator's page, whatever is clicked, in whatever order the server
\* answers and whatever others do meanwhile, keeps ConsoleInv.
THEOREM ConsoleInvariant == Spec => []ConsoleInv
<1>1. Init => ConsoleInv
  BY ConsoleInit
<1>2. ConsoleInv /\ [Next]_vars => ConsoleInv'
  BY ConsoleNext
<1> QED BY <1>1, <1>2, PTL DEF Spec

\* The variables of app.js keep their types, and no more requests are under way
\* than the bound allows: there is always a number for the next.
THEOREM ConsoleTypeCorrect == Spec => []TypeOK
<1>1. ConsoleInv => TypeOK
  BY DEF ConsoleInv
<1> QED BY <1>1, ConsoleInvariant, PTL

\* loadStats takes the list together with the counts, so once every refresh that
\* a delete set off has come back the count is the list's, but for what came,
\* went or was missed between the server's two reads and what a full list cuts.
THEOREM ConsoleCountFitsList == Spec => []CountFitsList
<1>1. ConsoleInv => CountFitsList
  BY DEF ConsoleInv
<1> QED BY <1>1, ConsoleInvariant, PTL

\* A row whose delete was answered does not come back, in the table or in the
\* list the filter shows anew (render), unless a list read before the delete was
\* under way when the answer came.
THEOREM ConsoleDeletedStaysAway == Spec => []DeletedStaysAway
<1>1. ConsoleInv => DeletedStaysAway
  BY DEF ConsoleInv
<1> QED BY <1>1, ConsoleInvariant, PTL

=============================================================================
