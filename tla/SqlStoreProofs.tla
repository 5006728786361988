--------------------------- MODULE SqlStoreProofs ---------------------------
(***************************************************************************)
(* Proofs about SqlStore, for every set of goroutines, keys, bodies and    *)
(* configured expiries, and without the bounds TLC needs being small: its  *)
(* invariants, and that it implements the Store interface.                 *)
(***************************************************************************)
EXTENDS SqlStore, TLAPS

USE ExpiresAssumption, NullAssumption, BoundsAssumption
    DEF ExpiresAssumption, NullAssumption, BoundsAssumption

(***************************************************************************)
(* Every step keeps the table and the calls well-formed.                   *)
(***************************************************************************)
\* Initially the table is empty and nobody calls.
LEMMA TypeInit == StoreInit => TypeOK
BY DEF StoreInit, TypeOK, Call, IdleCall

\* Replacing one goroutine's call by a well-formed one.
LEMMA CallType ==
    ASSUME TypeOK, NEW p \in Procs, NEW c \in Call,
           call' = [call EXCEPT ![p] = c]
    PROVE  call' \in [Procs -> Call]
BY DEF TypeOK

\* The answer a method gives is a well-formed call.
LEMMA AnswerType ==
    ASSUME TypeOK, NEW p \in Procs,
           NEW out \in {"none", "hit", "miss", "ok", "exists", "done", "err"},
           Answer(p, out)
    PROVE  /\ call' \in [Procs -> Call]
           /\ call'[p].pc = "ret"
           /\ \A q \in Procs \ {p} : call'[q] = call[q]
<1>1. call[p] \in Call
  BY DEF TypeOK
<1>2. [call[p] EXCEPT !.pc = "ret", !.out = out] \in Call
  BY <1>1 DEF Call
<1>3. call' = [call EXCEPT ![p] = [call[p] EXCEPT !.pc = "ret", !.out = out]]
  BY DEF Answer
<1> HIDE DEF Call
<1> QED BY <1>1, <1>2, <1>3, CallType DEF TypeOK, Call

\* So is a call that has just begun.
LEMMA BeginType ==
    ASSUME TypeOK, NEW p \in Procs, NEW c \in Call, Begin(p, c),
           c.pc \in {"select", "insert", "delete"} => c.key \in Keys,
           c.pc = "insert" => c.body \in Bodies,
           c.pc # "bump"
    PROVE  TypeOK'
<1>1. [c EXCEPT !.now = clock] \in Call
  BY DEF TypeOK, Call
<1>2. call' = [call EXCEPT ![p] = [c EXCEPT !.now = clock]]
  BY DEF Begin
<1>3. call' \in [Procs -> Call]
  BY <1>1, <1>2, CallType
<1>4. /\ call'[p].pc = c.pc /\ call'[p].key = c.key /\ call'[p].body = c.body
      /\ \A q \in Procs \ {p} : call'[q] = call[q]
  BY <1>2 DEF TypeOK, Call
<1> QED BY <1>3, <1>4 DEF TypeOK, Begin

\* A slid row is a row.
LEMMA SlidType ==
    ASSUME TypeOK, NEW p \in Procs
    PROVE  Slid(call[p]) \in SUBSET Row
<1>1. call[p].now + expire \in Nat
  BY DEF TypeOK, Call
<1>2. SUFFICES ASSUME NEW r \in rows
      PROVE  (IF r.id = call[p].id
              THEN [r EXCEPT !.expires_at = call[p].now + expire] ELSE r) \in Row
  BY DEF Slid
<1> QED BY <1>1 DEF TypeOK, Row

\* A new row is a row.
LEMMA NewRowType ==
    ASSUME TypeOK, NEW p \in Procs, call[p].pc = "insert",
           call[p].key \in Keys, call[p].body \in Bodies
    PROVE  NewRow(call[p]) \in Row
BY DEF TypeOK, Call, NewRow, Row, NextId, Deadline

\* A call begins with the present time and without a pending bump; nothing else
\* changes.
LEMMA InvokeStep ==
    ASSUME TypeOK, NEW p \in Procs, Invoke(p)
    PROVE  /\ call'[p].pc # "bump" /\ call'[p].now = clock
           /\ \A q \in Procs \ {p} : call'[q] = call[q]
           /\ UNCHANGED <<rows, lastId, clock, expire>>
<1>1. ASSUME NEW c \in Call, c.pc # "bump", Begin(p, c)
      PROVE  /\ call'[p].pc # "bump" /\ call'[p].now = clock
             /\ \A q \in Procs \ {p} : call'[q] = call[q]
             /\ UNCHANGED <<rows, lastId, clock, expire>>
  <2>1. call' = [call EXCEPT ![p] = [c EXCEPT !.now = clock]]
    BY <1>1 DEF Begin
  <2>2. call'[p] = [c EXCEPT !.now = clock] /\ \A q \in Procs \ {p} : call'[q] = call[q]
    BY <2>1 DEF TypeOK
  <2>3. call'[p].pc = c.pc /\ call'[p].now = clock
    BY <2>2 DEF Call
  <2> QED BY <1>1, <2>2, <2>3 DEF Begin
<1>2. ASSUME NEW k \in Keys, NEW bump \in BOOLEAN
      PROVE  LET c == [IdleCall EXCEPT !.pc = "select", !.key = k, !.bump = bump]
             IN c \in Call /\ c.pc # "bump"
  BY DEF IdleCall, Call
<1>3. ASSUME NEW k \in Keys, NEW b \in Bodies
      PROVE  LET c == [IdleCall EXCEPT !.pc = "insert", !.key = k, !.body = b]
             IN c \in Call /\ c.pc # "bump"
  BY DEF IdleCall, Call
<1>4. ASSUME NEW k \in Keys
      PROVE  LET c == [IdleCall EXCEPT !.pc = "delete", !.key = k]
             IN c \in Call /\ c.pc # "bump"
  BY DEF IdleCall, Call
<1>5. LET c == [IdleCall EXCEPT !.pc = "purge"] IN c \in Call /\ c.pc # "bump"
  BY DEF IdleCall, Call
<1>6. CASE \E k \in Keys, bump \in BOOLEAN : GetCall(p, k, bump)
  BY <1>1, <1>2, <1>6 DEF GetCall
<1>7. CASE \E k \in Keys, b \in Bodies : SetCall(p, k, b)
  BY <1>1, <1>3, <1>7 DEF SetCall
<1>8. CASE \E k \in Keys : DeleteCall(p, k)
  BY <1>1, <1>4, <1>8 DEF DeleteCall
<1>9. CASE PurgeCall(p)
  BY <1>1, <1>5, <1>9 DEF PurgeCall
<1> QED BY <1>6, <1>7, <1>8, <1>9 DEF Invoke

\* Every step keeps TypeOK.
LEMMA TypeStep == TypeOK /\ [StoreNext]_storeVars => TypeOK'
<1> SUFFICES ASSUME TypeOK, [StoreNext]_storeVars PROVE TypeOK'
  OBVIOUS
<1>1. ASSUME NEW p \in Procs, Invoke(p) PROVE TypeOK'
  <2>1. ASSUME NEW k \in Keys, NEW bump \in BOOLEAN, GetCall(p, k, bump)
        PROVE  TypeOK'
    BY <2>1, BeginType DEF GetCall, IdleCall, Call
  <2>2. ASSUME NEW k \in Keys, NEW b \in Bodies, SetCall(p, k, b)
        PROVE  TypeOK'
    BY <2>2, BeginType DEF SetCall, IdleCall, Call
  <2>3. ASSUME NEW k \in Keys, DeleteCall(p, k) PROVE TypeOK'
    BY <2>3, BeginType DEF DeleteCall, IdleCall, Call
  <2>4. CASE PurgeCall(p)
    BY <2>4, BeginType DEF PurgeCall, IdleCall, Call
  <2> QED BY <1>1, <2>1, <2>2, <2>3, <2>4 DEF Invoke
<1>2. ASSUME NEW p \in Procs, SelectMiss(p) PROVE TypeOK'
  BY <1>2, AnswerType DEF SelectMiss, TypeOK
<1>3. ASSUME NEW p \in Procs, SelectHit(p) PROVE TypeOK'
  <2>1. PICK r \in Matches(call[p].key, call[p].now) :
           LET read == [call[p] EXCEPT !.id = r.id, !.body = r.body]
           IN call' = [call EXCEPT ![p] = IF Slides(call[p], r)
                                          THEN [read EXCEPT !.pc = "bump"]
                                          ELSE [read EXCEPT !.pc = "ret", !.out = "hit"]]
    BY <1>3 DEF SelectHit
  <2> DEFINE c == [call[p] EXCEPT !.id = r.id, !.body = r.body, !.pc = "bump"]
             d == [call[p] EXCEPT !.id = r.id, !.body = r.body, !.pc = "ret", !.out = "hit"]
  <2>2. r \in Row /\ call[p] \in Call
    BY DEF Matches, TypeOK
  <2>3. /\ c \in Call /\ c.pc = "bump" /\ c.key = call[p].key /\ c.body \in Bodies
        /\ d \in Call /\ d.pc = "ret"
    BY <2>2 DEF Call, Row
  <2>4. call' = [call EXCEPT ![p] = c] \/ call' = [call EXCEPT ![p] = d]
    BY <2>1, Zenon
  <2>5. call[p].key \in Keys
    BY <1>3 DEF SelectHit, TypeOK
  <2> HIDE DEF c, d
  <2>6. call' \in [Procs -> Call]
    BY <2>3, <2>4, CallType
  <2> QED BY <1>3, <2>3, <2>4, <2>5, <2>6 DEF SelectHit, TypeOK
<1>4. ASSUME NEW p \in Procs, GetBump(p) PROVE TypeOK'
  BY <1>4, AnswerType, SlidType DEF GetBump, TypeOK
<1>5. ASSUME NEW p \in Procs, SetExists(p) PROVE TypeOK'
  BY <1>5, AnswerType DEF SetExists, TypeOK
<1>6. ASSUME NEW p \in Procs, SetInsert(p) PROVE TypeOK'
  <2>1. PICK out \in {"ok", "err"} :
          call' = [call EXCEPT ![p] =
                     [call[p] EXCEPT !.pc = "ret", !.out = out, !.id = NextId]]
    BY <1>6 DEF SetInsert
  <2> DEFINE c == [call[p] EXCEPT !.pc = "ret", !.out = out, !.id = NextId]
  <2> call[p] \in Call /\ NextId \in Nat
    BY DEF TypeOK, NextId
  <2>2. c \in Call /\ c.pc = "ret"
    BY DEF Call
  <2>3. call' = [call EXCEPT ![p] = c]
    BY <2>1
  <2>4. NewRow(call[p]) \in Row
    BY <1>6, NewRowType DEF SetInsert, TypeOK
  <2> HIDE DEF c
  <2>5. call' \in [Procs -> Call]
    BY <2>2, <2>3, CallType
  <2>6. rows' \in SUBSET Row /\ lastId' \in Nat
    BY <1>6, <2>4 DEF SetInsert, TypeOK, NextId
  <2> QED BY <1>6, <2>2, <2>3, <2>5, <2>6 DEF SetInsert, TypeOK
<1>7. ASSUME NEW p \in Procs, DeleteExec(p) PROVE TypeOK'
  BY <1>7, AnswerType DEF DeleteExec, TypeOK
<1>8. ASSUME NEW p \in Procs, PurgeExec(p) PROVE TypeOK'
  BY <1>8, AnswerType DEF PurgeExec, TypeOK
<1>9. ASSUME NEW p \in Procs, StmtFails(p) PROVE TypeOK'
  BY <1>9, AnswerType DEF StmtFails, TypeOK
<1>10. ASSUME NEW p \in Procs, Return(p) PROVE TypeOK'
  <2>1. IdleCall \in Call /\ IdleCall.pc = "idle"
    BY DEF IdleCall, Call
  <2> QED BY <1>10, <2>1, CallType DEF Return, TypeOK
<1>11. CASE Tick
  BY <1>11 DEF Tick, TypeOK
<1>12. CASE Restart
  <2>1. IdleCall \in Call /\ IdleCall.pc = "idle"
    BY DEF IdleCall, Call
  <2> QED BY <1>12, <2>1 DEF Restart, TypeOK
<1>13. CASE UNCHANGED storeVars
  BY <1>13 DEF storeVars, TypeOK
<1> QED
  BY <1>1, <1>2, <1>3, <1>4, <1>5, <1>6, <1>7, <1>8, <1>9, <1>10, <1>11, <1>12,
     <1>13 DEF StoreNext, Statement

\* The table and the calls are always well-formed.
THEOREM StoreTypeCorrect == StoreSpec => []TypeOK
BY TypeInit, TypeStep, PTL DEF StoreSpec

-----------------------------------------------------------------------------
(***************************************************************************)
(* The inductive invariant: SlugUnique is what matters to readers.  It is  *)
(* not disturbed by an INSERT because the statement checks Taken, nor by   *)
(* an UPDATE because a slid row keeps its slug; but that there are no two  *)
(* slid rows, and that a reader's row is the one it read, takes IdUnique,  *)
(* which an INSERT keeps because of IdsGiven: ids are never reused.        *)
(***************************************************************************)
\* A slid table has the same ids, slugs and bodies.
LEMMA SlidRows ==
    ASSUME TypeOK, NEW p \in Procs, NEW s \in Slid(call[p])
    PROVE  \E r \in rows :
              /\ s.id = r.id /\ s.slug = r.slug /\ s.body = r.body
              /\ s = IF r.id = call[p].id
                      THEN [r EXCEPT !.expires_at = call[p].now + expire] ELSE r
<1>1. PICK r \in rows :
        s = IF r.id = call[p].id
            THEN [r EXCEPT !.expires_at = call[p].now + expire] ELSE r
  BY DEF Slid
<1>2. r \in Row
  BY DEF TypeOK
<1>3. s.id = r.id /\ s.slug = r.slug /\ s.body = r.body
  BY <1>1, <1>2 DEF Row
<1> QED BY <1>1, <1>3

\* A step that changes p's call alone, to something that is not a pending
\* bump, and does not add or alter rows, keeps the table consistent.
LEMMA TableShrinks ==
    ASSUME TypeOK, TableConsistent, NEW p \in Procs,
           rows' \in SUBSET rows, lastId' = lastId, expire' = expire,
           call' \in [Procs -> Call], call'[p].pc # "bump",
           \A q \in Procs \ {p} : call'[q] = call[q]
    PROVE  TableConsistent'
BY DEF TypeOK, TableConsistent, SlugUnique, IdUnique, IdsGiven, ReaderKnowsItsRow

\* Every step keeps the table consistent.
LEMMA TableStep ==
    TypeOK /\ TableConsistent /\ [StoreNext]_storeVars => TableConsistent'
<1> SUFFICES ASSUME TypeOK, TableConsistent, [StoreNext]_storeVars
             PROVE  TableConsistent'
  OBVIOUS
<1>0. TypeOK'
  BY TypeStep
<1>1. ASSUME NEW p \in Procs, Invoke(p) PROVE TableConsistent'
  <2>1. /\ call'[p].pc # "bump"
        /\ \A q \in Procs \ {p} : call'[q] = call[q]
        /\ UNCHANGED <<rows, lastId, expire>>
    BY <1>1, InvokeStep
  <2> QED BY <1>0, <2>1, TableShrinks DEF TypeOK
<1>2. ASSUME NEW p \in Procs, SelectMiss(p) PROVE TableConsistent'
  BY <1>2, AnswerType, TableShrinks DEF SelectMiss
<1>3. ASSUME NEW p \in Procs, SelectHit(p) PROVE TableConsistent'
  <2>1. PICK r \in Matches(call[p].key, call[p].now) :
           LET read == [call[p] EXCEPT !.id = r.id, !.body = r.body]
           IN call' = [call EXCEPT ![p] = IF Slides(call[p], r)
                                          THEN [read EXCEPT !.pc = "bump"]
                                          ELSE [read EXCEPT !.pc = "ret", !.out = "hit"]]
    BY <1>3 DEF SelectHit
  <2>2. UNCHANGED <<rows, lastId, clock, expire>>
    BY <1>3 DEF SelectHit
  <2>3. CASE Slides(call[p], r)
    <3>1. call' = [call EXCEPT ![p] = [call[p] EXCEPT !.id = r.id, !.body = r.body,
                                                      !.pc = "bump"]]
      BY <2>1, <2>3
    <3>2. /\ call'[p].id = r.id /\ call'[p].key = call[p].key
          /\ call'[p].body = r.body
          /\ \A q \in Procs \ {p} : call'[q] = call[q]
      BY <3>1 DEF TypeOK, Call
    <3>3. r \in rows /\ r.slug = call[p].key
      BY DEF Matches
    <3>4. expire > 0 /\ r.expires_at # Null
      BY <2>3 DEF Slides
    <3>5. ReaderKnowsItsRow'
      BY <2>2, <3>2, <3>3, <3>4
      DEF ReaderKnowsItsRow, TableConsistent, IdsGiven, IdUnique
    <3> QED BY <2>2, <3>5 DEF TableConsistent, SlugUnique, IdUnique, IdsGiven
  <2>4. CASE ~Slides(call[p], r)
    <3>1. call' = [call EXCEPT ![p] = [call[p] EXCEPT !.id = r.id, !.body = r.body,
                                                      !.pc = "ret", !.out = "hit"]]
      BY <2>1, <2>4
    <3>2. call'[p].pc = "ret" /\ \A q \in Procs \ {p} : call'[q] = call[q]
      BY <3>1 DEF TypeOK, Call
    <3> QED BY <1>0, <2>2, <3>2, TableShrinks DEF TypeOK
  <2> QED BY <2>3, <2>4
<1>4. ASSUME NEW p \in Procs, GetBump(p) PROVE TableConsistent'
  <2>1. rows' = Slid(call[p]) /\ UNCHANGED <<lastId, expire>>
    BY <1>4 DEF GetBump
  <2>2. call'[p].pc = "ret" /\ \A q \in Procs \ {p} : call'[q] = call[q]
    BY <1>4, AnswerType DEF GetBump
  <2>3. SlugUnique' /\ IdUnique' /\ IdsGiven'
    BY <2>1, SlidRows DEF TableConsistent, SlugUnique, IdUnique, IdsGiven
  <2>4. ReaderKnowsItsRow'
    <3> SUFFICES ASSUME NEW q \in Procs, call'[q].pc = "bump"
                 PROVE  /\ call'[q].id \in 1..lastId'
                        /\ expire' > 0
                        /\ \A s \in rows' : s.id = call'[q].id =>
                              /\ s.slug = call'[q].key
                              /\ s.body = call'[q].body
                              /\ s.expires_at # Null
      BY DEF ReaderKnowsItsRow
    <3>1. q # p /\ call'[q] = call[q]
      BY <2>2
    <3>2. ASSUME NEW s \in rows', s.id = call[q].id
          PROVE  s.slug = call[q].key /\ s.body = call[q].body /\ s.expires_at # Null
      <4>1. PICK r \in rows :
              /\ s.id = r.id /\ s.slug = r.slug /\ s.body = r.body
              /\ s = IF r.id = call[p].id
                      THEN [r EXCEPT !.expires_at = call[p].now + expire] ELSE r
        BY <2>1, <3>2, SlidRows
      <4>2. call[p].now + expire \in Nat /\ r \in Row
        BY DEF TypeOK, Call
      <4>3. r.slug = call[q].key /\ r.body = call[q].body /\ r.expires_at # Null
        BY <3>1, <3>2, <4>1 DEF TableConsistent, ReaderKnowsItsRow
      <4> QED BY <4>1, <4>2, <4>3 DEF Row
    <3> QED BY <2>1, <3>1, <3>2 DEF TableConsistent, ReaderKnowsItsRow
  <2> QED BY <2>3, <2>4 DEF TableConsistent
<1>5. ASSUME NEW p \in Procs, SetExists(p) PROVE TableConsistent'
  BY <1>5, AnswerType, TableShrinks DEF SetExists
<1>6. ASSUME NEW p \in Procs, SetInsert(p) PROVE TableConsistent'
  <2> DEFINE n == NewRow(call[p])
  <2>1. /\ rows' = rows \cup {n} /\ lastId' = lastId + 1
        /\ UNCHANGED <<clock, expire>>
        /\ ~Taken(call[p].key)
    BY <1>6 DEF SetInsert, NextId
  <2>2. n.id = lastId + 1 /\ n.slug = call[p].key
    BY DEF NewRow, NextId
  <2>3. call'[p].pc = "ret" /\ \A q \in Procs \ {p} : call'[q] = call[q]
    BY <1>6 DEF SetInsert, TypeOK, Call
  <2> HIDE DEF n
  <2>4. \A r \in rows : r.id \in 1..lastId /\ r.slug # n.slug /\ r.id # n.id
    BY <2>1, <2>2 DEF TableConsistent, IdsGiven, Taken, TypeOK
  <2>5. SlugUnique' /\ IdUnique' /\ IdsGiven'
    BY <2>1, <2>2, <2>4
    DEF TableConsistent, SlugUnique, IdUnique, IdsGiven, TypeOK
  <2>6. ReaderKnowsItsRow'
    BY <2>1, <2>2, <2>3, <2>4 DEF TableConsistent, ReaderKnowsItsRow, TypeOK
  <2> QED BY <2>5, <2>6 DEF TableConsistent
<1>7. ASSUME NEW p \in Procs, DeleteExec(p) PROVE TableConsistent'
  BY <1>7, AnswerType, TableShrinks DEF DeleteExec
<1>8. ASSUME NEW p \in Procs, PurgeExec(p) PROVE TableConsistent'
  BY <1>8, AnswerType, TableShrinks DEF PurgeExec
<1>9. ASSUME NEW p \in Procs, StmtFails(p) PROVE TableConsistent'
  BY <1>9, AnswerType, TableShrinks DEF StmtFails
<1>10. ASSUME NEW p \in Procs, Return(p) PROVE TableConsistent'
  <2>1. call'[p].pc # "bump" /\ \A q \in Procs \ {p} : call'[q] = call[q]
    BY <1>10 DEF Return, IdleCall, TypeOK
  <2> QED BY <1>0, <1>10, <2>1, TableShrinks DEF Return, TypeOK
<1>11. CASE Tick
  BY <1>11
  DEF Tick, TableConsistent, SlugUnique, IdUnique, IdsGiven, ReaderKnowsItsRow
<1>12. CASE Restart
  BY <1>12
  DEF Restart, IdleCall, TableConsistent, SlugUnique, IdUnique, IdsGiven,
      ReaderKnowsItsRow
<1>13. CASE UNCHANGED storeVars
  BY <1>13
  DEF storeVars, TableConsistent, SlugUnique, IdUnique, IdsGiven, ReaderKnowsItsRow
<1> QED
  BY <1>1, <1>2, <1>3, <1>4, <1>5, <1>6, <1>7, <1>8, <1>9, <1>10, <1>11, <1>12,
     <1>13 DEF StoreNext, Statement

\* The table is always consistent: one paste per slug, ids never reused, and
\* what a sliding reader knows of its row still true.
THEOREM StoreTableConsistent == StoreSpec => []TableConsistent
<1>1. StoreInit => TableConsistent
  BY DEF StoreInit, IdleCall, TableConsistent, SlugUnique, IdUnique, IdsGiven,
         ReaderKnowsItsRow
<1> QED BY <1>1, TableStep, StoreTypeCorrect, PTL DEF StoreSpec

-----------------------------------------------------------------------------
(***************************************************************************)
(* Time.  Deadlines are computed from stamps, so the bound on deadlines    *)
(* rests on no stamp being ahead of the clock.                             *)
(***************************************************************************)
\* No call carries a time that is not yet.
LEMMA StampStep ==
    TypeOK /\ StampsNotAhead /\ [StoreNext]_storeVars => StampsNotAhead'
<1> SUFFICES ASSUME TypeOK, StampsNotAhead, [StoreNext]_storeVars
             PROVE  StampsNotAhead'
  OBVIOUS
<1>1. ASSUME NEW p \in Procs, Invoke(p) PROVE StampsNotAhead'
  <2>1. clock' = clock /\ call'[p].now = clock /\ \A q \in Procs \ {p} : call'[q] = call[q]
    BY <1>1, InvokeStep
  <2> QED BY <2>1 DEF StampsNotAhead, TypeOK
<1>2. ASSUME NEW p \in Procs, Statement(p) \/ Return(p) PROVE StampsNotAhead'
  <2>1. /\ clock' = clock
        /\ call'[p].now = call[p].now \/ call'[p].now = 0
        /\ \A q \in Procs \ {p} : call'[q] = call[q]
    <3>1. ASSUME NEW out, Answer(p, out)
          PROVE  call'[p].now = call[p].now /\ \A q \in Procs \ {p} : call'[q] = call[q]
      BY <3>1 DEF Answer, TypeOK, Call
    <3>2. CASE SelectHit(p)
      <4>1. clock' = clock /\ \E c \in Call :
               c.now = call[p].now /\ call' = [call EXCEPT ![p] = c]
        <5>1. PICK r \in Matches(call[p].key, call[p].now) :
                 LET read == [call[p] EXCEPT !.id = r.id, !.body = r.body]
                 IN call' = [call EXCEPT ![p] =
                               IF Slides(call[p], r)
                               THEN [read EXCEPT !.pc = "bump"]
                               ELSE [read EXCEPT !.pc = "ret", !.out = "hit"]]
          BY <3>2 DEF SelectHit
        <5> DEFINE c == [call[p] EXCEPT !.id = r.id, !.body = r.body, !.pc = "bump"]
                   d == [call[p] EXCEPT !.id = r.id, !.body = r.body, !.pc = "ret",
                                        !.out = "hit"]
        <5>2. call' = [call EXCEPT ![p] = c] \/ call' = [call EXCEPT ![p] = d]
          BY <5>1, Zenon
        <5>3. r \in Row /\ call[p] \in Call
          BY DEF Matches, TypeOK
        <5>4. c \in Call /\ c.now = call[p].now /\ d \in Call /\ d.now = call[p].now
          BY <5>3 DEF Call, Row
        <5> HIDE DEF c, d
        <5> QED BY <3>2, <5>2, <5>4 DEF SelectHit
      <4> QED BY <4>1 DEF TypeOK
    <3>3. CASE SetInsert(p)
      <4>1. PICK out \in {"ok", "err"} :
              call' = [call EXCEPT ![p] =
                         [call[p] EXCEPT !.pc = "ret", !.out = out, !.id = NextId]]
        BY <3>3 DEF SetInsert
      <4>2. clock' = clock
        BY <3>3 DEF SetInsert
      <4> QED BY <4>1, <4>2 DEF TypeOK, Call
    <3>4. CASE Return(p)
      BY <3>4 DEF Return, TypeOK, IdleCall
    <3>5. CASE SelectMiss(p) \/ GetBump(p) \/ SetExists(p)
      BY <3>1, <3>5 DEF SelectMiss, GetBump, SetExists
    <3>6. CASE DeleteExec(p) \/ PurgeExec(p) \/ StmtFails(p)
      BY <3>1, <3>6 DEF DeleteExec, PurgeExec, StmtFails
    <3> QED BY <1>2, <3>2, <3>3, <3>4, <3>5, <3>6 DEF Statement
  <2> QED BY <2>1 DEF StampsNotAhead, TypeOK
<1>3. CASE Tick
  BY <1>3 DEF Tick, StampsNotAhead, TypeOK, Call
<1>4. CASE Restart
  BY <1>4 DEF Restart, IdleCall, StampsNotAhead, TypeOK
<1>5. CASE UNCHANGED storeVars
  BY <1>5 DEF storeVars, StampsNotAhead
<1> QED BY <1>1, <1>2, <1>3, <1>4, <1>5 DEF StoreNext

\* Every step keeps the deadlines within one expiry of the clock.
LEMMA DeadlineStep ==
    /\ TypeOK /\ StampsNotAhead /\ DeadlineWithinOneExpiry
    /\ [StoreNext]_storeVars
    => DeadlineWithinOneExpiry'
<1> SUFFICES ASSUME TypeOK, StampsNotAhead, DeadlineWithinOneExpiry,
                    [StoreNext]_storeVars,
                    NEW s \in rows', s.expires_at # Null
             PROVE  \E e \in Expires : s.expires_at <= clock' + e
  BY DEF DeadlineWithinOneExpiry
<1>1. clock' >= clock /\ clock \in Nat /\ clock' \in Nat
  <2>1. clock' = clock \/ clock' = clock + 1
    BY Zenon
    DEF StoreNext, Invoke, Statement, GetCall, SetCall, DeleteCall, PurgeCall, Begin,
        SelectMiss, SelectHit, GetBump, SetExists, SetInsert, DeleteExec, PurgeExec,
        StmtFails, Return, Tick, Restart, storeVars
  <2> QED BY <2>1 DEF TypeOK
<1>2. CASE s \in rows
  <2>1. s.expires_at \in Nat
    BY <1>2 DEF TypeOK, Row
  <2>2. PICK e \in Expires : s.expires_at <= clock + e
    BY <1>2 DEF DeadlineWithinOneExpiry
  <2> QED BY <1>1, <2>1, <2>2
<1>3. ASSUME s \notin rows, NEW p \in Procs, GetBump(p)
      PROVE  \E e \in Expires : s.expires_at <= clock' + e
  <2>1. s.expires_at = call[p].now + expire
    <3>1. PICK r \in rows :
            s = IF r.id = call[p].id
                THEN [r EXCEPT !.expires_at = call[p].now + expire] ELSE r
      BY <1>3, SlidRows DEF GetBump
    <3> QED BY <1>3, <3>1 DEF TypeOK, Row
  <2>2. call[p].now <= clock /\ call[p].now \in Nat /\ expire \in Expires
        /\ expire \in Nat
    BY DEF StampsNotAhead, TypeOK, Call
  <2>3. s.expires_at <= clock' + expire
    BY <1>1, <2>1, <2>2
  <2> QED BY <2>2, <2>3
<1>4. ASSUME s \notin rows, NEW p \in Procs, SetInsert(p)
      PROVE  \E e \in Expires : s.expires_at <= clock' + e
  <2>1. s = NewRow(call[p])
    BY <1>4 DEF SetInsert
  <2>2. s.expires_at = call[p].now + expire
    BY <2>1 DEF NewRow, Deadline
  <2>3. call[p].now <= clock /\ call[p].now \in Nat /\ expire \in Expires
        /\ expire \in Nat
    BY DEF StampsNotAhead, TypeOK, Call
  <2>4. s.expires_at <= clock' + expire
    BY <1>1, <2>2, <2>3
  <2> QED BY <2>3, <2>4
<1> QED
  BY <1>2, <1>3, <1>4
  DEF StoreNext, Invoke, Statement, GetCall, SetCall, DeleteCall, PurgeCall, Begin,
      SelectMiss, SelectHit, SetExists, DeleteExec, PurgeExec, StmtFails, Return,
      Tick, Restart, storeVars

\* Reads keep a paste alive, but never for more than one expiry from now.
THEOREM StoreDeadlinesBounded == StoreSpec => [](StampsNotAhead /\ DeadlineWithinOneExpiry)
<1>1. StoreInit => StampsNotAhead /\ DeadlineWithinOneExpiry
  BY DEF StoreInit, IdleCall, StampsNotAhead, DeadlineWithinOneExpiry
<1> QED BY <1>1, StampStep, DeadlineStep, StoreTypeCorrect, PTL DEF StoreSpec

-----------------------------------------------------------------------------
(***************************************************************************)
(* What a step may do to a call.                                           *)
(***************************************************************************)
\* What the beginning of a call leaves.
LEMMA BeginStep ==
    ASSUME TypeOK, NEW p \in Procs, NEW c \in Call, Begin(p, c)
    PROVE  /\ call'[p].pc = c.pc /\ call'[p].key = c.key
           /\ call'[p].body = c.body /\ call'[p].bump = c.bump
           /\ \A q \in Procs \ {p} : call'[q] = call[q]
           /\ UNCHANGED <<rows, lastId, clock, expire>>
<1>1. call' = [call EXCEPT ![p] = [c EXCEPT !.now = clock]]
  BY DEF Begin
<1>2. call'[p] = [c EXCEPT !.now = clock] /\ \A q \in Procs \ {p} : call'[q] = call[q]
  BY <1>1 DEF TypeOK
<1>3. /\ call'[p].pc = c.pc /\ call'[p].key = c.key
      /\ call'[p].body = c.body /\ call'[p].bump = c.bump
  BY <1>2 DEF Call
<1> QED BY <1>2, <1>3 DEF Begin

\* What a statement makes of its call: only a Get that may slide goes on, and
\* only an INSERT that took effect is a success, with the id of the new row.
LEMMA StatementStep ==
    ASSUME TypeOK, NEW p \in Procs, Statement(p)
    PROVE  /\ \A q \in Procs \ {p} : call'[q] = call[q]
           /\ call[p].pc \notin {"idle", "ret"}
           /\ call'[p].pc \in {"bump", "ret"}
           /\ call'[p].key = call[p].key /\ call'[p].bump = call[p].bump
           /\ call'[p].pc = "bump" => call[p].pc = "select" /\ call[p].bump
           /\ call'[p].pc = "ret" /\ call'[p].out = "ok" =>
                 SetInsert(p) /\ call'[p].id = NextId
<1>0. call[p] \in Call
  BY DEF TypeOK
<1>1. ASSUME NEW out \in {"hit", "miss", "exists", "done", "err"}, Answer(p, out)
      PROVE  /\ \A q \in Procs \ {p} : call'[q] = call[q]
             /\ call'[p].pc = "ret" /\ call'[p].out # "ok"
             /\ call'[p].key = call[p].key /\ call'[p].bump = call[p].bump
  BY <1>0, <1>1 DEF Answer, TypeOK, Call
<1>2. CASE SelectMiss(p) \/ GetBump(p) \/ SetExists(p)
  BY <1>1, <1>2 DEF SelectMiss, GetBump, SetExists
<1>3. CASE DeleteExec(p) \/ PurgeExec(p) \/ StmtFails(p)
  BY <1>1, <1>3 DEF DeleteExec, PurgeExec, StmtFails
<1>4. CASE SetInsert(p)
  <2>1. PICK out \in {"ok", "err"} :
          call' = [call EXCEPT ![p] =
                     [call[p] EXCEPT !.pc = "ret", !.out = out, !.id = NextId]]
    BY <1>4 DEF SetInsert
  <2>2. call[p].pc = "insert"
    BY <1>4 DEF SetInsert
  <2> QED BY <1>0, <1>4, <2>1, <2>2 DEF TypeOK, Call
<1>5. CASE SelectHit(p)
  <2>1. PICK r \in Matches(call[p].key, call[p].now) :
           LET read == [call[p] EXCEPT !.id = r.id, !.body = r.body]
           IN call' = [call EXCEPT ![p] = IF Slides(call[p], r)
                                          THEN [read EXCEPT !.pc = "bump"]
                                          ELSE [read EXCEPT !.pc = "ret", !.out = "hit"]]
    BY <1>5 DEF SelectHit
  <2>2. call[p].pc = "select"
    BY <1>5 DEF SelectHit
  <2>3. CASE Slides(call[p], r)
    <3>1. call' = [call EXCEPT ![p] = [call[p] EXCEPT !.id = r.id, !.body = r.body,
                                                      !.pc = "bump"]]
      BY <2>1, <2>3
    <3>2. call[p].bump
      BY <2>3 DEF Slides
    <3> QED BY <1>0, <2>2, <3>1, <3>2 DEF TypeOK, Call
  <2>4. CASE ~Slides(call[p], r)
    <3>1. call' = [call EXCEPT ![p] = [call[p] EXCEPT !.id = r.id, !.body = r.body,
                                                      !.pc = "ret", !.out = "hit"]]
      BY <2>1, <2>4
    <3> QED BY <1>0, <2>2, <3>1 DEF TypeOK, Call
  <2> QED BY <2>3, <2>4
<1> QED BY <1>2, <1>3, <1>4, <1>5 DEF Statement

-----------------------------------------------------------------------------
(***************************************************************************)
(* What a step may do to a paste.                                          *)
(***************************************************************************)
\* The rows after any step but a GetBump or a SetInsert are rows from before.
LEMMA OtherSteps ==
    ASSUME [StoreNext]_storeVars,
           ~\E p \in Procs : GetBump(p) \/ SetInsert(p)
    PROVE  rows' \subseteq rows
BY DEF StoreNext, Invoke, Statement, GetCall, SetCall, DeleteCall, PurgeCall, Begin,
       SelectMiss, SelectHit, SetExists, DeleteExec, PurgeExec, StmtFails, Return,
       Tick, Restart, storeVars

\* How a row with a known id can change: only by the UPDATE of the reader that
\* read this very row.
LEMMA RowChange ==
    ASSUME TypeOK, TableConsistent, [StoreNext]_storeVars,
           NEW r \in rows, NEW s \in rows', r.id = s.id, r # s
    PROVE  \E p \in Procs : /\ GetBump(p) /\ call[p].id = r.id
                           /\ s = [r EXCEPT !.expires_at = call[p].now + expire]
<1>1. s \notin rows
  BY DEF TableConsistent, IdUnique
<1>2. ASSUME NEW p \in Procs, SetInsert(p) PROVE FALSE
  <2>1. s.id = lastId + 1
    BY <1>1, <1>2 DEF SetInsert, NewRow, NextId
  <2> QED BY <2>1 DEF TableConsistent, IdsGiven, TypeOK
<1>3. PICK p \in Procs : GetBump(p)
  BY <1>1, <1>2, OtherSteps
<1>4. PICK q \in rows :
        /\ s.id = q.id
        /\ s = IF q.id = call[p].id
               THEN [q EXCEPT !.expires_at = call[p].now + expire] ELSE q
  BY <1>3, SlidRows DEF GetBump
<1>5. q = r
  BY <1>4 DEF TableConsistent, IdUnique
<1> QED BY <1>1, <1>3, <1>4, <1>5

\* A deadline moves only for a reader who is delivering that very paste.
THEOREM StoreSlideFollowsRead == StoreSpec => SlideFollowsRead
<1>1. ASSUME TypeOK, TableConsistent, [StoreNext]_storeVars,
             NEW r \in rows, NEW s \in rows', r.id = s.id, r # s
      PROVE  /\ s = [r EXCEPT !.expires_at = s.expires_at]
             /\ \E p \in Procs : /\ call[p].pc = "bump"
                                 /\ call[p].key = s.slug
                                 /\ call[p].body = s.body
  <2>1. PICK p \in Procs :
          /\ GetBump(p) /\ call[p].id = r.id
          /\ s = [r EXCEPT !.expires_at = call[p].now + expire]
    BY <1>1, RowChange
  <2>2. r \in Row
    BY <1>1 DEF TypeOK
  <2>3. s.slug = r.slug /\ s.body = r.body /\ s.expires_at = call[p].now + expire
    BY <2>1, <2>2 DEF Row
  <2>4. call[p].pc = "bump"
    BY <2>1 DEF GetBump
  <2>5. r.slug = call[p].key /\ r.body = call[p].body
    BY <1>1, <2>1, <2>4 DEF TableConsistent, ReaderKnowsItsRow
  <2> QED BY <2>1, <2>3, <2>4, <2>5
<1>2. TypeOK /\ TableConsistent /\ [StoreNext]_storeVars =>
        [\A r \in rows, s \in rows' :
            (r.id = s.id /\ r # s) =>
               /\ s = [r EXCEPT !.expires_at = s.expires_at]
               /\ \E p \in Procs : /\ call[p].pc = "bump"
                                   /\ call[p].key = s.slug
                                   /\ call[p].body = s.body]_storeVars
  BY <1>1
<1> QED
  BY <1>2, StoreTypeCorrect, StoreTableConsistent, PTL DEF StoreSpec, SlideFollowsRead

\* A paste without a deadline never gets one.
THEOREM StoreTimelessStaysTimeless == StoreSpec => TimelessStaysTimeless
<1>1. ASSUME TypeOK, TableConsistent, [StoreNext]_storeVars,
             NEW r \in rows, NEW s \in rows', r.id = s.id, r.expires_at = Null
      PROVE  s.expires_at = Null
  <2>1. ASSUME r # s PROVE FALSE
    <3>1. PICK p \in Procs : GetBump(p) /\ call[p].id = r.id
      BY <1>1, <2>1, RowChange
    <3> QED BY <1>1, <3>1 DEF GetBump, TableConsistent, ReaderKnowsItsRow
  <2> QED BY <1>1, <2>1
<1>2. TypeOK /\ TableConsistent /\ [StoreNext]_storeVars =>
        [\A r \in rows, s \in rows' :
            (r.id = s.id /\ r.expires_at = Null) => s.expires_at = Null]_storeVars
  BY <1>1
<1> QED
  BY <1>2, StoreTypeCorrect, StoreTableConsistent, PTL
  DEF StoreSpec, TimelessStaysTimeless

\* A paste leaves the table only for a Delete of its slug or past its
\* deadline, for a purge.
THEOREM StoreLeavesForCause == StoreSpec => LeavesForCause
<1>1. ASSUME TypeOK, StampsNotAhead, [StoreNext]_storeVars,
             NEW r \in rows, \A s \in rows' : s.id # r.id
      PROVE  \/ \E p \in Procs : call[p].pc = "delete" /\ call[p].key = r.slug
             \/ /\ \E p \in Procs : call[p].pc = "purge"
                /\ r.expires_at # Null
                /\ r.expires_at <= clock
  <2>1. ASSUME rows \subseteq rows' PROVE FALSE
    BY <1>1, <2>1
  <2>2. ASSUME NEW p \in Procs, GetBump(p) PROVE FALSE
    <3> DEFINE s == IF r.id = call[p].id
                    THEN [r EXCEPT !.expires_at = call[p].now + expire] ELSE r
    <3>1. s \in rows'
      BY <2>2 DEF GetBump, Slid
    <3>2. s.id = r.id
      BY <1>1 DEF TypeOK, Row
    <3> QED BY <1>1, <3>1, <3>2
  <2>3. ASSUME NEW p \in Procs, PurgeExec(p)
        PROVE  /\ call[p].pc = "purge" /\ r.expires_at # Null
               /\ r.expires_at <= clock
    <3>1. call[p].pc = "purge" /\ r \in Purgeable(call[p].now)
      BY <1>1, <2>3 DEF PurgeExec
    <3>2. r.expires_at \in Nat /\ r.expires_at <= call[p].now
      BY <1>1, <3>1 DEF Purgeable, TypeOK, Row
    <3> QED BY <1>1, <3>1, <3>2 DEF StampsNotAhead, TypeOK, Call
  <2>4. ASSUME NEW p \in Procs, DeleteExec(p)
        PROVE  call[p].pc = "delete" /\ call[p].key = r.slug
    BY <1>1, <2>4 DEF DeleteExec
  <2> QED
    BY <1>1, <2>1, <2>2, <2>3, <2>4
    DEF StoreNext, Invoke, Statement, GetCall, SetCall, DeleteCall, PurgeCall, Begin,
        SelectMiss, SelectHit, SetExists, SetInsert, StmtFails, Return, Tick,
        Restart, storeVars
<1>2. TypeOK /\ StampsNotAhead /\ [StoreNext]_storeVars =>
        [\A r \in rows :
          (\A s \in rows' : s.id # r.id) =>
             \/ \E p \in Procs : call[p].pc = "delete" /\ call[p].key = r.slug
             \/ /\ \E p \in Procs : call[p].pc = "purge"
                /\ r.expires_at # Null
                /\ r.expires_at <= clock]_storeVars
  BY <1>1
<1> QED
  BY <1>2, StoreTypeCorrect, StoreDeadlinesBounded, PTL DEF StoreSpec, LeavesForCause

-----------------------------------------------------------------------------
(***************************************************************************)
(* The proof that the SQL backends implement the Store interface: under    *)
(* the refinement mapping of SqlStore every step is a step of PasteBoard   *)
(* or a stutter.                                                           *)
(***************************************************************************)
USE PasteAssumption DEF PasteAssumption

\* A call that is about to slide a deadline was asked to.
BumpMeant == \A p \in Procs : call[p].pc = "bump" => call[p].bump

RefInv == TypeOK /\ TableConsistent /\ StampsNotAhead /\ BumpMeant

-----------------------------------------------------------------------------
(***************************************************************************)
(* The board that the table stands for.                                    *)
(***************************************************************************)
PasteOf(r) == [body |-> r.body, exp |-> r.expires_at]

\* A paste is something.
LEMMA PasteIsPaste ==
    ASSUME TypeOK, NEW r \in rows
    PROVE  PasteOf(r) # Null /\ PasteOf(r).body = r.body /\ PasteOf(r).exp = r.expires_at
<1>1. r \in Row
  BY DEF TypeOK
<1>2. PasteOf(r) \in [body : Bodies, exp : Nat \cup {Null}]
  BY <1>1 DEF PasteOf, Row
<1> QED BY <1>2 DEF PasteOf

\* The board has the row's paste under its slug ...
LEMMA BoardHas ==
    ASSUME TypeOK, TableConsistent, NEW r \in rows
    PROVE  BoardOf[r.slug] = PasteOf(r)
<1>1. Taken(r.slug) /\ r.slug \in Keys
  BY DEF Taken, TypeOK, Row
<1> DEFINE s == CHOOSE s \in rows : s.slug = r.slug
<1>2. s \in rows /\ s.slug = r.slug
  OBVIOUS
<1>3. s = r
  BY <1>2 DEF TableConsistent, SlugUnique
<1>4. BoardOf[r.slug] = [body |-> s.body, exp |-> s.expires_at]
  BY <1>1 DEF BoardOf
<1> QED BY <1>3, <1>4 DEF PasteOf

LEMMA BoardHasNext ==
    ASSUME TypeOK', TableConsistent'
    PROVE  \A r \in rows' : (BoardOf')[r.slug] = PasteOf(r)
<1> SUFFICES ASSUME NEW r \in rows' PROVE (BoardOf')[r.slug] = PasteOf(r)
  OBVIOUS
<1>1. r.slug \in Keys /\ Taken(r.slug)'
  BY DEF Taken, TypeOK, Row
<1> DEFINE s == CHOOSE s \in rows' : s.slug = r.slug
<1>2. s \in rows' /\ s.slug = r.slug
  OBVIOUS
<1>3. s = r
  BY <1>2 DEF TableConsistent, SlugUnique
<1>4. (BoardOf')[r.slug] = [body |-> s.body, exp |-> s.expires_at]
  BY <1>1 DEF BoardOf
<1> QED BY <1>3, <1>4 DEF PasteOf

\* ... and nothing under a key that no row has.
LEMMA BoardFree ==
    ASSUME NEW k \in Keys, ~ Taken(k)
    PROVE  BoardOf[k] = Null
BY DEF BoardOf

\* So the board's paste is there exactly when the slug is taken.
LEMMA BoardTaken ==
    ASSUME TypeOK, TableConsistent, NEW k \in Keys
    PROVE  /\ BoardOf[k] # Null <=> Taken(k)
           /\ Taken(k) => \E r \in rows : r.slug = k /\ BoardOf[k] = PasteOf(r)
<1>1. ASSUME Taken(k) PROVE BoardOf[k] # Null /\ \E r \in rows : r.slug = k /\ BoardOf[k] = PasteOf(r)
  <2>1. PICK r \in rows : r.slug = k
    BY <1>1 DEF Taken
  <2> QED BY <2>1, BoardHas, PasteIsPaste
<1> QED BY <1>1, BoardFree

-----------------------------------------------------------------------------
(***************************************************************************)
(* The operations that the calls stand for.                                *)
(***************************************************************************)
Operation == [st    : {"idle", "get", "set", "delete", "purge", "done"},
              key   : Keys \cup {Null},
              body  : Bodies \cup {Null},
              bump  : BOOLEAN,
              since : Nat,
              out   : {"none", "hit", "miss", "ok", "exists", "done", "err"}]

\* The operation that one call stands for.
OneOp(c) == [st |-> StOf(c.pc), key |-> c.key, body |-> c.body, bump |-> c.bump,
             since |-> c.now, out |-> IF c.pc = "bump" THEN "hit" ELSE c.out]

LEMMA OneOpType ==
    ASSUME NEW c \in Call
    PROVE  /\ OneOp(c) \in Operation
           /\ OneOp(c).st = StOf(c.pc) /\ OneOp(c).key = c.key /\ OneOp(c).body = c.body
           /\ OneOp(c).bump = c.bump /\ OneOp(c).since = c.now
           /\ OneOp(c).out = IF c.pc = "bump" THEN "hit" ELSE c.out
<1>1. StOf(c.pc) \in {"idle", "get", "set", "delete", "purge", "done"}
  BY DEF StOf, Call
<1>2. (IF c.pc = "bump" THEN "hit" ELSE c.out)
         \in {"none", "hit", "miss", "ok", "exists", "done", "err"}
  BY DEF Call
<1>3. /\ c.key \in Keys \cup {Null} /\ c.body \in Bodies \cup {Null}
      /\ c.bump \in BOOLEAN /\ c.now \in Nat
  BY DEF Call
<1> HIDE DEF StOf
<1> QED BY <1>1, <1>2, <1>3 DEF OneOp, Operation

\* Two operations with the same fields are the same.
LEMMA SameOp ==
    ASSUME NEW r \in Operation, NEW s \in Operation,
           r.st = s.st, r.key = s.key, r.body = s.body,
           r.bump = s.bump, r.since = s.since, r.out = s.out
    PROVE  r = s
BY DEF Operation

\* All operations; and the one that changes when one call does.
LEMMA OpStep ==
    ASSUME TypeOK
    PROVE  /\ \A p \in Procs : OpOf[p] = OneOp(call[p]) /\ call[p] \in Call
           /\ OpOf = [p \in Procs |-> OneOp(call[p])]
BY DEF OpOf, OneOp, TypeOK

LEMMA OneChanges ==
    ASSUME TypeOK, TypeOK', NEW p \in Procs, NEW o,
           \A q \in Procs \ {p} : call'[q] = call[q],
           OneOp(call'[p]) = o
    PROVE  OpOf' = [OpOf EXCEPT ![p] = o]
<1>1. OpOf = [q \in Procs |-> OneOp(call[q])]
  BY OpStep
<1>2. OpOf' = [q \in Procs |-> OneOp(call'[q])]
  BY DEF OpOf, OneOp
<1> QED BY <1>1, <1>2

\* The answer of a method that was not about to slide.
LEMMA FinishStep ==
    ASSUME TypeOK, TypeOK', NEW p \in Procs,
           NEW out \in {"hit", "miss", "ok", "exists", "done", "err"},
           \A q \in Procs \ {p} : call'[q] = call[q],
           call'[p].pc = "ret", call'[p].out = out,
           call'[p].key = call[p].key, call'[p].body = call[p].body,
           call'[p].bump = call[p].bump, call'[p].now = call[p].now
    PROVE  Board!Finish(p, out)
<1> DEFINE a == OpOf[p]
           o == [a EXCEPT !.st = "done", !.out = out]
<1>1. a \in Operation /\ a.key = call[p].key /\ a.body = call[p].body
      /\ a.bump = call[p].bump /\ a.since = call[p].now
  BY OpStep, OneOpType
<1> HIDE DEF a
<1>2. /\ o \in Operation /\ o.st = "done" /\ o.out = out /\ o.key = a.key
      /\ o.body = a.body /\ o.bump = a.bump /\ o.since = a.since
  BY <1>1 DEF Operation
<1> HIDE DEF o
<1>3. call'[p] \in Call
  BY DEF TypeOK
<1>4. OneOp(call'[p]) = o
  <2>1. OneOp(call'[p]) \in Operation
    BY <1>3, OneOpType
  <2>2. OneOp(call'[p]).st = "done"
    BY <1>3, OneOpType DEF StOf
  <2>3. OneOp(call'[p]).out = out
    BY <1>3, OneOpType
  <2> QED BY <1>1, <1>2, <1>3, <2>1, <2>2, <2>3, OneOpType, SameOp
<1>5. OpOf' = [OpOf EXCEPT ![p] = o]
  BY <1>4, OneChanges
<1> QED BY <1>5 DEF Board!Finish, o, a

\* The same for an answer as the statements give it.
LEMMA AnswerFinishes ==
    ASSUME TypeOK, TypeOK', NEW p \in Procs,
           NEW out \in {"hit", "miss", "ok", "exists", "done", "err"}, Answer(p, out)
    PROVE  Board!Finish(p, out)
<1>1. call[p] \in Call
  BY DEF TypeOK
<1>2. call'[p] = [call[p] EXCEPT !.pc = "ret", !.out = out]
      /\ \A q \in Procs \ {p} : call'[q] = call[q]
  BY DEF Answer, TypeOK
<1>3. /\ call'[p].pc = "ret" /\ call'[p].out = out /\ call'[p].key = call[p].key
      /\ call'[p].body = call[p].body /\ call'[p].bump = call[p].bump
      /\ call'[p].now = call[p].now
  BY <1>1, <1>2 DEF Call
<1> QED BY <1>2, <1>3, FinishStep

\* Whatever leaves the table alone leaves the board alone.
LEMMA BoardSame == ASSUME rows' = rows PROVE BoardOf' = BoardOf
BY DEF BoardOf, Taken

\* The operation p is executing, field by field.
LEMMA OpFields ==
    ASSUME TypeOK, NEW p \in Procs
    PROVE  /\ OpOf[p].st = StOf(call[p].pc) /\ OpOf[p].key = call[p].key
           /\ OpOf[p].body = call[p].body /\ OpOf[p].bump = call[p].bump
           /\ OpOf[p].since = call[p].now
           /\ OpOf[p].out = IF call[p].pc = "bump" THEN "hit" ELSE call[p].out
BY OpStep, OneOpType

\* The stamp of a call is a time of its span.
LEMMA StampInSpan ==
    ASSUME RefInv, NEW p \in Procs
    PROVE  call[p].now \in Board!Span(p)
<1>1. TypeOK /\ call[p].now \in Nat /\ clock \in Nat /\ call[p].now <= clock
  BY DEF RefInv, TypeOK, Call, StampsNotAhead
<1> QED BY <1>1, OpFields DEF Board!Span

-----------------------------------------------------------------------------
(***************************************************************************)
(* Each step of the store as a step of the board.                          *)
(***************************************************************************)
\* A call begins.
LEMMA InvokeStarts ==
    ASSUME RefInv, TypeOK', NEW p \in Procs, Invoke(p)
    PROVE  Board!Start(p)
<1>0. TypeOK /\ BoardOf' = BoardOf /\ UNCHANGED clock
  BY InvokeStep, BoardSame DEF RefInv
<1>1. OpOf[p].st = "idle"
  <2>1. call[p].pc = "idle"
    BY DEF Invoke, GetCall, SetCall, DeleteCall, PurgeCall, Begin
  <2> QED BY <1>0, <2>1, OpFields DEF StOf
<1>2. ASSUME NEW c \in Call, Begin(p, c), c.pc \in {"select", "insert", "delete", "purge"},
             c.out = "none"
      PROVE  Board!Start(p)
  <2>1. call'[p] = [c EXCEPT !.now = clock] /\ \A q \in Procs \ {p} : call'[q] = call[q]
    BY <1>0, <1>2 DEF Begin, TypeOK
  <2>2. /\ call'[p].pc = c.pc /\ call'[p].key = c.key /\ call'[p].body = c.body
        /\ call'[p].bump = c.bump /\ call'[p].now = clock /\ call'[p].out = "none"
    BY <1>2, <2>1 DEF Call
  <2> DEFINE st == StOf(c.pc)
             o == [st |-> st, key |-> c.key, body |-> c.body, bump |-> c.bump,
                   since |-> clock, out |-> "none"]
  <2>3. OneOp(call'[p]) = o
    BY <1>2, <2>2 DEF OneOp
  <2>4. OpOf' = [OpOf EXCEPT ![p] = o]
    <3> HIDE DEF o
    <3> QED BY <1>0, <2>1, <2>3, OneChanges
  <2>5. st \in {"get", "set", "delete", "purge"}
    BY <1>2 DEF StOf
  <2>6. c.key \in Keys \cup {Null} /\ c.body \in Bodies \cup {Null} /\ c.bump \in BOOLEAN
    BY DEF Call
  <2> HIDE DEF st
  <2> QED BY <1>0, <1>1, <2>4, <2>5, <2>6 DEF Board!Start
<1>3. ASSUME NEW k \in Keys, NEW bump \in BOOLEAN, GetCall(p, k, bump) PROVE Board!Start(p)
  <2> DEFINE c == [IdleCall EXCEPT !.pc = "select", !.key = k, !.bump = bump]
  <2>1. c \in Call /\ c.pc = "select" /\ c.out = "none"
    BY DEF IdleCall, Call
  <2>2. Begin(p, c)
    BY <1>3 DEF GetCall
  <2> HIDE DEF c
  <2> QED BY <1>2, <2>1, <2>2
<1>4. ASSUME NEW k \in Keys, NEW b \in Bodies, SetCall(p, k, b) PROVE Board!Start(p)
  <2> DEFINE c == [IdleCall EXCEPT !.pc = "insert", !.key = k, !.body = b]
  <2>1. c \in Call /\ c.pc = "insert" /\ c.out = "none"
    BY DEF IdleCall, Call
  <2>2. Begin(p, c)
    BY <1>4 DEF SetCall
  <2> HIDE DEF c
  <2> QED BY <1>2, <2>1, <2>2
<1>5. ASSUME NEW k \in Keys, DeleteCall(p, k) PROVE Board!Start(p)
  <2> DEFINE c == [IdleCall EXCEPT !.pc = "delete", !.key = k]
  <2>1. c \in Call /\ c.pc = "delete" /\ c.out = "none"
    BY DEF IdleCall, Call
  <2>2. Begin(p, c)
    BY <1>5 DEF DeleteCall
  <2> HIDE DEF c
  <2> QED BY <1>2, <2>1, <2>2
<1>6. CASE PurgeCall(p)
  <2> DEFINE c == [IdleCall EXCEPT !.pc = "purge"]
  <2>1. c \in Call /\ c.pc = "purge" /\ c.out = "none"
    BY DEF IdleCall, Call
  <2>2. Begin(p, c)
    BY <1>6 DEF PurgeCall
  <2> HIDE DEF c
  <2> QED BY <1>2, <2>1, <2>2
<1> QED BY <1>3, <1>4, <1>5, <1>6 DEF Invoke

\* A SELECT that finds nothing: the paste is not there, or has expired by the
\* call's own stamp.
LEMMA SelectMisses ==
    ASSUME RefInv, TypeOK', NEW p \in Procs, SelectMiss(p)
    PROVE  Board!Miss(p)
<1>0. TypeOK /\ TableConsistent /\ BoardOf' = BoardOf /\ UNCHANGED clock
  BY BoardSame DEF RefInv, SelectMiss
<1>1. call[p].pc = "select" /\ call[p].key \in Keys /\ OpOf[p].key = call[p].key
      /\ OpOf[p].st = "get"
  BY <1>0, OpFields DEF SelectMiss, TypeOK, StOf
<1>2. ASSUME BoardOf[call[p].key] # Null
      PROVE  ~ Board!LiveAt(BoardOf[call[p].key], call[p].now)
  <2>1. PICK r \in rows : r.slug = call[p].key /\ BoardOf[call[p].key] = PasteOf(r)
    BY <1>0, <1>1, <1>2, BoardTaken
  <2>2. ~ Live(r, call[p].now)
    BY <2>1 DEF SelectMiss, Matches
  <2>3. PasteOf(r).exp = r.expires_at
    BY <1>0, PasteIsPaste
  <2> QED BY <2>1, <2>2, <2>3 DEF Board!LiveAt, Live
<1>3. Board!Finish(p, "miss")
  BY <1>0, AnswerFinishes DEF SelectMiss
<1> QED BY <1>0, <1>1, <1>2, <1>3, StampInSpan DEF Board!Miss

\* A SELECT that finds the paste has read it, whether an UPDATE follows or not.
LEMMA SelectHits ==
    ASSUME RefInv, TypeOK', NEW p \in Procs, SelectHit(p)
    PROVE  Board!Hit(p)
<1>0. TypeOK /\ TableConsistent /\ BoardOf' = BoardOf /\ UNCHANGED clock
  BY BoardSame DEF RefInv, SelectHit
<1>1. /\ call[p].pc = "select" /\ call[p].key \in Keys /\ call[p] \in Call
      /\ OpOf[p].key = call[p].key /\ OpOf[p].st = "get" /\ OpOf[p].body = call[p].body
      /\ OpOf[p].bump = call[p].bump /\ OpOf[p].since = call[p].now
  BY <1>0, OpFields DEF SelectHit, TypeOK, StOf
<1>2. PICK r \in Matches(call[p].key, call[p].now) :
         LET read == [call[p] EXCEPT !.id = r.id, !.body = r.body]
         IN call' = [call EXCEPT ![p] = IF Slides(call[p], r)
                                        THEN [read EXCEPT !.pc = "bump"]
                                        ELSE [read EXCEPT !.pc = "ret", !.out = "hit"]]
  BY DEF SelectHit
<1>3. r \in rows /\ r.slug = call[p].key /\ Live(r, call[p].now) /\ r \in Row
  BY <1>0 DEF Matches, TypeOK
<1>4. BoardOf[call[p].key] = PasteOf(r)
  BY <1>0, <1>3, BoardHas
<1>5. PasteOf(r) # Null /\ PasteOf(r).body = r.body /\ PasteOf(r).exp = r.expires_at
  BY <1>0, <1>3, PasteIsPaste
<1>6. /\ call'[p].pc = "bump" \/ (call'[p].pc = "ret" /\ call'[p].out = "hit")
      /\ call'[p].key = call[p].key /\ call'[p].body = r.body
      /\ call'[p].bump = call[p].bump /\ call'[p].now = call[p].now
      /\ \A q \in Procs \ {p} : call'[q] = call[q]
  <2>1. CASE Slides(call[p], r)
    <3>1. call' = [call EXCEPT ![p] = [call[p] EXCEPT !.id = r.id, !.body = r.body,
                                                      !.pc = "bump"]]
      BY <1>2, <2>1
    <3>2. call'[p] = [call[p] EXCEPT !.id = r.id, !.body = r.body, !.pc = "bump"]
          /\ \A q \in Procs \ {p} : call'[q] = call[q]
      BY <1>0, <3>1 DEF TypeOK
    <3> QED BY <1>1, <3>2 DEF Call
  <2>2. CASE ~Slides(call[p], r)
    <3>1. call' = [call EXCEPT ![p] = [call[p] EXCEPT !.id = r.id, !.body = r.body,
                                                      !.pc = "ret", !.out = "hit"]]
      BY <1>2, <2>2
    <3>2. call'[p] = [call[p] EXCEPT !.id = r.id, !.body = r.body, !.pc = "ret",
                                     !.out = "hit"]
          /\ \A q \in Procs \ {p} : call'[q] = call[q]
      BY <1>0, <3>1 DEF TypeOK
    <3> QED BY <1>1, <3>2 DEF Call
  <2> QED BY <2>1, <2>2
<1> DEFINE a == OpOf[p]
           o == [a EXCEPT !.st = "done", !.out = "hit", !.body = r.body]
<1>7. a \in Operation
  BY <1>0, OpStep, OneOpType
<1>8. /\ o \in Operation /\ o.st = "done" /\ o.out = "hit" /\ o.body = r.body
      /\ o.key = call[p].key /\ o.bump = call[p].bump /\ o.since = call[p].now
  <2> HIDE DEF a
  <2>1. a.key = call[p].key /\ a.bump = call[p].bump /\ a.since = call[p].now
    BY <1>1 DEF a
  <2>2. r.body \in Bodies
    BY <1>3 DEF Row
  <2> QED BY <1>7, <2>1, <2>2 DEF Operation
<1>9. OpOf' = [OpOf EXCEPT ![p] = o]
  <2> HIDE DEF o
  <2>1. call'[p] \in Call
    BY DEF TypeOK
  <2>2. OneOp(call'[p]) \in Operation /\ OneOp(call'[p]).st = "done"
        /\ OneOp(call'[p]).out = "hit"
    BY <1>6, <2>1, OneOpType DEF StOf
  <2>3. OneOp(call'[p]) = o
    BY <1>6, <1>8, <2>1, <2>2, OneOpType, SameOp
  <2> QED BY <1>0, <1>6, <2>3, OneChanges
<1>10. Board!LiveAt(BoardOf[call[p].key], call[p].now)
  BY <1>3, <1>4, <1>5 DEF Board!LiveAt, Live
<1>11. OpOf' = [OpOf EXCEPT ![p] = [OpOf[p] EXCEPT !.st = "done", !.out = "hit",
                                      !.body = BoardOf[OpOf[p].key].body]]
  BY <1>1, <1>4, <1>5, <1>9
<1> QED BY <1>0, <1>1, <1>4, <1>5, <1>10, <1>11, StampInSpan DEF Board!Hit

\* The UPDATE of Get, when its row is still there: the paste that was read slides.
LEMMA BumpSlides ==
    ASSUME RefInv, TypeOK', TableConsistent', NEW p \in Procs, GetBump(p),
           NEW r \in rows, r.id = call[p].id
    PROVE  Board!Slide(p)
<1>0. TypeOK /\ TableConsistent /\ UNCHANGED clock /\ call[p].pc = "bump" /\ call[p] \in Call
      /\ rows' = Slid(call[p]) /\ r \in Row
  BY DEF RefInv, GetBump, TypeOK
<1>1. /\ r.slug = call[p].key /\ r.body = call[p].body /\ r.expires_at # Null
      /\ expire > 0 /\ call[p].bump
  BY <1>0 DEF TableConsistent, ReaderKnowsItsRow, RefInv, BumpMeant
<1>2. /\ OpOf[p].st = "done" /\ OpOf[p].key = call[p].key /\ OpOf[p].out = "hit"
      /\ OpOf[p].body = call[p].body /\ OpOf[p].bump
  BY <1>0, <1>1, OpFields DEF StOf
<1> DEFINE d == call[p].now + expire
           s == [r EXCEPT !.expires_at = d]
<1>3. d \in Nat /\ expire \in Expires \ {0}
  BY <1>0, <1>1 DEF TypeOK, Call
<1>4. d \in Board!Deadlines(p)
  BY <1>3, StampInSpan DEF Board!Deadlines
<1>5. s \in rows' /\ s.slug = r.slug /\ s.body = r.body /\ s.expires_at = d
  BY <1>0 DEF Slid, Row
<1>6. BoardOf' = [BoardOf EXCEPT ![r.slug].exp = d]
  <2> HIDE DEF d, s
  <2>1. BoardOf[r.slug] = PasteOf(r)
    BY <1>0, BoardHas
  <2>2. (BoardOf')[s.slug] = PasteOf(s)
    <3>1. \A q \in rows' : (BoardOf')[q.slug] = PasteOf(q)
      BY BoardHasNext
    <3> QED BY <1>5, <3>1
  <2>3. [PasteOf(r) EXCEPT !.exp = d] = PasteOf(s)
    BY <1>5 DEF PasteOf
  <2>4. ASSUME NEW k \in Keys, k # r.slug PROVE (BoardOf')[k] = BoardOf[k]
    <3>1. CASE Taken(k)
      <4>1. PICK q \in rows : q.slug = k
        BY <3>1 DEF Taken
      <4>2. q # r /\ q.id # call[p].id
        BY <1>0, <2>4, <4>1 DEF TableConsistent, IdUnique
      <4>3. q \in rows'
        BY <1>0, <4>2 DEF Slid
      <4> QED BY <1>0, <4>1, <4>3, BoardHas, BoardHasNext
    <3>2. CASE ~ Taken(k)
      <4>1. ~ Taken(k)'
        BY <1>0, <3>2, SlidRows DEF Taken
      <4> QED BY <3>2, <4>1 DEF BoardOf
    <3> QED BY <3>1, <3>2
  <2>5. BoardOf = [k \in Keys |-> BoardOf[k]] /\ BoardOf' = [k \in Keys |-> (BoardOf')[k]]
    BY DEF BoardOf
  <2>6. r.slug \in Keys
    BY <1>0 DEF Row
  <2> QED BY <1>5, <2>1, <2>2, <2>3, <2>4, <2>5, <2>6
<1>7. \E out \in {"hit", "err"} : Board!Finish(p, out)
  BY <1>0, AnswerFinishes DEF GetBump
<1>8. BoardOf[r.slug] = PasteOf(r) /\ PasteOf(r) # Null /\ PasteOf(r).body = r.body
      /\ PasteOf(r).exp = r.expires_at
  BY <1>0, BoardHas, PasteIsPaste
<1> HIDE DEF d
<1> QED BY <1>0, <1>1, <1>2, <1>4, <1>6, <1>7, <1>8 DEF Board!Slide

\* A key whose row is the same before and after has the same paste, and a key
\* that lost its row has none.
LEMMA BoardKeeps ==
    ASSUME TypeOK, TableConsistent, TypeOK', TableConsistent', NEW k \in Keys,
           \A r \in rows : r.slug = k => r \in rows',
           \A r \in rows' : r.slug = k => r \in rows
    PROVE  (BoardOf')[k] = BoardOf[k]
<1>1. CASE Taken(k)
  <2>1. PICK r \in rows : r.slug = k
    BY <1>1 DEF Taken
  <2>2. r \in rows' /\ BoardOf[k] = PasteOf(r)
    BY <2>1, BoardHas
  <2>3. \A q \in rows' : (BoardOf')[q.slug] = PasteOf(q)
    BY BoardHasNext
  <2> QED BY <2>1, <2>2, <2>3
<1>2. CASE ~ Taken(k)
  <2>1. ~ Taken(k)'
    BY <1>2 DEF Taken
  <2> QED BY <1>2, <2>1 DEF BoardOf
<1> QED BY <1>1, <1>2

LEMMA BoardLoses ==
    ASSUME NEW k \in Keys, \A r \in rows' : r.slug # k
    PROVE  (BoardOf')[k] = Null
<1>1. ~ Taken(k)'
  BY DEF Taken
<1> QED BY <1>1 DEF BoardOf

\* Two boards that agree on every key are the same.
LEMMA BoardIs ==
    /\ BoardOf = [k \in Keys |-> BoardOf[k]]
    /\ BoardOf' = [k \in Keys |-> (BoardOf')[k]]
BY DEF BoardOf

\* The UPDATE of Get, when its row has gone: nothing the board can see, or an
\* error without effect.
LEMMA BumpMisses ==
    ASSUME RefInv, TypeOK', NEW p \in Procs, GetBump(p),
           \A r \in rows : r.id # call[p].id
    PROVE  UNCHANGED <<BoardOf, clock, OpOf>> \/ Board!Fail(p)
<1>0. TypeOK /\ call[p].pc = "bump" /\ UNCHANGED clock /\ rows' = Slid(call[p])
      /\ call[p] \in Call
  BY DEF RefInv, GetBump, TypeOK
<1>1. rows' = rows
  BY <1>0 DEF Slid
<1>2. BoardOf' = BoardOf
  BY <1>1, BoardSame
<1>3. PICK out \in {"hit", "err"} : Answer(p, out)
  BY DEF GetBump
<1>4. CASE out = "err"
  <2>1. Board!Finish(p, "err")
    BY <1>0, <1>3, <1>4, AnswerFinishes
  <2>2. OpOf[p].st # "idle"
    BY <1>0, OpFields DEF StOf
  <2> QED BY <1>0, <1>2, <2>1, <2>2 DEF Board!Fail
<1>5. CASE out = "hit"
  <2>1. call'[p] = [call[p] EXCEPT !.pc = "ret", !.out = "hit"]
        /\ \A q \in Procs \ {p} : call'[q] = call[q]
    BY <1>0, <1>3, <1>5 DEF Answer, TypeOK
  <2>2. /\ call'[p].pc = "ret" /\ call'[p].out = "hit" /\ call'[p].key = call[p].key
        /\ call'[p].body = call[p].body /\ call'[p].bump = call[p].bump
        /\ call'[p].now = call[p].now
    BY <1>0, <2>1 DEF Call
  <2>3. OneOp(call'[p]) = OneOp(call[p])
    BY <1>0, <2>2 DEF OneOp, StOf
  <2>4. OpOf' = [q \in Procs |-> OneOp(call'[q])]
    BY DEF OpOf, OneOp
  <2>5. OpOf = [q \in Procs |-> OneOp(call[q])]
    BY <1>0, OpStep
  <2> HIDE DEF OneOp
  <2>6. \A q \in Procs : OneOp(call'[q]) = OneOp(call[q])
    BY <2>1, <2>3
  <2> QED BY <1>0, <1>2, <2>4, <2>5, <2>6
<1> QED BY <1>3, <1>4, <1>5

\* An INSERT that meets the UNIQUE constraint.
LEMMA InsertRefused ==
    ASSUME RefInv, TypeOK', NEW p \in Procs, SetExists(p)
    PROVE  Board!Refuse(p)
<1>0. TypeOK /\ TableConsistent /\ BoardOf' = BoardOf /\ UNCHANGED clock
  BY BoardSame DEF RefInv, SetExists
<1>1. call[p].pc = "insert" /\ call[p].key \in Keys /\ OpOf[p].key = call[p].key
      /\ OpOf[p].st = "set"
  BY <1>0, OpFields DEF SetExists, TypeOK, StOf
<1>2. BoardOf[call[p].key] # Null
  BY <1>0, <1>1, BoardTaken DEF SetExists
<1>3. Board!Finish(p, "exists")
  BY <1>0, AnswerFinishes DEF SetExists
<1> QED BY <1>0, <1>1, <1>2, <1>3 DEF Board!Refuse

\* An INSERT that takes effect writes the paste under a free key.
LEMMA InsertWrites ==
    ASSUME RefInv, TypeOK', TableConsistent', NEW p \in Procs, SetInsert(p)
    PROVE  Board!Write(p)
<1>0. /\ TypeOK /\ TableConsistent /\ UNCHANGED clock /\ call[p].pc = "insert"
      /\ call[p] \in Call /\ call[p].key \in Keys /\ ~ Taken(call[p].key)
      /\ rows' = rows \cup {NewRow(call[p])}
  BY DEF RefInv, SetInsert, TypeOK
<1>1. /\ OpOf[p].st = "set" /\ OpOf[p].key = call[p].key /\ OpOf[p].body = call[p].body
  BY <1>0, OpFields DEF StOf
<1> DEFINE d == Deadline(call[p].now)
           n == NewRow(call[p])
<1>2. d \in Board!Deadlines(p) \cup (IF 0 \in Expires THEN {Null} ELSE {})
  <2>1. expire \in Expires /\ expire \in Nat
    BY <1>0 DEF TypeOK
  <2>2. CASE expire > 0
    BY <2>1, <2>2, StampInSpan DEF Deadline, Board!Deadlines
  <2>3. CASE expire = 0
    BY <2>1, <2>3 DEF Deadline
  <2> QED BY <2>1, <2>2, <2>3
<1>3. n \in rows' /\ n.slug = call[p].key /\ n.body = call[p].body /\ n.expires_at = d
  BY <1>0 DEF NewRow
<1>4. BoardOf' = [BoardOf EXCEPT ![call[p].key] = [body |-> call[p].body, exp |-> d]]
  <2> HIDE DEF d
  <2>1. PasteOf(n) = [body |-> call[p].body, exp |-> d]
    BY <1>3 DEF PasteOf
  <2> HIDE DEF n
  <2>2. (BoardOf')[call[p].key] = PasteOf(n)
    <3>1. \A q \in rows' : (BoardOf')[q.slug] = PasteOf(q)
      BY BoardHasNext
    <3> QED BY <1>3, <3>1
  <2>3. ASSUME NEW k \in Keys, k # call[p].key PROVE (BoardOf')[k] = BoardOf[k]
    <3>1. \A r \in rows' : r.slug = k => r \in rows
      BY <1>0, <1>3, <2>3 DEF n
    <3> QED BY <1>0, <3>1, BoardKeeps
  <2> QED BY <1>0, <2>1, <2>2, <2>3, BoardIs
<1>5. \E out \in {"ok", "err"} : Board!Finish(p, out)
  <2>1. PICK out \in {"ok", "err"} :
          call' = [call EXCEPT ![p] =
                     [call[p] EXCEPT !.pc = "ret", !.out = out, !.id = NextId]]
    BY DEF SetInsert
  <2>2. call'[p] = [call[p] EXCEPT !.pc = "ret", !.out = out, !.id = NextId]
        /\ \A q \in Procs \ {p} : call'[q] = call[q]
    BY <1>0, <2>1 DEF TypeOK
  <2>3. /\ call'[p].pc = "ret" /\ call'[p].out = out /\ call'[p].key = call[p].key
        /\ call'[p].body = call[p].body /\ call'[p].bump = call[p].bump
        /\ call'[p].now = call[p].now
    BY <1>0, <2>2 DEF Call
  <2> QED BY <1>0, <2>2, <2>3, FinishStep
<1>6. BoardOf[call[p].key] = Null
  BY <1>0, BoardFree
<1> HIDE DEF d
<1> QED BY <1>0, <1>1, <1>2, <1>4, <1>5, <1>6 DEF Board!Write

\* A DELETE empties its key, and says whether there was something.
LEMMA DeleteErases ==
    ASSUME RefInv, TypeOK', TableConsistent', NEW p \in Procs, DeleteExec(p)
    PROVE  Board!Erase(p)
<1>0. /\ TypeOK /\ TableConsistent /\ UNCHANGED clock /\ call[p].pc = "delete"
      /\ call[p].key \in Keys
      /\ rows' = {r \in rows : r.slug # call[p].key}
  BY DEF RefInv, DeleteExec, TypeOK
<1>1. OpOf[p].st = "delete" /\ OpOf[p].key = call[p].key
  BY <1>0, OpFields DEF StOf
<1>2. BoardOf' = [BoardOf EXCEPT ![call[p].key] = Null]
  <2>1. (BoardOf')[call[p].key] = Null
    BY <1>0, BoardLoses
  <2>2. ASSUME NEW k \in Keys, k # call[p].key PROVE (BoardOf')[k] = BoardOf[k]
    BY <1>0, <2>2, BoardKeeps
  <2> QED BY <1>0, <2>1, <2>2, BoardIs
<1>3. PICK out \in {IF Taken(call[p].key) THEN "done" ELSE "miss", "err"} : Answer(p, out)
  BY DEF DeleteExec
<1>4. Board!Finish(p, out)
  BY <1>0, <1>3, AnswerFinishes
<1>5. BoardOf[call[p].key] # Null <=> Taken(call[p].key)
  BY <1>0, BoardTaken
<1>6. out \in {IF BoardOf[call[p].key] = Null THEN "miss" ELSE "done", "err"}
  BY <1>3, <1>5
<1> QED BY <1>0, <1>1, <1>2, <1>4, <1>6 DEF Board!Erase

\* A purge sweeps what had expired by its stamp.
LEMMA PurgeSweeps ==
    ASSUME RefInv, TypeOK', TableConsistent', NEW p \in Procs, PurgeExec(p)
    PROVE  Board!Sweep(p)
<1>0. /\ TypeOK /\ TableConsistent /\ UNCHANGED clock /\ call[p].pc = "purge"
      /\ call[p].now \in Nat
      /\ rows' = rows \ Purgeable(call[p].now)
  BY DEF RefInv, PurgeExec, TypeOK, Call
<1>1. OpOf[p].st = "purge"
  BY <1>0, OpFields DEF StOf
<1> DEFINE t == call[p].now
<1>2. ASSUME NEW k \in Keys
      PROVE  (BoardOf')[k] = IF BoardOf[k] # Null /\ ~ Board!LiveAt(BoardOf[k], t)
                             THEN Null ELSE BoardOf[k]
  <2>1. CASE ~ Taken(k)
    <3>1. (BoardOf')[k] = Null
      BY <1>0, <2>1, BoardLoses DEF Taken
    <3>2. BoardOf[k] = Null
      BY <2>1, BoardFree
    <3> QED BY <3>1, <3>2
  <2>2. ASSUME NEW r \in rows, r.slug = k
        PROVE  (BoardOf')[k] = IF BoardOf[k] # Null /\ ~ Board!LiveAt(BoardOf[k], t)
                               THEN Null ELSE BoardOf[k]
    <3>1. /\ BoardOf[k] = PasteOf(r) /\ PasteOf(r) # Null
          /\ PasteOf(r).exp = r.expires_at
      BY <1>0, <2>2, BoardHas, PasteIsPaste
    <3>2. r.expires_at \in Nat \cup {Null}
      BY <1>0 DEF TypeOK, Row
    <3>3. r \in Purgeable(t) <=> ~ Board!LiveAt(BoardOf[k], t)
      BY <1>0, <3>1, <3>2 DEF Purgeable, Board!LiveAt
    <3>4. \A q \in rows : q.slug = k => q = r
      BY <1>0, <2>2 DEF TableConsistent, SlugUnique
    <3>5. CASE r \in Purgeable(t)
      <4>1. \A q \in rows' : q.slug # k
        BY <1>0, <3>4, <3>5
      <4> QED BY <3>1, <3>3, <3>5, <4>1, BoardLoses
    <3>6. CASE r \notin Purgeable(t)
      <4>1. \A q \in rows : q.slug = k => q \in rows'
        BY <1>0, <3>4, <3>6
      <4>2. \A q \in rows' : q.slug = k => q \in rows
        BY <1>0
      <4>3. (BoardOf')[k] = BoardOf[k]
        BY <1>0, <4>1, <4>2, BoardKeeps
      <4> QED BY <3>3, <3>6, <4>3
    <3> QED BY <3>5, <3>6
  <2> QED BY <2>1, <2>2 DEF Taken
<1>3. \E out \in {"done", "err"} : Board!Finish(p, out)
  BY <1>0, AnswerFinishes DEF PurgeExec
<1>4. BoardOf' = [k \in Keys |-> IF BoardOf[k] # Null /\ ~ Board!LiveAt(BoardOf[k], t)
                                 THEN Null ELSE BoardOf[k]]
  BY <1>2, BoardIs
<1>5. t \in Board!Span(p)
  BY StampInSpan
<1> HIDE DEF t
<1> QED BY <1>0, <1>1, <1>3, <1>4, <1>5 DEF Board!Sweep

\* A statement that fails without effect.
LEMMA FailureFails ==
    ASSUME RefInv, TypeOK', NEW p \in Procs, StmtFails(p)
    PROVE  Board!Fail(p)
<1>0. TypeOK /\ BoardOf' = BoardOf /\ UNCHANGED clock /\ call[p].pc \notin {"idle", "ret"}
      /\ call[p] \in Call
  BY BoardSame DEF RefInv, StmtFails, TypeOK
<1>1. OpOf[p].st # "idle"
  BY <1>0, OpFields DEF StOf, Call
<1>2. Board!Finish(p, "err")
  BY <1>0, AnswerFinishes DEF StmtFails
<1> QED BY <1>0, <1>1, <1>2 DEF Board!Fail

\* The operation of a goroutine that is not calling.
LEMMA IdleStands == OneOp(IdleCall) = Board!IdleOp
BY DEF OneOp, IdleCall, StOf, Board!IdleOp

\* A method returns.
LEMMA ReturnLeaves ==
    ASSUME RefInv, TypeOK', NEW p \in Procs, Return(p)
    PROVE  Board!Leave(p)
<1>0. TypeOK /\ BoardOf' = BoardOf /\ UNCHANGED clock /\ call[p].pc = "ret"
      /\ call' = [call EXCEPT ![p] = IdleCall]
  BY BoardSame DEF RefInv, Return
<1>1. OpOf[p].st = "done"
  BY <1>0, OpFields DEF StOf
<1>2. call'[p] = IdleCall /\ \A q \in Procs \ {p} : call'[q] = call[q]
  BY <1>0 DEF TypeOK
<1>3. OneOp(call'[p]) = Board!IdleOp
  BY <1>2, IdleStands
<1>4. OpOf' = [OpOf EXCEPT ![p] = Board!IdleOp]
  BY <1>0, <1>2, <1>3, OneChanges
<1> QED BY <1>0, <1>1, <1>4 DEF Board!Leave

\* Time passes; the process restarts.
LEMMA TickPasses == ASSUME Tick PROVE Board!Pass
BY DEF Tick, Board!Pass, BoardOf, Taken, OpOf

LEMMA RestartAbandons == ASSUME Restart PROVE Board!Abandon
<1>1. BoardOf' = BoardOf /\ UNCHANGED clock
  BY BoardSame DEF Restart
<1>2. OpOf' = [p \in Procs |-> OneOp(call'[p])]
  BY DEF OpOf, OneOp
<1>3. \A p \in Procs : call'[p] = IdleCall
  BY DEF Restart
<1>4. OpOf' = [p \in Procs |-> Board!IdleOp]
  BY <1>2, <1>3, IdleStands
<1> QED BY <1>1, <1>4 DEF Board!Abandon

-----------------------------------------------------------------------------
(***************************************************************************)
(* The invariant the steps rely on, and the theorem.                       *)
(***************************************************************************)
\* Only a SELECT that was asked to slide leaves an UPDATE behind.
LEMMA BumpMeantStep == TypeOK /\ BumpMeant /\ [StoreNext]_storeVars => BumpMeant'
<1> SUFFICES ASSUME TypeOK, BumpMeant, [StoreNext]_storeVars PROVE BumpMeant'
  OBVIOUS
<1>1. ASSUME NEW p \in Procs, Invoke(p) PROVE BumpMeant'
  BY <1>1, InvokeStep DEF BumpMeant
<1>2. ASSUME NEW p \in Procs, Statement(p) PROVE BumpMeant'
  BY <1>2, StatementStep DEF BumpMeant
<1>3. ASSUME NEW p \in Procs, Return(p) PROVE BumpMeant'
  <2>1. call'[p].pc = "idle" /\ \A q \in Procs \ {p} : call'[q] = call[q]
    BY <1>3 DEF Return, TypeOK, IdleCall
  <2> QED BY <2>1 DEF BumpMeant
<1>4. CASE Restart
  BY <1>4 DEF Restart, IdleCall, BumpMeant
<1>5. CASE Tick \/ UNCHANGED storeVars
  BY <1>5 DEF Tick, storeVars, BumpMeant
<1> QED BY <1>1, <1>2, <1>3, <1>4, <1>5 DEF StoreNext

\* The invariant holds of the empty table and is kept by every step.
LEMMA RefInvHolds == StoreSpec => []RefInv
<1>1. StoreInit => BumpMeant
  BY DEF StoreInit, IdleCall, BumpMeant
<1>2. StoreSpec => []BumpMeant
  BY <1>1, BumpMeantStep, StoreTypeCorrect, PTL DEF StoreSpec
<1> QED
  BY <1>2, StoreTypeCorrect, StoreTableConsistent, StoreDeadlinesBounded, PTL DEF RefInv

\* The empty table is the empty board.
LEMMA InitBoard == StoreInit => Board!BoardInit
<1> SUFFICES ASSUME StoreInit PROVE Board!BoardInit
  OBVIOUS
<1>1. BoardOf = [k \in Keys |-> Null]
  BY DEF StoreInit, BoardOf, Taken
<1>2. OpOf = [p \in Procs |-> OneOp(call[p])]
  BY DEF OpOf, OneOp
<1>3. OpOf = [p \in Procs |-> Board!IdleOp]
  BY <1>2, IdleStands DEF StoreInit
<1> QED BY <1>1, <1>3 DEF StoreInit, Board!BoardInit

\* Every step of the store is a step of the board, or one it cannot see.
LEMMA BoardStep ==
    RefInv /\ RefInv' /\ [StoreNext]_storeVars => [Board!BoardNext]_(Board!boardVars)
<1> SUFFICES ASSUME RefInv, RefInv', [StoreNext]_storeVars
             PROVE  Board!BoardNext \/ UNCHANGED <<BoardOf, clock, OpOf>>
  BY DEF Board!boardVars
<1>0. TypeOK' /\ TableConsistent'
  BY DEF RefInv
<1>1. ASSUME NEW p \in Procs, Invoke(p) PROVE Board!BoardNext
  BY <1>0, <1>1, InvokeStarts DEF Board!BoardNext
<1>2. ASSUME NEW p \in Procs, Statement(p)
      PROVE  Board!BoardNext \/ UNCHANGED <<BoardOf, clock, OpOf>>
  <2>1. CASE SelectMiss(p)
    BY <1>0, <2>1, SelectMisses DEF Board!BoardNext
  <2>2. CASE SelectHit(p)
    BY <1>0, <2>2, SelectHits DEF Board!BoardNext
  <2>3. CASE GetBump(p)
    <3>1. CASE \E r \in rows : r.id = call[p].id
      BY <1>0, <2>3, <3>1, BumpSlides DEF Board!BoardNext
    <3>2. CASE \A r \in rows : r.id # call[p].id
      BY <1>0, <2>3, <3>2, BumpMisses DEF Board!BoardNext
    <3> QED BY <3>1, <3>2
  <2>4. CASE SetExists(p)
    BY <1>0, <2>4, InsertRefused DEF Board!BoardNext
  <2>5. CASE SetInsert(p)
    BY <1>0, <2>5, InsertWrites DEF Board!BoardNext
  <2>6. CASE DeleteExec(p)
    BY <1>0, <2>6, DeleteErases DEF Board!BoardNext
  <2>7. CASE PurgeExec(p)
    BY <1>0, <2>7, PurgeSweeps DEF Board!BoardNext
  <2>8. CASE StmtFails(p)
    BY <1>0, <2>8, FailureFails DEF Board!BoardNext
  <2> QED BY <1>2, <2>1, <2>2, <2>3, <2>4, <2>5, <2>6, <2>7, <2>8 DEF Statement
<1>3. ASSUME NEW p \in Procs, Return(p) PROVE Board!BoardNext
  BY <1>0, <1>3, ReturnLeaves DEF Board!BoardNext
<1>4. CASE Tick
  BY <1>4, TickPasses DEF Board!BoardNext
<1>5. CASE Restart
  BY <1>5, RestartAbandons DEF Board!BoardNext
<1>6. CASE UNCHANGED storeVars
  BY <1>6, BoardSame DEF storeVars, OpOf
<1> QED BY <1>1, <1>2, <1>3, <1>4, <1>5, <1>6 DEF StoreNext

\* The SQL backends (internal/store/sqlite.go, postgres.go) implement the Store
\* interface: whatever their statements interleave with, however old a stamp,
\* and across failures and restarts, every method is atomic at one instant of
\* its call, but for the later slide of a paste that a Get has read.
THEOREM StoreImplementsBoard == StoreSpec => ImplementsBoard
BY InitBoard, BoardStep, RefInvHolds, PTL DEF StoreSpec, ImplementsBoard, Board!BoardSpec

=============================================================================
