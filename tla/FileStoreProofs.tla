--------------------------- MODULE FileStoreProofs ---------------------------
(***************************************************************************)
(* Proofs about FileStore, for any goroutines, keys, bodies, number of     *)
(* pieces, clock, limit of a list and number of files: every interleaving  *)
(* of Set, Get, List, Stats and Delete, failing calls and crashes.         *)
(***************************************************************************)
EXTENDS FileStore, TLAPS

USE ChunksAssumption, NullAssumption, StampsAssumption
    DEF ChunksAssumption, NullAssumption, StampsAssumption

-----------------------------------------------------------------------------
(***************************************************************************)
(* The inductive invariant.                                                *)
(***************************************************************************)
\* A file being written holds what its writer has written so far, nobody has
\* been told of it, and it keeps its name until a Delete removes it.
Writing(c) ==
    /\ Len(data[c.ino]) = c.pos
    /\ \A n \in 1..c.pos : data[c.ino][n] = c.body
    /\ \A a \in acked : a.ino # c.ino
    /\ c.ino \notin unlinked => dir[c.handle] = c.ino

\* A directory entry that a List has seen and that is still the same is one of hs:
\* listed, skipped or about to be looked at.
Covered(c, hs) ==
    \A h \in Handles : (c.seen[h] # 0 /\ dir[h] = c.seen[h]) => h \in hs

\* When the list is made, what it may lack is skipped, or cut by a full list.
Accounted(c) == c.listed \cup c.skipped \cup {h \in Handles : FullOfNewer(c, h)}

\* What a goroutine's call says of the disk is true.
GoodCall(c) ==
    /\ c.ino <= Len(data)
    /\ \A h \in Handles : c.seen[h] <= Len(data)
    /\ c.pc \in {"open", "write", "look", "remove"} => c.handle \in Handles
    /\ c.pc \in {"open", "write"} => c.body \in Bodies
    /\ c.pc = "open" => c.pos = 0
    /\ c.pc \in {"write", "read"} => c.ino # 0
    /\ c.pc = "write" => Writing(c)
    /\ c.pc = "remove" => \A h \in Handles : c.seen[h] = 0
    /\ c.pc = "stat" => Covered(c, c.todo \cup c.listed \cup c.skipped)
    /\ (c.pc = "ret" /\ c.out = "done") => Covered(c, Accounted(c))

\* Two goroutines never write one file.
OneWriter ==
    \A p, q \in Procs :
        (p # q /\ call[p].pc = "write" /\ call[q].pc = "write") => call[p].ino # call[q].ino

FileInv ==
    /\ TypeOK
    /\ \A p \in Procs : GoodCall(call[p])
    /\ OneWriter
    /\ OneAuthor
    /\ AckedPasteWhole

-----------------------------------------------------------------------------
(***************************************************************************)
(* Steps that leave the disk alone.                                        *)
(***************************************************************************)
LEMMA IdleCallType == IdleCall \in Call
BY DEF IdleCall, Call

\* An idle call, and one that is only about to begin, claims nothing.
LEMMA FreshCall ==
    ASSUME TypeOK, NEW c, c.ino = 0, c.pos = 0, c.seen = [h \in Handles |-> 0],
           c.pc \in {"idle", "open", "look", "scan", "remove", "ret"},
           c.pc \in {"open", "look", "remove"} => c.handle \in Handles,
           c.pc = "open" => c.body \in Bodies
    PROVE  GoodCall(c)
<1>1. Len(data) \in Nat
  BY DEF TypeOK
<1> QED BY <1>1 DEF GoodCall, Covered

\* A goroutine goes on to a call that does not write and whose claims hold.
LEMMA LocalStep ==
    ASSUME FileInv, NEW p \in Procs, NEW c \in Call,
           GoodCall(c), c.pc # "write", Become(p, c), UNCHANGED <<Disk, History>>
    PROVE  FileInv'
<1>0. /\ dir' = dir /\ data' = data /\ mtime' = mtime /\ acked' = acked /\ unlinked' = unlinked
      /\ call' = [call EXCEPT ![p] = c] /\ call \in [Procs -> Call]
  BY DEF Disk, History, Become, FileInv, TypeOK
<1>1. /\ call' \in [Procs -> Call] /\ call'[p] = c
      /\ \A q \in Procs \ {p} : call'[q] = call[q]
  BY <1>0
<1>2. \A q \in Procs : GoodCall(call'[q])
  BY <1>1 DEF FileInv
<1>3. (\A q \in Procs : GoodCall(call[q]))'
  BY <1>0, <1>2 DEF GoodCall, Writing, Covered
<1>4. TypeOK'
  BY <1>0, <1>1, <1>2 DEF FileInv, TypeOK, Inodes, GoodCall
<1>5. OneWriter'
  BY <1>0, <1>1 DEF FileInv, OneWriter
<1>6. OneAuthor' /\ AckedPasteWhole'
  BY <1>0 DEF FileInv, OneAuthor, AckedPasteWhole, Inodes
<1> QED BY <1>3, <1>4, <1>5, <1>6 DEF FileInv

\* An answer other than a List's or a Delete's claims nothing.
LEMMA AnswerStep ==
    ASSUME FileInv, NEW p \in Procs, NEW out \in {"miss", "exists", "err"},
           Answer(p, out), UNCHANGED <<Disk, History>>
    PROVE  FileInv'
<1> DEFINE c == [call[p] EXCEPT !.pc = "ret", !.out = out]
<1>1. call[p] \in Call /\ GoodCall(call[p])
  BY DEF FileInv, TypeOK
<1>2. c \in Call /\ c.pc = "ret" /\ c.out = out /\ c.ino = call[p].ino /\ c.seen = call[p].seen
  BY <1>1 DEF Call
<1>3. Become(p, c)
  BY DEF Answer
<1> HIDE DEF c
<1>4. GoodCall(c)
  BY <1>1, <1>2 DEF GoodCall
<1> QED BY <1>2, <1>3, <1>4, LocalStep

\* A call that begins.
LEMMA BeginStep ==
    ASSUME FileInv, NEW p \in Procs, NEW pc \in {"open", "look", "scan", "remove"},
           NEW handle \in Handles \cup {Null}, NEW body \in Bodies \cup {Null},
           pc \in {"open", "look", "remove"} => handle \in Handles,
           pc = "open" => body \in Bodies,
           Begin(p, pc, handle, body)
    PROVE  FileInv'
<1> DEFINE c == [IdleCall EXCEPT !.pc = pc, !.handle = handle, !.body = body]
<1>1. c \in Call
  BY IdleCallType DEF Call
<1>2. /\ c.pc = pc /\ c.handle = handle /\ c.body = body
      /\ c.ino = 0 /\ c.pos = 0 /\ c.seen = [h \in Handles |-> 0]
  BY DEF IdleCall
<1>3. Become(p, c) /\ UNCHANGED <<Disk, History>>
  BY DEF Begin
<1> HIDE DEF c
<1>4. GoodCall(c) /\ c.pc # "write"
  BY <1>2, FreshCall DEF FileInv
<1> QED BY <1>1, <1>3, <1>4, LocalStep

\* Calls, answers without effect, and the steps of Get and List.
LEMMA ReadingSteps ==
    ASSUME FileInv, NEW p \in Procs,
           \/ \E k \in Keys, b \in Bodies : SetCall(p, k, b)
           \/ \E k \in Keys : GetCall(p, k)
           \/ \E op \in {"list", "stats"} : ListCall(p, op)
           \/ \E name \in Handles \cup Keys : DeleteCall(p, name)
           \/ SetExists(p) \/ SetWriteFails(p)
           \/ GetMiss(p) \/ GetOpen(p) \/ GetRead(p)
           \/ ReadDir(p) \/ Info(p) \/ InfoFails(p) \/ ListDone(p) \/ StatsDone(p)
           \/ CallFails(p) \/ Return(p)
    PROVE  FileInv'
<1>0. /\ call[p] \in Call /\ GoodCall(call[p]) /\ Len(data) \in Nat
      /\ dir \in [Handles -> 0..Len(data)] /\ data \in Seq(Seq(Bodies))
  BY DEF FileInv, TypeOK
<1>1. CASE \E k \in Keys, b \in Bodies : SetCall(p, k, b)
  BY <1>1, BeginStep DEF SetCall, Handles
<1>2. CASE \E k \in Keys : GetCall(p, k)
  BY <1>2, BeginStep DEF GetCall, Handles
<1>3. ASSUME NEW op \in {"list", "stats"}, ListCall(p, op) PROVE FileInv'
  <2> DEFINE c == [IdleCall EXCEPT !.pc = "scan", !.op = op]
  <2>1. c \in Call
    BY IdleCallType DEF Call
  <2>2. c.pc = "scan" /\ c.ino = 0 /\ c.pos = 0 /\ c.seen = [h \in Handles |-> 0]
    BY DEF IdleCall
  <2>3. Become(p, c) /\ UNCHANGED <<Disk, History>>
    BY <1>3 DEF ListCall
  <2> HIDE DEF c
  <2>4. GoodCall(c) /\ c.pc # "write"
    BY <2>2, FreshCall DEF FileInv
  <2> QED BY <2>1, <2>3, <2>4, LocalStep
<1>4. ASSUME NEW name \in Handles \cup Keys, DeleteCall(p, name) PROVE FileInv'
  <2>1. CASE name \in Handles
    BY <1>4, <2>1, BeginStep DEF DeleteCall, IsHexHandle
  <2>2. CASE name \notin Handles
    <3> DEFINE c == [IdleCall EXCEPT !.pc = "ret", !.handle = name, !.out = "miss"]
    <3>1. c \in Call
      BY IdleCallType DEF Call
    <3>2. c.pc = "ret" /\ c.ino = 0 /\ c.pos = 0 /\ c.seen = [h \in Handles |-> 0]
      BY DEF IdleCall
    <3>3. Become(p, c) /\ UNCHANGED <<Disk, History>>
      BY <1>4, <2>2 DEF DeleteCall, IsHexHandle
    <3> HIDE DEF c
    <3>4. GoodCall(c) /\ c.pc # "write"
      BY <3>2, FreshCall DEF FileInv
    <3> QED BY <3>1, <3>3, <3>4, LocalStep
  <2> QED BY <2>1, <2>2
<1>5. CASE SetExists(p) \/ SetWriteFails(p) \/ GetMiss(p) \/ CallFails(p)
  BY <1>5, AnswerStep DEF SetExists, SetWriteFails, GetMiss, CallFails
<1>6. CASE GetOpen(p)
  <2> DEFINE c == [call[p] EXCEPT !.pc = "read", !.ino = dir[call[p].handle]]
  <2>1. /\ call[p].handle \in Handles /\ dir[call[p].handle] # 0
        /\ dir[call[p].handle] \in Nat /\ dir[call[p].handle] <= Len(data)
    BY <1>0, <1>6 DEF GetOpen, GoodCall
  <2>2. /\ c \in Call /\ c.pc = "read" /\ c.ino = dir[call[p].handle]
        /\ c.seen = call[p].seen
    BY <1>0, <2>1 DEF Call
  <2>3. Become(p, c) /\ UNCHANGED <<Disk, History>>
    BY <1>6 DEF GetOpen
  <2> HIDE DEF c
  <2>4. GoodCall(c)
    BY <1>0, <2>1, <2>2 DEF GoodCall
  <2> QED BY <2>2, <2>3, <2>4, LocalStep
<1>7. CASE GetRead(p)
  <2> DEFINE c == [call[p] EXCEPT !.pc = "ret", !.out = "hit", !.got = data[call[p].ino]]
  <2>1. call[p].ino \in 1..Len(data)
    BY <1>0, <1>7 DEF GetRead, GoodCall, Call
  <2>2. data[call[p].ino] \in Seq(Bodies)
    BY <1>0, <2>1
  <2>3. c \in Call /\ c.pc = "ret" /\ c.out = "hit" /\ c.ino = call[p].ino /\ c.seen = call[p].seen
    BY <1>0, <2>2 DEF Call
  <2>4. Become(p, c) /\ UNCHANGED <<Disk, History>>
    BY <1>7 DEF GetRead
  <2> HIDE DEF c
  <2>5. GoodCall(c)
    BY <1>0, <2>3 DEF GoodCall
  <2> QED BY <2>3, <2>4, <2>5, LocalStep
<1>8. CASE ReadDir(p)
  <2> DEFINE names == {h \in Handles : dir[h] # 0 /\ IsHexHandle(h)}
             c == [call[p] EXCEPT !.pc = "stat", !.seen = dir, !.todo = names]
  <2>1. dir \in [Handles -> Nat] /\ names \in SUBSET Handles
    BY <1>0
  <2>2. /\ c \in Call /\ c.pc = "stat" /\ c.seen = dir /\ c.todo = names
        /\ c.ino = call[p].ino
    BY <1>0, <2>1 DEF Call
  <2>3. Become(p, c) /\ UNCHANGED <<Disk, History>>
    BY <1>8 DEF ReadDir
  <2>4. \A h \in Handles : dir[h] # 0 => h \in names
    BY DEF IsHexHandle
  <2> HIDE DEF c, names
  <2>5. GoodCall(c)
    BY <1>0, <2>2, <2>4 DEF GoodCall, Covered
  <2> QED BY <2>2, <2>3, <2>5, LocalStep
<1>9. ASSUME Info(p) \/ InfoFails(p) PROVE FileInv'
  <2>1. PICK h \in call[p].todo :
          \/ /\ dir[h] # 0
             /\ Become(p, [call[p] EXCEPT !.todo = @ \ {h}, !.listed = @ \cup {h},
                                          !.info = [@ EXCEPT ![h] = mtime[dir[h]]]])
          \/ Become(p, [call[p] EXCEPT !.todo = @ \ {h}, !.skipped = @ \cup {h}])
    BY <1>9 DEF Info, InfoFails, AfterLostEntry
  <2>2. /\ h \in Handles /\ call[p].todo \in SUBSET Handles /\ call[p].listed \in SUBSET Handles
        /\ call[p].skipped \in SUBSET Handles /\ call[p].info \in [Handles -> Nat]
    BY <1>0, <2>1 DEF Call
  <2>3. /\ Covered(call[p], call[p].todo \cup call[p].listed \cup call[p].skipped)
        /\ call[p].pc = "stat" /\ UNCHANGED <<Disk, History>>
    BY <1>0, <1>9 DEF Info, InfoFails, GoodCall
  <2>4. CASE /\ dir[h] # 0
             /\ Become(p, [call[p] EXCEPT !.todo = @ \ {h}, !.listed = @ \cup {h},
                                          !.info = [@ EXCEPT ![h] = mtime[dir[h]]]])
    <3> DEFINE info == [call[p].info EXCEPT ![h] = mtime[dir[h]]]
               c == [call[p] EXCEPT !.todo = @ \ {h}, !.listed = @ \cup {h}, !.info = info]
    <3>1. Become(p, c)
      BY <2>4
    <3>2. info \in [Handles -> Nat]
      <4>1. dir[h] \in 1..Len(mtime) /\ mtime \in Seq(Stamps)
        BY <1>0, <2>2, <2>4 DEF FileInv, TypeOK
      <4> DEFINE i == dir[h]
      <4>3. i \in 1..Len(mtime)
        BY <4>1
      <4> HIDE DEF i
      <4>4. mtime[i] \in Stamps
        BY <4>1, <4>3
      <4>2. mtime[dir[h]] \in Nat
        BY <4>4 DEF i
      <4> QED BY <2>2, <4>2
    <3> HIDE DEF info
    <3>3. /\ c \in Call /\ c.pc = "stat" /\ c.seen = call[p].seen /\ c.ino = call[p].ino
          /\ c.todo = call[p].todo \ {h} /\ c.listed = call[p].listed \cup {h}
          /\ c.skipped = call[p].skipped
      BY <1>0, <2>2, <2>3, <3>2 DEF Call
    <3> HIDE DEF c
    <3>4. GoodCall(c)
      BY <1>0, <2>3, <3>3 DEF GoodCall, Covered
    <3> QED BY <2>3, <3>1, <3>3, <3>4, LocalStep
  <2>5. CASE Become(p, [call[p] EXCEPT !.todo = @ \ {h}, !.skipped = @ \cup {h}])
    <3> DEFINE c == [call[p] EXCEPT !.todo = @ \ {h}, !.skipped = @ \cup {h}]
    <3>1. Become(p, c)
      BY <2>5
    <3>2. /\ c \in Call /\ c.pc = "stat" /\ c.seen = call[p].seen /\ c.ino = call[p].ino
          /\ c.todo = call[p].todo \ {h} /\ c.listed = call[p].listed
          /\ c.skipped = call[p].skipped \cup {h}
      BY <1>0, <2>2, <2>3 DEF Call
    <3> HIDE DEF c
    <3>3. GoodCall(c)
      BY <1>0, <2>3, <3>2 DEF GoodCall, Covered
    <3> QED BY <2>3, <3>1, <3>2, <3>3, LocalStep
  <2> QED BY <2>1, <2>4, <2>5
<1>10. ASSUME ListDone(p) \/ StatsDone(p) PROVE FileInv'
  <2>1. /\ call[p].todo = {} /\ Covered(call[p], call[p].listed \cup call[p].skipped)
        /\ call[p].listed \in SUBSET Handles /\ UNCHANGED <<Disk, History>>
    BY <1>0, <1>10 DEF ListDone, StatsDone, GoodCall, Call
  <2>2. PICK list \in SUBSET call[p].listed :
          /\ Become(p, [call[p] EXCEPT !.pc = "ret", !.out = "done", !.listed = list])
          /\ \/ list = call[p].listed
             \/ /\ call[p].op = "list" /\ Cardinality(list) = ListLimit
                /\ \A g \in list, h \in call[p].listed \ list : call[p].info[g] >= call[p].info[h]
    <3>1. CASE ListDone(p)
      BY <3>1 DEF ListDone, Newest
    <3>2. CASE StatsDone(p)
      <4>1. [call[p] EXCEPT !.pc = "ret", !.out = "done"]
              = [call[p] EXCEPT !.pc = "ret", !.out = "done", !.listed = call[p].listed]
        BY <1>0 DEF Call
      <4> QED BY <3>2, <4>1 DEF StatsDone, Answer
    <3> QED BY <1>10, <3>1, <3>2
  <2> DEFINE c == [call[p] EXCEPT !.pc = "ret", !.out = "done", !.listed = list]
  <2>3. /\ c \in Call /\ c.pc = "ret" /\ c.seen = call[p].seen /\ c.ino = call[p].ino
        /\ c.listed = list /\ c.skipped = call[p].skipped /\ c.info = call[p].info
        /\ c.op = call[p].op
    BY <1>0, <2>1 DEF Call
  <2>4. Become(p, c)
    BY <2>2
  <2> HIDE DEF c
  <2>5. Covered(c, Accounted(c))
    BY <2>1, <2>2, <2>3 DEF Covered, Accounted, FullOfNewer
  <2>6. GoodCall(c)
    BY <1>0, <2>3, <2>5 DEF GoodCall
  <2> QED BY <2>1, <2>3, <2>4, <2>6, LocalStep
<1>11. CASE Return(p)
  <2>1. IdleCall \in Call /\ GoodCall(IdleCall) /\ IdleCall.pc # "write"
    BY <1>0, IdleCallType DEF IdleCall, GoodCall, Covered
  <2> QED BY <1>11, <2>1, LocalStep DEF Return
<1> QED
  BY <1>1, <1>2, <1>3, <1>4, <1>5, <1>6, <1>7, <1>8, <1>9, <1>10, <1>11

-----------------------------------------------------------------------------
(***************************************************************************)
(* Steps that change the disk, or what is known of it.                     *)
(***************************************************************************)
\* A new inode: nobody has written it, been told of it or seen it.
LEMMA OpenStep == ASSUME FileInv, NEW p \in Procs, SetOpen(p) PROVE FileInv'
<1>0. /\ call[p] \in Call /\ GoodCall(call[p]) /\ call[p].pc = "open" /\ Len(data) \in Nat
      /\ dir \in [Handles -> 0..Len(data)] /\ data \in Seq(Seq(Bodies))
      /\ call \in [Procs -> Call] /\ unlinked \subseteq 1..Len(data)
      /\ \A a \in acked : a.handle \in Handles /\ a.ino \in 1..Len(data) /\ a.body \in Bodies
  BY DEF FileInv, TypeOK, SetOpen, Inodes
<1>1. PICK n \in Nat : n = Len(data) + 1
  BY <1>0
<1>2. PICK h0 \in Handles : h0 = call[p].handle
  BY <1>0 DEF GoodCall
<1>3. PICK b0 \in Bodies : b0 = call[p].body
  BY <1>0 DEF GoodCall
<1>4. PICK c \in Call : c = [call[p] EXCEPT !.pc = "write", !.ino = n]
  BY <1>0 DEF Call
<1>5. /\ c.pc = "write" /\ c.ino = n /\ c.handle = h0 /\ c.body = b0
      /\ c.pos = 0 /\ c.seen = call[p].seen
  BY <1>0, <1>2, <1>3, <1>4 DEF Call, GoodCall
<1>6. /\ data' = Append(data, <<>>) /\ dir' = [dir EXCEPT ![h0] = Len(data')] /\ dir[h0] = 0
      /\ call' = [call EXCEPT ![p] = [call[p] EXCEPT !.pc = "write", !.ino = Len(data')]]
      /\ acked' = acked /\ unlinked' = unlinked
  BY <1>2 DEF SetOpen, History, Become
<1>16. mtime' \in Seq(Stamps) /\ Len(mtime') = n
  <2>1. PICK now \in Stamps : mtime' = Append(mtime, now)
    BY DEF SetOpen
  <2>2. mtime \in Seq(Stamps) /\ Len(mtime) = Len(data)
    BY DEF FileInv, TypeOK
  <2> QED BY <1>1, <2>1, <2>2
<1>7. /\ Len(data') = n /\ data' \in Seq(Seq(Bodies))
      /\ data'[n] = <<>> /\ \A i \in 1..Len(data) : data'[i] = data[i]
  BY <1>0, <1>1, <1>6
<1>8. /\ dir' \in [Handles -> 0..n] /\ dir'[h0] = n
      /\ \A h \in Handles \ {h0} : dir'[h] = dir[h]
  BY <1>0, <1>1, <1>6, <1>7
<1>9. /\ call' \in [Procs -> Call] /\ call'[p] = c
      /\ \A q \in Procs \ {p} : call'[q] = call[q]
  BY <1>0, <1>4, <1>6, <1>7
<1>10. ASSUME NEW q \in Procs \ {p} PROVE GoodCall(call[q])'
  <2>1. PICK d \in Call : d = call[q] /\ d = call'[q] /\ GoodCall(d)
    BY <1>0, <1>9 DEF FileInv
  <2>2. /\ d.ino \in Nat /\ d.ino <= Len(data) /\ d.ino <= n
        /\ \A h \in Handles : d.seen[h] \in Nat /\ d.seen[h] <= Len(data) /\ d.seen[h] <= n
    <3>1. d.ino \in Nat /\ d.seen \in [Handles -> Nat]
      BY <2>1 DEF Call
    <3>2. d.ino <= Len(data) /\ \A h \in Handles : d.seen[h] <= Len(data)
      BY <2>1 DEF GoodCall
    <3> QED BY <1>0, <1>1, <3>1, <3>2
  <2>3. ASSUME NEW hs, Covered(d, hs) PROVE Covered(d, hs)'
    BY <1>1, <1>8, <2>2, <2>3 DEF Covered
  <2>4. ASSUME d.pc = "write" PROVE Writing(d)'
    <3>1. Writing(d) /\ d.ino \in 1..Len(data) /\ d.handle \in Handles
      BY <2>1, <2>2, <2>4 DEF GoodCall
    <3>2. d.ino \notin unlinked => dir'[d.handle] = d.ino
      BY <1>6, <1>8, <3>1 DEF Writing
    <3> QED BY <1>6, <1>7, <3>1, <3>2 DEF Writing
  <2>5. GoodCall(d)'
    BY <1>7, <2>1, <2>2, <2>3, <2>4 DEF GoodCall
  <2> QED BY <2>1, <2>5 DEF GoodCall, Writing, Covered
<1>11. GoodCall(call[p])'
  <2>1. \A h \in Handles : c.seen[h] <= n
    BY <1>0, <1>1, <1>5 DEF GoodCall, Call
  <2>2. Writing(c)'
    BY <1>0, <1>1, <1>5, <1>6, <1>7, <1>8 DEF Writing
  <2>3. GoodCall(c)'
    BY <1>1, <1>5, <1>7, <2>1, <2>2 DEF GoodCall
  <2> QED BY <1>9, <2>3 DEF GoodCall, Writing, Covered
<1>12. TypeOK'
  <2>1. ASSUME NEW i \in 1..n PROVE Len(data'[i]) <= Chunks
    <3>1. CASE i = n
      BY <1>7, <3>1
    <3>2. CASE i \in 1..Len(data)
      BY <1>7, <3>2 DEF FileInv, TypeOK, Inodes
    <3> QED BY <1>0, <1>1, <3>1, <3>2
  <2>2. \A q \in Procs : call'[q].ino <= n
    BY <1>7, <1>10, <1>11 DEF GoodCall
  <2> QED BY <1>0, <1>1, <1>6, <1>7, <1>8, <1>9, <1>16, <2>1, <2>2 DEF TypeOK, Inodes
<1>13. OneWriter'
  <2>1. \A q \in Procs : call[q].ino \in Nat /\ call[q].ino <= Len(data)
    BY <1>0 DEF FileInv, GoodCall, Call
  <2> QED BY <1>1, <1>5, <1>9, <2>1 DEF FileInv, OneWriter
<1>14. OneAuthor'
  <2>1. \A i \in 1..Len(data) : \E b \in Bodies : \A k \in 1..Len(data[i]) : data[i][k] = b
    BY DEF FileInv, OneAuthor, Inodes
  <2>2. ASSUME NEW i \in 1..n
        PROVE  \E b \in Bodies : \A k \in 1..Len(data'[i]) : data'[i][k] = b
    <3>1. CASE i = n
      BY <1>3, <1>7, <3>1
    <3>2. CASE i \in 1..Len(data)
      <4>1. data'[i] = data[i]
        BY <1>7, <3>2
      <4> QED BY <2>1, <3>2, <4>1
    <3> QED BY <1>0, <1>1, <3>1, <3>2
  <2> QED BY <1>7, <2>2 DEF OneAuthor, Inodes
<1>15. AckedPasteWhole'
  <2>1. ASSUME NEW a \in acked
        PROVE  /\ data'[a.ino] = Whole(a.body)
               /\ a.ino \notin unlinked => dir'[a.handle] = a.ino
    <3>1. PICK i \in 1..Len(data) : i = a.ino
      BY <1>0
    <3>2. PICK h \in Handles : h = a.handle
      BY <1>0
    <3>3. data[i] = Whole(a.body) /\ (i \notin unlinked => dir[h] = i)
      BY <3>1, <3>2 DEF FileInv, AckedPasteWhole
    <3>4. data'[i] = data[i] /\ unlinked' = unlinked /\ i # 0
      BY <1>6, <1>7, <3>1
    <3>5. i \notin unlinked => dir'[h] = dir[h]
      BY <1>6, <1>8, <3>2, <3>3, <3>4
    <3>6. data'[i] = Whole(a.body) /\ (i \notin unlinked => dir'[h] = i)
      BY <3>3, <3>4, <3>5
    <3> QED BY <3>1, <3>2, <3>6
  <2> QED BY <1>6, <2>1 DEF AckedPasteWhole, Whole
<1> QED BY <1>10, <1>11, <1>12, <1>13, <1>14, <1>15 DEF FileInv

\* One more piece: only its writer's file changes.
LEMMA WriteStep == ASSUME FileInv, NEW p \in Procs, SetWrite(p) PROVE FileInv'
<1>0. /\ call[p] \in Call /\ GoodCall(call[p]) /\ call[p].pc = "write" /\ call[p].pos < Chunks
      /\ dir \in [Handles -> 0..Len(data)] /\ data \in Seq(Seq(Bodies))
      /\ call \in [Procs -> Call] /\ Len(data) \in Nat
  BY DEF FileInv, TypeOK, SetWrite
<1>1. PICK i0 \in 1..Len(data) : i0 = call[p].ino
  BY <1>0 DEF GoodCall, Call
<1>2. PICK b0 \in Bodies : b0 = call[p].body
  BY <1>0 DEF GoodCall
<1>3. PICK at \in 0..Chunks : at = call[p].pos + 1 /\ at \in 1..Chunks
  BY <1>0 DEF Call
<1>4. PICK c \in Call : c = [call[p] EXCEPT !.pos = at]
  BY <1>0, <1>3 DEF Call
<1>5. /\ c.pc = "write" /\ c.ino = i0 /\ c.handle = call[p].handle /\ c.body = b0
      /\ c.pos = at /\ c.seen = call[p].seen
  BY <1>0, <1>1, <1>2, <1>4 DEF Call
<1>6. PICK s \in Seq(Bodies) : s = data[i0]
  BY <1>0
<1>7. /\ Len(s) = at - 1 /\ \A n \in 1..(at - 1) : s[n] = b0
      /\ \A a \in acked : a.ino # i0
      /\ i0 \notin unlinked => dir[c.handle] = i0
  BY <1>0, <1>1, <1>2, <1>3, <1>5, <1>6 DEF GoodCall, Writing, Call
<1>8. PICK t \in Seq(Bodies) : t = Append(s, b0)
  <2>1. Append(s, b0) \in Seq(Bodies)
    BY <1>2, <1>6
  <2> QED BY <2>1
<1>9. Len(t) = at /\ \A n \in 1..at : t[n] = b0
  BY <1>3, <1>6, <1>7, <1>8
<1>10. /\ data' = [data EXCEPT ![i0] = t] /\ dir' = dir /\ acked' = acked
       /\ unlinked' = unlinked /\ call' = [call EXCEPT ![p] = c]
  <2>1. ~ (at <= Len(s))
    BY <1>7
  <2> QED BY <1>1, <1>2, <1>3, <1>4, <1>6, <1>8, <2>1 DEF SetWrite, History, Become
<1>11. /\ data' \in Seq(Seq(Bodies)) /\ Len(data') = Len(data) /\ data'[i0] = t
       /\ \A i \in 1..Len(data) : i # i0 => data'[i] = data[i]
  BY <1>0, <1>10
<1>12. /\ call' \in [Procs -> Call] /\ call'[p] = c
       /\ \A q \in Procs \ {p} : call'[q] = call[q]
  BY <1>0, <1>10
<1>13. ASSUME NEW q \in Procs \ {p} PROVE GoodCall(call[q])'
  <2>1. PICK d \in Call : d = call[q] /\ d = call'[q] /\ GoodCall(d)
    BY <1>0, <1>12 DEF FileInv
  <2>2. ASSUME d.pc = "write" PROVE Writing(d)'
    <3>1. Writing(d) /\ d.ino \in 1..Len(data)
      <4>1. d.ino \in Nat
        BY <2>1 DEF Call
      <4> QED BY <1>0, <2>1, <2>2, <4>1 DEF GoodCall
    <3>2. d.ino # i0
      BY <1>0, <1>1, <2>1, <2>2 DEF FileInv, OneWriter
    <3> QED BY <1>10, <1>11, <3>1, <3>2 DEF Writing
  <2>3. GoodCall(d)'
    BY <1>10, <1>11, <2>1, <2>2 DEF GoodCall, Covered
  <2> QED BY <2>1, <2>3 DEF GoodCall, Writing, Covered
<1>14. GoodCall(call[p])'
  <2>1. Writing(c)'
    BY <1>5, <1>7, <1>9, <1>10, <1>11 DEF Writing
  <2>2. GoodCall(c)'
    BY <1>0, <1>1, <1>2, <1>5, <1>11, <2>1 DEF GoodCall
  <2> QED BY <1>12, <2>2 DEF GoodCall, Writing, Covered
<1>15. TypeOK'
  <2>1. ASSUME NEW i \in 1..Len(data) PROVE Len(data'[i]) <= Chunks
    <3>1. CASE i = i0
      BY <1>3, <1>9, <1>11, <3>1
    <3>2. CASE i # i0
      BY <1>11, <3>2 DEF FileInv, TypeOK, Inodes
    <3> QED BY <3>1, <3>2
  <2>2. \A q \in Procs : call'[q].ino <= Len(data')
    BY <1>13, <1>14 DEF GoodCall
  <2>3. mtime' \in Seq(Stamps) /\ Len(mtime') = Len(data')
    <3>1. PICK now \in Stamps : mtime' = [mtime EXCEPT ![i0] = now]
      BY <1>1 DEF SetWrite
    <3>2. mtime \in Seq(Stamps) /\ Len(mtime) = Len(data)
      BY DEF FileInv, TypeOK
    <3> QED BY <1>11, <3>1, <3>2
  <2> QED BY <1>0, <1>10, <1>11, <1>12, <2>1, <2>2, <2>3 DEF FileInv, TypeOK, Inodes
<1>16. OneWriter'
  <2>1. ASSUME NEW q \in Procs \ {p}, call[q].pc = "write" PROVE call[q].ino # i0
    BY <1>0, <1>1, <2>1 DEF FileInv, OneWriter
  <2>2. ASSUME NEW q \in Procs \ {p}, NEW r \in Procs \ {p}, q # r,
               call[q].pc = "write", call[r].pc = "write"
        PROVE  call[q].ino # call[r].ino
    BY <2>2 DEF FileInv, OneWriter
  <2> QED BY <1>5, <1>12, <2>1, <2>2 DEF OneWriter
<1>17. OneAuthor'
  <2>1. \A i \in 1..Len(data) : \E b \in Bodies : \A k \in 1..Len(data[i]) : data[i][k] = b
    BY DEF FileInv, OneAuthor, Inodes
  <2>2. ASSUME NEW i \in 1..Len(data)
        PROVE  \E b \in Bodies : \A k \in 1..Len(data'[i]) : data'[i][k] = b
    <3>1. CASE i = i0
      BY <1>2, <1>9, <1>11, <3>1
    <3>2. CASE i # i0
      <4>1. data'[i] = data[i]
        BY <1>11, <3>2
      <4> QED BY <2>1, <4>1
    <3> QED BY <3>1, <3>2
  <2> QED BY <1>11, <2>2 DEF OneAuthor, Inodes
<1>18. AckedPasteWhole'
  <2>1. ASSUME NEW a \in acked
        PROVE  /\ data'[a.ino] = Whole(a.body)
               /\ a.ino \notin unlinked => dir[a.handle] = a.ino
    <3>1. data[a.ino] = Whole(a.body) /\ (a.ino \notin unlinked => dir[a.handle] = a.ino)
      BY DEF FileInv, AckedPasteWhole
    <3>2. a.ino \in 1..Len(data) /\ a.ino # i0
      BY <1>7 DEF FileInv, TypeOK, Inodes
    <3>3. data'[a.ino] = data[a.ino]
      BY <1>11, <3>2
    <3> QED BY <3>1, <3>3
  <2> QED BY <1>10, <2>1 DEF AckedPasteWhole, Whole
<1> QED BY <1>13, <1>14, <1>15, <1>16, <1>17, <1>18 DEF FileInv

\* What an acknowledged Set has written is whole.
LEMMA CloseStep == ASSUME FileInv, NEW p \in Procs, SetClose(p) PROVE FileInv'
<1>0. /\ call[p] \in Call /\ GoodCall(call[p]) /\ call[p].pc = "write" /\ call[p].pos = Chunks
      /\ data \in Seq(Seq(Bodies)) /\ call \in [Procs -> Call] /\ Len(data) \in Nat
  BY DEF FileInv, TypeOK, SetClose
<1>1. PICK i0 \in 1..Len(data) : i0 = call[p].ino
  BY <1>0 DEF GoodCall, Call
<1>2. PICK b0 \in Bodies : b0 = call[p].body
  BY <1>0 DEF GoodCall
<1>3. PICK h0 \in Handles : h0 = call[p].handle
  BY <1>0 DEF GoodCall
<1>4. PICK c \in Call : c = [call[p] EXCEPT !.pc = "ret", !.out = "ok"]
  BY <1>0 DEF Call
<1>5. c.pc = "ret" /\ c.out = "ok" /\ c.ino = i0 /\ c.seen = call[p].seen
  BY <1>0, <1>1, <1>4 DEF Call
<1>6. PICK new \in [handle : Handles, ino : 1..Len(data), body : Bodies] :
         new = [handle |-> h0, ino |-> i0, body |-> b0]
  BY <1>1, <1>2, <1>3
<1>7. /\ dir' = dir /\ data' = data /\ mtime' = mtime /\ unlinked' = unlinked
      /\ acked' = acked \cup {new} /\ call' = [call EXCEPT ![p] = c]
  BY <1>1, <1>2, <1>3, <1>4, <1>6 DEF SetClose, Disk, Answer, Become
<1>8. data[i0] = Whole(b0)
  <2>1. data[i0] \in Seq(Bodies)
    BY <1>0
  <2>2. Len(data[i0]) = Chunks /\ \A n \in 1..Chunks : data[i0][n] = b0
    BY <1>0, <1>1, <1>2 DEF GoodCall, Writing
  <2> QED BY <2>1, <2>2 DEF Whole
<1>9. i0 \notin unlinked => dir[h0] = i0
  BY <1>0, <1>1, <1>3 DEF GoodCall, Writing
<1>10. /\ call' \in [Procs -> Call] /\ call'[p] = c
       /\ \A q \in Procs \ {p} : call'[q] = call[q]
  BY <1>0, <1>7
<1>11. ASSUME NEW q \in Procs \ {p} PROVE GoodCall(call[q])'
  <2>1. PICK d \in Call : d = call[q] /\ d = call'[q] /\ GoodCall(d)
    BY <1>0, <1>10 DEF FileInv
  <2>2. ASSUME d.pc = "write" PROVE Writing(d)'
    <3>1. d.ino # i0
      BY <1>0, <1>1, <2>1, <2>2 DEF FileInv, OneWriter
    <3>2. Writing(d) /\ new.ino = i0
      BY <1>6, <2>1, <2>2 DEF GoodCall
    <3> QED BY <1>7, <3>1, <3>2 DEF Writing
  <2>3. GoodCall(d)'
    BY <1>7, <2>1, <2>2 DEF GoodCall, Covered
  <2> QED BY <2>1, <2>3 DEF GoodCall, Writing, Covered
<1>12. GoodCall(call[p])'
  <2>1. GoodCall(c)'
    BY <1>0, <1>1, <1>5, <1>7 DEF GoodCall
  <2> QED BY <1>10, <2>1 DEF GoodCall, Writing, Covered
<1>13. TypeOK'
  <2>1. \A q \in Procs : call'[q].ino <= Len(data')
    BY <1>11, <1>12 DEF GoodCall
  <2>2. \A a \in acked' : a.handle \in Handles /\ a.ino \in 1..Len(data) /\ a.body \in Bodies
    BY <1>6, <1>7 DEF FileInv, TypeOK, Inodes
  <2> QED BY <1>7, <1>10, <2>1, <2>2 DEF FileInv, TypeOK, Inodes
<1>14. OneWriter'
  BY <1>5, <1>10 DEF FileInv, OneWriter
<1>15. OneAuthor'
  BY <1>7 DEF FileInv, OneAuthor, Inodes
<1>16. AckedPasteWhole'
  <2>1. ASSUME NEW a \in acked'
        PROVE  data[a.ino] = Whole(a.body) /\ (a.ino \notin unlinked => dir[a.handle] = a.ino)
    <3>1. CASE a \in acked
      BY <3>1 DEF FileInv, AckedPasteWhole
    <3>2. CASE a = new
      BY <1>6, <1>8, <1>9, <3>2
    <3> QED BY <1>7, <3>1, <3>2
  <2> QED BY <1>7, <2>1 DEF AckedPasteWhole, Whole
<1> QED BY <1>11, <1>12, <1>13, <1>14, <1>15, <1>16 DEF FileInv

\* A name goes, and if it named a file, that file is known to be unlinked.
LEMMA RemoveStep == ASSUME FileInv, NEW p \in Procs, Remove(p) PROVE FileInv'
<1>0. /\ call[p] \in Call /\ GoodCall(call[p]) /\ call[p].pc = "remove"
      /\ data \in Seq(Seq(Bodies)) /\ call \in [Procs -> Call] /\ Len(data) \in Nat
      /\ dir \in [Handles -> 0..Len(data)]
  BY DEF FileInv, TypeOK, Remove
<1>1. PICK h0 \in Handles : h0 = call[p].handle
  BY <1>0 DEF GoodCall
<1>2. PICK out \in {"miss", "done"} : out = IF dir[h0] = 0 THEN "miss" ELSE "done"
  OBVIOUS
<1>3. PICK c \in Call : c = [call[p] EXCEPT !.pc = "ret", !.out = out]
  BY <1>0, <1>2 DEF Call
<1>4. /\ c.pc = "ret" /\ c.ino = call[p].ino /\ c.seen = call[p].seen
      /\ \A h \in Handles : c.seen[h] = 0
  BY <1>0, <1>3 DEF Call, GoodCall
<1>5. /\ dir' = [dir EXCEPT ![h0] = 0] /\ data' = data /\ mtime' = mtime /\ acked' = acked
      /\ unlinked' = unlinked \cup ({dir[h0]} \ {0})
      /\ call' = [call EXCEPT ![p] = c]
  BY <1>1, <1>2, <1>3 DEF Remove, Answer, Become
<1>6. /\ dir' \in [Handles -> 0..Len(data)] /\ dir'[h0] = 0
      /\ \A h \in Handles \ {h0} : dir'[h] = dir[h]
  BY <1>0, <1>5
<1>7. ASSUME NEW i \in 1..Len(data), NEW h \in Handles, i \notin unlinked => dir[h] = i
      PROVE  i \notin unlinked' => dir'[h] = i
  <2>1. CASE h = h0
    BY <1>5, <1>7, <2>1
  <2>2. CASE h # h0
    BY <1>5, <1>6, <1>7, <2>2
  <2> QED BY <2>1, <2>2
<1>8. /\ call' \in [Procs -> Call] /\ call'[p] = c
      /\ \A q \in Procs \ {p} : call'[q] = call[q]
  BY <1>0, <1>5
<1>9. ASSUME NEW q \in Procs \ {p} PROVE GoodCall(call[q])'
  <2>1. PICK d \in Call : d = call[q] /\ d = call'[q] /\ GoodCall(d)
    BY <1>0, <1>8 DEF FileInv
  <2>2. ASSUME d.pc = "write" PROVE Writing(d)'
    <3>1. d.ino \in Nat
      BY <2>1 DEF Call
    <3>2. Writing(d) /\ d.ino \in 1..Len(data) /\ d.handle \in Handles
      BY <1>0, <2>1, <2>2, <3>1 DEF GoodCall
    <3>3. d.ino \notin unlinked' => dir'[d.handle] = d.ino
      BY <1>7, <3>2 DEF Writing
    <3> QED BY <1>5, <3>2, <3>3 DEF Writing
  <2>3. ASSUME NEW hs, Covered(d, hs) PROVE Covered(d, hs)'
    BY <1>6, <2>3 DEF Covered
  <2>4. GoodCall(d)'
    BY <1>5, <2>1, <2>2, <2>3 DEF GoodCall
  <2> QED BY <2>1, <2>4 DEF GoodCall, Writing, Covered
<1>10. GoodCall(call[p])'
  <2>1. GoodCall(c)'
    BY <1>0, <1>4, <1>5 DEF GoodCall, Covered
  <2> QED BY <1>8, <2>1 DEF GoodCall, Writing, Covered
<1>11. TypeOK'
  <2>1. \A q \in Procs : call'[q].ino <= Len(data')
    BY <1>9, <1>10 DEF GoodCall
  <2>2. dir[h0] \in 0..Len(data)
    BY <1>0
  <2>3. unlinked' \subseteq 1..Len(data)
    <3>1. unlinked \subseteq 1..Len(data)
      BY DEF FileInv, TypeOK, Inodes
    <3>2. dir[h0] # 0 => dir[h0] \in 1..Len(data)
      BY <1>0, <2>2
    <3>3. ASSUME NEW i \in unlinked' PROVE i \in 1..Len(data)
      BY <1>5, <3>1, <3>2
    <3> QED BY <3>3
  <2> QED BY <1>5, <1>6, <1>8, <2>1, <2>3 DEF FileInv, TypeOK, Inodes
<1>12. OneWriter'
  BY <1>4, <1>8 DEF FileInv, OneWriter
<1>13. OneAuthor'
  BY <1>5 DEF FileInv, OneAuthor, Inodes
<1>14. AckedPasteWhole'
  <2>1. ASSUME NEW a \in acked
        PROVE  /\ data[a.ino] = Whole(a.body)
               /\ a.ino \notin unlinked' => dir'[a.handle] = a.ino
    <3>1. a.ino \in 1..Len(data) /\ a.handle \in Handles
      BY DEF FileInv, TypeOK, Inodes
    <3>2. data[a.ino] = Whole(a.body) /\ (a.ino \notin unlinked => dir[a.handle] = a.ino)
      BY DEF FileInv, AckedPasteWhole
    <3> QED BY <1>7, <3>1, <3>2
  <2> QED BY <1>5, <2>1 DEF AckedPasteWhole, Whole
<1> QED BY <1>9, <1>10, <1>11, <1>12, <1>13, <1>14 DEF FileInv

\* The process stops: every call is gone, the disk stays.
LEMMA CrashStep == ASSUME FileInv, Crash PROVE FileInv'
<1>0. /\ dir' = dir /\ data' = data /\ mtime' = mtime /\ acked' = acked /\ unlinked' = unlinked
      /\ call' = [q \in Procs |-> IdleCall] /\ Len(data) \in Nat
  BY DEF Crash, Disk, History, FileInv, TypeOK
<1>1. /\ IdleCall.pc = "idle" /\ IdleCall.ino = 0 /\ IdleCall.pos = 0
      /\ IdleCall.seen = [h \in Handles |-> 0]
  BY DEF IdleCall
<1>2. GoodCall(IdleCall)
  BY <1>1, FreshCall DEF FileInv
<1>3. (\A q \in Procs : GoodCall(call[q]))'
  BY <1>0, <1>1, <1>2 DEF GoodCall
<1>4. TypeOK' /\ OneWriter'
  BY <1>0, <1>1, IdleCallType DEF FileInv, TypeOK, Inodes, OneWriter
<1>5. OneAuthor' /\ AckedPasteWhole'
  BY <1>0 DEF FileInv, OneAuthor, AckedPasteWhole, Inodes
<1> QED BY <1>3, <1>4, <1>5 DEF FileInv

-----------------------------------------------------------------------------
(***************************************************************************)
(* The theorems.                                                           *)
(***************************************************************************)
\* FileInv is inductive.
THEOREM FileInvariant == Spec => []FileInv
<1>1. Init => FileInv
  <2> SUFFICES ASSUME Init PROVE FileInv
    OBVIOUS
  <2>1. /\ Len(data) = 0 /\ mtime = <<>> /\ data \in Seq(Seq(Bodies)) /\ data = <<>>
        /\ call = [q \in Procs |-> IdleCall]
    BY DEF Init
  <2>2. TypeOK
    <3>1. dir \in [Handles -> 0..Len(data)]
      BY <2>1 DEF Init
    <3>2. call \in [Procs -> Call] /\ \A p \in Procs : call[p].ino = 0
      BY <2>1, IdleCallType DEF IdleCall
    <3>3. (\A i \in Inodes : Len(data[i]) <= Chunks) /\ acked = {} /\ unlinked = {}
      BY <2>1 DEF Init, Inodes
    <3> QED BY <2>1, <3>1, <3>2, <3>3 DEF TypeOK
  <2>3. /\ IdleCall.pc = "idle" /\ IdleCall.ino = 0 /\ IdleCall.pos = 0
        /\ IdleCall.seen = [h \in Handles |-> 0]
    BY DEF IdleCall
  <2>4. GoodCall(IdleCall)
    BY <2>2, <2>3, FreshCall
  <2>5. (\A q \in Procs : GoodCall(call[q])) /\ OneWriter
    BY <2>1, <2>3, <2>4 DEF OneWriter
  <2>6. OneAuthor /\ AckedPasteWhole
    BY <2>1 DEF Init, OneAuthor, AckedPasteWhole, Inodes
  <2> QED BY <2>2, <2>5, <2>6 DEF FileInv
<1>2. FileInv /\ [Next]_vars => FileInv'
  <2> SUFFICES ASSUME FileInv, [Next]_vars PROVE FileInv'
    OBVIOUS
  <2>1. CASE UNCHANGED vars
    BY <2>1 DEF vars, FileInv, TypeOK, GoodCall, Writing, Covered, OneWriter, OneAuthor,
                AckedPasteWhole, Inodes, Accounted, FullOfNewer
  <2>2. CASE Next
    BY <2>2, ReadingSteps, OpenStep, WriteStep, CloseStep, RemoveStep, CrashStep DEF Next
  <2> QED BY <2>1, <2>2
<1> QED BY <1>1, <1>2, PTL DEF Spec

\* The directory and the inodes are well formed and no file outgrows its body.
THEOREM FileTypeCorrect == Spec => []TypeOK
BY FileInvariant, PTL DEF FileInv

\* O_EXCL: no file ever has two authors, whatever Deletes, failed writes and
\* crashes come between.
THEOREM FileOneAuthor == Spec => []OneAuthor
BY FileInvariant, PTL DEF FileInv

\* What Set acknowledged is whole and keeps its name until a Delete.
THEOREM FileAckedPasteWhole == Spec => []AckedPasteWhole
BY FileInvariant, PTL DEF FileInv

\* A List or Stats that has come to its end has every file that was there
\* throughout, but those whose Info failed and those a full List cuts for files no
\* older: a name that was removed and given again leads to another inode.
THEOREM FileListSurvivesDeletes == Spec => []ListSurvivesDeletes
<1>1. FileInv => ListSurvivesDeletes
  BY DEF FileInv, GoodCall, Covered, Accounted, ListSurvivesDeletes
<1> QED BY <1>1, FileInvariant, PTL

=============================================================================
