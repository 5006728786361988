----------------------------- MODULE FileStore -----------------------------
(***************************************************************************)
(* The file backend of the paste store, internal/store/file.go: one file   *)
(* per paste in one directory, named by a hash of the key.  Set creates    *)
(* the file and then writes it, Get opens it and then reads to its end,    *)
(* List and Stats read the directory and then look at one file after the   *)
(* other; Delete unlinks the name it is handed, which is the hash, not the *)
(* key.  The steps of different callers interleave, a write may fail half  *)
(* way, and the process may stop at any point.                             *)
(*                                                                         *)
(* The file system is modelled from its use: directory entries name        *)
(* inodes, open files keep their inode when the entry is removed, data     *)
(* arrives in Chunks pieces, and each write stamps the inode with the      *)
(* host's clock, which may be set back.  What a power failure loses is     *)
(* left out.                                                               *)
(***************************************************************************)
EXTENDS Integers, Sequences, FiniteSets

CONSTANTS
    Procs,     \* goroutines that call the store
    Keys,      \* paste keys
    Bodies,    \* paste contents
    Chunks,    \* pieces a body is written in
    Stamps,    \* what the clock can show, in seconds
    ListLimit, \* DefaultListLimit: how many entries a List gives at most
    Null,
    MaxFiles   \* bound on the number of files ever created

ASSUME StampsAssumption == Stamps \subseteq Nat
ASSUME LimitAssumption == ListLimit \in Nat \ {0}
ASSUME ChunksAssumption == Chunks \in Nat \ {0} /\ MaxFiles \in Nat
ASSUME NullAssumption == Null \notin Bodies \cup Nat

VARIABLES
    dir,       \* dir[h]: the inode the name h refers to, 0 for none
    data,      \* data[i]: the contents of inode i: whose piece stands where
    mtime,     \* mtime[i]: when inode i was written last
    call,      \* call[p]: the Store method goroutine p is executing
    acked,     \* history: [handle, ino, body] of every Set that returned nil
    unlinked   \* history: the inodes whose name was removed by a Delete

vars == <<dir, data, mtime, call, acked, unlinked>>

\* filename: hex(sha256(key)), injective and never itself a key.
Handle(k) == <<"sha256", k>>
Handles == {Handle(k) : k \in Keys}

\* isHexHandle
IsHexHandle(name) == name \in Handles

Inodes == 1..Len(data)

\* The file a complete Set of body b leaves.
Whole(b) == [i \in 1..Chunks |-> b]

Call == [pc     : {"idle", "open", "write", "look", "read", "scan", "stat",
                   "remove", "ret"},
         handle : Handles \cup Keys \cup {Null},
         body   : Bodies \cup {Null},
         ino    : Nat,
         pos    : 0..Chunks,
         got    : Seq(Bodies),                   \* Get's result
         seen   : [Handles -> Nat],              \* ReadDir's result
         op     : {"list", "stats", Null},       \* which of the two it is
         todo   : SUBSET Handles,                \* entries without Info yet
         info   : [Handles -> Nat],              \* ModTime of those with one
         listed : SUBSET Handles,                \* List's and Stats's result
         skipped : SUBSET Handles,               \* history: Info failed for these
         out    : {"none", "hit", "miss", "ok", "exists", "done", "err"}]

IdleCall == [pc |-> "idle", handle |-> Null, body |-> Null, ino |-> 0,
             pos |-> 0, got |-> <<>>, seen |-> [h \in Handles |-> 0],
             op |-> Null, todo |-> {}, info |-> [h \in Handles |-> 0],
             listed |-> {}, skipped |-> {}, out |-> "none"]

----------------------------------------------------------------------------
Init ==
    /\ dir = [h \in Handles |-> 0]
    /\ data = <<>> /\ mtime = <<>>
    /\ call = [p \in Procs |-> IdleCall]
    /\ acked = {} /\ unlinked = {}

Become(p, c) == call' = [call EXCEPT ![p] = c]
Answer(p, out) == Become(p, [call[p] EXCEPT !.pc = "ret", !.out = out])
Disk == <<dir, data, mtime>>
History == <<acked, unlinked>>

Begin(p, pc, handle, body) ==
    /\ call[p].pc = "idle"
    /\ Become(p, [IdleCall EXCEPT !.pc = pc, !.handle = handle, !.body = body])
    /\ UNCHANGED <<Disk, History>>

SetCall(p, k, b) == Begin(p, "open", Handle(k), b)
GetCall(p, k) == Begin(p, "look", Handle(k), Null)

ListCall(p, op) ==
    /\ call[p].pc = "idle"
    /\ Become(p, [IdleCall EXCEPT !.pc = "scan", !.op = op])
    /\ UNCHANGED <<Disk, History>>

\* Delete refuses whatever does not look like a hash.
DeleteCall(p, name) ==
    IF IsHexHandle(name) THEN Begin(p, "remove", name, Null)
    ELSE /\ call[p].pc = "idle"
         /\ Become(p, [IdleCall EXCEPT !.pc = "ret", !.handle = name, !.out = "miss"])
         /\ UNCHANGED <<Disk, History>>

(***************************************************************************)
(* Set: OpenFile(O_CREATE|O_EXCL), WriteString, Close.                     *)
(***************************************************************************)
SetExists(p) ==
    /\ call[p].pc = "open"
    /\ dir[call[p].handle] # 0
    /\ Answer(p, "exists")
    /\ UNCHANGED <<Disk, History>>

\* Wrong variant: the file is truncated, not created exclusively.
SetTruncate(p) ==
    LET i == IF dir[call[p].handle] = 0 THEN Len(data) + 1 ELSE dir[call[p].handle]
    IN /\ call[p].pc = "open"
       /\ i <= MaxFiles
       /\ data' = IF i > Len(data) THEN Append(data, <<>>) ELSE [data EXCEPT ![i] = <<>>]
       /\ dir' = [dir EXCEPT ![call[p].handle] = i]
       /\ \E now \in Stamps :
             mtime' = IF i > Len(data) THEN Append(mtime, now) ELSE [mtime EXCEPT ![i] = now]
       /\ Become(p, [call[p] EXCEPT !.pc = "write", !.ino = i])
       /\ UNCHANGED History

SetOpen(p) ==
    /\ call[p].pc = "open"
    /\ dir[call[p].handle] = 0
    /\ Len(data) < MaxFiles
    /\ data' = Append(data, <<>>)
    /\ \E now \in Stamps : mtime' = Append(mtime, now)
    /\ dir' = [dir EXCEPT ![call[p].handle] = Len(data')]
    /\ Become(p, [call[p] EXCEPT !.pc = "write", !.ino = Len(data')])
    /\ UNCHANGED History

\* Wrong variant: one piece too many is written.
SetWriteOver(p) ==
    LET c == call[p]
    IN /\ c.pc = "write" /\ c.pos <= Chunks
       /\ data' = [data EXCEPT ![c.ino] = Append(@, c.body)]
       /\ \E now \in Stamps : mtime' = [mtime EXCEPT ![c.ino] = now]
       /\ Become(p, [c EXCEPT !.pos = @ + 1])
       /\ UNCHANGED <<dir, History>>

\* One piece reaches the file, at the descriptor's offset.
SetWrite(p) ==
    LET c == call[p]
        at == c.pos + 1
    IN /\ c.pc = "write" /\ c.pos < Chunks
       /\ data' = [data EXCEPT ![c.ino] =
                     IF at <= Len(@) THEN [@ EXCEPT ![at] = c.body]
                                     ELSE Append(@, c.body)]
       /\ \E now \in Stamps : mtime' = [mtime EXCEPT ![c.ino] = now]
       /\ Become(p, [c EXCEPT !.pos = at])
       /\ UNCHANGED <<dir, History>>

SetClose(p) ==
    /\ call[p].pc = "write" /\ call[p].pos = Chunks
    /\ Answer(p, "ok")
    /\ acked' = acked \cup {[handle |-> call[p].handle, ino |-> call[p].ino,
                             body |-> call[p].body]}
    /\ UNCHANGED <<Disk, unlinked>>

\* Wrong variant: the error of WriteString ignored.
SetWriteIgnored(p) ==
    /\ call[p].pc = "write" /\ call[p].pos < Chunks
    /\ Answer(p, "ok")
    /\ acked' = acked \cup {[handle |-> call[p].handle, ino |-> call[p].ino,
                             body |-> call[p].body]}
    /\ UNCHANGED <<Disk, unlinked>>

\* The write fails (disk full); the file stays with what it got.
SetWriteFails(p) ==
    /\ call[p].pc = "write" /\ call[p].pos < Chunks
    /\ Answer(p, "err")
    /\ UNCHANGED <<Disk, History>>

(***************************************************************************)
(* Get: ReadFile opens the file and reads until there is no more.          *)
(***************************************************************************)
GetMiss(p) ==
    /\ call[p].pc = "look"
    /\ dir[call[p].handle] = 0
    /\ Answer(p, "miss")
    /\ UNCHANGED <<Disk, History>>

GetOpen(p) ==
    /\ call[p].pc = "look"
    /\ dir[call[p].handle] # 0
    /\ Become(p, [call[p] EXCEPT !.pc = "read", !.ino = dir[call[p].handle]])
    /\ UNCHANGED <<Disk, History>>

GetRead(p) ==
    /\ call[p].pc = "read"
    /\ Become(p, [call[p] EXCEPT !.pc = "ret", !.out = "hit",
                                 !.got = data[call[p].ino]])
    /\ UNCHANGED <<Disk, History>>

(***************************************************************************)
(* List, Stats: ReadDir, then Info of every entry.  One whose Info fails,  *)
(* be it gone or not, is skipped.  List sorts by ModTime and cuts; Stats   *)
(* counts them all.                                                        *)
(***************************************************************************)
ReadDir(p) ==
    LET names == {h \in Handles : dir[h] # 0 /\ IsHexHandle(h)}
    IN /\ call[p].pc = "scan"
       /\ Become(p, [call[p] EXCEPT !.pc = "stat", !.seen = dir, !.todo = names])
       /\ UNCHANGED <<Disk, History>>

Info(p) ==
    /\ call[p].pc = "stat"
    /\ \E h \in call[p].todo :
          /\ dir[h] # 0
          /\ Become(p, [call[p] EXCEPT !.todo = @ \ {h}, !.listed = @ \cup {h},
                                       !.info = [@ EXCEPT ![h] = mtime[dir[h]]]])
    /\ UNCHANGED <<Disk, History>>

\* Wrong variant: the loop stops at an entry without Info.
StopAtLostEntry(todo, h) == {}

\* What the loop does with an entry whose Info fails: go on with the rest.
AfterLostEntry(todo, h) == todo \ {h}

\* The entry is gone, or lstat fails.
InfoFails(p) ==
    /\ call[p].pc = "stat"
    /\ \E h \in call[p].todo :
          Become(p, [call[p] EXCEPT !.todo = AfterLostEntry(@, h), !.skipped = @ \cup {h}])
    /\ UNCHANGED <<Disk, History>>

\* sort.Slice, newest first and not stable, and out[:limit].
Newest(found, info) ==
    {list \in SUBSET found :
        \/ list = found /\ Cardinality(list) <= ListLimit
        \/ /\ Cardinality(list) = ListLimit
           /\ \A g \in list, h \in found \ list : info[g] >= info[h]}

ListDone(p) ==
    /\ call[p].pc = "stat" /\ call[p].todo = {} /\ call[p].op = "list"
    /\ \E list \in Newest(call[p].listed, call[p].info) :
          Become(p, [call[p] EXCEPT !.pc = "ret", !.out = "done", !.listed = list])
    /\ UNCHANGED <<Disk, History>>

StatsDone(p) ==
    /\ call[p].pc = "stat" /\ call[p].todo = {} /\ call[p].op = "stats"
    /\ Answer(p, "done")
    /\ UNCHANGED <<Disk, History>>

(***************************************************************************)
(* Delete: os.Remove of the name.                                          *)
(***************************************************************************)
Remove(p) ==
    LET h == call[p].handle
    IN /\ call[p].pc = "remove"
       /\ dir' = [dir EXCEPT ![h] = 0]
       /\ unlinked' = unlinked \cup ({dir[h]} \ {0})
       /\ Answer(p, IF dir[h] = 0 THEN "miss" ELSE "done")
       /\ UNCHANGED <<data, mtime, acked>>

\* Any other system call fails; nothing has changed.
CallFails(p) ==
    /\ call[p].pc \in {"open", "look", "read", "scan", "remove"}
    /\ Answer(p, "err")
    /\ UNCHANGED <<Disk, History>>

Return(p) ==
    /\ call[p].pc = "ret"
    /\ Become(p, IdleCall)
    /\ UNCHANGED <<Disk, History>>

\* The process stops: its open files are closed, the directory stays.
Crash ==
    /\ call' = [p \in Procs |-> IdleCall]
    /\ UNCHANGED <<Disk, History>>

Next ==
    \/ \E p \in Procs :
          \/ \E k \in Keys, b \in Bodies : SetCall(p, k, b)
          \/ \E k \in Keys : GetCall(p, k)
          \/ \E op \in {"list", "stats"} : ListCall(p, op)
          \/ \E name \in Handles \cup Keys : DeleteCall(p, name)
          \/ SetExists(p) \/ SetOpen(p) \/ SetWrite(p) \/ SetClose(p)
          \/ SetWriteFails(p)
          \/ GetMiss(p) \/ GetOpen(p) \/ GetRead(p)
          \/ ReadDir(p) \/ Info(p) \/ InfoFails(p) \/ ListDone(p) \/ StatsDone(p)
          \/ Remove(p) \/ CallFails(p) \/ Return(p)
    \/ Crash

Spec == Init /\ [][Next]_vars

----------------------------------------------------------------------------
(***************************************************************************)
(* Properties.                                                             *)
(***************************************************************************)
TypeOK ==
    /\ dir \in [Handles -> 0..Len(data)]
    /\ mtime \in Seq(Stamps) /\ Len(mtime) = Len(data)
    /\ data \in Seq(Seq(Bodies)) /\ \A i \in Inodes : Len(data[i]) <= Chunks
    /\ call \in [Procs -> Call] /\ \A p \in Procs : call[p].ino <= Len(data)
    /\ \A a \in acked : a.handle \in Handles /\ a.ino \in Inodes /\ a.body \in Bodies
    /\ unlinked \subseteq Inodes

\* A file has one author: two Sets of one key never write the same file, and
\* no Set writes into a file another one left, whatever Deletes, failed writes
\* and crashes come between (O_EXCL).
OneAuthor ==
    \A i \in Inodes : \E b \in Bodies : \A n \in 1..Len(data[i]) : data[i][n] = b

\* A Set that returned nil left the whole body under its name, and there it
\* stays until a Delete removes the name.
AckedPasteWhole ==
    \A a \in acked :
        /\ data[a.ino] = Whole(a.body)
        /\ a.ino \notin unlinked => dir[a.handle] = a.ino

\* The list of c is full, and what it holds was, when looked at, no older than h.
FullOfNewer(c, h) ==
    /\ c.op = "list" /\ Cardinality(c.listed) = ListLimit
    /\ \A g \in c.listed : c.info[g] >= c.info[h]

\* A List or a Stats that races with Deletes, Sets and failing calls misses no
\* file that was there from beginning to end, but one whose own Info failed; and
\* a List those for which it is full, of files no older.
ListSurvivesDeletes ==
    \A p \in Procs : (call[p].pc = "ret" /\ call[p].out = "done") =>
        \A h \in Handles :
            (call[p].seen[h] # 0 /\ dir[h] = call[p].seen[h]) =>
                h \in call[p].listed \cup call[p].skipped \/ FullOfNewer(call[p], h)

=============================================================================
