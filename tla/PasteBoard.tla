----------------------------- MODULE PasteBoard -----------------------------
(***************************************************************************)
(* What the Store interface (internal/store/store.go) promises, without    *)
(* tables, ids or statements: a board with at most one paste per key.      *)
(* Every operation takes effect at one instant between its call and its    *)
(* return, judged by the time at some instant of that interval; a read     *)
(* that found a paste may still move that paste's deadline before it       *)
(* returns; an operation that reports an error may or may not have taken   *)
(* effect.                                                                 *)
(***************************************************************************)
EXTENDS Integers

CONSTANTS Procs, Keys, Bodies, Expires, Null

VARIABLES
    board,   \* board[k]: the paste under k, [body, exp], or Null
    clock,   \* the time
    op       \* op[p]: the operation p is executing

boardVars == <<board, clock, op>>

IdleOp == [st |-> "idle", key |-> Null, body |-> Null, bump |-> FALSE,
           since |-> 0, out |-> "none"]

LiveAt(paste, t) == paste.exp = Null \/ paste.exp > t

\* The instants p's operation may be judged by.
Span(p) == op[p].since .. clock

\* The deadlines a paste may get from an operation of p.
Deadlines(p) == {t + e : t \in Span(p), e \in Expires \ {0}}

Finish(p, out) == op' = [op EXCEPT ![p] = [@ EXCEPT !.st = "done", !.out = out]]

BoardInit ==
    /\ board = [k \in Keys |-> Null]
    /\ clock = 0
    /\ op = [p \in Procs |-> IdleOp]

Start(p) ==
    /\ op[p].st = "idle"
    /\ \E st \in {"get", "set", "delete", "purge"}, k \in Keys \cup {Null},
          b \in Bodies \cup {Null}, bump \in BOOLEAN :
          op' = [op EXCEPT ![p] = [st |-> st, key |-> k, body |-> b,
                                   bump |-> bump, since |-> clock, out |-> "none"]]
    /\ UNCHANGED <<board, clock>>

\* Get: absent or expired.
Miss(p) ==
    /\ op[p].st = "get"
    /\ board[op[p].key] # Null =>
          \E t \in Span(p) : ~LiveAt(board[op[p].key], t)
    /\ Finish(p, "miss")
    /\ UNCHANGED <<board, clock>>

\* Get: the paste is there and live.
Hit(p) ==
    /\ op[p].st = "get"
    /\ board[op[p].key] # Null
    /\ \E t \in Span(p) : LiveAt(board[op[p].key], t)
    /\ op' = [op EXCEPT ![p] =
                [@ EXCEPT !.st = "done", !.out = "hit", !.body = board[op[p].key].body]]
    /\ UNCHANGED <<board, clock>>

\* The paste that was read gets a new deadline, if it had one.
Slide(p) ==
    LET k == op[p].key IN
    /\ op[p].st = "done" /\ op[p].out = "hit" /\ op[p].bump
    /\ board[k] # Null
    /\ board[k].body = op[p].body
    /\ board[k].exp # Null
    /\ \E d \in Deadlines(p) : board' = [board EXCEPT ![k].exp = d]
    /\ \E out \in {"hit", "err"} : Finish(p, out)
    /\ UNCHANGED clock

\* Set: a free key takes the paste, whole.
Write(p) ==
    /\ op[p].st = "set"
    /\ board[op[p].key] = Null
    /\ \E d \in Deadlines(p) \cup (IF 0 \in Expires THEN {Null} ELSE {}) :
          board' = [board EXCEPT ![op[p].key] = [body |-> op[p].body, exp |-> d]]
    /\ \E out \in {"ok", "err"} : Finish(p, out)
    /\ UNCHANGED clock

\* Set: the key is in use, perhaps by a paste that has expired.
Refuse(p) ==
    /\ op[p].st = "set"
    /\ board[op[p].key] # Null
    /\ Finish(p, "exists")
    /\ UNCHANGED <<board, clock>>

Erase(p) ==
    /\ op[p].st = "delete"
    /\ board' = [board EXCEPT ![op[p].key] = Null]
    /\ \E out \in {IF board[op[p].key] = Null THEN "miss" ELSE "done", "err"} :
          Finish(p, out)
    /\ UNCHANGED clock

\* PurgeExpired: every paste past its deadline, and no other.
Sweep(p) ==
    /\ op[p].st = "purge"
    /\ \E t \in Span(p) :
          board' = [k \in Keys |-> IF board[k] # Null /\ ~LiveAt(board[k], t)
                                   THEN Null ELSE board[k]]
    /\ \E out \in {"done", "err"} : Finish(p, out)
    /\ UNCHANGED clock

Fail(p) ==
    /\ op[p].st # "idle"
    /\ Finish(p, "err")
    /\ UNCHANGED <<board, clock>>

\* A store that has been closed answers every call with an error.
Shut(p) ==
    /\ op[p].st = "idle"
    /\ op' = [op EXCEPT ![p] = [IdleOp EXCEPT !.st = "done", !.out = "err"]]
    /\ UNCHANGED <<board, clock>>

Leave(p) ==
    /\ op[p].st = "done"
    /\ op' = [op EXCEPT ![p] = IdleOp]
    /\ UNCHANGED <<board, clock>>

Pass ==
    /\ clock' = clock + 1
    /\ UNCHANGED <<board, op>>

\* The process stops; operations that had not returned never do.
Abandon ==
    /\ op' = [p \in Procs |-> IdleOp]
    /\ UNCHANGED <<board, clock>>

BoardNext ==
    \/ \E p \in Procs : \/ Start(p) \/ Miss(p) \/ Hit(p) \/ Slide(p)
                        \/ Write(p) \/ Refuse(p) \/ Erase(p) \/ Sweep(p)
                        \/ Fail(p) \/ Shut(p) \/ Leave(p)
    \/ Pass
    \/ Abandon

BoardSpec == BoardInit /\ [][BoardNext]_boardVars

=============================================================================
