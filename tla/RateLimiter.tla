---------------------------- MODULE RateLimiter ----------------------------
(***************************************************************************)
(* The per-client fixed-window limiter of internal/handler/ratelimit.go:   *)
(* the middleware in front of every request (allow), the byte budget of    *)
(* POST /api/pastes (chargeBytes), the window they share, and the sweep    *)
(* that drops expired windows when the map has grown.                      *)
(*                                                                         *)
(* Callers read time.Now() and only then queue for the mutex, so a stamp   *)
(* may be old, and older than that of a caller that went first, when it is *)
(* used; MaxStale bounds by how much.  The limiter lives as long as the    *)
(* process does.                                                           *)
(***************************************************************************)
EXTENDS Integers, FiniteSets

CONSTANTS
    Procs,      \* goroutines serving requests
    IPs,        \* clients
    MaxRequests, \* rateLimits.totalRequests, 0 disables
    MaxBytes,   \* rateLimits.maxBytes, 0 disables
    Window,     \* rateLimits.every, in ticks, 0 disables
    Sizes,      \* paste sizes
    SweepAt,    \* number of windows at which the sweep starts (1024)
    Null,
    MaxStale,   \* bound: how long a caller waits for the mutex
    MaxClock    \* bound on the clock

ASSUME LimitsAssumption ==
    /\ MaxRequests \in Nat /\ MaxBytes \in Nat /\ Window \in Nat
    /\ Sizes \subseteq Nat /\ SweepAt \in Nat
ASSUME ClockAssumption == MaxStale \in Nat /\ MaxClock \in Nat

VARIABLES
    windows,   \* windows[ip], or Null when the map has none
    clock,     \* time.Now()
    req,       \* req[p]: what goroutine p is doing
    granted,   \* history: granted[ip][t], requests let through up to time t
    charged    \* history: charged[ip][t], bytes accepted up to time t

vars == <<windows, clock, req, granted, charged>>

WindowRec == [count : Nat, bytes : Nat, reset : Nat]

Req == [pc : {"idle", "allow", "serve", "charge", "refused"},
        ip : IPs \cup {Null}, size : Nat, now : Nat]

IdleReq == [pc |-> "idle", ip |-> Null, size |-> 0, now |-> 0]

ASSUME NullAssumption == Null \notin IPs /\ Null \notin WindowRec

----------------------------------------------------------------------------
(***************************************************************************)
(* The critical sections.                                                  *)
(***************************************************************************)
\* Wrong variant: a window ends one tick early.
ExpiredEarly(win, now) == now >= win.reset

Expired(win, now) == now > win.reset

\* Wrong variant: the window ends before it begins.
FreshEnded(now) == [count |-> 0, bytes |-> 0, reset |-> now - Window]

Fresh(now) == [count |-> 0, bytes |-> 0, reset |-> now + Window]

\* Wrong variant: windows are dropped by their beginning, not by their end.
SweepBegun(w, now) ==
    IF Cardinality({ip \in IPs : w[ip] # Null}) < SweepAt THEN w
    ELSE [ip \in IPs |-> IF w[ip] # Null /\ now > w[ip].reset - Window
                         THEN Null ELSE w[ip]]

\* sweep: drop the expired windows, once there are many.
Sweep(w, now) ==
    IF Cardinality({ip \in IPs : w[ip] # Null}) < SweepAt THEN w
    ELSE [ip \in IPs |-> IF w[ip] # Null /\ Expired(w[ip], now)
                         THEN Null ELSE w[ip]]

\* getWindow: the map once ip has a window that is current at now.
WithWindow(ip, now) ==
    IF windows[ip] = Null \/ Expired(windows[ip], now)
    THEN Sweep([windows EXCEPT ![ip] = Fresh(now)], now)
    ELSE windows

\* Wrong variant: one request too many.
HasRequestOver(win) == win.count <= MaxRequests

\* allow
HasRequest(win) == win.count < MaxRequests

\* Wrong variant: the budget cannot be used up.
HasBytesUnder(win, n) == win.bytes + n < MaxBytes

\* chargeBytes
HasBytes(win, n) == win.bytes + n <= MaxBytes

\* A history with n more at the present time.
More(h, n) == [t \in 0..MaxClock |-> IF t < clock THEN h[t] ELSE h[t] + n]

----------------------------------------------------------------------------
Init ==
    /\ windows = [ip \in IPs |-> Null]
    /\ clock = 0
    /\ req = [p \in Procs |-> IdleReq]
    /\ granted = [ip \in IPs |-> [t \in 0..MaxClock |-> 0]]
    /\ charged = [ip \in IPs |-> [t \in 0..MaxClock |-> 0]]

\* The middleware reads the time.  A disabled limit lets everyone pass.
Arrive(p, ip) ==
    /\ req[p].pc = "idle"
    /\ req' = [req EXCEPT ![p] =
                 [pc |-> IF MaxRequests > 0 /\ Window > 0 THEN "allow" ELSE "serve",
                  ip |-> ip, size |-> 0, now |-> clock]]
    /\ UNCHANGED <<windows, clock, granted, charged>>

Allow(p) ==
    LET ip == req[p].ip
        w  == WithWindow(ip, req[p].now)
    IN /\ req[p].pc = "allow"
       /\ HasRequest(w[ip])
       /\ windows' = [w EXCEPT ![ip].count = @ + 1]
       /\ granted' = [granted EXCEPT ![ip] = More(@, 1)]
       /\ req' = [req EXCEPT ![p].pc = "serve"]
       /\ UNCHANGED <<clock, charged>>

Refuse(p) ==
    LET ip == req[p].ip
        w  == WithWindow(ip, req[p].now)
    IN /\ req[p].pc = "allow"
       /\ ~HasRequest(w[ip])
       /\ windows' = w
       /\ req' = [req EXCEPT ![p].pc = "refused"]
       /\ UNCHANGED <<clock, granted, charged>>

\* handlePost has read a body of n bytes and asks chargeBytes.
Post(p, n) ==
    /\ req[p].pc = "serve"
    /\ MaxBytes > 0 /\ Window > 0
    /\ req' = [req EXCEPT ![p].pc = "charge", ![p].size = n, ![p].now = clock]
    /\ UNCHANGED <<windows, clock, granted, charged>>

Charge(p) ==
    LET ip == req[p].ip
        w  == WithWindow(ip, req[p].now)
    IN /\ req[p].pc = "charge"
       /\ HasBytes(w[ip], req[p].size)
       /\ windows' = [w EXCEPT ![ip].bytes = @ + req[p].size]
       /\ charged' = [charged EXCEPT ![ip] = More(@, req[p].size)]
       /\ req' = [req EXCEPT ![p] = IdleReq]
       /\ UNCHANGED <<clock, granted>>

Overcharge(p) ==
    LET ip == req[p].ip
        w  == WithWindow(ip, req[p].now)
    IN /\ req[p].pc = "charge"
       /\ ~HasBytes(w[ip], req[p].size)
       /\ windows' = w
       /\ req' = [req EXCEPT ![p].pc = "refused"]
       /\ UNCHANGED <<clock, granted, charged>>

\* The 429 is written, or a request that charges nothing is served.
Done(p) ==
    /\ req[p].pc \in {"serve", "refused"}
    /\ req' = [req EXCEPT ![p] = IdleReq]
    /\ UNCHANGED <<windows, clock, granted, charged>>

Waiting(p) == req[p].pc \in {"allow", "charge"}

Tick ==
    /\ clock < MaxClock
    /\ \A p \in Procs : Waiting(p) => clock < req[p].now + MaxStale
    /\ clock' = clock + 1
    /\ UNCHANGED <<windows, req, granted, charged>>

Next ==
    \/ \E p \in Procs :
          \/ \E ip \in IPs : Arrive(p, ip)
          \/ Allow(p) \/ Refuse(p)
          \/ \E n \in Sizes : Post(p, n)
          \/ Charge(p) \/ Overcharge(p)
          \/ Done(p)
    \/ Tick

Spec == Init /\ [][Next]_vars

----------------------------------------------------------------------------
(***************************************************************************)
(* Properties.                                                             *)
(***************************************************************************)
TypeOK ==
    /\ windows \in [IPs -> WindowRec \cup {Null}]
    /\ clock \in 0..MaxClock
    /\ req \in [Procs -> Req]
    /\ \A p \in Procs : req[p].pc # "idle" => req[p].ip \in IPs
    /\ granted \in [IPs -> [0..MaxClock -> Nat]]
    /\ charged \in [IPs -> [0..MaxClock -> Nat]]

\* No window is over either budget, and none runs past one Window from now.
WithinBudget ==
    \A ip \in IPs : windows[ip] # Null =>
        /\ windows[ip].count <= MaxRequests
        /\ windows[ip].bytes <= MaxBytes
        /\ windows[ip].reset <= clock + Window

StampsNotAhead == \A p \in Procs : req[p].now <= clock

LimiterInv == TypeOK /\ WithinBudget /\ StampsNotAhead

\* What a client has used up is forgotten only after its window has ended by
\* the present time: no caller with an old stamp, and no sweep set off by
\* another client, gives a client its budget back early.
NoEarlyForgiveness ==
    [][\A ip \in IPs :
          (windows[ip] # Null /\ clock <= windows[ip].reset) =>
             /\ windows'[ip] # Null
             /\ windows'[ip].count >= windows[ip].count
             /\ windows'[ip].bytes >= windows[ip].bytes
             /\ windows'[ip].reset = windows[ip].reset]_vars

Upto(h, t) == IF t < 0 THEN 0 ELSE IF t > MaxClock THEN h[MaxClock] ELSE h[t]

\* What a history says of the time between from and to, both included.
Used(h, from, to) == Upto(h, to) - Upto(h, from - 1)

\* In any stretch of Window ticks and one more, a client gets at most the
\* budgets of two windows through: a burst at the end of one and at the start
\* of the next.  What callers wait with their stamps shortens the stretch once:
\* a window ends that much earlier after the caller that opened it was served,
\* while one before it is used up to that very moment.
TwoWindowsAtMost ==
    \A ip \in IPs, from \in 0..MaxClock :
        LET to == from + Window - MaxStale
        IN /\ Used(granted[ip], from, to) <= 2 * MaxRequests
           /\ Used(charged[ip], from, to) <= 2 * MaxBytes

\* A 429 is earned: by the client's own requests or bytes, since one Window
\* before the refused request, and by nobody else's.
RefusalIsEarned ==
    [][\A p \in Procs :
          LET since == req[p].now - Window
              ip    == req[p].ip
          IN req'[p].pc = "refused" =>
                \/ req[p].pc = "refused"
                \/ /\ req[p].pc = "allow"
                   /\ Used(granted[ip], since, clock) >= MaxRequests
                \/ /\ req[p].pc = "charge"
                   /\ Used(charged[ip], since, clock) + req[p].size > MaxBytes]_vars

=============================================================================
