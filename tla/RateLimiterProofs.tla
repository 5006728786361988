------------------------- MODULE RateLimiterProofs -------------------------
(***************************************************************************)
(* Proofs about RateLimiter, for every number of goroutines and clients,   *)
(* every limit and every sweep threshold.                                  *)
(***************************************************************************)
EXTENDS RateLimiter, TLAPS

USE LimitsAssumption, ClockAssumption, NullAssumption
    DEF LimitsAssumption, ClockAssumption, NullAssumption

\* What getWindow leaves in the map: every client's window is either as it
\* was, or fresh, or - if it had ended by now - dropped; and ip has one.
LEMMA WithWindowMap ==
    ASSUME TypeOK, NEW ip \in IPs, NEW now \in Nat
    PROVE  /\ WithWindow(ip, now) \in [IPs -> WindowRec \cup {Null}]
           /\ WithWindow(ip, now)[ip] \in WindowRec
           /\ WithWindow(ip, now)[ip] \in {windows[ip], Fresh(now)}
           /\ ~Expired(WithWindow(ip, now)[ip], now)
           /\ \A other \in IPs :
                 (windows[other] # Null /\ ~Expired(windows[other], now)) =>
                    WithWindow(ip, now)[other] = windows[other]
           /\ \A other \in IPs \ {ip} :
                 WithWindow(ip, now)[other] \in {windows[other], Null}
<1> DEFINE f == [windows EXCEPT ![ip] = Fresh(now)]
<1>1. Fresh(now) \in WindowRec /\ Fresh(now) # Null /\ ~Expired(Fresh(now), now)
  BY DEF Fresh, WindowRec, Expired
<1>2. f \in [IPs -> WindowRec \cup {Null}] /\ f[ip] = Fresh(now)
      /\ \A other \in IPs \ {ip} : f[other] = windows[other]
  BY <1>1 DEF TypeOK
<1>3. CASE windows[ip] = Null \/ Expired(windows[ip], now)
  <2>1. WithWindow(ip, now) = Sweep(f, now)
    BY <1>3 DEF WithWindow
  <2> HIDE DEF f
  <2>2. /\ Sweep(f, now) \in [IPs -> WindowRec \cup {Null}]
        /\ Sweep(f, now)[ip] = f[ip]
        /\ \A other \in IPs : Sweep(f, now)[other] \in {f[other], Null}
        /\ \A other \in IPs : (f[other] # Null /\ ~Expired(f[other], now)) =>
              Sweep(f, now)[other] = f[other]
    BY <1>1, <1>2 DEF Sweep
  <2> QED BY <1>1, <1>2, <1>3, <2>1, <2>2 DEF TypeOK
<1>4. CASE ~(windows[ip] = Null \/ Expired(windows[ip], now))
  BY <1>4 DEF WithWindow, TypeOK
<1> QED BY <1>3, <1>4

-----------------------------------------------------------------------------
(***************************************************************************)
(* The inductive invariant: types, budgets, and no stamp ahead of the      *)
(* clock, from which a window that is expired for its caller has ended by  *)
(* the present time.                                                       *)
(***************************************************************************)
\* The four critical sections.
Locked(p) == Allow(p) \/ Refuse(p) \/ Charge(p) \/ Overcharge(p)

\* What a critical section makes of the map w that getWindow left: perhaps one
\* more request or some more bytes of ip, within the budget.
LockedEffect(ip, w) ==
    /\ windows' \in [IPs -> WindowRec \cup {Null}]
    /\ windows'[ip] \in WindowRec
    /\ windows'[ip].reset = w[ip].reset
    /\ windows'[ip].count >= w[ip].count /\ windows'[ip].bytes >= w[ip].bytes
    /\ windows'[ip].count = w[ip].count \/ windows'[ip].count <= MaxRequests
    /\ windows'[ip].bytes = w[ip].bytes \/ windows'[ip].bytes <= MaxBytes
    /\ \A other \in IPs \ {ip} : windows'[other] = w[other]

\* Every critical section has that effect.
LEMMA LockedWindows ==
    ASSUME TypeOK, NEW p \in Procs, Locked(p)
    PROVE  /\ req[p].ip \in IPs /\ req[p].now \in Nat
           /\ LockedEffect(req[p].ip, WithWindow(req[p].ip, req[p].now))
<1> DEFINE ip == req[p].ip
           w  == WithWindow(ip, req[p].now)
<1>1. req[p] \in Req /\ req[p].pc # "idle"
  BY DEF Locked, Allow, Refuse, Charge, Overcharge, TypeOK
<1>2. ip \in IPs /\ req[p].now \in Nat /\ req[p].size \in Nat
  BY <1>1 DEF TypeOK, Req
<1>3. w \in [IPs -> WindowRec \cup {Null}] /\ w[ip] \in WindowRec
  BY <1>2, WithWindowMap
<1>4. w[ip].count \in Nat /\ w[ip].bytes \in Nat
  BY <1>3 DEF WindowRec
<1>5. ASSUME Allow(p) PROVE LockedEffect(ip, w)
  <2>1. windows' = [w EXCEPT ![ip] = [w[ip] EXCEPT !.count = w[ip].count + 1]]
        /\ w[ip].count < MaxRequests
    BY <1>5 DEF Allow, HasRequest
  <2>2. [w[ip] EXCEPT !.count = w[ip].count + 1] \in WindowRec
    BY <1>3 DEF WindowRec
  <2> HIDE DEF w, ip
  <2>3. windows' \in [IPs -> WindowRec \cup {Null}]
        /\ windows'[ip] = [w[ip] EXCEPT !.count = w[ip].count + 1]
        /\ \A other \in IPs \ {ip} : windows'[other] = w[other]
    BY <1>2, <1>3, <2>1, <2>2
  <2>4. windows'[ip].count = w[ip].count + 1 /\ windows'[ip].bytes = w[ip].bytes
        /\ windows'[ip].reset = w[ip].reset
    BY <1>3, <2>3 DEF WindowRec
  <2>5. windows'[ip].count >= w[ip].count /\ windows'[ip].count <= MaxRequests
    BY <1>4, <2>1, <2>4
  <2>6. windows'[ip].bytes >= w[ip].bytes
    BY <1>4, <2>4
  <2> QED BY <2>2, <2>3, <2>4, <2>5, <2>6 DEF LockedEffect
<1>6. ASSUME Charge(p) PROVE LockedEffect(ip, w)
  <2> DEFINE n == w[ip].bytes + req[p].size
  <2>0. n \in Nat /\ n >= w[ip].bytes
    BY <1>2, <1>4
  <2>1. windows' = [w EXCEPT ![ip] = [w[ip] EXCEPT !.bytes = n]] /\ n <= MaxBytes
    BY <1>6 DEF Charge, HasBytes
  <2>2. [w[ip] EXCEPT !.bytes = n] \in WindowRec
    BY <1>3, <2>0 DEF WindowRec
  <2> HIDE DEF w, ip, n
  <2>3. windows' \in [IPs -> WindowRec \cup {Null}]
        /\ windows'[ip] = [w[ip] EXCEPT !.bytes = n]
        /\ \A other \in IPs \ {ip} : windows'[other] = w[other]
    BY <1>2, <1>3, <2>1, <2>2
  <2>4. windows'[ip].bytes = n /\ windows'[ip].count = w[ip].count
        /\ windows'[ip].reset = w[ip].reset
    BY <1>3, <2>3 DEF WindowRec
  <2>5. windows'[ip].count >= w[ip].count
    BY <1>4, <2>4
  <2> QED BY <2>0, <2>1, <2>2, <2>3, <2>4, <2>5 DEF LockedEffect
<1>7. ASSUME Refuse(p) \/ Overcharge(p) PROVE LockedEffect(ip, w)
  <2>1. windows' = w
    BY <1>7 DEF Refuse, Overcharge
  <2> HIDE DEF w, ip
  <2>2. w[ip].count >= w[ip].count /\ w[ip].bytes >= w[ip].bytes
    BY <1>4
  <2> QED BY <1>3, <2>1, <2>2 DEF LockedEffect
<1>8. LockedEffect(ip, w)
  BY <1>5, <1>6, <1>7 DEF Locked
<1> QED BY <1>2, <1>8

\* Replacing one goroutine's request by a well-formed one.
LEMMA ReqType ==
    ASSUME TypeOK, NEW p \in Procs, NEW r \in Req,
           r.pc # "idle" => r.ip \in IPs,
           req' = [req EXCEPT ![p] = r]
    PROVE  /\ req' \in [Procs -> Req]
           /\ \A q \in Procs : req'[q].pc # "idle" => req'[q].ip \in IPs
           /\ req'[p] = r /\ \A q \in Procs \ {p} : req'[q] = req[q]
BY DEF TypeOK

\* What the steps make of the request, as one well-formed record.
LEMMA ReqStep ==
    ASSUME TypeOK, NEW p \in Procs,
           \/ Locked(p) \/ Done(p)
           \/ \E ip \in IPs : Arrive(p, ip)
           \/ \E n \in Sizes : Post(p, n)
    PROVE  /\ req' \in [Procs -> Req]
           /\ \A q \in Procs : req'[q].pc # "idle" => req'[q].ip \in IPs
           /\ req'[p].now \in {req[p].now, clock, 0}
           /\ \A q \in Procs \ {p} : req'[q] = req[q]
           /\ clock' = clock
<1>1. req[p] \in Req /\ (req[p].pc # "idle" => req[p].ip \in IPs) /\ clock \in Nat
  BY DEF TypeOK
<1>2. IdleReq \in Req /\ IdleReq.pc = "idle" /\ IdleReq.now = 0
  BY DEF IdleReq, Req
<1>3. ASSUME NEW pc \in {"serve", "refused"}, req[p].pc # "idle",
             req' = [req EXCEPT ![p].pc = pc], clock' = clock
      PROVE  /\ req' \in [Procs -> Req]
             /\ \A q \in Procs : req'[q].pc # "idle" => req'[q].ip \in IPs
             /\ req'[p].now = req[p].now
             /\ \A q \in Procs \ {p} : req'[q] = req[q]
  <2> DEFINE r == [req[p] EXCEPT !.pc = pc]
  <2>1. r \in Req /\ r.ip = req[p].ip /\ r.now = req[p].now
    BY <1>1 DEF Req
  <2>2. req' = [req EXCEPT ![p] = r]
    BY <1>3
  <2> HIDE DEF r
  <2> QED BY <1>1, <1>3, <2>1, <2>2, ReqType
<1>4. CASE Allow(p)
  BY <1>3, <1>4 DEF Allow
<1>5. CASE Refuse(p)
  BY <1>3, <1>5 DEF Refuse
<1>6. CASE Overcharge(p)
  BY <1>3, <1>6 DEF Overcharge
<1>7. CASE Charge(p) \/ Done(p)
  BY <1>2, <1>7, ReqType DEF Charge, Done
<1>8. ASSUME NEW ip \in IPs, Arrive(p, ip)
      PROVE  /\ req' \in [Procs -> Req]
             /\ \A q \in Procs : req'[q].pc # "idle" => req'[q].ip \in IPs
             /\ req'[p].now = clock
             /\ \A q \in Procs \ {p} : req'[q] = req[q]
             /\ clock' = clock
  <2> DEFINE r == [pc |-> IF MaxRequests > 0 /\ Window > 0 THEN "allow" ELSE "serve",
                   ip |-> ip, size |-> 0, now |-> clock]
  <2>1. r \in Req /\ r.ip = ip /\ r.now = clock
    BY <1>1 DEF Req
  <2>2. req' = [req EXCEPT ![p] = r] /\ clock' = clock
    BY <1>8 DEF Arrive
  <2> HIDE DEF r
  <2> QED BY <2>1, <2>2, ReqType
<1>9. ASSUME NEW n \in Sizes, Post(p, n)
      PROVE  /\ req' \in [Procs -> Req]
             /\ \A q \in Procs : req'[q].pc # "idle" => req'[q].ip \in IPs
             /\ req'[p].now = clock
             /\ \A q \in Procs \ {p} : req'[q] = req[q]
             /\ clock' = clock
  <2> DEFINE r == [req[p] EXCEPT !.pc = "charge", !.size = n, !.now = clock]
  <2>1. r \in Req /\ r.ip = req[p].ip /\ r.now = clock
    BY <1>1 DEF Req
  <2>2. req' = [req EXCEPT ![p] = r] /\ clock' = clock /\ req[p].pc = "serve"
    BY <1>9 DEF Post
  <2> HIDE DEF r
  <2> QED BY <1>1, <2>1, <2>2, ReqType
<1> QED BY <1>4, <1>5, <1>6, <1>7, <1>8, <1>9 DEF Locked, Allow, Refuse, Overcharge,
           Charge, Done

\* Nothing more.
LEMMA MoreTyped ==
    ASSUME NEW h \in [0..MaxClock -> Nat]
    PROVE  /\ \A n \in Nat : More(h, n) \in [0..MaxClock -> Nat]
           /\ More(h, 0) = h
<1>1. \A t \in 0..MaxClock : h[t] \in Nat
  OBVIOUS
<1>2. \A n \in Nat : \A t \in 0..MaxClock : h[t] + n \in Nat
  BY <1>1
<1>3. \A n \in Nat : More(h, n) \in [0..MaxClock -> Nat]
  BY <1>1, <1>2 DEF More
<1>4. \A t \in 0..MaxClock : More(h, 0)[t] = h[t]
  BY <1>1 DEF More
<1> QED BY <1>3, <1>4 DEF More

\* What a critical section adds to its client's window it adds to its history,
\* and to nobody else's.
Adds(ip, w, d, e) ==
    /\ windows'[ip].count = w[ip].count + d /\ windows'[ip].bytes = w[ip].bytes + e
    /\ granted'[ip] = More(granted[ip], d) /\ charged'[ip] = More(charged[ip], e)
    /\ \A other \in IPs \ {ip} : granted'[other] = granted[other]
                                 /\ charged'[other] = charged[other]
    /\ granted' \in [IPs -> [0..MaxClock -> Nat]]
    /\ charged' \in [IPs -> [0..MaxClock -> Nat]]

LEMMA OneHistory ==
    ASSUME NEW f \in [IPs -> [0..MaxClock -> Nat]], NEW ip \in IPs, NEW n \in Nat, NEW g,
           g = [f EXCEPT ![ip] = More(f[ip], n)]
    PROVE  /\ g \in [IPs -> [0..MaxClock -> Nat]] /\ g[ip] = More(f[ip], n)
           /\ \A other \in IPs \ {ip} : g[other] = f[other]
<1>1. More(f[ip], n) \in [0..MaxClock -> Nat]
  BY MoreTyped
<1> QED BY <1>1

LEMMA HistoryStep ==
    ASSUME TypeOK, NEW p \in Procs, Locked(p)
    PROVE  \E d, e \in Nat : Adds(req[p].ip, WithWindow(req[p].ip, req[p].now), d, e)
<1> DEFINE ip == req[p].ip
           w  == WithWindow(ip, req[p].now)
<1>1. ip \in IPs /\ req[p].size \in Nat /\ req[p].now \in Nat
  BY DEF Locked, Allow, Refuse, Charge, Overcharge, TypeOK, Req
<1>2. w \in [IPs -> WindowRec \cup {Null}] /\ w[ip] \in WindowRec
  BY <1>1, WithWindowMap
<1>3. /\ granted \in [IPs -> [0..MaxClock -> Nat]] /\ More(granted[ip], 0) = granted[ip]
      /\ charged \in [IPs -> [0..MaxClock -> Nat]] /\ More(charged[ip], 0) = charged[ip]
  BY <1>1, MoreTyped DEF TypeOK
<1>4. w[ip].count \in Nat /\ w[ip].bytes \in Nat
  BY <1>2 DEF WindowRec
<1>5. CASE Allow(p)
  <2>1. /\ windows' = [w EXCEPT ![ip] = [w[ip] EXCEPT !.count = w[ip].count + 1]]
        /\ granted' = [granted EXCEPT ![ip] = More(granted[ip], 1)] /\ charged' = charged
    BY <1>5 DEF Allow
  <2> HIDE DEF w, ip
  <2>2. windows'[ip].count = w[ip].count + 1 /\ windows'[ip].bytes = w[ip].bytes
    BY <1>1, <1>2, <2>1 DEF WindowRec
  <2>3. /\ granted' \in [IPs -> [0..MaxClock -> Nat]] /\ granted'[ip] = More(granted[ip], 1)
        /\ \A other \in IPs \ {ip} : granted'[other] = granted[other]
    BY <1>1, <1>3, <2>1, OneHistory
  <2>4. Adds(ip, w, 1, 0)
    BY <1>3, <1>4, <2>1, <2>2, <2>3 DEF Adds
  <2> QED BY <2>4 DEF w, ip
<1>6. CASE Charge(p)
  <2> DEFINE n == req[p].size
  <2>1. /\ windows' = [w EXCEPT ![ip] = [w[ip] EXCEPT !.bytes = w[ip].bytes + n]]
        /\ charged' = [charged EXCEPT ![ip] = More(charged[ip], n)] /\ granted' = granted
        /\ n \in Nat
    BY <1>1, <1>6 DEF Charge
  <2> HIDE DEF w, ip, n
  <2>2. windows'[ip].count = w[ip].count /\ windows'[ip].bytes = w[ip].bytes + n
    BY <1>1, <1>2, <2>1 DEF WindowRec
  <2>3. /\ charged' \in [IPs -> [0..MaxClock -> Nat]] /\ charged'[ip] = More(charged[ip], n)
        /\ \A other \in IPs \ {ip} : charged'[other] = charged[other]
    BY <1>1, <1>3, <2>1, OneHistory
  <2>4. Adds(ip, w, 0, n)
    BY <1>3, <1>4, <2>1, <2>2, <2>3 DEF Adds
  <2> QED BY <2>1, <2>4 DEF w, ip
<1>7. CASE Refuse(p) \/ Overcharge(p)
  <2>1. windows' = w /\ granted' = granted /\ charged' = charged
    BY <1>7 DEF Refuse, Overcharge
  <2> HIDE DEF w, ip
  <2>2. Adds(ip, w, 0, 0)
    BY <1>3, <1>4, <2>1 DEF Adds
  <2> QED BY <2>2 DEF w, ip
<1> QED BY <1>5, <1>6, <1>7 DEF Locked

\* Every step keeps TypeOK.
LEMMA TypeStep == TypeOK /\ [Next]_vars => TypeOK'
<1> SUFFICES ASSUME TypeOK, [Next]_vars PROVE TypeOK'
  OBVIOUS
<1>1. ASSUME NEW p \in Procs, Locked(p) PROVE TypeOK'
  <2>1. windows' \in [IPs -> WindowRec \cup {Null}]
    BY <1>1, LockedWindows DEF LockedEffect
  <2>2. granted' \in [IPs -> [0..MaxClock -> Nat]] /\ charged' \in [IPs -> [0..MaxClock -> Nat]]
    BY <1>1, HistoryStep DEF Adds
  <2> QED BY <1>1, <2>1, <2>2, ReqStep DEF TypeOK
<1>2. ASSUME NEW p \in Procs, NEW ip \in IPs, Arrive(p, ip) PROVE TypeOK'
  BY <1>2, ReqStep DEF Arrive, TypeOK
<1>3. ASSUME NEW p \in Procs, NEW n \in Sizes, Post(p, n) PROVE TypeOK'
  BY <1>3, ReqStep DEF Post, TypeOK
<1>4. ASSUME NEW p \in Procs, Done(p) PROVE TypeOK'
  BY <1>4, ReqStep DEF Done, TypeOK
<1>5. CASE Tick
  BY <1>5 DEF Tick, TypeOK
<1>6. CASE UNCHANGED vars
  BY <1>6 DEF vars, TypeOK
<1> QED BY <1>1, <1>2, <1>3, <1>4, <1>5, <1>6 DEF Next, Locked

\* No request carries a time that is not yet.
LEMMA StampStep == TypeOK /\ StampsNotAhead /\ [Next]_vars => StampsNotAhead'
<1> SUFFICES ASSUME TypeOK, StampsNotAhead, [Next]_vars PROVE StampsNotAhead'
  OBVIOUS
<1>1. ASSUME NEW p \in Procs,
             \/ Locked(p) \/ Done(p)
             \/ \E ip \in IPs : Arrive(p, ip)
             \/ \E n \in Sizes : Post(p, n)
      PROVE  StampsNotAhead'
  <2>1. /\ req'[p].now \in {req[p].now, clock, 0} /\ clock' = clock
        /\ \A q \in Procs \ {p} : req'[q] = req[q]
    BY <1>1, ReqStep
  <2> QED BY <2>1 DEF StampsNotAhead, TypeOK
<1>5. CASE Tick
  BY <1>5 DEF Tick, TypeOK, Req, StampsNotAhead
<1>6. CASE UNCHANGED vars
  BY <1>6 DEF vars, StampsNotAhead
<1> QED BY <1>1, <1>5, <1>6 DEF Next, Locked

\* Every step keeps every window within its budgets.
LEMMA BudgetStep == LimiterInv /\ [Next]_vars => WithinBudget'
<1> SUFFICES ASSUME LimiterInv, [Next]_vars, NEW ip \in IPs, windows'[ip] # Null
             PROVE  /\ windows'[ip].count <= MaxRequests
                    /\ windows'[ip].bytes <= MaxBytes
                    /\ windows'[ip].reset <= clock' + Window
  BY DEF WithinBudget
<1>1. ASSUME NEW p \in Procs, Locked(p)
      PROVE  /\ windows'[ip].count <= MaxRequests
             /\ windows'[ip].bytes <= MaxBytes
             /\ windows'[ip].reset <= clock' + Window
  <2> DEFINE mine == req[p].ip
             now  == req[p].now
             w    == WithWindow(mine, now)
  <2>1. clock' = clock /\ clock \in Nat /\ now <= clock
    <3>1. clock' = clock
      BY <1>1, Zenon DEF Locked, Allow, Refuse, Charge, Overcharge
    <3>2. clock \in Nat /\ now <= clock
      BY DEF LimiterInv, TypeOK, StampsNotAhead
    <3> QED BY <3>1, <3>2
  <2>2. /\ mine \in IPs /\ now \in Nat
        /\ windows'[mine].reset = w[mine].reset
        /\ windows'[mine].count = w[mine].count \/ windows'[mine].count <= MaxRequests
        /\ windows'[mine].bytes = w[mine].bytes \/ windows'[mine].bytes <= MaxBytes
        /\ \A other \in IPs \ {mine} : windows'[other] = w[other]
    BY <1>1, LockedWindows DEF LimiterInv, LockedEffect
  <2>3. /\ w[mine] \in WindowRec
        /\ w[mine] \in {windows[mine], Fresh(now)}
        /\ \A other \in IPs \ {mine} : w[other] \in {windows[other], Null}
    BY <2>2, WithWindowMap DEF LimiterInv
  <2>4. /\ Fresh(now).count <= MaxRequests /\ Fresh(now).bytes <= MaxBytes
        /\ Fresh(now).reset <= clock + Window
    BY <2>1, <2>2 DEF Fresh
  <2> HIDE DEF w, mine, now
  <2>5. w[mine] # Null
    BY <2>3
  <2>6. /\ w[mine].count <= MaxRequests /\ w[mine].bytes <= MaxBytes
        /\ w[mine].reset <= clock + Window
    BY <2>2, <2>3, <2>4, <2>5 DEF LimiterInv, WithinBudget
  <2>7. CASE ip = mine
    BY <2>1, <2>2, <2>6, <2>7
  <2>8. CASE ip # mine
    BY <2>1, <2>2, <2>3, <2>8 DEF LimiterInv, WithinBudget
  <2> QED BY <2>7, <2>8
<1>2. CASE windows' = windows /\ clock' = clock
  BY <1>2 DEF LimiterInv, WithinBudget
<1>3. CASE Tick
  <2>1. windows' = windows /\ clock' = clock + 1 /\ clock \in Nat
    BY <1>3 DEF Tick, LimiterInv, TypeOK
  <2>2. windows[ip] \in WindowRec
    BY <2>1 DEF LimiterInv, TypeOK
  <2>3. windows[ip].reset \in Nat
    BY <2>2 DEF WindowRec
  <2> QED BY <2>1, <2>3 DEF LimiterInv, WithinBudget
<1> QED BY <1>1, <1>2, <1>3 DEF Next, Locked, Arrive, Post, Done, vars

\* The limiter's state is always well-formed and within its budgets.
THEOREM LimiterInvariant == Spec => []LimiterInv
<1>1. Init => LimiterInv
  BY DEF Init, LimiterInv, TypeOK, WithinBudget, StampsNotAhead, IdleReq, Req
<1>2. LimiterInv /\ [Next]_vars => LimiterInv'
  BY TypeStep, StampStep, BudgetStep DEF LimiterInv
<1> QED BY <1>1, <1>2, PTL DEF Spec

\* The map holds windows, and the requests are well formed, under any
\* interleaving of the critical sections.
THEOREM LimiterTypeCorrect == Spec => []TypeOK
BY LimiterInvariant, PTL DEF LimiterInv

\* No client is over either budget in its window.
THEOREM LimiterWithinBudget == Spec => []WithinBudget
BY LimiterInvariant, PTL DEF LimiterInv

\* What a client has used is forgotten only once its window has ended: a
\* window that has not ended by the present time has not ended for any caller
\* either, since no caller's stamp is ahead of the clock.
THEOREM LimiterNoEarlyForgiveness == Spec => NoEarlyForgiveness
<1>1. ASSUME LimiterInv, [Next]_vars, NEW ip \in IPs,
             windows[ip] # Null, clock <= windows[ip].reset
      PROVE  /\ windows'[ip] # Null
             /\ windows'[ip].count >= windows[ip].count
             /\ windows'[ip].bytes >= windows[ip].bytes
             /\ windows'[ip].reset = windows[ip].reset
  <2>0. /\ windows[ip] \in WindowRec /\ clock \in Nat
        /\ windows[ip].count \in Nat /\ windows[ip].bytes \in Nat
        /\ windows[ip].reset \in Nat
    BY <1>1 DEF LimiterInv, TypeOK, WindowRec
  <2>1. ASSUME NEW p \in Procs, Locked(p)
        PROVE  /\ windows'[ip] # Null
               /\ windows'[ip].count >= windows[ip].count
               /\ windows'[ip].bytes >= windows[ip].bytes
               /\ windows'[ip].reset = windows[ip].reset
    <3> DEFINE mine == req[p].ip
               now  == req[p].now
               w    == WithWindow(mine, now)
    <3>1. /\ mine \in IPs /\ now \in Nat
          /\ windows'[mine] \in WindowRec
          /\ windows'[mine].reset = w[mine].reset
          /\ windows'[mine].count >= w[mine].count
          /\ windows'[mine].bytes >= w[mine].bytes
          /\ \A other \in IPs \ {mine} : windows'[other] = w[other]
      BY <1>1, <2>1, LockedWindows DEF LimiterInv, LockedEffect
    <3>2. now <= clock
      BY <1>1 DEF LimiterInv, StampsNotAhead
    <3>3. ~Expired(windows[ip], now)
      BY <1>1, <2>0, <3>1, <3>2 DEF Expired
    <3>4. w[ip] = windows[ip]
      BY <1>1, <3>1, <3>3, WithWindowMap DEF LimiterInv
    <3> HIDE DEF w, mine, now
    <3> QED BY <1>1, <2>0, <3>1, <3>4
  <2>2. CASE windows' = windows
    BY <1>1, <2>0, <2>2
  <2> QED BY <1>1, <2>1, <2>2 DEF Next, Locked, Arrive, Post, Done, Tick, vars
<1>2. LimiterInv /\ [Next]_vars =>
        [\A ip \in IPs :
          (windows[ip] # Null /\ clock <= windows[ip].reset) =>
             /\ windows'[ip] # Null
             /\ windows'[ip].count >= windows[ip].count
             /\ windows'[ip].bytes >= windows[ip].bytes
             /\ windows'[ip].reset = windows[ip].reset]_vars
  BY <1>1
<1> QED BY <1>2, LimiterInvariant, PTL DEF Spec, NoEarlyForgiveness

-----------------------------------------------------------------------------
(***************************************************************************)
(* Accounts: how the count in a window stands to the history.  A window    *)
(* that resets at r was opened by a stamp of r - Window, hence by a caller *)
(* served no later than MaxStale after that: what came through later is in *)
(* its count n, and all of its count came through since its stamp.  So     *)
(* what the stretches that reach the present hold is n and what the window *)
(* before it held, and once they no longer do, nothing is added to them.   *)
(***************************************************************************)
Monotone(h) == \A s, t \in 0..MaxClock : s <= t => h[s] <= h[t]

\* Nothing is in the history beyond the time c.
Still(h, c) == \A t \in c..MaxClock : h[t] = h[MaxClock]

\* All that came through from the time from on.
Since(h, from) == h[MaxClock] - Upto(h, from - 1)

\* h, M and c: a client's history, its budget, the clock; n and r: what its
\* window has counted, and its end, if it is open.
Account(h, open, r, n, M, c) ==
    /\ h \in [0..MaxClock -> Nat] /\ Monotone(h) /\ Still(h, c)
    /\ n \in Nat /\ n <= M /\ (~open => n = 0)
    /\ open => /\ \A from \in 0..MaxClock : from > r - Window + MaxStale => Since(h, from) <= n
               /\ n <= Since(h, r - Window)
    /\ \A from \in 0..MaxClock : from >= c - Window + MaxStale => Since(h, from) <= M + n
    /\ \A from \in 0..MaxClock : Used(h, from, from + Window - MaxStale) <= 2 * M

Open(ip) == windows[ip] # Null
Reset(ip) == IF Open(ip) THEN windows[ip].reset ELSE 0
CountOf(ip) == IF Open(ip) THEN windows[ip].count ELSE 0
BytesOf(ip) == IF Open(ip) THEN windows[ip].bytes ELSE 0

Fits(ip) == /\ Account(granted[ip], Open(ip), Reset(ip), CountOf(ip), MaxRequests, clock)
            /\ Account(charged[ip], Open(ip), Reset(ip), BytesOf(ip), MaxBytes, clock)

AccountsFit == \A ip \in IPs : Fits(ip)

\* No caller has waited for the mutex for longer than MaxStale.
StampsFresh == \A p \in Procs : Waiting(p) => clock <= req[p].now + MaxStale

AccountInv == LimiterInv /\ StampsFresh /\ AccountsFit

\* A monotone history read at any time, also before it begins and after it ends.
LEMMA UptoFacts ==
    ASSUME NEW h \in [0..MaxClock -> Nat], Monotone(h)
    PROVE  /\ \A t \in Int : Upto(h, t) \in Nat /\ Upto(h, t) <= h[MaxClock]
           /\ \A s, t \in Int : s <= t => Upto(h, s) <= Upto(h, t)
           /\ h[MaxClock] \in Nat
<1>1. \A t \in 0..MaxClock : h[t] \in Nat /\ h[t] <= h[MaxClock]
  BY DEF Monotone
<1>2. MaxClock \in 0..MaxClock /\ h[MaxClock] \in Nat
  BY <1>1
<1>3. \A t \in Int : Upto(h, t) \in Nat /\ Upto(h, t) <= h[MaxClock]
  BY <1>1, <1>2 DEF Upto
<1>4. ASSUME NEW s \in Int, NEW t \in Int, s <= t PROVE Upto(h, s) <= Upto(h, t)
  BY <1>1, <1>2, <1>4 DEF Upto, Monotone
<1> QED BY <1>2, <1>3, <1>4

\* d more at the present time: what is read of an earlier time is as it was.
LEMMA MoreFacts ==
    ASSUME NEW h \in [0..MaxClock -> Nat], Monotone(h), Still(h, clock),
           clock \in 0..MaxClock, NEW d \in Nat
    PROVE  /\ More(h, d) \in [0..MaxClock -> Nat] /\ Monotone(More(h, d))
           /\ Still(More(h, d), clock)
           /\ More(h, d)[MaxClock] = h[MaxClock] + d
           /\ \A t \in Int : Upto(More(h, d), t) = Upto(h, t) + (IF t < clock THEN 0 ELSE d)
<1> DEFINE g == More(h, d)
<1>1. \A t \in 0..MaxClock : h[t] \in Nat /\ g[t] = h[t] + (IF t < clock THEN 0 ELSE d)
  BY DEF More
<1>2. g \in [0..MaxClock -> Nat]
  BY MoreTyped
<1> HIDE DEF g
<1>3. Monotone(g)
  BY <1>1 DEF Monotone
<1>4. Still(g, clock) /\ g[MaxClock] = h[MaxClock] + d
  BY <1>1 DEF Still
<1>5. \A t \in Int : Upto(g, t) = Upto(h, t) + (IF t < clock THEN 0 ELSE d)
  BY <1>1 DEF Upto
<1> QED BY <1>2, <1>3, <1>4, <1>5 DEF g

\* The account after d more have come through in the open window.
LEMMA AccountGrows ==
    ASSUME NEW h, NEW r \in Nat, NEW n, NEW M \in Nat, NEW d \in Nat,
           clock \in 0..MaxClock, Account(h, TRUE, r, n, M, clock),
           r - Window <= clock, n + d <= M
    PROVE  Account(More(h, d), TRUE, r, n + d, M, clock)
<1> DEFINE g == More(h, d)
           m == n + d
<1>1. /\ h \in [0..MaxClock -> Nat] /\ Monotone(h) /\ Still(h, clock) /\ n \in Nat
      /\ \A from \in 0..MaxClock : from > r - Window + MaxStale => Since(h, from) <= n
      /\ n <= Since(h, r - Window)
      /\ \A from \in 0..MaxClock : from >= clock - Window + MaxStale => Since(h, from) <= M + n
      /\ \A from \in 0..MaxClock : Used(h, from, from + Window - MaxStale) <= 2 * M
  BY DEF Account
<1>2. /\ g \in [0..MaxClock -> Nat] /\ Monotone(g) /\ Still(g, clock)
      /\ g[MaxClock] = h[MaxClock] + d
      /\ \A t \in Int : Upto(g, t) = Upto(h, t) + (IF t < clock THEN 0 ELSE d)
  BY <1>1, MoreFacts
<1>3. /\ \A t \in Int : Upto(h, t) \in Nat /\ Upto(h, t) <= h[MaxClock]
      /\ h[MaxClock] \in Nat
  BY <1>1, UptoFacts
<1>4. /\ \A t \in Int : Upto(g, t) \in Nat /\ Upto(g, t) <= g[MaxClock]
      /\ g[MaxClock] \in Nat
  BY <1>2, UptoFacts
<1> HIDE DEF g
<1>5. ASSUME NEW from \in Int
      PROVE  /\ Since(h, from) \in Nat /\ Since(g, from) <= Since(h, from) + d
             /\ from <= clock => Since(g, from) = Since(h, from) + d
             /\ Since(g, from) \in Nat
  <2> DEFINE t == from - 1
  <2>1. t \in Int /\ (from <= clock <=> t < clock)
    OBVIOUS
  <2> HIDE DEF t
  <2>2. /\ Upto(h, t) \in Nat /\ Upto(h, t) <= h[MaxClock]
        /\ Upto(g, t) \in Nat /\ Upto(g, t) <= g[MaxClock]
        /\ Upto(g, t) = Upto(h, t) + (IF t < clock THEN 0 ELSE d)
        /\ h[MaxClock] \in Nat /\ g[MaxClock] \in Nat /\ g[MaxClock] = h[MaxClock] + d
    BY <1>2, <1>3, <1>4, <2>1
  <2>3. Since(h, from) = h[MaxClock] - Upto(h, t) /\ Since(g, from) = g[MaxClock] - Upto(g, t)
    BY DEF Since, t
  <2>4. clock \in Int
    OBVIOUS
  <2> QED BY ONLY <2>1, <2>2, <2>3, <2>4, d \in Nat
<1>6. ASSUME NEW from \in 0..MaxClock, from > r - Window + MaxStale PROVE Since(g, from) <= m
  <2>1. Since(h, from) <= n
    BY <1>1, <1>6
  <2>2. /\ from \in Int
        /\ Since(h, from) \in Nat /\ Since(g, from) \in Nat /\ Since(g, from) <= Since(h, from) + d
    BY <1>5
  <2> QED BY ONLY <1>1, <2>1, <2>2, d \in Nat, M \in Nat
<1>7. m <= Since(g, r - Window)
  <2>1. r - Window \in Int
    OBVIOUS
  <2>2. Since(g, r - Window) = Since(h, r - Window) + d /\ Since(h, r - Window) \in Nat
    BY <1>5, <2>1
  <2> QED BY <1>1, <2>2
<1>8. ASSUME NEW from \in 0..MaxClock, from >= clock - Window + MaxStale
      PROVE  Since(g, from) <= M + m
  <2>1. Since(h, from) <= M + n
    BY <1>1, <1>8
  <2>2. /\ from \in Int
        /\ Since(h, from) \in Nat /\ Since(g, from) \in Nat /\ Since(g, from) <= Since(h, from) + d
    BY <1>5
  <2> QED BY ONLY <1>1, <2>1, <2>2, d \in Nat, M \in Nat
<1>9. ASSUME NEW from \in 0..MaxClock
      PROVE  Used(g, from, from + Window - MaxStale) <= 2 * M
  <2> DEFINE to == from + Window - MaxStale
  <2>1. to \in Int /\ from \in Int
    OBVIOUS
  <2>2. CASE to < clock
    <3>1. Upto(g, to) = Upto(h, to)
      BY <1>2, <1>3, <2>1, <2>2
    <3>2. /\ Upto(g, from - 1) \in Nat /\ Upto(h, from - 1) \in Nat
          /\ Upto(g, from - 1) = Upto(h, from - 1) + (IF from - 1 < clock THEN 0 ELSE d)
      <4>1. from - 1 \in Int
        OBVIOUS
      <4> QED BY ONLY <1>2, <1>3, <1>4, <4>1
    <3>3. Used(h, from, to) <= 2 * M
      BY <1>1
    <3>4. Upto(h, to) \in Nat
      BY <1>3, <2>1
    <3> HIDE DEF to
    <3>5. Upto(g, to) - Upto(g, from - 1) <= Upto(h, to) - Upto(h, from - 1)
      BY <3>1, <3>2, <3>4
    <3>6. Used(g, from, to) <= Used(h, from, to) /\ Used(g, from, to) \in Int
          /\ Used(h, from, to) \in Int
      BY <3>1, <3>2, <3>4, <3>5 DEF Used
    <3> HIDE DEF Used
    <3> QED BY ONLY <3>3, <3>6, M \in Nat DEF to
  <2>3. CASE to >= clock
    <3>1. Since(g, from) <= M + m
      BY <1>8, <2>3
    <3>2. Upto(g, to) <= g[MaxClock] /\ Upto(g, to) \in Nat /\ Upto(g, from - 1) \in Nat
      <4>1. from - 1 \in Int
        OBVIOUS
      <4> QED BY <1>4, <2>1, <4>1
    <3> HIDE DEF to
    <3>3. Used(g, from, to) <= Since(g, from) /\ Used(g, from, to) \in Int
          /\ Since(g, from) \in Int
      BY <1>4, <3>2 DEF Used, Since
    <3>4. m \in Nat /\ M + m <= 2 * M
      BY <1>1
    <3> QED BY ONLY <3>1, <3>3, <3>4, M \in Nat DEF to
  <2> QED BY <2>2, <2>3
<1>10. m \in Nat /\ m <= M
  BY <1>1
<1> HIDE DEF m
<1>11. Account(g, TRUE, r, m, M, clock)
  BY <1>2, <1>6, <1>7, <1>8, <1>9, <1>10 DEF Account
<1> QED BY <1>11 DEF g, m

\* Once a window has ended the account does not need it any more.
LEMMA AccountDropped ==
    ASSUME NEW h, NEW open \in BOOLEAN, NEW r \in Nat, NEW n, NEW M \in Nat, NEW s \in Nat,
           clock \in 0..MaxClock, Account(h, open, r, n, M, clock), open => r < clock
    PROVE  Account(h, FALSE, s, 0, M, clock)
<1>1. /\ h \in [0..MaxClock -> Nat] /\ Monotone(h) /\ Still(h, clock)
      /\ n \in Nat /\ n <= M /\ (~open => n = 0)
      /\ open => \A from \in 0..MaxClock : from > r - Window + MaxStale => Since(h, from) <= n
      /\ \A from \in 0..MaxClock : from >= clock - Window + MaxStale => Since(h, from) <= M + n
      /\ \A from \in 0..MaxClock : Used(h, from, from + Window - MaxStale) <= 2 * M
  BY DEF Account
<1>2. /\ \A t \in Int : Upto(h, t) \in Nat
      /\ h[MaxClock] \in Nat
  BY <1>1, UptoFacts
<1>3. \A from \in Int : Since(h, from) \in Int
  BY <1>2 DEF Since
<1>4. ASSUME NEW from \in 0..MaxClock, from >= clock - Window + MaxStale
      PROVE  Since(h, from) <= M + 0
  <2>1. Since(h, from) \in Int /\ from \in Int
    BY <1>3
  <2>2. CASE open
    <3>1. from > r - Window + MaxStale
      BY <1>4, <2>1, <2>2
    <3> QED BY <1>1, <2>1, <2>2, <3>1
  <2>3. CASE ~open
    BY <1>1, <1>4, <2>3
  <2> QED BY <2>2, <2>3
<1> QED BY <1>1, <1>4 DEF Account

\* A caller with the stamp now opens the next window.
LEMMA AccountOpens ==
    ASSUME NEW h, NEW r \in Nat, NEW M \in Nat, NEW now \in Nat,
           clock \in 0..MaxClock, Account(h, FALSE, r, 0, M, clock),
           clock <= now + MaxStale
    PROVE  Account(h, TRUE, now + Window, 0, M, clock)
<1>1. /\ h \in [0..MaxClock -> Nat] /\ Monotone(h) /\ Still(h, clock)
      /\ \A from \in 0..MaxClock : from >= clock - Window + MaxStale => Since(h, from) <= M + 0
      /\ \A from \in 0..MaxClock : Used(h, from, from + Window - MaxStale) <= 2 * M
  BY DEF Account
<1>2. /\ \A t \in Int : Upto(h, t) \in Nat /\ Upto(h, t) <= h[MaxClock]
      /\ h[MaxClock] \in Nat
  BY <1>1, UptoFacts
<1>3. ASSUME NEW from \in 0..MaxClock, from > (now + Window) - Window + MaxStale
      PROVE  Since(h, from) <= 0
  <2>1. from - 1 \in clock..MaxClock
    BY <1>3
  <2>2. Upto(h, from - 1) = h[MaxClock]
    BY <1>1, <2>1 DEF Upto, Still
  <2> QED BY <1>2, <2>2 DEF Since
<1>4. 0 <= Since(h, (now + Window) - Window)
  BY <1>2 DEF Since
<1> QED BY <1>1, <1>3, <1>4 DEF Account

\* A tick leaves fewer stretches that reach the present.
LEMMA AccountTicks ==
    ASSUME NEW h, NEW open \in BOOLEAN, NEW r \in Nat, NEW n, NEW M \in Nat,
           clock \in 0..MaxClock, Account(h, open, r, n, M, clock)
    PROVE  Account(h, open, r, n, M, clock + 1)
<1>1. /\ Still(h, clock)
      /\ \A from \in 0..MaxClock : from >= clock - Window + MaxStale => Since(h, from) <= M + n
  BY DEF Account
<1>2. Still(h, clock + 1)
  BY <1>1 DEF Still
<1>3. \A from \in 0..MaxClock : from >= (clock + 1) - Window + MaxStale => Since(h, from) <= M + n
  BY <1>1
<1> QED BY <1>2, <1>3 DEF Account

\* What getWindow does to the account of the client whose window it fetches.
LEMMA AccountFetched ==
    ASSUME NEW h, NEW open \in BOOLEAN, NEW r \in Nat, NEW n, NEW M \in Nat,
           NEW s \in Nat, NEW m, NEW now \in Nat,
           clock \in 0..MaxClock, now <= clock, clock <= now + MaxStale,
           Account(h, open, r, n, M, clock),
           \/ open /\ s = r /\ m = n
           \/ (open => r < now) /\ s = now + Window /\ m = 0
    PROVE  Account(h, TRUE, s, m, M, clock)
<1>1. CASE open /\ s = r /\ m = n
  <2>1. open = TRUE
    BY <1>1
  <2> QED BY <1>1, <2>1
<1>2. CASE (open => r < now) /\ s = now + Window /\ m = 0
  <2>1. open => r < clock
    BY <1>2
  <2>2. Account(h, FALSE, r, 0, M, clock)
    BY <2>1, AccountDropped
  <2>3. Account(h, TRUE, now + Window, 0, M, clock)
    BY <2>2, AccountOpens
  <2> QED BY <1>2, <2>3
<1> QED BY <1>1, <1>2

\* The step of a caller with a stamp of its own client: w is the map that
\* getWindow leaves.
LEMMA OwnAccountStep ==
    ASSUME AccountInv, NEW p \in Procs, Locked(p), NEW ip \in IPs, ip = req[p].ip
    PROVE  Fits(ip)'
<1> DEFINE now == req[p].now
           w   == WithWindow(ip, now)
<1>1. /\ ip \in IPs /\ now \in Nat /\ LockedEffect(ip, w)
      /\ clock' = clock /\ clock \in 0..MaxClock /\ TypeOK
  <2>1. clock' = clock
    BY Zenon DEF Locked, Allow, Refuse, Charge, Overcharge
  <2>2. TypeOK /\ clock \in 0..MaxClock
    BY DEF AccountInv, LimiterInv, TypeOK
  <2> QED BY <2>1, <2>2, LockedWindows
<1>2. now <= clock /\ clock <= now + MaxStale
  <2>1. Waiting(p)
    BY DEF Waiting, Locked, Allow, Refuse, Charge, Overcharge
  <2> QED BY <2>1 DEF AccountInv, LimiterInv, StampsNotAhead, StampsFresh
<1>3. PICK d \in Nat, e \in Nat : Adds(ip, w, d, e)
  BY <1>1, HistoryStep
<1>4. /\ w[ip] \in WindowRec /\ w[ip] \in {windows[ip], Fresh(now)}
      /\ ~Expired(w[ip], now)
      /\ (windows[ip] # Null /\ ~Expired(windows[ip], now)) => w[ip] = windows[ip]
  BY <1>1, WithWindowMap
<1>5. /\ w[ip].reset \in Nat /\ w[ip].count \in Nat /\ w[ip].bytes \in Nat
      /\ w[ip] # Null
  BY <1>4 DEF WindowRec
<1>6. /\ Fresh(now).count = 0 /\ Fresh(now).bytes = 0 /\ Fresh(now).reset = now + Window
  BY DEF Fresh
<1>7. /\ Open(ip) \in BOOLEAN /\ Reset(ip) \in Nat
      /\ Open(ip) => /\ windows[ip] \in WindowRec /\ Reset(ip) = windows[ip].reset
                     /\ CountOf(ip) = windows[ip].count /\ BytesOf(ip) = windows[ip].bytes
      /\ Open(ip) <=> windows[ip] # Null
  BY <1>1 DEF Open, Reset, CountOf, BytesOf, TypeOK, WindowRec
<1>8. Fits(ip)
  BY <1>1 DEF AccountInv, AccountsFit
<1>9. \/ /\ Open(ip) /\ w[ip].reset = Reset(ip)
         /\ w[ip].count = CountOf(ip) /\ w[ip].bytes = BytesOf(ip)
      \/ /\ Open(ip) => Reset(ip) < now
         /\ w[ip].reset = now + Window /\ w[ip].count = 0 /\ w[ip].bytes = 0
  <2>1. CASE Open(ip) /\ ~Expired(windows[ip], now)
    BY <1>4, <1>7, <2>1
  <2>2. CASE Open(ip) /\ Expired(windows[ip], now)
    <3>1. Reset(ip) < now
      BY <1>1, <1>7, <2>2 DEF Expired
    <3>2. w[ip] = Fresh(now)
      BY <1>4, <2>2
    <3> QED BY <1>6, <3>1, <3>2
  <2>3. CASE ~Open(ip)
    <3>1. w[ip] = Fresh(now)
      BY <1>4, <1>5, <1>7, <2>3
    <3> QED BY <1>6, <2>3, <3>1
  <2> QED BY <2>1, <2>2, <2>3
<1>10. /\ windows'[ip] \in WindowRec /\ windows'[ip].reset = w[ip].reset
       /\ windows'[ip].count = w[ip].count + d /\ windows'[ip].bytes = w[ip].bytes + e
       /\ windows'[ip].count = w[ip].count \/ windows'[ip].count <= MaxRequests
       /\ windows'[ip].bytes = w[ip].bytes \/ windows'[ip].bytes <= MaxBytes
       /\ granted'[ip] = More(granted[ip], d) /\ charged'[ip] = More(charged[ip], e)
  BY <1>1, <1>3 DEF LockedEffect, Adds
<1> DEFINE s == w[ip].reset
           m == w[ip].count
           k == w[ip].bytes
           hg == granted[ip]
           hc == charged[ip]
<1>11. s \in Nat /\ m \in Nat /\ k \in Nat
  BY <1>5
<1>12. s - Window <= clock
  <2>1. windows[ip] # Null => windows[ip].reset <= clock + Window
    BY <1>1 DEF AccountInv, LimiterInv, WithinBudget
  <2>2. Open(ip) => Reset(ip) <= clock + Window
    BY <1>7, <2>1
  <2> QED BY <1>1, <1>2, <1>7, <1>9, <1>11, <2>2
<1>13. m + d <= MaxRequests /\ k + e <= MaxBytes
  <2>1. windows[ip] # Null => windows[ip].count <= MaxRequests /\ windows[ip].bytes <= MaxBytes
    BY <1>1 DEF AccountInv, LimiterInv, WithinBudget
  <2>2. m <= MaxRequests /\ k <= MaxBytes
    BY <1>7, <1>9, <2>1
  <2> QED BY <1>10, <2>2
<1>14. /\ Open(ip)' = TRUE /\ Reset(ip)' = s
       /\ CountOf(ip)' = m + d /\ BytesOf(ip)' = k + e
  BY <1>10 DEF Open, Reset, CountOf, BytesOf
<1> HIDE DEF s, m, k, hg, hc, w, now
<1>15. Account(hg, TRUE, s, m, MaxRequests, clock)
  <2>1. Account(hg, Open(ip), Reset(ip), CountOf(ip), MaxRequests, clock)
    BY <1>8 DEF Fits, hg
  <2>2. \/ Open(ip) /\ s = Reset(ip) /\ m = CountOf(ip)
        \/ (Open(ip) => Reset(ip) < now) /\ s = now + Window /\ m = 0
    BY <1>9 DEF s, m
  <2> QED BY <1>1, <1>2, <1>7, <1>11, <2>1, <2>2, AccountFetched
<1>16. Account(hc, TRUE, s, k, MaxBytes, clock)
  <2>1. Account(hc, Open(ip), Reset(ip), BytesOf(ip), MaxBytes, clock)
    BY <1>8 DEF Fits, hc
  <2>2. \/ Open(ip) /\ s = Reset(ip) /\ k = BytesOf(ip)
        \/ (Open(ip) => Reset(ip) < now) /\ s = now + Window /\ k = 0
    BY <1>9 DEF s, k
  <2> QED BY <1>1, <1>2, <1>7, <1>11, <2>1, <2>2, AccountFetched
<1>17. Account(More(hg, d), TRUE, s, m + d, MaxRequests, clock)
  BY <1>1, <1>11, <1>12, <1>13, <1>15, AccountGrows
<1>18. Account(More(hc, e), TRUE, s, k + e, MaxBytes, clock)
  BY <1>1, <1>11, <1>12, <1>13, <1>16, AccountGrows
<1>19. granted'[ip] = More(hg, d) /\ charged'[ip] = More(hc, e)
  BY <1>10 DEF hg, hc
<1> QED BY <1>1, <1>14, <1>17, <1>18, <1>19 DEF Fits

\* Another client's step: its window stays, or is swept once it has ended.
LEMMA OtherAccountStep ==
    ASSUME AccountInv, NEW p \in Procs, Locked(p), NEW ip \in IPs, ip # req[p].ip
    PROVE  Fits(ip)'
<1> DEFINE mine == req[p].ip
           now  == req[p].now
           w    == WithWindow(mine, now)
<1>1. /\ mine \in IPs /\ now \in Nat /\ LockedEffect(mine, w)
      /\ clock' = clock /\ clock \in 0..MaxClock /\ TypeOK
      /\ now <= clock
  <2>1. clock' = clock
    BY Zenon DEF Locked, Allow, Refuse, Charge, Overcharge
  <2>2. TypeOK /\ clock \in 0..MaxClock /\ now <= clock
    BY DEF AccountInv, LimiterInv, TypeOK, StampsNotAhead
  <2> QED BY <2>1, <2>2, LockedWindows
<1>2. PICK d \in Nat, e \in Nat : Adds(mine, w, d, e)
  BY <1>1, HistoryStep
<1>3. granted'[ip] = granted[ip] /\ charged'[ip] = charged[ip] /\ windows'[ip] = w[ip]
  BY <1>1, <1>2 DEF LockedEffect, Adds
<1>4. /\ (windows[ip] # Null /\ ~Expired(windows[ip], now)) => w[ip] = windows[ip]
      /\ w[ip] \in {windows[ip], Null}
  BY <1>1, WithWindowMap
<1>5. Fits(ip)
  BY <1>1 DEF AccountInv, AccountsFit
<1>6. CASE windows'[ip] = windows[ip]
  <2>1. /\ Open(ip)' = Open(ip) /\ Reset(ip)' = Reset(ip)
        /\ CountOf(ip)' = CountOf(ip) /\ BytesOf(ip)' = BytesOf(ip)
    BY <1>6 DEF Open, Reset, CountOf, BytesOf
  <2> QED BY <1>1, <1>3, <1>5, <2>1 DEF Fits
<1>7. CASE windows'[ip] # windows[ip]
  <2>1. windows[ip] # Null /\ Expired(windows[ip], now) /\ windows'[ip] = Null
    BY <1>3, <1>4, <1>7
  <2>2. /\ Open(ip)' = FALSE /\ Reset(ip)' = 0 /\ CountOf(ip)' = 0 /\ BytesOf(ip)' = 0
        /\ Open(ip) = TRUE /\ Reset(ip) = windows[ip].reset /\ windows[ip].reset \in Nat
    BY <1>1, <2>1 DEF Open, Reset, CountOf, BytesOf, TypeOK, WindowRec
  <2>3. Reset(ip) < clock
    BY <1>1, <2>1, <2>2 DEF Expired
  <2> DEFINE r == Reset(ip)
             m == CountOf(ip)
             k == BytesOf(ip)
             hg == granted[ip]
             hc == charged[ip]
  <2>4. Account(hg, TRUE, r, m, MaxRequests, clock) /\ Account(hc, TRUE, r, k, MaxBytes, clock)
    BY <1>5, <2>2 DEF Fits
  <2>5. r \in Nat /\ r < clock
    BY <2>2, <2>3
  <2> HIDE DEF r, m, k, hg, hc
  <2>6. Account(hg, FALSE, 0, 0, MaxRequests, clock) /\ Account(hc, FALSE, 0, 0, MaxBytes, clock)
    BY <1>1, <2>4, <2>5, AccountDropped
  <2> QED BY <1>1, <1>3, <2>2, <2>6 DEF Fits, hg, hc
<1> QED BY <1>6, <1>7

LEMMA AccountsStep == AccountInv /\ [Next]_vars => AccountsFit'
<1> SUFFICES ASSUME AccountInv, [Next]_vars, NEW ip \in IPs PROVE Fits(ip)'
  BY DEF AccountsFit
<1>1. Fits(ip)
  BY DEF AccountInv, AccountsFit
<1>2. ASSUME NEW p \in Procs, Locked(p) PROVE Fits(ip)'
  BY <1>2, OwnAccountStep, OtherAccountStep
<1>3. CASE UNCHANGED <<windows, clock, granted, charged>>
  BY <1>1, <1>3 DEF Fits, Open, Reset, CountOf, BytesOf
<1>4. CASE Tick
  <2>1. clock' = clock + 1 /\ UNCHANGED <<windows, granted, charged>> /\ clock \in 0..MaxClock
    BY <1>4 DEF Tick, AccountInv, LimiterInv, TypeOK
  <2>2. /\ Open(ip)' = Open(ip) /\ Reset(ip)' = Reset(ip)
        /\ CountOf(ip)' = CountOf(ip) /\ BytesOf(ip)' = BytesOf(ip)
    BY <2>1 DEF Open, Reset, CountOf, BytesOf
  <2>3. Open(ip) \in BOOLEAN /\ Reset(ip) \in Nat
    BY DEF Open, Reset, AccountInv, LimiterInv, TypeOK, WindowRec
  <2>4. /\ Account(granted[ip], Open(ip), Reset(ip), CountOf(ip), MaxRequests, clock + 1)
        /\ Account(charged[ip], Open(ip), Reset(ip), BytesOf(ip), MaxBytes, clock + 1)
    BY <1>1, <2>1, <2>3, AccountTicks DEF Fits
  <2> QED BY <2>1, <2>2, <2>4 DEF Fits
<1> QED BY <1>2, <1>3, <1>4 DEF Next, Locked, Arrive, Post, Done, vars

\* The clock waits for every caller that queues for the mutex.
LEMMA FreshStep == AccountInv /\ [Next]_vars => StampsFresh'
<1> SUFFICES ASSUME AccountInv, [Next]_vars, NEW p \in Procs, Waiting(p)'
             PROVE  clock' <= req'[p].now + MaxStale
  BY DEF StampsFresh
<1>1. TypeOK /\ clock \in Nat /\ req[p].now \in Nat
      /\ (Waiting(p) => clock <= req[p].now + MaxStale)
  BY DEF AccountInv, LimiterInv, TypeOK, Req, StampsFresh
<1>2. ASSUME NEW q \in Procs, Locked(q) \/ Done(q) PROVE clock' <= req'[p].now + MaxStale
  <2>1. clock' = clock /\ \A o \in Procs \ {q} : req'[o] = req[o]
    BY <1>1, <1>2, ReqStep
  <2>2. CASE p = q
    <3>1. req' = [req EXCEPT ![p] = IdleReq] \/ req' = [req EXCEPT ![p].pc = "serve"]
          \/ req' = [req EXCEPT ![p].pc = "refused"]
      BY <1>2, <2>2, Zenon DEF Locked, Allow, Refuse, Charge, Overcharge, Done
    <3>2. req'[p].pc \in {"idle", "serve", "refused"}
      BY <1>1, <3>1 DEF TypeOK, IdleReq, Req
    <3> QED BY <3>2 DEF Waiting
  <2>3. CASE p # q
    BY <1>1, <2>1, <2>3 DEF Waiting
  <2> QED BY <2>2, <2>3
<1>3. ASSUME NEW q \in Procs, \/ \E ip \in IPs : Arrive(q, ip)
                              \/ \E n \in Sizes : Post(q, n)
      PROVE  clock' <= req'[p].now + MaxStale
  <2>1. clock' = clock /\ \A o \in Procs \ {q} : req'[o] = req[o]
    BY <1>1, <1>3, ReqStep
  <2>2. req'[q].now = clock
    <3>1. ASSUME NEW ip \in IPs, Arrive(q, ip) PROVE req'[q].now = clock
      BY <1>1, <3>1 DEF Arrive, TypeOK
    <3>2. ASSUME NEW n \in Sizes, Post(q, n) PROVE req'[q].now = clock
      <4>1. req' = [req EXCEPT ![q] = [req[q] EXCEPT !.pc = "charge", !.size = n, !.now = clock]]
            /\ req[q] \in Req
        BY <1>1, <3>2 DEF Post, TypeOK
      <4> QED BY <1>1, <4>1 DEF TypeOK, Req
    <3> QED BY <1>3, <3>1, <3>2
  <2>3. CASE p = q
    BY <1>1, <2>1, <2>2, <2>3
  <2>4. CASE p # q
    BY <1>1, <2>1, <2>4 DEF Waiting
  <2> QED BY <2>3, <2>4
<1>4. CASE Tick
  BY <1>1, <1>4 DEF Tick, Waiting
<1>5. CASE UNCHANGED vars
  BY <1>1, <1>5 DEF vars, Waiting
<1> QED BY <1>2, <1>3, <1>4, <1>5 DEF Next, Locked

\* The accounts of all clients balance, whoever waits how long for the mutex.
THEOREM LimiterAccounts == Spec => []AccountInv
<1>1. ASSUME Init PROVE StampsFresh
  BY <1>1 DEF Init, StampsFresh, Waiting, IdleReq
<1>2. ASSUME Init PROVE AccountsFit
  <2> DEFINE h == [t \in 0..MaxClock |-> 0]
  <2>1. h \in [0..MaxClock -> Nat] /\ \A t \in 0..MaxClock : h[t] = 0
    OBVIOUS
  <2> HIDE DEF h
  <2>2. Monotone(h) /\ Still(h, 0)
    BY <2>1 DEF Monotone, Still
  <2>3. \A t \in Int : Upto(h, t) = 0
    BY <2>1 DEF Upto
  <2>4. \A from \in Int : Since(h, from) = 0
    BY <2>1, <2>3 DEF Since
  <2>5. \A from, to \in Int : Used(h, from, to) = 0
    BY <2>3 DEF Used
  <2>6. ASSUME NEW M \in Nat PROVE Account(h, FALSE, 0, 0, M, 0)
    <3>1. \A from \in 0..MaxClock : from \in Int /\ from + Window - MaxStale \in Int
      OBVIOUS
    <3>2. \A from \in 0..MaxClock : Since(h, from) = 0
                                    /\ Used(h, from, from + Window - MaxStale) = 0
      BY <2>4, <2>5, <3>1
    <3> QED BY <2>1, <2>2, <3>2 DEF Account
  <2>7. ASSUME NEW ip \in IPs
        PROVE  /\ Open(ip) = FALSE /\ Reset(ip) = 0 /\ granted[ip] = h /\ charged[ip] = h
               /\ CountOf(ip) = 0 /\ BytesOf(ip) = 0 /\ clock = 0
    BY <1>2 DEF Init, Open, Reset, CountOf, BytesOf, h
  <2>8. ASSUME NEW ip \in IPs PROVE Fits(ip)
    BY <2>6, <2>7 DEF Fits
  <2> QED BY <2>8 DEF AccountsFit
<1>3. Init => LimiterInv
  BY DEF Init, LimiterInv, TypeOK, WithinBudget, StampsNotAhead, IdleReq, Req
<1>4. AccountInv /\ [Next]_vars => LimiterInv'
  BY TypeStep, StampStep, BudgetStep DEF AccountInv, LimiterInv
<1>5. AccountInv /\ [Next]_vars => AccountInv'
  BY <1>4, AccountsStep, FreshStep DEF AccountInv
<1>6. Init => AccountInv
  BY <1>1, <1>2, <1>3 DEF AccountInv
<1> QED BY <1>5, <1>6, PTL DEF Spec

\* In any Window ticks and one more, less what callers wait, a client gets no
\* more than the budgets of two windows through.
THEOREM LimiterTwoWindowsAtMost == Spec => []TwoWindowsAtMost
<1>1. AccountInv => TwoWindowsAtMost
  BY DEF AccountInv, AccountsFit, Fits, Account, TwoWindowsAtMost
<1> QED BY <1>1, LimiterAccounts, PTL

\* A refusal is earned: what stands in the client's window came through since
\* its stamp, which is no more than one Window before the refused request.
THEOREM LimiterRefusalIsEarned == Spec => RefusalIsEarned
<1> DEFINE Earned(p) ==
       LET since == req[p].now - Window
           ip    == req[p].ip
       IN req'[p].pc = "refused" =>
             \/ req[p].pc = "refused"
             \/ /\ req[p].pc = "allow"
                /\ Used(granted[ip], since, clock) >= MaxRequests
             \/ /\ req[p].pc = "charge"
                /\ Used(charged[ip], since, clock) + req[p].size > MaxBytes
<1>1. ASSUME AccountInv, NEW p \in Procs, Refuse(p) \/ Overcharge(p) PROVE Earned(p)
  <2> DEFINE ip == req[p].ip
             now == req[p].now
             w == WithWindow(ip, now)
             since == now - Window
  <2>1. /\ ip \in IPs /\ now \in Nat /\ req[p].size \in Nat /\ clock \in 0..MaxClock /\ TypeOK
    BY <1>1 DEF Refuse, Overcharge, AccountInv, LimiterInv, TypeOK, Req
  <2>2. /\ w[ip] \in WindowRec /\ w[ip] \in {windows[ip], Fresh(now)}
        /\ ~Expired(w[ip], now)
    BY <2>1, WithWindowMap
  <2>3. /\ Account(granted[ip], Open(ip), Reset(ip),
                   IF Open(ip) THEN windows[ip].count ELSE 0, MaxRequests, clock)
        /\ Account(charged[ip], Open(ip), Reset(ip),
                   IF Open(ip) THEN windows[ip].bytes ELSE 0, MaxBytes, clock)
    BY <1>1, <2>1 DEF AccountInv, AccountsFit, Fits, CountOf, BytesOf
  <2>4. /\ granted[ip] \in [0..MaxClock -> Nat] /\ Monotone(granted[ip])
        /\ Still(granted[ip], clock)
        /\ charged[ip] \in [0..MaxClock -> Nat] /\ Monotone(charged[ip])
        /\ Still(charged[ip], clock)
    BY <2>3 DEF Account
  <2>5. w[ip] # Null /\ w[ip].reset \in Nat /\ w[ip].count \in Nat /\ w[ip].bytes \in Nat
        /\ now <= w[ip].reset
    BY <2>1, <2>2 DEF WindowRec, Expired
  <2>6. \/ /\ w[ip].count <= Since(granted[ip], w[ip].reset - Window)
           /\ w[ip].bytes <= Since(charged[ip], w[ip].reset - Window)
        \/ w[ip].count = 0 /\ w[ip].bytes = 0
    <3>1. CASE w[ip] = windows[ip]
      <4>1. Open(ip) /\ Reset(ip) = w[ip].reset
        BY <2>5, <3>1 DEF Open, Reset
      <4> QED BY <2>3, <3>1, <4>1 DEF Account
    <3>2. CASE w[ip] = Fresh(now)
      BY <3>2 DEF Fresh
    <3> QED BY <2>2, <3>1, <3>2
  <2>7. ASSUME NEW h \in [0..MaxClock -> Nat], Monotone(h), Still(h, clock), NEW n \in Nat,
               n <= Since(h, w[ip].reset - Window) \/ n = 0
        PROVE  n <= Used(h, since, clock) /\ Used(h, since, clock) \in Int
    <3> DEFINE r == w[ip].reset - Window
    <3>1. r \in Int /\ since \in Int /\ since - 1 \in Int /\ r - 1 \in Int /\ since - 1 <= r - 1
          /\ since - 1 <= clock /\ clock \in Int
      <4>1. now <= clock /\ clock \in Int
        BY <1>1, <2>1 DEF AccountInv, LimiterInv, StampsNotAhead
      <4>2. now \in Nat /\ w[ip].reset \in Nat /\ now <= w[ip].reset
        BY <2>1, <2>5
      <4> HIDE DEF now, w, ip
      <4> QED BY <4>1, <4>2
    <3> HIDE DEF r, since
    <3>2. Upto(h, clock) = h[MaxClock]
      BY <2>1, <2>7 DEF Upto, Still
    <3>3. /\ Upto(h, since - 1) <= Upto(h, r - 1) /\ Upto(h, since - 1) \in Nat
          /\ Upto(h, r - 1) \in Nat /\ h[MaxClock] \in Nat
          /\ Upto(h, since - 1) <= h[MaxClock]
      BY <2>7, <3>1, UptoFacts
    <3>4. n <= h[MaxClock] - Upto(h, r - 1) \/ n = 0
      BY <2>7 DEF Since, r
    <3> QED BY <2>7, <3>2, <3>3, <3>4 DEF Used
  <2>8. /\ w[ip].count <= Used(granted[ip], since, clock)
        /\ w[ip].bytes <= Used(charged[ip], since, clock)
        /\ Used(granted[ip], since, clock) \in Int /\ Used(charged[ip], since, clock) \in Int
    BY <2>4, <2>5, <2>6, <2>7
  <2>9. CASE Refuse(p)
    BY <2>5, <2>8, <2>9 DEF Refuse, HasRequest
  <2>10. CASE Overcharge(p)
    BY <2>1, <2>5, <2>8, <2>10 DEF Overcharge, HasBytes
  <2> QED BY <1>1, <2>9, <2>10
<1>2. ASSUME AccountInv, [Next]_vars, NEW p \in Procs PROVE Earned(p)
  <2>1. CASE Refuse(p) \/ Overcharge(p)
    BY <1>1, <1>2, <2>1
  <2>2. CASE ~(Refuse(p) \/ Overcharge(p))
    <3>1. req'[p].pc = "refused" => req[p].pc = "refused"
      <4>1. ASSUME NEW q \in Procs, q # p,
                   \/ Locked(q) \/ Done(q)
                   \/ \E ip \in IPs : Arrive(q, ip)
                   \/ \E n \in Sizes : Post(q, n)
            PROVE  req'[p] = req[p]
        BY <1>2, <4>1, ReqStep DEF AccountInv, LimiterInv
      <4>2. CASE Allow(p)
        BY <1>2, <4>2 DEF Allow, AccountInv, LimiterInv, TypeOK, Req
      <4>3. CASE Charge(p) \/ Done(p)
        BY <1>2, <4>3 DEF Charge, Done, AccountInv, LimiterInv, TypeOK, IdleReq
      <4>4. ASSUME NEW ip \in IPs, Arrive(p, ip) PROVE req'[p].pc # "refused"
        BY <1>2, <4>4 DEF Arrive, AccountInv, LimiterInv, TypeOK
      <4>5. ASSUME NEW n \in Sizes, Post(p, n) PROVE req'[p].pc # "refused"
        BY <1>2, <4>5 DEF Post, AccountInv, LimiterInv, TypeOK, Req
      <4>6. CASE Tick \/ UNCHANGED vars
        BY <4>6 DEF Tick, vars
      <4> QED BY <1>2, <2>2, <4>1, <4>2, <4>3, <4>4, <4>5, <4>6 DEF Next, Locked
    <3> QED BY <3>1
  <2> QED BY <2>1, <2>2
<1>3. AccountInv /\ [Next]_vars => [\A p \in Procs : Earned(p)]_vars
  BY <1>2
<1> QED BY <1>3, LimiterAccounts, PTL DEF Spec, RefusalIsEarned

=============================================================================
