---------------------------- MODULE HttpApiProofs ----------------------------
(***************************************************************************)
(* Proofs about HttpApi and the Startup it runs under, for any layers of   *)
(* configuration, themes, word lists, clients, proxies and writes.         *)
(***************************************************************************)
EXTENDS HttpApi, FiniteSetTheorems, WellFoundedInduction, TLAPS

-----------------------------------------------------------------------------
(***************************************************************************)
(* Induction over the naturals, for a set of numbers.                      *)
(***************************************************************************)
LEMMA SetInduction ==
    ASSUME NEW T \in SUBSET Nat, 0 \in T, \A n \in T : n + 1 \in T
    PROVE  T = Nat
<1> SUFFICES ASSUME T # Nat PROVE FALSE
  OBVIOUS
<1> DEFINE U == {0..n : n \in Nat \ T}
<1>1. U \subseteq FiniteSubsetsOf(Nat) /\ U # {}
  <2>1. \A n \in Nat : IsFiniteSet(0..n) /\ 0..n \subseteq Nat
    BY FS_Interval
  <2> QED BY <2>1 DEF FiniteSubsetsOf
<1>2. PICK x \in U : \A y \in U : ~(<<y, x>> \in StrictSubsetOrdering(Nat))
  BY <1>1, FS_StrictSubsetOrderingWellFounded, WFMin
<1>3. PICK n \in Nat \ T : x = 0..n
  OBVIOUS
<1>4. n # 0 /\ n - 1 \in Nat
  OBVIOUS
<1>5. n - 1 \notin T
  BY <1>4
<1>6. 0..(n-1) \in U /\ 0..(n-1) \subseteq 0..n /\ n \in 0..n /\ n \notin 0..(n-1)
  BY <1>4, <1>5
<1>7. <<0..(n-1), x>> \in StrictSubsetOrdering(Nat)
  BY <1>3, <1>6, <1>4 DEF StrictSubsetOrdering
<1> QED BY <1>2, <1>6, <1>7

-----------------------------------------------------------------------------
(***************************************************************************)
(* Keys.                                                                   *)
(***************************************************************************)
\* The function that FlattenSeq computes, on its first m arguments.
Joins(ws, f, m) == f = [i \in 1..m |-> IF i = 1 THEN ws[i] ELSE f[i-1] \o ws[i]]

LEMMA JoinsAt ==
    ASSUME NEW ws, NEW f, NEW m \in Nat, Joins(ws, f, m), NEW i \in 1..m
    PROVE  f[i] = IF i = 1 THEN ws[i] ELSE f[i-1] \o ws[i]
<1> DEFINE g == [j \in 1..m |-> IF j = 1 THEN ws[j] ELSE f[j-1] \o ws[j]]
<1>1. g[i] = IF i = 1 THEN ws[i] ELSE f[i-1] \o ws[i]
  OBVIOUS
<1>2. f = g
  BY Zenon DEF Joins
<1> HIDE DEF g
<1> QED BY <1>1, <1>2

\* Flattening a sequence of sequences of letters gives letters, however many
\* there are: the function that joins them is defined, and every prefix of
\* the join is a sequence.
LEMMA FlattenedIsSequence ==
    ASSUME NEW S, NEW ws \in Seq(Seq(S))
    PROVE  FlattenSeq(ws) \in Seq(S)
<1> DEFINE n == Len(ws)
           T == {m \in Nat : m <= n => \E f \in [1..m -> Seq(S)] : Joins(ws, f, m)}
<1>1. n \in Nat /\ \A i \in 1..n : ws[i] \in Seq(S)
  OBVIOUS
<1>2. T = Nat
  <2>1. 0 \in T
    <3>1. [i \in 1..0 |-> <<>>] \in [1..0 -> Seq(S)] /\ Joins(ws, [i \in 1..0 |-> <<>>], 0)
      BY DEF Joins
    <3> QED BY <3>1
  <2>2. ASSUME NEW m \in T, m + 1 <= n
        PROVE  \E f \in [1..(m+1) -> Seq(S)] : Joins(ws, f, m+1)
    <3>1. PICK f \in [1..m -> Seq(S)] : Joins(ws, f, m)
      BY <1>1, <2>2
    <3> DEFINE x == IF m = 0 THEN ws[1] ELSE f[m] \o ws[m+1]
               g == [i \in 1..(m+1) |-> IF i <= m THEN f[i] ELSE x]
    <3>2. x \in Seq(S)
      BY <1>1, <2>2
    <3>3. g \in [1..(m+1) -> Seq(S)]
      BY <3>2
    <3>4. ASSUME NEW i \in 1..(m+1)
          PROVE  g[i] = IF i = 1 THEN ws[i] ELSE g[i-1] \o ws[i]
      <4> HIDE DEF x
      <4>1. CASE i <= m
        <5>1. g[i] = f[i] /\ (i # 1 => g[i-1] = f[i-1])
          BY <4>1
        <5>2. f[i] = IF i = 1 THEN ws[i] ELSE f[i-1] \o ws[i]
          <6>1. m \in Nat /\ i \in 1..m
            BY <4>1
          <6> QED BY <3>1, <6>1, JoinsAt
        <5> QED BY <5>1, <5>2
      <4>2. CASE i = m + 1
        <5>1. g[i] = x /\ (i # 1 => g[i-1] = f[m])
          BY <4>2
        <5> QED BY <4>2, <5>1 DEF x
      <4> QED BY <4>1, <4>2
    <3>5. Joins(ws, g, m+1)
      <4> HIDE DEF g
      <4>1. g = [i \in 1..(m+1) |-> g[i]]
        BY <3>3
      <4> QED BY <3>4, <4>1 DEF Joins
    <3> QED BY <3>3, <3>5
  <2>3. \A m \in T : m + 1 \in T
    <3>1. \A m \in T : m + 1 \in Nat /\ (m + 1 <= n => \E f \in [1..(m+1) -> Seq(S)] : Joins(ws, f, m+1))
      BY <2>2
    <3> QED BY <3>1
  <2> QED BY <2>1, <2>3, SetInduction
<1>3. CASE n = 0
  BY <1>3 DEF FlattenSeq
<1>4. CASE n # 0
  <2> DEFINE g == CHOOSE f : Joins(ws, f, n)
  <2>1. Joins(ws, g, n)
    <3>1. \E f : Joins(ws, f, n)
      BY <1>1, <1>2
    <3> QED BY <3>1
  <2>2. FlattenSeq(ws) = g[n]
    BY <1>4 DEF FlattenSeq, Joins
  <2> HIDE DEF g
  <2> DEFINE V == {m \in Nat : m \in 1..n => g[m] \in Seq(S)}
  <2>3. V = Nat
    <3>1. 0 \in V
      OBVIOUS
    <3>2. ASSUME NEW m \in V PROVE m + 1 \in V
      <4>1. SUFFICES ASSUME m + 1 \in 1..n PROVE g[m+1] \in Seq(S)
        OBVIOUS
      <4>2. g[m+1] = IF m + 1 = 1 THEN ws[m+1] ELSE g[m] \o ws[m+1]
        BY <1>1, <2>1, <4>1, JoinsAt
      <4>3. m + 1 # 1 => g[m] \in Seq(S)
        BY <4>1
      <4> QED BY <1>1, <4>1, <4>2, <4>3
    <3> QED BY <3>1, <3>2, SetInduction
  <2>4. n \in V /\ n \in 1..n
    BY <1>1, <1>4, <2>3
  <2> QED BY <2>2, <2>4
<1> QED BY <1>3, <1>4

\* A function on 1..n is a sequence, also when n is negative.
LEMMA FunctionIsSequence ==
    ASSUME NEW n \in Int, NEW S, NEW f \in [1..n -> S]
    PROVE  f \in Seq(S)
<1>1. CASE n \in Nat
  BY <1>1
<1>2. CASE n \notin Nat
  <2>1. 1..n = 1..0
    BY <1>2
  <2> QED BY <2>1
<1> QED BY <1>1, <1>2

\* Every generator draws sequences of letters.
LEMMA KeysAreSequences ==
    ASSUME NEW c, c.keyLength \in Int, \A w \in c.keyWords : w \in Seq(STRING)
    PROVE  KeysOf(c) \subseteq Seq(STRING)
<1> DEFINE n == c.keyLength
<1>1. \A S : S \subseteq STRING => [1..n -> S] \subseteq Seq(STRING)
  <2>1. ASSUME NEW S, S \subseteq STRING, NEW f \in [1..n -> S] PROVE f \in Seq(STRING)
    <3>1. f \in [1..n -> STRING]
      BY <2>1
    <3> QED BY <3>1, FunctionIsSequence
  <2> QED BY <2>1
<1>2. /\ Vowels \cup Consonants \cup Capitals \subseteq STRING
      /\ Vowels \cup Consonants \subseteq STRING
  BY AlphabetAssumption
<1>3. RandomKeys(n) \subseteq Seq(STRING)
  BY <1>1, <1>2 DEF RandomKeys
<1>4. PhoneticKeys(n) \subseteq Seq(STRING)
  BY <1>1, <1>2 DEF PhoneticKeys
<1>5. DictionaryKeys(c.keyWords, n) \subseteq Seq(STRING)
  <2>1. ASSUME NEW ws \in [1..n -> c.keyWords] PROVE FlattenSeq(ws) \in Seq(STRING)
    <3>1. ws \in [1..n -> Seq(STRING)]
      OBVIOUS
    <3>2. ws \in Seq(Seq(STRING))
      BY <3>1, FunctionIsSequence
    <3> QED BY <3>2, FlattenedIsSequence
  <2> QED BY <2>1 DEF DictionaryKeys
<1> QED BY <1>3, <1>4, <1>5 DEF KeysOf

\* The least of a set of numbers that has one.
LEMMA MinOf ==
    ASSUME NEW S, NEW m \in S, \A x \in S : x \in Int /\ m <= x
    PROVE  Min(S) = m
BY DEF Min

LEMMA MinOfTwo ==
    ASSUME NEW a \in Int, NEW b \in Int
    PROVE  Min({a, b}) = IF a <= b THEN a ELSE b
<1>1. CASE a <= b
  <2>1. a \in {a, b} /\ \A x \in {a, b} : x \in Int /\ a <= x
    BY <1>1
  <2> QED BY <1>1, <2>1, MinOf
<1>2. CASE ~(a <= b)
  <2>1. b \in {a, b} /\ \A x \in {a, b} : x \in Int /\ b <= x
    BY <1>2
  <2> QED BY <1>2, <2>1, MinOf
<1> QED BY <1>1, <1>2

\* keyParam: an address that a paste is known by, and whatever follows it from
\* the first dot on.
LEMMA KeyParamFindsKey ==
    ASSUME NEW k \in Seq(STRING), "." \notin ToSet(k), NEW e \in Extensions
    PROVE  KeyParam(k \o e) = k
<1> DEFINE id == k \o e
           dots == {i \in DOMAIN id : id[i] = "."}
<1>1. e \in Seq(STRING) /\ (e = <<>> \/ e[1] = ".")
  BY ExtensionsAssumption
<1>2. \A i \in 1..Len(k) : k[i] # "."
  BY DEF ToSet
<1>3. /\ id \in Seq(STRING) /\ Len(id) = Len(k) + Len(e)
      /\ \A i \in 1..Len(k) : id[i] = k[i]
      /\ e # <<>> => Len(e) >= 1 /\ id[Len(k) + 1] = e[1]
  BY <1>1
<1>4. CASE e = <<>>
  <2>1. id = k
    BY <1>1, <1>4
  <2>2. dots = {}
    BY <1>2, <2>1
  <2> QED BY <2>1, <2>2 DEF KeyParam
<1>5. CASE e # <<>>
  <2>1. Len(k) + 1 \in dots /\ \A i \in dots : i \in Int /\ Len(k) + 1 <= i
    BY <1>1, <1>2, <1>3, <1>5
  <2> HIDE DEF dots
  <2>2. Min(dots) = Len(k) + 1 /\ dots # {}
    BY <2>1, MinOf
  <2>3. SubSeq(id, 1, Len(k)) = k
    <3> HIDE DEF id
    <3>1. Len(k) \in Nat /\ Len(k) <= Len(id)
      BY <1>1, <1>3
    <3>2. SubSeq(id, 1, Len(k)) \in Seq(STRING) /\ Len(SubSeq(id, 1, Len(k))) = Len(k)
          /\ \A i \in 1..Len(k) : SubSeq(id, 1, Len(k))[i] = id[i]
      BY <1>3, <3>1
    <3> QED BY <1>3, <3>2
  <2>4. KeyParam(id) = SubSeq(id, 1, Min(dots) - 1)
    BY <2>2 DEF KeyParam, dots
  <2>5. Min(dots) - 1 = Len(k)
    BY <2>2
  <2> QED BY <2>3, <2>4, <2>5
<1> QED BY <1>4, <1>5

-----------------------------------------------------------------------------
(***************************************************************************)
(* Configurations.                                                         *)
(***************************************************************************)
\* A configuration has every setting, each with a value of its type.
Typed(c) ==
    /\ c = [s \in DOMAIN c |-> c[s]]
    /\ DOMAIN Defaults \subseteq DOMAIN c
    /\ \A s \in DOMAIN c : IsSetting(s, c[s])

LEMMA TypedFields ==
    ASSUME NEW c, Typed(c)
    PROVE  /\ c.maxLength \in Int /\ c.trustedProxyCount \in Int
           /\ c.expire \in Int /\ c.expireDays \in Int
           /\ c.sessionTTL \in Int /\ c.loginRateLimit \in Int
           /\ c.keyLength \in Int /\ c.sessionKey \in Int
           /\ c.admins \in Seq(BOOLEAN)
           /\ \A w \in c.keyWords : w \in Seq(STRING)
<1>1. {"maxLength", "trustedProxyCount", "expire", "expireDays", "sessionTTL",
       "loginRateLimit", "keyLength", "sessionKey", "admins", "keyWords"} \subseteq DOMAIN c
  BY DEF Typed, Defaults
<1> QED BY <1>1 DEF Typed, IsSetting, IntSettings

LEMMA TypedWith ==
    ASSUME NEW c, Typed(c), NEW s, NEW v, IsSetting(s, v)
    PROVE  /\ Typed([c EXCEPT ![s] = v])
           /\ \A t \in DOMAIN c : [c EXCEPT ![s] = v][t] = IF t = s THEN v ELSE c[t]
           /\ DOMAIN [c EXCEPT ![s] = v] = DOMAIN c
<1> DEFINE d == [c EXCEPT ![s] = v]
<1>1. /\ d = [t \in DOMAIN d |-> d[t]] /\ DOMAIN d = DOMAIN c
      /\ \A t \in DOMAIN c : d[t] = IF t = s THEN v ELSE c[t]
  BY DEF Typed
<1> HIDE DEF d
<1>2. Typed(d)
  BY <1>1 DEF Typed
<1> QED BY <1>1, <1>2 DEF d

LEMMA DefaultsTyped == Typed(Defaults)
<1>1. Defaults = [s \in DOMAIN Defaults |-> Defaults[s]]
  BY DEF Defaults
<1>2. \A s \in DOMAIN Defaults : IsSetting(s, Defaults[s])
  <2>1. /\ Defaults.keyLength \in Int /\ Defaults.maxLength \in Int
        /\ Defaults.trustedProxyCount \in Int /\ Defaults.expire \in Int
        /\ Defaults.expireDays \in Int /\ Defaults.sessionKey \in Int
        /\ Defaults.sessionTTL \in Int /\ Defaults.loginRateLimit \in Int
    BY DefaultsAssumption DEF Defaults
  <2>2. Defaults.keyWords = {} /\ Defaults.admins = <<>>
    BY DEF Defaults
  <2>3. \A s \in {"keyLength", "sessionKey"} \cup IntSettings : Defaults[s] \in Int
    BY <2>1 DEF IntSettings
  <2>4. Defaults["keyWords"] = {} /\ Defaults["admins"] = <<>>
    BY <2>2
  <2> HIDE DEF Defaults
  <2>5. ASSUME NEW s \in DOMAIN Defaults PROVE IsSetting(s, Defaults[s])
    <3> DEFINE v == Defaults[s]
    <3>1. s \in {"keyLength", "sessionKey"} \cup IntSettings => v \in Int
      BY <2>3
    <3>2. (s = "keyWords" => v = {}) /\ (s = "admins" => v = <<>>)
      BY <2>4
    <3> HIDE DEF v
    <3>3. (s = "keyWords" => \A w \in v : w \in Seq(STRING))
          /\ (s = "admins" => v \in Seq(BOOLEAN))
      <4>1. <<>> \in Seq(BOOLEAN) /\ \A w \in {} : w \in Seq(STRING)
        OBVIOUS
      <4> QED BY <3>2, <4>1
    <3>4. IsSetting(s, v)
      BY <3>1, <3>3 DEF IsSetting, IntSettings
    <3> QED BY <3>4 DEF v
  <2> QED BY <2>5
<1> QED BY <1>1, <1>2 DEF Typed

LEMMA LayeredTyped ==
    ASSUME NEW g \in Layers
    PROVE  Typed(Layered(g))
<1> DEFINE y == Over(g.yaml, Defaults)
           c == Overlaid(y, g.env)
<1>1. /\ y = [s \in DOMAIN g.yaml \cup DOMAIN Defaults |->
                IF s \in DOMAIN g.yaml THEN g.yaml[s] ELSE Defaults[s]]
  BY DEF Over
<1>2. Typed(y)
  <2>1. DOMAIN y = DOMAIN g.yaml \cup DOMAIN Defaults
    BY <1>1
  <2>2. \A s \in DOMAIN y : IsSetting(s, y[s])
    BY <1>1, LayersAssumption, DefaultsTyped DEF Typed
  <2>3. y = [s \in DOMAIN y |-> y[s]]
    BY <1>1
  <2> QED BY <2>1, <2>2, <2>3 DEF Typed
<1> HIDE DEF y
<1>3. /\ c = [s \in DOMAIN c |-> c[s]] /\ DOMAIN c = DOMAIN y
      /\ \A s \in DOMAIN y : c[s] = IF s \in DOMAIN g.env THEN EnvValue(s, y[s], g.env[s]) ELSE y[s]
  BY DEF Overlaid
<1>4. ASSUME NEW s \in DOMAIN y, s \in DOMAIN g.env
      PROVE  IsSetting(s, EnvValue(s, y[s], g.env[s]))
  <2> DEFINE v == g.env[s]
  <2>1. IsSetting(s, y[s]) /\ (s \in IntSettings => v \in Seq(Int))
        /\ (s \notin IntSettings => IsSetting(s, v))
    BY <1>2, <1>4, LayersAssumption DEF Typed
  <2> HIDE DEF v
  <2>2. CASE s \in IntSettings
    <3>1. v = <<>> \/ Head(v) \in Int
      BY <2>1, <2>2
    <3>2. y[s] \in Int
      BY <2>1, <2>2 DEF IsSetting, IntSettings
    <3>3. EnvValue(s, y[s], v) \in Int
      BY <2>2, <3>1, <3>2 DEF EnvValue, IntSettings
    <3> QED BY <2>2, <3>3 DEF IsSetting, IntSettings, v
  <2>3. CASE s = "corsOrigins"
    BY <2>3 DEF IsSetting, IntSettings
  <2>4. CASE s \notin IntSettings /\ s # "corsOrigins"
    <3>1. EnvValue(s, y[s], v) = v
      BY <2>4 DEF EnvValue
    <3> QED BY <2>1, <2>4, <3>1 DEF v
  <2> QED BY <2>2, <2>3, <2>4
<1>5. Typed(c)
  <2>1. \A s \in DOMAIN c : IsSetting(s, c[s])
    BY <1>2, <1>3, <1>4 DEF Typed
  <2> QED BY <1>2, <1>3, <2>1 DEF Typed
<1> QED BY <1>5 DEF Layered, y

\* What Load returns: typed, and with a console that can be relied on.
SoundConsole(c) ==
    Enabled(c) =>
        /\ c.sessionKey >= 16 /\ c.sessionTTL > 0 /\ c.loginRateLimit > 0
        /\ c.mode = "oidc" => c.issuer # "" /\ c.groupsClaim # ""
        /\ c.mode = "local" => TRUE \in ToSet(c.admins)

LEMMA LoadedIsSound ==
    ASSUME NEW g \in Layers, NEW c \in Loaded(g)
    PROVE  Typed(c) /\ SoundConsole(c)
<1> DEFINE r == Resolved(Layered(g))
           a == AuthNormal(r)
<1>1. Typed(r)
  <2> DEFINE k == Layered(g)
  <2>1. Typed(k) /\ Day \in Int
    BY LayeredTyped, DefaultsAssumption
  <2> HIDE DEF k
  <2>2. IsSetting("expire", k.expireDays * Day)
    <3>1. k.expireDays \in Int
      BY <2>1, TypedFields
    <3> QED BY <2>1, <3>1 DEF IsSetting, IntSettings
  <2>3. Typed([k EXCEPT !.expire = k.expireDays * Day])
    BY <2>1, <2>2, TypedWith
  <2> QED BY <2>1, <2>3 DEF Resolved, k
<1>2. c = ThemeNormal(a) /\ AuthAccepted(r)
  BY DEF Loaded
<1> HIDE DEF r
<1>3. Typed(a) /\ SoundConsole(a)
  <2>0. DOMAIN Defaults \subseteq DOMAIN r
    BY <1>1 DEF Typed
  <2>1. CASE ~Enabled(r)
    <3>1. a = [r EXCEPT !.mode = ""] /\ IsSetting("mode", "")
      BY <2>1 DEF AuthNormal, IsSetting, IntSettings
    <3>2. Typed(a) /\ a["mode"] = ""
      <4>1. "mode" \in DOMAIN r
        BY <2>0 DEF Defaults
      <4>2. /\ Typed([r EXCEPT !["mode"] = ""])
            /\ \A x \in DOMAIN r : [r EXCEPT !["mode"] = ""][x] = IF x = "mode" THEN "" ELSE r[x]
        BY <1>1, <3>1, TypedWith
      <4> HIDE DEF a
      <4> QED BY <3>1, <4>1, <4>2
    <3> HIDE DEF a
    <3>3. a.mode = ""
      BY <3>2
    <3> QED BY <3>2, <3>3 DEF SoundConsole, Enabled
  <2>2. CASE Enabled(r)
    <3> DEFINE t == IF r.sessionTTL <= 0 THEN 28800 ELSE r.sessionTTL
               l == IF r.loginRateLimit <= 0 THEN 10 ELSE r.loginRateLimit
               m == IF r.mode = "oidc" /\ r.groupsClaim = "" THEN "groups" ELSE r.groupsClaim
               r1 == [r EXCEPT !.sessionTTL = t]
               r2 == [r1 EXCEPT !.loginRateLimit = l]
               r3 == [r2 EXCEPT !.groupsClaim = m]
    <3>1. t \in Int /\ t > 0 /\ l \in Int /\ l > 0
      BY <1>1, TypedFields
    <3>2. r.mode = "oidc" => m # ""
      OBVIOUS
    <3>3. a = r3
      <4>1. a = [r EXCEPT !.sessionTTL = IF @ <= 0 THEN 28800 ELSE @,
                          !.loginRateLimit = IF @ <= 0 THEN 10 ELSE @,
                          !.groupsClaim = IF r.mode = "oidc" /\ @ = "" THEN "groups" ELSE @]
        BY <2>2 DEF AuthNormal
      <4> QED BY <1>1, <2>0, <4>1 DEF Typed, Defaults
    <3> HIDE DEF t, l, m, r1
    <3>4. Typed(r1) /\ r1.sessionTTL = t /\ DOMAIN r1 = DOMAIN r
          /\ \A s \in DOMAIN r : s # "sessionTTL" => r1[s] = r[s]
      <4>1. IsSetting("sessionTTL", t)
        BY <3>1 DEF IsSetting, IntSettings
      <4> QED BY <1>1, <2>0, <4>1, TypedWith DEF r1, Defaults
    <3> HIDE DEF r2
    <3>5. Typed(r2) /\ r2.loginRateLimit = l /\ DOMAIN r2 = DOMAIN r
          /\ \A s \in DOMAIN r : s # "loginRateLimit" => r2[s] = r1[s]
      <4>1. IsSetting("loginRateLimit", l)
        BY <3>1 DEF IsSetting, IntSettings
      <4> QED BY <2>0, <3>4, <4>1, TypedWith DEF r2, Defaults
    <3> HIDE DEF r3
    <3>6. Typed(r3) /\ r3.groupsClaim = m
          /\ \A s \in DOMAIN r : s # "groupsClaim" => r3[s] = r2[s]
      <4>1. IsSetting("groupsClaim", m)
        BY DEF IsSetting, IntSettings
      <4> QED BY <2>0, <3>5, <4>1, TypedWith DEF r3, Defaults
    <3>7. {"sessionTTL", "loginRateLimit", "groupsClaim", "sessionKey", "mode", "issuer",
           "admins"} \subseteq DOMAIN r
      BY <2>0 DEF Defaults
    <3>8. /\ r3.sessionTTL = t /\ r3.loginRateLimit = l /\ r3.groupsClaim = m
          /\ r3.sessionKey = r.sessionKey /\ r3.mode = r.mode /\ r3.issuer = r.issuer
          /\ r3.admins = r.admins
      BY <3>4, <3>5, <3>6, <3>7
    <3>9. r.sessionKey >= 16 /\ (r.mode = "oidc" => r.issuer # "")
          /\ (r.mode = "local" => r.admins # <<>> /\ \A i \in DOMAIN r.admins : r.admins[i])
      BY <1>2, <2>2 DEF AuthAccepted, Enabled
    <3>10. r.mode = "local" => TRUE \in ToSet(r.admins)
      <4>1. r.admins \in Seq(BOOLEAN)
        BY <1>1, TypedFields
      <4>2. r.admins # <<>> => 1 \in DOMAIN r.admins /\ r.admins[1] \in BOOLEAN
        BY <4>1
      <4> QED BY <3>9, <4>2 DEF ToSet
    <3> QED BY <3>1, <3>2, <3>3, <3>6, <3>8, <3>9, <3>10 DEF SoundConsole
  <2> QED BY <2>1, <2>2
<1> HIDE DEF a
<1>4. IsSetting("themeDefault", IF a.themeDefault = "" THEN BaseTheme ELSE a.themeDefault)
  BY DEF IsSetting, IntSettings
<1>5. /\ Typed(c)
      /\ \A s \in DOMAIN a : s # "themeDefault" => c[s] = a[s]
  BY <1>2, <1>3, <1>4, TypedWith DEF ThemeNormal
<1>6. {"sessionTTL", "loginRateLimit", "groupsClaim", "sessionKey", "mode", "issuer",
       "admins"} \subseteq DOMAIN a
  BY <1>3 DEF Typed, Defaults
<1>7. SoundConsole(c)
  <2>1. /\ c.sessionTTL = a.sessionTTL /\ c.loginRateLimit = a.loginRateLimit
        /\ c.groupsClaim = a.groupsClaim /\ c.sessionKey = a.sessionKey /\ c.mode = a.mode
        /\ c.issuer = a.issuer /\ c.admins = a.admins
    BY <1>5, <1>6
  <2> QED BY <1>3, <2>1 DEF SoundConsole, Enabled
<1> QED BY <1>5, <1>7

-----------------------------------------------------------------------------
(***************************************************************************)
(* Starting.                                                               *)
(***************************************************************************)
\* The themes the page is told of, and where each of them can come from.
ThemesListed ==
    /\ {themes.initial, themes.default} \subseteq themes.files \cup {BaseTheme}
    /\ themes.forced # "" => themes.forced = themes.initial
    /\ themes.files \subseteq SafeNames
    /\ \A n \in themes.files : n \in Embedded \/ (n \in FileNames /\ cfg.themeDir # "")

StartInv ==
    /\ stage = "load" => given \in Layers
    /\ Typed(cfg)
    /\ stage \notin {"load", "exit"} => SoundConsole(cfg)
    /\ stage \in {"listen", "up"} => ThemesListed

LEMMA ThemesDiscovered ==
    ASSUME themes' = Discover(cfg), cfg' = cfg
    PROVE  ThemesListed'
<1> DEFINE files  == ((Embedded \cup OverlayFiles(cfg)) \cap SafeNames) \ {BaseTheme}
           names  == files \cup {BaseTheme}
           dflt   == IF cfg.themeDefault \in names THEN cfg.themeDefault ELSE BaseTheme
           forced == IF cfg.themeForced \in names THEN cfg.themeForced ELSE ""
<1>1. themes' = [files |-> files, default |-> dflt, forced |-> forced,
                 initial |-> IF forced # "" THEN forced ELSE dflt]
  BY DEF Discover
<1>2. /\ files \subseteq SafeNames
      /\ \A n \in files : n \in Embedded \/ (n \in FileNames /\ cfg.themeDir # "")
  BY DEF OverlayFiles
<1>3. dflt \in names /\ (forced # "" => forced \in names)
  OBVIOUS
<1> DEFINE init == IF forced # "" THEN forced ELSE dflt
<1> HIDE DEF files, dflt, forced
<1>4. init = IF forced # "" THEN forced ELSE dflt
  OBVIOUS
<1> HIDE DEF init
<1>5. themes' = [files |-> files, default |-> dflt, forced |-> forced, initial |-> init]
  BY <1>1, <1>4
<1>6. /\ themes'.files = files /\ themes'.default = dflt /\ themes'.forced = forced
      /\ themes'.initial = init
  BY <1>5
<1> QED BY <1>2, <1>3, <1>4, <1>6 DEF ThemesListed

LEMMA StartInitially == StartInit => StartInv
BY DefaultsTyped DEF StartInit, StartInv

LEMMA StartStep ==
    ASSUME StartInv, Start \/ (\E o \in Overlays : EditOverlay(o)) \/ UNCHANGED startVars
    PROVE  StartInv'
<1>1. CASE LoadConfig
  <2>1. cfg' \in Loaded(given) /\ given \in Layers /\ stage' = "keygen"
    BY <1>1 DEF LoadConfig, StartInv
  <2>2. Typed(cfg') /\ SoundConsole(cfg')
    BY <2>1, LoadedIsSound
  <2> QED BY <2>1, <2>2 DEF StartInv, Typed, SoundConsole, Enabled
<1>2. ASSUME NEW from \in {"load", "keygen", "store", "auth", "listen"}, Fail(from)
      PROVE  StartInv'
  BY <1>2 DEF Fail, StartInv, Typed
<1>3. CASE NewHandler
  BY <1>3, ThemesDiscovered DEF NewHandler, StartInv, Typed, SoundConsole, Enabled
<1>4. CASE Listen
  BY <1>4 DEF Listen, StartInv, ThemesListed, Typed, SoundConsole, Enabled
<1>5. CASE NewGenerator \/ OpenStore \/ NewAuth
  BY <1>5 DEF NewGenerator, OpenStore, NewAuth, StartInv, Typed, SoundConsole, Enabled
<1>6. CASE \E o \in Overlays : EditOverlay(o)
  BY <1>6 DEF EditOverlay, StartInv, ThemesListed, Typed, SoundConsole, Enabled
<1>7. CASE UNCHANGED startVars
  BY <1>7 DEF startVars, StartInv, ThemesListed, Typed, SoundConsole, Enabled
<1> QED
  BY <1>1, <1>2, <1>3, <1>4, <1>5, <1>6, <1>7
  DEF Start, LoadFails, GeneratorFails, StoreFails, DiscoveryFails, ListenFails

-----------------------------------------------------------------------------
(***************************************************************************)
(* Answering.                                                              *)
(***************************************************************************)
Posts == {PostRequest(w) : w \in Writes}

Stored ==
    /\ store = [k \in DOMAIN store |-> store[k]]
    /\ DOMAIN store \subseteq Seq(STRING)
    /\ charged \in [Addresses -> Nat]

\* What the last answer has to do with the request, the configuration, the
\* overlay and the store.
ReadFits ==
    LET k == KeyParam(last.req.path)
    IN \/ last.ans.code = 500
       \/ last.ans.code = 404 /\ k \notin DOMAIN store
       \/ last.ans.code = 200 /\ k \in DOMAIN store /\ last.ans.text = store[k]

\* Where the answer to a theme comes from; there is no sheet when neither place
\* held one, or the overlay's went away or could not be read.
ThemeFits ==
    LET n == last.req.path
    IN \/ last.ans.kind \in {"overlay", "asset"}
       \/ /\ n \notin Embedded
          /\ n \in SafeNames \cap FileNames /\ cfg.themeDir # "" =>
                last.req.seen \notin {"file", "locked"}
          /\ n \notin FileNames => last.req.seen = "none"
       \/ last.req.seen \in {"file", "locked"} /\ overlay[n] # "file"
       \/ last.ans.code = 500

AnswerFits ==
    /\ last # None => stage = "up"
    /\ Replied => last.ans.allow = AllowOrigin(cfg, last.req)
    /\ Answered("post") => /\ last.req \in Posts
                           /\ last.ans.code = 403 <=> ~WriteOriginAllowed(cfg, last.req)
    /\ CreatedIsWhole
    /\ Answered("stat") => last.req.seen \in {"file", "locked"}
    /\ Answered("theme") => ThemeFits
    /\ Answered("page") /\ OneSegment(last.req) => last.ans.kind = FrontendKind(cfg, last.req.path)
    /\ (Answered("json") \/ Answered("raw")) /\ OneSegment(last.req) => ReadFits

HttpInv == StartInv /\ Stored /\ AnswerFits

LEMMA AnswerRecord ==
    ASSUME NEW r, NEW code, NEW kind, NEW key, NEW text, Answer(r, code, kind, key, text)
    PROVE  /\ last'.req = r /\ last'.ans.code = code /\ last'.ans.kind = kind
           /\ last'.ans.key = key /\ last'.ans.text = text
           /\ last'.ans.allow = AllowOrigin(cfg, r)
BY DEF Answer

LEMMA NoAnswer ==
    ASSUME ~Replied', last' # None => stage' = "up",
           last'.req.op = "stat" => last'.req.seen \in {"file", "locked"}
    PROVE  AnswerFits'
<1>1. ~Answered("post")' /\ ~Answered("theme")' /\ ~Answered("page")'
      /\ ~Answered("json")' /\ ~Answered("raw")'
  BY DEF Answered, Replied
<1>2. CreatedIsWhole'
  BY <1>1 DEF CreatedIsWhole
<1>3. (Answered("stat") => last.req.seen \in {"file", "locked"})'
  BY DEF Answered
<1>4. (last # None => stage = "up")'
  BY DEF None
<1> QED BY <1>1, <1>2, <1>3, <1>4 DEF AnswerFits

LEMMA RefusalMeans ==
    ASSUME NEW c, NEW r
    PROVE  /\ Refusal(c, r) \in {0, 400, 403}
           /\ Refusal(c, r) = 403 <=> ~WriteOriginAllowed(c, r)
           /\ Refusal(c, r) = 0 => \E text \in ReadBody(c, r) : ~TooLong(c, text)
BY DEF Refusal

LEMMA WritesAreTyped ==
    ASSUME NEW w \in Writes
    PROVE  /\ w.who \in Clients /\ w.form \in BOOLEAN /\ w.body \in Seq({"x", " "})
           /\ w.xff \in Seq(Seq(Clients \cup {""}) \ {<<>>})
           /\ w.sender \in DOMAIN Senders /\ w.head \in Senders[w.sender]
BY WritesAssumption DEF IsWrite

\* What a browser sends along with a write, by whose page it is.
LEMMA PairParts ==
    ASSUME NEW h, NEW a, NEW b, NEW c, NEW d, h = <<a, b>> \/ h = <<c, d>>
    PROVE  (h[1] = a /\ h[2] = b) \/ (h[1] = c /\ h[2] = d)
<1>1. CASE h = <<a, b>>
  BY <1>1
<1>2. CASE h = <<c, d>>
  BY <1>2
<1> QED BY <1>1, <1>2

LEMMA SendersHeads ==
    /\ \A s \in {"stranger", "sandbox", "partner"} : \A h \in Senders[s] :
          /\ h[2] # "self" /\ h[1] \notin {"same-origin", "same-site", "none"}
          /\ ~(h[2] = "" /\ h[1] = "")
    /\ \A s \in {"page", "tool"} : \A h \in Senders[s] :
          h[2] = "self" \/ (h[2] = "" /\ h[1] = "")
<1>1. /\ Senders["stranger"] = {<<"cross-site", "stranger">>, <<"", "stranger">>, <<"cross-site", "">>}
      /\ Senders["partner"]  = {<<"cross-site", "partner">>, <<"", "partner">>}
      /\ Senders["sandbox"]  = {<<"cross-site", "null">>, <<"", "null">>}
      /\ Senders["page"]     = {<<"same-origin", "self">>, <<"", "self">>}
      /\ Senders["tool"]     = {<<"", "">>}
  BY DEF Senders
<1>2. \A s \in {"stranger", "sandbox", "partner"} : \A h \in Senders[s] :
         /\ h[2] \in {"stranger", "partner", "null", ""} /\ h[1] \in {"cross-site", ""}
         /\ h[2] = "" => h[1] = "cross-site"
  <2>1. ASSUME NEW h \in Senders["stranger"]
        PROVE  /\ h[2] \in {"stranger", ""} /\ h[1] \in {"cross-site", ""}
               /\ h[2] = "" => h[1] = "cross-site"
    <3>1. CASE h = <<"cross-site", "">>
      BY <3>1
    <3>2. CASE h = <<"cross-site", "stranger">> \/ h = <<"", "stranger">>
      <4>1. (h[1] = "cross-site" /\ h[2] = "stranger") \/ (h[1] = "" /\ h[2] = "stranger")
        BY <3>2, PairParts
      <4> QED BY <4>1
    <3> QED BY <1>1, <3>1, <3>2
  <2>2. ASSUME NEW h \in Senders["partner"]
        PROVE  h[2] = "partner" /\ h[1] \in {"cross-site", ""}
    <3>1. h = <<"cross-site", "partner">> \/ h = <<"", "partner">>
      BY <1>1
    <3>2. (h[1] = "cross-site" /\ h[2] = "partner") \/ (h[1] = "" /\ h[2] = "partner")
      BY <3>1, PairParts
    <3> QED BY <3>2
  <2>3. ASSUME NEW h \in Senders["sandbox"]
        PROVE  h[2] = "null" /\ h[1] \in {"cross-site", ""}
    <3>1. h = <<"cross-site", "null">> \/ h = <<"", "null">>
      BY <1>1
    <3>2. (h[1] = "cross-site" /\ h[2] = "null") \/ (h[1] = "" /\ h[2] = "null")
      BY <3>1, PairParts
    <3> QED BY <3>2
  <2> QED BY <2>1, <2>2, <2>3
<1>3. \A s \in {"page", "tool"} : \A h \in Senders[s] :
         h[2] = "self" \/ (h[2] = "" /\ h[1] = "")
  <2>1. ASSUME NEW h \in Senders["page"] PROVE h[2] = "self"
    <3>1. h = <<"same-origin", "self">> \/ h = <<"", "self">>
      BY <1>1
    <3>2. (h[1] = "same-origin" /\ h[2] = "self") \/ (h[1] = "" /\ h[2] = "self")
      BY <3>1, PairParts
    <3> QED BY <3>2
  <2>2. ASSUME NEW h \in Senders["tool"] PROVE h[2] = "" /\ h[1] = ""
    <3>1. h = <<"", "">>
      BY <1>1
    <3>2. (h[1] = "" /\ h[2] = "")
      BY <3>1
    <3> QED BY <3>2
  <2> QED BY <2>1, <2>2
<1> QED BY <1>2, <1>3

LEMMA PostFields ==
    ASSUME NEW w
    PROVE  LET r == PostRequest(w)
           IN  /\ r.op = "post" /\ r.who = w.who /\ r.xff = w.xff
               /\ r.sender = w.sender /\ r.site = w.head[1] /\ r.origin = w.head[2]
               /\ r.body = w.body /\ r.form = w.form
BY DEF PostRequest

LEMMA UptoOf ==
    ASSUME NEW S, NEW s \in Seq(S), NEW n \in Nat
    PROVE  /\ Upto(s, n) \in Seq(S)
           /\ Len(s) <= n => Upto(s, n) = s
           /\ Len(s) > n => Len(Upto(s, n)) = n
<1> DEFINE m == Min({n, Len(s)})
<1>1. Len(s) \in Nat
  OBVIOUS
<1>2. m = IF n <= Len(s) THEN n ELSE Len(s)
  BY <1>1, MinOfTwo
<1>3. Upto(s, n) = SubSeq(s, 1, m)
  BY DEF Upto
<1> HIDE DEF m
<1>4. m \in Nat /\ m <= Len(s) /\ (Len(s) <= n => m = Len(s)) /\ (Len(s) > n => m = n)
  BY <1>1, <1>2
<1>5. SubSeq(s, 1, m) \in Seq(S) /\ Len(SubSeq(s, 1, m)) = m
  BY <1>1, <1>4
<1>6. SubSeq(s, 1, Len(s)) = s
  OBVIOUS
<1> QED BY <1>3, <1>4, <1>5, <1>6

\* readBody: a text that is not too long is the whole body.
LEMMA ReadWhole ==
    ASSUME NEW c, c.maxLength \in Int, c.maxLength > 0, NEW S, NEW r, r.body \in Seq(S),
           r.form \in BOOLEAN, NEW text \in ReadBody(c, r),
           \E t \in ReadBody(c, r) : ~TooLong(c, t)
    PROVE  text = r.body /\ Len(r.body) <= c.maxLength
<1> DEFINE u == Upto(r.body, c.maxLength + 1)
<1>1. ReadBody(c, r) = {r.body} \/ ReadBody(c, r) = {u}
  BY DEF ReadBody
<1>2. c.maxLength + 1 \in Nat
  OBVIOUS
<1>3. /\ Len(r.body) <= c.maxLength + 1 => u = r.body
      /\ Len(r.body) > c.maxLength + 1 => Len(u) = c.maxLength + 1
  BY <1>2, UptoOf
<1>4. Len(r.body) \in Nat
  OBVIOUS
<1> HIDE DEF u
<1>5. ~TooLong(c, text)
  BY <1>1
<1> QED BY <1>1, <1>3, <1>4, <1>5 DEF TooLong

LEMMA TextIsSequence ==
    ASSUME NEW c, c.maxLength \in Int, NEW S, NEW r, r.body \in Seq(S), NEW text \in ReadBody(c, r)
    PROVE  Len(text) \in Nat
<1>1. CASE text = r.body
  BY <1>1
<1>2. CASE text = Upto(r.body, c.maxLength + 1)
  <2> DEFINE m == Min({c.maxLength + 1, Len(r.body)})
  <2>1. Len(r.body) \in Nat
    OBVIOUS
  <2>2. m \in Int /\ m <= Len(r.body)
    BY <2>1, MinOfTwo
  <2> HIDE DEF m
  <2>3. SubSeq(r.body, 1, m) \in Seq(S)
    BY <2>1, <2>2
  <2> QED BY <1>2, <2>3 DEF Upto, m
<1> QED BY <1>1, <1>2 DEF ReadBody

LEMMA ChargedTyped ==
    ASSUME Stored, NEW n \in Nat, NEW ip, charged' = [charged EXCEPT ![ip] = @ + n]
    PROVE  charged' \in [Addresses -> Nat]
<1>1. charged \in [Addresses -> Nat]
  BY DEF Stored
<1>2. charged' = [a \in Addresses |-> IF a = ip THEN charged[a] + n ELSE charged[a]]
  BY <1>1
<1>3. \A a \in Addresses : charged[a] \in Nat /\ charged[a] + n \in Nat
  BY <1>1
<1> QED BY <1>2, <1>3

\* A write that is refused, or that fails after it was charged.
LEMMA RefusedPost ==
    ASSUME HttpInv, NEW w \in Writes, NEW code, Refuse(PostRequest(w), code),
           stage = "up", cfg' = cfg, stage' = stage, store' = store, code # 201,
           code = 403 <=> ~WriteOriginAllowed(cfg, PostRequest(w))
    PROVE  AnswerFits'
<1> DEFINE r == PostRequest(w)
<1>1. /\ last'.req = r /\ last'.ans.code = code /\ last'.ans.allow = AllowOrigin(cfg, r)
  BY AnswerRecord DEF Refuse
<1>2. r.op = "post" /\ r \in Posts
  BY PostFields DEF Posts
<1> HIDE DEF r
<1>3. /\ ~Answered("theme")' /\ ~Answered("page")' /\ ~Answered("json")' /\ ~Answered("raw")'
      /\ ~Answered("stat")'
  BY <1>1, <1>2 DEF Answered
<1>4. CreatedIsWhole'
  BY <1>1 DEF CreatedIsWhole
<1>5. last'.ans.allow = AllowOrigin(cfg, last'.req) /\ last'.req \in Posts
      /\ (last'.ans.code = 403 <=> ~WriteOriginAllowed(cfg, last'.req))
  BY <1>1, <1>2 DEF r
<1> QED BY <1>3, <1>4, <1>5 DEF AnswerFits, AllowOrigin, WriteOriginAllowed, Listed, Posts, PostRequest

LEMMA CreatePost ==
    ASSUME HttpInv, NEW w \in Writes, Create(PostRequest(w)),
           stage = "up", cfg' = cfg, stage' = stage
    PROVE  AnswerFits' /\ Stored'
<1> DEFINE r == PostRequest(w)
<1>0. Typed(cfg) /\ Stored
  BY DEF HttpInv, StartInv
<1>1. PICK text \in ReadBody(cfg, r), k \in KeysOf(cfg) \ DOMAIN store :
        /\ Charge(r, text)
        /\ store' = Over([x \in {k} |-> text], store)
        /\ Answer(r, 201, "json", k, <<>>)
  BY DEF Create
<1>2. /\ last'.req = r /\ last'.ans.code = 201 /\ last'.ans.allow = AllowOrigin(cfg, r)
      /\ last'.ans.key = k
  BY <1>1, AnswerRecord
<1>3. /\ r.op = "post" /\ r \in Posts /\ r.form \in BOOLEAN /\ r.body \in Seq({"x", " "})
  BY PostFields, WritesAreTyped DEF Posts
<1> HIDE DEF r
<1>4. WriteOriginAllowed(cfg, r) /\ \E t \in ReadBody(cfg, r) : ~TooLong(cfg, t)
  BY <1>1, RefusalMeans DEF Charge
<1>5. /\ store' = [x \in DOMAIN store' |-> store'[x]] /\ DOMAIN store' = {k} \cup DOMAIN store
      /\ store'[k] = text
  BY <1>1 DEF Over
<1>6. cfg.maxLength \in Int /\ k \in Seq(STRING)
  BY <1>0, TypedFields, KeysAreSequences
<1>7. cfg.maxLength > 0 => text = r.body /\ Len(r.body) <= cfg.maxLength
  BY <1>3, <1>4, <1>6, ReadWhole
<1>8. Stored'
  <2>1. Len(text) \in Nat
    BY <1>3, <1>6, TextIsSequence
  <2>2. PICK ip : charged' = [charged EXCEPT ![ip] = @ + Len(text)]
    BY <1>1 DEF Charge
  <2>3. charged' \in [Addresses -> Nat]
    <3> DEFINE n == Len(text)
    <3>1. n \in Nat /\ charged' = [charged EXCEPT ![ip] = @ + n]
      BY <2>1, <2>2
    <3> HIDE DEF n
    <3> QED BY <1>0, <3>1, ChargedTyped
  <2>4. DOMAIN store' \subseteq Seq(STRING)
    BY <1>0, <1>5, <1>6 DEF Stored
  <2> QED BY <1>5, <2>3, <2>4 DEF Stored
<1>9. CreatedIsWhole'
  BY <1>2, <1>5, <1>7 DEF CreatedIsWhole
<1>10. /\ ~Answered("theme")' /\ ~Answered("page")' /\ ~Answered("json")' /\ ~Answered("raw")'
       /\ ~Answered("stat")'
  BY <1>2, <1>3 DEF Answered
<1>11. last'.ans.allow = AllowOrigin(cfg, last'.req) /\ last'.req \in Posts
  BY <1>2, <1>3
<1>12. last'.ans.code # 403 /\ WriteOriginAllowed(cfg, last'.req)
  BY <1>2, <1>4
<1> QED BY <1>8, <1>9, <1>10, <1>11, <1>12
        DEF AnswerFits, AllowOrigin, WriteOriginAllowed, Listed, Posts, PostRequest

LEMMA PostStep ==
    ASSUME HttpInv, NEW w \in Writes, Post(w)
    PROVE  HttpInv'
<1> DEFINE r == PostRequest(w)
<1>1. stage = "up" /\ cfg' = cfg /\ stage' = stage /\ UNCHANGED startVars
  BY DEF Post, Idle, startVars
<1>2. StartInv'
  BY <1>1, StartStep DEF HttpInv
<1>3. CASE Refused(r)
  <2>1. /\ Refuse(r, Refusal(cfg, r)) /\ store' = store /\ charged' = charged
        /\ Refusal(cfg, r) # 201
        /\ Refusal(cfg, r) = 403 <=> ~WriteOriginAllowed(cfg, r)
    BY <1>3, RefusalMeans DEF Refused
  <2>2. AnswerFits'
    BY <1>1, <2>1, RefusedPost
  <2> QED BY <1>2, <2>1, <2>2 DEF HttpInv, Stored
<1>4. CASE OverBudget(r)
  <2>1. /\ Refuse(r, 429) /\ store' = store /\ charged' = charged
        /\ WriteOriginAllowed(cfg, r)
    BY <1>4, RefusalMeans DEF OverBudget
  <2>2. AnswerFits'
    BY <1>1, <2>1, RefusedPost
  <2> QED BY <1>2, <2>1, <2>2 DEF HttpInv, Stored
<1>4a. CASE ReadFails(r)
  <2>1. /\ Refuse(r, IF r.form THEN 400 ELSE 500) /\ store' = store /\ charged' = charged
        /\ WriteOriginAllowed(cfg, r)
    BY <1>4a DEF ReadFails
  <2>2. AnswerFits'
    <3> DEFINE code == IF r.form THEN 400 ELSE 500
    <3>1. code \notin {201, 403}
      OBVIOUS
    <3> HIDE DEF code
    <3>2. Refuse(r, code)
      BY <2>1 DEF code
    <3> QED BY <1>1, <2>1, <3>1, <3>2, RefusedPost
  <2> QED BY <1>2, <2>1, <2>2 DEF HttpInv, Stored
<1>5. CASE Create(r)
  BY <1>1, <1>2, <1>5, CreatePost DEF HttpInv
<1>6. CASE CreateFails(r)
  <2>1. PICK text \in ReadBody(cfg, r) : Charge(r, text)
    BY <1>6 DEF CreateFails
  <2>2. /\ Refuse(r, 500) /\ store' = store /\ WriteOriginAllowed(cfg, r)
    BY <1>6, <2>1, RefusalMeans DEF CreateFails, Charge
  <2>3. AnswerFits'
    BY <1>1, <2>2, RefusedPost
  <2>4. Stored'
    <3>1. Len(text) \in Nat
      <4>1. cfg.maxLength \in Int
        BY TypedFields DEF HttpInv, StartInv
      <4>2. r.body \in Seq({"x", " "})
        BY PostFields, WritesAreTyped
      <4> HIDE DEF r
      <4> QED BY <4>1, <4>2, TextIsSequence
    <3>2. PICK ip : charged' = [charged EXCEPT ![ip] = @ + Len(text)]
      BY <2>1 DEF Charge
    <3>3. charged' \in [Addresses -> Nat]
      <4> DEFINE n == Len(text)
      <4>1. n \in Nat /\ charged' = [charged EXCEPT ![ip] = @ + n]
        BY <3>1, <3>2
      <4> HIDE DEF n
      <4> QED BY <4>1, ChargedTyped DEF HttpInv
    <3> QED BY <2>2, <3>3 DEF HttpInv, Stored
  <2> QED BY <1>2, <2>3, <2>4 DEF HttpInv
<1> QED BY <1>3, <1>4, <1>4a, <1>5, <1>6 DEF Post

\* Requests that do not write.
LEMMA ReadRecord ==
    ASSUME NEW op, NEW path, NEW origin, NEW plain
    PROVE  /\ ReadRequest(op, path, origin, plain).op = op
           /\ ReadRequest(op, path, origin, plain).path = path
BY DEF ReadRequest

LEMMA NoWrite ==
    ASSUME HttpInv, UNCHANGED <<startVars, store>>, charged' \in [Addresses -> Nat]
    PROVE  StartInv' /\ Stored' /\ stage' = stage /\ cfg' = cfg
<1>1. StartInv'
  BY StartStep DEF HttpInv
<1> QED BY <1>1 DEF HttpInv, Stored, startVars

LEMMA ReadAnswers ==
    ASSUME NEW r, NEW k, ReadOf(r, k)
    PROVE  \E code, kind, key, text :
              /\ Answer(r, code, kind, key, text)
              /\ \/ code = 500
                 \/ code = 404 /\ k \notin DOMAIN store
                 \/ code = 200 /\ k \in DOMAIN store /\ text = store[k]
BY DEF ReadOf, Refuse

LEMMA AstrayAnswers ==
    ASSUME NEW r, Astray(r)
    PROVE  \E code, kind, key, text : Answer(r, code, kind, key, text)
<1>1. CASE \E k \in KeysOf(cfg) : ReadOf(r, k)
  BY <1>1, ReadAnswers
<1> QED BY <1>1 DEF Astray, Refuse

LEMMA SegmentAfter == OneSegment(last.req)' <=> OneSegment(last'.req)
BY DEF OneSegment

LEMMA GetStep ==
    ASSUME HttpInv, NEW op \in {"json", "raw"}, NEW id, NEW origin, NEW plain,
           Get(op, id, origin, plain)
    PROVE  HttpInv'
<1> DEFINE r == ReadRequest(op, id, origin, plain)
           k == KeyParam(id)
<1>1. StartInv' /\ Stored' /\ stage' = stage /\ cfg' = cfg /\ store' = store /\ stage = "up"
  BY NoWrite DEF Get, HttpInv, Stored, Idle
<1>2. PICK code, kind, key, text :
         /\ Answer(r, code, kind, key, text)
         /\ OneSegment(r) => \/ code = 500
                             \/ code = 404 /\ k \notin DOMAIN store
                             \/ code = 200 /\ k \in DOMAIN store /\ text = store[k]
  <2>1. CASE OneSegment(r)
    BY <2>1, ReadAnswers DEF Get
  <2>2. CASE ~OneSegment(r)
    BY <2>2, AstrayAnswers DEF Get
  <2> QED BY <2>1, <2>2
<1>3. /\ last'.req = r /\ last'.ans.code = code /\ last'.ans.text = text
      /\ last'.ans.allow = AllowOrigin(cfg, r)
  BY <1>2, AnswerRecord
<1>4. r.op = op /\ r.path = id
  BY ReadRecord
<1> HIDE DEF r
<1>5. ~Answered("theme")' /\ ~Answered("page")' /\ ~Answered("post")' /\ ~Answered("stat")'
  BY <1>3, <1>4 DEF Answered
<1>6. CreatedIsWhole'
  BY <1>5 DEF CreatedIsWhole
<1>7. last'.ans.allow = AllowOrigin(cfg, last'.req) /\ KeyParam(last'.req.path) = k
  BY <1>3, <1>4
<1>8. ASSUME OneSegment(r)
      PROVE  LET h == KeyParam(last'.req.path)
             IN \/ last'.ans.code = 500
                \/ last'.ans.code = 404 /\ h \notin DOMAIN store
                \/ last'.ans.code = 200 /\ h \in DOMAIN store /\ last'.ans.text = store[h]
  <2> HIDE DEF k
  <2> QED BY <1>2, <1>3, <1>7, <1>8
<1>9. OneSegment(last.req)' => ReadFits'
  BY <1>1, <1>3, <1>8, SegmentAfter DEF KeyParam, ReadFits
<1>10. AnswerFits'
  BY <1>1, <1>5, <1>6, <1>7, <1>9 DEF AnswerFits, AllowOrigin, Listed
<1> QED BY <1>1, <1>10 DEF HttpInv

LEMMA PageStep ==
    ASSUME HttpInv, NEW name, Page(name)
    PROVE  HttpInv'
<1> DEFINE r == ReadRequest("page", name, "", TRUE)
<1>1. StartInv' /\ Stored' /\ stage' = stage /\ cfg' = cfg /\ store' = store /\ stage = "up"
  BY NoWrite DEF Page, HttpInv, Stored, Idle
<1>2. PICK code, kind, key, text :
         /\ Answer(r, code, kind, key, text)
         /\ OneSegment(r) => kind = FrontendKind(cfg, name)
  <2>1. CASE OneSegment(r)
    BY <2>1 DEF Page
  <2>2. CASE ~OneSegment(r)
    BY <2>2, AstrayAnswers DEF Page
  <2> QED BY <2>1, <2>2
<1>3. /\ last'.req = r /\ last'.ans.kind = kind /\ last'.ans.allow = AllowOrigin(cfg, r)
  BY <1>2, AnswerRecord
<1>4. r.op = "page" /\ r.path = name
  BY DEF ReadRequest
<1> HIDE DEF r
<1>5. ~Answered("theme")' /\ ~Answered("json")' /\ ~Answered("raw")' /\ ~Answered("post")'
      /\ ~Answered("stat")'
  BY <1>3, <1>4 DEF Answered
<1>6. CreatedIsWhole'
  BY <1>5 DEF CreatedIsWhole
<1>7. /\ last'.ans.allow = AllowOrigin(cfg, last'.req)
      /\ OneSegment(last.req)' => last'.ans.kind = FrontendKind(cfg, last'.req.path)
  BY <1>2, <1>3, <1>4, SegmentAfter
<1>8. AnswerFits'
  BY <1>1, <1>5, <1>6, <1>7 DEF AnswerFits, AllowOrigin, Listed, FrontendKind, Enabled
<1> QED BY <1>1, <1>8 DEF HttpInv

LEMMA ThemeRecord ==
    ASSUME NEW n
    PROVE  LET r == ThemeRequest(n)
           IN  /\ r.op = "theme" /\ r.path = n /\ r.origin = ""
               /\ r.seen = IF n \in FileNames THEN overlay[n] ELSE "none"
               /\ [r EXCEPT !.op = "stat"].op = "stat"
               /\ [r EXCEPT !.op = "stat"].seen = r.seen
BY DEF ThemeRequest

LEMMA ThemeStep ==
    ASSUME HttpInv, NEW n, Theme(n)
    PROVE  HttpInv'
<1> DEFINE r == ThemeRequest(n)
<1>1. /\ StartInv' /\ Stored' /\ stage' = stage /\ cfg' = cfg /\ store' = store /\ stage = "up"
      /\ overlay' = overlay
  BY NoWrite DEF Theme, HttpInv, Stored, Idle, startVars
<1>2. /\ r.op = "theme" /\ r.path = n
      /\ r.seen = IF n \in FileNames THEN overlay[n] ELSE "none"
      /\ [r EXCEPT !.op = "stat"].op = "stat" /\ [r EXCEPT !.op = "stat"].seen = r.seen
  BY ThemeRecord
<1>3. CASE StatFinds(cfg, n)
  <2>1. last' = [req |-> [r EXCEPT !.op = "stat"]]
    BY <1>3 DEF Theme
  <2>2. last'.req = [r EXCEPT !.op = "stat"]
    BY <2>1
  <2>3. r.seen \in {"file", "locked"}
    BY <1>2, <1>3 DEF StatFinds
  <2> HIDE DEF r
  <2>4. last'.req.op = "stat" /\ last'.req.seen \in {"file", "locked"}
    BY <1>2, <2>2, <2>3
  <2>5. AnswerFits'
    BY <1>1, <2>4, NoAnswer DEF Replied
  <2> QED BY <1>1, <2>5 DEF HttpInv
<1>4. CASE ~StatFinds(cfg, n)
  <2> DEFINE kind == IF n \in Embedded THEN "asset" ELSE "index"
  <2>1. Answer(r, 200, kind, <<>>, <<>>)
    BY <1>4 DEF Theme
  <2>2. n \in SafeNames \cap FileNames /\ cfg.themeDir # "" => r.seen \notin {"file", "locked"}
    BY <1>2, <1>4 DEF StatFinds
  <2>3. kind = "asset" \/ n \notin Embedded
    OBVIOUS
  <2> HIDE DEF r, kind
  <2>4. last'.req = r /\ last'.ans.kind = kind /\ last'.ans.allow = AllowOrigin(cfg, r)
    BY <2>1, AnswerRecord
  <2>5. ~Answered("page")' /\ ~Answered("json")' /\ ~Answered("raw")' /\ ~Answered("post")'
        /\ ~Answered("stat")'
    BY <1>2, <2>4 DEF Answered
  <2>6. CreatedIsWhole'
    BY <2>5 DEF CreatedIsWhole
  <2>7. ThemeFits'
    BY <1>1, <1>2, <2>2, <2>3, <2>4 DEF ThemeFits
  <2>8. last'.ans.allow = AllowOrigin(cfg, last'.req)
    BY <2>4
  <2>9. AnswerFits'
    BY <1>1, <2>5, <2>6, <2>7, <2>8 DEF AnswerFits, AllowOrigin, Listed
  <2> QED BY <1>1, <2>9 DEF HttpInv
<1> QED BY <1>3, <1>4

LEMMA ServeOverlayStep ==
    ASSUME HttpInv, ServeOverlay
    PROVE  HttpInv'
<1> DEFINE r == [last.req EXCEPT !.op = "theme"]
           o == overlay[last.req.path]
<1>1. /\ StartInv' /\ Stored' /\ stage' = stage /\ cfg' = cfg /\ store' = store
      /\ overlay' = overlay
  BY NoWrite DEF ServeOverlay, HttpInv, Stored, startVars
<1>2. stage = "up" /\ last.req.seen \in {"file", "locked"}
  BY DEF ServeOverlay, HttpInv, AnswerFits, Answered, None
<1>3. PICK code, kind : /\ Answer(r, code, kind, <<>>, <<>>)
                        /\ kind = "overlay" \/ o # "file" \/ code = 500
  BY DEF ServeOverlay, Refuse
<1>4. last'.req = r /\ last'.ans.code = code /\ last'.ans.kind = kind
      /\ last'.ans.allow = AllowOrigin(cfg, r)
  BY <1>3, AnswerRecord
<1>5. last'.req.op = "theme" /\ last'.req.path = last.req.path /\ last'.req.seen = last.req.seen
  BY <1>4
<1> HIDE DEF r
<1>6. ~Answered("page")' /\ ~Answered("json")' /\ ~Answered("raw")' /\ ~Answered("post")'
      /\ ~Answered("stat")'
  BY <1>5 DEF Answered
<1>7. CreatedIsWhole'
  BY <1>6 DEF CreatedIsWhole
<1>8. ThemeFits'
  BY <1>1, <1>2, <1>3, <1>4, <1>5 DEF ThemeFits
<1>9. last'.ans.allow = AllowOrigin(cfg, last'.req)
  BY <1>4
<1>10. AnswerFits'
  BY <1>1, <1>2, <1>6, <1>7, <1>8, <1>9 DEF AnswerFits, AllowOrigin, Listed
<1> QED BY <1>1, <1>10 DEF HttpInv

LEMMA NoRouteStep ==
    ASSUME HttpInv, NEW origin, Options(origin) \/ Limited(origin)
    PROVE  HttpInv'
<1>1. StartInv' /\ Stored' /\ stage' = stage /\ cfg' = cfg /\ stage = "up"
  BY NoWrite DEF Options, Limited, HttpInv, Stored, Idle
<1>2. PICK r, code, kind : /\ r.op \in {"options", "limited"}
                           /\ Answer(r, code, kind, <<>>, <<>>)
  <2> DEFINE a == ReadRequest("options", <<>>, origin, TRUE)
             b == ReadRequest("limited", <<>>, origin, TRUE)
  <2>1. a.op = "options" /\ b.op = "limited"
    BY DEF ReadRequest
  <2>2. \E code, kind : Answer(a, code, kind, <<>>, <<>>) \/ Answer(b, code, kind, <<>>, <<>>)
    BY DEF Options, Limited, Refuse
  <2> HIDE DEF a, b
  <2> QED BY <2>1, <2>2
<1>3. last'.req = r /\ last'.ans.allow = AllowOrigin(cfg, r)
  BY <1>2, AnswerRecord
<1>4. /\ ~Answered("page")' /\ ~Answered("json")' /\ ~Answered("raw")' /\ ~Answered("post")'
      /\ ~Answered("theme")' /\ ~Answered("stat")'
  BY <1>2, <1>3 DEF Answered
<1>5. CreatedIsWhole'
  BY <1>4 DEF CreatedIsWhole, Answered
<1>6. last'.ans.allow = AllowOrigin(cfg, last'.req)
  BY <1>3
<1>7. AnswerFits'
  BY <1>1, <1>4, <1>5, <1>6 DEF AnswerFits, AllowOrigin, Listed
<1> QED BY <1>1, <1>7 DEF HttpInv

LEMMA EditStep ==
    ASSUME HttpInv, NEW o \in Overlays, ~Replied, EditOverlay(o), UNCHANGED <<store, charged, last>>
    PROVE  HttpInv'
<1>1. StartInv'
  BY StartStep DEF HttpInv
<1>2. Stored'
  BY DEF HttpInv, Stored
<1>3. stage' = stage /\ last' = last
  BY DEF EditOverlay
<1>4. ~Replied'
  BY <1>3 DEF Replied
<1>5. /\ last' # None => stage' = "up"
      /\ last'.req.op = "stat" => last'.req.seen \in {"file", "locked"}
  BY <1>3 DEF HttpInv, AnswerFits, Answered
<1>6. AnswerFits'
  BY <1>4, <1>5, NoAnswer
<1> QED BY <1>1, <1>2, <1>6 DEF HttpInv

LEMMA OtherStep ==
    ASSUME HttpInv, \/ Start /\ UNCHANGED <<store, charged, last>>
                    \/ Sent \/ NewWindow
    PROVE  HttpInv'
<1>1. StartInv'
  BY StartStep DEF HttpInv, Sent, NewWindow
<1>2. Stored'
  <2>1. store' = store /\ charged' \in [Addresses -> Nat]
    BY DEF HttpInv, Stored, Sent, NewWindow
  <2> QED BY <2>1 DEF HttpInv, Stored
<1>3. last' = None
  <2>1. ASSUME Start, last # None PROVE FALSE
    <3>1. stage # "up"
      BY <2>1 DEF Start, LoadConfig, LoadFails, NewGenerator, GeneratorFails, OpenStore,
                  StoreFails, NewAuth, DiscoveryFails, NewHandler, Listen, ListenFails, Fail
    <3> QED BY <2>1, <3>1 DEF HttpInv, AnswerFits
  <2> QED BY <2>1 DEF Sent, NewWindow, Idle
<1>4. ~Replied' /\ last'.req.op = "none"
  BY <1>3 DEF Replied, None
<1>5. AnswerFits'
  BY <1>3, <1>4, NoAnswer
<1> QED BY <1>1, <1>2, <1>5 DEF HttpInv

-----------------------------------------------------------------------------
(***************************************************************************)
(* The theorems.                                                           *)
(***************************************************************************)
LEMMA HttpInit == Init => HttpInv
<1> SUFFICES ASSUME Init PROVE HttpInv
  OBVIOUS
<1>1. StartInv
  BY StartInitially DEF Init
<1>2. Stored
  <2>1. store = [k \in DOMAIN store |-> store[k]] /\ DOMAIN store = {}
    BY DEF Init
  <2> QED BY <2>1 DEF Init, Stored
<1>3. AnswerFits
  BY DEF Init, AnswerFits, Answered, CreatedIsWhole, None, Replied
<1> QED BY <1>1, <1>2, <1>3 DEF HttpInv

LEMMA HttpNext == HttpInv /\ [Next]_vars => HttpInv'
<1> SUFFICES ASSUME HttpInv, [Next]_vars PROVE HttpInv'
  OBVIOUS
<1>1. CASE UNCHANGED vars
  <2>1. StartInv'
    BY <1>1, StartStep DEF vars, HttpInv
  <2>2. Stored'
    BY <1>1 DEF vars, HttpInv, Stored
  <2>3. UNCHANGED <<stage, cfg, overlay, store, last>>
    BY <1>1 DEF vars, startVars
  <2>4. CreatedIsWhole'
    BY <2>3 DEF HttpInv, AnswerFits, CreatedIsWhole, Answered
  <2>5. (last # None => stage = "up")' /\ (Replied => last.ans.allow = AllowOrigin(cfg, last.req))'
    BY <2>3 DEF HttpInv, AnswerFits, AllowOrigin, Listed, Replied
  <2>6. (Answered("post") => /\ last.req \in Posts
                             /\ last.ans.code = 403 <=> ~WriteOriginAllowed(cfg, last.req))'
    <3>1. WriteOriginAllowed(cfg, last.req)' <=> WriteOriginAllowed(cfg, last.req)
      BY <2>3 DEF WriteOriginAllowed, Listed
    <3>2. Answered("post")' <=> Answered("post")
      BY <2>3 DEF Answered
    <3>3. last'.req = last.req /\ last'.ans.code = last.ans.code
      BY <2>3
    <3>4. Answered("post") => last.req \in Posts
                              /\ (last.ans.code = 403 <=> ~WriteOriginAllowed(cfg, last.req))
      BY DEF HttpInv, AnswerFits
    <3> QED BY <3>1, <3>2, <3>3, <3>4 DEF Posts
  <2>7. (Answered("stat") => last.req.seen \in {"file", "locked"})' /\ (Answered("theme") => ThemeFits)'
    BY <2>3 DEF HttpInv, AnswerFits, Answered, ThemeFits
  <2>8. (Answered("page") /\ OneSegment(last.req) => last.ans.kind = FrontendKind(cfg, last.req.path))'
    BY <2>3 DEF HttpInv, AnswerFits, Answered, FrontendKind, Enabled, OneSegment
  <2>9. ((Answered("json") \/ Answered("raw")) /\ OneSegment(last.req) => ReadFits)'
    BY <2>3 DEF HttpInv, AnswerFits, Answered, KeyParam, ReadFits, OneSegment
  <2>10. AnswerFits'
    BY <2>4, <2>5, <2>6, <2>7, <2>8, <2>9 DEF AnswerFits
  <2> QED BY <2>1, <2>2, <2>10 DEF HttpInv
<1>2. ASSUME NEW w \in Writes, Post(w) PROVE HttpInv'
  BY <1>2, PostStep
<1>3. ASSUME NEW op \in {"json", "raw"}, NEW id, NEW o, NEW plain, Get(op, id, o, plain)
      PROVE HttpInv'
  BY <1>3, GetStep
<1>4. ASSUME NEW k, Page(k) PROVE HttpInv'
  BY <1>4, PageStep
<1>5. ASSUME NEW n, Theme(n) PROVE HttpInv'
  BY <1>5, ThemeStep
<1>5a. CASE ServeOverlay
  BY <1>5a, ServeOverlayStep
<1>5b. ASSUME NEW o \in Overlays, ~Replied, EditOverlay(o), UNCHANGED <<store, charged, last>>
       PROVE  HttpInv'
  BY <1>5b, EditStep
<1>6. ASSUME NEW o, Options(o) \/ Limited(o) PROVE HttpInv'
  BY <1>6, NoRouteStep
<1> QED BY <1>1, <1>2, <1>3, <1>4, <1>5, <1>5a, <1>5b, <1>6, OtherStep DEF Next

\* The inductive invariant holds: the configuration is typed and sound from
\* the moment it is loaded, and every answer is what its handler makes of the
\* request, the configuration and the store.
THEOREM HttpInvariant == Spec => []HttpInv
<1>1. Init => HttpInv
  BY HttpInit
<1>2. HttpInv /\ [Next]_vars => HttpInv'
  BY HttpNext
<1> QED BY <1>1, <1>2, PTL DEF Spec

\* config.go, Auth.normalize: a console that is switched on, by whichever
\* layer, has a long enough key, limits, and someone who can log in.
THEOREM StartConsoleIsSound == Spec => []ConsoleIsSound
<1>1. HttpInv => ConsoleIsSound
  BY DEF HttpInv, StartInv, SoundConsole, ConsoleIsSound
<1> QED BY <1>1, HttpInvariant, PTL

\* What the check of the origin makes of the headers a sender can send.
LEMMA PostOfSender ==
    ASSUME HttpInv, Answered("post")
    PROVE  /\ last.req.sender \in {"stranger", "sandbox", "partner"} =>
                (WriteOriginAllowed(cfg, last.req) <=> Listed(cfg, last.req.origin))
           /\ last.req.sender \in {"page", "tool"} => WriteOriginAllowed(cfg, last.req)
           /\ last.ans.code = 403 <=> ~WriteOriginAllowed(cfg, last.req)
           /\ last.ans.allow = AllowOrigin(cfg, last.req)
<1>1. PICK w \in Writes : last.req = PostRequest(w)
  BY DEF HttpInv, AnswerFits, Posts
<1>2. /\ last.req.sender = w.sender /\ last.req.site = w.head[1] /\ last.req.origin = w.head[2]
  BY <1>1, PostFields
<1>3. w.sender \in DOMAIN Senders /\ w.head \in Senders[w.sender]
  BY WritesAreTyped
<1>4. ASSUME last.req.sender \in {"stranger", "sandbox", "partner"}
      PROVE  WriteOriginAllowed(cfg, last.req) <=> Listed(cfg, last.req.origin)
  <2>1. /\ last.req.origin # "self" /\ last.req.site \notin {"same-origin", "same-site", "none"}
        /\ ~(last.req.origin = "" /\ last.req.site = "")
    BY <1>2, <1>3, <1>4, SendersHeads
  <2> QED BY <2>1 DEF WriteOriginAllowed
<1>5. ASSUME last.req.sender \in {"page", "tool"}
      PROVE  WriteOriginAllowed(cfg, last.req)
  <2>1. last.req.origin = "self" \/ (last.req.origin = "" /\ last.req.site = "")
    BY <1>2, <1>3, <1>5, SendersHeads
  <2> QED BY <2>1 DEF WriteOriginAllowed
<1>6. /\ last.ans.code = 403 <=> ~WriteOriginAllowed(cfg, last.req)
      /\ last.ans.allow = AllowOrigin(cfg, last.req)
  BY DEF HttpInv, AnswerFits, Answered, Replied
<1> QED BY <1>4, <1>5, <1>6

\* writeOriginAllowed: another site's page gets nothing stored or charged
\* unless its origin is listed; the own page and tools are never turned away.
THEOREM HttpWritesAreWanted == Spec => []WritesAreWanted
<1>1. HttpInv => WritesAreWanted
  BY PostOfSender DEF WritesAreWanted, Listed
<1> QED BY <1>1, HttpInvariant, PTL

\* securityHeaders around writeOriginAllowed: a page of another origin whose
\* write is not refused for its origin can read the answer, and a listed
\* origin can read every answer.
THEOREM HttpPartnerReadsAnswer == Spec => []PartnerReadsAnswer
<1>1. HttpInv => PartnerReadsAnswer
  <2> SUFFICES ASSUME HttpInv PROVE PartnerReadsAnswer
    OBVIOUS
  <2>1. ASSUME Answered("post"), last.req.sender \in {"stranger", "sandbox", "partner"}
        PROVE  last.ans.code # 403 <=> (last.ans.allow = last.req.origin /\ last.req.origin # "")
    BY <2>1, PostOfSender DEF AllowOrigin, Listed
  <2>2. ASSUME Replied, last.req.origin \in cfg.corsOrigins
        PROVE  last.ans.allow = last.req.origin
    BY <2>2 DEF HttpInv, AnswerFits, AllowOrigin, Listed
  <2> QED BY <2>1, <2>2 DEF PartnerReadsAnswer
<1> QED BY <1>1, HttpInvariant, PTL

\* readBody: a paste that is created is the whole text that was sent, and a
\* text over the limit is refused and not cut.
THEOREM HttpCreatedIsWhole == Spec => []CreatedIsWhole
<1>1. HttpInv => CreatedIsWhole
  BY DEF HttpInv, AnswerFits
<1> QED BY <1>1, HttpInvariant, PTL

\* keyParam and handleFrontend: a key that was given out leads to its paste,
\* with or without an extension, and opens the page, for every generator, length
\* of the key and bundle, as long as it has no dot and its address is one segment:
\* not empty and, sent as it is, without a slash or another mark.
THEOREM HttpCreatedIsReachable == Spec => []CreatedIsReachable
<1>1. HttpInv => CreatedIsReachable
  <2> SUFFICES ASSUME HttpInv, NEW k \in DOMAIN store, NEW e \in Extensions, "." \notin ToSet(k),
                      OneSegment(last.req)
               PROVE  /\ (Answered("json") \/ Answered("raw")) /\ last.req.path = k \o e =>
                            \/ last.ans.code = 500
                            \/ last.ans.code = 200 /\ last.ans.text = store[k]
                      /\ Answered("page") /\ last.req.path = k =>
                            last.ans.kind = "index" \/ (Enabled(cfg) /\ k = AdminPath)
    BY DEF CreatedIsReachable
  <2>1. KeyParam(k \o e) = k
    BY KeyParamFindsKey DEF HttpInv, Stored
  <2>2. k \notin AssetFiles
    BY FilesAssumption
  <2>3. ASSUME Answered("json") \/ Answered("raw"), last.req.path = k \o e
        PROVE  last.ans.code = 500 \/ (last.ans.code = 200 /\ last.ans.text = store[k])
    BY <2>1, <2>3 DEF HttpInv, AnswerFits, ReadFits
  <2>4. ASSUME Answered("page"), last.req.path = k
        PROVE  last.ans.kind = "index" \/ (Enabled(cfg) /\ k = AdminPath)
    BY <2>2, <2>4 DEF HttpInv, AnswerFits, FrontendKind
  <2> QED BY <2>3, <2>4
<1> QED BY <1>1, HttpInvariant, PTL

\* discoverThemes and serveThemeOverlay: the page is never told of a theme that
\* does not exist, and a theme of the list is answered with a style sheet unless
\* there is none left, or the overlay's file goes away between os.Stat and
\* http.ServeFile or cannot be read.
THEOREM HttpThemesWork == Spec => []ThemesWork
<1>1. HttpInv => ThemesWork
  <2> SUFFICES ASSUME HttpInv PROVE ThemesWork
    OBVIOUS
  <2>1. ASSUME Answered("theme"), last.req.path \in themes.files
        PROVE  LET n == last.req.path
               IN \/ last.ans.kind \in {"overlay", "asset"}
                  \/ n \notin Embedded /\ last.req.seen \notin {"file", "locked"}
                  \/ last.req.seen \in {"file", "locked"} /\ overlay[n] # "file"
                  \/ last.ans.code = 500
    <3>1. ThemesListed
      BY <2>1 DEF HttpInv, StartInv, AnswerFits, Answered, None
    <3>2. ThemeFits
      BY <2>1 DEF HttpInv, AnswerFits
    <3> QED BY <2>1, <3>1, <3>2 DEF ThemesListed, ThemeFits
  <2> QED BY <2>1 DEF ThemesWork, HttpInv, StartInv, ThemesListed
<1> QED BY <1>1, HttpInvariant, PTL

----------------------------------------------------------------------------
LEMMA FrontOf ==
    ASSUME NEW S, NEW p \in Seq(S), Len(p) > 0
    PROVE  Front(p) \in Seq(S) /\ Len(Front(p)) = Len(p) - 1
<1>1. Front(p) = SubSeq(p, 1, Len(p) - 1)
  BY DEF Front
<1> DEFINE m == Len(p) - 1
<1>2. Len(p) \in Nat /\ m \in Nat /\ m <= Len(p)
  OBVIOUS
<1> HIDE DEF m
<1>3. SubSeq(p, 1, m) \in Seq(S) /\ Len(SubSeq(p, 1, m)) = m
  BY <1>2
<1> QED BY <1>1, <1>3 DEF m

LEMMA JoinOf ==
    ASSUME NEW S, NEW a \in Seq(S), NEW b \in Seq(S)
    PROVE  /\ a \o b \in Seq(S) /\ Len(a) \in Nat /\ Len(b) \in Nat
           /\ Len(a \o b) = Len(a) + Len(b)
           /\ Len(b) > 0 => (a \o b)[Len(a) + 1] = b[1] /\ Len(a) + 1 \in DOMAIN (a \o b)
           /\ Len(a) > 0 => (a \o b)[1] = a[1]
OBVIOUS

LEMMA SequenceOfOne == ASSUME NEW A, NEW x \in A PROVE <<x>> \in Seq(A)
OBVIOUS

LEMMA SequenceOfMore ==
    ASSUME NEW A, NEW B, A \subseteq B, NEW p \in Seq(A)
    PROVE  p \in Seq(B)
<1>1. Len(p) \in Nat /\ p \in [1..Len(p) -> B]
  OBVIOUS
<1> QED BY <1>1

\* A set of small numbers has a greatest.
LEMMA HasMax ==
    ASSUME NEW n \in Nat, NEW S \in SUBSET (0..n), S # {}
    PROVE  Max(S) \in S
<1> DEFINE T == {m \in Nat : \A U \in SUBSET (0..m) : U # {} => \E x \in U : \A y \in U : x >= y}
<1>1. 0 \in T
  <2>1. ASSUME NEW U \in SUBSET (0..0), U # {} PROVE 0 \in U /\ \A y \in U : 0 >= y
    <3>1. \A y \in U : y = 0
      OBVIOUS
    <3>2. PICK u \in U : TRUE
      BY <2>1
    <3>3. 0 \in U
      BY <3>1, <3>2
    <3>4. \A y \in U : 0 >= y
      BY <3>1
    <3> QED BY <3>3, <3>4
  <2> QED BY <2>1
<1>2. ASSUME NEW m \in T PROVE m + 1 \in T
  <2>1. ASSUME NEW U \in SUBSET (0..(m+1)), U # {}
        PROVE  \E x \in U : \A y \in U : x >= y
    <3>1. CASE m + 1 \in U
      BY <3>1
    <3>2. CASE m + 1 \notin U
      <4>1. U \in SUBSET (0..m)
        BY <3>2
      <4> QED BY <2>1, <4>1
    <3> QED BY <3>1, <3>2
  <2> QED BY <2>1
<1>3. T = Nat
  <2> HIDE DEF T
  <2>1. T \in SUBSET Nat
    BY DEF T
  <2> QED BY <1>1, <1>2, <2>1, SetInduction
<1>4. \E x \in S : \A y \in S : x >= y
  BY <1>3
<1> QED BY <1>4 DEF Max

\* When the header comes in one line, the entry that our own proxies appended is
\* the peer the first of them saw: either the last proxy joins what it gets, or
\* there is one proxy and the client has sent no line.
LEMMA SenderIsFound ==
    ASSUME NEW w \in Writes, NEW c, c.trustedProxyCount = Len(Proxies),
           Len(Lines(PostRequest(w))) <= 1
    PROVE  ClientIP(c, PostRequest(w)) = w.who
<1> DEFINE r == PostRequest(w)
           n == Len(Proxies)
           m == LastJoin
           T == ToSet(Proxies)
           X == (Clients \cup {""}) \cup T
           peers == Peers(r)
           parts == ForwardedFor(r)
           own == [i \in 1..(n - m) |-> <<peers[m + i]>>]
<1>1. r.who = w.who /\ r.xff = w.xff
  BY PostFields
<1>2. w.who \in Clients /\ w.xff \in Seq(Seq(Clients \cup {""}) \ {<<>>}) /\ w.who # ""
  BY WritesAreTyped, AddressesAssumption
<1>3. n \in Nat /\ Proxies \in Seq(T) /\ DOMAIN Proxies = 1..n
  <2>1. Proxies \in Seq(T)
    BY AddressesAssumption
  <2> HIDE DEF T
  <2> QED BY <2>1
<1>4. CASE Proxies = <<>>
  <2>1. n = 0
    BY <1>4
  <2>2. ~(c.trustedProxyCount > 0)
    BY <2>1
  <2> QED BY <1>1, <1>4, <2>2 DEF ClientIP, RemoteAddr
<1>5. CASE Proxies # <<>>
  <2>1. n > 0
    BY <1>3, <1>5
  <2>2. Front(Proxies) \in Seq(T) /\ Len(Front(Proxies)) = n - 1
    <3> HIDE DEF T
    <3> QED BY <1>3, <2>1, FrontOf
  <2>3. peers \in Seq(X) /\ Len(peers) = n /\ peers[1] = w.who
    <3> DEFINE f == Front(Proxies)
    <3>1. peers = <<w.who>> \o f
      BY <1>1, <1>5 DEF Peers
    <3>2. w.who \in X /\ T \subseteq X
      BY <1>2
    <3>3. f \in Seq(T) /\ Len(f) = n - 1
      BY <2>2
    <3> HIDE DEF f, X, T, peers
    <3>4. f \in Seq(X) /\ <<w.who>> \in Seq(X)
      BY <3>2, <3>3, SequenceOfMore, SequenceOfOne
    <3>5. Len(<<w.who>>) = 1 /\ <<w.who>>[1] = w.who
      OBVIOUS
    <3> DEFINE g == <<w.who>>
    <3> HIDE DEF g, n
    <3>6. peers \in Seq(X) /\ Len(peers) = Len(g) + Len(f) /\ peers[1] = g[1]
      BY <3>1, <3>4, <3>5, JoinOf DEF g
    <3> QED BY <1>3, <3>3, <3>5, <3>6 DEF g
  <2>4. m \in 0..n
    <3> DEFINE S == {0} \cup {i \in DOMAIN Proxies : Proxies[i] \notin OwnLine}
    <3>1. S \in SUBSET (0..n) /\ S # {}
      BY <1>3
    <3>2. m = Max(S)
      BY DEF LastJoin
    <3> HIDE DEF S, m
    <3> QED BY <1>3, <3>1, <3>2, HasMax
  <2>5. w.xff \in Seq(Seq(X))
    <3>1. Seq(Clients \cup {""}) \ {<<>>} \subseteq Seq(X)
      <4>1. Clients \cup {""} \subseteq X
        OBVIOUS
      <4> HIDE DEF X
      <4> QED BY <4>1, SequenceOfMore
    <3> HIDE DEF X
    <3> QED BY <1>2, <3>1, SequenceOfMore
  <2>6. own \in Seq(Seq(X)) /\ Len(own) = n - m
    <3> HIDE DEF X, peers, m
    <3>1. n - m \in Nat
      BY <1>3, <2>4
    <3>2. ASSUME NEW i \in 1..(n - m) PROVE <<peers[m + i]>> \in Seq(X)
      <4>1. m + i \in 1..n
        BY <1>3, <2>4
      <4>2. peers[m + i] \in X
        BY <2>3, <4>1
      <4> QED BY <4>2, SequenceOfOne
    <3>3. own \in [1..(n - m) -> Seq(X)]
      BY <3>2
    <3> HIDE DEF own
    <3> QED BY <3>1, <3>3
  <2>7. parts # <<>> /\ \E s \in Seq(X), t \in Seq(X) :
           parts = s \o t /\ Len(t) = n /\ t[1] = w.who
    <3>1. CASE m = 0
      <4>1. Lines(r) = w.xff \o own
        BY <1>1, <3>1 DEF Lines
      <4>2. Len(w.xff \o own) = Len(w.xff) + Len(own) /\ Len(w.xff) \in Nat
        <5> HIDE DEF own, X
        <5> DEFINE Y == Seq(X)
        <5>1. w.xff \in Seq(Y) /\ own \in Seq(Y)
          BY <2>5, <2>6
        <5> HIDE DEF Y
        <5> QED BY <5>1, JoinOf
      <4>3. n = 1 /\ Len(w.xff) = 0
        <5> DEFINE x == Len(w.xff)
        <5>1. x + Len(own) <= 1 /\ x \in Nat
          BY <4>1, <4>2
        <5>2. Len(own) = n
          <6>1. Len(own) = n - m
            BY <2>6
          <6> DEFINE y == Len(own)
          <6> HIDE DEF own, m, n, y
          <6>2. y = n - m
            BY <6>1 DEF y
          <6>3. y = n
            BY <1>3, <3>1, <6>2
          <6> QED BY <6>3 DEF y
        <5> HIDE DEF own, m, n, x
        <5>3. n = 1 /\ x = 0
          BY <1>3, <2>1, <5>1, <5>2
        <5> QED BY <5>3 DEF x
      <4>4. w.xff = <<>>
        <5> HIDE DEF X
        <5> QED BY <2>5, <4>3
      <4>5. own = <<<<w.who>>>>
        <5>1. own = [i \in 1..1 |-> <<peers[0 + i]>>]
          BY <3>1, <4>3
        <5>2. peers[1] = w.who
          <6> HIDE DEF peers
          <6> QED BY <2>3
        <5> HIDE DEF own, peers
        <5>3. own = [i \in 1..1 |-> <<w.who>>]
          BY <5>1, <5>2
        <5> QED BY <5>3
      <4>6. Lines(r) = <<<<w.who>>>>
        <5> HIDE DEF own
        <5> QED BY <4>1, <4>4, <4>5
      <4>7. parts = <<w.who>>
        BY <4>6 DEF ForwardedFor
      <4>8. <<w.who>> \in Seq(X) /\ <<>> \in Seq(X) /\ <<w.who>> = <<>> \o <<w.who>>
        <5>1. w.who \in X
          BY <1>2
        <5> HIDE DEF X
        <5> QED BY <5>1, SequenceOfOne
      <4> HIDE DEF X, parts
      <4> QED BY <4>3, <4>7, <4>8
    <3>2. CASE m # 0
      <4> DEFINE s == FlattenSeq(w.xff)
                 t == SubSeq(peers, 1, m)
      <4>1. s \in Seq(X)
        <5> HIDE DEF X
        <5> QED BY <2>5, FlattenedIsSequence
      <4>2. t \in Seq(X) /\ Len(t) = m /\ t[1] = w.who
        <5> HIDE DEF X, peers, m
        <5> QED BY <1>3, <2>3, <2>4, <3>2
      <4>3. Lines(r) = <<s \o t>> \o own
        BY <1>1, <3>2 DEF Lines
      <4> HIDE DEF s, t, own, X
      <4>4. s \o t \in Seq(X)
        BY <4>1, <4>2
      <4>5. <<s \o t>> \in Seq(Seq(X))
        BY <4>4, SequenceOfOne
      <4>6. Len(<<s \o t>> \o own) = 1 + Len(own) /\ (<<s \o t>> \o own)[1] = s \o t
        BY <2>6, <4>5
      <4>7. m = n
        <5>1. 1 + Len(own) <= 1 /\ Len(own) = n - m
          BY <2>6, <4>3, <4>6
        <5> HIDE DEF m, n
        <5> QED BY <1>3, <2>4, <5>1
      <4>8. parts = s \o t
        BY <4>3, <4>6 DEF ForwardedFor
      <4>9. s \o t # <<>>
        <5>1. Len(s \o t) = Len(s) + Len(t) /\ Len(s) \in Nat
          BY <4>1, <4>2
        <5> HIDE DEF m
        <5> QED BY <1>3, <2>1, <4>2, <4>7, <5>1
      <4> HIDE DEF m, parts
      <4> QED BY <4>1, <4>2, <4>7, <4>8, <4>9
    <3> QED BY <3>1, <3>2
  <2>8. PICK s \in Seq(X), t \in Seq(X) : parts = s \o t /\ Len(t) = n /\ t[1] = w.who
    BY <2>7
  <2> HIDE DEF X, parts
  <2>9. /\ Len(parts) = Len(s) + n /\ Len(s) \in Nat
        /\ parts[Len(s) + 1] = w.who /\ Len(s) + 1 \in DOMAIN parts
    <3> HIDE DEF n
    <3>1. /\ Len(s \o t) = Len(s) + Len(t) /\ Len(s) \in Nat
          /\ Len(t) > 0 => (s \o t)[Len(s) + 1] = t[1] /\ Len(s) + 1 \in DOMAIN (s \o t)
      BY JoinOf
    <3>2. Len(t) > 0
      BY <2>1, <2>8
    <3> QED BY <2>8, <3>1, <3>2
  <2>10. Len(parts) - c.trustedProxyCount + 1 = Len(s) + 1
    BY <1>3, <2>9
  <2>11. c.trustedProxyCount > 0
    BY <2>1
  <2> QED BY <1>2, <2>9, <2>10, <2>11 DEF ClientIP, parts
<1> QED BY <1>4, <1>5

\* A write that grows an entry grows the sender's.
LEMMA ChargeGrowsSender ==
    ASSUME HttpInv, NEW w \in Writes, NEW text, Charge(PostRequest(w), text),
           cfg.trustedProxyCount = Len(Proxies), Len(Lines(PostRequest(w))) <= 1,
           NEW a \in Addresses, charged'[a] > charged[a]
    PROVE  a = w.who
<1>1. charged \in [Addresses -> Nat]
  BY DEF HttpInv, Stored
<1>2. ClientIP(cfg, PostRequest(w)) = w.who
  BY SenderIsFound
<1>3. charged' = [charged EXCEPT ![w.who] = @ + Len(text)]
  BY <1>2 DEF Charge
<1>4. a # w.who => charged'[a] = charged[a]
  BY <1>1, <1>3
<1>5. charged[a] \in Nat
  BY <1>1
<1> QED BY <1>4, <1>5

(* With the right number of proxies configured the client who sent the bytes   *)
(* is charged for them, whatever he writes into X-Forwarded-For, for any chain *)
(* of proxies from which the header comes in one line: counting from the right *)
(* then ends at the entry the first of them wrote (clientIP).                  *)
THEOREM HttpSenderIsCharged == Spec => SenderIsCharged
<1> DEFINE ByItsSender == \A a \in Addresses :
              cfg.trustedProxyCount = Len(Proxies) /\ charged'[a] > charged[a]
              /\ Len(Lines(last'.req)) <= 1 =>
                  a = last'.req.who
<1>1. HttpInv /\ [Next]_vars => ByItsSender
  <2> SUFFICES ASSUME HttpInv, [Next]_vars, NEW a \in Addresses,
                      cfg.trustedProxyCount = Len(Proxies), charged'[a] > charged[a],
                      Len(Lines(last'.req)) <= 1
               PROVE  a = last'.req.who
    OBVIOUS
  <2>0. charged \in [Addresses -> Nat]
    BY DEF HttpInv, Stored
  <2>1. charged' # charged
    BY <2>0
  <2>2. CASE NewWindow
    <3>1. charged'[a] = 0 /\ charged[a] \in Nat
      BY <2>0, <2>2 DEF NewWindow
    <3> QED BY <3>1
  <2>3. ASSUME NEW w \in Writes, Post(w)
        PROVE  a = last'.req.who
    <3> DEFINE r == PostRequest(w)
    <3>1. Create(r) \/ CreateFails(r)
      BY <2>1, <2>3 DEF Post, Refused, ReadFails, OverBudget
    <3>2. r.who = w.who
      BY PostFields
    <3>3. PICK text : Charge(r, text)
      BY <3>1 DEF Create, CreateFails
    <3>4. last'.req = r
      <4>1. CASE Create(r)
        <5>1. PICK k : Answer(r, 201, "json", k, <<>>)
          BY <4>1 DEF Create
        <5> QED BY <5>1, AnswerRecord
      <4>2. CASE CreateFails(r)
        BY <4>2, AnswerRecord DEF CreateFails, Refuse
      <4> QED BY <3>1, <4>1, <4>2
    <3>5. Len(Lines(PostRequest(w))) <= 1
      BY <3>4
    <3>6. a = w.who
      BY <3>3, <3>5, ChargeGrowsSender
    <3> QED BY <3>2, <3>4, <3>6
  <2>4. CASE UNCHANGED vars
    BY <2>1, <2>4 DEF vars
  <2>5. CASE Start /\ UNCHANGED <<store, charged, last>>
    BY <2>1, <2>5
  <2>6. CASE \E o \in Overlays : ~Replied /\ EditOverlay(o) /\ UNCHANGED <<store, charged, last>>
    BY <2>1, <2>6
  <2>7. ASSUME NEW op, NEW id, NEW o, NEW plain, Get(op, id, o, plain) PROVE FALSE
    BY <2>1, <2>7, Zenon DEF Get
  <2>8. ASSUME NEW n, Page(n) \/ Theme(n) \/ ServeOverlay PROVE FALSE
    BY <2>1, <2>8, Zenon DEF Page, Theme, ServeOverlay
  <2>9. ASSUME NEW o, Options(o) \/ Limited(o) PROVE FALSE
    BY <2>1, <2>9, Zenon DEF Options, Limited
  <2>10. CASE Sent
    BY <2>1, <2>10 DEF Sent
  <2> QED BY <2>2, <2>3, <2>4, <2>5, <2>6, <2>7, <2>8, <2>9, <2>10 DEF Next
<1>2. Spec => []HttpInv
  BY HttpInvariant
<1>3. []HttpInv /\ [][Next]_vars => [][ByItsSender]_vars
  BY <1>1, PTL
<1> QED BY <1>2, <1>3, PTL DEF Spec, SenderIsCharged

=============================================================================
