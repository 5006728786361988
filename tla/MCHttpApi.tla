----------------------------- MODULE MCHttpApi -----------------------------
(***************************************************************************)
(* The configurations and requests of the TLC runs.  The alphabet is a, d  *)
(* and D, "admin" is the word ad, the bundle has a directory da.           *)
(***************************************************************************)
EXTENDS HttpApi

MCEmbedded == {"moss"}
MCSafeNames == {"rake", "moss", "brand"}
MCFileNames == {"moss", "brand", "Bad"}
MCVowels == {"a"}
MCConsonants == {"d"}
MCCapitals == {"D"}
MCClients == {"c1", "c2"}
TwoProxies == <<"p1", "p2">>
FirstOwn == {"p1"}
MCAdminPath == <<"a", "d">>
MCAssetDirs == {<<"d", "a">>}
MCAssetFiles == {<<"a", ".", "d">>}
MCExtensions == {<<>>, <<".", "a">>, <<".", "a", ".", "d">>}

X(n) == [i \in 1..n |-> "x"]

Tool(b, form) == [who |-> "c1", xff |-> <<>>, sender |-> "tool", head |-> <<"", "">>,
                  body |-> b, form |-> form]

\* Bodies of every length around the limit; clients who send X-Forwarded-For; browsers.
MCWrites ==
    {Tool(b, form) : b \in {X(n) : n \in 0..5} \cup {<<" ", " ">>, <<" ", "x">>}, form \in BOOLEAN}
    \cup {[Tool(X(1), FALSE) EXCEPT !.who = a, !.xff = f] :
             a \in MCClients, f \in {<<<<"c1">>>>, <<<<"c2", "">>>>, <<<<"c2">>, <<"c1">>>>}}
    \cup UNION {{[Tool(X(1), FALSE) EXCEPT !.sender = s, !.head = h] : h \in Senders[s]} :
                  s \in DOMAIN Senders}

Layer(yaml, env) == [readable |-> TRUE, yaml |-> yaml, env |-> env]

File(n) == [f \in MCFileNames |-> IF f \in n THEN "file" ELSE "none"]
MCOverlays == {File({}), File({"brand", "Bad"}), File({"moss"}),
               [File({}) EXCEPT !["moss"] = "dir", !["brand"] = "link"],
               [File({}) EXCEPT !["moss"] = "locked"]}

Small == [keyType |-> "phonetic", maxLength |-> 1]

\* Groups of settings that bear on one another, over both layers.
ConsoleLayers ==
    {Layer(y @@ Small, e) :
       y \in {[mode |-> "local", sessionKey |-> k, admins |-> a] :
                 k \in {15, 16}, a \in {<<>>, <<TRUE>>, <<TRUE, FALSE>>}}
             \cup {[mode |-> "oidc", sessionKey |-> 16, issuer |-> i] : i \in {"", "https"}},
       e \in {<<>>, [mode |-> "disabled"], [mode |-> "odic"], [sessionKey |-> 0],
              [sessionTTL |-> <<0>>, loginRateLimit |-> <<-1>>], [issuer |-> ""]}}
ThemeLayers ==
    {Layer([themeDir |-> "css", themeDefault |-> d] @@ Small, e) :
       d \in {"brand", "Bad", ""},
       e \in {<<>>, [themeForced |-> "brand"], [themeForced |-> "moss", themeDir |-> ""]}}
OriginLayers ==
    {Layer([corsOrigins |-> {"partner"}, trustedProxyCount |-> 1] @@ Small, e) :
       e \in {<<>>, [corsOrigins |-> <<"">>], [corsOrigins |-> <<"*">>],
              [corsOrigins |-> <<"null", "", "partner">>], [trustedProxyCount |-> <<>>],
              [trustedProxyCount |-> <<2>>]}}
KeyLayers ==
    {Layer([keyType |-> t, keyWords |-> w] @@ Small, <<>>) :
       t \in {"random", "", "dictionary", "uuid"},
       w \in {{}, {<<"a">>, <<"d">>}, {<<"a", ".", "d">>, <<"d">>}, {<<"a", "/", "d">>, <<"d">>}}}
    \cup {Layer([keyType |-> t, keyLength |-> n] @@ Small, <<>>) :
             t \in {"random", "phonetic"}, n \in {-1, 0}}
OtherLayers ==
    {Layer([storageType |-> "sqlite", expireDays |-> 0, expire |-> 5] @@ Small, e) :
       e \in {[storageType |-> "mongo"], [expireDays |-> <<2>>], [expire |-> <<>>]}}
    \cup {Layer([keyLength |-> 1], e) : e \in {<<>>, [maxLength |-> <<2>>]}}
    \cup {[Layer(<<>>, <<>>) EXCEPT !.readable = FALSE]}

MCLayers == ConsoleLayers \cup ThemeLayers \cup OriginLayers \cup KeyLayers \cup OtherLayers

\* The limit switched off, by either layer.
NoLimitLayers == {Layer([maxLength |-> 0], <<>>), Layer(<<>>, [maxLength |-> <<0>>])}

=============================================================================
