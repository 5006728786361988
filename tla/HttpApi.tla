------------------------------- MODULE HttpApi -------------------------------
(***************************************************************************)
(* What the handler makes of one HTTP request: the middleware chain        *)
(* (securityHeaders outside the limiter, both outside the routes), the     *)
(* checks of handlePost in their order, reading the body, choosing a key   *)
(* with the configured generator, and the routes that read.  It runs under *)
(* whatever configuration Startup came up with.                            *)
(*                                                                         *)
(* Requests are answered whole, one at a time: their interleavings are     *)
(* PasteService's and RateLimiter's.  A body, a key and an extension are   *)
(* sequences of letters; the mux is modelled by the route it picks, HEAD   *)
(* by GET.  The request limiter answers as it likes, the byte budget       *)
(* counts.                                                                 *)
(***************************************************************************)
EXTENDS Startup

CONSTANTS
    Clients, Proxies,     \* addresses; the proxies that really stand before the server
    OwnLine,              \* the proxies that write their X-Forwarded-For entry on a
                          \* line of its own, as HAProxy does; the others join the
                          \* lines they get and append to them
    Writes,               \* the writes tried: who sends what from where
    Framing, Slack,       \* what a form adds to its content, what the code allows for it
    AdminPath,            \* the word "admin"
    AssetDirs, AssetFiles,   \* names in the embedded bundle
    Extensions,           \* what follows the key in an address
    Budget, MaxPastes     \* bytes per client and window; bound on the store

ASSUME FramingAssumption == Framing \in 0..Slack
ASSUME AddressesAssumption == "" \notin Clients /\ Proxies \in Seq(ToSet(Proxies))
\* web/static: every file of the bundle has an extension.
ASSUME FilesAssumption == \A f \in AssetFiles : "." \in ToSet(f)
ASSUME ExtensionsAssumption ==
    \A e \in Extensions : e \in Seq(STRING) /\ (e = <<>> \/ e[1] = ".")

VARIABLES
    store,     \* the pastes: a partial function from keys to texts
    charged,   \* bytes charged to an address in its window
    last       \* history: the last request and its answer

vars == <<startVars, store, charged, last>>

\* Who sends a browser's write: the headers that come with it, new browsers and
\* old ones.  A tool is no browser; a privacy tool removes Origin.
Senders ==
    [page     |-> {<<"same-origin", "self">>, <<"", "self">>},
     sibling  |-> {<<"same-site", "sibling">>, <<"", "sibling">>},
     stranger |-> {<<"cross-site", "stranger">>, <<"", "stranger">>, <<"cross-site", "">>},
     partner  |-> {<<"cross-site", "partner">>, <<"", "partner">>},
     sandbox  |-> {<<"cross-site", "null">>, <<"", "null">>},
     tool     |-> {<<"", "">>}]

Addresses == Clients \cup ToSet(Proxies)

None == [req |-> [op |-> "none"]]

\* The server is up and between two requests.
Idle == stage = "up" /\ last = None

\* An answer is there; os.Stat alone is none.
Replied == last.req.op \notin {"none", "stat"}

\* xff is what the client himself has put into X-Forwarded-For, line by line, an
\* empty entry being ""; head is Sec-Fetch-Site and Origin.
IsWrite(w) ==
    /\ w.who \in Clients /\ w.form \in BOOLEAN
    /\ w.sender \in DOMAIN Senders /\ w.head \in Senders[w.sender]
    /\ w.xff \in Seq(Seq(Clients \cup {""}) \ {<<>>}) /\ w.body \in Seq({"x", " "})

ASSUME WritesAssumption == \A w \in Writes : IsWrite(w)

----------------------------------------------------------------------------
(***************************************************************************)
(* The client's address.                                                   *)
(***************************************************************************)
\* Each proxy adds the peer it got the request from; the last is RemoteAddr.
Peers(r) == IF Proxies = <<>> THEN <<>> ELSE <<r.who>> \o Front(Proxies)

RemoteAddr(r) == IF Proxies = <<>> THEN r.who ELSE Last(Proxies)

\* The last proxy that joins lines leaves one, those after it add theirs.
LastJoin == Max({0} \cup {i \in DOMAIN Proxies : Proxies[i] \notin OwnLine})

\* The lines of X-Forwarded-For as they reach the server.
Lines(r) ==
    (IF LastJoin = 0 THEN r.xff
     ELSE <<FlattenSeq(r.xff) \o SubSeq(Peers(r), 1, LastJoin)>>)
    \o [i \in 1..(Len(Proxies) - LastJoin) |-> <<Peers(r)[LastJoin + i]>>]

\* Header.Get: the first line.
ForwardedFor(r) == IF Lines(r) = <<>> THEN <<>> ELSE Head(Lines(r))

\* Wrong variant: counted from the left.
ClientIPFromLeft(c, r) ==
    LET parts == ForwardedFor(r)
    IN IF c.trustedProxyCount \in DOMAIN parts /\ parts[c.trustedProxyCount] # ""
       THEN parts[c.trustedProxyCount] ELSE RemoteAddr(r)

\* clientIP: the entry that our own proxies appended, counted from the right.
ClientIP(c, r) ==
    LET parts == ForwardedFor(r)
        i     == Len(parts) - c.trustedProxyCount + 1
    IN IF c.trustedProxyCount > 0 /\ i \in DOMAIN parts /\ parts[i] # ""
       THEN parts[i] ELSE RemoteAddr(r)

----------------------------------------------------------------------------
(***************************************************************************)
(* Headers and the check of the write's origin.                            *)
(***************************************************************************)
\* corsOrigin # ""
Listed(c, origin) == origin # "" /\ {"*", origin} \cap c.corsOrigins # {}

\* Wrong variant: the answer's header does not know "*".
AllowOriginExact(c, r) == IF r.origin \in c.corsOrigins THEN r.origin ELSE ""

\* securityHeaders: Access-Control-Allow-Origin.  It wraps everything, the
\* limiter included.
AllowOrigin(c, r) == IF Listed(c, r.origin) THEN r.origin ELSE ""

\* Wrong variant: a request without Origin is no browser's.
WriteOriginAllowedBare(c, r) ==
    \/ r.site \in {"same-origin", "same-site", "none"}
    \/ r.origin \in {"", "self"}
    \/ Listed(c, r.origin)

\* writeOriginAllowed
WriteOriginAllowed(c, r) ==
    \/ r.site \in {"same-origin", "same-site", "none"}
    \/ r.origin = "" /\ r.site = ""
    \/ r.origin = "self"
    \/ Listed(c, r.origin)

----------------------------------------------------------------------------
(***************************************************************************)
(* handlePost.                                                             *)
(***************************************************************************)
\* io.LimitReader
Upto(s, n) == SubSeq(s, 1, Min({n, Len(s)}))

\* Wrong variant: a raw body is read up to the limit.
ReadBodyToLimit(c, r) ==
    IF r.form THEN {r.body} ELSE {Upto(r.body, c.maxLength)}

\* readBody: {} for an error, else the one text.  A raw body is read up to one
\* byte past the limit, a form up to the limit and some slack.
ReadBody(c, r) ==
    IF r.form
    THEN IF Len(r.body) + Framing > c.maxLength + Slack THEN {} ELSE {r.body}
    ELSE {Upto(r.body, c.maxLength + 1)}

TooLong(c, text) == c.maxLength > 0 /\ Len(text) > c.maxLength

Blank(text) == ToSet(text) \subseteq {" "}

\* chargeBytes
HasBytes(ip, n) == charged[ip] + n <= Budget

Answer(r, code, kind, key, text) ==
    last' = [req |-> r,
             ans |-> [code |-> code, kind |-> kind, key |-> key, text |-> text,
                      allow |-> AllowOrigin(cfg, r)]]

Refuse(r, code) == Answer(r, code, "error", <<>>, <<>>)

\* Why a write is refused before anything is charged: 0 when it is not.
Refusal(c, r) ==
    IF ~ WriteOriginAllowed(c, r) THEN 403
    ELSE IF \A text \in ReadBody(c, r) : TooLong(c, text) \/ Blank(text) THEN 400
    ELSE 0

Refused(r) ==
    /\ Refusal(cfg, r) # 0
    /\ Refuse(r, Refusal(cfg, r))
    /\ UNCHANGED <<store, charged>>

\* The text of an admitted write is charged to its client ...
Charge(r, text) ==
    LET ip == ClientIP(cfg, r)
    IN /\ Refusal(cfg, r) = 0 /\ text \in ReadBody(cfg, r)
       /\ HasBytes(ip, Len(text))
       /\ charged' = [charged EXCEPT ![ip] = @ + Len(text)]

\* The connection breaks while the body is read, or a form is malformed.
ReadFails(r) ==
    /\ WriteOriginAllowed(cfg, r)
    /\ Refuse(r, IF r.form THEN 400 ELSE 500)
    /\ UNCHANGED <<store, charged>>

OverBudget(r) ==
    /\ Refusal(cfg, r) = 0
    /\ \A text \in ReadBody(cfg, r) : ~ HasBytes(ClientIP(cfg, r), Len(text))
    /\ Refuse(r, 429)
    /\ UNCHANGED <<store, charged>>

\* ... then chooseKey and Set give it a key.
Create(r) ==
    \E text \in ReadBody(cfg, r), k \in KeysOf(cfg) \ DOMAIN store :
        /\ Charge(r, text)
        /\ Cardinality(DOMAIN store) < MaxPastes
        /\ store' = Over([x \in {k} |-> text], store)
        /\ Answer(r, 201, "json", k, <<>>)

\* The store fails, in the probe or in Set: the charge stays.
CreateFails(r) ==
    /\ \E text \in ReadBody(cfg, r) : Charge(r, text)
    /\ Refuse(r, 500)
    /\ UNCHANGED store

PostRequest(w) ==
    [op |-> "post", who |-> w.who, xff |-> w.xff, sender |-> w.sender,
     site |-> w.head[1], origin |-> w.head[2], body |-> w.body, form |-> w.form]

Post(w) ==
    /\ Idle
    /\ LET r == PostRequest(w)
       IN Refused(r) \/ ReadFails(r) \/ OverBudget(r) \/ Create(r) \/ CreateFails(r)
    /\ UNCHANGED startVars

----------------------------------------------------------------------------
(***************************************************************************)
(* The routes that read, preflights, and what has no route.                *)
(***************************************************************************)
\* keyParam
KeyParam(id) ==
    LET dots == {i \in DOMAIN id : id[i] = "."}
    IN IF dots = {} THEN id ELSE SubSeq(id, 1, Min(dots) - 1)

\* plain: the address is written as it is, the way the page and a visitor do it,
\* and not percent-encoded.
ReadRequest(op, path, origin, plain) ==
    [op |-> op, path |-> path, site |-> "", origin |-> origin, sender |-> "page",
     plain |-> plain]

\* Characters that an address written plainly gives a meaning of their own.
Marks == {"/", "?", "#", "%", "\\", "\t"}

\* The path arrives as the one segment it was meant to be: {id} takes exactly one,
\* and none that is empty or that the mux cleans away.
OneSegment(r) ==
    /\ r.path \notin {<<>>, <<".">>, <<".", ".">>}
    /\ r.plain => ToSet(r.path) \cap Marks = {}

\* handleGet and handleRawGet, once the key is known.
ReadOf(r, k) ==
    \/ k \in DOMAIN store /\ Answer(r, 200, r.op, k, store[k])
    \/ k \notin DOMAIN store /\ Refuse(r, 404)
    \/ Refuse(r, 500)

\* A path that is read as another one: the page, a redirect to the cleaned path, a
\* bad request or some other key's read.
Astray(r) ==
    \/ Answer(r, 200, "index", <<>>, <<>>)
    \/ Answer(r, 301, "redirect", <<>>, <<>>)
    \/ Refuse(r, 400)
    \/ \E k \in KeysOf(cfg) : ReadOf(r, k)

Get(op, id, origin, plain) ==
    LET r == ReadRequest(op, id, origin, plain)
    IN /\ Idle
       /\ IF OneSegment(r) THEN ReadOf(r, KeyParam(id)) ELSE Astray(r)
       /\ UNCHANGED <<startVars, store, charged>>

\* Wrong variant: directories are served as files are.
FrontendKindDirs(c, name) ==
    IF name = AdminPath /\ Enabled(c) THEN "admin"
    ELSE IF name \in AssetFiles \cup AssetDirs THEN "asset"
    ELSE "index"

\* handleFrontend below the root: a file of the bundle is served, everything else,
\* directories of the bundle among it, is the page, which reads the key from its
\* address.  With the console switched on /admin is its own route.
FrontendKind(c, name) ==
    IF name = AdminPath /\ Enabled(c) THEN "admin"
    ELSE IF name \in AssetFiles THEN "asset"
    ELSE "index"

Page(name) ==
    LET r == ReadRequest("page", name, "", TRUE)
    IN /\ Idle
       /\ IF OneSegment(r) THEN Answer(r, 200, FrontendKind(cfg, name), <<>>, <<>>)
          ELSE Astray(r)
       /\ UNCHANGED <<startVars, store, charged>>

\* Wrong variant: whatever is in the overlay is served.
StatFindsAny(c, n) == c.themeDir # "" /\ n \in FileNames /\ overlay[n] # "none"

\* serveThemeOverlay up to os.Stat, which asks for no right to read the file and
\* follows links.
StatFinds(c, n) ==
    c.themeDir # "" /\ n \in SafeNames \cap FileNames /\ overlay[n] \in {"file", "locked"}

\* seen is history: what the overlay held.
ThemeRequest(n) ==
    [op |-> "theme", path |-> n, site |-> "", origin |-> "", sender |-> "page", plain |-> TRUE,
     seen |-> IF n \in FileNames THEN overlay[n] ELSE "none"]

\* Without such a file the bundle answers, and without that the page.
Theme(n) ==
    LET r == ThemeRequest(n)
    IN /\ Idle
       /\ IF StatFinds(cfg, n) THEN last' = [req |-> [r EXCEPT !.op = "stat"]]
          ELSE Answer(r, 200, IF n \in Embedded THEN "asset" ELSE "index", <<>>, <<>>)
       /\ UNCHANGED <<startVars, store, charged>>

\* http.ServeFile goes by the name again, and there is no way back to the bundle.
ServeOverlay ==
    LET r == [last.req EXCEPT !.op = "theme"]
        o == overlay[last.req.path]
    IN /\ last.req.op = "stat"
       /\ \/ o = "file" /\ Answer(r, 200, "overlay", <<>>, <<>>)
          \/ o = "locked" /\ Refuse(r, 403)
          \/ o \in {"none", "link"} /\ Refuse(r, 404)
          \/ o \in {"dir", "link"} /\ Answer(r, 301, "redirect", <<>>, <<>>)
          \/ Refuse(r, 500)
       /\ UNCHANGED <<startVars, store, charged>>

\* OPTIONS: answered by securityHeaders for an origin in the list, else, like any
\* method without a route, by the mux.
Options(origin) ==
    LET r == ReadRequest("options", <<>>, origin, TRUE)
    IN /\ Idle
       /\ IF Listed(cfg, origin) THEN Answer(r, 204, "none", <<>>, <<>>) ELSE Refuse(r, 405)
       /\ UNCHANGED <<startVars, store, charged>>

\* The request limiter's refusal, before any route; preflights do not reach it.
Limited(origin) ==
    /\ Idle
    /\ Refuse(ReadRequest("limited", <<>>, origin, TRUE), 429)
    /\ UNCHANGED <<startVars, store, charged>>

\* The answer is on its way.
Sent ==
    /\ Replied
    /\ last' = None
    /\ UNCHANGED <<startVars, store, charged>>

\* Another window for every client.
NewWindow ==
    /\ Idle
    /\ \E a \in Addresses : charged[a] > 0
    /\ charged' = [a \in Addresses |-> 0]
    /\ UNCHANGED <<startVars, store, last>>

----------------------------------------------------------------------------
Init ==
    /\ StartInit
    /\ store = <<>> /\ last = None
    /\ charged = [a \in Addresses |-> 0]

Origins == {head[2] : head \in UNION {Senders[s] : s \in DOMAIN Senders}}

Next ==
    \/ Start /\ UNCHANGED <<store, charged, last>>
    \/ \E o \in Overlays : ~Replied /\ EditOverlay(o) /\ UNCHANGED <<store, charged, last>>
    \/ \E w \in Writes : Post(w)
    \/ \E op \in {"json", "raw"}, k \in KeysOf(cfg), e \in Extensions, o \in {"", "partner"},
          plain \in BOOLEAN : Get(op, k \o e, o, plain)
    \/ \E k \in KeysOf(cfg) \cup AssetFiles \cup AssetDirs : Page(k)
    \/ \E n \in FileNames \cup Embedded : Theme(n)
    \/ ServeOverlay
    \/ \E o \in Origins : Options(o) \/ Limited(o)
    \/ Sent \/ NewWindow

Spec == Init /\ [][Next]_vars

----------------------------------------------------------------------------
Answered(op) == last.req.op = op

(* A write is accepted or refused by who makes it, whichever headers his       *)
(* browser is able to send: another site's page gets nothing stored or charged *)
(* unless its origin is in the list, and the own page and tools are never      *)
(* turned away (writeOriginAllowed).                                           *)
WritesAreWanted ==
    Answered("post") =>
        /\ last.req.sender \in {"stranger", "sandbox", "partner"} /\ last.ans.code # 403
           => {"*", last.req.origin} \cap cfg.corsOrigins # {} /\ last.req.origin # ""
        /\ last.req.sender \in {"page", "tool"} => last.ans.code # 403

(* A page of another origin whose write is accepted can read the answer, the   *)
(* refusals of the later checks included: the allowlist is the same for the    *)
(* write and for the answer's CORS header.  And an origin in the list can read *)
(* whatever it gets, also what never reaches a route: the limiter's 429, a     *)
(* preflight's 204 (chain in New).                                             *)
PartnerReadsAnswer ==
    /\ Answered("post") /\ last.req.sender \in {"stranger", "sandbox", "partner"} =>
          (last.ans.code # 403 <=> last.ans.allow = last.req.origin /\ last.req.origin # "")
    /\ Replied /\ last.req.origin \in cfg.corsOrigins =>
          last.ans.allow = last.req.origin

(* A paste that is created is the whole text that was sent, and a text over    *)
(* the limit is refused and not cut, whichever way it is sent (readBody).      *)
CreatedIsWhole ==
    Answered("post") /\ last.ans.code = 201 /\ cfg.maxLength > 0 =>
        /\ store[last.ans.key] = last.req.body
        /\ Len(last.req.body) <= cfg.maxLength

(* The same when the limit is switched off.                                    *)
UnlimitedIsWhole ==
    Answered("post") /\ last.ans.code = 201 /\ cfg.maxLength = 0 =>
        store[last.ans.key] = last.req.body

(* A key that was given out leads to its paste, with or without an extension,  *)
(* and /key opens the page, for every generator that draws it and also when    *)
(* the bundle has a directory of that name (keyParam, handleFrontend).  What   *)
(* breaks this is left out: words with a dot in a word list; an address that   *)
(* is no single segment, which is the bare key of keyLength 0, and, sent as it *)
(* is, a word with a slash or another mark (the page does so,                  *)
(* application.js:235; a client that encodes it is served); and the key        *)
(* "admin" while the console is on.                                            *)
CreatedIsReachable ==
    \A k \in DOMAIN store, e \in Extensions :
        "." \notin ToSet(k) /\ Replied =>
            /\ (Answered("json") \/ Answered("raw")) /\ last.req.path = k \o e /\ OneSegment(last.req) =>
                  \/ last.ans.code = 500
                  \/ last.ans.code = 200 /\ last.ans.text = store[k]
            /\ Answered("page") /\ last.req.path = k /\ OneSegment(last.req) =>
                  last.ans.kind = "index" \/ (Enabled(cfg) /\ k = AdminPath)

(* The page is never told to use a theme that does not exist, though the       *)
(* default and the forced theme are configured by name alone (discoverThemes). *)
(* And a theme of the list is answered with a style sheet, whatever the        *)
(* operator has done to the overlay since the list was made, unless there is   *)
(* none left, or he takes the file away between the look at it and its         *)
(* opening, or the file cannot be read: there is no way back to the embedded   *)
(* sheet then (serveThemeOverlay).                                             *)
ThemesWork ==
    /\ stage \in {"listen", "up"} =>
          /\ {themes.initial, themes.default} \subseteq themes.files \cup {BaseTheme}
          /\ themes.forced # "" => themes.forced = themes.initial
    /\ Answered("theme") /\ last.req.path \in themes.files =>
          LET n == last.req.path
          IN \/ last.ans.kind \in {"overlay", "asset"}
             \/ n \notin Embedded /\ last.req.seen \notin {"file", "locked"}
             \/ last.req.seen \in {"file", "locked"} /\ overlay[n] # "file"
             \/ last.ans.code = 500

(* With the right number of proxies configured the client who sent the bytes   *)
(* is charged for them, whatever he writes into X-Forwarded-For, as long as    *)
(* the header reaches the server in one line (clientIP).  README.md:97-99 says *)
(* so without that condition; where a proxy adds a line of its own, the first  *)
(* line, which alone is read, need not hold the entry counted.                 *)
SenderIsCharged ==
    [][\A a \in Addresses :
          cfg.trustedProxyCount = Len(Proxies) /\ charged'[a] > charged[a]
          /\ Len(Lines(last'.req)) <= 1 =>
              a = last'.req.who]_vars

=============================================================================
