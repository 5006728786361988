# gopaste in TLA+

Models of gopaste, the TLC configurations that check them on small instances,
and theorems about every part of it that TLAPS proves for every value of the
constants: each safety property the runs check is one of them.  Every
definition is translated from the source under `src/`;
`PROJECT.json` maps each to the lines it stands for and lists the components,
runs, mutants, findings, hazards and theorems.

## 1. The system

gopaste is one Go process.  `cmd/gopaste/main.go` reads the configuration,
opens a store, puts the embedded document `about` into it and serves HTTP, one
goroutine per request.  Visitors use a JavaScript page, administrators a second
one behind a login.

| Component | State | Operations | Correct when |
|---|---|---|---|
| Store interface (`internal/store/store.go`) | one paste per key, with an optional deadline | Get (may slide the deadline), Set, Delete, PurgeExpired, List, Stats | every operation acts at one instant between its call and its return |
| SQL backends (`sqlite.go`, `postgres.go`) | table `pastes(id, slug UNIQUE, body, created_at, expires_at)`, id counter | one statement per method, Get two (SELECT, then UPDATE) outside a transaction | slugs and ids stay unique; a deadline moves only for the paste being read; a paste leaves only by Delete or when it is past its deadline |
| File backend (`file.go`) | one file per paste, named by a hash of the key | create-exclusive and write; open and read; read directory, stat, sort and cut; unlink | an acknowledged paste is whole and stays; two writers never share a file; a list misses nothing but what its limit or a failed stat explains |
| Paste handlers (`internal/handler/handler.go`) | `staticKeys`; per request its progress | GET, raw GET, POST with `chooseKey` | a 201 is kept; reads of built-in documents and existence probes do not slide deadlines; every request ends |
| Rate limiter (`ratelimit.go`) | a map of windows per client, under a mutex | `allow`, `chargeBytes`, `getWindow`, `sweep` | no window over budget, no early forgiveness, no refusal for another client's traffic |
| Admin API (`admin.go`) | none of its own | list (`List` and then `Stats`), delete, purge | built-in documents are not deleted |
| Admin authentication (`internal/auth/*`) | session map under a mutex, cookies in browsers | OIDC and local login, callback, gates, logout | sessions are earned, admitted in time, ended only for a cause; logout terminates |
| Start and stop (`main.go`) | the process | load, generator, store, preload, authenticator, handler, listen; drain, close | the start ends with a sound configuration or not at all; a shutdown ends; the built-in document is reachable |
| Configuration (`internal/config/config.go`) | none after the start | defaults, file, environment, two normalisations | a console that is on can be relied on, whichever layer switched it on |
| Key generators (`internal/keygen/keygen.go`) | none | random, phonetic, dictionary | every key they draw can be read back, wherever its address is one path segment |
| Themes (`themes.go`) | list, default and forced theme, made at the start | discovery, overlay directory, serving a theme | no theme is announced that does not exist |
| Request parsing and headers (`handler.go`) | none | securityHeaders, writeOriginAllowed, readBody, keyParam, clientIP, handleFrontend | only wanted writes are stored, whole; the sender pays; what was given out can be read |
| Visitor's page (`web/static/application.js`) | the App object, the session history, requests under way | type, save, new, duplicate, back, forward | what is shown as saved is what is stored |
| Admin console page (`web/admin/app.js`) | array, table, counts, question, filter, fetches | list, filter, delete with its question, purge, refresh | counts fit the list again but for what came or went between the server's two reads, deleted rows stay away, every delete is settled |
| Assets and build | none | - | not modelled, see section 8 |

Interactions.  Handlers call the store through the interface and nothing else;
all of them share the store, the limiter's map and the session map.  Each store
method and each limiter call reads the clock *before* it gets a database
connection or the mutex, so the time it works with can be old when it takes
effect.  The store survives a restart; sessions, windows and requests do not.
Browsers keep cookies across restarts, take them along when a request leaves
and change them when an answer arrives.

What is hard to test here: two requests between each other's store calls; the
two statements of Get with a delete and a new paste between them; statements
that take effect and report failure; stamps older than the state they are
applied to; restarts with another expiry; deadlines, windows and sessions at
the instant they end; callbacks of several tabs with one set of cookies;
answers that reach a page after its user has moved on; combinations of layers,
headers and lengths that nobody tried; a shutdown that does not wait.  `PROJECT.json`
lists them under `hazards`, each at its line.

## 2. The modules

| Module | Models | State and actions in terms of the code |
|---|---|---|
| `PasteBoard` | `store.go` | The abstract specification.  `board[k]` is the paste under a key; each operation takes effect at one instant, judged by a time of its own span; one that reports an error may or may not have taken effect; a store that was closed answers with an error (`Shut`). |
| `SqlStore` | `sqlite.go`, `postgres.go` | `rows` is the table, `lastId` the AUTOINCREMENT counter or sequence, `call[p]` the method goroutine `p` is in, with its stamp.  `GetCall`...`PurgeCall` are the calls, `SelectHit`, `SelectMiss`, `GetBump`, `SetInsert`, `SetExists`, `DeleteExec`, `PurgeExec` the statements.  `StmtFails` is a failure without effect; the choice of `out` in each statement is a failure reported after the effect.  `Restart` keeps the rows, drops the calls and reads `storage.expire` again. |
| `PasteService` | `main.go`, `handler.go`, `admin.go` | Extends `SqlStore`: `req[p]` is where a handler stands between store calls.  `Boot`/`Preloaded` are `preloadDocuments`, `Draw`/`Probed`/`Store`/`Stored` are `chooseKey` and the end of `handlePost`, `View`/`Viewed` the reads, `Delete*`/`Purge*` the admin API.  `Signal`, `Drained`, `CutShort` and `Exit` are the shutdown: it waits for handlers, or does not, and handlers that are left find the store closed (`ClosedCall`).  `acked` and `gone` are history: the 201s given, the rows that a delete or a purge was entitled to remove. |
| `Startup` | `main.go`, `config.go`, `keygen.go`, `themes.go` | `stage` is how far `run` has come, with a failure of every step; `Layered`, `Resolved`, `AuthAccepted`/`AuthNormal`, `ThemeAccepted`/`ThemeNormal` are `config.Load`; `KeysOf` the keys each generator can draw; `Discover` is `discoverThemes` over the bundle and the overlay directory, which its owner may edit at any time. |
| `HttpApi` | `handler.go`, `themes.go` | Extends `Startup`: what the running server, under the configuration it came up with, makes of one whole request.  `Post` goes through the checks of `handlePost` in their order, `Create` stores under a key the generator draws, `Get`, `Page`, `Theme` with `ServeOverlay`, `Options`, `Limited` are the other routes and the middleware.  Reads whose address is not one segment go `Astray`; a theme is `os.Stat` and then `http.ServeFile`, between which the overlay may change; `Lines` are the lines of X-Forwarded-For as a chain of proxies leaves them, `ForwardedFor` the first of them.  `last` is the last exchange. |
| `RateLimiter` | `ratelimit.go` | `windows` is the map; `Arrive` and `Post` read the time, `Allow`/`Refuse`/`Charge`/`Overcharge` are the critical sections, with `getWindow` and `sweep` in `WithWindow`.  `granted` and `charged` are history: what was let through of a client up to each time. |
| `FileStore` | `file.go` | `dir` maps names to inodes, `data` holds their contents in pieces, `mtime` the time of the last write by a clock that may be set back; one action per system call.  A write may stop half way, an unlinked file stays open for those who have it.  `Info` looks at one entry, `InfoFails` skips it for whatever reason, `ListDone` gives the newest `ListLimit` of those found, `StatsDone` all. |
| `AdminAuth` | `internal/auth`, the gates of `admin.go` | `sessions` is `byID`; `job[p]` a request under `/admin`, `jar[b]` a browser's cookies, `nav[b]` where its sign-out stands, `codes` what the provider has sent out.  A request leaves with the cookies of that moment (`Send`), an answer changes them when it is delivered (`Deliver`) or gets lost (`Lost`). |
| `WebApp` | `application.js` | `view` is the App object, `hist`/`at` the session history, `xhr` the requests under way, each answered and delivered whenever it is. |
| `AdminConsole` | `web/admin/app.js` | `pastes` is the array, `rows`, `asking` and `count` the screen, `fetches` the requests under way: `Serve` answers one, a list in two steps, `ServeList` (`store.List`, with its limit) and `ServeCount` (`store.Stats`), `Loaded`, `StatsLoaded`, `DeleteDone`, `PurgeDone`, `FetchFailed`, `Bounced` take an answer, in any order.  `done`, `stale` and `drift` are history. |

`PasteService` composes the handlers, the process and the SQL store: many
requests, step by step, with what happens in the middle.  `HttpApi` composes
the start and the request path: one request at a time, with everything that
can be in it.  Where one is detailed the other is a choice: a refusal before the
store is `PostRefused` in `PasteService`, a failing store `CreateFails` in
`HttpApi`.  `RateLimiter` and `AdminAuth` share no state with the store and are
modules of their own.  The two pages see the server through what it promises.

The `MC*` modules declare model values, the sets the configurations assign and
the symmetry sets.  `SqlStoreProofs`, `PasteServiceProofs`, `FileStoreProofs`,
`RateLimiterProofs`, `AdminAuthProofs`, `HttpApiProofs` (which covers `Startup`),
`AdminConsoleProofs` and `WebAppProofs` hold the theorems.

A definition headed "Wrong variant" is a plausible slip in the definition that
follows it; `PROJECT.json` pairs it with the property that must notice.

## 3. The runs

Passing:

| Run | Asks |
|---|---|
| `sql_store` | Does the table stay consistent, do deadlines move only for the paste being read, never further than one expiry ahead, does a paste without a deadline stay without, does a paste leave only for a cause - with two callers, stale stamps, failing statements and restarts?  Does the table implement `PasteBoard`? |
| `paste_service` | Is a 201 kept, do only visitors' reads of ordinary pastes slide, does a built-in document leave only by age, with two handlers, the preload and restarts? |
| `paste_service_live` | Does every request end? |
| `rate_limiter` | Budgets, early forgiveness, refusals that are earned, and how much gets through around the end of a window, with two clients, old stamps and the sweep. |
| `file_store` | Has each file one author, is an acknowledged paste whole and in place, does a List or Stats have what was there throughout, but for a limit or a failed stat that explains it? |
| `admin_auth` | In both modes: are sessions made for administrators only, admitted in time, ended for a cause; does signing out terminate? |
| `admin_auth_tabs` | With two logins under way in tabs or browsers: does a session go to the browser that began the login, once per code? |
| `web_app` | Is what the page shows as saved what the server has? |
| `http_api` | After a start from any of 89 combinations of file and environment: is a console that is on sound (`ConsoleIsSound`)?  For every kind of request: are writes accepted by who sends them (`WritesAreWanted`), can an allowed origin read its answer (`PartnerReadsAnswer`), are texts stored whole or not at all (`CreatedIsWhole`), can what was given out be read (`CreatedIsReachable`), do themes exist that the page is told of and are they served (`ThemesWork`), is the sender charged (`SenderIsCharged`)?  The last three name what they do not promise. |
| `admin_console` | Do counts fit the list again, up to what came or went between the server's two reads; do deleted rows stay away, is every confirmed delete settled, whatever order answers come in? |

Expected violations, each a disagreement between the program and its own words:

| Run | The repository says | The code does |
|---|---|---|
| `paste_service_static_expires` | `main.go:124`: the document is "always reachable at a stable key"; `handler.go:45`: preloaded docs "never expire" | With `storage.expire` set, `preloadDocuments` saves it with a deadline that no read slides; once it is over the document is 404, and a restart takes ErrKeyExists for success. |
| `http_api_no_limit` | `README.md:76`, `config.example.yaml:16`: `maxLength` 0 means unlimited | `readBody` reads a raw body up to `maxLength + 1` bytes: one byte, which is stored and answered with 201. |

Behaviours that the models show and that are left without a property, because
no promise of the repository is broken outright or because the promise is one
of wording:

- `handlePost` answers 500 on every error of Set, ErrKeyExists included
  (`store.go:16` says the handler uses it "to drive collision-retry"): two POSTs
  that draw one key, or a draw of a key whose paste has expired and is not
  purged yet, get there.
- The file backend returns part of a paste while it is being written or after
  a write failed (`OneAuthor` says it is never a mixture of two).  Its list hands
  out hashes, which are never in `staticKeys`: a built-in document can be
  deleted through its hash (`admin.go:113`).
- Of two concurrent Gets the one with the older stamp may write its UPDATE last
  and move a deadline back by the difference.
- The deferred `clearTempCookie` calls run after the header has been written
  (`oidc.go:75`): the browser keeps the cookies of a login that is over.
- Copy link copies the address bar, which may name another paste than the one in
  view when an answer to an older load came late.  Save pressed twice makes two
  pastes.
- Bytes are charged before the paste is stored, and not given back when the
  store fails.
- `adminListPastes` lists the newest 500 at most (`file.go:97`, `LIMIT` in the SQL
  backends) and counts everything, in a later read: the count shown may exceed
  the list, and differ from it by what came or went in between.  The file
  backend skips whatever `Info` fails for, with whatever error (`file.go:88`).
- A word list with a dot in a word yields keys that no read finds, since
  `keyParam` cuts at the first dot; one with a slash yields keys that the mux's
  `{id}` takes only percent-encoded, which the page does not do
  (`application.js:235`); `keyLength` 0 yields the empty key, which no route takes;
  with `keyLength` 5 a key can be "admin", whose page is the console when it is
  on.  `CreatedIsReachable` names these exceptions.
- A theme that was only in the overlay and is gone is answered with the page
  itself and status 200.  Once `os.Stat` has found a file there is no way back to
  the embedded sheet: if it is taken away before `http.ServeFile` opens it the
  answer is 404, if it cannot be read 403 (`themes.go:149-155`).
- `clientIP` reads the first line of X-Forwarded-For only (`handler.go:428`).  A
  proxy that leaves the lines it gets and adds its own puts its entry where it is
  not counted.  With two trusted proxies of which the second does so, the first
  line has one entry too few and every client is charged to the second proxy's
  address; a client that sends a line of its own is charged to an entry of that
  line.  The repository's `README.md:97-99` ("the Nth-from-rightmost
  `X-Forwarded-For` entry ... so it can't be spoofed") makes no difference between
  one line and several.  `SenderIsCharged` and its theorem are about chains that
  hand the header on in one line; `OwnLine` says which proxies do not.
- `expireDays` in the file beats `STORAGE_EXPIRE_SECONDS`
  in the environment, and a number that does not parse is ignored.
- `chooseKey` with no free key left does not end.

Deadlock is checked in every run but three.  In `http_api` and
`http_api_no_limit` the process may exit, in `admin_console` the page may have
been left for the login: there is nothing more to do.

## 4. Bounds, and why they are enough

- *Goroutines*: two everywhere (in `PasteService` two handlers and main).  The
  interactions are pairwise: a read against a delete and a save, a probe
  against an insert, a sweep against a waiter.
- *Keys, bodies, clients, browsers*: two, so that "another one's" can go wrong.
- `MaxClock`: in `sql_store` and `paste_service` 2 with an expiry of 2: a paste
  can be read at time 1 and slide, or expire at 2 and still hold its slug or
  be purged.  In `rate_limiter` 5 with a window of 2: a window can end, a new
  one begin and end, and a third budget be asked for.  In `admin_auth` 2 with a
  TTL of 1: the last valid instant and the first invalid one.
- `MaxId`, `MaxFiles`, `MaxSids`, `MaxLogins` (rows, files, sessions and logins
  ever made): at least two, so that a key can be used again after a delete, a
  code twice and a cookie be overwritten.  `admin_auth` has one login and time
  that passes, `admin_auth_tabs` two logins and no time.
- `MaxStale` = 1: a caller of the limiter may use a stamp one tick old.  The SQL
  store has no such bound: a stamp may be as old as the clock allows.
- `Chunks` = 2: a file can be empty, half written or whole.  `Stamps` = {0, 1} and
  `ListLimit` = 1: one of two files is cut from a list, the older one or, when they
  are of one second, either.  `MaxFiles` = 2: two pastes, or one that is deleted
  and made again while others still have it open or listed.
- `MaxHistory` = 4, `MaxFlight` = 2: two answers can overtake each other, and
  back and forward lead to different pastes.
- `TwoWindowsAtMost` measures `Window - MaxStale` ticks and one more, whichever
  they are.  That is as long as it can be: a window opened with a stamp
  `MaxStale` old is over that much sooner after the caller that opened it was
  served; at that tick the window before it can still be used up, and at the
  tick after its end the next one can be: three budgets in one tick more.
- `http_api` scales lengths and keeps their order: a limit of 3 letters by
  default, 1 or 2 when configured, bodies of 0 to 5, form `Framing` 1 within
  `Slack` 2, keys of 2 letters (1 when configured) over an alphabet of a vowel, a
  consonant and a capital, "admin" of 2, so that it and a directory of the
  bundle can be drawn.  Two proxies stand before the server and
  `trustedProxyCount` is 0, 1 or 2; the first writes a line of its own and the
  second joins lines, so that one line arrives whatever the client sends.
  `keyLength` is also 0 and -1, a word has a slash or a dot; an overlay file is
  readable, not readable, a directory or a dangling link.  `Budget` = 3 admits one text and refuses a
  second.  `MaxPastes` = 2.  The settings are combined in groups that bear on one
  another (console, themes, origins, keys, the rest), within a group over both layers.
- `admin_console`: one built-in document and one paste, a filter that lets
  through the document or everything, two requests under way, which is what
  it takes for one to overtake another.  `ListLimit` = 1, so that a list of both
  is cut; the paste is one that an answer may miss (`Missable`).

`AdminAuth` takes the configuration to be the same after a restart; `SqlStore`
does not.  Symmetry is used where no liveness property is checked.

## 5. Fairness

`paste_service_live`: weak fairness of each statement (the driver answers, if
only with an error) and of each handler's next step (the Go scheduler).
`chooseKey` loops until it draws a free key, so the run also needs strong
fairness of drawing a free key when there is one: the generators draw from a
large set with crypto/rand or math/rand.  The run has more keys than rows
(`MaxId` = 1), as a real key space has; with no free key left the loop does not
end, and that is listed as a hazard.

A shutdown is driven by weak fairness of `Drained` and `Exit`.  That its ten
seconds pass (`CutShort`) is not assumed: `ShutdownEnds` holds because handlers
end and no new ones are accepted.

`admin_auth`: weak fairness of each request's steps, and strong fairness of
following the provider's redirect back, which the browser does by itself.

`admin_console`: weak fairness, for each request, of its being answered, if only
with an error (the server has timeouts, the browser too), and of the answer's
being taken (the event loop).

Nothing is assumed of users, of the clock, of failures or of restarts.

## 6. What is proved

Each theorem holds for every value of the constants that satisfies the
assumptions named; the bounds of section 4 are constants like any other.

`SqlStoreProofs`, from `ExpiresAssumption`, `NullAssumption` and
`BoundsAssumption` of `SqlStore`, for any sets of goroutines, keys, bodies and
expiries:

- `StoreTypeCorrect`: `StoreSpec => []TypeOK`.  `TypeOK` is inductive; the lemmas
  `AnswerType` and `BeginType` cover the actions that only move a call along.
- `StoreTableConsistent`: `TableConsistent` is inductive together with
  `TypeOK`.  Uniqueness of slugs is what the UNIQUE constraint gives.  The part
  that needs an argument is `ReaderKnowsItsRow`: a Get between its two statements
  holds an id, and if a row still has that id it is the row that was read, with
  its slug, its body and a deadline.  It is preserved because ids come from a counter
  that never goes back (`IdsGiven`), so a row inserted meanwhile has another
  id, and because an UPDATE changes `expires_at` only (`SlidRows`).
- `StoreDeadlinesBounded`: `DeadlineWithinOneExpiry`, which needs
  `StampsNotAhead`: a stamp is never ahead of the clock.
- `StoreSlideFollowsRead`, `StoreTimelessStaysTimeless`, `StoreLeavesForCause`:
  the action properties, from the invariants above.  `RowChange` finds the one
  action that can change a row that stays (`GetBump`), `OtherSteps` says that
  every other step except an insert only removes rows.

With `PasteAssumption` (Null is no paste) as well:

- `StoreImplementsBoard`: `StoreSpec => Board!BoardSpec` under the mapping
  `BoardOf`, `OpOf`.  The invariant is `RefInv`: the three above, and `BumpMeant`
  (an UPDATE is pending only in a Get that was asked to slide).  `BoardHas`
  reads a row as the paste under its slug, which is well defined because slugs
  are unique; `BoardKeeps` and `BoardLoses` say key by key what a statement
  leaves of the board; `FinishStep` turns the answer of a method into the
  end of its operation.  There is one lemma per action: `SelectHits`, for
  instance, shows `Hit` with the call's stamp as the instant (`StampInSpan`), and
  a `GetBump` is `Slide` if the row is still there (`BumpSlides`) and otherwise a
  stutter or `Fail` (`BumpMisses`).

`PasteServiceProofs`, from those and `MainAssumption`, `AboutAssumption`,
`DrawnAssumption` of `PasteService`:

- `ServiceInvariant`: `ServiceInv` is inductive.  Its first part is the store's
  invariant, which carries over because every step of the service is a step of
  the store or a call that finds it closed (`StoreSteps`, `ClosedCallStep`).
  The second is `GoodHandler`: a handler's store call is the one its phase
  asked for, and the row of an INSERT that took effect is already one that
  must stay (`Kept`), before its 201 is given.  The third is that nobody is served
  before the preload has been answered.
- `ServiceTypeCorrect` and `ServiceAckedPasteStays` follow; so do the action
  properties `ServiceOnlyVisitorsSlide` and `ServiceStaticLeavesByAge`.
- `ServiceImplementsBoard`: `ServiceSpec => ImplementsBoard`.  `ServiceInv` implies
  the store's `RefInv` (`ServiceRefInv`), so a step that is the store's is the
  board's by `BoardStep`; a call that finds the store closed is `Shut`
  (`ClosedCallShuts`).  TLC has confirmed it for one handler with the bounds of
  `paste_service`, and for two with one row and one tick; no run lists it, because
  with both it takes longer than all the others together.

`FileStoreProofs`, from `ChunksAssumption`, `StampsAssumption` and `NullAssumption`
of `FileStore`, for any limit and any clock:

- `FileInvariant`: `FileInv` is inductive.  No inode ever has a second
  writer, because O_EXCL gives each Set one of its own; so what a writer has
  written so far is what the inode holds, up to its position (`Writing`), and
  nobody has been told of it yet.  A List holds what ReadDir saw
  (`Covered`): an entry that is still the same is listed, still to be looked at, skipped because
  its own Info failed, or cut by a limit that is full of files no older; an entry
  that was removed and created again leads to another inode, so it is not the
  same.
- `FileTypeCorrect`, `FileOneAuthor`, `FileAckedPasteWhole` and
  `FileListSurvivesDeletes` follow.

`RateLimiterProofs`, from `LimitsAssumption`, `ClockAssumption` and
`NullAssumption` of `RateLimiter`, for any limits, sizes and staleness:

- `LimiterInvariant`: `LimiterInv`, that is `TypeOK`, `WithinBudget` and
  `StampsNotAhead`, is inductive.  `WithWindowMap` says what `getWindow` with
  its sweep leaves, `LockedWindows` what one critical section does to each
  window; `LimiterTypeCorrect` and `LimiterWithinBudget` follow.
- `LimiterNoEarlyForgiveness`: the action property.  Since no stamp is ahead of
  the clock, a window that is expired by a stamp is expired by the clock.
- `LimiterAccounts`: `AccountInv` is inductive.  For each client and each of its
  two budgets an `Account` relates the count in the window to the history.
  A window that resets at `r` was opened with the stamp `r - Window`, by a caller
  served at most `MaxStale` later; so all that its count holds came through
  since that stamp, and all that came through later than `MaxStale` after it is
  in the count.  A stretch that reaches the present holds at most that count and
  what one window before it held (third clause of `Account`), and a stretch that
  no longer reaches the present does not grow (fourth clause).  `AccountGrows`,
  `AccountOpens`, `AccountDropped` and `AccountTicks` say so for the four
  things that can happen to an account, `OwnAccountStep` and `OtherAccountStep`
  what a critical section does to its own client's and to the others'.
- `LimiterTwoWindowsAtMost` is the fourth clause; `LimiterRefusalIsEarned` follows
  from the lower bound: what stands in the window of a refused request came
  through since the window's stamp, which is not more than one Window before
  the request.

`AdminAuthProofs`, from `UsersAssumption`, `ModesAssumption`, `TTLAssumption` and
`BoundsAssumption` of `AdminAuth`, for any goroutines, browsers and users:

- `AuthInvariant`: `AuthInv` is inductive.  A request knows what its handler
  has established so far (`GoodJob`); the temporary cookies in a browser are those
  of a login that this browser began (`CookiesKnown`), although tabs overwrite them
  and answers get lost; a code that was spent has one holder, a request past the
  exchange, or one session, and never two.  Ids are never used again, so one
  that was signed out stays out.
- `AuthTypeCorrect`, `AuthSessionsAreEarned`, and the action properties
  `AuthAdmittedInTime` and `AuthSessionEndsForCause` follow.

`HttpApiProofs`, for any layers, word lists, alphabets, bundles, overlays, clients,
proxies and writes.  Its assumptions: the layers hold values of the types the
fields of `Config` have (`LayersAssumption`: `yaml.Unmarshal` and `setInt` let
nothing else through), the defaults are numbers, letters are letters, files of
the bundle have an extension (as those of `web/static` do), extensions begin
with a dot, no client's address is empty, a write has the headers its sender's
browser can send:

- `HttpInvariant`: `HttpInv` is inductive.  From `LoadConfig` on the
  configuration is typed and a console that is on is sound (`StartInv`), from
  `NewHandler` on the themes are those discovered (`ThemesListed`), and the last
  answer is what its handler makes of the request under the configuration and the
  store (`AnswerFits`).
- `StartConsoleIsSound`, `HttpWritesAreWanted`, `HttpPartnerReadsAnswer`,
  `HttpCreatedIsWhole`, `HttpCreatedIsReachable` and `HttpThemesWork` follow.
  For `CreatedIsReachable` a key must be cut at the first dot only if it has
  one, and a key of letters has none, for each generator; what goes `Astray` is no
  segment, the empty key of length 0 included.  For `ThemesWork` the invariant
  also says what `os.Stat` found while its answer is pending.  `SetInduction` is the
  induction over the naturals that the library's theorem cannot be used for;
  with it `FlattenSeq`, of which phonetic keys are made, is shown to give sequences.
- `HttpSenderIsCharged`, the action property: the proxies append one entry each,
  so that counting as many entries from the right as there are proxies ends at
  the one the first proxy wrote, which is who sent the request.  That the header
  arrives in one line is part of the property: `SenderIsFound` shows that it
  then holds the client's own entries and after them one of each proxy, wherever
  in the chain lines are joined.

`AdminConsoleProofs`, from `KeysAssumption`, `FiniteAssumption` and `FlightAssumption`
of `AdminConsole`, for any limit and any keys that answers miss:

- `ConsoleInvariant`: `ConsoleInv` is inductive.  Only lists bring keys, and no
  list under way brings one that was deleted for good, because such a key is
  not on the server, which never gives it out again (`FetchFits`).  A list that is
  still to be counted differs from what there is now by the keys of its drift, or
  is full (`Near`); so its count, once it is read, fits (`NearFits`).  Requests
  under way are fewer than numbers for them, so that there is a free one
  (`FreeNumber`); the counts need the set of keys to be finite.
- `ConsoleTypeCorrect`, `ConsoleCountFitsList` and `ConsoleDeletedStaysAway` follow.

`WebAppProofs`, from `TextsAssumption` and `BoundsAssumption` of `WebApp`:

- `AppInvariant`: `AppInv` is inductive: an answer, and the document in view,
  carry a key with the text that key was given out for, which never changes
  since a key is given out once.  `AppShownIsStored` follows.

Each of the inductive invariants was checked by TLC on the instance of its run
before it was proved.

Only model-checked: liveness (`EveryRequestAnswered`, `ShutdownEnds`,
`LogoutLands`, `DeleteIsSettled`), which is outside the prover's reach, and the
two expected violations, which are no theorems.

## 7. Plan

Done, in this order: `SqlStore`, `PasteBoard`, `PasteService`, `RateLimiter`,
`FileStore`, `AdminAuth`, `WebApp`, the shutdown in `PasteService`, `Startup`,
`HttpApi`, `AdminConsole`; the proofs about `SqlStore`, `RateLimiter`,
`FileStore`, `PasteService`; the proofs that `SqlStore` implements `PasteBoard`
and that it does so under `PasteService`; the proofs about `AdminAuth`, `HttpApi`
with `Startup`, `AdminConsole`, `WebApp`, and that a client of the limiter gets
two budgets at most; limits, failing stats and second reads in the listings.

Next, in this order: the admin API over `FileStore`, where the list hands out
hashes that are never in `staticKeys`; an abstract specification of what `FileStore` promises.

## 8. What is not modelled, and why

- *Assets, Dockerfile, workflows*: no behaviour.
- *The admin API over the file backend*: `PasteService` composes the handlers
  with the SQL store only; the file backend is modelled by itself.
- *List and Stats of the SQL backends*: single statements that read.
- *The sizes in listings, highlighting, messages, the buttons' states*: no property
  depends on them.  The times and the limit are modelled in `FileStore` and the
  limit in `AdminConsole`.
- *An expired paste that a late read's UPDATE keeps alive while the console looks*:
  the console's server takes pastes away and never brings one back; `SqlStore` has
  that race.
- *A handler past the gate whose session ends, a question left on the screen
  after a failed delete*: both are in the models and no property forbids them.
- *The text of the security headers, the substitution of theme and title into
  the page's template, `EntropyBits`*: formatting, or a line in the log.
- *Settings that are only passed through* (addresses, credentials, the numbers
  of the limits, the log level): constants of the modules that use them.
- *What a power failure loses from disk; HMAC, bcrypt, OIDC discovery, ID token
  verification*: outside the repository; the models use what the code relies
  on (a synced row stays, a signature cannot be guessed, a code is exchanged
  once).
