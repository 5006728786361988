------------------------------- MODULE Startup -------------------------------
(***************************************************************************)
(* From the start of the process to the first request: config.Load lays    *)
(* the YAML file over the defaults and the environment over both, then     *)
(* resolves and validates; run() builds the key generator, the store, the  *)
(* authenticator and the handler with its themes, and any of them may end  *)
(* the process.                                                            *)
(*                                                                         *)
(* A configuration is a function on setting names.  A session key is known *)
(* by its length in bytes; issuer stands for the five fields a provider    *)
(* needs, and an admin is TRUE when he has both a name and a hash.  A word *)
(* list is the set of its words, {} when it is empty or unreadable.  The   *)
(* limits, frameAncestors and the storage's address are left out, and      *)
(* preloadDocuments, which never stops the start, is in PasteService.      *)
(***************************************************************************)
EXTENDS Integers, Sequences, FiniteSets, SequencesExt

CONSTANTS
    Layers,      \* what an operator provides: [readable, yaml, env], the last two
                 \* partial functions on setting names
    Embedded,    \* themes built into the binary
    SafeNames,   \* names that themeNameRE accepts
    FileNames,   \* theme names the overlay directory may hold files for
    Overlays,    \* states of that directory
    DefaultKeyLength, DefaultMaxLength, Day   \* 16, 150 MB and 86400, scaled

\* A locked file cannot be read; a link leads to a directory or to nothing.
ASSUME OverlaysAssumption ==
    Overlays \subseteq [FileNames -> {"none", "file", "locked", "link", "dir"}]
ASSUME DefaultsAssumption == {DefaultKeyLength, DefaultMaxLength, Day} \subseteq Nat
ASSUME ThemesAssumption == Embedded \subseteq SafeNames \ {"rake"} /\ "rake" \in SafeNames

VARIABLES
    stage,     \* how far run() has come
    given,     \* the operator's layers while the process starts, <<>> once it is up
    cfg,       \* the configuration
    themes,    \* themeState
    overlay    \* the overlay directory: what each theme file is, "none" when absent

startVars == <<stage, given, cfg, themes, overlay>>

BaseTheme == "rake"

Defaults ==
    [keyType |-> "random", keyWords |-> {}, keyLength |-> DefaultKeyLength,
     maxLength |-> DefaultMaxLength, trustedProxyCount |-> 0,
     corsOrigins |-> {},
     storageType |-> "file", expire |-> 0, expireDays |-> 0,
     mode |-> "", sessionKey |-> 0, sessionTTL |-> 0, loginRateLimit |-> 0,
     issuer |-> "", groupsClaim |-> "", admins |-> <<>>,
     themeDefault |-> BaseTheme, themeForced |-> "", themeDir |-> ""]

\* Numbers: a variable that is empty or no number is <<>>, one that holds n is <<n>>.
IntSettings == {"maxLength", "trustedProxyCount", "expire", "expireDays",
                "sessionTTL", "loginRateLimit"}

\* What the types of Config's fields let through.
IsSetting(s, v) ==
    CASE s \in IntSettings \cup {"keyLength", "sessionKey"} -> v \in Int
      [] s = "keyWords" -> \A w \in v : w \in Seq(STRING)
      [] s = "admins"   -> v \in Seq(BOOLEAN)
      [] OTHER          -> TRUE

ASSUME LayersAssumption ==
    \A g \in Layers :
        /\ \A s \in DOMAIN g.yaml : IsSetting(s, g.yaml[s])
        /\ \A s \in DOMAIN g.env :
              IF s \in IntSettings THEN g.env[s] \in Seq(Int) ELSE IsSetting(s, g.env[s])

\* setStr, setInt, setStrList: what a variable that is set leaves of a setting.
\* An empty string is a value; a number that does not parse is not; a list is
\* replaced by its pieces that are not blank.
EnvValue(s, old, v) ==
    CASE s \in IntSettings   -> IF v = <<>> THEN old ELSE Head(v)
      [] s = "corsOrigins"   -> ToSet(v) \ {""}
      [] OTHER               -> v

\* One function laid over another.
Over(f, g) == [x \in DOMAIN f \cup DOMAIN g |-> IF x \in DOMAIN f THEN f[x] ELSE g[x]]

\* applyEnv
Overlaid(c, env) ==
    [s \in DOMAIN c |-> IF s \in DOMAIN env THEN EnvValue(s, c[s], env[s]) ELSE c[s]]

\* The layers, lowest first.
Layered(g) == Overlaid(Over(g.yaml, Defaults), g.env)

\* expireDays, when set, replaces expire.
Resolved(c) == IF c.expireDays > 0 THEN [c EXCEPT !.expire = c.expireDays * Day] ELSE c

Enabled(c) == c.mode \in {"oidc", "local"}

\* Auth.normalize: what it accepts ...
AuthAccepted(c) ==
    \/ c.mode \in {"", "disabled"}
    \/ /\ Enabled(c)
       /\ c.sessionKey >= 16
       /\ c.mode = "oidc" => c.issuer # ""
       /\ c.mode = "local" => c.admins # <<>> /\ \A i \in DOMAIN c.admins : c.admins[i]

\* ... and what it fills in.
AuthNormal(c) ==
    IF ~ Enabled(c) THEN [c EXCEPT !.mode = ""]
    ELSE [c EXCEPT !.sessionTTL = IF @ <= 0 THEN 28800 ELSE @,
                   !.loginRateLimit = IF @ <= 0 THEN 10 ELSE @,
                   !.groupsClaim = IF c.mode = "oidc" /\ @ = "" THEN "groups" ELSE @]

\* Theme.normalize
ThemeNormal(c) == [c EXCEPT !.themeDefault = IF @ = "" THEN BaseTheme ELSE @]

ThemeAccepted(c) ==
    /\ ThemeNormal(c).themeDefault \in SafeNames
    /\ c.themeForced = "" \/ c.themeForced \in SafeNames

\* Wrong variant: the file is validated, and the environment overlaid after that.
LoadedUnchecked(g) ==
    LET c == Resolved(Over(g.yaml, Defaults))
    IN IF g.readable /\ AuthAccepted(c) /\ ThemeAccepted(c)
       THEN {Overlaid(ThemeNormal(AuthNormal(c)), g.env)} ELSE {}

\* Load's result: {} for an error, else the one configuration.
Loaded(g) ==
    LET c == Resolved(Layered(g))
    IN IF g.readable /\ AuthAccepted(c) /\ ThemeAccepted(c)
       THEN {ThemeNormal(AuthNormal(c))} ELSE {}

----------------------------------------------------------------------------
(***************************************************************************)
(* Key generators: the keys each can draw.                                 *)
(***************************************************************************)
CONSTANTS Vowels, Consonants, Capitals   \* Capitals: the rest of the alphabet

ASSUME AlphabetAssumption == Vowels \cup Consonants \cup Capitals \subseteq STRING

Templates == {<<"c", "v">>, <<"c", "v", "c">>, <<"v", "c">>, <<"c", "v", "v">>,
              <<"c", "c", "v">>}

Slot(x) == IF x = "c" THEN Consonants ELSE Vowels

RandomKeys(n) == [1..n -> Vowels \cup Consonants \cup Capitals]

\* Templates one after the other, the last one cut where the key is long enough.
\* A negative length panics.
PhoneticKeys(n) ==
    LET shapes == {SubSeq(FlattenSeq(ts), 1, n) : ts \in [1..n -> Templates]}
    IN {k \in [1..n -> Vowels \cup Consonants] :
           n >= 0 /\ \E s \in shapes : \A i \in 1..n : k[i] \in Slot(s[i])}

DictionaryKeys(words, n) == {FlattenSeq(ws) : ws \in [1..n -> words]}

\* keygen.New fails for a list without words and for a type it does not know.
GeneratorOK(c) ==
    \/ c.keyType \in {"random", "phonetic", ""}
    \/ c.keyType = "dictionary" /\ c.keyWords # {}

KeysOf(c) ==
    CASE c.keyType = "random"     -> RandomKeys(c.keyLength)
      [] c.keyType = "dictionary" -> DictionaryKeys(c.keyWords, c.keyLength)
      [] OTHER                    -> PhoneticKeys(c.keyLength)

----------------------------------------------------------------------------
(***************************************************************************)
(* Themes.                                                                 *)
(***************************************************************************)
\* The theme files of the overlay directory: whatever is named like one and is no
\* directory.  An overlay directory that cannot be read looks empty.
OverlayFiles(c) ==
    IF c.themeDir = "" THEN {} ELSE {n \in FileNames : overlay[n] \notin {"none", "dir"}}

\* discoverThemes: the files of both places with safe names, and the
\* configured themes as far as they exist.
Discover(c) ==
    LET files  == ((Embedded \cup OverlayFiles(c)) \cap SafeNames) \ {BaseTheme}
        names  == files \cup {BaseTheme}
        dflt   == IF c.themeDefault \in names THEN c.themeDefault ELSE BaseTheme
        forced == IF c.themeForced \in names THEN c.themeForced ELSE ""
    IN [files |-> files, default |-> dflt, forced |-> forced,
        initial |-> IF forced # "" THEN forced ELSE dflt]

NoThemes == [files |-> {}, default |-> "", forced |-> "", initial |-> ""]

----------------------------------------------------------------------------
StartInit ==
    /\ stage = "load"
    /\ given \in Layers
    /\ cfg = Defaults
    /\ themes = NoThemes
    /\ overlay = [n \in FileNames |-> "none"]

\* An error of run() or Load: log.Fatal.
Fail(from) ==
    /\ stage = from
    /\ stage' = "exit"
    /\ given' = <<>>
    /\ UNCHANGED <<cfg, themes, overlay>>

LoadConfig ==
    /\ stage = "load"
    /\ \E c \in Loaded(given) : cfg' = c
    /\ stage' = "keygen"
    /\ UNCHANGED <<given, themes, overlay>>

LoadFails == stage = "load" /\ Loaded(given) = {} /\ Fail("load")

NewGenerator ==
    /\ stage = "keygen" /\ GeneratorOK(cfg)
    /\ stage' = "store"
    /\ UNCHANGED <<given, cfg, themes, overlay>>

GeneratorFails == ~ GeneratorOK(cfg) /\ Fail("keygen")

\* store.New, then preloadDocuments.
OpenStore ==
    /\ stage = "store" /\ cfg.storageType \in {"postgres", "sqlite", "file"}
    /\ stage' = "auth"
    /\ UNCHANGED <<given, cfg, themes, overlay>>

\* An unknown type, or a backend that cannot be reached.
StoreFails == Fail("store")

\* auth.New: with a provider, its discovery must succeed.
NewAuth ==
    /\ stage = "auth"
    /\ stage' = "handler"
    /\ UNCHANGED <<given, cfg, themes, overlay>>

DiscoveryFails == cfg.mode = "oidc" /\ Fail("auth")

NewHandler ==
    /\ stage = "handler"
    /\ themes' = Discover(cfg)
    /\ stage' = "listen"
    /\ UNCHANGED <<given, cfg, overlay>>

Listen ==
    /\ stage = "listen"
    /\ stage' = "up"
    /\ given' = <<>>
    /\ UNCHANGED <<cfg, themes, overlay>>

\* The address is taken.
ListenFails == Fail("listen")

\* The directory belongs to the operator, who adds, replaces and removes files,
\* before the themes are discovered and after.
EditOverlay(o) ==
    /\ cfg.themeDir # "" /\ stage \in {"handler", "up"}
    /\ overlay' = o
    /\ UNCHANGED <<stage, given, cfg, themes>>

Start ==
    \/ LoadConfig \/ LoadFails
    \/ NewGenerator \/ GeneratorFails
    \/ OpenStore \/ StoreFails
    \/ NewAuth \/ DiscoveryFails
    \/ NewHandler
    \/ Listen \/ ListenFails

----------------------------------------------------------------------------
(* A console that is switched on, by whichever layer, can be relied on: its    *)
(* session key is long enough to sign with, its sessions and its login         *)
(* throttle have limits, and someone can log in (config.go, Auth.normalize,    *)
(* which runs once and after every layer is in place).                         *)
ConsoleIsSound ==
    stage \notin {"load", "exit"} /\ Enabled(cfg) =>
        /\ cfg.sessionKey >= 16 /\ cfg.sessionTTL > 0 /\ cfg.loginRateLimit > 0
        /\ cfg.mode = "oidc" => cfg.issuer # "" /\ cfg.groupsClaim # ""
        /\ cfg.mode = "local" => TRUE \in ToSet(cfg.admins)

=============================================================================
