------------------------------- MODULE WebApp -------------------------------
(***************************************************************************)
(* The page that visitors see, web/static/application.js: one App object,  *)
(* the browser's history, and XMLHttpRequests whose answers come when they *)
(* come.  The page never waits: while a request is under way the visitor   *)
(* may type, save again, start anew or walk through the history, and each  *)
(* answer runs its callback on whatever the page is by then.               *)
(*                                                                         *)
(* An address is a key or Root; the extension that showDocument appends    *)
(* and loadDocument splits off only chooses the highlighting.  The server  *)
(* is modelled from its promise: a POST gets a key never given out before, *)
(* a GET the paste or, when it has expired or been deleted, an error.      *)
(***************************************************************************)
EXTENDS Integers, Sequences, FiniteSets, SequencesExt

CONSTANTS
    Keys, Texts,
    Blank,       \* the empty text, or white space only
    Root,        \* the address "/"
    Null,
    MaxHistory, MaxFlight   \* bounds

ASSUME TextsAssumption == Blank \in Texts /\ Null \notin Keys \cup Texts /\ Root \notin Keys
ASSUME BoundsAssumption == MaxHistory \in Nat \ {0} /\ MaxFlight \in Nat

VARIABLES
    view,    \* the App object: locked, key, data, and the editor's value
    hist,    \* the session history
    at,      \* the entry shown in the address bar
    xhr,     \* requests under way
    stored,  \* the server's pastes
    given    \* history: given[k], the text of the paste that got key k

vars == <<view, hist, at, xhr, stored, given>>

\* A request under way: [n, kind, key, data, st].  n tells requests apart, st is
\* "sent", answered "ok" or answered "err".

NewView == [locked |-> FALSE, key |-> Null, data |-> Null, editor |-> Blank]

Url == hist[at]

\* pushState: what lay ahead is forgotten.
Push(a) ==
    /\ at < MaxHistory
    /\ hist' = Append(SubSeq(hist, 1, at), a)
    /\ at' = at + 1

Unused(n) == \A x \in xhr : x.n # n

Request(kind, k, text) ==
    /\ Cardinality(xhr) < MaxFlight
    /\ LET n == CHOOSE n \in 1..MaxFlight : Unused(n)
       IN xhr' = xhr \cup {[n |-> n, kind |-> kind, key |-> k, data |-> text, st |-> "sent"]}

\* What a new App asks for: nothing at the root, else the paste.
BootXhr(a) ==
    IF a = Root THEN {}
    ELSE {[n |-> 1, kind |-> "load", key |-> a, data |-> Null, st |-> "sent"]}

----------------------------------------------------------------------------
(***************************************************************************)
(* App's methods.                                                          *)
(***************************************************************************)
\* newDocument(skipHistory = true)
Fresh == view' = NewView

\* newDocument()
FreshAt(a) == Fresh /\ Push(a)

Shown(text, k) == [view EXCEPT !.locked = TRUE, !.key = k, !.data = text]

\* loadDocument
Load(k) == Request("load", k, Null)

\* What the page does with an address: at boot and on popstate.
Follow(a) ==
    IF a = Root THEN Fresh /\ UNCHANGED xhr
                ELSE Load(a) /\ UNCHANGED view

----------------------------------------------------------------------------
\* The visit begins at the root or at a paste's address.
Init ==
    /\ stored \in [Keys -> Texts \cup {Null}]
    /\ given = stored
    /\ view = NewView
    /\ at = 1
    /\ \E a \in Keys \cup {Root} :
          /\ hist = <<a>>
          /\ xhr = BootXhr(a)

(***************************************************************************)
(* The visitor.                                                            *)
(***************************************************************************)
\* The editor is hidden while a document is shown.
Type(t) ==
    /\ ~view.locked
    /\ view' = [view EXCEPT !.editor = t]
    /\ UNCHANGED <<hist, at, xhr, stored, given>>

\* Save, by button or Ctrl+S
Save ==
    /\ ~view.locked
    /\ view.editor # Blank
    /\ Request("save", Null, view.editor)
    /\ UNCHANGED <<view, hist, at, stored, given>>

New ==
    /\ FreshAt(Root)
    /\ UNCHANGED <<xhr, stored, given>>

Duplicate ==
    /\ view.locked
    /\ view' = [NewView EXCEPT !.editor = view.data]
    /\ Push(Root)
    /\ UNCHANGED <<xhr, stored, given>>

\* Back and forward: popstate
Walk(to) ==
    /\ to \in {at - 1, at + 1} \cap DOMAIN hist
    /\ at' = to
    /\ Follow(hist[to])
    /\ UNCHANGED <<hist, stored, given>>

\* Reload, or back from the raw page: a new App, whose requests are its own.
Boot ==
    /\ view' = NewView
    /\ xhr' = BootXhr(Url)
    /\ UNCHANGED <<hist, at, stored, given>>

(***************************************************************************)
(* The server, and what happens to answers.                                *)
(***************************************************************************)
Settle(x, y) == xhr' = (xhr \ {x}) \cup {y}

ServeSave(x) ==
    /\ x.kind = "save" /\ x.st = "sent"
    /\ \E k \in Keys :
          /\ given[k] = Null
          /\ stored' = [stored EXCEPT ![k] = x.data]
          /\ given' = [given EXCEPT ![k] = x.data]
          /\ Settle(x, [x EXCEPT !.key = k, !.st = "ok"])
    /\ UNCHANGED <<view, hist, at>>

ServeLoad(x) ==
    /\ x.kind = "load" /\ x.st = "sent"
    /\ Settle(x, IF stored[x.key] = Null THEN [x EXCEPT !.st = "err"]
                 ELSE [x EXCEPT !.data = stored[x.key], !.st = "ok"])
    /\ UNCHANGED <<view, hist, at, stored, given>>

\* 429, 500, or the connection breaks: before the server has done anything or
\* after, the callback is onErr.
RequestFails(x) ==
    /\ x.st # "err"
    /\ Settle(x, [x EXCEPT !.st = "err"])
    /\ UNCHANGED <<view, hist, at, stored, given>>

Vanish(k) ==
    /\ stored[k] # Null
    /\ stored' = [stored EXCEPT ![k] = Null]
    /\ UNCHANGED <<view, hist, at, xhr, given>>

\* Wrong variant: the callback takes the text from the editor again.
SavedLive(x) ==
    /\ x.kind = "save" /\ x.st = "ok"
    /\ view' = Shown(view.editor, x.key)
    /\ Push(x.key)
    /\ xhr' = xhr \ {x}
    /\ UNCHANGED <<stored, given>>

\* save's onOk: showDocument(data, res.id)
Saved(x) ==
    /\ x.kind = "save" /\ x.st = "ok"
    /\ view' = Shown(x.data, x.key)
    /\ Push(x.key)
    /\ xhr' = xhr \ {x}
    /\ UNCHANGED <<stored, given>>

\* save's onErr: a message
NotSaved(x) ==
    /\ x.kind = "save" /\ x.st = "err"
    /\ xhr' = xhr \ {x}
    /\ UNCHANGED <<view, hist, at, stored, given>>

\* loadDocument's onOk: showDocument(res.content, key, lang, false)
Loaded(x) ==
    /\ x.kind = "load" /\ x.st = "ok"
    /\ view' = Shown(x.data, x.key)
    /\ xhr' = xhr \ {x}
    /\ UNCHANGED <<hist, at, stored, given>>

\* loadDocument's onErr: newDocument()
NotLoaded(x) ==
    /\ x.kind = "load" /\ x.st = "err"
    /\ FreshAt(Root)
    /\ xhr' = xhr \ {x}
    /\ UNCHANGED <<stored, given>>

Next ==
    \/ \E t \in Texts : Type(t)
    \/ Save \/ New \/ Duplicate \/ Boot
    \/ \E to \in 1..MaxHistory : Walk(to)
    \/ \E x \in xhr : \/ ServeSave(x) \/ ServeLoad(x) \/ RequestFails(x)
                      \/ Saved(x) \/ NotSaved(x) \/ Loaded(x) \/ NotLoaded(x)
    \/ \E k \in Keys : Vanish(k)

Spec == Init /\ [][Next]_vars

----------------------------------------------------------------------------
(***************************************************************************)
(* Properties.                                                             *)
(***************************************************************************)
\* showDocument: a document is shown, locked and marked "Saved", exactly when
\* it has a key, and then it is the text the server has or had under that key,
\* whatever was typed since Save was pressed and whichever answers came first.
ShownIsStored ==
    /\ view.locked <=> view.key # Null
    /\ view.locked <=> view.data # Null
    /\ view.locked => view.data = given[view.key]

=============================================================================
