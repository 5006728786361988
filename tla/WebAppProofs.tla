---------------------------- MODULE WebAppProofs ----------------------------
(***************************************************************************)
(* Proofs about WebApp, for any keys, texts, lengths of the history and    *)
(* numbers of requests under way.                                          *)
(***************************************************************************)
EXTENDS WebApp, TLAPS

USE TextsAssumption, BoundsAssumption DEF TextsAssumption, BoundsAssumption

-----------------------------------------------------------------------------
(***************************************************************************)
(* The inductive invariant.                                                *)
(***************************************************************************)
\* What a paste is and once was: a key keeps the text it was given out for.
Given(k, text) == k \in Keys /\ text \in Texts /\ given[k] = text

ServerFits ==
    /\ given \in [Keys -> Texts \cup {Null}]
    /\ stored \in [Keys -> Texts \cup {Null}]
    /\ \A k \in Keys : stored[k] # Null => given[k] = stored[k]

\* Every address of the history can be followed.
HistoryFits ==
    /\ hist \in Seq(Keys \cup {Root})
    /\ at \in 1..Len(hist)

\* A request is for a text or a key; an answer brings a key and its text.
RequestFits(x) ==
    /\ x = [n |-> x.n, kind |-> x.kind, key |-> x.key, data |-> x.data, st |-> x.st]
    /\ x.kind = "save" => x.data \in Texts
    /\ x.kind = "load" => x.key \in Keys
    /\ x.st = "ok" => Given(x.key, x.data)

\* The editor has a text; a document in view has its key and text.
ViewFits ==
    /\ view = [locked |-> view.locked, key |-> view.key,
               data |-> view.data, editor |-> view.editor]
    /\ view.locked \in BOOLEAN /\ view.editor \in Texts
    /\ view.locked => Given(view.key, view.data)
    /\ ~view.locked => view.key = Null /\ view.data = Null

AppInv == ServerFits /\ HistoryFits /\ (\A x \in xhr : RequestFits(x)) /\ ViewFits

-----------------------------------------------------------------------------
(***************************************************************************)
(* The pieces steps are made of.                                           *)
(***************************************************************************)
LEMMA NewViewFits ==
    ASSUME NEW t \in Texts, view' = [NewView EXCEPT !.editor = t]
    PROVE  ViewFits'
BY DEF ViewFits, NewView

LEMMA FreshFits == Fresh => ViewFits'
BY DEF Fresh, ViewFits, NewView

LEMMA ShownFits ==
    ASSUME ViewFits, NEW k, NEW text, Given(k, text)', view' = Shown(text, k)
    PROVE  ViewFits'
<1>1. view' = [locked |-> TRUE, key |-> k, data |-> text, editor |-> view.editor]
  BY DEF ViewFits, Shown
<1> QED BY <1>1 DEF ViewFits

\* pushState keeps addresses addresses.
LEMMA PushFits ==
    ASSUME HistoryFits, NEW a \in Keys \cup {Root}, Push(a)
    PROVE  HistoryFits'
<1> DEFINE A == Keys \cup {Root}
<1>1. hist \in Seq(A) /\ at \in 1..Len(hist) /\ a \in A
      /\ hist' = Append(SubSeq(hist, 1, at), a) /\ at' = at + 1
  BY DEF HistoryFits, Push
<1> HIDE DEF A
<1>2. Len(hist) \in Nat /\ at \in Nat /\ at <= Len(hist)
  BY <1>1
<1>3. SubSeq(hist, 1, at) \in Seq(A) /\ Len(SubSeq(hist, 1, at)) = at
  BY <1>1, <1>2
<1>4. hist' \in Seq(A) /\ Len(hist') = at + 1
  BY <1>1, <1>3
<1> QED BY <1>1, <1>2, <1>4 DEF HistoryFits, A

LEMMA RequestAdds ==
    ASSUME NEW kind, NEW k, NEW text, Request(kind, k, text)
    PROVE  \E n : xhr' = xhr \cup {[n |-> n, kind |-> kind, key |-> k,
                                    data |-> text, st |-> "sent"]}
BY DEF Request

\* A load and a save that are sent are of the kind above, whatever their number.
LEMMA LoadFits ==
    ASSUME NEW k \in Keys, NEW n,
           NEW x, x = [n |-> n, kind |-> "load", key |-> k, data |-> Null, st |-> "sent"]
    PROVE  RequestFits(x)
BY DEF RequestFits

LEMMA SaveFits ==
    ASSUME NEW text \in Texts, NEW n,
           NEW x, x = [n |-> n, kind |-> "save", key |-> Null, data |-> text, st |-> "sent"]
    PROVE  RequestFits(x)
BY DEF RequestFits

\* The record of a request with an answer filled in.
LEMMA AnswerFilled ==
    ASSUME NEW x, RequestFits(x), NEW new
    PROVE  /\ [x EXCEPT !.key = new, !.st = "ok"]
                = [n |-> x.n, kind |-> x.kind, key |-> new, data |-> x.data, st |-> "ok"]
           /\ [x EXCEPT !.data = new, !.st = "ok"]
                = [n |-> x.n, kind |-> x.kind, key |-> x.key, data |-> new, st |-> "ok"]
<1>1. PICK n, kind, k, text, st : x = [n |-> n, kind |-> kind, key |-> k, data |-> text, st |-> st]
  BY DEF RequestFits
<1> DEFINE y == [x EXCEPT !.key = new]
           z == [x EXCEPT !.data = new]
<1>2. /\ [x EXCEPT !.key = new, !.st = "ok"] = [y EXCEPT !.st = "ok"]
      /\ [x EXCEPT !.data = new, !.st = "ok"] = [z EXCEPT !.st = "ok"]
  BY <1>1
<1>3. /\ y = [n |-> n, kind |-> kind, key |-> new, data |-> text, st |-> st]
      /\ z = [n |-> n, kind |-> kind, key |-> k, data |-> new, st |-> st]
  BY <1>1
<1> HIDE DEF y, z
<1>4. [y EXCEPT !.st = "ok"] = [n |-> n, kind |-> kind, key |-> new, data |-> text, st |-> "ok"]
  BY <1>3
<1>5. [z EXCEPT !.st = "ok"] = [n |-> n, kind |-> kind, key |-> k, data |-> new, st |-> "ok"]
  BY <1>3
<1>6. x.n = n /\ x.kind = kind /\ x.key = k /\ x.data = text
  BY <1>1
<1> QED BY <1>2, <1>4, <1>5, <1>6

LEMMA BootFits ==
    ASSUME NEW a \in Keys \cup {Root}, NEW x \in BootXhr(a)
    PROVE  RequestFits(x)
<1>1. a \in Keys /\ x = [n |-> 1, kind |-> "load", key |-> a, data |-> Null, st |-> "sent"]
  BY DEF BootXhr
<1> QED BY <1>1, LoadFits

\* What was given stays given.
LEMMA GivenStays ==
    ASSUME ServerFits, UNCHANGED given
    PROVE  /\ \A k, text : Given(k, text)' <=> Given(k, text)
           /\ \A x : RequestFits(x)' <=> RequestFits(x)
           /\ UNCHANGED view => (ViewFits' <=> ViewFits)
BY DEF Given, RequestFits, ViewFits

-----------------------------------------------------------------------------
(***************************************************************************)
(* One lemma for each kind of step.                                        *)
(***************************************************************************)
LEMMA AppInit == Init => AppInv
<1> SUFFICES ASSUME Init PROVE AppInv
  OBVIOUS
<1>1. PICK a \in Keys \cup {Root} : hist = <<a>> /\ xhr = BootXhr(a)
  BY DEF Init
<1>2. HistoryFits
  <2> DEFINE A == Keys \cup {Root}
  <2>1. a \in A /\ hist = <<a>> /\ at = 1
    BY <1>1 DEF Init
  <2> HIDE DEF A
  <2>2. hist \in Seq(A) /\ Len(hist) = 1
    BY <2>1
  <2> QED BY <2>1, <2>2 DEF HistoryFits, A
<1>3. \A x \in xhr : RequestFits(x)
  BY <1>1, BootFits
<1>4. ServerFits /\ ViewFits
  BY DEF Init, ServerFits, ViewFits, NewView
<1> QED BY <1>2, <1>3, <1>4 DEF AppInv

\* Typing, and a new or a duplicated document.
LEMMA EditStep ==
    ASSUME AppInv, (\E t \in Texts : Type(t)) \/ New \/ Duplicate
    PROVE  AppInv'
<1>1. UNCHANGED <<xhr, stored, given>>
  BY DEF Type, New, Duplicate
<1>2. ServerFits' /\ \A x \in xhr' : RequestFits(x)'
  BY <1>1, GivenStays DEF AppInv, ServerFits
<1>3. HistoryFits'
  <2>1. CASE UNCHANGED <<hist, at>>
    BY <2>1 DEF AppInv, HistoryFits
  <2>2. CASE Push(Root)
    BY <2>2, PushFits DEF AppInv
  <2> QED BY <2>1, <2>2 DEF Type, New, Duplicate, FreshAt
<1>4. ViewFits'
  <2>1. ASSUME NEW t \in Texts, Type(t) PROVE ViewFits'
    <3>1. /\ ~view.locked /\ ViewFits
          /\ view' = [locked |-> view.locked, key |-> view.key, data |-> view.data, editor |-> t]
      BY <2>1 DEF Type, AppInv, ViewFits
    <3> QED BY <3>1 DEF ViewFits
  <2>2. CASE New
    BY <2>2, FreshFits DEF New, FreshAt
  <2>3. CASE Duplicate
    <3>1. view.data \in Texts
      BY <2>3 DEF Duplicate, AppInv, ViewFits, Given
    <3> QED BY <2>3, <3>1, NewViewFits DEF Duplicate
  <2> QED BY <2>1, <2>2, <2>3
<1> QED BY <1>2, <1>3, <1>4 DEF AppInv

\* Save, walks through the history and reloads.
LEMMA AskStep ==
    ASSUME AppInv, Save \/ (\E to \in 1..MaxHistory : Walk(to)) \/ Boot
    PROVE  AppInv'
<1>1. UNCHANGED <<hist, stored, given>>
  BY DEF Save, Walk, Boot
<1>2. HistoryFits'
  BY <1>1 DEF AppInv, HistoryFits, Save, Walk, Boot
<1>3. ServerFits'
  BY <1>1 DEF AppInv, ServerFits
<1>4. \A x : RequestFits(x)' <=> RequestFits(x)
  BY <1>1, GivenStays DEF AppInv
<1>5. CASE Save
  <2>1. PICK n : xhr' = xhr \cup {[n |-> n, kind |-> "save", key |-> Null,
                                   data |-> view.editor, st |-> "sent"]}
    BY <1>5, RequestAdds DEF Save
  <2>2. view.editor \in Texts /\ view' = view
    BY <1>5 DEF Save, AppInv, ViewFits
  <2>3. RequestFits([n |-> n, kind |-> "save", key |-> Null, data |-> view.editor, st |-> "sent"])
    BY <2>2, SaveFits
  <2>4. \A x \in xhr' : RequestFits(x)'
    BY <1>4, <2>1, <2>3 DEF AppInv
  <2>5. ViewFits'
    BY <1>1, <2>2, GivenStays DEF AppInv
  <2> QED BY <1>2, <1>3, <2>4, <2>5 DEF AppInv
<1>6. ASSUME NEW to \in 1..MaxHistory, Walk(to) PROVE AppInv'
  <2> DEFINE a == hist[to]
  <2>1. a \in Keys \cup {Root} /\ Follow(a)
    <3>1. to \in DOMAIN hist /\ hist \in Seq(Keys \cup {Root})
      BY <1>6 DEF Walk, AppInv, HistoryFits
    <3> QED BY <1>6, <3>1 DEF Walk
  <2> HIDE DEF a
  <2>2. CASE a = Root
    <3>1. Fresh /\ xhr' = xhr
      BY <2>1, <2>2 DEF Follow
    <3> QED BY <1>2, <1>3, <1>4, <3>1, FreshFits DEF AppInv
  <2>3. CASE a \in Keys
    <3>1. Load(a) /\ view' = view
      BY <2>1, <2>3 DEF Follow
    <3>2. PICK n : xhr' = xhr \cup {[n |-> n, kind |-> "load", key |-> a,
                                     data |-> Null, st |-> "sent"]}
      BY <3>1, RequestAdds DEF Load
    <3>3. RequestFits([n |-> n, kind |-> "load", key |-> a, data |-> Null, st |-> "sent"])
      BY <2>3, LoadFits
    <3>4. \A x \in xhr' : RequestFits(x)'
      BY <1>4, <3>2, <3>3 DEF AppInv
    <3>5. ViewFits'
      BY <1>1, <3>1, GivenStays DEF AppInv
    <3> QED BY <1>2, <1>3, <3>4, <3>5 DEF AppInv
  <2> QED BY <2>1, <2>2, <2>3
<1>7. CASE Boot
  <2>1. Url \in Keys \cup {Root}
    BY DEF Url, AppInv, HistoryFits
  <2>2. \A x \in xhr' : RequestFits(x)
    BY <1>7, <2>1, BootFits DEF Boot
  <2>3. ViewFits'
    BY <1>7, FreshFits DEF Boot, Fresh
  <2> QED BY <1>2, <1>3, <1>4, <2>2, <2>3 DEF AppInv
<1> QED BY <1>5, <1>6, <1>7

\* The server keeps a paste under a key that nobody ever had.
LEMMA SaveServed ==
    ASSUME AppInv, NEW x \in xhr, ServeSave(x)
    PROVE  AppInv'
<1>1. PICK k \in Keys :
        /\ given[k] = Null
        /\ stored' = [stored EXCEPT ![k] = x.data]
        /\ given' = [given EXCEPT ![k] = x.data]
        /\ Settle(x, [x EXCEPT !.key = k, !.st = "ok"])
  BY DEF ServeSave
<1>2. x.kind = "save" /\ x.data \in Texts /\ RequestFits(x) /\ UNCHANGED <<view, hist, at>>
  BY DEF ServeSave, AppInv, RequestFits
<1> DEFINE y == [x EXCEPT !.key = k, !.st = "ok"]
<1>3. y = [n |-> x.n, kind |-> "save", key |-> k, data |-> x.data, st |-> "ok"]
  <2>1. y = [n |-> x.n, kind |-> x.kind, key |-> k, data |-> x.data, st |-> "ok"]
    BY Zenon, <1>2, AnswerFilled
  <2> HIDE DEF y
  <2> QED BY <1>2, <2>1
<1>4. xhr' = (xhr \ {x}) \cup {y}
  BY <1>1 DEF Settle
<1> HIDE DEF y
<1>5. ServerFits'
  BY <1>1, <1>2 DEF AppInv, ServerFits
<1>6. \A l, text : Given(l, text) => Given(l, text)'
  BY <1>1 DEF Given, AppInv, ServerFits
<1>7. Given(k, x.data)'
  BY <1>1, <1>2 DEF Given, AppInv, ServerFits
<1>8. RequestFits(y)'
  BY <1>2, <1>3, <1>7 DEF RequestFits
<1>9. \A z \in xhr' : RequestFits(z)'
  <2>1. ASSUME NEW z \in xhr PROVE RequestFits(z)'
    BY <1>6 DEF AppInv, RequestFits
  <2> QED BY <1>4, <1>8, <2>1
<1>10. ViewFits'
  BY <1>2, <1>6 DEF AppInv, ViewFits
<1>11. HistoryFits'
  BY <1>2 DEF AppInv, HistoryFits
<1> QED BY <1>5, <1>9, <1>10, <1>11 DEF AppInv

\* The server answers a load, or nobody answers.
LEMMA LoadServed ==
    ASSUME AppInv, NEW x \in xhr, ServeLoad(x) \/ RequestFails(x)
    PROVE  AppInv'
<1>1. RequestFits(x) /\ UNCHANGED <<view, hist, at, stored, given>>
  BY DEF ServeLoad, RequestFails, AppInv
<1>2. PICK y : xhr' = (xhr \ {x}) \cup {y} /\ RequestFits(y)
  <2>1. CASE RequestFails(x) \/ (ServeLoad(x) /\ stored[x.key] = Null)
    <3> DEFINE y == [x EXCEPT !.st = "err"]
    <3>1. xhr' = (xhr \ {x}) \cup {y}
      BY <2>1 DEF ServeLoad, RequestFails, Settle
    <3>2. y = [n |-> x.n, kind |-> x.kind, key |-> x.key, data |-> x.data, st |-> "err"]
      BY <1>1 DEF RequestFits
    <3> HIDE DEF y
    <3>3. RequestFits(y)
      BY <1>1, <3>2 DEF RequestFits
    <3> QED BY <3>1, <3>3
  <2>2. CASE ServeLoad(x) /\ stored[x.key] # Null
    <3> DEFINE y == [x EXCEPT !.data = stored[x.key], !.st = "ok"]
    <3>1. xhr' = (xhr \ {x}) \cup {y} /\ x.kind = "load"
      BY <2>2 DEF ServeLoad, Settle
    <3>2. y = [n |-> x.n, kind |-> "load", key |-> x.key, data |-> stored[x.key], st |-> "ok"]
      <4>1. y = [n |-> x.n, kind |-> x.kind, key |-> x.key, data |-> stored[x.key], st |-> "ok"]
        BY Zenon, <1>1, AnswerFilled
      <4> HIDE DEF y
      <4> QED BY <3>1, <4>1
    <3> HIDE DEF y
    <3>3. Given(x.key, stored[x.key])
      BY <1>1, <2>2, <3>1 DEF RequestFits, Given, AppInv, ServerFits
    <3>4. RequestFits(y)
      BY <1>1, <3>1, <3>2, <3>3 DEF RequestFits
    <3> QED BY <3>1, <3>4
  <2> QED BY <2>1, <2>2
<1>3. \A z \in xhr' : RequestFits(z)'
  BY <1>1, <1>2, GivenStays DEF AppInv
<1>4. ServerFits' /\ HistoryFits' /\ ViewFits'
  BY <1>1, GivenStays DEF AppInv, ServerFits, HistoryFits
<1> QED BY <1>3, <1>4 DEF AppInv

\* A paste expires or is deleted.
LEMMA VanishStep ==
    ASSUME AppInv, NEW k \in Keys, Vanish(k)
    PROVE  AppInv'
<1>1. UNCHANGED <<view, hist, at, xhr, given>> /\ stored' = [stored EXCEPT ![k] = Null]
  BY DEF Vanish
<1>2. ServerFits'
  BY <1>1 DEF AppInv, ServerFits
<1>3. HistoryFits' /\ ViewFits' /\ \A x \in xhr' : RequestFits(x)'
  BY <1>1, GivenStays DEF AppInv, HistoryFits
<1> QED BY <1>2, <1>3 DEF AppInv

\* The callbacks, on whatever the page is by then.
LEMMA CallbackStep ==
    ASSUME AppInv, NEW x \in xhr, Saved(x) \/ NotSaved(x) \/ Loaded(x) \/ NotLoaded(x)
    PROVE  AppInv'
<1>1. UNCHANGED <<stored, given>> /\ xhr' = xhr \ {x} /\ RequestFits(x)
  BY DEF Saved, NotSaved, Loaded, NotLoaded, AppInv
<1>2. ServerFits' /\ \A z \in xhr' : RequestFits(z)'
  BY <1>1, GivenStays DEF AppInv, ServerFits
<1>3. ViewFits'
  <2>1. CASE Saved(x) \/ Loaded(x)
    <3>1. view' = Shown(x.data, x.key) /\ Given(x.key, x.data)
      BY <1>1, <2>1 DEF Saved, Loaded, RequestFits
    <3>2. Given(x.key, x.data)'
      BY <1>1, <3>1, GivenStays DEF AppInv
    <3> QED BY <3>1, <3>2, ShownFits DEF AppInv
  <2>2. CASE NotSaved(x)
    BY <1>1, <2>2, GivenStays DEF AppInv, NotSaved
  <2>3. CASE NotLoaded(x)
    BY <2>3, FreshFits DEF NotLoaded, FreshAt
  <2> QED BY <2>1, <2>2, <2>3
<1>4. HistoryFits'
  <2>1. CASE UNCHANGED <<hist, at>>
    BY <2>1 DEF AppInv, HistoryFits
  <2>2. ASSUME NEW a \in Keys \cup {Root}, Push(a) PROVE HistoryFits'
    BY <2>2, PushFits DEF AppInv
  <2>3. Saved(x) => x.key \in Keys /\ Push(x.key)
    BY <1>1 DEF Saved, RequestFits, Given
  <2>4. NotLoaded(x) => Push(Root)
    BY DEF NotLoaded, FreshAt
  <2> QED BY <2>1, <2>2, <2>3, <2>4 DEF NotSaved, Loaded
<1> QED BY <1>2, <1>3, <1>4 DEF AppInv

LEMMA AppNext == AppInv /\ [Next]_vars => AppInv'
<1> SUFFICES ASSUME AppInv, [Next]_vars PROVE AppInv'
  OBVIOUS
<1>1. CASE UNCHANGED vars
  <2>1. UNCHANGED <<view, hist, at, xhr, stored, given>>
    BY <1>1 DEF vars
  <2> QED BY <2>1, GivenStays DEF AppInv, ServerFits, HistoryFits
<1> QED BY <1>1, EditStep, AskStep, SaveServed, LoadServed, CallbackStep, VanishStep DEF Next

-----------------------------------------------------------------------------
(***************************************************************************)
(* The theorems.                                                           *)
(***************************************************************************)
\* Whatever the visitor does while requests are under way, and in whatever
\* order they are answered, the page and its requests fit the server.
THEOREM AppInvariant == Spec => []AppInv
<1>1. Init => AppInv
  BY AppInit
<1>2. AppInv /\ [Next]_vars => AppInv'
  BY AppNext
<1> QED BY <1>1, <1>2, PTL DEF Spec

\* showDocument: what the page shows as saved under a key is what the server
\* has or had under that key, because save passes on the text it sent and a
\* key is never given out twice.
THEOREM AppShownIsStored == Spec => []ShownIsStored
<1>1. AppInv => ShownIsStored
  BY DEF AppInv, ViewFits, Given, ShownIsStored
<1> QED BY <1>1, AppInvariant, PTL

=============================================================================
