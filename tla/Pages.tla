-------------------------------- MODULE Pages --------------------------------
(***************************************************************************)
(* A page of the panel or of a shop between its user, its requests and the *)
(* server.  One page is open; its handlers, controls and loader come from  *)
(* Book, which PageBooks fills in.  A change is named <<press, request>>;  *)
(* the server keeps the changes it applied, the page the changes it shows. *)
(* Requests may be served and answered in any order: inOrder remembers     *)
(* whether they were answered and served as they were sent.                *)
(***************************************************************************)
EXTENDS Naturals, Sequences, SequencesExt, FiniteSets

CONSTANTS
  Book,        \* name of a page -> its handlers, controls and loader
  RowIds,      \* rows of a list, strings
  MaxPresses,  \* presses, filter changes and ticks of a poll in a behaviour
  MaxInFlight  \* requests under way at a time

NoId == ""  \* what a flag holds when it is down, and the flag of a handler without one

ASSUME PagesAssumption == MaxPresses \in Nat /\ MaxInFlight \in Nat /\ RowIds # {} /\ NoId \notin RowIds

FlagsOf(p) == ({p.handlers[h].flag : h \in DOMAIN p.handlers} \cup {p.load.flag}) \ {NoId}

Loader == [flag : STRING, mount : BOOLEAN, poll : BOOLEAN, filter : BOOLEAN, guarded : BOOLEAN]
Handler ==
  [flag : STRING, row : BOOLEAN, early : BOOLEAN, steps : Nat \ {0},
   then : {"patch", "patchAll", "reload", "tick", "keep", "none", "leave", "read"},
   error : {"toast", "reload", "tick"}]

\* A page is written down in the vocabulary of PageBooks, and a handler that changes
\* the screen before it asks has the page load again when it is refused.
IsPage(p) ==
  /\ p.load \in Loader
  /\ DOMAIN p.handlers \subseteq STRING \ {NoId, "effect"}
  /\ \A h \in DOMAIN p.handlers :
       /\ p.handlers[h] \in Handler
       /\ p.handlers[h].early => p.handlers[h].error # "toast"
  /\ \A h \in DOMAIN p.controls : p.controls[h].any \cup p.controls[h].own \subseteq FlagsOf(p)

ASSUME BookAssumption == \A name \in DOMAIN Book : IsPage(Book[name])

VARIABLES
  page,       \* the page that is open
  up,         \* flag -> the id it holds, NoId when it is down
  requests,   \* requests under way, in the order they were sent
  applied,    \* changes the server has applied
  shown,      \* changes the page shows
  acked,      \* changes a handler of the page reported as done
  query,      \* the filter the user chose
  shownQuery, \* the filter the rows on the screen were asked with
  effectRun,  \* how often a guarded loading effect was started
  due,        \* the loading effect, a debounce or a timer is about to load
  stale,      \* the last load failed: the page keeps what it showed
  left,       \* the page navigated away
  presses,
  inOrder

pageVars == <<page, up, requests, applied, shown, acked, query, shownQuery, effectRun, due, stale, left, presses, inOrder>>

P == Book[page]

PagesInit ==
  /\ page \in DOMAIN Book
  /\ up = [f \in FlagsOf(P) |-> NoId]
  /\ requests = <<>> /\ applied = {} /\ shown = {} /\ acked = {}
  /\ query = 0 /\ shownQuery = 0 /\ effectRun = 0
  /\ due = P.load.mount
  /\ stale = FALSE /\ left = FALSE /\ presses = 0 /\ inOrder = TRUE

Request(handler, key, kind, press, step, q) ==
  [handler |-> handler, key |-> key, kind |-> kind, press |-> press, step |-> step,
   at |-> "sent", seen |-> {}, query |-> q, run |-> effectRun]

Raise(flags, f, key) == IF f = NoId THEN flags ELSE [flags EXCEPT ![f] = key]
Without(i) == RemoveAt(requests, i)

\* The ids a flag can hold for a handler: the rows, or the name of the handler.
KeysOf(h) == IF P.handlers[h].row /\ P.handlers[h].flag # NoId THEN RowIds ELSE {h}

\* A button is disabled by the flags its control names (a loading Button is disabled too).
Enabled(h, key) ==
  h \in DOMAIN P.controls => /\ \A f \in P.controls[h].any : up[f] = NoId
                             /\ \A f \in P.controls[h].own : up[f] # key

\* The user presses a button: the handler raises its flag and sends its request.
press(h, key) ==
  LET d == P.handlers[h]
      n == presses + 1
      read == d.then = "read" IN
  /\ presses < MaxPresses /\ Len(requests) < MaxInFlight /\ ~left
  /\ Enabled(h, key)
  /\ presses' = n
  /\ up' = Raise(IF read THEN Raise(up, P.load.flag, "load") ELSE up, d.flag, key)
  /\ requests' = Append(requests, Request(h, key, IF read THEN "load" ELSE "write", n, 1, query))
  /\ shown' = IF d.early THEN shown \cup {<<n, 1>>} ELSE shown
  /\ UNCHANGED <<page, applied, acked, query, shownQuery, effectRun, due, stale, left, inOrder>>

\* The server serves a request: it applies a write or refuses it, or the answer is
\* lost (an error to the page) after it was applied; a load reads what is applied.
serve(i, outcome) ==
  LET r == requests[i] IN
  /\ r.at = "sent" /\ ~left
  /\ (r.kind = "load" => outcome # "lost")
  /\ requests' = [requests EXCEPT ![i].at = IF outcome = "ok" THEN "ok" ELSE "error", ![i].seen = IF r.kind = "load" THEN applied ELSE {}]
  /\ applied' = IF r.kind = "write" /\ outcome # "refused" THEN applied \cup {<<r.press, r.step>>} ELSE applied
  /\ inOrder' = (inOrder /\ \A j \in 1..(i - 1) : requests[j].at # "sent")
  /\ UNCHANGED <<page, up, shown, acked, query, shownQuery, effectRun, due, stale, left, presses>>

Answered(i, kind, at) ==
  /\ ~left
  /\ requests[i].kind = kind /\ requests[i].at = at
  /\ inOrder' = (inOrder /\ i = 1)

ChangesOf(r) == {<<r.press, s>> : s \in 1..r.step}
Lowered(r) == Raise(up, P.handlers[r.handler].flag, NoId)

\* A request of several was answered: the next one is sent.
nextRequest(i) ==
  LET r == requests[i]
      d == P.handlers[r.handler] IN
  /\ Answered(i, "write", "ok")
  /\ r.step < d.steps
  /\ requests' = Append(Without(i), Request(r.handler, r.key, "write", r.press, r.step + 1, r.query))
  /\ shown' = IF d.then = "patch" THEN shown \cup {<<r.press, r.step>>} ELSE shown
  /\ acked' = IF d.then = "patch" THEN acked \cup {<<r.press, r.step>>} ELSE acked
  /\ UNCHANGED <<page, up, applied, query, shownQuery, effectRun, due, stale, left, presses>>

\* The last answer of a handler that merges it, keeps its early change, or only reports it.
finishHere(i) ==
  LET r == requests[i]
      d == P.handlers[r.handler]
      merges == d.then \in {"patch", "patchAll"} IN
  /\ Answered(i, "write", "ok")
  /\ r.step = d.steps /\ d.then \in {"patch", "patchAll", "keep", "none"}
  /\ requests' = Without(i)
  /\ up' = Lowered(r)
  /\ shown' = IF merges THEN shown \cup ChangesOf(r) ELSE shown
  /\ acked' = IF merges THEN acked \cup ChangesOf(r) ELSE acked
  /\ UNCHANGED <<page, applied, query, shownQuery, effectRun, due, stale, left, presses>>

\* await load() inside the try: the flag stays up, the filter is the one of the press.
reloadInside(i) ==
  LET r == requests[i]
      d == P.handlers[r.handler]
      ok == r.at = "ok" IN
  /\ r.kind = "write" /\ ~left
  /\ (ok /\ d.then = "reload" /\ r.step = d.steps) \/ (r.at = "error" /\ d.error = "reload")
  /\ inOrder' = (inOrder /\ i = 1)
  /\ requests' = Append(Without(i), Request(r.handler, r.key, "load", r.press, r.step, r.query))
  /\ up' = Raise(up, P.load.flag, "load")
  /\ acked' = IF ok THEN acked \cup ChangesOf(r) ELSE acked
  /\ UNCHANGED <<page, applied, shown, query, shownQuery, effectRun, due, stale, left, presses>>

\* The loading effect starts again: the run under way is no longer alive.
EffectAgain == due' = TRUE /\ effectRun' = IF P.load.guarded THEN effectRun + 1 ELSE effectRun

\* The handler lowers its flag and has the page load again.
tickAfter(i) ==
  LET r == requests[i]
      d == P.handlers[r.handler]
      ok == r.at = "ok" IN
  /\ r.kind = "write" /\ ~left
  /\ (ok /\ d.then = "tick" /\ r.step = d.steps) \/ (r.at = "error" /\ d.error = "tick")
  /\ inOrder' = (inOrder /\ i = 1)
  /\ requests' = Without(i)
  /\ up' = Lowered(r)
  /\ acked' = IF ok THEN acked \cup ChangesOf(r) ELSE acked
  /\ EffectAgain
  /\ UNCHANGED <<page, applied, shown, query, shownQuery, stale, left, presses>>

\* catch and finally: a message, and the flag falls.
toastError(i) ==
  LET r == requests[i] IN
  /\ Answered(i, "write", "error")
  /\ P.handlers[r.handler].error \notin {"reload", "tick"}
  /\ requests' = Without(i)
  /\ up' = Lowered(r)
  /\ UNCHANGED <<page, applied, shown, acked, query, shownQuery, effectRun, due, stale, left, presses>>

leavePage(i) ==
  /\ Answered(i, "write", "ok")
  /\ P.handlers[requests[i].handler].then = "leave"
  /\ requests' = Without(i)
  /\ left' = TRUE
  /\ UNCHANGED <<page, up, applied, shown, acked, query, shownQuery, effectRun, due, stale, presses>>

\* Mutant of loadAnswered: the answer of an earlier run of the effect is shown.
loadWithoutAlive(i) ==
  LET r == requests[i]
      dropped == FALSE
      afterLoad == IF dropped THEN up ELSE Raise(up, P.load.flag, NoId) IN
  /\ r.kind = "load" /\ r.at # "sent" /\ ~left
  /\ inOrder' = (inOrder /\ i = 1)
  /\ requests' = Without(i)
  /\ up' = IF r.handler = "effect" THEN afterLoad ELSE Raise(afterLoad, P.handlers[r.handler].flag, NoId)
  /\ shown' = IF r.at = "ok" /\ ~dropped THEN r.seen ELSE shown
  /\ shownQuery' = IF r.at = "ok" /\ ~dropped THEN r.query ELSE shownQuery
  /\ stale' = IF dropped THEN stale ELSE r.at = "error"
  /\ UNCHANGED <<page, applied, acked, query, effectRun, due, left, presses>>

\* A load is answered.  A guarded effect drops the answers of an earlier run and
\* leaves its flag to the current one; finally lowers the flag of who asked.
loadAnswered(i) ==
  LET r == requests[i]
      dropped == P.load.guarded /\ r.run # effectRun
      afterLoad == IF dropped THEN up ELSE Raise(up, P.load.flag, NoId) IN
  /\ r.kind = "load" /\ r.at # "sent" /\ ~left
  /\ inOrder' = (inOrder /\ i = 1)
  /\ requests' = Without(i)
  /\ up' = IF r.handler = "effect" THEN afterLoad ELSE Raise(afterLoad, P.handlers[r.handler].flag, NoId)
  /\ shown' = IF r.at = "ok" /\ ~dropped THEN r.seen ELSE shown
  /\ shownQuery' = IF r.at = "ok" /\ ~dropped THEN r.query ELSE shownQuery
  /\ stale' = IF dropped THEN stale ELSE r.at = "error"
  /\ UNCHANGED <<page, applied, acked, query, effectRun, due, left, presses>>

\* The effect, the debounce or the timer fires.
load ==
  /\ due /\ Len(requests) < MaxInFlight /\ ~left
  /\ due' = FALSE
  /\ up' = Raise(up, P.load.flag, "load")
  /\ requests' = Append(requests, Request("effect", "load", "load", 0, 0, query))
  /\ UNCHANGED <<page, applied, shown, acked, query, shownQuery, effectRun, stale, left, presses, inOrder>>

\* The user changes the filter: the cleanup of the effect cancels its timer.
chooseFilter ==
  /\ P.load.filter /\ presses < MaxPresses /\ ~left
  /\ presses' = presses + 1
  /\ query' = query + 1
  /\ EffectAgain
  /\ UNCHANGED <<page, up, requests, applied, shown, acked, shownQuery, stale, left, inOrder>>

\* setInterval, or a button that only moves the tick.
pollTick ==
  /\ P.load.poll /\ presses < MaxPresses /\ ~left
  /\ presses' = presses + 1
  /\ EffectAgain
  /\ UNCHANGED <<page, up, requests, applied, shown, acked, query, shownQuery, stale, left, inOrder>>

PagesNext ==
  \/ \E h \in DOMAIN P.handlers : \E key \in KeysOf(h) : press(h, key)
  \/ \E i \in DOMAIN requests :
       \/ \E outcome \in {"ok", "refused", "lost"} : serve(i, outcome)
       \/ nextRequest(i) \/ finishHere(i) \/ reloadInside(i) \/ tickAfter(i) \/ toastError(i) \/ leavePage(i)
       \/ loadAnswered(i)
  \/ load \/ chooseFilter \/ pollTick

PagesSpec == PagesInit /\ [][PagesNext]_pageVars

(* ------------------------------ properties ------------------------------ *)

PageQuiet == requests = <<>> /\ ~due /\ ~left

\* No control stays disabled and no spinner turns once every request was answered,
\* whatever failed and in whatever order the answers came.
FlagsFall == PageQuiet => \A f \in DOMAIN up : up[f] = NoId

\* A flag keeps its handlers apart when each of them is disabled by any value of it
\* and the loader does not raise it.
KeepsApart(f) ==
  /\ f # P.load.flag
  /\ \A h \in DOMAIN P.handlers : P.handlers[h].flag = f => h \in DOMAIN P.controls /\ f \in P.controls[h].any

\* Such a flag admits one request at a time: an order, a top-up or a purchase is not
\* sent twice by a second press.
NoDoubleSubmit ==
  \A f \in DOMAIN up : KeepsApart(f) =>
    Cardinality({i \in DOMAIN requests : requests[i].handler # "effect" /\ P.handlers[requests[i].handler].flag = f}) <= 1

\* A page whose effect drops old answers, and whose handlers only re-run it.
Protected == P.load.guarded /\ \A h \in DOMAIN P.handlers : P.handlers[h].then = "tick"

\* Once a page is quiet and its last load did not fail, it shows every change it
\* reported as done, and nothing the server refused: an optimistic change that was
\* refused is gone.  Unprotected pages promise it only to requests served and
\* answered in the order they were sent.
ShowsTheTruth == PageQuiet /\ ~stale /\ (Protected \/ inOrder) => acked \subseteq shown /\ shown \subseteq applied

\* The rows are the rows of the filter the user chose last.  A handler that reloads
\* asks with the filter of its press, so only pages without one promise it, and a
\* page whose effect keeps late answers only when they come in order.
RowsOfTheFilter ==
  LET reloads == \E h \in DOMAIN P.handlers : P.handlers[h].then \in {"reload", "read"} \/ P.handlers[h].error = "reload" IN
  PageQuiet /\ ~stale /\ ~reloads /\ (P.load.guarded \/ inOrder) => shownQuery = query

\* What a page promises its user.
PagesSound == FlagsFall /\ NoDoubleSubmit /\ ShowsTheTruth /\ RowsOfTheFilter
=============================================================================
