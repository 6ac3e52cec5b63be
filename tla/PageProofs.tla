----------------------------- MODULE PageProofs -----------------------------
(***************************************************************************)
(* Proofs about the pages: for every page that is written down in the      *)
(* vocabulary of PageBooks, with any rows and any number of presses and of *)
(* requests under way, its flags fall, a flag that keeps its handlers      *)
(* apart admits one request, and a page at rest shows what the server has. *)
(***************************************************************************)
EXTENDS Pages, FiniteSetTheorems, SequenceTheorems, TLAPS

(* ------------------------- the inductive invariant ---------------------- *)

Changes == Nat \X Nat
HandlerNames == UNION {DOMAIN Book[name].handlers : name \in DOMAIN Book}
Names == HandlerNames \union {"effect"}
Keys == RowIds \union Names \union {"load", NoId}
Requests ==
  [handler : Names, key : Keys, kind : {"load", "write"}, press : Nat, step : Nat,
   at : {"sent", "ok", "error"}, seen : SUBSET Changes, query : Nat, run : Nat]

\* The requests under way, whatever their order.
Under == Range(requests)

\* The statement a request belongs to.
RequestOK(r) ==
  /\ r.handler \in DOMAIN P.handlers \union {"effect"}
  /\ r.kind = "write" => r.handler # "effect" /\ r.step # 0
  /\ r.query <= query /\ r.run <= effectRun

PageTypes ==
  /\ page \in DOMAIN Book
  /\ up \in [FlagsOf(P) -> Keys]
  /\ requests \in Seq(Requests)
  /\ applied \in SUBSET Changes
  /\ query \in Nat /\ effectRun \in Nat /\ presses \in Nat
  /\ \A r \in Under : RequestOK(r)

\* A request whose end lowers the flag f; a load whose answer is shown.
Holds(r, f) == r.handler # "effect" /\ P.handlers[r.handler].flag = f
Live(r) == r.kind = "load" /\ (P.load.guarded => r.run = effectRun)
LiveLoad == \E r \in Under : Live(r)

\* A flag that is up has somebody who will lower it.
FlagsHeld ==
  left \/ \A f \in DOMAIN up : up[f] # NoId =>
            \/ \E r \in Under : Holds(r, f)
            \/ f = P.load.flag /\ (due \/ LiveLoad)

\* A flag that keeps its handlers apart is up while its one request is under way.
OneHolds(f) ==
  \A i, j \in DOMAIN requests : Holds(requests[i], f) /\ Holds(requests[j], f) => i = j /\ up[f] # NoId
HoldersApart == \A f \in DOMAIN up : KeepsApart(f) => OneHolds(f)

\* What was answered, and what a load has seen, the server has applied.
WasApplied(r) ==
  /\ r.kind = "write" => \A s \in 1..r.step : (s = r.step => r.at = "ok") => <<r.press, s>> \in applied
  /\ r.kind = "load" => r.seen \subseteq applied
AllApplied == acked \subseteq applied /\ \A r \in Under : WasApplied(r)

\* A load will replace what is shown, or has failed to.
Awaited == left \/ due \/ stale \/ LiveLoad

\* Only the early change of a request under way is shown before it is applied.
EarlyOf(r, c) == r.kind = "write" /\ P.handlers[r.handler].early /\ c = <<r.press, 1>>
ShownApplied == Awaited \/ \A c \in shown : c \in applied \/ \E r \in Under : EarlyOf(r, c)

\* Served in order: the requests that were served come first, and a load among them
\* saw the writes before it.
InQueue(i, j) ==
  /\ requests[j].at # "sent" => requests[i].at # "sent"
  /\ requests[i].kind = "write" /\ requests[i].at = "ok" /\ requests[j].kind = "load" /\ requests[j].at = "ok" =>
       ChangesOf(requests[i]) \subseteq requests[j].seen
Queue == inOrder => \A i, j \in DOMAIN requests : i < j => InQueue(i, j)

\* What was reported as done is shown, or a load that has seen it will show it.
Reported == Protected \/ inOrder
AckedSeen == Reported => \A r \in Under : Live(r) /\ r.at = "ok" => acked \subseteq r.seen
AckedShown == Reported => Awaited \/ acked \subseteq shown

\* Pages whose loads all come from the effect: an effect that drops old answers asks
\* with the filter of the user, one that does not asks in the order of the filters.
EffectLoads == ~\E h \in DOMAIN P.handlers : P.handlers[h].then \in {"reload", "read"} \/ P.handlers[h].error = "reload"
GuardedRows ==
  EffectLoads /\ P.load.guarded =>
    /\ \A r \in Under : Live(r) => r.query = query
    /\ Awaited \/ shownQuery = query
AsksLast(r) == r.kind = "load" /\ r.query = query
AskedAfter(i, j) == requests[i].kind = "load" /\ requests[j].kind = "load" => requests[i].query <= requests[j].query
AskedInTurn == EffectLoads => \A i, j \in DOMAIN requests : i < j => AskedAfter(i, j)
RowsInTurn ==
  \/ left \/ due \/ \E r \in Under : AsksLast(r)
  \/ (\A r \in Under : r.kind # "load") /\ (stale \/ shownQuery = query)
OrderedRows == EffectLoads /\ ~P.load.guarded /\ inOrder => RowsInTurn

PageInv ==
  /\ PageTypes /\ FlagsHeld /\ HoldersApart /\ AllApplied /\ ShownApplied
  /\ Queue /\ AckedSeen /\ AckedShown /\ GuardedRows /\ AskedInTurn /\ OrderedRows

(* ------------------------------ the queue ------------------------------- *)

\* A request is added behind the others.
LEMMA AppendIs ==
  ASSUME NEW S, NEW s \in Seq(S), NEW m \in S
  PROVE  /\ Append(s, m) \in Seq(S) /\ Range(Append(s, m)) = Range(s) \union {m}
         /\ DOMAIN s = 1..Len(s) /\ DOMAIN Append(s, m) = 1..(Len(s) + 1) /\ Len(s) \in Nat
         /\ Append(s, m)[Len(s) + 1] = m /\ \A j \in DOMAIN s : Append(s, m)[j] = s[j]
<1>1. /\ Append(s, m) \in Seq(S) /\ Len(s) \in Nat
      /\ DOMAIN s = 1..Len(s) /\ DOMAIN Append(s, m) = 1..(Len(s) + 1)
      /\ Append(s, m)[Len(s) + 1] = m /\ \A j \in DOMAIN s : Append(s, m)[j] = s[j]
  OBVIOUS
<1>2. \A j \in 1..(Len(s) + 1) : j = Len(s) + 1 \/ j \in 1..Len(s)
  BY <1>1
<1>3. Range(Append(s, m)) \subseteq Range(s) \union {m}
  BY <1>1, <1>2 DEF Range
<1>4. Range(s) \union {m} \subseteq Range(Append(s, m))
  <2>1. Len(s) + 1 \in 1..(Len(s) + 1) /\ \A j \in 1..Len(s) : j \in 1..(Len(s) + 1)
    BY <1>1
  <2> QED BY <1>1, <2>1 DEF Range
<1> QED BY <1>1, <1>3, <1>4

\* Where the j-th request was before the i-th was taken out.
Before(i, j) == IF j < i THEN j ELSE j + 1

\* A request is taken out; the others keep their order.
LEMMA RemoveIs ==
  ASSUME NEW S, NEW s \in Seq(S), NEW i \in DOMAIN s
  PROVE  /\ RemoveAt(s, i) \in Seq(S) /\ DOMAIN s = 1..Len(s) /\ Len(s) \in Nat /\ i \in 1..Len(s)
         /\ DOMAIN RemoveAt(s, i) = 1..(Len(s) - 1) /\ Len(RemoveAt(s, i)) = Len(s) - 1
         /\ \A j \in DOMAIN RemoveAt(s, i) :
              Before(i, j) \in DOMAIN s \ {i} /\ RemoveAt(s, i)[j] = s[Before(i, j)]
         /\ Range(RemoveAt(s, i)) \subseteq Range(s)
         /\ Range(s) \ {s[i]} \subseteq Range(RemoveAt(s, i))
<1>1. DOMAIN s = 1..Len(s) /\ Len(s) \in Nat /\ i \in 1..Len(s)
  OBVIOUS
<1>2. /\ RemoveAt(s, i) \in Seq(S) /\ Len(RemoveAt(s, i)) = Len(s) - 1
      /\ DOMAIN RemoveAt(s, i) = 1..(Len(s) - 1)
  BY <1>1 DEF RemoveAt
<1>3. ASSUME NEW j \in 1..(Len(s) - 1) PROVE RemoveAt(s, i)[j] = s[Before(i, j)]
  <2> DEFINE a == SubSeq(s, 1, i - 1)
             b == SubSeq(s, i + 1, Len(s))
  <2>1. a \in Seq(S) /\ Len(a) = i - 1 /\ \A k \in 1..(i - 1) : a[k] = s[k]
    BY <1>1
  <2>2. b \in Seq(S) /\ Len(b) = Len(s) - i /\ \A k \in 1..(Len(s) - i) : b[k] = s[i + k]
    BY <1>1
  <2>3. (a \o b)[j] = IF j <= Len(a) THEN a[j] ELSE b[j - Len(a)]
    <3> HIDE DEF a, b
    <3>1. j \in 1..(Len(a) + Len(b))
      BY <1>1, <2>1, <2>2
    <3> QED BY <2>1, <2>2, <3>1, ConcatProperties
  <2>4. CASE j < i
    <3>1. (a \o b)[j] = a[j] /\ a[j] = s[j]
      BY <1>1, <2>1, <2>3, <2>4
    <3> QED BY <2>4, <3>1 DEF RemoveAt, Before
  <2>5. CASE ~(j < i)
    <3> HIDE DEF a, b
    <3>1. j - (i - 1) \in 1..(Len(s) - i) /\ i + (j - (i - 1)) = j + 1 /\ ~(j <= i - 1)
      BY <1>1, <2>5
    <3>2. b[j - (i - 1)] = s[j + 1]
      BY <2>2, <3>1
    <3>3. (a \o b)[j] = s[j + 1]
      BY <2>1, <2>3, <3>1, <3>2
    <3> QED BY <2>5, <3>3 DEF RemoveAt, Before, a, b
  <2> QED BY <2>4, <2>5
<1>4. \A j \in 1..(Len(s) - 1) : Before(i, j) \in 1..Len(s) /\ Before(i, j) # i
  BY <1>1 DEF Before
<1>5. Range(RemoveAt(s, i)) \subseteq Range(s)
  BY <1>1, <1>2, <1>3, <1>4 DEF Range
<1>6. ASSUME NEW k \in DOMAIN s, k # i PROVE s[k] \in Range(RemoveAt(s, i))
  <2> DEFINE j == IF k < i THEN k ELSE k - 1
  <2>1. j \in 1..(Len(s) - 1) /\ Before(i, j) = k
    BY <1>1, <1>6 DEF Before
  <2> QED BY <1>2, <1>3, <2>1 DEF Range
<1>7. Range(s) \ {s[i]} \subseteq Range(RemoveAt(s, i))
  BY <1>6 DEF Range
<1> QED BY <1>1, <1>2, <1>3, <1>4, <1>5, <1>7

\* A request is answered by the server; it keeps its place.
LEMMA ReplaceIs ==
  ASSUME NEW S, NEW s \in Seq(S), NEW i \in DOMAIN s, NEW m \in S
  PROVE  /\ [s EXCEPT ![i] = m] \in Seq(S) /\ DOMAIN [s EXCEPT ![i] = m] = DOMAIN s
         /\ \A j \in DOMAIN s : [s EXCEPT ![i] = m][j] = IF j = i THEN m ELSE s[j]
         /\ Range([s EXCEPT ![i] = m]) \subseteq Range(s) \union {m}
         /\ (Range(s) \ {s[i]}) \union {m} \subseteq Range([s EXCEPT ![i] = m])
<1>1. /\ [s EXCEPT ![i] = m] \in Seq(S) /\ DOMAIN [s EXCEPT ![i] = m] = DOMAIN s
      /\ \A j \in DOMAIN s : [s EXCEPT ![i] = m][j] = IF j = i THEN m ELSE s[j]
  OBVIOUS
<1> QED BY <1>1 DEF Range

(* ------------------- what a step does to the requests ------------------- *)

\* A request as it is sent.
New(m, h, kind, n, step, q) ==
  /\ m \in Requests /\ m.handler = h /\ m.kind = kind /\ m.press = n /\ m.step = step
  /\ m.query = q /\ m.run = effectRun /\ m.at = "sent" /\ m.seen = {}

Adds(m) == requests' = Append(requests, m) /\ requests' \in Seq(Requests) /\ Under' = Under \union {m}
Ends(i) ==
  /\ requests' = Without(i) /\ requests' \in Seq(Requests)
  /\ Under' \subseteq Under /\ Under \ {requests[i]} \subseteq Under'
Follows(i, m) ==
  /\ requests' = Append(Without(i), m) /\ requests' \in Seq(Requests)
  /\ Under' \subseteq Under \union {m} /\ (Under \ {requests[i]}) \union {m} \subseteq Under'
Answers(i, m) ==
  /\ requests' = [requests EXCEPT ![i] = m] /\ requests' \in Seq(Requests)
  /\ Under' \subseteq Under \union {m} /\ (Under \ {requests[i]}) \union {m} \subseteq Under'

\* What a flag or a request can be named.
LEMMA KeysIs ==
  "load" \in Keys /\ NoId \in Keys /\ "load" # NoId /\ "effect" \in Names /\ Names \subseteq Keys /\ RowIds \subseteq Keys
<1>1. "load" # NoId
  BY Zenon DEF NoId
<1>2. "effect" \in Names
  BY DEF Names
<1>3. "load" \in Keys /\ NoId \in Keys /\ Names \subseteq Keys /\ RowIds \subseteq Keys
  BY DEF Keys
<1> QED BY <1>1, <1>2, <1>3

\* A request that is sent is a request.
LEMMA NewIs ==
  ASSUME PageTypes, NEW h \in Names, NEW key \in Keys, NEW kind \in {"load", "write"},
         NEW n \in Nat, NEW step \in Nat, NEW q \in Nat
  PROVE  New(Request(h, key, kind, n, step, q), h, kind, n, step, q)
BY DEF PageTypes, Request, Requests, New

\* Adding, ending and following a request.
LEMMA AddsIs ==
  ASSUME PageTypes, NEW m \in Requests, requests' = Append(requests, m)
  PROVE  Adds(m)
BY AppendIs DEF PageTypes, Adds, Under

\* A request that ends was under way and leaves the queue.
LEMMA EndsIs ==
  ASSUME PageTypes, NEW i \in DOMAIN requests, requests' = Without(i)
  PROVE  Ends(i) /\ requests[i] \in Under /\ requests[i] \in Requests /\ RequestOK(requests[i])
<1>1. requests \in Seq(Requests) /\ \A r \in Under : RequestOK(r)
  BY DEF PageTypes
<1>2. requests[i] \in Under /\ requests[i] \in Requests
  BY <1>1 DEF Under, Range
<1>3. Ends(i)
  BY <1>1, RemoveIs DEF Ends, Under, Without
<1> QED BY <1>1, <1>2, <1>3

\* A request that asks again was under way; the new request goes to the back.
LEMMA FollowsIs ==
  ASSUME PageTypes, NEW i \in DOMAIN requests, NEW m \in Requests, requests' = Append(Without(i), m)
  PROVE  Follows(i, m) /\ requests[i] \in Under /\ requests[i] \in Requests /\ RequestOK(requests[i])
<1>1. requests \in Seq(Requests) /\ \A r \in Under : RequestOK(r)
  BY DEF PageTypes
<1>2. requests[i] \in Under /\ requests[i] \in Requests
  BY <1>1 DEF Under, Range
<1>3. /\ Without(i) \in Seq(Requests) /\ Range(Without(i)) \subseteq Under
      /\ Under \ {requests[i]} \subseteq Range(Without(i))
  BY <1>1, RemoveIs DEF Under, Without
<1>4. requests' \in Seq(Requests) /\ Range(requests') = Range(Without(i)) \union {m}
  BY <1>3, AppendIs
<1> QED BY <1>1, <1>2, <1>3, <1>4 DEF Follows, Under

\* A handler of the page that is open.
LEMMA HandlerIs ==
  ASSUME PageTypes, NEW h \in DOMAIN P.handlers
  PROVE  /\ P.handlers[h] \in Handler /\ h \in Names /\ h # NoId /\ h # "effect"
         /\ P.handlers[h].early => P.handlers[h].error # "toast"
         /\ P.handlers[h].flag # NoId => P.handlers[h].flag \in FlagsOf(P)
<1>1. IsPage(P)
  BY BookAssumption DEF PageTypes, P
<1>2. P.handlers[h] \in Handler /\ h # NoId /\ h # "effect" /\ (P.handlers[h].early => P.handlers[h].error # "toast")
  BY <1>1 DEF IsPage
<1>3. h \in Names
  BY DEF PageTypes, P, Names, HandlerNames
<1> QED BY <1>2, <1>3 DEF FlagsOf

\* The loader of the page that is open.
LEMMA LoaderIs ==
  ASSUME PageTypes
  PROVE  P.load \in Loader /\ (P.load.flag # NoId => P.load.flag \in FlagsOf(P))
<1>1. IsPage(P)
  BY BookAssumption DEF PageTypes, P
<1>2. P.load \in Loader
  BY <1>1 DEF IsPage
<1> QED BY <1>2 DEF FlagsOf

\* A flag is raised or lowered, the others stay.
LEMMA RaiseIs ==
  ASSUME NEW F, NEW flags \in [F -> Keys], NEW f, f # NoId => f \in F, NEW k \in Keys
  PROVE  /\ Raise(flags, f, k) \in [F -> Keys]
         /\ \A g \in F : Raise(flags, f, k)[g] = IF g = f /\ f # NoId THEN k ELSE flags[g]
BY DEF Raise

\* The user presses a button.
LEMMA PressView ==
  ASSUME PageTypes, NEW h \in DOMAIN P.handlers, NEW key \in KeysOf(h), press(h, key)
  PROVE  /\ key \in Keys /\ key # NoId
         /\ \E m : /\ New(m, h, IF P.handlers[h].then = "read" THEN "load" ELSE "write", presses + 1, 1, query)
                   /\ Adds(m)
<1>1. key \in Keys /\ key # NoId
  BY HandlerIs, PagesAssumption DEF KeysOf, Keys
<1> DEFINE kind == IF P.handlers[h].then = "read" THEN "load" ELSE "write"
           m == Request(h, key, kind, presses + 1, 1, query)
<1>2. presses + 1 \in Nat /\ query \in Nat /\ kind \in {"load", "write"}
  BY DEF PageTypes
<1>3. New(m, h, kind, presses + 1, 1, query)
  BY <1>1, <1>2, HandlerIs, NewIs
<1>4. requests' = Append(requests, m)
  BY DEF press
<1>5. Adds(m)
  <2> HIDE DEF m
  <2> QED BY <1>3, <1>4, AddsIs DEF New
<1> QED BY <1>1, <1>3, <1>5

\* The effect sends a request of its own.
LEMMA LoadView ==
  ASSUME PageTypes, load
  PROVE  \E m : New(m, "effect", "load", 0, 0, query) /\ Adds(m)
<1> DEFINE m == Request("effect", "load", "load", 0, 0, query)
<1>1. New(m, "effect", "load", 0, 0, query)
  <2>1. query \in Nat /\ "load" \in {"load", "write"} /\ 0 \in Nat
    BY DEF PageTypes
  <2>2. "load" \in Keys /\ "effect" \in Names
    BY KeysIs
  <2> QED BY <2>1, <2>2, NewIs
<1>2. requests' = Append(requests, m)
  BY DEF load
<1>3. Adds(m)
  <2> HIDE DEF m
  <2> QED BY <1>1, <1>2, AddsIs DEF New
<1> QED BY <1>1, <1>3

\* A handler goes on with another request.
LEMMA FollowView ==
  ASSUME PageTypes, NEW i \in DOMAIN requests, NEW kind \in {"load", "write"}, NEW step \in Nat,
         requests' = Append(Without(i), Request(requests[i].handler, requests[i].key, kind, requests[i].press, step, requests[i].query))
  PROVE  /\ requests[i] \in Under /\ requests[i] \in Requests /\ RequestOK(requests[i])
         /\ \E m : New(m, requests[i].handler, kind, requests[i].press, step, requests[i].query) /\ Follows(i, m)
<1> DEFINE r == requests[i]
           m == Request(r.handler, r.key, kind, r.press, step, r.query)
<1>1. r \in Requests
  BY DEF PageTypes
<1>2. r.handler \in Names /\ r.key \in Keys /\ r.press \in Nat /\ r.query \in Nat
  BY <1>1 DEF Requests
<1>3. New(m, r.handler, kind, r.press, step, r.query)
  <2> HIDE DEF r
  <2> QED BY <1>2, NewIs
<1>4. m \in Requests /\ requests' = Append(Without(i), m)
  BY <1>3 DEF New
<1>5. Follows(i, m) /\ requests[i] \in Under /\ requests[i] \in Requests /\ RequestOK(requests[i])
  <2> HIDE DEF m
  <2> QED BY <1>4, FollowsIs
<1> QED BY <1>3, <1>5

\* The server serves a request.
LEMMA ServeView ==
  ASSUME PageTypes, NEW i \in DOMAIN requests, NEW outcome, serve(i, outcome)
  PROVE  /\ requests[i] \in Under /\ requests[i] \in Requests /\ RequestOK(requests[i])
         /\ \E m : /\ Answers(i, m) /\ m \in Requests
                   /\ m.handler = requests[i].handler /\ m.kind = requests[i].kind /\ m.press = requests[i].press
                   /\ m.step = requests[i].step /\ m.query = requests[i].query /\ m.run = requests[i].run
                   /\ m.at = IF outcome = "ok" THEN "ok" ELSE "error"
                   /\ m.seen = IF requests[i].kind = "load" THEN applied ELSE {}
<1> DEFINE r == requests[i]
           m == [r EXCEPT !.at = IF outcome = "ok" THEN "ok" ELSE "error",
                          !.seen = IF r.kind = "load" THEN applied ELSE {}]
<1>1. requests \in Seq(Requests) /\ r \in Requests /\ applied \in SUBSET Changes /\ r \in Under /\ RequestOK(r)
  BY DEF PageTypes, Under, Range
<1>2. /\ m \in Requests /\ m.handler = r.handler /\ m.kind = r.kind /\ m.press = r.press
      /\ m.step = r.step /\ m.query = r.query /\ m.run = r.run
      /\ m.at = IF outcome = "ok" THEN "ok" ELSE "error"
      /\ m.seen = IF r.kind = "load" THEN applied ELSE {}
  <2> HIDE DEF r
  <2> QED BY <1>1 DEF Requests
<1>3. requests' = [requests EXCEPT ![i] = m]
  BY <1>1 DEF serve
<1>4. Answers(i, m)
  <2> HIDE DEF m, r
  <2> QED BY <1>1, <1>2, <1>3, ReplaceIs DEF Answers, Under, r
<1> QED BY <1>1, <1>2, <1>4

\* Nothing changes the page that is open.
LEMMA PageStays ==
  ASSUME [PagesNext]_pageVars
  PROVE  page' = page /\ P' = P
<1>1. page' = page
  BY DEF PagesNext, pageVars, press, serve, nextRequest, finishHere, reloadInside, tickAfter, toastError,
         leavePage, loadAnswered, load, chooseFilter, pollTick
<1> QED BY <1>1 DEF P

(* --------------------------------- types -------------------------------- *)

\* The types hold when what changed is typed.
LEMMA TypesKept ==
  ASSUME PageTypes, page' = page, up' \in [FlagsOf(P) -> Keys], requests' \in Seq(Requests),
         applied' \in SUBSET Changes, query' \in Nat, effectRun' \in Nat, presses' \in Nat,
         query <= query', effectRun <= effectRun',
         \A r \in Under' : r \in Under \/ RequestOK(r)
  PROVE  PageTypes'
<1>1. P' = P
  BY DEF P
<1>2. ASSUME NEW r \in Under' PROVE RequestOK(r)'
  <2>1. RequestOK(r)
    BY DEF PageTypes
  <2>2. r \in Requests
    BY DEF Under, Range
  <2>3. r.query \in Nat /\ r.run \in Nat
    BY <2>2 DEF Requests
  <2> QED BY <1>1, <2>1, <2>3 DEF RequestOK, PageTypes
<1> QED BY <1>1, <1>2 DEF PageTypes

\* Flags stay flags.
LEMMA UpTyped ==
  ASSUME PageTypes, NEW flags \in [FlagsOf(P) -> Keys]
  PROVE  /\ \A key \in Keys : Raise(flags, P.load.flag, key) \in [FlagsOf(P) -> Keys]
         /\ \A h \in DOMAIN P.handlers : \A key \in Keys : Raise(flags, P.handlers[h].flag, key) \in [FlagsOf(P) -> Keys]
<1>1. P.load.flag # NoId => P.load.flag \in FlagsOf(P)
  BY LoaderIs
<1>2. \A h \in DOMAIN P.handlers : P.handlers[h].flag # NoId => P.handlers[h].flag \in FlagsOf(P)
  BY HandlerIs
<1> QED BY <1>1, <1>2, RaiseIs

\* A request under way belongs to a handler of the page or to the effect.
LEMMA UnderIs ==
  ASSUME PageTypes, NEW i \in DOMAIN requests
  PROVE  /\ requests[i] \in Under /\ requests[i] \in Requests /\ RequestOK(requests[i])
         /\ requests[i].handler # "effect" => requests[i].handler \in DOMAIN P.handlers
         /\ requests[i].kind = "write" => requests[i].handler \in DOMAIN P.handlers
<1>1. requests[i] \in Under /\ requests[i] \in Requests
  BY DEF PageTypes, Under, Range
<1>2. RequestOK(requests[i])
  BY <1>1 DEF PageTypes
<1> QED BY <1>1, <1>2 DEF RequestOK

\* Every step of a page keeps the types.
LEMMA TypesNext == ASSUME PageTypes, [PagesNext]_pageVars PROVE PageTypes'
<1>0. page' = page /\ query \in Nat /\ effectRun \in Nat /\ presses \in Nat
  BY PageStays DEF PageTypes
<1>a. /\ applied \in SUBSET Changes /\ requests \in Seq(Requests) /\ up \in [FlagsOf(P) -> Keys]
      /\ NoId \in Keys /\ "load" \in Keys
  BY KeysIs DEF PageTypes
<1>1. ASSUME NEW h \in DOMAIN P.handlers, NEW key \in KeysOf(h), press(h, key) PROVE PageTypes'
  <2>1. PICK m : /\ New(m, h, IF P.handlers[h].then = "read" THEN "load" ELSE "write", presses + 1, 1, query)
                 /\ Adds(m)
    BY <1>1, PressView
  <2>2. key \in Keys
    BY <1>1, PressView
  <2>3. up' \in [FlagsOf(P) -> Keys]
    BY <1>a, <1>1, <2>2, UpTyped DEF press
  <2>4. RequestOK(m)
    BY <1>0, <2>1, HandlerIs DEF New, RequestOK
  <2>5. presses' = presses + 1 /\ UNCHANGED <<applied, query, effectRun>>
    BY <1>1 DEF press
  <2> QED BY <1>0, <2>1, <2>3, <2>4, <2>5, <1>a, TypesKept DEF Adds
<1>2. ASSUME NEW i \in DOMAIN requests, NEW outcome, serve(i, outcome) PROVE PageTypes'
  <2>1. PICK m : /\ Answers(i, m) /\ m \in Requests
                 /\ m.handler = requests[i].handler /\ m.kind = requests[i].kind
                 /\ m.step = requests[i].step /\ m.query = requests[i].query /\ m.run = requests[i].run
    BY <1>2, ServeView
  <2>2. requests[i] \in Requests /\ RequestOK(requests[i])
    BY UnderIs
  <2>3. RequestOK(m)
    BY <2>1, <2>2 DEF RequestOK
  <2>4. <<requests[i].press, requests[i].step>> \in Changes
    BY <2>2 DEF Requests, Changes
  <2>5. UNCHANGED <<up, query, effectRun, presses>> /\ applied' \in SUBSET Changes
    BY <1>a, <1>2, <2>4 DEF serve
  <2> QED BY <1>0, <2>1, <2>3, <2>5, <1>a, TypesKept DEF Answers
<1>3. ASSUME NEW i \in DOMAIN requests, requests' = Without(i), up' \in [FlagsOf(P) -> Keys],
             UNCHANGED <<applied, query, presses>>, effectRun' \in Nat, effectRun <= effectRun'
      PROVE  PageTypes'
  <2>1. Ends(i)
    BY <1>3, EndsIs
  <2> QED BY <1>0, <1>3, <2>1, <1>a, TypesKept DEF Ends
<1>4. ASSUME NEW i \in DOMAIN requests, requests[i].kind = "write" PROVE Lowered(requests[i]) \in [FlagsOf(P) -> Keys]
  BY <1>a, <1>4, UnderIs, UpTyped DEF Lowered
<1>5. ASSUME NEW i \in DOMAIN requests, nextRequest(i) PROVE PageTypes'
  <2>1. requests[i] \in Requests /\ RequestOK(requests[i])
    BY UnderIs
  <2>2. requests[i].step + 1 \in Nat /\ requests[i].step + 1 # 0
    BY <2>1 DEF Requests
  <2>3. requests[i].kind = "write"
    BY <1>5 DEF nextRequest, Answered
  <2>4. PICK m : New(m, requests[i].handler, "write", requests[i].press, requests[i].step + 1, requests[i].query) /\ Follows(i, m)
    BY <1>5, <2>2, FollowView DEF nextRequest
  <2>5. RequestOK(m)
    BY <1>0, <2>1, <2>2, <2>3, <2>4 DEF New, RequestOK
  <2>6. UNCHANGED <<up, applied, query, effectRun, presses>>
    BY <1>5 DEF nextRequest
  <2> QED BY <1>0, <2>4, <2>5, <2>6, <1>a, TypesKept DEF Follows
<1>6. ASSUME NEW i \in DOMAIN requests, reloadInside(i) PROVE PageTypes'
  <2>1. requests[i] \in Requests /\ RequestOK(requests[i])
    BY UnderIs
  <2>2. requests[i].step \in Nat
    BY <2>1 DEF Requests
  <2>3. PICK m : New(m, requests[i].handler, "load", requests[i].press, requests[i].step, requests[i].query) /\ Follows(i, m)
    BY <1>6, <2>2, FollowView DEF reloadInside
  <2>4. RequestOK(m)
    BY <1>0, <2>1, <2>3 DEF New, RequestOK
  <2>5. UNCHANGED <<applied, query, effectRun, presses>> /\ up' \in [FlagsOf(P) -> Keys]
    BY <1>0, <1>6, <1>a, UpTyped DEF reloadInside
  <2> QED BY <1>0, <2>3, <2>4, <2>5, <1>a, TypesKept DEF Follows
<1>7. ASSUME EffectAgain PROVE effectRun' \in Nat /\ effectRun <= effectRun'
  BY <1>0, <1>7 DEF EffectAgain
<1>8. ASSUME NEW i \in DOMAIN requests, finishHere(i) \/ tickAfter(i) \/ toastError(i) \/ leavePage(i) PROVE PageTypes'
  <2>1. CASE finishHere(i) \/ toastError(i)
    BY <1>a, <1>0, <1>3, <1>4, <2>1 DEF finishHere, toastError, Answered
  <2>2. CASE tickAfter(i)
    BY <1>0, <1>3, <1>4, <1>7, <2>2 DEF tickAfter
  <2>3. CASE leavePage(i)
    BY <1>a, <1>0, <1>3, <2>3 DEF leavePage
  <2> QED BY <1>8, <2>1, <2>2, <2>3
<1>9. ASSUME NEW i \in DOMAIN requests, loadAnswered(i) PROVE PageTypes'
  <2>1. requests[i].handler # "effect" => requests[i].handler \in DOMAIN P.handlers
    BY UnderIs
  <2>2. Raise(up, P.load.flag, NoId) \in [FlagsOf(P) -> Keys]
    BY <1>a, UpTyped
  <2>3. \A flags \in [FlagsOf(P) -> Keys] :
          requests[i].handler # "effect" => Raise(flags, P.handlers[requests[i].handler].flag, NoId) \in [FlagsOf(P) -> Keys]
    BY <1>a, <2>1, UpTyped
  <2>4. up' \in [FlagsOf(P) -> Keys]
    BY <1>a, <1>9, <2>2, <2>3 DEF loadAnswered
  <2> QED BY <1>0, <1>3, <1>9, <2>4 DEF loadAnswered
<1>10. ASSUME load PROVE PageTypes'
  <2>1. PICK m : New(m, "effect", "load", 0, 0, query) /\ Adds(m)
    BY <1>10, LoadView
  <2>2. RequestOK(m)
    BY <1>0, <2>1 DEF New, RequestOK
  <2>3. UNCHANGED <<applied, query, effectRun, presses>> /\ up' \in [FlagsOf(P) -> Keys]
    BY <1>0, <1>10, <1>a, UpTyped DEF load
  <2> QED BY <1>0, <2>1, <2>2, <2>3, <1>a, TypesKept DEF Adds
<1>11. ASSUME chooseFilter \/ pollTick \/ UNCHANGED pageVars PROVE PageTypes'
  <2>1. /\ UNCHANGED <<up, requests, applied>> /\ query' \in Nat /\ query <= query'
        /\ presses' \in Nat /\ effectRun' \in Nat /\ effectRun <= effectRun'
    BY <1>0, <1>7, <1>11 DEF chooseFilter, pollTick, pageVars
  <2>2. Under' = Under
    BY <2>1 DEF Under
  <2> QED BY <1>0, <2>1, <2>2, <1>a, TypesKept
<1> QED BY <1>1, <1>2, <1>5, <1>6, <1>8, <1>9, <1>10, <1>11 DEF PagesNext

(* --------------------------------- flags -------------------------------- *)

\* What raising and lowering does to a flag of the page.
LEMMA FlagAfter ==
  ASSUME PageTypes, NEW flags \in [FlagsOf(P) -> Keys], NEW f \in FlagsOf(P), NEW key \in Keys
  PROVE  /\ Raise(flags, P.load.flag, key)[f] = IF f = P.load.flag THEN key ELSE flags[f]
         /\ \A h \in DOMAIN P.handlers :
              Raise(flags, P.handlers[h].flag, key)[f] = IF f = P.handlers[h].flag THEN key ELSE flags[f]
<1>1. f # NoId
  BY DEF FlagsOf
<1>2. Raise(flags, P.load.flag, key)[f] = IF f = P.load.flag THEN key ELSE flags[f]
  <2>1. P.load.flag # NoId => P.load.flag \in FlagsOf(P)
    BY LoaderIs
  <2> QED BY <1>1, <2>1 DEF Raise
<1>3. ASSUME NEW h \in DOMAIN P.handlers
      PROVE  Raise(flags, P.handlers[h].flag, key)[f] = IF f = P.handlers[h].flag THEN key ELSE flags[f]
  <2>1. P.handlers[h].flag # NoId => P.handlers[h].flag \in FlagsOf(P)
    BY HandlerIs
  <2> QED BY <1>1, <2>1 DEF Raise
<1> QED BY <1>2, <1>3

\* The flags after a press: the handler's own is raised, and the load's by a handler that reads.
LEMMA PressUp ==
  ASSUME PageTypes, NEW h \in DOMAIN P.handlers, NEW key \in KeysOf(h), press(h, key), NEW f \in FlagsOf(P)
  PROVE  up'[f] = IF f = P.handlers[h].flag THEN key
                  ELSE IF P.handlers[h].then = "read" /\ f = P.load.flag THEN "load" ELSE up[f]
<1> DEFINE flags == IF P.handlers[h].then = "read" THEN Raise(up, P.load.flag, "load") ELSE up
<1>1. key \in Keys /\ "load" \in Keys /\ up \in [FlagsOf(P) -> Keys]
  BY PressView, KeysIs DEF PageTypes
<1>2. flags \in [FlagsOf(P) -> Keys]
  BY <1>1, UpTyped
<1>3. flags[f] = IF P.handlers[h].then = "read" /\ f = P.load.flag THEN "load" ELSE up[f]
  BY <1>1, FlagAfter
<1>4. up' = Raise(flags, P.handlers[h].flag, key)
  BY DEF press
<1>5. up'[f] = IF f = P.handlers[h].flag THEN key ELSE flags[f]
  <2> HIDE DEF flags
  <2> QED BY <1>1, <1>2, <1>4, FlagAfter
<1> QED BY <1>3, <1>5

\* The flags after a handler ended: the one its request held is down.
LEMMA LoweredIs ==
  ASSUME PageTypes, NEW i \in DOMAIN requests, requests[i].kind = "write", NEW f \in FlagsOf(P)
  PROVE  Lowered(requests[i])[f] = IF Holds(requests[i], f) THEN NoId ELSE up[f]
<1>1. requests[i].handler \in DOMAIN P.handlers /\ NoId \in Keys /\ up \in [FlagsOf(P) -> Keys]
  BY UnderIs, KeysIs DEF PageTypes
<1>2. requests[i].handler # "effect"
  BY <1>1, HandlerIs
<1> QED BY <1>1, <1>2, FlagAfter DEF Lowered, Holds

\* The flags after a load was answered: the holder's and, for a live load, the load's are down.
LEMMA AnsweredUp ==
  ASSUME PageTypes, NEW i \in DOMAIN requests, loadAnswered(i), NEW f \in FlagsOf(P)
  PROVE  up'[f] = IF Holds(requests[i], f) \/ (f = P.load.flag /\ Live(requests[i])) THEN NoId ELSE up[f]
<1> DEFINE r == requests[i]
           flags == IF P.load.guarded /\ r.run # effectRun THEN up ELSE Raise(up, P.load.flag, NoId)
<1>1. NoId \in Keys /\ up \in [FlagsOf(P) -> Keys] /\ (r.handler # "effect" => r.handler \in DOMAIN P.handlers)
  BY UnderIs, KeysIs DEF PageTypes
<1>2. flags \in [FlagsOf(P) -> Keys]
  BY <1>1, UpTyped
<1>3. r.kind = "load"
  BY DEF loadAnswered
<1>4. flags[f] = IF f = P.load.flag /\ Live(r) THEN NoId ELSE up[f]
  BY <1>1, <1>3, FlagAfter DEF Live
<1>5. up' = IF r.handler = "effect" THEN flags ELSE Raise(flags, P.handlers[r.handler].flag, NoId)
  BY DEF loadAnswered
<1>6. up'[f] = IF Holds(r, f) THEN NoId ELSE flags[f]
  <2>1. CASE r.handler = "effect"
    BY <1>5, <2>1 DEF Holds
  <2>2. CASE r.handler # "effect"
    <3> HIDE DEF flags
    <3> QED BY <1>1, <1>2, <1>5, <2>2, FlagAfter DEF Holds
  <2> QED BY <2>1, <2>2
<1> QED BY <1>4, <1>6

\* A flag that is up is held by a new request, by a load to come, or by who held it before.
HeldAfter(f) ==
  \/ \E r \in Under' : Holds(r, f)
  \/ f = P.load.flag /\ (due' \/ LiveLoad')
  \/ /\ up[f] # NoId
     /\ \A r \in Under : Holds(r, f) => r \in Under'
     /\ f = P.load.flag => (due \/ LiveLoad => due' \/ LiveLoad')

\* Flags stay held by something that lowers them when every flag up after the step is.
LEMMA FlagsKept ==
  ASSUME PageTypes, PageTypes', FlagsHeld, ~left, P' = P, \A f \in FlagsOf(P) : up'[f] # NoId => HeldAfter(f)
  PROVE  FlagsHeld'
<1>1. DOMAIN up = FlagsOf(P) /\ DOMAIN up' = FlagsOf(P)
  BY DEF PageTypes
<1>2. ASSUME NEW f \in FlagsOf(P), up'[f] # NoId
      PROVE  (\E r \in Under' : Holds(r, f)) \/ (f = P.load.flag /\ (due' \/ LiveLoad'))
  <2>1. HeldAfter(f)
    BY <1>2
  <2>2. up[f] # NoId => (\E r \in Under : Holds(r, f)) \/ (f = P.load.flag /\ (due \/ LiveLoad))
    BY <1>1 DEF FlagsHeld
  <2> QED BY <2>1, <2>2 DEF HeldAfter
<1> QED BY <1>1, <1>2 DEF FlagsHeld, Holds

\* A load that will be shown stays one while its effect is not run again.
LEMMA LiveStays ==
  ASSUME P' = P, effectRun' = effectRun
  PROVE  \A r : Live(r)' <=> Live(r)
BY DEF Live

\* The requests of a page but one go on, in the same run of the effect.
LEMMA LiveKept ==
  ASSUME P' = P, effectRun' = effectRun, NEW x, Under \ {x} \subseteq Under', ~Live(x)
  PROVE  LiveLoad => LiveLoad'
BY LiveStays DEF LiveLoad

\* Every step of a page keeps its flags in hand.
LEMMA FlagsNext ==
  ASSUME PageTypes, FlagsHeld, [PagesNext]_pageVars
  PROVE  FlagsHeld'
<1>0. P' = P /\ PageTypes' /\ DOMAIN up = FlagsOf(P)
  BY PageStays, TypesNext DEF PageTypes
<1>1. ASSUME NEW h \in DOMAIN P.handlers, NEW key \in KeysOf(h), press(h, key) PROVE FlagsHeld'
  <2>1. PICK m : /\ New(m, h, IF P.handlers[h].then = "read" THEN "load" ELSE "write", presses + 1, 1, query)
                 /\ Adds(m)
    BY <1>1, PressView
  <2>2. ~left /\ due' = due /\ effectRun' = effectRun
    BY <1>1 DEF press
  <2>3. m \in Under' /\ Under \subseteq Under' /\ h # "effect"
    BY <2>1, HandlerIs DEF Adds
  <2>4. LiveLoad => LiveLoad'
    BY <1>0, <2>2, <2>3, LiveStays DEF LiveLoad
  <2>5. P.handlers[h].then = "read" => LiveLoad'
    <3>1. P.handlers[h].then = "read" => Live(m)
      BY <2>1 DEF New, Live
    <3> QED BY <1>0, <2>2, <2>3, <3>1, LiveStays DEF LiveLoad
  <2>6. ASSUME NEW f \in FlagsOf(P), up'[f] # NoId PROVE HeldAfter(f)
    <3>1. CASE f = P.handlers[h].flag
      BY <2>1, <2>3, <3>1 DEF New, Holds, HeldAfter
    <3>2. CASE f # P.handlers[h].flag /\ P.handlers[h].then = "read" /\ f = P.load.flag
      BY <2>5, <3>2 DEF HeldAfter
    <3>3. CASE f # P.handlers[h].flag /\ ~(P.handlers[h].then = "read" /\ f = P.load.flag)
      <4>1. up'[f] = up[f]
        BY <1>1, <3>3, PressUp
      <4> QED BY <2>2, <2>3, <2>4, <2>6, <4>1 DEF HeldAfter
    <3> QED BY <3>1, <3>2, <3>3
  <2> QED BY <1>0, <2>2, <2>6, FlagsKept
<1>2. ASSUME NEW i \in DOMAIN requests, NEW outcome, serve(i, outcome) PROVE FlagsHeld'
  <2>1. PICK m : /\ Answers(i, m)
                 /\ m.handler = requests[i].handler /\ m.kind = requests[i].kind /\ m.run = requests[i].run
    BY <1>2, ServeView
  <2>2. ~left /\ due' = due /\ effectRun' = effectRun /\ up' = up
    BY <1>2 DEF serve
  <2>3. m \in Under' /\ \A r \in Under : r = requests[i] \/ r \in Under'
    BY <2>1 DEF Answers
  <2>4. \A f : Holds(requests[i], f) => Holds(m, f)
    BY <2>1 DEF Holds
  <2>5. Live(requests[i]) => Live(m)
    BY <2>1 DEF Live
  <2>6. LiveLoad => LiveLoad'
    BY <1>0, <2>2, <2>3, <2>5, LiveStays DEF LiveLoad
  <2>7. ASSUME NEW f \in FlagsOf(P), up'[f] # NoId PROVE HeldAfter(f)
    BY <2>2, <2>3, <2>4, <2>6, <2>7 DEF HeldAfter
  <2> QED BY <1>0, <2>2, <2>7, FlagsKept
<1>3. ASSUME NEW i \in DOMAIN requests, nextRequest(i) \/ reloadInside(i) PROVE FlagsHeld'
  <2>0. requests[i].kind = "write" /\ requests[i].step + 1 \in Nat /\ requests[i].step \in Nat
    BY <1>3, UnderIs DEF nextRequest, reloadInside, Answered, Requests
  <2>1. PICK m : /\ Follows(i, m) /\ m.handler = requests[i].handler /\ m.run = effectRun
                 /\ m.kind = IF reloadInside(i) THEN "load" ELSE "write"
    <3>1. CASE reloadInside(i)
      BY <2>0, <3>1, FollowView DEF reloadInside, New
    <3>2. CASE ~reloadInside(i)
      <4>1. PICK m : New(m, requests[i].handler, "write", requests[i].press, requests[i].step + 1, requests[i].query) /\ Follows(i, m)
        BY <1>3, <2>0, <3>2, FollowView DEF nextRequest
      <4> QED BY <3>2, <4>1 DEF New
    <3> QED BY <3>1, <3>2
  <2>2. /\ ~left /\ due' = due /\ effectRun' = effectRun
        /\ up' = IF reloadInside(i) THEN Raise(up, P.load.flag, "load") ELSE up
    BY <1>3 DEF nextRequest, reloadInside, Answered
  <2>3. m \in Under' /\ \A r \in Under : r = requests[i] \/ r \in Under'
    BY <2>1 DEF Follows
  <2>4. LiveLoad => LiveLoad'
    BY <1>0, <2>0, <2>2, <2>3, LiveStays DEF LiveLoad, Live
  <2>5. reloadInside(i) => LiveLoad'
    BY <1>0, <2>1, <2>2, <2>3, LiveStays DEF LiveLoad, Live
  <2>6. ASSUME NEW f \in FlagsOf(P), up'[f] # NoId PROVE HeldAfter(f)
    <3>1. CASE Holds(requests[i], f)
      BY <2>1, <2>3, <3>1 DEF HeldAfter, Holds
    <3>2. CASE reloadInside(i) /\ f = P.load.flag
      BY <2>5, <3>2 DEF HeldAfter
    <3>3. CASE ~Holds(requests[i], f) /\ ~(reloadInside(i) /\ f = P.load.flag)
      <4>1. up'[f] = up[f]
        <5>1. up \in [FlagsOf(P) -> Keys] /\ "load" \in Keys
          BY KeysIs DEF PageTypes
        <5> QED BY <2>2, <3>3, <5>1, FlagAfter
      <4> QED BY <2>2, <2>3, <2>4, <2>6, <3>3, <4>1 DEF HeldAfter
    <3> QED BY <3>1, <3>2, <3>3
  <2> QED BY <1>0, <2>2, <2>6, FlagsKept
<1>4. ASSUME NEW i \in DOMAIN requests, finishHere(i) \/ toastError(i) \/ tickAfter(i) PROVE FlagsHeld'
  <2>1. requests[i].kind = "write" /\ ~left /\ requests' = Without(i) /\ up' = Lowered(requests[i])
    BY <1>4 DEF finishHere, toastError, tickAfter, Answered
  <2>2. (due' = due /\ effectRun' = effectRun) \/ due'
    BY <1>4 DEF finishHere, toastError, tickAfter, EffectAgain
  <2>3. Ends(i) /\ ~Live(requests[i])
    BY <2>1, EndsIs DEF Live
  <2>4. due \/ LiveLoad => due' \/ LiveLoad'
    BY <1>0, <2>2, <2>3, LiveKept DEF Ends
  <2>5. ASSUME NEW f \in FlagsOf(P), up'[f] # NoId PROVE HeldAfter(f)
    <3>1. ~Holds(requests[i], f) /\ up[f] # NoId
      BY <2>1, <2>5, LoweredIs
    <3> QED BY <2>3, <2>4, <3>1 DEF HeldAfter, Ends
  <2> QED BY <1>0, <2>1, <2>5, FlagsKept
<1>5. ASSUME NEW i \in DOMAIN requests, leavePage(i) PROVE FlagsHeld'
  BY <1>5 DEF leavePage, FlagsHeld
<1>6. ASSUME NEW i \in DOMAIN requests, loadAnswered(i) PROVE FlagsHeld'
  <2>1. ~left /\ due' = due /\ effectRun' = effectRun /\ requests' = Without(i)
    BY <1>6 DEF loadAnswered
  <2>2. Ends(i)
    BY <2>1, EndsIs
  <2>3. ~Live(requests[i]) => (LiveLoad => LiveLoad')
    BY <1>0, <2>1, <2>2, LiveKept DEF Ends
  <2>4. ASSUME NEW f \in FlagsOf(P), up'[f] # NoId PROVE HeldAfter(f)
    <3>1. ~Holds(requests[i], f) /\ ~(f = P.load.flag /\ Live(requests[i])) /\ up[f] # NoId
      BY <1>6, <2>4, AnsweredUp
    <3> QED BY <2>1, <2>2, <2>3, <3>1 DEF HeldAfter, Ends
  <2> QED BY <1>0, <2>1, <2>4, FlagsKept
<1>7. ASSUME load PROVE FlagsHeld'
  <2>1. PICK m : New(m, "effect", "load", 0, 0, query) /\ Adds(m)
    BY <1>7, LoadView
  <2>2. ~left /\ effectRun' = effectRun /\ up' = Raise(up, P.load.flag, "load")
    BY <1>7 DEF load
  <2>3. Under \subseteq Under' /\ LiveLoad'
    BY <1>0, <2>1, <2>2, LiveStays DEF New, Adds, Live, LiveLoad
  <2>4. ASSUME NEW f \in FlagsOf(P), up'[f] # NoId PROVE HeldAfter(f)
    <3>1. f = P.load.flag \/ up'[f] = up[f]
      <4>1. up \in [FlagsOf(P) -> Keys] /\ "load" \in Keys
        BY KeysIs DEF PageTypes
      <4> QED BY <2>2, <4>1, FlagAfter
    <3> QED BY <2>3, <2>4, <3>1 DEF HeldAfter
  <2> QED BY <1>0, <2>2, <2>4, FlagsKept
<1>8. ASSUME chooseFilter \/ pollTick PROVE FlagsHeld'
  <2>1. ~left /\ due' /\ up' = up /\ Under' = Under
    BY <1>8 DEF chooseFilter, pollTick, EffectAgain, Under
  <2> QED BY <1>0, <2>1, FlagsKept DEF HeldAfter
<1>9. ASSUME UNCHANGED pageVars PROVE FlagsHeld'
  <2>1. UNCHANGED <<page, up, requests, due, effectRun, left>>
    BY <1>9 DEF pageVars
  <2> QED BY <1>0, <2>1 DEF FlagsHeld, Holds, LiveLoad, Live, Under
<1> QED BY <1>1, <1>2, <1>3, <1>4, <1>5, <1>6, <1>7, <1>8, <1>9 DEF PagesNext

(* --------------------------- one request a flag -------------------------- *)

\* Every request that holds the flag f came from one that held it, and no two from the same.
LEMMA ApartKept ==
  ASSUME NEW f, OneHolds(f), P' = P, NEW g,
         \A j \in DOMAIN requests' : Holds(requests'[j], f) =>
           g[j] \in DOMAIN requests /\ Holds(requests[g[j]], f) /\ up'[f] = up[f],
         \A j, k \in DOMAIN requests' : g[j] = g[k] => j = k
  PROVE  OneHolds(f)'
<1> SUFFICES ASSUME NEW j \in DOMAIN requests', NEW k \in DOMAIN requests',
                    Holds(requests'[j], f), Holds(requests'[k], f)
             PROVE  j = k /\ up'[f] # NoId
  BY DEF OneHolds, Holds
<1>1. /\ g[j] \in DOMAIN requests /\ Holds(requests[g[j]], f)
      /\ g[k] \in DOMAIN requests /\ Holds(requests[g[k]], f) /\ up'[f] = up[f]
  OBVIOUS
<1>2. g[j] = g[k] /\ up[f] # NoId
  BY <1>1 DEF OneHolds
<1> QED BY <1>1, <1>2

\* Where the requests come from when the i-th goes on with another one.
Origin(i) == [j \in DOMAIN requests |-> IF j = Len(requests) THEN i ELSE Before(i, j)]

\* The requests behind the i-th move up, the new one is last.
LEMMA FollowsPlaces ==
  ASSUME PageTypes, NEW i \in DOMAIN requests, NEW m, Follows(i, m), m \in Requests
  PROVE  /\ DOMAIN requests' = DOMAIN requests /\ DOMAIN requests = 1..Len(requests) /\ Len(requests) \in Nat
         /\ requests'[Len(requests)] = m
         /\ \A j \in DOMAIN requests : j # Len(requests) =>
              Before(i, j) \in DOMAIN requests \ {i} /\ requests'[j] = requests[Before(i, j)]
<1>1. requests \in Seq(Requests) /\ requests' = Append(Without(i), m)
  BY DEF PageTypes, Follows
<1>2. /\ Without(i) \in Seq(Requests) /\ DOMAIN requests = 1..Len(requests) /\ Len(requests) \in Nat
      /\ DOMAIN Without(i) = 1..(Len(requests) - 1) /\ Len(Without(i)) = Len(requests) - 1 /\ i \in 1..Len(requests)
      /\ \A j \in DOMAIN Without(i) : Before(i, j) \in DOMAIN requests \ {i} /\ Without(i)[j] = requests[Before(i, j)]
  BY <1>1, RemoveIs DEF Without
<1>3. /\ DOMAIN Append(Without(i), m) = 1..(Len(Without(i)) + 1) /\ Append(Without(i), m)[Len(Without(i)) + 1] = m
      /\ \A j \in DOMAIN Without(i) : Append(Without(i), m)[j] = Without(i)[j]
  <2>1. Without(i) \in Seq(Requests)
    BY <1>2
  <2> QED BY <2>1, AppendIs
<1>4. Len(requests) \in Nat /\ Len(Without(i)) = Len(requests) - 1
  BY <1>2
<1>5. Len(Without(i)) + 1 = Len(requests) /\ \A j \in 1..Len(requests) : j # Len(requests) => j \in 1..(Len(requests) - 1)
  BY <1>4
<1> QED BY <1>1, <1>2, <1>3, <1>5

\* The requests behind the i-th move up.
LEMMA EndsPlaces ==
  ASSUME PageTypes, NEW i \in DOMAIN requests, requests' = Without(i)
  PROVE  /\ DOMAIN requests = 1..Len(requests) /\ Len(requests) \in Nat /\ DOMAIN requests' = 1..(Len(requests) - 1)
         /\ \A j \in DOMAIN requests' :
              Before(i, j) \in DOMAIN requests \ {i} /\ requests'[j] = requests[Before(i, j)]
<1>1. requests \in Seq(Requests)
  BY DEF PageTypes
<1> QED BY <1>1, RemoveIs DEF Without

\* Taking one out brings no two to one place.
LEMMA BeforeOnce ==
  ASSUME NEW i \in Nat, NEW j \in Nat, NEW k \in Nat
  PROVE  /\ Before(i, j) = Before(i, k) => j = k
         /\ j < k => Before(i, j) < Before(i, k)
         /\ i = 1 /\ j >= 1 => Before(i, j) = j + 1
BY DEF Before

\* Every step keeps apart the requests of a flag whose handlers it disables.
LEMMA ApartNext ==
  ASSUME PageTypes, HoldersApart, [PagesNext]_pageVars
  PROVE  HoldersApart'
<1>0. /\ P' = P /\ PageTypes' /\ DOMAIN up = FlagsOf(P) /\ DOMAIN up' = FlagsOf(P) /\ up \in [FlagsOf(P) -> Keys]
      /\ NoId \in Keys /\ "load" \in Keys /\ requests \in Seq(Requests)
  BY PageStays, TypesNext, KeysIs DEF PageTypes
<1> SUFFICES ASSUME NEW f \in FlagsOf(P), KeepsApart(f), OneHolds(f) PROVE OneHolds(f)'
  BY <1>0 DEF HoldersApart, KeepsApart
<1>a. f # P.load.flag
  BY DEF KeepsApart
<1>b. ASSUME NEW m, Adds(m), m \in Requests, ~Holds(m, f), up'[f] = up[f] PROVE OneHolds(f)'
  <2> DEFINE g == [j \in DOMAIN requests' |-> j]
  <2>1. /\ DOMAIN requests = 1..Len(requests) /\ DOMAIN requests' = 1..(Len(requests) + 1) /\ Len(requests) \in Nat
        /\ requests'[Len(requests) + 1] = m /\ \A j \in DOMAIN requests : requests'[j] = requests[j]
    BY <1>0, <1>b, AppendIs DEF Adds
  <2>2. \A j \in DOMAIN requests' : j = Len(requests) + 1 \/ j \in DOMAIN requests
    BY <2>1
  <2>3. \A j \in DOMAIN requests' : Holds(requests'[j], f) => g[j] \in DOMAIN requests /\ Holds(requests[g[j]], f)
    BY <1>b, <2>1, <2>2
  <2>4. \A j, k \in DOMAIN requests' : g[j] = g[k] => j = k
    OBVIOUS
  <2> HIDE DEF g
  <2> QED BY <1>0, <1>b, <2>3, <2>4, ApartKept
<1>c. ASSUME NEW i \in DOMAIN requests, requests' = Without(i), Holds(requests[i], f) \/ up'[f] = up[f]
      PROVE  OneHolds(f)'
  <2> DEFINE g == [j \in DOMAIN requests' |-> Before(i, j)]
  <2>1. /\ DOMAIN requests = 1..Len(requests) /\ Len(requests) \in Nat /\ DOMAIN requests' = 1..(Len(requests) - 1)
        /\ \A j \in DOMAIN requests' :
             Before(i, j) \in DOMAIN requests \ {i} /\ requests'[j] = requests[Before(i, j)]
    BY <1>c, EndsPlaces
  <2>2. \A j \in DOMAIN requests' : Holds(requests'[j], f) => g[j] \in DOMAIN requests \ {i} /\ Holds(requests[g[j]], f)
    BY <2>1
  <2>3. \A j, k \in DOMAIN requests' : g[j] = g[k] => j = k
    <3>1. i \in Nat /\ \A j \in DOMAIN requests' : j \in Nat
      BY <2>1
    <3> QED BY <3>1, BeforeOnce
  <2> HIDE DEF g
  <2>4. \A j \in DOMAIN requests' : Holds(requests'[j], f) => up'[f] = up[f]
    BY <1>c, <2>2 DEF OneHolds
  <2> QED BY <1>0, <2>2, <2>3, <2>4, ApartKept
<1>1. ASSUME NEW h \in DOMAIN P.handlers, NEW key \in KeysOf(h), press(h, key) PROVE OneHolds(f)'
  <2>1. PICK m : /\ New(m, h, IF P.handlers[h].then = "read" THEN "load" ELSE "write", presses + 1, 1, query)
                 /\ Adds(m)
    BY <1>1, PressView
  <2>2. m \in Requests /\ m.handler = h /\ h # "effect" /\ key # NoId
    BY <1>1, <2>1, HandlerIs, PressView DEF New
  <2>3. CASE P.handlers[h].flag # f
    <3>1. up'[f] = up[f]
      BY <1>1, <1>a, <2>3, PressUp
    <3> QED BY <1>b, <2>1, <2>2, <2>3, <3>1 DEF Holds
  <2>4. CASE P.handlers[h].flag = f
    <3>1. up[f] = NoId
      BY <1>1, <2>4 DEF KeepsApart, press, Enabled
    <3>2. \A j \in DOMAIN requests : ~Holds(requests[j], f)
      BY <3>1 DEF OneHolds
    <3>3. up'[f] = key
      BY <1>1, <2>4, PressUp
    <3>4. /\ DOMAIN requests = 1..Len(requests) /\ DOMAIN requests' = 1..(Len(requests) + 1) /\ Len(requests) \in Nat
          /\ \A j \in DOMAIN requests : requests'[j] = requests[j]
      BY <1>0, <2>1, <2>2, AppendIs DEF Adds
    <3>5. \A j \in DOMAIN requests' : j = Len(requests) + 1 \/ j \in DOMAIN requests
      BY <3>4
    <3> QED BY <1>0, <2>2, <3>2, <3>3, <3>4, <3>5 DEF OneHolds, Holds
  <2> QED BY <2>3, <2>4
<1>2. ASSUME NEW i \in DOMAIN requests, NEW outcome, serve(i, outcome) PROVE OneHolds(f)'
  <2>1. PICK m : Answers(i, m) /\ m \in Requests /\ m.handler = requests[i].handler
    BY <1>2, ServeView
  <2>2. /\ DOMAIN requests' = DOMAIN requests
        /\ \A j \in DOMAIN requests : requests'[j] = IF j = i THEN m ELSE requests[j]
    BY <1>0, <2>1, ReplaceIs DEF Answers
  <2>3. \A j \in DOMAIN requests' : requests'[j].handler = requests[j].handler
    BY <2>1, <2>2
  <2>4. up' = up
    BY <1>2 DEF serve
  <2> QED BY <1>0, <2>2, <2>3, <2>4 DEF OneHolds, Holds
<1>3. ASSUME NEW i \in DOMAIN requests, NEW m, Follows(i, m), m \in Requests, m.handler = requests[i].handler, up'[f] = up[f]
      PROVE  OneHolds(f)'
  <2>1. /\ DOMAIN requests' = DOMAIN requests /\ DOMAIN requests = 1..Len(requests) /\ Len(requests) \in Nat
        /\ requests'[Len(requests)] = m
        /\ \A j \in DOMAIN requests : j # Len(requests) =>
             Before(i, j) \in DOMAIN requests \ {i} /\ requests'[j] = requests[Before(i, j)]
    BY <1>3, FollowsPlaces
  <2>2. \A j \in DOMAIN requests' : Origin(i)[j] = IF j = Len(requests) THEN i ELSE Before(i, j)
    BY <2>1 DEF Origin
  <2>3. \A j \in DOMAIN requests' : Holds(requests'[j], f) => Origin(i)[j] \in DOMAIN requests /\ Holds(requests[Origin(i)[j]], f)
    BY <1>3, <2>1, <2>2 DEF Holds
  <2>4. \A j, k \in DOMAIN requests' : Origin(i)[j] = Origin(i)[k] => j = k
    <3>1. i \in Nat /\ \A j \in DOMAIN requests' : j \in Nat
      BY <2>1
    <3>2. \A j \in DOMAIN requests' : Origin(i)[j] = i <=> j = Len(requests)
      BY <2>1, <2>2
    <3>3. \A j \in DOMAIN requests' : j # Len(requests) => Origin(i)[j] = Before(i, j)
      BY <2>2
    <3>4. \A j, k \in DOMAIN requests' : Before(i, j) = Before(i, k) => j = k
      BY <3>1, BeforeOnce
    <3> QED BY <3>2, <3>3, <3>4
  <2> QED BY <1>0, <1>3, <2>3, <2>4, ApartKept
<1>4. ASSUME NEW i \in DOMAIN requests, nextRequest(i) \/ reloadInside(i) PROVE OneHolds(f)'
  <2>1. requests[i].step + 1 \in Nat /\ requests[i].step \in Nat
    BY UnderIs DEF Requests
  <2>2. PICK m : Follows(i, m) /\ m \in Requests /\ m.handler = requests[i].handler
    <3>1. CASE nextRequest(i)
      <4>1. PICK m : New(m, requests[i].handler, "write", requests[i].press, requests[i].step + 1, requests[i].query) /\ Follows(i, m)
        BY <2>1, <3>1, FollowView DEF nextRequest
      <4> QED BY <4>1 DEF New
    <3>2. CASE reloadInside(i)
      <4>1. PICK m : New(m, requests[i].handler, "load", requests[i].press, requests[i].step, requests[i].query) /\ Follows(i, m)
        BY <2>1, <3>2, FollowView DEF reloadInside
      <4> QED BY <4>1 DEF New
    <3> QED BY <1>4, <3>1, <3>2
  <2>3. up' = up \/ up' = Raise(up, P.load.flag, "load")
    BY <1>4 DEF nextRequest, reloadInside
  <2>4. up'[f] = up[f]
    BY <1>0, <1>a, <2>3, FlagAfter
  <2> QED BY <1>3, <2>2, <2>4
<1>5. ASSUME NEW i \in DOMAIN requests, finishHere(i) \/ toastError(i) \/ tickAfter(i) PROVE OneHolds(f)'
  <2>1. requests[i].kind = "write" /\ requests' = Without(i) /\ up' = Lowered(requests[i])
    BY <1>5 DEF finishHere, toastError, tickAfter, Answered
  <2> QED BY <1>c, <2>1, LoweredIs
<1>6. ASSUME NEW i \in DOMAIN requests, leavePage(i) PROVE OneHolds(f)'
  BY <1>c, <1>6 DEF leavePage
<1>7. ASSUME NEW i \in DOMAIN requests, loadAnswered(i) PROVE OneHolds(f)'
  <2>1. requests' = Without(i)
    BY <1>7 DEF loadAnswered
  <2> QED BY <1>a, <1>c, <1>7, <2>1, AnsweredUp
<1>8. ASSUME load PROVE OneHolds(f)'
  <2>1. PICK m : New(m, "effect", "load", 0, 0, query) /\ Adds(m)
    BY <1>8, LoadView
  <2>2. up'[f] = up[f]
    BY <1>0, <1>8, <1>a, FlagAfter DEF load
  <2> QED BY <1>b, <2>1, <2>2 DEF New, Holds
<1>9. ASSUME chooseFilter \/ pollTick \/ UNCHANGED pageVars PROVE OneHolds(f)'
  <2>1. up' = up /\ requests' = requests
    BY <1>9 DEF chooseFilter, pollTick, pageVars
  <2> QED BY <1>0, <2>1 DEF OneHolds, Holds
<1> QED BY <1>1, <1>2, <1>4, <1>5, <1>6, <1>7, <1>8, <1>9 DEF PagesNext

(* ------------------------ what the server applied ----------------------- *)

\* The next request of a handler, and its reload.
LEMMA NextView ==
  ASSUME PageTypes, NEW i \in DOMAIN requests, nextRequest(i)
  PROVE  \E m : New(m, requests[i].handler, "write", requests[i].press, requests[i].step + 1, requests[i].query) /\ Follows(i, m)
<1>1. requests[i].step + 1 \in Nat
  BY UnderIs DEF Requests
<1> QED BY <1>1, FollowView DEF nextRequest

\* A handler that reloads asks with the filter of its press.
LEMMA ReloadView ==
  ASSUME PageTypes, NEW i \in DOMAIN requests, reloadInside(i)
  PROVE  \E m : New(m, requests[i].handler, "load", requests[i].press, requests[i].step, requests[i].query) /\ Follows(i, m)
<1>1. requests[i].step \in Nat
  BY UnderIs DEF Requests
<1> QED BY <1>1, FollowView DEF reloadInside

\* A write that succeeded is applied, with the ones its handler sent before it.
LEMMA ChangesApplied ==
  ASSUME PageTypes, AllApplied, NEW r \in Under, r.kind = "write", r.at = "ok"
  PROVE  /\ ChangesOf(r) \subseteq applied
         /\ <<r.press, 1>> \in ChangesOf(r) /\ <<r.press, r.step>> \in ChangesOf(r)
<1>1. r \in Requests /\ RequestOK(r)
  BY DEF PageTypes, Under, Range
<1>2. r.step \in Nat /\ r.step # 0
  BY <1>1 DEF Requests, RequestOK
<1>3. 1 \in 1..r.step /\ r.step \in 1..r.step
  BY <1>2
<1>4. \A s \in 1..r.step : <<r.press, s>> \in applied
  BY DEF AllApplied, WasApplied
<1> QED BY <1>3, <1>4 DEF ChangesOf

\* Nothing that was applied is taken back.
LEMMA AppliedKept ==
  ASSUME AllApplied, applied \subseteq applied', acked' \subseteq applied',
         \A r \in Under' : r \in Under \/ WasApplied(r)'
  PROVE  AllApplied'
<1>1. \A r \in Under : WasApplied(r)'
  BY DEF AllApplied, WasApplied
<1> QED BY <1>1 DEF AllApplied

\* A request that is sent has seen nothing, and only its earlier ones are applied.
LEMMA NewApplied ==
  ASSUME NEW m, NEW h, NEW kind, NEW n, NEW q, New(m, h, kind, n, 1, q), applied' = applied
  PROVE  WasApplied(m)'
<1>1. m.at = "sent" /\ m.step = 1 /\ m.seen = {}
  BY DEF New
<1>2. \A s \in 1..m.step : s = m.step
  BY <1>1
<1> QED BY <1>1, <1>2 DEF WasApplied

\* Every step keeps what was answered and seen within what was applied.
LEMMA AppliedNext ==
  ASSUME PageTypes, AllApplied, [PagesNext]_pageVars
  PROVE  AllApplied'
<1>1. ASSUME NEW h \in DOMAIN P.handlers, NEW key \in KeysOf(h), press(h, key) PROVE AllApplied'
  <2>1. PICK m : /\ New(m, h, IF P.handlers[h].then = "read" THEN "load" ELSE "write", presses + 1, 1, query)
                 /\ Adds(m)
    BY <1>1, PressView
  <2>2. applied' = applied /\ acked' = acked
    BY <1>1 DEF press
  <2>3. WasApplied(m)'
    BY <2>1, <2>2, NewApplied
  <2> QED BY <2>1, <2>2, <2>3, AppliedKept DEF Adds, AllApplied
<1>2. ASSUME NEW i \in DOMAIN requests, NEW outcome \in {"ok", "refused", "lost"}, serve(i, outcome) PROVE AllApplied'
  <2>1. PICK m : /\ Answers(i, m) /\ m \in Requests
                 /\ m.handler = requests[i].handler /\ m.kind = requests[i].kind /\ m.press = requests[i].press
                 /\ m.step = requests[i].step
                 /\ m.at = IF outcome = "ok" THEN "ok" ELSE "error"
                 /\ m.seen = IF requests[i].kind = "load" THEN applied ELSE {}
    BY <1>2, ServeView
  <2>2. /\ acked' = acked /\ applied \subseteq applied'
        /\ requests[i].kind = "write" /\ outcome = "ok" => <<requests[i].press, requests[i].step>> \in applied'
    BY <1>2 DEF serve
  <2>3. requests[i] \in Under /\ requests[i].step \in Nat
    BY UnderIs DEF Requests
  <2>4. requests[i].kind = "write" => \A s \in 1..requests[i].step : s # requests[i].step => <<requests[i].press, s>> \in applied
    BY <2>3 DEF AllApplied, WasApplied
  <2>5. WasApplied(m)'
    BY <2>1, <2>2, <2>4 DEF WasApplied
  <2> QED BY <2>1, <2>2, <2>5, AppliedKept DEF Answers, AllApplied
<1>3. ASSUME NEW i \in DOMAIN requests, nextRequest(i) PROVE AllApplied'
  <2>1. PICK m : New(m, requests[i].handler, "write", requests[i].press, requests[i].step + 1, requests[i].query) /\ Follows(i, m)
    BY <1>3, NextView
  <2>2. requests[i].kind = "write" /\ requests[i].at = "ok" /\ applied' = applied
    BY <1>3 DEF nextRequest, Answered
  <2>3. requests[i] \in Under /\ requests[i].step \in Nat
    BY UnderIs DEF Requests
  <2>4. ChangesOf(requests[i]) \subseteq applied /\ <<requests[i].press, requests[i].step>> \in ChangesOf(requests[i])
    BY <2>2, <2>3, ChangesApplied
  <2>5. acked' \subseteq applied
    BY <1>3, <2>4 DEF nextRequest, AllApplied
  <2>6. ASSUME NEW s \in 1..m.step, s # m.step PROVE <<m.press, s>> \in applied
    <3>1. m.step = requests[i].step + 1 /\ m.press = requests[i].press
      BY <2>1 DEF New
    <3>2. s \in 1..requests[i].step
      BY <2>3, <2>6, <3>1
    <3> QED BY <2>4, <3>1, <3>2 DEF ChangesOf
  <2>7. WasApplied(m)'
    BY <2>1, <2>2, <2>6 DEF WasApplied, New
  <2> QED BY <2>1, <2>2, <2>5, <2>7, AppliedKept DEF Follows
<1>4. ASSUME NEW i \in DOMAIN requests, reloadInside(i) PROVE AllApplied'
  <2>1. PICK m : New(m, requests[i].handler, "load", requests[i].press, requests[i].step, requests[i].query) /\ Follows(i, m)
    BY <1>4, ReloadView
  <2>2. requests[i].kind = "write" /\ applied' = applied /\ requests[i] \in Under
    BY <1>4, UnderIs DEF reloadInside
  <2>3. acked' \subseteq applied
    BY <1>4, <2>2, ChangesApplied DEF reloadInside, AllApplied
  <2>4. WasApplied(m)'
    BY <2>1 DEF WasApplied, New
  <2> QED BY <2>1, <2>2, <2>3, <2>4, AppliedKept DEF Follows
<1>5. ASSUME NEW i \in DOMAIN requests,
             finishHere(i) \/ tickAfter(i) \/ toastError(i) \/ leavePage(i) \/ loadAnswered(i)
      PROVE  AllApplied'
  <2>1. requests' = Without(i) /\ applied' = applied /\ requests[i] \in Under
    BY <1>5, UnderIs DEF finishHere, tickAfter, toastError, leavePage, loadAnswered
  <2>2. acked' \subseteq applied
    <3>1. CASE finishHere(i) \/ tickAfter(i)
      BY <2>1, <3>1, ChangesApplied DEF finishHere, tickAfter, AllApplied, Answered
    <3>2. CASE toastError(i) \/ leavePage(i) \/ loadAnswered(i)
      BY <3>2 DEF toastError, leavePage, loadAnswered, AllApplied
    <3> QED BY <1>5, <3>1, <3>2
  <2>3. Ends(i)
    BY <2>1, EndsIs
  <2> QED BY <2>1, <2>2, <2>3, AppliedKept DEF Ends
<1>6. ASSUME load PROVE AllApplied'
  <2>1. PICK m : New(m, "effect", "load", 0, 0, query) /\ Adds(m)
    BY <1>6, LoadView
  <2>2. applied' = applied /\ acked' = acked
    BY <1>6 DEF load
  <2>3. WasApplied(m)'
    BY <2>1 DEF WasApplied, New
  <2> QED BY <2>1, <2>2, <2>3, AppliedKept DEF Adds, AllApplied
<1>7. ASSUME chooseFilter \/ pollTick \/ UNCHANGED pageVars PROVE AllApplied'
  <2>1. UNCHANGED <<requests, applied, acked>>
    BY <1>7 DEF chooseFilter, pollTick, pageVars
  <2> QED BY <2>1, AppliedKept DEF Under, AllApplied
<1> QED BY <1>1, <1>2, <1>3, <1>4, <1>5, <1>6, <1>7 DEF PagesNext

(* --------------------------- what a page shows -------------------------- *)

\* A load that was awaited is awaited still.
LEMMA AwaitedKept ==
  ASSUME P' = P, UNCHANGED <<left, due, stale, effectRun>>, NEW x, Under \ {x} \subseteq Under',
         ~Live(x) \/ \E y \in Under' : Live(y)
  PROVE  Awaited => Awaited'
<1>1. LiveLoad => LiveLoad'
  BY LiveStays DEF LiveLoad
<1> QED BY <1>1 DEF Awaited

\* What was shown with a reason still has one.
LEMMA ShownKept ==
  ASSUME P' = P, Awaited => Awaited', ShownApplied, applied \subseteq applied',
         \A c \in shown' : c \in shown \/ c \in applied' \/ \E r \in Under' : EarlyOf(r, c),
         \A c : \A r \in Under : EarlyOf(r, c) => c \in applied' \/ \E q \in Under' : EarlyOf(q, c)
  PROVE  ShownApplied'
<1>1. \A r, c : EarlyOf(r, c)' <=> EarlyOf(r, c)
  BY DEF EarlyOf
<1> QED BY <1>1 DEF ShownApplied

\* Every step keeps what is shown within what was applied, but for early changes.
LEMMA ShownNext ==
  ASSUME PageTypes, AllApplied, ShownApplied, [PagesNext]_pageVars
  PROVE  ShownApplied'
<1>0. P' = P
  BY PageStays
<1>1. ASSUME NEW h \in DOMAIN P.handlers, NEW key \in KeysOf(h), press(h, key) PROVE ShownApplied'
  <2>1. PICK m : /\ New(m, h, IF P.handlers[h].then = "read" THEN "load" ELSE "write", presses + 1, 1, query)
                 /\ Adds(m)
    BY <1>1, PressView
  <2>2. /\ UNCHANGED <<left, due, stale, effectRun, applied>>
        /\ shown' = IF P.handlers[h].early THEN shown \union {<<presses + 1, 1>>} ELSE shown
    BY <1>1 DEF press
  <2>3. m \in Under' /\ Under \subseteq Under'
    BY <2>1 DEF Adds
  <2>4. CASE P.handlers[h].then = "read"
    <3>1. Live(m)'
      BY <1>0, <2>1, <2>2, <2>4 DEF New, Live
    <3> QED BY <2>3, <3>1 DEF ShownApplied, Awaited, LiveLoad
  <2>5. CASE P.handlers[h].then # "read"
    <3>1. P.handlers[h].early => EarlyOf(m, <<presses + 1, 1>>)
      BY <2>1, <2>5 DEF New, EarlyOf
    <3>2. ~Live(m) /\ (Awaited => Awaited')
      BY <1>0, <2>1, <2>2, <2>3, <2>5, AwaitedKept DEF New, Live
    <3>3. \A c \in shown' : c \in shown \/ \E r \in Under' : EarlyOf(r, c)
      BY <2>2, <2>3, <3>1
    <3> QED BY <1>0, <2>2, <2>3, <3>2, <3>3, ShownKept
  <2> QED BY <2>4, <2>5
<1>2. ASSUME NEW i \in DOMAIN requests, NEW outcome, serve(i, outcome) PROVE ShownApplied'
  <2>1. PICK m : /\ Answers(i, m)
                 /\ m.handler = requests[i].handler /\ m.kind = requests[i].kind
                 /\ m.press = requests[i].press /\ m.run = requests[i].run
    BY <1>2, ServeView
  <2>2. UNCHANGED <<left, due, stale, effectRun, shown>> /\ applied \subseteq applied'
    BY <1>2 DEF serve
  <2>3. m \in Under' /\ Under \ {requests[i]} \subseteq Under'
    BY <2>1 DEF Answers
  <2>4. (Live(requests[i]) => Live(m)) /\ \A c : EarlyOf(requests[i], c) => EarlyOf(m, c)
    BY <2>1 DEF Live, EarlyOf
  <2>5. Awaited => Awaited'
    BY <1>0, <2>2, <2>3, <2>4, AwaitedKept
  <2> QED BY <1>0, <2>2, <2>3, <2>4, <2>5, ShownKept
<1>3. ASSUME NEW i \in DOMAIN requests, nextRequest(i) PROVE ShownApplied'
  <2>1. PICK m : New(m, requests[i].handler, "write", requests[i].press, requests[i].step + 1, requests[i].query) /\ Follows(i, m)
    BY <1>3, NextView
  <2>2. /\ UNCHANGED <<left, due, stale, effectRun, applied>> /\ requests[i].kind = "write" /\ requests[i].at = "ok"
        /\ shown' \subseteq shown \union {<<requests[i].press, requests[i].step>>}
    BY <1>3 DEF nextRequest, Answered
  <2>3. <<requests[i].press, requests[i].step>> \in applied
    BY <2>2, UnderIs, ChangesApplied
  <2>4. m \in Under' /\ Under \ {requests[i]} \subseteq Under' /\ \A c : EarlyOf(requests[i], c) => EarlyOf(m, c)
    BY <2>1 DEF Follows, New, EarlyOf
  <2>5. Awaited => Awaited'
    BY <1>0, <2>2, <2>4, AwaitedKept DEF Live
  <2> QED BY <1>0, <2>2, <2>3, <2>4, <2>5, ShownKept
<1>4. ASSUME NEW i \in DOMAIN requests, finishHere(i) PROVE ShownApplied'
  <2>1. /\ UNCHANGED <<left, due, stale, effectRun, applied>> /\ requests[i].kind = "write" /\ requests[i].at = "ok"
        /\ shown' \subseteq shown \union ChangesOf(requests[i]) /\ requests' = Without(i)
    BY <1>4 DEF finishHere, Answered
  <2>2. ChangesOf(requests[i]) \subseteq applied /\ \A c : EarlyOf(requests[i], c) => c \in applied
    BY <2>1, UnderIs, ChangesApplied DEF EarlyOf
  <2>3. Under \ {requests[i]} \subseteq Under'
    BY <2>1, EndsIs DEF Ends
  <2>4. Awaited => Awaited'
    BY <1>0, <2>1, <2>3, AwaitedKept DEF Live
  <2> QED BY <1>0, <2>1, <2>2, <2>3, <2>4, ShownKept
<1>5. ASSUME NEW i \in DOMAIN requests, toastError(i) PROVE ShownApplied'
  <2>1. /\ UNCHANGED <<left, due, stale, effectRun, applied, shown>> /\ requests[i].kind = "write"
        /\ P.handlers[requests[i].handler].error \notin {"reload", "tick"} /\ requests' = Without(i)
    BY <1>5 DEF toastError, Answered
  <2>2. ~P.handlers[requests[i].handler].early
    BY <2>1, UnderIs, HandlerIs DEF Handler
  <2>3. Under \ {requests[i]} \subseteq Under' /\ \A c : ~EarlyOf(requests[i], c)
    BY <2>1, <2>2, EndsIs DEF Ends, EarlyOf
  <2>4. Awaited => Awaited'
    BY <1>0, <2>1, <2>3, AwaitedKept DEF Live
  <2> QED BY <1>0, <2>1, <2>3, <2>4, ShownKept
<1>6. ASSUME NEW i \in DOMAIN requests, loadAnswered(i) PROVE ShownApplied'
  <2>1. /\ UNCHANGED <<left, due, effectRun, applied>> /\ requests[i].kind = "load" /\ requests' = Without(i)
        /\ requests[i].at # "sent"
        /\ IF Live(requests[i]) THEN stale' = (requests[i].at = "error") /\ (requests[i].at = "ok" => shown' = requests[i].seen)
                                ELSE stale' = stale /\ shown' = shown
    BY <1>6 DEF loadAnswered, Live
  <2>2. requests[i].at = "ok" \/ requests[i].at = "error"
    BY <2>1, UnderIs DEF Requests
  <2>3. requests[i].seen \subseteq applied
    BY <2>1, UnderIs DEF AllApplied, WasApplied
  <2>4. CASE Live(requests[i])
    BY <2>1, <2>2, <2>3, <2>4 DEF ShownApplied, Awaited
  <2>5. CASE ~Live(requests[i])
    <3>1. Under \ {requests[i]} \subseteq Under' /\ \A c : ~EarlyOf(requests[i], c)
      BY <2>1, EndsIs DEF Ends, EarlyOf
    <3>2. Awaited => Awaited'
      BY <1>0, <2>1, <2>5, <3>1, AwaitedKept
    <3> QED BY <1>0, <2>1, <2>5, <3>1, <3>2, ShownKept
  <2> QED BY <2>4, <2>5
<1>7. ASSUME NEW i \in DOMAIN requests, reloadInside(i) PROVE ShownApplied'
  <2>1. PICK m : New(m, requests[i].handler, "load", requests[i].press, requests[i].step, requests[i].query) /\ Follows(i, m)
    BY <1>7, ReloadView
  <2>2. effectRun' = effectRun
    BY <1>7 DEF reloadInside
  <2>3. m \in Under' /\ Live(m)'
    BY <1>0, <2>1, <2>2 DEF Follows, New, Live
  <2> QED BY <2>3 DEF ShownApplied, Awaited, LiveLoad
<1>8. ASSUME load PROVE ShownApplied'
  <2>1. PICK m : New(m, "effect", "load", 0, 0, query) /\ Adds(m)
    BY <1>8, LoadView
  <2>2. effectRun' = effectRun
    BY <1>8 DEF load
  <2>3. m \in Under' /\ Live(m)'
    BY <1>0, <2>1, <2>2 DEF Adds, New, Live
  <2> QED BY <2>3 DEF ShownApplied, Awaited, LiveLoad
<1>9. ASSUME chooseFilter \/ pollTick \/ \E i \in DOMAIN requests : tickAfter(i) \/ leavePage(i) PROVE ShownApplied'
  BY <1>9 DEF chooseFilter, pollTick, tickAfter, leavePage, EffectAgain, ShownApplied, Awaited
<1>10. ASSUME UNCHANGED pageVars PROVE ShownApplied'
  <2>1. UNCHANGED <<requests, left, due, stale, effectRun, applied, shown>>
    BY <1>10 DEF pageVars
  <2> QED BY <1>0, <2>1 DEF ShownApplied, Awaited, LiveLoad, Live, EarlyOf, Under
<1> QED BY <1>1, <1>2, <1>3, <1>4, <1>5, <1>6, <1>7, <1>8, <1>9, <1>10 DEF PagesNext

(* --------------------- requests served as they were sent ---------------- *)

\* Nothing makes up for an answer out of order.
LEMMA OrderLost == ASSUME [PagesNext]_pageVars, inOrder' PROVE inOrder
BY DEF PagesNext, pageVars, press, serve, nextRequest, finishHere, reloadInside, tickAfter, toastError,
       leavePage, loadAnswered, load, chooseFilter, pollTick, Answered

\* The places behind the one that was taken out keep their order.
LEMMA PlacesRise ==
  ASSUME PageTypes, NEW i \in DOMAIN requests, NEW j \in Nat, NEW k \in Nat, j < k
  PROVE  Before(i, j) < Before(i, k)
<1>1. i \in Nat
  BY DEF PageTypes
<1> QED BY <1>1, BeforeOnce

\* A request behind the others has not been served.
LEMMA LastInQueue ==
  ASSUME NEW i, NEW j, requests'[j].at = "sent"
  PROVE  InQueue(i, j)'
BY DEF InQueue

\* Every step that keeps the order keeps the queue.
LEMMA QueueNext ==
  ASSUME PageTypes, AllApplied, Queue, [PagesNext]_pageVars
  PROVE  Queue'
<1> SUFFICES ASSUME inOrder', NEW a \in DOMAIN requests', NEW b \in DOMAIN requests', a < b PROVE InQueue(a, b)'
  BY DEF Queue
<1>0. /\ requests \in Seq(Requests) /\ DOMAIN requests = 1..Len(requests) /\ Len(requests) \in Nat
      /\ \A j, k \in DOMAIN requests : j < k => InQueue(j, k)
  BY OrderLost DEF PageTypes, Queue
<1>1. ASSUME NEW m, Adds(m), m \in Requests, m.at = "sent" PROVE InQueue(a, b)'
  <2>1. /\ DOMAIN requests' = 1..(Len(requests) + 1) /\ requests'[Len(requests) + 1] = m
        /\ \A j \in DOMAIN requests : requests'[j] = requests[j]
    BY <1>0, <1>1, AppendIs DEF Adds
  <2>2. b = Len(requests) + 1 \/ (a \in DOMAIN requests /\ b \in DOMAIN requests)
    BY <1>0, <2>1
  <2>3. CASE b = Len(requests) + 1
    BY <1>1, <2>1, <2>3, LastInQueue
  <2>4. CASE a \in DOMAIN requests /\ b \in DOMAIN requests
    BY <1>0, <2>1, <2>4 DEF InQueue
  <2> QED BY <2>2, <2>3, <2>4
<1>2. ASSUME NEW i \in DOMAIN requests, requests' = Without(i) PROVE InQueue(a, b)'
  <2>1. /\ DOMAIN requests' = 1..(Len(requests) - 1)
        /\ \A j \in DOMAIN requests' : Before(i, j) \in DOMAIN requests /\ requests'[j] = requests[Before(i, j)]
    BY <1>2, EndsPlaces
  <2>2. Before(i, a) < Before(i, b)
    BY <1>0, <2>1, PlacesRise
  <2>3. InQueue(Before(i, a), Before(i, b))
    BY <1>0, <2>1, <2>2
  <2> QED BY <2>1, <2>3 DEF InQueue
<1>3. ASSUME NEW i \in DOMAIN requests, NEW m, Follows(i, m), m \in Requests, m.at = "sent" PROVE InQueue(a, b)'
  <2>1. /\ DOMAIN requests' = DOMAIN requests /\ requests'[Len(requests)] = m
        /\ \A j \in DOMAIN requests : j # Len(requests) =>
             Before(i, j) \in DOMAIN requests /\ requests'[j] = requests[Before(i, j)]
    BY <1>3, FollowsPlaces
  <2>2. a \in Nat /\ b \in Nat /\ a # Len(requests)
    BY <1>0, <2>1
  <2>3. CASE b = Len(requests)
    BY <1>3, <2>1, <2>3, LastInQueue
  <2>4. CASE b # Len(requests)
    <3>1. Before(i, a) < Before(i, b)
      BY <2>2, PlacesRise
    <3>2. InQueue(Before(i, a), Before(i, b))
      BY <1>0, <2>1, <2>2, <2>4, <3>1
    <3> QED BY <2>1, <2>2, <2>4, <3>2 DEF InQueue
  <2> QED BY <2>3, <2>4
<1>4. ASSUME NEW i \in DOMAIN requests, NEW outcome, serve(i, outcome) PROVE InQueue(a, b)'
  <2>1. PICK m : /\ Answers(i, m) /\ m \in Requests /\ m.kind = requests[i].kind
                 /\ m.seen = IF requests[i].kind = "load" THEN applied ELSE {}
                 /\ m.at = IF outcome = "ok" THEN "ok" ELSE "error"
    BY <1>4, ServeView
  <2>2. /\ DOMAIN requests' = DOMAIN requests
        /\ \A j \in DOMAIN requests : requests'[j] = IF j = i THEN m ELSE requests[j]
    BY <1>0, <2>1, ReplaceIs DEF Answers
  <2>3. requests[i].at = "sent" /\ \A j \in 1..(i - 1) : requests[j].at # "sent"
    BY <1>4 DEF serve
  <2>4. a \in 1..Len(requests) /\ b \in 1..Len(requests) /\ i \in 1..Len(requests)
    BY <1>0, <2>2
  <2>5. InQueue(a, b)
    BY <1>0, <2>2
  <2>6. CASE a = i
    <3>1. requests[b].at = "sent" /\ requests'[b] = requests[b]
      BY <2>2, <2>3, <2>4, <2>5, <2>6 DEF InQueue
    <3> QED BY <3>1, LastInQueue
  <2>7. CASE b = i
    <3>1. requests'[a] = requests[a] /\ requests'[b] = m /\ requests[a].at # "sent"
      BY <2>2, <2>3, <2>4, <2>7
    <3>2. requests[a] \in Under
      BY <2>2, UnderIs
    <3>3. requests[a].kind = "write" /\ requests[a].at = "ok" => ChangesOf(requests[a]) \subseteq applied
      BY <3>2, ChangesApplied
    <3> QED BY <2>1, <2>7, <3>1, <3>3 DEF InQueue
  <2>8. CASE a # i /\ b # i
    BY <2>2, <2>5, <2>8 DEF InQueue
  <2> QED BY <2>6, <2>7, <2>8
<1>5. ASSUME NEW h \in DOMAIN P.handlers, NEW key \in KeysOf(h), press(h, key) PROVE InQueue(a, b)'
  BY <1>1, <1>5, PressView DEF New
<1>6. ASSUME load PROVE InQueue(a, b)'
  BY <1>1, <1>6, LoadView DEF New
<1>7. ASSUME NEW i \in DOMAIN requests, nextRequest(i) PROVE InQueue(a, b)'
  BY <1>3, <1>7, NextView DEF New
<1>8. ASSUME NEW i \in DOMAIN requests, reloadInside(i) PROVE InQueue(a, b)'
  BY <1>3, <1>8, ReloadView DEF New
<1>9. ASSUME NEW i \in DOMAIN requests,
             finishHere(i) \/ tickAfter(i) \/ toastError(i) \/ leavePage(i) \/ loadAnswered(i)
      PROVE  InQueue(a, b)'
  BY <1>2, <1>9 DEF finishHere, tickAfter, toastError, leavePage, loadAnswered
<1>10. ASSUME chooseFilter \/ pollTick \/ UNCHANGED pageVars PROVE InQueue(a, b)'
  <2>1. requests' = requests
    BY <1>10 DEF chooseFilter, pollTick, pageVars
  <2> QED BY <1>0, <2>1 DEF InQueue
<1> QED BY <1>4, <1>5, <1>6, <1>7, <1>8, <1>9, <1>10 DEF PagesNext

(* ------------------------- what a page reported ------------------------- *)

\* A page that promises it after a step promised it before.
LEMMA ReportedBefore ==
  ASSUME [PagesNext]_pageVars
  PROVE  (Protected' <=> Protected) /\ (Reported' => Reported) /\ (EffectLoads' <=> EffectLoads)
<1>1. P' = P
  BY PageStays
<1> QED BY <1>1, OrderLost DEF Protected, Reported, EffectLoads

\* The loads that were served behind an answered write have seen it.
LEMMA FirstWasSeen ==
  ASSUME PageTypes, Queue, inOrder, 1 \in DOMAIN requests, requests[1].kind = "write", requests[1].at = "ok",
         NEW r \in Under, r.kind = "load", r.at = "ok"
  PROVE  ChangesOf(requests[1]) \subseteq r.seen
<1>1. PICK k \in DOMAIN requests : r = requests[k]
  BY DEF Under, Range
<1>2. k # 1
  BY <1>1
<1>3. 1 < k
  BY <1>1, <1>2 DEF PageTypes
<1> QED BY <1>1, <1>3 DEF Queue, InQueue

\* A new run of a guarded effect drops every load under way.
LEMMA EffectDrops ==
  ASSUME PageTypes, P' = P, EffectAgain, NEW r \in Under, Live(r)'
  PROVE  Live(r) /\ ~P.load.guarded
<1>1. r \in Requests /\ RequestOK(r) /\ effectRun \in Nat
  BY DEF PageTypes, Under, Range
<1>2. r.run \in Nat /\ r.run <= effectRun
  BY <1>1 DEF Requests, RequestOK
<1>3. r.run # effectRun + 1
  BY <1>1, <1>2
<1> QED BY <1>3 DEF Live, EffectAgain

\* Loads under way have seen what was reported before them.
LEMMA SeenKept ==
  ASSUME AckedSeen, Reported, acked' = acked, \A r \in Under' : Live(r)' /\ r.at = "ok" => r \in Under /\ Live(r)
  PROVE  AckedSeen'
BY DEF AckedSeen

\* What one handler reports was seen by the loads that will be shown.
LEMMA SeenReported ==
  ASSUME PageTypes, Queue, AckedSeen, P' = P, NEW i \in DOMAIN requests, requests[i].kind = "write", requests[i].at = "ok",
         acked' \subseteq acked \union ChangesOf(requests[i]), inOrder, i = 1,
         \A r \in Under' : Live(r)' /\ r.at = "ok" => r \in Under /\ Live(r)
  PROVE  AckedSeen'
<1> SUFFICES ASSUME NEW r \in Under', Live(r)', r.at = "ok" PROVE acked' \subseteq r.seen
  BY DEF AckedSeen
<1>1. r \in Under /\ Live(r) /\ r.kind = "load"
  BY DEF Live
<1>2. acked \subseteq r.seen
  BY <1>1 DEF AckedSeen, Reported
<1>3. ChangesOf(requests[i]) \subseteq r.seen
  BY <1>1, FirstWasSeen
<1> QED BY <1>2, <1>3

\* Every step keeps what was reported within what the loads have seen.
LEMMA SeenNext ==
  ASSUME PageTypes, AllApplied, Queue, AckedSeen, [PagesNext]_pageVars
  PROVE  AckedSeen'
<1> SUFFICES ASSUME Reported' PROVE AckedSeen'
  BY DEF AckedSeen
<1>0. P' = P /\ Reported
  BY PageStays, ReportedBefore
<1>a. ASSUME NEW m, m.at = "sent", Under' \subseteq Under \union {m}, acked' = acked, effectRun' = effectRun
      PROVE  AckedSeen'
  BY <1>0, <1>a, SeenKept, LiveStays
<1>b. ASSUME Under' \subseteq Under, acked' = acked, effectRun' = effectRun PROVE AckedSeen'
  BY <1>0, <1>b, SeenKept, LiveStays
<1>1. ASSUME NEW h \in DOMAIN P.handlers, NEW key \in KeysOf(h), press(h, key) PROVE AckedSeen'
  <2>1. acked' = acked /\ effectRun' = effectRun
    BY <1>1 DEF press
  <2> QED BY <1>1, <1>a, <2>1, PressView DEF New, Adds
<1>2. ASSUME NEW i \in DOMAIN requests, NEW outcome, serve(i, outcome) PROVE AckedSeen'
  <2>1. PICK m : Answers(i, m) /\ m.kind = requests[i].kind /\ m.seen = IF requests[i].kind = "load" THEN applied ELSE {}
    BY <1>2, ServeView
  <2>2. acked' = acked /\ effectRun' = effectRun /\ acked \subseteq applied
    BY <1>2 DEF serve, AllApplied
  <2> SUFFICES ASSUME NEW r \in Under', Live(r), r.at = "ok" PROVE acked \subseteq r.seen
    BY <1>0, <2>2, LiveStays DEF AckedSeen
  <2>3. r \in Under \/ r = m
    BY <2>1 DEF Answers
  <2>4. CASE r \in Under
    BY <1>0, <2>4 DEF AckedSeen
  <2>5. CASE r = m
    BY <2>1, <2>2, <2>5 DEF Live
  <2> QED BY <2>3, <2>4, <2>5
<1>3. ASSUME NEW i \in DOMAIN requests, nextRequest(i) PROVE AckedSeen'
  <2>1. PICK m : New(m, requests[i].handler, "write", requests[i].press, requests[i].step + 1, requests[i].query) /\ Follows(i, m)
    BY <1>3, NextView
  <2>2. /\ effectRun' = effectRun /\ requests[i].kind = "write" /\ requests[i].at = "ok" /\ (inOrder' => inOrder /\ i = 1)
        /\ acked' = IF P.handlers[requests[i].handler].then = "patch" THEN acked \union {<<requests[i].press, requests[i].step>>} ELSE acked
    BY <1>3 DEF nextRequest, Answered
  <2>3. m.at = "sent" /\ Under' \subseteq Under \union {m}
    BY <2>1 DEF New, Follows
  <2>4. CASE acked' = acked
    BY <1>a, <2>2, <2>3, <2>4
  <2>5. CASE acked' # acked
    <3>1. inOrder'
      BY <2>2, <2>5, <1>0, UnderIs DEF Reported, Protected
    <3>2. acked' \subseteq acked \union ChangesOf(requests[i])
      BY <2>2, UnderIs, ChangesApplied
    <3> QED BY <1>0, <2>2, <2>3, <3>1, <3>2, SeenReported, LiveStays
  <2> QED BY <2>4, <2>5
<1>4. ASSUME NEW i \in DOMAIN requests, finishHere(i) PROVE AckedSeen'
  <2>1. /\ effectRun' = effectRun /\ requests[i].kind = "write" /\ requests[i].at = "ok" /\ (inOrder' => inOrder /\ i = 1)
        /\ requests' = Without(i) /\ P.handlers[requests[i].handler].then # "tick"
        /\ acked' \subseteq acked \union ChangesOf(requests[i])
    BY <1>4 DEF finishHere, Answered
  <2>2. Under' \subseteq Under
    BY <2>1, EndsIs DEF Ends
  <2>3. inOrder'
    BY <1>0, <2>1, UnderIs DEF Reported, Protected
  <2> QED BY <1>0, <2>1, <2>2, <2>3, SeenReported, LiveStays
<1>5. ASSUME NEW i \in DOMAIN requests, reloadInside(i) PROVE AckedSeen'
  <2>1. PICK m : New(m, requests[i].handler, "load", requests[i].press, requests[i].step, requests[i].query) /\ Follows(i, m)
    BY <1>5, ReloadView
  <2>2. m.at = "sent" /\ Under' \subseteq Under \union {m}
    BY <2>1 DEF New, Follows
  <2>3. /\ effectRun' = effectRun /\ requests[i].kind = "write" /\ (inOrder' => inOrder /\ i = 1)
        /\ acked' = IF requests[i].at = "ok" THEN acked \union ChangesOf(requests[i]) ELSE acked
        /\ requests[i].at = "ok" => P.handlers[requests[i].handler].then = "reload"
    BY <1>5 DEF reloadInside
  <2>4. CASE requests[i].at # "ok"
    BY <1>a, <2>2, <2>3, <2>4
  <2>5. CASE requests[i].at = "ok"
    <3>1. inOrder'
      BY <1>0, <2>3, <2>5, UnderIs DEF Reported, Protected
    <3> QED BY <1>0, <2>2, <2>3, <2>5, <3>1, SeenReported, LiveStays
  <2> QED BY <2>4, <2>5
<1>6. ASSUME NEW i \in DOMAIN requests, tickAfter(i) PROVE AckedSeen'
  <2>1. /\ EffectAgain /\ requests[i].kind = "write" /\ (inOrder' => inOrder /\ i = 1) /\ requests' = Without(i)
        /\ acked' = IF requests[i].at = "ok" THEN acked \union ChangesOf(requests[i]) ELSE acked
    BY <1>6 DEF tickAfter
  <2>2. Under' \subseteq Under
    BY <2>1, EndsIs DEF Ends
  <2>3. \A r \in Under' : Live(r)' => Live(r) /\ ~P.load.guarded
    BY <1>0, <2>1, <2>2, EffectDrops
  <2>4. CASE P.load.guarded
    BY <2>3, <2>4 DEF AckedSeen
  <2>5. CASE ~P.load.guarded /\ requests[i].at # "ok"
    BY <1>0, <2>1, <2>2, <2>3, <2>5, SeenKept
  <2>6. CASE ~P.load.guarded /\ requests[i].at = "ok"
    <3>1. inOrder'
      BY <1>0, <2>6 DEF Reported, Protected
    <3> QED BY <1>0, <2>1, <2>2, <2>3, <2>6, <3>1, SeenReported
  <2> QED BY <2>4, <2>5, <2>6
<1>7. ASSUME NEW i \in DOMAIN requests, toastError(i) \/ leavePage(i) \/ loadAnswered(i) PROVE AckedSeen'
  <2>1. acked' = acked /\ effectRun' = effectRun /\ requests' = Without(i)
    BY <1>7 DEF toastError, leavePage, loadAnswered
  <2> QED BY <1>b, <2>1, EndsIs DEF Ends
<1>8. ASSUME load PROVE AckedSeen'
  <2>1. acked' = acked /\ effectRun' = effectRun
    BY <1>8 DEF load
  <2> QED BY <1>8, <1>a, <2>1, LoadView DEF New, Adds
<1>9. ASSUME chooseFilter \/ pollTick PROVE AckedSeen'
  <2>1. EffectAgain /\ acked' = acked /\ Under' = Under
    BY <1>9 DEF chooseFilter, pollTick, Under
  <2> QED BY <1>0, <2>1, EffectDrops, SeenKept
<1>10. ASSUME UNCHANGED pageVars PROVE AckedSeen'
  <2>1. acked' = acked /\ effectRun' = effectRun /\ Under' = Under
    BY <1>10 DEF pageVars, Under
  <2> QED BY <1>b, <2>1
<1> QED BY <1>1, <1>2, <1>3, <1>4, <1>5, <1>6, <1>7, <1>8, <1>9, <1>10 DEF PagesNext

\* A load is shown; or nothing was awaited, and the step keeps what is shown.
Shows ==
  \E i \in DOMAIN requests :
    /\ Live(requests[i]) /\ requests[i].at = "ok"
    /\ shown' = requests[i].seen /\ shownQuery' = requests[i].query /\ acked' = acked /\ query' = query
Quietly == ~Awaited /\ query' = query /\ shownQuery' = shownQuery /\ (acked \subseteq shown => acked' \subseteq shown')

\* What a step can do to a page that awaits a load, or does not.
LEMMA AwaitedNext ==
  ASSUME PageTypes, [PagesNext]_pageVars
  PROVE  Awaited' \/ Shows \/ Quietly
<1>0. P' = P
  BY PageStays
<1>a. ASSUME NEW m \in Under', Live(m), effectRun' = effectRun PROVE Awaited'
  BY <1>0, <1>a, LiveStays DEF Awaited, LiveLoad
<1>b. ASSUME UNCHANGED <<left, due, stale, effectRun, query, shownQuery>>, NEW x, Under \ {x} \subseteq Under',
             ~Live(x) \/ \E y \in Under' : Live(y), acked \subseteq shown => acked' \subseteq shown'
      PROVE  Awaited' \/ Quietly
  BY <1>0, <1>b, AwaitedKept DEF Quietly
<1>1. ASSUME NEW h \in DOMAIN P.handlers, NEW key \in KeysOf(h), press(h, key) PROVE Awaited' \/ Quietly
  <2>1. PICK m : /\ New(m, h, IF P.handlers[h].then = "read" THEN "load" ELSE "write", presses + 1, 1, query)
                 /\ Adds(m)
    BY <1>1, PressView
  <2>2. UNCHANGED <<left, due, stale, effectRun, query, shownQuery, acked>> /\ shown \subseteq shown'
    BY <1>1 DEF press
  <2>3. m \in Under' /\ Under \subseteq Under'
    BY <2>1 DEF Adds
  <2>4. CASE P.handlers[h].then = "read"
    BY <1>a, <2>1, <2>2, <2>3, <2>4 DEF New, Live
  <2>5. CASE P.handlers[h].then # "read"
    <3>1. ~Live(m)
      BY <2>1, <2>5 DEF New, Live
    <3> QED BY <1>b, <2>2, <2>3, <3>1
  <2> QED BY <2>4, <2>5
<1>2. ASSUME NEW i \in DOMAIN requests, NEW outcome, serve(i, outcome) PROVE Awaited' \/ Quietly
  <2>1. PICK m : Answers(i, m) /\ m.kind = requests[i].kind /\ m.run = requests[i].run
    BY <1>2, ServeView
  <2>2. UNCHANGED <<left, due, stale, effectRun, query, shownQuery, acked, shown>>
    BY <1>2 DEF serve
  <2>3. m \in Under' /\ Under \ {requests[i]} \subseteq Under' /\ (Live(requests[i]) => Live(m))
    BY <2>1 DEF Answers, Live
  <2> QED BY <1>b, <2>2, <2>3
<1>3. ASSUME NEW i \in DOMAIN requests, nextRequest(i) PROVE Awaited' \/ Quietly
  <2>1. /\ UNCHANGED <<left, due, stale, effectRun, query, shownQuery>> /\ requests[i].kind = "write"
        /\ acked \subseteq shown => acked' \subseteq shown'
    BY <1>3 DEF nextRequest, Answered
  <2>2. Under \ {requests[i]} \subseteq Under'
    BY <1>3, NextView DEF Follows
  <2> QED BY <1>b, <2>1, <2>2 DEF Live
<1>4. ASSUME NEW i \in DOMAIN requests, finishHere(i) \/ toastError(i) PROVE Awaited' \/ Quietly
  <2>1. /\ UNCHANGED <<left, due, stale, effectRun, query, shownQuery>> /\ requests[i].kind = "write"
        /\ acked \subseteq shown => acked' \subseteq shown'
        /\ requests' = Without(i)
    BY <1>4 DEF finishHere, toastError, Answered
  <2>2. Under \ {requests[i]} \subseteq Under'
    BY <2>1, EndsIs DEF Ends
  <2> QED BY <1>b, <2>1, <2>2 DEF Live
<1>5. ASSUME NEW i \in DOMAIN requests, loadAnswered(i) PROVE Awaited' \/ Shows \/ Quietly
  <2>1. /\ UNCHANGED <<left, due, effectRun, acked, query>> /\ requests' = Without(i) /\ requests[i].at # "sent"
        /\ IF Live(requests[i])
           THEN /\ stale' = (requests[i].at = "error")
                /\ requests[i].at = "ok" => shown' = requests[i].seen /\ shownQuery' = requests[i].query
           ELSE stale' = stale /\ shown' = shown /\ shownQuery' = shownQuery
    BY <1>5 DEF loadAnswered, Live
  <2>2. requests[i].at = "ok" \/ requests[i].at = "error"
    BY <2>1, UnderIs DEF Requests
  <2>3. CASE Live(requests[i]) /\ requests[i].at = "ok"
    BY <2>1, <2>3 DEF Shows
  <2>4. CASE Live(requests[i]) /\ requests[i].at = "error"
    BY <2>1, <2>4 DEF Awaited
  <2>5. CASE ~Live(requests[i])
    <3>1. Under \ {requests[i]} \subseteq Under'
      BY <2>1, EndsIs DEF Ends
    <3> QED BY <1>b, <2>1, <2>5, <3>1
  <2> QED BY <2>2, <2>3, <2>4, <2>5
<1>6. ASSUME NEW i \in DOMAIN requests, reloadInside(i) PROVE Awaited'
  <2>1. PICK m : New(m, requests[i].handler, "load", requests[i].press, requests[i].step, requests[i].query) /\ Follows(i, m)
    BY <1>6, ReloadView
  <2>2. effectRun' = effectRun
    BY <1>6 DEF reloadInside
  <2> QED BY <1>a, <2>1, <2>2 DEF Follows, New, Live
<1>7. ASSUME load PROVE Awaited'
  <2>1. PICK m : New(m, "effect", "load", 0, 0, query) /\ Adds(m)
    BY <1>7, LoadView
  <2>2. effectRun' = effectRun
    BY <1>7 DEF load
  <2> QED BY <1>a, <2>1, <2>2 DEF Adds, New, Live
<1>8. ASSUME chooseFilter \/ pollTick \/ \E i \in DOMAIN requests : tickAfter(i) \/ leavePage(i) PROVE Awaited'
  BY <1>8 DEF chooseFilter, pollTick, tickAfter, leavePage, EffectAgain, Awaited
<1>9. ASSUME UNCHANGED pageVars PROVE Awaited' \/ Quietly
  <2>1. UNCHANGED <<requests, left, due, stale, effectRun, query, shownQuery, acked, shown>>
    BY <1>9 DEF pageVars
  <2> QED BY <1>0, <2>1 DEF Quietly, Awaited, LiveLoad, Live, Under
<1> QED BY <1>1, <1>2, <1>3, <1>4, <1>5, <1>6, <1>7, <1>8, <1>9 DEF PagesNext

\* Every step keeps what was reported on the screen, or about to be.
LEMMA AckedNext ==
  ASSUME PageTypes, AckedSeen, AckedShown, [PagesNext]_pageVars
  PROVE  AckedShown'
<1> SUFFICES ASSUME Reported', ~Awaited' PROVE acked' \subseteq shown'
  BY DEF AckedShown
<1>1. Reported /\ (Shows \/ Quietly)
  BY ReportedBefore, AwaitedNext
<1>2. CASE Shows
  <2>1. PICK i \in DOMAIN requests : Live(requests[i]) /\ requests[i].at = "ok" /\ shown' = requests[i].seen /\ acked' = acked
    BY <1>2 DEF Shows
  <2> QED BY <1>1, <2>1, UnderIs DEF AckedSeen
<1>3. CASE Quietly
  BY <1>1, <1>3 DEF AckedShown, Quietly
<1> QED BY <1>1, <1>2, <1>3

(* -------------------------- the rows of a filter ------------------------ *)

\* The loads of these pages come from the effect: no handler reloads.
LEMMA NoHandlerLoads ==
  ASSUME PageTypes, EffectLoads
  PROVE  /\ \A h \in DOMAIN P.handlers : P.handlers[h].then # "read"
         /\ \A i \in DOMAIN requests : ~reloadInside(i)
<1>1. \A h \in DOMAIN P.handlers : P.handlers[h].then \notin {"reload", "read"} /\ P.handlers[h].error # "reload"
  BY DEF EffectLoads
<1>2. ASSUME NEW i \in DOMAIN requests, reloadInside(i) PROVE FALSE
  <2>1. requests[i].kind = "write" /\ (P.handlers[requests[i].handler].then = "reload" \/ P.handlers[requests[i].handler].error = "reload")
    BY <1>2 DEF reloadInside
  <2> QED BY <1>1, <2>1, UnderIs
<1> QED BY <1>1, <1>2

\* Every step of a page with a guarded effect keeps its loads on the user's filter.
LEMMA GuardedNext ==
  ASSUME PageTypes, GuardedRows, [PagesNext]_pageVars
  PROVE  GuardedRows'
<1>0. P' = P
  BY PageStays
<1> SUFFICES ASSUME EffectLoads, P.load.guarded
             PROVE  (\A r \in Under' : Live(r)' => r.query = query') /\ (Awaited' \/ shownQuery' = query')
  BY <1>0, ReportedBefore DEF GuardedRows
<1>1. /\ \A r \in Under : Live(r) => r.query = query
      /\ Awaited \/ shownQuery = query
  BY DEF GuardedRows
<1>2. Awaited' \/ shownQuery' = query'
  <2>1. CASE Shows
    BY <1>1, <2>1, UnderIs DEF Shows
  <2>2. CASE Quietly
    BY <1>1, <2>2 DEF Quietly
  <2> QED BY <2>1, <2>2, AwaitedNext
<1>a. ASSUME NEW m, Under' \subseteq Under \union {m}, Live(m) => m.query = query, query' = query, effectRun' = effectRun
      PROVE  \A r \in Under' : Live(r)' => r.query = query'
  BY <1>0, <1>1, <1>a, LiveStays
<1>b. ASSUME Under' \subseteq Under, EffectAgain PROVE \A r \in Under' : Live(r)' => r.query = query'
  BY <1>0, <1>b, EffectDrops
<1>3. ASSUME NEW h \in DOMAIN P.handlers, NEW key \in KeysOf(h), press(h, key)
      PROVE  \A r \in Under' : Live(r)' => r.query = query'
  <2>1. query' = query /\ effectRun' = effectRun
    BY <1>3 DEF press
  <2>2. PICK m : New(m, h, IF P.handlers[h].then = "read" THEN "load" ELSE "write", presses + 1, 1, query) /\ Adds(m)
    BY <1>3, PressView
  <2> QED BY <1>a, <2>1, <2>2 DEF New, Adds
<1>4. ASSUME NEW i \in DOMAIN requests, NEW outcome, serve(i, outcome) PROVE \A r \in Under' : Live(r)' => r.query = query'
  <2>1. PICK m : Answers(i, m) /\ m.kind = requests[i].kind /\ m.query = requests[i].query /\ m.run = requests[i].run
    BY <1>4, ServeView
  <2>2. query' = query /\ effectRun' = effectRun
    BY <1>4 DEF serve
  <2>3. Live(m) => m.query = query
    BY <1>1, <2>1, UnderIs DEF Live
  <2> QED BY <1>a, <2>1, <2>2, <2>3 DEF Answers
<1>5. ASSUME NEW i \in DOMAIN requests, nextRequest(i) PROVE \A r \in Under' : Live(r)' => r.query = query'
  <2>1. PICK m : New(m, requests[i].handler, "write", requests[i].press, requests[i].step + 1, requests[i].query) /\ Follows(i, m)
    BY <1>5, NextView
  <2>2. query' = query /\ effectRun' = effectRun
    BY <1>5 DEF nextRequest
  <2> QED BY <1>a, <2>1, <2>2 DEF New, Follows, Live
<1>6. ASSUME NEW i \in DOMAIN requests, finishHere(i) \/ toastError(i) \/ leavePage(i) \/ loadAnswered(i)
      PROVE  \A r \in Under' : Live(r)' => r.query = query'
  <2>1. query' = query /\ effectRun' = effectRun /\ requests' = Without(i)
    BY <1>6 DEF finishHere, toastError, leavePage, loadAnswered
  <2>2. Under' \subseteq Under
    BY <2>1, EndsIs DEF Ends
  <2> QED BY <1>0, <1>1, <2>1, <2>2, LiveStays
<1>7. ASSUME NEW i \in DOMAIN requests, tickAfter(i) PROVE \A r \in Under' : Live(r)' => r.query = query'
  <2>1. requests' = Without(i) /\ EffectAgain
    BY <1>7 DEF tickAfter
  <2> QED BY <1>b, <2>1, EndsIs DEF Ends
<1>8. ASSUME load PROVE \A r \in Under' : Live(r)' => r.query = query'
  <2>1. PICK m : New(m, "effect", "load", 0, 0, query) /\ Adds(m)
    BY <1>8, LoadView
  <2>2. query' = query /\ effectRun' = effectRun
    BY <1>8 DEF load
  <2> QED BY <1>a, <2>1, <2>2 DEF New, Adds
<1>9. ASSUME chooseFilter \/ pollTick PROVE \A r \in Under' : Live(r)' => r.query = query'
  <2>1. Under' = Under /\ EffectAgain
    BY <1>9 DEF chooseFilter, pollTick, Under
  <2> QED BY <1>b, <2>1
<1>10. ASSUME UNCHANGED pageVars PROVE \A r \in Under' : Live(r)' => r.query = query'
  <2>1. query' = query /\ effectRun' = effectRun /\ Under' = Under
    BY <1>10 DEF pageVars, Under
  <2> QED BY <1>0, <1>1, <2>1, LiveStays
<1> QED BY <1>2, <1>3, <1>4, <1>5, <1>6, <1>7, <1>8, <1>9, <1>10, NoHandlerLoads DEF PagesNext

\* Every step keeps the loads of an effect in the order of the filters.
LEMMA TurnsNext ==
  ASSUME PageTypes, AskedInTurn, [PagesNext]_pageVars
  PROVE  AskedInTurn'
<1> SUFFICES ASSUME EffectLoads, NEW a \in DOMAIN requests', NEW b \in DOMAIN requests', a < b PROVE AskedAfter(a, b)'
  BY ReportedBefore DEF AskedInTurn
<1>0. /\ requests \in Seq(Requests) /\ DOMAIN requests = 1..Len(requests) /\ Len(requests) \in Nat
      /\ \A j, k \in DOMAIN requests : j < k => AskedAfter(j, k)
  BY DEF PageTypes, AskedInTurn
<1>1. ASSUME NEW m, Adds(m), m \in Requests, m.kind = "write" \/ m.query = query PROVE AskedAfter(a, b)'
  <2>1. /\ DOMAIN requests' = 1..(Len(requests) + 1) /\ requests'[Len(requests) + 1] = m
        /\ \A j \in DOMAIN requests : requests'[j] = requests[j]
    BY <1>0, <1>1, AppendIs DEF Adds
  <2>2. a \in DOMAIN requests /\ (b = Len(requests) + 1 \/ b \in DOMAIN requests)
    BY <1>0, <2>1
  <2>3. CASE b = Len(requests) + 1
    <3>1. requests[a].query <= query
      BY <2>2, UnderIs DEF RequestOK
    <3> QED BY <1>1, <2>1, <2>2, <2>3, <3>1 DEF AskedAfter
  <2>4. CASE b \in DOMAIN requests
    BY <1>0, <2>1, <2>2, <2>4 DEF AskedAfter
  <2> QED BY <2>2, <2>3, <2>4
<1>2. ASSUME NEW i \in DOMAIN requests, requests' = Without(i) PROVE AskedAfter(a, b)'
  <2>1. /\ DOMAIN requests' = 1..(Len(requests) - 1)
        /\ \A j \in DOMAIN requests' : Before(i, j) \in DOMAIN requests /\ requests'[j] = requests[Before(i, j)]
    BY <1>2, EndsPlaces
  <2>2. Before(i, a) < Before(i, b)
    BY <1>0, <2>1, PlacesRise
  <2>3. AskedAfter(Before(i, a), Before(i, b))
    BY <1>0, <2>1, <2>2
  <2> QED BY <2>1, <2>3 DEF AskedAfter
<1>3. ASSUME NEW i \in DOMAIN requests, nextRequest(i) PROVE AskedAfter(a, b)'
  <2>0. PICK m : New(m, requests[i].handler, "write", requests[i].press, requests[i].step + 1, requests[i].query) /\ Follows(i, m)
    BY <1>3, NextView
  <2>1. /\ DOMAIN requests' = DOMAIN requests /\ requests'[Len(requests)] = m
        /\ \A j \in DOMAIN requests : j # Len(requests) =>
             Before(i, j) \in DOMAIN requests /\ requests'[j] = requests[Before(i, j)]
    BY <2>0, FollowsPlaces DEF New
  <2>2. a \in Nat /\ b \in Nat /\ a # Len(requests)
    BY <1>0, <2>1
  <2>3. CASE b = Len(requests)
    BY <2>0, <2>1, <2>3 DEF AskedAfter, New
  <2>4. CASE b # Len(requests)
    <3>1. Before(i, a) < Before(i, b)
      BY <2>2, PlacesRise
    <3>2. AskedAfter(Before(i, a), Before(i, b))
      BY <1>0, <2>1, <2>2, <2>4, <3>1
    <3> QED BY <2>1, <2>2, <2>4, <3>2 DEF AskedAfter
  <2> QED BY <2>3, <2>4
<1>4. ASSUME NEW i \in DOMAIN requests, NEW outcome, serve(i, outcome) PROVE AskedAfter(a, b)'
  <2>1. PICK m : Answers(i, m) /\ m \in Requests /\ m.kind = requests[i].kind /\ m.query = requests[i].query
    BY <1>4, ServeView
  <2>2. /\ DOMAIN requests' = DOMAIN requests
        /\ \A j \in DOMAIN requests : requests'[j] = IF j = i THEN m ELSE requests[j]
    BY <1>0, <2>1, ReplaceIs DEF Answers
  <2>3. \A j \in DOMAIN requests : requests'[j].kind = requests[j].kind /\ requests'[j].query = requests[j].query
    BY <2>1, <2>2
  <2> QED BY <1>0, <2>2, <2>3 DEF AskedAfter
<1>5. ASSUME NEW h \in DOMAIN P.handlers, NEW key \in KeysOf(h), press(h, key) PROVE AskedAfter(a, b)'
  BY <1>1, <1>5, PressView DEF New
<1>6. ASSUME load PROVE AskedAfter(a, b)'
  BY <1>1, <1>6, LoadView DEF New
<1>7. ASSUME NEW i \in DOMAIN requests,
             finishHere(i) \/ tickAfter(i) \/ toastError(i) \/ leavePage(i) \/ loadAnswered(i)
      PROVE  AskedAfter(a, b)'
  BY <1>2, <1>7 DEF finishHere, tickAfter, toastError, leavePage, loadAnswered
<1>8. ASSUME chooseFilter \/ pollTick \/ UNCHANGED pageVars PROVE AskedAfter(a, b)'
  <2>1. requests' = requests
    BY <1>8 DEF chooseFilter, pollTick, pageVars
  <2> QED BY <1>0, <2>1 DEF AskedAfter
<1> QED BY <1>3, <1>4, <1>5, <1>6, <1>7, <1>8, NoHandlerLoads DEF PagesNext

\* Every step of a page without the guard, answered in order, ends with the user's filter.
LEMMA OrderedNext ==
  ASSUME PageTypes, AskedInTurn, OrderedRows, [PagesNext]_pageVars
  PROVE  OrderedRows'
<1>0. P' = P
  BY PageStays
<1> SUFFICES ASSUME EffectLoads, ~P.load.guarded, inOrder' PROVE RowsInTurn'
  BY <1>0, ReportedBefore DEF OrderedRows
<1>1. RowsInTurn
  BY OrderLost DEF OrderedRows
<1>a. ASSUME UNCHANGED <<left, due, stale, query, shownQuery>>,
             \A r \in Under : r.kind = "load" => \E q \in Under' : q.kind = "load" /\ q.query = r.query,
             \A q \in Under' : q.kind = "load" => \E r \in Under : r.kind = "load"
      PROVE  RowsInTurn'
  <2>1. (\E r \in Under : AsksLast(r)) => \E q \in Under' : AsksLast(q)'
    BY <1>a DEF AsksLast
  <2>2. (\A r \in Under : r.kind # "load") => \A q \in Under' : q.kind # "load"
    BY <1>a
  <2> QED BY <1>1, <1>a, <2>1, <2>2 DEF RowsInTurn
<1>2. ASSUME NEW h \in DOMAIN P.handlers, NEW key \in KeysOf(h), press(h, key) PROVE RowsInTurn'
  <2>1. PICK m : New(m, h, IF P.handlers[h].then = "read" THEN "load" ELSE "write", presses + 1, 1, query) /\ Adds(m)
    BY <1>2, PressView
  <2>2. m.kind = "write" /\ Under' = Under \union {m}
    BY <2>1, NoHandlerLoads DEF New, Adds
  <2>3. UNCHANGED <<left, due, stale, query, shownQuery>>
    BY <1>2 DEF press
  <2> QED BY <1>a, <2>2, <2>3
<1>3. ASSUME NEW i \in DOMAIN requests, NEW outcome, serve(i, outcome) PROVE RowsInTurn'
  <2>1. PICK m : Answers(i, m) /\ m.kind = requests[i].kind /\ m.query = requests[i].query
    BY <1>3, ServeView
  <2>2. UNCHANGED <<left, due, stale, query, shownQuery>>
    BY <1>3 DEF serve
  <2>3. requests[i] \in Under
    BY UnderIs
  <2>4. \A r \in Under : r.kind = "load" => \E q \in Under' : q.kind = "load" /\ q.query = r.query
    BY <2>1 DEF Answers
  <2>5. \A q \in Under' : q.kind = "load" => \E r \in Under : r.kind = "load"
    BY <2>1, <2>3 DEF Answers
  <2> QED BY <1>a, <2>2, <2>4, <2>5
<1>4. ASSUME NEW i \in DOMAIN requests, nextRequest(i) PROVE RowsInTurn'
  <2>1. PICK m : New(m, requests[i].handler, "write", requests[i].press, requests[i].step + 1, requests[i].query) /\ Follows(i, m)
    BY <1>4, NextView
  <2>2. UNCHANGED <<left, due, stale, query, shownQuery>> /\ requests[i].kind = "write"
    BY <1>4 DEF nextRequest, Answered
  <2>3. m.kind = "write" /\ Under \ {requests[i]} \subseteq Under' /\ Under' \subseteq Under \union {m}
    BY <2>1 DEF New, Follows
  <2> QED BY <1>a, <2>2, <2>3
<1>5. ASSUME NEW i \in DOMAIN requests, finishHere(i) \/ toastError(i) PROVE RowsInTurn'
  <2>1. UNCHANGED <<left, due, stale, query, shownQuery>> /\ requests[i].kind = "write" /\ requests' = Without(i)
    BY <1>5 DEF finishHere, toastError, Answered
  <2>2. Under \ {requests[i]} \subseteq Under' /\ Under' \subseteq Under
    BY <2>1, EndsIs DEF Ends
  <2> QED BY <1>a, <2>1, <2>2
<1>6. ASSUME NEW i \in DOMAIN requests, loadAnswered(i) PROVE RowsInTurn'
  <2>1. /\ UNCHANGED <<left, due, query>> /\ requests' = Without(i) /\ i = 1
        /\ requests[i].kind = "load" /\ requests[i].at # "sent" /\ ~left
        /\ stale' = (requests[i].at = "error") /\ (requests[i].at = "ok" => shownQuery' = requests[i].query)
    BY <1>6 DEF loadAnswered
  <2>2. /\ requests[i] \in Under /\ requests[i].query \in Nat /\ query \in Nat
        /\ requests[i].at = "ok" \/ requests[i].at = "error"
    BY <2>1, UnderIs DEF Requests, PageTypes
  <2>3. Under \ {requests[i]} \subseteq Under' /\ Under' \subseteq Under
    BY <2>1, EndsIs DEF Ends
  <2>4. ASSUME NEW q \in Under', q.kind = "load", requests[i].query = query PROVE q.query = query
    <3>1. PICK j \in DOMAIN requests' : q = requests'[j]
      BY DEF Under, Range
    <3>2. /\ DOMAIN requests = 1..Len(requests) /\ Len(requests) \in Nat
          /\ Before(i, j) \in DOMAIN requests \ {i} /\ q = requests[Before(i, j)]
      BY <2>1, <3>1, EndsPlaces
    <3>3. 1 < Before(i, j)
      BY <2>1, <3>2
    <3>4. requests[i].query <= q.query
      BY <2>1, <2>4, <3>2, <3>3 DEF AskedInTurn, AskedAfter
    <3>5. q \in Requests /\ RequestOK(q)
      BY <3>2, UnderIs
    <3>6. q.query <= query /\ q.query \in Nat
      BY <3>5 DEF RequestOK, Requests
    <3> QED BY <2>2, <2>4, <3>4, <3>6
  <2>5. CASE due
    BY <2>1, <2>5 DEF RowsInTurn
  <2>6. CASE \E r \in Under' : AsksLast(r)
    BY <2>1, <2>6 DEF RowsInTurn, AsksLast
  <2>7. CASE ~due /\ ~\E r \in Under' : AsksLast(r)
    <3>1. \E r \in Under : AsksLast(r)
      BY <1>1, <2>1, <2>2, <2>7 DEF RowsInTurn
    <3>2. requests[i].query = query
      BY <2>3, <2>7, <3>1 DEF AsksLast
    <3>3. \A q \in Under' : q.kind # "load"
      BY <2>4, <2>7, <3>2 DEF AsksLast
    <3> QED BY <2>1, <2>2, <3>2, <3>3 DEF RowsInTurn
  <2> QED BY <2>5, <2>6, <2>7
<1>7. ASSUME load PROVE RowsInTurn'
  <2>1. PICK m : New(m, "effect", "load", 0, 0, query) /\ Adds(m)
    BY <1>7, LoadView
  <2>2. query' = query
    BY <1>7 DEF load
  <2>3. m \in Under' /\ AsksLast(m)'
    BY <2>1, <2>2 DEF New, Adds, AsksLast
  <2> QED BY <2>3 DEF RowsInTurn
<1>8. ASSUME chooseFilter \/ pollTick \/ \E i \in DOMAIN requests : tickAfter(i) \/ leavePage(i) PROVE RowsInTurn'
  BY <1>8 DEF chooseFilter, pollTick, tickAfter, leavePage, EffectAgain, RowsInTurn
<1>9. ASSUME UNCHANGED pageVars PROVE RowsInTurn'
  <2>1. UNCHANGED <<left, due, stale, query, shownQuery>> /\ Under' = Under
    BY <1>9 DEF pageVars, Under
  <2> QED BY <1>a, <2>1
<1> QED BY <1>2, <1>3, <1>4, <1>5, <1>6, <1>7, <1>8, <1>9, NoHandlerLoads DEF PagesNext

(* ----------------------------- the theorem ------------------------------ *)

\* A page that has just been opened has asked for nothing.
LEMMA InitPageInv == PagesInit => PageInv
<1> SUFFICES ASSUME PagesInit PROVE PageInv
  OBVIOUS
<1>1. requests = <<>> /\ DOMAIN requests = {}
  BY DEF PagesInit
<1>2. Under = {}
  BY <1>1 DEF Under, Range
<1>3. PageTypes
  <2>1. up \in [FlagsOf(P) -> Keys]
    BY KeysIs DEF PagesInit
  <2>2. requests \in Seq(Requests)
    BY <1>1
  <2> QED BY <1>2, <2>1, <2>2 DEF PagesInit, PageTypes
<1>4. FlagsHeld
  BY DEF PagesInit, FlagsHeld
<1>5. HoldersApart /\ Queue /\ AskedInTurn
  BY <1>1 DEF HoldersApart, OneHolds, Queue, AskedInTurn
<1>6. AllApplied /\ ShownApplied /\ AckedSeen /\ AckedShown
  BY <1>2 DEF PagesInit, AllApplied, ShownApplied, AckedSeen, AckedShown
<1>7. GuardedRows /\ OrderedRows
  BY <1>2 DEF PagesInit, GuardedRows, OrderedRows, RowsInTurn
<1> QED BY <1>3, <1>4, <1>5, <1>6, <1>7 DEF PageInv

\* Every step of a page keeps the invariant.
LEMMA NextPageInv == PageInv /\ [PagesNext]_pageVars => PageInv'
BY TypesNext, FlagsNext, ApartNext, AppliedNext, ShownNext, QueueNext, SeenNext, AckedNext, GuardedNext, TurnsNext, OrderedNext
   DEF PageInv

\* A flag with at most one holder has at most one request under way.
LEMMA OneSubmit ==
  ASSUME PageTypes, HoldersApart
  PROVE  NoDoubleSubmit
<1> SUFFICES ASSUME NEW f \in DOMAIN up, KeepsApart(f)
             PROVE  Cardinality({i \in DOMAIN requests : requests[i].handler # "effect" /\ P.handlers[requests[i].handler].flag = f}) <= 1
  BY DEF NoDoubleSubmit
<1> DEFINE S == {i \in DOMAIN requests : requests[i].handler # "effect" /\ P.handlers[requests[i].handler].flag = f}
<1>1. \A i, j \in S : i = j
  BY DEF HoldersApart, OneHolds, Holds
<1>2. S = {} \/ \E i : S = {i}
  BY <1>1
<1> HIDE DEF S
<1>3. Cardinality(S) = 0 \/ Cardinality(S) = 1
  BY <1>2, FS_EmptySet, FS_Singleton
<1> QED BY <1>3 DEF S

(***************************************************************************)
(* What a page promises its user, for every page of Book, any rows and any *)
(* number of presses and of requests under way, served and answered in any *)
(* order, refused or lost: once every request was answered no control is   *)
(* disabled (setBusy in finally); a flag that disables its buttons admits  *)
(* one request; and a page at rest shows every change it reported and      *)
(* nothing the server refused, with the rows of the filter chosen last,    *)
(* when its effect drops late answers (alive) or they came in order.       *)
(***************************************************************************)
THEOREM PagesAreSound == PagesSpec => []PagesSound
<1>1. ASSUME PageInv PROVE PagesSound
  <2>1. PageTypes /\ FlagsHeld /\ HoldersApart /\ ShownApplied /\ AckedShown /\ GuardedRows /\ OrderedRows
    BY <1>1 DEF PageInv
  <2>2. PageQuiet => Under = {} /\ ~left /\ ~due /\ ~LiveLoad
    BY DEF PageQuiet, Under, Range, LiveLoad
  <2>3. FlagsFall
    BY <2>1, <2>2 DEF FlagsFall, FlagsHeld
  <2>4. NoDoubleSubmit
    BY <2>1, OneSubmit
  <2>5. ShowsTheTruth
    BY <2>1, <2>2 DEF ShowsTheTruth, ShownApplied, AckedShown, Awaited, Reported
  <2>6. RowsOfTheFilter
    BY <2>1, <2>2 DEF RowsOfTheFilter, GuardedRows, OrderedRows, RowsInTurn, EffectLoads, Awaited
  <2> QED BY <2>3, <2>4, <2>5, <2>6 DEF PagesSound
<1> QED BY <1>1, InitPageInv, NextPageInv, PTL DEF PagesSpec
=============================================================================
