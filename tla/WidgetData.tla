----------------------------- MODULE WidgetData -----------------------------
(***************************************************************************)
(* Client-polled widgets (Weather, Currency), end to end: the card that    *)
(* re-reads on a timer, the tab's cache of answers (renderers/             *)
(* widget-data.ts), the browser's HTTP cache that the route's              *)
(* cache-control invites, the route (routes/widget-data.ts) and the cache  *)
(* in Redis that all users share (lib/widget-data-cache.ts).               *)
(*                                                                         *)
(* An answer carries its age, in ticks since the upstream gave it, and the *)
(* question it was read for. One card is followed in full; other cards of  *)
(* the tab and other users ask what they like.                             *)
(***************************************************************************)
EXTENDS Outages, FiniteSets

CONSTANTS Questions,  \* what a card asks: a currency pair, or a place in units
          None,       \* no usable settings, or no card
          Spots,      \* the server's keys
          SpotOf,     \* a pair's own key, or a place's coordinates, rounded
          Window,     \* WIDGET_DATA_CACHE_SECONDS, in ticks
          MaxCall,    \* the longest a call of the route takes, in ticks
          Shared,     \* the questions other cards and other users ask too (bounds the model)
          MaxEdits    \* edits and reloads (bounds the model)

VARIABLES stored,   \* what Redis keeps, by key
          calls,    \* the tab's inFlight, by question: how far each call is
          http,     \* what the browser's HTTP cache keeps, by question
          tab,      \* the tab's cache, by question
          card,     \* the card: what it asks, its timer, its loads, its result
          edits     \* edits and reloads so far

dataVars == <<stored, calls, http, tab, card, edits>>

\* The longest way of an answer: to Redis, there and in the browser's HTTP cache
\* and in the tab's until the last tick of a window, and on the card for another
\* until the timer goes.
Oldest == 2 * MaxCall + 3 * (Window - 1) + Window
Ages   == 0..Oldest + 1

Failure   == [ok |-> FALSE, of |-> None, age |-> 0]
Answers   == [ok : {TRUE}, of : Questions, age : Ages] \cup {Failure}
Read(q, age) == [ok |-> TRUE, of |-> q, age |-> age]

ASSUME DataAssumption ==
  /\ Window \in Nat \ {0} /\ MaxCall \in Nat /\ MaxEdits \in Nat
  /\ None \notin Questions \cup Answers
  /\ SpotOf \in [Questions -> Spots] /\ Shared \subseteq Questions

\* A cache entry and the ticks it still holds.
NoEntry  == [left |-> 0]
Entries  == {NoEntry} \cup [left : 1..Window, answer : Answers]
Keep(answer) == [left |-> Window, answer |-> answer]

Idle   == [stage |-> "idle", left |-> 0, answer |-> Failure]
\* A call starts in the browser, which answers itself while max-age lasts.
Asked(q) ==
  IF http[q] # NoEntry
  THEN [stage |-> "answered", left |-> MaxCall, answer |-> http[q].answer]
  ELSE [Idle EXCEPT !.stage = "asked", !.left = MaxCall]
Stages == {"idle", "asked", "loading", "read", "answered"}

DataTypeOK ==
  /\ edits \in 0..MaxEdits
  /\ stored \in [Spots -> Entries]
  /\ http \in [Questions -> Entries] /\ tab \in [Questions -> Entries]
  /\ calls \in [Questions -> [stage : Stages, left : 0..MaxCall, answer : Answers]]
  /\ card \in [asks : Questions \cup {None}, timer : 0..Window,
               loads : SUBSET [of : Questions, live : BOOLEAN],
               result : Answers \cup {None}]

DataInit ==
  /\ edits = 0
  /\ stored = [s \in Spots |-> NoEntry]
  /\ calls = [q \in Questions |-> Idle]
  /\ http = [q \in Questions |-> NoEntry] /\ tab = [q \in Questions |-> NoEntry]
  /\ card = [asks |-> None, timer |-> 0, loads |-> {}, result |-> None]

(***************************************************************************)
(* The tab: fetchWidgetData and the cards that call it.                    *)
(***************************************************************************)
Hit(q) == tab[q] # NoEntry

\* One request for a question at a time, however many cards ask.
FetchWidgetData(q) ==
  calls' = IF Hit(q) \/ calls[q].stage # "idle" THEN calls
           ELSE [calls EXCEPT ![q] = Asked(q)]

\* The card's load: a cached answer at once, any other when it arrives.
Loading(c, q) ==
  IF Hit(q) THEN [c EXCEPT !.result = tab[q].answer]
  ELSE [c EXCEPT !.loads = @ \cup {[of |-> q, live |-> TRUE]}]

\* The effect's cleanup: what its loads bring is ignored from now on.
TornDown(c) ==
  [c EXCEPT !.loads = {[l EXCEPT !.live = FALSE] : l \in @}, !.timer = 0]

\* The effect runs again when the settings change, and not without settings.
SetUp(q) ==
  LET torn == [TornDown(card) EXCEPT !.asks = q]
  IN  IF q = None THEN card' = torn /\ UNCHANGED calls
      ELSE /\ card' = Loading([torn EXCEPT !.timer = Window], q)
           /\ FetchWidgetData(q)

Edit(q) ==
  /\ q # card.asks /\ edits < MaxEdits
  /\ edits' = edits + 1
  /\ SetUp(q)
  /\ UNCHANGED <<outages, stored, http, tab>>

\* The page is loaded anew: only the browser's HTTP cache is left.
Reload ==
  /\ edits < MaxEdits /\ card.asks # None
  /\ edits' = edits + 1
  /\ tab' = [q \in Questions |-> NoEntry]
  /\ calls' = [q \in Questions |-> IF q = card.asks THEN Asked(q) ELSE Idle]
  /\ card' = [card EXCEPT !.timer = Window, !.result = None,
                          !.loads = {[of |-> card.asks, live |-> TRUE]}]
  /\ UNCHANGED <<outages, stored, http>>

Interval ==
  /\ card.asks # None /\ card.timer = 0
  /\ card' = Loading([card EXCEPT !.timer = Window], card.asks)
  /\ FetchWidgetData(card.asks)
  /\ UNCHANGED <<outages, stored, http, tab, edits>>

\* Another card of the board asks the same question.
OtherCard(q) ==
  /\ calls[q].stage = "idle" /\ ~Hit(q)
  /\ FetchWidgetData(q)
  /\ UNCHANGED <<outages, stored, http, tab, card, edits>>

\* Mutant: the answer of a torn-down load is taken.
AwaitedByAny(q) == \E l \in card.loads : l.of = q

\* A load takes an answer for as long as its effect lives.
Awaited(q) == [of |-> q, live |-> TRUE] \in card.loads

\* What arrives is cached, a failure too, and goes to the loads that wait for it.
Arrive(q) ==
  \E answer \in {calls[q].answer} \cup (IF trouble THEN {Failure} ELSE {}) :
    /\ calls[q].stage = "answered"
    /\ calls' = [calls EXCEPT ![q] = Idle]
    /\ tab' = [tab EXCEPT ![q] = Keep(answer)]
    /\ card' = [card EXCEPT !.result = IF Awaited(q) THEN answer ELSE @,
                            !.loads = {l \in @ : l.of # q}]
    /\ UNCHANGED <<outages, stored, http, edits>>

(***************************************************************************)
(* One call: the HTTP cache, the route, Redis and the upstreams.           *)
(***************************************************************************)
Answer(q, answer) == [calls[q] EXCEPT !.stage = "answered", !.answer = answer]

Sends(q, answer) ==
  /\ calls' = [calls EXCEPT ![q] = Answer(q, answer)]
  /\ http' = IF answer.ok THEN [http EXCEPT ![q] = Keep(answer)] ELSE http

\* withWidgetDataCache: the entry Redis has, or else the upstream. An
\* unreachable Redis counts as a miss.
CacheGet(q) ==
  /\ calls[q].stage = "asked"
  /\ IF stored[SpotOf[q]] # NoEntry THEN Sends(q, stored[SpotOf[q]].answer)
     ELSE calls' = [calls EXCEPT ![q].stage = "loading"] /\ UNCHANGED http
  /\ UNCHANGED <<outages, stored, tab, card, edits>>

CacheUnreachable(q) ==
  /\ calls[q].stage = "asked" /\ trouble
  /\ calls' = [calls EXCEPT ![q].stage = "loading"]
  /\ UNCHANGED <<outages, stored, http, tab, card, edits>>

\* A place is looked up before that; where it is does not change, so what can
\* come of it is a failure. An unknown place ends the call like an outage.
GeocodeFails(q) ==
  /\ calls[q].stage = "asked" /\ trouble
  /\ calls' = [calls EXCEPT ![q] = Answer(q, Failure)]
  /\ UNCHANGED <<outages, stored, http, tab, card, edits>>

\* The upstream answers, or does not in time, or with something else.
FetchUpstream(q) ==
  /\ calls[q].stage = "loading"
  /\ \/ calls' = [calls EXCEPT ![q].stage = "read", ![q].answer = Read(q, 0)]
     \/ trouble /\ calls' = [calls EXCEPT ![q] = Answer(q, Failure)]
  /\ UNCHANGED <<outages, stored, http, tab, card, edits>>

\* A failed SET is swallowed.
CacheSet(q) ==
  /\ calls[q].stage = "read"
  /\ \/ stored' = [stored EXCEPT ![SpotOf[q]] = Keep(calls[q].answer)]
     \/ trouble /\ UNCHANGED stored
  /\ Sends(q, calls[q].answer)
  /\ UNCHANGED <<outages, tab, card, edits>>

\* Another user's call that missed stores what it read up to a call's time ago,
\* over what is there.
OtherUser(q, age) ==
  /\ stored' = [stored EXCEPT ![SpotOf[q]] = Keep(Read(q, age))]
  /\ UNCHANGED <<outages, calls, http, tab, card, edits>>

(***************************************************************************)
(* Time.                                                                   *)
(***************************************************************************)
Older(a) == IF a = None \/ ~a.ok \/ a.age > Oldest THEN a ELSE [a EXCEPT !.age = @ + 1]

\* Mutant: a failure is kept for good.
AgedAnswers(entry) ==
  IF entry.left <= 1 /\ (entry = NoEntry \/ entry.answer.ok) THEN NoEntry
  ELSE [left |-> IF entry.left = 1 THEN 1 ELSE entry.left - 1, answer |-> Older(entry.answer)]

Aged(entry) ==
  IF entry.left <= 1 THEN NoEntry
  ELSE [left |-> entry.left - 1, answer |-> Older(entry.answer)]

\* A call ends within its deadlines and a timer goes off on time.
Tick ==
  /\ \A q \in Questions : calls[q].stage # "idle" => calls[q].left > 0
  /\ card.asks # None => card.timer > 0
  /\ stored' = [s \in Spots |-> Aged(stored[s])]
  /\ http' = [q \in Questions |-> Aged(http[q])]
  /\ tab' = [q \in Questions |-> Aged(tab[q])]
  /\ calls' = [q \in Questions |-> IF calls[q].stage = "idle" THEN Idle ELSE
                 [calls[q] EXCEPT !.left = @ - 1, !.answer = Older(@)]]
  /\ card' = [card EXCEPT !.timer = IF card.asks = None THEN 0 ELSE @ - 1,
                          !.result = Older(@)]
  /\ UNCHANGED <<outages, edits>>

Call(q) ==
  \/ CacheGet(q) \/ CacheUnreachable(q) \/ GeocodeFails(q) \/ FetchUpstream(q)
  \/ CacheSet(q) \/ Arrive(q)

DataNext ==
  \/ \E q \in Questions \cup {None} : Edit(q)
  \/ Reload \/ Interval \/ Tick
  \/ \E q \in Questions : Call(q)
  \/ \E q \in Shared : OtherCard(q) \/ \E age \in 0..MaxCall : OtherUser(q, age)

(***************************************************************************)
(* Properties.                                                             *)
(***************************************************************************)
Settled == card.asks # None /\ ~Awaited(card.asks)

\* A card that waits for nothing shows the answer to what it asks now, never
\* one to its earlier settings that came late (the live flag of the effect).
ShowsWhatItAsks ==
  Settled => card.result # None /\ (card.result.ok =>
                SpotOf[card.result.of] = SpotOf[card.asks])

\* Four caches and two calls on its way, an answer is never older than these
\* add up to: no cache starts an answer's time anew for itself.
NothingStale == Settled /\ card.result.ok => card.result.age <= Oldest

\* Once outages end, every card on the board shows an answer for good: a failure
\* is kept for a window and asked about again (fetchWidgetData, the interval).
Recovers ==
  <>[](~trouble /\ card.asks # None)
    => <>[](card.asks # None /\ card.result # None /\ card.result.ok)

=============================================================================
