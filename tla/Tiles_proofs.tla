---------------------------- MODULE Tiles_proofs ----------------------------
(***************************************************************************)
(* A client-polled card behind its four caches, for every window, call     *)
(* time and number of questions: it shows an answer to what it asks, and   *)
(* the caches' windows bound its age.  And the refresh lock, for every     *)
(* number of requests.                                                     *)
(***************************************************************************)
EXTENDS Tiles, FiniteSetTheorems, FunctionTheorems, SequenceTheorems, TLAPS

\* An answer, if it is one, is to a question of this spot and at most n ticks old.
Fits(a, spot, n) == a.ok => SpotOf[a.of] = spot /\ a.age <= n

\* A cache entry's answer is at most n ticks old by the time the entry goes.
EntryFits(e, spot, n) == e # NoEntry => Fits(e.answer, spot, n - e.left)

\* The age of an answer when Redis, the browser and the tab let it go, and when a
\* call that ends in one comes back.
RedisGoes   == MaxCall + Window
BrowserGoes == MaxCall + (Window - 1) + Window
CallEnds    == 2 * MaxCall + 2 * (Window - 1)
TabGoes     == CallEnds + Window

CachesFit ==
  /\ \A s \in Spots : EntryFits(stored[s], s, RedisGoes)
  /\ \A q \in Questions : EntryFits(http[q], SpotOf[q], BrowserGoes)
  /\ \A q \in Questions : EntryFits(tab[q], SpotOf[q], TabGoes)

CallRecords == [stage : Stages, left : 0 .. MaxCall, answer : Answers]
CardRecords ==
  [asks : Questions \cup {None}, timer : 0 .. Window,
   loads : SUBSET [of : Questions, live : BOOLEAN], result : Answers \cup {None}]

\* The time a call has left is kept free for its answer to age.
CallFits(call, q) ==
  /\ call.stage = "read" => Fits(call.answer, SpotOf[q], MaxCall - call.left)
  /\ call.stage = "answered" => Fits(call.answer, SpotOf[q], CallEnds - call.left)

\* Only loads of what the card asks now are live; without one the card shows an
\* answer that has the time until the timer goes left to age.
CardFits(c) ==
  /\ \A l \in c.loads : l.live => l.of = c.asks
  /\ c.asks # None /\ [of |-> c.asks, live |-> TRUE] \notin c.loads =>
       c.result # None /\ Fits(c.result, SpotOf[c.asks], Oldest - c.timer)

DataInv ==
  DataTypeOK /\ CachesFit /\ (\A q \in Questions : CallFits(calls[q], q)) /\ CardFits(card)

-----------------------------------------------------------------------------
(* Answers and entries *)

LEMMA Sizes ==
  /\ Window \in Nat /\ Window >= 1 /\ MaxCall \in Nat /\ MaxEdits \in Nat /\ Oldest \in Nat
  /\ RedisGoes \in Nat /\ BrowserGoes \in Nat /\ CallEnds \in Nat /\ TabGoes \in Nat
  /\ RedisGoes - 1 + Window = BrowserGoes /\ BrowserGoes - 1 + MaxCall = CallEnds
  /\ TabGoes - 1 + Window = Oldest /\ MaxCall <= CallEnds
  /\ RedisGoes - 1 <= CallEnds - MaxCall
<1>1. Window \in Nat /\ Window >= 1 /\ MaxCall \in Nat /\ MaxEdits \in Nat
  BY DataAssumption
<1>2. QED
  BY <1>1 DEF Oldest, RedisGoes, BrowserGoes, CallEnds, TabGoes

\* An answer that is not a failure.
Given == [ok : {TRUE}, of : Questions, age : Ages]

LEMMA OkIsGiven ==
  ASSUME NEW a \in Answers, a.ok
  PROVE  a \in Given
<1>1. Answers = Given \cup {Failure}
  BY DEF Answers, Given
<1>2. QED
  BY <1>1 DEF Failure

LEMMA AnswerShape ==
  ASSUME NEW a \in Answers
  PROVE  a # None /\ (a.ok => a.of \in Questions /\ a.age \in 0 .. Oldest + 1)
<1>1. a # None
  BY DataAssumption
<1>2. QED
  BY <1>1, OkIsGiven DEF Given, Ages

LEMMA FailureFits ==
  ASSUME NEW spot, NEW n
  PROVE  Failure \in Answers /\ Fits(Failure, spot, n)
BY DEF Failure, Answers, Fits

LEMMA ReadFits ==
  ASSUME NEW q \in Questions, NEW age \in 0 .. MaxCall
  PROVE  Read(q, age) \in Answers /\ Fits(Read(q, age), SpotOf[q], age)
<1>1. age \in Ages /\ age <= age
  BY DataAssumption DEF Ages, Oldest
<1>2. QED
  BY <1>1 DEF Read, Answers, Fits

\* What fits a bound fits a larger one.
LEMMA FitsMore ==
  ASSUME NEW a \in Answers, NEW spot, NEW m \in Int, NEW n \in Int, m <= n, Fits(a, spot, m)
  PROVE  Fits(a, spot, n)
<1>1. a.ok => a.age \in Int
  BY AnswerShape, Sizes
<1>2. QED
  BY <1>1 DEF Fits

LEMMA OlderFits ==
  ASSUME NEW a \in Answers, NEW spot, NEW n \in Int, Fits(a, spot, n)
  PROVE  Older(a) \in Answers /\ Fits(Older(a), spot, n + 1)
<1>1. CASE ~a.ok
  BY <1>1, AnswerShape DEF Older, Fits
<1>2. CASE a.ok
  <2>1. a \in Given /\ a # None
    BY <1>2, OkIsGiven, AnswerShape
  <2>2. CASE a.age > Oldest
    <3>1. Older(a) = a
      BY <2>2 DEF Older
    <3>2. QED
      BY <3>1, FitsMore
  <2>3. CASE ~(a.age > Oldest)
    <3>1. Older(a) = [a EXCEPT !.age = a.age + 1]
      BY <1>2, <2>1, <2>3 DEF Older
    <3>2. a.age + 1 \in Ages /\ a.age \in Int
      BY <2>1, <2>3, Sizes DEF Ages, Given
    <3>3. Older(a) \in Given /\ Older(a).of = a.of
          /\ Older(a).age = a.age + 1
      BY <2>1, <3>1, <3>2 DEF Given
    <3>4. SpotOf[a.of] = spot /\ a.age <= n
      BY <1>2 DEF Fits
    <3>5. Fits(Older(a), spot, n + 1)
      BY <3>2, <3>3, <3>4 DEF Fits
    <3>6. QED
      BY <3>3, <3>5 DEF Answers, Given
  <2>4. QED
    BY <2>2, <2>3
<1>3. QED
  BY <1>1, <1>2

LEMMA OlderType ==
  ASSUME NEW a \in Answers
  PROVE  Older(a) \in Answers
<1> DEFINE n == IF a.ok THEN a.age ELSE 0
<1>1. n \in Int /\ Fits(a, SpotOf[a.of], n)
  BY AnswerShape, Sizes DEF Fits
<1>2. QED
  BY <1>1, OlderFits

LEMMA EntryShape ==
  ASSUME NEW e \in Entries
  PROVE  /\ e # NoEntry => e.left \in 1 .. Window /\ e.answer \in Answers
         /\ NoEntry.left = 0 /\ NoEntry \in Entries
BY DEF Entries, NoEntry

\* A kept answer ages for a window ...
LEMMA KeepFits ==
  ASSUME NEW a \in Answers, NEW spot, NEW n \in Int, Fits(a, spot, n)
  PROVE  Keep(a) \in Entries /\ EntryFits(Keep(a), spot, n + Window)
<1>1. Window \in 1 .. Window /\ n + Window - Window = n
  BY Sizes
<1>2. Keep(a) \in Entries /\ Keep(a).answer = a /\ Keep(a).left = Window
  BY <1>1 DEF Keep, Entries
<1>3. QED
  BY <1>1, <1>2 DEF EntryFits

\* ... one tick at a time ...
LEMMA AgedFits ==
  ASSUME NEW e \in Entries, NEW spot, NEW n \in Int, EntryFits(e, spot, n)
  PROVE  Aged(e) \in Entries /\ EntryFits(Aged(e), spot, n)
<1>1. CASE e = NoEntry \/ e.left = 1
  <2>1. Aged(e) = NoEntry
    BY <1>1, EntryShape DEF Aged
  <2>2. QED
    BY <2>1, EntryShape DEF EntryFits
<1>2. CASE e # NoEntry /\ e.left # 1
  <2>1. e.left \in 2 .. Window /\ e.answer \in Answers /\ Fits(e.answer, spot, n - e.left)
    BY <1>2, EntryShape, Sizes DEF EntryFits
  <2> DEFINE l == e.left - 1
             a == Older(e.answer)
  <2>2. l \in 1 .. Window /\ l # 0 /\ n - e.left + 1 = n - l /\ n - e.left \in Int
    BY <2>1, Sizes
  <2>3. a \in Answers /\ Fits(a, spot, n - l)
    BY <2>1, <2>2, OlderFits
  <2>4. Aged(e) = [left |-> l, answer |-> a]
    BY <2>1, Sizes DEF Aged
  <2>5. Aged(e) \in Entries /\ Aged(e).left = l /\ Aged(e).answer = a
    BY <2>2, <2>3, <2>4 DEF Entries
  <2>6. QED
    BY <2>3, <2>5 DEF EntryFits
<1>3. QED
  BY <1>1, <1>2

\* ... and is at most one tick younger than when it goes when somebody takes it.
LEMMA TakenFits ==
  ASSUME NEW e \in Entries, e # NoEntry, NEW spot, NEW n \in Int, EntryFits(e, spot, n)
  PROVE  e.answer \in Answers /\ Fits(e.answer, spot, n - 1)
<1>1. e.left \in 1 .. Window /\ e.answer \in Answers /\ Fits(e.answer, spot, n - e.left)
  BY EntryShape DEF EntryFits
<1>2. n - e.left \in Int /\ n - 1 \in Int /\ n - e.left <= n - 1
  BY <1>1, Sizes
<1>3. QED
  BY <1>1, <1>2, FitsMore

-----------------------------------------------------------------------------
(* Calls *)

LEMMA DataFacts ==
  ASSUME DataInv
  PROVE  /\ edits \in 0 .. MaxEdits /\ stored \in [Spots -> Entries]
         /\ http \in [Questions -> Entries] /\ tab \in [Questions -> Entries]
         /\ calls \in [Questions -> CallRecords] /\ card \in CardRecords
         /\ \A q \in Questions : SpotOf[q] \in Spots
BY DataAssumption DEF DataInv, DataTypeOK, CallRecords, CardRecords

\* A call that moves on, while the caches and the card stay as they are.
LEMMA CallStepKeeps ==
  ASSUME DataInv, NEW q \in Questions, NEW r \in CallRecords, CallFits(r, q),
         calls' = [calls EXCEPT ![q] = r], UNCHANGED <<stored, http, tab, card, edits>>
  PROVE  DataInv'
<1>1. calls' \in [Questions -> CallRecords] /\ \A p \in Questions : CallFits(calls'[p], p)
  BY DataFacts DEF DataInv
<1>2. DataTypeOK'
  BY <1>1 DEF DataInv, DataTypeOK, CallRecords
<1>3. CachesFit' /\ CardFits(card')
  BY DEF DataInv, CachesFit
<1>4. QED
  BY <1>1, <1>2, <1>3 DEF DataInv

\* A call that the route answers: the browser keeps what is not a failure.
LEMMA SendsKeeps ==
  ASSUME DataInv, NEW q \in Questions, NEW a \in Answers, Fits(a, SpotOf[q], RedisGoes - 1),
         Sends(q, a), stored' \in [Spots -> Entries],
         \A s \in Spots : EntryFits(stored'[s], s, RedisGoes), UNCHANGED <<tab, card, edits>>
  PROVE  DataInv'
<1>1. calls \in [Questions -> CallRecords] /\ http \in [Questions -> Entries]
  BY DataFacts
<1> DEFINE r == [calls[q] EXCEPT !.stage = "answered", !.answer = a]
<1>2. r \in CallRecords /\ r.stage = "answered" /\ r.left = calls[q].left /\ r.answer = a
      /\ r.left \in 0 .. MaxCall
  BY <1>1 DEF CallRecords, Stages
<1>3. RedisGoes - 1 \in Int /\ CallEnds - r.left \in Int /\ RedisGoes - 1 <= CallEnds - r.left
  BY <1>2, Sizes
<1>4. CallFits(r, q)
  BY <1>2, <1>3, FitsMore DEF CallFits
<1>5. calls' \in [Questions -> CallRecords] /\ \A p \in Questions : CallFits(calls'[p], p)
  BY <1>1, <1>2, <1>4 DEF DataInv, Sends, Answer
<1>6. Keep(a) \in Entries /\ EntryFits(Keep(a), SpotOf[q], BrowserGoes)
  BY <1>3, Sizes, KeepFits
<1>7. http' \in [Questions -> Entries]
      /\ \A p \in Questions : EntryFits(http'[p], SpotOf[p], BrowserGoes)
  BY <1>1, <1>6 DEF Sends, DataInv, CachesFit
<1>8. DataTypeOK' /\ CachesFit' /\ CardFits(card')
  BY <1>5, <1>7 DEF DataInv, DataTypeOK, CachesFit, CallRecords
<1>9. QED
  BY <1>5, <1>8 DEF DataInv

LEMMA CacheGetKeeps ==
  ASSUME DataInv, NEW q \in Questions, CacheGet(q)
  PROVE  DataInv'
<1> DEFINE e == stored[SpotOf[q]]
<1>1. e \in Entries /\ EntryFits(e, SpotOf[q], RedisGoes) /\ RedisGoes \in Int
      /\ UNCHANGED <<stored, tab, card, edits>> /\ stored \in [Spots -> Entries]
      /\ \A s \in Spots : EntryFits(stored[s], s, RedisGoes)
  BY DataFacts, Sizes DEF DataInv, CachesFit, CacheGet
<1>2. CASE e # NoEntry
  <2>1. e.answer \in Answers /\ Fits(e.answer, SpotOf[q], RedisGoes - 1)
    BY <1>1, <1>2, TakenFits
  <2>2. Sends(q, e.answer)
    BY <1>2 DEF CacheGet
  <2>3. QED
    BY <1>1, <2>1, <2>2, SendsKeeps
<1>3. CASE e = NoEntry
  <2> DEFINE r == [calls[q] EXCEPT !.stage = "loading"]
  <2>1. r \in CallRecords /\ CallFits(r, q)
    BY DataFacts DEF CallRecords, Stages, CallFits
  <2>2. calls' = [calls EXCEPT ![q] = r] /\ UNCHANGED <<stored, http, tab, card, edits>>
    BY <1>3 DEF CacheGet
  <2>3. QED
    BY <2>1, <2>2, CallStepKeeps
<1>4. QED
  BY <1>2, <1>3

LEMMA CacheUnreachableKeeps ==
  ASSUME DataInv, NEW q \in Questions, CacheUnreachable(q)
  PROVE  DataInv'
<1> DEFINE r == [calls[q] EXCEPT !.stage = "loading"]
<1>1. r \in CallRecords /\ CallFits(r, q)
  BY DataFacts DEF CallRecords, Stages, CallFits
<1>2. calls' = [calls EXCEPT ![q] = r] /\ UNCHANGED <<stored, http, tab, card, edits>>
  BY DEF CacheUnreachable
<1>3. QED
  BY <1>1, <1>2, CallStepKeeps

\* A call answered with a failure.
LEMMA FailsKeeps ==
  ASSUME DataInv, NEW q \in Questions, calls' = [calls EXCEPT ![q] = Answer(q, Failure)],
         UNCHANGED <<stored, http, tab, card, edits>>
  PROVE  DataInv'
<1> DEFINE r == Answer(q, Failure)
<1>1. r \in CallRecords /\ r.stage = "answered" /\ r.answer = Failure
  BY DataFacts, FailureFits DEF CallRecords, Stages, Answer
<1>2. CallFits(r, q)
  BY <1>1, FailureFits DEF CallFits
<1>3. QED
  BY <1>1, <1>2, CallStepKeeps

LEMMA FetchUpstreamKeeps ==
  ASSUME DataInv, NEW q \in Questions, FetchUpstream(q)
  PROVE  DataInv'
<1> DEFINE r == [calls[q] EXCEPT !.stage = "read", !.answer = Read(q, 0)]
<1>1. CASE calls' = [calls EXCEPT ![q] = r]
  <2>1. calls[q] \in CallRecords /\ 0 \in 0 .. MaxCall
    BY DataFacts, Sizes
  <2>2. Read(q, 0) \in Answers /\ Fits(Read(q, 0), SpotOf[q], 0)
    BY <2>1, ReadFits
  <2>3. r \in CallRecords /\ r.stage = "read" /\ r.answer = Read(q, 0) /\ r.left \in 0 .. MaxCall
    BY <2>1, <2>2 DEF CallRecords, Stages
  <2>4. MaxCall - r.left \in Int /\ 0 <= MaxCall - r.left /\ 0 \in Int
    BY <2>3, Sizes
  <2>5. CallFits(r, q)
    BY <2>2, <2>3, <2>4, FitsMore DEF CallFits
  <2>6. QED
    BY <1>1, <2>3, <2>5, CallStepKeeps DEF FetchUpstream
<1>2. CASE calls' = [calls EXCEPT ![q] = Answer(q, Failure)]
  BY <1>2, FailsKeeps DEF FetchUpstream
<1>3. QED
  BY <1>1, <1>2 DEF FetchUpstream

\* What a call has read was read within it: Redis keeps it for a window from now.
LEMMA CacheSetKeeps ==
  ASSUME DataInv, NEW q \in Questions, CacheSet(q)
  PROVE  DataInv'
<1> DEFINE a == calls[q].answer
<1>1. calls[q] \in CallRecords /\ calls[q].stage = "read" /\ CallFits(calls[q], q)
      /\ stored \in [Spots -> Entries] /\ SpotOf[q] \in Spots
  BY DataFacts DEF DataInv, CacheSet
<1>2. a \in Answers /\ calls[q].left \in 0 .. MaxCall /\ Fits(a, SpotOf[q], MaxCall - calls[q].left)
  BY <1>1 DEF CallRecords, CallFits
<1>3. /\ MaxCall - calls[q].left \in Int /\ MaxCall \in Int /\ RedisGoes - 1 \in Int
      /\ MaxCall - calls[q].left <= MaxCall /\ MaxCall <= RedisGoes - 1
      /\ RedisGoes = MaxCall + Window
  BY <1>2, Sizes DEF RedisGoes
<1>4. Fits(a, SpotOf[q], MaxCall)
  BY <1>2, <1>3, FitsMore
<1>5. Fits(a, SpotOf[q], RedisGoes - 1)
  BY <1>2, <1>3, <1>4, FitsMore
<1>6. Keep(a) \in Entries /\ EntryFits(Keep(a), SpotOf[q], RedisGoes)
  BY <1>2, <1>3, <1>4, KeepFits
<1>7. stored' = stored \/ stored' = [stored EXCEPT ![SpotOf[q]] = Keep(a)]
  BY DEF CacheSet
<1>8. stored' \in [Spots -> Entries] /\ \A s \in Spots : EntryFits(stored'[s], s, RedisGoes)
  BY <1>1, <1>6, <1>7 DEF DataInv, CachesFit
<1>9. QED
  BY <1>2, <1>5, <1>8, SendsKeeps DEF CacheSet

LEMMA OtherUserKeeps ==
  ASSUME DataInv, NEW q \in Questions, NEW age \in 0 .. MaxCall, OtherUser(q, age)
  PROVE  DataInv'
<1> DEFINE a == Read(q, age)
<1>1. stored \in [Spots -> Entries] /\ SpotOf[q] \in Spots
  BY DataFacts
<1>2. age \in Int /\ MaxCall \in Int /\ age <= MaxCall /\ RedisGoes = MaxCall + Window
  BY Sizes DEF RedisGoes
<1>3. a \in Answers /\ Fits(a, SpotOf[q], age)
  BY ReadFits
<1>4. Fits(a, SpotOf[q], MaxCall)
  BY <1>2, <1>3, FitsMore
<1>5. Keep(a) \in Entries /\ EntryFits(Keep(a), SpotOf[q], RedisGoes)
  BY <1>2, <1>3, <1>4, KeepFits
<1>6. stored' \in [Spots -> Entries] /\ \A s \in Spots : EntryFits(stored'[s], s, RedisGoes)
  BY <1>1, <1>5 DEF DataInv, CachesFit, OtherUser
<1>7. QED
  BY <1>6 DEF OtherUser, DataInv, DataTypeOK, CachesFit

-----------------------------------------------------------------------------
(* The card *)

IdleCallFits == Idle \in CallRecords /\ \A q : CallFits(Idle, q)

LEMMA IdleFits == IdleCallFits
<1>1. 0 \in 0 .. MaxCall /\ Failure \in Answers
  BY Sizes, FailureFits
<1>2. QED
  BY <1>1 DEF IdleCallFits, Idle, CallRecords, Stages, CallFits

\* A call that starts carries nothing, or the browser's own entry.
LEMMA AskedFits ==
  ASSUME DataInv, NEW q \in Questions
  PROVE  Asked(q) \in CallRecords /\ CallFits(Asked(q), q)
<1>1. MaxCall \in 0 .. MaxCall /\ BrowserGoes \in Int /\ BrowserGoes - 1 = CallEnds - MaxCall
  BY Sizes
<1>2. CASE http[q] # NoEntry
  <2> DEFINE a == http[q].answer
  <2>1. http[q] \in Entries /\ EntryFits(http[q], SpotOf[q], BrowserGoes)
    BY DataFacts DEF DataInv, CachesFit
  <2>2. a \in Answers /\ Fits(a, SpotOf[q], CallEnds - MaxCall)
    BY <1>1, <1>2, <2>1, TakenFits
  <2>3. Asked(q) = [stage |-> "answered", left |-> MaxCall, answer |-> a]
    BY <1>2 DEF Asked
  <2>4. Asked(q) \in CallRecords /\ Asked(q).stage = "answered" /\ Asked(q).left = MaxCall
        /\ Asked(q).answer = a
    BY <1>1, <2>2, <2>3 DEF CallRecords, Stages
  <2>5. QED
    BY <2>2, <2>4 DEF CallFits
<1>3. CASE http[q] = NoEntry
  <2>1. Idle \in CallRecords
    BY IdleFits DEF IdleCallFits
  <2>2. PICK r \in CallRecords : r = Idle
    BY <2>1
  <2>3. Asked(q) = [r EXCEPT !.stage = "asked", !.left = MaxCall]
    BY <1>3, <2>2 DEF Asked
  <2>4. Asked(q) \in CallRecords /\ Asked(q).stage = "asked"
    BY <1>1, <2>2, <2>3 DEF CallRecords, Stages
  <2>5. QED
    BY <2>4 DEF CallFits
<1>4. QED
  BY <1>2, <1>3

CallsFit == calls \in [Questions -> CallRecords] /\ \A q \in Questions : CallFits(calls[q], q)

LEMMA FetchFits ==
  ASSUME DataInv, NEW q \in Questions, FetchWidgetData(q)
  PROVE  CallsFit'
BY DataFacts, AskedFits DEF FetchWidgetData, CallsFit, DataInv

\* A step of the card and of calls that start, over the caches as they are.
LEMMA CardStepKeeps ==
  ASSUME DataInv, CallsFit', card' \in CardRecords, CardFits(card'), edits' \in 0 .. MaxEdits,
         UNCHANGED <<stored, http>>, tab' \in [Questions -> Entries],
         \A q \in Questions : EntryFits(tab'[q], SpotOf[q], TabGoes)
  PROVE  DataInv'
BY DEF DataInv, DataTypeOK, CachesFit, CallsFit, CallRecords, CardRecords

\* A load that finds an answer in the tab shows it, at the start of an interval.
LEMMA LoadingFits ==
  ASSUME DataInv, NEW c \in CardRecords, NEW q \in Questions, c.asks = q, c.timer = Window,
         \A l \in c.loads : l.live => l.of = q
  PROVE  Loading(c, q) \in CardRecords /\ CardFits(Loading(c, q))
<1>1. CASE Hit(q)
  <2> DEFINE a == tab[q].answer
             r == [c EXCEPT !.result = a]
  <2>1. tab[q] \in Entries /\ EntryFits(tab[q], SpotOf[q], TabGoes) /\ tab[q] # NoEntry
        /\ TabGoes \in Int /\ TabGoes - 1 = Oldest - Window
    BY <1>1, DataFacts, Sizes DEF DataInv, CachesFit, Hit
  <2>2. a \in Answers /\ Fits(a, SpotOf[q], Oldest - Window) /\ a # None
    BY <2>1, TakenFits, AnswerShape
  <2>3. Loading(c, q) = r
    BY <1>1 DEF Loading
  <2>4. r \in CardRecords /\ r.asks = q /\ r.timer = Window /\ r.loads = c.loads /\ r.result = a
    BY <2>2 DEF CardRecords
  <2>5. QED
    BY <2>2, <2>3, <2>4 DEF CardFits
<1>2. CASE ~Hit(q)
  <2> DEFINE new == [of |-> q, live |-> TRUE]
             r == [c EXCEPT !.loads = c.loads \cup {new}]
  <2>1. Loading(c, q) = r
    BY <1>2 DEF Loading
  <2>2. new \in [of : Questions, live : BOOLEAN] /\ new.of = q
    OBVIOUS
  <2>3. c.loads \cup {new} \in SUBSET [of : Questions, live : BOOLEAN]
    BY <2>2 DEF CardRecords
  <2>4. r \in CardRecords /\ r.asks = q /\ r.loads = c.loads \cup {new}
    BY <2>3 DEF CardRecords
  <2>5. \A l \in r.loads : l.live => l.of = q
    BY <2>2, <2>4
  <2>6. QED
    BY <2>1, <2>4, <2>5 DEF CardFits
<1>3. QED
  BY <1>1, <1>2

\* After the cleanup no load is live.
LEMMA TornDownFits ==
  ASSUME NEW c \in CardRecords
  PROVE  /\ TornDown(c) \in CardRecords /\ \A l \in TornDown(c).loads : ~l.live
         /\ TornDown(c).asks = c.asks
<1> DEFINE dead == {[l EXCEPT !.live = FALSE] : l \in c.loads}
           r == [c EXCEPT !.loads = dead, !.timer = 0]
<1>1. 0 \in 0 .. Window /\ c.loads \subseteq [of : Questions, live : BOOLEAN]
  BY Sizes DEF CardRecords
<1>2. \A l \in [of : Questions, live : BOOLEAN] :
          [l EXCEPT !.live = FALSE] \in [of : Questions, live : BOOLEAN]
          /\ ~[l EXCEPT !.live = FALSE].live
  OBVIOUS
<1>3. dead \in SUBSET [of : Questions, live : BOOLEAN] /\ \A l \in dead : ~l.live
  BY <1>1, <1>2
<1>4. r \in CardRecords /\ r.loads = dead /\ r.asks = c.asks
  BY <1>1, <1>3 DEF CardRecords
<1>5. TornDown(c) = r
  BY DEF TornDown
<1>6. QED
  BY <1>3, <1>4, <1>5

LEMMA EditKeeps ==
  ASSUME DataInv, NEW q \in Questions \cup {None}, Edit(q)
  PROVE  DataInv'
<1>1. edits' \in 0 .. MaxEdits /\ UNCHANGED <<stored, http, tab>> /\ SetUp(q)
  BY DataFacts, Sizes DEF Edit
<1>2. \A p \in Questions : EntryFits(tab'[p], SpotOf[p], TabGoes)
  BY <1>1 DEF DataInv, CachesFit
<1>3. PICK t \in CardRecords : t = TornDown(card) /\ \A l \in t.loads : ~l.live
  BY DataFacts, TornDownFits
<1> DEFINE torn == [t EXCEPT !.asks = q]
<1>4. torn \in CardRecords /\ torn.asks = q /\ torn.loads = t.loads
  BY <1>3 DEF CardRecords
<1>5. CASE q = None
  <2>1. card' = torn /\ UNCHANGED calls
    BY <1>1, <1>3, <1>5 DEF SetUp
  <2>2. CardFits(card') /\ CallsFit'
    BY <1>3, <1>4, <1>5, <2>1, DataFacts DEF CardFits, CallsFit, DataInv
  <2>3. QED
    BY <1>1, <1>2, <1>4, <2>1, <2>2, DataFacts, CardStepKeeps
<1>6. CASE q # None
  <2> DEFINE c == [torn EXCEPT !.timer = Window]
  <2>1. card' = Loading(c, q) /\ FetchWidgetData(q)
    BY <1>1, <1>3, <1>6 DEF SetUp
  <2>2. Window \in 0 .. Window /\ q \in Questions
    BY <1>6, Sizes
  <2>3. c \in CardRecords /\ c.asks = q /\ c.timer = Window /\ c.loads = t.loads
    BY <1>4, <2>2 DEF CardRecords
  <2>4. card' \in CardRecords /\ CardFits(card')
    BY <1>3, <2>1, <2>2, <2>3, LoadingFits
  <2>5. CallsFit'
    BY <2>1, <2>2, FetchFits
  <2>6. QED
    BY <1>1, <1>2, <2>4, <2>5, DataFacts, CardStepKeeps
<1>7. QED
  BY <1>5, <1>6

LEMMA ReloadKeeps ==
  ASSUME DataInv, Reload
  PROVE  DataInv'
<1> DEFINE q == card.asks
           ls == {[of |-> q, live |-> TRUE]}
           r == [card EXCEPT !.timer = Window, !.result = None, !.loads = ls]
<1>1. card \in CardRecords /\ q # None /\ q \in Questions /\ Window \in 0 .. Window
  BY DataFacts, Sizes DEF Reload, CardRecords
<1>2. [of |-> q, live |-> TRUE] \in [of : Questions, live : BOOLEAN]
  BY <1>1
<1>3. ls \in SUBSET [of : Questions, live : BOOLEAN] /\ \A l \in ls : l.of = q
  BY <1>2
<1>4. r \in CardRecords /\ r.asks = q /\ r.loads = ls
  BY <1>1, <1>3 DEF CardRecords
<1>5. CardFits(r)
  BY <1>3, <1>4 DEF CardFits
<1>6. tab' \in [Questions -> Entries] /\ \A p \in Questions : EntryFits(tab'[p], SpotOf[p], TabGoes)
  BY EntryShape DEF Reload, EntryFits, Entries
<1>7. \A p \in Questions : Asked(p) \in CallRecords /\ CallFits(Asked(p), p)
  BY AskedFits
<1>8. CallsFit'
  BY <1>7, IdleFits DEF IdleCallFits, CallsFit, Reload
<1>9. edits' \in 0 .. MaxEdits
  BY DataFacts, Sizes DEF Reload
<1>10. QED
  BY <1>4, <1>5, <1>6, <1>8, <1>9, CardStepKeeps DEF Reload

LEMMA IntervalKeeps ==
  ASSUME DataInv, Interval
  PROVE  DataInv'
<1> DEFINE q == card.asks
           c == [card EXCEPT !.timer = Window]
<1>1. card \in CardRecords /\ q \in Questions /\ Window \in 0 .. Window
  BY DataFacts, Sizes DEF Interval, CardRecords
<1>2. c \in CardRecords /\ c.asks = q /\ c.timer = Window /\ c.loads = card.loads
  BY <1>1 DEF CardRecords
<1>3. card' = Loading(c, q) /\ FetchWidgetData(q) /\ UNCHANGED <<stored, http, tab, edits>>
  BY DEF Interval
<1>4. card' \in CardRecords /\ CardFits(card')
  BY <1>1, <1>2, <1>3, LoadingFits DEF DataInv, CardFits
<1>5. CallsFit'
  BY <1>1, <1>3, FetchFits
<1>6. QED
  BY <1>3, <1>4, <1>5, DataFacts, CardStepKeeps DEF DataInv, CachesFit

LEMMA OtherCardKeeps ==
  ASSUME DataInv, NEW q \in Questions, OtherCard(q)
  PROVE  DataInv'
<1>1. CallsFit'
  BY FetchFits DEF OtherCard
<1>2. card' \in CardRecords /\ CardFits(card') /\ UNCHANGED <<stored, http, tab, edits>>
  BY DataFacts DEF OtherCard, DataInv
<1>3. QED
  BY <1>1, <1>2, DataFacts, CardStepKeeps DEF DataInv, CachesFit

\* An answer that arrives is the tab's for a window, and the card's when its load
\* is live, which makes it one to what the card asks.
LEMMA ArriveKeeps ==
  ASSUME DataInv, NEW q \in Questions, Arrive(q)
  PROVE  DataInv'
<1>1. PICK a \in {calls[q].answer} \cup {Failure} :
        /\ calls[q].stage = "answered"
        /\ calls' = [calls EXCEPT ![q] = Idle]
        /\ tab' = [tab EXCEPT ![q] = Keep(a)]
        /\ card' = [card EXCEPT !.result = IF Awaited(q) THEN a ELSE card.result,
                                !.loads = {l \in card.loads : l.of # q}]
        /\ UNCHANGED <<outages, stored, http, edits>>
  BY DEF Arrive
<1>2. calls[q] \in CallRecords /\ CallFits(calls[q], q) /\ card \in CardRecords
      /\ tab \in [Questions -> Entries] /\ CallEnds \in Int
  BY DataFacts, Sizes DEF DataInv
<1>3. a \in Answers /\ Fits(a, SpotOf[q], CallEnds) /\ a # None
  <2>1. calls[q].answer \in Answers /\ Fits(calls[q].answer, SpotOf[q], CallEnds - calls[q].left)
        /\ calls[q].left \in 0 .. MaxCall
    BY <1>1, <1>2 DEF CallFits, CallRecords
  <2>2. CallEnds - calls[q].left \in Int /\ CallEnds - calls[q].left <= CallEnds
    BY <1>2, <2>1
  <2>3. Fits(calls[q].answer, SpotOf[q], CallEnds)
    BY <1>2, <2>1, <2>2, FitsMore
  <2>4. QED
    BY <2>1, <2>3, FailureFits, AnswerShape
<1>4. Keep(a) \in Entries /\ EntryFits(Keep(a), SpotOf[q], TabGoes)
  <2>1. TabGoes = CallEnds + Window
    BY DEF TabGoes
  <2>2. QED
    BY <1>2, <1>3, <2>1, KeepFits
<1>5. tab' \in [Questions -> Entries] /\ \A p \in Questions : EntryFits(tab'[p], SpotOf[p], TabGoes)
  BY <1>1, <1>2, <1>4 DEF DataInv, CachesFit
<1>6. CallsFit'
  BY <1>1, DataFacts, IdleFits DEF IdleCallFits, CallsFit, DataInv
<1> DEFINE ls == {l \in card.loads : l.of # q}
           res == IF Awaited(q) THEN a ELSE card.result
           r == [card EXCEPT !.result = res, !.loads = ls]
<1>7. res \in Answers \cup {None} /\ ls \in SUBSET [of : Questions, live : BOOLEAN]
  BY <1>2, <1>3 DEF CardRecords
<1>8. r \in CardRecords /\ r.asks = card.asks /\ r.timer = card.timer /\ r.loads = ls
      /\ r.result = res
  BY <1>2, <1>7 DEF CardRecords
<1>9. CardFits(r)
  <2>1. \A l \in r.loads : l.live => l.of = r.asks
    BY <1>8 DEF DataInv, CardFits
  <2>2. ASSUME r.asks # None, [of |-> r.asks, live |-> TRUE] \notin r.loads
        PROVE  r.result # None /\ Fits(r.result, SpotOf[r.asks], Oldest - r.timer)
    <3>1. CASE Awaited(q)
      <4>1. [of |-> q, live |-> TRUE].live /\ [of |-> q, live |-> TRUE].of = q
        OBVIOUS
      <4>2. q = card.asks
        BY <3>1, <4>1 DEF Awaited, DataInv, CardFits
      <4>3. card.timer \in 0 .. Window
        BY <1>2 DEF CardRecords
      <4>4. Oldest - card.timer \in Int /\ CallEnds <= Oldest - card.timer
        BY <4>3, Sizes DEF TabGoes
      <4>5. Fits(a, SpotOf[q], Oldest - card.timer)
        BY <1>2, <1>3, <4>4, FitsMore
      <4>6. QED
        BY <1>3, <1>8, <3>1, <4>2, <4>5
    <3>2. CASE ~Awaited(q)
      <4>1. [of |-> card.asks, live |-> TRUE] \notin card.loads
        <5>1. [of |-> card.asks, live |-> TRUE].of = card.asks
          OBVIOUS
        <5>2. QED
          BY <1>8, <2>2, <3>2, <5>1 DEF Awaited
      <4>2. QED
        BY <1>8, <2>2, <3>2, <4>1 DEF DataInv, CardFits
    <3>3. QED
      BY <3>1, <3>2
  <2>3. QED
    BY <2>1, <2>2 DEF CardFits
<1>10. card' = r
  BY <1>1
<1>11. QED
  BY <1>1, <1>5, <1>6, <1>8, <1>9, <1>10, DataFacts, CardStepKeeps

-----------------------------------------------------------------------------
(* Time *)

LEMMA TickKeeps ==
  ASSUME DataInv, Tick
  PROVE  DataInv'
<1>1. /\ stored \in [Spots -> Entries] /\ http \in [Questions -> Entries]
      /\ tab \in [Questions -> Entries] /\ calls \in [Questions -> CallRecords]
      /\ card \in CardRecords /\ edits \in 0 .. MaxEdits
  BY DataFacts
<1>2. RedisGoes \in Int /\ BrowserGoes \in Int /\ TabGoes \in Int
  BY Sizes
<1>3. stored' \in [Spots -> Entries] /\ \A s \in Spots : EntryFits(stored'[s], s, RedisGoes)
  BY <1>1, <1>2, AgedFits DEF DataInv, CachesFit, Tick
<1>4. http' \in [Questions -> Entries]
      /\ \A q \in Questions : EntryFits(http'[q], SpotOf[q], BrowserGoes)
  BY <1>1, <1>2, AgedFits DEF DataInv, CachesFit, Tick
<1>5. tab' \in [Questions -> Entries] /\ \A q \in Questions : EntryFits(tab'[q], SpotOf[q], TabGoes)
  BY <1>1, <1>2, AgedFits DEF DataInv, CachesFit, Tick
<1>6. ASSUME NEW q \in Questions
      PROVE  calls'[q] \in CallRecords /\ CallFits(calls'[q], q)
  <2>1. calls[q] \in CallRecords /\ CallFits(calls[q], q)
    BY <1>1 DEF DataInv
  <2>2. CASE calls[q].stage = "idle"
    BY <2>2, IdleFits DEF IdleCallFits, Tick
  <2>3. CASE calls[q].stage # "idle"
    <3> DEFINE l == calls[q].left - 1
               a == Older(calls[q].answer)
               r == [calls[q] EXCEPT !.left = l, !.answer = a]
    <3>1. calls[q].left \in 0 .. MaxCall /\ calls[q].left > 0 /\ l \in 0 .. MaxCall
          /\ calls[q].answer \in Answers
      <4>1. calls[q].left > 0
        BY <2>3 DEF Tick
      <4>2. calls[q].left \in 0 .. MaxCall /\ calls[q].answer \in Answers
        BY <2>1 DEF CallRecords
      <4>3. QED
        BY <4>1, <4>2, Sizes
    <3>2. a \in Answers
      BY <3>1, OlderType
    <3>3. r \in CallRecords /\ r.stage = calls[q].stage /\ r.left = l /\ r.answer = a
      BY <2>1, <3>1, <3>2 DEF CallRecords
    <3>4. calls'[q] = r
      BY <2>3 DEF Tick
    <3>5. /\ MaxCall - calls[q].left \in Int /\ MaxCall - calls[q].left + 1 = MaxCall - l
          /\ CallEnds - calls[q].left \in Int /\ CallEnds - calls[q].left + 1 = CallEnds - l
      BY <3>1, Sizes
    <3>6. r.stage = "read" => Fits(a, SpotOf[q], MaxCall - l)
      BY <2>1, <3>1, <3>3, <3>5, OlderFits DEF CallFits
    <3>7. r.stage = "answered" => Fits(a, SpotOf[q], CallEnds - l)
      BY <2>1, <3>1, <3>3, <3>5, OlderFits DEF CallFits
    <3>8. CallFits(r, q)
      BY <3>3, <3>6, <3>7 DEF CallFits
    <3>9. QED
      BY <3>3, <3>4, <3>8
  <2>4. QED
    BY <2>2, <2>3
<1>7. CallsFit'
  <2>1. calls' \in [Questions -> CallRecords]
    <3>1. DOMAIN calls' = Questions /\ calls' = [q \in Questions |-> calls'[q]]
      BY DEF Tick
    <3>2. QED
      BY <1>6, <3>1
  <2>2. QED
    BY <1>6, <2>1 DEF CallsFit
<1> DEFINE t == IF card.asks = None THEN 0 ELSE card.timer - 1
           res == Older(card.result)
           r == [card EXCEPT !.timer = t, !.result = res]
<1>8. t \in 0 .. Window /\ card.timer \in 0 .. Window /\ (card.asks # None => t = card.timer - 1)
  <2>1. card.asks # None => card.timer > 0
    BY DEF Tick
  <2>2. card.timer \in 0 .. Window
    BY <1>1 DEF CardRecords
  <2>3. QED
    BY <2>1, <2>2, Sizes
<1>9. res \in Answers \cup {None}
  <2>1. CASE card.result = None
    BY <2>1 DEF Older
  <2>2. CASE card.result # None
    <3>1. card.result \in Answers
      BY <1>1, <2>2 DEF CardRecords
    <3>2. QED
      BY <3>1, OlderType
  <2>3. QED
    BY <2>1, <2>2
<1>10. r \in CardRecords /\ r.asks = card.asks /\ r.timer = t /\ r.loads = card.loads
       /\ r.result = res
  BY <1>1, <1>8, <1>9 DEF CardRecords
<1>11. CardFits(r)
  <2>1. ASSUME r.asks # None, [of |-> r.asks, live |-> TRUE] \notin r.loads
        PROVE  r.result # None /\ Fits(r.result, SpotOf[r.asks], Oldest - r.timer)
    <3>1. card.result # None /\ Fits(card.result, SpotOf[card.asks], Oldest - card.timer)
      BY <1>10, <2>1 DEF DataInv, CardFits
    <3>2. card.result \in Answers
      BY <1>1, <3>1 DEF CardRecords
    <3>3. Oldest - card.timer \in Int /\ Oldest - card.timer + 1 = Oldest - t
      BY <1>8, <1>10, <2>1, Sizes
    <3>4. res \in Answers /\ Fits(res, SpotOf[card.asks], Oldest - t)
      BY <3>1, <3>2, <3>3, OlderFits
    <3>5. QED
      BY <1>10, <3>4, AnswerShape
  <2>2. QED
    BY <1>10, <2>1 DEF DataInv, CardFits
<1>12. card' = r
  BY DEF Tick
<1>13. QED
  BY <1>1, <1>3, <1>4, <1>5, <1>7, <1>10, <1>11, <1>12
     DEF DataInv, DataTypeOK, CachesFit, CallsFit, CallRecords, CardRecords, Tick

-----------------------------------------------------------------------------
(* Every step of the card *)

LEMMA DataInitInv == DataInit => DataInv
<1> SUFFICES ASSUME DataInit
             PROVE  DataInv
  OBVIOUS
<1>1. NoEntry \in Entries /\ \A spot, n : EntryFits(NoEntry, spot, n)
  BY DEF Entries, EntryFits
<1>2. Idle \in CallRecords /\ \A q : CallFits(Idle, q)
  BY IdleFits DEF IdleCallFits
<1>3. card \in CardRecords /\ CardFits(card)
  <2>1. 0 \in 0 .. Window
    BY Sizes
  <2>2. QED
    BY <2>1 DEF DataInit, CardRecords, CardFits
<1>4. edits \in 0 .. MaxEdits
  BY Sizes DEF DataInit
<1>5. CachesFit
  BY <1>1 DEF DataInit, CachesFit
<1>6. DataTypeOK
  BY <1>1, <1>2, <1>3, <1>4 DEF DataInit, DataTypeOK, CallRecords, CardRecords
<1>7. \A q \in Questions : CallFits(calls[q], q)
  BY <1>2 DEF DataInit
<1>8. QED
  BY <1>3, <1>5, <1>6, <1>7 DEF DataInv

LEMMA DataUntouched ==
  ASSUME DataInv, UNCHANGED dataVars
  PROVE  DataInv'
BY DEF dataVars, DataInv, DataTypeOK, CachesFit

LEMMA DataNextInv == DataInv /\ [Next]_vars => DataInv'
<1> SUFFICES ASSUME DataInv, [Next]_vars
             PROVE  DataInv'
  OBVIOUS
<1>1. CASE DataNext
  <2>1. ASSUME NEW q \in Questions, Call(q)
        PROVE  DataInv'
    <3>1. CASE GeocodeFails(q)
      BY <3>1, FailsKeeps DEF GeocodeFails
    <3>2. QED
      BY <2>1, <3>1, CacheGetKeeps, CacheUnreachableKeeps, FetchUpstreamKeeps, CacheSetKeeps,
         ArriveKeeps DEF Call
  <2>2. ASSUME NEW q \in Shared, OtherCard(q) \/ \E age \in 0 .. MaxCall : OtherUser(q, age)
        PROVE  DataInv'
    BY <2>2, DataAssumption, OtherCardKeeps, OtherUserKeeps
  <2>3. QED
    BY <1>1, <2>1, <2>2, EditKeeps, ReloadKeeps, IntervalKeeps, TickKeeps DEF DataNext
<1>2. CASE UNCHANGED dataVars
  BY <1>2, DataUntouched
<1>3. QED
  BY <1>1, <1>2 DEF Next, Outage, vars

\* A card that waits for nothing shows an answer to what it asks now, and the
\* windows of the caches on its way add up to the most it can be old: every cache
\* counts an answer's time on (widget-data-cache.ts, the route's cache-control,
\* renderers/widget-data.ts).
THEOREM CardsAreSound == Spec => []CardSound
<1>1. DataInv => CardSound
  <2> SUFFICES ASSUME DataInv, Settled
               PROVE  /\ card.result # None
                      /\ card.result.ok => /\ SpotOf[card.result.of] = SpotOf[card.asks]
                                           /\ card.result.age <= Oldest
    BY DEF CardSound, ShowsWhatItAsks, NothingStale
  <2>1. card.result # None /\ Fits(card.result, SpotOf[card.asks], Oldest - card.timer)
    BY DEF DataInv, CardFits, Settled, Awaited
  <2>2. card.result \in Answers /\ card.timer \in 0 .. Window
    BY <2>1, DataFacts DEF CardRecords
  <2>3. Oldest - card.timer \in Int /\ Oldest \in Int /\ Oldest - card.timer <= Oldest
    BY <2>2, Sizes
  <2>4. Fits(card.result, SpotOf[card.asks], Oldest)
    BY <2>1, <2>2, <2>3, FitsMore
  <2>5. QED
    BY <2>1, <2>4 DEF Fits
<1>2. Init => DataInv
  BY DataInitInv DEF Init
<1>3. QED
  BY <1>1, <1>2, DataNextInv, PTL DEF Spec

-----------------------------------------------------------------------------
(* The refresh lock *)

\* While Redis has always answered: a claim is held under a lock, alone, and is
\* the one poll the lock lets through.
ClaimsInv ==
  /\ troubles \in Nat /\ (trouble => troubles > 0)
  /\ lock \in Nat /\ enqueued \in 0 .. 2 /\ DOMAIN clicks = Clicks
  /\ troubles = 0 =>
       /\ enqueued <= 1
       /\ \A c \in Clicks : clicks[c] = "claimed" => lock > 0 /\ enqueued = 0
       /\ \A c, d \in Clicks : clicks[c] = "claimed" /\ clicks[d] = "claimed" => c = d

LEMMA ClaimsNextInv == ClaimsInv /\ [Next]_vars => ClaimsInv'
<1> SUFFICES ASSUME ClaimsInv, [Next]_vars
             PROVE  ClaimsInv'
  OBVIOUS
<1>1. ASSUME NEW c \in Clicks, Refresh(c)
      PROVE  ClaimsInv'
  <2>1. CASE lock = 0 /\ lock' = LockTicks /\ enqueued' = 0 /\ clicks' = [clicks EXCEPT ![c] = "claimed"]
    BY <1>1, <2>1, SnapshotAssumption DEF ClaimsInv, Refresh, outages
  <2>2. CASE clicks' = [clicks EXCEPT ![c] = "429"] /\ UNCHANGED <<lock, enqueued>>
    BY <1>1, <2>2 DEF ClaimsInv, Refresh, outages
  <2>3. CASE trouble /\ clicks' = [clicks EXCEPT ![c] = "claimed"] /\ UNCHANGED <<lock, enqueued>>
    BY <1>1, <2>3 DEF ClaimsInv, Refresh, outages
  <2>4. QED
    BY <1>1, <2>1, <2>2, <2>3 DEF Refresh
<1>2. ASSUME NEW c \in Clicks, Enqueue(c)
      PROVE  ClaimsInv'
  <2>1. enqueued' \in 0 .. 2 /\ (enqueued = 0 => enqueued' <= 1)
    BY <1>2 DEF ClaimsInv, Enqueue, Smaller
  <2>2. clicks[c] = "claimed" /\ UNCHANGED <<outages, lock>> /\ DOMAIN clicks' = Clicks
        /\ \A d \in Clicks : clicks'[d] = "claimed" => clicks[d] = "claimed" /\ d # c
    BY <1>2 DEF ClaimsInv, Enqueue
  <2>3. QED
    BY <2>1, <2>2 DEF ClaimsInv, outages
<1>3. ASSUME NEW c \in Clicks, Answered(c)
      PROVE  ClaimsInv'
  BY <1>3 DEF ClaimsInv, Answered, outages
<1>4. CASE SnapshotTick
  <2>1. lock' \in Nat /\ UNCHANGED <<outages, clicks, enqueued>>
    BY <1>4 DEF ClaimsInv, SnapshotTick, Less
  <2>2. troubles = 0 => \A c \in Clicks : clicks[c] # "claimed"
    BY <1>4 DEF ClaimsInv, SnapshotTick
  <2>3. QED
    BY <2>1, <2>2 DEF ClaimsInv, outages
<1>5. CASE StartPurge \/ PurgeBatch \/ PurgeStops \/ (\E outcome \in Outcomes : Poll(outcome))
           \/ (\E r \in Retentions : ChangeRetention(r)) \/ UNCHANGED <<outages, snapshotVars>>
  <2>1. UNCHANGED <<trouble, troubles, lock, clicks, enqueued>>
    BY <1>5 DEF StartPurge, PurgeBatch, PurgeStops, Poll, ChangeRetention, outages, snapshotVars
  <2>2. QED
    BY <2>1 DEF ClaimsInv
<1>6. CASE Outage
  BY <1>6 DEF Outage, Break, Mend, snapshotVars, ClaimsInv
<1>7. CASE DataNext /\ UNCHANGED snapshotVars
  <2>1. UNCHANGED outages
    BY <1>7 DEF DataNext, Edit, Reload, Interval, Tick, Call, CacheGet, CacheUnreachable,
        GeocodeFails, FetchUpstream, CacheSet, Arrive, OtherCard, OtherUser
  <2>2. QED
    BY <1>7, <2>1 DEF ClaimsInv, outages, snapshotVars
<1>8. QED
  BY <1>1, <1>2, <1>3, <1>4, <1>5, <1>6, <1>7 DEF Next, RowsNext, RefreshNext, vars

\* While Redis answers one lock lets one poll be enqueued, however many requests
\* arrive at once (refresh-lock.ts, SET NX EX before the enqueue).
THEOREM OneLockOnePoll == Spec => []OncePerLock
<1>1. Init => ClaimsInv
  BY DEF Init, OutagesInit, SnapshotInit, ClaimsInv
<1>2. ClaimsInv => OncePerLock
  BY DEF ClaimsInv, OncePerLock
<1>3. QED
  BY <1>1, <1>2, ClaimsNextInv, PTL DEF Spec


-----------------------------------------------------------------------------
(* The rows and the purge *)

LEMMA LongestIs ==
  /\ Longest \in Retentions /\ Longest \in Nat
  /\ \A r \in Retentions : r \in Nat /\ r <= Longest
BY SnapshotAssumption DEF Longest

LEMMA RowAge ==
  ASSUME NEW row \in Rows
  PROVE  /\ row.age \in Nat /\ row.age <= Longest + 1 /\ row.outcome \in Outcomes
         /\ row.age <= Longest => [row EXCEPT !.age = @ + 1] \in Rows
<1>1. Longest \in Nat /\ row.age \in 0..Longest + 1
  BY LongestIs DEF Rows
<1>2. row.outcome \in Outcomes
  BY DEF Rows
<1>3. ASSUME row.age <= Longest
      PROVE  [row EXCEPT !.age = row.age + 1] \in Rows
  <2>1. row.age + 1 \in 0..Longest + 1
    BY <1>1, <1>3
  <2>2. QED
    BY <2>1 DEF Rows
<1>4. QED
  BY <1>1, <1>2, <1>3

LEMMA RowsInitInv == SnapshotInit => SnapshotTypeOK
<1> SUFFICES ASSUME SnapshotInit
             PROVE  SnapshotTypeOK
  OBVIOUS
<1>1. rows \in Seq(Rows) /\ Len(rows) <= MaxRows
  BY SnapshotAssumption DEF SnapshotInit
<1>2. retention \in Retentions
  BY LongestIs DEF SnapshotInit
<1>3. batches \in 0..MaxBatches - 1 \cup {Resting} /\ untilPurge \in 0..PurgeEvery
      /\ lock \in 0..LockTicks /\ enqueued \in 0..2
  BY SnapshotAssumption DEF SnapshotInit
<1>4. polled \in BOOLEAN /\ clicks \in [Clicks -> {"idle", "claimed", "202", "429", "503"}]
  BY DEF SnapshotInit
<1>5. QED
  BY <1>1, <1>2, <1>3, <1>4 DEF SnapshotTypeOK

LEMMA IncreasingIsInjective ==
  ASSUME NEW n \in Nat, NEW S \in SUBSET Nat, NEW kept \in [1..n -> S],
         \A i, j \in 1..n : i < j => kept[i] < kept[j]
  PROVE  /\ kept \in Injection(1..n, S)
         /\ \A i, j \in 1..n : kept[i] = kept[j] => i = j
<1>1. \A i, j \in 1..n : kept[i] = kept[j] => i = j
  <2> SUFFICES ASSUME NEW i \in 1..n, NEW j \in 1..n, i # j
               PROVE  kept[i] # kept[j]
    OBVIOUS
  <2>1. kept[i] \in Nat /\ kept[j] \in Nat
    OBVIOUS
  <2>2. CASE i < j
    <3>1. kept[i] < kept[j]
      BY <2>2
    <3>2. QED
      BY <2>1, <3>1
  <2>3. CASE j < i
    <3>1. kept[j] < kept[i]
      BY <2>3
    <3>2. QED
      BY <2>1, <3>1
  <2>4. QED
    BY <2>2, <2>3
<1>2. QED
  BY <1>1, Fun_IsInj

\* What a delete leaves: n rows, those in the places that stay, each once and in
\* their order.
Leaves(stay, n) ==
  \E kept \in [1..n -> stay] :
    /\ \A i, j \in 1..n : i < j => kept[i] < kept[j]
    /\ \A i, j \in 1..n : kept[i] = kept[j] => i = j
    /\ \A i \in stay : \E k \in 1..n : kept[k] = i
    /\ rows' = [k \in 1..n |-> rows[kept[k]]]

LEMMA DeleteIs ==
  ASSUME rows \in Seq(Rows), NEW gone \in SUBSET DOMAIN rows, Delete(gone)
  PROVE  \E stay \in SUBSET DOMAIN rows, n \in Nat :
           stay = DOMAIN rows \ gone /\ n <= Len(rows) /\ Leaves(stay, n)
<1>1. DOMAIN rows = 1..Len(rows) /\ Len(rows) \in Nat
  OBVIOUS
<1>2. IsFiniteSet(1..Len(rows)) /\ Cardinality(1..Len(rows)) <= Len(rows)
  <2>1. /\ IsFiniteSet(1..Len(rows))
        /\ Cardinality(1..Len(rows)) = IF 1 > Len(rows) THEN 0 ELSE Len(rows) - 1 + 1
    BY <1>1, FS_Interval
  <2>2. QED
    BY <1>1, <2>1
<1>3. PICK stay \in SUBSET DOMAIN rows : stay = DOMAIN rows \ gone
  OBVIOUS
<1>4. IsFiniteSet(stay) /\ Cardinality(stay) \in Nat /\ Cardinality(stay) <= Len(rows)
  <2>1. IsFiniteSet(stay) /\ Cardinality(stay) <= Cardinality(1..Len(rows))
    BY <1>1, <1>2, FS_Subset
  <2>2. Cardinality(stay) \in Nat /\ Cardinality(1..Len(rows)) \in Nat
    BY <1>2, <2>1, FS_CardinalityType
  <2>3. QED
    BY <1>1, <1>2, <2>1, <2>2
<1>5. PICK n \in Nat : n = Cardinality(stay)
  BY <1>4
<1>6. PICK kept \in [1..n -> stay] :
        /\ \A i, j \in 1..n : i < j => kept[i] < kept[j]
        /\ rows' = [k \in 1..n |-> rows[kept[k]]]
  <2>1. \E kept \in [1..n -> stay] :
          /\ \A i, j \in DOMAIN kept : i < j => kept[i] < kept[j]
          /\ rows' = [k \in DOMAIN kept |-> rows[kept[k]]]
    BY <1>3, <1>5 DEF Delete
  <2>2. PICK kept \in [1..n -> stay] :
          /\ \A i, j \in DOMAIN kept : i < j => kept[i] < kept[j]
          /\ rows' = [k \in DOMAIN kept |-> rows[kept[k]]]
    BY <2>1
  <2>3. DOMAIN kept = 1..n
    OBVIOUS
  <2>4. QED
    BY <2>2, <2>3
<1>7. kept \in Injection(1..n, stay) /\ \A i, j \in 1..n : kept[i] = kept[j] => i = j
  <2>1. stay \in SUBSET Nat
    BY <1>1
  <2>2. QED
    BY <1>6, <2>1, IncreasingIsInjective
<1>8. \A i \in stay : \E k \in 1..n : kept[k] = i
  <2>1. /\ IsFiniteSet(1..n)
        /\ Cardinality(1..n) = IF 1 > n THEN 0 ELSE n - 1 + 1
    BY FS_Interval
  <2>2. Cardinality(1..n) = n
    BY <2>1
  <2>3. kept \in Surjection(1..n, stay)
    BY <1>4, <1>5, <1>7, <2>2, FS_Injection
  <2>4. QED
    BY <2>3 DEF Surjection
<1>9. n <= Len(rows)
  BY <1>4, <1>5
<1>10. Leaves(stay, n)
  BY <1>6, <1>7, <1>8 DEF Leaves
<1>11. QED
  BY <1>3, <1>9, <1>10

LEMMA DeleteKeeps ==
  ASSUME rows \in Seq(Rows), NEW gone \in SUBSET DOMAIN rows, Delete(gone)
  PROVE  rows' \in Seq(Rows) /\ Len(rows') <= Len(rows)
<1>1. PICK stay \in SUBSET DOMAIN rows, n \in Nat : n <= Len(rows) /\ Leaves(stay, n)
  BY DeleteIs
<1>2. PICK kept \in [1..n -> stay] : rows' = [k \in 1..n |-> rows[kept[k]]]
  BY <1>1 DEF Leaves
<1>3. \A k \in 1..n : rows[kept[k]] \in Rows
  <2> TAKE k \in 1..n
  <2>1. kept[k] \in 1..Len(rows)
    OBVIOUS
  <2>2. QED
    BY <2>1
<1>4. QED
  BY <1>1, <1>2, <1>3

\* A delete that spares the retained rows leaves as many of them: every row that
\* stays has one place among what is left.
LEMMA DeleteSpares ==
  ASSUME rows \in Seq(Rows), NEW gone \in SUBSET Expired, Delete(gone), UNCHANGED retention,
         retention \in Nat
  PROVE  Cardinality(Retained') = Cardinality(Retained)
<1>1. gone \in SUBSET DOMAIN rows
  BY DEF Expired
<1>2. PICK stay \in SUBSET DOMAIN rows, n \in Nat :
        stay = DOMAIN rows \ gone /\ Leaves(stay, n)
  BY <1>1, DeleteIs
<1>3. PICK kept \in [1..n -> stay] :
        /\ \A i, j \in 1..n : kept[i] = kept[j] => i = j
        /\ \A i \in stay : \E k \in 1..n : kept[k] = i
        /\ rows' = [k \in 1..n |-> rows[kept[k]]]
  BY <1>2 DEF Leaves
<1>4. Retained \subseteq stay
  <2> SUFFICES ASSUME NEW i \in Retained
               PROVE  i \notin gone
    BY <1>2 DEF Retained
  <2>1. rows[i] \in Rows /\ rows[i].age <= retention
    BY DEF Retained
  <2>2. rows[i].age \in Nat
    BY <2>1, RowAge
  <2>3. QED
    BY <2>1, <2>2 DEF Expired
<1>5. Retained' = {k \in 1..n : kept[k] \in Retained}
  <2>1. DOMAIN rows' = 1..n /\ \A k \in 1..n : rows'[k] = rows[kept[k]]
    BY <1>3
  <2>2. Retained' = {k \in 1..n : rows[kept[k]].age <= retention}
    BY <2>1 DEF Retained
  <2>3. QED
    BY <2>2 DEF Retained
<1>6. PICK R \in SUBSET (1..n) : R = {k \in 1..n : kept[k] \in Retained}
  OBVIOUS
<1>7. PICK f \in [R -> Retained] : \A k \in R : f[k] = kept[k]
  <2>1. [k \in R |-> kept[k]] \in [R -> Retained]
    BY <1>6
  <2>2. QED
    BY <2>1
<1>8. f \in Bijection(R, Retained)
  <2>1. \A i, j \in R : f[i] = f[j] => i = j
    BY <1>3, <1>7
  <2>2. \A i \in Retained : \E k \in R : f[k] = i
    <3> TAKE i \in Retained
    <3>1. PICK k \in 1..n : kept[k] = i
      BY <1>3, <1>4
    <3>2. QED
      BY <1>6, <1>7, <3>1
  <2>3. f \in Injection(R, Retained) /\ f \in Surjection(R, Retained)
    BY <2>1, <2>2, Fun_IsInj, Fun_IsSurj
  <2>4. QED
    BY <2>3 DEF Bijection
<1>9. IsFiniteSet(R)
  <2>1. IsFiniteSet(1..n)
    BY FS_Interval
  <2>2. QED
    BY <2>1, FS_Subset
<1>10. Cardinality(Retained) = Cardinality(R)
  BY <1>8, <1>9, FS_Bijection DEF ExistsBijection
<1>11. QED
  BY <1>5, <1>6, <1>10


LEMMA RowsNextInv == SnapshotTypeOK /\ [Next]_vars => SnapshotTypeOK'
<1> SUFFICES ASSUME SnapshotTypeOK, [Next]_vars
             PROVE  SnapshotTypeOK'
  OBVIOUS
<1>1. ASSUME NEW outcome \in Outcomes, Poll(outcome)
      PROVE  SnapshotTypeOK'
  <2>1. [age |-> 0, outcome |-> outcome] \in Rows
    BY LongestIs DEF Rows
  <2>2. rows' \in Seq(Rows) /\ Len(rows') <= MaxRows
    BY <1>1, <2>1, SnapshotAssumption DEF Poll, SnapshotTypeOK
  <2>3. polled' \in BOOLEAN
    BY <1>1 DEF Poll
  <2>4. UNCHANGED <<retention, batches, untilPurge, lock, clicks, enqueued>>
    BY <1>1 DEF Poll
  <2>5. QED
    BY <2>2, <2>3, <2>4 DEF SnapshotTypeOK
<1>2. ASSUME NEW r \in Retentions, ChangeRetention(r)
      PROVE  SnapshotTypeOK'
  BY <1>2 DEF ChangeRetention, SnapshotTypeOK
<1>3. CASE StartPurge
  <2>1. batches' \in 0..MaxBatches - 1 \cup {Resting} /\ untilPurge' \in 0..PurgeEvery
    BY <1>3, SnapshotAssumption DEF StartPurge
  <2>2. UNCHANGED <<rows, polled, retention, lock, clicks, enqueued>>
    BY <1>3 DEF StartPurge
  <2>3. QED
    BY <2>1, <2>2 DEF SnapshotTypeOK
<1>4. CASE PurgeBatch
  <2>1. PICK gone \in SUBSET Expired :
          /\ Delete(gone)
          /\ batches # Resting
          /\ batches' = IF Cardinality(gone) < BatchSize \/ batches + 1 = MaxBatches
                        THEN Resting ELSE batches + 1
          /\ UNCHANGED <<polled, retention, untilPurge, lock, clicks, enqueued>>
    BY <1>4 DEF PurgeBatch
  <2>2. rows' \in Seq(Rows) /\ Len(rows') <= MaxRows
    <3>1. gone \in SUBSET DOMAIN rows /\ rows \in Seq(Rows)
      BY DEF Expired, SnapshotTypeOK
    <3>2. rows' \in Seq(Rows) /\ Len(rows') <= Len(rows)
      BY <2>1, <3>1, DeleteKeeps
    <3>3. QED
      BY <3>1, <3>2, SnapshotAssumption DEF SnapshotTypeOK
  <2>3. batches' \in 0..MaxBatches - 1 \cup {Resting}
    BY <2>1, SnapshotAssumption DEF SnapshotTypeOK
  <2>4. QED
    BY <2>1, <2>2, <2>3 DEF SnapshotTypeOK
<1>5. CASE PurgeStops
  BY <1>5 DEF PurgeStops, SnapshotTypeOK
<1>6. CASE SnapshotTick
  <2>1. rows' \in Seq(Rows) /\ Len(rows') = Len(rows)
    <3>1. rows \in Seq(Rows)
      BY DEF SnapshotTypeOK
    <3>2. \A i \in 1..Len(rows) :
            (IF rows[i].age > Longest THEN rows[i] ELSE [rows[i] EXCEPT !.age = @ + 1]) \in Rows
      <4> TAKE i \in 1..Len(rows)
      <4>1. rows[i] \in Rows
        BY <3>1
      <4>2. rows[i].age \in Nat /\ Longest \in Nat
        BY <4>1, RowAge, LongestIs
      <4>3. CASE rows[i].age > Longest
        BY <4>1, <4>3
      <4>4. CASE rows[i].age <= Longest
        <5>1. [rows[i] EXCEPT !.age = @ + 1] \in Rows
          BY <4>1, <4>4, RowAge
        <5>2. ~(rows[i].age > Longest)
          BY <4>2, <4>4
        <5>3. QED
          BY <5>1, <5>2
      <4>5. QED
        BY <4>2, <4>3, <4>4
    <3>3. PICK older \in [1..Len(rows) -> Rows] :
            older = [i \in 1..Len(rows) |->
                       IF rows[i].age > Longest THEN rows[i] ELSE [rows[i] EXCEPT !.age = @ + 1]]
      BY <3>2
    <3>4. rows' = older
      BY <1>6, <3>1, <3>3 DEF SnapshotTick
    <3>5. QED
      BY <3>1, <3>4
  <2>2. polled' \in BOOLEAN /\ UNCHANGED <<retention, batches, clicks, enqueued>>
    BY <1>6 DEF SnapshotTick
  <2>3. untilPurge' \in 0..PurgeEvery /\ lock' \in 0..LockTicks
    <3>1. untilPurge \in 0..PurgeEvery /\ lock \in 0..LockTicks
      BY DEF SnapshotTypeOK
    <3>2. untilPurge' = Less(untilPurge) /\ lock' = Less(lock)
      BY <1>6 DEF SnapshotTick
    <3>3. PurgeEvery \in Nat /\ LockTicks \in Nat
      BY SnapshotAssumption
    <3>4. \A n, m \in Nat : n \in 0..m => Less(n) \in 0..m
      BY DEF Less
    <3> QED
      BY <3>1, <3>2, <3>3, <3>4
  <2>4. QED
    BY <2>1, <2>2, <2>3 DEF SnapshotTypeOK
<1>7. ASSUME NEW c \in Clicks, Refresh(c)
      PROVE  SnapshotTypeOK'
  <2>1. UNCHANGED <<rows, polled, retention, batches, untilPurge>>
    BY <1>7 DEF Refresh
  <2>2. clicks' \in [Clicks -> {"idle", "claimed", "202", "429", "503"}]
    BY <1>7 DEF Refresh, SnapshotTypeOK
  <2>3. lock' \in 0..LockTicks /\ enqueued' \in 0..2
    BY <1>7, SnapshotAssumption DEF Refresh, SnapshotTypeOK
  <2>4. QED
    BY <2>1, <2>2, <2>3 DEF SnapshotTypeOK
<1>8. ASSUME NEW c \in Clicks, Enqueue(c)
      PROVE  SnapshotTypeOK'
  <2>1. UNCHANGED <<rows, polled, retention, batches, untilPurge, lock>>
    BY <1>8 DEF Enqueue
  <2>2. clicks' \in [Clicks -> {"idle", "claimed", "202", "429", "503"}]
    BY <1>8 DEF Enqueue, SnapshotTypeOK
  <2>3. enqueued' \in 0..2
    BY <1>8 DEF Enqueue, Smaller, SnapshotTypeOK
  <2>4. QED
    BY <2>1, <2>2, <2>3 DEF SnapshotTypeOK
<1>9. ASSUME NEW c \in Clicks, Answered(c)
      PROVE  SnapshotTypeOK'
  BY <1>9 DEF Answered, SnapshotTypeOK
<1>10. CASE UNCHANGED snapshotVars
  BY <1>10 DEF snapshotVars, SnapshotTypeOK
<1>11. QED
  BY <1>1, <1>2, <1>3, <1>4, <1>5, <1>6, <1>7, <1>8, <1>9, <1>10
     DEF Next, Outage, RowsNext, RefreshNext, vars

\* Cards, caches, rows, the purge's batches, the lock and the requests keep their
\* shapes; in particular a purge that has done its last batch rests.
THEOREM TilesTyped == Spec => []TypeOK
<1>1. Init => followed \in {"data", "rows", "refresh"} /\ DataInv /\ SnapshotTypeOK
  BY DataInitInv, RowsInitInv DEF Init
<1>2. followed \in {"data", "rows", "refresh"} /\ [Next]_vars
        => (followed \in {"data", "rows", "refresh"})'
  BY DEF Next, vars
<1>3. followed \in {"data", "rows", "refresh"} /\ DataInv /\ SnapshotTypeOK => TypeOK
  BY DEF TypeOK, DataInv
<1>4. QED
  BY <1>1, <1>2, <1>3, DataNextInv, RowsNextInv, PTL DEF Spec

\* The purge takes no row that the widget's retention covers when it is taken:
\* the statement reads retention_hours in the same breath as the ages, so a
\* retention made longer between two batches counts at once (purge-snapshots.ts).
THEOREM RetainedStay == Spec => NothingRetainedGoes
<1>1. SnapshotTypeOK /\ [Next]_vars
        => [Len(rows') < Len(rows) => Cardinality(Retained') = Cardinality(Retained)]_snapshotVars
  <2> SUFFICES ASSUME SnapshotTypeOK, [Next]_vars, Len(rows') < Len(rows)
               PROVE  Cardinality(Retained') = Cardinality(Retained)
    OBVIOUS
  <2>1. rows \in Seq(Rows) /\ Len(rows) \in Nat /\ retention \in Nat
    BY LongestIs DEF SnapshotTypeOK
  <2>2. CASE PurgeBatch
    <3>1. PICK gone \in SUBSET Expired : Delete(gone) /\ UNCHANGED retention
      BY <2>2 DEF PurgeBatch
    <3>2. QED
      BY <2>1, <3>1, DeleteSpares
  <2>3. CASE UNCHANGED rows
    BY <2>1, <2>3
  <2>4. CASE \E outcome \in Outcomes : Poll(outcome)
    <3>1. PICK outcome \in Outcomes : rows' = Append(rows, [age |-> 0, outcome |-> outcome])
      BY <2>4 DEF Poll
    <3>2. [age |-> 0, outcome |-> outcome] \in Rows
      BY LongestIs DEF Rows
    <3>3. Len(rows') = Len(rows) + 1
      BY <2>1, <3>1, <3>2
    <3>4. QED
      BY <2>1, <3>3
  <2>5. CASE SnapshotTick
    <3>1. rows' = [i \in 1..Len(rows) |->
                     IF rows[i].age > Longest THEN rows[i] ELSE [rows[i] EXCEPT !.age = @ + 1]]
      BY <2>1, <2>5 DEF SnapshotTick
    <3>2. Len(rows') = Len(rows)
      BY <2>1, <3>1
    <3>3. QED
      BY <2>1, <3>2
  <2>6. PurgeBatch \/ UNCHANGED rows \/ (\E outcome \in Outcomes : Poll(outcome)) \/ SnapshotTick
    BY DEF Next, Outage, RowsNext, RefreshNext, vars, snapshotVars, ChangeRetention, StartPurge,
           PurgeStops, Refresh, Enqueue, Answered
  <2>7. QED
    BY <2>2, <2>3, <2>4, <2>5, <2>6
<1>2. Init => SnapshotTypeOK
  BY RowsInitInv DEF Init
<1>3. QED
  BY <1>1, <1>2, RowsNextInv, PTL DEF Spec, NothingRetainedGoes

-----------------------------------------------------------------------------
(* Lists of rows *)

\* Induction over the numbers of a set: a set with 0 that has the successor of each
\* of its numbers has them all.
LEMMA EveryNumber ==
    ASSUME NEW P \in SUBSET Nat, 0 \in P, \A n \in P : n + 1 \in P
    PROVE  P = Nat
<1>1. SUFFICES ASSUME NEW n \in Nat, n \notin P PROVE FALSE
  OBVIOUS
<1> DEFINE Without == {T \in SUBSET (0..n) : \E k \in 0..n : k \notin P /\ T = 0..k}
<1>2. IsFiniteSet(0..n)
  BY FS_Interval
<1>3. IsWellFoundedOn(StrictSubsetOrdering(0..n), SUBSET (0..n))
  BY <1>2, FS_StrictSubsetOrderingWellFounded, FS_FiniteSubsetsOfFinite
<1>4. 0..n \in Without
  BY <1>1
<1>5. PICK T \in Without : \A U \in Without : ~(<<U, T>> \in StrictSubsetOrdering(0..n))
  <2> HIDE DEF Without
  <2>1. Without \subseteq SUBSET (0..n)
    BY DEF Without
  <2> QED
    BY <1>3, <1>4, <2>1, WFMin
<1>6. PICK k \in 0..n : k \notin P /\ T = 0..k
  BY <1>5
<1>7. k # 0 /\ k - 1 \in 0..n
  BY <1>6
<1>8. k - 1 \notin P
  BY <1>6, <1>7
<1> DEFINE U == 0..k - 1
<1>9. U \in Without
  BY <1>6, <1>7, <1>8
<1>10. U \subseteq T /\ U # T
  <2>1. k \in T /\ k \notin U
    BY <1>6
  <2> QED
    BY <1>6, <1>7, <2>1
<1> QED
  BY <1>5, <1>9, <1>10 DEF StrictSubsetOrdering

\* Induction over lists, one element at a time.
LEMMA EveryList ==
    ASSUME NEW S, NEW P \in SUBSET Seq(S), <<>> \in P, \A s \in P, e \in S : Append(s, e) \in P
    PROVE  P = Seq(S)
<1> DEFINE N == {n \in Nat : \A s \in Seq(S) : Len(s) = n => s \in P}
<1>1. 0 \in N
  <2>1. \A s \in Seq(S) : Len(s) = 0 => s = <<>>
    BY EmptySeq
  <2> QED
    BY <2>1
<1>2. ASSUME NEW n \in N PROVE n + 1 \in N
  <2> SUFFICES ASSUME NEW s \in Seq(S), Len(s) = n + 1
               PROVE  s \in P
    OBVIOUS
  <2>1. s # <<>>
    BY EmptySeq
  <2>2. PICK t \in Seq(S), e \in S : s = Append(t, e)
    BY <2>1, SequenceEmptyOrAppend
  <2>3. Len(t) \in Nat /\ Len(s) = Len(t) + 1
    BY <2>2, AppendProperties, LenProperties
  <2>4. t \in P
    BY <2>3
  <2> QED
    BY <2>2, <2>4
<1>3. N = Nat
  <2> HIDE DEF N
  <2>1. N \in SUBSET Nat
    BY DEF N
  <2> QED
    BY <1>1, <1>2, <2>1, EveryNumber
<1>4. \A s \in Seq(S) : Len(s) \in Nat
  BY LenProperties
<1> QED
  BY <1>3, <1>4

\* What Only computes, as the function it defines.
Upto(list, outcomes, m, f) ==
  f = [n \in 0..m |->
        IF n = 0 THEN <<>>
        ELSE IF list[n].outcome \in outcomes THEN Append(f[n - 1], list[n]) ELSE f[n - 1]]

LEMMA UptoExists ==
    ASSUME NEW list, NEW K
    PROVE  \A n \in Nat : \E f : Upto(list, K, n, f)
<1> DEFINE P == {n \in Nat : \E f : Upto(list, K, n, f)}
<1>1. 0 \in P
  <2> DEFINE f == [k \in 0..0 |-> <<>>]
  <2>1. f = [n \in 0..0 |->
              IF n = 0 THEN <<>>
              ELSE IF list[n].outcome \in K THEN Append(f[n - 1], list[n]) ELSE f[n - 1]]
    OBVIOUS
  <2> QED
    BY <2>1 DEF Upto
<1>2. ASSUME NEW n \in P PROVE n + 1 \in P
  <2>1. PICK f : Upto(list, K, n, f)
    OBVIOUS
  <2> DEFINE new == IF list[n + 1].outcome \in K THEN Append(f[n], list[n + 1]) ELSE f[n]
             g   == [k \in 0..n + 1 |-> IF k = n + 1 THEN new ELSE f[k]]
  <2>2. ASSUME NEW k \in 0..n + 1
        PROVE  g[k] = IF k = 0 THEN <<>>
                      ELSE IF list[k].outcome \in K THEN Append(g[k - 1], list[k]) ELSE g[k - 1]
    <3>1. CASE k = n + 1
      BY <3>1
    <3>2. CASE k # n + 1
      <4>1. k \in 0..n /\ (k # 0 => k - 1 \in 0..n /\ k - 1 # n + 1)
        BY <3>2
      <4>2. f[k] = IF k = 0 THEN <<>>
                   ELSE IF list[k].outcome \in K THEN Append(f[k - 1], list[k]) ELSE f[k - 1]
        BY <2>1, <4>1 DEF Upto
      <4> HIDE DEF new
      <4> QED
        BY <3>2, <4>1, <4>2
    <3> QED
      BY <3>1, <3>2
  <2>3. Upto(list, K, n + 1, g)
    <3> HIDE DEF new
    <3> QED
      BY <2>2 DEF Upto
  <2> QED
    BY <2>3
<1>3. P = Nat
  <2> HIDE DEF P
  <2>1. P \in SUBSET Nat
    BY DEF P
  <2> QED
    BY <1>1, <1>2, <2>1, EveryNumber
<1> QED
  BY <1>3

LEMMA OnlyIs ==
    ASSUME NEW list \in Seq(Rows), NEW K
    PROVE  \E f : Upto(list, K, Len(list), f) /\ Only(list, K) = f[Len(list)]
<1>1. \E f : Upto(list, K, Len(list), f)
  BY UptoExists, LenProperties
<1> DEFINE f == CHOOSE f : f = [n \in 0..Len(list) |->
                  IF n = 0 THEN <<>>
                  ELSE IF list[n].outcome \in K THEN Append(f[n - 1], list[n]) ELSE f[n - 1]]
<1>2. Upto(list, K, Len(list), f)
  BY <1>1 DEF Upto
<1>3. Only(list, K) = f[Len(list)]
  BY DEF Only
<1> QED
  BY <1>2, <1>3

\* Two such functions agree on what their lists share.
LEMMA UptoAgree ==
    ASSUME NEW p, NEW q, NEW K, NEW m \in Nat, NEW n \in Nat, m <= n,
           \A k \in 1..m : p[k] = q[k],
           NEW f, NEW g, Upto(p, K, m, f), Upto(q, K, n, g)
    PROVE  f[m] = g[m]
<1> DEFINE P == {k \in Nat : k <= m => f[k] = g[k]}
<1>1. 0 \in P
  BY DEF Upto
<1>2. ASSUME NEW k \in P PROVE k + 1 \in P
  <2>1. SUFFICES ASSUME k + 1 <= m PROVE f[k + 1] = g[k + 1]
    OBVIOUS
  <2>2. /\ f[k] = g[k] /\ p[k + 1] = q[k + 1] /\ k + 1 \in 0..m /\ k + 1 \in 0..n
        /\ k + 1 # 0 /\ (k + 1) - 1 = k
    BY <2>1
  <2>3. f[k + 1] = IF p[k + 1].outcome \in K THEN Append(f[k], p[k + 1]) ELSE f[k]
    BY <2>2 DEF Upto
  <2>4. g[k + 1] = IF q[k + 1].outcome \in K THEN Append(g[k], q[k + 1]) ELSE g[k]
    BY <2>2 DEF Upto
  <2> QED
    BY <2>2, <2>3, <2>4
<1>3. P = Nat
  <2> HIDE DEF P
  <2>1. P \in SUBSET Nat
    BY DEF P
  <2> QED
    BY <1>1, <1>2, <2>1, EveryNumber
<1> QED
  BY <1>3

LEMMA OnlyEmpty == ASSUME NEW K PROVE Only(<<>>, K) = <<>>
<1>1. <<>> \in Seq(Rows) /\ Len(<<>>) = 0
  BY EmptySeq
<1>2. PICK f : Upto(<<>>, K, 0, f) /\ Only(<<>>, K) = f[0]
  BY <1>1, OnlyIs
<1> QED
  BY <1>2 DEF Upto

LEMMA OnlyAppend ==
    ASSUME NEW s \in Seq(Rows), NEW r \in Rows, NEW K
    PROVE  Only(Append(s, r), K) = IF r.outcome \in K THEN Append(Only(s, K), r) ELSE Only(s, K)
<1> DEFINE t == Append(s, r)
<1>1. /\ t \in Seq(Rows) /\ Len(s) \in Nat /\ Len(t) = Len(s) + 1
      /\ \A k \in 1..Len(s) : s[k] = t[k]
      /\ t[Len(s) + 1] = r
  BY AppendProperties, LenProperties
<1> HIDE DEF t
<1>2. PICK f : Upto(s, K, Len(s), f) /\ Only(s, K) = f[Len(s)]
  BY OnlyIs
<1>3. PICK g : Upto(t, K, Len(t), g) /\ Only(t, K) = g[Len(t)]
  BY <1>1, OnlyIs
<1>4. f[Len(s)] = g[Len(s)]
  <2>1. Len(t) \in Nat /\ Len(s) <= Len(t)
    BY <1>1
  <2> QED
    BY <1>1, <1>2, <1>3, <2>1, UptoAgree
<1>5. Len(t) \in 0..Len(t) /\ Len(t) # 0 /\ Len(t) - 1 = Len(s) /\ t[Len(t)] = r
  BY <1>1
<1>6. g[Len(t)] = IF t[Len(t)].outcome \in K THEN Append(g[Len(t) - 1], t[Len(t)]) ELSE g[Len(t) - 1]
  BY <1>3, <1>5 DEF Upto
<1>7. Only(t, K) = IF r.outcome \in K THEN Append(Only(s, K), r) ELSE Only(s, K)
  BY <1>2, <1>3, <1>4, <1>5, <1>6
<1> QED
  BY <1>7 DEF t

\* What is taken from a list: rows of the list, in the outcomes asked for.
TakenFrom(taken, s, K) ==
  /\ taken \in Seq(Rows) /\ Len(taken) <= Len(s)
  /\ \A i \in 1..Len(taken) : taken[i].outcome \in K /\ \E j \in 1..Len(s) : taken[i] = s[j]

LEMMA OnlyTakes ==
    ASSUME NEW K
    PROVE  \A s \in Seq(Rows) : TakenFrom(Only(s, K), s, K)
<1> DEFINE P == {s \in Seq(Rows) : TakenFrom(Only(s, K), s, K)}
<1>1. <<>> \in P
  <2>1. PICK e \in Seq(Rows) : e = <<>> /\ Len(e) = 0
    BY EmptySeq
  <2>2. TakenFrom(e, e, K)
    BY <2>1 DEF TakenFrom
  <2> QED
    BY <2>1, <2>2, OnlyEmpty
<1>2. ASSUME NEW s \in P, NEW r \in Rows PROVE Append(s, r) \in P
  <2>1. PICK t \in Seq(Rows) : t = Append(s, r)
    BY AppendProperties
  <2>2. Len(s) \in Nat /\ Len(t) = Len(s) + 1 /\ t[Len(s) + 1] = r /\ \A k \in 1..Len(s) : t[k] = s[k]
    BY <2>1, AppendProperties, LenProperties
  <2>3. PICK taken \in Seq(Rows) : taken = Only(s, K) /\ TakenFrom(taken, s, K)
    BY DEF TakenFrom
  <2>4. Len(taken) \in Nat
    BY LenProperties
  <2>5. TakenFrom(taken, t, K)
    BY <2>2, <2>3, <2>4 DEF TakenFrom
  <2>6. CASE r.outcome \in K
    <3>1. PICK more \in Seq(Rows) : more = Append(taken, r)
      BY AppendProperties
    <3>2. Len(more) = Len(taken) + 1 /\ more[Len(taken) + 1] = r /\ \A k \in 1..Len(taken) : more[k] = taken[k]
      BY <3>1, AppendProperties
    <3>3. ASSUME NEW i \in 1..Len(more)
          PROVE  more[i].outcome \in K /\ \E j \in 1..Len(t) : more[i] = t[j]
      <4>1. CASE i = Len(taken) + 1
        <5>1. Len(t) \in 1..Len(t) /\ more[i] = t[Len(t)] /\ more[i].outcome \in K
          BY <2>2, <2>6, <3>2, <4>1
        <5> QED
          BY <5>1
      <4>2. CASE i # Len(taken) + 1
        <5>1. i \in 1..Len(taken) /\ more[i] = taken[i]
          BY <2>4, <3>2, <4>2
        <5> QED
          BY <2>5, <5>1 DEF TakenFrom
      <4> QED
        BY <4>1, <4>2
    <3>4. Len(more) <= Len(t)
      BY <2>2, <2>3, <2>4, <3>2 DEF TakenFrom
    <3>5. TakenFrom(more, t, K)
      BY <3>3, <3>4 DEF TakenFrom
    <3> QED
      BY <2>1, <2>3, <2>6, <3>1, <3>5, OnlyAppend
  <2>7. CASE r.outcome \notin K
    BY <2>1, <2>3, <2>5, <2>7, OnlyAppend
  <2> QED
    BY <2>6, <2>7
<1>3. P = Seq(Rows)
  <2> HIDE DEF P
  <2>1. P \in SUBSET Seq(Rows)
    BY DEF P
  <2> QED
    BY <1>1, <1>2, <2>1, EveryList
<1> QED
  BY <1>3

LEMMA OnlyType ==
    ASSUME NEW s \in Seq(Rows), NEW K
    PROVE  Only(s, K) \in Seq(Rows)
BY OnlyTakes DEF TakenFrom

\* Taking from two lists in a row, or twice.
LEMMA OnlyConcat ==
    ASSUME NEW s \in Seq(Rows), NEW K
    PROVE  \A t \in Seq(Rows) : Only(s \o t, K) = Only(s, K) \o Only(t, K)
<1> DEFINE P == {t \in Seq(Rows) : Only(s \o t, K) = Only(s, K) \o Only(t, K)}
<1>1. <<>> \in P
  <2>1. s \o <<>> = s /\ Only(s, K) \o <<>> = Only(s, K) /\ <<>> \in Seq(Rows)
    BY OnlyType, ConcatEmptySeq, EmptySeq
  <2> QED
    BY <2>1, OnlyEmpty
<1>2. ASSUME NEW t \in P, NEW r \in Rows PROVE Append(t, r) \in P
  <2>1. s \o t \in Seq(Rows) /\ Append(t, r) \in Seq(Rows) /\ <<r>> \in Seq(Rows)
    BY ConcatProperties, AppendProperties
  <2>2. s \o Append(t, r) = Append(s \o t, r)
    <3>1. Append(t, r) = t \o <<r>> /\ Append(s \o t, r) = (s \o t) \o <<r>>
      BY <2>1, AppendIsConcat
    <3>2. (s \o t) \o <<r>> = s \o (t \o <<r>>)
      BY <2>1, ConcatAssociative
    <3> QED
      BY <3>1, <3>2
  <2>3. PICK a \in Seq(Rows), b \in Seq(Rows) : a = Only(s, K) /\ b = Only(t, K)
    BY OnlyType
  <2>4. Only(s \o t, K) = a \o b /\ a \o b \in Seq(Rows)
    BY <2>3, ConcatProperties
  <2>5. CASE r.outcome \in K
    <3>1. Only(Append(t, r), K) = Append(b, r) /\ Only(Append(s \o t, r), K) = Append(a \o b, r)
      BY <2>1, <2>3, <2>4, <2>5, OnlyAppend
    <3>2. a \o Append(b, r) = Append(a \o b, r)
      <4>1. Append(b, r) = b \o <<r>> /\ Append(a \o b, r) = (a \o b) \o <<r>>
        BY <2>4, AppendIsConcat
      <4>2. (a \o b) \o <<r>> = a \o (b \o <<r>>)
        BY <2>1, ConcatAssociative, SMTT(30)
      <4> QED
        BY <4>1, <4>2
    <3> QED
      BY <2>1, <2>2, <2>3, <3>1, <3>2
  <2>6. CASE r.outcome \notin K
    <3>1. Only(Append(t, r), K) = b
      BY <2>3, <2>6, OnlyAppend
    <3>2. PICK u \in Seq(Rows) : u = s \o t
      BY <2>1
    <3>3. Only(Append(u, r), K) = Only(u, K)
      BY <2>6, OnlyAppend
    <3> QED
      BY <2>1, <2>2, <2>3, <2>4, <3>1, <3>2, <3>3
  <2> QED
    BY <2>5, <2>6
<1>3. P = Seq(Rows)
  <2> HIDE DEF P
  <2>1. P \in SUBSET Seq(Rows)
    BY DEF P
  <2> QED
    BY <1>1, <1>2, <2>1, EveryList
<1> QED
  BY <1>3

LEMMA OnlyTwice ==
    ASSUME NEW K, NEW L, K \subseteq L
    PROVE  \A s \in Seq(Rows) : Only(Only(s, L), K) = Only(s, K)
<1> DEFINE P == {s \in Seq(Rows) : Only(Only(s, L), K) = Only(s, K)}
<1>1. <<>> \in P
  BY OnlyEmpty, EmptySeq
<1>2. ASSUME NEW s \in P, NEW r \in Rows PROVE Append(s, r) \in P
  <2>1. Append(s, r) \in Seq(Rows) /\ Only(s, L) \in Seq(Rows)
    BY OnlyType, AppendProperties
  <2>2. CASE r.outcome \in L
    <3>1. Only(Append(s, r), L) = Append(Only(s, L), r)
      BY <2>2, OnlyAppend
    <3>2. Only(Append(Only(s, L), r), K)
            = IF r.outcome \in K THEN Append(Only(Only(s, L), K), r) ELSE Only(Only(s, L), K)
      BY <2>1, OnlyAppend
    <3>3. Only(Append(s, r), K) = IF r.outcome \in K THEN Append(Only(s, K), r) ELSE Only(s, K)
      BY OnlyAppend
    <3> QED
      BY <2>1, <3>1, <3>2, <3>3
  <2>3. CASE r.outcome \notin L
    <3>1. Only(Append(s, r), L) = Only(s, L) /\ Only(Append(s, r), K) = Only(s, K)
      BY <2>3, OnlyAppend
    <3> QED
      BY <2>1, <3>1
  <2> QED
    BY <2>2, <2>3
<1>3. P = Seq(Rows)
  <2> HIDE DEF P
  <2>1. P \in SUBSET Seq(Rows)
    BY DEF P
  <2> QED
    BY <1>1, <1>2, <2>1, EveryList
<1> QED
  BY <1>3

\* The last row is taken if its outcome is asked for.
LEMMA OnlyLast ==
    ASSUME NEW s \in Seq(Rows), s # <<>>, NEW K, s[Len(s)].outcome \in K
    PROVE  /\ Len(Only(s, K)) \in Nat /\ Len(Only(s, K)) > 0
           /\ Only(s, K)[Len(Only(s, K))] = s[Len(s)]
<1>1. PICK t \in Seq(Rows), r \in Rows : s = Append(t, r)
  BY SequenceEmptyOrAppend
<1>2. s[Len(s)] = r
  BY <1>1, AppendProperties
<1>3. PICK taken \in Seq(Rows) : taken = Only(t, K)
  BY OnlyType
<1>4. Only(s, K) = Append(taken, r)
  BY <1>1, <1>2, <1>3, OnlyAppend
<1>5. Len(Append(taken, r)) = Len(taken) + 1 /\ Append(taken, r)[Len(taken) + 1] = r /\ Len(taken) \in Nat
  BY AppendProperties, LenProperties
<1> QED
  BY <1>2, <1>4, <1>5

\* The order of the rows.
OldestFirst(list) == \A i, j \in 1..Len(list) : i < j => list[i].age >= list[j].age

LEMMA OnlyOldestFirst ==
    ASSUME NEW K
    PROVE  \A s \in Seq(Rows) : OldestFirst(s) => OldestFirst(Only(s, K))
<1> DEFINE P == {s \in Seq(Rows) : OldestFirst(s) => OldestFirst(Only(s, K))}
<1>1. <<>> \in P
  <2>1. <<>> \in Seq(Rows) /\ Len(<<>>) = 0
    BY EmptySeq
  <2> QED
    BY <2>1, OnlyEmpty DEF OldestFirst
<1>2. ASSUME NEW s \in P, NEW r \in Rows PROVE Append(s, r) \in P
  <2>1. PICK t \in Seq(Rows) : t = Append(s, r)
    BY AppendProperties
  <2>2. Len(s) \in Nat /\ Len(t) = Len(s) + 1 /\ t[Len(s) + 1] = r /\ \A k \in 1..Len(s) : t[k] = s[k]
    BY <2>1, AppendProperties, LenProperties
  <2>3. SUFFICES ASSUME OldestFirst(t) PROVE OldestFirst(Only(t, K))
    BY <2>1
  <2>4. OldestFirst(s) /\ \A k \in 1..Len(s) : s[k].age >= r.age
    <3>1. OldestFirst(s)
      BY <2>2, <2>3 DEF OldestFirst
    <3>2. ASSUME NEW k \in 1..Len(s) PROVE s[k].age >= r.age
      <4>1. k \in 1..Len(t) /\ Len(s) + 1 \in 1..Len(t) /\ k < Len(s) + 1
        BY <2>2
      <4>2. t[k].age >= t[Len(s) + 1].age
        BY <2>3, <4>1 DEF OldestFirst
      <4> QED
        BY <2>2, <4>2
    <3> QED
      BY <3>1, <3>2
  <2>5. PICK taken \in Seq(Rows) : taken = Only(s, K)
    BY OnlyType
  <2>6. TakenFrom(taken, s, K) /\ OldestFirst(taken) /\ Len(taken) \in Nat
    BY <2>4, <2>5, OnlyTakes, LenProperties
  <2>7. CASE r.outcome \in K
    <3>1. PICK more \in Seq(Rows) : more = Append(taken, r)
      BY AppendProperties
    <3>2. Len(more) = Len(taken) + 1 /\ more[Len(taken) + 1] = r /\ \A k \in 1..Len(taken) : more[k] = taken[k]
      BY <3>1, AppendProperties
    <3>3. ASSUME NEW i \in 1..Len(more), NEW j \in 1..Len(more), i < j
          PROVE  more[i].age >= more[j].age
      <4>1. i \in 1..Len(taken) /\ more[i] = taken[i]
        BY <2>6, <3>2, <3>3
      <4>2. CASE j = Len(taken) + 1
        <5>1. PICK k \in 1..Len(s) : taken[i] = s[k]
          BY <2>6, <4>1 DEF TakenFrom
        <5> QED
          BY <2>4, <3>2, <4>1, <4>2, <5>1
      <4>3. CASE j # Len(taken) + 1
        <5>1. j \in 1..Len(taken) /\ more[j] = taken[j]
          BY <2>6, <3>2, <4>3
        <5> QED
          BY <2>6, <3>3, <4>1, <5>1 DEF OldestFirst
      <4> QED
        BY <4>2, <4>3
    <3>4. OldestFirst(more)
      BY <3>3 DEF OldestFirst
    <3> QED
      BY <2>1, <2>5, <2>7, <3>1, <3>4, OnlyAppend
  <2>8. CASE r.outcome \notin K
    BY <2>1, <2>5, <2>6, <2>8, OnlyAppend
  <2> QED
    BY <2>7, <2>8
<1>3. P = Seq(Rows)
  <2> HIDE DEF P
  <2>1. P \in SUBSET Seq(Rows)
    BY DEF P
  <2> QED
    BY <1>1, <1>2, <2>1, EveryList
<1> QED
  BY <1>3

-----------------------------------------------------------------------------
(* Sums and buckets *)

\* Totals that grow by the numbers of a list end in its sum.
LEMMA SumIs ==
    ASSUME NEW m \in Nat, NEW f \in [1..m -> Nat], NEW c \in [0..m -> Nat],
           c[0] = 0, \A b \in 1..m : c[b] = c[b - 1] + f[b]
    PROVE  Sum(f) = c[m]
<1>1. f \in Seq(Nat) /\ Len(f) = m
  BY SeqDef
<1> DEFINE Adds(g) == g = [n \in 0..Len(f) |-> IF n = 0 THEN 0 ELSE g[n - 1] + f[n]]
<1>2. Adds(c)
  <2>1. c = [n \in 0..m |-> IF n = 0 THEN 0 ELSE c[n - 1] + f[n]]
    <3>1. \A n \in 0..m : c[n] = IF n = 0 THEN 0 ELSE c[n - 1] + f[n]
      OBVIOUS
    <3> QED
      BY <3>1
  <2> QED
    BY <1>1, <2>1
<1> DEFINE g == CHOOSE g : g = [n \in 0..Len(f) |-> IF n = 0 THEN 0 ELSE g[n - 1] + f[n]]
<1>3. Adds(g)
  BY <1>2
<1>4. Sum(f) = g[Len(f)]
  BY DEF Sum
<1>5. PICK h : Adds(h) /\ Sum(f) = h[m]
  BY <1>1, <1>3, <1>4
<1> DEFINE P == {n \in Nat : n <= m => h[n] = c[n]}
<1>6. 0 \in P
  BY <1>1, <1>5
<1>7. ASSUME NEW n \in P PROVE n + 1 \in P
  <2>1. SUFFICES ASSUME n + 1 <= m PROVE h[n + 1] = c[n + 1]
    OBVIOUS
  <2>2. n + 1 \in 0..m /\ n + 1 \in 1..m /\ n + 1 # 0 /\ (n + 1) - 1 = n /\ h[n] = c[n]
    BY <2>1
  <2>3. h[n + 1] = h[n] + f[n + 1]
    BY <1>1, <1>5, <2>2
  <2>4. c[n + 1] = c[n] + f[n + 1]
    BY <2>2
  <2> QED
    BY <2>2, <2>3, <2>4
<1>8. P = Nat
  <2> HIDE DEF P
  <2>1. P \in SUBSET Nat
    BY DEF P
  <2> QED
    BY <1>6, <1>7, <2>1, EveryNumber
<1>9. h[m] = c[m]
  <2>1. m \in P
    <3> HIDE DEF P
    <3> QED
      BY <1>8
  <2> QED
    BY <2>1
<1> QED
  BY <1>5, <1>9

LEMMA CeilingIs ==
    ASSUME NEW n \in Nat, n > 0, NEW d \in Nat, d > 0
    PROVE  /\ Ceiling(n, d) \in Nat /\ Ceiling(n, d) > 0
           /\ (Ceiling(n, d) - 1) * d < n /\ n <= Ceiling(n, d) * d
<1> DEFINE c == (n + d - 1) \div d
<1>1. c \in Int /\ c * d <= n + d - 1 /\ n + d - 1 < c * d + d
  OBVIOUS
<1>2. Ceiling(n, d) = c
  BY DEF Ceiling
<1> HIDE DEF c
<1>3. n <= c * d /\ (c - 1) * d < n
  <2>1. (c - 1) * d = c * d - d /\ c * d \in Int
    BY <1>1
  <2> QED
    BY <1>1, <2>1
<1>4. c > 0
  <2>1. c <= 0 => c * d <= 0
    BY <1>1
  <2> QED
    BY <1>1, <1>3, <2>1
<1> QED
  BY <1>1, <1>2, <1>3, <1>4

\* Runs of equal size take no more buckets than the strip has room for.
LEMMA BucketsFit ==
    ASSUME NEW n \in Nat, n > 0
    PROVE  /\ BucketSize(n) \in Nat /\ BucketSize(n) > 0
           /\ Ceiling(n, BucketSize(n)) \in Nat /\ Ceiling(n, BucketSize(n)) > 0
           /\ Ceiling(n, BucketSize(n)) <= MaxBuckets
           /\ (Ceiling(n, BucketSize(n)) - 1) * BucketSize(n) < n
           /\ n <= Ceiling(n, BucketSize(n)) * BucketSize(n)
<1>1. MaxBuckets \in Nat /\ MaxBuckets > 0
  BY SnapshotAssumption
<1>2. PICK d \in Nat : d = BucketSize(n) /\ d > 0 /\ n <= d * MaxBuckets
  BY <1>1, CeilingIs DEF BucketSize
<1>3. PICK m \in Nat : m = Ceiling(n, d) /\ m > 0 /\ (m - 1) * d < n /\ n <= m * d
  BY <1>2, CeilingIs
<1>4. m <= MaxBuckets
  <2>1. SUFFICES ASSUME MaxBuckets <= m - 1 PROVE FALSE
    BY <1>1
  <2>2. MaxBuckets * d <= (m - 1) * d
    BY <1>1, <2>1
  <2>3. MaxBuckets * d = d * MaxBuckets /\ MaxBuckets * d \in Int /\ (m - 1) * d \in Int
    BY <1>1
  <2> QED
    BY <1>2, <1>3, <2>2, <2>3
<1> QED
  BY <1>2, <1>3, <1>4

\* Where m buckets cut a list: each takes at least one row, together they take all.
Cuts(points, m, e) ==
  /\ m \in Nat /\ m > 0 /\ e \in [0..m -> Nat] /\ e[0] = 0 /\ e[m] = Len(points)
  /\ \A b \in 1..m : e[b - 1] < e[b] /\ e[b] <= Len(points)

LEMMA StripIs ==
    ASSUME NEW points \in Seq(Rows), points # <<>>, points = UptimePoints
    PROVE  \E m, e : /\ Cuts(points, m, e) /\ m <= MaxBuckets
                      /\ Strip = [b \in 1..m |-> Bucket(SubSeq(points, e[b - 1] + 1, e[b]))]
<1>1. PICK n \in Nat : n = Len(points) /\ n > 0
  BY LenProperties, EmptySeq
<1>2. PICK d \in Nat : d = BucketSize(n) /\ d > 0
  BY <1>1, BucketsFit
<1>3. PICK m \in Nat : m = Ceiling(n, d) /\ m > 0 /\ m <= MaxBuckets /\ (m - 1) * d < n /\ n <= m * d
  BY <1>1, <1>2, BucketsFit
<1> DEFINE e == [b \in 0..m |-> Smaller(b * d, n)]
<1>4. e \in [0..m -> Nat] /\ e[0] = 0 /\ e[m] = n
  <2>1. \A b \in 0..m : b * d \in Nat /\ Smaller(b * d, n) \in Nat
    BY DEF Smaller
  <2>2. 0 * d = 0 /\ 0 \in 0..m /\ m \in 0..m /\ m * d \in Nat
    OBVIOUS
  <2>3. Smaller(0, n) = 0 /\ Smaller(m * d, n) = n
    BY <1>3, <2>2 DEF Smaller
  <2> QED
    BY <2>1, <2>2, <2>3
<1>5. ASSUME NEW b \in 1..m
      PROVE  e[b - 1] = (b - 1) * d /\ e[b - 1] < e[b] /\ e[b] <= n /\ e[b] = Smaller(b * d, n)
  <2>1. (b - 1) * d <= (m - 1) * d
    OBVIOUS
  <2>2. (b - 1) * d < n /\ b * d = (b - 1) * d + d /\ (b - 1) * d \in Nat /\ b * d \in Nat
    BY <1>3, <2>1
  <2>3. b \in 0..m /\ b - 1 \in 0..m
    OBVIOUS
  <2>4. e[b - 1] = Smaller((b - 1) * d, n) /\ e[b] = Smaller(b * d, n)
    BY <2>3
  <2>5. Smaller((b - 1) * d, n) = (b - 1) * d
    BY <2>2 DEF Smaller
  <2>6. Smaller(b * d, n) <= n /\ (b - 1) * d < Smaller(b * d, n)
    BY <1>2, <2>2 DEF Smaller
  <2> QED
    BY <2>4, <2>5, <2>6
<1> HIDE DEF e
<1>6. Cuts(points, m, e)
  BY <1>1, <1>3, <1>4, <1>5 DEF Cuts
<1>7. Strip = [b \in 1..m |-> Bucket(SubSeq(points, e[b - 1] + 1, e[b]))]
  <2>1. Strip = [b \in 1..m |-> Bucket(SubSeq(points, (b - 1) * d + 1, Smaller(b * d, n)))]
    BY <1>1, <1>2, <1>3 DEF Strip
  <2> QED
    BY <1>5, <2>1
<1> QED
  BY <1>3, <1>6, <1>7

LEMMA SliceIs ==
    ASSUME NEW points \in Seq(Rows), NEW i \in Nat, NEW j \in Nat, i < j, j <= Len(points)
    PROVE  /\ SubSeq(points, i + 1, j) \in Seq(Rows) /\ SubSeq(points, i + 1, j) # <<>>
           /\ Len(SubSeq(points, i + 1, j)) = j - i
           /\ SubSeq(points, i + 1, j)[1] = points[i + 1]
           /\ SubSeq(points, i + 1, j)[j - i] = points[j]
<1>1. \A k \in i + 1..j : points[k] \in Rows
  BY LenProperties
<1>2. /\ SubSeq(points, i + 1, j) \in Seq(Rows)
      /\ Len(SubSeq(points, i + 1, j)) = IF i + 1 <= j THEN j - (i + 1) + 1 ELSE 0
      /\ \A k \in 1..j - (i + 1) + 1 : SubSeq(points, i + 1, j)[k] = points[i + 1 + k - 1]
  <2>1. i + 1 \in Int /\ j \in Int
    OBVIOUS
  <2> QED
    BY <1>1, <2>1, SubSeqProperties
<1>3. 1 \in 1..j - (i + 1) + 1 /\ j - i \in 1..j - (i + 1) + 1
  OBVIOUS
<1>4. i + 1 + 1 - 1 = i + 1 /\ i + 1 + (j - i) - 1 = j
  OBVIOUS
<1>5. PICK slice \in Seq(Rows) : slice = SubSeq(points, i + 1, j)
  BY <1>2
<1>6. slice[1] = points[i + 1] /\ slice[j - i] = points[j] /\ Len(slice) = j - i
  BY <1>2, <1>3, <1>4, <1>5
<1>7. slice # <<>>
  BY <1>6, EmptySeq
<1> QED
  BY <1>5, <1>6, <1>7

Failures(strip) == [b \in DOMAIN strip |-> IF strip[b].down THEN strip[b].failures ELSE 0]
Totals(strip)   == [b \in DOMAIN strip |-> strip[b].total]

\* The buckets of a list have its failures and its rows among them.
LEMMA BucketsTellAll ==
    ASSUME NEW points \in Seq(Rows), NEW m, NEW e, Cuts(points, m, e),
           NEW strip,
           strip = [b \in 1..m |-> Bucket(SubSeq(points, e[b - 1] + 1, e[b]))]
    PROVE  Sum(Failures(strip)) = Len(Only(points, Down)) /\ Sum(Totals(strip)) = Len(points)
<1>1. /\ m \in Nat /\ m > 0 /\ e \in [0..m -> Nat] /\ e[0] = 0 /\ e[m] = Len(points)
      /\ \A b \in 1..m : e[b - 1] < e[b] /\ e[b] <= Len(points)
      /\ DOMAIN strip = 1..m
  BY DEF Cuts
<1> DEFINE slice(b) == SubSeq(points, e[b - 1] + 1, e[b])
           before(b) == SubSeq(points, 1, e[b])
<1>2. ASSUME NEW b \in 1..m
      PROVE  /\ slice(b) \in Seq(Rows) /\ Len(slice(b)) = e[b] - e[b - 1]
             /\ e[b] \in Nat /\ e[b - 1] \in Nat /\ e[b - 1] < e[b] /\ e[b] <= Len(points)
  <2>1. e[b] \in Nat /\ e[b - 1] \in Nat /\ e[b - 1] < e[b] /\ e[b] <= Len(points)
    BY <1>1
  <2> QED
    BY <2>1, SliceIs
<1>3. ASSUME NEW b \in 0..m
      PROVE  before(b) \in Seq(Rows)
  <2>1. e[b] \in Nat /\ e[b] <= Len(points)
    <3>1. b = 0 \/ b \in 1..m
      OBVIOUS
    <3> QED
      BY <1>1, <3>1
  <2>2. CASE e[b] = 0
    BY <2>2, SubSeqEmpty, EmptySeq
  <2>3. CASE e[b] # 0
    <3>1. SubSeq(points, 0 + 1, e[b]) \in Seq(Rows)
      BY <2>1, <2>3, SliceIs
    <3> QED
      BY <3>1
  <2> QED
    BY <2>2, <2>3
<1>4. before(0) = <<>> /\ before(m) = points
  BY <1>1, SubSeqEmpty, SubSeqFull
<1>5. ASSUME NEW b \in 1..m
      PROVE  before(b) = before(b - 1) \o slice(b)
  <2>1. 1 \in 1..Len(points) + 1 /\ e[b - 1] \in 1 - 1..Len(points) /\ e[b] \in e[b - 1]..Len(points)
    BY <1>2, LenProperties
  <2> QED
    BY <2>1, ConcatAdjacentSubSeq
<1> HIDE DEF slice, before
<1> DEFINE f == [b \in 1..m |-> Len(Only(slice(b), Down))]
           c == [b \in 0..m |-> Len(Only(before(b), Down))]
<1>6. f \in [1..m -> Nat] /\ c \in [0..m -> Nat]
  BY <1>2, <1>3, OnlyType, LenProperties
<1>7. c[0] = 0
  BY <1>1, <1>4, OnlyEmpty, EmptySeq
<1>8. ASSUME NEW b \in 1..m PROVE c[b] = c[b - 1] + f[b]
  <2>1. b \in 0..m /\ b - 1 \in 0..m
    BY <1>1
  <2>2. before(b - 1) \in Seq(Rows) /\ slice(b) \in Seq(Rows)
    BY <1>2, <1>3, <2>1
  <2>3. Only(before(b), Down) = Only(before(b - 1), Down) \o Only(slice(b), Down)
    <3>1. PICK s \in Seq(Rows), t \in Seq(Rows) : s = before(b - 1) /\ t = slice(b)
      BY <2>2
    <3>2. before(b) = s \o t
      BY <1>5, <3>1
    <3>3. Only(s \o t, Down) = Only(s, Down) \o Only(t, Down)
      BY OnlyConcat
    <3> QED
      BY <3>1, <3>2, <3>3
  <2>4. Only(before(b - 1), Down) \in Seq(Rows) /\ Only(slice(b), Down) \in Seq(Rows)
    BY <2>2, OnlyType
  <2>5. Len(Only(before(b), Down)) = Len(Only(before(b - 1), Down)) + Len(Only(slice(b), Down))
    BY <2>3, <2>4, ConcatProperties
  <2> QED
    BY <2>1, <2>5
<1>9. Sum(f) = Len(Only(points, Down))
  <2>1. c[m] = Len(Only(points, Down))
    BY <1>1, <1>4
  <2> HIDE DEF f, c
  <2>2. Sum(f) = c[m]
    BY <1>1, <1>6, <1>7, <1>8, SumIs
  <2> QED
    BY <2>1, <2>2
<1>10. Failures(strip) = f
  <2>1. ASSUME NEW b \in 1..m
        PROVE  (IF strip[b].down THEN strip[b].failures ELSE 0) = Len(Only(slice(b), Down))
    <3>1. PICK k \in Nat : k = Len(Only(slice(b), Down))
      BY <1>2, OnlyType, LenProperties
    <3>2. strip[b] = Bucket(slice(b))
      BY DEF slice
    <3>3. strip[b].failures = k /\ (strip[b].down <=> k > 0)
      BY <3>1, <3>2 DEF Bucket
    <3> QED
      BY <3>1, <3>3
  <2> QED
    BY <1>1, <2>1 DEF Failures
<1> DEFINE g == [b \in 1..m |-> e[b] - e[b - 1]]
<1>11. Sum(g) = Len(points)
  <2>1. g \in [1..m -> Nat] /\ \A b \in 1..m : e[b] = e[b - 1] + g[b]
    BY <1>2
  <2> HIDE DEF g
  <2> QED
    BY <1>1, <2>1, SumIs
<1>12. Totals(strip) = g
  <2>1. ASSUME NEW b \in 1..m PROVE strip[b].total = e[b] - e[b - 1]
    <3>1. strip[b] = Bucket(slice(b))
      BY DEF slice
    <3> QED
      BY <1>2, <3>1 DEF Bucket
  <2> QED
    BY <1>1, <2>1 DEF Totals
<1> QED
  BY <1>9, <1>10, <1>11, <1>12

FromOldToNew(strip) == \A b \in DOMAIN strip : strip[b].from >= strip[b].to

\* A bucket runs from old to new; the last ends with the last row of the list, and is
\* marked down if that row is a failure.
LEMMA BucketsInOrder ==
    ASSUME NEW points \in Seq(Rows), NEW m, NEW e, Cuts(points, m, e),
           NEW strip,
           strip = [b \in 1..m |-> Bucket(SubSeq(points, e[b - 1] + 1, e[b]))]
    PROVE  /\ OldestFirst(points) => FromOldToNew(strip)
           /\ Len(strip) = m /\ strip[m].to = points[Len(points)].age
           /\ points[Len(points)].outcome \in Down => strip[m].down
<1>1. /\ m \in Nat /\ m > 0 /\ e \in [0..m -> Nat] /\ e[m] = Len(points)
      /\ \A b \in 1..m : e[b - 1] < e[b] /\ e[b] <= Len(points)
      /\ DOMAIN strip = 1..m
  BY DEF Cuts
<1>2. ASSUME NEW b \in 1..m
      PROVE  \E slice \in Seq(Rows) :
               /\ strip[b] = Bucket(slice) /\ slice # <<>> /\ slice[1] = points[e[b - 1] + 1]
               /\ slice[Len(slice)] = points[e[b]]
  <2>1. e[b] \in Nat /\ e[b - 1] \in Nat /\ e[b - 1] < e[b] /\ e[b] <= Len(points)
    BY <1>1
  <2>2. PICK slice \in Seq(Rows) :
          /\ slice = SubSeq(points, e[b - 1] + 1, e[b]) /\ slice # <<>>
          /\ Len(slice) = e[b] - e[b - 1] /\ slice[1] = points[e[b - 1] + 1]
          /\ slice[e[b] - e[b - 1]] = points[e[b]]
    BY <2>1, SliceIs
  <2> QED
    BY <2>2
<1>3. ASSUME OldestFirst(points), NEW b \in 1..m
      PROVE  strip[b].from >= strip[b].to
  <2>1. PICK slice \in Seq(Rows) :
               /\ strip[b] = Bucket(slice) /\ slice # <<>> /\ slice[1] = points[e[b - 1] + 1]
               /\ slice[Len(slice)] = points[e[b]]
    BY <1>2
  <2>2. strip[b].from = points[e[b - 1] + 1].age /\ strip[b].to = points[e[b]].age
    BY <2>1 DEF Bucket
  <2>3. e[b] \in 1..Len(points) /\ e[b - 1] + 1 \in 1..Len(points) /\ e[b - 1] + 1 <= e[b]
        /\ Len(points) \in Nat
    BY <1>1, LenProperties, SMTT(30)
  <2>4. points[e[b]].age \in Nat
    BY <2>3, RowAge, ElementOfSeq
  <2>5. e[b - 1] + 1 < e[b] => points[e[b - 1] + 1].age >= points[e[b]].age
    BY <1>3, <2>3 DEF OldestFirst
  <2> QED
    BY <2>2, <2>3, <2>4, <2>5
<1>4. strip[m].to = points[Len(points)].age
      /\ (points[Len(points)].outcome \in Down => strip[m].down)
  <2>1. m \in 1..m
    BY <1>1
  <2>2. PICK slice \in Seq(Rows) :
          strip[m] = Bucket(slice) /\ slice # <<>> /\ slice[Len(slice)] = points[e[m]]
    BY <1>2, <2>1
  <2>3. strip[m].to = points[Len(points)].age
    <3>1. Bucket(slice).to = slice[Len(slice)].age
      BY DEF Bucket
    <3> QED
      BY <1>1, <2>2, <3>1
  <2>4. ASSUME points[Len(points)].outcome \in Down PROVE strip[m].down
    <3>1. slice[Len(slice)].outcome \in Down
      BY <1>1, <2>2, <2>4
    <3>2. PICK k \in Nat : k = Len(Only(slice, Down)) /\ k > 0
      BY <2>2, <3>1, OnlyLast
    <3>3. Bucket(slice).down <=> k > 0
      BY <3>2 DEF Bucket
    <3> QED
      BY <2>2, <3>2, <3>3
  <2> QED
    BY <2>3, <2>4
<1>5. Len(strip) = m
  BY <1>1
<1> QED
  BY <1>1, <1>3, <1>4, <1>5 DEF FromOldToNew

-----------------------------------------------------------------------------
(* The history *)

Recent == SubSeq(rows, Len(rows) - Smaller(MaxPoints, Len(rows)) + 1, Len(rows))

LEMMA SmallerIs ==
    ASSUME rows \in Seq(Rows)
    PROVE  \E k \in Nat, n \in Nat :
             /\ k = Smaller(MaxPoints, Len(rows)) /\ n = Len(rows) /\ k <= n
             /\ rows # <<>> => k > 0 /\ n > 0
<1>1. PICK n \in Nat : n = Len(rows) /\ (rows # <<>> => n > 0)
  BY LenProperties, EmptySeq
<1>2. MaxPoints \in Nat /\ MaxPoints > 0
  BY SnapshotAssumption
<1>3. PICK k \in Nat : k = Smaller(MaxPoints, n) /\ k <= n /\ (n > 0 => k > 0)
  BY <1>2 DEF Smaller
<1> QED
  BY <1>1, <1>3

\* What the endpoint returns are the newest rows, oldest first.
LEMMA PointsAreRecent ==
    ASSUME rows \in Seq(Rows)
    PROVE  /\ Points = Recent /\ Recent \in Seq(Rows)
           /\ rows # <<>> => /\ Newest[1] = rows[Len(rows)]
                            /\ Recent # <<>> /\ Recent[Len(Recent)] = rows[Len(rows)]
           /\ OldestFirst(rows) => OldestFirst(Recent)
<1>1. PICK k \in Nat, n \in Nat :
        /\ k = Smaller(MaxPoints, Len(rows)) /\ n = Len(rows) /\ k <= n
        /\ rows # <<>> => k > 0 /\ n > 0
  BY SmallerIs
<1>2. \A i \in 1..n : rows[i] \in Rows
  BY <1>1, LenProperties
<1>3. PICK newest \in Seq(Rows) :
        newest = Newest /\ Len(newest) = n /\ \A i \in 1..n : newest[i] = rows[n - i + 1]
  <2>1. Newest = [i \in 1..n |-> rows[n - i + 1]]
    BY <1>1 DEF Newest, Reverse
  <2>2. \A i \in 1..n : n - i + 1 \in 1..n
    OBVIOUS
  <2> DEFINE newest == [i \in 1..n |-> rows[n - i + 1]]
  <2>3. newest \in [1..n -> Rows]
    BY <1>2, <2>2
  <2>4. newest \in Seq(Rows) /\ Len(newest) = n
    BY <2>3
  <2> QED
    BY <2>1, <2>4
<1>4. PICK cut \in Seq(Rows) :
        /\ cut = SubSeq(newest, 1, k) /\ Len(cut) = k /\ \A i \in 1..k : cut[i] = rows[n - i + 1]
  <2>1. \A i \in 1..k : newest[i] \in Rows /\ i \in 1..n
    BY <1>1, <1>3, LenProperties
  <2>2. /\ SubSeq(newest, 1, k) \in Seq(Rows)
        /\ Len(SubSeq(newest, 1, k)) = IF 1 <= k THEN k - 1 + 1 ELSE 0
        /\ \A i \in 1..k - 1 + 1 : SubSeq(newest, 1, k)[i] = newest[1 + i - 1]
    <3>1. 1 \in Int /\ k \in Int
      OBVIOUS
    <3> QED
      BY <2>1, <3>1, SubSeqProperties
  <2>3. ASSUME NEW i \in 1..k
        PROVE  SubSeq(newest, 1, k)[i] = rows[n - i + 1]
    <3>1. i \in 1..k - 1 + 1 /\ 1 + i - 1 = i
      OBVIOUS
    <3>2. SubSeq(newest, 1, k)[i] = newest[i]
      BY <2>2, <3>1
    <3> QED
      BY <1>3, <2>1, <3>2
  <2>4. Len(SubSeq(newest, 1, k)) = k
    BY <2>2
  <2> QED
    BY <2>2, <2>3, <2>4
<1>5. Points = [i \in 1..k |-> cut[k - i + 1]]
  BY <1>1, <1>3, <1>4 DEF Points, Reverse
<1>6. ASSUME NEW i \in 1..k
      PROVE  Points[i] = rows[n - k + i] /\ n - k + i \in 1..n
  <2>1. k - i + 1 \in 1..k /\ n - (k - i + 1) + 1 = n - k + i /\ n - k + i \in 1..n
    <3>1. k <= n
      BY <1>1
    <3> QED
      BY <3>1
  <2> QED
    BY <1>4, <1>5, <2>1
<1>7. PICK recent \in Seq(Rows) :
        /\ recent = Recent /\ Len(recent) = k /\ \A i \in 1..k : recent[i] = rows[n - k + i]
  <2> DEFINE a == n - k + 1
  <2>0. a \in Int /\ a >= 1 /\ n - a + 1 = k
    BY <1>1
  <2> HIDE DEF a
  <2>1. \A i \in a..n : rows[i] \in Rows
    BY <1>2, <2>0
  <2>2. /\ SubSeq(rows, a, n) \in Seq(Rows)
        /\ Len(SubSeq(rows, a, n)) = IF a <= n THEN n - a + 1 ELSE 0
        /\ \A i \in 1..n - a + 1 : SubSeq(rows, a, n)[i] = rows[a + i - 1]
    <3>1. n \in Int
      OBVIOUS
    <3> QED
      BY <2>0, <2>1, <3>1, SubSeqProperties
  <2>3. Len(SubSeq(rows, a, n)) = k
    BY <2>0, <2>2
  <2>4. ASSUME NEW i \in 1..k
        PROVE  SubSeq(rows, a, n)[i] = rows[n - k + i]
    <3>1. i \in 1..n - a + 1 /\ a + i - 1 = n - k + i
      BY <2>0 DEF a
    <3> QED
      BY <2>2, <3>1
  <2>5. Recent = SubSeq(rows, a, n)
    BY <1>1 DEF Recent, a
  <2> QED
    BY <2>2, <2>3, <2>4, <2>5
<1>8. Points = recent
  <2>1. Points \in Seq(Rows) /\ Len(Points) = k
    <3>1. ASSUME NEW i \in 1..k PROVE cut[k - i + 1] \in Rows
      <4>1. k - i + 1 \in 1..k
        OBVIOUS
      <4> QED
        BY <1>4, <4>1, ElementOfSeq
    <3>2. PICK f \in [1..k -> Rows] : f = [i \in 1..k |-> cut[k - i + 1]]
      BY <3>1
    <3>3. f \in Seq(Rows) /\ Len(f) = k
      OBVIOUS
    <3> QED
      BY <1>5, <3>2, <3>3
  <2>2. \A i \in 1..k : Points[i] = recent[i]
    BY <1>6, <1>7
  <2> QED
    BY <1>7, <2>1, <2>2, SeqEqual
<1>9. ASSUME rows # <<>>
      PROVE  recent # <<>> /\ recent[Len(recent)] = rows[Len(rows)] /\ Newest[1] = rows[Len(rows)]
  <2>1. k > 0 /\ n > 0 /\ k \in 1..k /\ 1 \in 1..n /\ n - k + k = n /\ n - 1 + 1 = n
    BY <1>1, <1>9
  <2>2. recent # <<>>
    BY <1>7, <2>1, EmptySeq
  <2> QED
    BY <1>1, <1>3, <1>7, <2>1, <2>2
<1>10. ASSUME OldestFirst(rows)
       PROVE  OldestFirst(recent)
  <2> SUFFICES ASSUME NEW i \in 1..k, NEW j \in 1..k, i < j
               PROVE  recent[i].age >= recent[j].age
    BY <1>7 DEF OldestFirst
  <2>1. n - k + i \in 1..n /\ n - k + j \in 1..n /\ n - k + i < n - k + j
    BY <1>1
  <2>2. rows[n - k + i].age >= rows[n - k + j].age
    BY <1>1, <1>10, <2>1 DEF OldestFirst
  <2> QED
    BY <1>7, <2>2
<1> QED
  BY <1>7, <1>8, <1>9, <1>10

\* What the tile says is what its newest row says.
LEMMA SaysTheLatest ==
    ASSUME rows \in Seq(Rows), TileSays \in Outcomes
    PROVE  /\ rows # <<>> /\ rows[Len(rows)] \in Rows /\ TileSays = rows[Len(rows)].outcome
           /\ rows[Len(rows)].outcome \in Drawable
<1>1. rows # <<>>
  <2>1. rows = <<>> => TileSays = "loading"
    BY DEF TileSays, FrameState
  <2> QED
    BY <2>1 DEF Outcomes, Readings
<1>2. PICK n \in Nat : n = Len(rows) /\ n \in 1..Len(rows)
  <2>1. Len(rows) \in Nat /\ Len(rows) > 0
    BY <1>1, LenProperties, EmptySeq
  <2> QED
    BY <2>1
<1>3. PICK row \in Rows : row = rows[Len(rows)] /\ Newest[1] = row
  BY <1>1, <1>2, PointsAreRecent, ElementOfSeq
<1>4. CASE row.outcome = "error"
  BY <1>1, <1>3, <1>4 DEF TileSays, FrameState, Drawable, Outcomes, Readings
<1>5. CASE row.outcome # "error"
  <2>1. TileSays = IF row.outcome = "odd" THEN "unreadable" ELSE row.outcome
    BY <1>1, <1>3, <1>5 DEF TileSays, FrameState
  <2>2. row.outcome # "odd"
    BY <2>1 DEF Outcomes, Readings
  <2>3. row.outcome \in Outcomes
    BY RowAge
  <2> QED
    BY <1>1, <1>3, <2>1, <2>2, <2>3 DEF Drawable
<1> QED
  BY <1>4, <1>5

LEMMA StripTells ==
    ASSUME rows \in Seq(Rows), OldestFirst(rows)
    PROVE  StripTellsTheRows
<1>1. PICK recent \in Seq(Rows) :
        /\ recent = Recent /\ Points = recent /\ OldestFirst(recent)
        /\ rows # <<>> => recent # <<>> /\ recent[Len(recent)] = rows[Len(rows)]
  BY PointsAreRecent
<1>2. PICK points \in Seq(Rows) :
        /\ points = UptimePoints /\ points = Only(recent, Drawable) /\ OldestFirst(points)
  BY <1>1, OnlyType, OnlyOldestFirst DEF UptimePoints
<1>3. Only(points, Down) = Only(recent, Down)
  <2>1. Down \subseteq Drawable
    BY DEF Down, Drawable, Outcomes, Readings
  <2> QED
    BY <1>2, <2>1, OnlyTwice
<1>4. TileSays \in Outcomes => points # <<>> /\ points[Len(points)] = rows[Len(rows)]
  <2> SUFFICES ASSUME TileSays \in Outcomes
               PROVE  points # <<>> /\ points[Len(points)] = rows[Len(rows)]
    OBVIOUS
  <2>1. recent # <<>> /\ recent[Len(recent)] = rows[Len(rows)] /\ rows[Len(rows)].outcome \in Drawable
    BY <1>1, SaysTheLatest
  <2>2. Len(points) > 0 /\ points[Len(points)] = recent[Len(recent)]
    BY <1>2, <2>1, OnlyLast
  <2> QED
    BY <2>1, <2>2, EmptySeq
<1>5. TileSays \in Readings => PriceLine[Len(PriceLine)] = rows[Len(rows)]
  <2> SUFFICES ASSUME TileSays \in Readings
               PROVE  PriceLine[Len(PriceLine)] = rows[Len(rows)]
    OBVIOUS
  <2>1. TileSays \in Outcomes
    BY DEF Outcomes
  <2>2. recent # <<>> /\ recent[Len(recent)] = rows[Len(rows)] /\ recent[Len(recent)].outcome \in Readings
    BY <1>1, <2>1, SaysTheLatest
  <2> QED
    BY <1>1, <2>2, OnlyLast DEF PriceLine
<1>6. /\ Len(Strip) <= MaxBuckets
      /\ Sum(Failures(Strip)) = Len(Only(points, Down)) /\ Sum(Totals(Strip)) = Len(points)
      /\ FromOldToNew(Strip)
      /\ points # <<>> => Strip[Len(Strip)].to = points[Len(points)].age
      /\ points # <<>> /\ points[Len(points)].outcome \in Down => Strip[Len(Strip)].down
  <2>1. CASE points = <<>>
    <3>1. Strip = <<>> /\ Len(points) = 0 /\ Len(Strip) = 0 /\ Only(points, Down) = <<>>
      BY <1>2, <2>1, OnlyEmpty DEF Strip
    <3>2. DOMAIN Strip = {}
      BY <3>1
    <3>3. \A f \in [{} -> Nat] : Sum(f) = 0
      <4> TAKE f \in [{} -> Nat]
      <4> DEFINE c == [b \in 0..0 |-> 0]
      <4>1. f \in [1..0 -> Nat] /\ c \in [0..0 -> Nat] /\ c[0] = 0 /\ \A b \in 1..0 : c[b] = c[b - 1] + f[b]
        OBVIOUS
      <4> HIDE DEF c
      <4>2. Sum(f) = c[0]
        BY <4>1, SumIs
      <4> QED
        BY <4>1, <4>2
    <3>4. MaxBuckets \in Nat
      BY SnapshotAssumption
    <3>5. Failures(Strip) \in [{} -> Nat] /\ Totals(Strip) \in [{} -> Nat]
      BY <3>2 DEF Failures, Totals
    <3>6. Sum(Failures(Strip)) = 0 /\ Sum(Totals(Strip)) = 0
      BY <3>3, <3>5
    <3>7. Len(Only(points, Down)) = 0
      BY <3>1
    <3> QED
      BY <2>1, <3>1, <3>2, <3>4, <3>6, <3>7 DEF FromOldToNew
  <2>2. CASE points # <<>>
    <3>1. PICK m, e :
            /\ Cuts(points, m, e) /\ m <= MaxBuckets
            /\ Strip = [b \in 1..m |-> Bucket(SubSeq(points, e[b - 1] + 1, e[b]))]
      BY <1>2, <2>2, StripIs
    <3>2. PICK strip : strip = Strip
      OBVIOUS
    <3>3. strip = [b \in 1..m |-> Bucket(SubSeq(points, e[b - 1] + 1, e[b]))]
      BY <3>1, <3>2
    <3>4. Sum(Failures(strip)) = Len(Only(points, Down)) /\ Sum(Totals(strip)) = Len(points)
      BY <3>1, <3>3, BucketsTellAll
    <3>5. /\ FromOldToNew(strip)
          /\ Len(strip) = m /\ strip[m].to = points[Len(points)].age
          /\ points[Len(points)].outcome \in Down => strip[m].down
      <4>1. Cuts(points, m, e) /\ OldestFirst(points)
        BY <1>2, <3>1
      <4> QED
        BY <3>3, <4>1, BucketsInOrder
    <3> QED
      BY <3>1, <3>2, <3>4, <3>5
  <2> QED
    BY <2>1, <2>2
<1>7. TileSays \in {"down", "error"} => points[Len(points)].outcome \in Down /\ TileSays \in Outcomes
  <2> SUFFICES ASSUME TileSays \in {"down", "error"}
               PROVE  points[Len(points)].outcome \in Down /\ TileSays \in Outcomes
    OBVIOUS
  <2>1. TileSays \in Outcomes
    BY DEF Outcomes, Readings
  <2>2. rows[Len(rows)].outcome = TileSays
    BY <2>1, SaysTheLatest
  <2> QED
    BY <1>4, <2>1, <2>2 DEF Down
<1> QED
  BY <1>1, <1>2, <1>3, <1>4, <1>5, <1>6, <1>7
     DEF StripTellsTheRows, Recent, Failures, Totals, FromOldToNew

-----------------------------------------------------------------------------
(* The order of the rows *)

LEMMA DeleteKeepsOrder ==
  ASSUME rows \in Seq(Rows), OldestFirst(rows), NEW gone \in SUBSET DOMAIN rows, Delete(gone)
  PROVE  OldestFirst(rows')
<1>1. PICK stay \in SUBSET DOMAIN rows, n \in Nat : Leaves(stay, n)
  BY DeleteIs
<1>2. PICK kept \in [1..n -> stay] :
        /\ \A i, j \in 1..n : i < j => kept[i] < kept[j]
        /\ rows' = [k \in 1..n |-> rows[kept[k]]]
  BY <1>1 DEF Leaves
<1>3. Len(rows') = n
  BY <1>2
<1> SUFFICES ASSUME NEW i \in 1..n, NEW j \in 1..n, i < j
             PROVE  rows'[i].age >= rows'[j].age
  BY <1>3 DEF OldestFirst
<1>4. kept[i] \in 1..Len(rows) /\ kept[j] \in 1..Len(rows) /\ kept[i] < kept[j]
  BY <1>2, LenProperties
<1>5. rows[kept[i]].age >= rows[kept[j]].age
  BY <1>4 DEF OldestFirst
<1> QED
  BY <1>2, <1>5

LEMMA OrderNextInv == SnapshotTypeOK /\ OldestFirst(rows) /\ [Next]_vars => OldestFirst(rows)'
<1> SUFFICES ASSUME SnapshotTypeOK, OldestFirst(rows), [Next]_vars
             PROVE  OldestFirst(rows')
  OBVIOUS
<1>1. rows \in Seq(Rows) /\ Len(rows) \in Nat /\ \A i \in 1..Len(rows) : rows[i] \in Rows
  BY LenProperties, ElementOfSeq DEF SnapshotTypeOK
<1>2. CASE UNCHANGED rows
  BY <1>2 DEF OldestFirst
<1>3. CASE PurgeBatch
  <2>1. PICK gone \in SUBSET Expired : Delete(gone)
    BY <1>3 DEF PurgeBatch
  <2>2. gone \in SUBSET DOMAIN rows
    BY DEF Expired
  <2> QED
    BY <1>1, <2>1, <2>2, DeleteKeepsOrder
<1>4. CASE \E outcome \in Outcomes : Poll(outcome)
  <2>1. PICK new \in Rows : new.age = 0 /\ rows' = Append(rows, new)
    <3>1. PICK outcome \in Outcomes : rows' = Append(rows, [age |-> 0, outcome |-> outcome])
      BY <1>4 DEF Poll
    <3>2. [age |-> 0, outcome |-> outcome] \in Rows
      BY LongestIs DEF Rows
    <3> QED
      BY <3>1, <3>2
  <2>2. /\ Len(rows') = Len(rows) + 1 /\ rows'[Len(rows) + 1] = new
        /\ \A i \in 1..Len(rows) : rows'[i] = rows[i]
    BY <1>1, <2>1, AppendProperties
  <2> SUFFICES ASSUME NEW i \in 1..Len(rows) + 1, NEW j \in 1..Len(rows) + 1, i < j
               PROVE  rows'[i].age >= rows'[j].age
    BY <2>2 DEF OldestFirst
  <2>3. i \in 1..Len(rows) /\ rows'[i] = rows[i]
    BY <1>1, <2>2
  <2>4. CASE j = Len(rows) + 1
    <3>1. rows[i].age \in Nat
      BY <1>1, <2>3, RowAge
    <3> QED
      BY <2>1, <2>2, <2>3, <2>4, <3>1
  <2>5. CASE j # Len(rows) + 1
    <3>1. j \in 1..Len(rows) /\ rows'[j] = rows[j]
      BY <1>1, <2>2, <2>5
    <3> QED
      BY <2>3, <3>1 DEF OldestFirst
  <2> QED
    BY <2>4, <2>5
<1>5. CASE SnapshotTick
  <2>1. rows' = [i \in 1..Len(rows) |->
                   IF rows[i].age > Longest THEN rows[i] ELSE [rows[i] EXCEPT !.age = @ + 1]]
    BY <1>1, <1>5 DEF SnapshotTick
  <2>2. Len(rows') = Len(rows)
    BY <1>1, <2>1
  <2>3. ASSUME NEW i \in 1..Len(rows)
        PROVE  /\ rows[i].age \in Nat /\ rows[i].age <= Longest + 1
               /\ rows'[i].age = IF rows[i].age > Longest THEN rows[i].age ELSE rows[i].age + 1
    <3>1. PICK row \in Rows : row = rows[i]
      BY <1>1
    <3>2. row.age \in Nat /\ row.age <= Longest + 1
      BY RowAge
    <3>3. [row EXCEPT !.age = @ + 1].age = row.age + 1
      BY DEF Rows
    <3>4. rows'[i] = IF row.age > Longest THEN row ELSE [row EXCEPT !.age = @ + 1]
      BY <2>1, <3>1
    <3> QED
      BY <3>1, <3>2, <3>3, <3>4
  <2> SUFFICES ASSUME NEW i \in 1..Len(rows), NEW j \in 1..Len(rows), i < j
               PROVE  rows'[i].age >= rows'[j].age
    BY <2>2 DEF OldestFirst
  <2>4. rows[i].age >= rows[j].age
    BY DEF OldestFirst
  <2> QED
    BY <2>3, <2>4, LongestIs
<1>6. PurgeBatch \/ UNCHANGED rows \/ (\E outcome \in Outcomes : Poll(outcome)) \/ SnapshotTick
  BY DEF Next, Outage, RowsNext, RefreshNext, vars, snapshotVars, ChangeRetention, StartPurge,
         PurgeStops, Refresh, Enqueue, Answered
<1> QED
  BY <1>2, <1>3, <1>4, <1>5, <1>6

\* What a server-polled widget's tile says of its rows: the strip has room, shows every
\* failure among the newest rows in a bucket marked down and no other, runs from old to
\* new and ends with the row the headline and the price chart are about, whatever was
\* polled, purged and refreshed before (uptime-timeline.ts, snapshots.ts,
\* uptime-adapter.ts); and one refresh lock lets one poll through.
THEOREM RowsAreTold == Spec => []RowsSound
<1>1. Init => SnapshotTypeOK /\ OldestFirst(rows)
  <2> SUFFICES ASSUME Init PROVE SnapshotTypeOK /\ OldestFirst(rows)
    OBVIOUS
  <2>1. rows = <<>> /\ SnapshotTypeOK
    BY RowsInitInv DEF Init, SnapshotInit
  <2>2. Len(rows) = 0
    BY <2>1
  <2> QED
    BY <2>1, <2>2 DEF OldestFirst
<1>2. SnapshotTypeOK /\ OldestFirst(rows) => StripTellsTheRows
  BY StripTells DEF SnapshotTypeOK
<1>3. TypeOK /\ OncePerLock /\ StripTellsTheRows => RowsSound
  BY DEF RowsSound
<1>4. QED
  BY <1>1, <1>2, <1>3, RowsNextInv, OrderNextInv, TilesTyped, OneLockOnePoll, PTL DEF Spec
=============================================================================
