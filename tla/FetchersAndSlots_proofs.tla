----------------------- MODULE FetchersAndSlots_proofs -----------------------
(***************************************************************************)
(* What a widget's endpoint is asked, and what is made of what it answers. *)
(*                                                                         *)
(* First what one outbound call keeps to, for any number of names,         *)
(* addresses, redirects and bytes: its headers, its key, its body and the  *)
(* addresses it connects to. The gate's own invariants come first          *)
(* (SafeFetch), then those of its callers (Fetchers).                      *)
(*                                                                         *)
(* Then the slots of a custom widget, for responses of any shape and depth *)
(* and forms of any number of slots: what the walk of the preview reaches  *)
(* is what paths find and polls store (JsonFields), and what is edited,    *)
(* saved and drawn fits together (CustomSlots).                            *)
(***************************************************************************)
EXTENDS Fetchers, CustomSlots, FiniteSetTheorems, SequenceTheorems, TLAPS


Underway == hop.stage \in {"checking", "connecting", "waiting", "body"}
Hops == [stage : {"idle", "checking", "connecting", "waiting", "body", "done"},
         url : Urls \cup {Unusable}, redirects : 0..MaxRedirects,
         received : 0..MaxBytes, timer : BOOLEAN,
         peer : Addresses \cup {"nobody"}, status : Statuses \cup {"none"}]

\* A hop under way has a URL that can be fetched, its deadline is set only
\* while it is, and nothing has left before the call began.
HopInv ==
  /\ Underway => hop.url \in Urls
  /\ hop.timer => Underway
  /\ hop.stage = "body" => hop.status \in Statuses
  /\ hop.stage = "idle" => sent = {}

\* A literal host is checked once, before its socket, whose lookup will not be
\* asked; no socket has gone where it may not.
PeerInv ==
  /\ hop.stage = "connecting" /\ hop.url.host \notin Names => hop.url.host \in Public
  /\ hop.peer \notin Refused

\* A call that must stay on https is on https, and was at every hop before.
HttpsInv ==
  request.requireHttps =>
    /\ Underway => hop.url.scheme = "https"
    /\ \A s \in sent : s.url.scheme = "https"

GateInv == FetchTypeOK /\ HopInv /\ PeerInv /\ HttpsInv /\ HeadersStayHome

-----------------------------------------------------------------------------
(* Operators *)

\* A URL that cannot be used is no URL of the web, and a result is not the
\* absence of one.
LEMMA UnusableIsNoUrl == Unusable \notin Urls
BY DEF Unusable, Urls

LEMMA PendingIsNoResult == NoResult \notin Results
BY DEF NoResult, Results

LEMMA NoHopType == NoHop \in Hops
<1>1. 0 \in 0..MaxRedirects /\ 0 \in 0..MaxBytes
  BY FetchAssumption
<1>2. QED
  BY <1>1 DEF NoHop, Hops, Statuses

\* A hop that starts has the shape of a hop, no timer and no peer.
LEMMA HopToType ==
  ASSUME NEW url \in Urls, NEW n \in 0..MaxRedirects
  PROVE  /\ HopTo(url, n) \in Hops
         /\ HopTo(url, n).stage = "checking" /\ HopTo(url, n).url = url
         /\ ~HopTo(url, n).timer /\ HopTo(url, n).peer = "nobody"
BY NoHopType DEF HopTo, NoHop, Hops

\* Headers are the caller's or none, and the caller's only at the origin of the
\* URL the caller gave (headersForHop).
LEMMA HeadersForHopType ==
  ASSUME NEW callers \in Headers, NEW requested, NEW url
  PROVE  /\ HeadersForHop(callers, requested, url) \in Headers
         /\ HeadersForHop(callers, requested, url) # "none" => Origin(url) = Origin(requested)
BY DEF HeadersForHop, SameOrigin, Headers

\* The check is passed, or refuses with one of two failures; it passes a literal
\* only if it is public, and a name only if all its addresses are.
LEMMA VerdictType ==
  ASSUME NEW host, NEW answer
  PROVE  /\ ResolveAndValidate(host, answer) \in {"allowed", "network", "blocked"}
         /\ ResolveAndValidate(host, answer) = "allowed" =>
              IF host \in Names THEN answer \subseteq Public ELSE host \in Public
BY DEF ResolveAndValidate, CheckAddressAllowed

\* A failure settles the hop.
LEMMA FailSettles ==
  ASSUME hop \in Hops, NEW failure, Fail(failure),
         failure \in {"invalid_url", "invalid_request", "blocked", "timeout", "network",
                      "too_large", "too_many_redirects"}
  PROVE  /\ hop' \in Hops /\ hop'.stage = "done" /\ ~hop'.timer /\ hop'.peer = hop.peer
         /\ result' \in Results
BY DEF Fail, Settle, Hops, Results

-----------------------------------------------------------------------------
(* The gate: one step of a call preserves its invariants *)

LEMMA GateInit == FetchInit => GateInv
<1> SUFFICES ASSUME FetchInit
             PROVE  GateInv
  OBVIOUS
<1>1. FetchTypeOK
  <2>1. request \in Requests
    BY DEF FetchInit, Requests, Headers
  <2>2. hop \in Hops /\ hop.stage = "idle"
    BY NoHopType DEF FetchInit, NoHop
  <2>3. QED
    BY <2>1, <2>2 DEF FetchInit, FetchTypeOK, Hops
<1>2. QED
  BY <1>1, FetchAssumption
     DEF GateInv, HopInv, PeerInv, HttpsInv, HeadersStayHome, FetchInit, NoHop, Underway

\* safeFetch takes the call up: a call that must stay on https starts there.
LEMMA SafeFetchKeeps ==
  ASSUME GateInv, NEW req \in Requests, SafeFetch(req),
         req.requireHttps => req.url.scheme = "https"
  PROVE  GateInv'
<1> USE DEF GateInv
<1>1. hop \in Hops /\ sent = {} /\ sent' = {} /\ request' = req
  BY DEF SafeFetch, FetchTypeOK, Hops, HopInv
<1>2. CASE Fail("invalid_url")
  <2>1. hop' \in Hops /\ hop'.stage = "done" /\ ~hop'.timer /\ hop'.peer = hop.peer
        /\ result' \in Results
    BY <1>1, <1>2, FailSettles
  <2>2. FetchTypeOK'
    BY <1>1, <2>1, PendingIsNoResult DEF FetchTypeOK, Hops
  <2>3. QED
    BY <1>1, <2>1, <2>2 DEF HopInv, PeerInv, HttpsInv, HeadersStayHome, Underway
<1>3. CASE req.url # Unusable /\ hop' = HopTo(req.url, 0) /\ UNCHANGED result
  <2>1. req.url \in Urls /\ 0 \in 0..MaxRedirects
    BY <1>3, FetchAssumption DEF Requests
  <2>2. hop' \in Hops /\ hop'.stage = "checking" /\ hop'.url = req.url
        /\ ~hop'.timer /\ hop'.peer = "nobody"
    BY <1>3, <2>1, HopToType
  <2>3. FetchTypeOK'
    BY <1>1, <1>3, <2>2 DEF FetchTypeOK, Hops, SafeFetch
  <2>4. QED
    BY <1>1, <2>1, <2>2, <2>3, FetchAssumption
       DEF HopInv, PeerInv, HttpsInv, HeadersStayHome, Underway
<1>4. QED
  BY <1>2, <1>3 DEF SafeFetch

\* A call that fails where it stands keeps what it kept.
LEMMA FailKeeps ==
  ASSUME GateInv, Underway, UNCHANGED <<request, sent>>, NEW failure, Fail(failure),
         failure \in {"invalid_url", "invalid_request", "blocked", "timeout", "network",
                      "too_large", "too_many_redirects"}
  PROVE  GateInv'
<1> USE DEF GateInv
<1>1. hop' \in Hops /\ hop'.stage = "done" /\ ~hop'.timer /\ hop'.peer = hop.peer
      /\ result' \in Results
  BY FailSettles DEF FetchTypeOK, Hops
<1>2. FetchTypeOK'
  BY <1>1, PendingIsNoResult DEF FetchTypeOK, Hops
<1>3. QED
  BY <1>1, <1>2 DEF HopInv, PeerInv, HttpsInv, HeadersStayHome, Underway

\* So does one that is answered.
LEMMA AnswerKeeps ==
  ASSUME GateInv, Underway, UNCHANGED <<request, sent>>, NEW status \in Statuses,
         Settle([ok |-> TRUE, failure |-> "none", status |-> status])
  PROVE  GateInv'
<1> USE DEF GateInv
<1>1. hop' \in Hops /\ hop'.stage = "done" /\ ~hop'.timer /\ hop'.peer = hop.peer
      /\ result' \in Results
  BY DEF FetchTypeOK, Hops, Settle, Results
<1>2. FetchTypeOK'
  BY <1>1, PendingIsNoResult DEF FetchTypeOK, Hops
<1>3. QED
  BY <1>1, <1>2 DEF HopInv, PeerInv, HttpsInv, HeadersStayHome, Underway

LEMMA CheckHostKeeps == GateInv /\ CheckHost => GateInv'
<1> SUFFICES ASSUME GateInv, CheckHost
             PROVE  GateInv'
  OBVIOUS
<1> USE DEF GateInv
<1>1. hop \in Hops /\ hop.stage = "checking" /\ Underway /\ UNCHANGED <<request, sent>>
  BY DEF CheckHost, Underway, FetchTypeOK, Hops
<1>2. PICK answer \in SUBSET Addresses :
        LET verdict == CheckBeforeHop(hop.url.host, answer)
            headers == HeadersForHop(request.headers, request.url, hop.url) IN
        \/ verdict # "allowed" /\ Fail(verdict)
        \/ verdict = "allowed" /\ headers = "unsendable" /\ Fail("invalid_request")
        \/ /\ verdict = "allowed" /\ headers # "unsendable"
           /\ hop' = [hop EXCEPT !.stage = "connecting", !.timer = TRUE]
           /\ UNCHANGED result
  BY DEF CheckHost
<1> DEFINE verdict == CheckBeforeHop(hop.url.host, answer)
<1>3. /\ verdict \in {"allowed", "network", "blocked"}
      /\ verdict = "allowed" =>
           IF hop.url.host \in Names THEN answer \subseteq Public ELSE hop.url.host \in Public
  BY VerdictType DEF CheckBeforeHop
<1>4. CASE Fail("invalid_request") \/ (verdict # "allowed" /\ Fail(verdict))
  BY <1>1, <1>3, <1>4, FailKeeps
<1>5. CASE /\ verdict = "allowed"
           /\ hop' = [hop EXCEPT !.stage = "connecting", !.timer = TRUE]
           /\ UNCHANGED result
  <2>1. hop' \in Hops /\ hop'.stage = "connecting" /\ hop'.url = hop.url
        /\ hop'.peer = hop.peer
    BY <1>1, <1>5 DEF Hops
  <2>2. FetchTypeOK'
    BY <1>1, <1>5, <2>1 DEF FetchTypeOK, Hops
  <2>3. HopInv' /\ HttpsInv' /\ HeadersStayHome'
    BY <1>1, <2>1 DEF HopInv, HttpsInv, HeadersStayHome, Underway
  <2>4. PeerInv'
    BY <1>3, <1>5, <2>1 DEF PeerInv
  <2>5. QED
    BY <2>2, <2>3, <2>4
<1>6. QED
  BY <1>2, <1>4, <1>5

LEMMA ConnectKeeps == GateInv /\ Connect => GateInv'
<1> SUFFICES ASSUME GateInv, Connect
             PROVE  GateInv'
  OBVIOUS
<1> USE DEF GateInv
<1>1. hop \in Hops /\ hop.stage = "connecting" /\ Underway /\ hop.url \in Urls
      /\ UNCHANGED request
  BY DEF Connect, Underway, FetchTypeOK, Hops, HopInv
<1> DEFINE headers == HeadersForHop(request.headers, request.url, hop.url)
<1>2. PICK answer \in SUBSET Addresses :
        LET verdict == GuardedLookup(hop.url.host, answer) IN
        \/ verdict # "allowed" /\ Fail(verdict) /\ UNCHANGED sent
        \/ /\ verdict = "allowed"
           /\ \E a \in IF hop.url.host \in Names THEN answer ELSE {hop.url.host} :
                hop' = [hop EXCEPT !.stage = "waiting", !.peer = a]
           /\ sent' = sent \cup {[url |-> hop.url, headers |-> headers]}
           /\ UNCHANGED result
  BY DEF Connect
<1> DEFINE verdict == GuardedLookup(hop.url.host, answer)
<1>3. /\ verdict \in {"allowed", "network", "blocked"}
      /\ verdict = "allowed" /\ hop.url.host \in Names => answer \subseteq Public
  BY VerdictType DEF GuardedLookup
<1>4. CASE verdict # "allowed" /\ Fail(verdict) /\ UNCHANGED sent
  BY <1>1, <1>3, <1>4, FailKeeps
<1>5. ASSUME verdict = "allowed",
             NEW a \in IF hop.url.host \in Names THEN answer ELSE {hop.url.host},
             hop' = [hop EXCEPT !.stage = "waiting", !.peer = a],
             sent' = sent \cup {[url |-> hop.url, headers |-> headers]},
             UNCHANGED result
      PROVE  GateInv'
  <2>1. a \in Public
    BY <1>1, <1>3, <1>5 DEF PeerInv
  <2>2. hop' \in Hops /\ hop'.stage = "waiting" /\ hop'.url = hop.url /\ hop'.peer = a
    BY <1>1, <1>5, <2>1 DEF Hops, Addresses
  <2>3. /\ headers \in Headers
        /\ headers # "none" => Origin(hop.url) = Origin(request.url)
    BY HeadersForHopType DEF FetchTypeOK, Requests
  <2>4. \A s \in sent' : s \in sent \/ (s.url = hop.url /\ s.headers = headers)
    BY <1>5
  <2>5. FetchTypeOK'
    BY <1>1, <1>5, <2>2, <2>3 DEF FetchTypeOK, Hops
  <2>6. HopInv' /\ PeerInv'
    BY <1>1, <2>1, <2>2, FetchAssumption DEF HopInv, PeerInv, Underway
  <2>7. HttpsInv' /\ HeadersStayHome'
    BY <1>1, <2>2, <2>3, <2>4 DEF HttpsInv, HeadersStayHome, Underway
  <2>8. QED
    BY <2>5, <2>6, <2>7
<1>6. QED
  BY <1>2, <1>4, <1>5

LEMMA RedirectKeeps ==
  ASSUME GateInv, NEW location \in Locations, Redirect(location)
  PROVE  GateInv'
<1> USE DEF GateInv
<1>1. hop \in Hops /\ hop.stage = "waiting" /\ Underway /\ UNCHANGED <<request, sent>>
  BY DEF Redirect, Underway, FetchTypeOK, Hops
<1>2. CASE Fail("too_many_redirects") \/ Fail("blocked")
  BY <1>1, <1>2, FailKeeps
<1>3. CASE /\ hop.redirects < MaxRedirects
           /\ location # Unusable
           /\ request.requireHttps => location.scheme = "https"
           /\ hop' = HopTo(location, hop.redirects + 1)
           /\ UNCHANGED result
  <2>1. location \in Urls
    BY <1>3 DEF Locations
  <2>2. hop.redirects \in 0..MaxRedirects /\ hop.redirects + 1 \in 0..MaxRedirects
    BY <1>1, <1>3, FetchAssumption DEF Hops
  <2>3. hop' \in Hops /\ hop'.stage = "checking" /\ hop'.url = location
        /\ ~hop'.timer /\ hop'.peer = "nobody"
    BY <1>3, <2>1, <2>2, HopToType
  <2>4. FetchTypeOK'
    BY <1>1, <1>3, <2>3 DEF FetchTypeOK, Hops
  <2>5. QED
    BY <1>1, <1>3, <2>1, <2>3, <2>4, FetchAssumption
       DEF HopInv, PeerInv, HttpsInv, HeadersStayHome, Underway
<1>4. QED
  BY <1>2, <1>3 DEF Redirect

LEMMA RespondKeeps ==
  ASSUME GateInv, NEW status \in Statuses, Respond(status)
  PROVE  GateInv'
<1> USE DEF GateInv
<1>1. hop \in Hops /\ hop.stage = "waiting" /\ Underway /\ UNCHANGED <<request, sent>>
  BY DEF Respond, Underway, FetchTypeOK, Hops
<1>2. CASE Settle([ok |-> TRUE, failure |-> "none", status |-> status])
  BY <1>1, <1>2, AnswerKeeps
<1>3. CASE hop' = ReadingBody(status) /\ UNCHANGED result
  <2>1. hop' \in Hops /\ hop'.stage = "body" /\ hop'.status = status
        /\ hop'.url = hop.url /\ hop'.peer = hop.peer
    BY <1>1, <1>3 DEF ReadingBody, Hops
  <2>2. FetchTypeOK'
    BY <1>1, <1>3, <2>1 DEF FetchTypeOK, Hops
  <2>3. QED
    BY <1>1, <2>1, <2>2 DEF HopInv, PeerInv, HttpsInv, HeadersStayHome, Underway
<1>4. QED
  BY <1>2, <1>3 DEF Respond

\* A chunk past the cap ends the call, one within it is counted.
LEMMA DataKeeps ==
  ASSUME GateInv, NEW chunk \in 1..MaxChunk, Data(chunk)
  PROVE  GateInv'
<1> USE DEF GateInv
<1>1. hop \in Hops /\ hop.stage = "body" /\ Underway /\ UNCHANGED <<request, sent>>
  BY DEF Data, Underway, FetchTypeOK, Hops
<1>2. CASE Fail("too_large")
  BY <1>1, <1>2, FailKeeps
<1>3. CASE /\ ~OverCap(hop.received, chunk)
           /\ hop' = [hop EXCEPT !.received = @ + chunk]
           /\ UNCHANGED result
  <2>1. hop.received + chunk \in 0..MaxBytes
    BY <1>1, <1>3, FetchAssumption DEF OverCap, Hops
  <2>2. hop' \in Hops /\ hop'.stage = "body" /\ hop'.status = hop.status
        /\ hop'.url = hop.url /\ hop'.peer = hop.peer
    BY <1>1, <1>3, <2>1 DEF Hops
  <2>3. FetchTypeOK'
    BY <1>1, <1>3, <2>2 DEF FetchTypeOK, Hops
  <2>4. QED
    BY <1>1, <2>2, <2>3 DEF HopInv, PeerInv, HttpsInv, HeadersStayHome, Underway
<1>4. QED
  BY <1>2, <1>3 DEF Data

LEMMA FetchStepKeeps == GateInv /\ FetchStep => GateInv'
<1> SUFFICES ASSUME GateInv, FetchStep
             PROVE  GateInv'
  OBVIOUS
<1>1. CASE EndOfBody
  <2>1. Underway /\ hop.status \in Statuses
    BY <1>1 DEF EndOfBody, GateInv, HopInv, Underway
  <2>2. QED
    BY <1>1, <2>1, AnswerKeeps DEF EndOfBody
<1>2. CASE PeerFails
  BY <1>2, FailKeeps DEF PeerFails, Underway
<1>3. CASE Deadline
  BY <1>3, FailKeeps DEF Deadline, GateInv, HopInv
<1>4. QED
  BY <1>1, <1>2, <1>3, CheckHostKeeps, ConnectKeeps, RedirectKeeps, RespondKeeps,
     DataKeeps DEF FetchStep, Peer

-----------------------------------------------------------------------------
(* The callers *)

\* What a caller may say, once it says something.
Kinds(caller) == IF caller = "preview" THEN PreviewFailures ELSE ErrorKinds
Says(caller, o) == (o.retryable => ~o.ok) /\ (o # NoOutcome /\ ~o.ok => o.kind \in Kinds(caller))

\* A call that carries a key was asked to stay on https, a preview asked what a
\* poll asks, and nobody has called before the call.
CallInv ==
  /\ call \in [caller : Callers \cup {"nobody"}, config : Configs \cup {NoConfig}]
  /\ Says(call.caller, outcome)
  /\ call.caller = "nobody" =>
       hop.stage = "idle" /\ outcome = NoOutcome /\ call.config = NoConfig
  /\ call.config.apiKey # "none" /\ call.caller # "uptime" /\ hop.stage # "idle" =>
       request.requireHttps
  /\ PreviewAsksAsPoll

Inv == GateInv /\ CallInv

\* A configuration's requests are requests; one that carries a key stays on
\* https, where its URL already is.
LEMMA WithKeyType ==
  ASSUME NEW config \in Configs, UsableKey(config)
  PROVE  /\ WithKey(config) \in Requests
         /\ WithKey(config).requireHttps = (config.apiKey # "none")
         /\ WithKey(config).requireHttps => WithKey(config).url.scheme = "https"
<1>1. config.url \in Urls /\ config.headers \in Headers
  BY DEF Configs
<1>2. /\ [config.url EXCEPT !.query = (config.apiKey = "query")] \in Urls
      /\ [config.url EXCEPT !.query = (config.apiKey = "query")].scheme = config.url.scheme
  BY <1>1 DEF Urls
<1>3. QED
  BY <1>1, <1>2 DEF WithKey, UsableKey, Requests, Headers

\* What each caller makes of a result is something it may say.
LEMMA ReadingSays == ASSUME NEW caller PROVE Says(caller, Reading) /\ Says(caller, Down)
BY DEF Says, Reading, Down

LEMMA FailureSays ==
  ASSUME NEW caller, NEW kind \in Kinds(caller), NEW retryable
  PROVE  Says(caller, Failure(kind, retryable))
BY DEF Says, Failure

LEMMA UptimeSays == result \in Results => Says("uptime", UptimeOutcome)
<1>1. {"blocked", "config_invalid"} \subseteq Kinds("uptime")
  BY DEF Kinds, ErrorKinds
<1>2. QED
  BY <1>1, ReadingSays, FailureSays DEF UptimeOutcome, Results

LEMMA CustomSays ==
  ASSUME result \in Results, NEW o \in CustomOutcome
  PROVE  Says("custom_json", o)
<1>1. Kinds("custom_json") = ErrorKinds
  BY DEF Kinds
<1>2. CASE ~result.ok
  <2>1. o = CustomFailure /\ result.failure \in {"invalid_url", "invalid_request", "blocked",
          "timeout", "network", "too_large", "too_many_redirects"}
    BY <1>2 DEF CustomOutcome, Results
  <2>2. {"config_invalid", "timeout", "network", "http_status", "blocked", "too_large"}
          \subseteq ErrorKinds
    BY DEF ErrorKinds
  <2>3. QED
    BY <1>1, <2>1, <2>2, FailureSays DEF CustomFailure
<1>3. CASE result.ok /\ result.status # "2xx"
  BY <1>1, <1>3, FailureSays DEF CustomOutcome, ErrorKinds
<1>4. CASE result.ok /\ result.status = "2xx"
  <2>1. o = Failure("invalid_response", FALSE)
        \/ \E slots \in [1..2 -> SlotOutcomes] : o = OfSlots(slots)
    BY <1>4 DEF CustomOutcome
  <2>2. ASSUME NEW slots \in [1..2 -> SlotOutcomes]
        PROVE  Says("custom_json", OfSlots(slots))
    <3>1. DOMAIN slots = 1..2 /\ 1 \in 1..2 /\ slots[1] \in SlotOutcomes
      OBVIOUS
    <3>2. CASE \E i \in DOMAIN slots : slots[i] = "stored"
      BY <3>2, ReadingSays DEF OfSlots
    <3>3. CASE ~\E i \in DOMAIN slots : slots[i] = "stored"
      <4>1. slots[1] \in ErrorKinds
        BY <3>1, <3>3 DEF SlotOutcomes, ErrorKinds
      <4>2. QED
        BY <1>1, <3>3, <4>1, FailureSays DEF OfSlots
    <3>4. QED
      BY <3>2, <3>3
  <2>3. Says("custom_json", Failure("invalid_response", FALSE))
    BY <1>1, FailureSays DEF ErrorKinds
  <2>4. QED
    BY <2>1, <2>2, <2>3
<1>5. QED
  BY <1>2, <1>3, <1>4 DEF Results

LEMMA PreviewSays ==
  ASSUME result \in Results, NEW o \in PreviewReply
  PROVE  Says("preview", o)
<1>1. Kinds("preview") = PreviewFailures
  BY DEF Kinds
<1>2. CASE ~result.ok
  <2>1. o = Failure(IF result.failure = "invalid_request" THEN "invalid_url"
                    ELSE result.failure, FALSE)
    BY <1>2 DEF PreviewReply
  <2>2. (IF result.failure = "invalid_request" THEN "invalid_url" ELSE result.failure)
          \in PreviewFailures
    BY <1>2 DEF Results, PreviewFailures
  <2>3. QED
    BY <1>1, <2>1, <2>2, FailureSays
<1>3. CASE result.ok
  <2>1. o \in {Failure("http_status", FALSE), Failure("not_json", FALSE), Reading}
    BY <1>3 DEF PreviewReply
  <2>2. {"http_status", "not_json"} \subseteq PreviewFailures
    BY DEF PreviewFailures
  <2>3. QED
    BY <1>1, <2>1, <2>2, ReadingSays, FailureSays
<1>4. QED
  BY <1>2, <1>3

LEMMA StockSays ==
  ASSUME NEW answer \in {"no key", "timeout", "network", "429", "401", "4xx", "5xx",
                         "not JSON", "2xx"}, NEW quote
  PROVE  Says("stock", StockOutcome(answer, quote))
<1>1. {"internal", "timeout", "network", "http_status", "invalid_response", "config_invalid"}
        \subseteq Kinds("stock")
  BY DEF Kinds, ErrorKinds
<1>2. QED
  BY <1>1, ReadingSays, FailureSays DEF StockOutcome

LEMMA InitInv == Init => Inv
<1> SUFFICES ASSUME Init
             PROVE  Inv
  OBVIOUS
<1>1. GateInv
  BY GateInit DEF Init
<1>2. CallInv
  BY DEF Init, FetchInit, NoHop, CallInv, Says, Kinds, NoOutcome, NoConfig, PreviewAsksAsPoll
<1>3. QED
  BY <1>1, <1>2 DEF Inv

\* A configuration polled with its key, by the worker or by the form.
LEMMA KeyedCallKeeps ==
  ASSUME Inv, NEW config \in Configs, NEW caller \in {"custom_json", "preview"},
         UsableKey(config), SafeFetch(WithKey(config)),
         call' = [caller |-> caller, config |-> config], UNCHANGED outcome,
         call.caller = "nobody"
  PROVE  Inv'
<1>1. GateInv'
  BY WithKeyType, SafeFetchKeeps DEF Inv
<1>2. request' = WithKey(config) /\ outcome = NoOutcome
  BY DEF SafeFetch, Inv, CallInv
<1>3. call'.caller = caller /\ call'.config = config
      /\ call' \in [caller : Callers \cup {"nobody"}, config : Configs \cup {NoConfig}]
  BY DEF Callers
<1>4. Says(caller, outcome)
  BY <1>2 DEF Says, NoOutcome
<1>5. request'.requireHttps = (config.apiKey # "none")
  BY <1>2, WithKeyType
<1>6. QED
  BY <1>1, <1>2, <1>3, <1>4, <1>5 DEF Inv, CallInv, PreviewAsksAsPoll, PollRequest

\* A call refused before it leaves.
LEMMA RefusedKeeps ==
  ASSUME Inv, NEW config \in Configs, NEW caller \in Callers, NEW o,
         Says(caller, o), call.caller = "nobody",
         call' = [caller |-> caller, config |-> config], outcome' = o,
         UNCHANGED fetchVars
  PROVE  Inv'
<1>1. GateInv' /\ hop'.stage = "idle"
  BY DEF Inv, GateInv, FetchTypeOK, HopInv, PeerInv, HttpsInv, HeadersStayHome, Underway,
         fetchVars, CallInv
<1>2. call'.caller = caller /\ call'.caller # "nobody"
      /\ call' \in [caller : Callers \cup {"nobody"}, config : Configs \cup {NoConfig}]
  BY DEF Callers
<1>3. QED
  BY <1>1, <1>2 DEF Inv, CallInv, PreviewAsksAsPoll

\* The answer is turned into what the caller says.
LEMMA ReturnKeeps ==
  ASSUME Inv, NEW outcomes, Return(outcomes), call.caller # "nobody",
         \A o \in outcomes : Says(call.caller, o)
  PROVE  Inv'
<1>1. GateInv' /\ UNCHANGED <<request, hop, sent, result, call>>
  BY DEF Return, Inv, GateInv, FetchTypeOK, HopInv, PeerInv, HttpsInv, HeadersStayHome,
         Underway, fetchVars
<1>2. Says(call.caller, outcome')
  BY DEF Return
<1>3. QED
  BY <1>1, <1>2 DEF Inv, CallInv, PreviewAsksAsPoll

LEMMA NextInv == Inv /\ [Next]_vars => Inv'
<1> SUFFICES ASSUME Inv, [Next]_vars
             PROVE  Inv'
  OBVIOUS
<1>1. ASSUME NEW config \in Configs, call.caller = "nobody", UptimePolls(config)
      PROVE  Inv'
  <2> DEFINE asked == [url |-> config.url, readBody |-> FALSE, headers |-> "none",
                       requireHttps |-> FALSE]
  <2>1. asked \in Requests /\ ~asked.requireHttps
    BY DEF Configs, Requests, Headers
  <2>2. GateInv'
    BY <1>1, <2>1, SafeFetchKeeps DEF Inv, UptimePolls
  <2>3. outcome' = NoOutcome
    BY <1>1 DEF Inv, CallInv, UptimePolls
  <2>4. call'.caller = "uptime"
        /\ call' \in [caller : Callers \cup {"nobody"}, config : Configs \cup {NoConfig}]
    BY <1>1 DEF UptimePolls, Callers
  <2>5. Says("uptime", outcome')
    BY <2>3 DEF Says, NoOutcome
  <2>6. QED
    BY <2>2, <2>4, <2>5 DEF Inv, CallInv, PreviewAsksAsPoll
<1>2. ASSUME NEW config \in Configs, call.caller = "nobody", CustomPolls(config)
      PROVE  Inv'
  <2>1. "config_invalid" \in Kinds("custom_json")
    BY DEF Kinds, ErrorKinds
  <2>2. CASE outcome' = Failure("config_invalid", FALSE) /\ UNCHANGED fetchVars
    BY <1>2, <2>1, <2>2, FailureSays, RefusedKeeps DEF CustomPolls, Callers
  <2>3. CASE UsableKey(config) /\ SafeFetch(PollRequest(config)) /\ UNCHANGED outcome
    BY <1>2, <2>3, KeyedCallKeeps DEF CustomPolls, PollRequest
  <2>4. QED
    BY <1>2, <2>2, <2>3 DEF CustomPolls
<1>3. ASSUME NEW config \in Configs, call.caller = "nobody", PreviewRuns(config)
      PROVE  Inv'
  <2>1. "invalid_url" \in Kinds("preview")
    BY DEF Kinds, PreviewFailures
  <2>2. CASE outcome' = Failure("invalid_url", FALSE) /\ UNCHANGED fetchVars
    BY <1>3, <2>1, <2>2, FailureSays, RefusedKeeps DEF PreviewRuns, Callers
  <2>3. CASE UsableKey(config) /\ SafeFetch(PreviewRequest(config)) /\ UNCHANGED outcome
    BY <1>3, <2>3, KeyedCallKeeps DEF PreviewRuns, PreviewRequest
  <2>4. QED
    BY <1>3, <2>2, <2>3 DEF PreviewRuns
<1>4. ASSUME call.caller = "nobody", StockPolls
      PROVE  Inv'
  <2>1. GateInv' /\ hop'.stage = "idle"
    BY <1>4 DEF StockPolls, Inv, GateInv, FetchTypeOK, HopInv, PeerInv, HttpsInv,
                HeadersStayHome, Underway, fetchVars, CallInv
  <2>2. Says("stock", outcome')
    BY <1>4, StockSays DEF StockPolls
  <2>3. call'.caller = "stock" /\ call'.config = NoConfig
        /\ call' \in [caller : Callers \cup {"nobody"}, config : Configs \cup {NoConfig}]
    BY <1>4 DEF StockPolls, Callers
  <2>4. QED
    BY <2>1, <2>2, <2>3 DEF Inv, CallInv, PreviewAsksAsPoll
<1>5. CASE Work
  <2>1. GateInv'
    BY <1>5, FetchStepKeeps DEF Work, Inv
  <2>2. hop.stage # "idle" /\ UNCHANGED <<request, call, outcome>>
    BY <1>5 DEF Work, Inv, GateInv, HopInv, Underway, FetchStep, Peer, CheckHost, Connect,
                Redirect, Respond, Data, EndOfBody, PeerFails, Deadline
  <2>3. QED
    BY <1>5, <2>1, <2>2 DEF Inv, CallInv, PreviewAsksAsPoll, Work
<1>6. ASSUME NEW caller \in Callers, Answered(caller)
      PROVE  call.caller = caller /\ result \in Results
  BY <1>6 DEF Answered, Inv, GateInv, FetchTypeOK
<1>7. CASE UptimeEnds
  BY <1>6, <1>7, UptimeSays, ReturnKeeps DEF UptimeEnds, Answered, Callers
<1>8. CASE CustomEnds
  BY <1>6, <1>8, CustomSays, ReturnKeeps DEF CustomEnds, Answered, Callers
<1>9. CASE PreviewEnds
  BY <1>6, <1>9, PreviewSays, ReturnKeeps DEF PreviewEnds, Answered, Callers
<1>10. CASE PreviewLost
  <2>1. "network" \in Kinds("preview")
    BY DEF Kinds, PreviewFailures
  <2>2. QED
    BY <1>10, <2>1, FailureSays, ReturnKeeps DEF PreviewLost
<1>11. CASE UNCHANGED vars
  BY <1>11 DEF vars, fetchVars, Inv, GateInv, FetchTypeOK, HopInv, PeerInv, HttpsInv,
               HeadersStayHome, Underway, CallInv, PreviewAsksAsPoll
<1>12. QED
  BY <1>1, <1>2, <1>3, <1>4, <1>5, <1>7, <1>8, <1>9, <1>10, <1>11
     DEF Next, Start, Ends

LEMMA Invariant == Spec => []Inv
<1>1. QED
  BY InitInv, NextInv, PTL DEF Spec

-----------------------------------------------------------------------------
(* Results *)

\* However many redirects a peer sends a call through, the user's headers stay
\* at the origin the user named, a key stays on https, and what is parsed is a
\* body within the cap (safe-fetch.ts, custom-json.ts, widget-preview.ts).
THEOREM CallsKeepToTheirBounds == Spec => []CallSound
<1>1. Inv => CallSound
  <2> SUFFICES ASSUME Inv
               PROVE  CallSound
    OBVIOUS
  <2>1. TypeOK
    BY DEF Inv, GateInv, CallInv, TypeOK, Says, Kinds
  <2>2. KeyOverHttps
    BY DEF Inv, GateInv, HopInv, HttpsInv, CallInv, KeyOverHttps
  <2>3. BodyWithinCap
    BY FetchAssumption DEF Inv, GateInv, FetchTypeOK, BodyWithinCap
  <2>4. QED
    BY <2>1, <2>2, <2>3 DEF Inv, GateInv, CallSound
<1>2. QED
  BY <1>1, Invariant, PTL

\* No socket is opened to an address that is refused, although every hop
\* resolves its host twice and DNS may answer differently each time
\* (safe-fetch.ts: resolveAndValidate, guardedLookup).
THEOREM SocketsStayPublic == Spec => []ConnectsWhereAllowed
<1>1. Inv => ConnectsWhereAllowed
  BY DEF Inv, GateInv, PeerInv, ConnectsWhereAllowed
<1>2. QED
  BY <1>1, Invariant, PTL

\* The preview of a configuration sends the request its polls will send.
THEOREM PreviewIsAPoll == Spec => []PreviewAsksAsPoll
<1>1. Inv => PreviewAsksAsPoll
  BY DEF Inv, CallInv
<1>2. QED
  BY <1>1, Invariant, PTL

-----------------------------------------------------------------------------
(* What a caller waits for *)

\* A call without an outcome has its hop under way or its result, and whatever a
\* peer must do for the hop is watched by the deadline.
CallHeard ==
  call.caller # "nobody" /\ outcome = NoOutcome =>
    /\ call.caller # "stock"
    /\ hop.stage # "idle"
    /\ hop.stage \in {"connecting", "waiting", "body"} => hop.timer

\* The order in which a hop goes through its stages.
Place(stage) ==
  CASE stage = "checking" -> 1
    [] stage = "connecting" -> 2
    [] stage = "waiting" -> 3
    [] stage = "body" -> 4
    [] stage = "done" -> 5
    [] OTHER -> 0

\* Further on: by a redirect, by a stage, or by some bytes of the body. TypeOK bounds
\* all three, so that nothing goes further on for ever.
Ahead(now, next) ==
  \/ next.redirects > now.redirects
  \/ next.redirects = now.redirects /\ Place(next.stage) > Place(now.stage)
  \/ next.redirects = now.redirects /\ next.stage = now.stage /\ next.received > now.received

\* Whatever happens to a call, only it moves, and only further on.
CallMovesOn == [][IF Work THEN Ahead(hop, hop') ELSE hop.stage = "idle" \/ hop' = hop]_vars

\* To settle is the last stage.
LEMMA EndIsAhead ==
  ASSUME GateInv, Underway, NEW o, Settle(o)
  PROVE  Ahead(hop, hop')
<1>1. hop \in Hops /\ hop.stage \in {"checking", "connecting", "waiting", "body"}
  BY DEF GateInv, FetchTypeOK, Hops, Underway
<1>2. hop'.redirects = hop.redirects /\ hop'.stage = "done"
  BY <1>1 DEF Settle, Hops
<1>3. Place(hop.stage) \in 1..4 /\ Place(hop'.stage) = 5
  BY <1>1, <1>2 DEF Place
<1> QED
  BY <1>2, <1>3 DEF Ahead

\* A step of a call brings it further on, and sets the deadline before it asks a peer.
LEMMA StepIsAhead ==
  ASSUME GateInv, FetchStep
  PROVE  /\ Ahead(hop, hop') /\ hop.stage # "idle" /\ hop'.stage # "idle"
         /\ (hop.stage \in {"connecting", "waiting", "body"} => hop.timer) =>
              (hop'.stage \in {"connecting", "waiting", "body"} => hop'.timer)
<1> DEFINE Watched == hop.stage \in {"connecting", "waiting", "body"} => hop.timer
<1> DEFINE Good == /\ Ahead(hop, hop') /\ hop.stage # "idle" /\ hop'.stage # "idle"
                   /\ Watched => (hop'.stage \in {"connecting", "waiting", "body"} => hop'.timer)
<1>1. hop \in Hops
  BY DEF GateInv, FetchTypeOK, Hops
<1>2. ASSUME Underway, NEW o, Settle(o) PROVE Good
  <2>1. hop'.stage = "done"
    BY <1>1, <1>2 DEF Settle, Hops
  <2> QED
    BY <1>2, <2>1, EndIsAhead DEF Underway
<1>3. ASSUME Underway, NEW failure, Fail(failure) PROVE Good
  BY <1>2, <1>3 DEF Fail
<1>4. CASE CheckHost
  <2>1. hop.stage = "checking" /\ Underway
    BY <1>4 DEF CheckHost, Underway
  <2>2. (\E failure : Fail(failure)) \/ hop' = [hop EXCEPT !.stage = "connecting", !.timer = TRUE]
    BY <1>4 DEF CheckHost
  <2>3. CASE hop' = [hop EXCEPT !.stage = "connecting", !.timer = TRUE]
    <3>1. hop'.redirects = hop.redirects /\ hop'.stage = "connecting" /\ hop'.timer
      BY <1>1, <2>3 DEF Hops
    <3> QED
      BY <2>1, <3>1 DEF Ahead, Place
  <2> QED
    BY <1>3, <2>1, <2>2, <2>3
<1>5. CASE Connect
  <2>1. hop.stage = "connecting" /\ Underway
    BY <1>5 DEF Connect, Underway
  <2>2. (\E failure : Fail(failure)) \/ \E a : hop' = [hop EXCEPT !.stage = "waiting", !.peer = a]
    BY <1>5 DEF Connect
  <2>3. ASSUME NEW a, hop' = [hop EXCEPT !.stage = "waiting", !.peer = a] PROVE Good
    <3>1. hop'.redirects = hop.redirects /\ hop'.stage = "waiting" /\ hop'.timer = hop.timer
      BY <1>1, <2>3 DEF Hops
    <3> QED
      BY <2>1, <3>1 DEF Ahead, Place
  <2> QED
    BY <1>3, <2>1, <2>2, <2>3
<1>6. ASSUME NEW location \in Locations, Redirect(location) PROVE Good
  <2>1. hop.stage = "waiting" /\ Underway
    BY <1>6 DEF Redirect, Underway
  <2>2. \/ \E failure : Fail(failure)
        \/ hop.redirects < MaxRedirects /\ hop' = HopTo(location, hop.redirects + 1)
    BY <1>6 DEF Redirect
  <2>3. CASE hop.redirects < MaxRedirects /\ hop' = HopTo(location, hop.redirects + 1)
    <3>1. hop'.redirects = hop.redirects + 1 /\ hop'.stage = "checking"
      BY <2>3 DEF HopTo, NoHop
    <3>2. hop.redirects \in Nat
      BY <1>1, FetchAssumption DEF Hops
    <3> QED
      BY <2>1, <3>1, <3>2 DEF Ahead
  <2> QED
    BY <1>3, <2>1, <2>2, <2>3
<1>7. ASSUME NEW status \in Statuses, Respond(status) PROVE Good
  <2>1. hop.stage = "waiting" /\ Underway
    BY <1>7 DEF Respond, Underway
  <2>2. (\E o : Settle(o)) \/ hop' = [hop EXCEPT !.stage = "body", !.status = status]
    BY <1>7 DEF Respond, ReadingBody
  <2>3. CASE hop' = [hop EXCEPT !.stage = "body", !.status = status]
    <3>1. hop'.redirects = hop.redirects /\ hop'.stage = "body" /\ hop'.timer = hop.timer
      BY <1>1, <2>3 DEF Hops
    <3> QED
      BY <2>1, <3>1 DEF Ahead, Place
  <2> QED
    BY <1>2, <2>1, <2>2, <2>3
<1>8. ASSUME NEW chunk \in 1..MaxChunk, Data(chunk) PROVE Good
  <2>1. hop.stage = "body" /\ Underway
    BY <1>8 DEF Data, Underway
  <2>2. (\E failure : Fail(failure)) \/ hop' = [hop EXCEPT !.received = hop.received + chunk]
    BY <1>8 DEF Data
  <2>3. CASE hop' = [hop EXCEPT !.received = hop.received + chunk]
    <3>1. hop'.redirects = hop.redirects /\ hop'.stage = hop.stage /\ hop'.timer = hop.timer
          /\ hop'.received = hop.received + chunk
      BY <1>1, <2>3 DEF Hops
    <3>2. hop.received \in Nat /\ chunk \in Nat \ {0}
      BY <1>1, FetchAssumption DEF Hops
    <3> QED
      BY <2>1, <3>1, <3>2 DEF Ahead
  <2> QED
    BY <1>3, <2>1, <2>2, <2>3
<1>9. CASE EndOfBody \/ PeerFails \/ Deadline
  <2>1. Underway
    BY <1>9 DEF EndOfBody, PeerFails, Deadline, Underway, GateInv, HopInv
  <2> QED
    BY <1>2, <1>3, <1>9, <2>1 DEF EndOfBody, PeerFails, Deadline
<1> QED
  BY <1>4, <1>5, <1>6, <1>7, <1>8, <1>9 DEF FetchStep, Peer

\* stock never leaves its caller without an outcome.
LEMMA StockAnswers ==
  ASSUME NEW answer, NEW quote
  PROVE  StockOutcome(answer, quote) # NoOutcome
BY DEF StockOutcome, Failure, Reading, NoOutcome

\* A call that is taken up is checked first; one that is not has its outcome.
LEMMA StartIsHeard ==
  ASSUME Inv, Start
  PROVE  CallHeard'
<1>1. hop \in Hops
  BY DEF Inv, GateInv, FetchTypeOK, Hops
<1>2. ASSUME NEW req, SafeFetch(req)
      PROVE  hop'.stage \in {"checking", "done"}
  <2>1. CASE Fail("invalid_url")
    BY <1>1, <2>1 DEF Fail, Settle, Hops
  <2>2. CASE hop' = HopTo(req.url, 0)
    BY <2>2 DEF HopTo, NoHop
  <2> QED
    BY <1>2, <2>1, <2>2 DEF SafeFetch
<1>3. ASSUME NEW config, UptimePolls(config) PROVE CallHeard'
  BY <1>2, <1>3 DEF UptimePolls, CallHeard
<1>4. ASSUME NEW config, CustomPolls(config) PROVE CallHeard'
  <2>1. Failure("config_invalid", FALSE) # NoOutcome
    BY DEF Failure, NoOutcome
  <2> QED
    BY <1>2, <1>4, <2>1 DEF CustomPolls, CallHeard
<1>5. ASSUME NEW config, PreviewRuns(config) PROVE CallHeard'
  <2>1. Failure("invalid_url", FALSE) # NoOutcome
    BY DEF Failure, NoOutcome
  <2> QED
    BY <1>2, <1>5, <2>1 DEF PreviewRuns, CallHeard
<1>6. CASE StockPolls
  BY <1>6, StockAnswers DEF StockPolls, CallHeard
<1> QED
  BY <1>3, <1>4, <1>5, <1>6 DEF Start

\* A caller never waits for what nobody will bring, and what it waits for comes closer
\* with each step: redirects are counted, bytes are capped, and silence is cut off
\* (safe-fetch.ts: requestOnce, finish): EveryCallReturns, but for the fairness.
THEOREM CallsComeToAnEnd == Spec => []CallHeard /\ CallMovesOn
<1>1. Init => CallHeard
  BY DEF Init, CallHeard
<1>2. Inv /\ CallHeard /\ [Next]_vars => CallHeard'
  <2> SUFFICES ASSUME Inv, CallHeard, [Next]_vars PROVE CallHeard'
    OBVIOUS
  <2>1. CASE Start
    BY <2>1, StartIsHeard
  <2>2. CASE Work
    BY <2>2, StepIsAhead DEF Work, CallHeard, Inv
  <2>3. CASE Ends
    BY <2>3 DEF Ends, UptimeEnds, CustomEnds, PreviewEnds, Answered, Return, fetchVars, CallHeard
  <2>4. CASE PreviewLost
    BY <2>4 DEF PreviewLost, Return, fetchVars, CallHeard
  <2>5. CASE UNCHANGED vars
    BY <2>5 DEF vars, fetchVars, CallHeard
  <2> QED
    BY <2>1, <2>2, <2>3, <2>4, <2>5 DEF Next
<1>3. Inv /\ [Next]_vars =>
        [IF Work THEN Ahead(hop, hop') ELSE hop.stage = "idle" \/ hop' = hop]_vars
  <2> SUFFICES ASSUME Inv, Next
               PROVE  IF Work THEN Ahead(hop, hop') ELSE hop.stage = "idle" \/ hop' = hop
    OBVIOUS
  <2>1. CASE Work
    <3>1. Ahead(hop, hop')
      BY <2>1, StepIsAhead DEF Work, Inv
    <3> QED
      BY <2>1, <3>1
  <2>2. CASE Start
    <3>1. hop.stage = "idle"
      BY <2>2 DEF Start, Inv, CallInv
    <3>2. ~FetchStep
      BY <3>1, StepIsAhead DEF Inv
    <3> QED
      BY <3>1, <3>2 DEF Work
  <2>3. CASE ~Work /\ (Ends \/ PreviewLost)
    BY <2>3 DEF Ends, UptimeEnds, CustomEnds, PreviewEnds, PreviewLost, Return, fetchVars
  <2> QED
    BY <2>1, <2>2, <2>3 DEF Next
<1>4. QED
  BY <1>1, <1>2, <1>3, Invariant, PTL DEF Spec, CallMovesOn

-----------------------------------------------------------------------------
(* Numbers and recursion *)

\* Induction over the numbers of a set: a set with 0 that has the successor of each
\* of its numbers has them all.
LEMMA EveryNumber ==
    ASSUME NEW P \in SUBSET Nat, 0 \in P, \A n \in P : n + 1 \in P
    PROVE  P = Nat
<1>1. SUFFICES ASSUME NEW n \in Nat, n \notin P PROVE FALSE
  OBVIOUS
<1> DEFINE Without == {T \in SUBSET (0..n) : \E k \in 0..n : k \notin P /\ T = 0..k}
<1>2. IsFiniteSet(0..n)
  BY FS_Interval
<1>3. IsWellFoundedOn(StrictSubsetOrdering(0..n), SUBSET (0..n))
  BY <1>2, FS_StrictSubsetOrderingWellFounded, FS_FiniteSubsetsOfFinite
<1>4. 0..n \in Without
  BY <1>1
<1>5. PICK T \in Without : \A U \in Without : ~(<<U, T>> \in StrictSubsetOrdering(0..n))
  <2> HIDE DEF Without
  <2>1. Without \subseteq SUBSET (0..n)
    BY DEF Without
  <2> QED
    BY <1>3, <1>4, <2>1, WFMin
<1>6. PICK k \in 0..n : k \notin P /\ T = 0..k
  BY <1>5
<1>7. k # 0 /\ k - 1 \in 0..n
  BY <1>6
<1>8. k - 1 \notin P
  BY <1>6, <1>7
<1> DEFINE U == 0..k - 1
<1>9. U \in Without
  BY <1>6, <1>7, <1>8
<1>10. U \subseteq T /\ U # T
  <2>1. k \in T /\ k \notin U
    BY <1>6
  <2> QED
    BY <1>6, <1>7, <2>1
<1> QED
  BY <1>5, <1>9, <1>10 DEF StrictSubsetOrdering

LEMMA LeastNumber ==
    ASSUME NEW S \in SUBSET Nat, S # {}
    PROVE  \E k \in S : \A j \in S : k <= j
<1> DEFINE P == {n \in Nat : \A j \in S : n <= j}
<1>1. SUFFICES ASSUME \A k \in S : k \notin P PROVE FALSE
  OBVIOUS
<1>2. \A n \in P : n + 1 \in P
  <2> TAKE n \in P
  <2>1. \A j \in S : n <= j /\ n # j
    BY <1>1
  <2> QED
    BY <2>1
<1>3. 0 \in P
  OBVIOUS
<1>4. P = Nat
  <2> HIDE DEF P
  <2>1. P \in SUBSET Nat
    BY DEF P
  <2> QED
    BY <1>2, <1>3, <2>1, EveryNumber
<1> QED
  BY <1>1, <1>4

\* What ResolveJsonPath computes, as the function it defines.
Found(root, path, n, f) ==
  f = [k \in 0..n |-> IF k = 0 THEN root ELSE StepInto(f[k - 1], path[k])]

LEMMA FoundExists ==
    ASSUME NEW root, NEW path
    PROVE  \A n \in Nat : \E f : Found(root, path, n, f)
<1> DEFINE P == {n \in Nat : \E f : Found(root, path, n, f)}
<1>1. 0 \in P
  <2> DEFINE f == [k \in 0..0 |-> root]
  <2>1. f = [k \in 0..0 |-> IF k = 0 THEN root ELSE StepInto(f[k - 1], path[k])]
    OBVIOUS
  <2> QED
    BY <2>1 DEF Found
<1>2. ASSUME NEW n \in P PROVE n + 1 \in P
  <2>1. PICK f : Found(root, path, n, f)
    OBVIOUS
  <2> DEFINE g == [k \in 0..n + 1 |-> IF k = n + 1 THEN StepInto(f[n], path[n + 1]) ELSE f[k]]
  <2>2. ASSUME NEW k \in 0..n + 1
        PROVE  g[k] = IF k = 0 THEN root ELSE StepInto(g[k - 1], path[k])
    <3>1. CASE k = n + 1
      BY <3>1
    <3>2. CASE k # n + 1
      <4>1. k \in 0..n /\ (k # 0 => k - 1 \in 0..n /\ k - 1 # n + 1)
        BY <3>2
      <4>2. f[k] = IF k = 0 THEN root ELSE StepInto(f[k - 1], path[k])
        BY <2>1, <4>1 DEF Found
      <4> QED
        BY <3>2, <4>1, <4>2
    <3> QED
      BY <3>1, <3>2
  <2>3. Found(root, path, n + 1, g)
    BY <2>2 DEF Found
  <2> QED
    BY <2>3
<1>3. P = Nat
  <2> HIDE DEF P
  <2>1. P \in SUBSET Nat
    BY DEF P
  <2> QED
    BY <1>1, <1>2, <2>1, EveryNumber
<1> QED
  BY <1>3

LEMMA ResolveIs ==
    ASSUME NEW root, NEW S, NEW path \in Seq(S)
    PROVE  \E f : Found(root, path, Len(path), f) /\ ResolveJsonPath(root, path) = f[Len(path)]
<1>1. \E f : Found(root, path, Len(path), f)
  BY FoundExists, LenProperties
<1> DEFINE f == CHOOSE f : f = [k \in 0..Len(path) |-> IF k = 0 THEN root ELSE StepInto(f[k - 1], path[k])]
<1>2. Found(root, path, Len(path), f)
  BY <1>1 DEF Found
<1>3. ResolveJsonPath(root, path) = f[Len(path)]
  BY DEF ResolveJsonPath
<1> QED
  BY <1>2, <1>3


\* Two such functions agree on the steps that their paths share.
LEMMA FoundAgree ==
    ASSUME NEW root, NEW p, NEW q, NEW m \in Nat, NEW n \in Nat, m <= n,
           \A k \in 1..m : p[k] = q[k],
           NEW f, NEW g, Found(root, p, m, f), Found(root, q, n, g)
    PROVE  f[m] = g[m]
<1> DEFINE P == {k \in Nat : k <= m => f[k] = g[k]}
<1>1. 0 \in P
  BY DEF Found
<1>2. ASSUME NEW k \in P PROVE k + 1 \in P
  <2>1. SUFFICES ASSUME k + 1 <= m PROVE f[k + 1] = g[k + 1]
    OBVIOUS
  <2>2. f[k] = g[k] /\ p[k + 1] = q[k + 1] /\ k + 1 \in 0..m /\ k + 1 \in 0..n /\ k + 1 # 0 /\ (k + 1) - 1 = k
    BY <2>1
  <2>3. f[k + 1] = StepInto(f[k], p[k + 1])
    BY <2>2 DEF Found
  <2>4. g[k + 1] = StepInto(g[k], q[k + 1])
    BY <2>2 DEF Found
  <2> QED
    BY <2>2, <2>3, <2>4
<1>3. P = Nat
  <2> HIDE DEF P
  <2>1. P \in SUBSET Nat
    BY DEF P
  <2> QED
    BY <1>1, <1>2, <2>1, EveryNumber
<1> QED
  BY <1>3

Steps == Keys \cup Indexes

\* What a path finds, one step at a time.
LEMMA ResolveRoot == ASSUME NEW root PROVE ResolveJsonPath(root, <<>>) = root
<1>1. <<>> \in Seq(Steps) /\ Len(<<>>) = 0
  BY EmptySeq
<1>2. PICK f : Found(root, <<>>, 0, f) /\ ResolveJsonPath(root, <<>>) = f[0]
  BY <1>1, ResolveIs
<1> QED
  BY <1>2 DEF Found

LEMMA ResolveStep ==
    ASSUME NEW root, NEW path \in Seq(Steps), NEW step \in Steps
    PROVE  ResolveJsonPath(root, Append(path, step)) = StepInto(ResolveJsonPath(root, path), step)
<1> DEFINE n == Len(path)  longer == Append(path, step)
<1>1. /\ longer \in Seq(Steps) /\ Len(longer) = n + 1 /\ n \in Nat
      /\ longer[n + 1] = step /\ \A k \in 1..n : path[k] = longer[k]
  BY AppendProperties, LenProperties
<1>2. PICK f : Found(root, path, n, f) /\ ResolveJsonPath(root, path) = f[n]
  BY ResolveIs
<1>3. PICK g : Found(root, longer, n + 1, g) /\ ResolveJsonPath(root, longer) = g[n + 1]
  BY <1>1, ResolveIs
<1>4. f[n] = g[n]
  <2> HIDE DEF longer, n
  <2>1. n <= n + 1 /\ n + 1 \in Nat
    BY <1>1
  <2> QED
    BY <1>1, <1>2, <1>3, <2>1, FoundAgree
<1>5. g[n + 1] = StepInto(g[n], step)
  <2>1. n + 1 \in 0..n + 1 /\ n + 1 # 0 /\ (n + 1) - 1 = n
    BY <1>1
  <2> QED
    BY <1>1, <1>3, <2>1 DEF Found
<1> QED
  BY <1>2, <1>3, <1>4, <1>5

-----------------------------------------------------------------------------
(* What the walk of the preview reaches *)

\* A node of the walk is what its own path finds, under steps a path can spell.
NodeSound(root, node) ==
  /\ node.path \in Seq(Steps) /\ node.value \in Values
  /\ node.value = ResolveJsonPath(root, node.path)
  /\ node.path = <<>> => node.value = root
  /\ node.path # <<>> /\ root.type = "object" => node.path[1] \notin Indexes
  /\ \A i \in DOMAIN node.path : node.path[i] \in Indexes \/ IsIdentifier(node.path[i])

LEMMA ValueType ==
    ASSUME NEW v \in Values
    PROVE  /\ v.type \in Types /\ v.items \in Seq(Values) /\ v.keys \in Seq(Keys)
           /\ v.type = "object" =>
                /\ Len(v.keys) = Len(v.items)
                /\ \A i, j \in DOMAIN v.keys : v.keys[i] = v.keys[j] => i = j
  BY JsonAssumption

\* One step of the walk and one of the path find the same.
LEMMA MemberSound ==
    ASSUME NEW root, NEW node, NodeSound(root, node),
           NEW i \in DOMAIN node.value.items, NEW step \in Steps,
           StepInto(node.value, step) = node.value.items[i],
           step \in Indexes \/ IsIdentifier(step),
           node.path = <<>> => step \notin Indexes \/ root.type # "object"
    PROVE  NodeSound(root, Member(node, i, step))
<1> DEFINE longer == Append(node.path, step)
<1>1. node.path \in Seq(Steps) /\ node.value \in Values
  BY DEF NodeSound
<1>2. /\ longer \in Seq(Steps) /\ longer # <<>> /\ Len(longer) = Len(node.path) + 1
      /\ longer[Len(node.path) + 1] = step
      /\ \A k \in 1..Len(node.path) : longer[k] = node.path[k]
      /\ Len(node.path) \in Nat /\ DOMAIN longer = 1..Len(node.path) + 1
      /\ DOMAIN node.path = 1..Len(node.path)
  <2>1. longer \in Seq(Steps)
    BY <1>1, AppendProperties
  <2> QED
    BY <1>1, <2>1, AppendProperties, LenProperties
<1>3. node.value.items[i] \in Values
  <2>1. node.value.items \in Seq(Values)
    BY <1>1, ValueType
  <2> QED
    BY <2>1, ElementOfSeq, LenProperties
<1>4. ResolveJsonPath(root, longer) = node.value.items[i]
  BY <1>1, ResolveStep DEF NodeSound
<1>5. root.type = "object" => longer[1] \notin Indexes
  <2>1. CASE node.path = <<>>
    BY <1>2, <2>1
  <2>2. CASE node.path # <<>>
    <3>1. Len(node.path) >= 1
      BY <1>1, <2>2, EmptySeq
    <3> QED
      BY <1>2, <2>2, <3>1 DEF NodeSound
  <2> QED
    BY <2>1, <2>2
<1>6. \A k \in DOMAIN longer : longer[k] \in Indexes \/ IsIdentifier(longer[k])
  BY <1>2 DEF NodeSound
<1>7. Member(node, i, step).path = longer /\ Member(node, i, step).value = node.value.items[i]
  BY DEF Member
<1> QED
  BY <1>2, <1>3, <1>4, <1>5, <1>6, <1>7 DEF NodeSound

LEMMA BelowSound ==
    ASSUME NEW root, NEW node, NodeSound(root, node), NEW child \in Below(node)
    PROVE  NodeSound(root, child)
<1>1. node.value \in Values
  BY DEF NodeSound
<1>2. CASE node.value.type = "list" /\ child \in Samples(node)
  <2>1. 1 \in DOMAIN node.value.items /\ child = Member(node, 1, SampleElement)
    BY <1>2 DEF Samples
  <2>2. 1 <= Len(node.value.items)
    BY <1>1, <2>1, ValueType, LenProperties
  <2>3. StepInto(node.value, SampleElement) = node.value.items[1]
    BY <1>2, <2>2 DEF StepInto, SampleElement, Indexes, IndexOf
  <2>4. SampleElement \in Indexes /\ SampleElement \in Steps
    BY DEF SampleElement, Indexes, Steps
  <2>5. node.path = <<>> => root.type # "object"
    BY <1>2 DEF NodeSound
  <2> QED
    BY <2>1, <2>3, <2>4, <2>5, MemberSound
<1>3. CASE node.value.type = "object" /\ child \in Members(node)
  <2>1. PICK i \in DOMAIN node.value.keys :
          IsIdentifier(node.value.keys[i]) /\ child = Member(node, i, node.value.keys[i])
    BY <1>3 DEF Members
  <2>2. i \in DOMAIN node.value.items /\ node.value.keys[i] \in Steps
    BY <1>1, <1>3, <2>1, ValueType, LenProperties, ElementOfSeq DEF Steps
  <2>3. node.value.keys[i] \notin Indexes
    BY <2>1 DEF IsIdentifier
  <2>4. \A j \in DOMAIN node.value.keys : node.value.keys[j] = node.value.keys[i] => j = i
    BY <1>1, <1>3, <2>1, ValueType
  <2>5. StepInto(node.value, node.value.keys[i]) = node.value.items[i]
    BY <1>3, <2>1, <2>3, <2>4 DEF StepInto
  <2> QED
    BY <2>1, <2>2, <2>3, <2>5, MemberSound
<1> QED
  BY <1>2, <1>3 DEF Below


\* The levels of the walk, as the function that Walk defines.
Levels(root, n, f) ==
  f = [d \in 0..n |-> IF d = 0 THEN {Root(root)} ELSE UNION {Below(node) : node \in f[d - 1]}]

LEMMA LevelsExist == ASSUME NEW root PROVE \A n \in Nat : \E f : Levels(root, n, f)
<1> DEFINE P == {n \in Nat : \E f : Levels(root, n, f)}
           NextLevel(level) == UNION {Below(node) : node \in level}
<1>1. 0 \in P
  <2> DEFINE f == [d \in 0..0 |-> {Root(root)}]
  <2>1. f = [d \in 0..0 |-> IF d = 0 THEN {Root(root)} ELSE UNION {Below(node) : node \in f[d - 1]}]
    OBVIOUS
  <2> QED
    BY <2>1 DEF Levels
<1>2. ASSUME NEW n \in P PROVE n + 1 \in P
  <2>1. PICK f : Levels(root, n, f)
    OBVIOUS
  <2> DEFINE g == [d \in 0..n + 1 |-> IF d = n + 1 THEN NextLevel(f[n]) ELSE f[d]]
  <2>2. ASSUME NEW d \in 0..n + 1
        PROVE  g[d] = IF d = 0 THEN {Root(root)} ELSE NextLevel(g[d - 1])
    <3>1. CASE d = n + 1
      <4>1. d # 0 /\ d - 1 = n /\ n \in 0..n + 1 /\ n # n + 1
        BY <3>1
      <4>2. g[d] = NextLevel(f[n]) /\ g[d - 1] = f[n]
        BY <3>1, <4>1
      <4> QED
        BY <4>1, <4>2
    <3>2. CASE d # n + 1
      <4>1. d \in 0..n /\ (d # 0 => d - 1 \in 0..n /\ d - 1 # n + 1)
        BY <3>2
      <4>2. f[d] = IF d = 0 THEN {Root(root)} ELSE NextLevel(f[d - 1])
        BY <2>1, <4>1 DEF Levels
      <4>3. g[d] = f[d] /\ (d # 0 => g[d - 1] = f[d - 1])
        BY <3>2, <4>1
      <4> QED
        BY <4>2, <4>3
    <3> QED
      BY <3>1, <3>2
  <2>3. Levels(root, n + 1, g)
    BY <2>2 DEF Levels
  <2> QED
    BY <2>3
<1>3. P = Nat
  <2> HIDE DEF P
  <2>1. P \in SUBSET Nat
    BY DEF P
  <2> QED
    BY <1>1, <1>2, <2>1, EveryNumber
<1> QED
  BY <1>3

\* Everything the walk reaches is found where its path says.
LEMMA WalkSound ==
    ASSUME NEW root \in Values, NEW node \in Walk(root)
    PROVE  NodeSound(root, node)
<1> DEFINE f == CHOOSE f : f = [d \in 0..MaxDepth |->
                  IF d = 0 THEN {Root(root)} ELSE UNION {Below(n) : n \in f[d - 1]}]
<1>1. Levels(root, MaxDepth, f)
  <2>1. \E g : Levels(root, MaxDepth, g)
    BY LevelsExist, JsonAssumption
  <2> QED
    BY <2>1 DEF Levels
<1>2. PICK d \in 0..MaxDepth : node \in f[d]
  BY DEF Walk
<1> HIDE DEF f
<1> DEFINE P == {n \in Nat : n <= MaxDepth => \A m \in f[n] : NodeSound(root, m)}
<1>3. 0 \in P
  <2>1. f[0] = {Root(root)}
    BY <1>1, JsonAssumption DEF Levels
  <2>2. <<>> \in Seq(Steps) /\ DOMAIN <<>> = {}
    BY EmptySeq
  <2>3. NodeSound(root, Root(root))
    BY <2>2, ResolveRoot DEF NodeSound, Root
  <2> QED
    BY <2>1, <2>3
<1>4. ASSUME NEW n \in P PROVE n + 1 \in P
  <2>1. SUFFICES ASSUME n + 1 <= MaxDepth, NEW m \in f[n + 1] PROVE NodeSound(root, m)
    OBVIOUS
  <2>2. n + 1 \in 0..MaxDepth /\ n + 1 # 0 /\ (n + 1) - 1 = n /\ n <= MaxDepth
    BY <2>1, JsonAssumption
  <2>3. f[n + 1] = UNION {Below(k) : k \in f[n]}
    BY <1>1, <2>2 DEF Levels
  <2>4. PICK k \in f[n] : m \in Below(k)
    BY <2>1, <2>3
  <2> QED
    BY <2>2, <2>4, BelowSound
<1>5. P = Nat
  <2> HIDE DEF P
  <2>1. P \in SUBSET Nat
    BY DEF P
  <2> QED
    BY <1>3, <1>4, <2>1, EveryNumber
<1> QED
  BY <1>2, <1>5

\* A field is a bindable node of an object: a path the grammar spells, to a value of
\* the field's kind.
LEMMA FieldIs ==
    ASSUME NEW root \in Values, NEW field \in PreviewFields(root)
    PROVE  \E node \in Walk(root) :
             /\ NodeSound(root, node) /\ ~TooDeep(node) /\ root.type = "object"
             /\ field.path = node.path /\ field.kind = InferKind(node.value)
             /\ InferKind(node.value) # "none"
<1>1. PICK node \in Bindable(root) :
        root.type = "object" /\ field = [path |-> node.path, kind |-> InferKind(node.value)]
  BY DEF PreviewFields
<1>2. node \in Walk(root) /\ ~TooDeep(node) /\ InferKind(node.value) # "none"
  BY DEF Bindable
<1>3. NodeSound(root, node)
  BY <1>2, WalkSound
<1> QED
  BY <1>1, <1>2, <1>3

\* PRIMITIVE_ACCEPTS, a kind at a time.
LEMMA PairsAndSingles ==
    ASSUME NEW x, NEW y
    PROVE  ToSet(<<x>>) = {x} /\ ToSet(<<x, y>>) = {x, y}
<1>1. DOMAIN <<x>> = 1..1 /\ DOMAIN <<x, y>> = 1..2
  OBVIOUS
<1> QED
  BY <1>1 DEF ToSet

LEMMA AcceptsIs ==
    ASSUME NEW p \in Primitives, NEW kind
    PROVE  Accepts(p, kind) <=>
             \/ p \in {"ring", "gauge", "bar", "number"} /\ kind = "number"
             \/ p \in {"number", "badge"} /\ kind = "string"
             \/ p = "badge" /\ kind = "status"
             \/ p = "line" /\ kind = "series"
             \/ p = "uptime-strip" /\ kind = "status-series"
             \/ p = "image" /\ kind = "image-url"
<1> DEFINE kinds == CASE p \in {"ring", "gauge", "bar"} -> {"number"}
                       [] p = "number" -> {"number", "string"}
                       [] p = "badge"  -> {"status", "string"}
                       [] p = "line"   -> {"series"}
                       [] p = "uptime-strip" -> {"status-series"}
                       [] p = "image"  -> {"image-url"}
<1>1. ToSet(PrimitiveAccepts(p)) = kinds
  <2>1. CASE p \in {"ring", "gauge", "bar"}
    BY <2>1, PairsAndSingles DEF PrimitiveAccepts
  <2>2. CASE p = "number"
    BY <2>2, PairsAndSingles DEF PrimitiveAccepts
  <2>3. CASE p = "badge"
    BY <2>3, PairsAndSingles DEF PrimitiveAccepts
  <2>4. CASE p = "line"
    <3>1. PrimitiveAccepts(p) = <<"series">>
      BY <2>4 DEF PrimitiveAccepts
    <3>2. kinds = {"series"}
      BY <2>4
    <3> QED
      BY <3>1, <3>2, PairsAndSingles
  <2>5. CASE p = "uptime-strip"
    <3>1. PrimitiveAccepts(p) = <<"status-series">>
      BY <2>5 DEF PrimitiveAccepts
    <3>2. kinds = {"status-series"}
      BY <2>5
    <3> QED
      BY <3>1, <3>2, PairsAndSingles
  <2>6. CASE p = "image"
    <3>1. PrimitiveAccepts(p) = <<"image-url">>
      BY <2>6 DEF PrimitiveAccepts
    <3>2. kinds = {"image-url"}
      BY <2>6
    <3> QED
      BY <3>1, <3>2, PairsAndSingles
  <2> QED
    BY <2>1, <2>2, <2>3, <2>4, <2>5, <2>6 DEF Primitives
<1>2. Accepts(p, kind) <=> kind \in kinds
  BY <1>1 DEF Accepts
<1> QED
  BY <1>2 DEF Primitives

LEMMA OfferedIsStored ==
    ASSUME NEW root \in Values, NEW field \in PreviewFields(root), NEW p \in Primitives,
           field.kind # "series", field.path \notin LongPaths, Accepts(p, field.kind)
    PROVE  ResolveSlot(root, Slot(p, field.kind, field.path)).ok
<1>1. PICK node \in Walk(root) :
        /\ NodeSound(root, node) /\ ~TooDeep(node) /\ root.type = "object"
        /\ field.path = node.path /\ field.kind = InferKind(node.value)
        /\ InferKind(node.value) # "none"
  BY FieldIs
<1> DEFINE v == node.value  slot == Slot(p, field.kind, field.path)
<1>2. v \in Values /\ v.type \in Types /\ v = ResolveJsonPath(root, slot.path)
  BY <1>1, ValueType DEF NodeSound, Slot
<1>3. ~IsContainer(v) /\ v.type # "infinite" /\ v # NotFound
  <2>1. InferKind(v) # "none" /\ InferKind(v) # "series"
    BY <1>1
  <2>2. v.type # "infinite" /\ ~IsContainer(v)
    BY <1>2, <2>1 DEF InferKind, IsContainer, IsNumericSeries, IsFiniteNumber, Types, ScalarTypes
  <2>3. v # NotFound
    <3>1. NotFound.type \notin Types
      BY DEF NotFound, Types, ScalarTypes
    <3> QED
      BY <1>2, <3>1
  <2> QED
    BY <2>2, <2>3
<1>4. ParseJsonPath(slot.path)
  <2>1. node.path # <<>>
    BY <1>1, <1>3 DEF NodeSound, IsContainer
  <2>2. Len(node.path) \in Nat /\ Len(node.path) <= MaxSteps
    BY <1>1, JsonAssumption, LenProperties DEF NodeSound, TooDeep
  <2> QED
    BY <1>1, <2>1, <2>2 DEF NodeSound, ParseJsonPath, Slot
<1>5. p \in NumericPrimitives => v.type = "number"
  <2>1. p \in NumericPrimitives => InferKind(v) = "number"
    BY <1>1, AcceptsIs DEF NumericPrimitives
  <2> QED
    BY <1>2, <2>1 DEF InferKind, Types, ScalarTypes
<1>6. p = "image" => v.type = "image"
  <2>1. p = "image" => InferKind(v) = "image-url"
    BY <1>1, AcceptsIs
  <2> QED
    BY <1>2, <2>1 DEF InferKind, Types, ScalarTypes
<1> QED
  BY <1>2, <1>3, <1>4, <1>5, <1>6 DEF ResolveSlot, CannotPlot, Slot, Stored


\* A path finds a value of the response, or nothing.
LEMMA StepFinds ==
    ASSUME NEW v \in Values \cup {NotFound}, NEW step
    PROVE  StepInto(v, step) \in Values \cup {NotFound}
<1>1. v.type # NotFound.type => v \in Values
  OBVIOUS
<1>2. ASSUME v.type # NotFound.type, NEW i \in 1..Len(v.items)
      PROVE  v.items[i] \in Values
  BY <1>1, <1>2, ValueType, ElementOfSeq
<1>3. CASE step \in Indexes
  <2>1. CASE v.type = "list" /\ IndexOf(step) <= Len(v.items)
    <3>1. v.type # NotFound.type
      BY <2>1 DEF NotFound
    <3>2. IndexOf(step) \in 1..Len(v.items)
      <4>1. Len(v.items) \in Nat
        BY <1>1, <3>1, ValueType, LenProperties
      <4>2. IndexOf(step) \in 1..2
        BY DEF IndexOf
      <4> QED
        BY <2>1, <4>1, <4>2
    <3>3. StepInto(v, step) = v.items[IndexOf(step)]
      BY <1>3, <2>1 DEF StepInto
    <3> QED
      BY <1>2, <3>1, <3>2, <3>3
  <2>2. CASE ~(v.type = "list" /\ IndexOf(step) <= Len(v.items))
    BY <1>3, <2>2 DEF StepInto
  <2> QED
    BY <2>1, <2>2
<1>4. CASE step \notin Indexes
  <2>1. CASE v.type = "object" /\ \E i \in DOMAIN v.keys : v.keys[i] = step
    <3>1. PICK i \in DOMAIN v.keys : StepInto(v, step) = v.items[i]
      BY <1>4, <2>1 DEF StepInto
    <3>2. v.type # NotFound.type
      BY <2>1 DEF NotFound
    <3>3. i \in 1..Len(v.items)
      BY <1>1, <2>1, <3>1, <3>2, ValueType, LenProperties
    <3> QED
      BY <1>2, <3>1, <3>2, <3>3
  <2>2. CASE ~(v.type = "object" /\ \E i \in DOMAIN v.keys : v.keys[i] = step)
    BY <1>4, <2>2 DEF StepInto
  <2> QED
    BY <2>1, <2>2
<1> QED
  BY <1>3, <1>4

LEMMA ResolveFinds ==
    ASSUME NEW root \in Values, NEW S, NEW path \in Seq(S)
    PROVE  ResolveJsonPath(root, path) \in Values \cup {NotFound}
<1>1. PICK f : Found(root, path, Len(path), f) /\ ResolveJsonPath(root, path) = f[Len(path)]
  BY ResolveIs
<1> DEFINE P == {n \in Nat : n <= Len(path) => f[n] \in Values \cup {NotFound}}
<1>2. Len(path) \in Nat
  BY LenProperties
<1>3. 0 \in P
  BY <1>1, <1>2 DEF Found
<1>4. ASSUME NEW n \in P PROVE n + 1 \in P
  <2>1. SUFFICES ASSUME n + 1 <= Len(path) PROVE f[n + 1] \in Values \cup {NotFound}
    OBVIOUS
  <2>2. n + 1 \in 0..Len(path) /\ n + 1 # 0 /\ (n + 1) - 1 = n /\ n <= Len(path)
    BY <1>2, <2>1
  <2>3. f[n + 1] = StepInto(f[n], path[n + 1])
    BY <1>1, <2>2 DEF Found
  <2> QED
    BY <2>2, <2>3, StepFinds
<1>5. P = Nat
  <2> HIDE DEF P
  <2>1. P \in SUBSET Nat
    BY DEF P
  <2> QED
    BY <1>3, <1>4, <2>1, EveryNumber
<1> QED
  BY <1>1, <1>2, <1>5

Reasons == {"none", "config_invalid", "path_not_found", "invalid_response"}
Entries == [ok : BOOLEAN, value : Types \cup {"none"}, reason : Reasons]

LEMMA ResolveSlotType ==
    ASSUME NEW root \in Values, NEW slot, NEW S, slot.path \in Seq(S)
    PROVE  ResolveSlot(root, slot) \in Entries
<1> DEFINE v == ResolveJsonPath(root, slot.path)
<1>1. v \in Values \cup {NotFound}
  BY ResolveFinds
<1>2. v # NotFound => v.type \in Types
  BY <1>1, ValueType
<1>3. \A r \in Reasons : Refusal(r) \in Entries
  BY DEF Refusal, Entries, Reasons
<1>4. v # NotFound => Stored(v.type) \in Entries
  BY <1>2 DEF Stored, Entries, Reasons
<1> HIDE DEF v
<1>5. ResolveSlot(root, slot) \in {Refusal(r) : r \in Reasons} \cup {Stored(w.type) : w \in {v} \ {NotFound}}
  BY DEF ResolveSlot, Reasons, v
<1> QED
  BY <1>3, <1>4, <1>5

-----------------------------------------------------------------------------
(* The form, the saved widget and its snapshots *)

Paths == Seq(Steps \cup {"a", "b"})
LegalSlots == {s \in [primitive : Primitives, kind : DataKinds, path : Paths] :
                 Accepts(s.primitive, s.kind)}
\* A slot saved before kinds were has none, and none that it would be wrong to take.
SavedSlots == LegalSlots \cup [primitive : Primitives, kind : {"unset"}, path : Paths]
Fields == [path : Seq(Steps), kind : DataKinds]
Records == [entries : Seq(Entries), error : BOOLEAN]

\* An open form has a slot, and every slot one that it may be saved with.
FormInv ==
  /\ form \in [open : BOOLEAN, slots : Seq(LegalSlots), layout : Layouts,
              preview : SUBSET Fields, edits : Nat]
  /\ Len(form.slots) <= MaxSlots
  /\ form.open => Len(form.slots) >= 1

SavedInv ==
  /\ saved \in [slots : Seq(SavedSlots), layout : Layouts, polled : BOOLEAN]
  /\ Len(saved.slots) <= MaxSlots
  /\ saved # NoWidget => Len(saved.slots) >= 1
  /\ EveryPaneHasItsSlot

\* What a poll of the slots as they are made of one response.
PolledFrom(b) ==
  /\ snapshots # <<>>
  /\ Last(snapshots).entries = [i \in DOMAIN saved.slots |-> ResolveSlot(b, saved.slots[i])]

SnapshotsInv ==
  /\ snapshots \in Seq(Records) /\ Len(snapshots) <= MaxHistory
  /\ saved.polled => \E b \in Bodies : PolledFrom(b)

SlotsInv == body \in Bodies /\ FormInv /\ SavedInv /\ SnapshotsInv

LEMMA BlankIsLegal == BlankSlot \in LegalSlots
<1>1. <<>> \in Paths
  BY EmptySeq DEF Paths
<1>2. Accepts("number", "number")
  BY AcceptsIs DEF Primitives
<1> QED
  BY <1>1, <1>2 DEF BlankSlot, Slot, LegalSlots, Primitives, DataKinds

\* kindForSlot gives an older slot a kind that its primitive can draw.
LEMMA KindForSlotLegal ==
    ASSUME NEW slot \in SavedSlots
    PROVE  [slot EXCEPT !.kind = KindForSlot(slot)] \in LegalSlots
<1>1. CASE slot \in LegalSlots
  <2>1. slot.kind # "unset"
    BY <1>1 DEF LegalSlots, DataKinds
  <2>2. [slot EXCEPT !.kind = slot.kind] = slot
    BY <1>1 DEF LegalSlots
  <2> QED
    BY <1>1, <2>1, <2>2 DEF KindForSlot
<1>2. CASE slot \in [primitive : Primitives, kind : {"unset"}, path : Paths]
  <2> DEFINE kind == Head(PrimitiveAccepts(slot.primitive))
  <2>1. kind \in DataKinds /\ Accepts(slot.primitive, kind)
    <3>1. CASE slot.primitive \in {"ring", "gauge", "bar", "number"}
      <4>1. kind = "number"
        BY <3>1 DEF PrimitiveAccepts
      <4> QED
        BY <1>2, <3>1, <4>1, AcceptsIs DEF DataKinds
    <3>2. CASE slot.primitive = "badge"
      <4>1. kind = "status"
        BY <3>2 DEF PrimitiveAccepts
      <4> QED
        BY <1>2, <3>2, <4>1, AcceptsIs DEF DataKinds
    <3>3. CASE slot.primitive = "line"
      <4>1. kind = "series"
        BY <3>3 DEF PrimitiveAccepts
      <4> QED
        BY <1>2, <3>3, <4>1, AcceptsIs DEF DataKinds
    <3>4. CASE slot.primitive = "uptime-strip"
      <4>1. kind = "status-series"
        BY <3>4 DEF PrimitiveAccepts
      <4> QED
        BY <1>2, <3>4, <4>1, AcceptsIs DEF DataKinds
    <3>5. CASE slot.primitive = "image"
      <4>1. kind = "image-url"
        BY <3>5 DEF PrimitiveAccepts
      <4> QED
        BY <1>2, <3>5, <4>1, AcceptsIs DEF DataKinds
    <3> QED
      BY <1>2, <3>1, <3>2, <3>3, <3>4, <3>5 DEF Primitives
  <2>2. KindForSlot(slot) = kind
    BY <1>2 DEF KindForSlot
  <2> HIDE DEF kind
  <2> QED
    BY <1>2, <2>1, <2>2 DEF LegalSlots
<1> QED
  BY <1>1, <1>2 DEF SavedSlots

LEMMA ArrangementIs ==
    ASSUME NEW n \in Nat
    PROVE  /\ n >= 1 => Len(ArrangementFor(n)) = n
           /\ \A i \in 1..n : ArrangementFor(n)[i] \in {"feature", "compact", "wide"}
<1>1. CASE n <= 1
  <2>1. ArrangementFor(n) = <<"feature">>
    BY <1>1 DEF ArrangementFor
  <2> QED
    BY <1>1, <2>1
<1>2. CASE n = 2
  <2>1. ArrangementFor(n) = <<"feature", "wide">>
    BY <1>2 DEF ArrangementFor
  <2> QED
    BY <1>2, <2>1
<1>3. CASE n > 2
  <2>1. ArrangementFor(n) = [i \in 1..n |-> "compact"]
    BY <1>3 DEF ArrangementFor
  <2> QED
    BY <1>3, <2>1
<1> QED
  BY <1>1, <1>2, <1>3

\* Every primitive is on the menu of every class.
LEMMA MenuHasAll ==
    ASSUME NEW class \in {"feature", "compact", "wide"}
    PROVE  /\ PrimitivesForClass(class) \in Seq(Primitives)
           /\ \A p \in Primitives : \E k \in DOMAIN PrimitivesForClass(class) :
                PrimitivesForClass(class)[k] = p
<1> DEFINE first == Preferred(class)
<1>1. first \in Seq(Primitives)
  <2>1. CASE class = "feature"
    BY <2>1 DEF Preferred, Primitives
  <2>2. CASE class = "compact"
    BY <2>2 DEF Preferred, Primitives
  <2>3. CASE class = "wide"
    BY <2>3 DEF Preferred, Primitives
  <2> QED
    BY <2>1, <2>2, <2>3
<1>2. AllPrimitives \in Seq(Primitives) /\ Len(AllPrimitives) = 8
  BY DEF AllPrimitives, Primitives
<1>3. \A p \in Primitives : \E k \in 1..8 : AllPrimitives[k] = p
  <2>1. /\ AllPrimitives[1] = "ring" /\ AllPrimitives[2] = "number" /\ AllPrimitives[3] = "gauge"
        /\ AllPrimitives[4] = "bar" /\ AllPrimitives[5] = "badge" /\ AllPrimitives[6] = "line"
        /\ AllPrimitives[7] = "uptime-strip" /\ AllPrimitives[8] = "image"
    BY DEF AllPrimitives
  <2>2. 1 \in 1..8 /\ 2 \in 1..8 /\ 3 \in 1..8 /\ 4 \in 1..8 /\ 5 \in 1..8 /\ 6 \in 1..8 /\ 7 \in 1..8 /\ 8 \in 1..8
    OBVIOUS
  <2> QED
    BY <2>1, <2>2 DEF Primitives
<1> HIDE DEF first
<1>4. /\ first \o AllPrimitives \in Seq(Primitives)
      /\ Len(first \o AllPrimitives) = Len(first) + 8 /\ Len(first) \in Nat
      /\ \A k \in 1..8 : (first \o AllPrimitives)[Len(first) + k] = AllPrimitives[k]
  <2>1. Len(first) \in Nat
    BY <1>1, LenProperties
  <2>2. \A k \in 1..8 : Len(first) + k \in 1..Len(first) + 8 /\ ~(Len(first) + k <= Len(first)) /\ (Len(first) + k) - Len(first) = k
    BY <2>1
  <2>3. /\ first \o AllPrimitives \in Seq(Primitives)
        /\ Len(first \o AllPrimitives) = Len(first) + 8
        /\ \A i \in 1..Len(first) + 8 : (first \o AllPrimitives)[i] =
             IF i <= Len(first) THEN first[i] ELSE AllPrimitives[i - Len(first)]
    <3>1. AllPrimitives \in Seq(Primitives)
      BY <1>2
    <3>2. /\ first \o AllPrimitives \in Seq(Primitives)
          /\ Len(first \o AllPrimitives) = Len(first) + Len(AllPrimitives)
          /\ \A i \in 1..Len(first) + Len(AllPrimitives) : (first \o AllPrimitives)[i] =
               IF i <= Len(first) THEN first[i] ELSE AllPrimitives[i - Len(first)]
      BY <1>1, <3>1, ConcatProperties
    <3> QED
      BY <1>2, <3>2
  <2> QED
    BY <2>1, <2>2, <2>3
<1>5. DOMAIN (first \o AllPrimitives) = 1..Len(first) + 8
  BY <1>4, LenProperties
<1>6. \A p \in Primitives : \E k \in DOMAIN (first \o AllPrimitives) : (first \o AllPrimitives)[k] = p
  <2> TAKE p \in Primitives
  <2>1. PICK k \in 1..8 : AllPrimitives[k] = p
    BY <1>3
  <2>2. Len(first) + k \in 1..Len(first) + 8
    BY <1>4, SMTT(30)
  <2> QED
    BY <1>4, <1>5, <2>1, <2>2
<1> QED
  BY <1>4, <1>6 DEF PrimitivesForClass, first


LEMMA SlotIs ==
    ASSUME FormInv, NEW i \in DOMAIN form.slots
    PROVE  /\ form.slots \in Seq(LegalSlots) /\ DOMAIN form.slots = 1..Len(form.slots)
           /\ Len(form.slots) \in Nat /\ Len(form.slots) \in 1..MaxSlots
           /\ form.slots[i] \in LegalSlots /\ i \in 1..Len(form.slots)
<1>1. form.slots \in Seq(LegalSlots) /\ Len(form.slots) <= MaxSlots
  BY DEF FormInv
<1>2. DOMAIN form.slots = 1..Len(form.slots) /\ Len(form.slots) \in Nat
  BY <1>1, LenProperties
<1> QED
  BY <1>1, <1>2, ElementOfSeq, SlotsAssumption

\* The first primitive of the menu that can draw a kind: there is one for each.
LEMMA FirstIsAllowed ==
    ASSUME FormInv, NEW i \in DOMAIN form.slots, NEW kind \in DataKinds
    PROVE  FirstAllowed(i, kind) \in Primitives /\ Accepts(FirstAllowed(i, kind), kind)
<1> DEFINE menu == Menu(i)
<1>1. menu \in Seq(Primitives) /\ \A p \in Primitives : \E k \in DOMAIN menu : menu[k] = p
  <2>1. ArrangementFor(Len(form.slots))[i] \in {"feature", "compact", "wide"}
    BY SlotIs, ArrangementIs
  <2> QED
    BY <2>1, MenuHasAll DEF Menu
<1> HIDE DEF menu
<1>2. \E p \in Primitives : Accepts(p, kind)
  <2>1. CASE kind \in {"number", "string"}
    BY <2>1, AcceptsIs DEF Primitives
  <2>2. CASE kind = "series"
    BY <2>2, AcceptsIs DEF Primitives
  <2>3. CASE kind = "status"
    BY <2>3, AcceptsIs DEF Primitives
  <2>4. CASE kind = "status-series"
    BY <2>4, AcceptsIs DEF Primitives
  <2>5. CASE kind = "image-url"
    BY <2>5, AcceptsIs DEF Primitives
  <2> QED
    BY <2>1, <2>2, <2>3, <2>4, <2>5 DEF DataKinds
<1> DEFINE S == {k \in DOMAIN menu : Accepts(menu[k], kind)}
           IsFirst(k) == Accepts(menu[k], kind) /\ \A j \in 1..k - 1 : ~Accepts(menu[j], kind)
<1>3. DOMAIN menu = 1..Len(menu) /\ Len(menu) \in Nat
  BY <1>1, LenProperties
<1>4. S # {} /\ S \in SUBSET Nat
  BY <1>1, <1>2, <1>3
<1>5. PICK k \in S : \A j \in S : k <= j
  <2> HIDE DEF S
  <2> QED
    BY <1>4, LeastNumber
<1>6. \E l \in DOMAIN menu : IsFirst(l)
  <2>1. \A j \in 1..k - 1 : j \in DOMAIN menu /\ j \notin S
    BY <1>3, <1>5
  <2>2. IsFirst(k)
    BY <1>5, <2>1
  <2> QED
    BY <1>5, <2>2
<1>7. PICK l \in DOMAIN menu : IsFirst(l) /\ FirstAllowed(i, kind) = menu[l]
  BY <1>6 DEF FirstAllowed, menu
<1>8. menu[l] \in Primitives
  BY <1>1, <1>3, <1>7, ElementOfSeq
<1> QED
  BY <1>7, <1>8

LEMMA OfKindIsLegal ==
    ASSUME FormInv, NEW i \in DOMAIN form.slots, NEW kind \in DataKinds
    PROVE  OfKind(i, kind) \in LegalSlots
<1>1. form.slots[i] \in LegalSlots
  BY SlotIs
<1>2. CASE Accepts(form.slots[i].primitive, kind)
  BY <1>1, <1>2 DEF OfKind, LegalSlots
<1>3. CASE ~Accepts(form.slots[i].primitive, kind)
  BY <1>1, <1>3, FirstIsAllowed DEF OfKind, LegalSlots
<1> QED
  BY <1>2, <1>3

\* An edit that leaves slots a form may hold leaves the form sound.
LEMMA SetSlotsKeeps ==
    ASSUME FormInv, Editing, NEW slots \in Seq(LegalSlots), Len(slots) \in 1..MaxSlots,
           SetSlots(slots)
    PROVE  FormInv'
<1>1. form' = [form EXCEPT !.slots = slots, !.edits = form.edits + 1]
  BY DEF SetSlots
<1>2. /\ form.open \in BOOLEAN /\ form.layout \in Layouts /\ form.preview \in SUBSET Fields
      /\ form.edits + 1 \in Nat
  BY DEF FormInv
<1>3. form' = [open |-> form.open, slots |-> slots, layout |-> form.layout,
               preview |-> form.preview, edits |-> form.edits + 1]
  BY <1>1 DEF FormInv
<1> QED
  BY <1>2, <1>3, SlotsAssumption DEF FormInv

LEMMA SetSlotKeeps ==
    ASSUME FormInv, Editing, NEW i \in DOMAIN form.slots, NEW slot \in LegalSlots,
           SetSlots([form.slots EXCEPT ![i] = slot])
    PROVE  FormInv'
<1>1. /\ [form.slots EXCEPT ![i] = slot] \in Seq(LegalSlots)
      /\ Len([form.slots EXCEPT ![i] = slot]) = Len(form.slots)
  BY SlotIs, ExceptSeq
<1> QED
  BY <1>1, SlotIs, SetSlotsKeeps

LEMMA AddSlotKeeps == ASSUME FormInv, AddSlot PROVE FormInv'
<1>1. form.slots \in Seq(LegalSlots) /\ Len(form.slots) < MaxSlots
  BY DEF FormInv, AddSlot
<1>2. Append(form.slots, BlankSlot) \in Seq(LegalSlots)
      /\ Len(Append(form.slots, BlankSlot)) = Len(form.slots) + 1
  BY <1>1, BlankIsLegal, AppendProperties
<1>3. Len(Append(form.slots, BlankSlot)) \in 1..MaxSlots
  BY <1>1, <1>2, LenProperties, SlotsAssumption
<1> QED
  BY <1>2, <1>3, SetSlotsKeeps DEF AddSlot

LEMMA RemoveAtType ==
    ASSUME NEW S, NEW s \in Seq(S), NEW i \in 1..Len(s)
    PROVE  RemoveAt(s, i) \in Seq(S) /\ Len(RemoveAt(s, i)) = Len(s) - 1
<1>1. Len(s) \in Nat /\ \A k \in 1..Len(s) : s[k] \in S
  BY LenProperties, ElementOfSeq
<1> DEFINE a == SubSeq(s, 1, i - 1)  b == SubSeq(s, i + 1, Len(s))
<1>2. a \in Seq(S) /\ Len(a) = i - 1
  <2>1. i - 1 \in Int /\ \A k \in 1..i - 1 : s[k] \in S
    BY <1>1
  <2>2. a \in Seq(S) /\ Len(a) = IF 1 <= i - 1 THEN (i - 1) - 1 + 1 ELSE 0
    BY <2>1, SubSeqProperties
  <2> QED
    BY <1>1, <2>2
<1>3. b \in Seq(S) /\ Len(b) = Len(s) - i
  <2>1. i + 1 \in Int /\ Len(s) \in Int /\ \A k \in i + 1..Len(s) : s[k] \in S
    BY <1>1
  <2>2. b \in Seq(S) /\ Len(b) = IF i + 1 <= Len(s) THEN Len(s) - (i + 1) + 1 ELSE 0
    BY <2>1, SubSeqProperties
  <2> QED
    BY <1>1, <2>2
<1> HIDE DEF a, b
<1>4. a \o b \in Seq(S) /\ Len(a \o b) = Len(a) + Len(b)
  BY <1>2, <1>3, ConcatProperties
<1>5. RemoveAt(s, i) = a \o b
  BY DEF RemoveAt, a, b
<1>6. Len(a) + Len(b) = Len(s) - 1
  BY <1>1, <1>2, <1>3
<1> QED
  BY <1>4, <1>5, <1>6, Zenon

LEMMA RemoveSlotKeeps ==
    ASSUME FormInv, NEW i \in DOMAIN form.slots, RemoveSlot(i) PROVE FormInv'
<1>1. /\ RemoveAt(form.slots, i) \in Seq(LegalSlots)
      /\ Len(RemoveAt(form.slots, i)) = Len(form.slots) - 1
  BY SlotIs, RemoveAtType
<1>2. Len(RemoveAt(form.slots, i)) \in 1..MaxSlots
  BY <1>1, SlotIs, SlotsAssumption DEF RemoveSlot
<1> QED
  BY <1>1, <1>2, SetSlotsKeeps DEF RemoveSlot

LEMMA ChoosePrimitiveKeeps ==
    ASSUME FormInv, NEW i \in DOMAIN form.slots, ChoosePrimitive(i) PROVE FormInv'
<1>1. PICK p \in AllowedPrimitives(i, form.slots[i].kind) :
        SetSlots([form.slots EXCEPT ![i].primitive = p])
  BY DEF ChoosePrimitive
<1>2. Accepts(p, form.slots[i].kind) /\ p \in ToSet(Menu(i))
  BY <1>1 DEF AllowedPrimitives
<1>3. p \in Primitives
  <2>1. ArrangementFor(Len(form.slots))[i] \in {"feature", "compact", "wide"}
    BY SlotIs, ArrangementIs
  <2>2. Menu(i) \in Seq(Primitives)
    BY <2>1, MenuHasAll DEF Menu
  <2>3. PICK k \in DOMAIN Menu(i) : p = Menu(i)[k]
    BY <1>2 DEF ToSet
  <2> QED
    BY <2>2, <2>3, LenProperties, ElementOfSeq
<1>4. [form.slots[i] EXCEPT !.primitive = p] \in LegalSlots
  BY <1>2, <1>3, SlotIs DEF LegalSlots
<1>5. [form.slots EXCEPT ![i].primitive = p] = [form.slots EXCEPT ![i] = [form.slots[i] EXCEPT !.primitive = p]]
  OBVIOUS
<1> QED
  BY <1>1, <1>4, <1>5, SetSlotKeeps DEF ChoosePrimitive

LEMMA TypePathKeeps ==
    ASSUME FormInv, NEW i \in DOMAIN form.slots, NEW path \in TypedPaths, TypePath(i, path)
    PROVE  FormInv'
<1>1. path \in Paths
  <2>1. path \in Seq(Keys \cup Indexes) /\ Keys \cup Indexes \subseteq Steps \cup {"a", "b"}
    BY SlotsAssumption DEF Steps
  <2> QED
    BY <2>1, SeqMonotonic DEF Paths
<1>2. [form.slots[i] EXCEPT !.path = path] \in LegalSlots
  BY <1>1, SlotIs DEF LegalSlots
<1>3. [form.slots EXCEPT ![i].path = path] = [form.slots EXCEPT ![i] = [form.slots[i] EXCEPT !.path = path]]
  OBVIOUS
<1> QED
  BY <1>2, <1>3, SetSlotKeeps DEF TypePath

LEMMA SetKindKeeps ==
    ASSUME FormInv, NEW i \in DOMAIN form.slots, NEW kind \in DataKinds, SetKind(i, kind)
    PROVE  FormInv'
  BY OfKindIsLegal, SetSlotKeeps DEF SetKind

LEMMA PickFieldKeeps ==
    ASSUME FormInv, NEW i \in DOMAIN form.slots, PickField(i) PROVE FormInv'
<1>1. PICK field \in form.preview :
        SetSlots([form.slots EXCEPT ![i] = [OfKind(i, field.kind) EXCEPT !.path = field.path]])
  BY DEF PickField
<1>2. field.kind \in DataKinds /\ field.path \in Paths
  <2>1. field \in Fields
    BY <1>1 DEF FormInv
  <2>2. field.path \in Seq(Steps) /\ Steps \subseteq Steps \cup {"a", "b"}
    BY <2>1 DEF Fields
  <2> QED
    BY <2>1, <2>2, SeqMonotonic DEF Fields, Paths
<1>3. OfKind(i, field.kind) \in LegalSlots
  BY <1>2, OfKindIsLegal
<1>4. [OfKind(i, field.kind) EXCEPT !.path = field.path] \in LegalSlots
  BY <1>2, <1>3 DEF LegalSlots
<1> QED
  BY <1>1, <1>4, SetSlotKeeps DEF PickField

LEMMA RunPreviewKeeps == ASSUME FormInv, body \in Bodies, RunPreview PROVE FormInv'
<1>1. PreviewFields(body) \subseteq Fields
  <2>1. SUFFICES ASSUME NEW field \in PreviewFields(body) PROVE field \in Fields
    OBVIOUS
  <2>2. body \in Values
    BY SlotsAssumption
  <2>3. PICK node \in Walk(body) : /\ NodeSound(body, node) /\ field.path = node.path
          /\ field.kind = InferKind(node.value) /\ InferKind(node.value) # "none"
    BY <2>2, FieldIs
  <2>4. PICK n \in Bindable(body) : field = [path |-> n.path, kind |-> InferKind(n.value)]
    BY DEF PreviewFields
  <2>5. InferKind(node.value) \in DataKinds \cup {"none"}
    BY DEF InferKind, DataKinds
  <2> QED
    BY <2>3, <2>4, <2>5 DEF Fields, NodeSound
<1>2. form' = [open |-> form.open, slots |-> form.slots, layout |-> form.layout,
               preview |-> PreviewFields(body), edits |-> form.edits + 1]
  BY DEF RunPreview, FormInv
<1>3. /\ form.open \in BOOLEAN /\ form.layout \in Layouts /\ form.slots \in Seq(LegalSlots)
      /\ form.edits + 1 \in Nat
  BY DEF FormInv
<1> QED
  BY <1>1, <1>2, <1>3 DEF FormInv


-----------------------------------------------------------------------------
(* The steps *)

LEMMA FormActionsKeep ==
    ASSUME SlotsInv, FormInv', UNCHANGED <<body, saved, snapshots>>
    PROVE  SlotsInv'
  BY DEF SlotsInv, SavedInv, SnapshotsInv, PolledFrom, EveryPaneHasItsSlot

LEMMA OldWidgetInv ==
    /\ OldWidget \in [slots : Seq(SavedSlots), layout : Layouts, polled : BOOLEAN]
    /\ Len(OldWidget.slots) = 2 /\ OldWidget.layout = "split" /\ OldWidget.polled = FALSE
<1> DEFINE s == <<Slot("ring", "unset", <<"a">>), Slot("line", "unset", <<"b">>)>>
<1>1. <<"a">> \in Paths /\ <<"b">> \in Paths
  BY DEF Paths
<1>2. /\ Slot("ring", "unset", <<"a">>) \in SavedSlots
      /\ Slot("line", "unset", <<"b">>) \in SavedSlots
  BY <1>1 DEF SavedSlots, Slot, Primitives
<1>3. s \in Seq(SavedSlots) /\ Len(s) = 2
  BY <1>2
<1> HIDE DEF s
<1>4. OldWidget = [slots |-> s, layout |-> "split", polled |-> FALSE]
  BY DEF OldWidget, Submission, s
<1> QED
  BY <1>3, <1>4 DEF Layouts

LEMMA NoWidgetInv ==
    /\ NoWidget \in [slots : Seq(SavedSlots), layout : Layouts, polled : BOOLEAN]
    /\ NoWidget.slots = <<>> /\ NoWidget.layout = "none" /\ NoWidget.polled = FALSE
    /\ Len(NoWidget.slots) = 0
<1>1. NoWidget = [slots |-> <<>>, layout |-> "none", polled |-> FALSE]
  BY DEF NoWidget, Submission
<1>2. <<>> \in Seq(SavedSlots) /\ Len(<<>>) = 0
  BY EmptySeq
<1> QED
  BY <1>1, <1>2 DEF Layouts

LEMMA SlotsInitInv == SlotsInit => SlotsInv
<1> SUFFICES ASSUME SlotsInit PROVE SlotsInv
  OBVIOUS
<1>1. FormInv
  <2>1. form = [open |-> FALSE, slots |-> <<>>, layout |-> "none", preview |-> {}, edits |-> 0]
    BY DEF SlotsInit, NoForm
  <2>2. <<>> \in Seq(LegalSlots) /\ Len(<<>>) = 0
    BY EmptySeq
  <2> QED
    BY <2>1, <2>2, SlotsAssumption DEF FormInv, Layouts
<1>2. SavedInv
  <2>1. CASE saved = NoWidget
    BY <2>1, NoWidgetInv, SlotsAssumption DEF SavedInv, EveryPaneHasItsSlot
  <2>2. CASE saved = OldWidget
    <3>1. Panes("split", saved.slots) = <<"feature", "wide">>
      BY DEF Panes, SlotClasses
    <3>2. Len(saved.slots) = Len(Panes(saved.layout, saved.slots))
      BY <2>2, <3>1, OldWidgetInv
    <3>3. /\ saved \in [slots : Seq(SavedSlots), layout : Layouts, polled : BOOLEAN]
          /\ Len(saved.slots) = 2
      BY <2>2, OldWidgetInv
    <3>4. 2 <= MaxSlots /\ 2 >= 1
      BY SlotsAssumption
    <3> QED
      BY <3>2, <3>3, <3>4 DEF SavedInv, EveryPaneHasItsSlot
  <2> QED
    BY <2>1, <2>2 DEF SlotsInit
<1>3. SnapshotsInv
  <2>1. snapshots = <<>> /\ saved.polled = FALSE
    BY OldWidgetInv, NoWidgetInv DEF SlotsInit
  <2> QED
    BY <2>1, EmptySeq, SlotsAssumption DEF SnapshotsInv
<1> QED
  BY <1>1, <1>2, <1>3 DEF SlotsInv, SlotsInit

LEMMA OpenFormKeeps == ASSUME SlotsInv, OpenForm PROVE SlotsInv'
<1> DEFINE old == [i \in DOMAIN saved.slots |-> [saved.slots[i] EXCEPT !.kind = KindForSlot(saved.slots[i])]]
           slots == IF saved = NoWidget THEN <<BlankSlot>> ELSE old
<1>1. /\ saved.slots \in Seq(SavedSlots) /\ Len(saved.slots) <= MaxSlots /\ saved.layout \in Layouts
      /\ saved # NoWidget => Len(saved.slots) >= 1
  BY DEF SlotsInv, SavedInv
<1>2. old \in Seq(LegalSlots) /\ Len(old) = Len(saved.slots)
  <2>1. DOMAIN saved.slots = 1..Len(saved.slots) /\ Len(saved.slots) \in Nat
    BY <1>1, LenProperties
  <2>2. \A i \in 1..Len(saved.slots) :
          [saved.slots[i] EXCEPT !.kind = KindForSlot(saved.slots[i])] \in LegalSlots
    BY <1>1, ElementOfSeq, KindForSlotLegal
  <2>3. old \in [1..Len(saved.slots) -> LegalSlots]
    BY <2>1, <2>2
  <2> HIDE DEF old
  <2> QED
    BY <2>1, <2>3, SeqDef
<1>3. slots \in Seq(LegalSlots) /\ Len(slots) >= 1 /\ Len(slots) <= MaxSlots
  <2>1. CASE saved = NoWidget
    <3>1. <<BlankSlot>> \in Seq(LegalSlots) /\ Len(<<BlankSlot>>) = 1
      BY BlankIsLegal
    <3> QED
      BY <2>1, <3>1, SlotsAssumption
  <2>2. CASE saved # NoWidget
    BY <1>1, <1>2, <2>2
  <2> QED
    BY <2>1, <2>2
<1> HIDE DEF slots
<1>4. /\ form.preview \in SUBSET Fields /\ form.edits \in Nat
      /\ form' = [open |-> TRUE, slots |-> slots, layout |-> saved.layout,
                  preview |-> form.preview, edits |-> form.edits]
  BY DEF OpenForm, SlotsInv, FormInv, slots
<1>5. FormInv'
  BY <1>1, <1>3, <1>4 DEF FormInv
<1> QED
  BY <1>5, FormActionsKeep DEF OpenForm

LEMMA SubmitKeeps == ASSUME SlotsInv, Submit PROVE SlotsInv'
<1>1. /\ form.slots \in Seq(LegalSlots) /\ form.layout \in Layouts /\ form.edits \in Nat
      /\ Len(form.slots) <= MaxSlots /\ Len(form.slots) >= 1 /\ Len(form.slots) \in Nat
  BY LenProperties DEF SlotsInv, FormInv, Submit
<1>2. /\ saved' = [slots |-> form.slots, layout |-> form.layout, polled |-> FALSE]
      /\ form' = [open |-> FALSE, slots |-> <<>>, layout |-> "none", preview |-> {}, edits |-> form.edits]
      /\ body' = body /\ snapshots' = snapshots
  BY DEF Submit, Submission, NoForm
<1>3. FormInv'
  <2>1. <<>> \in Seq(LegalSlots) /\ Len(<<>>) = 0
    BY EmptySeq
  <2> QED
    BY <1>1, <1>2, <2>1, SlotsAssumption DEF FormInv, Layouts
<1>4. SavedInv'
  <2>1. form.slots \in Seq(SavedSlots)
    BY <1>1, SeqMonotonic DEF SavedSlots
  <2>2. Len(form.slots) = Len(Panes(form.layout, form.slots))
    <3>1. CASE form.layout = "none"
      BY <1>1, <3>1, ArrangementIs DEF Panes
    <3>2. CASE form.layout # "none"
      BY <3>2 DEF Panes, Submit, Valid, RefineSlotsAgainstLayout
    <3> QED
      BY <3>1, <3>2
  <2> QED
    BY <1>1, <1>2, <2>1, <2>2 DEF SavedInv, EveryPaneHasItsSlot
<1>5. SnapshotsInv'
  BY <1>2 DEF SnapshotsInv, SlotsInv
<1> QED
  BY <1>2, <1>3, <1>4, <1>5 DEF SlotsInv

LEMMA PollKeeps == ASSUME SlotsInv, Poll PROVE SlotsInv'
<1> DEFINE entries == [i \in DOMAIN saved.slots |-> ResolveSlot(body, saved.slots[i])]
           new == [entries |-> entries, error |-> \A i \in DOMAIN entries : ~entries[i].ok]
           kept == Append(snapshots, new)
<1>1. /\ snapshots \in Seq(Records) /\ Len(snapshots) \in Nat /\ Len(snapshots) <= MaxHistory
      /\ saved \in [slots : Seq(SavedSlots), layout : Layouts, polled : BOOLEAN]
      /\ body \in Values
  BY LenProperties, SlotsAssumption DEF SlotsInv, SnapshotsInv, SavedInv
<1>2. new \in Records /\ new.entries = entries
  <2>1. DOMAIN saved.slots = 1..Len(saved.slots) /\ Len(saved.slots) \in Nat
    BY <1>1, LenProperties
  <2>2. \A i \in 1..Len(saved.slots) : ResolveSlot(body, saved.slots[i]) \in Entries
    <3> TAKE i \in 1..Len(saved.slots)
    <3>1. saved.slots[i] \in SavedSlots
      BY <1>1, ElementOfSeq
    <3>2. saved.slots[i].path \in Seq(Steps \cup {"a", "b"})
      BY <3>1 DEF SavedSlots, LegalSlots, Paths
    <3> QED
      BY <1>1, <3>2, ResolveSlotType
  <2>3. entries \in [1..Len(saved.slots) -> Entries]
    BY <2>1, <2>2
  <2> HIDE DEF entries
  <2>4. entries \in Seq(Entries)
    BY <2>1, <2>3, SeqDef
  <2>5. (\A i \in DOMAIN entries : ~entries[i].ok) \in BOOLEAN
    OBVIOUS
  <2> QED
    BY <2>4, <2>5 DEF Records
<1> HIDE DEF entries, new
<1>3. /\ kept \in Seq(Records) /\ Len(kept) = Len(snapshots) + 1 /\ kept # <<>>
      /\ kept[Len(snapshots) + 1] = new
  BY <1>1, <1>2, AppendProperties
<1> HIDE DEF kept
<1>4. /\ snapshots' = IF Len(kept) > MaxHistory THEN Tail(kept) ELSE kept
      /\ saved' = [saved EXCEPT !.polled = TRUE] /\ body' = body /\ form' = form
  BY DEF Poll, entries, new, kept
<1>5. /\ saved' \in [slots : Seq(SavedSlots), layout : Layouts, polled : BOOLEAN]
      /\ saved'.slots = saved.slots /\ saved'.layout = saved.layout
  BY <1>1, <1>4
<1>6. /\ snapshots' \in Seq(Records) /\ Len(snapshots') <= MaxHistory /\ snapshots' # <<>>
      /\ Last(snapshots') = new
  <2>1. CASE ~(Len(kept) > MaxHistory)
    <3>1. snapshots' = kept /\ Len(kept) <= MaxHistory
      BY <1>1, <1>3, <1>4, <2>1, SlotsAssumption
    <3>2. Last(kept) = new
      BY <1>3 DEF Last
    <3> QED
      BY <1>3, <3>1, <3>2
  <2>2. CASE Len(kept) > MaxHistory
    <3>1. /\ snapshots' = Tail(kept) /\ Tail(kept) \in Seq(Records)
          /\ Len(Tail(kept)) = Len(snapshots)
          /\ \A i \in 1..Len(Tail(kept)) : Tail(kept)[i] = kept[i + 1]
      BY <1>1, <1>3, <1>4, <2>2, HeadTailProperties
    <3>2. Len(snapshots) >= 1
      BY <1>1, <1>3, <2>2, SlotsAssumption
    <3>3. Last(snapshots') = new
      <4>1. Len(snapshots) \in 1..Len(snapshots)
        BY <1>1, <3>2
      <4> QED
        BY <1>3, <3>1, <4>1 DEF Last
    <3>4. snapshots' # <<>>
      <4>1. Len(snapshots') # 0
        BY <3>1, <3>2
      <4> QED
        BY <4>1, EmptySeq
    <3> QED
      BY <1>1, <3>1, <3>3, <3>4
  <2> QED
    BY <2>1, <2>2
<1>7. PolledFrom(body)'
  BY <1>2, <1>4, <1>5, <1>6 DEF PolledFrom, entries
<1>8. SnapshotsInv'
  BY <1>4, <1>6, <1>7 DEF SnapshotsInv, SlotsInv
<1>9. SavedInv'
  <2>1. saved # NoWidget
    BY DEF Poll
  <2> QED
    BY <1>5, <2>1 DEF SavedInv, EveryPaneHasItsSlot, SlotsInv
<1>10. FormInv'
  BY <1>4 DEF FormInv, SlotsInv
<1> QED
  BY <1>4, <1>8, <1>9, <1>10 DEF SlotsInv


LEMMA EndpointChangesKeeps == ASSUME SlotsInv, EndpointChanges PROVE SlotsInv'
  BY ZenonT(60) DEF SlotsInv, EndpointChanges, FormInv, SavedInv, SnapshotsInv, PolledFrom, EveryPaneHasItsSlot

LEMMA SlotsNextInv == SlotsInv /\ [SlotsNext]_slotsVars => SlotsInv'
<1> SUFFICES ASSUME SlotsInv, [SlotsNext]_slotsVars PROVE SlotsInv'
  OBVIOUS
<1> FormInv /\ body \in Bodies
  BY DEF SlotsInv
<1>1. CASE OpenForm
  BY <1>1, OpenFormKeeps
<1>2. CASE AddSlot
  BY <1>2, AddSlotKeeps, FormActionsKeep DEF AddSlot, Editing
<1>3. CASE RunPreview
  BY <1>3, RunPreviewKeeps, FormActionsKeep DEF RunPreview, Editing
<1>4. CASE Submit
  BY <1>4, SubmitKeeps
<1>5. CASE Poll
  BY <1>5, PollKeeps
<1>6. CASE EndpointChanges
  BY <1>6, EndpointChangesKeeps
<1>7. ASSUME NEW i \in DOMAIN form.slots, RemoveSlot(i) PROVE SlotsInv'
  BY <1>7, RemoveSlotKeeps, FormActionsKeep DEF RemoveSlot, Editing
<1>8. ASSUME NEW i \in DOMAIN form.slots, ChoosePrimitive(i) PROVE SlotsInv'
  BY <1>8, ChoosePrimitiveKeeps, FormActionsKeep DEF ChoosePrimitive, Editing
<1>9. ASSUME NEW i \in DOMAIN form.slots, PickField(i) PROVE SlotsInv'
  BY <1>9, PickFieldKeeps, FormActionsKeep DEF PickField, Editing
<1>10. ASSUME NEW i \in DOMAIN form.slots, NEW kind \in DataKinds, SetKind(i, kind) PROVE SlotsInv'
  BY <1>10, SetKindKeeps, FormActionsKeep DEF SetKind, Editing
<1>11. ASSUME NEW i \in DOMAIN form.slots, NEW path \in TypedPaths, TypePath(i, path) PROVE SlotsInv'
  BY <1>11, TypePathKeeps, FormActionsKeep DEF TypePath, Editing
<1>12. CASE UNCHANGED slotsVars
  BY <1>12, ZenonT(60) DEF SlotsInv, FormInv, SavedInv, SnapshotsInv, PolledFrom, EveryPaneHasItsSlot, slotsVars
<1> QED
  BY <1>1, <1>2, <1>3, <1>4, <1>5, <1>6, <1>7, <1>8, <1>9, <1>10, <1>11, <1>12 DEF SlotsNext

LEMMA SlotsInvHolds == SlotsSpec => []SlotsInv
<1> QED
  BY SlotsInitInv, SlotsNextInv, PTL DEF SlotsSpec

\* Whatever is edited, picked, typed, removed or reopened, in forms of any number of
\* slots: a slot's primitive can draw its kind, and a saved widget has a slot for
\* every pane it draws (CustomWidgetForm.svelte:149-343, custom-layout.ts:351-388).
THEOREM FormIsSound == SlotsSpec => []FormSound
<1>1. SlotsInv => FormSound
  <2> SUFFICES ASSUME SlotsInv PROVE FormSound
    OBVIOUS
  <2>1. LegalPairing /\ \A i \in DOMAIN form.slots :
          form.slots[i].primitive \in Primitives /\ form.slots[i].kind \in DataKinds
    BY SlotIs DEF SlotsInv, LegalPairing, LegalSlots
  <2>2. body \in Bodies /\ form.open \in BOOLEAN /\ Len(form.slots) <= MaxSlots
    BY DEF SlotsInv, FormInv
  <2>3. saved.layout \in Layouts /\ Len(snapshots) <= MaxHistory /\ EveryPaneHasItsSlot
    BY DEF SlotsInv, SavedInv, SnapshotsInv
  <2> QED
    BY <2>1, <2>2, <2>3 DEF FormSound, SlotsTypeOK
<1> QED
  BY <1>1, SlotsInvHolds, PTL

\* For responses of any shape and depth: what the preview offers, the poll can store
\* (json-preview.ts:147-217, json-path.ts:88-132, custom-json.ts:100-163).
THEOREM OfferedIsAlwaysStored == SlotsSpec => []OfferedValueIsStored
<1>1. SlotsInv => OfferedValueIsStored
  BY OfferedIsStored, SlotsAssumption DEF SlotsInv, OfferedValueIsStored
<1> QED
  BY <1>1, SlotsInvHolds, PTL

\* After a poll of the slots as they are, the tile draws nothing that its primitive
\* cannot (custom-json.ts:139-158, custom-json-adapter.ts:92-179).
THEOREM DrawnIsStored == SlotsSpec => []DrawnAsStored
<1>1. SlotsInv => DrawnAsStored
  <2> SUFFICES ASSUME SlotsInv, saved.polled, NEW i \in DOMAIN saved.slots,
                      SlotData(i) \in {"value", "stale"}
               PROVE  /\ saved.slots[i].primitive \in NumericPrimitives
                           => Last(snapshots).entries[i].value = "number"
                      /\ saved.slots[i].primitive = "image"
                           => Last(snapshots).entries[i].value = "image"
    BY DEF DrawnAsStored
  <2>1. PICK b \in Bodies : PolledFrom(b)
    BY DEF SlotsInv, SnapshotsInv
  <2> DEFINE entry == Last(snapshots).entries[i]
             slot  == saved.slots[i]
             v     == ResolveJsonPath(b, slot.path)
  <2>2. entry = ResolveSlot(b, slot) /\ snapshots # <<>>
    BY <2>1 DEF PolledFrom
  <2>3. entry.ok
    BY <2>2 DEF SlotData
  <2>4. entry = Stored(v.type) /\ ~CannotPlot(slot.primitive, v) /\ (slot.primitive = "image" => v.type = "image")
    BY <2>2, <2>3 DEF ResolveSlot, Refusal
  <2> QED
    BY <2>4 DEF Stored, CannotPlot
<1> QED
  BY <1>1, SlotsInvHolds, PTL
=============================================================================
