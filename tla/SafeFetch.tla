----------------------------- MODULE SafeFetch -----------------------------
(***************************************************************************)
(* packages/net/src/safe-fetch.ts: one outbound GET for a URL a user       *)
(* typed, hop by hop. Each hop resolves and checks its host, opens a       *)
(* socket whose own lookup checks again, sends the request under one       *)
(* deadline, and ends in a response, a failure or the next hop.            *)
(*                                                                         *)
(* DNS and the peer belong to nobody: a name may resolve differently each  *)
(* time it is asked, and a peer may answer, stay silent or hang up at any  *)
(* point.                                                                  *)
(***************************************************************************)
EXTENDS Naturals, FiniteSets

CONSTANTS Names,         \* host names, which DNS resolves
          Public,        \* addresses checkAddressAllowed lets through
          Refused,       \* addresses it turns away, by range or by CIDR
          MaxRedirects,  \* OUTBOUND_MAX_REDIRECTS
          MaxBytes,      \* OUTBOUND_MAX_BYTES
          MaxChunk       \* the largest chunk a peer sends (bounds the model)

ASSUME FetchAssumption ==
  /\ MaxRedirects \in Nat /\ MaxBytes \in Nat /\ MaxChunk \in Nat
  /\ Public \cap Refused = {}
  /\ "nobody" \notin Refused

VARIABLES request,  \* the options safeFetch was called with
          hop,      \* the hop under way
          sent,     \* the requests that left: where to, and whose headers
          result    \* what safeFetch answered

fetchVars == <<request, hop, sent, result>>

Addresses == Public \cup Refused
\* "query" says that the URL's query carries the API key.
Urls      == [scheme : {"http", "https"}, host : Names \cup Addresses, query : BOOLEAN]
Unusable  == [scheme |-> "other", host |-> "none", query |-> FALSE]
\* A Location header names a URL of the peer's choosing.
Locations == {u \in Urls : ~u.query} \cup {Unusable}

Origin(url) == <<url.scheme, url.host>>

Headers  == {"none", "plain", "unsendable"}
Requests == [url : Urls \cup {Unusable}, readBody : BOOLEAN, headers : Headers,
             requireHttps : BOOLEAN]
Statuses == {"2xx", "3xx", "4xx", "retry"}   \* "retry": 408, 429 and 5xx

\* SafeFetchResult, with the failures of SafeFetchFailure.
Results  == [ok : {TRUE}, failure : {"none"}, status : Statuses] \cup
            [ok : {FALSE}, status : {"none"},
             failure : {"invalid_url", "invalid_request", "blocked", "timeout", "network",
                        "too_large", "too_many_redirects"}]
NoResult == [ok |-> FALSE, failure |-> "pending", status |-> "none"]
NoHop    == [stage |-> "idle", url |-> Unusable, redirects |-> 0, received |-> 0,
             timer |-> FALSE, peer |-> "nobody", status |-> "none"]
\* What safeFetch and requestOnce start a hop with.
HopTo(url, redirects) ==
  [NoHop EXCEPT !.stage = "checking", !.url = url, !.redirects = redirects]

(***************************************************************************)
(* Addresses and headers.                                                  *)
(***************************************************************************)
CheckAddressAllowed(address) == address \in Public

\* A literal host is its own address; a name is what DNS answers, all of it.
ResolveAndValidate(host, answer) ==
  LET resolved == IF host \in Names THEN answer ELSE {host}
  IN  IF resolved = {} THEN "network"
      ELSE IF \A a \in resolved : CheckAddressAllowed(a) THEN "allowed" ELSE "blocked"

\* Node asks the socket's lookup only when it has a name to resolve.
GuardedLookup(host, answer) ==
  IF host \in Names THEN ResolveAndValidate(host, answer) ELSE "allowed"

\* (The mistake the check before the request is there for: trusting the lookup.)
LookupGuardOnly(host, answer) == GuardedLookup(host, answer)

CheckBeforeHop(host, answer) == ResolveAndValidate(host, answer)

\* (The same host on another scheme is another origin.)
SameHost(requested, url) == requested.host = url.host

SameOrigin(requested, url) == Origin(requested) = Origin(url)

HeadersForHop(callers, requested, url) ==
  IF SameOrigin(requested, url) THEN callers ELSE "none"

(***************************************************************************)
(* One call.                                                               *)
(***************************************************************************)
FetchInit ==
  /\ request = [url |-> Unusable, readBody |-> FALSE, headers |-> "none", requireHttps |-> FALSE]
  /\ hop = NoHop
  /\ sent = {}
  /\ result = NoResult

\* finish(): the deadline is cleared and nothing of this hop is heard again.
Settle(outcome) ==
  /\ hop' = [hop EXCEPT !.stage = "done", !.timer = FALSE]
  /\ result' = outcome
Fail(failure) == Settle([ok |-> FALSE, failure |-> failure, status |-> "none"])

SafeFetch(req) ==
  /\ hop.stage = "idle"
  /\ request' = req
  /\ UNCHANGED sent
  /\ \/ req.url = Unusable /\ Fail("invalid_url")
     \/ req.url # Unusable /\ hop' = HopTo(req.url, 0) /\ UNCHANGED result

\* The check before the request, then send() itself, which throws on a header
\* value it cannot carry; the deadline is set just before.
CheckHost ==
  /\ hop.stage = "checking"
  /\ UNCHANGED <<request, sent>>
  /\ \E answer \in SUBSET Addresses :
       LET verdict == CheckBeforeHop(hop.url.host, answer)
           headers == HeadersForHop(request.headers, request.url, hop.url) IN
       \/ verdict # "allowed" /\ Fail(verdict)
       \/ verdict = "allowed" /\ headers = "unsendable" /\ Fail("invalid_request")
       \/ /\ verdict = "allowed" /\ headers # "unsendable"
          /\ hop' = [hop EXCEPT !.stage = "connecting", !.timer = TRUE]
          /\ UNCHANGED result

\* The socket resolves the host again and connects to what it is given.
Connect ==
  /\ hop.stage = "connecting"
  /\ UNCHANGED request
  /\ \E answer \in SUBSET Addresses :
       LET verdict == GuardedLookup(hop.url.host, answer) IN
       \/ verdict # "allowed" /\ Fail(verdict) /\ UNCHANGED sent
       \/ /\ verdict = "allowed"
          /\ \E a \in IF hop.url.host \in Names THEN answer ELSE {hop.url.host} :
               hop' = [hop EXCEPT !.stage = "waiting", !.peer = a]
          /\ sent' = sent \cup {[url |-> hop.url,
                       headers |-> HeadersForHop(request.headers, request.url, hop.url)]}
          /\ UNCHANGED result

\* A redirect: the next hop starts over, unless it is one too many, cannot be
\* fetched, or would leave https while an API key travels along.
Redirect(location) ==
  /\ hop.stage = "waiting"
  /\ UNCHANGED <<request, sent>>
  /\ \/ hop.redirects = MaxRedirects /\ Fail("too_many_redirects")
     \/ /\ hop.redirects < MaxRedirects
        /\ \/ location = Unusable
           \/ request.requireHttps /\ location.scheme # "https"
        /\ Fail("blocked")
     \/ /\ hop.redirects < MaxRedirects
        /\ location # Unusable
        /\ request.requireHttps => location.scheme = "https"
        /\ hop' = HopTo(location, hop.redirects + 1)
        /\ UNCHANGED result

\* (A deadline on the headers alone.)
ReadingUntimed(status) == [hop EXCEPT !.stage = "body", !.status = status, !.timer = FALSE]

ReadingBody(status) == [hop EXCEPT !.stage = "body", !.status = status]

\* Headers that are no redirect: without readBody they are the answer.
Respond(status) ==
  /\ hop.stage = "waiting"
  /\ UNCHANGED <<request, sent>>
  /\ \/ ~request.readBody /\ Settle([ok |-> TRUE, failure |-> "none", status |-> status])
     \/ request.readBody /\ hop' = ReadingBody(status) /\ UNCHANGED result

OverCap(received, chunk) == received + chunk > MaxBytes

Data(chunk) ==
  /\ hop.stage = "body"
  /\ UNCHANGED <<request, sent>>
  /\ \/ OverCap(hop.received, chunk) /\ Fail("too_large")
     \/ /\ ~OverCap(hop.received, chunk)
        /\ hop' = [hop EXCEPT !.received = @ + chunk]
        /\ UNCHANGED result

EndOfBody ==
  /\ hop.stage = "body"
  /\ Settle([ok |-> TRUE, failure |-> "none", status |-> hop.status])
  /\ UNCHANGED <<request, sent>>

Deadline ==
  /\ hop.timer
  /\ Fail("timeout")
  /\ UNCHANGED <<request, sent>>

PeerFails ==
  /\ hop.stage \in {"connecting", "waiting", "body"}
  /\ Fail("network")
  /\ UNCHANGED <<request, sent>>

Peer == \/ \E location \in Locations : Redirect(location)
        \/ \E status \in Statuses : Respond(status)
        \/ \E chunk \in 1..MaxChunk : Data(chunk)
        \/ EndOfBody
        \/ PeerFails
FetchStep == CheckHost \/ Connect \/ Peer \/ Deadline

(***************************************************************************)
(* Nothing makes a peer answer. Timers fire, and the resolver gives up on  *)
(* its own (c-ares), with no help from the deadline, which is not yet set. *)
(***************************************************************************)
FetchFairness == WF_fetchVars(CheckHost) /\ WF_fetchVars(Deadline)

FetchTypeOK ==
  /\ request \in Requests
  /\ hop \in [stage : {"idle", "checking", "connecting", "waiting", "body", "done"},
              url : Urls \cup {Unusable}, redirects : 0..MaxRedirects,
              received : 0..MaxBytes, timer : BOOLEAN,
              peer : Addresses \cup {"nobody"}, status : Statuses \cup {"none"}]
  /\ sent \subseteq [url : Urls, headers : Headers]
  /\ result \in Results \cup {NoResult}
  /\ result # NoResult <=> hop.stage = "done"
=============================================================================
