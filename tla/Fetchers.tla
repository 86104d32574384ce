------------------------------ MODULE Fetchers ------------------------------
(***************************************************************************)
(* Who calls safeFetch, and what they make of its answer: the worker's     *)
(* uptime and custom_json fetchers (apps/worker/src/fetchers) and the      *)
(* api's preview of a custom widget (apps/api/src/routes/widget-preview.ts *)
(* behind apps/web's custom-preview.ts). The stock fetcher calls one fixed *)
(* https host itself and is here for what it makes of the answer.          *)
(*                                                                         *)
(* One caller makes one call in a behaviour.                               *)
(***************************************************************************)
EXTENDS SafeFetch, Sequences

VARIABLES call,     \* who calls, with which configuration and key
          outcome   \* what the caller returns: to the poll job, or to the form

vars == <<fetchVars, call, outcome>>

\* A stored or typed configuration: the URL, whether its header list holds
\* anything and can be sent, and where its key goes.
Configs == [url : {u \in Urls : ~u.query}, headers : Headers, apiKey : {"none", "header", "query"}]
Callers == {"uptime", "custom_json", "stock", "preview"}

\* SNAPSHOT_ERROR_KINDS: what a snapshot can say of a failed poll.
ErrorKinds == {"network", "timeout", "blocked", "http_status", "too_large", "invalid_response",
               "path_not_found", "config_invalid", "internal"}
\* PREVIEW_FAILURES: what the form can say of a failed preview.
PreviewFailures == {"invalid_url", "blocked", "timeout", "network", "too_large",
                    "too_many_redirects", "http_status", "not_json"}

NoConfig  == [url |-> Unusable, headers |-> "none", apiKey |-> "none"]
NoOutcome == [ok |-> FALSE, kind |-> "pending", retryable |-> FALSE]
Reading   == [ok |-> TRUE, kind |-> "reading", retryable |-> FALSE]
Down      == [ok |-> TRUE, kind |-> "down", retryable |-> FALSE]
Failure(kind, retryable) == [ok |-> FALSE, kind |-> kind, retryable |-> retryable]

Init == /\ FetchInit
        /\ call = [caller |-> "nobody", config |-> NoConfig]
        /\ outcome = NoOutcome

(***************************************************************************)
(* Assembling the request. The key is put in a header or in the query, and *)
(* only ever on an https URL; redirects must then stay on https.           *)
(***************************************************************************)
UsableKey(config) == config.apiKey = "none" \/ config.url.scheme = "https"

WithKey(config) ==
  [url |-> [config.url EXCEPT !.query = (config.apiKey = "query")],
   readBody |-> TRUE,
   headers |-> IF config.apiKey = "header" /\ config.headers = "none"
               THEN "plain" ELSE config.headers,
   requireHttps |-> config.apiKey # "none"]

\* (A preview that forgets that its redirects carry the key.)
WithKeyAnywhere(config) == [WithKey(config) EXCEPT !.requireHttps = FALSE]

PreviewRequest(config) == WithKey(config)

PollRequest(config) == WithKey(config)

UptimePolls(config) ==
  /\ SafeFetch([url |-> config.url, readBody |-> FALSE, headers |-> "none",
                requireHttps |-> FALSE])
  /\ call' = [caller |-> "uptime", config |-> config]
  /\ UNCHANGED outcome

\* loadCredential finds no key, or one to send.
CustomPolls(config) ==
  /\ call' = [caller |-> "custom_json", config |-> config]
  /\ \/ /\ UsableKey(config)
        /\ SafeFetch(PollRequest(config))
        /\ UNCHANGED outcome
     \/ /\ config.apiKey # "none"
        /\ outcome' = Failure("config_invalid", FALSE)
        /\ UNCHANGED fetchVars

\* The form sends a key only with a placement, and the api refuses one on http.
PreviewRuns(config) ==
  /\ call' = [caller |-> "preview", config |-> config]
  /\ \/ /\ UsableKey(config)
        /\ SafeFetch(PreviewRequest(config))
        /\ UNCHANGED outcome
     \/ /\ ~UsableKey(config)
        /\ outcome' = Failure("invalid_url", FALSE)
        /\ UNCHANGED fetchVars

(***************************************************************************)
(* What each makes of the answer.                                          *)
(***************************************************************************)
UptimeOutcome ==
  CASE result.ok -> IF result.status \in {"2xx", "3xx"} THEN Reading ELSE Down
    [] result.failure = "blocked" -> Failure("blocked", FALSE)
    [] result.failure \in {"invalid_url", "invalid_request"} -> Failure("config_invalid", FALSE)
    [] OTHER -> Down   \* no answer is a reading too

CustomFailure ==
  CASE result.failure \in {"invalid_url", "invalid_request"} -> Failure("config_invalid", FALSE)
    [] result.failure \in {"timeout", "network"} -> Failure(result.failure, TRUE)
    [] result.failure = "too_many_redirects" -> Failure("http_status", FALSE)
    [] OTHER -> Failure(result.failure, FALSE)

\* One outcome per slot: a single value stored is a reading, none is the first
\* slot's failure.
SlotOutcomes == {"stored", "path_not_found", "invalid_response", "config_invalid"}
OfSlots(slots) ==
  IF \E i \in DOMAIN slots : slots[i] = "stored" THEN Reading ELSE Failure(slots[1], FALSE)

CustomOutcome ==
  IF ~result.ok THEN {CustomFailure}
  ELSE IF result.status # "2xx" THEN {Failure("http_status", result.status = "retry")}
  ELSE {Failure("invalid_response", FALSE)}
         \cup {OfSlots(slots) : slots \in [1..2 -> SlotOutcomes]}

PreviewReply ==
  IF ~result.ok
  THEN {Failure(IF result.failure = "invalid_request" THEN "invalid_url" ELSE result.failure, FALSE)}
  ELSE IF result.status # "2xx" THEN {Failure("http_status", FALSE)}
  ELSE {Failure("not_json", FALSE), Reading}

Answered(caller) == call.caller = caller /\ hop.stage = "done" /\ outcome = NoOutcome
Return(outcomes) == outcome' \in outcomes /\ UNCHANGED <<fetchVars, call>>

UptimeEnds  == Answered("uptime")      /\ Return({UptimeOutcome})
CustomEnds  == Answered("custom_json") /\ Return(CustomOutcome)
PreviewEnds == Answered("preview")     /\ Return(PreviewReply)

\* The browser never hears of its preview: offline, or over its rate limit.
PreviewLost == call.caller = "preview" /\ outcome = NoOutcome /\ Return({Failure("network", FALSE)})

(***************************************************************************)
(* stock: the market-data service is asked over fetch, with its own five   *)
(* seconds.                                                                *)
(***************************************************************************)
\* c and pc of a quote body; d, dp and t fall back to what these give.
ReadQuote(price, previous) ==
  CASE "absent" \in {price, previous}       -> "unreadable"
    [] price = "zero" /\ previous = "zero" -> "unknown symbol"
    [] OTHER                                -> "quote"

StockOutcome(answer, quote) ==
  CASE answer = "no key" -> Failure("internal", FALSE)
    [] answer \in {"timeout", "network"} -> Failure(answer, TRUE)
    [] answer = "429" -> Failure("http_status", TRUE)
    [] answer \in {"401", "4xx"} -> Failure("http_status", FALSE)
    [] answer = "5xx" -> Failure("http_status", TRUE)
    [] answer = "not JSON" -> Failure("invalid_response", TRUE)
    [] answer = "2xx" /\ quote = "unreadable" -> Failure("invalid_response", TRUE)
    [] answer = "2xx" /\ quote = "unknown symbol" -> Failure("config_invalid", FALSE)
    [] OTHER -> Reading

StockPolls ==
  /\ call' = [caller |-> "stock", config |-> NoConfig]
  /\ \E answer \in {"no key", "timeout", "network", "429", "401", "4xx", "5xx", "not JSON", "2xx"},
        price, previous \in {"absent", "zero", "positive"} :
       outcome' = StockOutcome(answer, ReadQuote(price, previous))
  /\ UNCHANGED fetchVars

Start == /\ call.caller = "nobody"
         /\ \/ \E config \in Configs :
                  UptimePolls(config) \/ CustomPolls(config) \/ PreviewRuns(config)
            \/ StockPolls
Work  == call.caller # "nobody" /\ FetchStep /\ UNCHANGED <<call, outcome>>
Ends  == UptimeEnds \/ CustomEnds \/ PreviewEnds

Next == Start \/ Work \/ Ends \/ PreviewLost

Spec == Init /\ [][Next]_vars /\ FetchFairness /\ WF_vars(Ends)

-----------------------------------------------------------------------------
TypeOK ==
  /\ FetchTypeOK
  /\ call \in [caller : Callers \cup {"nobody"}, config : Configs \cup {NoConfig}]
  /\ outcome.retryable => ~outcome.ok
  /\ outcome # NoOutcome /\ ~outcome.ok =>
       outcome.kind \in (IF call.caller = "preview" THEN PreviewFailures ELSE ErrorKinds)

\* Every socket goes to an address that may be fetched, although a name is
\* resolved twice and need not resolve to the same, a literal is never looked
\* up by the socket, and each redirect names a host of its own (safe-fetch.ts:
\* 192-278, 579-608).
ConnectsWhereAllowed == hop.peer \notin Refused

\* The user's headers go to the origin of the URL the user gave and to no
\* other, wherever the redirects lead and even when they lead back
\* (headersForHop, safe-fetch.ts:516-549).
HeadersStayHome ==
  \A s \in sent : s.headers # "none" => Origin(s.url) = Origin(request.url)

\* A call that carries an API key is made over https on its first hop and on
\* every later one, from the worker and from the preview alike (custom-json.ts:
\* 179-205, widget-preview.ts:133-158, safe-fetch.ts:670-682).
KeyOverHttps ==
  call.config.apiKey # "none" /\ call.caller # "uptime" => \A s \in sent : s.url.scheme = "https"

\* A preview asks the endpoint exactly what a poll of the same configuration
\* and key will ask it, so that what it shows is what the widget will get.
PreviewAsksAsPoll ==
  call.caller = "preview" /\ hop.stage # "idle" => request = PollRequest(call.config)

\* What is parsed is a whole body of at most the cap: never a body cut off, and
\* never one byte more (safe-fetch.ts:461-487).
BodyWithinCap == result.ok => hop.received <= MaxBytes

\* Whatever the peer does, or fails to do, the caller gets an outcome: silence
\* before or after the headers, a body that never ends, redirects without end.
EveryCallReturns == (call.caller # "nobody") ~> (outcome # NoOutcome)

\* A call keeps to its bounds: headers stay with their origin, a key with https,
\* and what is parsed is no longer than the cap, whatever the redirects.
CallSound == TypeOK /\ HeadersStayHome /\ KeyOverHttps /\ BodyWithinCap
=============================================================================
