------------------------------- MODULE Fetch -------------------------------
(***************************************************************************)
(* One call of FetchService.request(), made directly or by a method of a   *)
(* feign client, against a network that may delay, fail or stall and a     *)
(* server that carries out what reaches it at any later time.  Calls share *)
(* nothing but the fetchers registered under a name.                       *)
(***************************************************************************)
EXTENDS Decorators, Integers

CONSTANTS
  Invocations,  \* calls: [fetch, path, options, target], see FeignInvocation
  Fetchers,     \* FeignFetcherRegistry: the config of the fetcher of a name
  Falsy,        \* path parameters that are falsy: 0, ""
  Null,         \* undefined or null
  Statuses      \* what the server may answer

(* The fallback fetcher does not retry, whatever the options say.          *)
ASSUME FetchAssumption ==
  /\ Statuses \subseteq 100 .. 599
  /\ \A i \in Invocations :
       LET retries == IF "retryCount" \in DOMAIN i.options THEN i.options.retryCount
                      ELSE i.fetch.retryCount
       IN /\ DOMAIN i = {"fetch", "path", "options", "target"}
          /\ retries \in Int /\ i.fetch.fallback \in BOOLEAN /\ (i.fetch.fallback => retries = 0)

VARIABLES
  asked,     \* the call
  stage,     \* where request() has got to
  attempt,   \* attempts made before the current one
  timer,     \* the timer of the current attempt and its AbortController
  aborted,   \* whether the caller has aborted opts.signal
  sent,      \* attempts whose request has gone out
  answers,   \* pairs <<attempt, status>>: what the server has done
  response,  \* the status of the response at hand, 0 when there is none
  error,     \* [known |-> FetchException, status]: what the last attempt threw
  refused    \* (history) attempts whose 4xx has passed the interceptors

network == <<sent, answers>>
vars == <<asked, stage, attempt, timer, aborted, sent, answers, response, error, refused>>

-----------------------------------------------------------------------------
(* Building the request.  A path is a sequence of segments, a query maps   *)
(* each name to the set of its values, a body has a kind and the fields    *)
(* that the spread operator finds in it.                                   *)
NoBody == [kind |-> "none", fields |-> Nothing]
Option(options, field, default) == IF Has(options, field) THEN options[field] ELSE default

(* FeignFeatureDecoration: the arguments of a kind that are given, merged  *)
(* by a spread: of a body that is no plain object only its fields are left.*)
MergeByIndexes(indexes, args) ==
  FoldLeft(LAMBDA merged, i : args[i] @@ merged, Nothing,
           SelectSeq(indexes, LAMBDA i : i \in DOMAIN args))

FaultyJoinPaths(prefix, path) == path
JoinPaths(prefix, path) == prefix \o path

DecorateFetch(client, declared, params, args) ==
  LET Merge(kind) == MergeByIndexes(ParamIndexes(params, kind), args)
      body == ParamIndexes(params, "body")
  IN [fetcher |-> client.name,
      path |-> IF Has(client, "path") THEN JoinPaths(client.path, declared.path) ELSE declared.path,
      options |->
        [method |-> declared.method, params |-> Merge("params"), queries |-> Merge("queries"),
         headers |-> Merge("headers"), baseUrl |-> Option(client, "url", ""),
         body |-> IF Len(body) = 1 THEN [kind |-> "object", fields |-> Merge("body")] ELSE NoBody]]

(* FeignFetcherRegistry.get(): a name that was never registered falls back *)
(* to defaultFeignFetcher, which neither retries nor times out.            *)
Fallback == [fallback |-> TRUE, retryCount |-> 0, timeoutMs |-> 0, headers |-> Nothing,
             baseUrl |-> "", intercepted |-> FALSE]
FetcherOf(name) == Option(Fetchers, name, Fallback)

FeignInvocation(client, declared, params, args, target) ==
  LET call == DecorateFetch(client, declared, params, args)
  IN [fetch |-> FetcherOf(call.fetcher), path |-> call.path, options |-> call.options,
      target |-> target]

(* get(), post(), put(), patch() and delete() of a service. *)
Verb(service, method, path, body, options, target) ==
  [fetch |-> service, path |-> path,
   options |-> [method |-> method, body |-> body] @@ options, target |-> target]

(* resolvePathParams(): a falsy value is not taken for missing, and leaves *)
(* its placeholder.  buildUrl() of feign.util.ts leaves what is missing.   *)
MissingPathParam(path, params) ==
  \E i \in DOMAIN path :
    path[i][1] = "param" /\ Option(params, path[i][2], Null) = Null

ResolvePathParams(path, params) ==
  [i \in DOMAIN path |->
     IF path[i][1] = "param" /\ params[path[i][2]] \notin Falsy
     THEN Lit(params[path[i][2]]) ELSE path[i]]

ReplacePathParams(path, params) ==
  [i \in DOMAIN path |->
     IF path[i][1] = "param" /\ Has(params, path[i][2]) THEN Lit(params[path[i][2]]) ELSE path[i]]

ParseQueryString(query) ==
  UNION {{<<name, value>> : value \in query[name]} : name \in DOMAIN query}

(* defaultFeignFetcher joins the values of a list. *)
SearchParams(query) ==
  {<<name, query[name]>> : name \in {n \in DOMAIN query : query[n] # {}}}

(* A Headers instance has no own keys: its headers are lost. *)
MergeHeaders(a, b) == b @@ a

SafeParseRequestBody(headers, body) ==
  CASE body.kind = "form" ->
         [name \in DOMAIN headers \ {"content-type"} |-> headers[name]]
    [] body.kind = "urlencoded" -> SetMetadata("content-type", "form-urlencoded") @@ headers
    [] body.kind \in {"object", "list"} -> headers @@ SetMetadata("content-type", "json")
    [] OTHER -> headers

Config == asked.fetch
Setting(field) == Option(asked.options, field, Config[field])
Params == Option(asked.options, "params", Nothing)
Body == asked.options.body

(* What goes out.  baseUrl of the options, from @FeignClient({ url }), is  *)
(* used by the fallback only.                                              *)
Request ==
  [method |-> asked.options.method,
   base |-> IF Config.fallback THEN asked.options.baseUrl ELSE Config.baseUrl,
   path |-> IF Config.fallback THEN ReplacePathParams(asked.path, Params)
            ELSE ResolvePathParams(asked.path, Params),
   query |-> LET query == Option(asked.options, "queries", Nothing)
             IN IF Config.fallback THEN SearchParams(query) ELSE ParseQueryString(query),
   headers |-> SafeParseRequestBody(
                 MergeHeaders(Config.headers, Option(asked.options, "headers", Nothing)), Body),
   body |-> Body]

(* new Request() throws for a relative URL, and for a GET with a body. *)
Constructible == Request.base # "" /\ (Request.method = "GET" => Body.kind = "none")

-----------------------------------------------------------------------------
HasSignal == Has(asked.options, "signal")
Signalled == IF HasSignal THEN aborted ELSE timer = "fired"

PlainError == [known |-> FALSE, status |-> 0]
FetchException(status) ==
  IF Config.fallback THEN PlainError ELSE [known |-> TRUE, status |-> status]
Ok(status) == status \in 200..299

Init ==
  /\ asked \in Invocations
  /\ stage = "called"
  /\ attempt = 0
  /\ timer = "off"
  /\ aborted = FALSE
  /\ sent = {} /\ answers = {}
  /\ response = 0
  /\ error = PlainError
  /\ refused = {}

FaultyIsRetryable(e) == ~e.known \/ e.status = 0 \/ e.status >= 400
IsRetryable(e) == ~e.known \/ e.status = 0 \/ e.status >= 500

(* An attempt throws: request() waits and tries again, or throws as well.  *)
(* The timer is not cleared, but its controller is not used again.         *)
FaultyThrows(e) ==
  /\ error' = e /\ response' = 0
  /\ stage' = IF IsRetryable(e) /\ attempt <= Setting("retryCount") THEN "delay" ELSE "failed"
Throws(e) ==
  /\ error' = e /\ response' = 0
  /\ stage' = IF IsRetryable(e) /\ attempt < Setting("retryCount") THEN "delay" ELSE "failed"

(* request(): with a negative retryCount there is no attempt, and it       *)
(* throws undefined.                                                       *)
NoAttempt ==
  /\ stage = "called" /\ Setting("retryCount") < 0
  /\ stage' = "failed"
  /\ UNCHANGED <<asked, attempt, timer, aborted, network, response, error, refused>>

MayBegin == stage = "called" \/ stage = "next"

(* executeRequest(): buildUrl() is outside the try block. *)
BuildUrlThrows ==
  /\ MayBegin /\ Setting("retryCount") >= 0
  /\ ~Config.fallback /\ MissingPathParam(asked.path, Params)
  /\ Throws(PlainError)
  /\ UNCHANGED <<asked, attempt, timer, aborted, network, refused>>

(* The timer is set before the request is built; interceptors are awaited  *)
(* only where there are any.                                               *)
Armed == timer' = IF Setting("timeoutMs") = 0 THEN "off" ELSE "armed"
Buildable == Config.fallback \/ ~MissingPathParam(asked.path, Params)

FaultyBegin ==
  /\ MayBegin /\ Setting("retryCount") >= 0 /\ Buildable /\ Constructible
  /\ IF stage = "called" THEN Armed ELSE timer' = "off"
  /\ stage' = "intercepting"
  /\ UNCHANGED <<asked, attempt, aborted, network, response, error, refused>>
Begin ==
  /\ MayBegin /\ Setting("retryCount") >= 0 /\ Buildable /\ Constructible
  /\ Armed
  /\ stage' = "intercepting"
  /\ UNCHANGED <<asked, attempt, aborted, network, response, error, refused>>

RequestThrows ==
  /\ MayBegin /\ Setting("retryCount") >= 0 /\ Buildable /\ ~Constructible
  /\ Armed
  /\ Throws(FetchException(0))
  /\ UNCHANGED <<asked, attempt, aborted, network, refused>>

InterceptorThrows ==
  /\ stage \in {"intercepting", "responding"} /\ Config.intercepted
  /\ Throws(FetchException(0))
  /\ UNCHANGED <<asked, attempt, timer, aborted, network, refused>>

(* fetch(): an aborted signal rejects it before anything is sent. *)
Send ==
  /\ stage = "intercepting" /\ ~Signalled
  /\ sent' = sent \cup {attempt} /\ stage' = "sent"
  /\ UNCHANGED <<asked, attempt, timer, aborted, answers, response, error, refused>>

(* The signal of the attempt rejects fetch() and the reading of a body;    *)
(* safeParseBody() makes null of the body of an error.                     *)
Abort ==
  /\ stage \in {"intercepting", "sent"} \/ (stage = "reading" /\ Ok(response))
  /\ ~Config.fallback /\ Signalled
  /\ Throws(FetchException(0))
  /\ UNCHANGED <<asked, attempt, timer, aborted, network, refused>>

(* The connection fails while fetch() or the reading of a body waits; the  *)
(* server may have got the request nevertheless.                           *)
NetworkFails ==
  /\ stage = "sent" \/ (stage = "reading" /\ Ok(response))
  /\ Throws(FetchException(0))
  /\ UNCHANGED <<asked, attempt, timer, aborted, network, refused>>

(* The server carries out a request that has reached it, when it likes,    *)
(* whether or not anyone still waits.                                      *)
Serve(a, status) ==
  /\ a \in sent /\ \A other \in answers : other[1] # a
  /\ answers' = answers \cup {<<a, status>>}
  /\ UNCHANGED <<asked, stage, attempt, timer, aborted, sent, response, error, refused>>

Respond(status) ==
  /\ stage = "sent" /\ <<attempt, status>> \in answers
  /\ stage' = "responding" /\ response' = status
  /\ UNCHANGED <<asked, attempt, timer, aborted, network, error, refused>>

(* The response has passed the interceptors: the timer is cleared, and a   *)
(* body that stalls from here on has no limit.                             *)
FaultyAccept ==
  /\ stage = "responding"
  /\ timer' = IF timer = "armed" THEN "off" ELSE timer
  /\ stage' = IF Has(asked.options, "rawResponse") THEN "done" ELSE "reading"
  /\ refused' = IF response \in 400..499 THEN refused \cup {attempt} ELSE refused
  /\ UNCHANGED <<asked, attempt, aborted, network, response, error>>
Accept ==
  /\ stage = "responding"
  /\ timer' = IF timer = "armed" THEN "off" ELSE timer
  /\ stage' = IF Ok(response) /\ Has(asked.options, "rawResponse") THEN "done" ELSE "reading"
  /\ refused' = IF response \in 400..499 THEN refused \cup {attempt} ELSE refused
  /\ UNCHANGED <<asked, attempt, aborted, network, response, error>>

(* parseResponseBody(): the body has arrived and is what its content type  *)
(* says, or not.                                                           *)
ReadBody ==
  /\ stage = "reading" /\ Ok(response)
  /\ stage' = "done"
  /\ UNCHANGED <<asked, attempt, timer, aborted, network, response, error, refused>>

Unparsable ==
  /\ stage = "reading" /\ Ok(response)
  /\ Throws(FetchException(0))
  /\ UNCHANGED <<asked, attempt, timer, aborted, network, refused>>

(* safeParseBody() never throws. *)
HttpError ==
  /\ stage = "reading" /\ ~Ok(response)
  /\ Throws(FetchException(response))
  /\ UNCHANGED <<asked, attempt, timer, aborted, network, refused>>

Delayed ==
  /\ stage = "delay"
  /\ stage' = "next" /\ attempt' = attempt + 1
  /\ UNCHANGED <<asked, timer, aborted, network, response, error, refused>>

(* Without interceptors request() does not wait between its steps. *)
Waits == stage \in {"intercepting", "responding"} => Config.intercepted

TimerFires ==
  /\ Waits /\ timer = "armed" /\ timer' = "fired"
  /\ UNCHANGED <<asked, stage, attempt, aborted, network, response, error, refused>>

CallerAborts ==
  /\ Waits /\ HasSignal /\ ~aborted /\ aborted' = TRUE
  /\ UNCHANGED <<asked, stage, attempt, timer, network, response, error, refused>>

-----------------------------------------------------------------------------
Runs ==
  \/ NoAttempt \/ BuildUrlThrows \/ Begin \/ RequestThrows \/ InterceptorThrows
  \/ Send \/ Abort \/ Accept \/ Delayed \/ \E status \in Statuses : Respond(status)

Next ==
  \/ Runs \/ TimerFires \/ CallerAborts
  \/ NetworkFails \/ ReadBody \/ Unparsable \/ HttpError
  \/ \E a \in sent, status \in Statuses : Serve(a, status)

(* The program and its timers go on; neither the server nor the network    *)
(* has to do anything, and nobody has to abort.                            *)
Fairness == WF_vars(Runs) /\ WF_vars(TimerFires)

Spec == Init /\ [][Next]_vars /\ Fairness
-----------------------------------------------------------------------------
(* The types of the variables; no attempt beyond the last retry, and the   *)
(* timer and the signal only where they are set.                           *)
TypeOK ==
  /\ DOMAIN asked = {"fetch", "path", "options", "target"}
  /\ stage \in {"called", "intercepting", "sent", "responding", "reading", "delay", "next",
                "done", "failed"}
  /\ attempt \in Nat /\ (attempt > 0 => attempt <= Setting("retryCount"))
  /\ timer \in {"off", "armed", "fired"} /\ (timer # "off" => Setting("timeoutMs") # 0)
  /\ aborted \in BOOLEAN /\ (aborted => HasSignal)
  /\ sent \subseteq 0..attempt /\ answers \subseteq sent \X Statuses
  /\ response \in Statuses \cup {0} /\ (response # 0 <=> stage \in {"responding", "reading", "done"})
  /\ error \in [known : BOOLEAN, status : Statuses \cup {0}]
  /\ refused \subseteq sent

(* What the caller is told is what the server did for the last attempt: a  *)
(* result only if it succeeded, an HTTP status only if it answered that -  *)
(* never the answer to an attempt that was given up, and no error of the   *)
(* server as the raw response of a success.                                *)
OutcomeKnown ==
  /\ stage = "done" => \E status \in Statuses : Ok(status) /\ <<attempt, status>> \in answers
  /\ stage = "failed" /\ error.status # 0 => <<attempt, error.status>> \in answers

(* A 4xx that has got past the response interceptors is the end of it: the *)
(* request is not sent again, and the call does not succeed.               *)
RefusalIsFinal ==
  \A a \in refused :
    a = attempt /\ stage \notin {"delay", "next", "done"} /\ (stage = "failed" => error.status # 0 \/ Config.fallback)

(* What goes out is what was asked for: the path with the prefix of the    *)
(* client and the arguments in place of the parameters, the query and the  *)
(* body of the declared parameters - unless an argument is falsy.          *)
FalsyParam == \E i \in DOMAIN asked.path :
  asked.path[i][1] = "param" /\ Option(Params, asked.path[i][2], Null) \in Falsy
SentAsAsked ==
  sent # {} /\ ~FalsyParam =>
    /\ Request.path = asked.target.path /\ Request.query = asked.target.query
    /\ Request.body.fields = asked.target.fields

(* request() settles, whatever the server and the network do or leave      *)
(* undone, except in two places: an attempt without a timeout of its own - *)
(* a signal of the caller takes its place - waits for a response for as    *)
(* long as it takes, and so does the reading of a body.                    *)
Unlimited == stage = "sent" /\ (HasSignal \/ Setting("timeoutMs") = 0)
CallSettles == <>[](stage \in {"done", "failed", "reading"} \/ Unlimited)
=============================================================================
