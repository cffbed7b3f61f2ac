------------------------------ MODULE MCFetch ------------------------------
EXTENDS JsonServer

(* FetchExampleModule and FeignExampleModule *)
MCConfig ==
  [fallback |-> FALSE, retryCount |-> 2, timeoutMs |-> 5000,
   headers |-> [accept |-> "json"] @@ SetMetadata("content-type", "json"),
   baseUrl |-> "http://localhost:3001", intercepted |-> FALSE]
MCFetchers == [jsonServer |-> MCConfig]
MCService == [MCConfig EXCEPT !.intercepted = TRUE]
MCPosted == [name |-> "n"]

(* Beyond the examples: a signal of the caller, no base URL, no retries,   *)
(* a missing argument, a client whose name is not registered, a form.      *)
Users == <<Lit("users")>>
MCOther ==
  {Verb(MCService, "GET", Users, Empty, [signal |-> TRUE], Resource("users")),
   Verb([MCService EXCEPT !.baseUrl = ""], "GET", Users, Empty, Nothing, Resource("users")),
   Verb(MCService, "GET", Users, Empty, [retryCount |-> -1], Resource("users")),
   Verb(MCService, "GET", Users, Empty, [timeoutMs |-> 0, rawResponse |-> TRUE], Resource("users")),
   Verb(MCService, "POST", Users, [kind |-> "form", fields |-> Nothing], Nothing, Resource("users")),
   ByFeign(UserFeignClient, "findById", <<>>, ItemOf("users", Null)),
   FeignInvocation([name |-> "other", url |-> "http://other"],
                   [method |-> "GET", path |-> <<Lit("users"), Param("id")>>],
                   <<"params">>, <<[id |-> "7"]>>, ItemOf("users", "7"))}

(* The five retries of getUserWithCustomTimeout() are cut to two. *)
MCCut(options) ==
  IF Option(options, "retryCount", 0) > 2 THEN [options EXCEPT !.retryCount = 2] ELSE options
MCInvocations ==
  {[i EXCEPT !.options = MCCut(@)] :
     i \in MCOther \cup UNION {FetchExampleController(id) \cup FeignExampleController(id) : id \in Arguments}}
=============================================================================
