---------------------------- MODULE HttpClients ----------------------------
(***************************************************************************)
(* The requests of probitas-client-http, -graphql and -connectrpc (which   *)
(* is also the gRPC client).  The first two call fetch, which knows        *)
(* options.signal and nothing of options.timeout.                          *)
(***************************************************************************)
EXTENDS Operations

-----------------------------------------------------------------------------
\* http

\* HttpBody: bytes, text and json of no body, an empty one, a text and a JSON one
HttpBody ==
  {<<Null, Null, Null>>, <<EmptyList, EmptyText, Null>>, <<List, Text, Null>>} \cup
  {<<List, Text, json>> : json \in Values \ {Undefined}}

HttpResponse(status, body) ==
  [status |-> status, statusText |-> IF status = Null THEN Null ELSE Text,
   headers |-> IF status = Null THEN Null ELSE Object, url |-> Text,
   body |-> body[1], text |-> body[2], json |-> body[3]]

HttpResponseFailure == HttpResponse(Null, <<Null, Null, Null>>)

\* convertFetchError: whatever fetch throws is a failure.
FailureCauses == Causes

\* A response that is not ok becomes an Error with the same data.
request ==
  Operation("request", Result("http", HttpResponseFailure, HttpResponseFailure),
            {Success(HttpResponse(Number, b)) : b \in HttpBody} \cup
            {Refusal(HttpResponse(Number, b)) : b \in HttpBody},
            FailureCauses, {"signal", "answer", "body"})

-----------------------------------------------------------------------------
\* graphql

GraphqlResponse(status, data, extensions) ==
  [status |-> status, headers |-> IF status = Null THEN Null ELSE Object,
   data |-> data, extensions |-> extensions, url |-> Text]

GraphqlResponseFailure == GraphqlResponse(Null, Null, Null)

\* A status that is not ok is a Failure, although the server answered.
execute ==
  LET present == {Null, Object} IN
  Operation("execute", Result("graphql", GraphqlResponseFailure, GraphqlResponseFailure),
            {Success(GraphqlResponse(Number, d, e)) : d \in present, e \in present} \cup
            {Refusal(GraphqlResponse(Number, d, e)) : d \in present, e \in present} \cup
            {NoResponse(GraphqlResponseFailure)},
            FailureCauses, {"signal", "answer", "body", "caught"})

-----------------------------------------------------------------------------
\* connectrpc

ConnectRpcResponse(status, message, headers, data) ==
  [statusCode |-> status, statusMessage |-> message, headers |-> headers,
   trailers |-> headers, data |-> data]

ConnectRpcResponseError == ConnectRpcResponse(Number, Text, Object, Null)
ConnectRpcResponseFailure == ConnectRpcResponse(Null, Null, Null, Null)

(***************************************************************************)
(* Every ConnectError becomes an Error with a status code: also the one    *)
(* that says that the server is out of reach, the deadline has passed or   *)
(* the call is aborted.  What else is thrown, before or after, is a        *)
(* Failure.                                                                *)
(***************************************************************************)
Call(name) ==
  Operation(name,
            Result("connectrpc", ConnectRpcResponseError, ConnectRpcResponseFailure),
            {Success(ConnectRpcResponse(Zero, Null, Object, d)) : d \in {Null, Object}},
            {"closed", "broken"},
            {"closed", "registry", "timeout", "signal", "answer"})

call == Call("call")
clientStream == Call("clientStream")

Commands == {request, execute, call, clientStream}

=============================================================================
