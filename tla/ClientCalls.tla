---------------------------- MODULE ClientCalls ----------------------------
(***************************************************************************)
(* One call of an operation of a client, from the call to the result: the  *)
(* checks before the request, the request, the server, the answer, and     *)
(* what may come first: options.timeout, options.signal, the connection    *)
(* breaking, the client being closed.                                      *)
(***************************************************************************)
EXTENDS Operations

CONSTANT Requests   \* the operations that may be called

\* Who waits for the socket waits for no answer.
ASSUME RequestsAssumption ==
  \A r \in Requests : "answer" \notin r.code \/ "drain" \notin r.code

VARIABLES
  operation,  \* the operation called
  options,    \* its options
  client,     \* whether the client is open
  phase,      \* how far the call is
  request,    \* what has become of the request
  reply,      \* the ending that the server has sent
  result      \* what the caller got

vars == <<operation, options, client, phase, request, reply, result>>

Options ==
  [timeout : BOOLEAN, signal : {"none", "live", "aborted"},
   ownReason : BOOLEAN, throwOnError : BOOLEAN]

Nothing == [nothing |-> TRUE]   \* before there is a reply, a result, an assertion

\* The ending that the server's answer makes, and (Ended) the one that a cause makes.
Answered(answer) ==
  [cause |-> "answer", outcome |-> answer.outcome, error |-> answer.error,
   data |-> answer.data]

\* Bug: the result of an aborted call is the bare error, without the fields of its kind.
EndedBare(cause) ==
  LET failed == cause \in operation.failures
  IN [cause |-> cause, outcome |-> IF failed THEN "Failure" ELSE "Error", error |-> Object,
      data |-> IF cause = "abort" THEN <<>>
               ELSE IF failed THEN operation.result.failure ELSE operation.result.error]

Ended(cause) ==
  LET failed == cause \in operation.failures
  IN [cause |-> cause, outcome |-> IF failed THEN "Failure" ELSE "Error", error |-> Object,
      data |-> IF failed THEN operation.result.failure ELSE operation.result.error]

\* processed and ok of a result
Processed(outcome) == outcome # "Failure"
Ok(outcome) == outcome = "Success"

Does(what) == what \in operation.code

Init ==
  /\ operation \in Requests
  /\ options \in Options
  /\ options.ownReason => options.signal # "none"
  /\ client \in {"open", "closed"}
  /\ phase = "called"
  /\ request = "none"
  /\ reply = Nothing
  /\ result = Nothing

-----------------------------------------------------------------------------
\* The end of the call: an error is thrown when throwOnError asks for it.
Finish(ending, thrown) ==
  /\ phase' = "settled"
  /\ result' = [ending |-> ending, thrown |-> thrown]

Settle(ending) == Finish(ending, ending.error # Null /\ options.throwOnError)

(***************************************************************************)
(* The error of an aborted signal: withSignal makes an AbortError of any   *)
(* reason, deadline() rejects with the reason itself, which                *)
(* convertDeadlineError knows only if it is the default one.               *)
(***************************************************************************)
AbortCause ==
  IF Does("eager") /\ options.timeout /\ options.ownReason THEN "reason" ELSE "abort"

\* Bug: the client is checked again while the call waits.
RejectLate ==
  /\ phase \in {"called", "waiting"}
  /\ \/ Does("closed") /\ client = "closed" /\ Settle(Ended("closed"))
     \/ Does("invalid") /\ Settle(Ended("invalid"))
  /\ UNCHANGED <<operation, options, client, request, reply>>

\* The checks before the request
Reject ==
  /\ phase = "called"
  /\ \/ Does("closed") /\ client = "closed" /\ Settle(Ended("closed"))
     \/ Does("invalid") /\ Settle(Ended("invalid"))
  /\ UNCHANGED <<operation, options, client, request, reply>>

Passes == Does("closed") => client = "open"

\* getDynamicClient(): the client may be closed while this waits for the registry
Prepare ==
  /\ phase = "called" /\ Does("registry") /\ Passes
  /\ phase' = "preparing"
  /\ UNCHANGED <<operation, options, client, request, reply, result>>

PrepareFails ==
  /\ phase = "preparing"
  /\ Settle(Ended("broken"))
  /\ UNCHANGED <<operation, options, client, request, reply>>

Ready == IF Does("registry") THEN phase = "preparing" ELSE phase = "called" /\ Passes

AlreadyAborted == Does("signal") /\ options.signal = "aborted"

Send ==
  /\ Ready
  /\ IF AlreadyAborted
     THEN /\ request' = IF Does("eager") THEN "sent" ELSE "none"
          /\ Settle(Ended(AbortCause))
     ELSE /\ request' = "sent"
          /\ \/ /\ Does("answer") \/ Does("drain")
                /\ phase' = "waiting"
                /\ UNCHANGED result
             \/ /\ ~Does("answer")
                /\ \E a \in operation.answers : Settle(Answered(a))
  /\ UNCHANGED <<operation, options, client, reply>>

-----------------------------------------------------------------------------
\* The server carries the request out, or refuses it.
Serve ==
  /\ request = "sent"
  /\ request' = "served"
  /\ reply' \in {Answered(a) : a \in operation.answers}
  /\ UNCHANGED <<operation, options, client, phase, result>>

Refuse ==
  /\ request = "sent" /\ Does("answer") /\ ~Does("body")
  /\ request' = "refused"
  /\ reply' \in {Ended("server"), Ended("misread")}
  /\ UNCHANGED <<operation, options, client, phase, result>>

(***************************************************************************)
(* A method of a closed connectrpc client finds its schema gone: a static  *)
(* one is not there, and reflection, if it is asked again, fails, with a   *)
(* ConnectError or with another error.                                     *)
(***************************************************************************)
SchemaIsGone == Does("registry") /\ client = "closed" /\ reply.outcome = "Success"

Receive ==
  /\ phase = "waiting" /\ reply # Nothing /\ Does("answer")
  /\ IF Does("body")
     THEN phase' = "reading" /\ UNCHANGED result
     ELSE \/ Settle(reply)
          \/ SchemaIsGone /\ \E cause \in {"broken", "connection"} : Settle(Ended(cause))
  /\ UNCHANGED <<operation, options, client, request, reply>>

(***************************************************************************)
(* The second await fails: what is not caught rejects, asked to or not.    *)
(* graphql catches what json() throws, but not what the cancel() of a      *)
(* refused body rejects with, nor that the body null has no errors.        *)
(***************************************************************************)
BodyFails(cause) ==
  \/ Does("caught") /\ Settle(Ended(cause))
  \/ Finish(Ended(cause), TRUE)

Read ==
  /\ phase = "reading"
  /\ Settle(reply) \/ BodyFails("broken")
  /\ UNCHANGED <<operation, options, client, request, reply>>

Drained ==
  /\ phase = "waiting" /\ Does("drain")
  /\ \E a \in operation.answers : Settle(Answered(a))
  /\ UNCHANGED <<operation, options, client, request, reply>>

-----------------------------------------------------------------------------
\* Bug: a call that is given both a signal and a timeout obeys the signal only.
ExpireWithoutSignal ==
  /\ phase = "waiting" /\ options.timeout /\ Does("timeout") /\ options.signal = "none"
  /\ Settle(Ended("timeout"))
  /\ UNCHANGED <<operation, options, client, request, reply>>

Expire ==
  /\ phase = "waiting" /\ options.timeout /\ Does("timeout")
  /\ Settle(Ended("timeout"))
  /\ UNCHANGED <<operation, options, client, request, reply>>

Abort ==
  /\ options.signal = "live" /\ phase # "settled"
  /\ options' = [options EXCEPT !.signal = "aborted"]
  /\ CASE phase = "waiting" /\ Does("signal") -> Settle(Ended(AbortCause))
       [] phase = "reading"                   -> BodyFails("abort")
       [] OTHER                               -> UNCHANGED <<phase, result>>
  /\ UNCHANGED <<operation, client, request, reply>>

Break ==
  /\ phase = "waiting" /\ Does("answer")
  /\ \E cause \in {"connection", "broken"} : Settle(Ended(cause))
  /\ UNCHANGED <<operation, options, client, request, reply>>

Close ==
  /\ client = "open" /\ phase # "settled"
  /\ client' = "closed"
  /\ UNCHANGED <<operation, options, phase, request, reply, result>>

-----------------------------------------------------------------------------
Client == Reject \/ Prepare \/ PrepareFails \/ Send \/ Receive \/ Read \/ Drained
Environment == Serve \/ Refuse \/ Abort \/ Break \/ Close

Next == Client \/ Expire \/ Environment

\* The client's own code runs and timers fire; a server need not answer.
Fairness == WF_vars(Reject \/ Send \/ Receive) /\ WF_vars(Expire)

Spec == Init /\ [][Next]_vars /\ Fairness

-----------------------------------------------------------------------------
(***************************************************************************)
(* The promise of RemoteCall.  What a caller may conclude: not sent, from  *)
(* a refusal of the checks; carried out, or refused by the server, from an *)
(* answer; nothing, from the rest.                                         *)
(***************************************************************************)
Told ==
  IF result = Nothing THEN "nothing"
  ELSE CASE result.ending.cause \in {"closed", "invalid"} -> "not sent"
         [] result.ending.cause \in {"answer", "server", "misread"} /\ Does("answer") -> "answer"
         [] OTHER -> "gave up"

Promise ==
  INSTANCE RemoteCall WITH
    effect <- IF request \in {"served", "refused"} THEN "done" ELSE "none",
    told <- Told

\* A call keeps the promise of a remote call, whatever times out, aborts or breaks.
KeepsPromise == Promise!Spec

\* A call that waits for an answer ends by options.timeout, if not before, with the operations that obey it.
TimedCallsEnd ==
  (phase = "waiting" /\ options.timeout /\ Does("timeout")) ~> (phase = "settled")

=============================================================================
