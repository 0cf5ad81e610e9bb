----------------------------- MODULE Assertions -----------------------------
(***************************************************************************)
(* What a step function does with a client: it calls an operation and then *)
(* asserts on the result, with any of the matchers expect(result) offers,  *)
(* plain or after .not.                                                    *)
(***************************************************************************)
EXTENDS ClientCalls, Expectations, FiniteSets

VARIABLES
  nextNegate,  \* whether the next matcher is negated
  assertion    \* the last matcher called, and whether it passed

allVars == <<vars, nextNegate, assertion>>

\* expect() of the result.  What the call was asked no longer matters and is forgotten.
Expect ==
  /\ phase = "settled" /\ ~result.thrown
  /\ phase' = "asserting"
  /\ options' = [options EXCEPT !.timeout = FALSE, !.signal = "none",
                                !.ownReason = FALSE, !.throwOnError = FALSE]
  /\ client' = "closed" /\ reply' = Nothing
  /\ UNCHANGED <<operation, request, result, nextNegate, assertion>>

Readers == expect[operation.result.kind]

\* A field of the result, with what all results have in common.
Field(name) ==
  CASE name = "ok" -> IF Ok(result.ending.outcome) THEN True ELSE False
    [] name = "duration" -> Number
    [] name = "error" -> result.ending.error
    [] OTHER -> result.ending.data[name]

\* The getter of a reader; Missing when ensureNonNullish throws.
Missing == "missing"

Get(reader) ==
  LET value == Field(reader.field)
      ensured(v) == IF v \in Nullish THEN Missing ELSE v
  IN CASE reader.how = "raw" -> value
       [] reader.how = "ensured" -> ensured(value)
       [] reader.how = "count" -> IF value \in Nullish THEN Missing ELSE LengthOf(value)
       [] reader.how = "content" -> OrElse(value, Undefined)
       [] reader.how = "content length" -> OrElse(LengthOf(value), Zero)

-----------------------------------------------------------------------------
\* The property "not" of an expectation
Not ==
  /\ phase = "asserting" /\ assertion = Nothing
  /\ nextNegate' = ~nextNegate
  /\ UNCHANGED <<vars, assertion>>

\* Bug: the error of a getter counts as a check that fails, which .not. turns round.
VerdictsOfAnyError(check, value) ==
  IF value = Missing THEN {nextNegate} ELSE {holds # nextNegate : holds \in check[value]}

\* What a matcher may say of a value; it throws, negated or not, when the getter does.
Verdicts(check, value) ==
  IF value = Missing THEN {FALSE} ELSE {holds # nextNegate : holds \in check[value]}

\* A matcher: getNegate() first, then the getter, then the check.
Match ==
  /\ phase = "asserting" /\ assertion = Nothing
  /\ nextNegate' = FALSE
  /\ \E reader \in Readers : \E suffix \in DOMAIN Mixins[reader.mixin] :
       \E passed \in Verdicts(Mixins[reader.mixin][suffix], Get(reader)) :
         assertion' = [reader |-> reader, suffix |-> suffix,
                       negated |-> nextNegate, passed |-> passed]
  /\ UNCHANGED vars

CallInit == Init /\ nextNegate = FALSE /\ assertion = Nothing

Called(A) == A /\ UNCHANGED <<nextNegate, assertion>>

AllNext == Called(Next) \/ Expect \/ Not \/ Match

AllFairness ==
  /\ WF_allVars(Called(Reject \/ Send \/ Receive))
  /\ WF_allVars(Called(Expire))

AllSpec == CallInit /\ [][AllNext]_allVars /\ AllFairness

-----------------------------------------------------------------------------
(***************************************************************************)
(* Results that hold a value where the server sent none: an Error of these *)
(* kinds, or any result of these fields.  An assertion that a collection   *)
(* is empty, that nothing was counted or what the status is passes on      *)
(* them, although the server never said so.                                *)
(***************************************************************************)
EmptyOnError ==
  {"sql", "mongo:find", "sqs:send-batch", "sqs:receive", "sqs:delete-batch",
   "connectrpc"}

EmptyAlways == {<<"deno-kv:list", "entries">>, <<"rabbitmq:consume", "message">>,
                <<"http", "url">>}

\* A reader whose matchers are about content: a number, a text, an array, an object.
AboutContent(reader) ==
  reader.mixin \in {"Number", "String", "Array", "Object"} /\ reader.subject # "Duration"

(***************************************************************************)
(* But for those, the readers of content go through ensureNonNullish, and  *)
(* the results that come without an answer have null where they read (the  *)
(* Error of an operation that makes a Failure of every cause never comes). *)
(***************************************************************************)
ASSUME ReadersAssumption ==
  \A r \in Requests : LET kind == r.result.kind IN
    \A reader \in expect[kind] :
      AboutContent(reader) /\ <<kind, reader.field>> \notin EmptyAlways =>
        /\ reader.how \in {"ensured", "count"}
        /\ reader.field \notin {"ok", "duration", "error"}
        /\ r.result.failure[reader.field] \in Nullish
        /\ \/ Causes \subseteq r.failures \/ kind \in EmptyOnError
           \/ r.result.error[reader.field] \in Nullish

(***************************************************************************)
(* An assertion about the content of a result is earned: plain or negated, *)
(* it passes only on what the server answered, never on the nulls of a     *)
(* call that timed out, was aborted or lost its connection.  The           *)
(* exceptions are those above.                                             *)
(***************************************************************************)
PassedAssertionsAreEarned ==
  assertion # Nothing /\ assertion.passed /\ AboutContent(assertion.reader)
  => LET kind == operation.result.kind IN
     \/ result.ending.cause = "answer" /\ (Does("answer") => request = "served")
     \/ result.ending.outcome = "Error" /\ kind \in EmptyOnError
     \/ <<kind, assertion.reader.field>> \in EmptyAlways

\* The fields that are no data: every kind of result has them
CommonFields == {"ok", "duration", "error"}

\* What expect() of a kind of result offers: its readers, each with its mixin's matchers.
Matchers(kind) == UNION {{<<r, s>> : s \in DOMAIN Mixins[r.mixin]} : r \in expect[kind]}

NoneHidesAnother(kind) ==
  Cardinality({m[1].subject \o m[2] : m \in Matchers(kind)}) = Cardinality(Matchers(kind))

\* The data that a result of an operation may come with
DataOf(r) == {a.data : a \in r.answers} \cup {r.result.failure, r.result.error}

(***************************************************************************)
(* The tables of expect() fit those of the clients: every kind of result   *)
(* has readers, whose fields are in all the data that it may come with.    *)
(***************************************************************************)
ASSUME TablesAssumption ==
  \A r \in Requests : LET kind == r.result.kind IN
    /\ kind \in DOMAIN expect
    /\ \A reader \in expect[kind], data \in DataOf(r) :
         reader.field \in CommonFields \cup DOMAIN data
    /\ NoneHidesAnother(kind)

(***************************************************************************)
(* expect() knows every kind of result a client returns, each getter reads *)
(* a field the result has, whichever way the call ended, and no matcher    *)
(* hides another of the same name, which would check something else than   *)
(* its caller asked for.                                                   *)
(***************************************************************************)
EveryResultIsReadable ==
  phase = "asserting" =>
    /\ operation.result.kind \in DOMAIN expect
    /\ \A r \in Readers : r.field \in CommonFields \cup DOMAIN result.ending.data
    /\ NoneHidesAnother(operation.result.kind)

=============================================================================
