------------------------- MODULE ClientCalls_proofs -------------------------
(***************************************************************************)
(* Theorems about ClientCalls, for any set of operations, and Assertions.  *)
(***************************************************************************)
EXTENDS Assertions, TLAPS

(***************************************************************************)
(* Where a call is, its request has got so far and no further: nothing is  *)
(* sent before the checks have passed, a reply comes only from the server, *)
(* and what a result tells is true of the request.  A call whose result is *)
(* asserted on is over as well.                                            *)
(***************************************************************************)
Phases == {"called", "preparing", "waiting", "reading", "settled", "asserting"}
Over == phase \in {"settled", "asserting"}
Done == {"served", "refused"}

Started == operation \in Requests /\ phase \in Phases /\ request \in {"none", "sent"} \cup Done

Pends == Over <=> result # Nothing

SendsLate == phase \in {"called", "preparing"} => request = "none"

Waits == phase = "waiting" => Does("answer") \/ Does("drain")

Replies ==
  /\ reply # Nothing => request \in Done /\ reply.cause \in {"answer", "server", "misread"}
  /\ phase = "reading" => reply # Nothing

TellsTrue ==
  /\ Told = "not sent" => request = "none" /\ Over
  /\ Told = "answer" => request \in Done

\* An ending is the answer of a server that carried the request out, or made here.
Honest(ending) ==
  \/ ending.cause = "answer" /\ (Does("answer") => request = "served")
  \/ \E cause \in Causes : ending = Ended(cause)

HoldsTrue ==
  /\ reply # Nothing => Honest(reply)
  /\ result # Nothing => Honest(result.ending)

IInv == Started /\ Pends /\ SendsLate /\ Waits /\ Replies /\ TellsTrue /\ HoldsTrue

-----------------------------------------------------------------------------
\* A settled call tells something, and what it tells is read from its cause.
LEMMA FinishTells ==
  ASSUME NEW ending, NEW thrown, Finish(ending, thrown), UNCHANGED operation
  PROVE  /\ phase' = "settled" /\ result' # Nothing
         /\ Told' = CASE ending.cause \in {"closed", "invalid"} -> "not sent"
                      [] ending.cause \in {"answer", "server", "misread"} /\ Does("answer") -> "answer"
                      [] OTHER -> "gave up"
<1>1. phase' = "settled" /\ result' = [ending |-> ending, thrown |-> thrown]
  BY DEF Finish
<1>2. result' # Nothing
  <2>1. "nothing" \in DOMAIN Nothing /\ "nothing" \notin DOMAIN result'
    BY <1>1 DEF Nothing
  <2> QED
    BY <2>1
<1>3. result'.ending = ending
  BY <1>1
<1> QED
  BY <1>1, <1>2, <1>3 DEF Told, Does

\* An ending carries the cause it was made for; that of an answer is the answer.
LEMMA CauseOf ==
  /\ \A cause : Ended(cause).cause = cause
  /\ \A answer : Answered(answer).cause = "answer"
BY DEF Ended, Answered

\* The invariant survives an end of the call that tells the truth.
LEMMA Settles ==
  ASSUME IInv, NEW ending, NEW thrown, Finish(ending, thrown),
         UNCHANGED <<operation, reply>>,
         request' \in {"none", "sent"} \cup Done,
         request \in Done => request' = request,
         \/ ending.cause = "answer" /\ (Does("answer") => request' = "served")
         \/ \E cause \in Causes : ending = Ended(cause),
         ending.cause \in {"closed", "invalid"} => request' = "none",
         ending.cause \in {"answer", "server", "misread"} /\ Does("answer") =>
           request' \in Done
  PROVE  IInv'
<1>1. phase' = "settled" /\ result' # Nothing /\ result'.ending = ending
  BY FinishTells DEF Finish
<1>2. Told' = CASE ending.cause \in {"closed", "invalid"} -> "not sent"
                [] ending.cause \in {"answer", "server", "misread"} /\ Does("answer") -> "answer"
                [] OTHER -> "gave up"
  BY FinishTells
<1>3. TellsTrue'
  BY <1>1, <1>2 DEF TellsTrue, Done, Over
<1>4. Replies'
  BY <1>1 DEF IInv, Replies
<1>5. Does("answer")' = Does("answer") /\ \A cause \in Causes : Ended(cause)' = Ended(cause)
  BY DEF Does, Ended
<1>6. HoldsTrue'
  <2>1. reply' # Nothing => Honest(reply)'
    <3> SUFFICES ASSUME reply # Nothing PROVE Honest(reply)'
      OBVIOUS
    <3>1. Honest(reply)
      BY DEF IInv, HoldsTrue
    <3> QED
      BY <1>5, <3>1 DEF Honest, Done
  <2>2. Honest(result.ending)'
    BY <1>1, <1>5 DEF Honest
  <2> QED
    BY <2>1, <2>2 DEF HoldsTrue
<1> QED
  BY <1>1, <1>3, <1>4, <1>6 DEF IInv, Started, Phases, Pends, SendsLate, Waits, Over

\* And a step that leaves the result and the reply as they are.
LEMMA GoesOn ==
  ASSUME IInv, phase' \in Phases, Over' <=> Over, UNCHANGED <<operation, result, reply>>,
         request' = request \/ (request = "none" /\ request' = "sent" /\ ~Over),
         SendsLate', Waits', phase' = "reading" => reply # Nothing
  PROVE  IInv'
<1>1. Told' = Told /\ (~Over => Told = "nothing")
  BY DEF Told, Does, IInv, Pends
<1>2. TellsTrue'
  BY <1>1 DEF IInv, TellsTrue, Done
<1>3. Started' /\ Pends'
  BY DEF IInv, Started, Pends
<1>4. Does("answer")' = Does("answer") /\ \A cause \in Causes : Ended(cause)' = Ended(cause)
  BY DEF Does, Ended
<1>5. HoldsTrue' /\ Replies'
  BY <1>4 DEF IInv, HoldsTrue, Replies, Honest, Done
<1> QED
  BY <1>2, <1>3, <1>5 DEF IInv

-----------------------------------------------------------------------------
\* An end for a cause of the client's own, while the request stays as it is.
LEMMA EndsBy ==
  ASSUME IInv, NEW cause \in Causes \ {"closed", "invalid", "server", "misread"},
         NEW thrown, Finish(Ended(cause), thrown), UNCHANGED <<operation, request, reply>>
  PROVE  IInv'
<1>1. request' \in {"none", "sent"} \cup Done
  BY DEF IInv, Started
<1>2. Ended(cause).cause = cause /\ cause # "answer"
  BY CauseOf DEF Causes
<1> QED
  BY <1>1, <1>2, Settles

\* An end with the reply that has come.
LEMMA EndsByReply ==
  ASSUME IInv, NEW thrown, Finish(reply, thrown), reply # Nothing,
         UNCHANGED <<operation, request, reply>>
  PROVE  IInv'
<1>1. /\ request \in Done /\ reply.cause \in {"answer", "server", "misread"}
      /\ Honest(reply)
  BY DEF IInv, Replies, HoldsTrue
<1> QED
  BY <1>1, Settles DEF Honest

\* A reply that comes from the server.
LEMMA Replying ==
  ASSUME IInv, request = "sent", request' \in Done, reply'.cause \in {"answer", "server", "misread"},
         \/ reply'.cause = "answer" /\ request' = "served"
         \/ \E cause \in Causes : reply' = Ended(cause),
         UNCHANGED <<operation, phase, result>>
  PROVE  IInv'
<1>1. Told' = Told /\ Done = {"served", "refused"}
  BY DEF Told, Does, Done
<1>2. Does("answer")' = Does("answer") /\ \A cause \in Causes : Ended(cause)' = Ended(cause)
  BY DEF Does, Ended
<1>3. HoldsTrue'
  <2>1. Honest(reply)'
    BY <1>2 DEF Honest
  <2>2. result' # Nothing => Honest(result.ending)'
    <3> SUFFICES ASSUME result # Nothing PROVE Honest(result.ending)'
      OBVIOUS
    <3>1. Honest(result.ending)
      BY DEF IInv, HoldsTrue
    <3>2. ~(result.ending.cause = "answer" /\ Does("answer"))
      <4> SUFFICES ASSUME result.ending.cause = "answer", Does("answer") PROVE FALSE
        OBVIOUS
      <4>1. Told = "answer"
        BY DEF Told
      <4> QED
        BY <1>1, <4>1 DEF IInv, TellsTrue
    <3> QED
      BY <1>2, <3>1, <3>2 DEF Honest
  <2> QED
    BY <2>1, <2>2 DEF HoldsTrue
<1>4. SendsLate' /\ Waits' /\ Started' /\ Pends'
  BY <1>1 DEF IInv, Started, SendsLate, Waits, Does, Pends, Over
<1>5. TellsTrue'
  BY <1>1 DEF IInv, TellsTrue, Over
<1>6. Replies'
  <2>1. phase = "reading" => reply # Nothing
    BY DEF IInv, Replies
  <2>2. reply # Nothing => request \in Done
    BY DEF IInv, Replies
  <2>3. phase' # "reading"
    BY <1>1, <2>1, <2>2
  <2> QED
    BY <2>3 DEF Replies
<1> QED
  BY <1>3, <1>4, <1>5, <1>6 DEF IInv

\* The invariant holds before the call does anything.
LEMMA InitInvariant == Init => IInv
BY DEF Init, IInv, Started, Phases, Over, Pends, SendsLate, Waits, Replies, TellsTrue, Told, HoldsTrue

\* Every step of the client, the server and the environment preserves it.
LEMMA NextInvariant == IInv /\ [Next]_vars => IInv'
<1> SUFFICES ASSUME IInv, [Next]_vars PROVE IInv'
  OBVIOUS
<1>1. CASE Reject
  <2>1. request = "none" /\ UNCHANGED <<operation, request, reply>>
    BY <1>1 DEF Reject, IInv, SendsLate
  <2>2. Settle(Ended("closed")) \/ Settle(Ended("invalid"))
    BY <1>1 DEF Reject
  <2> QED
    BY <2>1, <2>2, CauseOf, Settles DEF Settle, Done, Causes
<1>2. CASE Prepare
  BY <1>2, GoesOn DEF Prepare, IInv, Phases, Over, SendsLate, Waits
<1>3. CASE PrepareFails
  BY <1>3, EndsBy DEF PrepareFails, Settle, Causes
<1>4. CASE Send
  <2>1. phase \in {"called", "preparing"} /\ request = "none"
    BY <1>4 DEF Send, Ready, IInv, SendsLate
  <2>2. UNCHANGED <<operation, reply>> /\ request' \in {"none", "sent"}
    BY <1>4 DEF Send
  <2>3. CASE AlreadyAborted
    <3>1. Settle(Ended(AbortCause)) /\ AbortCause \in {"abort", "reason"}
      BY <1>4, <2>3 DEF Send, AbortCause
    <3> QED
      BY <2>1, <2>2, <3>1, CauseOf, Settles DEF Settle, Done, Causes
  <2>4. CASE ~AlreadyAborted /\ phase' = "waiting" /\ UNCHANGED result /\ (Does("answer") \/ Does("drain"))
    <3>1. Waits' /\ SendsLate'
      BY <2>2, <2>4 DEF Waits, SendsLate, Does
    <3>2. request' = request \/ (request = "none" /\ request' = "sent" /\ ~Over)
      BY <2>1, <2>2 DEF Over
    <3>3. phase' \in Phases /\ (Over' <=> Over) /\ phase' # "reading"
      BY <2>1, <2>4 DEF Phases, Over
    <3> QED
      BY <2>2, <2>4, <3>1, <3>2, <3>3, GoesOn
  <2>5. CASE ~Does("answer") /\ \E a \in operation.answers : Settle(Answered(a))
    BY <2>1, <2>2, <2>5, CauseOf, Settles DEF Settle, Done
  <2> QED
    BY <1>4, <2>3, <2>4, <2>5 DEF Send
<1>5. CASE Receive
  <2>1. UNCHANGED <<operation, request, reply>> /\ reply # Nothing /\ phase = "waiting"
    BY <1>5 DEF Receive
  <2>2. CASE phase' = "reading" /\ UNCHANGED result
    BY <2>1, <2>2, GoesOn DEF Phases, Over, Waits, SendsLate
  <2>3. CASE Settle(reply)
    BY <2>1, <2>3, EndsByReply DEF Settle
  <2>4. ASSUME NEW cause \in {"broken", "connection"}, Settle(Ended(cause))
        PROVE  IInv'
    BY <2>1, <2>4, EndsBy DEF Settle, Causes
  <2> QED
    BY <1>5, <2>2, <2>3, <2>4 DEF Receive
<1>6. CASE Read
  <2>1. UNCHANGED <<operation, request, reply>> /\ reply # Nothing
    BY <1>6 DEF Read, IInv, Replies
  <2>2. Settle(reply) \/ \E thrown : Finish(Ended("broken"), thrown)
    BY <1>6 DEF Read, BodyFails, Settle
  <2> QED
    BY <2>1, <2>2, EndsBy, EndsByReply DEF Settle, Causes
<1>7. CASE Drained
  <2>1. UNCHANGED <<operation, request, reply>> /\ \E a \in operation.answers : Settle(Answered(a))
    BY <1>7 DEF Drained
  <2>2. ~Does("answer")
    BY <1>7, RequestsAssumption DEF Drained, Does, IInv, Started
  <2> QED
    BY <2>1, <2>2, CauseOf, Settles DEF Settle, IInv, Started
<1>8. CASE Expire
  BY <1>8, EndsBy DEF Expire, Settle, Causes
<1>9. CASE Serve
  <2>1. request = "sent" /\ request' = "served" /\ UNCHANGED <<operation, phase, result>>
    BY <1>9 DEF Serve
  <2>2. reply'.cause = "answer"
    BY <1>9, CauseOf DEF Serve
  <2> QED
    BY <2>1, <2>2, Replying DEF Done
<1>10. CASE Refuse
  <2>1. request = "sent" /\ request' = "refused" /\ UNCHANGED <<operation, phase, result>>
    BY <1>10 DEF Refuse
  <2>2. \E cause \in {"server", "misread"} : reply' = Ended(cause)
    BY <1>10 DEF Refuse
  <2> QED
    BY <2>1, <2>2, CauseOf, Replying DEF Done, Causes
<1>11. CASE Abort
  <2>1. UNCHANGED <<operation, request, reply>> /\ phase # "settled"
    BY <1>11 DEF Abort
  <2>2. \/ \E cause \in {"abort", "reason"} : \E thrown : Finish(Ended(cause), thrown)
        \/ UNCHANGED <<phase, result>>
    BY <1>11 DEF Abort, BodyFails, Settle, AbortCause
  <2>3. CASE UNCHANGED <<phase, result>>
    BY <2>1, <2>3, GoesOn DEF IInv, Started, Over, SendsLate, Waits, Replies, Does
  <2> QED
    BY <2>1, <2>2, <2>3, EndsBy DEF Causes
<1>12. CASE Break
  <2>1. /\ \E cause \in {"connection", "broken"} : Settle(Ended(cause))
        /\ UNCHANGED <<operation, request, reply>>
    BY <1>12 DEF Break
  <2> QED
    BY <2>1, EndsBy DEF Settle, Causes
<1>13. CASE UNCHANGED <<operation, phase, request, reply, result>>
  BY <1>13, GoesOn DEF IInv, Started, Over, SendsLate, Waits, Replies, Does
<1> QED
  BY <1>1, <1>2, <1>3, <1>4, <1>5, <1>6, <1>7, <1>8, <1>9, <1>10, <1>11,
     <1>12, <1>13 DEF Next, Client, Environment, Close, vars

(***************************************************************************)
(* In every state of a call nothing is sent before its checks have passed  *)
(* (Reject), replies come from the server only, and what the result tells  *)
(* is true of the request.                                                 *)
(***************************************************************************)
THEOREM Invariant == Spec => []IInv
BY InitInvariant, NextInvariant, PTL DEF Spec

-----------------------------------------------------------------------------
\* A step of the server and the end of the call are different steps, and each happens once.
LEMMA OneThingAtATime ==
  ASSUME IInv, [Next]_vars
  PROVE  \/ /\ request = "sent" /\ request' \in Done
            /\ Told' = Told
         \/ /\ request' \in Done <=> request \in Done
            /\ Told' = Told \/ Told = "nothing"
<1>1. Told = "nothing" <=> result = Nothing
  BY DEF Told
<1>2. CASE Serve \/ Refuse
  BY <1>2 DEF Serve, Refuse, Done, Told, Does
<1>3. CASE Send
  BY <1>1, <1>3 DEF Send, Ready, IInv, SendsLate, Pends, Over, Done
<1>4. CASE Reject \/ Prepare \/ PrepareFails \/ Receive \/ Read \/ Drained \/ Expire \/ Break
  <2>1. ~Over /\ UNCHANGED request
    BY <1>4 DEF Reject, Prepare, PrepareFails, Receive, Read, Drained, Expire, Break, Over
  <2> QED
    BY <1>1, <2>1 DEF IInv, Pends
<1>5. CASE Abort
  <2>1. UNCHANGED <<operation, request>> /\ (~Over \/ UNCHANGED result)
    BY <1>5 DEF Abort, Over
  <2>2. CASE ~Over
    BY <1>1, <2>1, <2>2 DEF IInv, Pends
  <2>3. CASE UNCHANGED result
    BY <2>1, <2>3 DEF Told, Does
  <2> QED
    BY <2>1, <2>2, <2>3
<1>6. CASE Close \/ UNCHANGED vars
  BY <1>6 DEF Close, vars, Told, Does
<1> QED
  BY <1>2, <1>3, <1>4, <1>5, <1>6 DEF Next, Client, Environment

\* Each step of a call is a step of RemoteCall, or one that it does not see.
LEMMA StepKeepsPromise ==
  ASSUME IInv, IInv', [Next]_vars
  PROVE  [Promise!Effect \/ Promise!Answer \/ Promise!Refuse \/ Promise!GiveUp]_<<
            IF request \in {"served", "refused"} THEN "done" ELSE "none", Told>>
<1> DEFINE effect == IF request \in {"served", "refused"} THEN "done" ELSE "none"
<1>1. CASE request = "sent" /\ request' \in Done /\ Told' = Told
  <2>1. Told # "not sent"
    BY <1>1 DEF IInv, TellsTrue
  <2>2. effect = "none" /\ effect' = "done"
    BY <1>1 DEF Done
  <2>3. Promise!Effect
    BY <1>1, <2>1, <2>2 DEF Promise!Effect
  <2> QED
    BY <2>3
<1>2. CASE (request' \in Done <=> request \in Done) /\ (Told' = Told \/ Told = "nothing")
  <2>1. effect' = effect
    BY <1>2 DEF Done
  <2>2. CASE Told' = Told
    BY <2>1, <2>2
  <2>3. CASE Told = "nothing" /\ Told' = "not sent"
    <3>1. effect = "none"
      BY <1>2, <2>3 DEF IInv, TellsTrue, Done
    <3> QED
      BY <2>1, <2>3, <3>1 DEF Promise!Refuse
  <2>4. CASE Told = "nothing" /\ Told' = "answer"
    <3>1. effect = "done"
      BY <1>2, <2>4 DEF IInv, TellsTrue, Done
    <3> QED
      BY <2>1, <2>4, <3>1 DEF Promise!Answer
  <2>5. CASE Told = "nothing" /\ Told' = "gave up"
    BY <2>1, <2>5 DEF Promise!GiveUp
  <2>6. Told' \in {"nothing", "not sent", "answer", "gave up"}
    BY DEF Told, Does
  <2> QED
    BY <1>2, <2>2, <2>3, <2>4, <2>5, <2>6
<1> QED
  BY <1>1, <1>2, OneThingAtATime

(***************************************************************************)
(* Whatever operations a client has, and whatever its server, its signals, *)
(* its timers and its connection do, a call keeps the promise of           *)
(* RemoteCall: what its caller may conclude from the result is true.       *)
(***************************************************************************)
THEOREM ImplementsRemoteCall == Spec => KeepsPromise
<1>1. Init => Promise!Init
  BY DEF Init, Promise!Init, Told
<1>2. IInv /\ IInv' /\ [Next]_vars =>
        [Promise!Effect \/ Promise!Answer \/ Promise!Refuse \/ Promise!GiveUp]_<<
            IF request \in {"served", "refused"} THEN "done" ELSE "none", Told>>
  BY StepKeepsPromise
<1> QED
  BY <1>1, <1>2, Invariant, PTL DEF Spec, KeepsPromise, Promise!Spec

-----------------------------------------------------------------------------
(***************************************************************************)
(* With the assertions on the result, too.                                 *)
(***************************************************************************)
Asserts == assertion # Nothing => phase = "asserting"

AllInv == IInv /\ Asserts /\ PassedAssertionsAreEarned

\* What has been answered or made here stays so when an assertion is made.
LEMMA ExpectKeepsInvariant == IInv /\ Expect => IInv'
<1> SUFFICES ASSUME IInv, Expect PROVE IInv'
  OBVIOUS
<1>1. /\ phase = "settled" /\ phase' = "asserting" /\ reply' = Nothing
      /\ UNCHANGED <<operation, request, result>>
  BY DEF Expect
<1>2. Told' = Told /\ Does("answer")' = Does("answer")
  BY <1>1 DEF Told, Does
<1>3. HoldsTrue'
  <2>1. \A cause \in Causes : Ended(cause)' = Ended(cause)
    BY <1>1 DEF Ended
  <2>2. result # Nothing => Honest(result.ending)
    BY DEF IInv, HoldsTrue
  <2>3. result # Nothing => Honest(result.ending)'
    BY <1>1, <1>2, <2>1, <2>2 DEF Honest
  <2> QED
    BY <1>1, <2>3 DEF HoldsTrue
<1>4. Started' /\ Pends' /\ SendsLate' /\ Waits' /\ Replies'
  BY <1>1 DEF IInv, Started, Phases, Pends, Over, SendsLate, Waits, Replies
<1>5. TellsTrue'
  BY <1>1, <1>2 DEF IInv, TellsTrue, Over
<1> QED
  BY <1>3, <1>4, <1>5 DEF IInv

\* While the result is asserted on, only the server can still act on the request.
LEMMA OnlyTheServerActs ==
  ASSUME phase = "asserting", [Next]_vars
  PROVE  /\ UNCHANGED <<operation, phase, result>>
         /\ request = "served" => request' = "served"
<1>1. CASE Client \/ Expire \/ Break
  BY <1>1 DEF Client, Reject, Prepare, PrepareFails, Send, Ready, Receive, Read, Drained,
              Expire, Break
<1>2. CASE Serve \/ Refuse \/ Close \/ UNCHANGED vars
  BY <1>2 DEF Serve, Refuse, Close, vars
<1>3. CASE Abort
  BY <1>3 DEF Abort
<1> QED
  BY <1>1, <1>2, <1>3 DEF Next, Environment

\* A getter of content finds nothing in a result that no answer made.
LEMMA NothingToRead ==
  ASSUME IInv, NEW cause \in Causes, result.ending = Ended(cause),
         NEW reader \in Readers, AboutContent(reader),
         <<operation.result.kind, reader.field>> \notin EmptyAlways,
         ~(result.ending.outcome = "Error" /\ operation.result.kind \in EmptyOnError)
  PROVE  Get(reader) = Missing
<1> DEFINE kind == operation.result.kind
<1>1. operation \in Requests
  BY DEF IInv, Started
<1>2. /\ reader.how \in {"ensured", "count"}
      /\ reader.field \notin {"ok", "duration", "error"}
      /\ operation.result.failure[reader.field] \in Nullish
      /\ \/ Causes \subseteq operation.failures \/ kind \in EmptyOnError
         \/ operation.result.error[reader.field] \in Nullish
  BY <1>1, ReadersAssumption DEF Readers
<1>3. Field(reader.field) = result.ending.data[reader.field]
  BY <1>2 DEF Field
<1>4. Field(reader.field) \in Nullish
  <2>1. CASE cause \in operation.failures
    <3>1. result.ending.data = operation.result.failure
      BY <2>1 DEF Ended
    <3> QED
      BY <1>2, <1>3, <3>1
  <2>2. CASE cause \notin operation.failures
    <3>1. result.ending.data = operation.result.error /\ result.ending.outcome = "Error"
      BY <2>2 DEF Ended
    <3>2. operation.result.error[reader.field] \in Nullish
      BY <1>2, <2>2, <3>1
    <3> QED
      BY <1>3, <3>1, <3>2
  <2> QED
    BY <2>1, <2>2
<1> QED
  BY <1>2, <1>4 DEF Get

\* A matcher about content that passes is earned.
LEMMA MatchIsEarned == IInv /\ Match => PassedAssertionsAreEarned'
<1> SUFFICES ASSUME IInv, Match PROVE PassedAssertionsAreEarned'
  OBVIOUS
<1>1. phase = "asserting" /\ UNCHANGED vars
  BY DEF Match
<1>2. PICK reader \in Readers : \E suffix \in DOMAIN Mixins[reader.mixin] :
        \E passed \in Verdicts(Mixins[reader.mixin][suffix], Get(reader)) :
          assertion' = [reader |-> reader, suffix |-> suffix,
                        negated |-> nextNegate, passed |-> passed]
  BY DEF Match
<1>3. assertion'.reader = reader
  BY <1>2
<1>4. Get(reader) = Missing => assertion'.passed = FALSE
  BY <1>2 DEF Verdicts
<1>5. Honest(result.ending)
  BY <1>1 DEF IInv, Pends, Over, HoldsTrue
<1>6. CASE result.ending.cause = "answer" /\ (Does("answer") => request = "served")
  BY <1>1, <1>6 DEF PassedAssertionsAreEarned, Does, vars
<1>7. CASE \E cause \in Causes : result.ending = Ended(cause)
  <2> SUFFICES ASSUME assertion'.passed, AboutContent(reader),
                      <<operation.result.kind, reader.field>> \notin EmptyAlways,
                      ~(result.ending.outcome = "Error" /\ operation.result.kind \in EmptyOnError)
               PROVE  FALSE
    BY <1>1, <1>3 DEF PassedAssertionsAreEarned, vars
  <2>1. Get(reader) = Missing
    BY <1>7, NothingToRead
  <2> QED
    BY <1>4, <2>1
<1> QED
  BY <1>5, <1>6, <1>7 DEF Honest

\* The invariant holds at first.
LEMMA AllInitInvariant == CallInit => AllInv
BY InitInvariant DEF CallInit, AllInv, Asserts, PassedAssertionsAreEarned

\* And every step of the call and of its assertions preserves it.
LEMMA AllNextInvariant == AllInv /\ [AllNext]_allVars => AllInv'
<1> SUFFICES ASSUME AllInv, [AllNext]_allVars PROVE AllInv'
  OBVIOUS
<1>1. CASE Called(Next) \/ UNCHANGED allVars
  <2>1. [Next]_vars /\ UNCHANGED assertion
    BY <1>1 DEF Called, allVars
  <2>2. IInv'
    BY <2>1, NextInvariant DEF AllInv
  <2>3. CASE assertion = Nothing
    BY <2>1, <2>2, <2>3 DEF AllInv, Asserts, PassedAssertionsAreEarned
  <2>4. CASE assertion # Nothing
    <3>1. phase = "asserting"
      BY <2>4 DEF AllInv, Asserts
    <3>2. /\ UNCHANGED <<operation, phase, result>>
          /\ request = "served" => request' = "served"
      BY <2>1, <3>1, OnlyTheServerActs
    <3> QED
      BY <2>1, <2>2, <3>1, <3>2 DEF AllInv, Asserts, PassedAssertionsAreEarned, Does
  <2> QED
    BY <2>3, <2>4
<1>2. CASE Expect
  <2>1. UNCHANGED assertion /\ phase = "settled"
    BY <1>2 DEF Expect
  <2>2. assertion' = Nothing
    BY <2>1 DEF AllInv, Asserts
  <2> QED
    BY <1>2, <2>2, ExpectKeepsInvariant DEF AllInv, Asserts, PassedAssertionsAreEarned
<1>3. CASE Not
  <2>1. [Next]_vars /\ UNCHANGED <<vars, assertion>>
    BY <1>3 DEF Not
  <2> QED
    BY <2>1, NextInvariant DEF AllInv, Asserts, PassedAssertionsAreEarned, Does, vars
<1>4. CASE Match
  <2>1. [Next]_vars /\ phase' = "asserting"
    BY <1>4 DEF Match, vars
  <2> QED
    BY <1>4, <2>1, NextInvariant, MatchIsEarned DEF AllInv, Asserts
<1> QED
  BY <1>1, <1>2, <1>3, <1>4 DEF AllNext

(***************************************************************************)
(* Whatever operations a client has, as long as their results have null    *)
(* where the getters look for content: an assertion about content, plain   *)
(* or after .not., passes only on what the server answered (Match).        *)
(***************************************************************************)
THEOREM AssertionsAreEarned == AllSpec => []PassedAssertionsAreEarned
<1>1. AllInv => PassedAssertionsAreEarned
  BY DEF AllInv
<1> QED
  BY <1>1, AllInitInvariant, AllNextInvariant, PTL DEF AllSpec

-----------------------------------------------------------------------------
(***************************************************************************)
(* However a call ends, its result carries data of its operation: that of  *)
(* one of the answers, or of the error or the failure of its kind.         *)
(***************************************************************************)
Carries(ending) == ending.data \in DataOf(operation)

DataFits ==
  /\ reply # Nothing => Carries(reply)
  /\ result # Nothing => Carries(result.ending)

\* The endings that calls come to carry such data, answered or made by a cause.
LEMMA EndingsCarry ==
  /\ \A cause : Carries(Ended(cause))
  /\ \A answer \in operation.answers : Carries(Answered(answer))
BY DEF Carries, Ended, Answered, DataOf

\* A call that ends so, and one that does not end, leave data that fits.
LEMMA FinishFits ==
  ASSUME DataFits, NEW ending, NEW thrown, Carries(ending), Finish(ending, thrown),
         UNCHANGED <<operation, reply>>
  PROVE  DataFits'
<1>1. result'.ending = ending /\ DataOf(operation)' = DataOf(operation)
  BY DEF Finish, DataOf
<1> QED
  BY <1>1 DEF DataFits, Carries

\* What becomes of the data: nothing, an ending by a cause, one by an answer or the reply.
LEMMA EndingsFit ==
  ASSUME DataFits, UNCHANGED <<operation, reply>>,
         \/ UNCHANGED result
         \/ \E cause, thrown : Finish(Ended(cause), thrown)
         \/ \E answer \in operation.answers : \E thrown : Finish(Answered(answer), thrown)
         \/ reply # Nothing /\ \E thrown : Finish(reply, thrown)
  PROVE  DataFits'
<1>1. CASE UNCHANGED result
  BY <1>1 DEF DataFits, Carries, DataOf
<1>2. CASE \E cause, thrown : Finish(Ended(cause), thrown)
  BY <1>2, EndingsCarry, FinishFits
<1>3. CASE \E answer \in operation.answers : \E thrown : Finish(Answered(answer), thrown)
  BY <1>3, EndingsCarry, FinishFits
<1>4. CASE reply # Nothing /\ \E thrown : Finish(reply, thrown)
  BY <1>4, FinishFits DEF DataFits
<1> QED
  BY <1>1, <1>2, <1>3, <1>4

\* A reply of the server fits as well.
LEMMA ReplyFits ==
  ASSUME DataFits, UNCHANGED <<operation, result>>,
         \/ \E answer \in operation.answers : reply' = Answered(answer)
         \/ \E cause : reply' = Ended(cause)
  PROVE  DataFits'
<1>1. Carries(reply') /\ DataOf(operation)' = DataOf(operation)
  BY EndingsCarry DEF DataOf
<1> QED
  BY <1>1 DEF DataFits, Carries

\* Every step of a call keeps it so.
LEMMA DataStep == IInv /\ DataFits /\ [Next]_vars => DataFits'
<1> SUFFICES ASSUME IInv, DataFits, [Next]_vars PROVE DataFits'
  OBVIOUS
<1>1. CASE Reject \/ Prepare \/ PrepareFails \/ Expire \/ Break \/ Close \/ UNCHANGED vars
  BY <1>1, EndingsFit DEF Reject, Prepare, PrepareFails, Expire, Break, Close, Settle, vars
<1>2. CASE Send \/ Drained
  BY <1>2, EndingsFit DEF Send, Drained, Settle
<1>3. CASE Receive
  BY <1>3, EndingsFit DEF Receive, Settle
<1>4. CASE Read
  <2>1. reply # Nothing
    BY <1>4 DEF Read, IInv, Replies
  <2> QED
    BY <1>4, <2>1, EndingsFit DEF Read, BodyFails, Settle
<1>5. CASE Abort
  BY <1>5, EndingsFit DEF Abort, BodyFails, Settle
<1>6. CASE Serve \/ Refuse
  BY <1>6, ReplyFits DEF Serve, Refuse
<1> QED
  BY <1>1, <1>2, <1>3, <1>4, <1>5, <1>6 DEF Next, Client, Environment

(***************************************************************************)
(* Whatever operations a client has, as long as the tables of expect() fit *)
(* them: whichever way a call ends, in an answer, an error or a failure,   *)
(* each getter that its result is read with finds its field (Expect).      *)
(***************************************************************************)
THEOREM ResultsAreReadable == AllSpec => []EveryResultIsReadable
<1>1. CallInit => DataFits
  BY DEF CallInit, Init, DataFits
<1>2. AllInv /\ DataFits /\ [AllNext]_allVars => DataFits'
  <2> SUFFICES ASSUME AllInv, DataFits, [AllNext]_allVars PROVE DataFits'
    OBVIOUS
  <2>1. CASE [Next]_vars
    BY <2>1, DataStep DEF AllInv
  <2>2. CASE Expect
    BY <2>2 DEF Expect, DataFits, Carries, DataOf
  <2> QED
    BY <2>1, <2>2 DEF AllNext, allVars, Called, Not, Match, vars
<1>3. AllInv /\ DataFits => EveryResultIsReadable
  <2> SUFFICES ASSUME AllInv, DataFits, phase = "asserting"
               PROVE  /\ operation.result.kind \in DOMAIN expect
                      /\ \A r \in Readers :
                           r.field \in CommonFields \cup DOMAIN result.ending.data
                      /\ NoneHidesAnother(operation.result.kind)
    BY DEF EveryResultIsReadable
  <2>1. operation \in Requests /\ result.ending.data \in DataOf(operation)
    BY DEF AllInv, IInv, Started, Pends, Over, DataFits, Carries
  <2> QED
    BY <2>1, TablesAssumption DEF Readers
<1> QED
  BY <1>1, <1>2, <1>3, AllInitInvariant, AllNextInvariant, PTL DEF AllSpec

(***************************************************************************)
(* The promise of a remote call still holds when the result is asserted    *)
(* on: what the server does later does not change what the caller was told.*)
(***************************************************************************)
THEOREM AssertedCallsKeepThePromise == AllSpec => KeepsPromise
<1>1. CallInit => Promise!Init
  BY DEF CallInit, Init, Promise!Init, Told
<1>2. AllInv /\ AllInv' /\ [AllNext]_allVars =>
        [Promise!Effect \/ Promise!Answer \/ Promise!Refuse \/ Promise!GiveUp]_<<
            IF request \in {"served", "refused"} THEN "done" ELSE "none", Told>>
  <2> SUFFICES ASSUME AllInv, AllInv', [AllNext]_allVars
               PROVE  [Promise!Effect \/ Promise!Answer \/ Promise!Refuse \/ Promise!GiveUp]_<<
                        IF request \in {"served", "refused"} THEN "done" ELSE "none", Told>>
    OBVIOUS
  <2>1. [Next]_vars \/ Expect
    BY DEF AllNext, allVars, Called, Not, Match, vars
  <2>2. CASE [Next]_vars
    BY <2>2, StepKeepsPromise DEF AllInv
  <2>3. CASE Expect
    BY <2>3 DEF Expect, Told, Does
  <2> QED
    BY <2>1, <2>2, <2>3
<1> QED
  BY <1>1, <1>2, AllInitInvariant, AllNextInvariant, PTL DEF AllSpec, KeepsPromise, Promise!Spec
=============================================================================
