--------------------------- MODULE RedisSubscribe ---------------------------
(***************************************************************************)
(* The generator that RedisClient.subscribe() returns: a connection of its *)
(* own, a listener that puts messages in a queue or hands them to the      *)
(* waiting generator through a resolver, and the loop of the generator.    *)
(*                                                                         *)
(* The server's messages, the end of the connection and close() arrive at  *)
(* any time; the code between two awaits or yields is one action.          *)
(***************************************************************************)
EXTENDS Naturals, Sequences, SequencesExt

CONSTANT MaxMessages  \* bound: how many messages the server sends

ASSUME MessagesAssumption == MaxMessages \in Nat

VARIABLES
  pc,         \* where the generator is
  listening,  \* the handlers are attached to the subscriber
  queue,      \* messageQueue
  armed,      \* resolver is set
  slot,       \* what resolver was called with, until the await resumes
  done,
  connected,  \* the connection of the subscriber
  closed,     \* #closed of the client
  sent,       \* how many messages the server sent on the subscription
  delivered,  \* what the consumer got
  gotByClose  \* history: how much of it when the client was closed

generator == <<pc, listening>>
handover == <<queue, armed, slot>>
ending == <<done, connected, closed, gotByClose>>
vars == <<generator, handover, ending, sent, delivered>>

Init ==
  /\ pc = "start" /\ listening = FALSE
  /\ queue = <<>> /\ armed = FALSE /\ slot = <<>>
  /\ done = FALSE /\ connected = TRUE /\ closed = FALSE /\ gotByClose = 0
  /\ sent = 0 /\ delivered = <<>>

-----------------------------------------------------------------------------
\* Before the loop

Start ==
  /\ pc = "start"
  /\ pc' = IF closed THEN "finished" ELSE "subscribing"
  /\ UNCHANGED <<listening, handover, ending, sent, delivered>>

\* The server knows the subscription from here on; the await resumes later.
Subscribed ==
  /\ pc = "subscribing" /\ connected
  /\ pc' = "subscribed"
  /\ UNCHANGED <<listening, handover, ending, sent, delivered>>

SubscribeFails ==
  /\ pc = "subscribing"
  /\ pc' = "cleanup"
  /\ UNCHANGED <<listening, handover, ending, sent, delivered>>

Listen ==
  /\ pc = "subscribed"
  /\ listening' = TRUE /\ pc' = "loop"
  /\ UNCHANGED <<handover, ending, sent, delivered>>

-----------------------------------------------------------------------------
\* The handlers

\* Definitions named Bug... are plausible mistakes in the definition that
\* follows them; a property is worth stating if one of them breaks it.
BugNobodyWoken(m) == queue' = Append(queue, m) /\ UNCHANGED <<slot, armed>>

messageHandler(m) ==
  IF armed THEN slot' = <<m>> /\ armed' = FALSE /\ UNCHANGED queue
  ELSE queue' = Append(queue, m) /\ UNCHANGED <<slot, armed>>

Publish ==
  /\ connected /\ sent < MaxMessages
  /\ pc \notin {"start", "subscribing", "finished"}
  /\ sent' = sent + 1
  /\ IF listening THEN messageHandler(sent') ELSE UNCHANGED handover
  /\ UNCHANGED <<generator, ending, delivered>>

\* The end handler forgets the resolver: a generator that waits is not woken.
ConnectionEnds ==
  /\ connected /\ pc \notin {"start", "finished"}
  /\ connected' = FALSE
  /\ IF listening THEN done' = TRUE /\ armed' = FALSE ELSE UNCHANGED <<done, armed>>
  /\ UNCHANGED <<generator, queue, slot, closed, gotByClose, sent, delivered>>

\* close() disconnects the client's own connection, not the subscriber's.
Close ==
  /\ ~closed
  /\ closed' = TRUE /\ gotByClose' = Len(delivered)
  /\ UNCHANGED <<generator, handover, done, connected, sent, delivered>>

-----------------------------------------------------------------------------
\* The loop

LoopEnds ==
  /\ pc = "loop" /\ (done \/ closed)
  /\ pc' = "cleanup"
  /\ UNCHANGED <<listening, handover, ending, sent, delivered>>

BugTakesWithoutLooking ==
  /\ pc = "loop" /\ queue # <<>>
  /\ delivered' = Append(delivered, Head(queue)) /\ queue' = Tail(queue)
  /\ pc' = "yielded"
  /\ UNCHANGED <<listening, armed, slot, ending, sent>>

BugTakesYoungest ==
  /\ pc = "loop" /\ ~done /\ ~closed /\ queue # <<>>
  /\ delivered' = Append(delivered, Last(queue)) /\ queue' = Front(queue)
  /\ pc' = "yielded"
  /\ UNCHANGED <<listening, armed, slot, ending, sent>>

TakeFromQueue ==
  /\ pc = "loop" /\ ~done /\ ~closed /\ queue # <<>>
  /\ delivered' = Append(delivered, Head(queue)) /\ queue' = Tail(queue)
  /\ pc' = "yielded"
  /\ UNCHANGED <<listening, armed, slot, ending, sent>>

Wait ==
  /\ pc = "loop" /\ ~done /\ ~closed /\ queue = <<>>
  /\ pc' = "waiting" /\ armed' = TRUE
  /\ UNCHANGED <<listening, queue, slot, ending, sent, delivered>>

Resume ==
  /\ pc = "waiting" /\ slot # <<>>
  /\ delivered' = delivered \o slot /\ slot' = <<>>
  /\ pc' = "yielded"
  /\ UNCHANGED <<listening, queue, armed, ending, sent>>

\* The consumer asks for the next message, or breaks out of its loop.
NextCalled ==
  /\ pc = "yielded"
  /\ pc' = "loop"
  /\ UNCHANGED <<listening, handover, ending, sent, delivered>>

ReturnCalled ==
  /\ pc = "yielded"
  /\ pc' = "cleanup"
  /\ UNCHANGED <<listening, handover, ending, sent, delivered>>

Cleanup ==
  /\ pc = "cleanup"
  /\ listening' = FALSE /\ pc' = "unsubscribing"
  /\ UNCHANGED <<handover, ending, sent, delivered>>

\* unsubscribe() settles, or rejects as the connection is gone.
Unsubscribed ==
  /\ pc = "unsubscribing"
  /\ pc' = "finished" /\ connected' = FALSE
  /\ UNCHANGED <<listening, handover, done, closed, gotByClose, sent, delivered>>

Generator ==
  \/ Start \/ Subscribed \/ SubscribeFails \/ Listen \/ LoopEnds
  \/ TakeFromQueue \/ Wait \/ Resume \/ Cleanup \/ Unsubscribed

Consumer == NextCalled \/ ReturnCalled

Next == Generator \/ Consumer \/ Publish \/ ConnectionEnds \/ Close

Spec == Init /\ [][Next]_vars

\* Continuations run and the server answers requests; the consumer, a
\* `for await' loop, goes on or breaks.  Nothing need be published or closed.
FairSpec == Spec /\ WF_vars(Generator) /\ WF_vars(Consumer)

-----------------------------------------------------------------------------
\* Every variable has its type; the resolver is set only while the generator
\* waits and nothing has arrived.
TypeOK ==
  /\ pc \in {"start", "subscribing", "subscribed", "loop", "waiting", "yielded",
             "cleanup", "unsubscribing", "finished"}
  /\ listening \in BOOLEAN /\ armed \in BOOLEAN /\ done \in BOOLEAN
  /\ connected \in BOOLEAN /\ closed \in BOOLEAN
  /\ queue \in Seq(Nat) /\ slot \in Seq(Nat) /\ Len(slot) <= 1
  /\ delivered \in Seq(Nat) /\ sent \in Nat /\ gotByClose \in Nat
  /\ armed => pc = "waiting" /\ slot = <<>>

Over == pc \in {"cleanup", "unsubscribing", "finished"}

\* The generator implements Stream: between the time it listens and its end
\* no message is lost, doubled or reordered on its way through the resolver
\* or the queue.
Promise == INSTANCE Stream WITH
  buffer <- IF Over THEN <<>> ELSE slot \o queue,
  over <- Over

KeepsOrder == Promise!Spec

\* A message that was accepted reaches the consumer, unless the stream ends
\* or the consumer leaves: none stays behind while the generator waits.
NothingStaysBehind ==
  \A m \in 1 .. MaxMessages :
    m \in Range(slot \o queue) ~> (m \in Range(delivered) \/ Over)

\* After close() the consumer gets at most the message that was on its way or
\* that ends the wait it was in.
CloseStopsTheStream == closed => Len(delivered) <= gotByClose + 1

\* packages/probitas-client-redis/client.ts, of the end handler: "Signal end
\* by resolving with a special marker".
EndIsSignalled == (pc = "waiting" /\ done) ~> pc # "waiting"
=============================================================================
