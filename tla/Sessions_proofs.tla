--------------------------- MODULE Sessions_proofs ---------------------------
(***************************************************************************)
(* Proofs about the sessions that a client keeps with its service: the     *)
(* generator of RedisSubscribe, the channels of RabbitMqChannel and the    *)
(* cookies and logins of HttpSession, for every number of messages,        *)
(* channels, deliveries, callers, URLs and headers.                        *)
(***************************************************************************)
EXTENDS RedisSubscribe, RabbitMqChannel, HttpSession,
        SequenceTheorems, FiniteSetTheorems, FunctionTheorems, TLAPS

-----------------------------------------------------------------------------
\* subscribe() of a Redis client

\* A promise is resolved only while the generator awaits it, and it is awaited
\* only while nothing is queued; before the handlers are attached nothing has
\* arrived.
Waiting ==
  /\ slot # <<>> => pc = "waiting"
  /\ armed => queue = <<>>
  /\ ~listening => Over \/ (queue = <<>> /\ slot = <<>> /\ delivered = <<>>)

\* After close() only a wait that had begun may still give a message.
Closing ==
  closed => /\ Len(delivered) <= gotByClose + 1
            /\ pc = "waiting" => Len(delivered) <= gotByClose

IInv == TypeOK /\ Waiting /\ Closing

LEMMA HeadOfTwo ==
  ASSUME NEW m \in Nat, NEW q \in Seq(Nat)
  PROVE  <<m>> \o q # <<>> /\ Head(<<m>> \o q) = m /\ Tail(<<m>> \o q) = q
<1>1. <<m>> \in Seq(Nat) /\ Len(<<m>>) = 1 /\ <<m>>[1] = m
  OBVIOUS
<1>2. <<m>> \o q \in Seq(Nat) /\ Len(<<m>> \o q) = 1 + Len(q)
  BY <1>1, ConcatProperties
<1>3. \A i \in 1 .. 1 + Len(q) : (<<m>> \o q)[i] = IF i <= 1 THEN <<m>>[i] ELSE q[i - 1]
  BY <1>1, ConcatProperties
<1>4. <<m>> \o q # <<>> /\ Len(q) \in Nat
  BY <1>2, EmptySeq, LenProperties
<1>5. Tail(<<m>> \o q) \in Seq(Nat) /\ Len(Tail(<<m>> \o q)) = Len(q)
  BY <1>2, <1>4, HeadTailProperties
<1>6. \A i \in 1 .. Len(q) : Tail(<<m>> \o q)[i] = q[i]
  BY <1>2, <1>3, <1>4, <1>5, HeadTailProperties
<1>7. Tail(<<m>> \o q) = q
  BY <1>5, <1>6, SeqEqual
<1> QED
  BY <1>1, <1>2, <1>3, <1>4, <1>7

LEMMA OneElement ==
  ASSUME NEW s \in Seq(Nat), s # <<>>, Len(s) <= 1
  PROVE  \E m \in Nat : s = <<m>>
<1>1. Len(s) = 1
  <2>1. Len(s) \in Nat \ {0}
    BY EmptySeq
  <2>2. \A n \in Nat \ {0} : n <= 1 => n = 1
    OBVIOUS
  <2> QED
    BY <2>1, <2>2, Zenon
<1>2. s[1] \in Nat
  BY <1>1, ElementOfSeq
<1>3. <<s[1]>> \in Seq(Nat) /\ Len(<<s[1]>>) = 1 /\ <<s[1]>>[1] = s[1]
  BY <1>2
<1>4. s = <<s[1]>>
  BY <1>1, <1>3, SeqEqual
<1> QED
  BY <1>2, <1>4

\* What the handler does with a message.
LEMMA Handled ==
  ASSUME IInv, NEW m \in Nat, messageHandler(m)
  PROVE  /\ slot' \o queue' = Append(slot \o queue, m)
         /\ queue' \in Seq(Nat) /\ slot' \in Seq(Nat) /\ Len(slot') <= 1
         /\ slot' # <<>> => slot # <<>> \/ armed
         /\ armed' => armed /\ slot' = slot /\ queue' = queue
         /\ armed' \in BOOLEAN
<1>1. CASE armed = TRUE
  <2>1. slot = <<>> /\ queue = <<>> /\ slot' = <<m>> /\ queue' = <<>> /\ armed' = FALSE
    BY <1>1 DEF IInv, TypeOK, Waiting, messageHandler
  <2>2. <<m>> \in Seq(Nat) /\ <<>> \in Seq(Nat) /\ Len(<<m>>) = 1
    OBVIOUS
  <2>3. <<m>> \o <<>> = <<m>> /\ <<>> \o <<>> = <<>> /\ Append(<<>>, m) = <<m>>
    BY <2>2, ConcatEmptySeq, AppendIsConcat
  <2>4. slot' \o queue' = Append(slot \o queue, m)
    BY <2>1, <2>3
  <2>5. queue' \in Seq(Nat) /\ slot' \in Seq(Nat) /\ Len(slot') <= 1
    BY <2>1, <2>2
  <2> QED
    BY <1>1, <2>1, <2>4, <2>5, Zenon
<1>2. CASE armed = FALSE
  <2>1. /\ queue' = Append(queue, m) /\ slot' = slot /\ armed' = FALSE
        /\ queue \in Seq(Nat) /\ slot \in Seq(Nat) /\ Len(slot) <= 1
    BY <1>2 DEF IInv, TypeOK, messageHandler
  <2>2. <<m>> \in Seq(Nat)
    OBVIOUS
  <2>3. Append(queue, m) = queue \o <<m>> /\ Append(queue, m) \in Seq(Nat)
    BY <2>1, AppendIsConcat, AppendProperties
  <2>4. Append(slot \o queue, m) = (slot \o queue) \o <<m>>
    BY <2>1, AppendIsConcat, ConcatProperties
  <2>5. (slot \o queue) \o <<m>> = slot \o (queue \o <<m>>)
    BY <2>1, <2>2, ConcatAssociative
  <2> QED
    BY <2>1, <2>3, <2>4, <2>5
<1> QED
  BY <1>1, <1>2 DEF IInv, TypeOK

\* IInv is inductive.
LEMMA Inductive == Spec => []IInv
<1>1. Init => IInv
  <2>1. <<>> \in Seq(Nat) /\ Len(<<>>) = 0
    BY EmptySeq
  <2>2. Init => TypeOK
    <3>1. SUFFICES ASSUME Init PROVE TypeOK
      OBVIOUS
    <3>2. /\ queue \in Seq(Nat) /\ slot \in Seq(Nat) /\ delivered \in Seq(Nat)
          /\ Len(slot) <= 1 /\ sent \in Nat /\ gotByClose \in Nat
      BY <2>1, <3>1 DEF Init
    <3> QED
      BY <3>1, <3>2, Zenon DEF Init, TypeOK
  <2>3. Init => Waiting
    BY DEF Init, Waiting, Over
  <2>4. Init => Closing
    BY DEF Init, Closing
  <2> QED
    BY <2>2, <2>3, <2>4 DEF IInv
<1>2. IInv /\ [Next]_vars => IInv'
  <2> SUFFICES ASSUME IInv, [Next]_vars PROVE IInv'
    OBVIOUS
  <2> USE DEF IInv, TypeOK, Waiting, Closing, Over, generator, handover, ending
  <2>1. CASE Start
    BY <2>1 DEF Start
  <2>2. CASE Subscribed
    BY <2>2 DEF Subscribed
  <2>3. CASE SubscribeFails
    BY <2>3 DEF SubscribeFails
  <2>4. CASE Listen
    BY <2>4 DEF Listen
  <2>5. CASE LoopEnds
    BY <2>5 DEF LoopEnds
  <2>6. CASE TakeFromQueue
    BY <2>6 DEF TakeFromQueue
  <2>7. CASE Wait
    BY <2>7 DEF Wait
  <2>8. CASE Resume
    BY <2>8 DEF Resume
  <2>9. CASE NextCalled
    BY <2>9 DEF NextCalled
  <2>10. CASE ReturnCalled
    BY <2>10 DEF ReturnCalled
  <2>11. CASE Cleanup
    BY <2>11 DEF Cleanup
  <2>12. CASE Unsubscribed
    BY <2>12 DEF Unsubscribed
  <2>13. CASE Publish
    <3>1. CASE listening
      BY <2>13, <3>1, Handled DEF Publish
    <3>2. CASE ~listening
      BY <2>13, <3>2 DEF Publish
    <3> QED
      BY <3>1, <3>2
  <2>14. CASE ConnectionEnds
    BY <2>14 DEF ConnectionEnds
  <2>15. CASE Close
    BY <2>15 DEF Close
  <2>16. CASE UNCHANGED vars
    BY <2>16 DEF vars
  <2> QED
    BY <2>1, <2>2, <2>3, <2>4, <2>5, <2>6, <2>7, <2>8, <2>9, <2>10, <2>11,
       <2>12, <2>13, <2>14, <2>15, <2>16 DEF Next, Generator, Consumer
<1> QED
  BY <1>1, <1>2, PTL DEF Spec

\* Every reachable state is typed, and the resolver is set only while the
\* generator waits and nothing has been handed to it.
THEOREM TypeCorrect == Spec => []TypeOK
  BY Inductive, PTL DEF IInv

\* Once close() has been called on the client, a subscription hands out at
\* most one more message.
THEOREM CloseStopsTheStreamHolds == Spec => []CloseStopsTheStream
<1>1. IInv => CloseStopsTheStream
  BY DEF IInv, Closing, CloseStopsTheStream
<1> QED
  BY Inductive, <1>1, PTL

-----------------------------------------------------------------------------
\* The generator implements Stream: what the service sends while the handlers
\* are attached is handed out once each and in order, whether it goes through
\* the queue or through the resolver.
THEOREM ImplementsStream == Spec => KeepsOrder
<1>1. Init => Promise!Init
  BY DEF Init, Promise!Init, Over
<1>2. IInv /\ IInv' /\ [Next]_vars => [Promise!Next]_(Promise!streamVars)
  <2> SUFFICES ASSUME IInv, IInv', [Next]_vars
               PROVE  Promise!Next \/ UNCHANGED Promise!streamVars
    OBVIOUS
  <2> USE DEF IInv, TypeOK, Waiting, Over, generator, handover, ending
  <2>1. CASE Start \/ Subscribed \/ Listen \/ Wait \/ NextCalled
    <3>1. /\ UNCHANGED <<sent, delivered, queue, slot>>
          /\ (Over /\ Over') \/ (~Over /\ ~Over') \/ Start
      BY <2>1 DEF Start, Subscribed, Listen, Wait, NextCalled
    <3>2. CASE Start
      BY <2>1, <3>2 DEF Start, Promise!Next, Promise!Finish, Promise!streamVars
    <3> QED
      BY <3>1, <3>2 DEF Promise!streamVars
  <2>2. CASE SubscribeFails \/ LoopEnds \/ ReturnCalled
    BY <2>2 DEF SubscribeFails, LoopEnds, ReturnCalled, Promise!Next, Promise!Finish
  <2>3. CASE Cleanup \/ Unsubscribed
    BY <2>3 DEF Cleanup, Unsubscribed, Promise!streamVars
  <2>4. CASE TakeFromQueue
    <3>1. slot = <<>> /\ slot' = <<>> /\ <<>> \o queue = queue /\ <<>> \o queue' = queue'
      BY <2>4, ConcatEmptySeq DEF TakeFromQueue
    <3> QED
      BY <2>4, <3>1 DEF TakeFromQueue, Promise!Next, Promise!Deliver
  <2>5. CASE Resume
    <3>1. PICK m \in Nat : slot = <<m>>
      BY <2>5, OneElement DEF Resume
    <3>2. delivered' = Append(delivered, m)
      BY <2>5, <3>1, AppendIsConcat DEF Resume
    <3>3. /\ <<m>> \o queue # <<>>
          /\ Head(<<m>> \o queue) = m /\ Tail(<<m>> \o queue) = <<>> \o queue
      BY HeadOfTwo, ConcatEmptySeq
    <3> QED
      BY <2>5, <3>1, <3>2, <3>3 DEF Resume, Promise!Next, Promise!Deliver
  <2>6. CASE Publish
    <3>1. CASE listening /\ ~Over
      <4>1. slot' \o queue' = Append(slot \o queue, sent')
        BY <2>6, <3>1, Handled DEF Publish
      <4> QED
        BY <2>6, <3>1, <4>1 DEF Publish, Promise!Next, Promise!Accept
    <3>2. CASE Over
      BY <2>6, <3>2 DEF Publish, Promise!Next, Promise!Miss
    <3>3. CASE ~listening /\ ~Over
      BY <2>6, <3>3 DEF Publish, Promise!Next, Promise!Miss
    <3> QED
      BY <3>1, <3>2, <3>3
  <2>7. CASE ConnectionEnds
    BY <2>7 DEF ConnectionEnds, Promise!streamVars
  <2>8. CASE Close
    BY <2>8 DEF Close, Promise!streamVars
  <2>9. CASE UNCHANGED vars
    BY <2>9 DEF vars, Promise!streamVars
  <2> QED
    BY <2>1, <2>2, <2>3, <2>4, <2>5, <2>6, <2>7, <2>8, <2>9
    DEF Next, Generator, Consumer
<1> QED
  BY <1>1, <1>2, Inductive, PTL DEF Spec, KeepsOrder, Promise!Spec

-----------------------------------------------------------------------------
LEMMA OneMoreMessage ==
  ASSUME NEW s \in Seq(Nat), NEW n \in Nat,
         Promise!Consecutive(s), s # <<>> => s[Len(s)] = n
  PROVE  /\ Promise!Consecutive(Append(s, n + 1)) /\ Append(s, n + 1) # <<>>
         /\ Append(s, n + 1)[Len(Append(s, n + 1))] = n + 1
<1> DEFINE t == Append(s, n + 1)
<1>1. /\ t \in Seq(Nat) /\ Len(t) = Len(s) + 1 /\ t[Len(s) + 1] = n + 1
      /\ \A i \in 1 .. Len(s) : t[i] = s[i]
      /\ Len(s) \in Nat /\ (Len(s) # 0 => s # <<>>)
  BY AppendProperties, EmptySeq, LenProperties
<1> HIDE DEF t
<1>0. \A i \in 1 .. Len(s) - 1 : s[i + 1] = s[i] + 1
  BY DEF Promise!Consecutive
<1>2. ASSUME NEW i \in 1 .. Len(t) - 1 PROVE t[i + 1] = t[i] + 1
  <2>1. i \in 1 .. Len(s) /\ t[i] = s[i]
    BY <1>1
  <2>2. CASE i = Len(s)
    BY <1>1, <2>1, <2>2
  <2>3. CASE i # Len(s)
    <3>1. i \in 1 .. Len(s) - 1 /\ i + 1 \in 1 .. Len(s)
      BY <1>1, <2>1, <2>3
    <3> QED
      BY <1>0, <1>1, <2>1, <3>1
  <2> QED
    BY <2>2, <2>3
<1>3. t # <<>>
  BY <1>1, EmptySeq
<1>4. Promise!Consecutive(t) /\ t # <<>> /\ t[Len(t)] = n + 1
  BY <1>1, <1>2, <1>3 DEF Promise!Consecutive
<1> QED
  BY <1>4 DEF t

LEMMA BeginningOfMessages ==
  ASSUME NEW d \in Seq(Nat), NEW b \in Seq(Nat), Promise!Consecutive(d \o b)
  PROVE  Promise!Consecutive(d)
<1>1. /\ Len(d \o b) = Len(d) + Len(b) /\ Len(d) \in Nat /\ Len(b) \in Nat
      /\ \A i \in 1 .. Len(d) : (d \o b)[i] = d[i]
  BY ConcatProperties, LenProperties
<1>2. \A i \in 1 .. Len(d \o b) - 1 : (d \o b)[i + 1] = (d \o b)[i] + 1
  BY DEF Promise!Consecutive
<1>3. ASSUME NEW i \in 1 .. Len(d) - 1 PROVE d[i + 1] = d[i] + 1
  <2>1. i \in 1 .. Len(d) /\ i + 1 \in 1 .. Len(d) /\ i \in 1 .. Len(d \o b) - 1
    BY <1>1
  <2> QED
    BY <1>1, <1>2, <2>1
<1> QED
  BY <1>3 DEF Promise!Consecutive

LEMMA HeadMoves ==
  ASSUME NEW d \in Seq(Nat), NEW b \in Seq(Nat), b # <<>>
  PROVE  Append(d, Head(b)) \o Tail(b) = d \o b
<1>1. Head(b) \in Nat /\ Tail(b) \in Seq(Nat) /\ <<Head(b)>> \in Seq(Nat)
  BY HeadTailProperties
<1>2. <<Head(b)>> \o Tail(b) = b
  <2>1. Len(<<Head(b)>>) = 1 /\ <<Head(b)>>[1] = Head(b)
    OBVIOUS
  <2>2. /\ Len(<<Head(b)>> \o Tail(b)) = 1 + Len(Tail(b))
        /\ \A i \in 1 .. 1 + Len(Tail(b)) :
             (<<Head(b)>> \o Tail(b))[i] = IF i <= 1 THEN <<Head(b)>>[i] ELSE Tail(b)[i - 1]
        /\ <<Head(b)>> \o Tail(b) \in Seq(Nat)
    BY <1>1, <2>1, ConcatProperties
  <2>3. /\ Len(b) \in Nat \ {0} /\ Len(Tail(b)) = Len(b) - 1 /\ Head(b) = b[1]
        /\ \A i \in 1 .. Len(Tail(b)) : Tail(b)[i] = b[i + 1]
    BY HeadTailProperties, EmptySeq, LenProperties
  <2>4. \A i \in 1 .. Len(b) : (<<Head(b)>> \o Tail(b))[i] = b[i]
    BY <2>1, <2>2, <2>3
  <2> QED
    BY <2>2, <2>3, <2>4, SeqEqual
<1>3. Append(d, Head(b)) = d \o <<Head(b)>>
  BY <1>1, AppendIsConcat
<1>4. (d \o <<Head(b)>>) \o Tail(b) = d \o (<<Head(b)>> \o Tail(b))
  BY <1>1, ConcatAssociative
<1> QED
  BY <1>2, <1>3, <1>4

\* A step of the promise leaves no gap.
LEMMA NoGapsStep ==
  ASSUME IInv, Promise!NoGaps, [Promise!Next]_(Promise!streamVars)
  PROVE  Promise!NoGaps'
<1> DEFINE buffer == IF Over THEN <<>> ELSE slot \o queue
<1>1. delivered \in Seq(Nat) /\ buffer \in Seq(Nat) /\ sent \in Nat
  <2>1. slot \o queue \in Seq(Nat) /\ <<>> \in Seq(Nat)
    BY ConcatProperties, EmptySeq DEF IInv, TypeOK
  <2> QED
    BY <2>1 DEF IInv, TypeOK
<1>2. /\ Promise!Consecutive(delivered \o buffer)
      /\ ~Over /\ delivered \o buffer # <<>>
           => (delivered \o buffer)[Len(delivered \o buffer)] = sent
  BY DEF Promise!NoGaps
<1>3. SUFFICES /\ Promise!Consecutive(delivered' \o buffer')
               /\ ~Over' /\ delivered' \o buffer' # <<>>
                    => (delivered' \o buffer')[Len(delivered' \o buffer')] = sent'
  BY DEF Promise!NoGaps, Promise!Consecutive
<1>4. \/ ~Over /\ ~Over' /\ sent' = sent + 1 /\ buffer' = Append(buffer, sent + 1) /\ delivered' = delivered
      \/ /\ Over \/ (buffer = <<>> /\ delivered = <<>>)
         /\ buffer' = buffer /\ delivered' = delivered /\ Over' = Over
      \/ /\ ~Over /\ buffer # <<>> /\ Over' = Over /\ sent' = sent
         /\ delivered' = Append(delivered, Head(buffer)) /\ buffer' = Tail(buffer)
      \/ Over' /\ buffer' = <<>> /\ delivered' = delivered
      \/ buffer' = buffer /\ delivered' = delivered /\ Over' = Over /\ sent' = sent
  BY DEF Promise!Next, Promise!Accept, Promise!Miss, Promise!Deliver, Promise!Finish,
         Promise!streamVars
<1> HIDE DEF buffer
<1>5. CASE ~Over /\ ~Over' /\ sent' = sent + 1 /\ buffer' = Append(buffer, sent + 1) /\ delivered' = delivered
  <2>1. delivered' \o buffer' = Append(delivered \o buffer, sent + 1)
    <3>1. /\ Append(buffer, sent + 1) = buffer \o <<sent + 1>>
          /\ Append(delivered \o buffer, sent + 1) = (delivered \o buffer) \o <<sent + 1>>
      BY <1>1, AppendIsConcat, ConcatProperties
    <3>2. (delivered \o buffer) \o <<sent + 1>> = delivered \o (buffer \o <<sent + 1>>)
      BY <1>1, ConcatAssociative
    <3> QED
      BY <1>5, <3>1, <3>2
  <2>2. delivered \o buffer \in Seq(Nat)
    BY <1>1, ConcatProperties
  <2> QED
    BY <1>1, <1>2, <1>5, <2>1, <2>2, OneMoreMessage
<1>6. CASE /\ Over \/ (buffer = <<>> /\ delivered = <<>>)
           /\ buffer' = buffer /\ delivered' = delivered /\ Over' = Over
  <2>1. delivered' \o buffer' = delivered \o buffer
    BY <1>6
  <2>2. CASE Over
    BY <1>2, <1>6, <2>1, <2>2
  <2>3. CASE buffer = <<>> /\ delivered = <<>>
    <3>1. delivered \o buffer = <<>>
      BY <1>1, <2>3, ConcatEmptySeq
    <3> QED
      BY <1>2, <2>1, <3>1
  <2> QED
    BY <1>6, <2>2, <2>3
<1>7. CASE /\ ~Over /\ buffer # <<>> /\ Over' = Over /\ sent' = sent
           /\ delivered' = Append(delivered, Head(buffer)) /\ buffer' = Tail(buffer)
  BY <1>1, <1>2, <1>7, HeadMoves
<1>8. CASE Over' /\ buffer' = <<>> /\ delivered' = delivered
  <2>1. delivered' \o buffer' = delivered
    BY <1>1, <1>8, ConcatEmptySeq
  <2> QED
    BY <1>1, <1>2, <1>8, <2>1, BeginningOfMessages
<1>9. CASE buffer' = buffer /\ delivered' = delivered /\ Over' = Over /\ sent' = sent
  BY <1>2, <1>9
<1> QED
  BY <1>4, <1>5, <1>6, <1>7, <1>8, <1>9

\* What the consumer of subscribe() got, with what is still buffered, is a run
\* of consecutive messages: none twice, none out of order, none left out since
\* the first; and until the generator is over it reaches to the last one sent.
THEOREM SubscriptionHasNoGaps == Spec => []Promise!NoGaps
<1>1. Promise!Init => Promise!NoGaps
  <2> SUFFICES ASSUME Promise!Init PROVE Promise!NoGaps
    OBVIOUS
  <2>1. delivered = <<>> /\ (IF Over THEN <<>> ELSE slot \o queue) = <<>>
    BY DEF Promise!Init
  <2>2. <<>> \o <<>> = <<>> /\ Len(<<>>) = 0
    BY EmptySeq, ConcatEmptySeq
  <2> QED
    BY <2>1, <2>2 DEF Promise!NoGaps, Promise!Consecutive
<1>2. IInv /\ Promise!NoGaps /\ [Promise!Next]_(Promise!streamVars) => Promise!NoGaps'
  BY NoGapsStep
<1> QED
  BY <1>1, <1>2, ImplementsStream, Inductive, PTL DEF KeepsOrder, Promise!Spec

-----------------------------------------------------------------------------
\* A generator that waits with nothing handed to it has nothing in its queue,
\* and its resolver is set unless the connection has ended under it.
WakesUp ==
  pc = "waiting" /\ slot = <<>> => queue = <<>> /\ (armed \/ ~connected)

\* No wakeup is lost: the handler cannot queue a message for a generator that
\* sleeps, in whatever order messages, waits, the end of the connection and
\* close() come.  Only the end of the connection leaves it asleep for ever,
\* which is what EndIsSignalled finds.
THEOREM NoWakeupIsLost == Spec => []WakesUp
<1>1. Init => WakesUp
  BY DEF Init, WakesUp
<1>2. IInv /\ WakesUp /\ [Next]_vars => WakesUp'
  <2> SUFFICES ASSUME IInv, WakesUp, [Next]_vars PROVE WakesUp'
    OBVIOUS
  <2> USE DEF IInv, TypeOK, Waiting, WakesUp, generator, handover, ending
  <2>1. CASE Publish
    <3>1. CASE listening
      <4>1. connected' = connected /\ pc' = pc /\ connected /\ messageHandler(sent')
        BY <2>1, <3>1 DEF Publish
      <4>2. CASE armed
        BY <4>1, <4>2 DEF messageHandler
      <4>3. CASE ~armed
        BY <4>1, <4>3 DEF messageHandler
      <4> QED
        BY <4>2, <4>3
    <3>2. CASE ~listening
      BY <2>1, <3>2 DEF Publish
    <3> QED
      BY <3>1, <3>2
  <2>2. CASE ConnectionEnds \/ Close
    BY <2>2 DEF ConnectionEnds, Close
  <2>3. CASE Wait \/ Resume \/ TakeFromQueue
    BY <2>3 DEF Wait, Resume, TakeFromQueue
  <2>4. CASE Start \/ Subscribed \/ SubscribeFails \/ Listen \/ LoopEnds
    BY <2>4 DEF Start, Subscribed, SubscribeFails, Listen, LoopEnds
  <2>5. CASE NextCalled \/ ReturnCalled \/ Cleanup \/ Unsubscribed
    BY <2>5 DEF NextCalled, ReturnCalled, Cleanup, Unsubscribed
  <2>6. CASE UNCHANGED vars
    BY <2>6 DEF vars
  <2> QED
    BY <2>1, <2>2, <2>3, <2>4, <2>5, <2>6 DEF Next, Generator, Consumer
<1> QED
  BY <1>1, <1>2, Inductive, PTL DEF Spec

-----------------------------------------------------------------------------
\* The channels of a RabbitMQ client

Deliveries == [on : Channels, tag : Nat \ {0}, msg : Messages]

Frames ==
  [frame : {"closed", "cancel", "consume-ok", "cancel-ok", "get-empty"}] \cup
  [frame : {"deliver", "get-ok"}, delivery : Deliveries]

BrokerSides ==
  [open : BOOLEAN, consumer : {"none", "ack", "noAck"}, unsettled : SUBSET Deliveries,
   lastTag : Nat]

ChannelImpls ==
  [closed : BOOLEAN, dead : BOOLEAN, get : {"idle", "asking", "gave up"}, late : Nat,
   consume : {"idle", "starting", "started", "waiting", "resolved", "yielded", "cancelling",
              "ended"},
   messageQueue : Seq(Deliveries), resolved : Deliveries \cup {NoDelivery}, done : BOOLEAN,
   yielded : Nat, tags : SUBSET Deliveries]

ChannelTypeOK ==
  /\ ready \in Seq(Messages) /\ released \in SUBSET Messages
  /\ broker \in [Channels -> BrokerSides]
  /\ inbox \in [Channels -> Seq(Frames)]
  /\ channel \in [Channels -> ChannelImpls]

(***************************************************************************)
(* What is true of one channel: b is the broker's side of c, in what is on *)
(* its way, and ch the object of the client.                               *)
(***************************************************************************)

Carries(f) == f.frame \in {"deliver", "get-ok"}

\* The deliveries on their way, those that the consumer keeps, and all that have an owner
Arriving(in) == {f.delivery : f \in {g \in ToSet(in) : Carries(g)}}
Kept(ch) == ToSet(ch.messageQueue) \cup ({ch.resolved} \ {NoDelivery})
Owned(in, ch) == Arriving(in) \cup Kept(ch) \cup ch.tags

\* Tags count up on the channel, and belong to it.
Tagged(c, b) ==
  /\ IsFiniteSet(b.unsettled)
  /\ \A d \in b.unsettled : d.on = c /\ d.tag <= b.lastTag
  /\ \A d, e \in b.unsettled : d.tag = e.tag => d = e

OfChannel(c, b, in, ch) ==
  /\ \A d \in Owned(in, ch) : d.on = c
  /\ \A d \in Arriving(in) \cup Kept(ch) : d.tag <= b.lastTag
  /\ ch.yielded <= b.lastTag

\* Each element of a sequence stands in a relation to all those after it.
Ordered(s, R) == \A i, j \in DOMAIN s : i < j => <<s[i], s[j]>> \in R

Answers == {"get-ok", "get-empty"}

\* Deliveries come in the order of their tags, and each request is answered once.
Before ==
  {p \in Frames \X Frames :
     /\ Carries(p[1]) /\ Carries(p[2]) => p[1].delivery.tag < p[2].delivery.tag
     /\ ~(p[1].frame \in Answers /\ p[2].frame \in Answers)
     /\ ~(p[1].frame = "consume-ok" /\ p[2].frame = "consume-ok")}

Earlier == {p \in Deliveries \X Deliveries : p[1].tag < p[2].tag}

\* Where the generator is tells what it holds.
Phased(in, ch) ==
  /\ ch.resolved # NoDelivery => ch.consume = "resolved"
  /\ ch.consume = "waiting" => ch.messageQueue = <<>>
  /\ \A f \in ToSet(in) : f.frame = "consume-ok" => ch.consume \in {"starting", "ended"}

\* yielded, then resolved, then the queue, then what is on its way
InLine(in, ch) ==
  /\ Ordered(in, Before) /\ Ordered(ch.messageQueue, Earlier)
  /\ \A d \in Kept(ch), e \in Arriving(in) : d.tag < e.tag
  /\ \A e \in ToSet(ch.messageQueue) : ch.resolved.tag < e.tag
  /\ \A d \in Kept(ch) \cup Arriving(in) : ch.yielded < d.tag

\* A get() that has given up will lose one more delivery at most.
Unanswered(ch) == IF ch.get = "gave up" THEN 1 ELSE 0
Lost(b, in, ch) == b.unsettled \ Owned(in, ch)

Expected(in, ch) ==
  \A f \in ToSet(in) : f.frame # "closed" /\ (ch.get = "idle" => f.frame \notin Answers)

Owns(b, in, ch) ==
  b.open /\ ~ch.closed =>
    Expected(in, ch) /\ Cardinality(Lost(b, in, ch)) + Unanswered(ch) <= ch.late

Good(c, b, in, ch) ==
  /\ Tagged(c, b) /\ OfChannel(c, b, in, ch)
  /\ Phased(in, ch) /\ InLine(in, ch) /\ Owns(b, in, ch)

AllGood == \A c \in Channels : Good(c, broker[c], inbox[c], channel[c])

ChInv == ChannelTypeOK /\ AllGood /\ OnlySettledMessagesVanish

-----------------------------------------------------------------------------
\* Sequences

\* A sequence over S holds elements of S.
LEMMA ToSetIsIn ==
  ASSUME NEW S, NEW s \in Seq(S)
  PROVE  ToSet(s) \in SUBSET S
BY ElementOfSeq, LenProperties DEF ToSet

\* Append adds its element to those of the sequence.
LEMMA AppendToSet ==
  ASSUME NEW S, NEW s \in Seq(S), NEW e \in S
  PROVE  /\ Append(s, e) \in Seq(S) /\ ToSet(Append(s, e)) = ToSet(s) \cup {e}
         /\ ToSet(s) \subseteq S
<1> DEFINE t == Append(s, e)
<1>1. /\ t \in Seq(S) /\ Len(t) = Len(s) + 1
      /\ \A i \in 1 .. Len(s) : t[i] = s[i]
      /\ t[Len(s) + 1] = e
  BY AppendProperties
<1>2. DOMAIN s = 1 .. Len(s) /\ DOMAIN t = 1 .. Len(s) + 1 /\ Len(s) \in Nat
  BY <1>1, LenProperties
<1>3. \A i \in DOMAIN s : s[i] \in S
  BY ElementOfSeq, LenProperties
<1> HIDE DEF t
<1>4. ToSet(t) = ToSet(s) \cup {e}
  <2>1. \A i \in DOMAIN t : t[i] \in ToSet(s) \cup {e}
    BY <1>1, <1>2 DEF ToSet
  <2>2. \A i \in DOMAIN s : s[i] \in ToSet(t)
    BY <1>1, <1>2 DEF ToSet
  <2>3. e \in ToSet(t)
    BY <1>1, <1>2 DEF ToSet
  <2> QED
    BY <2>1, <2>2, <2>3 DEF ToSet
<1> QED
  BY <1>1, <1>3, <1>4 DEF ToSet, t

\* A sequence holds its head and what its tail holds.
LEMMA TailToSet ==
  ASSUME NEW S, NEW s \in Seq(S), s # <<>>
  PROVE  /\ Head(s) \in S /\ Tail(s) \in Seq(S) /\ ToSet(s) \subseteq S
         /\ ToSet(s) = {Head(s)} \cup ToSet(Tail(s))
<1> DEFINE t == Tail(s)
<1>1. /\ Head(s) \in S /\ t \in Seq(S) /\ Len(t) = Len(s) - 1 /\ Head(s) = s[1]
      /\ \A i \in 1 .. Len(t) : t[i] = s[i + 1]
  BY HeadTailProperties
<1>2. DOMAIN s = 1 .. Len(s) /\ DOMAIN t = 1 .. Len(s) - 1 /\ Len(s) \in Nat \ {0}
  BY <1>1, LenProperties, EmptySeq
<1>3. \A i \in DOMAIN s : s[i] \in S
  BY ElementOfSeq, LenProperties
<1> HIDE DEF t
<1>4. ASSUME NEW i \in DOMAIN s
      PROVE  s[i] \in {Head(s)} \cup ToSet(t)
  <2>1. CASE i = 1
    BY <1>1, <2>1
  <2>2. CASE i # 1
    <3>1. i - 1 \in DOMAIN t /\ t[i - 1] = s[i]
      BY <1>1, <1>2, <2>2
    <3> QED
      BY <3>1 DEF ToSet
  <2> QED
    BY <2>1, <2>2
<1>5. \A i \in DOMAIN t : t[i] \in ToSet(s)
  <2> TAKE i \in DOMAIN t
  <2>1. i + 1 \in DOMAIN s /\ t[i] = s[i + 1]
    BY <1>1, <1>2
  <2> QED
    BY <2>1 DEF ToSet
<1>6. Head(s) \in ToSet(s)
  BY <1>1, <1>2 DEF ToSet
<1>7. ToSet(s) = {Head(s)} \cup ToSet(t)
  BY <1>4, <1>5, <1>6 DEF ToSet
<1> QED
  BY <1>1, <1>3, <1>7 DEF ToSet, t

\* A concatenation holds what both sequences hold.
LEMMA ConcatToSet ==
  ASSUME NEW S, NEW s \in Seq(S), NEW t \in Seq(S)
  PROVE  s \o t \in Seq(S) /\ ToSet(s \o t) = ToSet(s) \cup ToSet(t)
<1> DEFINE u == s \o t
<1>1. /\ u \in Seq(S) /\ Len(u) = Len(s) + Len(t)
      /\ \A i \in 1 .. Len(u) : u[i] = IF i <= Len(s) THEN s[i] ELSE t[i - Len(s)]
  BY ConcatProperties
<1>2. /\ DOMAIN s = 1 .. Len(s) /\ DOMAIN t = 1 .. Len(t) /\ DOMAIN u = 1 .. Len(s) + Len(t)
      /\ Len(s) \in Nat /\ Len(t) \in Nat
  BY <1>1, LenProperties
<1> HIDE DEF u
<1>3. ASSUME NEW i \in DOMAIN u
      PROVE  u[i] \in ToSet(s) \cup ToSet(t)
  <2>1. CASE i <= Len(s)
    BY <1>1, <1>2, <2>1 DEF ToSet
  <2>2. CASE ~(i <= Len(s))
    <3>1. i - Len(s) \in DOMAIN t /\ u[i] = t[i - Len(s)]
      BY <1>1, <1>2, <2>2
    <3> QED
      BY <3>1 DEF ToSet
  <2> QED
    BY <2>1, <2>2
<1>4. \A i \in DOMAIN s : s[i] \in ToSet(u)
  <2> TAKE i \in DOMAIN s
  <2>1. i \in DOMAIN u /\ u[i] = s[i]
    BY <1>1, <1>2
  <2> QED
    BY <2>1 DEF ToSet
<1>5. \A i \in DOMAIN t : t[i] \in ToSet(u)
  <2> TAKE i \in DOMAIN t
  <2>1. i + Len(s) \in DOMAIN u /\ u[i + Len(s)] = t[(i + Len(s)) - Len(s)]
    BY <1>1, <1>2
  <2>2. (i + Len(s)) - Len(s) = i
    BY <1>2
  <2> QED
    BY <2>1, <2>2 DEF ToSet
<1>6. ToSet(u) = ToSet(s) \cup ToSet(t)
  BY <1>3, <1>4, <1>5 DEF ToSet
<1> QED
  BY <1>1, <1>6 DEF u

\* An element after all others keeps a sequence ordered.
LEMMA OrderedAppend ==
  ASSUME NEW S, NEW s \in Seq(S), NEW e \in S, NEW R, Ordered(s, R), \A x \in ToSet(s) : <<x, e>> \in R
  PROVE  Ordered(Append(s, e), R)
<1> DEFINE t == Append(s, e)
<1>1. /\ Len(t) = Len(s) + 1 /\ t \in Seq(S)
      /\ \A i \in 1 .. Len(s) : t[i] = s[i]
      /\ t[Len(s) + 1] = e
  BY AppendProperties
<1>2. DOMAIN s = 1 .. Len(s) /\ DOMAIN t = 1 .. Len(s) + 1 /\ Len(s) \in Nat
  BY <1>1, LenProperties
<1> HIDE DEF t
<1>3. ASSUME NEW i \in DOMAIN t, NEW j \in DOMAIN t, i < j
      PROVE  <<t[i], t[j]>> \in R
  <2>1. i \in DOMAIN s /\ t[i] = s[i]
    BY <1>1, <1>2, <1>3
  <2>2. CASE j \in DOMAIN s
    BY <1>1, <1>2, <1>3, <2>1, <2>2 DEF Ordered
  <2>3. CASE j = Len(s) + 1
    <3>1. s[i] \in ToSet(s)
      BY <2>1 DEF ToSet
    <3> QED
      BY <1>1, <2>1, <2>3, <3>1
  <2> QED
    BY <1>2, <2>2, <2>3
<1> QED
  BY <1>3 DEF Ordered, t

\* The tail is ordered, and comes after the head.
LEMMA OrderedTail ==
  ASSUME NEW S, NEW s \in Seq(S), s # <<>>, NEW R, Ordered(s, R)
  PROVE  Ordered(Tail(s), R) /\ \A x \in ToSet(Tail(s)) : <<Head(s), x>> \in R
<1> DEFINE t == Tail(s)
<1>1. /\ t \in Seq(S) /\ Len(t) = Len(s) - 1 /\ Head(s) = s[1]
      /\ \A i \in 1 .. Len(t) : t[i] = s[i + 1]
  BY HeadTailProperties
<1>2. DOMAIN s = 1 .. Len(s) /\ DOMAIN t = 1 .. Len(s) - 1 /\ Len(s) \in Nat \ {0}
  BY <1>1, LenProperties, EmptySeq
<1> HIDE DEF t
<1>3. ASSUME NEW i \in DOMAIN t
      PROVE  i + 1 \in DOMAIN s /\ t[i] = s[i + 1]
  BY <1>1, <1>2
<1>4. Ordered(t, R)
  BY <1>2, <1>3 DEF Ordered
<1>5. ASSUME NEW i \in DOMAIN t
      PROVE  <<Head(s), t[i]>> \in R
  <2>1. 1 \in DOMAIN s /\ 1 < i + 1
    BY <1>2
  <2> QED
    BY <1>1, <1>3, <2>1 DEF Ordered
<1> QED
  BY <1>4, <1>5 DEF ToSet, t

\* The broker's queue holds each message once at first.
LEMMA SetToSeqHasAll ==
  ASSUME NEW S, IsFiniteSet(S)
  PROVE  SetToSeq(S) \in Seq(S) /\ S \subseteq ToSet(SetToSeq(S))
<1> DEFINE n == Cardinality(S)
<1>1. n \in Nat /\ \E f \in [1 .. n -> S] : IsInjective(f)
  <2>1. n \in Nat /\ ExistsBijection(1 .. n, S)
    BY FS_CardinalityType
  <2> QED
    BY <2>1 DEF ExistsBijection, Bijection, Injection
<1>2. PICK f \in [1 .. n -> S] : f = SetToSeq(S) /\ IsInjective(f)
  BY <1>1 DEF SetToSeq
<1>3. f \in Surjection(1 .. n, S)
  <2>1. IsFiniteSet(1 .. n) /\ Cardinality(1 .. n) = n
    BY <1>1, FS_Interval
  <2>2. f \in Injection(1 .. n, S)
    BY <1>2 DEF Injection
  <2> QED
    BY <2>1, <2>2, FS_Injection
<1>4. f \in Seq(S) /\ DOMAIN f = 1 .. n
  BY <1>1
<1>5. S \subseteq ToSet(f)
  BY <1>3, <1>4 DEF Surjection, ToSet
<1> QED
  BY <1>2, <1>4, <1>5

\* Different tags have different places, and every place is taken.
LEMMA InOrderHasAll ==
  ASSUME NEW D \in SUBSET Deliveries, IsFiniteSet(D),
         \A d, e \in D : d.tag = e.tag => d = e
  PROVE  InOrder(D) \in Seq(Messages) /\ \A d \in D : d.msg \in ToSet(InOrder(D))
<1> DEFINE n == Cardinality(D)
           upTo(d) == {e \in D : e.tag <= d.tag}
           place == [d \in D |-> Cardinality(upTo(d))]
<1>1. n \in Nat /\ IsFiniteSet(1 .. n) /\ Cardinality(1 .. n) = n
  BY FS_CardinalityType, FS_Interval
<1>2. ASSUME NEW d \in D
      PROVE  IsFiniteSet(upTo(d)) /\ place[d] \in 1 .. n
  <2>1. IsFiniteSet(upTo(d)) /\ Cardinality(upTo(d)) <= n
    BY FS_Subset
  <2>2. d \in upTo(d)
    BY DEF Deliveries
  <2>3. Cardinality(upTo(d)) \in Nat /\ Cardinality(upTo(d)) # 0
    BY <2>1, <2>2, FS_CardinalityType, FS_EmptySet
  <2> QED
    BY <1>1, <2>1, <2>3
<1>3. ASSUME NEW d \in D, NEW e \in D, d.tag < e.tag
      PROVE  place[d] # place[e]
  <2>1. upTo(d) \in SUBSET upTo(e) /\ e \in upTo(e) /\ e \notin upTo(d)
    BY <1>3 DEF Deliveries
  <2>2. Cardinality(upTo(e)) # Cardinality(upTo(d))
    BY <1>2, <2>1, FS_Subset
  <2> QED
    BY <2>2
<1>4. place \in Injection(D, 1 .. n)
  <2>1. \A d, e \in D : place[d] = place[e] => d = e
    <3> TAKE d, e \in D
    <3> HAVE place[d] = place[e]
    <3>1. d.tag \in Nat /\ e.tag \in Nat /\ ~(d.tag < e.tag) /\ ~(e.tag < d.tag)
      BY <1>3 DEF Deliveries
    <3> QED
      BY <3>1
  <2>2. place \in [D -> 1 .. n]
    BY <1>2
  <2> HIDE DEF place
  <2> QED
    BY <2>1, <2>2, Fun_IsInj
<1>5. \A i \in 1 .. n : \E d \in D : place[d] = i
  <2> HIDE DEF place
  <2>1. place \in Surjection(D, 1 .. n)
    BY <1>1, <1>4, FS_Injection
  <2> QED
    BY <2>1 DEF Surjection
<1>6. \A i \in 1 .. n : \E d \in D : Cardinality(upTo(d)) = i
  BY <1>5
<1>7. \A d, e \in D : Cardinality(upTo(d)) = Cardinality(upTo(e)) => d = e
  <2>1. \A d \in D : place[d] = Cardinality(upTo(d))
    OBVIOUS
  <2> HIDE DEF place
  <2> QED
    BY <1>4, <2>1 DEF Injection, IsInjective
<1> DEFINE at(i) == CHOOSE d \in D : Cardinality(upTo(d)) = i
<1>10. InOrder(D) = [i \in 1 .. n |-> at(i).msg]
  BY DEF InOrder
<1>11. \A i \in 1 .. n : at(i) \in D /\ Cardinality(upTo(at(i))) = i
  BY <1>6
<1> HIDE DEF at
<1>8. InOrder(D) \in Seq(Messages) /\ DOMAIN InOrder(D) = 1 .. n
  <2>1. \A i \in 1 .. n : at(i).msg \in Messages
    BY <1>11 DEF Deliveries
  <2> QED
    BY <1>1, <1>10, <2>1
<1>9. ASSUME NEW d \in D
      PROVE  d.msg \in ToSet(InOrder(D))
  <2>1. PICK i \in 1 .. n : i = Cardinality(upTo(d))
    BY <1>2
  <2>2. at(i) = d
    BY <1>7, <1>11, <2>1
  <2>3. InOrder(D)[i] = d.msg
    BY <1>10, <2>1, <2>2
  <2> QED
    BY <1>8, <2>1, <2>3 DEF ToSet
<1> QED
  BY <1>8, <1>9

-----------------------------------------------------------------------------
\* One channel: what a step may do to it

\* The first frame leaves: what is on its way without it.
LEMMA HeadLeaves ==
  ASSUME NEW in \in Seq(Frames), in # <<>>, Ordered(in, Before), NEW f, f = Head(in)
  PROVE  /\ f \in Frames /\ Tail(in) \in Seq(Frames) /\ Ordered(Tail(in), Before)
         /\ ToSet(in) = {f} \cup ToSet(Tail(in)) /\ ToSet(in) \subseteq Frames
         /\ Carries(f) => /\ f.delivery \in Deliveries
                          /\ Arriving(in) = {f.delivery} \cup Arriving(Tail(in))
                          /\ \A e \in Arriving(Tail(in)) : f.delivery.tag < e.tag
         /\ ~Carries(f) => Arriving(in) = Arriving(Tail(in))
         /\ f.frame \in Answers => \A g \in ToSet(Tail(in)) : g.frame \notin Answers
         /\ f.frame = "consume-ok" => \A g \in ToSet(Tail(in)) : g.frame # "consume-ok"
<1>1. /\ f \in Frames /\ Tail(in) \in Seq(Frames) /\ ToSet(in) = {f} \cup ToSet(Tail(in))
      /\ ToSet(in) \subseteq Frames
  BY TailToSet
<1>2. Ordered(Tail(in), Before) /\ \A g \in ToSet(Tail(in)) : <<f, g>> \in Before
  BY OrderedTail
<1>3. \A g \in ToSet(Tail(in)) :
        /\ Carries(f) /\ Carries(g) => f.delivery.tag < g.delivery.tag
        /\ ~(f.frame \in Answers /\ g.frame \in Answers)
        /\ ~(f.frame = "consume-ok" /\ g.frame = "consume-ok")
  BY <1>2 DEF Before
<1>4. ASSUME Carries(f)
      PROVE  /\ f.delivery \in Deliveries
             /\ Arriving(in) = {f.delivery} \cup Arriving(Tail(in))
             /\ \A e \in Arriving(Tail(in)) : f.delivery.tag < e.tag
  <2>1. f.delivery \in Deliveries
    BY <1>1, <1>4 DEF Carries, Frames
  <2>2. Arriving(in) = {f.delivery} \cup Arriving(Tail(in))
    BY <1>1, <1>4 DEF Arriving
  <2>3. \A e \in Arriving(Tail(in)) : f.delivery.tag < e.tag
    BY <1>3, <1>4 DEF Arriving
  <2> QED
    BY <2>1, <2>2, <2>3
<1>5. ASSUME ~Carries(f)
      PROVE  Arriving(in) = Arriving(Tail(in))
  BY <1>1, <1>5 DEF Arriving
<1> QED
  BY <1>1, <1>2, <1>3, <1>4, <1>5

\* A frame is sent: what is on its way with it.
LEMMA FrameComes ==
  ASSUME NEW in \in Seq(Frames), Ordered(in, Before), NEW f \in Frames,
         Carries(f) => \A e \in Arriving(in) : e.tag < f.delivery.tag,
         f.frame \in Answers => \A g \in ToSet(in) : g.frame \notin Answers,
         f.frame = "consume-ok" => \A g \in ToSet(in) : g.frame # "consume-ok"
  PROVE  /\ Append(in, f) \in Seq(Frames) /\ Ordered(Append(in, f), Before)
         /\ ToSet(Append(in, f)) = ToSet(in) \cup {f}
         /\ Carries(f) => Arriving(Append(in, f)) = Arriving(in) \cup {f.delivery}
         /\ ~Carries(f) => Arriving(Append(in, f)) = Arriving(in)
<1>1. /\ Append(in, f) \in Seq(Frames) /\ ToSet(Append(in, f)) = ToSet(in) \cup {f}
      /\ ToSet(in) \subseteq Frames
  BY AppendToSet
<1>2. ASSUME NEW g \in ToSet(in)
      PROVE  <<g, f>> \in Before
  <2>1. Carries(g) /\ Carries(f) => g.delivery.tag < f.delivery.tag
    BY DEF Arriving
  <2>2. ~(g.frame \in Answers /\ f.frame \in Answers)
    OBVIOUS
  <2>3. ~(g.frame = "consume-ok" /\ f.frame = "consume-ok")
    OBVIOUS
  <2>4. g \in Frames
    BY <1>1
  <2> QED
    BY <2>1, <2>2, <2>3, <2>4 DEF Before
<1>3. Ordered(Append(in, f), Before)
  BY <1>2, OrderedAppend
<1>4. ASSUME Carries(f)
      PROVE  Arriving(Append(in, f)) = Arriving(in) \cup {f.delivery}
  BY <1>1, <1>4 DEF Arriving
<1>5. ASSUME ~Carries(f)
      PROVE  Arriving(Append(in, f)) = Arriving(in)
  BY <1>1, <1>5 DEF Arriving
<1> QED
  BY <1>1, <1>3, <1>4, <1>5

\* Nothing is taken from the line or added to it.
LEMMA SameLine ==
  ASSUME NEW in, NEW in2, NEW ch, NEW ch2, InLine(in, ch), Ordered(in2, Before),
         Arriving(in2) \subseteq Arriving(in), ch2.messageQueue = ch.messageQueue,
         ch2.resolved = ch.resolved, ch2.yielded = ch.yielded
  PROVE  InLine(in2, ch2) /\ Kept(ch2) = Kept(ch)
BY DEF InLine, Kept

\* Deliveries that stay or go away still belong to the channel.
LEMMA SameChannel ==
  ASSUME NEW c, NEW b \in BrokerSides, NEW b2 \in BrokerSides, NEW in, NEW in2, NEW ch, NEW ch2 \in ChannelImpls,
         OfChannel(c, b, in, ch), Owned(in2, ch2) \subseteq Owned(in, ch),
         Arriving(in2) \cup Kept(ch2) \subseteq Arriving(in) \cup Kept(ch),
         b2.lastTag = b.lastTag, ch2.yielded <= b.lastTag
  PROVE  OfChannel(c, b2, in2, ch2)
BY DEF OfChannel

\* No more is lost in a smaller set.
LEMMA LessLost ==
  ASSUME NEW U, IsFiniteSet(U), NEW V, V \subseteq U
  PROVE  /\ IsFiniteSet(V) /\ Cardinality(V) <= Cardinality(U)
         /\ Cardinality(V) \in Nat /\ Cardinality(U) \in Nat
BY FS_Subset, FS_CardinalityType

\* At most one more is lost with one more element.
LEMMA OneMoreLost ==
  ASSUME NEW U, IsFiniteSet(U), NEW V, NEW d, V \subseteq U \cup {d}
  PROVE  /\ Cardinality(V) <= Cardinality(U) + 1
         /\ Cardinality(V) \in Nat /\ Cardinality(U) \in Nat
<1>1. IsFiniteSet(U \cup {d}) /\ Cardinality(U \cup {d}) <= Cardinality(U) + 1
  <2>1. Cardinality(U \cup {d}) = IF d \in U THEN Cardinality(U) ELSE Cardinality(U) + 1
    BY FS_AddElement
  <2>2. IsFiniteSet(U \cup {d}) /\ Cardinality(U) \in Nat
    BY FS_AddElement, FS_CardinalityType
  <2> QED
    BY <2>1, <2>2
<1>2. Cardinality(V) <= Cardinality(U \cup {d}) /\ Cardinality(V) \in Nat
  BY <1>1, FS_Subset, FS_CardinalityType
<1> QED
  BY <1>1, <1>2, FS_CardinalityType

(***************************************************************************)
(* A step that takes no delivery from where it is: the broker may settle   *)
(* some, and a channel that is closed may drop what comes.                 *)
(***************************************************************************)
LEMMA NothingMoves ==
  ASSUME NEW c, NEW b \in BrokerSides, NEW b2 \in BrokerSides, NEW in, NEW in2,
         NEW ch \in ChannelImpls, NEW ch2 \in ChannelImpls, Good(c, b, in, ch),
         b2.lastTag = b.lastTag, b2.unsettled \subseteq b.unsettled,
         Ordered(in2, Before), Arriving(in2) \subseteq Arriving(in),
         ch2.messageQueue = ch.messageQueue, ch2.resolved = ch.resolved,
         ch2.yielded = ch.yielded, ch2.tags = ch.tags, Phased(in2, ch2),
         b2.open /\ ~ch2.closed =>
           /\ b.open /\ ~ch.closed /\ Arriving(in2) = Arriving(in) /\ Expected(in2, ch2)
           /\ ch.late + Unanswered(ch2) <= ch2.late + Unanswered(ch)
  PROVE  Good(c, b2, in2, ch2)
<1>1. Tagged(c, b) /\ OfChannel(c, b, in, ch) /\ InLine(in, ch) /\ Owns(b, in, ch)
  BY DEF Good
<1>2. Tagged(c, b2)
  BY <1>1, FS_Subset DEF Tagged
<1>3. InLine(in2, ch2) /\ Kept(ch2) = Kept(ch)
  BY <1>1, SameLine
<1>4. Owned(in2, ch2) \subseteq Owned(in, ch)
  BY <1>3 DEF Owned
<1>5. OfChannel(c, b2, in2, ch2)
  <2>1. ch2.yielded <= b.lastTag
    BY <1>1 DEF OfChannel
  <2> QED
    BY <1>1, <1>3, <1>4, <2>1, SameChannel
<1>6. Owns(b2, in2, ch2)
  <2> SUFFICES ASSUME b2.open /\ ~ch2.closed
               PROVE  Expected(in2, ch2) /\ Cardinality(Lost(b2, in2, ch2)) + Unanswered(ch2) <= ch2.late
    BY DEF Owns
  <2>1. /\ b.open /\ ~ch.closed /\ Arriving(in2) = Arriving(in) /\ Expected(in2, ch2)
        /\ ch.late + Unanswered(ch2) <= ch2.late + Unanswered(ch)
    OBVIOUS
  <2>2. Lost(b2, in2, ch2) \subseteq Lost(b, in, ch) /\ IsFiniteSet(Lost(b, in, ch))
    BY <1>1, <1>3, <2>1, FS_Subset DEF Lost, Owned, Tagged
  <2>3. Cardinality(Lost(b, in, ch)) + Unanswered(ch) <= ch.late
    BY <1>1, <2>1 DEF Owns
  <2>4. /\ Cardinality(Lost(b2, in2, ch2)) <= Cardinality(Lost(b, in, ch))
        /\ Cardinality(Lost(b2, in2, ch2)) \in Nat /\ Cardinality(Lost(b, in, ch)) \in Nat
    BY <2>2, LessLost
  <2>5. ch.late \in Nat /\ ch2.late \in Nat /\ Unanswered(ch) \in Nat /\ Unanswered(ch2) \in Nat
    BY DEF ChannelImpls, Unanswered
  <2> QED
    BY <2>1, <2>3, <2>4, <2>5
<1> QED
  BY <1>1, <1>2, <1>3, <1>5, <1>6 DEF Good

\* The broker delivers the next message to a consumer, or to a get() that asks.
LEMMA DeliveryArrives ==
  ASSUME NEW c \in Channels, NEW b \in BrokerSides, NEW in \in Seq(Frames),
         NEW ch \in ChannelImpls, Good(c, b, in, ch),
         NEW d \in Deliveries, d.on = c, d.tag = b.lastTag + 1,
         NEW f, f \in [frame : {"deliver", "get-ok"}, delivery : {d}],
         NEW unsettled \in {b.unsettled, b.unsettled \cup {d}},
         NEW b2 \in BrokerSides, b2.lastTag = b.lastTag + 1, b2.unsettled = unsettled,
         b2.open = b.open, NEW ch2 \in ChannelImpls,
         ch2.messageQueue = ch.messageQueue, ch2.resolved = ch.resolved,
         ch2.yielded = ch.yielded, ch2.tags = ch.tags, ch2.consume = ch.consume,
         ch2.closed = ch.closed, ch2.late = ch.late, f.frame = "deliver" => ch2 = ch,
         f.frame = "get-ok" => ch.get = "idle" /\ ch2.get = "asking" /\ b.open /\ ~ch.closed
  PROVE  Append(in, f) \in Seq(Frames) /\ Good(c, b2, Append(in, f), ch2)
<1> DEFINE in2 == Append(in, f)
<1>0. Tagged(c, b) /\ OfChannel(c, b, in, ch) /\ Phased(in, ch) /\ InLine(in, ch) /\ Owns(b, in, ch)
  BY DEF Good
<1>1. /\ b2 \in BrokerSides /\ b2.lastTag = b.lastTag + 1 /\ b2.unsettled = unsettled
      /\ b2.open = b.open /\ b.lastTag \in Nat
  BY DEF BrokerSides
<1>2. /\ ch2 \in ChannelImpls /\ ch2.messageQueue = ch.messageQueue /\ ch2.resolved = ch.resolved
      /\ ch2.yielded = ch.yielded /\ ch2.tags = ch.tags /\ ch2.consume = ch.consume
      /\ ch2.closed = ch.closed /\ ch2.late = ch.late
      /\ f.frame = "deliver" => ch2 = ch
      /\ f.frame = "get-ok" => ch.get = "idle" /\ ch2.get = "asking" /\ b.open /\ ~ch.closed
  OBVIOUS
<1>3. f \in Frames /\ f.delivery = d /\ f.frame \in {"deliver", "get-ok"} /\ Carries(f)
  BY DEF Frames, Carries
<1>4. /\ in2 \in Seq(Frames) /\ Ordered(in2, Before) /\ ToSet(in2) = ToSet(in) \cup {f}
      /\ Arriving(in2) = Arriving(in) \cup {d}
  <2>1. \A e \in Arriving(in) : e.tag < d.tag
    <3>1. \A e \in Arriving(in) : e.tag \in Nat
      BY ToSetIsIn DEF Arriving, Carries, Frames, Deliveries
    <3> QED
      BY <1>0, <1>1, <3>1 DEF OfChannel
  <2>2. f.frame \in Answers => \A g \in ToSet(in) : g.frame \notin Answers
    BY <1>0, <1>2, <1>3 DEF Owns, Expected, Answers
  <2>3. f.frame # "consume-ok" /\ Ordered(in, Before)
    BY <1>0, <1>3 DEF InLine
  <2> QED
    BY <1>3, <2>1, <2>2, <2>3, FrameComes
<1> HIDE DEF in2
<1>5. Tagged(c, b2)
  BY <1>0, <1>1, FS_AddElement DEF Tagged, BrokerSides, Deliveries
<1>6. Kept(ch2) = Kept(ch) /\ Kept(ch) \in SUBSET Deliveries
  BY <1>2, ToSetIsIn DEF Kept, ChannelImpls
<1>7. Owned(in2, ch2) = Owned(in, ch) \cup {d}
  BY <1>2, <1>4, <1>6 DEF Owned
<1>13. ch.yielded <= b.lastTag /\ ch.yielded \in Nat
  BY <1>0 DEF OfChannel, ChannelImpls
<1>8. OfChannel(c, b2, in2, ch2)
  <2>1. \A e \in Owned(in2, ch2) : e.on = c
    BY <1>0, <1>7 DEF OfChannel
  <2>2. \A e \in Arriving(in2) \cup Kept(ch2) : e.tag <= b.lastTag + 1
    <3>1. \A e \in Arriving(in) \cup Kept(ch) : e.tag \in Nat
      BY <1>6, ToSetIsIn DEF Arriving, Carries, Frames, Deliveries
    <3>2. \A e \in Arriving(in) \cup Kept(ch) : e.tag <= b.lastTag
      BY <1>0 DEF OfChannel
    <3>3. \A e \in Arriving(in) \cup Kept(ch) : e.tag <= b.lastTag + 1
      BY <1>1, <3>1, <3>2
    <3> QED
      BY <1>1, <1>4, <1>6, <3>3
  <2>3. ch2.yielded <= b.lastTag + 1
    BY <1>1, <1>2, <1>13
  <2> QED
    BY <1>1, <2>1, <2>2, <2>3 DEF OfChannel
<1>9. Phased(in2, ch2)
  BY <1>0, <1>2, <1>3, <1>4 DEF Phased
<1>10. InLine(in2, ch2)
  <2>1. \A e \in Kept(ch) : e.tag \in Nat /\ e.tag <= b.lastTag /\ e.tag < d.tag
    <3>1. \A e \in Kept(ch) : e.tag <= b.lastTag
      BY <1>0 DEF OfChannel
    <3> QED
      BY <1>1, <1>6, <3>1 DEF Deliveries
  <2>2. ch.yielded < d.tag
    BY <1>1, <1>13
  <2> QED
    BY <1>0, <1>2, <1>4, <1>6, <2>1, <2>2 DEF InLine
<1>11. Owns(b2, in2, ch2)
  <2> SUFFICES ASSUME b2.open, ~ch2.closed
               PROVE  Expected(in2, ch2) /\ Cardinality(Lost(b2, in2, ch2)) + Unanswered(ch2) <= ch2.late
    BY DEF Owns
  <2>1. Expected(in, ch) /\ Cardinality(Lost(b, in, ch)) + Unanswered(ch) <= ch.late
    BY <1>0, <1>1, <1>2 DEF Owns
  <2>2. Expected(in2, ch2)
    BY <1>2, <1>3, <1>4, <2>1 DEF Expected, Answers
  <2>3. Lost(b2, in2, ch2) \subseteq Lost(b, in, ch) /\ IsFiniteSet(Lost(b, in, ch))
    BY <1>0, <1>1, <1>7, FS_Subset DEF Lost, Tagged
  <2>4. /\ Cardinality(Lost(b2, in2, ch2)) <= Cardinality(Lost(b, in, ch))
        /\ Cardinality(Lost(b2, in2, ch2)) \in Nat /\ Cardinality(Lost(b, in, ch)) \in Nat
    BY <2>3, LessLost
  <2>5. ch.late \in Nat /\ Unanswered(ch) \in Nat /\ Unanswered(ch2) <= Unanswered(ch) /\ Unanswered(ch2) \in Nat
    <3>1. ch.late \in Nat /\ Unanswered(ch) \in Nat /\ Unanswered(ch2) \in Nat
      BY DEF ChannelImpls, Unanswered
    <3>2. Unanswered(ch2) <= Unanswered(ch)
      <4>1. CASE f.frame = "deliver"
        BY <1>2, <3>1, <4>1
      <4>2. CASE f.frame = "get-ok"
        <5>1. ch2.get = "asking"
          BY <1>2, <4>2
        <5>2. Unanswered(ch2) = 0
          BY <5>1 DEF Unanswered
        <5> QED
          BY <3>1, <5>2
      <4> QED
        BY <1>3, <4>1, <4>2
    <3> QED
      BY <3>1, <3>2
  <2> QED
    BY <1>2, <2>1, <2>2, <2>4, <2>5
<1>12. Good(c, b2, in2, ch2)
  BY <1>5, <1>8, <1>9, <1>10, <1>11 DEF Good
<1> QED
  BY <1>4, <1>12 DEF in2

\* A delivery is not the null of the callback.
LEMMA SomeDelivery ==
  ASSUME NEW d \in Deliveries
  PROVE  d # NoDelivery /\ NoDelivery.tag = 0 /\ d.tag \in Nat /\ d.tag > 0
BY DEF Deliveries, NoDelivery

\* The callback of consume(): a message goes to the resolver that waits, or to the queue.
LEMMA DeliveryKept ==
  ASSUME NEW c \in Channels, NEW b \in BrokerSides, NEW in \in Seq(Frames),
         NEW ch \in ChannelImpls, Good(c, b, in, ch),
         in # <<>>, NEW f, f = Head(in), f.frame = "deliver"
  PROVE  /\ Callback(ch, f.delivery) \in ChannelImpls
         /\ Good(c, b, Tail(in), Callback(ch, f.delivery))
<1> DEFINE in2 == Tail(in)
           ch2 == Callback(ch, f.delivery)
<1>0. /\ Tagged(c, b) /\ OfChannel(c, b, in, ch) /\ Phased(in, ch) /\ InLine(in, ch)
      /\ Owns(b, in, ch) /\ Ordered(in, Before)
  BY DEF Good, InLine
<1>1. Carries(f)
  BY DEF Carries
<1>2. PICK d \in Deliveries : d = f.delivery
  BY <1>0, <1>1, HeadLeaves
<1>3. /\ in2 \in Seq(Frames) /\ Ordered(in2, Before) /\ ToSet(in) = {f} \cup ToSet(in2)
      /\ Arriving(in) = {d} \cup Arriving(in2) /\ \A e \in Arriving(in2) : d.tag < e.tag
  BY <1>0, <1>1, <1>2, HeadLeaves
<1>4. /\ ch.messageQueue \in Seq(Deliveries) /\ ToSet(ch.messageQueue) \in SUBSET Deliveries
      /\ ch.resolved \in Deliveries \cup {NoDelivery} /\ ch.tags \in SUBSET Deliveries
      /\ ch.consume # "waiting" \/ (ch.messageQueue = <<>> /\ ch.resolved = NoDelivery)
  BY <1>0, ToSetIsIn DEF ChannelImpls, Phased
<1>5. ASSUME ch.consume = "waiting"
      PROVE  ch2 = [ch EXCEPT !.consume = "resolved", !.resolved = d]
  <2>1. d # NoDelivery
    BY SomeDelivery
  <2>2. [ch EXCEPT !.done = @ \/ FALSE] = ch
    BY DEF ChannelImpls
  <2> QED
    BY <1>2, <1>5, <2>1, <2>2 DEF Callback, Wake
<1>6. ASSUME ch.consume # "waiting"
      PROVE  ch2 = [ch EXCEPT !.messageQueue = Append(ch.messageQueue, d)]
  <2>1. d # NoDelivery
    BY SomeDelivery
  <2>2. [ch EXCEPT !.done = @ \/ FALSE] = ch
    BY DEF ChannelImpls
  <2> QED
    BY <1>2, <1>6, <2>1, <2>2 DEF Callback, Push
<1> HIDE DEF ch2, in2
<1>7. Append(ch.messageQueue, d) \in Seq(Deliveries)
  BY <1>4, AppendToSet
<1>8. /\ ch2 \in ChannelImpls /\ ch2.yielded = ch.yielded /\ ch2.tags = ch.tags
      /\ ch2.closed = ch.closed /\ ch2.late = ch.late /\ ch2.get = ch.get
  <2>1. CASE ch.consume = "waiting"
    BY <1>5, <2>1 DEF ChannelImpls
  <2>2. CASE ch.consume # "waiting"
    BY <1>6, <1>7, <2>2 DEF ChannelImpls
  <2> QED
    BY <2>1, <2>2
<1>9. ASSUME ch.consume = "waiting"
      PROVE  /\ ch2.consume = "resolved" /\ ch2.resolved = d /\ ch2.messageQueue = <<>>
             /\ Kept(ch) = {} /\ Kept(ch2) = {d}
  <2>1. ch2.consume = "resolved" /\ ch2.resolved = d /\ ch2.messageQueue = <<>>
    BY <1>4, <1>5, <1>9 DEF ChannelImpls
  <2> QED
    BY <1>4, <1>9, <2>1, SomeDelivery DEF Kept, ToSet
<1>10. ASSUME ch.consume # "waiting"
       PROVE  /\ ch2.consume = ch.consume /\ ch2.resolved = ch.resolved
              /\ ch2.messageQueue = Append(ch.messageQueue, d)
              /\ ToSet(ch2.messageQueue) = ToSet(ch.messageQueue) \cup {d}
              /\ Kept(ch2) = Kept(ch) \cup {d}
  <2>1. ch2.consume = ch.consume /\ ch2.resolved = ch.resolved
        /\ ch2.messageQueue = Append(ch.messageQueue, d)
    BY <1>6, <1>10 DEF ChannelImpls
  <2>2. ToSet(ch2.messageQueue) = ToSet(ch.messageQueue) \cup {d}
    BY <1>4, <2>1, AppendToSet
  <2> QED
    BY <2>1, <2>2 DEF Kept
<1>11. Kept(ch2) = Kept(ch) \cup {d}
  BY <1>9, <1>10
<1>12. Owned(in2, ch2) = Owned(in, ch)
  BY <1>3, <1>8, <1>11 DEF Owned
<1>13. OfChannel(c, b, in2, ch2)
  <2>1. ch2.yielded <= b.lastTag
    BY <1>0, <1>8 DEF OfChannel
  <2>2. Arriving(in2) \cup Kept(ch2) = Arriving(in) \cup Kept(ch)
    BY <1>3, <1>11
  <2> QED
    BY <1>0, <1>8, <1>12, <2>1, <2>2, SameChannel
<1>14. Phased(in2, ch2)
  <2>1. CASE ch.consume = "waiting"
    BY <1>0, <1>3, <1>9, <2>1 DEF Phased
  <2>2. CASE ch.consume # "waiting"
    BY <1>0, <1>3, <1>10, <2>2 DEF Phased
  <2> QED
    BY <2>1, <2>2
<1>15. InLine(in2, ch2)
  <2>1. \A e \in Kept(ch) : e.tag < d.tag
    BY <1>0, <1>3 DEF InLine
  <2>2. \A e \in Kept(ch2), g \in Arriving(in2) : e.tag < g.tag
    BY <1>0, <1>3, <1>11 DEF InLine
  <2>3. \A e \in Kept(ch2) \cup Arriving(in2) : ch2.yielded < e.tag
    BY <1>0, <1>3, <1>8, <1>11 DEF InLine
  <2>4. CASE ch.consume = "waiting"
    <3>1. ToSet(ch2.messageQueue) = {} /\ Ordered(ch2.messageQueue, Earlier)
      BY <1>9, <2>4 DEF ToSet, Ordered
    <3> QED
      BY <1>3, <2>2, <2>3, <3>1 DEF InLine
  <2>5. CASE ch.consume # "waiting"
    <3>1. \A e \in ToSet(ch.messageQueue) : <<e, d>> \in Earlier
      <4>1. \A e \in ToSet(ch.messageQueue) : e \in Deliveries /\ e.tag < d.tag
        BY <1>4, <2>1 DEF Kept
      <4> QED
        BY <4>1 DEF Earlier
    <3>2. Ordered(ch2.messageQueue, Earlier)
      <4>1. Ordered(ch.messageQueue, Earlier)
        BY <1>0 DEF InLine
      <4>2. Ordered(Append(ch.messageQueue, d), Earlier)
        BY <1>4, <3>1, <4>1, OrderedAppend
      <4> QED
        BY <1>10, <2>5, <4>2
    <3>3. ch.resolved.tag < d.tag
      <4>1. CASE ch.resolved = NoDelivery
        BY <4>1, SomeDelivery
      <4>2. CASE ch.resolved # NoDelivery
        BY <2>1, <4>2 DEF Kept
      <4> QED
        BY <4>1, <4>2
    <3>4. \A e \in ToSet(ch2.messageQueue) : ch2.resolved.tag < e.tag
      BY <1>0, <1>10, <2>5, <3>3 DEF InLine
    <3> QED
      BY <1>3, <2>2, <2>3, <3>2, <3>4 DEF InLine
  <2> QED
    BY <2>4, <2>5
<1>16. Owns(b, in2, ch2)
  BY <1>0, <1>3, <1>8, <1>12 DEF Owns, Expected, Lost, Unanswered
<1>17. Good(c, b, in2, ch2)
  BY <1>0, <1>13, <1>14, <1>15, <1>16 DEF Good
<1> QED
  BY <1>8, <1>17 DEF in2, ch2

\* The answer of get() goes to who asked, or is lost to one who has given up.
LEMMA AnswerReceived ==
  ASSUME NEW c \in Channels, NEW b \in BrokerSides, NEW in \in Seq(Frames),
         NEW ch \in ChannelImpls, Good(c, b, in, ch), ~ch.closed,
         in # <<>>, NEW f, f = Head(in), f.frame = "get-ok",
         NEW ch2 \in ChannelImpls, ch2.messageQueue = ch.messageQueue, ch2.resolved = ch.resolved,
         ch2.yielded = ch.yielded, ch2.consume = ch.consume, ch2.closed = ch.closed,
         ch2.late = ch.late, ch2.get = "idle",
         ch.get = "asking" => ch2.tags = ch.tags \cup {f.delivery},
         ch.get # "asking" => ch2.tags = ch.tags
  PROVE  Good(c, b, Tail(in), ch2)
<1> DEFINE in2 == Tail(in)
<1>0. /\ Tagged(c, b) /\ OfChannel(c, b, in, ch) /\ Phased(in, ch) /\ InLine(in, ch)
      /\ Owns(b, in, ch) /\ Ordered(in, Before)
  BY DEF Good, InLine
<1>1. Carries(f)
  BY DEF Carries
<1>2. PICK d \in Deliveries : d = f.delivery
  BY <1>0, <1>1, HeadLeaves
<1>3. /\ in2 \in Seq(Frames) /\ Ordered(in2, Before) /\ ToSet(in) = {f} \cup ToSet(in2)
      /\ Arriving(in) = {d} \cup Arriving(in2)
      /\ \A g \in ToSet(in2) : g.frame \notin Answers
  BY <1>0, <1>1, <1>2, HeadLeaves DEF Answers
<1> HIDE DEF in2
<1>4. ch.get \in {"idle", "asking", "gave up"} /\ ch.late \in Nat
  BY DEF ChannelImpls
<1>5. InLine(in2, ch2) /\ Kept(ch2) = Kept(ch)
  BY <1>0, <1>3, SameLine
<1>6. /\ Owned(in2, ch2) \subseteq Owned(in, ch)
      /\ ch.get = "asking" => Owned(in, ch) = Owned(in2, ch2)
      /\ Owned(in, ch) \subseteq Owned(in2, ch2) \cup {d}
  BY <1>2, <1>3, <1>5 DEF Owned
<1>7. OfChannel(c, b, in2, ch2)
  <2>1. ch2.yielded <= b.lastTag
    BY <1>0 DEF OfChannel
  <2>2. Arriving(in2) \cup Kept(ch2) \subseteq Arriving(in) \cup Kept(ch)
    BY <1>3, <1>5
  <2> QED
    BY <1>0, <1>6, <2>1, <2>2, SameChannel
<1>8. Phased(in2, ch2)
  BY <1>0, <1>3, <1>4 DEF Phased
<1>9. Owns(b, in2, ch2)
  <2> SUFFICES ASSUME b.open, ~ch2.closed
               PROVE  Expected(in2, ch2) /\ Cardinality(Lost(b, in2, ch2)) + Unanswered(ch2) <= ch2.late
    BY DEF Owns
  <2>1. Expected(in, ch) /\ Cardinality(Lost(b, in, ch)) + Unanswered(ch) <= ch.late
    BY <1>0, <1>4 DEF Owns
  <2>2. Expected(in2, ch2)
    BY <1>3, <2>1 DEF Expected
  <2>3. IsFiniteSet(Lost(b, in, ch)) /\ ch.late \in Nat
    BY <1>0, FS_Subset DEF Lost, Tagged, ChannelImpls
  <2>4. CASE ch.get = "asking"
    <3>1. Lost(b, in2, ch2) = Lost(b, in, ch)
      BY <1>6, <2>4 DEF Lost
    <3>2. Unanswered(ch) = 0 /\ Unanswered(ch2) = 0
      BY <1>4, <2>4 DEF Unanswered
    <3> QED
      BY <1>4, <2>1, <2>2, <3>1, <3>2
  <2>5. CASE ch.get = "gave up"
    <3>1. Lost(b, in2, ch2) \subseteq Lost(b, in, ch) \cup {d}
      BY <1>6 DEF Lost
    <3>2. Unanswered(ch) = 1 /\ Unanswered(ch2) = 0
      BY <1>4, <2>5 DEF Unanswered
    <3>3. /\ Cardinality(Lost(b, in2, ch2)) <= Cardinality(Lost(b, in, ch)) + 1
          /\ Cardinality(Lost(b, in2, ch2)) \in Nat /\ Cardinality(Lost(b, in, ch)) \in Nat
      BY <2>3, <3>1, OneMoreLost
    <3> QED
      BY <2>1, <2>2, <2>3, <3>2, <3>3
  <2>6. ch.get # "idle"
    BY <1>3, <2>1 DEF Expected, Answers
  <2> QED
    BY <1>4, <2>4, <2>5, <2>6
<1>10. Good(c, b, in2, ch2)
  BY <1>0, <1>5, <1>7, <1>8, <1>9 DEF Good
<1> QED
  BY <1>10 DEF in2

\* The first delivery that the consumer keeps goes to the application.
LEMMA FirstYielded ==
  ASSUME NEW c \in Channels, NEW b \in BrokerSides, NEW in \in Seq(Frames),
         NEW ch \in ChannelImpls, NEW ch2 \in ChannelImpls, Good(c, b, in, ch), NEW d \in Deliveries,
         Kept(ch) = Kept(ch2) \cup {d}, \A e \in Kept(ch2) : d.tag < e.tag,
         ch2.yielded = d.tag, ch2.tags = ch.tags \cup {d},
         ch2.consume = "yielded", ch2.resolved = NoDelivery, Ordered(ch2.messageQueue, Earlier),
         ch.consume \notin {"starting", "ended"},
         ch2.closed = ch.closed, ch2.get = ch.get, ch2.late = ch.late
  PROVE  Good(c, b, in, ch2)
<1>0. /\ Tagged(c, b) /\ OfChannel(c, b, in, ch) /\ Phased(in, ch) /\ InLine(in, ch)
      /\ Owns(b, in, ch)
  BY DEF Good
<1>1. Owned(in, ch2) = Owned(in, ch)
  BY DEF Owned
<1>2. OfChannel(c, b, in, ch2)
  BY <1>0, <1>1 DEF OfChannel
<1>3. Phased(in, ch2)
  BY <1>0 DEF Phased
<1>4. InLine(in, ch2)
  <2>1. \A e \in Kept(ch2), g \in Arriving(in) : e.tag < g.tag
    BY <1>0 DEF InLine
  <2>2. \A e \in Kept(ch2) \cup Arriving(in) : ch2.yielded < e.tag
    BY <1>0 DEF InLine
  <2>3. \A e \in ToSet(ch2.messageQueue) : ch2.resolved.tag < e.tag
    <3>1. ToSet(ch2.messageQueue) \in SUBSET Deliveries
      BY ToSetIsIn DEF ChannelImpls
    <3> QED
      BY <3>1, SomeDelivery
  <2>4. Ordered(in, Before)
    BY <1>0 DEF InLine
  <2> QED
    BY <2>1, <2>2, <2>3, <2>4 DEF InLine
<1>5. Owns(b, in, ch2)
  BY <1>0, <1>1 DEF Owns, Expected, Lost, Unanswered
<1> QED
  BY <1>0, <1>2, <1>3, <1>4, <1>5 DEF Good

\* The loop yields the head of messageQueue.
LEMMA QueueYields ==
  ASSUME NEW c \in Channels, NEW b \in BrokerSides, NEW in \in Seq(Frames),
         NEW ch \in ChannelImpls, Good(c, b, in, ch), ch.consume \in {"started", "yielded"},
         ch.messageQueue # <<>>,
         NEW ch2, ch2 = Yield([ch EXCEPT !.messageQueue = Tail(@)], Head(ch.messageQueue))
  PROVE  ch2 \in ChannelImpls /\ Good(c, b, in, ch2)
<1>1. /\ ch.messageQueue \in Seq(Deliveries) /\ ch.resolved = NoDelivery
      /\ Ordered(ch.messageQueue, Earlier)
  BY DEF ChannelImpls, Good, Phased, InLine
<1>2. PICK d \in Deliveries : d = Head(ch.messageQueue)
  BY <1>1, TailToSet
<1>3. PICK rest \in Seq(Deliveries) : rest = Tail(ch.messageQueue)
  BY <1>1, TailToSet
<1>4. ToSet(ch.messageQueue) = {d} \cup ToSet(rest)
  BY <1>1, <1>2, <1>3, TailToSet
<1>5. Ordered(rest, Earlier) /\ \A e \in ToSet(rest) : d.tag < e.tag
  <2>1. Ordered(rest, Earlier) /\ \A e \in ToSet(rest) : <<d, e>> \in Earlier
    BY <1>1, <1>2, <1>3, OrderedTail
  <2> QED
    BY <2>1 DEF Earlier
<1>6. ch2 = [ch EXCEPT !.messageQueue = rest, !.consume = "yielded", !.yielded = d.tag,
                       !.tags = ch.tags \cup {d}]
  BY <1>2, <1>3 DEF Yield, ChannelImpls
<1>7. ch.tags \cup {d} \in SUBSET Deliveries /\ d.tag \in Nat
  BY DEF ChannelImpls, Deliveries
<1>8. /\ ch2 \in ChannelImpls /\ ch2.messageQueue = rest /\ ch2.resolved = NoDelivery
      /\ ch2.consume = "yielded" /\ ch2.yielded = d.tag /\ ch2.tags = ch.tags \cup {d}
      /\ ch2.closed = ch.closed /\ ch2.get = ch.get /\ ch2.late = ch.late
  BY <1>1, <1>6, <1>7 DEF ChannelImpls
<1>9. Kept(ch) = Kept(ch2) \cup {d} /\ \A e \in Kept(ch2) : d.tag < e.tag
  BY <1>1, <1>4, <1>5, <1>8 DEF Kept
<1> QED
  BY <1>5, <1>8, <1>9, FirstYielded

\* The loop yields what the resolver was called with.
LEMMA ResolverYields ==
  ASSUME NEW c \in Channels, NEW b \in BrokerSides, NEW in \in Seq(Frames),
         NEW ch \in ChannelImpls, Good(c, b, in, ch), ch.consume = "resolved",
         ch.resolved # NoDelivery,
         NEW ch2, ch2 = Yield([ch EXCEPT !.resolved = NoDelivery], ch.resolved)
  PROVE  ch2 \in ChannelImpls /\ Good(c, b, in, ch2)
<1>1. /\ ch.messageQueue \in Seq(Deliveries) /\ ch.resolved \in Deliveries
      /\ Ordered(ch.messageQueue, Earlier)
      /\ \A e \in ToSet(ch.messageQueue) : ch.resolved.tag < e.tag
  BY DEF ChannelImpls, Good, InLine
<1>2. PICK d \in Deliveries : d = ch.resolved
  BY <1>1
<1>3. ch2 = [ch EXCEPT !.resolved = NoDelivery, !.consume = "yielded", !.yielded = d.tag,
                       !.tags = ch.tags \cup {d}]
  BY <1>2 DEF Yield, ChannelImpls
<1>4. ch.tags \cup {d} \in SUBSET Deliveries /\ d.tag \in Nat
  BY DEF ChannelImpls, Deliveries
<1>5. /\ ch2 \in ChannelImpls /\ ch2.messageQueue = ch.messageQueue /\ ch2.resolved = NoDelivery
      /\ ch2.consume = "yielded" /\ ch2.yielded = d.tag /\ ch2.tags = ch.tags \cup {d}
      /\ ch2.closed = ch.closed /\ ch2.get = ch.get /\ ch2.late = ch.late
  BY <1>3, <1>4 DEF ChannelImpls
<1>6. Kept(ch) = Kept(ch2) \cup {d} /\ \A e \in Kept(ch2) : d.tag < e.tag
  BY <1>1, <1>2, <1>5, SomeDelivery DEF Kept
<1> QED
  BY <1>1, <1>5, <1>6, FirstYielded

\* A frame without a delivery changes where the generator and the get() are.
LEMMA NothingReceived ==
  ASSUME NEW c \in Channels, NEW b \in BrokerSides, NEW in \in Seq(Frames),
         NEW ch \in ChannelImpls, NEW ch2 \in ChannelImpls, Good(c, b, in, ch),
         in # <<>>, NEW f, f = Head(in), ch.closed \/ ~Carries(f),
         ch2.messageQueue = ch.messageQueue, ch2.resolved = ch.resolved,
         ch2.yielded = ch.yielded, ch2.tags = ch.tags, ch2.closed = ch.closed, ch2.late = ch.late,
         ch2.get = ch.get \/ (ch2.get = "idle" /\ f.frame \in {"get-empty", "closed"}),
         \/ ch2.consume = ch.consume
         \/ ch.consume = "waiting" /\ ch2.consume = "resolved" /\ f.frame # "consume-ok"
         \/ ch2.consume = "started" /\ f.frame = "consume-ok"
         \/ ch.consume \in {"starting", "cancelling"} /\ ch2.consume = "ended"
  PROVE  Good(c, b, Tail(in), ch2)
<1> DEFINE in2 == Tail(in)
<1>0. Phased(in, ch) /\ Owns(b, in, ch) /\ Ordered(in, Before)
  BY DEF Good, InLine
<1>1. /\ in2 \in Seq(Frames) /\ Ordered(in2, Before) /\ ToSet(in) = {f} \cup ToSet(in2)
      /\ f.frame \in Answers => \A g \in ToSet(in2) : g.frame \notin Answers
      /\ f.frame = "consume-ok" => \A g \in ToSet(in2) : g.frame # "consume-ok"
  BY <1>0, HeadLeaves
<1>2. Arriving(in2) \subseteq Arriving(in) /\ (~Carries(f) => Arriving(in2) = Arriving(in))
  BY <1>0, HeadLeaves
<1> HIDE DEF in2
<1>3. Phased(in2, ch2)
  <2>1. \A g \in ToSet(in2) : g.frame = "consume-ok" => ch.consume \in {"starting", "ended"}
    BY <1>0, <1>1 DEF Phased
  <2>2. CASE ch2.consume = "started" /\ f.frame = "consume-ok"
    <3>1. ch.consume \in {"starting", "ended"}
      BY <1>0, <1>1, <2>2 DEF Phased
    <3> QED
      BY <1>0, <1>1, <2>2, <3>1 DEF Phased
  <2>3. CASE ~(ch2.consume = "started" /\ f.frame = "consume-ok")
    BY <1>0, <2>1, <2>3 DEF Phased
  <2> QED
    BY <2>2, <2>3
<1>4. b.open /\ ~ch2.closed =>
        /\ b.open /\ ~ch.closed /\ Arriving(in2) = Arriving(in) /\ Expected(in2, ch2)
        /\ ch.late + Unanswered(ch2) <= ch2.late + Unanswered(ch)
  <2> SUFFICES ASSUME b.open, ~ch2.closed
               PROVE  /\ b.open /\ ~ch.closed /\ Arriving(in2) = Arriving(in) /\ Expected(in2, ch2)
                      /\ ch.late + Unanswered(ch2) <= ch2.late + Unanswered(ch)
    OBVIOUS
  <2>1. Expected(in, ch)
    BY <1>0 DEF Owns
  <2>2. f.frame # "closed" /\ \A g \in ToSet(in2) : g.frame # "closed"
    BY <1>1, <2>1 DEF Expected
  <2>3. Expected(in2, ch2)
    <3>1. CASE ch2.get = ch.get
      BY <1>1, <2>1, <3>1 DEF Expected
    <3>2. CASE f.frame = "get-empty"
      BY <1>1, <2>2, <3>2 DEF Expected, Answers
    <3> QED
      BY <2>2, <3>1, <3>2
  <2>4. ch.late \in Nat /\ Unanswered(ch2) \in Nat /\ Unanswered(ch) \in Nat
    BY DEF Unanswered, ChannelImpls
  <2>5. Unanswered(ch2) <= Unanswered(ch)
    <3>1. CASE ch2.get = ch.get
      BY <2>4, <3>1 DEF Unanswered
    <3>2. CASE ch2.get = "idle"
      BY <2>4, <3>2 DEF Unanswered
    <3> QED
      BY <3>1, <3>2
  <2> QED
    BY <1>2, <2>3, <2>4, <2>5
<1>5. Good(c, b, in2, ch2)
  BY <1>1, <1>2, <1>3, <1>4, NothingMoves
<1> QED
  BY <1>5 DEF in2

\* Any frame that the channel receives keeps what is true of it.
LEMMA FrameReceived ==
  ASSUME NEW c \in Channels, NEW b \in BrokerSides, NEW in \in Seq(Frames),
         NEW ch \in ChannelImpls, Good(c, b, in, ch), in # <<>>
  PROVE  /\ Received(ch, Head(in)) \in ChannelImpls
         /\ Good(c, b, Tail(in), Received(ch, Head(in)))
<1>1. PICK f \in Frames : f = Head(in)
  BY TailToSet
<1>2. f.frame \in {"closed", "cancel", "consume-ok", "cancel-ok", "get-empty", "deliver", "get-ok"}
  BY DEF Frames
<1>3. CASE ch.closed /\ f.frame # "closed"
  <2>1. Received(ch, f) = ch
    BY <1>3 DEF Received
  <2>2. Good(c, b, Tail(in), ch)
    BY <1>1, <1>3, NothingReceived
  <2> QED
    BY <1>1, <2>1, <2>2
<1>4. CASE ~ch.closed /\ f.frame = "deliver"
  <2>1. Received(ch, f) = Callback(ch, f.delivery)
    BY <1>4 DEF Received
  <2> QED
    BY <1>1, <1>4, <2>1, DeliveryKept
<1>5. CASE ~ch.closed /\ f.frame = "get-ok"
  <2>1. PICK d \in Deliveries : d = f.delivery
    BY <1>5 DEF Frames
  <2>2. PICK tags \in SUBSET Deliveries : tags = IF ch.get = "asking" THEN ch.tags \cup {d} ELSE ch.tags
    BY DEF ChannelImpls
  <2>3. Received(ch, f) = [ch EXCEPT !.get = "idle", !.tags = tags]
    BY <1>5, <2>1, <2>2 DEF Received, ChannelImpls
  <2>4. PICK ch2 \in ChannelImpls :
          /\ ch2 = Received(ch, f)
          /\ ch2.messageQueue = ch.messageQueue /\ ch2.resolved = ch.resolved
          /\ ch2.yielded = ch.yielded /\ ch2.consume = ch.consume /\ ch2.closed = ch.closed
          /\ ch2.late = ch.late /\ ch2.get = "idle" /\ ch2.tags = tags
    BY <2>3 DEF ChannelImpls
  <2>5. Good(c, b, Tail(in), ch2)
    BY <1>1, <1>5, <2>1, <2>2, <2>4, AnswerReceived
  <2> QED
    BY <1>1, <2>4, <2>5
<1>6. CASE /\ ~(ch.closed /\ f.frame # "closed")
           /\ f.frame \in {"closed", "cancel", "consume-ok", "cancel-ok", "get-empty"}
  <2>1. PICK ch2 \in ChannelImpls :
          /\ ch2 = Received(ch, f)
          /\ ch2.messageQueue = ch.messageQueue /\ ch2.resolved = ch.resolved
          /\ ch2.yielded = ch.yielded /\ ch2.tags = ch.tags /\ ch2.closed = ch.closed
          /\ ch2.late = ch.late
          /\ ch2.get = ch.get \/ (ch2.get = "idle" /\ f.frame \in {"get-empty", "closed"})
          /\ \/ ch2.consume = ch.consume
             \/ ch.consume = "waiting" /\ ch2.consume = "resolved" /\ f.frame # "consume-ok"
             \/ ch2.consume = "started" /\ f.frame = "consume-ok"
             \/ ch.consume \in {"starting", "cancelling"} /\ ch2.consume = "ended"
    <3>1. CASE f.frame = "closed"
      <4>1. PICK phase \in {ch.consume, "ended"} :
              phase = IF ch.consume \in {"starting", "cancelling"} THEN "ended" ELSE ch.consume
        OBVIOUS
      <4>2. Received(ch, f) = [ch EXCEPT !.dead = TRUE, !.get = "idle", !.consume = phase]
        BY <3>1, <4>1 DEF Received, ChannelImpls
      <4> QED
        BY <3>1, <4>1, <4>2 DEF ChannelImpls
    <3>2. CASE f.frame = "cancel" /\ ch.consume = "waiting"
      <4>1. ch.resolved = NoDelivery
        BY <3>2 DEF Good, Phased
      <4>2. Received(ch, f) = [ch EXCEPT !.done = TRUE, !.consume = "resolved", !.resolved = NoDelivery]
        BY <1>6, <3>2 DEF Received, Callback, Wake, ChannelImpls
      <4> QED
        BY <3>2, <4>1, <4>2 DEF ChannelImpls
    <3>3. CASE f.frame = "cancel" /\ ch.consume # "waiting"
      <4>1. Received(ch, f) = [ch EXCEPT !.done = TRUE]
        BY <1>6, <3>3 DEF Received, Callback, ChannelImpls
      <4> QED
        BY <3>3, <4>1 DEF ChannelImpls
    <3>4. CASE f.frame = "consume-ok"
      <4>1. Received(ch, f) = [ch EXCEPT !.consume = "started"]
        BY <1>6, <3>4 DEF Received
      <4> QED
        BY <3>4, <4>1 DEF ChannelImpls
    <3>5. CASE f.frame = "get-empty"
      <4>1. Received(ch, f) = [ch EXCEPT !.get = "idle"]
        BY <1>6, <3>5 DEF Received
      <4> QED
        BY <3>5, <4>1 DEF ChannelImpls
    <3>6. CASE f.frame = "cancel-ok"
      <4>1. PICK phase \in {ch.consume, "ended"} :
              phase = IF ch.consume = "cancelling" THEN "ended" ELSE ch.consume
        OBVIOUS
      <4>2. Received(ch, f) = [ch EXCEPT !.consume = phase]
        BY <1>6, <3>6, <4>1 DEF Received, ChannelImpls
      <4> QED
        BY <3>6, <4>1, <4>2 DEF ChannelImpls
    <3> QED
      BY <1>6, <3>1, <3>2, <3>3, <3>4, <3>5, <3>6
  <2>2. ~Carries(f)
    BY <1>6 DEF Carries
  <2>3. Good(c, b, Tail(in), ch2)
    BY <1>1, <2>1, <2>2, NothingReceived
  <2> QED
    BY <1>1, <2>1, <2>3
<1> QED
  BY <1>2, <1>3, <1>4, <1>5, <1>6

-----------------------------------------------------------------------------
\* The steps of the channels

\* A message is settled, or the broker still has it.
Survives(m, settled, queued, unsettled) ==
  m \in settled \/ m \in ToSet(queued) \/ \E d \in unsettled : d.msg = m

\* A step of one channel leaves the others as they are.
LEMMA OneChannelMoves ==
  ASSUME ChInv, NEW c \in Channels, NEW b2 \in BrokerSides, NEW in2 \in Seq(Frames),
         NEW ch2 \in ChannelImpls, Good(c, b2, in2, ch2),
         NEW ready2 \in Seq(Messages), NEW released2 \in SUBSET Messages,
         \A m \in released : m \in released2,
         \A m \in ToSet(ready) : Survives(m, released2, ready2, b2.unsettled),
         \A d \in broker[c].unsettled : Survives(d.msg, released2, ready2, b2.unsettled),
         ready' = ready2, released' = released2, broker' = [broker EXCEPT ![c] = b2],
         inbox' = [inbox EXCEPT ![c] = in2], channel' = [channel EXCEPT ![c] = ch2]
  PROVE  ChInv'
<1>1. ChannelTypeOK'
  BY DEF ChInv, ChannelTypeOK
<1>2. /\ broker'[c] = b2 /\ inbox'[c] = in2 /\ channel'[c] = ch2
      /\ \A e \in Channels \ {c} :
           broker'[e] = broker[e] /\ inbox'[e] = inbox[e] /\ channel'[e] = channel[e]
  BY DEF ChInv, ChannelTypeOK
<1>3. \A e \in Channels : Good(e, broker'[e], inbox'[e], channel'[e])
  <2> TAKE e \in Channels
  <2>1. CASE e = c
    BY <1>2, <2>1
  <2>2. CASE e # c
    BY <1>2, <2>2 DEF ChInv, AllGood
  <2> QED
    BY <2>1, <2>2
<1>4. \A m \in Messages :
        m \in released2 \/ m \in ToSet(ready2) \/ \E e \in Channels : \E d \in broker'[e].unsettled : d.msg = m
  <2> TAKE m \in Messages
  <2>1. Survives(m, released2, ready2, b2.unsettled) => m \in released2 \/ m \in ToSet(ready2)
          \/ \E d \in broker'[c].unsettled : d.msg = m
    BY <1>2 DEF Survives
  <2>2. m \in released \/ m \in ToSet(ready) \/ \E e \in Channels : \E d \in broker[e].unsettled : d.msg = m
    BY DEF ChInv, OnlySettledMessagesVanish, Unsettled
  <2>3. CASE m \in released \/ m \in ToSet(ready)
    BY <2>1, <2>3
  <2>4. ASSUME NEW e \in Channels, NEW d \in broker[e].unsettled, d.msg = m
        PROVE  m \in released2 \/ m \in ToSet(ready2) \/ \E x \in Channels : \E y \in broker'[x].unsettled : y.msg = m
    <3>1. CASE e = c
      BY <2>1, <2>4, <3>1
    <3>2. CASE e # c
      BY <1>2, <2>4, <3>2
    <3> QED
      BY <3>1, <3>2
  <2> QED
    BY <2>2, <2>3, <2>4
<1>5. OnlySettledMessagesVanish'
  BY <1>4 DEF OnlySettledMessagesVanish, Unsettled
<1> QED
  BY <1>1, <1>3, <1>5 DEF ChInv, AllGood

\* What the invariant says of one channel.
LEMMA OneChannel ==
  ASSUME ChInv, NEW c \in Channels
  PROVE  /\ broker[c] \in BrokerSides /\ inbox[c] \in Seq(Frames) /\ channel[c] \in ChannelImpls
         /\ Good(c, broker[c], inbox[c], channel[c])
         /\ ready \in Seq(Messages) /\ released \in SUBSET Messages
         /\ broker = [broker EXCEPT ![c] = broker[c]] /\ inbox = [inbox EXCEPT ![c] = inbox[c]]
         /\ channel = [channel EXCEPT ![c] = channel[c]]
BY DEF ChInv, ChannelTypeOK, AllGood

\* The client alone moves, or what is on its way to it.
LEMMA ClientMoves ==
  ASSUME ChInv, NEW c \in Channels, NEW b2 \in BrokerSides, b2.unsettled = broker[c].unsettled,
         NEW in2 \in Seq(Frames), NEW ch2 \in ChannelImpls, Good(c, b2, in2, ch2),
         broker' = [broker EXCEPT ![c] = b2], inbox' = [inbox EXCEPT ![c] = in2],
         channel' = [channel EXCEPT ![c] = ch2], UNCHANGED <<ready, released>>
  PROVE  ChInv'
<1>1. ready \in Seq(Messages) /\ released \in SUBSET Messages
  BY OneChannel
<1>2. /\ \A m \in ToSet(ready) : Survives(m, released, ready, b2.unsettled)
      /\ \A d \in broker[c].unsettled : Survives(d.msg, released, ready, b2.unsettled)
  BY DEF Survives
<1>3. ready' = ready /\ released' = released
  OBVIOUS
<1> QED
  BY <1>1, <1>2, <1>3, OneChannelMoves

\* A closed channel gives all its messages back.
LEMMA GivesBack ==
  ASSUME ChInv, NEW c \in Channels, NEW ch2, ch2 \in {channel[c], [channel[c] EXCEPT !.closed = TRUE]},
         BrokerCloses(c), channel' = [channel EXCEPT ![c] = ch2],
         NEW released2 \in SUBSET Messages, released \subseteq released2, released' = released2
  PROVE  ChInv'
<1> DEFINE f == [frame |-> "closed"]
<1>1. PICK b \in BrokerSides, in \in Seq(Frames), ch \in ChannelImpls :
        b = broker[c] /\ in = inbox[c] /\ ch = channel[c] /\ Good(c, b, in, ch)
  BY OneChannel
<1>2. PICK b2 \in BrokerSides :
        /\ b2 = [b EXCEPT !.open = FALSE, !.consumer = "none", !.unsettled = {}]
        /\ b2.lastTag = b.lastTag /\ b2.unsettled = {} /\ ~b2.open
  <2>1. [b EXCEPT !.open = FALSE, !.consumer = "none", !.unsettled = {}] \in BrokerSides
    BY DEF BrokerSides
  <2> QED
    BY <2>1 DEF BrokerSides
<1>3. f \in Frames /\ ~Carries(f) /\ f.frame \notin Answers /\ f.frame # "consume-ok"
  BY DEF Frames, Carries, Answers
<1>4. Ordered(in, Before) /\ Phased(in, ch)
  BY <1>1 DEF Good, InLine
<1>5. PICK in2 \in Seq(Frames) :
        /\ in2 = Append(in, f) /\ Ordered(in2, Before) /\ ToSet(in2) = ToSet(in) \cup {f}
        /\ Arriving(in2) = Arriving(in)
  BY <1>3, <1>4, FrameComes
<1>6. PICK c2 \in ChannelImpls :
        /\ c2 = ch2 /\ c2.messageQueue = ch.messageQueue /\ c2.resolved = ch.resolved
        /\ c2.yielded = ch.yielded /\ c2.tags = ch.tags /\ c2.consume = ch.consume
  BY <1>1 DEF ChannelImpls
<1>7. Phased(in2, c2)
  BY <1>3, <1>4, <1>5, <1>6 DEF Phased
<1>8. Good(c, b2, in2, c2)
  <2>1. b2.open /\ ~c2.closed =>
          /\ b.open /\ ~ch.closed /\ Arriving(in2) = Arriving(in) /\ Expected(in2, c2)
          /\ ch.late + Unanswered(c2) <= c2.late + Unanswered(ch)
    BY <1>2
  <2>2. b2.unsettled \subseteq b.unsettled /\ Arriving(in2) \subseteq Arriving(in)
    BY <1>2, <1>5
  <2>3. /\ Good(c, b, in, ch) /\ b2.lastTag = b.lastTag /\ Ordered(in2, Before)
        /\ c2.messageQueue = ch.messageQueue /\ c2.resolved = ch.resolved
        /\ c2.yielded = ch.yielded /\ c2.tags = ch.tags
    BY <1>1, <1>2, <1>5, <1>6
  <2> QED
    BY <1>7, <2>1, <2>2, <2>3, NothingMoves
<1>9. PICK back \in Seq(Messages) :
        back = InOrder(b.unsettled) /\ \A d \in b.unsettled : d.msg \in ToSet(back)
  <2>1. b.unsettled \in SUBSET Deliveries
    BY DEF BrokerSides
  <2>2. IsFiniteSet(b.unsettled) /\ \A d, e \in b.unsettled : d.tag = e.tag => d = e
    BY <1>1 DEF Good, Tagged
  <2> QED
    BY <2>1, <2>2, InOrderHasAll
<1>10. ready \in Seq(Messages)
  BY OneChannel
<1>11. PICK ready2 \in Seq(Messages) :
         ready2 = back \o ready /\ ToSet(ready2) = ToSet(back) \cup ToSet(ready)
  BY <1>10, ConcatToSet
<1>12. ready' = ready2 /\ broker' = [broker EXCEPT ![c] = b2] /\ inbox' = [inbox EXCEPT ![c] = in2]
  BY <1>1, <1>2, <1>5, <1>9, <1>11 DEF BrokerCloses, Frame
<1>13. /\ \A m \in ToSet(ready) : Survives(m, released2, ready2, b2.unsettled)
       /\ \A d \in broker[c].unsettled : Survives(d.msg, released2, ready2, b2.unsettled)
  BY <1>1, <1>9, <1>11 DEF Survives
<1>14. channel' = [channel EXCEPT ![c] = c2]
  BY <1>6
<1> HIDE DEF f
<1> QED
  BY <1>8, <1>12, <1>13, <1>14, OneChannelMoves

\* The head of the broker's queue goes to a channel.
LEMMA DeliverySent ==
  ASSUME ChInv, NEW c \in Channels, NEW frame \in {"deliver", "get-ok"}, NEW acks \in BOOLEAN,
         Deliver(c, frame, acks), NEW ch2, channel' = [channel EXCEPT ![c] = ch2],
         IF frame = "deliver" THEN ch2 = channel[c]
         ELSE /\ channel[c].get = "idle" /\ broker[c].open /\ ~channel[c].closed
              /\ ch2 = [channel[c] EXCEPT !.get = "asking"]
  PROVE  ChInv'
<1>1. PICK b \in BrokerSides, in \in Seq(Frames), ch \in ChannelImpls :
        b = broker[c] /\ in = inbox[c] /\ ch = channel[c] /\ Good(c, b, in, ch)
  BY OneChannel
<1>2. ready \in Seq(Messages) /\ released \in SUBSET Messages /\ ready # <<>>
  <2>1. ready # <<>>
    BY DEF Deliver
  <2> QED
    BY <2>1, OneChannel
<1>3. PICK msg \in Messages, ready2 \in Seq(Messages) :
        msg = Head(ready) /\ ready2 = Tail(ready) /\ ToSet(ready) = {msg} \cup ToSet(ready2)
  <2>1. Head(ready) \in Messages /\ Tail(ready) \in Seq(Messages) /\ ToSet(ready) = {Head(ready)} \cup ToSet(Tail(ready))
    BY <1>2, TailToSet
  <2> QED
    BY <2>1
<1>4. PICK d \in Deliveries :
        /\ d = Delivery(c, b.lastTag + 1, msg)
        /\ d.on = c /\ d.tag = b.lastTag + 1 /\ d.msg = msg
  <2>1. Delivery(c, b.lastTag + 1, msg) \in Deliveries
    BY DEF Delivery, Deliveries, BrokerSides
  <2> QED
    BY <2>1 DEF Delivery
<1>5. PICK f \in [frame : {"deliver", "get-ok"}, delivery : {d}] :
        f = [frame |-> frame, delivery |-> d] /\ f.frame = frame
  <2>1. [frame |-> frame, delivery |-> d] \in [frame : {"deliver", "get-ok"}, delivery : {d}]
    OBVIOUS
  <2> QED
    BY <2>1
<1>6. PICK unsettled \in {b.unsettled, b.unsettled \cup {d}} :
        unsettled = IF acks THEN b.unsettled \cup {d} ELSE b.unsettled
  OBVIOUS
<1>7. PICK b2 \in BrokerSides :
        /\ b2 = [b EXCEPT !.lastTag = @ + 1, !.unsettled = unsettled]
        /\ b2.lastTag = b.lastTag + 1 /\ b2.unsettled = unsettled /\ b2.open = b.open
  <2>1. unsettled \in SUBSET Deliveries
    BY DEF BrokerSides
  <2>2. PICK b2 : b2 = [b EXCEPT !.lastTag = @ + 1, !.unsettled = unsettled]
    OBVIOUS
  <2>3. b2 = [open |-> b.open, consumer |-> b.consumer, unsettled |-> unsettled,
              lastTag |-> b.lastTag + 1]
    BY <2>2 DEF BrokerSides
  <2>4. b2 \in BrokerSides /\ b2.lastTag = b.lastTag + 1 /\ b2.unsettled = unsettled /\ b2.open = b.open
    BY <2>1, <2>3 DEF BrokerSides
  <2> QED
    BY <2>2, <2>4
<1>8. PICK c2 \in ChannelImpls :
        /\ c2 = ch2 /\ c2.messageQueue = ch.messageQueue /\ c2.resolved = ch.resolved
        /\ c2.yielded = ch.yielded /\ c2.tags = ch.tags /\ c2.consume = ch.consume
        /\ c2.closed = ch.closed /\ c2.late = ch.late
        /\ f.frame = "deliver" => c2 = ch
        /\ f.frame = "get-ok" => ch.get = "idle" /\ c2.get = "asking" /\ b.open /\ ~ch.closed
  <2>1. CASE frame = "deliver"
    BY <1>1, <1>5, <2>1
  <2>2. CASE frame # "deliver"
    <3>1. ch2 = [ch EXCEPT !.get = "asking"] /\ ch.get = "idle" /\ b.open /\ ~ch.closed
      BY <1>1, <2>2
    <3>2. PICK c2 \in ChannelImpls : c2 = ch2
      BY <3>1 DEF ChannelImpls
    <3>3. /\ c2.messageQueue = ch.messageQueue /\ c2.resolved = ch.resolved
          /\ c2.yielded = ch.yielded /\ c2.tags = ch.tags /\ c2.consume = ch.consume
          /\ c2.closed = ch.closed /\ c2.late = ch.late /\ c2.get = "asking"
      BY <3>1, <3>2 DEF ChannelImpls
    <3> QED
      BY <1>5, <2>2, <3>1, <3>2, <3>3
  <2> QED
    BY <2>1, <2>2
<1>9. Append(in, f) \in Seq(Frames) /\ Good(c, b2, Append(in, f), c2)
  <2>1. Good(c, b, in, ch) /\ d.on = c /\ d.tag = b.lastTag + 1
    BY <1>1, <1>4
  <2>2. b2.lastTag = b.lastTag + 1 /\ b2.unsettled = unsettled /\ b2.open = b.open
    BY <1>7
  <2> QED
    BY <1>8, <2>1, <2>2, DeliveryArrives
<1>10. PICK released2 \in SUBSET Messages :
         released2 = IF acks THEN released ELSE released \cup {msg}
  BY <1>2
<1>11. b2.unsettled = unsettled /\ b2.lastTag = b.lastTag + 1
  BY <1>7 DEF BrokerSides
<1>12. Deliver(c, frame, acks) =
         LET e == Delivery(c, b.lastTag + 1, msg) IN
         /\ ready # <<>> /\ b.lastTag < MaxTag[c] /\ ready' = ready2
         /\ broker' = [broker EXCEPT ![c].lastTag = @ + 1,
                                     ![c].unsettled = IF acks THEN @ \cup {e} ELSE @]
         /\ inbox' = [inbox EXCEPT ![c] = Append(@, [frame |-> frame, delivery |-> e])]
         /\ released' = IF acks THEN released ELSE released \cup {e.msg}
  BY <1>1, <1>3 DEF Deliver, Frame
<1>13. ready' = ready2 /\ released' = released2
  BY <1>4, <1>10, <1>12
<1>14. inbox' = [inbox EXCEPT ![c] = Append(in, f)]
  BY <1>1, <1>4, <1>5, <1>12
<1>15. broker' = [broker EXCEPT ![c] = b2]
  <2>1. broker' = [broker EXCEPT ![c].lastTag = @ + 1,
                                 ![c].unsettled = IF acks THEN @ \cup {d} ELSE @]
    BY <1>4, <1>12
  <2>2. b2 = [b EXCEPT !.lastTag = @ + 1, !.unsettled = IF acks THEN @ \cup {d} ELSE @]
    BY <1>6, <1>7 DEF BrokerSides
  <2>3. broker \in [Channels -> BrokerSides]
    BY DEF ChInv, ChannelTypeOK
  <2> QED
    BY <1>1, <2>1, <2>2, <2>3 DEF BrokerSides
<1>16. \A m \in ToSet(ready) : Survives(m, released2, ready2, b2.unsettled)
  BY <1>3, <1>4, <1>6, <1>10, <1>11 DEF Survives
<1>17. \A e \in broker[c].unsettled : Survives(e.msg, released2, ready2, b2.unsettled)
  BY <1>1, <1>6, <1>11 DEF Survives
<1>18. \A m \in released : m \in released2
  BY <1>10
<1> QED
  BY <1>8, <1>9, <1>13, <1>14, <1>15, <1>16, <1>17, <1>18, OneChannelMoves

\* A tag that the broker knows: what it covers is settled, or is ready again.
LEMMA TagSettled ==
  ASSUME ChInv, NEW c \in Channels, NEW settled \in SUBSET broker[c].unsettled,
         NEW requeue \in BOOLEAN,
         broker' = [broker EXCEPT ![c].unsettled = @ \ settled],
         ready' = IF requeue THEN InOrder(settled) \o ready ELSE ready,
         NEW released2 \in SUBSET Messages, released \subseteq released2, released' = released2,
         ~requeue => \A d \in settled : d.msg \in released2,
         UNCHANGED <<inbox, channel>>
  PROVE  ChInv'
<1>1. PICK b \in BrokerSides, in \in Seq(Frames), ch \in ChannelImpls :
        b = broker[c] /\ in = inbox[c] /\ ch = channel[c] /\ Good(c, b, in, ch)
  BY OneChannel
<1>2. ready \in Seq(Messages)
  BY OneChannel
<1>3. PICK back \in Seq(Messages) :
        back = InOrder(settled) /\ \A d \in settled : d.msg \in ToSet(back)
  <2>1. settled \in SUBSET Deliveries
    BY <1>1 DEF BrokerSides
  <2>2. IsFiniteSet(settled) /\ \A d, e \in settled : d.tag = e.tag => d = e
    BY <1>1, FS_Subset DEF Good, Tagged
  <2> QED
    BY <2>1, <2>2, InOrderHasAll
<1>4. PICK ready2 \in Seq(Messages) :
        /\ ready2 = IF requeue THEN back \o ready ELSE ready
        /\ ToSet(ready2) = IF requeue THEN ToSet(back) \cup ToSet(ready) ELSE ToSet(ready)
  <2>1. back \o ready \in Seq(Messages) /\ ToSet(back \o ready) = ToSet(back) \cup ToSet(ready)
    BY <1>2, ConcatToSet
  <2> QED
    BY <1>2, <2>1
<1>5. PICK b2 \in BrokerSides :
        /\ b2 = [b EXCEPT !.unsettled = @ \ settled]
        /\ b2.lastTag = b.lastTag /\ b2.unsettled = b.unsettled \ settled /\ b2.open = b.open
  <2>1. [b EXCEPT !.unsettled = @ \ settled] \in BrokerSides
    BY DEF BrokerSides
  <2> QED
    BY <2>1 DEF BrokerSides
<1>6. Good(c, b2, in, ch)
  <2>1. Ordered(in, Before) /\ Phased(in, ch)
    BY <1>1 DEF Good, InLine
  <2>2. b2.open /\ ~ch.closed =>
          /\ b.open /\ ~ch.closed /\ Arriving(in) = Arriving(in) /\ Expected(in, ch)
          /\ ch.late + Unanswered(ch) <= ch.late + Unanswered(ch)
    <3>1. b2.open /\ ~ch.closed => Expected(in, ch)
      BY <1>1, <1>5 DEF Good, Owns
    <3>2. ch.late \in Nat /\ Unanswered(ch) \in Nat
      BY DEF ChannelImpls, Unanswered
    <3> QED
      BY <1>5, <3>1, <3>2
  <2>3. b2.unsettled \subseteq b.unsettled /\ Arriving(in) \subseteq Arriving(in) /\ b2.lastTag = b.lastTag
    BY <1>5
  <2> QED
    BY <1>1, <2>1, <2>2, <2>3, NothingMoves
<1>7. broker' = [broker EXCEPT ![c] = b2]
  BY <1>1, <1>5 DEF BrokerSides
<1>8. ready' = ready2 /\ inbox' = [inbox EXCEPT ![c] = in] /\ channel' = [channel EXCEPT ![c] = ch]
  BY <1>1, <1>3, <1>4, OneChannel
<1>9. \A m \in ToSet(ready) : Survives(m, released2, ready2, b2.unsettled)
  BY <1>4 DEF Survives
<1>10. \A d \in broker[c].unsettled : Survives(d.msg, released2, ready2, b2.unsettled)
  BY <1>1, <1>3, <1>4, <1>5 DEF Survives
<1> QED
  BY <1>6, <1>7, <1>8, <1>9, <1>10, OneChannelMoves

\* Sums of the count of the get() that have given up.
LEMMA OneMore ==
  ASSUME NEW l \in Nat
  PROVE  /\ l + 1 \in Nat /\ l + 0 <= (l + 1) + 0 /\ l + 1 <= (l + 1) + 0
         /\ l + 0 <= (l + 1) + 1 /\ l + 1 <= (l + 1) + 1
OBVIOUS

\* What a step that takes no delivery from a channel has to keep
LEMMA ChannelStays ==
  ASSUME NEW c, NEW b \in BrokerSides, NEW b2 \in BrokerSides, NEW in, NEW in2,
         NEW ch \in ChannelImpls, NEW ch2 \in ChannelImpls, Good(c, b, in, ch),
         b2.lastTag = b.lastTag, b2.unsettled = b.unsettled, b2.open = b.open,
         Ordered(in2, Before), Arriving(in2) = Arriving(in),
         ch2.messageQueue = ch.messageQueue, ch2.resolved = ch.resolved, ch2.closed = ch.closed,
         ch2.yielded = ch.yielded, ch2.tags = ch.tags, Phased(in2, ch2),
         b.open /\ ~ch.closed => Expected(in2, ch2),
         \/ ch2.get = ch.get /\ ch2.late = ch.late
         \/ ch2.get = "asking" /\ ch2.late = ch.late
         \/ ch2.get = "gave up" /\ ch2.late = ch.late + 1
  PROVE  Good(c, b2, in2, ch2)
<1>1. ch.late \in Nat /\ Unanswered(ch) \in {0, 1} /\ Unanswered(ch2) \in {0, 1}
  BY DEF ChannelImpls, Unanswered
<1>2. ch.late + Unanswered(ch2) <= ch2.late + Unanswered(ch)
  <2>1. CASE ch2.get = ch.get /\ ch2.late = ch.late
    <3>1. Unanswered(ch2) = Unanswered(ch)
      BY <2>1 DEF Unanswered
    <3> QED
      BY <1>1, <2>1, <3>1
  <2>2. CASE ch2.get = "asking" /\ ch2.late = ch.late
    <3>1. Unanswered(ch2) = 0
      BY <2>2 DEF Unanswered
    <3> QED
      BY <1>1, <2>2, <3>1
  <2>3. CASE ch2.get = "gave up" /\ ch2.late = ch.late + 1
    <3>1. PICK l \in Nat : l = ch.late
      BY <1>1
    <3>2. l + 0 <= (l + 1) + 0 /\ l + 1 <= (l + 1) + 0 /\ l + 0 <= (l + 1) + 1 /\ l + 1 <= (l + 1) + 1
      BY OneMore
    <3>3. Unanswered(ch) = 0 \/ Unanswered(ch) = 1
      BY <1>1
    <3>4. Unanswered(ch2) = 0 \/ Unanswered(ch2) = 1
      BY <1>1
    <3> QED
      BY <2>3, <3>1, <3>2, <3>3, <3>4
  <2> QED
    BY <2>1, <2>2, <2>3
<1>3. b2.open /\ ~ch2.closed =>
        /\ b.open /\ ~ch.closed /\ Arriving(in2) = Arriving(in) /\ Expected(in2, ch2)
        /\ ch.late + Unanswered(ch2) <= ch2.late + Unanswered(ch)
  BY <1>2
<1> QED
  BY <1>3, NothingMoves

(***************************************************************************)
(* The loop of consume() ends: its consumer is cancelled, if the channel   *)
(* is open on both sides, and the answer is on its way.                    *)
(***************************************************************************)
LEMMA ConsumerEnds ==
  ASSUME ChInv, NEW c \in Channels, channel[c].resolved = NoDelivery,
         channel[c].consume \notin {"starting", "ended"}, Finally(c), UNCHANGED released
  PROVE  ChInv'
<1> DEFINE f == [frame |-> "cancel-ok"]
<1>1. PICK b \in BrokerSides, in \in Seq(Frames), ch \in ChannelImpls :
        b = broker[c] /\ in = inbox[c] /\ ch = channel[c] /\ Good(c, b, in, ch)
  BY OneChannel
<1>2. PICK phase \in {"cancelling", "ended"} : channel' = [channel EXCEPT ![c].consume = phase]
  BY DEF Finally
<1>3. PICK ch2 \in ChannelImpls :
        /\ ch2 = [ch EXCEPT !.consume = phase] /\ ch2.consume = phase
        /\ ch2.messageQueue = ch.messageQueue /\ ch2.resolved = ch.resolved
        /\ ch2.closed = ch.closed /\ ch2.yielded = ch.yielded /\ ch2.tags = ch.tags
        /\ ch2.get = ch.get /\ ch2.late = ch.late
  <2>1. [ch EXCEPT !.consume = phase] \in ChannelImpls
    BY DEF ChannelImpls
  <2> QED
    BY <2>1 DEF ChannelImpls
<1>4. channel' = [channel EXCEPT ![c] = ch2]
  BY <1>1, <1>2, <1>3
<1>5. /\ Ordered(in, Before) /\ ch.resolved = NoDelivery
      /\ \A g \in ToSet(in) : g.frame # "consume-ok"
      /\ b.open /\ ~ch.closed => Expected(in, ch)
  BY <1>1 DEF Good, Phased, InLine, Owns
<1>6. f \in Frames /\ ~Carries(f) /\ f.frame = "cancel-ok" /\ f.frame \notin Answers
  BY DEF Frames, Carries, Answers
<1>7. PICK in2 \in Seq(Frames) :
        /\ in2 = Append(in, f) /\ Ordered(in2, Before) /\ ToSet(in2) = ToSet(in) \cup {f}
        /\ Arriving(in2) = Arriving(in)
  <2>1. Ordered(in, Before) /\ f.frame # "consume-ok"
    BY <1>5, <1>6
  <2>2. f \in Frames /\ ~Carries(f) /\ f.frame \notin Answers
    BY <1>6
  <2> HIDE DEF f
  <2>3. /\ Append(in, f) \in Seq(Frames) /\ Ordered(Append(in, f), Before)
        /\ ToSet(Append(in, f)) = ToSet(in) \cup {f}
        /\ Arriving(Append(in, f)) = Arriving(in)
    BY <2>1, <2>2, FrameComes
  <2> QED
    BY <2>3
<1>8. /\ ready' = ready /\ released' = released
      /\ \/ /\ broker' = [broker EXCEPT ![c].consumer = "none"]
            /\ inbox' = [inbox EXCEPT ![c] = Append(@, f)]
         \/ UNCHANGED <<broker, inbox>>
  BY DEF Finally, Reaches, Frame
<1>9. /\ ch2.messageQueue = ch.messageQueue /\ ch2.resolved = ch.resolved
      /\ ch2.closed = ch.closed /\ ch2.yielded = ch.yielded /\ ch2.tags = ch.tags
      /\ ch2.get = ch.get /\ ch2.late = ch.late /\ Good(c, b, in, ch)
  BY <1>1, <1>3
<1>10. CASE /\ broker' = [broker EXCEPT ![c].consumer = "none"]
            /\ inbox' = [inbox EXCEPT ![c] = Append(@, f)]
  <2>1. PICK b2 \in BrokerSides :
          /\ b2 = [b EXCEPT !.consumer = "none"]
          /\ b2.lastTag = b.lastTag /\ b2.unsettled = b.unsettled /\ b2.open = b.open
    <3>1. [b EXCEPT !.consumer = "none"] \in BrokerSides
      BY DEF BrokerSides
    <3> QED
      BY <3>1 DEF BrokerSides
  <2>2. broker' = [broker EXCEPT ![c] = b2] /\ inbox' = [inbox EXCEPT ![c] = in2]
    BY <1>1, <1>7, <1>10, <2>1 DEF BrokerSides
  <2> HIDE DEF f
  <2>3. Phased(in2, ch2)
    BY <1>3, <1>5, <1>6, <1>7 DEF Phased
  <2>4. b.open /\ ~ch.closed => Expected(in2, ch2)
    BY <1>3, <1>5, <1>6, <1>7 DEF Expected
  <2>5. /\ b2.lastTag = b.lastTag /\ b2.unsettled = b.unsettled /\ b2.open = b.open
        /\ Ordered(in2, Before) /\ Arriving(in2) = Arriving(in)
    BY <1>7, <2>1
  <2>6. Good(c, b2, in2, ch2)
    BY <1>9, <2>3, <2>4, <2>5, ChannelStays
  <2>7. b2.unsettled = broker[c].unsettled
    BY <1>1, <2>1
  <2> QED
    BY <1>4, <1>8, <2>2, <2>6, <2>7, ClientMoves
<1>11. CASE UNCHANGED <<broker, inbox>>
  <2>1. broker' = [broker EXCEPT ![c] = b] /\ inbox' = [inbox EXCEPT ![c] = in]
    BY <1>1, <1>11, OneChannel
  <2>2. Phased(in, ch2)
    BY <1>3, <1>5 DEF Phased
  <2>3. b.open /\ ~ch.closed => Expected(in, ch2)
    BY <1>3, <1>5 DEF Expected
  <2>4. Good(c, b, in, ch2)
    BY <1>5, <1>9, <2>2, <2>3, ChannelStays
  <2> QED
    BY <1>1, <1>4, <1>8, <2>1, <2>4, ClientMoves
<1> QED
  BY <1>8, <1>10, <1>11

\* One lemma for each action of a channel: it keeps the invariant.
LEMMA BrokerDeliversKeeps ==
  ASSUME ChInv, NEW c \in Channels, BrokerDelivers(c)
  PROVE  ChInv'
<1>1. channel' = [channel EXCEPT ![c] = channel[c]]
  BY OneChannel DEF BrokerDelivers
<1>2. CASE broker[c].consumer = "ack"
  <2>1. Deliver(c, "deliver", TRUE)
    BY <1>2 DEF BrokerDelivers, Deliver
  <2> QED
    BY <1>1, <2>1, DeliverySent
<1>3. CASE broker[c].consumer # "ack"
  <2>1. Deliver(c, "deliver", FALSE)
    BY <1>3 DEF BrokerDelivers, Deliver
  <2> QED
    BY <1>1, <2>1, DeliverySent
<1> QED
  BY <1>2, <1>3

LEMMA BrokerCancelsKeeps ==
  ASSUME ChInv, NEW c \in Channels, BrokerCancels(c)
  PROVE  ChInv'
<1> DEFINE f == [frame |-> "cancel"]
<1>1. PICK b \in BrokerSides, in \in Seq(Frames), ch \in ChannelImpls :
        b = broker[c] /\ in = inbox[c] /\ ch = channel[c] /\ Good(c, b, in, ch)
  BY OneChannel
<1>2. PICK b2 \in BrokerSides :
        /\ b2 = [b EXCEPT !.consumer = "none"]
        /\ b2.lastTag = b.lastTag /\ b2.unsettled = b.unsettled /\ b2.open = b.open
  <2>1. [b EXCEPT !.consumer = "none"] \in BrokerSides
    BY DEF BrokerSides
  <2> QED
    BY <2>1 DEF BrokerSides
<1>3. f \in Frames /\ ~Carries(f) /\ f.frame = "cancel" /\ f.frame \notin Answers
  BY DEF Frames, Carries, Answers
<1>4. Ordered(in, Before) /\ Phased(in, ch)
  BY <1>1 DEF Good, InLine
<1>5. PICK in2 \in Seq(Frames) :
        /\ in2 = Append(in, f) /\ Ordered(in2, Before) /\ ToSet(in2) = ToSet(in) \cup {f}
        /\ Arriving(in2) = Arriving(in)
  BY <1>3, <1>4, FrameComes
<1>6. broker' = [broker EXCEPT ![c] = b2] /\ inbox' = [inbox EXCEPT ![c] = in2]
  BY <1>1, <1>2, <1>5 DEF BrokerCancels, Frame, BrokerSides
<1> HIDE DEF f
<1>7. Phased(in2, ch)
  BY <1>3, <1>4, <1>5 DEF Phased
<1>8. b.open /\ ~ch.closed => Expected(in2, ch)
  BY <1>1, <1>3, <1>5 DEF Good, Owns, Expected
<1>9. Good(c, b2, in2, ch)
  <2>1. b2.lastTag = b.lastTag /\ b2.unsettled = b.unsettled /\ b2.open = b.open
    BY <1>2
  <2>2. Good(c, b, in, ch) /\ Ordered(in2, Before) /\ Arriving(in2) = Arriving(in)
    BY <1>1, <1>5
  <2> QED
    BY <1>7, <1>8, <2>1, <2>2, ChannelStays
<1>10. channel' = [channel EXCEPT ![c] = ch] /\ ready' = ready /\ released' = released
  BY <1>1, OneChannel DEF BrokerCancels
<1>11. b2.unsettled = broker[c].unsettled
  BY <1>1, <1>2
<1> QED
  BY <1>6, <1>9, <1>10, <1>11, ClientMoves

LEMMA ReceiveFrameKeeps ==
  ASSUME ChInv, NEW c \in Channels, ReceiveFrame(c)
  PROVE  ChInv'
<1>1. PICK b \in BrokerSides, in \in Seq(Frames), ch \in ChannelImpls :
        b = broker[c] /\ in = inbox[c] /\ ch = channel[c] /\ Good(c, b, in, ch)
  BY OneChannel
<1>2. in # <<>>
  BY <1>1 DEF ReceiveFrame
<1>3. PICK in2 \in Seq(Frames) : in2 = Tail(in)
  BY <1>2, TailToSet
<1>4. PICK ch2 \in ChannelImpls : ch2 = Received(ch, Head(in)) /\ Good(c, b, in2, ch2)
  BY <1>1, <1>2, <1>3, FrameReceived
<1>5. inbox' = [inbox EXCEPT ![c] = in2] /\ channel' = [channel EXCEPT ![c] = ch2]
  BY <1>1, <1>3, <1>4 DEF ReceiveFrame
<1>6. broker' = [broker EXCEPT ![c] = b] /\ ready' = ready /\ released' = released
  BY <1>1, OneChannel DEF ReceiveFrame
<1> QED
  BY <1>1, <1>4, <1>5, <1>6, ClientMoves

LEMMA LoopKeeps ==
  ASSUME ChInv, NEW c \in Channels, Loop(c)
  PROVE  ChInv'
<1>1. PICK b \in BrokerSides, in \in Seq(Frames), ch \in ChannelImpls :
        b = broker[c] /\ in = inbox[c] /\ ch = channel[c] /\ Good(c, b, in, ch)
  BY OneChannel
<1>2. ch.consume \in {"started", "yielded"} /\ UNCHANGED released
  BY <1>1 DEF Loop
<1>3. ch.resolved = NoDelivery /\ Ordered(in, Before)
  BY <1>1, <1>2 DEF Good, Phased, InLine
<1>4. CASE ch.done \/ ch.closed
  <2>1. Finally(c)
    BY <1>1, <1>4 DEF Loop
  <2> QED
    BY <1>1, <1>2, <1>3, <2>1, ConsumerEnds
<1>5. CASE ~(ch.done \/ ch.closed)
  <2>1. /\ broker' = [broker EXCEPT ![c] = b] /\ inbox' = [inbox EXCEPT ![c] = in]
        /\ ready' = ready /\ released' = released
    BY <1>1, <1>2, <1>5, OneChannel DEF Loop
  <2>2. CASE ch.messageQueue # <<>>
    <3>1. PICK ch2 : ch2 = Yield([ch EXCEPT !.messageQueue = Tail(@)], Head(ch.messageQueue))
      OBVIOUS
    <3>2. ch2 \in ChannelImpls /\ Good(c, b, in, ch2)
      BY <1>1, <1>2, <2>2, <3>1, QueueYields
    <3>3. channel' = [channel EXCEPT ![c] = ch2]
      BY <1>1, <1>5, <2>2, <3>1 DEF Loop
    <3> QED
      BY <1>1, <2>1, <3>2, <3>3, ClientMoves
  <2>3. CASE ch.messageQueue = <<>>
    <3>1. PICK ch2 \in ChannelImpls :
            /\ ch2 = [ch EXCEPT !.consume = "waiting"] /\ ch2.consume = "waiting"
            /\ ch2.messageQueue = ch.messageQueue /\ ch2.resolved = ch.resolved
            /\ ch2.closed = ch.closed /\ ch2.yielded = ch.yielded /\ ch2.tags = ch.tags
            /\ ch2.get = ch.get /\ ch2.late = ch.late
      <4>1. [ch EXCEPT !.consume = "waiting"] \in ChannelImpls
        BY DEF ChannelImpls
      <4> QED
        BY <4>1 DEF ChannelImpls
    <3>2. channel' = [channel EXCEPT ![c] = ch2]
      BY <1>1, <1>5, <2>3, <3>1 DEF Loop
    <3>3. Phased(in, ch2)
      BY <1>1, <1>2, <1>3, <2>3, <3>1 DEF Good, Phased
    <3>4. b.open /\ ~ch.closed => Expected(in, ch2)
      BY <1>1, <3>1 DEF Good, Owns, Expected
    <3>5. Good(c, b, in, ch2)
      <4>1. /\ ch2.messageQueue = ch.messageQueue /\ ch2.resolved = ch.resolved
            /\ ch2.closed = ch.closed /\ ch2.yielded = ch.yielded /\ ch2.tags = ch.tags
            /\ ch2.get = ch.get /\ ch2.late = ch.late /\ Good(c, b, in, ch)
        BY <1>1, <3>1
      <4> QED
        BY <1>3, <3>3, <3>4, <4>1, ChannelStays
    <3> QED
      BY <1>1, <2>1, <3>2, <3>5, ClientMoves
  <2> QED
    BY <2>2, <2>3
<1> QED
  BY <1>4, <1>5

LEMMA ResumeConsumerKeeps ==
  ASSUME ChInv, NEW c \in Channels, ResumeConsumer(c)
  PROVE  ChInv'
<1>1. PICK b \in BrokerSides, in \in Seq(Frames), ch \in ChannelImpls :
        b = broker[c] /\ in = inbox[c] /\ ch = channel[c] /\ Good(c, b, in, ch)
  BY OneChannel
<1>2. ch.consume = "resolved" /\ UNCHANGED released
  BY <1>1 DEF ResumeConsumer
<1>3. CASE ch.resolved = NoDelivery
  <2>1. Finally(c)
    BY <1>1, <1>3 DEF ResumeConsumer
  <2> QED
    BY <1>1, <1>2, <1>3, <2>1, ConsumerEnds
<1>4. CASE ch.resolved # NoDelivery
  <2>1. PICK ch2 : ch2 = Yield([ch EXCEPT !.resolved = NoDelivery], ch.resolved)
    OBVIOUS
  <2>2. ch2 \in ChannelImpls /\ Good(c, b, in, ch2)
    BY <1>1, <1>2, <1>4, <2>1, ResolverYields
  <2>3. channel' = [channel EXCEPT ![c] = ch2] /\ UNCHANGED <<ready, broker, inbox>>
    BY <1>1, <1>4, <2>1 DEF ResumeConsumer
  <2>4. broker' = [broker EXCEPT ![c] = b] /\ inbox' = [inbox EXCEPT ![c] = in]
    BY <1>1, <2>3, OneChannel
  <2> QED
    BY <1>1, <1>2, <2>2, <2>3, <2>4, ClientMoves
<1> QED
  BY <1>3, <1>4

LEMMA ReturnKeeps ==
  ASSUME ChInv, NEW c \in Channels, Return(c)
  PROVE  ChInv'
<1>1. channel[c].resolved = NoDelivery /\ channel[c].consume \notin {"starting", "ended"}
  BY OneChannel DEF Return, Good, Phased
<1> QED
  BY <1>1, ConsumerEnds DEF Return

LEMMA ConsumeKeeps ==
  ASSUME ChInv, NEW c \in Channels, Consume(c)
  PROVE  ChInv'
<1> DEFINE f == [frame |-> "consume-ok"]
<1>1. PICK b \in BrokerSides, in \in Seq(Frames), ch \in ChannelImpls :
        b = broker[c] /\ in = inbox[c] /\ ch = channel[c] /\ Good(c, b, in, ch)
  BY OneChannel
<1>2. ch.consume = "idle" /\ ready' = ready /\ released' = released
  BY <1>1 DEF Consume, Reaches
<1>3. PICK ch2 \in ChannelImpls :
        /\ ch2 = [ch EXCEPT !.consume = "starting"] /\ ch2.consume = "starting"
        /\ ch2.messageQueue = ch.messageQueue /\ ch2.resolved = ch.resolved
        /\ ch2.closed = ch.closed /\ ch2.yielded = ch.yielded /\ ch2.tags = ch.tags
        /\ ch2.get = ch.get /\ ch2.late = ch.late
  <2>1. [ch EXCEPT !.consume = "starting"] \in ChannelImpls
    BY DEF ChannelImpls
  <2> QED
    BY <2>1 DEF ChannelImpls
<1>4. channel' = [channel EXCEPT ![c] = ch2]
  BY <1>1, <1>3 DEF Consume
<1>5. /\ Ordered(in, Before) /\ ch.resolved = NoDelivery
      /\ \A g \in ToSet(in) : g.frame # "consume-ok"
      /\ b.open /\ ~ch.closed => Expected(in, ch)
  BY <1>1, <1>2 DEF Good, Phased, InLine, Owns
<1>6. f \in Frames /\ ~Carries(f) /\ f.frame = "consume-ok" /\ f.frame \notin Answers
  BY DEF Frames, Carries, Answers
<1>7. PICK in2 \in Seq(Frames) :
        /\ in2 = Append(in, f) /\ Ordered(in2, Before) /\ ToSet(in2) = ToSet(in) \cup {f}
        /\ Arriving(in2) = Arriving(in)
  BY <1>5, <1>6, FrameComes
<1>8. PICK mode \in {"ack", "noAck"} :
        IF b.open
        THEN /\ broker' = [broker EXCEPT ![c].consumer = mode]
             /\ inbox' = [inbox EXCEPT ![c] = Append(@, f)]
        ELSE UNCHANGED <<broker, inbox>>
  BY <1>1 DEF Consume, Reaches, Frame
<1>9. CASE b.open
  <2>1. PICK b2 \in BrokerSides :
          /\ b2 = [b EXCEPT !.consumer = mode]
          /\ b2.lastTag = b.lastTag /\ b2.unsettled = b.unsettled /\ b2.open = b.open
    <3>1. [b EXCEPT !.consumer = mode] \in BrokerSides
      BY DEF BrokerSides
    <3> QED
      BY <3>1 DEF BrokerSides
  <2>2. broker' = [broker EXCEPT ![c] = b2] /\ inbox' = [inbox EXCEPT ![c] = in2]
    BY <1>1, <1>7, <1>8, <1>9, <2>1 DEF BrokerSides
  <2> HIDE DEF f
  <2>3. Phased(in2, ch2)
    BY <1>3, <1>5, <1>6, <1>7 DEF Phased
  <2>4. b.open /\ ~ch.closed => Expected(in2, ch2)
    BY <1>3, <1>5, <1>6, <1>7 DEF Expected
  <2>5. Good(c, b2, in2, ch2)
    <3>1. /\ ch2.messageQueue = ch.messageQueue /\ ch2.resolved = ch.resolved
          /\ ch2.closed = ch.closed /\ ch2.yielded = ch.yielded /\ ch2.tags = ch.tags
          /\ ch2.get = ch.get /\ ch2.late = ch.late /\ Good(c, b, in, ch)
      BY <1>1, <1>3
    <3>2. /\ b2.lastTag = b.lastTag /\ b2.unsettled = b.unsettled /\ b2.open = b.open
          /\ Ordered(in2, Before) /\ Arriving(in2) = Arriving(in)
      BY <1>7, <2>1
    <3> QED
      BY <2>3, <2>4, <3>1, <3>2, ChannelStays
  <2>6. b2.unsettled = broker[c].unsettled
    BY <1>1, <2>1
  <2> QED
    BY <1>2, <1>4, <2>2, <2>5, <2>6, ClientMoves
<1>10. CASE ~b.open
  <2>1. broker' = [broker EXCEPT ![c] = b] /\ inbox' = [inbox EXCEPT ![c] = in]
    BY <1>1, <1>8, <1>10, OneChannel
  <2>2. Phased(in, ch2)
    BY <1>3, <1>5 DEF Phased
  <2>3. Good(c, b, in, ch2)
    <3>1. /\ ch2.messageQueue = ch.messageQueue /\ ch2.resolved = ch.resolved
          /\ ch2.closed = ch.closed /\ ch2.yielded = ch.yielded /\ ch2.tags = ch.tags
          /\ ch2.get = ch.get /\ ch2.late = ch.late /\ Good(c, b, in, ch)
      BY <1>1, <1>3
    <3> QED
      BY <1>5, <1>10, <2>2, <3>1, ChannelStays
  <2> QED
    BY <1>1, <1>2, <1>4, <2>1, <2>3, ClientMoves
<1> QED
  BY <1>9, <1>10

LEMMA GetKeeps ==
  ASSUME ChInv, NEW c \in Channels, Get(c)
  PROVE  ChInv'
<1> DEFINE f == [frame |-> "get-empty"]
<1>1. PICK b \in BrokerSides, in \in Seq(Frames), ch \in ChannelImpls :
        b = broker[c] /\ in = inbox[c] /\ ch = channel[c] /\ Good(c, b, in, ch)
  BY OneChannel
<1>2. PICK ch2 \in ChannelImpls :
        /\ ch2 = [ch EXCEPT !.get = "asking"] /\ ch2.get = "asking" /\ ch2.consume = ch.consume
        /\ ch2.messageQueue = ch.messageQueue /\ ch2.resolved = ch.resolved
        /\ ch2.closed = ch.closed /\ ch2.yielded = ch.yielded /\ ch2.tags = ch.tags
        /\ ch2.late = ch.late
  <2>1. [ch EXCEPT !.get = "asking"] \in ChannelImpls
    BY DEF ChannelImpls
  <2> QED
    BY <2>1 DEF ChannelImpls
<1>3. channel' = [channel EXCEPT ![c] = ch2] /\ ch.get = "idle" /\ ~ch.closed
  BY <1>1, <1>2 DEF Get
<1>4. /\ Ordered(in, Before) /\ Phased(in, ch) /\ Phased(in, ch2)
      /\ b.open => Expected(in, ch)
  BY <1>1, <1>2, <1>3 DEF Good, Phased, InLine, Owns
<1>5. CASE b.open /\ Deliver(c, "get-ok", TRUE)
  <2>1. ch2 = [channel[c] EXCEPT !.get = "asking"]
    BY <1>1, <1>2
  <2> QED
    BY <1>1, <1>3, <1>5, <2>1, DeliverySent
<1>6. CASE /\ Reaches(c, Frame(c, f) /\ UNCHANGED <<ready, broker>>)
           /\ UNCHANGED released
  <2>1. CASE b.open
    <3>1. f \in Frames /\ ~Carries(f) /\ f.frame = "get-empty"
      BY DEF Frames, Carries
    <3>2. \A g \in ToSet(in) : g.frame \notin Answers /\ g.frame # "closed"
      BY <1>3, <1>4, <2>1 DEF Expected
    <3>3. PICK in2 \in Seq(Frames) :
            /\ in2 = Append(in, f) /\ Ordered(in2, Before) /\ ToSet(in2) = ToSet(in) \cup {f}
            /\ Arriving(in2) = Arriving(in)
      BY <1>4, <3>1, <3>2, FrameComes
    <3>4. inbox' = [inbox EXCEPT ![c] = in2] /\ ready' = ready /\ released' = released /\ broker' = broker
      BY <1>1, <1>6, <2>1, <3>3 DEF Reaches, Frame
    <3> HIDE DEF f
    <3>5. Phased(in2, ch2)
      BY <1>4, <3>1, <3>3 DEF Phased
    <3>6. Expected(in2, ch2)
      BY <1>2, <3>1, <3>2, <3>3 DEF Expected
    <3>7. Good(c, b, in2, ch2)
      <4>1. /\ ch2.messageQueue = ch.messageQueue /\ ch2.resolved = ch.resolved
            /\ ch2.closed = ch.closed /\ ch2.yielded = ch.yielded /\ ch2.tags = ch.tags
            /\ ch2.get = "asking" /\ ch2.late = ch.late /\ Good(c, b, in, ch)
        BY <1>1, <1>2
      <4>2. Ordered(in2, Before) /\ Arriving(in2) = Arriving(in)
        BY <3>3
      <4> QED
        BY <3>5, <3>6, <4>1, <4>2, ChannelStays
    <3>8. broker' = [broker EXCEPT ![c] = b]
      BY <1>1, <3>4, OneChannel
    <3> QED
      BY <1>1, <1>3, <3>4, <3>7, <3>8, ClientMoves
  <2>2. CASE ~b.open
    <3>1. /\ broker' = [broker EXCEPT ![c] = b] /\ inbox' = [inbox EXCEPT ![c] = in]
          /\ ready' = ready /\ released' = released
      BY <1>1, <1>6, <2>2, OneChannel DEF Reaches
    <3>2. Good(c, b, in, ch2)
      <4>1. /\ ch2.messageQueue = ch.messageQueue /\ ch2.resolved = ch.resolved
            /\ ch2.closed = ch.closed /\ ch2.yielded = ch.yielded /\ ch2.tags = ch.tags
            /\ ch2.get = "asking" /\ ch2.late = ch.late /\ Good(c, b, in, ch)
        BY <1>1, <1>2
      <4> QED
        BY <1>4, <2>2, <4>1, ChannelStays
    <3> QED
      BY <1>1, <1>3, <3>1, <3>2, ClientMoves
  <2> QED
    BY <2>1, <2>2
<1> QED
  BY <1>1, <1>5, <1>6 DEF Get

LEMMA GetGivesUpKeeps ==
  ASSUME ChInv, NEW c \in Channels, GetGivesUp(c)
  PROVE  ChInv'
<1>1. PICK b \in BrokerSides, in \in Seq(Frames), ch \in ChannelImpls :
        b = broker[c] /\ in = inbox[c] /\ ch = channel[c] /\ Good(c, b, in, ch)
  BY OneChannel
<1>2. ch.get = "asking"
  BY <1>1 DEF GetGivesUp
<1>3. PICK ch2 \in ChannelImpls :
        /\ ch2 = [ch EXCEPT !.get = "gave up", !.late = @ + 1]
        /\ ch2.get = "gave up" /\ ch2.consume = ch.consume
        /\ ch2.messageQueue = ch.messageQueue /\ ch2.resolved = ch.resolved
        /\ ch2.closed = ch.closed /\ ch2.yielded = ch.yielded /\ ch2.tags = ch.tags
        /\ ch2.late = ch.late + 1
  <2>1. [ch EXCEPT !.get = "gave up", !.late = @ + 1] \in ChannelImpls
    <3>1. PICK l \in Nat : l = ch.late + 1
      <4>1. ch.late \in Nat
        BY DEF ChannelImpls
      <4>2. ch.late + 1 \in Nat
        BY <4>1, OneMore
      <4> QED
        BY <4>2
    <3>2. [ch EXCEPT !.get = "gave up", !.late = l] \in ChannelImpls
      BY DEF ChannelImpls
    <3> QED
      BY <3>1, <3>2 DEF ChannelImpls
  <2> QED
    BY <2>1 DEF ChannelImpls
<1>4. channel' = [channel EXCEPT ![c] = ch2]
  BY <1>1, <1>3 DEF GetGivesUp, ChannelImpls
<1>5. /\ broker' = [broker EXCEPT ![c] = b] /\ inbox' = [inbox EXCEPT ![c] = in]
      /\ ready' = ready /\ released' = released
  BY <1>1, OneChannel DEF GetGivesUp
<1>6. Good(c, b, in, ch2)
  <2>1. Ordered(in, Before) /\ Phased(in, ch2)
    BY <1>1, <1>3 DEF Good, Phased, InLine
  <2>2. b.open /\ ~ch.closed => Expected(in, ch2)
    BY <1>1, <1>3 DEF Good, Owns, Expected
  <2>3. /\ ch2.messageQueue = ch.messageQueue /\ ch2.resolved = ch.resolved
        /\ ch2.closed = ch.closed /\ ch2.yielded = ch.yielded /\ ch2.tags = ch.tags
        /\ ch2.get = "gave up" /\ ch2.late = ch.late + 1 /\ Good(c, b, in, ch)
    BY <1>1, <1>3
  <2> QED
    BY <2>1, <2>2, <2>3, ChannelStays
<1> QED
  BY <1>1, <1>4, <1>5, <1>6, ClientMoves

LEMMA CloseChannelKeeps ==
  ASSUME ChInv, NEW c \in Channels, CloseChannel(c)
  PROVE  ChInv'
<1>1. PICK b \in BrokerSides, in \in Seq(Frames), ch \in ChannelImpls :
        b = broker[c] /\ in = inbox[c] /\ ch = channel[c] /\ Good(c, b, in, ch)
  BY OneChannel
<1>2. PICK ch2 \in ChannelImpls :
        /\ ch2 = [ch EXCEPT !.closed = TRUE] /\ ch2.closed /\ ch2.consume = ch.consume
        /\ ch2.messageQueue = ch.messageQueue /\ ch2.resolved = ch.resolved
        /\ ch2.yielded = ch.yielded /\ ch2.tags = ch.tags
  <2>1. [ch EXCEPT !.closed = TRUE] \in ChannelImpls
    BY DEF ChannelImpls
  <2> QED
    BY <2>1 DEF ChannelImpls
<1>3. channel' = [channel EXCEPT ![c] = ch2] /\ released' = released
  BY <1>1, <1>2 DEF CloseChannel
<1>4. CASE b.open
  <2>1. BrokerCloses(c)
    BY <1>1, <1>4 DEF CloseChannel, Reaches
  <2>2. released \in SUBSET Messages /\ ch2 \in {channel[c], [channel[c] EXCEPT !.closed = TRUE]}
    BY <1>1, <1>2, OneChannel
  <2> QED
    BY <1>3, <2>1, <2>2, GivesBack
<1>5. CASE ~b.open
  <2>1. /\ broker' = [broker EXCEPT ![c] = b] /\ inbox' = [inbox EXCEPT ![c] = in]
        /\ ready' = ready
    BY <1>1, <1>5, OneChannel DEF CloseChannel, Reaches
  <2>2. Ordered(in, Before) /\ Phased(in, ch2)
    BY <1>1, <1>2 DEF Good, Phased, InLine
  <2>3. Good(c, b, in, ch2)
    <3>1. /\ ch2.messageQueue = ch.messageQueue /\ ch2.resolved = ch.resolved
          /\ ch2.yielded = ch.yielded /\ ch2.tags = ch.tags /\ Good(c, b, in, ch)
      BY <1>1, <1>2
    <3>2. b.open /\ ~ch2.closed =>
            /\ b.open /\ ~ch.closed /\ Arriving(in) = Arriving(in) /\ Expected(in, ch2)
            /\ ch.late + Unanswered(ch2) <= ch2.late + Unanswered(ch)
      BY <1>5
    <3> QED
      BY <2>2, <3>1, <3>2, NothingMoves
  <2> QED
    BY <1>1, <1>3, <2>1, <2>3, ClientMoves
<1> QED
  BY <1>4, <1>5

\* ack, nack and reject
LEMMA SettleKeeps ==
  ASSUME ChInv, NEW c \in Channels, NEW d, NEW allUpTo \in BOOLEAN, NEW requeue \in BOOLEAN,
         Settle(c, d, allUpTo, requeue)
  PROVE  ChInv'
<1> DEFINE command == [tag |-> d.tag, allUpTo |-> allUpTo, requeue |-> requeue]
           settled == Covered(c, command)
<1>1. PICK b \in BrokerSides, in \in Seq(Frames), ch \in ChannelImpls :
        b = broker[c] /\ in = inbox[c] /\ ch = channel[c] /\ Good(c, b, in, ch)
  BY OneChannel
<1>2. d \in ch.tags
  BY <1>1 DEF Settle, Tags
<1>3. d.on = c /\ d \in Deliveries
  <2>1. d \in Owned(in, ch)
    BY <1>2 DEF Owned
  <2> QED
    BY <1>1, <1>2, <2>1 DEF Good, OfChannel, ChannelImpls
<1>4. /\ settled \in SUBSET b.unsettled /\ settled \in SUBSET Deliveries
      /\ command.requeue = requeue
  BY <1>1 DEF Covered, BrokerSides
<1>5. /\ Reaches(c, BrokerSettles(c, command)) /\ channel' = channel
      /\ released' = IF requeue THEN released
                     ELSE released \cup {d.msg} \cup {e.msg : e \in Covered(d.on, command)}
  BY DEF Settle
<1>6. released \in SUBSET Messages
  BY OneChannel
<1>7. PICK released2 \in SUBSET Messages :
        released2 = IF requeue THEN released
                    ELSE released \cup {d.msg} \cup {e.msg : e \in settled}
  <2>1. d.msg \in Messages /\ \A e \in settled : e.msg \in Messages
    BY <1>3, <1>4 DEF Deliveries
  <2> HIDE DEF settled
  <2> QED
    BY <1>6, <2>1
<1>8. /\ released' = released2 /\ released \subseteq released2
      /\ ~requeue => \A e \in settled : e.msg \in released2
  BY <1>3, <1>5, <1>7
<1>9. CASE b.open /\ \E e \in settled : e.tag = command.tag
  <2>1. BrokerSettles(c, command)
    BY <1>1, <1>5, <1>9 DEF Reaches
  <2>2. /\ broker' = [broker EXCEPT ![c].unsettled = @ \ settled]
        /\ ready' = IF requeue THEN InOrder(settled) \o ready ELSE ready
        /\ UNCHANGED inbox
    BY <1>4, <1>9, <2>1 DEF BrokerSettles
  <2> HIDE DEF settled, command
  <2>3. settled \in SUBSET broker[c].unsettled
    BY <1>1, <1>4
  <2> QED
    BY <1>5, <1>8, <2>2, <2>3, TagSettled
<1>10. CASE b.open /\ ~\E e \in settled : e.tag = command.tag
  <2>1. BrokerCloses(c)
    BY <1>1, <1>5, <1>10 DEF Reaches, BrokerSettles
  <2>2. channel' = [channel EXCEPT ![c] = channel[c]]
    BY <1>5, OneChannel
  <2> QED
    BY <1>8, <2>1, <2>2, GivesBack
<1>11. CASE ~b.open
  <2>1. /\ broker' = [broker EXCEPT ![c] = b] /\ inbox' = [inbox EXCEPT ![c] = in]
        /\ channel' = [channel EXCEPT ![c] = ch] /\ ready' = ready
    BY <1>1, <1>5, <1>11, OneChannel DEF Reaches
  <2>2. ready \in Seq(Messages)
    BY OneChannel
  <2>3. /\ \A m \in ToSet(ready) : Survives(m, released2, ready, b.unsettled)
        /\ \A e \in broker[c].unsettled : Survives(e.msg, released2, ready, b.unsettled)
    BY <1>1 DEF Survives
  <2>4. \A m \in released : m \in released2
    BY <1>8
  <2> QED
    BY <1>1, <1>8, <2>1, <2>2, <2>3, <2>4, OneChannelMoves
<1> QED
  BY <1>9, <1>10, <1>11

\* It holds at first,
LEMMA ChannelStarts ==
  ASSUME ChannelInit
  PROVE  ChInv
<1>1. SetToSeq(Messages) \in Seq(Messages) /\ Messages \subseteq ToSet(SetToSeq(Messages))
  BY SetToSeqHasAll, ChannelAssumption
<1> DEFINE b == [open |-> TRUE, consumer |-> "none", unsettled |-> {}, lastTag |-> 0]
           ch == [closed |-> FALSE, dead |-> FALSE, get |-> "idle", late |-> 0, consume |-> "idle",
                  messageQueue |-> <<>>, resolved |-> NoDelivery, done |-> FALSE, yielded |-> 0,
                  tags |-> {}]
<1>2. b \in BrokerSides /\ <<>> \in Seq(Frames) /\ ch \in ChannelImpls
  BY DEF BrokerSides, ChannelImpls
<1>3. ToSet(<<>>) = {} /\ DOMAIN <<>> = {}
  BY DEF ToSet
<1>4. Arriving(<<>>) = {} /\ Kept(ch) = {} /\ Owned(<<>>, ch) = {}
  BY <1>3 DEF Arriving, Kept, Owned
<1>5. ASSUME NEW c \in Channels
      PROVE  Good(c, b, <<>>, ch)
  <2>1. Tagged(c, b)
    BY FS_EmptySet DEF Tagged
  <2>4. OfChannel(c, b, <<>>, ch)
    <3>1. ch.yielded = 0 /\ b.lastTag = 0
      OBVIOUS
    <3> HIDE DEF b, ch
    <3> QED
      BY <1>4, <3>1 DEF OfChannel
  <2>2. Phased(<<>>, ch) /\ InLine(<<>>, ch)
    BY <1>3, <1>4 DEF Phased, InLine, Ordered
  <2>3. Owns(b, <<>>, ch)
    <3>1. Lost(b, <<>>, ch) = {} /\ Unanswered(ch) = 0
      BY DEF Lost, Unanswered
    <3>2. Expected(<<>>, ch) /\ Cardinality({}) = 0
      BY <1>3, FS_EmptySet DEF Expected
    <3>3. ch.late = 0
      OBVIOUS
    <3> HIDE DEF b, ch
    <3> QED
      BY <3>1, <3>2, <3>3 DEF Owns
  <2> HIDE DEF b, ch
  <2> QED
    BY <2>1, <2>2, <2>3, <2>4 DEF Good
<1>6. /\ ready = SetToSeq(Messages) /\ released = {}
      /\ broker = [c \in Channels |-> b] /\ inbox = [c \in Channels |-> <<>>]
      /\ channel = [c \in Channels |-> ch]
  BY DEF ChannelInit
<1> HIDE DEF b, ch
<1>7. ChannelTypeOK /\ AllGood
  BY <1>1, <1>2, <1>5, <1>6 DEF ChannelTypeOK, AllGood
<1>8. OnlySettledMessagesVanish
  BY <1>1, <1>6 DEF OnlySettledMessagesVanish
<1> QED
  BY <1>7, <1>8 DEF ChInv

\* every step keeps it,
LEMMA ChannelKeeps ==
  ASSUME ChInv, [ChannelNext]_channelVars
  PROVE  ChInv'
<1>1. CASE UNCHANGED channelVars
  <2>1. ChannelTypeOK' /\ AllGood'
    BY <1>1 DEF channelVars, ChInv, ChannelTypeOK, AllGood
  <2>2. OnlySettledMessagesVanish'
    BY <1>1 DEF channelVars, ChInv, OnlySettledMessagesVanish, Unsettled
  <2> QED
    BY <2>1, <2>2 DEF ChInv
<1>2. ASSUME NEW c \in Channels, BrokerDelivers(c) \/ BrokerCancels(c) \/ Code(c)
      PROVE  ChInv'
  BY <1>2, BrokerDeliversKeeps, BrokerCancelsKeeps, ReceiveFrameKeeps, LoopKeeps, ResumeConsumerKeeps
     DEF Code
<1>3. ASSUME NEW c \in Channels, Consume(c) \/ Return(c) \/ Get(c) \/ GetGivesUp(c) \/ CloseChannel(c)
      PROVE  ChInv'
  BY <1>3, ConsumeKeeps, ReturnKeeps, GetKeeps, GetGivesUpKeeps, CloseChannelKeeps
<1>4. ASSUME NEW c \in Channels, NEW d \in HandedOut, ack(c, d) \/ nack(c, d) \/ reject(c, d)
      PROVE  ChInv'
  BY <1>4, SettleKeeps DEF ack, nack, reject
<1> QED
  BY <1>1, <1>2, <1>3, <1>4 DEF ChannelNext

\* and so it always holds.
LEMMA ChannelInvariant == ChannelSpec => []ChInv
<1>1. ChannelInit => ChInv
  BY ChannelStarts
<1>2. ChInv /\ [ChannelNext]_channelVars => ChInv'
  BY ChannelKeeps
<1> QED
  BY <1>1, <1>2, PTL DEF ChannelSpec

(***************************************************************************)
(* Whatever is settled on which channel, a message leaves the broker only  *)
(* with its own acknowledgement: every message is released, ready again or *)
(* unsettled on some channel.                                              *)
(***************************************************************************)
THEOREM MessagesAreNotLost == ChannelSpec => []OnlySettledMessagesVanish
<1>1. ChInv => OnlySettledMessagesVanish
  BY DEF ChInv
<1> QED
  BY <1>1, ChannelInvariant, PTL

(***************************************************************************)
(* Of the deliveries that a channel owes the broker an answer for, each is *)
(* on its way, kept for consume(), or in the hands of the application,     *)
(* except one for each get() that has given up.                            *)
(***************************************************************************)
THEOREM DeliveriesAreOwned == ChannelSpec => []EveryDeliveryHasAnOwner
<1>1. ASSUME ChInv, NEW c \in Channels, broker[c].open, ~channel[c].closed
      PROVE  Cardinality(broker[c].unsettled \ (Pending(c) \cup channel[c].tags)) <= channel[c].late
  <2>1. PICK b \in BrokerSides, in \in Seq(Frames), ch \in ChannelImpls :
          b = broker[c] /\ in = inbox[c] /\ ch = channel[c] /\ Good(c, b, in, ch)
    BY <1>1, OneChannel
  <2>2. Pending(c) \cup ch.tags = Owned(in, ch)
    BY <2>1 DEF Pending, Owned, Arriving, Kept, Carries
  <2>3. broker[c].unsettled \ (Pending(c) \cup channel[c].tags) = Lost(b, in, ch)
    BY <2>1, <2>2 DEF Lost
  <2>4. Cardinality(Lost(b, in, ch)) + Unanswered(ch) <= ch.late
    BY <1>1, <2>1 DEF Good, Owns
  <2>5. IsFiniteSet(Lost(b, in, ch))
    BY <2>1, FS_Subset DEF Good, Tagged, Lost
  <2>6. PICK n \in Nat : n = Cardinality(Lost(b, in, ch))
    BY <2>5, FS_CardinalityType
  <2>7. Unanswered(ch) \in Nat /\ ch.late \in Nat
    BY DEF Unanswered, ChannelImpls
  <2>8. n <= ch.late
    BY <2>4, <2>6, <2>7
  <2> QED
    BY <2>1, <2>3, <2>6, <2>8
<1>2. ChInv => EveryDeliveryHasAnOwner
  BY <1>1 DEF EveryDeliveryHasAnOwner
<1> QED
  BY <1>2, ChannelInvariant, PTL

(***************************************************************************)
(* consume() yields the messages of a channel in the order in which the    *)
(* broker has delivered them, past the queue and the resolver: none that   *)
(* the channel still holds is older than the last one yielded.             *)
(***************************************************************************)
THEOREM ConsumersKeepTheOrder == ChannelSpec => []YieldsInOrder
<1>1. ASSUME ChInv, NEW c \in Channels, NEW d \in Pending(c)
      PROVE  d.tag > channel[c].yielded
  <2>1. PICK b \in BrokerSides, in \in Seq(Frames), ch \in ChannelImpls :
          b = broker[c] /\ in = inbox[c] /\ ch = channel[c] /\ Good(c, b, in, ch)
    BY <1>1, OneChannel
  <2>2. d \in Kept(ch) \cup Arriving(in)
    BY <1>1, <2>1 DEF Pending, Arriving, Kept, Carries
  <2>3. ch.yielded < d.tag
    BY <2>1, <2>2 DEF Good, InLine
  <2>4. d \in Deliveries /\ ch.yielded \in Nat
    <3>1. ToSet(in) \in SUBSET Frames /\ ToSet(ch.messageQueue) \in SUBSET Deliveries
      BY ToSetIsIn DEF ChannelImpls
    <3> QED
      BY <2>2, <3>1 DEF Kept, Arriving, Carries, Frames, ChannelImpls
  <2> QED
    BY <2>1, <2>3, <2>4 DEF Deliveries
<1>2. ChInv => YieldsInOrder
  BY <1>1 DEF YieldsInOrder
<1> QED
  BY <1>2, ChannelInvariant, PTL

-----------------------------------------------------------------------------
Awake(ch) == ch.consume = "waiting" => ~ch.done

\* A consumer that waits has nothing to yield and has not been cancelled.
ConsumersAreAwake ==
  \A c \in Channels : channel[c].consume = "waiting" =>
    channel[c].messageQueue = <<>> /\ channel[c].resolved = NoDelivery /\ ~channel[c].done

\* What a callback makes of the object of a channel.
LEMMA CalledAwake ==
  ASSUME NEW ch \in ChannelImpls, NEW d \in Deliveries \cup {NoDelivery}, Awake(ch)
  PROVE  Awake(Callback(ch, d))
<1> PICK ch2 : ch2 = Callback(ch, d)
  OBVIOUS
<1>1. PICK told : told = [ch EXCEPT !.done = (d = NoDelivery) \/ ch.done]
  OBVIOUS
<1>2. told = [ch EXCEPT !.done = @ \/ d = NoDelivery]
  BY <1>1 DEF ChannelImpls
<1>3. told.consume = ch.consume /\ "consume" \in DOMAIN told
  BY <1>1 DEF ChannelImpls
<1>4. CASE ch.consume = "waiting"
  <2>1. ch2 = [told EXCEPT !.consume = "resolved", !.resolved = d]
    BY <1>2, <1>3, <1>4 DEF Callback, Wake
  <2>2. ch2.consume = "resolved"
    BY <1>3, <2>1
  <2> QED
    BY <2>2 DEF Awake
<1>5. CASE ch.consume # "waiting"
  <2>1. ch2 = told \/ ch2 = [told EXCEPT !.messageQueue = Append(@, d)]
    BY <1>2, <1>3, <1>5 DEF Callback, Push
  <2>2. ch2.consume = ch.consume
    BY <1>3, <2>1
  <2> QED
    BY <1>5, <2>2 DEF Awake
<1> QED
  BY <1>4, <1>5

LEMMA ReceivedAwake ==
  ASSUME NEW ch \in ChannelImpls, NEW f \in Frames, Awake(ch)
  PROVE  Awake(Received(ch, f))
<1> PICK ch2 : ch2 = Received(ch, f)
  OBVIOUS
<1>1. f.frame \in {"closed", "cancel", "consume-ok", "cancel-ok", "get-empty", "deliver", "get-ok"}
  BY DEF Frames
<1>2. CASE ch.closed /\ f.frame # "closed"
  BY <1>2 DEF Received
<1>3. CASE f.frame \in {"deliver", "cancel"} /\ ~ch.closed
  <2>1. f.frame = "deliver" => f.delivery \in Deliveries
    BY DEF Frames
  <2> QED
    BY <1>3, <2>1, CalledAwake DEF Received
<1>4. CASE f.frame = "consume-ok" /\ ~ch.closed
  <2>1. ch2 = [ch EXCEPT !.consume = "started"]
    BY <1>4 DEF Received
  <2>2. ch2.consume = "started"
    BY <2>1 DEF ChannelImpls
  <2> QED
    BY <2>2 DEF Awake
<1>5. CASE f.frame = "get-ok" /\ ~ch.closed
  <2>1. PICK tags : tags = IF ch.get = "asking" THEN ch.tags \cup {f.delivery} ELSE ch.tags
    OBVIOUS
  <2>2. ch2 = [ch EXCEPT !.get = "idle", !.tags = tags]
    BY <1>5, <2>1 DEF Received, ChannelImpls
  <2>3. ch2.consume = ch.consume /\ ch2.done = ch.done
    BY <2>2 DEF ChannelImpls
  <2> QED
    BY <2>3 DEF Awake
<1>6. CASE f.frame = "get-empty" /\ ~ch.closed
  <2>1. ch2 = [ch EXCEPT !.get = "idle"]
    BY <1>6 DEF Received
  <2>2. ch2.consume = ch.consume /\ ch2.done = ch.done
    BY <2>1 DEF ChannelImpls
  <2> QED
    BY <2>2 DEF Awake
<1>7. CASE f.frame = "closed"
  <2>1. PICK phase \in {ch.consume, "ended"} :
          phase = IF ch.consume \in {"starting", "cancelling"} THEN "ended" ELSE ch.consume
    OBVIOUS
  <2>2. ch2 = [ch EXCEPT !.dead = TRUE, !.get = "idle", !.consume = phase]
    BY <1>7, <2>1 DEF Received, ChannelImpls
  <2>3. ch2.consume = phase /\ ch2.done = ch.done
    BY <2>2 DEF ChannelImpls
  <2> QED
    BY <2>1, <2>3 DEF Awake
<1>8. CASE f.frame = "cancel-ok" /\ ~ch.closed
  <2>1. PICK phase \in {ch.consume, "ended"} :
          phase = IF ch.consume = "cancelling" THEN "ended" ELSE ch.consume
    OBVIOUS
  <2>2. ch2 = [ch EXCEPT !.consume = phase]
    BY <1>8, <2>1 DEF Received, ChannelImpls
  <2>3. ch2.consume = phase /\ ch2.done = ch.done
    BY <2>2 DEF ChannelImpls
  <2> QED
    BY <2>1, <2>3 DEF Awake
<1> QED
  BY <1>1, <1>2, <1>3, <1>4, <1>5, <1>6, <1>7, <1>8

\* The consumer of a channel goes to sleep only in the head of its loop.
LEMMA StaysAwake ==
  ASSUME ChannelTypeOK, \A c \in Channels : Awake(channel[c]), ChannelNext, NEW c \in Channels
  PROVE  Awake(channel'[c])
<1> USE DEF ChannelTypeOK
<1>1. CASE channel'[c] = channel[c]
  BY <1>1
<1>2. CASE /\ channel'[c].consume # "waiting"
  BY <1>2 DEF Awake
<1>3. CASE channel'[c].consume = channel[c].consume /\ channel'[c].done = channel[c].done
  BY <1>3 DEF Awake
<1> PICK b \in Channels :
    \/ BrokerDelivers(b) \/ BrokerCancels(b) \/ Code(b)
    \/ Consume(b) \/ Return(b) \/ Get(b) \/ GetGivesUp(b) \/ CloseChannel(b)
    \/ \E d \in HandedOut : ack(b, d) \/ nack(b, d) \/ reject(b, d)
  BY DEF ChannelNext
<1> PICK ch \in ChannelImpls : ch = channel[b]
  OBVIOUS
<1> PICK ch2 : ch2 = channel'[b]
  OBVIOUS
<1>4. channel \in [Channels -> ChannelImpls]
  OBVIOUS
<1>5. CASE BrokerDelivers(b) \/ BrokerCancels(b)
  BY <1>1, <1>5 DEF BrokerDelivers, BrokerCancels
<1>6. CASE \E d \in HandedOut : ack(b, d) \/ nack(b, d) \/ reject(b, d)
  BY <1>1, <1>6 DEF ack, nack, reject, Settle
<1>7. CASE ReceiveFrame(b)
  <2>1. CASE c = b
    <3>1. PICK f \in Frames : channel'[b] = Received(channel[b], f)
      <4>1. inbox[b] \in Seq(Frames) /\ inbox[b] # <<>>
        BY <1>7 DEF ReceiveFrame
      <4>2. Head(inbox[b]) \in Frames
        BY <4>1, HeadTailProperties
      <4> QED
        BY <1>7, <4>2 DEF ReceiveFrame
    <3> QED
      BY <1>4, <2>1, <3>1, ReceivedAwake
  <2>2. CASE c # b
    BY <1>1, <1>7, <2>2 DEF ReceiveFrame
  <2> QED
    BY <2>1, <2>2
<1>8. CASE Loop(b)
  <2>1. CASE c = b
    <3>1. CASE ch.done \/ ch.closed
      <4>1. \E phase \in {"cancelling", "ended"} : ch2 = [ch EXCEPT !.consume = phase]
        BY <1>4, <1>8, <3>1 DEF Loop, Finally
      <4>2. ch2.consume # "waiting"
        BY <4>1 DEF ChannelImpls
      <4> QED
        BY <1>2, <2>1, <4>2
    <3>2. CASE ~(ch.done \/ ch.closed) /\ ch.messageQueue # <<>>
      <4>1. ch2 = Yield([ch EXCEPT !.messageQueue = Tail(@)], Head(ch.messageQueue))
        BY <1>4, <1>8, <3>2 DEF Loop
      <4>2. ch2.consume = "yielded"
        BY <4>1 DEF Yield, ChannelImpls
      <4> QED
        BY <1>2, <2>1, <4>2
    <3>3. CASE ~(ch.done \/ ch.closed) /\ ch.messageQueue = <<>>
      <4>1. ch2 = [ch EXCEPT !.consume = "waiting"]
        BY <1>4, <1>8, <3>3 DEF Loop
      <4>2. ch2.done = ch.done
        BY <4>1 DEF ChannelImpls
      <4> QED
        BY <2>1, <3>3, <4>2 DEF Awake
    <3> QED
      BY <3>1, <3>2, <3>3
  <2>2. CASE c # b
    BY <1>1, <1>8, <2>2 DEF Loop, Finally
  <2> QED
    BY <2>1, <2>2
<1>9. CASE ResumeConsumer(b)
  <2>1. CASE c = b
    <3>1. \/ \E phase \in {"cancelling", "ended"} : ch2 = [ch EXCEPT !.consume = phase]
          \/ ch2 = Yield([ch EXCEPT !.resolved = NoDelivery], ch.resolved)
      BY <1>4, <1>9 DEF ResumeConsumer, Finally
    <3>2. ch2.consume # "waiting"
      BY <3>1 DEF Yield, ChannelImpls
    <3> QED
      BY <1>2, <2>1, <3>2
  <2>2. CASE c # b
    BY <1>1, <1>9, <2>2 DEF ResumeConsumer, Finally
  <2> QED
    BY <2>1, <2>2
<1>10. CASE Consume(b) \/ Return(b)
  <2>1. CASE c = b
    <3>1. \E phase \in {"cancelling", "ended", "starting"} : ch2 = [ch EXCEPT !.consume = phase]
      BY <1>4, <1>10 DEF Consume, Return, Finally
    <3>2. ch2.consume # "waiting"
      BY <3>1 DEF ChannelImpls
    <3> QED
      BY <1>2, <2>1, <3>2
  <2>2. CASE c # b
    BY <1>1, <1>10, <2>2 DEF Consume, Return, Finally
  <2> QED
    BY <2>1, <2>2
<1>11. CASE Get(b) \/ GetGivesUp(b) \/ CloseChannel(b)
  <2>1. \/ ch2 = [ch EXCEPT !.get = "asking"]
        \/ ch2 = [ch EXCEPT !.get = "gave up", !.late = @ + 1]
        \/ ch2 = [ch EXCEPT !.closed = TRUE]
    BY <1>4, <1>11 DEF Get, GetGivesUp, CloseChannel
  <2>2. ch2.consume = ch.consume /\ ch2.done = ch.done
    BY <2>1 DEF ChannelImpls
  <2>3. CASE c # b
    BY <1>1, <1>11, <2>3 DEF Get, GetGivesUp, CloseChannel
  <2> QED
    BY <1>3, <2>2, <2>3
<1> QED
  BY <1>5, <1>6, <1>7, <1>8, <1>9, <1>10, <1>11 DEF Code

(***************************************************************************)
(* No wakeup is lost: a consumer that waits has an empty queue, nothing    *)
(* was handed to its resolver, and the broker's cancellation has not       *)
(* reached it, in whatever order deliveries, cancellations, the calls of   *)
(* next() and close() come.                                                *)
(***************************************************************************)
THEOREM NoConsumerSleepsOn == ChannelSpec => []ConsumersAreAwake
<1> DEFINE AllAwake == \A c \in Channels : Awake(channel[c])
<1>1. ChannelInit => AllAwake
  BY DEF ChannelInit, Awake
<1>2. ChInv /\ AllAwake /\ [ChannelNext]_channelVars => AllAwake'
  BY StaysAwake DEF ChInv, channelVars, Awake
<1>3. ASSUME ChInv, AllAwake, NEW c \in Channels, channel[c].consume = "waiting"
      PROVE  channel[c].messageQueue = <<>> /\ channel[c].resolved = NoDelivery /\ ~channel[c].done
  <2>1. PICK b \in BrokerSides, in \in Seq(Frames), ch \in ChannelImpls :
          b = broker[c] /\ in = inbox[c] /\ ch = channel[c] /\ Good(c, b, in, ch)
    BY <1>3, OneChannel
  <2>2. Phased(in, ch) /\ Awake(ch)
    BY <1>3, <2>1 DEF Good
  <2> QED
    BY <1>3, <2>1, <2>2 DEF Phased, Awake
<1>4. ChInv /\ AllAwake => ConsumersAreAwake
  BY <1>3 DEF ConsumersAreAwake
<1> HIDE DEF AllAwake
<1> QED
  BY <1>1, <1>2, <1>4, ChannelInvariant, PTL DEF ChannelSpec

-----------------------------------------------------------------------------
\* The session of an HTTP client

AllUrls == Urls \cup {BaseUrl, ProviderUrl}
AllHeaders == Headers \cup {SessionCookie}

CookieNames == {"sid"} \cup {header.name : header \in AllHeaders}
CookieSecurity == {FALSE} \cup {header.secure : header \in AllHeaders}
CookieDomains == {url.host : url \in AllUrls} \cup {header.domain : header \in AllHeaders}
CookiePaths ==
  {<<"">>} \cup {getDefaultPath(url.path) : url \in AllUrls} \cup
  {header.path : header \in AllHeaders}

Cookies ==
  [name : CookieNames, value : {Application} \cup Callers,
   secure : CookieSecurity,
   domain : CookieDomains, path : CookiePaths, expires : SUBSET Int]

Sending == [phase : {"sent"}, url : AllUrls, cookies : SUBSET Cookies]

Answered ==
  [phase : {"answered"}, url : AllUrls, from : AllUrls, header : SUBSET AllHeaders,
   ok : BOOLEAN, session : SUBSET Logins]

Settled ==
  [phase : {"settled"}, ok : BOOLEAN, from : AllUrls, session : SUBSET Logins] \cup
  [phase : {"settled"}, ok : BOOLEAN]

Logging ==
  [phase : {"idle", "form", "authorize", "token", "ok", "failed"}, code : Logins \cup {None}]

JarTypeOK ==
  /\ now \in Int
  /\ jar \in SUBSET Cookies /\ accepted \in Seq(Cookies)
  /\ call \in [Callers -> [phase : {"idle"}] \cup Sending \cup Answered \cup Settled]

LoginTypeOK ==
  /\ login \in [Logins -> Logging]
  /\ currentToken \in Logins \cup {None}

\* A login that has a code has that of its own user.
OwnCode ==
  /\ \A l \in Logins : login[l].phase \in {"token", "ok"} => login[l].code = l
  /\ currentToken # None => login[currentToken].phase = "ok"

-----------------------------------------------------------------------------
\* parseSetCookie() makes a cookie whose domain fits the URL that has set it.
LEMMA ParsedIsACookie ==
  ASSUME NEW header \in AllHeaders, NEW url \in AllUrls, NEW value \in Callers, now \in Int
  PROVE  /\ parseSetCookie(header, url, value) \in Cookies
         /\ parseSetCookie(header, url, value).value = value
         /\ domainMatches(url.host, parseSetCookie(header, url, value).domain)
<1> DEFINE cookie == parseSetCookie(header, url, value)
<1>1. header.maxAge \in SUBSET Int
  BY HeadersAssumption DEF AllHeaders, SessionCookie
<1>2. cookie.expires \in SUBSET Int
  BY <1>1 DEF parseSetCookie
<1>3. cookie.domain \in CookieDomains
  <2>1. cookie.domain \in {header.domain, url.host}
    BY DEF parseSetCookie
  <2> QED
    BY <2>1 DEF CookieDomains
<1>4. cookie.path \in CookiePaths
  <2>1. cookie.path \in {header.path, getDefaultPath(url.path)}
    BY DEF parseSetCookie
  <2> QED
    BY <2>1 DEF CookiePaths
<1>5. cookie = [name |-> header.name, value |-> value, secure |-> header.secure,
                domain |-> cookie.domain, path |-> cookie.path, expires |-> cookie.expires]
  BY DEF parseSetCookie
<1>6. cookie \in Cookies
  <2>1. header.name \in CookieNames
    BY DEF CookieNames
  <2>2. header.secure \in CookieSecurity
    BY DEF CookieSecurity
  <2>3. \A n \in CookieNames, s \in CookieSecurity, d \in CookieDomains, p \in CookiePaths,
           e \in SUBSET Int :
          [name |-> n, value |-> value, secure |-> s, domain |-> d, path |-> p, expires |-> e]
            \in Cookies
    BY DEF Cookies
  <2> QED
    BY <1>2, <1>3, <1>4, <1>5, <2>1, <2>2, <2>3
<1>7. cookie.value = value
  BY DEF parseSetCookie
<1>8. domainMatches(url.host, cookie.domain)
  <2>1. CASE header.domain # <<>> /\ domainMatches(url.host, header.domain)
    BY <2>1 DEF parseSetCookie
  <2>2. CASE ~(header.domain # <<>> /\ domainMatches(url.host, header.domain))
    <3>1. cookie.domain = url.host
      BY <2>2 DEF parseSetCookie
    <3> QED
      BY <3>1 DEF domainMatches
  <2> QED
    BY <2>1, <2>2
<1> QED
  BY <1>6, <1>7, <1>8

\* What stays typed when a cookie is stored
LEMMA SetKeepsTypes ==
  ASSUME JarTypeOK, NEW cookie \in Cookies, set(cookie)
  PROVE  jar' \in SUBSET Cookies /\ accepted' \in Seq(Cookies)
<1>1. jar \in SUBSET Cookies /\ accepted \in Seq(Cookies)
  BY DEF JarTypeOK
<1>2. accepted' = Append(accepted, cookie)
  BY DEF set
<1>3. jar' \subseteq jar \cup {cookie}
  BY DEF set
<1> QED
  BY <1>1, <1>2, <1>3, AppendProperties

\* The call of c becomes what it may be, and the rest stays typed.
LEMMA CallKeepsTypes ==
  ASSUME JarTypeOK, NEW c \in Callers,
         NEW request \in Sending \cup Answered \cup Settled,
         call' = [call EXCEPT ![c] = request]
  PROVE  /\ call' \in [Callers -> [phase : {"idle"}] \cup Sending \cup Answered \cup Settled]
         /\ call'[c] = request
         /\ \A other \in Callers \ {c} : call'[other] = call[other]
BY DEF JarTypeOK

\* A request is sent with cookies of the jar.
LEMMA SentIsSending ==
  ASSUME JarTypeOK, NEW url \in AllUrls
  PROVE  Sent(url) \in Sending
<1>1. getCookiesForUrl(url) \in SUBSET Cookies
  BY DEF JarTypeOK, getCookiesForUrl
<1> QED
  BY <1>1 DEF Sent, Sending

-----------------------------------------------------------------------------
\* What a step may do to the requests and the jar

Asks(c) ==
  /\ c \in Calls => call[c].phase = "idle"
  /\ \E url \in AllUrls : call' = [call EXCEPT ![c] = Sent(url)]
  /\ UNCHANGED <<now, jar, accepted>>

IsAnswered(c) ==
  \E from \in AllUrls, headers \in SUBSET AllHeaders :
    /\ c \in Logins => from = ProviderUrl
    /\ Answer(c, from, headers)

Rests == now' \in Int /\ now' >= now /\ UNCHANGED <<jar, call, accepted>>

\* The steps of the session, by what they do to the jar.
LEMMA StepsOfTheJar ==
  JarTypeOK /\ [SessionNext]_sessionVars =>
    \/ \E c \in Callers : Asks(c) \/ IsAnswered(c) \/ ReadBody(c) \/ Fail(c)
    \/ setCookie \/ clearCookies \/ Rests
<1> SUFFICES ASSUME JarTypeOK, [SessionNext]_sessionVars
             PROVE  \/ \E c \in Callers : Asks(c) \/ IsAnswered(c) \/ ReadBody(c) \/ Fail(c)
                    \/ setCookie \/ clearCookies \/ Rests
  OBVIOUS
<1>0. ProviderUrl \in AllUrls /\ Urls \subseteq AllUrls /\ Calls \subseteq Callers /\ Logins \subseteq Callers
  BY DEF AllUrls, Callers
<1>1. ASSUME NEW c \in Calls, Request(c)
      PROVE  Asks(c)
  BY <1>0, <1>1 DEF Request, Asks
<1>2. ASSUME NEW c \in Calls, ServerAnswers(c)
      PROVE  IsAnswered(c)
  <2>1. c \notin Logins /\ Headers \in SUBSET AllHeaders
    BY CallersAssumption DEF AllHeaders
  <2> QED
    BY <1>0, <1>2, <2>1 DEF ServerAnswers, IsAnswered
<1>3. ASSUME NEW l \in Logins, Ask(l), UNCHANGED <<now, jar, accepted>>
      PROVE  Asks(l)
  <2>1. l \notin Calls
    BY CallersAssumption
  <2> QED
    BY <1>0, <1>3, <2>1 DEF Ask, Asks
<1>4. ASSUME UNCHANGED <<now, jar, call, accepted>>
      PROVE  Rests
  BY <1>4 DEF Rests, JarTypeOK
<1>5. ASSUME NEW l \in Logins, Login(l) \/ Authorize(l) \/ Exchange(l) \/ Obtain(l)
      PROVE  Asks(l) \/ Rests
  <2>1. UNCHANGED <<now, jar, accepted>>
    BY <1>5 DEF Login, Authorize, Exchange, Obtain
  <2>2. Ask(l) \/ UNCHANGED call
    BY <1>5 DEF Login, Authorize, Exchange, Obtain, LoginFails
  <2> QED
    BY <1>3, <1>4, <2>1, <2>2
<1>6. ASSUME NEW l \in Logins, ProviderAnswers(l)
      PROVE  IsAnswered(l)
  <2>1. {SessionCookie} \in SUBSET AllHeaders
    BY DEF AllHeaders
  <2> QED
    BY <1>0, <1>6, <2>1 DEF ProviderAnswers, IsAnswered
<1>7. CASE logout \/ Tick \/ UNCHANGED sessionVars
  BY <1>7 DEF logout, Tick, sessionVars, Rests, JarTypeOK
<1> QED
  BY <1>0, <1>1, <1>2, <1>5, <1>6, <1>7 DEF SessionNext

-----------------------------------------------------------------------------
\* Every step keeps the types of the jar and of the calls.
LEMMA JarStaysTyped == JarTypeOK /\ [SessionNext]_sessionVars => JarTypeOK'
<1> SUFFICES ASSUME JarTypeOK, [SessionNext]_sessionVars
             PROVE  JarTypeOK'
  OBVIOUS
<1> DEFINE Calling == [Callers -> [phase : {"idle"}] \cup Sending \cup Answered \cup Settled]
<1>0. /\ now \in Int /\ jar \in SUBSET Cookies /\ accepted \in Seq(Cookies)
      /\ call \in Calling
  BY DEF JarTypeOK
<1>1. ASSUME NEW c \in Callers, Asks(c)
      PROVE  JarTypeOK'
  <2>1. PICK url \in AllUrls : call' = [call EXCEPT ![c] = Sent(url)]
    BY <1>1 DEF Asks
  <2>2. call' \in Calling
    BY <2>1, SentIsSending, CallKeepsTypes
  <2> QED
    BY <1>0, <1>1, <2>2 DEF Asks, JarTypeOK
<1>2. ASSUME NEW c \in Callers, IsAnswered(c)
      PROVE  JarTypeOK'
  <2>1. PICK from \in AllUrls, headers \in SUBSET AllHeaders : Answer(c, from, headers)
    BY <1>2 DEF IsAnswered
  <2>2. PICK ok \in BOOLEAN, header \in {{}} \cup {{h} : h \in headers} :
          call' = [call EXCEPT ![c] = [phase |-> "answered", url |-> @.url, from |-> from,
                                       header |-> header, ok |-> ok, session |-> Sessions(@)]]
    BY <2>1 DEF Answer
  <2>3. call[c] \in Sending
    BY <1>0, <2>1 DEF Answer, Sending, Answered, Settled
  <2>4. Sessions(call[c]) \in SUBSET Logins /\ header \in SUBSET AllHeaders /\ call[c].url \in AllUrls
    BY <2>3 DEF Sessions, Sending
  <2>5. [phase |-> "answered", url |-> call[c].url, from |-> from,
         header |-> header, ok |-> ok, session |-> Sessions(call[c])] \in Answered
    BY <2>4 DEF Answered
  <2>6. call' = [call EXCEPT ![c] = [phase |-> "answered", url |-> call[c].url, from |-> from,
                                     header |-> header, ok |-> ok, session |-> Sessions(call[c])]]
    BY <2>2
  <2>7. call' \in Calling
    BY <2>5, <2>6, CallKeepsTypes
  <2>8. UNCHANGED <<now, jar, accepted>>
    BY <2>1 DEF Answer
  <2> QED
    BY <1>0, <2>7, <2>8 DEF JarTypeOK
<1>3. ASSUME NEW c \in Callers, ReadBody(c)
      PROVE  JarTypeOK'
  <2>1. call[c] \in Answered
    BY <1>0, <1>3 DEF ReadBody, Sending, Answered, Settled
  <2>2. [phase |-> "settled", ok |-> call[c].ok, from |-> call[c].from,
         session |-> call[c].session] \in Settled
    BY <2>1 DEF Answered, Settled
  <2>3. call' = [call EXCEPT ![c] = [phase |-> "settled", ok |-> call[c].ok,
                                     from |-> call[c].from, session |-> call[c].session]]
    BY <1>3 DEF ReadBody
  <2>4. call' \in Calling
    BY <2>2, <2>3, CallKeepsTypes
  <2>5. jar' \in SUBSET Cookies /\ accepted' \in Seq(Cookies)
    <3>1. CASE call[c].header = {}
      BY <1>0, <1>3, <3>1 DEF ReadBody
    <3>2. CASE call[c].header # {}
      <4>1. PICK header \in call[c].header : set(parseSetCookie(header, ResponseUrl(c), c))
        BY <1>3, <3>2 DEF ReadBody
      <4>2. header \in AllHeaders /\ ResponseUrl(c) \in AllUrls
        BY <2>1 DEF Answered, ResponseUrl
      <4>3. parseSetCookie(header, ResponseUrl(c), c) \in Cookies
        BY <1>0, <4>2, ParsedIsACookie
      <4> QED
        BY <4>1, <4>3, SetKeepsTypes
    <3> QED
      BY <3>1, <3>2
  <2> QED
    BY <1>0, <1>3, <2>4, <2>5 DEF ReadBody, JarTypeOK
<1>4. ASSUME NEW c \in Callers, Fail(c)
      PROVE  JarTypeOK'
  <2>1. [phase |-> "settled", ok |-> FALSE] \in Settled
    BY DEF Settled
  <2>2. call' \in Calling
    BY <1>4, <2>1, CallKeepsTypes DEF Fail
  <2> QED
    BY <1>0, <1>4, <2>2 DEF Fail, JarTypeOK
<1>5. CASE setCookie
  <2> DEFINE cookie == [name |-> "sid", value |-> Application, secure |-> FALSE,
                        domain |-> BaseUrl.host, path |-> <<"">>, expires |-> {}]
  <2>1. cookie \in Cookies
    BY DEF Cookies, CookieNames, CookieSecurity, CookieDomains, CookiePaths, AllUrls
  <2>2. set(cookie) /\ UNCHANGED <<now, call>>
    BY <1>5 DEF setCookie
  <2> QED
    BY <1>0, <2>1, <2>2, SetKeepsTypes DEF JarTypeOK
<1>6. CASE clearCookies
  BY <1>0, <1>6, EmptySeq DEF clearCookies, JarTypeOK
<1>7. CASE Rests
  BY <1>0, <1>7 DEF Rests, JarTypeOK
<1> QED
  BY <1>1, <1>2, <1>3, <1>4, <1>5, <1>6, <1>7, StepsOfTheJar

-----------------------------------------------------------------------------
LastOfKey(i) == \A j \in i + 1 .. Len(accepted) : Key(accepted[j]) # Key(accepted[i])

\* The jar holds the last cookie of each key, but those that had expired when they came.
Remembered ==
  /\ \A cookie \in jar : \E i \in DOMAIN accepted : cookie = accepted[i] /\ LastOfKey(i)
  /\ \A i \in DOMAIN accepted : LastOfKey(i) => accepted[i] \in jar \/ Expired(accepted[i])

\* A cookie that is set takes the place of the one with its key, in the jar and in the history.
LEMMA SetRemembers ==
  ASSUME JarTypeOK, Remembered, NEW cookie \in Cookies, set(cookie), UNCHANGED now
  PROVE  Remembered'
<1>0. PICK n \in Nat : n = Len(accepted)
  BY LenProperties DEF JarTypeOK
<1>1. /\ accepted' \in Seq(Cookies) /\ Len(accepted') = n + 1
      /\ \A i \in 1 .. n : accepted'[i] = accepted[i]
      /\ accepted'[n + 1] = cookie
  BY <1>0, AppendProperties DEF set, JarTypeOK
<1>2. DOMAIN accepted = 1 .. n /\ DOMAIN accepted' = 1 .. n + 1
  BY <1>0, <1>1, LenProperties DEF JarTypeOK
<1>3. ASSUME NEW i \in 1 .. n
      PROVE  LastOfKey(i)' <=> LastOfKey(i) /\ Key(cookie) # Key(accepted[i])
  <2>1. i + 1 .. n + 1 = (i + 1 .. n) \cup {n + 1}
    BY <1>1
  <2>2. i + 1 .. n \subseteq 1 .. n
    BY <1>1
  <2>3. LastOfKey(i)' <=> \A j \in i + 1 .. n + 1 : Key(accepted'[j]) # Key(accepted'[i])
    BY <1>1 DEF LastOfKey, Key
  <2> QED
    BY <1>0, <1>1, <2>1, <2>2, <2>3 DEF LastOfKey
<1>4. LastOfKey(n + 1)'
  BY <1>1 DEF LastOfKey
<1>5. jar' = {d \in jar : Key(d) # Key(cookie)} \cup (IF Expired(cookie) THEN {} ELSE {cookie})
  BY DEF set
<1>6. ASSUME NEW d \in jar'
      PROVE  \E i \in 1 .. n + 1 : d = accepted'[i] /\ LastOfKey(i)'
  <2>1. CASE d \in jar /\ Key(d) # Key(cookie)
    <3>1. PICK i \in 1 .. n : d = accepted[i] /\ LastOfKey(i)
      BY <1>2, <2>1 DEF Remembered
    <3>2. LastOfKey(i)' /\ d = accepted'[i]
      BY <1>1, <1>3, <2>1, <3>1
    <3> QED
      BY <1>1, <3>2
  <2>2. CASE d = cookie
    BY <1>1, <1>4, <2>2
  <2> QED
    BY <1>5, <2>1, <2>2
<1>7. ASSUME NEW i \in 1 .. n + 1, LastOfKey(i)'
      PROVE  accepted'[i] \in jar' \/ \E t \in accepted'[i].expires : t < now'
  <2>1. CASE i \in 1 .. n
    <3>1. LastOfKey(i) /\ Key(cookie) # Key(accepted[i]) /\ accepted'[i] = accepted[i]
      BY <1>1, <1>3, <1>7, <2>1
    <3>2. accepted[i] \in jar \/ Expired(accepted[i])
      BY <1>2, <2>1, <3>1 DEF Remembered
    <3> QED
      BY <1>5, <3>1, <3>2 DEF Expired
  <2>2. CASE i = n + 1
    BY <1>1, <1>5, <2>2 DEF Expired
  <2> QED
    BY <1>1, <2>1, <2>2
<1> QED
  BY <1>2, <1>6, <1>7 DEF Remembered, Expired

-----------------------------------------------------------------------------
\* Who set a cookie is in its domain, and a request that has set one is over.
AtHome(cookie) ==
  \/ cookie.value = Application /\ domainMatches(BaseUrl.host, cookie.domain)
  \/ cookie.value \in Logins /\ domainMatches(ProviderUrl.host, cookie.domain)
  \/ /\ cookie.value \in Calls /\ call[cookie.value].phase = "settled"
     /\ domainMatches(call[cookie.value].from.host, cookie.domain)

Homes ==
  /\ \A cookie \in jar : AtHome(cookie)
  /\ \A c \in Callers : call[c].phase = "sent" =>
       \A cookie \in call[c].cookies :
         /\ AtHome(cookie)
         /\ domainMatches(call[c].url.host, cookie.domain)
         /\ cookie.secure => call[c].url.https
  /\ \A l \in Logins : call[l].phase = "answered" => call[l].from = ProviderUrl

JarInv == JarTypeOK /\ Homes /\ Remembered

\* A call of the application is made once.
LEMMA HomesStay ==
  ASSUME JarTypeOK, NEW c \in Callers, c \in Calls => call[c].phase # "settled",
         \A other \in Callers \ {c} : call'[other] = call[other]
  PROVE  \A cookie : AtHome(cookie) => AtHome(cookie)'
<1> TAKE cookie
<1> HAVE AtHome(cookie)
<1>1. CASE cookie.value \in Calls /\ call[cookie.value].phase = "settled"
  <2>1. cookie.value \in Callers \ {c}
    BY <1>1 DEF Callers
  <2>2. call'[cookie.value] = call[cookie.value]
    BY <2>1
  <2> QED
    BY <2>2 DEF AtHome
<1>2. CASE ~(cookie.value \in Calls /\ call[cookie.value].phase = "settled")
  BY <1>2 DEF AtHome
<1> QED
  BY <1>1, <1>2

\* The header of a response sets a cookie of the response's own host.
LEMMA ResponseAtHome ==
  ASSUME JarTypeOK, Homes, NEW c \in Callers, ReadBody(c), call[c].header # {}
  PROVE  \E cookie \in Cookies : set(cookie) /\ AtHome(cookie)'
<1>1. call[c] \in Answered /\ now \in Int
  BY DEF JarTypeOK, ReadBody, Sending, Answered, Settled
<1>2. PICK header \in call[c].header : set(parseSetCookie(header, ResponseUrl(c), c))
  BY DEF ReadBody
<1>3. header \in AllHeaders /\ ResponseUrl(c) \in AllUrls
  BY <1>1 DEF Answered, ResponseUrl
<1>4. PICK cookie \in Cookies : cookie = parseSetCookie(header, ResponseUrl(c), c)
  BY <1>1, <1>3, ParsedIsACookie
<1>5. cookie.value = c /\ domainMatches(ResponseUrl(c).host, cookie.domain) /\ set(cookie)
  BY <1>1, <1>2, <1>3, <1>4, ParsedIsACookie
<1>6. CASE c \in Calls
  <2>1. call'[c].phase = "settled" /\ call'[c].from = ResponseUrl(c)
    BY DEF JarTypeOK, ReadBody, ResponseUrl
  <2>2. AtHome(cookie)'
    BY <1>5, <1>6, <2>1 DEF AtHome
  <2> QED
    BY <1>5, <2>2
<1>7. CASE c \in Logins
  <2>1. ResponseUrl(c) = ProviderUrl
    BY <1>7 DEF Homes, ReadBody, ResponseUrl
  <2>2. AtHome(cookie)'
    BY <1>5, <1>7, <2>1 DEF AtHome
  <2> QED
    BY <1>5, <2>2
<1> QED
  BY <1>6, <1>7 DEF Callers

\* Cookies that come are stored, and no request is sent.
LEMMA HomesGrow ==
  ASSUME JarTypeOK, Homes, NEW c \in Callers,
         c \in Calls => call[c].phase # "settled",
         \A other \in Callers \ {c} : call'[other] = call[other],
         call'[c].phase # "sent", c \in Logins => call'[c].phase # "answered" \/ call'[c].from = ProviderUrl,
         \A cookie \in jar' : cookie \in jar \/ AtHome(cookie)'
  PROVE  Homes'
<1>1. \A cookie \in jar' : AtHome(cookie)'
  BY HomesStay DEF Homes
<1>2. ASSUME NEW d \in Callers, call'[d].phase = "sent"
      PROVE  \A cookie \in call'[d].cookies :
               /\ AtHome(cookie)'
               /\ domainMatches(call'[d].url.host, cookie.domain)
               /\ cookie.secure => call'[d].url.https
  <2>1. d # c /\ call'[d] = call[d]
    BY <1>2
  <2> QED
    BY <1>2, <2>1, HomesStay DEF Homes
<1>3. ASSUME NEW l \in Logins, call'[l].phase = "answered"
      PROVE  call'[l].from = ProviderUrl
  <2>1. l \in Callers
    BY DEF Callers
  <2> QED
    BY <1>3, <2>1 DEF Homes
<1> QED
  BY <1>1, <1>2, <1>3 DEF Homes, domainMatches

\* Every step keeps cookies at home and the jar true to its history.
LEMMA JarStaysTrue == JarInv /\ [SessionNext]_sessionVars => JarInv'
<1> SUFFICES ASSUME JarInv, [SessionNext]_sessionVars
             PROVE  JarInv'
  OBVIOUS
<1>0. JarTypeOK /\ JarTypeOK' /\ Homes /\ Remembered
  BY JarStaysTyped DEF JarInv
<1>1. ASSUME UNCHANGED <<jar, accepted>>, now' \in Int, now' >= now
      PROVE  Remembered'
  <2>1. \A cookie \in Cookies : Expired(cookie) => Expired(cookie)'
    <3> TAKE cookie \in Cookies
    <3> HAVE Expired(cookie)
    <3>1. cookie.expires \in SUBSET Int /\ now \in Int
      BY <1>0 DEF JarTypeOK, Cookies
    <3> QED
      BY <1>1, <3>1 DEF Expired
  <2>2. \A i \in DOMAIN accepted : accepted[i] \in Cookies
    BY <1>0, LenProperties, ElementOfSeq DEF JarTypeOK
  <2>3. \A i \in DOMAIN accepted : LastOfKey(i)' <=> LastOfKey(i)
    BY <1>1 DEF LastOfKey
  <2>4. ASSUME NEW i \in DOMAIN accepted, LastOfKey(i)
        PROVE  accepted[i] \in jar \/ \E t \in accepted[i].expires : t < now'
    <3>1. PICK cookie \in Cookies : cookie = accepted[i]
      BY <2>2
    <3>2. cookie \in jar \/ Expired(cookie)
      BY <1>0, <2>4, <3>1 DEF Remembered
    <3> QED
      BY <2>1, <3>1, <3>2 DEF Expired
  <2> QED
    BY <1>0, <1>1, <2>3, <2>4 DEF Remembered, Expired
<1>2. ASSUME NEW c \in Callers, Asks(c)
      PROVE  Homes' /\ Remembered'
  <2>1. PICK url \in AllUrls : call' = [call EXCEPT ![c] = Sent(url)]
    BY <1>2 DEF Asks
  <2>2. /\ \A other \in Callers \ {c} : call'[other] = call[other]
        /\ call'[c] = Sent(url)
    BY <1>0, <2>1, SentIsSending, CallKeepsTypes
  <2>3. \A cookie : AtHome(cookie) => AtHome(cookie)'
    BY <1>0, <1>2, <2>2, HomesStay DEF Asks
  <2>4. \A cookie \in jar' : AtHome(cookie)'
    BY <1>0, <1>2, <2>3 DEF Asks, Homes
  <2>5. ASSUME NEW d \in Callers, call'[d].phase = "sent"
        PROVE  \A cookie \in call'[d].cookies :
                 /\ AtHome(cookie)'
                 /\ domainMatches(call'[d].url.host, cookie.domain)
                 /\ cookie.secure => call'[d].url.https
    <3>1. CASE d = c
      <4>1. call'[c].url = url /\ call'[c].cookies = getCookiesForUrl(url)
        BY <2>2 DEF Sent
      <4>2. \A cookie \in getCookiesForUrl(url) :
              /\ cookie \in jar /\ domainMatches(url.host, cookie.domain)
              /\ cookie.secure => url.https
        BY DEF getCookiesForUrl, Fits
      <4> QED
        BY <1>0, <2>3, <3>1, <4>1, <4>2 DEF Homes
    <3>2. CASE d # c
      <4>1. call'[d] = call[d]
        BY <2>2, <3>2
      <4> QED
        BY <1>0, <2>3, <2>5, <4>1 DEF Homes
    <3> QED
      BY <3>1, <3>2
  <2>6. ASSUME NEW l \in Logins, call'[l].phase = "answered"
        PROVE  call'[l].from = ProviderUrl
    <3>1. l \in Callers
      BY DEF Callers
    <3>2. l # c
      BY <2>2, <2>6 DEF Sent
    <3> QED
      BY <1>0, <2>2, <2>6, <3>1, <3>2 DEF Homes
  <2>7. Remembered'
    BY <1>0, <1>1, <1>2 DEF Asks, JarTypeOK
  <2> QED
    BY <2>4, <2>5, <2>6, <2>7 DEF Homes, domainMatches
<1>3. ASSUME NEW c \in Callers, IsAnswered(c)
      PROVE  Homes' /\ Remembered'
  <2>1. PICK from \in AllUrls, headers \in SUBSET AllHeaders :
          (c \in Logins => from = ProviderUrl) /\ Answer(c, from, headers)
    BY <1>3 DEF IsAnswered
  <2>2. /\ call[c].phase = "sent" /\ UNCHANGED <<now, jar, accepted>>
        /\ call'[c].phase = "answered" /\ call'[c].from = from
        /\ \A other \in Callers \ {c} : call'[other] = call[other]
    BY <1>0, <2>1 DEF Answer, JarTypeOK
  <2>3. Homes'
    BY <1>0, <2>1, <2>2, HomesGrow
  <2> QED
    BY <1>0, <1>1, <2>2, <2>3 DEF JarTypeOK
<1>4. ASSUME NEW c \in Callers, ReadBody(c)
      PROVE  Homes' /\ Remembered'
  <2>1. /\ call[c].phase = "answered" /\ UNCHANGED now
        /\ call'[c].phase = "settled"
        /\ \A other \in Callers \ {c} : call'[other] = call[other]
    BY <1>0, <1>4 DEF ReadBody, JarTypeOK
  <2>2. CASE call[c].header = {}
    <3>1. UNCHANGED <<jar, accepted>>
      BY <1>4, <2>2 DEF ReadBody
    <3>2. Homes'
      BY <1>0, <2>1, <3>1, HomesGrow
    <3> QED
      BY <1>0, <1>1, <2>1, <3>1, <3>2 DEF JarTypeOK
  <2>3. CASE call[c].header # {}
    <3>1. PICK cookie \in Cookies : set(cookie) /\ AtHome(cookie)'
      BY <1>0, <1>4, <2>3, ResponseAtHome
    <3>2. \A d \in jar' : d \in jar \/ AtHome(d)'
      BY <3>1 DEF set
    <3>3. Homes'
      BY <1>0, <2>1, <3>2, HomesGrow
    <3>4. Remembered'
      BY <1>0, <2>1, <3>1, SetRemembers
    <3> QED
      BY <3>3, <3>4
  <2> QED
    BY <2>2, <2>3
<1>5. ASSUME NEW c \in Callers, Fail(c)
      PROVE  Homes' /\ Remembered'
  <2>1. /\ call[c].phase # "settled" /\ UNCHANGED <<now, jar, accepted>>
        /\ call'[c].phase = "settled"
        /\ \A other \in Callers \ {c} : call'[other] = call[other]
    BY <1>0, <1>5 DEF Fail, JarTypeOK
  <2>2. Homes'
    BY <1>0, <2>1, HomesGrow
  <2> QED
    BY <1>0, <1>1, <2>1, <2>2 DEF JarTypeOK
<1>6. ASSUME setCookie
      PROVE  Homes' /\ Remembered'
  <2> DEFINE own == [name |-> "sid", value |-> Application, secure |-> FALSE,
                     domain |-> BaseUrl.host, path |-> <<"">>, expires |-> {}]
  <2>1. own \in Cookies
    BY DEF Cookies, CookieNames, CookieSecurity, CookieDomains, CookiePaths, AllUrls
  <2>2. set(own) /\ UNCHANGED <<now, call>>
    BY <1>6 DEF setCookie
  <2>3. PICK cookie \in Cookies : cookie = own /\ set(cookie)
    BY <2>1, <2>2
  <2>4. AtHome(cookie)'
    BY <2>3 DEF AtHome, domainMatches
  <2>5. \A d \in jar' : d \in jar \/ d = cookie
    BY <2>3 DEF set
  <2>6. Remembered'
    BY <1>0, <2>2, <2>3, SetRemembers
  <2>7. \A d : AtHome(d) => AtHome(d)'
    BY <2>2 DEF AtHome
  <2>8. Homes'
    BY <1>0, <2>2, <2>4, <2>5, <2>7 DEF Homes, domainMatches
  <2> QED
    BY <2>6, <2>8
<1>7. ASSUME clearCookies
      PROVE  Homes' /\ Remembered'
  <2>1. \A d : AtHome(d) => AtHome(d)'
    BY <1>7 DEF clearCookies, AtHome
  <2>2. Homes'
    BY <1>0, <1>7, <2>1 DEF clearCookies, Homes, domainMatches
  <2>3. jar' = {} /\ DOMAIN accepted' = {}
    BY <1>7 DEF clearCookies
  <2>4. Remembered'
    BY <2>3 DEF Remembered
  <2> QED
    BY <2>2, <2>4
<1>8. ASSUME Rests
      PROVE  Homes' /\ Remembered'
  <2>1. \A d : AtHome(d) => AtHome(d)'
    BY <1>8 DEF Rests, AtHome
  <2>2. Homes'
    BY <1>0, <1>8, <2>1 DEF Rests, Homes, domainMatches
  <2> QED
    BY <1>1, <1>8, <2>2 DEF Rests
<1>9. Homes' /\ Remembered'
  BY <1>0, <1>2, <1>3, <1>4, <1>5, <1>6, <1>7, <1>8, StepsOfTheJar
<1> QED
  BY <1>0, <1>9 DEF JarInv

-----------------------------------------------------------------------------
\* Each action of a login changes only its own phase and code.
LEMMA LoginStaysOwn ==
  LoginTypeOK /\ OwnCode /\ [SessionNext]_sessionVars => LoginTypeOK' /\ OwnCode'
<1> SUFFICES ASSUME LoginTypeOK, OwnCode, [SessionNext]_sessionVars
             PROVE  LoginTypeOK' /\ OwnCode'
  OBVIOUS
<1>0. None \notin Logins
  BY CallersAssumption
<1>1. CASE UNCHANGED <<login, currentToken>>
  BY <1>1 DEF LoginTypeOK, OwnCode
\* A login that is not over yet goes to a phase with a code of its own or none.
<1>2. ASSUME NEW l \in Logins, login[l].phase # "ok", NEW phase \in {"form", "authorize", "token", "failed"},
             NEW code \in Logins \cup {None}, To(l, phase, code), UNCHANGED currentToken,
             phase = "token" => code = l
      PROVE  LoginTypeOK' /\ OwnCode'
  <2>1. /\ login \in [Logins -> Logging]
        /\ login' = [login EXCEPT ![l] = [@ EXCEPT !.phase = phase, !.code = code]]
    BY <1>2 DEF LoginTypeOK, To
  <2>2. login[l] \in Logging
    BY <2>1
  <2>3. login'[l] = [phase |-> phase, code |-> code]
    BY <2>1, <2>2 DEF Logging
  <2>4. \A k \in Logins \ {l} : login'[k] = login[k]
    BY <2>1
  <2>5. [phase |-> phase, code |-> code] \in Logging
    BY DEF Logging
  <2>6. LoginTypeOK'
    BY <1>2, <2>1, <2>2, <2>3, <2>5 DEF LoginTypeOK
  <2>7. OwnCode'
    BY <1>0, <1>2, <2>3, <2>4 DEF LoginTypeOK, OwnCode
  <2> QED
    BY <2>6, <2>7
<1>3. ASSUME NEW l \in Logins, Login(l)
      PROVE  LoginTypeOK' /\ OwnCode'
  <2>1. login[l].phase = "idle" /\ UNCHANGED currentToken
    BY <1>3 DEF Login
  <2>2. login' = [login EXCEPT ![l].phase = "form"]
    BY <1>3 DEF Login
  <2>3. LoginTypeOK'
    BY <2>1, <2>2 DEF LoginTypeOK, Logging
  <2>4. OwnCode'
    BY <1>0, <2>1, <2>2 DEF LoginTypeOK, OwnCode, Logging
  <2> QED
    BY <2>3, <2>4
<1>4. ASSUME NEW l \in Logins, Authorize(l)
      PROVE  LoginTypeOK' /\ OwnCode'
  BY <1>2, <1>4 DEF Authorize, Awaited, LoginFails
<1>5. ASSUME NEW l \in Logins, Exchange(l)
      PROVE  LoginTypeOK' /\ OwnCode'
  BY <1>2, <1>5 DEF Exchange, Awaited, LoginFails, StateMatches
<1>6. ASSUME NEW l \in Logins, Obtain(l)
      PROVE  LoginTypeOK' /\ OwnCode'
  <2>1. CASE LoginFails(l)
    BY <1>2, <1>6, <2>1 DEF Obtain, Awaited, LoginFails
  <2>2. CASE To(l, "ok", login[l].code) /\ currentToken' = login[l].code
    <3>1. login[l].code = l
      BY <1>6 DEF Obtain, Awaited, OwnCode
    <3> QED
      BY <1>0, <2>2, <3>1 DEF LoginTypeOK, OwnCode, To, Logging
  <2> QED
    BY <1>6, <2>1, <2>2 DEF Obtain
<1>7. CASE logout
  BY <1>7 DEF logout, LoginTypeOK, OwnCode
<1> QED
  BY <1>1, <1>3, <1>4, <1>5, <1>6, <1>7
     DEF SessionNext, Request, ServerAnswers, ProviderAnswers, Answer, ReadBody, Fail,
         setCookie, clearCookies, Tick, sessionVars

\* What the theorems rest on holds at first,
LEMMA SessionInitInvariant == SessionInit => JarInv /\ LoginTypeOK /\ OwnCode
<1> SUFFICES ASSUME SessionInit
             PROVE  JarInv /\ LoginTypeOK /\ OwnCode
  OBVIOUS
<1>1. \A c \in Callers : call[c] = [phase |-> "idle"]
  BY DEF SessionInit
<1>2. JarTypeOK
  BY EmptySeq DEF SessionInit, JarTypeOK
<1>3. Homes
  BY <1>1 DEF SessionInit, Homes, Callers
<1>4. Remembered
  BY DEF SessionInit, Remembered
<1>5. LoginTypeOK /\ OwnCode
  BY CallersAssumption DEF SessionInit, LoginTypeOK, OwnCode, Logging
<1> QED
  BY <1>2, <1>3, <1>4, <1>5 DEF JarInv

\* and always.
LEMMA SessionInvariant == SessionSpec => [](JarInv /\ LoginTypeOK /\ OwnCode)
<1> QED
  BY SessionInitInvariant, JarStaysTrue, LoginStaysOwn, PTL DEF SessionSpec

-----------------------------------------------------------------------------
(***************************************************************************)
(* For any servers, headers and redirects, and any number of calls, logins *)
(* and cookies: a cookie goes only to hosts in a domain of the host that   *)
(* set it.  A cookie is stored with a domain that the host which answered  *)
(* belongs to, and #request sends it only where that domain matches.       *)
(***************************************************************************)
THEOREM CookiesNeverStray == SessionSpec => []CookiesStayAtHome
<1>1. JarInv => CookiesStayAtHome
  <2> SUFFICES ASSUME JarInv, NEW c \in Callers, call[c].phase = "sent", NEW cookie \in call[c].cookies
               PROVE  /\ domainMatches(Origin(cookie).host, cookie.domain)
                      /\ domainMatches(call[c].url.host, cookie.domain)
                      /\ cookie.secure => call[c].url.https
    BY DEF CookiesStayAtHome
  <2>1. /\ AtHome(cookie)
        /\ domainMatches(call[c].url.host, cookie.domain)
        /\ cookie.secure => call[c].url.https
    BY DEF JarInv, Homes
  <2>2. domainMatches(Origin(cookie).host, cookie.domain)
    <3>1. CASE cookie.value = Application
      BY <2>1, <3>1, CallersAssumption DEF AtHome, Origin, Callers
    <3>2. CASE cookie.value \in Logins
      BY <2>1, <3>2, CallersAssumption DEF AtHome, Origin, Callers
    <3>3. CASE cookie.value \in Calls
      BY <2>1, <3>3, CallersAssumption DEF AtHome, Origin, Callers
    <3> QED
      BY <2>1, <3>1, <3>2, <3>3 DEF AtHome
  <2> QED
    BY <2>1, <2>2
<1> QED
  BY <1>1, SessionInvariant, PTL

(***************************************************************************)
(* In whatever order responses, logins and setCookie change the jar, it    *)
(* would send for each key the last cookie accepted, unless that has       *)
(* expired.                                                                *)
(***************************************************************************)
THEOREM JarNeverForgets == SessionSpec => []JarIsTheHistory
<1>1. JarInv => JarIsTheHistory
  <2> SUFFICES ASSUME JarInv, NEW url \in Urls
               PROVE  getCookiesForUrl(url) =
                        {accepted[i] : i \in {j \in DOMAIN accepted :
                                                LastOfKey(j) /\ Fits(accepted[j], url)}}
    BY DEF JarIsTheHistory, LastOfKey, Key
  <2>1. ASSUME NEW cookie \in getCookiesForUrl(url)
        PROVE  \E i \in DOMAIN accepted :
                 cookie = accepted[i] /\ LastOfKey(i) /\ Fits(accepted[i], url)
    <3>1. cookie \in jar /\ Fits(cookie, url)
      BY DEF getCookiesForUrl
    <3> QED
      BY <3>1 DEF JarInv, Remembered
  <2>2. ASSUME NEW i \in DOMAIN accepted, LastOfKey(i), Fits(accepted[i], url)
        PROVE  accepted[i] \in getCookiesForUrl(url)
    <3>1. accepted[i] \in jar
      BY <2>2 DEF JarInv, Remembered, Fits
    <3> QED
      BY <2>2, <3>1 DEF getCookiesForUrl
  <2> QED
    BY <2>1, <2>2
<1> QED
  BY <1>1, SessionInvariant, PTL

(***************************************************************************)
(* Logins that overlap, however many, end with the token of their own user *)
(* or fail: oidc.ts exchanges a code only if it came with the state of the *)
(* login that asks.                                                        *)
(***************************************************************************)
THEOREM LoginsStayApart == SessionSpec => []LoginsDoNotMix
<1>1. LoginTypeOK /\ OwnCode => LoginsDoNotMix
  BY DEF LoginTypeOK, OwnCode, LoginsDoNotMix
<1> QED
  BY <1>1, SessionInvariant, PTL

=============================================================================
