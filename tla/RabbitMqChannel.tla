--------------------------- MODULE RabbitMqChannel ---------------------------
(***************************************************************************)
(* Channels of probitas-client-rabbitmq on one queue of the broker: the    *)
(* async generator consume(), get(), settling of messages by ack(), nack() *)
(* and reject(), and close().  The broker and amqplib are external: a      *)
(* command reaches the broker at once, its frames reach the channel later  *)
(* and in order, delivery tags count up on each channel, and the broker    *)
(* closes a channel that sends it a tag it does not know.                  *)
(***************************************************************************)
EXTENDS Integers, SequencesExt, FiniteSets

CONSTANTS
  Channels, Messages,
  Consuming, Getting,  \* the channels on which consume() and get() are called
  MaxTag,              \* bound on the deliveries on each channel
  MaxLate              \* bound on the get() that give up

ASSUME ChannelAssumption ==
  IsFiniteSet(Messages) /\ MaxTag \in [Channels -> Nat] /\ MaxLate \in Nat

VARIABLES
  ready,     \* the messages that the broker holds ready
  broker,    \* its side of each channel
  inbox,     \* what it has sent to each channel
  channel,   \* the RabbitMqChannelImpl of each channel and its amqplib channel
  released   \* the messages that the application has settled for good

channelVars == <<ready, broker, inbox, channel, released>>

NoDelivery == [tag |-> 0]
\* A delivery; the application gets an object of its own for each.
Delivery(c, tag, msg) == [on |-> c, tag |-> tag, msg |-> msg]

ChannelInit ==
  /\ ready = SetToSeq(Messages)
  /\ broker = [c \in Channels |-> [open |-> TRUE, consumer |-> "none",
                                   unsettled |-> {}, lastTag |-> 0]]
  /\ inbox = [c \in Channels |-> <<>>]
  /\ channel =
       [c \in Channels |->
          [closed |-> FALSE,      \* #closed
           dead |-> FALSE,        \* amqplib knows that the broker has closed it
           get |-> "idle",        \* a pending get()
           late |-> 0,            \* how many get() have given up so far
           consume |-> "idle",    \* where the generator is
           messageQueue |-> <<>>,
           resolved |-> NoDelivery,     \* what resolver was called with
           done |-> FALSE,
           yielded |-> 0,         \* the last delivery yielded
           tags |-> {}]]          \* #deliveryTagMap, of the messages handed out
  /\ released = {}

-----------------------------------------------------------------------------
\* The broker

\* The messages of deliveries, in the order in which they were delivered
InOrder(deliveries) ==
  LET place(d) == Cardinality({e \in deliveries : e.tag <= d.tag})
  IN [i \in 1 .. Cardinality(deliveries) |-> (CHOOSE d \in deliveries : place(d) = i).msg]

Frame(c, frame) == inbox' = [inbox EXCEPT ![c] = Append(@, frame)]

\* A closed channel gives everything back.
BrokerCloses(c) ==
  /\ broker' = [broker EXCEPT ![c] = [@ EXCEPT !.open = FALSE, !.consumer = "none",
                                               !.unsettled = {}]]
  /\ ready' = InOrder(broker[c].unsettled) \o ready
  /\ Frame(c, [frame |-> "closed"])

\* The next message goes to a consumer, or to a get that asks for one.
Deliver(c, frame, ack) ==
  LET d == Delivery(c, broker[c].lastTag + 1, Head(ready)) IN
  /\ ready # <<>> /\ broker[c].lastTag < MaxTag[c]
  /\ ready' = Tail(ready)
  /\ broker' = [broker EXCEPT ![c].lastTag = @ + 1,
                              ![c].unsettled = IF ack THEN @ \cup {d} ELSE @]
  /\ Frame(c, [frame |-> frame, delivery |-> d])
  /\ released' = IF ack THEN released ELSE released \cup {d.msg}

BrokerDelivers(c) ==
  /\ broker[c].consumer # "none"
  /\ Deliver(c, "deliver", broker[c].consumer = "ack")
  /\ UNCHANGED channel

\* The queue is deleted, or its node goes down.
BrokerCancels(c) ==
  /\ broker[c].consumer # "none"
  /\ broker' = [broker EXCEPT ![c].consumer = "none"]
  /\ Frame(c, [frame |-> "cancel"])
  /\ UNCHANGED <<ready, channel, released>>

Covered(c, command) ==
  {d \in broker[c].unsettled :
     \/ d.tag = command.tag
     \/ command.allUpTo /\ d.tag < command.tag}

BrokerSettles(c, command) ==
  LET settled == Covered(c, command) IN
  IF \E d \in settled : d.tag = command.tag
  THEN /\ broker' = [broker EXCEPT ![c].unsettled = @ \ settled]
       /\ ready' = IF command.requeue THEN InOrder(settled) \o ready ELSE ready
       /\ UNCHANGED inbox
  ELSE BrokerCloses(c)

\* What is sent on a channel that the broker has closed goes nowhere.
Reaches(c, Effect) ==
  IF broker[c].open THEN Effect ELSE UNCHANGED <<ready, broker, inbox>>

-----------------------------------------------------------------------------
\* consume()

\* Its guard runs with the first next(); consume() of amqplib is a request.
Consume(c) ==
  /\ c \in Consuming /\ channel[c].consume = "idle"
  /\ ~channel[c].closed /\ ~channel[c].dead
  /\ channel' = [channel EXCEPT ![c].consume = "starting"]
  /\ \E mode \in {"ack", "noAck"} :
       Reaches(c, /\ broker' = [broker EXCEPT ![c].consumer = mode]
                  /\ Frame(c, [frame |-> "consume-ok"])
                  /\ UNCHANGED ready)
  /\ UNCHANGED released

\* Bug: the callback returns without a message before it looks at the resolver.
WakeUnlessCancelled(ch, delivery) ==
  IF delivery = NoDelivery THEN ch ELSE [ch EXCEPT !.consume = "resolved", !.resolved = delivery]

\* resolver(delivery), and null when there are no more
Wake(ch, delivery) == [ch EXCEPT !.consume = "resolved", !.resolved = delivery]

\* Bug: the queue is filled at its head.
Unshift(ch, delivery) == [ch EXCEPT !.messageQueue = <<delivery>> \o @]

\* Bug: the resolver is not cleared, and resolves a promise that is resolved.
ResolveAgain(ch, delivery) ==
  IF ch.consume = "resolved" THEN ch ELSE [ch EXCEPT !.messageQueue = Append(@, delivery)]

Push(ch, delivery) == [ch EXCEPT !.messageQueue = Append(@, delivery)]

\* The callback given to amqplib, for a delivery and for a cancellation.
Callback(ch, delivery) ==
  LET told == [ch EXCEPT !.done = @ \/ delivery = NoDelivery] IN
  IF ch.consume = "waiting" THEN Wake(told, delivery)
  ELSE IF delivery = NoDelivery THEN told ELSE Push(told, delivery)

\* From here the message is in the hands of the application, which may settle it.
Yield(ch, delivery) ==
  [ch EXCEPT !.consume = "yielded", !.yielded = delivery.tag,
             !.tags = @ \cup {delivery}]

\* finally: cancel the consumer of a channel that is open, and wait for the answer.
Finally(c) ==
  IF channel[c].closed \/ channel[c].dead
  THEN /\ channel' = [channel EXCEPT ![c].consume = "ended"]
       /\ UNCHANGED <<ready, broker, inbox>>
  ELSE /\ channel' = [channel EXCEPT ![c].consume = "cancelling"]
       /\ Reaches(c, /\ broker' = [broker EXCEPT ![c].consumer = "none"]
                     /\ Frame(c, [frame |-> "cancel-ok"])
                     /\ UNCHANGED ready)

\* The head of the loop, when consume() of amqplib returns and on every next().
Loop(c) ==
  LET ch == channel[c] IN
  /\ ch.consume \in {"started", "yielded"}
  /\ IF ch.done \/ ch.closed THEN Finally(c)
     ELSE /\ channel' = [channel EXCEPT ![c] =
               IF ch.messageQueue # <<>>
               THEN Yield([ch EXCEPT !.messageQueue = Tail(@)], Head(ch.messageQueue))
               ELSE [ch EXCEPT !.consume = "waiting"]]
          /\ UNCHANGED <<ready, broker, inbox>>
  /\ UNCHANGED released

\* The promise of the resolver is resolved: yield, or break.
ResumeConsumer(c) ==
  LET ch == channel[c] IN
  /\ ch.consume = "resolved"
  /\ IF ch.resolved = NoDelivery THEN Finally(c)
     ELSE /\ channel' = [channel EXCEPT ![c] =
                           Yield([ch EXCEPT !.resolved = NoDelivery], ch.resolved)]
          /\ UNCHANGED <<ready, broker, inbox>>
  /\ UNCHANGED released

\* The application breaks out of its for await.
Return(c) ==
  /\ channel[c].consume = "yielded"
  /\ Finally(c)
  /\ UNCHANGED released

-----------------------------------------------------------------------------
\* get()
Get(c) ==
  /\ c \in Getting /\ channel[c].get = "idle"
  /\ ~channel[c].closed /\ ~channel[c].dead
  /\ channel' = [channel EXCEPT ![c].get = "asking"]
  /\ \/ broker[c].open /\ Deliver(c, "get-ok", TRUE)
     \/ /\ broker[c].open => ready = <<>>
        /\ Reaches(c, Frame(c, [frame |-> "get-empty"]) /\ UNCHANGED <<ready, broker>>)
        /\ UNCHANGED released

\* options.timeout, options.signal: the answer will find nobody.
GetGivesUp(c) ==
  /\ channel[c].get = "asking" /\ channel[c].late < MaxLate
  /\ channel' = [channel EXCEPT ![c].get = "gave up", ![c].late = @ + 1]
  /\ UNCHANGED <<ready, broker, inbox, released>>

\* amqplib hands each frame to whom it concerns, and drops it after close().
Received(ch, in) ==
  IF ch.closed /\ in.frame # "closed" THEN ch
  ELSE CASE in.frame = "deliver" -> Callback(ch, in.delivery)
         [] in.frame = "cancel" -> Callback(ch, NoDelivery)
         [] in.frame = "consume-ok" -> [ch EXCEPT !.consume = "started"]
         [] in.frame = "cancel-ok" ->
              [ch EXCEPT !.consume = IF @ = "cancelling" THEN "ended" ELSE @]
         [] in.frame = "get-ok" ->
              [ch EXCEPT !.get = "idle",
                         !.tags = IF ch.get = "asking" THEN @ \cup {in.delivery} ELSE @]
         [] in.frame = "get-empty" -> [ch EXCEPT !.get = "idle"]
         [] in.frame = "closed" ->
              [ch EXCEPT !.dead = TRUE, !.get = "idle",
                         !.consume = IF @ \in {"starting", "cancelling"} THEN "ended" ELSE @]

ReceiveFrame(c) ==
  /\ inbox[c] # <<>>
  /\ inbox' = [inbox EXCEPT ![c] = Tail(@)]
  /\ channel' = [channel EXCEPT ![c] = Received(@, Head(inbox[c]))]
  /\ UNCHANGED <<ready, broker, released>>

-----------------------------------------------------------------------------
(***************************************************************************)
(* ack, nack and reject.  A message of another channel has no tag here; a  *)
(* tag is never forgotten, so that a message may be settled again.         *)
(***************************************************************************)

\* Bug: one map for the channels of a client
SharedTags(c) == UNION {channel[e].tags : e \in Channels}

Tags(c) == channel[c].tags

Settle(c, delivery, allUpTo, requeue) ==
  LET command == [tag |-> delivery.tag, allUpTo |-> allUpTo, requeue |-> requeue] IN
  /\ ~channel[c].closed /\ ~channel[c].dead
  /\ delivery \in Tags(c)
  /\ Reaches(c, BrokerSettles(c, command))
  /\ released' = IF requeue THEN released
                 ELSE released \cup {delivery.msg} \cup {d.msg : d \in Covered(delivery.on, command)}
  /\ UNCHANGED channel

ack(c, d) == Settle(c, d, FALSE, FALSE)
nack(c, d) == \E allUpTo, requeue \in BOOLEAN : Settle(c, d, allUpTo, requeue)
reject(c, d) == \E requeue \in BOOLEAN : Settle(c, d, FALSE, requeue)

\* close(): nobody tells a consumer that waits.
CloseChannel(c) ==
  /\ ~channel[c].closed
  /\ channel' = [channel EXCEPT ![c].closed = TRUE]
  /\ Reaches(c, BrokerCloses(c))
  /\ UNCHANGED released

-----------------------------------------------------------------------------
HandedOut == UNION {channel[c].tags : c \in Channels}

Code(c) == ReceiveFrame(c) \/ Loop(c) \/ ResumeConsumer(c)

ChannelNext ==
  \E c \in Channels :
    \/ BrokerDelivers(c) \/ BrokerCancels(c) \/ Code(c)
    \/ Consume(c) \/ Return(c) \/ Get(c) \/ GetGivesUp(c) \/ CloseChannel(c)
    \/ \E d \in HandedOut : ack(c, d) \/ nack(c, d) \/ reject(c, d)

\* The process keeps reading its socket, and the application its consumer.
ChannelFairness == \A c \in Channels : WF_channelVars(ReceiveFrame(c)) /\ WF_channelVars(Loop(c) \/ ResumeConsumer(c))

ChannelSpec == ChannelInit /\ [][ChannelNext]_channelVars /\ ChannelFairness

-----------------------------------------------------------------------------
Unsettled == UNION {broker[c].unsettled : c \in Channels}

(***************************************************************************)
(* A message leaves the broker only if the application has settled it for  *)
(* good, or a consumer has asked for messages without acknowledgement; an  *)
(* ack on the wrong channel, or one sent twice, takes no other message     *)
(* with it.                                                                *)
(***************************************************************************)
OnlySettledMessagesVanish ==
  \A m \in Messages : m \in released \/ m \in ToSet(ready) \/ \E d \in Unsettled : d.msg = m

\* The deliveries that a channel has not handed to the application yet.
Pending(c) ==
  {f.delivery : f \in {g \in ToSet(inbox[c]) : g.frame \in {"deliver", "get-ok"}}} \cup
  ToSet(channel[c].messageQueue) \cup ({channel[c].resolved} \ {NoDelivery})

(***************************************************************************)
(* A delivery is on its way, buffered, or in the hands of the application: *)
(* while its consumer runs, the channel loses one only to a get() that     *)
(* has given up.                                                           *)
(***************************************************************************)
EveryDeliveryHasAnOwner ==
  \A c \in Channels :
    broker[c].open /\ ~channel[c].closed /\ channel[c].consume # "ended" =>
      Cardinality(broker[c].unsettled \ (Pending(c) \cup channel[c].tags)) <= channel[c].late

\* A consumer yields messages in the order of their delivery and skips none of those it holds.
YieldsInOrder ==
  \A c \in Channels :
    channel[c].consume # "ended" =>
      \A d \in Pending(c) \ {f.delivery : f \in {g \in ToSet(inbox[c]) : g.frame = "get-ok"}} :
        d.tag > channel[c].yielded

(***************************************************************************)
(* A consumer that the broker cancels comes to its end, whatever it was    *)
(* doing, if the application keeps asking it for the next message.         *)
(***************************************************************************)
CancelledConsumersEnd ==
  \A c \in Channels : channel[c].done ~> (channel[c].consume = "ended")

=============================================================================
