--------------------------- MODULE RabbitMqClient ---------------------------
(***************************************************************************)
(* The operations of a channel of probitas-client-rabbitmq that return a   *)
(* result.  RabbitMqChannel models consume() and what the operations do to *)
(* the messages of a queue.                                                *)
(***************************************************************************)
EXTENDS Operations

PublishResult == Result("rabbitmq:publish", <<>>, <<>>)
ConsumeResult == Result("rabbitmq:consume", [message |-> Null], [message |-> Null])
AckResult == Result("rabbitmq:ack", <<>>, <<>>)

QueueResult ==
  LET none == [queue |-> Null, messageCount |-> Null, consumerCount |-> Null]
  IN Result("rabbitmq:queue", none, none)

ExchangeResult == Result("rabbitmq:exchange", <<>>, <<>>)

\* convertAmqpError and isFailureError: what it does not know is a channel error.
FailureCauses == {"closed", "connection", "misread", "timeout", "abort"}

\* A method of RabbitMqChannelImpl that asks the broker something.
Asked(name, result, data) ==
  Operation(name, result, {Success(d) : d \in data}, FailureCauses,
            {"closed", "timeout", "signal", "eager", "answer"})

assertExchange == Asked("assertExchange", ExchangeResult, {<<>>})
deleteExchange == Asked("deleteExchange", ExchangeResult, {<<>>})

assertQueue ==
  Asked("assertQueue", QueueResult,
        [queue : {Text}, messageCount : Numbers, consumerCount : Numbers])

deleteQueue ==
  Asked("deleteQueue", QueueResult,
        [queue : {Text}, messageCount : Numbers, consumerCount : {Zero}])

purgeQueue ==
  Asked("purgeQueue", QueueResult,
        [queue : {Text}, messageCount : Numbers, consumerCount : {Zero}])

bindQueue == Asked("bindQueue", ExchangeResult, {<<>>})
unbindQueue == Asked("unbindQueue", ExchangeResult, {<<>>})

\* get: a message, here its content, or false when the queue is empty.
receive == Asked("get", ConsumeResult, [message : Texts \cup {Null}])

(***************************************************************************)
(* The library may throw before it writes anything.  After that nothing    *)
(* but the socket's buffer makes publish wait, and no option ends that.    *)
(***************************************************************************)
publish ==
  Operation("publish", PublishResult, {Success(<<>>)}, FailureCauses,
            {"closed", "invalid", "drain"})

sendToQueue == [publish EXCEPT !.name = "sendToQueue"]

\* Settling a message: an unknown one is refused, the others are sent and done.
Settling(name) ==
  Operation(name, AckResult, {Success(<<>>)}, FailureCauses, {"closed", "invalid"})

ack == Settling("ack")
nack == Settling("nack")
reject == Settling("reject")

Commands ==
  {assertExchange, deleteExchange, assertQueue, deleteQueue, purgeQueue,
   bindQueue, unbindQueue, receive, publish, sendToQueue, ack, nack, reject}

=============================================================================
