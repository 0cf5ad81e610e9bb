----------------------------- MODULE SqsClient -----------------------------
(***************************************************************************)
(* The operations of probitas-client-sqs.  An Error of an operation that   *)
(* returns collections holds empty ones, a Failure holds null.             *)
(***************************************************************************)
EXTENDS Operations

SendResult ==
  LET none == [messageId |-> Null, md5OfBody |-> Null, sequenceNumber |-> Null]
  IN Result("sqs:send", none, none)

SendBatchResult ==
  Result("sqs:send-batch", [successful |-> EmptyList, failed |-> EmptyList],
         [successful |-> Null, failed |-> Null])

ReceiveResult ==
  Result("sqs:receive", [messages |-> EmptyList], [messages |-> Null])

DeleteResult == Result("sqs:delete", <<>>, <<>>)

DeleteBatchResult ==
  Result("sqs:delete-batch", [successful |-> EmptyList, failed |-> EmptyList],
         [successful |-> Null, failed |-> Null])

EnsureQueueResult ==
  Result("sqs:ensure-queue", [queueUrl |-> Null], [queueUrl |-> Null])

DeleteQueueResult == Result("sqs:delete-queue", <<>>, <<>>)

(***************************************************************************)
(* convertSqsError and isFailureError: what isConnectionError does not     *)
(* know is a SqsCommandError, and so is a closed client (checkClosed).     *)
(***************************************************************************)
FailureCauses == {"connection", "timeout", "abort"}

\* A method of SqsClientImpl; most need a queue URL before they send.
Sent(name, result, answers, checks) ==
  Operation(name, result, answers, FailureCauses,
            {"closed", "timeout", "signal", "eager", "answer"} \cup checks)

\* checkQueueUrl, and validateMessageSize of what is sent
QueueUrl == {"invalid"}

send ==
  Sent("send", SendResult,
       {Success([messageId |-> Text, md5OfBody |-> Text, sequenceNumber |-> n]) :
           n \in {Text, Null}},
       QueueUrl)

\* What the queue took and what it did not, missing ones read as empty.
Batch == [successful : Lists, failed : Lists]

sendBatch == Sent("sendBatch", SendBatchResult, {Success(b) : b \in Batch}, QueueUrl)

receive ==
  Sent("receive", ReceiveResult, {Success([messages |-> m]) : m \in Lists}, QueueUrl)

delete == Sent("delete", DeleteResult, {Success(<<>>)}, QueueUrl)

deleteBatch ==
  Sent("deleteBatch", DeleteBatchResult, {Success(b) : b \in Batch}, QueueUrl)

purge == Sent("purge", DeleteResult, {Success(<<>>)}, QueueUrl)

ensureQueue ==
  Sent("ensureQueue", EnsureQueueResult, {Success([queueUrl |-> Text])}, {})

deleteQueue == Sent("deleteQueue", DeleteQueueResult, {Success(<<>>)}, {})

Commands ==
  {send, sendBatch, receive, delete, deleteBatch, purge, ensureQueue, deleteQueue}

=============================================================================
