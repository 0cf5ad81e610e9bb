---------------------------- MODULE Expectations ----------------------------
(***************************************************************************)
(* What probitas-expect offers for each result: expect(result) picks an    *)
(* expectation by the kind of the result, and an expectation is a set of   *)
(* readers, each of which mixes the matchers of one mixin in for one       *)
(* subject.  A matcher is named after its subject and a suffix:            *)
(* toHaveRowCount, toHaveRowCountGreaterThan, ...                          *)
(***************************************************************************)
EXTENDS Operations, TLC

-----------------------------------------------------------------------------
(***************************************************************************)
(* The mixins: for each suffix, what its check may say of a value.  The    *)
(* check runs in tryOk, so a value it does not fit is not matched; what    *)
(* also depends on the expected value may go either way.                   *)
(***************************************************************************)
Either == [v \in Values |-> BOOLEAN]
EitherIn(fitting) == [v \in Values |-> IF v \in fitting THEN BOOLEAN ELSE {FALSE}]
Exactly(matching) == [v \in Values |-> {v \in matching}]

OkMixin == [Ok |-> Exactly({True})]

ValueMixin == [s \in {"", "Equal", "StrictEqual", "Satisfying"} |-> Either]

NullishMixin ==
  [Null |-> Exactly({Null}), Undefined |-> Exactly({Undefined}),
   Nullish |-> Exactly(Nullish), Present |-> Exactly(Values \ Nullish)]

NumberMixin ==
  [s \in {"NaN", "GreaterThan", "GreaterThanOrEqual", "LessThan",
          "LessThanOrEqual", "CloseTo"} |-> EitherIn(Numbers)]

StringMixin == [s \in {"Containing", "Matching"} |-> EitherIn({Text, EmptyText})]

ObjectMixin ==
  [s \in {"Matching", "Property", "PropertyContaining", "PropertyMatching",
          "PropertySatisfying"} |-> EitherIn(Values \ Nullish)]

ArrayMixin ==
  [s \in {"Containing", "ContainingEqual", "Matching", "Empty"} |->
     IF s = "Empty" THEN Exactly({EmptyList, EmptyText}) ELSE EitherIn({List})]

OneOfMixin == [OneOf |-> Either]

Mixins ==
  [Ok |-> OkMixin, Value |-> ValueMixin, Nullish |-> NullishMixin,
   Number |-> NumberMixin, String |-> StringMixin, Object |-> ObjectMixin,
   Array |-> ArrayMixin, OneOf |-> OneOfMixin]

(***************************************************************************)
(* A reader takes a field of the result as it is, or after                 *)
(* ensureNonNullish, which throws without a value, negated or not, or the  *)
(* length of the latter.                                                   *)
(***************************************************************************)
Reads(how, subject, field, mixins) ==
  {[how |-> how, subject |-> subject, field |-> field, mixin |-> m] : m \in mixins}

Raw(subject, field, mixins) == Reads("raw", subject, field, mixins)
Ensured(subject, field, mixins) == Reads("ensured", subject, field, mixins)
Counted(subject, field) == Reads("count", subject, field, {"Value", "Number"})

\* A subject whose mixins read the field as it is, if they are among raw.
Offer(subject, field, mixins, raw) ==
  Raw(subject, field, mixins \cap raw) \cup Ensured(subject, field, mixins \ raw)

\* A subject of a result that succeeded, and one that may be missing even then.
Typed(subject, field, mixin) == Offer(subject, field, {"Value", mixin}, {"Value"})
Optional(subject, field, mixin) ==
  Offer(subject, field, {"Value", "Nullish", mixin}, {"Value", "Nullish"})

\* What every expectation offers.
Common == Raw("Be", "ok", {"Ok"}) \cup Raw("Duration", "duration", {"Value", "Number"})

-----------------------------------------------------------------------------
\* redis
expectRedisArrayResult ==
  Common \cup Typed("Value", "value", "Array") \cup Counted("ValueCount", "value")

expectRedisCommonResult == Common \cup Raw("Value", "value", {"Value"})
expectRedisCountResult == Common \cup Typed("Value", "value", "Number")

expectRedisGetResult == Common \cup Optional("Value", "value", "String")
expectRedisHashResult == Common \cup Typed("Value", "value", "Object")
expectRedisSetResult == Common \cup Typed("Value", "value", "String")

expectRedisResult ==
  "redis:count" :> expectRedisCountResult @@ "redis:array" :> expectRedisArrayResult @@
  "redis:get" :> expectRedisGetResult @@ "redis:set" :> expectRedisSetResult @@
  "redis:hash" :> expectRedisHashResult @@ "redis:common" :> expectRedisCommonResult

-----------------------------------------------------------------------------
\* deno-kv
expectDenoKvAtomicResult == Common \cup Optional("Versionstamp", "versionstamp", "String")
expectDenoKvDeleteResult == Common

expectDenoKvListResult ==
  Common \cup Typed("Entries", "entries", "Array") \cup Counted("EntryCount", "entries")

expectDenoKvSetResult == Common \cup Typed("Versionstamp", "versionstamp", "String")

DenoKvKey == {"Value", "Array"}
DenoKvValue == {"Value", "Nullish", "Object"}
DenoKvVersionstamp == {"Value", "Nullish", "String"}

expectDenoKvGetResult ==
  Common \cup Offer("Key", "key", DenoKvKey, {"Value"}) \cup
  Offer("Value", "value", DenoKvValue, {"Value", "Nullish"}) \cup
  Offer("Versionstamp", "versionstamp", DenoKvVersionstamp, {"Value", "Nullish"})

expectDenoKvResult ==
  "deno-kv:get" :> expectDenoKvGetResult @@ "deno-kv:list" :> expectDenoKvListResult @@
  "deno-kv:set" :> expectDenoKvSetResult @@ "deno-kv:delete" :> expectDenoKvDeleteResult @@
  "deno-kv:atomic" :> expectDenoKvAtomicResult

-----------------------------------------------------------------------------
\* mongodb
expectMongoCountResult == Common \cup Typed("Count", "count", "Number")
expectMongoDeleteResult == Common \cup Typed("DeletedCount", "deletedCount", "Number")

expectMongoFindResult ==
  Common \cup Typed("Docs", "docs", "Array") \cup Counted("DocsCount", "docs")

expectMongoFindOneResult == Common \cup Optional("Doc", "doc", "Object")
expectMongoInsertOneResult == Common \cup Typed("InsertedId", "insertedId", "String")

expectMongoInsertManyResult ==
  Common \cup Typed("InsertedIds", "insertedIds", "Array") \cup
  Typed("InsertedCount", "insertedCount", "Number")

MongoMatchedCount == {"Value", "Number"}
MongoModifiedCount == {"Value", "Number"}

MongoUpsertedId == {"Value", "Nullish", "String"}

expectMongoUpdateResult ==
  Common \cup Offer("MatchedCount", "matchedCount", MongoMatchedCount, {"Value"}) \cup
  Offer("ModifiedCount", "modifiedCount", MongoModifiedCount, {"Value"}) \cup
  Offer("UpsertedId", "upsertedId", MongoUpsertedId, {"Value", "Nullish"})

expectMongoResult ==
  "mongo:find" :> expectMongoFindResult @@ "mongo:insert-one" :> expectMongoInsertOneResult @@
  "mongo:insert-many" :> expectMongoInsertManyResult @@
  "mongo:update" :> expectMongoUpdateResult @@ "mongo:delete" :> expectMongoDeleteResult @@
  "mongo:find-one" :> expectMongoFindOneResult @@ "mongo:count" :> expectMongoCountResult

-----------------------------------------------------------------------------
\* rabbitmq
expectRabbitMqAckResult == Common
expectRabbitMqExchangeResult == Common
expectRabbitMqPublishResult == Common

RabbitMqMessage == {"Value", "Nullish", "Object"}
RabbitMqContent == {"Value", "Nullish"}
RabbitMqContentLength == {"Value", "Number"}

\* Without a message, the content is undefined and its length 0.
expectRabbitMqConsumeResult ==
  Common \cup Offer("Message", "message", RabbitMqMessage, {"Value", "Nullish"}) \cup
  Reads("content", "Content", "message", RabbitMqContent) \cup
  Reads("content length", "ContentLength", "message", RabbitMqContentLength)

RabbitMqQueue == {"Value", "String"}
RabbitMqMessageCount == {"Value", "Number"}
RabbitMqConsumerCount == {"Value", "Number"}

expectRabbitMqQueueResult ==
  Common \cup Offer("Queue", "queue", RabbitMqQueue, {"Value"}) \cup
  Offer("MessageCount", "messageCount", RabbitMqMessageCount, {"Value"}) \cup
  Offer("ConsumerCount", "consumerCount", RabbitMqConsumerCount, {"Value"})

expectRabbitMqResult ==
  "rabbitmq:consume" :> expectRabbitMqConsumeResult @@
  "rabbitmq:queue" :> expectRabbitMqQueueResult @@
  "rabbitmq:publish" :> expectRabbitMqPublishResult @@
  "rabbitmq:exchange" :> expectRabbitMqExchangeResult @@
  "rabbitmq:ack" :> expectRabbitMqAckResult

-----------------------------------------------------------------------------
\* sqs
expectSqsDeleteResult == Common
expectSqsDeleteQueueResult == Common
expectSqsEnsureQueueResult == Common \cup Typed("QueueUrl", "queueUrl", "String")

expectSqsReceiveResult ==
  Common \cup Typed("Messages", "messages", "Array") \cup Counted("MessagesCount", "messages")

expectSqsSendBatchResult ==
  Common \cup
  Typed("Successful", "successful", "Array") \cup Counted("SuccessfulCount", "successful") \cup
  Typed("Failed", "failed", "Array") \cup Counted("FailedCount", "failed")

expectSqsDeleteBatchResult == expectSqsSendBatchResult

SqsMessageId == {"Value", "String"}
SqsMd5OfBody == {"Value", "String"}
SqsSequenceNumber == {"Value", "Nullish", "String"}

expectSqsSendResult ==
  Common \cup Offer("MessageId", "messageId", SqsMessageId, {"Value"}) \cup
  Offer("Md5OfBody", "md5OfBody", SqsMd5OfBody, {"Value"}) \cup
  Offer("SequenceNumber", "sequenceNumber", SqsSequenceNumber, {"Value", "Nullish"})

expectSqsResult ==
  "sqs:send" :> expectSqsSendResult @@ "sqs:send-batch" :> expectSqsSendBatchResult @@
  "sqs:receive" :> expectSqsReceiveResult @@ "sqs:delete" :> expectSqsDeleteResult @@
  "sqs:delete-batch" :> expectSqsDeleteBatchResult @@
  "sqs:ensure-queue" :> expectSqsEnsureQueueResult @@
  "sqs:delete-queue" :> expectSqsDeleteQueueResult

-----------------------------------------------------------------------------
\* sql
SqlRows == {"Value", "Array"}
SqlRowCount == {"Value", "Number"}
SqlLastInsertId == {"Value", "Nullish"}
SqlWarnings == {"Value", "Nullish", "Array"}

expectSqlQueryResult ==
  Common \cup Offer("Rows", "rows", SqlRows, {"Value"}) \cup
  Offer("RowCount", "rowCount", SqlRowCount, {"Value"}) \cup
  Raw("LastInsertId", "lastInsertId", SqlLastInsertId) \cup
  Offer("Warnings", "warnings", SqlWarnings, {"Value", "Nullish"})

-----------------------------------------------------------------------------
\* http
HttpStatus == {"Value", "Number", "OneOf"}
HttpStatusText == {"Value", "String"}
HttpHeaders == {"Value", "Object"}
HttpUrl == {"Value", "String"}
HttpBody == {"Value", "Nullish"}
HttpText == {"Value", "Nullish", "String"}
HttpJson == {"Value", "Nullish", "Object"}

expectHttpResponse ==
  Common \cup Offer("Status", "status", HttpStatus, {}) \cup
  Offer("StatusText", "statusText", HttpStatusText, {}) \cup
  Offer("Headers", "headers", HttpHeaders, {}) \cup Raw("Url", "url", HttpUrl) \cup
  Raw("Body", "body", HttpBody) \cup Counted("BodyLength", "body") \cup
  Offer("Text", "text", HttpText, {"Value", "Nullish"}) \cup Counted("TextLength", "text") \cup
  Offer("Json", "json", HttpJson, {"Value", "Nullish"})

-----------------------------------------------------------------------------
\* graphql
GraphqlStatus == {"Value", "Number", "OneOf"}
GraphqlHeaders == {"Value", "Object"}
GraphqlError == {"Value", "Nullish"}
GraphqlExtensions == {"Value", "Nullish", "Object"}
GraphqlData == {"Value", "Nullish", "Object"}

expectGraphqlResponse ==
  Common \cup Offer("Status", "status", GraphqlStatus, {"Value", "OneOf"}) \cup
  Offer("Headers", "headers", GraphqlHeaders, {"Value"}) \cup
  Raw("Error", "error", GraphqlError) \cup
  Offer("Extensions", "extensions", GraphqlExtensions, {"Value", "Nullish"}) \cup
  Offer("Data", "data", GraphqlData, {"Value", "Nullish"})

-----------------------------------------------------------------------------
\* connectrpc
RpcStatusCode == {"Value", "Number", "OneOf"}
RpcStatusMessage == {"Value", "Nullish", "String"}
RpcHeaders == {"Value", "Object"}
RpcTrailers == {"Value", "Object"}
RpcData == {"Value", "Nullish", "Object"}

expectConnectRpcResponse ==
  Common \cup Offer("StatusCode", "statusCode", RpcStatusCode, {"Value", "OneOf"}) \cup
  Offer("StatusMessage", "statusMessage", RpcStatusMessage, {"Value", "Nullish"}) \cup
  Offer("Headers", "headers", RpcHeaders, {"Value"}) \cup
  Offer("Trailers", "trailers", RpcTrailers, {"Value"}) \cup
  Offer("Data", "data", RpcData, {"Value", "Nullish"})

\* Its own function, which expect() never calls: the gRPC client says "connectrpc".
expectGrpcResponse == expectConnectRpcResponse

-----------------------------------------------------------------------------
(***************************************************************************)
(* expect(): four kinds by name, five families by prefix.  A kind it does  *)
(* not know gets the matchers of the standard library.                     *)
(***************************************************************************)
expect ==
  "http" :> expectHttpResponse @@ "connectrpc" :> expectConnectRpcResponse @@
  "graphql" :> expectGraphqlResponse @@ "sql" :> expectSqlQueryResult @@
  expectDenoKvResult @@ expectRedisResult @@ expectMongoResult @@
  expectRabbitMqResult @@ expectSqsResult

=============================================================================
