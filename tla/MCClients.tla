----------------------------- MODULE MCClients -----------------------------
(***************************************************************************)
(* Every operation of every client.                                        *)
(***************************************************************************)
EXTENDS Assertions

Redis == INSTANCE RedisClient
Sqs == INSTANCE SqsClient
Mongo == INSTANCE MongoClient
DenoKv == INSTANCE DenoKvClient
RabbitMq == INSTANCE RabbitMqClient
Sql == INSTANCE SqlClients
Http == INSTANCE HttpClients

MCRequests ==
  Redis!Commands \cup Sqs!Commands \cup Mongo!Commands \cup DenoKv!Commands \cup
  RabbitMq!Commands \cup Sql!Commands \cup Http!Commands

=============================================================================
