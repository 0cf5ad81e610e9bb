---------------------------- MODULE MongoClient ----------------------------
(***************************************************************************)
(* The operations of a collection of probitas-client-mongodb.  close()     *)
(* does not concern them: only collection(), db() and transaction() look   *)
(* whether the client is open.                                             *)
(***************************************************************************)
EXTENDS Operations

\* MongoResult: a find that is an Error holds no documents, not null.
FindResult == Result("mongo:find", [docs |-> EmptyList], [docs |-> Null])
FindOneResult == Result("mongo:find-one", [doc |-> Null], [doc |-> Null])

InsertOneResult ==
  Result("mongo:insert-one", [insertedId |-> Null], [insertedId |-> Null])

InsertManyResult ==
  LET none == [insertedIds |-> Null, insertedCount |-> Null]
  IN Result("mongo:insert-many", none, none)

UpdateResult ==
  LET none == [matchedCount |-> Null, modifiedCount |-> Null, upsertedId |-> Null]
  IN Result("mongo:update", none, none)

DeleteResult ==
  Result("mongo:delete", [deletedCount |-> Null], [deletedCount |-> Null])

CountResult == Result("mongo:count", [count |-> Null], [count |-> Null])

\* convertMongoError and isFailureError
FailureCauses == {"connection", "misread", "timeout", "abort"}

\* A method of MongoCollectionImpl: withOptions and conversion.
OnCollection(name, result, data) ==
  Operation(name, result, {Success(d) : d \in data}, FailureCauses,
            {"timeout", "signal", "eager", "answer"})

find == OnCollection("find", FindResult, [docs : Lists])

findOne == OnCollection("findOne", FindOneResult, [doc : {Null, Object}])

insertOne == OnCollection("insertOne", InsertOneResult, [insertedId : {Text}])

insertMany ==
  OnCollection("insertMany", InsertManyResult,
               [insertedIds : {List}, insertedCount : {Number}])

\* A falsy upserted id, such as 0, reads as none.
Updated ==
  {[matchedCount |-> m, modifiedCount |-> n,
    upsertedId |-> IF id \in {Null, Zero, EmptyText} THEN Null ELSE Text] :
      m \in Numbers, n \in Numbers, id \in {Null, Zero, EmptyText, Text}}

updateOne == OnCollection("updateOne", UpdateResult, Updated)
updateMany == OnCollection("updateMany", UpdateResult, Updated)

deleteOne == OnCollection("deleteOne", DeleteResult, [deletedCount : Numbers])
deleteMany == OnCollection("deleteMany", DeleteResult, [deletedCount : Numbers])

aggregate == OnCollection("aggregate", FindResult, [docs : Lists])

countDocuments == OnCollection("countDocuments", CountResult, [count : Numbers])

Commands ==
  {find, findOne, insertOne, insertMany, updateOne, updateMany, deleteOne,
   deleteMany, aggregate, countDocuments}

=============================================================================
