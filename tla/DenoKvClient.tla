---------------------------- MODULE DenoKvClient ----------------------------
(***************************************************************************)
(* The operations of probitas-client-deno-kv.  They take no timeout and no *)
(* signal, and every error of Deno.Kv counts as a broken connection.       *)
(***************************************************************************)
EXTENDS Operations

GetResult ==
  Result("deno-kv:get", [key |-> List, value |-> Null, versionstamp |-> Null],
         [key |-> Null, value |-> Null, versionstamp |-> Null])

SetResult ==
  Result("deno-kv:set", [versionstamp |-> Null], [versionstamp |-> Null])

DeleteResult == Result("deno-kv:delete", <<>>, <<>>)

\* The entries are an empty array whatever went wrong.
ListResult == Result("deno-kv:list", [entries |-> EmptyList], [entries |-> EmptyList])

AtomicResult ==
  Result("deno-kv:atomic", [versionstamp |-> Null], [versionstamp |-> Null])

\* convertDenoKvError: whatever the store throws becomes a DenoKvConnectionError.
FailureCauses == Causes

\* A method of DenoKvClientImpl
OnStore(name, result, answers) ==
  Operation(name, result, answers, FailureCauses, {"answer"})

\* A key without a value has no versionstamp either.
Entries ==
  {[key |-> List, value |-> Null, versionstamp |-> Null]} \cup
  [key : {List}, value : Values \ {Undefined}, versionstamp : {Text}]

get == OnStore("get", GetResult, {Success(e) : e \in Entries})

\* One result for each key, all with the same outcome; the model keeps one.
getMany == OnStore("getMany", GetResult, {Success(e) : e \in Entries})

set == OnStore("set", SetResult, {Success([versionstamp |-> Text])})

delete == OnStore("delete", DeleteResult, {Success(<<>>)})

list == OnStore("list", ListResult, {Success([entries |-> l]) : l \in Lists})

\* DenoKvAtomicBuilderImpl.commit(): a check that fails is an Error without an error.
commit ==
  OnStore("commit", AtomicResult,
          {Success([versionstamp |-> Text]),
           [Refusal([versionstamp |-> Null]) EXCEPT !.error = Null]})

Commands == {get, getMany, set, delete, list, commit}

=============================================================================
