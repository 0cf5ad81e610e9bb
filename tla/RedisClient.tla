---------------------------- MODULE RedisClient ----------------------------
(***************************************************************************)
(* The operations of probitas-client-redis, other than subscribe(), which  *)
(* RedisSubscribe models.                                                  *)
(***************************************************************************)
EXTENDS Operations

\* RedisResult: nothing but null comes with an error.
Valued(kind) == Result(kind, [value |-> Null], [value |-> Null])

GetResult == Valued("redis:get")
SetResult == Valued("redis:set")
CountResult == Valued("redis:count")
ArrayResult == Valued("redis:array")
HashResult == Valued("redis:hash")
CommonResult == Valued("redis:common")

(***************************************************************************)
(* convertRedisError and isFailureError: what is not an error of this      *)
(* package becomes a RedisCommandError, also when ioredis reports that the *)
(* connection is gone or the signal's own reason comes out of deadline().  *)
(***************************************************************************)
FailureCauses == {"closed", "timeout", "abort"}

\* A method of RedisClientImpl: closed check, withOptions, conversion.
Command(name, result, values) ==
  Operation(name, result, {Success([value |-> v]) : v \in values},
            FailureCauses, {"closed", "timeout", "signal", "eager", "answer"})

get == Command("get", GetResult, {Null, EmptyText, Text})
set == Command("set", SetResult, {Text})   \* also when NX or XX got null
del == Command("del", CountResult, Numbers)
incr == Command("incr", CountResult, Numbers)
decr == Command("decr", CountResult, Numbers)
hget == Command("hget", GetResult, {Null, EmptyText, Text})
hset == Command("hset", CountResult, Numbers)
hgetall == Command("hgetall", HashResult, {Object})
hdel == Command("hdel", CountResult, Numbers)
lpush == Command("lpush", CountResult, {Number})
rpush == Command("rpush", CountResult, {Number})
lpop == Command("lpop", GetResult, {Null, EmptyText, Text})
rpop == Command("rpop", GetResult, {Null, EmptyText, Text})
lrange == Command("lrange", ArrayResult, Lists)
llen == Command("llen", CountResult, Numbers)
sadd == Command("sadd", CountResult, Numbers)
srem == Command("srem", CountResult, Numbers)
smembers == Command("smembers", ArrayResult, Lists)
sismember == Command("sismember", CommonResult, Booleans)
zadd == Command("zadd", CountResult, Numbers)
zrange == Command("zrange", ArrayResult, Lists)
zscore == Command("zscore", CommonResult, Numbers \cup {Null})
publish == Command("publish", CountResult, Numbers)
command == Command("command", CommonResult, Values \ {Undefined})

(***************************************************************************)
(* RedisTransactionImpl: exec() passes no options on and has no closed     *)
(* check, an answer null reads as an empty array, and a discarded          *)
(* transaction is an error before anything is sent.                        *)
(***************************************************************************)
exec ==
  Operation("exec", ArrayResult,
            {Success([value |-> OrElse(v, EmptyList)]) : v \in Lists \cup {Null}},
            FailureCauses, {"invalid", "answer"})

Commands ==
  {get, set, del, incr, decr, hget, hset, hgetall, hdel, lpush, rpush, lpop,
   rpop, lrange, llen, sadd, srem, smembers, sismember, zadd, zrange, zscore,
   publish, command, exec}

=============================================================================
