-------------------------- MODULE MySqlTransactions --------------------------
(***************************************************************************)
(* MySqlClient.transaction() called by several scenarios at once, over the *)
(* connections of a mysql2 pool.  A MySqlTransaction knows when it is      *)
(* finished, and releases its connection only then.  A statement that      *)
(* fails leaves the rest of the transaction alone, but the victim of a     *)
(* deadlock loses all of it, and goes on outside any transaction.          *)
(***************************************************************************)
EXTENDS SqlPool

CONSTANTS
  Asking,      \* the calls with options.isolationLevel
  Deadlocking  \* the calls whose statements may deadlock

ASSUME AskingAssumption == Asking \subseteq Calls /\ Deadlocking \subseteq Calls

VARIABLES
  finished,  \* the calls whose MySqlTransaction is finished
  ownCommit, \* history: the calls whose function called tx.commit()
  level      \* the isolation level of the session of a connection

calls == <<pc, finished, ownCommit>>
connections == <<server, level>>
outcome == <<written, durable, threw, answer>>
vars == <<calls, pool, connections, outcome>>

Init ==
  /\ PoolInit
  /\ finished = {} /\ ownCommit = {}
  /\ level = [k \in Connections |-> "default"]

-----------------------------------------------------------------------------
\* transaction().  Definitions named Bug... are plausible mistakes in the
\* definition that follows them.

GetConnection(c) ==
  /\ pc[c] = "start" /\ (Reserved(c) \/ Queued(c))
  /\ UNCHANGED <<finished, ownCommit, connections, outcome>>

GetConnectionRejects(c) ==
  /\ NotGiven(c)
  /\ UNCHANGED <<finished, ownCommit, pool, connections, written, durable, threw>>

LevelAsked(c) ==
  level' = IF c \in Asking THEN [level EXCEPT ![held[c]] = "asked"] ELSE level

Begin(c) ==
  /\ pc[c] = "begin" /\ session[held[c]] = "none"
  /\ LevelAsked(c)
  /\ session' = [session EXCEPT ![held[c]] = "open"]
  /\ Goto(c, "fn")
  /\ UNCHANGED <<finished, ownCommit, pool, pending, outcome>>

BugKeptByBegin(c) ==
  /\ pc[c] = "begin"
  /\ LevelAsked(c) \/ UNCHANGED level
  /\ UNCHANGED server \/ Dropped(held[c], "lost")
  /\ Goto(c, "ended") /\ Answer(c, "rejected")
  /\ UNCHANGED <<finished, ownCommit, pool, written, durable, threw>>

\* Either of begin()'s two statements may fail.
BeginRejects(c) ==
  /\ pc[c] = "begin"
  /\ LevelAsked(c) \/ UNCHANGED level
  /\ UNCHANGED server \/ Dropped(held[c], "lost")
  /\ Goto(c, "release")
  /\ UNCHANGED <<finished, ownCommit, pool, outcome>>

FnReturns(c) ==
  /\ pc[c] = "fn"
  /\ Goto(c, "commit")
  /\ UNCHANGED <<finished, ownCommit, pool, connections, outcome>>

FnThrows(c) ==
  /\ pc[c] = "fn"
  /\ threw' = threw \union {c}
  /\ Goto(c, "rollback")
  /\ UNCHANGED <<finished, ownCommit, pool, connections, written, durable, answer>>

\* A transaction that is finished refuses commit(), and then rollback(): what
\* fn has committed stays so, also when it throws.
Refused(c) ==
  /\ pc[c] \in {"commit", "rollback"} /\ c \in finished
  /\ Goto(c, "ended") /\ Answer(c, "rejected")
  /\ UNCHANGED <<finished, ownCommit, pool, connections, written, durable, threw>>

Commit(c) ==
  /\ pc[c] = "commit" /\ c \notin finished /\ CommitAnswers(held[c])
  /\ Goto(c, "return")
  /\ UNCHANGED <<finished, ownCommit, pool, level, written, threw, answer>>

BugFailureUnseen(c) ==
  /\ pc[c] = "commit" /\ c \notin finished /\ CommitRejects(held[c])
  /\ Goto(c, "return")
  /\ UNCHANGED <<finished, ownCommit, pool, level, written, threw, answer>>

\* After the finally block of commit() the rollback() is refused.
CommitFails(c) ==
  /\ pc[c] = "commit" /\ c \notin finished /\ CommitRejects(held[c])
  /\ Goto(c, "release")
  /\ UNCHANGED <<finished, ownCommit, pool, level, written, threw, answer>>

Rollback(c) ==
  /\ pc[c] = "rollback" /\ c \notin finished
  /\ RollbackAnswers(held[c]) \/ RollbackRejects(held[c])
  /\ Goto(c, "release")
  /\ UNCHANGED <<finished, ownCommit, pool, level, outcome>>

\* A new connection has the default level.
ReplacedWithLevel(k) ==
  /\ Replaced(k)
  /\ level' = IF session[k] = "lost" THEN [level EXCEPT ![k] = "default"] ELSE level

Finish(c) ==
  /\ pc[c] \in {"return", "release"}
  /\ finished' = finished \union {c}
  /\ Released(held[c], c, "ended") /\ ReplacedWithLevel(held[c])
  /\ Answer(c, IF pc[c] = "return" THEN "resolved" ELSE "rejected")
  /\ UNCHANGED <<ownCommit, pending, written, durable, threw>>

-----------------------------------------------------------------------------
\* What fn does with its MySqlTransaction

Active(c) == pc[c] = "fn" /\ c \notin finished

Query(c) ==
  /\ Active(c) /\ written[c] < MaxStatements
  /\ Executed(c, held[c])
  /\ UNCHANGED <<calls, pool, session, level, threw, answer>>

\* The result is not ok, and fn may go on.
Deadlock(c) ==
  /\ c \in Deadlocking /\ Active(c)
  /\ session[held[c]] = "open" /\ Dropped(held[c], "none")
  /\ UNCHANGED <<calls, pool, level, outcome>>

ConnectionLost(c) ==
  /\ Active(c)
  /\ Dropped(held[c], "lost")
  /\ UNCHANGED <<calls, pool, level, outcome>>

TxCommit(c) ==
  /\ c \in SelfEnding /\ Active(c)
  /\ CommitAnswers(held[c]) \/ CommitRejects(held[c])
  /\ ownCommit' = ownCommit \union {c} /\ Goto(c, "txRelease")
  /\ UNCHANGED <<finished, pool, level, written, threw, answer>>

TxRollback(c) ==
  /\ c \in SelfEnding /\ Active(c)
  /\ RollbackAnswers(held[c]) \/ RollbackRejects(held[c])
  /\ Goto(c, "txRelease")
  /\ UNCHANGED <<finished, ownCommit, pool, level, outcome>>

BugNotFinished(c) ==
  /\ pc[c] = "txRelease"
  /\ Released(held[c], c, "fn") /\ ReplacedWithLevel(held[c])
  /\ UNCHANGED <<finished, ownCommit, pending, outcome>>

TxFinally(c) ==
  /\ pc[c] = "txRelease"
  /\ finished' = finished \union {c}
  /\ Released(held[c], c, "fn") /\ ReplacedWithLevel(held[c])
  /\ UNCHANGED <<ownCommit, pending, outcome>>

Call(c) ==
  \/ GetConnection(c) \/ GetConnectionRejects(c) \/ Begin(c) \/ BeginRejects(c)
  \/ FnReturns(c) \/ FnThrows(c) \/ Refused(c)
  \/ Commit(c) \/ CommitFails(c) \/ Rollback(c) \/ Finish(c) \/ TxFinally(c)

Statement(c) ==
  Query(c) \/ Deadlock(c) \/ ConnectionLost(c) \/ TxCommit(c) \/ TxRollback(c)

Next == \E c \in Calls : Call(c) \/ Statement(c)

Spec == Init /\ [][Next]_vars

\* Statements are answered or rejected, and functions return or throw.
FairSpec == Spec /\ \A c \in Calls : WF_vars(Call(c))

-----------------------------------------------------------------------------
\* Every variable has its type; who waits for a connection is in the queue.
TypeOK ==
  /\ pc \in [Calls -> {"start", "waiting", "begin", "fn", "txRelease", "commit",
                       "rollback", "return", "release", "ended"}]
  /\ finished \subseteq Calls /\ ownCommit \subseteq Calls
  /\ level \in [Connections -> {"default", "asked"}]
  /\ PoolTypeOK

Holds(c) == pc[c] \notin {"start", "waiting", "ended"} /\ c \notin finished

\* From getConnection() until its transaction is finished a connection serves
\* one call alone, also when functions end their transactions themselves.
ConnectionIsOwned ==
  \A c \in Calls : Holds(c) =>
    /\ Apart(c, held[c])
    /\ \A d \in Calls \ {c} : Holds(d) => held[d] # held[c]

\* No connection is lost, whatever fails or throws: one that is not idle is
\* held by a call that is under way, and no call waits beside an idle one.
NoConnectionIsLost == NoneIsLost({c \in Calls : Holds(c)})

\* Together the calls without deadlocks implement Transactions, whatever the
\* others do, even if failed statements are left out of it: a call that
\* resolves has committed all that succeeded.
Steady == Calls \ Deadlocking
OfSteady(f) == [c \in Steady |-> f[c]]

Promise == INSTANCE Transactions WITH
  Calls <- Steady,
  written <- OfSteady(written), durable <- OfSteady(durable),
  failed <- {}, threw <- threw \ Deadlocking, own <- ownCommit \ Deadlocking,
  answer <- OfSteady(answer), void <- FALSE

KeepsTransactions == Promise!Spec

\* packages/probitas-client-sql-mysql/client.ts, of transaction(): "Automatically
\* commits on success or rolls back on error".
ErrorsRollBack == \A c \in Steady : c \in threw => durable[c] = 0

\* packages/probitas-client-sql/transaction.ts, of isolationLevel: "Isolation
\* level for the transaction", not for those after it on the connection.
IsolationIsPerTransaction ==
  \A c \in Calls \ Asking :
    pc[c] = "fn" /\ c \notin finished => level[held[c]] = "default"
=============================================================================
