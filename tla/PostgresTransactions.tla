------------------------ MODULE PostgresTransactions ------------------------
(***************************************************************************)
(* PostgresClient.transaction() called by several scenarios at once, over  *)
(* connections that it reserves in the pool.  After an error the server    *)
(* refuses statements until the transaction ends, and answers COMMIT by    *)
(* rolling it back.                                                        *)
(***************************************************************************)
EXTENDS SqlPool

VARIABLES
  tx,     \* the PostgresTransaction of a call: "active", "committed", "rolledBack"
  failed, \* see Transactions
  ownEnd  \* history: the calls whose function called tx.commit() or tx.rollback()

calls == <<pc, tx, ownEnd>>
outcome == <<written, durable, failed, threw, answer>>
vars == <<calls, pool, server, outcome>>

Init ==
  /\ PoolInit
  /\ tx = [c \in Calls |-> "active"]
  /\ failed = {} /\ ownEnd = {}

-----------------------------------------------------------------------------
\* transaction().  Definitions named Bug... are plausible mistakes in the
\* definition that follows them.

Reserve(c) ==
  /\ pc[c] = "start" /\ (Reserved(c) \/ Queued(c))
  /\ UNCHANGED <<tx, ownEnd, server, outcome>>

ReserveRejects(c) ==
  /\ NotGiven(c)
  /\ UNCHANGED <<tx, ownEnd, pool, server, written, durable, failed, threw>>

Begin(c) ==
  /\ pc[c] = "begin" /\ session[held[c]] \in {"none", "open"}
  /\ session' = [session EXCEPT ![held[c]] = "open"]
  /\ Goto(c, "fn")
  /\ UNCHANGED <<tx, ownEnd, pool, pending, outcome>>

BugReservedForEver(c) ==
  /\ pc[c] = "begin"
  /\ UNCHANGED server \/ Dropped(held[c], "lost")
  /\ Goto(c, "ended") /\ Answer(c, "rejected")
  /\ UNCHANGED <<tx, ownEnd, pool, written, durable, failed, threw>>

BeginRejects(c) ==
  /\ pc[c] = "begin"
  /\ UNCHANGED server \/ Dropped(held[c], "lost")
  /\ Goto(c, "release")
  /\ UNCHANGED <<tx, ownEnd, pool, outcome>>

FnReturns(c) ==
  /\ pc[c] = "fn"
  /\ Goto(c, "commit")
  /\ UNCHANGED <<tx, ownEnd, pool, server, outcome>>

BugThrowIgnored(c) ==
  /\ pc[c] = "fn"
  /\ threw' = threw \union {c}
  /\ Goto(c, "commit")
  /\ UNCHANGED <<tx, ownEnd, pool, server, written, durable, failed, answer>>

BugNoRollback(c) ==
  /\ pc[c] = "fn"
  /\ threw' = threw \union {c}
  /\ Goto(c, "release")
  /\ UNCHANGED <<tx, ownEnd, pool, server, written, durable, failed, answer>>

FnThrows(c) ==
  /\ pc[c] = "fn"
  /\ threw' = threw \union {c}
  /\ Goto(c, "rollback")
  /\ UNCHANGED <<tx, ownEnd, pool, server, written, durable, failed, answer>>

BugReleasesTwice(c) ==
  /\ pc[c] = "commit" /\ CommitAnswers(held[c])
  /\ Released(held[c], c, "return")
  /\ UNCHANGED <<tx, ownEnd, written, failed, threw, answer>>

Commit(c) ==
  /\ pc[c] = "commit" /\ CommitAnswers(held[c])
  /\ Goto(c, "return")
  /\ UNCHANGED <<tx, ownEnd, pool, written, failed, threw, answer>>

CommitFails(c) ==
  /\ pc[c] = "commit" /\ CommitRejects(held[c])
  /\ Goto(c, "rollback")
  /\ UNCHANGED <<tx, ownEnd, pool, written, failed, threw, answer>>

\* Whether ROLLBACK answers or rejects, the finally block is next.
Rollback(c) ==
  /\ pc[c] = "rollback"
  /\ RollbackAnswers(held[c]) \/ RollbackRejects(held[c])
  /\ Goto(c, "release")
  /\ UNCHANGED <<tx, ownEnd, pool, outcome>>

\* The finally block, and the settlement of transaction().
Finish(c) ==
  /\ pc[c] \in {"return", "release"}
  /\ Released(held[c], c, "ended") /\ Replaced(held[c])
  /\ Answer(c, IF pc[c] = "return" THEN "resolved" ELSE "rejected")
  /\ UNCHANGED <<tx, ownEnd, pending, written, durable, failed, threw>>

-----------------------------------------------------------------------------
\* What fn does with its PostgresTransaction

Active(c) == pc[c] = "fn" /\ tx[c] = "active"

Query(c) ==
  /\ Active(c) /\ written[c] < MaxStatements
  /\ Executed(c, held[c])
  /\ UNCHANGED <<calls, pool, session, failed, threw, answer>>

\* By default query() resolves to a result that is not ok, and fn goes on.
QueryFails(c) ==
  /\ Active(c)
  /\ failed' = failed \union {c}
  /\ \/ session[held[c]] = "open"
        /\ session' = [session EXCEPT ![held[c]] = "failed"] /\ UNCHANGED pending
     \/ session[held[c]] \in {"none", "failed"} /\ UNCHANGED server
     \/ Dropped(held[c], "lost")
  /\ UNCHANGED <<calls, pool, written, durable, threw, answer>>

\* tx.commit() and tx.rollback() release the connection in any case; one that
\* rejects leaves the PostgresTransaction active.
TxCommit(c) ==
  /\ c \in SelfEnding /\ Active(c)
  /\ \/ CommitAnswers(held[c]) /\ tx' = [tx EXCEPT ![c] = "committed"]
     \/ CommitRejects(held[c]) /\ UNCHANGED tx
  /\ ownEnd' = ownEnd \union {c} /\ Goto(c, "txRelease")
  /\ UNCHANGED <<pool, written, failed, threw, answer>>

TxRollback(c) ==
  /\ c \in SelfEnding /\ Active(c)
  /\ \/ RollbackAnswers(held[c]) /\ tx' = [tx EXCEPT ![c] = "rolledBack"]
     \/ RollbackRejects(held[c]) /\ UNCHANGED tx
  /\ ownEnd' = ownEnd \union {c} /\ Goto(c, "txRelease")
  /\ UNCHANGED <<pool, outcome>>

TxFinally(c) ==
  /\ pc[c] = "txRelease"
  /\ Released(held[c], c, "fn") /\ Replaced(held[c])
  /\ UNCHANGED <<tx, ownEnd, pending, outcome>>

Call(c) ==
  \/ Reserve(c) \/ ReserveRejects(c) \/ Begin(c) \/ BeginRejects(c)
  \/ FnReturns(c) \/ FnThrows(c) \/ Commit(c) \/ CommitFails(c) \/ Rollback(c)
  \/ Finish(c) \/ TxFinally(c)

Statement(c) == Query(c) \/ QueryFails(c) \/ TxCommit(c) \/ TxRollback(c)

Next == \E c \in Calls : Call(c) \/ Statement(c)

Spec == Init /\ [][Next]_vars

\* Statements are answered or rejected; a function does not try tx.commit()
\* for ever, it returns or throws.
FairSpec == Spec /\ \A c \in Calls :
              WF_vars(Call(c)) /\ SF_vars(FnReturns(c) \/ FnThrows(c))

-----------------------------------------------------------------------------
\* Every variable has its type; who waits for a connection is in the queue.
TypeOK ==
  /\ pc \in [Calls -> {"start", "waiting", "begin", "fn", "txRelease", "commit",
                       "rollback", "return", "release", "ended"}]
  /\ tx \in [Calls -> {"active", "committed", "rolledBack"}]
  /\ failed \subseteq Calls /\ ownEnd \subseteq Calls
  /\ PoolTypeOK

Holds(c) == pc[c] \notin {"start", "waiting", "ended"}

\* A function that ends its transaction itself voids what follows, for all.
Void == ownEnd # {}

\* Between reserve() and release() a connection serves one call alone, and
\* what its transaction holds back is the work of that call.
ConnectionIsOwned ==
  ~Void => \A c \in Calls : Holds(c) =>
    /\ Apart(c, held[c])
    /\ \A d \in Calls \ {c} : Holds(d) => held[d] # held[c]

\* A connection is given away again without a transaction: the next call
\* would work inside it.
IdleConnectionsAreClean == ~Void => IdleIsClean

\* No connection is lost, whatever fails or throws: one that is not idle is
\* held by a call that is under way, and no call waits beside an idle one.
NoConnectionIsLost == NoneIsLost({c \in Calls : Holds(c)})

\* Together the calls implement Transactions.
Promise == INSTANCE Transactions WITH own <- {}, void <- Void
KeepsTransactions == Promise!Spec

\* packages/probitas-client-sql-postgres/client.ts, of transaction(): "The
\* transaction is automatically committed if the function completes
\* successfully".  Of a call that ends nothing itself, and none of whose
\* statements failed:
NeighboursDoNotMatter ==
  \A c \in Calls \ (SelfEnding \union failed) :
    answer[c] = "resolved" => durable[c] = written[c]
=============================================================================
