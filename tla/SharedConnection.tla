-------------------------- MODULE SharedConnection --------------------------
(***************************************************************************)
(* transaction() and query() of probitas-client-sql-sqlite and             *)
(* -sql-duckdb, called by several scenarios at once: unlike the pooled     *)
(* clients these have one connection, so that everybody's statements run   *)
(* in whichever transaction is open.  Statements of SQLite run at once;    *)
(* those of DuckDB are awaited, and the connection takes those that are    *)
(* pending in any order.  fn awaits each of its statements.  The databases *)
(* are external.                                                           *)
(***************************************************************************)
EXTENDS Naturals, FiniteSets

CONSTANTS
  Calls,        \* calls of transaction()
  SelfEnding,   \* the calls whose fn ends its transaction itself
  MaxStatements \* bound on the statements of a call

VARIABLES
  engine,    \* "sqlite" or "duckdb"
  closed,    \* #closed of the client
  session,   \* the transaction of the connection: "none", "open", "aborted"
  owner,     \* the calls that opened it: one or none
  pc,        \* where each call is; a statement that is sent is named in it
  finished,  \* the calls whose transaction object is finished
  written, pending, durable,  \* statements of each call: done, uncommitted, kept
  failed, threw, answer,      \* see Transactions
  strayed    \* a call's statement has worked on another transaction than its own

connection == <<session, owner>>
data == <<written, pending, durable, failed>>
vars == <<engine, closed, connection, pc, finished, data, threw, answer, strayed>>

None == [c \in Calls |-> 0]

Init ==
  /\ engine \in {"sqlite", "duckdb"}
  /\ closed = FALSE /\ session = "none" /\ owner = {} /\ strayed = FALSE
  /\ pc = [c \in Calls |-> "start"] /\ answer = [c \in Calls |-> "none"]
  /\ finished = {} /\ failed = {} /\ threw = {}
  /\ written = None /\ pending = None /\ durable = None

Sending == {"begin", "query", "commit", "rollback", "tx.commit", "tx.rollback"}

\* A statement of SQLite runs before anybody else gets a turn.
MyTurn(c) == engine = "sqlite" => \A d \in Calls \ {c} : pc[d] \notin Sending
Turn == engine = "sqlite" => \A d \in Calls : pc[d] \notin Sending

Goto(c, place) == pc' = [pc EXCEPT ![c] = place]

Ends(c, how) == Goto(c, "ended") /\ answer' = [answer EXCEPT ![c] = how]

-----------------------------------------------------------------------------
\* The connection.  It refuses a statement when the client is closed.

Strays(c) == strayed' = (strayed \/ owner # {c})

\* Whatever is uncommitted goes with the transaction.
RolledBack ==
  /\ session' = "none" /\ owner' = {} /\ pending' = None
  /\ UNCHANGED <<written, durable, failed>>

CommitAnswers(c) ==
  /\ ~closed /\ session = "open"
  /\ session' = "none" /\ owner' = {}
  /\ durable' = [d \in Calls |-> durable[d] + pending[d]]
  /\ pending' = None
  /\ Strays(c)
  /\ UNCHANGED <<written, failed>>

\* A COMMIT that fails leaves a transaction of SQLite open, and none of DuckDB.
CommitRejects ==
  /\ IF session = "none" \/ engine = "sqlite" THEN UNCHANGED <<connection, data>> ELSE RolledBack
  /\ UNCHANGED strayed

\* The databases refuse ROLLBACK only where there is nothing to roll back.
RollbackAnswers(c) == session # "none" /\ RolledBack /\ Strays(c)
RollbackRejects == session = "none" /\ UNCHANGED <<connection, data, strayed>>

\* A statement succeeds, in the open transaction or without one.
Executes(c) ==
  /\ ~closed /\ session # "aborted"
  /\ written' = [written EXCEPT ![c] = @ + 1]
  /\ IF session = "open"
     THEN pending' = [pending EXCEPT ![c] = @ + 1] /\ UNCHANGED durable
     ELSE durable' = [durable EXCEPT ![c] = @ + 1] /\ UNCHANGED pending
  /\ Strays(c)
  /\ UNCHANGED <<connection, failed>>

(***************************************************************************)
(* A statement fails.  DuckDB aborts the transaction; SQLite forgets the   *)
(* statement alone, or, with ON CONFLICT ROLLBACK or a full disk, rolls    *)
(* the whole transaction back.                                             *)
(***************************************************************************)
Breaks ==
  /\ \/ /\ session' = IF session = "open" /\ engine = "duckdb" THEN "aborted" ELSE session
        /\ UNCHANGED <<owner, pending>>
     \/ /\ engine = "sqlite" /\ session = "open"
        /\ session' = "none" /\ owner' = {} /\ pending' = None
  /\ UNCHANGED <<written, durable, strayed>>

-----------------------------------------------------------------------------
\* transaction().  Definitions named Bug... are plausible mistakes in the
\* definition that follows them.

Transaction(c) ==
  /\ pc[c] = "start" /\ Turn
  /\ IF closed THEN Ends(c, "rejected") ELSE Goto(c, "begin") /\ UNCHANGED answer
  /\ UNCHANGED <<engine, closed, connection, finished, data, threw, strayed>>

Begin(c) ==
  /\ pc[c] = "begin" /\ MyTurn(c)
  /\ ~closed /\ session = "none"
  /\ session' = "open" /\ owner' = {c}
  /\ Goto(c, "fn")
  /\ UNCHANGED <<engine, closed, finished, data, threw, answer, strayed>>

\* Another call's transaction is open, or the database is busy.
BeginRejects(c) ==
  /\ pc[c] = "begin" /\ MyTurn(c)
  /\ Ends(c, "rejected")
  /\ UNCHANGED <<engine, closed, connection, finished, data, threw, strayed>>

\* commit() of a transaction that is finished rejects, and so does rollback() then.
FnReturns(c) ==
  /\ pc[c] = "fn" /\ Turn
  /\ IF c \in finished THEN Ends(c, "rejected") ELSE Goto(c, "commit") /\ UNCHANGED answer
  /\ UNCHANGED <<engine, closed, connection, finished, data, threw, strayed>>

BugThrowIgnored(c) ==
  /\ pc[c] = "fn" /\ Turn /\ c \notin finished
  /\ Goto(c, "commit") /\ threw' = threw \cup {c}
  /\ UNCHANGED <<engine, closed, connection, finished, data, answer, strayed>>

FnThrows(c) ==
  /\ pc[c] = "fn" /\ Turn
  /\ threw' = threw \cup {c}
  /\ IF c \in finished THEN Ends(c, "rejected") ELSE Goto(c, "rollback") /\ UNCHANGED answer
  /\ UNCHANGED <<engine, closed, connection, finished, data, strayed>>

Commit(c) ==
  /\ pc[c] = "commit" /\ MyTurn(c)
  /\ CommitAnswers(c)
  /\ finished' = finished \cup {c}
  /\ Goto(c, "return")
  /\ UNCHANGED <<engine, closed, threw, answer>>

Return(c) ==
  /\ pc[c] = "return" /\ Turn
  /\ Ends(c, "resolved")
  /\ UNCHANGED <<engine, closed, connection, finished, data, threw, strayed>>

BugNoRollback(c) ==
  /\ pc[c] = "commit" /\ MyTurn(c)
  /\ CommitRejects
  /\ Ends(c, "rejected")
  /\ UNCHANGED <<engine, closed, finished, threw>>

CommitFails(c) ==
  /\ pc[c] = "commit" /\ MyTurn(c)
  /\ CommitRejects
  /\ Goto(c, "rollback")
  /\ UNCHANGED <<engine, closed, finished, threw, answer>>

\* The error of a rollback() that fails takes the place of the first one.
Rollback(c) ==
  /\ pc[c] = "rollback" /\ MyTurn(c)
  /\ \/ RollbackAnswers(c) /\ finished' = finished \cup {c}
     \/ RollbackRejects /\ UNCHANGED finished
  /\ Ends(c, "rejected")
  /\ UNCHANGED <<engine, closed, threw>>

-----------------------------------------------------------------------------
\* What fn does with its transaction; once finished it refuses everything.

Sends(c, what) ==
  /\ pc[c] = "fn" /\ Turn /\ c \notin finished
  /\ Goto(c, what)
  /\ UNCHANGED <<engine, closed, connection, finished, data, threw, answer, strayed>>

TxQuery(c) == written[c] < MaxStatements /\ Sends(c, "query")
TxCommit(c) == c \in SelfEnding /\ Sends(c, "tx.commit")
TxRollback(c) == c \in SelfEnding /\ Sends(c, "tx.rollback")

QueryAnswers(c) ==
  /\ pc[c] = "query" /\ MyTurn(c)
  /\ \/ Executes(c)
     \/ Breaks /\ failed' = failed \cup {c}
  /\ Goto(c, "fn")
  /\ UNCHANGED <<engine, closed, finished, threw, answer>>

\* After a rejection it is not finished, and fn may go on.
TxEnds(c) ==
  /\ pc[c] \in {"tx.commit", "tx.rollback"} /\ MyTurn(c)
  /\ \/ /\ IF pc[c] = "tx.commit" THEN CommitAnswers(c) ELSE RollbackAnswers(c)
        /\ finished' = finished \cup {c}
     \/ /\ IF pc[c] = "tx.commit" THEN CommitRejects ELSE RollbackRejects
        /\ UNCHANGED finished
  /\ Goto(c, "fn")
  /\ UNCHANGED <<engine, closed, threw, answer>>

-----------------------------------------------------------------------------
\* A query() of the client that fails may take an open transaction with it.
QueryFails ==
  /\ ~closed /\ session = "open" /\ Turn
  /\ Breaks
  /\ UNCHANGED <<engine, closed, pc, finished, failed, threw, answer>>

\* close() closes the connection, and its transaction is rolled back.
Close ==
  /\ ~closed /\ Turn
  /\ closed' = TRUE
  /\ RolledBack
  /\ UNCHANGED <<engine, pc, finished, threw, answer, strayed>>

Call(c) ==
  \/ Transaction(c) \/ Begin(c) \/ BeginRejects(c) \/ FnReturns(c) \/ FnThrows(c)
  \/ Commit(c) \/ Return(c) \/ CommitFails(c) \/ Rollback(c) \/ QueryAnswers(c) \/ TxEnds(c)

Next ==
  \/ \E c \in Calls : Call(c) \/ TxQuery(c) \/ TxCommit(c) \/ TxRollback(c)
  \/ QueryFails \/ Close

Spec == Init /\ [][Next]_vars

-----------------------------------------------------------------------------
(***************************************************************************)
(* transaction() keeps the promise of Transactions beside other calls on   *)
(* the same connection, until a statement strays.  A fn that ends its      *)
(* transaction itself is beyond the promise.                               *)
(***************************************************************************)
Steady == Calls \ SelfEnding
OfSteady(f) == [c \in Steady |-> f[c]]

Promise == INSTANCE Transactions WITH
  Calls <- Steady,
  written <- OfSteady(written), durable <- OfSteady(durable),
  failed <- failed \ SelfEnding, threw <- threw \ SelfEnding,
  own <- {}, answer <- OfSteady(answer), void <- strayed

KeepsTransactions == Promise!Spec

(***************************************************************************)
(* A transaction on the connection belongs to a call that will end it: no  *)
(* failure leaves one open that swallows what others write later.          *)
(***************************************************************************)
NothingIsLeftOpen ==
  session # "none" => \E c \in Calls : pc[c] \notin {"start", "begin", "ended"} /\ c \notin finished

(***************************************************************************)
(* packages/probitas-client-sql/transaction.ts, of the query() that fn     *)
(* calls: "Execute a query within the transaction."  Neither it nor the    *)
(* COMMIT and ROLLBACK of transaction() reach another transaction, or none.*)
(***************************************************************************)
StatementsStayInside == ~strayed

=============================================================================
