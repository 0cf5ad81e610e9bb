------------------------------- MODULE SqlPool -------------------------------
(***************************************************************************)
(* What the SQL clients build on and do not implement: a pool of database  *)
(* connections, as postgres.js and mysql2 keep one, and the transaction    *)
(* that each connection has on the server.                                 *)
(*                                                                         *)
(* A connection that is released goes to the first call that waits, or     *)
(* becomes idle; the pool does not look who releases it.  Statements on a  *)
(* connection are executed one at a time.                                  *)
(***************************************************************************)
EXTENDS Naturals, Sequences, SequencesExt

CONSTANTS
  Calls,          \* calls of transaction()
  Connections,    \* the pool, as large as the configuration allows
  SelfEnding,     \* the calls whose function may call tx.commit(), tx.rollback()
  MaxStatements,  \* bound: statements of a function that succeed
  None

ASSUME CallsAssumption ==
  /\ SelfEnding \subseteq Calls
  /\ MaxStatements \in Nat
  /\ None \notin Connections

VARIABLES
  pc,       \* where a call is
  held,     \* the connection it was given, and sends its statements to
  idle,     \* connections that nobody was given
  waiting,  \* the queue of calls for a connection
  session,  \* of a connection: "none", "open" or "failed" transaction, or "lost"
  pending,  \* by connection and call: statements of the open transaction
  written, durable, threw, answer  \* see Transactions

pool == <<held, idle, waiting>>
server == <<session, pending>>

NoStatements == [c \in Calls |-> 0]

PoolInit ==
  /\ pc = [c \in Calls |-> "start"]
  /\ held = [c \in Calls |-> None]
  /\ idle = Connections /\ waiting = <<>>
  /\ session = [k \in Connections |-> "none"]
  /\ pending = [k \in Connections |-> NoStatements]
  /\ written = NoStatements /\ durable = NoStatements
  /\ threw = {}
  /\ answer = [c \in Calls |-> "none"]

Goto(c, label) == pc' = [pc EXCEPT ![c] = label]
Answer(c, a) == answer' = [answer EXCEPT ![c] = a]

-----------------------------------------------------------------------------
\* The pool

Reserved(c) ==
  \E k \in idle :
    /\ held' = [held EXCEPT ![c] = k] /\ idle' = idle \ {k}
    /\ Goto(c, "begin") /\ UNCHANGED waiting

Queued(c) ==
  /\ idle = {}
  /\ waiting' = Append(waiting, c)
  /\ Goto(c, "waiting") /\ UNCHANGED <<held, idle>>

\* The pool cannot open a connection.
NotGiven(c) ==
  /\ pc[c] = "start" /\ Goto(c, "ended") /\ Answer(c, "rejected")

\* release() of connection k, from where call c goes on at label.
Released(k, c, label) ==
  IF waiting = <<>>
  THEN Goto(c, label) /\ idle' = idle \union {k} /\ UNCHANGED <<held, waiting>>
  ELSE /\ held' = [held EXCEPT ![Head(waiting)] = k]
       /\ pc' = [pc EXCEPT ![c] = label, ![Head(waiting)] = "begin"]
       /\ waiting' = Tail(waiting) /\ UNCHANGED idle

\* The pool replaces a connection that was lost.
Replaced(k) ==
  session' = [session EXCEPT ![k] = IF @ = "lost" THEN "none" ELSE @]

-----------------------------------------------------------------------------
\* What a statement on connection k does to the transaction there

Dropped(k, s) ==
  /\ session' = [session EXCEPT ![k] = s]
  /\ pending' = [pending EXCEPT ![k] = NoStatements]

Kept(k, s) ==
  /\ durable' = [c \in Calls |-> durable[c] + pending[k][c]]
  /\ Dropped(k, s)

\* COMMIT answers: the transaction is kept; or it had failed and is rolled
\* back; or there was none.
CommitAnswers(k) ==
  \/ session[k] = "open" /\ Kept(k, "none")
  \/ session[k] \in {"none", "failed"} /\ Dropped(k, "none") /\ UNCHANGED durable

\* COMMIT rejects: it was refused and rolled back, or the connection is lost
\* before or after it took effect.
CommitRejects(k) ==
  \/ session[k] = "open" /\ Dropped(k, "none") /\ UNCHANGED durable
  \/ session[k] = "open" /\ Kept(k, "lost")
  \/ Dropped(k, "lost") /\ UNCHANGED durable

RollbackAnswers(k) == session[k] # "lost" /\ Dropped(k, "none")
RollbackRejects(k) == Dropped(k, "lost")

\* A statement succeeds: outside a transaction it is durable at once.
Executed(c, k) ==
  /\ written' = [written EXCEPT ![c] = @ + 1]
  /\ \/ session[k] = "open" /\ pending' = [pending EXCEPT ![k][c] = @ + 1]
        /\ UNCHANGED durable
     \/ session[k] = "none" /\ durable' = [durable EXCEPT ![c] = @ + 1]
        /\ UNCHANGED pending

-----------------------------------------------------------------------------
PoolTypeOK ==
  /\ held \in [Calls -> Connections \union {None}]
  /\ idle \subseteq Connections /\ waiting \in Seq(Calls)
  /\ session \in [Connections -> {"none", "open", "failed", "lost"}]
  /\ pending \in [Connections -> [Calls -> Nat]]
  /\ written \in [Calls -> Nat] /\ durable \in [Calls -> Nat]
  /\ threw \subseteq Calls
  /\ answer \in [Calls -> {"none", "resolved", "rejected"}]
  /\ \A c \in Calls : pc[c] = "waiting" <=> c \in Range(waiting)

Apart(c, k) ==
  /\ k \notin idle
  /\ \A d \in Calls \ {c} : pending[k][d] = 0

\* A connection is given away again without a transaction: the next call
\* would work inside it.
IdleIsClean == \A k \in idle : session[k] = "none" /\ pending[k] = NoStatements

\* The calls in H, which are under way, hold every connection that is not idle,
\* and nobody waits while one is.
NoneIsLost(H) ==
  /\ \A k \in Connections \ idle : \E c \in H : held[c] = k
  /\ waiting # <<>> => idle = {}

\* No connection is lost to the pool, whichever statement fails: every call
\* gets one, and settles.
EveryCallEnds == \A c \in Calls : <>(pc[c] = "ended")
=============================================================================
