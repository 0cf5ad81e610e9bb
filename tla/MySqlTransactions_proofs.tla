----------------------- MODULE MySqlTransactions_proofs -----------------------
(***************************************************************************)
(* Theorems about MySqlTransactions: every connection serves one call at a *)
(* time and is given away clean, for any number of calls, connections and  *)
(* statements; and the calls without deadlocks implement Transactions.     *)
(***************************************************************************)
EXTENDS MySqlTransactions, SqlPool_proofs

Labels == {"start", "waiting", "begin", "fn", "txRelease", "commit",
           "rollback", "return", "release", "ended"}

\* TypeOK without the queue, of which QueueOK speaks.
Typed ==
  /\ pc \in [Calls -> Labels]
  /\ finished \subseteq Calls /\ ownCommit \subseteq Calls
  /\ level \in [Connections -> {"default", "asked"}]
  /\ PoolTyped
  /\ written \in [Calls -> Nat] /\ durable \in [Calls -> Nat]
  /\ threw \subseteq Calls
  /\ answer \in [Calls -> {"none", "resolved", "rejected"}]

\* Where a call is, and what it can have done there.
Located ==
  \A c \in Calls :
    /\ pc[c] \in {"start", "waiting", "begin"} =>
         /\ written[c] = 0 /\ durable[c] = 0
         /\ c \notin finished /\ c \notin threw
    /\ c \in finished => pc[c] \in {"fn", "commit", "rollback", "ended"}
    /\ c \in threw => pc[c] \in {"rollback", "release", "ended"}
    /\ answer[c] = "none" <=> pc[c] # "ended"

Holders == {c \in Calls : Holds(c)}

IInv == Typed /\ QueueOK /\ Located /\ Owned(Holders)

\* What the transaction of a call has kept, unless it was lost to a deadlock.
AllOrNothing(c) ==
  /\ pc[c] \in {"fn", "commit"} =>
       /\ durable[c] = 0
       /\ session[held[c]] \in {"open", "lost"}
       /\ session[held[c]] = "open" => pending[held[c]][c] = written[c]
  /\ pc[c] = "rollback" => durable[c] = 0
  /\ pc[c] = "return" => durable[c] = written[c]

\* What a function has kept so far, it has committed itself.
KeptByOwn(c) ==
  pc[c] \in {"fn", "txRelease"} /\ c \notin ownCommit => durable[c] = 0

EachAllOrNothing ==
  \A c \in Calls \ Deadlocking : KeptByOwn(c) /\ (c \in Holders => AllOrNothing(c))

KInv == IInv /\ EachAllOrNothing

-----------------------------------------------------------------------------
LEMMA HoldersAre ==
  ASSUME IInv, NEW c \in Calls
  PROVE  /\ Holders \in SUBSET Calls
         /\ c \in Holders <=> /\ c \notin finished
                             /\ pc[c] \notin {"start", "waiting", "ended"}
         /\ pc[c] \in {"begin", "return", "release", "txRelease"} => c \in Holders
         /\ c \in Holders => held[c] \in Connections
BY DEF Holders, Holds, IInv, Typed, Located, Owned, Labels

\* A step on the call's own connection.
LEMMA StepAtWork ==
  ASSUME IInv, Typed', Located', NEW c \in Holders,
         NEW label \in {"fn", "commit", "rollback", "return", "release", "txRelease"},
         pc' = [pc EXCEPT ![c] = label], UNCHANGED pool, UNCHANGED finished,
         \A k \in Connections \ {held[c]} :
           session'[k] = session[k] /\ pending'[k] = pending[k],
         \A d \in Calls \ {c} : pending'[held[c]][d] = 0,
         label \in {"return", "release", "txRelease"} =>
           /\ session'[held[c]] \in {"none", "lost"}
           /\ pending'[held[c]][c] = 0
  PROVE  IInv'
<1>1. /\ Holders \in SUBSET Calls /\ c \in Calls /\ pc[c] # "waiting"
      /\ pc \in [Calls -> Labels] /\ PoolTyped /\ PoolTyped'
  BY DEF IInv, Typed, Holders, Holds
<1>2. Holders' = Holders
  BY <1>1 DEF Holders, Holds
<1>3. Owned(Holders)'
  <2>1. UNCHANGED <<held, idle>>
    BY DEF pool
  <2>2. \A H \in SUBSET Calls : H = Holders => Owned(H) /\ c \in H
    BY DEF IInv
  <2>3. \A H \in SUBSET Calls : H = Holders => Owned(H)'
    BY <1>1, <2>1, <2>2, OwnedAtWork
  <2> QED
    BY <1>1, <1>2, <2>3 DEF Owned
<1>4. QueueOK'
  <2>1. waiting' = waiting /\ QueueOK /\ label # "waiting"
    BY DEF pool, IInv
  <2> QED
    BY <1>1, <2>1 DEF QueueOK
<1> QED
  BY <1>3, <1>4 DEF IInv


\* On the connection of a call nobody else has anything pending.
LEMMA AloneThere ==
  ASSUME IInv, NEW c \in Holders
  PROVE  /\ c \in Calls /\ c \notin finished
         /\ pc[c] \notin {"start", "waiting", "ended"}
         /\ held[c] \in Connections
         /\ \A d \in Calls \ {c} : pending[held[c]][d] = 0
<1>1. Holders \in SUBSET Calls /\ c \notin finished
  BY DEF Holders, Holds
<1> QED
  BY <1>1 DEF IInv, Owned, Typed, PoolTyped

\* A step of call c on its own connection, of which Over or OnlyAt tells all.
LEMMA StepOver ==
  ASSUME IInv, Typed', Located', NEW c \in Holders,
         NEW label \in {"fn", "commit", "rollback", "return", "release", "txRelease"},
         pc' = [pc EXCEPT ![c] = label], UNCHANGED pool, UNCHANGED finished,
         \/ Over(c, held[c])
         \/ OnlyAt(c, held[c]) /\ label \in {"fn", "commit", "rollback"}
  PROVE  IInv'
BY StepAtWork DEF Over, OnlyAt

LEMMA TypedBasics ==
  ASSUME IInv
  PROVE  /\ pc \in [Calls -> Labels] /\ PoolTyped /\ QueueOK /\ Located
         /\ durable \in [Calls -> Nat] /\ written \in [Calls -> Nat]
         /\ Owned(Holders) /\ Typed
BY DEF IInv, Typed

LEMMA InitIInv == Init => IInv
<1> SUFFICES ASSUME Init PROVE IInv
  OBVIOUS
<1>1. Typed
  BY DEF Init, PoolInit, NoStatements, Typed, PoolTyped, Labels
<1>2. QueueOK
  <2>1. waiting \in Seq(Calls) /\ Len(waiting) = 0
    BY EmptySeq DEF Init, PoolInit
  <2>2. Range(waiting) = {} /\ NoneTwice(waiting)
    BY <2>1, EmptyQueue
  <2> QED
    BY <2>1, <2>2 DEF QueueOK, Init, PoolInit
<1>3. Located
  BY DEF Init, PoolInit, NoStatements, Located
<1>4. Owned(Holders)
  BY DEF Init, PoolInit, NoStatements, Owned, Holders, Holds
<1> QED
  BY <1>1, <1>2, <1>3, <1>4 DEF IInv

\* The step in which a transaction is finished.
LEMMA StepReleased ==
  ASSUME IInv, NEW c \in Calls, pc[c] \in {"return", "release", "txRelease"},
         NEW label \in {"ended", "fn"},
         Released(held[c], c, label), ReplacedWithLevel(held[c]),
         finished' = finished \union {c},
         UNCHANGED <<ownCommit, pending, written, durable, threw>>,
         label = "fn" => UNCHANGED answer /\ c \notin threw,
         label = "ended" => Answer(c, "resolved") \/ Answer(c, "rejected")
  PROVE  IInv'
<1>1. /\ Holders \in SUBSET Calls /\ c \in Holders /\ held[c] \in Connections
      /\ label \in Labels /\ "begin" \in Labels /\ label # "waiting" /\ pc[c] # "waiting"
  BY HoldersAre DEF Labels
<1>2. /\ pc' \in [Calls -> Labels] /\ pc'[c] = label
      /\ \A d \in Calls \ {c} : \/ pc'[d] = pc[d]
                                \/ pc[d] = "waiting" /\ pc'[d] = "begin"
      /\ held' \in [Calls -> Connections \union {None}] /\ idle' \subseteq Connections
  BY <1>1, TypedBasics, ReleasedMoves DEF PoolTyped
<1>3. QueueOK'
  BY <1>1, TypedBasics, ReleasedTo DEF PoolTyped
<1>4. Typed'
  BY <1>2, TypedBasics DEF Typed, PoolTyped, ReplacedWithLevel, Replaced, Answer
<1>5. Located'
  <2>1. \A d \in Calls \ {c} :
          answer'[d] = answer[d] /\ (d \in finished' <=> d \in finished)
    BY TypedBasics DEF Answer, Typed
  <2>2. answer'[c] = "none" <=> label # "ended"
    BY <1>1, TypedBasics DEF Answer, Typed, Located
  <2> QED
    BY <1>1, <1>2, <2>1, <2>2, TypedBasics DEF Located
<1>6. Holders' = {d \in Calls \ {c} :
                    d \in Holders \/ (pc[d] = "waiting" /\ pc'[d] = "begin")}
  BY <1>2, TypedBasics DEF Holders, Holds, Located
<1>7. Owned(Holders)'
  <2>1. PoolTyped' /\ Replaced(held[c]) /\ pending' = pending
    BY <1>4 DEF Typed, ReplacedWithLevel
  <2>2. \A H \in SUBSET Calls, G \in SUBSET Calls :
          /\ H = Holders
          /\ G = {d \in Calls \ {c} : d \in H \/ (pc[d] = "waiting" /\ pc'[d] = "begin")}
          => Owned(G)'
    BY <1>1, <2>1, TypedBasics, OwnedWhenReleased
  <2>3. \A G \in SUBSET Calls : G = Holders' => Owned(G)'
    BY <1>1, <1>6, <2>2
  <2> SUFFICES ASSUME NEW G \in SUBSET Calls, G = Holders' PROVE Owned(Holders)'
    BY DEF Holders
  <2>4. Owned(G)'
    BY <2>3
  <2> QED
    BY <2>4 DEF Owned
<1> QED
  BY <1>3, <1>4, <1>5, <1>7 DEF IInv

LEMMA StepGiven ==
  ASSUME IInv, NEW c \in Calls, GetConnection(c)
  PROVE  IInv'
<1>1. /\ pc[c] = "start"
      /\ Reserved(c) \/ Queued(c)
      /\ UNCHANGED <<finished, ownCommit, server, level, outcome>>
  BY DEF GetConnection, connections
<1>2. QueueOK'
  BY <1>1, TypedBasics, GivenOrQueued
<1> PICK label \in {"begin", "waiting"} : pc' = [pc EXCEPT ![c] = label]
  BY <1>1, TypedBasics, GivenMoves DEF PoolTyped
<1>3. Typed'
  <2>1. held' \in [Calls -> Connections \union {None}] /\ idle' \subseteq Connections
    BY <1>1, TypedBasics, GivenMoves DEF PoolTyped
  <2> QED
    BY <1>1, <2>1, TypedBasics DEF Typed, PoolTyped, Labels, server, outcome
<1>4. Located'
  BY <1>1, TypedBasics DEF Located, Typed, outcome
<1>5. Holders' = {d \in Calls : d \in Holders \/ (d = c /\ pc'[d] = "begin")}
  BY <1>1, TypedBasics DEF Holders, Holds, Located, Typed
<1>6. Owned(Holders)'
  <2>1. PoolTyped' /\ Holders \in SUBSET Calls
    BY <1>3 DEF Typed, Holders
  <2>2. ASSUME NEW H \in SUBSET Calls, NEW G \in SUBSET Calls,
               H = Holders, G = Holders'
        PROVE  Owned(G)'
    <3>1. G = {d \in Calls : d \in H \/ (d = c /\ pc'[d] = "begin")}
      BY <1>5, <2>2
    <3>2. Owned(H)
      BY <2>2, TypedBasics
    <3> QED
      BY <1>1, <2>1, <3>1, <3>2, TypedBasics, OwnedWhenGiven
  <2>3. \A G \in SUBSET Calls : G = Holders' => Owned(G)'
    BY <2>1, <2>2
  <2> SUFFICES ASSUME NEW G \in SUBSET Calls, G = Holders' PROVE Owned(Holders)'
    BY DEF Holders
  <2>4. Owned(G)'
    BY <2>3
  <2> QED
    BY <2>4 DEF Owned
<1> QED
  BY <1>2, <1>3, <1>4, <1>6 DEF IInv

\* Every step of a call preserves the invariant.
LEMMA StepIInv ==
  ASSUME IInv, NEW c \in Calls, Call(c) \/ Statement(c)
  PROVE  IInv'
<1> USE TypedBasics
<1>1. CASE GetConnection(c)
  BY <1>1, StepGiven
<1>2. CASE Begin(c)
  <2>1. c \in Holders /\ held[c] \in Connections
    BY <1>2, HoldersAre DEF Begin
  <2>2. /\ pc' = [pc EXCEPT ![c] = "fn"] /\ UNCHANGED <<pool, finished, ownCommit>>
        /\ session' = [session EXCEPT ![held[c]] = "open"] /\ pending' = pending
    BY <1>2 DEF Begin, Goto
  <2>3. OnlyAt(c, held[c])
    BY <2>1, <2>2, AloneThere DEF OnlyAt, PoolTyped
  <2>4. Typed'
    BY <1>2, <2>2, <2>3
       DEF Begin, LevelAsked, Typed, PoolTyped, Labels, outcome, OnlyAt, pool
  <2>5. Located'
    BY <1>2, <2>2 DEF Begin, Located, Typed, outcome
  <2> QED
    BY <2>1, <2>2, <2>3, <2>4, <2>5, StepOver
<1>3. CASE BeginRejects(c)
  <2>1. c \in Holders /\ held[c] \in Connections
    BY <1>3, HoldersAre DEF BeginRejects
  <2>2. /\ pc' = [pc EXCEPT ![c] = "release"]
        /\ UNCHANGED <<pool, finished, ownCommit, outcome>>
    BY <1>3 DEF BeginRejects, Goto
  <2>3. Over(c, held[c])
    <3>1. CASE UNCHANGED server
      <4>1. session[held[c]] = "none" /\ pending[held[c]][c] = 0
        BY <1>3, <2>1 DEF BeginRejects, Owned
      <4> QED
        BY <2>1, <3>1, <4>1, AloneThere DEF Over, OnlyAt, server, PoolTyped
    <3>2. CASE Dropped(held[c], "lost")
      BY <2>1, <3>2, DroppedIsOver
    <3> QED
      BY <1>3, <3>1, <3>2 DEF BeginRejects
  <2>4. Typed'
    BY <1>3, <2>1, <2>2, <2>3
       DEF BeginRejects, LevelAsked, Typed, PoolTyped, Labels, outcome, OnlyAt, Over, pool
  <2>5. Located'
    BY <1>3, <2>2 DEF BeginRejects, Located, Typed, outcome
  <2> QED
    BY <2>1, <2>2, <2>3, <2>4, <2>5, StepOver
<1>4. CASE Refused(c)
  <2>1. /\ pc' = [pc EXCEPT ![c] = "ended"] /\ c \in finished
        /\ pc[c] \in {"commit", "rollback"}
        /\ UNCHANGED <<finished, ownCommit, held, idle, waiting, session, pending, level,
                       written, durable, threw>>
        /\ answer' = [answer EXCEPT ![c] = "rejected"]
    BY <1>4 DEF Refused, Goto, Answer, pool, connections, server
  <2>2. Typed'
    BY <2>1 DEF Typed, PoolTyped, Labels
  <2>3. Located'
    BY <1>4, <2>1 DEF Located, Typed
  <2>4. QueueOK'
    BY <1>4, <2>1 DEF QueueOK
  <2>5. Holders' = Holders /\ \A d \in Holders : pc'[d] = pc[d]
    BY <2>1 DEF Holders, Holds
  <2>6. Owned(Holders)'
    BY <2>1, <2>5 DEF Owned
  <2> QED
    BY <2>2, <2>3, <2>4, <2>6 DEF IInv
<1>5. CASE FnReturns(c) \/ FnThrows(c)
  <2>1. PICK label \in {"commit", "rollback"} :
          /\ pc' = [pc EXCEPT ![c] = label]
          /\ threw' = threw \/ (label = "rollback" /\ threw' = threw \union {c})
          /\ UNCHANGED <<finished, ownCommit, pool, connections, written, durable, answer>>
    BY <1>5 DEF FnReturns, FnThrows, Goto, outcome
  <2>2. Typed'
    BY <2>1 DEF Typed, PoolTyped, Labels, connections, server, pool
  <2>3. pc[c] = "fn" /\ Located'
    BY <1>5, <2>1 DEF FnReturns, FnThrows, Located, Typed
  <2>4. CASE c \in finished
    <3>1. QueueOK'
      BY <2>1, <2>3 DEF QueueOK, pool
    <3>2. Holders' = Holders /\ \A d \in Holders : pc'[d] = pc[d]
      BY <2>1, <2>4 DEF Holders, Holds
    <3>3. Owned(Holders)'
      BY <2>1, <3>2 DEF Owned, pool, connections, server
    <3> QED
      BY <2>2, <2>3, <3>1, <3>3 DEF IInv
  <2>5. CASE c \notin finished
    <3>1. c \in Holders
      BY <2>3, <2>5, HoldersAre
    <3>2. OnlyAt(c, held[c])
      BY <2>1, <3>1, AloneThere DEF OnlyAt, PoolTyped, connections, server
    <3> QED
      BY <2>1, <2>2, <2>3, <3>1, <3>2, StepOver
  <2> QED
    BY <2>4, <2>5
<1>6. CASE Commit(c) \/ CommitFails(c)
  <2>1. c \in Holders /\ held[c] \in Connections /\ pc[c] = "commit"
    BY <1>6, HoldersAre DEF Commit, CommitFails
  <2>2. PICK label \in {"return", "release"} :
          /\ pc' = [pc EXCEPT ![c] = label]
          /\ UNCHANGED <<finished, ownCommit, pool, level, written, threw, answer>>
    BY <1>6 DEF Commit, CommitFails, Goto
  <2>3. Over(c, held[c]) /\ durable' \in [Calls -> Nat]
    BY <1>6, <2>1, AloneThere, EndIsOver DEF Commit, CommitFails
  <2>4. Typed'
    BY <2>2, <2>3 DEF Typed, PoolTyped, Labels, pool, Over, OnlyAt
  <2>5. Located'
    <3>1. KeptOf(c, held[c]) \/ durable' = durable
      BY <1>6, <2>1, AloneThere, EndIsOver DEF Commit, CommitFails
    <3>2. \A d \in Calls \ {c} : durable'[d] = durable[d]
      BY <3>1 DEF KeptOf
    <3> QED
      BY <2>1, <2>2, <3>2, AloneThere DEF Located, Typed
  <2> QED
    BY <2>1, <2>2, <2>3, <2>4, <2>5, StepOver
<1>7. CASE Rollback(c)
  <2>1. c \in Holders /\ held[c] \in Connections /\ pc[c] = "rollback"
    BY <1>7, HoldersAre DEF Rollback
  <2>2. /\ pc' = [pc EXCEPT ![c] = "release"]
        /\ UNCHANGED <<finished, ownCommit, pool, level, outcome>>
    BY <1>7 DEF Rollback, Goto
  <2>3. Over(c, held[c])
    BY <1>7, <2>1, AloneThere, EndIsOver DEF Rollback
  <2>4. Typed'
    BY <2>2, <2>3 DEF Typed, PoolTyped, Labels, pool, Over, OnlyAt, outcome
  <2>5. Located'
    BY <2>1, <2>2, AloneThere DEF Located, Typed, outcome
  <2> QED
    BY <2>1, <2>2, <2>3, <2>4, <2>5, StepOver
<1>8. CASE Finish(c)
  BY <1>8, StepReleased DEF Finish
<1>9. CASE TxFinally(c)
  BY <1>9, StepReleased DEF TxFinally, outcome, Located
<1>10. CASE Query(c)
  <2>1. c \in Holders /\ held[c] \in Connections /\ pc[c] = "fn"
    BY <1>10, HoldersAre DEF Query, Active
  <2>2. /\ pc' = [pc EXCEPT ![c] = "fn"]
        /\ UNCHANGED <<finished, ownCommit, pool, session, level, threw, answer>>
    BY <1>10, <2>1 DEF Query, calls
  <2>3. /\ OnlyAt(c, held[c])
        /\ written' \in [Calls -> Nat] /\ durable' \in [Calls -> Nat]
        /\ \A d \in Calls \ {c} : written'[d] = written[d] /\ durable'[d] = durable[d]
    BY <1>10, <2>1, <2>2, AloneThere, ExecutedOnlyAt DEF Query
  <2>4. Typed'
    BY <2>2, <2>3 DEF Typed, PoolTyped, Labels, pool, OnlyAt
  <2>5. Located'
    BY <2>1, <2>2, <2>3 DEF Located, Typed
  <2> QED
    BY <2>1, <2>2, <2>3, <2>4, <2>5, StepOver
<1>11. CASE Deadlock(c) \/ ConnectionLost(c)
  <2>1. c \in Holders /\ held[c] \in Connections /\ pc[c] = "fn"
    BY <1>11, HoldersAre DEF Deadlock, ConnectionLost, Active
  <2>2. /\ pc' = [pc EXCEPT ![c] = "fn"]
        /\ UNCHANGED <<finished, ownCommit, pool, level, outcome>>
    BY <1>11, <2>1 DEF Deadlock, ConnectionLost, calls
  <2>3. Over(c, held[c])
    BY <1>11, <2>1, DroppedIsOver DEF Deadlock, ConnectionLost
  <2>4. Typed'
    BY <2>2, <2>3 DEF Typed, PoolTyped, Labels, pool, Over, OnlyAt, outcome
  <2>5. Located'
    BY <2>1, <2>2 DEF Located, Typed, outcome
  <2> QED
    BY <2>1, <2>2, <2>3, <2>4, <2>5, StepOver
<1>12. CASE TxCommit(c) \/ TxRollback(c)
  <2>1. c \in Holders /\ held[c] \in Connections /\ pc[c] = "fn"
    BY <1>12, HoldersAre DEF TxCommit, TxRollback, Active
  <2>2. /\ pc' = [pc EXCEPT ![c] = "txRelease"]
        /\ UNCHANGED <<finished, pool, level, written, threw, answer>>
        /\ ownCommit' = ownCommit \/ ownCommit' = ownCommit \union {c}
    BY <1>12 DEF TxCommit, TxRollback, Goto, outcome
  <2>3. Over(c, held[c]) /\ durable' \in [Calls -> Nat]
    BY <1>12, <2>1, AloneThere, EndIsOver DEF TxCommit, TxRollback, outcome
  <2>4. Typed'
    BY <2>2, <2>3 DEF Typed, PoolTyped, Labels, pool, Over, OnlyAt
  <2>5. Located'
    <3>1. KeptOf(c, held[c]) \/ durable' = durable
      BY <1>12, <2>1, AloneThere, EndIsOver DEF TxCommit, TxRollback, outcome
    <3>2. \A d \in Calls \ {c} : durable'[d] = durable[d]
      BY <3>1 DEF KeptOf
    <3> QED
      BY <2>1, <2>2, <3>2, AloneThere DEF Located, Typed
  <2> QED
    BY <2>1, <2>2, <2>3, <2>4, <2>5, StepOver
<1>13. CASE GetConnectionRejects(c)
  <2>1. /\ pc[c] = "start" /\ pc' = [pc EXCEPT ![c] = "ended"]
        /\ UNCHANGED <<finished, ownCommit, held, idle, waiting, session, pending, level,
                       written, durable, threw>>
        /\ answer' = [answer EXCEPT ![c] = "rejected"]
    BY <1>13 DEF GetConnectionRejects, NotGiven, Goto, Answer, pool, connections, server
  <2>2. Typed'
    BY <2>1 DEF Typed, PoolTyped, Labels
  <2>3. Located'
    BY <2>1 DEF Located, Typed
  <2>4. QueueOK'
    BY <2>1 DEF QueueOK
  <2>5. Holders' = Holders /\ \A d \in Holders : pc'[d] = pc[d]
    BY <2>1 DEF Holders, Holds
  <2>6. Owned(Holders)'
    BY <2>1, <2>5 DEF Owned
  <2> QED
    BY <2>2, <2>3, <2>4, <2>6 DEF IInv
<1> QED
  BY <1>1, <1>2, <1>3, <1>4, <1>5, <1>6, <1>7, <1>8, <1>9, <1>10, <1>11, <1>12, <1>13
     DEF Call, Statement

LEMMA AlwaysIInv == Spec => []IInv
<1>1. IInv /\ [Next]_vars => IInv'
  <2> SUFFICES ASSUME IInv, [Next]_vars PROVE IInv'
    OBVIOUS
  <2>1. CASE Next
    BY <2>1, StepIInv DEF Next
  <2>2. CASE UNCHANGED vars
    <3>1. /\ UNCHANGED <<pc, finished, held, idle, waiting, session, pending, level>>
          /\ UNCHANGED <<ownCommit, written, durable, threw, answer>>
      BY <2>2 DEF vars, calls, pool, connections, server, outcome
    <3>2. Typed' /\ QueueOK' /\ Located'
      BY <3>1 DEF IInv, Typed, PoolTyped, QueueOK, Located
    <3>3. Owned(Holders)'
      BY <3>1 DEF IInv, Owned, Holders, Holds
    <3> QED
      BY <3>2, <3>3 DEF IInv
  <2> QED
    BY <2>1, <2>2
<1> QED
  BY <1>1, InitIInv, PTL DEF Spec

\* Every variable has its type; who waits for a connection is in the queue.
THEOREM TypeCorrect == Spec => []TypeOK
<1>1. IInv => TypeOK
  BY DEF IInv, Typed, PoolTyped, QueueOK, TypeOK, PoolTypeOK, Labels
<1> QED
  BY <1>1, AlwaysIInv, PTL

\* From getConnection() until its transaction is finished a connection serves
\* one call alone, also when functions end their transactions themselves.
THEOREM ConnectionIsOwnedHolds == Spec => []ConnectionIsOwned
<1>1. IInv => ConnectionIsOwned
  <2> SUFFICES ASSUME IInv, NEW c \in Calls, Holds(c)
               PROVE  /\ Apart(c, held[c])
                      /\ \A d \in Calls \ {c} : Holds(d) => held[d] # held[c]
    BY DEF ConnectionIsOwned
  <2>1. c \in Holders /\ \A d \in Calls : Holds(d) => d \in Holders
    BY DEF Holders
  <2> QED
    BY <2>1, AloneThere DEF IInv, Owned, Apart
<1> QED
  BY <1>1, AlwaysIInv, PTL

\* release() gives a connection away without a transaction on it.
THEOREM IdleIsCleanHolds == Spec => []IdleIsClean
<1>1. IInv => IdleIsClean
  <2> SUFFICES ASSUME IInv, NEW k \in idle
               PROVE  session[k] = "none" /\ pending[k] = NoStatements
    BY DEF IdleIsClean
  <2>1. session[k] = "none" /\ k \in Connections /\ pending[k] \in [Calls -> Nat]
    BY DEF IInv, Typed, PoolTyped, Owned
  <2>2. \A d \in Calls : pending[k][d] = 0
    BY <2>1 DEF IInv, Owned
  <2> QED
    BY <2>1, <2>2, AllZero
<1> QED
  BY <1>1, AlwaysIInv, PTL

-----------------------------------------------------------------------------
LEMMA NoneLostAsk ==
  ASSUME IInv, NoneIsLost(Holders), NEW c \in Calls, GetConnection(c)
  PROVE  NoneIsLost(Holders)'
<1>1. /\ pc \in [Calls -> Labels] /\ "begin" \in Labels
      /\ held \in [Calls -> Connections \union {None}]
      /\ pc[c] = "start" /\ (Reserved(c) \/ Queued(c)) /\ finished' = finished
      /\ c \notin finished
  BY TypedBasics DEF PoolTyped, Labels, GetConnection, Located
<1>2. PICK label \in {"begin", "waiting"} : pc' = [pc EXCEPT ![c] = label]
  BY <1>1 DEF Reserved, Queued, Goto
<1>3. /\ Holders \in SUBSET Calls /\ Holders' \in SUBSET Calls /\ c \notin Holders
      /\ Holders \subseteq Holders' /\ (pc'[c] = "begin" => c \in Holders')
  BY <1>1, <1>2 DEF Holders, Holds
<1> SUFFICES ASSUME NEW H \in SUBSET Calls, NEW G \in SUBSET Calls,
                    H = Holders, G = Holders'
             PROVE  NoneIsLost(Holders)'
  BY <1>3
<1>4. NoneIsLost(H)
  BY DEF NoneIsLost
<1>5. NoneIsLost(G)'
  BY <1>1, <1>3, <1>4, NoneLostWhenGiven
<1> QED
  BY <1>5 DEF NoneIsLost

\* A release, also one by a function that has not returned yet.
LEMMA NoneLostRelease ==
  ASSUME IInv, NoneIsLost(Holders), NEW c \in Calls, Finish(c) \/ TxFinally(c)
  PROVE  NoneIsLost(Holders)'
<1>1. PICK label \in {"ended", "fn"} : Released(held[c], c, label)
  BY DEF Finish, TxFinally
<1>2. /\ pc \in [Calls -> Labels] /\ "begin" \in Labels
      /\ held \in [Calls -> Connections \union {None}] /\ idle \subseteq Connections
      /\ pc[c] \in {"return", "release", "txRelease"} /\ QueueOK
      /\ label \in Labels /\ label # "waiting" /\ pc[c] # "waiting"
      /\ finished' = finished \union {c}
  BY TypedBasics DEF PoolTyped, Labels, Finish, TxFinally
<1>3. c \in Holders /\ held[c] \in Connections
  BY <1>2, HoldersAre
<1>4. /\ pc'[c] = label
      /\ \A d \in Calls \ {c} : \/ pc'[d] = pc[d]
                                \/ pc[d] = "waiting" /\ pc'[d] = "begin"
  BY <1>1, <1>2, <1>3, ReleasedMoves
<1>5. /\ Holders \in SUBSET Calls /\ Holders' \in SUBSET Calls
      /\ \A d \in Holders : pc[d] # "waiting"
      /\ Holders \ {c} \subseteq Holders'
      /\ \A d \in Calls : pc[d] = "waiting" /\ pc'[d] = "begin" => d \in Holders'
  BY <1>2, <1>4, TypedBasics DEF Holders, Holds, Located
<1> SUFFICES ASSUME NEW H \in SUBSET Calls, NEW G \in SUBSET Calls,
                    H = Holders, G = Holders'
             PROVE  NoneIsLost(Holders)'
  BY <1>5
<1>6. NoneIsLost(H)
  BY DEF NoneIsLost
<1>7. NoneIsLost(G)'
  BY <1>1, <1>2, <1>3, <1>5, <1>6, NoneLostWhenReleased
<1> QED
  BY <1>7 DEF NoneIsLost

\* No connection is lost, whatever fails or throws, also to deadlocks and when
\* functions end their transactions themselves: one that is not idle is held
\* by a call under way, and no call waits beside an idle one.
THEOREM NoConnectionIsLostHolds == Spec => []NoConnectionIsLost
<1> DEFINE NoneLost == NoneIsLost(Holders)
<1>1. Init => NoneLost
  BY DEF Init, PoolInit, NoneIsLost
<1>2. IInv /\ NoneLost /\ [Next]_vars => NoneLost'
  <2> SUFFICES ASSUME IInv, NoneIsLost(Holders), [Next]_vars
               PROVE  NoneIsLost(Holders)'
    OBVIOUS
  <2>1. ASSUME UNCHANGED pool, Holders' = Holders
        PROVE  NoneIsLost(Holders)'
    BY <2>1 DEF NoneIsLost, pool
  <2>2. ASSUME NEW c \in Calls, UNCHANGED pool, UNCHANGED finished,
               pc[c] \notin {"start", "waiting", "ended"},
               NEW label, label \notin {"start", "waiting", "ended"},
               pc' = [pc EXCEPT ![c] = label]
        PROVE  NoneIsLost(Holders)'
    <3>1. Holders' = Holders
      BY <2>2, TypedBasics DEF Holders, Holds
    <3> QED
      BY <2>1, <2>2, <3>1
  <2>3. CASE Next
    <3> PICK c \in Calls : Call(c) \/ Statement(c)
      BY <2>3 DEF Next
    <3>1. CASE GetConnection(c)
      BY <3>1, NoneLostAsk
    <3>2. CASE Finish(c) \/ TxFinally(c)
      BY <3>2, NoneLostRelease
    <3>3. CASE Begin(c) \/ BeginRejects(c)
      BY <2>2, <3>3 DEF Begin, BeginRejects, Goto
    <3>4. CASE Refused(c) \/ GetConnectionRejects(c)
      <4>1. /\ pc' = [pc EXCEPT ![c] = "ended"] /\ finished' = finished
            /\ c \in finished \/ pc[c] = "start"
        BY <3>4 DEF Refused, GetConnectionRejects, NotGiven, Goto
      <4>2. Holders' = Holders
        BY <4>1, TypedBasics DEF Holders, Holds
      <4> QED
        BY <2>1, <3>4, <4>2 DEF Refused, GetConnectionRejects
    <3>5. CASE FnReturns(c) \/ FnThrows(c)
      BY <2>2, <3>5 DEF FnReturns, FnThrows, Goto
    <3>6. CASE Commit(c) \/ CommitFails(c) \/ Rollback(c)
      BY <2>2, <3>6 DEF Commit, CommitFails, Rollback, Goto
    <3>7. CASE TxCommit(c) \/ TxRollback(c)
      BY <2>2, <3>7 DEF TxCommit, TxRollback, Active, Goto
    <3>8. CASE Query(c) \/ Deadlock(c) \/ ConnectionLost(c)
      <4>1. UNCHANGED <<calls, pool>>
        BY <3>8 DEF Query, Deadlock, ConnectionLost
      <4>2. Holders' = Holders
        BY <4>1 DEF calls, Holders, Holds
      <4> QED
        BY <2>1, <4>1, <4>2
    <3> QED
      BY <3>1, <3>2, <3>3, <3>4, <3>5, <3>6, <3>7, <3>8 DEF Call, Statement
  <2>4. CASE UNCHANGED vars
    BY <2>1, <2>4 DEF vars, calls, Holders, Holds
  <2> QED
    BY <2>3, <2>4
<1>3. NoneLost => NoConnectionIsLost
  BY DEF NoConnectionIsLost, Holders
<1> HIDE DEF NoneLost
<1> QED
  BY <1>1, <1>2, <1>3, AlwaysIInv, PTL DEF Spec

-----------------------------------------------------------------------------
\* A step of call c leaves the other calls alone, and their connections.
LeavesOthers(c) ==
  /\ \A d \in Holders' \ {c} :
       \/ pc'[d] = "begin"
       \/ /\ d \in Holders /\ pc'[d] = pc[d] /\ held'[d] = held[d]
          /\ session'[held[d]] = session[held[d]]
          /\ pending'[held[d]] = pending[held[d]]
  /\ \A d \in Calls \ {c} :
       /\ written'[d] = written[d] /\ durable'[d] = durable[d]
       /\ answer'[d] = answer[d]
       /\ pc'[d] = pc[d] \/ pc'[d] = "begin"
       /\ d \in threw' <=> d \in threw
       /\ d \in ownCommit' <=> d \in ownCommit

LEMMA AtWorkLeaves ==
  ASSUME IInv, NEW c \in Holders, NEW label,
         pc' = [pc EXCEPT ![c] = label], UNCHANGED pool, UNCHANGED finished,
         label \notin {"start", "waiting", "ended"}, OnlyAt(c, held[c]),
         \A d \in Calls \ {c} : /\ written'[d] = written[d] /\ durable'[d] = durable[d]
                                /\ answer'[d] = answer[d]
                                /\ d \in threw' <=> d \in threw
                                /\ d \in ownCommit' <=> d \in ownCommit
  PROVE  LeavesOthers(c)
<1>1. c \in Calls /\ Holders' = Holders
  BY DEF IInv, Typed, Holders, Holds
<1>2. ASSUME NEW d \in Holders \ {c}
      PROVE  /\ pc'[d] = pc[d] /\ held'[d] = held[d]
             /\ session'[held[d]] = session[held[d]]
             /\ pending'[held[d]] = pending[held[d]]
  <2>1. d \in Calls /\ held[d] \in Connections /\ held[d] # held[c]
    BY <1>1 DEF IInv, Owned, Holders
  <2> QED
    BY <2>1 DEF pool, OnlyAt
<1> QED
  BY <1>1, <1>2 DEF LeavesOthers

LEMMA GivenLeaves ==
  ASSUME IInv, NEW c \in Calls, GetConnection(c)
  PROVE  LeavesOthers(c)
<1>1. /\ pc[c] = "start"
      /\ Reserved(c) \/ Queued(c)
      /\ UNCHANGED <<finished, ownCommit, session, pending>>
      /\ UNCHANGED <<written, durable, threw, answer>>
  BY DEF GetConnection, connections, server, outcome
<1>2. \E label \in {"begin", "waiting"} : pc' = [pc EXCEPT ![c] = label]
  BY <1>1, TypedBasics, GivenMoves DEF PoolTyped
<1>3. \A d \in Calls \ {c} : pc'[d] = pc[d] /\ held'[d] = held[d]
  BY <1>1, <1>2, TypedBasics DEF Reserved, Queued, PoolTyped
<1>4. \A d \in Holders' \ {c} : d \in Holders /\ d \in Calls
  BY <1>1, <1>3 DEF Holders, Holds
<1> QED
  BY <1>1, <1>3, <1>4 DEF LeavesOthers

\* A step of a call that has no connection, or none any more.
LEMMA IdleLeaves ==
  ASSUME IInv, NEW c \in Calls,
         \/ Refused(c) \/ GetConnectionRejects(c)
         \/ c \in finished /\ (FnReturns(c) \/ FnThrows(c))
  PROVE  LeavesOthers(c) /\ c \notin Holders'
<1>1. PICK label : pc' = [pc EXCEPT ![c] = label]
                   /\ (c \in finished \/ (pc[c] = "start" /\ label = "ended"))
  BY DEF Refused, GetConnectionRejects, NotGiven, FnReturns, FnThrows, Goto
<1>0. /\ UNCHANGED <<finished, ownCommit, held, session, pending, written, durable>>
      /\ threw' = threw \/ threw' = threw \union {c}
      /\ answer' = answer \/ answer' = [answer EXCEPT ![c] = "rejected"]
  BY DEF Refused, GetConnectionRejects, NotGiven, FnReturns, FnThrows, Answer, pool,
         connections, server, outcome
<1>2. c \notin Holders' /\ Holders' = Holders /\ \A d \in Holders : pc'[d] = pc[d]
  BY <1>0, <1>1, TypedBasics DEF Holders, Holds
<1>3. \A d \in Calls \ {c} : /\ answer'[d] = answer[d] /\ pc'[d] = pc[d]
                             /\ d \in threw' <=> d \in threw
  BY <1>0, <1>1, TypedBasics DEF Typed
<1>4. \A d \in Holders' \ {c} :
        /\ d \in Holders /\ pc'[d] = pc[d] /\ held'[d] = held[d]
        /\ session'[held[d]] = session[held[d]]
        /\ pending'[held[d]] = pending[held[d]]
  BY <1>0, <1>2
<1>5. \A d \in Calls : /\ written'[d] = written[d] /\ durable'[d] = durable[d]
                       /\ d \in ownCommit' <=> d \in ownCommit
  BY <1>0
<1> QED
  BY <1>2, <1>3, <1>4, <1>5 DEF LeavesOthers

LEMMA ReleasedLeaves ==
  ASSUME IInv, NEW c \in Calls, Finish(c) \/ TxFinally(c)
  PROVE  LeavesOthers(c) /\ c \notin Holders'
<1> DEFINE k == held[c]
<1> USE TypedBasics
<1>1. /\ c \in Holders /\ k \in Connections
      /\ pc[c] \in {"return", "release", "txRelease"}
  BY HoldersAre DEF Finish, TxFinally
<1> PICK label \in {"ended", "fn"} :
      /\ Released(k, c, label) /\ Replaced(k)
      /\ finished' = finished \union {c}
      /\ UNCHANGED <<ownCommit, pending, written, durable, threw>>
  BY DEF Finish, TxFinally, ReplacedWithLevel, outcome
<1>2. /\ c \notin Holders'
      /\ \A d \in Holders' \ {c} :
           \/ pc'[d] = "begin"
           \/ /\ d \in Holders /\ pc'[d] = pc[d] /\ held'[d] = held[d]
              /\ held[d] # k
      /\ \A d \in Calls \ {c} : pc'[d] = pc[d] \/ pc'[d] = "begin"
  <2>1. /\ label \in Labels /\ "begin" \in Labels /\ c \in Calls
        /\ label # "waiting" /\ pc[c] # "waiting"
    BY <1>1 DEF Labels
  <2>2. /\ pc'[c] = label
        /\ \A d \in Calls \ {c} : \/ pc'[d] = pc[d] /\ held'[d] = held[d]
                                  \/ pc[d] = "waiting" /\ pc'[d] = "begin"
    BY <1>1, <2>1, ReleasedMoves DEF PoolTyped
  <2>3. \A d \in Holders \ {c} : held[d] # k
    BY <1>1 DEF Owned
  <2> QED
    BY <2>2, <2>3 DEF Holders, Holds
<1>3. \A d \in Holders : d \in Calls /\ held[d] \in Connections
  BY DEF Holders, Owned
<1>4. \A d \in Holders : held[d] # k => session'[held[d]] = session[held[d]]
  BY <1>3 DEF Replaced, PoolTyped
<1>5. \A d \in Calls \ {c} : answer'[d] = answer[d]
  BY DEF Finish, TxFinally, Answer, outcome, Typed
<1> QED
  BY <1>2, <1>3, <1>4, <1>5 DEF LeavesOthers

\* What an action of call c on its own connection does besides.
LEMMA StatementOnlyAt ==
  ASSUME IInv, NEW c \in Calls,
         \/ Begin(c) \/ BeginRejects(c) \/ Commit(c) \/ CommitFails(c) \/ Rollback(c)
         \/ Query(c) \/ Deadlock(c) \/ ConnectionLost(c) \/ TxCommit(c) \/ TxRollback(c)
         \/ (c \notin finished /\ (FnReturns(c) \/ FnThrows(c)))
  PROVE  /\ c \in Holders /\ OnlyAt(c, held[c])
         /\ \A d \in Calls \ {c} : written'[d] = written[d] /\ durable'[d] = durable[d]
<1> DEFINE k == held[c]
<1> USE TypedBasics
<1>1. c \in Holders /\ k \in Connections
  BY HoldersAre DEF Begin, BeginRejects, Commit, CommitFails, Rollback, Query, Deadlock,
       ConnectionLost, TxCommit, TxRollback, FnReturns, FnThrows, Active
<1>2. CASE Query(c)
  BY <1>1, <1>2, AloneThere, ExecutedOnlyAt DEF Query
<1>3. CASE Commit(c) \/ CommitFails(c) \/ TxCommit(c)
  <2>1. CommitAnswers(k) \/ CommitRejects(k)
    BY <1>3 DEF Commit, CommitFails, TxCommit
  <2>2. Over(c, k) /\ (KeptOf(c, k) \/ durable' = durable)
    BY <1>1, <2>1, AloneThere, EndIsOver
  <2> QED
    BY <1>1, <1>3, <2>2 DEF Over, KeptOf, Commit, CommitFails, TxCommit
<1>4. CASE Rollback(c) \/ TxRollback(c)
  <2>1. RollbackAnswers(k) \/ RollbackRejects(k)
    BY <1>4 DEF Rollback, TxRollback
  <2> QED
    BY <1>1, <1>4, <2>1, AloneThere, EndIsOver DEF Over, Rollback, TxRollback, outcome
<1>5. CASE Begin(c)
  BY <1>1, <1>5, AloneThere DEF Begin, OnlyAt, PoolTyped, outcome
<1>6. CASE BeginRejects(c) \/ Deadlock(c) \/ ConnectionLost(c)
  <2>1. UNCHANGED server \/ Dropped(k, "lost") \/ Dropped(k, "none")
    BY <1>6 DEF BeginRejects, Deadlock, ConnectionLost
  <2>2. UNCHANGED outcome
    BY <1>6 DEF BeginRejects, Deadlock, ConnectionLost
  <2>3. CASE UNCHANGED server
    BY <1>1, <2>2, <2>3, AloneThere DEF OnlyAt, server, PoolTyped, outcome
  <2>4. CASE Dropped(k, "lost") \/ Dropped(k, "none")
    BY <1>1, <2>2, <2>4, DroppedIsOver DEF Over, outcome
  <2> QED
    BY <2>1, <2>3, <2>4
<1>7. CASE c \notin finished /\ (FnReturns(c) \/ FnThrows(c))
  <2>1. UNCHANGED <<session, pending, written, durable>>
    BY <1>7 DEF FnReturns, FnThrows, connections, server, outcome
  <2> QED
    BY <1>1, <2>1, AloneThere DEF OnlyAt, PoolTyped
<1> QED
  BY <1>2, <1>3, <1>4, <1>5, <1>6, <1>7

\* Whatever a call does, the others do not notice.
LEMMA StepLeaves ==
  ASSUME IInv, NEW c \in Calls, Call(c) \/ Statement(c)
  PROVE  LeavesOthers(c)
<1>1. CASE GetConnection(c)
  BY <1>1, GivenLeaves
<1>2. CASE Finish(c) \/ TxFinally(c)
  BY <1>2, ReleasedLeaves
<1>3. CASE \/ Refused(c) \/ GetConnectionRejects(c)
           \/ c \in finished /\ (FnReturns(c) \/ FnThrows(c))
  BY <1>3, IdleLeaves
<1>4. CASE \/ Begin(c) \/ BeginRejects(c) \/ Commit(c) \/ CommitFails(c) \/ Rollback(c)
           \/ Query(c) \/ Deadlock(c) \/ ConnectionLost(c) \/ TxCommit(c) \/ TxRollback(c)
           \/ (c \notin finished /\ (FnReturns(c) \/ FnThrows(c)))
  <2>1. /\ c \in Holders /\ OnlyAt(c, held[c])
        /\ \A d \in Calls \ {c} : written'[d] = written[d] /\ durable'[d] = durable[d]
    BY <1>4, StatementOnlyAt
  <2>2. UNCHANGED <<pool, finished, answer>>
    BY <1>4 DEF Begin, BeginRejects, Commit, CommitFails, Rollback, Query, Deadlock,
         ConnectionLost, TxCommit, TxRollback, FnReturns, FnThrows, calls, outcome
  <2>3. /\ threw' = threw \/ threw' = threw \union {c}
        /\ ownCommit' = ownCommit \/ ownCommit' = ownCommit \union {c}
    BY <1>4 DEF Begin, BeginRejects, Commit, CommitFails, Rollback, Query, Deadlock,
         ConnectionLost, TxCommit, TxRollback, FnReturns, FnThrows, calls, outcome
  <2>4. \E label \in {"fn", "commit", "rollback", "return", "release", "txRelease"} :
          pc' = [pc EXCEPT ![c] = label]
    <3>1. CASE Query(c) \/ Deadlock(c) \/ ConnectionLost(c)
      <4>1. pc' = pc /\ pc[c] = "fn" /\ pc \in [Calls -> Labels]
        BY <3>1, TypedBasics DEF Query, Deadlock, ConnectionLost, Active, calls
      <4> QED
        BY <4>1
    <3>2. CASE ~(Query(c) \/ Deadlock(c) \/ ConnectionLost(c))
      BY <1>4, <3>2 DEF Begin, BeginRejects, Commit, CommitFails, Rollback,
           TxCommit, TxRollback, FnReturns, FnThrows, Goto
    <3> QED
      BY <3>1, <3>2
  <2> QED
    BY <2>1, <2>2, <2>3, <2>4, AtWorkLeaves
<1> QED
  BY <1>1, <1>2, <1>3, <1>4 DEF Call, Statement

\* So of the others stays true what is true of them.
LEMMA OthersKept ==
  ASSUME KInv, NEW c \in Calls, LeavesOthers(c),
         c \notin Deadlocking => KeptByOwn(c)',
         c \in Holders' \ Deadlocking => AllOrNothing(c)'
  PROVE  EachAllOrNothing'
<1>1. \A d \in Calls \ Deadlocking : KeptByOwn(d)'
  BY DEF EachAllOrNothing, KInv, KeptByOwn, LeavesOthers
<1>2. \A d \in Calls \ Deadlocking : d \in Holders' => AllOrNothing(d)'
  BY DEF EachAllOrNothing, KInv, AllOrNothing, LeavesOthers
<1> QED
  BY <1>1, <1>2 DEF EachAllOrNothing

-----------------------------------------------------------------------------
\* Steps of Transactions, taken by a call without deadlocks

Promised == [Promise!Next]_(Promise!transactionVars)

LEMMA PromisedWrite ==
  ASSUME Typed, NEW c \in Steady, answer[c] = "none", durable[c] = 0, c \notin threw,
         written' = [written EXCEPT ![c] = written[c] + 1],
         UNCHANGED <<durable, threw, ownCommit, answer>>
  PROVE  Promised
<1>1. Promise!Write(c)
  BY DEF Promise!Write, OfSteady, Steady, Typed
<1> QED
  BY <1>1 DEF Promised, Promise!Next

LEMMA PromisedThrow ==
  ASSUME Typed, NEW c \in Steady, answer[c] = "none",
         durable[c] = 0 \/ c \in ownCommit,
         threw' = threw \union {c}, UNCHANGED <<written, durable, ownCommit, answer>>
  PROVE  Promised
<1>1. Promise!Throw(c)
  BY DEF Promise!Throw, OfSteady, Steady, Typed
<1> QED
  BY <1>1 DEF Promised, Promise!Next

LEMMA PromisedKeep ==
  ASSUME Typed, NEW c \in Steady, answer[c] = "none", c \notin threw,
         durable' = [durable EXCEPT ![c] = written[c]],
         UNCHANGED <<written, threw, ownCommit, answer>>
  PROVE  Promised
<1>1. Promise!Keep(c)
  BY DEF Promise!Keep, OfSteady, Steady, Typed
<1> QED
  BY <1>1 DEF Promised, Promise!Next

LEMMA PromisedKeepOwn ==
  ASSUME Typed, NEW c \in Steady, answer[c] = "none", c \notin threw,
         ownCommit' = ownCommit \union {c},
         UNCHANGED durable \/ durable' = [durable EXCEPT ![c] = written[c]],
         UNCHANGED <<written, threw, answer>>
  PROVE  Promised
<1>1. Promise!KeepOwn(c)
  BY DEF Promise!KeepOwn, OfSteady, Steady, Typed
<1> QED
  BY <1>1 DEF Promised, Promise!Next

LEMMA PromisedResolve ==
  ASSUME Typed, NEW c \in Steady, answer[c] = "none", c \notin threw,
         durable[c] = written[c],
         answer' = [answer EXCEPT ![c] = "resolved"],
         UNCHANGED <<written, durable, threw, ownCommit>>
  PROVE  Promised
<1>1. Promise!Resolve(c)
  BY DEF Promise!Resolve, OfSteady, Steady, Typed
<1> QED
  BY <1>1 DEF Promised, Promise!Next

LEMMA PromisedReject ==
  ASSUME Typed, NEW c \in Steady, answer[c] = "none",
         answer' = [answer EXCEPT ![c] = "rejected"],
         UNCHANGED <<written, durable, threw, ownCommit>>
  PROVE  Promised
<1>1. Promise!Reject(c)
  BY DEF Promise!Reject, OfSteady, Steady, Typed
<1> QED
  BY <1>1 DEF Promised, Promise!Next

LEMMA PromisedNothing ==
  ASSUME UNCHANGED <<written, durable, threw, ownCommit, answer>>
  PROVE  Promised
BY DEF Promised, Promise!transactionVars, OfSteady

\* What a call with deadlocks does, Transactions does not see.
LEMMA DeadlockingPromised ==
  ASSUME KInv, Typed', NEW c \in Calls \cap Deadlocking, Call(c) \/ Statement(c)
  PROVE  EachAllOrNothing' /\ Promised
<1>1. LeavesOthers(c)
  BY StepLeaves DEF KInv
<1>2. EachAllOrNothing'
  BY <1>1, OthersKept
<1>3. \A d \in Steady : d \in Calls \ {c}
  BY DEF Steady
<1>4. /\ OfSteady(written)' = OfSteady(written)
      /\ OfSteady(durable)' = OfSteady(durable)
      /\ OfSteady(answer)' = OfSteady(answer)
  BY <1>1, <1>3 DEF LeavesOthers, OfSteady
<1>5. /\ threw' \ Deadlocking = threw \ Deadlocking
      /\ ownCommit' \ Deadlocking = ownCommit \ Deadlocking
  <2>1. /\ threw \subseteq Calls /\ threw' \subseteq Calls
        /\ ownCommit \subseteq Calls /\ ownCommit' \subseteq Calls
    BY DEF KInv, IInv, Typed
  <2> QED
    BY <1>1, <2>1 DEF LeavesOthers
<1>6. Promised
  BY <1>4, <1>5 DEF Promised, Promise!transactionVars
<1> QED
  BY <1>2, <1>6

LEMMA StepPromised ==
  ASSUME KInv, Typed', NEW c \in Steady, Call(c) \/ Statement(c)
  PROVE  EachAllOrNothing' /\ Promised
<1> DEFINE k == held[c]
<1>0. IInv /\ EachAllOrNothing /\ c \in Calls /\ c \notin Deadlocking
  BY DEF KInv, Steady
<1>a. LeavesOthers(c)
  BY <1>0, StepLeaves
<1>b. AllOrNothing(c)' /\ KeptByOwn(c)' => EachAllOrNothing'
  BY <1>0, <1>a, OthersKept
<1>c. c \notin Holders' /\ KeptByOwn(c)' => EachAllOrNothing'
  BY <1>0, <1>a, OthersKept
<1>d. /\ KeptByOwn(c) /\ (c \in Holders => AllOrNothing(c))
      /\ pc'[c] \notin {"fn", "txRelease"} => KeptByOwn(c)'
  BY <1>0 DEF EachAllOrNothing, KeptByOwn
<1> USE <1>0, TypedBasics
<1>1. CASE GetConnection(c)
  <2>1. /\ pc[c] = "start"
        /\ Reserved(c) \/ Queued(c)
        /\ UNCHANGED <<written, durable, threw, ownCommit, answer>>
    BY <1>1 DEF GetConnection, outcome
  <2> PICK label \in {"begin", "waiting"} : pc' = [pc EXCEPT ![c] = label]
    BY <2>1, GivenMoves DEF PoolTyped
  <2>3. AllOrNothing(c)' /\ KeptByOwn(c)'
    BY DEF AllOrNothing, KeptByOwn, Typed
  <2> QED
    BY <1>b, <2>1, <2>3, PromisedNothing
<1>2. CASE Begin(c)
  <2>1. c \in Holders /\ k \in Connections
    BY <1>2, HoldersAre DEF Begin
  <2>2. /\ pc' = [pc EXCEPT ![c] = "fn"]
        /\ UNCHANGED <<pool, finished, ownCommit, outcome>>
        /\ session' = [session EXCEPT ![k] = "open"] /\ pending' = pending
    BY <1>2 DEF Begin, Goto
  <2>3. /\ pc'[c] = "fn" /\ durable'[c] = 0 /\ written'[c] = 0
        /\ held'[c] = k /\ session'[k] = "open"
    BY <1>2, <2>1, <2>2 DEF Begin, Located, Typed, PoolTyped, pool, outcome
  <2>4. pending'[k][c] = 0
    BY <1>2, <2>1, <2>2 DEF Begin, Owned
  <2>5. AllOrNothing(c)' /\ KeptByOwn(c)'
    BY <2>3, <2>4 DEF AllOrNothing, KeptByOwn
  <2> QED
    BY <1>b, <2>2, <2>5, PromisedNothing DEF outcome
<1>3. CASE BeginRejects(c) \/ Rollback(c)
  <2>1. pc'[c] = "release" /\ UNCHANGED <<ownCommit, outcome>>
    BY <1>3 DEF BeginRejects, Rollback, Goto
  <2>2. AllOrNothing(c)'
    BY <2>1 DEF AllOrNothing
  <2> QED
    BY <1>b, <1>d, <2>1, <2>2, PromisedNothing DEF outcome
<1>4. CASE Refused(c) \/ GetConnectionRejects(c)
  <2>1. /\ UNCHANGED <<written, durable, threw, ownCommit>> /\ pc'[c] = "ended"
        /\ answer' = [answer EXCEPT ![c] = "rejected"] /\ answer[c] = "none"
    BY <1>4 DEF Refused, GetConnectionRejects, NotGiven, Goto, Answer, Located, Typed
  <2> QED
    BY <1>4, <1>c, <1>d, <2>1, IdleLeaves, PromisedReject
<1>5. CASE FnReturns(c) \/ FnThrows(c)
  <2>1. PICK label \in {"commit", "rollback"} :
          /\ pc' = [pc EXCEPT ![c] = label]
          /\ UNCHANGED <<finished, ownCommit, pool, connections, written, durable, answer>>
          /\ \/ threw' = threw
             \/ threw' = threw \union {c}
    BY <1>5 DEF FnReturns, FnThrows, Goto, outcome
  <2>2. pc[c] = "fn" /\ answer[c] = "none"
    BY <1>5 DEF FnReturns, FnThrows, Located
  <2>3. durable[c] = 0 \/ c \in ownCommit
    BY <1>d, <2>2 DEF KeptByOwn
  <2>4. Promised
    BY <2>1, <2>2, <2>3, PromisedThrow, PromisedNothing
  <2>5. pc'[c] = label /\ KeptByOwn(c)'
    BY <1>d, <2>1 DEF Typed
  <2>6. CASE c \in finished
    BY <1>5, <1>c, <2>4, <2>5, <2>6, IdleLeaves
  <2>7. CASE c \notin finished
    <3>1. c \in Holders
      BY <2>2, <2>7, HoldersAre
    <3>2. AllOrNothing(c)'
      BY <1>d, <2>1, <2>2, <2>5, <3>1
         DEF AllOrNothing, Typed, connections, server, pool
    <3> QED
      BY <1>b, <2>4, <2>5, <3>2
  <2> QED
    BY <2>6, <2>7
<1>6. CASE Commit(c) \/ CommitFails(c) \/ TxCommit(c)
  <2>1. c \in Holders /\ k \in Connections /\ pc[c] \in {"fn", "commit"}
    BY <1>6, HoldersAre DEF Commit, CommitFails, TxCommit, Active
  <2>2. UNCHANGED <<written, threw, answer>>
    BY <1>6 DEF Commit, CommitFails, TxCommit
  <2>3. /\ durable[c] = 0 /\ c \notin threw /\ answer[c] = "none"
        /\ session[k] \in {"open", "lost"}
        /\ session[k] = "open" => pending[k][c] = written[c]
    BY <2>1 DEF EachAllOrNothing, AllOrNothing, Located
  <2>4. \/ session[k] = "open" /\ KeptOf(c, k)
        \/ durable' = durable
    BY <1>6, <2>1, <2>3, AloneThere, EndIsOver DEF Commit, CommitFails, TxCommit
  <2>5. durable' = [durable EXCEPT ![c] = written[c]] \/ durable' = durable
    BY <2>3, <2>4 DEF KeptOf
  <2>6. Promised
    <3>1. CASE TxCommit(c)
      <4>1. ownCommit' = ownCommit \union {c}
        BY <3>1 DEF TxCommit
      <4> QED
        BY <2>2, <2>3, <2>5, <4>1, PromisedKeepOwn
    <3>2. CASE Commit(c) \/ CommitFails(c)
      <4>1. ownCommit' = ownCommit
        BY <3>2 DEF Commit, CommitFails
      <4> QED
        BY <2>2, <2>3, <2>5, <4>1, PromisedKeep, PromisedNothing
    <3> QED
      BY <1>6, <3>1, <3>2
  <2>7. CASE Commit(c)
    <3>1. session[k] = "open" /\ KeptOf(c, k)
      BY <2>1, <2>3, <2>7, AloneThere, EndIsOver DEF Commit
    <3>2. durable[c] + pending[k][c] = written[c]
      BY <2>3, <3>1
    <3>3. durable' = [durable EXCEPT ![c] = written[c]]
      BY <3>1, <3>2 DEF KeptOf
    <3>4. pc'[c] = "return" /\ durable'[c] = written'[c]
      BY <2>2, <2>7, <3>3 DEF Commit, Goto, Typed
    <3>5. AllOrNothing(c)'
      BY <3>4 DEF AllOrNothing
    <3> QED
      BY <1>b, <1>d, <2>6, <3>4, <3>5
  <2>8. CASE CommitFails(c) \/ TxCommit(c)
    <3>1. pc'[c] \in {"release", "txRelease"}
      BY <2>8 DEF CommitFails, TxCommit, Goto, Typed
    <3>2. AllOrNothing(c)'
      BY <3>1 DEF AllOrNothing
    <3>3. KeptByOwn(c)'
      <4>1. TxCommit(c) => c \in ownCommit'
        BY DEF TxCommit
      <4>2. CommitFails(c) => pc'[c] = "release"
        BY DEF CommitFails, Goto, Typed
      <4> QED
        BY <2>8, <4>1, <4>2 DEF KeptByOwn
    <3> QED
      BY <1>b, <2>6, <3>2, <3>3
  <2> QED
    BY <1>6, <2>7, <2>8
<1>7. CASE Finish(c)
  <2>1. c \in Holders /\ UNCHANGED <<written, durable, threw, ownCommit>>
    BY <1>7, HoldersAre DEF Finish
  <2>2. EachAllOrNothing'
    <3>0. /\ k \in Connections /\ pc[c] # "waiting" /\ Released(k, c, "ended")
          /\ "ended" \in Labels /\ "begin" \in Labels /\ "ended" # "waiting"
      BY <1>7, <2>1, AloneThere DEF Finish, Labels
    <3>1. pc'[c] = "ended"
      BY <3>0, ReleasedMoves DEF PoolTyped
    <3> QED
      BY <1>7, <1>c, <1>d, <3>1, ReleasedLeaves
  <2>3. CASE pc[c] = "return"
    <3>1. /\ answer' = [answer EXCEPT ![c] = "resolved"] /\ answer[c] = "none"
          /\ c \notin threw /\ durable[c] = written[c]
      BY <1>7, <2>1, <2>3
         DEF Finish, Answer, Located, EachAllOrNothing, AllOrNothing
    <3> QED
      BY <2>1, <2>2, <3>1, PromisedResolve
  <2>4. CASE pc[c] = "release"
    <3>1. answer' = [answer EXCEPT ![c] = "rejected"] /\ answer[c] = "none"
      BY <1>7, <2>4 DEF Finish, Answer, Located
    <3> QED
      BY <2>1, <2>2, <3>1, PromisedReject
  <2> QED
    BY <1>7, <2>3, <2>4 DEF Finish
<1>8. CASE TxFinally(c)
  <2>1. UNCHANGED <<ownCommit, written, durable, threw, answer>> /\ pc[c] = "txRelease"
    BY <1>8 DEF TxFinally, outcome
  <2>2. KeptByOwn(c)'
    BY <1>d, <2>1 DEF KeptByOwn
  <2> QED
    BY <1>8, <1>c, <2>1, <2>2, ReleasedLeaves, PromisedNothing
<1>9. CASE Query(c)
  <2>1. c \in Holders /\ k \in Connections /\ pc[c] = "fn"
    BY <1>9, HoldersAre DEF Query, Active
  <2>2. pc' = pc /\ UNCHANGED <<ownCommit, pool, session, threw, answer>>
    BY <1>9 DEF Query, calls
  <2>3. /\ durable[c] = 0 /\ c \notin threw /\ answer[c] = "none"
        /\ session[k] \in {"open", "lost"}
        /\ session[k] = "open" => pending[k][c] = written[c]
    BY <2>1 DEF EachAllOrNothing, AllOrNothing, Located
  <2>4. /\ written' = [written EXCEPT ![c] = @ + 1] /\ durable' = durable
        /\ pending' = [pending EXCEPT ![k][c] = @ + 1] /\ session[k] = "open"
    BY <1>9, <2>3 DEF Query, Executed
  <2>5. Promised
    BY <2>2, <2>3, <2>4, PromisedWrite
  <2>6. /\ pc'[c] = "fn" /\ held'[c] = k /\ session'[k] = "open" /\ durable'[c] = 0
        /\ pending'[k][c] = pending[k][c] + 1 /\ written'[c] = written[c] + 1
    BY <2>1, <2>2, <2>3, <2>4 DEF Typed, PoolTyped, pool
  <2>7. AllOrNothing(c)' /\ KeptByOwn(c)'
    BY <2>3, <2>4, <2>6 DEF AllOrNothing, KeptByOwn
  <2> QED
    BY <1>b, <2>5, <2>7
<1>10. CASE ConnectionLost(c) \/ TxRollback(c)
  <2>1. c \in Holders /\ k \in Connections /\ pc[c] = "fn"
    BY <1>10, HoldersAre DEF ConnectionLost, TxRollback, Active
  <2>2. PICK label \in {"fn", "txRelease"} :
          /\ pc' = [pc EXCEPT ![c] = label]
          /\ UNCHANGED <<finished, ownCommit, pool, level, outcome>>
    BY <1>10, <2>1 DEF ConnectionLost, TxRollback, calls, Goto
  <2>3. durable[c] = 0
    BY <2>1 DEF EachAllOrNothing, AllOrNothing
  <2>4. label = "fn" => session'[k] = "lost"
    BY <1>10, <2>1, <2>2
       DEF ConnectionLost, TxRollback, Dropped, Goto, Typed, PoolTyped
  <2>5. AllOrNothing(c)' /\ KeptByOwn(c)'
    BY <2>1, <2>2, <2>3, <2>4 DEF AllOrNothing, KeptByOwn, Typed, pool, outcome
  <2> QED
    BY <1>b, <2>2, <2>5, PromisedNothing DEF outcome
<1> QED
  BY <1>1, <1>2, <1>3, <1>4, <1>5, <1>6, <1>7, <1>8, <1>9, <1>10
     DEF Call, Statement, Deadlock

LEMMA AnyStepPromised ==
  ASSUME KInv, NEW c \in Calls, Call(c) \/ Statement(c)
  PROVE  EachAllOrNothing' /\ Promised
<1>1. Typed'
  BY StepIInv DEF KInv, IInv
<1> QED
  BY <1>1, StepPromised, DeadlockingPromised DEF Steady

\* The calls without deadlocks implement Transactions, whatever the others do:
\* all of a call's statements become durable or none, and all of them when
\* transaction() resolves.
THEOREM KeepsTransactionsHolds == Spec => KeepsTransactions
<1>1. Init => EachAllOrNothing
  BY DEF Init, PoolInit, NoStatements, EachAllOrNothing, KeptByOwn, Holders, Holds
<1>2. Init => Promise!Init
  BY DEF Init, PoolInit, NoStatements, Promise!Init, OfSteady, Steady
<1>3. IInv /\ EachAllOrNothing /\ [Next]_vars => EachAllOrNothing' /\ Promised
  <2> SUFFICES ASSUME IInv, EachAllOrNothing, [Next]_vars
               PROVE  EachAllOrNothing' /\ Promised
    OBVIOUS
  <2>1. CASE Next
    BY <2>1, AnyStepPromised DEF KInv, Next
  <2>2. CASE UNCHANGED vars
    <3>1. /\ UNCHANGED <<pc, finished, ownCommit, held, session, pending>>
          /\ UNCHANGED <<written, durable, threw, answer>>
      BY <2>2 DEF vars, calls, pool, connections, server, outcome
    <3>2. EachAllOrNothing'
      BY <3>1 DEF EachAllOrNothing, KeptByOwn, AllOrNothing, Holders, Holds
    <3> QED
      BY <3>1, <3>2, PromisedNothing
  <2> QED
    BY <2>1, <2>2
<1> QED
  BY <1>1, <1>2, <1>3, AlwaysIInv, PTL
     DEF Spec, KeepsTransactions, Promise!Spec, Promised

-----------------------------------------------------------------------------
\* Every step keeps what the promise means to a caller.
LEMMA AtomicStep ==
  ASSUME Typed, [Promise!Next]_Promise!transactionVars
  PROVE  /\ Promise!AllOrNone => Promise!AllOrNone'
         /\ [Promise!Settled]_Promise!transactionVars
<1> DEFINE w == OfSteady(written)
           k == OfSteady(durable)
           a == OfSteady(answer)
           t == threw \ Deadlocking
           o == ownCommit \ Deadlocking
<1>1. CASE UNCHANGED Promise!transactionVars
  BY <1>1 DEF Promise!AllOrNone, Promise!transactionVars
<1>2. ASSUME NEW c \in Steady,
             \/ Promise!Write(c) \/ Promise!Fail(c) \/ Promise!Throw(c)
             \/ Promise!Keep(c) \/ Promise!KeepOwn(c)
             \/ Promise!Resolve(c) \/ Promise!Reject(c)
      PROVE  /\ Promise!AllOrNone => Promise!AllOrNone'
             /\ Promise!Settled
  <2>1. /\ w \in [Steady -> Nat] /\ k \in [Steady -> Nat]
        /\ DOMAIN a = Steady /\ a[c] = "none"
    BY <1>2 DEF Typed, Steady, OfSteady, Promise!Write, Promise!Fail,
                Promise!Throw, Promise!Keep, Promise!KeepOwn, Promise!Resolve, Promise!Reject
  <2>2. \A d \in Steady \ {c} :
          /\ w'[d] = w[d] /\ k'[d] = k[d] /\ a'[d] = a[d]
          /\ (d \in t' <=> d \in t) /\ (d \in o' <=> d \in o)
    BY <1>2, <2>1 DEF Promise!Write, Promise!Fail, Promise!Throw, Promise!Keep,
                      Promise!KeepOwn, Promise!Resolve, Promise!Reject
  <2>3. k[c] \in {0, w[c]} /\ (c \in t \ o => k[c] = 0)
        => /\ k'[c] \in {0, w'[c]} /\ (c \in t' \ o' => k'[c] = 0)
           /\ a'[c] = "resolved" => k'[c] = w'[c]
    BY <1>2, <2>1 DEF Promise!Write, Promise!Fail, Promise!Throw, Promise!Keep,
                      Promise!KeepOwn, Promise!Resolve, Promise!Reject
  <2> QED
    BY <1>2, <2>1, <2>2, <2>3 DEF Promise!AllOrNone, Promise!Settled
<1> QED
  BY <1>1, <1>2 DEF Promise!Next, Promise!Write, Promise!Fail, Promise!Throw,
       Promise!Keep, Promise!KeepOwn, Promise!Resolve, Promise!Reject

\* The statements of a call without deadlocks are durable together or not at
\* all, not at all if fn threw and did not commit itself, and together if
\* transaction() resolved; and
\* what was settled stays so, whatever the calls that get the connection later
\* do, those that meet deadlocks included.
THEOREM TransactionsAreAtomic ==
  Spec => []Promise!AllOrNone /\ Promise!SettlesForGood
<1>1. Promise!Init => Promise!AllOrNone
  BY DEF Promise!Init, Promise!AllOrNone
<1>2. Typed /\ [Promise!Next]_Promise!transactionVars
      => /\ Promise!AllOrNone => Promise!AllOrNone'
         /\ [Promise!Settled]_Promise!transactionVars
  BY AtomicStep
<1>3. IInv => Typed
  BY DEF IInv
<1> QED
  BY <1>1, <1>2, <1>3, KeepsTransactionsHolds, AlwaysIInv, PTL
     DEF KeepsTransactions, Promise!Spec, Promise!SettlesForGood
=============================================================================
