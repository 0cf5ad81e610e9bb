--------------------- MODULE PostgresTransactions_proofs ---------------------
(***************************************************************************)
(* Theorems about PostgresTransactions, for any number of calls,           *)
(* connections and statements: until a function ends its transaction       *)
(* itself, every connection serves one call at a time and is given away    *)
(* clean, and together the calls implement Transactions.                   *)
(***************************************************************************)
EXTENDS PostgresTransactions, SqlPool_proofs

Labels == {"start", "waiting", "begin", "fn", "txRelease", "commit",
           "rollback", "return", "release", "ended"}

\* TypeOK without the queue, of which QueueOK speaks.
Typed ==
  /\ pc \in [Calls -> Labels] /\ failed \subseteq Calls /\ ownEnd \subseteq Calls
  /\ tx \in [Calls -> {"active", "committed", "rolledBack"}]
  /\ PoolTyped
  /\ written \in [Calls -> Nat] /\ durable \in [Calls -> Nat]
  /\ threw \subseteq Calls
  /\ answer \in [Calls -> {"none", "resolved", "rejected"}]

\* This survives every step, also those of a function that ends its own
\* transaction.
Always == Typed /\ QueueOK /\ Given

\* Where a call is, and what it can have done there, before any of that.
Located ==
  \A c \in Calls :
    /\ pc[c] \in {"start", "waiting", "begin"} =>
         written[c] = 0 /\ durable[c] = 0 /\ c \notin threw
    /\ pc[c] # "txRelease"
    /\ c \in threw => pc[c] \in {"rollback", "release", "ended"}
    /\ answer[c] = "none" <=> pc[c] # "ended"

Holders == {c \in Calls : Holds(c)}

IInv == Typed /\ QueueOK /\ Located /\ Owned(Holders)

Inv == Always /\ (~Void => IInv)

\* What the transaction of a call has kept.
AllOrNothing(c) ==
  /\ pc[c] \in {"fn", "commit"} =>
       /\ durable[c] = 0
       /\ session[held[c]] \in {"open", "failed", "lost"}
       /\ session[held[c]] = "open" => pending[held[c]][c] = written[c]
       /\ session[held[c]] = "failed" => c \in failed
  /\ pc[c] = "return" => durable[c] = written[c] \/ c \in failed

EachAllOrNothing == \A c \in Holders : AllOrNothing(c)

KInv == IInv /\ EachAllOrNothing

-----------------------------------------------------------------------------
LEMMA HoldersAre ==
  ASSUME IInv, NEW c \in Calls
  PROVE  /\ Holders \in SUBSET Calls
         /\ c \in Holders <=> pc[c] \notin {"start", "waiting", "ended"}
         /\ pc[c] \in {"begin", "fn", "commit", "rollback", "return", "release", "txRelease"}
              => c \in Holders
         /\ c \in Holders => held[c] \in Connections
BY DEF Holders, Holds, IInv, Typed, Located, Owned, Labels

\* A step on the call's own connection.
LEMMA StepAtWork ==
  ASSUME IInv, Typed', Located', NEW c \in Holders,
         NEW label \in {"fn", "commit", "rollback", "return", "release", "txRelease"},
         pc' = [pc EXCEPT ![c] = label], UNCHANGED pool,
         \A k \in Connections \ {held[c]} :
           session'[k] = session[k] /\ pending'[k] = pending[k],
         \A d \in Calls \ {c} : pending'[held[c]][d] = 0,
         label \in {"return", "release", "txRelease"} =>
           /\ session'[held[c]] \in {"none", "lost"}
           /\ pending'[held[c]][c] = 0
  PROVE  IInv'
<1>1. /\ Holders \in SUBSET Calls /\ c \in Calls /\ pc[c] # "waiting"
      /\ pc \in [Calls -> Labels] /\ PoolTyped /\ PoolTyped'
  BY DEF IInv, Typed, Holders, Holds
<1>2. Holders' = Holders
  BY <1>1 DEF Holders, Holds
<1>3. Owned(Holders)'
  <2>1. UNCHANGED <<held, idle>>
    BY DEF pool
  <2>2. \A H \in SUBSET Calls : H = Holders => Owned(H) /\ c \in H
    BY DEF IInv
  <2>3. \A H \in SUBSET Calls : H = Holders => Owned(H)'
    BY <1>1, <2>1, <2>2, OwnedAtWork
  <2> QED
    BY <1>1, <1>2, <2>3 DEF Owned
<1>4. QueueOK'
  <2>1. waiting' = waiting /\ QueueOK /\ label # "waiting"
    BY DEF pool, IInv
  <2> QED
    BY <1>1, <2>1 DEF QueueOK
<1> QED
  BY <1>3, <1>4 DEF IInv


\* On the connection of a call nobody else has anything pending.
LEMMA AloneThere ==
  ASSUME IInv, NEW c \in Holders
  PROVE  /\ c \in Calls
         /\ pc[c] \notin {"start", "waiting", "ended"}
         /\ held[c] \in Connections
         /\ \A d \in Calls \ {c} : pending[held[c]][d] = 0
<1>1. Holders \in SUBSET Calls
  BY DEF Holders, Holds
<1> QED
  BY <1>1 DEF IInv, Owned, Typed, PoolTyped

\* A step of call c on its own connection, of which Over or OnlyAt tells all.
LEMMA StepOver ==
  ASSUME IInv, Typed', Located', NEW c \in Holders,
         NEW label \in {"fn", "commit", "rollback", "return", "release", "txRelease"},
         pc' = [pc EXCEPT ![c] = label], UNCHANGED pool,
         \/ Over(c, held[c])
         \/ OnlyAt(c, held[c]) /\ label \in {"fn", "commit", "rollback"}
  PROVE  IInv'
BY StepAtWork DEF Over, OnlyAt

LEMMA TypedBasics ==
  ASSUME IInv
  PROVE  /\ pc \in [Calls -> Labels] /\ PoolTyped /\ QueueOK /\ Located
         /\ durable \in [Calls -> Nat] /\ written \in [Calls -> Nat]
         /\ Owned(Holders) /\ Typed
BY DEF IInv, Typed

LEMMA InitIInv == Init => IInv
<1> SUFFICES ASSUME Init PROVE IInv
  OBVIOUS
<1>1. Typed
  BY DEF Init, PoolInit, NoStatements, Typed, PoolTyped, Labels
<1>2. QueueOK
  <2>1. waiting \in Seq(Calls) /\ Len(waiting) = 0
    BY EmptySeq DEF Init, PoolInit
  <2>2. Range(waiting) = {} /\ NoneTwice(waiting)
    BY <2>1, EmptyQueue
  <2> QED
    BY <2>1, <2>2 DEF QueueOK, Init, PoolInit
<1>3. Located
  BY DEF Init, PoolInit, NoStatements, Located
<1>4. Owned(Holders)
  BY DEF Init, PoolInit, NoStatements, Owned, Holders, Holds
<1> QED
  BY <1>1, <1>2, <1>3, <1>4 DEF IInv

\* A statement that fails.
LEMMA StatementFailedOnlyAt ==
  ASSUME IInv, NEW c \in Holders, QueryFails(c)
  PROVE  OnlyAt(c, held[c])
<1>1. CASE Dropped(held[c], "lost")
  BY <1>1, AloneThere, TypedBasics, DroppedIsOver DEF Over
<1>2. CASE session' = [session EXCEPT ![held[c]] = "failed"] /\ pending' = pending
  BY <1>2, AloneThere, TypedBasics DEF OnlyAt, PoolTyped
<1>3. CASE UNCHANGED server
  BY <1>3, AloneThere, TypedBasics DEF OnlyAt, PoolTyped, server
<1> QED
  BY <1>1, <1>2, <1>3 DEF QueryFails

LEMMA StepFinished ==
  ASSUME IInv, NEW c \in Calls, Finish(c)
  PROVE  IInv'
<1>1. /\ Holders \in SUBSET Calls /\ c \in Holders /\ held[c] \in Connections
      /\ pc[c] \in {"return", "release", "txRelease"} /\ pc[c] # "waiting"
      /\ "ended" \in Labels /\ "begin" \in Labels
      /\ Released(held[c], c, "ended") /\ Replaced(held[c])
      /\ UNCHANGED <<tx, ownEnd, pending, written, durable, failed, threw>>
      /\ Answer(c, "resolved") \/ Answer(c, "rejected")
  BY HoldersAre DEF Labels, Finish
<1>2. /\ pc' \in [Calls -> Labels] /\ pc'[c] = "ended"
      /\ \A d \in Calls \ {c} : \/ pc'[d] = pc[d]
                                \/ pc[d] = "waiting" /\ pc'[d] = "begin"
      /\ held' \in [Calls -> Connections \union {None}] /\ idle' \subseteq Connections
  BY <1>1, TypedBasics, ReleasedMoves DEF PoolTyped
<1>3. QueueOK'
  BY <1>1, TypedBasics, ReleasedTo DEF PoolTyped
<1>4. Typed'
  BY <1>1, <1>2, TypedBasics DEF Typed, PoolTyped, Replaced, Answer
<1>5. Located'
  <2>1. \A d \in Calls \ {c} : answer'[d] = answer[d]
    BY <1>1, TypedBasics DEF Answer, Typed
  <2>2. answer'[c] # "none"
    BY <1>1, TypedBasics DEF Answer, Typed
  <2> QED
    BY <1>1, <1>2, <2>1, <2>2, TypedBasics DEF Located
<1>6. Holders' = {d \in Calls \ {c} :
                    d \in Holders \/ (pc[d] = "waiting" /\ pc'[d] = "begin")}
  BY <1>2, TypedBasics DEF Holders, Holds, Located
<1>7. Owned(Holders)'
  <2>1. PoolTyped'
    BY <1>4 DEF Typed
  <2>2. \A H \in SUBSET Calls, G \in SUBSET Calls :
          /\ H = Holders
          /\ G = {d \in Calls \ {c} : d \in H \/ (pc[d] = "waiting" /\ pc'[d] = "begin")}
          => Owned(G)'
    BY <1>1, <2>1, TypedBasics, OwnedWhenReleased
  <2>3. \A G \in SUBSET Calls : G = Holders' => Owned(G)'
    BY <1>1, <1>6, <2>2
  <2> SUFFICES ASSUME NEW G \in SUBSET Calls, G = Holders' PROVE Owned(Holders)'
    BY DEF Holders
  <2>4. Owned(G)'
    BY <2>3
  <2> QED
    BY <2>4 DEF Owned
<1> QED
  BY <1>3, <1>4, <1>5, <1>7 DEF IInv

LEMMA StepGiven ==
  ASSUME IInv, NEW c \in Calls, Reserve(c)
  PROVE  IInv'
<1>1. /\ pc[c] = "start"
      /\ Reserved(c) \/ Queued(c)
      /\ UNCHANGED <<tx, ownEnd, server, outcome>>
  BY DEF Reserve
<1>2. QueueOK'
  BY <1>1, TypedBasics, GivenOrQueued
<1> PICK label \in {"begin", "waiting"} : pc' = [pc EXCEPT ![c] = label]
  BY <1>1, TypedBasics, GivenMoves DEF PoolTyped
<1>3. Typed'
  <2>1. held' \in [Calls -> Connections \union {None}] /\ idle' \subseteq Connections
    BY <1>1, TypedBasics, GivenMoves DEF PoolTyped
  <2> QED
    BY <1>1, <2>1, TypedBasics DEF Typed, PoolTyped, Labels, server, outcome
<1>4. Located'
  BY <1>1, TypedBasics DEF Located, Typed, outcome
<1>5. Holders' = {d \in Calls : d \in Holders \/ (d = c /\ pc'[d] = "begin")}
  BY <1>1, TypedBasics DEF Holders, Holds, Located, Typed
<1>6. Owned(Holders)'
  <2>1. PoolTyped' /\ Holders \in SUBSET Calls
    BY <1>3 DEF Typed, Holders
  <2>2. ASSUME NEW H \in SUBSET Calls, NEW G \in SUBSET Calls,
               H = Holders, G = Holders'
        PROVE  Owned(G)'
    <3>1. G = {d \in Calls : d \in H \/ (d = c /\ pc'[d] = "begin")}
      BY <1>5, <2>2
    <3>2. Owned(H)
      BY <2>2, TypedBasics
    <3> QED
      BY <1>1, <2>1, <3>1, <3>2, TypedBasics, OwnedWhenGiven
  <2>3. \A G \in SUBSET Calls : G = Holders' => Owned(G)'
    BY <2>1, <2>2
  <2> SUFFICES ASSUME NEW G \in SUBSET Calls, G = Holders' PROVE Owned(Holders)'
    BY DEF Holders
  <2>4. Owned(G)'
    BY <2>3
  <2> QED
    BY <2>4 DEF Owned
<1> QED
  BY <1>2, <1>3, <1>4, <1>6 DEF IInv

\* Every step of a call preserves the first part of the invariant.
LEMMA AlwaysAtWork ==
  ASSUME Always, NEW c \in Calls, pc[c] \notin {"start", "waiting", "ended"},
         NEW label \in Labels, label \notin {"start", "waiting"},
         pc' = [pc EXCEPT ![c] = label], UNCHANGED pool, ServerTyped',
         tx' \in [Calls -> {"active", "committed", "rolledBack"}],
         failed' \subseteq Calls, ownEnd' \subseteq Calls, threw' \subseteq Calls,
         written' \in [Calls -> Nat], durable' \in [Calls -> Nat],
         answer' = answer
  PROVE  Always'
<1>1. Typed'
  BY DEF Always, Typed, PoolTyped, ServerTyped, pool
<1>2. QueueOK' /\ Given'
  BY DEF Always, Typed, QueueOK, Given, pool
<1> QED
  BY <1>1, <1>2 DEF Always

LEMMA AlwaysReleased ==
  ASSUME Always, NEW c \in Calls, pc[c] \notin {"start", "waiting", "ended"},
         NEW label \in Labels, label \notin {"start", "waiting"},
         Released(held[c], c, label), Replaced(held[c]),
         UNCHANGED <<tx, ownEnd, pending, written, durable, failed, threw>>,
         answer' \in [Calls -> {"none", "resolved", "rejected"}]
  PROVE  Always'
<1>1. /\ Typed /\ QueueOK /\ Given /\ "begin" \in Labels
      /\ pc \in [Calls -> Labels] /\ idle \subseteq Connections
      /\ held \in [Calls -> Connections \union {None}]
      /\ held[c] \in Connections /\ pc[c] # "waiting"
      /\ label # "waiting"
  BY DEF Always, Typed, PoolTyped, Given, Labels
<1>2. /\ pc' \in [Calls -> Labels] /\ idle' \subseteq Connections
      /\ held' \in [Calls -> Connections \union {None}]
  BY <1>1, ReleasedMoves
<1>3. QueueOK'
  BY <1>1, ReleasedTo
<1>4. Given'
  BY <1>1, ReleasedGives
<1>5. Typed'
  BY <1>1, <1>2 DEF Typed, PoolTyped, Replaced
<1> QED
  BY <1>3, <1>4, <1>5 DEF Always

LEMMA StepAlways ==
  ASSUME Always, NEW c \in Calls, Call(c) \/ Statement(c)
  PROVE  Always'
<1> DEFINE k == held[c]
<1>0. /\ Typed /\ QueueOK /\ Given /\ PoolTyped /\ ServerTyped
      /\ pc \in [Calls -> Labels]
      /\ tx \in [Calls -> {"active", "committed", "rolledBack"}]
      /\ failed \subseteq Calls /\ ownEnd \subseteq Calls /\ threw \subseteq Calls
      /\ written \in [Calls -> Nat] /\ durable \in [Calls -> Nat]
      /\ answer \in [Calls -> {"none", "resolved", "rejected"}]
  BY DEF Always, Typed, PoolTyped, ServerTyped
<1> USE <1>0
<1>1. CASE Reserve(c)
  <2>1. /\ pc[c] = "start" /\ (Reserved(c) \/ Queued(c))
        /\ UNCHANGED <<tx, ownEnd, session, pending>>
        /\ UNCHANGED <<written, durable, failed, threw, answer>>
    BY <1>1 DEF Reserve, server, outcome
  <2>2. QueueOK'
    BY <2>1, GivenOrQueued
  <2>3. Given'
    BY <2>1, GivenGives DEF PoolTyped
  <2>4. /\ held' \in [Calls -> Connections \union {None}] /\ idle' \subseteq Connections
        /\ pc' \in [Calls -> Labels]
    BY <2>1, GivenMoves DEF PoolTyped, Labels
  <2>5. Typed'
    BY <2>1, <2>4 DEF Typed, PoolTyped
  <2> QED
    BY <2>2, <2>3, <2>5 DEF Always
<1>2. CASE Begin(c) \/ FnReturns(c) \/ FnThrows(c)
  <2>1. /\ pc[c] \notin {"start", "waiting", "ended"}
        /\ \E label \in Labels \ {"start", "waiting"} : pc' = [pc EXCEPT ![c] = label]
        /\ threw' \subseteq Calls
        /\ UNCHANGED <<tx, ownEnd, pool, pending, written, durable, failed, answer>>
    BY <1>2 DEF Begin, FnReturns, FnThrows, Goto, Labels, server, outcome
  <2>2. session' = session \/ session' = [session EXCEPT ![k] = "open"]
    BY <1>2 DEF Begin, FnReturns, FnThrows, server
  <2>3. ServerTyped'
    BY <2>1, <2>2 DEF ServerTyped
  <2> QED
    BY <2>1, <2>3, AlwaysAtWork
<1>3. CASE BeginRejects(c)
  <2>1. /\ pc[c] \notin {"start", "waiting", "ended"} /\ k \in Connections
        /\ "release" \in Labels \ {"start", "waiting"}
        /\ pc' = [pc EXCEPT ![c] = "release"]
        /\ UNCHANGED <<tx, ownEnd, pool, written, durable, failed, threw, answer>>
    BY <1>3 DEF BeginRejects, Goto, Labels, outcome, Given
  <2>2. ServerTyped'
    BY <1>3, <2>1, DroppedTyped DEF BeginRejects, ServerTyped, server
  <2> QED
    BY <2>1, <2>2, AlwaysAtWork
<1>4. CASE Commit(c) \/ CommitFails(c) \/ TxCommit(c)
  <2>1. /\ pc[c] \notin {"start", "waiting", "ended"} /\ k \in Connections
        /\ \E label \in Labels \ {"start", "waiting"} : pc' = [pc EXCEPT ![c] = label]
        /\ UNCHANGED <<pool, written, failed, threw, answer>>
    BY <1>4 DEF Commit, CommitFails, TxCommit, Active, Goto, Labels, Given
  <2>2. ServerTyped' /\ durable' \in [Calls -> Nat]
    BY <1>4, <2>1, EndTyped DEF Commit, CommitFails, TxCommit
  <2>3. /\ tx' \in [Calls -> {"active", "committed", "rolledBack"}]
        /\ ownEnd' \subseteq Calls
    BY <1>4 DEF Commit, CommitFails, TxCommit
  <2> QED
    BY <2>1, <2>2, <2>3, AlwaysAtWork
<1>5. CASE Rollback(c) \/ TxRollback(c)
  <2>1. /\ pc[c] \notin {"start", "waiting", "ended"} /\ k \in Connections
        /\ \E label \in Labels \ {"start", "waiting"} : pc' = [pc EXCEPT ![c] = label]
        /\ UNCHANGED <<pool, written, durable, failed, threw, answer>>
    BY <1>5 DEF Rollback, TxRollback, Active, Goto, Labels, Given, outcome
  <2>2. ServerTyped'
    BY <1>5, <2>1, EndTyped DEF Rollback, TxRollback
  <2>3. /\ tx' \in [Calls -> {"active", "committed", "rolledBack"}]
        /\ ownEnd' \subseteq Calls
    BY <1>5 DEF Rollback, TxRollback
  <2> QED
    BY <2>1, <2>2, <2>3, AlwaysAtWork
<1>6. CASE Query(c)
  <2>1. /\ pc[c] = "fn" /\ k \in Connections /\ "fn" \in Labels
        /\ pc' = [pc EXCEPT ![c] = "fn"]
        /\ UNCHANGED <<tx, ownEnd, pool, session, failed, threw, answer>>
        /\ Executed(c, k)
    BY <1>6 DEF Query, Active, calls, Labels, Given
  <2>2. /\ ServerTyped'
        /\ written' \in [Calls -> Nat] /\ durable' \in [Calls -> Nat]
    BY <2>1, ExecutedTyped
  <2> QED
    BY <2>1, <2>2, AlwaysAtWork
<1>7. CASE QueryFails(c)
  <2>1. /\ pc[c] = "fn" /\ k \in Connections /\ "fn" \in Labels
        /\ pc' = [pc EXCEPT ![c] = "fn"] /\ failed' \subseteq Calls
        /\ UNCHANGED <<tx, ownEnd, pool, written, durable, threw, answer>>
    BY <1>7 DEF QueryFails, Active, calls, Labels, Given
  <2>2. ServerTyped'
    BY <1>7, <2>1, DroppedTyped DEF QueryFails, ServerTyped, server
  <2> QED
    BY <2>1, <2>2, AlwaysAtWork
<1>8. CASE Finish(c) \/ TxFinally(c)
  <2>1. /\ pc[c] \notin {"start", "waiting", "ended"}
        /\ Replaced(k)
        /\ UNCHANGED <<tx, ownEnd, pending, written, durable, failed, threw>>
        /\ answer' \in [Calls -> {"none", "resolved", "rejected"}]
    BY <1>8 DEF Finish, TxFinally, Answer, outcome
  <2>2. \E label \in Labels \ {"start", "waiting"} : Released(k, c, label)
    BY <1>8 DEF Finish, TxFinally, Labels
  <2> QED
    BY <2>1, <2>2, AlwaysReleased
<1>9. CASE ReserveRejects(c)
  <2>1. /\ pc[c] = "start" /\ pc' = [pc EXCEPT ![c] = "ended"]
        /\ answer' = [answer EXCEPT ![c] = "rejected"]
        /\ UNCHANGED <<tx, ownEnd, held, idle, waiting, session, pending>>
        /\ UNCHANGED <<written, durable, failed, threw>>
    BY <1>9 DEF ReserveRejects, NotGiven, Goto, Answer, pool, server
  <2>2. Typed'
    BY <2>1 DEF Typed, PoolTyped, Labels
  <2>3. QueueOK' /\ Given'
    BY <2>1 DEF QueueOK, Given
  <2> QED
    BY <2>2, <2>3 DEF Always
<1> QED
  BY <1>1, <1>2, <1>3, <1>4, <1>5, <1>6, <1>7, <1>8, <1>9 DEF Call, Statement

\* Every other step of a call preserves the rest.
LEMMA StepIInv ==
  ASSUME IInv, Typed', ~Void', NEW c \in Calls, Call(c) \/ Statement(c)
  PROVE  IInv'
<1> USE TypedBasics
<1>1. CASE Reserve(c)
  BY <1>1, StepGiven
<1>2. CASE Begin(c)
  <2>1. c \in Holders /\ held[c] \in Connections
    BY <1>2, HoldersAre DEF Begin
  <2>2. /\ pc' = [pc EXCEPT ![c] = "fn"] /\ UNCHANGED <<tx, pool, outcome>>
        /\ session' = [session EXCEPT ![held[c]] = "open"] /\ pending' = pending
    BY <1>2 DEF Begin, Goto
  <2>3. OnlyAt(c, held[c])
    BY <2>1, <2>2, AloneThere DEF OnlyAt, PoolTyped
  <2>4. Located'
    BY <1>2, <2>2 DEF Begin, Located, Typed, outcome
  <2> QED
    BY <2>1, <2>2, <2>3, <2>4, StepOver
<1>3. CASE BeginRejects(c)
  <2>1. c \in Holders /\ held[c] \in Connections
    BY <1>3, HoldersAre DEF BeginRejects
  <2>2. pc' = [pc EXCEPT ![c] = "release"] /\ UNCHANGED <<tx, pool, outcome>>
    BY <1>3 DEF BeginRejects, Goto
  <2>3. Over(c, held[c])
    <3>1. CASE UNCHANGED server
      <4>1. session[held[c]] = "none" /\ pending[held[c]][c] = 0
        BY <1>3, <2>1 DEF BeginRejects, Owned
      <4> QED
        BY <2>1, <3>1, <4>1, AloneThere DEF Over, OnlyAt, server, PoolTyped
    <3>2. CASE Dropped(held[c], "lost")
      BY <2>1, <3>2, DroppedIsOver
    <3> QED
      BY <1>3, <3>1, <3>2 DEF BeginRejects
  <2>4. Located'
    BY <1>3, <2>2 DEF BeginRejects, Located, Typed, outcome
  <2> QED
    BY <2>1, <2>2, <2>3, <2>4, StepOver
<1>4. CASE FnReturns(c) \/ FnThrows(c)
  <2>1. c \in Holders /\ pc[c] = "fn"
    BY <1>4, HoldersAre DEF FnReturns, FnThrows
  <2>2. PICK label \in {"commit", "rollback"} :
          /\ pc' = [pc EXCEPT ![c] = label]
          /\ threw' = threw \/ (label = "rollback" /\ threw' = threw \union {c})
          /\ UNCHANGED <<tx, pool, server, written, durable, failed, answer>>
    BY <1>4 DEF FnReturns, FnThrows, Goto, outcome
  <2>3. OnlyAt(c, held[c])
    BY <2>1, <2>2, AloneThere DEF OnlyAt, PoolTyped, server
  <2>4. Located'
    BY <2>1, <2>2 DEF Located, Typed
  <2> QED
    BY <2>1, <2>2, <2>3, <2>4, StepOver
<1>5. CASE Commit(c) \/ CommitFails(c)
  <2>1. c \in Holders /\ held[c] \in Connections /\ pc[c] = "commit"
    BY <1>5, HoldersAre DEF Commit, CommitFails
  <2>2. PICK label \in {"return", "rollback"} :
          /\ pc' = [pc EXCEPT ![c] = label]
          /\ UNCHANGED <<tx, pool, written, failed, threw, answer>>
    BY <1>5 DEF Commit, CommitFails, Goto
  <2>3. Over(c, held[c]) /\ durable' \in [Calls -> Nat]
    BY <1>5, <2>1, AloneThere, EndIsOver DEF Commit, CommitFails
  <2>4. Located'
    <3>1. KeptOf(c, held[c]) \/ durable' = durable
      BY <1>5, <2>1, AloneThere, EndIsOver DEF Commit, CommitFails
    <3>2. \A d \in Calls \ {c} : durable'[d] = durable[d]
      BY <3>1 DEF KeptOf
    <3> QED
      BY <2>1, <2>2, <3>2 DEF Located, Typed
  <2> QED
    BY <2>1, <2>2, <2>3, <2>4, StepOver
<1>6. CASE Rollback(c)
  <2>1. c \in Holders /\ held[c] \in Connections /\ pc[c] = "rollback"
    BY <1>6, HoldersAre DEF Rollback
  <2>2. pc' = [pc EXCEPT ![c] = "release"] /\ UNCHANGED <<tx, pool, outcome>>
    BY <1>6 DEF Rollback, Goto
  <2>3. Over(c, held[c])
    BY <1>6, <2>1, AloneThere, EndIsOver DEF Rollback
  <2>4. Located'
    BY <2>1, <2>2 DEF Located, Typed, outcome
  <2> QED
    BY <2>1, <2>2, <2>3, <2>4, StepOver
<1>7. CASE Finish(c)
  BY <1>7, StepFinished
<1>8. CASE Query(c)
  <2>1. c \in Holders /\ held[c] \in Connections /\ pc[c] = "fn"
    BY <1>8, HoldersAre DEF Query, Active
  <2>2. /\ pc' = [pc EXCEPT ![c] = "fn"]
        /\ UNCHANGED <<tx, pool, session, failed, threw, answer>>
    BY <1>8, <2>1 DEF Query, calls
  <2>3. /\ OnlyAt(c, held[c])
        /\ written' \in [Calls -> Nat] /\ durable' \in [Calls -> Nat]
        /\ \A d \in Calls \ {c} : written'[d] = written[d] /\ durable'[d] = durable[d]
    BY <1>8, <2>1, <2>2, AloneThere, ExecutedOnlyAt DEF Query
  <2>4. Located'
    BY <2>1, <2>2, <2>3 DEF Located, Typed
  <2> QED
    BY <2>1, <2>2, <2>3, <2>4, StepOver
<1>9. CASE QueryFails(c)
  <2>1. c \in Holders /\ held[c] \in Connections /\ pc[c] = "fn"
    BY <1>9, HoldersAre DEF QueryFails, Active
  <2>2. /\ pc' = [pc EXCEPT ![c] = "fn"] /\ failed' = failed \union {c}
        /\ UNCHANGED <<tx, pool, written, durable, threw, answer>>
    BY <1>9, <2>1 DEF QueryFails, calls
  <2>3. OnlyAt(c, held[c])
    BY <1>9, <2>1, AloneThere, StatementFailedOnlyAt DEF QueryFails
  <2>4. Located'
    BY <2>1, <2>2 DEF Located, Typed
  <2> QED
    BY <2>1, <2>2, <2>3, <2>4, StepOver
<1>10. CASE ReserveRejects(c)
  <2>1. /\ pc[c] = "start" /\ pc' = [pc EXCEPT ![c] = "ended"]
        /\ answer' = [answer EXCEPT ![c] = "rejected"]
        /\ UNCHANGED <<tx, ownEnd, held, idle, waiting, session, pending>>
        /\ UNCHANGED <<written, durable, failed, threw>>
    BY <1>10 DEF ReserveRejects, NotGiven, Goto, Answer, pool, server
  <2>2. Located' /\ QueueOK'
    BY <2>1 DEF Located, Typed, QueueOK
  <2>3. Holders' = Holders /\ \A d \in Holders : pc'[d] = pc[d]
    BY <2>1 DEF Holders, Holds
  <2>4. Owned(Holders)'
    BY <2>1, <2>3 DEF Owned
  <2> QED
    BY <2>2, <2>4 DEF IInv
<1> QED
  BY <1>1, <1>2, <1>3, <1>4, <1>5, <1>6, <1>7, <1>8, <1>9, <1>10
     DEF Call, Statement, TxCommit, TxRollback, TxFinally, Located, Void

\* What is void stays void.
LEMMA OnceVoid ==
  ASSUME NEW c \in Calls, Call(c) \/ Statement(c), Void
  PROVE  Void'
<1>1. ownEnd \subseteq ownEnd'
  BY DEF Call, Statement, Reserve, ReserveRejects, Begin, BeginRejects, FnReturns, FnThrows, Commit,
         CommitFails, Rollback, Finish, TxFinally, Query, QueryFails, TxCommit,
         TxRollback, calls
<1> QED
  BY <1>1 DEF Void

LEMMA InvHolds == Spec => []Inv
<1>1. Init => Inv
  <2> SUFFICES ASSUME Init PROVE Inv
    OBVIOUS
  <2>1. IInv
    BY InitIInv
  <2>2. Given
    BY DEF Init, PoolInit, Given
  <2> QED
    BY <2>1, <2>2 DEF Inv, Always, IInv
<1>2. Inv /\ [Next]_vars => Inv'
  <2> SUFFICES ASSUME Inv, [Next]_vars PROVE Inv'
    OBVIOUS
  <2>1. CASE Next
    <3> PICK c \in Calls : Call(c) \/ Statement(c)
      BY <2>1 DEF Next
    <3>1. Always'
      BY StepAlways DEF Inv
    <3>2. ASSUME ~Void' PROVE IInv'
      <4>1. ~Void
        BY <3>2, OnceVoid
      <4>2. IInv /\ Typed'
        BY <3>1, <4>1 DEF Inv, Always
      <4> QED
        BY <3>2, <4>2, StepIInv
    <3> QED
      BY <3>1, <3>2 DEF Inv
  <2>2. CASE UNCHANGED vars
    <3>1. /\ UNCHANGED <<pc, tx, ownEnd, held, idle, waiting, session, pending>>
          /\ UNCHANGED <<written, durable, failed, threw, answer>>
      BY <2>2 DEF vars, calls, pool, server, outcome
    <3>2. Always'
      BY <3>1 DEF Inv, Always, Typed, PoolTyped, QueueOK, Given
    <3>3. ASSUME ~Void PROVE IInv'
      <4>1. IInv
        BY <3>3 DEF Inv
      <4>2. Typed' /\ QueueOK' /\ Located'
        BY <3>1, <3>2, <4>1 DEF Always, IInv, Located
      <4>3. Owned(Holders)'
        BY <3>1, <4>1 DEF IInv, Owned, Holders, Holds
      <4> QED
        BY <4>2, <4>3 DEF IInv
    <3> QED
      BY <3>1, <3>2, <3>3 DEF Inv, Void
  <2> QED
    BY <2>1, <2>2
<1> QED
  BY <1>1, <1>2, PTL DEF Spec

\* Every variable has its type; who waits for a connection is in the queue.
THEOREM TypeCorrect == Spec => []TypeOK
<1>1. Inv => TypeOK
  BY DEF Inv, Always, Typed, PoolTyped, QueueOK, TypeOK, PoolTypeOK, Labels
<1> QED
  BY <1>1, InvHolds, PTL

\* Between reserve() and release() a connection serves one call alone, and
\* what its transaction holds back is the work of that call.
THEOREM ConnectionIsOwnedHolds == Spec => []ConnectionIsOwned
<1>1. Inv => ConnectionIsOwned
  <2> SUFFICES ASSUME IInv, NEW c \in Calls, Holds(c)
               PROVE  /\ Apart(c, held[c])
                      /\ \A d \in Calls \ {c} : Holds(d) => held[d] # held[c]
    BY DEF ConnectionIsOwned, Inv
  <2>1. c \in Holders /\ \A d \in Calls : Holds(d) => d \in Holders
    BY DEF Holders
  <2> QED
    BY <2>1, AloneThere DEF IInv, Owned, Apart
<1> QED
  BY <1>1, InvHolds, PTL

\* release() gives a connection away without a transaction on it.
THEOREM IdleConnectionsAreCleanHolds == Spec => []IdleConnectionsAreClean
<1>1. Inv => IdleConnectionsAreClean
  <2> SUFFICES ASSUME IInv, NEW k \in idle
               PROVE  session[k] = "none" /\ pending[k] = NoStatements
    BY DEF IdleConnectionsAreClean, IdleIsClean, Inv
  <2>1. session[k] = "none" /\ k \in Connections /\ pending[k] \in [Calls -> Nat]
    BY DEF IInv, Typed, PoolTyped, Owned
  <2>2. \A d \in Calls : pending[k][d] = 0
    BY <2>1 DEF IInv, Owned
  <2> QED
    BY <2>1, <2>2, AllZero
<1> QED
  BY <1>1, InvHolds, PTL

-----------------------------------------------------------------------------
LEMMA NoneLostAsk ==
  ASSUME Always, NoneIsLost(Holders), NEW c \in Calls, Reserve(c)
  PROVE  NoneIsLost(Holders)'
<1>1. /\ pc \in [Calls -> Labels] /\ "begin" \in Labels
      /\ held \in [Calls -> Connections \union {None}]
      /\ pc[c] = "start" /\ (Reserved(c) \/ Queued(c)) /\ QueueOK
  BY DEF Always, Typed, PoolTyped, Labels, Reserve
<1>2. PICK label \in {"begin", "waiting"} : pc' = [pc EXCEPT ![c] = label]
  BY <1>1 DEF Reserved, Queued, Goto
<1>3. /\ Holders \in SUBSET Calls /\ Holders' \in SUBSET Calls /\ c \notin Holders
      /\ Holders \subseteq Holders' /\ (pc'[c] = "begin" => c \in Holders')
  BY <1>1, <1>2 DEF Holders, Holds
<1> SUFFICES ASSUME NEW H \in SUBSET Calls, NEW G \in SUBSET Calls,
                    H = Holders, G = Holders'
             PROVE  NoneIsLost(Holders)'
  BY <1>3
<1>4. NoneIsLost(H)
  BY DEF NoneIsLost
<1>5. NoneIsLost(G)'
  BY <1>1, <1>3, <1>4, NoneLostWhenGiven
<1> QED
  BY <1>5 DEF NoneIsLost

\* A release, also one by a function that has not returned yet.
LEMMA NoneLostRelease ==
  ASSUME Always, NoneIsLost(Holders), NEW c \in Calls, Finish(c) \/ TxFinally(c)
  PROVE  NoneIsLost(Holders)'
<1>1. PICK label \in {"ended", "fn"} : Released(held[c], c, label)
  BY DEF Finish, TxFinally
<1>2. /\ pc \in [Calls -> Labels] /\ "begin" \in Labels
      /\ held \in [Calls -> Connections \union {None}] /\ idle \subseteq Connections
      /\ pc[c] \notin {"start", "waiting", "ended"} /\ QueueOK
      /\ held[c] \in Connections /\ label \in Labels /\ label # "waiting"
      /\ pc[c] # "waiting"
  BY DEF Always, Typed, PoolTyped, Labels, Finish, TxFinally, Given
<1>3. /\ pc'[c] = label
      /\ \A d \in Calls \ {c} : \/ pc'[d] = pc[d]
                                \/ pc[d] = "waiting" /\ pc'[d] = "begin"
  BY <1>1, <1>2, ReleasedMoves
<1>4. /\ Holders \in SUBSET Calls /\ Holders' \in SUBSET Calls /\ c \in Holders
      /\ \A d \in Holders : pc[d] # "waiting"
      /\ Holders \ {c} \subseteq Holders'
      /\ \A d \in Calls : pc[d] = "waiting" /\ pc'[d] = "begin" => d \in Holders'
  BY <1>2, <1>3 DEF Holders, Holds
<1> SUFFICES ASSUME NEW H \in SUBSET Calls, NEW G \in SUBSET Calls,
                    H = Holders, G = Holders'
             PROVE  NoneIsLost(Holders)'
  BY <1>4
<1>5. NoneIsLost(H)
  BY DEF NoneIsLost
<1>6. NoneIsLost(G)'
  BY <1>1, <1>2, <1>4, <1>5, NoneLostWhenReleased
<1> QED
  BY <1>6 DEF NoneIsLost

\* No connection is lost, whatever fails or throws, also when functions end
\* their transactions themselves: one that is not idle is held by a call
\* under way, and no call waits beside an idle one.
THEOREM NoConnectionIsLostHolds == Spec => []NoConnectionIsLost
<1> DEFINE NoneLost == NoneIsLost(Holders)
<1>1. Init => NoneLost
  BY DEF Init, PoolInit, NoneIsLost
<1>2. Inv /\ NoneLost /\ [Next]_vars => NoneLost'
  <2> SUFFICES ASSUME Always, NoneIsLost(Holders), [Next]_vars
               PROVE  NoneIsLost(Holders)'
    BY DEF Inv
  <2>1. ASSUME NEW c \in Calls, UNCHANGED pool,
               pc[c] \notin {"start", "waiting", "ended"},
               NEW label, label \notin {"start", "waiting", "ended"},
               pc' = [pc EXCEPT ![c] = label]
        PROVE  NoneIsLost(Holders)'
    <3>1. Holders' = Holders
      BY <2>1 DEF Holders, Holds, Always, Typed
    <3> QED
      BY <2>1, <3>1 DEF NoneIsLost, pool
  <2>2. CASE Next
    <3> PICK c \in Calls : Call(c) \/ Statement(c)
      BY <2>2 DEF Next
    <3>1. CASE Reserve(c)
      BY <3>1, NoneLostAsk
    <3>2. CASE Finish(c) \/ TxFinally(c)
      BY <3>2, NoneLostRelease
    <3>3. CASE Begin(c) \/ BeginRejects(c) \/ FnReturns(c) \/ FnThrows(c)
      BY <2>1, <3>3 DEF Begin, BeginRejects, FnReturns, FnThrows, Goto
    <3>4. CASE Commit(c) \/ CommitFails(c) \/ Rollback(c)
      BY <2>1, <3>4 DEF Commit, CommitFails, Rollback, Goto
    <3>5. CASE TxCommit(c) \/ TxRollback(c)
      BY <2>1, <3>5 DEF TxCommit, TxRollback, Active, Goto
    <3>6. CASE Query(c) \/ QueryFails(c)
      BY <3>6 DEF Query, QueryFails, calls, pool, NoneIsLost, Holders, Holds
    <3>7. CASE ReserveRejects(c)
      <4>1. pc[c] = "start" /\ pc' = [pc EXCEPT ![c] = "ended"] /\ UNCHANGED pool
        BY <3>7 DEF ReserveRejects, NotGiven, Goto
      <4>2. Holders' = Holders
        BY <4>1 DEF Holders, Holds
      <4> QED
        BY <4>1, <4>2 DEF NoneIsLost, pool
    <3> QED
      BY <3>1, <3>2, <3>3, <3>4, <3>5, <3>6, <3>7 DEF Call, Statement
  <2>3. CASE UNCHANGED vars
    BY <2>3 DEF vars, calls, pool, NoneIsLost, Holders, Holds
  <2> QED
    BY <2>2, <2>3
<1>3. NoneLost => NoConnectionIsLost
  BY DEF NoConnectionIsLost, Holders
<1> HIDE DEF NoneLost
<1> QED
  BY <1>1, <1>2, <1>3, InvHolds, PTL DEF Spec

-----------------------------------------------------------------------------
\* A step of call c leaves the other calls' connections alone.
LEMMA OthersKept ==
  ASSUME KInv, NEW c \in Calls,
         \A d \in Holders' \ {c} :
           \/ pc'[d] = "begin"
           \/ /\ d \in Holders /\ pc'[d] = pc[d] /\ held'[d] = held[d]
              /\ session'[held[d]] = session[held[d]]
              /\ pending'[held[d]] = pending[held[d]]
              /\ written'[d] = written[d] /\ durable'[d] = durable[d]
              /\ (d \in failed => d \in failed'),
         c \in Holders' => AllOrNothing(c)'
  PROVE  EachAllOrNothing'
BY DEF EachAllOrNothing, KInv, AllOrNothing

LEMMA OthersAtWork ==
  ASSUME KInv, NEW c \in Holders, NEW label,
         pc' = [pc EXCEPT ![c] = label], UNCHANGED pool,
         label \notin {"start", "waiting", "ended"}, OnlyAt(c, held[c]),
         \A d \in Calls \ {c} : written'[d] = written[d] /\ durable'[d] = durable[d],
         failed \subseteq failed',
         AllOrNothing(c)'
  PROVE  EachAllOrNothing'
<1>1. IInv /\ c \in Calls /\ Holders' = Holders
  BY DEF KInv, IInv, Typed, Holders, Holds
<1>2. ASSUME NEW d \in Holders \ {c}
      PROVE  /\ pc'[d] = pc[d] /\ held'[d] = held[d]
             /\ session'[held[d]] = session[held[d]]
             /\ pending'[held[d]] = pending[held[d]]
             /\ written'[d] = written[d] /\ durable'[d] = durable[d]
  <2>1. d \in Calls /\ held[d] \in Connections /\ held[d] # held[c]
    BY <1>1 DEF IInv, Owned, Holders
  <2> QED
    BY <2>1 DEF pool, OnlyAt
<1> QED
  BY <1>1, <1>2, OthersKept

Promised == [Promise!Next]_(Promise!transactionVars)

LEMMA StepPromised ==
  ASSUME KInv, ~Void, ~Void', NEW c \in Calls, Call(c) \/ Statement(c)
  PROVE  EachAllOrNothing' /\ Promised
<1> DEFINE k == held[c]
<1>0. IInv /\ EachAllOrNothing /\ Void' = Void
  BY DEF KInv, Void
<1> USE <1>0, TypedBasics DEF Promised, Promise!transactionVars, Promise!Next
<1>1. CASE Reserve(c)
  <2>1. Promised
    BY <1>1 DEF Reserve, outcome
  <2>2. /\ pc[c] = "start"
        /\ Reserved(c) \/ Queued(c)
        /\ UNCHANGED <<session, pending, written, durable, failed>>
    BY <1>1 DEF Reserve, server, outcome
  <2> PICK label \in {"begin", "waiting"} : pc' = [pc EXCEPT ![c] = label]
    BY <2>2, GivenMoves DEF PoolTyped
  <2>3. \A d \in Calls \ {c} : pc'[d] = pc[d] /\ held'[d] = held[d]
    BY <2>2 DEF Reserved, Queued, PoolTyped
  <2>4. AllOrNothing(c)'
    BY DEF AllOrNothing, Typed
  <2>5. EachAllOrNothing'
    <3>1. \A d \in Holders' \ {c} : d \in Holders
      BY <2>2, <2>3 DEF Holders, Holds
    <3> QED
      BY <2>2, <2>3, <2>4, <3>1, OthersKept DEF Holders
  <2> QED
    BY <2>1, <2>5
<1>2. CASE Begin(c)
  <2>1. c \in Holders /\ k \in Connections
    BY <1>2, HoldersAre DEF Begin
  <2>2. /\ pc' = [pc EXCEPT ![c] = "fn"] /\ UNCHANGED <<pool, outcome>>
        /\ session' = [session EXCEPT ![k] = "open"] /\ pending' = pending
    BY <1>2 DEF Begin, Goto
  <2>3. OnlyAt(c, k)
    BY <2>1, <2>2, AloneThere DEF OnlyAt, PoolTyped
  <2>4. AllOrNothing(c)'
    <3>1. /\ pc'[c] = "fn" /\ durable'[c] = 0 /\ written'[c] = 0
          /\ held'[c] = k /\ session'[k] = "open"
      BY <1>2, <2>1, <2>2 DEF Begin, Located, Typed, PoolTyped, pool, outcome
    <3>2. pending'[k][c] = 0
      BY <1>2, <2>1, <2>2 DEF Begin, Owned
    <3> QED
      BY <3>1, <3>2 DEF AllOrNothing
  <2>5. EachAllOrNothing'
    BY <2>1, <2>2, <2>3, <2>4, OthersAtWork DEF outcome
  <2> QED
    BY <2>2, <2>5 DEF outcome
<1>3. CASE BeginRejects(c) \/ Rollback(c)
  <2>1. c \in Holders /\ k \in Connections
    BY <1>3, HoldersAre DEF BeginRejects, Rollback
  <2>2. pc' = [pc EXCEPT ![c] = "release"] /\ UNCHANGED <<pool, outcome>>
    BY <1>3 DEF BeginRejects, Rollback, Goto
  <2>3. OnlyAt(c, k)
    <3>1. CASE UNCHANGED server
      BY <2>1, <3>1, AloneThere DEF OnlyAt, server, PoolTyped
    <3>2. CASE Dropped(k, "lost")
      BY <2>1, <3>2, DroppedIsOver DEF Over
    <3>3. CASE Rollback(c)
      BY <2>1, <3>3, AloneThere, EndIsOver DEF Rollback, Over
    <3> QED
      BY <1>3, <3>1, <3>2, <3>3 DEF BeginRejects
  <2>4. AllOrNothing(c)'
    BY <2>2 DEF AllOrNothing, Typed
  <2>5. EachAllOrNothing'
    BY <2>1, <2>2, <2>3, <2>4, OthersAtWork DEF outcome
  <2> QED
    BY <2>2, <2>5 DEF outcome
<1>4. CASE FnReturns(c) \/ FnThrows(c)
  <2>1. c \in Holders /\ pc[c] = "fn" /\ k \in Connections
    BY <1>4, HoldersAre DEF FnReturns, FnThrows
  <2>2. durable[c] = 0 /\ answer[c] = "none"
    BY <2>1 DEF EachAllOrNothing, AllOrNothing, Located
  <2>3. PICK label \in {"commit", "rollback"} :
          /\ pc' = [pc EXCEPT ![c] = label]
          /\ UNCHANGED <<pool, server, written, durable, failed, answer>>
          /\ \/ threw' = threw
             \/ threw' = threw \union {c}
    BY <1>4 DEF FnReturns, FnThrows, Goto, outcome
  <2>4. Promised
    BY <2>2, <2>3 DEF Promise!Throw
  <2>5. OnlyAt(c, k)
    BY <2>1, <2>3, AloneThere DEF OnlyAt, PoolTyped, server
  <2>6. AllOrNothing(c)'
    BY <2>1, <2>2, <2>3 DEF AllOrNothing, EachAllOrNothing, Typed, server, pool
  <2>7. EachAllOrNothing'
    BY <2>1, <2>3, <2>5, <2>6, OthersAtWork
  <2> QED
    BY <2>4, <2>7
<1>5. CASE Commit(c) \/ CommitFails(c)
  <2>1. c \in Holders /\ k \in Connections /\ pc[c] = "commit"
    BY <1>5, HoldersAre DEF Commit, CommitFails
  <2>2. PICK label \in {"return", "rollback"} :
          /\ pc' = [pc EXCEPT ![c] = label]
          /\ UNCHANGED <<pool, written, failed, threw, answer>>
    BY <1>5 DEF Commit, CommitFails, Goto
  <2>3. /\ durable[c] = 0 /\ c \notin threw /\ answer[c] = "none"
        /\ session[k] \in {"open", "failed", "lost"}
        /\ session[k] = "open" => pending[k][c] = written[c]
        /\ session[k] = "failed" => c \in failed
    BY <2>1 DEF EachAllOrNothing, AllOrNothing, Located
  <2>4. /\ Over(c, k)
        /\ \/ session[k] = "open" /\ KeptOf(c, k)
           \/ durable' = durable
    BY <1>5, <2>1, AloneThere, EndIsOver DEF Commit, CommitFails
  <2>5. durable' = [durable EXCEPT ![c] = written[c]] \/ durable' = durable
    BY <2>3, <2>4 DEF KeptOf
  <2>6. Promised
    BY <2>2, <2>3, <2>5 DEF Promise!Keep
  <2>7. CASE Commit(c)
    <3>1. session[k] = "failed" \/ durable' = [durable EXCEPT ![c] = written[c]]
      <4>1. \/ session[k] = "open" /\ KeptOf(c, k)
            \/ session[k] = "failed"
        BY <2>1, <2>3, <2>7, AloneThere, EndIsOver DEF Commit
      <4> QED
        BY <2>3, <4>1 DEF KeptOf
    <3>2. durable'[c] = written'[c] \/ c \in failed'
      BY <2>2, <2>3, <3>1
    <3>3. pc'[c] = "return"
      BY <2>7 DEF Commit, Goto, Typed
    <3>4. AllOrNothing(c)'
      BY <3>2, <3>3 DEF AllOrNothing
    <3>5. EachAllOrNothing'
      BY <2>1, <2>2, <2>4, <2>5, <3>4, OthersAtWork DEF Over
    <3> QED
      BY <2>6, <3>5
  <2>8. CASE CommitFails(c)
    <3>1. pc'[c] = "rollback"
      BY <2>8 DEF CommitFails, Goto, Typed
    <3>2. AllOrNothing(c)'
      BY <3>1 DEF AllOrNothing
    <3>3. EachAllOrNothing'
      BY <2>1, <2>2, <2>4, <2>5, <3>2, OthersAtWork DEF Over
    <3> QED
      BY <2>6, <3>3
  <2> QED
    BY <1>5, <2>7, <2>8
<1>6. CASE Finish(c)
  <2>1. /\ c \in Holders /\ k \in Connections
        /\ pc[c] \in {"return", "release"} /\ pc[c] # "waiting"
        /\ "ended" \in Labels /\ "begin" \in Labels
    BY <1>6, HoldersAre DEF Finish, Labels
  <2>2. /\ Released(k, c, "ended") /\ Replaced(k)
        /\ UNCHANGED <<pending, written, durable, failed, threw>>
    BY <1>6 DEF Finish
  <2>3. /\ c \notin Holders'
        /\ \A d \in Holders' \ {c} :
             \/ pc'[d] = "begin"
             \/ /\ d \in Holders /\ pc'[d] = pc[d] /\ held'[d] = held[d]
                /\ held[d] # k
    <3>1. /\ pc'[c] = "ended"
          /\ \A d \in Calls \ {c} : \/ pc'[d] = pc[d] /\ held'[d] = held[d]
                                    \/ pc[d] = "waiting" /\ pc'[d] = "begin"
      BY <2>1, <2>2, ReleasedMoves DEF PoolTyped
    <3>2. \A d \in Holders \ {c} : held[d] # k
      BY <2>1 DEF Owned
    <3> QED
      BY <3>1, <3>2 DEF Holders, Holds
  <2>4. \A d \in Holders : d \in Calls /\ held[d] \in Connections
    BY DEF Holders, Owned
  <2>5. EachAllOrNothing'
    <3>1. \A d \in Holders : held[d] # k => session'[held[d]] = session[held[d]]
      BY <2>2, <2>4 DEF Replaced, PoolTyped
    <3> QED
      BY <2>2, <2>3, <2>4, <3>1, OthersKept
  <2>6. CASE pc[c] = "return"
    <3>1. /\ answer' = [answer EXCEPT ![c] = "resolved"] /\ answer[c] = "none"
          /\ c \notin threw
          /\ durable[c] = written[c] \/ c \in failed
      BY <1>6, <2>1, <2>6
         DEF Finish, Answer, Located, EachAllOrNothing, AllOrNothing
    <3>2. Promise!Resolve(c)
      BY <2>2, <3>1 DEF Promise!Resolve
    <3> QED
      BY <2>5, <3>2
  <2>7. CASE pc[c] = "release"
    <3>1. answer' = [answer EXCEPT ![c] = "rejected"] /\ answer[c] = "none"
      BY <1>6, <2>1, <2>7 DEF Finish, Answer, Located
    <3>2. Promise!Reject(c)
      BY <2>2, <3>1 DEF Promise!Reject
    <3> QED
      BY <2>5, <3>2
  <2> QED
    BY <2>1, <2>6, <2>7
<1>7. CASE Query(c)
  <2>1. c \in Holders /\ k \in Connections /\ pc[c] = "fn"
    BY <1>7, HoldersAre DEF Query, Active
  <2>2. /\ pc' = [pc EXCEPT ![c] = "fn"]
        /\ UNCHANGED <<pool, session, failed, threw, answer>>
    BY <1>7, <2>1 DEF Query, calls
  <2>3. /\ durable[c] = 0 /\ c \notin threw /\ answer[c] = "none"
        /\ session[k] \in {"open", "failed", "lost"}
        /\ session[k] = "open" => pending[k][c] = written[c]
    BY <2>1 DEF EachAllOrNothing, AllOrNothing, Located
  <2>4. /\ written' = [written EXCEPT ![c] = @ + 1] /\ durable' = durable
        /\ pending' = [pending EXCEPT ![k][c] = @ + 1] /\ session[k] = "open"
    BY <1>7, <2>3 DEF Query, Executed
  <2>5. OnlyAt(c, k)
    BY <1>7, <2>1, <2>2, AloneThere, ExecutedOnlyAt DEF Query
  <2>6. Promise!Write(c)
    BY <2>2, <2>3, <2>4 DEF Promise!Write
  <2>7. AllOrNothing(c)'
    <3>1. /\ pc'[c] = "fn" /\ held'[c] = k /\ session'[k] = "open" /\ durable'[c] = 0
          /\ pending'[k][c] = pending[k][c] + 1 /\ written'[c] = written[c] + 1
      BY <2>1, <2>2, <2>3, <2>4 DEF Typed, PoolTyped, pool
    <3> QED
      BY <2>3, <2>4, <3>1 DEF AllOrNothing
  <2>8. EachAllOrNothing'
    BY <2>1, <2>2, <2>4, <2>5, <2>7, OthersAtWork
  <2> QED
    BY <2>6, <2>8
<1>8. CASE QueryFails(c)
  <2>1. c \in Holders /\ k \in Connections /\ pc[c] = "fn"
    BY <1>8, HoldersAre DEF QueryFails, Active
  <2>2. /\ pc' = [pc EXCEPT ![c] = "fn"] /\ failed' = failed \union {c}
        /\ UNCHANGED <<pool, written, durable, threw, answer>>
    BY <1>8, <2>1 DEF QueryFails, calls
  <2>3. durable[c] = 0 /\ answer[c] = "none" /\ session[k] # "none"
    BY <2>1 DEF EachAllOrNothing, AllOrNothing, Located
  <2>4. OnlyAt(c, k)
    BY <1>8, <2>1, StatementFailedOnlyAt
  <2>5. Promise!Fail(c)
    BY <2>2, <2>3 DEF Promise!Fail
  <2>6. AllOrNothing(c)'
    <3>1. session'[k] \in {"failed", "lost"}
      BY <1>8, <2>1, <2>3 DEF QueryFails, Dropped, server, PoolTyped
    <3>2. held'[c] = k /\ durable'[c] = 0 /\ pc'[c] = "fn" /\ c \in failed'
      BY <2>2, <2>3 DEF Typed, pool
    <3> QED
      BY <3>1, <3>2 DEF AllOrNothing
  <2>7. EachAllOrNothing'
    BY <2>1, <2>2, <2>4, <2>6, OthersAtWork
  <2> QED
    BY <2>5, <2>7
<1>9. CASE ReserveRejects(c)
  <2>1. /\ pc[c] = "start" /\ pc' = [pc EXCEPT ![c] = "ended"]
        /\ answer' = [answer EXCEPT ![c] = "rejected"]
        /\ UNCHANGED <<held, session, pending, written, durable, failed, threw>>
    BY <1>9 DEF ReserveRejects, NotGiven, Goto, Answer, pool, server
  <2>2. Promise!Reject(c)
    BY <2>1 DEF Promise!Reject, Located
  <2>3. c \notin Holders' /\ \A d \in Holders' : d \in Holders /\ pc'[d] = pc[d]
    BY <2>1 DEF Holders, Holds
  <2>4. EachAllOrNothing'
    BY <2>1, <2>3, OthersKept
  <2> QED
    BY <2>2, <2>4
<1> QED
  BY <1>1, <1>2, <1>3, <1>4, <1>5, <1>6, <1>7, <1>8, <1>9
     DEF Call, Statement, TxCommit, TxRollback, TxFinally, Located, Void

\* The calls implement Transactions: all of a call's statements become durable
\* or none, and all when transaction() resolves and none had failed; until a
\* function ends its transaction itself.
THEOREM KeepsTransactionsHolds == Spec => KeepsTransactions
<1> DEFINE UnlessVoid == ~Void => EachAllOrNothing
<1>1. Init => UnlessVoid /\ Promise!Init
  <2>1. Init => EachAllOrNothing
    BY DEF Init, PoolInit, EachAllOrNothing, Holders, Holds
  <2>2. Init => Promise!Init
    BY DEF Init, PoolInit, NoStatements, Promise!Init, Void
  <2> QED
    BY <2>1, <2>2
<1>2. Inv /\ UnlessVoid /\ [Next]_vars => UnlessVoid' /\ Promised
  <2> SUFFICES ASSUME Inv, UnlessVoid, [Next]_vars PROVE UnlessVoid' /\ Promised
    OBVIOUS
  <2>1. CASE Void'
    BY <2>1 DEF Promised, Promise!Next
  <2>2. CASE Next /\ ~Void'
    <3> PICK c \in Calls : Call(c) \/ Statement(c)
      BY <2>2 DEF Next
    <3>1. ~Void
      BY <2>2, OnceVoid
    <3>2. EachAllOrNothing' /\ Promised
      BY <2>2, <3>1, StepPromised DEF Inv, KInv
    <3> QED
      BY <3>2
  <2>3. CASE UNCHANGED vars
    <3>1. /\ UNCHANGED <<pc, ownEnd, held, session, pending>>
          /\ UNCHANGED <<written, durable, failed, threw, answer>>
      BY <2>3 DEF vars, calls, pool, server, outcome
    <3>2. UnlessVoid'
      BY <3>1 DEF EachAllOrNothing, AllOrNothing, Holders, Holds, Void
    <3>3. Promised
      BY <3>1 DEF Promised, Promise!transactionVars, Void
    <3> QED
      BY <3>2, <3>3
  <2> QED
    BY <2>1, <2>2, <2>3
<1> HIDE DEF UnlessVoid
<1> QED
  BY <1>1, <1>2, InvHolds, PTL
     DEF Spec, KeepsTransactions, Promise!Spec, Promised

-----------------------------------------------------------------------------
\* Every step keeps what the promise means to a caller.
LEMMA AtomicStep ==
  ASSUME Typed, [Promise!Next]_Promise!transactionVars
  PROVE  /\ Promise!AllOrNone => Promise!AllOrNone'
         /\ [Promise!Settled]_Promise!transactionVars
<1>1. CASE Void'
  BY <1>1 DEF Promise!AllOrNone, Promise!Settled
<1>2. CASE UNCHANGED Promise!transactionVars
  BY <1>2 DEF Promise!AllOrNone, Promise!transactionVars
<1>3. ASSUME NEW c \in Calls, ~Void', UNCHANGED Void,
             \/ Promise!Write(c) \/ Promise!Fail(c) \/ Promise!Throw(c)
             \/ Promise!Keep(c) \/ Promise!KeepOwn(c)
             \/ Promise!Resolve(c) \/ Promise!Reject(c)
      PROVE  /\ Promise!AllOrNone => Promise!AllOrNone'
             /\ Promise!Settled
  <2>1. /\ written \in [Calls -> Nat] /\ durable \in [Calls -> Nat]
        /\ DOMAIN answer = Calls /\ answer[c] = "none"
    BY <1>3 DEF Typed, Promise!Write, Promise!Fail, Promise!Throw, Promise!Keep,
                Promise!KeepOwn, Promise!Resolve, Promise!Reject
  <2>2. \A d \in Calls \ {c} :
          /\ written'[d] = written[d] /\ durable'[d] = durable[d] /\ answer'[d] = answer[d]
          /\ (d \in failed' <=> d \in failed) /\ (d \in threw' <=> d \in threw)
    BY <1>3, <2>1 DEF Promise!Write, Promise!Fail, Promise!Throw, Promise!Keep,
                      Promise!KeepOwn, Promise!Resolve, Promise!Reject
  <2>3. durable[c] \in {0, written[c]} /\ (c \in threw => durable[c] = 0)
        => /\ durable'[c] \in {0, written'[c]} /\ (c \in threw' => durable'[c] = 0)
           /\ answer'[c] = "resolved" /\ c \notin failed' => durable'[c] = written'[c]
    BY <1>3, <2>1 DEF Promise!Write, Promise!Fail, Promise!Throw, Promise!Keep,
                      Promise!KeepOwn, Promise!Resolve, Promise!Reject
  <2> QED
    BY <1>3, <2>1, <2>2, <2>3 DEF Promise!AllOrNone, Promise!Settled
<1> QED
  BY <1>1, <1>2, <1>3 DEF Promise!Next, Promise!Write, Promise!Fail, Promise!Throw,
       Promise!Keep, Promise!KeepOwn, Promise!Resolve, Promise!Reject

\* Until a function ends its transaction itself: the statements of a call are
\* durable together or not at all, not at all if fn threw, and together if
\* transaction() resolved and none had failed; and what was settled stays so,
\* whatever the calls that get the connection later do.
THEOREM TransactionsAreAtomic ==
  Spec => []Promise!AllOrNone /\ Promise!SettlesForGood
<1>1. Promise!Init => Promise!AllOrNone
  BY DEF Promise!Init, Promise!AllOrNone
<1>2. Typed /\ [Promise!Next]_Promise!transactionVars
      => /\ Promise!AllOrNone => Promise!AllOrNone'
         /\ [Promise!Settled]_Promise!transactionVars
  BY AtomicStep
<1>3. Inv => Typed
  BY DEF Inv, Always
<1> QED
  BY <1>1, <1>2, <1>3, KeepsTransactionsHolds, InvHolds, PTL
     DEF KeepsTransactions, Promise!Spec, Promise!SettlesForGood
=============================================================================
