----------------------- MODULE SharedConnection_proofs -----------------------
(***************************************************************************)
(* Theorems about SharedConnection, for any set of calls.                  *)
(***************************************************************************)
EXTENDS SharedConnection, TLAPS

Places ==
  {"start", "begin", "fn", "query", "tx.commit", "tx.rollback", "commit",
   "return", "rollback", "ended"}

Counts == [Calls -> Nat]

TypeOK ==
  /\ session \in {"none", "open", "aborted"}
  /\ pc \in [Calls -> Places]
  /\ answer \in [Calls -> {"none", "resolved", "rejected"}]
  /\ written \in Counts /\ pending \in Counts /\ durable \in Counts

(***************************************************************************)
(* The calls on their own: one that has not begun is not finished, one     *)
(* that returns is; only those that end their transaction themselves are   *)
(* finished while fn runs.                                                 *)
(***************************************************************************)
Progress ==
  \A c \in Calls :
    /\ pc[c] \in {"start", "begin"} => c \notin finished
    /\ pc[c] = "return" => c \in finished
    /\ pc[c] \in {"tx.commit", "tx.rollback"} => c \in SelfEnding
    /\ pc[c] = "ended" <=> answer[c] # "none"

NothingIsLeft == TypeOK /\ Progress /\ NothingIsLeftOpen

(***************************************************************************)
(* Until a statement strays, what is uncommitted is what the owner of the  *)
(* open transaction has written, all of it, and what is durable is all     *)
(* that a call wrote whose COMMIT was answered.                            *)
(***************************************************************************)
Owned ==
  /\ session = "none" => owner = {}
  /\ \A c \in Calls : pending[c] # 0 => c \in owner

Kept(c) ==
  /\ pc[c] \in {"start", "begin"} => written[c] = 0
  /\ c \in owner => pending[c] = written[c]
  /\ pc[c] \notin {"return", "ended"} => durable[c] = 0 /\ c \notin finished
  /\ pc[c] = "return" => durable[c] = written[c]
  /\ pc[c] \notin {"rollback", "ended"} => c \notin threw

Unstrayed == ~strayed => Owned /\ \A c \in Steady : Kept(c)

-----------------------------------------------------------------------------
\* What the connection does to a statement of any kind.
Works(c) ==
  CommitAnswers(c) \/ CommitRejects \/ RollbackAnswers(c) \/ RollbackRejects
    \/ Executes(c) \/ Breaks \/ RolledBack

\* The connection keeps its counts and its session in their types.
LEMMA WorksType ==
  ASSUME TypeOK, NEW c \in Calls, Works(c)
  PROVE  /\ session' \in {"none", "open", "aborted"}
         /\ written' \in Counts /\ pending' \in Counts /\ durable' \in Counts
<1>1. CASE CommitAnswers(c)
  BY <1>1 DEF CommitAnswers, TypeOK, Counts, None
<1>2. CASE RolledBack \/ RollbackAnswers(c)
  BY <1>2 DEF RollbackAnswers, RolledBack, TypeOK, Counts, None
<1>3. CASE CommitRejects \/ RollbackRejects
  BY <1>3 DEF CommitRejects, RollbackRejects, RolledBack, connection, data, TypeOK, Counts, None
<1>4. CASE Executes(c)
  BY <1>4 DEF Executes, connection, TypeOK, Counts
<1>5. CASE Breaks
  BY <1>5 DEF Breaks, TypeOK, Counts, None
<1> QED
  BY <1>1, <1>2, <1>3, <1>4, <1>5 DEF Works

\* A call is one place further; the others are where they were.
LEMMA Moves ==
  ASSUME pc \in [Calls -> Places], NEW c \in Calls, NEW place \in Places, Goto(c, place)
  PROVE  /\ pc' \in [Calls -> Places] /\ pc'[c] = place
         /\ \A d \in Calls \ {c} : pc'[d] = pc[d]
BY DEF Goto

\* A call is over; the others have the answer they had.
LEMMA Ending ==
  ASSUME TypeOK, NEW c \in Calls, NEW how \in {"resolved", "rejected"}, Ends(c, how)
  PROVE  /\ pc' \in [Calls -> Places] /\ pc'[c] = "ended"
         /\ answer' \in [Calls -> {"none", "resolved", "rejected"}] /\ answer'[c] = how
         /\ \A d \in Calls \ {c} : pc'[d] = pc[d] /\ answer'[d] = answer[d]
BY Moves DEF Ends, Goto, TypeOK, Places

-----------------------------------------------------------------------------
\* The invariant holds before any call.
LEMMA InitLeavesNothing == Init => NothingIsLeft
BY DEF Init, None, NothingIsLeft, TypeOK, Places, Counts, Progress, NothingIsLeftOpen

\* Every step preserves the types.
LEMMA TypeStep == TypeOK /\ [Next]_vars => TypeOK'
<1> SUFFICES ASSUME TypeOK, [Next]_vars PROVE TypeOK'
  OBVIOUS
<1> USE DEF Places
<1>1. ASSUME NEW c \in Calls, Call(c) PROVE TypeOK'
  <2>1. CASE Transaction(c)
    BY <2>1, Ending, Moves DEF Transaction, connection, data, TypeOK
  <2>2. CASE Begin(c)
    BY <2>2, Moves DEF Begin, data, TypeOK
  <2>3. CASE BeginRejects(c)
    BY <2>3, Ending DEF BeginRejects, connection, data, TypeOK
  <2>4. CASE FnReturns(c)
    BY <2>4, Ending, Moves DEF FnReturns, connection, data, TypeOK
  <2>5. CASE FnThrows(c)
    BY <2>5, Ending, Moves DEF FnThrows, connection, data, TypeOK
  <2>6. CASE Commit(c)
    BY <2>6, WorksType, Moves DEF Works, Commit, TypeOK
  <2>7. CASE Return(c)
    BY <2>7, Ending DEF Return, connection, data, TypeOK
  <2>8. CASE CommitFails(c)
    BY <2>8, WorksType, Moves DEF Works, CommitFails, TypeOK
  <2>9. CASE Rollback(c)
    BY <2>9, WorksType, Ending DEF Works, Rollback, TypeOK
  <2>10. CASE QueryAnswers(c)
    BY <2>10, WorksType, Moves DEF Works, QueryAnswers, TypeOK
  <2>11. CASE TxEnds(c)
    BY <2>11, WorksType, Moves DEF Works, TxEnds, TypeOK
  <2> QED
    BY <1>1, <2>1, <2>2, <2>3, <2>4, <2>5, <2>6, <2>7, <2>8, <2>9, <2>10, <2>11 DEF Call
<1>2. ASSUME NEW c \in Calls, TxQuery(c) \/ TxCommit(c) \/ TxRollback(c) PROVE TypeOK'
  BY <1>2, Moves DEF TxQuery, TxCommit, TxRollback, Sends, connection, data, TypeOK
<1>3. CASE QueryFails
  BY <1>3 DEF QueryFails, Breaks, TypeOK, Counts, None
<1>4. CASE Close
  BY <1>4 DEF Close, RolledBack, TypeOK, Counts, None
<1>5. CASE UNCHANGED vars
  BY <1>5 DEF vars, connection, data, TypeOK
<1> QED
  BY <1>1, <1>2, <1>3, <1>4, <1>5 DEF Next

\* A call that may end the transaction of the connection if it is open.
Watches(c) == pc[c] \notin {"start", "begin", "ended"} /\ c \notin finished

ProgressOf(c) ==
  /\ pc[c] \in {"start", "begin"} => c \notin finished
  /\ pc[c] = "return" => c \in finished
  /\ pc[c] \in {"tx.commit", "tx.rollback"} => c \in SelfEnding
  /\ pc[c] = "ended" <=> answer[c] # "none"

\* A step of one call leaves nothing open if the call goes on, or the connection has no transaction.
LEMMA OneCallSteps ==
  ASSUME NothingIsLeft, NEW c \in Calls,
         \A d \in Calls \ {c} : pc'[d] = pc[d] /\ answer'[d] = answer[d],
         \A d \in Calls \ {c} : d \in finished' <=> d \in finished,
         ProgressOf(c)',
         session' # "none" => session # "none" /\ (Watches(c) => Watches(c)')
  PROVE  Progress' /\ NothingIsLeftOpen'
<1>1. Progress'
  <2>1. ASSUME NEW d \in Calls PROVE ProgressOf(d)'
    <3>1. ProgressOf(d)
      BY DEF NothingIsLeft, Progress, ProgressOf
    <3>2. CASE d = c
      BY <3>2 DEF ProgressOf
    <3>3. CASE d # c
      BY <3>1, <3>3 DEF ProgressOf
    <3> QED
      BY <3>2, <3>3
  <2> QED
    BY <2>1 DEF Progress, ProgressOf
<1>2. ASSUME session' # "none" PROVE \E d \in Calls : Watches(d)'
  <2>1. PICK d \in Calls : Watches(d)
    BY <1>2 DEF NothingIsLeft, NothingIsLeftOpen, Watches
  <2>2. CASE d = c
    BY <1>2, <2>1, <2>2 DEF Watches
  <2>3. CASE d # c
    BY <2>1, <2>3 DEF Watches
  <2> QED
    BY <2>2, <2>3
<1> QED
  BY <1>1, <1>2 DEF NothingIsLeftOpen, Watches

\* Only Begin opens a transaction.
LEMMA OnlyBeginOpens ==
  ASSUME NEW c \in Calls, Works(c)
  PROVE  session' # "none" => session # "none"
BY DEF Works, CommitAnswers, CommitRejects, RollbackAnswers, RollbackRejects, Executes,
       Breaks, RolledBack, connection

\* Every step preserves the invariant.
LEMMA StepLeavesNothing == NothingIsLeft /\ [Next]_vars => NothingIsLeft'
<1> SUFFICES ASSUME NothingIsLeft, [Next]_vars PROVE NothingIsLeft'
  OBVIOUS
<1>1. TypeOK /\ TypeOK' /\ \A c \in Calls : ProgressOf(c)
  BY TypeStep DEF NothingIsLeft, Progress, ProgressOf
<1>2. ASSUME NEW c \in Calls, Call(c) PROVE Progress' /\ NothingIsLeftOpen'
  <2>1. CASE Transaction(c)
    BY <1>1, <2>1, OneCallSteps, Ending, Moves
       DEF Transaction, connection, TypeOK, Places, ProgressOf, Watches
  <2>2. CASE Begin(c)
    <3>1. /\ pc'[c] = "fn" /\ c \notin finished' /\ UNCHANGED <<finished, answer>>
          /\ \A d \in Calls \ {c} : pc'[d] = pc[d]
      BY <1>1, <2>2, Moves DEF Begin, TypeOK, Places, ProgressOf
    <3>2. Progress'
      BY <1>1, <2>2, <3>1 DEF Begin, Progress, ProgressOf
    <3> QED
      BY <3>1, <3>2 DEF NothingIsLeftOpen
  <2>3. CASE BeginRejects(c)
    BY <1>1, <2>3, OneCallSteps, Ending DEF BeginRejects, connection, ProgressOf, Watches
  <2>4. CASE FnReturns(c)
    BY <1>1, <2>4, OneCallSteps, Ending, Moves
       DEF FnReturns, connection, TypeOK, Places, ProgressOf, Watches
  <2>5. CASE FnThrows(c)
    BY <1>1, <2>5, OneCallSteps, Ending, Moves
       DEF FnThrows, connection, TypeOK, Places, ProgressOf, Watches
  <2>6. CASE Commit(c)
    <3>1. session' = "none"
      BY <2>6 DEF Commit, CommitAnswers
    <3> QED
      BY <1>1, <2>6, <3>1, OneCallSteps, Moves DEF Commit, TypeOK, Places, ProgressOf
  <2>7. CASE Return(c)
    BY <1>1, <2>7, OneCallSteps, Ending DEF Return, connection, ProgressOf, Watches
  <2>8. CASE CommitFails(c)
    BY <1>1, <2>8, OneCallSteps, OnlyBeginOpens, Moves
       DEF Works, CommitFails, TypeOK, Places, ProgressOf, Watches
  <2>9. CASE Rollback(c)
    <3>1. session' = "none"
      BY <2>9 DEF Rollback, RollbackAnswers, RolledBack, RollbackRejects, connection
    <3> QED
      BY <1>1, <2>9, <3>1, OneCallSteps, Ending DEF Rollback, ProgressOf
  <2>10. CASE QueryAnswers(c)
    BY <1>1, <2>10, OneCallSteps, OnlyBeginOpens, Moves
       DEF Works, QueryAnswers, TypeOK, Places, ProgressOf, Watches
  <2>11. CASE TxEnds(c)
    <3>1. Works(c) /\ (finished' = finished \/ (finished' = finished \cup {c} /\ session' = "none"))
      BY <2>11 DEF TxEnds, Works, CommitAnswers, RollbackAnswers, RolledBack
    <3> QED
      BY <1>1, <2>11, <3>1, OneCallSteps, OnlyBeginOpens, Moves
         DEF TxEnds, TypeOK, Places, ProgressOf, Watches
  <2> QED
    BY <1>2, <2>1, <2>2, <2>3, <2>4, <2>5, <2>6, <2>7, <2>8, <2>9, <2>10, <2>11 DEF Call
<1>3. ASSUME NEW c \in Calls, TxQuery(c) \/ TxCommit(c) \/ TxRollback(c)
      PROVE  Progress' /\ NothingIsLeftOpen'
  BY <1>1, <1>3, OneCallSteps, Moves
     DEF TxQuery, TxCommit, TxRollback, Sends, connection, TypeOK, Places, ProgressOf, Watches
<1>4. CASE QueryFails
  <2>1. UNCHANGED <<pc, answer, finished>> /\ (session' # "none" => session # "none")
    BY <1>4 DEF QueryFails, Breaks
  <2> QED
    BY <1>1, <2>1 DEF NothingIsLeft, Progress, NothingIsLeftOpen
<1>5. CASE Close
  <2>1. UNCHANGED <<pc, answer, finished>> /\ session' = "none"
    BY <1>5 DEF Close, RolledBack
  <2> QED
    BY <1>1, <2>1 DEF NothingIsLeft, Progress, NothingIsLeftOpen
<1>6. CASE UNCHANGED vars
  <2>1. UNCHANGED <<pc, answer, finished, session>>
    BY <1>6 DEF vars, connection
  <2> QED
    BY <1>1, <2>1 DEF NothingIsLeft, Progress, NothingIsLeftOpen
<1> QED
  BY <1>1, <1>2, <1>3, <1>4, <1>5, <1>6 DEF Next, NothingIsLeft

(***************************************************************************)
(* Whatever statement, COMMIT, ROLLBACK or close() fails, and in whatever  *)
(* order DuckDB takes the pending ones: the one connection has a           *)
(* transaction only while a call runs that will end it.                    *)
(***************************************************************************)
THEOREM NothingStaysOpen == Spec => []NothingIsLeftOpen
<1>1. NothingIsLeft => NothingIsLeftOpen
  BY DEF NothingIsLeft
<1> QED
  BY <1>1, InitLeavesNothing, StepLeavesNothing, PTL DEF Spec
-----------------------------------------------------------------------------
\* What the connection does beside its statements of c, as long as none strays.
Undisturbed(d) ==
  /\ written'[d] = written[d] /\ durable'[d] = durable[d]
  /\ d \in owner' => d \in owner /\ pending'[d] = pending[d]

\* A statement that does not stray leaves the other calls alone.
LEMMA OthersUndisturbed ==
  ASSUME TypeOK, Owned, NEW c \in Calls, Works(c), ~strayed, ~strayed'
  PROVE  Owned' /\ \A d \in Calls \ {c} : Undisturbed(d)
<1>1. CASE CommitAnswers(c)
  <2>1. owner = {c} /\ owner' = {} /\ pending' = None /\ UNCHANGED written
    BY <1>1 DEF CommitAnswers, Strays
  <2>2. ASSUME NEW d \in Calls \ {c} PROVE durable'[d] = durable[d]
    <3>1. pending[d] = 0
      BY <2>1 DEF Owned
    <3> QED
      BY <1>1, <3>1 DEF CommitAnswers, TypeOK, Counts
  <2> QED
    BY <2>1, <2>2 DEF Owned, Undisturbed, None
<1>2. CASE RolledBack \/ RollbackAnswers(c)
  BY <1>2 DEF RollbackAnswers, RolledBack, Owned, Undisturbed, None
<1>3. CASE CommitRejects \/ RollbackRejects
  BY <1>3 DEF CommitRejects, RollbackRejects, RolledBack, connection, data, Owned, Undisturbed, None
<1>4. CASE Executes(c)
  <2>1. owner = {c} /\ owner' = owner /\ session' = session /\ session = "open"
    BY <1>4 DEF Executes, Strays, connection, Owned, TypeOK
  <2>2. /\ written' = [written EXCEPT ![c] = @ + 1] /\ UNCHANGED durable
        /\ pending' = [pending EXCEPT ![c] = @ + 1]
    BY <1>4, <2>1 DEF Executes
  <2> QED
    BY <2>1, <2>2 DEF Owned, Undisturbed, TypeOK, Counts
<1>5. CASE Breaks
  BY <1>5 DEF Breaks, Owned, Undisturbed, None
<1> QED
  BY <1>1, <1>2, <1>3, <1>4, <1>5 DEF Works

\* A step of c, or of the connection alone, keeps what is kept of the others.
LEMMA OthersKept ==
  ASSUME NEW d \in Calls, Kept(d), Undisturbed(d), pc'[d] = pc[d],
         d \in finished' <=> d \in finished, d \in threw' <=> d \in threw
  PROVE  Kept(d)'
BY DEF Kept, Undisturbed

\* A statement strays or does not, and nothing strays back.
LEMMA StraysOrNot == [Next]_vars => strayed' = strayed \/ \E c \in Calls : Strays(c)
<1> SUFFICES ASSUME [Next]_vars PROVE strayed' = strayed \/ \E c \in Calls : Strays(c)
  OBVIOUS
<1>1. ASSUME NEW c \in Calls, Call(c) PROVE strayed' = strayed \/ Strays(c)
  BY <1>1 DEF Call, Transaction, Begin, BeginRejects, FnReturns, FnThrows, Commit, Return,
              CommitFails, Rollback, QueryAnswers, TxEnds, CommitAnswers, CommitRejects,
              RollbackAnswers, RollbackRejects, Executes, Breaks
<1>2. ASSUME NEW c \in Calls, TxQuery(c) \/ TxCommit(c) \/ TxRollback(c) PROVE strayed' = strayed
  BY <1>2 DEF TxQuery, TxCommit, TxRollback, Sends
<1>3. CASE QueryFails \/ Close \/ UNCHANGED vars
  BY <1>3 DEF QueryFails, Breaks, Close, vars
<1> QED
  BY <1>1, <1>2, <1>3 DEF Next

\* Once a statement has strayed the promise is off for good.
LEMMA NothingStraysBack ==
  ASSUME [Next]_vars, ~strayed' PROVE ~strayed
<1>1. CASE strayed' = strayed
  BY <1>1
<1>2. ASSUME NEW c \in Calls, Strays(c) PROVE ~strayed
  BY <1>2 DEF Strays
<1> QED
  BY <1>1, <1>2, StraysOrNot

\* A step of one call in which the connection does nothing, or works for it alone.
LEMMA OneCallKeeps ==
  ASSUME TypeOK, ~strayed, ~strayed', Owned, \A d \in Steady : Kept(d), NEW c \in Calls,
         UNCHANGED <<connection, data>> \/ Works(c),
         \A d \in Calls \ {c} : pc'[d] = pc[d],
         \A d \in Calls \ {c} : d \in finished' <=> d \in finished,
         \A d \in Calls \ {c} : d \in threw' <=> d \in threw,
         c \in Steady => Kept(c)'
  PROVE  Unstrayed'
<1>1. Owned' /\ \A d \in Calls \ {c} : Undisturbed(d)
  <2>1. CASE UNCHANGED <<connection, data>>
    BY <2>1 DEF connection, data, Owned, Undisturbed
  <2> QED
    BY <2>1, OthersUndisturbed
<1>2. \A d \in Steady : Kept(d)'
  <2>1. ASSUME NEW d \in Steady, d # c PROVE Kept(d)'
    BY <1>1, <2>1, OthersKept DEF Steady
  <2> QED
    BY <2>1
<1> QED
  BY <1>1, <1>2 DEF Unstrayed
\* The invariant holds before any call.
LEMMA InitUnstrayed == Init => Unstrayed
BY DEF Init, None, Unstrayed, Owned, Kept, Steady

\* Every step preserves it until a statement strays.
LEMMA StepUnstrayed ==
  ASSUME NothingIsLeft, Unstrayed, [Next]_vars PROVE Unstrayed'
<1> SUFFICES ASSUME ~strayed' PROVE Unstrayed'
  BY DEF Unstrayed
<1>0. ~strayed
  BY NothingStraysBack
<1>1. /\ TypeOK /\ ~strayed /\ Owned
      /\ \A c \in Steady : Kept(c)
      /\ \A c \in Calls : ProgressOf(c)
      /\ Steady \subseteq Calls
  BY <1>0 DEF Unstrayed, NothingIsLeft, Progress, ProgressOf, Steady
<1>2. ASSUME NEW c \in Calls, Call(c) PROVE Unstrayed'
  <2>1. CASE Transaction(c)
    BY <1>1, <2>1, OneCallKeeps, Ending, Moves
       DEF Transaction, connection, data, TypeOK, Places, Kept
  <2>2. CASE Begin(c)
    <3>1. /\ owner = {} /\ owner' = {c} /\ session' = "open" /\ pc'[c] = "fn"
          /\ \A d \in Calls \ {c} : pc'[d] = pc[d]
          /\ UNCHANGED <<data, finished, threw>>
      BY <1>1, <2>2, Moves DEF Begin, Owned, TypeOK, Places
    <3>2. \A d \in Calls : pending[d] = 0
      BY <1>1, <3>1 DEF Owned
    <3>3. Owned'
      BY <3>1, <3>2 DEF Owned, data
    <3>4. \A d \in Steady \ {c} : Kept(d)'
      BY <1>1, <3>1 DEF Kept, data
    <3>5. c \in Steady => Kept(c)'
      BY <1>1, <2>2, <3>1, <3>2 DEF Begin, Kept, data
    <3> QED
      BY <3>3, <3>4, <3>5 DEF Unstrayed
  <2>3. CASE BeginRejects(c)
    BY <1>1, <2>3, OneCallKeeps, Ending DEF BeginRejects, connection, data, Kept
  <2>4. CASE FnReturns(c)
    BY <1>1, <2>4, OneCallKeeps, Ending, Moves DEF FnReturns, connection, data, TypeOK, Places, Kept
  <2>5. CASE FnThrows(c)
    BY <1>1, <2>5, OneCallKeeps, Ending, Moves DEF FnThrows, connection, data, TypeOK, Places, Kept
  <2>6. CASE Commit(c)
    <3>1. /\ Works(c) /\ owner = {c} /\ owner' = {} /\ pc[c] = "commit" /\ pc'[c] = "return"
          /\ durable'[c] = durable[c] + pending[c] /\ UNCHANGED <<written, threw>>
          /\ finished' = finished \cup {c}
          /\ \A d \in Calls \ {c} : pc'[d] = pc[d]
      BY <1>1, <2>6, Moves DEF Commit, Works, CommitAnswers, Strays, TypeOK, Places
    <3>2. c \in Steady => Kept(c)'
      BY <1>1, <3>1 DEF Kept, TypeOK, Counts
    <3> QED
      BY <1>1, <3>1, <3>2, OneCallKeeps
  <2>7. CASE Return(c)
    BY <1>1, <2>7, OneCallKeeps, Ending DEF Return, connection, data, Kept
  <2>8. CASE CommitFails(c)
    <3>1. /\ Works(c) /\ pc[c] = "commit" /\ pc'[c] = "rollback"
          /\ UNCHANGED <<finished, threw, written, durable>>
          /\ c \in owner' => c \in owner /\ pending'[c] = pending[c]
          /\ \A d \in Calls \ {c} : pc'[d] = pc[d]
      BY <1>1, <2>8, Moves
         DEF CommitFails, Works, CommitRejects, RolledBack, connection, data, TypeOK, Places
    <3>2. c \in Steady => Kept(c)'
      BY <1>1, <3>1 DEF Kept
    <3> QED
      BY <1>1, <3>1, <3>2, OneCallKeeps
  <2>9. CASE Rollback(c)
    <3>1. /\ Works(c) /\ pc'[c] = "ended" /\ UNCHANGED <<threw, written, durable>>
          /\ c \in owner' => c \in owner /\ pending'[c] = pending[c]
          /\ \A d \in Calls \ {c} : pc'[d] = pc[d]
          /\ \A d \in Calls \ {c} : d \in finished' <=> d \in finished
      BY <1>1, <2>9, Ending
         DEF Rollback, Works, RollbackAnswers, RollbackRejects, RolledBack, connection, data
    <3>2. c \in Steady => Kept(c)'
      BY <1>1, <3>1 DEF Kept
    <3> QED
      BY <1>1, <3>1, <3>2, OneCallKeeps
  <2>10. CASE QueryAnswers(c)
    <3>1. /\ pc[c] = "query" /\ pc'[c] = "fn" /\ UNCHANGED <<finished, threw>>
          /\ \A d \in Calls \ {c} : pc'[d] = pc[d]
      BY <1>1, <2>10, Moves DEF QueryAnswers, TypeOK, Places
    <3>2. CASE Executes(c)
      <4>1. owner = {c} /\ owner' = owner /\ session = "open"
        BY <1>1, <3>2 DEF Executes, Strays, connection, Owned, TypeOK
      <4>2. /\ written' = [written EXCEPT ![c] = @ + 1] /\ UNCHANGED durable
            /\ pending' = [pending EXCEPT ![c] = @ + 1]
        BY <3>2, <4>1 DEF Executes
      <4>3. c \in Steady => Kept(c)'
        BY <1>1, <3>1, <4>1, <4>2 DEF Kept, TypeOK, Counts
      <4> QED
        BY <1>1, <3>1, <3>2, <4>3, OneCallKeeps DEF Works
    <3>3. CASE Breaks
      <4>1. /\ UNCHANGED <<written, durable>>
            /\ c \in owner' => c \in owner /\ pending'[c] = pending[c]
        BY <3>3 DEF Breaks
      <4>2. c \in Steady => Kept(c)'
        BY <1>1, <3>1, <4>1 DEF Kept
      <4> QED
        BY <1>1, <3>1, <3>3, <4>2, OneCallKeeps DEF Works
    <3> QED
      BY <2>10, <3>2, <3>3 DEF QueryAnswers
  <2>11. CASE TxEnds(c)
    <3>1. /\ Works(c) /\ c \notin Steady /\ UNCHANGED threw
          /\ \A d \in Calls \ {c} : pc'[d] = pc[d]
          /\ \A d \in Calls \ {c} : d \in finished' <=> d \in finished
      BY <1>1, <2>11, Moves DEF TxEnds, Works, TypeOK, Places, ProgressOf, Steady
    <3> QED
      BY <1>1, <3>1, OneCallKeeps
  <2> QED
    BY <1>2, <2>1, <2>2, <2>3, <2>4, <2>5, <2>6, <2>7, <2>8, <2>9, <2>10, <2>11 DEF Call
<1>3. ASSUME NEW c \in Calls, TxQuery(c) \/ TxCommit(c) \/ TxRollback(c) PROVE Unstrayed'
  BY <1>1, <1>3, OneCallKeeps, Moves
     DEF TxQuery, TxCommit, TxRollback, Sends, connection, data, TypeOK, Places, Kept
<1>4. CASE QueryFails \/ Close
  <2>1. /\ UNCHANGED <<pc, finished, threw, written, durable>>
        /\ Owned' /\ \A d \in Calls : Undisturbed(d)
    BY <1>1, <1>4 DEF QueryFails, Close, Breaks, RolledBack, Owned, Undisturbed, None
  <2>2. \A d \in Steady : Kept(d)'
    BY <1>1, <2>1, OthersKept
  <2> QED
    BY <2>1, <2>2 DEF Unstrayed
<1>5. CASE UNCHANGED vars
  BY <1>1, <1>5 DEF vars, connection, data, Unstrayed, Owned, Kept
<1> QED
  BY <1>2, <1>3, <1>4, <1>5 DEF Next
-----------------------------------------------------------------------------
\* What Promise sees of a call, in its types.
SeenOK == strayed \in BOOLEAN /\ failed \subseteq Calls /\ threw \subseteq Calls

\* Every step preserves it.
LEMMA SeenStep == SeenOK /\ [Next]_vars => SeenOK'
<1> SUFFICES ASSUME SeenOK, [Next]_vars PROVE SeenOK'
  OBVIOUS
<1>1. strayed' \in BOOLEAN
  BY StraysOrNot DEF SeenOK, Strays
<1>2. ASSUME NEW c \in Calls, Call(c)
      PROVE  failed' \in {failed, failed \cup {c}} /\ threw' \in {threw, threw \cup {c}}
  BY <1>2 DEF Call, Transaction, Begin, BeginRejects, FnReturns, FnThrows, Commit, Return,
              CommitFails, Rollback, QueryAnswers, TxEnds, CommitAnswers, CommitRejects,
              RollbackAnswers, RollbackRejects, RolledBack, Executes, data
<1>3. ASSUME NEW c \in Calls, TxQuery(c) \/ TxCommit(c) \/ TxRollback(c)
      PROVE  UNCHANGED <<failed, threw>>
  BY <1>3 DEF TxQuery, TxCommit, TxRollback, Sends, data
<1>4. CASE QueryFails \/ Close \/ UNCHANGED vars
  <2>1. UNCHANGED <<failed, threw>>
    BY <1>4 DEF QueryFails, Close, RolledBack, vars, data
  <2> QED
    BY <1>1, <2>1 DEF SeenOK
<1> QED
  BY <1>1, <1>2, <1>3, <1>4 DEF Next, SeenOK

\* A step that changes nothing of it.
LEMMA Unseen ==
  ASSUME SeenOK, SeenOK', strayed' <=> strayed,
         \A d \in Steady : written'[d] = written[d],
         \A d \in Steady : durable'[d] = durable[d],
         \A d \in Steady : answer'[d] = answer[d],
         \A d \in Steady : d \in failed' <=> d \in failed,
         \A d \in Steady : d \in threw' <=> d \in threw
  PROVE  UNCHANGED Promise!transactionVars
<1>1. /\ failed' \ SelfEnding = failed \ SelfEnding
      /\ threw' \ SelfEnding = threw \ SelfEnding
  BY DEF Steady, SeenOK
<1>2. strayed' = strayed
  BY DEF SeenOK
<1>3. /\ OfSteady(written)' = OfSteady(written)
      /\ OfSteady(durable)' = OfSteady(durable)
      /\ OfSteady(answer)' = OfSteady(answer)
  BY DEF OfSteady
<1> QED
  BY <1>1, <1>2, <1>3 DEF Promise!transactionVars

\* Every step of a call is a step of Transactions, or one that it does not see.
LEMMA StepKeepsTransactions ==
  ASSUME NothingIsLeft, Unstrayed, SeenOK, SeenOK', [Next]_vars
  PROVE  [Promise!Next]_Promise!transactionVars
<1> SUFFICES ASSUME ~strayed' PROVE [Promise!Next]_Promise!transactionVars
  BY DEF Promise!Next
<1>0. ~strayed
  BY NothingStraysBack
<1>1. /\ TypeOK /\ Owned /\ strayed' = strayed
      /\ \A c \in Steady : Kept(c)
      /\ \A c \in Calls : ProgressOf(c)
      /\ Steady = Calls \ SelfEnding
  BY <1>0 DEF Unstrayed, NothingIsLeft, Progress, ProgressOf, Steady, SeenOK
\* The connection works for c or does nothing: of the others nothing is seen to change.
<1>2. ASSUME NEW c \in Calls, UNCHANGED <<connection, data>> \/ Works(c)
      PROVE  \A d \in Steady \ {c} : written'[d] = written[d] /\ durable'[d] = durable[d]
  <2>1. CASE UNCHANGED <<connection, data>>
    BY <2>1 DEF data
  <2>2. CASE Works(c)
    BY <1>0, <1>1, <2>2, OthersUndisturbed DEF Undisturbed
  <2> QED
    BY <1>2, <2>1, <2>2
<1>3. ASSUME NEW c \in Calls, Call(c), c \notin Steady
      PROVE  UNCHANGED Promise!transactionVars
  <2>1. /\ UNCHANGED <<connection, data>> \/ Works(c) \/ Begin(c)
        /\ failed' \in {failed, failed \cup {c}} /\ threw' \in {threw, threw \cup {c}}
    BY <1>3 DEF Call, Transaction, BeginRejects, FnReturns, FnThrows, Commit, Return,
                CommitFails, Rollback, QueryAnswers, TxEnds, Works, CommitAnswers, CommitRejects,
                RollbackAnswers, RollbackRejects, RolledBack, Executes, Begin, data
  <2>2. \A d \in Steady : answer'[d] = answer[d]
    BY <1>1, <1>3, Ending DEF Call, Transaction, Begin, BeginRejects, FnReturns, FnThrows, Commit,
                Return, CommitFails, Rollback, QueryAnswers, TxEnds
  <2>3. \A d \in Steady : written'[d] = written[d] /\ durable'[d] = durable[d]
    BY <1>2, <1>3, <2>1 DEF Begin, data
  <2> QED
    BY <1>1, <1>3, <2>1, <2>2, <2>3, Unseen
<1>4. ASSUME NEW c \in Steady, Call(c) PROVE [Promise!Next]_Promise!transactionVars
  <2> DEFINE w == OfSteady(written)
             k == OfSteady(durable)
             a == OfSteady(answer)
             f == failed \ SelfEnding
             t == threw \ SelfEnding
  <2>0. /\ c \in Calls /\ Kept(c) /\ ProgressOf(c)
        /\ pc[c] # "ended" => a[c] = "none"
        /\ k[c] = durable[c] /\ w[c] = written[c]
    BY <1>1 DEF OfSteady, ProgressOf
  <2>1. ASSUME Ends(c, "rejected"), pc[c] # "ended", UNCHANGED <<failed, threw>>,
               \A d \in Steady : written'[d] = written[d] /\ durable'[d] = durable[d]
        PROVE  Promise!Reject(c)
    <3>1. a' = [a EXCEPT ![c] = "rejected"]
      BY <1>1, <2>1, Ending DEF OfSteady, Ends, TypeOK
    <3>2. UNCHANGED <<w, k, f, t, strayed>>
      BY <1>1, <2>1 DEF OfSteady
    <3> QED
      BY <2>0, <2>1, <3>1, <3>2 DEF Promise!Reject
  <2>2. CASE Transaction(c)
    <3>1. UNCHANGED <<written, durable, failed, threw>>
      BY <2>2 DEF Transaction, data
    <3>2. CASE UNCHANGED answer
      BY <1>1, <3>1, <3>2, Unseen
    <3>3. CASE Ends(c, "rejected")
      BY <2>1, <2>2, <3>1, <3>3 DEF Transaction, Promise!Next
    <3> QED
      BY <2>2, <3>2, <3>3 DEF Transaction
  <2>3. CASE Begin(c)
    BY <1>1, <2>3, Unseen DEF Begin, data
  <2>4. CASE BeginRejects(c)
    BY <2>1, <2>4 DEF BeginRejects, data, Promise!Next
  <2>5. CASE FnReturns(c)
    <3>1. c \notin finished
      BY <2>0, <2>5 DEF FnReturns, Kept
    <3> QED
      BY <1>1, <2>5, <3>1, Unseen DEF FnReturns, data
  <2>6. CASE FnThrows(c)
    <3>1. pc[c] = "fn" /\ c \notin finished /\ durable[c] = 0
      BY <2>0, <2>6 DEF FnThrows, Kept
    <3>2. threw' = threw \cup {c} /\ UNCHANGED <<written, durable, failed, answer>>
      BY <2>6, <3>1 DEF FnThrows, data
    <3>3. t' = t \cup {c} /\ UNCHANGED <<w, k, f, a, strayed>>
      BY <1>1, <3>2 DEF OfSteady
    <3>4. Promise!Throw(c)
      BY <2>0, <3>1, <3>3 DEF Promise!Throw
    <3> QED
      BY <3>4 DEF Promise!Next
  <2>7. CASE Commit(c)
    <3>1. /\ pc[c] = "commit" /\ owner = {c} /\ c \notin threw
          /\ pending[c] = written[c] /\ durable[c] = 0
      BY <1>0, <1>1, <2>0, <2>7 DEF Commit, CommitAnswers, Strays, Kept
    <3>2. durable'[c] = written[c]
      BY <1>1, <2>0, <2>7, <3>1 DEF Commit, CommitAnswers, TypeOK, Counts
    <3>3. UNCHANGED <<written, failed, threw, answer>>
      BY <2>7 DEF Commit, CommitAnswers
    <3>4. \A d \in Steady \ {c} : durable'[d] = durable[d]
      BY <1>2, <2>0, <2>7 DEF Commit, Works
    <3>5. k' = [k EXCEPT ![c] = w[c]]
      BY <2>0, <3>2, <3>4 DEF OfSteady
    <3>6. UNCHANGED <<w, f, t, a, strayed>>
      BY <1>1, <3>3 DEF OfSteady
    <3>7. Promise!Keep(c)
      BY <2>0, <3>1, <3>5, <3>6 DEF Promise!Keep
    <3> QED
      BY <3>7 DEF Promise!Next
  <2>8. CASE Return(c)
    <3>1. pc[c] = "return" /\ c \notin threw /\ durable[c] = written[c]
      BY <2>0, <2>8 DEF Return, Kept
    <3>2. a' = [a EXCEPT ![c] = "resolved"]
      BY <1>1, <2>0, <2>8, Ending DEF Return, OfSteady, Ends, TypeOK
    <3>3. UNCHANGED <<w, k, f, t, strayed>>
      BY <1>1, <2>8 DEF Return, data, OfSteady
    <3>4. Promise!Resolve(c)
      BY <2>0, <3>1, <3>2, <3>3 DEF Promise!Resolve
    <3> QED
      BY <3>4 DEF Promise!Next
  <2>9. CASE CommitFails(c)
    <3>1. UNCHANGED <<written, durable, failed, threw, answer>>
      BY <2>9 DEF CommitFails, CommitRejects, RolledBack, data
    <3> QED
      BY <1>1, <3>1, Unseen
  <2>10. CASE Rollback(c)
    <3>1. UNCHANGED <<written, durable, failed, threw>>
      BY <2>10 DEF Rollback, RollbackAnswers, RollbackRejects, RolledBack, data
    <3> QED
      BY <2>1, <2>10, <3>1 DEF Rollback, Promise!Next
  <2>11. CASE QueryAnswers(c)
    <3>1. pc[c] = "query" /\ durable[c] = 0 /\ c \notin threw /\ UNCHANGED <<threw, answer>>
      BY <2>0, <2>11 DEF QueryAnswers, Kept
    <3>2. CASE Executes(c)
      <4>1. session = "open"
        BY <1>0, <1>1, <3>2 DEF Executes, Strays, Owned, TypeOK
      <4>2. written' = [written EXCEPT ![c] = @ + 1] /\ UNCHANGED <<durable, failed>>
        BY <3>2, <4>1 DEF Executes
      <4>3. w' = [w EXCEPT ![c] = @ + 1]
        BY <1>1, <2>0, <4>2 DEF OfSteady, TypeOK, Counts
      <4>4. UNCHANGED <<k, f, t, a, strayed>>
        BY <1>1, <3>1, <4>2 DEF OfSteady
      <4>5. Promise!Write(c)
        BY <2>0, <3>1, <4>3, <4>4 DEF Promise!Write
      <4> QED
        BY <4>5 DEF Promise!Next
    <3>3. CASE Breaks /\ failed' = failed \cup {c}
      <4>1. UNCHANGED <<written, durable>>
        BY <3>3 DEF Breaks
      <4>2. f' = f \cup {c} /\ UNCHANGED <<w, k, t, a, strayed>>
        BY <1>1, <3>1, <3>3, <4>1 DEF OfSteady
      <4>3. Promise!Fail(c)
        BY <2>0, <3>1, <4>2 DEF Promise!Fail
      <4> QED
        BY <4>3 DEF Promise!Next
    <3> QED
      BY <2>11, <3>2, <3>3 DEF QueryAnswers
  <2>12. CASE TxEnds(c)
    BY <1>1, <2>0, <2>12 DEF TxEnds, ProgressOf
  <2> QED
    BY <1>4, <2>2, <2>3, <2>4, <2>5, <2>6, <2>7, <2>8, <2>9, <2>10, <2>11, <2>12 DEF Call
<1>5. ASSUME NEW c \in Calls, TxQuery(c) \/ TxCommit(c) \/ TxRollback(c)
      PROVE  UNCHANGED Promise!transactionVars
  BY <1>1, <1>5, Unseen DEF TxQuery, TxCommit, TxRollback, Sends, data
<1>6. CASE QueryFails \/ Close
  <2>1. UNCHANGED <<written, durable, answer, failed, threw>>
    BY <1>6 DEF QueryFails, Breaks, Close, RolledBack
  <2> QED
    BY <1>1, <2>1, Unseen
<1>7. CASE UNCHANGED vars
  BY <1>1, <1>7, Unseen DEF vars, data
<1> QED
  BY <1>3, <1>4, <1>5, <1>6, <1>7 DEF Next, Steady
\* What holds in every state of the two databases.
IInv == NothingIsLeft /\ Unstrayed /\ SeenOK

\* It holds before any call, and every step preserves it.
LEMMA Inductive ==
  /\ Init => IInv
  /\ IInv /\ [Next]_vars => IInv'
<1>1. Init => SeenOK
  BY DEF Init, SeenOK
<1> QED
  BY <1>1, InitLeavesNothing, InitUnstrayed, StepLeavesNothing, StepUnstrayed, SeenStep DEF IInv

(***************************************************************************)
(* Beside any number of other calls on the one connection, with their      *)
(* failing statements, COMMITs and ROLLBACKs, and close() at any time:     *)
(* until a statement strays into a transaction that is not its call's,     *)
(* transaction() keeps the promise of Transactions to every call whose fn  *)
(* does not end its transaction itself.                                    *)
(***************************************************************************)
THEOREM ImplementsTransactions == Spec => KeepsTransactions
<1>1. Init => Promise!Init
  BY DEF Init, None, Promise!Init, OfSteady, Steady
<1>2. IInv /\ IInv' /\ [Next]_vars => [Promise!Next]_Promise!transactionVars
  BY StepKeepsTransactions DEF IInv
<1> QED
  BY <1>1, <1>2, Inductive, PTL DEF Spec, KeepsTransactions, Promise!Spec

-----------------------------------------------------------------------------
\* Every step keeps what the promise means to a caller.
LEMMA AtomicStep ==
  ASSUME TypeOK, [Promise!Next]_Promise!transactionVars
  PROVE  /\ Promise!AllOrNone => Promise!AllOrNone'
         /\ [Promise!Settled]_Promise!transactionVars
<1> DEFINE w == OfSteady(written)
           k == OfSteady(durable)
           a == OfSteady(answer)
           f == failed \ SelfEnding
           t == threw \ SelfEnding
<1>1. CASE strayed'
  BY <1>1 DEF Promise!AllOrNone, Promise!Settled
<1>2. CASE UNCHANGED Promise!transactionVars
  BY <1>2 DEF Promise!AllOrNone, Promise!transactionVars
<1>3. ASSUME NEW c \in Steady, ~strayed', UNCHANGED strayed,
             \/ Promise!Write(c) \/ Promise!Fail(c) \/ Promise!Throw(c)
             \/ Promise!Keep(c) \/ Promise!KeepOwn(c)
             \/ Promise!Resolve(c) \/ Promise!Reject(c)
      PROVE  /\ Promise!AllOrNone => Promise!AllOrNone'
             /\ Promise!Settled
  <2>1. /\ w \in [Steady -> Nat] /\ k \in [Steady -> Nat]
        /\ DOMAIN a = Steady /\ a[c] = "none"
    BY <1>3 DEF TypeOK, Counts, Steady, OfSteady, Promise!Write, Promise!Fail,
                Promise!Throw, Promise!Keep, Promise!KeepOwn, Promise!Resolve, Promise!Reject
  <2>2. \A d \in Steady \ {c} :
          /\ w'[d] = w[d] /\ k'[d] = k[d] /\ a'[d] = a[d]
          /\ (d \in t' <=> d \in t)
          /\ (d \in f' <=> d \in f)
    BY <1>3, <2>1 DEF Promise!Write, Promise!Fail, Promise!Throw, Promise!Keep,
                      Promise!KeepOwn, Promise!Resolve, Promise!Reject
  <2>3. k[c] \in {0, w[c]} /\ (c \in t => k[c] = 0)
        => /\ k'[c] \in {0, w'[c]} /\ (c \in t' => k'[c] = 0)
           /\ a'[c] = "resolved" /\ c \notin f' => k'[c] = w'[c]
    BY <1>3, <2>1 DEF Promise!Write, Promise!Fail, Promise!Throw, Promise!Keep,
                      Promise!KeepOwn, Promise!Resolve, Promise!Reject
  <2> QED
    BY <1>3, <2>1, <2>2, <2>3 DEF Promise!AllOrNone, Promise!Settled
<1> QED
  BY <1>1, <1>2, <1>3 DEF Promise!Next, Promise!Write, Promise!Fail, Promise!Throw,
       Promise!Keep, Promise!KeepOwn, Promise!Resolve, Promise!Reject

\* It holds in every reachable state.
LEMMA Always == Spec => []IInv
BY Inductive, PTL DEF Spec

\* On the one connection, until a statement strays: the statements of a call
\* are durable together or not at all, not at all if fn threw, and together if
\* transaction() resolved and none had failed; and what was settled stays so,
\* whatever the calls that have the connection later do.
THEOREM TransactionsAreAtomic ==
  Spec => []Promise!AllOrNone /\ Promise!SettlesForGood
<1>1. Promise!Init => Promise!AllOrNone
  BY DEF Promise!Init, Promise!AllOrNone
<1>2. TypeOK /\ [Promise!Next]_Promise!transactionVars
      => /\ Promise!AllOrNone => Promise!AllOrNone'
         /\ [Promise!Settled]_Promise!transactionVars
  BY AtomicStep
<1>3. IInv => TypeOK
  BY DEF IInv, NothingIsLeft
<1> QED
  BY <1>1, <1>2, <1>3, ImplementsTransactions, Always, PTL
     DEF KeepsTransactions, Promise!Spec, Promise!SettlesForGood
=============================================================================
