---------------------------- MODULE Transactions ----------------------------
(***************************************************************************)
(* What transaction(fn) of the SQL clients promises to concurrent callers, *)
(* with no word of connections: a call's statements become durable all at  *)
(* once or not at all; never when fn throws, unless fn has committed its   *)
(* transaction itself; and always when fn returns and transaction()        *)
(* resolves, unless fn ignored a statement that failed.                    *)
(***************************************************************************)
EXTENDS Naturals

CONSTANT Calls  \* calls of transaction()

VARIABLES
  written,  \* how many statements of the call succeeded
  durable,  \* how many of them are durable
  failed,   \* calls with a statement that failed
  threw,    \* calls whose fn threw
  own,      \* calls whose fn committed its transaction itself
  answer,   \* what transaction() did
  void      \* nothing is promised any more

transactionVars == <<written, durable, failed, threw, own, answer, void>>

Init ==
  /\ written = [c \in Calls |-> 0] /\ durable = [c \in Calls |-> 0]
  /\ failed = {} /\ threw = {} /\ own = {}
  /\ answer = [c \in Calls |-> "none"]
  /\ ~void

Write(c) ==
  /\ answer[c] = "none" /\ durable[c] = 0 /\ c \notin threw
  /\ written' = [written EXCEPT ![c] = @ + 1]
  /\ UNCHANGED <<durable, failed, threw, own, answer, void>>

Fail(c) ==
  /\ answer[c] = "none"
  /\ failed' = failed \union {c}
  /\ UNCHANGED <<written, durable, threw, own, answer, void>>

Throw(c) ==
  /\ answer[c] = "none" /\ (durable[c] = 0 \/ c \in own)
  /\ threw' = threw \union {c}
  /\ UNCHANGED <<written, durable, failed, own, answer, void>>

Keep(c) ==
  /\ answer[c] = "none" /\ c \notin threw
  /\ durable' = [durable EXCEPT ![c] = written[c]]
  /\ UNCHANGED <<written, failed, threw, own, answer, void>>

\* fn commits, and may learn no more of the outcome than transaction() does.
KeepOwn(c) ==
  /\ answer[c] = "none" /\ c \notin threw
  /\ own' = own \union {c}
  /\ UNCHANGED durable \/ durable' = [durable EXCEPT ![c] = written[c]]
  /\ UNCHANGED <<written, failed, threw, answer, void>>

Resolve(c) ==
  /\ answer[c] = "none" /\ c \notin threw
  /\ durable[c] = written[c] \/ c \in failed
  /\ answer' = [answer EXCEPT ![c] = "resolved"]
  /\ UNCHANGED <<written, durable, failed, threw, own, void>>

\* A rejection says nothing of what is durable: an answer may be lost.
Reject(c) ==
  /\ answer[c] = "none"
  /\ answer' = [answer EXCEPT ![c] = "rejected"]
  /\ UNCHANGED <<written, durable, failed, threw, own, void>>

Next ==
  \/ \E c \in Calls :
       \/ Write(c) \/ Fail(c) \/ Throw(c) \/ Keep(c) \/ KeepOwn(c)
       \/ Resolve(c) \/ Reject(c)
  \/ void'

Spec == Init /\ [][Next]_transactionVars

-----------------------------------------------------------------------------
\* What a caller may conclude: the statements of a call are durable together or
\* not at all, not at all if fn threw without a commit of its own, and together
\* if transaction() resolved.
AllOrNone ==
  ~void => \A c \in Calls :
    /\ durable[c] \in {0, written[c]}
    /\ c \in threw \ own => durable[c] = 0
    /\ answer[c] = "resolved" /\ c \notin failed => durable[c] = written[c]

\* What transaction() has settled stays so, whatever other calls do later.
Settled ==
  ~void' => \A c \in Calls :
    answer[c] # "none" => answer'[c] = answer[c] /\ durable'[c] = durable[c]

SettlesForGood == [][Settled]_transactionVars
=============================================================================
