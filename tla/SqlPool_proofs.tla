--------------------------- MODULE SqlPool_proofs ---------------------------
(***************************************************************************)
(* Facts about the queue of SqlPool, for any number of calls.              *)
(***************************************************************************)
EXTENDS SqlPool, SequenceTheorems, TLAPS

NoneTwice(s) == \A i, j \in 1 .. Len(s) : s[i] = s[j] => i = j

LEMMA RangeIs ==
  ASSUME NEW S, NEW s \in Seq(S)
  PROVE  Range(s) = {s[i] : i \in 1 .. Len(s)}
BY LenProperties DEF Range

LEMMA EmptyQueue ==
  ASSUME NEW S, NEW s \in Seq(S), Len(s) = 0
  PROVE  Range(s) = {} /\ NoneTwice(s)
<1>1. Range(s) = {s[i] : i \in 1 .. Len(s)}
  BY RangeIs
<1>2. 1 .. Len(s) = {}
  OBVIOUS
<1> QED
  BY <1>1, <1>2 DEF NoneTwice

\* Who is put at the end of the queue is in it, once.
LEMMA QueueAppend ==
  ASSUME NEW S, NEW s \in Seq(S), NEW x \in S, x \notin Range(s), NoneTwice(s)
  PROVE  /\ Append(s, x) \in Seq(S)
         /\ NoneTwice(Append(s, x))
         /\ Range(Append(s, x)) = Range(s) \union {x}
<1> DEFINE t == Append(s, x)
<1>1. /\ t \in Seq(S) /\ Len(t) = Len(s) + 1 /\ Len(s) \in Nat
      /\ \A i \in 1 .. Len(s) : t[i] = s[i]
      /\ t[Len(s) + 1] = x
  BY AppendProperties, LenProperties
<1>2. Range(s) = {s[i] : i \in 1 .. Len(s)} /\ Range(t) = {t[i] : i \in 1 .. Len(t)}
  BY <1>1, RangeIs
<1>3. \A i \in 1 .. Len(s) : s[i] # x
  BY <1>2
<1> HIDE DEF t
<1>4. NoneTwice(t)
  <2> SUFFICES ASSUME NEW i \in 1 .. Len(t), NEW j \in 1 .. Len(t), t[i] = t[j]
               PROVE  i = j
    BY DEF NoneTwice
  <2>1. CASE i \in 1 .. Len(s) /\ j \in 1 .. Len(s)
    BY <1>1, <2>1 DEF NoneTwice
  <2>2. CASE i = Len(s) + 1 \/ j = Len(s) + 1
    BY <1>1, <1>3, <2>2
  <2> QED
    BY <1>1, <2>1, <2>2
<1>5. Range(t) = Range(s) \union {x}
  <2>1. \A i \in 1 .. Len(t) : t[i] \in Range(s) \union {x}
    BY <1>1, <1>2
  <2>2. \A i \in 1 .. Len(s) : s[i] \in Range(t)
    BY <1>1, <1>2
  <2>3. x \in Range(t)
    BY <1>1, <1>2
  <2> QED
    BY <1>2, <2>1, <2>2, <2>3
<1> QED
  BY <1>1, <1>4, <1>5 DEF t

\* Who leaves the head of the queue is no longer in it.
LEMMA QueueTail ==
  ASSUME NEW S, NEW s \in Seq(S), s # <<>>, NoneTwice(s)
  PROVE  /\ Head(s) \in S /\ Head(s) \in Range(s)
         /\ Tail(s) \in Seq(S)
         /\ NoneTwice(Tail(s))
         /\ Range(Tail(s)) = Range(s) \ {Head(s)}
<1> DEFINE t == Tail(s)
<1>1. /\ t \in Seq(S) /\ Len(t) = Len(s) - 1 /\ Len(s) \in Nat \ {0}
      /\ \A i \in 1 .. Len(t) : t[i] = s[i + 1]
      /\ Head(s) = s[1] /\ s[1] \in S
  BY HeadTailProperties, LenProperties, EmptySeq, ElementOfSeq
<1>2. Range(s) = {s[i] : i \in 1 .. Len(s)} /\ Range(t) = {t[i] : i \in 1 .. Len(t)}
  BY <1>1, RangeIs
<1> HIDE DEF t
<1>3. NoneTwice(t)
  <2> SUFFICES ASSUME NEW i \in 1 .. Len(t), NEW j \in 1 .. Len(t), t[i] = t[j]
               PROVE  i = j
    BY DEF NoneTwice
  <2>1. i + 1 \in 1 .. Len(s) /\ j + 1 \in 1 .. Len(s) /\ s[i + 1] = s[j + 1]
    BY <1>1
  <2>2. i + 1 = j + 1
    BY <2>1 DEF NoneTwice
  <2> QED
    BY <2>2
<1>4. Range(t) = Range(s) \ {s[1]}
  <2>1. \A i \in 1 .. Len(t) : t[i] \in Range(s) /\ t[i] # s[1]
    BY <1>1, <1>2 DEF NoneTwice
  <2>2. \A i \in 1 .. Len(s) : s[i] # s[1] => s[i] \in Range(t)
    <3> SUFFICES ASSUME NEW i \in 1 .. Len(s), s[i] # s[1] PROVE s[i] \in Range(t)
      OBVIOUS
    <3>1. i - 1 \in 1 .. Len(t) /\ t[i - 1] = s[i]
      BY <1>1
    <3> QED
      BY <1>2, <3>1
  <2> QED
    BY <1>2, <2>1, <2>2
<1> QED
  BY <1>1, <1>2, <1>3, <1>4 DEF t

-----------------------------------------------------------------------------
\* What PoolTypeOK says of the queue, and that nobody is in it twice.
QueueOK ==
  /\ waiting \in Seq(Calls) /\ NoneTwice(waiting)
  /\ \A c \in Calls : pc[c] = "waiting" <=> c \in Range(waiting)

\* release() makes the connection idle, or gives it to one call that waits.
LEMMA ReleasedTo ==
  ASSUME NEW Labels, pc \in [Calls -> Labels], QueueOK,
         held \in [Calls -> Connections \union {None}],
         NEW c \in Calls, NEW k \in Connections, NEW label \in Labels,
         pc[c] # "waiting", label # "waiting", Released(k, c, label)
  PROVE  /\ QueueOK'
         /\ \/ /\ idle' = idle \union {k} /\ held' = held
               /\ pc' = [pc EXCEPT ![c] = label]
            \/ /\ idle' = idle
               /\ \E d \in Calls \ {c} :
                    /\ pc[d] = "waiting"
                    /\ held' = [held EXCEPT ![d] = k]
                    /\ pc' = [pc EXCEPT ![c] = label, ![d] = "begin"]
<1>1. CASE waiting = <<>>
  <2>1. /\ idle' = idle \union {k} /\ held' = held /\ waiting' = waiting
        /\ pc' = [pc EXCEPT ![c] = label]
    BY <1>1 DEF Released, Goto
  <2>2. \A e \in Calls : pc'[e] = "waiting" <=> pc[e] = "waiting"
    BY <2>1
  <2> QED
    BY <2>1, <2>2 DEF QueueOK
<1>2. CASE waiting # <<>>
  <2> DEFINE d == Head(waiting)
  <2>1. /\ d \in Calls /\ d \in Range(waiting)
        /\ Tail(waiting) \in Seq(Calls) /\ NoneTwice(Tail(waiting))
        /\ Range(Tail(waiting)) = Range(waiting) \ {d}
    BY <1>2, QueueTail DEF QueueOK
  <2>2. pc[d] = "waiting" /\ d # c
    BY <2>1 DEF QueueOK
  <2>3. /\ held' = [held EXCEPT ![d] = k]
        /\ pc' = [pc EXCEPT ![c] = label, ![d] = "begin"]
        /\ waiting' = Tail(waiting) /\ idle' = idle
    BY <1>2 DEF Released
  <2> HIDE DEF d
  <2>4. \A e \in Calls : pc'[e] = "waiting" <=> e \in Range(waiting')
    BY <2>1, <2>2, <2>3 DEF QueueOK
  <2> QED
    BY <2>1, <2>2, <2>3, <2>4 DEF QueueOK
<1> QED
  BY <1>1, <1>2

\* The same, of the calls: at most one other call goes on.
LEMMA ReleasedMoves ==
  ASSUME NEW Labels, "begin" \in Labels, pc \in [Calls -> Labels], QueueOK,
         held \in [Calls -> Connections \union {None}], idle \subseteq Connections,
         NEW c \in Calls, NEW k \in Connections, NEW label \in Labels,
         pc[c] # "waiting", label # "waiting", Released(k, c, label)
  PROVE  /\ pc' \in [Calls -> Labels] /\ pc'[c] = label
         /\ \A d \in Calls \ {c} : \/ pc'[d] = pc[d] /\ held'[d] = held[d]
                                   \/ pc[d] = "waiting" /\ pc'[d] = "begin"
         /\ held' \in [Calls -> Connections \union {None}] /\ idle' \subseteq Connections
<1>1. CASE /\ idle' = idle \union {k} /\ held' = held
           /\ pc' = [pc EXCEPT ![c] = label]
  BY <1>1
<1>2. CASE /\ idle' = idle
           /\ \E d \in Calls \ {c} :
                /\ pc[d] = "waiting" /\ held' = [held EXCEPT ![d] = k]
                /\ pc' = [pc EXCEPT ![c] = label, ![d] = "begin"]
  <2> PICK e \in Calls \ {c} :
                /\ pc[e] = "waiting" /\ held' = [held EXCEPT ![e] = k]
                /\ pc' = [pc EXCEPT ![c] = label, ![e] = "begin"]
    BY <1>2
  <2> QED
    BY <1>2
<1>3. \/ /\ idle' = idle \union {k} /\ held' = held
         /\ pc' = [pc EXCEPT ![c] = label]
      \/ /\ idle' = idle
         /\ \E d \in Calls \ {c} :
              /\ pc[d] = "waiting" /\ held' = [held EXCEPT ![d] = k]
              /\ pc' = [pc EXCEPT ![c] = label, ![d] = "begin"]
  BY ReleasedTo
<1> QED
  BY <1>1, <1>2, <1>3

\* A call that asks for a connection gets an idle one, or queues.
LEMMA GivenOrQueued ==
  ASSUME NEW Labels, pc \in [Calls -> Labels], QueueOK,
         NEW c \in Calls, pc[c] # "waiting", Reserved(c) \/ Queued(c)
  PROVE  /\ QueueOK'
         /\ \/ \E k \in idle :
                 /\ held' = [held EXCEPT ![c] = k] /\ idle' = idle \ {k}
                 /\ pc' = [pc EXCEPT ![c] = "begin"]
            \/ /\ held' = held /\ idle' = idle
               /\ pc' = [pc EXCEPT ![c] = "waiting"]
<1>1. CASE Reserved(c)
  BY <1>1 DEF Reserved, Goto, QueueOK
<1>2. CASE Queued(c)
  <2>1. /\ waiting' \in Seq(Calls) /\ NoneTwice(waiting')
        /\ Range(waiting') = Range(waiting) \union {c}
    BY <1>2, QueueAppend DEF Queued, QueueOK
  <2> QED
    BY <1>2, <2>1 DEF Queued, Goto, QueueOK
<1> QED
  BY <1>1, <1>2

LEMMA GivenMoves ==
  ASSUME NEW Labels, pc \in [Calls -> Labels], QueueOK,
         held \in [Calls -> Connections \union {None}], idle \subseteq Connections,
         NEW c \in Calls, pc[c] # "waiting", Reserved(c) \/ Queued(c)
  PROVE  /\ held' \in [Calls -> Connections \union {None}] /\ idle' \subseteq Connections
         /\ \E label \in {"begin", "waiting"} : pc' = [pc EXCEPT ![c] = label]
BY DEF Reserved, Queued, Goto

\* A function that is 0 everywhere is NoStatements.
LEMMA AllZero ==
  ASSUME NEW f \in [Calls -> Nat], \A c \in Calls : f[c] = 0
  PROVE  f = NoStatements
BY DEF NoStatements

-----------------------------------------------------------------------------
\* The calls in H hold connections, each its own; nothing else is going on.
Owned(H) ==
  /\ \A c \in H : /\ pc[c] \notin {"start", "waiting", "ended"}
                   /\ held[c] \in Connections \ idle
  /\ \A c, d \in H : c # d => held[c] # held[d]
  /\ \A k \in Connections, d \in Calls : pending[k][d] # 0 =>
       d \in H /\ held[d] = k /\ pc[d] \in {"fn", "commit", "rollback"}
  /\ \A k \in idle : session[k] = "none"
  /\ \A c \in H :
       /\ pc[c] = "begin" => session[held[c]] = "none"
       /\ pc[c] \in {"return", "release", "txRelease"} =>
            session[held[c]] \in {"none", "lost"}

PoolTyped ==
  /\ held \in [Calls -> Connections \union {None}] /\ idle \subseteq Connections
  /\ session \in [Connections -> {"none", "open", "failed", "lost"}]
  /\ pending \in [Connections -> [Calls -> Nat]]

\* A call that gets a connection, or a place in the queue.
LEMMA OwnedWhenGiven ==
  ASSUME NEW Labels, pc \in [Calls -> Labels], PoolTyped, PoolTyped', QueueOK,
         NEW H \in SUBSET Calls, Owned(H),
         NEW c \in Calls, pc[c] = "start", Reserved(c) \/ Queued(c),
         UNCHANGED server,
         NEW G, G = {d \in Calls : d \in H \/ (d = c /\ pc'[d] = "begin")}
  PROVE  Owned(G)'
<1> USE DEF Owned, PoolTyped, server
<1>1. CASE \E k \in idle :
             /\ held' = [held EXCEPT ![c] = k] /\ idle' = idle \ {k}
             /\ pc' = [pc EXCEPT ![c] = "begin"]
  <2> PICK k \in idle :
             /\ held' = [held EXCEPT ![c] = k] /\ idle' = idle \ {k}
             /\ pc' = [pc EXCEPT ![c] = "begin"]
    BY <1>1
  <2>1. /\ G = H \union {c} /\ c \notin H /\ k \in Connections
        /\ held'[c] = k /\ \A d \in H : held'[d] = held[d] /\ pc'[d] = pc[d]
    OBVIOUS
  <2> QED
    BY <2>1
<1>2. CASE /\ held' = held /\ idle' = idle
           /\ pc' = [pc EXCEPT ![c] = "waiting"]
  BY <1>2
<1> QED
  BY <1>1, <1>2, GivenOrQueued

\* A call that works on its own connection leaves the others' alone.
LEMMA OwnedAtWork ==
  ASSUME NEW Labels, pc \in [Calls -> Labels], PoolTyped, PoolTyped',
         NEW H \in SUBSET Calls, Owned(H), NEW c \in H,
         NEW label \in {"fn", "commit", "rollback", "return", "release", "txRelease"},
         pc' = [pc EXCEPT ![c] = label], UNCHANGED <<held, idle>>,
         \A k \in Connections \ {held[c]} :
           session'[k] = session[k] /\ pending'[k] = pending[k],
         \A d \in Calls \ {c} : pending'[held[c]][d] = 0,
         label \in {"return", "release", "txRelease"} =>
           /\ session'[held[c]] \in {"none", "lost"}
           /\ pending'[held[c]][c] = 0
  PROVE  Owned(H)'
<1>1. held[c] \in Connections \ idle
  BY DEF Owned
<1>2. \A d \in H \ {c} : pc'[d] = pc[d] /\ held[d] # held[c] /\ held[d] \in Connections
  BY DEF Owned
<1>3. pc'[c] = label
  OBVIOUS
<1>4. \A d \in H : pc'[d] \notin {"start", "waiting", "ended"}
                  /\ held'[d] \in Connections \ idle'
  BY <1>1, <1>2, <1>3 DEF Owned
<1>5. ASSUME NEW k \in Connections, NEW d \in Calls, pending'[k][d] # 0
      PROVE  d \in H /\ held'[d] = k /\ pc'[d] \in {"fn", "commit", "rollback"}
  <2>1. CASE k = held[c]
    BY <1>3, <1>5, <2>1 DEF Owned
  <2>2. CASE k # held[c]
    BY <1>2, <1>5, <2>2 DEF Owned
  <2> QED
    BY <2>1, <2>2
<1>6. \A k \in idle' : session'[k] = "none"
  BY <1>1 DEF Owned, PoolTyped
<1>7. \A d \in H :
       /\ pc'[d] = "begin" => session'[held'[d]] = "none"
       /\ pc'[d] \in {"return", "release", "txRelease"} =>
            session'[held'[d]] \in {"none", "lost"}
  BY <1>1, <1>2, <1>3 DEF Owned
<1> QED
  BY <1>4, <1>5, <1>6, <1>7 DEF Owned

\* A call that releases its connection.
LEMMA OwnedWhenReleased ==
  ASSUME NEW Labels, pc \in [Calls -> Labels], PoolTyped, PoolTyped', QueueOK,
         NEW H \in SUBSET Calls, Owned(H),
         NEW c \in H, pc[c] \in {"return", "release", "txRelease"},
         NEW label \in Labels, label \in {"ended", "fn"},
         Released(held[c], c, label), Replaced(held[c]), pending' = pending,
         NEW G, G = {d \in Calls \ {c} :
                       d \in H \/ (pc[d] = "waiting" /\ pc'[d] = "begin")}
  PROVE  Owned(G)'
<1> DEFINE k == held[c]
<1>1. k \in Connections \ idle /\ session[k] \in {"none", "lost"} /\ pc[c] # "waiting"
  BY DEF Owned
<1>2. session'[k] = "none" /\ \A j \in Connections \ {k} : session'[j] = session[j]
  BY <1>1 DEF Replaced, PoolTyped
<1>3. /\ \A d \in Calls : pending[k][d] = 0
      /\ \A d \in H \ {c} : held[d] \in Connections \ {k}
  BY <1>1 DEF Owned, PoolTyped
<1> HIDE DEF k
<1>4. CASE /\ idle' = idle \union {k} /\ held' = held
           /\ pc' = [pc EXCEPT ![c] = label]
  <2>1. G = H \ {c} /\ \A d \in G : pc'[d] = pc[d]
    BY <1>4
  <2>2. \A j \in Connections, d \in Calls : pending'[j][d] # 0 =>
          d \in G /\ held'[d] = j /\ pc'[d] \in {"fn", "commit", "rollback"}
    BY <1>3, <1>4, <2>1 DEF Owned, k
  <2>3. \A j \in idle' : session'[j] = "none"
    BY <1>1, <1>2, <1>4 DEF Owned, PoolTyped
  <2>4. \A d \in G : /\ pc'[d] \notin {"start", "waiting", "ended"}
                    /\ held'[d] \in Connections \ idle'
    BY <1>3, <1>4, <2>1 DEF Owned
  <2>5. \A d \in G :
          /\ pc'[d] = "begin" => session'[held'[d]] = "none"
          /\ pc'[d] \in {"return", "release", "txRelease"} =>
               session'[held'[d]] \in {"none", "lost"}
    BY <1>2, <1>3, <1>4, <2>1 DEF Owned
  <2>6. \A d, e \in G : d # e => held'[d] # held'[e]
    BY <1>4, <2>1 DEF Owned
  <2> QED
    BY <2>2, <2>3, <2>4, <2>5, <2>6 DEF Owned
<1>5. CASE /\ idle' = idle
           /\ \E d \in Calls \ {c} :
                /\ pc[d] = "waiting" /\ held' = [held EXCEPT ![d] = k]
                /\ pc' = [pc EXCEPT ![c] = label, ![d] = "begin"]
  <2> PICK e \in Calls \ {c} :
                /\ pc[e] = "waiting" /\ held' = [held EXCEPT ![e] = k]
                /\ pc' = [pc EXCEPT ![c] = label, ![e] = "begin"]
    BY <1>5
  <2>0. /\ e \notin H /\ pc'[e] = "begin" /\ held'[e] = k
        /\ \A d \in Calls \ {c, e} : pc'[d] = pc[d] /\ held'[d] = held[d]
    BY DEF Owned, PoolTyped
  <2>1. /\ G = (H \ {c}) \union {e} /\ e \notin H
        /\ pc'[e] = "begin" /\ held'[e] = k
        /\ \A d \in H \ {c} : pc'[d] = pc[d] /\ held'[d] = held[d]
    BY <2>0
  <2>2. \A j \in Connections, d \in Calls : pending'[j][d] # 0 =>
          d \in G /\ held'[d] = j /\ pc'[d] \in {"fn", "commit", "rollback"}
    BY <1>3, <2>1 DEF Owned, k
  <2>3. \A d \in G : pc'[d] \notin {"start", "waiting", "ended"}
                    /\ held'[d] \in Connections \ idle'
    BY <1>1, <1>5, <2>1 DEF Owned
  <2>4. \A c1, d1 \in G : c1 # d1 => held'[c1] # held'[d1]
    BY <1>3, <2>1 DEF Owned
  <2>5. \A j \in idle' : session'[j] = "none"
    BY <1>1, <1>2, <1>5 DEF Owned, PoolTyped
  <2>6. \A d \in G :
          /\ pc'[d] = "begin" => session'[held'[d]] = "none"
          /\ pc'[d] \in {"return", "release", "txRelease"} =>
               session'[held'[d]] \in {"none", "lost"}
    BY <1>2, <1>3, <2>1 DEF Owned
  <2> QED
    BY <2>2, <2>3, <2>4, <2>5, <2>6 DEF Owned
<1>6. k \in Connections /\ label # "waiting" /\ Released(k, c, label)
  BY <1>1 DEF k
<1>7. held \in [Calls -> Connections \union {None}]
  BY DEF PoolTyped
<1>8. \/ /\ idle' = idle \union {k} /\ held' = held
         /\ pc' = [pc EXCEPT ![c] = label]
      \/ /\ idle' = idle
         /\ \E d \in Calls \ {c} :
              /\ pc[d] = "waiting" /\ held' = [held EXCEPT ![d] = k]
              /\ pc' = [pc EXCEPT ![c] = label, ![d] = "begin"]
  BY <1>1, <1>6, <1>7, ReleasedTo
<1> QED
  BY <1>4, <1>5, <1>8

-----------------------------------------------------------------------------
\* What a statement leaves alone that call c sends on connection k.
OnlyAt(c, k) ==
  /\ \A j \in Connections \ {k} : session'[j] = session[j] /\ pending'[j] = pending[j]
  /\ \A d \in Calls \ {c} : pending'[k][d] = 0
  /\ session' \in [Connections -> {"none", "open", "failed", "lost"}]
  /\ pending' \in [Connections -> [Calls -> Nat]]

\* After it the connection has no transaction.
Over(c, k) ==
  /\ OnlyAt(c, k)
  /\ session'[k] \in {"none", "lost"} /\ pending'[k][c] = 0

\* The transaction on k becomes durable: that of c alone.
KeptOf(c, k) == durable' = [durable EXCEPT ![c] = @ + pending[k][c]]

LEMMA DroppedIsOver ==
  ASSUME PoolTyped, NEW c \in Calls, NEW k \in Connections,
         NEW s \in {"none", "lost"}, Dropped(k, s)
  PROVE  Over(c, k)
<1>1. NoStatements \in [Calls -> Nat] /\ \A d \in Calls : NoStatements[d] = 0
  BY DEF NoStatements
<1> QED
  BY <1>1 DEF Dropped, Over, OnlyAt, PoolTyped

LEMMA KeptIsOver ==
  ASSUME PoolTyped, NEW c \in Calls, NEW k \in Connections,
         durable \in [Calls -> Nat],
         \A d \in Calls \ {c} : pending[k][d] = 0,
         NEW s \in {"none", "lost"}, Kept(k, s)
  PROVE  Over(c, k) /\ KeptOf(c, k) /\ durable' \in [Calls -> Nat]
<1>1. Over(c, k)
  BY DroppedIsOver DEF Kept
<1>2. /\ pending[k] \in [Calls -> Nat]
      /\ \A d \in Calls : durable[d] \in Nat /\ pending[k][d] \in Nat
  BY DEF PoolTyped
<1>3. \A d \in Calls \ {c} : durable[d] + pending[k][d] = durable[d]
  BY <1>2
<1>4. durable' = [d \in Calls |-> durable[d] + pending[k][d]]
  BY DEF Kept
<1>5. durable' \in [Calls -> Nat]
  BY <1>2, <1>4
<1>6. KeptOf(c, k)
  <2>1. \A d \in Calls :
          durable'[d] = IF d = c THEN durable[d] + pending[k][d] ELSE durable[d]
    BY <1>3, <1>4
  <2> QED
    BY <1>5, <2>1 DEF KeptOf
<1> QED
  BY <1>1, <1>5, <1>6

\* COMMIT and ROLLBACK, whatever they answer.
LEMMA EndIsOver ==
  ASSUME PoolTyped, NEW c \in Calls, NEW k \in Connections,
         durable \in [Calls -> Nat],
         \A d \in Calls \ {c} : pending[k][d] = 0
  PROVE  /\ CommitAnswers(k) =>
              /\ Over(c, k) /\ durable' \in [Calls -> Nat]
              /\ \/ session[k] = "open" /\ KeptOf(c, k)
                 \/ session[k] \in {"none", "failed"} /\ durable' = durable
         /\ CommitRejects(k) =>
              /\ Over(c, k) /\ durable' \in [Calls -> Nat]
              /\ \/ session[k] = "open" /\ KeptOf(c, k)
                 \/ durable' = durable
         /\ RollbackAnswers(k) \/ RollbackRejects(k) => Over(c, k)
<1>1. ASSUME CommitAnswers(k)
      PROVE  /\ Over(c, k) /\ durable' \in [Calls -> Nat]
             /\ \/ session[k] = "open" /\ KeptOf(c, k)
                \/ session[k] \in {"none", "failed"} /\ durable' = durable
  BY <1>1, DroppedIsOver, KeptIsOver DEF CommitAnswers
<1>2. ASSUME CommitRejects(k)
      PROVE  /\ Over(c, k) /\ durable' \in [Calls -> Nat]
             /\ \/ session[k] = "open" /\ KeptOf(c, k)
                \/ durable' = durable
  BY <1>2, DroppedIsOver, KeptIsOver DEF CommitRejects
<1>3. ASSUME RollbackAnswers(k) \/ RollbackRejects(k)
      PROVE  Over(c, k)
  BY <1>3, DroppedIsOver DEF RollbackAnswers, RollbackRejects
<1> QED
  BY <1>1, <1>2, <1>3

\* A statement that succeeds.
LEMMA ExecutedOnlyAt ==
  ASSUME PoolTyped, NEW c \in Calls, NEW k \in Connections,
         written \in [Calls -> Nat], durable \in [Calls -> Nat],
         \A d \in Calls \ {c} : pending[k][d] = 0,
         Executed(c, k), session' = session
  PROVE  /\ OnlyAt(c, k)
         /\ written' \in [Calls -> Nat] /\ durable' \in [Calls -> Nat]
         /\ \A d \in Calls \ {c} : written'[d] = written[d] /\ durable'[d] = durable[d]
<1>1. CASE pending' = [pending EXCEPT ![k][c] = @ + 1] /\ durable' = durable
  <2>1. written' = [written EXCEPT ![c] = @ + 1] /\ pending[k][c] \in Nat
    BY DEF Executed, PoolTyped
  <2>2. /\ \A j \in Connections \ {k} : pending'[j] = pending[j]
        /\ pending'[k] = [pending[k] EXCEPT ![c] = @ + 1]
        /\ pending' \in [Connections -> [Calls -> Nat]]
    BY <1>1, <2>1 DEF PoolTyped
  <2> QED
    BY <1>1, <2>1, <2>2 DEF OnlyAt, PoolTyped
<1>2. CASE durable' = [durable EXCEPT ![c] = @ + 1] /\ pending' = pending
  BY <1>2 DEF Executed, OnlyAt, PoolTyped
<1> QED
  BY <1>1, <1>2 DEF Executed
-----------------------------------------------------------------------------
\* Without an assumption on who releases what: the types, and that a call past
\* the queue, until its end, was given a connection.
ServerTyped ==
  /\ session \in [Connections -> {"none", "open", "failed", "lost"}]
  /\ pending \in [Connections -> [Calls -> Nat]]

Given ==
  \A c \in Calls :
    pc[c] \notin {"start", "waiting", "ended"} => held[c] \in Connections

LEMMA DroppedTyped ==
  ASSUME PoolTyped, NEW k \in Connections, NEW s \in {"none", "failed", "lost"},
         Dropped(k, s)
  PROVE  ServerTyped'
BY DEF Dropped, ServerTyped, PoolTyped, NoStatements

LEMMA EndTyped ==
  ASSUME PoolTyped, durable \in [Calls -> Nat], NEW k \in Connections
  PROVE  /\ CommitAnswers(k) \/ CommitRejects(k) =>
              ServerTyped' /\ durable' \in [Calls -> Nat]
         /\ RollbackAnswers(k) \/ RollbackRejects(k) => ServerTyped'
<1>1. \A s \in {"none", "lost"} : Kept(k, s) =>
        ServerTyped' /\ durable' \in [Calls -> Nat]
  <2> SUFFICES ASSUME NEW s \in {"none", "lost"}, Kept(k, s)
               PROVE  ServerTyped' /\ durable' \in [Calls -> Nat]
    OBVIOUS
  <2>1. \A c \in Calls : durable[c] + pending[k][c] \in Nat
    BY DEF PoolTyped
  <2> QED
    BY <2>1, DroppedTyped DEF Kept
<1> QED
  BY <1>1, DroppedTyped
     DEF CommitAnswers, CommitRejects, RollbackAnswers, RollbackRejects

LEMMA ExecutedTyped ==
  ASSUME PoolTyped, durable \in [Calls -> Nat], written \in [Calls -> Nat],
         NEW c \in Calls, NEW k \in Connections, Executed(c, k), session' = session
  PROVE  /\ ServerTyped'
         /\ written' \in [Calls -> Nat] /\ durable' \in [Calls -> Nat]
<1>1. written' \in [Calls -> Nat]
  BY DEF Executed
<1>2. CASE pending' = [pending EXCEPT ![k][c] = @ + 1] /\ durable' = durable
  <2>1. pending' = [pending EXCEPT ![k] = [pending[k] EXCEPT ![c] = pending[k][c] + 1]]
    BY <1>2
  <2>2. [pending[k] EXCEPT ![c] = pending[k][c] + 1] \in [Calls -> Nat]
    BY DEF PoolTyped
  <2> QED
    BY <1>1, <1>2, <2>1, <2>2 DEF ServerTyped, PoolTyped
<1>3. CASE durable' = [durable EXCEPT ![c] = @ + 1] /\ pending' = pending
  BY <1>1, <1>3 DEF ServerTyped, PoolTyped
<1> QED
  BY <1>2, <1>3 DEF Executed

\* The call that a release() goes to was given the connection.
LEMMA ReleasedGives ==
  ASSUME NEW Labels, pc \in [Calls -> Labels], QueueOK, Given,
         held \in [Calls -> Connections \union {None}],
         NEW c \in Calls, NEW k \in Connections, NEW label \in Labels,
         pc[c] \notin {"start", "waiting", "ended"}, label # "waiting",
         Released(k, c, label)
  PROVE  Given'
<1>1. CASE /\ idle' = idle \union {k} /\ held' = held
           /\ pc' = [pc EXCEPT ![c] = label]
  BY <1>1 DEF Given
<1>2. CASE /\ idle' = idle
           /\ \E d \in Calls \ {c} :
                /\ pc[d] = "waiting" /\ held' = [held EXCEPT ![d] = k]
                /\ pc' = [pc EXCEPT ![c] = label, ![d] = "begin"]
  BY <1>2 DEF Given
<1>3. \/ /\ idle' = idle \union {k} /\ held' = held
         /\ pc' = [pc EXCEPT ![c] = label]
      \/ /\ idle' = idle
         /\ \E d \in Calls \ {c} :
              /\ pc[d] = "waiting" /\ held' = [held EXCEPT ![d] = k]
              /\ pc' = [pc EXCEPT ![c] = label, ![d] = "begin"]
  BY ReleasedTo
<1> QED
  BY <1>1, <1>2, <1>3

LEMMA GivenGives ==
  ASSUME NEW Labels, pc \in [Calls -> Labels], QueueOK, Given,
         held \in [Calls -> Connections \union {None}], idle \subseteq Connections,
         NEW c \in Calls, pc[c] # "waiting", Reserved(c) \/ Queued(c)
  PROVE  Given'
<1>1. CASE \E k \in idle :
             /\ held' = [held EXCEPT ![c] = k]
             /\ pc' = [pc EXCEPT ![c] = "begin"]
  <2> PICK k \in idle : held' = [held EXCEPT ![c] = k] /\ pc' = [pc EXCEPT ![c] = "begin"]
    BY <1>1
  <2>1. k \in Connections /\ \A d \in Calls : held'[d] = IF d = c THEN k ELSE held[d]
    OBVIOUS
  <2>2. \A d \in Calls \ {c} : pc'[d] = pc[d]
    OBVIOUS
  <2> QED
    BY <2>1, <2>2 DEF Given
<1>2. CASE held' = held /\ pc' = [pc EXCEPT ![c] = "waiting"]
  BY <1>2 DEF Given
<1> QED
  BY <1>1, <1>2 DEF Reserved, Queued, Goto

-----------------------------------------------------------------------------
\* No connection is lost when a call is given one, or queues for it.
LEMMA NoneLostWhenGiven ==
  ASSUME NEW Labels, pc \in [Calls -> Labels], "begin" \in Labels,
         held \in [Calls -> Connections \union {None}],
         NEW H \in SUBSET Calls, NEW G \in SUBSET Calls,
         NEW c \in Calls \ H, H \subseteq G, pc'[c] = "begin" => c \in G,
         NoneIsLost(H), Reserved(c) \/ Queued(c)
  PROVE  NoneIsLost(G)'
<1>1. CASE Reserved(c)
  <2> PICK k \in idle : /\ held' = [held EXCEPT ![c] = k] /\ idle' = idle \ {k}
                        /\ pc' = [pc EXCEPT ![c] = "begin"] /\ waiting' = waiting
    BY <1>1 DEF Reserved, Goto
  <2>1. c \in G /\ held'[c] = k /\ \A d \in H : held'[d] = held[d]
    OBVIOUS
  <2>2. waiting' = <<>>
    BY DEF NoneIsLost
  <2> QED
    BY <2>1, <2>2 DEF NoneIsLost
<1>2. CASE Queued(c)
  BY <1>2 DEF Queued, NoneIsLost
<1> QED
  BY <1>1, <1>2

\* None is lost when one is released, be it the call's own or not any more.
LEMMA NoneLostWhenReleased ==
  ASSUME NEW Labels, pc \in [Calls -> Labels], "begin" \in Labels, QueueOK,
         held \in [Calls -> Connections \union {None}],
         NEW H \in SUBSET Calls, NEW G \in SUBSET Calls, NEW c \in H,
         \A d \in H : pc[d] # "waiting",
         H \ {c} \subseteq G,
         \A d \in Calls : pc[d] = "waiting" /\ pc'[d] = "begin" => d \in G,
         NEW k \in Connections, k = held[c],
         NEW label \in Labels, label # "waiting",
         NoneIsLost(H), Released(k, c, label)
  PROVE  NoneIsLost(G)'
<1>1. CASE waiting = <<>>
  <2>1. idle' = idle \union {k} /\ held' = held /\ waiting' = waiting
    BY <1>1 DEF Released
  <2> QED
    BY <1>1, <2>1 DEF NoneIsLost
<1>2. CASE waiting # <<>>
  <2> PICK d \in Calls : d = Head(waiting) /\ d \in Range(waiting)
    BY <1>2, QueueTail DEF QueueOK
  <2>1. pc[d] = "waiting" /\ d # c /\ d \notin H
    BY DEF QueueOK
  <2>2. /\ held' = [held EXCEPT ![d] = k] /\ idle' = idle
        /\ pc' = [pc EXCEPT ![c] = label, ![d] = "begin"]
    BY <1>2 DEF Released
  <2>3. d \in G /\ held'[d] = k /\ \A e \in H : held'[e] = held[e]
    BY <2>1, <2>2
  <2>4. idle = {}
    BY <1>2 DEF NoneIsLost
  <2> QED
    BY <2>2, <2>3, <2>4 DEF NoneIsLost
<1> QED
  BY <1>1, <1>2
=============================================================================
