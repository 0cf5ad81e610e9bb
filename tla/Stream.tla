------------------------------- MODULE Stream -------------------------------
(***************************************************************************)
(* What an async generator over a service's messages promises its          *)
(* consumer, with no word of queues, resolvers or connections: from the    *)
(* first message it accepts on, it hands out every message, once and in    *)
(* the order in which the service sent them, until it is over.             *)
(* Messages are numbered in the order in which the service sends them.     *)
(***************************************************************************)
EXTENDS Naturals, Sequences

VARIABLES
  sent,       \* how many messages the service has sent
  buffer,     \* accepted and not yet handed out
  delivered,  \* what the consumer got
  over        \* nothing more is accepted or handed out

streamVars == <<sent, buffer, delivered, over>>

Init == sent = 0 /\ buffer = <<>> /\ delivered = <<>> /\ ~over

Accept ==
  /\ ~over
  /\ sent' = sent + 1 /\ buffer' = Append(buffer, sent')
  /\ UNCHANGED <<delivered, over>>

\* Only what comes too early or too late is missed: there are no gaps.
Miss ==
  /\ over \/ (buffer = <<>> /\ delivered = <<>>)
  /\ sent' = sent + 1
  /\ UNCHANGED <<buffer, delivered, over>>

Deliver ==
  /\ ~over /\ buffer # <<>>
  /\ delivered' = Append(delivered, Head(buffer)) /\ buffer' = Tail(buffer)
  /\ UNCHANGED <<sent, over>>

\* What is still buffered is dropped.
Finish ==
  /\ ~over
  /\ over' /\ buffer' = <<>>
  /\ UNCHANGED <<sent, delivered>>

Next == Accept \/ Miss \/ Deliver \/ Finish

Spec == Init /\ [][Next]_streamVars

-----------------------------------------------------------------------------
\* What a consumer may conclude: what it got and what is still to come are
\* consecutive messages, and up to the end of the stream none is missing.
Consecutive(s) == \A i \in 1 .. Len(s) - 1 : s[i + 1] = s[i] + 1

NoGaps ==
  LET messages == delivered \o buffer
  IN  /\ Consecutive(messages)
      /\ ~over /\ messages # <<>> => messages[Len(messages)] = sent
=============================================================================
