----------------------------- MODULE RemoteCall -----------------------------
(***************************************************************************)
(* What an operation of a client promises about its request: the server    *)
(* carries it out once at most, never after the caller was told that it    *)
(* was not sent, and always before the caller is told that it was.  Who    *)
(* gives up waiting does not learn which of them is the case.              *)
(***************************************************************************)
VARIABLES effect, told

Init == effect = "none" /\ told = "nothing"

Effect ==
  /\ effect = "none" /\ told # "not sent"
  /\ effect' = "done"
  /\ UNCHANGED told

Answer == told = "nothing" /\ effect = "done" /\ told' = "answer" /\ UNCHANGED effect
Refuse == told = "nothing" /\ effect = "none" /\ told' = "not sent" /\ UNCHANGED effect
GiveUp == told = "nothing" /\ told' = "gave up" /\ UNCHANGED effect

Spec == Init /\ [][Effect \/ Answer \/ Refuse \/ GiveUp]_<<effect, told>>

=============================================================================
