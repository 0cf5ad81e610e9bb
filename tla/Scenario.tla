------------------------------ MODULE Scenario ------------------------------
(***************************************************************************)
(* What the execution of a scenario promises its caller and its author,    *)
(* with no word of steps, attempts, timers or signals: it acquires          *)
(* disposables until it closes, gives each one back exactly once, and only  *)
(* then ends; it has passed if and only if nothing went wrong.             *)
(***************************************************************************)
CONSTANT Disposables

VARIABLES
  held,      \* acquired and not yet given back
  released,  \* given back
  closed,    \* nothing more can be acquired
  faulty,    \* something went wrong that will decide the verdict
  verdict    \* "none" until the scenario has ended

scenarioVars == <<held, released, closed, faulty, verdict>>

Init ==
  /\ held = {} /\ released = {} /\ ~closed /\ ~faulty
  /\ verdict = "none"

Acquire(d) ==
  /\ ~closed /\ d \notin held \union released
  /\ held' = held \union {d}
  /\ UNCHANGED <<released, closed, faulty, verdict>>

Fault ==
  /\ ~closed
  /\ faulty'
  /\ UNCHANGED <<held, released, closed, verdict>>

Close ==
  /\ ~closed
  /\ closed'
  /\ UNCHANGED <<held, released, faulty, verdict>>

\* Giving back may itself go wrong, but what was wrong stays wrong.
Release(d) ==
  /\ closed /\ d \in held
  /\ held' = held \ {d} /\ released' = released \union {d}
  /\ faulty => faulty'
  /\ UNCHANGED <<closed, verdict>>

End(v) ==
  /\ closed /\ held = {} /\ verdict = "none"
  /\ (v = "passed") <=> ~faulty
  /\ verdict' = v
  /\ UNCHANGED <<held, released, closed, faulty>>

Next ==
  \/ \E d \in Disposables : Acquire(d) \/ Release(d)
  \/ Fault \/ Close
  \/ \E v \in {"passed", "failed", "skipped"} : End(v)

Spec == Init /\ [][Next]_scenarioVars
=============================================================================
