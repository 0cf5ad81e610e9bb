-------------------------- MODULE MCScenarioRunner --------------------------
(* Small instances of ScenarioRunner.                                      *)
EXTENDS ScenarioRunner

\* Two resources, a setup and two execution steps.  The first resource is
\* retried once, the setup perhaps; the last step is allowed one attempt,
\* three, or, the boundary of retry, none.
MC_Kind == <<"resource", "step", "setup", "resource", "step">>
MC_MaxAttempts == <<{2}, {1}, {1, 2}, {1}, {0, 1, 3}>>
=============================================================================
