------------------------------- MODULE Runner -------------------------------
(***************************************************************************)
(* A test run: the Runner starts the scenarios batch by batch, collects    *)
(* one result for each, stops early when enough of them failed or when the *)
(* caller aborts, and reports.  A scenario is what Scenario promises: it   *)
(* starts, and some time later ends with a verdict.                        *)
(*                                                                         *)
(* Scenarios of a batch start within one synchronous loop, so none of them *)
(* can end before the last has started; only code that the loop itself     *)
(* calls (a step function, a reporter) can abort the run in between.       *)
(***************************************************************************)
EXTENDS Integers, Sequences, FiniteSets

CONSTANTS
  NumScenarios,
  MaxConcurrency,  \* RunOptions.maxConcurrency, 0 for no limit
  MaxFailures,     \* RunOptions.maxFailures, 0 for no limit
  ReporterFails    \* whether a callback of the reporter may throw or reject

ScenarioIds == 1 .. NumScenarios
Concurrency == IF MaxConcurrency = 0 THEN NumScenarios ELSE MaxConcurrency

ASSUME RunAssumption ==
  /\ NumScenarios \in Nat /\ MaxConcurrency \in Nat /\ MaxFailures \in Nat
  /\ ReporterFails \in BOOLEAN

VARIABLES
  pc,            \* where run() is
  next,          \* the next scenario to start
  batchEnd,      \* the last scenario of the current batch
  state,         \* "idle", "running", "reporting", "ended" or "broken"
  results,       \* scenarioResults: <<scenario, status>> in order of arrival
  failureCount,
  signal,        \* "none", or why the run's controller was aborted
  aborted,       \* the caller's signal was aborted
  trail,         \* index of the trailing loop that fills in skips
  summary        \* the counters of the RunResult, once computed

progress == <<next, batchEnd, trail>>
collected == <<state, results, failureCount>>
control == <<signal, aborted, summary>>
vars == <<pc, progress, collected, control>>

NoSummary == [passed |-> 0, failed |-> 0, skipped |-> 0, total |-> 0]

Init ==
  /\ pc = "runStart" /\ next = 1 /\ batchEnd = 0 /\ trail = 0
  /\ state = [s \in ScenarioIds |-> "idle"]
  /\ results = <<>> /\ failureCount = 0
  /\ signal = "none" /\ aborted = FALSE
  /\ summary = NoSummary

Listening == pc # "runStart"

CountOf(status) == Cardinality({i \in DOMAIN results : results[i][2] = status})

-----------------------------------------------------------------------------
\* The caller's signal reaches the run's controller only through the listener
\* that run() adds after onRunStart.
ExternalAbort ==
  /\ ~aborted /\ pc \notin {"done", "rejected"}
  /\ aborted' = TRUE
  /\ signal' = IF Listening /\ signal = "none" THEN "abort" ELSE signal
  /\ UNCHANGED <<pc, progress, collected, summary>>

RunStarted ==
  /\ pc = "runStart"
  /\ pc' = "batches"
  /\ UNCHANGED <<progress, collected, control>>

\* chunk(scenarios, concurrency): the next batch, unless aborted.
BeginBatch ==
  /\ pc = "batches" /\ next <= NumScenarios /\ signal = "none"
  /\ pc' = "starting"
  /\ batchEnd' = IF next + Concurrency - 1 <= NumScenarios
                 THEN next + Concurrency - 1 ELSE NumScenarios
  /\ UNCHANGED <<next, trail, collected, control>>

\* Definitions named Bug... are plausible mistakes in the definition that
\* follows them; a property is worth stating if one of them breaks it.
BugTrailFromBatchEnd ==
  /\ pc = "batches" /\ (next > NumScenarios \/ signal # "none")
  /\ pc' = "trailing" /\ trail' = batchEnd
  /\ UNCHANGED <<next, batchEnd, collected, control>>

LeaveBatches ==
  /\ pc = "batches" /\ (next > NumScenarios \/ signal # "none")
  /\ pc' = "trailing" /\ trail' = Len(results) + 1
  /\ UNCHANGED <<next, batchEnd, collected, control>>

-----------------------------------------------------------------------------
\* The scenarios of a batch

Started(newState) ==
  /\ pc = "starting"
  /\ state' = [state EXCEPT ![next] = newState]
  /\ next' = next + 1
  /\ pc' = IF next = batchEnd THEN "waiting" ELSE "starting"

StartScenario ==
  /\ signal = "none"
  /\ Started("running")
  /\ UNCHANGED <<batchEnd, trail, results, failureCount, control>>

SkipScenario ==
  /\ signal # "none"
  /\ Started("reporting")
  /\ results' = Append(results, <<next, "skipped">>)
  /\ UNCHANGED <<batchEnd, trail, failureCount, control>>

BugOneFailureMore(s, status) ==
  LET failures == failureCount + (IF status = "failed" THEN 1 ELSE 0)
      enough   == status = "failed" /\ MaxFailures # 0 /\ failures > MaxFailures
  IN /\ pc # "starting" /\ state[s] = "running"
     /\ state' = [state EXCEPT ![s] = "ended"]
     /\ results' = Append(results, <<s, status>>)
     /\ failureCount' = failures
     /\ signal' = IF enough /\ signal = "none" THEN "skip" ELSE signal
     /\ UNCHANGED <<pc, progress, aborted, summary>>

\* ScenarioRunner returns a result: it is pushed and, if it is the failure
\* that makes maxFailures, the controller is aborted with a Skip.
ScenarioEnds(s, status) ==
  LET failures == failureCount + (IF status = "failed" THEN 1 ELSE 0)
      enough   == status = "failed" /\ MaxFailures # 0 /\ failures >= MaxFailures
  IN /\ pc # "starting" /\ state[s] = "running"
     /\ state' = [state EXCEPT ![s] = "ended"]
     /\ results' = Append(results, <<s, status>>)
     /\ failureCount' = failures
     /\ signal' = IF enough /\ signal = "none" THEN "skip" ELSE signal
     /\ UNCHANGED <<pc, progress, aborted, summary>>

SkipReported(s) ==
  /\ pc # "starting" /\ state[s] = "reporting"
  /\ state' = [state EXCEPT ![s] = "ended"]
  /\ UNCHANGED <<pc, progress, results, failureCount, control>>

\* onScenarioStart or onScenarioEnd throws: the promise of this scenario
\* rejects; it leaves no result unless that of a skip, pushed before.  In the
\* loop that starts a batch onScenarioStart throws at once, for the scenario
\* just started: its promise is rejected, and the loop goes on.
ReporterBreaks(s) ==
  /\ ReporterFails /\ state[s] \in {"running", "reporting"}
  /\ pc = "starting" => s = next - 1
  /\ state' = [state EXCEPT ![s] = "broken"]
  /\ UNCHANGED <<pc, progress, results, failureCount, control>>

Batch == {s \in ScenarioIds : s < next}

BugBatchIsARace ==
  /\ pc = "waiting" /\ \E s \in Batch : state[s] = "ended"
  /\ pc' = "batches"
  /\ UNCHANGED <<progress, collected, control>>

BugBatchAllSettled ==
  /\ pc = "waiting" /\ \A s \in Batch : state[s] \in {"ended", "broken"}
  /\ pc' = "batches"
  /\ UNCHANGED <<progress, collected, control>>

BatchDone ==
  /\ pc = "waiting" /\ \A s \in Batch : state[s] = "ended"
  /\ pc' = "batches"
  /\ UNCHANGED <<progress, collected, control>>

BugRejectionUnseen ==
  /\ pc = "waiting" /\ \E s \in Batch : state[s] = "broken"
  /\ UNCHANGED vars

\* Promise.all rejects with the first rejection and waits for nobody else;
\* timeit() turns the rejection into a result that run() does not look at.
BatchRejects ==
  /\ pc = "waiting" /\ \E s \in Batch : state[s] = "broken"
  /\ pc' = "summary"
  /\ UNCHANGED <<progress, collected, control>>

-----------------------------------------------------------------------------
\* Skip results for the scenarios after the last batch, and the report

TrailingSkip ==
  /\ pc = "trailing" /\ trail <= NumScenarios
  /\ results' = Append(results, <<trail, "skipped">>)
  /\ pc' = "trailingReport"
  /\ UNCHANGED <<progress, state, failureCount, control>>

TrailingReported ==
  /\ pc = "trailingReport"
  /\ pc' = "trailing" /\ trail' = trail + 1
  /\ UNCHANGED <<next, batchEnd, collected, control>>

TrailingBreaks ==
  /\ ReporterFails /\ pc = "trailingReport"
  /\ pc' = "summary"
  /\ UNCHANGED <<progress, collected, control>>

TrailingDone ==
  /\ pc = "trailing" /\ trail > NumScenarios
  /\ pc' = "summary"
  /\ UNCHANGED <<progress, collected, control>>

Summarize ==
  /\ pc = "summary"
  /\ summary' = [passed  |-> CountOf("passed"),
                 failed  |-> CountOf("failed"),
                 skipped |-> NumScenarios - CountOf("passed") - CountOf("failed"),
                 total   |-> NumScenarios]
  /\ pc' = "runEnd"
  /\ UNCHANGED <<progress, collected, signal, aborted>>

RunEnded ==
  /\ pc = "runEnd"
  /\ pc' = "done"
  /\ UNCHANGED <<progress, collected, control>>

\* onRunStart or onRunEnd rejects, and run() with it.
RunRejects ==
  /\ ReporterFails /\ pc \in {"runStart", "runEnd"}
  /\ pc' = "rejected"
  /\ UNCHANGED <<progress, collected, control>>

Statuses == {"passed", "failed", "skipped"}

Advance ==
  \/ RunStarted \/ BeginBatch \/ LeaveBatches \/ StartScenario \/ SkipScenario
  \/ BatchDone \/ BatchRejects \/ TrailingSkip \/ TrailingReported
  \/ TrailingDone \/ Summarize \/ RunEnded

ScenarioStep(s) ==
  \/ \E status \in Statuses : ScenarioEnds(s, status)
  \/ SkipReported(s)

ReporterFailure == (\E s \in ScenarioIds : ReporterBreaks(s))
                   \/ TrailingBreaks \/ RunRejects

Next ==
  \/ Advance
  \/ \E s \in ScenarioIds : ScenarioStep(s)
  \/ ReporterFailure
  \/ ExternalAbort

Spec == Init /\ [][Next]_vars

\* Scenarios end (ScenarioRunner!Terminates) and reporters answer.
Fairness ==
  /\ WF_vars(Advance)
  /\ \A s \in ScenarioIds : WF_vars(ScenarioStep(s) \/ ReporterBreaks(s))

FairSpec == Spec /\ Fairness

-----------------------------------------------------------------------------
\* Every variable has its type.
TypeOK ==
  /\ pc \in {"runStart", "batches", "starting", "waiting", "trailing",
             "trailingReport", "summary", "runEnd", "done", "rejected"}
  /\ next \in 1 .. NumScenarios + 1 /\ batchEnd \in 0 .. NumScenarios
  /\ trail \in Nat
  /\ state \in [ScenarioIds -> {"idle", "running", "reporting", "ended", "broken"}]
  /\ results \in Seq(ScenarioIds \X Statuses)
  /\ failureCount \in Nat
  /\ signal \in {"none", "skip", "abort"} /\ aborted \in BOOLEAN
  /\ summary \in [{"passed", "failed", "skipped", "total"} -> Int]

\* No scenario's callback of the reporter has failed, and no skip's either.
Intact ==
  /\ \A s \in ScenarioIds : state[s] # "broken"
  /\ pc \in {"summary", "runEnd", "done"} => trail > NumScenarios

Running == {s \in ScenarioIds : state[s] = "running"}
Failures == CountOf("failed")

\* The trailing loop relies on the results being those of the batches that
\* ran: when the run is over each scenario has one result, and only one, and
\* no more than one when callbacks of the reporter fail.
OneResultEach ==
  /\ \A i, j \in DOMAIN results : results[i][1] = results[j][1] => i = j
  /\ pc = "done" /\ Intact =>
       \A s \in ScenarioIds : \E i \in DOMAIN results : results[i][1] = s

\* No more scenarios run at once than maxConcurrency allows.
ConcurrencyBound == Cardinality(Running) <= Concurrency

\* maxFailures stops the run: it can be overshot only by the scenarios that
\* were running next to the one that made it.
FailuresBounded ==
  MaxFailures # 0 => Failures <= MaxFailures - 1 + Concurrency

\* No scenario starts once maxFailures scenarios have failed.
NoStartAfterFailures ==
  [][MaxFailures # 0 /\ Failures >= MaxFailures => Running' \subseteq Running]_vars

\* Once a callback of the reporter has failed for a scenario no other batch
\* begins: the scenarios still running go on, and only the rest of their own
\* batch may still start, when the callback threw within the loop that starts it.
NoStartAfterBreak ==
  [][(\E s \in ScenarioIds : state[s] = "broken") =>
       /\ batchEnd' = batchEnd
       /\ \A t \in Running' \ Running : t <= batchEnd]_vars

\* A scenario starts only when those of the earlier batches have ended: it
\* overlaps with no scenario that is MaxConcurrency or more places away.
BatchesDoNotOverlap ==
  \A s, t \in Running : s - t < Concurrency

\* The counters of the RunResult are those of the scenarios it lists, from
\* the time they are computed on, as no result arrives any more unless a
\* callback of the reporter failed.
SummaryAgrees ==
  pc \in {"runEnd", "done"} /\ Intact =>
    /\ summary.passed = CountOf("passed") /\ summary.failed = CountOf("failed")
    /\ summary.skipped = CountOf("skipped")

\* A run comes to an end when its scenarios do.
RunCompletes == <>(pc \in {"done", "rejected"})

\* packages/probitas-runner/types/run.ts, of RunOptions.signal: "When aborted,
\* running scenarios complete but no new ones start".
AbortStartsNothing == [][aborted => Running' \subseteq Running]_vars
=============================================================================
