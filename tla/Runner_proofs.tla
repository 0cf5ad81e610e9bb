---------------------------- MODULE Runner_proofs ----------------------------
(***************************************************************************)
(* Theorems about Runner and Reporting, for any number of scenarios and    *)
(* any limits, and about Definitions, where those scenarios come from, for *)
(* any calls, files, paths and selectors.                                  *)
(***************************************************************************)
EXTENDS Reporting, Definitions, SequenceTheorems, FiniteSetTheorems,
  FunctionTheorems, TLAPS

\* Where the loop over the batches is, and which scenarios it has started.
\* Whatever has started and not ended belongs to the current batch.
Active(s) == state[s] \in {"running", "reporting", "broken"}

Located ==
  /\ pc = "starting" => next <= batchEnd /\ next + Concurrency > batchEnd
  /\ pc # "starting" => next = batchEnd + 1
  /\ \A s \in ScenarioIds : s >= next <=> state[s] = "idle"
  /\ \A s \in ScenarioIds : Active(s) => s + Concurrency > batchEnd
  /\ pc \in {"runStart", "batches", "trailing", "trailingReport"}
       => \A s \in ScenarioIds : ~Active(s)
  /\ pc \in {"trailing", "trailingReport"} => trail >= 1

LEMMA LimitType == Concurrency \in Nat /\ (NumScenarios > 0 => Concurrency > 0)
  BY RunAssumption DEF Concurrency

\* The results with one status are finitely many.
LEMMA CountType ==
  ASSUME TypeOK, NEW status
  PROVE  /\ IsFiniteSet({i \in DOMAIN results : results[i][2] = status})
         /\ CountOf(status) \in Nat
<1>1. IsFiniteSet(1 .. Len(results))
  BY FS_Interval, LenProperties DEF TypeOK
<1>2. {i \in DOMAIN results : results[i][2] = status} \subseteq 1 .. Len(results)
  BY LenProperties DEF TypeOK
<1> QED
  BY <1>1, <1>2, FS_Subset, FS_CardinalityType DEF CountOf

\* A new result is a result.
LEMMA NewResult ==
  ASSUME TypeOK, NEW s \in ScenarioIds, NEW status \in Statuses
  PROVE  /\ Append(results, <<s, status>>) \in Seq(ScenarioIds \X Statuses)
         /\ DOMAIN Append(results, <<s, status>>) = DOMAIN results \union {Len(results) + 1}
         /\ Len(results) + 1 \notin DOMAIN results
         /\ \A i \in DOMAIN results : Append(results, <<s, status>>)[i] = results[i]
         /\ Append(results, <<s, status>>)[Len(results) + 1] = <<s, status>>
<1> QED
  BY AppendProperties, LenProperties DEF TypeOK

LEMMA TypeInductive ==
  TypeOK /\ Located /\ [Next]_vars => TypeOK'
<1> SUFFICES ASSUME TypeOK, Located, [Next]_vars PROVE TypeOK'
  OBVIOUS
<1> USE RunAssumption DEF progress, collected, control
<1>1. CASE ExternalAbort
  BY <1>1 DEF ExternalAbort, TypeOK
<1>2. CASE RunStarted \/ RunEnded \/ RunRejects
  BY <1>2 DEF RunStarted, RunEnded, RunRejects, TypeOK
<1>3. CASE BeginBatch
  <2>1. batchEnd' \in 0 .. NumScenarios
    BY <1>3, LimitType DEF BeginBatch, TypeOK
  <2> QED
    BY <1>3, <2>1 DEF BeginBatch, TypeOK
<1>4. CASE LeaveBatches
  BY <1>4, LenProperties DEF LeaveBatches, TypeOK
<1>5. CASE StartScenario
  <2>1. next' \in 1 .. NumScenarios + 1
    BY <1>5 DEF StartScenario, Started, TypeOK, Located
  <2>2. state' \in [ScenarioIds -> {"idle", "running", "reporting", "ended", "broken"}]
    BY <1>5 DEF StartScenario, Started, TypeOK
  <2> QED
    BY <1>5, <2>1, <2>2 DEF StartScenario, Started, TypeOK
<1>6. CASE SkipScenario
  <2>1. next \in ScenarioIds
    BY <1>6 DEF SkipScenario, Started, Located, TypeOK, ScenarioIds
  <2>2. Append(results, <<next, "skipped">>) \in Seq(ScenarioIds \X Statuses)
    BY <2>1, NewResult DEF Statuses
  <2> QED
    BY <1>6, <2>1, <2>2 DEF SkipScenario, Started, TypeOK, Located
<1>7. ASSUME NEW s \in ScenarioIds, NEW status \in Statuses, ScenarioEnds(s, status)
      PROVE  TypeOK'
  <2>1. Append(results, <<s, status>>) \in Seq(ScenarioIds \X Statuses)
    BY NewResult
  <2> QED
    BY <1>7, <2>1 DEF ScenarioEnds, TypeOK
<1>8. ASSUME NEW s \in ScenarioIds, SkipReported(s) \/ ReporterBreaks(s) PROVE TypeOK'
  BY <1>8 DEF SkipReported, ReporterBreaks, TypeOK
<1>9. CASE BatchDone \/ BatchRejects \/ TrailingBreaks \/ TrailingDone
  BY <1>9 DEF BatchDone, BatchRejects, TrailingBreaks, TrailingDone, TypeOK
<1>10. CASE TrailingSkip
  <2>1. trail \in ScenarioIds
    BY <1>10 DEF TrailingSkip, TypeOK, Located, ScenarioIds
  <2>2. Append(results, <<trail, "skipped">>) \in Seq(ScenarioIds \X Statuses)
    BY <2>1, NewResult DEF Statuses
  <2> QED
    BY <1>10, <2>2 DEF TrailingSkip, TypeOK
<1>11. CASE TrailingReported
  BY <1>11 DEF TrailingReported, TypeOK
<1>12. CASE Summarize
  <2>1. CountOf("passed") \in Nat /\ CountOf("failed") \in Nat
    BY CountType
  <2> QED
    BY <1>12, <2>1 DEF Summarize, TypeOK
<1>13. CASE UNCHANGED vars
  BY <1>13 DEF vars, TypeOK
<1> QED
  BY <1>1, <1>2, <1>3, <1>4, <1>5, <1>6, <1>7, <1>8, <1>9, <1>10, <1>11, <1>12, <1>13
  DEF Next, Advance, ScenarioStep, ReporterFailure

-----------------------------------------------------------------------------
LEMMA LocatedInductive ==
  TypeOK /\ Located /\ [Next]_vars => Located'
<1> SUFFICES ASSUME TypeOK, Located, [Next]_vars PROVE Located'
  OBVIOUS
<1> USE RunAssumption DEF progress, collected, control
<1>1. CASE ExternalAbort
  BY <1>1 DEF ExternalAbort, Located, Active
<1>2. CASE RunStarted \/ RunEnded \/ RunRejects
  BY <1>2 DEF RunStarted, RunEnded, RunRejects, Located, Active
<1>3. CASE BeginBatch
  BY <1>3, LimitType DEF BeginBatch, TypeOK, Located, Active
<1>4. CASE LeaveBatches
  BY <1>4, LenProperties DEF LeaveBatches, TypeOK, Located, Active
<1>5. ASSUME NEW new \in {"running", "reporting"}, Started(new),
             UNCHANGED <<batchEnd, trail>>
      PROVE  Located'
  <2>1. next \in ScenarioIds /\ next <= batchEnd
    BY <1>5 DEF Started, Located, TypeOK, ScenarioIds
  <2>2. next' = next + 1 /\ batchEnd' = batchEnd /\ trail' = trail
        /\ pc' \in {"starting", "waiting"} /\ (pc' = "starting" <=> next # batchEnd)
    BY <1>5 DEF Started
  <2>3. state'[next] = new /\ \A s \in ScenarioIds : s # next => state'[s] = state[s]
    BY <1>5, <2>1 DEF Started, TypeOK
  <2>4. next + Concurrency > batchEnd
    BY <1>5 DEF Started, Located
  <2> QED
    BY <2>1, <2>2, <2>3, <2>4, LimitType DEF Located, Active, TypeOK, ScenarioIds
<1>6. CASE StartScenario \/ SkipScenario
  BY <1>5, <1>6 DEF StartScenario, SkipScenario
<1>7. ASSUME NEW s \in ScenarioIds,
             state[s] \in {"running", "reporting"},
             NEW new \in {"ended", "broken"}, state' = [state EXCEPT ![s] = new],
             UNCHANGED <<pc, progress>>
      PROVE  Located'
  BY <1>7 DEF Located, Active, TypeOK
<1>8. ASSUME NEW s \in ScenarioIds,
             SkipReported(s) \/ ReporterBreaks(s)
               \/ \E status \in Statuses : ScenarioEnds(s, status)
      PROVE  Located'
  BY <1>7, <1>8 DEF SkipReported, ReporterBreaks, ScenarioEnds
<1>9. CASE BatchDone
  <2>1. \A s \in ScenarioIds : ~Active(s)
    BY <1>9 DEF BatchDone, Batch, Located, TypeOK, Active, ScenarioIds
  <2> QED
    BY <1>9, <2>1 DEF BatchDone, Located, Active
<1>10. CASE BatchRejects \/ TrailingBreaks \/ TrailingDone \/ TrailingSkip
  BY <1>10 DEF BatchRejects, TrailingBreaks, TrailingDone, TrailingSkip, Located, Active
<1>11. CASE TrailingReported
  BY <1>11 DEF TrailingReported, Located, Active, TypeOK
<1>12. CASE Summarize
  BY <1>12 DEF Summarize, Located, Active
<1>13. CASE UNCHANGED vars
  BY <1>13 DEF vars, Located, Active
<1> QED
  BY <1>1, <1>2, <1>3, <1>4, <1>6, <1>8, <1>9, <1>10, <1>11, <1>12, <1>13
  DEF Next, Advance, ScenarioStep, ReporterFailure

\* Every variable has its type, and the loop is where it should be.
THEOREM TypeCorrect == Spec => [](TypeOK /\ Located)
<1>1. ASSUME Init PROVE TypeOK /\ Located
  <2>1. results \in Seq(ScenarioIds \X Statuses)
    BY <1>1, EmptySeq DEF Init
  <2>2. summary \in [{"passed", "failed", "skipped", "total"} -> Int]
    BY <1>1 DEF Init, NoSummary
  <2>3. TypeOK
    <3>1. next \in 1 .. NumScenarios + 1 /\ batchEnd \in 0 .. NumScenarios
      BY <1>1, RunAssumption DEF Init
    <3>2. state \in [ScenarioIds -> {"idle", "running", "reporting", "ended", "broken"}]
      BY <1>1 DEF Init
    <3> QED
      BY <1>1, <2>1, <2>2, <3>1, <3>2 DEF Init, TypeOK
  <2>4. Located
    BY <1>1, RunAssumption DEF Init, Located, Active, ScenarioIds
  <2> QED
    BY <2>3, <2>4
<1>2. TypeOK /\ Located /\ [Next]_vars => (TypeOK /\ Located)'
  BY TypeInductive, LocatedInductive
<1> QED
  BY <1>1, <1>2, PTL DEF Spec

-----------------------------------------------------------------------------
\* What Located says of the scenarios that run at the same time

LEMMA RunningBounded ==
  TypeOK /\ Located => /\ BatchesDoNotOverlap /\ IsFiniteSet(Running)
                       /\ Cardinality(Running) \in Nat /\ ConcurrencyBound
<1> SUFFICES ASSUME TypeOK, Located
             PROVE  /\ BatchesDoNotOverlap /\ IsFiniteSet(Running)
                    /\ Cardinality(Running) \in Nat /\ ConcurrencyBound
  OBVIOUS
<1>1. PICK low \in Int : low = batchEnd - Concurrency + 1
  BY LimitType DEF TypeOK
<1>2. \A s \in Running : s \in low .. batchEnd
  BY <1>1, LimitType DEF TypeOK, Located, Active, Running, ScenarioIds
<1>3. BatchesDoNotOverlap
  BY <1>1, <1>2, LimitType DEF BatchesDoNotOverlap, TypeOK
<1>4. IsFiniteSet(low .. batchEnd) /\ Cardinality(low .. batchEnd) = Concurrency
  <2>1. batchEnd \in Int
    BY DEF TypeOK
  <2> QED
    BY <1>1, <2>1, FS_Interval, LimitType
<1>5. Running \subseteq low .. batchEnd
  BY <1>2
<1> QED
  BY <1>3, <1>4, <1>5, FS_Subset, FS_CardinalityType DEF ConcurrencyBound

\* Scenarios of different batches never run together.
THEOREM BatchesDoNotOverlapHolds == Spec => []BatchesDoNotOverlap
  BY TypeCorrect, RunningBounded, PTL

\* No more scenarios run at once than maxConcurrency allows.
THEOREM ConcurrencyBoundHolds == Spec => []ConcurrencyBound
  BY TypeCorrect, RunningBounded, PTL

-----------------------------------------------------------------------------
\* What the steps do to the set of running scenarios

LEMMA Starting ==
  ASSUME TypeOK, Located, StartScenario
  PROVE  Running' = Running \union {next}
<1>1. next \in ScenarioIds
  <2>1. next <= batchEnd
    BY DEF StartScenario, Started, Located
  <2> QED
    BY <2>1, RunAssumption DEF TypeOK, ScenarioIds
<1>2. state'[next] = "running" /\ \A s \in ScenarioIds : s # next => state'[s] = state[s]
  BY <1>1 DEF StartScenario, Started, TypeOK
<1> QED
  BY <1>1, <1>2 DEF Running

LEMMA Ending ==
  ASSUME TypeOK, NEW s \in ScenarioIds, state[s] = "running",
         NEW new \in {"ended", "broken"}, state' = [state EXCEPT ![s] = new]
  PROVE  s \in Running /\ Running' = Running \ {s}
  BY DEF TypeOK, Running

\* Only StartScenario lets a scenario run.
LEMMA NobodyElseStarts ==
  ASSUME TypeOK, Located, [Next]_vars, ~StartScenario
  PROVE  Running' \subseteq Running
<1> USE DEF Running, progress, collected, control
<1>1. CASE state' = state
  BY <1>1
<1>2. CASE SkipScenario
  BY <1>2 DEF SkipScenario, Started, TypeOK
<1>3. ASSUME NEW s \in ScenarioIds, SkipReported(s) \/ ReporterBreaks(s)
             \/ \E status \in Statuses : ScenarioEnds(s, status)
      PROVE  Running' \subseteq Running
  BY <1>3 DEF SkipReported, ReporterBreaks, ScenarioEnds, TypeOK
<1>4. CASE ExternalAbort \/ RunStarted \/ BeginBatch \/ LeaveBatches \/ BatchDone
           \/ BatchRejects \/ TrailingSkip \/ TrailingReported \/ TrailingBreaks
           \/ TrailingDone \/ Summarize \/ RunEnded \/ RunRejects \/ UNCHANGED vars
  <2>1. state' = state
    BY <1>4 DEF ExternalAbort, RunStarted, BeginBatch, LeaveBatches, BatchDone,
                BatchRejects, TrailingSkip, TrailingReported, TrailingBreaks,
                TrailingDone, Summarize, RunEnded, RunRejects, vars
  <2> QED
    BY <1>1, <2>1
<1> QED
  BY <1>2, <1>3, <1>4 DEF Next, Advance, ScenarioStep, ReporterFailure

\* Only BeginBatch moves the end of the batch.
LEMMA BatchEndStays ==
  ASSUME [Next]_vars, ~BeginBatch
  PROVE  batchEnd' = batchEnd
<1> USE DEF progress, collected, control
<1>1. CASE ExternalAbort \/ RunStarted \/ LeaveBatches \/ StartScenario \/ SkipScenario
  BY <1>1 DEF ExternalAbort, RunStarted, LeaveBatches, StartScenario, SkipScenario
<1>2. CASE BatchDone \/ BatchRejects \/ TrailingSkip \/ TrailingReported \/ TrailingBreaks
  BY <1>2 DEF BatchDone, BatchRejects, TrailingSkip, TrailingReported, TrailingBreaks
<1>3. CASE TrailingDone \/ Summarize \/ RunEnded \/ RunRejects \/ UNCHANGED vars
  BY <1>3 DEF TrailingDone, Summarize, RunEnded, RunRejects, vars
<1>4. ASSUME NEW s \in ScenarioIds, SkipReported(s) \/ ReporterBreaks(s)
             \/ \E status \in Statuses : ScenarioEnds(s, status)
      PROVE  batchEnd' = batchEnd
  BY <1>4 DEF SkipReported, ReporterBreaks, ScenarioEnds
<1> QED
  BY <1>1, <1>2, <1>3, <1>4 DEF Next, Advance, ScenarioStep, ReporterFailure

\* Once a reporter has failed for a scenario, no other batch begins: the loop
\* may still be starting that of the scenario, and will not get past it.
THEOREM NoStartAfterBreakHolds == Spec => NoStartAfterBreak
<1>1. ASSUME TypeOK, Located, [Next]_vars, \E s \in ScenarioIds : state[s] = "broken"
      PROVE  batchEnd' = batchEnd /\ \A t \in Running' \ Running : t <= batchEnd
  <2>1. batchEnd' = batchEnd
    BY <1>1, BatchEndStays DEF BeginBatch, Located, Active
  <2>2. CASE StartScenario
    <3>1. Running' = Running \union {next}
      BY <1>1, <2>2, Starting
    <3>2. next <= batchEnd
      BY <1>1, <2>2 DEF StartScenario, Started, Located
    <3> QED
      BY <2>1, <3>1, <3>2
  <2>3. CASE ~StartScenario
    BY <1>1, <2>1, <2>3, NobodyElseStarts
  <2> QED
    BY <2>2, <2>3
<1> QED
  BY <1>1, TypeCorrect, PTL DEF Spec, NoStartAfterBreak

-----------------------------------------------------------------------------
\* The count of the failures and the limit on them

\* A result counts once, and for its own status only.
LEMMA CountGrows ==
  ASSUME TypeOK, NEW s \in ScenarioIds, NEW status \in Statuses, NEW counted,
         results' = Append(results, <<s, status>>)
  PROVE  CountOf(counted)' = IF status = counted THEN CountOf(counted) + 1
                             ELSE CountOf(counted)
<1> DEFINE before == {i \in DOMAIN results : results[i][2] = counted}
           after  == {i \in DOMAIN results' : results'[i][2] = counted}
<1>1. IsFiniteSet(before) /\ Len(results) + 1 \notin before
  BY CountType, NewResult
<1>2. after = IF status = counted THEN before \union {Len(results) + 1} ELSE before
  BY NewResult
<1>3. CASE status = counted
  BY <1>1, <1>2, <1>3, FS_AddElement DEF CountOf
<1>4. CASE status # counted
  BY <1>2, <1>4 DEF CountOf
<1> QED
  BY <1>3, <1>4

\* failureCount is the number of failed results; while the run goes on there
\* is room for one more failure, and once it is stopped the scenarios still
\* running fit in what is left.
Budget ==
  /\ failureCount = Failures
  /\ MaxFailures # 0 /\ signal = "none" => failureCount <= MaxFailures - 1
  /\ MaxFailures # 0 =>
       failureCount + Cardinality(Running) <= MaxFailures - 1 + Concurrency

LEMMA BudgetKept ==
  ASSUME TypeOK, Located, Budget, [Next]_vars, (TypeOK /\ Located)'
  PROVE  Budget'
<1> USE RunAssumption, LimitType DEF progress, collected, control
<1>0. /\ IsFiniteSet(Running) /\ Cardinality(Running) \in Nat
      /\ Cardinality(Running') \in Nat /\ Cardinality(Running') <= Concurrency
  <2>1. (BatchesDoNotOverlap /\ IsFiniteSet(Running)
          /\ Cardinality(Running) \in Nat /\ ConcurrencyBound)'
    BY RunningBounded, PTL
  <2> QED
    BY <2>1, RunningBounded DEF ConcurrencyBound
<1>a. failureCount \in Nat /\ failureCount' \in Nat
  BY DEF TypeOK
<1>1. ASSUME failureCount' = failureCount, Failures' = Failures,
             signal # "none" => signal' # "none", ~StartScenario
      PROVE  Budget'
  <2>1. Cardinality(Running') <= Cardinality(Running)
    BY <1>0, <1>1, NobodyElseStarts, FS_Subset
  <2> QED
    BY <1>0, <1>1, <2>1, <1>a DEF Budget
<1>2. CASE StartScenario
  <2>1. results' = results /\ failureCount' = failureCount /\ signal' = signal
        /\ signal = "none"
    BY <1>2 DEF StartScenario
  <2>2. Failures' = Failures
    BY <2>1 DEF Failures, CountOf
  <2> QED
    BY <1>0, <2>1, <2>2, <1>a DEF Budget
<1>3. CASE SkipScenario
  <2>1. next \in ScenarioIds
    BY <1>3 DEF SkipScenario, Started, Located, TypeOK, ScenarioIds
  <2>2. Failures' = Failures
    BY <1>3, <2>1, CountGrows DEF SkipScenario, Failures, Statuses
  <2> QED
    BY <1>1, <1>3, <2>2 DEF SkipScenario, StartScenario
<1>4. CASE TrailingSkip
  <2>1. trail \in ScenarioIds
    BY <1>4 DEF TrailingSkip, Located, TypeOK, ScenarioIds
  <2>2. Failures' = Failures
    BY <1>4, <2>1, CountGrows DEF TrailingSkip, Failures, Statuses
  <2> QED
    BY <1>1, <1>4, <2>2 DEF TrailingSkip, StartScenario, Started
<1>5. ASSUME NEW s \in ScenarioIds, NEW status \in Statuses, ScenarioEnds(s, status)
      PROVE  Budget'
  <2>1. s \in Running /\ Running' = Running \ {s}
    BY <1>5, Ending DEF ScenarioEnds
  <2>2. Cardinality(Running') = Cardinality(Running) - 1
    BY <1>0, <2>1, FS_RemoveElement
  <2>3. Failures \in Nat /\ Failures' = IF status = "failed" THEN Failures + 1 ELSE Failures
    BY <1>5, CountGrows, CountType DEF ScenarioEnds, Failures
  <2>4. failureCount' = IF status = "failed" THEN failureCount + 1 ELSE failureCount
    BY <1>5 DEF ScenarioEnds, TypeOK
  <2>5. ASSUME MaxFailures # 0, signal' = "none"
        PROVE  failureCount' <= MaxFailures - 1
    BY <1>5, <2>4, <2>5 DEF ScenarioEnds, Budget, TypeOK
  <2> QED
    BY <1>0, <2>2, <2>3, <2>4, <2>5, <1>a DEF Budget
<1>6. ASSUME results' = results, failureCount' = failureCount,
             signal # "none" => signal' # "none"
      PROVE  Budget'
  BY <1>1, <1>2, <1>6 DEF Failures, CountOf
<1>7. ASSUME NEW s \in ScenarioIds, SkipReported(s) \/ ReporterBreaks(s) PROVE Budget'
  BY <1>6, <1>7 DEF SkipReported, ReporterBreaks
<1>8. CASE ExternalAbort
  BY <1>6, <1>8 DEF ExternalAbort
<1>9. CASE RunStarted \/ BeginBatch \/ LeaveBatches \/ BatchDone \/ BatchRejects
  BY <1>6, <1>9 DEF RunStarted, BeginBatch, LeaveBatches, BatchDone, BatchRejects
<1>10. CASE TrailingReported \/ TrailingBreaks \/ TrailingDone \/ RunEnded \/ RunRejects
  BY <1>6, <1>10 DEF TrailingReported, TrailingBreaks, TrailingDone, RunEnded, RunRejects
<1>11. CASE Summarize \/ UNCHANGED vars
  BY <1>6, <1>11 DEF Summarize, vars
<1> QED
  BY <1>2, <1>3, <1>4, <1>5, <1>7, <1>8, <1>9, <1>10, <1>11
  DEF Next, Advance, ScenarioStep, ReporterFailure

LEMMA Bounded == Spec => [](TypeOK /\ Located /\ Budget)
<1>1. Init => Budget
  <2> SUFFICES ASSUME Init PROVE Budget
    OBVIOUS
  <2>1. {i \in DOMAIN results : results[i][2] = "failed"} = {} /\ Running = {}
    BY DEF Init, Running
  <2>2. Failures = 0 /\ Cardinality(Running) = 0
    BY <2>1, FS_EmptySet DEF Failures, CountOf
  <2> QED
    BY <2>2, RunAssumption, LimitType DEF Init, Budget
<1>2. TypeOK /\ Located /\ Budget /\ [Next]_vars /\ (TypeOK /\ Located)' => Budget'
  BY BudgetKept
<1> QED
  BY <1>1, <1>2, TypeCorrect, PTL DEF Spec

\* maxFailures stops the run: it can be overshot only by the scenarios that
\* were running next to the one that made it.
THEOREM FailuresBoundedHolds == Spec => []FailuresBounded
<1>1. TypeOK /\ Located /\ Budget => FailuresBounded
  BY RunningBounded, RunAssumption, LimitType DEF Budget, FailuresBounded, TypeOK
<1> QED
  BY <1>1, Bounded, PTL

\* No scenario starts once maxFailures scenarios have failed.
THEOREM NoStartAfterFailuresHolds == Spec => NoStartAfterFailures
<1>1. ASSUME TypeOK, Located, Budget, [Next]_vars,
             MaxFailures # 0 /\ Failures >= MaxFailures
      PROVE  Running' \subseteq Running
  <2>1. ~StartScenario
    BY <1>1, RunAssumption DEF StartScenario, Budget, TypeOK
  <2> QED
    BY <1>1, <2>1, NobodyElseStarts
<1> QED
  BY <1>1, Bounded, PTL DEF Spec, NoStartAfterFailures

-----------------------------------------------------------------------------
\* Every scenario has one result

Covered == {results[i][1] : i \in DOMAIN results}
NoDuplicate == \A i, j \in DOMAIN results : results[i][1] = results[j][1] => i = j

\* Which scenarios have a result.  While the batches run it is for their state
\* to say; then the trailing loop goes on where the results end.
Collected ==
  /\ NoDuplicate /\ IsFiniteSet(Covered) /\ Cardinality(Covered) = Len(results)
  /\ \A s \in ScenarioIds : state[s] \in {"reporting", "ended"} => s \in Covered
  /\ \A s \in ScenarioIds : state[s] = "running" => s \notin Covered
  /\ pc \in {"runStart", "batches", "starting", "waiting"} =>
       \A s \in ScenarioIds : state[s] = "idle" => s \notin Covered
  /\ pc = "trailing" => Covered = 1 .. trail - 1
  /\ pc = "trailingReport" => Covered = 1 .. trail
  /\ Intact /\ pc \in {"summary", "runEnd", "done"} => Covered = ScenarioIds

LEMMA CoveredGrows ==
  ASSUME TypeOK, NEW s \in ScenarioIds, NEW status \in Statuses, s \notin Covered,
         NoDuplicate, IsFiniteSet(Covered), Cardinality(Covered) = Len(results),
         results' = Append(results, <<s, status>>)
  PROVE  /\ Covered' = Covered \union {s} /\ NoDuplicate' /\ IsFiniteSet(Covered)'
         /\ Cardinality(Covered)' = Len(results)'
<1>1. Covered' = Covered \union {s}
  BY NewResult DEF Covered
<1>2. NoDuplicate'
  BY NewResult DEF NoDuplicate, Covered
<1>3. IsFiniteSet(Covered') /\ Cardinality(Covered') = Cardinality(Covered) + 1
  BY <1>1, FS_AddElement
<1>4. Len(results') = Len(results) + 1
  BY AppendProperties DEF TypeOK
<1> QED
  BY <1>1, <1>2, <1>3, <1>4

LEMMA CoveredType ==
  ASSUME TypeOK
  PROVE  Covered \subseteq ScenarioIds
<1>1. \A i \in DOMAIN results : results[i] \in ScenarioIds \X Statuses
  BY LenProperties, ElementOfSeq DEF TypeOK
<1> QED
  BY <1>1 DEF Covered

LEMMA CollectedKept ==
  ASSUME TypeOK, Located, Collected, [Next]_vars
  PROVE  Collected'
<1> USE RunAssumption DEF progress, collected, control
<1>1. CASE StartScenario
  <2>1. next \in ScenarioIds
    BY <1>1 DEF StartScenario, Started, Located, TypeOK, ScenarioIds
  <2>2. state[next] = "idle"
    BY <2>1 DEF Located, TypeOK
  <2>3. Covered' = Covered /\ NoDuplicate' = NoDuplicate /\ Len(results)' = Len(results)
    BY <1>1 DEF StartScenario, Covered, NoDuplicate
  <2> QED
    BY <1>1, <2>1, <2>2, <2>3 DEF StartScenario, Started, Collected, TypeOK
<1>2. CASE SkipScenario
  <2>1. next \in ScenarioIds
    BY <1>2 DEF SkipScenario, Started, Located, TypeOK, ScenarioIds
  <2>2. state[next] = "idle" /\ next \notin Covered
    BY <1>2, <2>1 DEF Located, TypeOK, Collected, SkipScenario, Started
  <2>3. Covered' = Covered \union {next} /\ NoDuplicate' /\ IsFiniteSet(Covered)'
        /\ Cardinality(Covered)' = Len(results)'
    BY <1>2, <2>1, <2>2, CoveredGrows DEF SkipScenario, Collected, Statuses
  <2> QED
    BY <1>2, <2>1, <2>2, <2>3 DEF SkipScenario, Started, Collected, TypeOK
<1>3. ASSUME NEW s \in ScenarioIds, NEW status \in Statuses, ScenarioEnds(s, status)
      PROVE  Collected'
  <2>1. s \notin Covered /\ state[s] = "running" /\ pc' = pc /\ trail' = trail
    BY <1>3 DEF ScenarioEnds, Collected
  <2>2. Covered' = Covered \union {s} /\ NoDuplicate' /\ IsFiniteSet(Covered)'
        /\ Cardinality(Covered)' = Len(results)'
    BY <1>3, <2>1, CoveredGrows DEF ScenarioEnds, Collected
  <2>3. pc \notin {"trailing", "trailingReport"}
        /\ (pc \in {"summary", "runEnd", "done"} => ~Intact)
    BY <2>1 DEF Located, Active, Collected
  <2>4. state' = [state EXCEPT ![s] = "ended"]
    BY <1>3 DEF ScenarioEnds
  <2>5. Intact' => Intact
    BY <2>1, <2>4 DEF Intact, TypeOK
  <2> QED
    BY <2>1, <2>2, <2>3, <2>4, <2>5 DEF Collected, TypeOK
<1>4. ASSUME NEW s \in ScenarioIds, SkipReported(s) \/ ReporterBreaks(s)
      PROVE  Collected'
  <2>1. Covered' = Covered /\ NoDuplicate' = NoDuplicate /\ Len(results)' = Len(results)
        /\ pc' = pc /\ trail' = trail
    BY <1>4 DEF SkipReported, ReporterBreaks, Covered, NoDuplicate
  <2>2. Intact' => Intact
    BY <1>4, <2>1 DEF SkipReported, ReporterBreaks, Intact, TypeOK
  <2> QED
    BY <1>4, <2>1, <2>2 DEF SkipReported, ReporterBreaks, Collected, TypeOK
<1>5. CASE LeaveBatches
  <2>1. \A s \in ScenarioIds : s \in Covered <=> s < next
    BY <1>5 DEF LeaveBatches, Located, Active, Collected, TypeOK, ScenarioIds
  <2>2. Covered = 1 .. next - 1
    <3>1. \A s \in 1 .. next - 1 : s \in ScenarioIds /\ s < next
      BY DEF TypeOK, ScenarioIds
    <3>2. \A s \in ScenarioIds : s < next => s \in 1 .. next - 1
      BY DEF TypeOK, ScenarioIds
    <3> QED
      BY <2>1, <3>1, <3>2, CoveredType
  <2>3. Cardinality(1 .. next - 1) = next - 1
    BY FS_Interval DEF TypeOK
  <2>4. Covered' = Covered /\ NoDuplicate' = NoDuplicate /\ Len(results)' = Len(results)
    BY <1>5 DEF LeaveBatches, Covered, NoDuplicate
  <2>5. Covered' = 1 .. trail' - 1
    BY <1>5, <2>2, <2>3, <2>4 DEF LeaveBatches, Collected, TypeOK
  <2> QED
    BY <1>5, <2>4, <2>5 DEF LeaveBatches, Collected
<1>6. CASE TrailingSkip
  <2>1. trail \in ScenarioIds
    BY <1>6 DEF TrailingSkip, Located, TypeOK, ScenarioIds
  <2>2. trail \notin Covered /\ Covered \union {trail} = 1 .. trail
    BY <1>6, <2>1 DEF TrailingSkip, Collected, ScenarioIds
  <2>3. Covered' = Covered \union {trail} /\ NoDuplicate' /\ IsFiniteSet(Covered)'
        /\ Cardinality(Covered)' = Len(results)'
    BY <1>6, <2>1, <2>2, CoveredGrows DEF TrailingSkip, Collected, Statuses
  <2>4. \A s \in ScenarioIds : state[s] # "running"
    BY <1>6 DEF TrailingSkip, Located, Active
  <2> QED
    BY <1>6, <2>2, <2>3, <2>4 DEF TrailingSkip, Collected
<1>7. ASSUME results' = results, state' = state PROVE
        Covered' = Covered /\ NoDuplicate' = NoDuplicate /\ Len(results)' = Len(results)
  BY <1>7 DEF Covered, NoDuplicate
<1>8. CASE TrailingReported
  <2>1. trail' - 1 = trail
    BY <1>8 DEF TrailingReported, TypeOK
  <2> QED
    BY <1>7, <1>8, <2>1 DEF TrailingReported, Collected
<1>9. CASE TrailingDone
  <2>1. Covered = ScenarioIds
    <3>1. Covered = 1 .. trail - 1 /\ trail > NumScenarios /\ trail \in Nat
      BY <1>9 DEF TrailingDone, Collected, TypeOK
    <3>2. ScenarioIds \subseteq 1 .. trail - 1
      BY <3>1 DEF ScenarioIds
    <3> QED
      BY <3>1, <3>2, CoveredType
  <2> QED
    BY <1>7, <1>9, <2>1 DEF TrailingDone, Collected
<1>10. CASE BatchRejects \/ TrailingBreaks
  <2>1. ~Intact'
    <3>1. CASE BatchRejects
      BY <3>1 DEF BatchRejects, Batch, Intact, collected
    <3>2. CASE TrailingBreaks
      <4>1. trail \in 1 .. trail /\ trail \in Nat
        BY <3>2 DEF TrailingBreaks, Located, TypeOK
      <4>2. trail \in ScenarioIds
        BY <3>2, <4>1, CoveredType DEF TrailingBreaks, Collected
      <4> QED
        BY <3>2, <4>1, <4>2 DEF TrailingBreaks, Intact, ScenarioIds
    <3> QED
      BY <1>10, <3>1, <3>2
  <2> QED
    BY <1>7, <1>10, <2>1 DEF BatchRejects, TrailingBreaks, Collected
<1>11. CASE RunStarted \/ BeginBatch \/ BatchDone
  BY <1>7, <1>11 DEF RunStarted, BeginBatch, BatchDone, Collected
<1>12. CASE Summarize \/ RunEnded \/ RunRejects
  BY <1>7, <1>12 DEF Summarize, RunEnded, RunRejects, Collected, Intact
<1>13. CASE ExternalAbort \/ UNCHANGED vars
  BY <1>7, <1>13 DEF ExternalAbort, vars, Collected, Intact
<1> QED
  BY <1>1, <1>2, <1>3, <1>4, <1>5, <1>6, <1>8, <1>9, <1>10, <1>11, <1>12, <1>13
  DEF Next, Advance, ScenarioStep, ReporterFailure

LEMMA AllCollected == Spec => [](TypeOK /\ Located /\ Collected)
<1>1. Init => Collected
  <2> SUFFICES ASSUME Init PROVE Collected
    OBVIOUS
  <2>1. DOMAIN results = {} /\ Len(results) = 0
    BY EmptySeq DEF Init
  <2>2. Covered = {} /\ NoDuplicate
    BY <2>1 DEF Covered, NoDuplicate
  <2> QED
    BY <2>1, <2>2, FS_EmptySet DEF Init, Collected
<1>2. TypeOK /\ Located /\ Collected /\ [Next]_vars => Collected'
  BY CollectedKept
<1> QED
  BY <1>1, <1>2, TypeCorrect, PTL DEF Spec

\* When the run is over each scenario has one result, and only one.
THEOREM OneResultEachHolds == Spec => []OneResultEach
<1>1. TypeOK /\ Located /\ Collected => OneResultEach
  BY DEF Collected, NoDuplicate, Covered, OneResultEach, Intact
<1> QED
  BY <1>1, AllCollected, PTL

-----------------------------------------------------------------------------
\* The summary of the run

LEMMA IntervalCount ==
  ASSUME NEW n \in Nat
  PROVE  Cardinality(1 .. n) = n
<1>1. Cardinality(1 .. n) = IF 1 > n THEN 0 ELSE n - 1 + 1
  BY FS_Interval
<1> QED
  BY <1>1

LEMMA DisjointCount ==
  ASSUME NEW S, IsFiniteSet(S), NEW T, IsFiniteSet(T), S \intersect T = {}
  PROVE  IsFiniteSet(S \union T) /\ Cardinality(S \union T) = Cardinality(S) + Cardinality(T)
<1>1. /\ IsFiniteSet(S \union T)
      /\ Cardinality(S \union T)
           = Cardinality(S) + Cardinality(T) - Cardinality(S \intersect T)
  BY FS_Union
<1>2. Cardinality(S \intersect T) = 0
  BY FS_EmptySet
<1>3. Cardinality(S) \in Nat /\ Cardinality(T) \in Nat
  BY FS_CardinalityType
<1> QED
  BY <1>1, <1>2, <1>3

\* Every result has one of the three statuses.
LEMMA CountsAddUp ==
  ASSUME TypeOK
  PROVE  CountOf("passed") + CountOf("failed") + CountOf("skipped") = Len(results)
<1> DEFINE With(status) == {i \in DOMAIN results : results[i][2] = status}
<1>1. \A i \in DOMAIN results : results[i][2] \in Statuses
  <2>1. \A i \in DOMAIN results : results[i] \in ScenarioIds \X Statuses
    BY LenProperties, ElementOfSeq DEF TypeOK
  <2> QED
    BY <2>1
<1>2. /\ DOMAIN results = With("passed") \union With("failed") \union With("skipped")
      /\ With("passed") \intersect With("failed") = {}
      /\ (With("passed") \union With("failed")) \intersect With("skipped") = {}
  BY <1>1 DEF Statuses
<1>3. IsFiniteSet(With("passed")) /\ IsFiniteSet(With("failed")) /\ IsFiniteSet(With("skipped"))
  BY CountType
<1>4. /\ IsFiniteSet(With("passed") \union With("failed"))
      /\ Cardinality(With("passed") \union With("failed"))
           = Cardinality(With("passed")) + Cardinality(With("failed"))
  <2> HIDE DEF With
  <2> QED
    BY <1>2, <1>3, DisjointCount
<1>5. Cardinality(DOMAIN results)
        = Cardinality(With("passed")) + Cardinality(With("failed")) + Cardinality(With("skipped"))
  <2> HIDE DEF With
  <2> QED
    BY <1>2, <1>3, <1>4, DisjointCount
<1>6. Cardinality(DOMAIN results) = Len(results)
  <2>1. Len(results) \in Nat /\ DOMAIN results = 1 .. Len(results)
    BY LenProperties DEF TypeOK
  <2> QED
    BY <2>1, IntervalCount
<1> QED
  BY <1>5, <1>6 DEF CountOf

Summed ==
  Intact /\ pc \in {"runEnd", "done"} =>
    /\ summary.passed = CountOf("passed") /\ summary.failed = CountOf("failed")
    /\ summary.skipped = NumScenarios - CountOf("passed") - CountOf("failed")

LEMMA SummedKept ==
  ASSUME TypeOK, Located, Collected, Summed, [Next]_vars
  PROVE  Summed'
<1> USE RunAssumption DEF progress, collected, control
<1>1. CASE Summarize
  BY <1>1 DEF Summarize, Summed, CountOf
<1>2. CASE pc' \notin {"runEnd", "done"}
  BY <1>2 DEF Summed
<1>3. ASSUME results' = results, summary' = summary,
             pc' \in {"runEnd", "done"} => pc \in {"runEnd", "done"} /\ trail' = trail,
             \A s \in ScenarioIds : state[s] = "broken" => state'[s] = "broken"
      PROVE  Summed'
  BY <1>3 DEF Summed, CountOf, Intact
<1>4. CASE StartScenario \/ SkipScenario \/ TrailingSkip
  BY <1>2, <1>4 DEF StartScenario, SkipScenario, Started, TrailingSkip
<1>5. ASSUME NEW s \in ScenarioIds, NEW status \in Statuses, ScenarioEnds(s, status)
      PROVE  Summed'
  <2>1. Intact => pc \notin {"runEnd", "done"}
    BY <1>5 DEF ScenarioEnds, Collected
  <2>2. pc' = pc /\ (Intact' => Intact)
    BY <1>5 DEF ScenarioEnds, Intact, TypeOK
  <2> QED
    BY <2>1, <2>2 DEF Summed
<1>6. ASSUME NEW s \in ScenarioIds, SkipReported(s) \/ ReporterBreaks(s) PROVE Summed'
  BY <1>3, <1>6 DEF SkipReported, ReporterBreaks, TypeOK
<1>7. CASE RunStarted \/ BeginBatch \/ LeaveBatches \/ BatchDone \/ BatchRejects
  BY <1>3, <1>7 DEF RunStarted, BeginBatch, LeaveBatches, BatchDone, BatchRejects
<1>8. CASE TrailingReported \/ TrailingBreaks \/ TrailingDone \/ RunEnded \/ RunRejects
  BY <1>3, <1>8 DEF TrailingReported, TrailingBreaks, TrailingDone, RunEnded, RunRejects
<1>9. CASE ExternalAbort \/ UNCHANGED vars
  BY <1>3, <1>9 DEF ExternalAbort, vars
<1> QED
  BY <1>1, <1>4, <1>5, <1>6, <1>7, <1>8, <1>9
  DEF Next, Advance, ScenarioStep, ReporterFailure

\* The counters of the RunResult are those of the scenarios it lists.
THEOREM SummaryAgreesHolds == Spec => []SummaryAgrees
<1>1. Init => Summed
  BY DEF Init, Summed
<1>2. TypeOK /\ Located /\ Collected /\ Summed /\ [Next]_vars => Summed'
  BY SummedKept
<1>3. ASSUME TypeOK, Collected, Summed, pc \in {"runEnd", "done"}, Intact
      PROVE  summary.skipped = CountOf("skipped")
  <2>1. Len(results) = NumScenarios
    <3>1. Covered = 1 .. NumScenarios /\ Cardinality(Covered) = Len(results)
      BY <1>3 DEF Collected, ScenarioIds
    <3> QED
      BY <3>1, IntervalCount, RunAssumption
  <2>2. CountOf("passed") \in Nat /\ CountOf("failed") \in Nat /\ CountOf("skipped") \in Nat
    BY <1>3, CountType
  <2>3. CountOf("passed") + CountOf("failed") + CountOf("skipped") = NumScenarios
    BY <1>3, <2>1, CountsAddUp
  <2> QED
    BY <1>3, <2>2, <2>3, RunAssumption DEF Summed
<1>4. TypeOK /\ Collected /\ Summed => SummaryAgrees
  BY <1>3 DEF Summed, SummaryAgrees
<1> QED
  BY <1>1, <1>2, <1>4, AllCollected, PTL DEF Spec

-----------------------------------------------------------------------------
(***************************************************************************)
(* How much is left to do in a run: a number that every step lowers.  A    *)
(* scenario that is to start counts for its start, for its end and for the *)
(* round of the loop that it may take.                                     *)
(***************************************************************************)
Live == {s \in ScenarioIds : state[s] \in {"running", "reporting"}}

PartLeft ==
  CASE pc \in {"runStart", "waiting"} -> 10
    [] pc = "batches" -> 9
    [] pc = "starting" -> 8
    [] pc = "trailing" -> 5
    [] pc = "trailingReport" -> 4
    [] pc = "summary" -> 3
    [] pc = "runEnd" -> 2
    [] OTHER -> 0

ToSkip == IF trail <= NumScenarios THEN NumScenarios + 1 - trail ELSE 0

RunWork ==
  4 * (NumScenarios + 1 - next) + 2 * ToSkip + Cardinality(Live) + PartLeft
  + (IF aborted THEN 0 ELSE 1)

\* The trailing loop starts once, and reports scenarios of the run.
Skipping ==
  /\ pc \in {"runStart", "batches", "starting", "waiting"} => trail = 0
  /\ pc = "trailingReport" => trail <= NumScenarios

LEMMA SkippingAlways == Spec => []Skipping
<1>1. Init => Skipping
  BY DEF Init, Skipping
<1>2. Skipping /\ [Next]_vars => Skipping'
  <2> SUFFICES ASSUME Skipping, [Next]_vars PROVE Skipping'
    OBVIOUS
  <2> USE DEF Skipping, progress, collected, control
  <2>1. CASE RunStarted \/ BeginBatch \/ LeaveBatches \/ StartScenario \/ SkipScenario
    BY <2>1 DEF RunStarted, BeginBatch, LeaveBatches, StartScenario, SkipScenario, Started
  <2>2. CASE BatchDone \/ BatchRejects \/ Summarize \/ RunEnded \/ RunRejects
    BY <2>2 DEF BatchDone, BatchRejects, Summarize, RunEnded, RunRejects
  <2>3. CASE TrailingSkip \/ TrailingReported \/ TrailingDone \/ TrailingBreaks
    BY <2>3 DEF TrailingSkip, TrailingReported, TrailingDone, TrailingBreaks
  <2>4. CASE ExternalAbort \/ (\E s \in ScenarioIds : ScenarioStep(s) \/ ReporterBreaks(s))
    BY <2>4 DEF ExternalAbort, ScenarioStep, ScenarioEnds, SkipReported, ReporterBreaks
  <2>5. CASE UNCHANGED vars
    BY <2>5 DEF vars
  <2> QED
    BY <2>1, <2>2, <2>3, <2>4, <2>5 DEF Next, Advance, ReporterFailure
<1> QED
  BY <1>1, <1>2, PTL DEF Spec

\* The parts of the work are numbers.
Numbered ==
  /\ NumScenarios + 1 - next \in Nat /\ ToSkip \in Nat /\ PartLeft \in Nat
  /\ IsFiniteSet(Live) /\ Cardinality(Live) \in Nat

LEMMA WorkIsNumbered == TypeOK => Numbered
<1> SUFFICES ASSUME TypeOK PROVE Numbered
  OBVIOUS
<1>1. NumScenarios + 1 - next \in Nat /\ ToSkip \in Nat
  BY RunAssumption DEF TypeOK, ToSkip
<1>2. PartLeft \in Nat
  BY DEF PartLeft
<1>3. IsFiniteSet(ScenarioIds)
  BY RunAssumption, FS_Interval DEF ScenarioIds
<1> QED
  BY <1>1, <1>2, <1>3, FS_Subset, FS_CardinalityType DEF Numbered, Live

\* Scenarios that are neither started nor ended stay as many as they are.
LEMMA LiveStays == state' = state => Live' = Live
BY DEF Live

\* A step that moves run() on, or that the caller makes, leaves the scenarios alone.
LEMMA MovesOn ==
  ASSUME Numbered, Numbered', UNCHANGED <<next, state, aborted>>,
         \/ trail' = trail /\ PartLeft' < PartLeft
         \/ ToSkip' <= ToSkip /\ PartLeft' < PartLeft
         \/ ToSkip' = ToSkip - 1 /\ PartLeft' <= PartLeft + 1
  PROVE  RunWork' < RunWork
<1>1. Live' = Live /\ (trail' = trail => ToSkip' = ToSkip)
  BY LiveStays DEF ToSkip
<1> QED
  BY <1>1 DEF Numbered, RunWork

\* Starting a scenario takes more off the work than it adds to it.
LEMMA StartLowers ==
  ASSUME TypeOK, Located, Numbered, Numbered', NEW new \in {"running", "reporting"},
         Started(new), UNCHANGED <<trail, aborted>>
  PROVE  RunWork' < RunWork
<1>1. next \in ScenarioIds /\ NumScenarios \in Nat
  BY RunAssumption DEF Started, Located, TypeOK, ScenarioIds
<1>2. next' = next + 1 /\ ToSkip' = ToSkip /\ PartLeft = 8 /\ PartLeft' <= 10
  BY DEF Started, ToSkip, PartLeft
<1>3. Live' = Live \cup {next}
  BY <1>1 DEF Started, TypeOK, Live
<1>4. Cardinality(Live') <= Cardinality(Live) + 1
  BY <1>3, FS_AddElement DEF Numbered
<1>5. NumScenarios + 1 - next' = (NumScenarios + 1 - next) - 1
  BY <1>1, <1>2 DEF ScenarioIds
<1> QED
  BY <1>2, <1>4, <1>5 DEF Numbered, RunWork

\* A scenario that ends is one less that is under way.
LEMMA EndLowers ==
  ASSUME TypeOK, Numbered, Numbered', NEW s \in Live, NEW new \in {"ended", "broken"},
         state' = [state EXCEPT ![s] = new], UNCHANGED <<pc, next, trail, aborted>>
  PROVE  RunWork' < RunWork
<1>1. Live' = Live \ {s}
  BY DEF Live, TypeOK
<1>2. Cardinality(Live') = Cardinality(Live) - 1
  BY <1>1, FS_RemoveElement DEF Numbered
<1>3. ToSkip' = ToSkip /\ PartLeft' = PartLeft
  BY DEF ToSkip, PartLeft
<1> QED
  BY <1>2, <1>3 DEF Numbered, RunWork

LEMMA RunWorkRunsDown ==
  ASSUME TypeOK, TypeOK', Located, Skipping, Numbered, Numbered', Next
  PROVE  RunWork' < RunWork
<1> USE DEF progress, collected, control
<1>1. CASE StartScenario \/ SkipScenario
  BY <1>1, StartLowers DEF StartScenario, SkipScenario
<1>2. CASE \E s \in ScenarioIds : ScenarioStep(s) \/ ReporterBreaks(s)
  <2>1. PICK s \in ScenarioIds : ScenarioStep(s) \/ ReporterBreaks(s)
    BY <1>2
  <2>2. /\ s \in Live /\ UNCHANGED <<pc, next, trail, aborted>>
        /\ \E new \in {"ended", "broken"} : state' = [state EXCEPT ![s] = new]
    BY <2>1 DEF ScenarioStep, ScenarioEnds, SkipReported, ReporterBreaks, Live
  <2> QED
    BY <2>2, EndLowers
<1>3. CASE ExternalAbort
  <2>1. ~aborted /\ aborted' /\ UNCHANGED <<pc, next, trail, state>>
    BY <1>3 DEF ExternalAbort
  <2>2. Live' = Live /\ ToSkip' = ToSkip /\ PartLeft' = PartLeft
    BY <2>1 DEF Live, ToSkip, PartLeft
  <2> QED
    BY <2>1, <2>2 DEF Numbered, RunWork
<1>4. CASE RunStarted \/ BeginBatch \/ BatchDone \/ BatchRejects
  <2>1. UNCHANGED <<next, state, aborted, trail>> /\ PartLeft' < PartLeft
    BY <1>4 DEF RunStarted, BeginBatch, BatchDone, BatchRejects, PartLeft
  <2> QED
    BY <2>1, MovesOn
<1>5. CASE LeaveBatches
  <2>1. UNCHANGED <<next, state, aborted>> /\ PartLeft' < PartLeft
    BY <1>5 DEF LeaveBatches, PartLeft
  <2>2. trail = 0 /\ trail' \in Nat /\ NumScenarios \in Nat
    BY <1>5, RunAssumption DEF LeaveBatches, Skipping, TypeOK
  <2>3. ToSkip = NumScenarios + 1
    BY <2>2 DEF ToSkip
  <2>4. ToSkip' <= NumScenarios + 1
    <3>1. \A n, t \in Nat : (IF t <= n THEN n + 1 - t ELSE 0) <= n + 1
      OBVIOUS
    <3>2. ToSkip' = IF trail' <= NumScenarios THEN NumScenarios + 1 - trail' ELSE 0
      BY DEF ToSkip
    <3> QED
      BY <2>2, <3>1, <3>2, Zenon
  <2> QED
    BY <2>1, <2>3, <2>4, MovesOn
<1>6. CASE TrailingSkip \/ TrailingDone \/ TrailingBreaks \/ Summarize \/ RunEnded \/ RunRejects
  <2>1. UNCHANGED <<next, state, aborted, trail>> /\ PartLeft' < PartLeft
    BY <1>6 DEF TrailingSkip, TrailingDone, TrailingBreaks, Summarize, RunEnded, RunRejects,
       PartLeft
  <2> QED
    BY <2>1, MovesOn
<1>7. CASE TrailingReported
  <2>1. UNCHANGED <<next, state, aborted>> /\ PartLeft' = PartLeft + 1
    BY <1>7 DEF TrailingReported, PartLeft
  <2>2. ToSkip' = ToSkip - 1
    BY <1>7, RunAssumption DEF TrailingReported, Skipping, ToSkip, TypeOK
  <2> QED
    BY <2>1, <2>2, MovesOn DEF Numbered
<1> QED
  BY <1>1, <1>2, <1>3, <1>4, <1>5, <1>6, <1>7 DEF Next, Advance, ReporterFailure

(***************************************************************************)
(* A run of NumScenarios scenarios makes no more than                      *)
(* 6 * NumScenarios + 13 steps, whatever ends, fails or aborts: RunWork is *)
(* a number, starts there, and every step lowers it.  The loops of run()   *)
(* over batches and skips do not go round for ever (runner.ts).            *)
(***************************************************************************)
THEOREM RunWorkRunsOut ==
  Spec => /\ RunWork = 6 * NumScenarios + 13
          /\ [](RunWork \in Nat)
          /\ [][RunWork' < RunWork]_vars
<1>1. Init => RunWork = 6 * NumScenarios + 13
  <2> SUFFICES ASSUME Init PROVE RunWork = 6 * NumScenarios + 13
    OBVIOUS
  <2>1. Live = {} /\ PartLeft = 10 /\ ToSkip = NumScenarios + 1 /\ next = 1 /\ ~aborted
    BY RunAssumption DEF Init, Live, PartLeft, ToSkip
  <2> QED
    BY <2>1, FS_EmptySet, RunAssumption DEF RunWork
<1>2. TypeOK => RunWork \in Nat /\ Numbered
  BY WorkIsNumbered DEF Numbered, RunWork
<1>3. /\ TypeOK /\ TypeOK' /\ Located /\ Skipping /\ Numbered /\ Numbered' /\ [Next]_vars
      => [RunWork' < RunWork]_vars
  BY RunWorkRunsDown
<1> QED
  BY <1>1, <1>2, <1>3, TypeCorrect, SkippingAlways, PTL DEF Spec

-----------------------------------------------------------------------------
\* Reporting: whatever the reporter, a run that reports is a run, so that all
\* that is proved of Runner holds of it.

\* Each step that tells the reporter of something is the step it tells of.
LEMMA ReportingStep == [ReportingNext]_allVars => [Next]_vars
<1> SUFFICES ASSUME [ReportingNext]_allVars PROVE [Next]_vars
  OBVIOUS
<1>1. CASE UNCHANGED allVars \/ Next
  BY <1>1 DEF allVars, vars
<1>2. CASE StartsAndTells \/ SkipsAndTells \/ TrailingTells \/ SummarizesAndTells
  BY <1>2 DEF StartsAndTells, SkipsAndTells, TrailingTells, SummarizesAndTells, Next, Advance
<1>3. CASE TrailingIsTold \/ TrailingIsLost \/ RejectsWithReporter
  BY <1>3 DEF TrailingIsTold, TrailingIsLost, RejectsWithReporter, Next, Advance, ReporterFailure
<1>4. CASE BeginsAfterReport \/ EndsAfterReport \/ Quietly \/ Write
  BY <1>4 DEF BeginsAfterReport, EndsAfterReport, Quietly, Write, Next, Advance, ReporterFailure
<1>5. ASSUME NEW s \in ScenarioIds, JsonScenario(s)
      PROVE  [Next]_vars
  BY <1>5 DEF JsonScenario, EndsAndTells, TellsEnd, SkipIsTold, SkipBreaks, Next,
     ScenarioStep, ReporterFailure
<1>6. CASE ExternalAbort
  BY <1>6 DEF Next
<1> QED
  BY <1>1, <1>2, <1>3, <1>4, <1>5, <1>6 DEF ReportingNext, JsonNext, JsonAdvance

\* Reporting adds bookkeeping to a run, by its shape no behaviour.
LEMMA ReportingIsARun == ReportingSpec => Spec
<1>1. ReportingInit => Init
  BY DEF ReportingInit
<1> QED
  BY <1>1, ReportingStep, PTL DEF ReportingSpec, Spec

\* So what was proved of a run holds of one that reports, whatever its reporter
\* does: one result each, batches apart, counters that agree, no start after too
\* many failures, no batch after a callback that failed.
COROLLARY ReportingRuns ==
  ReportingSpec => /\ [](OneResultEach /\ BatchesDoNotOverlap /\ SummaryAgrees)
                   /\ NoStartAfterFailures /\ NoStartAfterBreak
  BY ReportingIsARun, OneResultEachHolds, BatchesDoNotOverlapHolds, SummaryAgreesHolds,
     NoStartAfterFailuresHolds, NoStartAfterBreakHolds, PTL

-----------------------------------------------------------------------------
\* The lines of the JSONReporter, and the Writer's queue of them.
Lines == {RunStart, RunEnd} \union {Start(s) : s \in ScenarioIds} \union {End(s) : s \in ScenarioIds}

\* The stream has what the first writes asked for; after a loss no more comes.
Queued ==
  /\ reporter \in {"json", "other"} /\ lost \in BOOLEAN
  /\ calls \in Seq(Lines) /\ output \in Seq(Lines) /\ settled \in 0 .. Len(calls)
  /\ IF lost THEN Len(output) < settled ELSE Len(output) = settled
  /\ \A i \in DOMAIN output : output[i] = calls[i]

\* Which lines have been asked for, in what order.
Told(s) == \E i, j \in DOMAIN calls : i < j /\ calls[i] = Start(s) /\ calls[j] = End(s)

\* The last line of a scenario has been asked for, or could not be made.
Over(s) == Called(End(s)) \/ s \in unwritable

LinesAsked ==
  /\ Len(calls) > 0 /\ calls[1] = RunStart
  /\ \A s \in ScenarioIds : state[s] # "idle" => Called(Start(s))
  /\ pc = "trailingReport" => Called(Start(trail))
  /\ \A s \in ScenarioIds : Called(End(s)) => Told(s)
  /\ \A s \in ScenarioIds : state[s] = "ended" => Over(s)
  /\ pc \in {"trailing", "trailingReport"} =>
       \A s \in ScenarioIds : s < trail => Over(s)
  /\ pc \notin {"runEnd", "done", "rejected"} => ~Called(RunEnd)

\* Either all is told before runEnd and nothing after it, or a line before
\* runEnd is lost or could not be made, and then runEnd is never written.
AllEnded == \A s \in ScenarioIds : ~Active(s) /\ Called(End(s))
Complete ==
  /\ AllEnded /\ unwritable = {}
  /\ \A i \in DOMAIN calls : calls[i] = RunEnd <=> i = Len(calls)
Cut == ~Written(RunEnd) /\ (lost \/ ~Called(RunEnd))
Failing == lost \/ unwritable # {}

LossStops ==
  /\ (\E s \in ScenarioIds : state[s] = "broken") => Failing
  /\ pc = "summary" => Failing \/ AllEnded
  /\ pc \in {"runEnd", "done"} => Complete \/ Cut
  /\ pc = "done" => Written(RunEnd)

Reported == reporter = "json" => LinesAsked /\ LossStops

LEMMA QueueSizes ==
  ASSUME Queued
  PROVE  /\ Len(calls) \in Nat /\ Len(output) \in Nat /\ settled \in Nat
         /\ Len(output) <= settled /\ settled <= Len(calls)
         /\ DOMAIN calls = 1 .. Len(calls) /\ DOMAIN output = 1 .. Len(output)
<1>1. Len(calls) \in Nat /\ Len(output) \in Nat
      /\ DOMAIN calls = 1 .. Len(calls) /\ DOMAIN output = 1 .. Len(output)
  BY LenProperties DEF Queued
<1>2. Len(output) < settled \/ Len(output) = settled
  BY DEF Queued
<1>3. settled \in 0 .. Len(calls)
  BY DEF Queued
<1>4. settled \in Nat /\ settled <= Len(calls)
  BY <1>1, <1>3
<1>5. Len(output) <= settled
  <2>1. CASE Len(output) = settled
    BY <1>4, <2>1
  <2>2. CASE Len(output) < settled
    BY <1>1, <1>4, <2>2
  <2> QED
    BY <1>2, <2>1, <2>2
<1> QED
  BY <1>1, <1>4, <1>5

\* What asking for a line changes.
LEMMA Asking ==
  ASSUME Queued, NEW line \in Lines, Put(line)
  PROVE  /\ Queued' /\ Len(calls') = Len(calls) + 1
         /\ \A i \in DOMAIN calls : i \in DOMAIN calls' /\ calls'[i] = calls[i]
         /\ DOMAIN calls' = DOMAIN calls \union {Len(calls')}
         /\ calls'[Len(calls')] = line
<1>1. /\ calls' \in Seq(Lines) /\ Len(calls') = Len(calls) + 1 /\ Len(calls) \in Nat
      /\ \A i \in 1 .. Len(calls) : calls'[i] = calls[i]
      /\ calls'[Len(calls) + 1] = line
  BY AppendProperties, LenProperties DEF Queued, Put
<1>2. DOMAIN calls = 1 .. Len(calls) /\ DOMAIN calls' = 1 .. Len(calls')
      /\ DOMAIN output = 1 .. Len(output) /\ Len(output) \in Nat
  BY <1>1, LenProperties DEF Queued
<1>3. reporter' = reporter /\ settled' = settled /\ output' = output /\ lost' = lost
  BY DEF Put
<1>4. settled' \in 0 .. Len(calls')
  BY <1>1, <1>3, QueueSizes
<1>5. \A i \in DOMAIN output' : output'[i] = calls'[i]
  <2>1. \A i \in DOMAIN output : i \in 1 .. Len(calls) /\ output[i] = calls[i]
    BY QueueSizes DEF Queued
  <2> QED
    BY <1>1, <1>3, <2>1
<1>6. Queued'
  BY <1>1, <1>3, <1>4, <1>5 DEF Queued
<1> QED
  BY <1>1, <1>2, <1>6

\* The lines asked for after it are those before it and the new one.
LEMMA AskedFor ==
  ASSUME Queued, NEW line \in Lines, Put(line)
  PROVE  /\ Called(line)'
         /\ \A l : Called(l)' <=> Called(l) \/ l = line
         /\ \A s : Told(s) => Told(s)'
         /\ \A s : line = End(s) /\ Called(Start(s)) => Told(s)'
<1>1. /\ \A i \in DOMAIN calls : i \in DOMAIN calls' /\ calls'[i] = calls[i] /\ i < Len(calls')
      /\ DOMAIN calls' = DOMAIN calls \union {Len(calls')}
      /\ calls'[Len(calls')] = line
  <2>1. \A i \in DOMAIN calls : i < Len(calls) + 1
    BY QueueSizes
  <2>2. /\ Len(calls') = Len(calls) + 1
        /\ \A i \in DOMAIN calls : i \in DOMAIN calls' /\ calls'[i] = calls[i]
        /\ DOMAIN calls' = DOMAIN calls \union {Len(calls')}
        /\ calls'[Len(calls')] = line
    BY Asking
  <2> QED
    BY <2>1, <2>2
<1>2. Called(line)' /\ \A l : Called(l)' <=> Called(l) \/ l = line
  BY <1>1 DEF Called
<1>3. \A s : Told(s) => Told(s)'
  BY <1>1 DEF Told
<1>4. \A s : line = End(s) /\ Called(Start(s)) => Told(s)'
  BY <1>1 DEF Told, Called
<1> QED
  BY <1>2, <1>3, <1>4

\* What the settling of a write changes.
LEMMA Settling ==
  ASSUME Queued, Write
  PROVE  /\ Queued' /\ (lost => lost' /\ output' = output)
         /\ \A l : Written(l) => Written(l)'
<1>1. /\ settled < Len(calls) /\ settled' = settled + 1
      /\ calls' = calls /\ reporter' = reporter
      /\ settled \in Nat /\ Len(calls) \in Nat /\ Len(output) \in Nat
      /\ DOMAIN calls = 1 .. Len(calls) /\ DOMAIN output = 1 .. Len(output)
  BY LenProperties DEF Write, Queued
<1>2. CASE ~lost /\ output' = Append(output, calls[settled + 1]) /\ lost' = lost
  <2>1. calls[settled + 1] \in Lines
    <3>1. calls \in Seq(Lines)
      BY DEF Queued
    <3>2. settled + 1 \in 1 .. Len(calls)
      BY <1>1
    <3> QED
      BY <3>1, <3>2, ElementOfSeq
  <2>2. /\ output' \in Seq(Lines) /\ Len(output') = Len(output) + 1
        /\ \A i \in 1 .. Len(output) : output'[i] = output[i]
        /\ output'[Len(output) + 1] = calls[settled + 1]
        /\ DOMAIN output' = 1 .. Len(output) + 1
    BY <1>1, <1>2, <2>1, AppendProperties, LenProperties DEF Queued
  <2>3. Len(output) = settled
    BY <1>2 DEF Queued
  <2>4. \A i \in DOMAIN output' : output'[i] = calls'[i]
    BY <1>1, <2>2, <2>3 DEF Queued
  <2>5. Queued'
    BY <1>1, <1>2, <2>2, <2>3, <2>4 DEF Queued
  <2>6. \A l : Written(l) => Written(l)'
    BY <1>1, <2>2 DEF Written
  <2> QED
    BY <1>2, <2>5, <2>6
<1>3. CASE lost' = TRUE /\ output' = output
  <2>1. Len(output') < settled'
    BY <1>1, <1>3, QueueSizes
  <2>2. settled' \in 0 .. Len(calls')
    BY <1>1
  <2>3. Queued'
    BY <1>1, <1>3, <2>1, <2>2 DEF Queued
  <2> QED
    BY <1>3, <2>3 DEF Written
<1> QED
  BY <1>2, <1>3 DEF Write

\* A write can only have rejected if a line was lost.
LEMMA RejectedIsLost ==
  ASSUME Queued, NEW l, Rejected(l)
  PROVE  lost
<1> SUFFICES ASSUME ~lost PROVE FALSE
  OBVIOUS
<1>1. PICK i \in 1 .. settled : calls[i] = l
  BY DEF Rejected, Settled
<1>2. i \in DOMAIN output
  BY LenProperties DEF Queued
<1> QED
  BY <1>1, <1>2 DEF Queued, Rejected, Written

LEMMA WrittenIsCalled ==
  ASSUME Queued, NEW l, Written(l)
  PROVE  Called(l)
<1>1. PICK i \in DOMAIN output : output[i] = l
  BY DEF Written
<1>2. i \in DOMAIN calls
  BY LenProperties DEF Queued
<1> QED
  BY <1>1, <1>2 DEF Queued, Called

LEMMA RunEndIsCalled == Queued => (Written(RunEnd) => Called(RunEnd))
  BY WrittenIsCalled

\* The lines are told apart by their types.
LEMMA LinesDiffer ==
  \A s, t : /\ Start(s) # End(t) /\ Start(s) # RunEnd /\ End(s) # RunEnd
            /\ RunStart # RunEnd /\ RunStart # End(s)
BY DEF Start, End, RunStart, RunEnd

\* A line asked for stays asked for, and nothing comes before runStart.
LEMMA AskedStays ==
  ASSUME Queued, Len(calls) > 0, calls[1] = RunStart,
         calls' = calls \/ \E line \in Lines : Put(line)
  PROVE  /\ Len(calls') > 0 /\ calls'[1] = RunStart
         /\ \A l : Called(l) => Called(l)'
         /\ \A s : Told(s) => Told(s)'
<1>1. CASE calls' = calls
  BY <1>1 DEF Called, Told
<1>2. ASSUME NEW line \in Lines, Put(line)
      PROVE  /\ Len(calls') > 0 /\ calls'[1] = RunStart
             /\ \A l : Called(l) => Called(l)'
             /\ \A s : Told(s) => Told(s)'
  <2>1. Len(calls') > 0 /\ calls'[1] = RunStart
    BY <1>2, Asking, QueueSizes
  <2> QED
    BY <1>2, <2>1, AskedFor
<1> QED
  BY <1>1, <1>2

\* Which lines have been asked for, after a step of a run with the JSONReporter.
LEMMA LinesAskedKept ==
  ASSUME TypeOK, Located, Collected, Collected', Queued, LinesAsked,
         JsonNext \/ UNCHANGED allVars
  PROVE  LinesAsked'
<1> USE RunAssumption DEF progress, collected, control, report
<1>1. ASSUME calls' = calls \/ \E line \in Lines : Put(line),
             \A s \in ScenarioIds : state'[s] # "idle" => state[s] # "idle" \/ Called(Start(s))',
             pc' = "trailingReport" => Called(Start(trail))',
             \A s \in ScenarioIds : Called(End(s))' => Called(End(s)) \/ Told(s)',
             \A s \in ScenarioIds : state'[s] = "ended" => state[s] = "ended" \/ Over(s)',
             pc' \in {"trailing", "trailingReport"} =>
               \A s \in ScenarioIds : s < trail' => Over(s)',
             unwritable \subseteq unwritable',
             pc' \notin {"runEnd", "done", "rejected"} => ~Called(RunEnd)'
      PROVE  LinesAsked'
  <2>1. /\ Len(calls') > 0 /\ calls'[1] = RunStart
        /\ \A l : Called(l) => Called(l)'
        /\ \A s : Told(s) => Told(s)'
    BY <1>1, AskedStays DEF LinesAsked
  <2>2. \A s \in ScenarioIds : state'[s] # "idle" => Called(Start(s))'
    BY <1>1, <2>1 DEF LinesAsked
  <2>3. \A s \in ScenarioIds : Called(End(s))' => Told(s)'
    BY <1>1, <2>1 DEF LinesAsked
  <2>4. \A s \in ScenarioIds : state'[s] = "ended" => Over(s)'
    BY <1>1, <2>1 DEF LinesAsked, Over
  <2> QED
    BY <1>1, <2>1, <2>2, <2>3, <2>4 DEF LinesAsked
<1>b. \A line : Put(line) => unwritable' = unwritable
  BY DEF Put
<1>2. CASE StartsAndTells \/ SkipsAndTells
  <2> DEFINE NextIs(n) == /\ Put(Start(n)) /\ pc = "starting"
                          /\ pc' \in {"waiting", "starting"}
                          /\ \E new \in {"running", "reporting"} : state' = [state EXCEPT ![n] = new]
  <2>0. next \in ScenarioIds /\ NextIs(next)
    BY <1>2 DEF StartsAndTells, SkipsAndTells, StartScenario, SkipScenario, Started,
       TypeOK, Located, ScenarioIds
  <2>1. PICK n \in ScenarioIds : NextIs(n)
    BY <2>0
  <2>2. Start(n) \in Lines
    BY DEF Lines
  <2>3. /\ Called(Start(n))' /\ \A l : Called(l)' <=> Called(l) \/ l = Start(n)
    BY <2>1, <2>2, AskedFor
  <2>4. \A s \in ScenarioIds : s # n => state'[s] = state[s]
    BY <2>1 DEF TypeOK
  <2>5. state'[n] # "ended"
    BY <2>1 DEF TypeOK
  <2>6. ~Called(RunEnd)' /\ \A s \in ScenarioIds : Called(End(s))' => Called(End(s))
    BY <2>1, <2>3, LinesDiffer DEF LinesAsked
  <2> QED
    BY <1>1, <1>b, <2>1, <2>2, <2>3, <2>4, <2>5, <2>6
<1>3. CASE TrailingTells
  <2>0. /\ trail \in ScenarioIds /\ Put(Start(trail)) /\ pc = "trailing"
        /\ pc' = "trailingReport" /\ trail' = trail /\ state' = state
    BY <1>3 DEF TrailingTells, TrailingSkip, TypeOK, Located, ScenarioIds
  <2>1. PICK n \in ScenarioIds : n = trail /\ n = trail' /\ Put(Start(n))
    BY <2>0
  <2>2. Start(n) \in Lines
    BY DEF Lines
  <2>3. /\ Called(Start(n))' /\ \A l : Called(l)' <=> Called(l) \/ l = Start(n)
    BY <2>1, <2>2, AskedFor
  <2>4. ~Called(RunEnd)' /\ \A s \in ScenarioIds : Called(End(s))' => Called(End(s))
    BY <2>0, <2>3, LinesDiffer DEF LinesAsked
  <2>5. \A s \in ScenarioIds : s < trail' => Over(s)'
    BY <1>b, <2>0, <2>3 DEF LinesAsked, Over
  <2>6. Called(Start(trail))'
    BY <2>1, <2>3
  <2> QED
    BY <1>1, <1>b, <2>0, <2>1, <2>2, <2>4, <2>5, <2>6
<1>4. CASE TrailingIsTold
  <2>1. /\ pc = "trailingReport" /\ pc' = "trailing" /\ trail' = trail + 1
        /\ state' = state /\ calls' = calls /\ unwritable' = unwritable
        /\ trail \in Nat /\ Called(End(trail))
    BY <1>4, WrittenIsCalled DEF TrailingIsTold, TrailingReported, TypeOK
  <2>2. \A s \in ScenarioIds : s < trail' => s < trail \/ s = trail
    BY <2>1 DEF ScenarioIds
  <2>3. \A l : Called(l)' <=> Called(l)
    BY <2>1 DEF Called
  <2> QED
    BY <1>1, <2>1, <2>2, <2>3 DEF LinesAsked, Over
<1>5. ASSUME UNCHANGED <<calls, trail>>, unwritable \subseteq unwritable',
             \A s \in ScenarioIds : \/ state'[s] = state[s]
                                    \/ state'[s] = "broken" /\ state[s] # "idle",
             pc' \in {"trailing", "trailingReport"} => pc' = pc,
             pc \in {"runEnd", "done", "rejected"} => pc' \in {"runEnd", "done", "rejected"}
      PROVE  LinesAsked'
  <2>1. \A l : Called(l)' <=> Called(l)
    BY <1>5 DEF Called
  <2> QED
    BY <1>1, <1>5, <2>1 DEF LinesAsked, Over
<1>6. CASE TrailingIsLost \/ BeginsAfterReport \/ EndsAfterReport \/ RejectsWithReporter
  <2>1. CASE TrailingIsLost
    BY <1>5, <2>1 DEF TrailingIsLost, TrailingBreaks, LineFails, PutThrows
  <2>2. CASE BeginsAfterReport \/ EndsAfterReport \/ RejectsWithReporter
    BY <1>5, <2>2 DEF BeginsAfterReport, RunStarted, EndsAfterReport, RunEnded,
       RejectsWithReporter, RunRejects
  <2> QED
    BY <1>6, <2>1, <2>2
<1>7. CASE SummarizesAndTells
  <2>1. /\ pc' = "runEnd" /\ state' = state /\ trail' = trail
        /\ Put(RunEnd) \/ UNCHANGED report
    BY <1>7 DEF SummarizesAndTells, Summarize
  <2>2. RunEnd \in Lines
    BY DEF Lines
  <2>3. CASE Put(RunEnd)
    <3>1. \A l : Called(l)' <=> Called(l) \/ l = RunEnd
      BY <2>2, <2>3, AskedFor
    <3>2. \A s \in ScenarioIds : Called(End(s))' => Called(End(s))
      BY <3>1, LinesDiffer
    <3> QED
      BY <1>1, <1>b, <2>1, <2>2, <2>3, <3>2
  <2>4. CASE UNCHANGED report
    BY <1>5, <2>1, <2>4
  <2> QED
    BY <2>1, <2>3, <2>4
<1>8. CASE LeaveBatches /\ UNCHANGED report
  <2>1. /\ pc = "batches" /\ pc' = "trailing" /\ state' = state /\ results' = results
        /\ calls' = calls /\ unwritable' = unwritable
    BY <1>8 DEF LeaveBatches
  <2>2. \A l : Called(l)' <=> Called(l)
    BY <2>1 DEF Called
  <2>3. ASSUME NEW s \in ScenarioIds, s < trail' PROVE Over(s)'
    <3>1. trail' \in Nat /\ s \in Covered' /\ Covered' = Covered
      <4>1. Covered' = 1 .. trail' - 1 /\ Covered' = Covered
        BY <2>1 DEF Collected, Covered
      <4>2. trail' \in Nat
        BY <1>8, LenProperties DEF LeaveBatches, TypeOK
      <4>3. \A n \in Nat : s < n => s \in 1 .. n - 1
        BY DEF ScenarioIds
      <4>4. s \in 1 .. trail' - 1
        BY <2>3, <4>2, <4>3
      <4> QED
        BY <4>1, <4>2, <4>4
    <3>2. state[s] = "ended"
      BY <2>1, <3>1 DEF Collected, Located, Active, TypeOK
    <3> QED
      BY <2>1, <2>2, <3>2 DEF LinesAsked, Over
  <2> QED
    BY <1>1, <2>1, <2>2, <2>3 DEF LinesAsked
<1>9. CASE Quietly
  <2>1. CASE (BeginBatch \/ BatchDone \/ BatchRejects \/ TrailingDone) /\ UNCHANGED report
    BY <1>5, <2>1 DEF BeginBatch, BatchDone, BatchRejects, TrailingDone
  <2> QED
    BY <1>8, <1>9, <2>1 DEF Quietly
<1>10. CASE Write \/ (ExternalAbort /\ UNCHANGED report) \/ UNCHANGED allVars
  BY <1>5, <1>10 DEF Write, ExternalAbort, allVars, vars
<1>11. ASSUME NEW s \in ScenarioIds, Put(End(s)),
              (EndsAndTells(s) \/ TellsEnd(s))
       PROVE  LinesAsked'
  <2>1. /\ Called(Start(s)) /\ pc' = pc /\ trail' = trail
        /\ state' = state \/ state' = [state EXCEPT ![s] = "ended"]
    <3>1. CASE EndsAndTells(s)
      BY <3>1 DEF EndsAndTells, ScenarioEnds, LinesAsked
    <3>2. CASE TellsEnd(s)
      BY <3>2, WrittenIsCalled DEF TellsEnd, EndIsDue, vars
    <3> QED
      BY <1>11, <3>1, <3>2
  <2>2. End(s) \in Lines
    BY DEF Lines
  <2>3. /\ Called(End(s))' /\ Told(s)' /\ \A l : Called(l)' <=> Called(l) \/ l = End(s)
    BY <1>11, <2>1, <2>2, AskedFor
  <2>4. \A t \in ScenarioIds : t # s => state'[t] = state[t]
    BY <2>1 DEF TypeOK
  <2>5. state'[s] # "idle" => state[s] # "idle" \/ Called(Start(s))'
    BY <2>1, <2>3
  <2>6. \A t \in ScenarioIds : Called(End(t))' => Called(End(t)) \/ Told(t)'
    <3>1. \A t : End(t) = End(s) => t = s
      BY DEF End
    <3> QED
      BY <2>3, <3>1
  <2>7. pc' \notin {"runEnd", "done", "rejected"} => ~Called(RunEnd)'
    BY <2>1, <2>3, LinesDiffer DEF LinesAsked
  <2>8. pc' \in {"trailing", "trailingReport"} =>
          \A t \in ScenarioIds : t < trail' => Over(t)'
    BY <1>b, <1>11, <2>1, <2>3 DEF LinesAsked, Over
  <2>9. pc' = "trailingReport" => Called(Start(trail))'
    BY <2>1, <2>3 DEF LinesAsked
  <2> QED
    BY <1>1, <1>b, <1>11, <2>1, <2>2, <2>3, <2>4, <2>5, <2>6, <2>7, <2>8, <2>9 DEF Over
<1>12. ASSUME NEW s \in ScenarioIds, SkipIsTold(s) \/ SkipBreaks(s)
       PROVE  LinesAsked'
  <2>1. CASE SkipBreaks(s)
    <3>1. /\ UNCHANGED <<calls, pc, trail>> /\ unwritable \subseteq unwritable'
          /\ state[s] = "reporting" /\ state' = [state EXCEPT ![s] = "broken"]
      BY <2>1 DEF SkipBreaks, ReporterBreaks, LineFails, PutThrows
    <3>2. \A t \in ScenarioIds : \/ state'[t] = state[t]
                                 \/ state'[t] = "broken" /\ state[t] # "idle"
      BY <3>1 DEF TypeOK
    <3> QED
      BY <1>5, <3>1, <3>2
  <2>2. CASE SkipIsTold(s)
    <3>1. /\ calls' = calls /\ unwritable' = unwritable /\ pc' = pc /\ trail' = trail
          /\ state[s] = "reporting" /\ state' = [state EXCEPT ![s] = "ended"] /\ Called(End(s))
      BY <2>2, WrittenIsCalled DEF SkipIsTold, SkipReported
    <3>2. \A l : Called(l)' <=> Called(l)
      BY <3>1 DEF Called
    <3>3. \A t \in ScenarioIds : t # s => state'[t] = state[t]
      BY <3>1 DEF TypeOK
    <3> QED
      BY <1>1, <3>1, <3>2, <3>3 DEF LinesAsked, Over
  <2> QED
    BY <1>12, <2>1, <2>2
\* The result of a scenario that ends cannot be written.
<1>c. ASSUME NEW s \in ScenarioIds, EndsAndTells(s), PutThrows(s)
      PROVE  LinesAsked'
  <2>1. /\ calls' = calls /\ pc' = pc /\ trail' = trail /\ state[s] = "running"
        /\ state' = [state EXCEPT ![s] = "ended"] /\ unwritable' = unwritable \union {s}
    BY <1>c DEF EndsAndTells, ScenarioEnds, PutThrows
  <2>2. \A l : Called(l)' <=> Called(l)
    BY <2>1 DEF Called
  <2>3. \A t \in ScenarioIds : t # s => state'[t] = state[t]
    BY <2>1 DEF TypeOK
  <2> QED
    BY <1>1, <2>1, <2>2, <2>3 DEF LinesAsked, Over
<1>13. ASSUME NEW s \in ScenarioIds, JsonScenario(s) PROVE LinesAsked'
  BY <1>11, <1>12, <1>13, <1>c DEF JsonScenario, EndsAndTells, TellsEnd
<1>14. CASE JsonAdvance
  BY <1>2, <1>3, <1>4, <1>6, <1>7, <1>9, <1>10, <1>14 DEF JsonAdvance
<1> QED
  BY <1>10, <1>13, <1>14 DEF JsonNext

\* Whether a line was lost before runEnd, after such a step.
LEMMA LossStopsKept ==
  ASSUME TypeOK, Located, Queued, Queued', LinesAsked, LinesAsked', LossStops,
         JsonNext \/ UNCHANGED allVars
  PROVE  LossStops'
<1> USE RunAssumption DEF progress, collected, control, report
<1>0. \A s \in ScenarioIds : Active(s) => ~AllEnded
  BY DEF AllEnded
<1>1. ASSUME lost' = lost, UNCHANGED output, unwritable \subseteq unwritable',
             Called(RunEnd)' => Called(RunEnd),
             \A s \in ScenarioIds : state'[s] = "broken" => state[s] = "broken" \/ Failing',
             pc' \in {"summary", "runEnd", "done"} => pc' = pc,
             \E s \in ScenarioIds : Active(s)
      PROVE  LossStops'
  <2>1. Failing => Failing'
    BY <1>1 DEF Failing
  <2>2. pc \in {"runEnd", "done"} => Cut /\ Cut'
    BY <1>0, <1>1 DEF LossStops, Complete, Cut, Written
  <2> QED
    BY <1>0, <1>1, <2>1, <2>2 DEF LossStops, Written
\* Whichever way the lines of a skip fail, something is missing.
<1>d. ASSUME NEW n, LineFails(n)
      PROVE  /\ Failing' /\ UNCHANGED <<lost, output, calls>>
             /\ unwritable \subseteq unwritable'
  <2>1. CASE (Rejected(Start(n)) \/ Rejected(End(n))) /\ UNCHANGED report
    <3>1. lost
      BY <2>1, RejectedIsLost
    <3> QED
      BY <2>1, <3>1 DEF Failing
  <2>2. CASE PutThrows(n)
    BY <2>2 DEF PutThrows, Failing
  <2> QED
    BY <1>d, <2>1, <2>2 DEF LineFails
<1>2. CASE StartsAndTells \/ SkipsAndTells
  <2>1. /\ next \in ScenarioIds /\ pc' \in {"waiting", "starting"}
        /\ lost' = lost /\ unwritable' = unwritable
        /\ \E new \in {"running", "reporting"} : state' = [state EXCEPT ![next] = new]
    BY <1>2 DEF StartsAndTells, SkipsAndTells, StartScenario, SkipScenario, Started,
       TypeOK, Located, ScenarioIds, Put
  <2>2. \A s \in ScenarioIds : state'[s] = "broken" => state[s] = "broken"
    BY <2>1 DEF TypeOK
  <2> QED
    BY <2>1, <2>2 DEF LossStops, Failing
<1>3. ASSUME UNCHANGED <<lost, unwritable, state>>,
             pc' \notin {"summary", "runEnd", "done"}
      PROVE  LossStops'
  BY <1>3 DEF LossStops, Failing
<1>4. CASE TrailingTells \/ TrailingIsTold \/ BeginsAfterReport \/ RejectsWithReporter
  BY <1>3, <1>4 DEF TrailingTells, TrailingSkip, TrailingIsTold, TrailingReported,
     BeginsAfterReport, RunStarted, RejectsWithReporter, RunRejects, Put
<1>5. CASE (BeginBatch \/ LeaveBatches \/ BatchDone) /\ UNCHANGED report
  BY <1>3, <1>5 DEF BeginBatch, LeaveBatches, BatchDone
<1>6. CASE TrailingIsLost \/ (BatchRejects /\ UNCHANGED report)
  <2>1. pc' = "summary" /\ state' = state
    BY <1>6 DEF TrailingIsLost, TrailingBreaks, BatchRejects
  <2>2. Failing'
    <3>1. CASE TrailingIsLost
      <4>1. LineFails(trail)
        BY <3>1 DEF TrailingIsLost
      <4> QED
        BY <4>1, <1>d
    <3>2. CASE BatchRejects /\ UNCHANGED report
      BY <3>2 DEF BatchRejects, Batch, LossStops, Failing
    <3> QED
      BY <1>6, <3>1, <3>2
  <2> QED
    BY <2>1, <2>2 DEF LossStops
<1>7. CASE TrailingDone /\ UNCHANGED report
  <2>1. /\ pc = "trailing" /\ pc' = "summary" /\ trail > NumScenarios
        /\ state' = state /\ lost' = lost /\ calls' = calls /\ unwritable' = unwritable
        /\ trail \in Nat
    BY <1>7 DEF TrailingDone, TypeOK
  <2>2. \A s \in ScenarioIds : ~Active(s) /\ Over(s)
    BY <2>1 DEF Located, LinesAsked, ScenarioIds
  <2>3. Failing' \/ AllEnded'
    BY <2>1, <2>2 DEF AllEnded, Active, Called, Over, Failing
  <2> QED
    BY <2>1, <2>2, <2>3 DEF LossStops, Active
<1>8. CASE SummarizesAndTells
  <2>1. /\ pc = "summary" /\ pc' = "runEnd" /\ state' = state
        /\ IF unwritable = {} THEN Put(RunEnd) ELSE UNCHANGED report
    BY <1>8 DEF SummarizesAndTells, Summarize
  <2>2. ~Called(RunEnd) /\ ~Written(RunEnd)
    BY <2>1, WrittenIsCalled DEF LinesAsked
  <2>3. lost' = lost /\ output' = output /\ unwritable' = unwritable
    BY <2>1 DEF Put
  <2>4. CASE unwritable # {}
    BY <2>1, <2>2, <2>3, <2>4 DEF LossStops, Cut, Written, Called, Failing
  <2>5. CASE lost
    BY <2>1, <2>2, <2>3, <2>5 DEF LossStops, Cut, Written, Failing
  <2>6. CASE unwritable = {} /\ ~lost
    <3>1. RunEnd \in Lines /\ Put(RunEnd) /\ AllEnded
      BY <2>1, <2>6 DEF Lines, LossStops, Failing
    <3>2. \A l : Called(l) => Called(l)'
      BY <3>1, AskedFor
    <3>3. AllEnded'
      BY <2>1, <3>1, <3>2 DEF AllEnded, Active
    <3>4. /\ Len(calls') = Len(calls) + 1 /\ calls'[Len(calls')] = RunEnd
          /\ \A i \in DOMAIN calls : calls'[i] = calls[i]
          /\ DOMAIN calls' = DOMAIN calls \union {Len(calls')}
          /\ DOMAIN calls = 1 .. Len(calls) /\ Len(calls) \in Nat
      BY <3>1, Asking, QueueSizes
    <3>5. \A i \in DOMAIN calls : calls[i] # RunEnd
      BY <2>2 DEF Called
    <3>6. \A i \in DOMAIN calls' : calls'[i] = RunEnd <=> i = Len(calls')
      BY <3>4, <3>5
    <3>7. Complete'
      BY <2>3, <2>6, <3>3, <3>6 DEF Complete
    <3>8. \A s \in ScenarioIds : state'[s] # "broken"
      BY <3>3 DEF AllEnded, Active
    <3> QED
      BY <2>1, <3>7, <3>8 DEF LossStops
  <2> QED
    BY <2>4, <2>5, <2>6
<1>9. CASE EndsAfterReport
  <2>1. /\ pc = "runEnd" /\ pc' = "done" /\ Written(RunEnd) /\ state' = state
        /\ UNCHANGED <<calls, output, lost, unwritable>>
    BY <1>9 DEF EndsAfterReport, RunEnded
  <2>2. (Complete \/ Cut)'
    BY <2>1 DEF LossStops, Complete, Cut, AllEnded, Active, Called, Written
  <2> QED
    BY <2>1, <2>2 DEF LossStops, Written, Failing
<1>10. CASE Write
  <2>1. /\ lost => lost' /\ output' = output
        /\ \A l : Written(l) => Written(l)'
        /\ UNCHANGED <<pc, state, calls, unwritable>>
    BY <1>10, Settling DEF Write, vars
  <2>2. AllEnded => AllEnded'
    BY <2>1 DEF AllEnded, Active, Called
  <2>3. Complete => Complete'
    BY <2>1, <2>2 DEF Complete
  <2>4. Cut => Cut'
    <3>1. Written(RunEnd)' => Called(RunEnd)'
      BY RunEndIsCalled, PTL
    <3> QED
      BY <2>1, <3>1 DEF Cut, Written, Called
  <2>5. Written(RunEnd) => Written(RunEnd)'
    BY <2>1
  <2> QED
    BY <2>1, <2>2, <2>3, <2>4, <2>5 DEF LossStops, Failing
<1>11. ASSUME NEW s \in ScenarioIds, JsonScenario(s) PROVE LossStops'
  <2>1. CASE SkipBreaks(s)
    <3>1. LineFails(s) /\ pc' = pc /\ Active(s)
      BY <2>1 DEF SkipBreaks, ReporterBreaks, Active
    <3>2. Called(RunEnd)' => Called(RunEnd)
      BY <1>d, <3>1 DEF Called
    <3> QED
      BY <1>1, <1>d, <3>1, <3>2
  <2>2. CASE TellsEnd(s) /\ pc = "trailingReport"
    BY <1>3, <2>2 DEF TellsEnd, vars, Put
  <2>3. CASE EndsAndTells(s) \/ SkipIsTold(s) \/ (TellsEnd(s) /\ pc # "trailingReport")
    <3>1. /\ lost' = lost /\ output' = output /\ pc' = pc /\ Active(s)
          /\ unwritable \subseteq unwritable' /\ (Put(End(s)) \/ calls' = calls)
          /\ state' = state \/ state' = [state EXCEPT ![s] = "ended"]
      BY <2>3 DEF EndsAndTells, ScenarioEnds, SkipIsTold, SkipReported, TellsEnd, Put,
         PutThrows, vars, Active
    <3>2. \A t \in ScenarioIds : state'[t] = "broken" => state[t] = "broken"
      BY <3>1 DEF TypeOK
    <3>3. Called(RunEnd)' => Called(RunEnd)
      <4>1. End(s) \in Lines /\ RunEnd # End(s)
        BY LinesDiffer DEF Lines
      <4>2. Put(End(s)) => (Called(RunEnd)' => Called(RunEnd))
        BY <4>1, AskedFor
      <4> QED
        BY <3>1, <4>2 DEF Called
    <3> QED
      BY <1>1, <3>1, <3>2, <3>3
  <2> QED
    BY <1>11, <2>1, <2>2, <2>3 DEF JsonScenario
<1>12. CASE (ExternalAbort /\ UNCHANGED report) \/ UNCHANGED allVars
  <2>1. UNCHANGED <<pc, state, calls, output, lost, unwritable>>
    BY <1>12 DEF ExternalAbort, allVars, vars
  <2> QED
    BY <2>1 DEF LossStops, Failing, Complete, Cut, AllEnded, Active, Called, Written
<1>13. CASE JsonAdvance
  BY <1>2, <1>4, <1>5, <1>6, <1>7, <1>8, <1>9, <1>10, <1>13 DEF JsonAdvance, Quietly
<1> QED
  BY <1>11, <1>12, <1>13 DEF JsonNext

\* The queue stays a queue of lines.
LEMMA QueuedKept ==
  ASSUME TypeOK, Located, Queued, [ReportingNext]_allVars
  PROVE  Queued'
<1> USE RunAssumption
<1>1. CASE UNCHANGED report
  BY <1>1 DEF report, Queued
<1>q. ASSUME NEW n, PutThrows(n) PROVE Queued'
  BY <1>q DEF PutThrows, Queued
<1>2. ASSUME NEW s \in ScenarioIds, Put(Start(s)) \/ Put(End(s)) PROVE Queued'
  <2>1. Start(s) \in Lines /\ End(s) \in Lines
    BY DEF Lines
  <2> QED
    BY <1>2, <2>1, Asking
<1>3. CASE StartsAndTells \/ SkipsAndTells
  <2>1. next \in ScenarioIds /\ Put(Start(next))
    BY <1>3 DEF StartsAndTells, SkipsAndTells, StartScenario, SkipScenario, Started,
       TypeOK, Located, ScenarioIds
  <2>2. PICK s \in ScenarioIds : Put(Start(s))
    BY <2>1
  <2> QED
    BY <1>2, <2>2
<1>4. CASE TrailingTells
  <2>1. trail \in ScenarioIds /\ Put(Start(trail))
    BY <1>4 DEF TrailingTells, TrailingSkip, TypeOK, Located, ScenarioIds
  <2>2. PICK s \in ScenarioIds : Put(Start(s))
    BY <2>1
  <2> QED
    BY <1>2, <2>2
<1>5. CASE SummarizesAndTells
  <2>1. RunEnd \in Lines
    BY DEF Lines
  <2> QED
    BY <1>1, <1>5, <2>1, Asking DEF SummarizesAndTells
<1>6. CASE Write
  BY <1>6, Settling
<1>7. ASSUME NEW s \in ScenarioIds, EndsAndTells(s) \/ TellsEnd(s) PROVE Queued'
  BY <1>2, <1>7, <1>q DEF EndsAndTells, TellsEnd
<1>8. CASE TrailingIsTold \/ TrailingIsLost \/ BeginsAfterReport \/ EndsAfterReport
  BY <1>1, <1>8, <1>q DEF TrailingIsTold, TrailingIsLost, LineFails, BeginsAfterReport,
     EndsAfterReport
<1>9. CASE RejectsWithReporter \/ Quietly
  BY <1>1, <1>9 DEF RejectsWithReporter, Quietly
<1>10. ASSUME NEW s \in ScenarioIds, SkipIsTold(s) \/ SkipBreaks(s) PROVE Queued'
  BY <1>1, <1>10, <1>q DEF SkipIsTold, SkipBreaks, LineFails
<1>11. CASE UNCHANGED allVars
  BY <1>1, <1>11 DEF allVars, report
<1>12. ASSUME NEW s \in ScenarioIds, JsonScenario(s) PROVE Queued'
  BY <1>7, <1>10, <1>12 DEF JsonScenario
<1>13. CASE JsonAdvance
  BY <1>3, <1>4, <1>5, <1>6, <1>8, <1>9, <1>13 DEF JsonAdvance
<1> QED
  BY <1>1, <1>11, <1>12, <1>13 DEF ReportingNext, JsonNext

LEMMA ReportedAlways == ReportingSpec => [](Queued /\ Reported)
<1>1. ReportingInit => Queued /\ Reported
  <2> SUFFICES ASSUME ReportingInit PROVE Queued /\ Reported
    OBVIOUS
  <2>1. /\ output = <<>> /\ settled = 0 /\ lost = FALSE /\ pc = "runStart"
        /\ reporter \in {"json", "other"}
        /\ \A s \in ScenarioIds : state[s] = "idle"
    BY DEF ReportingInit, Init
  <2>2. RunStart \in Lines
    BY DEF Lines
  <2>3. CASE reporter = "json"
    <3>1. calls = <<RunStart>>
      BY <2>3 DEF ReportingInit
    <3>2. Queued
      <4>1. /\ calls \in Seq(Lines) /\ settled \in 0 .. Len(calls)
        BY <2>1, <2>2, <3>1
      <4>2. output \in Seq(Lines) /\ Len(output) = 0 /\ DOMAIN output = {}
        BY <2>1, EmptySeq
      <4> QED
        BY <2>1, <4>1, <4>2 DEF Queued
    <3>3. \A l : Called(l) => l = RunStart
      BY <3>1 DEF Called
    <3>4. LinesAsked
      BY <2>1, <3>1, <3>3, LinesDiffer DEF LinesAsked
    <3>5. LossStops
      BY <2>1 DEF LossStops
    <3> QED
      BY <3>2, <3>4, <3>5 DEF Reported
  <2>4. CASE reporter = "other"
    <3>1. calls = <<>>
      BY <2>4 DEF ReportingInit
    <3>2. output \in Seq(Lines) /\ Len(output) = 0 /\ DOMAIN output = {}
      BY <2>1, EmptySeq
    <3>3. calls \in Seq(Lines) /\ settled \in 0 .. Len(calls)
      BY <2>1, <3>1, <3>2
    <3>4. Queued
      BY <2>1, <3>2, <3>3 DEF Queued
    <3> QED
      BY <2>4, <3>4 DEF Reported
  <2> QED
    BY <2>1, <2>3, <2>4
<1>2. ASSUME TypeOK, Located, Collected, Collected', Queued, Reported, [ReportingNext]_allVars
      PROVE  Queued' /\ Reported'
  <2>1. Queued'
    BY <1>2, QueuedKept
  <2>2. reporter' = reporter
    <3>1. CASE UNCHANGED report
      BY <3>1 DEF report
    <3>2. CASE JsonNext
      BY <3>1, <3>2 DEF JsonNext, JsonAdvance, JsonScenario, StartsAndTells, SkipsAndTells,
         TrailingTells, TrailingIsTold, TrailingIsLost, BeginsAfterReport, SummarizesAndTells,
         EndsAfterReport, RejectsWithReporter, Quietly, Write, Put, EndsAndTells, TellsEnd,
         SkipIsTold, SkipBreaks, LineFails, PutThrows
    <3> QED
      BY <1>2, <3>1, <3>2 DEF ReportingNext, allVars, report
  <2>3. ASSUME reporter = "json" PROVE LinesAsked' /\ LossStops'
    <3>1. JsonNext \/ UNCHANGED allVars
      BY <1>2, <2>3 DEF ReportingNext
    <3>2. LinesAsked /\ LossStops
      BY <1>2, <2>3 DEF Reported
    <3>3. LinesAsked'
      BY <1>2, <3>1, <3>2, LinesAskedKept
    <3> QED
      BY <1>2, <2>1, <3>1, <3>2, <3>3, LossStopsKept
  <2> QED
    BY <2>1, <2>2, <2>3 DEF Reported
<1>3. ReportingSpec => [](TypeOK /\ Located /\ Collected)
  BY ReportingIsARun, AllCollected
<1> QED
  BY <1>1, <1>2, <1>3, PTL DEF ReportingSpec

\* When run() resolves, the stream has taken each line that was asked for, in
\* order, no write is outstanding or has failed, and each line could be made: onRunEnd is awaited, and
\* its promise is chained to all others (Writer.write).
THEOREM ResolvedRunLosesNothing ==
  ReportingSpec => [](reporter = "json" /\ pc = "done" =>
                        /\ output = calls /\ settled = Len(calls)
                        /\ ~lost /\ unwritable = {})
<1>1. ASSUME Queued, Reported, reporter = "json", pc = "done"
      PROVE  output = calls /\ settled = Len(calls) /\ ~lost /\ unwritable = {}
  <2>1. Written(RunEnd) /\ Complete
    BY <1>1 DEF Reported, LossStops, Cut
  <2>2. PICK i \in DOMAIN output : output[i] = RunEnd
    BY <2>1 DEF Written
  <2>3. i \in DOMAIN calls /\ calls[i] = RunEnd
    <3>1. i \in DOMAIN calls
      BY <1>1, QueueSizes
    <3>2. calls[i] = output[i]
      BY <1>1 DEF Queued
    <3> QED
      BY <2>2, <3>1, <3>2
  <2>4. i = Len(calls)
    BY <2>1, <2>3 DEF Complete
  <2>5. Len(output) = Len(calls) /\ settled = Len(calls)
    BY <1>1, <2>4, QueueSizes
  <2>6. ~lost
    BY <1>1, <2>5, QueueSizes DEF Queued
  <2>7. output = calls
    <3>1. output \in Seq(Lines) /\ calls \in Seq(Lines)
      BY <1>1 DEF Queued
    <3>2. \A j \in 1 .. Len(output) : output[j] = calls[j]
      BY <1>1, QueueSizes DEF Queued
    <3> QED
      BY <2>5, <3>1, <3>2, SeqEqual
  <2> QED
    BY <2>1, <2>5, <2>6, <2>7 DEF Complete
<1> QED
  BY <1>1, ReportedAlways, PTL

\* The report has no holes, and when run() resolves it is complete, although
\* run() awaits the lines of no scenario that it runs (Runner.run, Writer.write).
THEOREM ReportHasNoHolesHolds == ReportingSpec => []ReportHasNoHoles
<1>1. Queued => IsPrefix(output, calls)
  <2> SUFFICES ASSUME Queued PROVE IsPrefix(output, calls)
    OBVIOUS
  <2>1. /\ Len(output) <= Len(calls)
        /\ \A i \in 1 .. Len(output) : output[i] = calls[i]
    BY QueueSizes DEF Queued
  <2>2. SubSeq(output, 1, Len(output)) = SubSeq(calls, 1, Len(output))
    BY <2>1, SubSeqProperties, QueueSizes DEF Queued
  <2> QED
    BY <2>1, <2>2 DEF IsPrefix
<1>2. ASSUME Queued, Reported, reporter = "json", pc = "done", output = calls
      PROVE  /\ Head(output) = RunStart /\ Last(output) = RunEnd
             /\ \A s \in ScenarioIds :
                  \E i, j \in DOMAIN output : i < j /\ output[i] = Start(s) /\ output[j] = End(s)
  <2>1. LinesAsked /\ Complete
    BY <1>2 DEF Reported, LossStops, Cut
  <2>2. Head(output) = RunStart
    BY <1>2, <2>1 DEF LinesAsked, Queued
  <2>3. Last(output) = RunEnd
    <3>1. Len(calls) \in DOMAIN calls
      BY <1>2, <2>1, QueueSizes DEF LinesAsked
    <3> QED
      BY <1>2, <2>1, <3>1 DEF Complete, Last
  <2>4. \A s \in ScenarioIds : Told(s)
    BY <2>1 DEF Complete, AllEnded, LinesAsked
  <2> QED
    BY <1>2, <2>2, <2>3, <2>4 DEF Told
<1>3. /\ Queued /\ Reported
      /\ reporter = "json" /\ pc = "done" =>
           output = calls /\ settled = Len(calls) /\ ~lost /\ unwritable = {}
      => ReportHasNoHoles
  BY <1>1, <1>2 DEF ReportHasNoHoles
<1> QED
  BY <1>3, ReportedAlways, ResolvedRunLosesNothing, PTL

-----------------------------------------------------------------------------
\* The builders of scenarios

StepNames == {<<call.name>> : call \in Calls} \cup {<<call.kind, n>> : call \in Calls, n \in Nat}

Steps ==
  [kind : {call.kind : call \in Calls}, name : StepNames,
   timeout : {OrElse(call.timeout, Roots[r].timeout) : call \in Calls, r \in DOMAIN Roots},
   maxAttempts : {OrElse(call.maxAttempts, Roots[r].maxAttempts) : call \in Calls, r \in DOMAIN Roots}]

Chains == [root : DOMAIN Roots, array : Nat, path : Seq(Calls)]

\* The steps of an array are those of the calls of a path.
Follows(steps, root, path) ==
  /\ Len(steps) = Len(path)
  /\ \A i \in 1 .. Len(path) :
       /\ steps[i].kind = path[i].kind
       /\ steps[i].name = IF path[i].name # "" THEN <<path[i].name>>
                          ELSE <<path[i].kind, OfKind(SubSeq(path, 1, i), path[i].kind)>>
       /\ steps[i].timeout = OrElse(path[i].timeout, Roots[root].timeout)
       /\ steps[i].maxAttempts = OrElse(path[i].maxAttempts, Roots[root].maxAttempts)

Made(chains) ==
  \A i \in 1 .. Len(chains) :
    /\ chains[i].array \in 1 .. Len(arrays)
    /\ Follows(arrays[chains[i].array], chains[i].root, chains[i].path)

BuilderInv ==
  /\ arrays \in Seq(Seq(Steps)) /\ builders \in Seq(Chains) /\ definitions \in Seq(Chains)
  /\ Made(builders) /\ Made(definitions)

-----------------------------------------------------------------------------
\* Calls are counted as they are appended.
LEMMA OneMoreOfKind ==
  ASSUME NEW S, NEW s \in Seq(S), NEW e \in S, NEW kind
  PROVE  /\ OfKind(s, kind) \in Nat
         /\ OfKind(Append(s, e), kind) = OfKind(s, kind) + (IF e.kind = kind THEN 1 ELSE 0)
<1> DEFINE n == Len(s)
           t == Append(s, e)
           A == {i \in DOMAIN s : s[i].kind = kind}
           B == {i \in DOMAIN t : t[i].kind = kind}
<1>1. /\ n \in Nat /\ DOMAIN s = 1 .. n /\ DOMAIN t = 1 .. n + 1
      /\ \A i \in 1 .. n : t[i] = s[i]
      /\ t[n + 1] = e
  BY AppendProperties, LenProperties
<1> HIDE DEF n, t
<1>2. IsFiniteSet(A) /\ Cardinality(A) \in Nat /\ n + 1 \notin A
  <2>1. A \in SUBSET (1 .. n) /\ IsFiniteSet(1 .. n)
    BY <1>1, FS_Interval
  <2>2. n + 1 \notin 1 .. n
    BY <1>1
  <2> QED
    BY <2>1, <2>2, FS_Subset, FS_CardinalityType
<1>3. B = IF e.kind = kind THEN A \cup {n + 1} ELSE A
  <2>1. 1 .. n + 1 = 1 .. n \cup {n + 1}
    BY <1>1
  <2> QED
    BY <1>1, <2>1
<1>4. Cardinality(A \cup {n + 1}) = Cardinality(A) + 1
  BY <1>2, FS_AddElement
<1>5. Cardinality(B) = Cardinality(A) + (IF e.kind = kind THEN 1 ELSE 0)
  <2> HIDE DEF A, B
  <2>1. CASE e.kind = kind
    BY <1>3, <1>4, <2>1
  <2>2. CASE e.kind # kind
    BY <1>2, <1>3, <2>2
  <2> QED
    BY <2>1, <2>2
<1> QED
  BY <1>2, <1>5 DEF OfKind, t

LEMMA PrefixOfAppend ==
  ASSUME NEW S, NEW s \in Seq(S), NEW e \in S, NEW i \in 1 .. Len(s)
  PROVE  SubSeq(Append(s, e), 1, i) = SubSeq(s, 1, i)
<1> DEFINE n == Len(s)
           t == Append(s, e)
<1>1. /\ n \in Nat /\ t \in Seq(S) /\ Len(t) = n + 1 /\ \A j \in 1 .. n : t[j] = s[j]
  BY AppendProperties, LenProperties
<1>2. i \in Nat /\ 1 <= i /\ i <= n /\ i <= n + 1
  BY <1>1
<1> HIDE DEF n, t
<1>3. /\ SubSeq(s, 1, i) \in Seq(S) /\ Len(SubSeq(s, 1, i)) = i
      /\ \A j \in 1 .. i : SubSeq(s, 1, i)[j] = s[j]
  <2>1. \A j \in 1 .. i : j \in 1 .. n
    BY <1>1, <1>2
  <2> QED
    BY <1>1, <1>2, <2>1, SubSeqProperties DEF n
<1>4. /\ SubSeq(t, 1, i) \in Seq(S) /\ Len(SubSeq(t, 1, i)) = i
      /\ \A j \in 1 .. i : SubSeq(t, 1, i)[j] = t[j]
  BY <1>1, <1>2, SubSeqProperties
<1>5. \A j \in 1 .. i : SubSeq(s, 1, i)[j] = SubSeq(t, 1, i)[j]
  BY <1>1, <1>2, <1>3, <1>4
<1>6. SubSeq(s, 1, i) = SubSeq(t, 1, i)
  BY <1>3, <1>4, <1>5, SeqEqual
<1> QED
  BY <1>6 DEF t

LEMMA WholePrefix ==
  ASSUME NEW S, NEW s \in Seq(S)
  PROVE  SubSeq(s, 1, Len(s)) = s
<1>1. Len(s) \in Nat /\ \A i \in 1 .. Len(s) : s[i] \in S
  BY LenProperties, ElementOfSeq
<1>2. PICK n \in Nat : n = Len(s)
  BY <1>1
<1>3. \A i \in 1 .. n : s[i] \in S
  BY <1>1, <1>2
<1>4. /\ SubSeq(s, 1, n) \in Seq(S) /\ Len(SubSeq(s, 1, n)) = n
      /\ \A j \in 1 .. n : SubSeq(s, 1, n)[j] = s[j]
  BY <1>3, SubSeqProperties
<1>5. SubSeq(s, 1, n) = s
  BY <1>2, <1>4, SeqEqual
<1> QED
  BY <1>2, <1>5

\* The chain of OrElse finds the first option that is set.
LEMMA FirstIsSet ==
  ASSUME NEW a, NEW b, NEW c, NEW d, d # {}
  PROVE  First(<<a, b, c, d>>) = OrElse(OrElse(OrElse(a, b), c), d)
<1> DEFINE s == <<a, b, c, d>>
           least == CHOOSE i \in DOMAIN s : s[i] # {} /\ \A j \in 1 .. i - 1 : s[j] = {}
<1>1. DOMAIN s = {1, 2, 3, 4} /\ s[1] = a /\ s[2] = b /\ s[3] = c /\ s[4] = d
  OBVIOUS
<1> HIDE DEF s
<1>2. First(s) = s[least]
  BY DEF First
<1>3. ASSUME NEW i \in DOMAIN s, s[i] # {}, \A j \in 1 .. i - 1 : s[j] = {}
      PROVE  /\ least \in DOMAIN s /\ s[least] # {}
             /\ \A j \in 1 .. least - 1 : s[j] = {}
  BY <1>3
<1> HIDE DEF least
<1>4. ASSUME NEW i \in DOMAIN s, s[i] # {}, \A j \in 1 .. i - 1 : s[j] = {}
      PROVE  least = i
  <2>1. /\ least \in {1, 2, 3, 4} /\ i \in {1, 2, 3, 4} /\ s[least] # {}
        /\ \A j \in 1 .. least - 1 : s[j] = {}
    BY <1>1, <1>3, <1>4
  <2>2. ~(least < i)
    <3>1. least < i => least \in 1 .. i - 1
      BY <2>1
    <3> QED
      BY <1>4, <2>1, <3>1
  <2>3. ~(i < least)
    <3>1. i < least => i \in 1 .. least - 1
      BY <2>1
    <3> QED
      BY <1>4, <2>1, <3>1
  <2> QED
    BY <2>1, <2>2, <2>3
<1>5. CASE a # {}
  <2>1. 1 \in DOMAIN s /\ s[1] # {} /\ \A j \in 1 .. 1 - 1 : s[j] = {}
    BY <1>1, <1>5
  <2>2. least = 1
    BY <1>4, <2>1
  <2> QED
    BY <1>1, <1>2, <1>5, <2>2 DEF OrElse, s
<1>6. CASE a = {} /\ b # {}
  <2>1. 2 \in DOMAIN s /\ s[2] # {} /\ \A j \in 1 .. 2 - 1 : s[j] = {}
    BY <1>1, <1>6
  <2>2. least = 2
    BY <1>4, <2>1
  <2> QED
    BY <1>1, <1>2, <1>6, <2>2 DEF OrElse, s
<1>7. CASE a = {} /\ b = {} /\ c # {}
  <2>1. 3 \in DOMAIN s /\ s[3] # {} /\ \A j \in 1 .. 3 - 1 : s[j] = {}
    BY <1>1, <1>7
  <2>2. least = 3
    BY <1>4, <2>1
  <2> QED
    BY <1>1, <1>2, <1>7, <2>2 DEF OrElse, s
<1>8. CASE a = {} /\ b = {} /\ c = {}
  <2>1. 4 \in DOMAIN s /\ s[4] # {} /\ \A j \in 1 .. 4 - 1 : s[j] = {}
    BY <1>1, <1>8
  <2>2. least = 4
    BY <1>4, <2>1
  <2> QED
    BY <1>1, <1>2, <1>8, <2>2 DEF OrElse, s
<1> QED
  BY <1>5, <1>6, <1>7, <1>8

\* A call adds to an array what it adds to the path.
LEMMA FollowsOn ==
  ASSUME NEW root \in DOMAIN Roots, NEW path \in Seq(Calls), NEW steps \in Seq(Steps),
         NEW call \in Calls, Follows(steps, root, path)
  PROVE  /\ Step(steps, root, call) \in Steps
         /\ Follows(Append(steps, Step(steps, root, call)), root, Append(path, call))
<1>1. PICK n \in Nat : n = Len(path) /\ n = Len(steps)
  BY LenProperties DEF Follows
<1>2. DOMAIN path = 1 .. n /\ DOMAIN steps = 1 .. n
  BY <1>1, LenProperties
<1>3. \A kind : OfKind(steps, kind) = OfKind(path, kind)
  <2>1. \A i \in 1 .. n : steps[i].kind = path[i].kind
    BY <1>1 DEF Follows
  <2>2. \A kind : {i \in DOMAIN steps : steps[i].kind = kind} = {i \in DOMAIN path : path[i].kind = kind}
    BY <1>2, <2>1
  <2> QED
    BY <2>2 DEF OfKind
<1>4. /\ OfKind(path, call.kind) \in Nat
      /\ OfKind(Append(path, call), call.kind) = OfKind(path, call.kind) + 1
  BY OneMoreOfKind
<1>5. PICK step \in Steps : 
        /\ step = Step(steps, root, call) /\ step.kind = call.kind
        /\ step.name = IF call.name # "" THEN <<call.name>>
                       ELSE <<call.kind, OfKind(Append(path, call), call.kind)>>
        /\ step.timeout = OrElse(call.timeout, Roots[root].timeout)
        /\ step.maxAttempts = OrElse(call.maxAttempts, Roots[root].maxAttempts)
  <2>1. Name(steps, call) \in StepNames
    <3>1. CASE call.name # ""
      <4>1. Name(steps, call) = <<call.name>>
        BY <3>1 DEF Name
      <4> QED
        BY <4>1 DEF StepNames
    <3>2. CASE call.name = ""
      <4>1. PICK m \in Nat : m = OfKind(steps, call.kind) + 1
        BY <1>3, <1>4
      <4>2. Name(steps, call) = <<call.kind, m>>
        BY <3>2, <4>1 DEF Name
      <4> QED
        BY <4>2 DEF StepNames
    <3> QED
      BY <3>1, <3>2
  <2>2. Step(steps, root, call) \in Steps
    BY <2>1 DEF Step, Steps
  <2>3. Name(steps, call) = IF call.name # "" THEN <<call.name>>
                            ELSE <<call.kind, OfKind(Append(path, call), call.kind)>>
    BY <1>3, <1>4 DEF Name
  <2> QED
    BY <2>2, <2>3 DEF Step
<1>6. PICK path2 \in Seq(Calls) :
        /\ path2 = Append(path, call) /\ Len(path2) = n + 1
        /\ \A i \in 1 .. n : path2[i] = path[i]
        /\ path2[n + 1] = call
  <2>1. /\ Append(path, call) \in Seq(Calls) /\ Len(Append(path, call)) = n + 1
        /\ \A i \in 1 .. n : Append(path, call)[i] = path[i]
        /\ Append(path, call)[n + 1] = call
    <3>1. /\ Append(path, call) \in Seq(Calls) /\ Len(Append(path, call)) = Len(path) + 1
          /\ \A i \in 1 .. Len(path) : Append(path, call)[i] = path[i]
          /\ Append(path, call)[Len(path) + 1] = call
      BY AppendProperties
    <3> QED
      BY <1>1, <3>1
  <2> QED
    BY <2>1
<1>7. PICK steps2 \in Seq(Steps) :
        /\ steps2 = Append(steps, step) /\ Len(steps2) = n + 1
        /\ \A i \in 1 .. n : steps2[i] = steps[i]
        /\ steps2[n + 1] = step
  <2>1. /\ Append(steps, step) \in Seq(Steps) /\ Len(Append(steps, step)) = n + 1
        /\ \A i \in 1 .. n : Append(steps, step)[i] = steps[i]
        /\ Append(steps, step)[n + 1] = step
    BY <1>1, AppendProperties
  <2> QED
    BY <2>1
<1>8. /\ \A i \in 1 .. n : SubSeq(path2, 1, i) = SubSeq(path, 1, i)
      /\ SubSeq(path2, 1, n + 1) = path2
  BY <1>1, <1>6, PrefixOfAppend, WholePrefix
<1>9. ASSUME NEW i \in 1 .. n + 1
      PROVE  /\ steps2[i].kind = path2[i].kind
             /\ steps2[i].name = IF path2[i].name # "" THEN <<path2[i].name>>
                          ELSE <<path2[i].kind, OfKind(SubSeq(path2, 1, i), path2[i].kind)>>
             /\ steps2[i].timeout = OrElse(path2[i].timeout, Roots[root].timeout)
             /\ steps2[i].maxAttempts = OrElse(path2[i].maxAttempts, Roots[root].maxAttempts)
  <2>1. CASE i \in 1 .. n
    <3>1. steps2[i] = steps[i] /\ path2[i] = path[i] /\ SubSeq(path2, 1, i) = SubSeq(path, 1, i)
      BY <1>6, <1>7, <1>8, <2>1
    <3> QED
      BY <1>1, <2>1, <3>1 DEF Follows
  <2>2. CASE i = n + 1
    <3>1. steps2[i] = step /\ path2[i] = call /\ SubSeq(path2, 1, i) = Append(path, call)
      BY <1>6, <1>7, <1>8, <2>2
    <3> QED
      BY <1>5, <3>1
  <2>3. i \in 1 .. n \/ i = n + 1
    OBVIOUS
  <2> QED
    BY <2>1, <2>2, <2>3
<1>10. Follows(steps2, root, path2)
  BY <1>6, <1>7, <1>9 DEF Follows
<1> QED
  BY <1>5, <1>6, <1>7, <1>10

\* A heap that grows keeps what is in it.
LEMMA StillMade ==
  ASSUME BuilderInv, NEW steps \in Seq(Steps), arrays' = Append(arrays, steps)
  PROVE  /\ arrays' \in Seq(Seq(Steps)) /\ Len(arrays') = Len(arrays) + 1 /\ Len(arrays) \in Nat
         /\ arrays'[Len(arrays')] = steps
         /\ \A i \in 1 .. Len(arrays) : arrays'[i] = arrays[i]
<1>1. arrays \in Seq(Seq(Steps)) /\ Len(arrays) \in Nat
  BY LenProperties DEF BuilderInv
<1> QED
  BY <1>1, AppendProperties

LEMMA OneMoreMade ==
  ASSUME BuilderInv, NEW steps \in Seq(Steps), arrays' = Append(arrays, steps),
         NEW chains \in Seq(Chains), Made(chains), NEW chain \in Chains,
         chain.array = Len(arrays'), Follows(steps, chain.root, chain.path)
  PROVE  /\ \A i \in 1 .. Len(chains) :
              /\ chains[i].array \in 1 .. Len(arrays')
              /\ Follows(arrays'[chains[i].array], chains[i].root, chains[i].path)
         /\ Append(chains, chain) \in Seq(Chains)
         /\ \A i \in 1 .. Len(Append(chains, chain)) :
              /\ Append(chains, chain)[i].array \in 1 .. Len(arrays')
              /\ Follows(arrays'[Append(chains, chain)[i].array], Append(chains, chain)[i].root,
                         Append(chains, chain)[i].path)
<1>1. PICK heap : heap = arrays'
  OBVIOUS
<1>2. PICK n \in Nat : n = Len(arrays)
  BY StillMade
<1>3. /\ Len(heap) = n + 1 /\ heap[n + 1] = steps
      /\ \A i \in 1 .. n : heap[i] = arrays[i]
  BY <1>1, <1>2, StillMade
<1>4. PICK m \in Nat : m = Len(chains)
  BY LenProperties
<1>5. \A i \in 1 .. m :
        /\ chains[i].array \in 1 .. Len(heap)
        /\ Follows(heap[chains[i].array], chains[i].root, chains[i].path)
  <2> TAKE i \in 1 .. m
  <2>1. chains[i].array \in 1 .. n /\ Follows(arrays[chains[i].array], chains[i].root, chains[i].path)
    BY <1>2, <1>4 DEF Made
  <2>2. chains[i].array \in 1 .. Len(heap)
    BY <1>3, <2>1
  <2> QED
    BY <1>3, <2>1, <2>2
<1>6. PICK chains2 \in Seq(Chains) :
        /\ chains2 = Append(chains, chain) /\ Len(chains2) = m + 1
        /\ \A i \in 1 .. m : chains2[i] = chains[i]
        /\ chains2[m + 1] = chain
  <2>1. /\ Append(chains, chain) \in Seq(Chains) /\ Len(Append(chains, chain)) = m + 1
        /\ \A i \in 1 .. m : Append(chains, chain)[i] = chains[i]
        /\ Append(chains, chain)[m + 1] = chain
    BY <1>4, AppendProperties
  <2> QED
    BY <2>1
<1>7. \A i \in 1 .. Len(chains2) :
        /\ chains2[i].array \in 1 .. Len(heap)
        /\ Follows(heap[chains2[i].array], chains2[i].root, chains2[i].path)
  <2> TAKE i \in 1 .. Len(chains2)
  <2>1. CASE i \in 1 .. m
    BY <1>5, <1>6, <2>1
  <2>2. CASE i = m + 1
    <3>1. chain.array = n + 1 /\ n + 1 \in 1 .. Len(heap)
      BY <1>1, <1>3
    <3> QED
      BY <1>3, <1>6, <2>2, <3>1
  <2>3. i \in 1 .. m \/ i = m + 1
    BY <1>6
  <2> QED
    BY <2>1, <2>2, <2>3
<1> QED
  BY <1>1, <1>4, <1>5, <1>6, <1>7

LEMMA AddStepKeeps ==
  ASSUME BuilderInv, NEW b \in DOMAIN builders, NEW call \in Calls, AddStep(b, call)
  PROVE  BuilderInv'
<1>1. PICK builder \in Chains : builder = builders[b]
  BY ElementOfSeq, LenProperties DEF BuilderInv
<1>2. b \in 1 .. Len(builders)
  BY LenProperties DEF BuilderInv
<1>3. PICK steps \in Seq(Steps) :
        steps = arrays[builder.array] /\ Follows(steps, builder.root, builder.path)
  BY <1>1, <1>2, ElementOfSeq, LenProperties DEF BuilderInv, Made
<1>4. builder.root \in DOMAIN Roots /\ builder.path \in Seq(Calls)
  BY DEF Chains
<1>5. PICK step \in Steps :
        /\ step = Step(steps, builder.root, call)
        /\ Follows(Append(steps, step), builder.root, Append(builder.path, call))
  BY <1>3, <1>4, FollowsOn
<1>6. PICK steps2 \in Seq(Steps) : steps2 = Append(steps, step)
  BY AppendProperties
<1>7. /\ arrays' = Append(arrays, steps2) /\ definitions' = definitions
      /\ builders' = Append(builders, Extended(builder, Len(arrays'), call))
  BY <1>1, <1>3, <1>5, <1>6 DEF AddStep
<1>8. PICK path \in Seq(Calls) : path = Append(builder.path, call)
  BY <1>4, AppendProperties
<1>9. Len(arrays') \in Nat /\ arrays' \in Seq(Seq(Steps))
  BY <1>7, StillMade
<1>10. PICK chain \in Chains :
         /\ chain = Extended(builder, Len(arrays'), call) /\ chain.array = Len(arrays')
         /\ chain.root = builder.root /\ chain.path = path
  <2>1. PICK size \in Nat : size = Len(arrays')
    BY <1>9
  <2>2. [root |-> builder.root, array |-> size, path |-> path] \in Chains
    BY <1>4 DEF Chains
  <2>3. Extended(builder, size, call) = [root |-> builder.root, array |-> size, path |-> path]
    BY <1>8 DEF Extended
  <2> QED
    BY <2>1, <2>2, <2>3
<1>11. Follows(steps2, chain.root, chain.path)
  BY <1>5, <1>6, <1>8, <1>10
<1>12. builders \in Seq(Chains) /\ Made(builders) /\ definitions \in Seq(Chains) /\ Made(definitions)
  BY DEF BuilderInv
<1>13. builders' \in Seq(Chains) /\ Made(builders)'
  BY <1>7, <1>10, <1>11, <1>12, OneMoreMade DEF Made
<1>14. definitions' \in Seq(Chains) /\ Made(definitions)'
  BY <1>7, <1>10, <1>11, <1>12, OneMoreMade DEF Made
<1> QED
  BY <1>9, <1>13, <1>14 DEF BuilderInv

LEMMA BuildKeeps ==
  ASSUME BuilderInv, NEW b \in DOMAIN builders, Build(b)
  PROVE  BuilderInv'
<1>1. PICK builder \in Chains : builder = builders[b]
  BY ElementOfSeq, LenProperties DEF BuilderInv
<1>2. b \in 1 .. Len(builders)
  BY LenProperties DEF BuilderInv
<1>3. PICK steps \in Seq(Steps) :
        steps = arrays[builder.array] /\ Follows(steps, builder.root, builder.path)
  BY <1>1, <1>2, ElementOfSeq, LenProperties DEF BuilderInv, Made
<1>4. /\ arrays' = Append(arrays, steps) /\ builders' = builders
      /\ definitions' = Append(definitions, [builder EXCEPT !.array = Len(arrays')])
  BY <1>1, <1>3 DEF Build
<1>5. Len(arrays') \in Nat /\ arrays' \in Seq(Seq(Steps))
  BY <1>4, StillMade
<1>6. PICK chain \in Chains :
        /\ chain = [builder EXCEPT !.array = Len(arrays')] /\ chain.array = Len(arrays')
        /\ chain.root = builder.root /\ chain.path = builder.path
  <2>1. PICK size \in Nat : size = Len(arrays')
    BY <1>5
  <2>2. [builder EXCEPT !.array = size] \in Chains
    BY DEF Chains
  <2>3. PICK chain \in Chains : chain = [builder EXCEPT !.array = size]
    BY <2>2
  <2>4. chain.array = size /\ chain.root = builder.root /\ chain.path = builder.path
    BY <2>3 DEF Chains
  <2> QED
    BY <2>1, <2>3, <2>4
<1>7. Follows(steps, chain.root, chain.path)
  BY <1>3, <1>6
<1>8. builders \in Seq(Chains) /\ Made(builders) /\ definitions \in Seq(Chains) /\ Made(definitions)
  BY DEF BuilderInv
<1>9. builders' \in Seq(Chains) /\ Made(builders)'
  BY <1>4, <1>6, <1>7, <1>8, OneMoreMade DEF Made
<1>10. definitions' \in Seq(Chains) /\ Made(definitions)'
  BY <1>4, <1>6, <1>7, <1>8, OneMoreMade DEF Made
<1> QED
  BY <1>5, <1>9, <1>10 DEF BuilderInv

LEMMA BuilderStarts == BuilderInit => BuilderInv
<1> SUFFICES ASSUME BuilderInit
             PROVE  BuilderInv
  OBVIOUS
<1>1. PICK n \in Nat : n = Len(Roots) /\ DOMAIN Roots = 1 .. n
  BY BuilderAssumption
<1>2. <<>> \in Seq(Steps) /\ <<>> \in Seq(Calls) /\ Len(<<>>) = 0 /\ Follows(<<>>, 1, <<>>)
  BY DEF Follows
<1>3. /\ arrays = [r \in 1 .. n |-> <<>>] /\ definitions = <<>>
      /\ builders = [r \in 1 .. n |-> [root |-> r, array |-> r, path |-> <<>>]]
  BY <1>1 DEF BuilderInit
<1>4. arrays \in Seq(Seq(Steps)) /\ Len(arrays) = n
  BY <1>2, <1>3
<1>5. builders \in Seq(Chains) /\ Len(builders) = n
  <2>1. \A r \in 1 .. n : [root |-> r, array |-> r, path |-> <<>>] \in Chains
    BY <1>1, <1>2 DEF Chains
  <2> QED
    BY <1>3, <2>1
<1>6. Made(builders)
  <2>1. \A r \in 1 .. n : Follows(<<>>, r, <<>>)
    BY <1>2 DEF Follows
  <2> QED
    BY <1>3, <1>4, <1>5, <2>1 DEF Made
<1>7. definitions \in Seq(Chains) /\ Made(definitions)
  BY <1>3 DEF Made
<1> QED
  BY <1>4, <1>5, <1>6, <1>7 DEF BuilderInv

LEMMA DefinitionsKeepBuilders == BuilderInv /\ [DefinitionsNext]_definitionVars => BuilderInv'
<1> SUFFICES ASSUME BuilderInv, [DefinitionsNext]_definitionVars
             PROVE  BuilderInv'
  OBVIOUS
<1>1. CASE UNCHANGED builderVars
  BY <1>1 DEF builderVars, BuilderInv, Made
<1>2. ASSUME NEW b \in DOMAIN builders, NEW call \in Calls, AddStep(b, call)
      PROVE  BuilderInv'
  BY <1>2, AddStepKeeps
<1>3. ASSUME NEW b \in DOMAIN builders, Build(b)
      PROVE  BuilderInv'
  BY <1>3, BuildKeeps
<1>4. DefinitionsNext => Building \/ UNCHANGED builderVars
  BY DEF DefinitionsNext, WritesTests, Discover, Import, ImportFails, ReportFails, Loaded, Select
<1> QED
  BY <1>1, <1>2, <1>3, <1>4 DEF definitionVars, Building

(***************************************************************************)
(* However many chains are forked from whatever prefixes, each builder and *)
(* each definition has the steps of its own chain, because a call copies   *)
(* the array and only appends to its copy; the merged options of the steps *)
(* are the first that are set.                                             *)
(***************************************************************************)
THEOREM ChainsStayApart == DefinitionsSpec => []StepsAreThoseOfTheChain
<1>1. ASSUME BuilderInv, NEW d \in {builders[b] : b \in DOMAIN builders}
                                     \cup {definitions[j] : j \in DOMAIN definitions}
      PROVE  LET steps == arrays[d.array]
                 own   == Roots[d.root]
             IN /\ Len(steps) = Len(d.path)
                /\ \A i \in DOMAIN steps :
                     LET call == d.path[i]
                     IN /\ steps[i].kind = call.kind
                        /\ steps[i].name =
                             IF call.name # "" THEN <<call.name>>
                             ELSE <<call.kind, OfKind(SubSeq(d.path, 1, i), call.kind)>>
                        /\ \A config, default \in {{}, {1}, {2}} : default # {} =>
                             /\ Resolved(steps[i].timeout, config, default) =
                                  First(<<call.timeout, own.timeout, config, default>>)
                             /\ Resolved(steps[i].maxAttempts, config, default) =
                                  First(<<call.maxAttempts, own.maxAttempts, config, default>>)
  <2>1. /\ d \in Chains /\ d.array \in 1 .. Len(arrays)
        /\ Follows(arrays[d.array], d.root, d.path)
    <3>1. \A chains \in Seq(Chains) : DOMAIN chains = 1 .. Len(chains) /\ \A j \in 1 .. Len(chains) : chains[j] \in Chains
      BY LenProperties, ElementOfSeq
    <3>2. \A b \in 1 .. Len(builders) : /\ builders[b].array \in 1 .. Len(arrays)
                                        /\ Follows(arrays[builders[b].array], builders[b].root, builders[b].path)
      BY <1>1 DEF BuilderInv, Made
    <3>3. \A j \in 1 .. Len(definitions) :
            /\ definitions[j].array \in 1 .. Len(arrays)
            /\ Follows(arrays[definitions[j].array], definitions[j].root, definitions[j].path)
      BY <1>1 DEF BuilderInv, Made
    <3>4. /\ DOMAIN builders = 1 .. Len(builders) /\ DOMAIN definitions = 1 .. Len(definitions)
          /\ \A b \in 1 .. Len(builders) : builders[b] \in Chains
          /\ \A j \in 1 .. Len(definitions) : definitions[j] \in Chains
      BY <1>1, <3>1 DEF BuilderInv
    <3> QED
      BY <1>1, <3>2, <3>3, <3>4
  <2> DEFINE steps == arrays[d.array]
  <2>2. steps \in Seq(Steps)
    BY <1>1, <2>1, ElementOfSeq DEF BuilderInv
  <2>3. Len(steps) = Len(d.path) /\ DOMAIN steps = 1 .. Len(d.path)
    BY <2>1, <2>2, LenProperties DEF Follows
  <2>4. ASSUME NEW i \in DOMAIN steps
        PROVE  /\ steps[i].kind = d.path[i].kind
               /\ steps[i].name =
                    IF d.path[i].name # "" THEN <<d.path[i].name>>
                    ELSE <<d.path[i].kind, OfKind(SubSeq(d.path, 1, i), d.path[i].kind)>>
               /\ steps[i].timeout = OrElse(d.path[i].timeout, Roots[d.root].timeout)
               /\ steps[i].maxAttempts = OrElse(d.path[i].maxAttempts, Roots[d.root].maxAttempts)
    BY <2>1, <2>2, <2>3 DEF Follows
  <2>5. ASSUME NEW i \in DOMAIN steps, NEW config \in {{}, {1}, {2}}, NEW default \in {{}, {1}, {2}},
               default # {}
        PROVE  /\ Resolved(steps[i].timeout, config, default) =
                    First(<<d.path[i].timeout, Roots[d.root].timeout, config, default>>)
               /\ Resolved(steps[i].maxAttempts, config, default) =
                    First(<<d.path[i].maxAttempts, Roots[d.root].maxAttempts, config, default>>)
    <3>1. /\ First(<<d.path[i].timeout, Roots[d.root].timeout, config, default>>) =
               Resolved(OrElse(d.path[i].timeout, Roots[d.root].timeout), config, default)
          /\ First(<<d.path[i].maxAttempts, Roots[d.root].maxAttempts, config, default>>) =
               Resolved(OrElse(d.path[i].maxAttempts, Roots[d.root].maxAttempts), config, default)
      BY <2>5, FirstIsSet DEF Resolved
    <3>2. /\ steps[i].timeout = OrElse(d.path[i].timeout, Roots[d.root].timeout)
          /\ steps[i].maxAttempts = OrElse(d.path[i].maxAttempts, Roots[d.root].maxAttempts)
      BY <2>4
    <3> QED
      BY <3>1, <3>2
  <2>6. ASSUME NEW i \in DOMAIN steps
        PROVE  LET call == d.path[i]
               IN /\ steps[i].kind = call.kind
                  /\ steps[i].name =
                       IF call.name # "" THEN <<call.name>>
                       ELSE <<call.kind, OfKind(SubSeq(d.path, 1, i), call.kind)>>
                  /\ \A config, default \in {{}, {1}, {2}} : default # {} =>
                       /\ Resolved(steps[i].timeout, config, default) =
                            First(<<call.timeout, Roots[d.root].timeout, config, default>>)
                       /\ Resolved(steps[i].maxAttempts, config, default) =
                            First(<<call.maxAttempts, Roots[d.root].maxAttempts, config, default>>)
    <3>1. \A config, default \in {{}, {1}, {2}} : default # {} =>
            /\ Resolved(steps[i].timeout, config, default) =
                 First(<<d.path[i].timeout, Roots[d.root].timeout, config, default>>)
            /\ Resolved(steps[i].maxAttempts, config, default) =
                 First(<<d.path[i].maxAttempts, Roots[d.root].maxAttempts, config, default>>)
      BY <2>5
    <3> QED
      BY <2>4, <3>1
  <2> QED
    BY <2>2, <2>3, <2>6
<1>2. BuilderInv => StepsAreThoseOfTheChain
  BY <1>1 DEF StepsAreThoseOfTheChain
<1>3. DefinitionsInit => BuilderInv
  BY BuilderStarts DEF DefinitionsInit
<1> QED
  BY <1>2, <1>3, DefinitionsKeepBuilders, PTL DEF DefinitionsSpec

-----------------------------------------------------------------------------
\* From the files to the run

Discovered == FoundBy(paths)

\* The spellings imported so far.
Past ==
  {n \in Discovered \ failures : Spellings[n].absolute /\ n \notin ToSet(files)}

OnceInPast == \A m, n \in Past : Spellings[m].file = Spellings[n].file => m = n

InOrder(s, t) == s # t /\ \E m, n \in Past : m <= n /\ Of(m, s) /\ Of(n, t)

\* The spellings still to import come in order, after those imported.
FilesSorted ==
  /\ files \in Seq(DOMAIN Spellings)
  /\ \A i, j \in 1 .. Len(files) : i < j => files[i] < files[j]
  /\ \A i \in 1 .. Len(files) : files[i] \in Discovered /\ files[i] \notin failures
  /\ Past \in SUBSET DOMAIN Spellings
  /\ \A n \in Past : \A i \in 1 .. Len(files) : n < files[i]

ScenariosSorted ==
  /\ scenarios \in Seq(1 .. Len(definitions))
  /\ \A k \in 1 .. Len(scenarios) : \E n \in Past : Of(n, scenarios[k])
  /\ OnceInPast =>
       \A i, j \in 1 .. Len(scenarios) : i < j => InOrder(scenarios[i], scenarios[j])

\* The scenarios of a spelling that was imported are loaded.
NoneForgotten ==
  phase \in {"loading", "loaded", "selected"} =>
    \A n \in Past, s \in 1 .. Len(definitions) : Of(n, s) => s \in ToSet(scenarios)

Phases ==
  /\ phase = "building" => paths = <<>> /\ files = <<>> /\ scenarios = <<>> /\ failures = {}
  /\ phase \in {"loaded", "selected"} => files = <<>>
  /\ phase = "selected" => inputs \in Inputs /\ selected = Filtered(inputs)

LoadInv == BuilderInv /\ FilesSorted /\ ScenariosSorted /\ NoneForgotten /\ Phases

\* A finite set has exactly the sorted sequence that Sorted asks for.
LEMMA SortedIsSorted ==
  ASSUME NEW S, IsFiniteSet(S), NEW order,
         \A x \in S : <<x, x>> \notin order,
         \A x, y \in S : x = y \/ <<x, y>> \in order \/ <<y, x>> \in order,
         \A x, y, z \in S : <<x, y>> \in order /\ <<y, z>> \in order => <<x, z>> \in order
  PROVE  /\ Sorted(S, order) \in Seq(S) /\ Len(Sorted(S, order)) = Cardinality(S)
         /\ \A i, j \in 1 .. Cardinality(S) :
              i < j => <<Sorted(S, order)[i], Sorted(S, order)[j]>> \in order
         /\ ToSet(Sorted(S, order)) = S
<1> DEFINE n == Cardinality(S)
           upTo(x) == {y \in S : y = x \/ <<y, x>> \in order}
           rank == [x \in S |-> Cardinality(upTo(x))]
           Ordered(s) == \A i, j \in DOMAIN s : i < j => <<s[i], s[j]>> \in order
<1>1. n \in Nat /\ IsFiniteSet(1 .. n) /\ Cardinality(1 .. n) = n
  BY FS_CardinalityType, FS_Interval
<1>2. ASSUME NEW x \in S
      PROVE  IsFiniteSet(upTo(x)) /\ rank[x] \in 1 .. n
  <2>1. IsFiniteSet(upTo(x)) /\ Cardinality(upTo(x)) <= n
    BY FS_Subset
  <2>2. x \in upTo(x)
    OBVIOUS
  <2>3. Cardinality(upTo(x)) \in Nat /\ Cardinality(upTo(x)) # 0
    BY <2>1, <2>2, FS_CardinalityType, FS_EmptySet
  <2> QED
    BY <1>1, <2>1, <2>3
<1>3. ASSUME NEW x \in S, NEW y \in S, <<x, y>> \in order
      PROVE  rank[x] < rank[y]
  <2>1. ~(y = x) /\ <<y, x>> \notin order
    BY <1>3
  <2>2. upTo(x) \in SUBSET upTo(y) /\ y \in upTo(y) /\ y \notin upTo(x)
    BY <1>3, <2>1
  <2>3. Cardinality(upTo(x)) <= Cardinality(upTo(y)) /\ Cardinality(upTo(x)) # Cardinality(upTo(y))
    BY <1>2, <2>2, FS_Subset
  <2> QED
    BY <1>2, <2>3
<1>4. rank \in Injection(S, 1 .. n)
  <2>1. rank \in [S -> 1 .. n]
    BY <1>2
  <2> HIDE DEF rank
  <2>2. \A x, y \in S : rank[x] = rank[y] => x = y
    <3> TAKE x, y \in S
    <3> HAVE rank[x] = rank[y]
    <3>1. rank[x] \in Nat /\ <<x, y>> \notin order /\ <<y, x>> \notin order
      BY <1>1, <1>3, <2>1
    <3> QED
      BY <3>1
  <2> QED
    BY <2>1, <2>2, Fun_IsInj
<1> HIDE DEF rank
<1>5. rank \in Surjection(S, 1 .. n)
  BY <1>1, <1>4, FS_Injection
<1> DEFINE at == [i \in 1 .. n |-> CHOOSE x \in S : rank[x] = i]
<1>6. at \in [1 .. n -> S] /\ \A i \in 1 .. n : rank[at[i]] = i
  BY <1>5 DEF Surjection
<1> HIDE DEF at
<1>7. Ordered(at)
  <2> SUFFICES ASSUME NEW i \in 1 .. n, NEW j \in 1 .. n, i < j
               PROVE  <<at[i], at[j]>> \in order
    BY <1>6
  <2>1. at[i] \in S /\ at[j] \in S /\ rank[at[i]] = i /\ rank[at[j]] = j
    BY <1>6
  <2>2. i \in Nat /\ j \in Nat
    BY <1>1
  <2>3. at[i] # at[j] /\ <<at[j], at[i]>> \notin order
    BY <1>3, <2>1, <2>2
  <2> QED
    BY <2>1, <2>3
<1> DEFINE s == Sorted(S, order)
<1>8. s \in [1 .. n -> S] /\ Ordered(s)
  <2>1. \E t \in [1 .. n -> S] : Ordered(t)
    BY <1>6, <1>7
  <2>2. s = CHOOSE t \in [1 .. n -> S] : Ordered(t)
    BY DEF Sorted
  <2> QED
    BY <2>1, <2>2
<1> HIDE DEF s
<1>9. s \in Injection(1 .. n, S)
  <2>1. ASSUME NEW i \in 1 .. n, NEW j \in 1 .. n, s[i] = s[j]
        PROVE  i = j
    <3>1. ~(i < j) /\ ~(j < i)
      BY <1>8, <2>1
    <3> QED
      BY <1>1, <3>1
  <2> QED
    BY <1>8, <2>1, Fun_IsInj
<1>10. s \in Surjection(1 .. n, S)
  BY <1>1, <1>9, FS_Injection
<1>11. ToSet(s) = S
  BY <1>8, <1>10 DEF Surjection, ToSet
<1>12. s \in Seq(S) /\ Len(s) = n
  BY <1>1, <1>8, IsASeq, LenProperties
<1> QED
  BY <1>8, <1>11, <1>12 DEF s

LEMMA AscendingIsSorted ==
  ASSUME NEW S \in SUBSET Nat, IsFiniteSet(S)
  PROVE  /\ Ascending(S) \in Seq(S) /\ Len(Ascending(S)) = Cardinality(S)
         /\ \A i, j \in 1 .. Cardinality(S) : i < j => Ascending(S)[i] < Ascending(S)[j]
         /\ ToSet(Ascending(S)) = S
<1> DEFINE order == {e \in S \X S : e[1] < e[2]}
<1>1. \A x, y \in S : <<x, y>> \in order <=> x < y
  OBVIOUS
<1>2. \A i \in 1 .. Cardinality(S) : Ascending(S) \in Seq(S) /\ Len(Ascending(S)) = Cardinality(S) => Ascending(S)[i] \in S
  BY ElementOfSeq
<1> HIDE DEF order
<1>3. /\ \A x \in S : <<x, x>> \notin order
      /\ \A x, y \in S : x = y \/ <<x, y>> \in order \/ <<y, x>> \in order
      /\ \A x, y, z \in S : <<x, y>> \in order /\ <<y, z>> \in order => <<x, z>> \in order
  BY <1>1
<1>4. /\ Sorted(S, order) \in Seq(S) /\ Len(Sorted(S, order)) = Cardinality(S)
      /\ \A i, j \in 1 .. Cardinality(S) :
           i < j => <<Sorted(S, order)[i], Sorted(S, order)[j]>> \in order
      /\ ToSet(Sorted(S, order)) = S
  BY <1>3, SortedIsSorted
<1>5. Ascending(S) = Sorted(S, order)
  BY DEF Ascending, order
<1> QED
  BY <1>1, <1>2, <1>4, <1>5

\* Discovering gives every spelling found once, in order.
LEMMA FilesAreFound ==
  ASSUME NEW list \in PathSets
  PROVE  /\ Files(list) \in Seq(DOMAIN Spellings)
         /\ \A i, j \in 1 .. Len(Files(list)) : i < j => Files(list)[i] < Files(list)[j]
         /\ ToSet(Files(list)) = FoundBy(list) /\ FoundBy(list) \in SUBSET DOMAIN Spellings
<1>1. FoundBy(list) \in SUBSET DOMAIN Spellings
  BY FilesAssumption DEF FoundBy, Found
<1>2. IsFiniteSet(FoundBy(list)) /\ FoundBy(list) \in SUBSET Nat
  <2>1. PICK n \in Nat : DOMAIN Spellings = 1 .. n
    BY FilesAssumption
  <2>2. IsFiniteSet(1 .. n) /\ 1 .. n \in SUBSET Nat
    BY FS_Interval
  <2> QED
    BY <1>1, <2>1, <2>2, FS_Subset
<1>3. /\ Files(list) \in Seq(FoundBy(list)) /\ Len(Files(list)) = Cardinality(FoundBy(list))
      /\ \A i, j \in 1 .. Cardinality(FoundBy(list)) : i < j => Files(list)[i] < Files(list)[j]
      /\ ToSet(Files(list)) = FoundBy(list)
  BY <1>2, AscendingIsSorted DEF Files
<1>4. Files(list) \in Seq(DOMAIN Spellings)
  BY <1>1, <1>3, SeqMonotonic
<1> QED
  BY <1>1, <1>3, <1>4

\* The file of a definition is the one that exports it.
LEMMA FileIsExporter ==
  ASSUME BuilderInv, NEW s \in 1 .. Len(definitions)
  PROVE  /\ FileOf(s) \in DOMAIN Tree
         /\ \A f \in DOMAIN Tree : definitions[s].root \in Tree[f].roots <=> f = FileOf(s)
<1>1. definitions[s].root \in DOMAIN Roots
  <2>1. definitions[s] \in Chains
    BY ElementOfSeq DEF BuilderInv
  <2> QED
    BY <2>1 DEF Chains
<1>2. \E f \in DOMAIN Tree : definitions[s].root \in Tree[f].roots
  BY <1>1, FilesAssumption
<1>3. FileOf(s) \in DOMAIN Tree /\ definitions[s].root \in Tree[FileOf(s)].roots
  BY <1>2 DEF FileOf
<1>4. ASSUME NEW f \in DOMAIN Tree, definitions[s].root \in Tree[f].roots
      PROVE  f = FileOf(s)
  BY <1>3, <1>4, FilesAssumption
<1> QED
  BY <1>3, <1>4

\* A file exports the definitions it has built, in their order.
LEMMA ExportsAreOwn ==
  ASSUME BuilderInv, NEW f \in DOMAIN Tree
  PROVE  /\ Exports(f) \in Seq(1 .. Len(definitions))
         /\ \A i, j \in 1 .. Len(Exports(f)) : i < j => Exports(f)[i] < Exports(f)[j]
         /\ \A i \in 1 .. Len(Exports(f)) : FileOf(Exports(f)[i]) = f
         /\ \A s \in 1 .. Len(definitions) : FileOf(s) = f => s \in ToSet(Exports(f))
<1>1. Len(definitions) \in Nat /\ DOMAIN definitions = 1 .. Len(definitions)
  BY LenProperties DEF BuilderInv
<1> DEFINE own == {i \in DOMAIN definitions : definitions[i].root \in Tree[f].roots}
<1>2. own \in SUBSET (1 .. Len(definitions)) /\ own \in SUBSET Nat /\ IsFiniteSet(own)
  <2>1. own \in SUBSET (1 .. Len(definitions)) /\ own \in SUBSET Nat
    BY <1>1
  <2>2. IsFiniteSet(1 .. Len(definitions))
    BY <1>1, FS_Interval
  <2> QED
    BY <2>1, <2>2, FS_Subset
<1>3. \A s \in 1 .. Len(definitions) : s \in own <=> FileOf(s) = f
  BY <1>1, FileIsExporter
<1>4. Exports(f) = Ascending(own)
  BY DEF Exports
<1> HIDE DEF own
<1>5. /\ Exports(f) \in Seq(own) /\ Len(Exports(f)) = Cardinality(own)
      /\ \A i, j \in 1 .. Cardinality(own) : i < j => Exports(f)[i] < Exports(f)[j]
      /\ ToSet(Exports(f)) = own
  BY <1>2, <1>4, AscendingIsSorted
<1>6. \A i \in 1 .. Len(Exports(f)) : Exports(f)[i] \in own
  BY <1>5, ElementOfSeq
<1>7. Exports(f) \in Seq(1 .. Len(definitions))
  BY <1>2, <1>5, SeqMonotonic
<1> QED
  BY <1>2, <1>3, <1>5, <1>6, <1>7

LEMMA NothingInEmpty == ToSet(<<>>) = {}
BY DEF ToSet

\* The loader only looks at the imported spellings and what it has loaded.
LEMMA LoadStays ==
  ASSUME LoadInv, UNCHANGED <<definitions, paths, scenarios>>, Past' = Past
  PROVE  /\ ScenariosSorted'
         /\ (phase' \in {"loading", "loaded", "selected"} => phase \in {"loading", "loaded", "selected"})
              => NoneForgotten'
<1>1. \A n, s : Of(n, s)' = Of(n, s)
  BY DEF Of, FileOf
<1>2. \A s, t : InOrder(s, t)' = InOrder(s, t)
  BY <1>1 DEF InOrder
<1>3. OnceInPast' = OnceInPast
  BY DEF OnceInPast
<1>4. ScenariosSorted'
  BY <1>1, <1>2, <1>3 DEF LoadInv, ScenariosSorted
<1>5. ASSUME phase' \in {"loading", "loaded", "selected"} => phase \in {"loading", "loaded", "selected"}
      PROVE  NoneForgotten'
  BY <1>1, <1>5 DEF LoadInv, NoneForgotten
<1> QED
  BY <1>4, <1>5

LEMMA AllStays ==
  ASSUME LoadInv, UNCHANGED <<definitions, paths, files, scenarios, failures>>
  PROVE  /\ FilesSorted' /\ ScenariosSorted'
         /\ (phase' \in {"loading", "loaded", "selected"} => phase \in {"loading", "loaded", "selected"})
              => NoneForgotten'
<1>1. Discovered' = Discovered
  BY DEF Discovered
<1>2. Past' = Past
  BY <1>1 DEF Past
<1>3. FilesSorted'
  BY <1>1, <1>2 DEF LoadInv, FilesSorted
<1> QED
  BY <1>2, <1>3, LoadStays

LEMMA DiscoverKeeps ==
  ASSUME LoadInv, NEW list \in PathSets, Discover(list)
  PROVE  FilesSorted' /\ ScenariosSorted' /\ NoneForgotten' /\ Phases'
<1>1. scenarios = <<>> /\ files = <<>> /\ failures = {} /\ scenarios' = <<>> /\ failures' = {}
      /\ Len(<<>>) = 0 /\ phase' \in {"failed", "loading"} /\ paths' = list
      /\ definitions' = definitions
  BY DEF LoadInv, Phases, Discover, builderVars
<1>2. ScenariosSorted'
  <2>1. \A i : i \notin 1 .. Len(<<>>)
    OBVIOUS
  <2>2. <<>> \in Seq(1 .. Len(definitions'))
    OBVIOUS
  <2> QED
    BY <1>1, <2>1, <2>2 DEF ScenariosSorted
<1>3. Phases'
  BY <1>1 DEF Phases
<1>4. CASE files' = <<>> /\ phase' = "failed"
  <2>1. <<>> \in Seq(DOMAIN Spellings) /\ \A i : i \notin 1 .. Len(<<>>)
    OBVIOUS
  <2>2. Past' \in SUBSET DOMAIN Spellings
    BY <1>1, FilesAreFound DEF Past, Discovered, FoundBy
  <2> QED
    BY <1>2, <1>3, <1>4, <2>1, <2>2 DEF FilesSorted, NoneForgotten
<1>5. CASE files' = Files(list) /\ phase' = "loading"
  <2>1. /\ Files(list) \in Seq(DOMAIN Spellings)
        /\ \A i, j \in 1 .. Len(Files(list)) : i < j => Files(list)[i] < Files(list)[j]
        /\ ToSet(Files(list)) = FoundBy(list)
    BY FilesAreFound
  <2>2. Discovered' = FoundBy(list)
    BY <1>1 DEF Discovered, FoundBy
  <2>3. Past' = {}
    BY <1>5, <2>1, <2>2 DEF Past
  <2>4. \A i \in 1 .. Len(Files(list)) : Files(list)[i] \in FoundBy(list)
    BY <2>1, LenProperties DEF ToSet
  <2>5. FilesSorted'
    BY <1>1, <1>5, <2>1, <2>2, <2>3, <2>4 DEF FilesSorted
  <2>6. NoneForgotten'
    BY <2>3 DEF NoneForgotten
  <2> QED
    BY <1>2, <1>3, <2>5, <2>6
<1> QED
  BY <1>1, <1>4, <1>5 DEF Discover

\* The first spelling goes; those after it stay as they were.
LEMMA OneFileLess ==
  ASSUME LoadInv, files # <<>>, files' = Tail(files)
  PROVE  /\ Head(files) \in DOMAIN Spellings /\ Head(files) \in Discovered
         /\ Head(files) \notin failures /\ Head(files) \in ToSet(files)
         /\ \A n \in Past : n < Head(files)
         /\ files' \in Seq(DOMAIN Spellings)
         /\ \A i \in 1 .. Len(files') :
              /\ files'[i] \in DOMAIN Spellings /\ files'[i] \in Discovered /\ files'[i] \notin failures
              /\ Head(files) < files'[i]
              /\ \A n \in Past : n < files'[i]
         /\ \A i, j \in 1 .. Len(files') : i < j => files'[i] < files'[j]
         /\ ToSet(files) = {Head(files)} \cup ToSet(files')
         /\ Head(files) \notin ToSet(files')
<1>1. PICK n \in Nat : n = Len(files) /\ DOMAIN files = 1 .. n
  BY LenProperties DEF LoadInv, FilesSorted
<1>2. n # 0
  BY <1>1, EmptySeq DEF LoadInv, FilesSorted
<1>3. /\ Head(files) = files[1] /\ files' \in Seq(DOMAIN Spellings) /\ Len(files') = n - 1
      /\ DOMAIN files' = 1 .. n - 1
      /\ \A i \in 1 .. n - 1 : files'[i] = files[i + 1]
  BY <1>1, HeadTailProperties, LenProperties DEF LoadInv, FilesSorted
<1>4. \A i \in 1 .. n - 1 : i + 1 \in 1 .. n /\ 1 < i + 1
  BY <1>2
<1>5. 1 \in 1 .. n
  BY <1>2
<1>6. \A i \in 1 .. n : files[i] \in DOMAIN Spellings
  BY <1>1, ElementOfSeq DEF LoadInv, FilesSorted
<1>7. \A i, j \in 1 .. n - 1 : i < j => i + 1 < j + 1
  OBVIOUS
<1>8. \A i \in 1 .. n : i = 1 \/ \E j \in 1 .. n - 1 : i = j + 1
  <2> TAKE i \in 1 .. n
  <2>1. i = 1 \/ (i - 1 \in 1 .. n - 1 /\ i = (i - 1) + 1)
    OBVIOUS
  <2> QED
    BY <2>1
<1>9. ASSUME NEW x \in ToSet(files), x # Head(files)
      PROVE  x \in ToSet(files')
  <2>1. PICK i \in 1 .. n : x = files[i]
    BY <1>1, <1>9 DEF ToSet
  <2>2. PICK j \in 1 .. n - 1 : i = j + 1
    BY <1>3, <1>8, <1>9, <2>1
  <2>3. files'[j] = x
    BY <1>3, <2>1, <2>2
  <2> QED
    BY <1>3, <2>3 DEF ToSet
<1>10. Head(files) \in ToSet(files)
  BY <1>1, <1>3, <1>5 DEF ToSet
<1>11. ASSUME NEW i \in 1 .. n - 1
       PROVE  /\ files'[i] \in ToSet(files) /\ Head(files) < files'[i]
              /\ files'[i] # Head(files)
  <2>1. i + 1 \in 1 .. n /\ 1 < i + 1 /\ files'[i] = files[i + 1]
    BY <1>3, <1>4
  <2>2. files[i + 1] \in ToSet(files)
    BY <1>1, <2>1 DEF ToSet
  <2>3. files[1] < files[i + 1]
    BY <1>1, <1>5, <2>1 DEF LoadInv, FilesSorted
  <2>4. files[1] \in Nat /\ files[i + 1] \in Nat
    BY <1>5, <1>6, <2>1, FilesAssumption
  <2>5. files[1] # files[i + 1]
    BY <2>3, <2>4
  <2> QED
    BY <1>3, <2>1, <2>2, <2>3, <2>5
<1>12. /\ ToSet(files) = {Head(files)} \cup ToSet(files')
       /\ Head(files) \notin ToSet(files')
  <2>1. \A x \in ToSet(files') : x \in ToSet(files) /\ x # Head(files)
    BY <1>3, <1>11 DEF ToSet
  <2> QED
    BY <1>9, <1>10, <2>1
<1>13. ASSUME NEW i \in 1 .. n - 1
       PROVE  /\ files'[i] \in DOMAIN Spellings /\ files'[i] \in Discovered /\ files'[i] \notin failures
              /\ \A m \in Past : m < files'[i]
  <2>1. i + 1 \in 1 .. n /\ files'[i] = files[i + 1]
    BY <1>3, <1>4
  <2> QED
    BY <1>1, <1>6, <2>1 DEF LoadInv, FilesSorted
<1>14. \A i, j \in 1 .. n - 1 : i < j => files'[i] < files'[j]
  <2> TAKE i, j \in 1 .. n - 1
  <2> HAVE i < j
  <2>1. i + 1 \in 1 .. n /\ j + 1 \in 1 .. n /\ i + 1 < j + 1
    BY <1>4, <1>7
  <2> QED
    BY <1>1, <1>3, <2>1 DEF LoadInv, FilesSorted
<1>15. /\ files[1] \in DOMAIN Spellings /\ files[1] \in Discovered /\ files[1] \notin failures
       /\ \A m \in Past : m < files[1]
  BY <1>1, <1>5, <1>6 DEF LoadInv, FilesSorted
<1> QED
  BY <1>3, <1>10, <1>11, <1>12, <1>13, <1>14, <1>15

LEMMA ImportFailsKeeps ==
  ASSUME LoadInv, ImportFails
  PROVE  FilesSorted' /\ ScenariosSorted' /\ NoneForgotten' /\ Phases'
<1>1. /\ files # <<>> /\ files' = Tail(files) /\ failures' = failures \cup {Head(files)}
      /\ definitions' = definitions /\ paths' = paths /\ scenarios' = scenarios /\ phase = "loading"
      /\ phase' = "loading"
  BY DEF ImportFails, builderVars
<1>2. Discovered' = Discovered
  BY <1>1 DEF Discovered
<1>3. /\ Head(files) \in ToSet(files)
      /\ files' \in Seq(DOMAIN Spellings)
      /\ \A i \in 1 .. Len(files') :
           /\ files'[i] \in DOMAIN Spellings /\ files'[i] \in Discovered /\ files'[i] \notin failures
           /\ Head(files) < files'[i]
           /\ \A n \in Past : n < files'[i]
      /\ \A i, j \in 1 .. Len(files') : i < j => files'[i] < files'[j]
      /\ ToSet(files) = {Head(files)} \cup ToSet(files')
      /\ Head(files) \notin ToSet(files')
  BY <1>1, OneFileLess
<1>4. Past' = Past
  BY <1>1, <1>2, <1>3 DEF Past
<1>5. \A i \in 1 .. Len(files') : files'[i] \in ToSet(files')
  BY <1>3, LenProperties DEF ToSet
<1>6. \A i \in 1 .. Len(files') : files'[i] \notin failures'
  BY <1>1, <1>3, <1>5
<1>7. FilesSorted'
  BY <1>2, <1>3, <1>4, <1>6 DEF LoadInv, FilesSorted
<1>8. ScenariosSorted' /\ NoneForgotten'
  BY <1>1, <1>4, LoadStays
<1> QED
  BY <1>1, <1>7, <1>8 DEF Phases

LEMMA ImportKeeps ==
  ASSUME LoadInv, Import
  PROVE  FilesSorted' /\ ScenariosSorted' /\ NoneForgotten' /\ Phases'
<1> DEFINE first == Head(files)
           f == Spellings[first].file
           N == Len(definitions)
           new == Exports(f)
<1>1. /\ files # <<>> /\ files' = Tail(files) /\ failures' = failures /\ Spellings[first].absolute
      /\ definitions' = definitions /\ paths' = paths /\ scenarios' = scenarios \o new
      /\ phase = "loading" /\ phase' = "loading"
  BY DEF Import, builderVars
<1>2. Discovered' = Discovered /\ \A n, s : Of(n, s)' = Of(n, s)
  BY <1>1 DEF Discovered, Of, FileOf
<1>3. /\ first \in DOMAIN Spellings /\ first \in Discovered
      /\ first \notin failures /\ first \in ToSet(files)
      /\ \A n \in Past : n < first
      /\ files' \in Seq(DOMAIN Spellings)
      /\ \A i \in 1 .. Len(files') :
           /\ files'[i] \in DOMAIN Spellings /\ files'[i] \in Discovered /\ files'[i] \notin failures
           /\ first < files'[i]
           /\ \A n \in Past : n < files'[i]
      /\ \A i, j \in 1 .. Len(files') : i < j => files'[i] < files'[j]
      /\ ToSet(files) = {first} \cup ToSet(files')
      /\ first \notin ToSet(files')
  BY <1>1, OneFileLess
<1>4. Past' = Past \cup {first}
  BY <1>1, <1>2, <1>3 DEF Past
<1>5. /\ f \in DOMAIN Tree /\ \A n \in Past : n <= first /\ n # first
      /\ first <= first
  <2>1. \A n \in Past : n \in Nat
    BY FilesAssumption DEF LoadInv, FilesSorted
  <2>2. first \in Nat
    BY <1>3, FilesAssumption
  <2>3. f \in DOMAIN Tree
    BY <1>3, FilesAssumption
  <2> QED
    BY <1>3, <2>1, <2>2, <2>3
<1> HIDE DEF first, f
<1>6. /\ new \in Seq(1 .. N)
      /\ \A i, j \in 1 .. Len(new) : i < j => new[i] < new[j]
      /\ \A i \in 1 .. Len(new) : FileOf(new[i]) = f
      /\ \A s \in 1 .. N : FileOf(s) = f => s \in ToSet(new)
  BY <1>5, ExportsAreOwn DEF LoadInv
<1>7. scenarios \in Seq(1 .. N)
  BY DEF LoadInv, ScenariosSorted
<1>8. PICK m \in Nat, k \in Nat : m = Len(scenarios) /\ k = Len(new)
  BY <1>6, <1>7, LenProperties
<1> HIDE DEF new
<1>9. /\ scenarios' \in Seq(1 .. N) /\ Len(scenarios') = m + k
      /\ \A i \in 1 .. m + k : scenarios'[i] = IF i <= m THEN scenarios[i] ELSE new[i - m]
  BY <1>1, <1>6, <1>7, <1>8, ConcatProperties
<1>10. /\ \A i \in 1 .. m : scenarios'[i] = scenarios[i]
       /\ \A i \in 1 .. m + k : i \in 1 .. m \/ (i - m \in 1 .. k /\ scenarios'[i] = new[i - m])
       /\ \A i \in 1 .. k : m + i \in 1 .. m + k /\ scenarios'[m + i] = new[i]
  <2>1. \A i \in 1 .. m : i \in 1 .. m + k /\ i <= m
    OBVIOUS
  <2>2. \A i \in 1 .. m + k : i \in 1 .. m \/ (i - m \in 1 .. k /\ ~(i <= m))
    OBVIOUS
  <2>3. \A i \in 1 .. k : m + i \in 1 .. m + k /\ ~(m + i <= m) /\ (m + i) - m = i
    OBVIOUS
  <2> QED
    BY <1>9, <2>1, <2>2, <2>3
<1>11. \A n, s : Of(n, s) <=> Spellings[n].file = FileOf(s)
  BY DEF Of
<1>12. \A i \in 1 .. k : new[i] \in 1 .. N /\ Of(first, new[i])
  <2>1. \A i \in 1 .. k : new[i] \in 1 .. N /\ FileOf(new[i]) = f
    BY <1>6, <1>8, ElementOfSeq
  <2> QED
    BY <1>11, <2>1 DEF f
<1>13. \A i \in 1 .. m : \E n \in Past : Of(n, scenarios[i])
  BY <1>8 DEF LoadInv, ScenariosSorted
<1>14. FilesSorted'
  <2>1. Past \in SUBSET DOMAIN Spellings
    BY DEF LoadInv, FilesSorted
  <2> QED
    BY <1>1, <1>2, <1>3, <1>4, <2>1 DEF FilesSorted
<1>15. ASSUME OnceInPast', NEW i \in 1 .. m + k, NEW j \in 1 .. m + k, i < j
       PROVE  /\ scenarios'[i] # scenarios'[j]
              /\ \E a, b \in Past' : a <= b /\ Of(a, scenarios'[i]) /\ Of(b, scenarios'[j])
  <2>1. OnceInPast /\ \A n \in Past : Spellings[n].file # f
    <3>1. \A a, b \in Past \cup {first} : Spellings[a].file = Spellings[b].file => a = b
      BY <1>4, <1>15 DEF OnceInPast
    <3> QED
      BY <1>5, <3>1 DEF OnceInPast, f
  <2>2. CASE i \in 1 .. m /\ j \in 1 .. m
    <3>1. InOrder(scenarios[i], scenarios[j])
      BY <1>8, <1>15, <2>1, <2>2 DEF LoadInv, ScenariosSorted
    <3>2. PICK a \in Past, b \in Past : a <= b /\ Of(a, scenarios[i]) /\ Of(b, scenarios[j])
      BY <3>1 DEF InOrder
    <3>3. scenarios[i] # scenarios[j]
      BY <3>1 DEF InOrder
    <3> QED
      BY <1>4, <1>10, <2>2, <3>2, <3>3
  <2>3. CASE i \in 1 .. m /\ j \notin 1 .. m
    <3>1. j - m \in 1 .. k /\ scenarios'[j] = new[j - m]
      BY <1>10, <2>3
    <3>2. PICK a \in Past : Of(a, scenarios[i])
      BY <1>13, <2>3
    <3>3. Of(first, new[j - m])
      BY <1>12, <3>1
    <3>4. scenarios[i] # new[j - m]
      <4>1. FileOf(scenarios[i]) # f
        BY <1>11, <2>1, <3>2
      <4>2. FileOf(new[j - m]) = f
        BY <1>11, <3>3 DEF f
      <4> QED
        BY <4>1, <4>2
    <3>5. a <= first /\ a \in Past' /\ first \in Past'
      BY <1>4, <1>5
    <3>6. scenarios'[i] = scenarios[i]
      BY <1>10, <2>3
    <3> QED
      BY <3>1, <3>2, <3>3, <3>4, <3>5, <3>6
  <2>4. CASE i \notin 1 .. m /\ j \notin 1 .. m
    <3>1. /\ i - m \in 1 .. k /\ scenarios'[i] = new[i - m]
          /\ j - m \in 1 .. k /\ scenarios'[j] = new[j - m]
      BY <1>10, <2>4
    <3>2. i - m < j - m
      BY <1>15
    <3>3. new[i - m] < new[j - m] /\ new[i - m] \in 1 .. N /\ new[j - m] \in 1 .. N
      BY <1>6, <1>8, <1>12, <3>1, <3>2
    <3>4. new[i - m] # new[j - m]
      <4>1. N \in Nat
        BY LenProperties DEF LoadInv, BuilderInv
      <4> QED
        BY <3>3, <4>1
    <3>5. Of(first, new[i - m]) /\ Of(first, new[j - m])
      BY <1>12, <3>1
    <3>6. first \in Past' /\ first <= first
      BY <1>4, <1>5
    <3> QED
      BY <3>1, <3>4, <3>5, <3>6
  <2>5. ~(i \notin 1 .. m /\ j \in 1 .. m)
    BY <1>15
  <2> QED
    BY <2>2, <2>3, <2>4, <2>5
<1>16. ASSUME NEW i \in 1 .. m + k
       PROVE  \E n \in Past' : Of(n, scenarios'[i])
  <2>1. CASE i \in 1 .. m
    <3>1. \E n \in Past : Of(n, scenarios[i])
      BY <1>13, <2>1
    <3> QED
      BY <1>4, <1>10, <2>1, <3>1
  <2>2. CASE i \notin 1 .. m
    <3>1. i - m \in 1 .. k /\ scenarios'[i] = new[i - m]
      BY <1>10, <2>2
    <3> QED
      BY <1>4, <1>12, <3>1
  <2> QED
    BY <2>1, <2>2
<1>17. ScenariosSorted'
  <2>1. scenarios' \in Seq(1 .. Len(definitions'))
    BY <1>1, <1>9
  <2>2. \A i \in 1 .. Len(scenarios') : \E n \in Past' : Of(n, scenarios[i])'
    BY <1>1, <1>9, <1>16 DEF Of, FileOf
  <2>3. ASSUME OnceInPast', NEW i \in 1 .. Len(scenarios'), NEW j \in 1 .. Len(scenarios'), i < j
        PROVE  InOrder(scenarios[i], scenarios[j])'
    <3>1. /\ scenarios'[i] # scenarios'[j]
          /\ \E a, b \in Past' : a <= b /\ Of(a, scenarios'[i]) /\ Of(b, scenarios'[j])
      BY <1>9, <1>15, <2>3
    <3> QED
      BY <1>1, <3>1 DEF InOrder, Of, FileOf
  <2> QED
    BY <2>1, <2>2, <2>3 DEF ScenariosSorted
<1>18. NoneForgotten'
  <2>1. \A s \in ToSet(scenarios) \cup ToSet(new) : s \in ToSet(scenarios')
    <3>1. DOMAIN scenarios = 1 .. m /\ DOMAIN new = 1 .. k /\ DOMAIN scenarios' = 1 .. m + k
      BY <1>6, <1>7, <1>8, <1>9, LenProperties
    <3>2. \A i \in 1 .. m : i \in 1 .. m + k
      OBVIOUS
    <3>3. ASSUME NEW s \in ToSet(scenarios)
          PROVE  s \in ToSet(scenarios')
      <4>1. PICK i \in 1 .. m : s = scenarios[i]
        BY <3>1, <3>3 DEF ToSet
      <4> QED
        BY <1>10, <3>1, <3>2, <4>1 DEF ToSet
    <3>4. ASSUME NEW s \in ToSet(new)
          PROVE  s \in ToSet(scenarios')
      <4>1. PICK i \in 1 .. k : s = new[i]
        BY <3>1, <3>4 DEF ToSet
      <4>2. m + i \in 1 .. m + k /\ scenarios'[m + i] = s
        BY <1>10, <4>1
      <4> QED
        BY <3>1, <4>2 DEF ToSet
    <3> QED
      BY <3>3, <3>4
  <2>2. ASSUME NEW n \in Past \cup {first}, NEW s \in 1 .. N, Of(n, s)
        PROVE  s \in ToSet(scenarios')
    <3>1. CASE n \in Past
      <4>1. s \in ToSet(scenarios)
        BY <1>1, <2>2, <3>1 DEF LoadInv, NoneForgotten
      <4> QED
        BY <2>1, <4>1
    <3>2. CASE n = first
      <4>1. FileOf(s) = f
        BY <1>11, <2>2, <3>2 DEF f
      <4> QED
        BY <1>6, <2>1, <4>1
    <3> QED
      BY <3>1, <3>2
  <2> QED
    BY <1>1, <1>2, <1>4, <2>2 DEF NoneForgotten
<1> QED
  BY <1>1, <1>14, <1>17, <1>18 DEF Phases

\* Nothing is found before a list of paths is given.
LEMMA NothingFoundYet ==
  (paths = <<>> /\ files = <<>> /\ scenarios = <<>>) => FilesSorted /\ ScenariosSorted /\ NoneForgotten
<1> SUFFICES ASSUME paths = <<>>, files = <<>>, scenarios = <<>>
             PROVE  FilesSorted /\ ScenariosSorted /\ NoneForgotten
  OBVIOUS
<1>1. Past = {}
  BY NothingInEmpty DEF Past, Discovered, FoundBy
<1>2. Len(<<>>) = 0 /\ <<>> \in Seq(DOMAIN Spellings) /\ <<>> \in Seq(1 .. Len(definitions))
  OBVIOUS
<1>3. \A i : i \notin 1 .. 0
  OBVIOUS
<1> QED
  BY <1>1, <1>2, <1>3 DEF FilesSorted, ScenariosSorted, NoneForgotten

LEMMA LoadingStarts == DefinitionsInit => LoadInv
<1> SUFFICES ASSUME DefinitionsInit
             PROVE  LoadInv
  OBVIOUS
<1>1. FilesSorted /\ ScenariosSorted /\ NoneForgotten
  BY NothingFoundYet DEF DefinitionsInit
<1>2. Phases
  BY DEF DefinitionsInit, Phases
<1> QED
  BY <1>1, <1>2, BuilderStarts DEF DefinitionsInit, LoadInv

LEMMA LoadingKept == LoadInv /\ [DefinitionsNext]_definitionVars => LoadInv'
<1> SUFFICES ASSUME LoadInv, [DefinitionsNext]_definitionVars
             PROVE  FilesSorted' /\ ScenariosSorted' /\ NoneForgotten' /\ Phases'
  BY DefinitionsKeepBuilders DEF LoadInv
<1>1. CASE WritesTests
  <2>1. /\ paths' = <<>> /\ files' = <<>> /\ scenarios' = <<>> /\ failures' = {}
        /\ phase' = "building"
    BY <1>1 DEF WritesTests, selection, LoadInv, Phases
  <2>2. (paths = <<>> /\ files = <<>> /\ scenarios = <<>>)'
    BY <2>1
  <2>3. FilesSorted' /\ ScenariosSorted' /\ NoneForgotten'
    BY <2>2, NothingFoundYet, PTL
  <2> QED
    BY <2>1, <2>3 DEF Phases
<1>2. ASSUME NEW list \in PathSets, Discover(list)
      PROVE  FilesSorted' /\ ScenariosSorted' /\ NoneForgotten' /\ Phases'
  BY <1>2, DiscoverKeeps
<1>3. CASE Import
  BY <1>3, ImportKeeps
<1>4. CASE ImportFails
  BY <1>4, ImportFailsKeeps
<1>5. CASE ReportFails \/ Loaded
  <2>1. /\ UNCHANGED <<definitions, paths, files, scenarios, failures>>
        /\ phase = "loading" /\ phase' \in {"failed", "loaded"}
        /\ phase' = "loaded" => files' = <<>>
    BY <1>5 DEF ReportFails, Loaded, builderVars
  <2>2. FilesSorted' /\ ScenariosSorted' /\ NoneForgotten'
    BY <2>1, AllStays
  <2>3. Phases'
    BY <2>1 DEF Phases
  <2> QED
    BY <2>2, <2>3
<1>6. ASSUME NEW list \in Inputs, Select(list)
      PROVE  FilesSorted' /\ ScenariosSorted' /\ NoneForgotten' /\ Phases'
  <2>1. /\ UNCHANGED <<definitions, paths, files, scenarios, failures>>
        /\ phase = "loaded" /\ phase' \in {"failed", "selected"} /\ inputs' = list
        /\ phase' = "selected" => selected' = Filtered(list)
    BY <1>6 DEF Select, builderVars
  <2>2. FilesSorted' /\ ScenariosSorted' /\ NoneForgotten'
    BY <2>1, AllStays
  <2>3. Filtered(list)' = Filtered(list)
    BY <2>1 DEF Filtered, Accepts, Matches
  <2>4. Phases'
    BY <2>1, <2>3 DEF Phases, LoadInv
  <2> QED
    BY <2>2, <2>4
<1>7. CASE UNCHANGED definitionVars
  <2>1. /\ UNCHANGED <<definitions, paths, files, scenarios, failures>>
        /\ UNCHANGED <<phase, inputs, selected>>
    BY <1>7 DEF definitionVars, builderVars, selection
  <2>2. FilesSorted' /\ ScenariosSorted' /\ NoneForgotten'
    BY <2>1, AllStays
  <2>3. Filtered(inputs)' = Filtered(inputs)
    BY <2>1 DEF Filtered, Accepts, Matches
  <2>4. Phases'
    BY <2>1, <2>3 DEF Phases, LoadInv
  <2> QED
    BY <2>2, <2>4
<1> QED
  BY <1>1, <1>2, <1>3, <1>4, <1>5, <1>6, <1>7 DEF DefinitionsNext

\* Filtering keeps the order, and what is kept is what is accepted.
LEMMA FilteringKeeps ==
  ASSUME LoadInv, NEW list, list # <<>>
  PROVE  /\ DOMAIN Filtered(list) \in SUBSET Nat
         /\ \A i \in DOMAIN Filtered(list) : \E a \in 1 .. Len(scenarios) : Filtered(list)[i] = scenarios[a]
         /\ \A i, j \in DOMAIN Filtered(list) : i < j =>
              \E a, b \in 1 .. Len(scenarios) :
                a < b /\ Filtered(list)[i] = scenarios[a] /\ Filtered(list)[j] = scenarios[b]
         /\ ToSet(Filtered(list)) =
              {s \in ToSet(scenarios) : \E i \in DOMAIN list : Accepts(s, list[i])}
<1>1. Len(scenarios) \in Nat /\ DOMAIN scenarios = 1 .. Len(scenarios)
  BY LenProperties DEF LoadInv, ScenariosSorted
<1> DEFINE places == {n \in DOMAIN scenarios : \E i \in DOMAIN list : Accepts(scenarios[n], list[i])}
           kept == Ascending(places)
           result == [n \in DOMAIN kept |-> scenarios[kept[n]]]
<1>2. places \in SUBSET Nat /\ places \in SUBSET (1 .. Len(scenarios))
  BY <1>1
<1>3. IsFiniteSet(places)
  <2>1. IsFiniteSet(1 .. Len(scenarios))
    BY <1>1, FS_Interval
  <2> QED
    BY <1>2, <2>1, FS_Subset
<1>4. Filtered(list) = result
  BY DEF Filtered
<1>5. \A n \in places : scenarios[n] \in {s \in ToSet(scenarios) : \E i \in DOMAIN list : Accepts(s, list[i])}
  BY DEF ToSet
<1>6. ASSUME NEW s \in ToSet(scenarios), \E i \in DOMAIN list : Accepts(s, list[i])
      PROVE  \E n \in places : s = scenarios[n]
  BY <1>6 DEF ToSet
<1> HIDE DEF places
<1>7. /\ kept \in Seq(places) /\ Len(kept) = Cardinality(places)
      /\ \A i, j \in 1 .. Cardinality(places) : i < j => kept[i] < kept[j]
      /\ ToSet(kept) = places
  BY <1>2, <1>3, AscendingIsSorted
<1>8. /\ DOMAIN kept = 1 .. Len(kept) /\ Len(kept) \in Nat
      /\ \A i \in DOMAIN kept : kept[i] \in places
  BY <1>7, LenProperties, ElementOfSeq
<1> HIDE DEF kept
<1>9. ToSet(result) = {scenarios[n] : n \in places}
  BY <1>7 DEF ToSet
<1>10. DOMAIN result \in SUBSET Nat
  BY <1>8
<1>11. \A i, j \in DOMAIN result : i < j =>
         \E a, b \in 1 .. Len(scenarios) :
           a < b /\ result[i] = scenarios[a] /\ result[j] = scenarios[b]
  <2> SUFFICES ASSUME NEW i \in DOMAIN result, NEW j \in DOMAIN result, i < j
               PROVE  \E a, b \in 1 .. Len(scenarios) :
                        a < b /\ result[i] = scenarios[a] /\ result[j] = scenarios[b]
    OBVIOUS
  <2>1. kept[i] < kept[j]
    BY <1>7, <1>8
  <2>2. kept[i] \in 1 .. Len(scenarios) /\ kept[j] \in 1 .. Len(scenarios)
    BY <1>2, <1>8
  <2>3. result[i] = scenarios[kept[i]] /\ result[j] = scenarios[kept[j]]
    OBVIOUS
  <2> QED
    BY <2>1, <2>2, <2>3
<1>12. \A i \in DOMAIN result : \E a \in 1 .. Len(scenarios) : result[i] = scenarios[a]
  BY <1>2, <1>8
<1>13. ToSet(result) = {s \in ToSet(scenarios) : \E i \in DOMAIN list : Accepts(s, list[i])}
  BY <1>5, <1>6, <1>9
<1> HIDE DEF result
<1> QED
  BY <1>4, <1>10, <1>11, <1>12, <1>13

\* An input accepts the scenarios that its parts mean.
LEMMA AcceptedIsMeant ==
  ASSUME NEW list \in Inputs, NEW i \in DOMAIN list, NEW s \in DOMAIN definitions
  PROVE  Accepts(s, list[i]) <=> s \in Meaning(list[i])
<1>1. ASSUME NEW p \in Parts(list[i])
      PROVE  (Matches(s, p) # p.negated) <=> s \in Having(p)
  <2>1. p.negated \in BOOLEAN
    BY InputsAssumption DEF Parts
  <2>2. Matches(s, p) \in BOOLEAN
    BY DEF Matches
  <2>3. CASE p.negated
    <3>1. Having(p) = DOMAIN definitions \ {x \in DOMAIN definitions : Matches(x, p)}
      BY <2>3 DEF Having
    <3>2. s \in Having(p) <=> ~Matches(s, p)
      BY <3>1
    <3> QED
      BY <2>1, <2>2, <2>3, <3>2
  <2>4. CASE ~p.negated
    <3>1. Having(p) = {x \in DOMAIN definitions : Matches(x, p)}
      BY <2>4 DEF Having
    <3>2. s \in Having(p) <=> Matches(s, p)
      BY <3>1
    <3> QED
      BY <2>1, <2>2, <2>4, <3>2
  <2> QED
    BY <2>1, <2>3, <2>4
<1> QED
  BY <1>1 DEF Accepts, Meaning

(***************************************************************************)
(* Whatever files, spellings, paths, scenarios and selectors there are,    *)
(* and whichever imports fail, the run gets every scenario that an input   *)
(* wants and whose file was found and imported, in the order of the paths, *)
(* and each once unless a file was imported under two spellings.           *)
(***************************************************************************)
THEOREM SelectionIsExact == DefinitionsSpec => []EachWantedScenarioOnce
<1>1. ASSUME LoadInv, phase = "selected"
      PROVE  /\ ToSet(selected) = {s \in Wanted : \E n \in Imported : Of(n, s)}
             /\ OnceInPast => \A i, j \in DOMAIN selected : i < j => InOrder(selected[i], selected[j])
             /\ Imported = Past
  <2>1. files = <<>> /\ inputs \in Inputs /\ selected = Filtered(inputs)
    BY <1>1 DEF LoadInv, Phases
  <2>2. Imported = Past
    BY <2>1, NothingInEmpty DEF Imported, Past, Discovered
  <2>3. /\ scenarios \in Seq(1 .. Len(definitions))
        /\ \A k \in 1 .. Len(scenarios) : \E n \in Past : Of(n, scenarios[k])
        /\ OnceInPast =>
             \A i, j \in 1 .. Len(scenarios) : i < j => InOrder(scenarios[i], scenarios[j])
    BY <1>1 DEF LoadInv, ScenariosSorted
  <2>4. /\ DOMAIN scenarios = 1 .. Len(scenarios) /\ DOMAIN definitions = 1 .. Len(definitions)
        /\ \A n \in 1 .. Len(scenarios) : scenarios[n] \in 1 .. Len(definitions)
    BY <1>1, <2>3, LenProperties, ElementOfSeq DEF LoadInv, BuilderInv
  <2>5. ToSet(scenarios) = {s \in DOMAIN definitions : \E n \in Imported : Of(n, s)}
    <3>1. \A s \in ToSet(scenarios) : s \in DOMAIN definitions /\ \E n \in Imported : Of(n, s)
      BY <2>2, <2>3, <2>4 DEF ToSet
    <3>2. \A s \in DOMAIN definitions : (\E n \in Imported : Of(n, s)) => s \in ToSet(scenarios)
      BY <1>1, <2>2, <2>4 DEF LoadInv, NoneForgotten
    <3> QED
      BY <3>1, <3>2
  <2>6. CASE inputs = <<>>
    <3>1. selected = scenarios /\ Wanted = DOMAIN definitions
      BY <2>1, <2>6 DEF Filtered, Wanted
    <3> QED
      BY <2>2, <2>3, <2>4, <2>5, <3>1
  <2>7. CASE inputs # <<>>
    <3>1. /\ DOMAIN selected \in SUBSET Nat
          /\ \A i, j \in DOMAIN selected : i < j =>
               \E a, b \in 1 .. Len(scenarios) :
                 a < b /\ selected[i] = scenarios[a] /\ selected[j] = scenarios[b]
          /\ ToSet(selected) =
               {s \in ToSet(scenarios) : \E i \in DOMAIN inputs : Accepts(s, inputs[i])}
      BY <1>1, <2>1, <2>7, FilteringKeeps
    <3>2. ASSUME NEW s \in DOMAIN definitions
          PROVE  (\E i \in DOMAIN inputs : Accepts(s, inputs[i])) <=> s \in Wanted
      <4>1. Wanted = UNION {Meaning(inputs[i]) : i \in DOMAIN inputs}
        BY <2>7 DEF Wanted
      <4>2. \A i \in DOMAIN inputs : Accepts(s, inputs[i]) <=> s \in Meaning(inputs[i])
        BY <2>1, <3>2, AcceptedIsMeant
      <4> QED
        BY <4>1, <4>2
    <3>3. Wanted \in SUBSET DOMAIN definitions
      BY <2>7 DEF Wanted, Meaning
    <3>4. ToSet(selected) = {s \in Wanted : \E n \in Imported : Of(n, s)}
      BY <2>5, <3>1, <3>2, <3>3
    <3>5. ASSUME OnceInPast, NEW i \in DOMAIN selected, NEW j \in DOMAIN selected, i < j
          PROVE  InOrder(selected[i], selected[j])
      <4>1. PICK a \in 1 .. Len(scenarios), b \in 1 .. Len(scenarios) :
              a < b /\ selected[i] = scenarios[a] /\ selected[j] = scenarios[b]
        BY <3>1, <3>5
      <4> QED
        BY <2>3, <3>5, <4>1
    <3> QED
      BY <2>2, <3>4, <3>5
  <2> QED
    BY <2>6, <2>7
<1>2. LoadInv => EachWantedScenarioOnce
  BY <1>1 DEF EachWantedScenarioOnce, OnceInPast, InOrder
<1> QED
  BY <1>2, LoadingStarts, LoadingKept, PTL DEF DefinitionsSpec
=============================================================================
