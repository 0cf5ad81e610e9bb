------------------------------ MODULE Reporting ------------------------------
(***************************************************************************)
(* A run whose reporter is the JSONReporter: each callback writes one line *)
(* through the one Writer, whose queue is a chain of promises.  run()      *)
(* awaits onRunStart, onRunEnd and the callbacks of a scenario it skips,   *)
(* but not those of a scenario it runs.  With a reporter of another kind   *)
(* anything may happen that Runner allows.                                 *)
(*                                                                         *)
(* The stream is external.  A rejection that nobody awaits is taken not to *)
(* end the process, else nothing more happens at all.  JSON.stringify      *)
(* throws for some values (a bigint, a cycle), which a step may return, an *)
(* error may carry and the caller may give as its reason to abort.         *)
(***************************************************************************)
EXTENDS Runner, SequencesExt

VARIABLES
  reporter,  \* "json" or "other"
  calls,     \* the lines the Writer was asked for, in order
  settled,   \* how many of these writes have settled
  output,    \* what the stream has taken
  lost,      \* a write has failed
  unwritable \* the scenarios whose result JSON.stringify refused

report == <<reporter, calls, settled, output, lost, unwritable>>
allVars == <<vars, report>>

RunStart == <<"runStart">>
RunEnd == <<"runEnd">>
Start(s) == <<"scenarioStart", s>>
End(s) == <<"scenarioEnd", s>>

ReportingInit ==
  /\ Init
  /\ reporter \in {"json", "other"}
  /\ calls = IF reporter = "json" THEN <<RunStart>> ELSE <<>>
  /\ settled = 0 /\ output = <<>> /\ lost = FALSE /\ unwritable = {}

-----------------------------------------------------------------------------
\* Writer.write

\* It queues the line before its first await: lines are in the order of the calls.
Put(line) ==
  /\ calls' = Append(calls, line)
  /\ UNCHANGED <<reporter, settled, output, lost, unwritable>>

\* The line of a result is not made: the callback rejects and queues nothing.
PutThrows(s) ==
  /\ unwritable' = unwritable \union {s}
  /\ UNCHANGED <<reporter, calls, settled, output, lost>>

\* Bug: a failed write is caught, and the next one goes ahead.
WriteThoughLost ==
  /\ settled < Len(calls) /\ pc # "starting"
  /\ settled' = settled + 1
  /\ \/ output' = Append(output, calls[settled + 1]) /\ UNCHANGED lost
     \/ lost' = TRUE /\ UNCHANGED output
  /\ UNCHANGED <<vars, reporter, calls, unwritable>>

\* The next promise of the chain: after one that rejected all others do.
Write ==
  /\ settled < Len(calls) /\ pc # "starting"
  /\ settled' = settled + 1
  /\ \/ ~lost /\ output' = Append(output, calls[settled + 1]) /\ UNCHANGED lost
     \/ lost' = TRUE /\ UNCHANGED output
  /\ UNCHANGED <<vars, reporter, calls, unwritable>>

Called(line) == \E i \in DOMAIN calls : calls[i] = line
Settled(line) == \E i \in 1 .. settled : calls[i] = line
Written(line) == \E i \in DOMAIN output : output[i] = line
Rejected(line) == Settled(line) /\ ~Written(line)

-----------------------------------------------------------------------------
\* A scenario that runs tells its reporter and goes on.  (The lines of its
\* steps, between these two, are left out.)

StartsAndTells == StartScenario /\ Put(Start(next))

EndsAndTells(s) ==
  \E status \in Statuses :
    ScenarioEnds(s, status) /\ (Put(End(s)) \/ PutThrows(s))

\* One that is skipped waits for both lines, start and end.
SkipsAndTells == SkipScenario /\ Put(Start(next))

EndIsDue(s) == Written(Start(s)) /\ ~Called(End(s))

TellsEnd(s) ==
  /\ \/ state[s] = "reporting" /\ pc # "starting"
     \/ pc = "trailingReport" /\ trail = s
  /\ EndIsDue(s)
  /\ Put(End(s))
  /\ UNCHANGED vars

SkipIsTold(s) == SkipReported(s) /\ Written(End(s)) /\ UNCHANGED report

\* Either line is lost, or the second is not made: the error of a skip is the
\* reason of the abort, which the caller chose unless it is maxFailures'.
LineFails(s) ==
  \/ (Rejected(Start(s)) \/ Rejected(End(s))) /\ UNCHANGED report
  \/ signal = "abort" /\ EndIsDue(s) /\ PutThrows(s)

SkipBreaks(s) ==
  state[s] = "reporting" /\ pc # "starting" /\ ReporterBreaks(s) /\ LineFails(s)

TrailingTells == TrailingSkip /\ Put(Start(trail))
TrailingIsTold == TrailingReported /\ Written(End(trail)) /\ UNCHANGED report

TrailingIsLost == TrailingBreaks /\ LineFails(trail)

\* run() itself
BeginsAfterReport == RunStarted /\ Written(RunStart) /\ UNCHANGED report

\* The last line holds the results, and is not made if one of them cannot be.
SummarizesAndTells ==
  Summarize /\ IF unwritable = {} THEN Put(RunEnd) ELSE UNCHANGED report

\* Bug: onRunEnd is not awaited.
EndsAtOnce == RunEnded /\ UNCHANGED report

EndsAfterReport == RunEnded /\ Written(RunEnd) /\ UNCHANGED report

RejectsWithReporter ==
  /\ RunRejects
  /\ \/ Rejected(IF pc = "runStart" THEN RunStart ELSE RunEnd)
     \/ pc = "runEnd" /\ ~Called(RunEnd)
  /\ UNCHANGED report

Quietly ==
  /\ BeginBatch \/ LeaveBatches \/ BatchDone \/ BatchRejects \/ TrailingDone
  /\ UNCHANGED report

JsonAdvance ==
  \/ StartsAndTells \/ SkipsAndTells \/ TrailingTells \/ TrailingIsTold
  \/ TrailingIsLost \/ BeginsAfterReport \/ SummarizesAndTells
  \/ EndsAfterReport \/ RejectsWithReporter \/ Quietly \/ Write

JsonScenario(s) == EndsAndTells(s) \/ TellsEnd(s) \/ SkipIsTold(s) \/ SkipBreaks(s)

JsonNext ==
  \/ JsonAdvance
  \/ \E s \in ScenarioIds : JsonScenario(s)
  \/ ExternalAbort /\ UNCHANGED report

ReportingNext ==
  \/ reporter = "json" /\ JsonNext
  \/ reporter = "other" /\ Next /\ UNCHANGED report

ReportingFairness ==
  \/ reporter = "other" /\ Fairness
  \/ /\ reporter = "json"
     /\ WF_allVars(JsonAdvance)
     /\ \A s \in ScenarioIds : WF_allVars(JsonScenario(s))

ReportingSpec ==
  ReportingInit /\ [][ReportingNext]_allVars /\ ReportingFairness

-----------------------------------------------------------------------------
(***************************************************************************)
(* The report has no holes: what the stream has taken is how the calls     *)
(* began.  When run() resolves the report is complete: it starts with      *)
(* runStart, ends with runEnd, and has each scenario's lines in between,   *)
(* although run() awaits the lines of no scenario that it runs.            *)
(***************************************************************************)
ReportHasNoHoles ==
  reporter = "json" =>
    /\ IsPrefix(output, calls)
    /\ pc = "done" =>
         /\ Head(output) = RunStart /\ Last(output) = RunEnd
         /\ \A s \in ScenarioIds :
              \E i, j \in DOMAIN output : i < j /\ output[i] = Start(s) /\ output[j] = End(s)

\* A line that is lost, or that could not be made, is not missing silently,
\* although nobody awaits the callbacks of a scenario that runs: in the end
\* run() rejects.
LossIsNoticed == (lost \/ unwritable # {}) ~> (pc = "rejected")

=============================================================================
