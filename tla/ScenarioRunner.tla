--------------------------- MODULE ScenarioRunner ---------------------------
(***************************************************************************)
(* One scenario as ScenarioRunner and StepRunner execute it: the steps in  *)
(* order, the attempts of each step raced against the step's timer and the *)
(* scenario's abort signal, the stack of disposables, and the result.      *)
(*                                                                         *)
(* The program is single threaded.  An action is a run of code between two *)
(* points where another callback can get in; a timer fires only when the   *)
(* scenario is waiting for the outside (AtRest), whereas another scenario  *)
(* can abort the shared signal between any two actions.                    *)
(*                                                                         *)
(* A step function is user code: it may return, throw, throw Skip, or      *)
(* never answer.  When the runner stops waiting for it (a timeout or an    *)
(* abort) the function is not stopped: it is `abandoned' and may still     *)
(* answer at any time, even after the scenario has ended.                  *)
(***************************************************************************)
EXTENDS Naturals, Sequences, SequencesExt

CONSTANTS
  NumSteps,     \* number of steps of the scenario
  Kind,         \* Kind[s]: "resource", "setup" or "step"
  MaxAttempts,  \* MaxAttempts[s]: the values retry.maxAttempts of step s may have
  AbortReasons  \* what the signal may be aborted with

Step == 1 .. NumSteps
Reasons == {"scenarioTimeout", "skip", "abort"}

ASSUME StepsAssumption ==
  /\ NumSteps \in Nat
  /\ Kind \in [Step -> {"resource", "setup", "step"}]
  /\ MaxAttempts \in [Step -> SUBSET Nat]
  /\ AbortReasons \subseteq Reasons

VARIABLES
  pc,           \* where the scenario's own code is
  step,         \* the current step, NumSteps + 1 after the last one
  attempt,      \* the current attempt at it, counted from 1
  call,         \* the attempt's step function
  abandoned,    \* the steps whose function runs on though nobody waits for it
  error,        \* the error on its way up
  signal,       \* "none", or why the signal was aborted
  results,      \* ctx.results: the steps whose values it holds
  resources,    \* ctx.resources: the steps whose values it holds
  stack,        \* the disposables registered, oldest first
  top,          \* how many of them are not yet disposed
  disposals,    \* history: the disposables disposed, in order
  made,         \* history: the steps that handed out a disposable
  stepResults,  \* the statuses of the steps that ended
  verdict       \* the scenario's status, "none" while it runs

control == <<pc, step, attempt>>
context == <<results, resources>>
release == <<stack, top, disposals>>
outcome == <<stepResults, verdict>>
vars == <<control, call, abandoned, error, signal, context, release, made,
          outcome>>

\* Definitions named Bug... are plausible mistakes in the definition that
\* follows them; a property is worth stating if one of them breaks it.
BugStackNeverCloses == TRUE

StackOpen == pc \notin {"disposing", "ended"}

\* Only a function, a delay or a disposer can end the wait of the scenario:
\* no continuation of the runner's is due, so a timer may fire.
AtRest == \/ pc = "attempt" /\ call = "running"
          \/ pc \in {"backoff", "disposing"}

Init ==
  /\ pc = "between" /\ step = 1 /\ attempt = 0
  /\ call = "idle" /\ abandoned = {}
  /\ error = "none" /\ signal = "none"
  /\ results = <<>> /\ resources = {}
  /\ stack = <<>> /\ top = 0 /\ disposals = <<>> /\ made = {}
  /\ stepResults = <<>> /\ verdict = "none"

-----------------------------------------------------------------------------
\* The signal handed to the scenario

ScenarioTimerFires ==
  /\ "scenarioTimeout" \in AbortReasons /\ signal = "none" /\ AtRest
  /\ signal' = "scenarioTimeout"
  /\ UNCHANGED <<control, call, abandoned, error, context, release, made,
                 outcome>>

\* The run's controller is aborted, by maxFailures ("skip") or from outside.
Abort(reason) ==
  /\ signal = "none" /\ pc # "ended"
  /\ signal' = reason
  /\ UNCHANGED <<control, call, abandoned, error, context, release, made,
                 outcome>>

-----------------------------------------------------------------------------
\* From one step to the next

BeginAttempt(n) ==
  /\ pc' = "attempt" /\ attempt' = n /\ call' = "running" /\ error' = "none"

BeginStep ==
  /\ pc = "between" /\ step <= NumSteps /\ signal = "none"
  /\ \E limit \in MaxAttempts[step] : limit > 0
  /\ BeginAttempt(1)
  /\ UNCHANGED <<step, abandoned, signal, context, release, made, outcome>>

\* With maxAttempts 0 the loop of retry is not entered: it throws undefined.
BeginStepWithoutAttempts ==
  /\ pc = "between" /\ step <= NumSteps /\ signal = "none"
  /\ 0 \in MaxAttempts[step]
  /\ pc' = "stepEnd" /\ attempt' = 0 /\ error' = "undefined"
  /\ UNCHANGED <<step, call, abandoned, signal, context, release, made,
                 outcome>>

\* An abort out of onStepStart is seen by retry, before the first attempt.
AbortedInStepStart ==
  /\ pc = "between" /\ step <= NumSteps /\ signal = "none"
  /\ \E limit \in MaxAttempts[step] : limit > 0
  /\ \E reason \in AbortReasons \ {"scenarioTimeout"} :
       error' = reason /\ signal' = reason
  /\ pc' = "stepEnd" /\ attempt' = 0
  /\ UNCHANGED <<step, call, abandoned, context, release, made, outcome>>

\* A reporter that throws in onStepStart or onStepEnd ends the scenario
\* without a result for the step.
ReporterThrows ==
  /\ \/ pc = "between" /\ step <= NumSteps /\ signal = "none"
     \/ pc = "attempt" /\ call = "returned"
     \/ pc = "stepEnd"
  /\ pc' = "unwind" /\ error' = "error" /\ call' = "idle"
  /\ UNCHANGED <<step, attempt, abandoned, signal, context, release, made,
                 outcome>>

AbortedBetweenSteps ==
  /\ pc = "between" /\ step <= NumSteps /\ signal # "none"
  /\ pc' = "unwind" /\ error' = signal
  /\ UNCHANGED <<step, attempt, call, abandoned, signal, context, release,
                 made, outcome>>

LastStepDone ==
  /\ pc = "between" /\ step > NumSteps
  /\ pc' = "unwind"
  /\ UNCHANGED <<step, attempt, call, abandoned, error, signal, context,
                 release, made, outcome>>

-----------------------------------------------------------------------------
\* The answer of a step function.  disposable says whether it hands out a
\* resource that can be disposed, or a cleanup; a closed stack refuses it.

BugCleanupNotRegistered(s, disposable) ==
  LET owns == disposable /\ Kind[s] = "resource" /\ StackOpen
  IN /\ made' = IF disposable THEN made \union {s} ELSE made
     /\ stack' = IF owns THEN Append(stack, s) ELSE stack
     /\ top' = IF owns THEN top + 1 ELSE top
     /\ UNCHANGED context

Register(s, disposable) ==
  LET owns    == disposable /\ Kind[s] # "step"
      refused == owns /\ ~StackOpen
  IN /\ made' = IF owns THEN made \union {s} ELSE made
     /\ stack' = IF owns /\ ~refused THEN Append(stack, s) ELSE stack
     /\ top' = IF owns /\ ~refused THEN top + 1 ELSE top
     /\ resources' = IF Kind[s] = "resource" /\ ~refused
                     THEN resources \union {s} ELSE resources
     /\ results' = IF Kind[s] = "step" THEN Append(results, s) ELSE results

CallReturns(disposable) ==
  /\ pc = "attempt" /\ call = "running"
  /\ call' = "returned"
  /\ Register(step, disposable)
  /\ UNCHANGED <<control, abandoned, error, signal, disposals, outcome>>

BugValueKeptOnThrow(e) ==
  /\ pc = "attempt" /\ call = "running"
  /\ call' = "threw" /\ error' = e
  /\ results' = IF Kind[step] = "step" THEN Append(results, step) ELSE results
  /\ UNCHANGED <<control, abandoned, signal, resources, release, made, outcome>>

CallThrows(e) ==
  /\ pc = "attempt" /\ call = "running"
  /\ call' = "threw" /\ error' = e
  /\ UNCHANGED <<control, abandoned, signal, context, release, made, outcome>>

\* The same for a function nobody waits for: what it throws is swallowed.
LateReturn(s, disposable) ==
  /\ s \in abandoned
  /\ abandoned' = abandoned \ {s}
  /\ Register(s, disposable)
  /\ UNCHANGED <<control, call, error, signal, disposals, outcome>>

LateThrow(s) ==
  /\ s \in abandoned
  /\ abandoned' = abandoned \ {s}
  /\ UNCHANGED <<control, call, error, signal, context, release, made,
                 outcome>>

-----------------------------------------------------------------------------
\* The end of an attempt: deadline() settles with the first of the function,
\* the step's timer and the signal; retry catches a failure.

BugRetryTimeouts(e) == TRUE

ShouldRetry(e) == e \notin {"stepTimeout", "scenarioTimeout"}

\* Which of its values maxAttempts has shows when an attempt is the last.
Caught(e) ==
  /\ error' = e /\ call' = "idle"
  /\ \/ /\ ShouldRetry(e) /\ signal = "none"
        /\ \E limit \in MaxAttempts[step] : attempt < limit
        /\ pc' = "backoff"
     \/ /\ ~ShouldRetry(e) \/ signal # "none" \/ attempt \in MaxAttempts[step]
        /\ pc' = "stepEnd"
  /\ UNCHANGED <<step, attempt, signal, context, release, made, outcome>>

AttemptPasses ==
  /\ pc = "attempt" /\ call = "returned"
  /\ pc' = "between" /\ step' = step + 1 /\ attempt' = 0 /\ call' = "idle"
  /\ stepResults' = Append(stepResults, "passed")
  /\ UNCHANGED <<abandoned, error, signal, context, release, made, verdict>>

AttemptThrows ==
  /\ pc = "attempt" /\ call = "threw"
  /\ Caught(error)
  /\ UNCHANGED abandoned

\* The signal wins even over a function that has just answered.
AttemptAborted ==
  /\ pc = "attempt" /\ signal # "none"
  /\ Caught(signal)
  /\ abandoned' = IF call = "running" THEN abandoned \union {step}
                  ELSE abandoned

BugTimerOfFirstAttemptOnly ==
  /\ pc = "attempt" /\ call = "running" /\ signal = "none" /\ attempt = 1
  /\ Caught("stepTimeout")
  /\ abandoned' = abandoned \union {step}

StepTimerFires ==
  /\ pc = "attempt" /\ call = "running" /\ signal = "none"
  /\ Caught("stepTimeout")
  /\ abandoned' = abandoned \union {step}

BackoffElapses ==
  /\ pc = "backoff" /\ signal = "none"
  /\ BeginAttempt(attempt + 1)
  /\ UNCHANGED <<step, abandoned, signal, context, release, made, outcome>>

BackoffAborted ==
  /\ pc = "backoff" /\ signal # "none"
  /\ pc' = "stepEnd" /\ error' = signal
  /\ UNCHANGED <<step, attempt, call, abandoned, signal, context, release,
                 made, outcome>>

\* A scenario timeout on the signal replaces any other error of the step.
StepError ==
  IF signal = "scenarioTimeout" /\ error # "undefined" THEN signal ELSE error

BugContinueAfterFailure ==
  /\ pc = "stepEnd"
  /\ pc' = "between" /\ step' = step + 1 /\ error' = "none"
  /\ stepResults' = Append(stepResults,
                           IF StepError = "skip" THEN "skipped" ELSE "failed")
  /\ UNCHANGED <<attempt, call, abandoned, signal, context, release, made,
                 verdict>>

StepFails ==
  /\ pc = "stepEnd"
  /\ pc' = "unwind" /\ error' = StepError
  /\ stepResults' = Append(stepResults,
                           IF StepError = "skip" THEN "skipped" ELSE "failed")
  /\ UNCHANGED <<step, attempt, call, abandoned, signal, context, release,
                 made, verdict>>

-----------------------------------------------------------------------------
\* Leaving the scope of `await using stack', and the result

BeginDisposal ==
  /\ pc = "unwind"
  /\ pc' = "disposing"
  /\ UNCHANGED <<step, attempt, call, abandoned, error, signal, context,
                 release, made, outcome>>

\* What the scenario fails with after a disposer has thrown: its error
\* suppresses the one on its way up, a Skip of its own only if there is none.
After(thrown) ==
  CASE thrown = "none" -> error
    [] thrown = "skip" /\ error = "none" -> "skip"
    [] OTHER -> "disposal"

BugStopAtFailingDisposer(thrown) ==
  /\ pc = "disposing" /\ top > 0
  /\ disposals' = Append(disposals, stack[top])
  /\ top' = IF thrown # "none" THEN 0 ELSE top - 1
  /\ error' = After(thrown)
  /\ UNCHANGED <<control, call, abandoned, signal, context, stack, made,
                 outcome>>

\* A disposer that throws does not stop the others.
Dispose(thrown) ==
  /\ pc = "disposing" /\ top > 0
  /\ disposals' = Append(disposals, stack[top])
  /\ top' = top - 1
  /\ error' = After(thrown)
  /\ UNCHANGED <<control, call, abandoned, signal, context, stack, made,
                 outcome>>

\* error "undefined" is the undefined that retry throws: not a Skip.
End ==
  /\ pc = "disposing" /\ top = 0
  /\ pc' = "ended"
  /\ verdict' = CASE error = "none" -> "passed"
                  [] error = "skip" -> "skipped"
                  [] OTHER -> "failed"
  /\ UNCHANGED <<step, attempt, call, abandoned, error, signal, context,
                 release, made, stepResults>>

Terminated == pc = "ended" /\ abandoned = {} /\ UNCHANGED vars

Runner ==
  \/ BeginStep \/ BeginStepWithoutAttempts \/ AbortedBetweenSteps
  \/ LastStepDone \/ AttemptPasses \/ AttemptThrows \/ AttemptAborted
  \/ BackoffElapses \/ BackoffAborted \/ StepFails \/ BeginDisposal \/ End

Thrown == {"none", "error", "skip"}

UserCode ==
  \/ \E d \in BOOLEAN : CallReturns(d)
  \/ \E s \in abandoned, d \in BOOLEAN : LateReturn(s, d)
  \/ \E s \in abandoned : LateThrow(s)
  \/ \E e \in {"error", "skip"} : CallThrows(e)
  \/ ReporterThrows \/ AbortedInStepStart
  \/ \E t \in Thrown : Dispose(t)

Timers == ScenarioTimerFires \/ StepTimerFires

Next ==
  \/ Runner \/ UserCode \/ Timers
  \/ \E r \in AbortReasons \ {"scenarioTimeout"} : Abort(r)
  \/ Terminated

Spec == Init /\ [][Next]_vars

\* Continuations run, every attempt has a timer, and disposers answer.  Step
\* functions need not.
Fairness ==
  /\ WF_vars(Runner)
  /\ WF_vars(StepTimerFires)
  /\ WF_vars(\E t \in Thrown : Dispose(t))

FairSpec == Spec /\ Fairness

-----------------------------------------------------------------------------
Statuses == {"passed", "failed", "skipped"}
Errors == Reasons \union {"none", "error", "undefined", "stepTimeout",
                          "disposal"}

\* Every variable has its type.
TypeOK ==
  /\ pc \in {"between", "attempt", "backoff", "stepEnd", "unwind",
             "disposing", "ended"}
  /\ step \in 1 .. NumSteps + 1
  /\ attempt \in Nat
  /\ call \in {"idle", "running", "returned", "threw"}
  /\ abandoned \subseteq Step
  /\ error \in Errors
  /\ signal \in Reasons \union {"none"}
  /\ results \in Seq(Step) /\ resources \subseteq Step
  /\ stack \in Seq(Step) /\ top \in 0 .. Len(stack)
  /\ disposals \in Seq(Step)
  /\ made \subseteq Step
  /\ stepResults \in Seq(Statuses)
  /\ verdict \in Statuses \union {"none"}

-----------------------------------------------------------------------------
\* A scenario gets its result only when every disposable it registered has
\* been disposed, once each, the youngest first (the await using of #run),
\* whatever threw on the way and however late a step function answered.
ReleasedBeforeVerdict == verdict # "none" => disposals = Reverse(stack)

\* What a step that passed handed out is owned by the stack, so it is never
\* lost: registration comes before the attempt can pass.
PassedStepsAreOwned ==
  \A s \in made : s \in DOMAIN stepResults /\ stepResults[s] = "passed"
                  => s \in Range(stack)

AllPassed ==
  Len(stepResults) = NumSteps /\ \A s \in Step : stepResults[s] = "passed"

\* A failure ends the scenario: only the last step result can be other than
\* passed, a passed scenario passed all its steps, and a skipped one was
\* skipped by its last step or by the run, never by an earlier attempt, or by
\* a disposer after all its steps have passed.
FirstFailureDecides ==
  /\ \A i \in DOMAIN stepResults :
        stepResults[i] # "passed" => i = Len(stepResults)
  /\ verdict = "passed" => AllPassed
  /\ verdict = "skipped" =>
       \/ "skipped" \in Range(stepResults) \/ signal = "skip"
       \/ AllPassed /\ disposals # <<>>

\* Every attempt of a step, a retry too, sees in its context the values of
\* exactly the steps that passed before it, in order and once each
\* (context.ts): no abandoned or failed attempt leaves a value behind for it.
ContextIsThePassedSteps ==
  pc = "attempt" /\ call = "running" =>
    /\ Range(results) = {s \in 1 .. step - 1 : Kind[s] = "step"}
    /\ \A i, j \in DOMAIN results : i < j => results[i] < results[j]
    /\ resources = {s \in 1 .. step - 1 : Kind[s] = "resource"}

\* While a step function that was given up is still running, the scenario
\* calls no other step function: a timed-out attempt is not retried, and
\* neither is one cut short by the signal (shouldRetry, retry.ts 106).
NoOverlap == [][abandoned # {} => ~(call # "running" /\ call' = "running")]_vars

\* A scenario ends even if its step functions hang, provided that every
\* disposer answers: the timer of the attempt frees it.
Terminates == <>(verdict # "none")

\* The execution implements the promise of Scenario.  An error counts from
\* where the runner gives up on the step, not while it may yet be retried.
Faulty == pc \notin {"attempt", "backoff"} /\ error # "none"

Promise == INSTANCE Scenario WITH
  Disposables <- Step,
  held <- {stack[i] : i \in 1 .. top},
  released <- Range(disposals),
  closed <- ~StackOpen,
  faulty <- Faulty

KeepsPromise == Promise!Spec

\* packages/probitas-core/types/step.ts, of SetupCleanup: "automatically
\* invoked after the scenario completes (regardless of success or failure)".
CleanupsAreInvoked ==
  pc = "ended" => {s \in made : Kind[s] = "setup"} \subseteq Range(disposals)
=============================================================================
