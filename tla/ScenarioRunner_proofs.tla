------------------------ MODULE ScenarioRunner_proofs ------------------------
(***************************************************************************)
(* Theorems about ScenarioRunner, for every scenario: any number of steps, *)
(* of any kinds, with any number of attempts.                              *)
(***************************************************************************)
EXTENDS ScenarioRunner, SequenceTheorems, TLAPS

\* What a throwing disposer leaves of the error on its way up.
LEMMA AfterDisposer ==
  ASSUME NEW t \in Thrown
  PROVE  /\ error \in Errors => After(t) \in Errors
         /\ After(t) = "none" => error = "none"
         /\ After(t) = "skip" => error \in {"none", "skip"}
<1>1. After(t) \in {error, "skip", "disposal"}
  BY DEF After
<1>2. t = "none" => After(t) = error
  BY DEF After
<1>3. t = "skip" => After(t) = IF error = "none" THEN "skip" ELSE "disposal"
  BY DEF After
<1>4. t = "error" => After(t) = "disposal"
  BY DEF After
<1> QED
  BY <1>1, <1>2, <1>3, <1>4 DEF Thrown, Errors, Reasons

LEMMA ReasonsAreErrors == \A r \in AbortReasons : r \in Errors /\ r \in Reasons /\ r # "none"
BY StepsAssumption DEF Errors, Reasons

-----------------------------------------------------------------------------
\* What an answered step function does to the stack and the context.
LEMMA RegisterType ==
  ASSUME TypeOK, NEW s \in Step, NEW d \in BOOLEAN, Register(s, d)
  PROVE  /\ made' \subseteq Step
         /\ stack' \in Seq(Step) /\ top' \in 0 .. Len(stack')
         /\ resources' \subseteq Step /\ results' \in Seq(Step)
<1>1. Append(stack, s) \in Seq(Step) /\ Append(results, s) \in Seq(Step)
      /\ Len(Append(stack, s)) = Len(stack) + 1
  BY AppendProperties DEF TypeOK
<1>2. \/ stack' = Append(stack, s) /\ top' = top + 1
      \/ stack' = stack /\ top' = top
  BY Zenon DEF Register
<1>3. stack' \in Seq(Step) /\ top' \in 0 .. Len(stack')
  <2>1. Len(stack) \in Nat /\ stack \in Seq(Step) /\ top \in 0 .. Len(stack)
    BY LenProperties DEF TypeOK
  <2>2. CASE stack' = Append(stack, s) /\ top' = top + 1
    <3>1. Len(stack') = Len(stack) + 1
      BY <1>1, <2>2
    <3> QED
      BY <2>1, <2>2, <3>1, <1>1
  <2>3. CASE stack' = stack /\ top' = top
    BY <2>1, <2>3
  <2> QED
    BY <1>2, <2>2, <2>3
<1>4. made' \subseteq Step /\ resources' \subseteq Step
  BY DEF TypeOK, Register
<1>5. results' \in Seq(Step)
  BY <1>1 DEF TypeOK, Register
<1> QED
  BY <1>3, <1>4, <1>5

\* The type invariant (all state of ScenarioRunner and StepRunner).  Stated
\* with the one fact about control it needs: a step is attempted, or fails,
\* only if it exists.
Located == pc \in {"attempt", "backoff", "stepEnd"} => step \in Step

THEOREM TypeCorrect == Spec => [](TypeOK /\ Located)
<1> USE DEF Errors, Reasons, Statuses
<1>1. Init => TypeOK /\ Located
  BY StepsAssumption, EmptySeq DEF Init, TypeOK, Located
<1>2. TypeOK /\ Located /\ [Next]_vars => TypeOK' /\ Located'
  <2> SUFFICES ASSUME TypeOK, Located, [Next]_vars
               PROVE  TypeOK' /\ Located'
    OBVIOUS
  <2> USE DEF control, context, release, outcome
  <2>0. /\ NumSteps \in Nat /\ AbortReasons \subseteq Reasons
        /\ step <= NumSteps => step \in Step
        /\ step \in Step => step + 1 \in 1 .. NumSteps + 1
    BY StepsAssumption DEF TypeOK, Step
  <2>1. CASE BeginStep \/ BeginStepWithoutAttempts \/ AbortedInStepStart \/ BackoffElapses
    BY <2>0, <2>1, ReasonsAreErrors DEF BeginStep, BeginStepWithoutAttempts, AbortedInStepStart, BackoffElapses,
       BeginAttempt, TypeOK, Located
  <2>2. CASE ReporterThrows \/ AbortedBetweenSteps \/ LastStepDone
    BY <2>0, <2>2 DEF ReporterThrows, AbortedBetweenSteps, LastStepDone, TypeOK, Located
  <2>3. ASSUME NEW d \in BOOLEAN, CallReturns(d) PROVE TypeOK' /\ Located'
    BY <2>0, <2>3, RegisterType DEF CallReturns, TypeOK, Located
  <2>4. ASSUME NEW s \in abandoned, NEW d \in BOOLEAN, LateReturn(s, d)
        PROVE  TypeOK' /\ Located'
    BY <2>0, <2>4, RegisterType DEF LateReturn, TypeOK, Located
  <2>5. ASSUME NEW e \in {"error", "skip"}, CallThrows(e)
        PROVE  TypeOK' /\ Located'
    BY <2>0, <2>5 DEF CallThrows, TypeOK, Located
  <2>6. CASE AttemptPasses
    BY <2>0, <2>6, AppendProperties DEF AttemptPasses, TypeOK, Located
  <2>7. CASE AttemptThrows \/ AttemptAborted \/ StepTimerFires
    BY <2>0, <2>7 DEF AttemptThrows, AttemptAborted, StepTimerFires, Caught, TypeOK, Located
  <2>8. ASSUME NEW s \in abandoned, LateThrow(s) PROVE TypeOK' /\ Located'
    BY <2>0, <2>8 DEF LateThrow, TypeOK, Located
  <2>9. CASE StepFails
    BY <2>0, <2>9, AppendProperties DEF StepFails, StepError, TypeOK, Located
  <2>10. ASSUME NEW t \in Thrown, Dispose(t) PROVE TypeOK' /\ Located'
    <3>1. stack[top] \in Step /\ top - 1 \in 0 .. Len(stack)
      BY <2>10, ElementOfSeq, LenProperties DEF Dispose, TypeOK
    <3> QED
      BY <2>0, <2>10, <3>1, AppendProperties, AfterDisposer DEF Dispose, TypeOK, Located
  <2>11. CASE End \/ BackoffAborted \/ BeginDisposal
    BY <2>0, <2>11 DEF End, BackoffAborted, BeginDisposal, TypeOK, Located
  <2>12. CASE ScenarioTimerFires
    BY <2>0, <2>12 DEF ScenarioTimerFires, TypeOK, Located
  <2>13. ASSUME NEW r \in AbortReasons \ {"scenarioTimeout"}, Abort(r)
         PROVE  TypeOK' /\ Located'
    BY <2>0, <2>13 DEF Abort, TypeOK, Located
  <2>14. CASE Terminated \/ UNCHANGED vars
    BY <2>14 DEF Terminated, vars, TypeOK, Located
  <2> QED
    BY <2>1, <2>2, <2>3, <2>4, <2>5, <2>6, <2>7, <2>8, <2>9, <2>10, <2>11,
       <2>12, <2>13, <2>14 DEF Next, Runner, UserCode, Timers
<1> QED
  BY <1>1, <1>2, PTL DEF Spec

LEMMA TypeAlways == Spec => []TypeOK
BY TypeCorrect, PTL

-----------------------------------------------------------------------------
\* Once a step function has been given up, the scenario is past its last step.
GaveUp == abandoned # {} => pc \notin {"between", "attempt", "backoff"}

LEMMA GaveUpInductive == GaveUp /\ [Next]_vars => GaveUp'
<1> SUFFICES ASSUME GaveUp, [Next]_vars PROVE GaveUp'
  OBVIOUS
<1> USE DEF GaveUp, control
<1>1. CASE BeginStep \/ BeginStepWithoutAttempts \/ AbortedInStepStart \/ BackoffElapses
  BY <1>1 DEF BeginStep, BeginStepWithoutAttempts, AbortedInStepStart, BackoffElapses, BeginAttempt
<1>2. CASE ReporterThrows \/ AbortedBetweenSteps \/ LastStepDone
  BY <1>2 DEF ReporterThrows, AbortedBetweenSteps, LastStepDone
<1>3. ASSUME NEW d \in BOOLEAN, CallReturns(d) PROVE GaveUp'
  BY <1>3 DEF CallReturns
<1>4. ASSUME NEW s \in abandoned, NEW d \in BOOLEAN, LateReturn(s, d) PROVE GaveUp'
  BY <1>4 DEF LateReturn
<1>5. ASSUME NEW e \in {"error", "skip"}, CallThrows(e) PROVE GaveUp'
  BY <1>5 DEF CallThrows
<1>6. CASE AttemptPasses
  BY <1>6 DEF AttemptPasses
<1>7. CASE AttemptThrows
  BY <1>7 DEF AttemptThrows, Caught
<1>8. CASE AttemptAborted \/ StepTimerFires
  BY <1>8 DEF AttemptAborted, StepTimerFires, Caught, ShouldRetry
<1>9. ASSUME NEW s \in abandoned, LateThrow(s) PROVE GaveUp'
  BY <1>9 DEF LateThrow
<1>10. CASE StepFails \/ End \/ BackoffAborted \/ BeginDisposal
  BY <1>10 DEF StepFails, End, BackoffAborted, BeginDisposal
<1>11. ASSUME NEW t \in Thrown, Dispose(t) PROVE GaveUp'
  BY <1>11 DEF Dispose
<1>12. CASE ScenarioTimerFires
  BY <1>12 DEF ScenarioTimerFires
<1>13. ASSUME NEW r \in AbortReasons \ {"scenarioTimeout"}, Abort(r) PROVE GaveUp'
  BY <1>13 DEF Abort
<1>14. CASE Terminated \/ UNCHANGED vars
  BY <1>14 DEF Terminated, vars
<1> QED
  BY <1>1, <1>2, <1>3, <1>4, <1>5, <1>6, <1>7, <1>8, <1>9, <1>10, <1>11,
     <1>12, <1>13, <1>14 DEF Next, Runner, UserCode, Timers

LEMMA GaveUpAlways == Spec => []GaveUp
<1>1. Init => GaveUp
  BY DEF Init, GaveUp
<1> QED
  BY <1>1, GaveUpInductive, PTL DEF Spec

\* A step function that was given up never runs next to a later one
\* (shouldRetry of step_runner.ts, the check of the signal in retry.ts).
THEOREM NoOverlapHolds == Spec => NoOverlap
<1>1. GaveUp /\ [Next]_vars =>
        [abandoned # {} => ~(call # "running" /\ call' = "running")]_vars
  <2> SUFFICES ASSUME GaveUp, Next, abandoned # {}, call # "running"
               PROVE  call' # "running"
    OBVIOUS
  <2> USE DEF GaveUp
  <2>1. ~(BeginStep \/ BackoffElapses)
    BY DEF BeginStep, BackoffElapses
  <2>2. CASE \/ BeginStepWithoutAttempts \/ AbortedInStepStart \/ ReporterThrows \/ AbortedBetweenSteps
             \/ LastStepDone
    BY <2>2 DEF BeginStepWithoutAttempts, AbortedInStepStart, ReporterThrows, AbortedBetweenSteps,
       LastStepDone
  <2>3. CASE AttemptPasses \/ AttemptThrows \/ AttemptAborted \/ StepTimerFires
    BY <2>3 DEF AttemptPasses, AttemptThrows, AttemptAborted, StepTimerFires, Caught
  <2>4. CASE StepFails \/ End \/ BackoffAborted \/ BeginDisposal \/ Terminated
    BY <2>4 DEF StepFails, End, BackoffAborted, BeginDisposal, Terminated, vars
  <2>5. ASSUME NEW d \in BOOLEAN, CallReturns(d) PROVE call' # "running"
    BY <2>5 DEF CallReturns
  <2>6. ASSUME NEW s \in abandoned, NEW d \in BOOLEAN, LateReturn(s, d)
        PROVE  call' # "running"
    BY <2>6 DEF LateReturn
  <2>7. ASSUME NEW s \in abandoned, LateThrow(s) PROVE call' # "running"
    BY <2>7 DEF LateThrow
  <2>8. ASSUME NEW e \in {"error", "skip"}, CallThrows(e) PROVE call' # "running"
    BY <2>8 DEF CallThrows
  <2>9. ASSUME NEW t \in Thrown, Dispose(t) PROVE call' # "running"
    BY <2>9 DEF Dispose
  <2>10. ASSUME NEW r \in AbortReasons \ {"scenarioTimeout"}, Abort(r)
         PROVE  call' # "running"
    BY <2>10 DEF Abort
  <2>11. CASE ScenarioTimerFires
    BY <2>11 DEF ScenarioTimerFires
  <2> QED
    BY <2>1, <2>2, <2>3, <2>4, <2>5, <2>6, <2>7, <2>8, <2>9, <2>10, <2>11
       DEF Next, Runner, UserCode, Timers
<1> QED
  BY <1>1, GaveUpAlways, PTL DEF Spec, NoOverlap

-----------------------------------------------------------------------------
\* What has been disposed is the top of the stack, youngest first.  While the
\* stack is open nothing is; once it is closed nothing is added to it.
DisposedFromTop ==
  /\ Len(disposals) = Len(stack) - top
  /\ \A i \in 1 .. Len(disposals) : disposals[i] = stack[Len(stack) - i + 1]
  /\ StackOpen => top = Len(stack)
  /\ pc = "ended" => top = 0
  /\ verdict # "none" => pc = "ended"

LEMMA RegisterKeepsDisposed ==
  ASSUME TypeOK, DisposedFromTop, NEW s \in Step, NEW d \in BOOLEAN,
         Register(s, d), UNCHANGED <<pc, disposals, verdict>>
  PROVE  DisposedFromTop'
<1>1. Append(stack, s) \in Seq(Step) /\ Len(Append(stack, s)) = Len(stack) + 1
  BY AppendProperties DEF TypeOK
<1>2. Len(stack) \in Nat /\ Len(disposals) \in Nat /\ top \in Nat
  BY LenProperties DEF TypeOK
<1>3. CASE stack' = Append(stack, s) /\ top' = top + 1 /\ StackOpen
  <2>1. Len(disposals) = 0 /\ Len(stack') = Len(stack) + 1 /\ top' = Len(stack')
    BY <1>1, <1>2, <1>3 DEF DisposedFromTop
  <2>2. StackOpen' /\ pc' # "ended" /\ verdict' = "none"
    BY <1>3 DEF StackOpen, DisposedFromTop
  <2> QED
    BY <1>2, <2>1, <2>2 DEF DisposedFromTop
<1>4. CASE stack' = stack /\ top' = top
  BY <1>4 DEF DisposedFromTop, StackOpen
<1> QED
  BY <1>3, <1>4, Zenon DEF Register

LEMMA DisposedInductive ==
  TypeOK /\ Located /\ DisposedFromTop /\ [Next]_vars => DisposedFromTop'
<1> SUFFICES ASSUME TypeOK, Located, DisposedFromTop, [Next]_vars
             PROVE  DisposedFromTop'
  OBVIOUS
<1> USE DEF control, release, outcome
<1>1. CASE \/ BeginStep \/ BeginStepWithoutAttempts \/ AbortedInStepStart \/ BackoffElapses
           \/ AbortedBetweenSteps \/ LastStepDone \/ ReporterThrows
  BY <1>1 DEF BeginStep, BeginStepWithoutAttempts, AbortedInStepStart, BackoffElapses, BeginAttempt,
     AbortedBetweenSteps, LastStepDone, ReporterThrows, DisposedFromTop, StackOpen
<1>2. CASE AttemptPasses \/ AttemptThrows \/ AttemptAborted \/ StepTimerFires
  BY <1>2 DEF AttemptPasses, AttemptThrows, AttemptAborted, StepTimerFires,
     Caught, DisposedFromTop, StackOpen
<1>3. CASE StepFails \/ BackoffAborted \/ BeginDisposal
  BY <1>3 DEF StepFails, BackoffAborted, BeginDisposal, DisposedFromTop, StackOpen
<1>4. ASSUME NEW d \in BOOLEAN, CallReturns(d) PROVE DisposedFromTop'
  BY <1>4, RegisterKeepsDisposed DEF CallReturns, Located
<1>5. ASSUME NEW s \in abandoned, NEW d \in BOOLEAN, LateReturn(s, d)
      PROVE  DisposedFromTop'
  BY <1>5, RegisterKeepsDisposed DEF LateReturn, TypeOK
<1>6. ASSUME NEW e \in {"error", "skip"}, CallThrows(e) PROVE DisposedFromTop'
  BY <1>6 DEF CallThrows, DisposedFromTop, StackOpen
<1>7. ASSUME NEW s \in abandoned, LateThrow(s) PROVE DisposedFromTop'
  BY <1>7 DEF LateThrow, DisposedFromTop, StackOpen
<1>8. ASSUME NEW t \in Thrown, Dispose(t) PROVE DisposedFromTop'
  <2>1. /\ Len(stack) \in Nat /\ Len(disposals) \in Nat
        /\ top \in 1 .. Len(stack) /\ stack[top] \in Step
    BY <1>8, LenProperties, ElementOfSeq DEF Dispose, TypeOK
  <2>2. /\ Len(disposals') = Len(disposals) + 1
        /\ \A i \in 1 .. Len(disposals) : disposals'[i] = disposals[i]
        /\ disposals'[Len(disposals) + 1] = stack[top]
    BY <1>8, <2>1, AppendProperties DEF Dispose, TypeOK
  <2>3. stack' = stack /\ top' = top - 1 /\ pc = "disposing" /\ pc' = pc
        /\ verdict' = verdict
    BY <1>8 DEF Dispose
  <2>4. ASSUME NEW i \in 1 .. Len(disposals')
        PROVE  disposals'[i] = stack'[Len(stack') - i + 1]
    <3>1. Len(disposals) = Len(stack) - top
      BY DEF DisposedFromTop
    <3>2. CASE i = Len(disposals) + 1
      <4>1. Len(stack) - i + 1 = top
        BY <2>1, <3>1, <3>2
      <4> QED
        BY <2>2, <2>3, <3>2, <4>1
    <3>3. CASE i \in 1 .. Len(disposals)
      BY <2>2, <2>3, <3>3 DEF DisposedFromTop
    <3> QED
      BY <2>1, <2>2, <3>2, <3>3
  <2>5. Len(disposals') = Len(stack') - top'
    BY <2>1, <2>2, <2>3 DEF DisposedFromTop
  <2>6. ~StackOpen' /\ pc' # "ended" /\ verdict' = "none"
    BY <2>3 DEF DisposedFromTop, StackOpen
  <2> QED
    BY <2>4, <2>5, <2>6, Zenon DEF DisposedFromTop
<1>9. CASE End
  BY <1>9 DEF End, DisposedFromTop, StackOpen
<1>10. ASSUME NEW r \in AbortReasons \ {"scenarioTimeout"}, Abort(r)
       PROVE  DisposedFromTop'
  BY <1>10 DEF Abort, DisposedFromTop, StackOpen
<1>11. CASE ScenarioTimerFires \/ Terminated \/ UNCHANGED vars
  BY <1>11 DEF ScenarioTimerFires, Terminated, vars, DisposedFromTop, StackOpen
<1> QED
  BY <1>1, <1>2, <1>3, <1>4, <1>5, <1>6, <1>7, <1>8, <1>9, <1>10, <1>11
     DEF Next, Runner, UserCode, Timers

LEMMA DisposedAlways == Spec => []DisposedFromTop
<1>1. Init => DisposedFromTop
  BY DEF Init, DisposedFromTop
<1> QED
  BY <1>1, DisposedInductive, TypeCorrect, PTL DEF Spec

\* Every registered disposable is disposed, once, in reverse order, before
\* the scenario has a result (await using in scenario_runner.ts).
THEOREM Released == Spec => []ReleasedBeforeVerdict
<1>1. TypeOK /\ DisposedFromTop => ReleasedBeforeVerdict
  <2> SUFFICES ASSUME TypeOK, DisposedFromTop, verdict # "none"
               PROVE  disposals = Reverse(stack)
    BY DEF ReleasedBeforeVerdict
  <2>1. Len(disposals) = Len(stack) /\ Len(stack) \in Nat
    BY LenProperties DEF TypeOK, DisposedFromTop
  <2>2. disposals = [i \in 1 .. Len(disposals) |-> disposals[i]]
    BY DEF TypeOK
  <2> QED
    BY <2>1, <2>2 DEF DisposedFromTop, Reverse
<1> QED
  BY <1>1, TypeAlways, DisposedAlways, PTL

-----------------------------------------------------------------------------
\* What the results and the error on its way up say about each other.
Passed(s) == s \in DOMAIN stepResults /\ stepResults[s] = "passed"
Leaving == pc \in {"unwind", "disposing", "ended"}

ErrorLocated ==
  /\ pc = "between" => error = "none"
  /\ pc = "attempt" => call # "idle" /\ (call # "threw" <=> error = "none")
  /\ pc = "stepEnd" => error # "none"

ResultsUpToStep ==
  /\ ~Leaving => Len(stepResults) = step - 1 /\ \A i \in 1 .. step - 1 : Passed(i)
  /\ \A i \in DOMAIN stepResults : stepResults[i] # "passed" => i = Len(stepResults)
  /\ Leaving /\ error = "none" =>
       Len(stepResults) = NumSteps /\ \A i \in Step : Passed(i)
  /\ verdict = "passed" => error = "none"
  /\ verdict # "none" => pc = "ended"

LEMMA ErrorLocatedInductive == ErrorLocated /\ [Next]_vars => ErrorLocated'
<1> SUFFICES ASSUME ErrorLocated, [Next]_vars PROVE ErrorLocated'
  OBVIOUS
<1> USE DEF ErrorLocated, control
<1>1. CASE BeginStep \/ BeginStepWithoutAttempts \/ AbortedInStepStart \/ BackoffElapses
  BY <1>1, ReasonsAreErrors
     DEF BeginStep, BeginStepWithoutAttempts, AbortedInStepStart, BackoffElapses, BeginAttempt
<1>2. CASE AbortedBetweenSteps \/ LastStepDone \/ ReporterThrows
  BY <1>2 DEF AbortedBetweenSteps, LastStepDone, ReporterThrows
<1>3. CASE AttemptPasses
  BY <1>3 DEF AttemptPasses
<1>4. CASE AttemptThrows \/ AttemptAborted \/ StepTimerFires
  BY <1>4 DEF AttemptThrows, AttemptAborted, StepTimerFires, Caught
<1>5. CASE StepFails \/ BackoffAborted \/ BeginDisposal \/ End
  BY <1>5 DEF StepFails, BackoffAborted, BeginDisposal, End
<1>6. ASSUME NEW d \in BOOLEAN, CallReturns(d) PROVE ErrorLocated'
  BY <1>6 DEF CallReturns
<1>7. ASSUME NEW s \in abandoned, NEW d \in BOOLEAN, LateReturn(s, d)
      PROVE  ErrorLocated'
  BY <1>7 DEF LateReturn
<1>8. ASSUME NEW e \in {"error", "skip"}, CallThrows(e) PROVE ErrorLocated'
  BY <1>8 DEF CallThrows
<1>9. ASSUME NEW s \in abandoned, LateThrow(s) PROVE ErrorLocated'
  BY <1>9 DEF LateThrow
<1>10. ASSUME NEW t \in Thrown, Dispose(t) PROVE ErrorLocated'
  BY <1>10 DEF Dispose
<1>11. ASSUME NEW r \in AbortReasons \ {"scenarioTimeout"}, Abort(r)
       PROVE  ErrorLocated'
  BY <1>11 DEF Abort
<1>12. CASE ScenarioTimerFires \/ Terminated \/ UNCHANGED vars
  BY <1>12 DEF ScenarioTimerFires, Terminated, vars
<1> QED
  BY <1>1, <1>2, <1>3, <1>4, <1>5, <1>6, <1>7, <1>8, <1>9, <1>10, <1>11,
     <1>12 DEF Next, Runner, UserCode, Timers

LEMMA ErrorLocatedAlways == Spec => []ErrorLocated
<1>1. Init => ErrorLocated
  BY DEF Init, ErrorLocated
<1> QED
  BY <1>1, ErrorLocatedInductive, PTL DEF Spec

LEMMA ResultsInductive ==
  TypeOK /\ Located /\ ErrorLocated /\ ResultsUpToStep /\ [Next]_vars
    => ResultsUpToStep'
<1> SUFFICES ASSUME TypeOK, Located, ErrorLocated, ResultsUpToStep, [Next]_vars
             PROVE  ResultsUpToStep'
  OBVIOUS
<1> USE DEF control, outcome, Leaving
<1>0. Len(stepResults) \in Nat /\ DOMAIN stepResults = 1 .. Len(stepResults)
  BY LenProperties DEF TypeOK
<1>1. CASE \/ BeginStep \/ BeginStepWithoutAttempts \/ AbortedInStepStart \/ BackoffElapses
           \/ BackoffAborted
  BY <1>1 DEF BeginStep, BeginStepWithoutAttempts, AbortedInStepStart, BackoffElapses, BeginAttempt,
     BackoffAborted, ResultsUpToStep, Passed
<1>2. CASE AbortedBetweenSteps \/ ReporterThrows
  BY <1>2 DEF AbortedBetweenSteps, ReporterThrows, ResultsUpToStep, Passed
<1>3. CASE LastStepDone
  <2>1. step = NumSteps + 1 /\ Step = 1 .. step - 1
    BY <1>3, StepsAssumption DEF LastStepDone, TypeOK, Step
  <2> QED
    BY <1>3, <2>1, StepsAssumption DEF LastStepDone, ResultsUpToStep, Passed
<1>4. CASE AttemptPasses
  <2>1. /\ step' = step + 1 /\ step \in Nat /\ Len(stepResults) = step - 1
        /\ pc' = "between" /\ verdict' = verdict
        /\ \A i \in 1 .. step - 1 : stepResults[i] = "passed"
    BY <1>4 DEF AttemptPasses, ResultsUpToStep, TypeOK, Passed
  <2>2. /\ Len(stepResults') = step /\ DOMAIN stepResults' = 1 .. step
        /\ \A i \in 1 .. step - 1 : stepResults'[i] = stepResults[i]
        /\ stepResults'[step] = "passed"
    BY <1>0, <1>4, <2>1, AppendProperties, LenProperties
       DEF AttemptPasses, TypeOK, Statuses
  <2>3. \A i \in 1 .. step : stepResults'[i] = "passed"
    BY <2>1, <2>2
  <2>4. verdict' = "none"
    BY <1>4, <2>1 DEF AttemptPasses, ResultsUpToStep, TypeOK
  <2> QED
    BY <2>1, <2>2, <2>3, <2>4 DEF ResultsUpToStep, Passed
<1>5. CASE AttemptThrows \/ AttemptAborted \/ StepTimerFires
  BY <1>5 DEF AttemptThrows, AttemptAborted, StepTimerFires, Caught,
     ResultsUpToStep, Passed
<1>6. CASE StepFails
  <2>1. PICK r \in Statuses : stepResults' = Append(stepResults, r)
    BY <1>6 DEF StepFails, Statuses
  <2>2. /\ Len(stepResults) = step - 1 /\ step \in Nat /\ pc' = "unwind"
        /\ error' # "none" /\ verdict' = verdict
        /\ \A i \in 1 .. step - 1 : stepResults[i] = "passed"
    BY <1>6 DEF StepFails, StepError, ErrorLocated, ResultsUpToStep, TypeOK, Passed
  <2>3. /\ Len(stepResults') = step /\ DOMAIN stepResults' = 1 .. step
        /\ \A i \in 1 .. step - 1 : stepResults'[i] = stepResults[i]
    BY <1>0, <2>1, <2>2, AppendProperties, LenProperties DEF TypeOK
  <2>4. verdict' = "none"
    BY <1>6, <2>2 DEF StepFails, ResultsUpToStep, TypeOK
  <2> QED
    BY <2>2, <2>3, <2>4 DEF ResultsUpToStep, Passed
<1>7. CASE BeginDisposal
  BY <1>7 DEF BeginDisposal, ResultsUpToStep, Passed
<1>8. CASE End
  BY <1>8 DEF End, ResultsUpToStep, Passed
<1>9. ASSUME NEW d \in BOOLEAN, CallReturns(d) PROVE ResultsUpToStep'
  BY <1>9 DEF CallReturns, ResultsUpToStep, Passed
<1>10. ASSUME NEW s \in abandoned, NEW d \in BOOLEAN, LateReturn(s, d)
       PROVE  ResultsUpToStep'
  BY <1>10 DEF LateReturn, ResultsUpToStep, Passed
<1>11. ASSUME NEW e \in {"error", "skip"}, CallThrows(e) PROVE ResultsUpToStep'
  BY <1>11 DEF CallThrows, ResultsUpToStep, Passed
<1>12. ASSUME NEW s \in abandoned, LateThrow(s) PROVE ResultsUpToStep'
  BY <1>12 DEF LateThrow, ResultsUpToStep, Passed
<1>13. ASSUME NEW t \in Thrown, Dispose(t) PROVE ResultsUpToStep'
  BY <1>13, AfterDisposer DEF Dispose, ResultsUpToStep, Passed
<1>14. ASSUME NEW r \in AbortReasons \ {"scenarioTimeout"}, Abort(r)
       PROVE  ResultsUpToStep'
  BY <1>14 DEF Abort, ResultsUpToStep, Passed
<1>15. CASE ScenarioTimerFires \/ Terminated \/ UNCHANGED vars
  BY <1>15 DEF ScenarioTimerFires, Terminated, vars, ResultsUpToStep, Passed
<1> QED
  BY <1>1, <1>2, <1>3, <1>4, <1>5, <1>6, <1>7, <1>8, <1>9, <1>10, <1>11,
     <1>12, <1>13, <1>14, <1>15 DEF Next, Runner, UserCode, Timers

LEMMA ResultsAlways == Spec => []ResultsUpToStep
<1>1. Init => ResultsUpToStep
  BY EmptySeq DEF Init, ResultsUpToStep, Leaving
<1> QED
  BY <1>1, ResultsInductive, TypeCorrect, ErrorLocatedAlways, PTL DEF Spec

\* Where a Skip on its way up comes from.
SkipExplained ==
  /\ Leaving /\ error = "skip" =>
       \/ signal = "skip" \/ \E i \in DOMAIN stepResults : stepResults[i] = "skipped"
       \/ AllPassed /\ disposals # <<>>
  /\ verdict = "skipped" => Leaving /\ error = "skip"

LEMMA SkipExplainedInductive ==
  TypeOK /\ ErrorLocated /\ ResultsUpToStep /\ SkipExplained /\ [Next]_vars
    => SkipExplained'
<1> SUFFICES ASSUME TypeOK, ErrorLocated, ResultsUpToStep, SkipExplained, [Next]_vars
             PROVE  SkipExplained'
  OBVIOUS
<1> USE DEF control, outcome, release, Leaving, SkipExplained, AllPassed
<1>1. CASE \/ BeginStep \/ BeginStepWithoutAttempts \/ AbortedInStepStart \/ BackoffElapses
           \/ BackoffAborted
  BY <1>1 DEF BeginStep, BeginStepWithoutAttempts, AbortedInStepStart, BackoffElapses, BeginAttempt,
     BackoffAborted
<1>2. CASE AbortedBetweenSteps \/ ReporterThrows
  BY <1>2 DEF AbortedBetweenSteps, ReporterThrows
<1>3. CASE AttemptPasses
  BY <1>3 DEF AttemptPasses
<1>4. CASE AttemptThrows \/ AttemptAborted \/ StepTimerFires
  BY <1>4 DEF AttemptThrows, AttemptAborted, StepTimerFires, Caught
<1>5. CASE StepFails
  <2>1. CASE StepError = "skip"
    <3>1. stepResults' = Append(stepResults, "skipped") /\ "skipped" \in Statuses
      BY <1>5, <2>1 DEF StepFails, Statuses
    <3>2. /\ Len(stepResults) + 1 \in DOMAIN stepResults'
          /\ stepResults'[Len(stepResults) + 1] = "skipped"
      BY <3>1, AppendProperties, LenProperties DEF TypeOK
    <3>3. verdict' = verdict /\ verdict = "none"
      BY <1>5 DEF StepFails, ResultsUpToStep
    <3> QED
      BY <3>2, <3>3
  <2>2. CASE StepError # "skip"
    BY <1>5, <2>2 DEF StepFails
  <2> QED
    BY <2>1, <2>2
<1>6. CASE LastStepDone
  BY <1>6 DEF LastStepDone, ErrorLocated, ResultsUpToStep
<1>7. CASE BeginDisposal
  BY <1>7 DEF BeginDisposal
<1>8. CASE End
  BY <1>8 DEF End
<1>9. ASSUME NEW d \in BOOLEAN, CallReturns(d) PROVE SkipExplained'
  BY <1>9 DEF CallReturns
<1>10. ASSUME NEW s \in abandoned, NEW d \in BOOLEAN, LateReturn(s, d)
       PROVE  SkipExplained'
  BY <1>10 DEF LateReturn
<1>11. ASSUME NEW e \in {"error", "skip"}, CallThrows(e) PROVE SkipExplained'
  BY <1>11 DEF CallThrows
<1>12. ASSUME NEW s \in abandoned, LateThrow(s) PROVE SkipExplained'
  BY <1>12 DEF LateThrow
<1>13. ASSUME NEW t \in Thrown, Dispose(t) PROVE SkipExplained'
  <2>1. disposals \in Seq(Step) /\ stack[top] \in Step
    BY <1>13, ElementOfSeq, LenProperties DEF Dispose, TypeOK
  <2>2. disposals' # <<>>
    BY <1>13, <2>1, AppendProperties, EmptySeq DEF Dispose
  <2>3. error = "none" => AllPassed
    BY <1>13 DEF Dispose, ResultsUpToStep, Passed
  <2>4. error' = "skip" => error \in {"none", "skip"}
    BY <1>13, AfterDisposer DEF Dispose
  <2>5. pc = "disposing" /\ UNCHANGED <<pc, stepResults, signal, verdict>> /\ verdict = "none"
    BY <1>13 DEF Dispose, ResultsUpToStep
  <2> QED
    BY <2>2, <2>3, <2>4, <2>5
<1>14. ASSUME NEW r \in AbortReasons \ {"scenarioTimeout"}, Abort(r)
       PROVE  SkipExplained'
  BY <1>14 DEF Abort
<1>15. CASE ScenarioTimerFires \/ Terminated \/ UNCHANGED vars
  BY <1>15 DEF ScenarioTimerFires, Terminated, vars
<1> QED
  BY <1>1, <1>2, <1>3, <1>4, <1>5, <1>6, <1>7, <1>8, <1>9, <1>10, <1>11,
     <1>12, <1>13, <1>14, <1>15 DEF Next, Runner, UserCode, Timers

LEMMA SkipExplainedAlways == Spec => []SkipExplained
<1>1. Init => SkipExplained
  BY DEF Init, SkipExplained, Leaving
<1> QED
  BY <1>1, SkipExplainedInductive, TypeAlways, ErrorLocatedAlways, ResultsAlways, PTL
     DEF Spec

\* A scenario stops at its first failure, passes only when all its steps
\* passed, and is skipped only by its last step or by the run
\* (the loop of scenario_runner.ts and the status it derives).
THEOREM FirstFailure == Spec => []FirstFailureDecides
<1>1. TypeOK /\ ResultsUpToStep /\ SkipExplained => FirstFailureDecides
  BY DEF ResultsUpToStep, SkipExplained, FirstFailureDecides, Passed, Leaving, Range, AllPassed
<1> QED
  BY <1>1, TypeAlways, ResultsAlways, SkipExplainedAlways, PTL

-----------------------------------------------------------------------------
\* A disposable outside the stack belongs to a step that did not pass.
Owned ==
  /\ StackOpen => made \subseteq Range(stack)
  /\ \A s \in made : s \in Range(stack) \/ ~Passed(s)
  /\ \A s \in abandoned : ~Passed(s)

LEMMA RangeGrows ==
  ASSUME NEW S, NEW q \in Seq(S), NEW e \in S
  PROVE  Range(Append(q, e)) = Range(q) \union {e}
BY AppendProperties, LenProperties DEF Range

LEMMA OwnedInductive ==
  TypeOK /\ Located /\ GaveUp /\ ResultsUpToStep /\ Owned /\ [Next]_vars => Owned'
<1> SUFFICES ASSUME TypeOK, Located, GaveUp, ResultsUpToStep, Owned, [Next]_vars
             PROVE  Owned'
  OBVIOUS
<1> USE DEF control, outcome, release, Owned, StackOpen
<1>1. ASSUME UNCHANGED <<made, stack, stepResults>>, abandoned' \subseteq abandoned,
             StackOpen' => StackOpen
      PROVE  Owned'
  BY <1>1 DEF Passed
<1>2. CASE \/ BeginStep \/ BeginStepWithoutAttempts \/ AbortedInStepStart \/ BackoffElapses
           \/ BackoffAborted \/ AbortedBetweenSteps \/ ReporterThrows
  BY <1>1, <1>2 DEF BeginStep, BeginStepWithoutAttempts, AbortedInStepStart, BackoffElapses,
     BeginAttempt, BackoffAborted, AbortedBetweenSteps, ReporterThrows
<1>3. CASE LastStepDone \/ AttemptThrows \/ BeginDisposal \/ End
  BY <1>1, <1>3 DEF LastStepDone, AttemptThrows, Caught, BeginDisposal, End
<1>4. CASE AttemptAborted \/ StepTimerFires
  <2>1. UNCHANGED <<made, stack, stepResults>> /\ StackOpen
        /\ abandoned' \subseteq abandoned \union {step}
    BY <1>4 DEF AttemptAborted, StepTimerFires, Caught
  <2>2. ~Passed(step)
    BY <1>4, LenProperties DEF AttemptAborted, StepTimerFires, ResultsUpToStep,
       Leaving, Passed, TypeOK
  <2> QED
    BY <2>1, <2>2 DEF Passed
<1>5. CASE AttemptPasses
  <2>1. abandoned = {} /\ StackOpen /\ StackOpen'
    BY <1>5 DEF AttemptPasses, GaveUp
  <2> QED
    BY <1>5, <2>1 DEF AttemptPasses
<1>6. CASE StepFails
  <2>1. PICK r \in Statuses \ {"passed"} : stepResults' = Append(stepResults, r)
    BY <1>6 DEF StepFails, Statuses
  <2>2. \A s : Passed(s)' => Passed(s)
    BY <2>1, AppendProperties, LenProperties DEF Passed, TypeOK
  <2>3. UNCHANGED <<made, stack, abandoned>> /\ StackOpen
    BY <1>6 DEF StepFails
  <2> QED
    BY <2>2, <2>3
<1>7. ASSUME NEW d \in BOOLEAN, CallReturns(d) PROVE Owned'
  <2>1. /\ StackOpen /\ Register(step, d) /\ step \in Step /\ abandoned = {}
        /\ stepResults' = stepResults /\ abandoned' = abandoned
    BY <1>7 DEF CallReturns, Located, GaveUp
  <2>2. /\ made' \subseteq made \union {step}
        /\ \/ stack' = stack /\ made' = made
           \/ stack' = Append(stack, step)
    BY <2>1 DEF Register
  <2>3. made' \subseteq Range(stack')
    <3>1. Range(Append(stack, step)) = Range(stack) \union {step}
      BY <2>1, RangeGrows DEF TypeOK
    <3> QED
      BY <2>1, <2>2, <3>1
  <2> QED
    BY <2>1, <2>3
<1>8. ASSUME NEW s \in abandoned, NEW d \in BOOLEAN, LateReturn(s, d)
      PROVE  Owned'
  <2>1. /\ Register(s, d) /\ s \in Step /\ ~Passed(s) /\ pc' = pc
        /\ stepResults' = stepResults /\ abandoned' \subseteq abandoned
    BY <1>8 DEF LateReturn, TypeOK
  <2>2. /\ made' \subseteq made \union {s}
        /\ \/ stack' = stack /\ (StackOpen => made' = made)
           \/ stack' = Append(stack, s)
    BY <2>1 DEF Register
  <2>3. Range(stack) \subseteq Range(stack')
        /\ (stack' = Append(stack, s) => s \in Range(stack'))
    <3>1. Range(Append(stack, s)) = Range(stack) \union {s}
      BY <2>1, RangeGrows DEF TypeOK
    <3> QED
      BY <2>2, <3>1
  <2> QED
    BY <2>1, <2>2, <2>3 DEF Passed
<1>9. ASSUME NEW e \in {"error", "skip"}, CallThrows(e) PROVE Owned'
  BY <1>1, <1>9 DEF CallThrows
<1>10. ASSUME NEW s \in abandoned, LateThrow(s) PROVE Owned'
  BY <1>1, <1>10 DEF LateThrow
<1>11. ASSUME NEW t \in Thrown, Dispose(t) PROVE Owned'
  BY <1>1, <1>11 DEF Dispose
<1>12. ASSUME NEW r \in AbortReasons \ {"scenarioTimeout"}, Abort(r) PROVE Owned'
  BY <1>1, <1>12 DEF Abort
<1>13. CASE ScenarioTimerFires \/ Terminated \/ UNCHANGED vars
  BY <1>1, <1>13 DEF ScenarioTimerFires, Terminated, vars
<1> QED
  BY <1>2, <1>3, <1>4, <1>5, <1>6, <1>7, <1>8, <1>9, <1>10, <1>11, <1>12, <1>13
     DEF Next, Runner, UserCode, Timers

LEMMA OwnedAlways == Spec => []Owned
<1>1. Init => Owned
  BY DEF Init, Owned
<1> QED
  BY <1>1, OwnedInductive, TypeCorrect, GaveUpAlways, ResultsAlways, PTL DEF Spec

\* What a step that passed handed out is in the stack
\* (#runResourceStep and #runSetupStep of step_runner.ts).
THEOREM PassedOwned == Spec => []PassedStepsAreOwned
<1>1. Owned => PassedStepsAreOwned
  BY DEF Owned, PassedStepsAreOwned, Passed
<1> QED
  BY <1>1, OwnedAlways, PTL

-----------------------------------------------------------------------------
\* The context while steps are attempted.  Nobody but the current step writes
\* to it then, since none is abandoned (GaveUp).
Answered == IF pc = "attempt" /\ call = "returned" THEN step ELSE step - 1

Increasing(q) == \A i, j \in DOMAIN q : i < j => q[i] < q[j]

ContextUpToDate ==
  pc \in {"between", "attempt", "backoff"} =>
    /\ Range(results) = {s \in 1 .. Answered : Kind[s] = "step"}
    /\ Increasing(results)
    /\ resources = {s \in 1 .. Answered : Kind[s] = "resource"}

LEMMA AppendStaysIncreasing ==
  ASSUME NEW S \in SUBSET Nat, NEW q \in Seq(S), NEW e \in S, Increasing(q),
         \A x \in Range(q) : x < e
  PROVE  Increasing(Append(q, e))
BY AppendProperties, LenProperties DEF Range, Increasing

LEMMA ContextInductive ==
  TypeOK /\ Located /\ GaveUp /\ ContextUpToDate /\ [Next]_vars => ContextUpToDate'
<1> SUFFICES ASSUME TypeOK, Located, GaveUp, ContextUpToDate, [Next]_vars
             PROVE  ContextUpToDate'
  OBVIOUS
<1> USE DEF control, context
<1>0. NumSteps \in Nat /\ step \in 1 .. NumSteps + 1
  BY StepsAssumption DEF TypeOK
<1>1. ASSUME UNCHANGED context,
             pc' \in {"between", "attempt", "backoff"} =>
               pc \in {"between", "attempt", "backoff"} /\ Answered' = Answered
      PROVE  ContextUpToDate'
  BY <1>1 DEF ContextUpToDate, Increasing
<1>2. CASE BeginStep \/ BackoffElapses
  BY <1>1, <1>2 DEF BeginStep, BackoffElapses, BeginAttempt, Answered
<1>3. CASE BeginStepWithoutAttempts \/ AbortedInStepStart \/ AbortedBetweenSteps \/ LastStepDone \/ ReporterThrows
  BY <1>1, <1>3 DEF BeginStepWithoutAttempts, AbortedInStepStart, AbortedBetweenSteps, LastStepDone, ReporterThrows
<1>4. CASE AttemptPasses
  <2>1. Answered = step /\ Answered' = step
    BY <1>0, <1>4 DEF AttemptPasses, Answered
  <2> QED
    BY <1>1, <1>4, <2>1 DEF AttemptPasses
<1>5. CASE AttemptThrows \/ StepTimerFires
  BY <1>1, <1>5 DEF AttemptThrows, StepTimerFires, Caught, Answered
<1>6. CASE AttemptAborted
  BY <1>1, <1>6 DEF AttemptAborted, Caught
<1>7. CASE StepFails \/ BackoffAborted \/ BeginDisposal \/ End
  BY <1>1, <1>7 DEF StepFails, BackoffAborted, BeginDisposal, End
<1>8. ASSUME NEW d \in BOOLEAN, CallReturns(d) PROVE ContextUpToDate'
  <2>1. /\ pc = "attempt" /\ call = "running" /\ call' = "returned"
        /\ pc' = pc /\ step' = step /\ step \in Nat /\ step \in Step /\ StackOpen
    BY <1>0, <1>8 DEF CallReturns, Located, StackOpen
  <2>2. Answered = step - 1 /\ Answered' = step
    BY <2>1 DEF Answered
  <2>3. /\ Range(results) = {s \in 1 .. step - 1 : Kind[s] = "step"}
        /\ Increasing(results)
        /\ resources = {s \in 1 .. step - 1 : Kind[s] = "resource"}
    BY <2>1, <2>2 DEF ContextUpToDate
  <2>4. /\ results' = IF Kind[step] = "step" THEN Append(results, step) ELSE results
        /\ resources' = IF Kind[step] = "resource" THEN resources \union {step} ELSE resources
    BY <1>8, <2>1 DEF CallReturns, Register
  <2>5. 1 .. step = (1 .. step - 1) \union {step}
    BY <2>1, <1>0 DEF Step
  <2>6. resources' = {s \in 1 .. step : Kind[s] = "resource"}
    BY <2>3, <2>4, <2>5
  <2>7. /\ Range(results') = {s \in 1 .. step : Kind[s] = "step"}
        /\ Increasing(results')
    <3>1. CASE Kind[step] = "step"
      <4> results \in Seq(Step) /\ Step \in SUBSET Nat
        BY DEF TypeOK, Step
      <4>1. Range(Append(results, step)) = Range(results) \union {step}
        BY <2>1, RangeGrows
      <4>2. \A x \in Range(results) : x < step
        BY <2>1, <2>3
      <4>3. Increasing(Append(results, step))
        BY <2>1, <2>3, <4>1, <4>2, AppendStaysIncreasing
      <4>4. results' = Append(results, step)
        BY <2>4, <3>1
      <4>5. Range(results') = {s \in 1 .. step : Kind[s] = "step"}
        BY <2>3, <2>5, <3>1, <4>1, <4>4
      <4> QED
        BY <4>3, <4>4, <4>5
    <3>2. CASE Kind[step] # "step"
      BY <2>3, <2>4, <2>5, <3>2
    <3> QED
      BY <3>1, <3>2
  <2> QED
    BY <2>2, <2>6, <2>7 DEF ContextUpToDate, Increasing
<1>9. ASSUME NEW s \in abandoned, NEW d \in BOOLEAN, LateReturn(s, d)
      PROVE  ContextUpToDate'
  BY <1>9 DEF LateReturn, GaveUp, ContextUpToDate
<1>10. ASSUME NEW e \in {"error", "skip"}, CallThrows(e) PROVE ContextUpToDate'
  BY <1>1, <1>10 DEF CallThrows, Answered
<1>11. ASSUME NEW s \in abandoned, LateThrow(s) PROVE ContextUpToDate'
  BY <1>1, <1>11 DEF LateThrow, Answered
<1>12. ASSUME NEW t \in Thrown, Dispose(t) PROVE ContextUpToDate'
  BY <1>1, <1>12 DEF Dispose, Answered
<1>13. ASSUME NEW r \in AbortReasons \ {"scenarioTimeout"}, Abort(r) PROVE ContextUpToDate'
  BY <1>1, <1>13 DEF Abort, Answered
<1>14. CASE ScenarioTimerFires \/ Terminated \/ UNCHANGED vars
  BY <1>1, <1>14 DEF ScenarioTimerFires, Terminated, vars, Answered
<1> QED
  BY <1>2, <1>3, <1>4, <1>5, <1>6, <1>7, <1>8, <1>9, <1>10, <1>11, <1>12, <1>13,
     <1>14 DEF Next, Runner, UserCode, Timers

\* Every attempt of a step sees the values of exactly the steps that passed
\* before it (context.ts, shared by the attempts of a step, and the writes of
\* step_runner.ts): whatever failed, was retried, timed out or was aborted.
THEOREM ContextIsExact == Spec => []ContextIsThePassedSteps
<1>1. Init => ContextUpToDate
  BY DEF Init, ContextUpToDate, Answered, Increasing, Range
<1>2. TypeOK /\ ContextUpToDate => ContextIsThePassedSteps
  BY DEF ContextUpToDate, Answered, Increasing, ContextIsThePassedSteps
<1> QED
  BY <1>1, <1>2, ContextInductive, TypeCorrect, GaveUpAlways, PTL DEF Spec

-----------------------------------------------------------------------------
\* A step registers at most once: its number is not in the stack as long as
\* it can still be registered.
Pending == pc \in {"between", "backoff"} \/ (pc = "attempt" /\ call \in {"running", "threw"})

RegisteredOnce ==
  /\ \A i, j \in DOMAIN stack : stack[i] = stack[j] => i = j
  /\ \A s \in Range(stack) : s <= step /\ (Pending => s # step) /\ s \notin abandoned
  /\ \A s \in abandoned : s <= step

LEMMA AppendStaysDistinct ==
  ASSUME NEW S, NEW q \in Seq(S), NEW e \in S, e \notin Range(q),
         \A i, j \in DOMAIN q : q[i] = q[j] => i = j
  PROVE  \A i, j \in DOMAIN Append(q, e) :
           Append(q, e)[i] = Append(q, e)[j] => i = j
BY AppendProperties, LenProperties DEF Range

LEMMA OnceInductive ==
  TypeOK /\ Located /\ GaveUp /\ ErrorLocated /\ RegisteredOnce /\ [Next]_vars
    => RegisteredOnce'
<1> SUFFICES ASSUME TypeOK, Located, GaveUp, ErrorLocated, RegisteredOnce, [Next]_vars
             PROVE  RegisteredOnce'
  OBVIOUS
<1> USE DEF control, outcome, release, RegisteredOnce
<1>1. ASSUME UNCHANGED <<stack, step>>, abandoned' \subseteq abandoned,
             Pending' => Pending
      PROVE  RegisteredOnce'
  BY <1>1
<1>2. CASE BeginStep \/ BackoffElapses \/ BackoffAborted \/ AttemptThrows
  BY <1>1, <1>2 DEF BeginStep, BeginAttempt, BackoffElapses, BackoffAborted,
     AttemptThrows, Caught, Pending
<1>3. CASE \/ BeginStepWithoutAttempts \/ AbortedInStepStart \/ AbortedBetweenSteps \/ LastStepDone
           \/ ReporterThrows \/ BeginDisposal \/ End \/ StepFails
  BY <1>1, <1>3 DEF BeginStepWithoutAttempts, AbortedInStepStart, AbortedBetweenSteps, LastStepDone,
     ReporterThrows, BeginDisposal, End, StepFails, Pending
<1>4. CASE AttemptAborted \/ StepTimerFires
  <2>1. /\ UNCHANGED <<stack, step>> /\ ~Pending' /\ step \in Nat
        /\ abandoned' = abandoned
           \/ (call = "running" /\ abandoned' = abandoned \union {step})
        /\ pc = "attempt"
    BY <1>4, StepsAssumption DEF AttemptAborted, StepTimerFires, Caught,
       ShouldRetry, Pending, TypeOK
  <2>2. call = "running" => step \notin Range(stack)
    BY <2>1 DEF Pending
  <2>3. CASE abandoned' = abandoned
    BY <2>1, <2>3
  <2>4. CASE call = "running" /\ abandoned' = abandoned \union {step}
    BY <2>1, <2>2, <2>4
  <2> QED
    BY <2>1, <2>3, <2>4
<1>5. CASE AttemptPasses
  <2>1. /\ UNCHANGED <<stack, abandoned>> /\ step' = step + 1
        /\ step \in Nat /\ abandoned = {}
    BY <1>5, StepsAssumption DEF AttemptPasses, GaveUp, TypeOK
  <2>2. \A s \in Range(stack) : s \in Nat
    <3>1. Range(stack) \subseteq Step
      BY ElementOfSeq, LenProperties DEF Range, TypeOK
    <3> QED
      BY <3>1 DEF Step
  <2> QED
    BY <2>1, <2>2
<1>6. ASSUME NEW s \in Step, NEW d \in BOOLEAN, Register(s, d),
             s \notin Range(stack), s <= step, step' = step,
             ~Pending', abandoned' = abandoned \ {s}
      PROVE  RegisteredOnce'
  <2>1. CASE stack' = Append(stack, s)
    <3>1. Range(stack') = Range(stack) \union {s}
      BY <2>1, RangeGrows DEF TypeOK
    <3>2. \A i, j \in DOMAIN stack' : stack'[i] = stack'[j] => i = j
      BY <1>6, <2>1, AppendStaysDistinct DEF TypeOK
    <3> QED
      BY <1>6, <3>1, <3>2
  <2>2. CASE stack' = stack
    BY <1>6, <2>2
  <2> QED
    BY <1>6, <2>1, <2>2 DEF Register
<1>7. ASSUME NEW d \in BOOLEAN, CallReturns(d) PROVE RegisteredOnce'
  <2>1. /\ Register(step, d) /\ step \in Step /\ step <= step /\ step' = step
        /\ ~Pending' /\ abandoned' = abandoned \ {step} /\ Pending
    BY <1>7, StepsAssumption DEF CallReturns, Located, GaveUp, Pending, TypeOK
  <2>2. step \notin Range(stack)
    BY <2>1
  <2> QED
    BY <1>6, <2>1, <2>2
<1>8. ASSUME NEW s \in abandoned, NEW d \in BOOLEAN, LateReturn(s, d)
      PROVE  RegisteredOnce'
  BY <1>6, <1>8 DEF LateReturn, GaveUp, Pending, TypeOK
<1>9. ASSUME NEW e \in {"error", "skip"}, CallThrows(e) PROVE RegisteredOnce'
  BY <1>1, <1>9 DEF CallThrows, Pending
<1>10. ASSUME NEW s \in abandoned, LateThrow(s) PROVE RegisteredOnce'
  BY <1>1, <1>10 DEF LateThrow, Pending
<1>11. ASSUME NEW t \in Thrown, Dispose(t) PROVE RegisteredOnce'
  BY <1>1, <1>11 DEF Dispose, Pending
<1>12. ASSUME NEW r \in AbortReasons \ {"scenarioTimeout"}, Abort(r)
       PROVE  RegisteredOnce'
  BY <1>1, <1>12 DEF Abort, Pending
<1>13. CASE ScenarioTimerFires \/ Terminated \/ UNCHANGED vars
  BY <1>1, <1>13 DEF ScenarioTimerFires, Terminated, vars, Pending
<1> QED
  BY <1>2, <1>3, <1>4, <1>5, <1>7, <1>8, <1>9, <1>10, <1>11, <1>12, <1>13
     DEF Next, Runner, UserCode, Timers

LEMMA OnceAlways == Spec => []RegisteredOnce
<1>1. Init => RegisteredOnce
  BY EmptySeq DEF Init, RegisteredOnce, Range
<1> QED
  BY <1>1, OnceInductive, TypeCorrect, GaveUpAlways, ErrorLocatedAlways, PTL DEF Spec

\* The detailed execution implements Scenario: disposables are acquired only
\* before the scenario closes, each is released once, and the verdict comes
\* last and is "passed" only if nothing went wrong.
LEMMA InitKeepsPromise == Init => Promise!Init
BY EmptySeq DEF Init, Promise!Init, StackOpen, Faulty, Range

LEMMA StepKeepsPromise ==
  /\ TypeOK /\ Located /\ ErrorLocated /\ DisposedFromTop /\ RegisteredOnce
  /\ [Next]_vars
  => [Promise!Next]_(Promise!scenarioVars)
<1> SUFFICES ASSUME TypeOK, Located, ErrorLocated, DisposedFromTop,
                    RegisteredOnce, [Next]_vars
             PROVE  [Promise!Next]_(Promise!scenarioVars)
  OBVIOUS
<1> DEFINE Stutter == UNCHANGED <<stack, top, disposals, StackOpen, Faulty, verdict>>
<1> USE DEF control, release, outcome
<1>1. ASSUME Stutter PROVE UNCHANGED Promise!scenarioVars
  BY <1>1 DEF Promise!scenarioVars
<1>2. ASSUME UNCHANGED <<stack, top, disposals, StackOpen, verdict>>, StackOpen,
             Faulty'
      PROVE  Promise!Next
  BY <1>2 DEF Promise!Fault, Promise!Next
<1>3. CASE \/ BeginStep \/ BackoffElapses \/ AttemptPasses \/ LastStepDone
  <2>1. Stutter
    BY <1>3 DEF BeginStep, BeginAttempt, BackoffElapses, AttemptPasses,
       LastStepDone, ErrorLocated, StackOpen, Faulty
  <2> QED
    BY <1>1, <2>1
<1>4. CASE \/ BeginStepWithoutAttempts \/ AbortedInStepStart \/ AbortedBetweenSteps \/ ReporterThrows
           \/ BackoffAborted \/ StepFails
  <2>1. /\ UNCHANGED <<stack, top, disposals, verdict>> /\ StackOpen /\ StackOpen'
        /\ Faulty'
    BY <1>4, ReasonsAreErrors DEF BeginStepWithoutAttempts, AbortedInStepStart, AbortedBetweenSteps, ReporterThrows,
       BackoffAborted, StepFails, StepError, ErrorLocated, StackOpen, Faulty
  <2> QED
    BY <1>2, <2>1
<1>5. CASE AttemptThrows \/ AttemptAborted \/ StepTimerFires
  <2>1. /\ UNCHANGED <<stack, top, disposals, verdict>> /\ StackOpen /\ StackOpen'
        /\ ~Faulty /\ pc' \in {"backoff", "stepEnd"} /\ error' # "none"
    BY <1>5 DEF AttemptThrows, AttemptAborted, StepTimerFires, Caught,
       ErrorLocated, StackOpen, Faulty
  <2>2. CASE pc' = "backoff"
    BY <1>1, <2>1, <2>2 DEF Faulty
  <2>3. CASE pc' = "stepEnd"
    BY <1>2, <2>1, <2>3 DEF Faulty
  <2> QED
    BY <2>1, <2>2, <2>3
<1>6. CASE BeginDisposal
  <2>1. /\ UNCHANGED <<stack, top, disposals, verdict>> /\ StackOpen /\ ~StackOpen'
        /\ Faulty' = Faulty
    BY <1>6 DEF BeginDisposal, StackOpen, Faulty
  <2> QED
    BY <2>1 DEF Promise!Close, Promise!Next
<1>7. ASSUME NEW s \in Step, NEW d \in BOOLEAN, Register(s, d), s \notin Range(stack),
             UNCHANGED <<pc, error, disposals, verdict>>
      PROVE  Promise!Next \/ UNCHANGED Promise!scenarioVars
  <2>1. UNCHANGED <<StackOpen, Faulty>>
    BY <1>7 DEF StackOpen, Faulty
  <2>2. CASE stack' = stack /\ top' = top
    BY <1>1, <1>7, <2>1, <2>2
  <2>3. CASE stack' = Append(stack, s) /\ top' = top + 1 /\ StackOpen
    <3>1. top = Len(stack) /\ Len(stack) \in Nat /\ Len(disposals) = 0
      BY <2>3, LenProperties DEF TypeOK, DisposedFromTop
    <3>2. Range(disposals) = {}
      BY <3>1, LenProperties DEF Range, TypeOK
    <3>3. {stack[i] : i \in 1 .. top} = Range(stack)
      BY <3>1, LenProperties DEF Range, TypeOK
    <3>4. {stack'[i] : i \in 1 .. top'} = Range(stack) \union {s}
      <4>1. DOMAIN stack' = 1 .. top' /\ Range(stack') = Range(stack) \union {s}
        BY <2>3, <3>1, AppendProperties, LenProperties, RangeGrows DEF TypeOK
      <4> QED
        BY <4>1 DEF Range
    <3>5. Promise!Acquire(s)
      BY <1>7, <2>1, <2>3, <3>2, <3>3, <3>4 DEF Promise!Acquire
    <3> QED
      BY <3>5 DEF Promise!Next
  <2> QED
    BY <1>7, <2>2, <2>3, Zenon DEF Register
<1>8. ASSUME NEW d \in BOOLEAN, CallReturns(d)
      PROVE  Promise!Next \/ UNCHANGED Promise!scenarioVars
  <2>1. step \in Step /\ step \notin Range(stack)
    BY <1>8 DEF CallReturns, Located, RegisteredOnce, Pending
  <2> QED
    BY <1>7, <1>8, <2>1 DEF CallReturns
<1>9. ASSUME NEW s \in abandoned, NEW d \in BOOLEAN, LateReturn(s, d)
      PROVE  Promise!Next \/ UNCHANGED Promise!scenarioVars
  <2>1. s \in Step /\ s \notin Range(stack)
    BY DEF RegisteredOnce, TypeOK
  <2> QED
    BY <1>7, <1>9, <2>1 DEF LateReturn
<1>10. ASSUME NEW e \in {"error", "skip"}, CallThrows(e) PROVE Stutter
  BY <1>10 DEF CallThrows, StackOpen, Faulty
<1>11. ASSUME NEW s \in abandoned, LateThrow(s) PROVE Stutter
  BY <1>11 DEF LateThrow, StackOpen, Faulty
<1>12. ASSUME NEW r \in AbortReasons \ {"scenarioTimeout"}, Abort(r) PROVE Stutter
  BY <1>12 DEF Abort, StackOpen, Faulty
<1>13. CASE ScenarioTimerFires \/ Terminated \/ UNCHANGED vars
  <2>1. Stutter
    BY <1>13 DEF ScenarioTimerFires, Terminated, vars, StackOpen, Faulty
  <2> QED
    BY <1>1, <2>1
<1>14. ASSUME NEW t \in Thrown, Dispose(t) PROVE Promise!Next
  <2>1. /\ top \in 1 .. Len(stack) /\ Len(stack) \in Nat /\ stack[top] \in Step
        /\ top' = top - 1 /\ stack' = stack /\ verdict' = verdict
        /\ disposals' = Append(disposals, stack[top])
    BY <1>14, ElementOfSeq, LenProperties DEF Dispose, TypeOK
  <2>2. Range(disposals') = Range(disposals) \union {stack[top]}
    BY <2>1, RangeGrows DEF TypeOK
  <2>3. {stack[i] : i \in 1 .. top - 1} = {stack[i] : i \in 1 .. top} \ {stack[top]}
    <3>1. \A i \in 1 .. top : stack[i] = stack[top] => i = top
      BY <2>1, LenProperties DEF RegisteredOnce, TypeOK
    <3> QED
      BY <2>1, <3>1
  <2>4. ~StackOpen /\ ~StackOpen' /\ (Faulty => Faulty')
    BY <1>14, AfterDisposer DEF Dispose, StackOpen, Faulty
  <2>5. stack[top] \in {stack[i] : i \in 1 .. top}
    BY <2>1
  <2>6. PICK d \in Step : d = stack[top]
    BY <2>1
  <2>7. Promise!Release(d)
    BY <2>1, <2>2, <2>3, <2>4, <2>5, <2>6 DEF Promise!Release
  <2> QED
    BY <2>7 DEF Promise!Next
<1>15. CASE End
  <2>1. /\ ~StackOpen /\ ~StackOpen' /\ top = 0 /\ Faulty' = Faulty
        /\ UNCHANGED <<stack, top, disposals>> /\ verdict = "none"
        /\ verdict' \in {"passed", "failed", "skipped"}
        /\ (verdict' = "passed") <=> ~Faulty
    BY <1>15 DEF End, StackOpen, Faulty, DisposedFromTop, TypeOK, Statuses
  <2>2. {stack[i] : i \in 1 .. top} = {}
    BY <2>1
  <2>3. Promise!End(verdict')
    BY <2>1, <2>2 DEF Promise!End
  <2> QED
    BY <2>1, <2>3 DEF Promise!Next
<1> QED
  BY <1>1, <1>3, <1>4, <1>5, <1>6, <1>8, <1>9, <1>10, <1>11, <1>12, <1>13,
     <1>14, <1>15 DEF Next, Runner, UserCode, Timers

THEOREM ImplementsScenario == Spec => KeepsPromise
BY InitKeepsPromise, StepKeepsPromise, TypeCorrect, ErrorLocatedAlways,
   DisposedAlways, OnceAlways, PTL DEF Spec, KeepsPromise, Promise!Spec
-----------------------------------------------------------------------------
(***************************************************************************)
(* How much is left to do in a scenario whose retries are limited: a       *)
(* number that every step lowers.  A step function that answers may add to *)
(* the stack, and one that is given up is still to answer; the steps that  *)
(* are left count for all the attempts they may take.                      *)
(***************************************************************************)
StepsLeft(limit) == (NumSteps + 1 - step) * (4 * limit + 1)
AttemptsLeft(limit) == 4 * (limit - attempt)

Stage(limit) ==
  CASE pc = "between" -> 4 * limit + 4
    [] pc = "attempt" /\ call = "running" -> AttemptsLeft(limit) + 6
    [] pc = "attempt" /\ call # "running" -> AttemptsLeft(limit) + 4
    [] pc = "backoff" -> AttemptsLeft(limit) + 3
    [] pc = "stepEnd" -> 3
    [] pc = "unwind" -> 2
    [] pc = "disposing" -> 1
    [] pc = "ended" -> 0

Loose ==
  (IF signal = "none" THEN 1 ELSE 0) + (IF abandoned = {} THEN 0 ELSE 2) + top

Work(limit) == StepsLeft(limit) + Stage(limit) + Loose

\* Only the current step can have been given up, attempts stay within
\* maxAttempts, and who waits to try again is allowed to.
Counted ==
  /\ abandoned \subseteq {step}
  /\ pc \in {"attempt", "backoff"} =>
       \E most \in MaxAttempts[step] : attempt \in 1 .. most
  /\ pc = "backoff" => \E most \in MaxAttempts[step] : attempt < most

LEMMA CountedInductive ==
  TypeOK /\ Located /\ GaveUp /\ Counted /\ [Next]_vars => Counted'
<1> SUFFICES ASSUME TypeOK, Located, GaveUp, Counted, [Next]_vars PROVE Counted'
  OBVIOUS
<1> USE DEF control
<1>0. /\ attempt \in Nat
      /\ step <= NumSteps \/ step \in Step => MaxAttempts[step] \subseteq Nat
  BY StepsAssumption DEF TypeOK, Step
<1>1. CASE BeginStep
  <2>1. PICK most \in MaxAttempts[step] : most > 0
    BY <1>1 DEF BeginStep
  <2>2. 1 \in 1 .. most
    BY <1>0, <1>1, <2>1 DEF BeginStep
  <2> QED
    BY <1>1, <2>2 DEF BeginStep, BeginAttempt, Counted
<1>2. CASE BackoffElapses
  <2>1. PICK most \in MaxAttempts[step] : attempt < most
    BY <1>2 DEF BackoffElapses, Counted
  <2>2. attempt + 1 \in 1 .. most
    BY <1>0, <1>2, <2>1 DEF BackoffElapses, Located
  <2> QED
    BY <1>2, <2>2 DEF BackoffElapses, BeginAttempt, Counted
<1>3. CASE \/ BeginStepWithoutAttempts \/ AbortedInStepStart \/ ReporterThrows \/ AbortedBetweenSteps
           \/ LastStepDone
  BY <1>3 DEF BeginStepWithoutAttempts, AbortedInStepStart, ReporterThrows, AbortedBetweenSteps,
     LastStepDone, Counted
<1>4. CASE AttemptPasses
  BY <1>4 DEF AttemptPasses, GaveUp, Counted
<1>5. CASE AttemptThrows \/ AttemptAborted \/ StepTimerFires
  BY <1>5 DEF AttemptThrows, AttemptAborted, StepTimerFires, Caught, Counted
<1>6. CASE StepFails \/ End \/ BackoffAborted \/ BeginDisposal
  BY <1>6 DEF StepFails, End, BackoffAborted, BeginDisposal, Counted
<1>7. CASE \/ \E d \in BOOLEAN : CallReturns(d)
           \/ \E e \in {"error", "skip"} : CallThrows(e)
           \/ \E t \in Thrown : Dispose(t)
  BY <1>7 DEF CallReturns, CallThrows, Dispose, Counted
<1>8. CASE \/ \E s \in abandoned, d \in BOOLEAN : LateReturn(s, d)
           \/ \E s \in abandoned : LateThrow(s)
  BY <1>8 DEF LateReturn, LateThrow, Counted
<1>9. CASE \/ ScenarioTimerFires
           \/ \E r \in AbortReasons \ {"scenarioTimeout"} : Abort(r)
  BY <1>9 DEF ScenarioTimerFires, Abort, Counted
<1>10. CASE Terminated \/ UNCHANGED vars
  BY <1>10 DEF Terminated, vars, Counted
<1> QED
  BY <1>1, <1>2, <1>3, <1>4, <1>5, <1>6, <1>7, <1>8, <1>9, <1>10
     DEF Next, Runner, UserCode, Timers

LEMMA CountedAlways == Spec => []Counted
<1>1. Init => Counted
  BY DEF Init, Counted
<1> QED
  BY <1>1, CountedInductive, TypeCorrect, GaveUpAlways, PTL DEF Spec

\* The steps left count alike as long as the step stays, and one step counts
\* for all its attempts.
LEMMA StepsLeftCounts ==
  ASSUME NEW limit \in Nat, NEW n \in Nat
  PROVE  /\ n * (4 * limit + 1) \in Nat
         /\ n > 0 => (n - 1) * (4 * limit + 1) = n * (4 * limit + 1) - (4 * limit + 1)
OBVIOUS

Allowed(limit) ==
  /\ limit \in Nat
  /\ \A s \in Step : MaxAttempts[s] \subseteq 0 .. limit

\* The parts of the work are numbers, within the limit of the attempts.
Numbers(limit) ==
  /\ StepsLeft(limit) \in Nat /\ Stage(limit) \in Nat /\ top \in Nat /\ attempt \in Nat
  /\ pc \in {"attempt", "backoff"} => attempt <= limit
  /\ pc = "backoff" => attempt < limit

LEMMA WorkIsANumber ==
  ASSUME NEW limit, Allowed(limit), TypeOK, Located, Counted
  PROVE  Numbers(limit)
<1>1. /\ limit \in Nat /\ NumSteps \in Nat /\ attempt \in Nat
      /\ NumSteps + 1 - step \in Nat
  BY StepsAssumption DEF TypeOK, Allowed
<1>2. StepsLeft(limit) \in Nat
  BY <1>1, StepsLeftCounts DEF StepsLeft
<1>3. pc \in {"attempt", "backoff"} => attempt <= limit
  <2> SUFFICES ASSUME pc \in {"attempt", "backoff"} PROVE attempt <= limit
    OBVIOUS
  <2>1. PICK most \in MaxAttempts[step] : attempt \in 1 .. most
    BY DEF Counted
  <2>2. most \in 0 .. limit
    BY <2>1 DEF Allowed, Located
  <2> QED
    BY <1>1, <2>1, <2>2
<1>4. pc = "backoff" => attempt < limit
  <2> SUFFICES ASSUME pc = "backoff" PROVE attempt < limit
    OBVIOUS
  <2>1. PICK most \in MaxAttempts[step] : attempt < most
    BY DEF Counted
  <2>2. most \in 0 .. limit
    BY <2>1 DEF Allowed, Located
  <2> QED
    BY <1>1, <2>1, <2>2
<1>5. Stage(limit) \in Nat
  <2>1. pc \in {"between", "attempt", "backoff", "stepEnd", "unwind", "disposing", "ended"}
    BY DEF TypeOK
  <2>2. /\ 4 * limit + 4 \in Nat
        /\ pc \in {"attempt", "backoff"} => AttemptsLeft(limit) \in Nat
    BY <1>1, <1>3, <1>4 DEF AttemptsLeft
  <2> QED
    BY <2>1, <2>2 DEF Stage
<1>6. top \in Nat
  BY LenProperties DEF TypeOK
<1> QED
  BY <1>1, <1>2, <1>3, <1>4, <1>5, <1>6 DEF Numbers

\* What registering adds to the stack counts less than the answer.
LEMMA RegisterAddsOne ==
  ASSUME TypeOK, NEW s, NEW d, Register(s, d)
  PROVE  top' \in {top, top + 1}
BY DEF Register

LEMMA WorkRunsDown ==
  ASSUME NEW limit, Allowed(limit), TypeOK, Located, GaveUp, Counted,
         Numbers(limit), Numbers(limit)', [Next]_vars, ~UNCHANGED vars
  PROVE  Work(limit)' < Work(limit)
<1> USE DEF control, release
<1>1. /\ limit \in Nat
      /\ StepsLeft(limit) \in Nat /\ Stage(limit) \in Nat /\ top \in Nat
      /\ attempt \in Nat
      /\ pc \in {"attempt", "backoff"} => attempt <= limit
      /\ pc = "backoff" => attempt < limit
  BY DEF Allowed, Numbers
<1>2. /\ StepsLeft(limit)' \in Nat /\ Stage(limit)' \in Nat /\ top' \in Nat
      /\ attempt' \in Nat
      /\ pc' \in {"attempt", "backoff"} => attempt' <= limit
  BY DEF Numbers
<1>3. step' = step => StepsLeft(limit)' = StepsLeft(limit)
  BY DEF StepsLeft
<1>4. CASE BeginStep
  BY <1>1, <1>2, <1>3, <1>4 DEF BeginStep, BeginAttempt, Work, Stage, AttemptsLeft, Loose
<1>5. CASE BackoffElapses
  BY <1>1, <1>2, <1>3, <1>5 DEF BackoffElapses, BeginAttempt, Work, Stage, AttemptsLeft, Loose
<1>6. CASE BeginStepWithoutAttempts \/ AbortedInStepStart \/ AbortedBetweenSteps \/ LastStepDone
  BY <1>1, <1>2, <1>3, <1>6 DEF BeginStepWithoutAttempts, AbortedInStepStart, AbortedBetweenSteps,
     LastStepDone, Work, Stage, AttemptsLeft, Loose
<1>7. CASE ReporterThrows
  BY <1>1, <1>2, <1>3, <1>7 DEF ReporterThrows, Work, Stage, AttemptsLeft, Loose
<1>8. CASE AttemptPasses
  <2>1. NumSteps + 1 - step \in Nat /\ step \in Step
    BY <1>8, StepsAssumption DEF AttemptPasses, TypeOK, Located
  <2>2. NumSteps + 1 - step > 0 /\ NumSteps + 1 - step' = (NumSteps + 1 - step) - 1
    BY <1>8, <2>1, StepsAssumption DEF AttemptPasses, Step
  <2>3. StepsLeft(limit)' = StepsLeft(limit) - (4 * limit + 1)
    BY <1>1, <2>1, <2>2, StepsLeftCounts DEF StepsLeft
  <2>4. Stage(limit)' = 4 * limit + 4 /\ Stage(limit) >= 4
    BY <1>1, <1>8 DEF AttemptPasses, Stage, AttemptsLeft
  <2>5. Loose' = Loose /\ Loose \in Nat
    BY <1>1, <1>8 DEF AttemptPasses, Loose
  <2> QED
    BY <1>1, <1>2, <2>3, <2>4, <2>5 DEF Work
<1>9. CASE AttemptThrows
  BY <1>1, <1>2, <1>3, <1>9 DEF AttemptThrows, Caught, Work, Stage, AttemptsLeft, Loose
<1>10. CASE AttemptAborted \/ StepTimerFires
  <2>1. /\ pc = "attempt" /\ pc' = "stepEnd" /\ UNCHANGED <<step, attempt, signal, top>>
        /\ call # "running" => UNCHANGED abandoned
    BY <1>10 DEF AttemptAborted, StepTimerFires, Caught, ShouldRetry
  <2>2. /\ StepsLeft(limit)' = StepsLeft(limit) /\ Stage(limit)' = 3
        /\ Stage(limit) >= 4 /\ (call = "running" => Stage(limit) >= 6)
    BY <1>1, <1>3, <2>1 DEF Stage, AttemptsLeft
  <2>3. Loose' <= Loose + 2 /\ (call # "running" => Loose' = Loose)
    BY <1>1, <2>1, <2>2 DEF Loose
  <2>4. Loose \in Nat
    BY <1>1 DEF Loose
  <2>5. Loose' \in Nat
    BY <1>1, <2>1 DEF Loose
  <2> QED
    BY <1>1, <1>2, <2>2, <2>3, <2>4, <2>5 DEF Work
<1>11. CASE StepFails \/ End \/ BackoffAborted \/ BeginDisposal
  <2>1. /\ UNCHANGED <<step, attempt, signal, abandoned, top>>
        /\ \/ pc = "stepEnd" /\ pc' = "unwind"
           \/ pc = "disposing" /\ pc' = "ended"
           \/ pc = "backoff" /\ pc' = "stepEnd"
           \/ pc = "unwind" /\ pc' = "disposing"
    BY <1>11 DEF StepFails, End, BackoffAborted, BeginDisposal
  <2>2. StepsLeft(limit)' = StepsLeft(limit) /\ Loose' = Loose /\ Loose \in Nat
    BY <1>1, <1>3, <2>1 DEF Loose
  <2>3. Stage(limit)' < Stage(limit)
    BY <1>1, <2>1 DEF Stage, AttemptsLeft
  <2> QED
    BY <1>1, <1>2, <2>2, <2>3 DEF Work
<1>12. ASSUME NEW d \in BOOLEAN, CallReturns(d) PROVE Work(limit)' < Work(limit)
  BY <1>1, <1>2, <1>3, <1>12, RegisterAddsOne DEF CallReturns, Work, Stage, AttemptsLeft, Loose
<1>13. ASSUME NEW e \in {"error", "skip"}, CallThrows(e) PROVE Work(limit)' < Work(limit)
  BY <1>1, <1>2, <1>3, <1>13 DEF CallThrows, Work, Stage, AttemptsLeft, Loose
<1>14. ASSUME NEW t \in Thrown, Dispose(t) PROVE Work(limit)' < Work(limit)
  BY <1>1, <1>2, <1>3, <1>14 DEF Dispose, Work, Stage, AttemptsLeft, Loose
<1>15. ASSUME NEW s \in abandoned, NEW d \in BOOLEAN, LateReturn(s, d)
       PROVE  Work(limit)' < Work(limit)
  <2>1. abandoned # {} /\ abandoned' = {}
    BY <1>15 DEF LateReturn, Counted
  <2>2. top' \in {top, top + 1}
    BY <1>15, RegisterAddsOne DEF LateReturn
  <2>3. StepsLeft(limit)' = StepsLeft(limit) /\ Stage(limit)' = Stage(limit)
    BY <1>3, <1>15 DEF LateReturn, Stage, AttemptsLeft
  <2> QED
    BY <1>1, <1>2, <1>15, <2>1, <2>2, <2>3 DEF LateReturn, Work, Loose
<1>16. ASSUME NEW s \in abandoned, LateThrow(s) PROVE Work(limit)' < Work(limit)
  <2>1. abandoned # {} /\ abandoned' = {}
    BY <1>16 DEF LateThrow, Counted
  <2>2. StepsLeft(limit)' = StepsLeft(limit) /\ Stage(limit)' = Stage(limit)
    BY <1>3, <1>16 DEF LateThrow, Stage, AttemptsLeft
  <2> QED
    BY <1>1, <1>2, <1>16, <2>1, <2>2 DEF LateThrow, Work, Loose
<1>17. CASE \/ ScenarioTimerFires
            \/ \E r \in AbortReasons \ {"scenarioTimeout"} : Abort(r)
  <2>1. UNCHANGED <<control, call, abandoned, top>> /\ signal = "none" /\ signal' # "none"
    BY <1>17, StepsAssumption DEF ScenarioTimerFires, Abort, Reasons
  <2>2. StepsLeft(limit)' = StepsLeft(limit) /\ Stage(limit)' = Stage(limit)
    BY <1>3, <2>1 DEF Stage, AttemptsLeft
  <2> QED
    BY <1>1, <1>2, <2>1, <2>2 DEF Work, Loose
<1>18. CASE Terminated
  BY <1>18 DEF Terminated
<1> QED
  BY <1>4, <1>5, <1>6, <1>7, <1>8, <1>9, <1>10, <1>11, <1>12, <1>13, <1>14,
     <1>15, <1>16, <1>17, <1>18 DEF Next, Runner, UserCode, Timers

(***************************************************************************)
(* A scenario of NumSteps steps with at most limit attempts each makes no  *)
(* more than (NumSteps + 1) * (4 * limit + 1) + 4 steps, user code, timers *)
(* and the signal included: Work is a number, starts there, and every step *)
(* lowers it.  No retry loop runs on for ever (StepRunner, retry.ts).      *)
(***************************************************************************)
THEOREM WorkRunsOut ==
  ASSUME NEW limit, Allowed(limit)
  PROVE  Spec => /\ Work(limit) = (NumSteps + 1) * (4 * limit + 1) + 4
                 /\ [](Work(limit) \in Nat)
                 /\ [][Work(limit)' < Work(limit)]_vars
<1>1. Init => Work(limit) = (NumSteps + 1) * (4 * limit + 1) + 4
  <2> SUFFICES ASSUME Init PROVE Work(limit) = (NumSteps + 1) * (4 * limit + 1) + 4
    OBVIOUS
  <2>1. /\ NumSteps \in Nat /\ limit \in Nat /\ StepsLeft(limit) = NumSteps * (4 * limit + 1)
        /\ Stage(limit) = 4 * limit + 4 /\ Loose = 1
    BY StepsAssumption DEF Init, Allowed, StepsLeft, Stage, Loose
  <2>2. NumSteps * (4 * limit + 1) = (NumSteps + 1) * (4 * limit + 1) - (4 * limit + 1)
    BY <2>1
  <2> QED
    BY <2>1, <2>2 DEF Work
<1>2. TypeOK /\ Located /\ Counted => Work(limit) \in Nat
  BY WorkIsANumber DEF Numbers, Work, Loose
<1>3. TypeOK /\ Located /\ Counted => Numbers(limit)
  BY WorkIsANumber
<1>4. /\ TypeOK /\ Located /\ GaveUp /\ Counted /\ [Next]_vars
      /\ Numbers(limit) /\ Numbers(limit)'
      => [Work(limit)' < Work(limit)]_vars
  BY WorkRunsDown
<1> QED
  BY <1>1, <1>2, <1>3, <1>4, TypeCorrect, GaveUpAlways, CountedAlways, PTL DEF Spec

=============================================================================
