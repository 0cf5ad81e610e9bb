--------------------------- MODULE ScenarioBuilder ---------------------------
(***************************************************************************)
(* The chains scenario(...).resource(...).setup(...).step(...).build() of  *)
(* a test file, several of which may fork from one prefix.  A builder      *)
(* holds a reference to an array of steps, so arrays live in a heap here   *)
(* and what is shared can be seen.                                         *)
(*                                                                         *)
(* An option that may be left out is the set of its values, empty or of    *)
(* one element.  maxAttempts stands for backoff also, merged like it.      *)
(***************************************************************************)
EXTENDS Naturals, Sequences, FiniteSets

CONSTANTS
  Roots,           \* the scenario(...) calls: [timeout, maxAttempts] of their
                   \* stepOptions, and what the selectors look at
  Calls,           \* the calls on a builder: [kind, name, timeout, maxAttempts]
  MaxCalls,        \* bounds of the file: calls and definitions
  MaxDefinitions

ASSUME BuilderAssumption ==
  /\ Len(Roots) \in Nat /\ DOMAIN Roots = 1 .. Len(Roots)
  /\ MaxCalls \in Nat /\ MaxDefinitions \in Nat
  /\ \A call \in Calls : call.kind = "resource" => call.name # ""

VARIABLES
  arrays,       \* the heap: arrays of steps
  builders,     \* [root, array, path]; path, the calls of its chain, is a ghost
  definitions   \* what build() returned, likewise

builderVars == <<arrays, builders, definitions>>

BuilderInit ==
  /\ arrays = [r \in DOMAIN Roots |-> <<>>]
  /\ builders = [r \in DOMAIN Roots |-> [root |-> r, array |-> r, path |-> <<>>]]
  /\ definitions = <<>>

OrElse(a, b) == IF a # {} THEN a ELSE b

OfKind(steps, kind) == Cardinality({i \in DOMAIN steps : steps[i].kind = kind})

\* A step without a name gets the number of its kind.
Name(steps, call) ==
  IF call.name # "" THEN <<call.name>>
  ELSE <<call.kind, OfKind(steps, call.kind) + 1>>

\* addStep merges the options of the call with those of the scenario.
Step(steps, root, call) ==
  [kind        |-> call.kind,
   name        |-> Name(steps, call),
   timeout     |-> OrElse(call.timeout, Roots[root].timeout),
   maxAttempts |-> OrElse(call.maxAttempts, Roots[root].maxAttempts)]

Extended(builder, array, call) ==
  [root |-> builder.root, array |-> array, path |-> Append(builder.path, call)]

\* Bug: clone() hands on the array itself.
AddToSharedArray(b, call) ==
  LET array == builders[b].array
  IN /\ Len(builders) < Len(Roots) + MaxCalls
     /\ arrays' = [arrays EXCEPT ![array] =
                     Append(@, Step(@, builders[b].root, call))]
     /\ builders' = Append(builders, Extended(builders[b], array, call))
     /\ UNCHANGED definitions

\* resource(), setup() or step(): a new builder with a copy of the array.
AddStep(b, call) ==
  LET steps == arrays[builders[b].array]
  IN /\ Len(builders) < Len(Roots) + MaxCalls
     /\ arrays' = Append(arrays, Append(steps, Step(steps, builders[b].root, call)))
     /\ builders' = Append(builders, Extended(builders[b], Len(arrays'), call))
     /\ UNCHANGED definitions

\* build() copies the array once more.
Build(b) ==
  /\ Len(definitions) < MaxDefinitions
  /\ arrays' = Append(arrays, arrays[builders[b].array])
  /\ definitions' = Append(definitions, [builders[b] EXCEPT !.array = Len(arrays')])
  /\ UNCHANGED builders

Building ==
  \E b \in DOMAIN builders : (\E call \in Calls : AddStep(b, call)) \/ Build(b)

-----------------------------------------------------------------------------
\* StepRunner: the option of the step, of the RunOptions, or the default.
Resolved(option, config, default) == OrElse(OrElse(option, config), default)

\* The first of several options that is set.
First(options) ==
  options[CHOOSE i \in DOMAIN options :
            options[i] # {} /\ \A j \in 1 .. i - 1 : options[j] = {}]

(***************************************************************************)
(* A builder and a definition have the steps of the calls of their own     *)
(* chain, in order, whatever was forked from a prefix of it before or      *)
(* since; the n-th step of its kind that has no name is numbered n; and a  *)
(* step runs with the first timeout and the first maxAttempts set by its   *)
(* own call, its scenario, the RunOptions and the defaults.                *)
(***************************************************************************)
StepsAreThoseOfTheChain ==
  \A d \in {builders[b] : b \in DOMAIN builders}
             \cup {definitions[i] : i \in DOMAIN definitions} :
    LET steps == arrays[d.array]
        own   == Roots[d.root]
    IN /\ Len(steps) = Len(d.path)
       /\ \A i \in DOMAIN steps :
            LET call == d.path[i]
            IN /\ steps[i].kind = call.kind
               /\ steps[i].name =
                    IF call.name # "" THEN <<call.name>>
                    ELSE <<call.kind, OfKind(SubSeq(d.path, 1, i), call.kind)>>
               /\ \A config, default \in {{}, {1}, {2}} : default # {} =>
                    /\ Resolved(steps[i].timeout, config, default) =
                         First(<<call.timeout, own.timeout, config, default>>)
                    /\ Resolved(steps[i].maxAttempts, config, default) =
                         First(<<call.maxAttempts, own.maxAttempts, config, default>>)
=============================================================================
