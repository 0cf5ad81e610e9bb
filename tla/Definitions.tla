----------------------------- MODULE Definitions -----------------------------
(***************************************************************************)
(* From test files to the scenarios of a run: the files are discovered     *)
(* below the given paths, imported one after the other, and what they      *)
(* export is filtered by the selectors.  Which pattern matches which name  *)
(* or tag, and which glob which path, is given; both are external.         *)
(*                                                                         *)
(* A file is found as a string, and a file has several: a caller's path is *)
(* taken as it is written, with its ./ and ../, while a walk joins and     *)
(* normalises.  Discovery tells strings apart, the import only files.      *)
(***************************************************************************)
EXTENDS ScenarioBuilder, SequencesExt

CONSTANTS
  Tree,      \* the files: [dir, roots, glob],
             \* glob one of "included", "excluded", "pruned", "other"
  Spellings, \* the paths of files as strings, in the order of strings:
             \* [file, absolute, walked], walked as a walk spells them
  PathSets,  \* the lists of paths a caller may give: "file" with a spelling,
             \* "dir" with dir and absolute, "missing" or "forbidden"
  Inputs     \* the lists of selectors: sequences of sequences of parts
             \* [negated, type, pattern]; type "blank" for an empty part

\* A scenario is exported by the file that builds it, and by no other.
ASSUME FilesAssumption ==
  /\ Len(Tree) \in Nat /\ DOMAIN Tree = 1 .. Len(Tree)
  /\ \A r \in DOMAIN Roots : \E f \in DOMAIN Tree : r \in Tree[f].roots
  /\ \A f, g \in DOMAIN Tree : f # g => Tree[f].roots \cap Tree[g].roots = {}
  /\ Len(Spellings) \in Nat /\ DOMAIN Spellings = 1 .. Len(Spellings)
  /\ \A n \in DOMAIN Spellings : Spellings[n].file \in DOMAIN Tree
  /\ \A list \in PathSets : \A p \in ToSet(list) :
       p.is = "file" => p.spelling \in DOMAIN Spellings

ASSUME InputsAssumption ==
  \A list \in Inputs : \A i \in DOMAIN list : \A p \in ToSet(list[i]) : p.negated \in BOOLEAN

VARIABLES
  paths,     \* the paths given to discoverScenarioFiles
  phase,     \* "building", "loading", "loaded", "selected" or "failed"
  files,     \* the spellings still to import, in order
  scenarios, \* loaded so far: indices of definitions
  failures,  \* those whose import failed, as reported to onImportError
  inputs,    \* the selectors
  selected

selection == <<paths, phase, files, scenarios, failures, inputs, selected>>
definitionVars == <<builderVars, selection>>

DefinitionsInit ==
  /\ BuilderInit
  /\ paths = <<>> /\ phase = "building" /\ files = <<>> /\ scenarios = <<>>
  /\ failures = {} /\ inputs = <<>> /\ selected = <<>>

WritesTests == phase = "building" /\ Building /\ UNCHANGED selection

\* The elements of a finite set in an order, given as its pairs
Sorted(S, order) ==
  CHOOSE s \in [1 .. Cardinality(S) -> S] :
    \A i, j \in DOMAIN s : i < j => <<s[i], s[j]>> \in order

Ascending(S) == Sorted(S, {e \in S \X S : e[1] < e[2]})

-----------------------------------------------------------------------------
\* discoverScenarioFiles

\* A file that is named is taken; a directory is walked with the globs.
Found(path) ==
  CASE path.is = "file" -> {path.spelling}
    [] path.is = "dir" ->
         {n \in DOMAIN Spellings :
            /\ Spellings[n].walked /\ Spellings[n].absolute = path.absolute
            /\ Tree[Spellings[n].file].dir = path.dir
            /\ Tree[Spellings[n].file].glob = "included"}
    [] OTHER -> {}

FoundBy(list) == UNION {Found(p) : p \in ToSet(list)}

\* A set of strings: named and found by walking under the same one, a file
\* is taken once; under two, twice.
Files(list) == Ascending(FoundBy(list))

\* Deno.stat may fail with an error other than NotFound.
Discover(list) ==
  /\ phase = "building" /\ definitions # <<>>
  /\ paths' = list
  /\ IF \E p \in ToSet(list) : p.is = "forbidden"
     THEN phase' = "failed" /\ UNCHANGED files
     ELSE phase' = "loading" /\ files' = Files(list)
  /\ UNCHANGED <<builderVars, scenarios, failures, inputs, selected>>

-----------------------------------------------------------------------------
\* loadScenarios

\* The definitions a file exports, one or an array, in the order of build().
Exports(file) ==
  Ascending({i \in DOMAIN definitions : definitions[i].root \in Tree[file].roots})

\* Two spellings of a file are one URL, so one module and its exports again.
Import ==
  /\ phase = "loading" /\ files # <<>> /\ Spellings[Head(files)].absolute
  /\ scenarios' = scenarios \o Exports(Spellings[Head(files)].file)
  /\ files' = Tail(files)
  /\ UNCHANGED <<builderVars, paths, phase, failures, inputs, selected>>

\* Bug: a failing import ends the loop.
StopAtFailingImport ==
  /\ phase = "loading" /\ files # <<>>
  /\ failures' = failures \cup {Head(files)} /\ files' = <<>>
  /\ UNCHANGED <<builderVars, paths, phase, scenarios, inputs, selected>>

\* The import throws, as it always does for a path that is not absolute.
ImportFails ==
  /\ phase = "loading" /\ files # <<>>
  /\ failures' = failures \cup {Head(files)} /\ files' = Tail(files)
  /\ UNCHANGED <<builderVars, paths, phase, scenarios, inputs, selected>>

\* An onImportError that throws itself is not caught.
ReportFails ==
  /\ phase = "loading" /\ files # <<>>
  /\ phase' = "failed"
  /\ UNCHANGED <<builderVars, paths, files, scenarios, failures, inputs, selected>>

Loaded ==
  /\ phase = "loading" /\ files = <<>>
  /\ phase' = "loaded"
  /\ UNCHANGED <<builderVars, paths, files, scenarios, failures, inputs, selected>>

-----------------------------------------------------------------------------
\* applySelectors

Parts(input) == {p \in ToSet(input) : p.type # "blank"}
Invalid(input) == \E p \in ToSet(input) : p.type \notin {"blank", "tag", "name", "none"}

Matches(scenario, part) ==
  LET root == Roots[definitions[scenario].root]
  IN part.pattern \in IF part.type = "tag" THEN root.tags ELSE root.names

\* every() part of the input, so an input without parts accepts everything.
Accepts(scenario, input) ==
  \A p \in Parts(input) : Matches(scenario, p) # p.negated

\* some() input; an input is parsed when no earlier one accepts the scenario.
Throws(scenario, list) ==
  \E i \in DOMAIN list :
    Invalid(list[i]) /\ \A j \in 1 .. i - 1 : ~Accepts(scenario, list[j])

Filtered(list) ==
  LET kept == Ascending({n \in DOMAIN scenarios :
                \E i \in DOMAIN list : Accepts(scenarios[n], list[i])})
  IN IF list = <<>> THEN scenarios ELSE [n \in DOMAIN kept |-> scenarios[kept[n]]]

Select(list) ==
  /\ phase = "loaded"
  /\ inputs' = list
  /\ IF \E s \in ToSet(scenarios) : Throws(s, list)
     THEN phase' = "failed" /\ UNCHANGED selected
     ELSE phase' = "selected" /\ selected' = Filtered(list)
  /\ UNCHANGED <<builderVars, paths, files, scenarios, failures>>

DefinitionsNext ==
  \/ WritesTests
  \/ \E list \in PathSets : Discover(list)
  \/ Import \/ ImportFails \/ ReportFails \/ Loaded
  \/ \E list \in Inputs : Select(list)

DefinitionsSpec == DefinitionsInit /\ [][DefinitionsNext]_definitionVars

-----------------------------------------------------------------------------
\* What an input means, in sets: the intersection of its parts, a negated
\* part standing for the complement.
Having(part) ==
  LET has == {s \in DOMAIN definitions : Matches(s, part)}
  IN IF part.negated THEN DOMAIN definitions \ has ELSE has

Meaning(input) ==
  {s \in DOMAIN definitions : \A p \in Parts(input) : s \in Having(p)}

Wanted ==
  IF inputs = <<>> THEN DOMAIN definitions
  ELSE UNION {Meaning(inputs[i]) : i \in DOMAIN inputs}

FileOf(s) == CHOOSE f \in DOMAIN Tree : definitions[s].root \in Tree[f].roots

\* The spellings under which files were found and imported.
Imported == {n \in FoundBy(paths) \ failures : Spellings[n].absolute}

Of(n, s) == Spellings[n].file = FileOf(s)

(***************************************************************************)
(* The run gets every scenario that some input wants and whose file was    *)
(* found and imported, whichever other imports failed: a file that fails   *)
(* hides no other.  It gets them in the order of the paths, and each once  *)
(* if no file was imported under two spellings: a file that is named and   *)
(* also walked, or named twice, is then not doubled.  The premise is       *)
(* needed, see DuplicatesAreRemoved.                                       *)
(***************************************************************************)
EachWantedScenarioOnce ==
  phase = "selected" =>
    /\ ToSet(selected) = {s \in Wanted : \E n \in Imported : Of(n, s)}
    /\ (\A m, n \in Imported : Spellings[m].file = Spellings[n].file => m = n) =>
         \A i, j \in DOMAIN selected : i < j =>
           /\ selected[i] # selected[j]
           /\ \E m, n \in Imported : m <= n /\ Of(m, selected[i]) /\ Of(n, selected[j])

(***************************************************************************)
(* "Duplicate files are automatically deduplicated" (discover.ts:152).     *)
(* Without a run, for it does not hold: of a file given as /x/./a, say,    *)
(* and found in /x, both strings stay, and its scenarios come twice.       *)
(***************************************************************************)
DuplicatesAreRemoved ==
  phase = "selected" => \A i, j \in DOMAIN selected : i < j => selected[i] # selected[j]
=============================================================================
