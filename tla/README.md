# policyguard in TLA+

policyguard reads a project's sources into one call graph and reports every
function from which a *source* and a *sink* can be reached with no *guard*.
This directory models the parts of it whose order, repetition or failure is
hard to test, checks them on small instances with TLC, and proves with TLAPS what
they say of every call graph, input and interleaving: the engine, its chains, the
service map, the command and its action, `--apply`, and the language server. Paths below are relative to the
repository's root; `callgraph/x.go` stands for `internal/callgraph/x.go`.

- [The system](#the-system): what there is, and what makes each part right
- [Modules](#modules): which module models what
- [Runs](#runs): what TLC checks, the bounds, the fairness
- [Theorems](#theorems): what is proved, and how
- [Where the code and its comments part](#where-the-code-and-its-comments-part)
- [What is left out](#what-is-left-out)
- [Plan](#plan)

`PROJECT.json` is the index: components, runs, the source lines of every
definition (`map`), hazards with the properties that answer them, and, for every
property, a bug in the code that would break it (`mutants`).

## The system

`check` loads policies, parses every source file of one language into a call
graph, adds the edges of a service map, runs `engine.Analyze` once for each
policy, renders the findings and, with `--apply`, patches the files.
`policyguard-lsp` does the same for an editor at every open and save, with a
loader of its own and no service map. The GitHub action (`action.yml`) runs `check`
twice, uploads one report, posts the other, and fails the job by its exit code.

| Part | Code | State | Operations | What is hard |
|---|---|---|---|---|
| Call graph | `callgraph/graph.go` | functions, calls, reads, directives | add, match a directive | everything after it shares it |
| Extractors | `callgraph/{python,golang,typescript,java}.go` | scope stack, imports, local types, first-pass types | walk a syntax tree, resolve names | scopes saved and restored, shadowing, relative imports, files in any order |
| Engine | `engine/engine.go` | closures, violators, findings | closure, evaluate, dedup, suppress, sort | recursion, map order, dedup |
| Chains | `engine.go`, `shortestPath`, `chainHops` | parents, queue | search, rebuild, locate | recursion, early exit, several calls of one callee |
| Fixes | `engine.go`, `renderFix` | none | render a suggestion and a patch | rows, columns, offsets and split lines must agree |
| Directives | `callgraph/suppressions.go` | none | read a comment | which lines it covers |
| Service map | `servicemap/servicemap.go` | the graph's calls | apply each edge | an edge sees what earlier edges added |
| Policies | `policy/policy.go` | policies by file | load, validate | two sources of policies, repeated ids |
| CLI | `cli/cli.go` | what has been loaded, what is written, exit code | `check`, `callgraph`, `parse`, `version` | order of failures |
| `--apply` | `cli.go`, `applyPatches` | files on disk | read, patch, write | other writers, partial failure |
| Language server | `lsp/` | root, shutdown, the editor's diagnostics | handle one message | stale diagnostics, reads torn by writes, an editor that dies |
| Output | `output/output.go` | stdout | render text, markdown, JSON, SARIF | a write that fails half-way, rules that resolve |
| Scanner | `scanner/parser.go` | none | call tree-sitter | third-party parser |
| Action | `action.yml` | the job, the pull request's comments, code scanning | two runs, upload, comment, enforce | exit codes hidden and brought back, other runs on the pull request |

How they meet: the extractors write the graph and nobody writes it after them
but the service map; the engine only reads it. The CLI and the server call the
engine; the server shares its workspace with the editor and with any tool that
writes files, and so does `--apply`. The engine's maps are Go maps: every loop
over one runs in an order the runtime picks. Apart from those orders, the
server's pipes and the files, the program is sequential.

What makes each part right:

- **closure**: exactly the reachable functions, each pushed once, on cycles too;
- **engine**: the report is a function of graph and policy, whatever the map
  orders; deduplication loses no violation, and splits no recursive group;
- **chains**: a chain is a path of calls the project makes, each hop shown where
  that call is first made, none is shorter, and none is missing;
- **fixes**: the rewritten file is the program with the guard around one argument;
- **directives**: a comment silences its policies on its line and the next, no other;
- **service map**: only calls with a cause are added, after the project's own,
  and edges listed in hop order close the graph;
- **extractors**: every edge starts at the function it is written in, and none is lost to
  another definition of that name; a call of an imported function or of a method of a
  typed variable ends at its definition, and the last typed declaration stands;
- **pipeline**: a report is of everything or not written; the exit code tells
  which, and a reader of stdout sees every finding once; ids are unique; the editor
  finds what the command finds;
- **`--apply`**: only reported lines change; count and exit code are honest;
- **server**: after a save no finding is missing, the saved file is exact, and
  every request is answered, in order, whatever fails in between; no server
  outlives its editor;
- **action**: a green job is a clean one, and the pull request has one comment, which
  lists what code scanning was given.

## Modules

Names of the source are kept where TLA+ allows. Operators named after a Go
function model that function; an action is one operation or one iteration of a
loop, and ends where another actor or another order could come in.

| Module | Models | How |
|---|---|---|
| `Reachability` | | `Reach`: the least set closed under a successor function, the reference for closures |
| `Lists` | | `SelectAt`: the part of a sequence that stands at given places, as a recursive function, which proofs can unroll |
| `CallGraph` | `graph.go` | a graph as a record: functions, calls and reads by caller, decorators, directives; `MatchSuppression` |
| `Closure` | `transitiveCallees` | one step pops a function or looks at one callee |
| `Evaluate` | `evaluate`, the matchers, `guardSatisfied`, `firstMatchAny`, `filterSuppressed`'s test, the sort key | operators; a matcher is the set of names its predicates accept, one set for each thing compared |
| `Report` | | what a report holds, with no algorithm: a violating function is reported when no violating function it can call is unable to call it back |
| `PolicyCheck` | | the engine's promise: one step from graph and policy to report |
| `Engine` | `Analyze`, `analyzeFunctions`, `analyzeModuleScope`, `filterSuppressed` | one action for each iteration of each loop; loops over Go maps take any key left; the sort yields any ordered permutation, since `slices.SortFunc` is not stable |
| `Chain` | `buildCalleeMap`, `buildBridgeMap`, `shortestPath`, `reconstructPath`, `chainHops` | callees and bridges are made from call sites; the breadth-first search goes callee by callee, the walk back parent by parent |
| `Fix` | `renderFix`, `buildWrapPatch`, `nthPositionalArg`, `lineAt` | a source is a sequence of tokens with line feeds among them, a node an interval of it; a patch is made from a finding, and `ApplyPatches`, which `Fix` extends, writes it |
| `ServiceMap` | `Apply`, `applyEdge` | one edge a step; patterns are sets of names |
| `PolicyFile` | `policy.go`: `Validate`, `Parse` | a document by what validation tells apart; `Parses`, `Parse` |
| `Output` | `output.go`: the four renderers, `buildSARIFRules` | a report is a sequence of writes, and `Shown` what a reader finds in them |
| `Check` | `Run`, `runCheck`, `runCallgraph`, `runParse`, `loadPolicies`, `LoadDir`, `loadServiceMap`, `runPipeline`, `parseSources`; `lsp/sources.go` | one action for each document, file, policy and write and each way to fail; the analysis is an oracle (`found`); the editor's copy is `EditorFindings` |
| `GitHubAction` | `action.yml` | extends `Check`: each step of the job, the two runs of `check` step by step within theirs; every call to GitHub may fail; rivals post to the same pull request |
| `ApplyPatches` | `applyPatches`, `applyFilePatches` | reading, each patch, and writing are steps; other tools change lines and drop them between any two; reads and writes fail, a write before the file is truncated or anywhere in what it writes; `theirs`, `late` and `fate` keep for the properties what the other tools did and what became of each file |
| `LspServer` | `lsp/server.go`, `lsp/diagnostics.go`, and the editor at the other end | one message at a time, one file read at a time, one publication at a time; the editor's writes, saves and requests come in between, and it may send what cannot be read or die in the middle of a message |
| `Suppressions` | `suppressions.go`: `parseSuppression` | a comment is the sequence of its words, markers and commas |
| `Walk` | what the extractors share, `scanComments`, `graph.go`'s `AddFunc`, `AddCall`, `AddField`, `AddSuppression`, `MatchSuppression` | a file is the sequence of syntax nodes the walk comes to; `"end"` leaves a definition and runs its deferred restore |
| `PyExtractor`, `JavaExtractor`, `TSExtractor`, `GoExtractor` | the four `callgraph/*.go` | one action for each kind of node, with the name resolution it performs |
| `Extractors` | `runPipeline`'s choice of front end | `INSTANCE`s of the four; properties of all |
| `Lemmas` | | facts about reachable sets, numbers and sequences that the proofs share |
| `ChainProofs`, `ServiceMapProofs`, `LspServerProofs` | | proofs about the module each is named for |
| `EngineProofs` | | proofs about `Closure` and `Engine` |
| `ExtractorProofs` | | proofs about `Extractors`, with `Walk` and the four languages |
| `CheckProofs` | | proofs about `Check`, with `PolicyFile` and `Output`, and about `GitHubAction` |
| `ApplyPatchesProofs` | | proofs about `ApplyPatches` and `Fix` |
| `MC...` | | instances for TLC |

`Engine` takes `transitiveCallees` as one step, by its result `ClosureOf`;
`Closure` is the loop, and the theorem `ClosureIsReach` says that its result is
that set. `Check` takes extraction and analysis as an oracle: what it decides
depends on neither.

A model of a program text needs no strings: names are short strings or numbers,
an FQN is the sequence of its segments, and what an operator does to one
(stripping `__init__`, climbing dots, resolving an alias) is done to the
sequence.

## Runs

| Run | Instance | Shows |
|---|---|---|
| `MCClosure` | every callee map of three functions, the slices in every order | the worklist ends with exactly the reachable set, and never holds a function twice |
| `MCEngine` | *Shapes*: every way three functions call each other, each with no event, a source, a sink, a guard, or source and sink. *Scopes*: two functions and module scope, with attribute reads, a decorator, and directives that match, miss, or name another policy | the loops implement `PolicyCheck` in every map order; dedup covers every violator |
| `MCChain` | five functions, every pair of ends, slices in both orders, each callee called twice and a library called first | chains are shortest call paths, with the first place of each call |
| `MCServiceMap` | one caller with up to two calls, up to three edges, among them chained, wildcarded, self-referring and unknown ones | added calls have a cause and come last; hop order closes |
| `MCLspServer` | two files, one of them spelled otherwise by the editor, three contents (clean, leak, a guard that silences both), four steps of the editor, messages that cannot be read among them, which may also close the pipe or die | diagnostics after a save; replies; the end of the server |
| `MCApplyPatches` | files of five lines and two, calls with keyword arguments, comments and arguments on one line and several, five policies; each finding alone, and two or three of eight; one concurrent edit; of a write that fails, a beginning of the lines, the last of them whole, halved or empty | what changes on disk; the program after a fix; count; exit code |
| `MCCheck` | around one good command line: directories of two documents each one slip from good and one `--policy` file; trees of two files with six extensions, under five values of `--lang`; service maps of up to two edges; every command; formats, flags; the action on those inputs it can pass, in eight settings, with no comment, one of an earlier run, or two of runs that raced on the pull request, and a rival | all or nothing; exit codes; stdout; SARIF rules; the editor agrees; the job's color and comment |
| `MCExtractors` | 23,731 programs: nested definitions of up to six nodes; every import form between files at five places, read in both orders; Java bodies with nested classes and blocks; Go bodies of two statements, both file orders, three placements of `go.mod`; comments of every form in the four languages, on their own line, behind code, stacked, and two on one line | edges in place, none lost or doubled; imports and receivers resolved; what directives cover |
| `MCEngineTops`, `MCLspServerStale`, `MCApplyPatchesExit`, `MCExtractorsIndex` | parts of the instances above | four comments the code does not keep ([below](#where-the-code-and-its-comments-part)) |

**Why the bounds are enough.** Three functions hold what dedup can get wrong: a
violator above a recursive group of two, a chain of three violators, a violator
above two unrelated ones. What lies beyond three is covered by the proofs, which
bound nothing. Five functions give two chains of different lengths that share
only their ends, so that a search in the wrong order is seen. Three edges give
chains of services in and out of order. Two files are enough for a read to be
torn and for a finding to move from one file to the other, and four editor steps
(initialize, save, write, and one more) for a save to race a write; the
violation run needs as many. Two fixes for one line and one edit give each reason to
skip a patch; a report of one finding for every policy and sink shows each patch alone.
Every rule of `policy.go` is broken by some document of `MCCheck`,
alone and next to a good one. One rival is enough for a second comment to appear
between listing and posting, and three comments, two of them marked, for the marked one
not to be the first and not to be the only one. Six nodes are a class, a method, a nested function
and a call after it, which is where a scope not restored would show.

The named bounds are `MaxClientSteps` (`LspServer`), `MaxEdits`
(`ApplyPatches`), `MaxRivals` (`GitHubAction`) and the instance sets of the `MC` modules; nothing in the
component modules is bounded otherwise.

**Fairness.** `Closure` and `Chain` assume `WF_vars(Next)`: one goroutine runs a
worklist or a search whose end is in question on cyclic graphs. `Engine`, `Check`,
`GitHubAction`, `ServiceMap` and `Extractors` state safety only: their loops are over
finite slices and maps, and end by their shape.
`ApplyPatches` assumes it of the command only, not of the tools that edit
meanwhile. `LspServer` assumes weak fairness of the server's loop and of the
editor's reading; the editor need not send, save or close, and an analysis need
not succeed. No liveness property is checked of `ApplyPatches`, whose loops are of the
same shape.

**Deadlock** is not checked: these programs end, and so do their models.
What must not stop short is stated as a liveness property instead
(`Terminates`, `EveryRequestAnswered`, `NoOrphan`).

**Preconditions worth knowing.** `MCExtractors` reads its import forms and typed
variables in programs that define what they refer to once, bind types in the outermost block
of a body, have distinct module names and write no import as `a/__init__`. Of TypeScript's imports it
speaks of those that are followed (`Followed`: relative ones, but `.` or `..` alone,
an extension `.js`, or `index` spelled out) into a file whose package is its directory
(`InItsDirectory`: no `index.ts`, no dot in the path); `DefinitionsAddUp` and
`GraphInv` need none of this, and programs with names defined twice are among those
explored. `CountIsHonest`, `FixWrapsTheArgument`
and `ZeroMeansGuarded` are about runs without failures and without concurrent edits;
`FixWrapsTheArgument` leaves out calls with comments between their arguments, where
the code counts the comments, and `ZeroMeansGuarded` two fixes for one line and guards
that are wildcards. `FindingsShown` and `SavedFileFresh` speak of settled states:
everything handled, every write followed by a save of that file, the last analysis not
failed; a saved file whose URI the editor escapes otherwise than `pathToURI` is named
as the exception it is. `ReportReadable` excepts `--apply`, whose summary follows the
report. `CommentTells` is about a job without rivals, on a pull request with one marked
comment at most: nothing in the action keeps two runs from posting twice, and a later
run updates one of the two.

## Theorems

All obligations, some 15,000, are checked by `tlapm` with Z3, Zenon and LS4.

| Theorem | Module | Says, for every value of the constants |
|---|---|---|
| `ClosureInvariant` | `EngineProofs` | `WorklistInv` is invariant; among others, nothing is on the stack twice |
| `ClosureIsReach` | `EngineProofs` | `transitiveCallees` returns `Reach` |
| `WorklistGivesClosure` | `EngineProofs` | so the loop ends with the set `Engine` takes it to return |
| `EngineInvariant` | `EngineProofs` | `IInv` is invariant |
| `NoViolationLost` | `EngineProofs` | after dedup every violating function is reported or can call one that is |
| `RecursionReportedTogether` | `EngineProofs` | functions that can call each other are reported together or not at all |
| `AnalyzeReports` | `EngineProofs` | `Engine` implements `PolicyCheck` |
| `ChainCanBeFollowed` | `ChainProofs` | a chain is a path of calls the project makes, each hop at its first line |
| `BreadthFirstIsShortest` | `ChainProofs` | no call path from violator to carrier is shorter |
| `NoChainIsLost` | `ChainProofs` | a chain is nil only when no calls lead there |
| `CallsInvariant` | `ServiceMapProofs` | edges only append, and each added call has a cause before it |
| `HopOrderIsEnough` | `ServiceMapProofs` | one pass over edges in hop order closes the graph |
| `PoliciesDiffer` | `CheckProofs` | no run analyses two policies of one id |
| `ExitCodeTells` | `CheckProofs` | the exit code of `check` tells what was reported |
| `TypesHold` | `CheckProofs` | `TypeOK` is invariant |
| `NoPartialReport` | `CheckProofs` | a report is of everything named and every source, or is not written |
| `ReadersSeeTheFindings` | `CheckProofs` | a reader of stdout sees each finding once, in order, in every format |
| `RulesAreComplete` | `CheckProofs` | SARIF results and rules fit, and the rules are those of the policies checked |
| `EditorAndCommandAgree` | `CheckProofs` | the editor's analyzer finds what the command reports |
| `HoldsInJobs` | `CheckProofs` | all that holds in both runs of an action's job too |
| `GreenJobsAreClean` | `CheckProofs` | a green job's report was complete, clean if it was to be, and uploaded if it was to be |
| `OneCommentPerRequest` | `CheckProofs` | without rivals, and with one marked comment before at most, there is one after, which lists what was uploaded |
| `ServerTypes` | `LspServerProofs` | `TypeOK` is invariant |
| `ServerStopsWhenTold` | `LspServerProofs` | a stopped server had its input closed, was sent what cannot be read, or was sent shutdown and exit |
| `RepliesInOrder` | `LspServerProofs` | each request is answered once, in order |
| `FindingsReachTheEditor` | `LspServerProofs` | once settled, each file with findings shows those of the files as they are |
| `SavedFileShowsItsFindings` | `LspServerProofs` | and the file saved last shows exactly its own |
| `ApplyKeepsTheRest` | `ApplyPatchesProofs` | what other tools did to a file before it was read and after it was written stands, but for reported lines that still were what the report saw; what they did in between is lost with a write, and with nothing else |
| `SummaryCountsLines` | `ApplyPatchesProofs` | the count is the number of lines changed |
| `ZeroGuardsEachFinding` | `ApplyPatchesProofs` | after exit code 0 each finding has its guard, lost its line to another patch, or has a wildcard for a guard |
| `FixesWrapTheArgument` | `ApplyPatchesProofs` | a file with one finding is rewritten into the same tokens with the guard's call around the argument the policy names |
| `GraphIsInPlace` | `ExtractorProofs` | in every language, each function is registered by the name its place in the text gives it, and each call and read has the function it is written in for caller |
| `SecondPass` | `ExtractorProofs` | Go's second pass finds each function registered and overwrites no entry |
| `DirectivesReachTheirLines` | `ExtractorProofs` | in every language, a policy is silenced at a node exactly when a directive that names it begins on the node's line or the one above |

**Assumptions** are typing facts, and what one part of the program hands to another.
Typing: the explored graphs are graphs (`GraphsAssumption`: finitely many functions,
calls and reads of known types), policies, maps, inputs, jobs and texts have their types
(`PoliciesAssumption`, `CalleeMapsAssumption`, `MapsAssumption`, `InputsAssumption`,
`GoodIdAssumption`, `JobsAssumption`, `TextsAssumption`), names,
paths and lines are numbers, so that they can be ordered (`FQNAssumption`,
`PathAssumption`, `LineAssumption`), bounds are numbers, and values made up for "none"
are no real ones (`NoFuncAssumption`, `IdsAssumption`). Handed over: an analysis stamps
each finding with its policy (`FoundAssumption`; `engine.go:506`), which SARIF rules
rest on; a node lies in its source (`ArgumentsAssumption`); a parser's nodes end only what they began, a Java file's package comes before all
but comments, a function has one receiver at most, and a comment takes a row at least and
begins with a marker rather than a directive's word (`ProgramsAssumption`; these are
the grammars'); a patch is made from the line of its file as the report saw it, and changes it
(`FindingsAssumption`; the engine's only patch, `engine.go:298`, puts a call around a
part of the line). `Fix` makes the patches and `Fix`'s own assumptions say that the files
are its sources split into lines and the reports what it renders; TLC evaluates all of
them in a run, those of `Fix` and `FindingsAssumption` on the same reports.

**Induction.** The library's induction theorems take an operator as parameter, which the
installed provers cannot instantiate. What is proved here about recursive functions
(`SelectAt`, `FlattenSeq`, callees collected from call sites) goes by the least number for
which it fails (`LeastNatural` in `Lemmas`, itself from the library's well-founded order
on numbers); so sequences are taken apart by `SelectAt` rather than the library's
`SelectSeq` and folds, whose tests are operators.

**Closure.** `ClosureCorrect` alone is not inductive: a state with an empty stack
and any visited set would satisfy the step. `WorklistInv` adds `Frontier` (a visited
function waits on the stack, is being scanned with its first callees visited,
or has all its callees visited) and `visited \subseteq Closure`. With the stack
empty and no scan under way, `Frontier` says that `visited` is closed, and the
least closed set lies in it.

**Engine.** `IInv` says at the head of each loop what the loops before it have
established: `ClosuresInv` (closures are reachable sets), `ViolatorsInv` (the map
holds the finding of each violating function seen so far), `DedupInv` (`out`
holds those of the visited minimal violators), `FilterInv` (`out` and `kept`
together lose nothing but suppressed findings, and `kept` has none) and
`OnePerScope` (no scope twice, which makes the final order strict). One lemma for
each action shows that it is kept.

The heart is `SmallerClosure`: for `h` in the closure of `f`, the closure of `h` is
no smaller than that of `f` exactly when `h` can call `f` back. So the
comparison of sizes the code makes is the condition `Report` states, and members of
a recursive group, having one closure, stand or fall together. For
`NoViolationLost`, take among the violators in a function's closure one with the
fewest functions in its own: no other drops it.

**Refinement.** `answered` is `pc = "done"`, and `report` is `kept` then. Each step but
`SortFindings` maps to a stutter; `SortFindings` maps to `Analyze`, by `FilterInv`
and `OnePerScope`.

**Chains.** The search keeps no distances, so the invariant supplies them: there is a
function `d` that is 0 at the source and one more than the parent's elsewhere (`Depths`),
the queue is in the order of `d`, within one of each other (`Ordered`), and whatever has
left the queue has its callees seen, at most one deeper (`Explored`). When the carrier
is discovered at `d[n] + 1`, a shorter call path would, by induction along it, end at a
function seen before (`NoneWithin`). On the way back, the length of `path` and the depth
of its head add up to that distance (`Rebuilding`). An empty queue means that what is seen
is closed under calls, so it contains `Reach`.

**Service map.** `CallsInv` is inductive as it stands. `HopInv` adds that the edges read
so far are closed (`ClosedSoFar`): what a later edge adds is a call of its target, which in
hop order no earlier edge accepts.

**Policies.** `LoadedInv` (the loaded policies form a sequence with distinct ids) is
inductive: `LoadPolicy`, the only step that adds one, is enabled for new ids only.

**Exit code.** `ExitInv` adds to `ExitTells` what its steps rely on: a report is
followed by `--apply` or the exit, and the stage of `parse` belongs to `parse`. The
steps fall into five groups, with a lemma each: those that go on, those that may refuse
before there is a report, other commands, `Render`, and `ApplyPatches`.

**Reports.** The stages hand over what the next one rests on. `LoadInv`: the
policies loaded and those made of the documents still to do are together those of all
documents named. `WalkInv`: the sources before the walk's place have been parsed, and are
readable. `FindInv`: the findings so far, with those of the policies still to do, are
those of all policies. `WriteInv`: stdout is a prefix of the report, all of it when
`rendered`. Each is an equation between "done" and "all" that a step keeps by moving one
element across. `ReportReadable` and `RulesResolve` then are facts about the four
renderers, `EditorAgrees` one about the documents of a directory.

**Action.** A job's second run starts from `Init` again, so the command's invariants hold
in both (`ActionInv` has them as a conjunct); both runs have found `EditorFindings`, which
is how the comment and code scanning come to show the same. `UploadInv` and `CommentInv`
carry what was uploaded and posted on to the end.

**Server.** `StopsWhenTold` needs `InboxInv`: a message cut short can only be in the
inbox of a server whose input is closed, and an exit or a malformed message only where
the editor sent one (`told`). `SendServer` says that a write ends the server
only when the editor is gone.

`AnsweredInOrder` needs `OrderInv`: while server and editor live, replies read, replies
under way and requests under way, in this order, are the requests sent.

What the editor shows rests on `NewsInv`. `FreshInv`: a file whose latest contents were
not analysed has a write not yet told, a notification in the inbox, or its read still to
come, unless the last analysis failed or the server has no root. `LastInv`: the last
notification under way is of the file saved last. `ShowInv`: what the editor will show
of a file once it has read its outbox is what the analysis found, for each file
published already. `StartInv` orders the first `initialize` before any notification.

**Apply.** `OnlyReportedLinesChange` compares the disk with `theirs`, the files as they
would be had only the other tools written; `MemoryInv` says the same of the lines in
memory: those not yet patched are the other tools' or `late` (changed by them while the
file was under way), those patched have a patch of the report for that very line, whose
`old` was compared. Writing carries it over to disk, a write that fails carries over a
beginning of it, and `fate` says which of the two a file has met; until it has met one, its
disk is `theirs`.

Without failures and other tools, `CountInv` says that the files to do are as the report
saw them and that the count is the number of lines changed; it needs that a patch changes
its line. `DoneInv` says that each patch of a finished file has its line rewritten, by it
or another of that line, and `ZeroInv` that exit code 0 comes last and only if every finding
had a patch. What a patch writes has the guard's call in it: `RenderedCalls`, about
`WrapPatch`, joins these to `ZeroMeansGuarded`.

**Fix.** `FixWrapsTheArgument` compares files, and the patch is of a line. `Stop` is where
a line ends, at its line feed or behind the source (`StopExists`, by the least place of
that row); lines are the stretches between stops (`LineStretch`), and a stretch that lies
in one row lies between that row's stops (`RowPlace`). So the columns the engine computes
are places of the source, and the patch's line is a stretch of it rewritten (`NewLine`);
by induction over the lines, joining them again rewrites the source there and nowhere
else (`JoinedLines`). `KeptInv` says that without failures and other tools a file keeps
its number of lines; with `DoneInv` and `DiskInv` the file on disk is then such a text
(`RewrittenLine`).

**Extractors.** `IInv` relates what the extractor keeps to the text alone. The frames
mirror the definitions around the node the walk has come to, outermost first, and each
holds the names and the function around its own (`Mirrors`, in `FramesInv`); so what a
restore brings back is what is around the next node. `Inside` says by counting which
definitions those are, and `InsideOpen`, `InsideQuiet` and `InsideEnd` how one node
changes them: an end takes the innermost away, which is the one whose frame is last.
`PackageInv` says when a Java file's package is known, `RegisteredInv` that each function
the walk has come by is registered (in Go by the end of the first pass, hence
`SecondPass`), `EntriesInv` and `SitesInv` that what is in the graph is in its place. The
handlers of the four languages are shown to be instances of five steps (`PassStep`,
`RegisterStep`, `EnterStep`, `LeaveStep`, `FileStep`), and each part of `IInv` to be kept
by those.

**Directives.** `DirectivesInv` says that the directives are those of the files walked so
far, each at its comment's first line (`ScanStep`, `KeepsDirectives`). The rest is about
texts. Lines never go back and stay the same just over comments behind nodes of one
row (`LinesBetween`), so a comment's line is a node's, or the one above, exactly when
what lies between shares rows as the property says (`LinesReached`). What the words of a
comment are parsed into holds a name exactly when they are a directive of that name
(`DirectiveParsed`): the parts of a list are what commas or ends cut off
(`PartsOfList`), and those of one word are the words alone between them
(`AloneInList`).

**Only model-checked:** liveness (`Terminates`, `EveryRequestAnswered`, `NoOrphan`: out
of the prover's reach, as is anything about `ENABLED`); and of the extractors
`DefinitionsAddUp`, `LastTypeStands`, `ImportedCallsReach` and `ReceiversTyped`. The last
two do not hold of every program the
parsers can hand over but of those whose names and types are written as the
[preconditions](#runs) say: what an import or a variable stands for is taken from the
text by the property, and two definitions of one name are outside it.

## Where the code and its comments part

Each has a run that shows it, and an entry under `findings`.

- `engine/engine.go:19` says that module-scope code is analyzed
  intra-procedurally; the module scope of all files is one list of calls, so a source at
  the top of one file and a sink at the top of another make a finding
  (`MCEngineTops`).
- `README.md:99` says that saving refreshes the report; a file whose last finding
  disappears shows it until that very file is saved (`MCLspServerStale`).
- `cli/cli.go:208` says that 0 means all patches were applied; a patch skipped for
  another one's line, or for a line that changed, is not counted
  (`MCApplyPatchesExit`).
- `callgraph/typescript.go:52` says that an `index.ts` file's package is its directory;
  its relative imports start from the parent (`MCExtractorsIndex`).

The extractors have outgrown some comments, which call a limitation what the code has
since learnt, or the other way round. `ReceiversTyped` and `GraphInv` state what the code
does:

- `callgraph/java.go:28-31`: a call on a variable of class type is said to match only by
  its raw text; it resolves to the class's method;
- `callgraph/golang.go:28-30` and `159-160`: receiver types and types of `x := f()` are
  said to be a follow-up; both are tracked;
- `callgraph/typescript.go:15-18`: arrow functions bound to a variable are said not to be
  captured; they are;
- `callgraph/typescript.go:113-118`: leaving the extension `.js` on an import is said not
  to matter; `./m.js` is resolved to `m.js`, which is no module.

Other limits, found while modelling and kept out of the properties by name:

- engine: a guard counts wherever it stands in a closure (by design, `engine.go:492`);
  keyword arguments do not count for `wrap_argument` and comments do
  (`engine.go:371`); a wildcard guard is inserted as it stands (`engine.go:291`);
- extractors: names defined twice share their calls (`DefinitionsAddUp`); `from . import m` and
  `__init__.py` at the source root (`python.go:115`); `import a.b.c` binds `a`
  (`python.go:259`); a `go.mod` above the source root (`golang.go:104`); a variable
  declared without a type, or in an inner block, keeps or leaves a type
  (`java.go:329`, `golang.go:633`; `LastTypeStands` says which, for Java); TypeScript
  imports of `.` or `..` alone (`typescript.go:96`), of a directory's `index` spelled out
  (`typescript.go:43`), and any in a file with a dot in its name or path, whose package
  loses only the last part of it (`typescript.go:84`); `this.m()` in a nested TypeScript class has no edge
  (`typescript.go:331`);
- service maps: edges out of hop order leave calls out; documents behind a `---` are
  dropped, as they are from policy files (`policy.go:196`);
- command: a source that cannot be read ends `check` with 1, the code of findings; a
  failed write counts its patches as applied (`cli.go:296`); the summary of `--apply`
  follows the document of `--format json` and `sarif` (`cli.go:248`);
- output: without a policy for the language the SARIF rules are `null`
  (`output.go:438`);
- server: the reply to shutdown has neither result nor error (`server.go:94`); a file
  whose URI the editor escapes otherwise has its findings cleared when saved;
- directives: `/** policyguard: ...` and `## policyguard: ...` are none
  (`suppressions.go:70`), and neither is one with a reason behind its ids;
- action: with upload and gate off, a failing run leaves a green job and the bare
  marker as comment (`action.yml:129`); runs for two languages share one comment.

## What is left out

- **Wording and layout** of reports, suggestions, diagnostics and ranges: no property is
  about them.
- **Decoders**: YAML, JSON and the header of a message are read by libraries or a line
  scan; the models take a document or a message as whole, empty, malformed or cut short. A header
  whose length is not that of its body, so that the rest is read as the next message, is
  not modelled.
- **Scanner**: a wrapper over tree-sitter. The extractors' models start from the
  nodes a walk comes to, and take the grammar's variants of one construct as one node;
  that and the type inference Go's extractor does for expressions other than those
  named in `GoExtractor` is why extractors are marked `partly`.
- **The action's installation steps** and `check-fixtures.sh`: shell around the binary.

## Plan

Done, in this order: engine and closure with their proofs; chains and their hops; service
map; server; `--apply` and the fixes it writes; the command with its policies, service
map and output; extractors and directives; the action.

Proved, in this order: closure and engine; exit code and policy ids; what `--apply` leaves
alone; service map; chains; the rest of the command; the action; the server's replies and
diagnostics; what `--apply` counts and what its exit code means; the graph the extractors
build; the file a fix writes; the lines directives reach.

What is left: `ImportedCallsReach` and `ReceiversTyped` could be proved of a class of
programs, once it is stated which one: definitions with names of their own, and types
written as the [preconditions](#runs) say.
