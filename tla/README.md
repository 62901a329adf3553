# Formal model of CodeSkeptic

CodeSkeptic is a static analyzer for C and C++ built on Clang LibTooling. It
finds null dereferences, divisions by zero, leaks, double frees, out-of-bounds
accesses and similar defects by dataflow analysis of each function, with
summaries of the functions it calls, and ends with a verdict (exit 0, 1 or 2)
that other tools rely on. This directory models the parts of it whose
correctness is hard to see from the code or from a test: the dataflow engine,
the interval analysis and the overflow rule on it, the path-sensitive rules on
guarded disjuncts (null dereferences and leaks), the rules for descriptors and
for divisions, the solving and sharing of function summaries, the run that turns
sources, options and files into a verdict, and the server that makes such runs
one after another in one process. Paths below are relative to the repository;
the implementation is under `src/` there.

To check everything: `tlc -workers 2 -config X.cfg M` for the runs in the table
below, `tlapm M.tla` for the proof modules.

## The system

| Component | State it keeps | Operations | What makes it correct |
|---|---|---|---|
| Dataflow engine (`engine/DataflowEngine.h`) | worklist and queued flags, exit state per block, visit counts, widening memory, iteration count | drain the worklist, compute an entry state (merge, refine, prune, rewind a `?:`), widen, give up at the cap, report | the reported states cover every execution; they are a fixed point; nothing is pending twice; the iteration cap is a fuse and not a limit in normal use |
| Analyses on the engine (nullness, zeroness, uninitialized, leak, descriptor, intervals) | a lattice value per variable | merge, transfer, refine on an edge, widen | merge and transfer over-approximate; heights are honest |
| Guarded disjuncts and path facts (`engine/GuardedDisjuncts.h`, `PathFacts.h`, `CondFacts.h`) | up to four states with the facts under which they hold | merge, collapse, widen, refine by a condition | collapsing loses precision only |
| Intervals (`engine/Interval*.{h,cpp}`) | int64 bounds per variable | arithmetic, join, meet, widen, constrain, evaluate, refine | the run-time value is in the interval, at every width and at the edges of int64 |
| Function summaries (`engine/FunctionSummary.{h,cpp}`, `SccFinder.h`) | the table of the unit in hand, the component being solved, the global store, the file | rebuild, lookup, harvest, merge, save, load, clear | a claim the rules are told is true of the callee; solved tables are fixed points; results do not depend on the order of units |
| Rule engine (`engine/RuleEngine.cpp`) | the enabled rules | per unit: rebuild, run the rules, harvest, clear the caches keyed by its AST | nothing keyed by an AST outlives it |
| Source manager (`source_manager/SourceManager.cpp`) | the file list, the set of broken files, the warm AST cache | run the tool over the compile commands, guard broken units, reuse or drop warm ASTs | every file is analysed, recorded as broken, or counted as missing; an AST in use is that of the sources |
| Run orchestration (`analyzer/StaticAnalyzer.cpp`, `main.cpp`) | the diagnostics, the result | load summaries, pass 1, pass 2, account, filter, baseline, report | a clean verdict means that the evidence is there |
| Verdict (`core/AnalysisResult.h`, `ExitPolicy.h`) | counts and failure flags | predicates and the exit code | as above |
| Baseline (`analyzer/Baseline.cpp`) | a count per key, on disk | write, load, filter | what was recorded stays hidden, what is new surfaces |
| Coverage report (`engine/CoverageReport.cpp`) | the functions that were not finished | record, count | an unfinished function is in the verdict |
| Null rule (`rules/NullDerefRule.cpp`) | per disjunct the nullness of each pointer and its guard implications | transfer, refine, meet, mine implications at a collapse, activate them, report | a null whose source is known is reported where it is used; a pointer used behind its guard is not |
| Leak rule (`rules/MemoryLeakRule_Ex.cpp`) | per disjunct the life of each pointer's block, bindings, realloc relations, owners | acquire, release, copy, adopt, reset, realloc, refine, report | a double free or a use after free is real; what leaks is reported |
| Descriptor rule (`rules/FdResourceRule.cpp`) | the life of each origin, bindings, copies, negative values, witnesses | assign, call, return, refine, merge, report | what is held at the end is reported, and nothing else |
| Division rule (`rules/DivByZeroRule.cpp`) | zeroness per variable, seeds of parameters | passes over the callers, dataflow, reports | an error is certain; a zero with a known source is reported |
| MCP server (`server/McpServer.cpp`) | warm cache, process-wide options, stores and reports | requests | every line is dealt with; a request does not see the state of an earlier one; what it analyses is current |
| Contracts, sidecars, policies, reporters, configuration, names, summary diff | none across calls | parsing, matching, formatting | (not modelled) |

How they interact. `main` starts a run; `StaticAnalyzer::run` drives Clang
through the source manager, whose callback hands each translation unit to the
rule engine. That solves the unit's summaries (each of them by AST inspection
and small dataflow runs), then runs the rules, which call `runDataflow` for each
function, read the summaries and produce diagnostics. In whole-program mode
there is a pass before that harvests summaries only. All of it shares
process-wide state: the summary registry and its global store, the CFG, flag,
guard and parameter-interval caches, the coverage report, the options.
The server (`--mcp`) reads lines from its client in a loop and makes such a run for
every `analyze` request; it keeps trees of unchanged files.
The program runs in one thread. What is hard about it is therefore less
interleaving than order: the order in which blocks change, in which units are
found and harvested, the order of filters and counts, what one path, unit, run or
request leaves behind for the next, partial failure, and bounds (iterations, sweeps,
disjuncts, passes, cache entries). Only the server has something that runs beside
it: its client, and whoever edits the files while a request is served. `PROJECT.json` lists these hazards line by line.

## The modules

| Module | Models | State and actions |
|---|---|---|
| `Dataflow` | `runDataflow` for one function and one analysis (a *job*) | `worklist`, `exits`, `visitCounts`, `widenMemory`, `iterations`, `result`, `reported` are the locals of the same name (`reported` is what phase 2 starts each block from). `Unavailable` and `Begin` are the early returns and the first enqueue; `Visit` is one turn of the loop with its three ends, `Skip` (no contributing predecessor), `Die` (a fatal call cuts the block) and `Record`; `Settle` ends the loop; `Report` is phase 2. `EntryState` is `computeEntryState` with its `?:` rewind, refuted edges and refinement |
| `DataflowSoundness` | what the rules rely on | composes `Dataflow` with an execution of the analysed function: `Enter` and `Walk` take concrete states through the CFG. `GammaAssumption` and `AnalysisAssumption` are the contract of an analysis (it over-approximates) |
| `Nullness` | the lattice of `NullDerefRule` for one pointer | operators with the names in the source |
| `Summaries` | `SummaryRegistry` for return nullness | `SolveFunction`, `EnterComponent`, `Sweep`, `Publish` are `rebuild` (a single function; entering a recursive component; one synchronous sweep with its convergence test, its guard and its fallback; completion, after which `stable()` holds); `FinishUnit` is the harvest and `clear()` at the end of a unit's callback; `HarvestAgain` is a later process over the same sources. `order` is the order of the files and `store` is `globalStore_` |
| `AnalysisRun` | `StaticAnalyzer::run`, the cold path of `SourceManager::processAll`, `RuleEngine::runAll`, `AnalysisResult`, `Baseline` | `Refuse`, `LoadSummaries`, `HarvestUnit`, `BeginAnalysis`, `AnalyzeUnit`/`SkipUnit`/`LoseUnit`, `Account`, `RecordBaseline`/`Report` in the order of `run()`; `NextRun` is a new process over a program that may have been edited, and only the baseline file outlives the old one. A file's summaries rest on those of other files; `store` is what has been harvested, `full` the files whose summaries were inferred when all that they rest on was there, and a second harvest is merged with the first. `examined` and `frozen` are history variables |
| `Interval` | the lattice (`Interval.cpp`) | operators with the names in the source. An infinite bound is the integer next to int64, the empty interval one whose bounds have crossed |
| `IntervalEval` | `evalInterval`, `applyIntervalAssign`, `refineIntervalOnEdge`, `IntervalAnalysis` | runs the analysis next to an execution of the analysed code along a *path*: `Literal`, `Read`, `Source`, `Unknown`, `Cast`, `Minus`, `Binary` are the nodes of an expression (its recursion is the stack `operands`), `Assign`, `Static`, `Rewrite`, `StoreThrough`, `Scan`, `Fill` the statements, `Compare` and `Truth` the edges of branches, `Parameter`, `Join` and `Widen` what the engine adds. `env` is the program's state; `iv` and `untrusted` are `IntervalState`'s fields; `outside` is a history of what the intervals do not provide for |
| `IntOverflow` | the decision of `IntOverflowRule` at each operator and narrowing | `isReportableOp`, `evalEscapes64`, `escapesSignedFinite` on the operands of the next node. The rule reports a line once (`IntOverflowRule.cpp:244`); of several operators on it the first stands for the others |
| `PathFacts` | which conditions and statements say something about a variable or a member (`PathFacts.cpp`, `ConditionWalk.h`) | operators with the names in the source: `normalizeCompare`, `conditionFact`, `factsContradict`, the collectors of what can be keyed. A condition is a tree of leaves; what C makes of a comparison is beside what the code makes of it |
| `Disjuncts` | `GuardedDisjuncts.h` | the state is a set of at most `MaxDisjuncts` records of facts and values; `normalizeGuarded`, `mergeGuarded`, `widenGuarded`, `refineGuardedFacts`, `applyStmtFacts`, `flattenGuarded`. The hooks that a rule passes (`ops`) are constants, as in the template |
| `Execution` | what runs beside an analysis | the C values of integers and what a statement may do to them |
| `NullRule` | `NullDerefRule` on the disjuncts | `Statement`, `OtherStatement`, `Branch`, `IfThen`, `Join`, `Widen` are `transfer` and `onStatement`, `refineOnEdge`, `merge` and `widen`; `state` is the analysis of the path the execution takes, `other` that of a path it does not take, until the two join. `env` is the program, `uses` the nulls it ran into, `diags` the reports. A function is a set of statements and conditions that may come in any order, or a script |
| `MergedNullness` | the single-state analysis of which the reporting view is "the exact counterpart" | one nullness per pointer; each action says what a sharper analysis may do |
| `LeakRule` | `MemoryLeakRule_Ex` on the disjuncts | the same actions beside a heap: `env.life`, `env.owns`, `env.out` say which blocks are live, who owns them and which have left the function. `Exit` is the exit block with `leaksAtExit` |
| `FdRule` | `FdResourceRule` | the same beside a table of open descriptors; numbers are reused as by the system |
| `Zeroness`, `ZeroRule` | the lattice and the rule of `DivByZeroRule.cpp` | `ZeronessPass` is one round of `buildParamZeroness`, `Analyse` the rule on every function of the unit (its dataflow is solved to the fixed point); then `Start`, `Write`, `Elsewhere`, `Divide`, `Branch`, `Call`, `Return` execute the unit beside the results. Globals are one for all frames, a static local one for the calls of its function, and `Elsewhere` is a call or a store through a pointer that may change whatever is shared |
| `ReturnStates`, `ReturnFlow` | what `summarizeFunction` says of a result | the three return dataflows of `FunctionSummary.cpp` as one product state per variable (`bad` for nullness or zeroness, `origin`, `owner`), with the operators of the source; `Sweep` is a round of the engine until nothing changes, `Harvest` draws the claims; `Start`, `Assign`, `Change`, `Pass`, `Expose`, `Branch`, `Switch`, `Return` execute the function beside them. A value is a leaf under a chain of casts and calls, a called function what its own summary claims |
| `Service` | what the server promises | lines asked, lines dealt with, answers, in order; every line is dealt with in the end |
| `McpServer` | the server, `SourceManager`'s warm cache, and what `StaticAnalyzer` and its destructor do to the process | `ReadLine`, `Configure`, `Start`, then per unit `LookUp`, `Parse`, `Analyse`, `Store` (the steps between which a file can change), `Conclude`, `Reply`, and `Exit`; `Send`, `Close` are the client, `Edit`, `EditHeader`, `EditContracts` the editor |
| `DataflowProofs`, `IntervalProofs`, `SummariesProofs`, `AnalysisRunProofs`, `McpServerProofs`, `FdRuleProofs`, `NullRuleProofs`, `ReturnFlowProofs` | proofs about the module of that name | see below |
| `MC...` | instances for TLC | functions, programs, sessions and requests to try |

How they compose: `NullRule` and `LeakRule` instantiate `Disjuncts` with their
own hooks and extend `Execution` (and through it `PathFacts`), `NullRule` extends
the lattice of `Nullness` that `Dataflow` runs in `MCDataflow`; `ZeroRule` extends
`Zeroness`; `NullRule` implements `MergedNullness` and `McpServer` implements
`Service`, each by INSTANCE with a refinement mapping.

Abstractions. The statements of a block are one function from the entry state to
the exit state, an edge's condition is another: the engine never looks deeper.
The edges that immutable flags refute are a parameter. A returned expression is
what `vstateOf` tells apart: a null, an address, a call with its resolved
targets, or something opaque. What an integer is at run time is C: two's complement, conversions modulo the
width, signed overflow ends the execution; the types, their conversions and `&`
are constants that the instance defines. A finding is a class of `operator==`; its two
baseline keys are functions of it. A file is one function as far as coverage is
concerned. A unit that is `lost` is one for which the callback is never called.
In the rules, the AST matching that decides what a call is (an allocator, a guard,
an out-parameter, a consuming call) is the kind of the statement, and what is not
told apart by it is left out: traces, wording, the choice of the tracked
variables. A rule's analysis is followed along the path of one execution and one
other path; the engine's joins of many paths are `Dataflow`'s question. A tree in
the server stands for the text of a file and the version of the header it
includes.

What the modules set aside. A property with `outside = {}` in front speaks of
executions in which none of these has happened; each is a history of something the
code makes no provision for, and was tried by hand without the exemption:

- `NullRule`: `conversion` (a comparison or a literal that C converts),
  `reference` (a keyed local passed by non-const reference), `operator=` (a member
  base assigned by an overloaded operator), `global` (a call may change a keyed
  global: the "deliberate limit" of `PathFacts.h`).
- `LeakRule`: `rebound` (a copy's root takes another pointer's value: finding 9),
  `ownerResult` (a result is bound to an owner's block while it was bound to
  another), `moved on` (`allocationRoot` takes a variable's own old block for the
  one it holds now), `reference` (an acquisition through a reference, or a fact
  about a referenced variable). `waived` are blocks the analysis has given up on: escaped
  in the reporting view, with owners that differ between paths, released
  through a pointer it cannot follow, or lost in a merge of freed with allocated.
  `ErrorsAreReal` does not ask about a double free by an owner: that report counts
  what the owner owns in one disjunct only, and is not certain.
- `FdRule`: `unseen` (a variable changed in place), `narrowed` (a negative value in a
  type that wraps it), `stale` (a number that was closed and has been reused),
  `mistaken` (a test takes a variable for the failure of a call though it holds
  something else than what that call returned last). The properties are about the
  descriptor that each call returned last: one that a loop lost by calling again is
  the divergence named below.
- `ZeroRule`: `narrowed` (a value whose low part is zero), `mixed` (finding 10),
  `contract` (a caller broke `requires n != 0`, which the callee relies on), `global` (a
  global or a static local was changed by a function elsewhere or by another call),
  `alias` (so was a local whose address or reference had been given away): finding 17.
  `ProvenZeroReported` does not ask for zeros that a copy hides from the rule (finding
  18), nor for those passed over more calls than there are passes.
- `ReturnFlow`: `changed` and `reference` (a variable changed in place or taken by
  non-const reference: finding 12), `converted` (an index compared with an
  unsigned bound: finding 13), `labelled` (a case that shares the default's statement:
  finding 16), `dynamic` and `nothrow` (the null of a `dynamic_cast` or of
  `new (std::nothrow)`: finding 14), `round trip` (a `dynamic_cast` below a cast to an
  integer and back: also 14), `shared` and `came back`
  (a block that somebody else holds as well: finding 15), `static` (a static
  variable that a later call finds as an earlier one left it), `retained` (a callee
  writes through an address it was given before), `borrowed` (a callee that borrows by
  non-const reference), `narrowed` and `mixed` as in `ZeroRule`.
- `McpServer`: `same stamp` (a write gives a file a size and time that the file has
  had before, with whatever text). File times do not go back.

## The runs

Fairness is stated where something runs for as long as it is asked to: the server.
Its loop is one thread that goes on whenever it can, so `McpServer` asks weak
fairness of `ServerStep`, of no single action of it, and none of the client or the
editor: nobody need send, close or edit. With that, and whatever is edited in
between, every line is dealt with (`RefinesService`, which includes `Service`'s own
`WF_vars(Deal)`). Everything else is a sequential call that ends by the bound
it carries (the iteration cap, the sweep guard, the list of files, the text of a
function), so what could fail there is not *that* it ends but *how*. Behaviours end
when the call, the function or the session is over: every configuration says
`CHECK_DEADLOCK FALSE` for that reason.

| Run | Question | Bounds |
|---|---|---|
| `dataflow` | Is the queue sound, do reports reflect the fixpoint, is every execution covered, does the engine invent no null, does widening memory only climb? | Functions of up to eight blocks: two-way join, nested loop with two back edges, endless loop with a pruned edge, a short loop behind a prologue, a `?:` diamond; every mix of statements and tests that the lattice tells apart; blocks that die, refuted edges. The engine decides by block, edge and flags alone; each of its branches is taken, and a loop with two back edges is the least CFG in which a block is re-queued while pending |
| `interval` | Is every value in its interval, and is an overflow with known operands reported? | an int64 of 6 bits, types of 2 to 6 bits (so that, as with 32-bit `int`, products of `int` fit int64 and products of `long` do not); six intervals per operand, among them the ends of int64; every operator, comparison, kind of constant and edge; each way to write a variable, a static local's included, before a guard and a use |
| `summaries` | Are the claims the rules are told true, are solved tables fixed points? | two units, three functions with every call pattern between them (recursion, mutual recursion, function pointers), a library function, static and inline functions, all three modes; two units are enough for a claim to cross a file, three functions for a recursive component with an outside callee |
| `analysis_run` | Does the verdict cover every file, is nothing overlooked, does the baseline hide what it froze and no more, does whole-program mode see all? | two files and a header, one or two options off the default, two runs with an edit between them (a baseline needs exactly two); whole-program mode with a file whose summaries rest on another's, listed in either order |
| `null_rule` | Is no path lost, is every known null that is used reported, does the collapse keep correlations, do the disjuncts implement the merged analysis? | two disjuncts instead of four, so that the third collapses; integers of 2 bits, with and without sign; thirteen functions of two to four steps in any order (flags, short-circuit and identity conditions, unsigned bounds, references, globals, members, results, contracts, two clauses that split the start), two scripts of six and seven steps with more guards than disjuncts |
| `leak_rule` | Does a disjunct always describe the heap, are double free and use after free real, is an owner's second free reported, and a leak? | two disjuncts, two blocks, thirteen functions of four or five steps in any order: release and null, copies and casts, escapes, families of allocators, realloc with every outcome, unique and shared owners, results of owners, references, two pointers tested together |
| `leak_rebound` | (violation) a binding is there only while the copy is unchanged | two blocks, six steps |
| `fd_rule` | Is what the state says so, is what is held at the exit reported, is a report real where nothing merged? | two origins, descriptors 0 and 1, ten functions of four to six steps in any order with branches and loops: two origins are enough for one test to clear the wrong one |
| `zero_rule` | Do claims hold, are errors certain, are known zeros reported, are seeds earned? | integers −1 to 2, twelve steps, about 2600 programs: every source × test × change × divisor, every source × argument × handler over one call, contracts with two calls on a line, a chain of four hops (one more than the passes), recursion, a loop of copies, copies before a call and before a contract, globals, statics and exposed locals with a call elsewhere between write and use |
| `return_flow` | Is what a summary says of a result true: never null or zero, always zero, only if an argument is, this argument, owned or borrowed, null only outside a range? Does a claim that it may be bad rest on the text? | 1755 functions of two to six statements: every value × test × change, loops that exchange parameters or replace a block, statics, chains of casts and calls of two widths, switches with and without holes and fallthrough, every comparison in both polarities; integers −1 to 2, two blocks, twelve steps |
| `mcp_server` | Is every line dealt with in order, does a request see only its own state, is what it analyses current? | two files and a directory of both, walked in either order, three texts, a cache of two trees (so that a session fills and flushes it), one edit at any moment, every pair of four requests and every other kind of line before and after a request. One edit is enough for each of the windows between two steps of the server; two requests are enough for a warm hit |
| `mcp_stale_header` | (violation) a stale AST is never served | the same |

Further configurations, which TLC refutes, with the finding each invariant shows:
`MCDataflowLate.cfg` (`ReportsReflectFixpoint`, 1), `MCWidening.cfg`
(`WideningConverges`, 2), `MCAnalysisRefuted.cfg` (`CleanVerdictHasEvidence`, 3,
`NewFindingSurfaces`, 4, and `AnyOrderSeesAll`, 6), `MCSummariesOverloads.cfg` (`CollisionKeepsClaimsTrue`, 5), `MCIntervalRefuted.cfg`
(`NeverNarrower`, 7, `EscapeIffCornerLeaves`, 8, and `StaticNeverNarrower`, 19), `MCReturnRefuted.cfg`
(`ChangedClaimsHold`, 12, `BoundCheckHolds`, 13, and `LabelsHold`, 16). Others need no
configuration of their own: `HarvestIsDeterministic` (6) in place of the invariants of
`MCSummaries.cfg`; `MixedErrorsAreReal` (10), `SharedErrorsAreReal` (17) and
`CopiedZeroReported` (18) in place of those of `MCZero.cfg`. Those with several invariants need `tlc -continue`, which goes on
past the first violation. The `TypeOK` of `AnalysisRun`, `NullRule`, `LeakRule` and
`FdRule`, which hold in those instances, are not among their runs' properties; those of
`AnalysisRun` and `FdRule` are proved.

The refinements. `RefinesMerged`: at every step, branch, join and collapse the
reporting view of the disjuncts knows at least what one state per point would
know, and stays true of the program; a definite answer of the merged analysis is never lost.
The mapping is `flattenGuarded` of both paths. `RefinesService`: the server's lines
sent, lines handled and the numbers of the lines its answers belong to are
`Service`'s three variables, liveness included.

## What the violations show

1. **A `?:` revisited late** (`engine/DataflowEngine.h:353`). The join of a `?:`
   takes the exit state of the condition block, which is not its predecessor,
   so a change of that exit does not wake the join. When the condition block is
   visited again and the arms' exits come out the same, the join keeps an old
   exit and the result is still `converged`. The recomputed entry state that the
   rules report from is right; exits behind the join are not.
   The test of the rewind is also by state and not by statement: an arm that assigns what its edge
   already says (`p ? 0 : (p = NULL)`) passes for one that does nothing.
2. **Cap and widening** (`engine/DataflowEngine.h:280`, `:473`). Widening starts
   after height + 2 visits of one block, and the cap is blocks × (height + 2)
   turns of all blocks. With several joins in a loop body a round
   takes more turns than it has blocks, and the cap comes first.
3. **Several compile commands** (`core/AnalysisResult.h:57`). Units are counted
   by callback and compared with the number of files: a file with two commands
   makes up for a file that was never analysed, and the run exits 0.
4. **Baseline counts** (`analyzer/StaticAnalyzer.cpp:375`). Findings are recorded
   and consumed before the duplicates of a header are merged, so a header
   included twice records two entries, and later one of them can hide
   another finding with the same text.
5. **Overloads** (`engine/FunctionSummary.cpp:3579`). The key is name and number
   of parameters. Before the unit of the second overload is harvested, a caller
   reads the first one's claim; what it concludes stays in the store.
6. **Order of files** (`engine/FunctionSummary.cpp:3990`). A harvest reads what
   earlier units stored: another order gives another file. In whole-program mode a
   summary that rests on a file listed further down is not the real one in pass 2, so
   the rules see "the real summary instead of Opaque" (`analyzer/StaticAnalyzer.cpp:242`)
   only for files listed after those they rest on; a second harvest is merged with the
   first and does not mend it (`:261` calls the two equivalent).
7. **Filling a `uint64_t`** (`engine/IntervalEval.cpp:648`). A declared source
   gives its reference arguments their type's range. A 64-bit unsigned type has
   none, and the branch returns before the treatment of other calls, which would
   have set the argument to unknown: the old interval stays.
8. **64-bit subtraction** (`rules/IntOverflowRule.cpp:175`). It is decided by the
   *sums* of the corners, so `a - b` is reported when `a + b` overflows, and an
   underflow of `a - b` is not.

9. **A pointer bound again** (`rules/MemoryLeakRule_Ex.cpp:1298`, run `leak_rebound`). A binding
   names a variable. After `q = p; p = r; free(r);` q resolves through p to r's
   freed block, and `*q` is a use after free in the report although its block lives.
10. **A result that is zero *only if*** (`rules/DivByZeroRule.cpp:89`). `zeroFromParam` claims one direction; the rule replaces the
   call by its argument, so a zero argument makes a definite zero of a result
   that may be something else. `zstateOf` does the same in the harvest.
11. **A header under a warm tree** (`source_manager/SourceManager.cpp:237`, run
   `mcp_stale_header`). The fingerprint is that of the main file; a request after an edit
   of a header, or of the build database, analyses the old tree.
12. **A result changed in place** (`engine/FunctionSummary.cpp:506`). The dataflow
   behind a return summary does not see `++`, `--`, compound assignments and
   reference arguments: `n = 0; n++; return n;` is always zero.
13. **A signed index and an unsigned bound** (`engine/FunctionSummary.cpp:1447`).
   `if (i >= 4u) return NULL;` is recorded as null only for `i > 3`; it returns null for −1.
14. **New and casts that yield null** (`engine/FunctionSummary.cpp:333`). `vstateOf`
   strips a `dynamic_cast` and takes a `nothrow` new for not null. The resolver of
   parameters blocks a `dynamic_cast`, but asks `vstateOf` about what is below a cast
   from an integer, where another may be.
15. **An owner that is not the only one** (`engine/FunctionSummary.cpp:869`). A
   block that a global, a static or a borrowing callee has as well is harvested as
   owned, or as borrowed, by the last assignment alone.
16. **A case stacked on the default** (`engine/FunctionSummary.cpp:1390`). In
   `switch (i) { case 0: return a; case 1: return b; default: case 2: return NULL; }`
   the hull of the cases is recorded as the range in which null is not returned, and
   2 is in it. This one turned up as an unprovable step.
17. **What others write** (`rules/DivByZeroRule.cpp:373`). Globals, static locals and locals
   whose address was taken are tracked as any other, and neither a call nor a store
   through a pointer ends what is known of them. `g = 0; load(); return 10 / g;` is an
   *error*, and after `g = 5; load();` the division is passed over.
18. **Copies before a call** (`rules/DivByZeroRule.cpp:929`, `:262`). The passes track arguments
   and not what they are copied from, and so do the contracts' arguments:
   `x = 0; y = x; f(y)` seeds nothing. For divisors the closure is there, with the
   reason for it (`:222`).
19. **Initialisers of statics** (`engine/IntervalEval.cpp:549`). They are applied on every
   pass over the declaration: in `static int n = 0; use(n * k); n += k;` n is 0 in
   every call.

The proof of containment needs each of the other members of `outside` as well;
each of them alone breaks it. `wrap`: unsigned arithmetic wraps (`Interval.h:22`
says so). `literal`: an unsigned literal with its top bit set is read
sign-extended. `comparison`: a guard compares in the common type (`n < 10u` for a
negative `n`) and is refined as if in the integers. `beyond`: for a `uint64_t`,
`n > INT64_MAX` leaves the empty interval on the edge that is taken
(`Interval.cpp:292`, "x > MAX impossible"); this one turned up as an unprovable
step. `alias`: a store through a pointer taken earlier. `static`: a static local that
another call has changed (finding 19). `unmatched`: a scanf field with
a width that matches nothing leaves the old value.

Other divergences met while modelling, which no run shows:
facts survive non-const references (`engine/PathFacts.cpp:180`) and literals are
compared unconverted (`:22`); a descriptor acquired again at the same call hides the
one before (`rules/FdResourceRule.cpp:273`); pass 1 of whole-program mode does not clear `ImmutableFlagCache`,
`ParamIntervalCache` and `AssertGuardCache` (`analyzer/StaticAnalyzer.cpp:248`,
against `engine/RuleEngine.cpp:38-49`); `setAnalyzeBrokenTUs` comes after pass 1
(`:263`); asserts that vanish in release builds are recovered only in the cold path
(`source_manager/SourceManager.cpp:70`), so the server's answers differ from those
of the command line; `Baseline.h` says that a missing file is
an empty baseline, the run exits 2; `computeReturnFlow`
(`engine/FunctionSummary.cpp:633`) uses a dataflow result without asking whether it
converged; `findGuardAbove` (`:1474`) looks for a `goto` within a switch only, and one
from elsewhere to a label inside an arm or a default enters it past the condition that is recorded;
`mergeConservative` clears parameter ownership when vectors differ in length.

## What is proved

TLAPS checks these for every value of the constants that satisfies the named
assumptions, so for every CFG, lattice, call graph, number of units and order.

`DataflowProofs` (from `BlockAssumption`, `ValueAssumption`, `JobAssumption`,
`GammaAssumption`, `AnalysisAssumption`):

- `TypeCorrect`: `WalkSpec => []WalkTypeOK`.
- `PendingOnceAlways`: the queue agrees with its flags and holds no block twice.
- `CoveredAlways`: for a job without a `?:` rewind, an execution that enters a
  block after convergence does so in a state the reported entry stands for.
- `WidenMemoryClimbsAlways`: the action property of the widening memory.
- `ReportsReflectAlways`: for a job without a `?:`, after convergence every exit *equals*
  its block's function of the reported entry. The invariant (`FixpointInv`) says this
  of every block that is not pending, for analyses that do not widen, and that an exit
  is recorded only where the entry or a predecessor reaches: exits are replaced
  and never taken back, so a block that was reached stays reached.
- `Inductive`: the invariant under them. `Covered` alone is not inductive: it
  says nothing while the worklist is running. The strengthening (`IInv`) says
  that a block which is *not* pending has an exit that covers what its function
  does to its present entry, that a change always leaves the affected successors
  pending, and that widened states are above what was merged. When the queue is
  empty every block is settled, which is `Covered` for the first block, and
  one step of `Walk` keeps it. The `?:` rewind breaks the second part (finding 1), so the
  theorem excludes it, and with `?:` coverage is model-checked.

`IntervalProofs` (from `IntAssumption`, `TypeAssumption`, `BitandAssumption`,
`WidthAssumption`: any width of int64, any set of types up to it):

- one lemma per operation of the lattice and of `evalInterval` (`JoinSound`,
  `MeetSound`, `NegateSound`, `AddSound`, `SubSound`, `MulSound` by its corners,
  `BitAndSound`, `RemSound`, `CastSound`, `ConstrainSound`): the result is an
  interval of int64 and contains what it stands for.
- `TypeCorrect`, `ContainedAlways`: `TypeOK` and `Contained` together are
  inductive (`IInv`): containment of an expression follows from that of its
  operands, which are on the stack, so the recursion needs no induction.
- `OverflowSeenAlways`: an overflow with known operands has a corner that
  leaves int64, or below 64 bits a bounded interval (`NarrowBounded`) that
  contains the value the type cannot hold.

`SummariesProofs` (from `ProgramAssumption`, `UnitAssumption`, `FunctionAssumption`,
`NoneAssumption`, `SweepsAssumption`):

- `TypeCorrect`: types, and no entry of the table outlives its unit.
- `NeverNullAlways`, `MaybeNullAlways`: what the rules are told is true of the
  callees, when no two visible functions share a key. The inductive invariant
  says that *every* summary anywhere (table, sweep, fallback, store) is sound of
  its function; inference from sound summaries is sound (`SummarySound`), so
  recursion needs no induction.
- `SolvedAlways`: the solved table is a fixed point. Solved functions are closed
  under calls, so a function that is solved later changes none of them
  (`SummaryDependsOnCallees`), and a component that is entered has no solved member.
  Inference is monotone (`SummaryMonotone`) and a component starts from nothing
  known, so a sweep that changes something makes one more summary known: the
  sweeps number at most the component's size, which is below `maxSweeps`. The
  fallback to the first sweep is therefore dead code for this lattice.

`AnalysisRunProofs` (from the assumptions of `AnalysisRun` on requests, keys and
findings):

- `VerdictIsCovered`, `NothingIsOverlooked`, `FrozenStaysHiddenAlways`,
  `BudgetIsRespected`, `WholeProgramSeesAllAlways`: the five properties of the run,
  for any number of files, units, runs and edits, and `TypesHold`. The
  invariant follows the list of compile commands: what has been counted falls behind
  the number of files passed as soon as one of them is lost (`Tallied`), what was
  emitted stays until a filter that was asked for takes it (`Found`),
  and the report is a function of the diagnostics and the baseline (`Shown`). The
  loops of the baseline are recursive functions; lemmas derive from
  least-counterexample reasoning what their turns preserve. `WholeProgramSeesAll` speaks of
  files that are listed bottom-up, each after those its summaries rest on. Pass 1 keeps
  that those of them it has passed are full (`Whole`): when the next is harvested, all it
  rests on was harvested before it. From then on they stay full, since merging a
  full summary with a full one loses nothing, and pass 2 shows in every file it has passed
  what they let it see (`SeenFrom`, `SeenWhole`).

`McpServerProofs` (from `McpAssumption`, `SourcesAssumption`, `SessionAssumption`):

- `OwnRequestAlways`, `InputsAlwaysCurrent`: for every session, cache size and
  sequence of edits. The first follows the result from the construction of the
  analyzer to the reply (`OwnInv`). The second needs to know of the cache that a tree is
  the file's present text whenever its fingerprint would be the file's present one
  (`CacheInv`), which holds because a fingerprint is taken before the text is read.
- `Refinement`: `S!Init` and `[][S!Next]`, the safety part of `RefinesService`.

`FdRuleProofs` (from the assumptions of `FdRule` on variables, origins and functions):

- `CoveredAlways`, `LeaksAreReported`, `LeaksAreReal` and `TypesHold`, for functions of
  any length over any variables and any number of descriptors. What the
  state says is true (`Agrees`) survives a merge whatever the other path says, because
  a merge only weakens; before the first merge a binding names exactly one call and no
  origin is open without a descriptor or a failure (`Exact`).

`NullRuleProofs` (from `PlaceAssumption`, `ModulusAssumption`, `MaxDisjunctsAssumption`
and `FunctionAssumption`: the text of a function is typed, what runs is in the text,
and the guard of a contract is about an integer that is not volatile):

- `CoveredAlways`: for functions of any length, any pointers, integers and members,
  any number of clauses and any bound of the disjuncts, no path is lost.
  `Covered` is almost inductive; the invariant `Sound` adds what the states
  consist of. There is a lemma for each operation of `Disjuncts` that says it
  keeps a disjunct that fits the execution: the fold of a merge is shown to exist and to
  stand for each of its operands, an implication mined at a collapse is true of every
  disjunct that fits, an edge keeps those whose facts are true of the condition, a
  statement drops what it makes stale. A variable that cannot be keyed may have a
  stamped fact that is false; part of the invariant (`Asleep`) is that no implication
  about it is ever active.
- `NullsAreReported`: with it, a null that is used is reported: the reporting view stands
  for the disjunct that fits, and reports are never withdrawn.
- `Soundness`: the invariant itself.
- `MergedIsRefined`: `RefinesMerged`, with its initial states and each of its steps.
  Only `Null` and `NonNull` are answers, and a merge gives one exactly when all the
  disjuncts do (`ViewIs`). So it is enough to follow what all disjuncts agree on
  (`Says`): uniting, splitting, narrowing and collapsing hand it on (`Hands`), a leaf
  teaches it to each disjunct that it leaves (`ConditionTeaches`), a statement gives it
  to each disjunct (`TransferHands`). What the merged analysis claims is `Backs`-ed by
  the disjuncts after every action. That the answers are true is `Soundness`.

`ReturnFlowProofs` (from `ReturnAssumption` and `ProgramAssumption`: the text of a
function is what a compiler accepts; nothing mentions a variable before its declaration
is reached; and what an arm of an `if`, or the statement of a default label, holds is
reached through the condition or the label only, which is true of text without a `goto`
into it):

- `ClaimOfReturn`, `OwnerOfReturn`, `ParametersOfReturn`: the three properties of a
  result, for functions of any length over any variables, values of any depth, any
  number of blocks and executions of any length. Nothing need be known about the
  iteration: that the flow is a fixed point of `Sweep` is a conjunct of the invariant
  (`FlowInv`), and a fixed point of a join that only weakens (`SweptFades`) says of each
  statement no more than what any predecessor hands it (`FlowHands`). Then the state
  before the statement that comes next is true of the execution (`Truth`), by one lemma
  per statement. None of the three is inductive: they say nothing before the return. The
  claims from the text need two more conjuncts, that a parameter which nothing
  writes holds its argument (`Unwritten`), and that a guarded return is not reached before
  its guard was passed in the recorded direction (`Entered`, by reachability around the
  guard). What a value is worth and what is said of it are recursive functions of the
  same chain; they are unfolded once each and compared from the leaf
  outwards or, for the resolver with its widths, from the result inwards
  (`ZeroResolved`).
- `EvidenceForMaybe`: a round keeps every alarm of the flow before it justified, since
  what the rounds reach only grows (`Growing`) and evidence is monotone in it.

What the proofs changed. In `Execution`, `~stop \in lhs` was read as `~(stop \in lhs)`: the
second operand of a `&&` or `||` did not run where the first could come out
either way, and the instance had no such condition (it has now). The history `reference` of
`NullRule` was about locals only, where the fact of any keyed variable goes stale, and
of several requires clauses only one was followed. `InputsWereCurrent` was first exempted when two texts of one
size were written in the same tick; the step of `Store` could not be proved, because
a file that is written, written again and written back in one tick has the first stamp
with another text in between: the exemption is now about stamps. `mistaken` in `FdRule`
excused less than the rule mistakes, which a variable bound to several calls shows once
there are more of them than in the instance; and its exemption for a call that acquires again
turned out not to be needed. `BudgetRespected` had allowed the sum of both forms of
a key, and is now stated for the findings without an entry in the old form. In `ReturnFlow` the text
of a function had no assumption; a callee that stores a block in a global of which it has
the address left the block the function's own (`Published`), objects outside included the
integer arguments (`Foreign`), and the members `labelled` and `round trip` of `outside` are
two steps that could not be proved. What a value is worth was a fold over a sequence
and is now a recursive function.

Only model-checked: `NoFalseAlarm` (it speaks of the instance's functions),
`ReportsReflectFixpoint` and `Covered` with `?:`, the liveness of `RefinesService`,
`CorrelationKept` of `NullRule`, and everything about `LeakRule` and `ZeroRule`.
Out of the prover's reach: liveness and ENABLED, what a recursive function computes for
every input (that the rounds of `ReturnFlow` and `ZeroRule` come to an end), and, as they
are written, `LeakRule` and `ZeroRule`, which follow chains of copies and calls with
recursive operators. `CorrelationKept` holds of the functions that the instance marks
as correlated and is not a statement about all functions.

## Plan

Done in this order: `Dataflow` with `Nullness`, its proofs, `AnalysisRun`,
`Summaries`, its proofs, `Interval` with `IntervalEval` and `IntOverflow`, their
proofs; `PathFacts`, `Disjuncts` and `NullRule` with `MergedNullness`; `LeakRule`;
`FdRule`; `ZeroRule`; `McpServer` with `Service`; `ReturnFlow`; the proofs of
`McpServer`, `AnalysisRun`, `FdRule`, `NullRule` and `ReturnFlow`. Next, most important first:

1. Proofs. `ZeroRule` and `LeakRule`, with the chains they follow as recursive functions:
   first that `transfer`, `merge` and `applyCondition` of `Zeroness` over-approximate.
2. `Summaries` over `ReturnFlow` and `Dataflow`: unfinished dataflow, folding on
   unstable summaries; then parameters' ownership, effects and preconditions with
   `mergeConservative`.
3. `evalSizeInterval`, `soleDefIntervals` and the parameter seeds, with the rules
   on allocation sizes and bounds.

Not modelled and not planned: parsing of contracts, sidecars, policies and
options, AST matching, reporters and fingerprint hashing, the summary diff, name
tables, scripts. They are text or AST inspection without a state that an order of
events can put wrong.
