----------------------------- MODULE AnalysisRun -----------------------------
(***************************************************************************)
(* Runs of the analyzer over a project: StaticAnalyzer::run with the       *)
(* sources it feeds to Clang (SourceManager), the rules it runs per        *)
(* translation unit (RuleEngine), the cross-TU summary store, the baseline *)
(* file, the suppression and severity filters and the verdict.             *)
(*                                                                         *)
(* One run is one process; only the baseline file outlives it.  A finding  *)
(* is an element of Finding (its operator== class); what a rule computes   *)
(* is abstracted to which findings a unit yields, given whose summaries    *)
(* are in the store.                                                       *)
(***************************************************************************)
EXTENDS Integers, Sequences, FiniteSets

CONSTANTS
    File,           \* source files
    Finding,        \* distinct diagnostics
    KeyV1(_),       \* Baseline::keyV1, by line number
    KeyV2(_),       \* Baseline::keyV2, by line content
    Request,        \* the requests users make: program, options, environment
    FirstBaseline,  \* the baseline files there may be before the first run
    MaxRuns         \* bound on the number of runs

Key == {KeyV1(d) : d \in Finding} \cup {KeyV2(d) : d \in Finding}

\* The line number of the one is never the hash of the other.
ASSUME KeysAssumption == \A c, d \in Finding : KeyV1(c) # KeyV2(d)

(***************************************************************************)
(* A request.  `files' is source_files_, `commands' what Clang makes of    *)
(* each compile command of a file ("lost": no AST at all), which may have   *)
(* none or several.  A unit of f yields, in order, the findings of emits[f] whose  *)
(* `needs' are files with full summaries in the store; f's own are         *)
(* inferred anew.  The summaries of f are full if those of the files in    *)
(* rests[f], from which they are inferred, were full before.  `gaps' are the files *)
(* with a function the dataflow could not finish.  `hidden' are findings   *)
(* outside the report paths or suppressed in the source, `low' the ones    *)
(* below the minimum severity, `reportOnly' those of experimental rules.   *)
(***************************************************************************)
RequestType ==
    [files : Seq(File),
     commands : [File -> Seq({"ok", "broken", "lost"})],
     emits : [File -> Seq([finding : Finding, needs : SUBSET File])],
     rests : [File -> SUBSET File],
     gaps : SUBSET File,
     hidden : SUBSET Finding,
     low : SUBSET Finding,
     reportOnly : SUBSET Finding,
     rulesEnabled : BOOLEAN,
     wholeProgram : BOOLEAN,
     analyzeBroken : BOOLEAN,
     acceptPartial : BOOLEAN,
     summaryIn : {"none", "fresh", "stale", "unreadable"},
     summaryOut : {"none", "writable", "unwritable"},
     writeBaseline : {"none", "writable", "unwritable", "full"},
     useBaseline : BOOLEAN,
     reportWritable : BOOLEAN]

ASSUME RequestAssumption == Request \subseteq RequestType

BaselineType == [present : BOOLEAN, count : [Key -> Nat]]
NoBaseline == [present |-> FALSE, count |-> [k \in Key |-> 0]]

ASSUME BaselineAssumption == FirstBaseline \subseteq BaselineType
ASSUME MaxRunsAssumption == MaxRuns \in Nat

VARIABLES
    request,        \* the options and the program of the current run
    phase,          \* where run() is
    unit,           \* <<i, k>>: next is compile command k of files[i]
    toolResult,     \* did ClangTool::run return non-zero in this pass
    store,          \* the files whose summaries are in globalStore_
    full,           \* those of them whose summaries say all that can be inferred
    brokenTUs,      \* SourceManager::brokenTUs()
    incomplete,     \* CoverageReport, one function per file
    diagnostics,    \* diagnostics_
    result,         \* the AnalysisResult
    visible,        \* what the reporter was given
    baseline,       \* the baseline file: present, and a count per key
    runs,           \* runs started (bounded by MaxRuns)
    examined,       \* history: the files the rules have seen in this run
    frozen          \* history: the findings the baseline file was made from

vars == <<request, phase, unit, toolResult, store, full, brokenTUs, incomplete,
          diagnostics, result, visible, baseline, runs, examined, frozen>>

NoResult ==
    [attempted_tus |-> 0, analyzed_tus |-> 0, broken_tus |-> 0,
     incomplete_functions |-> 0, findings |-> 0, report_only |-> 0,
     analyze_broken_tus |-> FALSE, accept_partial |-> FALSE,
     no_inputs |-> FALSE, no_rules |-> FALSE, tool_failed |-> FALSE,
     summary_load_failed |-> FALSE, summary_stale |-> FALSE,
     summary_save_failed |-> FALSE, baseline_load_failed |-> FALSE,
     baseline_write_failed |-> FALSE, baseline_recorded |-> FALSE,
     report_write_failed |-> FALSE]

-----------------------------------------------------------------------------
(* AnalysisResult: the verdict *)

HardFailure(r) ==
    \/ r.no_inputs \/ r.no_rules \/ r.tool_failed
    \/ r.attempted_tus > 0 /\ r.analyzed_tus = 0 /\ ~r.analyze_broken_tus
    \/ r.summary_save_failed \/ r.baseline_load_failed
    \/ r.baseline_write_failed \/ r.report_write_failed

\* Mutant: a unit that was skipped or lost is no gap in the evidence.
IncompleteIgnoringUnits(r) ==
    r.incomplete_functions > 0 \/ r.summary_load_failed \/ r.summary_stale

IncompleteEvidence(r) ==
    \/ r.broken_tus > 0 /\ ~r.analyze_broken_tus /\ ~r.accept_partial
    \/ r.analyzed_tus + r.broken_tus < r.attempted_tus
    \/ r.incomplete_functions > 0
    \/ r.summary_load_failed \/ r.summary_stale

Complete(r) == ~HardFailure(r) /\ ~IncompleteEvidence(r)

\* findings - min(findings, report_only)
BlockingFindings(r) == IF r.report_only > r.findings THEN 0 ELSE r.findings - r.report_only

exitCode(r) ==
    IF ~Complete(r) THEN 2
    ELSE IF r.baseline_recorded THEN 0
    ELSE IF BlockingFindings(r) > 0 THEN 1 ELSE 0

-----------------------------------------------------------------------------
(* Lists *)

Elements(s) == {s[i] : i \in DOMAIN s}

\* The elements of s that are in keep, in their order.
Among(s, keep) ==
    LET kept[i \in 0..Len(s)] ==
            IF i = 0 THEN <<>>
            ELSE IF s[i] \in keep THEN Append(kept[i - 1], s[i]) ELSE kept[i - 1]
    IN  kept[Len(s)]

-----------------------------------------------------------------------------
(* Baseline *)

Occurrences(k, ds) == Cardinality({i \in DOMAIN ds : KeyV2(ds[i]) = k})

\* Mutant: a set of keys instead of a multiset.
RecordedOnce(ds) == [k \in Key |-> IF Occurrences(k, ds) > 0 THEN 1 ELSE 0]

\* write(): one line per finding, duplicates preserved.
Recorded(ds) == [k \in Key |-> Occurrences(k, ds)]

\* Mutant: the budget of a key is never consumed.
FilteredByKey(counts, ds) == SelectSeq(ds, LAMBDA d : counts[KeyV1(d)] + counts[KeyV2(d)] = 0)

\* filter(): each finding consumes one entry of its old or else its new key.
Filtered(counts, ds) ==
    LET consume(acc, k) == [acc EXCEPT !.budget[k] = @ - 1]
        acc[i \in 0..Len(ds)] ==
            IF i = 0 THEN [budget |-> counts, kept |-> <<>>]
            ELSE LET d == ds[i]
                     a == acc[i - 1]
                 IN  IF a.budget[KeyV1(d)] > 0 THEN consume(a, KeyV1(d))
                     ELSE IF a.budget[KeyV2(d)] > 0 THEN consume(a, KeyV2(d))
                     ELSE [a EXCEPT !.kept = Append(@, d)]
    IN  acc[Len(ds)].kept

-----------------------------------------------------------------------------
(* Processing one unit *)

Current == request.files[unit[1]]

\* What the next command gives; a file with no command is passed over as lost.
Outcome == IF request.commands[Current] = <<>> THEN "lost"
           ELSE request.commands[Current][unit[2]]

NextUnit == IF unit[2] < Len(request.commands[Current]) THEN <<unit[1], unit[2] + 1>>
            ELSE <<unit[1] + 1, 1>>

UnitsLeft == unit[1] <= Len(request.files)

\* The findings the rules produce in a unit of file f.
runAll(r, f, known) ==
    LET seen == Among(r.emits[f], {e \in Elements(r.emits[f]) : e.needs \subseteq known \cup {f}})
    IN  [i \in DOMAIN seen |-> seen[i].finding]

\* The guard on broken units: one that does not compile is not analysed.
Skipped(acceptBroken) == Outcome = "broken" /\ ~acceptBroken

-----------------------------------------------------------------------------
Init ==
    /\ request \in Request
    /\ phase = "start"
    /\ unit = <<1, 1>>
    /\ toolResult = FALSE
    /\ store = {} /\ full = {}
    /\ brokenTUs = {}
    /\ incomplete = {}
    /\ diagnostics = <<>>
    /\ result = NoResult
    /\ visible = {}
    /\ baseline \in FirstBaseline
    /\ runs = 1
    /\ examined = {}
    /\ frozen = <<>>

\* No files, or no enabled rule: nothing is analysed and the verdict says so.
Refuse ==
    /\ phase = "start"
    /\ request.files = <<>> \/ ~request.rulesEnabled
    /\ phase' = "done"
    /\ result' = [NoResult EXCEPT !.attempted_tus = Len(request.files),
                                  !.analyze_broken_tus = request.analyzeBroken,
                                  !.accept_partial = request.acceptPartial,
                                  !.no_inputs = request.files = <<>>,
                                  !.no_rules = request.files # <<>>]
    /\ UNCHANGED <<request, unit, toolResult, store, full, brokenTUs, incomplete,
                   diagnostics, visible, baseline, runs, examined, frozen>>

Loads == request.summaryIn \in {"fresh", "stale"}

\* Load --summary-in, whatever the run that wrote it knew; a load failure or a stale file
\* is noted and the run goes on.
LoadSummaries ==
    /\ phase = "start"
    /\ request.files # <<>> /\ request.rulesEnabled
    /\ phase' = IF request.wholeProgram THEN "pass1" ELSE "accept"
    /\ store' = IF Loads THEN Elements(request.files) ELSE {}
    /\ full' \in SUBSET store'
    /\ result' = [NoResult EXCEPT !.attempted_tus = Len(request.files),
                                  !.analyze_broken_tus = request.analyzeBroken,
                                  !.accept_partial = request.acceptPartial,
                                  !.summary_load_failed = request.summaryIn = "unreadable",
                                  !.summary_stale = request.summaryIn = "stale"]
    /\ UNCHANGED <<request, unit, toolResult, brokenTUs, incomplete, diagnostics,
                   visible, baseline, runs, examined, frozen>>

\* Mutant: clear() also empties the global store.
harvestAlone(f) ==
    /\ store' = {f}
    /\ full' = IF request.rests[f] \subseteq {f} THEN {f} ELSE {}

\* harvestGlobal() stores the summaries of f as they could be inferred from what the
\* store holds now.  Where it has some of f they are merged conservatively: what the
\* two do not agree on is lost.
harvestGlobal(f) ==
    /\ store' = store \cup {f}
    /\ full' = IF request.rests[f] \subseteq full \cup {f} /\ (f \in store => f \in full)
                 THEN full \cup {f} ELSE full \ {f}

\* Pass 1 of --whole-program harvests summaries.  The process-wide flag of
\* --analyze-broken-tus is set only after this pass.
HarvestUnit ==
    /\ phase = "pass1"
    /\ UnitsLeft
    /\ unit' = NextUnit
    /\ IF Outcome = "ok" THEN harvestGlobal(Current) ELSE UNCHANGED <<store, full>>
    /\ brokenTUs' = IF Skipped(FALSE) THEN brokenTUs \cup {Current} ELSE brokenTUs
    /\ UNCHANGED <<request, phase, toolResult, incomplete, diagnostics, result,
                   visible, baseline, runs, examined, frozen>>

\* setAnalyzeBrokenTUs, clearBrokenTUs and the start of pass 2.
BeginAnalysis ==
    /\ \/ phase = "accept"
       \/ phase = "pass1" /\ ~UnitsLeft
    /\ phase' = "pass2"
    /\ unit' = <<1, 1>>
    /\ brokenTUs' = {}
    /\ UNCHANGED <<request, toolResult, store, full, incomplete, diagnostics, result,
                   visible, baseline, runs, examined, frozen>>

\* The rules run over one unit; its summaries are harvested for --summary-out.
AnalyzeUnit ==
    /\ phase = "pass2"
    /\ UnitsLeft
    /\ Outcome # "lost" /\ ~Skipped(request.analyzeBroken)
    /\ unit' = NextUnit
    /\ toolResult' = (toolResult \/ Outcome = "broken")
    /\ result' = [result EXCEPT !.analyzed_tus = @ + 1]
    /\ diagnostics' = diagnostics \o runAll(request, Current, full)
    /\ incomplete' = incomplete \cup (request.gaps \cap {Current})
    /\ IF request.summaryOut # "none" THEN harvestGlobal(Current) ELSE UNCHANGED <<store, full>>
    /\ examined' = examined \cup {Current}
    /\ UNCHANGED <<request, phase, brokenTUs, visible, baseline, runs, frozen>>

\* A unit that does not compile is recorded, once per file, and skipped.
SkipUnit ==
    /\ phase = "pass2"
    /\ UnitsLeft
    /\ Skipped(request.analyzeBroken)
    /\ unit' = NextUnit
    /\ toolResult' = TRUE
    /\ brokenTUs' = brokenTUs \cup {Current}
    /\ UNCHANGED <<request, phase, store, full, incomplete, diagnostics, result,
                   visible, baseline, runs, examined, frozen>>

\* The callback is never called for a unit without an AST.
LoseUnit ==
    /\ phase = "pass2"
    /\ UnitsLeft
    /\ Outcome = "lost"
    /\ unit' = NextUnit
    /\ toolResult' = TRUE
    /\ UNCHANGED <<request, phase, store, full, brokenTUs, incomplete, diagnostics,
                   result, visible, baseline, runs, examined, frozen>>

\* Account for the units, save the summaries, drop what is hidden.
Account ==
    /\ phase = "pass2"
    /\ ~UnitsLeft
    /\ phase' = "filter"
    /\ result' = [result EXCEPT
          !.broken_tus = Cardinality(brokenTUs),
          !.tool_failed = toolResult /\ result.analyzed_tus + Cardinality(brokenTUs)
                                          < result.attempted_tus,
          !.incomplete_functions = Cardinality(incomplete),
          !.summary_save_failed = request.summaryOut = "unwritable"]
    /\ diagnostics' = Among(diagnostics, Finding \ request.hidden)
    /\ UNCHANGED <<request, unit, toolResult, store, full, brokenTUs, incomplete,
                   visible, baseline, runs, examined, frozen>>

\* setFindingCounts over a list, where duplicates still count.
Counted(ds) ==
    [result EXCEPT !.findings = Len(ds),
                   !.report_only = Cardinality({i \in DOMAIN ds : ds[i] \in request.reportOnly})]

\* --write-baseline: nothing is reported, the run is a recording.  Opening the
\* file truncates it; on a full disk only part of the lines gets there, and
\* good(), asked before the last flush, may or may not tell.
RecordBaseline ==
    /\ phase = "filter"
    /\ request.writeBaseline # "none"
    /\ phase' = "done"
    /\ \/ /\ request.writeBaseline = "unwritable"
          /\ result' = [Counted(diagnostics) EXCEPT !.baseline_write_failed = TRUE]
          /\ UNCHANGED <<baseline, frozen>>
       \/ \E n \in 0..Len(diagnostics), good \in BOOLEAN :
             LET written == SubSeq(diagnostics, 1, n)
             IN  /\ \/ request.writeBaseline = "full"
                    \/ request.writeBaseline = "writable" /\ n = Len(diagnostics) /\ good
                 /\ baseline' = [present |-> TRUE, count |-> Recorded(written)]
                 /\ frozen' = written
                 /\ result' = [Counted(diagnostics) EXCEPT !.baseline_recorded = good,
                                                           !.baseline_write_failed = ~good]
    /\ UNCHANGED <<request, unit, toolResult, store, full, brokenTUs, incomplete,
                   diagnostics, visible, runs, examined>>

\* The baseline is consumed before duplicates are merged and before severity.
Remaining == IF request.useBaseline /\ baseline.present
               THEN Filtered(baseline.count, diagnostics)
               ELSE diagnostics

\* Mutant: the report-only findings are counted with their duplicates.
ReportOnlyBeforeUnique(shown) ==
    Cardinality({i \in DOMAIN Remaining : Remaining[i] \in request.reportOnly \ request.low})

ReportOnlyAmong(shown) == Cardinality(shown \cap request.reportOnly)

\* Severity, duplicates, the counts of the verdict and the report.
Report ==
    LET shown == Elements(Remaining) \ request.low
    IN  /\ phase = "filter"
        /\ request.writeBaseline = "none"
        /\ phase' = "done"
        /\ visible' = shown
        /\ result' = [result EXCEPT
              !.findings = Cardinality(shown),
              !.report_only = ReportOnlyAmong(shown),
              !.baseline_load_failed = request.useBaseline /\ ~baseline.present,
              !.report_write_failed = ~request.reportWritable]
        /\ UNCHANGED <<request, unit, toolResult, store, full, brokenTUs, incomplete,
                       diagnostics, baseline, runs, examined, frozen>>

\* A new process, with another request; the program may have been edited.
NextRun ==
    /\ phase = "done"
    /\ runs < MaxRuns
    /\ runs' = runs + 1
    /\ request' \in Request
    /\ phase' = "start"
    /\ unit' = <<1, 1>>
    /\ toolResult' = FALSE
    /\ store' = {} /\ full' = {} /\ brokenTUs' = {} /\ incomplete' = {}
    /\ diagnostics' = <<>>
    /\ result' = NoResult
    /\ visible' = {} /\ examined' = {}
    /\ UNCHANGED <<baseline, frozen>>

Next == \/ Refuse \/ LoadSummaries \/ HarvestUnit \/ BeginAnalysis \/ AnalyzeUnit
        \/ SkipUnit \/ LoseUnit \/ Account \/ RecordBaseline \/ Report \/ NextRun

Spec == Init /\ [][Next]_vars

-----------------------------------------------------------------------------
(***************************************************************************)
(* Properties                                                              *)
(***************************************************************************)

Sources == Elements(request.files)
Finished == phase = "done"
Reported == Finished /\ request.writeBaseline = "none"

\* The state is well typed, and the walk over the compile commands stays on a
\* command of a file or just behind the last one.
TypeOK ==
    /\ request \in RequestType
    /\ phase \in {"start", "pass1", "accept", "pass2", "filter", "done"}
    /\ unit[1] \in 1..(Len(request.files) + 1)
    /\ UnitsLeft /\ unit[2] # 1 => unit[2] \in DOMAIN request.commands[Current]
    /\ ~UnitsLeft => unit[2] = 1
    /\ toolResult \in BOOLEAN
    /\ full \subseteq store /\ store \subseteq File /\ examined \subseteq File
    /\ brokenTUs \subseteq File /\ incomplete \subseteq File
    /\ diagnostics \in Seq(Finding) /\ frozen \in Seq(Finding)
    /\ visible \subseteq Finding
    /\ result.findings >= result.report_only
    /\ baseline \in BaselineType
    /\ runs \in Nat

\* The evidence there is on a file: it was analysed and every function in it
\* was finished, or it did not compile and the user accepted partial coverage.
HasEvidence(f) ==
    \/ f \in examined /\ f \notin request.gaps
    \/ f \in brokenTUs /\ request.acceptPartial

\* A verdict (exit 0 or 1) covers every source file the user asked for, however
\* its compilation went, provided no file has several compile commands.
VerdictCovered ==
    (\A f \in Sources : Len(request.commands[f]) <= 1) =>
        (Finished /\ exitCode(result) # 2 => \A f \in Sources : HasEvidence(f))

\* "zero findings is only a clean verdict when the requested evidence was
\* produced" (core/AnalysisResult.h:11), whatever the compilation database says.
CleanVerdictHasEvidence ==
    Finished /\ exitCode(result) = 0 => \A f \in Sources : HasEvidence(f)

\* The findings a clean verdict may pass over.
Excused(d) ==
    \/ d \in request.hidden \cup request.low \cup request.reportOnly
    \/ request.useBaseline /\ baseline.count[KeyV1(d)] + baseline.count[KeyV2(d)] > 0

\* Exit 0 without a recording: no analysed file has a blocking finding that the
\* user did not suppress, rank below the threshold or put in the baseline.  The
\* experimental findings beside it, and its own duplicates, cannot mask it.
NothingOverlooked ==
    Reported /\ exitCode(result) = 0 =>
        \A f \in examined : \A i \in DOMAIN request.emits[f] :
            LET e == request.emits[f][i]
            IN  e.needs \subseteq {f} => Excused(e.finding)

\* A program that has no more findings of a key than when the baseline was
\* recorded, in however many units each of them turns up, reports none of them.
FrozenStaysHidden ==
    Reported /\ request.useBaseline =>
        \A d \in visible : Occurrences(KeyV2(d), diagnostics) > Occurrences(KeyV2(d), frozen)

Concealed(k) == {d \in Elements(diagnostics) \ request.low : KeyV2(d) = k} \ visible

\* The baseline hides no more distinct findings of a key than it has entries
\* for them, those that have an entry in the old form aside: others of the same
\* text surface.
BudgetRespected ==
    Reported => \A k \in Key :
        IF request.useBaseline
          THEN Cardinality({d \in Concealed(k) : baseline.count[KeyV1(d)] = 0}) <= baseline.count[k]
        ELSE Concealed(k) = {}

\* "baselining one of two identical `delete p;` lines in two different functions
\* does not hide the other" (analyzer/Baseline.h:24): of the findings of a key,
\* at most as many are hidden as there were when the baseline was recorded.
NewFindingSurfaces ==
    Reported /\ request.useBaseline /\ Complete(result) => \A k \in Key :
        Cardinality(Concealed(k)) <= Cardinality({d \in Elements(frozen) : KeyV2(d) = k})

AllCompile == \A f \in Sources : request.commands[f] # <<>> /\ Elements(request.commands[f]) = {"ok"}

\* Everything that the rules see in a file if the summaries of the files in S are full.
SeenWith(S) ==
    \A f \in Sources : \A i \in DOMAIN request.emits[f] :
        LET e == request.emits[f][i]
        IN  e.needs \subseteq S \cup {f} /\ e.finding \notin request.hidden
              => e.finding \in Elements(diagnostics)

\* S has with each file those that its summaries rest on, and each of them was listed
\* before it.
Bottomup(S) ==
    \A i \in DOMAIN request.files : request.files[i] \in S =>
        request.rests[request.files[i]] \ {request.files[i]}
          \subseteq S \cap {request.files[j] : j \in 1..(i - 1)}

\* --whole-program, with no summaries loaded and every unit compiling: the rules see in
\* each file what the summaries of others let them see, wherever these come in the list, as
\* long as each of these comes after the files from which its own summaries are inferred.
WholeProgramSeesAll ==
    Finished /\ request.wholeProgram /\ request.rulesEnabled /\ ~Loads /\ AllCompile =>
        \A S \in SUBSET Sources : Bottomup(S) => SeenWith(S)

\* "pass 1 collects summaries of externally-linked functions from all TUs; rules in pass 2
\* see the real summary instead of Opaque at cross-file calls"
\* (analyzer/StaticAnalyzer.cpp:242), in whatever order the files are listed.
AnyOrderSeesAll ==
    Finished /\ request.wholeProgram /\ request.rulesEnabled /\ ~Loads /\ AllCompile => SeenWith(Sources)
=============================================================================
