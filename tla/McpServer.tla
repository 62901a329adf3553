----------------------------- MODULE McpServer -----------------------------
(***************************************************************************)
(* The MCP server: src/src/server/McpServer.cpp with the warm tree cache   *)
(* of src/src/source_manager/SourceManager.cpp and what the analyzer of    *)
(* src/src/analyzer/StaticAnalyzer.cpp sets, uses and clears in the        *)
(* process.  A client sends lines, which the server handles one by one;    *)
(* meanwhile an editor changes the files.                                  *)
(*                                                                         *)
(* A tree stands for what a file was parsed from: its text and that of the *)
(* header it includes.  A response names what it was computed from instead *)
(* of the findings.                                                        *)
(***************************************************************************)
EXTENDS Integers, Sequences, SequencesExt, FiniteSets, Functions

CONSTANTS
    File,           \* the source files
    Text,           \* what a file may contain
    Size,           \* the size of a text
    Broken,         \* the texts that do not compile
    Hard,           \* the texts with a function that the dataflow gives up
    Sources,        \* for every path, the files it stands for
    Option,         \* the options of a request
    Loadable,       \* the summary files that can be loaded
    Nothing,        \* no value
    kMaxCachedAsts, \* the size at which the cache is flushed
    MaxEdits,       \* the bound of the edits
    Session         \* the lines a client may send, as sequences

ASSUME McpAssumption ==
    /\ Size \in [Text -> Nat] /\ Broken \subseteq Text /\ Hard \subseteq Text \ Broken
    /\ Nothing \notin Text \cup [text : Text, time : Nat]
    /\ kMaxCachedAsts \in Nat \ {0} /\ MaxEdits \in Nat

\* A path is a file or a directory, which is walked once.
ASSUME SourcesAssumption == IsFiniteSet(File) /\ \A path \in DOMAIN Sources : Sources[path] \subseteq File

VARIABLES
    session,    \* the lines of this client
    sent,       \* how many it has sent
    closed,     \* whether it has closed the input
    handled,    \* how many the server has handled
    phase,      \* what the server does: "reading", "configuring", ...
    options,    \* the process-wide options
    store,      \* the summary files in the store
    gaps,       \* the coverage report
    brokenTUs,  \* the units that do not compile
    sidecar,    \* the contracts as cached in this run, or Nothing
    units,      \* the files still to be analysed
    unit,       \* the fingerprint and the tree of the first of them, as far as known
    cache,      \* the warm trees
    result,     \* what the run has come to
    output,     \* the responses
    disk,       \* the text and the time of every file, or Nothing
    header,     \* the version of the header that the files include
    contracts,  \* the version of the contracts beside the header
    clock,      \* the time
    edits,      \* how many edits there have been
    stamps,     \* history: what fingerprintOf could have read of each file
    during,     \* history: the texts of each file since the request was read, and what else there was then
    outside     \* history: what the fingerprint cannot tell, if it happened

client == <<session, sent, closed>>
server == <<handled, phase, options, store, gaps, brokenTUs, sidecar, units, unit, cache, result, output>>
files == <<disk, header, contracts, clock, edits>>
history == <<stamps, during, outside>>
vars == <<client, server, files, history>>

Defaults == [o \in Option |-> Nothing]

Idle == [file |-> Nothing, fingerprint |-> Nothing, tree |-> Nothing]

EmptyResult ==
    [attempted |-> 0, analyzed |-> 0, broken |-> 0, failed |-> FALSE, loadFailed |-> FALSE, incomplete |-> {}, used |-> {}]

-----------------------------------------------------------------------------
(* Messages *)

Request == session[handled + 1]

isNotification(l) == l.id = Nothing

\* A line that is blank or a notification gets no response.
getsNoResponse(l) == l.form = "blank" \/ (l.form = "object" /\ isNotification(l))

\* Error codes; 0 is a result.
runAnalyzeError(args) ==
    CASE args.fault \in {"missing", "unknown field", "not a string", "no path", "empty path"} -> -32602
      [] args.fault \in {"lines", "allocator_pairs"} -> -32602
      [] OTHER -> 0

handleToolsCall(l) ==
    CASE l.tool = Nothing -> -32602
      [] l.tool = "other" -> -32602
      [] OTHER -> runAnalyzeError(l.args)

handleMcpMessage(l) ==
    CASE l.form = "garbage" -> -32700
      [] l.form = "not an object" -> -32600
      [] l.form = "object" /\ l.method = Nothing -> -32600
      [] l.form = "object" /\ l.method = "other" -> -32601
      [] l.form = "object" /\ l.method = "tools/call" -> handleToolsCall(l)
      [] OTHER -> 0

Analyzes(l) ==
    /\ ~getsNoResponse(l)
    /\ l.form = "object" /\ l.method = "tools/call" /\ l.tool = "analyze" /\ handleMcpMessage(l) = 0

ASSUME SessionAssumption ==
    \A s \in Session : /\ s \in Seq(Range(s))
                       /\ \A k \in DOMAIN s : Analyzes(s[k]) => s[k].args.path \in DOMAIN Sources

\* A response answers the line at its number; the id of what could not be read is null.
Response(l, code, used) ==
    [to |-> handled + 1, id |-> IF l.form = "object" THEN l.id ELSE Nothing, code |-> code, result |-> used]

-----------------------------------------------------------------------------
(* The client and the editor *)

Send ==
    /\ sent < Len(session) /\ ~closed
    /\ sent' = sent + 1
    /\ UNCHANGED <<session, closed, server, files, history>>

Close ==
    /\ ~closed
    /\ closed' = TRUE
    /\ UNCHANGED <<session, sent, server, files, history>>

TextOf(d, f) == IF d[f] = Nothing THEN Nothing ELSE d[f].text

Now == [texts |-> [f \in File |-> {TextOf(disk, f)}], contracts |-> contracts, header |-> header]

Edits ==
    /\ edits < MaxEdits /\ edits' = edits + 1
    /\ UNCHANGED <<client, server>>

\* What fingerprintOf reads.  Two writes may fall into one tick of the clock.
Stamp(d, f) == IF d[f] = Nothing THEN Nothing ELSE <<Size[d[f].text], d[f].time>>

Edit(f, text, time) ==
    /\ Edits
    /\ TextOf(disk, f) # text
    /\ time \in {clock, clock + 1}
    /\ disk' = [disk EXCEPT ![f] = IF text = Nothing THEN Nothing ELSE [text |-> text, time |-> time]]
    /\ clock' = time
    /\ during' = [during EXCEPT !.texts[f] = @ \cup {text}]
    /\ stamps' = [stamps EXCEPT ![f] = @ \cup {Stamp(disk', f)}]
    /\ outside' = outside \cup {x \in {"same stamp"} : text # Nothing /\ Stamp(disk', f) \in stamps[f]}
    /\ UNCHANGED <<header, contracts>>

EditHeader ==
    /\ Edits
    /\ header' = header + 1
    /\ UNCHANGED <<disk, contracts, clock, history>>

EditContracts ==
    /\ Edits
    /\ contracts' = contracts + 1
    /\ UNCHANGED <<disk, header, clock, history>>

-----------------------------------------------------------------------------
(* The server *)

\* getline, and everything but an analysis, at once.
ReadLine ==
    /\ phase = "reading" /\ handled < sent
    /\ IF Analyzes(Request)
         THEN phase' = "configuring" /\ UNCHANGED <<handled, output>>
       ELSE /\ handled' = handled + 1
            /\ output' = IF getsNoResponse(Request) THEN output
                         ELSE Append(output, Response(Request, handleMcpMessage(Request), EmptyResult))
            /\ UNCHANGED phase
    /\ during' = Now
    /\ UNCHANGED <<options, store, gaps, brokenTUs, sidecar, units, unit, cache, result, client, files, stamps, outside>>

Exit ==
    /\ phase = "reading" /\ closed /\ handled = sent
    /\ phase' = "ended"
    /\ UNCHANGED <<handled, options, store, gaps, brokenTUs, sidecar, units, unit, cache, result, output, client, files, history>>

\* The analyzer is constructed: options are set, what a run must not inherit is cleared,
\* and the files are looked up, a directory's in the order it is walked in.
Configure ==
    /\ phase = "configuring"
    /\ options' = Request.args.options
    /\ sidecar' = Nothing
    /\ gaps' = {}
    /\ units' \in SetToSeqs({f \in Sources[Request.args.path] : disk[f] # Nothing})
    /\ phase' = "starting"
    /\ UNCHANGED <<handled, store, brokenTUs, unit, cache, result, output, client, files, history>>

\* run: without files it is over.
Start ==
    /\ phase = "starting"
    /\ result' = [EmptyResult EXCEPT !.attempted = Len(units),
                                     !.loadFailed = /\ units # <<>>
                                                    /\ Request.args.summaries \notin Loadable \cup {Nothing}]
    /\ store' = IF units = <<>> THEN store ELSE store \cup ({Request.args.summaries} \cap Loadable)
    /\ brokenTUs' = IF units = <<>> THEN brokenTUs ELSE {}
    /\ phase' = IF units = <<>> THEN "replying" ELSE "next"
    /\ UNCHANGED <<handled, options, gaps, sidecar, units, unit, cache, output, client, files, history>>

Key(f) == <<f, Request.args.build>>

fingerprintOf(f) == Stamp(disk, f)

Warm(f) ==
    /\ fingerprintOf(f) # Nothing
    /\ Key(f) \in DOMAIN cache /\ cache[Key(f)].fingerprint = fingerprintOf(f)

\* A hit takes the cached tree.
LookUp ==
    /\ phase = "next" /\ units # <<>>
    /\ LET f == Head(units)
       IN  /\ unit' = [file |-> f, fingerprint |-> fingerprintOf(f),
                       tree |-> IF Warm(f) THEN cache[Key(f)].tree ELSE Nothing]
           /\ phase' = IF Warm(f) THEN "analysing" ELSE "parsing"
    /\ UNCHANGED <<handled, options, store, gaps, brokenTUs, sidecar, units, cache, result, output, client, files, history>>

ParseText ==
    /\ unit' = [unit EXCEPT !.tree = [text |-> disk[unit.file].text, header |-> header]]
    /\ phase' = "analysing fresh"
    /\ UNCHANGED <<units, result>>

\* Mutant: a file that has gone is looked up again.
ParseRetrying ==
    /\ phase = "parsing"
    /\ IF disk[unit.file] = Nothing
         THEN result' = [result EXCEPT !.failed = TRUE] /\ unit' = Idle /\ phase' = "next" /\ UNCHANGED units
       ELSE ParseText
    /\ UNCHANGED <<handled, options, store, gaps, brokenTUs, sidecar, cache, output, client, files, history>>

\* buildASTs; a file that has gone gives no tree.
Parse ==
    /\ phase = "parsing"
    /\ IF disk[unit.file] = Nothing
         THEN /\ result' = [result EXCEPT !.failed = TRUE]
              /\ units' = Tail(units) /\ unit' = Idle /\ phase' = "next"
       ELSE ParseText
    /\ UNCHANGED <<handled, options, store, gaps, brokenTUs, sidecar, cache, output, client, files, history>>

\* guardedCall and the rules.
Analyse ==
    /\ phase \in {"analysing", "analysing fresh"}
    /\ LET broken == unit.tree.text \in Broken
           read == IF sidecar = Nothing THEN contracts ELSE sidecar
       IN  IF broken
             THEN brokenTUs' = brokenTUs \cup {unit.file} /\ UNCHANGED <<gaps, sidecar, result>>
           ELSE /\ sidecar' = read
                /\ gaps' = gaps \cup {f \in {unit.file} : unit.tree.text \in Hard}
                /\ result' = [result EXCEPT !.analyzed = @ + 1,
                                            !.used = @ \cup {[file |-> unit.file, tree |-> unit.tree, contracts |-> read,
                                                              options |-> options, summaries |-> store]}]
                /\ UNCHANGED brokenTUs
    /\ IF phase = "analysing" THEN phase' = "next" /\ units' = Tail(units) /\ unit' = Idle
       ELSE phase' = "storing" /\ UNCHANGED <<units, unit>>
    /\ UNCHANGED <<handled, options, store, cache, output, client, files, history>>

\* The cache without the entry of k and with the tree of the unit at hand, under a fingerprint.
Stored(c, fingerprint) ==
    LET kept == IF Cardinality(DOMAIN c) >= kMaxCachedAsts THEN {} ELSE DOMAIN c
    IN  [k \in kept \cup {Key(unit.file)} |->
            IF k = Key(unit.file) THEN [fingerprint |-> fingerprint, tree |-> unit.tree] ELSE c[k]]

\* Mutant: the fingerprint is taken when the tree is stored.
StoreLate ==
    /\ phase = "storing"
    /\ cache' = Stored(cache, fingerprintOf(unit.file))
    /\ units' = Tail(units) /\ unit' = Idle /\ phase' = "next"
    /\ UNCHANGED <<handled, options, store, gaps, brokenTUs, sidecar, result, output, client, files, history>>

\* A full cache is flushed.
Store ==
    /\ phase = "storing"
    /\ cache' = Stored(cache, unit.fingerprint)
    /\ units' = Tail(units) /\ unit' = Idle /\ phase' = "next"
    /\ UNCHANGED <<handled, options, store, gaps, brokenTUs, sidecar, result, output, client, files, history>>

\* The end of run: a failure that no broken unit accounts for is the tool's.
Conclude ==
    /\ phase = "next" /\ units = <<>>
    /\ result' = [result EXCEPT !.broken = Cardinality(brokenTUs),
                                !.failed = @ /\ result.analyzed + Cardinality(brokenTUs) < result.attempted,
                                !.incomplete = gaps]
    /\ phase' = "replying"
    /\ UNCHANGED <<handled, options, store, gaps, brokenTUs, sidecar, units, unit, cache, output, client, files, history>>

\* Mutant: the summaries stay in the store.
ReplyKeeping ==
    /\ phase = "replying"
    /\ output' = Append(output, Response(Request, 0, result))
    /\ options' = Defaults /\ gaps' = {}
    /\ handled' = handled + 1 /\ phase' = "reading" /\ result' = EmptyResult
    /\ UNCHANGED <<store, brokenTUs, sidecar, units, unit, cache, client, files, history>>

\* The response is made and the analyzer destroyed.
Reply ==
    /\ phase = "replying"
    /\ output' = Append(output, Response(Request, 0, result))
    /\ options' = Defaults /\ store' = {} /\ gaps' = {}
    /\ handled' = handled + 1 /\ phase' = "reading" /\ result' = EmptyResult
    /\ UNCHANGED <<brokenTUs, sidecar, units, unit, cache, client, files, history>>

ServerStep ==
    \/ ReadLine \/ Exit \/ Configure \/ Start \/ LookUp \/ Parse \/ Analyse \/ Store \/ Conclude \/ Reply

-----------------------------------------------------------------------------
(* Behaviours *)

Init ==
    /\ session \in Session
    /\ sent = 0 /\ closed = FALSE /\ handled = 0 /\ phase = "reading"
    /\ options = Defaults /\ store = {} /\ gaps = {} /\ brokenTUs = {} /\ sidecar = Nothing
    /\ units = <<>> /\ unit = Idle /\ cache = <<>> /\ result = EmptyResult /\ output = <<>>
    /\ disk \in [File -> {[text |-> t, time |-> 0] : t \in Text}]
    /\ header = 0 /\ contracts = 0
    /\ clock = 0 /\ edits = 0 /\ during = Now /\ outside = {}
    /\ stamps = [f \in File |-> {Stamp(disk, f)}]

Next ==
    \/ Send
    \/ Close
    \/ \E f \in File, text \in Text \cup {Nothing}, time \in 0 .. MaxEdits : Edit(f, text, time)
    \/ EditHeader
    \/ EditContracts
    \/ ServerStep

\* The server's loop goes on; nobody need send, edit or close.
Spec == Init /\ [][Next]_vars /\ WF_vars(ServerStep)

-----------------------------------------------------------------------------
(* Properties *)

SessionLine == UNION {{s[k] : k \in DOMAIN s} : s \in Session}

S == INSTANCE Service WITH
        Line <- SessionLine, Silent <- {l \in SessionLine : getsNoResponse(l)},
        asked <- SubSeq(session, 1, sent), done <- handled, answers <- [k \in DOMAIN output |-> output[k].to]

\* The server deals with every line in the end, in order, and answers each that wants an
\* answer exactly once, whatever comes in and whatever is edited meanwhile.
RefinesService == S!Spec

\* An analysis is done under the options, with the summaries and on the files of its own
\* request, and the gaps in its coverage are its own: nothing is left over from a request
\* before it.
OwnRequestOnly ==
    \A k \in DOMAIN output :
        LET line == session[output[k].to]
            res == output[k].result
        IN  Analyzes(line) =>
                /\ \A u \in res.used :
                      /\ u.file \in Sources[line.args.path]
                      /\ u.options = line.args.options
                      /\ u.summaries = {line.args.summaries} \cap Loadable
                /\ res.incomplete = {u.file : u \in {w \in res.used : w.tree.text \in Hard}}
                /\ res.analyzed = Cardinality(res.used)

\* Whatever the cache holds and whenever the files are written, an analysis sees a text that
\* the file had since its request was read, and contracts no older than that.
InputsWereCurrent ==
    outside = {} => \A u \in result.used : /\ u.tree.text \in during.texts[u.file]
                                         /\ u.contracts >= during.contracts

\* A tree that is taken from the cache is no older than the request that takes it: neither in
\* the text of the file nor in the header it includes.
StaleNeverServed ==
    phase = "analysing" /\ outside = {} => /\ unit.tree.text \in during.texts[unit.file]
                                          /\ unit.tree.header >= during.header
=============================================================================
