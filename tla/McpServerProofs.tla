-------------------------- MODULE McpServerProofs --------------------------
(***************************************************************************)
(* Proofs about module McpServer, for every session, every set of files    *)
(* and texts, every size of the cache and any number of edits.             *)
(*                                                                         *)
(* The argument: what an answer has to be about its own request is true of *)
(* the result at every point between the construction of the analyzer and  *)
(* the answer (OwnInv), because the process-wide state is empty when a     *)
(* request is read, and no file is looked up twice.  A tree in the cache   *)
(* is what the file now holds whenever its fingerprint is what the file's  *)
(* would be now (CacheInv): a fingerprint is taken before the text is      *)
(* read, so that it is never newer than the text.                          *)
(***************************************************************************)
EXTENDS McpServer, FiniteSetTheorems, SequenceTheorems, TLAPS

\* The phases with a request, with its files looked up, in the loop over them, and with a unit at hand.
HasUnit == phase \in {"parsing", "analysing", "analysing fresh", "storing"}
Looping == HasUnit \/ phase = "next"
Configured == Looping \/ phase \in {"starting", "replying"}
Serving == Configured \/ phase = "configuring"

ShapeInv ==
    /\ session \in Session /\ sent \in 0 .. Len(session) /\ handled \in 0 .. sent
    /\ Serving \/ phase \in {"reading", "ended"}
    /\ Serving => handled < sent /\ Analyzes(Request)
    /\ output \in Seq(Range(output))
    /\ \A k \in DOMAIN output : output[k].to \in 1 .. handled
    /\ units \in Seq(File)
    /\ IsInjective(units)
    /\ Configured => Range(units) \subseteq Sources[Request.args.path]
    /\ HasUnit => /\ units # <<>>
                  /\ unit = [file |-> units[1], fingerprint |-> unit.fingerprint, tree |-> unit.tree]
    /\ result = [attempted |-> result.attempted, analyzed |-> result.analyzed, broken |-> result.broken,
                 failed |-> result.failed, loadFailed |-> result.loadFailed, incomplete |-> result.incomplete,
                 used |-> result.used]

\* What OwnRequestOnly asks of a result, with the gaps and the number of files analysed.
Own(line, used, reported, analyzed) ==
    /\ \A u \in used : /\ u.file \in Sources[line.args.path]
                       /\ u.options = line.args.options
                       /\ u.summaries = {line.args.summaries} \cap Loadable
    /\ reported = {u.file : u \in {w \in used : w.tree.text \in Hard}}
    /\ analyzed = Cardinality(used)

OwnInv ==
    /\ \A k \in DOMAIN output :
          LET res == output[k].result
          IN  Analyzes(session[output[k].to]) => Own(session[output[k].to], res.used, res.incomplete, res.analyzed)
    /\ ~Looping /\ phase # "replying" => store = {} /\ (phase = "starting" \/ result = EmptyResult)
    /\ phase = "starting" => gaps = {}
    /\ Configured => options = Request.args.options
    /\ Looping => /\ store = {Request.args.summaries} \cap Loadable
                  /\ Own(Request, result.used, gaps, result.analyzed)
                  /\ IsFiniteSet(result.used)
                  /\ \A u \in result.used : u.file \in Range(units) => phase = "storing" /\ u.file = units[1]
    /\ phase = "replying" => Own(Request, result.used, result.incomplete, result.analyzed)

DiskInv ==
    /\ disk \in [File -> [text : Text, time : Nat] \cup {Nothing}]
    /\ clock \in Nat /\ contracts \in Nat /\ header \in Nat
    /\ during \in [texts : [File -> SUBSET (Text \cup {Nothing})], contracts : 0 .. contracts, header : Nat]
    /\ stamps \in [File -> SUBSET ((Nat \X Nat) \cup {Nothing})]
    /\ \A f \in File : TextOf(disk, f) \in during.texts[f] /\ Stamp(disk, f) \in stamps[f]

\* A fingerprint was taken of the file, and is the file's only as long as the tree is.
Faithful(f, fingerprint, tree) ==
    /\ fingerprint \in stamps[f]
    /\ outside = {} /\ fingerprint = Stamp(disk, f) /\ disk[f] # Nothing => tree.text = disk[f].text

FaithfulCache == \A k \in DOMAIN cache : k[1] \in File /\ Faithful(k[1], cache[k].fingerprint, cache[k].tree)

CacheInv ==
    /\ FaithfulCache
    /\ HasUnit => unit.fingerprint \in stamps[unit.file]
    /\ HasUnit /\ phase # "parsing" /\ outside = {} => unit.tree.text \in during.texts[unit.file]
    /\ phase \in {"analysing fresh", "storing"} => Faithful(unit.file, unit.fingerprint, unit.tree)

CurrentInv ==
    /\ sidecar \in Nat \cup {Nothing}
    /\ Configured => sidecar = Nothing \/ sidecar >= during.contracts
    /\ \A u \in result.used : /\ u.file \in File
                              /\ u.contracts \in Nat /\ u.contracts >= during.contracts
                              /\ outside = {} => u.tree.text \in during.texts[u.file]

IInv == ShapeInv /\ OwnInv /\ DiskInv /\ CacheInv /\ CurrentInv

-----------------------------------------------------------------------------
(* Sequences *)

\* One element more at the end, whatever the elements are.
Extended(s, e, t) ==
    /\ Len(s) \in Nat /\ DOMAIN s = 1 .. Len(s) /\ DOMAIN t = 1 .. Len(s) + 1
    /\ \A k \in 1 .. Len(s) : t[k] = s[k]
    /\ t[Len(s) + 1] = e

LEMMA AppendAny ==
    ASSUME NEW s, s \in Seq(Range(s)), NEW e, NEW t, t = Append(s, e)
    PROVE  t \in Seq(Range(t)) /\ Extended(s, e, t)
<1> DEFINE T == Range(s) \cup {e}
<1>1. s \in Seq(T) /\ e \in T
  BY DEF Range
<1>2. t \in Seq(T) /\ Len(t) = Len(s) + 1 /\ Len(s) \in Nat /\ t[Len(s) + 1] = e
  BY <1>1
<1>3. \A k \in 1 .. Len(s) : t[k] = s[k]
  BY <1>1
<1> HIDE DEF T
<1>4. DOMAIN s = 1 .. Len(s) /\ t \in [1 .. Len(t) -> T] /\ Len(t) \in Nat
  BY <1>1, <1>2, LenProperties
<1>5. \A k \in 1 .. Len(t) : t[k] \in Range(t)
  BY <1>4 DEF Range
<1>6. t \in [1 .. Len(t) -> Range(t)]
  BY <1>4, <1>5
<1>7. t \in Seq(Range(t))
  <2> DEFINE R == Range(t)
             n == Len(t)
  <2>1. n \in Nat /\ t \in [1 .. n -> R]
    BY <1>4, <1>6
  <2> HIDE DEF R, n
  <2>2. t \in UNION {[1 .. k -> R] : k \in Nat}
    BY <2>1
  <2>3. t \in Seq(R)
    BY <2>2, SeqDef, Zenon
  <2> QED BY <2>3 DEF R
<1>8. DOMAIN t = 1 .. Len(s) + 1
  BY <1>2, <1>4
<1> QED BY <1>2, <1>3, <1>4, <1>7, <1>8 DEF Extended

\* What is left of a sequence of files without repetition when the first is gone.
LEMMA TailOf ==
    ASSUME NEW s \in Seq(File), s # <<>>, NEW t, t = Tail(s), IsInjective(s)
    PROVE  /\ Head(s) = s[1] /\ s[1] \in Range(s) /\ s[1] \in File
           /\ t \in Seq(File) /\ Range(t) \subseteq Range(s) \ {s[1]} /\ IsInjective(t)
<1>1. /\ Head(s) = s[1] /\ 1 \in DOMAIN s /\ s[1] \in File
      /\ t \in Seq(File)
  BY HeadTailProperties, LenProperties
<1>2. \A i \in DOMAIN t : i \in Nat /\ i + 1 \in DOMAIN s /\ i + 1 # 1 /\ t[i] = s[i + 1]
  BY HeadTailProperties, LenProperties
<1>3. \A i, j \in DOMAIN t : i # j => i + 1 # j + 1
  BY <1>2
<1>4. IsInjective(t)
  BY <1>2, <1>3 DEF IsInjective
<1>5. Range(t) \subseteq Range(s) \ {s[1]}
  BY <1>1, <1>2 DEF Range, IsInjective
<1> QED BY <1>1, <1>4, <1>5 DEF Range

\* A way to go through the files of a path finds each of them once.
LEMMA WalkOf ==
    ASSUME NEW F \in SUBSET File, NEW s \in SetToSeqs(F)
    PROVE  /\ s \in Seq(File) /\ Range(s) \subseteq F
           /\ IsInjective(s)
<1>1. Cardinality(F) \in Nat
  BY SourcesAssumption, FS_Subset, FS_CardinalityType
<1>2. s \in [1 .. Cardinality(F) -> F] /\ \A i, j \in 1 .. Cardinality(F) : i # j => s[i] # s[j]
  BY DEF SetToSeqs
<1>3. s \in Seq(F)
  BY <1>1, <1>2
<1> QED BY <1>2, <1>3 DEF Range, IsInjective

-----------------------------------------------------------------------------
(* The shape of a state *)

\* The line at hand is one of a session; what it says of its path, if it is an analysis.
LEMMA RequestType ==
    ASSUME ShapeInv, handled < sent
    PROVE  /\ handled \in Nat /\ sent \in Nat /\ Len(session) \in Nat
           /\ session \in Seq(Range(session)) /\ handled + 1 \in DOMAIN session
           /\ Analyzes(Request) => Sources[Request.args.path] \subseteq File
<1>1. session \in Seq(Range(session)) /\ Len(session) \in Nat /\ DOMAIN session = 1 .. Len(session)
  BY SessionAssumption, LenProperties DEF ShapeInv
<1>2. handled \in Nat /\ sent \in Nat /\ handled + 1 \in DOMAIN session
  BY <1>1 DEF ShapeInv
<1>3. Analyzes(Request) => Request.args.path \in DOMAIN Sources
  BY <1>2, SessionAssumption DEF Request, ShapeInv
<1> QED BY <1>1, <1>2, <1>3, SourcesAssumption

USE DEF Configured, Looping, HasUnit, Serving

LEMMA ShapeInit == Init => ShapeInv
<1> SUFFICES ASSUME Init PROVE ShapeInv
  OBVIOUS
<1>1. Len(session) \in Nat
  BY SessionAssumption, LenProperties DEF Init
<1>2. /\ output \in Seq(Range(output)) /\ DOMAIN output = {}
      /\ units \in Seq(File) /\ IsInjective(units)
  BY DEF Init, IsInjective
<1> QED BY <1>1, <1>2 DEF Init, ShapeInv, EmptyResult

\* An answer is one to the line at hand.
LEMMA AnswerShape ==
    ASSUME ShapeInv, NEW r, NEW t, t = Append(output, r), r.to = handled + 1, handled \in Nat
    PROVE  t \in Seq(Range(t)) /\ \A k \in DOMAIN t : t[k].to \in 1 .. handled + 1
<1>1. output \in Seq(Range(output)) /\ \A k \in DOMAIN output : output[k].to \in 1 .. handled
  BY DEF ShapeInv
<1>2. t \in Seq(Range(t)) /\ Extended(output, r, t)
  BY <1>1, AppendAny, Zenon
<1>3. ASSUME NEW k \in DOMAIN t PROVE t[k].to \in 1 .. handled + 1
  <2>1. CASE k \in 1 .. Len(output)
    BY <1>1, <1>2, <2>1 DEF Extended
  <2>2. CASE k = Len(output) + 1
    BY <1>2, <2>2 DEF Extended
  <2> QED BY <1>2, <2>1, <2>2 DEF Extended
<1> QED BY <1>2, <1>3

\* A line that needs no analysis is answered or passed over.
LEMMA ShapeReadLine == ShapeInv /\ ReadLine => ShapeInv'
<1> SUFFICES ASSUME ShapeInv, ReadLine PROVE ShapeInv'
  OBVIOUS
<1>1. handled < sent /\ phase = "reading"
  BY DEF ReadLine
<1>2. handled \in Nat /\ sent \in Nat
  BY <1>1, RequestType
<1>3. CASE Analyzes(Request)
  BY <1>1, <1>3 DEF ReadLine, ShapeInv, Request, client, files
<1>4. CASE ~Analyzes(Request)
  <2>1. handled' = handled + 1 /\ handled' \in 0 .. sent'
    BY <1>1, <1>2, <1>4 DEF ReadLine, client, ShapeInv
  <2>2. /\ output' \in Seq(Range(output'))
        /\ \A k \in DOMAIN output' : output'[k].to \in 1 .. handled'
    <3>1. CASE getsNoResponse(Request)
      BY <1>2, <1>4, <2>1, <3>1 DEF ReadLine, ShapeInv
    <3>2. CASE ~getsNoResponse(Request)
      <4>1. PICK r : output' = Append(output, r) /\ r.to = handled + 1
        BY <1>4, <3>2 DEF ReadLine, Response
      <4> QED BY <1>2, <2>1, <4>1, AnswerShape
    <3> QED BY <3>1, <3>2
  <2> QED BY <1>1, <1>4, <2>1, <2>2 DEF ReadLine, ShapeInv, client, files
<1> QED BY <1>3, <1>4

LEMMA ShapeReply == ShapeInv /\ Reply => ShapeInv'
<1> SUFFICES ASSUME ShapeInv, Reply PROVE ShapeInv'
  OBVIOUS
<1>1. phase = "replying" /\ handled < sent
  BY DEF Reply, ShapeInv
<1>2. handled \in Nat /\ sent \in Nat
  BY <1>1, RequestType
<1>3. handled' = handled + 1 /\ handled' \in 0 .. sent'
  BY <1>1, <1>2 DEF Reply, client, ShapeInv
<1>4. output' \in Seq(Range(output')) /\ \A k \in DOMAIN output' : output'[k].to \in 1 .. handled'
  <2>1. PICK r : output' = Append(output, r) /\ r.to = handled + 1
    BY DEF Reply, Response
  <2> QED BY <1>2, <1>3, <2>1, AnswerShape
<1> QED BY <1>1, <1>3, <1>4 DEF Reply, ShapeInv, client, files, EmptyResult

LEMMA ShapeConfigure == ShapeInv /\ Configure => ShapeInv'
<1> SUFFICES ASSUME ShapeInv, Configure PROVE ShapeInv'
  OBVIOUS
<1>1. phase = "configuring" /\ handled < sent /\ Analyzes(Request)
  BY DEF Configure, ShapeInv
<1> DEFINE F == {f \in Sources[Request.args.path] : disk[f] # Nothing}
<1>2. F \in SUBSET File /\ units' \in SetToSeqs(F)
  BY <1>1, RequestType DEF Configure
<1> HIDE DEF F
<1>3. /\ units' \in Seq(File) /\ Range(units') \subseteq F
      /\ IsInjective(units')
  BY <1>2, WalkOf
<1>4. Range(units') \subseteq Sources[Request.args.path] /\ Request' = Request
  BY <1>3 DEF F, Configure, client, Request
<1> QED BY <1>1, <1>3, <1>4 DEF Configure, ShapeInv, client, files

LEMMA TailOfUnits ==
    ASSUME ShapeInv, HasUnit, NEW t, t = Tail(units)
    PROVE  /\ Head(units) = units[1] /\ units[1] \in Range(units) /\ units[1] \in File
           /\ t \in Seq(File) /\ Range(t) \subseteq Range(units) \ {units[1]} /\ IsInjective(t)
<1>1. units \in Seq(File) /\ units # <<>> /\ IsInjective(units)
  BY DEF ShapeInv
<1> QED BY <1>1, TailOf, Zenon

LEMMA UnitFile ==
    ASSUME ShapeInv, HasUnit PROVE unit.file = units[1] /\ unit.file \in File
<1>1. PICK fingerprint, tree : unit = [file |-> units[1], fingerprint |-> fingerprint, tree |-> tree]
  BY DEF ShapeInv
<1> QED BY <1>1, TailOfUnits

\* The steps that are done with the first unit.
LEMMA ShapeNextUnit ==
    ASSUME ShapeInv, HasUnit, units' = Tail(units), phase' = "next",
           UNCHANGED <<client, handled, output>>,
           result' = [attempted |-> result'.attempted, analyzed |-> result'.analyzed, broken |-> result'.broken,
                      failed |-> result'.failed, loadFailed |-> result'.loadFailed,
                      incomplete |-> result'.incomplete, used |-> result'.used]
    PROVE  ShapeInv'
<1>1. /\ units' \in Seq(File) /\ Range(units') \subseteq Range(units)
      /\ IsInjective(units')
  BY TailOfUnits
<1> QED BY <1>1 DEF ShapeInv, client, Request

LEMMA ShapeStep == ShapeInv /\ [Next]_vars => ShapeInv'
<1> SUFFICES ASSUME ShapeInv, [Next]_vars PROVE ShapeInv'
  OBVIOUS
<1>1. CASE Send
  <2>1. session' = session /\ sent' = sent + 1 /\ sent' \in 0 .. Len(session) /\ handled \in 0 .. sent'
    <3>1. Len(session) \in Nat /\ sent \in 0 .. Len(session) /\ handled \in 0 .. sent
      BY SessionAssumption, LenProperties DEF ShapeInv
    <3>2. session' = session /\ sent' = sent + 1 /\ sent < Len(session)
      BY <1>1 DEF Send
    <3> QED BY <3>1, <3>2
  <2>2. handled < sent => handled < sent'
    <3>1. Len(session) \in Nat /\ sent \in 0 .. Len(session) /\ handled \in 0 .. sent
      BY SessionAssumption, LenProperties DEF ShapeInv
    <3> QED BY <2>1, <3>1
  <2> QED BY <1>1, <2>1, <2>2 DEF Send, ShapeInv, server, Request
<1>2. CASE Close \/ EditHeader \/ EditContracts \/ \E f \in File, text \in Text \cup {Nothing}, time \in 0 .. MaxEdits : Edit(f, text, time)
  <2>1. UNCHANGED <<session, sent, server>>
    BY <1>2 DEF Close, EditHeader, EditContracts, Edit, Edits, client
  <2> QED BY <2>1 DEF ShapeInv, server, Request
<1>3. CASE ReadLine
  BY <1>3, ShapeReadLine
<1>4. CASE Exit
  BY <1>4 DEF Exit, ShapeInv, client, Request
<1>5. CASE Configure
  BY <1>5, ShapeConfigure
<1>6. CASE Start
  BY <1>6 DEF Start, ShapeInv, client, Request, EmptyResult
<1>7. CASE LookUp
  <2>1. Head(units) = units[1] /\ units # <<>> /\ phase = "next"
    BY <1>7, HeadTailProperties DEF LookUp, ShapeInv
  <2>2. /\ UNCHANGED <<session, sent, handled, units, output, result>>
        /\ unit' = [file |-> units[1], fingerprint |-> unit'.fingerprint, tree |-> unit'.tree]
        /\ phase' \in {"analysing", "parsing"}
    BY <1>7, <2>1 DEF LookUp, client
  <2> QED BY <2>1, <2>2 DEF ShapeInv, Request
<1>8. CASE Parse
  <2>1. HasUnit
    BY <1>8 DEF Parse
  <2>2. CASE disk[unit.file] = Nothing
    BY <1>8, <2>1, <2>2, ShapeNextUnit DEF Parse, ShapeInv
  <2>3. CASE disk[unit.file] # Nothing
    <3> DEFINE tree == [text |-> disk[unit.file].text, header |-> header]
    <3>1. /\ UNCHANGED <<session, sent, handled, units, output, result>> /\ phase' = "analysing fresh"
          /\ unit' = [unit EXCEPT !.tree = tree]
      BY <1>8, <2>3 DEF Parse, ParseText, client
    <3>2. PICK fingerprint, old : unit = [file |-> units[1], fingerprint |-> fingerprint, tree |-> old]
      BY <2>1 DEF ShapeInv
    <3> HIDE DEF tree
    <3>3. unit' = [file |-> units[1], fingerprint |-> fingerprint, tree |-> tree]
      BY <3>1, <3>2
    <3>4. unit' = [file |-> units[1], fingerprint |-> unit'.fingerprint, tree |-> unit'.tree]
      BY <3>3
    <3> QED BY <2>1, <3>1, <3>4 DEF ShapeInv, Request
  <2> QED BY <2>2, <2>3
<1>9. CASE Analyse
  <2>1. HasUnit
    BY <1>9 DEF Analyse
  <2>2. CASE phase = "analysing"
    BY <1>9, <2>1, <2>2, ShapeNextUnit DEF Analyse, ShapeInv
  <2>3. CASE phase # "analysing"
    BY <1>9, <2>1, <2>3 DEF Analyse, ShapeInv, client, Request
  <2> QED BY <2>2, <2>3
<1>10. CASE Store
  <2>1. HasUnit
    BY <1>10 DEF Store
  <2> QED BY <1>10, <2>1, ShapeNextUnit DEF Store, ShapeInv
<1>11. CASE Conclude
  BY <1>11 DEF Conclude, ShapeInv, client, Request
<1>12. CASE Reply
  BY <1>12, ShapeReply
<1>13. CASE UNCHANGED vars
  BY <1>13 DEF vars, client, server, ShapeInv, Request
<1> QED BY <1>1, <1>2, <1>3, <1>4, <1>5, <1>6, <1>7, <1>8, <1>9, <1>10, <1>11, <1>12, <1>13 DEF Next, ServerStep

-----------------------------------------------------------------------------
(* What a result has to be *)

\* Answers that have been given are as they were, and the request at hand as well.
LEMMA OwnUnchanged ==
    ASSUME ShapeInv, OwnInv, session' = session, handled' = handled, output' = output
    PROVE  /\ Request' = Request
           /\ \A k \in DOMAIN output' :
                 LET res == output'[k].result
                 IN  Analyzes(session'[output'[k].to])
                        => Own(session'[output'[k].to], res.used, res.incomplete, res.analyzed)
BY DEF OwnInv, Request

\* An answer is added.
LEMMA OwnAnswer ==
    ASSUME ShapeInv, OwnInv, session' = session, handled < sent,
           NEW r, NEW t, t = Append(output, r), r.to = handled + 1,
           Analyzes(Request) => Own(Request, r.result.used, r.result.incomplete, r.result.analyzed)
    PROVE  \A k \in DOMAIN t :
              LET res == t[k].result
              IN  Analyzes(session[t[k].to]) => Own(session[t[k].to], res.used, res.incomplete, res.analyzed)
<1>1. output \in Seq(Range(output))
  BY DEF ShapeInv
<1>2. Extended(output, r, t)
  BY <1>1, AppendAny, Zenon
<1> SUFFICES ASSUME NEW k \in DOMAIN t, Analyzes(session[t[k].to])
             PROVE  Own(session[t[k].to], t[k].result.used, t[k].result.incomplete, t[k].result.analyzed)
  OBVIOUS
<1>3. CASE k \in 1 .. Len(output)
  BY <1>2, <1>3 DEF Extended, OwnInv
<1>4. CASE k = Len(output) + 1
  BY <1>2, <1>4 DEF Extended, Request
<1> QED BY <1>2, <1>3, <1>4 DEF Extended

\* The result of a run that has not looked at a file.
LEMMA OwnNothing ==
    ASSUME NEW line PROVE Own(line, {}, {}, 0) /\ IsFiniteSet({})
BY FS_EmptySet DEF Own

\* A file is analysed that had not been.
LEMMA OwnAnalysed ==
    ASSUME NEW line, NEW used, NEW reported, NEW analyzed, Own(line, used, reported, analyzed), IsFiniteSet(used),
           NEW u, u \notin used, u.file \in Sources[line.args.path], u.options = line.args.options,
           u.summaries = {line.args.summaries} \cap Loadable
    PROVE  /\ Own(line, used \cup {u}, reported \cup {f \in {u.file} : u.tree.text \in Hard}, analyzed + 1)
           /\ IsFiniteSet(used \cup {u})
<1>1. IsFiniteSet(used \cup {u}) /\ Cardinality(used \cup {u}) = Cardinality(used) + 1
  BY FS_AddElement
<1>2. reported \cup {f \in {u.file} : u.tree.text \in Hard}
        = {w.file : w \in {v \in used \cup {u} : v.tree.text \in Hard}}
  BY DEF Own
<1> QED BY <1>1, <1>2 DEF Own

LEMMA OwnInit == Init => OwnInv
<1> SUFFICES ASSUME Init PROVE OwnInv
  OBVIOUS
<1>1. DOMAIN output = {}
  BY DEF Init
<1> QED BY <1>1 DEF Init, OwnInv

LEMMA OwnReadLine == ShapeInv /\ OwnInv /\ ReadLine => OwnInv'
<1> SUFFICES ASSUME ShapeInv, OwnInv, ReadLine PROVE OwnInv'
  OBVIOUS
<1>1. handled < sent /\ phase = "reading" /\ session' = session
  BY DEF ReadLine, client
<1>2. CASE Analyzes(Request)
  <2>1. handled' = handled /\ output' = output /\ phase' = "configuring"
    BY <1>2 DEF ReadLine
  <2> QED BY <1>1, <2>1, OwnUnchanged DEF ReadLine, OwnInv
<1>3. CASE ~Analyzes(Request)
  <2>1. \A k \in DOMAIN output' :
            LET res == output'[k].result
            IN  Analyzes(session'[output'[k].to])
                   => Own(session'[output'[k].to], res.used, res.incomplete, res.analyzed)
    <3>1. CASE getsNoResponse(Request)
      <4>1. output' = output
        BY <1>3, <3>1 DEF ReadLine
      <4> QED BY <1>1, <4>1 DEF OwnInv
    <3>2. CASE ~getsNoResponse(Request)
      <4>1. PICK r : output' = Append(output, r) /\ r.to = handled + 1
        BY <1>3, <3>2 DEF ReadLine, Response
      <4> QED BY <1>1, <1>3, <4>1, OwnAnswer
    <3> QED BY <3>1, <3>2
  <2>2. phase' = "reading"
    BY <1>1, <1>3 DEF ReadLine
  <2> QED BY <1>1, <2>1, <2>2 DEF ReadLine, OwnInv
<1> QED BY <1>2, <1>3

LEMMA OwnReply == ShapeInv /\ OwnInv /\ Reply => OwnInv'
<1> SUFFICES ASSUME ShapeInv, OwnInv, Reply PROVE OwnInv'
  OBVIOUS
<1>1. handled < sent /\ phase = "replying" /\ session' = session
  BY DEF Reply, client, ShapeInv
<1>2. PICK r : output' = Append(output, r) /\ r.to = handled + 1 /\ r.result = result
  BY DEF Reply, Response
<1>3. Own(Request, r.result.used, r.result.incomplete, r.result.analyzed)
  BY <1>1, <1>2 DEF OwnInv
<1>4. \A k \in DOMAIN output' :
          LET res == output'[k].result
          IN  Analyzes(session'[output'[k].to])
                 => Own(session'[output'[k].to], res.used, res.incomplete, res.analyzed)
  BY <1>1, <1>2, <1>3, OwnAnswer
<1> QED BY <1>4 DEF Reply, OwnInv

LEMMA OwnStart == ShapeInv /\ OwnInv /\ Start => OwnInv'
<1> SUFFICES ASSUME ShapeInv, OwnInv, Start PROVE OwnInv'
  OBVIOUS
<1>1. phase = "starting" /\ store = {} /\ gaps = {} /\ options = Request.args.options
  BY DEF Start, OwnInv
<1>2. UNCHANGED <<session, handled, output, options, gaps, units>>
  BY DEF Start, client
<1>3. result'.used = {} /\ result'.incomplete = {} /\ result'.analyzed = 0
  BY DEF Start, EmptyResult
<1>4. Own(Request, {}, {}, 0) /\ IsFiniteSet({})
  BY OwnNothing
<1>5. CASE units = <<>>
  <2>1. phase' = "replying"
    BY <1>5 DEF Start
  <2> QED BY <1>1, <1>2, <1>3, <1>4, <2>1, OwnUnchanged DEF OwnInv
<1>6. CASE units # <<>>
  <2>1. phase' = "next" /\ store' = {Request.args.summaries} \cap Loadable
    BY <1>1, <1>6 DEF Start
  <2> QED BY <1>1, <1>2, <1>3, <1>4, <2>1, OwnUnchanged DEF OwnInv
<1> QED BY <1>5, <1>6

\* What is true in the loop, for the phase, the files and the result of a state.
InLoop(line, at, us, r, gs) ==
    /\ Own(line, r.used, gs, r.analyzed) /\ IsFiniteSet(r.used)
    /\ \A u \in r.used : u.file \in Range(us) => at = "storing" /\ u.file = us[1]

\* A step inside the loop.
LEMMA OwnLoop ==
    ASSUME ShapeInv, OwnInv, Looping, Looping', UNCHANGED <<session, handled, output, options, store>>,
           InLoop(Request, phase', units', result', gaps')
    PROVE  OwnInv'
<1>1. Looping' /\ phase' # "replying" /\ phase' # "starting"
  OBVIOUS
<1> QED BY <1>1, OwnUnchanged DEF OwnInv, InLoop

LEMMA OwnInLoop ==
    ASSUME OwnInv, Looping
    PROVE  InLoop(Request, phase, units, result, gaps)
BY DEF OwnInv, InLoop

LEMMA OwnParse == ShapeInv /\ OwnInv /\ Parse => OwnInv'
<1> SUFFICES ASSUME ShapeInv, OwnInv, Parse PROVE OwnInv'
  OBVIOUS
<1>1. phase = "parsing" /\ UNCHANGED <<session, handled, output, options, store, gaps>>
  BY DEF Parse, client
<1>2. InLoop(Request, phase, units, result, gaps)
  BY <1>1, OwnInLoop
<1>3. result'.used = result.used /\ result'.analyzed = result.analyzed /\ phase' \in {"next", "analysing fresh"}
  <2>1. PICK a, b, c, d, e, f, g :
            result = [attempted |-> a, analyzed |-> b, broken |-> c, failed |-> d, loadFailed |-> e,
                      incomplete |-> f, used |-> g]
    BY DEF ShapeInv
  <2> QED BY <2>1 DEF Parse, ParseText
<1>4. Range(units') \subseteq Range(units)
  <2>1. CASE units' = units
    BY <2>1
  <2>2. CASE units' = Tail(units)
    <3>1. Range(units') \subseteq Range(units) \ {units[1]}
      BY <1>1, <2>2, TailOfUnits
    <3> QED BY <3>1
  <2> QED BY <2>1, <2>2 DEF Parse, ParseText
<1>5. InLoop(Request, phase', units', result', gaps')
  BY <1>1, <1>2, <1>3, <1>4 DEF InLoop
<1> QED BY <1>1, <1>3, <1>5, OwnLoop

LEMMA OwnAnalyse == ShapeInv /\ OwnInv /\ Analyse => OwnInv'
<1> SUFFICES ASSUME ShapeInv, OwnInv, Analyse PROVE OwnInv'
  OBVIOUS
<1>1. phase \in {"analysing", "analysing fresh"} /\ UNCHANGED <<session, handled, output, options, store>>
  BY DEF Analyse, client
<1>2. InLoop(Request, phase, units, result, gaps)
  BY <1>1, OwnInLoop
<1>3. /\ unit.file = units[1] /\ unit.file \in Range(units) /\ unit.file \in Sources[Request.args.path]
      /\ options = Request.args.options /\ store = {Request.args.summaries} \cap Loadable
  <2>1. units[1] \in Range(units)
    BY <1>1, TailOfUnits
  <2>2. unit.file = units[1]
    BY <1>1, UnitFile
  <2> QED BY <1>1, <2>1, <2>2 DEF ShapeInv, OwnInv
\* Either way the first file is not one of those that are left.
<1>4. \/ phase' = "next" /\ Range(units') \subseteq Range(units) \ {units[1]}
      \/ phase' = "storing" /\ units' = units
  <2>1. CASE phase = "analysing"
    <3>1. units' = Tail(units) /\ phase' = "next"
      BY <2>1 DEF Analyse
    <3> QED BY <1>1, <3>1, TailOfUnits
  <2>2. CASE phase # "analysing"
    BY <2>2 DEF Analyse
  <2> QED BY <2>1, <2>2
<1>5. CASE unit.tree.text \in Broken
  <2>1. result' = result /\ gaps' = gaps
    BY <1>5 DEF Analyse
  <2>2. InLoop(Request, phase', units', result', gaps')
    BY <1>1, <1>2, <1>4, <2>1 DEF InLoop
  <2> QED BY <1>1, <1>4, <2>2, OwnLoop
<1>6. CASE unit.tree.text \notin Broken
  <2>1. PICK u : /\ u.file = unit.file /\ u.tree = unit.tree /\ u.options = options /\ u.summaries = store
                 /\ result'.used = result.used \cup {u} /\ result'.analyzed = result.analyzed + 1
                 /\ gaps' = gaps \cup {f \in {unit.file} : unit.tree.text \in Hard}
    <3>1. PICK a, b, c, d, e, f, g :
              result = [attempted |-> a, analyzed |-> b, broken |-> c, failed |-> d, loadFailed |-> e,
                        incomplete |-> f, used |-> g]
      BY DEF ShapeInv
    <3> DEFINE v == [file |-> unit.file, tree |-> unit.tree,
                     contracts |-> IF sidecar = Nothing THEN contracts ELSE sidecar,
                     options |-> options, summaries |-> store]
    <3>2. result' = [result EXCEPT !.analyzed = @ + 1, !.used = @ \cup {v}]
      BY <1>6 DEF Analyse
    <3>3. v.file = unit.file /\ v.tree = unit.tree /\ v.options = options /\ v.summaries = store
      OBVIOUS
    <3> HIDE DEF v
    <3>4. result'.used = result.used \cup {v} /\ result'.analyzed = result.analyzed + 1
      BY <3>1, <3>2
    <3> QED BY <1>6, <3>3, <3>4 DEF Analyse
  <2>2. u \notin result.used
    BY <1>1, <1>2, <1>3, <2>1 DEF InLoop
  <2>3. /\ Own(Request, result'.used, gaps', result'.analyzed)
        /\ IsFiniteSet(result'.used)
    BY <1>2, <1>3, <2>1, <2>2, OwnAnalysed DEF InLoop
  <2>4. InLoop(Request, phase', units', result', gaps')
    BY <1>1, <1>2, <1>3, <1>4, <2>1, <2>3 DEF InLoop
  <2> QED BY <1>1, <1>4, <2>4, OwnLoop
<1> QED BY <1>5, <1>6

LEMMA OwnStep == ShapeInv /\ OwnInv /\ [Next]_vars => OwnInv'
<1> SUFFICES ASSUME ShapeInv, OwnInv, [Next]_vars PROVE OwnInv'
  OBVIOUS
<1>1. CASE UNCHANGED <<session, server>>
  BY <1>1 DEF OwnInv, server, Request
<1>2. CASE Send \/ Close \/ EditHeader \/ EditContracts
           \/ \E f \in File, text \in Text \cup {Nothing}, time \in 0 .. MaxEdits : Edit(f, text, time)
  <2>1. UNCHANGED <<session, server>>
    BY <1>2 DEF Send, Close, EditHeader, EditContracts, Edit, Edits, client
  <2> QED BY <1>1, <2>1
<1>3. CASE ReadLine
  BY <1>3, OwnReadLine
<1>4. CASE Exit
  BY <1>4, OwnUnchanged DEF Exit, OwnInv, client
<1>5. CASE Configure
  BY <1>5, OwnUnchanged DEF Configure, OwnInv, client
<1>6. CASE Start
  BY <1>6, OwnStart
<1>7. CASE LookUp
  <2>1. phase = "next" /\ UNCHANGED <<session, handled, output, options, store, gaps, units, result>>
    BY <1>7 DEF LookUp, client
  <2>2. phase' \in {"analysing", "parsing"}
    BY <1>7 DEF LookUp
  <2>3. InLoop(Request, phase', units', result', gaps')
    BY <2>1, OwnInLoop DEF InLoop
  <2> QED BY <2>1, <2>2, <2>3, OwnLoop
<1>8. CASE Parse
  BY <1>8, OwnParse
<1>9. CASE Analyse
  BY <1>9, OwnAnalyse
<1>10. CASE Store
  <2>1. /\ phase = "storing" /\ phase' = "next" /\ units' = Tail(units)
        /\ UNCHANGED <<session, handled, output, options, store, gaps, result>>
    BY <1>10 DEF Store, client
  <2>2. Range(units') \subseteq Range(units) \ {units[1]}
    BY <2>1, TailOfUnits
  <2>3. InLoop(Request, phase', units', result', gaps')
    BY <2>1, <2>2, OwnInLoop DEF InLoop
  <2> QED BY <2>1, <2>3, OwnLoop
<1>11. CASE Conclude
  <2>1. phase = "next" /\ phase' = "replying" /\ UNCHANGED <<session, handled, output, options>>
    BY <1>11 DEF Conclude, client
  <2>2. result'.used = result.used /\ result'.analyzed = result.analyzed /\ result'.incomplete = gaps
    <3>1. PICK a, b, c, d, e, f, g :
              result = [attempted |-> a, analyzed |-> b, broken |-> c, failed |-> d, loadFailed |-> e,
                        incomplete |-> f, used |-> g]
      BY DEF ShapeInv
    <3> QED BY <1>11, <3>1 DEF Conclude
  <2>3. Own(Request, result'.used, result'.incomplete, result'.analyzed)
    BY <2>1, <2>2 DEF OwnInv
  <2> QED BY <2>1, <2>3, OwnUnchanged DEF OwnInv
<1>12. CASE Reply
  BY <1>12, OwnReply
<1>13. CASE UNCHANGED vars
  BY <1>1, <1>13 DEF vars, client
<1> QED BY <1>2, <1>3, <1>4, <1>5, <1>6, <1>7, <1>8, <1>9, <1>10, <1>11, <1>12, <1>13 DEF Next, ServerStep

-----------------------------------------------------------------------------
(* The files *)

LEMMA DiskInit == Init => DiskInv
<1> SUFFICES ASSUME Init PROVE DiskInv
  OBVIOUS
<1>1. disk \in [File -> [text : Text, time : Nat]] /\ \A f \in File : disk[f] # Nothing
  BY McpAssumption DEF Init
<1>2. \A f \in File : /\ TextOf(disk, f) \in Text \cup {Nothing}
                      /\ Stamp(disk, f) \in (Nat \X Nat) \cup {Nothing}
  BY <1>1, McpAssumption DEF TextOf, Stamp
<1> QED BY <1>1, <1>2 DEF Init, DiskInv, Now

\* What an edit does to the file and to the history.
LEMMA EditEffect ==
    ASSUME DiskInv, NEW f \in File, NEW text \in Text \cup {Nothing}, NEW time \in 0 .. MaxEdits, Edit(f, text, time)
    PROVE  /\ time \in Nat /\ clock' \in Nat /\ UNCHANGED <<client, server, header, contracts>>
           /\ disk' \in [File -> [text : Text, time : Nat] \cup {Nothing}]
           /\ TextOf(disk', f) = text
           /\ \A g \in File \ {f} : disk'[g] = disk[g]
           /\ Stamp(disk', f) \in (Nat \X Nat) \cup {Nothing}
           /\ during'.contracts = during.contracts
           /\ during' \in [texts : [File -> SUBSET (Text \cup {Nothing})], contracts : 0 .. contracts, header : Nat]
           /\ during'.texts = [during.texts EXCEPT ![f] = @ \cup {text}]
           /\ stamps' = [stamps EXCEPT ![f] = @ \cup {Stamp(disk', f)}]
           /\ stamps' \in [File -> SUBSET ((Nat \X Nat) \cup {Nothing})]
           /\ outside' = {} => outside = {} /\ (text # Nothing => Stamp(disk', f) \notin stamps[f])
<1>1. time \in Nat /\ clock' \in Nat /\ UNCHANGED <<client, server, header, contracts>>
  <2>1. MaxEdits \in Nat
    BY McpAssumption
  <2>2. clock' = time /\ UNCHANGED <<client, server, header, contracts>>
    BY DEF Edit, Edits
  <2> QED BY <2>1, <2>2
<1>2. disk' = [disk EXCEPT ![f] = IF text = Nothing THEN Nothing ELSE [text |-> text, time |-> time]]
  BY DEF Edit
<1>3. /\ disk' \in [File -> [text : Text, time : Nat] \cup {Nothing}]
      /\ \A g \in File \ {f} : disk'[g] = disk[g]
      /\ disk'[f] = IF text = Nothing THEN Nothing ELSE [text |-> text, time |-> time]
  BY <1>1, <1>2 DEF DiskInv
<1>4. TextOf(disk', f) = text
  BY <1>1, <1>3, McpAssumption DEF TextOf
<1>5. Stamp(disk', f) \in (Nat \X Nat) \cup {Nothing}
  BY <1>1, <1>3, McpAssumption DEF Stamp
<1>6. during' = [during EXCEPT !.texts[f] = @ \cup {text}]
  BY DEF Edit
<1>7. /\ during'.contracts = during.contracts
      /\ during' \in [texts : [File -> SUBSET (Text \cup {Nothing})], contracts : 0 .. contracts, header : Nat]
      /\ during'.texts = [during.texts EXCEPT ![f] = @ \cup {text}]
  BY <1>6 DEF DiskInv
<1>8. stamps' = [stamps EXCEPT ![f] = @ \cup {Stamp(disk', f)}]
  BY DEF Edit
<1>9. stamps' \in [File -> SUBSET ((Nat \X Nat) \cup {Nothing})]
  BY <1>5, <1>8 DEF DiskInv
<1>10. outside' = {} => outside = {} /\ (text # Nothing => Stamp(disk', f) \notin stamps[f])
  BY DEF Edit
<1> QED BY <1>1, <1>3, <1>4, <1>5, <1>7, <1>8, <1>9, <1>10

LEMMA DiskStep == DiskInv /\ [Next]_vars => DiskInv'
<1> SUFFICES ASSUME DiskInv, [Next]_vars PROVE DiskInv'
  OBVIOUS
<1>1. CASE UNCHANGED <<files, history>>
  BY <1>1 DEF DiskInv, files, history, TextOf, Stamp
<1>2. CASE Send \/ Close \/ Exit \/ Configure \/ Start \/ LookUp \/ Parse \/ Analyse \/ Store \/ Conclude \/ Reply
  <2>1. UNCHANGED <<files, history>>
    BY <1>2 DEF Send, Close, Exit, Configure, Start, LookUp, Parse, Analyse, Store, Conclude, Reply
  <2> QED BY <1>1, <2>1
<1>3. CASE \E f \in File, text \in Text \cup {Nothing}, time \in 0 .. MaxEdits : Edit(f, text, time)
  <2>1. PICK f \in File, text \in Text \cup {Nothing}, time \in 0 .. MaxEdits : Edit(f, text, time)
    BY <1>3
  <2>2. /\ TextOf(disk', f) = text
        /\ \A g \in File \ {f} : disk'[g] = disk[g]
        /\ during'.texts = [during.texts EXCEPT ![f] = @ \cup {text}]
        /\ stamps' = [stamps EXCEPT ![f] = @ \cup {Stamp(disk', f)}]
    BY <2>1, EditEffect
  <2>3. during.texts \in [File -> SUBSET (Text \cup {Nothing})] /\ DOMAIN stamps = File
    BY DEF DiskInv
  <2>4. ASSUME NEW g \in File
        PROVE  TextOf(disk', g) \in during'.texts[g] /\ Stamp(disk', g) \in stamps'[g]
    <3>1. CASE g = f
      <4>1. during'.texts[f] = during.texts[f] \cup {text} /\ stamps'[f] = stamps[f] \cup {Stamp(disk', f)}
        BY <2>2, <2>3
      <4> QED BY <2>2, <3>1, <4>1
    <3>2. CASE g # f
      <4>1. disk'[g] = disk[g] /\ during'.texts[g] = during.texts[g] /\ stamps'[g] = stamps[g]
        BY <2>2, <2>3, <3>2
      <4> QED BY <4>1 DEF DiskInv, TextOf, Stamp
    <3> QED BY <3>1, <3>2
  <2>5. /\ UNCHANGED <<header, contracts>> /\ clock' \in Nat
        /\ disk' \in [File -> [text : Text, time : Nat] \cup {Nothing}]
        /\ during' \in [texts : [File -> SUBSET (Text \cup {Nothing})], contracts : 0 .. contracts, header : Nat]
        /\ stamps' \in [File -> SUBSET ((Nat \X Nat) \cup {Nothing})]
    BY <2>1, EditEffect
  <2> QED BY <2>4, <2>5 DEF DiskInv
<1>4. CASE EditHeader \/ EditContracts
  BY <1>4 DEF EditHeader, EditContracts, Edits, history, DiskInv, TextOf, Stamp
<1>5. CASE ReadLine
  <2>1. UNCHANGED <<disk, clock, contracts, header, stamps>> /\ during' = Now
    BY <1>5 DEF ReadLine, files
  <2>2. \A f \in File : TextOf(disk, f) \in Text \cup {Nothing}
    BY DEF DiskInv, TextOf
  <2> QED BY <2>1, <2>2 DEF DiskInv, Now, TextOf, Stamp
<1>6. CASE UNCHANGED vars
  BY <1>1, <1>6 DEF vars
<1> QED BY <1>2, <1>3, <1>4, <1>5, <1>6 DEF Next, ServerStep

-----------------------------------------------------------------------------
(* Fingerprints *)

\* What a step of anybody does to a file and to what is known of it.  As long as no write
\* repeats a stamp, a file with a stamp that it has had is as it was.
LEMMA Kept ==
    ASSUME DiskInv, [Next]_vars, NEW f \in File
    PROVE  /\ stamps[f] \subseteq stamps'[f]
           /\ outside' = {} => /\ outside = {}
                               /\ disk'[f] # Nothing /\ Stamp(disk', f) \in stamps[f] => disk'[f] = disk[f]
<1>1. CASE UNCHANGED <<disk, stamps, outside>>
  BY <1>1
<1>2. CASE \E g \in File, text \in Text \cup {Nothing}, time \in 0 .. MaxEdits : Edit(g, text, time)
  <2>1. PICK g \in File, text \in Text \cup {Nothing}, time \in 0 .. MaxEdits : Edit(g, text, time)
    BY <1>2
  <2>2. /\ disk' \in [File -> [text : Text, time : Nat] \cup {Nothing}]
        /\ TextOf(disk', g) = text
        /\ \A h \in File \ {g} : disk'[h] = disk[h]
        /\ stamps' = [stamps EXCEPT ![g] = @ \cup {Stamp(disk', g)}]
        /\ outside' = {} => outside = {} /\ (text # Nothing => Stamp(disk', g) \notin stamps[g])
    BY <2>1, EditEffect
  <2>3. DOMAIN stamps = File
    BY DEF DiskInv
  <2>4. disk'[g] # Nothing => text # Nothing
    <3>1. ASSUME disk'[g] # Nothing PROVE TextOf(disk', g) \in Text
      BY <2>2, <3>1 DEF TextOf
    <3> QED BY <2>2, <3>1, McpAssumption
  <2>5. stamps[f] \subseteq stamps'[f]
    BY <2>2, <2>3
  <2>6. CASE f = g
    BY <2>2, <2>4, <2>5, <2>6
  <2>7. CASE f # g
    BY <2>2, <2>5, <2>7
  <2> QED BY <2>6, <2>7
<1>3. CASE ReadLine
  BY <1>1, <1>3 DEF ReadLine, files
<1>4. CASE EditHeader \/ EditContracts
  BY <1>1, <1>4 DEF EditHeader, EditContracts, history
<1>5. CASE Send \/ Close \/ Exit \/ Configure \/ Start \/ LookUp \/ Parse \/ Analyse \/ Store \/ Conclude \/ Reply
  <2>1. UNCHANGED <<files, history>>
    BY <1>5 DEF Send, Close, Exit, Configure, Start, LookUp, Parse, Analyse, Store, Conclude, Reply
  <2> QED BY <1>1, <2>1 DEF files, history
<1>6. CASE UNCHANGED vars
  BY <1>1, <1>6 DEF vars, files, history
<1> QED BY <1>2, <1>3, <1>4, <1>5, <1>6 DEF Next, ServerStep

LEMMA FaithfulKept ==
    ASSUME DiskInv, [Next]_vars, NEW f \in File, NEW fingerprint, NEW tree, Faithful(f, fingerprint, tree)
    PROVE  /\ fingerprint \in stamps'[f]
           /\ outside' = {} /\ fingerprint = Stamp(disk', f) /\ disk'[f] # Nothing => tree.text = disk'[f].text
<1>1. fingerprint \in stamps'[f]
  BY Kept DEF Faithful
<1>2. ASSUME outside' = {}, fingerprint = Stamp(disk', f), disk'[f] # Nothing
      PROVE  tree.text = disk'[f].text
  <2>1. outside = {} /\ disk'[f] = disk[f]
    BY <1>2, Kept DEF Faithful
  <2>2. Stamp(disk', f) = Stamp(disk, f)
    BY <2>1 DEF Stamp
  <2> QED BY <1>2, <2>1, <2>2 DEF Faithful
<1> QED BY <1>1, <1>2

\* A step of the client or the editor, and what it leaves to the request at hand.
Others ==
    \/ Send \/ Close \/ EditHeader \/ EditContracts
    \/ \E f \in File, text \in Text \cup {Nothing}, time \in 0 .. MaxEdits : Edit(f, text, time)

LEMMA OthersKeep ==
    ASSUME DiskInv, Others \/ UNCHANGED vars
    PROVE  /\ UNCHANGED <<server, session>> /\ during'.contracts = during.contracts
           /\ \A f \in File : during.texts[f] \subseteq during'.texts[f]
<1>1. CASE \E f \in File, text \in Text \cup {Nothing}, time \in 0 .. MaxEdits : Edit(f, text, time)
  <2>1. PICK g \in File, text \in Text \cup {Nothing}, time \in 0 .. MaxEdits : Edit(g, text, time)
    BY <1>1
  <2>2. /\ UNCHANGED <<client, server>> /\ during'.contracts = during.contracts
        /\ during'.texts = [during.texts EXCEPT ![g] = @ \cup {text}]
    BY <2>1, EditEffect
  <2>3. DOMAIN during.texts = File
    BY DEF DiskInv
  <2>4. \A f \in File : during.texts[f] \subseteq during'.texts[f]
    BY <2>2, <2>3
  <2> QED BY <2>2, <2>4 DEF client
<1>2. CASE ~ \E f \in File, text \in Text \cup {Nothing}, time \in 0 .. MaxEdits : Edit(f, text, time)
  BY <1>2 DEF Others, Send, Close, EditHeader, EditContracts, Edits, vars, client, history
<1> QED BY <1>1, <1>2

\* The cache as it is stays good, whatever happens.
LEMMA CacheKept ==
    ASSUME DiskInv, FaithfulCache, [Next]_vars, cache' = cache
    PROVE  FaithfulCache'
<1> SUFFICES ASSUME NEW k \in DOMAIN cache
             PROVE  k[1] \in File /\ Faithful(k[1], cache[k].fingerprint, cache[k].tree)'
  BY DEF FaithfulCache
<1>1. k[1] \in File /\ Faithful(k[1], cache[k].fingerprint, cache[k].tree)
  BY DEF FaithfulCache
<1>2. /\ cache[k].fingerprint \in stamps'[k[1]]
      /\ outside' = {} /\ cache[k].fingerprint = Stamp(disk', k[1]) /\ disk'[k[1]] # Nothing
            => cache[k].tree.text = disk'[k[1]].text
  BY <1>1, FaithfulKept
<1> QED BY <1>1, <1>2 DEF Faithful

LEMMA CacheInit == Init => CacheInv
BY DEF Init, CacheInv, FaithfulCache

LEMMA CacheOthers == ShapeInv /\ DiskInv /\ CacheInv /\ (Others \/ UNCHANGED vars) /\ [Next]_vars => CacheInv'
<1> SUFFICES ASSUME ShapeInv, DiskInv, CacheInv, Others \/ UNCHANGED vars, [Next]_vars PROVE CacheInv'
  OBVIOUS
<1>1. UNCHANGED <<phase, unit, cache>>
  BY OthersKeep DEF server
<1>2. FaithfulCache'
  BY <1>1, CacheKept DEF CacheInv
<1>3. ASSUME HasUnit PROVE unit.fingerprint \in stamps'[unit.file]
  BY <1>3, UnitFile, Kept DEF CacheInv
<1>4. ASSUME HasUnit, phase # "parsing", outside' = {} PROVE unit.tree.text \in during'.texts[unit.file]
  <2>1. unit.file \in File
    BY <1>4, UnitFile
  <2>2. outside = {} /\ during.texts[unit.file] \subseteq during'.texts[unit.file]
    BY <1>4, <2>1, Kept, OthersKeep
  <2> QED BY <1>4, <2>2 DEF CacheInv
<1>5. ASSUME phase \in {"analysing fresh", "storing"} PROVE Faithful(unit.file, unit.fingerprint, unit.tree)'
  <2>1. unit.file \in File /\ Faithful(unit.file, unit.fingerprint, unit.tree)
    BY <1>5, UnitFile DEF CacheInv
  <2>2. /\ unit.fingerprint \in stamps'[unit.file]
        /\ outside' = {} /\ unit.fingerprint = Stamp(disk', unit.file) /\ disk'[unit.file] # Nothing
              => unit.tree.text = disk'[unit.file].text
    BY <2>1, FaithfulKept
  <2> QED BY <1>1, <2>2 DEF Faithful
<1> QED BY <1>1, <1>2, <1>3, <1>4, <1>5 DEF CacheInv

\* A fingerprint is that of the file as it is looked up; a hit is on a tree of that text.
LEMMA CacheLookUp == ShapeInv /\ DiskInv /\ CacheInv /\ LookUp => CacheInv'
<1> SUFFICES ASSUME ShapeInv, DiskInv, CacheInv, LookUp PROVE CacheInv'
  OBVIOUS
<1> DEFINE f == Head(units)
<1>1. f \in File
  BY HeadTailProperties DEF LookUp, ShapeInv
<1> HIDE DEF f
<1>2. UNCHANGED <<cache, disk, stamps, during, outside>>
  BY DEF LookUp, files, history
<1>3. FaithfulCache'
  BY <1>2 DEF CacheInv, FaithfulCache, Faithful, Stamp
<1>4. unit'.file = f /\ unit'.fingerprint = Stamp(disk, f) /\ unit'.fingerprint \in stamps[f]
  BY <1>1 DEF LookUp, f, fingerprintOf, DiskInv
<1>5. CASE Warm(f)
  <2>1. unit'.tree = cache[Key(f)].tree /\ phase' = "analysing"
    BY <1>5 DEF LookUp, f
  <2>2. /\ Stamp(disk, f) # Nothing /\ Key(f) \in DOMAIN cache
        /\ cache[Key(f)].fingerprint = Stamp(disk, f) /\ Key(f)[1] = f
    BY <1>5 DEF Warm, fingerprintOf, Key
  <2>3. Faithful(f, cache[Key(f)].fingerprint, cache[Key(f)].tree)
    BY <2>2 DEF CacheInv, FaithfulCache
  <2>4. disk[f] # Nothing
    BY <2>2 DEF Stamp
  <2>5. outside = {} => unit'.tree.text = TextOf(disk, f)
    BY <2>1, <2>2, <2>3, <2>4 DEF Faithful, TextOf
  <2>6. outside = {} => unit'.tree.text \in during.texts[f]
    BY <1>1, <2>5 DEF DiskInv
  <2> QED BY <1>2, <1>3, <1>4, <2>1, <2>6 DEF CacheInv
<1>6. CASE ~Warm(f)
  <2>1. phase' = "parsing"
    BY <1>6 DEF LookUp, f
  <2> QED BY <1>2, <1>3, <1>4, <2>1 DEF CacheInv
<1> QED BY <1>5, <1>6

LEMMA CacheParse == ShapeInv /\ DiskInv /\ CacheInv /\ Parse => CacheInv'
<1> SUFFICES ASSUME ShapeInv, DiskInv, CacheInv, Parse PROVE CacheInv'
  OBVIOUS
<1>1. phase = "parsing" /\ UNCHANGED <<cache, disk, stamps, during, outside>>
  BY DEF Parse, files, history
<1>2. FaithfulCache'
  BY <1>1 DEF CacheInv, FaithfulCache, Faithful, Stamp
<1>3. CASE disk[unit.file] = Nothing
  <2>1. phase' = "next"
    BY <1>3 DEF Parse
  <2> QED BY <1>2, <2>1 DEF CacheInv
<1>4. CASE disk[unit.file] # Nothing
  <2>1. PICK file, fingerprint, old : unit = [file |-> file, fingerprint |-> fingerprint, tree |-> old]
    BY <1>1 DEF ShapeInv
  <2>2. PICK tree : tree.text = disk[file].text /\ unit' = [unit EXCEPT !.tree = tree] /\ phase' = "analysing fresh"
    <3> DEFINE tree == [text |-> disk[unit.file].text, header |-> header]
    <3>1. tree.text = disk[file].text
      BY <2>1
    <3>2. unit' = [unit EXCEPT !.tree = tree] /\ phase' = "analysing fresh"
      BY <1>4 DEF Parse, ParseText
    <3> QED BY <3>1, <3>2
  <2>3. unit'.file = file /\ unit'.fingerprint = fingerprint /\ unit'.tree = tree
    BY <2>1, <2>2
  <2>4. file \in File /\ fingerprint \in stamps[file]
    BY <1>1, <2>1, UnitFile DEF CacheInv
  <2>5. tree.text \in during.texts[file]
    <3>1. tree.text = TextOf(disk, file)
      BY <1>4, <2>1, <2>2 DEF TextOf
    <3> QED BY <2>4, <3>1 DEF DiskInv
  <2>6. Faithful(file, fingerprint, tree)
    BY <2>2, <2>4 DEF Faithful
  <2>7. Faithful(unit.file, unit.fingerprint, unit.tree)'
    BY <1>1, <2>3, <2>6 DEF Faithful, Stamp
  <2> QED BY <1>1, <1>2, <2>2, <2>3, <2>4, <2>5, <2>7 DEF CacheInv
<1> QED BY <1>3, <1>4

LEMMA CacheStore == ShapeInv /\ DiskInv /\ CacheInv /\ Store => CacheInv'
<1> SUFFICES ASSUME ShapeInv, DiskInv, CacheInv, Store PROVE CacheInv'
  OBVIOUS
<1>1. /\ phase = "storing" /\ phase' = "next" /\ cache' = Stored(cache, unit.fingerprint)
      /\ UNCHANGED <<disk, stamps, outside>>
  BY DEF Store, files, history
<1>2. unit.file \in File /\ Faithful(unit.file, unit.fingerprint, unit.tree)
  BY <1>1, UnitFile DEF CacheInv
<1>3. ASSUME NEW k \in DOMAIN cache'
      PROVE  k[1] \in File /\ Faithful(k[1], cache'[k].fingerprint, cache'[k].tree)
  <2>1. CASE k = Key(unit.file)
    <3>1. cache'[k] = [fingerprint |-> unit.fingerprint, tree |-> unit.tree] /\ k[1] = unit.file
      BY <1>1, <1>3, <2>1 DEF Stored, Key
    <3> QED BY <1>2, <3>1
  <2>2. CASE k # Key(unit.file)
    <3>1. k \in DOMAIN cache /\ cache'[k] = cache[k]
      BY <1>1, <1>3, <2>2 DEF Stored
    <3> QED BY <3>1 DEF CacheInv, FaithfulCache
  <2> QED BY <2>1, <2>2
<1>4. FaithfulCache'
  BY <1>1, <1>3 DEF FaithfulCache, Faithful, Stamp
<1> QED BY <1>1, <1>4 DEF CacheInv

LEMMA CacheStep == ShapeInv /\ DiskInv /\ CacheInv /\ [Next]_vars => CacheInv'
<1> SUFFICES ASSUME ShapeInv, DiskInv, CacheInv, [Next]_vars PROVE CacheInv'
  OBVIOUS
<1>1. CASE Others \/ UNCHANGED vars
  BY <1>1, CacheOthers
<1>2. CASE LookUp
  BY <1>2, CacheLookUp
<1>3. CASE Parse
  BY <1>3, CacheParse
<1>4. CASE Store
  BY <1>4, CacheStore
<1>5. CASE Analyse
  <2>1. UNCHANGED <<cache, disk, stamps, during, outside>>
    BY <1>5 DEF Analyse, files, history
  <2>2. FaithfulCache'
    BY <2>1 DEF CacheInv, FaithfulCache, Faithful, Stamp
  <2>3. CASE phase = "analysing"
    BY <1>5, <2>2, <2>3 DEF Analyse, CacheInv
  <2>4. CASE phase = "analysing fresh"
    <3>1. phase' = "storing" /\ unit' = unit
      BY <1>5, <2>4 DEF Analyse
    <3> QED BY <2>1, <2>2, <2>4, <3>1 DEF CacheInv, Faithful, Stamp
  <2> QED BY <1>5, <2>3, <2>4 DEF Analyse
<1>6. CASE ReadLine \/ Exit \/ Configure \/ Start \/ Conclude \/ Reply
  <2>1. cache' = cache /\ ~HasUnit'
    BY <1>6 DEF ReadLine, Exit, Configure, Start, Conclude, Reply
  <2>2. FaithfulCache'
    BY <2>1, CacheKept DEF CacheInv
  <2> QED BY <2>1, <2>2 DEF CacheInv
<1> QED BY <1>1, <1>2, <1>3, <1>4, <1>5, <1>6 DEF Next, ServerStep, Others

-----------------------------------------------------------------------------
(* What an analysis sees *)

LEMMA CurrentInit == Init => CurrentInv
BY DEF Init, CurrentInv, EmptyResult

\* What was analysed is of its time, as long as the request is the same.
LEMMA CurrentKept ==
    ASSUME DiskInv, CurrentInv, [Next]_vars, result'.used \subseteq result.used,
           during'.contracts = during.contracts, \A f \in File : during.texts[f] \subseteq during'.texts[f]
    PROVE  \A u \in result'.used : /\ u.file \in File
                                   /\ u.contracts \in Nat /\ u.contracts >= during'.contracts
                                   /\ outside' = {} => u.tree.text \in during'.texts[u.file]
<1> TAKE u \in result'.used
<1>1. /\ u.file \in File /\ u.contracts \in Nat /\ u.contracts >= during.contracts
      /\ outside = {} => u.tree.text \in during.texts[u.file]
  BY DEF CurrentInv
<1> QED BY <1>1, Kept

LEMMA CurrentAnalyse == ShapeInv /\ DiskInv /\ CacheInv /\ CurrentInv /\ Analyse => CurrentInv'
<1> SUFFICES ASSUME ShapeInv, DiskInv, CacheInv, CurrentInv, Analyse PROVE CurrentInv'
  OBVIOUS
<1>1. phase \in {"analysing", "analysing fresh"} /\ UNCHANGED <<contracts, during, outside>>
  BY DEF Analyse, files, history
<1> DEFINE read == IF sidecar = Nothing THEN contracts ELSE sidecar
<1>2. read \in Nat /\ read >= during.contracts
  <2>1. contracts \in Nat /\ during.contracts \in 0 .. contracts
    BY DEF DiskInv
  <2>2. sidecar \in Nat \cup {Nothing} /\ (sidecar = Nothing \/ sidecar >= during.contracts)
    BY <1>1 DEF CurrentInv
  <2> QED BY <2>1, <2>2
<1>3. CASE unit.tree.text \in Broken
  <2>1. result' = result /\ sidecar' = sidecar
    BY <1>3 DEF Analyse
  <2> QED BY <1>1, <2>1 DEF CurrentInv
<1>4. CASE unit.tree.text \notin Broken
  <2>1. sidecar' = read
    BY <1>4 DEF Analyse
  <2>2. PICK u : /\ u.file = unit.file /\ u.tree = unit.tree /\ u.contracts = read
                 /\ result'.used = result.used \cup {u}
    <3>1. PICK a, b, c, d, e, f, g :
              result = [attempted |-> a, analyzed |-> b, broken |-> c, failed |-> d, loadFailed |-> e,
                        incomplete |-> f, used |-> g]
      BY DEF ShapeInv
    <3> DEFINE v == [file |-> unit.file, tree |-> unit.tree, contracts |-> read,
                     options |-> options, summaries |-> store]
    <3>2. result' = [result EXCEPT !.analyzed = @ + 1, !.used = @ \cup {v}]
      BY <1>4 DEF Analyse
    <3>3. v.file = unit.file /\ v.tree = unit.tree /\ v.contracts = read
      OBVIOUS
    <3> HIDE DEF v
    <3>4. result'.used = result.used \cup {v}
      BY <3>1, <3>2
    <3> QED BY <3>3, <3>4
  <2>3. unit.file \in File
    BY <1>1, UnitFile
  <2>4. outside = {} => unit.tree.text \in during.texts[unit.file]
    BY <1>1 DEF CacheInv
  <2> HIDE DEF read
  <2> QED BY <1>1, <1>2, <2>1, <2>2, <2>3, <2>4 DEF CurrentInv
<1> QED BY <1>3, <1>4

LEMMA CurrentStep == IInv /\ [Next]_vars => CurrentInv'
<1> SUFFICES ASSUME IInv, [Next]_vars PROVE CurrentInv'
  OBVIOUS
<1> USE DEF IInv
<1>1. CASE Others \/ UNCHANGED vars
  <2>1. /\ sidecar' = sidecar /\ phase' = phase /\ result' = result /\ during'.contracts = during.contracts
        /\ \A f \in File : during.texts[f] \subseteq during'.texts[f]
    BY <1>1, OthersKeep DEF server
  <2> QED BY <2>1, CurrentKept DEF CurrentInv
<1>2. CASE ReadLine
  <2>1. result = EmptyResult /\ result' = result /\ sidecar' = sidecar /\ ~Configured'
    BY <1>2 DEF ReadLine, OwnInv
  <2> QED BY <2>1 DEF CurrentInv, EmptyResult
<1>3. CASE Analyse
  BY <1>3, CurrentAnalyse
<1>4. CASE Exit \/ Configure \/ Start \/ LookUp \/ Parse \/ Store \/ Conclude \/ Reply
  <2>1. during' = during
    BY <1>4 DEF Exit, Configure, Start, LookUp, Parse, Store, Conclude, Reply, history
  <2>2. sidecar' = Nothing \/ (sidecar' = sidecar /\ (Configured' => Configured))
    <3>1. CASE Configure
      BY <3>1 DEF Configure
    <3>2. CASE Exit \/ Reply
      BY <3>2 DEF Exit, Reply
    <3>3. CASE Start \/ LookUp
      BY <3>3 DEF Start, LookUp
    <3>4. CASE Parse
      BY <3>4 DEF Parse
    <3>5. CASE Store \/ Conclude
      BY <3>5 DEF Store, Conclude
    <3> QED BY <1>4, <3>1, <3>2, <3>3, <3>4, <3>5
  <2>3. result'.used \subseteq result.used
    <3>1. PICK a, b, c, d, e, f, g :
              result = [attempted |-> a, analyzed |-> b, broken |-> c, failed |-> d, loadFailed |-> e,
                        incomplete |-> f, used |-> g]
      BY DEF ShapeInv
    <3>2. CASE Start
      <4>1. result'.used = {}
        BY <3>2 DEF Start, EmptyResult
      <4> QED BY <4>1
    <3>6. CASE Reply
      <4>1. result'.used = {}
        BY <3>6 DEF Reply, EmptyResult
      <4> QED BY <4>1
    <3>3. CASE Parse
      BY <3>1, <3>3 DEF Parse, ParseText
    <3>4. CASE Conclude
      BY <3>1, <3>4 DEF Conclude
    <3>5. CASE Exit \/ Configure \/ LookUp \/ Store
      BY <3>5 DEF Exit, Configure, LookUp, Store
    <3> QED BY <1>4, <3>2, <3>3, <3>4, <3>5, <3>6
  <2> QED BY <2>1, <2>2, <2>3, CurrentKept DEF CurrentInv
<1> QED BY <1>1, <1>2, <1>3, <1>4 DEF Next, ServerStep, Others

-----------------------------------------------------------------------------
(* Theorems *)

\* The invariant holds at every point of every session, whatever is edited when.
THEOREM Inductive == Spec => []IInv
<1>1. Init => IInv
  BY ShapeInit, OwnInit, DiskInit, CacheInit, CurrentInit DEF IInv
<1>2. IInv /\ [Next]_vars => IInv'
  BY ShapeStep, OwnStep, DiskStep, CacheStep, CurrentStep DEF IInv
<1> QED BY <1>1, <1>2, PTL DEF Spec

\* An analysis is done under the options, with the summaries and on the files of its own
\* request, and reports the gaps of its own units and their number.
THEOREM OwnRequestAlways == Spec => []OwnRequestOnly
<1>1. IInv => OwnRequestOnly
  BY DEF IInv, OwnInv, Own, OwnRequestOnly
<1> QED BY <1>1, Inductive, PTL

\* As long as no write gives a file a size and a time that it had before, an analysis sees
\* a text that its file had since the request was read, hit or miss; and in any case
\* contracts no older than the request.
THEOREM InputsAlwaysCurrent == Spec => []InputsWereCurrent
<1>1. IInv => InputsWereCurrent
  BY DEF IInv, CurrentInv, InputsWereCurrent
<1> QED BY <1>1, Inductive, PTL

-----------------------------------------------------------------------------
(* The server implements Service *)

\* A line more has been sent.
LEMMA AskedNext ==
    ASSUME ShapeInv, sent < Len(session)
    PROVE  /\ SubSeq(session, 1, sent + 1) = Append(SubSeq(session, 1, sent), session[sent + 1])
           /\ session[sent + 1] \in SessionLine
<1>1. session \in Seq(Range(session)) /\ Len(session) \in Nat /\ DOMAIN session = 1 .. Len(session)
  BY SessionAssumption, LenProperties DEF ShapeInv
<1>2. session \in Session /\ sent \in 0 .. Len(session)
  BY DEF ShapeInv
<1>3. sent + 1 \in 1 .. Len(session)
  BY <1>1, <1>2
<1>4. SubSeq(session, 1, sent + 1) = Append(SubSeq(session, 1, sent), session[sent + 1])
  BY <1>1, <1>2, <1>3, SubSeqProperties, AppendProperties
<1>5. session[sent + 1] \in {session[k] : k \in DOMAIN session}
  BY <1>1, <1>3
<1>6. session[sent + 1] \in SessionLine
  BY <1>2, <1>5 DEF SessionLine
<1> QED BY <1>4, <1>6

\* The lines that Service has been asked are those of the session so far.
LEMMA AskedLine ==
    ASSUME ShapeInv, handled < sent
    PROVE  /\ handled < Len(SubSeq(session, 1, sent))
           /\ SubSeq(session, 1, sent)[handled + 1] = Request
           /\ Request \in {l \in SessionLine : getsNoResponse(l)} <=> getsNoResponse(Request)
<1>1. session \in Seq(Range(session)) /\ Len(session) \in Nat /\ DOMAIN session = 1 .. Len(session)
  BY SessionAssumption, LenProperties DEF ShapeInv
<1>2. session \in Session /\ sent \in 0 .. Len(session) /\ handled \in 0 .. sent
  BY DEF ShapeInv
<1>3. handled + 1 \in 1 .. sent /\ handled + 1 \in 1 .. Len(session)
  BY <1>1, <1>2
<1>4. Len(SubSeq(session, 1, sent)) = sent /\ SubSeq(session, 1, sent)[handled + 1] = session[handled + 1]
  BY <1>1, <1>2, <1>3, SubSeqProperties
<1>5. session[handled + 1] \in {session[k] : k \in DOMAIN session}
  BY <1>1, <1>3
<1>6. Request \in SessionLine
  BY <1>2, <1>5 DEF SessionLine, Request
<1> QED BY <1>4, <1>6 DEF Request

\* The numbers of the lines answered.
Answers(out) == [k \in DOMAIN out |-> out[k].to]

\* One answer more.
LEMMA AnswersNext ==
    ASSUME ShapeInv, NEW r, NEW t, t = Append(output, r)
    PROVE  Answers(t) = Append(Answers(output), r.to)
<1>1. output \in Seq(Range(output))
  BY DEF ShapeInv
<1>2. Extended(output, r, t)
  BY <1>1, AppendAny, Zenon
<1> DEFINE T == {output[k].to : k \in DOMAIN output} \cup {r.to}
           n == Len(output)
<1>3. n \in Nat /\ Answers(output) \in [1 .. n -> T] /\ r.to \in T
  BY <1>2 DEF Answers, Extended
<1>4. Answers(t) = [k \in 1 .. n + 1 |-> IF k = n + 1 THEN r.to ELSE Answers(output)[k]]
  BY <1>2 DEF Answers, Extended
<1> HIDE DEF T, n
<1>5. Answers(output) \in Seq(T) /\ Len(Answers(output)) = n
  BY <1>3, SeqDef
<1> DEFINE a == Answers(output)
<1> HIDE DEF a
<1>6. Append(a, r.to) = [k \in 1 .. Len(a) + 1 |-> IF k = Len(a) + 1 THEN r.to ELSE a[k]]
  OBVIOUS
<1> QED BY <1>4, <1>5, <1>6 DEF a

\* The server's initial states and steps are those of Service, or change nothing of it: lines are
\* dealt with one after another, each that wants an answer gets one, and only one, in their
\* order.  (That every line is dealt with in the end is checked by the run.)
THEOREM Refinement == Spec => S!Init /\ [][S!Next]_(S!vars)
<1>1. Init => S!Init
  <2> SUFFICES ASSUME Init PROVE S!Init
    OBVIOUS
  <2>1. session \in Seq(Range(session)) /\ sent = 0 /\ handled = 0 /\ output = <<>>
    BY SessionAssumption DEF Init
  <2>2. SubSeq(session, 1, sent) = <<>>
    BY <2>1, SubSeqProperties
  <2>3. [k \in DOMAIN output |-> output[k].to] = <<>>
    BY <2>1
  <2> QED BY <2>1, <2>2, <2>3 DEF S!Init
<1>2. ASSUME ShapeInv, [Next]_vars PROVE [S!Next]_(S!vars)
  <2>1. CASE Send
    <3>1. sent < Len(session) /\ sent' = sent + 1 /\ session' = session /\ handled' = handled /\ output' = output
      BY <2>1 DEF Send, server
    <3>2. SubSeq(session, 1, sent)' = Append(SubSeq(session, 1, sent), session[sent + 1])
      BY <1>2, <3>1, AskedNext
    <3>3. S!Ask(session[sent + 1])
      BY <3>1, <3>2 DEF S!Ask
    <3> QED BY <1>2, <3>1, <3>3, AskedNext DEF S!Next
  <2>2. CASE UNCHANGED <<session, sent, handled, output>>
    BY <2>2 DEF S!vars
  <2>3. CASE handled < sent /\ handled' = handled + 1 /\ UNCHANGED <<session, sent>>
             /\ \/ getsNoResponse(Request) /\ output' = output
                \/ ~getsNoResponse(Request) /\ \E r : output' = Append(output, r) /\ r.to = handled + 1
    <3>1. /\ handled < Len(SubSeq(session, 1, sent))
          /\ SubSeq(session, 1, sent)[handled + 1] = Request
          /\ Request \in {l \in SessionLine : getsNoResponse(l)} <=> getsNoResponse(Request)
      BY <1>2, <2>3, AskedLine
    <3>2. CASE getsNoResponse(Request) /\ output' = output
      BY <2>3, <3>1, <3>2 DEF S!Next, S!Deal
    <3>3. CASE ~getsNoResponse(Request) /\ \E r : output' = Append(output, r) /\ r.to = handled + 1
      <4>1. PICK r : output' = Append(output, r) /\ r.to = handled + 1
        BY <3>3
      <4>2. Answers(output') = Append(Answers(output), handled + 1)
        BY <1>2, <4>1, AnswersNext
      <4> QED BY <2>3, <3>1, <3>3, <4>2 DEF S!Next, S!Deal, Answers
    <3> QED BY <2>3, <3>2, <3>3
  <2>4. CASE ReadLine
    <3>1. handled < sent /\ UNCHANGED <<session, sent>>
      BY <2>4 DEF ReadLine, client
    <3>2. CASE Analyzes(Request)
      BY <2>2, <2>4, <3>1, <3>2 DEF ReadLine
    <3>3. CASE ~Analyzes(Request)
      <4>1. handled' = handled + 1
        BY <2>4, <3>3 DEF ReadLine
      <4>2. CASE getsNoResponse(Request)
        BY <2>3, <2>4, <3>1, <3>3, <4>1, <4>2 DEF ReadLine
      <4>3. CASE ~getsNoResponse(Request)
        <5>1. \E r : output' = Append(output, r) /\ r.to = handled + 1
          BY <2>4, <3>3, <4>3 DEF ReadLine, Response
        <5> QED BY <2>3, <3>1, <4>1, <4>3, <5>1
      <4> QED BY <4>2, <4>3
    <3> QED BY <3>2, <3>3
  <2>5. CASE Reply
    <3>1. handled < sent /\ UNCHANGED <<session, sent>> /\ handled' = handled + 1
      BY <1>2, <2>5 DEF Reply, client, ShapeInv
    <3>2. ~getsNoResponse(Request)
      BY <1>2, <2>5 DEF Reply, ShapeInv, Analyzes
    <3>3. \E r : output' = Append(output, r) /\ r.to = handled + 1
      BY <2>5 DEF Reply, Response
    <3> QED BY <2>3, <3>1, <3>2, <3>3
  <2>6. CASE Close \/ EditHeader \/ EditContracts
             \/ \E f \in File, text \in Text \cup {Nothing}, time \in 0 .. MaxEdits : Edit(f, text, time)
    BY <2>2, <2>6 DEF Close, EditHeader, EditContracts, Edit, Edits, client, server
  <2>7. CASE Exit \/ Configure \/ Start \/ LookUp \/ Parse \/ Analyse \/ Store \/ Conclude
    BY <2>2, <2>7 DEF Exit, Configure, Start, LookUp, Parse, Analyse, Store, Conclude, client
  <2>8. CASE UNCHANGED vars
    BY <2>2, <2>8 DEF vars, client, server
  <2> QED BY <1>2, <2>1, <2>4, <2>5, <2>6, <2>7, <2>8 DEF Next, ServerStep
<1>3. IInv => ShapeInv
  BY DEF IInv
<1> QED BY <1>1, <1>2, <1>3, Inductive, PTL DEF Spec
=============================================================================
